------------------------------ MODULE WasmExec ------------------------------
(***************************************************************************)
(* What WebAssembly's structured control flow lets a function body do: the  *)
(* control points of an execution and the steps between them, read off the  *)
(* nesting of the body alone.  It is the reference the graph built by       *)
(* CfgBuilder is compared with; it shares the names of the nodes with it    *)
(* and nothing else: no label stack, no edges, no results of construct.     *)
(***************************************************************************)
EXTENDS WasmFunction

\* The list that holds expression e and its place in it.
Holder(f, e)   == CHOOSE l \in Lists : \E i \in DOMAIN f.list[l] : f.list[l][i] = e
Position(f, e) == CHOOSE i \in DOMAIN f.list[Holder(f, e)] :
                    f.list[Holder(f, e)][i] = e
InBody(f, e)   == \E l \in Lists : \E i \in DOMAIN f.list[l] : f.list[l][i] = e
Body(f)        == {e \in Exprs : InBody(f, e)}

IsLastOfList(f, e) == Position(f, e) = Len(f.list[Holder(f, e)])
NextOf(f, e)       == f.list[Holder(f, e)][Position(f, e) + 1]

\* Where control is when list l of the function has run to its end.
EndOf(f, l) ==
  IF l = RootList THEN RetFunc
  ELSE IF f.kind[l[1]] = "Loop" THEN EndLoop(l[1]) ELSE EndBlock(l[1])

\* Where control goes when expression e has completed.
After(f, e) == IF IsLastOfList(f, e) THEN EndOf(f, Holder(f, e))
               ELSE NodeOf(f, NextOf(f, e))

\* Where control is when list l is entered.
StartOf(f, l) == IF f.list[l] = <<>> THEN EndOf(f, l)
                 ELSE NodeOf(f, f.list[l][1])

\* The innermost structured expression around e that declares label t.
Binder(f, e, t) ==
  LET B[x \in Body(f)] ==
        LET o == Holder(f, x)[1]
        IN  IF o = 0 \/ f.label[o] = t THEN o ELSE B[o]
  IN  B[e]

\* A branch to a loop goes to its start, a branch to a Block or If to its end.
BranchTo(f, e, t) ==
  LET b == Binder(f, e, t)
  IN  IF b = 0 THEN RetFunc
      ELSE IF f.kind[b] = "Loop" THEN Inst(b) ELSE EndBlock(b)

(***************************************************************************)
(* Step(f, p): the control points that may follow p, each with the outcome  *)
(* that chooses it.                                                         *)
(***************************************************************************)
InstSteps(f, e) ==
  CASE f.kind[e] \in {"Plain"} \cup Calls -> {<<After(f, e), Plainly>>}
    [] f.kind[e] = "Unreachable"  -> {<<Trap, Plainly>>}
    [] f.kind[e] = "Br"           -> {<<BranchTo(f, e, f.targets[e][1]), Plainly>>}
    [] f.kind[e] = "BrIf"         -> {<<BranchTo(f, e, f.targets[e][1]), OnTrue>>,
                                      <<After(f, e), OnFalse>>}
    [] f.kind[e] = "BrTable"      ->
         LET n == Len(f.targets[e])
         IN  {<<BranchTo(f, e, f.targets[e][i]),
                IF i = n THEN OnDefault ELSE OnCase(i - 1)>> : i \in 1..n}
    [] f.kind[e] \in {"Block", "Loop"} -> {<<StartOf(f, <<e, "body">>), Plainly>>}
    [] f.kind[e] = "If"           -> {<<ThenBegin(e), OnTrue>>,
                                      <<ElseBegin(e), OnFalse>>}

Step(f, p) ==
  CASE p = InstsNode        -> {<<StartOf(f, RootList), Plainly>>}
    [] p[1] = "inst"        -> InstSteps(f, p[2])
    [] p[1] = "then"        -> {<<StartOf(f, <<p[2], "then">>), Plainly>>}
    [] p[1] = "else"        -> {<<StartOf(f, <<p[2], "else">>), Plainly>>}
    [] p[1] \in {"block", "endloop"} -> {<<After(f, p[2]), Plainly>>}
    [] p \in {RetFunc, Trap} -> {}

\* The graph has no node for the end of a loop that ends its list: control
\* is then already where the loop's own completion leads.
View(f, p) ==
  LET Ends(q) == q[1] = "endloop" /\ IsLastOfList(f, q[2])
      V[x \in Body(f)] == LET a == After(f, x)
                           IN  IF Ends(a) THEN V[a[2]] ELSE a
  IN  IF Ends(p) THEN V[p[2]] ELSE p
=============================================================================
