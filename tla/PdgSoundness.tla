---------------------------- MODULE PdgSoundness ----------------------------
(***************************************************************************)
(* The program dependence graph compared with what the executions of the    *)
(* function do: along each path of WasmExec, the operands, the variables and *)
(* the blocks entered, with no waiting, no uniting and no shared objects.    *)
(* What an instruction makes of its operands' definitions is the builder's   *)
(* own notion of a dependence (a constant is not passed on by a Unary) and   *)
(* shared with it.                                                           *)
(***************************************************************************)
EXTENDS PdgBuilder, WasmExec

\* A state of an execution: where it is, its operands (the top last), its
\* variables, and the structured expressions around with the operands they
\* found.
State(at_, vals_, vars_, open_) ==
  [at |-> at_, vals |-> vals_, vars |-> vars_, open |-> open_]

EntryState == State(InstsNode, <<>>, [v \in 1..NumVars |-> NoDef], <<>>)

Val(s, i) == s.vals[Len(s.vals) + 1 - i]
Drops(s, k) == [s EXCEPT !.vals = SubSeq(@, 1, Len(@) - k)]
Pushes(s, d) == [s EXCEPT !.vals = Append(@, d)]

\* Expression e is left, by its end or by a branch: k operands are kept of
\* those computed inside.
Leaves(s, e, k) ==
  LET i == CHOOSE i \in DOMAIN s.open : s.open[i].expr = e
      n == Len(s.vals)
  IN  [s EXCEPT !.vals = SubSeq(@, 1, s.open[i].height) \o SubSeq(@, n - k + 1, n),
                !.open = SubSeq(@, 1, i - 1)]

Enters(s, e) ==
  [s EXCEPT !.open = Append(@, [expr |-> e, height |-> Len(s.vals)])]

\* What the instruction at s.at does to the state.
Done(s) ==
  LET n == s.at  k == instType(n)
      x == Op(n).arg
  IN CASE k = "BeginBlock" -> Enters(s, n[2])
       [] k \in {"Block", "EndLoop"} -> Leaves(s, n[2], nresults(n))
       [] k = "Loop" -> Enters(IF \E i \in DOMAIN s.open : s.open[i].expr = n[2]
                              THEN Leaves(s, n[2], 0) ELSE s, n[2])
       [] k \in {"BrIf", "BrTable", "If", "Drop"} -> Drops(s, 1)
       [] k = "Store"      -> Drops(s, 2)
       [] k = "Const"      -> Pushes(s, NewDef(n))
       [] k = "MemorySize" -> Pushes(s, NoDef)
       [] k \in {"Load", "MemoryGrow"} -> Pushes(Drops(s, 1), NoDef)
       [] k = "Convert"    -> Pushes(Drops(s, 1), ClearTo(Val(s, 1), n))
       [] k = "Unary"      -> Pushes(Drops(s, 1), ClearTo(removeConsts(Val(s, 1)), n))
       [] k \in {"Binary", "Compare"} -> Pushes(Drops(s, 2),
            ClearTo(removeConsts(UnionDef(Val(s, 1), Val(s, 2))), n))
       [] k = "Select"     -> Pushes(Drops(s, 3), UnionDef(Val(s, 3), Val(s, 2)))
       [] k \in Gets       -> Pushes(s, IF s.vars[x] = NoDef THEN NewDef(n)
                                       ELSE ClearTo(s.vars[x], n))
       [] k \in Sets       -> [Drops(s, 1) EXCEPT !.vars[x] = ClearTo(Val(s, 1), n)]
       [] k = "LocalTee"   -> [Pushes(Drops(s, 1), ClearTo(Val(s, 1), n))
                                EXCEPT !.vars[x] = ClearTo(Val(s, 1), n)]
       [] k \in Calls      -> IF nresults(n) = 1
                             THEN Pushes(Drops(s, Op(n).nargs), NewDef(n))
                             ELSE Drops(s, Op(n).nargs)
       [] OTHER -> s

\* The operands that the instruction at s.at uses, and the variable it reads.
Used(s) ==
  LET k == instType(s.at)
      m == CASE k \in {"BrIf", "BrTable", "If", "Load", "MemoryGrow", "Convert",
                       "Unary", "LocalTee", "Select"} \cup Sets -> 1
             [] k \in {"Store", "Binary", "Compare"} -> 2
             [] k \in Calls -> Op(s.at).nargs
             [] k = "Return" -> code.nresults
             [] OTHER -> 0
  IN  {Val(s, i) : i \in 1..m}
        \cup IF k \in Gets THEN {s.vars[Op(s.at).arg]} ELSE {}

FlowsAt(s) == UNION {insertPDGEdge(d, s.at) : d \in Used(s)}

Successors(s) ==
  {[Done(s) EXCEPT !.at = t[1]] : t \in Step(fn, s.at)}

RECURSIVE Closure(_, _)
Closure(seen, new) ==
  IF new = {} THEN seen
  ELSE Closure(seen \cup new,
               UNION {Successors(s) : s \in new} \ (seen \cup new))

\* Every state of every execution of the function.
Executions == Closure({}, {EntryState})

Flows == UNION {FlowsAt(s) : s \in Executions}

-----------------------------------------------------------------------------
(* The functions that the builder analyses completely.  Each condition       *)
(* leaves out the functions on which one decision of the builder loses a     *)
(* path: a node then waits for what never comes, or does not wait enough.    *)

RECURSIVE Closed(_, _, _)
Closed(seen, new, barred) ==
  IF new = {} THEN seen \ barred
  ELSE Closed(seen \cup new,
              {d.dest : d \in {d \in edges : d.src \in new \ barred}}
                \ (seen \cup new), barred)

\* The nodes on a path of the CFG from n that does not go through a barred
\* node, n included.
ReachedFrom(n, barred) == Closed({}, {n}, barred)

Live  == ReachedFrom(InstsNode, {})
Loops == {n \in Live : instType(n) = "Loop"}

\* Node n belongs to the body of loop l.
InLoop(n, l) == n[2] \in Below[l[2]] /\ n # EndLoop(l[2])

BackEdges == {d \in edges : d.src \in Live /\ d.dest \in Loops
                            /\ InLoop(d.src, d.dest)}

\* waitPaths counts the edges from dead code, along which nothing comes.
NoDeadEdges == \A d \in edges : d.src \in Live

\* The CFG has lost a join (CfgSoundness): code that can run is not reached.
GraphFollows == \A s \in Executions : View(fn, s.at) \in Live

\* A loop is left in its last pass, which only a back edge starts.
LoopsTurn == \A l \in Loops : \E d \in BackEdges : d.dest = l

\* The end of a loop has no edge in the syntax tree: it is not one of the
\* instructions of the loop around, whose pass ends there.
NoInnerEnds ==
  \A n \in Live : n[1] = "endloop" =>
    \A l \in Loops : l # Inst(n[2]) /\ n[2] \in Below[l[2]] =>
      l \notin ReachedFrom(n, {})

\* waitPaths counts what has come in, not the edges it came along: a node
\* that a loop's passes reach along one edge only goes on too early.
JoinsKeepPace ==
  \A b \in BackEdges : \A c, d \in edges :
    c.dest = d.dest /\ d.dest # b.dest =>
      /\ c.src \in ReachedFrom(b.src, {b.dest}) => d.src \in ReachedFrom(b.src, {b.dest})
      /\ InLoop(c.src, b.dest) => InLoop(d.src, b.dest)

\* The copy of a ReachDefinition for the second successor shares its operands,
\* which a Unary or Binary after the first successor changes in place.
ForksCarryNothing ==
  \A e \in Exprs : InBody(fn, e) /\ fn.kind[e] \in {"BrIf", "BrTable"} =>
    \A k \in DOMAIN fn.targets[e] :
      LET b == Binder(fn, e, fn.targets[e][k])
      IN  b # 0 /\ (fn.kind[b] = "Loop" \/ code.op[b].nresults = 0)

Favourable ==
  /\ NoDeadEdges /\ GraphFollows /\ LoopsTurn
  /\ NoInnerEnds /\ JoinsKeepPace /\ ForksCarryNothing

-----------------------------------------------------------------------------
Assigned(v) ==
  \E e \in Exprs : /\ InBody(fn, e) /\ fn.kind[e] = "Plain"
                   /\ code.op[e].inst \in Sets \cup {"LocalTee"} /\ code.op[e].arg = v

\* What a flow is recorded by: its edge, or one with its name where a Binary
\* unites two operands that have a name in common.  A variable's initial value
\* gets a name at a Get that no assignment reaches, and at no other.
Recorded(f) ==
  \/ f \in pdg
  \/ /\ instType(f.dest) \in {"Binary", "Compare"}
     /\ \E d \in pdg : d.dest = f.dest /\ d.name = f.name
  \/ f.name[1] \in Gets /\ Assigned(f.name[2])

\* Whatever path an execution takes, what an instruction uses on it has an
\* edge in the PDG: advance, waitPaths, unionDef and the passes of
\* visitLoopInst lose no definition on the way.
FlowsRecorded ==
  phase = "done" /\ Favourable => \A f \in Flows : Recorded(f)

\* The PDG has no edge that no execution justifies: what is united at a node,
\* and what a loop's caches bring back, has come there on some path.
NoOtherFlows == phase = "done" => pdg \subseteq Flows

\* A loop is entered with operands below it, or has a result.
LoopsAmongOperands ==
  \E s \in Executions : instType(s.at) = "Loop" /\ (s.vals # <<>> \/ nresults(s.at) > 0)

\* Nothing but a loop among operands makes an assert of the PDG builder fail:
\* everywhere else all paths to a node bring operands and labels that unionDef
\* can unite, and as many as the visit takes.
AbortNeedsCause == phase = "aborted" => LoopsAmongOperands

\* The asserts of the visits and of ReachDefinition::unionDef hold.
NeverAborts == phase # "aborted"

\* generatePDG's work list is emptied: the passes through a loop come to an
\* end, whatever the nesting.
Terminates == <>(phase \in {"done", "aborted"})
=============================================================================
