------------------------------- MODULE MCPdg --------------------------------
(***************************************************************************)
(* The functions whose PDG TLC builds, in families: every valid body of so   *)
(* many statements of the given kinds, the expressions numbered in the order *)
(* of the text.  A statement is one instruction, or an instruction with the one *)
(* that makes its operand.  A body is grown one statement at a time, each    *)
(* at the end of a list that is still open.                                  *)
(***************************************************************************)
EXTENDS PdgSoundness, MCBodies, TLC

CONSTANT Families    \* the families of functions of the run

Family(items, exprs, stmts) ==
  [items    |-> items,   \* bound on the number of statements
   exprs    |-> exprs,   \* bound on the number of expressions
   stmts    |-> stmts,   \* the kinds of statement
   vars     |-> {1},     \* the variables they use
   arities  |-> {0, 1},  \* results of structured expressions and of the function
   useAtEnd |-> FALSE]   \* the body ends with a use of the first variable

\* Every kind of instruction.
EveryKind ==
  [Family(3, 6, {"Nop", "Const", "get", "tee", "put", "Drop", "Unary", "Convert",
                 "Load", "MemoryGrow", "MemorySize", "Call", "CallIndirect", "binary",
                 "compare", "store", "select", "block", "if", "br_if", "br", "br_table",
                 "Return", "Unreachable"}) EXCEPT !.vars = {1, 2}]
\* Loops that assign.
AssigningLoops ==
  [Family(4, 8, {"set", "block", "loop", "if", "br", "br_if"})
     EXCEPT !.arities = {0}, !.useAtEnd = TRUE]
\* Operands that stay on the stack over joins and loops.
KeptOperands ==
  Family(4, 6, {"Const", "get", "tee", "Unary", "Drop", "block", "loop", "if",
                "br", "br_if"})
\* Loops of every type.
TypedLoops == Family(3, 7, {"Const", "get", "set", "binary", "block", "loop", "br", "br_if"})
LoopResults == Family(3, 4, {"Const", "get", "Unary", "loop", "br_if"})

KindsAndLoops == {EveryKind, AssigningLoops}
Operands      == {KeptOperands}
Aborting      == {LoopResults}

Instr(inst, arg, nargs, n) ==
  [inst |-> inst, arg |-> arg, nargs |-> nargs, nresults |-> n]
Item(kind, targets, op) == [kind |-> kind, targets |-> targets, op |-> op]
PlainItem(inst, arg)    == Item("Plain", <<>>, Instr(inst, arg, 0, 0))
Other(kind, targets, n) == Item(kind, targets, Instr("None", 0, 0, n))

Global   == 2      \* variable 1 is a local
Read(v)  == PlainItem(IF v = Global THEN "GlobalGet" ELSE "LocalGet", v)
Write(v) == PlainItem(IF v = Global THEN "GlobalSet" ELSE "LocalSet", v)
Zero     == PlainItem("Const", 0)

\* The statements called s: the items of each, with variables Vs and results
\* in Arities.
Named(s, Vs, Arities) ==
  CASE s = "set"      -> {<<Zero, Write(v)>> : v \in Vs}
    [] s = "copy"     -> {<<Read(v), Write(w)>> : <<v, w>> \in Vs \X Vs}
    [] s = "use"      -> {<<Read(v), PlainItem("Drop", 0)>> : v \in Vs}
    [] s = "br"       -> {<<Other("Br", <<t>>, 0)>> : t \in Exprs}
    [] s = "br_if"    -> {<<Read(1), Other("BrIf", <<t>>, 0)>> : t \in Exprs}
    [] s = "br_table" -> {<<Read(1), Other("BrTable", <<t, u>>, 0)>> :
                            <<t, u>> \in Exprs \X Exprs}
    [] s = "block"    -> {<<Other("Block", <<>>, n)>> : n \in Arities}
    [] s = "loop"     -> {<<Other("Loop", <<>>, n)>> : n \in Arities}
    [] s = "if"       -> {<<Read(1), Other("If", <<>>, n)>> : n \in Arities}
    [] s \in {"Return", "Unreachable"} -> {<<Other(s, <<>>, 0)>>}
    [] s = "Call"  -> {<<Item("Call", <<>>, Instr("None", 0, k, n))>> :
                         <<k, n>> \in {0, 1} \X Arities}
    [] s = "CallIndirect" -> {<<Item(s, <<>>, Instr("None", 0, 1, n))>> : n \in Arities}
    [] s = "binary"   -> {<<Read(1), PlainItem("Binary", 0)>>}
    [] s = "compare"  -> {<<Zero, PlainItem("Compare", 0)>>}
    [] s = "store"    -> {<<Read(1), PlainItem("Store", 0)>>}
    [] s = "select"   -> {<<Zero, Read(1), PlainItem("Select", 0)>>}
    [] s = "get"      -> {<<Read(v)>> : v \in Vs}
    [] s = "put"      -> {<<Write(v)>> : v \in Vs}
    [] s = "tee"      -> {<<PlainItem("LocalTee", v)>> : v \in Vs \ {Global}}
    [] OTHER -> {<<PlainItem(s, 0)>>}

Statements(x) == UNION {Named(s, x.vars, x.arities) : s \in x.stmts}

\* The items of statement x as numbers m, m + 1, ... of a body, in list l.
Placed(x, l, m) ==
  [i \in DOMAIN x |->
     [kind |-> x[i].kind, targets |-> x[i].targets, op |-> x[i].op, list |-> l,
      label |-> IF x[i].kind \in Structured THEN m + i - 1 ELSE 0]]

\* What item x pops and pushes; the target of a branch takes n results.
Pops(x, n) ==
  CASE x.kind = "Plain" ->
         (CASE x.op.inst \in {"Drop", "LocalTee", "Load", "MemoryGrow", "Unary",
                               "Convert"} \cup Sets -> 1
            [] x.op.inst \in {"Binary", "Compare", "Store"} -> 2
            [] x.op.inst = "Select" -> 3
            [] OTHER -> 0)
    [] x.kind \in Calls -> x.op.nargs
    [] x.kind = "If" -> 1
    [] x.kind \in {"Br", "Return"} -> n
    [] x.kind \in {"BrIf", "BrTable"} -> 1 + n
    [] OTHER -> 0

Gives(x, n) ==
  CASE x.kind = "Plain" ->
         IF x.op.inst \in {"Drop", "Store", "Nop"} \cup Sets THEN 0 ELSE 1
    [] x.kind \in Calls \cup Structured -> x.op.nresults
    [] x.kind = "BrIf" -> n
    [] OTHER -> 0

\* The results that item x of body b hands on by its jump.
Carried(b, x, n) ==
  IF x.kind = "Return" THEN n
  ELSE IF x.kind \notin Branches \/ b[x.targets[1]].kind = "Loop" THEN 0
  ELSE b[x.targets[1]].op.nresults

\* The operands on a list's stack: how many, or whether any number (after a
\* jump), or whether some were missing.
EmptyStack == [h |-> 0, any |-> FALSE, bad |-> FALSE]

\* After item x of body b, of a function of n results.
HeightAfter(s, b, x, n) ==
  LET k == Carried(b, x, n)
      p == Pops(x, k)
  IN  [h   |-> (IF s.h >= p THEN s.h - p ELSE 0) + Gives(x, k),
       any |-> s.any \/ x.kind \in {"Br", "BrTable", "Return", "Unreachable"},
       bad |-> s.bad \/ (s.h < p /\ ~s.any)]

\* At the end of list l of body b.
Height(b, l, n) ==
  LET H[i \in 0..Len(b)] == IF i = 0 THEN EmptyStack
                            ELSE IF b[i].list # l THEN H[i - 1]
                            ELSE HeightAfter(H[i - 1], b, b[i], n)
  IN  H[Len(b)]

ResultsOf(b, l, n) == IF l = RootList THEN n ELSE b[l[1]].op.nresults

Fits(b, l, n) ==
  LET x == Height(b, l, n)  k == ResultsOf(b, l, n)
  IN  ~x.bad /\ (x.h = k \/ (x.any /\ x.h < k))

AllLists(b) ==
  {RootList} \cup {<<o, "body">> : o \in {o \in 1..Len(b) : b[o].kind \in {"Block", "Loop"}}}
   \cup {<<o, a>> : <<o, a>> \in {o \in 1..Len(b) : b[o].kind = "If"} \X {"then", "else"}}

\* Where one of the bodies may go on, and what is on the stack there.
Points(bodies, Arities) ==
  {[body |-> p[1], list |-> p[2], scope |-> InScope(p[1], p[2]),
    heights |-> {<<n, Height(p[1], p[2], n)>> : n \in Arities}] : p \in Places(bodies)}

\* Statement x may come at point p.
Legal(p, x, exprs) ==
  /\ Len(p.body) + Len(x) <= exprs
  /\ \A i \in DOMAIN x : ToSet(x[i].targets) \subseteq p.scope
  /\ \E <<n, s>> \in p.heights :
       LET H[i \in 0..Len(x)] ==
             IF i = 0 THEN s ELSE HeightAfter(H[i - 1], p.body, x[i], n)
       IN  ~H[Len(x)].bad

Bodies(x) ==
  LET B[n \in 0..x.items] ==
        IF n = 0 THEN {<<>>}
        ELSE {q[1].body \o Placed(q[2], q[1].list, Len(q[1].body) + 1) :
                q \in {q \in Points(B[n - 1], x.arities) \X Statements(x) :
                         Legal(q[1], q[2], x.exprs)}}
  IN  B[x.items]

\* A list of the body has no expression.
HasHole(b) == \E o \in 1..Len(b) :
   \/ b[o].kind \in {"Block", "Loop"} /\ Children(b, <<o, "body">>) = {}
   \/ b[o].kind = "If" /\ Children(b, <<o, "then">>) = {}

WellTyped(b, n) == ~HasHole(b) /\ \A l \in AllLists(b) : Fits(b, l, n)

Ending(x) == IF ~x.useAtEnd THEN <<>>
          ELSE [i \in 1..2 |-> [kind |-> "Plain", targets |-> <<>>, label |-> 0,
                  list |-> RootList, op |-> IF i = 1 THEN Read(1).op ELSE Instr("Drop", 0, 0, 0)]]

ToProgram(b, n) ==
  [fn |-> [kind    |-> [e \in Exprs |-> IF e <= Len(b) THEN b[e].kind ELSE "Plain"],
           label   |-> [e \in Exprs |-> IF e <= Len(b) THEN b[e].label ELSE 0],
           targets |-> [e \in Exprs |-> IF e <= Len(b) THEN b[e].targets ELSE <<>>],
           callees |-> [e \in Exprs |-> {}],
           list    |-> [l \in Lists |-> SortedSeq(Children(b, l))]],
   op |-> [e \in Exprs |-> IF e <= Len(b) THEN b[e].op ELSE Instr("None", 0, 0, 0)],
   nresults |-> n]

ProgramsOf(x) ==
  {ToProgram(p[1] \o Ending(x), p[2]) :
     p \in {p \in Bodies(x) \X x.arities : WellTyped(p[1] \o Ending(x), p[2])}}

MCExprs    == 1 .. Max({x.exprs + (IF x.useAtEnd THEN 2 ELSE 0) : x \in Families})
MCLabels   == {0} \cup Exprs
MCVars     == Max(UNION {x.vars : x \in Families})
MCPrograms == FoldSet(LAMBDA x, s : ProgramsOf(x) \cup s, {}, Families)
=============================================================================
