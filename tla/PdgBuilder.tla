----------------------------- MODULE PdgBuilder -----------------------------
(***************************************************************************)
(* wasmati::PDG: the construction of the program dependence graph of one    *)
(* function on the CFG that CfgBuilder has made (pdg-builder.cc).  A work    *)
(* list of nodes is emptied from its front; a node waits until definitions  *)
(* have come in along its edges, is analysed once, and hands its result on; *)
(* a loop is gone through until its definitions no longer change.            *)
(*                                                                          *)
(* ReachDefinition and Definition objects are shared through pointers (a     *)
(* copy of a ReachDefinition shares the operands on its stack), so they      *)
(* live in a heap and the rest of the state holds their identities.          *)
(***************************************************************************)
EXTENDS CfgBuilder, FiniteSets

CONSTANTS
  NumVars,   \* the function's locals and the module's globals, by name order
  Programs   \* the functions with their instructions, see IsProgram

VARIABLES
  code,      \* the function: its body, instructions and number of results
  work,      \* _dfsList, its front first
  reach,     \* _reachDef: node -> the ReachDefinitions that have come in
  heap,      \* the Definition and ReachDefinition objects
  loops,     \* _loops, by LoopInst; 0 for none
  entrances, \* _loopsEntrances
  cache,     \* _cacheDefloops; 0 for none
  begun,     \* the BeginBlockInsts added to _loopsInsts
  pdg,       \* the PDG edges
  phase      \* "cfg", "pdg", "done", or "aborted" by a failed assert

pdgVars == <<code, work, reach, heap, loops, entrances, cache, begun, pdg, phase>>

\* Expressions of kind Plain, by InstType.
Gets == {"LocalGet", "GlobalGet"}
Sets == {"LocalSet", "GlobalSet"}
Accesses == Gets \cup Sets \cup {"LocalTee"}
PlainInsts == {"Nop", "Drop", "Select", "MemorySize", "MemoryGrow", "Load", "Store",
               "Const", "Binary", "Compare", "Convert", "Unary"} \cup Accesses

\* arg: the variable of a get, set or tee, the value of a Const; the numbers
\* of arguments and results of a call, and of results of a Block, Loop or If.
Ops == [inst : PlainInsts \cup Calls \cup {"None"}, arg : Nat,
        nargs : Nat, nresults : Nat]

IsProgram(p) ==
  /\ IsBody(p.fn)
  /\ p.op \in [Exprs -> Ops]
  /\ \A e \in Exprs : p.op[e].inst \in Accesses => p.op[e].arg \in 1..NumVars
  /\ p.nresults \in {0, 1}

ASSUME NumVarsAssumption  == NumVars \in Nat
ASSUME ProgramsAssumption == \A p \in Programs : IsProgram(p)

-----------------------------------------------------------------------------
(* The nodes as the PDG builder sees them. *)

Op(n) == code.op[n[2]]

instType(n) ==
  CASE n[1] = "inst" /\ fn.kind[n[2]] = "Block" -> "BeginBlock"
    [] n[1] = "inst" /\ fn.kind[n[2]] = "Plain" -> Op(n).inst
    [] n[1] = "inst" /\ fn.kind[n[2]] \notin {"Block", "Plain"} -> fn.kind[n[2]]
    [] n[1] \in {"then", "else"} -> "BeginBlock"
    [] n[1] = "block"   -> "Block"
    [] n[1] = "endloop" -> "EndLoop"
    [] n[1] = "return"  -> "Return"
    [] OTHER -> "None"

nresults(n) == IF n = RetFunc THEN code.nresults ELSE Op(n).nresults
label(n)    == fn.label[n[2]]

\* Expression e and the expressions inside it.
Below[e \in Exprs] ==
  {e} \cup UNION {UNION {Below[fn.list[l][i]] : i \in DOMAIN fn.list[l]} :
                   l \in {e} \X {"body", "then", "else"}}

\* BFSincludes({loop}, ALL_NODES, AST_EDGES): begin nodes, the ends of loops
\* and the function's return node are not below a loop in the syntax tree.
ASTBelow(n) ==
  LET below == Below[n[2]]
  IN  {Inst(e) : e \in {x \in below : fn.kind[x] \notin {"Block", "Return"}}}
        \cup {EndBlock(e) : e \in {x \in below : fn.kind[x] \in {"Block", "If"}}}

loopsInsts(n) == ASTBelow(n) \cup begun[n]

\* The order of node identifiers, which are given by the constructors: the
\* return node first, a BlockInst before and its BeginBlockInst after what is
\* inside, and last the nodes the CFG builder has made.
MaxOf(S) == CHOOSE x \in S : \A y \in S : y <= x
LastExprId == MaxOf(Exprs \cup {0})
Turn     == LastExprId + 4
Rank(n) ==
  CASE n[1] = "return" -> 0
    [] n[1] = "inst" /\ fn.kind[n[2]] = "Block" ->
         MaxOf(Below[n[2]]) * Turn + 3 + (LastExprId - n[2])
    [] n[1] = "inst" /\ fn.kind[n[2]] # "Block" -> n[2] * Turn
    [] n[1] = "block" -> n[2] * Turn + (IF fn.kind[n[2]] = "If" THEN 1 ELSE 0)
    [] n[1] = "then"  -> n[2] * Turn + 2
    [] OTHER -> (LastExprId + 1) * Turn

Before(c, d) == \/ Rank(c.dest) < Rank(d.dest)
                \/ /\ Rank(c.dest) = Rank(d.dest)
                   /\ c.label[1] = "case"
                   /\ d.label[1] = "case" => c.label[2] < d.label[2]

inEdges(n)  == {d \in edges : d.dest = n}

\* The edges of n in the order of its EdgeSet.  Those to the same node that
\* Before leaves in any order are different conditions of one branch.
outEdges(n) ==
  CHOOSE s \in SetToSeqs({d \in edges : d.src = n}) :
    \A i, j \in DOMAIN s : i < j => ~Before(s[j], s[i])

-----------------------------------------------------------------------------
(* Definitions: for each node that gave a name to a value, the node the      *)
(* value now comes from.                                                     *)

NoDef          == [k \in {} |-> 0]
NewDef(n)      == [k \in {n} |-> n]
ClearTo(d, n)  == [k \in DOMAIN d |-> n]
IsConst(k)     == instType(k) = "Const"
removeConsts(d) == [k \in {k \in DOMAIN d : ~IsConst(k)} |-> d[k]]

\* std::map::insert does not overwrite.
UnionDef(d, c) ==
  [k \in DOMAIN d \cup DOMAIN c |-> IF k \in DOMAIN d THEN d[k] ELSE c[k]]

\* The name on an edge: the variable, the value or the function.
NameOf(k) == <<instType(k), Op(k).arg>>

insertPDGEdge(d, n) ==
  {[src |-> d[k], dest |-> n, name |-> NameOf(k)] : k \in DOMAIN d}

\* Definition::equals compares the names, never where the values come from.
EqualDef(d, c) == DOMAIN d = DOMAIN c

-----------------------------------------------------------------------------
(* ReachDefinitions: the definition of each variable, the operands (the top  *)
(* of the stack last) and the labels, each with the height of the stack      *)
(* where it was pushed.                                                      *)

ReachDef(vars_, stack_, labels_) ==
  [vars |-> vars_, stack |-> stack_, labels |-> labels_]

rd(h, r)     == h.rds[r]
Operand(h, r, i) == rd(h, r).stack[Len(rd(h, r).stack) + 1 - i]  \* 1 is the top
DefOf(h, id) == h.defs[id]
Put(h, id, d) == [h EXCEPT !.defs[id] = d]

stackSize(x) == IF x.labels = <<>> THEN Len(x.stack)
                ELSE Len(x.stack) - Last(x.labels).pointer

push(h, r, d) ==
  [defs |-> Append(h.defs, d),
   rds  |-> [h.rds EXCEPT ![r].stack = Append(@, Len(h.defs) + 1)]]

pop(h, r, n) == [h EXCEPT !.rds[r].stack = SubSeq(@, 1, Len(@) - n)]

\* variant: the definitions are copied and the ReachDefinition is not.
Copies_lost(h, r, m) ==
  [h EXCEPT !.defs = @ \o [x \in 1 .. m * NumVars |->
                         DefOf(h, rd(h, r).vars[((x - 1) % NumVars) + 1])]]

\* m copies of ReachDefinition r: new objects for the variables' definitions,
\* the same objects on the stack.
Copies(h, r, m) ==
  [defs |-> h.defs \o [x \in 1 .. m * NumVars |->
                         DefOf(h, rd(h, r).vars[((x - 1) % NumVars) + 1])],
   rds  |-> h.rds \o [j \in 1..m |->
              [rd(h, r) EXCEPT !.vars = [v \in 1..NumVars |->
                                    Len(h.defs) + (j - 1) * NumVars + v]]]]

pushLabel(x, name) ==
  [x EXCEPT !.labels = Append(@, [name |-> name, pointer |-> Len(x.stack)])]

containsLabel(x, name) == \E i \in DOMAIN x.labels : x.labels[i].name = name

popLabel(x, name) ==
  LET i == MaxOf({i \in DOMAIN x.labels : x.labels[i].name = name})
  IN  ReachDef(x.vars, SubSeq(x.stack, 1, x.labels[i].pointer),
               SubSeq(x.labels, 1, i - 1))

\* Applies F below the n results on the top of the stack.
Under(x, n, F(_)) ==
  LET k == Len(x.stack) - n
      y == F([x EXCEPT !.stack = SubSeq(@, 1, k)])
  IN  [y EXCEPT !.stack = @ \o SubSeq(x.stack, k + 1, k + n)]

\* ReachDefinition::equals compares stacks and labels of equal size only.
EqualRd(h, r, q) ==
  LET x == rd(h, r)  y == rd(h, q)
  IN  /\ \A v \in 1..NumVars : EqualDef(DefOf(h, x.vars[v]), DefOf(h, y.vars[v]))
      /\ Len(x.stack) = Len(y.stack) =>
           \A i \in DOMAIN x.stack :
             EqualDef(DefOf(h, x.stack[i]), DefOf(h, y.stack[i]))
      /\ Len(x.labels) = Len(y.labels) => x.labels = y.labels

Unites(h, r, q) == /\ Len(rd(h, r).stack) = Len(rd(h, q).stack)
                   /\ rd(h, r).labels = rd(h, q).labels

\* Object a takes in object b: it keeps what it has.
TakeIn(h, a, b) == Put(h, a, UnionDef(DefOf(h, a), DefOf(h, b)))

\* The objects a, in their order, take in the objects b, in place.
TakeAll(h, a, b) ==
  LET H[i \in 0..Len(a)] == IF i = 0 THEN h ELSE TakeIn(H[i - 1], a[i], b[i])
  IN  H[Len(a)]

\* The objects of a ReachDefinition, in the order of unionDef.
Objects(x) == x.vars \o Reverse(x.stack)

\* variant: the operands are left as they are.
UnionRd_variables(h, r, q) == TakeAll(h, rd(h, r).vars, rd(h, q).vars)

\* ReachDefinition::unionDef: each of r's objects takes in q's.
UnionRd(h, r, q) == TakeAll(h, Objects(rd(h, r)), Objects(rd(h, q)))

-----------------------------------------------------------------------------
(* The front of the work list. *)

Here    == Head(work).node
From    == Head(work).last    \* _lastNode
Around  == Head(work).loops   \* _loopsStack, its top last
TopIs(n) == Around # <<>> /\ Last(Around) = n

Visits(kinds) == phase = "pdg" /\ work # <<>> /\ instType(Here) \in kinds

\* A BeginBlockInst joins the innermost loop as soon as it is looked at.
Begun == IF instType(Here) = "BeginBlock" /\ Around # <<>>
         THEN [begun EXCEPT ![Last(Around)] = @ \cup {Here}] ELSE begun

\* variant: a loop waits for all its edges.
Awaited_all(n) == inEdges(n)

\* A loop waits for the edges from the side that control comes from now.
Awaited(n) ==
  IF instType(n) = "Loop"
  THEN {d \in inEdges(n) : (d.src \in loopsInsts(n)) <=> (From \in loopsInsts(n))}
  ELSE inEdges(n)

waitPaths ==
  \/ Around # <<>> /\ Here \notin ASTBelow(Last(Around)) \cup Begun[Last(Around)]
  \/ Cardinality(reach[Here]) < Cardinality(Awaited(Here))

\* What getReachDef, visitBlockInst and visitEndLoopInst do to each of the
\* definitions that have come in, before they are united.
SettledLoop(n, x) ==
  LET k == IF nresults(n) < stackSize(x) THEN nresults(n) ELSE stackSize(x)
      Renew(y) == pushLabel(IF loops[n] # 0 /\ containsLabel(y, label(n))
                            THEN popLabel(y, label(n)) ELSE y, label(n))
  IN  Under(x, k, Renew)

Settled(n, x) ==
  CASE instType(n) = "Loop" -> SettledLoop(n, x)
    [] instType(n) \in {"Block", "EndLoop"} ->
         Under(x, nresults(n), LAMBDA y : popLabel(y, label(n)))
    [] instType(n) = "Return" ->
         Under(x, nresults(n), LAMBDA y : ReachDef(y.vars, <<>>, <<>>))
    [] OTHER -> x

SettledHeap ==
  [heap EXCEPT !.rds = [i \in DOMAIN heap.rds |->
     IF i \in reach[Here] THEN Settled(Here, rd(heap, i)) ELSE rd(heap, i)]]

\* The first of the ReachDefinitions q takes in the others.
UniteAll(h, q) ==
  LET H[i \in 1..Len(q)] == IF i = 1 THEN h ELSE UnionRd(H[i - 1], q[1], q[i])
  IN  H[Len(q)]

\* getReachDef: all that came in is united in the first of the set.  The set
\* is ordered by address: any order.
Gathered ==
  {[rd |-> q[1], heap |-> UniteAll(SettledHeap, q)] : q \in SetToSeqs(reach[Here])}

\* The operands that the visit of n asserts to be there.
Needs(n) ==
  CASE instType(n) \in {"Drop", "Convert", "Unary", "Load", "MemoryGrow", "LocalTee",
                        "BrIf", "BrTable", "If"} \cup Sets -> 1
    [] instType(n) \in {"Binary", "Compare", "Store"} -> 2
    [] instType(n) = "Select" -> 3
    [] instType(n) \in Calls -> Op(n).nargs
    [] OTHER -> 0

\* The asserts of the visit of Here hold.
Asserts ==
  /\ reach[Here] # {}
  /\ \A r \in reach[Here] :
       /\ instType(Here) \in {"Block", "EndLoop"} =>
            /\ stackSize(rd(heap, r)) >= nresults(Here)
            /\ containsLabel(rd(heap, r), label(Here))
       /\ instType(Here) = "Return" =>
            stackSize(rd(heap, r)) >= nresults(Here)
  /\ \A r, q \in reach[Here] : Unites(SettledHeap, r, q)
  /\ \A r \in reach[Here] : stackSize(rd(SettledHeap, r)) >= Needs(Here)

\* variant: every successor gets r itself.
advance_shared(h, r, around) ==
  LET out == outEdges(Here)
      m   == Len(out)
  IN  /\ heap' = h
      /\ reach' = [n \in Nodes |->
           IF n = Here THEN {}
           ELSE reach[n] \cup {r : i \in {i \in 1..m : out[i].dest = n}}]
      /\ work' = [i \in 1..m |-> [node |-> out[m + 1 - i].dest, last |-> Here,
                                  loops |-> around]] \o Tail(work)

\* advance: the first successor gets r itself, the others copies of it.
advance(h, r, around) ==
  LET out == outEdges(Here)
      m   == Len(out)
      Sent(i) == IF i = 1 THEN r ELSE Len(h.rds) + i - 1
  IN  /\ heap' = IF m > 1 THEN Copies(h, r, m - 1) ELSE h
      /\ reach' = [n \in Nodes |->
           IF n = Here THEN {}
           ELSE reach[n] \cup {Sent(i) : i \in {i \in 1..m : out[i].dest = n}}]
      /\ work' = [i \in 1..m |-> [node |-> out[m + 1 - i].dest, last |-> Here,
                                  loops |-> around]] \o Tail(work)

FromOutside == From \notin loopsInsts(Here)
Hit(g)      == FromOutside /\ \E e \in entrances[Here] : EqualRd(g.heap, g.rd, e)

\* What a loop is visited with again: what has come in or, when that has come
\* in before, a copy of the cache.
Entering(g) ==
  IF Hit(g) THEN [heap |-> Copies(g.heap, cache[Here], 1),
                  rd |-> Len(g.heap.rds) + 1]
  ELSE g

LoopAsserts(g) ==
  instType(Here) = "Loop" /\ loops[Here] # 0 =>
    Unites(Entering(g).heap, Entering(g).rd, loops[Here])

-----------------------------------------------------------------------------
PInit ==
  /\ code \in Programs /\ fn = code.fn /\ Start
  /\ work = <<>>
  /\ reach = [n \in Nodes |-> {}]
  /\ heap = [defs |-> <<>>, rds |-> <<>>]
  /\ loops = [n \in Nodes |-> 0]
  /\ entrances = [n \in Nodes |-> {}]
  /\ cache = [n \in Nodes |-> 0]
  /\ begun = [n \in Nodes |-> {}]
  /\ pdg = {}
  /\ phase = "cfg"

\* visitInstructions: nothing is known of any variable yet.
visitInstructions ==
  /\ phase = "cfg" /\ pc = "done"
  /\ \E d \in edges :
       /\ d.src = InstsNode
       /\ reach' = [reach EXCEPT ![d.dest] = {1}]
       /\ work' = <<[node |-> d.dest, last |-> InstsNode, loops |-> <<>>]>>
  /\ heap' = [defs |-> [v \in 1..NumVars |-> NoDef],
              rds |-> <<ReachDef([v \in 1..NumVars |-> v], <<>>, <<>>)>>]
  /\ phase' = "pdg"
  /\ UNCHANGED <<code, loops, entrances, cache, begun, pdg>>

\* variant: what waits goes to the end of the work list.
Wait_requeues ==
  /\ phase = "pdg" /\ work # <<>> /\ waitPaths
  /\ work' = Append(Tail(work), Head(work))
  /\ begun' = Begun
  /\ UNCHANGED <<code, reach, heap, loops, entrances, cache, pdg, phase>>

Wait ==
  /\ phase = "pdg" /\ work # <<>> /\ waitPaths
  /\ work' = Tail(work)
  /\ begun' = Begun
  /\ UNCHANGED <<code, reach, heap, loops, entrances, cache, pdg, phase>>

AssertFails ==
  /\ phase = "pdg" /\ work # <<>> /\ ~waitPaths
  /\ instType(Here) # "Unreachable"
  /\ Asserts => \E g \in Gathered : ~LoopAsserts(g)
  /\ phase' = "aborted"
  /\ UNCHANGED <<code, work, reach, heap, loops, entrances, cache, begun, pdg>>

visitUnreachableInst ==
  /\ Visits({"Unreachable"}) /\ ~waitPaths
  /\ work' = Tail(work)
  /\ UNCHANGED <<code, reach, heap, loops, entrances, cache, begun, pdg, phase>>

\* A visit that gathers what came in, has an effect on it and goes on.
Yields(h, es) == [heap |-> h, edges |-> es]

Visit(kinds, Effect(_, _)) ==
  /\ Visits(kinds) /\ ~waitPaths /\ Asserts
  /\ \E g \in Gathered :
       LET x == Effect(g.heap, g.rd)
       IN  /\ advance(x.heap, g.rd, Around)
           /\ pdg' = pdg \cup x.edges
  /\ begun' = Begun
  /\ UNCHANGED <<code, loops, entrances, cache, phase>>

\* The definition of the operand i from the top, and the edges from it.
Arg(h, r, i)  == DefOf(h, Operand(h, r, i))
Uses(h, r, i) == insertPDGEdge(Arg(h, r, i), Here)

Nothing(h, r) == Yields(h, {})

visitNopInst     == Visit({"Nop"}, Nothing)
visitBrInst      == Visit({"Br"}, Nothing)
visitBlockInst   == Visit({"Block"}, Nothing)
visitEndLoopInst == Visit({"EndLoop"}, Nothing)

\* variant: no label is pushed.
visitBeginBlockInst_bare ==
  Visit({"BeginBlock"}, LAMBDA h, r : Yields(h, {}))

visitBeginBlockInst ==
  Visit({"BeginBlock"}, LAMBDA h, r :
    Yields([h EXCEPT !.rds[r] = pushLabel(@, label(Here))], {}))

visitReturnInst ==
  Visit({"Return"}, LAMBDA h, r :
    Yields(h, IF nresults(Here) = 1 THEN Uses(h, r, 1) ELSE {}))

Condition(h, r) == Yields(pop(h, r, 1), Uses(h, r, 1))

visitBrIfInst    == Visit({"BrIf"}, Condition)
visitBrTableInst == Visit({"BrTable"}, Condition)
visitIfInst      == Visit({"If"}, Condition)

visitDropInst == Visit({"Drop"}, LAMBDA h, r : Yields(pop(h, r, 1), {}))

visitSelectInst ==
  Visit({"Select"}, LAMBDA h, r :
    LET val == UnionDef(Arg(h, r, 3), Arg(h, r, 2))
    IN  Yields(push(pop(Put(h, Operand(h, r, 3), val), r, 3), r, val),
               Uses(h, r, 1)))

visitMemorySizeInst ==
  Visit({"MemorySize"}, LAMBDA h, r : Yields(push(h, r, NoDef), {}))

\* variant: the address stays on the stack.
FromMemory_passes(h, r) == Yields(h, Uses(h, r, 1))

\* What comes from memory depends on nothing.
FromMemory(h, r) == Yields(push(pop(h, r, 1), r, NoDef), Uses(h, r, 1))

visitLoadInst       == Visit({"Load"}, FromMemory)
visitMemoryGrowInst == Visit({"MemoryGrow"}, FromMemory)

visitStoreInst ==
  Visit({"Store"}, LAMBDA h, r :
    Yields(pop(h, r, 2), Uses(h, r, 1) \cup Uses(h, r, 2)))

visitConstInst ==
  Visit({"Const"}, LAMBDA h, r : Yields(push(h, r, NewDef(Here)), {}))

OfTwo(h, r) ==
  LET both == UnionDef(Arg(h, r, 1), Arg(h, r, 2))
      res  == ClearTo(removeConsts(both), Here)
  IN  Yields(push(pop(Put(h, Operand(h, r, 1), res), r, 2), r, res),
             insertPDGEdge(both, Here))

visitBinaryInst  == Visit({"Binary"}, OfTwo)
visitCompareInst == Visit({"Compare"}, OfTwo)

visitConvertInst ==
  Visit({"Convert"}, LAMBDA h, r :
    Yields(Put(h, Operand(h, r, 1), ClearTo(Arg(h, r, 1), Here)), Uses(h, r, 1)))

visitUnaryInst ==
  Visit({"Unary"}, LAMBDA h, r :
    Yields(Put(h, Operand(h, r, 1), ClearTo(removeConsts(Arg(h, r, 1)), Here)),
           Uses(h, r, 1)))

\* A variable of which nothing is known depends on itself.
Get(h, r) ==
  LET d == DefOf(h, rd(h, r).vars[Op(Here).arg])
  IN  Yields(push(h, r, IF d = NoDef THEN NewDef(Here) ELSE ClearTo(d, Here)),
             insertPDGEdge(d, Here))

visitLocalGetInst  == Visit({"LocalGet"}, Get)
visitGlobalGetInst == Visit({"GlobalGet"}, Get)

\* The variable's definition is from now on the operand's own object.
Assign(h, r) ==
  [Put(h, Operand(h, r, 1), ClearTo(Arg(h, r, 1), Here)) EXCEPT
     !.rds[r].vars[Op(Here).arg] = Operand(h, r, 1)]

Set(h, r) == Yields(pop(Assign(h, r), r, 1), Uses(h, r, 1))

visitLocalSetInst  == Visit({"LocalSet"}, Set)
visitGlobalSetInst == Visit({"GlobalSet"}, Set)

visitLocalTeeInst ==
  Visit({"LocalTee"}, LAMBDA h, r :
    Yields(push(pop(Assign(h, r), r, 1), r, ClearTo(Arg(h, r, 1), Here)),
           Uses(h, r, 1)))

\* A call uses its arguments and gives its name to its result.
CallOf(h, r) ==
  LET left == pop(h, r, Op(Here).nargs)
  IN  Yields(IF nresults(Here) = 1 THEN push(left, r, NewDef(Here)) ELSE left,
             UNION {Uses(h, r, i) : i \in 1..Op(Here).nargs})

\* The index of the function that CallIndirect takes is one of its arguments.
visitCallInst         == Visit({"Call"}, CallOf)
visitCallIndirectInst == Visit({"CallIndirect"}, CallOf)

-----------------------------------------------------------------------------
(* visitLoopInst. *)

\* The first time: the definitions that enter the loop are kept, as the
\* loop's own and in the cache.
visitLoopFirst ==
  /\ Visits({"Loop"}) /\ ~waitPaths /\ Asserts /\ loops[Here] = 0
  /\ \E g \in Gathered :
       LET n == Len(g.heap.rds)
       IN  /\ cache' = [cache EXCEPT ![Here] = n + 1]
           /\ loops' = [loops EXCEPT ![Here] = n + 2]
           /\ advance(Copies(g.heap, g.rd, 2), g.rd, Append(Around, Here))
  /\ UNCHANGED <<code, entrances, begun, pdg, phase>>

\* variant: without the loop's definitions.
Again_alone(g) == Entering(g)

\* Later: united with the loop's definitions.
Again(g) == [Entering(g) EXCEPT !.heap = UnionRd(@, Entering(g).rd, loops[Here])]

Entrances(g) ==
  IF FromOutside /\ ~Hit(g)
  THEN [entrances EXCEPT ![Here] = @ \cup {g.rd}] ELSE entrances

\* A visit of a loop that has been visited before.
VisitsAgain == Visits({"Loop"}) /\ ~waitPaths /\ Asserts /\ loops[Here] # 0

Unchanged(x) == EqualRd(x.heap, x.rd, loops[Here])

\* variant: the loop is pushed without a look at the stack.
visitLoopChanged_pushes ==
  /\ VisitsAgain
  /\ \E g \in Gathered :
       /\ LoopAsserts(g) /\ ~Unchanged(Again(g))
       /\ entrances' = Entrances(g)
       /\ LET x == Again(g)
          IN  /\ loops' = [loops EXCEPT ![Here] = Len(x.heap.rds) + 1]
              /\ advance(Copies(x.heap, x.rd, 1), x.rd, Append(Around, Here))
  /\ UNCHANGED <<code, cache, begun, pdg, phase>>

\* Something new: another pass through the loop.
visitLoopChanged ==
  /\ VisitsAgain
  /\ \E g \in Gathered :
       /\ LoopAsserts(g) /\ ~Unchanged(Again(g))
       /\ entrances' = Entrances(g)
       /\ LET x == Again(g)
          IN  /\ loops' = [loops EXCEPT ![Here] = Len(x.heap.rds) + 1]
              /\ advance(Copies(x.heap, x.rd, 1), x.rd,
                         IF TopIs(Here) THEN Around ELSE Append(Around, Here))
  /\ UNCHANGED <<code, cache, begun, pdg, phase>>

\* Nothing new, and the loop has already been left by its exits.
visitLoopOver ==
  /\ VisitsAgain
  /\ \E g \in Gathered :
       /\ LoopAsserts(g) /\ Unchanged(Again(g))
       /\ ~FromOutside /\ ~TopIs(Here)
       /\ LET x == Again(g)
          IN  /\ cache' = [cache EXCEPT ![Here] = Len(x.heap.rds) + 1]
              /\ heap' = Copies(x.heap, x.rd, 1)
              /\ reach' = [reach EXCEPT ![Here] = {x.rd}]
  /\ work' = Tail(work)
  /\ UNCHANGED <<code, loops, entrances, begun, pdg, phase>>

\* Nothing new: one more pass, which may leave the loop.
visitLoopFixed ==
  /\ VisitsAgain
  /\ \E g \in Gathered :
       /\ LoopAsserts(g) /\ Unchanged(Again(g))
       /\ FromOutside \/ TopIs(Here)
       /\ entrances' = Entrances(g)
       /\ LET x == Again(g)
          IN  /\ cache' = [cache EXCEPT ![Here] = Len(x.heap.rds) + 1]
              /\ advance(Copies(x.heap, x.rd, 1), x.rd,
                         IF TopIs(Here) THEN Front(Around) ELSE Around)
  /\ UNCHANGED <<code, loops, begun, pdg, phase>>

Finish ==
  /\ phase = "pdg" /\ work = <<>>
  /\ phase' = "done"
  /\ UNCHANGED <<code, work, reach, heap, loops, entrances, cache, begun, pdg>>

PdgStep ==
  \/ visitInstructions \/ Wait \/ AssertFails \/ Finish
  \/ visitUnreachableInst \/ visitNopInst \/ visitBrInst
  \/ visitBlockInst \/ visitEndLoopInst \/ visitBeginBlockInst
  \/ visitReturnInst \/ visitBrIfInst \/ visitBrTableInst \/ visitIfInst
  \/ visitDropInst \/ visitSelectInst \/ visitMemorySizeInst
  \/ visitMemoryGrowInst \/ visitLoadInst \/ visitStoreInst \/ visitConstInst
  \/ visitBinaryInst \/ visitCompareInst \/ visitConvertInst \/ visitUnaryInst
  \/ visitLocalGetInst \/ visitGlobalGetInst \/ visitLocalSetInst
  \/ visitGlobalSetInst \/ visitLocalTeeInst
  \/ visitCallInst \/ visitCallIndirectInst
  \/ visitLoopFirst \/ visitLoopChanged \/ visitLoopOver \/ visitLoopFixed

\* construct and the PDG builder run one after the other.
PNext == \/ Next /\ UNCHANGED pdgVars
         \/ PdgStep /\ UNCHANGED vars

\* One sequential program, which nothing stops.
PSpec == PInit /\ [][PNext]_<<vars, pdgVars>> /\ WF_<<vars, pdgVars>>(PNext)

-----------------------------------------------------------------------------
DefIds == DOMAIN heap.defs
RdIds  == DOMAIN heap.rds

\* Every pointer leads to an object.
PdgTypeOK ==
  /\ fn = code.fn
  /\ phase \in {"cfg", "pdg", "done", "aborted"}
  /\ \A i \in DefIds : DOMAIN heap.defs[i] \subseteq Nodes
  /\ \A i \in RdIds : /\ heap.rds[i].vars \in [1..NumVars -> DefIds]
                      /\ ToSet(heap.rds[i].stack) \subseteq DefIds
                      /\ \A k \in DOMAIN heap.rds[i].labels :
                           heap.rds[i].labels[k].name \in Labels
  /\ reach \in [Nodes -> SUBSET RdIds]
  /\ entrances \in [Nodes -> SUBSET RdIds]
  /\ loops \in [Nodes -> RdIds \cup {0}]
  /\ cache \in [Nodes -> RdIds \cup {0}]
  /\ begun \in [Nodes -> SUBSET Nodes]
  /\ \A i \in DOMAIN work : work[i].node \in Nodes /\ work[i].last \in Nodes
                           /\ ToSet(work[i].loops) \subseteq Nodes

\* The loops that an item of the work list is in (_loopsStack) are nested, each
\* strictly inside the one below: whichever of its branches pushes or pops a
\* loop, visitLoopInst never leaves a finished loop under a running one.
LoopsNest ==
  \A i \in DOMAIN work : \A k \in DOMAIN work[i].loops : \A j \in 1 .. k - 1 :
    work[i].loops[k][2] \in Below[work[i].loops[j][2]] \ {work[i].loops[j][2]}

\* From one pass to the next, a loop's definitions of the variables only grow:
\* why the passes end.
LoopDefinitionsGrow ==
  [][\A n \in Nodes : loops[n] # 0 =>
       \A v \in 1..NumVars :
         DOMAIN heap.defs[heap.rds[loops[n]].vars[v]]
           \subseteq DOMAIN heap'.defs[heap'.rds[loops'[n]].vars[v]]]_<<vars, pdgVars>>
=============================================================================
