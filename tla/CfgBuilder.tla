----------------------------- MODULE CfgBuilder -----------------------------
(***************************************************************************)
(* wasmati::CFG: the construction of the control flow graph of one          *)
(* function (cfg-builder.cc).  The recursion of CFG::construct is an        *)
(* explicit stack of activation frames; every case of its switch is an      *)
(* action, and a case that calls construct on a nested list is split at     *)
(* the call into an Enter and a Leave action.                               *)
(*                                                                          *)
(* A definition whose comment begins with "variant" is the next one with a  *)
(* plausible mistake in it.  No definition of the model uses it: it is      *)
(* there to see the properties fail on it.                                  *)
(***************************************************************************)
EXTENDS WasmFunction

CONSTANT Functions   \* the function bodies given to the builder

ASSUME FunctionsAssumption == \A f \in Functions : IsBody(f)

VARIABLES
  fn,      \* the function being built
  edges,   \* its CFG edges (an EdgeSet: equal edges count once)
  cg,      \* its call graph edges, <<call node, function>>
  blocks,  \* _blocks, the label stack; the front of the std::list is last
  stack,   \* activations of construct; the innermost is last
  ret,     \* the list whose activation has just returned, and its result
  pc       \* control: see PCs

vars == <<fn, edges, cg, blocks, stack, ret, pc>>

PCs == {"start", "construct", "returned", "done", "crashed"}

Frames  == [list : Lists, at : Nat \ {0}, thenUnreachable : BOOLEAN]
Results == [list : Lists, unreachable : BOOLEAN]
Scopes  == [label : Labels, node : Nodes]

Frame(l)       == [list |-> l, at |-> 1, thenUnreachable |-> FALSE]
Result(l, u)   == [list |-> l, unreachable |-> u]
Scope(e, node) == [label |-> fn.label[e], node |-> node]

TypeOK ==
  /\ IsFunction(fn)
  /\ edges \subseteq CFGEdges
  /\ cg \subseteq Nodes \X Callees
  /\ blocks \in Seq(Scopes)
  /\ stack \in Seq(Frames)
  /\ ret \in Results
  /\ pc \in PCs

-----------------------------------------------------------------------------
(* Reading the current activation. *)

Top     == Last(stack)
Current == fn.list[Top.list]

\* construct looks at expression e, of kind k, in the innermost activation.
At(e, k) ==
  /\ pc = "construct"
  /\ Top.at <= Len(Current)
  /\ e = Current[Top.at]
  /\ fn.kind[e] = k

\* The call of construct on list l of the current expression has returned.
Back(e, arm) == pc = "returned" /\ ret.list = <<e, arm>> /\ stack # <<>>

\* "if it's not the last": the edge from src to the next expression's node.
ToNext(src, label) ==
  IF Top.at < Len(Current)
  THEN {CFGEdge(src, NodeOf(fn, Current[Top.at + 1]), label)}
  ELSE {}

\* variant: the last expression for the first.
ToFirst_back(src, l) ==
  IF fn.list[l] = <<>> THEN {}
  ELSE {CFGEdge(src, NodeOf(fn, Last(fn.list[l])), Plainly)}

\* The edge from src to the node of the first expression of list l.
ToFirst(src, l) ==
  IF fn.list[l] = <<>> THEN {}
  ELSE {CFGEdge(src, NodeOf(fn, fn.list[l][1]), Plainly)}

\* variant: looks at the wrong end of the edges.
HasInEdges_out(es, node) == \E d \in es : d.src = node

HasInEdges(es, node) == \E d \in es : d.dest = node

\* variant: the outermost scope with the label.
getBlock_outermost(target) ==
  LET bound == {i \in 1..Len(blocks) : blocks[i].label = target}
  IN  {blocks[i].node : i \in {i \in bound : \A j \in bound : i <= j}}

\* variant: looks at the front of the label stack only.
getBlock_innermostOnly(target) ==
  {blocks[i].node : i \in {i \in {Len(blocks)} \ {0} : blocks[i].label = target}}

\* getBlock: the innermost scope with that label; empty if there is none.
getBlock(target) ==
  LET bound == {i \in 1..Len(blocks) : blocks[i].label = target}
  IN  {blocks[i].node : i \in {i \in bound : \A j \in bound : j <= i}}

-----------------------------------------------------------------------------
(* insertEdgeFromLastExpr: the edges from where a list ends to a node. *)

\* The recursion through loops that end a list: where the list really ends.
LastExpr[e \in Exprs] ==
  IF fn.kind[e] = "Loop" /\ fn.list[<<e, "body">>] # <<>>
  THEN LastExpr[Last(fn.list[<<e, "body">>])]
  ELSE e

\* es.back() is called on an empty list: undefined behaviour, wabt's
\* intrusive_list has no element to return.
BackOfEmpty(l) ==
  fn.list[l] # <<>> => fn.kind[LastExpr[Last(fn.list[l])]] = "Loop"

EdgesFromKind(e, target, silent) ==
  CASE fn.kind[e] \in silent       -> {}
    [] fn.kind[e] = "BrIf"          -> {CFGEdge(Inst(e), target, OnFalse)}
    [] fn.kind[e] \in {"Block", "If"} -> {CFGEdge(EndBlock(e), target, Plainly)}
    [] OTHER -> {CFGEdge(NodeOf(fn, e), target, Plainly)}

\* variants: a kind of expression that does not fall through is forgotten.
EdgesFrom_return(e, target) ==
  EdgesFromKind(e, target, {"Br", "BrTable", "Unreachable", "Loop"})
EdgesFrom_brTable(e, target) ==
  EdgesFromKind(e, target, {"Br", "Return", "Unreachable", "Loop"})

EdgesFrom(e, target) ==
  EdgesFromKind(e, target, {"Br", "BrTable", "Return", "Unreachable", "Loop"})

insertEdgeFromLastExpr(l, target) ==
  UNION {EdgesFrom(e, target) :
           e \in {x \in Exprs : x = LastExpr[Last(fn.list[l])]}}

-----------------------------------------------------------------------------
(* Control: step to the next expression, call, return, die. *)

\* variant: the iterator is not moved.
Advance_stays == pc' = "construct" /\ UNCHANGED <<stack, ret>>

Advance == /\ stack' = [stack EXCEPT ![Len(stack)].at = @ + 1]
           /\ pc' = "construct"
           /\ UNCHANGED ret

\* variant: the iterator is moved before the call.
Call_moved(l) ==
  /\ stack' = Append([i \in 1..Len(stack) |->
                        IF i = Len(stack) THEN [stack[i] EXCEPT !.at = @ + 1]
                        ELSE stack[i]], Frame(l))
  /\ pc' = "construct"
  /\ UNCHANGED ret

Call(l) == /\ stack' = Append(stack, Frame(l))
           /\ pc' = "construct"
           /\ UNCHANGED ret

Return(u) == /\ stack' = Front(stack)
             /\ ret' = Result(Top.list, u)
             /\ pc' = "returned"

Crash == /\ pc' = "crashed"
         /\ UNCHANGED <<fn, edges, cg, blocks, stack, ret>>

-----------------------------------------------------------------------------
\* No function has been built yet.
Start ==
  /\ edges = {} /\ cg = {}
  /\ blocks = <<>> /\ stack = <<>>
  /\ ret = Result(RootList, FALSE)
  /\ pc = "start"

Init == fn \in Functions /\ Start

\* generateCFG, before construct.
BeginFunction ==
  /\ pc = "start"
  /\ IF fn.list[RootList] = <<>>
     THEN /\ edges' = {CFGEdge(InstsNode, RetFunc, Plainly)}
          /\ pc' = "done"
          /\ UNCHANGED <<stack, ret>>
     ELSE /\ edges' = ToFirst(InstsNode, RootList)
          /\ Call(RootList)
  /\ UNCHANGED <<fn, cg, blocks>>

VisitReturn(e) ==
  /\ At(e, "Return")
  /\ Return(FALSE)
  /\ UNCHANGED <<fn, edges, cg, blocks>>

VisitUnreachable(e) ==
  /\ At(e, "Unreachable")
  /\ edges' = edges \cup {CFGEdge(Inst(e), Trap, Plainly)}
  /\ Return(TRUE)
  /\ UNCHANGED <<fn, cg, blocks>>

\* Every label the branch e names is on the label stack.
AllBound(e) == \A i \in 1..Len(fn.targets[e]) : getBlock(fn.targets[e][i]) # {}

BranchEdges(e, i, label) ==
  {CFGEdge(Inst(e), n, label) : n \in getBlock(fn.targets[e][i])}

VisitBr(e) ==
  /\ At(e, "Br") /\ AllBound(e)
  /\ edges' = edges \cup BranchEdges(e, 1, Plainly)
  /\ Return(TRUE)
  /\ UNCHANGED <<fn, cg, blocks>>

VisitBrIf(e) ==
  /\ At(e, "BrIf") /\ AllBound(e)
  /\ edges' = edges \cup BranchEdges(e, 1, OnTrue) \cup ToNext(Inst(e), OnFalse)
  /\ Advance
  /\ UNCHANGED <<fn, cg, blocks>>

\* The last target is the default; construct goes on with the dead code.
VisitBrTable(e) ==
  /\ At(e, "BrTable") /\ AllBound(e)
  /\ LET n == Len(fn.targets[e])
     IN  edges' = edges
           \cup BranchEdges(e, n, OnDefault)
           \cup UNION {BranchEdges(e, i, OnCase(i - 1)) : i \in 1 .. n - 1}
  /\ Advance
  /\ UNCHANGED <<fn, cg, blocks>>

\* getBlock falls off the label stack: assert(false), then a null node.
VisitUnboundBranch(e) ==
  /\ \E k \in Branches : At(e, k)
  /\ ~AllBound(e)
  /\ Crash

EnterBlock(e) ==
  /\ At(e, "Block")
  /\ blocks' = Append(blocks, Scope(e, EndBlock(e)))
  /\ edges' = edges \cup
       IF fn.list[<<e, "body">>] = <<>>
       THEN {CFGEdge(Inst(e), EndBlock(e), Plainly)}
       ELSE ToFirst(Inst(e), <<e, "body">>)
  /\ Call(<<e, "body">>)
  /\ UNCHANGED <<fn, cg>>

\* The caller of the activation that has returned links the end of its list:
\* a Loop whenever it is not the last of its own list, all others when that
\* end is not known to be unreachable.
LinksEnd ==
  IF \E e \in Exprs : ret.list = <<e, "body">> /\ fn.kind[e] = "Loop"
  THEN Top.at < Len(Current)
  ELSE ~ret.unreachable

\* insertEdgeFromLastExpr is called on a list that has no last expression.
LinkEmptyList ==
  /\ pc = "returned" /\ LinksEnd /\ BackOfEmpty(ret.list)
  /\ Crash

\* The end of the list that has just returned falls through to target.
FallThrough(target) ==
  IF ret.unreachable THEN {} ELSE insertEdgeFromLastExpr(ret.list, target)

LeaveBlock(e) ==
  /\ Back(e, "body") /\ fn.kind[e] = "Block"
  /\ LinksEnd => ~BackOfEmpty(ret.list)
  /\ LET linked == edges \cup FallThrough(EndBlock(e))
     IN  /\ HasInEdges(linked, EndBlock(e))
         /\ edges' = linked \cup ToNext(EndBlock(e), Plainly)
  /\ blocks' = Front(blocks)
  /\ Advance
  /\ UNCHANGED <<fn, cg>>

\* variant: the label is not popped on the early return.
LeaveDeadBlock_noPop(e) ==
  /\ Back(e, "body") /\ fn.kind[e] = "Block"
  /\ LinksEnd => ~BackOfEmpty(ret.list)
  /\ LET linked == edges \cup FallThrough(EndBlock(e))
     IN  ~HasInEdges(linked, EndBlock(e)) /\ edges' = linked
  /\ Return(FALSE)
  /\ UNCHANGED <<fn, cg, blocks>>

\* Control cannot come to the end of the block: the rest of the list is not
\* visited, but it is not reported as unreachable either.
LeaveDeadBlock(e) ==
  /\ Back(e, "body") /\ fn.kind[e] = "Block"
  /\ LinksEnd => ~BackOfEmpty(ret.list)
  /\ LET linked == edges \cup FallThrough(EndBlock(e))
     IN  ~HasInEdges(linked, EndBlock(e)) /\ edges' = linked
  /\ blocks' = Front(blocks)
  /\ Return(FALSE)
  /\ UNCHANGED <<fn, cg>>

EnterLoop(e) ==
  /\ At(e, "Loop")
  /\ blocks' = Append(blocks, Scope(e, Inst(e)))
  /\ edges' = edges \cup
       IF fn.list[<<e, "body">>] = <<>>
       THEN ToNext(Inst(e), Plainly)
       ELSE ToFirst(Inst(e), <<e, "body">>)
  /\ Call(<<e, "body">>)
  /\ UNCHANGED <<fn, cg>>

\* A loop that ends its list gets no EndLoopInst; its result is ignored.
LeaveLoop(e) ==
  /\ Back(e, "body") /\ fn.kind[e] = "Loop"
  /\ LinksEnd => ~BackOfEmpty(ret.list)
  /\ edges' = edges \cup
       IF Top.at < Len(Current)
       THEN insertEdgeFromLastExpr(ret.list, EndLoop(e))
              \cup ToNext(EndLoop(e), Plainly)
       ELSE {}
  /\ blocks' = Front(blocks)
  /\ Advance
  /\ UNCHANGED <<fn, cg>>

EnterIf(e) ==
  /\ At(e, "If")
  /\ edges' = edges \cup {CFGEdge(Inst(e), ThenBegin(e), OnTrue)}
  /\ blocks' = Append(blocks, Scope(e, EndBlock(e)))
  /\ Call(<<e, "then">>)
  /\ UNCHANGED <<fn, cg>>

\* The edge after the If, if control can come to its joining block.
ToNextOfJoin(es, e) ==
  IF HasInEdges(es, EndBlock(e)) THEN ToNext(EndBlock(e), Plainly) ELSE {}

ThenEdges(e) ==
  ToFirst(ThenBegin(e), <<e, "then">>) \cup FallThrough(EndBlock(e))

\* The true arm is built and the If has a false arm: its label is popped
\* and pushed again, with the same node.
EnterElse(e) ==
  /\ Back(e, "then") /\ fn.list[<<e, "else">>] # <<>>
  /\ LinksEnd => ~BackOfEmpty(ret.list)
  /\ edges' = edges \cup ThenEdges(e)
  /\ blocks' = Append(Front(blocks), Scope(e, EndBlock(e)))
  /\ stack' = Append([stack EXCEPT ![Len(stack)].thenUnreachable
                                     = ret.unreachable],
                     Frame(<<e, "else">>))
  /\ pc' = "construct"
  /\ UNCHANGED <<fn, cg, ret>>

LeaveIfWithoutElse(e) ==
  /\ Back(e, "then") /\ fn.list[<<e, "else">>] = <<>>
  /\ LinksEnd => ~BackOfEmpty(ret.list)
  /\ LET linked == edges \cup ThenEdges(e) \cup
                     {CFGEdge(Inst(e), ElseBegin(e), OnFalse),
                      CFGEdge(ElseBegin(e), EndBlock(e), Plainly)}
     IN  edges' = linked \cup ToNextOfJoin(linked, e)
  /\ blocks' = Front(blocks)
  /\ Advance
  /\ UNCHANGED <<fn, cg>>

ElseEdges(e) ==
  {CFGEdge(Inst(e), ElseBegin(e), OnFalse)}
    \cup ToFirst(ElseBegin(e), <<e, "else">>) \cup FallThrough(EndBlock(e))

LeaveElse(e) ==
  /\ Back(e, "else")
  /\ LinksEnd => ~BackOfEmpty(ret.list)
  /\ ~(Top.thenUnreachable /\ ret.unreachable)
  /\ LET linked == edges \cup ElseEdges(e)
     IN  edges' = linked \cup ToNextOfJoin(linked, e)
  /\ blocks' = Front(blocks)
  /\ Advance
  /\ UNCHANGED <<fn, cg>>

\* Both arms are unreachable at their end: so is the list of the If, and
\* what follows the If is not visited.
LeaveDeadIf(e) ==
  /\ Back(e, "else")
  /\ Top.thenUnreachable /\ ret.unreachable
  /\ edges' = edges \cup ElseEdges(e)
  /\ blocks' = Front(blocks)
  /\ Return(TRUE)
  /\ UNCHANGED <<fn, cg>>

\* variant: the call graph edge only if the call is not the last.
VisitCall_notLast(e) ==
  /\ At(e, "Call") \/ At(e, "CallIndirect")
  /\ edges' = edges \cup ToNext(Inst(e), Plainly)
  /\ cg' = IF Top.at < Len(Current) THEN cg \cup ({Inst(e)} \X fn.callees[e])
           ELSE cg
  /\ Advance
  /\ UNCHANGED <<fn, blocks>>

\* Call and CallIndirect: funcsByName and funcByType give the callees.
VisitCall(e) ==
  /\ At(e, "Call") \/ At(e, "CallIndirect")
  /\ edges' = edges \cup ToNext(Inst(e), Plainly)
  /\ cg' = cg \cup ({Inst(e)} \X fn.callees[e])
  /\ Advance
  /\ UNCHANGED <<fn, blocks>>

VisitDefault(e) ==
  /\ At(e, "Plain")
  /\ edges' = edges \cup ToNext(Inst(e), Plainly)
  /\ Advance
  /\ UNCHANGED <<fn, cg, blocks>>

EndOfList ==
  /\ pc = "construct" /\ Top.at > Len(Current)
  /\ Return(FALSE)
  /\ UNCHANGED <<fn, edges, cg, blocks>>

\* The nodes of childlessReturn: instructions on an AST path from insts.
\* Begin nodes, EndLoopInsts and the false arm's begin have no AST edge.
ASTInsts ==
  {Inst(e) : e \in {x \in Exprs : fn.kind[x] \notin {"Block", "Return"}}}
    \cup {EndBlock(e) : e \in {x \in Exprs : fn.kind[x] \in {"Block", "If"}}}

childlessReturn(es) ==
  {n \in ASTInsts : HasInEdges(es, n) /\ ~\E d \in es : d.src = n}

\* generateCFG, after construct.
FinishFunction ==
  /\ pc = "returned" /\ stack = <<>>
  /\ LinksEnd => ~BackOfEmpty(ret.list)
  /\ LET linked == edges \cup FallThrough(RetFunc)
     IN  edges' = IF ret.unreachable THEN edges
                  ELSE linked \cup {CFGEdge(n, RetFunc, Plainly) :
                                      n \in childlessReturn(linked)}
  /\ pc' = "done"
  /\ UNCHANGED <<fn, cg, blocks, stack, ret>>

Next ==
  \/ BeginFunction \/ EndOfList \/ FinishFunction \/ LinkEmptyList
  \/ \E e \in Exprs :
       \/ VisitReturn(e) \/ VisitUnreachable(e)
       \/ VisitBr(e) \/ VisitBrIf(e) \/ VisitBrTable(e)
       \/ VisitUnboundBranch(e)
       \/ EnterBlock(e) \/ LeaveBlock(e) \/ LeaveDeadBlock(e)
       \/ EnterLoop(e) \/ LeaveLoop(e)
       \/ EnterIf(e) \/ EnterElse(e) \/ LeaveIfWithoutElse(e) \/ LeaveElse(e)
       \/ LeaveDeadIf(e)
       \/ VisitCall(e) \/ VisitDefault(e)

\* A sequential program that is not stopped from outside keeps running.
Spec == Init /\ [][Next]_vars /\ WF_vars(Next)

-----------------------------------------------------------------------------
(* Properties. *)

\* The expression that activation i of construct is at.
Pending(i) == fn.list[stack[i].list][stack[i].at]

\* What a structured expression declares while its lists are built.
Declared(e) ==
  Scope(e, IF fn.kind[e] = "Loop" THEN Inst(e) ELSE EndBlock(e))

\* The activations are nested as the lists are: the first one builds the
\* function's own list, each other one a list of the expression that the
\* activation below it is at; and so is the list that has just returned.
ActivationsNest ==
  /\ pc = "construct" => stack # <<>>
  /\ stack # <<>> => stack[1].list = RootList
  /\ \A i \in 1 .. Len(stack) - 1 :
       /\ stack[i].at <= Len(fn.list[stack[i].list])
       /\ stack[i + 1].list[1] = Pending(i)
  /\ pc = "returned" =>
       IF stack = <<>> THEN ret.list = RootList
       ELSE /\ Top.at <= Len(Current)
            /\ ret.list[1] = Pending(Len(stack))

\* The label stack is the nesting: while construct works on a list, the
\* labels pushed are those of the expressions around it, each with the node
\* a branch to it must reach, and nothing is left when the function is done.
\* (The early returns of construct each have to pop what their case pushed.)
ScopesAreNesting ==
  /\ pc = "construct" => Len(blocks) = Len(stack) - 1
  /\ pc = "returned"  => Len(blocks) = Len(stack)
  /\ pc \in {"construct", "returned"} =>
       \A i \in 1..Len(blocks) : blocks[i] = Declared(Pending(i))
  /\ pc = "done" => blocks = <<>>

\* Control never leaves the return node or the trap: no edge starts there,
\* though the return node stands for every Return expression of the body.
NoWayBack == \A d \in edges : d.src \notin {RetFunc, Trap}

\* A list of f that construct links the end of, and that has no end.
HasEmptyList(f) ==
  \E l \in Lists : \E i \in DOMAIN f.list[l] :
    LET e == f.list[l][i]
    IN  \/ f.kind[e] \in {"Block", "Loop"} /\ f.list[<<e, "body">>] = <<>>
        \/ f.kind[e] = "If" /\ f.list[<<e, "then">>] = <<>>

\* The comments "In case the block is empty" and "In case the loop is empty":
\* the builder handles a Block or Loop without expressions.
EmptyListsAreBuilt == pc = "crashed" => ~HasEmptyList(fn)
=============================================================================
