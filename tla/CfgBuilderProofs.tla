-------------------------- MODULE CfgBuilderProofs --------------------------
(***************************************************************************)
(* Theorems about the builder of control flow graphs, for every set of      *)
(* function bodies: type correctness, that no edge leaves the return node   *)
(* or the trap, and that the label stack is the nesting of the lists being  *)
(* built.                                                                   *)
(***************************************************************************)
EXTENDS CfgBuilder, CommonLemmas, FiniteSetTheorems

-----------------------------------------------------------------------------
(* Bodies. *)

\* There is a greatest expression.
LEMMA ExprsBounded == \E n \in Nat : \A e \in Exprs : e <= n
<1> PICK n \in Nat : ExistsSurjection(1..n, Exprs)
  BY ExprsAssumption, FS_NatSurjection
<1> PICK s \in [1..n -> Exprs] : \A e \in Exprs : \E i \in 1..n : s[i] = e
  BY DEF ExistsSurjection, Surjection
<1>1. \A i \in 1..n : s[i] \in Nat
  BY ExprsAssumption
<1> DEFINE Bound(k, b) == \A i \in 1..n : i <= k => s[i] <= b
           S == {k \in Nat : \E b \in Nat : Bound(k, b)}
<1>2. 0 \in S
  BY <1>1
<1>3. ASSUME NEW k \in Nat, k \in S
      PROVE  k + 1 \in S
  <2> PICK b \in Nat : Bound(k, b)
    BY <1>3
  <2>1. \E c \in Nat : b <= c /\ (k + 1 \in 1..n => s[k + 1] <= c)
    <3>1. CASE k + 1 \in 1..n /\ b <= s[k + 1]
      BY <1>1, <3>1
    <3>2. CASE ~(k + 1 \in 1..n /\ b <= s[k + 1])
      BY <1>1, <3>2
    <3> QED
      BY <3>1, <3>2
  <2> PICK c \in Nat : b <= c /\ (k + 1 \in 1..n => s[k + 1] <= c)
    BY <2>1
  <2>2. ASSUME NEW i \in 1..n, i <= k + 1
        PROVE  s[i] <= c
    <3>1. i <= k \/ i = k + 1
      BY <2>2
    <3> QED
      BY <1>1, <3>1
  <2>3. Bound(k + 1, c)
    BY <2>2
  <2> HIDE DEF Bound
  <2> QED
    BY <2>3
<1>4. n \in S
  <2> HIDE DEF S
  <2>1. Nat \subseteq S
    BY <1>2, <1>3, SetInduction
  <2> QED
    BY <2>1
<1>5. PICK b \in Nat : Bound(n, b)
  <2> HIDE DEF Bound
  <2> QED
    BY <1>4
<1>6. \A e \in Exprs : e <= b
  BY <1>5
<1> QED
  BY <1>6

\* The lists of a body, and their expressions.
LEMMA BodyParts ==
  ASSUME NEW f, IsBody(f)
  PROVE  /\ f.kind \in [Exprs -> Kinds]
         /\ \A l \in Lists : /\ f.list[l] \in Seq(Exprs)
                            /\ Len(f.list[l]) \in Nat
                            /\ DOMAIN f.list[l] = 1..Len(f.list[l])
         /\ \A l \in Lists : \A i \in 1..Len(f.list[l]) : f.list[l][i] \in Exprs
         /\ \A e \in Exprs : e \in Nat /\ e # 0
         /\ \A l \in Lists : l = RootList \/ l[1] \in Exprs
         /\ RootList[1] = 0
<1>1. f \in FunctionType
  BY DEF IsBody, IsFunction
<1>2. \A l \in Lists : f.list[l] \in Seq(Exprs)
  BY <1>1 DEF FunctionType
<1>3. \A l \in Lists : /\ Len(f.list[l]) \in Nat
                     /\ DOMAIN f.list[l] = 1..Len(f.list[l])
  BY <1>2, LenProperties
<1>4. \A l \in Lists : \A i \in 1..Len(f.list[l]) : f.list[l][i] \in Exprs
  BY <1>2, ElementOfSeq
<1>5. \A l \in Lists : l = RootList \/ l[1] \in Exprs
  BY DEF Lists
<1> QED
  BY <1>1, <1>2, <1>3, <1>4, <1>5, ExprsAssumption DEF FunctionType, RootList

-----------------------------------------------------------------------------
(* Nodes and edges. *)

\* Where control may come from: any node but the return node and the trap.
Sources == Nodes \ {RetFunc, Trap}

\* The edges that keep both TypeOK and NoWayBack.
FlowEdges == [src : Sources, dest : Nodes, label : EdgeLabels]

\* The nodes of an expression are nodes, and control may come from them.
LEMMA NodesOfExprs ==
  ASSUME NEW e \in Exprs
  PROVE  /\ Inst(e) \in Sources /\ EndBlock(e) \in Sources
         /\ ThenBegin(e) \in Sources /\ ElseBegin(e) \in Sources
         /\ EndLoop(e) \in Sources
         /\ \A f : NodeOf(f, e) \in Nodes
         /\ \A f : f.kind[e] # "Return" => NodeOf(f, e) \in Sources
BY DEF Inst, EndBlock, ThenBegin, ElseBegin, EndLoop, NodeOf, RetFunc, Trap,
       Sources, Nodes, NodeTags

\* The instructions node may have successors; the return node and the trap
\* are nodes that may not.
LEMMA FixedNodes ==
  /\ InstsNode \in Sources
  /\ RetFunc \in Nodes /\ Trap \in Nodes
  /\ Sources \subseteq Nodes
BY DEF InstsNode, RetFunc, Trap, Sources, Nodes, NodeTags

\* The labels construct gives its edges are edge labels.
LEMMA FixedLabels ==
  /\ Plainly \in EdgeLabels /\ OnTrue \in EdgeLabels
  /\ OnFalse \in EdgeLabels /\ OnDefault \in EdgeLabels
  /\ \A i \in Nat : OnCase(i) \in EdgeLabels
BY DEF Plainly, OnTrue, OnFalse, OnDefault, OnCase, EdgeLabels

\* An edge from a node that may have successors is one of FlowEdges.
LEMMA EdgeIsEdge ==
  ASSUME NEW s \in Sources, NEW d \in Nodes, NEW l \in EdgeLabels
  PROVE  CFGEdge(s, d, l) \in FlowEdges
BY DEF CFGEdge, FlowEdges

-----------------------------------------------------------------------------
(* The parts of a state that has its types. *)

\* The builder's types, without those of the edges.
StateTypes ==
  /\ IsFunction(fn)
  /\ blocks \in Seq(Scopes)
  /\ stack \in Seq(Frames)
  /\ ret \in Results
  /\ pc \in PCs

\* The parts of the function that is being built.
LEMMA FunctionParts ==
  ASSUME StateTypes
  PROVE  /\ fn.kind \in [Exprs -> Kinds]
         /\ fn.label \in [Exprs -> Labels]
         /\ \A e \in Exprs : fn.targets[e] \in Seq(Labels)
         /\ \A e \in Exprs : fn.callees[e] \subseteq Callees
         /\ \A l \in Lists : fn.list[l] \in Seq(Exprs)
         /\ \A e \in Exprs : fn.kind[e] \in Branches => fn.targets[e] # <<>>
BY DEF StateTypes, IsFunction, FunctionType

\* The innermost activation, and the list it works on.
LEMMA TopIsFrame ==
  ASSUME StateTypes, stack # <<>>
  PROVE  /\ Len(stack) \in Nat \ {0}
         /\ Top \in Frames
         /\ Top.list \in Lists /\ Top.at \in Nat \ {0}
         /\ Current \in Seq(Exprs)
         /\ Len(Current) \in Nat
<1>1. Len(stack) \in Nat \ {0} /\ Top \in Frames
  BY LastIsElement DEF StateTypes, Top
<1>2. Top.list \in Lists /\ Top.at \in Nat \ {0}
  BY <1>1 DEF Frames
<1>3. Current \in Seq(Exprs)
  BY <1>2, FunctionParts DEF Current
<1> QED
  BY <1>1, <1>2, <1>3, LenProperties

\* The arms of an expression are lists.
LEMMA ArmsAreLists ==
  ASSUME NEW e \in Exprs
  PROVE  /\ <<e, "body">> \in Lists /\ <<e, "then">> \in Lists
         /\ <<e, "else">> \in Lists
BY DEF Lists

\* So is the function's own list.
LEMMA RootIsList == RootList \in Lists
BY DEF Lists

-----------------------------------------------------------------------------
(* What the operators that make edges give. *)

\* The edge to the next expression, if there is one.
LEMMA ToNextEdges ==
  ASSUME StateTypes, stack # <<>>, NEW s \in Sources, NEW l \in EdgeLabels
  PROVE  ToNext(s, l) \subseteq FlowEdges
<1>1. CASE Top.at < Len(Current)
  <2>1. Top.at + 1 \in 1..Len(Current)
    BY <1>1, TopIsFrame
  <2>2. Current[Top.at + 1] \in Exprs
    BY <2>1, TopIsFrame, ElementOfSeq
  <2> QED
    BY <1>1, <2>2, NodesOfExprs, EdgeIsEdge DEF ToNext
<1>2. CASE ~(Top.at < Len(Current))
  BY <1>2 DEF ToNext
<1> QED
  BY <1>1, <1>2

\* The edge to the first expression of a list, if there is one.
LEMMA ToFirstEdges ==
  ASSUME StateTypes, NEW s \in Sources, NEW l \in Lists
  PROVE  ToFirst(s, l) \subseteq FlowEdges
<1>1. CASE fn.list[l] # <<>>
  <2>1. fn.list[l] \in Seq(Exprs)
    BY FunctionParts
  <2>2. Len(fn.list[l]) \in Nat \ {0}
    BY <1>1, <2>1, LastIsElement
  <2>3. 1 \in 1..Len(fn.list[l])
    BY <2>2
  <2>4. fn.list[l][1] \in Exprs
    BY <2>1, <2>3, ElementOfSeq
  <2> QED
    BY <1>1, <2>4, NodesOfExprs, FixedLabels, EdgeIsEdge DEF ToFirst
<1>2. CASE fn.list[l] = <<>>
  BY <1>2 DEF ToFirst
<1> QED
  BY <1>1, <1>2

\* A label of the stack stands for a node.
LEMMA BlocksAreNodes ==
  ASSUME StateTypes, NEW t
  PROVE  getBlock(t) \subseteq Nodes
<1>1. \A i \in 1..Len(blocks) : blocks[i] \in Scopes
  BY ElementOfSeq DEF StateTypes
<1> QED
  BY <1>1 DEF getBlock, Scopes

\* The edges of a branch.
LEMMA BranchEdgesAreEdges ==
  ASSUME StateTypes, NEW e \in Exprs, NEW i, NEW l \in EdgeLabels
  PROVE  BranchEdges(e, i, l) \subseteq FlowEdges
BY BlocksAreNodes, NodesOfExprs, EdgeIsEdge DEF BranchEdges

\* Nothing falls out of a Return: it is among the silent kinds.
LEMMA LastEdges ==
  ASSUME StateTypes, NEW l, NEW n \in Nodes
  PROVE  insertEdgeFromLastExpr(l, n) \subseteq FlowEdges
<1>1. ASSUME NEW e \in Exprs
      PROVE  EdgesFrom(e, n) \subseteq FlowEdges
  <2> DEFINE silent == {"Br", "BrTable", "Return", "Unreachable", "Loop"}
  <2>1. CASE fn.kind[e] \in silent
    BY <2>1 DEF EdgesFrom, EdgesFromKind
  <2>2. CASE fn.kind[e] \notin silent
    <3>1. NodeOf(fn, e) \in Sources
      BY <2>2, NodesOfExprs
    <3> HIDE DEF silent
    <3> QED
      BY <2>2, <3>1, NodesOfExprs, FixedLabels, EdgeIsEdge
      DEF EdgesFrom, EdgesFromKind, silent
  <2> QED
    BY <2>1, <2>2
<1> QED
  BY <1>1 DEF insertEdgeFromLastExpr

\* The edges from the end of a list that has returned.
LEMMA FallThroughEdges ==
  ASSUME StateTypes, NEW n \in Nodes
  PROVE  FallThrough(n) \subseteq FlowEdges
BY LastEdges DEF FallThrough

\* The edges that the two arms of an If give.
LEMMA ArmEdges ==
  ASSUME StateTypes, NEW e \in Exprs
  PROVE  ThenEdges(e) \subseteq FlowEdges /\ ElseEdges(e) \subseteq FlowEdges
<1>1. FallThrough(EndBlock(e)) \subseteq FlowEdges
  BY FallThroughEdges, NodesOfExprs, FixedNodes
<1>2. /\ ToFirst(ThenBegin(e), <<e, "then">>) \subseteq FlowEdges
      /\ ToFirst(ElseBegin(e), <<e, "else">>) \subseteq FlowEdges
  BY ToFirstEdges, NodesOfExprs, ArmsAreLists
<1>3. CFGEdge(Inst(e), ElseBegin(e), OnFalse) \in FlowEdges
  BY EdgeIsEdge, NodesOfExprs, FixedNodes, FixedLabels
<1> QED
  BY <1>1, <1>2, <1>3 DEF ThenEdges, ElseEdges

\* The edges from childless instructions to the return node.
LEMMA ChildlessEdges ==
  ASSUME NEW es
  PROVE  {CFGEdge(n, RetFunc, Plainly) : n \in childlessReturn(es)}
           \subseteq FlowEdges
<1>1. ASTInsts \subseteq Sources
  BY NodesOfExprs DEF ASTInsts
<1> QED
  BY <1>1, FixedNodes, FixedLabels, EdgeIsEdge DEF childlessReturn

-----------------------------------------------------------------------------
(* What control does to the activations. *)

\* An activation that is working has a frame.
Working == pc = "construct" => stack # <<>>

\* The types of the variables that control changes.
ControlTypes ==
  /\ stack \in Seq(Frames)
  /\ ret \in Results
  /\ pc \in PCs
  /\ Working

\* The frame of a call.
LEMMA FrameIsFrame ==
  ASSUME NEW l \in Lists
  PROVE  Frame(l) \in Frames
BY DEF Frame, Frames

\* Advance keeps the types of the control variables.
LEMMA AdvanceTypes ==
  ASSUME StateTypes, stack # <<>>, Advance
  PROVE  ControlTypes'
<1> DEFINE n == Len(stack)
<1>1. n \in Nat \ {0} /\ stack[n] \in Frames
  BY TopIsFrame DEF Top, Last
<1>2. [stack[n] EXCEPT !.at = @ + 1] \in Frames
  BY <1>1 DEF Frames
<1>3. stack' = [stack EXCEPT ![n] = [stack[n] EXCEPT !.at = @ + 1]]
  BY DEF Advance
<1>4. stack' \in Seq(Frames) /\ Len(stack') = n
  <2> HIDE DEF n
  <2>1. n \in 1..Len(stack)
    BY <1>1 DEF n
  <2> QED
    BY <1>2, <1>3, <2>1, ExceptSeq DEF StateTypes, n
<1>5. stack' # <<>>
  BY <1>1, <1>4, EmptySeq
<1> QED
  BY <1>4, <1>5 DEF ControlTypes, Working, Advance, PCs, StateTypes

\* A call of construct keeps the types of the control variables.
LEMMA CallTypes ==
  ASSUME StateTypes, NEW l \in Lists, Call(l)
  PROVE  ControlTypes'
<1>1. stack' \in Seq(Frames) /\ stack' # <<>>
  BY FrameIsFrame, AppendIsSeq DEF Call, StateTypes
<1> QED
  BY <1>1 DEF ControlTypes, Working, Call, PCs, StateTypes

\* A return of construct keeps the types of the control variables.
LEMMA ReturnTypes ==
  ASSUME StateTypes, stack # <<>>, NEW u \in BOOLEAN, Return(u)
  PROVE  ControlTypes'
<1>1. stack' \in Seq(Frames)
  BY FrontIsSeq DEF Return, StateTypes
<1>2. ret' \in Results
  BY TopIsFrame DEF Return, Result, Results
<1> QED
  BY <1>1, <1>2 DEF ControlTypes, Working, Return, PCs

\* A pushed label leaves a stack of scopes.
LEMMA ScopeIsScope ==
  ASSUME StateTypes, NEW e \in Exprs, NEW n \in Nodes
  PROVE  Append(blocks, Scope(e, n)) \in Seq(Scopes)
<1>1. Scope(e, n) \in Scopes
  BY FunctionParts DEF Scope, Scopes
<1> QED
  BY <1>1, AppendIsSeq DEF StateTypes

\* A popped one does too.
LEMMA PopIsStack ==
  ASSUME StateTypes
  PROVE  Front(blocks) \in Seq(Scopes)
BY FrontIsSeq DEF StateTypes

-----------------------------------------------------------------------------
(***************************************************************************)
(* Type correctness and NoWayBack have one inductive invariant: the types,  *)
(* with the edges among FlowEdges, and that construct has a frame while it  *)
(* works (without that, Top is not a frame).                                *)
(***************************************************************************)
TypeInv ==
  /\ StateTypes
  /\ edges \subseteq FlowEdges
  /\ cg \subseteq Nodes \X Callees
  /\ Working

\* A run begins in a state of the right types.
LEMMA StartTypes ==
  ASSUME IsBody(fn), Start
  PROVE  TypeInv
<1>1. IsFunction(fn)
  BY DEF IsBody
<1>2. ret \in Results
  BY DEF Start, Result, Results, Lists, RootList
<1>3. blocks \in Seq(Scopes) /\ stack \in Seq(Frames)
  BY EmptySeq DEF Start
<1> QED
  BY <1>1, <1>2, <1>3 DEF Start, TypeInv, StateTypes, Working, PCs

LEMMA InitTypes == Init => TypeInv
<1> SUFFICES ASSUME Init PROVE TypeInv
  OBVIOUS
<1>1. IsBody(fn) /\ Start
  BY FunctionsAssumption DEF Init
<1> QED
  BY <1>1, StartTypes

\* A step that keeps fn and gives the other variables values of their types.
LEMMA TypesFromParts ==
  ASSUME TypeInv, fn' = fn, ControlTypes',
         blocks' \in Seq(Scopes),
         edges' \subseteq FlowEdges,
         cg' \subseteq Nodes \X Callees
  PROVE  TypeInv'
BY DEF TypeInv, StateTypes, ControlTypes, Working

\* Every step of the builder keeps the types.
LEMMA NextTypes == TypeInv /\ [Next]_vars => TypeInv'
<1> SUFFICES ASSUME TypeInv, [Next]_vars PROVE TypeInv'
  OBVIOUS
<1> USE DEF TypeInv
<1>a. /\ blocks \in Seq(Scopes)
      /\ Front(blocks) \in Seq(Scopes)
      /\ FALSE \in BOOLEAN /\ TRUE \in BOOLEAN
  BY PopIsStack DEF StateTypes
<1>b. ASSUME NEW n \in Sources, NEW d \in Nodes, NEW l \in EdgeLabels
      PROVE  {CFGEdge(n, d, l)} \subseteq FlowEdges
  BY EdgeIsEdge
<1>1. CASE BeginFunction
  <2>1. UNCHANGED <<fn, cg, blocks>>
    BY <1>1 DEF BeginFunction
  <2>2. CASE fn.list[RootList] = <<>>
    <3>1. edges' \subseteq FlowEdges
      BY <1>1, <1>b, <2>2, FixedNodes, FixedLabels DEF BeginFunction
    <3>2. ControlTypes'
      BY <1>1, <2>2 DEF BeginFunction, ControlTypes, StateTypes, Working, PCs
    <3> QED
      BY <1>a, <2>1, <3>1, <3>2, TypesFromParts
  <2>3. CASE fn.list[RootList] # <<>>
    <3>1. Call(RootList) /\ edges' = ToFirst(InstsNode, RootList)
      BY <1>1, <2>3 DEF BeginFunction
    <3>2. edges' \subseteq FlowEdges
      BY <3>1, ToFirstEdges, RootIsList, FixedNodes, FixedLabels
    <3>3. ControlTypes'
      BY <3>1, CallTypes, RootIsList
    <3> QED
      BY <1>a, <2>1, <3>2, <3>3, TypesFromParts
  <2> QED
    BY <2>2, <2>3
<1>2. CASE EndOfList
  BY <1>2, <1>a, ReturnTypes, TypesFromParts DEF EndOfList, Working
<1>3. CASE FinishFunction
  <2>1. edges' \subseteq FlowEdges
    BY <1>3, FallThroughEdges, ChildlessEdges, FixedNodes DEF FinishFunction
  <2> QED
    BY <1>3, <1>a, <2>1, TypesFromParts
    DEF FinishFunction, ControlTypes, StateTypes, Working, PCs
<1>4. ASSUME Crash PROVE TypeInv'
  BY <1>4, <1>a, TypesFromParts
  DEF Crash, ControlTypes, StateTypes, Working, PCs
<1>5. CASE LinkEmptyList
  BY <1>4, <1>5 DEF LinkEmptyList
<1>6. ASSUME NEW e \in Exprs, VisitReturn(e) PROVE TypeInv'
  BY <1>6, <1>a, ReturnTypes, TypesFromParts DEF VisitReturn, At, Working
<1>7. ASSUME NEW e \in Exprs, VisitUnreachable(e) PROVE TypeInv'
  <2>1. edges' \subseteq FlowEdges
    BY <1>7, <1>b, NodesOfExprs, FixedNodes, FixedLabels DEF VisitUnreachable
  <2> QED
    BY <1>7, <1>a, <2>1, ReturnTypes, TypesFromParts
    DEF VisitUnreachable, At, Working
<1>8. ASSUME NEW e \in Exprs, VisitBr(e) PROVE TypeInv'
  <2>1. edges' \subseteq FlowEdges
    BY <1>8, BranchEdgesAreEdges, FixedLabels DEF VisitBr
  <2> QED
    BY <1>8, <1>a, <2>1, ReturnTypes, TypesFromParts DEF VisitBr, At, Working
<1>9. ASSUME NEW e \in Exprs, VisitBrIf(e) PROVE TypeInv'
  <2>1. stack # <<>>
    BY <1>9 DEF VisitBrIf, At, Working
  <2>2. edges' \subseteq FlowEdges
    BY <1>9, <2>1, BranchEdgesAreEdges, ToNextEdges, NodesOfExprs, FixedLabels
    DEF VisitBrIf
  <2> QED
    BY <1>9, <1>a, <2>1, <2>2, AdvanceTypes, TypesFromParts DEF VisitBrIf
<1>10. ASSUME NEW e \in Exprs, VisitBrTable(e) PROVE TypeInv'
  <2>1. stack # <<>>
    BY <1>10 DEF VisitBrTable, At, Working
  <2>2. \A i \in 1 .. Len(fn.targets[e]) - 1 : OnCase(i - 1) \in EdgeLabels
    <3>1. Len(fn.targets[e]) \in Nat
      BY FunctionParts, LenProperties
    <3>2. \A i \in 1 .. Len(fn.targets[e]) - 1 : i - 1 \in Nat
      BY <3>1
    <3> QED
      BY <3>2, FixedLabels
  <2>3. \A i \in 1 .. Len(fn.targets[e]) - 1 :
          BranchEdges(e, i, OnCase(i - 1)) \subseteq FlowEdges
    BY <2>2, BranchEdgesAreEdges
  <2>4. \A i : BranchEdges(e, i, OnDefault) \subseteq FlowEdges
    BY BranchEdgesAreEdges, FixedLabels
  <2>5. edges' \subseteq FlowEdges
    BY <1>10, <2>3, <2>4 DEF VisitBrTable
  <2> QED
    BY <1>10, <1>a, <2>1, <2>5, AdvanceTypes, TypesFromParts DEF VisitBrTable
<1>11. ASSUME NEW e \in Exprs, VisitUnboundBranch(e) PROVE TypeInv'
  BY <1>4, <1>11 DEF VisitUnboundBranch
<1>12. ASSUME NEW e \in Exprs, EnterBlock(e) PROVE TypeInv'
  <2>1. edges' \subseteq FlowEdges
    BY ZenonT(60), <1>12, <1>b, ToFirstEdges, ArmsAreLists, NodesOfExprs, FixedNodes,
       FixedLabels
    DEF EnterBlock
  <2>2. blocks' \in Seq(Scopes)
    BY <1>12, ScopeIsScope, NodesOfExprs, FixedNodes DEF EnterBlock
  <2> QED
    BY <1>12, <2>1, <2>2, CallTypes, ArmsAreLists, TypesFromParts DEF EnterBlock
<1>13. ASSUME NEW e \in Exprs, LeaveBlock(e) PROVE TypeInv'
  <2>1. stack # <<>>
    BY <1>13 DEF LeaveBlock, Back
  <2>2. edges' \subseteq FlowEdges
    BY <1>13, <2>1, FallThroughEdges, ToNextEdges, NodesOfExprs, FixedNodes,
       FixedLabels
    DEF LeaveBlock
  <2> QED
    BY <1>13, <1>a, <2>1, <2>2, AdvanceTypes, TypesFromParts DEF LeaveBlock
<1>14. ASSUME NEW e \in Exprs, LeaveDeadBlock(e) PROVE TypeInv'
  <2>1. stack # <<>>
    BY <1>14 DEF LeaveDeadBlock, Back
  <2>2. edges' \subseteq FlowEdges
    BY <1>14, FallThroughEdges, NodesOfExprs, FixedNodes DEF LeaveDeadBlock
  <2> QED
    BY <1>14, <1>a, <2>1, <2>2, ReturnTypes, TypesFromParts DEF LeaveDeadBlock
<1>15. ASSUME NEW e \in Exprs, EnterLoop(e) PROVE TypeInv'
  <2>1. stack # <<>>
    BY <1>15 DEF EnterLoop, At, Working
  <2>2. edges' \subseteq FlowEdges
    BY <1>15, <2>1, ToFirstEdges, ToNextEdges, ArmsAreLists, NodesOfExprs,
       FixedLabels
    DEF EnterLoop
  <2>3. blocks' \in Seq(Scopes)
    BY <1>15, ScopeIsScope, NodesOfExprs, FixedNodes DEF EnterLoop
  <2> QED
    BY <1>15, <2>2, <2>3, CallTypes, ArmsAreLists, TypesFromParts DEF EnterLoop
<1>16. ASSUME NEW e \in Exprs, LeaveLoop(e) PROVE TypeInv'
  <2>1. stack # <<>>
    BY <1>16 DEF LeaveLoop, Back
  <2>2. edges' \subseteq FlowEdges
    BY <1>16, <2>1, LastEdges, ToNextEdges, NodesOfExprs, FixedNodes,
       FixedLabels
    DEF LeaveLoop
  <2> QED
    BY <1>16, <1>a, <2>1, <2>2, AdvanceTypes, TypesFromParts DEF LeaveLoop
<1>17. ASSUME NEW e \in Exprs, EnterIf(e) PROVE TypeInv'
  <2>1. edges' \subseteq FlowEdges
    BY <1>17, <1>b, NodesOfExprs, FixedNodes, FixedLabels DEF EnterIf
  <2>2. blocks' \in Seq(Scopes)
    BY <1>17, ScopeIsScope, NodesOfExprs, FixedNodes DEF EnterIf
  <2> QED
    BY <1>17, <2>1, <2>2, CallTypes, ArmsAreLists, TypesFromParts DEF EnterIf
<1>18. ASSUME NEW e \in Exprs, EnterElse(e) PROVE TypeInv'
  <2> DEFINE s == [stack EXCEPT ![Len(stack)].thenUnreachable = ret.unreachable]
             f == [stack[Len(stack)] EXCEPT !.thenUnreachable = ret.unreachable]
  <2>1. stack # <<>>
    BY <1>18 DEF EnterElse, Back
  <2>2. edges' \subseteq FlowEdges
    BY <1>18, ArmEdges DEF EnterElse
  <2>3. blocks' \in Seq(Scopes)
    <3>1. Scope(e, EndBlock(e)) \in Scopes
      BY FunctionParts, NodesOfExprs, FixedNodes DEF Scope, Scopes
    <3> QED
      BY <1>18, <1>a, <3>1, AppendIsSeq DEF EnterElse
  <2>4. s \in Seq(Frames)
    <3>1. Len(stack) \in 1..Len(stack) /\ stack[Len(stack)] \in Frames
      BY <2>1, TopIsFrame DEF Top, Last
    <3>2. f \in Frames
      BY <3>1 DEF Frames, StateTypes, Results
    <3>3. s = [stack EXCEPT ![Len(stack)] = f]
      OBVIOUS
    <3> HIDE DEF f, s
    <3> QED
      BY <3>1, <3>2, <3>3, ExceptSeq DEF StateTypes
  <2>5. stack' \in Seq(Frames) /\ stack' # <<>>
    <3> HIDE DEF s
    <3>1. Frame(<<e, "else">>) \in Frames
      BY ArmsAreLists, FrameIsFrame
    <3>2. stack' = Append(s, Frame(<<e, "else">>))
      BY <1>18 DEF EnterElse, s
    <3> QED
      BY <2>4, <3>1, <3>2, AppendIsSeq
  <2>6. ControlTypes'
    BY <1>18, <2>5 DEF EnterElse, ControlTypes, StateTypes, Working, PCs
  <2> QED
    BY <1>18, <2>2, <2>3, <2>6, TypesFromParts DEF EnterElse
<1>c. ASSUME NEW e \in Exprs, stack # <<>>, NEW es \in SUBSET FlowEdges
      PROVE  ToNextOfJoin(es, e) \subseteq FlowEdges
  BY <1>c, ToNextEdges, NodesOfExprs, FixedLabels DEF ToNextOfJoin
<1>19. ASSUME NEW e \in Exprs, LeaveIfWithoutElse(e) PROVE TypeInv'
  <2> DEFINE linked == edges \cup ThenEdges(e) \cup
                         {CFGEdge(Inst(e), ElseBegin(e), OnFalse),
                          CFGEdge(ElseBegin(e), EndBlock(e), Plainly)}
  <2>1. stack # <<>>
    BY <1>19 DEF LeaveIfWithoutElse, Back
  <2>2. linked \in SUBSET FlowEdges
    BY ArmEdges, EdgeIsEdge, NodesOfExprs, FixedNodes, FixedLabels
  <2>3. edges' = linked \cup ToNextOfJoin(linked, e)
    BY <1>19 DEF LeaveIfWithoutElse
  <2> HIDE DEF linked
  <2>4. edges' \subseteq FlowEdges
    BY <1>c, <2>1, <2>2, <2>3
  <2> QED
    BY <1>19, <1>a, <2>1, <2>4, AdvanceTypes, TypesFromParts
    DEF LeaveIfWithoutElse
<1>20. ASSUME NEW e \in Exprs, LeaveElse(e) PROVE TypeInv'
  <2> DEFINE linked == edges \cup ElseEdges(e)
  <2>1. stack # <<>>
    BY <1>20 DEF LeaveElse, Back
  <2>2. linked \in SUBSET FlowEdges
    BY ArmEdges
  <2>3. edges' = linked \cup ToNextOfJoin(linked, e)
    BY <1>20 DEF LeaveElse
  <2> HIDE DEF linked
  <2>4. edges' \subseteq FlowEdges
    BY <1>c, <2>1, <2>2, <2>3
  <2> QED
    BY <1>20, <1>a, <2>1, <2>4, AdvanceTypes, TypesFromParts DEF LeaveElse
<1>21. ASSUME NEW e \in Exprs, LeaveDeadIf(e) PROVE TypeInv'
  <2>1. stack # <<>>
    BY <1>21 DEF LeaveDeadIf, Back
  <2>2. edges' \subseteq FlowEdges
    BY <1>21, ArmEdges DEF LeaveDeadIf
  <2> QED
    BY <1>21, <1>a, <2>1, <2>2, ReturnTypes, TypesFromParts DEF LeaveDeadIf
<1>22. ASSUME NEW e \in Exprs, VisitCall(e) PROVE TypeInv'
  <2>1. stack # <<>>
    BY <1>22 DEF VisitCall, At, Working
  <2>2. edges' \subseteq FlowEdges
    BY <1>22, <2>1, ToNextEdges, NodesOfExprs, FixedLabels DEF VisitCall
  <2>3. cg' \subseteq Nodes \X Callees
    BY <1>22, FunctionParts, NodesOfExprs, FixedNodes DEF VisitCall
  <2> QED
    BY <1>22, <1>a, <2>1, <2>2, <2>3, AdvanceTypes, TypesFromParts DEF VisitCall
<1>23. ASSUME NEW e \in Exprs, VisitDefault(e) PROVE TypeInv'
  <2>1. stack # <<>>
    BY <1>23 DEF VisitDefault, At, Working
  <2>2. edges' \subseteq FlowEdges
    BY <1>23, <2>1, ToNextEdges, NodesOfExprs, FixedLabels DEF VisitDefault
  <2> QED
    BY <1>23, <1>a, <2>1, <2>2, AdvanceTypes, TypesFromParts DEF VisitDefault
<1>24. CASE UNCHANGED vars
  BY <1>24 DEF vars, StateTypes, Working
<1> QED
  BY <1>1, <1>2, <1>3, <1>5, <1>6, <1>7, <1>8, <1>9, <1>10, <1>11, <1>12,
     <1>13, <1>14, <1>15, <1>16, <1>17, <1>18, <1>19, <1>20, <1>21, <1>22,
     <1>23, <1>24
  DEF Next

\* The invariant gives the properties the runs check.
LEMMA TypeInvSuffices == TypeInv => TypeOK /\ NoWayBack
<1> SUFFICES ASSUME TypeInv PROVE TypeOK /\ NoWayBack
  OBVIOUS
<1>1. FlowEdges \subseteq CFGEdges
  BY FixedNodes DEF FlowEdges, CFGEdges
<1>2. \A d \in FlowEdges : d.src \notin {RetFunc, Trap}
  BY DEF FlowEdges, Sources
<1> QED
  BY <1>1, <1>2 DEF TypeInv, StateTypes, TypeOK, NoWayBack

\* Type correctness of the builder, for every set of function bodies: the
\* stacks of cfg-builder.cc hold scopes and frames, and every edge that
\* construct inserts joins two nodes with one of the labels of a CFGEdge.
THEOREM TypeCorrect == Spec => []TypeOK
<1>1. Spec => []TypeInv
  BY InitTypes, NextTypes, PTL DEF Spec
<1> QED
  BY <1>1, TypeInvSuffices, PTL

\* However deep the nesting, no edge leaves the return node, which every
\* Return expression shares, or the trap.
THEOREM NoWayBackHolds == Spec => []NoWayBack
<1>1. Spec => []TypeInv
  BY InitTypes, NextTypes, PTL DEF Spec
<1> QED
  BY <1>1, TypeInvSuffices, PTL

-----------------------------------------------------------------------------
(***************************************************************************)
(* The label stack of the CFG builder is the nesting of the lists it is in, *)
(* for every set of function bodies and however deep they nest: the early   *)
(* returns of construct (a block nothing comes to the end of, an If both of *)
(* whose arms are unreachable) pop what their case has pushed.              *)
(***************************************************************************)

\* The lists that construct builds for expression e.
ListsOf(e) ==
  {l \in {<<e, "body">>} : fn.kind[e] \in {"Block", "Loop"}} \cup
  {l \in {<<e, "then">>, <<e, "else">>} : fn.kind[e] = "If"}

\* Activation i is at an expression, and list l is one of that expression's.
Suspended(i, l) ==
  /\ stack[i].at <= Len(fn.list[stack[i].list])
  /\ l \in ListsOf(Pending(i))

\* The list that activation i waits for is being built, or has returned.
Linked(i)   == Suspended(i, stack[i + 1].list)
\* So has the innermost activation's.
HasReturned == Suspended(Len(stack), ret.list)

\* Each scope is that of the expression its activation is at.
ScopesOfActivations ==
  \A i \in 1..Len(blocks) : blocks[i] = Declared(Pending(i))

(***************************************************************************)
(* The inductive invariant.  Over the two properties it adds which lists an *)
(* activation may be suspended for: without it, construct could come back   *)
(* from a true arm to a Loop and replace the loop's label by a join.        *)
(***************************************************************************)
NestInv ==
  /\ pc \in {"start", "done"} => stack = <<>> /\ blocks = <<>>
  /\ stack # <<>> => stack[1].list = RootList
  /\ \A i \in 1 .. Len(stack) - 1 : Linked(i)
  /\ pc = "returned" => IF stack = <<>> THEN ret.list = RootList
                        ELSE HasReturned
  /\ pc = "construct" => Len(blocks) = Len(stack) - 1
  /\ pc = "returned"  => Len(blocks) = Len(stack)
  /\ pc \in {"construct", "returned"} => ScopesOfActivations

-----------------------------------------------------------------------------
(* The kinds of step construct makes, as the stacks see them. *)

\* What they do to the label stack.
Stays == UNCHANGED <<fn, blocks>>
Pops  == fn' = fn /\ blocks' = Front(blocks)

\* construct is called on a list of the expression the caller is at.
Descends ==
  \E e \in Exprs : \E l \in ListsOf(e) :
    /\ pc = "construct" /\ Top.at <= Len(Current) /\ e = Current[Top.at]
    /\ Call(l)
    /\ fn' = fn /\ blocks' = Append(blocks, Declared(e))

\* An expression without lists is passed, or ends its activation.
Passes == pc = "construct" /\ Advance /\ Stays
Ends   == pc = "construct" /\ Stays /\ \E u \in BOOLEAN : Return(u)

\* The last list of an expression is done: the caller goes on, or ends too.
Resumes == pc = "returned" /\ stack # <<>> /\ Advance /\ Pops
Leaves  == /\ pc = "returned" /\ stack # <<>> /\ Pops
           /\ \E u \in BOOLEAN : Return(u)

\* Every step is of one of the kinds.
LEMMA StepKinds ==
  ASSUME TypeInv, NestInv, Next
  PROVE  \/ Descends \/ Passes \/ Ends \/ Resumes \/ Leaves
         \/ BeginFunction \/ FinishFunction \/ Crash
         \/ \E e \in Exprs : EnterElse(e)
<1>1. ASSUME NEW e \in Exprs, EnterBlock(e) PROVE Descends
  BY <1>1 DEF EnterBlock, At, Descends, ListsOf, Declared
<1>2. ASSUME NEW e \in Exprs, EnterLoop(e) PROVE Descends
  BY <1>2 DEF EnterLoop, At, Descends, ListsOf, Declared
<1>3. ASSUME NEW e \in Exprs, EnterIf(e) PROVE Descends
  BY <1>3 DEF EnterIf, At, Descends, ListsOf, Declared
<1>4. ASSUME NEW e \in Exprs,
             VisitBrIf(e) \/ VisitBrTable(e) \/ VisitCall(e) \/ VisitDefault(e)
      PROVE  Passes
  BY <1>4 DEF VisitBrIf, VisitBrTable, VisitCall, VisitDefault, At, Passes, Stays
<1>5. ASSUME NEW e \in Exprs,
             VisitReturn(e) \/ VisitUnreachable(e) \/ VisitBr(e)
      PROVE  Ends
  BY <1>5 DEF VisitReturn, VisitUnreachable, VisitBr, At, Ends, Stays
<1>6. CASE EndOfList
  BY <1>6 DEF EndOfList, Ends, Stays
<1>7. ASSUME NEW e \in Exprs,
             \/ LeaveBlock(e) \/ LeaveLoop(e)
             \/ LeaveIfWithoutElse(e) \/ LeaveElse(e)
      PROVE  Resumes
  BY <1>7 DEF LeaveBlock, LeaveLoop, LeaveIfWithoutElse, LeaveElse, Back,
              Resumes, Pops
<1>8. ASSUME NEW e \in Exprs, LeaveDeadBlock(e) \/ LeaveDeadIf(e)
      PROVE  Leaves
  BY <1>8 DEF LeaveDeadBlock, LeaveDeadIf, Back, Leaves, Pops
<1>9. ASSUME NEW e \in Exprs, VisitUnboundBranch(e) PROVE Crash
  BY <1>9 DEF VisitUnboundBranch
<1>10. CASE LinkEmptyList
  BY <1>10 DEF LinkEmptyList
<1> QED
  BY <1>1, <1>2, <1>3, <1>4, <1>5, <1>6, <1>7, <1>8, <1>9, <1>10 DEF Next

-----------------------------------------------------------------------------
(* Activations that a step leaves alone. *)

\* Activation i has the list and the place in it that it had.
Kept(i) == stack'[i].list = stack[i].list /\ stack'[i].at = stack[i].at

\* What the invariant says of an activation that a step leaves alone, it says
\* after the step.
LEMMA KeptActivation ==
  ASSUME fn' = fn, NEW i, Kept(i)
  PROVE  /\ Pending(i)' = Pending(i)
         /\ Declared(Pending(i))' = Declared(Pending(i))
         /\ Suspended(i, stack'[i + 1].list) => Linked(i)'
         /\ Suspended(i, ret'.list) /\ Len(stack') = i => HasReturned'
BY DEF Kept, Pending, Declared, Scope, Suspended, ListsOf, Linked, HasReturned

\* The lengths of the two stacks are numbers, and zero just when they are empty.
LEMMA Sizes ==
  ASSUME StateTypes
  PROVE  /\ Len(stack) \in Nat /\ Len(blocks) \in Nat
         /\ (Len(stack) = 0) <=> (stack = <<>>)
         /\ (Len(blocks) = 0) <=> (blocks = <<>>)
BY EmptySeq, LenProperties DEF StateTypes

\* Advance moves the innermost activation on by one and touches no other.
LEMMA AdvanceShape ==
  ASSUME StateTypes, stack # <<>>, Advance
  PROVE  /\ stack' # <<>> /\ Len(stack') = Len(stack)
         /\ \A i \in 1 .. Len(stack) - 1 : Kept(i)
         /\ \A i \in 1 .. Len(stack) : stack'[i].list = stack[i].list
         /\ pc' = "construct"
<1> DEFINE n == Len(stack)
           f == [stack[n] EXCEPT !.at = @ + 1]
<1>1. n \in Nat \ {0} /\ stack[n] \in Frames
  BY TopIsFrame DEF Top, Last
<1>2. f \in Frames /\ f.list = stack[n].list
  BY <1>1 DEF Frames
<1>3. stack' = [stack EXCEPT ![n] = f]
  BY DEF Advance
<1> HIDE DEF n, f
<1>4. n \in 1..Len(stack)
  BY <1>1 DEF n
<1>5. /\ Len(stack') = Len(stack)
      /\ \A i \in 1..Len(stack) : stack'[i] = IF i = n THEN f ELSE stack[i]
      /\ stack' \in Seq(Frames)
  BY <1>2, <1>3, <1>4, ExceptSeq DEF StateTypes
<1>6. \A i \in 1 .. Len(stack) - 1 : i \in 1..Len(stack) /\ i # n
  BY <1>1 DEF n
<1>7. \A i \in 1 .. Len(stack) - 1 : stack'[i] = stack[i]
  BY <1>5, <1>6
<1>8. stack' # <<>>
  BY <1>1, <1>5, EmptySeq DEF n
<1> QED
  BY <1>2, <1>5, <1>7, <1>8 DEF Kept, Advance, n

\* Call adds one activation, at the start of its list.
LEMMA CallShape ==
  ASSUME StateTypes, NEW l \in Lists, Call(l)
  PROVE  /\ stack' # <<>> /\ Len(stack') = Len(stack) + 1
         /\ \A i \in 1 .. Len(stack) : Kept(i)
         /\ stack'[Len(stack) + 1].list = l
         /\ pc' = "construct"
<1>1. /\ stack' # <<>> /\ Len(stack') = Len(stack) + 1
      /\ \A i \in 1 .. Len(stack) : stack'[i] = stack[i]
      /\ stack'[Len(stack) + 1] = Frame(l)
  BY FrameIsFrame, AppendIsSeq DEF Call, StateTypes
<1> QED
  BY <1>1 DEF Kept, Frame, Call

\* Return takes the innermost activation away and leaves its list in ret.
LEMMA ReturnShape ==
  ASSUME StateTypes, stack # <<>>, NEW u, Return(u)
  PROVE  /\ Len(stack') = Len(stack) - 1
         /\ \A i \in 1 .. Len(stack) - 1 : Kept(i)
         /\ (stack' = <<>>) <=> (Len(stack) = 1)
         /\ ret'.list = stack[Len(stack)].list
         /\ pc' = "returned"
<1>1. /\ stack' \in Seq(Frames)
      /\ Len(stack') = Len(stack) - 1
      /\ \A i \in 1 .. Len(stack) - 1 : stack'[i] = stack[i]
  BY FrontIsSeq DEF Return, StateTypes
<1>2. Len(stack) \in Nat \ {0}
  BY TopIsFrame
<1>3. (stack' = <<>>) <=> (Len(stack) = 1)
  BY <1>1, <1>2, EmptySeq
<1> QED
  BY <1>1, <1>3 DEF Kept, Return, Result, Top, Last

-----------------------------------------------------------------------------
(* Each kind of step keeps the invariant. *)

\* A call of construct on a list of the current expression.
LEMMA DescendsNests ==
  ASSUME TypeInv, NestInv, Descends
  PROVE  NestInv'
<1> PICK e \in Exprs : \E l \in ListsOf(e) :
      /\ pc = "construct" /\ Top.at <= Len(Current) /\ e = Current[Top.at]
      /\ Call(l)
      /\ fn' = fn /\ blocks' = Append(blocks, Declared(e))
  BY DEF Descends
<1> PICK l \in ListsOf(e) :
      /\ pc = "construct" /\ Top.at <= Len(Current) /\ e = Current[Top.at]
      /\ Call(l)
      /\ fn' = fn /\ blocks' = Append(blocks, Declared(e))
  OBVIOUS
<1> DEFINE n == Len(stack)
<1>1. StateTypes /\ stack # <<>> /\ n \in Nat \ {0} /\ Len(blocks) = n - 1
  BY TopIsFrame DEF TypeInv, Working, NestInv
<1>2. l \in Lists
  BY ArmsAreLists DEF ListsOf
<1>3. /\ stack' # <<>> /\ Len(stack') = n + 1
      /\ \A i \in 1..n : Kept(i)
      /\ stack'[n + 1].list = l
      /\ pc' = "construct"
  BY <1>1, <1>2, CallShape
<1>4. e = Pending(n) /\ Suspended(n, l)
  BY DEF Top, Current, Last, Pending, Suspended
<1>5. /\ Len(blocks') = n
      /\ \A i \in 1 .. n - 1 : blocks'[i] = blocks[i]
      /\ blocks'[n] = Declared(e)
  <2>1. Declared(e) \in Scopes
    BY <1>1, FunctionParts, NodesOfExprs, FixedNodes
    DEF Declared, Scope, Scopes
  <2> QED
    BY <1>1, <2>1, AppendIsSeq DEF StateTypes
<1> HIDE DEF n
<1>6. stack'[1].list = RootList
  BY <1>1, <1>3 DEF NestInv, Kept, n
<1>7. \A i \in 1 .. Len(stack') - 1 : Linked(i)'
  <2> SUFFICES ASSUME NEW i \in 1..n
               PROVE  Linked(i)'
    BY <1>1, <1>3
  <2>1. CASE i = n
    BY <1>3, <1>4, <2>1, KeptActivation
  <2>2. CASE i # n
    <3>1. i \in 1 .. n - 1 /\ i + 1 \in 1..n
      BY <1>1, <2>2
    <3>2. Suspended(i, stack[i + 1].list)
      BY <3>1 DEF NestInv, Linked, n
    <3>3. stack'[i + 1].list = stack[i + 1].list
      BY <1>3, <3>1 DEF Kept
    <3> QED
      BY <1>3, <3>2, <3>3, KeptActivation
  <2> QED
    BY <2>1, <2>2
<1>8. ScopesOfActivations'
  <2> SUFFICES ASSUME NEW i \in 1..n
               PROVE  blocks'[i] = Declared(Pending(i))'
    BY <1>5 DEF ScopesOfActivations
  <2>1. Declared(Pending(i))' = Declared(Pending(i))
    BY <1>3, KeptActivation
  <2>2. CASE i = n
    BY <1>4, <1>5, <2>1, <2>2
  <2>3. CASE i # n
    <3>1. i \in 1 .. n - 1 /\ i \in 1..Len(blocks)
      BY <1>1, <2>3
    <3> QED
      BY <1>5, <2>1, <3>1 DEF NestInv, ScopesOfActivations
  <2> QED
    BY <2>2, <2>3
<1> QED
  BY <1>1, <1>3, <1>5, <1>6, <1>7, <1>8 DEF NestInv

\* What is the same for a step that moves the innermost activation on.
LEMMA AdvanceNests ==
  ASSUME TypeInv, NestInv, stack # <<>>, Advance, fn' = fn,
         Len(blocks') = Len(stack) - 1,
         \A i \in 1 .. Len(stack) - 1 : blocks'[i] = Declared(Pending(i))
  PROVE  NestInv'
<1> DEFINE n == Len(stack)
<1>1. StateTypes /\ n \in Nat \ {0}
  BY TopIsFrame DEF TypeInv
<1>2. /\ stack' # <<>> /\ Len(stack') = n
      /\ \A i \in 1 .. n - 1 : Kept(i)
      /\ \A i \in 1 .. n : stack'[i].list = stack[i].list
      /\ pc' = "construct"
  BY <1>1, AdvanceShape
<1> HIDE DEF n
<1>3. stack'[1].list = RootList
  BY <1>1, <1>2 DEF NestInv
<1>4. \A i \in 1 .. Len(stack') - 1 : Linked(i)'
  <2> SUFFICES ASSUME NEW i \in 1 .. n - 1
               PROVE  Linked(i)'
    BY <1>2
  <2>1. i + 1 \in 1..n
    BY <1>1
  <2>2. Suspended(i, stack'[i + 1].list)
    BY <1>2, <2>1 DEF NestInv, Linked, n
  <2> QED
    BY <1>2, <2>2, KeptActivation
<1>5. ScopesOfActivations'
  <2> SUFFICES ASSUME NEW i \in 1 .. n - 1
               PROVE  blocks'[i] = Declared(Pending(i))'
    BY DEF ScopesOfActivations, n
  <2> QED
    BY <1>2, KeptActivation DEF n
<1> QED
  BY <1>2, <1>3, <1>4, <1>5 DEF NestInv, n

\* A step over an expression that calls nothing.
LEMMA PassesNests ==
  ASSUME TypeInv, NestInv, Passes
  PROVE  NestInv'
<1>1. stack # <<>> /\ StateTypes
  BY DEF Passes, TypeInv, Working
<1>2. Len(blocks') = Len(stack) - 1
  BY DEF Passes, Stays, NestInv
<1>3. \A i \in 1 .. Len(stack) - 1 : blocks'[i] = Declared(Pending(i))
  BY DEF Passes, Stays, NestInv, ScopesOfActivations
<1> QED
  BY <1>1, <1>2, <1>3, AdvanceNests DEF Passes, Stays

\* The scopes that are left when the innermost one is popped.
LEMMA PoppedScopes ==
  ASSUME TypeInv, NestInv, pc = "returned", stack # <<>>, Pops
  PROVE  /\ Len(blocks') = Len(stack) - 1
         /\ \A i \in 1 .. Len(stack) - 1 : blocks'[i] = Declared(Pending(i))
<1>1. Len(stack) \in Nat \ {0} /\ Len(blocks) = Len(stack)
  BY TopIsFrame DEF TypeInv, NestInv
<1>2. blocks # <<>> /\ blocks \in Seq(Scopes)
  BY <1>1, Sizes DEF TypeInv, StateTypes
<1>3. /\ Len(blocks') = Len(stack) - 1
      /\ \A i \in 1 .. Len(stack) - 1 : blocks'[i] = blocks[i]
  BY <1>1, <1>2, FrontIsSeq DEF Pops
<1>4. \A i \in 1 .. Len(stack) - 1 : i \in 1..Len(blocks)
  BY <1>1
<1> QED
  BY <1>3, <1>4 DEF NestInv, ScopesOfActivations

\* The return into a case that goes on with its own list.
LEMMA ResumesNests ==
  ASSUME TypeInv, NestInv, Resumes
  PROVE  NestInv'
BY PoppedScopes, AdvanceNests DEF Resumes, Pops

\* What is the same for a step that ends the innermost activation.
LEMMA ReturnNests ==
  ASSUME TypeInv, NestInv, stack # <<>>, NEW u, Return(u), fn' = fn,
         Len(blocks') = Len(stack) - 1,
         \A i \in 1 .. Len(stack) - 1 : blocks'[i] = Declared(Pending(i))
  PROVE  NestInv'
<1> DEFINE n == Len(stack)
<1>1. StateTypes /\ n \in Nat \ {0}
  BY TopIsFrame DEF TypeInv
<1>2. /\ Len(stack') = n - 1
      /\ \A i \in 1 .. n - 1 : Kept(i)
      /\ (stack' = <<>>) <=> (n = 1)
      /\ ret'.list = stack[n].list
      /\ pc' = "returned"
  BY <1>1, ReturnShape
<1> HIDE DEF n
<1>3. stack' # <<>> => stack'[1].list = RootList
  <2>1. n # 1 => 1 \in 1 .. n - 1
    BY <1>1
  <2> QED
    BY <1>2, <2>1 DEF NestInv, Kept
<1>4. \A i \in 1 .. Len(stack') - 1 : Linked(i)'
  <2> SUFFICES ASSUME NEW i \in 1 .. n - 2
               PROVE  Linked(i)'
    BY <1>1, <1>2
  <2>1. i \in 1 .. n - 1 /\ i + 1 \in 1 .. n - 1
    BY <1>1
  <2>2. Suspended(i, stack'[i + 1].list)
    BY <1>2, <2>1 DEF NestInv, Linked, Kept, n
  <2> QED
    BY <1>2, <2>1, <2>2, KeptActivation
<1>5. IF stack' = <<>> THEN ret'.list = RootList ELSE HasReturned'
  <2>1. CASE n = 1
    BY <1>2, <2>1 DEF NestInv, n
  <2>2. CASE n # 1
    <3>1. n - 1 \in 1 .. n - 1 /\ (n - 1) + 1 = n
      BY <1>1, <2>2
    <3>2. Suspended(n - 1, ret'.list)
      BY <1>2, <3>1 DEF NestInv, Linked, n
    <3> QED
      BY <1>2, <2>2, <3>1, <3>2, KeptActivation
  <2> QED
    BY <2>1, <2>2
<1>6. ScopesOfActivations'
  <2> SUFFICES ASSUME NEW i \in 1 .. n - 1
               PROVE  blocks'[i] = Declared(Pending(i))'
    BY DEF ScopesOfActivations, n
  <2> QED
    BY <1>2, KeptActivation DEF n
<1> QED
  BY <1>2, <1>3, <1>4, <1>5, <1>6 DEF NestInv, n

\* The end of a list, or an expression that ends it.
LEMMA EndsNests ==
  ASSUME TypeInv, NestInv, Ends
  PROVE  NestInv'
<1>1. stack # <<>> /\ StateTypes
  BY DEF Ends, TypeInv, Working
<1>2. Len(blocks') = Len(stack) - 1
  BY DEF Ends, Stays, NestInv
<1>3. \A i \in 1 .. Len(stack) - 1 : blocks'[i] = Declared(Pending(i))
  BY DEF Ends, Stays, NestInv, ScopesOfActivations
<1> QED
  BY <1>1, <1>2, <1>3, ReturnNests DEF Ends, Stays

\* The return into a case that itself returns at once.
LEMMA LeavesNests ==
  ASSUME TypeInv, NestInv, Leaves
  PROVE  NestInv'
BY PoppedScopes, ReturnNests DEF Leaves, Pops

\* The true arm's label is popped and pushed again for the false arm: it is
\* the label of the same If, for the list that has returned is one of an If.
LEMMA ElseNests ==
  ASSUME TypeInv, NestInv, NEW e \in Exprs, EnterElse(e)
  PROVE  NestInv'
<1> DEFINE n == Len(stack)
           f == [stack[n] EXCEPT !.thenUnreachable = ret.unreachable]
           s == [stack EXCEPT ![n] = f]
<1>1. StateTypes /\ stack # <<>> /\ pc = "returned" /\ ret.list = <<e, "then">>
  BY DEF TypeInv, EnterElse, Back
<1>2. n \in Nat \ {0} /\ stack[n] \in Frames
  BY <1>1, TopIsFrame DEF Top, Last
<1>3. e = Pending(n) /\ fn.kind[e] = "If" /\ Suspended(n, <<e, "else">>)
  BY <1>1 DEF NestInv, HasReturned, Suspended, ListsOf
<1>4. f \in Frames /\ f.list = stack[n].list /\ f.at = stack[n].at
  BY <1>1, <1>2 DEF Frames, StateTypes, Results
<1>5. stack' = Append(s, Frame(<<e, "else">>))
  BY DEF EnterElse
<1> HIDE DEF f, n
<1>6. n \in 1..Len(stack)
  BY <1>2 DEF n
<1>7. /\ s \in Seq(Frames) /\ Len(s) = n
      /\ \A i \in 1..n : s[i].list = stack[i].list /\ s[i].at = stack[i].at
  BY <1>1, <1>4, <1>6, ExceptSeq DEF StateTypes, n
<1> HIDE DEF s
<1>8. /\ stack' # <<>> /\ Len(stack') = n + 1
      /\ \A i \in 1..n : Kept(i)
      /\ stack'[n + 1].list = <<e, "else">>
  <2>1. Frame(<<e, "else">>) \in Frames
    BY ArmsAreLists, FrameIsFrame
  <2>2. /\ stack' # <<>> /\ Len(stack') = n + 1
        /\ \A i \in 1..n : stack'[i] = s[i]
        /\ stack'[n + 1] = Frame(<<e, "else">>)
    BY <1>5, <1>7, <2>1, AppendIsSeq
  <2> QED
    BY <1>7, <2>2 DEF Kept, Frame
<1>9. fn' = fn /\ pc' = "construct"
  BY DEF EnterElse
<1>10. /\ Len(blocks') = n
       /\ \A i \in 1 .. n - 1 : blocks'[i] = Declared(Pending(i))
       /\ blocks'[n] = Declared(e)
  <2>1. /\ Len(Front(blocks)) = n - 1
        /\ Front(blocks) \in Seq(Scopes)
        /\ \A i \in 1 .. n - 1 : Front(blocks)[i] = Declared(Pending(i))
    <3>1. Len(blocks) = n /\ blocks # <<>> /\ blocks \in Seq(Scopes)
      BY <1>1, <1>2, Sizes DEF NestInv, StateTypes, n
    <3>2. \A i \in 1 .. n - 1 : i \in 1..Len(blocks)
      BY <1>2, <3>1
    <3> QED
      BY <1>1, <3>1, <3>2, FrontIsSeq DEF NestInv, ScopesOfActivations
  <2>2. Scope(e, EndBlock(e)) \in Scopes
    BY <1>1, FunctionParts, NodesOfExprs, FixedNodes DEF Scope, Scopes
  <2>3. Declared(e) = Scope(e, EndBlock(e))
    BY <1>3 DEF Declared
  <2>4. blocks' = Append(Front(blocks), Scope(e, EndBlock(e)))
    BY DEF EnterElse
  <2> QED
    BY <1>2, <2>1, <2>2, <2>3, <2>4, AppendIsSeq
<1>11. stack'[1].list = RootList
  BY <1>1, <1>2, <1>8 DEF NestInv, Kept
<1>12. \A i \in 1 .. Len(stack') - 1 : Linked(i)'
  <2> SUFFICES ASSUME NEW i \in 1..n
               PROVE  Linked(i)'
    BY <1>2, <1>8
  <2>1. CASE i = n
    BY <1>3, <1>8, <1>9, <2>1, KeptActivation
  <2>2. CASE i # n
    <3>1. i \in 1 .. n - 1 /\ i + 1 \in 1..n
      BY <1>2, <2>2
    <3>2. Suspended(i, stack'[i + 1].list)
      BY <1>8, <3>1 DEF NestInv, Linked, Kept, n
    <3> QED
      BY <1>8, <1>9, <3>2, KeptActivation
  <2> QED
    BY <2>1, <2>2
<1>13. ScopesOfActivations'
  <2> SUFFICES ASSUME NEW i \in 1..n
               PROVE  blocks'[i] = Declared(Pending(i))'
    BY <1>10 DEF ScopesOfActivations
  <2>1. Declared(Pending(i))' = Declared(Pending(i))
    BY <1>8, <1>9, KeptActivation
  <2>2. CASE i = n
    BY <1>3, <1>10, <2>1, <2>2
  <2>3. CASE i # n
    <3>1. i \in 1 .. n - 1
      BY <1>2, <2>3
    <3> QED
      BY <1>10, <2>1, <3>1
  <2> QED
    BY <2>2, <2>3
<1> QED
  BY <1>2, <1>8, <1>9, <1>10, <1>11, <1>12, <1>13 DEF NestInv

-----------------------------------------------------------------------------
\* Nothing is built yet.
LEMMA InitNests == Init => NestInv
<1> SUFFICES ASSUME Init PROVE NestInv
  OBVIOUS
<1>1. Len(stack) - 1 = 0 - 1
  BY EmptySeq DEF Init, Start
<1> QED
  BY <1>1 DEF Init, Start, NestInv

\* Every step keeps the nesting.
LEMMA NextNests == TypeInv /\ NestInv /\ [Next]_vars => NestInv'
<1> SUFFICES ASSUME TypeInv, NestInv, [Next]_vars PROVE NestInv'
  OBVIOUS
<1>1. ASSUME UNCHANGED <<fn, blocks, stack, ret>>,
             \/ pc' = pc
             \/ pc' = "crashed"
             \/ pc' = "done" /\ stack = <<>> /\ blocks = <<>>
      PROVE  NestInv'
  <2>1. \A i : Linked(i)' <=> Linked(i)
    BY <1>1 DEF Linked, Suspended, ListsOf, Pending
  <2>2. HasReturned' <=> HasReturned
    BY <1>1 DEF HasReturned, Suspended, ListsOf, Pending
  <2>3. ScopesOfActivations' <=> ScopesOfActivations
    BY <1>1 DEF ScopesOfActivations, Pending, Declared, Scope
  <2> QED
    BY <1>1, <2>1, <2>2, <2>3 DEF NestInv
<1>2. CASE BeginFunction
  <2>1. stack = <<>> /\ blocks = <<>> /\ UNCHANGED <<fn, blocks>>
    BY <1>2 DEF BeginFunction, NestInv
  <2>2. CASE fn.list[RootList] = <<>>
    BY <1>1, <1>2, <2>1, <2>2 DEF BeginFunction
  <2>3. CASE fn.list[RootList] # <<>>
    <3>1. Call(RootList) /\ StateTypes
      BY <1>2, <2>3 DEF BeginFunction, TypeInv
    <3>2. /\ stack' # <<>> /\ Len(stack') = 1
          /\ stack'[1].list = RootList
          /\ pc' = "construct"
      BY <2>1, <3>1, CallShape, RootIsList, EmptySeq
    <3>3. blocks' = <<>> /\ Len(blocks') = 0
      BY <2>1, EmptySeq
    <3> QED
      BY <3>2, <3>3 DEF NestInv, ScopesOfActivations
  <2> QED
    BY <2>2, <2>3
<1>3. CASE FinishFunction
  <2>1. Len(blocks) = Len(stack) /\ stack = <<>>
    BY <1>3 DEF FinishFunction, NestInv
  <2>2. blocks = <<>>
    BY <2>1, Sizes DEF TypeInv
  <2> QED
    BY <1>1, <1>3, <2>1, <2>2 DEF FinishFunction
<1>4. CASE Crash
  BY <1>1, <1>4 DEF Crash
<1>5. CASE UNCHANGED vars
  BY <1>1, <1>5 DEF vars
<1> QED
  BY <1>2, <1>3, <1>4, <1>5, StepKinds, DescendsNests, PassesNests, EndsNests,
     ResumesNests, LeavesNests, ElseNests

\* The invariant gives the properties the runs check.
LEMMA NestInvSuffices ==
  TypeInv /\ NestInv => ActivationsNest /\ ScopesAreNesting
<1> SUFFICES ASSUME TypeInv, NestInv PROVE ActivationsNest /\ ScopesAreNesting
  OBVIOUS
<1>1. ASSUME NEW i, NEW l, Suspended(i, l)
      PROVE  /\ stack[i].at <= Len(fn.list[stack[i].list])
             /\ l[1] = Pending(i)
  BY <1>1 DEF Suspended, ListsOf
<1>2. ActivationsNest
  BY <1>1 DEF ActivationsNest, NestInv, TypeInv, Working, Linked, HasReturned,
              Top, Current, Last
<1>3. ScopesAreNesting
  BY DEF ScopesAreNesting, NestInv, ScopesOfActivations
<1> QED
  BY <1>2, <1>3

\* The activations of construct nest as the lists do, at any depth.
THEOREM ActivationsAlwaysNest == Spec => []ActivationsNest
<1>1. Spec => [](TypeInv /\ NestInv)
  BY InitTypes, NextTypes, InitNests, NextNests, PTL DEF Spec
<1> QED
  BY <1>1, NestInvSuffices, PTL

\* The label stack is the nesting, at any depth: each early return of
\* construct pops exactly what its case has pushed, and the function ends
\* with an empty label stack.
THEOREM ScopesAlwaysNest == Spec => []ScopesAreNesting
<1>1. Spec => [](TypeInv /\ NestInv)
  BY InitTypes, NextTypes, InitNests, NextNests, PTL DEF Spec
<1> QED
  BY <1>1, NestInvSuffices, PTL
=============================================================================
