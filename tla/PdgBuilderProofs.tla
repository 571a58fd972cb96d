-------------------------- MODULE PdgBuilderProofs --------------------------
(***************************************************************************)
(* Theorems about the builder of program dependence graphs, for every set   *)
(* of functions and any number of variables: its pointers lead to objects,  *)
(* the loops that it is in are nested, and what a loop keeps as its         *)
(* definitions grows from pass to pass.                                     *)
(*                                                                          *)
(* The argument is about sharing.  Each operation on the heap changes the   *)
(* objects of one ReachDefinition in place or adds new ones (Changes), and  *)
(* every visit is made of such operations and of advance (GoesOn).  What a  *)
(* loop keeps is never among those changed, and no other object has its     *)
(* pointers (OwnDefs), so that only visitLoopInst replaces it, by one that  *)
(* it has united with it.                                                   *)
(***************************************************************************)
EXTENDS PdgBuilder, CfgBuilderProofs

-----------------------------------------------------------------------------
(* What is inside of an expression. *)

\* The lists of an expression.
ListsIn(e) == {e} \X {"body", "then", "else"}

\* The expressions directly inside of an expression.
Children(e) == {x \in Exprs : \E l \in ListsIn(e) : \E i \in DOMAIN fn.list[l] : fn.list[l][i] = x}

\* They come after it in the text.
LEMMA ChildrenAreLater ==
  ASSUME IsBody(fn), NEW e \in Exprs
  PROVE  /\ ListsIn(e) \subseteq Lists
         /\ \A l \in ListsIn(e) : \A i \in DOMAIN fn.list[l] :
              fn.list[l][i] \in Children(e)
         /\ \A x \in Children(e) : e < x
<1>1. \A l \in ListsIn(e) : l \in Lists /\ l[1] = e
  BY DEF ListsIn, Lists
<1>2. \A l \in ListsIn(e) : \A i \in DOMAIN fn.list[l] :
        fn.list[l][i] \in Exprs /\ e < fn.list[l][i]
  BY <1>1, BodyParts DEF IsBody, InTextOrder
<1> QED
  BY <1>1, <1>2 DEF Children

\* What the recursion of Below makes of the expressions inside of the children.
BelowFrom(g, e) == {e} \cup UNION {g[x] : x \in Children(e)}

\* Below is what its definition says.
LEMMA BelowUnfolds ==
  ASSUME IsBody(fn)
  PROVE  /\ Below \in [Exprs -> SUBSET Exprs]
         /\ \A e \in Exprs : Below[e] = {e} \cup UNION {Below[x] : x \in Children(e)}
<1> PICK n \in Nat : \A e \in Exprs : e <= n
  BY ExprsBounded
<1> DEFINE V == SUBSET Exprs
           r == [e \in Exprs |-> n - e]
           F == [e \in Exprs |-> [g \in [Exprs -> V] |-> BelowFrom(g, e)]]
<1>1. \A e \in Exprs : e \in Nat
  BY ExprsAssumption
<1>2. r \in [Exprs -> Nat] /\ \A e \in Exprs : r[e] <= n
  BY <1>1
<1>3. \A e \in Exprs : \A x \in Children(e) : x \in Exprs /\ r[x] < r[e]
  <2>1. \A e \in Exprs : \A x \in Children(e) : x \in Exprs /\ e < x
    BY ChildrenAreLater DEF Children
  <2> QED
    BY <1>1, <2>1
<1>4. F \in [Exprs -> [[Exprs -> V] -> V]]
  <2>1. \A e \in Exprs : \A g \in [Exprs -> V] : BelowFrom(g, e) \in V
    BY <1>3 DEF BelowFrom
  <2> QED
    BY <2>1
<1>5. \A e \in Exprs : \A g \in [Exprs -> V] : F[e][g] = BelowFrom(g, e)
  OBVIOUS
<1>6. PICK g \in [Exprs -> V] : \A e \in Exprs : g[e] = F[e][g]
  <2> HIDE DEF r, F, V
  <2>1. \A e \in Exprs : \A g, h \in [Exprs -> V] :
          (\A c \in Exprs : r[c] < r[e] => g[c] = h[c]) => F[e][g] = F[e][h]
    <3> TAKE e \in Exprs
    <3> TAKE g, h \in [Exprs -> V]
    <3> HAVE \A c \in Exprs : r[c] < r[e] => g[c] = h[c]
    <3>1. \A x \in Children(e) : g[x] = h[x]
      BY <1>3
    <3>2. {g[x] : x \in Children(e)} = {h[x] : x \in Children(e)}
      BY <3>1
    <3>3. BelowFrom(g, e) = BelowFrom(h, e)
      BY <3>2 DEF BelowFrom
    <3> QED
      BY <1>5, <3>3
  <2>2. Recursive(Exprs, V, r, n, F)
    <3>1. V # {}
      BY DEF V
    <3> QED
      BY <1>2, <1>4, <2>1, <3>1 DEF Recursive
  <2> QED
    BY <2>2, Recursion
<1> DEFINE Unfolded(h, e) ==
             {e} \cup UNION {UNION {h[fn.list[l][i]] : i \in DOMAIN fn.list[l]} :
                               l \in {e} \X {"body", "then", "else"}}
<1>7. \A h : \A e \in Exprs : Unfolded(h, e) = BelowFrom(h, e)
  <2> TAKE h
  <2> TAKE e \in Exprs
  <2>1. \A l \in ListsIn(e) : \A i \in DOMAIN fn.list[l] : fn.list[l][i] \in Children(e)
    BY ChildrenAreLater
  <2>2. \A x \in Children(e) : \E l \in ListsIn(e) : \E i \in DOMAIN fn.list[l] :
          fn.list[l][i] = x
    BY DEF Children
  <2> QED
    BY <2>1, <2>2 DEF BelowFrom, ListsIn
<1>8. g = [e \in Exprs |-> Unfolded(g, e)]
  <2>1. \A e \in Exprs : g[e] = BelowFrom(g, e)
    BY <1>5, <1>6
  <2> HIDE DEF Unfolded
  <2> QED
    BY <1>7, <2>1
<1>9. Below = [e \in Exprs |-> Unfolded(Below, e)]
  <2>1. \E h : h = [e \in Exprs |-> Unfolded(h, e)]
    <3> HIDE DEF Unfolded
    <3> QED
      BY <1>8
  <2> QED
    BY <2>1 DEF Below
<1> HIDE DEF Unfolded
<1>10. \A e \in Exprs : Below[e] = BelowFrom(Below, e)
  BY <1>7, <1>9
<1> DEFINE T == {e \in Exprs : Below[e] \subseteq Exprs}
<1>11. Exprs \subseteq T
  <2>1. \A e \in Exprs : (\A c \in Exprs : r[c] < r[e] => c \in T) => e \in T
    <3> HIDE DEF r
    <3> QED
      BY <1>3, <1>10 DEF BelowFrom
  <2> HIDE DEF r, T
  <2> QED
    BY <1>2, <2>1, RankInduction
<1>12. Below \in [Exprs -> SUBSET Exprs]
  BY <1>9, <1>11
<1> QED
  BY <1>10, <1>12 DEF BelowFrom

\* What is inside of an expression comes after it, and has inside what is
\* inside of the expression too.
LEMMA BelowNests ==
  ASSUME IsBody(fn), NEW e \in Exprs
  PROVE  /\ Below[e] \subseteq Exprs /\ e \in Below[e]
         /\ \A x \in Below[e] : e <= x /\ Below[x] \subseteq Below[e]
<1> PICK n \in Nat : \A x \in Exprs : x <= n
  BY ExprsBounded
<1> DEFINE r == [x \in Exprs |-> n - x]
           T == {y \in Exprs : \A x \in Below[y] : y <= x /\ Below[x] \subseteq Below[y]}
<1>1. \A x \in Exprs : x \in Nat
  BY ExprsAssumption
<1>2. r \in [Exprs -> Nat]
  BY <1>1
<1>3. \A y \in Exprs : /\ Below[y] \subseteq Exprs
                      /\ Below[y] = {y} \cup UNION {Below[x] : x \in Children(y)}
  BY BelowUnfolds
<1>4. ASSUME NEW y \in Exprs, \A c \in Exprs : r[c] < r[y] => c \in T
      PROVE  y \in T
  <2>1. ASSUME NEW x \in Below[y]
        PROVE  y <= x /\ Below[x] \subseteq Below[y]
    <3>1. CASE x = y
      BY <1>1, <3>1
    <3>2. CASE x # y
      <4> PICK c \in Children(y) : x \in Below[c]
        BY <1>3, <3>2
      <4>1. c \in Exprs /\ y < c
        BY ChildrenAreLater DEF Children
      <4>2. r[c] < r[y]
        BY <1>1, <4>1
      <4>3. c <= x /\ Below[x] \subseteq Below[c]
        BY <1>4, <4>1, <4>2
      <4>4. Below[c] \subseteq Below[y]
        BY <1>3
      <4>5. x \in Nat
        BY <1>1, <1>3
      <4> QED
        BY <1>1, <4>1, <4>3, <4>4, <4>5
    <3> QED
      BY <3>1, <3>2
  <2> QED
    BY <2>1
<1>5. Exprs \subseteq T
  <2> HIDE DEF r, T
  <2> QED
    BY <1>2, <1>4, RankInduction
<1> QED
  BY <1>3, <1>5

-----------------------------------------------------------------------------
(* The edges of a node, in order. *)

\* The greatest of some numbers up to a bound.
LEMMA GreatestIs ==
  ASSUME NEW S \in SUBSET Nat, S # {}, NEW n \in Nat, \A x \in S : x <= n
  PROVE  MaxOf(S) \in S /\ \A x \in S : x <= MaxOf(S)
<1>1. S \in SUBSET (0..n)
  OBVIOUS
<1>2. \E m \in S : \A k \in S : k <= m
  BY <1>1, GreatestElement
<1> QED
  BY <1>2 DEF MaxOf

\* The ranks of nodes are numbers.
LEMMA RanksAreNumbers ==
  ASSUME IsBody(fn), NEW n \in Nodes
  PROVE  Rank(n) \in Nat
<1> PICK b \in Nat : \A x \in Exprs : x <= b
  BY ExprsBounded
<1>1. \A x \in Exprs : x \in Nat
  BY ExprsAssumption
<1>2. LastExprId \in Nat /\ \A x \in Exprs : x <= LastExprId
  <2> DEFINE S == Exprs \cup {0}
  <2>1. S \in SUBSET Nat /\ S # {} /\ \A x \in S : x <= b
    BY <1>1
  <2> HIDE DEF S
  <2>2. MaxOf(S) \in S /\ \A x \in S : x <= MaxOf(S)
    BY <2>1, GreatestIs
  <2> QED
    BY <2>1, <2>2 DEF S, LastExprId
<1>3. Turn \in Nat
  BY <1>2 DEF Turn
<1>4. \A i \in Nat : i * Turn \in Nat
  BY <1>3
<1>5. n[2] \in Nat
  BY <1>1 DEF Nodes, RetFunc, Trap, InstsNode
<1>6. ASSUME n[1] = "inst"
      PROVE  /\ MaxOf(Below[n[2]]) \in Nat
             /\ LastExprId - n[2] \in Nat
  <2>1. n[2] \in Exprs
    BY <1>6 DEF Nodes, RetFunc, Trap, InstsNode
  <2>2. Below[n[2]] \in SUBSET Nat /\ Below[n[2]] # {} /\ \A x \in Below[n[2]] : x <= b
    BY <1>1, <2>1, BelowNests
  <2>3. MaxOf(Below[n[2]]) \in Below[n[2]]
    BY <2>2, GreatestIs
  <2> QED
    BY <1>1, <1>2, <2>1, <2>2, <2>3
<1> DEFINE k == MaxOf(Below[n[2]])
           m == LastExprId - n[2]
<1>7. n[1] = "inst" => k * Turn + 3 + m \in Nat
  <2>1. n[1] = "inst" => k * Turn \in Nat /\ m \in Nat
    BY <1>4, <1>6
  <2> QED
    BY <2>1
<1>8. n[2] * Turn \in Nat /\ (LastExprId + 1) * Turn \in Nat
  BY <1>2, <1>4, <1>5
<1> DEFINE t == n[2] * Turn
           u == (LastExprId + 1) * Turn
           v == k * Turn + 3 + m
<1>9. Rank(n) \in {0, v, t, t + 1, t + 2, t + 0, u}
  BY DEF Rank
<1>10. Rank(n) = v => n[1] = "inst" \/ Rank(n) \in {0, t, t + 1, t + 2, t + 0, u}
  BY DEF Rank
<1> HIDE DEF t, u, v
<1>11. t \in Nat /\ u \in Nat /\ (n[1] = "inst" => v \in Nat)
  BY <1>7, <1>8 DEF t, u, v
<1> QED
  BY <1>9, <1>10, <1>11

\* Before has a first one among any edges.
LEMMA BeforeHasFirsts ==
  ASSUME IsBody(fn), NEW S \in SUBSET CFGEdges
  PROVE  HasFirsts(S, {p \in S \X S : Before(p[1], p[2])})
<1> SUFFICES ASSUME NEW T \in SUBSET S, T # {}
             PROVE  \E e \in T : \A d \in T : ~Before(d, e)
  BY DEF HasFirsts
<1>1. \A d \in T : d.dest \in Nodes /\ d.label[2] \in Nat
  BY DEF CFGEdges, EdgeLabels
<1>2. \A d \in T : Rank(d.dest) \in Nat
  BY <1>1, RanksAreNumbers
<1> DEFINE Ranks == {Rank(d.dest) : d \in T}
<1>3. PICK a \in T : \A d \in T : Rank(a.dest) <= Rank(d.dest)
  <2>1. Ranks \in SUBSET Nat /\ Ranks # {}
    BY <1>2
  <2>2. \E m \in Ranks : \A k \in Ranks : m <= k
    <3> HIDE DEF Ranks
    <3> QED
      BY <2>1, LeastElement
  <2> QED
    BY <2>2
<1> DEFINE Least == {d \in T : Rank(d.dest) = Rank(a.dest)}
           Cases == {d \in Least : d.label[1] = "case"}
           Numbers == {d.label[2] : d \in Cases}
<1>4. CASE Cases = {}
  <2>1. \A d \in T : ~Before(d, a)
    BY <1>2, <1>3, <1>4 DEF Before
  <2> QED
    BY <2>1
<1>5. CASE Cases # {}
  <2>1. PICK e \in Cases : \A d \in Cases : e.label[2] <= d.label[2]
    <3>1. Numbers \in SUBSET Nat /\ Numbers # {}
      BY <1>1, <1>5
    <3>2. \E m \in Numbers : \A k \in Numbers : m <= k
      <4> HIDE DEF Numbers
      <4> QED
        BY <3>1, LeastElement
    <3> QED
      BY <3>2
  <2>2. ASSUME NEW d \in T
        PROVE  ~Before(d, e)
    <3>1. e \in T /\ Rank(e.dest) = Rank(a.dest) /\ e.label[1] = "case"
      OBVIOUS
    <3>2. ~(Rank(d.dest) < Rank(e.dest))
      BY <1>2, <1>3, <3>1
    <3>3. Rank(d.dest) = Rank(e.dest) /\ d.label[1] = "case" => ~(d.label[2] < e.label[2])
      BY <1>1, <2>1, <3>1
    <3> QED
      BY <3>1, <3>2, <3>3 DEF Before
  <2> QED
    BY <2>2
<1> QED
  BY <1>4, <1>5

\* outEdges has the edges of a node.
LEMMA OutEdgesAre ==
  ASSUME IsBody(fn), edges \subseteq CFGEdges, IsFiniteSet(edges), NEW n
  PROVE  /\ Len(outEdges(n)) \in Nat
         /\ DOMAIN outEdges(n) = 1..Len(outEdges(n))
         /\ \A i \in 1..Len(outEdges(n)) : outEdges(n)[i] \in edges
<1> DEFINE S == {d \in edges : d.src = n}
           R == {p \in S \X S : Before(p[1], p[2])}
<1>1. S \in SUBSET CFGEdges /\ IsFiniteSet(S) /\ Cardinality(S) \in Nat
  BY FS_Subset, FS_CardinalityType
<1>2. HasFirsts(S, R)
  <2> HIDE DEF S
  <2> QED
    BY <1>1, BeforeHasFirsts
<1>3. \E s \in SetToSeqs(S) : InOrder(s, R)
  <2> HIDE DEF S, R
  <2> QED
    BY <1>1, <1>2, CanBeSorted
<1>4. \A s \in SetToSeqs(S) : s \in [1..Cardinality(S) -> S]
  BY DEF SetToSeqs
<1>5. \E s \in SetToSeqs(S) : \A i, j \in DOMAIN s : i < j => ~Before(s[j], s[i])
  <2> PICK s \in SetToSeqs(S) : InOrder(s, R)
    BY <1>3
  <2>1. \A i \in DOMAIN s : s[i] \in S
    BY <1>4
  <2>2. \A i, j \in DOMAIN s : i < j => ~Before(s[j], s[i])
    BY <2>1 DEF InOrder
  <2> QED
    BY <2>2
<1>6. outEdges(n) \in SetToSeqs(S)
  BY <1>5 DEF outEdges
<1>7. outEdges(n) \in [1..Cardinality(S) -> S]
  BY <1>4, <1>6
<1>8. outEdges(n) \in Seq(S)
  <2> DEFINE c == Cardinality(S)
  <2> HIDE DEF S, c
  <2> QED
    BY <1>1, <1>7 DEF c
<1>9. \A i \in 1..Len(outEdges(n)) : outEdges(n)[i] \in S
  <2> HIDE DEF S
  <2> QED
    BY <1>8, ElementOfSeq
<1> QED
  BY <1>8, <1>9, LenProperties

-----------------------------------------------------------------------------
(* The objects of the heap. *)

Defs    == UNION {[S -> Nodes] : S \in SUBSET Nodes}
Entries == [name : Labels, pointer : Nat]
Rds     == [vars : [1..NumVars -> Nat], stack : Seq(Nat), labels : Seq(Entries)]
Heaps   == [defs : Seq(Defs), rds : Seq(Rds)]

\* The Definition objects that a ReachDefinition has pointers to.
Ids(x) == {x.vars[v] : v \in 1..NumVars} \cup {x.stack[i] : i \in 1..Len(x.stack)}

\* The heights of the labels do not fall, and the stack is as high.
Ordered(x) ==
  \A i \in 1..Len(x.labels) :
    /\ x.labels[i].pointer <= Len(x.stack)
    /\ \A j \in 1..i : x.labels[j].pointer <= x.labels[i].pointer

RdOK(x, k) == x \in Rds /\ Ids(x) \subseteq 1..k /\ Ordered(x)

HeapOK(h) == /\ h \in Heaps
             /\ \A r \in 1..Len(h.rds) : RdOK(h.rds[r], Len(h.defs))

\* A Definition is a function on nodes, and what the builder makes of one is too.
LEMMA DefsAre ==
  ASSUME NEW d \in Defs, NEW c \in Defs, NEW n \in Nodes
  PROVE  /\ DOMAIN d \subseteq Nodes
         /\ NewDef(n) \in Defs /\ NoDef \in Defs
         /\ ClearTo(d, n) \in Defs /\ removeConsts(d) \in Defs
         /\ UnionDef(d, c) \in Defs
         /\ DOMAIN UnionDef(d, c) = DOMAIN d \cup DOMAIN c
<1>1. PICK S \in SUBSET Nodes : d \in [S -> Nodes]
  BY DEF Defs
<1>2. PICK T \in SUBSET Nodes : c \in [T -> Nodes]
  BY DEF Defs
<1>3. \A U \in SUBSET Nodes : \A f \in [U -> Nodes] : f \in Defs
  BY DEF Defs
<1>4. NewDef(n) \in [{n} -> Nodes]
  BY DEF NewDef
<1>5. NoDef \in [{} -> Nodes]
  BY DEF NoDef
<1>6. ClearTo(d, n) \in [S -> Nodes]
  BY <1>1 DEF ClearTo
<1>7. removeConsts(d) \in [{k \in S : ~IsConst(k)} -> Nodes]
  BY <1>1 DEF removeConsts
<1>8. UnionDef(d, c) \in [S \cup T -> Nodes]
  BY <1>1, <1>2 DEF UnionDef
<1>9. /\ {n} \in SUBSET Nodes /\ {} \in SUBSET Nodes
      /\ {k \in S : ~IsConst(k)} \in SUBSET Nodes /\ S \cup T \in SUBSET Nodes
  BY <1>1, <1>2
<1>10. /\ NewDef(n) \in Defs /\ NoDef \in Defs
       /\ ClearTo(d, n) \in Defs /\ removeConsts(d) \in Defs
       /\ UnionDef(d, c) \in Defs
  BY <1>1, <1>3, <1>4, <1>5, <1>6, <1>7, <1>8, <1>9
<1> QED
  BY <1>1, <1>2, <1>8, <1>10

\* The parts of a heap.
LEMMA HeapParts ==
  ASSUME NEW h, HeapOK(h)
  PROVE  /\ h.defs \in Seq(Defs) /\ h.rds \in Seq(Rds)
         /\ h = [defs |-> h.defs, rds |-> h.rds]
         /\ Len(h.defs) \in Nat /\ DOMAIN h.defs = 1..Len(h.defs)
         /\ Len(h.rds) \in Nat /\ DOMAIN h.rds = 1..Len(h.rds)
         /\ h.rds = [i \in DOMAIN h.rds |-> h.rds[i]]
         /\ \A i \in 1..Len(h.defs) : h.defs[i] \in Defs
         /\ \A r \in 1..Len(h.rds) : RdOK(h.rds[r], Len(h.defs))
<1>1. h \in [defs : Seq(Defs), rds : Seq(Rds)]
  BY DEF HeapOK, Heaps
<1>2. h.defs \in Seq(Defs) /\ h.rds \in Seq(Rds) /\ h = [defs |-> h.defs, rds |-> h.rds]
  BY <1>1
<1>3. \A i \in 1..Len(h.defs) : h.defs[i] \in Defs
  BY <1>2, ElementOfSeq
<1>4. \A S : \A s \in Seq(S) : s = [i \in DOMAIN s |-> s[i]]
  OBVIOUS
<1> QED
  BY <1>2, <1>3, <1>4, LenProperties DEF HeapOK

\* The parts of a ReachDefinition.
LEMMA RdParts ==
  ASSUME NEW k \in Nat, NEW x, RdOK(x, k)
  PROVE  /\ x.vars \in [1..NumVars -> 1..k]
         /\ x.stack \in Seq(1..k) /\ Len(x.stack) \in Nat
         /\ DOMAIN x.stack = 1..Len(x.stack)
         /\ \A i \in 1..Len(x.stack) : x.stack[i] \in 1..k
         /\ x.labels \in Seq(Entries) /\ Len(x.labels) \in Nat
         /\ DOMAIN x.labels = 1..Len(x.labels)
         /\ \A i \in 1..Len(x.labels) : x.labels[i] \in Entries
         /\ x = [vars |-> x.vars, stack |-> x.stack, labels |-> x.labels]
         /\ Ordered(x)
<1>1. x \in Rds
  BY DEF RdOK
<1>2. /\ x.vars \in [1..NumVars -> Nat] /\ x.stack \in Seq(Nat) /\ x.labels \in Seq(Entries)
      /\ x = [vars |-> x.vars, stack |-> x.stack, labels |-> x.labels]
  BY <1>1 DEF Rds
<1>3. /\ Len(x.stack) \in Nat /\ DOMAIN x.stack = 1..Len(x.stack)
      /\ Len(x.labels) \in Nat /\ DOMAIN x.labels = 1..Len(x.labels)
  BY <1>2, LenProperties
<1>4. \A i \in 1..Len(x.labels) : x.labels[i] \in Entries
  BY <1>2, ElementOfSeq
<1>5. \A i \in 1..Len(x.stack) : x.stack[i] \in 1..k
  BY DEF RdOK, Ids
<1>6. \A v \in 1..NumVars : x.vars[v] \in 1..k
  BY DEF RdOK, Ids
<1>7. x.stack \in Seq(1..k)
  BY <1>2, <1>5, SeqOfElements
<1>8. x.vars \in [1..NumVars -> 1..k]
  BY <1>2, <1>6
<1> QED
  BY <1>2, <1>3, <1>4, <1>5, <1>7, <1>8 DEF RdOK

\* What an operation on the heap may do that is asked to work on the
\* ReachDefinitions R: it changes them and what they have pointers to, and
\* gives them pointers to what they or others of R had, or to new objects.
Changes(h, g, R) ==
  /\ HeapOK(g)
  /\ Len(h.defs) <= Len(g.defs) /\ Len(h.rds) <= Len(g.rds)
  /\ \A a \in 1..Len(h.defs) :
       (\A r \in R : a \notin Ids(h.rds[r])) => g.defs[a] = h.defs[a]
  /\ \A q \in 1..Len(h.rds) : q \notin R => g.rds[q] = h.rds[q]
  /\ \A q \in 1..Len(g.rds) : q \in R \/ q > Len(h.rds) =>
       \A a \in Ids(g.rds[q]) : a > Len(h.defs) \/ \E r \in R : a \in Ids(h.rds[r])

\* Doing nothing is such an operation.
LEMMA NothingChanges ==
  ASSUME NEW h, HeapOK(h), NEW R \in SUBSET (1..Len(h.rds))
  PROVE  Changes(h, h, R)
<1>1. Len(h.defs) \in Nat /\ Len(h.rds) \in Nat
  BY HeapParts
<1>2. \A q \in 1..Len(h.rds) : q \in R \/ q > Len(h.rds) => q \in R
  BY <1>1
<1> QED
  BY <1>1, <1>2 DEF Changes

\* One operation after the other; the second one may also work on the
\* ReachDefinitions that the first one has made.
LEMMA ChangesAfterChanges ==
  ASSUME NEW h, HeapOK(h), NEW R \in SUBSET (1..Len(h.rds)), NEW g, Changes(h, g, R),
         NEW S \in SUBSET (1..Len(g.rds)), \A q \in S : q \in R \/ q > Len(h.rds),
         NEW k, Changes(g, k, S)
  PROVE  Changes(h, k, R)
<1>1. /\ Len(h.defs) \in Nat /\ Len(h.rds) \in Nat
      /\ \A r \in 1..Len(h.rds) : Ids(h.rds[r]) \subseteq 1..Len(h.defs)
  BY HeapParts DEF RdOK
<1>2. /\ Len(g.defs) \in Nat /\ Len(g.rds) \in Nat
      /\ \A r \in 1..Len(g.rds) : Ids(g.rds[r]) \subseteq 1..Len(g.defs)
  BY HeapParts DEF RdOK, Changes
<1>3. /\ Len(k.defs) \in Nat /\ Len(k.rds) \in Nat
      /\ \A r \in 1..Len(k.rds) : Ids(k.rds[r]) \subseteq 1..Len(k.defs)
  BY HeapParts DEF RdOK, Changes
<1>4. /\ HeapOK(k)
      /\ Len(h.defs) <= Len(k.defs) /\ Len(h.rds) <= Len(k.rds)
  BY <1>1, <1>2, <1>3 DEF Changes
<1>5. ASSUME NEW q \in S, NEW a \in Ids(g.rds[q])
      PROVE  a > Len(h.defs) \/ \E r \in R : a \in Ids(h.rds[r])
  BY <1>1, <1>2 DEF Changes
<1>6. ASSUME NEW a \in 1..Len(h.defs), \A r \in R : a \notin Ids(h.rds[r])
      PROVE  k.defs[a] = h.defs[a]
  <2>1. a \in 1..Len(g.defs) /\ g.defs[a] = h.defs[a]
    BY <1>1, <1>2, <1>6 DEF Changes
  <2>2. ~(a > Len(h.defs))
    BY <1>1
  <2>3. \A q \in S : a \notin Ids(g.rds[q])
    BY <1>5, <1>6, <2>2
  <2> QED
    BY <2>1, <2>3 DEF Changes
<1>7. ASSUME NEW q \in 1..Len(h.rds), q \notin R
      PROVE  k.rds[q] = h.rds[q]
  <2>1. q \in 1..Len(g.rds) /\ q \notin S
    BY <1>1, <1>2, <1>7 DEF Changes
  <2> QED
    BY <1>7, <2>1 DEF Changes
<1>8. ASSUME NEW q \in 1..Len(k.rds), q \in R \/ q > Len(h.rds), NEW a \in Ids(k.rds[q])
      PROVE  a > Len(h.defs) \/ \E r \in R : a \in Ids(h.rds[r])
  <2>1. CASE q \in S \/ q > Len(g.rds)
    <3>1. a > Len(g.defs) \/ \E r \in S : a \in Ids(g.rds[r])
      BY <2>1 DEF Changes
    <3>2. a \in 1..Len(k.defs)
      BY <1>3
    <3>3. Len(h.defs) <= Len(g.defs)
      BY DEF Changes
    <3>4. a > Len(g.defs) => a > Len(h.defs)
      BY <1>1, <1>2, <1>3, <3>2, <3>3
    <3> QED
      BY <1>5, <3>1, <3>4
  <2>2. CASE ~(q \in S \/ q > Len(g.rds))
    <3>1. q \in 1..Len(g.rds) /\ q \notin S
      BY <1>2, <1>3, <2>2
    <3>2. k.rds[q] = g.rds[q]
      BY <3>1 DEF Changes
    <3> QED
      BY <1>8, <3>1, <3>2 DEF Changes
  <2> QED
    BY <2>1, <2>2
<1> QED
  BY <1>4, <1>6, <1>7, <1>8 DEF Changes

\* An operation on some ReachDefinitions is one on more of them.
LEMMA ChangesMore ==
  ASSUME NEW h, HeapOK(h), NEW R \in SUBSET (1..Len(h.rds)), NEW S \in SUBSET R,
         NEW g, Changes(h, g, S)
  PROVE  Changes(h, g, R)
<1>1. Changes(h, h, R)
  BY NothingChanges
<1> QED
  BY <1>1, ChangesAfterChanges

\* A heap with one part replaced.
LEMMA HeapExcept ==
  ASSUME NEW a, NEW b, NEW h, h = [defs |-> a, rds |-> b], NEW c
  PROVE  /\ [h EXCEPT !.defs = c] = [defs |-> c, rds |-> b]
         /\ [h EXCEPT !.rds = c] = [defs |-> a, rds |-> c]
OBVIOUS

\* A ReachDefinition with one part replaced.
LEMMA RdExcept ==
  ASSUME NEW a, NEW b, NEW c, NEW x, x = [vars |-> a, stack |-> b, labels |-> c], NEW d
  PROVE  /\ [x EXCEPT !.vars = d] = [vars |-> d, stack |-> b, labels |-> c]
         /\ [x EXCEPT !.stack = d] = [vars |-> a, stack |-> d, labels |-> c]
         /\ [x EXCEPT !.labels = d] = [vars |-> a, stack |-> b, labels |-> d]
OBVIOUS

\* A sequence with an element replaced by the same.
LEMMA SameElement ==
  ASSUME NEW s, DOMAIN s = 1..Len(s), s = [i \in DOMAIN s |-> s[i]], NEW i
  PROVE  [s EXCEPT ![i] = s[i]] = s
OBVIOUS

\* An operation on one ReachDefinition.
LEMMA OneChanges ==
  ASSUME NEW h, HeapOK(h), NEW r \in 1..Len(h.rds), NEW ds \in Seq(Defs), NEW x,
         Len(h.defs) <= Len(ds), RdOK(x, Len(ds)),
         \A a \in 1..Len(h.defs) : a \notin Ids(h.rds[r]) => ds[a] = h.defs[a],
         \A a \in Ids(x) : a > Len(h.defs) \/ a \in Ids(h.rds[r])
  PROVE  Changes(h, [defs |-> ds, rds |-> [h.rds EXCEPT ![r] = x]], {r})
<1> DEFINE rs == [h.rds EXCEPT ![r] = x]
           g == [defs |-> ds, rds |-> rs]
<1>1. /\ h.rds \in Seq(Rds) /\ Len(h.rds) \in Nat /\ Len(h.defs) \in Nat
      /\ DOMAIN h.rds = 1..Len(h.rds)
      /\ \A q \in 1..Len(h.rds) : RdOK(h.rds[q], Len(h.defs))
  BY HeapParts
<1>2. Len(ds) \in Nat
  BY LenProperties
<1>3. x \in Rds
  BY DEF RdOK
<1>4. rs \in Seq(Rds) /\ Len(rs) = Len(h.rds)
  BY <1>1, <1>3, ExceptSeq
<1>5. rs[r] = x /\ \A q \in 1..Len(h.rds) : q # r => rs[q] = h.rds[q]
  BY <1>1
<1>6. \A q \in 1..Len(rs) : RdOK(rs[q], Len(ds))
  <2>1. \A q \in 1..Len(h.rds) : RdOK(h.rds[q], Len(ds))
    BY <1>1, <1>2 DEF RdOK
  <2> QED
    BY <1>4, <1>5, <2>1
<1> HIDE DEF rs
<1>7. HeapOK(g)
  BY <1>4, <1>6 DEF HeapOK, Heaps
<1>8. g.defs = ds /\ g.rds = rs
  OBVIOUS
<1> HIDE DEF g
<1>9. \A q \in 1..Len(g.rds) : q \in {r} \/ q > Len(h.rds) => q = r
  BY <1>1, <1>4, <1>8
<1>10. Changes(h, g, {r})
  BY <1>1, <1>4, <1>5, <1>7, <1>8, <1>9 DEF Changes
<1> QED
  BY <1>10 DEF g, rs

\* A new definition on the stack.
LEMMA PushChanges ==
  ASSUME NEW h, HeapOK(h), NEW r \in 1..Len(h.rds), NEW d \in Defs
  PROVE  Changes(h, push(h, r, d), {r})
<1> DEFINE n == Len(h.defs) + 1
           y == h.rds[r]
           x == [y EXCEPT !.stack = Append(@, n)]
           ds == Append(h.defs, d)
<1>1. /\ h.defs \in Seq(Defs) /\ Len(h.defs) \in Nat /\ DOMAIN h.rds = 1..Len(h.rds)
      /\ RdOK(y, Len(h.defs))
  BY HeapParts
<1>2. /\ ds \in Seq(Defs) /\ Len(ds) = n
      /\ \A a \in 1..Len(h.defs) : ds[a] = h.defs[a]
  BY <1>1, AppendIsSeq
<1> HIDE DEF ds
<1>3. /\ y \in Rds /\ y.stack \in Seq(Nat) /\ Len(y.stack) \in Nat
      /\ Ids(y) \subseteq 1..Len(h.defs) /\ Ordered(y)
  BY <1>1, RdParts DEF RdOK, Rds
<1>4. /\ n \in Nat
      /\ Append(y.stack, n) \in Seq(Nat) /\ Len(Append(y.stack, n)) = Len(y.stack) + 1
      /\ \A i \in 1..Len(y.stack) : Append(y.stack, n)[i] = y.stack[i]
      /\ Append(y.stack, n)[Len(y.stack) + 1] = n
  BY SMTT(30), <1>1, <1>3, AppendIsSeq
<1> DEFINE s == Append(y.stack, n)
<1> HIDE DEF y, n, s
<1>5. x \in Rds /\ x.vars = y.vars /\ x.stack = s /\ x.labels = y.labels
  BY <1>3, <1>4 DEF Rds, s
<1> HIDE DEF x
<1>6. Ids(x) \subseteq Ids(y) \cup {n}
  <2>1. \A i \in 1..Len(x.stack) : x.stack[i] \in {y.stack[j] : j \in 1..Len(y.stack)} \cup {n}
    BY <1>3, <1>4, <1>5 DEF s
  <2> QED
    BY <1>5, <2>1 DEF Ids
<1>7. Ordered(x)
  <2>1. y.labels \in Seq(Entries) /\ \A i \in 1..Len(y.labels) : y.labels[i].pointer \in Nat
    BY <1>1, RdParts DEF Entries
  <2> QED
    BY <1>3, <1>4, <1>5, <2>1 DEF Ordered, s
<1>8. RdOK(x, n)
  BY <1>1, <1>3, <1>5, <1>6, <1>7 DEF RdOK, n
<1>9. \A a \in Ids(x) : a > Len(h.defs) \/ a \in Ids(h.rds[r])
  BY <1>1, <1>6 DEF n, y
<1>10. Len(h.defs) <= Len(ds)
  BY <1>1, <1>2 DEF n
<1>11. Changes(h, [defs |-> ds, rds |-> [h.rds EXCEPT ![r] = x]], {r})
  BY <1>2, <1>8, <1>9, <1>10, OneChanges
<1>12. push(h, r, d) = [defs |-> ds, rds |-> [h.rds EXCEPT ![r] = x]]
  BY <1>1 DEF push, ds, x, n, y
<1> QED
  BY <1>11, <1>12

\* A ReachDefinition made of parts.
LEMMA RdOfParts ==
  ASSUME NEW k \in Nat, NEW v \in [1..NumVars -> 1..k], NEW s \in Seq(1..k),
         NEW l \in Seq(Entries), Ordered(ReachDef(v, s, l))
  PROVE  /\ RdOK(ReachDef(v, s, l), k)
         /\ Ids(ReachDef(v, s, l)) = {v[i] : i \in 1..NumVars} \cup {s[i] : i \in 1..Len(s)}
<1> DEFINE x == ReachDef(v, s, l)
<1>1. x.vars = v /\ x.stack = s /\ x.labels = l
  BY DEF ReachDef
<1>2. /\ \A i \in 1..Len(s) : s[i] \in 1..k
      /\ \A i \in 1..NumVars : v[i] \in 1..k
  BY ElementOfSeq
<1>3. s \in Seq(Nat)
  BY <1>2, SeqOfElements
<1>4. x \in Rds
  BY <1>3 DEF Rds, ReachDef
<1> HIDE DEF x
<1>5. Ids(x) = {v[i] : i \in 1..NumVars} \cup {s[i] : i \in 1..Len(s)}
  BY <1>1 DEF Ids
<1>6. Ids(x) \subseteq 1..k
  BY <1>2, <1>5
<1> QED
  BY <1>4, <1>5, <1>6 DEF RdOK, x

\* What is above the labels of the stack.
LEMMA StackSizeIs ==
  ASSUME NEW k \in Nat, NEW x, RdOK(x, k)
  PROVE  /\ stackSize(x) \in 0..Len(x.stack)
         /\ \A i \in 1..Len(x.labels) : x.labels[i].pointer <= Len(x.stack) - stackSize(x)
<1>1. /\ Len(x.stack) \in Nat /\ x.labels \in Seq(Entries) /\ Len(x.labels) \in Nat
      /\ \A i \in 1..Len(x.labels) : x.labels[i] \in Entries
      /\ Ordered(x)
  BY RdParts
<1>2. CASE x.labels = <<>>
  <2>1. Len(x.labels) = 0
    BY <1>2
  <2> QED
    BY <1>1, <1>2, <2>1 DEF stackSize
<1>3. CASE x.labels # <<>>
  <2> DEFINE n == Len(x.labels)
  <2>1. n \in 1..n
    BY <1>1, <1>3, LastIsElement
  <2>2. Last(x.labels) = x.labels[n]
    BY DEF Last
  <2>3. x.labels[n].pointer \in Nat /\ x.labels[n].pointer <= Len(x.stack)
    BY <1>1, <2>1 DEF Ordered, Entries
  <2>4. \A i \in 1..n : x.labels[i].pointer <= x.labels[n].pointer
    BY <1>1, <2>1 DEF Ordered
  <2>5. stackSize(x) = Len(x.stack) - x.labels[n].pointer
    BY <1>3, <2>2 DEF stackSize
  <2>6. \A i \in 1..n : x.labels[i].pointer \in Nat
    BY <1>1 DEF Entries
  <2> DEFINE p == x.labels[n].pointer
             t == Len(x.stack)
  <2>7. p \in Nat /\ p <= t /\ t \in Nat /\ stackSize(x) = t - p
    BY <1>1, <2>3, <2>5
  <2>8. \A i \in 1..n : x.labels[i].pointer <= p
    BY <2>4
  <2> HIDE DEF p
  <2>9. t - stackSize(x) = p /\ stackSize(x) \in 0..t
    BY <2>7
  <2> QED
    BY <2>8, <2>9
<1> QED
  BY <1>2, <1>3

\* Operands off the stack.
LEMMA PopChanges ==
  ASSUME NEW h, HeapOK(h), NEW r \in 1..Len(h.rds),
         NEW n \in Nat, n <= stackSize(h.rds[r])
  PROVE  Changes(h, pop(h, r, n), {r})
<1> DEFINE k == Len(h.defs)
           y == h.rds[r]
           t == Len(y.stack)
           s == SubSeq(y.stack, 1, t - n)
           x == ReachDef(y.vars, s, y.labels)
<1>1. h.defs \in Seq(Defs) /\ k \in Nat /\ DOMAIN h.rds = 1..Len(h.rds) /\ RdOK(y, k)
  BY HeapParts
<1>2. /\ y.vars \in [1..NumVars -> 1..k] /\ y.stack \in Seq(1..k) /\ t \in Nat
      /\ y.labels \in Seq(Entries) /\ Len(y.labels) \in Nat
      /\ \A i \in 1..Len(y.labels) : y.labels[i] \in Entries
      /\ y = [vars |-> y.vars, stack |-> y.stack, labels |-> y.labels]
      /\ Ordered(y)
  BY <1>1, RdParts
<1>3. /\ stackSize(y) \in 0..t
      /\ \A i \in 1..Len(y.labels) : y.labels[i].pointer <= t - stackSize(y)
  BY <1>1, StackSizeIs
<1>4. t - n \in Int /\ 0 <= t - n /\ t - n <= t
  BY <1>2, <1>3
<1>5. /\ s \in Seq(1..k) /\ Len(s) = t - n
      /\ \A i \in 1..Len(s) : s[i] = y.stack[i]
  BY ZenonT(60), <1>2, <1>4, FirstElements
<1>6. \A i \in 1..Len(y.labels) : y.labels[i].pointer <= t - n
  <2> TAKE i \in 1..Len(y.labels)
  <2> DEFINE q == y.labels[i].pointer
             m == stackSize(y)
  <2>1. q \in Nat
    BY <1>2 DEF Entries
  <2>2. m \in 0..t /\ n <= m /\ q <= t - m
    BY <1>3
  <2> HIDE DEF q, m
  <2>3. q <= t - n
    BY <1>2, <2>1, <2>2
  <2> QED
    BY <2>3 DEF q
<1> HIDE DEF k, y, s
<1>7. Ordered(ReachDef(y.vars, s, y.labels))
  BY <1>2, <1>5, <1>6 DEF Ordered, ReachDef
<1>8. /\ RdOK(x, k)
      /\ Ids(x) = {y.vars[i] : i \in 1..NumVars} \cup {s[i] : i \in 1..Len(s)}
  <2> DEFINE v == y.vars
             l == y.labels
  <2>1. v \in [1..NumVars -> 1..k] /\ l \in Seq(Entries) /\ Ordered(ReachDef(v, s, l))
    BY <1>2, <1>7
  <2> HIDE DEF v, l
  <2>2. /\ RdOK(ReachDef(v, s, l), k)
        /\ Ids(ReachDef(v, s, l)) = {v[i] : i \in 1..NumVars} \cup {s[i] : i \in 1..Len(s)}
    BY ZenonT(60), <1>1, <1>5, <2>1, RdOfParts
  <2> QED
    BY <2>2 DEF v, l
<1>9. \A i \in 1..Len(s) : i \in 1..t
  BY <1>2, <1>4, <1>5
<1>10. Ids(x) \subseteq Ids(y)
  BY <1>5, <1>8, <1>9 DEF Ids
<1>11. pop(h, r, n) = [defs |-> h.defs, rds |-> [h.rds EXCEPT ![r] = x]]
  <2>1. h = [defs |-> h.defs, rds |-> h.rds]
    BY HeapParts
  <2>2. x = [y EXCEPT !.stack = s]
    BY <1>2 DEF ReachDef
  <2>3. pop(h, r, n) = [h EXCEPT !.rds = [h.rds EXCEPT ![r] = [y EXCEPT !.stack = s]]]
    BY <1>1, <2>1 DEF pop, y, s
  <2> HIDE DEF x
  <2> QED
    BY <2>1, <2>2, <2>3
<1> HIDE DEF x
<1>12. Changes(h, [defs |-> h.defs, rds |-> [h.rds EXCEPT ![r] = x]], {r})
  BY <1>1, <1>8, <1>10, OneChanges DEF k, y
<1> QED
  BY <1>11, <1>12

\* A new value for a definition.
LEMMA PutIs ==
  ASSUME NEW h, HeapOK(h), NEW a, NEW d
  PROVE  Put(h, a, d) = [defs |-> [h.defs EXCEPT ![a] = d], rds |-> h.rds]
<1>1. h = [defs |-> h.defs, rds |-> h.rds]
  BY HeapParts
<1> DEFINE ds == [h.defs EXCEPT ![a] = d]
<1>2. Put(h, a, d) = [h EXCEPT !.defs = ds]
  BY <1>1 DEF Put
<1> HIDE DEF ds
<1>3. Put(h, a, d) = [defs |-> ds, rds |-> h.rds]
  BY <1>1, <1>2, HeapExcept
<1> QED
  BY <1>3 DEF ds

\* It changes no pointer.
LEMMA PutChanges ==
  ASSUME NEW h, HeapOK(h), NEW r \in 1..Len(h.rds), NEW a \in Ids(h.rds[r]), NEW d \in Defs
  PROVE  Changes(h, Put(h, a, d), {r})
<1> DEFINE ds == [h.defs EXCEPT ![a] = d]
<1>1. /\ h.defs \in Seq(Defs) /\ Len(h.defs) \in Nat /\ DOMAIN h.rds = 1..Len(h.rds)
      /\ RdOK(h.rds[r], Len(h.defs)) /\ DOMAIN h.defs = 1..Len(h.defs)
      /\ h = [defs |-> h.defs, rds |-> h.rds]
      /\ h.rds = [i \in DOMAIN h.rds |-> h.rds[i]]
  BY HeapParts
<1>2. a \in 1..Len(h.defs)
  BY <1>1 DEF RdOK
<1>3. ds \in Seq(Defs) /\ Len(ds) = Len(h.defs)
  BY <1>1, <1>2, ExceptSeq
<1>4. \A b \in 1..Len(h.defs) : b \notin Ids(h.rds[r]) => ds[b] = h.defs[b]
  BY <1>1
<1>5. Put(h, a, d) = [defs |-> ds, rds |-> h.rds]
  BY PutIs
<1> HIDE DEF ds
<1>6. Changes(h, [defs |-> ds, rds |-> [h.rds EXCEPT ![r] = h.rds[r]]], {r})
  <2> DEFINE x == h.rds[r]
  <2>1. /\ Len(h.defs) <= Len(ds) /\ RdOK(x, Len(ds))
        /\ \A b \in Ids(x) : b > Len(h.defs) \/ b \in Ids(h.rds[r])
    BY <1>1, <1>3
  <2> HIDE DEF x
  <2>2. Changes(h, [defs |-> ds, rds |-> [h.rds EXCEPT ![r] = x]], {r})
    BY <1>3, <1>4, <2>1, OneChanges
  <2> QED
    BY <2>2 DEF x
<1>7. [h.rds EXCEPT ![r] = h.rds[r]] = h.rds
  BY <1>1, SameElement
<1> QED
  BY <1>5, <1>6, <1>7

\* An operand that is there is an object of the ReachDefinition.
LEMMA OperandIs ==
  ASSUME NEW h, HeapOK(h), NEW r \in 1..Len(h.rds), NEW i \in Nat,
         1 <= i, i <= stackSize(h.rds[r])
  PROVE  /\ Operand(h, r, i) \in Ids(h.rds[r])
         /\ DefOf(h, Operand(h, r, i)) \in Defs
<1> DEFINE y == h.rds[r]
           t == Len(y.stack)
           m == stackSize(y)
<1>1. /\ Len(h.defs) \in Nat /\ RdOK(y, Len(h.defs))
      /\ \A j \in 1..Len(h.defs) : h.defs[j] \in Defs
  BY HeapParts
<1>2. m \in 0..t /\ t \in Nat
  BY <1>1, StackSizeIs, RdParts
<1> HIDE DEF y, m
<1>3. i <= m
  BY DEF m, y
<1>4. t + 1 - i \in 1..t
  BY <1>2, <1>3
<1>5. Operand(h, r, i) = y.stack[t + 1 - i]
  BY DEF Operand, rd, y
<1>6. Operand(h, r, i) \in Ids(y)
  BY <1>4, <1>5 DEF Ids
<1> QED
  BY <1>1, <1>6 DEF RdOK, DefOf, y

\* The definition of a variable.
LEMMA VariableIs ==
  ASSUME NEW h, HeapOK(h), NEW r \in 1..Len(h.rds), NEW v \in 1..NumVars
  PROVE  /\ h.rds[r].vars[v] \in Ids(h.rds[r])
         /\ DefOf(h, h.rds[r].vars[v]) \in Defs
<1>1. /\ Len(h.defs) \in Nat /\ RdOK(h.rds[r], Len(h.defs))
      /\ \A j \in 1..Len(h.defs) : h.defs[j] \in Defs
  BY HeapParts
<1>2. h.rds[r].vars[v] \in Ids(h.rds[r])
  BY DEF Ids
<1> QED
  BY <1>1, <1>2 DEF RdOK, DefOf

\* The operand on the top becomes a variable's definition.
LEMMA AssignChanges ==
  ASSUME NEW h, HeapOK(h), NEW r \in 1..Len(h.rds), 1 <= stackSize(h.rds[r]),
         Op(Here).arg \in 1..NumVars, Here \in Nodes
  PROVE  /\ Changes(h, Assign(h, r), {r})
         /\ stackSize(Assign(h, r).rds[r]) = stackSize(h.rds[r])
<1> DEFINE o == Operand(h, r, 1)
           d == ClearTo(Arg(h, r, 1), Here)
           v == Op(Here).arg
           g == Put(h, o, d)
           y == h.rds[r]
           f == [y.vars EXCEPT ![v] = o]
           x == ReachDef(f, y.stack, y.labels)
           k == Len(h.defs)
<1>1. o \in Ids(h.rds[r]) /\ DefOf(h, o) \in Defs
  BY OperandIs
<1>2. d \in Defs
  <2> HIDE DEF o
  <2> DEFINE c == DefOf(h, o)
  <2>1. c \in Defs
    BY <1>1
  <2> HIDE DEF c
  <2>2. ClearTo(c, Here) \in Defs
    BY <2>1, DefsAre
  <2> QED
    BY <2>2 DEF c, o, Arg
<1> HIDE DEF o, d
<1>3. Changes(h, g, {r}) /\ g.rds = h.rds /\ g.defs = [h.defs EXCEPT ![o] = d]
  <2>1. o \in Ids(h.rds[r])
    BY <1>1
  <2>2. Changes(h, Put(h, o, d), {r})
    BY <1>2, <2>1, PutChanges
  <2>3. Put(h, o, d) = [defs |-> [h.defs EXCEPT ![o] = d], rds |-> h.rds]
    BY PutIs
  <2> QED
    BY <2>2, <2>3
<1>4. /\ k \in Nat /\ DOMAIN h.rds = 1..Len(h.rds) /\ RdOK(y, k) /\ h.defs \in Seq(Defs)
      /\ DOMAIN h.defs = 1..k
  BY HeapParts
<1>5. /\ g.defs \in Seq(Defs) /\ g = [defs |-> g.defs, rds |-> g.rds]
  BY <1>3, HeapParts DEF Changes
<1>6. o \in 1..k
  BY <1>1, <1>4 DEF RdOK
<1>7. Len(g.defs) = k
  BY <1>2, <1>3, <1>4, <1>6, ExceptSeq
<1>8. /\ y.vars \in [1..NumVars -> 1..k] /\ y.stack \in Seq(1..k) /\ Len(y.stack) \in Nat
      /\ y.labels \in Seq(Entries)
      /\ y = [vars |-> y.vars, stack |-> y.stack, labels |-> y.labels]
      /\ Ordered(y)
  BY <1>4, RdParts
<1> HIDE DEF y, v, k, g
<1>9. /\ f \in [1..NumVars -> 1..k]
      /\ \A i \in 1..NumVars : f[i] \in {y.vars[j] : j \in 1..NumVars} \cup {o}
  BY <1>6, <1>8
<1> HIDE DEF f
<1>10. Ordered(ReachDef(f, y.stack, y.labels))
  BY <1>8 DEF Ordered, ReachDef
<1>11. /\ RdOK(x, k)
       /\ Ids(x) = {f[i] : i \in 1..NumVars} \cup {y.stack[i] : i \in 1..Len(y.stack)}
  <2> DEFINE s == y.stack
             l == y.labels
  <2>1. s \in Seq(1..k) /\ l \in Seq(Entries) /\ Ordered(ReachDef(f, s, l))
    BY <1>8, <1>10
  <2> HIDE DEF s, l
  <2>2. /\ RdOK(ReachDef(f, s, l), k)
        /\ Ids(ReachDef(f, s, l)) = {f[i] : i \in 1..NumVars} \cup {s[i] : i \in 1..Len(s)}
    BY ZenonT(60), <1>4, <1>9, <2>1, RdOfParts
  <2> QED
    BY <2>2 DEF s, l
<1>12. o \in Ids(y)
  BY <1>1 DEF y
<1>13. Ids(x) \subseteq Ids(y)
  BY <1>9, <1>11, <1>12 DEF Ids
<1>14. \A a \in 1..Len(h.defs) : a \notin Ids(h.rds[r]) => g.defs[a] = h.defs[a]
  BY <1>3 DEF Changes
<1>15. x = [y EXCEPT !.vars = f]
  <2> DEFINE a == y.vars
             s == y.stack
             l == y.labels
  <2>1. y = [vars |-> a, stack |-> s, labels |-> l]
    BY <1>8
  <2> HIDE DEF a, s, l
  <2>2. [y EXCEPT !.vars = f] = [vars |-> f, stack |-> s, labels |-> l]
    BY <2>1, RdExcept
  <2> QED
    BY <2>2 DEF ReachDef, s, l
<1>16. Assign(h, r) = [defs |-> g.defs, rds |-> [h.rds EXCEPT ![r] = x]]
  <2>1. Assign(h, r) =
          [g EXCEPT !.rds =
             [g.rds EXCEPT ![r] = [g.rds[r] EXCEPT !.vars = [@ EXCEPT ![v] = o]]]]
    BY <1>3, <1>4 DEF Assign, g, o, d, v
  <2>2. Assign(h, r) = [g EXCEPT !.rds = [h.rds EXCEPT ![r] = x]]
    BY <1>3, <1>15, <2>1 DEF f, y
  <2> HIDE DEF x
  <2> QED
    BY <1>3, <1>5, <2>2, HeapExcept
<1>17. x.stack = y.stack /\ x.labels = y.labels
  BY DEF ReachDef
<1> HIDE DEF x
<1>18. Changes(h, [defs |-> g.defs, rds |-> [h.rds EXCEPT ![r] = x]], {r})
  <2> DEFINE ds == g.defs
  <2>1. /\ ds \in Seq(Defs) /\ Len(h.defs) <= Len(ds) /\ RdOK(x, Len(ds))
        /\ \A a \in 1..Len(h.defs) : a \notin Ids(h.rds[r]) => ds[a] = h.defs[a]
    BY <1>4, <1>5, <1>7, <1>11, <1>14 DEF k
  <2> HIDE DEF ds
  <2>2. \A a \in Ids(x) : a > Len(h.defs) \/ a \in Ids(h.rds[r])
    BY <1>13 DEF y
  <2>3. Changes(h, [defs |-> ds, rds |-> [h.rds EXCEPT ![r] = x]], {r})
    BY <2>1, <2>2, OneChanges
  <2> QED
    BY <2>3 DEF ds
<1>19. stackSize(x) = stackSize(y)
  BY <1>17 DEF stackSize
<1>20. [h.rds EXCEPT ![r] = x][r] = x
  BY <1>4
<1> QED
  BY <1>16, <1>18, <1>19, <1>20 DEF y

-----------------------------------------------------------------------------
(* Copies. *)

\* Where a copy's definition of a variable is.
LEMMA CopyIndex ==
  ASSUME NEW m \in Nat, NEW j \in 1..m, NEW v \in 1..NumVars
  PROVE  (j - 1) * NumVars + v \in 1 .. m * NumVars
<1> DEFINE q == m - j
           i == j - 1
           n == NumVars
<1>1. q \in Nat /\ i \in Nat /\ n \in Nat
  BY NumVarsAssumption
<1>2. m = i + 1 + q
  OBVIOUS
<1>3. v \in 1..n
  OBVIOUS
<1> HIDE DEF q, i, n
<1>4. m * n = i * n + n + q * n
  BY <1>1, <1>2
<1>5. i * n \in Nat /\ q * n \in Nat
  BY <1>1
<1>6. i * n + v \in 1 .. m * n
  BY <1>1, <1>3, <1>4, <1>5
<1> QED
  BY <1>6 DEF i, n

\* It is the definition of that variable.
LEMMA CopyVariable ==
  /\ \A m \in Nat : m * NumVars \in Nat
                    /\ \A x \in 1 .. m * NumVars : ((x - 1) % NumVars) + 1 \in 1..NumVars
  /\ \A v \in 1..NumVars : ((v - 1) % NumVars) + 1 = v
<1> DEFINE n == NumVars
<1>1. n \in Nat
  BY NumVarsAssumption
<1> HIDE DEF n
<1>2. \A m \in Nat : m * n \in Nat
  BY <1>1
<1>3. ASSUME NEW m \in Nat, NEW x \in 1 .. m * n
      PROVE  ((x - 1) % n) + 1 \in 1..n
  <2>1. n # 0
    <3> SUFFICES ASSUME n = 0 PROVE FALSE
      OBVIOUS
    <3>1. m * n = 0
      OBVIOUS
    <3> QED
      BY <3>1
  <2>2. x \in Nat
    BY <1>2
  <2>3. n > 0 /\ x - 1 \in Int
    BY <1>1, <2>1, <2>2
  <2>4. (x - 1) % n \in 0 .. n - 1
    BY <1>1, <2>3
  <2> QED
    BY <1>1, <2>4
<1>4. ASSUME NEW v \in 1..n
      PROVE  ((v - 1) % n) + 1 = v
  BY <1>1
<1> QED
  BY <1>2, <1>3, <1>4 DEF n

\* Heap g has what heap h has, and new objects.
Extends(h, g) ==
  /\ HeapOK(g)
  /\ Len(h.defs) <= Len(g.defs) /\ Len(h.rds) <= Len(g.rds)
  /\ \A a \in 1..Len(h.defs) : g.defs[a] = h.defs[a]
  /\ \A q \in 1..Len(h.rds) : g.rds[q] = h.rds[q]

\* Object x of a heap that extends h is a copy of a ReachDefinition, with its
\* definitions of the variables from k + 1 on.
IsCopy(h, r, x, k) ==
  /\ x.stack = h.rds[r].stack /\ x.labels = h.rds[r].labels
  /\ \A v \in 1..NumVars : x.vars[v] = k + v

\* What Copies makes.
LEMMA CopiesAre ==
  ASSUME NEW h, HeapOK(h), NEW r \in 1..Len(h.rds), NEW m \in Nat
  PROVE  /\ Changes(h, Copies(h, r, m), {r}) /\ Extends(h, Copies(h, r, m))
         /\ Len(Copies(h, r, m).rds) = Len(h.rds) + m
         /\ \A j \in 1..m : IsCopy(h, r, Copies(h, r, m).rds[Len(h.rds) + j],
                                   Len(h.defs) + (j - 1) * NumVars)
         /\ m > 0 => \A v \in 1..NumVars :
              Copies(h, r, m).defs[Len(h.defs) + v] = h.defs[h.rds[r].vars[v]]
<1> DEFINE k == Len(h.defs)
           l == Len(h.rds)
           y == h.rds[r]
           w == m * NumVars
           news == [x \in 1..w |-> DefOf(h, rd(h, r).vars[((x - 1) % NumVars) + 1])]
           copy(j) == [rd(h, r) EXCEPT !.vars = [v \in 1..NumVars |-> k + (j - 1) * NumVars + v]]
           copies == [j \in 1..m |-> copy(j)]
           g == Copies(h, r, m)
<1>1. /\ h.defs \in Seq(Defs) /\ h.rds \in Seq(Rds) /\ k \in Nat /\ l \in Nat
      /\ \A i \in 1..k : h.defs[i] \in Defs
      /\ \A q \in 1..l : RdOK(h.rds[q], k)
  BY HeapParts
<1>2. /\ y.vars \in [1..NumVars -> 1..k] /\ y.stack \in Seq(1..k) /\ Len(y.stack) \in Nat
      /\ y.labels \in Seq(Entries)
      /\ y = [vars |-> y.vars, stack |-> y.stack, labels |-> y.labels]
      /\ \A i \in 1..Len(y.stack) : y.stack[i] \in 1..k
      /\ Ordered(y)
  BY <1>1, RdParts
<1>3. w \in Nat
  BY CopyVariable
<1>4. \A x \in 1..w : news[x] \in Defs
  <2> TAKE x \in 1..w
  <2> DEFINE v == ((x - 1) % NumVars) + 1
  <2>1. v \in 1..NumVars
    BY CopyVariable
  <2>2. news[x] = DefOf(h, y.vars[v])
    BY DEF rd
  <2> HIDE DEF v, news, y, k
  <2>3. y.vars[v] \in 1..k
    BY <1>2, <2>1
  <2> QED
    BY <1>1, <2>2, <2>3 DEF DefOf
<1>5. news \in Seq(Defs) /\ Len(news) = w
  <2>1. news = [x \in 1..w |-> news[x]]
    OBVIOUS
  <2> HIDE DEF news, w
  <2>2. news \in [1..w -> Defs]
    BY <1>4, <2>1
  <2>3. news \in Seq(Defs) /\ DOMAIN news = 1..w
    BY <1>3, <2>2
  <2> QED
    BY <1>3, <2>3
<1>6. g.defs = h.defs \o news /\ g.rds = h.rds \o copies
  BY DEF Copies
<1>7. m > 0 => \A v \in 1..NumVars : v \in 1..w /\ news[v] = h.defs[y.vars[v]]
  <2> SUFFICES ASSUME m > 0, NEW v \in 1..NumVars
               PROVE  v \in 1..w /\ news[v] = h.defs[y.vars[v]]
    OBVIOUS
  <2>1. 1 \in 1..m
    OBVIOUS
  <2>2. (1 - 1) * NumVars + v \in 1..w
    BY <2>1, CopyIndex
  <2>3. (1 - 1) * NumVars + v = v
    BY NumVarsAssumption
  <2>4. v \in 1..w
    BY <2>2, <2>3
  <2>5. ((v - 1) % NumVars) + 1 = v
    BY CopyVariable
  <2> HIDE DEF w
  <2>6. news[v] = DefOf(h, rd(h, r).vars[((v - 1) % NumVars) + 1])
    BY <2>4
  <2> QED
    BY <2>4, <2>5, <2>6 DEF DefOf, rd
<1>8. \A j \in 1..m : \A v \in 1..NumVars : (j - 1) * NumVars + v \in 1..w
  BY CopyIndex
<1> HIDE DEF w, news
<1>9. /\ g.defs \in Seq(Defs) /\ Len(g.defs) = k + w
      /\ \A i \in 1..k : g.defs[i] = h.defs[i]
      /\ \A i \in 1..w : g.defs[k + i] = news[i]
  <2> DEFINE ds == h.defs
  <2>1. ds \in Seq(Defs) /\ Len(ds) = k
    BY <1>1
  <2> HIDE DEF ds
  <2>2. /\ ds \o news \in Seq(Defs) /\ Len(ds \o news) = Len(ds) + Len(news)
        /\ \A i \in 1..Len(ds) : (ds \o news)[i] = ds[i]
        /\ \A i \in 1..Len(news) : (ds \o news)[Len(ds) + i] = news[i]
    <3>1. ds \o news \in Seq(Defs)
      BY <1>5, <2>1, JoinedIs
    <3>2. Len(ds \o news) = Len(ds) + Len(news)
      BY <1>5, <2>1, JoinedIs
    <3>3. \A i \in 1..Len(ds) : (ds \o news)[i] = ds[i]
      BY <1>5, <2>1, JoinedIs
    <3>4. \A i \in 1..Len(news) : (ds \o news)[Len(ds) + i] = news[i]
      BY <1>5, <2>1, JoinedIs
    <3> QED
      BY <3>1, <3>2, <3>3, <3>4
  <2>3. g.defs = ds \o news
    BY <1>6 DEF ds
  <2> HIDE DEF g, k
  <2> QED
    BY <1>5, <2>1, <2>2, <2>3 DEF ds
<1>10. ASSUME NEW j \in 1..m
       PROVE  RdOK(copy(j), k + w) /\ IsCopy(h, r, copy(j), k + (j - 1) * NumVars)
  <2> DEFINE vs == [v \in 1..NumVars |-> k + (j - 1) * NumVars + v]
             i == (j - 1) * NumVars
             s == y.stack
             ls == y.labels
  <2>1. \A v \in 1..NumVars : i + v \in 1..w
    BY <1>8
  <2>2. i \in Int
    BY NumVarsAssumption
  <2>3. \A v \in 1..NumVars : vs[v] \in 1 .. k + w
    <3>1. \A v \in 1..NumVars : vs[v] = k + i + v /\ v \in Nat
      OBVIOUS
    <3> HIDE DEF vs, i, k
    <3> QED
      BY <1>1, <1>3, <2>1, <2>2, <3>1
  <2>4. vs \in [1..NumVars -> 1 .. k + w]
    BY <2>3
  <2>5. copy(j) = ReachDef(vs, s, ls)
    <3>1. copy(j) = [y EXCEPT !.vars = vs]
      BY DEF rd
    <3>2. y = [vars |-> y.vars, stack |-> s, labels |-> ls]
      BY <1>2
    <3> HIDE DEF vs, y, copy, s, ls
    <3>3. [y EXCEPT !.vars = vs] = [vars |-> vs, stack |-> s, labels |-> ls]
      BY <3>2, RdExcept
    <3> QED
      BY <3>1, <3>3 DEF ReachDef
  <2>6. IsCopy(h, r, copy(j), k + (j - 1) * NumVars)
    <3>1. ReachDef(vs, s, ls).vars = vs /\ ReachDef(vs, s, ls).stack = s
          /\ ReachDef(vs, s, ls).labels = ls
      BY DEF ReachDef
    <3>2. \A v \in 1..NumVars : vs[v] = k + (j - 1) * NumVars + v
      OBVIOUS
    <3> QED
      BY <2>5, <3>1, <3>2 DEF IsCopy
  <2>7. s \in Seq(1 .. k + w) /\ ls \in Seq(Entries) /\ k + w \in Nat
    <3>1. s \in Seq(1..k) /\ ls \in Seq(Entries) /\ \A e \in 1..Len(s) : s[e] \in 1..k
      BY <1>2
    <3> HIDE DEF s, ls, k
    <3>2. \A e \in 1..Len(s) : s[e] \in 1 .. k + w
      BY <1>1, <1>3, <3>1
    <3> QED
      BY <1>1, <1>3, <3>1, <3>2, SeqOfElements
  <2>8. Ordered(ReachDef(vs, s, ls))
    BY <1>2 DEF Ordered, ReachDef
  <2>9. RdOK(ReachDef(vs, s, ls), k + w)
    <3> HIDE DEF vs, s, ls, k
    <3> DEFINE b == k + w
    <3>1. b \in Nat /\ vs \in [1..NumVars -> 1..b] /\ s \in Seq(1..b)
      BY <2>4, <2>7
    <3> HIDE DEF b
    <3>2. RdOK(ReachDef(vs, s, ls), b)
      BY <2>7, <2>8, <3>1, RdOfParts
    <3> QED
      BY <3>2 DEF b
  <2> QED
    BY <2>5, <2>6, <2>9
<1> HIDE DEF copy
<1>11. copies \in Seq(Rds) /\ Len(copies) = m /\ \A j \in 1..m : copies[j] = copy(j)
  <2>1. \A j \in 1..m : copy(j) \in Rds
    BY <1>10 DEF RdOK
  <2>2. copies \in [1..m -> Rds]
    BY <2>1
  <2>3. DOMAIN copies = 1..m /\ \A j \in 1..m : copies[j] = copy(j)
    OBVIOUS
  <2> HIDE DEF copies
  <2> QED
    BY <2>2, <2>3
<1> HIDE DEF copies
<1>12. /\ g.rds \in Seq(Rds) /\ Len(g.rds) = l + m
       /\ \A q \in 1..l : g.rds[q] = h.rds[q]
       /\ \A j \in 1..m : g.rds[l + j] = copy(j)
  <2> DEFINE rs == h.rds
  <2>1. rs \in Seq(Rds) /\ Len(rs) = l
    BY <1>1
  <2> HIDE DEF rs
  <2>2. /\ rs \o copies \in Seq(Rds) /\ Len(rs \o copies) = Len(rs) + Len(copies)
        /\ \A i \in 1..Len(rs) : (rs \o copies)[i] = rs[i]
        /\ \A i \in 1..Len(copies) : (rs \o copies)[Len(rs) + i] = copies[i]
    <3>1. rs \o copies \in Seq(Rds)
      BY <1>11, <2>1, JoinedIs
    <3>2. Len(rs \o copies) = Len(rs) + Len(copies)
      BY <1>11, <2>1, JoinedIs
    <3>3. \A i \in 1..Len(rs) : (rs \o copies)[i] = rs[i]
      BY <1>11, <2>1, JoinedIs
    <3>4. \A i \in 1..Len(copies) : (rs \o copies)[Len(rs) + i] = copies[i]
      BY SMTT(30), <1>11, <2>1, JoinedIs
    <3> QED
      BY <3>1, <3>2, <3>3, <3>4
  <2>3. g.rds = rs \o copies
    BY <1>6 DEF rs
  <2> HIDE DEF g, l
  <2> QED
    BY <1>11, <2>1, <2>2, <2>3 DEF rs
<1>13. \A q \in 1 .. l + m : q \in 1..l \/ \E j \in 1..m : q = l + j
  <2> TAKE q \in 1 .. l + m
  <2>1. q \notin 1..l => q - l \in 1..m /\ q = l + (q - l)
    BY <1>1
  <2> QED
    BY <2>1
<1>14. \A q \in 1..l : RdOK(h.rds[q], k + w)
  <2>1. 1..k \subseteq 1 .. k + w
    BY <1>1, <1>3
  <2> HIDE DEF k, l
  <2> QED
    BY <1>1, <2>1 DEF RdOK
<1>15. g = [defs |-> g.defs, rds |-> g.rds]
  BY DEF Copies
<1> HIDE DEF g
<1>16. HeapOK(g)
  <2>1. g \in Heaps
    BY <1>9, <1>12, <1>15 DEF Heaps
  <2>2. \A q \in 1 .. l + m : RdOK(g.rds[q], k + w)
    BY <1>10, <1>12, <1>13, <1>14
  <2> QED
    BY <1>9, <1>12, <2>1, <2>2 DEF HeapOK
<1> HIDE DEF k, l
<1>17. k <= k + w /\ l <= l + m
  BY <1>1, <1>3
<1>18. Extends(h, g)
  BY <1>9, <1>12, <1>16, <1>17 DEF Extends, k, l
<1>19. ASSUME NEW j \in 1..m, NEW a \in Ids(copy(j))
       PROVE  a > k \/ a \in Ids(y)
  <2>1. CASE \E i \in 1..Len(copy(j).stack) : a = copy(j).stack[i]
    BY <1>10, <2>1 DEF IsCopy, Ids
  <2>2. CASE \E v \in 1..NumVars : a = copy(j).vars[v]
    <3> PICK v \in 1..NumVars : a = copy(j).vars[v]
      BY <2>2
    <3> DEFINE i == (j - 1) * NumVars
    <3>0. IsCopy(h, r, copy(j), k + i)
      BY <1>10
    <3>1. a = k + i + v
      <4> HIDE DEF i
      <4> QED
        BY <3>0 DEF IsCopy
    <3>2. i + v \in 1..w
      BY <1>8
    <3>3. i \in Int
      BY NumVarsAssumption
    <3> HIDE DEF i
    <3> QED
      BY <1>1, <1>3, <3>1, <3>2, <3>3
  <2> QED
    BY <2>1, <2>2 DEF Ids
<1>20. ASSUME NEW q \in 1..Len(g.rds), q = r \/ q > l, NEW a \in Ids(g.rds[q])
       PROVE  a > k \/ a \in Ids(y)
  <2>1. CASE q \in 1..l
    <3>1. q = r
      BY <1>1, <1>20, <2>1
    <3>2. g.rds[r] = y
      BY <1>12 DEF l
    <3> QED
      BY <1>20, <3>1, <3>2
  <2>2. CASE \E j \in 1..m : q = l + j
    BY <1>12, <1>19, <1>20, <2>2
  <2> QED
    BY <1>12, <1>13, <2>1, <2>2
<1>21. Changes(h, g, {r})
  BY <1>9, <1>12, <1>16, <1>17, <1>20 DEF Changes, k, l
<1>22. \A j \in 1..m : IsCopy(h, r, g.rds[l + j], k + (j - 1) * NumVars)
  BY <1>10, <1>12
<1>23. m > 0 => \A v \in 1..NumVars : g.defs[k + v] = h.defs[y.vars[v]]
  BY <1>7, <1>9
<1> QED
  BY <1>12, <1>18, <1>21, <1>22, <1>23 DEF g, k, l

-----------------------------------------------------------------------------
(* Unions. *)

\* Heap g differs from heap h in the definitions A, which have grown.
Grown(h, g, A) ==
  /\ HeapOK(g) /\ g.rds = h.rds /\ Len(g.defs) = Len(h.defs)
  /\ \A c \in 1..Len(h.defs) : /\ DOMAIN h.defs[c] \subseteq DOMAIN g.defs[c]
                               /\ c \notin A => g.defs[c] = h.defs[c]

\* So has it when it has grown twice.
LEMMA GrownAgain ==
  ASSUME NEW h, NEW g, NEW A, Grown(h, g, A), NEW k, Grown(g, k, A)
  PROVE  Grown(h, k, A)
BY DEF Grown

\* A heap with other definitions.
LEMMA DefsReplaced ==
  ASSUME NEW h, HeapOK(h), NEW ds \in Seq(Defs), Len(ds) = Len(h.defs)
  PROVE  HeapOK([defs |-> ds, rds |-> h.rds])
<1> DEFINE g == [defs |-> ds, rds |-> h.rds]
<1>1. h.rds \in Seq(Rds) /\ \A r \in 1..Len(h.rds) : RdOK(h.rds[r], Len(h.defs))
  BY HeapParts
<1>2. g.defs = ds /\ g.rds = h.rds /\ g \in Heaps
  BY <1>1 DEF Heaps
<1> HIDE DEF g
<1>3. HeapOK(g)
  BY <1>1, <1>2 DEF HeapOK
<1> QED
  BY <1>3 DEF g

\* One definition takes in another.
LEMMA TakeInIs ==
  ASSUME NEW h, HeapOK(h), NEW c \in 1..Len(h.defs), NEW d \in 1..Len(h.defs)
  PROVE  /\ Grown(h, TakeIn(h, c, d), {c})
         /\ DOMAIN h.defs[d] \subseteq DOMAIN TakeIn(h, c, d).defs[c]
<1> DEFINE u == UnionDef(DefOf(h, c), DefOf(h, d))
           ds == [h.defs EXCEPT ![c] = u]
           g == TakeIn(h, c, d)
<1>1. /\ h.defs \in Seq(Defs) /\ DOMAIN h.defs = 1..Len(h.defs)
      /\ h.defs[c] \in Defs /\ h.defs[d] \in Defs
  BY HeapParts
<1>2. u \in Defs /\ DOMAIN u = DOMAIN h.defs[c] \cup DOMAIN h.defs[d]
  <2> DEFINE a == h.defs[c]
             b == h.defs[d]
  <2>1. a \in Defs /\ b \in Defs
    BY <1>1
  <2> HIDE DEF a, b
  <2>2. UnionDef(a, b) \in Defs /\ DOMAIN UnionDef(a, b) = DOMAIN a \cup DOMAIN b
    <3>1. RetFunc \in Nodes
      BY DEF Nodes
    <3> QED
      BY <2>1, <3>1, DefsAre
  <2> QED
    BY <2>2 DEF a, b, DefOf
<1> HIDE DEF u
<1>3. ds \in Seq(Defs) /\ Len(ds) = Len(h.defs)
  BY <1>1, <1>2, ExceptSeq
<1>4. ds[c] = u /\ \A b \in 1..Len(h.defs) : b # c => ds[b] = h.defs[b]
  BY <1>1
<1>5. g = [defs |-> ds, rds |-> h.rds]
  BY PutIs DEF TakeIn, u
<1> HIDE DEF ds
<1>6. HeapOK(g) /\ g.defs = ds /\ g.rds = h.rds
  BY <1>3, <1>5, DefsReplaced
<1> HIDE DEF g
<1>7. Grown(h, g, {c})
  BY <1>2, <1>3, <1>4, <1>6 DEF Grown
<1>8. DOMAIN h.defs[d] \subseteq DOMAIN g.defs[c]
  BY <1>2, <1>4, <1>6
<1> QED
  BY <1>7, <1>8 DEF g

\* Definitions take in others, one after the other.
LEMMA TakeAllIs ==
  ASSUME NEW h, HeapOK(h), NEW a, NEW b, Len(a) \in Nat,
         \A i \in 1..Len(a) : a[i] \in 1..Len(h.defs) /\ b[i] \in 1..Len(h.defs)
  PROVE  /\ Grown(h, TakeAll(h, a, b), {a[i] : i \in 1..Len(a)})
         /\ \A i \in 1..Len(a) :
              DOMAIN h.defs[b[i]] \subseteq DOMAIN TakeAll(h, a, b).defs[a[i]]
<1> DEFINE n == Len(a)
           A == {a[i] : i \in 1..n}
           V == {g \in Heaps : HeapOK(g) /\ Len(g.defs) = Len(h.defs) /\ g.rds = h.rds}
           F == [i \in 1..n |-> [g \in V |-> TakeIn(g, a[i], b[i])]]
           Is(H) == H = [i \in 0..n |-> IF i = 0 THEN h ELSE TakeIn(H[i - 1], a[i], b[i])]
           H == CHOOSE H : Is(H)
<1>1. \A i \in 1..n : \A g \in V : /\ F[i][g] = TakeIn(g, a[i], b[i])
                                  /\ Grown(g, TakeIn(g, a[i], b[i]), {a[i]})
                                  /\ F[i][g] \in V
  <2> TAKE i \in 1..n
  <2> TAKE g \in V
  <2> DEFINE c == a[i]
             d == b[i]
             k == TakeIn(g, c, d)
  <2>1. F[i][g] = k
    OBVIOUS
  <2>2. HeapOK(g) /\ c \in 1..Len(g.defs) /\ d \in 1..Len(g.defs)
    OBVIOUS
  <2> HIDE DEF c, d, F
  <2>3. Grown(g, TakeIn(g, c, d), {c})
    BY <2>2, TakeInIs
  <2> HIDE DEF k
  <2>4. HeapOK(k) /\ k \in Heaps /\ k.rds = g.rds /\ Len(k.defs) = Len(g.defs)
    BY <2>3 DEF Grown, HeapOK, k
  <2>5. k \in V
    BY <2>4
  <2> QED
    BY <2>1, <2>3, <2>5 DEF c, d, k
<1>2. h \in V
  BY DEF HeapOK
<1> HIDE DEF F, V
<1>3. Steps(0, n, V, F)
  <2>1. \A i \in 1..n : \A g \in V : F[i][g] \in V
    BY <1>1
  <2>2. n \in Nat /\ 0 <= n
    OBVIOUS
  <2> HIDE DEF n
  <2>3. 0 + 1 .. n = 1..n
    OBVIOUS
  <2> QED
    BY <2>1, <2>2, <2>3 DEF Steps
<1>4. PICK f \in [0..n -> V] : f[0] = h /\ \A i \in 0 + 1 .. n : f[i] = F[i][f[i - 1]]
  <2> HIDE DEF n
  <2>1. \E f \in [0..n -> V] : Stepped(f, 0, n, h, F)
    BY <1>2, <1>3, Iteration
  <2> QED
    BY <2>1 DEF Stepped
<1>5. Is(f)
  <2>1. \A i \in 1..n : i \in 0 + 1 .. n /\ i - 1 \in 0..n /\ f[i - 1] \in V
    BY SMTT(30)
  <2>2. \A i \in 1..n : f[i] = TakeIn(f[i - 1], a[i], b[i])
    BY <1>1, <1>4, <2>1
  <2>3. \A i \in 0..n : i = 0 \/ i \in 1..n
    OBVIOUS
  <2>4. \A i \in 0..n : f[i] = IF i = 0 THEN h ELSE TakeIn(f[i - 1], a[i], b[i])
    BY <1>4, <2>2, <2>3
  <2> HIDE DEF n
  <2> QED
    BY <2>4
<1>6. Is(H)
  <2> HIDE DEF Is
  <2> QED
    BY <1>5
<1>7. TakeAll(h, a, b) = H[n]
  BY DEF TakeAll
<1> HIDE DEF H
<1>8. H[0] = h /\ \A i \in 1..n : H[i] = TakeIn(H[i - 1], a[i], b[i])
  <2>1. \A i \in 0..n : H[i] = IF i = 0 THEN h ELSE TakeIn(H[i - 1], a[i], b[i])
    BY <1>6
  <2> QED
    BY <2>1
<1> HIDE DEF Is, n, A
<1> DEFINE Taken(i, j) == DOMAIN h.defs[b[j]] \subseteq DOMAIN H[i].defs[a[j]]
           S == {i \in Nat : i <= n => Grown(h, H[i], A) /\ \A j \in 1..i : Taken(i, j)}
<1>9. 0 \in S
  <2>1. Grown(h, h, A)
    BY DEF Grown
  <2>2. Grown(h, H[0], A)
    BY <1>8, <2>1
  <2> HIDE DEF Taken
  <2> QED
    BY <2>2
<1>10. ASSUME NEW m \in Nat, m \in S
       PROVE  m + 1 \in S
  <2> SUFFICES ASSUME m + 1 <= n
               PROVE  Grown(h, H[m + 1], A) /\ \A j \in 1 .. m + 1 : Taken(m + 1, j)
    OBVIOUS
  <2> DEFINE g == H[m]
             i == m + 1
             c == a[i]
             d == b[i]
             k == TakeIn(g, c, d)
  <2>1. Grown(h, g, A) /\ \A j \in 1..m : Taken(m, j)
    BY <1>10 DEF n
  <2>2. i \in 1..n /\ i - 1 = m
    BY DEF n
  <2>3. H[i] = k
    BY <1>8, <2>2
  <2>4. /\ c \in 1..Len(h.defs) /\ d \in 1..Len(h.defs) /\ c \in A
        /\ \A j \in 1..n : a[j] \in 1..Len(h.defs)
    BY <2>2 DEF n, A
  <2> HIDE DEF g, c, d
  <2>5. HeapOK(g) /\ c \in 1..Len(g.defs) /\ d \in 1..Len(g.defs)
    BY <2>1, <2>4 DEF Grown
  <2>6. Grown(g, k, {c}) /\ DOMAIN g.defs[d] \subseteq DOMAIN k.defs[c]
    BY <2>5, TakeInIs
  <2> HIDE DEF k
  <2>7. Grown(g, k, A)
    BY <2>4, <2>6 DEF Grown
  <2>8. Grown(h, k, A)
    BY <2>1, <2>7, GrownAgain
  <2>9. \A j \in 1..m : DOMAIN h.defs[b[j]] \subseteq DOMAIN k.defs[a[j]]
    <3> TAKE j \in 1..m
    <3>1. a[j] \in 1..Len(h.defs)
      BY <2>4 DEF n
    <3>2. DOMAIN g.defs[a[j]] \subseteq DOMAIN k.defs[a[j]]
      BY <2>1, <2>6, <3>1 DEF Grown
    <3>3. DOMAIN h.defs[b[j]] \subseteq DOMAIN g.defs[a[j]]
      BY <2>1 DEF g
    <3> QED
      BY <3>2, <3>3
  <2>10. DOMAIN h.defs[d] \subseteq DOMAIN k.defs[c]
    BY <2>1, <2>4, <2>6 DEF Grown
  <2>11. \A j \in 1..i : j \in 1..m \/ j = i
    OBVIOUS
  <2>12. \A j \in 1..i : Taken(i, j)
    BY <2>3, <2>9, <2>10, <2>11 DEF c, d
  <2> HIDE DEF Taken
  <2> QED
    BY <2>3, <2>8, <2>12
<1>11. Nat \subseteq S
  <2> HIDE DEF S
  <2> QED
    BY <1>9, <1>10, SetInduction
<1>12. n \in Nat /\ n \in S
  BY <1>11 DEF n
<1> QED
  BY <1>7, <1>12 DEF n, A

\* The objects of a ReachDefinition in a sequence, the variables' first.
LEMMA ObjectsAre ==
  ASSUME NEW k \in Nat, NEW x, RdOK(x, k)
  PROVE  /\ Len(Objects(x)) = NumVars + Len(x.stack)
         /\ \A v \in 1..NumVars : v \in 1..Len(Objects(x)) /\ Objects(x)[v] = x.vars[v]
         /\ \A i \in 1..Len(Objects(x)) : Objects(x)[i] \in 1..k /\ Objects(x)[i] \in Ids(x)
<1> DEFINE a == x.vars
           s == x.stack
           b == Reverse(s)
           n == NumVars
           m == Len(s)
<1>1. a \in [1..n -> 1..k] /\ s \in Seq(1..k) /\ m \in Nat
  BY RdParts
<1>2. n \in Nat
  BY NumVarsAssumption
<1>3. /\ {a[v] : v \in 1..n} \subseteq Ids(x)
      /\ {s[i] : i \in 1..m} \subseteq Ids(x)
      /\ Ids(x) \subseteq 1..k
  BY DEF Ids, RdOK
<1>4. Objects(x) = a \o b
  BY DEF Objects
<1>5. b = [i \in 1..m |-> s[(m - i) + 1]]
  BY DEF Reverse
<1> HIDE DEF n, a, s, b, m
<1> DEFINE I == Ids(x)
<1> HIDE DEF I
<1>6. /\ \A v \in 1..n : a[v] \in I
      /\ \A i \in 1..m : s[i] \in I
  BY <1>3 DEF I
<1>7. a \in [1..n -> I]
  BY <1>1, <1>6
<1>8. a \in Seq(I) /\ Len(a) = n
  BY <1>2, <1>7
<1>9. \A i \in 1..m : (m - i) + 1 \in 1..m
  BY <1>1
<1>10. b \in [1..m -> I]
  BY <1>5, <1>6, <1>9
<1>11. b \in Seq(I) /\ Len(b) = m
  BY <1>1, <1>10
<1>12. a \o b \in Seq(I)
  BY <1>8, <1>11, JoinedIs
<1>13. Len(a \o b) = Len(a) + Len(b)
  BY <1>8, <1>11, JoinedIs
<1>14. \A i \in 1..Len(a) : (a \o b)[i] = a[i]
  BY <1>8, <1>11, JoinedIs
<1> DEFINE c == a \o b
<1>15. c \in Seq(I) /\ Len(c) = n + m /\ \A v \in 1..n : c[v] = a[v]
  BY <1>8, <1>11, <1>12, <1>13, <1>14
<1> HIDE DEF c
<1>16. \A i \in 1..Len(c) : c[i] \in I
  BY <1>15, ElementOfSeq
<1>17. \A v \in 1..n : v \in 1..Len(c)
  BY <1>1, <1>2, <1>15
<1>18. \A i \in 1..Len(c) : c[i] \in I /\ c[i] \in 1..k
  BY <1>3, <1>16 DEF I
<1>19. Objects(x) = c
  BY <1>4 DEF c
<1> QED
  BY <1>15, <1>17, <1>18, <1>19 DEF I, n, m, a, s

\* The definitions of a ReachDefinition take in those of another.
LEMMA UnionRdIs ==
  ASSUME NEW h, HeapOK(h), NEW r \in 1..Len(h.rds), NEW q \in 1..Len(h.rds),
         Len(h.rds[r].stack) = Len(h.rds[q].stack)
  PROVE  /\ Grown(h, UnionRd(h, r, q), Ids(h.rds[r]))
         /\ \A v \in 1..NumVars : DOMAIN h.defs[h.rds[q].vars[v]]
              \subseteq DOMAIN UnionRd(h, r, q).defs[h.rds[r].vars[v]]
<1> DEFINE k == Len(h.defs)
           x == h.rds[r]
           y == h.rds[q]
           a == Objects(x)
           b == Objects(y)
           g == TakeAll(h, a, b)
<1>1. k \in Nat /\ RdOK(x, k) /\ RdOK(y, k)
  BY HeapParts
<1>2. UnionRd(h, r, q) = g
  BY DEF UnionRd, rd
<1>3. Len(x.stack) \in Nat /\ NumVars \in Nat /\ Len(x.stack) = Len(y.stack)
  BY <1>1, RdParts, NumVarsAssumption
<1> HIDE DEF x, y
<1>4. /\ Len(a) = NumVars + Len(x.stack)
      /\ \A v \in 1..NumVars : v \in 1..Len(a) /\ a[v] = x.vars[v]
      /\ \A i \in 1..Len(a) : a[i] \in 1..k /\ a[i] \in Ids(x)
  BY <1>1, ObjectsAre
<1>5. /\ Len(b) = NumVars + Len(y.stack)
      /\ \A v \in 1..NumVars : b[v] = y.vars[v]
      /\ \A i \in 1..Len(b) : b[i] \in 1..k
  BY <1>1, ObjectsAre
<1>6. Len(a) \in Nat /\ Len(a) = Len(b)
  BY <1>3, <1>4, <1>5
<1> HIDE DEF a, b
<1>7. /\ Grown(h, g, {a[i] : i \in 1..Len(a)})
      /\ \A i \in 1..Len(a) : DOMAIN h.defs[b[i]] \subseteq DOMAIN g.defs[a[i]]
  BY <1>4, <1>5, <1>6, TakeAllIs
<1> HIDE DEF g
<1>8. {a[i] : i \in 1..Len(a)} \subseteq Ids(x)
  BY <1>4
<1>9. Grown(h, g, Ids(x))
  BY <1>7, <1>8 DEF Grown
<1>10. \A v \in 1..NumVars : DOMAIN h.defs[y.vars[v]] \subseteq DOMAIN g.defs[x.vars[v]]
  BY <1>4, <1>5, <1>7
<1> QED
  BY <1>2, <1>9, <1>10 DEF x, y

\* What grows in a ReachDefinition is an operation on it.
LEMMA GrownChanges ==
  ASSUME NEW h, HeapOK(h), NEW r \in 1..Len(h.rds), NEW g, Grown(h, g, Ids(h.rds[r]))
  PROVE  Changes(h, g, {r})
<1>1. /\ Len(h.defs) \in Nat /\ Len(h.rds) \in Nat
      /\ \A q \in 1..Len(h.rds) : RdOK(h.rds[q], Len(h.defs))
  BY HeapParts
<1>2. /\ HeapOK(g) /\ g.rds = h.rds /\ Len(g.defs) = Len(h.defs)
      /\ \A c \in 1..Len(h.defs) : c \notin Ids(h.rds[r]) => g.defs[c] = h.defs[c]
  BY DEF Grown
<1>3. Len(h.defs) <= Len(g.defs) /\ Len(h.rds) <= Len(g.rds)
  BY <1>1, <1>2
<1>4. \A q \in 1..Len(g.rds) : q \in {r} \/ q > Len(h.rds) => q = r
  BY <1>1, <1>2
<1> QED
  BY <1>2, <1>3, <1>4 DEF Changes

\* The first of some ReachDefinitions takes in the others.
LEMMA UniteAllIs ==
  ASSUME NEW h, HeapOK(h), NEW q, Len(q) \in Nat \ {0},
         \A i \in 1..Len(q) : /\ q[i] \in 1..Len(h.rds)
                              /\ Len(h.rds[q[1]].stack) = Len(h.rds[q[i]].stack)
  PROVE  Grown(h, UniteAll(h, q), Ids(h.rds[q[1]]))
<1> DEFINE n == Len(q)
           r == q[1]
           A == Ids(h.rds[r])
           V == {g \in Heaps : Grown(h, g, A)}
           F == [i \in 1..n |-> [g \in V |-> UnionRd(g, r, q[i])]]
           Is(H) == H = [i \in 1..n |-> IF i = 1 THEN h ELSE UnionRd(H[i - 1], r, q[i])]
           H == CHOOSE H : Is(H)
<1>1. r \in 1..Len(h.rds) /\ n \in Nat /\ 1 <= n
  OBVIOUS
<1>2. \A i \in 1..n : \A g \in V : F[i][g] = UnionRd(g, r, q[i]) /\ F[i][g] \in V
  <2> TAKE i \in 1..n
  <2> TAKE g \in V
  <2> DEFINE c == q[i]
             k == UnionRd(g, r, c)
  <2>1. F[i][g] = k
    OBVIOUS
  <2>2. /\ HeapOK(g) /\ Grown(h, g, A) /\ g.rds = h.rds
        /\ c \in 1..Len(g.rds) /\ r \in 1..Len(g.rds)
        /\ Len(g.rds[r].stack) = Len(g.rds[c].stack)
    BY <1>1 DEF Grown
  <2>3. A = Ids(g.rds[r])
    BY <2>2
  <2> HIDE DEF c, A, F
  <2>4. Grown(g, UnionRd(g, r, c), Ids(g.rds[r]))
    <3> HIDE DEF r
    <3> QED
      BY <2>2, UnionRdIs
  <2> HIDE DEF k
  <2>5. Grown(g, k, A)
    BY <2>3, <2>4 DEF k
  <2>6. Grown(h, k, A) /\ k \in Heaps
    BY <2>2, <2>5, GrownAgain DEF Grown, HeapOK
  <2> QED
    BY <2>1, <2>6 DEF k, c
<1>3. h \in V
  BY DEF HeapOK, Grown
<1> HIDE DEF F, V
<1>4. Steps(1, n, V, F)
  <2>1. \A i \in 1..n : \A g \in V : F[i][g] \in V
    BY <1>2
  <2> HIDE DEF n
  <2>2. 1 + 1 .. n \subseteq 1..n
    BY <1>1
  <2> QED
    BY <1>1, <2>1, <2>2 DEF Steps
<1>5. PICK f \in [1..n -> V] : f[1] = h /\ \A i \in 1 + 1 .. n : f[i] = F[i][f[i - 1]]
  <2> HIDE DEF n
  <2>1. \E f \in [1..n -> V] : Stepped(f, 1, n, h, F)
    BY <1>3, <1>4, Iteration
  <2> QED
    BY <2>1 DEF Stepped
<1>6. Is(f)
  <2>1. \A i \in 1..n : i # 1 => i \in 1 + 1 .. n /\ i - 1 \in 1..n /\ f[i - 1] \in V
    BY <1>1
  <2>2. \A i \in 1..n : i # 1 => f[i] = UnionRd(f[i - 1], r, q[i])
    BY <1>2, <1>5, <2>1
  <2>3. \A i \in 1..n : f[i] = IF i = 1 THEN h ELSE UnionRd(f[i - 1], r, q[i])
    BY <1>5, <2>2
  <2> HIDE DEF n, r
  <2> QED
    BY <2>3
<1>7. Is(H)
  <2> HIDE DEF Is
  <2> QED
    BY <1>6
<1>8. UniteAll(h, q) = H[n]
  BY DEF UniteAll
<1> HIDE DEF H
<1>9. H[1] = h /\ \A i \in 1..n : i # 1 => H[i] = UnionRd(H[i - 1], r, q[i])
  <2>1. \A i \in 1..n : H[i] = IF i = 1 THEN h ELSE UnionRd(H[i - 1], r, q[i])
    BY <1>7
  <2> QED
    BY <1>1, <2>1
<1> HIDE DEF Is, n, A, r
<1> DEFINE S == {i \in Nat : i + 1 <= n => H[i + 1] \in V}
<1>10. 0 \in S
  BY <1>3, <1>9
<1>11. ASSUME NEW m \in Nat, m \in S
       PROVE  m + 1 \in S
  <2> SUFFICES ASSUME (m + 1) + 1 <= n
               PROVE  H[(m + 1) + 1] \in V
    OBVIOUS
  <2> DEFINE i == (m + 1) + 1
  <2>1. H[m + 1] \in V
    BY <1>1, <1>11
  <2>2. i \in 1..n /\ i # 1 /\ i - 1 = m + 1
    BY <1>1
  <2> HIDE DEF i
  <2>3. H[i] = UnionRd(H[m + 1], r, q[i])
    BY <1>9, <2>2
  <2>4. H[i] \in V
    BY <1>2, <2>1, <2>2, <2>3
  <2> QED
    BY <2>4 DEF i
<1>12. Nat \subseteq S
  <2> HIDE DEF S
  <2> QED
    BY <1>10, <1>11, SetInduction
<1>13. n - 1 \in S /\ (n - 1) + 1 = n
  <2>1. n - 1 \in Nat /\ (n - 1) + 1 = n
    BY <1>1
  <2> HIDE DEF S
  <2> QED
    BY <1>12, <2>1
<1>14. H[n] \in V
  BY <1>1, <1>13
<1> QED
  BY <1>8, <1>14 DEF V, A, r

-----------------------------------------------------------------------------
(* Nodes. *)

\* What the instruction of a node of each kind is.
LEMMA InstTypes ==
  ASSUME IsProgram(code), fn = code.fn, NEW n \in Nodes
  PROVE  /\ instType(n) \in {"Loop", "Block", "EndLoop", "BeginBlock"} =>
              n[2] \in Exprs /\ label(n) \in Labels
         /\ instType(n) \in {"Loop", "Block", "EndLoop", "Return"} \cup Calls => nresults(n) \in Nat
         /\ instType(n) = "Loop" => n = Inst(n[2]) /\ fn.kind[n[2]] = "Loop"
         /\ instType(n) \in Accesses => Op(n).arg \in 1..NumVars
         /\ instType(n) \in Calls => Op(n).nargs \in Nat
<1>1. /\ fn.kind \in [Exprs -> Kinds] /\ fn.label \in [Exprs -> Labels]
      /\ code.op \in [Exprs -> Ops] /\ code.nresults \in {0, 1}
      /\ \A e \in Exprs : code.op[e].inst \in Accesses => code.op[e].arg \in 1..NumVars
  BY DEF IsProgram, IsBody, IsFunction, FunctionType
<1>2. CASE n[1] \in NodeTags
  <2>1. n[2] \in Exprs
    BY <1>2 DEF Nodes, NodeTags, InstsNode, RetFunc, Trap
  <2>2. n = <<n[1], n[2]>>
    BY <1>2 DEF Nodes, NodeTags, InstsNode, RetFunc, Trap
  <2>3. label(n) \in Labels
    BY <1>1, <2>1 DEF label
  <2>4. Op(n) \in Ops
    BY <1>1, <2>1 DEF Op
  <2>5. /\ Op(n).inst \in PlainInsts \cup Calls \cup {"None"}
        /\ Op(n).nresults \in Nat /\ Op(n).nargs \in Nat
    BY <2>4 DEF Ops
  <2>6. nresults(n) \in Nat
    BY <1>1, <2>5 DEF nresults
  <2>7. Op(n).inst \in Accesses => Op(n).arg \in 1..NumVars
    BY <1>1, <2>1 DEF Op
  <2>8. instType(n) = "Loop" => n[1] = "inst" /\ fn.kind[n[2]] = "Loop"
    BY <2>5 DEF instType, PlainInsts, Calls, Accesses, Gets, Sets
  <2>9. instType(n) \in Accesses => instType(n) = Op(n).inst
    <3>1. n[1] = "inst" /\ fn.kind[n[2]] \notin {"Block", "Plain"} => instType(n) \notin Accesses
      <4>1. fn.kind[n[2]] \in Kinds
        BY <1>1, <2>1
      <4>2. n[1] = "inst" /\ fn.kind[n[2]] \notin {"Block", "Plain"} => instType(n) = fn.kind[n[2]]
        BY DEF instType
      <4>3. \A k \in Kinds : k \notin Accesses
        BY DEF Kinds, Structured, Branches, Calls, Accesses, Gets, Sets
      <4> QED
        BY <4>1, <4>2, <4>3
    <3>2. n[1] # "inst" \/ fn.kind[n[2]] = "Block" => instType(n) \notin Accesses
      BY <1>2 DEF instType, NodeTags, Accesses, Gets, Sets
    <3>3. n[1] = "inst" /\ fn.kind[n[2]] = "Plain" => instType(n) = Op(n).inst
      BY DEF instType
    <3> QED
      BY <3>1, <3>2, <3>3
  <2> QED
    BY <2>1, <2>2, <2>3, <2>5, <2>6, <2>7, <2>8, <2>9 DEF Inst
<1>3. CASE n[1] \notin NodeTags
  <2>1. n \in {InstsNode, RetFunc, Trap}
    BY <1>3 DEF Nodes
  <2>2. instType(n) \in {"Return", "None"} /\ (instType(n) = "Return" => n = RetFunc)
    BY <2>1 DEF instType, InstsNode, RetFunc, Trap
  <2>3. instType(n) = "Return" => nresults(n) \in Nat
    BY <1>1, <2>2 DEF nresults
  <2> QED
    BY <2>2, <2>3 DEF Calls, Accesses, Gets, Sets
<1> QED
  BY <1>2, <1>3

-----------------------------------------------------------------------------
(* What a visit does to the stacks that come in. *)

\* y is x with another stack and other labels, and no pointer that x has not.
Less(x, y, k) == RdOK(y, k) /\ Ids(y) \subseteq Ids(x) /\ y.vars = x.vars

\* A ReachDefinition with another stack and other labels.
LEMMA LessIs ==
  ASSUME NEW k \in Nat, NEW x, RdOK(x, k), NEW s \in Seq(1..k), NEW l \in Seq(Entries),
         Ordered(ReachDef(x.vars, s, l)), \A i \in 1..Len(s) : s[i] \in Ids(x)
  PROVE  Less(x, ReachDef(x.vars, s, l), k)
<1> DEFINE v == x.vars
<1>1. v \in [1..NumVars -> 1..k] /\ Ordered(ReachDef(v, s, l))
  BY RdParts
<1> HIDE DEF v
<1>2. /\ RdOK(ReachDef(v, s, l), k)
      /\ Ids(ReachDef(v, s, l)) = {v[i] : i \in 1..NumVars} \cup {s[i] : i \in 1..Len(s)}
  BY <1>1, RdOfParts
<1>3. {v[i] : i \in 1..NumVars} \subseteq Ids(x)
  BY DEF Ids, v
<1>4. ReachDef(v, s, l).vars = v
  BY DEF ReachDef
<1> QED
  BY <1>2, <1>3, <1>4 DEF Less, v

\* The first part of the stack and of the labels.
LEMMA Shortened ==
  ASSUME NEW k \in Nat, NEW x, RdOK(x, k),
         NEW m \in Nat, m <= Len(x.stack), NEW n \in Nat, n <= Len(x.labels),
         \A i \in 1..n : x.labels[i].pointer <= m
  PROVE  /\ Less(x, ReachDef(x.vars, SubSeq(x.stack, 1, m), SubSeq(x.labels, 1, n)), k)
         /\ Len(SubSeq(x.stack, 1, m)) = m
<1> DEFINE a == x.stack
           b == x.labels
           s == SubSeq(a, 1, m)
           l == SubSeq(b, 1, n)
<1>1. /\ a \in Seq(1..k) /\ b \in Seq(Entries) /\ m <= Len(a) /\ n <= Len(b)
      /\ Len(a) \in Nat /\ Len(b) \in Nat
      /\ \A i \in 1..Len(b) : \A j \in 1..i : b[j].pointer <= b[i].pointer
      /\ \A i \in 1..n : b[i].pointer <= m
  BY RdParts DEF Ordered
<1>2. \A i \in 1..Len(a) : a[i] \in Ids(x)
  BY DEF Ids
<1> HIDE DEF a, b
<1>3. s \in Seq(1..k) /\ Len(s) = m /\ \A i \in 1..m : s[i] = a[i]
  BY <1>1, FirstElements
<1>4. l \in Seq(Entries) /\ Len(l) = n /\ \A i \in 1..n : l[i] = b[i]
  BY <1>1, FirstElements
<1> HIDE DEF s, l
<1>5. \A i \in 1..m : i \in 1..Len(a)
  BY <1>1
<1>6. \A i \in 1..Len(s) : s[i] \in Ids(x)
  BY <1>2, <1>3, <1>5
<1>7. \A i \in 1..n : i \in 1..Len(b) /\ \A j \in 1..i : j \in 1..n
  BY <1>1
<1>8. Ordered(ReachDef(x.vars, s, l))
  BY <1>1, <1>3, <1>4, <1>7 DEF Ordered, ReachDef
<1>9. Less(x, ReachDef(x.vars, s, l), k)
  BY <1>3, <1>4, <1>6, <1>8, LessIs
<1> QED
  BY <1>3, <1>9 DEF s, l, a, b

\* A label less, with what is above it.
LEMMA PopLabelIs ==
  ASSUME NEW k \in Nat, NEW x, RdOK(x, k), NEW name, containsLabel(x, name)
  PROVE  Less(x, popLabel(x, name), k)
<1> DEFINE b == x.labels
           S == {i \in DOMAIN b : b[i].name = name}
           i == MaxOf(S)
           m == b[i].pointer
           n == i - 1
<1>1. /\ Len(b) \in Nat /\ DOMAIN b = 1..Len(b)
      /\ \A j \in 1..Len(b) : b[j] \in Entries
      /\ Ordered(x)
  BY RdParts
<1>2. S # {} /\ S \in SUBSET Nat /\ \A j \in S : j <= Len(b)
  BY <1>1 DEF containsLabel
<1>3. i \in S
  <2> HIDE DEF S, b
  <2> QED
    BY <1>1, <1>2, GreatestIs
<1>4. i \in 1..Len(b)
  BY <1>1, <1>3
<1> HIDE DEF i
<1>5. m \in Nat /\ m <= Len(x.stack) /\ \A j \in 1..i : b[j].pointer <= m
  BY <1>1, <1>4 DEF Ordered, Entries
<1>6. n \in Nat /\ n <= Len(b) /\ \A j \in 1..n : j \in 1..i
  BY <1>1, <1>4
<1> HIDE DEF m, n
<1>7. Less(x, ReachDef(x.vars, SubSeq(x.stack, 1, m), SubSeq(x.labels, 1, n)), k)
  BY <1>5, <1>6, Shortened
<1> QED
  BY <1>7 DEF popLabel, m, n, i

\* One more label.
LEMMA PushLabelIs ==
  ASSUME NEW k \in Nat, NEW x, RdOK(x, k), NEW name \in Labels
  PROVE  Less(x, pushLabel(x, name), k)
<1> DEFINE s == x.stack
           b == x.labels
           e == [name |-> name, pointer |-> Len(s)]
           l == Append(b, e)
<1>1. /\ s \in Seq(1..k) /\ Len(s) \in Nat /\ b \in Seq(Entries) /\ Len(b) \in Nat
      /\ x = [vars |-> x.vars, stack |-> s, labels |-> b]
      /\ \A i \in 1..Len(b) : /\ b[i].pointer <= Len(s)
                              /\ \A j \in 1..i : b[j].pointer <= b[i].pointer
  BY RdParts DEF Ordered
<1>2. pushLabel(x, name) = [x EXCEPT !.labels = l]
  BY <1>1 DEF pushLabel
<1>3. \A i \in 1..Len(s) : s[i] \in Ids(x)
  BY DEF Ids
<1>4. e \in Entries /\ e.pointer = Len(s)
  BY <1>1 DEF Entries
<1> HIDE DEF s, b, e
<1>5. /\ l \in Seq(Entries) /\ Len(l) = Len(b) + 1 /\ l[Len(b) + 1] = e
      /\ \A i \in 1..Len(b) : l[i] = b[i]
  BY <1>1, <1>4, AppendIsSeq
<1> HIDE DEF l
<1>6. \A i \in 1..Len(l) : i \in 1..Len(b) \/ i = Len(b) + 1
  BY <1>1, <1>5
<1>7. \A i \in 1..Len(l) : /\ l[i].pointer <= Len(s)
                           /\ \A j \in 1..i : l[j].pointer <= l[i].pointer
  <2>1. \A i \in 1..Len(l) : l[i].pointer <= Len(s)
    BY <1>1, <1>4, <1>5, <1>6
  <2>2. ASSUME NEW i \in 1..Len(l), NEW j \in 1..i
        PROVE  l[j].pointer <= l[i].pointer
    <3>1. CASE i \in 1..Len(b)
      BY SMTT(30), <1>1, <1>5, <3>1
    <3>2. CASE i = Len(b) + 1
      BY <1>1, <1>4, <1>5, <2>1, <3>2
    <3> QED
      BY <1>6, <3>1, <3>2
  <2> QED
    BY <2>1, <2>2
<1>8. Ordered(ReachDef(x.vars, s, l))
  BY <1>7 DEF Ordered, ReachDef
<1>9. Less(x, ReachDef(x.vars, s, l), k)
  BY <1>1, <1>3, <1>5, <1>8, LessIs
<1>10. [x EXCEPT !.labels = l] = ReachDef(x.vars, s, l)
  <2> DEFINE v == x.vars
  <2>1. x = [vars |-> v, stack |-> s, labels |-> b]
    BY <1>1
  <2> HIDE DEF v
  <2>2. [x EXCEPT !.labels = l] = [vars |-> v, stack |-> s, labels |-> l]
    BY <2>1, RdExcept
  <2> QED
    BY <2>2 DEF ReachDef, v
<1> QED
  BY <1>2, <1>9, <1>10

\* Less than less is less.
LEMMA LessThanLess ==
  ASSUME NEW x, NEW y, NEW z, NEW k, Less(x, y, k), Less(y, z, k)
  PROVE  Less(x, z, k)
BY DEF Less

\* The stack without some operands above the labels.
LEMMA CutIs ==
  ASSUME NEW k \in Nat, NEW x, RdOK(x, k), NEW n \in Nat, n <= stackSize(x)
  PROVE  /\ Less(x, [x EXCEPT !.stack = SubSeq(@, 1, Len(x.stack) - n)], k)
         /\ [x EXCEPT !.stack = SubSeq(@, 1, Len(x.stack) - n)].labels = x.labels
         /\ Len(x.stack) - n \in Nat /\ (Len(x.stack) - n) + n = Len(x.stack)
<1> DEFINE s == x.stack
           b == x.labels
           t == Len(s)
           z == stackSize(x)
           m == t - n
           c == SubSeq(s, 1, m)
<1>1. /\ s \in Seq(1..k) /\ t \in Nat /\ b \in Seq(Entries) /\ Len(b) \in Nat
      /\ x = [vars |-> x.vars, stack |-> s, labels |-> b]
      /\ \A i \in 1..Len(b) : b[i] \in Entries
      /\ \A i \in 1..Len(b) : \A j \in 1..i : b[j].pointer <= b[i].pointer
  BY RdParts DEF Ordered
<1>2. z \in 0..t /\ \A i \in 1..Len(b) : b[i].pointer <= t - z
  BY StackSizeIs
<1>3. \A i \in 1..Len(s) : s[i] \in Ids(x)
  BY DEF Ids
<1>4. n <= z
  OBVIOUS
<1> HIDE DEF s, b, z
<1>5. m \in Nat /\ m <= t /\ m + n = t
  BY <1>1, <1>2, <1>4
<1>6. \A i \in 1..Len(b) : b[i].pointer <= m
  <2> TAKE i \in 1..Len(b)
  <2> DEFINE q == b[i].pointer
  <2>1. q \in Nat /\ q <= t - z
    BY <1>1, <1>2 DEF Entries
  <2> HIDE DEF q
  <2>2. q <= m
    BY <1>1, <1>2, <1>4, <2>1
  <2> QED
    BY <2>2 DEF q
<1> HIDE DEF m
<1>7. c \in Seq(1..k) /\ Len(c) = m /\ \A i \in 1..m : c[i] = s[i]
  BY <1>1, <1>5, FirstElements
<1> HIDE DEF c
<1>8. \A i \in 1..m : i \in 1..Len(s)
  BY <1>1, <1>5
<1>9. \A i \in 1..Len(c) : c[i] \in Ids(x)
  BY <1>3, <1>7, <1>8
<1>10. Ordered(ReachDef(x.vars, c, b))
  BY <1>1, <1>6, <1>7 DEF Ordered, ReachDef
<1>11. Less(x, ReachDef(x.vars, c, b), k)
  BY <1>1, <1>7, <1>9, <1>10, LessIs
<1>12. [x EXCEPT !.stack = c] = ReachDef(x.vars, c, b)
  <2> DEFINE v == x.vars
  <2>1. x = [vars |-> v, stack |-> s, labels |-> b]
    BY <1>1
  <2> HIDE DEF v
  <2>2. [x EXCEPT !.stack = c] = [vars |-> v, stack |-> c, labels |-> b]
    BY <2>1, RdExcept
  <2> QED
    BY <2>2 DEF ReachDef, v
<1>13. [x EXCEPT !.stack = SubSeq(@, 1, Len(x.stack) - n)] = [x EXCEPT !.stack = c]
  BY <1>1 DEF c, m, s
<1>14. ReachDef(x.vars, c, b).labels = b
  BY DEF ReachDef
<1> QED
  BY <1>5, <1>11, <1>12, <1>13, <1>14 DEF m, s, b

\* A stack with operands of another put on it.
LEMMA PutBack ==
  ASSUME NEW k \in Nat, NEW x, RdOK(x, k), NEW y, Less(x, y, k),
         NEW m \in Nat, NEW n \in Nat, m + n <= Len(x.stack)
  PROVE  Less(x, [y EXCEPT !.stack = @ \o SubSeq(x.stack, m + 1, m + n)], k)
<1> DEFINE a == x.stack
           s == y.stack
           b == y.labels
           c == SubSeq(a, m + 1, m + n)
           d == s \o c
<1>1. a \in Seq(1..k) /\ Len(a) \in Nat /\ \A i \in 1..Len(a) : a[i] \in Ids(x)
  BY RdParts DEF Ids
<1>2. RdOK(y, k) /\ Ids(y) \subseteq Ids(x) /\ y.vars = x.vars
  BY DEF Less
<1>3. /\ s \in Seq(1..k) /\ Len(s) \in Nat /\ b \in Seq(Entries) /\ Len(b) \in Nat
      /\ \A i \in 1..Len(b) : b[i] \in Entries
      /\ y = [vars |-> y.vars, stack |-> s, labels |-> b]
      /\ \A i \in 1..Len(b) : /\ b[i].pointer <= Len(s)
                              /\ \A j \in 1..i : b[j].pointer <= b[i].pointer
  BY <1>2, RdParts DEF Ordered
<1>4. \A i \in 1..Len(s) : s[i] \in Ids(x)
  BY <1>2 DEF Ids
<1>5. m + n <= Len(a)
  OBVIOUS
<1> HIDE DEF a, s, b
<1>6. m + 1 \in 1 .. Len(a) + 1 /\ m + n \in m .. Len(a)
  BY <1>1, <1>5
<1> DEFINE I == Ids(x)
           J == 1..k
<1> HIDE DEF I, J
<1>7. a \in Seq(J)
  BY <1>1 DEF J
<1>8. a \in Seq(I) /\ s \in Seq(I) /\ s \in Seq(J)
  BY <1>1, <1>3, <1>4, SeqOfElements DEF I, J
<1>9. c \in Seq(I) /\ c \in Seq(J)
  <2>1. \A i \in m + 1 .. m + n : i \in 1..Len(a)
    BY <1>1, <1>5
  <2>2. \A i \in m + 1 .. m + n : a[i] \in I /\ a[i] \in J
    BY <1>7, <1>8, <2>1, ElementOfSeq
  <2> QED
    BY <1>1, <1>6, <1>7, <1>8, <2>2, SubSeqProperties
<1> HIDE DEF c
<1>10. d \in Seq(I)
  BY <1>8, <1>9, JoinedIs
<1>11. d \in Seq(J)
  BY <1>8, <1>9, JoinedIs
<1>12. Len(d) = Len(s) + Len(c) /\ Len(c) \in Nat
  BY <1>8, <1>9, JoinedIs, LenProperties
<1> HIDE DEF d
<1>13. \A i \in 1..Len(d) : d[i] \in Ids(x)
  BY <1>10, ElementOfSeq DEF I
<1>14. \A i \in 1..Len(b) : b[i].pointer <= Len(d)
  <2>1. \A i \in 1..Len(b) : b[i].pointer \in Nat
    BY <1>3 DEF Entries
  <2> QED
    BY <1>3, <1>12, <2>1
<1>15. Ordered(ReachDef(x.vars, d, b))
  BY <1>3, <1>14 DEF Ordered, ReachDef
<1>16. Less(x, ReachDef(x.vars, d, b), k)
  BY <1>3, <1>11, <1>13, <1>15, LessIs DEF J
<1>17. [y EXCEPT !.stack = d] = ReachDef(x.vars, d, b)
  <2> DEFINE v == y.vars
  <2>1. y = [vars |-> v, stack |-> s, labels |-> b]
    BY <1>3
  <2> HIDE DEF v
  <2>2. [y EXCEPT !.stack = d] = [vars |-> v, stack |-> d, labels |-> b]
    BY <2>1, RdExcept
  <2> QED
    BY <1>2, <2>2 DEF ReachDef, v
<1>18. [y EXCEPT !.stack = @ \o SubSeq(x.stack, m + 1, m + n)] = [y EXCEPT !.stack = d]
  BY <1>3 DEF d, c, a, s
<1> QED
  BY <1>16, <1>17, <1>18

\* The asserts on a ReachDefinition x that comes to node n.
MayEnter(n, x) ==
  /\ instType(n) \in {"Block", "EndLoop"} =>
       stackSize(x) >= nresults(n) /\ containsLabel(x, label(n))
  /\ instType(n) = "Return" => stackSize(x) >= nresults(n)

\* It is made ready for the visit.
LEMMA SettledIs ==
  ASSUME IsProgram(code), fn = code.fn, NEW n \in Nodes,
         NEW k \in Nat, NEW x, RdOK(x, k), MayEnter(n, x)
  PROVE  Less(x, Settled(n, x), k)
<1> DEFINE cut(j) == [x EXCEPT !.stack = SubSeq(@, 1, Len(x.stack) - j)]
           back(y, j) == [y EXCEPT !.stack = @ \o SubSeq(x.stack, (Len(x.stack) - j) + 1,
                                                          (Len(x.stack) - j) + j)]
<1>1. ASSUME NEW j \in Nat, j <= stackSize(x)
      PROVE  /\ Less(x, cut(j), k) /\ RdOK(cut(j), k) /\ cut(j).labels = x.labels
             /\ \A y : Less(cut(j), y, k) => Less(x, back(y, j), k)
  <2>1. /\ Less(x, cut(j), k) /\ cut(j).labels = x.labels
        /\ Len(x.stack) - j \in Nat /\ (Len(x.stack) - j) + j = Len(x.stack)
    BY <1>1, CutIs
  <2>2. Len(x.stack) \in Nat
    BY RdParts
  <2> HIDE DEF cut
  <2>3. ASSUME NEW y, Less(cut(j), y, k)
        PROVE  Less(x, back(y, j), k)
    <3>1. Less(x, y, k)
      BY <2>1, <2>3, LessThanLess
    <3> DEFINE m == Len(x.stack) - j
    <3>2. m \in Nat /\ m + j <= Len(x.stack)
      BY <2>1, <2>2
    <3> HIDE DEF m
    <3>3. Less(x, [y EXCEPT !.stack = @ \o SubSeq(x.stack, m + 1, m + j)], k)
      BY <3>1, <3>2, PutBack
    <3> QED
      BY <3>3 DEF m
  <2> QED
    BY <2>1, <2>3 DEF Less
<1>2. CASE instType(n) = "Loop"
  <2> DEFINE j == IF nresults(n) < stackSize(x) THEN nresults(n) ELSE stackSize(x)
             y == cut(j)
             z == IF loops[n] # 0 /\ containsLabel(y, label(n))
                  THEN popLabel(y, label(n)) ELSE y
  <2>1. nresults(n) \in Nat /\ label(n) \in Labels
    BY <1>2, InstTypes
  <2>2. stackSize(x) \in 0..Len(x.stack) /\ Len(x.stack) \in Nat
    BY StackSizeIs, RdParts
  <2>3. j \in Nat /\ j <= stackSize(x)
    BY <2>1, <2>2
  <2>4. Settled(n, x) = back(pushLabel(z, label(n)), j)
    BY <1>2 DEF Settled, SettledLoop, Under
  <2> HIDE DEF j, cut, back
  <2>5. RdOK(y, k) /\ \A u : Less(y, u, k) => Less(x, back(u, j), k)
    BY <1>1, <2>3
  <2> HIDE DEF y
  <2>6. Less(y, z, k)
    <3>1. Less(y, y, k)
      BY <2>5 DEF Less
    <3>2. containsLabel(y, label(n)) => Less(y, popLabel(y, label(n)), k)
      BY <2>5, PopLabelIs
    <3> QED
      BY <3>1, <3>2
  <2> HIDE DEF z
  <2>7. Less(z, pushLabel(z, label(n)), k)
    BY <2>1, <2>6, PushLabelIs DEF Less
  <2>8. Less(y, pushLabel(z, label(n)), k)
    BY <2>6, <2>7, LessThanLess
  <2> QED
    BY <2>4, <2>5, <2>8
<1>3. CASE instType(n) \in {"Block", "EndLoop"}
  <2> DEFINE j == nresults(n)
             y == cut(j)
             z == popLabel(y, label(n))
  <2>1. j \in Nat
    BY <1>3, InstTypes
  <2>2. stackSize(x) \in Nat
    <3>1. stackSize(x) \in 0..Len(x.stack) /\ Len(x.stack) \in Nat
      BY StackSizeIs, RdParts
    <3> QED
      BY <3>1
  <2>3. j <= stackSize(x) /\ containsLabel(x, label(n))
    BY <1>3, <2>1, <2>2 DEF MayEnter
  <2>4. Settled(n, x) = back(z, j)
    BY <1>3 DEF Settled, Under
  <2> HIDE DEF j, cut, back
  <2>5. /\ RdOK(y, k) /\ y.labels = x.labels
        /\ \A u : Less(y, u, k) => Less(x, back(u, j), k)
    BY <1>1, <2>1, <2>3
  <2> HIDE DEF y
  <2>6. containsLabel(y, label(n))
    BY <2>3, <2>5 DEF containsLabel
  <2>7. Less(y, z, k)
    BY <2>5, <2>6, PopLabelIs
  <2> QED
    BY <2>4, <2>5, <2>7
<1>4. CASE instType(n) = "Return"
  <2> DEFINE j == nresults(n)
             y == cut(j)
             z == ReachDef(y.vars, <<>>, <<>>)
  <2>1. j \in Nat
    BY <1>4, InstTypes
  <2>2. stackSize(x) \in Nat
    <3>1. stackSize(x) \in 0..Len(x.stack) /\ Len(x.stack) \in Nat
      BY StackSizeIs, RdParts
    <3> QED
      BY <3>1
  <2>3. j <= stackSize(x)
    BY <1>4, <2>1, <2>2 DEF MayEnter
  <2>4. Settled(n, x) = back(z, j)
    BY <1>4 DEF Settled, Under
  <2> HIDE DEF j, cut, back
  <2>5. RdOK(y, k) /\ \A u : Less(y, u, k) => Less(x, back(u, j), k)
    BY <1>1, <2>1, <2>3
  <2> HIDE DEF y
  <2>6. Less(y, z, k)
    <3> DEFINE e == <<>>
    <3>1. e \in Seq(1..k) /\ e \in Seq(Entries) /\ Len(e) = 0
      OBVIOUS
    <3> HIDE DEF e
    <3>2. Ordered(ReachDef(y.vars, e, e))
      BY <3>1 DEF Ordered, ReachDef
    <3>3. \A i \in 1..Len(e) : e[i] \in Ids(y)
      BY <3>1
    <3>4. Less(y, ReachDef(y.vars, e, e), k)
      BY <2>5, <3>1, <3>2, <3>3, LessIs
    <3> QED
      BY <3>4 DEF e
  <2> QED
    BY <2>4, <2>5, <2>6
<1>5. CASE instType(n) \notin {"Loop", "Block", "EndLoop", "Return"}
  <2>1. Settled(n, x) = x
    BY <1>5 DEF Settled
  <2> QED
    BY <2>1 DEF Less
<1> QED
  BY <1>2, <1>3, <1>4, <1>5

\* All that have come in are made ready.
LEMMA SettledHeapIs ==
  ASSUME IsProgram(code), fn = code.fn, Here \in Nodes, HeapOK(heap),
         reach[Here] \subseteq 1..Len(heap.rds),
         \A r \in reach[Here] : MayEnter(Here, heap.rds[r])
  PROVE  /\ Changes(heap, SettledHeap, reach[Here])
         /\ SettledHeap.defs = heap.defs
         /\ Len(SettledHeap.rds) = Len(heap.rds)
         /\ \A r \in 1..Len(heap.rds) : SettledHeap.rds[r].vars = heap.rds[r].vars
<1> DEFINE R == reach[Here]
           k == Len(heap.defs)
           l == Len(heap.rds)
           rs == [i \in DOMAIN heap.rds |->
                    IF i \in R THEN Settled(Here, rd(heap, i)) ELSE rd(heap, i)]
           g == SettledHeap
<1>1. /\ k \in Nat /\ l \in Nat /\ heap.defs \in Seq(Defs) /\ DOMAIN heap.rds = 1..l
      /\ heap = [defs |-> heap.defs, rds |-> heap.rds]
      /\ \A r \in 1..l : RdOK(heap.rds[r], k)
  BY HeapParts
<1>2. \A i \in 1..l : rs[i] = IF i \in R THEN Settled(Here, heap.rds[i]) ELSE heap.rds[i]
  BY <1>1 DEF rd
<1>3. g = [heap EXCEPT !.rds = rs]
  BY DEF SettledHeap
<1>4. rs = [i \in 1..l |-> rs[i]]
  BY <1>1
<1> HIDE DEF rs
<1>5. g = [defs |-> heap.defs, rds |-> rs]
  <2> DEFINE ds == heap.defs
             os == heap.rds
  <2>1. heap = [defs |-> ds, rds |-> os]
    BY <1>1
  <2> HIDE DEF ds, os, g
  <2>2. [heap EXCEPT !.rds = rs] = [defs |-> ds, rds |-> rs]
    BY <2>1, HeapExcept
  <2> QED
    BY <1>3, <2>2 DEF ds
<1>6. \A i \in 1..l : Less(heap.rds[i], rs[i], k)
  <2> TAKE i \in 1..l
  <2> DEFINE x == heap.rds[i]
  <2>1. RdOK(x, k)
    BY <1>1
  <2>2. i \in R => MayEnter(Here, x)
    OBVIOUS
  <2>3. rs[i] = IF i \in R THEN Settled(Here, x) ELSE x
    BY <1>2
  <2> HIDE DEF x, R
  <2>4. i \in R => Less(x, Settled(Here, x), k)
    <3> SUFFICES ASSUME i \in R PROVE Less(x, Settled(Here, x), k)
      OBVIOUS
    <3> DEFINE n == Here
    <3>1. n \in Nodes /\ MayEnter(n, x)
      BY <2>2
    <3> HIDE DEF n
    <3>2. Less(x, Settled(n, x), k)
      BY <1>1, <2>1, <3>1, SettledIs
    <3> QED
      BY <3>2 DEF n
  <2>5. Less(x, x, k)
    BY <2>1 DEF Less
  <2> QED
    BY <2>3, <2>4, <2>5 DEF x
<1>7. rs \in Seq(Rds) /\ Len(rs) = l
  <2>1. \A i \in 1..l : rs[i] \in Rds
    BY <1>6 DEF Less, RdOK
  <2>2. rs \in [1..l -> Rds]
    BY <1>4, <2>1
  <2> HIDE DEF l
  <2> QED
    BY <1>1, <2>2
<1> HIDE DEF R, k, l
<1>8. g.defs = heap.defs /\ g.rds = rs
  BY <1>5
<1>9. HeapOK(g)
  <2>1. g \in Heaps
    BY <1>1, <1>5, <1>7 DEF Heaps
  <2> QED
    BY <1>6, <1>7, <1>8, <2>1 DEF HeapOK, Less, k
<1> HIDE DEF g
<1>10. \A q \in 1..Len(g.rds) : q \in 1..l /\ ~(q > l)
  BY <1>1, <1>7, <1>8
<1>11. \A q \in 1..l : q \notin R => g.rds[q] = heap.rds[q]
  BY <1>2, <1>8 DEF l
<1>12. \A q \in 1..l : Ids(g.rds[q]) \subseteq Ids(heap.rds[q])
  BY <1>6, <1>8 DEF Less
<1>13. Changes(heap, g, R)
  <2>1. Len(heap.defs) <= Len(g.defs) /\ Len(heap.rds) <= Len(g.rds)
    BY <1>1, <1>7, <1>8 DEF k, l
  <2>2. \A q \in 1..Len(g.rds) : q \in R \/ q > Len(heap.rds) =>
          q \in R /\ Ids(g.rds[q]) \subseteq Ids(heap.rds[q])
    BY <1>10, <1>12 DEF l
  <2>3. \A q \in 1..Len(heap.rds) : q \notin R => g.rds[q] = heap.rds[q]
    BY <1>11 DEF l
  <2> QED
    BY <1>8, <1>9, <2>1, <2>2, <2>3 DEF Changes
<1> QED
  BY <1>6, <1>7, <1>8, <1>13 DEF Less, g, R, l

-----------------------------------------------------------------------------
(* What is gathered. *)

\* A node of a program is visited, and what comes in leads to objects.
Visited == /\ IsProgram(code) /\ fn = code.fn /\ HeapOK(heap) /\ Here \in Nodes
           /\ reach[Here] \subseteq 1..Len(heap.rds)

\* What the visit starts with is one of those that have come in, on which all
\* the operands are that it takes.
LEMMA GatheredIs ==
  ASSUME Visited, Asserts, NEW g \in Gathered
  PROVE  /\ g.rd \in reach[Here] /\ g.rd \in 1..Len(heap.rds)
         /\ Changes(heap, g.heap, reach[Here]) /\ HeapOK(g.heap)
         /\ Len(g.heap.rds) = Len(heap.rds)
         /\ \A r \in 1..Len(heap.rds) : g.heap.rds[r].vars = heap.rds[r].vars
         /\ stackSize(g.heap.rds[g.rd]) >= Needs(Here)
<1> DEFINE R == reach[Here]
           h == SettledHeap
           l == Len(heap.rds)
<1>1. R # {} /\ R \subseteq 1..l /\ \A r \in R : MayEnter(Here, heap.rds[r])
  BY DEF Visited, Asserts, MayEnter, rd
<1>2. /\ Changes(heap, h, R) /\ Len(h.rds) = l
      /\ \A r \in 1..l : h.rds[r].vars = heap.rds[r].vars
  BY <1>1, SettledHeapIs DEF Visited
<1>3. /\ \A r, q \in R : Len(h.rds[r].stack) = Len(h.rds[q].stack)
      /\ \A r \in R : stackSize(h.rds[r]) >= Needs(Here)
  BY DEF Asserts, Unites, rd
<1>4. l \in Nat /\ HeapOK(h)
  BY <1>2, HeapParts DEF Visited, Changes
<1> HIDE DEF R, l
<1>5. IsFiniteSet(R)
  <2>1. IsFiniteSet(1..l)
    BY <1>4, FS_Interval
  <2> QED
    BY <1>1, <2>1, FS_Subset
<1>6. Cardinality(R) \in Nat \ {0}
  BY <1>1, <1>5, FS_CardinalityType, FS_EmptySet
<1>7. PICK q \in SetToSeqs(R) : g = [rd |-> q[1], heap |-> UniteAll(h, q)]
  BY DEF Gathered, R
<1>8. q \in [1..Cardinality(R) -> R]
  BY <1>7 DEF SetToSeqs
<1>9. Len(q) \in Nat \ {0} /\ \A i \in 1..Len(q) : q[i] \in R
  <2> DEFINE c == Cardinality(R)
  <2> HIDE DEF c
  <2>1. q \in [1..c -> R] /\ c \in Nat \ {0}
    BY <1>6, <1>8 DEF c
  <2>2. Len(q) = c
    BY <2>1
  <2> QED
    BY <2>1, <2>2
<1> DEFINE r == q[1]
           k == UniteAll(h, q)
<1>10. r \in R /\ g.rd = r /\ g.heap = k
  BY <1>7, <1>9
<1>11. \A i \in 1..Len(q) : q[i] \in 1..Len(h.rds) /\ Len(h.rds[r].stack) = Len(h.rds[q[i]].stack)
  BY <1>1, <1>2, <1>3, <1>9, <1>10
<1> HIDE DEF h
<1>12. Grown(h, k, Ids(h.rds[r]))
  BY <1>4, <1>9, <1>11, UniteAllIs
<1> HIDE DEF k, r
<1>13. r \in 1..Len(h.rds)
  BY <1>1, <1>2, <1>10
<1>14. Changes(h, k, {r})
  BY <1>4, <1>12, <1>13, GrownChanges
<1>15. Changes(heap, k, R)
  <2> DEFINE S == {r}
  <2>1. S \in SUBSET (1..Len(h.rds)) /\ \A i \in S : i \in R \/ i > Len(heap.rds)
    BY <1>10, <1>13
  <2>2. Changes(h, k, S)
    BY <1>14
  <2> HIDE DEF S
  <2>3. HeapOK(heap) /\ R \in SUBSET (1..Len(heap.rds))
    BY <1>1 DEF Visited, l
  <2> QED
    BY <1>2, <2>1, <2>2, <2>3, ChangesAfterChanges
<1>16. HeapOK(k) /\ k.rds = h.rds
  BY <1>12 DEF Grown
<1> QED
  BY <1>1, <1>2, <1>3, <1>10, <1>15, <1>16 DEF R, l, h

-----------------------------------------------------------------------------
(* The effects of visits. *)

\* Two operations on the same ReachDefinition.
LEMMA ThenChanges ==
  ASSUME NEW h, HeapOK(h), NEW r \in 1..Len(h.rds), NEW g, Changes(h, g, {r}),
         NEW k, Changes(g, k, {r})
  PROVE  Changes(h, k, {r})
<1> DEFINE R == {r}
<1>1. Len(h.rds) \in Nat /\ Len(g.rds) \in Nat /\ Len(h.rds) <= Len(g.rds)
  BY HeapParts DEF Changes
<1>2. /\ R \in SUBSET (1..Len(h.rds)) /\ R \in SUBSET (1..Len(g.rds))
      /\ \A q \in R : q \in R \/ q > Len(h.rds)
  BY <1>1
<1>3. Changes(h, g, R) /\ Changes(g, k, R)
  OBVIOUS
<1> HIDE DEF R
<1>4. Changes(h, k, R)
  BY <1>2, <1>3, ChangesAfterChanges
<1> QED
  BY <1>4 DEF R

\* An operation leaves room for another.
LEMMA StillThere ==
  ASSUME NEW h, HeapOK(h), NEW R, NEW g, Changes(h, g, R), NEW r \in 1..Len(h.rds)
  PROVE  HeapOK(g) /\ r \in 1..Len(g.rds)
<1>1. Len(h.rds) \in Nat /\ Len(g.rds) \in Nat /\ Len(h.rds) <= Len(g.rds)
  BY HeapParts DEF Changes
<1> QED
  BY <1>1 DEF Changes

\* Operands off the stack and one on it.
LEMMA PopPushChanges ==
  ASSUME NEW h, HeapOK(h), NEW r \in 1..Len(h.rds),
         NEW n \in Nat, n <= stackSize(h.rds[r]), NEW d \in Defs
  PROVE  Changes(h, push(pop(h, r, n), r, d), {r})
<1> DEFINE g == pop(h, r, n)
<1>1. Changes(h, g, {r})
  BY PopChanges
<1> HIDE DEF g
<1>2. HeapOK(g) /\ r \in 1..Len(g.rds)
  BY <1>1, StillThere
<1>3. Changes(g, push(g, r, d), {r})
  BY <1>2, PushChanges
<1>4. Changes(h, push(g, r, d), {r})
  BY <1>1, <1>3, ThenChanges
<1> QED
  BY <1>4 DEF g

\* A definition replaced, operands off the stack and one on it.
LEMMA PutPopPushChanges ==
  ASSUME NEW h, HeapOK(h), NEW r \in 1..Len(h.rds), NEW a \in Ids(h.rds[r]),
         NEW n \in Nat, n <= stackSize(h.rds[r]), NEW d \in Defs
  PROVE  Changes(h, push(pop(Put(h, a, d), r, n), r, d), {r})
<1> DEFINE g == Put(h, a, d)
<1>1. Changes(h, g, {r})
  BY PutChanges
<1>2. g.rds = h.rds
  BY PutIs
<1> HIDE DEF g
<1>3. HeapOK(g) /\ r \in 1..Len(g.rds) /\ n <= stackSize(g.rds[r])
  BY <1>1, <1>2, StillThere
<1>4. Changes(g, push(pop(g, r, n), r, d), {r})
  BY <1>3, PopPushChanges
<1>5. Changes(h, push(pop(g, r, n), r, d), {r})
  BY <1>1, <1>4, ThenChanges
<1> QED
  BY <1>5 DEF g

\* A variable assigned, and the operand taken off the stack or renewed.
LEMMA AssignPopChanges ==
  ASSUME NEW h, HeapOK(h), NEW r \in 1..Len(h.rds), 1 <= stackSize(h.rds[r]),
         Op(Here).arg \in 1..NumVars, Here \in Nodes, NEW d \in Defs
  PROVE  /\ Changes(h, pop(Assign(h, r), r, 1), {r})
         /\ Changes(h, push(pop(Assign(h, r), r, 1), r, d), {r})
<1> DEFINE g == Assign(h, r)
<1>1. Changes(h, g, {r}) /\ stackSize(g.rds[r]) = stackSize(h.rds[r])
  BY AssignChanges
<1> HIDE DEF g
<1>2. HeapOK(g) /\ r \in 1..Len(g.rds) /\ 1 \in Nat /\ 1 <= stackSize(g.rds[r])
  BY <1>1, StillThere
<1>3. Changes(g, pop(g, r, 1), {r})
  BY <1>2, PopChanges
<1>4. Changes(g, push(pop(g, r, 1), r, d), {r})
  BY <1>2, PopPushChanges
<1>5. Changes(h, pop(g, r, 1), {r})
  BY <1>1, <1>3, ThenChanges
<1>6. Changes(h, push(pop(g, r, 1), r, d), {r})
  BY <1>1, <1>4, ThenChanges
<1> QED
  BY <1>5, <1>6 DEF g

\* A visit of a node of a program, with the operands there that it takes.
Visiting(h, r) == /\ IsProgram(code) /\ fn = code.fn /\ Here \in Nodes
                  /\ HeapOK(h) /\ r \in 1..Len(h.rds)
                  /\ stackSize(h.rds[r]) >= Needs(Here)

\* The size of a stack is a number.
LEMMA SizeIsNumber ==
  ASSUME NEW h, HeapOK(h), NEW r \in 1..Len(h.rds)
  PROVE  stackSize(h.rds[r]) \in Nat
<1> DEFINE x == h.rds[r]
<1>1. Len(h.defs) \in Nat /\ RdOK(x, Len(h.defs))
  BY HeapParts
<1> HIDE DEF x
<1>2. stackSize(x) \in 0..Len(x.stack) /\ Len(x.stack) \in Nat
  BY <1>1, StackSizeIs, RdParts
<1> QED
  BY <1>2 DEF x

\* The effect of a node that takes nothing off the stack.
LEMMA EffectsOfNone ==
  ASSUME NEW h, NEW r, Visiting(h, r)
  PROVE  /\ Changes(h, h, {r})
         /\ instType(Here) = "BeginBlock" =>
              Changes(h, [h EXCEPT !.rds[r] = pushLabel(@, label(Here))], {r})
         /\ Changes(h, push(h, r, NoDef), {r})
         /\ Changes(h, push(h, r, NewDef(Here)), {r})
         /\ instType(Here) \in Gets => Changes(h, Get(h, r).heap, {r})
<1> DEFINE n == Here
<1>1. n \in Nodes /\ HeapOK(h) /\ r \in 1..Len(h.rds)
  BY DEF Visiting
<1> HIDE DEF n
<1>2. Changes(h, h, {r})
  <2> DEFINE R == {r}
  <2>1. R \in SUBSET (1..Len(h.rds))
    BY <1>1
  <2> HIDE DEF R
  <2>2. Changes(h, h, R)
    BY <1>1, <2>1, NothingChanges
  <2> QED
    BY <2>2 DEF R
<1>3. ASSUME instType(n) = "BeginBlock"
      PROVE  Changes(h, [h EXCEPT !.rds[r] = pushLabel(@, label(n))], {r})
  <2> DEFINE x == h.rds[r]
             y == pushLabel(x, label(n))
             k == Len(h.defs)
             ds == h.defs
             rs == h.rds
  <2>1. label(n) \in Labels
    BY <1>1, <1>3, InstTypes DEF Visiting
  <2>2. /\ k \in Nat /\ RdOK(x, k) /\ ds \in Seq(Defs) /\ k <= k /\ DOMAIN rs = 1..Len(rs)
        /\ h = [defs |-> ds, rds |-> rs]
    <3>1. k \in Nat /\ RdOK(x, k) /\ ds \in Seq(Defs) /\ DOMAIN rs = 1..Len(rs)
      BY <1>1, HeapParts
    <3>2. h = [defs |-> ds, rds |-> rs]
      BY <1>1, HeapParts
    <3> QED
      BY <3>1, <3>2
  <2> HIDE DEF x
  <2>3. Less(x, y, k)
    BY <2>1, <2>2, PushLabelIs
  <2>4. [h EXCEPT !.rds[r] = pushLabel(@, label(n))] = [h EXCEPT !.rds = [rs EXCEPT ![r] = y]]
    BY <2>2 DEF x
  <2> DEFINE os == [rs EXCEPT ![r] = y]
  <2> HIDE DEF y, k, os, rs, ds
  <2>5. [h EXCEPT !.rds = os] = [defs |-> ds, rds |-> os]
    BY <2>2, HeapExcept
  <2>6. /\ Len(h.defs) <= Len(ds) /\ RdOK(y, Len(ds))
        /\ \A a \in 1..Len(h.defs) : a \notin Ids(h.rds[r]) => ds[a] = h.defs[a]
        /\ \A a \in Ids(y) : a > Len(h.defs) \/ a \in Ids(h.rds[r])
    BY <2>2, <2>3 DEF Less, k, ds, x
  <2>7. Changes(h, [defs |-> ds, rds |-> [h.rds EXCEPT ![r] = y]], {r})
    BY <1>1, <2>2, <2>6, OneChanges
  <2> QED
    BY <2>4, <2>5, <2>7 DEF os, rs
<1>4. NoDef \in Defs /\ NewDef(n) \in Defs
  <2>1. NoDef \in Defs
    <3>1. NoDef \in [{} -> Nodes] /\ {} \in SUBSET Nodes
      BY DEF NoDef
    <3> QED
      BY <3>1 DEF Defs
  <2> QED
    BY <1>1, <2>1, DefsAre
<1>5. Changes(h, push(h, r, NoDef), {r}) /\ Changes(h, push(h, r, NewDef(n)), {r})
  BY <1>1, <1>4, PushChanges
<1>6. ASSUME instType(n) \in Gets
      PROVE  Changes(h, Get(h, r).heap, {r})
  <2> DEFINE v == Op(n).arg
             d == DefOf(h, h.rds[r].vars[v])
             e == IF d = NoDef THEN NewDef(n) ELSE ClearTo(d, n)
  <2>1. v \in 1..NumVars
    BY <1>1, <1>6, InstTypes DEF Visiting, Accesses
  <2> HIDE DEF v
  <2>2. d \in Defs
    BY <1>1, <2>1, VariableIs
  <2> HIDE DEF d
  <2>3. ClearTo(d, n) \in Defs
    BY <1>1, <2>2, DefsAre
  <2>4. e \in Defs
    BY <1>4, <2>3
  <2>5. Get(h, r).heap = push(h, r, e)
    BY DEF Get, Yields, rd, e, d, v, n
  <2> HIDE DEF e
  <2> QED
    BY <1>1, <2>4, <2>5, PushChanges
<1> QED
  BY <1>2, <1>3, <1>5, <1>6 DEF n

\* The effect of a node that takes one operand.
LEMMA EffectsOfOne ==
  ASSUME NEW h, NEW r, Visiting(h, r), Needs(Here) = 1
  PROVE  /\ Changes(h, pop(h, r, 1), {r})
         /\ Changes(h, push(pop(h, r, 1), r, NoDef), {r})
         /\ Changes(h, Put(h, Operand(h, r, 1), ClearTo(Arg(h, r, 1), Here)), {r})
         /\ Changes(h, Put(h, Operand(h, r, 1), ClearTo(removeConsts(Arg(h, r, 1)), Here)), {r})
         /\ instType(Here) \in Sets \cup {"LocalTee"} =>
              /\ Changes(h, pop(Assign(h, r), r, 1), {r})
              /\ Changes(h, push(pop(Assign(h, r), r, 1), r, ClearTo(Arg(h, r, 1), Here)), {r})
<1> DEFINE n == Here
           o == Operand(h, r, 1)
           a == Arg(h, r, 1)
<1>1. /\ n \in Nodes /\ HeapOK(h) /\ r \in 1..Len(h.rds) /\ 1 \in Nat
      /\ stackSize(h.rds[r]) \in Nat
  BY SizeIsNumber DEF Visiting
<1>2. 1 <= stackSize(h.rds[r]) /\ 1 <= 1
  BY <1>1 DEF Visiting
<1>3. o \in Ids(h.rds[r]) /\ a \in Defs
  BY <1>1, <1>2, OperandIs DEF Arg
<1> HIDE DEF n, o, a
<1>4. /\ ClearTo(a, n) \in Defs /\ NoDef \in Defs /\ removeConsts(a) \in Defs
  BY <1>1, <1>3, DefsAre
<1>5. ClearTo(removeConsts(a), n) \in Defs
  BY <1>1, <1>4, DefsAre
<1>6. Changes(h, pop(h, r, 1), {r})
  BY <1>1, <1>2, PopChanges
<1>7. Changes(h, push(pop(h, r, 1), r, NoDef), {r})
  BY <1>1, <1>2, <1>4, PopPushChanges
<1>8. /\ Changes(h, Put(h, o, ClearTo(a, n)), {r})
      /\ Changes(h, Put(h, o, ClearTo(removeConsts(a), n)), {r})
  BY <1>1, <1>3, <1>4, <1>5, PutChanges
<1>9. ASSUME instType(n) \in Sets \cup {"LocalTee"}
      PROVE  /\ Changes(h, pop(Assign(h, r), r, 1), {r})
             /\ Changes(h, push(pop(Assign(h, r), r, 1), r, ClearTo(a, n)), {r})
  <2>1. Op(n).arg \in 1..NumVars
    BY <1>1, <1>9, InstTypes DEF Visiting, Accesses
  <2> DEFINE d == ClearTo(a, n)
  <2>2. Op(Here).arg \in 1..NumVars /\ Here \in Nodes /\ d \in Defs
    BY <1>1, <1>4, <2>1 DEF n
  <2> HIDE DEF d
  <2>3. /\ Changes(h, pop(Assign(h, r), r, 1), {r})
        /\ Changes(h, push(pop(Assign(h, r), r, 1), r, d), {r})
    BY <1>1, <1>2, <2>2, AssignPopChanges
  <2> QED
    BY <2>3 DEF d
<1> QED
  BY <1>6, <1>7, <1>8, <1>9 DEF n, o, a

\* The effect of a node that takes two operands.
LEMMA EffectsOfTwo ==
  ASSUME NEW h, NEW r, Visiting(h, r), Needs(Here) = 2
  PROVE  /\ Changes(h, pop(h, r, 2), {r})
         /\ Changes(h, OfTwo(h, r).heap, {r})
<1> DEFINE n == Here
           o == Operand(h, r, 1)
           a == Arg(h, r, 1)
           b == Arg(h, r, 2)
           both == UnionDef(a, b)
           res == ClearTo(removeConsts(both), n)
<1>1. /\ n \in Nodes /\ HeapOK(h) /\ r \in 1..Len(h.rds) /\ 1 \in Nat /\ 2 \in Nat
      /\ stackSize(h.rds[r]) \in Nat
  BY SizeIsNumber DEF Visiting
<1>2. 1 <= stackSize(h.rds[r]) /\ 1 <= 1 /\ 2 <= stackSize(h.rds[r]) /\ 1 <= 2
  BY <1>1 DEF Visiting
<1>3. o \in Ids(h.rds[r]) /\ a \in Defs
  BY <1>1, <1>2, OperandIs DEF Arg
<1>4. b \in Defs
  BY <1>1, <1>2, OperandIs DEF Arg
<1>5. OfTwo(h, r).heap = push(pop(Put(h, o, res), r, 2), r, res)
  BY DEF OfTwo, Yields
<1> HIDE DEF n, o, a, b
<1>6. both \in Defs
  BY <1>1, <1>3, <1>4, DefsAre
<1> HIDE DEF both
<1>7. removeConsts(both) \in Defs
  BY <1>1, <1>6, DefsAre
<1>8. res \in Defs
  BY <1>1, <1>7, DefsAre
<1> HIDE DEF res
<1>9. Changes(h, push(pop(Put(h, o, res), r, 2), r, res), {r})
  BY <1>1, <1>2, <1>3, <1>8, PutPopPushChanges
<1>10. Changes(h, pop(h, r, 2), {r})
  BY <1>1, <1>2, PopChanges
<1> QED
  BY <1>5, <1>9, <1>10

\* The effect of a select.
LEMMA EffectsOfSelect ==
  ASSUME NEW h, NEW r, Visiting(h, r), Needs(Here) = 3
  PROVE  LET val == UnionDef(Arg(h, r, 3), Arg(h, r, 2))
         IN  Changes(h, push(pop(Put(h, Operand(h, r, 3), val), r, 3), r, val), {r})
<1> DEFINE n == Here
           o == Operand(h, r, 3)
           a == Arg(h, r, 3)
           b == Arg(h, r, 2)
           val == UnionDef(a, b)
<1>1. /\ n \in Nodes /\ HeapOK(h) /\ r \in 1..Len(h.rds) /\ 3 \in Nat /\ 2 \in Nat
      /\ stackSize(h.rds[r]) \in Nat
  BY SizeIsNumber DEF Visiting
<1>2. 1 <= 3 /\ 3 <= stackSize(h.rds[r]) /\ 1 <= 2 /\ 2 <= stackSize(h.rds[r])
  BY <1>1 DEF Visiting
<1>3. o \in Ids(h.rds[r]) /\ a \in Defs
  BY <1>1, <1>2, OperandIs DEF Arg
<1>4. b \in Defs
  BY <1>1, <1>2, OperandIs DEF Arg
<1> HIDE DEF n, o, a, b
<1>5. val \in Defs
  BY <1>1, <1>3, <1>4, DefsAre
<1> HIDE DEF val
<1>6. Changes(h, push(pop(Put(h, o, val), r, 3), r, val), {r})
  BY <1>1, <1>2, <1>3, <1>5, PutPopPushChanges
<1> QED
  BY <1>6 DEF val, o, a, b

\* The effect of a call.
LEMMA EffectsOfCall ==
  ASSUME NEW h, NEW r, Visiting(h, r), instType(Here) \in Calls
  PROVE  Changes(h, CallOf(h, r).heap, {r})
<1> DEFINE n == Here
           m == Op(n).nargs
<1>1. /\ n \in Nodes /\ HeapOK(h) /\ r \in 1..Len(h.rds)
      /\ stackSize(h.rds[r]) \in Nat
  BY SizeIsNumber DEF Visiting
<1>2. instType(n) \in Calls
  OBVIOUS
<1>3. Needs(n) = m
  BY <1>2 DEF Needs, Calls, Sets
<1>4. stackSize(h.rds[r]) >= Needs(n)
  BY DEF Visiting
<1>5. CallOf(h, r).heap = IF nresults(n) = 1 THEN push(pop(h, r, m), r, NewDef(n)) ELSE pop(h, r, m)
  BY DEF CallOf, Yields
<1> HIDE DEF n
<1>6. m \in Nat
  BY <1>1, <1>2, InstTypes DEF Visiting
<1> HIDE DEF m
<1>7. m <= stackSize(h.rds[r])
  BY <1>1, <1>3, <1>4, <1>6
<1>8. NewDef(n) \in Defs
  <2>1. NewDef(n) \in [{n} -> Nodes] /\ {n} \in SUBSET Nodes
    BY <1>1 DEF NewDef
  <2> QED
    BY <2>1 DEF Defs
<1>9. Changes(h, pop(h, r, m), {r})
  BY <1>1, <1>6, <1>7, PopChanges
<1>10. Changes(h, push(pop(h, r, m), r, NewDef(n)), {r})
  BY <1>1, <1>6, <1>7, <1>8, PopPushChanges
<1> QED
  BY <1>5, <1>9, <1>10

-----------------------------------------------------------------------------
(* The work list. *)

Items == [node : Nodes, last : Nodes, loops : Seq(Nodes)]

\* The edges and the work list are what they should be.
Walked == /\ IsBody(fn) /\ edges \subseteq CFGEdges /\ IsFiniteSet(edges)
          /\ work \in Seq(Items) /\ reach \in [Nodes -> SUBSET (1..Len(heap.rds))]

\* The front of the work list.
LEMMA FrontItem ==
  ASSUME work \in Seq(Items), work # <<>>
  PROVE  /\ Head(work) \in Items /\ Tail(work) \in Seq(Items)
         /\ Here \in Nodes /\ From \in Nodes /\ Around \in Seq(Nodes)
         /\ Len(work) \in Nat /\ 1 \in 1..Len(work) /\ work[1] = Head(work)
         /\ Len(Tail(work)) = Len(work) - 1
         /\ \A i \in 1..Len(Tail(work)) : i + 1 \in 1..Len(work) /\ Tail(work)[i] = work[i + 1]
<1>1. Len(work) \in Nat /\ Len(work) # 0
  BY EmptySeq, LenProperties
<1>2. Head(work) = work[1] /\ 1 \in 1..Len(work)
  BY <1>1
<1>3. Head(work) \in Items
  BY <1>2, ElementOfSeq
<1>4. /\ Tail(work) \in Seq(Items) /\ Len(Tail(work)) = Len(work) - 1
      /\ \A i \in 1..Len(Tail(work)) : Tail(work)[i] = work[i + 1]
  BY HeadTailProperties
<1>5. \A i \in 1..Len(Tail(work)) : i + 1 \in 1..Len(work)
  BY <1>1, <1>4
<1> QED
  BY <1>1, <1>2, <1>3, <1>4, <1>5 DEF Items, Here, From, Around

\* What is on the work list has been there, or is in the loops given.
Queued(around) ==
  \A i \in 1..Len(work') : \/ work'[i].loops = around
                           \/ \E j \in 1..Len(work) : work'[i] = work[j]

\* What advance does: the heap gets copies of r, each of the successors of Here
\* gets r or one of them, and is in front of the rest of the work list.
LEMMA Advances ==
  ASSUME Walked, work # <<>>,
         NEW h, HeapOK(h), Len(heap.rds) <= Len(h.rds), NEW r \in 1..Len(h.rds),
         NEW around \in Seq(Nodes), advance(h, r, around)
  PROVE  /\ Changes(h, heap', {r}) /\ Extends(h, heap')
         /\ reach' \in [Nodes -> SUBSET (1..Len(heap'.rds))]
         /\ reach'[Here] = {}
         /\ \A n \in Nodes : \A q \in reach'[n] : q \in reach[n] \/ q = r \/ q > Len(h.rds)
         /\ work' \in Seq(Items)
         /\ Queued(around)
<1> DEFINE out == outEdges(Here)
           m == Len(out)
           l == Len(h.rds)
           Sent(i) == IF i = 1 THEN r ELSE l + i - 1
           To(n) == {i \in 1..m : out[i].dest = n}
           first == [i \in 1..m |-> [node |-> out[m + 1 - i].dest, last |-> Here, loops |-> around]]
           here == Here
<1>1. /\ m \in Nat /\ \A i \in 1..m : out[i] \in edges
  BY OutEdgesAre DEF Walked
<1>2. \A i \in 1..m : out[i].dest \in Nodes
  BY <1>1 DEF CFGEdges, Walked
<1>3. /\ heap' = IF m > 1 THEN Copies(h, r, m - 1) ELSE h
      /\ reach' = [n \in Nodes |-> IF n = here THEN {} ELSE reach[n] \cup {Sent(i) : i \in To(n)}]
      /\ work' = first \o Tail(work)
  BY DEF advance
<1>4. here \in Nodes /\ Tail(work) \in Seq(Items)
  BY FrontItem DEF Walked
<1>5. l \in Nat /\ Len(heap.rds) <= l
  BY HeapParts
<1> HIDE DEF here
<1>6. /\ Changes(h, heap', {r}) /\ Extends(h, heap')
      /\ l <= Len(heap'.rds) /\ Len(heap'.rds) \in Nat
      /\ m > 1 => Len(heap'.rds) = l + (m - 1)
  <2>1. CASE m > 1
    <3> DEFINE c == m - 1
    <3>1. c \in Nat /\ heap' = Copies(h, r, c)
      BY <1>1, <1>3, <2>1
    <3> HIDE DEF c
    <3>2. /\ Changes(h, Copies(h, r, c), {r}) /\ Extends(h, Copies(h, r, c))
          /\ Len(Copies(h, r, c).rds) = l + c
      BY <3>1, CopiesAre
    <3> QED
      BY <1>5, <2>1, <3>1, <3>2 DEF c
  <2>2. CASE ~(m > 1)
    <3> DEFINE R == {r}
    <3>1. heap' = h /\ R \in SUBSET (1..Len(h.rds))
      BY <1>3, <2>2
    <3> HIDE DEF R
    <3>2. Changes(h, h, R)
      BY <3>1, NothingChanges
    <3>3. Len(h.defs) \in Nat
      BY HeapParts
    <3>4. Extends(h, h)
      BY <1>5, <3>3 DEF Extends
    <3> QED
      BY <1>5, <2>2, <3>1, <3>2, <3>4 DEF R
  <2> QED
    BY <2>1, <2>2
<1>7. \A i \in 1..m : /\ Sent(i) \in 1..Len(heap'.rds)
                      /\ Sent(i) = r \/ Sent(i) > l
  <2> TAKE i \in 1..m
  <2>1. CASE i = 1
    BY <1>5, <1>6, <2>1
  <2>2. CASE i # 1
    <3>1. m > 1 /\ i - 1 \in 1 .. m - 1
      BY <1>1, <2>2
    <3>2. Sent(i) = l + i - 1
      BY <2>2
    <3> HIDE DEF Sent, l, m
    <3> QED
      BY <1>1, <1>5, <1>6, <3>1, <3>2
  <2> QED
    BY <2>1, <2>2
<1> HIDE DEF Sent, out
<1>8. ASSUME NEW n \in Nodes
      PROVE  /\ reach'[n] \in SUBSET (1..Len(heap'.rds))
             /\ \A q \in reach'[n] : q \in reach[n] \/ q = r \/ q > l
  <2>1. reach'[n] \subseteq reach[n] \cup {Sent(i) : i \in To(n)}
    BY <1>3
  <2>2. reach[n] \subseteq 1..Len(heap.rds)
    BY DEF Walked
  <2>3. 1..Len(heap.rds) \subseteq 1..Len(heap'.rds)
    BY <1>5, <1>6
  <2> QED
    BY <1>7, <2>1, <2>2, <2>3
<1>9. reach' = [n \in Nodes |-> reach'[n]] /\ reach'[here] = {}
  BY <1>3, <1>4
<1>10. reach' \in [Nodes -> SUBSET (1..Len(heap'.rds))]
  BY <1>8, <1>9
<1>11. first \in Seq(Items) /\ Len(first) = m /\ \A i \in 1..m : first[i].loops = around
  <2>1. \A i \in 1..m : m + 1 - i \in 1..m
    BY <1>1
  <2>2. \A i \in 1..m : first[i] \in Items /\ first[i].loops = around
    BY <1>2, <1>4, <2>1 DEF Items, here
  <2>3. first = [i \in 1..m |-> first[i]]
    OBVIOUS
  <2> HIDE DEF first, m
  <2>4. first \in [1..m -> Items]
    BY <2>2, <2>3
  <2> QED
    BY <1>1, <2>2, <2>4
<1> DEFINE rest == Tail(work)
<1>12. rest \in Seq(Items) /\ Len(rest) \in Nat
       /\ \A i \in 1..Len(rest) : \E j \in 1..Len(work) : rest[i] = work[j]
  BY FrontItem, LenProperties DEF Walked
<1> HIDE DEF first, m, rest
<1>13. first \o rest \in Seq(Items)
  BY <1>11, <1>12, JoinedIs
<1>14. Len(first \o rest) = Len(first) + Len(rest)
  BY <1>11, <1>12, JoinedIs
<1>15. \A i \in 1..Len(first) : (first \o rest)[i] = first[i]
  BY <1>11, <1>12, JoinedIs
<1>16. \A i \in 1..Len(rest) : (first \o rest)[Len(first) + i] = rest[i]
  BY <1>11, <1>12, JoinedIs
<1>17. ASSUME NEW i \in 1..Len(work')
       PROVE  work'[i].loops = around \/ \E j \in 1..Len(work) : work'[i] = work[j]
  <2>0. work' = first \o rest
    BY <1>3 DEF rest
  <2>1. CASE i \in 1..m
    BY <1>11, <1>15, <2>0, <2>1
  <2>2. CASE i \notin 1..m
    <3> DEFINE p == i - m
    <3>1. p \in 1..Len(rest) /\ i = m + p
      BY <1>1, <1>11, <1>12, <1>14, <2>0, <2>2 DEF m
    <3> HIDE DEF p
    <3>2. work'[i] = rest[p]
      BY <1>11, <1>16, <2>0, <3>1
    <3> QED
      BY <1>12, <3>1, <3>2
  <2> QED
    BY <2>1, <2>2
<1>18. Queued(around)
  BY <1>17 DEF Queued
<1> QED
  BY <1>3, <1>6, <1>8, <1>9, <1>10, <1>13, <1>18 DEF rest, here, l

-----------------------------------------------------------------------------
(* Visits. *)

\* What all visits but those of loops have in common.
Ordinary == /\ phase = "pdg" /\ work # <<>> /\ ~waitPaths /\ Asserts
            /\ begun' = Begun
            /\ UNCHANGED <<code, loops, entrances, cache, phase>>

\* Such a visit goes on with what it makes of the heap.
Goes == \E h : \E r \in reach[Here] : Changes(heap, h, reach[Here]) /\ advance(h, r, Around)

\* It does when it has an effect on what it has gathered.
LEMMA GoesFrom ==
  ASSUME Visited, Asserts, NEW g \in Gathered, NEW h, Changes(g.heap, h, {g.rd}),
         advance(h, g.rd, Around)
  PROVE  Goes
<1> DEFINE R == reach[Here]
           r == g.rd
           k == g.heap
           S == {r}
<1>1. r \in R /\ r \in 1..Len(heap.rds) /\ Changes(heap, k, R) /\ Len(k.rds) = Len(heap.rds)
  BY GatheredIs
<1>2. HeapOK(heap) /\ R \in SUBSET (1..Len(heap.rds))
  BY DEF Visited
<1>3. S \in SUBSET (1..Len(k.rds)) /\ \A q \in S : q \in R \/ q > Len(heap.rds)
  BY <1>1
<1>4. Changes(k, h, S)
  OBVIOUS
<1> HIDE DEF R, k, S
<1>5. Changes(heap, h, R)
  BY <1>1, <1>2, <1>3, <1>4, ChangesAfterChanges
<1> QED
  BY <1>1, <1>5 DEF Goes, R

\* The visit starts with operands enough.
LEMMA VisitingIs ==
  ASSUME Visited, Asserts, NEW g \in Gathered
  PROVE  Visiting(g.heap, g.rd)
BY GatheredIs DEF Visiting, Visited

\* Visits that take nothing off the stack.
LEMMA VisitsOfNone ==
  ASSUME Visited,
         \/ visitNopInst \/ visitBrInst \/ visitBlockInst \/ visitEndLoopInst
         \/ visitReturnInst \/ visitBeginBlockInst \/ visitMemorySizeInst
         \/ visitConstInst \/ visitLocalGetInst \/ visitGlobalGetInst
  PROVE  Ordinary /\ Goes
<1>1. ASSUME visitNopInst \/ visitBrInst \/ visitBlockInst \/ visitEndLoopInst \/ visitReturnInst
      PROVE  Ordinary /\ Goes
  <2>1. Ordinary
    BY <1>1 DEF Ordinary, visitNopInst, visitBrInst, visitBlockInst, visitEndLoopInst,
         visitReturnInst, Visit, Visits
  <2>2. PICK g \in Gathered : advance(g.heap, g.rd, Around)
    BY <1>1 DEF visitNopInst, visitBrInst, visitBlockInst, visitEndLoopInst,
         visitReturnInst, Visit, Nothing, Yields
  <2>3. Changes(g.heap, g.heap, {g.rd})
    BY <2>1, VisitingIs, EffectsOfNone DEF Ordinary
  <2> QED
    BY <2>1, <2>2, <2>3, GoesFrom DEF Ordinary
<1>2. ASSUME visitBeginBlockInst
      PROVE  Ordinary /\ Goes
  <2>1. Ordinary /\ instType(Here) = "BeginBlock"
    BY <1>2 DEF Ordinary, visitBeginBlockInst, Visit, Visits
  <2>2. PICK g \in Gathered :
          advance([g.heap EXCEPT !.rds[g.rd] = pushLabel(@, label(Here))], g.rd, Around)
    BY <1>2 DEF visitBeginBlockInst, Visit, Yields
  <2>3. Changes(g.heap, [g.heap EXCEPT !.rds[g.rd] = pushLabel(@, label(Here))], {g.rd})
    BY <2>1, VisitingIs, EffectsOfNone DEF Ordinary
  <2> QED
    BY <2>1, <2>2, <2>3, GoesFrom DEF Ordinary
<1>3. ASSUME visitMemorySizeInst
      PROVE  Ordinary /\ Goes
  <2>1. Ordinary
    BY <1>3 DEF Ordinary, visitMemorySizeInst, Visit, Visits
  <2>2. PICK g \in Gathered : advance(push(g.heap, g.rd, NoDef), g.rd, Around)
    BY <1>3 DEF visitMemorySizeInst, Visit, Yields
  <2>3. Changes(g.heap, push(g.heap, g.rd, NoDef), {g.rd})
    BY <2>1, VisitingIs, EffectsOfNone DEF Ordinary
  <2> QED
    BY <2>1, <2>2, <2>3, GoesFrom DEF Ordinary
<1>4. ASSUME visitConstInst
      PROVE  Ordinary /\ Goes
  <2>1. Ordinary
    BY <1>4 DEF Ordinary, visitConstInst, Visit, Visits
  <2>2. PICK g \in Gathered : advance(push(g.heap, g.rd, NewDef(Here)), g.rd, Around)
    BY <1>4 DEF visitConstInst, Visit, Yields
  <2>3. Changes(g.heap, push(g.heap, g.rd, NewDef(Here)), {g.rd})
    BY <2>1, VisitingIs, EffectsOfNone DEF Ordinary
  <2> QED
    BY <2>1, <2>2, <2>3, GoesFrom DEF Ordinary
<1>5. ASSUME visitLocalGetInst \/ visitGlobalGetInst
      PROVE  Ordinary /\ Goes
  <2>1. Ordinary /\ instType(Here) \in Gets
    BY <1>5 DEF Ordinary, visitLocalGetInst, visitGlobalGetInst, Visit, Visits, Gets
  <2>2. PICK g \in Gathered : advance(Get(g.heap, g.rd).heap, g.rd, Around)
    BY <1>5 DEF visitLocalGetInst, visitGlobalGetInst, Visit
  <2>3. Changes(g.heap, Get(g.heap, g.rd).heap, {g.rd})
    BY <2>1, VisitingIs, EffectsOfNone DEF Ordinary
  <2> QED
    BY <2>1, <2>2, <2>3, GoesFrom DEF Ordinary
<1> QED
  BY <1>1, <1>2, <1>3, <1>4, <1>5

\* Visits that take one operand.
LEMMA VisitsOfOne ==
  ASSUME Visited,
         \/ visitBrIfInst \/ visitBrTableInst \/ visitIfInst \/ visitDropInst
         \/ visitLoadInst \/ visitMemoryGrowInst \/ visitConvertInst \/ visitUnaryInst
         \/ visitLocalSetInst \/ visitGlobalSetInst \/ visitLocalTeeInst
  PROVE  Ordinary /\ Goes
<1>1. ASSUME visitBrIfInst \/ visitBrTableInst \/ visitIfInst \/ visitDropInst
      PROVE  Ordinary /\ Goes
  <2>1. Ordinary /\ Needs(Here) = 1
    BY <1>1 DEF Ordinary, visitBrIfInst, visitBrTableInst, visitIfInst,
         visitDropInst, Visit, Visits, Needs, Sets, Calls
  <2>2. PICK g \in Gathered : advance(pop(g.heap, g.rd, 1), g.rd, Around)
    BY <1>1 DEF visitBrIfInst, visitBrTableInst, visitIfInst, visitDropInst,
         Visit, Yields, Condition
  <2>3. Changes(g.heap, pop(g.heap, g.rd, 1), {g.rd})
    BY <2>1, VisitingIs, EffectsOfOne DEF Ordinary
  <2> QED
    BY <2>1, <2>2, <2>3, GoesFrom DEF Ordinary
<1>2. ASSUME visitLoadInst \/ visitMemoryGrowInst
      PROVE  Ordinary /\ Goes
  <2>1. Ordinary /\ Needs(Here) = 1
    BY <1>2 DEF Ordinary, visitLoadInst, visitMemoryGrowInst, Visit, Visits, Needs, Sets, Calls
  <2>2. PICK g \in Gathered : advance(push(pop(g.heap, g.rd, 1), g.rd, NoDef), g.rd, Around)
    BY <1>2 DEF visitLoadInst, visitMemoryGrowInst, Visit, Yields, FromMemory
  <2>3. Changes(g.heap, push(pop(g.heap, g.rd, 1), g.rd, NoDef), {g.rd})
    BY <2>1, VisitingIs, EffectsOfOne DEF Ordinary
  <2> QED
    BY <2>1, <2>2, <2>3, GoesFrom DEF Ordinary
<1>3. ASSUME visitConvertInst
      PROVE  Ordinary /\ Goes
  <2>1. Ordinary /\ Needs(Here) = 1
    BY <1>3 DEF Ordinary, visitConvertInst, Visit, Visits, Needs, Sets, Calls
  <2>2. PICK g \in Gathered :
          advance(Put(g.heap, Operand(g.heap, g.rd, 1), ClearTo(Arg(g.heap, g.rd, 1), Here)),
                  g.rd, Around)
    BY <1>3 DEF visitConvertInst, Visit, Yields
  <2>3. Changes(g.heap, Put(g.heap, Operand(g.heap, g.rd, 1),
                              ClearTo(Arg(g.heap, g.rd, 1), Here)), {g.rd})
    BY <2>1, VisitingIs, EffectsOfOne DEF Ordinary
  <2> QED
    BY <2>1, <2>2, <2>3, GoesFrom DEF Ordinary
<1>4. ASSUME visitUnaryInst
      PROVE  Ordinary /\ Goes
  <2>1. Ordinary /\ Needs(Here) = 1
    BY <1>4 DEF Ordinary, visitUnaryInst, Visit, Visits, Needs, Sets, Calls
  <2>2. PICK g \in Gathered :
          advance(Put(g.heap, Operand(g.heap, g.rd, 1),
                      ClearTo(removeConsts(Arg(g.heap, g.rd, 1)), Here)), g.rd, Around)
    BY <1>4 DEF visitUnaryInst, Visit, Yields
  <2>3. Changes(g.heap, Put(g.heap, Operand(g.heap, g.rd, 1),
                              ClearTo(removeConsts(Arg(g.heap, g.rd, 1)), Here)), {g.rd})
    BY <2>1, VisitingIs, EffectsOfOne DEF Ordinary
  <2> QED
    BY <2>1, <2>2, <2>3, GoesFrom DEF Ordinary
<1>5. ASSUME visitLocalSetInst \/ visitGlobalSetInst
      PROVE  Ordinary /\ Goes
  <2>1. Ordinary /\ Needs(Here) = 1 /\ instType(Here) \in Sets
    BY <1>5 DEF Ordinary, visitLocalSetInst, visitGlobalSetInst, Visit, Visits, Needs, Sets, Calls
  <2>2. PICK g \in Gathered : advance(pop(Assign(g.heap, g.rd), g.rd, 1), g.rd, Around)
    BY <1>5 DEF visitLocalSetInst, visitGlobalSetInst, Visit, Yields, Set
  <2>3. Changes(g.heap, pop(Assign(g.heap, g.rd), g.rd, 1), {g.rd})
    BY <2>1, VisitingIs, EffectsOfOne DEF Ordinary
  <2> QED
    BY <2>1, <2>2, <2>3, GoesFrom DEF Ordinary
<1>6. ASSUME visitLocalTeeInst
      PROVE  Ordinary /\ Goes
  <2>1. Ordinary /\ Needs(Here) = 1 /\ instType(Here) = "LocalTee"
    BY <1>6 DEF Ordinary, visitLocalTeeInst, Visit, Visits, Needs, Sets, Calls
  <2>2. PICK g \in Gathered :
          advance(push(pop(Assign(g.heap, g.rd), g.rd, 1), g.rd,
                       ClearTo(Arg(g.heap, g.rd, 1), Here)), g.rd, Around)
    BY <1>6 DEF visitLocalTeeInst, Visit, Yields
  <2>3. Changes(g.heap, push(pop(Assign(g.heap, g.rd), g.rd, 1), g.rd,
                             ClearTo(Arg(g.heap, g.rd, 1), Here)), {g.rd})
    BY <2>1, VisitingIs, EffectsOfOne DEF Ordinary
  <2> QED
    BY <2>1, <2>2, <2>3, GoesFrom DEF Ordinary
<1> QED
  BY <1>1, <1>2, <1>3, <1>4, <1>5, <1>6

\* Visits that take more operands.
LEMMA VisitsOfMore ==
  ASSUME Visited,
         \/ visitSelectInst \/ visitStoreInst \/ visitBinaryInst \/ visitCompareInst
         \/ visitCallInst \/ visitCallIndirectInst
  PROVE  Ordinary /\ Goes
<1>1. ASSUME visitStoreInst
      PROVE  Ordinary /\ Goes
  <2>1. Ordinary /\ Needs(Here) = 2
    BY <1>1 DEF Ordinary, visitStoreInst, Visit, Visits, Needs, Sets, Calls
  <2>2. PICK g \in Gathered : advance(pop(g.heap, g.rd, 2), g.rd, Around)
    BY <1>1 DEF visitStoreInst, Visit, Yields
  <2>3. Changes(g.heap, pop(g.heap, g.rd, 2), {g.rd})
    BY <2>1, VisitingIs, EffectsOfTwo DEF Ordinary
  <2> QED
    BY <2>1, <2>2, <2>3, GoesFrom DEF Ordinary
<1>2. ASSUME visitBinaryInst \/ visitCompareInst
      PROVE  Ordinary /\ Goes
  <2>1. Ordinary /\ Needs(Here) = 2
    BY <1>2 DEF Ordinary, visitBinaryInst, visitCompareInst, Visit, Visits, Needs, Sets, Calls
  <2>2. PICK g \in Gathered : advance(OfTwo(g.heap, g.rd).heap, g.rd, Around)
    BY <1>2 DEF visitBinaryInst, visitCompareInst, Visit, Yields
  <2>3. Changes(g.heap, OfTwo(g.heap, g.rd).heap, {g.rd})
    BY <2>1, VisitingIs, EffectsOfTwo DEF Ordinary
  <2> QED
    BY <2>1, <2>2, <2>3, GoesFrom DEF Ordinary
<1>3. ASSUME visitSelectInst
      PROVE  Ordinary /\ Goes
  <2> DEFINE val(g) == UnionDef(Arg(g.heap, g.rd, 3), Arg(g.heap, g.rd, 2))
             made(g) == push(pop(Put(g.heap, Operand(g.heap, g.rd, 3), val(g)), g.rd, 3),
                             g.rd, val(g))
  <2>1. Ordinary /\ Needs(Here) = 3
    BY <1>3 DEF Ordinary, visitSelectInst, Visit, Visits, Needs, Sets, Calls
  <2>2. PICK g \in Gathered : advance(made(g), g.rd, Around)
    BY <1>3 DEF visitSelectInst, Visit, Yields
  <2>3. Changes(g.heap, made(g), {g.rd})
    BY <2>1, VisitingIs, EffectsOfSelect DEF Ordinary
  <2> HIDE DEF made
  <2> QED
    BY <2>1, <2>2, <2>3, GoesFrom DEF Ordinary
<1>4. ASSUME visitCallInst \/ visitCallIndirectInst
      PROVE  Ordinary /\ Goes
  <2>1. Ordinary /\ instType(Here) \in Calls
    BY <1>4 DEF Ordinary, visitCallInst, visitCallIndirectInst, Visit, Visits, Needs, Sets, Calls
  <2>2. PICK g \in Gathered : advance(CallOf(g.heap, g.rd).heap, g.rd, Around)
    BY <1>4 DEF visitCallInst, visitCallIndirectInst, Visit, Yields
  <2>3. Changes(g.heap, CallOf(g.heap, g.rd).heap, {g.rd})
    BY <2>1, VisitingIs, EffectsOfCall DEF Ordinary
  <2> QED
    BY <2>1, <2>2, <2>3, GoesFrom DEF Ordinary
<1> QED
  BY <1>1, <1>2, <1>3, <1>4

-----------------------------------------------------------------------------
(* Visits of loops. *)

\* The definitions of the variables of object L are no other object's.
Own(h, L) == \A q \in 1..Len(h.rds) : q # L =>
               \A v \in 1..NumVars : h.rds[L].vars[v] \notin Ids(h.rds[q])

\* An object and its definitions are as they were.
ObjectStays(h, g, L) ==
  /\ Own(g, L) /\ g.rds[L] = h.rds[L]
  /\ \A v \in 1..NumVars : g.defs[h.rds[L].vars[v]] = h.defs[h.rds[L].vars[v]]

\* Operations on others leave them so.
LEMMA OwnStays ==
  ASSUME NEW h, HeapOK(h), NEW R \in SUBSET (1..Len(h.rds)), NEW g, Changes(h, g, R),
         NEW L \in 1..Len(h.rds), L \notin R, Own(h, L)
  PROVE  ObjectStays(h, g, L)
<1>1. /\ Len(h.defs) \in Nat /\ Len(h.rds) \in Nat
      /\ \A r \in 1..Len(h.rds) : Ids(h.rds[r]) \subseteq 1..Len(h.defs)
  BY HeapParts DEF RdOK
<1>2. Len(g.rds) \in Nat /\ Len(h.rds) <= Len(g.rds)
  BY HeapParts DEF Changes
<1>3. g.rds[L] = h.rds[L]
  BY DEF Changes
<1>4. ASSUME NEW v \in 1..NumVars
      PROVE  /\ h.rds[L].vars[v] \in 1..Len(h.defs) /\ ~(h.rds[L].vars[v] > Len(h.defs))
             /\ \A q \in R : h.rds[L].vars[v] \notin Ids(h.rds[q])
  <2>1. h.rds[L].vars[v] \in Ids(h.rds[L])
    BY DEF Ids
  <2>2. h.rds[L].vars[v] \in 1..Len(h.defs)
    BY <1>1, <2>1
  <2>3. ~(h.rds[L].vars[v] > Len(h.defs))
    <3> DEFINE a == h.rds[L].vars[v]
               b == Len(h.defs)
    <3>1. a \in 1..b /\ b \in Nat
      BY <1>1, <2>2
    <3> HIDE DEF a, b
    <3>2. ~(a > b)
      BY <3>1
    <3> QED
      BY <3>2 DEF a, b
  <2>4. ASSUME NEW q \in R
        PROVE  h.rds[L].vars[v] \notin Ids(h.rds[q])
    <3>1. q \in 1..Len(h.rds) /\ q # L
      OBVIOUS
    <3> QED
      BY <3>1 DEF Own
  <2> QED
    BY <2>2, <2>3, <2>4
<1>5. ASSUME NEW q \in 1..Len(g.rds), q # L, NEW v \in 1..NumVars
      PROVE  g.rds[L].vars[v] \notin Ids(g.rds[q])
  <2>1. CASE q \in R \/ q > Len(h.rds)
    BY <1>3, <1>4, <2>1 DEF Changes
  <2>2. CASE ~(q \in R \/ q > Len(h.rds))
    <3>1. q \in 1..Len(h.rds) /\ q \notin R
      BY <1>1, <1>2, <2>2
    <3>2. g.rds[q] = h.rds[q]
      BY <3>1 DEF Changes
    <3> QED
      BY <1>3, <1>5, <3>1, <3>2 DEF Own
  <2> QED
    BY <2>1, <2>2
<1> QED
  <2>1. Own(g, L)
    BY <1>5 DEF Own
  <2>2. \A v \in 1..NumVars : g.defs[h.rds[L].vars[v]] = h.defs[h.rds[L].vars[v]]
    BY <1>4 DEF Changes
  <2> QED
    BY <1>3, <2>1, <2>2 DEF ObjectStays

\* Copies have definitions of their own.
LEMMA OwnCopies ==
  ASSUME NEW h, HeapOK(h), NEW r \in 1..Len(h.rds), NEW m \in Nat, NEW j \in 1..m
  PROVE  Own(Copies(h, r, m), Len(h.rds) + j)
<1> DEFINE k == Len(h.defs)
           l == Len(h.rds)
           g == Copies(h, r, m)
           y == h.rds[r]
           w == NumVars
<1>1. /\ k \in Nat /\ l \in Nat /\ w \in Nat
      /\ \A q \in 1..l : Ids(h.rds[q]) \subseteq 1..k
  BY HeapParts, NumVarsAssumption DEF RdOK
<1>2. /\ Len(g.rds) = l + m /\ \A q \in 1..l : g.rds[q] = h.rds[q]
      /\ \A i \in 1..m : IsCopy(h, r, g.rds[l + i], k + (i - 1) * w)
  BY ZenonT(60), CopiesAre DEF Extends
<1> HIDE DEF g, k, w
<1>3. \A i \in 1..m : (i - 1) * w \in Nat
  BY <1>1
<1>4. \A i \in 1..m : /\ \A v \in 1..w : g.rds[l + i].vars[v] = k + (i - 1) * w + v
                      /\ g.rds[l + i].stack = y.stack
  BY <1>2 DEF IsCopy, w
<1>5. \A i \in 1..m : i # j => \A v, u \in 1..w : k + (j - 1) * w + v # k + (i - 1) * w + u
  <2> TAKE i \in 1..m
  <2> HAVE i # j
  <2> TAKE v, u \in 1..w
  <2> DEFINE a == (j - 1) * w
             b == (i - 1) * w
  <2>1. a \in Nat /\ b \in Nat
    BY <1>3
  <2>2. j < i => b >= a + w
    <3> SUFFICES ASSUME j < i PROVE b >= a + w
      OBVIOUS
    <3> DEFINE d == i - 1 - j
               c == j - 1
    <3>1. d \in Nat /\ i - 1 = c + 1 + d /\ c \in Nat
      OBVIOUS
    <3> HIDE DEF c, d
    <3>2. (c + 1 + d) * w = c * w + w + d * w
      BY <1>1, <3>1
    <3>3. d * w \in Nat /\ c * w \in Nat
      BY <1>1, <3>1
    <3>4. b = c * w + w + d * w
      BY <3>1, <3>2
    <3>5. a = c * w
      BY DEF c
    <3> HIDE DEF a, b
    <3> QED
      BY <1>1, <3>3, <3>4, <3>5
  <2>3. i < j => a >= b + w
    <3> SUFFICES ASSUME i < j PROVE a >= b + w
      OBVIOUS
    <3> DEFINE d == j - 1 - i
               c == i - 1
    <3>1. d \in Nat /\ j - 1 = c + 1 + d /\ c \in Nat
      OBVIOUS
    <3> HIDE DEF c, d
    <3>2. (c + 1 + d) * w = c * w + w + d * w
      BY <1>1, <3>1
    <3>3. d * w \in Nat /\ c * w \in Nat
      BY <1>1, <3>1
    <3>4. a = c * w + w + d * w
      BY <3>1, <3>2
    <3>5. b = c * w
      BY DEF c
    <3> HIDE DEF a, b
    <3> QED
      BY <1>1, <3>3, <3>4, <3>5
  <2>4. i < j \/ j < i
    OBVIOUS
  <2>5. v \in 1..w /\ u \in 1..w
    OBVIOUS
  <2> HIDE DEF a, b
  <2>6. k + a + v # k + b + u
    BY <1>1, <2>1, <2>2, <2>3, <2>4, <2>5
  <2> QED
    BY <2>6 DEF a, b
<1>6. \A v \in 1..w : k + (j - 1) * w + v \notin 1..k
  <2> TAKE v \in 1..w
  <2> DEFINE a == (j - 1) * w
  <2>1. a \in Nat
    BY <1>3
  <2> HIDE DEF a
  <2>2. k + a + v \notin 1..k
    BY <1>1, <2>1
  <2> QED
    BY <2>2 DEF a
<1>7. ASSUME NEW q \in 1..Len(g.rds), q # l + j, NEW v \in 1..w
      PROVE  g.rds[l + j].vars[v] \notin Ids(g.rds[q])
  <2>1. g.rds[l + j].vars[v] = k + (j - 1) * w + v
    BY <1>4
  <2>2. CASE q \in 1..l
    BY <1>1, <1>2, <1>6, <2>1, <2>2
  <2>3. CASE q \notin 1..l
    <3> DEFINE i == q - l
    <3>1. i \in 1..m /\ q = l + i /\ i # j
      BY <1>1, <1>2, <1>7, <2>3
    <3> HIDE DEF i
    <3>2. \A u \in 1..w : g.rds[l + j].vars[v] # g.rds[q].vars[u]
      <4> TAKE u \in 1..w
      <4> DEFINE a == k + (j - 1) * w + v
                 b == k + (i - 1) * w + u
      <4>1. a # b
        BY <1>5, <3>1
      <4>2. g.rds[q].vars[u] = b
        BY <1>4, <3>1
      <4>3. g.rds[l + j].vars[v] = a
        BY <2>1
      <4> HIDE DEF a, b
      <4> QED
        BY <4>1, <4>2, <4>3
    <3>3. {g.rds[q].stack[e] : e \in 1..Len(g.rds[q].stack)} \subseteq 1..k
      <4>1. {y.stack[e] : e \in 1..Len(y.stack)} \subseteq 1..k
        BY <1>1 DEF Ids
      <4>2. g.rds[q].stack = y.stack
        BY <1>4, <3>1
      <4> HIDE DEF y, l
      <4> QED
        BY <4>1, <4>2
    <3> HIDE DEF l
    <3>4. g.rds[l + j].vars[v] \notin 1..k
      BY <1>6, <2>1
    <3> QED
      BY <3>2, <3>3, <3>4 DEF Ids, w
  <2> QED
    BY <2>2, <2>3
<1> QED
  BY <1>7 DEF Own, g, w

-----------------------------------------------------------------------------
(* The control flow graph that the work list walks is finite. *)

\* The conditions of edges, with cases up to n.
Conditions(n) == {"", "true", "false", "default", "case"} \X (0..n)

\* No edge of S is a case.
NoCase(S) == \A d \in S : d.label \in Conditions(0)

\* Sets written out are finite.
LEMMA FiveAreFinite ==
  ASSUME NEW a, NEW b, NEW c, NEW d, NEW e
  PROVE  IsFiniteSet({a, b, c}) /\ IsFiniteSet({a, b, c, d, e})
<1>1. IsFiniteSet({a})
  BY FS_Singleton
<1>2. IsFiniteSet({a} \cup {b})
  BY <1>1, FS_AddElement
<1>3. IsFiniteSet(({a} \cup {b}) \cup {c})
  BY <1>2, FS_AddElement
<1>4. IsFiniteSet((({a} \cup {b}) \cup {c}) \cup {d})
  BY <1>3, FS_AddElement
<1>5. IsFiniteSet(((({a} \cup {b}) \cup {c}) \cup {d}) \cup {e})
  BY <1>4, FS_AddElement
<1>6. /\ ({a} \cup {b}) \cup {c} = {a, b, c}
      /\ ((({a} \cup {b}) \cup {c}) \cup {d}) \cup {e} = {a, b, c, d, e}
  OBVIOUS
<1> QED
  BY <1>3, <1>5, <1>6

\* There are finitely many edges up to a case.
LEMMA EdgesUpToCase ==
  ASSUME NEW n \in Nat
  PROVE  IsFiniteSet([src : Nodes, dest : Nodes, label : Conditions(n)])
<1> DEFINE N == Nodes
           T == NodeTags
           C == {"", "true", "false", "default", "case"}
           D == 0..n
           P == (N \X N) \X (C \X D)
           E == [src : N, dest : N, label : C \X D]
           f == [p \in P |-> [src |-> p[1][1], dest |-> p[1][2], label |-> p[2]]]
<1>1. IsFiniteSet(T)
  BY FiveAreFinite DEF NodeTags
<1>2. IsFiniteSet(N)
  <2>1. IsFiniteSet(T \X Exprs)
    BY <1>1, ExprsAssumption, FS_Product
  <2>2. IsFiniteSet({InstsNode, RetFunc, Trap})
    BY FiveAreFinite
  <2> QED
    BY <2>1, <2>2, FS_Union DEF Nodes
<1>3. IsFiniteSet(C)
  BY FiveAreFinite
<1>4. IsFiniteSet(D)
  BY FS_Interval
<1> HIDE DEF N, T, C, D
<1>5. IsFiniteSet(P)
  <2>1. IsFiniteSet(N \X N)
    BY <1>2, FS_Product
  <2>2. IsFiniteSet(C \X D)
    BY <1>3, <1>4, FS_Product
  <2> QED
    BY <2>1, <2>2, FS_Product
<1>6. f \in Surjection(P, E)
  <2>1. f \in [P -> E]
    OBVIOUS
  <2>2. ASSUME NEW d \in E
        PROVE  \E p \in P : f[p] = d
    <3> DEFINE p == <<<<d.src, d.dest>>, d.label>>
    <3>1. p \in P
      OBVIOUS
    <3>2. f[p] = d
      BY <3>1
    <3> QED
      BY <3>1, <3>2
  <2> QED
    BY <2>1, <2>2 DEF Surjection
<1> HIDE DEF P, E, f
<1>7. IsFiniteSet(E)
  BY <1>5, <1>6, FS_Surjection
<1> QED
  BY <1>7 DEF E, N, C, D, Conditions

\* What conditions there are.
LEMMA ConditionsAre ==
  ASSUME NEW n \in Nat
  PROVE  /\ \A c \in {"", "true", "false", "default", "case"} : \A i \in 0..n :
              <<c, i>> \in Conditions(n)
         /\ Conditions(0) \subseteq Conditions(n)
<1> DEFINE C == {"", "true", "false", "default", "case"}
           A == 0..0
           B == 0..n
<1>1. A \subseteq B
  OBVIOUS
<1> HIDE DEF A, B, C
<1>2. /\ \A c \in C : \A i \in B : <<c, i>> \in C \X B
      /\ C \X A \subseteq C \X B
  BY <1>1
<1> QED
  BY <1>2 DEF Conditions, A, B, C

\* What construct adds, but for the branches of a BrTable.
LEMMA NoCases ==
  /\ {Plainly, OnTrue, OnFalse, OnDefault} \subseteq Conditions(0)
  /\ \A s, d : \A l \in Conditions(0) : NoCase({CFGEdge(s, d, l)})
  /\ \A s : \A l \in Conditions(0) : NoCase(ToNext(s, l))
  /\ \A s, l : NoCase(ToFirst(s, l))
  /\ \A e, i : \A l \in Conditions(0) : NoCase(BranchEdges(e, i, l))
  /\ \A l, n : NoCase(insertEdgeFromLastExpr(l, n))
  /\ \A n : NoCase(FallThrough(n))
  /\ \A e : NoCase(ThenEdges(e)) /\ NoCase(ElseEdges(e))
  /\ \A S : NoCase({CFGEdge(n, RetFunc, Plainly) : n \in S})
<1>1. {Plainly, OnTrue, OnFalse, OnDefault} \subseteq Conditions(0)
  <2>1. 0 \in 0..0 /\ 0 \in Nat
    OBVIOUS
  <2>2. \A c \in {"", "true", "false", "default", "case"} : <<c, 0>> \in Conditions(0)
    BY <2>1, ConditionsAre
  <2> QED
    BY <2>2 DEF Plainly, OnTrue, OnFalse, OnDefault
<1>2. \A s, d, l : CFGEdge(s, d, l).label = l
  BY DEF CFGEdge
<1>3. \A s, d : \A l \in Conditions(0) : NoCase({CFGEdge(s, d, l)})
  BY <1>2 DEF NoCase
<1>4. \A s : \A l \in Conditions(0) : NoCase(ToNext(s, l))
  BY <1>2 DEF NoCase, ToNext
<1>5. \A s, l : NoCase(ToFirst(s, l))
  BY <1>1, <1>2 DEF NoCase, ToFirst
<1>6. \A e, i : \A l \in Conditions(0) : NoCase(BranchEdges(e, i, l))
  BY <1>2 DEF NoCase, BranchEdges
<1>7. \A l, n : NoCase(insertEdgeFromLastExpr(l, n))
  <2>1. \A e, n, s : NoCase(EdgesFromKind(e, n, s))
    BY <1>1, <1>2 DEF NoCase, EdgesFromKind
  <2> QED
    BY <2>1 DEF NoCase, insertEdgeFromLastExpr, EdgesFrom
<1>8. \A n : NoCase(FallThrough(n))
  BY <1>7 DEF NoCase, FallThrough
<1>9. \A e : NoCase(ThenEdges(e)) /\ NoCase(ElseEdges(e))
  BY <1>1, <1>3, <1>5, <1>8 DEF NoCase, ThenEdges, ElseEdges
<1>10. \A S : NoCase({CFGEdge(n, RetFunc, Plainly) : n \in S})
  BY <1>1, <1>2 DEF NoCase
<1> QED
  BY <1>1, <1>3, <1>4, <1>5, <1>6, <1>7, <1>8, <1>9, <1>10

\* A step of construct is about the same function, and adds finitely many
\* edges: those of one BrTable, or none that is a case.
LEMMA StepsOfConstruct ==
  ASSUME TypeInv, Next
  PROVE  /\ fn' = fn
         /\ \E n \in Nat : \A d \in edges' : d \in edges \/ d.label \in Conditions(n)
<1> DEFINE Few == \A d \in edges' : d \in edges \/ d.label \in Conditions(0)
<1> USE NoCases
<1>1. CASE BeginFunction
  <2>1. fn' = fn
    BY <1>1 DEF BeginFunction
  <2>2. Few
    BY <1>1 DEF BeginFunction, NoCase
  <2> QED
    BY <2>1, <2>2
<1>2. CASE EndOfList
  BY <1>2 DEF EndOfList
<1>3. CASE FinishFunction
  <2>1. fn' = fn
    BY <1>3 DEF FinishFunction
  <2>2. Few
    BY <1>3 DEF FinishFunction, NoCase
  <2> QED
    BY <2>1, <2>2
<1>4. CASE LinkEmptyList
  BY <1>4 DEF LinkEmptyList, Crash
<1>5. ASSUME NEW e \in Exprs,
             VisitReturn(e) \/ VisitUnreachable(e) \/ VisitUnboundBranch(e)
      PROVE  fn' = fn /\ Few
  <2>1. fn' = fn
    BY <1>5 DEF VisitReturn, VisitUnreachable, VisitUnboundBranch, Crash
  <2>2. Few
    BY <1>5 DEF VisitReturn, VisitUnreachable, VisitUnboundBranch, Crash, NoCase
  <2> QED
    BY <2>1, <2>2
<1>6. ASSUME NEW e \in Exprs, VisitBr(e) \/ VisitBrIf(e) \/ VisitCall(e) \/ VisitDefault(e)
      PROVE  fn' = fn /\ Few
  <2>1. fn' = fn
    BY <1>6 DEF VisitBr, VisitBrIf, VisitCall, VisitDefault
  <2>2. Few
    BY <1>6 DEF VisitBr, VisitBrIf, VisitCall, VisitDefault, NoCase
  <2> QED
    BY <2>1, <2>2
<1>7. ASSUME NEW e \in Exprs, EnterBlock(e) \/ LeaveBlock(e) \/ LeaveDeadBlock(e)
      PROVE  fn' = fn /\ Few
  <2>1. fn' = fn
    BY <1>7 DEF EnterBlock, LeaveBlock, LeaveDeadBlock
  <2>2. CASE EnterBlock(e)
    BY <2>1, <2>2 DEF EnterBlock, NoCase
  <2>3. CASE LeaveBlock(e)
    BY <2>1, <2>3 DEF LeaveBlock, NoCase
  <2>4. CASE LeaveDeadBlock(e)
    BY <2>1, <2>4 DEF LeaveDeadBlock, NoCase
  <2> QED
    BY <1>7, <2>2, <2>3, <2>4
<1>8. ASSUME NEW e \in Exprs, EnterLoop(e) \/ LeaveLoop(e)
      PROVE  fn' = fn /\ Few
  <2>1. fn' = fn
    BY <1>8 DEF EnterLoop, LeaveLoop
  <2>2. CASE EnterLoop(e)
    BY <2>1, <2>2 DEF EnterLoop, NoCase
  <2>3. CASE LeaveLoop(e)
    BY <2>1, <2>3 DEF LeaveLoop, NoCase
  <2> QED
    BY <1>8, <2>2, <2>3
<1>9. ASSUME NEW e \in Exprs,
             \/ EnterIf(e) \/ EnterElse(e) \/ LeaveIfWithoutElse(e)
             \/ LeaveElse(e) \/ LeaveDeadIf(e)
      PROVE  fn' = fn /\ Few
  <2>1. fn' = fn
    BY <1>9 DEF EnterIf, EnterElse, LeaveIfWithoutElse, LeaveElse, LeaveDeadIf
  <2>2. CASE EnterIf(e)
    BY <2>1, <2>2 DEF EnterIf, NoCase
  <2>3. CASE EnterElse(e)
    BY <2>1, <2>3 DEF EnterElse, NoCase
  <2>4. CASE LeaveIfWithoutElse(e)
    BY <2>1, <2>4 DEF LeaveIfWithoutElse, ToNextOfJoin, NoCase
  <2>5. CASE LeaveElse(e)
    BY <2>1, <2>5 DEF LeaveElse, ToNextOfJoin, NoCase
  <2>6. CASE LeaveDeadIf(e)
    BY <2>1, <2>6 DEF LeaveDeadIf, NoCase
  <2> QED
    BY <1>9, <2>2, <2>3, <2>4, <2>5, <2>6
<1>10. ASSUME NEW e \in Exprs, VisitBrTable(e)
       PROVE  /\ fn' = fn
              /\ \E n \in Nat : \A d \in edges' : d \in edges \/ d.label \in Conditions(n)
  <2> DEFINE n == Len(fn.targets[e])
  <2>1. fn' = fn
    BY <1>10 DEF VisitBrTable
  <2>2. n \in Nat
    BY FunctionParts, LenProperties DEF TypeInv
  <2>3. edges' = edges \cup BranchEdges(e, n, OnDefault)
                   \cup UNION {BranchEdges(e, i, OnCase(i - 1)) : i \in 1 .. n - 1}
    BY <1>10 DEF VisitBrTable
  <2> HIDE DEF n
  <2>4. \A d \in BranchEdges(e, n, OnDefault) : d.label \in Conditions(n)
    <3>1. Conditions(0) \subseteq Conditions(n)
      BY <2>2, ConditionsAre
    <3>2. NoCase(BranchEdges(e, n, OnDefault))
      OBVIOUS
    <3> QED
      BY <3>1, <3>2 DEF NoCase
  <2>5. ASSUME NEW i \in 1 .. n - 1, NEW d \in BranchEdges(e, i, OnCase(i - 1))
        PROVE  d.label \in Conditions(n)
    <3>1. i - 1 \in 0..n
      BY <2>2
    <3>2. d.label = OnCase(i - 1)
      BY <2>5 DEF BranchEdges, CFGEdge
    <3> QED
      BY <2>2, <3>1, <3>2, ConditionsAre DEF OnCase
  <2>6. \A d \in edges' : d \in edges \/ d.label \in Conditions(n)
    BY <2>3, <2>4, <2>5
  <2> QED
    BY <2>1, <2>2, <2>6
<1> HIDE DEF Few
<1>11. fn' = fn /\ Few => \E n \in Nat : \A d \in edges' : d \in edges \/ d.label \in Conditions(n)
  BY DEF Few
<1> QED
  BY <1>1, <1>2, <1>3, <1>4, <1>5, <1>6, <1>7, <1>8, <1>9, <1>10, <1>11 DEF Next

\* So the edges stay finite.
LEMMA EdgesStayFinite ==
  ASSUME TypeInv, IsFiniteSet(edges), Next
  PROVE  /\ TypeInv' /\ IsFiniteSet(edges') /\ fn' = fn
<1>1. TypeInv'
  BY NextTypes
<1>2. fn' = fn
  BY StepsOfConstruct
<1>3. PICK n \in Nat : \A d \in edges' : d \in edges \/ d.label \in Conditions(n)
  BY StepsOfConstruct
<1> DEFINE E == [src : Nodes, dest : Nodes, label : Conditions(n)]
<1>4. IsFiniteSet(E)
  BY EdgesUpToCase
<1>5. edges' \subseteq [src : Nodes, dest : Nodes, label : EdgeLabels]
  BY <1>1, FixedNodes DEF TypeInv, FlowEdges
<1>6. edges' \subseteq edges \cup E
  BY <1>3, <1>5
<1> HIDE DEF E
<1>7. IsFiniteSet(edges \cup E)
  BY <1>4, FS_Union
<1>8. IsFiniteSet(edges')
  BY <1>6, <1>7, FS_Subset
<1> QED
  BY <1>1, <1>2, <1>8

-----------------------------------------------------------------------------
(* Visits of loops: what they do to the heap. *)

\* One copy is of its own, and has what the original has.
LEMMA OneCopy ==
  ASSUME NEW h, HeapOK(h), NEW r \in 1..Len(h.rds)
  PROVE  LET k == Copies(h, r, 1)
             L == Len(h.rds) + 1
         IN  /\ Changes(h, k, {r}) /\ Extends(h, k) /\ Len(k.rds) = L
             /\ L \in 1..Len(k.rds) /\ Own(k, L)
             /\ \A v \in 1..NumVars : k.defs[k.rds[L].vars[v]] = h.defs[h.rds[r].vars[v]]
<1> DEFINE k == Copies(h, r, 1)
           l == Len(h.rds)
           d == Len(h.defs)
<1>1. 1 \in Nat /\ 1 \in 1..1 /\ l \in Nat /\ d \in Nat /\ NumVars \in Nat
  BY HeapParts, NumVarsAssumption
<1>2. Changes(h, k, {r}) /\ Extends(h, k) /\ Len(k.rds) = l + 1
  BY <1>1, CopiesAre
<1>3. Own(k, l + 1)
  BY <1>1, OwnCopies
<1>4. IsCopy(h, r, k.rds[l + 1], d + (1 - 1) * NumVars)
  BY <1>1, CopiesAre
<1>5. \A v \in 1..NumVars : k.defs[d + v] = h.defs[h.rds[r].vars[v]]
  <2>1. 1 > 0
    OBVIOUS
  <2>2. 1 > 0 => \A v \in 1..NumVars : k.defs[d + v] = h.defs[h.rds[r].vars[v]]
    BY <1>1, CopiesAre
  <2> QED
    BY <2>1, <2>2
<1>6. d + (1 - 1) * NumVars = d
  <2>1. 1 - 1 = 0 /\ 0 * NumVars = 0
    BY <1>1
  <2>2. (1 - 1) * NumVars = 0
    BY <2>1
  <2> HIDE DEF d
  <2> QED
    BY <1>1, <2>2
<1> HIDE DEF k, l, d
<1>7. \A v \in 1..NumVars : k.rds[l + 1].vars[v] = d + v
  BY <1>4, <1>6 DEF IsCopy
<1>8. l + 1 \in 1..Len(k.rds)
  BY <1>1, <1>2
<1> QED
  BY <1>2, <1>3, <1>5, <1>7, <1>8 DEF k, l

\* What a visit of a loop makes of what has come in: it works on that and on
\* the cache.
Reworks(x) ==
  /\ x = [heap |-> x.heap, rd |-> x.rd]
  /\ Changes(heap, x.heap, reach[Here] \cup {cache[Here]})
  /\ x.rd \in 1..Len(x.heap.rds)
  /\ x.rd \in reach[Here] \/ x.rd > Len(heap.rds)

\* What is gathered is that.
LEMMA GatheredReworks ==
  ASSUME Visited, Asserts, cache[Here] \in 1..Len(heap.rds), NEW g \in Gathered
  PROVE  Reworks(g)
<1> DEFINE R == reach[Here]
           S == R \cup {cache[Here]}
<1>1. g = [heap |-> g.heap, rd |-> g.rd]
  BY DEF Gathered
<1>2. g.rd \in R /\ g.rd \in 1..Len(heap.rds) /\ Changes(heap, g.heap, R)
      /\ Len(g.heap.rds) = Len(heap.rds)
  BY GatheredIs
<1>3. HeapOK(heap) /\ S \in SUBSET (1..Len(heap.rds)) /\ R \in SUBSET S
  BY DEF Visited
<1> DEFINE k == g.heap
<1>4. Changes(heap, k, R)
  BY <1>2
<1> HIDE DEF R, S, k
<1>5. Changes(heap, k, S)
  BY <1>3, <1>4, ChangesMore
<1> QED
  BY <1>1, <1>2, <1>5 DEF Reworks, R, S, k

\* What the loop is visited with again, too.
LEMMA EnteringIs ==
  ASSUME Visited, Asserts, cache[Here] \in 1..Len(heap.rds), NEW g \in Gathered
  PROVE  Reworks(Entering(g))
<1> DEFINE c == cache[Here]
           S == reach[Here] \cup {c}
           k == g.heap
           e == Copies(k, c, 1)
           T == {c}
<1>1. CASE ~Hit(g)
  BY <1>1, GatheredReworks DEF Entering
<1>2. CASE Hit(g)
  <2>1. Changes(heap, k, S) /\ HeapOK(k) /\ Len(k.rds) = Len(heap.rds)
    BY GatheredReworks, GatheredIs DEF Reworks
  <2>2. HeapOK(heap) /\ S \in SUBSET (1..Len(heap.rds)) /\ c \in 1..Len(k.rds)
    BY <2>1 DEF Visited
  <2>3. Changes(k, e, {c}) /\ Len(e.rds) = Len(k.rds) + 1 /\ Len(k.rds) + 1 \in 1..Len(e.rds)
    BY <2>1, <2>2, OneCopy
  <2>4. T \in SUBSET (1..Len(k.rds)) /\ (\A q \in T : q \in S \/ q > Len(heap.rds))
        /\ Changes(k, e, T)
    BY <2>2, <2>3
  <2>5. Entering(g) = [heap |-> e, rd |-> Len(k.rds) + 1]
    BY <1>2 DEF Entering
  <2>6. Len(heap.rds) \in Nat
    BY <2>2, HeapParts
  <2>7. Len(k.rds) + 1 > Len(heap.rds)
    BY <2>1, <2>6
  <2> HIDE DEF S, k, e, T
  <2>8. Changes(heap, e, S)
    BY <2>1, <2>2, <2>4, ChangesAfterChanges
  <2> QED
    BY <2>3, <2>5, <2>7, <2>8 DEF Reworks, S, k
<1> QED
  BY <1>1, <1>2

\* And that united with the loop's definitions, which it has all of then.
LEMMA AgainIs ==
  ASSUME Visited, Asserts, cache[Here] \in 1..Len(heap.rds), NEW g \in Gathered,
         loops[Here] \in 1..Len(heap.rds), instType(Here) = "Loop", LoopAsserts(g)
  PROVE  LET e == Entering(g)  x == Again(g)
         IN  /\ Reworks(x)
             /\ \A v \in 1..NumVars :
                  DOMAIN e.heap.defs[e.heap.rds[loops[Here]].vars[v]]
                    \subseteq DOMAIN x.heap.defs[x.heap.rds[x.rd].vars[v]]
<1> DEFINE e == Entering(g)
           L == loops[Here]
           r == e.rd
           k == e.heap
           u == UnionRd(k, r, L)
           T == {r}
           S == reach[Here] \cup {cache[Here]}
<1>1. Reworks(e)
  BY EnteringIs
<1>2. /\ e = [heap |-> k, rd |-> r] /\ Changes(heap, k, S) /\ r \in 1..Len(k.rds)
      /\ r \in reach[Here] \/ r > Len(heap.rds)
  BY <1>1 DEF Reworks
<1>3. HeapOK(heap) /\ S \in SUBSET (1..Len(heap.rds)) /\ L # 0
  <2>1. Len(heap.rds) \in Nat
    BY HeapParts DEF Visited
  <2> QED
    BY <2>1 DEF Visited
<1>4. HeapOK(k) /\ L \in 1..Len(k.rds)
  BY <1>2, <1>3, StillThere
<1>5. Len(k.rds[r].stack) = Len(k.rds[L].stack)
  BY <1>3 DEF LoopAsserts, Unites, rd
<1>6. /\ Grown(k, u, Ids(k.rds[r]))
      /\ \A v \in 1..NumVars : DOMAIN k.defs[k.rds[L].vars[v]]
                                 \subseteq DOMAIN u.defs[k.rds[r].vars[v]]
  BY <1>2, <1>4, <1>5, UnionRdIs
<1>7. u.rds = k.rds
  BY <1>6 DEF Grown
<1>8. T \in SUBSET (1..Len(k.rds)) /\ \A q \in T : q \in S \/ q > Len(heap.rds)
  BY <1>2
<1>9. Changes(k, u, T)
  BY <1>2, <1>4, <1>6, GrownChanges
<1>10. Again(g) = [heap |-> u, rd |-> r]
  <2>1. Again(g) = [e EXCEPT !.heap = u]
    BY DEF Again
  <2> HIDE DEF e, u, k, r
  <2> QED
    BY <1>2, <2>1
<1> HIDE DEF e, k, r, u, T, S, L
<1>11. Changes(heap, u, S)
  BY <1>2, <1>3, <1>8, <1>9, ChangesAfterChanges
<1>12. Reworks(Again(g))
  BY <1>2, <1>7, <1>10, <1>11 DEF Reworks, S
<1>13. \A v \in 1..NumVars :
         DOMAIN k.defs[k.rds[L].vars[v]]
           \subseteq DOMAIN Again(g).heap.defs[Again(g).heap.rds[Again(g).rd].vars[v]]
  BY <1>6, <1>7, <1>10
<1> QED
  BY <1>12, <1>13 DEF e, k, L

\* advance after operations on R.
LEMMA Onwards ==
  ASSUME Walked, work # <<>>, HeapOK(heap), NEW R \in SUBSET (1..Len(heap.rds)),
         NEW h, Changes(heap, h, R), NEW r \in 1..Len(h.rds), r \in R \/ r > Len(heap.rds),
         NEW around \in Seq(Nodes), advance(h, r, around)
  PROVE  /\ Changes(heap, heap', R) /\ Changes(h, heap', {r}) /\ Extends(h, heap')
         /\ reach' \in [Nodes -> SUBSET (1..Len(heap'.rds))]
         /\ reach'[Here] = {}
         /\ \A n \in Nodes : \A q \in reach'[n] : q \in reach[n] \/ q = r \/ q > Len(h.rds)
         /\ work' \in Seq(Items)
         /\ Queued(around)
<1> DEFINE S == {r}
           k == heap'
<1>1. HeapOK(h) /\ Len(heap.rds) <= Len(h.rds)
  BY DEF Changes
<1>2. Changes(h, k, S)
  BY <1>1, Advances
<1>3. S \in SUBSET (1..Len(h.rds)) /\ \A q \in S : q \in R \/ q > Len(heap.rds)
  OBVIOUS
<1> HIDE DEF k, S
<1>4. Changes(heap, k, R)
  BY <1>2, <1>3, ChangesAfterChanges
<1>5. Changes(h, heap', {r}) /\ Extends(h, heap')
  BY <1>1, Advances
<1>6. reach' \in [Nodes -> SUBSET (1..Len(heap'.rds))] /\ reach'[Here] = {}
  BY <1>1, Advances
<1>7. \A n \in Nodes : \A q \in reach'[n] : q \in reach[n] \/ q = r \/ q > Len(h.rds)
  BY <1>1, Advances
<1>8. work' \in Seq(Items)
  BY <1>1, Advances
<1>9. Queued(around)
  BY <1>1, Advances
<1> QED
  BY <1>4, <1>5, <1>6, <1>7, <1>8, <1>9 DEF k

-----------------------------------------------------------------------------
(* The invariant. *)

\* All pointers lead to objects, and a loop that has definitions of its own has
\* a cache.
Pointers ==
  /\ reach \in [Nodes -> SUBSET (1..Len(heap.rds))]
  /\ entrances \in [Nodes -> SUBSET (1..Len(heap.rds))]
  /\ loops \in [Nodes -> 0..Len(heap.rds)]
  /\ cache \in [Nodes -> 0..Len(heap.rds)]
  /\ \A n \in Nodes : loops[n] # 0 => cache[n] # 0

\* The types of the state; there is no object before the CFG is there.
PdgInv ==
  /\ IsProgram(code) /\ fn = code.fn
  /\ TypeInv /\ IsFiniteSet(edges)
  /\ phase \in {"cfg", "pdg", "done", "aborted"}
  /\ phase = "cfg" => heap = [defs |-> <<>>, rds |-> <<>>]
  /\ HeapOK(heap) /\ Pointers
  /\ work \in Seq(Items)
  /\ begun \in [Nodes -> SUBSET Nodes]

\* What a loop keeps as its definitions is not what comes in anywhere, no
\* cache, and its definitions of the variables are no other object's: nothing
\* but visitLoopInst puts others in their place.
OwnDefs ==
  \A n \in Nodes : loops[n] # 0 =>
    /\ Own(heap, loops[n])
    /\ \A m \in Nodes : loops[n] \notin reach[m] /\ loops[n] # cache[m]

\* Each of the loops of an item is one that has been visited, and is inside of
\* those below it.
Nested(s) ==
  \A k \in 1..Len(s) :
    /\ instType(s[k]) = "Loop" /\ loops[s[k]] # 0
    /\ \A j \in 1 .. k - 1 : s[k][2] \in Below[s[j][2]] \ {s[j][2]}

NestedInv ==
  /\ \A i \in 1..Len(work) : Nested(work[i].loops)
  /\ \A n \in Nodes : \A m \in begun[n] : instType(m) = "BeginBlock"

\* With the invariant, a visit is one of a node of a program.
LEMMA VisitedFrom ==
  ASSUME PdgInv, work # <<>>
  PROVE  Visited /\ Walked /\ HeapOK(heap) /\ Here \in Nodes /\ Around \in Seq(Nodes)
<1>1. Here \in Nodes /\ Around \in Seq(Nodes)
  BY FrontItem DEF PdgInv
<1>2. reach[Here] \subseteq 1..Len(heap.rds)
  BY <1>1 DEF PdgInv, Pointers
<1>3. IsBody(fn)
  BY DEF PdgInv, IsProgram
<1>4. edges \subseteq CFGEdges
  BY FixedNodes DEF PdgInv, TypeInv, FlowEdges, CFGEdges
<1> QED
  BY <1>1, <1>2, <1>3, <1>4 DEF Visited, Walked, PdgInv, Pointers

\* What a visit works on.
Touched == reach[Here] \cup ({cache[Here]} \ {0})
New(r)  == r > Len(heap.rds)

\* The loop gets new definitions, that are its own and in which the old ones
\* have grown.
Renewed ==
  LET L == loops'[Here]
  IN  /\ New(L) /\ Own(heap', L)
      /\ \A m \in Nodes : L \notin reach'[m] /\ L # cache'[m]
      /\ loops[Here] # 0 =>
           \A v \in 1..NumVars : DOMAIN heap.defs[heap.rds[loops[Here]].vars[v]]
                                   \subseteq DOMAIN heap'.defs[heap'.rds[L].vars[v]]

\* The loops that the successors are in.
Next_loops(around) ==
  \/ around = Around
  \/ /\ instType(Here) = "Loop" /\ loops'[Here] # 0 /\ around = Append(Around, Here)
     /\ loops[Here] = 0 \/ ~TopIs(Here)
  \/ Around # <<>> /\ around = Front(Around)

\* What all visits have in common.
GoesOn ==
  /\ UNCHANGED <<code, phase>>
  /\ phase = "pdg" /\ work # <<>> /\ ~waitPaths
  /\ Changes(heap, heap', Touched)
  /\ Pointers'
  /\ \A n \in Nodes : \A q \in reach'[n] : q \in reach[n] \/ q \in reach[Here] \/ New(q)
  /\ \A n \in Nodes : cache'[n] = cache[n] \/ New(cache'[n])
  /\ \A n \in Nodes : loops'[n] = loops[n] \/ (n = Here /\ Renewed)
  /\ work' \in Seq(Items)
  /\ begun' \in {begun, Begun}
  /\ \E around : Next_loops(around) /\ Queued(around)

\* Pointers stay pointers when there are more objects.
LEMMA PointersStay ==
  ASSUME PdgInv, Len(heap.rds) <= Len(heap'.rds), Len(heap'.rds) \in Nat
  PROVE  /\ \A n \in Nodes : reach[n] \in SUBSET (1..Len(heap'.rds))
         /\ entrances \in [Nodes -> SUBSET (1..Len(heap'.rds))]
         /\ loops \in [Nodes -> 0..Len(heap'.rds)]
         /\ cache \in [Nodes -> 0..Len(heap'.rds)]
         /\ reach \in [Nodes -> SUBSET (1..Len(heap'.rds))]
<1> DEFINE k == Len(heap.rds)
           l == Len(heap'.rds)
<1>1. k \in Nat
  BY HeapParts DEF PdgInv
<1>2. 1..k \subseteq 1..l /\ 0..k \subseteq 0..l
  BY <1>1
<1>3. /\ reach \in [Nodes -> SUBSET (1..k)]
      /\ entrances \in [Nodes -> SUBSET (1..k)]
      /\ loops \in [Nodes -> 0..k]
      /\ cache \in [Nodes -> 0..k]
  BY DEF PdgInv, Pointers
<1> HIDE DEF k, l
<1>4. /\ reach \in [Nodes -> SUBSET (1..l)]
      /\ entrances \in [Nodes -> SUBSET (1..l)]
  BY <1>2, <1>3
<1>5. /\ loops \in [Nodes -> 0..l]
      /\ cache \in [Nodes -> 0..l]
  BY <1>2, <1>3
<1> QED
  BY <1>4, <1>5 DEF l

\* The visits of all nodes but loops.
LEMMA OrdinaryGoesOn ==
  ASSUME PdgInv, Ordinary, Goes
  PROVE  GoesOn
<1> DEFINE R == reach[Here]
<1>1. Visited /\ Walked /\ HeapOK(heap) /\ Here \in Nodes /\ Around \in Seq(Nodes) /\ work # <<>>
  BY VisitedFrom DEF Ordinary
<1>2. PICK h : \E r \in R : Changes(heap, h, R) /\ advance(h, r, Around)
  BY DEF Goes
<1>3. PICK r \in R : Changes(heap, h, R) /\ advance(h, r, Around)
  BY <1>2
<1>4. R \in SUBSET (1..Len(heap.rds))
  BY <1>1 DEF Visited
<1>5. r \in 1..Len(h.rds) /\ Len(heap.rds) \in Nat /\ Len(h.rds) >= Len(heap.rds)
      /\ Len(h.rds) \in Nat
  BY <1>1, <1>3, <1>4, StillThere, HeapParts DEF Changes
<1> DEFINE around == Around
<1>6. /\ around \in Seq(Nodes) /\ advance(h, r, around)
  BY <1>1, <1>3
<1> HIDE DEF R, around
<1>7. Changes(heap, heap', R)
  BY <1>1, <1>3, <1>4, <1>5, <1>6, Onwards
<1>8. reach' \in [Nodes -> SUBSET (1..Len(heap'.rds))]
  BY <1>1, <1>3, <1>4, <1>5, <1>6, Onwards
<1>9. \A n \in Nodes : \A q \in reach'[n] : q \in reach[n] \/ q = r \/ q > Len(h.rds)
  BY <1>1, <1>3, <1>4, <1>5, <1>6, Onwards
<1>10. work' \in Seq(Items) /\ Queued(around)
  BY <1>1, <1>3, <1>4, <1>5, <1>6, Onwards
<1>11. HeapOK(heap') /\ Len(heap.rds) <= Len(heap'.rds) /\ Len(heap'.rds) \in Nat
  BY <1>7, HeapParts DEF Changes
<1>12. Pointers'
  BY <1>8, <1>11, PointersStay DEF Ordinary, Pointers, PdgInv
<1>13. \A n \in Nodes : \A q \in reach'[n] : q \in reach[n] \/ q \in reach[Here] \/ New(q)
  <2> TAKE n \in Nodes
  <2> TAKE q \in reach'[n]
  <2>1. q \in reach[n] \/ q = r \/ q > Len(h.rds)
    BY <1>9
  <2>2. q \in 1..Len(heap'.rds)
    BY <1>8
  <2>3. q > Len(h.rds) => q > Len(heap.rds)
    BY <1>5, <1>11, <2>2
  <2> QED
    BY <1>3, <2>1, <2>3 DEF New, R
<1>14. Changes(heap, heap', Touched)
  <2> DEFINE T == Touched
  <2>1. T \in SUBSET (1..Len(heap.rds)) /\ R \in SUBSET T
    <3>1. cache[Here] \in 0..Len(heap.rds)
      BY <1>1 DEF PdgInv, Pointers
    <3>2. {cache[Here]} \ {0} \subseteq 1..Len(heap.rds)
      BY <1>5, <3>1
    <3> QED
      BY <1>4, <3>2 DEF Touched, R
  <2> HIDE DEF T
  <2>2. Changes(heap, heap', T)
    BY <1>1, <1>7, <2>1, ChangesMore
  <2> QED
    BY <2>2 DEF T
<1>15. \E ls : Next_loops(ls) /\ Queued(ls)
  BY <1>10 DEF Next_loops, around
<1>16. /\ UNCHANGED <<code, phase>>
       /\ phase = "pdg" /\ work # <<>> /\ ~waitPaths
       /\ \A n \in Nodes : cache'[n] = cache[n]
       /\ \A n \in Nodes : loops'[n] = loops[n]
       /\ begun' = Begun
  BY DEF Ordinary
<1> QED
  BY <1>10, <1>12, <1>13, <1>14, <1>15, <1>16 DEF GoesOn

-----------------------------------------------------------------------------
(* Visits of loops: what they have in common with the others. *)

\* What a visit works on are objects.
LEMMA TouchedAre ==
  ASSUME PdgInv, work # <<>>
  PROVE  /\ Touched \in SUBSET (1..Len(heap.rds)) /\ Len(heap.rds) \in Nat
         /\ cache[Here] # 0 => /\ cache[Here] \in 1..Len(heap.rds)
                               /\ Touched = reach[Here] \cup {cache[Here]}
<1>1. Visited /\ HeapOK(heap) /\ Here \in Nodes
  BY VisitedFrom
<1>2. Len(heap.rds) \in Nat /\ cache[Here] \in 0..Len(heap.rds)
  BY <1>1, HeapParts DEF PdgInv, Pointers
<1>3. cache[Here] # 0 => cache[Here] \in 1..Len(heap.rds)
  BY <1>2
<1> QED
  BY <1>1, <1>2, <1>3 DEF Touched, Visited

\* The end of a visit that goes on with a copy of what it has made.
LEMMA AdvanceGoes ==
  ASSUME PdgInv, work # <<>>, NEW h, Changes(heap, h, Touched), NEW r \in 1..Len(h.rds),
         r \in reach[Here] \/ New(r), NEW around \in Seq(Nodes), advance(h, r, around)
  PROVE  /\ Changes(heap, heap', Touched) /\ Changes(h, heap', {r}) /\ HeapOK(h)
         /\ reach' \in [Nodes -> SUBSET (1..Len(heap'.rds))]
         /\ \A n \in Nodes : \A q \in reach'[n] : q \in reach[n] \/ q = r \/ q > Len(h.rds)
         /\ \A n \in Nodes : \A q \in reach'[n] :
              q \in reach[n] \/ q \in reach[Here] \/ New(q)
         /\ work' \in Seq(Items) /\ Queued(around)
         /\ Len(h.rds) \in Nat /\ Len(heap'.rds) \in Nat
         /\ Len(heap.rds) <= Len(h.rds) /\ Len(h.rds) <= Len(heap'.rds)
         /\ Len(heap.rds) <= Len(heap'.rds)
<1> DEFINE R == Touched
<1>1. Visited /\ Walked /\ HeapOK(heap) /\ Here \in Nodes
  BY VisitedFrom
<1>2. R \in SUBSET (1..Len(heap.rds)) /\ Len(heap.rds) \in Nat
  BY TouchedAre
<1>3. r \in R \/ r > Len(heap.rds)
  BY DEF New, Touched
<1>4. Changes(heap, h, R)
  OBVIOUS
<1> HIDE DEF R
<1>5. Changes(heap, heap', R) /\ Changes(h, heap', {r})
  BY <1>1, <1>2, <1>3, <1>4, Onwards
<1>6. reach' \in [Nodes -> SUBSET (1..Len(heap'.rds))]
  BY <1>1, <1>2, <1>3, <1>4, Onwards
<1>7. \A n \in Nodes : \A q \in reach'[n] : q \in reach[n] \/ q = r \/ q > Len(h.rds)
  BY <1>1, <1>2, <1>3, <1>4, Onwards
<1>8. work' \in Seq(Items) /\ Queued(around)
  BY <1>1, <1>2, <1>3, <1>4, Onwards
<1>9. HeapOK(h) /\ HeapOK(heap') /\ Len(heap.rds) <= Len(h.rds) /\ Len(h.rds) <= Len(heap'.rds)
  BY <1>4, <1>5 DEF Changes
<1>10. /\ Len(h.rds) \in Nat /\ Len(heap'.rds) \in Nat
       /\ Len(heap.rds) <= Len(heap'.rds)
  <2>1. Len(h.rds) \in Nat /\ Len(heap'.rds) \in Nat
    BY <1>9, HeapParts
  <2> QED
    BY <1>2, <1>9, <2>1
<1>11. \A n \in Nodes : \A q \in reach'[n] : q \in reach[n] \/ q \in reach[Here] \/ New(q)
  <2> TAKE n \in Nodes
  <2> TAKE q \in reach'[n]
  <2>1. q \in reach[n] \/ q = r \/ q > Len(h.rds)
    BY <1>7
  <2>2. q \in 1..Len(heap'.rds)
    BY <1>6
  <2>3. q > Len(h.rds) => q > Len(heap.rds)
    BY <1>2, <1>9, <1>10, <2>2
  <2> QED
    BY <2>1, <2>3 DEF New
<1> QED
  BY <1>5, <1>6, <1>7, <1>8, <1>9, <1>10, <1>11 DEF R

\* Another object that the visit has made stays as it is, and comes in nowhere.
LEMMA OthersStay ==
  ASSUME PdgInv, work # <<>>, NEW h, Changes(heap, h, Touched), NEW r \in 1..Len(h.rds),
         r \in reach[Here] \/ New(r), NEW around \in Seq(Nodes), advance(h, r, around),
         NEW L \in 1..Len(h.rds), New(L), L # r, Own(h, L)
  PROVE  /\ Own(heap', L) /\ L \in 1..Len(heap'.rds)
         /\ \A m \in Nodes : L \notin reach'[m]
         /\ \A v \in 1..NumVars : heap'.defs[heap'.rds[L].vars[v]] = h.defs[h.rds[L].vars[v]]
<1> DEFINE S == {r}
           k == heap'
<1>1. Changes(h, k, S) /\ HeapOK(h)
  BY AdvanceGoes
<1>2. S \in SUBSET (1..Len(h.rds)) /\ L \notin S
  OBVIOUS
<1> HIDE DEF S, k
<1>3. /\ Own(k, L) /\ k.rds[L] = h.rds[L]
      /\ \A v \in 1..NumVars : k.defs[h.rds[L].vars[v]] = h.defs[h.rds[L].vars[v]]
  <2>1. ObjectStays(h, k, L)
    BY <1>1, <1>2, OwnStays
  <2> QED
    BY <2>1 DEF ObjectStays
<1>4. L \in 1..Len(heap'.rds)
  <2>1. Len(h.rds) \in Nat /\ Len(heap'.rds) \in Nat /\ Len(h.rds) <= Len(heap'.rds)
    BY AdvanceGoes
  <2> QED
    BY <2>1
<1>5. ASSUME NEW m \in Nodes, L \in reach'[m]
      PROVE  FALSE
  <2>1. L \in reach[m] \/ L = r \/ L > Len(h.rds)
    BY <1>5, AdvanceGoes
  <2>2. L \notin reach[m]
    <3>1. reach[m] \subseteq 1..Len(heap.rds) /\ Len(heap.rds) \in Nat
      BY TouchedAre DEF PdgInv, Pointers
    <3> QED
      BY <3>1 DEF New
  <2>3. ~(L > Len(h.rds))
    BY AdvanceGoes
  <2> QED
    BY <2>1, <2>2, <2>3
<1> QED
  BY <1>3, <1>4, <1>5 DEF k

\* A visit of a loop changes the pointers of this loop only.
LEMMA LoopPointers ==
  ASSUME PdgInv, work # <<>>, Len(heap'.rds) \in Nat, Len(heap.rds) <= Len(heap'.rds),
         reach' \in [Nodes -> SUBSET (1..Len(heap'.rds))],
         NEW l \in 0..Len(heap'.rds), NEW c \in 1..Len(heap'.rds), NEW E,
         E \subseteq 1..Len(heap'.rds),
         loops' = [loops EXCEPT ![Here] = l], cache' = [cache EXCEPT ![Here] = c],
         entrances' = [entrances EXCEPT ![Here] = E]
  PROVE  Pointers'
<1> DEFINE k == Len(heap'.rds)
           here == Here
<1>1. /\ here \in Nodes
      /\ entrances \in [Nodes -> SUBSET (1..k)]
      /\ loops \in [Nodes -> 0..k]
      /\ cache \in [Nodes -> 0..k]
      /\ \A n \in Nodes : loops[n] # 0 => cache[n] # 0
  BY VisitedFrom, PointersStay DEF PdgInv, Pointers
<1>2. k \in Nat /\ E \in SUBSET (1..k)
  OBVIOUS
<1> HIDE DEF k, here
<1>3. entrances' \in [Nodes -> SUBSET (1..k)]
  BY <1>1, <1>2 DEF here
<1>4. loops' \in [Nodes -> 0..k]
  BY <1>1 DEF here, k
<1>5. cache' \in [Nodes -> 0..k]
  <2>1. c \in 0..k
    BY <1>2 DEF k
  <2> QED
    BY <1>1, <2>1 DEF here
<1>6. \A n \in Nodes : loops'[n] # 0 => cache'[n] # 0
  <2>1. c # 0
    BY <1>2
  <2> TAKE n \in Nodes
  <2>2. CASE n = here
    BY <1>1, <2>1, <2>2 DEF here
  <2>3. CASE n # here
    BY <1>1, <2>3 DEF here
  <2> QED
    BY <2>2, <2>3
<1> QED
  BY <1>3, <1>4, <1>5, <1>6 DEF Pointers, k

\* Loops are nodes, and may be put on the loops that there are.
LEMMA LoopsAround ==
  ASSUME PdgInv, work # <<>>
  PROVE  /\ Append(Around, Here) \in Seq(Nodes)
         /\ TopIs(Here) => Around # <<>> /\ Front(Around) \in Seq(Nodes)
         /\ entrances[Here] \subseteq 1..Len(heap.rds)
         /\ entrances = [entrances EXCEPT ![Here] = entrances[Here]]
         /\ loops = [loops EXCEPT ![Here] = loops[Here]]
         /\ cache = [cache EXCEPT ![Here] = cache[Here]]
<1>1. Here \in Nodes /\ Around \in Seq(Nodes)
  BY VisitedFrom
<1>2. Append(Around, Here) \in Seq(Nodes)
  BY <1>1
<1>3. TopIs(Here) => Around # <<>> /\ Front(Around) \in Seq(Nodes)
  <2> DEFINE s == Around
             N == Nodes
  <2>1. s \in Seq(N)
    BY <1>1
  <2> HIDE DEF s, N
  <2>2. s # <<>> => Front(s) \in Seq(N)
    BY <2>1 DEF Front
  <2> QED
    BY <2>2 DEF TopIs, s, N
<1>4. /\ reach \in [Nodes -> SUBSET (1..Len(heap.rds))]
      /\ entrances \in [Nodes -> SUBSET (1..Len(heap.rds))]
      /\ loops \in [Nodes -> 0..Len(heap.rds)]
      /\ cache \in [Nodes -> 0..Len(heap.rds)]
  BY DEF PdgInv, Pointers
<1> QED
  BY <1>1, <1>2, <1>3, <1>4

\* The first visit of a loop.
LEMMA FirstGoesOn ==
  ASSUME PdgInv, visitLoopFirst
  PROVE  GoesOn
<1>1. work # <<>> /\ phase = "pdg" /\ ~waitPaths /\ Asserts /\ loops[Here] = 0
      /\ instType(Here) = "Loop"
  BY DEF visitLoopFirst, Visits
<1>2. UNCHANGED <<code, entrances, begun, phase>>
  BY DEF visitLoopFirst
<1>3. PICK g \in Gathered :
        /\ cache' = [cache EXCEPT ![Here] = Len(g.heap.rds) + 1]
        /\ loops' = [loops EXCEPT ![Here] = Len(g.heap.rds) + 2]
        /\ advance(Copies(g.heap, g.rd, 2), g.rd, Append(Around, Here))
  BY DEF visitLoopFirst
<1> DEFINE n == Len(heap.rds)
           r == g.rd
           k == g.heap
           h == Copies(k, r, 2)
           R == Touched
           S == {r}
           around == Append(Around, Here)
           L == n + 2
<1>4. Visited /\ HeapOK(heap) /\ Here \in Nodes
  BY <1>1, VisitedFrom
<1>5. r \in reach[Here] /\ r \in 1..n /\ Changes(heap, k, reach[Here]) /\ HeapOK(k)
      /\ Len(k.rds) = n
  BY <1>1, <1>4, GatheredIs
<1>6. R \in SUBSET (1..n) /\ n \in Nat /\ reach[Here] \in SUBSET R
  BY <1>1, TouchedAre DEF Touched
<1>7. 2 \in Nat /\ 2 \in 1..2
  OBVIOUS
<1>8. Changes(k, h, {r}) /\ Len(h.rds) = n + 2
  <2>1. Changes(k, h, {r})
    BY <1>5, <1>7, CopiesAre
  <2>2. Len(h.rds) = Len(k.rds) + 2
    BY <1>5, <1>7, CopiesAre
  <2> QED
    BY <1>5, <2>1, <2>2
<1>9. Own(h, n + 2)
  BY <1>5, <1>7, OwnCopies
<1>10. /\ Changes(k, h, S) /\ S \in SUBSET (1..Len(k.rds))
       /\ \A q \in S : q \in reach[Here] \/ q > Len(heap.rds)
  BY <1>5, <1>8
<1>11. around \in Seq(Nodes) /\ advance(h, r, around)
       /\ cache' = [cache EXCEPT ![Here] = n + 1] /\ loops' = [loops EXCEPT ![Here] = n + 2]
  BY <1>1, <1>3, <1>5, LoopsAround
<1> DEFINE Q == reach[Here]
<1>12. /\ Q \in SUBSET R /\ Changes(heap, k, Q) /\ Q \in SUBSET (1..Len(heap.rds))
       /\ \A q \in S : q \in Q \/ q > Len(heap.rds)
  BY <1>5, <1>6, <1>10
<1> HIDE DEF k, h, R, S, Q, around
<1>13. Changes(heap, h, Q)
  BY <1>4, <1>10, <1>12, ChangesAfterChanges
<1>14. Changes(heap, h, R)
  BY <1>4, <1>6, <1>12, <1>13, ChangesMore
<1>15. r \in 1..Len(h.rds) /\ L \in 1..Len(h.rds) /\ New(L) /\ L # r
  BY <1>5, <1>6, <1>8 DEF New
<1>16. Changes(heap, h, Touched) /\ (r \in reach[Here] \/ New(r))
  BY <1>5, <1>14 DEF R
<1> HIDE DEF L, r
<1>17. Own(h, L)
  BY <1>9 DEF L
<1>18. /\ Changes(heap, heap', Touched)
       /\ reach' \in [Nodes -> SUBSET (1..Len(heap'.rds))]
       /\ \A m \in Nodes : \A q \in reach'[m] : q \in reach[m] \/ q \in reach[Here] \/ New(q)
       /\ work' \in Seq(Items) /\ Queued(around)
  BY <1>1, <1>11, <1>15, <1>16, AdvanceGoes
<1>19. Len(heap'.rds) \in Nat /\ Len(heap.rds) <= Len(heap'.rds) /\ Len(h.rds) <= Len(heap'.rds)
  BY <1>1, <1>11, <1>15, <1>16, AdvanceGoes
<1>20. Own(heap', L) /\ \A m \in Nodes : L \notin reach'[m]
  BY <1>1, <1>11, <1>15, <1>16, <1>17, OthersStay
<1>21. Pointers'
  <2>1. n + 1 \in 1..Len(heap'.rds) /\ n + 2 \in 0..Len(heap'.rds)
        /\ entrances[Here] \subseteq 1..Len(heap'.rds)
    <3>1. entrances[Here] \subseteq 1..Len(heap.rds)
      BY <1>1, LoopsAround
    <3> QED
      BY <1>6, <1>8, <1>19, <3>1
  <2>2. entrances' = [entrances EXCEPT ![Here] = entrances[Here]]
    BY <1>1, <1>2, LoopsAround
  <2> QED
    BY <1>1, <1>11, <1>18, <1>19, <2>1, <2>2, LoopPointers
<1>22. /\ loops \in [Nodes -> 0..n] /\ cache \in [Nodes -> 0..n]
  BY DEF PdgInv, Pointers
<1>23. \A m \in Nodes : cache'[m] = cache[m] \/ New(cache'[m])
  BY <1>4, <1>6, <1>11, <1>22 DEF New
<1>24. Renewed
  <2>1. loops'[Here] = L
    BY <1>4, <1>11, <1>22 DEF L
  <2>2. \A m \in Nodes : L # cache'[m]
    BY <1>4, <1>6, <1>11, <1>22 DEF L
  <2> QED
    BY <1>1, <1>15, <1>20, <2>1, <2>2 DEF Renewed
<1>25. \A m \in Nodes : loops'[m] = loops[m] \/ (m = Here /\ Renewed)
  BY <1>11, <1>22, <1>24
<1>26. Next_loops(around)
  <2>1. loops'[Here] # 0
    BY <1>4, <1>6, <1>11, <1>22
  <2> QED
    BY <1>1, <2>1 DEF Next_loops, around
<1> QED
  BY <1>1, <1>2, <1>18, <1>21, <1>23, <1>25, <1>26 DEF GoesOn

\* The copy of what a loop has been visited with again is of its own.
Copied(x) ==
  LET h == Copies(x.heap, x.rd, 1)
      L == Len(x.heap.rds) + 1
  IN  /\ Changes(heap, h, Touched) /\ HeapOK(h) /\ Len(h.rds) = L
      /\ x.rd \in 1..Len(h.rds)
      /\ x.rd \in reach[Here] \/ New(x.rd)
      /\ L \in 1..Len(h.rds) /\ New(L) /\ L # x.rd /\ Own(h, L)
      /\ \A v \in 1..NumVars :
           h.defs[h.rds[L].vars[v]] = x.heap.defs[x.heap.rds[x.rd].vars[v]]

\* So it is on every visit after the first.
LEMMA CopiedAgain ==
  ASSUME PdgInv, VisitsAgain, NEW g \in Gathered, LoopAsserts(g)
  PROVE  /\ Copied(Again(g)) /\ Visited /\ Asserts /\ work # <<>>
         /\ loops[Here] \in 1..Len(heap.rds) /\ cache[Here] \in 1..Len(heap.rds)
         /\ instType(Here) = "Loop" /\ Touched = reach[Here] \cup {cache[Here]}
<1>1. work # <<>> /\ Asserts /\ loops[Here] # 0 /\ instType(Here) = "Loop"
  BY DEF VisitsAgain, Visits
<1>2. Visited /\ HeapOK(heap) /\ Here \in Nodes
  BY <1>1, VisitedFrom
<1> DEFINE n == Len(heap.rds)
           x == Again(g)
           k == x.heap
           r == x.rd
           h == Copies(k, r, 1)
           R == Touched
           S == {r}
<1>3. R \in SUBSET (1..n) /\ n \in Nat
  BY <1>1, TouchedAre
<1>4. loops[Here] \in 1..n /\ cache[Here] \in 1..n
  <2>1. loops[Here] \in 0..n /\ cache[Here] # 0
    BY <1>1, <1>2 DEF PdgInv, Pointers
  <2> QED
    BY <1>1, <1>3, <2>1, TouchedAre
<1>5. R = reach[Here] \cup {cache[Here]}
  BY <1>1, <1>3, <1>4, TouchedAre
<1>6. Reworks(x)
  BY <1>1, <1>2, <1>4, AgainIs
<1>7. Changes(heap, k, R) /\ r \in 1..Len(k.rds) /\ (r \in reach[Here] \/ r > n)
  BY <1>5, <1>6 DEF Reworks
<1>8. HeapOK(k) /\ n <= Len(k.rds)
  BY <1>7 DEF Changes
<1>9. Len(k.rds) \in Nat
  BY <1>8, HeapParts
<1>10. /\ Changes(k, h, {r}) /\ Len(h.rds) = Len(k.rds) + 1
       /\ Len(k.rds) + 1 \in 1..Len(h.rds) /\ Own(h, Len(k.rds) + 1)
       /\ \A v \in 1..NumVars :
            h.defs[h.rds[Len(k.rds) + 1].vars[v]] = k.defs[k.rds[r].vars[v]]
  BY <1>7, <1>8, OneCopy
<1>11. /\ Changes(k, h, S) /\ S \in SUBSET (1..Len(k.rds))
       /\ \A q \in S : q \in R \/ q > Len(heap.rds)
  BY <1>5, <1>7, <1>10
<1> HIDE DEF x, k, r, h, S, R
<1>12. Changes(heap, h, R)
  BY <1>2, <1>3, <1>7, <1>11, ChangesAfterChanges
<1>13. HeapOK(h)
  BY <1>12 DEF Changes
<1>14. r \in 1..Len(h.rds) /\ Len(k.rds) + 1 > n /\ Len(k.rds) + 1 # r
  BY <1>3, <1>7, <1>8, <1>9, <1>10
<1>15. Copied(x)
  BY <1>7, <1>10, <1>12, <1>13, <1>14 DEF Copied, New, R, h, k, r
<1> QED
  BY <1>1, <1>2, <1>4, <1>5, <1>15 DEF x, R

\* And it has all that the loop's definitions have.
LEMMA CopiedHasAll ==
  ASSUME PdgInv, OwnDefs, VisitsAgain, NEW g \in Gathered, LoopAsserts(g), NEW v \in 1..NumVars
  PROVE  LET x == Again(g)
             h == Copies(x.heap, x.rd, 1)
         IN  DOMAIN heap.defs[heap.rds[loops[Here]].vars[v]]
               \subseteq DOMAIN h.defs[h.rds[Len(x.heap.rds) + 1].vars[v]]
<1> DEFINE x == Again(g)
           e == Entering(g)
           k == e.heap
           L == loops[Here]
           R == Touched
<1>1. /\ Copied(x) /\ Visited /\ Asserts /\ work # <<>> /\ L \in 1..Len(heap.rds)
      /\ cache[Here] \in 1..Len(heap.rds) /\ instType(Here) = "Loop"
      /\ R = reach[Here] \cup {cache[Here]}
  BY CopiedAgain
<1>2. Changes(heap, k, R)
  BY <1>1, EnteringIs DEF Reworks
<1>3. HeapOK(heap) /\ Here \in Nodes /\ R \in SUBSET (1..Len(heap.rds)) /\ Len(heap.rds) \in Nat
  BY <1>1, VisitedFrom, TouchedAre
<1>4. L # 0
  BY <1>1, <1>3
<1>5. L \notin R /\ Own(heap, L)
  BY <1>1, <1>3, <1>4 DEF OwnDefs
<1>6. DOMAIN k.defs[k.rds[L].vars[v]] \subseteq DOMAIN x.heap.defs[x.heap.rds[x.rd].vars[v]]
  BY <1>1, AgainIs
<1> HIDE DEF x, e, k, L, R
<1>7. k.rds[L] = heap.rds[L]
      /\ k.defs[heap.rds[L].vars[v]] = heap.defs[heap.rds[L].vars[v]]
  <2>1. L \in 1..Len(heap.rds) /\ HeapOK(heap)
    BY <1>1, <1>3
  <2>2. ObjectStays(heap, k, L)
    BY <1>2, <1>3, <1>5, <2>1, OwnStays
  <2> QED
    BY <2>2 DEF ObjectStays
<1> DEFINE h == Copies(x.heap, x.rd, 1)
<1>8. h.defs[h.rds[Len(x.heap.rds) + 1].vars[v]] = x.heap.defs[x.heap.rds[x.rd].vars[v]]
  BY <1>1 DEF Copied
<1> HIDE DEF h
<1>9. DOMAIN heap.defs[heap.rds[L].vars[v]]
        \subseteq DOMAIN h.defs[h.rds[Len(x.heap.rds) + 1].vars[v]]
  BY <1>6, <1>7, <1>8
<1> QED
  BY <1>9 DEF h, x, L

\* What a loop keeps of how it has been entered are objects.
LEMMA EntrancesAre ==
  ASSUME PdgInv, work # <<>>, Asserts, NEW g \in Gathered
  PROVE  \E E : E \subseteq 1..Len(heap.rds) /\ Entrances(g) = [entrances EXCEPT ![Here] = E]
<1>1. entrances[Here] \subseteq 1..Len(heap.rds)
      /\ entrances = [entrances EXCEPT ![Here] = entrances[Here]]
  BY LoopsAround
<1>2. g.rd \in 1..Len(heap.rds)
  BY VisitedFrom, GatheredIs
<1>3. CASE Entrances(g) = entrances
  BY <1>1, <1>3
<1>4. CASE Entrances(g) = [entrances EXCEPT ![Here] = entrances[Here] \cup {g.rd}]
  BY <1>1, <1>2, <1>4
<1> QED
  BY <1>3, <1>4 DEF Entrances

\* A visit that finds something new.
LEMMA ChangedGoesOn ==
  ASSUME PdgInv, OwnDefs, visitLoopChanged
  PROVE  GoesOn
<1>1. VisitsAgain /\ UNCHANGED <<code, cache, begun, pdg, phase>>
  BY DEF visitLoopChanged
<1>2. PICK g \in Gathered :
        /\ LoopAsserts(g) /\ ~Unchanged(Again(g)) /\ entrances' = Entrances(g)
        /\ loops' = [loops EXCEPT ![Here] = Len(Again(g).heap.rds) + 1]
        /\ advance(Copies(Again(g).heap, Again(g).rd, 1), Again(g).rd,
                   IF TopIs(Here) THEN Around ELSE Append(Around, Here))
  BY DEF visitLoopChanged
<1> DEFINE x == Again(g)
           h == Copies(x.heap, x.rd, 1)
           r == x.rd
           L == Len(x.heap.rds) + 1
           around == IF TopIs(Here) THEN Around ELSE Append(Around, Here)
<1>3. /\ Copied(x) /\ Asserts /\ work # <<>> /\ loops[Here] \in 1..Len(heap.rds)
      /\ instType(Here) = "Loop" /\ cache[Here] \in 1..Len(heap.rds)
  BY <1>1, <1>2, CopiedAgain
<1>4. /\ Changes(heap, h, Touched) /\ r \in 1..Len(h.rds) /\ (r \in reach[Here] \/ New(r))
      /\ L \in 1..Len(h.rds) /\ New(L) /\ L # r /\ Own(h, L)
  BY <1>3 DEF Copied
<1>5. around \in Seq(Nodes) /\ Here \in Nodes /\ Len(heap.rds) \in Nat
  BY <1>3, LoopsAround, VisitedFrom, TouchedAre
<1>6. advance(h, r, around) /\ loops' = [loops EXCEPT ![Here] = L]
  BY <1>2
<1>7. \A v \in 1..NumVars : DOMAIN heap.defs[heap.rds[loops[Here]].vars[v]]
                              \subseteq DOMAIN h.defs[h.rds[L].vars[v]]
  BY <1>1, <1>2, CopiedHasAll
<1>8. PICK E : E \subseteq 1..Len(heap.rds) /\ entrances' = [entrances EXCEPT ![Here] = E]
  BY <1>2, <1>3, EntrancesAre
<1> HIDE DEF x, h, r, L, around
<1>9. /\ Changes(heap, heap', Touched)
      /\ reach' \in [Nodes -> SUBSET (1..Len(heap'.rds))]
      /\ \A m \in Nodes : \A q \in reach'[m] : q \in reach[m] \/ q \in reach[Here] \/ New(q)
      /\ work' \in Seq(Items) /\ Queued(around)
  BY <1>3, <1>4, <1>5, <1>6, AdvanceGoes
<1>10. Len(heap'.rds) \in Nat /\ Len(heap.rds) <= Len(heap'.rds)
  BY <1>3, <1>4, <1>5, <1>6, AdvanceGoes
<1>11. /\ Own(heap', L) /\ L \in 1..Len(heap'.rds)
       /\ \A m \in Nodes : L \notin reach'[m]
  BY <1>3, <1>4, <1>5, <1>6, OthersStay
<1>12. \A v \in 1..NumVars : heap'.defs[heap'.rds[L].vars[v]] = h.defs[h.rds[L].vars[v]]
  BY <1>3, <1>4, <1>5, <1>6, OthersStay
<1>13. /\ loops \in [Nodes -> 0..Len(heap.rds)] /\ cache \in [Nodes -> 0..Len(heap.rds)]
  BY DEF PdgInv, Pointers
<1>14. Pointers'
  <2> DEFINE c == cache[Here]
  <2>1. L \in 0..Len(heap'.rds) /\ c \in 1..Len(heap'.rds) /\ E \subseteq 1..Len(heap'.rds)
    BY <1>3, <1>5, <1>8, <1>10, <1>11
  <2>2. cache' = [cache EXCEPT ![Here] = c]
    BY <1>1, <1>3, LoopsAround
  <2> HIDE DEF c
  <2> QED
    BY <1>3, <1>6, <1>8, <1>9, <1>10, <2>1, <2>2, LoopPointers
<1>15. Renewed
  <2>1. loops'[Here] = L
    BY <1>5, <1>6, <1>13
  <2>2. \A m \in Nodes : L # cache'[m]
    BY <1>1, <1>4, <1>5, <1>13 DEF New
  <2>3. \A v \in 1..NumVars : DOMAIN heap.defs[heap.rds[loops[Here]].vars[v]]
                                \subseteq DOMAIN heap'.defs[heap'.rds[L].vars[v]]
    BY <1>7, <1>12
  <2> QED
    BY <1>4, <1>11, <2>1, <2>2, <2>3 DEF Renewed
<1>16. \A m \in Nodes : loops'[m] = loops[m] \/ (m = Here /\ Renewed)
  BY <1>6, <1>13, <1>15
<1>17. Next_loops(around)
  <2>1. loops'[Here] # 0
    BY <1>5, <1>6, <1>11, <1>13
  <2> QED
    BY <1>3, <2>1 DEF Next_loops, around
<1> QED
  BY <1>1, <1>3, <1>9, <1>14, <1>16, <1>17 DEF GoesOn, VisitsAgain, Visits

\* A visit that finds nothing new and goes through the loop once more.
LEMMA FixedGoesOn ==
  ASSUME PdgInv, visitLoopFixed
  PROVE  GoesOn
<1>1. VisitsAgain /\ UNCHANGED <<code, loops, begun, pdg, phase>>
  BY DEF visitLoopFixed
<1>2. PICK g \in Gathered :
        /\ LoopAsserts(g) /\ entrances' = Entrances(g)
        /\ cache' = [cache EXCEPT ![Here] = Len(Again(g).heap.rds) + 1]
        /\ advance(Copies(Again(g).heap, Again(g).rd, 1), Again(g).rd,
                   IF TopIs(Here) THEN Front(Around) ELSE Around)
  BY DEF visitLoopFixed
<1> DEFINE x == Again(g)
           h == Copies(x.heap, x.rd, 1)
           r == x.rd
           L == Len(x.heap.rds) + 1
           around == IF TopIs(Here) THEN Front(Around) ELSE Around
<1>3. /\ Copied(x) /\ Asserts /\ work # <<>> /\ loops[Here] \in 1..Len(heap.rds)
  BY <1>1, <1>2, CopiedAgain
<1>4. /\ Changes(heap, h, Touched) /\ r \in 1..Len(h.rds) /\ (r \in reach[Here] \/ New(r))
      /\ L \in 1..Len(h.rds) /\ New(L)
  BY <1>3 DEF Copied
<1>5. around \in Seq(Nodes) /\ Here \in Nodes /\ Len(heap.rds) \in Nat
  BY <1>3, LoopsAround, VisitedFrom, TouchedAre
<1>6. advance(h, r, around) /\ cache' = [cache EXCEPT ![Here] = L]
  BY <1>2
<1>7. PICK E : E \subseteq 1..Len(heap.rds) /\ entrances' = [entrances EXCEPT ![Here] = E]
  BY <1>2, <1>3, EntrancesAre
<1> HIDE DEF x, h, r, L, around
<1>8. /\ Changes(heap, heap', Touched)
      /\ reach' \in [Nodes -> SUBSET (1..Len(heap'.rds))]
      /\ \A m \in Nodes : \A q \in reach'[m] : q \in reach[m] \/ q \in reach[Here] \/ New(q)
      /\ work' \in Seq(Items) /\ Queued(around)
  BY <1>3, <1>4, <1>5, <1>6, AdvanceGoes
<1>9. Len(heap'.rds) \in Nat /\ Len(heap.rds) <= Len(heap'.rds) /\ Len(h.rds) <= Len(heap'.rds)
      /\ Len(h.rds) \in Nat
  BY <1>3, <1>4, <1>5, <1>6, AdvanceGoes
<1>10. cache \in [Nodes -> 0..Len(heap.rds)]
  BY DEF PdgInv, Pointers
<1>11. Pointers'
  <2> DEFINE l == loops[Here]
  <2>1. l \in 0..Len(heap'.rds) /\ L \in 1..Len(heap'.rds) /\ E \subseteq 1..Len(heap'.rds)
    BY <1>3, <1>4, <1>5, <1>7, <1>9
  <2>2. loops' = [loops EXCEPT ![Here] = l]
    BY <1>1, <1>3, LoopsAround
  <2> HIDE DEF l
  <2> QED
    BY <1>3, <1>6, <1>7, <1>8, <1>9, <2>1, <2>2, LoopPointers
<1>12. \A m \in Nodes : cache'[m] = cache[m] \/ New(cache'[m])
  BY <1>4, <1>6, <1>10
<1>13. Next_loops(around)
  BY DEF Next_loops, around, TopIs
<1> QED
  BY <1>1, <1>3, <1>8, <1>11, <1>12, <1>13 DEF GoesOn, VisitsAgain, Visits

\* A visit after which the analysis of this path is over.
LEMMA OverGoesOn ==
  ASSUME PdgInv, visitLoopOver
  PROVE  GoesOn
<1>1. VisitsAgain /\ UNCHANGED <<code, loops, entrances, begun, pdg, phase>>
      /\ work' = Tail(work)
  BY DEF visitLoopOver
<1>2. PICK g \in Gathered :
        /\ LoopAsserts(g)
        /\ cache' = [cache EXCEPT ![Here] = Len(Again(g).heap.rds) + 1]
        /\ heap' = Copies(Again(g).heap, Again(g).rd, 1)
        /\ reach' = [reach EXCEPT ![Here] = {Again(g).rd}]
  BY DEF visitLoopOver
<1> DEFINE x == Again(g)
           h == Copies(x.heap, x.rd, 1)
           r == x.rd
           L == Len(x.heap.rds) + 1
<1>3. /\ Copied(x) /\ Asserts /\ work # <<>> /\ loops[Here] \in 1..Len(heap.rds)
  BY <1>1, <1>2, CopiedAgain
<1>4. /\ Changes(heap, h, Touched) /\ HeapOK(h) /\ r \in 1..Len(h.rds)
      /\ (r \in reach[Here] \/ New(r)) /\ L \in 1..Len(h.rds) /\ New(L)
  BY <1>3 DEF Copied
<1>5. Here \in Nodes /\ Len(heap.rds) \in Nat
  BY <1>3, VisitedFrom, TouchedAre
<1>6. /\ heap' = h /\ reach' = [reach EXCEPT ![Here] = {r}]
      /\ cache' = [cache EXCEPT ![Here] = L]
  BY <1>2
<1> HIDE DEF x, h, r, L
<1>7. Len(heap'.rds) \in Nat /\ Len(heap.rds) <= Len(heap'.rds)
  BY <1>4, <1>6, HeapParts DEF Changes
<1>8. reach \in [Nodes -> SUBSET (1..Len(heap'.rds))]
  BY <1>7, PointersStay
<1>9. reach' \in [Nodes -> SUBSET (1..Len(heap'.rds))]
  <2> DEFINE N == 1..Len(heap'.rds)
  <2>1. {r} \in SUBSET N
    BY <1>4, <1>6
  <2>2. reach \in [Nodes -> SUBSET N]
    BY <1>8
  <2> HIDE DEF N
  <2>3. reach' \in [Nodes -> SUBSET N]
    BY <1>6, <2>1, <2>2
  <2> QED
    BY <2>3 DEF N
<1>10. \A m \in Nodes : \A q \in reach'[m] : q \in reach[m] \/ q \in reach[Here] \/ New(q)
  BY <1>4, <1>6, <1>8
<1>11. work' \in Seq(Items) /\ Queued(Around)
  BY <1>1, <1>3, FrontItem DEF Queued, PdgInv
<1>12. cache \in [Nodes -> 0..Len(heap.rds)]
  BY DEF PdgInv, Pointers
<1>13. Pointers'
  <2> DEFINE l == loops[Here]
             E == entrances[Here]
  <2>1. E \subseteq 1..Len(heap.rds)
    BY <1>3, LoopsAround
  <2>2. l \in 0..Len(heap'.rds) /\ L \in 1..Len(heap'.rds) /\ E \subseteq 1..Len(heap'.rds)
    BY <1>3, <1>4, <1>5, <1>6, <1>7, <2>1
  <2>3. loops' = [loops EXCEPT ![Here] = l] /\ entrances' = [entrances EXCEPT ![Here] = E]
    BY <1>1, <1>3, LoopsAround
  <2> HIDE DEF l, E
  <2> QED
    BY <1>3, <1>6, <1>7, <1>9, <2>2, <2>3, LoopPointers
<1>14. \A m \in Nodes : cache'[m] = cache[m] \/ New(cache'[m])
  BY <1>4, <1>6, <1>12
<1>15. Next_loops(Around)
  BY DEF Next_loops
<1> QED
  BY <1>1, <1>3, <1>4, <1>6, <1>10, <1>11, <1>13, <1>14, <1>15 DEF GoesOn, VisitsAgain, Visits

-----------------------------------------------------------------------------
(* Steps keep the invariant. *)

\* What is inside of the expressions of function f.
BelowOf(f) ==
  CHOOSE B : B = [e \in Exprs |->
    {e} \cup UNION {UNION {B[f.list[l][i]] : i \in DOMAIN f.list[l]} :
                     l \in {e} \X {"body", "then", "else"}}]

\* The nodes of the same function are the same.
LEMMA SameNodes ==
  ASSUME UNCHANGED <<code, fn>>
  PROVE  Below' = Below /\ \A n : instType(n)' = instType(n)
<1>1. fn' = fn /\ code' = code
  OBVIOUS
<1>2. Below' = Below
  <2>1. Below = BelowOf(fn)
    BY DEF Below, BelowOf
  <2>2. Below' = BelowOf(fn')
    BY DEF Below, BelowOf
  <2> QED
    BY <1>1, <2>1, <2>2
<1>3. ASSUME NEW n
      PROVE  instType(n)' = instType(n)
  BY <1>1 DEF instType, Op
<1> QED
  BY <1>2, <1>3

\* Visits keep the types.
LEMMA GoesOnTypes ==
  ASSUME PdgInv, GoesOn, UNCHANGED vars
  PROVE  PdgInv'
<1>1. fn' = fn /\ code' = code /\ edges' = edges /\ phase' = "pdg"
  BY DEF vars, GoesOn
<1>2. TypeInv'
  BY DEF PdgInv, TypeInv, StateTypes, Working, vars
<1>3. IsProgram(code')
  BY <1>1 DEF PdgInv
<1>4. HeapOK(heap')
  BY DEF GoesOn, Changes
<1>5. begun' \in [Nodes -> SUBSET Nodes]
  <2>1. begun \in [Nodes -> SUBSET Nodes] /\ Here \in Nodes
    BY VisitedFrom DEF PdgInv, GoesOn
  <2> DEFINE here == Here
             N == Nodes
             b == Begun
  <2>2. here \in N /\ begun \in [N -> SUBSET N]
    BY <2>1
  <2> HIDE DEF here, N
  <2>3. b \in [N -> SUBSET N]
    BY <2>2 DEF Begun, here
  <2> QED
    BY <2>1, <2>3 DEF GoesOn, N
<1> QED
  BY <1>1, <1>2, <1>3, <1>4, <1>5 DEF PdgInv, GoesOn

\* From one state to the next, what a loop keeps as its definitions of the
\* variables grows.
LoopGrows(n) ==
  loops[n] # 0 =>
    \A v \in 1..NumVars : DOMAIN heap.defs[heap.rds[loops[n]].vars[v]]
                            \subseteq DOMAIN heap'.defs[heap'.rds[loops'[n]].vars[v]]

\* Visits leave what loops keep to the loops, and let it grow.
LEMMA GoesOnOwns ==
  ASSUME PdgInv, OwnDefs, GoesOn
  PROVE  OwnDefs' /\ \A n \in Nodes : LoopGrows(n)
<1>1. work # <<>> /\ Here \in Nodes /\ HeapOK(heap)
  BY VisitedFrom DEF GoesOn
<1> DEFINE R == Touched
           k == heap'
<1>2. R \in SUBSET (1..Len(heap.rds)) /\ Len(heap.rds) \in Nat
  BY <1>1, TouchedAre
<1>3. Changes(heap, k, R)
  BY DEF GoesOn
<1>4. /\ loops \in [Nodes -> 0..Len(heap.rds)]
      /\ \A n \in Nodes : loops'[n] = loops[n] \/ (n = Here /\ Renewed)
      /\ \A m \in Nodes : \A q \in reach'[m] : q \in reach[m] \/ q \in reach[Here] \/ New(q)
      /\ \A m \in Nodes : cache'[m] = cache[m] \/ New(cache'[m])
  BY DEF GoesOn, PdgInv, Pointers
<1>5. ASSUME NEW n \in Nodes
      PROVE  /\ LoopGrows(n)
             /\ loops'[n] # 0 =>
                  /\ Own(heap', loops'[n])
                  /\ \A m \in Nodes : loops'[n] \notin reach'[m] /\ loops'[n] # cache'[m]
  <2>1. CASE n = Here /\ Renewed
    BY <2>1 DEF Renewed, LoopGrows
  <2>2. CASE loops'[n] = loops[n] /\ loops[n] = 0
    BY <2>2 DEF LoopGrows
  <2>3. CASE loops'[n] = loops[n] /\ loops[n] # 0
    <3> DEFINE L == loops[n]
    <3>1. L \in 1..Len(heap.rds) /\ ~New(L)
      BY <1>2, <1>4, <2>3 DEF New
    <3>2. Own(heap, L) /\ \A m \in Nodes : L \notin reach[m] /\ L # cache[m]
      BY <2>3 DEF OwnDefs
    <3>3. L \notin R
      BY <1>1, <3>2 DEF Touched
    <3>4. loops'[n] = L
      BY <2>3
    <3> HIDE DEF R, k, L
    <3>5. ObjectStays(heap, k, L)
      <4>1. HeapOK(heap)
        BY <1>1
      <4> QED
        BY <1>2, <1>3, <3>1, <3>2, <3>3, <4>1, OwnStays
    <3>6. \A m \in Nodes : L \notin reach'[m] /\ L # cache'[m]
      BY <1>1, <1>4, <3>1, <3>2
    <3>7. \A v \in 1..NumVars : DOMAIN heap.defs[heap.rds[L].vars[v]]
                                  \subseteq DOMAIN k.defs[k.rds[L].vars[v]]
      BY <3>5 DEF ObjectStays
    <3>8. Own(k, L)
      BY <3>5 DEF ObjectStays
    <3> QED
      BY <3>4, <3>6, <3>7, <3>8 DEF LoopGrows, k, L
  <2> QED
    BY <1>4, <2>1, <2>2, <2>3
<1> QED
  BY <1>5 DEF OwnDefs

\* Items of the next state are nested; the nodes are the same ones.
NestedNext(s) ==
  \A k \in 1..Len(s) :
    /\ instType(s[k]) = "Loop" /\ loops'[s[k]] # 0
    /\ \A j \in 1 .. k - 1 : s[k][2] \in Below[s[j][2]] \ {s[j][2]}

\* What has been nested stays nested.
LEMMA StillNested ==
  ASSUME \A n \in Nodes : loops[n] # 0 => loops'[n] # 0,
         NEW s \in Seq(Nodes), Nested(s)
  PROVE  NestedNext(s)
<1>1. \A k \in 1..Len(s) : s[k] \in Nodes
  OBVIOUS
<1> QED
  BY <1>1 DEF Nested, NestedNext

\* The loops that successors are in are nested.
LEMMA LoopsStayNested ==
  ASSUME PdgInv, NestedInv, GoesOn, UNCHANGED vars, NEW around, Next_loops(around)
  PROVE  around \in Seq(Nodes) /\ NestedNext(around)
<1> DEFINE s == Around
           m == Len(s)
<1>1. /\ Here \in Nodes /\ s \in Seq(Nodes) /\ work # <<>> /\ ~waitPaths /\ UNCHANGED <<code, fn>>
      /\ IsProgram(code) /\ fn = code.fn
  BY VisitedFrom DEF GoesOn, vars, PdgInv
<1>2. Nested(s)
  BY <1>1, FrontItem DEF NestedInv, PdgInv, Around
<1>3. ASSUME NEW n \in Nodes, loops[n] # 0
      PROVE  loops'[n] # 0
  <2>1. CASE n = Here /\ Renewed
    <3>1. Len(heap.rds) \in Nat /\ loops'[Here] > Len(heap.rds)
      BY <1>1, <2>1, TouchedAre DEF Renewed, New
    <3> QED
      BY <2>1, <3>1
  <2> QED
    BY <1>3, <2>1 DEF GoesOn
<1>4. CASE around = s
  BY <1>1, <1>2, <1>3, <1>4, StillNested
<1>5. CASE s # <<>> /\ around = Front(s)
  <2>1. NestedNext(s)
    BY <1>1, <1>2, <1>3, StillNested
  <2>2. m \in Nat /\ m # 0
    BY <1>1, <1>5
  <2> DEFINE N == Nodes
  <2>3. s \in Seq(N)
    BY <1>1
  <2> HIDE DEF s, N
  <2>4. around = [i \in 1 .. m - 1 |-> s[i]]
    BY <1>5, <2>2 DEF Front, SubSeq
  <2>5. around \in Seq(N) /\ Len(around) = m - 1 /\ \A i \in 1 .. m - 1 : around[i] = s[i]
    BY <2>2, <2>3, <2>4
  <2>6. \A k \in 1 .. m - 1 : k \in 1..m /\ \A j \in 1 .. k - 1 : j \in 1 .. m - 1
    BY <2>2
  <2>7. NestedNext(around)
    BY <2>1, <2>5, <2>6 DEF NestedNext
  <2> QED
    BY <2>5, <2>7 DEF N
<1>6. CASE /\ instType(Here) = "Loop" /\ loops'[Here] # 0 /\ around = Append(s, Here)
           /\ loops[Here] = 0 \/ ~TopIs(Here)
  <2> DEFINE h == Here
             N == Nodes
  <2>1. NestedNext(s)
    BY <1>1, <1>2, <1>3, StillNested
  <2>2. m \in Nat /\ m + 1 \in Nat /\ around \in Seq(N) /\ Len(around) = m + 1
        /\ around[m + 1] = h /\ \A i \in 1..m : around[i] = s[i]
    <3>1. s \in Seq(N) /\ h \in N /\ around = Append(s, h)
      BY <1>1, <1>6
    <3> HIDE DEF s, N, h
    <3> QED
      BY <3>1
  <2>3. instType(h) = "Loop" /\ loops'[h] # 0
    BY <1>6
  <2>4. IsBody(fn) /\ h[2] \in Exprs /\ h = Inst(h[2]) /\ fn.kind[h[2]] = "Loop"
    BY <1>1, <1>6, InstTypes DEF IsProgram
  <2>5. ASSUME m # 0
        PROVE  LET t == s[m]
               IN  t[2] \in Exprs /\ h[2] \in Below[t[2]] /\ h[2] # t[2]
    <3> DEFINE t == s[m]
    <3>1. m \in 1..m /\ s # <<>> /\ t = Last(s) /\ t \in Nodes
      BY <1>1, <2>2, <2>5 DEF Last
    <3>2. instType(t) = "Loop" /\ loops[t] # 0
      BY <1>2, <3>1 DEF Nested
    <3>3. t[2] \in Exprs /\ t = Inst(t[2])
      BY <1>1, <3>1, <3>2, InstTypes
    <3>4. h # t
      BY <1>6, <3>1, <3>2 DEF TopIs
    <3>5. h[2] # t[2]
      BY <2>4, <3>3, <3>4
    <3>6. h \in ASTBelow(t) \cup Begun[t]
      BY <1>1, <3>1 DEF waitPaths
    <3>7. h \notin Begun[t]
      <4>1. Begun = begun
        BY <1>6 DEF Begun
      <4> QED
        BY <1>6, <3>1, <4>1 DEF NestedInv
    <3>8. h[2] \in Below[t[2]]
      <4>1. h \in {Inst(e) : e \in {x \in Below[t[2]] : fn.kind[x] \notin {"Block", "Return"}}}
                    \cup {EndBlock(e) : e \in {x \in Below[t[2]] : fn.kind[x] \in {"Block", "If"}}}
        BY <3>6, <3>7 DEF ASTBelow
      <4> QED
        BY <2>4, <4>1 DEF Inst, EndBlock
    <3> QED
      BY <3>3, <3>5, <3>8
  <2>6. ASSUME NEW j \in 1..m
        PROVE  h[2] \in Below[s[j][2]] \ {s[j][2]}
    <3> DEFINE t == s[m]
               u == s[j]
    <3>1. m # 0 /\ m \in 1..m
      BY <2>2
    <3>2. t[2] \in Exprs /\ h[2] \in Below[t[2]] /\ h[2] # t[2]
      BY <2>5, <3>1
    <3>3. CASE j = m
      BY <3>2, <3>3
    <3>4. CASE j # m
      <4>1. j \in 1 .. m - 1
        BY <2>2, <3>4
      <4>2. t[2] \in Below[u[2]] /\ t[2] # u[2]
        BY <1>2, <3>1, <4>1 DEF Nested
      <4>3. u \in Nodes /\ instType(u) = "Loop"
        BY <1>1, <1>2 DEF Nested
      <4>4. u[2] \in Exprs
        BY <1>1, <4>3, InstTypes
      <4>5. u[2] <= t[2] /\ Below[t[2]] \subseteq Below[u[2]]
        BY <2>4, <4>2, <4>4, BelowNests
      <4>6. t[2] <= h[2]
        BY <2>4, <3>2, BelowNests
      <4>7. u[2] \in Nat /\ t[2] \in Nat /\ h[2] \in Nat
        BY <2>4, <3>2, <4>4, ExprsAssumption
      <4> HIDE DEF t, u, h
      <4>8. h[2] # u[2]
        BY <4>2, <4>5, <4>6, <4>7
      <4>9. h[2] \in Below[u[2]]
        BY <3>2, <4>5
      <4> QED
        BY <4>8, <4>9 DEF u, h
    <3> QED
      BY <3>3, <3>4
  <2> HIDE DEF s, h
  <2>7. ASSUME NEW k \in 1..Len(around)
        PROVE  /\ instType(around[k]) = "Loop" /\ loops'[around[k]] # 0
               /\ \A j \in 1 .. k - 1 :
                    around[k][2] \in Below[around[j][2]] \ {around[j][2]}
    <3>1. CASE k = m + 1
      <4>1. around[k] = h /\ \A j \in 1 .. k - 1 : j \in 1..m
        BY <2>2, <3>1
      <4>2. \A j \in 1 .. k - 1 : around[j] = s[j] /\ h[2] \in Below[s[j][2]] \ {s[j][2]}
        BY <2>2, <2>3, <2>6, <4>1
      <4>3. instType(around[k]) = "Loop" /\ loops'[around[k]] # 0
        BY <2>3, <4>1
      <4> QED
        BY <4>1, <4>2, <4>3
    <3>2. CASE k # m + 1
      <4>1. k \in 1..m /\ \A j \in 1 .. k - 1 : j \in 1..m
        BY <2>2, <3>2
      <4>2. around[k] = s[k] /\ \A j \in 1 .. k - 1 : around[j] = s[j]
        BY <2>2, <4>1
      <4> QED
        BY <2>1, <4>1, <4>2 DEF NestedNext
    <3> QED
      BY <3>1, <3>2
  <2>8. NestedNext(around)
    BY <2>7 DEF NestedNext
  <2> QED
    BY <2>2, <2>8
<1> QED
  BY <1>4, <1>5, <1>6 DEF Next_loops

\* NestedInv of functions f and c, what is below each expression, and the rest
\* of the state.
TypeOf(f, c, n) ==
  CASE n[1] = "inst" /\ f.kind[n[2]] = "Block" -> "BeginBlock"
    [] n[1] = "inst" /\ f.kind[n[2]] = "Plain" -> c.op[n[2]].inst
    [] n[1] = "inst" /\ f.kind[n[2]] \notin {"Block", "Plain"} -> f.kind[n[2]]
    [] n[1] \in {"then", "else"} -> "BeginBlock"
    [] n[1] = "block"   -> "Block"
    [] n[1] = "endloop" -> "EndLoop"
    [] n[1] = "return"  -> "Return"
    [] OTHER -> "None"

NestedOf(f, c, below, of, w, b) ==
  /\ \A i \in 1..Len(w) : \A k \in 1..Len(w[i].loops) :
       /\ TypeOf(f, c, w[i].loops[k]) = "Loop" /\ of[w[i].loops[k]] # 0
       /\ \A j \in 1 .. k - 1 :
            w[i].loops[k][2] \in below[w[i].loops[j][2]] \ {w[i].loops[j][2]}
  /\ \A n \in Nodes : \A m \in b[n] : TypeOf(f, c, m) = "BeginBlock"

\* The invariant of the next state, said of the nodes of this one.
LEMMA NestedFrom ==
  ASSUME UNCHANGED <<code, fn>>,
         \A i \in 1..Len(work') : NestedNext(work'[i].loops),
         \A n \in Nodes : \A m \in begun'[n] : instType(m) = "BeginBlock"
  PROVE  NestedInv'
<1>1. Below' = Below /\ fn' = fn /\ code' = code
  BY SameNodes
<1>2. \A n : instType(n) = TypeOf(fn, code, n)
  BY DEF instType, Op, TypeOf
<1>3. NestedOf(fn, code, Below, loops', work', begun')
  BY <1>2 DEF NestedOf, NestedNext
<1>4. NestedOf(fn', code', Below', loops', work', begun')
  BY <1>1, <1>3
<1>5. NestedInv' = NestedOf(fn', code', Below', loops', work', begun')
  BY DEF NestedInv, Nested, NestedOf, instType, Op, TypeOf
<1> QED
  BY <1>4, <1>5

\* What is begun now is a BeginBlockInst.
LEMMA BegunAre ==
  ASSUME NestedInv, begun \in [Nodes -> SUBSET Nodes]
  PROVE  \A n \in Nodes : \A m \in Begun[n] : instType(m) = "BeginBlock"
<1> DEFINE t == Last(Around)
           N == Nodes
           h == Here
<1>1. CASE Begun = begun
  BY <1>1 DEF NestedInv
<1>2. CASE instType(h) = "BeginBlock" /\ Begun = [begun EXCEPT ![t] = @ \cup {h}]
  <2>1. \A n \in N : \A m \in begun[n] : instType(m) = "BeginBlock"
    BY DEF NestedInv
  <2>2. begun \in [N -> SUBSET N]
    OBVIOUS
  <2> HIDE DEF N, h, t
  <2> QED
    BY <1>2, <2>1, <2>2 DEF N
<1> QED
  BY <1>1, <1>2 DEF Begun

\* Visits keep the nesting.
LEMMA GoesOnNests ==
  ASSUME PdgInv, NestedInv, GoesOn, UNCHANGED vars
  PROVE  NestedInv'
<1>1. /\ begun \in [Nodes -> SUBSET Nodes] /\ work \in Seq(Items) /\ UNCHANGED <<code, fn>>
      /\ begun' \in {begun, Begun} /\ work' \in Seq(Items)
  BY DEF GoesOn, PdgInv, vars
<1>2. PICK around : Next_loops(around) /\ Queued(around)
  BY DEF GoesOn
<1>3. NestedNext(around) /\ NestedNext(Around)
  <2>1. Next_loops(Around)
    BY DEF Next_loops
  <2> DEFINE a == Around
  <2> QED
    BY <1>2, <2>1, LoopsStayNested
<1>4. \A n \in Nodes : loops[n] # 0 => loops'[n] # 0
  <2>1. Len(heap.rds) \in Nat
    BY TouchedAre DEF GoesOn
  <2> QED
    BY <2>1 DEF GoesOn, Renewed, New
<1>5. ASSUME NEW i \in 1..Len(work')
      PROVE  NestedNext(work'[i].loops)
  <2>1. CASE work'[i].loops = around
    BY <1>3, <2>1
  <2>2. CASE \E j \in 1..Len(work) : work'[i] = work[j]
    <3>1. PICK j \in 1..Len(work) : work'[i] = work[j]
      BY <2>2
    <3>2. work[j] \in Items /\ Nested(work[j].loops)
      BY <1>1 DEF NestedInv
    <3> DEFINE s == work[j].loops
    <3>3. s \in Seq(Nodes) /\ Nested(s)
      BY <3>2 DEF Items
    <3> HIDE DEF s
    <3>4. NestedNext(s)
      BY <1>4, <3>3, StillNested
    <3> QED
      BY <3>1, <3>4 DEF s
  <2> QED
    BY <1>2, <2>1, <2>2 DEF Queued
<1>6. \A n \in Nodes : \A m \in begun'[n] : instType(m) = "BeginBlock"
  BY <1>1, BegunAre DEF NestedInv
<1> QED
  BY <1>1, <1>5, <1>6, NestedFrom

-----------------------------------------------------------------------------
(* The steps and the theorems. *)

PdgInvs == PdgInv /\ OwnDefs /\ NestedInv

\* The visits of expressions.
VisitSteps ==
  \/ visitNopInst \/ visitBrInst \/ visitBlockInst \/ visitEndLoopInst
  \/ visitReturnInst \/ visitBeginBlockInst \/ visitMemorySizeInst
  \/ visitConstInst \/ visitLocalGetInst \/ visitGlobalGetInst
  \/ visitBrIfInst \/ visitBrTableInst \/ visitIfInst \/ visitDropInst
  \/ visitLoadInst \/ visitMemoryGrowInst \/ visitConvertInst \/ visitUnaryInst
  \/ visitLocalSetInst \/ visitGlobalSetInst \/ visitLocalTeeInst
  \/ visitSelectInst \/ visitStoreInst \/ visitBinaryInst \/ visitCompareInst
  \/ visitCallInst \/ visitCallIndirectInst

LoopSteps == visitLoopFirst \/ visitLoopChanged \/ visitLoopOver \/ visitLoopFixed

\* Each visit goes on, with what all have in common.
LEMMA VisitsGoOn ==
  ASSUME PdgInvs, VisitSteps \/ LoopSteps
  PROVE  GoesOn
<1>1. PdgInv /\ OwnDefs
  BY DEF PdgInvs
<1>2. CASE LoopSteps
  BY <1>1, <1>2, FirstGoesOn, ChangedGoesOn, OverGoesOn, FixedGoesOn DEF LoopSteps
<1>3. CASE VisitSteps
  <2>1. work # <<>>
    BY <1>3 DEF VisitSteps, Visit, Visits,
      visitNopInst, visitBrInst, visitBlockInst, visitEndLoopInst, visitReturnInst,
      visitBeginBlockInst, visitMemorySizeInst, visitConstInst, visitLocalGetInst,
      visitGlobalGetInst, visitBrIfInst, visitBrTableInst, visitIfInst, visitDropInst,
      visitLoadInst, visitMemoryGrowInst, visitConvertInst, visitUnaryInst,
      visitLocalSetInst, visitGlobalSetInst, visitLocalTeeInst, visitSelectInst,
      visitStoreInst, visitBinaryInst, visitCompareInst, visitCallInst,
      visitCallIndirectInst
  <2>2. Visited
    BY <1>1, <2>1, VisitedFrom
  <2>3. Ordinary /\ Goes
    BY <1>3, <2>2, VisitsOfNone, VisitsOfOne, VisitsOfMore DEF VisitSteps
  <2> QED
    BY <1>1, <2>3, OrdinaryGoesOn
<1> QED
  BY <1>2, <1>3

\* The steps of the PDG builder that make nothing.
Rests ==
  /\ UNCHANGED <<code, heap, reach, loops, entrances, cache>>
  /\ phase = "pdg" /\ phase' \in {"pdg", "done", "aborted"}
  /\ \/ UNCHANGED <<work, begun>>
     \/ work # <<>> /\ work' = Tail(work) /\ begun' \in {begun, Begun}

\* OwnDefs of the parts of the state.
OwnDefsOf(h, of, r, c) ==
  \A n \in Nodes : of[n] # 0 =>
    /\ Own(h, of[n])
    /\ \A m \in Nodes : of[n] \notin r[m] /\ of[n] # c[m]

\* They keep the invariant.
LEMMA RestsKeep ==
  ASSUME PdgInvs, Rests, UNCHANGED vars
  PROVE  PdgInvs' /\ \A n \in Nodes : LoopGrows(n)
<1>1. /\ PdgInv /\ OwnDefs /\ NestedInv /\ UNCHANGED <<code, fn>> /\ phase' # "cfg"
      /\ begun \in [Nodes -> SUBSET Nodes] /\ work \in Seq(Items)
      /\ UNCHANGED <<heap, reach, loops, entrances, cache>>
  BY DEF PdgInvs, PdgInv, Rests, vars
<1>2. begun' \in [Nodes -> SUBSET Nodes]
  <2>1. CASE begun' = begun
    BY <1>1, <2>1
  <2>2. CASE begun' = Begun /\ work # <<>>
    <3> DEFINE here == Here
               N == Nodes
               b == Begun
    <3>1. here \in N /\ begun \in [N -> SUBSET N]
      BY <1>1, <2>2, FrontItem
    <3> HIDE DEF here, N
    <3>2. b \in [N -> SUBSET N]
      BY <3>1 DEF Begun, here
    <3> QED
      BY <2>2, <3>2 DEF N
  <2> QED
    BY <2>1, <2>2 DEF Rests
<1>3. \A n \in Nodes : \A m \in begun'[n] : instType(m) = "BeginBlock"
  <2>1. CASE begun' = begun
    BY <1>1, <2>1 DEF NestedInv
  <2>2. CASE begun' = Begun
    BY <1>1, <2>2, BegunAre
  <2> QED
    BY <2>1, <2>2 DEF Rests
<1>4. /\ work' \in Seq(Items)
      /\ \A i \in 1..Len(work') : \E j \in 1..Len(work) : work'[i] = work[j]
  <2>1. CASE work' = work
    BY <1>1, <2>1
  <2>2. CASE work # <<>> /\ work' = Tail(work)
    BY <1>1, <2>2, FrontItem
  <2> QED
    BY <2>1, <2>2 DEF Rests
<1>5. ASSUME NEW i \in 1..Len(work')
      PROVE  NestedNext(work'[i].loops)
  <2>1. PICK j \in 1..Len(work) : work'[i] = work[j]
    BY <1>4
  <2>2. Nested(work[j].loops)
    BY <1>1 DEF NestedInv
  <2> QED
    BY <1>1, <2>1, <2>2 DEF Nested, NestedNext
<1>6. NestedInv'
  BY <1>1, <1>3, <1>5, NestedFrom
<1>7. OwnDefs'
  <2>1. OwnDefs = OwnDefsOf(heap, loops, reach, cache)
    BY DEF OwnDefs, OwnDefsOf
  <2>2. OwnDefs' = OwnDefsOf(heap', loops', reach', cache')
    BY DEF OwnDefs, OwnDefsOf
  <2> QED
    BY <1>1, <2>1, <2>2
<1>8. PdgInv'
  <2>1. TypeInv' /\ IsFiniteSet(edges')
    BY <1>1 DEF PdgInv, TypeInv, StateTypes, Working, vars
  <2>2. IsProgram(code') /\ fn' = code'.fn
    BY <1>1 DEF PdgInv
  <2>3. HeapOK(heap') /\ Pointers'
    BY <1>1 DEF PdgInv, Pointers
  <2> QED
    BY <1>1, <1>2, <1>4, <2>1, <2>2, <2>3 DEF PdgInv, Rests
<1>9. ASSUME NEW n \in Nodes
      PROVE  LoopGrows(n)
  BY <1>1 DEF LoopGrows
<1> QED
  BY <1>6, <1>7, <1>8, <1>9 DEF PdgInvs
\* Visits keep the invariant.
LEMMA VisitsKeep ==
  ASSUME PdgInvs, VisitSteps \/ LoopSteps, UNCHANGED vars
  PROVE  PdgInvs' /\ \A n \in Nodes : LoopGrows(n)
<1>1. GoesOn
  BY VisitsGoOn
<1>2. PdgInv'
  BY <1>1, GoesOnTypes DEF PdgInvs
<1>3. OwnDefs' /\ \A n \in Nodes : LoopGrows(n)
  BY <1>1, GoesOnOwns DEF PdgInvs
<1>4. NestedInv'
  BY <1>1, GoesOnNests DEF PdgInvs
<1> QED
  BY <1>2, <1>3, <1>4 DEF PdgInvs

\* The objects that a run begins with.
LEMMA FirstHeap ==
  ASSUME NEW h, h = [defs |-> [v \in 1..NumVars |-> NoDef],
                     rds |-> <<ReachDef([v \in 1..NumVars |-> v], <<>>, <<>>)>>]
  PROVE  HeapOK(h) /\ Len(h.rds) = 1
<1> DEFINE x == ReachDef([v \in 1..NumVars |-> v], <<>>, <<>>)
           D == Defs
           d == [v \in 1..NumVars |-> NoDef]
<1>1. NumVars \in Nat
  BY NumVarsAssumption
<1>2. NoDef \in D
  <2>1. NoDef \in [{} -> Nodes] /\ {} \in SUBSET Nodes
    BY DEF NoDef
  <2> QED
    BY <2>1 DEF Defs
<1>3. d \in Seq(D) /\ Len(d) = NumVars
  <2> HIDE DEF D
  <2>1. d \in [1..NumVars -> D]
    BY <1>2
  <2> HIDE DEF d
  <2>2. d \in Seq(D)
    BY <1>1, <2>1
  <2> QED
    BY <1>1, <2>1, <2>2
<1>4. x = [vars |-> [v \in 1..NumVars |-> v], stack |-> <<>>, labels |-> <<>>]
  BY DEF ReachDef
<1>5. x \in Rds
  <2>1. [v \in 1..NumVars |-> v] \in [1..NumVars -> Nat]
    BY <1>1
  <2>2. <<>> \in Seq(Nat) /\ <<>> \in Seq(Entries)
    OBVIOUS
  <2> DEFINE vs == [v \in 1..NumVars |-> v]
             E == Seq(Entries)
  <2>3. x = [vars |-> vs, stack |-> <<>>, labels |-> <<>>]
    BY <1>4
  <2> HIDE DEF x, vs, E
  <2>4. x \in [vars : [1..NumVars -> Nat], stack : Seq(Nat), labels : E]
    BY <2>1, <2>2, <2>3 DEF vs, E
  <2> QED
    BY <2>4 DEF Rds, E
<1>6. Ids(x) \subseteq 1..NumVars
  BY SMTT(30), <1>1, <1>4 DEF Ids
<1>7. Ordered(x)
  BY <1>4 DEF Ordered
<1>8. RdOK(x, NumVars)
  BY <1>5, <1>6, <1>7 DEF RdOK
<1> HIDE DEF x, d, D
<1>9. h.defs = d /\ h.rds = <<x>>
  BY DEF x, d
<1>10. <<x>> \in Seq(Rds) /\ Len(<<x>>) = 1 /\ <<x>>[1] = x
  BY <1>5
<1>11. h \in Heaps
  BY <1>3, <1>9, <1>10 DEF Heaps, D, x, d
<1>12. Len(h.rds) = 1 /\ h.rds[1] = x /\ Len(h.defs) = NumVars
  BY <1>3, <1>9, <1>10
<1>13. \A r \in 1..Len(h.rds) : r = 1
  BY <1>12
<1> QED
  BY <1>8, <1>11, <1>12, <1>13 DEF HeapOK

\* visitInstructions begins with the invariant: no loop has been visited.
LEMMA BeginKeeps ==
  ASSUME PdgInvs, visitInstructions, UNCHANGED vars
  PROVE  PdgInvs' /\ \A n \in Nodes : LoopGrows(n)
<1>1. /\ PdgInv /\ UNCHANGED <<code, fn, loops, entrances, cache, begun>>
      /\ heap = [defs |-> <<>>, rds |-> <<>>] /\ phase' = "pdg"
      /\ begun \in [Nodes -> SUBSET Nodes]
  BY DEF PdgInvs, PdgInv, visitInstructions, vars
<1>2. PICK d \in edges :
        /\ d.src = InstsNode
        /\ reach' = [reach EXCEPT ![d.dest] = {1}]
        /\ work' = <<[node |-> d.dest, last |-> InstsNode, loops |-> <<>>]>>
  BY DEF visitInstructions
<1>3. HeapOK(heap') /\ Len(heap'.rds) = 1
  BY FirstHeap DEF visitInstructions
<1>4. /\ reach \in [Nodes -> {{}}] /\ entrances \in [Nodes -> {{}}]
      /\ loops \in [Nodes -> {0}] /\ cache \in [Nodes -> {0}]
  <2>1. Len(heap.rds) = 0 /\ 1..0 = {} /\ 0..0 = {0} /\ SUBSET {} = {{}}
    BY <1>1
  <2> QED
    BY <1>1, <2>1 DEF PdgInv, Pointers
<1>5. d.dest \in Nodes
  <2>1. edges \subseteq CFGEdges
    BY <1>1, FixedNodes DEF PdgInv, TypeInv, FlowEdges, CFGEdges
  <2> QED
    BY <2>1 DEF CFGEdges
<1>6. InstsNode \in Nodes
  BY FixedNodes
<1>7. Pointers'
  <2> DEFINE N == Nodes
  <2>1. reach \in [N -> {{}}] /\ d.dest \in N
    BY <1>4, <1>5
  <2> HIDE DEF N
  <2>2. reach' \in [N -> SUBSET (1..1)]
    BY <1>2, <2>1
  <2>3. reach' \in [Nodes -> SUBSET (1..Len(heap'.rds))]
    BY <1>3, <2>2 DEF N
  <2>4. entrances' \in [Nodes -> SUBSET (1..Len(heap'.rds))]
    BY <1>1, <1>4
  <2>5. loops' \in [Nodes -> 0..Len(heap'.rds)]
    BY <1>1, <1>3, <1>4
  <2>6. cache' \in [Nodes -> 0..Len(heap'.rds)]
    BY <1>1, <1>3, <1>4
  <2>7. \A n \in Nodes : loops'[n] = 0
    BY <1>1, <1>4
  <2> QED
    BY <2>3, <2>4, <2>5, <2>6, <2>7 DEF Pointers
<1>8. work' \in Seq(Items) /\ Len(work') = 1 /\ work'[1].loops = <<>>
  <2> DEFINE it == [node |-> d.dest, last |-> InstsNode, loops |-> <<>>]
  <2>1. it \in Items /\ it.loops = <<>>
    BY <1>5, <1>6 DEF Items
  <2> HIDE DEF it
  <2> QED
    BY <1>2, <2>1 DEF it
<1>9. PdgInv'
  <2>1. TypeInv' /\ IsFiniteSet(edges')
    BY <1>1 DEF PdgInv, TypeInv, StateTypes, Working, vars, PdgInvs
  <2>2. IsProgram(code') /\ fn' = code'.fn
    BY <1>1 DEF PdgInv
  <2> QED
    BY <1>1, <1>3, <1>7, <1>8, <2>1, <2>2 DEF PdgInv
<1>10. \A n \in Nodes : loops[n] = 0 /\ loops'[n] = 0
  BY <1>1, <1>4
<1>11. OwnDefs'
  BY <1>10 DEF OwnDefs
<1>12. NestedInv'
  <2>1. \A i \in 1..Len(work') : NestedNext(work'[i].loops)
    BY <1>8 DEF NestedNext
  <2>2. \A n \in Nodes : \A m \in begun'[n] : instType(m) = "BeginBlock"
    BY <1>1 DEF NestedInv, PdgInvs
  <2> QED
    BY <1>1, <2>1, <2>2, NestedFrom
<1> QED
  BY <1>9, <1>10, <1>11, <1>12 DEF PdgInvs, LoopGrows

\* While the CFG is built, and when nothing happens, there is nothing to keep
\* but the types.
LEMMA ConstructKeeps ==
  ASSUME PdgInvs, Next \/ UNCHANGED vars, UNCHANGED pdgVars
  PROVE  PdgInvs' /\ \A n \in Nodes : LoopGrows(n)
<1>1. /\ PdgInv /\ UNCHANGED <<code, work, reach, heap, loops, entrances, cache, begun, phase>>
      /\ TypeInv /\ IsFiniteSet(edges)
  BY DEF PdgInvs, PdgInv, pdgVars
<1>2. TypeInv' /\ IsFiniteSet(edges') /\ fn' = fn
  <2>1. CASE Next
    BY <1>1, <2>1, EdgesStayFinite
  <2>2. CASE UNCHANGED vars
    BY <1>1, <2>2 DEF TypeInv, StateTypes, Working, vars
  <2> QED
    BY <2>1, <2>2
<1>3. PdgInv'
  <2>1. IsProgram(code') /\ fn' = code'.fn
    BY <1>1, <1>2 DEF PdgInv
  <2>2. HeapOK(heap') /\ Pointers'
    BY <1>1 DEF PdgInv, Pointers
  <2> QED
    BY <1>1, <1>2, <2>1, <2>2 DEF PdgInv
<1>4. OwnDefs'
  <2>1. OwnDefs = OwnDefsOf(heap, loops, reach, cache)
    BY DEF OwnDefs, OwnDefsOf
  <2>2. OwnDefs' = OwnDefsOf(heap', loops', reach', cache')
    BY DEF OwnDefs, OwnDefsOf
  <2> QED
    BY <1>1, <2>1, <2>2 DEF PdgInvs
<1>5. NestedInv'
  <2>1. \A i \in 1..Len(work') : NestedNext(work'[i].loops)
    BY <1>1 DEF NestedInv, Nested, NestedNext, PdgInvs
  <2>2. \A n \in Nodes : \A m \in begun'[n] : instType(m) = "BeginBlock"
    BY <1>1 DEF NestedInv, PdgInvs
  <2> QED
    BY <1>1, <1>2, <2>1, <2>2, NestedFrom
<1>6. ASSUME NEW n \in Nodes
      PROVE  LoopGrows(n)
  BY <1>1 DEF LoopGrows
<1> QED
  BY <1>3, <1>4, <1>5, <1>6 DEF PdgInvs

\* The steps of the specification.
LEMMA NextKeeps ==
  ASSUME PdgInvs, [PNext]_<<vars, pdgVars>>
  PROVE  PdgInvs' /\ \A n \in Nodes : LoopGrows(n)
<1>1. CASE UNCHANGED pdgVars /\ (Next \/ UNCHANGED vars)
  BY <1>1, ConstructKeeps
<1>2. CASE PdgStep /\ UNCHANGED vars
  <2>1. CASE VisitSteps \/ LoopSteps
    BY <1>2, <2>1, VisitsKeep
  <2>2. CASE visitInstructions
    BY <1>2, <2>2, BeginKeeps
  <2>3. CASE Wait \/ AssertFails \/ Finish \/ visitUnreachableInst
    <3>1. Rests
      BY <2>3 DEF Rests, Wait, AssertFails, Finish, visitUnreachableInst, Visits
    <3> QED
      BY <1>2, <3>1, RestsKeep
  <2> QED
    BY <1>2, <2>1, <2>2, <2>3 DEF PdgStep, VisitSteps, LoopSteps
<1> QED
  BY <1>1, <1>2 DEF PNext

\* The initial states.
LEMMA InitKeeps ==
  ASSUME PInit
  PROVE  PdgInvs
<1>1. /\ IsProgram(code) /\ fn = code.fn /\ Start
      /\ work = <<>> /\ phase = "cfg" /\ edges = {}
      /\ heap = [defs |-> <<>>, rds |-> <<>>]
  BY ProgramsAssumption DEF PInit, Start
<1>2. TypeInv
  BY <1>1, StartTypes DEF IsProgram
<1>3. IsFiniteSet(edges)
  BY <1>1, FS_EmptySet
<1>4. HeapOK(heap)
  <2>1. <<>> \in Seq(Defs) /\ <<>> \in Seq(Rds)
    OBVIOUS
  <2>2. heap \in Heaps
    BY <1>1, <2>1 DEF Heaps
  <2> QED
    BY <1>1, <2>2 DEF HeapOK
<1>5. \A n \in Nodes : reach[n] = {} /\ entrances[n] = {} /\ loops[n] = 0 /\ begun[n] = {}
  BY DEF PInit
<1>6. Pointers
  <2>1. Len(heap.rds) = 0
    BY <1>1
  <2> DEFINE k == Len(heap.rds)
             N == Nodes
  <2>2. {} \in SUBSET (1..k) /\ 0 \in 0..k
    BY <2>1
  <2> HIDE DEF k
  <2>3. reach \in [N -> SUBSET (1..k)] /\ entrances \in [N -> SUBSET (1..k)]
    BY <2>2 DEF PInit
  <2>4. loops \in [N -> 0..k] /\ cache \in [N -> 0..k]
    BY <2>2 DEF PInit
  <2> QED
    BY <1>5, <2>3, <2>4 DEF Pointers, k
<1>7. begun \in [Nodes -> SUBSET Nodes]
  <2> DEFINE N == Nodes
  <2>1. begun = [n \in N |-> {}]
    BY DEF PInit
  <2> HIDE DEF N
  <2>2. begun \in [N -> SUBSET N]
    BY <2>1
  <2> QED
    BY <2>2 DEF N
<1>8. PdgInv
  BY <1>1, <1>2, <1>3, <1>4, <1>6, <1>7 DEF PdgInv
<1>9. OwnDefs
  BY <1>5 DEF OwnDefs
<1>10. NestedInv
  BY <1>1, <1>5 DEF NestedInv
<1> QED
  BY <1>8, <1>9, <1>10 DEF PdgInvs

\* What the properties say follows.
LEMMA InvsSuffice ==
  ASSUME PdgInvs
  PROVE  PdgTypeOK /\ LoopsNest
<1>1. /\ PdgInv /\ HeapOK(heap) /\ Pointers /\ work \in Seq(Items)
      /\ NestedInv
  BY DEF PdgInvs, PdgInv
<1>2. DefIds = 1..Len(heap.defs) /\ RdIds = 1..Len(heap.rds)
  BY <1>1, HeapParts DEF DefIds, RdIds
<1>3. ASSUME NEW i \in DefIds
      PROVE  DOMAIN heap.defs[i] \subseteq Nodes
  <2>1. heap.defs[i] \in Defs
    BY <1>1, <1>2, HeapParts
  <2>2. PICK S \in SUBSET Nodes : heap.defs[i] \in [S -> Nodes]
    BY <2>1 DEF Defs
  <2> QED
    BY <2>2
<1>4. ASSUME NEW i \in RdIds
      PROVE  /\ heap.rds[i].vars \in [1..NumVars -> DefIds]
             /\ ToSet(heap.rds[i].stack) \subseteq DefIds
             /\ \A k \in DOMAIN heap.rds[i].labels : heap.rds[i].labels[k].name \in Labels
  <2> DEFINE x == heap.rds[i]
             D == DefIds
  <2>1. x \in Rds /\ Ids(x) \subseteq D
    BY <1>1, <1>2, HeapParts DEF RdOK
  <2> HIDE DEF x, D
  <2>2. /\ x.vars \in [1..NumVars -> Nat] /\ x.stack \in Seq(Nat) /\ x.labels \in Seq(Entries)
    BY <2>1 DEF Rds
  <2>3. x.vars \in [1..NumVars -> D]
    BY <2>1, <2>2 DEF Ids
  <2>4. ToSet(x.stack) \subseteq D
    BY <2>1, <2>2 DEF Ids, ToSet
  <2>5. \A k \in DOMAIN x.labels : x.labels[k].name \in Labels
    <3>1. \A e \in Entries : e.name \in Labels
      BY DEF Entries
    <3>2. \A k \in DOMAIN x.labels : x.labels[k] \in Entries
      BY <2>2, ElementOfSeq, LenProperties
    <3> QED
      BY <3>1, <3>2
  <2> QED
    BY <2>3, <2>4, <2>5 DEF x, D
<1>5. DOMAIN work = 1..Len(work) /\ \A i \in DOMAIN work : work[i] \in Items
  BY <1>1, LenProperties, ElementOfSeq
<1>6. /\ reach \in [Nodes -> SUBSET RdIds] /\ entrances \in [Nodes -> SUBSET RdIds]
      /\ loops \in [Nodes -> RdIds \cup {0}] /\ cache \in [Nodes -> RdIds \cup {0}]
  <2>1. Len(heap.rds) \in Nat
    BY <1>1, HeapParts
  <2>2. RdIds \cup {0} = 0..Len(heap.rds)
    BY <1>2, <2>1
  <2> QED
    BY <1>1, <1>2, <2>2 DEF Pointers
<1>7. PdgTypeOK
  <2>1. \A i \in DOMAIN work : work[i].node \in Nodes /\ work[i].last \in Nodes
                             /\ ToSet(work[i].loops) \subseteq Nodes
    BY <1>5 DEF Items, ToSet
  <2> QED
    BY <1>1, <1>3, <1>4, <1>6, <2>1 DEF PdgTypeOK, PdgInv
<1>8. LoopsNest
  <2>1. ASSUME NEW i \in DOMAIN work
        PROVE  DOMAIN work[i].loops = 1..Len(work[i].loops) /\ Nested(work[i].loops)
    BY <1>1, <1>5 DEF Items, NestedInv
  <2> QED
    BY <2>1 DEF LoopsNest, Nested
<1> QED
  BY <1>7, <1>8

\* The inductive invariant of the PDG builder.
LEMMA InvsAlways == PSpec => []PdgInvs
<1>1. PInit => PdgInvs
  BY InitKeeps
<1>2. PdgInvs /\ [PNext]_<<vars, pdgVars>> => PdgInvs'
  BY NextKeeps
<1> QED
  BY <1>1, <1>2, PTL DEF PSpec

\* Every pointer that the PDG builder keeps -- among what has come in at a
\* node, in a loop's tables, on a stack -- leads to an object, for any function.
THEOREM PdgTypeCorrect == PSpec => []PdgTypeOK
<1>1. PdgInvs => PdgTypeOK
  BY InvsSuffice
<1> QED
  BY <1>1, InvsAlways, PTL

\* At any depth of loops, the loops that an item of the work list is in are
\* nested: visitLoopInst pushes a loop only when it is not on top, and what
\* stands below it is around it.
THEOREM LoopsAlwaysNest == PSpec => []LoopsNest
<1>1. PdgInvs => LoopsNest
  BY InvsSuffice
<1> QED
  BY <1>1, InvsAlways, PTL

\* What a loop keeps as its definitions grows from pass to pass, in any
\* function: nobody else has a pointer to it.
THEOREM LoopDefinitionsAlwaysGrow == PSpec => LoopDefinitionsGrow
<1>1. PdgInvs /\ [PNext]_<<vars, pdgVars>> =>
        [\A n \in Nodes : loops[n] # 0 =>
           \A v \in 1..NumVars :
             DOMAIN heap.defs[heap.rds[loops[n]].vars[v]]
               \subseteq DOMAIN heap'.defs[heap'.rds[loops'[n]].vars[v]]]_<<vars, pdgVars>>
  BY NextKeeps DEF LoopGrows
<1> QED
  BY <1>1, InvsAlways, PTL DEF LoopDefinitionsGrow, PSpec
=============================================================================
