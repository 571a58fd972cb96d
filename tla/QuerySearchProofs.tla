------------------------- MODULE QuerySearchProofs -------------------------
(***************************************************************************)
(* Theorems about the breadth-first searches, for every finite set of       *)
(* nodes, every graph on it and every limit: type correctness, that a       *)
(* search visits only what a path leads to, that one which returns without  *)
(* its limit reached has missed nothing, and that no answer is larger than  *)
(* was asked for.                                                           *)
(***************************************************************************)
EXTENDS QuerySearch, CommonLemmas, SequenceTheorems, FiniteSetTheorems, TLAPS

\* The nodes of a queue.
Queued(q) == {q[i] : i \in DOMAIN q}

-----------------------------------------------------------------------------
(* Queues. *)

\* The nodes of a finite set, in some order, are a queue of just those nodes.
LEMMA OrderIsQueue ==
  ASSUME NEW S \in SUBSET Node, NEW q \in Orders(S)
  PROVE  q \in Seq(Node) /\ Queued(q) = S
<1>1. Cardinality(S) \in Nat
  BY NodeAssumption, FS_Subset, FS_CardinalityType
<1>2. q \in [1..Cardinality(S) -> S] /\ \A n \in S : \E i \in DOMAIN q : q[i] = n
  BY DEF Orders
<1>3. q \in [1..Cardinality(S) -> Node]
  BY <1>2
<1>4. q \in Seq(Node)
  BY <1>1, <1>3
<1>5. Queued(q) = S
  BY <1>2 DEF Queued
<1> QED
  BY <1>4, <1>5

\* Two queues one after the other hold the nodes of both.
LEMMA QueuedConcat ==
  ASSUME NEW p \in Seq(Node), NEW q \in Seq(Node)
  PROVE  p \o q \in Seq(Node) /\ Queued(p \o q) = Queued(p) \cup Queued(q)
<1>1. /\ Len(p) \in Nat /\ DOMAIN p = 1..Len(p)
      /\ Len(q) \in Nat /\ DOMAIN q = 1..Len(q)
  BY LenProperties
<1>2. /\ p \o q \in Seq(Node)
      /\ Len(p \o q) = Len(p) + Len(q)
      /\ \A i \in 1 .. Len(p) + Len(q) :
           (p \o q)[i] = IF i <= Len(p) THEN p[i] ELSE q[i - Len(p)]
  BY ConcatProperties
<1>3. DOMAIN (p \o q) = 1 .. Len(p) + Len(q)
  BY <1>2, LenProperties
<1>4. ASSUME NEW n \in Queued(p \o q)
      PROVE  n \in Queued(p) \cup Queued(q)
  <2>1. PICK i \in 1 .. Len(p) + Len(q) : n = (p \o q)[i]
    BY <1>3 DEF Queued
  <2>2. CASE i <= Len(p)
    <3>1. i \in 1..Len(p) /\ n = p[i]
      BY <1>1, <1>2, <2>1, <2>2
    <3> QED
      BY <1>1, <3>1 DEF Queued
  <2>3. CASE ~ (i <= Len(p))
    <3>1. i - Len(p) \in 1..Len(q) /\ n = q[i - Len(p)]
      BY <1>1, <1>2, <2>1, <2>3
    <3> QED
      BY <1>1, <3>1 DEF Queued
  <2> QED
    BY <2>2, <2>3
<1>5. ASSUME NEW n \in Queued(p)
      PROVE  n \in Queued(p \o q)
  <2>1. PICK i \in 1..Len(p) : n = p[i]
    BY <1>1 DEF Queued
  <2>2. i \in 1 .. Len(p) + Len(q) /\ (p \o q)[i] = n
    BY <1>1, <1>2, <2>1
  <2> QED
    BY <1>3, <2>2 DEF Queued
<1>6. ASSUME NEW n \in Queued(q)
      PROVE  n \in Queued(p \o q)
  <2>1. PICK i \in 1..Len(q) : n = q[i]
    BY <1>1 DEF Queued
  <2>2. /\ i + Len(p) \in 1 .. Len(p) + Len(q)
        /\ (p \o q)[i + Len(p)] = n
    BY <1>1, <1>2, <2>1
  <2> QED
    BY <1>3, <2>2 DEF Queued
<1> QED
  BY <1>2, <1>4, <1>5, <1>6

\* A queue that is not empty holds its first node and those of the rest.
LEMMA QueuedTail ==
  ASSUME NEW q \in Seq(Node), q # <<>>
  PROVE  /\ Head(q) \in Node /\ Tail(q) \in Seq(Node)
         /\ Queued(q) = {Head(q)} \cup Queued(Tail(q))
<1>1. Len(q) \in Nat \ {0} /\ DOMAIN q = 1..Len(q)
  BY EmptySeq, LenProperties
<1>2. /\ Head(q) \in Node /\ Tail(q) \in Seq(Node)
      /\ Len(Tail(q)) = Len(q) - 1
      /\ \A i \in 1..Len(Tail(q)) : Tail(q)[i] = q[i + 1]
  BY HeadTailProperties
<1>3. DOMAIN Tail(q) = 1 .. Len(q) - 1
  BY <1>2, LenProperties
<1>4. Head(q) = q[1]
  OBVIOUS
<1>5. ASSUME NEW n \in Queued(q), n # Head(q)
      PROVE  n \in Queued(Tail(q))
  <2>1. PICK i \in 1..Len(q) : n = q[i]
    BY <1>1 DEF Queued
  <2>2. i # 1
    BY <1>4, <1>5, <2>1
  <2>3. i - 1 \in 1 .. Len(q) - 1 /\ Tail(q)[i - 1] = n
    BY <1>1, <1>2, <2>1, <2>2
  <2> QED
    BY <1>3, <2>3 DEF Queued
<1>6. ASSUME NEW n \in Queued(Tail(q))
      PROVE  n \in Queued(q)
  <2>1. PICK i \in 1 .. Len(q) - 1 : n = Tail(q)[i]
    BY <1>3 DEF Queued
  <2>2. i + 1 \in 1..Len(q) /\ q[i + 1] = n
    BY <1>1, <1>2, <2>1
  <2> QED
    BY <1>1, <2>2 DEF Queued
<1>7. Head(q) \in Queued(q)
  BY <1>1, <1>4 DEF Queued
<1> QED
  BY <1>2, <1>5, <1>6, <1>7

\* Nothing waits in an empty queue.
LEMMA QueuedEmpty == Queued(<<>>) = {} /\ <<>> \in Seq(Node)
<1>1. <<>> \in Seq(Node) /\ Len(<<>>) = 0
  BY EmptySeq
<1>2. DOMAIN <<>> = 1..0
  BY <1>1, LenProperties
<1>3. 1..0 = {}
  OBVIOUS
<1> QED
  BY <1>1, <1>2, <1>3 DEF Queued

-----------------------------------------------------------------------------
(* The invariant. *)

\* The nodes that have been visited or wait for it.
Seen == visited \cup Queued(queue)

\* What has been seen lies in every set that the edges do not leave.
Confined == \A S \in SUBSET Node : Closed(S) => Seen \subseteq S

\* While the search runs, an edge from a start or from a visited node leads
\* to a node that has been seen.
Frontier ==
  pc = "search" => Neighbours(starts) \cup Neighbours(visited) \subseteq Seen

\* Before the search nothing is visited, and the limit is what was asked.
NotBegun ==
  pc \in {"BFS", "BFSincludes"} =>
    visited = {} /\ included = {} /\ limit = asked

\* What has been found and included fits in what was asked for; a search that
\* runs may still find something.
Budget ==
  /\ Cardinality(result) + Cardinality(included) <= asked
  /\ pc = "search" =>
       /\ Cardinality(result) < limit
       /\ limit + Cardinality(included) <= asked

SearchInv ==
  /\ TypeOK
  /\ Confined /\ Frontier /\ NotBegun /\ Budget
  /\ result = visited \cap wanted
  /\ SearchIsComplete

\* A set of nodes has a size.
LEMMA Sizes ==
  ASSUME NEW S \in SUBSET Node
  PROVE  IsFiniteSet(S) /\ Cardinality(S) \in Nat
BY NodeAssumption, FS_Subset, FS_CardinalityType

\* The neighbours of a set are nodes; the empty set has none; those of a
\* union are those of its parts.
LEMMA NeighboursOf ==
  ASSUME adj \in [Node -> SUBSET Node]
  PROVE  /\ \A S \in SUBSET Node : Neighbours(S) \subseteq Node
         /\ Neighbours({}) = {}
         /\ \A S : \A n : Neighbours(S \cup {n}) = Neighbours(S) \cup adj[n]
         /\ \A S, T : S \subseteq T => Neighbours(S) \subseteq Neighbours(T)
BY DEF Neighbours

\* Before the call nothing is visited or queued.
LEMMA InitSearchInv == Init => SearchInv
<1> SUFFICES ASSUME Init PROVE SearchInv
  OBVIOUS
<1>1. TypeOK
  BY GraphsAssumption, LimitsAssumption, QueuedEmpty DEF Init, TypeOK, PCs
<1>2. Confined
  BY QueuedEmpty DEF Init, Confined, Seen
<1>3. Frontier /\ NotBegun /\ SearchIsComplete /\ result = visited \cap wanted
  BY DEF Init, Frontier, NotBegun, SearchIsComplete
<1>4. Budget
  BY LimitsAssumption, FS_EmptySet DEF Init, Budget
<1> QED
  BY <1>1, <1>2, <1>3, <1>4 DEF SearchInv

\* The call of BFS that BFS or BFSincludes makes.
LEMMA BeginKeeps ==
  ASSUME SearchInv, pc \in {"BFS", "BFSincludes"},
         NEW l \in Nat, BeginBFS(l),
         UNCHANGED <<question, visited, result>>,
         included' \in SUBSET Node, l + Cardinality(included') <= asked
  PROVE  SearchInv'
<1> USE DEF question
<1>1. /\ visited = {} /\ visited' = {}
      /\ result = {} /\ result' = {}
      /\ adj' = adj /\ starts' = starts /\ wanted' = wanted /\ asked' = asked
      /\ limit' = l
  BY DEF SearchInv, NotBegun, BeginBFS
<1>2. TypeOK
  BY DEF SearchInv
<1>3. Neighbours(starts) \in SUBSET Node /\ Neighbours({}) = {}
  BY <1>2, NeighboursOf DEF TypeOK
<1>4. /\ Neighbours(starts)' = Neighbours(starts)
      /\ Neighbours(visited)' = Neighbours({})
  BY <1>1 DEF Neighbours
<1>5. \A S : Closed(S)' = Closed(S)
  BY <1>1 DEF Closed, Neighbours
<1>6. Cardinality(included') \in Nat /\ Cardinality({}) = 0 /\ asked \in Nat
  BY <1>2, Sizes, FS_EmptySet DEF TypeOK
<1>7. result' = visited' \cap wanted'
  BY <1>1
<1>8. NotBegun' /\ pc' \in {"search", "done"}
  BY DEF BeginBFS, NotBegun
<1>9. CASE starts = {} \/ l = 0
  <2>1. pc' = "done" /\ queue' = queue
    BY <1>9 DEF BeginBFS
  <2>2. TypeOK'
    BY <1>1, <1>2, <2>1 DEF TypeOK, PCs
  <2>3. Confined'
    <3>1. Seen' = Seen
      BY <1>1, <2>1 DEF Seen
    <3> QED
      BY <1>5, <3>1 DEF SearchInv, Confined
  <2>4. Frontier' /\ Budget'
    BY <1>1, <1>6, <2>1 DEF Frontier, Budget
  <2>5. SearchIsComplete'
    <3>1. CASE l = 0
      BY <1>1, <1>6, <3>1 DEF SearchIsComplete
    <3>2. CASE starts = {}
      BY <1>1, <1>3, <1>4, <1>7, <3>2 DEF SearchIsComplete, Closed
    <3> QED
      BY <1>9, <3>1, <3>2
  <2> QED
    BY <1>7, <1>8, <2>2, <2>3, <2>4, <2>5 DEF SearchInv
<1>10. CASE ~ (starts = {} \/ l = 0)
  <2>1. pc' = "search" /\ queue' \in Orders(Neighbours(starts))
    BY <1>10 DEF BeginBFS
  <2>2. queue' \in Seq(Node) /\ Queued(queue') = Neighbours(starts)
    BY <1>3, <2>1, OrderIsQueue
  <2>3. TypeOK'
    BY <1>1, <1>2, <2>1, <2>2 DEF TypeOK, PCs
  <2>4. Seen' = Neighbours(starts)
    BY <1>1, <2>2 DEF Seen
  <2>5. Confined'
    BY <1>5, <2>4 DEF Confined, Closed
  <2>6. Frontier'
    BY <1>3, <1>4, <2>4 DEF Frontier
  <2>7. Budget'
    BY <1>1, <1>6, <1>10 DEF Budget
  <2>8. SearchIsComplete'
    BY <2>1 DEF SearchIsComplete
  <2> QED
    BY <1>7, <1>8, <2>3, <2>5, <2>6, <2>7, <2>8 DEF SearchInv
<1> QED
  BY <1>9, <1>10

\* A node that was visited already is dropped from the queue: what has been
\* seen stays the same.
LEMMA SkipKeeps == SearchInv /\ Skip => SearchInv'
<1> SUFFICES ASSUME SearchInv, Skip PROVE SearchInv'
  OBVIOUS
<1> USE DEF question
<1>1. /\ adj' = adj /\ starts' = starts /\ wanted' = wanted /\ asked' = asked
      /\ included' = included /\ limit' = limit
      /\ visited' = visited /\ result' = result
      /\ pc = "search" /\ pc' = pc
  BY DEF Skip
<1>2. TypeOK /\ queue \in Seq(Node) /\ queue # <<>>
  BY DEF SearchInv, TypeOK, Skip
<1>3. /\ queue' \in Seq(Node)
      /\ Queued(queue) = {Head(queue)} \cup Queued(queue')
  BY <1>2, QueuedTail DEF Skip
<1>4. Seen' = Seen
  BY <1>1, <1>3 DEF Seen, Skip
<1>5. TypeOK'
  BY <1>1, <1>2, <1>3 DEF TypeOK
<1>6. Confined' /\ Frontier'
  BY <1>1, <1>4 DEF SearchInv, Confined, Closed, Frontier, Neighbours
<1>7. NotBegun' /\ Budget' /\ SearchIsComplete'
  BY <1>1 DEF SearchInv, NotBegun, Budget, SearchIsComplete
<1> QED
  BY <1>1, <1>5, <1>6, <1>7 DEF SearchInv

\* A visit replaces a node of the queue by its neighbours, which every closed
\* set that holds the node holds too.
LEMMA VisitKeeps == SearchInv /\ Visit => SearchInv'
<1> SUFFICES ASSUME SearchInv, Visit PROVE SearchInv'
  OBVIOUS
<1> USE DEF question
<1> DEFINE n == Head(queue)
<1>1. /\ adj' = adj /\ starts' = starts /\ wanted' = wanted /\ asked' = asked
      /\ included' = included /\ limit' = limit
      /\ visited' = visited \cup {n} /\ result' = Found(n)
      /\ pc = "search" /\ queue # <<>>
  BY DEF Visit
<1>2. TypeOK /\ queue \in Seq(Node)
  BY DEF SearchInv, TypeOK
<1>3. /\ n \in Node /\ Tail(queue) \in Seq(Node)
      /\ Queued(queue) = {n} \cup Queued(Tail(queue))
  BY <1>1, <1>2, QueuedTail
<1>4. adj[n] \in SUBSET Node
  BY <1>2, <1>3 DEF TypeOK
<1>5. Neighbours(visited \cup {n}) = Neighbours(visited) \cup adj[n]
  BY <1>2, NeighboursOf DEF TypeOK
<1>6. /\ Neighbours(starts)' = Neighbours(starts)
      /\ Neighbours(visited)' = Neighbours(visited \cup {n})
      /\ \A S : Closed(S)' = Closed(S)
  BY <1>1 DEF Neighbours, Closed
<1>7. result' = visited' \cap wanted' /\ result' \in SUBSET Node
  BY <1>1, <1>2, <1>3 DEF SearchInv, Found, TypeOK
<1>8. /\ Cardinality(result) \in Nat /\ Cardinality(result') \in Nat
      /\ Cardinality(included) \in Nat
      /\ Cardinality(result') <= Cardinality(result) + 1
  <2>1. IsFiniteSet(result) /\ Cardinality(result) \in Nat
    BY <1>2, Sizes DEF TypeOK
  <2>2. Cardinality(result \cup {n}) <= Cardinality(result) + 1
    <3>1. Cardinality(result \cup {n}) =
            IF n \in result THEN Cardinality(result) ELSE Cardinality(result) + 1
      BY <2>1, FS_AddElement
    <3> HIDE DEF n
    <3> QED
      BY <2>1, <3>1
  <2>3. Cardinality(included) \in Nat
    BY <1>2, Sizes DEF TypeOK
  <2> QED
    BY <1>1, <1>7, <2>1, <2>2, <2>3, Sizes DEF Found
<1>9. \A S \in SUBSET Node : Closed(S) => Seen \subseteq S /\ adj[n] \subseteq S
  <2>1. n \in Seen
    BY <1>3 DEF Seen
  <2> QED
    BY <2>1 DEF SearchInv, Confined, Closed, Neighbours
<1>10. NotBegun' /\ pc' \in PCs
  BY <1>1 DEF Visit, NotBegun, PCs
<1>11. limit \in Nat /\ asked \in Nat
  BY <1>2 DEF TypeOK
<1>12. CASE Cardinality(result') = limit
  <2>1. pc' = "done" /\ queue' = Tail(queue)
    BY <1>1, <1>12 DEF Visit
  <2>2. TypeOK'
    BY <1>1, <1>2, <1>3, <1>7, <2>1 DEF TypeOK, PCs
  <2>3. Confined'
    <3>1. Seen' = Seen
      BY <1>1, <1>3, <2>1 DEF Seen
    <3> QED
      BY <1>6, <3>1 DEF SearchInv, Confined
  <2>4. Frontier' /\ SearchIsComplete'
    BY <1>1, <1>11, <1>12, <2>1 DEF Frontier, SearchIsComplete
  <2>5. Budget'
    BY <1>1, <1>8, <1>11, <1>12, <2>1 DEF SearchInv, Budget
  <2> QED
    BY <1>7, <1>10, <2>2, <2>3, <2>4, <2>5 DEF SearchInv
<1>13. CASE Cardinality(result') # limit
  <2>1. PICK next \in Orders(adj[n]) : queue' = Tail(queue) \o next
    BY <1>1, <1>13 DEF Visit
  <2>2. pc' = "search"
    BY <1>1, <1>13 DEF Visit
  <2>3. next \in Seq(Node) /\ Queued(next) = adj[n]
    BY <1>4, <2>1, OrderIsQueue
  <2>4. /\ queue' \in Seq(Node)
        /\ Queued(queue') = Queued(Tail(queue)) \cup adj[n]
    BY <1>3, <2>1, <2>3, QueuedConcat
  <2>5. Seen' = Seen \cup adj[n]
    BY <1>1, <1>3, <2>4 DEF Seen
  <2>6. TypeOK'
    BY <1>1, <1>2, <1>3, <1>7, <2>2, <2>4 DEF TypeOK, PCs
  <2>7. Confined'
    BY <1>6, <1>9, <2>5 DEF Confined
  <2>8. Frontier'
    BY <1>1, <1>5, <1>6, <2>5 DEF SearchInv, Frontier
  <2>9. Budget'
    BY <1>1, <1>8, <1>11, <1>13 DEF SearchInv, Budget
  <2>10. SearchIsComplete'
    BY <2>2 DEF SearchIsComplete
  <2> QED
    BY <1>7, <1>10, <2>6, <2>7, <2>8, <2>9, <2>10 DEF SearchInv
<1> QED
  BY <1>12, <1>13

\* When the queue is empty, what has been seen has been visited.
LEMMA FinishKeeps == SearchInv /\ Finish => SearchInv'
<1> SUFFICES ASSUME SearchInv, Finish PROVE SearchInv'
  OBVIOUS
<1> USE DEF question
<1>1. /\ adj' = adj /\ starts' = starts /\ wanted' = wanted /\ asked' = asked
      /\ included' = included /\ limit' = limit /\ queue' = queue
      /\ visited' = visited /\ result' = result
      /\ pc = "search" /\ pc' = "done" /\ queue = <<>>
  BY DEF Finish
<1>2. TypeOK'
  BY <1>1 DEF SearchInv, TypeOK, PCs
<1>3. Seen' = Seen /\ Seen = visited
  BY <1>1, QueuedEmpty DEF Seen
<1>4. Confined' /\ Frontier' /\ NotBegun'
  BY <1>1, <1>3
  DEF SearchInv, Confined, Closed, Neighbours, Frontier, NotBegun
<1>5. Closed(visited)'
  BY <1>1, <1>3 DEF SearchInv, Frontier, Closed, Neighbours
<1>6. Budget' /\ SearchIsComplete' /\ result' = visited' \cap wanted'
  BY <1>1, <1>5 DEF SearchInv, Budget, SearchIsComplete
<1> QED
  BY <1>2, <1>4, <1>6 DEF SearchInv

\* Every step keeps the invariant.
LEMMA NextSearchInv == SearchInv /\ [Next]_vars => SearchInv'
<1> SUFFICES ASSUME SearchInv, [Next]_vars PROVE SearchInv'
  OBVIOUS
<1> USE DEF question
<1>1. TypeOK /\ Cardinality({}) = 0
  BY FS_EmptySet DEF SearchInv
<1>2. CASE BFS
  <2>1. included' = {} /\ limit = asked /\ limit \in Nat
    BY <1>1, <1>2 DEF BFS, SearchInv, NotBegun, TypeOK
  <2>2. limit + Cardinality(included') <= asked
    BY <1>1, <2>1
  <2> QED
    BY <1>2, <2>1, <2>2, BeginKeeps DEF BFS
<1>3. CASE TakeStarts
  <2>1. /\ visited = {} /\ result = {} /\ limit = asked
        /\ included' \in SUBSET Node /\ Cardinality(included') = asked
        /\ pc' = "done"
    BY <1>1, <1>3
    DEF TakeStarts, filtering, SearchInv, NotBegun, TypeOK
  <2>2. TypeOK'
    BY <1>1, <1>3, <2>1 DEF TakeStarts, TypeOK, PCs
  <2>3. Confined' /\ Frontier' /\ NotBegun'
    BY <1>3, <2>1
    DEF TakeStarts, SearchInv, Confined, Seen, Closed, Neighbours, Frontier,
        NotBegun
  <2>4. Budget'
    BY <1>1, <1>3, <2>1 DEF TakeStarts, Budget, TypeOK
  <2>5. SearchIsComplete' /\ result' = visited' \cap wanted'
    <3>1. answer' = included' /\ asked' = asked /\ asked \in Nat
      BY <1>1, <1>3, <2>1 DEF TakeStarts, answer, TypeOK
    <3> QED
      BY <1>3, <2>1, <3>1 DEF TakeStarts, SearchIsComplete
  <2> QED
    BY <2>2, <2>3, <2>4, <2>5 DEF SearchInv
<1>4. CASE IncludeStarts
  <2> DEFINE l == limit - Cardinality(filtering)
  <2>1. filtering \in SUBSET Node
    BY <1>1 DEF filtering, TypeOK
  <2>2. Cardinality(filtering) \in Nat
    BY <2>1, Sizes
  <2>3. l \in Nat /\ l + Cardinality(filtering) <= asked
    BY <1>1, <1>4, <2>2 DEF IncludeStarts, SearchInv, NotBegun, TypeOK
  <2> HIDE DEF l
  <2>4. BeginBFS(l) /\ included' = filtering
    BY <1>4 DEF IncludeStarts, l
  <2> QED
    BY <1>4, <2>1, <2>3, <2>4, BeginKeeps DEF IncludeStarts
<1>5. CASE UNCHANGED vars
  BY <1>5
  DEF vars, SearchInv, TypeOK, Confined, Seen, Closed, Neighbours, Frontier,
      NotBegun, Budget, SearchIsComplete, answer
<1> QED
  BY <1>2, <1>3, <1>4, <1>5, SkipKeeps, VisitKeeps, FinishKeeps DEF Next

\* The invariant holds throughout every call.
LEMMA SearchInvHolds == Spec => []SearchInv
BY InitSearchInv, NextSearchInv, PTL DEF Spec

-----------------------------------------------------------------------------
(* The theorems. *)

\* Type correctness; above all, the limit that BFSincludes leaves to BFS, an
\* unsigned difference in the code, is never below zero.
THEOREM SearchTypes == Spec => []TypeOK
<1>1. SearchInv => TypeOK
  BY DEF SearchInv
<1> QED
  BY <1>1, SearchInvHolds, PTL

\* A search on any graph visits only what a path from its starts leads to.
THEOREM SearchSound == Spec => []SearchIsSound
<1>1. SearchInv => SearchIsSound
  BY DEF SearchInv, Confined, Seen, SearchIsSound
<1> QED
  BY <1>1, SearchInvHolds, PTL

\* A search on any graph that returns short of its limit has missed nothing.
THEOREM SearchComplete == Spec => []SearchIsComplete
<1>1. SearchInv => SearchIsComplete
  BY DEF SearchInv
<1> QED
  BY <1>1, SearchInvHolds, PTL

\* BFS and BFSincludes never return more than was asked for.
THEOREM AnswerWithinLimit == Spec => []WithinLimit
<1>1. SearchInv => WithinLimit
  <2> SUFFICES ASSUME SearchInv PROVE WithinLimit
    OBVIOUS
  <2>1. /\ IsFiniteSet(result) /\ Cardinality(result) \in Nat
        /\ IsFiniteSet(included) /\ Cardinality(included) \in Nat
        /\ Cardinality(result \cap included) \in Nat
        /\ asked \in Nat
    BY Sizes DEF SearchInv, TypeOK
  <2>2. Cardinality(answer) =
          Cardinality(result) + Cardinality(included)
            - Cardinality(result \cap included)
    BY <2>1, FS_Union DEF answer
  <2> QED
    BY <2>1, <2>2 DEF SearchInv, Budget, WithinLimit
<1> QED
  BY <1>1, SearchInvHolds, PTL

-----------------------------------------------------------------------------
(* Distances. *)

\* The pairs of a number and a node that Within is to have, in every set that is
\* closed under its equations.
WithinRules(R) ==
  /\ R \subseteq Nat \X Node
  /\ \A n \in Neighbours(starts) : <<0, n>> \in R
  /\ \A k \in Nat : \A n \in Node :
       <<k, n>> \in R => /\ <<k + 1, n>> \in R
                         /\ \A m \in adj[n] : <<k + 1, m>> \in R
WithinSet(k) == {n \in Node : \A R \in SUBSET (Nat \X Node) : WithinRules(R) => <<k, n>> \in R}

LEMMA WithinSetZero ==
  ASSUME TypeOK
  PROVE  WithinSet(0) = Neighbours(starts)
<1>1. Neighbours(starts) \subseteq Node
  BY NeighboursOf DEF TypeOK
<1>2. Neighbours(starts) \subseteq WithinSet(0)
  BY <1>1 DEF WithinSet, WithinRules
<1> DEFINE R == {x \in Nat \X Node : x[1] > 0 \/ x[2] \in Neighbours(starts)}
<1>3. \A k \in Nat : \A n \in Node : <<k, n>> \in R <=> k > 0 \/ n \in Neighbours(starts)
  OBVIOUS
<1>4. R \in SUBSET (Nat \X Node)
  OBVIOUS
<1> HIDE DEF R
<1>5. \A n \in Node : adj[n] \subseteq Node
  BY DEF TypeOK
<1>6. WithinRules(R)
  BY <1>1, <1>3, <1>4, <1>5 DEF WithinRules
<1>7. ASSUME NEW n \in WithinSet(0)
      PROVE  n \in Neighbours(starts)
  <2>1. n \in Node /\ <<0, n>> \in R
    BY <1>4, <1>6 DEF WithinSet
  <2> QED
    BY <1>3, <2>1
<1> QED
  BY <1>2, <1>7

LEMMA WithinSetNext ==
  ASSUME TypeOK, NEW k \in Nat
  PROVE  WithinSet(k + 1) = WithinSet(k) \cup Neighbours(WithinSet(k))
<1> DEFINE next == WithinSet(k) \cup Neighbours(WithinSet(k))
<1>1. \A j : WithinSet(j) \subseteq Node
  BY DEF WithinSet
<1>2. \A n \in Node : adj[n] \subseteq Node
  BY DEF TypeOK
<1>3. ASSUME NEW j \in Nat, NEW n \in WithinSet(j)
      PROVE  n \in WithinSet(j + 1) /\ adj[n] \subseteq WithinSet(j + 1)
  BY <1>1, <1>2, <1>3 DEF WithinSet, WithinRules
<1>4. next \subseteq WithinSet(k + 1)
  BY <1>3 DEF Neighbours
<1>5. next \subseteq Node
  BY <1>1, NeighboursOf DEF TypeOK
<1>6. ASSUME NEW n \in WithinSet(k)
      PROVE  n \in next /\ adj[n] \subseteq next
  BY <1>6 DEF Neighbours
<1> HIDE DEF next
<1> DEFINE R == {x \in Nat \X Node : \/ x[1] <= k /\ x[2] \in WithinSet(x[1])
                                     \/ x[1] = k + 1 /\ x[2] \in next
                                     \/ x[1] > k + 1}
<1>7. \A j \in Nat : \A n \in Node :
        <<j, n>> \in R <=> \/ j <= k /\ n \in WithinSet(j)
                           \/ j = k + 1 /\ n \in next
                           \/ j > k + 1
  OBVIOUS
<1>8. R \in SUBSET (Nat \X Node)
  OBVIOUS
<1> HIDE DEF R
<1>9. \A n \in Neighbours(starts) : <<0, n>> \in R
  <2>1. \A n \in Neighbours(starts) : n \in Node /\ n \in WithinSet(0) /\ 0 <= k
    BY WithinSetZero, NeighboursOf DEF TypeOK
  <2> QED
    BY <1>7, <2>1
<1>10. ASSUME NEW j \in Nat, NEW n \in Node, <<j, n>> \in R,
              NEW m, m = n \/ m \in adj[n]
       PROVE  <<j + 1, m>> \in R
  <2>1. m \in Node /\ j + 1 \in Nat
    BY <1>2, <1>10
  <2>2. CASE j < k
    <3>1. n \in WithinSet(j)
      BY <1>7, <1>10, <2>2
    <3>2. m \in WithinSet(j + 1)
      BY <1>3, <1>10, <3>1
    <3>3. j + 1 <= k
      BY <2>2
    <3> QED
      BY <1>7, <2>1, <3>2, <3>3
  <2>3. CASE j = k
    <3>1. n \in WithinSet(k)
      BY <1>7, <1>10, <2>3
    <3>2. m \in next
      BY <1>6, <1>10, <3>1
    <3> QED
      BY <1>7, <2>1, <2>3, <3>2
  <2>4. CASE j > k
    <3>1. j + 1 > k + 1
      BY <2>4
    <3> QED
      BY <1>7, <2>1, <3>1
  <2> QED
    BY <2>2, <2>3, <2>4
<1>11. WithinRules(R)
  BY <1>8, <1>9, <1>10 DEF WithinRules
<1>12. ASSUME NEW n \in WithinSet(k + 1)
       PROVE  n \in next
  <2>1. n \in Node /\ <<k + 1, n>> \in R
    BY <1>8, <1>11 DEF WithinSet
  <2>2. ~(k + 1 <= k) /\ ~(k + 1 > k + 1) /\ k + 1 \in Nat
    OBVIOUS
  <2> QED
    BY <1>7, <2>1, <2>2
<1>13. WithinSet(k + 1) = next
  BY <1>4, <1>12
<1> QED
  BY <1>13 DEF next

\* Within is what its equations say.
LEMMA WithinIs ==
  ASSUME TypeOK
  PROVE  /\ Within[0] = Neighbours(starts)
         /\ \A k \in Nat : Within[k + 1] = Within[k] \cup Neighbours(Within[k])
<1> DEFINE W == [k \in Nat |-> WithinSet(k)]
           Defining(f) == f = [k \in Nat |-> IF k = 0 THEN Neighbours(starts)
                                             ELSE f[k - 1] \cup Neighbours(f[k - 1])]
<1>1. Defining(W)
  <2>1. ASSUME NEW k \in Nat
        PROVE  WithinSet(k) = IF k = 0 THEN Neighbours(starts)
                              ELSE W[k - 1] \cup Neighbours(W[k - 1])
    <3>1. CASE k = 0
      BY <3>1, WithinSetZero
    <3>2. CASE k # 0
      <4>1. PICK j \in Nat : k = j + 1 /\ j = k - 1
        BY <3>2
      <4>2. W[k - 1] = WithinSet(j)
        BY <4>1
      <4>3. WithinSet(k) = WithinSet(j) \cup Neighbours(WithinSet(j))
        BY <4>1, WithinSetNext
      <4> QED
        BY <3>2, <4>2, <4>3
    <3> QED
      BY <3>1, <3>2
  <2> QED
    BY <2>1
<1>2. Within = CHOOSE f : Defining(f)
  BY DEF Within
<1>3. Defining(Within)
  <2> HIDE DEF Defining, W
  <2> QED
    BY <1>1, <1>2
<1>4. Within[0] = Neighbours(starts)
  BY <1>3
<1>5. ASSUME NEW k \in Nat
      PROVE  Within[k + 1] = Within[k] \cup Neighbours(Within[k])
  <2>1. k + 1 \in Nat /\ k + 1 # 0 /\ (k + 1) - 1 = k
    OBVIOUS
  <2> QED
    BY <1>3, <2>1
<1> QED
  BY <1>4, <1>5

\* The nodes within more edges are more, and lie in every set that the edges do
\* not leave.
LEMMA WithinGrows ==
  ASSUME TypeOK
  PROVE  /\ \A k \in Nat : Within[k] \subseteq Node
         /\ \A j, k \in Nat : j <= k => Within[j] \subseteq Within[k]
         /\ \A S : Closed(S) => \A k \in Nat : Within[k] \subseteq S
<1>1. ASSUME NEW S, Closed(S), NEW k \in Nat
      PROVE  Within[k] \subseteq S
  <2> DEFINE T == {j \in Nat : Within[j] \subseteq S}
  <2>1. 0 \in T
    BY <1>1, WithinIs DEF Closed
  <2>2. ASSUME NEW j \in Nat, j \in T PROVE j + 1 \in T
    BY <1>1, <2>2, WithinIs DEF Closed, Neighbours
  <2> HIDE DEF T
  <2>3. Nat \subseteq T
    BY <2>1, <2>2, SetInduction
  <2> QED
    BY <2>3 DEF T
<1>2. Closed(Node)
  BY NeighboursOf DEF TypeOK, Closed
<1>3. ASSUME NEW j \in Nat
      PROVE  \A k \in Nat : j <= k => Within[j] \subseteq Within[k]
  <2> DEFINE T == {k \in Nat : j <= k => Within[j] \subseteq Within[k]}
  <2>1. 0 \in T
    OBVIOUS
  <2>2. ASSUME NEW k \in Nat, k \in T PROVE k + 1 \in T
    <3>1. CASE j <= k
      BY <2>2, <3>1, WithinIs
    <3>2. CASE j = k + 1
      BY <3>2
    <3>3. CASE j > k + 1
      BY <3>3
    <3> QED
      BY <3>1, <3>2, <3>3
  <2> HIDE DEF T
  <2>3. Nat \subseteq T
    BY <2>1, <2>2, SetInduction
  <2> QED
    BY <2>3 DEF T
<1> QED
  BY <1>1, <1>2, <1>3

\* No node that can be reached is further away than there are nodes.
LEMMA ReachableClosed ==
  ASSUME TypeOK
  PROVE  Closed(Reachable)
<1>1. /\ IsFiniteSet(Node) /\ Cardinality(Node) \in Nat
      /\ \A k \in Nat : Within[k] \in SUBSET Node
  BY NodeAssumption, FS_CardinalityType, WithinGrows
<1>2. \A k \in Nat : IsFiniteSet(Within[k]) /\ Cardinality(Within[k]) \in Nat
  BY <1>1, Sizes
<1>3. \A k \in Nat : Neighbours(starts) \subseteq Within[k]
  BY WithinIs, WithinGrows
<1> DEFINE T == {k \in Nat : Closed(Within[k]) \/ Cardinality(Within[k]) >= k}
<1>4. 0 \in T
  BY <1>2
<1>5. ASSUME NEW k \in Nat, k \in T PROVE k + 1 \in T
  <2>1. Within[k + 1] = Within[k] \cup Neighbours(Within[k]) /\ k + 1 \in Nat
    BY WithinIs
  <2>2. CASE Neighbours(Within[k]) \subseteq Within[k]
    <3>1. Within[k + 1] = Within[k]
      BY <2>1, <2>2
    <3>2. Closed(Within[k + 1])
      BY <1>3, <2>2, <3>1 DEF Closed
    <3> QED
      BY <2>1, <3>2
  <2>3. CASE ~(Neighbours(Within[k]) \subseteq Within[k])
    <3>1. Cardinality(Within[k]) >= k
      BY <1>5, <2>3 DEF Closed
    <3>2. Within[k] \subseteq Within[k + 1] /\ Within[k] # Within[k + 1]
      BY <2>1, <2>3
    <3>3. /\ Cardinality(Within[k]) <= Cardinality(Within[k + 1])
          /\ Cardinality(Within[k]) = Cardinality(Within[k + 1]) => Within[k] = Within[k + 1]
      BY <1>2, <2>1, <3>2, FS_Subset
    <3>4. Cardinality(Within[k + 1]) >= k + 1
      BY <1>2, <2>1, <3>1, <3>2, <3>3
    <3> QED
      BY <2>1, <3>4
  <2> QED
    BY <2>2, <2>3
<1> HIDE DEF T
<1>6. Cardinality(Node) \in T
  BY <1>1, <1>4, <1>5, SetInduction
<1>7. CASE Cardinality(Reachable) >= Cardinality(Node)
  <2>1. Reachable \subseteq Node
    BY <1>1 DEF Reachable
  <2>2. /\ Cardinality(Reachable) \in Nat /\ Cardinality(Reachable) <= Cardinality(Node)
        /\ Cardinality(Reachable) = Cardinality(Node) => Reachable = Node
    BY <1>1, <1>2, <2>1, FS_Subset DEF Reachable
  <2>3. Reachable = Node
    BY <1>1, <1>7, <2>2
  <2> QED
    BY <2>3, NeighboursOf DEF TypeOK, Closed
<1> QED
  BY <1>6, <1>7 DEF T, Reachable

\* A node that can be reached has a depth, the least number of edges.
LEMMA DepthIs ==
  ASSUME TypeOK, NEW n \in Reachable
  PROVE  /\ Depth(n) \in Nat /\ n \in Within[Depth(n)]
         /\ \A j \in 0 .. Depth(n) - 1 : n \notin Within[j]
<1>1. Cardinality(Node) \in Nat
  BY NodeAssumption, FS_CardinalityType
<1> DEFINE T == {k \in Nat : n \in Within[k]}
<1>2. Cardinality(Node) \in T
  BY <1>1 DEF Reachable
<1>3. T \in SUBSET Nat
  OBVIOUS
<1>4. PICK k \in T : \A j \in T : k <= j
  <2> HIDE DEF T
  <2> QED
    BY <1>2, <1>3, LeastElement
<1>5. k \in 0 .. Cardinality(Node) /\ n \in Within[k]
  BY <1>1, <1>2, <1>4
<1>6. \A j \in 0 .. k - 1 : n \notin Within[j]
  BY <1>4
<1> DEFINE D(d) == d \in 0 .. Cardinality(Node) /\ n \in Within[d]
                   /\ \A j \in 0 .. d - 1 : n \notin Within[j]
<1>7. D(k)
  BY <1>5, <1>6
<1>8. Depth(n) = CHOOSE d : D(d)
  BY DEF Depth
<1>9. D(Depth(n))
  <2> HIDE DEF D
  <2> QED
    BY <1>7, <1>8
<1> QED
  BY <1>1, <1>9

-----------------------------------------------------------------------------
(* The order of the search. *)

LEMMA SameWithin ==
  ASSUME adj' = adj, starts' = starts
  PROVE  Within' = Within
BY DEF Within, Neighbours

\* A search that is at distance d has visited all that is nearer, and nothing that
\* is further away.
LayerAt(d) == /\ d \in Nat /\ visited \subseteq Within[d]
              /\ \A k \in 0 .. d - 1 : Within[k] \subseteq visited

\* The first s in its queue are at distance d, and all that is has been seen; those
\* behind are one edge further.
QueueAt(d, s) == /\ s \in 0 .. Len(queue)
                 /\ \A i \in 1..s : queue[i] \in Within[d]
                 /\ \A i \in 1 .. Len(queue) : queue[i] \in Within[d + 1]
                 /\ Within[d] \subseteq visited \cup {queue[i] : i \in 1..s}

Layered == \E d \in Nat : /\ LayerAt(d)
                          /\ pc = "search" => \E s \in Nat : QueueAt(d, s)

\* When all at distance d have been visited, all that wait are one edge further.
LEMMA NextLayer ==
  ASSUME SearchInv, Layered, pc = "search", queue # <<>>
  PROVE  \E d \in Nat : \E s \in Nat \ {0} : LayerAt(d) /\ QueueAt(d, s)
<1>1. PICK d, s : d \in Nat /\ s \in Nat /\ LayerAt(d) /\ QueueAt(d, s)
  BY DEF Layered
<1>2. TypeOK /\ Frontier /\ queue \in Seq(Node)
  BY DEF SearchInv, TypeOK
<1>3. Len(queue) \in Nat \ {0} /\ DOMAIN queue = 1..Len(queue)
  BY <1>2, EmptySeq, LenProperties
<1>4. CASE s = 0
  <2>1. Within[d] \subseteq visited
    BY <1>1, <1>4 DEF QueueAt
  <2>2. Within[d + 1] = Within[d] \cup Neighbours(Within[d]) /\ d + 1 \in Nat
    BY <1>1, <1>2, WithinIs
  <2>3. Neighbours(Within[d]) \subseteq Seen
    BY <1>2, <2>1 DEF Frontier, Neighbours
  <2>4. Within[d + 1] \subseteq visited \cup {queue[i] : i \in 1 .. Len(queue)}
    BY <1>3, <2>1, <2>2, <2>3 DEF Seen, Queued
  <2>5. /\ Within[d + 1] \subseteq Within[(d + 1) + 1] /\ Within[d] \subseteq Within[d + 1]
        /\ \A k \in 0..d : Within[k] \subseteq Within[d]
    BY <1>1, <1>2, <2>2, WithinGrows
  <2>6. LayerAt(d + 1)
    BY <1>1, <2>1, <2>2, <2>5 DEF LayerAt
  <2>7. QueueAt(d + 1, Len(queue))
    BY <1>1, <1>3, <2>4, <2>5 DEF QueueAt
  <2> QED
    BY <1>3, <2>2, <2>6, <2>7
<1>5. CASE s # 0
  BY <1>1, <1>5
<1> QED
  BY <1>4, <1>5

LEMMA LayeredAtFirst ==
  ASSUME SearchInv, pc \in {"BFS", "BFSincludes"}, NEW l, BeginBFS(l),
         UNCHANGED <<question, visited>>
  PROVE  Layered'
<1>1. visited' = {} /\ Within' = Within /\ TypeOK
  BY SameWithin DEF SearchInv, NotBegun, question
<1>2. 0 \in Nat /\ LayerAt(0)'
  BY <1>1 DEF LayerAt
<1>3. ASSUME pc' = "search"
      PROVE  \E s \in Nat : QueueAt(0, s)'
  <2>1. queue' \in Orders(Neighbours(starts))
    BY <1>3 DEF BeginBFS
  <2>2. Neighbours(starts) \subseteq Node /\ Within[0] = Neighbours(starts)
    BY <1>1, WithinIs, NeighboursOf DEF TypeOK
  <2>3. queue' \in Seq(Node) /\ Queued(queue') = Within[0]
    BY <2>1, <2>2, OrderIsQueue
  <2>4. Len(queue') \in Nat /\ DOMAIN queue' = 1 .. Len(queue')
    BY <2>3, LenProperties
  <2>5. \A i \in 1 .. Len(queue') : queue'[i] \in Within[0]
    BY <2>3, <2>4 DEF Queued
  <2>6. Within[0] \subseteq Within[0 + 1]
    BY <1>1, WithinGrows
  <2>7. Within[0] \subseteq {queue'[i] : i \in 1 .. Len(queue')}
    BY <2>3, <2>4 DEF Queued
  <2>8. QueueAt(0, Len(queue))'
    BY <1>1, <2>4, <2>5, <2>6, <2>7 DEF QueueAt
  <2> QED
    BY <2>4, <2>8 DEF QueueAt
<1> QED
  BY <1>2, <1>3 DEF Layered

LEMMA SkipLayered ==
  ASSUME SearchInv, Layered, Skip
  PROVE  Layered'
<1>1. /\ Within' = Within /\ visited' = visited /\ pc = "search" /\ queue # <<>>
      /\ Head(queue) \in visited /\ queue' = Tail(queue)
      /\ TypeOK /\ queue \in Seq(Node)
  BY SameWithin DEF Skip, question, SearchInv, TypeOK
<1>2. PICK d, s : d \in Nat /\ s \in Nat \ {0} /\ LayerAt(d) /\ QueueAt(d, s)
  BY <1>1, NextLayer
<1>3. PICK n \in Nat \ {0} : n = Len(queue)
  BY <1>1, EmptySeq, LenProperties
<1>4. /\ Len(queue') = n - 1 /\ \A i \in 1 .. n - 1 : queue'[i] = queue[i + 1]
      /\ Head(queue) = queue[1]
  BY <1>1, <1>3, HeadTailProperties
<1>5. /\ s \in 1..n
      /\ \A i \in 1..s : queue[i] \in Within[d]
      /\ \A i \in 1..n : queue[i] \in Within[d + 1]
      /\ \A m \in Within[d] : m \in visited \/ \E i \in 1..s : queue[i] = m
  BY <1>2, <1>3 DEF QueueAt
<1>6. /\ s - 1 \in 0 .. n - 1 /\ s - 1 \in Nat
      /\ \A i \in 1 .. s - 1 : i \in 1 .. n - 1 /\ i + 1 \in 1..s
      /\ \A i \in 1 .. n - 1 : i + 1 \in 1..n
  BY <1>2, <1>3, <1>5
<1>7. /\ \A i \in 1 .. s - 1 : queue'[i] \in Within[d]
      /\ \A i \in 1 .. n - 1 : queue'[i] \in Within[d + 1]
  BY <1>4, <1>5, <1>6
<1>8. ASSUME NEW m \in Within[d], m \notin visited
      PROVE  \E i \in 1 .. s - 1 : queue'[i] = m
  <2>1. PICK i \in 1..s : queue[i] = m
    BY <1>5, <1>8
  <2>2. i # 1
    BY <1>1, <1>4, <1>8, <2>1
  <2>3. i - 1 \in 1 .. s - 1 /\ (i - 1) + 1 = i
    BY <1>2, <2>1, <2>2
  <2>4. queue'[i - 1] = m
    BY <1>4, <1>6, <2>1, <2>3
  <2> QED
    BY <2>3, <2>4
<1>9. QueueAt(d, s - 1)'
  BY <1>1, <1>4, <1>6, <1>7, <1>8 DEF QueueAt
<1>10. LayerAt(d)'
  BY <1>1, <1>2 DEF LayerAt
<1> QED
  BY <1>2, <1>6, <1>9, <1>10 DEF Layered

LEMMA VisitLayered ==
  ASSUME SearchInv, Layered, Visit
  PROVE  Layered'
<1> DEFINE x == Head(queue)
<1>1. /\ Within' = Within /\ visited' = visited \cup {x} /\ pc = "search" /\ queue # <<>>
      /\ TypeOK /\ queue \in Seq(Node)
  BY SameWithin DEF Visit, question, SearchInv, TypeOK
<1>2. PICK d, s : d \in Nat /\ s \in Nat \ {0} /\ LayerAt(d) /\ QueueAt(d, s)
  BY <1>1, NextLayer
<1>3. PICK n \in Nat \ {0} : n = Len(queue)
  BY <1>1, EmptySeq, LenProperties
<1>4. /\ Tail(queue) \in Seq(Node) /\ Len(Tail(queue)) = n - 1
      /\ \A i \in 1 .. n - 1 : Tail(queue)[i] = queue[i + 1]
      /\ x = queue[1] /\ x \in Node
  BY <1>1, <1>3, HeadTailProperties
<1>5. /\ s \in 1..n
      /\ \A i \in 1..s : queue[i] \in Within[d]
      /\ \A i \in 1..n : queue[i] \in Within[d + 1]
      /\ \A m \in Within[d] : m \in visited \/ \E i \in 1..s : queue[i] = m
  BY <1>2, <1>3 DEF QueueAt
<1>6. /\ 1 \in 1..s /\ s - 1 \in 0 .. n - 1 /\ s - 1 \in Nat
      /\ \A i \in 1 .. s - 1 : i \in 1 .. n - 1 /\ i + 1 \in 1..s
  BY <1>2, <1>3, <1>5
<1>7. x \in Within[d]
  BY <1>4, <1>5, <1>6
<1>8. LayerAt(d)'
  BY <1>1, <1>2, <1>7 DEF LayerAt
<1>9. ASSUME pc' = "search"
      PROVE  QueueAt(d, s - 1)'
  <2>1. PICK next \in Orders(adj[x]) : queue' = Tail(queue) \o next
    BY <1>9 DEF Visit
  <2>2. adj[x] \subseteq Node /\ adj[x] \subseteq Within[d + 1]
    <3>1. adj[x] \subseteq Neighbours(Within[d])
      BY <1>7 DEF Neighbours
    <3> QED
      BY <1>1, <1>2, <1>4, <3>1, WithinIs DEF TypeOK
  <2>3. next \in Seq(Node) /\ Queued(next) = adj[x]
    BY <2>1, <2>2, OrderIsQueue
  <2>4. PICK l \in Nat : l = Len(next) /\ DOMAIN next = 1..l
    BY <2>3, LenProperties
  <2>5. /\ Len(queue') = (n - 1) + l
        /\ \A i \in 1 .. (n - 1) + l :
             queue'[i] = IF i <= n - 1 THEN Tail(queue)[i] ELSE next[i - (n - 1)]
    <3>1. PICK rest : rest = Tail(queue)
      OBVIOUS
    <3>2. rest \in Seq(Node) /\ Len(rest) = n - 1 /\ queue' = rest \o next
      BY <1>4, <2>1, <3>1
    <3>3. /\ Len(rest \o next) = (n - 1) + l
          /\ \A i \in 1 .. (n - 1) + l :
               (rest \o next)[i] = IF i <= n - 1 THEN rest[i] ELSE next[i - (n - 1)]
      BY <2>3, <2>4, <3>2, ConcatProperties
    <3> QED
      BY <3>1, <3>2, <3>3
  <2>6. /\ \A i \in 1 .. n - 1 : i \in 1 .. (n - 1) + l /\ i <= n - 1
        /\ \A i \in 1 .. (n - 1) + l : i \in 1 .. n - 1 \/ (~(i <= n - 1) /\ i - (n - 1) \in 1..l)
        /\ s - 1 \in 0 .. (n - 1) + l
    BY <1>6, <2>4
  <2>7. \A i \in 1 .. n - 1 : queue'[i] = queue[i + 1] /\ i + 1 \in 1..n
    BY <1>4, <2>5, <2>6
  <2>8. \A i \in 1..l : next[i] \in Within[d + 1]
    BY <2>2, <2>3, <2>4 DEF Queued
  <2>9. ASSUME NEW i \in 1 .. (n - 1) + l
        PROVE  queue'[i] \in Within[d + 1]
    <3>1. CASE i \in 1 .. n - 1
      BY <1>5, <2>7, <3>1
    <3>2. CASE i \notin 1 .. n - 1
      <4>1. ~(i <= n - 1) /\ i - (n - 1) \in 1..l
        BY <2>6, <3>2
      <4>2. queue'[i] = next[i - (n - 1)]
        BY <2>5, <4>1
      <4> QED
        BY <2>8, <4>1, <4>2
    <3> QED
      BY <3>1, <3>2
  <2>10. \A i \in 1 .. s - 1 : queue'[i] \in Within[d]
    BY <1>5, <1>6, <2>7
  <2>11. ASSUME NEW m \in Within[d], m \notin visited'
         PROVE  \E i \in 1 .. s - 1 : queue'[i] = m
    <3>1. PICK i \in 1..s : queue[i] = m
      BY <1>1, <1>5, <2>11
    <3>2. i # 1
      BY <1>1, <1>4, <2>11, <3>1
    <3>3. i - 1 \in 1 .. s - 1 /\ (i - 1) + 1 = i
      BY <1>2, <3>1, <3>2
    <3>4. queue'[i - 1] = m
      BY <1>6, <2>7, <3>1, <3>3
    <3> QED
      BY <3>3, <3>4
  <2> QED
    BY <1>1, <2>5, <2>6, <2>9, <2>10, <2>11 DEF QueueAt
<1> QED
  BY <1>2, <1>6, <1>8, <1>9 DEF Layered

\* What BFS is left with is what was asked for and BFSincludes has not taken; when
\* it is not called, that is enough.
Spent ==
  pc \in {"search", "done"} =>
    \/ limit + Cardinality(included) = asked
    \/ Cardinality(included) = asked /\ result = {}

OrderInv == Layered /\ Spent

LEMMA OrderKept ==
  ASSUME SearchInv, OrderInv, [Next]_vars
  PROVE  OrderInv'
<1>1. TypeOK /\ Cardinality({}) = 0
  BY FS_EmptySet DEF SearchInv
<1>2. ASSUME UNCHANGED <<question, visited>>, pc' # "search"
      PROVE  Layered'
  <2>1. Within' = Within /\ visited' = visited
    BY <1>2, SameWithin DEF question
  <2> QED
    BY <1>2, <2>1 DEF OrderInv, Layered, LayerAt
<1>3. CASE BFS
  <2>1. limit = asked /\ included = {} /\ limit \in Nat /\ included' = included
        /\ limit' = limit /\ asked' = asked
    BY <1>1, <1>3 DEF BFS, SearchInv, NotBegun, TypeOK, BeginBFS, question
  <2>2. Spent'
    BY <1>1, <2>1 DEF Spent
  <2>3. Layered'
    BY <1>3, LayeredAtFirst DEF BFS
  <2> QED
    BY <2>2, <2>3 DEF OrderInv
<1>4. CASE TakeStarts
  <2>1. /\ result' = {} /\ Cardinality(included') = asked' /\ pc' = "done"
        /\ UNCHANGED <<question, visited>>
    BY <1>4 DEF TakeStarts, SearchInv, NotBegun, question
  <2> QED
    BY <1>2, <2>1 DEF OrderInv, Spent
<1>5. CASE IncludeStarts
  <2> DEFINE l == limit - Cardinality(filtering)
  <2>1. BeginBFS(l) /\ included' = filtering /\ limit = asked /\ asked' = asked
        /\ pc = "BFSincludes"
    BY <1>5 DEF IncludeStarts, SearchInv, NotBegun, question
  <2>2. limit' = l
    BY <2>1 DEF BeginBFS
  <2>3. Cardinality(filtering) \in Nat /\ asked \in Nat
    <3>1. filtering \in SUBSET Node
      BY <1>1 DEF filtering, TypeOK
    <3> QED
      BY <1>1, <3>1, Sizes DEF TypeOK
  <2>4. Spent'
    BY <2>1, <2>2, <2>3 DEF Spent
  <2> HIDE DEF l
  <2>5. Layered'
    BY <1>5, <2>1, LayeredAtFirst DEF IncludeStarts
  <2> QED
    BY <2>4, <2>5 DEF OrderInv
<1>6. CASE Skip
  <2>1. Spent'
    BY <1>6 DEF Skip, OrderInv, Spent, question
  <2> QED
    BY <1>6, <2>1, SkipLayered DEF OrderInv
<1>7. CASE Visit
  <2>1. UNCHANGED <<limit, included, asked>> /\ pc = "search"
    BY <1>7 DEF Visit, question
  <2>2. limit + Cardinality(included) = asked
    <3>1. Cardinality(result) < limit /\ limit + Cardinality(included) <= asked
      BY <2>1 DEF SearchInv, Budget
    <3>2. limit \in Nat /\ Cardinality(included) \in Nat /\ asked \in Nat
      BY <1>1, Sizes DEF TypeOK
    <3>3. limit > 0
      BY <1>1, <3>1, Sizes DEF TypeOK
    <3> QED
      BY <2>1, <3>1, <3>2, <3>3 DEF OrderInv, Spent
  <2>3. Spent'
    BY <2>1, <2>2 DEF Spent
  <2> QED
    BY <1>7, <2>3, VisitLayered DEF OrderInv
<1>8. CASE Finish
  <2>1. /\ UNCHANGED <<question, visited, limit, included, result>> /\ pc = "search"
        /\ pc' = "done"
    BY <1>8 DEF Finish
  <2>2. Spent'
    BY <2>1 DEF OrderInv, Spent, question
  <2> QED
    BY <1>2, <2>1, <2>2 DEF OrderInv
<1>9. CASE UNCHANGED vars
  <2>1. /\ UNCHANGED <<visited, queue, limit, included, result, asked, pc>>
        /\ Within' = Within
    BY <1>9, SameWithin DEF vars, question
  <2>2. \A d, s : (LayerAt(d)' <=> LayerAt(d)) /\ (QueueAt(d, s)' <=> QueueAt(d, s))
    BY <2>1 DEF LayerAt, QueueAt
  <2>3. Layered' <=> Layered
    BY <2>1, <2>2 DEF Layered
  <2>4. Spent' <=> Spent
    BY <2>1 DEF Spent
  <2> QED
    BY <2>3, <2>4 DEF OrderInv
<1> QED
  BY <1>3, <1>4, <1>5, <1>6, <1>7, <1>8, <1>9 DEF Next

LEMMA OrderInvHolds == Spec => [](SearchInv /\ OrderInv)
<1>1. Init => OrderInv
  BY DEF Init, OrderInv, Spent, Layered, LayerAt
<1>2. SearchInv /\ OrderInv /\ [Next]_vars => OrderInv'
  BY OrderKept
<1> QED
  BY <1>1, <1>2, InitSearchInv, NextSearchInv, PTL DEF Spec

\* A search with a limit keeps the nearest: the queries take the one node that they
\* ask for to be the next use.
THEOREM SearchNearestFirst == Spec => []NearestFirst
<1>1. SearchInv /\ OrderInv => NearestFirst
  <2> SUFFICES ASSUME SearchInv, OrderInv,
                      NEW n \in result, NEW m \in (Reachable \cap wanted) \ result
               PROVE  Depth(n) <= Depth(m)
    BY DEF NearestFirst
  <2>1. PICK d : d \in Nat /\ LayerAt(d)
    BY DEF OrderInv, Layered
  <2>2. TypeOK /\ n \in visited /\ m \notin visited /\ m \in Reachable
    BY DEF SearchInv
  <2>3. n \in Reachable
    <3>1. Reachable \in SUBSET Node
      BY <2>2, NodeAssumption, FS_CardinalityType, WithinGrows DEF Reachable
    <3> QED
      BY <2>2, <3>1, ReachableClosed DEF SearchInv, Confined, Seen
  <2>4. /\ Depth(n) \in Nat /\ \A j \in 0 .. Depth(n) - 1 : n \notin Within[j]
        /\ Depth(m) \in Nat /\ m \in Within[Depth(m)]
    BY <2>2, <2>3, DepthIs
  <2>5. n \in Within[d] /\ \A k \in 0 .. d - 1 : m \notin Within[k]
    BY <2>1, <2>2 DEF LayerAt
  <2>6. Depth(n) <= d
    BY <2>1, <2>4, <2>5
  <2>7. d <= Depth(m)
    BY <2>1, <2>4, <2>5
  <2> QED
    BY <2>1, <2>4, <2>6, <2>7
<1> QED
  BY <1>1, OrderInvHolds, PTL

\* BFS never falls short of what was asked for and exists; BFSincludes only when its
\* search has come back to starts that it had counted.
THEOREM ShortByOverlapOnly == Spec => []ShortOnlyByOverlap
<1>1. SearchInv /\ OrderInv => ShortOnlyByOverlap
  <2> SUFFICES ASSUME SearchInv, OrderInv, pc = "done", Cardinality(answer) < asked,
                      result \cap included = {}
               PROVE  (Reachable \cup included) \cap wanted \subseteq answer
    BY DEF ShortOnlyByOverlap, FallsShort
  <2>1. TypeOK
    BY DEF SearchInv
  <2>2. /\ IsFiniteSet(result) /\ Cardinality(result) \in Nat
        /\ IsFiniteSet(included) /\ Cardinality(included) \in Nat
        /\ asked \in Nat /\ limit \in Nat /\ Cardinality({}) = 0
    BY <2>1, Sizes, FS_EmptySet DEF TypeOK
  <2>3. Cardinality(answer) = Cardinality(result) + Cardinality(included)
    <3>1. Cardinality(answer) = Cardinality(result) + Cardinality(included)
                                  - Cardinality(result \cap included)
      BY <2>2, FS_Union DEF answer
    <3>2. Cardinality(result \cap included) = 0
      BY <2>2
    <3> QED
      BY <2>2, <3>1, <3>2
  <2>4. Cardinality(result) < limit
    BY <2>2, <2>3 DEF OrderInv, Spent
  <2>5. Closed(visited) /\ result = visited \cap wanted
    BY <2>4 DEF SearchInv, SearchIsComplete
  <2>6. Reachable \subseteq visited
    BY <2>1, <2>5, NodeAssumption, FS_CardinalityType, WithinGrows DEF Reachable
  <2> QED
    BY <2>5, <2>6 DEF answer
<1> QED
  BY <1>1, OrderInvHolds, PTL
=============================================================================
