---------------------------- MODULE QuerySearch -----------------------------
(***************************************************************************)
(* Query::BFS and Query::BFSincludes (query.cc): the searches on which the  *)
(* vulnerability queries, the CFG builder and the interpreter's functions   *)
(* rest.  adj is the graph as one search sees it: the edges that its        *)
(* condition accepts, turned round when it runs in reverse.                 *)
(*                                                                          *)
(* The edges of a node, and the nodes of a NodeSet, come in the order of    *)
(* their identifiers; here they come in any order.  A node that two edges   *)
(* put into the queue at once is put there once: the later one would be     *)
(* skipped.                                                                 *)
(*                                                                          *)
(* A definition whose comment begins with "variant" is the next one with a  *)
(* plausible mistake in it; the model does not use it.                      *)
(***************************************************************************)
EXTENDS Integers, Sequences, FiniteSets

CONSTANTS Node,     \* the nodes of the graph
          Graphs,   \* the graphs searched: node -> the nodes one edge away
          Limits    \* the limits asked for

ASSUME NodeAssumption   == IsFiniteSet(Node)
ASSUME GraphsAssumption == Graphs \subseteq [Node -> SUBSET Node]
ASSUME LimitsAssumption == Limits \subseteq Nat

VARIABLES
  adj, starts, wanted, asked,   \* what the caller asks; wanted is where var
                                \* (a condition or a Predicate) is true
  included,  \* filtering: the starts that BFSincludes takes
  limit,     \* what is left of asked for the BFS itself
  queue, visited, result,
  pc

question == <<adj, starts, wanted, asked>>
vars == <<question, included, limit, queue, visited, result, pc>>

PCs == {"BFS", "BFSincludes", "search", "done"}

TypeOK ==
  /\ adj \in [Node -> SUBSET Node]
  /\ starts \subseteq Node /\ wanted \subseteq Node
  /\ asked \in Nat
  /\ included \subseteq Node
  /\ limit \in Nat
  /\ queue \in Seq(Node)
  /\ visited \subseteq Node /\ result \subseteq Node
  /\ pc \in PCs

\* The orders in which the nodes of S may come.
Orders(S) ==
  {q \in [1..Cardinality(S) -> S] : \A n \in S : \E i \in DOMAIN q : q[i] = n}

\* map<Node*>(nodes, mapFunction): the nodes one edge away from those of S.
Neighbours(S) == UNION {adj[n] : n \in S}

-----------------------------------------------------------------------------
Init ==
  /\ adj \in Graphs
  /\ starts \in SUBSET Node /\ wanted \in SUBSET Node
  /\ asked \in Limits
  /\ included = {} /\ limit = asked
  /\ queue = <<>> /\ visited = {} /\ result = {}
  /\ pc \in {"BFS", "BFSincludes"}

\* variant: the search begins at the starts and not one edge away.
BeginBFS_atStarts(l) ==
  /\ limit' = l
  /\ IF starts = {} \/ l = 0
     THEN pc' = "done" /\ UNCHANGED queue
     ELSE pc' = "search" /\ queue' \in Orders(starts)

\* The call of BFS with limit l: the starts themselves are not visited.
BeginBFS(l) ==
  /\ limit' = l
  /\ IF starts = {} \/ l = 0
     THEN pc' = "done" /\ UNCHANGED queue
     ELSE pc' = "search" /\ queue' \in Orders(Neighbours(starts))

BFS ==
  /\ pc = "BFS"
  /\ BeginBFS(limit)
  /\ UNCHANGED <<question, included, visited, result>>

filtering == starts \cap wanted

\* BFSincludes finds enough among the starts: it takes as many as asked.
TakeStarts ==
  /\ pc = "BFSincludes"
  /\ Cardinality(filtering) >= limit
  /\ included' \in {s \in SUBSET filtering : Cardinality(s) = limit}
  /\ pc' = "done"
  /\ UNCHANGED <<question, limit, queue, visited, result>>

\* variant: the search may find as many as were asked for.
IncludeStarts_fullLimit ==
  /\ pc = "BFSincludes"
  /\ Cardinality(filtering) < limit
  /\ included' = filtering
  /\ BeginBFS(limit)
  /\ UNCHANGED <<question, visited, result>>

\* variant: all the starts are counted, not those that are taken.
IncludeStarts_allCounted ==
  /\ pc = "BFSincludes"
  /\ Cardinality(filtering) < limit
  /\ included' = filtering
  /\ BeginBFS(IF Cardinality(starts) >= limit THEN 0
              ELSE limit - Cardinality(starts))
  /\ UNCHANGED <<question, visited, result>>

\* variant: the size is not compared with the limit first.
IncludeStarts_unguarded ==
  /\ pc = "BFSincludes"
  /\ included' = filtering
  /\ BeginBFS(limit - Cardinality(filtering))
  /\ UNCHANGED <<question, visited, result>>

\* BFSincludes takes all such starts, and leaves the rest to BFS.
IncludeStarts ==
  /\ pc = "BFSincludes"
  /\ Cardinality(filtering) < limit
  /\ included' = filtering
  /\ BeginBFS(limit - Cardinality(filtering))
  /\ UNCHANGED <<question, visited, result>>

\* The node at the front of the queue has been visited: it is dropped.
Skip ==
  /\ pc = "search" /\ queue # <<>> /\ Head(queue) \in visited
  /\ queue' = Tail(queue)
  /\ UNCHANGED <<question, included, limit, visited, result, pc>>

\* What is found once node n is evaluated.
Found(n) == IF n \in wanted THEN result \cup {n} ELSE result

\* variant: the neighbours go to the front of the queue.
Visit_front ==
  /\ pc = "search" /\ queue # <<>> /\ Head(queue) \notin visited
  /\ LET n == Head(queue)
     IN  /\ visited' = visited \cup {n}
         /\ result' = Found(n)
         /\ IF Cardinality(Found(n)) = limit
            THEN pc' = "done" /\ queue' = Tail(queue)
            ELSE /\ \E next \in Orders(adj[n]) : queue' = next \o Tail(queue)
                 /\ UNCHANGED pc
  /\ UNCHANGED <<question, included, limit>>

\* variant: the search does not go on beyond a node that is found.
Visit_stopsAtFound ==
  /\ pc = "search" /\ queue # <<>> /\ Head(queue) \notin visited
  /\ LET n == Head(queue)
     IN  /\ visited' = visited \cup {n}
         /\ result' = Found(n)
         /\ IF Cardinality(Found(n)) = limit
            THEN pc' = "done" /\ queue' = Tail(queue)
            ELSE /\ \E next \in Orders(IF n \in wanted THEN {} ELSE adj[n]) :
                      queue' = Tail(queue) \o next
                 /\ UNCHANGED pc
  /\ UNCHANGED <<question, included, limit>>

\* variant: only the nodes that are found are marked.
Visit_marksFound ==
  /\ pc = "search" /\ queue # <<>> /\ Head(queue) \notin visited
  /\ LET n == Head(queue)
     IN  /\ visited' = visited \cup ({n} \cap wanted)
         /\ result' = Found(n)
         /\ IF Cardinality(Found(n)) = limit
            THEN pc' = "done" /\ queue' = Tail(queue)
            ELSE /\ \E next \in Orders(adj[n] \ visited) :
                      queue' = Tail(queue) \o next
                 /\ UNCHANGED pc
  /\ UNCHANGED <<question, included, limit>>

\* The node at the front is visited; its neighbours go to the back.
Visit ==
  /\ pc = "search" /\ queue # <<>> /\ Head(queue) \notin visited
  /\ LET n == Head(queue)
     IN  /\ visited' = visited \cup {n}
         /\ result' = Found(n)
         /\ IF Cardinality(Found(n)) = limit
            THEN pc' = "done" /\ queue' = Tail(queue)
            ELSE /\ \E next \in Orders(adj[n]) : queue' = Tail(queue) \o next
                 /\ UNCHANGED pc
  /\ UNCHANGED <<question, included, limit>>

Finish ==
  /\ pc = "search" /\ queue = <<>>
  /\ pc' = "done"
  /\ UNCHANGED <<question, included, limit, queue, visited, result>>

Next == BFS \/ TakeStarts \/ IncludeStarts \/ Skip \/ Visit \/ Finish

\* A call that nothing interrupts runs to its return.
Spec == Init /\ [][Next]_vars /\ WF_vars(Next)

-----------------------------------------------------------------------------
(* Properties. *)

\* What the caller is given.
answer == result \cup included

\* S holds all that one edge or more lead to from the starts.
Closed(S) == Neighbours(starts) \subseteq S /\ Neighbours(S) \subseteq S

\* The search visits nothing that no path leads to: it stays inside every
\* set that the edges from the starts do not leave.  (A start counts only if
\* an edge leads back to it: the queries for double frees rely on that.)
SearchIsSound == \A S \in SUBSET Node : Closed(S) => visited \subseteq S

\* A search that returns without its limit reached has missed nothing: what it
\* visited is closed, and it has found all of that which was wanted.
SearchIsComplete ==
  pc = "done" /\ Cardinality(answer) < asked /\ Cardinality(result) < limit =>
    Closed(visited) /\ result = visited \cap wanted

\* The number of edges from the starts to a node that the search may visit.
Within[k \in Nat] ==
  IF k = 0 THEN Neighbours(starts)
  ELSE Within[k - 1] \cup Neighbours(Within[k - 1])
Depth(n) ==
  CHOOSE k \in 0 .. Cardinality(Node) :
    n \in Within[k] /\ \A j \in 0 .. k - 1 : n \notin Within[j]
Reachable == Within[Cardinality(Node)]

\* A limited search keeps the nearest: no node left out is nearer to the
\* starts than one that is in the result ("a classic BFS").
NearestFirst ==
  \A n \in result, m \in (Reachable \cap wanted) \ result : Depth(n) <= Depth(m)

\* "The maximum number of elements in the result set", with the starts that
\* BFSincludes adds.
WithinLimit == Cardinality(answer) <= asked

\* The answer falls short of what was asked for, though more could be found.
FallsShort ==
  /\ Cardinality(answer) < asked
  /\ ~ ((Reachable \cup included) \cap wanted \subseteq answer)

\* An answer falls short only when BFSincludes has left the rest to a search
\* that came back to starts that were counted already; BFS never does.
ShortOnlyByOverlap ==
  pc = "done" /\ FallsShort => result \cap included # {}

\* A search on a finite graph ends, cycles or not.
Terminates == <>(pc = "done")
=============================================================================
