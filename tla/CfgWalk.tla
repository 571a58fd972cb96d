------------------------------ MODULE CfgWalk -------------------------------
(***************************************************************************)
(* What the control flow graph promises its users (the PDG builder and the  *)
(* queries): execution is a walk on it.  The graph is first built, edge by  *)
(* edge, and then a cursor moves on it along edges only.                    *)
(***************************************************************************)
CONSTANT Entry     \* the node where every walk begins

VARIABLES graph,   \* the edges built so far
          cursor   \* the node of the graph where control is

Init == graph = {} /\ cursor = Entry

Build == /\ cursor = Entry
         /\ graph \subseteq graph'
         /\ UNCHANGED cursor

Walk == /\ \E d \in graph : d.src = cursor /\ d.dest = cursor'
        /\ UNCHANGED graph

Next == Build \/ Walk

Spec == Init /\ [][Next]_<<graph, cursor>>
=============================================================================
