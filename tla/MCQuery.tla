------------------------------- MODULE MCQuery ------------------------------
(***************************************************************************)
(* The graphs and limits for TLC: of every graph on the given nodes one     *)
(* representative.  Nodes are told apart by nothing but the graph, and the  *)
(* starts, the wanted nodes and the orders are all tried, so that a graph   *)
(* with its nodes renamed shows nothing new.  (A SYMMETRY set would do the  *)
(* same for the invariants, but not for the liveness property.)             *)
(***************************************************************************)
EXTENDS QuerySearch, FiniteSetsExt, TLC

CONSTANTS MaxNode,     \* bound on the number of nodes, which are numbers
          MaxLimit     \* bound on the limit asked for; more than Node is "no limit"

MCNode   == 1..MaxNode
MCLimits == 0..MaxLimit

\* A number for each graph, its edges mapped by p.
Code(g, p) == SumSet({2 ^ (MaxNode * p[a] + p[b]) : <<a, b>> \in
                        {e \in MCNode \X MCNode : e[2] \in g[e[1]]}})

MCGraphs == {g \in [MCNode -> SUBSET MCNode] :
               \A p \in Permutations(MCNode) :
                  Code(g, [n \in MCNode |-> n]) <= Code(g, p)}
=============================================================================
