------------------------------- MODULE MCFile -------------------------------
(***************************************************************************)
(* The graphs and options for TLC, in families: a node of every kind, with   *)
(* every choice of its properties; an edge of every label, written or not;   *)
(* three nodes with edges, written in parts and for a loop; and nodes and    *)
(* edges whose rows are of several lengths.                                  *)
(***************************************************************************)
EXTENDS GraphFile, TLC

CONSTANTS MaxEdges,   \* bound on the number of edges of a graph in Parts
          MaxRows     \* bound on the number of nodes of one in Lengths

Input(ns, es, all, parts, loop, format, lengths) ==
  [nodes |-> ns, edges |-> es, all |-> all, parts |-> parts, loop |-> loop,
   format |-> format, lengths |-> lengths]

Nop(i) == [id |-> i, kind |-> "Nop", is |-> <<>>]
Nops(k) == [i \in 0..k |-> Nop(i)]

EachKind ==
  {Input((0 :> n) @@ (1 :> Nop(1)), <<Edge("AST", 0, 1, "", "None")>>, TRUE, {}, {}, "csv", {BUFF_SIZE}) :
     n \in UNION {NodesOf(0, k) : k \in Kinds}}

EachLabel ==
  {Input(Nops(1), <<Edge("PDG", 0, 1, l, "Local"), Edge("CFG", 0, 1, "", "None")>>,
         s = {}, s, loop, "csv", {1, BUFF_SIZE}) :
     l \in ToSet(Labels), s \in {{}, {"PDG"}, {"CFG"}}, loop \in {{}, {0}}}

SomeEdges ==
  {Edge("AST", 0, 1, "", "None"), Edge("AST", 0, 2, "", "None"),
   Edge("CFG", 1, 2, "", "None"), Edge("CFG", 1, 2, "true", "None"),
   Edge("CFG", 2, 2, "false", "None"), Edge("CG", 1, 0, "", "None"),
   Edge("PDG", 1, 2, "with,comma", "Local"), Edge("PDG", 1, 2, "fine", "Const"),
   Edge("PDG", 1, 2, "float", "Const")}

Parts ==
  {Input(Nops(2), es, o[1], o[2], loop, format, {BUFF_SIZE}) :
     es \in UNION {[1..k -> SomeEdges] : k \in 0..MaxEdges},
     o \in {<<TRUE, {}>>} \cup {<<FALSE, s>> : s \in {{"AST"}, {"CFG"}, {"CG"}, {"CFG", "PDG"}}},
     loop \in {{}, {0, 1}, {1, 2}}, format \in {"csv", "json", "dot"}}

Lengths ==
  {Input(Nops(k - 1), [j \in 1..m |-> Edge("CFG", 0, j - 1, "", "None")], TRUE, {}, {}, "csv",
         {1, BUFF_SIZE - 2, BUFF_SIZE - 1, BUFF_SIZE + 2}) :
     <<k, m>> \in {km \in (1..MaxRows) \X (1..MaxRows) : km[2] <= km[1]}}

MCInputs == EachKind \cup EachLabel \cup Parts \cup Lengths
=============================================================================
