---------------------------- MODULE GraphWriters ----------------------------
(***************************************************************************)
(* CSVWriter, JSONWriter and DotWriter: which nodes and edges of a graph    *)
(* each writes, for the parts of the graph and the loop that the options    *)
(* ask for.  The writers go over the nodes in the order of identifiers;     *)
(* CSV and dot write a node's edges before it, JSON all edges at the end.   *)
(***************************************************************************)
EXTENDS GraphRows, FiniteSetsExt

CONSTANT Inputs       \* the graphs and options: a set of the records below

\* nodes: the nodes, by identifier; edges: the edges, as they were made;
\* all, parts: printAll, and the parts to print otherwise;
\* loop: loopsInsts, the nodes of the loop asked for (none if there is none);
\* format; lengths: how many bytes a line of a row may have.
IsInput(x) ==
  /\ IsFiniteSet(DOMAIN x.nodes) /\ DOMAIN x.nodes = 0 .. Cardinality(DOMAIN x.nodes) - 1
  /\ \A i \in DOMAIN x.nodes : /\ x.nodes[i].kind \in Kinds
                              /\ x.nodes[i] \in NodesOf(i, x.nodes[i].kind)
  /\ x.edges \in Seq(Edges(DOMAIN x.nodes))
  /\ \A j \in DOMAIN x.edges : IsEdge(x.edges[j])
  /\ x.all \in BOOLEAN /\ x.parts \subseteq ToSet(EdgeTypes)
  /\ x.loop \subseteq DOMAIN x.nodes
  /\ x.format \in {"csv", "json", "dot"}
  /\ x.lengths \subseteq Nat \ {0}

ASSUME InputsAssumption == \A x \in Inputs : IsInput(x)

VARIABLES
  input,
  phase,     \* "nodes", then "edges" (JSON), then "written"; reading goes on from it
  next,      \* the node that comes next
  rowsOut,   \* the nodes written: rows for CSV, identifiers for JSON and dot
  edgesOut,  \* the edges written: rows for CSV, edges for JSON and dot
  info,      \* the numbers of nodes and edges in info.json
  slots      \* JSON: the objects of the array "nodes", with the edges listed in each

writerVars == <<input, phase, next, rowsOut, edgesOut, info, slots>>

Ids        == DOMAIN input.nodes
OutEdges(i) == Selection(input.edges, {e \in Edges(Ids) : e.src = i})  \* _outEdges
Accepted(e) == input.all \/ e.type \in input.parts                    \* visitASTEdge, ...
AcceptedOf(s) == Selection(s, {e \in Edges(Ids) : Accepted(e)})

\* Variant: a node is asked for its outgoing edges only.
hasEdgesOf_out(i, t) ==
  \E j \in DOMAIN input.edges : input.edges[j].type = t /\ input.edges[j].src = i

hasEdgesOf(i, t) ==
  \E j \in DOMAIN input.edges : input.edges[j].type = t
                                /\ i \in {input.edges[j].src, input.edges[j].dest}

\* writeGraph: nodes outside the loop are passed over; without printAll a node
\* is written for an edge of a part to print.
Skipped(i)  == input.loop # {} /\ i \notin input.loop
Selected(i) == input.all \/ \E t \in input.parts : hasEdgesOf(i, t)

\* CompareEdge, for edges of one source; labels in some order.
Place(x, s) == CHOOSE k \in DOMAIN s : s[k] = x
CompareKey(e) ==
  <<Place(e.type, EdgeTypes), e.dest, Place(e.label, Labels),
    Place(e.pdgType, <<"Local", "Global", "Function", "Control", "Const", "None">>)>>
EdgeLess(d, e) ==
  LET D == CompareKey(d)
      E == CompareKey(e)
  IN  \E k \in 1..4 : D[k] < E[k] /\ \A j \in 1..(k - 1) : D[j] = E[j]

\* Node::outEdges(), an EdgeSet: the label of a Const edge is its text.
EdgeSet(i) ==
  LET E == {[e EXCEPT !.label = EdgeLabel(e)] : e \in ToSet(OutEdges(i))}
      Before(e) == {d \in E : EdgeLess(d, e)}
  IN  [k \in 1 .. Cardinality(E) |-> CHOOSE e \in E : Cardinality(Before(e)) = k - 1]

\* A row of the file, with the columns in each of its lines and the bytes that
\* a line takes.
Row(fields, columns, length) == [fields |-> fields, columns |-> columns, length |-> length]

NodeRows(s, length) == [j \in DOMAIN s |-> Row(s[j], NodeLines(s[j]), length)]

\* The rows of edges, each AST edge with its astOrder.
EdgeRows(s, length) ==
  [j \in DOMAIN s |->
     Row([order |-> IF s[j].type # "AST" THEN ""
                    ELSE Cardinality({k \in 1 .. j - 1 : s[k].type = "AST"}),
          edge  |-> EdgeRow(s[j])], EdgeLines(EdgeRow(s[j])), length)]

-----------------------------------------------------------------------------
WriterInit ==
  /\ input \in Inputs
  /\ phase = "nodes" /\ next = 0
  /\ rowsOut = <<>> /\ edgesOut = <<>> /\ slots = <<>>
  /\ info = [nodes |-> 0, edges |-> 0]

Working(format) == phase = "nodes" /\ next \in Ids /\ input.format = format

Skip(format) ==
  /\ Working(format) /\ Skipped(next)
  /\ next' = next + 1
  /\ UNCHANGED <<input, phase, rowsOut, edgesOut, info, slots>>

\* Variant: the edges are counted whether or not they are written.
WriteRows_countAll ==
  /\ Working("csv") /\ ~Skipped(next)
  /\ LET es == AcceptedOf(EdgeSet(next))
         ns == IF Selected(next) THEN <<NodeRow(input.nodes[next])>> ELSE <<>>
     IN  /\ \E m, n \in input.lengths : /\ edgesOut' = edgesOut \o EdgeRows(es, m)
                                       /\ rowsOut' = rowsOut \o NodeRows(ns, n)
         /\ info' = [nodes |-> info.nodes + Len(ns), edges |-> info.edges + Len(EdgeSet(next))]
  /\ next' = next + 1
  /\ UNCHANGED <<input, phase, slots>>

\* CSVWriter::writeGraph, one node.
WriteRows ==
  /\ Working("csv") /\ ~Skipped(next)
  /\ LET es == AcceptedOf(EdgeSet(next))
         ns == IF Selected(next) THEN <<NodeRow(input.nodes[next])>> ELSE <<>>
     IN  /\ \E m, n \in input.lengths : /\ edgesOut' = edgesOut \o EdgeRows(es, m)
                                       /\ rowsOut' = rowsOut \o NodeRows(ns, n)
         /\ info' = [nodes |-> info.nodes + Len(ns), edges |-> info.edges + Len(es)]
  /\ next' = next + 1
  /\ UNCHANGED <<input, phase, slots>>

\* DotWriter::writeGraph, one node.
WriteDot ==
  /\ Working("dot") /\ ~Skipped(next)
  /\ edgesOut' = edgesOut \o AcceptedOf(OutEdges(next))
  /\ rowsOut' = IF Selected(next) THEN Append(rowsOut, next) ELSE rowsOut
  /\ next' = next + 1
  /\ UNCHANGED <<input, phase, info, slots>>

\* JSONWriter::writeGraph, the nodes.
Slot(i) == [node |-> i, outEdges |-> <<>>, inEdges |-> <<>>]
Null    == Slot("null")

WriteJson ==
  /\ Working("json") /\ ~Skipped(next)
  /\ rowsOut' = IF Selected(next) THEN Append(rowsOut, next) ELSE rowsOut
  /\ slots'   = IF Selected(next) THEN Append(slots, Slot(next)) ELSE slots
  /\ next' = next + 1
  /\ UNCHANGED <<input, phase, edgesOut, info>>

\* JSONWriter::insertEdge: edge number k goes to the objects at the positions
\* of its ends' identifiers; the array grows if there is no such position.
\* Variant: an edge from a node to itself is listed once.
insertEdge_selfOnce(s, e, k) ==
  LET m == Max({Len(s), e.src + 1, e.dest + 1})
  IN  [p \in 1..m |->
         LET o == IF p <= Len(s) THEN s[p] ELSE Null
         IN  IF p = e.src + 1 THEN [o EXCEPT !.outEdges = Append(@, k)]
             ELSE IF p = e.dest + 1 THEN [o EXCEPT !.inEdges = Append(@, k)] ELSE o]

insertEdge(s, e, k) ==
  LET m == Max({Len(s), e.src + 1, e.dest + 1})
  IN  [p \in 1..m |->
         LET o == IF p <= Len(s) THEN s[p] ELSE Null
         IN  [o EXCEPT !.outEdges = IF p = e.src + 1 THEN Append(@, k) ELSE @,
                       !.inEdges  = IF p = e.dest + 1 THEN Append(@, k) ELSE @]]

\* JSONWriter::writeGraph, the edges of one node: of every node.
WriteJsonEdges ==
  /\ phase = "edges" /\ next \in Ids
  /\ LET es == AcceptedOf(OutEdges(next))
         S[j \in 0..Len(es)] == IF j = 0 THEN slots
                                ELSE insertEdge(S[j - 1], es[j], Len(edgesOut) + j - 1)
     IN  slots' = S[Len(es)] /\ edgesOut' = edgesOut \o es
  /\ next' = next + 1
  /\ UNCHANGED <<input, phase, rowsOut, info>>

EndNodes ==
  /\ phase = "nodes" /\ next \notin Ids
  /\ IF input.format = "json" THEN phase' = "edges" /\ next' = 0
                              ELSE phase' = "written" /\ next' = next
  /\ UNCHANGED <<input, rowsOut, edgesOut, info, slots>>

EndEdges ==
  /\ phase = "edges" /\ next \notin Ids
  /\ phase' = "written"
  /\ UNCHANGED <<input, next, rowsOut, edgesOut, info, slots>>

WriterNext == \/ \E f \in {"csv", "json", "dot"} : Skip(f)
              \/ WriteRows \/ WriteDot \/ WriteJson \/ WriteJsonEdges
              \/ EndNodes \/ EndEdges
-----------------------------------------------------------------------------
\* The identifiers of the nodes written, in their order.
WrittenIds == IF input.format # "csv" THEN rowsOut
              ELSE [k \in DOMAIN rowsOut |-> rowsOut[k].fields[NodeCol("id")]]

EndsOf(e) == IF input.format = "csv" THEN {e.fields.edge.src, e.fields.edge.dest}
             ELSE {e.src, e.dest}

\* The nodes written are the first ones, without a gap.
NoGap == \A k \in DOMAIN WrittenIds : WrittenIds[k] = k - 1

EdgesJoinWrittenNodes ==
  (phase \notin {"nodes", "edges"} /\ input.loop = {}) =>
     \A j \in DOMAIN edgesOut : EndsOf(edgesOut[j]) \subseteq ToSet(WrittenIds)

NodesListTheirEdges ==
  (phase = "written" /\ input.format = "json" /\ NoGap) =>
    \A p \in DOMAIN rowsOut :
      /\ slots[p].node = p - 1
      /\ ToSet(slots[p].outEdges) = {k - 1 : k \in {k \in DOMAIN edgesOut : edgesOut[k].src = p - 1}}
      /\ ToSet(slots[p].inEdges)  = {k - 1 : k \in {k \in DOMAIN edgesOut : edgesOut[k].dest = p - 1}}

\* Whatever parts are asked for, an edge is written only between nodes that
\* are: what selects the edges and what selects the nodes agree.  (Of a loop
\* asked for, the edges to nodes outside are written, in JSON all edges.)  And
\* in the JSON graph every node lists its own edges, unless nodes were left out
\* and an identifier is not the node's position any more.
WrittenGraphIsWhole == EdgesJoinWrittenNodes /\ NodesListTheirEdges
=============================================================================
