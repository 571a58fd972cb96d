----------------------------- MODULE GraphFile ------------------------------
(***************************************************************************)
(* A graph written by one of the writers and, if written as CSV, read back  *)
(* by CSVReader: the archive is the writer's rows, as lines of bytes.       *)
(***************************************************************************)
EXTENDS GraphWriters, RowReader

VARIABLES
  nodes,    \* Graph::_nodes of the graph that is read
  edges,    \* its edges, as they are made
  special   \* the nodes that setModule, setTrap and setStart were given

fileVars == <<writerVars, readerVars, nodes, edges, special>>

\* The lines that some rows make, and the row that each is of.
Lines(rows) ==
  FlattenSeq([j \in DOMAIN rows |-> [k \in DOMAIN rows[j].columns |->
                [of |-> j, columns |-> rows[j].columns[k], length |-> rows[j].length]]])

\* The bytes of some lines: byte k of line j is <<j, k>>.
Line(lines, j) == [k \in 1..lines[j].length |-> <<j, k>>]
Bytes(lines)   == FlattenSeq([j \in DOMAIN lines |-> Append(Line(lines, j), Newline)])

\* The line of the file that the text is: 0 if it is none.
RowOf(lines, text) ==
  IF \E j \in DOMAIN lines : Line(lines, j) = text
  THEN CHOOSE j \in DOMAIN lines : Line(lines, j) = text ELSE 0

-----------------------------------------------------------------------------
FInit == /\ WriterInit
         /\ Begin(<<>>, "closed")
         /\ nodes = <<>> /\ edges = <<>> /\ special = {}

Write == WriterNext /\ UNCHANGED <<readerVars, nodes, edges, special>>

\* CSVReader::readGraph, from the archive that is written.
ReadNodes ==
  /\ phase = "written" /\ input.format = "csv"
  /\ fopen(Bytes(Lines(rowsOut))) /\ phase' = "reading nodes"
  /\ UNCHANGED <<input, next, rowsOut, edgesOut, info, slots, nodes, edges, special>>

ReadLine == readLine /\ UNCHANGED <<writerVars, nodes, edges, special>>

Reading(p) == phase = p /\ reader = "returned"
\* The loop of readGraph: on to the next line unless the file is at its end.
Loop == reader' = IF eof THEN "closed" ELSE "call"

EmptyRow ==
  /\ reader = "returned" /\ row = <<>>
  /\ Loop
  /\ UNCHANGED <<writerVars, file, taken, buffer, current, last, eof, prefix, row,
                 nodes, edges, special>>

\* parseNode asserts that there are 18 columns, so that the line is a whole
\* row, and every constructor that the identifier is the next; in between the
\* row's texts are parsed.
NodeFits(j) == /\ j # 0
               /\ LET line   == Lines(rowsOut)[j]
                      fields == rowsOut[line.of].fields
                  IN  /\ line.columns = 18
                      /\ Parses(fields)
                      /\ fields[NodeCol("id")] = Len(nodes)

InsertNode ==
  /\ Reading("reading nodes") /\ row # <<>>
  /\ LET j == RowOf(Lines(rowsOut), row)
         n == parseNode(rowsOut[Lines(rowsOut)[j].of].fields)
     IN  /\ NodeFits(j)
         /\ nodes' = Append(nodes, n)
         /\ special' = IF n.kind \in {"Module", "Trap", "Start"}
                       THEN special \cup {<<n.kind, n.id>>} ELSE special
  /\ Loop
  /\ UNCHANGED <<writerVars, file, taken, buffer, current, last, eof, prefix, row, edges>>

\* parseEdge asserts that there are 8 columns at least, and that the ends are
\* nodes.
EdgeFits(j) == /\ j # 0
               /\ LET line == Lines(edgesOut)[j]
                  IN  /\ line.columns >= 8
                      /\ EndsOf(edgesOut[line.of]) \subseteq 0 .. Len(nodes) - 1

InsertEdge ==
  /\ Reading("reading edges") /\ row # <<>>
  /\ LET j == RowOf(Lines(edgesOut), row)
     IN  /\ EdgeFits(j)
         /\ edges' = Append(edges, parseEdge(edgesOut[Lines(edgesOut)[j].of].fields.edge))
  /\ Loop
  /\ UNCHANGED <<writerVars, file, taken, buffer, current, last, eof, prefix, row,
                 nodes, special>>

\* An assertion, or an exception that nothing catches.
RowRefused ==
  /\ reader = "returned" /\ row # <<>>
  /\ \/ phase = "reading nodes" /\ ~NodeFits(RowOf(Lines(rowsOut), row))
     \/ phase = "reading edges" /\ ~EdgeFits(RowOf(Lines(edgesOut), row))
  /\ reader' = "failed"
  /\ UNCHANGED <<writerVars, file, taken, buffer, current, last, eof, prefix, row,
                 nodes, edges, special>>

ReadEdges ==
  /\ phase = "reading nodes" /\ reader = "closed"
  /\ fopen(Bytes(Lines(edgesOut))) /\ phase' = "reading edges"
  /\ UNCHANGED <<input, next, rowsOut, edgesOut, info, slots, nodes, edges, special>>

\* The numbers are compared with those of info.json by assertions.
EndRead ==
  /\ phase = "reading edges" /\ reader = "closed"
  /\ IF info = [nodes |-> Len(nodes), edges |-> Len(edges)]
     THEN phase' = "loaded" /\ reader' = "closed"
     ELSE phase' = phase /\ reader' = "failed"
  /\ UNCHANGED <<input, next, rowsOut, edgesOut, info, slots, nodes, edges, special,
                 file, taken, buffer, current, last, eof, prefix, row>>

readGraph == \/ ReadNodes \/ ReadLine \/ EmptyRow \/ InsertNode \/ InsertEdge
             \/ RowRefused \/ ReadEdges \/ EndRead

FNext == Write \/ readGraph

\* The writers and the reader are sequential programs.
FSpec == FInit /\ [][FNext]_fileVars /\ WF_fileVars(FNext)
-----------------------------------------------------------------------------
\* What becomes of a node: the commas of names and labels, what follows a NUL
\* in them, the decimals of constants, and whether a function is imported, are
\* lost.
OnFile(n) ==
  [n EXCEPT !.is = [p \in DOMAIN n.is |->
     CASE p \in {"name", "label"} -> Printed(n.is[p])
       [] p = "isImport" -> n.is["isExport"]
       [] p = "value"    -> writeConst(n.is[p])
       [] OTHER          -> n.is[p]]]

\* What becomes of the edges of node i.
EdgesOnFile(i) ==
  {[e EXCEPT !.label = Printed(EdgeLabel(e))] :
     e \in {e \in ToSet(OutEdges(i)) : Accepted(e)}}

\* A graph that readGraph has read to its end is the one that writeGraph was
\* given, up to OnFile: all its nodes and no others, every edge of the parts
\* written once, and its module, trap and start.
ReadIsWritten ==
  phase = "loaded" =>
    /\ nodes = [k \in 1 .. Len(rowsOut) |-> OnFile(input.nodes[WrittenIds[k]])]
    /\ ToSet(edges) = UNION {EdgesOnFile(i) : i \in {i \in Ids : ~Skipped(i)}}
    /\ special = {<<nodes[k].kind, k - 1>> :
                    k \in {k \in DOMAIN nodes : nodes[k].kind \in {"Module", "Trap", "Start"}}}

\* Nodes and edges whose rows parseNode and parseEdge refuse: a newline in a
\* name or label splits the row, and an offset is printed as unsigned but
\* parsed as an int.
Breaks(n) == \/ \E p \in DOMAIN n.is \cap {"name", "label"} : n.is[p] = "with newline"
             \/ "offset" \in DOMAIN n.is /\ n.is["offset"] = "large"
EdgeBreaks(e) == e.label = "with newline"

\* Why reading must fail: nodes were left out, so that identifiers have a gap
\* or an edge lacks an end; or a node or edge breaks its row; or the end of a
\* file is not seen, as it comes with the end of the buffer or where an old
\* newline is.
NotReadable ==
  \/ ~NoGap
  \/ \E j \in DOMAIN edgesOut : ~(EndsOf(edgesOut[j]) \subseteq ToSet(WrittenIds))
  \/ \E k \in DOMAIN rowsOut : Breaks(input.nodes[WrittenIds[k]])
  \/ \E i \in Ids : ~Skipped(i) /\ \E e \in EdgesOnFile(i) : EdgeBreaks(e)
  \/ \E f \in {Bytes(Lines(rowsOut)), Bytes(Lines(edgesOut))} :
        FillsBuffer(f) \/ StaleNewline(f)

\* Reading fails for these causes and for no other: whatever is written of a
\* graph can be read if it is closed under the ends of edges, no name, label or
\* offset of it breaks a row and the lengths of the files allow it; and never
\* is half of it read without a failure.
FailsForCause ==
  /\ reader = "failed" => NotReadable
  /\ phase = "loaded"  => ~NotReadable

\* readGraph comes to an end, also when readLine goes on with old rows.
ReadingEnds == input.format = "csv" ~> (phase = "loaded" \/ reader = "failed")
=============================================================================
