-------------------------- MODULE GraphFileProofs ---------------------------
(***************************************************************************)
(* Theorems about the files of a graph, for any graphs, options, lengths of *)
(* rows and size of the reader's buffer: an edge is written between nodes   *)
(* that are written, and what is read is what was written or reading fails  *)
(* for a cause that NotReadable names.                                      *)
(*                                                                          *)
(* The argument has four parts.  A row: whatever column a class fills, its  *)
(* constructor reads (RowParses, EdgeParses).  The writers: a step passes   *)
(* the next node and writes of it what is due (WriterInv); the objects of   *)
(* the JSON graph list the first edges (GraphInv).  The reader: where in    *)
(* the file the buffer is, between calls, and that a call returns the next  *)
(* row, or the end of the file, or has missed that end (Reads).  The file:  *)
(* from stage to stage, what has been read is what the first rows say       *)
(* (FileInv).                                                               *)
(***************************************************************************)
EXTENDS GraphFile, CommonLemmas

-----------------------------------------------------------------------------
(* The row of a node. *)

\* There are 18 columns, no two of the same name.
LEMMA ColumnsDiffer ==
  /\ DOMAIN NodeColumns = 1..18
  /\ \A i, j \in 1..18 : NodeColumns[i] = NodeColumns[j] => i = j
  BY DEF NodeColumns

\* The columns that are read by name are there.
LEMMA ColumnNames ==
  {"id", "nodeType", "name", "index", "nargs", "nlocals", "nresults", "isImport",
   "isExport", "varType", "instType", "opcode", "constType", "constValueI",
   "constValueF", "label", "offset", "hasElse"} \subseteq ToSet(NodeColumns)
  BY DEF NodeColumns, ToSet

\* The text under column c of the row of a node.
LEMMA CellIs ==
  ASSUME NEW n, NEW c \in ToSet(NodeColumns)
  PROVE  NodeRow(n)[NodeCol(c)] =
           IF c \in {"name", "label"} THEN Printed(NodesMap(n)[Key(c)]) ELSE NodesMap(n)[Key(c)]
<1>1. PICK i \in 1..18 : NodeColumns[i] = c
  BY ColumnsDiffer DEF ToSet
<1>2. NodeCol(c) = i
  BY <1>1, ColumnsDiffer DEF NodeCol
<1>3. NodeRow(n)[i] = IF NodeColumns[i] \in {"name", "label"}
                      THEN Printed(NodesMap(n)[Key(NodeColumns[i])])
                      ELSE NodesMap(n)[Key(NodeColumns[i])]
  BY <1>1, ColumnsDiffer DEF NodeRow
<1> QED
  BY <1>1, <1>2, <1>3

\* The key of a column that is filled, and that no later one has.
LEMMA MapIs ==
  ASSUME NEW n, NEW l \in Nat, DOMAIN Filled(n) = 1..l, NEW i \in 1..l,
         Filled(n)[i] \in ToSet(NodeColumns),
         \A j \in 1..l : j > i => Key(Filled(n)[j]) # Key(Filled(n)[i])
  PROVE  NodesMap(n)[Key(Filled(n)[i])] = Text(n, Filled(n)[i])
<1> DEFINE F == Filled(n)
           k == Key(F[i])
           W(key) == {j \in DOMAIN F : Key(F[j]) = key}
<1>1. Max(W(k)) = i
  <2>1. i \in W(k) /\ W(k) \subseteq 1..l
    OBVIOUS
  <2>2. \A j \in W(k) : i >= j
    OBVIOUS
  <2> HIDE DEF W, k
  <2>3. \A j \in W(k) : (\A y \in W(k) : j >= y) => j = i
    BY <2>1, <2>2
  <2> QED
    BY <2>1, <2>2, <2>3 DEF Max
<1>2. NodesMap(n) = [key \in {Key(c) : c \in ToSet(NodeColumns)} |->
                       IF W(key) = {} THEN "" ELSE Text(n, F[Max(W(key))])]
  BY DEF NodesMap
<1>3. k \in {Key(c) : c \in ToSet(NodeColumns)} /\ W(k) # {}
  OBVIOUS
<1> HIDE DEF W, k, F
<1>4. NodesMap(n)[k] = Text(n, F[i])
  BY <1>1, <1>2, <1>3
<1> QED
  BY <1>4 DEF k, F

\* What a visit fills behind the first two columns.
Rest(n) ==
  LET k == n.kind
  IN  CASE k = "Module"       -> <<"name">>
        [] k = "Function"     -> <<"name", "index", "nargs", "nlocals", "nresults",
                                   "isImport", "isExport">>
        [] k = "VarNode"      -> <<"name", "index", "varType">>
        [] k \in SimpleTypes  -> <<>>
        [] k \in BaseInsts    -> <<"instType">>
        [] k = "Const"        -> <<"instType", "constType">> \o
              (IF n.is["value"] = "integer" THEN <<"constValueI">> ELSE <<"constValueF">>)
        [] k \in OpcodeInsts  -> <<"instType", "opcode">>
        [] k \in LoadStores   -> <<"instType", "opcode", "offset">>
        [] k \in LabeledInsts -> <<"instType", "label">>
        [] k \in CallInsts    -> <<"nargs", "nresults", "instType", "label">>
        [] k \in BlockInsts   -> <<"nresults", "instType", "label">>
        [] k = "If"           -> <<"nresults", "instType", "hasElse">>

\* Columns after the first two.
Later(t) == t \in Seq(ToSet(NodeColumns) \ {"id", "nodeType"})

\* The map of a node, by the columns that its visit fills or does not.
LEMMA MapOfNode ==
  ASSUME NEW n, NEW t, t = Rest(n), Later(t)
  PROVE  /\ NodesMap(n)["id"] = n.id
         /\ NodesMap(n)["nodeType"] = Text(n, "nodeType")
         /\ \A i \in 1..Len(t) :
              (\A j \in 1..Len(t) : j > i => Key(t[j]) # Key(t[i]))
                => NodesMap(n)[Key(t[i])] = Text(n, t[i])
         /\ \A c \in {"name", "label"} :
              (\A i \in 1..Len(t) : t[i] # c) => NodesMap(n)[c] = ""
<1> DEFINE F == Filled(n)
           h == <<"id", "nodeType">>
           l == Len(t)
           C == ToSet(NodeColumns)
<1>1. F = h \o t
  BY DEF Filled, Rest
<1>0. "id" \in C /\ "nodeType" \in C
  <2>1. NodeColumns[1] = "id" /\ NodeColumns[2] = "nodeType"
    BY DEF NodeColumns
  <2> QED
    BY <2>1, ColumnsDiffer DEF ToSet
<1> HIDE DEF C
<1>2. h \in Seq(C) /\ Len(h) = 2 /\ h[1] = "id" /\ h[2] = "nodeType"
  BY <1>0
<1> HIDE DEF h
<1>3. /\ F \in Seq(C) /\ Len(F) = Len(h) + Len(t)
      /\ \A i \in 1..Len(h) : F[i] = h[i]
      /\ \A i \in 1..Len(t) : F[Len(h) + i] = t[i]
  <2>1. h \in Seq(C) /\ t \in Seq(C)
    <3>1. \A i \in 1..Len(t) : t[i] \in C
      BY ElementOfSeq DEF Later, C
    <3> QED
      BY <1>2, <3>1, SeqOfElements DEF Later
  <2>2. /\ h \o t \in Seq(C) /\ Len(h \o t) = Len(h) + Len(t)
        /\ \A i \in 1..Len(h) : (h \o t)[i] = h[i]
        /\ \A i \in 1..Len(t) : (h \o t)[Len(h) + i] = t[i]
    BY ONLY <2>1, JoinedIs
  <2> QED
    BY <1>1, <2>2
<1> HIDE DEF F
<1>4. l \in Nat /\ DOMAIN t = 1..l /\ DOMAIN F = 1 .. l + 2
  BY <1>2, <1>3, LenProperties DEF Later
<1>5. /\ F[1] = "id" /\ F[2] = "nodeType"
      /\ \A i \in 1..l : F[i + 2] = t[i]
  BY <1>2, <1>3, <1>4
<1>6. \A i \in 1..l : /\ t[i] \in ToSet(NodeColumns) /\ t[i] # "id" /\ t[i] # "nodeType"
                      /\ Key(t[i]) # "id" /\ Key(t[i]) # "nodeType"
  <2> TAKE i \in 1..l
  <2>1. t[i] \in ToSet(NodeColumns) /\ t[i] # "id" /\ t[i] # "nodeType"
    BY <1>4, ElementOfSeq DEF Later
  <2> QED
    BY <2>1 DEF Key
<1>7. Key("id") = "id" /\ Key("nodeType") = "nodeType"
  BY DEF Key
<1>8. "id" \in ToSet(NodeColumns) /\ "nodeType" \in ToSet(NodeColumns)
  BY <1>0 DEF C
<1>9. \A j \in 1 .. l + 2 : j = 1 \/ j = 2 \/ (j - 2 \in 1..l /\ F[j] = t[j - 2])
  <2> TAKE j \in 1 .. l + 2
  <2>1. j = 1 \/ j = 2 \/ (j - 2 \in 1..l /\ (j - 2) + 2 = j)
    BY <1>4
  <2> QED
    BY <1>5, <2>1
<1>10. /\ DOMAIN Filled(n) = 1 .. l + 2 /\ l + 2 \in Nat
       /\ \A j \in 1 .. l + 2 : Filled(n)[j] = F[j]
  BY <1>4 DEF F
<1>11. NodesMap(n)["id"] = Text(n, "id")
  <2>1. \A j \in 1 .. l + 2 : j > 1 => Key(F[j]) # Key(F[1])
    BY <1>4, <1>5, <1>6, <1>7, <1>9
  <2>2. 1 \in 1 .. l + 2 /\ F[1] \in ToSet(NodeColumns)
    BY <1>4, <1>5, <1>8
  <2>3. NodesMap(n)[Key(Filled(n)[1])] = Text(n, Filled(n)[1])
    BY <1>10, <2>1, <2>2, MapIs
  <2> QED
    BY <1>5, <1>7, <1>10, <2>2, <2>3
<1>12. NodesMap(n)["nodeType"] = Text(n, "nodeType")
  <2>1. \A j \in 1 .. l + 2 : j > 2 => Key(F[j]) # Key(F[2])
    BY <1>4, <1>5, <1>6, <1>7, <1>9
  <2>2. 2 \in 1 .. l + 2 /\ F[2] \in ToSet(NodeColumns)
    BY <1>4, <1>5, <1>8
  <2>3. NodesMap(n)[Key(Filled(n)[2])] = Text(n, Filled(n)[2])
    BY <1>10, <2>1, <2>2, MapIs
  <2> QED
    BY <1>5, <1>7, <1>10, <2>2, <2>3
<1>13. ASSUME NEW i \in 1..l, \A j \in 1..l : j > i => Key(t[j]) # Key(t[i])
       PROVE  NodesMap(n)[Key(t[i])] = Text(n, t[i])
  <2>1. i + 2 \in 1 .. l + 2 /\ F[i + 2] = t[i] /\ F[i + 2] \in ToSet(NodeColumns)
    BY <1>4, <1>5, <1>6
  <2>2. \A j \in 1 .. l + 2 : j > i + 2 => Key(F[j]) # Key(F[i + 2])
    <3> SUFFICES ASSUME NEW j \in 1 .. l + 2, j > i + 2
                 PROVE  Key(F[j]) # Key(F[i + 2])
      OBVIOUS
    <3>1. j - 2 \in 1..l /\ F[j] = t[j - 2] /\ j - 2 > i
      BY <1>4, <1>9
    <3> QED
      BY <1>13, <2>1, <3>1
  <2>3. NodesMap(n)[Key(Filled(n)[i + 2])] = Text(n, Filled(n)[i + 2])
    BY <1>10, <2>1, <2>2, MapIs
  <2> QED
    BY <1>10, <2>1, <2>3
<1>14. Text(n, "id") = n.id
  BY DEF Text
<1>15. ASSUME NEW c \in {"name", "label"}, \A i \in 1..l : t[i] # c
       PROVE  NodesMap(n)[c] = ""
  <2> DEFINE W(key) == {j \in DOMAIN Filled(n) : Key(Filled(n)[j]) = key}
             K == {Key(d) : d \in ToSet(NodeColumns)}
  <2>1. \A j \in 1 .. l + 2 : Key(F[j]) # c
    <3> TAKE j \in 1 .. l + 2
    <3>1. F[j] # c
      BY <1>5, <1>9, <1>15
    <3> QED
      BY <3>1 DEF Key
  <2>2. W(c) = {}
    BY <1>10, <2>1
  <2>3. c \in K
    <3>1. c \in ToSet(NodeColumns) /\ Key(c) = c
      BY ColumnNames DEF Key
    <3> QED
      BY <3>1
  <2>4. NodesMap(n) = [key \in K |-> IF W(key) = {} THEN ""
                                     ELSE Text(n, Filled(n)[Max(W(key))])]
    BY DEF NodesMap
  <2> HIDE DEF W, K
  <2> QED
    BY <2>2, <2>3, <2>4
<1> QED
  BY <1>11, <1>12, <1>13, <1>14, <1>15

\* The map of a node, by the columns that its visit fills.
LEMMA FilledIs ==
  ASSUME NEW n, NEW t, t = Rest(n), Later(t)
  PROVE  /\ NodesMap(n)["id"] = n.id
         /\ NodesMap(n)["nodeType"] = Text(n, "nodeType")
         /\ \A i \in 1..Len(t) :
              (\A j \in 1..Len(t) : j > i => Key(t[j]) # Key(t[i]))
                => NodesMap(n)[Key(t[i])] = Text(n, t[i])
<1>1. t = Rest(n) /\ Later(t)
  OBVIOUS
<1> QED
  BY ONLY <1>1, MapOfNode

\* A cell of the row of a node, and what should be there.
Cell(n, c)  == NodeRow(n)[NodeCol(c)]
Shown(n, c) == IF c \in {"name", "label"} THEN Printed(Text(n, c)) ELSE Text(n, c)

\* The cells of a node of a class whose columns have keys of their own.
LEMMA CellsAre ==
  ASSUME NEW n, NEW t, t = Rest(n), Later(t),
         \A i, j \in 1..Len(t) : Key(t[i]) = Key(t[j]) => i = j
  PROVE  \A i \in 1..Len(t) : Cell(n, t[i]) = Shown(n, t[i])
<1> TAKE i \in 1..Len(t)
<1>1. \A j \in 1..Len(t) : j > i => Key(t[j]) # Key(t[i])
  <2>1. Len(t) \in Nat
    BY LenProperties DEF Later
  <2> QED
    BY <2>1
<1>2. NodesMap(n)[Key(t[i])] = Text(n, t[i])
  BY <1>1, FilledIs
<1>3. t[i] \in ToSet(NodeColumns)
  BY ElementOfSeq DEF Later
<1> QED
  BY <1>2, <1>3, CellIs DEF Cell, Shown

\* The first two cells of every row.
LEMMA FirstCells ==
  ASSUME NEW n, NEW t, t = Rest(n), Later(t)
  PROVE  Cell(n, "id") = n.id /\ Cell(n, "nodeType") = Text(n, "nodeType")
<1>1. "id" \in ToSet(NodeColumns) /\ "nodeType" \in ToSet(NodeColumns)
  <2>1. NodeColumns[1] = "id" /\ NodeColumns[2] = "nodeType"
    BY DEF NodeColumns
  <2> QED
    BY <2>1, ColumnsDiffer DEF ToSet
<1>2. NodesMap(n)["id"] = n.id /\ NodesMap(n)["nodeType"] = Text(n, "nodeType")
  BY FilledIs
<1> QED
  BY <1>1, <1>2, CellIs DEF Cell, Key

\* A name or label that a visit does not fill is empty.
LEMMA UnfilledIs ==
  ASSUME NEW n, NEW t, t = Rest(n), Later(t), NEW c \in {"name", "label"},
         \A i \in 1..Len(t) : t[i] # c
  PROVE  Cell(n, c) = ""
<1>1. NodesMap(n)[c] = ""
  BY MapOfNode
<1>2. c \in ToSet(NodeColumns) /\ Key(c) = c
  BY ColumnNames DEF Key
<1>3. Cell(n, c) = Printed("")
  BY <1>1, <1>2, CellIs DEF Cell
<1> QED
  BY <1>3 DEF Printed

\* What a node is.
LEMMA NodeIs ==
  ASSUME NEW i, NEW k, NEW n \in NodesOf(i, k)
  PROVE  /\ n.id = i /\ n.kind = k /\ DOMAIN n.is = Overridden(k)
         /\ n = [id |-> i, kind |-> k, is |-> n.is]
         /\ \A p \in Overridden(k) :
              /\ p \in {"name", "label"} => n.is[p] \in Texts
              /\ p \in {"isImport", "hasElse", "isExport"} => n.is[p] \in Flags
              /\ p = "value" => n.is[p] \in Consts
              /\ p = "offset" => n.is[p] \in Offsets
              /\ p \notin {"name", "label", "isImport", "hasElse", "isExport", "value", "offset"}
                   => n.is[p] = p
<1>1. PICK t \in Texts, x \in Flags, y \in Flags, c \in Consts, o \in Offsets :
        n = [id |-> i, kind |-> k, is |->
              [p \in Overridden(k) |-> CASE p \in {"name", "label"}      -> t
                                        [] p \in {"isImport", "hasElse"} -> x
                                        [] p = "isExport"                -> y
                                        [] p = "value"                   -> c
                                        [] p = "offset"                  -> o
                                        [] OTHER                         -> p]]
  BY DEF NodesOf
<1> QED
  BY <1>1

\* What parseNode makes of the row of a node, and what should become of it.
ReadValue(n, p) ==
  IF p = "value"
  THEN createConst(Cell(n, "constType"), Cell(n, "constValueI"), Cell(n, "constValueF"))
  ELSE Cell(n, Taken(n.kind)[p])
\* The value that a property should have.
Kept(n, p) == CASE p \in {"name", "label"} -> Printed(n.is[p])
                [] p = "isImport" -> n.is["isExport"]
                [] p = "value"    -> writeConst(n.is[p])
                [] OTHER          -> n.is[p]

\* What std::stoi throws on.
Refused == {"", "large"}

\* What the row of a node has under name and under label.
Named(n) == \A c \in {"name", "label"} :
              Cell(n, c) = IF c \in Overridden(n.kind) THEN Printed(n.is[c]) ELSE ""

\* The row of a node reads as what is kept of it.
ReadsBack(n) == /\ Cell(n, "id") = n.id
                /\ KindOf(NodeRow(n)) = n.kind
                /\ DOMAIN Taken(n.kind) = Overridden(n.kind)
                /\ \A p \in Overridden(n.kind) :
                     /\ ReadValue(n, p) = Kept(n, p)
                     /\ p \notin {"name", "label", "offset"} => Kept(n, p) \notin Refused
                     /\ p = "offset" => Kept(n, p) = n.is[p] /\ n.is[p] \in Offsets
                     /\ p = "value" => Cell(n, Taken(n.kind)[p]) \notin Refused
                /\ Named(n)

\* What is kept of each property.
LEMMA KeptIs ==
  ASSUME NEW n, NEW p
  PROVE  /\ p \in {"name", "label"} => Kept(n, p) = Printed(n.is[p])
         /\ p = "isImport" => Kept(n, p) = n.is["isExport"]
         /\ p = "value" => Kept(n, p) = writeConst(n.is[p])
         /\ p \notin {"name", "label", "isImport", "value"} => Kept(n, p) = n.is[p]
  BY DEF Kept

\* The properties that are read from the column of their name.
Plain == {"name", "index", "nargs", "nlocals", "nresults", "varType", "opcode", "label",
          "offset", "hasElse"}

\* How a class is written and read: the columns t that a visit fills, and the
\* properties that it overrides, each from the column of its name.
IsPlain(k, n, t) ==
  /\ t = Rest(n) /\ Later(t)
  /\ \A i, j \in 1..Len(t) : Key(t[i]) = Key(t[j]) => i = j
  /\ DOMAIN Taken(k) = Overridden(k)
  /\ \A p \in Overridden(k) : /\ Taken(k)[p] = p /\ p \in Plain
                              /\ \E j \in 1..Len(t) : t[j] = p
  /\ k \in InstTypes => \E j \in 1..Len(t) : t[j] = "instType"
  /\ \A j \in 1..Len(t) : t[j] \in {"name", "label"} => t[j] \in Overridden(k)

\* The kind of the row of a node.
LEMMA KindIsRead ==
  ASSUME NEW n, n.kind \in Kinds, Cell(n, "nodeType") = Text(n, "nodeType"),
         n.kind \in InstTypes => Cell(n, "instType") = n.kind
  PROVE  KindOf(NodeRow(n)) = n.kind
<1>1. Cell(n, "nodeType") = IF n.kind \in InstTypes THEN "Instruction" ELSE n.kind
  BY DEF Text
<1>2. n.kind \notin InstTypes => n.kind # "Instruction"
  BY DEF Kinds, SimpleTypes
<1> QED
  BY <1>1, <1>2 DEF KindOf, Cell

\* A node of such a class is read back.
LEMMA PlainReads ==
  ASSUME NEW i, NEW k \in Kinds, NEW n \in NodesOf(i, k), NEW t, IsPlain(k, n, t)
  PROVE  ReadsBack(n)
<1>1. n.kind = k
  BY NodeIs
<1>2. Cell(n, "id") = n.id /\ Cell(n, "nodeType") = Text(n, "nodeType")
  <2>1. t = Rest(n) /\ Later(t)
    BY DEF IsPlain
  <2> QED
    BY ONLY <2>1, FirstCells
<1>3. \A j \in 1..Len(t) : Cell(n, t[j]) = Shown(n, t[j])
  <2>1. t = Rest(n) /\ Later(t) /\ \A l, j \in 1..Len(t) : Key(t[l]) = Key(t[j]) => l = j
    BY DEF IsPlain
  <2> QED
    BY ONLY <2>1, CellsAre
<1>4. KindOf(NodeRow(n)) = n.kind
  <2>1. k \in InstTypes => Cell(n, "instType") = Shown(n, "instType")
    BY <1>3 DEF IsPlain
  <2>2. Shown(n, "instType") = n.kind
    BY DEF Shown, Text
  <2> QED
    BY <1>1, <1>2, <2>1, <2>2, KindIsRead
<1>5. ASSUME NEW p \in Overridden(k)
      PROVE  /\ ReadValue(n, p) = Kept(n, p)
             /\ p \notin {"name", "label", "offset"} => Kept(n, p) \notin Refused
             /\ p = "offset" => Kept(n, p) = n.is[p] /\ n.is[p] \in Offsets
             /\ p # "value"
  <2>1. Taken(k)[p] = p /\ p \in Plain /\ Cell(n, p) = Shown(n, p)
    BY <1>3 DEF IsPlain
  <2>2. Text(n, p) = n.is[p]
    BY <2>1 DEF Text, Plain
  <2>3. p # "value" /\ p # "isImport"
    BY <2>1 DEF Plain
  <2>4. ReadValue(n, p) = Shown(n, p)
    BY <1>1, <2>1, <2>3 DEF ReadValue
  <2>5. Shown(n, p) = Kept(n, p)
    BY <2>2, <2>3, KeptIs DEF Shown
  <2>6. p \notin {"name", "label"} => Kept(n, p) = n.is[p]
    BY <2>3, KeptIs
  <2>7. p \notin {"name", "label", "offset"} => n.is[p] \notin Refused
    <3>1. p = "hasElse" => n.is[p] \in Flags
      BY NodeIs
    <3>2. p \notin {"name", "label", "hasElse", "offset"} => n.is[p] = p
      BY <2>1, NodeIs DEF Plain
    <3> QED
      BY <2>1, <3>1, <3>2 DEF Plain, Flags, Refused
  <2>8. p = "offset" => n.is[p] \in Offsets
    BY NodeIs
  <2> QED
    BY <2>3, <2>4, <2>5, <2>6, <2>7, <2>8
<1>6. DOMAIN Taken(k) = Overridden(k)
  BY DEF IsPlain
<1>7. Named(n)
  <2> SUFFICES ASSUME NEW c \in {"name", "label"}
               PROVE  Cell(n, c) = IF c \in Overridden(k) THEN Printed(n.is[c]) ELSE ""
    BY <1>1 DEF Named
  <2>1. CASE c \in Overridden(k)
    <3>1. Cell(n, c) = Shown(n, c)
      BY <1>3, <2>1 DEF IsPlain
    <3>2. Text(n, c) = n.is[c]
      BY DEF Text
    <3> QED
      BY <2>1, <3>1, <3>2 DEF Shown
  <2>2. CASE c \notin Overridden(k)
    <3>1. t = Rest(n) /\ Later(t) /\ \A j \in 1..Len(t) : t[j] # c
      BY <2>2 DEF IsPlain
    <3>2. Cell(n, c) = ""
      BY ONLY <3>1, c \in {"name", "label"}, UnfilledIs
    <3> QED
      BY <2>2, <3>2
  <2> QED
    BY <2>1, <2>2
<1> QED
  BY <1>1, <1>2, <1>4, <1>5, <1>6, <1>7 DEF ReadsBack

\* Every class but those of functions and of constants is such a one.
LEMMA PlainClasses ==
  ASSUME NEW i, NEW k \in Kinds \ {"Function", "Const"}, NEW n \in NodesOf(i, k)
  PROVE  \E t : IsPlain(k, n, t)
<1> USE DEF SimpleTypes, BaseInsts, OpcodeInsts, LoadStores, LabeledInsts, CallInsts, BlockInsts
<1>1. n.kind = k
  BY NodeIs
<1>2. CASE k = "Module"
  <2>1. /\ Overridden(k) = {"name"}
        /\ Rest(n) = <<"name">>
        /\ Taken(k) = [name |-> "name"]
    BY <1>1, <1>2 DEF Overridden, Rest, Taken
  <2>2. IsPlain(k, n, <<"name">>)
    BY <1>2, <2>1, ColumnNames DEF IsPlain, Later, Plain, Key, InstTypes
  <2> QED
    BY <2>2
<1>3. CASE k = "VarNode"
  <2>1. /\ Overridden(k) = {"varType", "index", "name"}
        /\ Rest(n) = <<"name", "index", "varType">>
        /\ Taken(k) = [varType |-> "varType", index |-> "index", name |-> "name"]
    BY <1>1, <1>3 DEF Overridden, Rest, Taken
  <2>2. IsPlain(k, n, <<"name", "index", "varType">>)
    BY <1>3, <2>1, ColumnNames DEF IsPlain, Later, Plain, Key, InstTypes
  <2> QED
    BY <2>2
<1>4. CASE k \in SimpleTypes
  <2>1. /\ Overridden(k) = {}
        /\ Rest(n) = <<>>
        /\ Taken(k) = <<>>
    BY <1>1, <1>4 DEF Overridden, Rest, Taken
  <2>2. IsPlain(k, n, <<>>)
    BY <1>4, <2>1, ColumnNames DEF IsPlain, Later, Plain, Key, InstTypes
  <2> QED
    BY <2>2
<1>5. CASE k \in BaseInsts
  <2>1. /\ Overridden(k) = {}
        /\ Rest(n) = <<"instType">>
        /\ Taken(k) = <<>>
    BY <1>1, <1>5 DEF Overridden, Rest, Taken
  <2>2. IsPlain(k, n, <<"instType">>)
    BY <1>5, <2>1, ColumnNames DEF IsPlain, Later, Plain, Key, InstTypes
  <2> QED
    BY <2>2
<1>6. CASE k \in OpcodeInsts
  <2>1. /\ Overridden(k) = {"opcode"}
        /\ Rest(n) = <<"instType", "opcode">>
        /\ Taken(k) = [opcode |-> "opcode"]
    BY <1>1, <1>6 DEF Overridden, Rest, Taken
  <2>2. IsPlain(k, n, <<"instType", "opcode">>)
    BY <1>6, <2>1, ColumnNames DEF IsPlain, Later, Plain, Key, InstTypes
  <2> QED
    BY <2>2
<1>7. CASE k \in LoadStores
  <2>1. /\ Overridden(k) = {"opcode", "offset"}
        /\ Rest(n) = <<"instType", "opcode", "offset">>
        /\ Taken(k) = [opcode |-> "opcode", offset |-> "offset"]
    BY <1>1, <1>7 DEF Overridden, Rest, Taken
  <2>2. IsPlain(k, n, <<"instType", "opcode", "offset">>)
    BY <1>7, <2>1, ColumnNames DEF IsPlain, Later, Plain, Key, InstTypes
  <2> QED
    BY <2>2
<1>8. CASE k \in LabeledInsts
  <2>1. /\ Overridden(k) = {"label"}
        /\ Rest(n) = <<"instType", "label">>
        /\ Taken(k) = [label |-> "label"]
    BY <1>1, <1>8 DEF Overridden, Rest, Taken
  <2>2. IsPlain(k, n, <<"instType", "label">>)
    BY <1>8, <2>1, ColumnNames DEF IsPlain, Later, Plain, Key, InstTypes
  <2> QED
    BY <2>2
<1>9. CASE k \in CallInsts
  <2>1. /\ Overridden(k) = {"nargs", "nresults", "label"}
        /\ Rest(n) = <<"nargs", "nresults", "instType", "label">>
        /\ Taken(k) = [nargs |-> "nargs", nresults |-> "nresults", label |-> "label"]
    BY <1>1, <1>9 DEF Overridden, Rest, Taken
  <2>2. IsPlain(k, n, <<"nargs", "nresults", "instType", "label">>)
    BY <1>9, <2>1, ColumnNames DEF IsPlain, Later, Plain, Key, InstTypes
  <2> QED
    BY <2>2
<1>10. CASE k \in BlockInsts
  <2>1. /\ Overridden(k) = {"nresults", "label"}
        /\ Rest(n) = <<"nresults", "instType", "label">>
        /\ Taken(k) = [nresults |-> "nresults", label |-> "label"]
    BY <1>1, <1>10 DEF Overridden, Rest, Taken
  <2>2. IsPlain(k, n, <<"nresults", "instType", "label">>)
    BY <1>10, <2>1, ColumnNames DEF IsPlain, Later, Plain, Key, InstTypes
  <2> QED
    BY <2>2
<1>11. CASE k = "If"
  <2>1. /\ Overridden(k) = {"nresults", "hasElse"}
        /\ Rest(n) = <<"nresults", "instType", "hasElse">>
        /\ Taken(k) = [nresults |-> "nresults", hasElse |-> "hasElse"]
    BY <1>1, <1>11 DEF Overridden, Rest, Taken
  <2>2. IsPlain(k, n, <<"nresults", "instType", "hasElse">>)
    BY <1>11, <2>1, ColumnNames DEF IsPlain, Later, Plain, Key, InstTypes
  <2> QED
    BY <2>2
<1> QED
  BY <1>2, <1>3, <1>4, <1>5, <1>6, <1>7, <1>8, <1>9, <1>10, <1>11 DEF Kinds, InstTypes

\* A function is read back, but for isImport, whose key isExport has too.
LEMMA FunctionReads ==
  ASSUME NEW i, NEW n \in NodesOf(i, "Function")
  PROVE  ReadsBack(n)
<1> DEFINE t == <<"name", "index", "nargs", "nlocals", "nresults", "isImport", "isExport">>
           P == {"name", "index", "nargs", "nlocals", "nresults", "isImport", "isExport"}
<1>1. n.kind = "Function"
  BY NodeIs
<1>2. /\ Overridden("Function") = P
      /\ Rest(n) = t
      /\ Taken("Function") = [name |-> "name", index |-> "index", nargs |-> "nargs",
                              nlocals |-> "nlocals", nresults |-> "nresults",
                              isImport |-> "isImport", isExport |-> "isImport"]
  BY <1>1 DEF Overridden, Rest, Taken, SimpleTypes, BaseInsts, OpcodeInsts, LoadStores,
     LabeledInsts, CallInsts, BlockInsts
<1>3. t = Rest(n) /\ Later(t)
  BY <1>2, ColumnNames DEF Later
<1>4. Cell(n, "id") = n.id /\ Cell(n, "nodeType") = Text(n, "nodeType")
  BY ONLY <1>3, FirstCells
<1>5. \A j \in 1..Len(t) : (\A l \in 1..Len(t) : l > j => Key(t[l]) # Key(t[j]))
                             => NodesMap(n)[Key(t[j])] = Text(n, t[j])
  BY ONLY SMTT(30), <1>3, FilledIs
<1>6. ASSUME NEW c \in {"name", "index", "nargs", "nlocals", "nresults"}
      PROVE  NodesMap(n)[c] = n.is[c]
  <2>1. PICK j \in 1..Len(t) : t[j] = c /\ j <= 5
    OBVIOUS
  <2>2. \A l \in 1..Len(t) : l > j => Key(t[l]) # Key(t[j])
    BY <2>1 DEF Key
  <2>3. NodesMap(n)[Key(t[j])] = Text(n, t[j])
    BY <1>5, <2>2
  <2>4. Key(c) = c /\ Text(n, c) = n.is[c]
    BY DEF Key, Text
  <2> HIDE DEF t
  <2> QED
    BY <2>1, <2>3, <2>4
<1>7. NodesMap(n)["isImport"] = n.is["isExport"]
  <2>1. NodesMap(n)[Key(t[7])] = Text(n, t[7])
    BY <1>5
  <2>2. Text(n, "isExport") = n.is["isExport"]
    BY DEF Text
  <2> QED
    BY <2>1, <2>2 DEF Key
<1> HIDE DEF t
<1>8. ASSUME NEW p \in P
      PROVE  /\ ReadValue(n, p) = Kept(n, p)
             /\ p \notin {"name", "label", "offset"} => Kept(n, p) \notin Refused
             /\ p # "value" /\ p # "offset"
  <2>1. CASE p \in {"isImport", "isExport"}
    <3>1. "isImport" \in ToSet(NodeColumns)
      BY ColumnNames
    <3>2. Cell(n, "isImport") = n.is["isExport"]
      BY <1>7, <3>1, CellIs DEF Cell, Key
    <3>3. ReadValue(n, p) = Cell(n, "isImport")
      BY <1>1, <1>2, <2>1 DEF ReadValue
    <3>4. Kept(n, p) = n.is["isExport"]
      BY <2>1, KeptIs
    <3>5. n.is["isExport"] \in Flags
      BY <1>2, NodeIs
    <3> QED
      BY <2>1, <3>2, <3>3, <3>4, <3>5 DEF Flags, Refused
  <2>2. CASE p \in {"name", "index", "nargs", "nlocals", "nresults"}
    <3>1. p \in ToSet(NodeColumns) /\ Key(p) = p /\ NodesMap(n)[p] = n.is[p]
      BY <1>6, <2>2, ColumnNames DEF Key
    <3>2. Cell(n, p) = IF p = "name" THEN Printed(n.is[p]) ELSE n.is[p]
      BY <2>2, <3>1, CellIs DEF Cell
    <3>3. Taken("Function")[p] = p
      BY <1>2, <2>2
    <3>4. ReadValue(n, p) = Cell(n, p)
      BY <1>1, <2>2, <3>3 DEF ReadValue
    <3>5. Kept(n, p) = IF p = "name" THEN Printed(n.is[p]) ELSE n.is[p]
      BY <2>2, KeptIs
    <3>6. p # "name" => n.is[p] = p
      BY <1>2, <2>2, NodeIs
    <3> QED
      BY <2>2, <3>2, <3>4, <3>5, <3>6 DEF Refused
  <2> QED
    BY <2>1, <2>2
<1>9. KindOf(NodeRow(n)) = n.kind
  <2>1. "Function" \in Kinds /\ "Function" \notin InstTypes
    BY DEF Kinds, InstTypes, BaseInsts, OpcodeInsts, LoadStores, LabeledInsts, CallInsts,
       BlockInsts
  <2> QED
    BY <1>1, <1>4, <2>1, KindIsRead
<1>10. DOMAIN Taken("Function") = P
  BY <1>2
<1>11. Named(n)
  <2>1. Cell(n, "name") = Printed(n.is["name"])
    <3>1. "name" \in ToSet(NodeColumns) /\ Key("name") = "name"
      BY ColumnNames DEF Key
    <3> QED
      BY <1>6, <3>1, CellIs DEF Cell
  <2>2. Cell(n, "label") = ""
    <3>1. \A j \in 1..Len(t) : t[j] # "label"
      BY DEF t
    <3> QED
      BY ONLY <1>3, <3>1, UnfilledIs
  <2>3. "name" \in P /\ "label" \notin P
    OBVIOUS
  <2> QED
    BY <1>1, <1>2, <2>1, <2>2, <2>3 DEF Named
<1> HIDE DEF P
<1> QED
  BY <1>1, <1>2, <1>4, <1>8, <1>9, <1>10, <1>11 DEF ReadsBack

\* A constant is read back, from the column of its type.
LEMMA ConstReads ==
  ASSUME NEW i, NEW n \in NodesOf(i, "Const")
  PROVE  ReadsBack(n)
<1> DEFINE h == <<"instType", "constType">>
           v == n.is["value"]
           c == IF v = "integer" THEN "constValueI" ELSE "constValueF"
           t == h \o <<c>>
           C == ToSet(NodeColumns) \ {"id", "nodeType"}
<1>1. n.kind = "Const"
  BY NodeIs
<1>2. Overridden("Const") = {"value"} /\ Taken("Const") = [value |-> "constType"]
  BY DEF Overridden, Taken, SimpleTypes, BaseInsts, OpcodeInsts, LoadStores,
     LabeledInsts, CallInsts, BlockInsts
<1>3. Rest(n) = t
  <2>1. Rest(n) = h \o (IF v = "integer" THEN <<"constValueI">> ELSE <<"constValueF">>)
    BY <1>1 DEF Rest, SimpleTypes, BaseInsts, OpcodeInsts, LoadStores, LabeledInsts,
       CallInsts, BlockInsts
  <2> QED
    BY <2>1
<1>4. /\ t \in Seq(C) /\ Len(t) = 3
      /\ t[1] = "instType" /\ t[2] = "constType" /\ t[3] = c
  <2>1. "instType" \in C /\ "constType" \in C /\ c \in C
    BY ColumnNames
  <2> HIDE DEF C, c
  <2>2. /\ h \in Seq(C) /\ <<c>> \in Seq(C) /\ Len(h) = 2 /\ Len(<<c>>) = 1
        /\ h[1] = "instType" /\ h[2] = "constType" /\ <<c>>[1] = c
    BY <2>1
  <2> DEFINE q == <<c>>
  <2> HIDE DEF h, q
  <2>3. /\ h \o q \in Seq(C)
        /\ Len(h \o q) = Len(h) + Len(q)
        /\ \A j \in 1..Len(h) : (h \o q)[j] = h[j]
        /\ \A j \in 1..Len(q) : (h \o q)[Len(h) + j] = q[j]
    <3>1. h \in Seq(C) /\ q \in Seq(C)
      BY <2>2 DEF q
    <3> QED
      BY ONLY <3>1, JoinedIs
  <2>4. Len(h) = 2 /\ Len(q) = 1 /\ h[1] = "instType" /\ h[2] = "constType" /\ q[1] = c
    BY <2>2 DEF q
  <2>5. t = h \o q
    BY DEF t, q
  <2> HIDE DEF t
  <2> QED
    BY <2>3, <2>4, <2>5
<1> HIDE DEF t
<1>5. t = Rest(n) /\ Later(t)
  BY <1>3, <1>4 DEF Later
<1>6. \A j, l \in 1..Len(t) : Key(t[j]) = Key(t[l]) => j = l
  <2>1. c = "constValueI" \/ c = "constValueF"
    OBVIOUS
  <2> HIDE DEF c
  <2> QED
    BY <1>4, <2>1 DEF Key
<1>7. Cell(n, "id") = n.id /\ Cell(n, "nodeType") = Text(n, "nodeType")
  BY ONLY <1>5, FirstCells
<1>8. \A j \in 1..Len(t) : Cell(n, t[j]) = Shown(n, t[j])
  BY ONLY <1>5, <1>6, CellsAre
<1>9. /\ Cell(n, "instType") = Shown(n, "instType")
      /\ Cell(n, "constType") = Shown(n, "constType")
      /\ Cell(n, c) = Shown(n, c)
  BY <1>4, <1>8
<1>10. /\ Cell(n, "instType") = n.kind
       /\ Cell(n, "constType") = IF v = "integer" THEN "integer" ELSE "float"
       /\ Cell(n, c) = writeConst(v)
  BY <1>9 DEF Shown, Text
<1>11. v \in Consts
  BY <1>2, NodeIs
<1>12. ReadValue(n, "value") = writeConst(v)
  BY <1>10 DEF ReadValue, createConst
<1>13. writeConst(v) \notin Refused
  BY <1>11 DEF writeConst, Consts, Refused
<1>14. Kept(n, "value") = writeConst(v)
  BY KeptIs
<1>15. KindOf(NodeRow(n)) = n.kind
  <2>1. "Const" \in Kinds
    BY DEF Kinds, InstTypes
  <2> QED
    BY <1>1, <1>7, <1>10, <2>1, KindIsRead
<1>16. DOMAIN Taken("Const") = {"value"} /\ Taken("Const")["value"] = "constType"
  BY <1>2
<1>17. Cell(n, Taken("Const")["value"]) \notin Refused
  BY <1>10, <1>16 DEF Refused
<1>18. Named(n)
  <2> SUFFICES ASSUME NEW d \in {"name", "label"}
               PROVE  Cell(n, d) = ""
    BY <1>1, <1>2 DEF Named
  <2>1. \A j \in 1..Len(t) : t[j] # d
    <3>1. \A j \in 1..3 : j = 1 \/ j = 2 \/ j = 3
      OBVIOUS
    <3> QED
      BY <1>4, <3>1
  <2> QED
    BY ONLY <1>5, <2>1, d \in {"name", "label"}, UnfilledIs
<1> QED
  BY <1>1, <1>2, <1>7, <1>12, <1>13, <1>14, <1>15, <1>16, <1>17, <1>18 DEF ReadsBack

\* parseNode takes the row of a node back to the node, but for what is lost; it
\* cannot if the node is one that breaks its row.
LEMMA RowParses ==
  ASSUME NEW i, NEW k \in Kinds, NEW n \in NodesOf(i, k)
  PROVE  /\ parseNode(NodeRow(n)) = OnFile(n)
         /\ NodeRow(n)[NodeCol("id")] = i
         /\ Breaks(n) <=> NodeLines(NodeRow(n)) # << 18 >> \/ ~Parses(NodeRow(n))
         /\ NodeLines(NodeRow(n)) \in {<< 18 >>, <<3, 16>>, <<16, 3>>}
<1>1. n.kind = k /\ n.id = i /\ n = [id |-> i, kind |-> k, is |-> n.is]
      /\ DOMAIN n.is = Overridden(k)
  <2>1. n.kind = k /\ n.id = i
    BY NodeIs
  <2>2. n = [id |-> i, kind |-> k, is |-> n.is]
    BY NodeIs
  <2>3. DOMAIN n.is = Overridden(k)
    BY NodeIs
  <2> QED
    BY <2>1, <2>2, <2>3
<1>2. ReadsBack(n)
  <2>1. CASE k \notin {"Function", "Const"}
    <3>1. PICK t : IsPlain(k, n, t)
      BY <2>1, PlainClasses
    <3> QED
      BY <3>1, PlainReads
  <2> QED
    BY <2>1, FunctionReads, ConstReads
<1>3. /\ Cell(n, "id") = i /\ KindOf(NodeRow(n)) = k /\ DOMAIN Taken(k) = Overridden(k)
      /\ \A p \in Overridden(k) :
           /\ ReadValue(n, p) = Kept(n, p)
           /\ p \notin {"name", "label", "offset"} => Kept(n, p) \notin Refused
           /\ p = "offset" => Kept(n, p) = n.is[p] /\ n.is[p] \in Offsets
           /\ p = "value" => Cell(n, Taken(k)[p]) \notin Refused
      /\ \A c \in {"name", "label"} :
           Cell(n, c) = IF c \in Overridden(k) THEN Printed(n.is[c]) ELSE ""
  BY <1>1, <1>2 DEF ReadsBack, Named
<1>4. Parses(NodeRow(n)) <=> ~("offset" \in Overridden(k) /\ n.is["offset"] = "large")
  <2>1. \A p \in Overridden(k) : p # "value" => ReadValue(n, p) = Cell(n, Taken(k)[p])
    BY <1>1 DEF ReadValue
  <2>2. \A p \in DOMAIN Taken(k) \ {"name", "label"} :
          Cell(n, Taken(k)[p]) \in Refused <=> p = "offset" /\ n.is["offset"] = "large"
    <3> SUFFICES ASSUME NEW p \in Overridden(k), p \notin {"name", "label"}
                 PROVE  Cell(n, Taken(k)[p]) \in Refused <=> p = "offset" /\ n.is["offset"] = "large"
      BY <1>3
    <3>1. CASE p = "value"
      BY <1>3, <3>1
    <3>2. CASE p = "offset"
      BY <1>3, <2>1, <3>2 DEF Refused, Offsets
    <3>3. CASE p \notin {"value", "offset"}
      BY <1>3, <2>1, <3>3
    <3> QED
      BY <3>1, <3>2, <3>3
  <2>3. k = "Const" => createConst(Cell(n, "constType"), Cell(n, "constValueI"),
                                   Cell(n, "constValueF")) # ""
    <3> SUFFICES ASSUME k = "Const"
                 PROVE  ReadValue(n, "value") # ""
      BY DEF ReadValue
    <3>1. "value" \in Overridden(k)
      BY DEF Overridden, SimpleTypes, BaseInsts, OpcodeInsts, LoadStores, LabeledInsts,
         CallInsts, BlockInsts
    <3> QED
      BY <1>3, <3>1 DEF Refused
  <2>4. Parses(NodeRow(n)) <=> \A p \in DOMAIN Taken(k) \ {"name", "label"} :
                                 Cell(n, Taken(k)[p]) \notin Refused
    BY <1>3, <2>3 DEF Parses, Cell, Refused
  <2> QED
    BY <1>3, <2>2, <2>4
<1>5. parseNode(NodeRow(n)) = [id |-> i, kind |-> k, is |-> [p \in Overridden(k) |-> Kept(n, p)]]
  <2>1. parseNode(NodeRow(n))
          = [id |-> i, kind |-> k, is |-> [p \in Overridden(k) |-> ReadValue(n, p)]]
    BY <1>1, <1>3 DEF parseNode, Cell, ReadValue
  <2> QED
    BY <1>3, <2>1
<1>6. OnFile(n) = [id |-> i, kind |-> k, is |-> [p \in Overridden(k) |-> Kept(n, p)]]
  <2>1. OnFile(n) = [n EXCEPT !.is = [p \in Overridden(k) |-> Kept(n, p)]]
    BY <1>1 DEF OnFile, Kept
  <2> QED
    BY <1>1, <2>1
<1>7. ASSUME NEW c \in {"name", "label"}
      PROVE  Cell(n, c) = "with newline" <=> c \in Overridden(k) /\ n.is[c] = "with newline"
  BY <1>3 DEF Printed
<1>8. NodeLines(NodeRow(n)) = CASE Cell(n, "name")  = "with newline" -> <<3, 16>>
                                [] Cell(n, "label") = "with newline" -> <<16, 3>>
                                [] OTHER -> << 18 >>
  BY DEF NodeLines, Cell
<1>9. /\ NodeLines(NodeRow(n)) \in {<< 18 >>, <<3, 16>>, <<16, 3>>}
      /\ NodeLines(NodeRow(n)) = << 18 >> <=> /\ Cell(n, "name")  # "with newline"
                                            /\ Cell(n, "label") # "with newline"
  <2>1. <<3, 16>> # << 18 >> /\ <<16, 3>> # << 18 >>
    <3>1. <<3, 16>>[1] # << 18 >>[1] /\ <<16, 3>>[1] # << 18 >>[1]
      OBVIOUS
    <3> QED
      BY <3>1
  <2> DEFINE a == Cell(n, "name") = "with newline"
             b == Cell(n, "label") = "with newline"
  <2> HIDE DEF a, b
  <2>2. NodeLines(NodeRow(n)) = CASE a -> <<3, 16>> [] b -> <<16, 3>> [] OTHER -> << 18 >>
    BY <1>8 DEF a, b
  <2> QED
    BY <2>1, <2>2 DEF a, b
<1>10. Breaks(n) <=> \/ \E c \in {"name", "label"} : c \in Overridden(k) /\ n.is[c] = "with newline"
                     \/ "offset" \in Overridden(k) /\ n.is["offset"] = "large"
  BY <1>1 DEF Breaks
<1> QED
  BY <1>3, <1>4, <1>5, <1>6, <1>7, <1>9, <1>10 DEF Cell

\* parseEdge takes the row of an edge back to the edge, but for the commas and
\* decimals of its label.
LEMMA EdgeParses ==
  ASSUME NEW ids, NEW d \in Edges(ids), IsEdge(d), NEW e, e = [d EXCEPT !.label = EdgeLabel(d)]
  PROVE  /\ parseEdge(EdgeRow(e)) = [d EXCEPT !.label = Printed(EdgeLabel(d))]
         /\ EdgeRow(e).src = d.src /\ EdgeRow(e).dest = d.dest
         /\ EdgeLines(EdgeRow(e)) = IF Printed(EdgeLabel(d)) = "with newline"
                                   THEN <<4, 6>> ELSE << 9 >>
<1>1. /\ d.type \in {"AST", "CFG", "PDG", "CG"} /\ d.label \in ToSet(Labels)
      /\ d.pdgType \in PDGTypes \cup {"None"}
      /\ d = Edge(d.type, d.src, d.dest, d.label, d.pdgType)
  BY DEF Edges, EdgeTypes, ToSet, Edge
<1>2. /\ e.type = d.type /\ e.src = d.src /\ e.dest = d.dest /\ e.pdgType = d.pdgType
      /\ e.label = EdgeLabel(d)
  BY <1>1 DEF Edge
<1> DEFINE r == EdgeRow(e)
           l == EdgeLabel(d)
<1>3. [d EXCEPT !.label = Printed(l)] = Edge(d.type, d.src, d.dest, Printed(l), d.pdgType)
  BY <1>1 DEF Edge
<1>4. EdgeLabel(e) = l
  BY <1>2 DEF EdgeLabel, writeConst
<1>5. /\ r.src = d.src /\ r.dest = d.dest /\ r.edgeType = d.type
      /\ r.label = IF d.type \in {"CFG", "PDG"} THEN Printed(l) ELSE ""
      /\ r.pdgType = IF d.type = "PDG" THEN d.pdgType ELSE ""
      /\ r.const = IF d.pdgType = "Const" THEN writeConst(l) ELSE ""
  BY <1>2, <1>4 DEF EdgeRow
<1>6. d.type \in {"AST", "CG"} => l = "" /\ d.pdgType = "None" /\ Printed(l) = ""
  BY DEF IsEdge, EdgeLabel, Printed
<1>7. d.pdgType = "Const" => writeConst(l) = Printed(l)
  BY DEF IsEdge, EdgeLabel, Printed, writeConst, Consts
<1>8. d.type = "CFG" => d.pdgType = "None"
  BY DEF IsEdge
<1> HIDE DEF r, l
<1>9. parseEdge(r) = Edge(d.type, d.src, d.dest, Printed(l), d.pdgType)
  <2>1. CASE d.type = "AST"
    BY <1>5, <1>6, <2>1 DEF parseEdge
  <2>2. CASE d.type = "CG"
    BY <1>5, <1>6, <2>2 DEF parseEdge
  <2>3. CASE d.type = "CFG"
    BY <1>5, <1>8, <2>3 DEF parseEdge
  <2>4. CASE d.type = "PDG"
    BY <1>5, <1>7, <2>4 DEF parseEdge
  <2> QED
    BY <1>1, <2>1, <2>2, <2>3, <2>4
<1>10. r.label = Printed(l)
  BY <1>1, <1>5, <1>6
<1>11. EdgeLines(r) = IF Printed(l) = "with newline" THEN <<4, 6>> ELSE << 9 >>
  BY <1>10 DEF EdgeLines
<1> QED
  BY <1>3, <1>5, <1>9, <1>11 DEF r, l

\* A set E in an order R, each element at the place that the number of those
\* before it gives.
Ranked(E, R) == [k \in 1 .. Cardinality(E) |->
                   CHOOSE e \in E : Cardinality({d \in E : <<d, e>> \in R}) = k - 1]
\* R orders E.
IsOrder(E, R) ==
  /\ \A d \in E : <<d, d>> \notin R
  /\ \A c, d, e \in E : <<c, d>> \in R /\ <<d, e>> \in R => <<c, e>> \in R
  /\ \A d, e \in E : d = e \/ <<d, e>> \in R \/ <<e, d>> \in R

\* To rank a finite set by an order is to list it.
LEMMA RankedIs ==
  ASSUME NEW E, IsFiniteSet(E), NEW R, IsOrder(E, R)
  PROVE  Ranked(E, R) \in Seq(E) /\ ToSet(Ranked(E, R)) = E
<1> DEFINE n == Cardinality(E)
           Before(e) == {d \in E : <<d, e>> \in R}
           r(e) == Cardinality(Before(e))
           f == [e \in E |-> r(e)]
           T == 0 .. n - 1
           s == Ranked(E, R)
<1>1. n \in Nat
  BY FS_CardinalityType
<1>2. \A e \in E : IsFiniteSet(Before(e)) /\ r(e) \in Nat /\ r(e) < n
  <2> TAKE e \in E
  <2>1. Before(e) \in SUBSET E /\ e \notin Before(e)
    BY DEF IsOrder
  <2>2. Before(e) # E
    BY <2>1
  <2> HIDE DEF Before
  <2>3. IsFiniteSet(Before(e)) /\ r(e) <= n /\ (n = r(e) => E = Before(e))
    BY <2>1, FS_Subset
  <2>4. r(e) \in Nat
    BY <2>3, FS_CardinalityType
  <2> QED
    BY <1>1, <2>2, <2>3, <2>4
<1>3. \A d, e \in E : <<d, e>> \in R => r(d) < r(e)
  <2> SUFFICES ASSUME NEW d \in E, NEW e \in E, <<d, e>> \in R
               PROVE  r(d) < r(e)
    OBVIOUS
  <2>1. Before(d) \in SUBSET Before(e) /\ d \in Before(e) /\ d \notin Before(d)
    BY DEF IsOrder
  <2>2. Before(d) # Before(e)
    BY <2>1
  <2> HIDE DEF Before
  <2>3. r(d) <= r(e) /\ (r(e) = r(d) => Before(e) = Before(d))
    BY <1>2, <2>1, FS_Subset
  <2> QED
    BY <1>2, <2>2, <2>3
<1>r. \A e \in E : f[e] = Cardinality({d \in E : <<d, e>> \in R})
  OBVIOUS
<1>f. f = [e \in E |-> f[e]]
  OBVIOUS
<1>0. /\ \A e \in E : f[e] \in Nat /\ f[e] < n
      /\ \A d, e \in E : <<d, e>> \in R => f[d] < f[e]
  BY <1>2, <1>3
<1> HIDE DEF f, r, Before
<1>4. f \in Injection(E, T)
  <2>1. f \in [E -> T]
    <3>1. \A e \in E : f[e] \in T
      BY <1>0, <1>1
    <3> QED
      BY <1>f, <3>1
  <2>2. \A d, e \in E : f[d] = f[e] => d = e
    <3> SUFFICES ASSUME NEW d \in E, NEW e \in E, f[d] = f[e]
                 PROVE  d = e
      OBVIOUS
    <3>1. f[d] \in Nat /\ ~(f[d] < f[e]) /\ ~(f[e] < f[d])
      BY <1>0
    <3>2. <<d, e>> \notin R /\ <<e, d>> \notin R
      BY <1>0, <3>1
    <3> QED
      BY <3>2 DEF IsOrder
  <2> QED
    BY <2>1, <2>2 DEF Injection, IsInjective
<1>5. IsFiniteSet(T) /\ Cardinality(T) = n
  BY SMTT(30), <1>1, FS_Interval
<1>6. f \in Surjection(E, T)
  <2> HIDE DEF T
  <2> QED
    BY <1>4, <1>5, FS_Injection
<1>7. \A k \in 1..n : \E e \in E : f[e] = k - 1
  <2> TAKE k \in 1..n
  <2>1. k - 1 \in T
    BY <1>1
  <2> QED
    BY <1>6, <2>1 DEF Surjection
<1>8. s = [k \in 1..n |-> CHOOSE e \in E : f[e] = k - 1]
  BY <1>r DEF Ranked
<1> HIDE DEF s
<1>9. \A k \in 1..n : s[k] \in E /\ f[s[k]] = k - 1
  <2> TAKE k \in 1..n
  <2>1. s[k] = CHOOSE e \in E : f[e] = k - 1
    BY <1>8
  <2> QED
    BY <1>7, <2>1
<1>10. s \in [1..n -> E]
  BY <1>8, <1>9
<1> HIDE DEF n
<1>11. s \in Seq(E) /\ DOMAIN s = 1..n
  BY <1>1, <1>10
<1>12. \A e \in E : \E k \in 1..n : s[k] = e
  <2> TAKE e \in E
  <2> DEFINE k == f[e] + 1
  <2>1. k \in 1..n /\ k - 1 = f[e]
    BY <1>0, <1>1
  <2>2. s[k] \in E /\ f[s[k]] = f[e]
    BY <1>9, <2>1
  <2>3. s[k] = e
    BY <1>4, <2>2 DEF Injection, IsInjective
  <2> QED
    BY <2>1, <2>3
<1> QED
  BY <1>9, <1>11, <1>12 DEF ToSet, s

\* The lexicographic order of keys of four numbers.
Lower(D, E) == \E k \in 1..4 : D[k] < E[k] /\ \A j \in 1..(k - 1) : D[j] = E[j]
\* The order of keys, written out.
LEMMA LowerIs ==
  ASSUME NEW D \in [1..4 -> Nat], NEW E \in [1..4 -> Nat]
  PROVE  Lower(D, E) <=> \/ D[1] < E[1]
                         \/ D[1] = E[1] /\ D[2] < E[2]
                         \/ D[1] = E[1] /\ D[2] = E[2] /\ D[3] < E[3]
                         \/ D[1] = E[1] /\ D[2] = E[2] /\ D[3] = E[3] /\ D[4] < E[4]
<1>1. /\ 1..4 = {1, 2, 3, 4} /\ 1 .. (1 - 1) = {} /\ 1 .. (2 - 1) = {1}
      /\ 1 .. (3 - 1) = {1, 2} /\ 1 .. (4 - 1) = {1, 2, 3}
  OBVIOUS
<1> QED
  BY <1>1 DEF Lower

\* The label of an edge, as its EdgeSet has it.
Labelled(e) == [e EXCEPT !.label = EdgeLabel(e)]

\* The places of the elements of a list.
LEMMA PlaceIs ==
  ASSUME NEW s, DOMAIN s \subseteq Nat, NEW x \in ToSet(s)
  PROVE  Place(x, s) \in Nat /\ s[Place(x, s)] = x
<1>1. \E k \in DOMAIN s : s[k] = x
  BY DEF ToSet
<1>2. Place(x, s) \in DOMAIN s /\ s[Place(x, s)] = x
  BY <1>1 DEF Place
<1> QED
  BY <1>2

\* The order of PDG types in CompareKey.
PDGOrder == <<"Local", "Global", "Function", "Control", "Const", "None">>

\* How long the lists are that CompareEdge compares by.
LEMMA Lists ==
  /\ DOMAIN EdgeTypes = 1..4 /\ DOMAIN Labels = 1..9 /\ DOMAIN PDGOrder = 1..6
  /\ {"integer", "float"} \subseteq ToSet(Labels)
  /\ PDGTypes \cup {"None"} = ToSet(PDGOrder)
<1>1. DOMAIN EdgeTypes = 1..4 /\ DOMAIN Labels = 1..9 /\ DOMAIN PDGOrder = 1..6
  BY DEF EdgeTypes, Labels, PDGOrder
<1>2. Labels[5] = "integer" /\ Labels[4] = "float"
  BY DEF Labels
<1>3. {"integer", "float"} \subseteq ToSet(Labels)
  BY <1>1, <1>2 DEF ToSet
<1>4. /\ PDGOrder[1] = "Local" /\ PDGOrder[2] = "Global" /\ PDGOrder[3] = "Function"
      /\ PDGOrder[4] = "Control" /\ PDGOrder[5] = "Const" /\ PDGOrder[6] = "None"
  BY DEF PDGOrder
<1>5. \A k \in 1..6 : k = 1 \/ k = 2 \/ k = 3 \/ k = 4 \/ k = 5 \/ k = 6
  OBVIOUS
<1>6. 1 \in 1..6 /\ 2 \in 1..6 /\ 3 \in 1..6 /\ 4 \in 1..6 /\ 5 \in 1..6 /\ 6 \in 1..6
  OBVIOUS
<1>7. ToSet(PDGOrder) = {PDGOrder[k] : k \in 1..6}
  BY <1>1 DEF ToSet
<1>8. PDGTypes \cup {"None"} = ToSet(PDGOrder)
  BY <1>4, <1>5, <1>6, <1>7 DEF PDGTypes
<1> QED
  BY <1>1, <1>3, <1>8

\* To write the label of an edge changes nothing else of it.
LEMMA LabelledIs ==
  ASSUME NEW ids, NEW e \in Edges(ids), IsEdge(e)
  PROVE  /\ Labelled(e) \in Edges(ids) /\ Labelled(e).src = e.src /\ Labelled(e).dest = e.dest
         /\ Labelled(e).type = e.type
<1>1. e.label \in ToSet(Labels)
  BY DEF Edges
<1>2. "integer" \in ToSet(Labels) /\ "float" \in ToSet(Labels)
  BY Lists
<1>3. EdgeLabel(e) \in ToSet(Labels)
  BY <1>1, <1>2 DEF EdgeLabel, writeConst, IsEdge, Consts
<1> QED
  BY <1>3 DEF Labelled, Edges

\* CompareEdge tells edges of one source apart.
LEMMA KeyIs ==
  ASSUME NEW ids \in SUBSET Nat, NEW e \in Edges(ids)
  PROVE  /\ CompareKey(e) \in [1..4 -> Nat]
         /\ EdgeTypes[CompareKey(e)[1]] = e.type /\ CompareKey(e)[2] = e.dest
         /\ Labels[CompareKey(e)[3]] = e.label /\ PDGOrder[CompareKey(e)[4]] = e.pdgType
<1>1. /\ e.type \in ToSet(EdgeTypes) /\ e.dest \in Nat /\ e.label \in ToSet(Labels)
      /\ e.pdgType \in ToSet(PDGOrder)
  BY Lists DEF Edges
<1>2. Place(e.type, EdgeTypes) \in Nat /\ EdgeTypes[Place(e.type, EdgeTypes)] = e.type
  <2>1. DOMAIN EdgeTypes \subseteq Nat
    BY Lists
  <2> QED
    BY <1>1, <2>1, PlaceIs
<1>3. Place(e.label, Labels) \in Nat /\ Labels[Place(e.label, Labels)] = e.label
  <2>1. DOMAIN Labels \subseteq Nat
    BY Lists
  <2> QED
    BY <1>1, <2>1, PlaceIs
<1>4. Place(e.pdgType, PDGOrder) \in Nat /\ PDGOrder[Place(e.pdgType, PDGOrder)] = e.pdgType
  <2>1. DOMAIN PDGOrder \subseteq Nat
    BY Lists
  <2> QED
    BY <1>1, <2>1, PlaceIs
<1>5. CompareKey(e) = <<Place(e.type, EdgeTypes), e.dest, Place(e.label, Labels),
                        Place(e.pdgType, PDGOrder)>>
  BY DEF CompareKey, PDGOrder
<1> QED
  BY <1>1, <1>2, <1>3, <1>4, <1>5

\* CompareEdge orders the edges of a node.
LEMMA EdgesOrdered ==
  ASSUME NEW ids \in SUBSET Nat, NEW i, NEW E \in SUBSET Edges(ids), \A e \in E : e.src = i
  PROVE  IsOrder(E, {c \in E \X E : EdgeLess(c[1], c[2])})
<1> DEFINE R == {c \in E \X E : EdgeLess(c[1], c[2])}
<1>1. \A e \in E : CompareKey(e) \in [1..4 -> Nat]
  BY KeyIs
<1>2. \A d, e \in E : <<d, e>> \in R <=> Lower(CompareKey(d), CompareKey(e))
  BY DEF EdgeLess, Lower
<1>3. \A d, e \in E : CompareKey(d) = CompareKey(e) => d = e
  <2> SUFFICES ASSUME NEW d \in E, NEW e \in E, CompareKey(d) = CompareKey(e)
               PROVE  d = e
    OBVIOUS
  <2>1. d.type = e.type /\ d.dest = e.dest /\ d.label = e.label /\ d.pdgType = e.pdgType
    BY KeyIs
  <2>2. d.src = e.src
    OBVIOUS
  <2> QED
    BY <2>1, <2>2 DEF Edges
<1> HIDE DEF R
<1>4. \A D, F \in [1..4 -> Nat] :
        Lower(D, F) <=> \/ D[1] < F[1]
                        \/ D[1] = F[1] /\ D[2] < F[2]
                        \/ D[1] = F[1] /\ D[2] = F[2] /\ D[3] < F[3]
                        \/ D[1] = F[1] /\ D[2] = F[2] /\ D[3] = F[3] /\ D[4] < F[4]
  BY LowerIs
<1>5. \A D \in [1..4 -> Nat] : ~Lower(D, D)
  BY <1>4
<1>6. \A C, D, F \in [1..4 -> Nat] : Lower(C, D) /\ Lower(D, F) => Lower(C, F)
  BY <1>4
<1>7. \A D, F \in [1..4 -> Nat] : D = F \/ Lower(D, F) \/ Lower(F, D)
  <2> SUFFICES ASSUME NEW D \in [1..4 -> Nat], NEW F \in [1..4 -> Nat],
                      ~Lower(D, F), ~Lower(F, D)
               PROVE  D = F
    OBVIOUS
  <2>1. D[1] = F[1] /\ D[2] = F[2] /\ D[3] = F[3] /\ D[4] = F[4]
    BY <1>4
  <2>2. \A k \in 1..4 : k = 1 \/ k = 2 \/ k = 3 \/ k = 4
    OBVIOUS
  <2> QED
    BY <2>1, <2>2
<1> QED
  BY <1>1, <1>2, <1>3, <1>5, <1>6, <1>7 DEF IsOrder, R

\* A selection from a sequence has those of its elements that are selected.
LEMMA SelectionIs ==
  ASSUME NEW T, NEW s \in Seq(T), NEW S
  PROVE  /\ Selection(s, S) \in Seq(T)
         /\ ToSet(Selection(s, S)) = ToSet(s) \cap S
<1> DEFINE n == Len(s)
           V == Seq(T)
           G(v, i) == IF s[i] \in S THEN Append(v, s[i]) ELSE v
           F == [i \in 1..n |-> [v \in V |-> G(v, i)]]
           Is(H) == H = [i \in 0..n |-> IF i = 0 THEN <<>>
                                        ELSE IF s[i] \in S THEN Append(H[i - 1], s[i])
                                             ELSE H[i - 1]]
           H == CHOOSE H : Is(H)
<1>1. n \in Nat /\ DOMAIN s = 1..n /\ \A i \in 1..n : s[i] \in T
  BY ElementOfSeq, LenProperties
<1>2. \A i \in 1..n : \A v \in V : F[i][v] = G(v, i) /\ F[i][v] \in V
  <2> TAKE i \in 1..n
  <2> TAKE v \in V
  <2>1. F[i][v] = G(v, i)
    OBVIOUS
  <2>2. Append(v, s[i]) \in V
    BY <1>1, AppendIsSeq
  <2> HIDE DEF F, V
  <2> QED
    BY <2>1, <2>2
<1>3. <<>> \in V
  OBVIOUS
<1> HIDE DEF F, V
<1>4. Steps(0, n, V, F)
  <2> HIDE DEF n
  <2>1. 0 + 1 .. n = 1..n /\ 0 <= n
    BY <1>1
  <2> QED
    BY <1>1, <1>2, <2>1 DEF Steps
<1>5. PICK f \in [0..n -> V] : f[0] = <<>> /\ \A i \in 0 + 1 .. n : f[i] = F[i][f[i - 1]]
  <2> HIDE DEF n
  <2>1. \E f \in [0..n -> V] : Stepped(f, 0, n, <<>>, F)
    BY <1>3, <1>4, Iteration
  <2> QED
    BY <2>1 DEF Stepped
<1>6. Is(f)
  <2>1. \A i \in 1..n : i \in 0 + 1 .. n /\ i - 1 \in 0..n /\ f[i - 1] \in V
    BY <1>1
  <2>2. \A i \in 1..n : f[i] = G(f[i - 1], i)
    BY <1>2, <1>5, <2>1
  <2>3. \A i \in 0..n : i = 0 \/ i \in 1..n
    BY <1>1
  <2> HIDE DEF n
  <2> QED
    BY <1>5, <2>2, <2>3
<1>7. Is(H)
  <2> HIDE DEF Is
  <2> QED
    BY <1>6
<1>8. Selection(s, S) = H[n]
  BY DEF Selection
<1> HIDE DEF H
<1>9. H[0] = <<>> /\ \A i \in 1..n : H[i] = G(H[i - 1], i)
  <2>1. \A i \in 0..n : H[i] = IF i = 0 THEN <<>>
                               ELSE IF s[i] \in S THEN Append(H[i - 1], s[i]) ELSE H[i - 1]
    BY <1>7
  <2> QED
    BY <1>1, <2>1
<1> HIDE DEF Is, n
<1> DEFINE E(i) == {s[k] : k \in 1..i} \cap S
           K == {i \in Nat : i <= n => H[i] \in V /\ ToSet(H[i]) = E(i)}
<1>10. 0 \in K
  <2>1. ToSet(H[0]) = {} /\ E(0) = {}
    BY <1>9 DEF ToSet
  <2> QED
    BY <1>3, <1>9, <2>1
<1>11. ASSUME NEW m \in Nat, m \in K
       PROVE  m + 1 \in K
  <2> SUFFICES ASSUME m + 1 <= n
               PROVE  H[m + 1] \in V /\ ToSet(H[m + 1]) = E(m + 1)
    OBVIOUS
  <2> DEFINE i == m + 1
             v == H[m]
  <2>1. i \in 1..n /\ i - 1 = m /\ s[i] \in T /\ v \in V /\ ToSet(v) = E(m)
    BY <1>1, <1>11
  <2>2. H[i] = IF s[i] \in S THEN Append(v, s[i]) ELSE v
    BY <1>9, <2>1
  <2>3. E(i) = E(m) \cup ({s[i]} \cap S)
    <3>1. \A k : k \in 1..i <=> k \in 1..m \/ k = i
      OBVIOUS
    <3> QED
      BY <3>1
  <2>4. /\ Append(v, s[i]) \in V
        /\ ToSet(Append(v, s[i])) = ToSet(v) \cup {s[i]}
    <3> HIDE DEF v, i
    <3> DEFINE w == Append(v, s[i])
    <3>1. /\ w \in Seq(T) /\ Len(w) = Len(v) + 1
          /\ \A k \in 1..Len(v) : w[k] = v[k]
          /\ w[Len(v) + 1] = s[i]
      BY <2>1, AppendIsSeq DEF V
    <3> HIDE DEF w
    <3>2. DOMAIN w = 1 .. Len(v) + 1 /\ DOMAIN v = 1..Len(v) /\ Len(v) \in Nat
      BY <2>1, <3>1 DEF V
    <3> QED
      BY <3>1, <3>2 DEF ToSet, V, w
  <2> HIDE DEF E, v
  <2> QED
    BY <2>1, <2>2, <2>3, <2>4
<1>12. n \in K
  <2> HIDE DEF K
  <2>1. Nat \subseteq K
    BY <1>10, <1>11, SetInduction
  <2> QED
    BY <1>1, <2>1
<1>13. E(n) = ToSet(s) \cap S
  BY <1>1 DEF ToSet
<1> HIDE DEF E
<1> QED
  BY <1>8, <1>12, <1>13 DEF V

-----------------------------------------------------------------------------
(* The edges of a node. *)

\* What a graph is made of.
LEMMA InputParts ==
  ASSUME IsInput(input)
  PROVE  /\ Ids \in SUBSET Nat /\ Ids = 0 .. Cardinality(Ids) - 1 /\ Cardinality(Ids) \in Nat
         /\ \A i \in Ids : /\ input.nodes[i].kind \in Kinds
                           /\ input.nodes[i] \in NodesOf(i, input.nodes[i].kind)
         /\ input.edges \in Seq(Edges(Ids))
         /\ ToSet(input.edges) \subseteq Edges(Ids)
         /\ \A e \in ToSet(input.edges) : IsEdge(e)
         /\ input.lengths \subseteq Nat \ {0}
<1>1. /\ IsFiniteSet(Ids) /\ Ids = 0 .. Cardinality(Ids) - 1
      /\ \A i \in Ids : /\ input.nodes[i].kind \in Kinds
                        /\ input.nodes[i] \in NodesOf(i, input.nodes[i].kind)
      /\ input.edges \in Seq(Edges(Ids)) /\ input.lengths \subseteq Nat \ {0}
      /\ \A j \in DOMAIN input.edges : IsEdge(input.edges[j])
  BY DEF IsInput, Ids
<1>2. Cardinality(Ids) \in Nat
  BY <1>1, FS_CardinalityType
<1>3. \A i \in Ids : i \in 0 .. Cardinality(Ids) - 1
  BY <1>1
<1>4. Ids \in SUBSET Nat
  BY <1>2, <1>3
<1>5. ToSet(input.edges) \subseteq Edges(Ids) /\ \A e \in ToSet(input.edges) : IsEdge(e)
  BY <1>1, ElementOfSeq, LenProperties DEF ToSet
<1> QED
  BY <1>1, <1>2, <1>4, <1>5

\* The edges that a node has in _outEdges.
LEMMA OutEdgesAre ==
  ASSUME IsInput(input), NEW i
  PROVE  /\ OutEdges(i) \in Seq(Edges(Ids))
         /\ ToSet(OutEdges(i)) = {e \in ToSet(input.edges) : e.src = i}
<1>1. input.edges \in Seq(Edges(Ids)) /\ ToSet(input.edges) \subseteq Edges(Ids)
  BY InputParts
<1> DEFINE S == {e \in Edges(Ids) : e.src = i}
<1>2. OutEdges(i) = Selection(input.edges, S)
  BY DEF OutEdges
<1>3. ToSet(input.edges) \cap S = {e \in ToSet(input.edges) : e.src = i}
  BY <1>1
<1> HIDE DEF S
<1>4. /\ Selection(input.edges, S) \in Seq(Edges(Ids))
      /\ ToSet(Selection(input.edges, S)) = ToSet(input.edges) \cap S
  BY ONLY <1>1, SelectionIs
<1> QED
  BY <1>2, <1>3, <1>4

\* The edges that the visitors accept.
LEMMA AcceptedAre ==
  ASSUME NEW s \in Seq(Edges(Ids))
  PROVE  /\ AcceptedOf(s) \in Seq(Edges(Ids))
         /\ ToSet(AcceptedOf(s)) = {e \in ToSet(s) : Accepted(e)}
<1> DEFINE S == {e \in Edges(Ids) : Accepted(e)}
           T == Edges(Ids)
<1>1. AcceptedOf(s) = Selection(s, S)
  BY DEF AcceptedOf
<1>2. ToSet(s) \subseteq T
  BY ElementOfSeq, LenProperties DEF ToSet
<1>3. ToSet(s) \cap S = {e \in ToSet(s) : Accepted(e)}
  BY <1>2
<1> HIDE DEF S, T
<1>4. /\ Selection(s, S) \in Seq(T)
      /\ ToSet(Selection(s, S)) = ToSet(s) \cap S
  <2>1. s \in Seq(T)
    BY DEF T
  <2> QED
    BY ONLY <2>1, SelectionIs
<1> QED
  BY <1>1, <1>3, <1>4 DEF T

\* An EdgeSet has the edges of its node, with the labels written.
LEMMA EdgeSetIs ==
  ASSUME IsInput(input), NEW i
  PROVE  /\ EdgeSet(i) \in Seq(Edges(Ids))
         /\ ToSet(EdgeSet(i)) = {Labelled(e) : e \in ToSet(OutEdges(i))}
<1> DEFINE o == OutEdges(i)
           E == {Labelled(e) : e \in ToSet(o)}
           R == {c \in E \X E : EdgeLess(c[1], c[2])}
<1>1. /\ Ids \in SUBSET Nat /\ o \in Seq(Edges(Ids))
      /\ \A e \in ToSet(o) : e \in Edges(Ids) /\ IsEdge(e) /\ e.src = i
  BY InputParts, OutEdgesAre
<1>2. E \in SUBSET Edges(Ids) /\ \A e \in E : e.src = i
  BY <1>1, LabelledIs
<1>3. IsFiniteSet(E)
  <2> DEFINE n == Len(o)
             f == [j \in 1..n |-> Labelled(o[j])]
  <2>1. n \in Nat /\ DOMAIN o = 1..n
    BY <1>1, LenProperties
  <2>2. \A j \in 1..n : o[j] \in ToSet(o)
    BY <2>1 DEF ToSet
  <2>3. \A d \in E : \E j \in 1..n : Labelled(o[j]) = d
    BY <2>1 DEF ToSet
  <2> HIDE DEF n, o
  <2>4. f \in [1..n -> E]
    BY <2>2
  <2> HIDE DEF E
  <2>5. f \in Surjection(1..n, E)
    BY <2>3, <2>4 DEF Surjection
  <2>6. IsFiniteSet(1..n)
    BY <2>1, FS_Interval
  <2> HIDE DEF f
  <2> QED
    BY <2>5, <2>6, FS_Surjection
<1>4. EdgeSet(i) = Ranked(E, R)
  <2> DEFINE D == {[e EXCEPT !.label = EdgeLabel(e)] : e \in ToSet(o)}
  <2>1. E = D
    BY DEF Labelled
  <2>2. EdgeSet(i) = [k \in 1 .. Cardinality(D) |->
                        CHOOSE e \in D : Cardinality({d \in D : EdgeLess(d, e)}) = k - 1]
    BY DEF EdgeSet
  <2> HIDE DEF D, E, o
  <2>3. \A e \in E : {d \in E : EdgeLess(d, e)} = {d \in E : <<d, e>> \in R}
    OBVIOUS
  <2> HIDE DEF R
  <2>4. \A k : (CHOOSE e \in E : Cardinality({d \in E : EdgeLess(d, e)}) = k - 1)
               = (CHOOSE e \in E : Cardinality({d \in E : <<d, e>> \in R}) = k - 1)
    <3> TAKE k
    <3>1. \A e : (e \in E /\ Cardinality({d \in E : EdgeLess(d, e)}) = k - 1)
                 <=> (e \in E /\ Cardinality({d \in E : <<d, e>> \in R}) = k - 1)
      BY <2>3
    <3> QED
      BY <3>1
  <2> QED
    BY ZenonT(60), <2>1, <2>2, <2>4 DEF Ranked
<1> HIDE DEF E
<1>5. IsOrder(E, R)
  BY <1>1, <1>2, EdgesOrdered
<1> HIDE DEF R
<1>6. Ranked(E, R) \in Seq(E) /\ ToSet(Ranked(E, R)) = E
  BY ONLY <1>3, <1>5, RankedIs
<1>7. EdgeSet(i) \in Seq(Edges(Ids))
  <2>1. \A k \in 1..Len(EdgeSet(i)) : EdgeSet(i)[k] \in Edges(Ids)
    BY <1>2, <1>4, <1>6, ElementOfSeq
  <2> QED
    BY <1>4, <1>6, <2>1, SeqOfElements
<1> QED
  BY <1>4, <1>6, <1>7 DEF E

\* The edges that are written of a node.
LEMMA WrittenAre ==
  ASSUME IsInput(input), NEW i
  PROVE  /\ AcceptedOf(EdgeSet(i)) \in Seq(Edges(Ids))
         /\ ToSet(AcceptedOf(EdgeSet(i)))
              = {Labelled(e) : e \in {e \in ToSet(OutEdges(i)) : Accepted(e)}}
         /\ AcceptedOf(OutEdges(i)) \in Seq(Edges(Ids))
         /\ ToSet(AcceptedOf(OutEdges(i))) = {e \in ToSet(OutEdges(i)) : Accepted(e)}
<1>1. /\ EdgeSet(i) \in Seq(Edges(Ids))
      /\ ToSet(EdgeSet(i)) = {Labelled(e) : e \in ToSet(OutEdges(i))}
  BY EdgeSetIs
<1>2. /\ AcceptedOf(EdgeSet(i)) \in Seq(Edges(Ids))
      /\ ToSet(AcceptedOf(EdgeSet(i))) = {e \in ToSet(EdgeSet(i)) : Accepted(e)}
  BY <1>1, AcceptedAre
<1>3. OutEdges(i) \in Seq(Edges(Ids)) /\ ToSet(OutEdges(i)) = {e \in ToSet(input.edges) : e.src = i}
  BY OutEdgesAre
<1>4. /\ AcceptedOf(OutEdges(i)) \in Seq(Edges(Ids))
      /\ ToSet(AcceptedOf(OutEdges(i))) = {e \in ToSet(OutEdges(i)) : Accepted(e)}
  BY <1>3, AcceptedAre
<1>5. \A e \in ToSet(OutEdges(i)) : Accepted(Labelled(e)) <=> Accepted(e)
  <2>1. \A e \in ToSet(OutEdges(i)) : e \in Edges(Ids) /\ IsEdge(e)
    BY <1>3, InputParts
  <2> QED
    BY <2>1, LabelledIs DEF Accepted
<1>6. ToSet(AcceptedOf(EdgeSet(i)))
        = {Labelled(e) : e \in {e \in ToSet(OutEdges(i)) : Accepted(e)}}
  BY <1>1, <1>2, <1>5
<1> QED
  BY <1>2, <1>4, <1>6

\* What joining and appending add.
LEMMA JoinedSet ==
  ASSUME NEW S, NEW s \in Seq(S), NEW t \in Seq(S)
  PROVE  s \o t \in Seq(S) /\ ToSet(s \o t) = ToSet(s) \cup ToSet(t)
<1> DEFINE q == s \o t
           m == Len(s)
           n == Len(t)
<1>1. /\ q \in Seq(S) /\ Len(q) = m + n
      /\ \A i \in 1..m : q[i] = s[i]
      /\ \A i \in 1..n : q[m + i] = t[i]
  BY JoinedIs
<1>2. /\ m \in Nat /\ n \in Nat
      /\ DOMAIN s = 1..m /\ DOMAIN t = 1..n /\ DOMAIN q = 1 .. m + n
  BY <1>1, LenProperties
<1> HIDE DEF q, m, n
<1>3. \A i \in 1 .. m + n : i \in 1..m \/ (i - m \in 1..n /\ m + (i - m) = i)
  BY <1>2
<1>4. \A i \in 1..m : i \in 1 .. m + n
  BY <1>2
<1>5. \A i \in 1..n : m + i \in 1 .. m + n
  BY <1>2
<1>6. ToSet(q) \subseteq ToSet(s) \cup ToSet(t)
  <2> SUFFICES ASSUME NEW i \in 1 .. m + n
               PROVE  q[i] \in ToSet(s) \cup ToSet(t)
    BY <1>2 DEF ToSet
  <2>1. CASE i \in 1..m
    BY <1>1, <1>2, <2>1 DEF ToSet
  <2>2. CASE i - m \in 1..n /\ m + (i - m) = i
    <3>1. q[i] = t[i - m]
      BY <1>1, <2>2
    <3> QED
      BY <1>2, <2>2, <3>1 DEF ToSet
  <2> QED
    BY <1>3, <2>1, <2>2
<1>7. ToSet(s) \cup ToSet(t) \subseteq ToSet(q)
  <2>1. \A i \in 1..m : s[i] \in ToSet(q)
    BY <1>1, <1>2, <1>4 DEF ToSet
  <2>2. \A i \in 1..n : t[i] \in ToSet(q)
    BY <1>1, <1>2, <1>5 DEF ToSet
  <2> QED
    BY <1>2, <2>1, <2>2 DEF ToSet
<1> QED
  BY <1>1, <1>6, <1>7 DEF q

\* The elements of a sequence, and of one that is longer by one.
LEMMA AppendedSet ==
  ASSUME NEW S, NEW s \in Seq(S), NEW x \in S
  PROVE  Append(s, x) \in Seq(S) /\ ToSet(Append(s, x)) = ToSet(s) \cup {x}
<1> DEFINE q == Append(s, x)
           n == Len(s)
<1>1. /\ q \in Seq(S) /\ Len(q) = n + 1
      /\ \A i \in 1..n : q[i] = s[i]
      /\ q[n + 1] = x
  BY AppendIsSeq
<1>2. n \in Nat /\ DOMAIN s = 1..n /\ DOMAIN q = 1 .. n + 1
  BY <1>1, LenProperties
<1> HIDE DEF q, n
<1>3. \A i : i \in 1 .. n + 1 <=> i \in 1..n \/ i = n + 1
  BY <1>2
<1> QED
  BY <1>1, <1>2, <1>3 DEF ToSet, q

-----------------------------------------------------------------------------
(* The writers. *)

\* A row's node or edge: its identifier, and its cells or itself.
IdOf(r)   == IF input.format = "csv" THEN r.fields[NodeCol("id")] ELSE r
EdgeOf(r) == IF input.format = "csv" THEN r.fields.edge ELSE r
Seen(e)   == IF input.format = "csv" THEN EdgeRow(Labelled(e)) ELSE e

\* The rows that there can be.
NodeRowsOf(F, L) == {Row(f, NodeLines(f), l) : f \in F, l \in L}
Orders == Nat \cup {""}
EdgeRowsOf(D, L) ==
  {Row([order |-> o, edge |-> d], EdgeLines(d), l) : o \in Orders, d \in D, l \in L}

NodeRowSet == IF input.format = "csv"
              THEN NodeRowsOf({NodeRow(input.nodes[i]) : i \in Ids}, Nat \ {0}) ELSE Ids
EdgeRowSet == IF input.format = "csv"
              THEN EdgeRowsOf({EdgeRow(Labelled(e)) : e \in ToSet(input.edges)}, Nat \ {0})
              ELSE ToSet(input.edges)

\* Whether the writer has come past node i, and past its edges.
Passed(i) == phase = "nodes" => i < next
Listed(i) == IF input.format = "json"
             THEN phase # "nodes" /\ (phase = "edges" => i < next) ELSE Passed(i)
EdgesDue  == {e \in ToSet(input.edges) :
                Accepted(e) /\ Listed(e.src) /\ (input.format = "json" \/ ~Skipped(e.src))}

\* What has been written: every node selected, and every edge due and no other.
NodesWritten == \A i \in Ids : Passed(i) /\ ~Skipped(i) /\ Selected(i) =>
                                 \E r \in ToSet(rowsOut) : IdOf(r) = i
EdgesWritten == {EdgeOf(r) : r \in ToSet(edgesOut)} = {Seen(e) : e \in EdgesDue}

\* The writers' invariant: for the nodes passed so far, all that is due of the
\* graph is written and nothing else is, and info.json counts the rows.
WriterInv ==
  /\ IsInput(input) /\ next \in Nat
  /\ phase = "edges" => input.format = "json"
  /\ rowsOut \in Seq(NodeRowSet) /\ edgesOut \in Seq(EdgeRowSet)
  /\ NodesWritten /\ EdgesWritten
  /\ input.format = "csv" => info = [nodes |-> Len(rowsOut), edges |-> Len(edgesOut)]

\* It holds when nothing has been written.
LEMMA WriterInitInv ==
  ASSUME WriterInit
  PROVE  WriterInv
<1>1. IsInput(input)
  BY InputsAssumption DEF WriterInit
<1>2. ToSet(<<>>) = {}
  BY DEF ToSet
<1>3. \A i \in Ids : ~Passed(i) /\ ~Listed(i)
  BY <1>1, InputParts DEF WriterInit, Passed, Listed
<1>4. NodesWritten
  BY <1>3 DEF NodesWritten
<1>5. EdgesWritten
  <2>1. \A e \in ToSet(input.edges) : e.src \in Ids
    BY <1>1, InputParts DEF Edges
  <2>2. EdgesDue = {}
    BY <1>3, <2>1 DEF EdgesDue
  <2> QED
    BY <1>2, <2>2 DEF EdgesWritten, WriterInit
<1> QED
  BY <1>1, <1>4, <1>5 DEF WriterInit, WriterInv

\* A step keeps the input, and with it all that depends on nothing else.
LEMMA InputKept ==
  ASSUME input' = input
  PROVE  /\ IsInput(input)' <=> IsInput(input)
         /\ NodeRowSet' = NodeRowSet /\ EdgeRowSet' = EdgeRowSet /\ Ids' = Ids
         /\ \A i : (Skipped(i)' <=> Skipped(i)) /\ (Selected(i)' <=> Selected(i))
         /\ \A e : (Accepted(e)' <=> Accepted(e)) /\ Seen(e)' = Seen(e)
         /\ \A r : IdOf(r)' = IdOf(r) /\ EdgeOf(r)' = EdgeOf(r)
<1>1. (IsInput(input)' <=> IsInput(input)) /\ Ids' = Ids
  BY DEF IsInput, Ids
<1>2. NodeRowSet' = NodeRowSet /\ EdgeRowSet' = EdgeRowSet
  BY <1>1 DEF NodeRowSet, EdgeRowSet
<1>3. \A i : (Skipped(i)' <=> Skipped(i)) /\ (Selected(i)' <=> Selected(i))
  BY DEF Skipped, Selected, hasEdgesOf
<1>4. \A e : (Accepted(e)' <=> Accepted(e)) /\ Seen(e)' = Seen(e)
  BY DEF Accepted, Seen
<1>5. \A r : IdOf(r)' = IdOf(r) /\ EdgeOf(r)' = EdgeOf(r)
  BY DEF IdOf, EdgeOf
<1> QED
  BY <1>1, <1>2, <1>3, <1>4, <1>5

\* The writer comes to its next node: what it has to write, if anything.
NewEdges == {e \in ToSet(input.edges) : /\ Accepted(e) /\ e.src = next
                                        /\ input.format # "json" /\ ~Skipped(next)}
\* The step.
PassNode ==
  /\ phase = "nodes" /\ next \in Ids
  /\ input' = input /\ phase' = phase /\ next' = next + 1
  /\ rowsOut' \in Seq(NodeRowSet) /\ ToSet(rowsOut) \subseteq ToSet(rowsOut')
  /\ ~Skipped(next) /\ Selected(next) => \E r \in ToSet(rowsOut') : IdOf(r) = next
  /\ edgesOut' \in Seq(EdgeRowSet)
  /\ {EdgeOf(r) : r \in ToSet(edgesOut')}
       = {EdgeOf(r) : r \in ToSet(edgesOut)} \cup {Seen(e) : e \in NewEdges}
  /\ input.format = "csv" => info' = [nodes |-> Len(rowsOut'), edges |-> Len(edgesOut')]

\* To pass a node, and write what is due of it, keeps it.
LEMMA PassNodeKeeps ==
  ASSUME WriterInv, PassNode
  PROVE  WriterInv'
<1>1. /\ IsInput(input) /\ Ids \in SUBSET Nat /\ next \in Nat
      /\ \A e \in ToSet(input.edges) : e.src \in Nat
  BY InputParts DEF WriterInv, Edges
<1>2. /\ IsInput(input)' <=> IsInput(input)
      /\ NodeRowSet' = NodeRowSet /\ EdgeRowSet' = EdgeRowSet /\ Ids' = Ids
      /\ \A i : (Skipped(i)' <=> Skipped(i)) /\ (Selected(i)' <=> Selected(i))
      /\ \A e : (Accepted(e)' <=> Accepted(e)) /\ Seen(e)' = Seen(e)
      /\ \A r : IdOf(r)' = IdOf(r) /\ EdgeOf(r)' = EdgeOf(r)
  BY InputKept DEF PassNode
<1>3. phase = "nodes" /\ phase' = "nodes" /\ next' = next + 1 /\ input' = input
  BY DEF PassNode
<1>4. \A i \in Nat : /\ Passed(i)' <=> Passed(i) \/ i = next
                     /\ Listed(i)' <=> Listed(i) \/ (i = next /\ input.format # "json")
  BY <1>1, <1>3 DEF Passed, Listed
<1>5. NodesWritten'
  <2> SUFFICES ASSUME NEW i \in Ids, Passed(i)', ~Skipped(i), Selected(i)
               PROVE  \E r \in ToSet(rowsOut') : IdOf(r) = i
    BY <1>2 DEF NodesWritten
  <2>1. CASE i = next
    BY <2>1 DEF PassNode
  <2>2. CASE i # next
    <3>1. Passed(i)
      BY <1>1, <1>4, <2>2
    <3>2. \E r \in ToSet(rowsOut) : IdOf(r) = i
      BY <3>1 DEF WriterInv, NodesWritten
    <3> QED
      BY <3>2 DEF PassNode
  <2> QED
    BY <2>1, <2>2
<1>6. EdgesWritten'
  <2>1. EdgesDue' = EdgesDue \cup NewEdges
    BY <1>1, <1>2, <1>3, <1>4 DEF EdgesDue, NewEdges
  <2>2. {EdgeOf(r) : r \in ToSet(edgesOut')} = {Seen(e) : e \in EdgesDue \cup NewEdges}
    BY DEF PassNode, WriterInv, EdgesWritten
  <2> QED
    BY <1>2, <2>1, <2>2 DEF EdgesWritten
<1> QED
  BY <1>1, <1>2, <1>3, <1>5, <1>6 DEF PassNode, WriterInv

\* The rows of edges and nodes.
LEMMA EdgeRowsAre ==
  ASSUME NEW T, NEW s \in Seq(T), NEW l \in Nat \ {0}
  PROVE  /\ EdgeRows(s, l) \in Seq(EdgeRowsOf({EdgeRow(d) : d \in ToSet(s)}, {l}))
         /\ Len(EdgeRows(s, l)) = Len(s)
         /\ {r.fields.edge : r \in ToSet(EdgeRows(s, l))} = {EdgeRow(d) : d \in ToSet(s)}
<1> DEFINE n == Len(s)
           q == EdgeRows(s, l)
           o(j) == IF s[j].type # "AST" THEN ""
                   ELSE Cardinality({k \in 1 .. j - 1 : s[k].type = "AST"})
           D == {EdgeRow(d) : d \in ToSet(s)}
           V == EdgeRowsOf(D, {l})
<1>1. n \in Nat /\ DOMAIN s = 1..n
  BY LenProperties
<1>2. \A j \in 1..n : o(j) \in Orders
  <2> TAKE j \in 1..n
  <2> DEFINE A == {k \in 1 .. j - 1 : s[k].type = "AST"}
  <2>1. IsFiniteSet(1 .. j - 1) /\ A \in SUBSET (1 .. j - 1)
    BY FS_Interval
  <2> HIDE DEF A
  <2>2. Cardinality(A) \in Nat
    BY <2>1, FS_Subset, FS_CardinalityType
  <2> QED
    BY <2>2 DEF A, Orders
<1>3. q = [j \in 1..n |-> Row([order |-> o(j), edge |-> EdgeRow(s[j])],
                              EdgeLines(EdgeRow(s[j])), l)]
  BY <1>1 DEF EdgeRows
<1>4. \A j \in 1..n : EdgeRow(s[j]) \in D
  BY <1>1 DEF ToSet
<1> HIDE DEF o, D, q, n
<1>5. \A j \in 1..n : q[j] \in V /\ q[j].fields.edge = EdgeRow(s[j])
  <2> TAKE j \in 1..n
  <2> DEFINE d == EdgeRow(s[j])
             x == o(j)
  <2>1. x \in Orders /\ d \in D /\ l \in {l}
    BY <1>2, <1>4
  <2>2. q[j] = Row([order |-> x, edge |-> d], EdgeLines(d), l)
    BY <1>3
  <2> HIDE DEF d, x
  <2>3. q[j] \in V
    BY <2>1, <2>2 DEF EdgeRowsOf
  <2>4. q[j].fields.edge = d
    BY <2>2 DEF Row
  <2> QED
    BY <2>3, <2>4 DEF d
<1>6. q \in [1..n -> V]
  BY <1>3, <1>5
<1>7. q \in Seq(V) /\ Len(q) = n /\ DOMAIN q = 1..n
  <2> HIDE DEF V
  <2> QED
    BY <1>1, <1>6
<1>8. {r.fields.edge : r \in ToSet(q)} = D
  <2> HIDE DEF V
  <2>1. ToSet(q) = {q[j] : j \in 1..n}
    BY <1>7 DEF ToSet
  <2>2. D = {EdgeRow(s[j]) : j \in 1..n}
    BY <1>1 DEF ToSet, D
  <2>3. {r.fields.edge : r \in ToSet(q)} = {q[j].fields.edge : j \in 1..n}
    BY <2>1
  <2>4. \A j \in 1..n : q[j].fields.edge = EdgeRow(s[j])
    BY <1>5
  <2>5. {q[j].fields.edge : j \in 1..n} = {EdgeRow(s[j]) : j \in 1..n}
    BY ONLY <2>4
  <2> QED
    BY <2>2, <2>3, <2>5
<1> QED
  BY <1>7, <1>8 DEF q, D, n

\* More edges make more rows.
LEMMA EdgeRowsGrow ==
  ASSUME NEW D, NEW G, D \subseteq G, NEW M, NEW L, M \subseteq L
  PROVE  EdgeRowsOf(D, M) \subseteq EdgeRowsOf(G, L)
<1> SUFFICES ASSUME NEW r \in EdgeRowsOf(D, M)
             PROVE  r \in EdgeRowsOf(G, L)
  OBVIOUS
<1> PICK o \in Orders, d \in D, l \in M :
      r = Row([order |-> o, edge |-> d], EdgeLines(d), l)
  BY DEF EdgeRowsOf
<1> d \in G /\ l \in L
  OBVIOUS
<1> QED
  BY DEF EdgeRowsOf

\* The rows of some nodes: as many, each with what is given.
LEMMA NodeRowsAre ==
  ASSUME NEW T, NEW s \in Seq(T), NEW l \in Nat \ {0}
  PROVE  /\ NodeRows(s, l) \in Seq(NodeRowsOf(ToSet(s), {l}))
         /\ Len(NodeRows(s, l)) = Len(s)
         /\ \A d \in ToSet(s) : Row(d, NodeLines(d), l) \in ToSet(NodeRows(s, l))
<1> DEFINE n == Len(s)
           q == NodeRows(s, l)
           D == ToSet(s)
           V == NodeRowsOf(D, {l})
<1>1. n \in Nat /\ DOMAIN s = 1..n
  BY LenProperties
<1>2. q = [j \in 1..n |-> Row(s[j], NodeLines(s[j]), l)]
  BY <1>1 DEF NodeRows
<1>3. \A j \in 1..n : s[j] \in D
  BY <1>1 DEF ToSet
<1>4. \A d \in D : \E j \in 1..n : s[j] = d
  BY <1>1 DEF ToSet
<1> HIDE DEF q, n, D
<1>5. \A j \in 1..n : q[j] \in V
  BY <1>2, <1>3 DEF NodeRowsOf
<1>6. q \in [1..n -> V]
  BY <1>2, <1>5
<1>7. q \in Seq(V) /\ Len(q) = n /\ DOMAIN q = 1..n
  <2> HIDE DEF V
  <2> QED
    BY <1>1, <1>6
<1>8. \A d \in D : Row(d, NodeLines(d), l) \in ToSet(q)
  BY <1>2, <1>4, <1>7 DEF ToSet
<1> QED
  BY <1>7, <1>8 DEF q, D, n

\* WriteRows passes a node.
LEMMA RowsKeep ==
  ASSUME WriterInv, WriteRows
  PROVE  PassNode
<1>1. /\ phase = "nodes" /\ next \in Ids /\ input.format = "csv" /\ ~Skipped(next)
      /\ input' = input /\ phase' = phase /\ next' = next + 1
  BY DEF WriteRows, Working
<1> DEFINE es == AcceptedOf(EdgeSet(next))
           ns == IF Selected(next) THEN <<NodeRow(input.nodes[next])>> ELSE <<>>
           E == {e \in ToSet(OutEdges(next)) : Accepted(e)}
           F == {NodeRow(input.nodes[i]) : i \in Ids}
<1>2. PICK m \in input.lengths, n \in input.lengths :
        edgesOut' = edgesOut \o EdgeRows(es, m) /\ rowsOut' = rowsOut \o NodeRows(ns, n)
  BY DEF WriteRows
<1>3. info' = [nodes |-> info.nodes + Len(ns), edges |-> info.edges + Len(es)]
  BY DEF WriteRows
<1>4. IsInput(input) /\ m \in Nat \ {0} /\ n \in Nat \ {0}
  BY InputParts DEF WriterInv
<1>5. /\ NodeRowSet = NodeRowsOf(F, Nat \ {0})
      /\ EdgeRowSet = EdgeRowsOf({EdgeRow(Labelled(e)) : e \in ToSet(input.edges)}, Nat \ {0})
  BY <1>1 DEF NodeRowSet, EdgeRowSet
<1>6. es \in Seq(Edges(Ids)) /\ ToSet(es) = {Labelled(e) : e \in E}
  BY <1>4, WrittenAre
<1>7. E = NewEdges /\ E \subseteq ToSet(input.edges)
  <2>1. ToSet(OutEdges(next)) = {e \in ToSet(input.edges) : e.src = next}
    BY <1>4, OutEdgesAre
  <2> QED
    BY <1>1, <2>1 DEF NewEdges
<1>8. ns \in Seq(F)
  <2>1. NodeRow(input.nodes[next]) \in F
    BY <1>1
  <2> HIDE DEF F
  <2> QED
    BY <2>1
<1>9. Selected(next) => NodeRow(input.nodes[next]) \in ToSet(ns)
  <2> SUFFICES ASSUME Selected(next)
               PROVE  NodeRow(input.nodes[next]) \in ToSet(ns)
    OBVIOUS
  <2>1. ns = <<NodeRow(input.nodes[next])>>
    OBVIOUS
  <2> HIDE DEF ns
  <2>2. 1 \in DOMAIN ns /\ ns[1] = NodeRow(input.nodes[next])
    BY <2>1
  <2> QED
    BY <2>2 DEF ToSet
<1> HIDE DEF es, ns, E, F
<1>10. /\ EdgeRows(es, m) \in Seq(EdgeRowsOf({EdgeRow(d) : d \in ToSet(es)}, {m}))
       /\ Len(EdgeRows(es, m)) = Len(es)
       /\ {r.fields.edge : r \in ToSet(EdgeRows(es, m))} = {EdgeRow(d) : d \in ToSet(es)}
  BY ONLY <1>4, <1>6, EdgeRowsAre
<1>11. /\ NodeRows(ns, n) \in Seq(NodeRowsOf(ToSet(ns), {n}))
       /\ Len(NodeRows(ns, n)) = Len(ns)
       /\ \A d \in ToSet(ns) : Row(d, NodeLines(d), n) \in ToSet(NodeRows(ns, n))
  BY ONLY <1>4, <1>8, NodeRowsAre
<1>12. EdgeRows(es, m) \in Seq(EdgeRowSet)
  <2> DEFINE V == EdgeRowsOf({EdgeRow(d) : d \in ToSet(es)}, {m})
             q == EdgeRows(es, m)
  <2>1. {EdgeRow(d) : d \in ToSet(es)} \subseteq {EdgeRow(Labelled(e)) : e \in ToSet(input.edges)}
    BY <1>6, <1>7
  <2>2. V \subseteq EdgeRowSet
    <3> DEFINE D == {EdgeRow(d) : d \in ToSet(es)}
               G == {EdgeRow(Labelled(e)) : e \in ToSet(input.edges)}
    <3>1. D \subseteq G /\ {m} \subseteq Nat \ {0} /\ EdgeRowSet = EdgeRowsOf(G, Nat \ {0})
      BY <1>4, <1>5, <2>1
    <3> HIDE DEF D, G
    <3> DEFINE M == {m}
               L == Nat \ {0}
    <3>2. M \subseteq L
      BY <3>1
    <3> HIDE DEF M, L
    <3>3. EdgeRowsOf(D, M) \subseteq EdgeRowsOf(G, L)
      BY <3>1, <3>2, EdgeRowsGrow
    <3> QED
      BY <3>1, <3>3 DEF D, M, L
  <2>3. q \in Seq(V)
    BY <1>10
  <2> HIDE DEF V, q
  <2>4. \A j \in 1..Len(q) : q[j] \in EdgeRowSet
    BY <2>2, <2>3, ElementOfSeq
  <2>5. q \in Seq(EdgeRowSet)
    BY <2>3, <2>4, SeqOfElements
  <2> QED
    BY <2>5 DEF q
<1>13. NodeRows(ns, n) \in Seq(NodeRowSet)
  <2> DEFINE V == NodeRowsOf(ToSet(ns), {n})
             q == NodeRows(ns, n)
  <2>1. ToSet(ns) \subseteq F
    BY <1>8, ElementOfSeq, LenProperties DEF ToSet
  <2>2. V \subseteq NodeRowSet
    BY <1>4, <1>5, <2>1 DEF NodeRowsOf
  <2>3. q \in Seq(V)
    BY <1>11
  <2> HIDE DEF V, q
  <2>4. \A j \in 1..Len(q) : q[j] \in NodeRowSet
    BY <2>2, <2>3, ElementOfSeq
  <2>5. q \in Seq(NodeRowSet)
    BY <2>3, <2>4, SeqOfElements
  <2> QED
    BY <2>5 DEF q
<1>14. rowsOut \in Seq(NodeRowSet) /\ edgesOut \in Seq(EdgeRowSet)
  BY DEF WriterInv
<1>15. /\ rowsOut' \in Seq(NodeRowSet)
       /\ ToSet(rowsOut') = ToSet(rowsOut) \cup ToSet(NodeRows(ns, n))
       /\ Len(rowsOut') = Len(rowsOut) + Len(ns)
  <2>1. /\ rowsOut \o NodeRows(ns, n) \in Seq(NodeRowSet)
        /\ ToSet(rowsOut \o NodeRows(ns, n)) = ToSet(rowsOut) \cup ToSet(NodeRows(ns, n))
    BY <1>13, <1>14, JoinedSet
  <2>2. Len(rowsOut \o NodeRows(ns, n)) = Len(rowsOut) + Len(NodeRows(ns, n))
    BY <1>13, <1>14, JoinedIs
  <2> QED
    BY <1>2, <1>11, <2>1, <2>2
<1>16. /\ edgesOut' \in Seq(EdgeRowSet)
       /\ ToSet(edgesOut') = ToSet(edgesOut) \cup ToSet(EdgeRows(es, m))
       /\ Len(edgesOut') = Len(edgesOut) + Len(es)
  <2>1. /\ edgesOut \o EdgeRows(es, m) \in Seq(EdgeRowSet)
        /\ ToSet(edgesOut \o EdgeRows(es, m)) = ToSet(edgesOut) \cup ToSet(EdgeRows(es, m))
    BY <1>12, <1>14, JoinedSet
  <2>2. Len(edgesOut \o EdgeRows(es, m)) = Len(edgesOut) + Len(EdgeRows(es, m))
    BY <1>12, <1>14, JoinedIs
  <2> QED
    BY <1>2, <1>10, <2>1, <2>2
<1>17. {EdgeOf(r) : r \in ToSet(EdgeRows(es, m))} = {Seen(e) : e \in NewEdges}
  <2>1. {EdgeOf(r) : r \in ToSet(EdgeRows(es, m))} = {EdgeRow(d) : d \in ToSet(es)}
    BY <1>1, <1>10 DEF EdgeOf
  <2>2. {EdgeRow(d) : d \in ToSet(es)} = {EdgeRow(Labelled(e)) : e \in NewEdges}
    BY <1>6, <1>7
  <2> QED
    BY <1>1, <2>1, <2>2 DEF Seen
<1>18. {EdgeOf(r) : r \in ToSet(edgesOut')}
         = {EdgeOf(r) : r \in ToSet(edgesOut)} \cup {Seen(e) : e \in NewEdges}
  BY <1>16, <1>17
<1>19. Selected(next) => \E r \in ToSet(rowsOut') : IdOf(r) = next
  <2> SUFFICES ASSUME Selected(next)
               PROVE  \E r \in ToSet(rowsOut') : IdOf(r) = next
    OBVIOUS
  <2> DEFINE f == NodeRow(input.nodes[next])
             r == Row(f, NodeLines(f), n)
  <2>1. r \in ToSet(rowsOut')
    BY <1>9, <1>11, <1>15
  <2>2. NodeRow(input.nodes[next])[NodeCol("id")] = next
    BY <1>1, <1>4, InputParts, RowParses
  <2>3. IdOf(r) = next
    BY <1>1, <2>2 DEF IdOf, Row
  <2> QED
    BY <2>1, <2>3
<1>20. info' = [nodes |-> Len(rowsOut'), edges |-> Len(edgesOut')]
  <2>1. info = [nodes |-> Len(rowsOut), edges |-> Len(edgesOut)]
    BY <1>1 DEF WriterInv
  <2> QED
    BY <1>3, <1>15, <1>16, <2>1
<1> QED
  BY <1>1, <1>15, <1>16, <1>18, <1>19, <1>20 DEF PassNode

-----------------------------------------------------------------------------
(* Multiples. *)

\* A multiple of b, as % tells, is one.
LEMMA MultipleIs ==
  ASSUME NEW b \in Nat \ {0}, NEW k \in Nat, k % b = 0
  PROVE  \E q \in Nat : k = q * b
OBVIOUS

\* The multiples of b, as % tells them.
LEMMA Multiples ==
  ASSUME NEW b \in Nat \ {0}, NEW k \in Nat, k % b = 0
  PROVE  /\ (k + b) % b = 0
         /\ k > 0 => k >= b
         /\ \A r \in 1 .. b - 1 : (k + r) % b # 0
<1> PICK q \in Nat : k = q * b
  BY MultipleIs
<1>1. (k + b) % b = 0
  <2>1. k + b = (q + 1) * b
    OBVIOUS
  <2>2. \A p \in Nat : (p * b) % b = 0
    OBVIOUS
  <2> QED
    BY <2>1, <2>2
<1>2. k > 0 => k >= b
  OBVIOUS
<1>3. ASSUME NEW r \in 1 .. b - 1, (k + r) % b = 0
      PROVE  FALSE
  <2> DEFINE n == k + r
  <2>1. n \in Nat /\ n % b = 0
    BY <1>3
  <2> HIDE DEF n
  <2> PICK p \in Nat : n = p * b
    BY <2>1, MultipleIs
  <2> DEFINE d == p - q
  <2>2. d \in Int /\ d * b = r
    <3>1. p * b = q * b + r
      BY DEF n
    <3>2. (p - q) * b = p * b - q * b
      OBVIOUS
    <3> QED
      BY <3>1, <3>2
  <2> HIDE DEF d
  <2>3. d >= 1 => d * b >= b
    BY <2>2
  <2>4. d <= 0 => d * b <= 0
    BY <2>2
  <2> QED
    BY <2>2, <2>3, <2>4
<1> QED
  BY <1>1, <1>2, <1>3

-----------------------------------------------------------------------------
(* Joined sequences. *)

\* FlattenSeq joins some sequences one after the other.
LEMMA FlattenIs ==
  ASSUME NEW T, NEW s \in Seq(Seq(T)), Len(s) # 0
  PROVE  \E H : /\ H \in [1..Len(s) -> Seq(T)]
                /\ H[1] = s[1] /\ \A i \in 1..Len(s) : i # 1 => H[i] = H[i - 1] \o s[i]
                /\ FlattenSeq(s) = H[Len(s)]
<1> DEFINE n == Len(s)
           V == Seq(T)
           F == [i \in 1..n |-> [v \in V |-> v \o s[i]]]
           Is(H) == H = [i \in 1..n |-> IF i = 1 THEN s[i] ELSE H[i - 1] \o s[i]]
           H == CHOOSE H : Is(H)
<1>1. n \in Nat /\ 1 \in 1..n /\ 1 <= n /\ \A j \in 1..n : s[j] \in V
  BY LenProperties, ElementOfSeq
<1>2. \A i \in 1..n : \A v \in V : F[i][v] = v \o s[i] /\ F[i][v] \in V
  BY <1>1
<1> HIDE DEF F, V
<1>3. Steps(1, n, V, F)
  <2> HIDE DEF n
  <2>1. 1 + 1 .. n \subseteq 1..n
    BY <1>1
  <2> QED
    BY <1>1, <1>2, <2>1 DEF Steps
<1>4. PICK f \in [1..n -> V] : f[1] = s[1] /\ \A i \in 1 + 1 .. n : f[i] = F[i][f[i - 1]]
  <2> HIDE DEF n
  <2>1. \E f \in [1..n -> V] : Stepped(f, 1, n, s[1], F)
    BY <1>1, <1>3, Iteration
  <2> QED
    BY <2>1 DEF Stepped
<1>5. \A i \in 1..n : i # 1 => f[i] = f[i - 1] \o s[i]
  <2> HIDE DEF n
  <2>1. \A i \in 1..n : i # 1 => i \in 1 + 1 .. n /\ i - 1 \in 1..n
    BY <1>1
  <2>2. \A i \in 1..n : f[i] \in V
    BY <1>4
  <2> QED
    BY <1>2, <1>4, <2>1, <2>2
<1>6. Is(f)
  <2> HIDE DEF n
  <2> QED
    BY <1>4, <1>5
<1>7. Is(H)
  <2> HIDE DEF Is
  <2> QED
    BY <1>6
<1>8. FlattenSeq(s) = H[n]
  <2>1. Len(s) = n /\ Len(s) # 0
    OBVIOUS
  <2> QED
    BY <2>1 DEF FlattenSeq
<1> HIDE DEF H
<1>9. H[1] = s[1] /\ \A i \in 1..n : i # 1 => H[i] = H[i - 1] \o s[i]
  BY <1>1, <1>7
<1>10. H \in [1..n -> V]
  <2> DEFINE S == {i \in Nat : i + 1 <= n => H[i + 1] \in V}
  <2>1. 0 \in S
    BY <1>1, <1>9
  <2>2. ASSUME NEW i \in Nat, i \in S
        PROVE  i + 1 \in S
    <3> SUFFICES ASSUME (i + 1) + 1 <= n
                 PROVE  H[(i + 1) + 1] \in V
      OBVIOUS
    <3> DEFINE h == (i + 1) + 1
    <3>1. h \in 1..n /\ h # 1 /\ h - 1 = i + 1 /\ i + 1 <= n
      BY <1>1
    <3>2. H[i + 1] \in V /\ s[h] \in V
      BY <1>1, <2>2, <3>1
    <3> HIDE DEF h
    <3>3. H[h] = H[i + 1] \o s[h]
      BY <1>9, <3>1
    <3> QED
      BY <3>2, <3>3 DEF V, h
  <2> HIDE DEF S
  <2>3. Nat \subseteq S
    BY <2>1, <2>2, SetInduction
  <2>4. \A i \in 1..n : i - 1 \in Nat /\ (i - 1) + 1 = i /\ i <= n
    BY <1>1
  <2>5. \A i \in 1..n : H[i] \in V
    BY <2>3, <2>4 DEF S
  <2>6. H = [i \in 1..n |-> H[i]]
    BY <1>7
  <2> QED
    BY <2>5, <2>6
<1> QED
  BY <1>8, <1>9, <1>10 DEF V

-----------------------------------------------------------------------------
(* The bytes of a file. *)

\* A byte: its row and place, or the newline.
Byte == Nat \X Nat

\* Rows that have text.
AreRows(R) == \E T : R \in Seq(T) /\ \A j \in 1..Len(R) : R[j].length \in Nat \ {0}

\* f holds the first n rows of R one after the other, row j from behind
\* e[j - 1] up to the newline at e[j].
HoldsFirst(n, f, R, e) ==
  /\ f \in Seq(Byte) /\ Len(f) = e[n]
  /\ e \in [0..n -> Nat] /\ e[0] = 0
  /\ \A j \in 1..n : /\ e[j] = e[j - 1] + R[j].length + 1
                     /\ f[e[j]] = Newline
                     /\ \A k \in 1..R[j].length : f[e[j - 1] + k] = <<j, k>>
Holds(f, R, e) == HoldsFirst(Len(R), f, R, e)

\* Where the rows of R end.
Ends(R) == CHOOSE e : Holds(Bytes(R), R, e)

\* The rows lie in their order.
LEMMA EndsRise ==
  ASSUME NEW n \in Nat, NEW e \in [0..n -> Nat], \A j \in 1..n : e[j - 1] < e[j]
  PROVE  \A i, j \in 0..n : i < j => e[i] < e[j]
<1> SUFFICES ASSUME NEW i \in 0..n
             PROVE  \A j \in 0..n : i < j => e[i] < e[j]
  OBVIOUS
<1> DEFINE K == {k \in Nat : i + k + 1 <= n => e[i] < e[i + k + 1]}
<1>1. 0 \in K
  <2>1. i + 0 + 1 <= n => i + 1 \in 1..n /\ (i + 1) - 1 = i
    OBVIOUS
  <2> QED
    BY <2>1
<1>2. ASSUME NEW k \in Nat, k \in K
      PROVE  k + 1 \in K
  <2> SUFFICES ASSUME i + (k + 1) + 1 <= n
               PROVE  e[i] < e[i + (k + 1) + 1]
    OBVIOUS
  <2> DEFINE q == i + (k + 1) + 1
             p == i + k + 1
  <2>1. q \in 1..n /\ q - 1 = p /\ p <= n /\ p \in 0..n /\ q \in 0..n
    OBVIOUS
  <2>2. e[i] < e[p]
    BY <1>2, <2>1
  <2> HIDE DEF p, q
  <2>3. e[p] < e[q]
    BY <2>1
  <2>4. e[i] \in Nat /\ e[p] \in Nat /\ e[q] \in Nat
    BY <2>1
  <2>5. e[i] < e[q]
    BY <2>2, <2>3, <2>4
  <2> QED
    BY <2>5 DEF q
<1>3. Nat \subseteq K
  <2> HIDE DEF K
  <2> QED
    BY <1>1, <1>2, SetInduction
<1>4. ASSUME NEW j \in 0..n, i < j
      PROVE  e[i] < e[j]
  <2>1. j - i - 1 \in Nat /\ i + (j - i - 1) + 1 = j
    BY <1>4
  <2> DEFINE k == j - i - 1
  <2>2. k \in K
    BY <1>3, <2>1
  <2>3. i + k + 1 = j
    BY <2>1
  <2> QED
    BY <2>2, <2>3
<1> QED
  BY <1>4

\* t is the text of a row of length l, the h-th, and a newline.
IsLine(t, h, l) == /\ t \in Seq(Byte) /\ Len(t) = l + 1
                   /\ \A k \in 1..l : t[k] = <<h, k>>
                   /\ t[l + 1] = Newline

\* One more row.
LEMMA OneMoreHeld ==
  ASSUME NEW R, AreRows(R), NEW i \in Nat, i + 1 <= Len(R), NEW f, NEW e,
         HoldsFirst(i, f, R, e), NEW t, IsLine(t, i + 1, R[i + 1].length)
  PROVE  \E c : HoldsFirst(i + 1, f \o t, R, c)
<1> DEFINE h == i + 1
           l == R[h].length
           b == e[i]
           g == f \o t
           c == [j \in 0..h |-> IF j = h THEN b + l + 1 ELSE e[j]]
<1>1. l \in Nat \ {0} /\ Len(R) \in Nat
  BY LenProperties DEF AreRows
<1>2. /\ h \in Nat /\ h \in 1..h /\ h - 1 = i /\ h \in 0..h /\ i \in 0..i /\ i # h
      /\ \A j \in 0..h : j # h => j \in 0..i
      /\ \A j \in 0..i : j \in 0..h /\ j # h
      /\ \A j \in 1..h : j # h => j \in 1..i
      /\ \A j \in 1..i : j \in 0..i /\ j - 1 \in 0..i
  OBVIOUS
<1>3. /\ f \in Seq(Byte) /\ Len(f) = b
      /\ e \in [0..i -> Nat] /\ e[0] = 0 /\ b \in Nat
      /\ \A j \in 1..i : /\ e[j] = e[j - 1] + R[j].length + 1
                         /\ f[e[j]] = Newline
                         /\ \A k \in 1..R[j].length : f[e[j - 1] + k] = <<j, k>>
  BY <1>2 DEF HoldsFirst
<1>4. IsLine(t, h, l)
  OBVIOUS
<1> HIDE DEF h, l, b, g
<1>5. /\ g \in Seq(Byte) /\ Len(g) = b + (l + 1)
      /\ \A k \in 1..b : g[k] = f[k]
      /\ \A k \in 1 .. l + 1 : g[b + k] = t[k]
  <2>1. t \in Seq(Byte) /\ Len(t) = l + 1
    BY <1>4 DEF IsLine
  <2>2. /\ g \in Seq(Byte) /\ Len(g) = Len(f) + Len(t)
        /\ \A k \in 1..Len(f) : g[k] = f[k]
        /\ \A k \in 1..Len(t) : g[Len(f) + k] = t[k]
    <3>1. f \in Seq(Byte) /\ t \in Seq(Byte) /\ g = f \o t
      BY <1>3, <2>1 DEF g
    <3> QED
      BY ONLY <3>1, JoinedIs
  <2> QED
    BY <1>3, <2>1, <2>2
<1>6. /\ c \in [0..h -> Nat] /\ c[h] = b + l + 1
      /\ \A j \in 0..i : c[j] = e[j]
  <2>1. b + l + 1 \in Nat
    BY <1>1, <1>3
  <2>2. \A j \in 0..h : (IF j = h THEN b + l + 1 ELSE e[j]) \in Nat
    BY <1>2, <1>3, <2>1
  <2> QED
    BY <1>2, <2>2
<1> HIDE DEF c
<1>7. c[0] = 0
  BY <1>3, <1>6
<1>8. \A j \in 1..i : e[j] <= b /\ e[j] \in Nat /\ e[j - 1] \in Nat
  <2>1. \A j \in 1..i : R[j].length \in Nat
    BY <1>1 DEF AreRows, h
  <2>2. \A j \in 1..i : e[j] \in Nat /\ e[j - 1] \in Nat
    BY <1>2, <1>3
  <2>3. ASSUME NEW j \in 1..i
        PROVE  e[j - 1] < e[j]
    <3> DEFINE a == e[j - 1]
               d == e[j]
               m == R[j].length
    <3>1. a \in Nat /\ m \in Nat /\ d = a + m + 1
      BY <1>3, <2>1, <2>2
    <3> HIDE DEF a, d, m
    <3>2. a < d
      BY <3>1
    <3> QED
      BY <3>2 DEF a, d
  <2>4. \A j, k \in 0..i : j < k => e[j] < e[k]
    BY <1>3, <2>3, EndsRise
  <2>5. ASSUME NEW j \in 1..i
        PROVE  e[j] <= b
    <3>1. CASE j = i
      BY <1>3, <3>1 DEF b
    <3>2. CASE j # i
      <4>1. j \in 0..i /\ i \in 0..i /\ j < i
        BY <3>2
      <4>2. e[j] < e[i]
        BY <2>4, <4>1
      <4> QED
        BY <1>3, <2>2, <4>2 DEF b
    <3> QED
      BY <3>1, <3>2
  <2> QED
    BY <2>2, <2>5
<1>9. ASSUME NEW j \in 1..h
      PROVE  /\ c[j] = c[j - 1] + R[j].length + 1
             /\ g[c[j]] = Newline
             /\ \A k \in 1..R[j].length : g[c[j - 1] + k] = <<j, k>>
  <2>1. CASE j = h
    <3>1. c[j - 1] = b /\ c[j] = b + l + 1 /\ R[j].length = l
      BY <1>2, <1>6, <2>1 DEF b, l
    <3>2. l + 1 \in 1 .. l + 1 /\ b + (l + 1) = b + l + 1
          /\ \A k \in 1..l : k \in 1 .. l + 1
      BY <1>1, <1>3
    <3>3. g[b + l + 1] = Newline /\ \A k \in 1..l : g[b + k] = <<h, k>>
      BY <1>4, <1>5, <3>2 DEF IsLine
    <3> QED
      BY <2>1, <3>1, <3>3
  <2>2. CASE j # h
    <3>1. j \in 1..i /\ j - 1 \in 0..i /\ j \in 0..i
      BY <1>2, <2>2
    <3>2. c[j] = e[j] /\ c[j - 1] = e[j - 1]
      BY <1>6, <3>1
    <3> DEFINE m == R[j].length
               d == e[j]
               a == e[j - 1]
    <3>3. /\ d = a + m + 1 /\ f[d] = Newline /\ \A k \in 1..m : f[a + k] = <<j, k>>
          /\ d <= b /\ d \in Nat /\ a \in Nat
      BY <1>3, <1>8, <3>1
    <3>4. m \in Nat
      BY <1>1, <3>1 DEF AreRows, h
    <3> HIDE DEF m, d, a
    <3>5. d \in 1..b /\ \A k \in 1..m : a + k \in 1..b
      BY <1>3, <3>3, <3>4
    <3>6. g[d] = Newline /\ \A k \in 1..m : g[a + k] = <<j, k>>
      BY <1>5, <3>3, <3>5
    <3> QED
      BY <3>2, <3>3, <3>6 DEF m, d, a
  <2> QED
    BY <2>1, <2>2
<1>10. Len(g) = c[h]
  BY <1>1, <1>3, <1>5, <1>6
<1>11. HoldsFirst(h, g, R, c)
  BY <1>5, <1>6, <1>7, <1>9, <1>10 DEF HoldsFirst
<1> QED
  BY <1>11 DEF h, g

\* The bytes of rows hold them.
LEMMA BytesHold ==
  ASSUME NEW R, AreRows(R)
  PROVE  Holds(Bytes(R), R, Ends(R))
<1> DEFINE n == Len(R)
           s == [j \in DOMAIN R |-> Append(Line(R, j), Newline)]
           V == Seq(Byte)
<1>1. n \in Nat /\ DOMAIN R = 1..n /\ \A j \in 1..n : R[j].length \in Nat \ {0}
  BY LenProperties DEF AreRows
<1>2. ASSUME NEW j \in 1..n
      PROVE  IsLine(s[j], j, R[j].length)
  <2> DEFINE l == Line(R, j)
             c == R[j].length
  <2>1. c \in Nat /\ l = [k \in 1..c |-> <<j, k>>] /\ j \in Nat
    BY <1>1 DEF Line
  <2>2. Newline \in Byte
    BY DEF Newline, Byte
  <2>3. s[j] = Append(l, Newline)
    BY <1>1
  <2> HIDE DEF c, l, s
  <2>4. l \in Seq(Byte) /\ Len(l) = c /\ \A k \in 1..c : l[k] = <<j, k>>
    <3>1. \A k \in 1..c : <<j, k>> \in Byte
      BY <2>1 DEF Byte
    <3> QED
      BY <2>1, <3>1
  <2>5. /\ s[j] \in Seq(Byte) /\ Len(s[j]) = Len(l) + 1
        /\ \A i \in 1..Len(l) : s[j][i] = l[i]
        /\ s[j][Len(l) + 1] = Newline
    BY <2>2, <2>3, <2>4, AppendIsSeq
  <2> QED
    BY <2>4, <2>5 DEF IsLine, c
<1>3. s \in Seq(V) /\ Len(s) = n
  <2>1. \A j \in 1..n : s[j] \in V
    BY <1>2 DEF IsLine
  <2> QED
    BY <1>1, <2>1
<1>4. Bytes(R) = FlattenSeq(s)
  BY DEF Bytes
<1> HIDE DEF s
<1>5. CASE n = 0
  <2>1. s = <<>> /\ Bytes(R) = <<>>
    BY <1>3, <1>4, <1>5 DEF FlattenSeq
  <2> DEFINE e == [j \in 0..0 |-> 0]
  <2>2. Holds(Bytes(R), R, e)
    BY <1>5, <2>1 DEF Holds, HoldsFirst
  <2> HIDE DEF e
  <2> QED
    BY <2>2 DEF Ends
<1>6. CASE n # 0
  <2>1. 1 \in 1..n /\ 1 <= n
    BY <1>1, <1>6
  <2>2. PICK H : /\ H[1] = s[1] /\ \A i \in 1..n : i # 1 => H[i] = H[i - 1] \o s[i]
                 /\ Bytes(R) = H[n]
    <3>1. s \in Seq(Seq(Byte)) /\ Len(s) # 0
      BY <1>3, <1>6
    <3>2. \E H : /\ H \in [1..Len(s) -> Seq(Byte)]
                 /\ H[1] = s[1] /\ \A i \in 1..Len(s) : i # 1 => H[i] = H[i - 1] \o s[i]
                 /\ FlattenSeq(s) = H[Len(s)]
      BY ONLY <3>1, FlattenIs
    <3> QED
      BY <1>3, <1>4, <3>2
  <2> DEFINE S == {i \in Nat : i + 1 <= n => \E e : HoldsFirst(i + 1, H[i + 1], R, e)}
  <2>3. 0 \in S
    <3> DEFINE l == R[1].length
               e == [j \in 0..1 |-> IF j = 0 THEN 0 ELSE l + 1]
    <3>1. l \in Nat \ {0} /\ IsLine(H[1], 1, l)
      BY <1>1, <1>2, <2>1, <2>2
    <3> HIDE DEF l
    <3>2. /\ e[0] = 0 /\ e[1] = l + 1 /\ e \in [0..1 -> Nat]
          /\ \A k \in 1..l : 0 + k = k
      BY <3>1
    <3> HIDE DEF e
    <3>3. HoldsFirst(1, H[1], R, e)
      <4>1. \A j \in 1..1 : j = 1 /\ j - 1 = 0
        OBVIOUS
      <4>2. R[1].length = l
        BY DEF l
      <4>3. e[1] = 0 + l + 1
        BY <3>1, <3>2
      <4> QED
        BY <3>1, <3>2, <4>1, <4>2, <4>3 DEF HoldsFirst, IsLine
    <3> QED
      BY <3>3
  <2>4. ASSUME NEW m \in Nat, m \in S
         PROVE  m + 1 \in S
    <3> SUFFICES ASSUME (m + 1) + 1 <= n
                 PROVE  \E e : HoldsFirst((m + 1) + 1, H[(m + 1) + 1], R, e)
      OBVIOUS
    <3> DEFINE i == m + 1
               h == i + 1
               t == s[h]
    <3>1. i \in Nat /\ h \in 1..n /\ h # 1 /\ h - 1 = i /\ i <= n
      BY <1>1
    <3> PICK e : HoldsFirst(i, H[i], R, e)
      BY <2>4, <3>1
    <3>2. H[h] = H[i] \o t
      BY <2>2, <3>1
    <3>3. IsLine(t, h, R[h].length)
      BY <1>2, <3>1
    <3> DEFINE g == H[i]
    <3> HIDE DEF t, i, g, S
    <3>4. \E c : HoldsFirst(i + 1, g \o t, R, c)
      <4>1. HoldsFirst(i, g, R, e) /\ IsLine(t, i + 1, R[i + 1].length)
        BY <3>3 DEF g
      <4> QED
        BY <3>1, <4>1, OneMoreHeld
    <3> QED
      BY <3>2, <3>4 DEF i, g
  <2>5. n - 1 \in S
    <3>1. n - 1 \in Nat
      BY <1>1, <1>6
    <3> HIDE DEF S
    <3>2. Nat \subseteq S
      BY <2>3, <2>4, SetInduction
    <3> QED
      BY <3>1, <3>2
  <2>6. PICK e : HoldsFirst(n, H[n], R, e)
    <3>1. (n - 1) + 1 = n /\ n <= n
      BY <1>1
    <3> QED
      BY <2>5, <3>1
  <2>7. Holds(Bytes(R), R, e)
    BY <2>2, <2>6 DEF Holds
  <2> QED
    BY <2>7 DEF Ends
<1> QED
  BY <1>5, <1>6

\* Row m + 1 of a file.
LEMMA NextLine ==
  ASSUME NEW R, AreRows(R), NEW f, NEW e, Holds(f, R, e), NEW m \in Nat, m < Len(R)
  PROVE  /\ e[m] \in Nat /\ e[m + 1] \in Nat /\ Len(f) \in Nat
         /\ e[m + 1] = e[m] + R[m + 1].length + 1 /\ R[m + 1].length \in Nat \ {0}
         /\ e[m + 1] <= Len(f) /\ f[e[m + 1]] = Newline
         /\ \A k \in 1..R[m + 1].length : f[e[m] + k] = <<m + 1, k>> /\ f[e[m] + k] # Newline
<1> DEFINE n == Len(R)
           h == m + 1
<1>1. n \in Nat /\ \A j \in 1..n : R[j].length \in Nat \ {0}
  BY LenProperties DEF AreRows
<1>2. h \in 1..n /\ h - 1 = m /\ m \in 0..n /\ h \in 0..n /\ n \in 0..n
      /\ \A j \in 1..n : j \in 0..n /\ j - 1 \in 0..n
  BY <1>1
<1> HIDE DEF h
<1>3. /\ e \in [0..n -> Nat] /\ Len(f) = e[n]
      /\ \A j \in 1..n : /\ e[j] = e[j - 1] + R[j].length + 1
                         /\ f[e[j]] = Newline
                         /\ \A k \in 1..R[j].length : f[e[j - 1] + k] = <<j, k>>
  BY DEF Holds, HoldsFirst
<1> HIDE DEF n
<1>4. \A j \in 1..n : e[j - 1] < e[j]
  <2> TAKE j \in 1..n
  <2> DEFINE a == e[j - 1]
             d == e[j]
             l == R[j].length
  <2>1. a \in Nat /\ l \in Nat /\ d = a + l + 1
    BY <1>1, <1>2, <1>3
  <2> HIDE DEF a, d, l
  <2>2. a < d
    BY <2>1
  <2> QED
    BY <2>2 DEF a, d
<1>5. \A i, j \in 0..n : i < j => e[i] < e[j]
  BY <1>1, <1>3, <1>4, EndsRise
<1>6. e[m] \in Nat /\ e[h] \in Nat /\ e[n] \in Nat
  BY <1>2, <1>3
<1>7. e[h] <= e[n]
  <2>1. h = n \/ h < n
    BY <1>1, <1>2
  <2>2. h < n => e[h] < e[n]
    BY <1>2, <1>5
  <2> QED
    BY <1>6, <2>1, <2>2
<1>8. /\ e[h] = e[m] + R[h].length + 1
      /\ f[e[h]] = Newline
      /\ \A k \in 1..R[h].length : f[e[m] + k] = <<h, k>>
  BY <1>2, <1>3
<1>9. \A k : <<h, k>> # Newline
  BY <1>2 DEF Newline
<1> QED
  BY <1>1, <1>2, <1>3, <1>6, <1>7, <1>8, <1>9 DEF h

-----------------------------------------------------------------------------
(* The reader. *)

\* The byte of the file that the reader comes to next.
At == taken - last + current

\* The reader's buffer holds bytes of f: the latest and, behind them, those of
\* the refill before.
Buffered(f) ==
  /\ file = f /\ eof = FALSE
  /\ taken \in 0..Len(f) /\ last \in 0..BUFF_SIZE /\ last <= taken
  /\ current \in 0..last
  /\ (taken - last) % BUFF_SIZE = 0
  /\ 0 < last /\ last < BUFF_SIZE => taken = Len(f)
  /\ \A i \in Positions :
       buffer[i] = IF i < last THEN f[taken - last + i + 1]
                   ELSE IF taken - last >= BUFF_SIZE
                        THEN f[taken - last - BUFF_SIZE + i + 1] ELSE Zero

\* In row m + 1, or at the end of the file.
Calling(f, R, e, m) ==
  /\ Buffered(f) /\ reader \in {"call", "scan"}
  /\ reader = "scan" => last > 0 /\ current < BUFF_SIZE
  /\ prefix \in Seq(Byte) /\ e[m] <= At /\ Len(prefix) = At - e[m]
  /\ \A k \in 1..Len(prefix) : prefix[k] = f[e[m] + k]
  /\ m < Len(R) => At < e[m + 1]

\* The n bytes of f from position x on.
Copies(q, f, x, n) == q \in Seq(Byte) /\ Len(q) = n /\ \A k \in 1..n : q[k] = f[x + k]

\* Behind row m + 1.
Returned(f, R, e, m) ==
  /\ Buffered(f) /\ reader = "returned" /\ prefix = <<>>
  /\ m < Len(R) /\ At = e[m + 1] /\ row = Line(R, m + 1)

\* The end of the file has been seen.
Ended(f, R, m) ==
  /\ file = f /\ eof = TRUE /\ reader = "returned" /\ row = <<>>
  /\ m = Len(R) /\ ~FillsBuffer(f) /\ ~StaleNewline(f)

\* The end of the file has been missed.
Missed(f) ==
  /\ file = f /\ eof = FALSE /\ taken = Len(f) /\ StaleNewline(f)
  /\ last \in 0..BUFF_SIZE /\ current \in 0..BUFF_SIZE
  /\ reader \in {"call", "scan", "returned"}
  /\ reader = "scan" => current < BUFF_SIZE
  /\ (reader = "call" /\ last = 0) \/ current > last

\* After m rows of R.
Reads(f, R, e, m) == \/ Calling(f, R, e, m) \/ Returned(f, R, e, m)
                     \/ Ended(f, R, m) \/ (Missed(f) /\ m = Len(R))
\* The end of f is not seen.
CannotEnd(f) == FillsBuffer(f) \/ StaleNewline(f)

\* The loop of readLine stops, at the first place where it can.
LEMMA StopIs ==
  ASSUME current \in 0..BUFF_SIZE
  PROVE  Stop \in current..BUFF_SIZE /\ Stops(Stop) /\ \A j \in current .. Stop - 1 : ~Stops(j)
<1> DEFINE T == {i \in current..BUFF_SIZE : Stops(i)}
           Is(s) == Stops(s) /\ \A j \in current .. s - 1 : ~Stops(j)
<1>1. BUFF_SIZE \in Nat \ {0}
  BY BufferAssumption
<1>2. BUFF_SIZE \in T /\ T \in SUBSET Nat
  BY <1>1 DEF Stops
<1>3. T # {}
  BY <1>2
<1> HIDE DEF T
<1> PICK s \in T : \A i \in T : s <= i
  BY <1>2, <1>3, LeastElement
<1>4. s \in current..BUFF_SIZE /\ Stops(s)
  BY DEF T
<1>5. \A j \in current .. s - 1 : ~Stops(j)
  <2> TAKE j \in current .. s - 1
  <2>1. j \in current..BUFF_SIZE /\ ~(s <= j)
    BY <1>1, <1>4
  <2> QED
    BY <2>1 DEF T
<1>6. \E t \in current..BUFF_SIZE : Is(t)
  BY <1>4, <1>5
<1>7. Stop = CHOOSE t \in current..BUFF_SIZE : Is(t)
  BY DEF Stop
<1> HIDE DEF Is
<1>8. Stop \in current..BUFF_SIZE /\ Is(Stop)
  BY <1>6, <1>7
<1> QED
  BY <1>8 DEF Is

\* The numbers of a buffered file.
LEMMA Numbers ==
  ASSUME NEW f \in Seq(Byte), Buffered(f)
  PROVE  /\ BUFF_SIZE \in Nat \ {0} /\ Len(f) \in Nat
         /\ taken \in Nat /\ last \in Nat /\ current \in Nat
         /\ taken <= Len(f) /\ last <= BUFF_SIZE /\ last <= taken /\ current <= last
         /\ taken - last \in Nat
  BY BufferAssumption, LenProperties DEF Buffered

\* How far the loop comes: at a byte of the file, to the newline of the row it
\* is in; at the end of the bytes given, only if all rows have been read; at
\* the end of the buffer, within a row.
LEMMA ScanIs ==
  ASSUME NEW R, AreRows(R), NEW f, NEW e, Holds(f, R, e), NEW m \in 0..Len(R),
         Calling(f, R, e, m), reader = "scan"
  PROVE  /\ Stop \in current..last
         /\ Stop < last => /\ AtNewline /\ m < Len(R)
                           /\ taken - last + Stop + 1 = e[m + 1]
         /\ Stop = last /\ last < BUFF_SIZE => /\ m = Len(R) /\ current = last
                                               /\ prefix = <<>> /\ taken = Len(f)
         /\ Stop = BUFF_SIZE => last = BUFF_SIZE /\ m < Len(R) /\ taken < e[m + 1]
<1> DEFINE n == Len(R)
           B == BUFF_SIZE
           N == Len(f)
           b == taken - last
           s == Stop
<1>1. f \in Seq(Byte) /\ N = e[n] /\ e \in [0..n -> Nat] /\ n \in Nat
  BY LenProperties DEF Holds, HoldsFirst, AreRows
<1>2. Buffered(f) /\ last > 0 /\ current < B /\ At = b + current
  BY DEF Calling, At
<1>3. /\ B \in Nat \ {0} /\ N \in Nat /\ taken \in Nat /\ last \in Nat /\ current \in Nat
      /\ taken <= N /\ last <= B /\ last <= taken /\ current <= last /\ b \in Nat
      /\ taken = b + last
  BY <1>1, <1>2, Numbers
<1>4. /\ s \in current..B /\ (s = B \/ s = last \/ buffer[s] = Newline)
      /\ \A j \in current .. s - 1 : j # last /\ buffer[j] # Newline
  <2>1. current \in 0..B
    BY <1>3
  <2>2. Stop \in current..BUFF_SIZE /\ Stops(Stop) /\ \A j \in current .. Stop - 1 : ~Stops(j)
    BY <2>1, StopIs
  <2> QED
    BY <2>2 DEF Stops
<1>5. \A i \in 0 .. B - 1 : i < last => buffer[i] = f[b + i + 1]
  BY <1>2 DEF Buffered, Positions
<1>6. last < B => taken = N
  BY <1>2 DEF Buffered
<1> HIDE DEF b, s, N, B, n
<1>7. s \in current..last
  <2>1. s > last => last \in current .. s - 1
    BY <1>3, <1>4
  <2> QED
    BY <1>3, <1>4, <2>1
<1>8. \A j \in current .. s - 1 : f[b + j + 1] # Newline
  <2> TAKE j \in current .. s - 1
  <2>1. j \in 0 .. B - 1 /\ j < last
    BY <1>3, <1>7
  <2> QED
    BY <1>4, <1>5, <2>1
<1>9. /\ e[m] \in Nat /\ e[m] <= b + current /\ m \in 0..n
      /\ m < n => b + current < e[m + 1]
  BY <1>1, <1>2 DEF Calling, n
<1>10. ASSUME m < n
       PROVE  /\ e[m] \in Nat /\ e[m + 1] \in Nat
              /\ e[m + 1] <= N /\ f[e[m + 1]] = Newline
              /\ \A p \in Nat : e[m] < p /\ p < e[m + 1] => f[p] # Newline
              /\ b + current < e[m + 1] /\ e[m] <= b + current
  <2> DEFINE l == R[m + 1].length
             x == e[m]
             y == e[m + 1]
  <2>1. m \in Nat /\ m < Len(R)
    BY <1>1, <1>9, <1>10 DEF n
  <2>2. /\ x \in Nat /\ y \in Nat /\ y = x + l + 1 /\ l \in Nat \ {0}
        /\ y <= Len(f) /\ f[y] = Newline
        /\ \A k \in 1..l : f[x + k] # Newline
    BY <2>1, NextLine
  <2> HIDE DEF l, x, y
  <2>3. ASSUME NEW p \in Nat, x < p, p < y
        PROVE  f[p] # Newline
    <3>1. p - x \in 1..l /\ x + (p - x) = p
      BY <2>2, <2>3
    <3> QED
      BY <2>2, <3>1
  <2> QED
    BY <1>9, <1>10, <2>2, <2>3 DEF x, y, N
<1>11. ASSUME m < n
       PROVE  b + s < e[m + 1]
  <2> DEFINE y == e[m + 1]
             j == y - 1 - b
  <2>1. y \in Nat /\ f[y] = Newline /\ b + current < y
    BY <1>10, <1>11
  <2> HIDE DEF y
  <2>2. j \in Int /\ b + j + 1 = y /\ current <= j
    BY <1>3, <2>1
  <2> HIDE DEF j
  <2>3. ~(j < s)
    <3> SUFFICES ASSUME j < s
                 PROVE  FALSE
      OBVIOUS
    <3>1. j \in current .. s - 1
      BY <1>3, <1>7, <2>2
    <3> QED
      BY <1>8, <2>1, <2>2, <3>1
  <2>4. b + s < y
    BY <1>3, <1>7, <2>1, <2>2, <2>3
  <2> QED
    BY <2>4 DEF y
<1>12. m = n => b + current = N /\ current = last
  BY <1>1, <1>3, <1>9
<1>13. ASSUME s < last
       PROVE  AtNewline /\ m < n /\ b + s + 1 = e[m + 1]
  <2>1. buffer[s] = Newline /\ s < B
    BY <1>3, <1>4, <1>13
  <2>2. m < n
    BY <1>1, <1>3, <1>7, <1>9, <1>12, <1>13
  <2> DEFINE x == e[m]
             y == e[m + 1]
  <2>3. /\ x \in Nat /\ y \in Nat /\ b + s < y /\ x <= b + current
        /\ \A p \in Nat : x < p /\ p < y => f[p] # Newline
    BY <1>10, <1>11, <2>2
  <2> HIDE DEF x, y
  <2>4. f[b + s + 1] = Newline
    <3>1. s \in 0 .. B - 1
      BY <1>3, <1>7, <2>1
    <3> QED
      BY <1>5, <1>13, <2>1, <3>1
  <2>5. b + s + 1 \in Nat /\ x < b + s + 1
    BY <1>3, <1>7, <2>3
  <2>6. ~(b + s + 1 < y)
    BY <2>3, <2>4, <2>5
  <2>7. b + s + 1 = y
    BY <1>3, <1>7, <2>3, <2>6
  <2> QED
    BY <2>1, <2>2, <2>7 DEF AtNewline, s, B, y
<1>14. ASSUME s = last, last < B
       PROVE  m = n /\ current = last /\ prefix = <<>> /\ taken = N
  <2>1. taken = N
    BY <1>6, <1>14
  <2>2. m = n
    <3> SUFFICES ASSUME m < n
                 PROVE  FALSE
      BY <1>1, <1>9
    <3>1. e[m + 1] <= N /\ e[m + 1] \in Nat
      BY <1>10
    <3> QED
      BY <1>3, <1>11, <1>14, <2>1, <3>1
  <2>3. current = last /\ At = e[m]
    BY <1>1, <1>2, <1>12, <2>2
  <2>4. prefix \in Seq(Byte) /\ Len(prefix) = 0
    <3>1. prefix \in Seq(Byte) /\ Len(prefix) = At - e[m]
      BY DEF Calling
    <3> QED
      BY <1>9, <2>3, <3>1
  <2> QED
    BY <2>1, <2>2, <2>3, <2>4
<1>15. ASSUME s = B
       PROVE  last = B /\ m < n /\ taken < e[m + 1]
  <2>1. last = B
    BY <1>3, <1>7, <1>15
  <2>2. m # n
    BY <1>2, <1>3, <1>12, <2>1
  <2>3. m < n
    BY <1>1, <1>9, <2>2
  <2> QED
    BY <1>3, <1>11, <1>15, <2>1, <2>3
<1> QED
  BY <1>7, <1>13, <1>14, <1>15 DEF n, b, s, N, B

\* The row up to place s of the buffer.
LEMMA RowUpTo ==
  ASSUME NEW R, NEW f \in Seq(Byte), NEW e, NEW m, e[m] \in Nat,
         Calling(f, R, e, m), NEW s \in current..last
  PROVE  Copies(prefix \o Slice(current, s), f, e[m], taken - last + s - e[m])
<1> DEFINE b == taken - last
           x == e[m]
           d == s - current
           t == Slice(current, s)
           q == prefix \o t
           a == Len(prefix)
<1>1. /\ Buffered(f) /\ At = b + current /\ prefix \in Seq(Byte) /\ a = At - x
      /\ x <= At /\ \A k \in 1..a : prefix[k] = f[x + k]
  BY DEF Calling, At
<1>2. /\ BUFF_SIZE \in Nat \ {0} /\ Len(f) \in Nat /\ taken \in Nat /\ last \in Nat
      /\ current \in Nat /\ taken <= Len(f) /\ last <= BUFF_SIZE /\ last <= taken
      /\ current <= last /\ b \in Nat /\ taken = b + last
  BY <1>1, Numbers
<1>3. \A i \in 0 .. BUFF_SIZE - 1 : i < last => buffer[i] = f[b + i + 1]
  BY <1>1 DEF Buffered, Positions
<1> HIDE DEF b, x, a
<1>4. d \in Nat /\ s \in Nat /\ s = current + d /\ x \in Nat /\ a \in Nat /\ a = b + current - x
  BY SMTT(30), <1>1, <1>2 DEF x, a
<1> HIDE DEF d
<1>5. \A k \in 1..d : /\ buffer[current + k - 1] = f[b + (current + k - 1) + 1]
                      /\ b + (current + k - 1) + 1 = x + (a + k)
                      /\ x + (a + k) \in 1..Len(f)
  <2> TAKE k \in 1..d
  <2> DEFINE i == current + k - 1
  <2>1. i \in 0 .. BUFF_SIZE - 1 /\ i < last /\ b + i + 1 = x + (a + k) /\ x + (a + k) \in 1..Len(f)
    BY <1>2, <1>4
  <2> HIDE DEF i
  <2>2. buffer[i] = f[b + i + 1]
    BY <1>3, <2>1
  <2> QED
    BY <2>1, <2>2 DEF i
<1>6. t \in Seq(Byte) /\ Len(t) = d /\ \A k \in 1..d : t[k] = f[x + (a + k)]
  <2>1. CASE d = 0
    <3>1. t = <<>>
      BY <1>2, <1>4, <2>1 DEF Slice
    <3> QED
      BY <2>1, <3>1
  <2>2. CASE d # 0
    <3>1. ~(s <= current) /\ s - current = d
      BY <1>2, <1>4, <2>2
    <3>2. t = [k \in 1..d |-> buffer[current + k - 1]]
      BY <3>1 DEF Slice
    <3>3. \A k \in 1..d : buffer[current + k - 1] = f[x + (a + k)] /\ f[x + (a + k)] \in Byte
      BY <1>5, ElementOfSeq
    <3>4. \A k \in 1..d : t[k] = f[x + (a + k)] /\ t[k] \in Byte
      BY <3>2, <3>3
    <3> HIDE DEF t
    <3>5. t \in [1..d -> Byte]
      BY <3>2, <3>4
    <3>6. t \in Seq(Byte) /\ Len(t) = d
      BY <1>4, <3>5
    <3> QED
      BY <3>4, <3>6
  <2> QED
    BY <2>1, <2>2
<1> HIDE DEF t
<1>7. /\ q \in Seq(Byte) /\ Len(q) = a + d
      /\ \A k \in 1..a : q[k] = prefix[k]
      /\ \A k \in 1..d : q[a + k] = t[k]
  <2>1. prefix \in Seq(Byte) /\ t \in Seq(Byte)
    BY <1>1, <1>6
  <2>2. /\ q \in Seq(Byte) /\ Len(q) = Len(prefix) + Len(t)
        /\ \A k \in 1..Len(prefix) : q[k] = prefix[k]
        /\ \A k \in 1..Len(t) : q[Len(prefix) + k] = t[k]
    BY ONLY <2>1, JoinedIs
  <2> QED
    BY <1>6, <2>2 DEF a
<1> HIDE DEF q
<1>8. b + s - x = a + d
  BY <1>2, <1>4
<1>9. ASSUME NEW k \in 1 .. a + d
      PROVE  q[k] = f[x + k]
  <2>1. CASE k <= a
    <3>1. k \in 1..a
      BY <1>4, <2>1
    <3> QED
      BY <1>1, <1>7, <3>1
  <2>2. CASE ~(k <= a)
    <3> DEFINE i == k - a
    <3>1. i \in 1..d /\ a + i = k
      BY <1>4, <2>2
    <3> HIDE DEF i
    <3> QED
      BY <1>6, <1>7, <3>1
  <2> QED
    BY <2>1, <2>2
<1> QED
  BY <1>7, <1>8, <1>9 DEF Copies, q, t, b, x

\* What is known of a reader that is in a row: the numbers, as differences.
LEMMA CallingParts ==
  ASSUME NEW R, AreRows(R), NEW f, NEW e, Holds(f, R, e), NEW m \in 0..Len(R),
         Calling(f, R, e, m)
  PROVE  /\ f \in Seq(Byte) /\ e[m] \in Nat /\ Len(R) \in Nat /\ BUFF_SIZE \in Nat \ {0}
         /\ Len(f) \in Nat /\ taken \in Nat /\ last \in Nat /\ current \in Nat
         /\ taken <= Len(f) /\ last <= BUFF_SIZE /\ last <= taken /\ current <= last
         /\ (taken - last) % BUFF_SIZE = 0 /\ taken - last \in Nat
         /\ At = taken - last + current /\ e[m] <= At
         /\ 0 < last /\ last < BUFF_SIZE => taken = Len(f)
         /\ Buffered(f)
<1>1. f \in Seq(Byte) /\ e \in [0..Len(R) -> Nat] /\ Len(R) \in Nat
  BY LenProperties DEF Holds, HoldsFirst, AreRows
<1>2. Buffered(f) /\ e[m] <= At
  BY DEF Calling
<1>3. /\ (taken - last) % BUFF_SIZE = 0
      /\ 0 < last /\ last < BUFF_SIZE => taken = Len(f)
  BY <1>2 DEF Buffered
<1> QED
  BY <1>1, <1>2, <1>3, Numbers DEF At

\* The buffer is not yet used up.
LEMMA KeepReads ==
  ASSUME NEW R, AreRows(R), NEW f, NEW e, Holds(f, R, e), NEW m \in 0..Len(R),
         Calling(f, R, e, m), KeepBuffer
  PROVE  Calling(f, R, e, m)'
<1>1. /\ last \in Nat /\ current \in Nat /\ BUFF_SIZE \in Nat
      /\ last <= BUFF_SIZE /\ current <= last
  BY CallingParts
<1>2. /\ last > 0 /\ current < BUFF_SIZE
  BY <1>1 DEF KeepBuffer, UsedUp
<1>3. Buffered(f)'
  BY DEF KeepBuffer, Calling, Buffered
<1>4. At' = At
  BY DEF KeepBuffer, At
<1> QED
  BY <1>2, <1>3, <1>4 DEF KeepBuffer, Calling

\* The buffer is filled again.
LEMMA RefillReads ==
  ASSUME NEW R, AreRows(R), NEW f, NEW e, Holds(f, R, e), NEW m \in 0..Len(R),
         Calling(f, R, e, m), Refill
  PROVE  Calling(f, R, e, m)'
<1> DEFINE B == BUFF_SIZE
           N == Len(f)
           g == Given
           b == taken - last
<1>1. /\ B \in Nat \ {0} /\ N \in Nat /\ taken \in Nat /\ last \in Nat /\ current \in Nat
      /\ taken <= N /\ last <= B /\ last <= taken /\ current <= last
      /\ b % B = 0 /\ b \in Nat /\ At = b + current /\ taken = b + last /\ file = f
      /\ Buffered(f)
  <2>1. taken = taken - last + last
    <3>1. taken \in Nat /\ last \in Nat
      BY CallingParts
    <3> QED
      BY <3>1
  <2>2. file = f
    BY DEF Calling, Buffered
  <2> QED
    BY <2>1, <2>2, CallingParts
<1>2. /\ last = 0 \/ (last = B /\ current = B)
      /\ g > 0 /\ current' = 0 /\ last' = g /\ taken' = taken + g
      /\ buffer' = [i \in Positions |-> IF i < g THEN file[taken + i + 1] ELSE buffer[i]]
      /\ reader' = "scan" /\ file' = file /\ eof' = eof /\ prefix' = prefix
  BY <1>1 DEF Refill, UsedUp
<1>3. g = IF N - taken < B THEN N - taken ELSE B
  BY <1>1 DEF Given
<1>4. \A i \in Positions :
        buffer[i] = IF i < last THEN f[b + i + 1]
                    ELSE IF b >= B THEN f[b - B + i + 1] ELSE Zero
  BY <1>1 DEF Buffered
<1> HIDE DEF N, g, b
<1>5. /\ g \in Nat /\ g <= B /\ taken + g <= N /\ taken + g - g = taken
      /\ g < B => taken + g = N
  BY <1>1, <1>3
<1>6. taken % B = 0
  <2>1. CASE last = 0
    BY <1>1, <2>1
  <2>2. CASE last = B
    BY <1>1, <2>2, Multiples
  <2> QED
    BY <1>2, <2>1, <2>2
<1>n. /\ last = 0 \/ (last = B /\ current = B)
      /\ g > 0 /\ current' = 0 /\ last' = g /\ taken' = taken + g
  BY <1>2
<1>m. /\ B \in Nat \ {0} /\ N \in Nat /\ taken \in Nat /\ last \in Nat /\ current \in Nat
      /\ taken <= N /\ last <= B /\ last <= taken /\ current <= last
      /\ b \in Nat /\ At = b + current /\ taken = b + last
  BY <1>1
<1>7. At' = At
  <2>1. At' = taken' - last' + current'
    BY DEF At
  <2> HIDE DEF At, B
  <2>2. taken' - last' + current' = taken
    BY <1>n, <1>m, <1>5
  <2>3. taken = At
    BY <1>n, <1>m
  <2> QED
    BY <2>1, <2>2, <2>3
<1>8. ASSUME NEW i \in Positions
      PROVE  buffer'[i] = IF i < g THEN f[taken + i + 1]
                          ELSE IF taken >= B THEN f[taken - B + i + 1] ELSE Zero
  <2>1. buffer'[i] = IF i < g THEN f[taken + i + 1] ELSE buffer[i]
    BY <1>1, <1>2
  <2>2. buffer[i] = IF taken >= B THEN f[taken - B + i + 1] ELSE Zero
    <3>1. CASE last = 0
      <4>1. b = taken /\ ~(i < last)
        BY <1>1, <3>1 DEF Positions
      <4> QED
        BY <1>4, <4>1
    <3>2. CASE last = B
      <4>1. i < last /\ taken >= B /\ taken - B = b
        BY <1>1, <3>2 DEF Positions
      <4> QED
        BY <1>4, <4>1
    <3> QED
      BY <1>2, <3>1, <3>2
  <2> QED
    BY <2>1, <2>2
<1>9. Buffered(f)'
  <2>1. file' = f /\ eof' = FALSE
    BY <1>1, <1>2 DEF Buffered
  <2>2. taken' \in 0..N /\ last' \in 0..B /\ last' <= taken' /\ current' \in 0..last'
    BY <1>n, <1>m, <1>5
  <2>3. taken' - last' = taken
    BY <1>n, <1>m, <1>5
  <2>4. last' < B => taken' = N
    BY <1>n, <1>5
  <2> QED
    BY <1>2, <1>6, <1>8, <2>1, <2>2, <2>3, <2>4 DEF Buffered, N
<1>10. last' > 0 /\ current' < B
  BY <1>n, <1>m
<1> QED
  BY <1>2, <1>7, <1>9, <1>10 DEF Calling

\* There is nothing to fill it with: the file ends with the buffer.
LEMMA NothingLeft ==
  ASSUME NEW R, AreRows(R), NEW f, NEW e, Holds(f, R, e), NEW m \in 0..Len(R),
         Calling(f, R, e, m), NothingGiven
  PROVE  FillsBuffer(f)
<1> DEFINE B == BUFF_SIZE
           N == Len(f)
           b == taken - last
<1>1. /\ B \in Nat \ {0} /\ N \in Nat /\ taken \in Nat /\ last \in Nat /\ current \in Nat
      /\ taken <= N /\ last <= B /\ current <= last
      /\ b % B = 0 /\ b \in Nat
  BY CallingParts
<1>2. file = f
  BY DEF Calling, Buffered
<1>3. last = 0 \/ last = B
  BY <1>1 DEF NothingGiven, UsedUp
<1>4. taken = N
  BY <1>1, <1>2 DEF NothingGiven, Given
<1>5. N = b \/ N = b + B
  BY <1>1, <1>3, <1>4
<1> HIDE DEF N, b, B
<1>6. N % B = 0
  BY <1>1, <1>5, Multiples
<1> QED
  BY <1>6 DEF FillsBuffer, N, B

\* The end of the row: readLine returns all of it, or, if the newline is an
\* old one, has gone beyond the end of the file.
LEMMA ReturnReads ==
  ASSUME NEW R, AreRows(R), NEW f, NEW e, Holds(f, R, e), NEW m \in 0..Len(R),
         Calling(f, R, e, m), ReturnRow
  PROVE  Returned(f, R, e, m)' \/ (Missed(f)' /\ m = Len(R))
<1> DEFINE B == BUFF_SIZE
           N == Len(f)
           b == taken - last
           s == Stop
<1>1. /\ B \in Nat \ {0} /\ N \in Nat /\ taken \in Nat /\ last \in Nat /\ current \in Nat
      /\ taken <= N /\ last <= B /\ last <= taken /\ current <= last
      /\ b % B = 0 /\ b \in Nat /\ e[m] \in Nat /\ f \in Seq(Byte) /\ Len(R) \in Nat
      /\ Buffered(f)
  BY CallingParts
<1>2. reader = "scan" /\ s < B /\ buffer[s] = Newline
  BY DEF ReturnRow, AtNewline
<1>3. /\ s \in current..last
      /\ s < last => m < Len(R) /\ b + s + 1 = e[m + 1]
      /\ s = last /\ last < B => m = Len(R) /\ current = last /\ prefix = <<>> /\ taken = N
  BY <1>2, ScanIs
<1>4. /\ row' = prefix \o Slice(current, s)
      /\ current' = s + 1 /\ prefix' = <<>> /\ reader' = "returned"
      /\ taken' = taken /\ last' = last /\ file' = f /\ eof' = FALSE /\ buffer' = buffer
  BY <1>1 DEF ReturnRow, Buffered
<1>5. last > 0
  BY <1>2 DEF Calling
<1>6. CASE s < last
  <2>1. Buffered(f)'
    <3>1. current' \in 0..last'
      BY <1>1, <1>3, <1>4, <1>6
    <3> QED
      BY <1>1, <1>4, <3>1 DEF Buffered
  <2>2. At' = e[m + 1]
    <3>1. At' = b + (s + 1)
      BY <1>4 DEF At
    <3> QED
      BY <1>1, <1>3, <1>6, <3>1
  <2>3. row' = Line(R, m + 1)
    <3> DEFINE l == R[m + 1].length
               q == row'
               x == e[m]
    <3>1. m \in Nat /\ m < Len(R)
      BY <1>1, <1>3, <1>6
    <3>2. /\ e[m + 1] = x + l + 1 /\ l \in Nat
          /\ \A k \in 1..l : f[x + k] = <<m + 1, k>>
      BY SMTT(30), <3>1, NextLine
    <3>3. b + s - x = l
      <4> DEFINE y == e[m + 1]
      <4>1. b + s + 1 = y /\ y = x + l + 1 /\ l \in Nat /\ x \in Nat /\ b \in Nat /\ s \in Nat
        BY <1>1, <1>3, <1>6, <3>2
      <4> HIDE DEF b, s, x, l, y
      <4> QED
        BY <4>1
    <3>4. /\ q \in Seq(Byte) /\ Len(q) = b + s - x
          /\ \A k \in 1 .. b + s - x : q[k] = f[x + k]
      <4>1. f \in Seq(Byte) /\ e[m] \in Nat /\ Stop \in current..last
        BY <1>1, <1>3
      <4>2. Copies(prefix \o Slice(current, Stop), f, e[m], taken - last + Stop - e[m])
        BY <4>1, RowUpTo
      <4>3. q = prefix \o Slice(current, Stop)
        BY <1>4
      <4> HIDE DEF q
      <4> QED
        BY <4>2, <4>3 DEF Copies
    <3> HIDE DEF l, q, x, b, s
    <3>5. q \in Seq(Byte) /\ Len(q) = l /\ \A k \in 1..l : q[k] = <<m + 1, k>>
      BY <3>2, <3>3, <3>4
    <3>6. q = [k \in 1..l |-> <<m + 1, k>>]
      <4>1. DOMAIN q = 1..l /\ q = [k \in DOMAIN q |-> q[k]]
        BY <3>5
      <4> QED
        BY <3>5, <4>1
    <3> QED
      BY <3>6 DEF Line, q, l
  <2> QED
    BY <1>3, <1>4, <1>6, <2>1, <2>2, <2>3 DEF Returned
<1>7. CASE ~(s < last)
  <2>1. s = last /\ last < B
    BY <1>1, <1>2, <1>3, <1>7
  <2>2. taken = N /\ current = last /\ N = b + last
    BY <1>1, <1>3, <2>1
  <2>3. last \in Positions /\ ~(last < last)
    BY <1>1, <2>1 DEF Positions
  <2>4. buffer[last] = IF b >= B THEN f[b - B + last + 1] ELSE Zero
    BY <1>1, <2>3 DEF Buffered
  <2>5. Zero # Newline
    BY DEF Zero, Newline
  <2>6. b >= B /\ f[b - B + last + 1] = Newline
    BY <1>2, <2>1, <2>4, <2>5
  <2>7. b - B + last + 1 = N - B + 1
    BY <1>1, <2>2
  <2>8. N % B # 0 /\ N > B
    <3>1. last \in 1 .. B - 1
      BY <1>1, <1>5, <2>1
    <3> HIDE DEF b, N, B
    <3>2. (b + last) % B # 0
      BY <1>1, <3>1, Multiples
    <3> QED
      BY <1>1, <1>5, <2>2, <2>6, <3>2
  <2>9. StaleNewline(f)
    BY <2>6, <2>7, <2>8 DEF StaleNewline, FillsBuffer
  <2>10. current' \in 0..B /\ current' > last
    BY <1>1, <1>2, <1>4, <2>1
  <2> QED
    BY <1>1, <1>3, <1>4, <2>1, <2>2, <2>9, <2>10 DEF Missed
<1> QED
  BY <1>6, <1>7

\* The end of the buffer, within a row.
LEMMA GoOnReads ==
  ASSUME NEW R, AreRows(R), NEW f, NEW e, Holds(f, R, e), NEW m \in 0..Len(R),
         Calling(f, R, e, m), GoOn
  PROVE  Calling(f, R, e, m)'
<1> DEFINE B == BUFF_SIZE
           N == Len(f)
           b == taken - last
           x == e[m]
<1>1. /\ B \in Nat \ {0} /\ N \in Nat /\ taken \in Nat /\ last \in Nat /\ current \in Nat
      /\ taken <= N /\ last <= B /\ last <= taken /\ current <= last
      /\ b % B = 0 /\ b \in Nat /\ x \in Nat /\ f \in Seq(Byte) /\ Len(R) \in Nat
      /\ Buffered(f) /\ At = b + current /\ x <= At
  BY CallingParts
<1>2. reader = "scan" /\ Stop = B
  BY DEF GoOn
<1>3. last = B /\ m < Len(R) /\ taken < e[m + 1]
  BY <1>2, ScanIs
<1>4. /\ prefix' = prefix \o Slice(current, B)
      /\ current' = 0 /\ last' = 0 /\ reader' = "call"
      /\ taken' = taken /\ file' = f /\ eof' = FALSE /\ buffer' = buffer
  BY <1>1 DEF GoOn, Buffered
<1>5. taken = b + B
  BY <1>1, <1>3
<1>6. At' = taken
  BY <1>1, <1>4 DEF At
<1>7. taken' - last' = taken
  BY <1>1, <1>4
<1>8. Buffered(f)'
  <2>1. taken % B = 0
    <3> HIDE DEF b, B
    <3> QED
      BY <1>1, <1>5, Multiples
  <2>2. /\ taken' \in 0..N /\ last' \in 0..B /\ last' <= taken' /\ current' \in 0..last'
        /\ ~(0 < last')
    BY <1>1, <1>4
  <2>3. ASSUME NEW i \in Positions
        PROVE  buffer'[i] = IF i < last' THEN f[taken + i + 1]
                            ELSE IF taken >= B THEN f[taken - B + i + 1] ELSE Zero
    <3>1. i < last /\ ~(i < last') /\ taken >= B /\ taken - B = b
      BY <1>1, <1>3, <1>4, <1>5 DEF Positions
    <3>2. buffer[i] = f[b + i + 1]
      BY <1>1, <3>1 DEF Buffered
    <3> QED
      BY <1>4, <3>1, <3>2
  <2> QED
    BY <1>4, <1>7, <2>1, <2>2, <2>3 DEF Buffered
<1>9. /\ prefix' \in Seq(Byte) /\ x <= At' /\ Len(prefix') = At' - x
      /\ \A k \in 1..Len(prefix') : prefix'[k] = f[x + k]
  <2> DEFINE q == prefix \o Slice(current, B)
  <2>1. B \in current..last
    BY <1>1, <1>3
  <2>2. /\ q \in Seq(Byte)
        /\ Len(q) = b + B - x
        /\ \A k \in 1 .. b + B - x : q[k] = f[x + k]
    <3>1. f \in Seq(Byte) /\ e[m] \in Nat
      BY <1>1
    <3>2. Copies(prefix \o Slice(current, B), f, e[m], taken - last + B - e[m])
      BY <2>1, <3>1, RowUpTo
    <3> HIDE DEF B
    <3> QED
      BY <3>2 DEF Copies
  <2>3. /\ b \in Nat /\ x \in Nat /\ B \in Nat /\ taken \in Nat /\ x <= taken
        /\ b + B = taken
    BY <1>1, <1>3, <1>5
  <2>4. prefix' = q
    BY <1>4
  <2> HIDE DEF q, b, x
  <2>5. b + B - x = taken - x
    BY ONLY <2>3
  <2>6. Len(q) = taken - x /\ \A k \in 1..Len(q) : q[k] = f[x + k]
    BY <2>2, <2>5
  <2> QED
    BY <1>6, <2>2, <2>3, <2>4, <2>6
<1> QED
  BY <1>3, <1>4, <1>6, <1>8, <1>9 DEF Calling

\* The end of the file.
LEMMA EndReads ==
  ASSUME NEW R, AreRows(R), NEW f, NEW e, Holds(f, R, e), NEW m \in 0..Len(R),
         Calling(f, R, e, m), EndOfFile
  PROVE  Ended(f, R, m)'
<1> DEFINE B == BUFF_SIZE
           N == Len(f)
           b == taken - last
           s == Stop
<1>1. /\ B \in Nat \ {0} /\ N \in Nat /\ taken \in Nat /\ last \in Nat /\ current \in Nat
      /\ taken <= N /\ last <= B /\ last <= taken /\ current <= last
      /\ b % B = 0 /\ b \in Nat /\ Buffered(f)
  BY CallingParts
<1>2. reader = "scan" /\ s < B /\ ~AtNewline
  BY DEF EndOfFile
<1>3. /\ s \in current..last
      /\ s < last => AtNewline
      /\ s = last /\ last < B => m = Len(R) /\ current = last /\ prefix = <<>> /\ taken = N
  BY <1>2, ScanIs
<1>4. /\ row' = prefix \o Slice(current, s - 1) /\ eof' = TRUE /\ reader' = "returned"
      /\ file' = f
  BY <1>1 DEF EndOfFile, Buffered
<1>5. s = last /\ last < B /\ last > 0
  BY <1>1, <1>2, <1>3 DEF Calling
<1>6. m = Len(R) /\ current = last /\ prefix = <<>> /\ taken = N /\ N = b + last
  BY <1>1, <1>3, <1>5
<1>7. row' = <<>>
  <2>1. s - 1 <= current
    BY <1>1, <1>5, <1>6
  <2>2. Slice(current, s - 1) = <<>>
    BY <2>1 DEF Slice
  <2> QED
    BY <1>4, <1>6, <2>2
<1>8. N % B # 0
  <2>1. last \in 1 .. B - 1
    BY <1>1, <1>5
  <2> HIDE DEF b, N, B
  <2> QED
    BY <1>1, <1>6, <2>1, Multiples
<1>9. ~StaleNewline(f)
  <2> SUFFICES ASSUME N > B, f[N - B + 1] = Newline
               PROVE  FALSE
    BY DEF StaleNewline
  <2>1. b > 0
    BY <1>1, <1>5, <1>6
  <2>2. b >= B
    <3> HIDE DEF b, B
    <3> QED
      BY <1>1, <2>1, Multiples
  <2>3. last \in Positions /\ ~(last < last) /\ b - B + last + 1 = N - B + 1
    BY <1>1, <1>5, <1>6 DEF Positions
  <2>4. buffer[last] = f[b - B + last + 1]
    BY <1>1, <2>2, <2>3 DEF Buffered
  <2> QED
    BY <1>2, <1>5, <2>3, <2>4 DEF AtNewline
<1> QED
  BY <1>4, <1>6, <1>7, <1>8, <1>9 DEF Ended, FillsBuffer

\* Once it is missed, readLine goes on with old rows until it is called when
\* the buffer is used up.
LEMMA MissedReads ==
  ASSUME NEW f, f \in Seq(Byte), Missed(f), readLine
  PROVE  Missed(f)' \/ (reader' = "failed" /\ CannotEnd(f))
<1> DEFINE B == BUFF_SIZE
<1>1. /\ file = f /\ eof = FALSE /\ taken = Len(f) /\ StaleNewline(f)
      /\ last \in 0..B /\ current \in 0..B /\ B \in Nat \ {0} /\ Len(f) \in Nat
      /\ (reader = "call" /\ last = 0) \/ current > last
      /\ reader = "scan" => current < B
  BY BufferAssumption, LenProperties DEF Missed
<1>2. Given = 0
  BY <1>1 DEF Given
<1>3. Stop \in current..B /\ (Stop = B \/ Stop = last \/ buffer[Stop] = Newline)
  BY <1>1, StopIs DEF Stops
<1>4. CASE KeepBuffer
  <2>1. current # B /\ last # 0 /\ reader = "call"
    BY <1>4 DEF KeepBuffer, UsedUp
  <2>2. current < B /\ current > last
    BY <1>1, <2>1
  <2> QED
    BY <1>1, <1>4, <2>2 DEF KeepBuffer, Missed
<1>5. CASE Refill
  BY <1>2, <1>5 DEF Refill
<1>6. CASE NothingGiven
  BY <1>1, <1>6 DEF NothingGiven, CannotEnd
<1>7. CASE ReturnRow
  <2>1. reader = "scan" /\ Stop < B
    BY <1>7 DEF ReturnRow, AtNewline
  <2>2. Stop + 1 \in 0..B /\ Stop + 1 > last
    BY <1>1, <1>3, <2>1
  <2>3. /\ current' = Stop + 1 /\ reader' = "returned"
        /\ taken' = taken /\ last' = last /\ file' = file /\ eof' = eof
    BY <1>7 DEF ReturnRow
  <2> QED
    BY <1>1, <2>2, <2>3 DEF Missed
<1>8. CASE GoOn
  BY <1>1, <1>8 DEF GoOn, Missed
<1>9. CASE EndOfFile
  <2>1. reader = "scan" /\ Stop < B /\ ~(buffer[Stop] = Newline)
    BY <1>9 DEF EndOfFile, AtNewline
  <2> QED
    BY <1>1, <1>3, <2>1
<1> QED
  BY <1>4, <1>5, <1>6, <1>7, <1>8, <1>9 DEF readLine

\* A call of readLine, step by step.
LEMMA ReadLineKeeps ==
  ASSUME NEW R, AreRows(R), NEW f, NEW e, Holds(f, R, e), NEW m \in 0..Len(R),
         Reads(f, R, e, m), readLine
  PROVE  Reads(f, R, e, m)' \/ (reader' = "failed" /\ CannotEnd(f))
<1>1. f \in Seq(Byte)
  BY DEF Holds, HoldsFirst
<1>2. reader \in {"call", "scan"}
  BY DEF readLine, KeepBuffer, Refill, NothingGiven, ReturnRow, GoOn, EndOfFile
<1>3. ~Returned(f, R, e, m) /\ ~Ended(f, R, m)
  BY <1>2 DEF Returned, Ended
<1>4. CASE Missed(f) /\ m = Len(R)
  <2>1. Missed(f)' \/ (reader' = "failed" /\ CannotEnd(f))
    BY <1>1, <1>4, MissedReads
  <2> QED
    BY <1>4, <2>1 DEF Reads
<1>5. CASE Calling(f, R, e, m)
  <2>1. CASE KeepBuffer
    BY <1>5, <2>1, KeepReads DEF Reads
  <2>2. CASE Refill
    BY <1>5, <2>2, RefillReads DEF Reads
  <2>3. CASE NothingGiven
    <3>1. FillsBuffer(f)
      BY <1>5, <2>3, NothingLeft
    <3> QED
      BY <2>3, <3>1 DEF NothingGiven, CannotEnd
  <2>4. CASE ReturnRow
    <3>1. Returned(f, R, e, m)' \/ (Missed(f)' /\ m = Len(R))
      BY <1>5, <2>4, ReturnReads
    <3> QED
      BY <3>1 DEF Reads
  <2>5. CASE GoOn
    BY <1>5, <2>5, GoOnReads DEF Reads
  <2>6. CASE EndOfFile
    BY <1>5, <2>6, EndReads DEF Reads
  <2> QED
    BY <2>1, <2>2, <2>3, <2>4, <2>5, <2>6 DEF readLine
<1> QED
  BY <1>3, <1>4, <1>5 DEF Reads

-----------------------------------------------------------------------------
(* The steps of the writers. *)

\* A node that is passed over.
LEMMA SkipKeeps ==
  ASSUME WriterInv, NEW x, Skip(x)
  PROVE  PassNode
<1>1. /\ phase = "nodes" /\ next \in Ids /\ Skipped(next)
      /\ input' = input /\ phase' = phase /\ next' = next + 1
      /\ rowsOut' = rowsOut /\ edgesOut' = edgesOut /\ info' = info
  BY DEF Skip, Working
<1>2. NewEdges = {}
  BY <1>1 DEF NewEdges
<1>3. {Seen(e) : e \in NewEdges} = {}
  BY <1>2
<1> QED
  BY <1>1, <1>3 DEF PassNode, WriterInv

\* A node written to the dot file.
LEMMA DotKeeps ==
  ASSUME WriterInv, WriteDot
  PROVE  PassNode
<1>1. /\ phase = "nodes" /\ next \in Ids /\ input.format = "dot" /\ ~Skipped(next)
      /\ input' = input /\ phase' = phase /\ next' = next + 1 /\ info' = info
      /\ edgesOut' = edgesOut \o AcceptedOf(OutEdges(next))
      /\ rowsOut' = IF Selected(next) THEN Append(rowsOut, next) ELSE rowsOut
  BY DEF WriteDot, Working
<1> DEFINE es == AcceptedOf(OutEdges(next))
<1>2. /\ IsInput(input) /\ rowsOut \in Seq(NodeRowSet) /\ edgesOut \in Seq(EdgeRowSet)
      /\ NodeRowSet = Ids /\ EdgeRowSet = ToSet(input.edges)
  BY <1>1 DEF WriterInv, NodeRowSet, EdgeRowSet
<1>3. es \in Seq(Edges(Ids)) /\ ToSet(es) = {e \in ToSet(OutEdges(next)) : Accepted(e)}
  BY <1>2, WrittenAre
<1>4. ToSet(es) = NewEdges
  BY <1>1, <1>2, <1>3, OutEdgesAre DEF NewEdges
<1>5. es \in Seq(EdgeRowSet)
  <2>1. ToSet(es) \subseteq EdgeRowSet
    BY <1>2, <1>4 DEF NewEdges
  <2> HIDE DEF es
  <2>2. \A j \in 1..Len(es) : es[j] \in EdgeRowSet
    BY <1>3, <2>1, LenProperties DEF ToSet
  <2> QED
    BY <1>3, <2>2, SeqOfElements
<1> HIDE DEF es
<1>6. edgesOut' \in Seq(EdgeRowSet) /\ ToSet(edgesOut') = ToSet(edgesOut) \cup NewEdges
  <2>1. /\ edgesOut \o es \in Seq(EdgeRowSet)
        /\ ToSet(edgesOut \o es) = ToSet(edgesOut) \cup ToSet(es)
    BY <1>2, <1>5, JoinedSet
  <2> QED
    BY <1>1, <1>4, <2>1 DEF es
<1>7. /\ rowsOut' \in Seq(NodeRowSet) /\ ToSet(rowsOut) \subseteq ToSet(rowsOut')
      /\ Selected(next) => next \in ToSet(rowsOut')
  <2>1. CASE Selected(next)
    <3>1. /\ Append(rowsOut, next) \in Seq(NodeRowSet)
          /\ ToSet(Append(rowsOut, next)) = ToSet(rowsOut) \cup {next}
      BY <1>1, <1>2, AppendedSet
    <3> QED
      BY <1>1, <2>1, <3>1
  <2>2. CASE ~Selected(next)
    BY <1>1, <1>2, <2>2
  <2> QED
    BY <2>1, <2>2
<1>8. \A r : IdOf(r) = r /\ EdgeOf(r) = r /\ Seen(r) = r
  BY <1>1 DEF IdOf, EdgeOf, Seen
<1>9. {EdgeOf(r) : r \in ToSet(edgesOut')}
        = {EdgeOf(r) : r \in ToSet(edgesOut)} \cup {Seen(e) : e \in NewEdges}
  BY <1>6, <1>8
<1> QED
  BY <1>1, <1>6, <1>7, <1>8, <1>9 DEF PassNode

\* A node written to the JSON file.
LEMMA JsonKeeps ==
  ASSUME WriterInv, WriteJson
  PROVE  PassNode
<1>1. /\ phase = "nodes" /\ next \in Ids /\ input.format = "json" /\ ~Skipped(next)
      /\ input' = input /\ phase' = phase /\ next' = next + 1 /\ info' = info
      /\ edgesOut' = edgesOut
      /\ rowsOut' = IF Selected(next) THEN Append(rowsOut, next) ELSE rowsOut
  BY DEF WriteJson, Working
<1>2. rowsOut \in Seq(NodeRowSet) /\ edgesOut \in Seq(EdgeRowSet) /\ NodeRowSet = Ids
  BY <1>1 DEF WriterInv, NodeRowSet
<1>3. NewEdges = {}
  BY <1>1 DEF NewEdges
<1>4. {Seen(e) : e \in NewEdges} = {}
  BY <1>3
<1>5. /\ rowsOut' \in Seq(NodeRowSet) /\ ToSet(rowsOut) \subseteq ToSet(rowsOut')
      /\ Selected(next) => next \in ToSet(rowsOut')
  <2>1. CASE Selected(next)
    <3>1. /\ Append(rowsOut, next) \in Seq(NodeRowSet)
          /\ ToSet(Append(rowsOut, next)) = ToSet(rowsOut) \cup {next}
      BY <1>1, <1>2, AppendedSet
    <3> QED
      BY <1>1, <2>1, <3>1
  <2>2. CASE ~Selected(next)
    BY <1>1, <1>2, <2>2
  <2> QED
    BY <2>1, <2>2
<1>6. \A r : IdOf(r) = r
  BY <1>1 DEF IdOf
<1> QED
  BY <1>1, <1>2, <1>4, <1>5, <1>6 DEF PassNode

\* The edges of a node written to the JSON file.
LEMMA JsonEdgesKeep ==
  ASSUME WriterInv, WriteJsonEdges
  PROVE  WriterInv'
<1>1. /\ phase = "edges" /\ next \in Ids /\ input.format = "json"
      /\ input' = input /\ phase' = phase /\ next' = next + 1 /\ rowsOut' = rowsOut
      /\ edgesOut' = edgesOut \o AcceptedOf(OutEdges(next))
  BY DEF WriteJsonEdges, WriterInv
<1> DEFINE es == AcceptedOf(OutEdges(next))
           E == {e \in ToSet(input.edges) : Accepted(e) /\ e.src = next}
<1>2. /\ IsInput(input) /\ next \in Nat
      /\ rowsOut \in Seq(NodeRowSet) /\ edgesOut \in Seq(EdgeRowSet)
      /\ EdgeRowSet = ToSet(input.edges)
  BY <1>1 DEF WriterInv, EdgeRowSet
<1>3. es \in Seq(Edges(Ids)) /\ ToSet(es) = {e \in ToSet(OutEdges(next)) : Accepted(e)}
  BY <1>2, WrittenAre
<1>4. ToSet(es) = E
  BY <1>2, <1>3, OutEdgesAre
<1>5. es \in Seq(EdgeRowSet)
  <2>1. ToSet(es) \subseteq EdgeRowSet
    BY <1>2, <1>4
  <2> HIDE DEF es
  <2>2. \A j \in 1..Len(es) : es[j] \in EdgeRowSet
    BY <1>3, <2>1, LenProperties DEF ToSet
  <2> QED
    BY <1>3, <2>2, SeqOfElements
<1> HIDE DEF es, E
<1>6. edgesOut' \in Seq(EdgeRowSet) /\ ToSet(edgesOut') = ToSet(edgesOut) \cup E
  <2>1. /\ edgesOut \o es \in Seq(EdgeRowSet)
        /\ ToSet(edgesOut \o es) = ToSet(edgesOut) \cup ToSet(es)
    BY <1>2, <1>5, JoinedSet
  <2> QED
    BY <1>1, <1>4, <2>1 DEF es
<1>7. /\ IsInput(input)' <=> IsInput(input)
      /\ NodeRowSet' = NodeRowSet /\ EdgeRowSet' = EdgeRowSet /\ Ids' = Ids
      /\ \A i : (Skipped(i)' <=> Skipped(i)) /\ (Selected(i)' <=> Selected(i))
      /\ \A e : (Accepted(e)' <=> Accepted(e)) /\ Seen(e)' = Seen(e)
      /\ \A r : IdOf(r)' = IdOf(r) /\ EdgeOf(r)' = EdgeOf(r)
  BY <1>1, InputKept
<1>8. NodesWritten'
  <2>1. \A i \in Ids : Passed(i)
    BY <1>1 DEF Passed
  <2>2. \A i \in Ids : ~Skipped(i) /\ Selected(i) => \E r \in ToSet(rowsOut) : IdOf(r) = i
    BY <2>1 DEF WriterInv, NodesWritten
  <2> QED
    BY <1>1, <1>7, <2>2 DEF NodesWritten
<1>9. EdgesWritten'
  <2>1. \A e \in ToSet(input.edges) : e.src \in Nat
    BY <1>2, InputParts DEF Edges
  <2>2. \A i \in Nat : Listed(i)' <=> Listed(i) \/ i = next
    BY <1>1, <1>2 DEF Listed
  <2>3. EdgesDue' = EdgesDue \cup E
    BY <1>1, <1>7, <2>1, <2>2 DEF EdgesDue, E
  <2>4. \A r : EdgeOf(r) = r /\ Seen(r) = r
    BY <1>1 DEF EdgeOf, Seen
  <2>5. ToSet(edgesOut) = EdgesDue
    <3>1. {EdgeOf(r) : r \in ToSet(edgesOut)} = {Seen(e) : e \in EdgesDue}
      BY DEF WriterInv, EdgesWritten
    <3> DEFINE D == EdgesDue
               T == ToSet(edgesOut)
    <3> HIDE DEF D, T
    <3>2. {EdgeOf(r) : r \in T} = T
      BY ONLY <2>4
    <3>3. {Seen(e) : e \in D} = D
      BY ONLY <2>4
    <3> QED
      BY <3>1, <3>2, <3>3 DEF D, T
  <2>6. ToSet(edgesOut') = EdgesDue'
    BY <1>6, <2>3, <2>5
  <2>7. {EdgeOf(r)' : r \in ToSet(edgesOut')} = {Seen(e)' : e \in EdgesDue'}
    BY <1>7, <2>4, <2>6
  <2> QED
    BY <2>7 DEF EdgesWritten
<1> QED
  BY <1>1, <1>2, <1>6, <1>7, <1>8, <1>9 DEF WriterInv

\* A step that writes nothing and leaves no node or edge behind.
PhaseStep ==
  /\ input' = input /\ rowsOut' = rowsOut /\ edgesOut' = edgesOut /\ info' = info
  /\ next' \in Nat /\ (phase' = "edges" => input.format = "json")
  /\ \A i \in Ids : (Passed(i)' <=> Passed(i)) /\ (Listed(i)' <=> Listed(i))

\* A step that writes nothing keeps the writers' invariant.
LEMMA PhaseKeeps ==
  ASSUME WriterInv, PhaseStep
  PROVE  WriterInv'
<1>1. /\ input' = input /\ rowsOut' = rowsOut /\ edgesOut' = edgesOut /\ info' = info
      /\ next' \in Nat /\ (phase' = "edges" => input.format = "json")
      /\ \A i \in Ids : (Passed(i)' <=> Passed(i)) /\ (Listed(i)' <=> Listed(i))
  BY DEF PhaseStep
<1>2. /\ IsInput(input)' <=> IsInput(input)
      /\ NodeRowSet' = NodeRowSet /\ EdgeRowSet' = EdgeRowSet /\ Ids' = Ids
      /\ \A i : (Skipped(i)' <=> Skipped(i)) /\ (Selected(i)' <=> Selected(i))
      /\ \A e : (Accepted(e)' <=> Accepted(e)) /\ Seen(e)' = Seen(e)
      /\ \A r : IdOf(r)' = IdOf(r) /\ EdgeOf(r)' = EdgeOf(r)
  BY <1>1, InputKept
<1>3. NodesWritten'
  BY <1>1, <1>2 DEF WriterInv, NodesWritten
<1>4. EdgesWritten'
  <2>1. \A e \in ToSet(input.edges) : e.src \in Ids
    BY InputParts DEF WriterInv, Edges
  <2>2. EdgesDue' = EdgesDue
    BY <1>1, <1>2, <2>1 DEF EdgesDue
  <2> QED
    BY <1>1, <1>2, <2>2 DEF WriterInv, EdgesWritten
<1> QED
  BY <1>1, <1>2, <1>3, <1>4 DEF WriterInv

\* The ends of the loops of the writers, and all that the reader does.
LEMMA EndsKeep ==
  ASSUME WriterInv, EndNodes \/ EndEdges
  PROVE  PhaseStep
<1>1. /\ IsInput(input) /\ next \in Nat /\ Ids = 0 .. Cardinality(Ids) - 1
      /\ Cardinality(Ids) \in Nat
  BY InputParts DEF WriterInv
<1>2. next \notin Ids
  BY DEF EndNodes, EndEdges
<1>3. \A i \in Ids : i < next /\ i \in Nat /\ ~(i < 0)
  BY <1>1, <1>2
<1>4. CASE EndNodes
  <2>1. /\ phase = "nodes" /\ input' = input /\ rowsOut' = rowsOut /\ edgesOut' = edgesOut
        /\ info' = info
        /\ IF input.format = "json" THEN phase' = "edges" /\ next' = 0
                                    ELSE phase' = "written" /\ next' = next
    BY <1>4 DEF EndNodes
  <2>2. \A i \in Ids : (Passed(i)' <=> Passed(i)) /\ (Listed(i)' <=> Listed(i))
    BY <1>3, <2>1 DEF Passed, Listed
  <2> QED
    BY <1>1, <2>1, <2>2 DEF PhaseStep
<1>5. CASE EndEdges
  <2>1. /\ phase = "edges" /\ input' = input /\ rowsOut' = rowsOut /\ edgesOut' = edgesOut
        /\ info' = info /\ phase' = "written" /\ next' = next
    BY <1>5 DEF EndEdges
  <2>2. \A i \in Ids : (Passed(i)' <=> Passed(i)) /\ (Listed(i)' <=> Listed(i))
    BY <1>3, <2>1 DEF Passed, Listed
  <2> QED
    BY <1>1, <2>1, <2>2 DEF PhaseStep
<1> QED
  BY <1>4, <1>5

\* The reader leaves to the writer what is the writer's.
ReaderStep ==
  /\ input' = input /\ rowsOut' = rowsOut /\ edgesOut' = edgesOut /\ info' = info
  /\ next' = next /\ slots' = slots
  /\ phase' = phase \/ {phase, phase'} \cap {"nodes", "edges"} = {}

\* To read is such a step.
LEMMA ReaderKeeps ==
  ASSUME WriterInv, ReaderStep
  PROVE  PhaseStep
<1>1. \A i \in Ids : (Passed(i)' <=> Passed(i)) /\ (Listed(i)' <=> Listed(i))
  BY DEF ReaderStep, Passed, Listed
<1> QED
  BY <1>1 DEF ReaderStep, PhaseStep, WriterInv

\* The steps of readGraph are the reader's.
LEMMA ReadingSteps ==
  ASSUME readGraph \/ UNCHANGED fileVars
  PROVE  ReaderStep
<1>1. CASE ReadNodes
  BY <1>1 DEF ReadNodes, ReaderStep
<1>2. CASE ReadLine \/ EmptyRow \/ InsertNode \/ InsertEdge \/ RowRefused \/ UNCHANGED fileVars
  <2>1. UNCHANGED writerVars
    BY <1>2 DEF ReadLine, EmptyRow, InsertNode, InsertEdge, RowRefused, fileVars
  <2> QED
    BY SMTT(30), <2>1 DEF writerVars, ReaderStep
<1>3. CASE ReadEdges
  BY <1>3 DEF ReadEdges, ReaderStep
<1>4. CASE EndRead
  BY <1>4 DEF EndRead, ReaderStep
<1> QED
  BY <1>1, <1>2, <1>3, <1>4 DEF readGraph

\* Every step keeps the writers' invariant.
LEMMA WriterStepInv ==
  ASSUME WriterInv, [FNext]_fileVars
  PROVE  WriterInv'
<1>1. CASE Write
  <2>1. CASE \E f \in {"csv", "json", "dot"} : Skip(f)
    BY <2>1, SkipKeeps, PassNodeKeeps
  <2>2. CASE WriteRows
    BY <2>2, RowsKeep, PassNodeKeeps
  <2>3. CASE WriteDot
    BY <2>3, DotKeeps, PassNodeKeeps
  <2>4. CASE WriteJson
    BY <2>4, JsonKeeps, PassNodeKeeps
  <2>5. CASE WriteJsonEdges
    BY <2>5, JsonEdgesKeep
  <2>6. CASE EndNodes \/ EndEdges
    BY <2>6, EndsKeep, PhaseKeeps
  <2> QED
    BY <1>1, <2>1, <2>2, <2>3, <2>4, <2>5, <2>6 DEF Write, WriterNext
<1>2. CASE readGraph \/ UNCHANGED fileVars
  BY <1>2, ReadingSteps, ReaderKeeps, PhaseKeeps
<1> QED
  BY <1>1, <1>2 DEF FNext

\* The identifiers written, one per row.
LEMMA WrittenIdsAre ==
  ASSUME WriterInv
  PROVE  /\ DOMAIN WrittenIds = 1..Len(rowsOut) /\ DOMAIN rowsOut = 1..Len(rowsOut)
         /\ Len(rowsOut) \in Nat
         /\ \A k \in 1..Len(rowsOut) : /\ rowsOut[k] \in NodeRowSet
                                       /\ WrittenIds[k] = IdOf(rowsOut[k])
         /\ ToSet(WrittenIds) = {IdOf(r) : r \in ToSet(rowsOut)}
<1>1. rowsOut \in Seq(NodeRowSet)
  BY DEF WriterInv
<1>2. /\ DOMAIN rowsOut = 1..Len(rowsOut) /\ Len(rowsOut) \in Nat
      /\ \A k \in 1..Len(rowsOut) : rowsOut[k] \in NodeRowSet
  BY <1>1, LenProperties, ElementOfSeq
<1>3. \A k \in 1..Len(rowsOut) : WrittenIds[k] = IdOf(rowsOut[k])
  BY <1>2 DEF WrittenIds, IdOf
<1>4. DOMAIN WrittenIds = 1..Len(rowsOut)
  BY <1>2 DEF WrittenIds
<1>5. ToSet(WrittenIds) = {IdOf(r) : r \in ToSet(rowsOut)}
  <2>1. ToSet(WrittenIds) = {WrittenIds[k] : k \in 1..Len(rowsOut)}
    BY <1>4 DEF ToSet
  <2>2. {IdOf(r) : r \in ToSet(rowsOut)} = {IdOf(rowsOut[k]) : k \in 1..Len(rowsOut)}
    BY <1>2 DEF ToSet
  <2>3. {WrittenIds[k] : k \in 1..Len(rowsOut)} = {IdOf(rowsOut[k]) : k \in 1..Len(rowsOut)}
    BY ONLY <1>3
  <2> QED
    BY <2>1, <2>2, <2>3
<1> QED
  BY <1>2, <1>3, <1>4, <1>5

\* An edge written is one of the graph's, of a part to print.
LEMMA EdgeWrittenIs ==
  ASSUME WriterInv, NEW j \in DOMAIN edgesOut
  PROVE  \E e \in EdgesDue : /\ EdgeOf(edgesOut[j]) = Seen(e)
                             /\ EndsOf(edgesOut[j]) = {e.src, e.dest}
<1>1. edgesOut[j] \in ToSet(edgesOut)
  BY DEF ToSet
<1>2. {EdgeOf(r) : r \in ToSet(edgesOut)} = {Seen(e) : e \in EdgesDue}
  BY DEF WriterInv, EdgesWritten
<1> PICK e \in EdgesDue : EdgeOf(edgesOut[j]) = Seen(e)
  BY <1>1, <1>2
<1>3. EndsOf(edgesOut[j]) = {e.src, e.dest}
  <2>1. EndsOf(edgesOut[j]) = {EdgeOf(edgesOut[j]).src, EdgeOf(edgesOut[j]).dest}
    BY DEF EndsOf, EdgeOf
  <2>2. Labelled(e).src = e.src /\ Labelled(e).dest = e.dest
    <3>1. e \in Edges(Ids)
      BY InputParts DEF EdgesDue, WriterInv
    <3> QED
      BY <3>1 DEF Labelled, Edges
  <2>3. Seen(e).src = e.src /\ Seen(e).dest = e.dest
    BY <2>2 DEF Seen, EdgeRow
  <2> QED
    BY <2>1, <2>3
<1> QED
  BY <1>3

\* What selects the edges selects their ends.
LEMMA JoinedNodes ==
  ASSUME WriterInv
  PROVE  EdgesJoinWrittenNodes
<1> SUFFICES ASSUME phase \notin {"nodes", "edges"}, input.loop = {},
                    NEW j \in DOMAIN edgesOut
             PROVE  EndsOf(edgesOut[j]) \subseteq ToSet(WrittenIds)
  BY DEF EdgesJoinWrittenNodes
<1> PICK e \in EdgesDue : EndsOf(edgesOut[j]) = {e.src, e.dest}
  BY EdgeWrittenIs
<1>1. e \in ToSet(input.edges) /\ Accepted(e) /\ e.src \in Ids /\ e.dest \in Ids
  BY InputParts DEF EdgesDue, WriterInv, Edges
<1>2. \A i \in {e.src, e.dest} : Selected(i)
  <2> SUFFICES ASSUME NEW i \in {e.src, e.dest}, ~input.all
               PROVE  hasEdgesOf(i, e.type) /\ e.type \in input.parts
    BY DEF Selected
  <2>1. \E k \in DOMAIN input.edges : input.edges[k] = e
    BY <1>1 DEF ToSet
  <2> QED
    BY <1>1, <2>1 DEF hasEdgesOf, Accepted
<1>3. \A i \in {e.src, e.dest} : Passed(i) /\ ~Skipped(i) /\ i \in Ids
  BY <1>1 DEF Passed, Skipped
<1>4. \A i \in {e.src, e.dest} : \E r \in ToSet(rowsOut) : IdOf(r) = i
  BY <1>2, <1>3 DEF WriterInv, NodesWritten
<1> QED
  BY <1>4, WrittenIdsAre

-----------------------------------------------------------------------------
(* The JSON graph. *)

\* The objects of the array "nodes".
SlotSet == [node : Nat \cup {"null"}, outEdges : Seq(Nat), inEdges : Seq(Nat)]

\* The numbers of those of the first n edges of E that leave, and that come to,
\* the node with position p.
Leaving(E, p, n) == {k - 1 : k \in {k \in 1..n : E[k].src = p - 1}}
Coming(E, p, n)  == {k - 1 : k \in {k \in 1..n : E[k].dest = p - 1}}

\* The objects of s list the first n edges of E at the positions of their
\* ends, and the first objects are those of the nodes R.
ListsFirst(s, E, R, n) ==
  /\ s \in Seq(SlotSet) /\ n \in 0..Len(E)
  /\ Len(R) <= Len(s) /\ \A p \in 1..Len(R) : s[p].node = R[p]
  /\ \A k \in 1..n : E[k].src + 1 <= Len(s) /\ E[k].dest + 1 <= Len(s)
  /\ \A p \in 1..Len(s) : /\ ToSet(s[p].outEdges) = Leaving(E, p, n)
                          /\ ToSet(s[p].inEdges)  = Coming(E, p, n)

\* The objects list the edges that are written.
SlotsInv == input.format = "json" => ListsFirst(slots, edgesOut, rowsOut, Len(edgesOut))

\* A node's object.
SlotOf(s, p) == IF p <= Len(s) THEN s[p] ELSE Null

\* The object of a position that no node has lists no edges.
LEMMA NullIs == /\ Null \in SlotSet /\ Null.outEdges = <<>> /\ Null.inEdges = <<>>
                /\ ToSet(Null.outEdges) = {} /\ ToSet(Null.inEdges) = {}
BY DEF Null, Slot, SlotSet, ToSet

\* Object o with the number k of an edge that leaves its node, if a, and comes
\* to it, if b.
WithEdge(o, k, a, b) == [o EXCEPT !.outEdges = IF a THEN Append(@, k) ELSE @,
                                  !.inEdges  = IF b THEN Append(@, k) ELSE @]
\* q is such an object.
Added(q, o, k, a, b) ==
  /\ q \in SlotSet /\ q.node = o.node
  /\ ToSet(q.outEdges) = ToSet(o.outEdges) \cup (IF a THEN {k} ELSE {})
  /\ ToSet(q.inEdges)  = ToSet(o.inEdges) \cup (IF b THEN {k} ELSE {})

\* An object that is given an edge lists that one more.
LEMMA SlotWithEdge ==
  ASSUME NEW o \in SlotSet, NEW k \in Nat, NEW a \in BOOLEAN, NEW b \in BOOLEAN
  PROVE  Added(WithEdge(o, k, a, b), o, k, a, b)
<1> DEFINE x == o.outEdges
           y == o.inEdges
<1>1. x \in Seq(Nat) /\ y \in Seq(Nat) /\ o.node \in Nat \cup {"null"}
  BY DEF SlotSet
<1>2. /\ Append(x, k) \in Seq(Nat) /\ ToSet(Append(x, k)) = ToSet(x) \cup {k}
      /\ Append(y, k) \in Seq(Nat) /\ ToSet(Append(y, k)) = ToSet(y) \cup {k}
  <2> HIDE DEF x, y
  <2>1. Append(x, k) \in Seq(Nat) /\ ToSet(Append(x, k)) = ToSet(x) \cup {k}
    BY ONLY <1>1, k \in Nat, AppendedSet
  <2>2. Append(y, k) \in Seq(Nat) /\ ToSet(Append(y, k)) = ToSet(y) \cup {k}
    BY ONLY <1>1, k \in Nat, AppendedSet
  <2> QED
    BY ONLY <2>1, <2>2
<1> DEFINE u == IF a THEN Append(x, k) ELSE x
           v == IF b THEN Append(y, k) ELSE y
<1>3. /\ u \in Seq(Nat) /\ ToSet(u) = ToSet(x) \cup (IF a THEN {k} ELSE {})
      /\ v \in Seq(Nat) /\ ToSet(v) = ToSet(y) \cup (IF b THEN {k} ELSE {})
  BY <1>1, <1>2
<1>4. WithEdge(o, k, a, b) = [o EXCEPT !.outEdges = u, !.inEdges = v]
  BY DEF WithEdge
<1> HIDE DEF u, v
<1>5. [o EXCEPT !.outEdges = u, !.inEdges = v]
        = [node |-> o.node, outEdges |-> u, inEdges |-> v]
  <2> DEFINE w == [o EXCEPT !.outEdges = u]
             z == o.node
  <2>1. o = [node |-> z, outEdges |-> x, inEdges |-> y]
    BY DEF SlotSet
  <2> HIDE DEF x, y, z
  <2>2. w = [node |-> z, outEdges |-> u, inEdges |-> y]
    BY ONLY <2>1
  <2> HIDE DEF w
  <2>3. [w EXCEPT !.inEdges = v] = [node |-> z, outEdges |-> u, inEdges |-> v]
    BY ONLY <2>2
  <2> QED
    BY <2>3 DEF w, z
<1>6. /\ WithEdge(o, k, a, b) \in SlotSet /\ WithEdge(o, k, a, b).node = o.node
      /\ WithEdge(o, k, a, b).outEdges = u /\ WithEdge(o, k, a, b).inEdges = v
  BY <1>1, <1>3, <1>4, <1>5 DEF SlotSet
<1> QED
  BY <1>3, <1>6 DEF Added

\* The greatest of three numbers.
LEMMA GreatestOfThree ==
  ASSUME NEW a \in Nat, NEW b \in Nat, NEW c \in Nat
  PROVE  /\ Max({a, b, c}) \in {a, b, c}
         /\ a <= Max({a, b, c}) /\ b <= Max({a, b, c}) /\ c <= Max({a, b, c})
<1> DEFINE S == {a, b, c}
<1>1. \E x \in S : \A y \in S : x >= y
  OBVIOUS
<1> QED
  BY <1>1 DEF Max

\* q is s with edge e, its number k in the objects of its ends.
Inserted(q, s, e, k) ==
  /\ q \in Seq(SlotSet) /\ Len(s) <= Len(q)
  /\ e.src + 1 <= Len(q) /\ e.dest + 1 <= Len(q)
  /\ \A p \in 1..Len(q) : Added(q[p], SlotOf(s, p), k, p = e.src + 1, p = e.dest + 1)

\* insertEdge gives the edge to the objects of its ends and changes no other.
LEMMA InsertIs ==
  ASSUME NEW s \in Seq(SlotSet), NEW e, e.src \in Nat, e.dest \in Nat, NEW k \in Nat
  PROVE  Inserted(insertEdge(s, e, k), s, e, k)
<1> DEFINE l == Len(s)
           a == e.src + 1
           b == e.dest + 1
           m == Max({l, a, b})
           q == insertEdge(s, e, k)
<1>1. l \in Nat /\ a \in Nat /\ b \in Nat
  BY LenProperties
<1>2. q = [p \in 1..m |-> WithEdge(SlotOf(s, p), k, p = a, p = b)]
  BY DEF insertEdge, SlotOf, WithEdge
<1>3. m \in Nat /\ l <= m /\ a <= m /\ b <= m
  <2> HIDE DEF l, a, b
  <2>1. m \in {l, a, b} /\ l <= m /\ a <= m /\ b <= m
    BY <1>1, GreatestOfThree
  <2> QED
    BY <1>1, <2>1
<1> HIDE DEF m, q
<1>4. \A p \in 1..m : SlotOf(s, p) \in SlotSet
  BY <1>1, NullIs, ElementOfSeq DEF SlotOf
<1>5. \A p \in 1..m : Added(q[p], SlotOf(s, p), k, p = a, p = b)
  <2> TAKE p \in 1..m
  <2>1. SlotOf(s, p) \in SlotSet
    BY <1>4
  <2> DEFINE o == SlotOf(s, p)
             c == p = a
             d == p = b
  <2>2. o \in SlotSet /\ c \in BOOLEAN /\ d \in BOOLEAN
    BY <2>1
  <2>3. q[p] = WithEdge(o, k, c, d)
    BY <1>2
  <2> HIDE DEF o, c, d
  <2>4. Added(WithEdge(o, k, c, d), o, k, c, d)
    BY ONLY <2>2, SlotWithEdge
  <2>5. Added(q[p], o, k, c, d)
    BY <2>3, <2>4
  <2> QED
    BY <2>5 DEF o, c, d
<1> HIDE DEF l, a, b
<1>6. q \in Seq(SlotSet) /\ Len(q) = m
  <2>1. \A p \in 1..m : q[p] \in SlotSet
    BY <1>5 DEF Added
  <2>2. q \in [1..m -> SlotSet]
    BY <1>2, <2>1
  <2> QED
    BY <1>3, <2>2
<1>7. l <= Len(q) /\ a <= Len(q) /\ b <= Len(q)
  BY <1>3, <1>6
<1>8. \A p \in 1..Len(q) : Added(q[p], SlotOf(s, p), k, p = a, p = b)
  BY <1>5, <1>6
<1> QED
  BY <1>6, <1>7, <1>8 DEF Inserted, q, l, a, b

\* The first n + 1 edges.
OneMoreEdge(E, p, n) ==
  /\ Leaving(E, p, n + 1) = Leaving(E, p, n) \cup (IF p = E[n + 1].src + 1 THEN {n} ELSE {})
  /\ Coming(E, p, n + 1) = Coming(E, p, n) \cup (IF p = E[n + 1].dest + 1 THEN {n} ELSE {})

\* One more edge is one more number to list, at its ends.
LEMMA OneMoreListed ==
  ASSUME NEW E, NEW n \in Nat, NEW p \in Nat, E[n + 1].src \in Nat, E[n + 1].dest \in Nat
  PROVE  OneMoreEdge(E, p, n)
<1> DEFINE h == n + 1
           a == E[h].src
           b == E[h].dest
<1>1. (a = p - 1 <=> p = a + 1) /\ (b = p - 1 <=> p = b + 1)
  OBVIOUS
<1>2. \A k : k \in 1..h <=> k \in 1..n \/ k = h
  OBVIOUS
<1>3. h - 1 = n
  OBVIOUS
<1> HIDE DEF h
<1>4. Leaving(E, p, h) = Leaving(E, p, n) \cup (IF a = p - 1 THEN {h - 1} ELSE {})
  BY <1>2 DEF Leaving
<1>5. Coming(E, p, h) = Coming(E, p, n) \cup (IF b = p - 1 THEN {h - 1} ELSE {})
  BY <1>2 DEF Coming
<1> HIDE DEF a, b
<1>6. Leaving(E, p, h) = Leaving(E, p, n) \cup (IF p = a + 1 THEN {n} ELSE {})
  BY <1>1, <1>3, <1>4
<1>7. Coming(E, p, h) = Coming(E, p, n) \cup (IF p = b + 1 THEN {n} ELSE {})
  BY <1>1, <1>3, <1>5
<1> QED
  BY <1>6, <1>7 DEF OneMoreEdge, h, a, b

\* One more edge.
LEMMA InsertLists ==
  ASSUME NEW s, NEW E, NEW R, NEW n \in Nat, Len(E) \in Nat, n + 1 <= Len(E),
         ListsFirst(s, E, R, n), E[n + 1].src \in Nat, E[n + 1].dest \in Nat, Len(R) \in Nat,
         \A k \in 1..n : E[k].src \in Nat /\ E[k].dest \in Nat
  PROVE  ListsFirst(insertEdge(s, E[n + 1], n), E, R, n + 1)
<1> DEFINE e == E[n + 1]
           q == insertEdge(s, e, n)
           l == Len(s)
           m == Len(q)
<1>1. /\ s \in Seq(SlotSet)
      /\ Len(R) <= l /\ \A p \in 1..Len(R) : s[p].node = R[p]
      /\ \A k \in 1..n : E[k].src + 1 <= l /\ E[k].dest + 1 <= l
      /\ \A p \in 1..l : /\ ToSet(s[p].outEdges) = Leaving(E, p, n)
                         /\ ToSet(s[p].inEdges)  = Coming(E, p, n)
  BY DEF ListsFirst
<1>2. Inserted(q, s, e, n)
  <2>1. s \in Seq(SlotSet) /\ e.src \in Nat /\ e.dest \in Nat /\ n \in Nat
    BY <1>1
  <2> HIDE DEF e
  <2> QED
    BY ONLY <2>1, InsertIs
<1> HIDE DEF q
<1>3. /\ q \in Seq(SlotSet) /\ l <= m /\ e.src + 1 <= m /\ e.dest + 1 <= m
      /\ \A p \in 1..m : Added(q[p], SlotOf(s, p), n, p = e.src + 1, p = e.dest + 1)
  BY <1>2 DEF Inserted
<1>4. l \in Nat /\ m \in Nat
  BY <1>1, <1>3, LenProperties
<1> HIDE DEF l, m
<1>5. \A p \in 1..m : /\ ToSet(SlotOf(s, p).outEdges) = Leaving(E, p, n)
                      /\ ToSet(SlotOf(s, p).inEdges) = Coming(E, p, n)
  <2> TAKE p \in 1..m
  <2>1. CASE p <= l
    <3>1. p \in 1..l /\ SlotOf(s, p) = s[p]
      BY <1>4, <2>1 DEF SlotOf, l
    <3> QED
      BY <1>1, <3>1
  <2>2. CASE ~(p <= l)
    <3>1. \A k \in 1..n : E[k].src # p - 1 /\ E[k].dest # p - 1
      BY <1>1, <1>4, <2>2
    <3>2. Leaving(E, p, n) = {} /\ Coming(E, p, n) = {}
      BY <3>1 DEF Leaving, Coming
    <3>3. SlotOf(s, p) = Null
      BY <2>2 DEF SlotOf, l
    <3> QED
      BY <3>2, <3>3, NullIs
  <2> QED
    BY <2>1, <2>2
<1>6. \A p \in 1..m : /\ ToSet(q[p].outEdges) = Leaving(E, p, n + 1)
                      /\ ToSet(q[p].inEdges) = Coming(E, p, n + 1)
  <2> TAKE p \in 1..m
  <2>1. p \in Nat /\ n \in Nat /\ E[n + 1].src \in Nat /\ E[n + 1].dest \in Nat
    BY <1>4
  <2>2. /\ Leaving(E, p, n + 1) = Leaving(E, p, n) \cup (IF p = e.src + 1 THEN {n} ELSE {})
        /\ Coming(E, p, n + 1) = Coming(E, p, n) \cup (IF p = e.dest + 1 THEN {n} ELSE {})
    <3>1. OneMoreEdge(E, p, n)
      BY ONLY <2>1, OneMoreListed
    <3> QED
      BY <3>1 DEF OneMoreEdge
  <2>3. /\ ToSet(q[p].outEdges)
             = ToSet(SlotOf(s, p).outEdges) \cup (IF p = e.src + 1 THEN {n} ELSE {})
        /\ ToSet(q[p].inEdges)
             = ToSet(SlotOf(s, p).inEdges) \cup (IF p = e.dest + 1 THEN {n} ELSE {})
    BY <1>3 DEF Added
  <2> QED
    BY <1>5, <2>2, <2>3
<1>7. Len(R) <= m /\ \A p \in 1..Len(R) : q[p].node = R[p]
  <2>1. Len(R) <= m /\ \A p \in 1..Len(R) : p \in 1..m /\ p <= l
    BY <1>1, <1>3, <1>4
  <2>2. \A p \in 1..Len(R) : SlotOf(s, p) = s[p]
    BY <2>1 DEF SlotOf, l
  <2>3. \A p \in 1..m : q[p].node = SlotOf(s, p).node
    BY <1>3 DEF Added
  <2> QED
    BY <1>1, <2>1, <2>2, <2>3
<1>8. \A k \in 1 .. n + 1 : E[k].src + 1 <= m /\ E[k].dest + 1 <= m
  <2>1. \A k \in 1 .. n + 1 : k \in 1..n \/ k = n + 1
    OBVIOUS
  <2>2. \A k \in 1..n : E[k].src + 1 <= m /\ E[k].dest + 1 <= m
    <3> TAKE k \in 1..n
    <3> DEFINE x == E[k].src
               y == E[k].dest
    <3>1. x \in Nat /\ y \in Nat /\ x + 1 <= l /\ y + 1 <= l /\ l <= m
      BY <1>1, <1>3
    <3> HIDE DEF x, y
    <3>2. x + 1 <= m /\ y + 1 <= m
      BY ONLY <1>4, <3>1
    <3> QED
      BY <3>2 DEF x, y
  <2> QED
    BY <1>3, <2>1, <2>2
<1>9. n + 1 \in 0..Len(E)
  OBVIOUS
<1>10. /\ q \in Seq(SlotSet)
       /\ Len(R) <= Len(q)
       /\ \A p \in 1..Len(R) : q[p].node = R[p]
       /\ \A k \in 1 .. n + 1 : E[k].src + 1 <= Len(q) /\ E[k].dest + 1 <= Len(q)
       /\ \A p \in 1..Len(q) : /\ ToSet(q[p].outEdges) = Leaving(E, p, n + 1)
                               /\ ToSet(q[p].inEdges) = Coming(E, p, n + 1)
  BY <1>3, <1>6, <1>7, <1>8 DEF m
<1>11. ListsFirst(q, E, R, n + 1)
  BY <1>9, <1>10 DEF ListsFirst
<1> QED
  BY <1>11 DEF q

\* The loop over the edges of a node.
InsertedAll(s, es, b) ==
  LET S[j \in 0..Len(es)] == IF j = 0 THEN s ELSE insertEdge(S[j - 1], es[j], b + j - 1)
  IN  S[Len(es)]

\* es are the edges of E from place b + 1 on.
ComeLast(es, E, b) ==
  /\ Len(es) \in Nat /\ Len(E) = b + Len(es)
  /\ \A j \in 1..Len(es) : es[j] = E[b + j]
  /\ \A k \in 1..Len(E) : E[k].src \in Nat /\ E[k].dest \in Nat

\* After the loop over the edges of a node, these are listed too.
LEMMA LoopLists ==
  ASSUME NEW s, NEW E, NEW R, NEW b \in Nat, NEW es, ComeLast(es, E, b),
         Len(R) \in Nat, ListsFirst(s, E, R, b)
  PROVE  ListsFirst(InsertedAll(s, es, b), E, R, Len(E))
<1> DEFINE n == Len(es)
           V == Seq(SlotSet)
           G(v, i) == insertEdge(v, es[i], b + i - 1)
           F == [i \in 1..n |-> [v \in V |-> G(v, i)]]
           Is(H) == H = [i \in 0..n |-> IF i = 0 THEN s
                                        ELSE insertEdge(H[i - 1], es[i], b + i - 1)]
           H == CHOOSE H : Is(H)
<1>1. /\ n \in Nat /\ Len(E) = b + n /\ \A j \in 1..n : es[j] = E[b + j]
      /\ \A k \in 1..Len(E) : E[k].src \in Nat /\ E[k].dest \in Nat
  BY DEF ComeLast
<1>2. \A i \in 1..n : \A v \in V : F[i][v] = G(v, i) /\ F[i][v] \in V
  <2> TAKE i \in 1..n
  <2> TAKE v \in V
  <2>1. F[i][v] = G(v, i)
    OBVIOUS
  <2> DEFINE e == es[i]
             k == b + i - 1
  <2>2. e.src \in Nat /\ e.dest \in Nat /\ k \in Nat
    <3>1. b + i \in 1..Len(E) /\ es[i] = E[b + i] /\ k \in Nat
      BY <1>1
    <3> QED
      BY <1>1, <3>1
  <2>3. v \in Seq(SlotSet)
    OBVIOUS
  <2>4. G(v, i) = insertEdge(v, e, k)
    OBVIOUS
  <2> HIDE DEF F, V, e, k, G
  <2>5. Inserted(insertEdge(v, e, k), v, e, k)
    BY ONLY <2>2, <2>3, InsertIs
  <2>6. insertEdge(v, e, k) \in V
    BY <2>5 DEF Inserted, V
  <2> QED
    BY <2>1, <2>4, <2>6
<1>3. s \in V
  BY DEF ListsFirst
<1> HIDE DEF F, V
<1>4. Steps(0, n, V, F)
  <2> HIDE DEF n
  <2>1. 0 + 1 .. n = 1..n /\ 0 <= n
    BY <1>1
  <2> QED
    BY <1>1, <1>2, <2>1 DEF Steps
<1>5. PICK f \in [0..n -> V] : f[0] = s /\ \A i \in 0 + 1 .. n : f[i] = F[i][f[i - 1]]
  <2> HIDE DEF n
  <2>1. \E f \in [0..n -> V] : Stepped(f, 0, n, s, F)
    BY <1>3, <1>4, Iteration
  <2> QED
    BY <2>1 DEF Stepped
<1>6. Is(f)
  <2>1. \A i \in 1..n : i \in 0 + 1 .. n /\ i - 1 \in 0..n /\ f[i - 1] \in V
    <3>1. n \in Nat
      BY <1>1
    <3> HIDE DEF n
    <3> QED
      BY ONLY <3>1, <1>5
  <2>2. \A i \in 1..n : f[i] = G(f[i - 1], i)
    BY <1>2, <1>5, <2>1
  <2>3. \A i \in 0..n : i = 0 \/ i \in 1..n
    BY <1>1
  <2> HIDE DEF n
  <2> QED
    BY <1>5, <2>2, <2>3
<1>7. Is(H)
  <2> HIDE DEF Is
  <2> QED
    BY <1>6
<1>8. InsertedAll(s, es, b) = H[n]
  BY DEF InsertedAll
<1> HIDE DEF H
<1>9. H[0] = s /\ \A i \in 1..n : H[i] = insertEdge(H[i - 1], es[i], b + i - 1)
  <2>1. \A i \in 0..n : H[i] = IF i = 0 THEN s
                               ELSE insertEdge(H[i - 1], es[i], b + i - 1)
    BY <1>7
  <2> QED
    BY <1>1, <2>1
<1> HIDE DEF Is, n
<1> DEFINE K == {i \in Nat : i <= n => ListsFirst(H[i], E, R, b + i)}
<1>10. 0 \in K
  <2>1. b + 0 = b
    OBVIOUS
  <2> QED
    BY <1>9, <2>1
<1>11. ASSUME NEW m \in Nat, m \in K
       PROVE  m + 1 \in K
  <2> SUFFICES ASSUME m + 1 <= n
               PROVE  ListsFirst(H[m + 1], E, R, b + (m + 1))
    OBVIOUS
  <2> DEFINE c == b + m
             t == H[m]
  <2>1. ListsFirst(t, E, R, c)
    BY <1>1, <1>11
  <2>2. m + 1 \in 1..n /\ (m + 1) - 1 = m /\ b + (m + 1) - 1 = c /\ b + (m + 1) = c + 1
    BY <1>1
  <2>3. H[m + 1] = insertEdge(t, E[c + 1], c)
    BY <1>1, <1>9, <2>2
  <2>4. /\ c \in Nat /\ Len(E) \in Nat /\ c + 1 <= Len(E)
        /\ E[c + 1].src \in Nat /\ E[c + 1].dest \in Nat /\ Len(R) \in Nat
        /\ \A k \in 1..c : E[k].src \in Nat /\ E[k].dest \in Nat
    <3>1. c \in Nat /\ Len(E) \in Nat /\ c + 1 <= Len(E) /\ c + 1 \in 1..Len(E)
          /\ \A k \in 1..c : k \in 1..Len(E)
      BY SMTT(30), <1>1, <2>2
    <3> QED
      BY <1>1, <3>1
  <2> HIDE DEF c, t
  <2>5. ListsFirst(insertEdge(t, E[c + 1], c), E, R, c + 1)
    BY ONLY <2>1, <2>4, InsertLists
  <2> QED
    BY <2>2, <2>3, <2>5
<1>12. n \in K
  <2> HIDE DEF K
  <2>1. Nat \subseteq K
    BY <1>10, <1>11, SetInduction
  <2> QED
    BY <1>1, <2>1
<1> QED
  BY <1>1, <1>8, <1>12

\* While the nodes are written there are no edges yet, and no other objects.
JsonNodes == (input.format = "json" /\ phase = "nodes") =>
               edgesOut = <<>> /\ Len(slots) = Len(rowsOut)
GraphInv  == WriterInv /\ SlotsInv /\ JsonNodes

\* No edges.
LEMMA NoEdges ==
  ASSUME NEW s \in Seq(SlotSet), NEW R, Len(R) <= Len(s), \A p \in 1..Len(R) : s[p].node = R[p],
         \A p \in 1..Len(s) : ToSet(s[p].outEdges) = {} /\ ToSet(s[p].inEdges) = {}
  PROVE  ListsFirst(s, <<>>, R, 0)
<1>1. \A p : Leaving(<<>>, p, 0) = {} /\ Coming(<<>>, p, 0) = {}
  BY DEF Leaving, Coming
<1>2. 0 \in 0..Len(<<>>) /\ \A k \in 1..0 : FALSE
  OBVIOUS
<1> QED
  BY <1>1, <1>2 DEF ListsFirst

\* It holds when nothing has been written.
LEMMA GraphInitInv ==
  ASSUME FInit
  PROVE  GraphInv
<1>1. WriterInit
  BY DEF FInit
<1>2. rowsOut = <<>> /\ edgesOut = <<>> /\ slots = <<>>
  BY <1>1 DEF WriterInit
<1>3. ListsFirst(<<>>, <<>>, <<>>, 0)
  <2>1. /\ <<>> \in Seq(SlotSet) /\ Len(<<>>) <= Len(<<>>)
        /\ \A p \in 1..Len(<<>>) : FALSE
    OBVIOUS
  <2> QED
    BY <2>1, NoEdges
<1>4. Len(<<>>) = 0
  OBVIOUS
<1> QED
  BY <1>1, <1>2, <1>3, <1>4, WriterInitInv DEF GraphInv, SlotsInv, JsonNodes

\* A node that WriteJson writes gets an object without edges.
LEMMA JsonSlots ==
  ASSUME GraphInv, WriteJson
  PROVE  SlotsInv' /\ JsonNodes'
<1>1. /\ phase = "nodes" /\ next \in Ids /\ input.format = "json"
      /\ input' = input /\ edgesOut' = edgesOut
      /\ rowsOut' = IF Selected(next) THEN Append(rowsOut, next) ELSE rowsOut
      /\ slots'   = IF Selected(next) THEN Append(slots, Slot(next)) ELSE slots
  BY DEF WriteJson, Working
<1>2. /\ ListsFirst(slots, edgesOut, rowsOut, Len(edgesOut))
      /\ edgesOut = <<>> /\ Len(slots) = Len(rowsOut)
      /\ IsInput(input) /\ rowsOut \in Seq(NodeRowSet) /\ NodeRowSet = Ids
  BY <1>1 DEF GraphInv, SlotsInv, JsonNodes, WriterInv, NodeRowSet
<1>3. CASE ~Selected(next)
  <2>1. rowsOut' = rowsOut /\ slots' = slots
    BY <1>1, <1>3
  <2> QED
    BY <1>1, <1>2, <2>1 DEF SlotsInv, JsonNodes
<1>4. CASE Selected(next)
  <2> DEFINE o == Slot(next)
             s == Append(slots, o)
             R == Append(rowsOut, next)
             l == Len(slots)
  <2>1. o \in SlotSet /\ o.node = next /\ ToSet(o.outEdges) = {} /\ ToSet(o.inEdges) = {}
    BY <1>1, <1>2, InputParts DEF Slot, SlotSet, ToSet
  <2>2. /\ slots \in Seq(SlotSet) /\ \A p \in 1..l : slots[p].node = rowsOut[p]
        /\ \A p \in 1..l : ToSet(slots[p].outEdges) = {} /\ ToSet(slots[p].inEdges) = {}
    <3>1. \A p : Leaving(<<>>, p, 0) = {} /\ Coming(<<>>, p, 0) = {}
      BY DEF Leaving, Coming
    <3>2. Len(<<>>) = 0
      OBVIOUS
    <3> QED
      BY <1>2, <3>1, <3>2 DEF ListsFirst
  <2> HIDE DEF o
  <2>3. /\ s \in Seq(SlotSet) /\ Len(s) = l + 1
        /\ \A i \in 1..l : s[i] = slots[i]
        /\ s[l + 1] = o
    BY <2>1, <2>2, AppendIsSeq
  <2>4. /\ Len(R) = l + 1
        /\ \A i \in 1..l : R[i] = rowsOut[i]
        /\ R[l + 1] = next
    BY <1>1, <1>2, AppendIsSeq
  <2>5. l \in Nat
    BY <2>2, LenProperties
  <2> HIDE DEF s, R, l
  <2>6. \A p \in 1 .. l + 1 : p \in 1..l \/ p = l + 1
    BY <2>5
  <2>7. /\ \A p \in 1..Len(R) : s[p].node = R[p]
        /\ \A p \in 1..Len(s) : ToSet(s[p].outEdges) = {} /\ ToSet(s[p].inEdges) = {}
    BY <2>1, <2>2, <2>3, <2>4, <2>6
  <2>8. Len(R) <= Len(s)
    BY <2>3, <2>4, <2>5
  <2>9. ListsFirst(s, <<>>, R, 0)
    BY <2>3, <2>7, <2>8, NoEdges
  <2>10. slots' = s /\ rowsOut' = R /\ Len(<<>>) = 0
    BY <1>1, <1>4 DEF s, o, R
  <2> QED
    BY <1>1, <1>2, <2>3, <2>4, <2>9, <2>10 DEF SlotsInv, JsonNodes
<1> QED
  BY <1>3, <1>4

\* The same edges first, the same lists.
LEMMA SameFirst ==
  ASSUME NEW s, NEW E, NEW R, NEW n \in Nat, ListsFirst(s, E, R, n),
         NEW D, Len(D) \in Nat, n <= Len(D), \A k \in 1..n : D[k] = E[k]
  PROVE  ListsFirst(s, D, R, n)
<1>1. \A p : Leaving(D, p, n) = Leaving(E, p, n) /\ Coming(D, p, n) = Coming(E, p, n)
  BY DEF Leaving, Coming
<1>2. n \in 0..Len(D)
  OBVIOUS
<1>3. \A k \in 1..n : D[k].src + 1 <= Len(s) /\ D[k].dest + 1 <= Len(s)
  BY DEF ListsFirst
<1> QED
  BY <1>1, <1>2, <1>3 DEF ListsFirst

\* WriteJsonEdges lists the edges that it writes.
LEMMA JsonEdgeSlots ==
  ASSUME GraphInv, WriteJsonEdges
  PROVE  SlotsInv' /\ JsonNodes'
<1> DEFINE es == AcceptedOf(OutEdges(next))
           b == Len(edgesOut)
           D == edgesOut \o es
<1>1. /\ phase = "edges" /\ next \in Ids /\ input.format = "json"
      /\ input' = input /\ phase' = phase /\ rowsOut' = rowsOut
      /\ edgesOut' = D /\ slots' = InsertedAll(slots, es, b)
  BY DEF WriteJsonEdges, WriterInv, GraphInv, InsertedAll
<1>2. /\ IsInput(input) /\ edgesOut \in Seq(EdgeRowSet) /\ EdgeRowSet = ToSet(input.edges)
      /\ ListsFirst(slots, edgesOut, rowsOut, b) /\ rowsOut \in Seq(NodeRowSet)
  BY <1>1 DEF GraphInv, WriterInv, EdgeRowSet, SlotsInv
<1>3. es \in Seq(Edges(Ids))
  BY <1>2, WrittenAre
<1>4. edgesOut \in Seq(Edges(Ids))
  <2>1. ToSet(input.edges) \subseteq Edges(Ids)
    BY <1>2, InputParts
  <2>2. \A j \in 1..Len(edgesOut) : edgesOut[j] \in Edges(Ids)
    BY <1>2, <2>1, ElementOfSeq
  <2> QED
    BY <1>2, <2>2, SeqOfElements
<1>5. Len(rowsOut) \in Nat /\ b \in Nat /\ Len(es) \in Nat
  BY <1>2, <1>3, <1>4, LenProperties
<1> HIDE DEF es
<1>6. /\ D \in Seq(Edges(Ids)) /\ Len(D) = b + Len(es)
      /\ \A k \in 1..b : D[k] = edgesOut[k]
      /\ \A j \in 1..Len(es) : D[b + j] = es[j]
  BY <1>3, <1>4, JoinedIs
<1> HIDE DEF b, D
<1>7. \A k \in 1..Len(D) : D[k].src \in Nat /\ D[k].dest \in Nat
  <2>1. Ids \subseteq Nat
    BY <1>2, InputParts
  <2>2. \A k \in 1..Len(D) : D[k] \in Edges(Ids)
    BY <1>6, ElementOfSeq
  <2> QED
    BY <2>1, <2>2 DEF Edges
<1>8. Len(D) \in Nat /\ b <= Len(D)
  BY <1>5, <1>6
<1>9. ListsFirst(slots, D, rowsOut, b)
  BY <1>2, <1>5, <1>6, <1>8, SameFirst
<1>10. ComeLast(es, D, b)
  BY <1>5, <1>6, <1>7 DEF ComeLast
<1>11. ListsFirst(InsertedAll(slots, es, b), D, rowsOut, Len(D))
  BY ONLY <1>5, <1>9, <1>10, LoopLists
<1> QED
  BY <1>1, <1>11 DEF SlotsInv, JsonNodes

\* Every step keeps it.
LEMMA GraphStepInv ==
  ASSUME GraphInv, [FNext]_fileVars
  PROVE  GraphInv'
<1>1. WriterInv'
  BY WriterStepInv DEF GraphInv
<1>2. SlotsInv' /\ JsonNodes'
  <2>1. CASE Write
    <3>1. CASE (\E f \in {"csv", "json", "dot"} : Skip(f)) \/ EndNodes \/ EndEdges
      <4>1. /\ input' = input /\ rowsOut' = rowsOut /\ edgesOut' = edgesOut /\ slots' = slots
            /\ phase' = "nodes" => phase = "nodes"
        BY <3>1 DEF Skip, EndNodes, EndEdges
      <4> QED
        BY <4>1 DEF GraphInv, SlotsInv, JsonNodes
    <3>2. CASE WriteRows \/ WriteDot
      <4>1. input' = input /\ input.format # "json"
        BY <3>2 DEF WriteRows, WriteDot, Working
      <4> QED
        BY <4>1 DEF SlotsInv, JsonNodes
    <3>3. CASE WriteJson
      BY <3>3, JsonSlots
    <3>4. CASE WriteJsonEdges
      BY <3>4, JsonEdgeSlots
    <3> QED
      BY <2>1, <3>1, <3>2, <3>3, <3>4 DEF Write, WriterNext
  <2>2. CASE readGraph \/ UNCHANGED fileVars
    <3>1. ReaderStep
      BY <2>2, ReadingSteps
    <3> QED
      BY <3>1 DEF GraphInv, SlotsInv, JsonNodes, ReaderStep
  <2> QED
    BY <2>1, <2>2 DEF FNext
<1> QED
  BY <1>1, <1>2 DEF GraphInv

\* It says that nodes list their edges.
LEMMA ListedEdges ==
  ASSUME GraphInv
  PROVE  NodesListTheirEdges
<1> SUFFICES ASSUME input.format = "json", NoGap, NEW p \in DOMAIN rowsOut
             PROVE  /\ slots[p].node = p - 1
                    /\ ToSet(slots[p].outEdges)
                         = {k - 1 : k \in {k \in DOMAIN edgesOut : edgesOut[k].src = p - 1}}
                    /\ ToSet(slots[p].inEdges)
                         = {k - 1 : k \in {k \in DOMAIN edgesOut : edgesOut[k].dest = p - 1}}
  BY DEF NodesListTheirEdges
<1>1. /\ ListsFirst(slots, edgesOut, rowsOut, Len(edgesOut))
      /\ rowsOut \in Seq(NodeRowSet) /\ edgesOut \in Seq(EdgeRowSet)
  BY DEF GraphInv, WriterInv, SlotsInv
<1>2. /\ DOMAIN rowsOut = 1..Len(rowsOut) /\ DOMAIN edgesOut = 1..Len(edgesOut)
      /\ Len(rowsOut) \in Nat
  BY <1>1, LenProperties
<1>3. Len(rowsOut) <= Len(slots) /\ Len(slots) \in Nat
  BY <1>1, LenProperties DEF ListsFirst
<1>4. p \in 1..Len(rowsOut) /\ p \in 1..Len(slots)
  BY <1>2, <1>3
<1>5. rowsOut[p] = p - 1
  BY DEF NoGap, WrittenIds
<1> QED
  BY <1>1, <1>2, <1>4, <1>5 DEF ListsFirst, Leaving, Coming

\* CSVWriter, JSONWriter and DotWriter::writeGraph: whatever parts of the graph
\* and whatever loop are asked for, every edge that is written joins nodes that
\* are written (unless a loop is asked for), and each node of the JSON graph
\* lists the edges from it and to it, and no others, if no node was left out.
THEOREM WrittenWhole == FSpec => []WrittenGraphIsWhole
<1>1. FInit => GraphInv
  BY GraphInitInv
<1>2. GraphInv /\ [FNext]_fileVars => GraphInv'
  BY GraphStepInv
<1>3. GraphInv => WrittenGraphIsWhole
  BY JoinedNodes, ListedEdges DEF GraphInv, WrittenGraphIsWhole
<1> QED
  BY <1>1, <1>2, <1>3, PTL DEF FSpec

-----------------------------------------------------------------------------
(* Lines and rows. *)

\* Rows of one line or more, and the lines that there can be.
AreSplit(rows) ==
  \E T : rows \in Seq(T) /\ \A j \in 1..Len(rows) :
           /\ rows[j].columns \in Seq(Nat) /\ Len(rows[j].columns) # 0
           /\ rows[j].length \in Nat \ {0}
LineSet == [of : Nat, columns : Nat, length : Nat \ {0}]
\* The first line of row j.
FirstLine(rows, j) == [of |-> j, columns |-> rows[j].columns[1], length |-> rows[j].length]
\* The first m rows are one line each.
Single(rows, m) == \A j \in 1..m : Len(rows[j].columns) = 1

\* The lines of each row, the first of which has its first columns.
LEMMA LinesOfRows ==
  ASSUME NEW rows, AreSplit(rows)
  PROVE  \E s : /\ s \in Seq(Seq(LineSet)) /\ Lines(rows) = FlattenSeq(s)
                /\ Len(s) = Len(rows) /\ Len(rows) \in Nat
                /\ \A j \in 1..Len(rows) : /\ Len(s[j]) = Len(rows[j].columns)
                                           /\ Len(s[j]) \in Nat \ {0}
                                           /\ s[j][1] = FirstLine(rows, j)
<1> DEFINE n == Len(rows)
           L(j) == [k \in DOMAIN rows[j].columns |->
                      [of |-> j, columns |-> rows[j].columns[k], length |-> rows[j].length]]
           s == [j \in DOMAIN rows |-> L(j)]
<1>1. n \in Nat /\ DOMAIN rows = 1..n
  BY LenProperties DEF AreSplit
<1>2. ASSUME NEW j \in 1..n
      PROVE  /\ L(j) \in Seq(LineSet) /\ Len(L(j)) = Len(rows[j].columns)
             /\ Len(L(j)) \in Nat \ {0} /\ L(j)[1] = FirstLine(rows, j)
  <2> DEFINE c == rows[j].columns
             l == rows[j].length
             h == Len(c)
             q == L(j)
  <2>1. c \in Seq(Nat) /\ h # 0 /\ l \in Nat \ {0}
    BY DEF AreSplit
  <2>2. q = [k \in DOMAIN c |-> [of |-> j, columns |-> c[k], length |-> l]]
    OBVIOUS
  <2>3. FirstLine(rows, j) = [of |-> j, columns |-> c[1], length |-> l]
    BY DEF FirstLine
  <2>4. j \in Nat
    BY <1>1
  <2> HIDE DEF c, l, q, n
  <2>5. h \in Nat \ {0} /\ DOMAIN c = 1..h /\ \A k \in 1..h : c[k] \in Nat
    BY <2>1, LenProperties, ElementOfSeq
  <2> HIDE DEF h
  <2>6. \A k \in 1..h : q[k] = [of |-> j, columns |-> c[k], length |-> l] /\ q[k] \in LineSet
    BY <2>1, <2>2, <2>4, <2>5 DEF LineSet
  <2>7. q \in Seq(LineSet) /\ Len(q) = h
    <3>1. q \in [1..h -> LineSet]
      BY <2>2, <2>5, <2>6
    <3> QED
      BY <2>5, <3>1
  <2> QED
    <3>1. 1 \in 1..h
      BY <2>5
    <3>2. q \in Seq(LineSet) /\ Len(q) = h /\ h \in Nat \ {0} /\ q[1] = FirstLine(rows, j)
      BY <2>3, <2>5, <2>6, <2>7, <3>1
    <3> QED
      BY <3>2 DEF q, h, c
<1> HIDE DEF L
<1>3. s \in Seq(Seq(LineSet)) /\ Len(s) = n
  <2> HIDE DEF n
  <2>1. s \in [1..n -> Seq(LineSet)]
    BY <1>1, <1>2
  <2> QED
    BY <1>1, <2>1
<1>4. Lines(rows) = FlattenSeq(s)
  BY DEF Lines, L
<1>5. \A j \in 1..n : s[j] = L(j)
  BY <1>1
<1> HIDE DEF s
<1> QED
  BY <1>1, <1>2, <1>3, <1>4, <1>5

\* Lines are rows of text.
LEMMA LinesAreRows ==
  ASSUME NEW rows, AreSplit(rows)
  PROVE  AreRows(Lines(rows))
<1> PICK s : s \in Seq(Seq(LineSet)) /\ Lines(rows) = FlattenSeq(s)
  BY LinesOfRows
<1>1. FlattenSeq(s) \in Seq(LineSet)
  <2>1. CASE Len(s) = 0
    <3>1. FlattenSeq(s) = <<>>
      BY <2>1 DEF FlattenSeq
    <3> QED
      BY <3>1
  <2>2. CASE Len(s) # 0
    <3>1. PICK H : H \in [1..Len(s) -> Seq(LineSet)] /\ FlattenSeq(s) = H[Len(s)]
      BY <2>2, FlattenIs
    <3>2. Len(s) \in 1..Len(s)
      BY <2>2, LenProperties
    <3> QED
      BY <3>1, <3>2
  <2> QED
    BY <2>1, <2>2
<1> PICK L : L = Lines(rows)
  OBVIOUS
<1>2. L \in Seq(LineSet)
  BY <1>1
<1>3. \A j \in 1..Len(L) : L[j].length \in Nat \ {0}
  <2>1. \A j \in 1..Len(L) : L[j] \in LineSet
    BY <1>2, ElementOfSeq
  <2> QED
    BY <2>1 DEF LineSet
<1> QED
  BY <1>2, <1>3 DEF AreRows

\* As long as rows are one line each, line j is row j, and the next line is the
\* first of the next row.
LEMMA FirstLines ==
  ASSUME NEW rows, AreSplit(rows), NEW m \in 0..Len(rows), Single(rows, m)
  PROVE  LET L == Lines(rows)
         IN  /\ Len(L) \in Nat /\ Len(rows) \in Nat /\ m <= Len(L)
             /\ \A j \in 1..m : L[j] = FirstLine(rows, j)
             /\ m < Len(rows) => m < Len(L) /\ L[m + 1] = FirstLine(rows, m + 1)
             /\ m = Len(rows) => Len(L) = m
<1> DEFINE n == Len(rows)
<1> PICK L : L = Lines(rows)
  OBVIOUS
<1> PICK s : /\ s \in Seq(Seq(LineSet)) /\ L = FlattenSeq(s) /\ Len(s) = n /\ n \in Nat
             /\ \A j \in 1..n : /\ Len(s[j]) = Len(rows[j].columns) /\ Len(s[j]) \in Nat \ {0}
                                /\ s[j][1] = FirstLine(rows, j)
  <2>1. \E s : /\ s \in Seq(Seq(LineSet)) /\ Lines(rows) = FlattenSeq(s)
               /\ Len(s) = Len(rows) /\ Len(rows) \in Nat
               /\ \A j \in 1..Len(rows) : /\ Len(s[j]) = Len(rows[j].columns)
                                          /\ Len(s[j]) \in Nat \ {0}
                                          /\ s[j][1] = FirstLine(rows, j)
    <3>1. AreSplit(rows)
      OBVIOUS
    <3> QED
      BY ONLY <3>1, LinesOfRows
  <2> QED
    BY <2>1
<1>1. /\ m \in 0..n /\ \A j \in 1..m : Len(s[j]) = 1
  <2>1. m \in 0..n
    OBVIOUS
  <2> HIDE DEF n
  <2>2. \A j \in 1..m : j \in 1..n
    BY <2>1
  <2> QED
    BY <2>1, <2>2 DEF Single
<1> DEFINE G(j) == FirstLine(rows, j)
<1>2. \A j \in 1..n : s[j][1] = G(j) /\ s[j] \in Seq(LineSet) /\ Len(s[j]) \in Nat \ {0}
  BY ElementOfSeq
<1>3. n \in Nat /\ Len(s) = n /\ s \in Seq(Seq(LineSet)) /\ L = FlattenSeq(s)
  OBVIOUS
<1> HIDE DEF n, G
<1>4. CASE n = 0
  <2>1. L = <<>> /\ m = 0
    BY <1>1, <1>3, <1>4 DEF FlattenSeq
  <2> QED
    BY <1>4, <2>1 DEF n
<1>5. CASE n # 0
  <2>1. PICK H : /\ H \in [1..n -> Seq(LineSet)] /\ H[1] = s[1] /\ L = H[n]
                 /\ \A i \in 1..n : i # 1 => H[i] = H[i - 1] \o s[i]
    <3>1. s \in Seq(Seq(LineSet)) /\ Len(s) # 0
      BY <1>3, <1>5
    <3>2. \E H : /\ H \in [1..Len(s) -> Seq(LineSet)]
                 /\ H[1] = s[1] /\ \A i \in 1..Len(s) : i # 1 => H[i] = H[i - 1] \o s[i]
                 /\ FlattenSeq(s) = H[Len(s)]
      BY ONLY <3>1, FlattenIs
    <3> QED
      BY <1>3, <3>2
  <2> DEFINE Known(i) == IF i <= m THEN i ELSE m + 1
             Right(i) == /\ Known(i) <= Len(H[i]) /\ (i <= m => Len(H[i]) = i)
                         /\ \A j \in 1..Known(i) : H[i][j] = G(j)
             S == {i \in Nat : i + 1 <= n => Right(i + 1)}
  <2>2. \A i \in 1..n : Len(H[i]) \in Nat /\ H[i] \in Seq(LineSet)
    BY <2>1, LenProperties
  <2>3. 0 \in S
    <3>1. H[1] = s[1] /\ s[1][1] = G(1) /\ Len(s[1]) \in Nat \ {0} /\ (1 <= m => Len(s[1]) = 1)
      BY <1>1, <1>2, <1>3, <1>5, <2>1
    <3>2. Known(1) = 1
      BY <1>1, <1>3
    <3> HIDE DEF Known
    <3>3. Right(1)
      BY <3>1, <3>2
    <3> QED
      BY <3>3
  <2>4. ASSUME NEW i \in Nat, i \in S
        PROVE  i + 1 \in S
    <3> SUFFICES ASSUME (i + 1) + 1 <= n
                 PROVE  Right((i + 1) + 1)
      OBVIOUS
    <3> DEFINE b == i + 1
               h == b + 1
               p == H[b]
               x == s[h]
               a == Len(p)
    <3>1. b \in 1..n /\ h \in 1..n /\ h # 1 /\ h - 1 = b /\ b <= n /\ b \in Nat
      BY <1>3
    <3>2. Right(b) /\ H[h] = p \o x
      BY <2>1, <2>4, <3>1
    <3>3. /\ a \in Nat /\ p \in Seq(LineSet) /\ x \in Seq(LineSet) /\ x[1] = G(h)
          /\ Len(x) \in Nat \ {0} /\ (h <= m => Len(x) = 1)
      BY <1>1, <1>2, <2>2, <3>1
    <3>4. /\ Known(b) <= a /\ (b <= m => a = b)
          /\ \A j \in 1..Known(b) : p[j] = G(j)
      BY <3>2
    <3> HIDE DEF h, x, p, b, Right
    <3>5. /\ Len(p \o x) = a + Len(x)
          /\ \A j \in 1..a : (p \o x)[j] = p[j]
          /\ \A j \in 1..Len(x) : (p \o x)[a + j] = x[j]
      BY <3>3, JoinedIs
    <3> HIDE DEF a
    <3> DEFINE y == p \o x
    <3>6. /\ Len(y) = a + Len(x) /\ \A j \in 1..a : y[j] = p[j]
          /\ y[a + 1] = G(h)
      <4>1. 1 \in 1..Len(x)
        BY <3>3
      <4> QED
        BY <3>3, <3>5, <4>1
    <3> HIDE DEF y
    <3>7. b \in Nat /\ h = b + 1 /\ m \in Nat
      BY <1>1, <1>3, <3>1 DEF h
    <3>8. /\ Known(h) <= Len(y) /\ (h <= m => Len(y) = h)
          /\ \A j \in 1..Known(h) : y[j] = G(j)
      <4>1. CASE b <= m
        <5>1. a = b /\ Known(b) = b /\ Known(h) = h
          BY <3>4, <3>7, <4>1
        <5>2. \A j \in 1..h : j \in 1..a \/ j = a + 1
          BY <3>7, <5>1
        <5>3. \A j \in 1..h : y[j] = G(j)
          BY <3>4, <3>6, <3>7, <5>1, <5>2
        <5>4. h <= Len(y) /\ (h <= m => Len(y) = h)
          <6> DEFINE u == Len(x)
                     v == Len(y)
          <6>1. v = b + u /\ h = b + 1 /\ b \in Nat
            BY <3>6, <3>7, <5>1
          <6>2. u \in Nat \ {0} /\ (h <= m => u = 1)
            BY <3>3
          <6> HIDE DEF u, v
          <6>3. h <= v /\ (h <= m => v = h)
            BY <6>1, <6>2
          <6> QED
            BY <6>3 DEF v
        <5> HIDE DEF Known
        <5> QED
          BY <5>1, <5>3, <5>4
      <4>2. CASE ~(b <= m)
        <5>1. Known(b) = m + 1 /\ Known(h) = m + 1 /\ ~(h <= m)
          BY <3>7, <4>2
        <5>2. m + 1 <= a /\ \A j \in 1 .. m + 1 : j \in 1..a
          BY <3>3, <3>4, <3>7, <5>1
        <5>3. \A j \in 1 .. m + 1 : y[j] = G(j)
          BY <3>4, <3>6, <5>1, <5>2
        <5>4. m + 1 <= Len(y)
          BY <3>3, <3>6, <3>7, <5>2
        <5> HIDE DEF Known
        <5> QED
          BY <5>1, <5>3, <5>4
      <4> QED
        BY <4>1, <4>2
    <3>9. H[h] = y
      BY <3>2 DEF y
    <3>10. Right(h)
      BY <3>8, <3>9 DEF Right
    <3> QED
      BY <3>10 DEF h, b
  <2>5. Right(n)
    <3>1. n - 1 \in Nat /\ (n - 1) + 1 = n /\ n <= n
      BY <1>3, <1>5
    <3> HIDE DEF S, Right
    <3>2. Nat \subseteq S
      BY <2>3, <2>4, SetInduction
    <3> QED
      BY <3>1, <3>2 DEF S
  <2>6. /\ Known(n) <= Len(L) /\ (n <= m => Len(L) = n) /\ Len(L) \in Nat
        /\ \A j \in 1..Known(n) : L[j] = G(j)
    <3>1. n \in 1..n
      BY <1>3, <1>5
    <3> HIDE DEF Known
    <3> QED
      BY <2>1, <2>2, <2>5, <3>1
  <2>7. Known(n) = IF m = n THEN n ELSE m + 1
    BY <1>1, <1>3
  <2> HIDE DEF Known, Right, S
  <2>8. m <= Len(L) /\ \A j \in 1..m : L[j] = G(j)
    BY <1>1, <1>3, <2>6, <2>7
  <2>9. m < n => m < Len(L) /\ L[m + 1] = G(m + 1)
    BY <1>1, <1>3, <2>6, <2>7
  <2>10. m = n => Len(L) = m
    BY <1>1, <1>3, <2>6
  <2> QED
    BY <1>3, <2>6, <2>8, <2>9, <2>10 DEF n, G
<1> QED
  BY <1>4, <1>5

\* The text of a row is that row's and no other's.
LEMMA RowOfLine ==
  ASSUME NEW R, AreRows(R), NEW j \in 1..Len(R)
  PROVE  RowOf(R, Line(R, j)) = j /\ Line(R, j) # <<>>
<1>1. DOMAIN R = 1..Len(R) /\ \A i \in 1..Len(R) : R[i].length \in Nat \ {0}
  BY LenProperties DEF AreRows
<1> DEFINE l == R[j].length
           t == Line(R, j)
<1>2. l \in Nat \ {0} /\ 1 \in 1..l
  BY <1>1
<1>3. t[1] = <<j, 1>> /\ DOMAIN t = 1..l
  BY <1>2 DEF Line
<1>4. \A i \in 1..Len(R) : Line(R, i) = t => i = j
  <2> SUFFICES ASSUME NEW i \in 1..Len(R), Line(R, i) = t
               PROVE  i = j
    OBVIOUS
  <2>1. R[i].length \in Nat \ {0} /\ 1 \in 1..R[i].length
    BY <1>1
  <2>2. Line(R, i)[1] = <<i, 1>>
    BY <2>1 DEF Line
  <2> HIDE DEF t
  <2>3. <<i, 1>> = <<j, 1>>
    BY <1>3, <2>2
  <2> QED
    BY <2>3
<1>5. t # <<>>
  <2>1. DOMAIN <<>> = {}
    OBVIOUS
  <2> HIDE DEF t, l
  <2> QED
    BY <1>2, <1>3, <2>1
<1> HIDE DEF t, l
<1>6. RowOf(R, t) = CHOOSE i \in DOMAIN R : Line(R, i) = t
  BY <1>1 DEF RowOf, t
<1>7. (CHOOSE i \in DOMAIN R : Line(R, i) = t) = j
  BY <1>1, <1>4 DEF t
<1> QED
  BY <1>5, <1>6, <1>7 DEF t

\* The number of the row of any text.
LEMMA RowOfAny ==
  ASSUME NEW R, AreRows(R), NEW t
  PROVE  RowOf(R, t) \in 0..Len(R) /\ Len(R) \in Nat
<1>1. DOMAIN R = 1..Len(R) /\ Len(R) \in Nat
  BY LenProperties DEF AreRows
<1>2. CASE \E j \in DOMAIN R : Line(R, j) = t
  <2>1. RowOf(R, t) = CHOOSE j \in DOMAIN R : Line(R, j) = t
    BY <1>2 DEF RowOf
  <2>2. RowOf(R, t) \in DOMAIN R
    BY <1>2, <2>1
  <2> QED
    BY <1>1, <2>2
<1>3. CASE ~(\E j \in DOMAIN R : Line(R, j) = t)
  BY <1>1, <1>3 DEF RowOf
<1> QED
  BY <1>2, <1>3

\* readGraph's calls of readLine: the first, and the one after each row.
LEMMA OpenReads ==
  ASSUME NEW R, AreRows(R), NEW f, NEW e, Holds(f, R, e), fopen(f)
  PROVE  Reads(f, R, e, 0)'
<1>1. f \in Seq(Byte) /\ Len(f) \in Nat /\ e[0] = 0 /\ Len(R) \in Nat
  BY LenProperties DEF Holds, HoldsFirst, AreRows
<1>2. BUFF_SIZE \in Nat \ {0}
  BY BufferAssumption
<1>3. /\ file' = f /\ taken' = 0 /\ buffer' = [i \in Positions |-> Zero]
      /\ current' = 0 /\ last' = 0 /\ eof' = FALSE /\ prefix' = <<>> /\ reader' = "call"
  BY DEF fopen
<1>4. Buffered(f)'
  <2>1. 0 % BUFF_SIZE = 0
    BY <1>2
  <2>2. \A i \in Positions : ~(i < 0) /\ ~(0 >= BUFF_SIZE)
    BY <1>2 DEF Positions
  <2>3. 0 \in 0..Len(f) /\ 0 \in 0..BUFF_SIZE /\ 0 <= 0 /\ 0 \in 0..0 /\ 0 - 0 = 0
    BY <1>1, <1>2
  <2> QED
    BY <1>3, <2>1, <2>2, <2>3 DEF Buffered
<1>5. At' = 0
  BY <1>3 DEF At
<1>6. 0 < Len(R) => 0 < e[0 + 1]
  <2> SUFFICES ASSUME 0 < Len(R)
               PROVE  0 < e[0 + 1]
    OBVIOUS
  <2> DEFINE z == 0
  <2>1. z \in Nat /\ z < Len(R)
    OBVIOUS
  <2> HIDE DEF z
  <2>2. /\ e[z] \in Nat /\ e[z + 1] = e[z] + R[z + 1].length + 1
        /\ R[z + 1].length \in Nat \ {0}
    BY <2>1, NextLine
  <2> QED
    BY <2>2 DEF z
<1>7. <<>> \in Seq(Byte) /\ Len(<<>>) = 0 - 0 /\ \A k \in 1..Len(<<>>) : FALSE
  OBVIOUS
<1>8. Calling(f, R, e, 0)'
  BY <1>1, <1>3, <1>4, <1>5, <1>6, <1>7 DEF Calling
<1> QED
  BY <1>8 DEF Reads

\* The loop of readGraph leaves the reader as it is.
SameBuffer == UNCHANGED <<file, taken, buffer, current, last, eof, prefix, row>>

\* After a row has been returned, the loop calls readLine for the next.
LEMMA LoopReads ==
  ASSUME NEW R, AreRows(R), NEW f, NEW e, Holds(f, R, e), NEW m \in 0..Len(R),
         Returned(f, R, e, m), SameBuffer, reader' = "call"
  PROVE  Reads(f, R, e, m + 1)' /\ m + 1 \in 0..Len(R)
<1>1. /\ Buffered(f) /\ prefix = <<>> /\ m < Len(R) /\ At = e[m + 1]
  BY DEF Returned
<1>2. Len(R) \in Nat /\ m + 1 \in 0..Len(R) /\ m \in Nat /\ m + 1 \in Nat
  BY <1>1, LenProperties DEF AreRows
<1>3. e[m + 1] \in Nat
  BY <1>1, <1>2, NextLine
<1>4. Buffered(f)' /\ prefix' = <<>> /\ At' = e[m + 1]
  BY <1>1 DEF SameBuffer, Buffered, At
<1> DEFINE h == m + 1
<1>5. h < Len(R) => e[h] < e[h + 1]
  <2> SUFFICES ASSUME h < Len(R)
               PROVE  e[h] < e[h + 1]
    OBVIOUS
  <2>1. h \in Nat
    BY <1>2
  <2> HIDE DEF h
  <2>2. /\ e[h] \in Nat /\ e[h + 1] = e[h] + R[h + 1].length + 1
        /\ R[h + 1].length \in Nat \ {0}
    BY <2>1, NextLine
  <2> QED
    BY <2>2
<1>6. e[h] \in Nat /\ At' = e[h]
  BY <1>3, <1>4
<1> HIDE DEF h
<1>7. <<>> \in Seq(Byte) /\ Len(<<>>) = e[h] - e[h] /\ \A k \in 1..Len(<<>>) : FALSE
  BY <1>6
<1>8. Calling(f, R, e, h)'
  BY <1>4, <1>5, <1>6, <1>7 DEF Calling
<1> QED
  BY <1>2, <1>8 DEF Reads, h

\* If the end of the file was missed, the loop goes on.
LEMMA MissedLoop ==
  ASSUME NEW f, Missed(f), reader = "returned", SameBuffer, reader' = "call"
  PROVE  Missed(f)'
BY DEF Missed, SameBuffer

-----------------------------------------------------------------------------
(* The file. *)

\* What the rows of the file are.
NodeRowOf(k, i) ==
  /\ i \in Ids /\ WrittenIds[k] = i /\ rowsOut[k].fields[NodeCol("id")] = i
  /\ parseNode(rowsOut[k].fields) = OnFile(input.nodes[i]) /\ OnFile(input.nodes[i]).id = i
  /\ Breaks(input.nodes[i]) <=> rowsOut[k].columns # << 18 >> \/ ~Parses(rowsOut[k].fields)

\* Every row of nodes.csv is that of a node of the graph.
LEMMA NodeRowIs ==
  ASSUME WriterInv, input.format = "csv", NEW k \in 1..Len(rowsOut)
  PROVE  /\ rowsOut[k].length \in Nat \ {0}
         /\ rowsOut[k].columns \in {<< 18 >>, <<3, 16>>, <<16, 3>>}
         /\ \E i \in Ids : NodeRowOf(k, i)
<1>1. rowsOut[k] \in NodeRowSet /\ WrittenIds[k] = IdOf(rowsOut[k])
  BY WrittenIdsAre
<1> DEFINE D == {NodeRow(input.nodes[i]) : i \in Ids}
<1>2. NodeRowSet = NodeRowsOf(D, Nat \ {0})
  BY DEF NodeRowSet
<1> HIDE DEF D
<1>3. PICK d \in D, l \in Nat \ {0} : rowsOut[k] = Row(d, NodeLines(d), l)
  BY <1>1, <1>2 DEF NodeRowsOf
<1> PICK i \in Ids : d = NodeRow(input.nodes[i])
  BY DEF D
<1> PICK n : n = input.nodes[i]
  OBVIOUS
<1>4. /\ rowsOut[k].fields = NodeRow(n) /\ rowsOut[k].columns = NodeLines(NodeRow(n))
      /\ rowsOut[k].length \in Nat \ {0}
  BY <1>3 DEF Row
<1>5. n.kind \in Kinds /\ n \in NodesOf(i, n.kind)
  BY InputParts DEF WriterInv
<1>6. /\ parseNode(NodeRow(n)) = OnFile(n) /\ NodeRow(n)[NodeCol("id")] = i
      /\ Breaks(n) <=> NodeLines(NodeRow(n)) # << 18 >> \/ ~Parses(NodeRow(n))
      /\ NodeLines(NodeRow(n)) \in {<< 18 >>, <<3, 16>>, <<16, 3>>}
  BY <1>5, RowParses
<1>7. OnFile(n).id = i
  <2>1. parseNode(NodeRow(n)).id = NodeRow(n)[NodeCol("id")]
    BY DEF parseNode
  <2> QED
    BY <1>6, <2>1
<1>8. WrittenIds[k] = i
  BY <1>1, <1>4, <1>6 DEF IdOf
<1>9. NodeRowOf(k, i)
  BY <1>4, <1>6, <1>7, <1>8 DEF NodeRowOf
<1> QED
  BY <1>4, <1>6, <1>9

\* What the reader makes of an edge.
EdgeRead(e) == [e EXCEPT !.label = Printed(EdgeLabel(e))]

\* The row of an edge, however many lines it makes.
EdgeRowOf(j, e) ==
  /\ parseEdge(edgesOut[j].fields.edge) = EdgeRead(e)
  /\ edgesOut[j].columns = IF EdgeBreaks(EdgeRead(e)) THEN <<4, 6>> ELSE << 9 >>

\* A row of edges.csv with the columns of an edge is the edge's.
LEMMA EdgeOfRow ==
  ASSUME WriterInv, input.format = "csv", NEW j \in 1..Len(edgesOut), NEW e \in EdgesDue,
         EdgeOf(edgesOut[j]) = Seen(e)
  PROVE  edgesOut[j].length \in Nat \ {0} /\ EdgeRowOf(j, e)
<1> DEFINE D == {EdgeRow(Labelled(d)) : d \in ToSet(input.edges)}
<1>1. edgesOut \in Seq(EdgeRowSet) /\ EdgeRowSet = EdgeRowsOf(D, Nat \ {0})
  BY DEF WriterInv, EdgeRowSet
<1>2. edgesOut[j] \in EdgeRowSet
  BY <1>1, ElementOfSeq
<1> HIDE DEF D
<1> PICK r \in EdgeRowsOf(D, Nat \ {0}) : r = edgesOut[j]
  BY <1>1, <1>2
<1>3. PICK o \in Orders, d \in D, l \in Nat \ {0} :
        r = Row([order |-> o, edge |-> d], EdgeLines(d), l)
  BY DEF EdgeRowsOf
<1>4. /\ edgesOut[j].fields.edge = d /\ edgesOut[j].columns = EdgeLines(d)
      /\ edgesOut[j].length \in Nat \ {0}
  BY <1>3 DEF Row
<1>5. d = EdgeRow(Labelled(e))
  BY <1>4 DEF EdgeOf, Seen
<1>6. e \in Edges(Ids) /\ IsEdge(e)
  BY InputParts DEF EdgesDue, WriterInv
<1> PICK x : x = Labelled(e)
  OBVIOUS
<1>7. x = [e EXCEPT !.label = EdgeLabel(e)]
  BY DEF Labelled
<1>8. /\ parseEdge(EdgeRow(x)) = [e EXCEPT !.label = Printed(EdgeLabel(e))]
      /\ EdgeLines(EdgeRow(x)) = IF Printed(EdgeLabel(e)) = "with newline"
                                THEN <<4, 6>> ELSE << 9 >>
  BY <1>6, <1>7, EdgeParses
<1>9. EdgeBreaks(EdgeRead(e)) <=> Printed(EdgeLabel(e)) = "with newline"
  <2>1. EdgeRead(e).label = Printed(EdgeLabel(e))
    BY <1>6 DEF EdgeRead, Edges
  <2> QED
    BY <2>1 DEF EdgeBreaks
<1> QED
  BY <1>4, <1>5, <1>8, <1>9 DEF EdgeRowOf, EdgeRead

\* Every row of edges.csv reads as one of the edges due.
LEMMA EdgeRowIs ==
  ASSUME WriterInv, input.format = "csv", NEW j \in 1..Len(edgesOut)
  PROVE  /\ edgesOut[j].length \in Nat \ {0}
         /\ \E e \in EdgesDue : EdgeRowOf(j, e)
<1>1. j \in DOMAIN edgesOut
  BY LenProperties DEF WriterInv
<1> PICK e \in EdgesDue : EdgeOf(edgesOut[j]) = Seen(e)
  BY <1>1, EdgeWrittenIs
<1> QED
  BY EdgeOfRow

\* Every edge due has its row.
LEMMA EdgeHasRow ==
  ASSUME WriterInv, input.format = "csv", NEW e \in EdgesDue
  PROVE  \E j \in 1..Len(edgesOut) : EdgeRowOf(j, e)
<1>1. {EdgeOf(r) : r \in ToSet(edgesOut)} = {Seen(d) : d \in EdgesDue}
  BY DEF WriterInv, EdgesWritten
<1>2. \E r \in ToSet(edgesOut) : EdgeOf(r) = Seen(e)
  BY <1>1
<1>3. DOMAIN edgesOut = 1..Len(edgesOut)
  BY LenProperties DEF WriterInv
<1>4. PICK j \in 1..Len(edgesOut) : EdgeOf(edgesOut[j]) = Seen(e)
  BY <1>2, <1>3 DEF ToSet
<1> QED
  BY <1>4, EdgeOfRow

\* Both files are made of the lines of rows.
LEMMA FilesAreRows ==
  ASSUME WriterInv, input.format = "csv"
  PROVE  /\ AreSplit(rowsOut) /\ AreSplit(edgesOut)
         /\ AreRows(Lines(rowsOut)) /\ AreRows(Lines(edgesOut))
<1>1. rowsOut \in Seq(NodeRowSet) /\ edgesOut \in Seq(EdgeRowSet)
  BY DEF WriterInv
<1>2. /\ \A a \in Nat : <<a>> \in Seq(Nat) /\ Len(<<a>>) # 0
      /\ \A a, b \in Nat : <<a, b>> \in Seq(Nat) /\ Len(<<a, b>>) # 0
  OBVIOUS
<1>3. \A k \in 1..Len(rowsOut) : /\ rowsOut[k].length \in Nat \ {0}
                                 /\ rowsOut[k].columns \in {<< 18 >>, <<3, 16>>, <<16, 3>>}
  BY NodeRowIs
<1>4. \A j \in 1..Len(edgesOut) : /\ edgesOut[j].length \in Nat \ {0}
                                  /\ edgesOut[j].columns \in {<<4, 6>>, << 9 >>}
  BY EdgeRowIs DEF EdgeRowOf
<1>5. AreSplit(rowsOut)
  BY ZenonT(60), <1>1, <1>2, <1>3 DEF AreSplit
<1>6. AreSplit(edgesOut)
  BY ZenonT(60), <1>1, <1>2, <1>4 DEF AreSplit
<1> QED
  BY <1>5, <1>6, LinesAreRows

\* What edges.csv is to have of the edges of each node.
LEMMA EdgesOnFileAre ==
  ASSUME WriterInv, NEW i \in Ids
  PROVE  EdgesOnFile(i) = {EdgeRead(e) : e \in {e \in ToSet(input.edges) : e.src = i /\ Accepted(e)}}
<1>1. ToSet(OutEdges(i)) = {e \in ToSet(input.edges) : e.src = i}
  BY OutEdgesAre DEF WriterInv
<1> QED
  BY <1>1 DEF EdgesOnFile, EdgeRead

\* An edge due is one of those.
LEMMA DueIsOnFile ==
  ASSUME WriterInv, input.format = "csv", NEW e \in EdgesDue
  PROVE  e.src \in Ids /\ ~Skipped(e.src) /\ EdgeRead(e) \in EdgesOnFile(e.src)
<1>1. e \in ToSet(input.edges) /\ Accepted(e) /\ ~Skipped(e.src)
  BY DEF EdgesDue
<1>2. e.src \in Ids
  BY <1>1, InputParts DEF WriterInv, Edges
<1> QED
  BY <1>1, <1>2, EdgesOnFileAre

\* Once the nodes are written, every one of those is due.
LEMMA OnFileIsDue ==
  ASSUME WriterInv, input.format = "csv", phase # "nodes", NEW i \in Ids, ~Skipped(i),
         NEW x \in EdgesOnFile(i)
  PROVE  \E e \in EdgesDue : x = EdgeRead(e)
<1>1. PICK e \in ToSet(input.edges) : e.src = i /\ Accepted(e) /\ x = EdgeRead(e)
  BY EdgesOnFileAre
<1>2. e \in EdgesDue
  BY <1>1 DEF EdgesDue, Listed, Passed
<1> QED
  BY <1>1, <1>2

\* What has been read: the first m nodes, with the special ones among them,
\* and the first m edges, between nodes that there are; from one line each.
Special  == {"Module", "Trap", "Start"}
NodeSet  == {OnFile(input.nodes[i]) : i \in Ids}
ReadEdgeSet == {EdgeRead(e) : e \in ToSet(input.edges)}
\* The first m nodes.
FirstNodes(ns, sp, m) ==
  /\ ns \in Seq(NodeSet) /\ Len(ns) = m
  /\ \A k \in 1..m : /\ WrittenIds[k] = k - 1 /\ ns[k] = OnFile(input.nodes[k - 1])
                     /\ rowsOut[k].columns = << 18 >> /\ ~Breaks(input.nodes[k - 1])
  /\ sp = {<<ns[k].kind, k - 1>> : k \in {k \in 1..m : ns[k].kind \in Special}}
\* The first m edges.
FirstEdges(es, m) ==
  /\ es \in Seq(ReadEdgeSet) /\ Len(es) = m
  /\ \A j \in 1..m : /\ es[j] = parseEdge(edgesOut[j].fields.edge)
                     /\ edgesOut[j].columns = << 9 >>
                     /\ EndsOf(edgesOut[j]) \subseteq 0 .. Len(rowsOut) - 1

\* Before the first row, no node is read.
LEMMA NoNodes == FirstNodes(<<>>, {}, 0)
<1>1. <<>> \in Seq(NodeSet) /\ Len(<<>>) = 0 /\ 1..0 = {}
  OBVIOUS
<1> QED
  BY <1>1 DEF FirstNodes

\* Before the first row, no edge is read.
LEMMA NoEdgesRead == FirstEdges(<<>>, 0)
<1>1. <<>> \in Seq(ReadEdgeSet) /\ Len(<<>>) = 0 /\ 1..0 = {}
  OBVIOUS
<1> QED
  BY <1>1 DEF FirstEdges

\* The next node, if it fits.
LEMMA NextNode ==
  ASSUME NEW m \in Nat, NEW ns, NEW sp, FirstNodes(ns, sp, m), NodeRowOf(m + 1, m),
         rowsOut[m + 1].columns = << 18 >>, Parses(rowsOut[m + 1].fields)
  PROVE  LET n == parseNode(rowsOut[m + 1].fields)
         IN  FirstNodes(Append(ns, n),
                        IF n.kind \in Special THEN sp \cup {<<n.kind, n.id>>} ELSE sp, m + 1)
<1> DEFINE n == parseNode(rowsOut[m + 1].fields)
           q == Append(ns, n)
           z == IF n.kind \in Special THEN sp \cup {<<n.kind, n.id>>} ELSE sp
           h == m + 1
<1>1. /\ n = OnFile(input.nodes[m]) /\ m \in Ids /\ WrittenIds[h] = m /\ n.id = m
      /\ rowsOut[h].columns = << 18 >> /\ ~Breaks(input.nodes[m])
  BY DEF NodeRowOf
<1>2. n \in NodeSet
  BY <1>1 DEF NodeSet
<1>3. ns \in Seq(NodeSet) /\ Len(ns) = m
  BY DEF FirstNodes
<1> HIDE DEF n
<1>4. q \in Seq(NodeSet) /\ Len(q) = h /\ (\A k \in 1..m : q[k] = ns[k]) /\ q[h] = n
  BY <1>2, <1>3, AppendIsSeq
<1>5. (\A k : k \in 1..h <=> k \in 1..m \/ k = h) /\ h - 1 = m
  OBVIOUS
<1> HIDE DEF q, h
<1>6. \A k \in 1..h : /\ WrittenIds[k] = k - 1 /\ q[k] = OnFile(input.nodes[k - 1])
                      /\ rowsOut[k].columns = << 18 >> /\ ~Breaks(input.nodes[k - 1])
  BY <1>1, <1>4, <1>5 DEF FirstNodes
<1>7. z = {<<q[k].kind, k - 1>> : k \in {k \in 1..h : q[k].kind \in Special}}
  <2> DEFINE old == {<<ns[k].kind, k - 1>> : k \in {k \in 1..m : ns[k].kind \in Special}}
             new == {<<q[k].kind, k - 1>> : k \in {k \in 1..h : q[k].kind \in Special}}
  <2>1. sp = old
    BY DEF FirstNodes
  <2>2. old = {<<q[k].kind, k - 1>> : k \in {k \in 1..m : q[k].kind \in Special}}
    BY <1>4
  <2>3. new = {<<q[k].kind, k - 1>> : k \in {k \in 1..m : q[k].kind \in Special}}
              \cup (IF q[h].kind \in Special THEN {<<q[h].kind, h - 1>>} ELSE {})
    BY <1>5
  <2> QED
    BY <1>1, <1>4, <1>5, <2>1, <2>2, <2>3
<1> HIDE DEF z
<1>8. FirstNodes(q, z, h)
  BY <1>4, <1>6, <1>7 DEF FirstNodes
<1> QED
  BY <1>8 DEF q, z, h, n

\* The next edge, if it fits.
LEMMA NextEdge ==
  ASSUME NEW m \in Nat, NEW es, FirstEdges(es, m), NEW x \in ReadEdgeSet,
         x = parseEdge(edgesOut[m + 1].fields.edge), edgesOut[m + 1].columns = << 9 >>,
         EndsOf(edgesOut[m + 1]) \subseteq 0 .. Len(rowsOut) - 1
  PROVE  FirstEdges(Append(es, x), m + 1)
<1> DEFINE q == Append(es, x)
           h == m + 1
<1>1. es \in Seq(ReadEdgeSet) /\ Len(es) = m
  BY DEF FirstEdges
<1>2. q \in Seq(ReadEdgeSet) /\ Len(q) = h /\ (\A k \in 1..m : q[k] = es[k]) /\ q[h] = x
  BY <1>1, AppendIsSeq
<1>3. \A k : k \in 1..h <=> k \in 1..m \/ k = h
  OBVIOUS
<1>4. /\ x = parseEdge(edgesOut[h].fields.edge) /\ edgesOut[h].columns = << 9 >>
      /\ EndsOf(edgesOut[h]) \subseteq 0 .. Len(rowsOut) - 1
  OBVIOUS
<1> HIDE DEF q, h
<1>5. \A j \in 1..h : /\ q[j] = parseEdge(edgesOut[j].fields.edge)
                      /\ edgesOut[j].columns = << 9 >>
                      /\ EndsOf(edgesOut[j]) \subseteq 0 .. Len(rowsOut) - 1
  BY <1>2, <1>3, <1>4 DEF FirstEdges
<1>6. FirstEdges(q, h)
  BY <1>2, <1>5 DEF FirstEdges
<1> QED
  BY <1>6 DEF q, h

-----------------------------------------------------------------------------
(* Reading a graph. *)

\* What the reader has read: m nodes or edges of a file, or all of them.
NodesAt(m)  == \E R : /\ R = Lines(rowsOut) /\ m \in 0..Len(R) /\ m \in 0..Len(rowsOut)
                      /\ FirstNodes(nodes, special, m)
                      /\ Reads(Bytes(R), R, Ends(R), m)
AllNodes    == FirstNodes(nodes, special, Len(rowsOut)) /\ ~CannotEnd(Bytes(Lines(rowsOut)))
EdgesAt(m)  == \E R : /\ R = Lines(edgesOut) /\ m \in 0..Len(R) /\ m \in 0..Len(edgesOut)
                      /\ FirstEdges(edges, m)
                      /\ Reads(Bytes(R), R, Ends(R), m)
MissedEdges == \E R : R = Lines(edgesOut) /\ Missed(Bytes(R))
AllEdges    == FirstEdges(edges, Len(edgesOut)) /\ ~CannotEnd(Bytes(Lines(edgesOut)))

\* The stages of reading.
Unread     == /\ phase \in {"nodes", "edges", "written"} /\ reader = "closed"
              /\ nodes = <<>> /\ edges = <<>> /\ special = {}
InNodes    == phase = "reading nodes" /\ edges = <<>> /\ \E m : NodesAt(m)
AfterNodes == phase = "reading nodes" /\ edges = <<>> /\ reader = "closed" /\ AllNodes
InEdges    == phase = "reading edges" /\ AllNodes /\ ((\E m : EdgesAt(m)) \/ MissedEdges)
AfterEdges == phase = "reading edges" /\ AllNodes /\ reader = "closed" /\ AllEdges
Loaded     == phase = "loaded" /\ AllNodes /\ reader = "closed" /\ AllEdges
Failed     == phase \in {"reading nodes", "reading edges"} /\ reader = "failed" /\ NotReadable

\* The invariant of the file.  In one stage, the end of edges.csv is missed and
\* rows of old bytes are read, until the reader fails.
FileInv ==
  /\ WriterInv
  /\ Unread \/ (input.format = "csv" /\ (InNodes \/ AfterNodes \/ InEdges \/ AfterEdges
                                         \/ Loaded \/ Failed))

\* What depends on the writer's variables only.
LEMMA FirstKept ==
  ASSUME input' = input, rowsOut' = rowsOut, edgesOut' = edgesOut
  PROVE  /\ \A m : FirstNodes(nodes, special, m)' <=> FirstNodes(nodes', special', m)
         /\ \A m : FirstEdges(edges, m)' <=> FirstEdges(edges', m)
         /\ NotReadable' <=> NotReadable
         /\ Lines(rowsOut)' = Lines(rowsOut) /\ Lines(edgesOut)' = Lines(edgesOut)
         /\ CannotEnd(Bytes(Lines(rowsOut)))' <=> CannotEnd(Bytes(Lines(rowsOut)))
         /\ CannotEnd(Bytes(Lines(edgesOut)))' <=> CannotEnd(Bytes(Lines(edgesOut)))
<1>1. WrittenIds' = WrittenIds
  BY DEF WrittenIds
<1>2. NodeSet' = NodeSet /\ ReadEdgeSet' = ReadEdgeSet /\ Ids' = Ids
  BY DEF NodeSet, ReadEdgeSet, Ids
<1>3. \A r : EndsOf(r)' = EndsOf(r)
  BY DEF EndsOf
<1>4. /\ Lines(rowsOut)' = Lines(rowsOut) /\ Lines(edgesOut)' = Lines(edgesOut)
      /\ Bytes(Lines(rowsOut))' = Bytes(Lines(rowsOut))
      /\ Bytes(Lines(edgesOut))' = Bytes(Lines(edgesOut))
  OBVIOUS
<1>5. \A m : FirstNodes(nodes, special, m)' <=> FirstNodes(nodes', special', m)
  BY <1>1, <1>2 DEF FirstNodes
<1>6. \A m : FirstEdges(edges, m)' <=> FirstEdges(edges', m)
  BY <1>2, <1>3 DEF FirstEdges
<1>7. \A i : EdgesOnFile(i)' = EdgesOnFile(i) /\ (Skipped(i)' <=> Skipped(i))
  BY <1>2 DEF EdgesOnFile, OutEdges, Accepted, Skipped
<1>8. NotReadable' <=> NotReadable
  BY <1>1, <1>2, <1>3, <1>4, <1>7 DEF NotReadable, NoGap
<1>9. /\ CannotEnd(Bytes(Lines(rowsOut)))' <=> CannotEnd(Bytes(Lines(rowsOut)))
      /\ CannotEnd(Bytes(Lines(edgesOut)))' <=> CannotEnd(Bytes(Lines(edgesOut)))
  BY <1>4 DEF CannotEnd
<1> QED
  BY <1>4, <1>5, <1>6, <1>8, <1>9

\* A file whose end is not seen cannot be read.
LEMMA CannotBeRead ==
  ASSUME CannotEnd(Bytes(Lines(rowsOut))) \/ CannotEnd(Bytes(Lines(edgesOut)))
  PROVE  NotReadable
BY DEF CannotEnd, NotReadable

\* The lines of the rows that have been read, and of the next.
LEMMA NodeLinesRead ==
  ASSUME WriterInv, input.format = "csv", NEW R, R = Lines(rowsOut), NEW m \in 0..Len(rowsOut),
         FirstNodes(nodes, special, m)
  PROVE  /\ Len(R) \in Nat /\ Len(rowsOut) \in Nat /\ m \in 0..Len(R) /\ m \in Nat
         /\ \A j \in 1..m : R[j] = FirstLine(rowsOut, j)
         /\ m < Len(R) => m + 1 \in 1..Len(rowsOut) /\ R[m + 1] = FirstLine(rowsOut, m + 1)
         /\ m = Len(R) => m = Len(rowsOut)
<1>1. \A k \in 1..m : rowsOut[k].columns = << 18 >>
  BY DEF FirstNodes
<1>2. Len(<< 18 >>) = 1
  OBVIOUS
<1>3. Single(rowsOut, m)
  BY <1>1, <1>2 DEF Single
<1>4. AreSplit(rowsOut)
  BY FilesAreRows
<1>5. /\ Len(R) \in Nat /\ Len(rowsOut) \in Nat /\ m <= Len(R)
      /\ \A j \in 1..m : R[j] = FirstLine(rowsOut, j)
      /\ m < Len(rowsOut) => m < Len(R) /\ R[m + 1] = FirstLine(rowsOut, m + 1)
      /\ m = Len(rowsOut) => Len(R) = m
  BY <1>3, <1>4, FirstLines
<1> QED
  BY <1>5

\* The same of edges.
LEMMA EdgeLinesRead ==
  ASSUME WriterInv, input.format = "csv", NEW R, R = Lines(edgesOut), NEW m \in 0..Len(edgesOut),
         FirstEdges(edges, m)
  PROVE  /\ Len(R) \in Nat /\ Len(edgesOut) \in Nat /\ m \in 0..Len(R) /\ m \in Nat
         /\ m < Len(R) => m + 1 \in 1..Len(edgesOut) /\ R[m + 1] = FirstLine(edgesOut, m + 1)
         /\ m = Len(R) => m = Len(edgesOut)
<1>1. \A k \in 1..m : edgesOut[k].columns = << 9 >>
  BY DEF FirstEdges
<1>2. Len(<< 9 >>) = 1
  OBVIOUS
<1>3. Single(edgesOut, m)
  BY <1>1, <1>2 DEF Single
<1>4. AreSplit(edgesOut)
  BY FilesAreRows
<1>5. /\ Len(R) \in Nat /\ Len(edgesOut) \in Nat /\ m <= Len(R)
      /\ m < Len(edgesOut) => m < Len(R) /\ R[m + 1] = FirstLine(edgesOut, m + 1)
      /\ m = Len(edgesOut) => Len(R) = m
  BY <1>3, <1>4, FirstLines
<1> QED
  BY <1>5

\* The nodes that are read stay as they are.
LEMMA NodesStay ==
  ASSUME input' = input, rowsOut' = rowsOut, edgesOut' = edgesOut, AllNodes,
         nodes' = nodes, special' = special
  PROVE  AllNodes'
BY FirstKept DEF AllNodes

\* It holds when nothing has been written.
LEMMA FileInitInv ==
  ASSUME FInit
  PROVE  FileInv
BY WriterInitInv DEF FInit, FileInv, Unread, WriterInit, Begin

\* Until ReadNodes, nothing is read.
LEMMA UnreadSteps ==
  ASSUME WriterInv, Unread, FNext
  PROVE  Unread' \/ (input.format = "csv" /\ input' = input /\ InNodes')
<1>1. CASE Write
  <2>1. /\ reader' = reader /\ nodes' = nodes /\ edges' = edges /\ special' = special
    BY <1>1 DEF Write, readerVars
  <2>2. phase' \in {"nodes", "edges", "written"}
    BY <1>1 DEF Write, WriterNext, Unread, Skip, WriteRows, WriteDot, WriteJson,
                WriteJsonEdges, EndNodes, EndEdges
  <2> QED
    BY <2>1, <2>2 DEF Unread
<1>2. CASE ReadNodes
  <2> PICK R : R = Lines(rowsOut)
    OBVIOUS
  <2>1. /\ input.format = "csv" /\ fopen(Bytes(R)) /\ phase' = "reading nodes"
        /\ input' = input /\ rowsOut' = rowsOut /\ edgesOut' = edgesOut
        /\ nodes' = nodes /\ edges' = edges /\ special' = special
    BY <1>2 DEF ReadNodes
  <2>2. AreRows(R) /\ Len(R) \in Nat
    BY <2>1, FilesAreRows, LenProperties DEF AreRows
  <2>3. Holds(Bytes(R), R, Ends(R))
    BY <2>2, BytesHold
  <2>4. Reads(Bytes(R), R, Ends(R), 0)'
    BY <2>1, <2>2, <2>3, OpenReads
  <2>5. FirstNodes(nodes', special', 0) /\ edges' = <<>>
    BY <2>1, NoNodes DEF Unread
  <2>6. FirstNodes(nodes, special, 0)'
    BY <2>1, <2>5, FirstKept
  <2>7. 0 \in 0..Len(R) /\ 0 \in 0..Len(rowsOut)
    BY <2>2, WrittenIdsAre
  <2>8. NodesAt(0)'
    <3>1. Lines(rowsOut)' = R
      BY <2>1, FirstKept
    <3> QED
      BY <2>1, <2>4, <2>6, <2>7, <3>1 DEF NodesAt
  <2> QED
    BY <2>1, <2>5, <2>8 DEF InNodes
<1>3. ~ReadLine
  BY DEF Unread, ReadLine, readLine, KeepBuffer, Refill, NothingGiven, ReturnRow, GoOn, EndOfFile
<1>4. ~EmptyRow /\ ~InsertNode /\ ~InsertEdge /\ ~RowRefused /\ ~ReadEdges /\ ~EndRead
  BY DEF Unread, EmptyRow, InsertNode, InsertEdge, RowRefused, ReadEdges, EndRead, Reading
<1> QED
  BY <1>1, <1>2, <1>3, <1>4 DEF FNext, readGraph

\* Between two rows.
LEMMA ReaderIs ==
  ASSUME NEW R, NEW f, NEW e, NEW m, Reads(f, R, e, m) \/ Missed(f)
  PROVE  reader \in {"call", "scan", "returned"}
BY DEF Reads, Calling, Returned, Ended, Missed

\* While the nodes are read.
LEMMA NodesReadLine ==
  ASSUME WriterInv, input.format = "csv", InNodes, ReadLine
  PROVE  InNodes' \/ Failed'
<1> PICK m : NodesAt(m)
  BY DEF InNodes
<1> PICK R : /\ R = Lines(rowsOut) /\ m \in 0..Len(R) /\ m \in 0..Len(rowsOut)
             /\ FirstNodes(nodes, special, m)
             /\ Reads(Bytes(R), R, Ends(R), m)
  BY DEF NodesAt
<1>1. AreRows(R) /\ Holds(Bytes(R), R, Ends(R))
  BY FilesAreRows, BytesHold
<1>2. /\ readLine /\ phase' = phase /\ input' = input /\ rowsOut' = rowsOut
      /\ edgesOut' = edgesOut /\ nodes' = nodes /\ edges' = edges /\ special' = special
  BY DEF ReadLine, writerVars
<1>3. Reads(Bytes(R), R, Ends(R), m)' \/ (reader' = "failed" /\ CannotEnd(Bytes(R)))
  BY <1>1, <1>2, ReadLineKeeps
<1>4. CASE Reads(Bytes(R), R, Ends(R), m)'
  <2>1. FirstNodes(nodes, special, m)'
    BY <1>2, FirstKept
  <2>2. Lines(rowsOut)' = R
    BY <1>2, FirstKept
  <2>3. NodesAt(m)'
    BY <1>2, <1>4, <2>1, <2>2 DEF NodesAt
  <2> QED
    BY <1>2, <2>3 DEF InNodes
<1>5. CASE reader' = "failed" /\ CannotEnd(Bytes(R))
  <2>1. NotReadable
    BY <1>5, CannotBeRead
  <2>2. NotReadable'
    BY <1>2, <2>1, FirstKept
  <2> QED
    BY <1>2, <1>5, <2>2 DEF Failed, InNodes
<1> QED
  BY <1>3, <1>4, <1>5

\* An empty row, as the end of nodes.csv is, comes after all its rows.
LEMMA NodesEmptyRow ==
  ASSUME WriterInv, input.format = "csv", InNodes, EmptyRow
  PROVE  InNodes' \/ AfterNodes'
<1> PICK m : NodesAt(m)
  BY DEF InNodes
<1> PICK R : /\ R = Lines(rowsOut) /\ m \in 0..Len(R) /\ m \in 0..Len(rowsOut)
             /\ FirstNodes(nodes, special, m)
             /\ Reads(Bytes(R), R, Ends(R), m)
  BY DEF NodesAt
<1>1. AreRows(R) /\ Len(R) \in Nat
  BY FilesAreRows, LenProperties DEF AreRows
<1>2. /\ reader = "returned" /\ row = <<>> /\ Loop /\ SameBuffer
      /\ phase' = phase /\ input' = input /\ rowsOut' = rowsOut /\ edgesOut' = edgesOut
      /\ nodes' = nodes /\ edges' = edges /\ special' = special
  BY DEF EmptyRow, writerVars, SameBuffer
<1>3. FirstNodes(nodes, special, m)' /\ Lines(rowsOut)' = R
  BY <1>2, FirstKept
<1>4. ~Calling(Bytes(R), R, Ends(R), m)
  BY <1>2 DEF Calling
<1>5. ~Returned(Bytes(R), R, Ends(R), m)
  <2> SUFFICES ASSUME m < Len(R), row = Line(R, m + 1)
               PROVE  FALSE
    BY DEF Returned
  <2>1. m + 1 \in 1..Len(R)
    BY <1>1
  <2> QED
    BY <1>1, <1>2, <2>1, RowOfLine
<1>6. CASE Ended(Bytes(R), R, m)
  <2>1. m = Len(rowsOut) /\ ~CannotEnd(Bytes(R)) /\ eof = TRUE
    BY <1>6, NodeLinesRead DEF Ended, CannotEnd
  <2>2. AllNodes'
    BY <1>2, <1>3, <2>1, FirstKept DEF AllNodes
  <2>3. reader' = "closed"
    BY <1>2, <2>1 DEF Loop
  <2> QED
    BY <1>2, <2>2, <2>3 DEF AfterNodes, InNodes
<1>7. CASE Missed(Bytes(R)) /\ m = Len(R)
  <2>1. reader' = "call"
    BY <1>2, <1>7 DEF Loop, Missed
  <2>2. Missed(Bytes(R))'
    BY <1>2, <1>7, <2>1, MissedLoop
  <2>3. Reads(Bytes(R), R, Ends(R), m)'
    BY <1>7, <2>2 DEF Reads
  <2>4. NodesAt(m)'
    BY <1>2, <1>3, <2>3 DEF NodesAt
  <2> QED
    BY <1>2, <2>4 DEF InNodes
<1> QED
  BY <1>4, <1>5, <1>6, <1>7 DEF Reads

\* What a line read is, of the nodes' file after m rows.
LEMMA NodeRowRead ==
  ASSUME WriterInv, input.format = "csv", NEW m, NodesAt(m), reader = "returned", row # <<>>
  PROVE  LET R == Lines(rowsOut)
         IN  \/ /\ m + 1 \in 1..Len(rowsOut) /\ m \in Nat /\ eof = FALSE
                /\ RowOf(R, row) = m + 1 /\ R[m + 1] = FirstLine(rowsOut, m + 1)
                /\ Returned(Bytes(R), R, Ends(R), m)
             \/ ~NodeFits(RowOf(R, row)) /\ StaleNewline(Bytes(R))
<1> PICK R : /\ R = Lines(rowsOut) /\ m \in 0..Len(R) /\ m \in 0..Len(rowsOut)
             /\ FirstNodes(nodes, special, m)
             /\ Reads(Bytes(R), R, Ends(R), m)
  BY DEF NodesAt
<1>1. /\ AreRows(R) /\ Len(R) \in Nat /\ m \in Nat
      /\ \A j \in 1..m : R[j] = FirstLine(rowsOut, j)
      /\ m < Len(R) => m + 1 \in 1..Len(rowsOut) /\ R[m + 1] = FirstLine(rowsOut, m + 1)
      /\ m = Len(R) => m = Len(rowsOut)
  BY FilesAreRows, NodeLinesRead
<1>2. ~Calling(Bytes(R), R, Ends(R), m) /\ ~Ended(Bytes(R), R, m)
  BY DEF Calling, Ended
<1>3. CASE Returned(Bytes(R), R, Ends(R), m)
  <2>1. m < Len(R) /\ m + 1 \in 1..Len(R) /\ row = Line(R, m + 1) /\ eof = FALSE
    BY <1>1, <1>3 DEF Returned, Buffered
  <2>2. RowOf(R, row) = m + 1
    BY <1>1, <2>1, RowOfLine
  <2> QED
    BY <1>1, <1>3, <2>1, <2>2
<1>4. CASE Missed(Bytes(R)) /\ m = Len(R)
  <2>1. StaleNewline(Bytes(R))
    BY <1>4 DEF Missed
  <2> DEFINE j == RowOf(R, row)
  <2>2. j \in 0..Len(R)
    BY <1>1, RowOfAny
  <2> HIDE DEF j
  <2>3. ~NodeFits(j)
    <3> SUFFICES ASSUME NodeFits(j)
                 PROVE  FALSE
      OBVIOUS
    <3>1. j \in 1..m /\ j \in 1..Len(rowsOut)
      BY <1>1, <1>4, <2>2 DEF NodeFits
    <3>2. R[j].of = j
      <4>1. R[j] = FirstLine(rowsOut, j)
        BY <1>1, <3>1
      <4> QED
        BY <4>1 DEF FirstLine
    <3>3. rowsOut[j].fields[NodeCol("id")] = Len(nodes)
      BY <3>2 DEF NodeFits
    <3>4. Len(nodes) = m /\ WrittenIds[j] = j - 1
      BY <3>1 DEF FirstNodes
    <3>5. \E i \in Ids : NodeRowOf(j, i)
      BY <3>1, NodeRowIs
    <3>6. rowsOut[j].fields[NodeCol("id")] = WrittenIds[j]
      BY <3>5 DEF NodeRowOf
    <3> QED
      BY <1>1, <3>1, <3>3, <3>4, <3>6
  <2> QED
    BY <2>1, <2>3 DEF j
<1> QED
  BY <1>2, <1>3, <1>4 DEF Reads

\* InsertNode adds the node of the next row.
LEMMA NodesInsert ==
  ASSUME WriterInv, input.format = "csv", InNodes, InsertNode
  PROVE  InNodes'
<1> PICK m : NodesAt(m)
  BY DEF InNodes
<1> PICK R : /\ R = Lines(rowsOut) /\ m \in 0..Len(R) /\ m \in 0..Len(rowsOut)
             /\ FirstNodes(nodes, special, m)
             /\ Reads(Bytes(R), R, Ends(R), m)
  BY DEF NodesAt
<1> PICK j : j = RowOf(R, row)
  OBVIOUS
<1> DEFINE n == parseNode(rowsOut[R[j].of].fields)
<1>1. /\ reader = "returned" /\ row # <<>> /\ NodeFits(j) /\ Loop /\ SameBuffer
      /\ nodes' = Append(nodes, n)
      /\ special' = IF n.kind \in Special THEN special \cup {<<n.kind, n.id>>} ELSE special
      /\ phase' = phase /\ input' = input /\ rowsOut' = rowsOut /\ edgesOut' = edgesOut
      /\ edges' = edges
  BY DEF InsertNode, Reading, writerVars, SameBuffer, Special
<1> HIDE DEF n
<1>2. AreRows(R) /\ Len(R) \in Nat /\ Holds(Bytes(R), R, Ends(R))
  BY FilesAreRows, LenProperties, BytesHold DEF AreRows
<1>3. /\ m + 1 \in 1..Len(rowsOut) /\ m \in Nat /\ j = m + 1
      /\ R[m + 1] = FirstLine(rowsOut, m + 1)
      /\ Returned(Bytes(R), R, Ends(R), m) /\ eof = FALSE
  BY <1>1, NodeRowRead
<1> DEFINE h == m + 1
<1>4. /\ R[j].of = h /\ rowsOut[h].columns[1] = 18 /\ Parses(rowsOut[h].fields)
      /\ rowsOut[h].fields[NodeCol("id")] = m
  <2>1. R[j].of = h /\ R[j].columns = rowsOut[h].columns[1]
    BY <1>3 DEF FirstLine
  <2>2. Len(nodes) = m
    BY DEF FirstNodes
  <2> HIDE DEF h
  <2> QED
    BY <1>1, <2>1, <2>2 DEF NodeFits
<1>5. NodeRowOf(h, m) /\ rowsOut[h].columns = << 18 >>
  <2>1. PICK i \in Ids : NodeRowOf(h, i)
    BY <1>3, NodeRowIs
  <2>2. rowsOut[h].columns \in {<< 18 >>, <<3, 16>>, <<16, 3>>}
    BY <1>3, NodeRowIs
  <2> HIDE DEF h
  <2>3. i = m
    BY <1>4, <2>1 DEF NodeRowOf
  <2> QED
    BY <1>4, <2>1, <2>2, <2>3
<1>6. FirstNodes(nodes', special', m + 1)
  <2>1. FirstNodes(Append(nodes, parseNode(rowsOut[m + 1].fields)),
                   IF parseNode(rowsOut[m + 1].fields).kind \in Special
                   THEN special \cup {<<parseNode(rowsOut[m + 1].fields).kind,
                                        parseNode(rowsOut[m + 1].fields).id>>}
                   ELSE special, m + 1)
    BY <1>3, <1>4, <1>5, NextNode
  <2>2. n = parseNode(rowsOut[m + 1].fields)
    BY <1>4 DEF n
  <2> QED
    BY <1>1, <2>1, <2>2
<1>7. FirstNodes(nodes, special, m + 1)' /\ Lines(rowsOut)' = R
  BY <1>1, <1>6, FirstKept
<1>8. reader' = "call"
  BY <1>1, <1>3 DEF Loop
<1>9. /\ Reads(Bytes(R), R, Ends(R), m + 1)' /\ m + 1 \in 0..Len(R)
      /\ m + 1 \in 0..Len(rowsOut)
  BY <1>1, <1>2, <1>3, <1>8, LoopReads
<1>10. NodesAt(m + 1)'
  BY <1>1, <1>7, <1>9 DEF NodesAt
<1> QED
  BY <1>1, <1>10 DEF InNodes

\* A line of nodes.csv is refused only if the file cannot be read.
LEMMA NodesRefuse ==
  ASSUME WriterInv, input.format = "csv", InNodes, RowRefused
  PROVE  Failed'
<1> PICK m : NodesAt(m)
  BY DEF InNodes
<1> PICK R : R = Lines(rowsOut)
  OBVIOUS
<1>1. /\ reader = "returned" /\ row # <<>> /\ ~NodeFits(RowOf(R, row))
      /\ reader' = "failed"
      /\ phase' = phase /\ input' = input /\ rowsOut' = rowsOut /\ edgesOut' = edgesOut
      /\ phase = "reading nodes"
  BY DEF RowRefused, writerVars, InNodes
<1>2. NotReadable
  <2>1. CASE StaleNewline(Bytes(R))
    BY <2>1, CannotBeRead DEF CannotEnd
  <2>2. CASE /\ m + 1 \in 1..Len(rowsOut) /\ m \in Nat /\ RowOf(R, row) = m + 1
             /\ R[m + 1] = FirstLine(rowsOut, m + 1)
    <3>1. PICK i \in Ids : NodeRowOf(m + 1, i)
      BY <2>2, NodeRowIs
    <3>2. Len(nodes) = m
      BY DEF NodesAt, FirstNodes
    <3> DEFINE h == m + 1
    <3>3. /\ h # 0 /\ h - 1 = m /\ h \in DOMAIN WrittenIds /\ h \in DOMAIN rowsOut
          /\ NodeRowOf(h, i) /\ RowOf(R, row) = h /\ R[h] = FirstLine(rowsOut, h)
      BY <2>2, <3>1, WrittenIdsAre
    <3> HIDE DEF h
    <3>4. \/ rowsOut[h].columns[1] # 18
          \/ ~Parses(rowsOut[h].fields)
          \/ WrittenIds[h] # m
      <4>1. R[h].of = h /\ R[h].columns = rowsOut[h].columns[1]
        BY <3>3 DEF FirstLine
      <4>2. rowsOut[h].fields[NodeCol("id")] = WrittenIds[h]
        BY <3>3 DEF NodeRowOf
      <4> QED
        BY <1>1, <3>2, <3>3, <4>1, <4>2 DEF NodeFits
    <3>5. CASE WrittenIds[h] # m
      <4>1. ~NoGap
        BY <3>3, <3>5 DEF NoGap
      <4> QED
        BY <4>1 DEF NotReadable
    <3>6. CASE rowsOut[h].columns[1] # 18 \/ ~Parses(rowsOut[h].fields)
      <4>1. rowsOut[h].columns # << 18 >> \/ ~Parses(rowsOut[h].fields)
        BY <3>6
      <4>2. Breaks(input.nodes[WrittenIds[h]])
        BY <3>3, <4>1 DEF NodeRowOf
      <4> QED
        BY <3>3, <4>2 DEF NotReadable
    <3> QED
      BY <3>4, <3>5, <3>6
  <2> QED
    BY <1>1, <2>1, <2>2, NodeRowRead
<1>3. NotReadable'
  BY <1>1, <1>2, FirstKept
<1> QED
  BY <1>1, <1>3 DEF Failed

\* The steps while nodes.csv is read.
LEMMA InNodesSteps ==
  ASSUME WriterInv, input.format = "csv", InNodes, FNext
  PROVE  input' = input /\ (InNodes' \/ AfterNodes' \/ Failed')
<1> PICK m : NodesAt(m)
  BY DEF InNodes
<1>1. phase = "reading nodes" /\ reader \in {"call", "scan", "returned"}
  BY ReaderIs DEF InNodes, NodesAt
<1>2. ~Write /\ ~ReadNodes /\ ~InsertEdge /\ ~ReadEdges /\ ~EndRead
  BY <1>1 DEF Write, WriterNext, Skip, WriteRows, WriteDot, WriteJson, WriteJsonEdges,
              EndNodes, EndEdges, Working, ReadNodes, InsertEdge, ReadEdges, EndRead, Reading
<1>3. ReadLine \/ EmptyRow \/ InsertNode \/ RowRefused
  BY <1>2 DEF FNext, readGraph
<1>4. input' = input
  BY <1>3 DEF ReadLine, EmptyRow, InsertNode, RowRefused, writerVars
<1> QED
  BY <1>3, <1>4, NodesReadLine, NodesEmptyRow, NodesInsert, NodesRefuse

\* Between the files.
LEMMA AfterNodesSteps ==
  ASSUME WriterInv, input.format = "csv", AfterNodes, FNext
  PROVE  input' = input /\ InEdges'
<1>1. phase = "reading nodes" /\ reader = "closed" /\ AllNodes /\ edges = <<>>
  BY DEF AfterNodes
<1>2. ~Write /\ ~ReadNodes /\ ~InsertEdge /\ ~InsertNode /\ ~EndRead /\ ~ReadLine /\ ~EmptyRow
      /\ ~RowRefused
  BY <1>1 DEF Write, WriterNext, Skip, WriteRows, WriteDot, WriteJson, WriteJsonEdges,
              EndNodes, EndEdges, Working, ReadNodes, InsertEdge, InsertNode, EndRead, Reading,
              ReadLine, readLine, KeepBuffer, Refill, NothingGiven, ReturnRow, GoOn, EndOfFile,
              EmptyRow, RowRefused
<1>3. ReadEdges
  BY <1>2 DEF FNext, readGraph
<1> PICK R : R = Lines(edgesOut)
  OBVIOUS
<1>4. /\ fopen(Bytes(R)) /\ phase' = "reading edges"
      /\ input' = input /\ rowsOut' = rowsOut /\ edgesOut' = edgesOut
      /\ nodes' = nodes /\ edges' = edges /\ special' = special
  BY <1>3 DEF ReadEdges
<1>5. AreRows(R) /\ Len(R) \in Nat
  BY FilesAreRows, LenProperties DEF AreRows
<1>6. Holds(Bytes(R), R, Ends(R))
  BY <1>5, BytesHold
<1>7. Reads(Bytes(R), R, Ends(R), 0)'
  BY <1>4, <1>5, <1>6, OpenReads
<1>8. FirstEdges(edges', 0)
  BY <1>1, <1>4, NoEdgesRead
<1>9. FirstEdges(edges, 0)' /\ AllNodes' /\ Lines(edgesOut)' = R
  BY <1>1, <1>4, <1>8, FirstKept, NodesStay
<1>10. 0 \in 0..Len(R) /\ 0 \in 0..Len(edgesOut)
  BY <1>5, LenProperties DEF WriterInv
<1>11. EdgesAt(0)'
  BY <1>4, <1>7, <1>9, <1>10 DEF EdgesAt
<1> QED
  BY <1>4, <1>9, <1>11 DEF InEdges

\* While the edges are read.
LEMMA EdgesReadLine ==
  ASSUME WriterInv, input.format = "csv", InEdges, ReadLine
  PROVE  InEdges' \/ Failed'
<1> PICK R : R = Lines(edgesOut)
  OBVIOUS
<1>1. AreRows(R) /\ Holds(Bytes(R), R, Ends(R))
  BY FilesAreRows, BytesHold
<1>2. /\ readLine /\ phase' = phase /\ input' = input /\ rowsOut' = rowsOut
      /\ edgesOut' = edgesOut /\ nodes' = nodes /\ edges' = edges /\ special' = special
      /\ phase = "reading edges" /\ AllNodes
  BY DEF ReadLine, writerVars, InEdges
<1>3. AllNodes' /\ Lines(edgesOut)' = R
  BY <1>2, FirstKept, NodesStay
<1>4. ASSUME reader' = "failed", CannotEnd(Bytes(R))
      PROVE  Failed'
  <2>1. NotReadable
    BY <1>4, CannotBeRead
  <2>2. NotReadable'
    BY <1>2, <2>1, FirstKept
  <2> QED
    BY <1>2, <1>4, <2>2 DEF Failed
<1>5. CASE \E m : EdgesAt(m)
  <2> PICK m : EdgesAt(m)
    BY <1>5
  <2>1. /\ m \in 0..Len(R) /\ m \in 0..Len(edgesOut) /\ FirstEdges(edges, m)
        /\ Reads(Bytes(R), R, Ends(R), m)
    BY DEF EdgesAt
  <2>2. Reads(Bytes(R), R, Ends(R), m)' \/ (reader' = "failed" /\ CannotEnd(Bytes(R)))
    BY <1>1, <1>2, <2>1, ReadLineKeeps
  <2>3. CASE Reads(Bytes(R), R, Ends(R), m)'
    <3>1. FirstEdges(edges, m)'
      BY <1>2, <2>1, FirstKept
    <3>2. EdgesAt(m)'
      BY <1>2, <1>3, <2>1, <2>3, <3>1 DEF EdgesAt
    <3> QED
      BY <1>2, <1>3, <3>2 DEF InEdges
  <2> QED
    BY <1>4, <2>2, <2>3
<1>6. CASE MissedEdges
  <2>1. Missed(Bytes(R)) /\ Bytes(R) \in Seq(Byte)
    BY <1>1, <1>6 DEF MissedEdges, Holds, HoldsFirst
  <2>2. Missed(Bytes(R))' \/ (reader' = "failed" /\ CannotEnd(Bytes(R)))
    BY <1>2, <2>1, MissedReads
  <2>3. CASE Missed(Bytes(R))'
    BY <1>2, <1>3, <2>3 DEF InEdges, MissedEdges
  <2> QED
    BY <1>4, <2>2, <2>3
<1> QED
  BY <1>5, <1>6 DEF InEdges

\* Once the end is missed, the loop goes on.
LEMMA MissedGoesOn ==
  ASSUME NEW R, R = Lines(edgesOut), Missed(Bytes(R)), reader = "returned", Loop, SameBuffer,
         edgesOut' = edgesOut
  PROVE  MissedEdges'
<1>1. reader' = "call"
  BY DEF Missed, Loop
<1>2. Missed(Bytes(R))'
  BY <1>1, MissedLoop
<1>3. Lines(edgesOut)' = R
  OBVIOUS
<1> QED
  BY <1>2, <1>3 DEF MissedEdges

\* An empty row, as the end of edges.csv is, comes after all its rows.
LEMMA EdgesEmptyRow ==
  ASSUME WriterInv, input.format = "csv", InEdges, EmptyRow
  PROVE  InEdges' \/ AfterEdges'
<1> PICK R : R = Lines(edgesOut)
  OBVIOUS
<1>1. AreRows(R) /\ Len(R) \in Nat
  BY FilesAreRows, LenProperties DEF AreRows
<1>2. /\ reader = "returned" /\ row = <<>> /\ Loop /\ SameBuffer
      /\ phase' = phase /\ input' = input /\ rowsOut' = rowsOut /\ edgesOut' = edgesOut
      /\ nodes' = nodes /\ edges' = edges /\ special' = special
      /\ phase = "reading edges" /\ AllNodes
  BY DEF EmptyRow, writerVars, SameBuffer, InEdges
<1>3. AllNodes'
  BY <1>2, NodesStay
<1>4. CASE Missed(Bytes(R))
  <2>1. MissedEdges'
    BY <1>2, <1>4, MissedGoesOn
  <2> QED
    BY <1>2, <1>3, <2>1 DEF InEdges
<1>5. CASE (\E m : EdgesAt(m)) /\ ~Missed(Bytes(R))
  <2> PICK m : EdgesAt(m)
    BY <1>5
  <2>1. /\ m \in 0..Len(R) /\ m \in 0..Len(edgesOut) /\ FirstEdges(edges, m)
        /\ Reads(Bytes(R), R, Ends(R), m)
    BY DEF EdgesAt
  <2>2. ~Calling(Bytes(R), R, Ends(R), m)
    BY <1>2 DEF Calling
  <2>3. ~Returned(Bytes(R), R, Ends(R), m)
    <3> SUFFICES ASSUME m < Len(R), row = Line(R, m + 1)
                 PROVE  FALSE
      BY DEF Returned
    <3>1. m + 1 \in 1..Len(R)
      BY <1>1, <2>1
    <3> QED
      BY <1>1, <1>2, <3>1, RowOfLine
  <2>4. Ended(Bytes(R), R, m)
    BY <1>5, <2>1, <2>2, <2>3 DEF Reads
  <2>5. m = Len(edgesOut) /\ ~CannotEnd(Bytes(R)) /\ eof = TRUE
    BY <2>1, <2>4, EdgeLinesRead DEF Ended, CannotEnd
  <2>6. FirstEdges(edges, m)'
    BY <1>2, <2>1, FirstKept
  <2>7. AllEdges'
    BY <1>2, <2>5, <2>6, FirstKept DEF AllEdges
  <2>8. reader' = "closed"
    BY <1>2, <2>5 DEF Loop
  <2> QED
    BY <1>2, <1>3, <2>7, <2>8 DEF AfterEdges
<1> QED
  BY <1>4, <1>5 DEF InEdges, MissedEdges

\* What a line read is, of the edges' file after m rows.
LEMMA EdgeRowRead ==
  ASSUME WriterInv, input.format = "csv", NEW m, EdgesAt(m), reader = "returned", row # <<>>
  PROVE  LET R == Lines(edgesOut)
         IN  \/ /\ m + 1 \in 1..Len(edgesOut) /\ m \in Nat /\ eof = FALSE
                /\ RowOf(R, row) = m + 1 /\ R[m + 1] = FirstLine(edgesOut, m + 1)
                /\ Returned(Bytes(R), R, Ends(R), m)
             \/ Missed(Bytes(R))
<1> PICK R : /\ R = Lines(edgesOut) /\ m \in 0..Len(R) /\ m \in 0..Len(edgesOut)
             /\ FirstEdges(edges, m)
             /\ Reads(Bytes(R), R, Ends(R), m)
  BY DEF EdgesAt
<1>1. /\ AreRows(R) /\ Len(R) \in Nat /\ m \in Nat
      /\ m < Len(R) => m + 1 \in 1..Len(edgesOut) /\ R[m + 1] = FirstLine(edgesOut, m + 1)
  BY FilesAreRows, EdgeLinesRead
<1>2. ~Calling(Bytes(R), R, Ends(R), m) /\ ~Ended(Bytes(R), R, m)
  BY DEF Calling, Ended
<1>3. CASE Returned(Bytes(R), R, Ends(R), m)
  <2>1. m < Len(R) /\ m + 1 \in 1..Len(R) /\ row = Line(R, m + 1) /\ eof = FALSE
    BY <1>1, <1>3 DEF Returned, Buffered
  <2>2. RowOf(R, row) = m + 1
    BY <1>1, <2>1, RowOfLine
  <2> QED
    BY <1>1, <1>3, <2>1, <2>2
<1> QED
  BY <1>2, <1>3 DEF Reads

\* InsertEdge adds the edge of the next row, or of an old one.
LEMMA EdgesInsert ==
  ASSUME WriterInv, input.format = "csv", InEdges, InsertEdge
  PROVE  InEdges'
<1> PICK R : R = Lines(edgesOut)
  OBVIOUS
<1> PICK j : j = RowOf(R, row)
  OBVIOUS
<1> DEFINE x == parseEdge(edgesOut[R[j].of].fields.edge)
<1>1. /\ reader = "returned" /\ row # <<>> /\ EdgeFits(j) /\ Loop /\ SameBuffer
      /\ edges' = Append(edges, x)
      /\ phase' = phase /\ input' = input /\ rowsOut' = rowsOut /\ edgesOut' = edgesOut
      /\ nodes' = nodes /\ special' = special
      /\ phase = "reading edges" /\ AllNodes
  BY DEF InsertEdge, Reading, writerVars, SameBuffer, InEdges
<1> HIDE DEF x
<1>2. AreRows(R) /\ Len(R) \in Nat /\ Holds(Bytes(R), R, Ends(R))
  BY FilesAreRows, LenProperties, BytesHold DEF AreRows
<1>3. AllNodes' /\ Lines(edgesOut)' = R
  BY <1>1, FirstKept, NodesStay
<1>4. CASE Missed(Bytes(R))
  <2>1. MissedEdges'
    BY <1>1, <1>4, MissedGoesOn
  <2> QED
    BY <1>1, <1>3, <2>1 DEF InEdges
<1>5. CASE (\E m : EdgesAt(m)) /\ ~Missed(Bytes(R))
  <2> PICK m : EdgesAt(m)
    BY <1>5
  <2>1. /\ m \in 0..Len(R) /\ m \in 0..Len(edgesOut) /\ FirstEdges(edges, m)
        /\ Reads(Bytes(R), R, Ends(R), m)
    BY DEF EdgesAt
  <2>2. /\ m + 1 \in 1..Len(edgesOut) /\ j = m + 1 /\ eof = FALSE /\ m \in Nat
        /\ R[m + 1] = FirstLine(edgesOut, m + 1)
        /\ Returned(Bytes(R), R, Ends(R), m)
    BY <1>1, <1>5, EdgeRowRead
  <2>3. R[j].of = m + 1 /\ R[j].columns = edgesOut[m + 1].columns[1]
    BY <2>2 DEF FirstLine
  <2>4. /\ EndsOf(edgesOut[m + 1]) \subseteq 0 .. Len(rowsOut) - 1
        /\ edgesOut[m + 1].columns[1] >= 8
    BY <1>1, <2>3 DEF EdgeFits, AllNodes, FirstNodes
  <2>5. x = parseEdge(edgesOut[m + 1].fields.edge)
    BY <2>3 DEF x
  <2>6. x \in ReadEdgeSet /\ edgesOut[m + 1].columns = << 9 >>
    <3>1. PICK e \in EdgesDue : EdgeRowOf(m + 1, e)
      BY <2>2, EdgeRowIs
    <3>2. edgesOut[m + 1].columns = <<4, 6>> \/ edgesOut[m + 1].columns = << 9 >>
      BY <3>1 DEF EdgeRowOf
    <3>3. edgesOut[m + 1].columns = << 9 >>
      BY <2>4, <3>2
    <3>4. x = EdgeRead(e)
      BY <2>5, <3>1 DEF EdgeRowOf
    <3> QED
      BY <3>3, <3>4 DEF ReadEdgeSet, EdgesDue
  <2>7. FirstEdges(edges', m + 1)
    BY <1>1, <2>1, <2>2, <2>4, <2>5, <2>6, NextEdge
  <2>8. FirstEdges(edges, m + 1)'
    BY <1>1, <2>7, FirstKept
  <2>9. reader' = "call"
    BY <1>1, <2>2 DEF Loop
  <2>10. Reads(Bytes(R), R, Ends(R), m + 1)' /\ m + 1 \in 0..Len(R)
    BY <1>1, <1>2, <2>1, <2>2, <2>9, LoopReads
  <2>11. m + 1 \in 0..Len(edgesOut)
    BY <2>2
  <2>12. EdgesAt(m + 1)'
    BY <1>1, <1>3, <2>8, <2>10, <2>11 DEF EdgesAt
  <2> QED
    BY <1>1, <1>3, <2>12 DEF InEdges
<1> QED
  BY <1>4, <1>5 DEF InEdges, MissedEdges

\* A line of edges.csv is refused only if the file cannot be read.
LEMMA EdgesRefuse ==
  ASSUME WriterInv, input.format = "csv", InEdges, RowRefused
  PROVE  Failed'
<1> PICK R : R = Lines(edgesOut)
  OBVIOUS
<1> PICK j : j = RowOf(R, row)
  OBVIOUS
<1>1. /\ reader = "returned" /\ row # <<>> /\ ~EdgeFits(j)
      /\ reader' = "failed"
      /\ phase' = phase /\ input' = input /\ rowsOut' = rowsOut /\ edgesOut' = edgesOut
      /\ phase = "reading edges" /\ AllNodes
  BY DEF RowRefused, writerVars, InEdges
<1>2. NotReadable
  <2>1. CASE Missed(Bytes(R))
    <3>1. StaleNewline(Bytes(R))
      BY <2>1 DEF Missed
    <3> QED
      BY <3>1, CannotBeRead DEF CannotEnd
  <2>2. CASE (\E m : EdgesAt(m)) /\ ~Missed(Bytes(R))
    <3> PICK m : EdgesAt(m)
      BY <2>2
    <3>1. /\ m + 1 \in 1..Len(edgesOut) /\ j = m + 1 /\ m \in Nat
          /\ R[m + 1] = FirstLine(edgesOut, m + 1)
      BY <1>1, <2>2, EdgeRowRead
    <3>2. /\ j # 0 /\ j \in DOMAIN edgesOut
          /\ R[j].of = j /\ R[j].columns = edgesOut[j].columns[1]
      BY <3>1, LenProperties DEF WriterInv, FirstLine
    <3>3. \/ ~(EndsOf(edgesOut[j]) \subseteq 0 .. Len(rowsOut) - 1)
          \/ ~(edgesOut[j].columns[1] >= 8)
      BY <1>1, <3>2 DEF EdgeFits, AllNodes, FirstNodes
    <3>4. CASE ~(EndsOf(edgesOut[j]) \subseteq 0 .. Len(rowsOut) - 1)
      <4>1. ToSet(WrittenIds) \subseteq 0 .. Len(rowsOut) - 1
        <5>1. \A k \in 1..Len(rowsOut) : WrittenIds[k] = k - 1
          BY <1>1 DEF AllNodes, FirstNodes
        <5>2. DOMAIN WrittenIds = 1..Len(rowsOut) /\ Len(rowsOut) \in Nat
          BY WrittenIdsAre
        <5>3. \A k \in DOMAIN WrittenIds : WrittenIds[k] \in 0 .. Len(rowsOut) - 1
          BY <5>1, <5>2
        <5> QED
          BY <5>3 DEF ToSet
      <4> QED
        BY <3>2, <3>4, <4>1 DEF NotReadable
    <3>5. CASE ~(edgesOut[j].columns[1] >= 8)
      <4>1. PICK e \in EdgesDue : EdgeRowOf(j, e)
        BY <3>1, EdgeRowIs
      <4>2. EdgeBreaks(EdgeRead(e))
        BY <3>5, <4>1 DEF EdgeRowOf
      <4>3. e.src \in Ids /\ ~Skipped(e.src) /\ EdgeRead(e) \in EdgesOnFile(e.src)
        BY DueIsOnFile
      <4> QED
        BY <4>2, <4>3 DEF NotReadable
    <3> QED
      BY <3>3, <3>4, <3>5
  <2> QED
    BY <2>1, <2>2 DEF InEdges, MissedEdges
<1>3. NotReadable'
  BY <1>1, <1>2, FirstKept
<1> QED
  BY <1>1, <1>3 DEF Failed

\* The steps while edges.csv is read.
LEMMA InEdgesSteps ==
  ASSUME WriterInv, input.format = "csv", InEdges, FNext
  PROVE  input' = input /\ (InEdges' \/ AfterEdges' \/ Failed')
<1>1. phase = "reading edges" /\ reader \in {"call", "scan", "returned"}
  BY ReaderIs DEF InEdges, EdgesAt, MissedEdges
<1>2. ~Write /\ ~ReadNodes /\ ~InsertNode /\ ~ReadEdges /\ ~EndRead
  BY <1>1 DEF Write, WriterNext, Skip, WriteRows, WriteDot, WriteJson, WriteJsonEdges,
              EndNodes, EndEdges, Working, ReadNodes, InsertNode, ReadEdges, EndRead, Reading
<1>3. ReadLine \/ EmptyRow \/ InsertEdge \/ RowRefused
  BY <1>2 DEF FNext, readGraph
<1>4. input' = input
  BY <1>3 DEF ReadLine, EmptyRow, InsertEdge, RowRefused, writerVars
<1> QED
  BY <1>3, <1>4, EdgesReadLine, EdgesEmptyRow, EdgesInsert, EdgesRefuse

\* The end: the numbers agree with those of info.json.
LEMMA AfterEdgesSteps ==
  ASSUME WriterInv, input.format = "csv", AfterEdges, FNext
  PROVE  input' = input /\ Loaded'
<1>1. phase = "reading edges" /\ reader = "closed" /\ AllNodes /\ AllEdges
  BY DEF AfterEdges
<1>2. ~Write /\ ~ReadNodes /\ ~InsertEdge /\ ~InsertNode /\ ~ReadEdges /\ ~ReadLine /\ ~EmptyRow
      /\ ~RowRefused
  BY <1>1 DEF Write, WriterNext, Skip, WriteRows, WriteDot, WriteJson, WriteJsonEdges,
              EndNodes, EndEdges, Working, ReadNodes, InsertEdge, InsertNode, ReadEdges, Reading,
              ReadLine, readLine, KeepBuffer, Refill, NothingGiven, ReturnRow, GoOn, EndOfFile,
              EmptyRow, RowRefused
<1>3. EndRead
  BY <1>2 DEF FNext, readGraph
<1>4. info = [nodes |-> Len(nodes), edges |-> Len(edges)]
  BY <1>1 DEF WriterInv, AllNodes, AllEdges, FirstNodes, FirstEdges
<1>5. /\ phase' = "loaded" /\ reader' = "closed"
      /\ input' = input /\ rowsOut' = rowsOut /\ edgesOut' = edgesOut
      /\ nodes' = nodes /\ edges' = edges /\ special' = special
  BY <1>3, <1>4 DEF EndRead
<1>6. AllNodes'
  BY <1>1, <1>5, NodesStay
<1>7. AllEdges'
  BY <1>1, <1>5, FirstKept DEF AllEdges
<1> QED
  BY <1>5, <1>6, <1>7 DEF Loaded

\* Nothing follows.
LEMMA NoStepAfter ==
  ASSUME Loaded \/ Failed
  PROVE  ~FNext
<1>1. /\ phase \in {"reading nodes", "reading edges", "loaded"}
      /\ reader \in {"closed", "failed"} /\ (reader = "closed" => phase = "loaded")
  BY DEF Loaded, Failed
<1> QED
  BY <1>1 DEF FNext, readGraph, Write, WriterNext, Skip, WriteRows, WriteDot, WriteJson,
              WriteJsonEdges, EndNodes, EndEdges, Working, ReadNodes, InsertEdge, InsertNode,
              ReadEdges, EndRead, Reading, ReadLine, readLine, KeepBuffer, Refill, NothingGiven,
              ReturnRow, GoOn, EndOfFile, EmptyRow, RowRefused

\* Every step keeps the invariant of the file.
LEMMA FileStepInv ==
  ASSUME FileInv, [FNext]_fileVars
  PROVE  FileInv'
<1>1. WriterInv'
  BY WriterStepInv DEF FileInv
<1>2. CASE FNext
  <2>1. CASE Unread
    BY <1>1, <1>2, <2>1, UnreadSteps DEF FileInv
  <2>2. CASE input.format = "csv" /\ InNodes
    BY <1>1, <1>2, <2>2, InNodesSteps DEF FileInv
  <2>3. CASE input.format = "csv" /\ AfterNodes
    BY <1>1, <1>2, <2>3, AfterNodesSteps DEF FileInv
  <2>4. CASE input.format = "csv" /\ InEdges
    BY <1>1, <1>2, <2>4, InEdgesSteps DEF FileInv
  <2>5. CASE input.format = "csv" /\ AfterEdges
    BY <1>1, <1>2, <2>5, AfterEdgesSteps DEF FileInv
  <2>6. CASE Loaded \/ Failed
    BY <1>2, <2>6, NoStepAfter
  <2> QED
    BY <2>1, <2>2, <2>3, <2>4, <2>5, <2>6 DEF FileInv
<1>3. CASE UNCHANGED fileVars
  <2>1. /\ UNCHANGED writerVars /\ UNCHANGED readerVars
        /\ nodes' = nodes /\ edges' = edges /\ special' = special
    BY <1>3 DEF fileVars
  <2>2. /\ input' = input /\ phase' = phase /\ rowsOut' = rowsOut /\ edgesOut' = edgesOut
    BY <2>1 DEF writerVars
  <2>3. /\ file' = file /\ taken' = taken /\ buffer' = buffer /\ current' = current
        /\ last' = last /\ eof' = eof /\ prefix' = prefix /\ row' = row /\ reader' = reader
    BY <2>1 DEF readerVars
  <2>4. \A R, m : Reads(Bytes(R), R, Ends(R), m)' <=> Reads(Bytes(R), R, Ends(R), m)
    BY <2>3 DEF Reads, Calling, Returned, Ended, Missed, Buffered, At
  <2>5. \A R : Missed(Bytes(R))' <=> Missed(Bytes(R))
    BY <2>3 DEF Missed
  <2>6. (AllNodes' <=> AllNodes) /\ (AllEdges' <=> AllEdges) /\ (NotReadable' <=> NotReadable)
    BY <2>1, <2>2, FirstKept DEF AllNodes, AllEdges
  <2>7. \A m : (NodesAt(m)' <=> NodesAt(m)) /\ (EdgesAt(m)' <=> EdgesAt(m))
    BY <2>1, <2>2, <2>4, FirstKept DEF NodesAt, EdgesAt
  <2>8. MissedEdges' <=> MissedEdges
    BY <2>2, <2>5, FirstKept DEF MissedEdges
  <2> QED
    BY <1>1, <2>1, <2>2, <2>3, <2>6, <2>7, <2>8
       DEF FileInv, Unread, InNodes, AfterNodes, InEdges, AfterEdges, Loaded, Failed
<1> QED
  BY <1>2, <1>3

\* What is read of a graph is what was written of it.
LEMMA LoadedIsWritten ==
  ASSUME WriterInv, input.format = "csv", Loaded
  PROVE  ReadIsWritten
<1>1. FirstNodes(nodes, special, Len(rowsOut)) /\ FirstEdges(edges, Len(edgesOut))
  BY DEF Loaded, AllNodes, AllEdges
<1> DEFINE n == Len(rowsOut)
           l == Len(edgesOut)
<1>2. /\ nodes \in Seq(NodeSet) /\ Len(nodes) = n
      /\ \A k \in 1..n : WrittenIds[k] = k - 1 /\ nodes[k] = OnFile(input.nodes[k - 1])
      /\ special = {<<nodes[k].kind, k - 1>> : k \in {k \in 1..n : nodes[k].kind \in Special}}
      /\ edges \in Seq(ReadEdgeSet) /\ Len(edges) = l
      /\ \A j \in 1..l : edges[j] = parseEdge(edgesOut[j].fields.edge)
  BY <1>1 DEF FirstNodes, FirstEdges
<1>3. DOMAIN nodes = 1..n /\ DOMAIN edges = 1..l /\ DOMAIN edgesOut = 1..l
  BY <1>2, LenProperties DEF WriterInv
<1> HIDE DEF n, l
<1>4. nodes = [k \in 1..n |-> OnFile(input.nodes[WrittenIds[k]])]
  <2>1. nodes = [k \in DOMAIN nodes |-> nodes[k]]
    BY <1>2
  <2> QED
    BY <1>2, <1>3, <2>1
<1>5. special = {<<nodes[k].kind, k - 1>> :
                   k \in {k \in DOMAIN nodes : nodes[k].kind \in {"Module", "Trap", "Start"}}}
  BY <1>2, <1>3 DEF Special
<1>6. ToSet(edges) = {EdgeRead(e) : e \in EdgesDue}
  <2>1. ToSet(edges) = {edges[j] : j \in 1..l}
    BY <1>3 DEF ToSet
  <2>2. \A j \in 1..l : \E e \in EdgesDue : edges[j] = EdgeRead(e)
    BY <1>2, EdgeRowIs DEF l, EdgeRowOf
  <2>3. \A e \in EdgesDue : \E j \in 1..l : edges[j] = EdgeRead(e)
    BY <1>2, EdgeHasRow DEF l, EdgeRowOf
  <2> QED
    BY ONLY <2>1, <2>2, <2>3
<1>7. UNION {EdgesOnFile(i) : i \in {i \in Ids : ~Skipped(i)}} = {EdgeRead(e) : e \in EdgesDue}
  <2>1. \A e \in EdgesDue : \E i \in Ids : ~Skipped(i) /\ EdgeRead(e) \in EdgesOnFile(i)
    BY DueIsOnFile
  <2>2. \A i \in Ids : ~Skipped(i) =>
           \A x \in EdgesOnFile(i) : x \in {EdgeRead(e) : e \in EdgesDue}
    BY OnFileIsDue DEF Loaded
  <2> QED
    BY <2>1, <2>2
<1> QED
  BY <1>4, <1>5, <1>6, <1>7 DEF ReadIsWritten, n

\* A graph that is loaded was one that can be read.
LEMMA LoadedIsReadable ==
  ASSUME WriterInv, input.format = "csv", Loaded
  PROVE  ~NotReadable
<1>1. FirstNodes(nodes, special, Len(rowsOut)) /\ FirstEdges(edges, Len(edgesOut))
      /\ ~CannotEnd(Bytes(Lines(rowsOut))) /\ ~CannotEnd(Bytes(Lines(edgesOut)))
  BY DEF Loaded, AllNodes, AllEdges
<1>2. DOMAIN WrittenIds = 1..Len(rowsOut) /\ Len(rowsOut) \in Nat
      /\ DOMAIN rowsOut = 1..Len(rowsOut) /\ DOMAIN edgesOut = 1..Len(edgesOut)
  BY WrittenIdsAre, LenProperties DEF WriterInv
<1>3. \A k \in 1..Len(rowsOut) : WrittenIds[k] = k - 1 /\ ~Breaks(input.nodes[k - 1])
  BY <1>1 DEF FirstNodes
<1>4. NoGap
  BY <1>2, <1>3 DEF NoGap
<1>5. 0 .. Len(rowsOut) - 1 \subseteq ToSet(WrittenIds)
  <2> SUFFICES ASSUME NEW i \in 0 .. Len(rowsOut) - 1
               PROVE  i \in ToSet(WrittenIds)
    OBVIOUS
  <2>1. i + 1 \in 1..Len(rowsOut) /\ (i + 1) - 1 = i
    BY <1>2
  <2>2. WrittenIds[i + 1] = i
    BY <1>3, <2>1
  <2> QED
    BY <1>2, <2>1, <2>2 DEF ToSet
<1>6. \A j \in DOMAIN edgesOut : EndsOf(edgesOut[j]) \subseteq ToSet(WrittenIds)
  BY <1>1, <1>2, <1>5 DEF FirstEdges
<1>7. \A k \in DOMAIN rowsOut : ~Breaks(input.nodes[WrittenIds[k]])
  BY <1>2, <1>3
<1>8. ASSUME NEW i \in Ids, ~Skipped(i), NEW x \in EdgesOnFile(i)
      PROVE  ~EdgeBreaks(x)
  <2>1. PICK e \in EdgesDue : x = EdgeRead(e)
    BY <1>8, OnFileIsDue DEF Loaded
  <2>2. PICK j \in 1..Len(edgesOut) : EdgeRowOf(j, e)
    BY EdgeHasRow
  <2>3. edgesOut[j].columns = << 9 >>
    BY <1>1 DEF FirstEdges
  <2>4. << 9 >> # <<4, 6>>
    OBVIOUS
  <2> QED
    BY <2>1, <2>2, <2>3, <2>4 DEF EdgeRowOf
<1> QED
  BY <1>1, <1>4, <1>6, <1>7, <1>8 DEF NotReadable, CannotEnd

\* The invariant of the file says what reading has to.
LEMMA FileIsRead ==
  ASSUME FileInv
  PROVE  ReadIsWritten /\ FailsForCause
<1>1. CASE Unread
  BY <1>1 DEF Unread, ReadIsWritten, FailsForCause
<1>2. CASE input.format = "csv" /\ InNodes
  BY <1>2, ReaderIs DEF InNodes, NodesAt, ReadIsWritten, FailsForCause
<1>3. CASE AfterNodes \/ AfterEdges
  BY <1>3 DEF AfterNodes, AfterEdges, ReadIsWritten, FailsForCause
<1>4. CASE input.format = "csv" /\ InEdges
  BY <1>4, ReaderIs DEF InEdges, EdgesAt, MissedEdges, ReadIsWritten, FailsForCause
<1>5. CASE input.format = "csv" /\ Loaded
  <2>1. ReadIsWritten /\ ~NotReadable
    BY <1>5, LoadedIsWritten, LoadedIsReadable DEF FileInv
  <2> QED
    BY <1>5, <2>1 DEF Loaded, FailsForCause
<1>6. CASE Failed
  BY <1>6 DEF Failed, ReadIsWritten, FailsForCause
<1> QED
  BY <1>1, <1>2, <1>3, <1>4, <1>5, <1>6 DEF FileInv

\* CSVReader::readGraph undoes CSVWriter::writeGraph: a graph that is read to its
\* end has the nodes that were written, in their order and with the properties
\* that OnFile says the rows keep, the edges that were accepted, and the module,
\* trap and start, whatever the size of the buffer and the lengths of the rows.
THEOREM ReadBack == FSpec => []ReadIsWritten
<1>1. FInit => FileInv
  BY FileInitInv
<1>2. FileInv /\ [FNext]_fileVars => FileInv'
  BY FileStepInv
<1>3. FileInv => ReadIsWritten
  BY FileIsRead
<1> QED
  BY <1>1, <1>2, <1>3, PTL DEF FSpec

\* An assertion of readLine, parseNode, parseEdge or readGraph fails, or parsing
\* a number throws, only if the identifiers have a gap, an edge lacks an end, a
\* name or label has a newline, the offset of a load or store does not fit an
\* int, or a file ends where readLine does not see its end; and a graph to which
\* one of these happens is never loaded: the reader does not take part of a file
\* for the whole.
THEOREM FailuresHaveCause == FSpec => []FailsForCause
<1>1. FInit => FileInv
  BY FileInitInv
<1>2. FileInv /\ [FNext]_fileVars => FileInv'
  BY FileStepInv
<1>3. FileInv => FailsForCause
  BY FileIsRead
<1> QED
  BY <1>1, <1>2, <1>3, PTL DEF FSpec
=============================================================================
