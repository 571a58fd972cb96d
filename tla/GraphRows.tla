----------------------------- MODULE GraphRows ------------------------------
(***************************************************************************)
(* Nodes and edges of the code property graph, and the rows of text that    *)
(* CSVWriter makes of them and CSVReader makes them from.                   *)
(*                                                                          *)
(* A node has a kind: its NodeType, or its InstType if it is an             *)
(* Instruction.  The class of the kind overrides some of the properties of  *)
(* Node; of those it inherits, all nodes have the same value.  Of a text    *)
(* only matters whether it is empty and whether it has a comma, a newline   *)
(* or a NUL, of an offset whether an int can hold it, of a constant whether *)
(* it is a whole number and whether six decimals show it.  The other        *)
(* numbers count nodes of the graph, and an int can hold them.              *)
(***************************************************************************)
EXTENDS Naturals, Sequences, SequencesExt

\* The elements of s that are in S, in their order.
Selection(s, S) ==
  LET F[i \in 0..Len(s)] == IF i = 0 THEN <<>>
                            ELSE IF s[i] \in S THEN Append(F[i - 1], s[i]) ELSE F[i - 1]
  IN  F[Len(s)]

SimpleTypes  == {"FunctionSignature", "Instructions", "Parameters", "Locals", "Results",
                 "Else", "Trap", "Start"}
BaseInsts    == {"Nop", "Unreachable", "Return", "BrTable", "Drop", "Select",
                 "MemorySize", "MemoryGrow"}
OpcodeInsts  == {"Binary", "Compare", "Convert", "Unary"}
LoadStores   == {"Load", "Store"}
LabeledInsts == {"Br", "BrIf", "GlobalGet", "GlobalSet", "LocalGet", "LocalSet", "LocalTee"}
CallInsts    == {"Call", "CallIndirect"}
BlockInsts   == {"BeginBlock", "Block", "Loop", "EndLoop"}
InstTypes    == BaseInsts \cup OpcodeInsts \cup LoadStores \cup LabeledInsts
                \cup CallInsts \cup BlockInsts \cup {"Const", "If"}
Kinds        == {"Module", "Function", "VarNode"} \cup SimpleTypes \cup InstTypes

\* The properties that the class of kind k overrides.
Overridden(k) ==
  CASE k = "Module"            -> {"name"}
    [] k = "Function"          -> {"name", "index", "nargs", "nlocals", "nresults",
                                   "isImport", "isExport"}
    [] k = "VarNode"           -> {"name", "index", "varType"}
    [] k \in SimpleTypes \cup BaseInsts -> {}
    [] k = "Const"             -> {"value"}
    [] k \in OpcodeInsts       -> {"opcode"}
    [] k \in LoadStores        -> {"opcode", "offset"}
    [] k \in LabeledInsts      -> {"label"}
    [] k \in CallInsts         -> {"nargs", "nresults", "label"}
    [] k \in BlockInsts        -> {"nresults", "label"}
    [] k = "If"                -> {"nresults", "hasElse"}

Texts   == {"", "plain", "with,comma", "with newline", "with nul"}
Flags   == {"0", "1"}
Consts  == {"integer", "float", "fine"}   \* "fine": a float of many decimals
Offsets == {"small", "large"}             \* "large": 2^31 or more

\* The nodes of kind k with identifier i.  The numbers, types and opcodes of
\* a node are told apart by the property they are of.
NodesOf(i, k) ==
  {[id |-> i, kind |-> k, is |->
     [p \in Overridden(k) |-> CASE p \in {"name", "label"}      -> t
                               [] p \in {"isImport", "hasElse"} -> x
                               [] p = "isExport"                -> y
                               [] p = "value"                   -> c
                               [] p = "offset"                  -> o
                               [] OTHER                         -> p]] :
     t \in Texts, x \in Flags, y \in Flags, c \in Consts, o \in Offsets}

-----------------------------------------------------------------------------
(* Writing.  A visit fills a map from keys to texts; writeNode prints the   *)
(* map's values in the order of the columns.                                *)

\* The macros: the key of each column.
Key(c) == IF c = "isExport" THEN "isImport" ELSE c

NodeColumns ==
  <<"id", "nodeType", "name", "index", "nargs", "nlocals", "nresults", "isImport",
    "isExport", "varType", "instType", "opcode", "constType", "constValueI",
    "constValueF", "label", "offset", "hasElse">>

NodeCol(c) == CHOOSE i \in DOMAIN NodeColumns : NodeColumns[i] = c

\* What std::to_string keeps of a constant.
writeConst(v) == IF v = "fine" THEN "float" ELSE v

\* The columns that the visit of a node fills, in the order it does.
Filled(n) ==
  LET k == n.kind
  IN  <<"id", "nodeType">> \o
      CASE k = "Module"       -> <<"name">>
        [] k = "Function"     -> <<"name", "index", "nargs", "nlocals", "nresults",
                                   "isImport", "isExport">>
        [] k = "VarNode"      -> <<"name", "index", "varType">>
        [] k \in SimpleTypes  -> <<>>
        [] k \in BaseInsts    -> <<"instType">>
        [] k = "Const"        -> <<"instType", "constType">> \o
              (IF n.is["value"] = "integer" THEN <<"constValueI">> ELSE <<"constValueF">>)
        [] k \in OpcodeInsts  -> <<"instType", "opcode">>
        [] k \in LoadStores   -> <<"instType", "opcode", "offset">>
        [] k \in LabeledInsts -> <<"instType", "label">>
        [] k \in CallInsts    -> <<"nargs", "nresults", "instType", "label">>
        [] k \in BlockInsts   -> <<"nresults", "instType", "label">>
        [] k = "If"           -> <<"nresults", "instType", "hasElse">>

\* The text that goes under column c of node n.
Text(n, c) ==
  CASE c = "id" -> n.id
    [] c = "nodeType" -> IF n.kind \in InstTypes THEN "Instruction" ELSE n.kind
    [] c = "instType" -> n.kind
    [] c = "constType" -> IF n.is["value"] = "integer" THEN "integer" ELSE "float"
    [] c \in {"constValueI", "constValueF"} -> writeConst(n.is["value"])
    [] OTHER -> n.is[c]

\* What is printed of a name or label: its commas are replaced, and as a C
\* string it ends at a NUL.  A newline is printed as it is.
Printed(t) == CASE t = "with,comma" -> "with_comma"
                [] t = "with nul"   -> "with"
                [] OTHER            -> t

\* Variant: what is assigned to a key first stays.
NodesMap_first(n) ==
  LET F == Filled(n)
      With(key) == {i \in DOMAIN F : Key(F[i]) = key}
  IN  [key \in {Key(c) : c \in ToSet(NodeColumns)} |->
         IF With(key) = {} THEN "" ELSE Text(n, F[Min(With(key))])]

\* The map of a node: what is assigned to a key later replaces what was.
NodesMap(n) ==
  LET F == Filled(n)
      With(key) == {i \in DOMAIN F : Key(F[i]) = key}
  IN  [key \in {Key(c) : c \in ToSet(NodeColumns)} |->
         IF With(key) = {} THEN "" ELSE Text(n, F[Max(With(key))])]

\* The row that writeNode prints.
NodeRow(n) ==
  [i \in DOMAIN NodeColumns |->
     LET t == NodesMap(n)[Key(NodeColumns[i])]
     IN  IF NodeColumns[i] \in {"name", "label"} THEN Printed(t) ELSE t]

\* The numbers of columns in the lines that the row makes in the file: it is
\* split where a name or label has a newline.
NodeLines(row) == CASE row[NodeCol("name")]  = "with newline" -> <<3, 16>>
                    [] row[NodeCol("label")] = "with newline" -> <<16, 3>>
                    [] OTHER -> <<18>>

-----------------------------------------------------------------------------
(* Reading.  parseNode chooses the class by the columns nodeType and        *)
(* instType and gives its constructor the other columns that it takes.      *)

KindOf(row) == IF row[NodeCol("nodeType")] = "Instruction" THEN row[NodeCol("instType")]
               ELSE row[NodeCol("nodeType")]

\* The columns that the constructor of kind k takes, by the property it makes
\* of each.
Taken(k) ==
  CASE k = "Module"       -> [name |-> "name"]
    [] k = "Function"     -> [name |-> "name", index |-> "index", nargs |-> "nargs",
                              nlocals |-> "nlocals", nresults |-> "nresults",
                              isImport |-> "isImport", isExport |-> "isImport"]
    [] k = "VarNode"      -> [varType |-> "varType", index |-> "index", name |-> "name"]
    [] k \in SimpleTypes \cup BaseInsts -> <<>>
    [] k = "Const"        -> [value |-> "constType"]
    [] k \in OpcodeInsts  -> [opcode |-> "opcode"]
    [] k \in LoadStores   -> [opcode |-> "opcode", offset |-> "offset"]
    [] k \in LabeledInsts -> [label |-> "label"]
    [] k \in CallInsts    -> [nargs |-> "nargs", nresults |-> "nresults",
                              label |-> "label"]
    [] k \in BlockInsts   -> [nresults |-> "nresults", label |-> "label"]
    [] k = "If"           -> [nresults |-> "nresults", hasElse |-> "hasElse"]

\* The constant of the given type, from the column of that type.
createConst(type, valueI, valueF) == IF type = "integer" THEN valueI ELSE valueF

\* std::stoi and its like throw on an empty text, and std::stoi on a number
\* that an int cannot hold; the maps of types and opcodes have no empty one.
Parses(row) ==
  LET k == KindOf(row)
  IN  /\ k \in Kinds
      /\ \A p \in DOMAIN Taken(k) \ {"name", "label"} : row[NodeCol(Taken(k)[p])] \notin {"", "large"}
      /\ k = "Const" => createConst(row[NodeCol("constType")], row[NodeCol("constValueI")],
                                    row[NodeCol("constValueF")]) # ""

parseNode(row) ==
  LET k == KindOf(row)
  IN  [id |-> row[NodeCol("id")], kind |-> k, is |->
         [p \in DOMAIN Taken(k) |->
            IF p = "value" THEN createConst(row[NodeCol("constType")],
                                            row[NodeCol("constValueI")],
                                            row[NodeCol("constValueF")])
            ELSE row[NodeCol(Taken(k)[p])]]]

-----------------------------------------------------------------------------
(* Edges.  Those of one type, source, destination, label and PDG type are    *)
(* the same edge of an EdgeSet; the type of an edge is its part of the       *)
(* graph, and an edge without label or PDG type has "" and "None".           *)

EdgeTypes == <<"AST", "CFG", "PDG", "CG">>
PDGTypes  == {"Local", "Global", "Function", "Control", "Const"}

Edge(type, src, dest, label, pdgType) ==
  [type |-> type, src |-> src, dest |-> dest, label |-> label, pdgType |-> pdgType]

\* The edges between nodes ids.
Labels == <<"", "false", "fine", "float", "integer", "true", "with newline", "with nul",
            "with,comma">>
Edges(ids) == [type : ToSet(EdgeTypes), src : ids, dest : ids, label : ToSet(Labels),
               pdgType : PDGTypes \cup {"None"}]
IsEdge(e) == /\ e.type \in {"AST", "CG"} => e.label = ""
             /\ e.type = "PDG" <=> e.pdgType # "None"
             /\ e.pdgType = "Const" => e.label \in Consts

\* The label of a PDGEdgeConst is its constant, written.
EdgeLabel(e) == IF e.pdgType = "Const" THEN writeConst(e.label) ELSE e.label

\* The row of an edge, by its columns.  Only a Const edge fills the columns
\* of constants.
EdgeRow(e) ==
  [src |-> e.src, dest |-> e.dest, edgeType |-> e.type,
   label   |-> IF e.type \in {"CFG", "PDG"} THEN Printed(EdgeLabel(e)) ELSE "",
   pdgType |-> IF e.type = "PDG" THEN e.pdgType ELSE "",
   const   |-> IF e.pdgType = "Const" THEN writeConst(e.label) ELSE ""]

\* The numbers of columns in its lines.
EdgeLines(row) == IF row.label = "with newline" THEN <<4, 6>> ELSE <<9>>

parseEdge(row) ==
  CASE row.edgeType = "AST" -> Edge("AST", row.src, row.dest, "", "None")
    [] row.edgeType = "CFG" -> Edge("CFG", row.src, row.dest, row.label, "None")
    [] row.edgeType = "CG"  -> Edge("CG", row.src, row.dest, "", "None")
    [] row.edgeType = "PDG" ->
         IF row.pdgType = "Const" THEN Edge("PDG", row.src, row.dest, row.const, "Const")
         ELSE Edge("PDG", row.src, row.dest, row.label, row.pdgType)
=============================================================================
