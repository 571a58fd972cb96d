---------------------------- MODULE WasmFunction ----------------------------
(***************************************************************************)
(* The body of a WebAssembly function as wabt hands it to wasmati: nested   *)
(* expression lists (ExprList), and the graph nodes the AST builder has     *)
(* created for them before the CFG builder runs.                            *)
(*                                                                          *)
(* A function is a record                                                   *)
(*   kind    : expression -> its ExprType, as far as construct tells apart  *)
(*   label   : expression -> the label a Block, Loop or If declares         *)
(*   targets : expression -> the labels a branch names (default last)       *)
(*   callees : expression -> the functions a call resolves to               *)
(*   list    : list identifier -> the expressions of that list, in order    *)
(* A list identifier is RootList or <<owner, arm>>.  Operand-producing and  *)
(* other straight-line instructions are all of kind "Plain".                *)
(***************************************************************************)
EXTENDS Naturals, Sequences, FiniteSets, SequencesExt

CONSTANTS Exprs,     \* identifiers of expressions
          Labels,    \* block label names, after wabt's GenerateNames
          Callees    \* functions a call may resolve to

ASSUME ExprsAssumption == Exprs \subseteq Nat \ {0} /\ IsFiniteSet(Exprs)

Structured == {"Block", "Loop", "If"}
Branches   == {"Br", "BrIf", "BrTable"}
Calls      == {"Call", "CallIndirect"}
Kinds      == {"Plain", "Return", "Unreachable"}
                 \cup Structured \cup Branches \cup Calls

RootList == <<0, "func">>
Lists    == {RootList} \cup (Exprs \X {"body", "then", "else"})

FunctionType ==
  [kind    : [Exprs -> Kinds],
   label   : [Exprs -> Labels],
   targets : [Exprs -> Seq(Labels)],
   callees : [Exprs -> SUBSET Callees],
   list    : [Lists -> Seq(Exprs)]]

\* What the AST guarantees of a function: a branch names at least one label.
IsFunction(f) ==
  /\ f \in FunctionType
  /\ \A e \in Exprs : f.kind[e] \in Branches => f.targets[e] # <<>>

\* The lists that an expression of kind k has.
ArmsOf(k) == CASE k \in {"Block", "Loop"} -> {"body"}
               [] k = "If"                -> {"then", "else"}
               [] OTHER                   -> {}

\* wabt's lists own their expressions: an expression is in one place, and so
\* is the owner of any list but the function's own that is not empty.
IsTree(f) ==
  /\ \A l, m \in Lists : \A i \in DOMAIN f.list[l], j \in DOMAIN f.list[m] :
       f.list[l][i] = f.list[m][j] => l = m /\ i = j
  /\ \A l \in Lists \ {RootList} : f.list[l] # <<>> =>
       /\ l[2] \in ArmsOf(f.kind[l[1]])
       /\ \E m \in Lists : l[1] \in Range(f.list[m])

\* What comes in the text after place i of list l: the rest of the list and,
\* if the list is a true arm, the false arm.
Later(f, l, i) ==
  {f.list[l][j] : j \in {j \in DOMAIN f.list[l] : i < j}} \cup
  (IF l[2] = "then" THEN Range(f.list[<<l[1], "else">>]) ELSE {})

\* The identifiers number the expressions in the order of the text: all that
\* an expression contains comes before what is later than the expression.
InTextOrder(f) ==
  \A l \in Lists : \A i \in DOMAIN f.list[l] :
    LET x == f.list[l][i]
    IN  /\ l[1] < x
        /\ \A y \in Later(f, l, i) :
             /\ x < y
             /\ \A m \in Lists : \A z \in Range(f.list[m]) :
                  x <= m[1] /\ m[1] < y => z < y

\* The body of a function as the parser leaves it.
IsBody(f) == IsFunction(f) /\ IsTree(f) /\ InTextOrder(f)

(***************************************************************************)
(* Nodes.  Inst(e) is exprNodes.at(e): for a Block it is the BeginBlockInst *)
(* and EndBlock(e) its BlockInst; for an If, EndBlock(e) is the BlockInst   *)
(* of its true arm.  All Return expressions of a function share RetFunc.    *)
(***************************************************************************)
NodeTags == {"inst", "block", "then", "else", "endloop"}

Inst(e)      == <<"inst", e>>
EndBlock(e)  == <<"block", e>>
ThenBegin(e) == <<"then", e>>
ElseBegin(e) == <<"else", e>>
EndLoop(e)   == <<"endloop", e>>
InstsNode    == <<"instructions", 0>>
RetFunc      == <<"return", 0>>
Trap         == <<"trap", 0>>
Nodes        == (NodeTags \X Exprs) \cup {InstsNode, RetFunc, Trap}

NodeOf(f, e) == IF f.kind[e] = "Return" THEN RetFunc ELSE Inst(e)

\* Edge labels: "" , "true", "false", "default" and the index of a br_table.
EdgeLabels == {"", "true", "false", "default", "case"} \X Nat
Plainly    == <<"", 0>>
OnTrue     == <<"true", 0>>
OnFalse    == <<"false", 0>>
OnDefault  == <<"default", 0>>
OnCaseFromOne(i) == <<"case", i - 1>>   \* variant: counts cases from 1
OnCase(i)  == <<"case", i>>

CFGEdge(src, dest, label) == [src |-> src, dest |-> dest, label |-> label]
CFGEdges == [src : Nodes, dest : Nodes, label : EdgeLabels]
=============================================================================
