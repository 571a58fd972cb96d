------------------------------- MODULE MCCfg --------------------------------
(***************************************************************************)
(* The function bodies for TLC, in families: every body of so many            *)
(* expressions of the given kinds that is a valid WebAssembly function, the *)
(* expressions numbered in the order of the text.                           *)
(*                                                                          *)
(* A body is grown one expression at a time: the next one goes to the end   *)
(* of a list that is still open.  An If, a BrIf or a BrTable takes its      *)
(* operand from the expression before it, or comes after one that leaves    *)
(* the stack polymorphic; all blocks are of type [] -> [].                  *)
(***************************************************************************)
EXTENDS CfgSoundness, MCBodies, TLC

CONSTANT Families    \* the families of bodies of the run

Family(exprs, kinds, labels) ==
  [exprs     |-> exprs,   \* bound on the number of expressions
   kinds     |-> kinds,   \* the kinds of expression that occur
   labels    |-> labels,  \* label names; 0 stands for the function's own label
   shadowing |-> FALSE,   \* two blocks may declare the same label
   empty     |-> FALSE,   \* a Block, Loop or true arm may be empty
   losing    |-> TRUE]    \* a join may be lost

AllKinds == Family(4, {"Plain", "Return", "Unreachable", "Br", "BrIf", "BrTable",
                       "Call", "Block", "Loop", "If"}, 1..4)
Empties  == [Family(4, {"Plain", "Br", "BrIf", "BrTable", "Block", "Loop", "If"}, 0..2)
               EXCEPT !.shadowing = TRUE, !.empty = TRUE]
DeadArms == [Family(5, {"Plain", "Br", "If", "Unreachable"}, 1..5)
               EXCEPT !.losing = FALSE]

AllFamilies     == {AllKinds, Empties, DeadArms}
LostJoinFamily  == {Family(5, {"Plain", "Br", "If"}, 1..5)}
EmptyListFamily == {[Family(2, {"Plain", "Block", "Loop"}, 1..2) EXCEPT !.empty = TRUE]}

Item(kind, label, targets) == [kind |-> kind, label |-> label, targets |-> targets]

Items(x) ==
  {Item(k, 0, <<>>) : k \in x.kinds \ (Structured \cup Branches)}
  \cup {Item(k, l, <<>>) : k \in x.kinds \cap Structured, l \in x.labels \ {0}}
  \cup {Item(k, 0, <<t>>) : k \in x.kinds \cap {"Br", "BrIf"}, t \in x.labels}
  \cup {Item(k, 0, <<t, u>>) : k \in x.kinds \cap {"BrTable"},
                              t \in x.labels, u \in x.labels}

HasOperand(b, l) ==
  LET c == Children(b, l)
  IN  /\ c # {}
      /\ b[CHOOSE i \in c : \A j \in c : j <= i].kind
           \in {"Plain", "Return", "Unreachable", "Br", "BrTable"} \cup Calls

\* Where one of the bodies may go on, with what is in scope there.
Points(bodies) ==
  {[body |-> p[1], list |-> p[2], scope |-> InScope(p[1], p[2]),
    operand |-> HasOperand(p[1], p[2])] : p \in Places(bodies)}

\* Item x may come at point p.
Legal(p, x, shadowing) ==
  /\ x.kind \in {"If", "BrIf", "BrTable"} => p.operand
  /\ x.label # 0 => shadowing \/ x.label = Len(p.body) + 1
  /\ \A i \in DOMAIN x.targets : \/ x.targets[i] \in p.scope
                                 \/ x.targets[i] = 0 /\ x.kind = "BrTable" /\ i = 1

Bodies(x) ==
  LET B[n \in 0..x.exprs] ==
        IF n = 0 THEN {<<>>}
        ELSE {Append(q[1].body, [kind |-> q[2].kind, label |-> q[2].label,
                                 targets |-> q[2].targets, list |-> q[1].list]) :
                q \in {q \in Points(B[n - 1]) \X Items(x) : Legal(q[1], q[2], x.shadowing)}}
  IN  {<<>>} \cup B[x.exprs]

\* The record of a body; its identifiers beyond Len(b) are not used.
ToFunction(b) ==
  [kind    |-> [e \in Exprs |-> IF e <= Len(b) THEN b[e].kind ELSE "Plain"],
   label   |-> [e \in Exprs |-> IF e <= Len(b) THEN b[e].label ELSE 0],
   targets |-> [e \in Exprs |-> IF e <= Len(b) THEN b[e].targets ELSE <<>>],
   callees |-> [e \in Exprs |-> IF e <= Len(b) /\ b[e].kind \in Calls
                                THEN Callees ELSE {}],
   list    |-> [l \in Lists |-> SortedSeq(Children(b, l))]]

MCExprs     == 1 .. Max({x.exprs : x \in Families})
MCLabels    == {0} \cup UNION {x.labels : x \in Families}
FunctionsOf(x) == {f \in {ToFunction(b) : b \in Bodies(x)} :
                     /\ x.empty \/ ~HasEmptyList(f)
                     /\ x.losing \/ \A i \in Exprs : ~LosesJoin(f, i)}
MCFunctions == FoldSet(LAMBDA x, s : FunctionsOf(x) \cup s, {}, Families)
=============================================================================
