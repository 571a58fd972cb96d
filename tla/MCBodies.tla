------------------------------ MODULE MCBodies ------------------------------
(***************************************************************************)
(* Growing function bodies for TLC one item at a time.  A body is a          *)
(* sequence of items in the order of the text, each with the list that       *)
(* holds it; the next item goes to the end of a list that is still open.     *)
(***************************************************************************)
EXTENDS WasmFunction, FiniteSets

\* The owners of the lists still open at the end of body b, innermost first.
OpenOwners(b) ==
  LET O[i \in 0..Len(b)] == IF i = 0 THEN {} ELSE {i} \cup O[b[i].list[1]]
  IN  {i \in O[Len(b)] : b[i].kind \in Structured}

Children(b, l) == {i \in 1..Len(b) : b[i].list = l}

OpenLists(b) ==
  {RootList} \cup
  UNION {IF b[o].kind # "If" THEN {<<o, "body">>}
         ELSE IF Children(b, <<o, "else">>) = {} THEN {<<o, "then">>, <<o, "else">>}
         ELSE {<<o, "else">>} : o \in OpenOwners(b)}

\* Where one of the bodies may go on: it and one of its open lists.
Places(bodies) == {p \in bodies \X Lists : p[2] \in OpenLists(p[1])}

\* The labels in scope in list l of body b.
InScope(b, l) ==
  LET S[i \in 0..Len(b)] == IF i = 0 THEN {}
                            ELSE {b[i].label} \cup S[b[i].list[1]]
  IN  S[l[1]]

\* The members of a set of numbers in increasing order.
SortedSeq(s) ==
  [k \in 1..Cardinality(s) |->
     CHOOSE i \in s : Cardinality({j \in s : j < i}) = k - 1]
=============================================================================
