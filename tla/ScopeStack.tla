----------------------------- MODULE ScopeStack -----------------------------
(***************************************************************************)
(* What the evaluator of the query language promises about variables: each  *)
(* construct that runs has its scope, a jump discards at once the           *)
(* constructs it leaves with their scopes, and nothing else removes a name. *)
(* No table, no level, no unwinding.                                        *)
(***************************************************************************)
EXTENDS Naturals, Sequences, SequencesExt

CONSTANT Var      \* the variables' names

VARIABLES
  left,   \* scopes outside of every construct: the global one, and those of
          \* constructs that an error has ended
  stack,  \* the constructs that run, the innermost last, with their names
  state

vars == <<left, stack, state>>

Kinds  == {"block", "foreach", "cond", "while", "call", "filter"}
Scoped == {"block", "foreach", "call", "filter"}

Construct(kind, names) == [kind |-> kind, names |-> names]
Top == stack[Len(stack)]

Catches(kind, jump) ==
  \/ jump \in {"break", "continue"} /\ kind \in {"foreach", "while"}
  \/ jump = "return" /\ kind = "call"

Init == left = <<{}>> /\ stack = <<>> /\ state = "idle"

Start == state = "idle" /\ state' = "running" /\ UNCHANGED <<left, stack>>
Stop  == /\ state = "running" /\ stack = <<>>
         /\ state' = "idle" /\ UNCHANGED <<left, stack>>

\* A construct begins; a call begins with its function's block.
Enter ==
  /\ state = "running"
  /\ \E kind \in Kinds, names \in SUBSET Var :
       stack' = Append(stack, Construct(kind, names))
                  \o (IF kind = "call" THEN <<Construct("block", {})>> ELSE <<>>)
  /\ UNCHANGED <<left, state>>

\* A loop goes from its condition to its body or back.
Turn ==
  /\ state = "running" /\ stack # <<>>
  /\ \/ Top.kind = "cond" /\ stack' = [stack EXCEPT ![Len(stack)].kind = "while"]
     \/ Top.kind = "while" /\ stack' = [stack EXCEPT ![Len(stack)].kind = "cond"]
  /\ UNCHANGED <<left, state>>

Leave ==
  /\ state = "running" /\ stack # <<>>
  /\ stack' = SubSeq(stack, 1, Len(stack) - 1)
  /\ UNCHANGED <<left, state>>

\* A variable without a value gets one: in the innermost scope.
Bind(x) ==
  /\ state = "running"
  /\ \A i \in DOMAIN left : x \notin left[i]
  /\ \A i \in DOMAIN stack : x \notin stack[i].names
  /\ LET scopes == {i \in DOMAIN stack : stack[i].kind \in Scoped}
         Inner(i) == i \in scopes /\ \A j \in scopes : j <= i
     IN  \/ \E i \in scopes : /\ Inner(i)
                              /\ stack' = [stack EXCEPT ![i].names = @ \cup {x}]
                              /\ UNCHANGED left
         \/ /\ scopes = {}
            /\ left' = [left EXCEPT ![Len(left)] = @ \cup {x}]
            /\ UNCHANGED stack
  /\ UNCHANGED state

\* break and return leave the innermost construct that catches them, continue
\* goes on with it.
Jump(jump) ==
  LET inner == {i \in DOMAIN stack : Catches(stack[i].kind, jump)}
  IN  /\ state = "running"
      /\ \/ \E i \in inner :
              /\ \A j \in inner : j <= i
              /\ stack' = IF jump # "continue" THEN SubSeq(stack, 1, i - 1)
                          ELSE [SubSeq(stack, 1, i) EXCEPT
                                  ![i].kind = IF @ = "while" THEN "cond" ELSE @]
              /\ UNCHANGED state
         \/ inner = {} /\ stack' = <<>> /\ state' = "terminated"
      /\ UNCHANGED left

\* After an error nothing runs, and the scopes stay in their order; that of a
\* call whose function has not begun is the last, and empty.
Fail ==
  /\ state = "running"
  /\ state' = "idle" /\ stack' = <<>>
  /\ IsPrefix(left, left')
  /\ LET live == {i \in DOMAIN stack : stack[i].kind \in Scoped}
         new  == DOMAIN left' \ DOMAIN left
     IN  \E place \in [live -> new] :
           /\ \A i, j \in live : i < j => place[i] < place[j]
           /\ \A i \in live : left'[place[i]] = stack[i].names
           /\ \A k \in new :
                \/ \E i \in live : place[i] = k
                \/ k = Len(left') /\ left'[k] = {}

Next ==
  \/ Start \/ Stop \/ Enter \/ Turn \/ Leave \/ Fail
  \/ \E x \in Var : Bind(x)
  \/ \E jump \in {"break", "continue", "return"} : Jump(jump)

Spec == Init /\ [][Next]_vars
=============================================================================
