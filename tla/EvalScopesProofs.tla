--------------------------- MODULE EvalScopesProofs ---------------------------
(***************************************************************************)
(* However constructs nest, and whatever breaks, continues, returns and     *)
(* errors have left behind, the handlers' loops find the level they have    *)
(* recorded, statements run in the context of the innermost construct, and  *)
(* the table of functions keeps what outer blocks have declared.  The proof *)
(* sorts the steps by what they do to the levels.                           *)
(***************************************************************************)
EXTENDS EvalScopes, CommonLemmas

-----------------------------------------------------------------------------
(* Tables. *)

\* A table keeps its first context, and its level follows push and pop.
LEMMA Tables ==
  ASSUME NEW X, NEW tab \in Seq(SUBSET X), tab # <<>>
  PROVE  /\ level(tab) \in Nat
         /\ \A c \in SUBSET X :
              /\ Append(tab, c) \in Seq(SUBSET X) /\ Append(tab, c) # <<>>
              /\ level(Append(tab, c)) = level(tab) + 1
         /\ push(tab) \in Seq(SUBSET X) /\ push(tab) # <<>>
         /\ level(push(tab)) = level(tab) + 1
         /\ pop(tab) \in Seq(SUBSET X) /\ pop(tab) # <<>>
         /\ level(pop(tab)) = IF level(tab) = 0 THEN 0 ELSE level(tab) - 1
<1>1. Len(tab) \in Nat /\ Len(tab) # 0
  OBVIOUS
<1>2. ASSUME NEW c \in SUBSET X
      PROVE  /\ Append(tab, c) \in Seq(SUBSET X) /\ Append(tab, c) # <<>>
             /\ level(Append(tab, c)) = level(tab) + 1
  BY <1>1 DEF level
<1>3. ASSUME level(tab) # 0
      PROVE  /\ Front(tab) \in Seq(SUBSET X) /\ Front(tab) # <<>>
             /\ Len(Front(tab)) = Len(tab) - 1
  BY <1>1, <1>3, FrontIsSeq, EmptySeq DEF level
<1>4. {} \in SUBSET X
  OBVIOUS
<1>5. /\ push(tab) \in Seq(SUBSET X) /\ push(tab) # <<>>
      /\ level(push(tab)) = level(tab) + 1
  BY <1>2, <1>4 DEF push
<1>6. /\ pop(tab) \in Seq(SUBSET X) /\ pop(tab) # <<>>
      /\ level(pop(tab)) = IF level(tab) = 0 THEN 0 ELSE level(tab) - 1
  BY <1>1, <1>3 DEF level, pop
<1>7. level(tab) \in Nat
  BY <1>1 DEF level
<1> QED
  BY <1>2, <1>5, <1>6, <1>7

\* Inserting a name changes no level.
LEMMA Inserting ==
  ASSUME NEW X, NEW tab \in Seq(SUBSET X), tab # <<>>, NEW name \in X
  PROVE  /\ insert(tab, name) \in Seq(SUBSET X) /\ insert(tab, name) # <<>>
         /\ level(insert(tab, name)) = level(tab)
<1> DEFINE c == tab[Len(tab)] \cup {name}
<1>1. Len(tab) \in Nat /\ Len(tab) # 0
  OBVIOUS
<1>2. tab[Len(tab)] \in SUBSET X
  BY <1>1
<1>3. c \in SUBSET X
  BY <1>2
<1>4. insert(tab, name) = [tab EXCEPT ![Len(tab)] = c]
  BY DEF insert
<1> HIDE DEF c
<1>5. insert(tab, name) \in Seq(SUBSET X) /\ Len(insert(tab, name)) = Len(tab)
  BY <1>1, <1>3, <1>4
<1> QED
  BY <1>1, <1>5 DEF level

-----------------------------------------------------------------------------
(* The kinds of step, as levels see them. *)

Framed == Len(frames)

\* A visit begins, with a context for its variables or without.
Opens ==
  \E f \in Frames :
    /\ Running /\ mode' = "running"
    /\ frames' = Append(frames, f)
    /\ level(symTab') = level(symTab) + Pushed(f.kind)
    /\ level(funcTab') = level(funcTab) + (IF f.kind = "block" THEN 1 ELSE 0)
    /\ f.level = level(symTab') /\ f.flevel = level(funcTab')
    /\ UNCHANGED <<base, fbase>>

\* A visit ends, or the loop or the call that has caught an exception does.
Closes ==
  /\ Running \/ Caught
  /\ mode' = "running" /\ frames # <<>> /\ frames' = Front(frames)
  /\ symTab' = IF Pushed(Top.kind) = 1 THEN pop(symTab) ELSE symTab
  /\ funcTab' = IF Top.kind = "block" THEN pop(funcTab) ELSE funcTab
  /\ UNCHANGED <<base, fbase>>

\* No level changes, and no visit begins or ends.
Keeps ==
  /\ level(symTab') = level(symTab) /\ level(funcTab') = level(funcTab)
  /\ frames' \in Seq(Frames) /\ Len(frames') = Len(frames)
  /\ \A i \in DOMAIN frames :
       /\ frames'[i].level = frames[i].level
       /\ frames'[i].flevel = frames[i].flevel
       /\ Pushed(frames'[i].kind) = Pushed(frames[i].kind)
       /\ frames'[i].kind = "block" <=> frames[i].kind = "block"
  /\ UNCHANGED <<base, fbase>>
  /\ \/ mode \in {"idle", "running"}
     \/ mode' = "terminated"
     \/ Caught /\ frames # <<>>

\* The innermost visit is a frame.
LEMMA TopOfFrames ==
  ASSUME TypeOK, frames # <<>>
  PROVE  /\ Framed \in Nat \ {0} /\ Top \in Frames /\ Top = frames[Framed]
         /\ DOMAIN frames = 1..Framed
BY LastIsElement, LenProperties DEF TypeOK, Top, Last, Framed

\* The tables of a state, and the frames made of them.
LEMMA TablesOfState ==
  ASSUME TypeOK
  PROVE  /\ symTab \in Seq(SUBSET Var) /\ symTab # <<>>
         /\ funcTab \in Seq(SUBSET Fun) /\ funcTab # <<>>
         /\ push(symTab) \in Seq(SUBSET Var) /\ push(symTab) # <<>>
         /\ level(symTab) \in Nat /\ level(push(symTab)) = level(symTab) + 1
         /\ pop(symTab) \in Seq(SUBSET Var) /\ pop(symTab) # <<>>
         /\ push(funcTab) \in Seq(SUBSET Fun) /\ push(funcTab) # <<>>
         /\ level(funcTab) \in Nat /\ level(push(funcTab)) = level(funcTab) + 1
         /\ pop(funcTab) \in Seq(SUBSET Fun) /\ pop(funcTab) # <<>>
<1>1. /\ symTab \in Seq(SUBSET Var) /\ symTab # <<>>
      /\ funcTab \in Seq(SUBSET Fun) /\ funcTab # <<>>
  BY DEF TypeOK
<1> QED
  BY <1>1, Tables

LEMMA FrameType ==
  ASSUME NEW tab, level(tab) \in Nat, NEW ftab, level(ftab) \in Nat,
         NEW kind \in Kinds
  PROVE  /\ Frame(kind, tab, ftab) \in Frames
         /\ Frame(kind, tab, ftab).kind = kind
         /\ Frame(kind, tab, ftab).level = level(tab)
         /\ Frame(kind, tab, ftab).flevel = level(ftab)
BY DEF Frame, Frames

\* The frame of a loop that goes from its condition to its body, or back.
LEMMA BecomeKeeps ==
  ASSUME TypeOK, frames # <<>>, NEW kind \in Kinds, Become(kind)
  PROVE  /\ frames' \in Seq(Frames) /\ Len(frames') = Len(frames)
         /\ \A i \in DOMAIN frames :
              /\ frames'[i].level = frames[i].level
              /\ frames'[i].flevel = frames[i].flevel
              /\ i # Framed => frames'[i].kind = frames[i].kind
         /\ frames'[Framed].kind = kind
<1>1. Framed \in Nat \ {0} /\ frames[Framed] \in Frames /\ DOMAIN frames = 1..Framed
  BY TopOfFrames
<1> DEFINE f == [frames[Framed] EXCEPT !.kind = kind]
<1>2. /\ f \in Frames /\ f.kind = kind
      /\ f.level = frames[Framed].level /\ f.flevel = frames[Framed].flevel
  BY <1>1 DEF Frames
<1>3. frames' = [frames EXCEPT ![Framed] = f]
  BY DEF Become, Framed
<1> HIDE DEF f
<1>4. /\ frames' \in Seq(Frames) /\ Len(frames') = Framed
      /\ \A i \in 1..Framed : frames'[i] = IF i = Framed THEN f ELSE frames[i]
  BY <1>1, <1>2, <1>3, ExceptSeq DEF TypeOK, Framed
<1>5. /\ \A i \in 1..Framed :
           /\ frames'[i].level = frames[i].level
           /\ frames'[i].flevel = frames[i].flevel
           /\ i # Framed => frames'[i].kind = frames[i].kind
      /\ frames'[Framed].kind = kind
  BY <1>1, <1>2, <1>4
<1> QED
  BY <1>1, <1>4, <1>5 DEF Framed

-----------------------------------------------------------------------------
(* Every step is of one of the kinds, or a call, Drop, Unwind or Error. *)

LEMMA Opening ==
  ASSUME TypeOK, visitBlockNode \/ visitForeach \/ visitWhileNode \/ visitFilterExprNode
  PROVE  Opens
<1> USE TablesOfState
<1>1. CASE visitBlockNode
  <2> DEFINE f == Frame("block", symTab', funcTab')
  <2>1. /\ f \in Frames /\ f.kind = "block"
        /\ f.level = level(symTab') /\ f.flevel = level(funcTab')
    <3>1. level(symTab') \in Nat /\ level(funcTab') \in Nat
      BY <1>1 DEF visitBlockNode
    <3> QED
      BY <3>1, FrameType DEF Kinds
  <2> QED
    BY <1>1, <2>1 DEF visitBlockNode, Opens, Pushed, AtStatement, Running
<1>2. CASE visitForeach
  <2> DEFINE f == Frame("foreach", symTab', funcTab)
  <2>1. PICK x \in Var : symTab' = insert(push(symTab), x)
    BY <1>2 DEF visitForeach
  <2>2. /\ symTab' \in Seq(SUBSET Var) /\ symTab' # <<>>
        /\ level(symTab') = level(symTab) + 1
    BY <2>1, Inserting
  <2>3. /\ f \in Frames /\ f.kind = "foreach"
        /\ f.level = level(symTab') /\ f.flevel = level(funcTab)
    <3>1. level(symTab') \in Nat
      BY <2>2
    <3> QED
      BY <3>1, FrameType DEF Kinds
  <2> QED
    BY <1>2, <2>2, <2>3 DEF visitForeach, Opens, Pushed, AtStatement, Running
<1>3. CASE visitWhileNode
  <2> DEFINE f == Frame("cond", symTab, funcTab)
  <2>1. /\ f \in Frames /\ f.kind = "cond"
        /\ f.level = level(symTab) /\ f.flevel = level(funcTab)
    BY FrameType DEF Kinds
  <2> QED
    BY <1>3, <2>1 DEF visitWhileNode, Opens, Pushed, AtStatement, Running
<1>4. CASE visitFilterExprNode
  <2> DEFINE f == Frame("filter", symTab', funcTab)
  <2>1. PICK x \in Var : symTab' = insert(push(symTab), x)
    BY <1>4 DEF visitFilterExprNode
  <2>2. /\ symTab' \in Seq(SUBSET Var) /\ symTab' # <<>>
        /\ level(symTab') = level(symTab) + 1
    BY <2>1, Inserting
  <2>3. /\ f \in Frames /\ f.kind = "filter"
        /\ f.level = level(symTab') /\ f.flevel = level(funcTab)
    <3>1. level(symTab') \in Nat
      BY <2>2
    <3> QED
      BY <3>1, FrameType DEF Kinds
  <2> QED
    BY <1>4, <2>2, <2>3 DEF visitFilterExprNode, Opens, Pushed, AtExpression, Running
<1> QED
  BY <1>1, <1>2, <1>3, <1>4

LEMMA Closing ==
  ASSUME EndBlock \/ EndForeach \/ EndWhile \/ EndCall \/ EndFilter \/ CatchBreak
  PROVE  Closes
<1>1. CASE EndBlock
  BY <1>1 DEF EndBlock, Closes, Pushed, Innermost, Running
<1>2. CASE EndForeach
  BY <1>2 DEF EndForeach, Closes, Pushed, Innermost, Running
<1>3. CASE EndWhile
  BY <1>3 DEF EndWhile, Closes, Pushed, Innermost, Running
<1>4. CASE EndCall
  BY <1>4 DEF EndCall, Closes, Pushed, Innermost, Running
<1>5. CASE EndFilter
  BY <1>5 DEF EndFilter, Closes, Pushed, Innermost, Running
<1>6. CASE CatchBreak
  BY <1>6 DEF CatchBreak, Closes, Caught, Catches, Pushed
<1> QED
  BY <1>1, <1>2, <1>3, <1>4, <1>5, <1>6

LEMMA Keeping ==
  ASSUME TypeOK,
         \/ Line \/ EndLine \/ BeginBody \/ EndBody \/ visitFunction
         \/ visitAssignExpr \/ visitJump \/ CatchContinue \/ Uncaught
  PROVE  Keeps
<1> frames \in Seq(Frames)
  BY DEF TypeOK
<1>1. CASE Line \/ EndLine \/ visitJump \/ Uncaught
  BY <1>1 DEF Line, EndLine, visitJump, Uncaught, Keeps, AtStatement, Running
<1>2. CASE BeginBody
  <2>1. frames # <<>> /\ Top.kind = "cond" /\ Become("while")
    BY <1>2 DEF BeginBody, Innermost
  <2>2. frames[Framed].kind = "cond"
    BY <2>1, TopOfFrames
  <2> QED
    BY <1>2, <2>1, <2>2, BecomeKeeps DEF BeginBody, Keeps, Kinds, Pushed, Running
<1>3. CASE EndBody
  <2>1. frames # <<>> /\ Top.kind = "while" /\ Become("cond")
    BY <1>3 DEF EndBody, Innermost
  <2>2. frames[Framed].kind = "while"
    BY <2>1, TopOfFrames
  <2> QED
    BY <1>3, <2>1, <2>2, BecomeKeeps DEF EndBody, Keeps, Kinds, Pushed, Running
<1>4. CASE visitFunction
  <2>1. PICK f \in Fun : funcTab' = insert(funcTab, f)
    BY <1>4 DEF visitFunction
  <2>2. funcTab \in Seq(SUBSET Fun) /\ funcTab # <<>>
    BY TablesOfState
  <2>3. level(insert(funcTab, f)) = level(funcTab)
    BY <2>2, Inserting
  <2> QED
    BY <1>4, <2>1, <2>3 DEF visitFunction, Keeps, AtStatement, Running
<1>5. CASE visitAssignExpr
  <2>1. PICK x \in Var : symTab' = symTab \/ symTab' = insert(symTab, x)
    BY <1>5 DEF visitAssignExpr
  <2>2. symTab \in Seq(SUBSET Var) /\ symTab # <<>>
    BY TablesOfState
  <2>3. level(insert(symTab, x)) = level(symTab)
    BY <2>2, Inserting
  <2> QED
    BY <1>5, <2>1, <2>3 DEF visitAssignExpr, Keeps, AtExpression, Running
<1>6. CASE CatchContinue
  <2> DEFINE kind == IF Top.kind = "while" THEN "cond" ELSE Top.kind
  <2>1. frames # <<>> /\ Become(kind) /\ Caught /\ mode = "continue" /\ Catches(Top, mode)
    BY <1>6 DEF CatchContinue, Caught
  <2>2. Top.kind \in {"foreach", "while"}
    BY <2>1 DEF Catches
  <2>3. frames[Framed].kind = Top.kind
    BY <2>1, TopOfFrames
  <2>4. kind \in Kinds /\ Pushed(kind) = Pushed(Top.kind) /\ kind # "block"
    BY <2>2 DEF Kinds, Pushed
  <2> HIDE DEF kind
  <2> QED
    BY <1>6, <2>1, <2>2, <2>3, <2>4, BecomeKeeps DEF CatchContinue, Keeps
<1> QED
  BY <1>1, <1>2, <1>3, <1>4, <1>5, <1>6

-----------------------------------------------------------------------------
(* Types. *)

\* A call begins two visits at once.
LEMMA Calling ==
  ASSUME TypeOK, visitFunctionCall
  PROVE  \E f, g \in Frames :
           /\ Running /\ mode' = "running"
           /\ frames' = Append(Append(frames, f), g)
           /\ symTab' \in Seq(SUBSET Var) /\ symTab' # <<>>
           /\ f.kind = "call" /\ g.kind = "block"
           /\ level(symTab') = level(symTab) + 2 /\ level(funcTab') = level(funcTab) + 1
           /\ f.level = level(symTab) + 1 /\ g.level = level(symTab) + 2
           /\ f.flevel = level(funcTab) /\ g.flevel = level(funcTab) + 1
           /\ funcTab' = push(funcTab)
           /\ UNCHANGED <<base, fbase>>
<1>1. PICK params \in SUBSET Var :
        /\ symTab' = push(Append(symTab, params))
        /\ frames' = frames \o <<Frame("call", Append(symTab, params), funcTab),
                                 Frame("block", symTab', funcTab')>>
  BY DEF visitFunctionCall
<1> DEFINE called == Append(symTab, params)
           f == Frame("call", called, funcTab)
           g == Frame("block", symTab', funcTab')
<1>2. /\ called \in Seq(SUBSET Var) /\ called # <<>>
      /\ level(called) = level(symTab) + 1
  BY TablesOfState, Tables
<1>3. /\ symTab' \in Seq(SUBSET Var) /\ symTab' # <<>>
      /\ level(symTab') = level(symTab) + 2
  <2>1. /\ push(called) \in Seq(SUBSET Var) /\ push(called) # <<>>
        /\ level(push(called)) = level(called) + 1
    <3> HIDE DEF called
    <3> QED
      BY <1>2, Tables
  <2>2. level(symTab) \in Nat
    BY TablesOfState
  <2> QED
    BY <1>1, <1>2, <2>1, <2>2
<1>4. funcTab' = push(funcTab) /\ level(funcTab') = level(funcTab) + 1
  BY TablesOfState DEF visitFunctionCall
<1>5. /\ level(called) \in Nat /\ level(symTab') \in Nat
      /\ level(funcTab) \in Nat /\ level(funcTab') \in Nat
  BY <1>2, <1>3, <1>4, TablesOfState
<1>6. /\ f \in Frames /\ f.kind = "call"
      /\ f.level = level(called) /\ f.flevel = level(funcTab)
  BY <1>5, FrameType DEF Kinds
<1>7. /\ g \in Frames /\ g.kind = "block"
      /\ g.level = level(symTab') /\ g.flevel = level(funcTab')
  BY <1>5, FrameType DEF Kinds
<1>8. frames' = frames \o <<f, g>>
  BY <1>1
<1> HIDE DEF f, g, called
<1>9. frames \o <<f, g>> = Append(Append(frames, f), g)
  BY <1>6, <1>7 DEF TypeOK
<1> QED
  BY <1>2, <1>3, <1>4, <1>6, <1>7, <1>8, <1>9
     DEF visitFunctionCall, AtExpression, Running

LEMMA StepKinds ==
  ASSUME TypeOK, Next
  PROVE  Opens \/ Closes \/ Keeps \/ visitFunctionCall \/ Drop \/ Unwind \/ Error
BY Opening, Closing, Keeping DEF Next, Handle

\* The tables of the next state.
LEMMA TablesKept ==
  ASSUME TypeOK, Next
  PROVE  /\ symTab' \in Seq(SUBSET Var) /\ symTab' # <<>>
         /\ funcTab' \in Seq(SUBSET Fun) /\ funcTab' # <<>>
<1>1. /\ \/ symTab' \in {symTab, push(symTab), pop(symTab)}
         \/ \E x \in Var : symTab' \in {insert(symTab, x), insert(push(symTab), x)}
         \/ visitFunctionCall
      /\ \/ funcTab' \in {funcTab, push(funcTab), pop(funcTab)}
         \/ \E f \in Fun : funcTab' = insert(funcTab, f)
  BY DEF Next, Handle, Line, EndLine, visitBlockNode, EndBlock, visitForeach,
         EndForeach, visitWhileNode, BeginBody, EndBody, EndWhile, visitFunction,
         visitFunctionCall, EndCall, visitFilterExprNode, EndFilter,
         visitAssignExpr, visitJump, Error, Drop, Unwind, CatchContinue,
         CatchBreak, Uncaught
<1>2. ASSUME NEW x \in Var
      PROVE  /\ insert(symTab, x) \in Seq(SUBSET Var) /\ insert(symTab, x) # <<>>
             /\ insert(push(symTab), x) \in Seq(SUBSET Var)
             /\ insert(push(symTab), x) # <<>>
  BY TablesOfState, Inserting
<1>3. ASSUME NEW f \in Fun
      PROVE  insert(funcTab, f) \in Seq(SUBSET Fun) /\ insert(funcTab, f) # <<>>
  BY TablesOfState, Inserting
<1>4. symTab' \in Seq(SUBSET Var) /\ symTab' # <<>>
  BY <1>1, <1>2, TablesOfState, Calling
<1>5. funcTab' \in Seq(SUBSET Fun) /\ funcTab' # <<>>
  BY <1>1, <1>3, TablesOfState
<1> QED
  BY <1>4, <1>5

LEMMA TypesKept ==
  ASSUME TypeOK, Next
  PROVE  TypeOK'
<1> frames \in Seq(Frames) /\ base \in Nat /\ fbase \in Nat /\ mode \in Modes
  BY DEF TypeOK
<1>1. mode' \in Modes
  BY DEF Next, Handle, Line, EndLine, visitBlockNode, EndBlock, visitForeach,
         EndForeach, visitWhileNode, BeginBody, EndBody, EndWhile, visitFunction,
         visitFunctionCall, EndCall, visitFilterExprNode, EndFilter,
         visitAssignExpr, visitJump, Error, Drop, Unwind, CatchContinue,
         CatchBreak, Caught, Uncaught, Modes
<1>2. frames' \in Seq(Frames)
  <2>1. CASE Opens
    BY <2>1, AppendIsSeq DEF Opens
  <2>2. CASE visitFunctionCall
    BY SMTT(30), <2>2, Calling, AppendIsSeq
  <2>3. CASE Closes \/ Drop
    BY <2>3, FrontIsSeq DEF Closes, Drop
  <2>4. CASE Keeps
    BY <2>4 DEF Keeps
  <2>5. CASE Unwind
    BY <2>5 DEF Unwind
  <2>6. CASE Error
    BY <2>6, EmptySeq DEF Error
  <2> QED
    BY <2>1, <2>2, <2>3, <2>4, <2>5, <2>6, StepKinds
<1>3. base' \in Nat /\ fbase' \in Nat
  <2>1. CASE Error
    <3>1. level(symTab') \in Nat /\ level(funcTab) \in Nat
      BY TablesKept, Tables, TablesOfState
    <3> QED
      BY <2>1, <3>1 DEF Error
  <2>2. CASE ~Error
    BY <2>2, StepKinds, Calling DEF Opens, Closes, Keeps, Drop, Unwind
  <2> QED
    BY <2>1, <2>2
<1> QED
  BY <1>1, <1>2, <1>3, TablesKept DEF TypeOK

LEMMA InitialTypes ==
  ASSUME Init
  PROVE  TypeOK
<1>1. <<{}>> \in Seq(SUBSET Var) /\ <<{}>> \in Seq(SUBSET Fun)
  OBVIOUS
<1> QED
  BY <1>1 DEF Init, TypeOK, Modes

\* The tables always have a context, and every visit's levels are numbers.
THEOREM EvalTypeCorrect == Spec => []TypeOK
<1>1. ASSUME TypeOK, UNCHANGED vars PROVE TypeOK'
  BY <1>1 DEF vars, TypeOK
<1> QED
  BY <1>1, InitialTypes, TypesKept, PTL DEF Spec

-----------------------------------------------------------------------------
(* Levels.  The four properties are inductive together. *)

LevelInv ==
  ScopesAreNesting /\ CurrentIsInnermost /\ HandlersReachable /\ FunctionsStay

\* How much higher than the visit around it a visit runs in _funcTab, at least.
Blocks(kind) == IF kind = "block" THEN 1 ELSE 0

\* What the levels of the next state's visits are like when a visit has ended.
LEMMA LevelsAfterFront ==
  ASSUME TypeOK, frames # <<>>, frames' = Front(frames), UNCHANGED <<base, fbase>>
  PROVE  /\ Framed \in Nat \ {0} /\ Len(frames') = Framed - 1
         /\ DOMAIN frames' = 1 .. Framed - 1
         /\ \A i \in 1 .. Framed - 1 : frames'[i] = frames[i]
         /\ \A i \in 0 .. Framed - 1 : /\ LevelOf(i)' = LevelOf(i)
                                       /\ FlevelOf(i)' = FlevelOf(i)
<1>1. /\ frames' \in Seq(Frames) /\ Len(frames') = Framed - 1
      /\ \A i \in 1 .. Framed - 1 : frames'[i] = frames[i]
  BY FrontIsSeq DEF TypeOK, Framed
<1>2. Framed \in Nat \ {0} /\ DOMAIN frames' = 1 .. Framed - 1
  BY <1>1, TopOfFrames, LenProperties
<1> QED
  BY <1>1, <1>2 DEF LevelOf, FlevelOf

\* Levels and the number of visits are numbers.
LEMMA Numbers ==
  ASSUME TypeOK
  PROVE  /\ Framed \in Nat /\ DOMAIN frames = 1..Framed
         /\ level(symTab) \in Nat /\ level(funcTab) \in Nat
         /\ \A i \in 0..Framed : LevelOf(i) \in Nat /\ FlevelOf(i) \in Nat
<1>1. Framed \in Nat /\ DOMAIN frames = 1..Framed
  BY LenProperties DEF TypeOK, Framed
<1>2. \A i \in 1..Framed : frames[i].level \in Nat /\ frames[i].flevel \in Nat
  <2> SUFFICES ASSUME NEW i \in 1..Framed
               PROVE  frames[i].level \in Nat /\ frames[i].flevel \in Nat
    OBVIOUS
  <2>1. frames[i] \in Frames
    BY ElementOfSeq DEF TypeOK, Framed
  <2> QED
    BY <2>1 DEF Frames
<1>3. base \in Nat /\ fbase \in Nat
  BY DEF TypeOK
<1> QED
  BY <1>1, <1>2, <1>3, TablesOfState DEF LevelOf, FlevelOf

\* The invariant with its abbreviations in place.
LEMMA LevelInvUnfolded ==
  ASSUME TypeOK
  PROVE  LevelInv <=>
         /\ \A i \in 1..Framed :
              /\ LevelOf(i) = LevelOf(i - 1) + Pushed(frames[i].kind)
              /\ FlevelOf(i) >= FlevelOf(i - 1) + Blocks(frames[i].kind)
         /\ mode \in {"idle", "running"} => level(symTab) = LevelOf(Framed)
         /\ mode \in Jumps => level(symTab) >= LevelOf(Framed)
         /\ level(funcTab) >= FlevelOf(Framed)
<1>1. DOMAIN frames = 1..Framed
  BY Numbers
<1> QED
  BY <1>1 DEF LevelInv, ScopesAreNesting, CurrentIsInnermost, HandlersReachable,
              FunctionsStay, Blocks, Framed

LEMMA LevelInvAfter ==
  ASSUME TypeOK',
         \A i \in 1..Len(frames') :
           /\ LevelOf(i)' = LevelOf(i - 1)' + Pushed(frames'[i].kind)
           /\ FlevelOf(i)' >= FlevelOf(i - 1)' + Blocks(frames'[i].kind),
         mode' \in {"idle", "running"} => level(symTab') = LevelOf(Len(frames))',
         mode' \in Jumps => level(symTab') >= LevelOf(Len(frames))',
         level(funcTab') >= FlevelOf(Len(frames))'
  PROVE  LevelInv'
<1>1. DOMAIN frames' = 1..Len(frames')
  BY LenProperties DEF TypeOK
<1> QED
  BY <1>1 DEF LevelInv, ScopesAreNesting, CurrentIsInnermost, HandlersReachable,
              FunctionsStay, Blocks

\* A visit that ends takes its context with it.
LEMMA ClosingKeepsLevels ==
  ASSUME TypeOK, TypeOK', LevelInv, Closes
  PROVE  LevelInv'
<1>1. frames # <<>> /\ frames' = Front(frames) /\ UNCHANGED <<base, fbase>>
  BY DEF Closes
<1>2. /\ Framed \in Nat \ {0} /\ Len(frames') = Framed - 1
      /\ \A i \in 1 .. Framed - 1 : frames'[i] = frames[i]
      /\ \A i \in 0 .. Framed - 1 : /\ LevelOf(i)' = LevelOf(i)
                                    /\ FlevelOf(i)' = FlevelOf(i)
  BY <1>1, LevelsAfterFront
<1>3. /\ \A i \in 1..Framed :
           /\ LevelOf(i) = LevelOf(i - 1) + Pushed(frames[i].kind)
           /\ FlevelOf(i) >= FlevelOf(i - 1) + Blocks(frames[i].kind)
      /\ level(funcTab) >= FlevelOf(Framed)
  BY LevelInvUnfolded
<1>4. LevelOf(Framed) = Top.level /\ Top = frames[Framed]
  BY <1>1, <1>2, TopOfFrames DEF LevelOf
<1>5. level(symTab) = LevelOf(Framed)
  BY <1>4, LevelInvUnfolded DEF Closes, Caught, Running
<1>6. level(symTab') = LevelOf(Framed - 1)
  <2>1. /\ Framed - 1 \in 0..Framed /\ LevelOf(Framed - 1) \in Nat
        /\ LevelOf(Framed) = LevelOf(Framed - 1) + Pushed(Top.kind)
    BY <1>2, <1>3, <1>4, Numbers
  <2>2. level(pop(symTab)) = IF level(symTab) = 0 THEN 0 ELSE level(symTab) - 1
    BY TablesOfState, Tables
  <2>3. CASE Pushed(Top.kind) = 1
    BY <1>5, <2>1, <2>2, <2>3 DEF Closes
  <2>4. CASE Pushed(Top.kind) = 0
    BY <1>5, <2>1, <2>4 DEF Closes
  <2> QED
    BY <2>3, <2>4 DEF Pushed
<1>7. level(funcTab') >= FlevelOf(Framed - 1)
  <2>1. /\ FlevelOf(Framed - 1) \in Nat /\ FlevelOf(Framed) \in Nat
        /\ FlevelOf(Framed) >= FlevelOf(Framed - 1) + Blocks(Top.kind)
        /\ level(funcTab) \in Nat
    BY <1>2, <1>3, <1>4, Numbers
  <2>2. level(pop(funcTab)) = IF level(funcTab) = 0 THEN 0 ELSE level(funcTab) - 1
    BY TablesOfState, Tables
  <2>3. CASE Top.kind = "block"
    BY <1>3, <2>1, <2>2, <2>3 DEF Closes, Blocks
  <2>4. CASE Top.kind # "block"
    BY <1>3, <2>1, <2>4 DEF Closes, Blocks
  <2> QED
    BY <2>3, <2>4
<1>8. \A i \in 1..Len(frames') :
        /\ LevelOf(i)' = LevelOf(i - 1)' + Pushed(frames'[i].kind)
        /\ FlevelOf(i)' >= FlevelOf(i - 1)' + Blocks(frames'[i].kind)
  BY <1>2, <1>3
<1>9. /\ LevelOf(Len(frames))' = LevelOf(Framed - 1)
      /\ FlevelOf(Len(frames))' = FlevelOf(Framed - 1)
  BY <1>2
<1>10. mode' = "running"
  BY DEF Closes
<1> QED
  BY <1>6, <1>7, <1>8, <1>9, <1>10, LevelInvAfter DEF Jumps

\* A visit that begins records the level that its construct begins at.
LEMMA OpeningKeepsLevels ==
  ASSUME TypeOK, TypeOK', LevelInv, Opens
  PROVE  LevelInv'
<1>1. PICK f \in Frames :
        /\ Running /\ mode' = "running" /\ frames' = Append(frames, f)
        /\ level(symTab') = level(symTab) + Pushed(f.kind)
        /\ level(funcTab') = level(funcTab) + Blocks(f.kind)
        /\ f.level = level(symTab') /\ f.flevel = level(funcTab')
        /\ UNCHANGED <<base, fbase>>
  BY DEF Opens, Blocks
<1> PICK n \in Nat : n = Framed
  BY Numbers
<1>2. /\ Len(frames') = n + 1
      /\ \A i \in 1..n : frames'[i] = frames[i]
      /\ frames'[n + 1] = f
  BY <1>1, Numbers, AppendIsSeq DEF TypeOK, Framed
<1>3. /\ \A i \in 0..n : LevelOf(i)' = LevelOf(i) /\ FlevelOf(i)' = FlevelOf(i)
      /\ LevelOf(n + 1)' = f.level /\ FlevelOf(n + 1)' = f.flevel
  BY <1>1, <1>2 DEF LevelOf, FlevelOf
<1>4. /\ \A i \in 1..n :
           /\ LevelOf(i) = LevelOf(i - 1) + Pushed(frames[i].kind)
           /\ FlevelOf(i) >= FlevelOf(i - 1) + Blocks(frames[i].kind)
      /\ level(symTab) = LevelOf(n) /\ level(funcTab) >= FlevelOf(n)
  BY <1>1, LevelInvUnfolded DEF Running
<1>5. FlevelOf(n) \in Nat /\ level(funcTab) \in Nat /\ Blocks(f.kind) \in Nat
  BY <1>2, Numbers DEF Blocks
<1>6. f.flevel >= FlevelOf(n) + Blocks(f.kind)
  BY <1>1, <1>4, <1>5
<1>7. \A i \in 1..Len(frames') :
        /\ LevelOf(i)' = LevelOf(i - 1)' + Pushed(frames'[i].kind)
        /\ FlevelOf(i)' >= FlevelOf(i - 1)' + Blocks(frames'[i].kind)
  <2> SUFFICES ASSUME NEW i \in 1 .. n + 1
               PROVE  /\ LevelOf(i)' = LevelOf(i - 1)' + Pushed(frames'[i].kind)
                      /\ FlevelOf(i)' >= FlevelOf(i - 1)' + Blocks(frames'[i].kind)
    BY <1>2
  <2>1. CASE i \in 1..n
    BY <1>2, <1>3, <1>4, <2>1
  <2>2. CASE i = n + 1
    BY <1>1, <1>2, <1>3, <1>4, <1>6, <2>2
  <2> QED
    BY <1>2, <2>1, <2>2
<1>8. /\ LevelOf(Len(frames))' = level(symTab')
      /\ FlevelOf(Len(frames))' = level(funcTab')
  BY <1>1, <1>2, <1>3
<1>9. level(funcTab') \in Nat
  BY <1>1, <1>5
<1> QED
  BY <1>1, <1>7, <1>8, <1>9, LevelInvAfter DEF Jumps

\* A call begins one context higher, and its function's block two.
LEMMA CallingKeepsLevels ==
  ASSUME TypeOK, TypeOK', LevelInv, visitFunctionCall
  PROVE  LevelInv'
<1>1. PICK f, g \in Frames :
        /\ Running /\ mode' = "running"
        /\ frames' = Append(Append(frames, f), g)
        /\ f.kind = "call" /\ g.kind = "block"
        /\ level(symTab') = level(symTab) + 2 /\ level(funcTab') = level(funcTab) + 1
        /\ f.level = level(symTab) + 1 /\ g.level = level(symTab) + 2
        /\ f.flevel = level(funcTab) /\ g.flevel = level(funcTab) + 1
        /\ UNCHANGED <<base, fbase>>
  BY Calling
<1> PICK n \in Nat : n = Framed
  BY Numbers
<1>2. /\ Len(frames') = n + 2
      /\ \A i \in 1..n : frames'[i] = frames[i]
      /\ frames'[n + 1] = f /\ frames'[n + 2] = g
  <2> DEFINE once == Append(frames, f)
  <2>1. /\ once \in Seq(Frames) /\ Len(once) = n + 1
        /\ \A i \in 1..n : once[i] = frames[i]
        /\ once[n + 1] = f
    BY Numbers, AppendIsSeq DEF TypeOK, Framed
  <2> HIDE DEF once
  <2>2. /\ Len(Append(once, g)) = Len(once) + 1
        /\ \A i \in 1..Len(once) : Append(once, g)[i] = once[i]
        /\ Append(once, g)[Len(once) + 1] = g
    BY <2>1, AppendIsSeq
  <2>3. frames' = Append(once, g)
    BY <1>1 DEF once
  <2> QED
    BY <2>1, <2>2, <2>3
<1>3. /\ \A i \in 0..n : LevelOf(i)' = LevelOf(i) /\ FlevelOf(i)' = FlevelOf(i)
      /\ LevelOf(n + 1)' = f.level /\ FlevelOf(n + 1)' = f.flevel
      /\ LevelOf(n + 2)' = g.level /\ FlevelOf(n + 2)' = g.flevel
  BY <1>1, <1>2 DEF LevelOf, FlevelOf
<1>4. /\ \A i \in 1..n :
           /\ LevelOf(i) = LevelOf(i - 1) + Pushed(frames[i].kind)
           /\ FlevelOf(i) >= FlevelOf(i - 1) + Blocks(frames[i].kind)
      /\ level(symTab) = LevelOf(n) /\ level(funcTab) >= FlevelOf(n)
  BY <1>1, LevelInvUnfolded DEF Running
<1>5. FlevelOf(n) \in Nat /\ level(funcTab) \in Nat /\ level(symTab) \in Nat
  BY <1>2, Numbers
<1>6. /\ g.level = f.level + 1 /\ g.flevel >= f.flevel + 1
      /\ g.level = level(symTab') /\ g.flevel = level(funcTab')
  BY <1>1, <1>5
<1>7. \A i \in 1..Len(frames') :
        /\ LevelOf(i)' = LevelOf(i - 1)' + Pushed(frames'[i].kind)
        /\ FlevelOf(i)' >= FlevelOf(i - 1)' + Blocks(frames'[i].kind)
  <2> SUFFICES ASSUME NEW i \in 1 .. n + 2
               PROVE  /\ LevelOf(i)' = LevelOf(i - 1)' + Pushed(frames'[i].kind)
                      /\ FlevelOf(i)' >= FlevelOf(i - 1)' + Blocks(frames'[i].kind)
    BY <1>2
  <2>1. CASE i \in 1..n
    BY <1>2, <1>3, <1>4, <2>1
  <2>2. CASE i = n + 1
    <3>1. frames'[i].kind = "call" /\ i - 1 = n
      BY <1>1, <1>2, <2>2
    <3>2. LevelOf(i)' = LevelOf(n) + 1 /\ FlevelOf(i)' >= FlevelOf(n) + 0
      BY <1>1, <1>3, <1>4, <1>5, <2>2
    <3> QED
      BY <1>2, <1>3, <3>1, <3>2 DEF Pushed, Blocks
  <2>3. CASE i = n + 2
    <3>1. frames'[i].kind = "block" /\ i - 1 = n + 1
      BY <1>1, <1>2, <2>3
    <3>2. LevelOf(i)' = f.level + 1 /\ FlevelOf(i)' >= f.flevel + 1
      BY <1>3, <1>6, <2>3
    <3> QED
      BY <1>3, <3>1, <3>2 DEF Pushed, Blocks
  <2> QED
    BY <1>2, <2>1, <2>2, <2>3
<1>8. /\ LevelOf(Len(frames))' = level(symTab')
      /\ FlevelOf(Len(frames))' = level(funcTab')
  BY <1>2, <1>3, <1>6
<1>9. level(funcTab') \in Nat
  BY <1>1, <1>5
<1> QED
  BY <1>1, <1>7, <1>8, <1>9, LevelInvAfter DEF Jumps

LEMMA KeepingKeepsLevels ==
  ASSUME TypeOK, TypeOK', LevelInv, Keeps
  PROVE  LevelInv'
<1> PICK n \in Nat : n = Framed
  BY Numbers
<1>1. /\ Len(frames') = n
      /\ \A i \in 1..n :
           /\ frames'[i].level = frames[i].level
           /\ frames'[i].flevel = frames[i].flevel
           /\ Pushed(frames'[i].kind) = Pushed(frames[i].kind)
           /\ Blocks(frames'[i].kind) = Blocks(frames[i].kind)
      /\ level(symTab') = level(symTab) /\ level(funcTab') = level(funcTab)
      /\ UNCHANGED <<base, fbase>>
  BY Numbers DEF Keeps, Framed, Blocks
<1>2. \A i \in 0..n : LevelOf(i)' = LevelOf(i) /\ FlevelOf(i)' = FlevelOf(i)
  BY <1>1 DEF LevelOf, FlevelOf
<1>3. /\ \A i \in 1..n :
           /\ LevelOf(i) = LevelOf(i - 1) + Pushed(frames[i].kind)
           /\ FlevelOf(i) >= FlevelOf(i - 1) + Blocks(frames[i].kind)
      /\ level(funcTab) >= FlevelOf(n)
  BY LevelInvUnfolded
<1>4. mode' # "terminated" => level(symTab) = LevelOf(n)
  <2>1. CASE mode \in {"idle", "running"}
    BY <2>1, LevelInvUnfolded
  <2>2. CASE Caught /\ frames # <<>>
    BY <2>2, TopOfFrames DEF Caught, LevelOf
  <2> QED
    BY <2>1, <2>2 DEF Keeps
<1>5. \A i \in 1..Len(frames') :
        /\ LevelOf(i)' = LevelOf(i - 1)' + Pushed(frames'[i].kind)
        /\ FlevelOf(i)' >= FlevelOf(i - 1)' + Blocks(frames'[i].kind)
  BY <1>1, <1>2, <1>3
<1>6. /\ mode' # "terminated" => level(symTab') = LevelOf(Len(frames))'
      /\ level(funcTab') >= FlevelOf(Len(frames))'
  BY <1>1, <1>2, <1>3, <1>4
<1>7. level(symTab') \in Nat
  BY <1>1, Numbers
<1> QED
  BY <1>5, <1>6, <1>7, LevelInvAfter DEF Jumps

\* A visit that an exception passes leaves its contexts to the handler.
LEMMA DropKeepsLevels ==
  ASSUME TypeOK, TypeOK', LevelInv, Drop
  PROVE  LevelInv'
<1>1. /\ Framed \in Nat \ {0} /\ Len(frames') = Framed - 1
      /\ \A i \in 1 .. Framed - 1 : frames'[i] = frames[i]
      /\ \A i \in 0 .. Framed - 1 : /\ LevelOf(i)' = LevelOf(i)
                                    /\ FlevelOf(i)' = FlevelOf(i)
  BY LevelsAfterFront DEF Drop
<1>2. /\ \A i \in 1..Framed :
           /\ LevelOf(i) = LevelOf(i - 1) + Pushed(frames[i].kind)
           /\ FlevelOf(i) >= FlevelOf(i - 1) + Blocks(frames[i].kind)
      /\ level(symTab) >= LevelOf(Framed) /\ level(funcTab) >= FlevelOf(Framed)
  BY LevelInvUnfolded DEF Drop
<1>3. /\ LevelOf(Framed) = LevelOf(Framed - 1) + Pushed(frames[Framed].kind)
      /\ FlevelOf(Framed) >= FlevelOf(Framed - 1) + Blocks(frames[Framed].kind)
      /\ Pushed(frames[Framed].kind) \in Nat /\ Blocks(frames[Framed].kind) \in Nat
  BY <1>1, <1>2 DEF Pushed, Blocks
<1>4. /\ LevelOf(Framed) \in Nat /\ LevelOf(Framed - 1) \in Nat
      /\ FlevelOf(Framed) \in Nat /\ FlevelOf(Framed - 1) \in Nat
      /\ level(symTab) \in Nat /\ level(funcTab) \in Nat
  BY <1>1, Numbers
<1>5. level(symTab) >= LevelOf(Framed - 1) /\ level(funcTab) >= FlevelOf(Framed - 1)
  BY <1>2, <1>3, <1>4
<1>6. /\ level(symTab') >= LevelOf(Len(frames))'
      /\ level(funcTab') >= FlevelOf(Len(frames))'
  BY <1>1, <1>5 DEF Drop
<1>7. \A i \in 1..Len(frames') :
        /\ LevelOf(i)' = LevelOf(i - 1)' + Pushed(frames'[i].kind)
        /\ FlevelOf(i)' >= FlevelOf(i - 1)' + Blocks(frames'[i].kind)
  BY <1>1, <1>2
<1> QED
  BY <1>6, <1>7, LevelInvAfter DEF Drop, Jumps

\* A handler pops no context below the level it waits for.
LEMMA UnwindKeepsLevels ==
  ASSUME TypeOK, TypeOK', LevelInv, Unwind
  PROVE  LevelInv'
<1> PICK n \in Nat : n = Framed
  BY Numbers
<1>1. /\ frames' = frames /\ Len(frames') = n /\ mode' \in Jumps
      /\ symTab' = pop(symTab) /\ funcTab' = funcTab
      /\ level(symTab) # Top.level /\ frames # <<>>
  BY DEF Unwind, Framed
<1>2. \A i \in 0..n : LevelOf(i)' = LevelOf(i) /\ FlevelOf(i)' = FlevelOf(i)
  BY DEF Unwind, LevelOf, FlevelOf
<1>3. /\ \A i \in 1..n :
           /\ LevelOf(i) = LevelOf(i - 1) + Pushed(frames[i].kind)
           /\ FlevelOf(i) >= FlevelOf(i - 1) + Blocks(frames[i].kind)
      /\ level(symTab) >= LevelOf(n) /\ level(funcTab) >= FlevelOf(n)
  BY LevelInvUnfolded DEF Unwind
<1>4. level(symTab) # LevelOf(n) /\ LevelOf(n) \in Nat /\ level(symTab) \in Nat
  BY <1>1, TopOfFrames, Numbers DEF LevelOf
<1>5. level(pop(symTab)) = IF level(symTab) = 0 THEN 0 ELSE level(symTab) - 1
  BY TablesOfState, Tables
<1>6. /\ level(symTab') >= LevelOf(Len(frames))'
      /\ level(funcTab') >= FlevelOf(Len(frames))'
  BY <1>1, <1>2, <1>3, <1>4, <1>5
<1>7. \A i \in 1..Len(frames') :
        /\ LevelOf(i)' = LevelOf(i - 1)' + Pushed(frames'[i].kind)
        /\ FlevelOf(i)' >= FlevelOf(i - 1)' + Blocks(frames'[i].kind)
  BY <1>1, <1>2, <1>3
<1> QED
  BY <1>1, <1>6, <1>7, LevelInvAfter DEF Jumps

\* After an error nothing runs, at whatever level.
LEMMA ErrorKeepsLevels ==
  ASSUME TypeOK, TypeOK', Error
  PROVE  LevelInv'
<1>1. /\ Len(frames') = 0 /\ mode' = "idle"
      /\ base' = level(symTab') /\ fbase' = level(funcTab')
  BY DEF Error
<1>2. LevelOf(Len(frames))' = base' /\ FlevelOf(Len(frames))' = fbase'
  BY <1>1 DEF LevelOf, FlevelOf
<1>3. level(funcTab') \in Nat
  BY <1>1 DEF TypeOK
<1> QED
  BY <1>1, <1>2, <1>3, LevelInvAfter DEF Jumps

-----------------------------------------------------------------------------
LEMMA LevelsAlwaysRight == Spec => []LevelInv
<1>1. Init => LevelInv
  BY InitialTypes, LevelInvUnfolded
     DEF Init, level, LevelOf, FlevelOf, Framed, Jumps
<1>2. ASSUME TypeOK, TypeOK', LevelInv, [Next]_vars PROVE LevelInv'
  <2>1. CASE Next
    BY <1>2, <2>1, StepKinds, OpeningKeepsLevels, CallingKeepsLevels,
       ClosingKeepsLevels, KeepingKeepsLevels, DropKeepsLevels,
       UnwindKeepsLevels, ErrorKeepsLevels
  <2>2. CASE UNCHANGED vars
    BY <1>2, <2>2 DEF vars, LevelInv, ScopesAreNesting, CurrentIsInnermost,
       HandlersReachable, FunctionsStay, LevelOf, FlevelOf
  <2> QED
    BY <1>2, <2>1, <2>2
<1> QED
  BY <1>1, <1>2, EvalTypeCorrect, PTL DEF Spec

\* The level that a handler waits for is never above that of _symTab, whatever
\* earlier jumps and errors have left on the tables: its loop ends.
THEOREM HandlersAlwaysReach == Spec => []HandlersReachable
BY LevelsAlwaysRight, PTL DEF LevelInv

\* Each construct runs one context above the one around it, or none if it is a
\* while, whatever has been jumped out of before.
THEOREM ScopesAlwaysNest == Spec => []ScopesAreNesting
BY LevelsAlwaysRight, PTL DEF LevelInv

\* Statements run in the context of the innermost construct.
THEOREM AlwaysInnermost == Spec => []CurrentIsInnermost
BY LevelsAlwaysRight, PTL DEF LevelInv

\* What an outer block has declared is never popped from _funcTab.
THEOREM FunctionsAlwaysStay == Spec => []FunctionsStay
BY LevelsAlwaysRight, PTL DEF LevelInv

-----------------------------------------------------------------------------
(***************************************************************************)
(* EvalScopes implements ScopeStack: the tables, the levels that visits     *)
(* record and the handlers' loops do to the names what scopes that begin    *)
(* and end with their constructs would.  A jump is made when it is thrown,   *)
(* and what handlers do afterwards changes no scope.                        *)
(***************************************************************************)
-----------------------------------------------------------------------------
(* Tables that have the same lower contexts. *)

\* tab and new have the same first n contexts.
Agree(tab, new, n) ==
  /\ n <= Len(tab) /\ n <= Len(new)
  /\ \A k \in 1..n : new[k] = tab[k]

\* The contexts outside of the constructs stay.
LEMMA SameFirst ==
  ASSUME NEW S, NEW tab \in Seq(S), NEW new \in Seq(S), NEW n \in Nat,
         Agree(tab, new, n)
  PROVE  SubSeq(new, 1, n) = SubSeq(tab, 1, n)
<1>1. /\ Len(tab) \in Nat /\ Len(new) \in Nat /\ n <= Len(tab) /\ n <= Len(new)
      /\ \A k \in 1..n : new[k] = tab[k]
  BY DEF Agree
<1>2. /\ SubSeq(tab, 1, n) = [k \in 1..n |-> tab[k]]
      /\ SubSeq(new, 1, n) = [k \in 1..n |-> new[k]]
  BY <1>1
<1> QED
  BY <1>1, <1>2

LEMMA AgreeLess ==
  ASSUME NEW tab, NEW new, NEW n \in Nat, NEW m \in 0..n, Agree(tab, new, n),
         Len(tab) \in Nat, Len(new) \in Nat
  PROVE  Agree(tab, new, m)
BY DEF Agree

LEMMA AgreeAgain ==
  ASSUME NEW tab, NEW new, NEW n \in Nat, Agree(tab, new, n),
         NEW newer, Agree(new, newer, n + 1), Len(newer) \in Nat
  PROVE  Agree(tab, newer, n)
BY DEF Agree

\* Append, push, pop and insert change the top only.
LEMMA AppendAgrees ==
  ASSUME NEW X, NEW tab \in Seq(SUBSET X), NEW c \in SUBSET X
  PROVE  Agree(tab, Append(tab, c), Len(tab)) /\ Append(tab, c)[Len(tab) + 1] = c
<1>1. Len(tab) \in Nat
  BY LenProperties
<1>2. /\ Len(Append(tab, c)) = Len(tab) + 1
      /\ \A i \in 1..Len(tab) : Append(tab, c)[i] = tab[i]
      /\ Append(tab, c)[Len(tab) + 1] = c
  BY AppendIsSeq
<1> QED
  BY <1>1, <1>2 DEF Agree

LEMMA PushAgrees ==
  ASSUME NEW X, NEW tab \in Seq(SUBSET X)
  PROVE  Agree(tab, push(tab), Len(tab)) /\ push(tab)[Len(tab) + 1] = {}
BY AppendAgrees DEF push

LEMMA PopAgrees ==
  ASSUME NEW X, NEW tab \in Seq(SUBSET X), tab # <<>>,
         NEW n \in Nat, n <= level(tab)
  PROVE  Agree(tab, pop(tab), n)
<1>1. Len(tab) \in Nat \ {0}
  BY EmptySeq
<1>2. CASE level(tab) = 0
  BY <1>1, <1>2 DEF pop, Agree, level
<1>3. CASE level(tab) # 0
  <2>1. /\ Len(Front(tab)) = Len(tab) - 1
        /\ \A i \in 1 .. Len(tab) - 1 : Front(tab)[i] = tab[i]
    BY FrontIsSeq
  <2> QED
    BY <1>1, <1>3, <2>1 DEF pop, Agree, level
<1> QED
  BY <1>2, <1>3

LEMMA InsertAgrees ==
  ASSUME NEW X, NEW tab \in Seq(SUBSET X), tab # <<>>, NEW x \in X
  PROVE  /\ Agree(tab, insert(tab, x), level(tab))
         /\ Len(insert(tab, x)) = Len(tab)
         /\ insert(tab, x)[Len(tab)] = tab[Len(tab)] \cup {x}
<1>1. Len(tab) \in Nat \ {0}
  BY EmptySeq
<1> DEFINE c == tab[Len(tab)] \cup {x}
<1>2. c \in SUBSET X
  BY <1>1
<1>3. insert(tab, x) = [tab EXCEPT ![Len(tab)] = c]
  BY DEF insert
<1> HIDE DEF c
<1>4. /\ Len(insert(tab, x)) = Len(tab) /\ insert(tab, x)[Len(tab)] = c
      /\ \A i \in 1 .. Len(tab) - 1 : insert(tab, x)[i] = tab[i]
  BY <1>1, <1>2, <1>3
<1> QED
  BY <1>1, <1>4 DEF c, Agree, level

-----------------------------------------------------------------------------
(* The constructs that visits stand for. *)

Stacked == [kind : Kinds, names : SUBSET Var]

\* A table has the contexts of these visits.
Holds(visits, tab) == \A i \in DOMAIN visits : visits[i].level < Len(tab)

LEMMA NamesType ==
  ASSUME NEW f \in Frames, NEW tab \in Seq(SUBSET Var), f.level < Len(tab)
  PROVE  Names(f, tab) \in SUBSET Var
<1>1. f.level + 1 \in 1..Len(tab)
  BY DEF Frames
<1>2. tab[f.level + 1] \in SUBSET Var
  BY <1>1, ElementOfSeq
<1> QED
  BY <1>2 DEF Names

LEMMA ConstructsAre ==
  ASSUME NEW visits \in Seq(Frames), NEW tab \in Seq(SUBSET Var), Holds(visits, tab)
  PROVE  /\ Constructs(visits, tab) \in Seq(Stacked)
         /\ Len(Constructs(visits, tab)) = Len(visits)
         /\ DOMAIN Constructs(visits, tab) = 1..Len(visits)
         /\ \A i \in 1..Len(visits) :
              /\ Constructs(visits, tab)[i]
                   = [kind |-> visits[i].kind, names |-> Names(visits[i], tab)]
              /\ Constructs(visits, tab)[i].kind = visits[i].kind
              /\ Constructs(visits, tab)[i].names = Names(visits[i], tab)
<1> DEFINE c(i) == [kind |-> visits[i].kind, names |-> Names(visits[i], tab)]
<1> DEFINE n == Len(visits)
<1>1. n \in Nat /\ DOMAIN visits = 1..n
  BY LenProperties
<1>2. ASSUME NEW i \in 1..n PROVE c(i) \in Stacked
  <2>1. visits[i] \in Frames /\ visits[i].level < Len(tab)
    BY <1>1, ElementOfSeq DEF Holds
  <2>2. visits[i].kind \in Kinds
    BY <2>1 DEF Frames
  <2> QED
    BY <2>1, <2>2, NamesType DEF Stacked
<1>3. Constructs(visits, tab) = [i \in 1..n |-> c(i)]
  BY <1>1 DEF Constructs
<1>4. \A i \in 1..n : c(i).kind = visits[i].kind /\ c(i).names = Names(visits[i], tab)
  OBVIOUS
<1>5. \A i \in 1..n : c(i) = [kind |-> visits[i].kind, names |-> Names(visits[i], tab)]
  OBVIOUS
<1> HIDE DEF c, n
<1>6. [i \in 1..n |-> c(i)] \in Seq(Stacked) /\ Len([i \in 1..n |-> c(i)]) = n
  BY <1>1, <1>2
<1> QED
  BY <1>1, <1>3, <1>4, <1>5, <1>6 DEF n

\* Of a table only the contexts of the visits matter.
LEMMA ConstructsAgree ==
  ASSUME NEW visits \in Seq(Frames), NEW tab, NEW new,
         \A i \in DOMAIN visits : Names(visits[i], new) = Names(visits[i], tab)
  PROVE  Constructs(visits, new) = Constructs(visits, tab)
BY DEF Constructs

LEMMA NamesAgree ==
  ASSUME NEW f \in Frames, NEW tab, NEW new, NEW n \in Nat,
         Agree(tab, new, n), f.level < n
  PROVE  Names(f, new) = Names(f, tab)
<1>1. f.level + 1 \in 1..n
  BY DEF Frames
<1> QED
  BY <1>1 DEF Names, Agree

\* A visit more is a construct more.
LEMMA ConstructsAppend ==
  ASSUME NEW visits \in Seq(Frames), NEW f \in Frames, NEW tab \in Seq(SUBSET Var),
         Holds(visits, tab), f.level < Len(tab)
  PROVE  /\ Holds(Append(visits, f), tab)
         /\ Constructs(Append(visits, f), tab)
              = Append(Constructs(visits, tab),
                       [kind |-> f.kind, names |-> Names(f, tab)])
<1> DEFINE more == Append(visits, f)
           c == [kind |-> f.kind, names |-> Names(f, tab)]
           old == Constructs(visits, tab)
<1>1. /\ more \in Seq(Frames) /\ Len(more) = Len(visits) + 1
      /\ \A i \in 1..Len(visits) : more[i] = visits[i]
      /\ more[Len(visits) + 1] = f
  BY AppendIsSeq
<1>2. Len(visits) \in Nat /\ DOMAIN visits = 1..Len(visits) /\ DOMAIN more = 1 .. Len(visits) + 1
  BY <1>1, LenProperties
<1>3. Holds(more, tab)
  <2> HIDE DEF more
  <2> QED
    BY <1>1, <1>2 DEF Holds
<1>4. c \in Stacked
  BY NamesType DEF Stacked, Frames
<1>5. /\ Constructs(more, tab) \in Seq(Stacked)
      /\ Len(Constructs(more, tab)) = Len(visits) + 1
      /\ \A i \in 1 .. Len(visits) + 1 :
           Constructs(more, tab)[i] = [kind |-> more[i].kind, names |-> Names(more[i], tab)]
  <2> HIDE DEF more
  <2> QED
    BY <1>1, <1>2, <1>3, ConstructsAre
<1>6. /\ old \in Seq(Stacked) /\ Len(old) = Len(visits)
      /\ \A i \in 1..Len(visits) :
           old[i] = [kind |-> visits[i].kind, names |-> Names(visits[i], tab)]
  BY ConstructsAre
<1>7. /\ Append(old, c) \in Seq(Stacked) /\ Len(Append(old, c)) = Len(visits) + 1
      /\ \A i \in 1..Len(visits) : Append(old, c)[i] = old[i]
      /\ Append(old, c)[Len(visits) + 1] = c
  <2> HIDE DEF old, c
  <2> QED
    BY <1>4, <1>6, AppendIsSeq
<1>8. \A i \in 1 .. Len(visits) + 1 : Constructs(more, tab)[i] = Append(old, c)[i]
  <2> SUFFICES ASSUME NEW i \in 1 .. Len(visits) + 1
               PROVE  Constructs(more, tab)[i] = Append(old, c)[i]
    OBVIOUS
  <2>1. CASE i \in 1..Len(visits)
    BY <1>1, <1>5, <1>6, <1>7, <2>1
  <2>2. CASE i = Len(visits) + 1
    <3>1. more[i] = f
      BY <1>1, <2>2
    <3>2. Constructs(more, tab)[i] = c
      BY <1>5, <3>1
    <3>3. Append(old, c)[i] = c
      BY <1>7, <2>2
    <3> QED
      BY <3>2, <3>3
  <2>3. i \in 1..Len(visits) \/ i = Len(visits) + 1
    BY <1>2
  <2> QED
    BY <2>1, <2>2, <2>3
<1>9. Constructs(more, tab) = Append(old, c)
  <2> HIDE DEF more, old, c
  <2> QED
    BY <1>5, <1>7, <1>8, SeqEqual
<1> QED
  BY <1>3, <1>9

\* The visits up to one are the constructs up to one.
LEMMA ConstructsFirst ==
  ASSUME NEW visits \in Seq(Frames), NEW n \in 0..Len(visits), NEW tab
  PROVE  Constructs(SubSeq(visits, 1, n), tab) = SubSeq(Constructs(visits, tab), 1, n)
<1>1. Len(visits) \in Nat /\ DOMAIN visits = 1..Len(visits)
  BY LenProperties
<1>2. SubSeq(visits, 1, n) = [i \in 1..n |-> visits[i]]
  BY <1>1
<1> DEFINE c(i) == [kind |-> visits[i].kind, names |-> Names(visits[i], tab)]
<1>3. Constructs(visits, tab) = [i \in 1..Len(visits) |-> c(i)]
  BY <1>1 DEF Constructs
<1>4. Constructs(SubSeq(visits, 1, n), tab) = [i \in 1..n |-> c(i)]
  BY <1>1, <1>2 DEF Constructs
<1> HIDE DEF c
<1>5. SubSeq([i \in 1..Len(visits) |-> c(i)], 1, n) = [i \in 1..n |-> c(i)]
  BY <1>1
<1> QED
  BY <1>3, <1>4, <1>5

\* A loop that turns is a construct that turns: neither half has a context.
Turned(s, n, kind) == [s EXCEPT ![n].kind = kind]

LEMMA ConstructsTurn ==
  ASSUME NEW visits \in Seq(Frames), NEW n \in 1..Len(visits), NEW kind \in Kinds,
         NEW tab \in Seq(SUBSET Var), Holds(visits, tab),
         Pushed(kind) = Pushed(visits[n].kind)
  PROVE  /\ Turned(visits, n, kind) \in Seq(Frames)
         /\ Len(Turned(visits, n, kind)) = Len(visits)
         /\ \A i \in 1..Len(visits) : Turned(visits, n, kind)[i].level = visits[i].level
         /\ Constructs(Turned(visits, n, kind), tab) = Turned(Constructs(visits, tab), n, kind)
<1> DEFINE turned == Turned(visits, n, kind)
<1>1. Len(visits) \in Nat /\ visits[n] \in Frames
  BY LenProperties, ElementOfSeq
<1> DEFINE f == [visits[n] EXCEPT !.kind = kind]
<1>2. f \in Frames /\ f.kind = kind /\ f.level = visits[n].level
  BY <1>1 DEF Frames
<1>3. turned = [visits EXCEPT ![n] = f]
  BY DEF Turned
<1> HIDE DEF f, turned
<1>4. /\ turned \in Seq(Frames) /\ Len(turned) = Len(visits)
      /\ \A i \in 1..Len(visits) : turned[i] = IF i = n THEN f ELSE visits[i]
  BY <1>1, <1>2, <1>3, ExceptSeq
<1>5. \A i \in 1..Len(visits) : turned[i].level = visits[i].level
  BY <1>2, <1>4
<1>6. Names(f, tab) = Names(visits[n], tab)
  BY <1>2 DEF Names
<1> DEFINE old == Constructs(visits, tab)
           c == [old[n] EXCEPT !.kind = kind]
<1>7. /\ old \in Seq(Stacked) /\ Len(old) = Len(visits) /\ DOMAIN old = 1..Len(visits)
      /\ \A i \in 1..Len(visits) :
           old[i] = [kind |-> visits[i].kind, names |-> Names(visits[i], tab)]
  BY ConstructsAre
<1>8. c = [kind |-> f.kind, names |-> Names(f, tab)]
  <2>1. old[n] = [kind |-> visits[n].kind, names |-> Names(visits[n], tab)]
    BY <1>7
  <2> HIDE DEF old
  <2> QED
    BY <1>2, <1>6, <2>1
<1>9. Turned(Constructs(visits, tab), n, kind) = [old EXCEPT ![n] = c]
  BY DEF Turned
<1>10. DOMAIN turned = 1..Len(visits)
  BY <1>4, LenProperties
<1> HIDE DEF old, c
<1>11. ASSUME NEW i \in 1..Len(visits)
       PROVE  [kind |-> turned[i].kind, names |-> Names(turned[i], tab)] = [old EXCEPT ![n] = c][i]
  <2>1. CASE i = n
    BY <1>4, <1>7, <1>8, <2>1
  <2>2. CASE i # n
    BY <1>4, <1>7, <2>2
  <2> QED
    BY <2>1, <2>2
<1>12. Constructs(turned, tab) = [old EXCEPT ![n] = c]
  BY <1>7, <1>10, <1>11 DEF Constructs
<1> QED
  BY <1>4, <1>5, <1>9, <1>12 DEF turned

\* A name in the context of one visit is one in the scope of one construct.
Bound(s, n, x) == [s EXCEPT ![n].names = @ \cup {x}]

LEMMA Renamed ==
  ASSUME NEW c \in Stacked, NEW names \in SUBSET Var
  PROVE  [c EXCEPT !.names = names] = [kind |-> c.kind, names |-> names]
BY DEF Stacked

LEMMA ConstructsBind ==
  ASSUME NEW visits \in Seq(Frames), NEW n \in 1..Len(visits), NEW x,
         NEW tab \in Seq(SUBSET Var), NEW new \in Seq(SUBSET Var),
         Holds(visits, tab), Holds(visits, new),
         Names(visits[n], new) = Names(visits[n], tab) \cup {x},
         \A i \in 1..Len(visits) :
           i # n => Names(visits[i], new) = Names(visits[i], tab)
  PROVE  Constructs(visits, new) = Bound(Constructs(visits, tab), n, x)
<1> DEFINE old == Constructs(visits, tab)
           c == [old[n] EXCEPT !.names = @ \cup {x}]
<1>1. /\ old \in Seq(Stacked) /\ Len(old) = Len(visits) /\ DOMAIN old = 1..Len(visits)
      /\ \A i \in 1..Len(visits) :
           old[i] = [kind |-> visits[i].kind, names |-> Names(visits[i], tab)]
  BY ConstructsAre
<1>2. c = [kind |-> visits[n].kind, names |-> Names(visits[n], new)]
  <2>1. old[n] = [kind |-> visits[n].kind, names |-> Names(visits[n], tab)]
    BY <1>1
  <2>2. old[n].names \cup {x} = Names(visits[n], new) /\ old[n].kind = visits[n].kind
    BY <2>1
  <2>3. old[n] \in Stacked /\ Names(visits[n], new) \in SUBSET Var
    <3>1. visits[n] \in Frames /\ visits[n].level < Len(new)
      BY ElementOfSeq, LenProperties DEF Holds
    <3> QED
      BY <1>1, <3>1, ElementOfSeq, NamesType
  <2> HIDE DEF old
  <2>4. c = [old[n] EXCEPT !.names = Names(visits[n], new)]
    BY <2>2
  <2> HIDE DEF c
  <2> QED
    BY <2>2, <2>3, <2>4, Renamed
<1>3. Bound(Constructs(visits, tab), n, x) = [old EXCEPT ![n] = c]
  BY DEF Bound
<1>4. DOMAIN visits = 1..Len(visits)
  BY LenProperties
<1> HIDE DEF old, c
<1>5. ASSUME NEW i \in 1..Len(visits)
      PROVE  [kind |-> visits[i].kind, names |-> Names(visits[i], new)] = [old EXCEPT ![n] = c][i]
  BY <1>1, <1>2
<1> QED
  BY <1>1, <1>3, <1>4, <1>5 DEF Constructs

-----------------------------------------------------------------------------
(* Levels of visits that are not next to each other. *)

\* No visit runs below those around it.
LEMMA LevelsGrow ==
  ASSUME TypeOK, LevelInv, NEW i \in 0..Framed, NEW j \in i..Framed
  PROVE  LevelOf(i) <= LevelOf(j)
<1>1. Framed \in Nat /\ \A k \in 0..Framed : LevelOf(k) \in Nat
  BY Numbers
<1> DEFINE S == {k \in Nat : i + k <= Framed => LevelOf(i) <= LevelOf(i + k)}
<1>2. 0 \in S
  BY <1>1
<1>3. ASSUME NEW k \in Nat, k \in S
      PROVE  k + 1 \in S
  <2> SUFFICES ASSUME i + (k + 1) <= Framed
               PROVE  LevelOf(i) <= LevelOf(i + (k + 1))
    OBVIOUS
  <2> DEFINE m == i + (k + 1)
  <2>1. m \in 1..Framed /\ m - 1 = i + k /\ m - 1 \in 0..Framed
    BY <1>1
  <2>2. LevelOf(i) <= LevelOf(m - 1)
    BY <1>1, <1>3, <2>1
  <2> HIDE DEF m
  <2>3. LevelOf(m) = LevelOf(m - 1) + Pushed(frames[m].kind)
    BY <2>1, LevelInvUnfolded
  <2>4. Pushed(frames[m].kind) \in Nat
    BY DEF Pushed
  <2>5. LevelOf(m) \in Nat /\ LevelOf(m - 1) \in Nat /\ LevelOf(i) \in Nat
    BY <1>1, <2>1
  <2>6. LevelOf(i) <= LevelOf(m)
    BY <2>2, <2>3, <2>4, <2>5
  <2> QED
    BY <2>6 DEF m
<1>4. Nat \subseteq S
  <2> HIDE DEF S
  <2> QED
    BY <1>2, <1>3, SetInduction
<1>5. j - i \in Nat /\ i + (j - i) = j /\ j <= Framed
  BY <1>1
<1>6. j - i \in S
  <2> HIDE DEF S
  <2> QED
    BY <1>4, <1>5
<1> QED
  BY <1>5, <1>6

\* Visits that have no context run at the level of the one around them.
LEMMA LevelsFlat ==
  ASSUME TypeOK, LevelInv, NEW i \in 0..Framed,
         \A j \in 1..Framed : j > i => Pushed(frames[j].kind) = 0
  PROVE  LevelOf(Framed) = LevelOf(i)
<1>1. Framed \in Nat /\ \A k \in 0..Framed : LevelOf(k) \in Nat
  BY Numbers
<1> DEFINE S == {k \in Nat : i + k <= Framed => LevelOf(i + k) = LevelOf(i)}
<1>2. 0 \in S
  BY <1>1
<1>3. ASSUME NEW k \in Nat, k \in S
      PROVE  k + 1 \in S
  <2> SUFFICES ASSUME i + (k + 1) <= Framed
               PROVE  LevelOf(i + (k + 1)) = LevelOf(i)
    OBVIOUS
  <2> DEFINE m == i + (k + 1)
  <2>1. m \in 1..Framed /\ m - 1 = i + k /\ m > i
    BY <1>1
  <2>2. LevelOf(m - 1) = LevelOf(i)
    BY <1>1, <1>3, <2>1
  <2> HIDE DEF m
  <2>3. LevelOf(m) = LevelOf(m - 1) + 0
    BY <2>1, LevelInvUnfolded
  <2>4. LevelOf(m) = LevelOf(i)
    BY <1>1, <2>2, <2>3
  <2> QED
    BY <2>4 DEF m
<1>4. Framed - i \in S
  <2>1. Framed - i \in Nat
    BY <1>1
  <2> HIDE DEF S
  <2> QED
    BY <1>2, <1>3, <2>1, SetInduction
<1>5. i + (Framed - i) = Framed
  BY <1>1
<1> QED
  BY <1>1, <1>4, <1>5

\* A visit with a context of its own runs above all around it.
LEMMA LevelsBelow ==
  ASSUME TypeOK, LevelInv, NEW i \in 1..Framed, Pushed(frames[i].kind) = 1,
         NEW j \in 0 .. i - 1
  PROVE  LevelOf(j) < LevelOf(i)
<1>1. i - 1 \in 0..Framed /\ i - 1 \in j..Framed /\ j \in 0..Framed
  BY Numbers
<1>2. LevelOf(j) <= LevelOf(i - 1)
  BY <1>1, LevelsGrow
<1>3. LevelOf(i) = LevelOf(i - 1) + 1
  BY LevelInvUnfolded
<1>4. LevelOf(j) \in Nat /\ LevelOf(i - 1) \in Nat
  BY <1>1, Numbers
<1> QED
  BY <1>2, <1>3, <1>4

\* Each level above those outside of the visits is a visit's.
LEMMA LevelsCovered ==
  ASSUME TypeOK, LevelInv, NEW l \in Nat, base < l, l <= LevelOf(Framed)
  PROVE  \E i \in 1..Framed : Pushed(frames[i].kind) = 1 /\ LevelOf(i) = l
<1>1. Framed \in Nat /\ base = LevelOf(0) /\ \A k \in 0..Framed : LevelOf(k) \in Nat
  BY Numbers DEF LevelOf
<1> DEFINE T == {k \in 0..Framed : l <= LevelOf(k)}
<1>2. T \in SUBSET Nat /\ T # {}
  BY <1>1
<1>3. PICK i \in T : \A k \in T : i <= k
  <2> HIDE DEF T
  <2> QED
    BY <1>2, LeastElement
<1>4. i # 0 /\ i \in 1..Framed
  BY <1>1, <1>3
<1>5. i - 1 \in 0..Framed /\ i - 1 \notin T
  BY <1>1, <1>3, <1>4
<1>6. LevelOf(i - 1) < l
  BY <1>1, <1>5
<1>7. LevelOf(i) = LevelOf(i - 1) + Pushed(frames[i].kind)
  BY <1>4, LevelInvUnfolded
<1>8. LevelOf(i) \in Nat /\ LevelOf(i - 1) \in Nat /\ l <= LevelOf(i)
  BY <1>1, <1>3, <1>5
<1>9. Pushed(frames[i].kind) \in {0, 1}
  BY DEF Pushed
<1>10. Pushed(frames[i].kind) = 1 /\ LevelOf(i) = l
  BY <1>6, <1>7, <1>8, <1>9
<1> QED
  BY <1>4, <1>10

\* The table holds the contexts of all visits, and those outside of them.
LEMMA LevelsHold ==
  ASSUME TypeOK, LevelInv, mode # "terminated"
  PROVE  /\ base <= LevelOf(Framed) /\ LevelOf(Framed) <= level(symTab)
         /\ \A i \in 1..Framed : /\ frames[i] \in Frames
                                 /\ frames[i].level = LevelOf(i)
                                 /\ LevelOf(i) <= LevelOf(Framed)
                                 /\ base <= LevelOf(i)
         /\ Holds(frames, symTab)
         /\ base + 1 <= Len(symTab) /\ Len(symTab) = level(symTab) + 1
<1>1. /\ Framed \in Nat /\ DOMAIN frames = 1..Framed /\ level(symTab) \in Nat
      /\ \A i \in 0..Framed : LevelOf(i) \in Nat
  BY Numbers
<1>2. base = LevelOf(0) /\ \A i \in 1..Framed : frames[i].level = LevelOf(i)
  BY DEF LevelOf
<1>3. \A i \in 1..Framed : LevelOf(i) <= LevelOf(Framed) /\ base <= LevelOf(i)
  BY <1>1, <1>2, LevelsGrow
<1>4. base <= LevelOf(Framed)
  BY <1>1, <1>2, LevelsGrow
<1>5. LevelOf(Framed) <= level(symTab)
  <2>1. mode \in Jumps \cup {"idle", "running"}
    BY DEF TypeOK, Modes
  <2> QED
    BY <1>1, <2>1, LevelInvUnfolded
<1>6. Len(symTab) = level(symTab) + 1
  BY LenProperties DEF TypeOK, level
<1>7. \A i \in 1..Framed : frames[i] \in Frames
  BY ElementOfSeq DEF TypeOK, Framed
<1>8. \A i \in 1..Framed : frames[i].level < Len(symTab)
  BY <1>1, <1>2, <1>3, <1>5, <1>6
<1>9. base + 1 <= Len(symTab)
  BY <1>1, <1>2, <1>4, <1>5, <1>6
<1> QED
  BY <1>1, <1>2, <1>3, <1>4, <1>5, <1>6, <1>7, <1>8, <1>9 DEF Holds

-----------------------------------------------------------------------------
(* What each kind of step is to the stack of scopes. *)

Inv == TypeOK /\ LevelInv

\* Without an exception under way the visits are the constructs.
LEMMA Calm == mode \notin Jumps => Live = frames /\ State = mode
BY DEF Live, State

LEMMA CalmAfter == mode' \notin Jumps => Live' = frames' /\ State' = mode'
BY DEF Live, State

\* The scopes outside of the constructs.
LEMMA LeftStays ==
  ASSUME TypeOK, TypeOK', base' = base, Agree(symTab, symTab', base + 1)
  PROVE  Left' = Left
<1>1. base + 1 \in Nat /\ symTab \in Seq(SUBSET Var) /\ symTab' \in Seq(SUBSET Var)
  BY DEF TypeOK
<1>2. SubSeq(symTab', 1, base + 1) = SubSeq(symTab, 1, base + 1)
  BY <1>1, SameFirst
<1> QED
  BY <1>2 DEF Left

\* Contexts that are pushed or popped above those of visits are nothing to them.
LEMMA StackStays ==
  ASSUME NEW visits \in Seq(Frames), NEW tab, NEW new, NEW n \in Nat,
         Agree(tab, new, n), \A i \in 1..Len(visits) : visits[i].level < n
  PROVE  Constructs(visits, new) = Constructs(visits, tab)
<1>1. DOMAIN visits = 1..Len(visits)
  BY LenProperties
<1>2. ASSUME NEW i \in DOMAIN visits
      PROVE  Names(visits[i], new) = Names(visits[i], tab)
  <2>1. visits[i] \in Frames /\ visits[i].level < n
    BY <1>1, ElementOfSeq
  <2> QED
    BY <2>1, NamesAgree
<1> QED
  BY <1>2, ConstructsAgree

\* What is pushed changes no scope below it.
LEMMA BelowStays ==
  ASSUME Inv, TypeOK', mode # "terminated", base' = base,
         Agree(symTab, symTab', Len(symTab))
  PROVE  /\ Left' = Left /\ Holds(frames, symTab')
         /\ Constructs(frames, symTab') = Constructs(frames, symTab)
<1>1. /\ frames \in Seq(Frames) /\ base \in Nat
      /\ Len(symTab) \in Nat /\ Len(symTab') \in Nat
      /\ Len(symTab) <= Len(symTab')
  BY LenProperties DEF Inv, TypeOK, Agree
<1>2. Holds(frames, symTab) /\ base + 1 <= Len(symTab)
  BY LevelsHold DEF Inv
<1>3. DOMAIN frames = 1..Len(frames)
  BY <1>1, LenProperties
<1>4. Left' = Left
  <2>1. Agree(symTab, symTab', base + 1)
    BY <1>1, <1>2, AgreeLess
  <2> QED
    BY <2>1, LeftStays DEF Inv
<1>5. Constructs(frames, symTab') = Constructs(frames, symTab)
  <2>1. \A i \in 1..Len(frames) : frames[i].level < Len(symTab)
    BY <1>2, <1>3 DEF Holds
  <2> QED
    BY <1>1, <2>1, StackStays
<1>6. Holds(frames, symTab')
  <2> SUFFICES ASSUME NEW i \in DOMAIN frames PROVE frames[i].level < Len(symTab')
    BY DEF Holds
  <2>1. frames[i] \in Frames /\ frames[i].level < Len(symTab)
    BY <1>1, <1>2, <1>3, ElementOfSeq DEF Holds
  <2>2. frames[i].level \in Nat
    BY <2>1 DEF Frames
  <2> QED
    BY <1>1, <2>1, <2>2
<1> QED
  BY <1>4, <1>5, <1>6

\* A visit that begins is a construct that begins.
LEMMA EnterStep ==
  ASSUME Inv, TypeOK', Running, mode' = "running", base' = base,
         NEW f \in Frames, frames' = Append(frames, f),
         Agree(symTab, symTab', Len(symTab)), f.level < Len(symTab'),
         f.kind # "call"
  PROVE  Scopes!Enter
<1>1. /\ symTab' \in Seq(SUBSET Var) /\ frames \in Seq(Frames)
  BY DEF Inv, TypeOK
<1>2. /\ Live = frames /\ State = "running" /\ Live' = frames' /\ State' = "running"
  BY Calm, CalmAfter DEF Running, Jumps
<1>3. Left' = Left /\ Holds(frames, symTab') /\ Constructs(frames, symTab') = Stack
  BY <1>2, BelowStays DEF Running, Stack
<1> DEFINE names == Names(f, symTab')
<1>4. Stack' = Append(Stack, [kind |-> f.kind, names |-> names])
  <2>1. Stack' = Constructs(Append(frames, f), symTab')
    BY <1>2 DEF Stack
  <2> QED
    BY <1>1, <1>3, <2>1, ConstructsAppend
<1>5. names \in SUBSET Var /\ f.kind \in Kinds
  BY <1>1, NamesType DEF Frames
<1>6. Append(Stack, [kind |-> f.kind, names |-> names]) \o <<>>
         = Append(Stack, [kind |-> f.kind, names |-> names])
  <2>1. Stack \in Seq(Stacked)
    BY <1>1, <1>3, ConstructsAre
  <2> DEFINE c == [kind |-> f.kind, names |-> names]
  <2>2. c \in Stacked
    BY <1>5 DEF Stacked
  <2> HIDE DEF c
  <2>3. Append(Stack, c) \in Seq(Stacked)
    BY <2>1, <2>2, AppendIsSeq
  <2>4. Append(Stack, c) \o <<>> = Append(Stack, c)
    BY <2>3, ConcatEmptySeq
  <2> QED
    BY <2>4 DEF c
<1> HIDE DEF names
<1> QED
  BY <1>2, <1>3, <1>4, <1>5, <1>6 DEF Scopes!Enter, Scopes!Kinds, Kinds, Scopes!Construct

\* A call's two contexts.
LEMMA CalledTable ==
  ASSUME NEW X, NEW tab \in Seq(SUBSET X), tab # <<>>, NEW params \in SUBSET X
  PROVE  /\ Len(Append(tab, params)) = Len(tab) + 1
         /\ Len(push(Append(tab, params))) = Len(tab) + 2
         /\ Agree(tab, push(Append(tab, params)), Len(tab))
         /\ push(Append(tab, params))[Len(tab) + 1] = params
         /\ push(Append(tab, params))[Len(tab) + 2] = {}
<1> DEFINE called == Append(tab, params)
           new == push(called)
<1>1. Len(tab) \in Nat
  BY LenProperties
<1>2. /\ called \in Seq(SUBSET X) /\ called # <<>> /\ Len(called) = Len(tab) + 1
      /\ \A i \in 1..Len(tab) : called[i] = tab[i]
      /\ called[Len(tab) + 1] = params
  BY AppendIsSeq
<1> HIDE DEF called
<1>3. Len(new) = Len(called) + 1
  BY <1>2, AppendIsSeq DEF push
<1>4. Agree(called, new, Len(called)) /\ new[Len(called) + 1] = {}
  BY <1>2, PushAgrees
<1> HIDE DEF new
<1>5. Len(tab) + 1 \in 1..Len(called)
  BY <1>1, <1>2
<1>6. Agree(tab, called, Len(tab))
  BY <1>1, <1>2 DEF Agree
<1>7. Agree(tab, new, Len(tab))
  BY <1>1, <1>2, <1>3, <1>4, <1>6, AgreeAgain
<1>8. new[Len(tab) + 1] = params
  BY <1>2, <1>4, <1>5 DEF Agree
<1> QED
  BY <1>1, <1>2, <1>3, <1>4, <1>7, <1>8 DEF called, new

\* A call begins with its function's block.
LEMMA CallStep ==
  ASSUME Inv, TypeOK', visitFunctionCall
  PROVE  Scopes!Enter
<1>1. PICK params \in SUBSET Var :
        /\ symTab' = push(Append(symTab, params))
        /\ frames' = frames \o <<Frame("call", Append(symTab, params), funcTab),
                                 Frame("block", symTab', funcTab')>>
  BY DEF visitFunctionCall
<1> DEFINE called == Append(symTab, params)
           f == Frame("call", called, funcTab)
           g == Frame("block", symTab', funcTab')
           call == [kind |-> "call", names |-> params]
           block == [kind |-> "block", names |-> {}]
<1> PICK n \in Nat : n = Len(symTab)
  BY LenProperties DEF Inv, TypeOK
<1>2. Running /\ mode' = "running" /\ base' = base
  BY DEF visitFunctionCall, AtExpression, Running
<1>3. /\ Live = frames /\ State = "running" /\ Live' = frames' /\ State' = "running"
  BY <1>2, Calm, CalmAfter DEF Running, Jumps
<1>4. /\ symTab \in Seq(SUBSET Var) /\ symTab # <<>>
      /\ symTab' \in Seq(SUBSET Var) /\ frames \in Seq(Frames)
      /\ level(funcTab) \in Nat /\ level(funcTab') \in Nat
  BY TablesOfState, Tables DEF Inv, TypeOK
<1>5. /\ Len(called) = n + 1 /\ Len(symTab') = n + 2 /\ Agree(symTab, symTab', n)
      /\ symTab'[n + 1] = params /\ symTab'[n + 2] = {}
  <2> DEFINE new == push(Append(symTab, params))
  <2>1. /\ Len(Append(symTab, params)) = Len(symTab) + 1
        /\ Len(new) = Len(symTab) + 2
        /\ Agree(symTab, new, Len(symTab))
        /\ new[Len(symTab) + 1] = params /\ new[Len(symTab) + 2] = {}
    BY <1>4, CalledTable
  <2>2. symTab' = new
    BY <1>1
  <2> HIDE DEF new
  <2> QED
    BY <2>1, <2>2
<1>6. /\ f \in Frames /\ f.kind = "call" /\ f.level = n
      /\ g \in Frames /\ g.kind = "block" /\ g.level = n + 1
  <2>1. level(called) = n /\ level(symTab') = n + 1
    BY <1>5 DEF level
  <2>2. level(called) \in Nat /\ level(symTab') \in Nat
    BY <2>1
  <2>3. "call" \in Kinds /\ "block" \in Kinds
    BY DEF Kinds
  <2>4. f \in Frames /\ f.kind = "call" /\ f.level = level(called)
    BY <1>4, <2>2, <2>3, FrameType
  <2>5. g \in Frames /\ g.kind = "block" /\ g.level = level(symTab')
    BY <1>4, <2>2, <2>3, FrameType
  <2> QED
    BY <2>1, <2>4, <2>5
<1>7. frames' = Append(Append(frames, f), g)
  <2>1. frames' = frames \o <<f, g>>
    BY <1>1
  <2> HIDE DEF f, g
  <2> QED
    BY <1>4, <1>6, <2>1
<1> HIDE DEF f, g, called
<1>8. Left' = Left /\ Holds(frames, symTab') /\ Constructs(frames, symTab') = Stack
  BY <1>2, <1>3, <1>5, BelowStays DEF Running, Stack
<1>9. /\ [kind |-> f.kind, names |-> Names(f, symTab')] = call
      /\ [kind |-> g.kind, names |-> Names(g, symTab')] = block
      /\ f.level < Len(symTab') /\ g.level < Len(symTab')
  <2>1. Names(f, symTab') = params /\ Names(g, symTab') = {}
    <3>1. f.level + 1 = n + 1 /\ g.level + 1 = n + 2
      BY <1>6
    <3> QED
      BY <1>5, <1>6, <3>1 DEF Names, Pushed
  <2>2. f.level < Len(symTab') /\ g.level < Len(symTab')
    BY <1>5, <1>6
  <2> QED
    BY <1>6, <2>1, <2>2
<1>10. call \in Stacked /\ block \in Stacked
  BY DEF Stacked, Kinds
<1> HIDE DEF call, block
<1>11. /\ Holds(Append(frames, f), symTab')
       /\ Constructs(Append(frames, f), symTab') = Append(Stack, call)
  BY <1>4, <1>6, <1>8, <1>9, ConstructsAppend
<1>12. Constructs(Append(Append(frames, f), g), symTab') = Append(Append(Stack, call), block)
  <2>1. Append(frames, f) \in Seq(Frames)
    BY <1>4, <1>6, AppendIsSeq
  <2> QED
    BY <1>4, <1>6, <1>9, <1>11, <2>1, ConstructsAppend
<1>13. Append(Append(Stack, call), block) = Append(Stack, call) \o <<block>>
  <2>1. Stack \in Seq(Stacked)
    BY <1>4, <1>8, ConstructsAre
  <2>2. Append(Stack, call) \in Seq(Stacked)
    BY <1>10, <2>1, AppendIsSeq
  <2> QED
    BY <1>10, <2>2, AppendIsConcat
<1>14. Stack' = Append(Stack, call) \o <<block>>
  BY <1>3, <1>7, <1>12, <1>13 DEF Stack
<1> QED
  BY <1>3, <1>8, <1>14 DEF Scopes!Enter, Scopes!Kinds, Scopes!Construct, call, block

\* When a visit ends, the contexts of those around it stay.
LEMMA ClosingAgrees ==
  ASSUME Inv, TypeOK', Closes
  PROVE  /\ Framed \in Nat \ {0} /\ LevelOf(Framed - 1) \in Nat
         /\ Agree(symTab, symTab', LevelOf(Framed - 1) + 1)
<1>1. frames # <<>> /\ symTab' = IF Pushed(Top.kind) = 1 THEN pop(symTab) ELSE symTab
  BY DEF Closes
<1>2. /\ Framed \in Nat \ {0} /\ Top = frames[Framed]
      /\ Top.level = LevelOf(Framed)
  BY <1>1, TopOfFrames DEF Inv, LevelOf
<1>3. level(symTab) = LevelOf(Framed)
  BY <1>2, LevelInvUnfolded DEF Inv, Closes, Caught, Running
<1>4. LevelOf(Framed) = LevelOf(Framed - 1) + Pushed(Top.kind)
  BY <1>2, LevelInvUnfolded DEF Inv
<1>5. LevelOf(Framed - 1) \in Nat /\ level(symTab) \in Nat
  BY <1>2, Numbers DEF Inv
<1>6. symTab \in Seq(SUBSET Var) /\ symTab # <<>> /\ Len(symTab) = level(symTab) + 1
  BY LenProperties DEF Inv, TypeOK, level
<1>7. CASE Pushed(Top.kind) = 1
  <2> DEFINE n == LevelOf(Framed - 1) + 1
  <2>1. n \in Nat /\ n <= level(symTab)
    BY <1>3, <1>4, <1>5, <1>7
  <2> HIDE DEF n
  <2>2. Agree(symTab, pop(symTab), n)
    BY <1>6, <2>1, PopAgrees
  <2> QED
    BY <1>1, <1>2, <1>5, <1>7, <2>2 DEF n
<1>8. CASE Pushed(Top.kind) = 0
  BY <1>1, <1>2, <1>3, <1>4, <1>5, <1>6, <1>8 DEF Agree
<1> QED
  BY <1>7, <1>8 DEF Pushed

\* The visits that are left when the innermost has ended.
LEMMA StackAfterFront ==
  ASSUME Inv, TypeOK', Closes
  PROVE  /\ Left' = Left
         /\ Constructs(frames', symTab') = SubSeq(Constructs(frames, symTab), 1, Framed - 1)
         /\ frames' = SubSeq(frames, 1, Framed - 1)
         /\ Constructs(frames', symTab') = Constructs(frames', symTab)
<1> DEFINE n == LevelOf(Framed - 1) + 1
<1>1. /\ Framed \in Nat \ {0} /\ n \in Nat /\ Agree(symTab, symTab', n)
  BY ClosingAgrees
<1>2. frames' = SubSeq(frames, 1, Framed - 1) /\ base' = base /\ mode # "terminated"
  BY DEF Closes, Front, Framed, Running, Caught, Jumps
<1>3. frames \in Seq(Frames) /\ Framed - 1 \in 0..Len(frames) /\ base \in Nat
  BY <1>1 DEF Inv, TypeOK, Framed
<1>4. frames' \in Seq(Frames) /\ Len(frames') = Framed - 1
  BY <1>1, <1>2, <1>3
<1>5. ASSUME NEW i \in 1 .. Framed - 1
      PROVE  frames'[i].level < n
  <2>1. frames'[i] = frames[i]
    BY <1>1, <1>2, <1>3
  <2>2. frames[i].level = LevelOf(i)
    BY DEF LevelOf
  <2>3. LevelOf(i) <= LevelOf(Framed - 1)
    BY <1>1, LevelsGrow DEF Inv
  <2>4. LevelOf(i) \in Nat /\ LevelOf(Framed - 1) \in Nat
    BY <1>1, Numbers DEF Inv
  <2> QED
    BY <2>1, <2>2, <2>3, <2>4
<1>6. Left' = Left
  <2>1. base = LevelOf(0) /\ LevelOf(0) <= LevelOf(Framed - 1)
    BY <1>1, LevelsGrow DEF Inv, LevelOf
  <2>2. base + 1 \in 0..n
    BY SMTT(30), <1>1, <1>3, <2>1, Numbers DEF Inv
  <2>3. Len(symTab) \in Nat /\ Len(symTab') \in Nat
    BY LenProperties DEF Inv, TypeOK
  <2>4. Agree(symTab, symTab', base + 1)
    <3> HIDE DEF n
    <3> QED
      BY <1>1, <2>2, <2>3, AgreeLess
  <2> QED
    BY <1>2, <2>4, LeftStays DEF Inv
<1>7. Constructs(frames', symTab') = Constructs(frames', symTab)
  <2> HIDE DEF n
  <2> QED
    BY <1>1, <1>4, <1>5, StackStays
<1>8. Constructs(frames', symTab) = SubSeq(Constructs(frames, symTab), 1, Framed - 1)
  BY <1>2, <1>3, ConstructsFirst
<1> QED
  BY <1>2, <1>6, <1>7, <1>8

\* A visit that ends is a construct that ends.
LEMMA LeaveStep ==
  ASSUME Inv, TypeOK', Closes, Running
  PROVE  Scopes!Leave
<1>1. /\ Live = frames /\ State = "running" /\ Live' = frames' /\ State' = "running"
  BY Calm, CalmAfter DEF Running, Closes, Jumps
<1>2. Framed \in Nat \ {0} /\ Len(Stack) = Framed /\ Stack \in Seq(Stacked)
  <2>1. frames \in Seq(Frames) /\ symTab \in Seq(SUBSET Var) /\ Holds(frames, symTab)
    BY LevelsHold DEF Inv, TypeOK, Running
  <2> QED
    BY <1>1, <2>1, ConstructsAre, ClosingAgrees DEF Stack, Framed
<1>3. Stack' = SubSeq(Stack, 1, Len(Stack) - 1) /\ Left' = Left
  BY <1>1, <1>2, StackAfterFront DEF Stack
<1>4. Stack # <<>>
  BY <1>2
<1> QED
  BY <1>1, <1>3, <1>4 DEF Scopes!Leave

\* A loop's turn is one of its construct.
LEMMA TurnStep ==
  ASSUME Inv, Running, mode' = "running", frames # <<>>, NEW kind \in Kinds,
         Become(kind), UNCHANGED <<symTab, base>>,
         \/ Top.kind = "cond" /\ kind = "while"
         \/ Top.kind = "while" /\ kind = "cond"
  PROVE  Scopes!Turn
<1>1. /\ Live = frames /\ State = "running" /\ Live' = frames' /\ State' = "running"
  BY Calm, CalmAfter DEF Running, Jumps
<1>2. /\ frames \in Seq(Frames) /\ symTab \in Seq(SUBSET Var) /\ Holds(frames, symTab)
      /\ Framed \in Nat \ {0} /\ Top = frames[Framed] /\ Framed \in 1..Len(frames)
  BY LevelsHold, TopOfFrames DEF Inv, TypeOK, Running, Framed
<1>3. frames' = Turned(frames, Framed, kind) /\ Pushed(kind) = Pushed(frames[Framed].kind)
  BY <1>2 DEF Become, Turned, Pushed, Framed
<1>4. /\ Len(Stack) = Framed /\ Stack # <<>> /\ Stack[Framed].kind = Top.kind
  BY <1>1, <1>2, ConstructsAre DEF Stack, Framed
<1>5. Stack' = Turned(Stack, Framed, kind)
  BY <1>1, <1>2, <1>3, ConstructsTurn DEF Stack
<1>6. Left' = Left
  BY DEF Left
<1> QED
  BY <1>1, <1>4, <1>5, <1>6 DEF Scopes!Turn, Scopes!Top, Turned

\* A variable that is new goes to the scope of the innermost construct that has
\* one, and without any to the last of those outside.
LEMMA ScopedKinds ==
  ASSUME NEW kind \in Kinds
  PROVE  kind \in Scopes!Scoped <=> Pushed(kind) = 1
BY DEF Pushed, Kinds, Scopes!Scoped

LEMMA StackOfFrames ==
  ASSUME Inv, Running
  PROVE  /\ Live = frames /\ State = "running"
         /\ Stack \in Seq(Stacked) /\ Len(Stack) = Framed /\ DOMAIN Stack = 1..Framed
         /\ \A i \in 1..Framed : /\ Stack[i].kind = frames[i].kind
                                 /\ Stack[i].names = Names(frames[i], symTab)
                                 /\ frames[i].kind \in Kinds
         /\ {i \in DOMAIN Stack : Stack[i].kind \in Scopes!Scoped}
              = {i \in 1..Framed : Pushed(frames[i].kind) = 1}
<1>1. Live = frames /\ State = "running"
  BY Calm DEF Running, Jumps
<1>2. /\ frames \in Seq(Frames) /\ symTab \in Seq(SUBSET Var) /\ Holds(frames, symTab)
      /\ \A i \in 1..Framed : frames[i] \in Frames
  BY LevelsHold DEF Inv, TypeOK, Running
<1>3. \A i \in 1..Framed : frames[i].kind \in Kinds
  BY <1>2 DEF Frames
<1>4. /\ Stack \in Seq(Stacked) /\ Len(Stack) = Framed /\ DOMAIN Stack = 1..Framed
      /\ \A i \in 1..Framed : /\ Stack[i].kind = frames[i].kind
                              /\ Stack[i].names = Names(frames[i], symTab)
  BY <1>1, <1>2, ConstructsAre DEF Stack, Framed
<1> QED
  BY <1>1, <1>3, <1>4, ScopedKinds

LEMMA BindStep ==
  ASSUME Inv, TypeOK', visitAssignExpr
  PROVE  (\E x \in Var : Scopes!Bind(x)) \/ UNCHANGED <<Left, Stack, State>>
<1>1. /\ Running /\ mode' = "running" /\ mode' = mode /\ UNCHANGED <<frames, base>>
  BY DEF visitAssignExpr, AtExpression, Running
<1>2. PICK x \in Var : symTab' = IF found(symTab, x) THEN symTab ELSE insert(symTab, x)
  BY DEF visitAssignExpr
<1>3. CASE found(symTab, x)
  <2>1. symTab' = symTab
    BY <1>2, <1>3
  <2>2. UNCHANGED <<Live, State>>
    BY <1>1, Calm, CalmAfter DEF Running, Jumps
  <2> QED
    BY <1>1, <2>1, <2>2 DEF Left, Stack
<1>4. CASE ~found(symTab, x)
  <2>1. symTab' = insert(symTab, x)
    BY <1>2, <1>4
  <2>2. /\ symTab \in Seq(SUBSET Var) /\ symTab # <<>> /\ symTab' \in Seq(SUBSET Var)
        /\ frames \in Seq(Frames) /\ base \in Nat /\ Framed \in Nat
        /\ DOMAIN frames = 1..Framed
        /\ Len(symTab) = level(symTab) + 1 /\ level(symTab) \in Nat
        /\ \A i \in 0..Framed : LevelOf(i) \in Nat
    BY <1>1, Numbers, LevelsHold DEF Inv, TypeOK, Running
  <2>3. level(symTab) = LevelOf(Framed)
    BY <1>1, LevelInvUnfolded DEF Inv, Running
  <2>4. \A i \in 1..Framed : /\ frames[i].level = LevelOf(i) /\ frames[i] \in Frames
                            /\ LevelOf(i) <= LevelOf(Framed)
    BY <1>1, LevelsHold DEF Inv, Running
  <2> DEFINE scopes == {i \in 1..Framed : Pushed(frames[i].kind) = 1}
  <2>5. /\ Live' = frames /\ State' = "running" /\ Stack' = Constructs(frames, symTab')
    BY <1>1, CalmAfter DEF Jumps, Stack
  <2>6. \A k \in 1..Len(symTab) : x \notin symTab[k]
    BY <1>4, <2>2, LenProperties DEF found
  <2>7. \A i \in DOMAIN Left : x \notin Left[i]
    BY <2>2, <2>6, LevelsHold, <1>1 DEF Left, Inv, Running
  <2>8. \A i \in 1..Framed : x \notin Stack[i].names
    <3> SUFFICES ASSUME NEW i \in 1..Framed PROVE x \notin Names(frames[i], symTab)
      BY <1>1, StackOfFrames
    <3>1. frames[i].level + 1 \in 1..Len(symTab)
      BY <2>2, <2>3, <2>4
    <3> QED
      BY <2>6, <3>1 DEF Names
  <2>9. /\ Agree(symTab, symTab', level(symTab)) /\ Len(symTab') = Len(symTab)
        /\ symTab'[Len(symTab)] = symTab[Len(symTab)] \cup {x}
    <3>1. /\ Agree(symTab, insert(symTab, x), level(symTab))
          /\ Len(insert(symTab, x)) = Len(symTab)
          /\ insert(symTab, x)[Len(symTab)] = symTab[Len(symTab)] \cup {x}
      BY <2>2, InsertAgrees
    <3> QED
      BY <2>1, <3>1
  <2>10. CASE scopes = {}
    <3>1. \A i \in 1..Framed : Pushed(frames[i].kind) = 0
      BY <2>10 DEF Pushed
    <3>2. LevelOf(Framed) = base
      BY <2>2, <3>1, LevelsFlat DEF Inv, LevelOf
    <3>3. Len(symTab) = base + 1 /\ Len(symTab') = base + 1
      BY <2>2, <2>3, <2>9, <3>2
    <3>4. Left = symTab /\ Left' = symTab'
      BY <1>1, <2>2, <3>3 DEF Left
    <3>5. Left' = [Left EXCEPT ![Len(Left)] = @ \cup {x}]
      BY <2>1, <3>4 DEF insert
    <3>6. Stack' = Stack
      <4>1. \A i \in DOMAIN frames : Names(frames[i], symTab') = Names(frames[i], symTab)
        BY <2>2, <3>1 DEF Names
      <4>2. Constructs(frames, symTab') = Constructs(frames, symTab)
        BY <2>2, <4>1, ConstructsAgree
      <4> QED
        BY <1>1, <2>5, <4>2, StackOfFrames DEF Stack
    <3> QED
      BY <1>1, <2>5, <2>7, <2>8, <2>10, <3>5, <3>6, StackOfFrames DEF Scopes!Bind
  <2>11. CASE scopes # {}
    <3>1. PICK i \in scopes : \A j \in scopes : j <= i
      <4>1. scopes \in SUBSET (0..Framed)
        BY <2>2
      <4> HIDE DEF scopes
      <4> QED
        BY <2>2, <2>11, <4>1, GreatestElement
    <3>2. LevelOf(i) = level(symTab) /\ frames[i].level = level(symTab)
      <4>1. \A j \in 1..Framed : j > i => Pushed(frames[j].kind) = 0
        BY <3>1 DEF Pushed
      <4> QED
        BY <2>2, <2>3, <2>4, <3>1, <4>1, LevelsFlat DEF Inv
    <3>3. Names(frames[i], symTab') = Names(frames[i], symTab) \cup {x}
      BY <2>2, <2>9, <3>1, <3>2 DEF Names
    <3>4. ASSUME NEW j \in 1..Framed, j # i
          PROVE  Names(frames[j], symTab') = Names(frames[j], symTab)
      <4>1. CASE j \in scopes
        <5>1. j \in 0 .. i - 1 /\ i \in 1..Framed
          BY <2>2, <3>1, <3>4, <4>1
        <5>2. LevelOf(j) < LevelOf(i)
          BY <3>1, <5>1, LevelsBelow DEF Inv
        <5>3. frames[j] \in Frames /\ frames[j].level < level(symTab)
          BY <2>4, <3>2, <5>2
        <5> QED
          BY <2>2, <2>9, <5>3, NamesAgree
      <4>2. CASE j \notin scopes
        BY <4>2 DEF Names
      <4> QED
        BY <4>1, <4>2
    <3>5. Constructs(frames, symTab') = Bound(Constructs(frames, symTab), i, x)
      <4>1. Holds(frames, symTab) /\ Holds(frames, symTab')
        <5>1. Holds(frames, symTab) /\ Len(symTab') = Len(symTab)
          BY <1>1, <2>9, LevelsHold DEF Inv, Running
        <5> QED
          BY <5>1 DEF Holds
      <4>2. i \in 1..Len(frames)
        BY <3>1 DEF Framed
      <4> QED
        BY <2>2, <3>3, <3>4, <4>1, <4>2, ConstructsBind DEF Framed
    <3>6. Stack' = [Stack EXCEPT ![i].names = @ \cup {x}]
      BY <1>1, <2>5, <3>5, StackOfFrames DEF Stack, Bound
    <3>7. Left' = Left
      <4>1. base + 1 <= level(symTab)
        <5>1. LevelOf(0) < LevelOf(i)
          BY <2>2, <3>1, LevelsBelow DEF Inv
        <5> QED
          BY <2>2, <3>2, <5>1 DEF LevelOf
      <4>2. base + 1 \in 0..level(symTab) /\ Len(symTab') \in Nat /\ Len(symTab) \in Nat
        BY <2>2, <4>1, LenProperties
      <4>3. Agree(symTab, symTab', base + 1)
        BY <2>2, <2>9, <4>2, AgreeLess
      <4> QED
        BY <1>1, <4>3, LeftStays DEF Inv
    <3>8. scopes = {k \in DOMAIN Stack : Stack[k].kind \in Scopes!Scoped}
      BY <1>1, StackOfFrames
    <3>9. DOMAIN Stack = 1..Framed
      BY <1>1, StackOfFrames
    <3> HIDE DEF scopes
    <3> QED
      BY <1>1, <2>5, <2>7, <2>8, <3>1, <3>6, <3>7, <3>8, <3>9, StackOfFrames DEF Scopes!Bind
  <2> QED
    BY <2>10, <2>11
<1> QED
  BY <1>3, <1>4

-----------------------------------------------------------------------------
(* Jumps.  A jump is made when it is thrown; what its handler does then is     *)
(* no step of the stack of scopes.                                            *)

Resumed(kind) == IF kind = "while" THEN "cond" ELSE kind

LEMMA InnermostCatcher ==
  ASSUME NEW visits \in Seq(Frames), NEW jump, Catchers(visits, jump) # {}
  PROVE  \E i \in Catchers(visits, jump) : \A j \in Catchers(visits, jump) : j <= i
<1> DEFINE T == Catchers(visits, jump)
<1>1. Len(visits) \in Nat /\ T \in SUBSET (0..Len(visits)) /\ T # {}
  BY LenProperties DEF Catchers
<1> HIDE DEF T
<1>2. \E i \in T : \A j \in T : j <= i
  BY <1>1, GreatestElement
<1> QED
  BY <1>2 DEF T

LEMMA RemainingAt ==
  ASSUME NEW visits \in Seq(Frames), NEW jump, NEW i \in Catchers(visits, jump),
         \A j \in Catchers(visits, jump) : j <= i
  PROVE  /\ i \in 1..Len(visits) /\ Remaining(visits, jump) = Cut(visits, i, jump)
         /\ jump # "continue" => Remaining(visits, jump) = SubSeq(visits, 1, i - 1)
         /\ jump = "continue" =>
              Remaining(visits, jump) = Turned(SubSeq(visits, 1, i), i,
                                               Resumed(SubSeq(visits, 1, i)[i].kind))
<1> DEFINE T == Catchers(visits, jump)
<1>1. T \subseteq 1..Len(visits) /\ Len(visits) \in Nat
  BY LenProperties DEF Catchers
<1>2. (CHOOSE k \in T : \A j \in T : j <= k) = i
  <2>1. \A k \in T : (\A j \in T : j <= k) => k = i
    BY <1>1
  <2> HIDE DEF T
  <2>2. \E k \in T : \A j \in T : j <= k
    BY DEF T
  <2> QED
    BY <2>1, <2>2
<1>3. Remaining(visits, jump) = Cut(visits, i, jump)
  <2>1. T # {}
    OBVIOUS
  <2>2. Remaining(visits, jump)
          = IF T = {} THEN <<>> ELSE Cut(visits, CHOOSE k \in T : \A j \in T : j <= k, jump)
    BY DEF Remaining
  <2> HIDE DEF T
  <2> QED
    BY <1>2, <2>1, <2>2
<1>4. CASE jump # "continue"
  BY <1>1, <1>3, <1>4 DEF Cut
<1>5. CASE jump = "continue"
  <2> DEFINE s == SubSeq(visits, 1, i)
  <2>1. Cut(visits, i, jump) = [s EXCEPT ![i].kind = IF @ = "while" THEN "cond" ELSE @]
    BY <1>5 DEF Cut
  <2>2. [s EXCEPT ![i].kind = IF @ = "while" THEN "cond" ELSE @] = Turned(s, i, Resumed(s[i].kind))
    BY DEF Turned, Resumed
  <2> QED
    BY <1>1, <1>3, <1>5, <2>1, <2>2
<1> QED
  BY <1>1, <1>3, <1>4, <1>5

\* As many constructs remain, in every context that has those of the visits.
LEMMA ResumedFirst ==
  ASSUME NEW visits \in Seq(Frames), NEW i \in 1..Len(visits),
         NEW tab \in Seq(SUBSET Var), Holds(visits, tab)
  PROVE  LET first == SubSeq(visits, 1, i)
             turned == Turned(first, i, Resumed(first[i].kind))
         IN  /\ turned \in Seq(Frames) /\ Len(turned) = i
             /\ \A k \in 1..i : turned[k].level = visits[k].level
             /\ first[i] = visits[i]
             /\ Constructs(turned, tab)
                  = Turned(SubSeq(Constructs(visits, tab), 1, i), i, Resumed(visits[i].kind))
<1> DEFINE first == SubSeq(visits, 1, i)
           kind == Resumed(visits[i].kind)
<1>1. /\ Len(visits) \in Nat /\ DOMAIN visits = 1..Len(visits)
      /\ i \in Nat /\ i \in 0..Len(visits) /\ i \in 1..i
  BY LenProperties
<1>2. /\ first \in Seq(Frames) /\ Len(first) = i
      /\ \A k \in 1..i : first[k] = visits[k]
  BY <1>1
<1>3. Holds(first, tab)
  <2> HIDE DEF first
  <2>1. DOMAIN first = 1..i
    BY <1>2, LenProperties
  <2> QED
    BY <1>1, <1>2, <2>1 DEF Holds
<1>4. kind \in Kinds /\ Pushed(kind) = Pushed(visits[i].kind)
  <2>1. visits[i] \in Frames
    BY ElementOfSeq
  <2>2. visits[i].kind \in Kinds
    BY <2>1 DEF Frames
  <2> QED
    BY <2>2 DEF Resumed, Pushed, Kinds
<1>5. Constructs(first, tab) = SubSeq(Constructs(visits, tab), 1, i)
  BY <1>1, ConstructsFirst
<1>6. first[i] = visits[i] /\ Resumed(first[i].kind) = kind
  BY <1>1, <1>2
<1> HIDE DEF first, kind
<1>7. /\ Turned(first, i, kind) \in Seq(Frames) /\ Len(Turned(first, i, kind)) = i
      /\ \A k \in 1..i : Turned(first, i, kind)[k].level = first[k].level
      /\ Constructs(Turned(first, i, kind), tab) = Turned(Constructs(first, tab), i, kind)
  <2>1. i \in 1..Len(first) /\ Pushed(kind) = Pushed(first[i].kind)
    BY <1>1, <1>2, <1>4, <1>6
  <2>2. kind \in Kinds
    BY <1>4
  <2>3. /\ Turned(first, i, kind) \in Seq(Frames) /\ Len(Turned(first, i, kind)) = Len(first)
        /\ \A k \in 1..Len(first) : Turned(first, i, kind)[k].level = first[k].level
        /\ Constructs(Turned(first, i, kind), tab) = Turned(Constructs(first, tab), i, kind)
    BY <1>2, <1>3, <2>1, <2>2, ConstructsTurn
  <2> QED
    BY <1>2, <2>3
<1> QED
  BY <1>2, <1>5, <1>6, <1>7 DEF first, kind

LEMMA JumpStep ==
  ASSUME Inv, visitJump
  PROVE  \E jump \in {"break", "continue", "return"} : Scopes!Jump(jump)
<1> PICK jump \in Jumps : jump = mode'
  BY DEF visitJump
<1>1. Running /\ mode' = jump /\ UNCHANGED <<symTab, frames, base>>
  BY DEF visitJump, AtStatement, Running
<1>2. /\ State = "running" /\ Stack = Constructs(frames, symTab) /\ DOMAIN Stack = 1..Framed
      /\ \A i \in 1..Framed : Stack[i].kind = frames[i].kind
  BY <1>1, StackOfFrames DEF Stack
<1>3. /\ frames \in Seq(Frames) /\ symTab \in Seq(SUBSET Var) /\ Holds(frames, symTab)
      /\ DOMAIN frames = 1..Framed /\ Framed \in Nat
  BY <1>1, LevelsHold, Numbers DEF Inv, TypeOK, Running
<1> DEFINE inner == {i \in DOMAIN Stack : Scopes!Catches(Stack[i].kind, jump)}
<1>4. inner = Catchers(frames, jump)
  BY <1>2, <1>3 DEF Scopes!Catches, Catches, Catchers
<1>5. Left' = Left
  BY <1>1 DEF Left
<1>6. Live' = Remaining(frames, jump) /\ Stack' = Constructs(Remaining(frames, jump), symTab)
  BY <1>1 DEF Live, Stack
<1>7. State' = IF inner = {} THEN "terminated" ELSE "running"
  BY <1>1, <1>4 DEF State
<1>8. CASE inner = {}
  <2>1. Stack' = <<>>
    BY <1>4, <1>6, <1>8 DEF Remaining, Constructs
  <2> QED
    BY <1>2, <1>5, <1>7, <1>8, <2>1 DEF Scopes!Jump, Jumps
<1>9. CASE inner # {}
  <2>1. PICK i \in inner : \A j \in inner : j <= i
    BY <1>3, <1>4, <1>9, InnermostCatcher
  <2>2. /\ i \in 1..Len(frames)
        /\ jump # "continue" => Remaining(frames, jump) = SubSeq(frames, 1, i - 1)
        /\ jump = "continue" =>
              Remaining(frames, jump) = Turned(SubSeq(frames, 1, i), i,
                                               Resumed(SubSeq(frames, 1, i)[i].kind))
    BY <1>3, <1>4, <2>1, RemainingAt
  <2>3. CASE jump # "continue"
    <3>1. i - 1 \in 0..Len(frames)
      BY <1>3, <2>2 DEF Framed
    <3>2. Stack' = SubSeq(Stack, 1, i - 1)
      BY <1>2, <1>3, <1>6, <2>2, <2>3, <3>1, ConstructsFirst
    <3> QED
      BY <1>2, <1>5, <1>7, <1>9, <2>1, <2>3, <3>2 DEF Scopes!Jump, Jumps
  <2>4. CASE jump = "continue"
    <3> DEFINE first == SubSeq(Stack, 1, i)
    <3>1. Stack' = Turned(first, i, Resumed(frames[i].kind))
      BY <1>2, <1>3, <1>6, <2>2, <2>4, ResumedFirst
    <3>2. first[i].kind = frames[i].kind
      <4>1. Stack \in Seq(Stacked) /\ Len(Stack) = Framed
        BY <1>1, StackOfFrames
      <4>2. first[i] = Stack[i]
        BY <2>2, <4>1 DEF Framed
      <4> QED
        BY <1>2, <2>2, <4>2 DEF Framed
    <3>3. Stack' = Turned(first, i, Resumed(first[i].kind))
      BY <3>1, <3>2
    <3>4. Stack' = [SubSeq(Stack, 1, i) EXCEPT ![i].kind = IF @ = "while" THEN "cond" ELSE @]
      BY <3>3 DEF Turned, Resumed
    <3> QED
      BY <1>2, <1>5, <1>7, <1>9, <2>1, <2>4, <3>4 DEF Scopes!Jump, Jumps
  <2> QED
    BY <2>3, <2>4
<1> QED
  BY <1>8, <1>9

\* A visit that does not catch the exception is none of those that remain.
LEMMA RemainingFront ==
  ASSUME NEW visits \in Seq(Frames), NEW less \in Seq(Frames), NEW jump,
         Len(visits) \in Nat \ {0}, less = SubSeq(visits, 1, Len(visits) - 1),
         ~Catches(visits[Len(visits)], jump)
  PROVE  /\ Catchers(less, jump) = Catchers(visits, jump)
         /\ Remaining(less, jump) = Remaining(visits, jump)
<1>1. /\ Len(less) = Len(visits) - 1
      /\ \A k \in 1 .. Len(visits) - 1 : less[k] = visits[k]
      /\ DOMAIN visits = 1..Len(visits) /\ DOMAIN less = 1 .. Len(visits) - 1
  <2>1. DOMAIN visits = 1..Len(visits) /\ DOMAIN less = 1..Len(less)
    BY LenProperties
  <2> DEFINE n == Len(visits) - 1
  <2>2. n \in Int /\ 0 <= n /\ n <= Len(visits) /\ less = SubSeq(visits, 1, n)
    OBVIOUS
  <2> HIDE DEF n
  <2>3. Len(less) = n /\ \A k \in 1..n : less[k] = visits[k]
    BY <2>2, FirstElements
  <2> QED
    BY <2>1, <2>3 DEF n
<1>2. Catchers(less, jump) = Catchers(visits, jump)
  BY <1>1 DEF Catchers
<1>3. CASE Catchers(visits, jump) = {}
  BY <1>2, <1>3 DEF Remaining
<1>4. CASE Catchers(visits, jump) # {}
  <2>1. PICK i \in Catchers(visits, jump) : \A j \in Catchers(visits, jump) : j <= i
    BY <1>4, InnermostCatcher
  <2>2. i \in 1..Len(less) /\ i \in 1..Len(visits)
    BY <1>1, <1>2, <2>1 DEF Catchers
  <2>3. Cut(less, i, jump) = Cut(visits, i, jump)
    <3>1. SubSeq(less, 1, i) = SubSeq(visits, 1, i)
      BY <1>1, <2>2
    <3>2. SubSeq(less, 1, i - 1) = SubSeq(visits, 1, i - 1)
      BY <1>1, <2>2
    <3> QED
      BY <3>1, <3>2 DEF Cut
  <2>4. Remaining(visits, jump) = Cut(visits, i, jump)
    BY <2>1, RemainingAt
  <2>5. i \in Catchers(less, jump) /\ \A j \in Catchers(less, jump) : j <= i
    BY <1>2, <2>1
  <2>6. Remaining(less, jump) = Cut(less, i, jump)
    BY <2>5, RemainingAt
  <2> QED
    BY <1>2, <2>3, <2>4, <2>6
<1> QED
  BY <1>3, <1>4

\* The handler of the innermost visit is at work.
LEMMA HandlerLive ==
  ASSUME Inv, mode \in Jumps, frames # <<>>, Catches(Top, mode)
  PROVE  /\ State = "running" /\ Live \in Seq(Frames)
         /\ \A k \in 1..Len(Live) : Live[k].level <= LevelOf(Framed)
         /\ mode = "continue" => Live = Turned(frames, Framed, Resumed(Top.kind))
         /\ mode # "continue" => Live = SubSeq(frames, 1, Framed - 1)
<1>1. /\ frames \in Seq(Frames) /\ symTab \in Seq(SUBSET Var) /\ Holds(frames, symTab)
      /\ Framed = Len(frames) /\ Framed \in Nat \ {0} /\ Top = frames[Framed]
      /\ DOMAIN frames = 1..Framed /\ Framed \in 1..Len(frames)
  BY LevelsHold, TopOfFrames DEF Inv, TypeOK, Framed, Jumps
<1>2. \A k \in 1..Framed : frames[k].level <= LevelOf(Framed)
  BY LevelsHold DEF Inv, Jumps
<1>3. Framed \in Catchers(frames, mode) /\ \A j \in Catchers(frames, mode) : j <= Framed
  BY <1>1 DEF Catchers
<1>4. /\ mode # "continue" => Live = SubSeq(frames, 1, Framed - 1)
      /\ mode = "continue" =>
           Live = Turned(SubSeq(frames, 1, Framed), Framed,
                         Resumed(SubSeq(frames, 1, Framed)[Framed].kind))
  BY SMTT(30), <1>1, <1>3, RemainingAt DEF Live
<1>5. SubSeq(frames, 1, Framed) = frames
  BY <1>1
<1>6. State = "running"
  BY <1>3 DEF State
<1>7. CASE mode = "continue"
  <2>1. Live = Turned(frames, Framed, Resumed(Top.kind))
    BY <1>1, <1>4, <1>5, <1>7
  <2>2. Live \in Seq(Frames) /\ Len(Live) = Framed
        /\ \A k \in 1..Framed : Live[k].level = frames[k].level
    BY SMTT(30), <1>1, <1>4, <1>7, ResumedFirst
  <2> QED
    BY <1>2, <1>6, <1>7, <2>1, <2>2
<1>8. CASE mode # "continue"
  <2>1. /\ Live \in Seq(Frames) /\ Len(Live) = Framed - 1
        /\ \A k \in 1 .. Framed - 1 : Live[k] = frames[k]
    BY <1>1, <1>4, <1>8
  <2> QED
    BY <1>1, <1>2, <1>4, <1>6, <1>8, <2>1
<1> QED
  BY <1>7, <1>8

\* What handlers do changes no scope.
LEMMA DropStep ==
  ASSUME Inv, TypeOK', Drop
  PROVE  UNCHANGED <<Left, Stack, State>>
<1>1. /\ mode' = mode /\ mode \in Jumps /\ UNCHANGED <<symTab, base>>
      /\ frames # <<>> /\ ~Catches(Top, mode)
      /\ frames' = SubSeq(frames, 1, Len(frames) - 1)
  BY DEF Drop, Front
<1>2. /\ frames \in Seq(Frames) /\ frames' \in Seq(Frames)
      /\ Len(frames) \in Nat \ {0} /\ Top = frames[Len(frames)]
  BY <1>1, TopOfFrames DEF Inv, TypeOK, Framed
<1>3. /\ Catchers(frames', mode) = Catchers(frames, mode)
      /\ Remaining(frames', mode) = Remaining(frames, mode)
  BY <1>1, <1>2, RemainingFront
<1> QED
  BY <1>1, <1>3 DEF Left, Stack, State, Live

LEMMA UnwindStep ==
  ASSUME Inv, TypeOK', Unwind
  PROVE  UNCHANGED <<Left, Stack, State>>
<1>1. /\ mode' = mode /\ mode \in Jumps /\ UNCHANGED <<frames, base>>
      /\ frames # <<>> /\ Catches(Top, mode) /\ level(symTab) # Top.level
      /\ symTab' = pop(symTab)
  BY DEF Unwind
<1>2. UNCHANGED <<Live, State>>
  BY <1>1 DEF Live, State
<1>3. Top.level = LevelOf(Framed) /\ LevelOf(Framed) \in Nat /\ level(symTab) \in Nat
  BY <1>1, TopOfFrames, Numbers DEF Inv, LevelOf
<1>4. base <= LevelOf(Framed) /\ LevelOf(Framed) <= level(symTab) /\ base \in Nat
  BY <1>1, LevelsHold DEF Inv, TypeOK, Jumps
<1>5. LevelOf(Framed) + 1 <= level(symTab) /\ base + 1 <= level(symTab)
  BY <1>1, <1>3, <1>4
<1>6. symTab \in Seq(SUBSET Var) /\ symTab # <<>> /\ Len(symTab) \in Nat /\ Len(symTab') \in Nat
  BY LenProperties DEF Inv, TypeOK
<1>7. Agree(symTab, symTab', level(symTab))
  <2>1. level(symTab) <= level(symTab)
    BY <1>3
  <2>2. Agree(symTab, pop(symTab), level(symTab))
    BY <1>3, <1>6, <2>1, PopAgrees
  <2> QED
    BY <1>1, <2>2
<1>8. Left' = Left
  <2>1. base + 1 \in 0..level(symTab)
    BY <1>3, <1>4, <1>5
  <2>2. Agree(symTab, symTab', base + 1)
    BY <1>3, <1>6, <1>7, <2>1, AgreeLess
  <2> QED
    BY <1>1, <2>2, LeftStays DEF Inv
<1>9. Live \in Seq(Frames) /\ \A k \in 1..Len(Live) : Live[k].level <= LevelOf(Framed)
  BY <1>1, HandlerLive
<1>10. \A k \in 1..Len(Live) : Live[k].level < level(symTab)
  <2> SUFFICES ASSUME NEW k \in 1..Len(Live) PROVE Live[k].level < level(symTab)
    OBVIOUS
  <2>1. Live[k] \in Frames /\ Live[k].level <= LevelOf(Framed)
    BY <1>9, ElementOfSeq
  <2>2. Live[k].level \in Nat
    BY <2>1 DEF Frames
  <2> QED
    BY <1>3, <1>5, <2>1, <2>2
<1>11. Constructs(Live, symTab') = Constructs(Live, symTab)
  BY <1>3, <1>7, <1>9, <1>10, StackStays
<1> QED
  BY <1>2, <1>8, <1>11 DEF Stack

LEMMA CatchStep ==
  ASSUME Inv, TypeOK', CatchContinue \/ CatchBreak
  PROVE  UNCHANGED <<Left, Stack, State>>
<1>1. /\ mode' = "running" /\ mode \in Jumps /\ base' = base
      /\ frames # <<>> /\ Catches(Top, mode)
  BY DEF CatchContinue, CatchBreak, Caught
<1>2. /\ State = "running"
      /\ mode = "continue" => Live = Turned(frames, Framed, Resumed(Top.kind))
      /\ mode # "continue" => Live = SubSeq(frames, 1, Framed - 1)
  BY <1>1, HandlerLive
<1>3. Live' = frames' /\ State' = "running"
  BY <1>1, CalmAfter DEF Jumps
<1>4. CASE CatchContinue
  <2>1. mode = "continue" /\ symTab' = symTab
    BY <1>4 DEF CatchContinue
  <2>2. frames' = Turned(frames, Framed, Resumed(Top.kind))
    BY <1>4 DEF CatchContinue, Become, Turned, Resumed, Framed
  <2> QED
    BY <1>1, <1>2, <1>3, <2>1, <2>2 DEF Left, Stack
<1>5. CASE CatchBreak
  <2>1. mode # "continue" /\ Closes
    BY <1>5, Closing DEF CatchBreak
  <2>2. /\ Left' = Left /\ frames' = SubSeq(frames, 1, Framed - 1)
        /\ Constructs(frames', symTab') = Constructs(frames', symTab)
    BY <2>1, StackAfterFront
  <2> QED
    BY <1>2, <1>3, <2>1, <2>2 DEF Stack
<1> QED
  BY <1>4, <1>5

LEMMA UncaughtStep ==
  ASSUME Uncaught
  PROVE  UNCHANGED <<Left, Stack, State>>
<1>1. /\ mode \in Jumps /\ mode' = "terminated" /\ frames = <<>> /\ frames' = <<>>
      /\ UNCHANGED <<symTab, base>>
  BY DEF Uncaught
<1>2. Catchers(frames, mode) = {}
  BY <1>1 DEF Catchers
<1>3. Live = <<>> /\ State = "terminated"
  BY <1>1, <1>2 DEF Live, State, Remaining
<1>4. Live' = <<>> /\ State' = "terminated"
  BY <1>1, CalmAfter DEF Jumps
<1> QED
  BY <1>1, <1>3, <1>4 DEF Left, Stack

-----------------------------------------------------------------------------
(* Errors. *)

\* After an error every context is one outside of the constructs: that of a
\* visit is at the place that its level says.
LEMMA FailStep ==
  ASSUME Inv, TypeOK', Error
  PROVE  Scopes!Fail
<1>1. /\ Running /\ mode' = "idle" /\ frames' = <<>> /\ base' = level(symTab')
      /\ symTab' = symTab \/ symTab' = push(symTab)
  BY DEF Error, AtExpression, Running
<1>2. /\ symTab \in Seq(SUBSET Var) /\ symTab # <<>> /\ symTab' \in Seq(SUBSET Var)
      /\ Len(symTab) = level(symTab) + 1 /\ level(symTab) \in Nat
      /\ base \in Nat /\ base + 1 <= Len(symTab) /\ Framed \in Nat
      /\ \A i \in 0..Framed : LevelOf(i) \in Nat
      /\ base = LevelOf(0)
  BY <1>1, Numbers, LevelsHold DEF Inv, TypeOK, Running, LevelOf
<1>3. level(symTab) = LevelOf(Framed)
  BY <1>1, LevelInvUnfolded DEF Inv, Running
<1>4. \A i \in 1..Framed : frames[i].level = LevelOf(i) /\ LevelOf(i) <= LevelOf(Framed)
  BY <1>1, LevelsHold DEF Inv, Running
<1>5. /\ Agree(symTab, symTab', Len(symTab))
      /\ \/ Len(symTab') = Len(symTab)
         \/ /\ Len(symTab') = Len(symTab) + 1
            /\ symTab'[Len(symTab')] = {}
  <2>1. CASE symTab' = symTab
    BY <1>2, <2>1 DEF Agree
  <2>2. CASE symTab' = push(symTab)
    <3>1. Agree(symTab, push(symTab), Len(symTab)) /\ push(symTab)[Len(symTab) + 1] = {}
      BY <1>2, PushAgrees
    <3>2. Len(push(symTab)) = Len(symTab) + 1
      BY <1>2 DEF push
    <3> QED
      BY <2>2, <3>1, <3>2
  <2> QED
    BY <1>1, <2>1, <2>2
<1>6. Stack' = <<>> /\ State' = "idle" /\ Left' = symTab'
  <2>1. Live' = <<>> /\ State' = "idle"
    BY <1>1, CalmAfter DEF Jumps
  <2>2. Stack' = <<>>
    BY <2>1 DEF Stack, Constructs
  <2>3. level(symTab') + 1 = Len(symTab') /\ Len(symTab') \in Nat
    BY <1>2, LenProperties DEF level
  <2>4. Left' = SubSeq(symTab', 1, Len(symTab'))
    BY <1>1, <2>3 DEF Left
  <2> QED
    BY <1>2, <2>1, <2>2, <2>4
<1> PICK n \in Nat : n = base + 1
  BY <1>2
<1>7. Len(Left) = n /\ DOMAIN Left = 1..n
  BY <1>2 DEF Left
<1>8. Scopes!IsPrefix(Left, symTab')
  <2>1. Len(symTab') \in Nat /\ n \in 0..Len(symTab)
    BY <1>2, LenProperties
  <2>2. Agree(symTab, symTab', n)
    BY <1>2, <1>5, <2>1, AgreeLess
  <2>3. SubSeq(symTab', 1, n) = Left
    BY <1>2, <2>2, SameFirst DEF Left
  <2>4. SubSeq(Left, 1, Len(Left)) = Left
    <3>1. Left \in Seq(SUBSET Var)
      BY <1>2 DEF Left
    <3> QED
      BY <3>1
  <2>5. n <= Len(symTab')
    BY <2>1, <2>2 DEF Agree
  <2> QED
    BY <1>7, <2>3, <2>4, <2>5 DEF Scopes!IsPrefix
<1> DEFINE live == {i \in DOMAIN Stack : Stack[i].kind \in Scopes!Scoped}
           new == DOMAIN Left' \ DOMAIN Left
           place == [i \in live |-> LevelOf(i) + 1]
<1>9. live = {i \in 1..Framed : Pushed(frames[i].kind) = 1}
  BY <1>1, StackOfFrames
<1>10. ASSUME NEW k
       PROVE  k \in new <=> k \in Nat /\ n < k /\ k <= Len(symTab')
  <2>1. DOMAIN symTab' = 1..Len(symTab') /\ Len(symTab') \in Nat
    BY <1>2, LenProperties
  <2> QED
    BY <1>6, <1>7, <2>1
<1> HIDE DEF live, new
<1>11. \A i \in live : /\ LevelOf(i) \in Nat /\ LevelOf(i) + 1 \in new
                       /\ LevelOf(i) + 1 \in 1..Len(symTab)
  <2> SUFFICES ASSUME NEW i \in live
               PROVE  /\ LevelOf(i) \in Nat /\ LevelOf(i) + 1 \in new
                      /\ LevelOf(i) + 1 \in 1..Len(symTab)
    OBVIOUS
  <2> i \in 1..Framed /\ Pushed(frames[i].kind) = 1
    BY <1>9
  <2>1. base < LevelOf(i)
    BY <1>2, LevelsBelow DEF Inv
  <2>2. LevelOf(i) \in Nat /\ LevelOf(i) + 1 <= Len(symTab)
    BY <1>2, <1>3, <1>4
  <2>3. Len(symTab) <= Len(symTab')
    BY <1>2, <1>5
  <2>4. LevelOf(i) + 1 \in Nat /\ n < LevelOf(i) + 1 /\ LevelOf(i) + 1 <= Len(symTab')
    BY <1>2, <2>1, <2>2, <2>3, LenProperties
  <2> HIDE DEF new
  <2> QED
    BY <1>10, <2>2, <2>4
<1>12. \A i, j \in live : i < j => LevelOf(i) < LevelOf(j)
  <2> SUFFICES ASSUME NEW i \in live, NEW j \in live, i < j
               PROVE  LevelOf(i) < LevelOf(j)
    OBVIOUS
  <2> /\ i \in 1..Framed /\ j \in 1..Framed /\ Pushed(frames[j].kind) = 1
    BY <1>9
  <2>1. i \in 0 .. j - 1
    BY <1>2
  <2> QED
    BY <2>1, LevelsBelow DEF Inv
<1>13. \A i \in live : symTab'[LevelOf(i) + 1] = Stack[i].names
  <2> SUFFICES ASSUME NEW i \in live PROVE symTab'[LevelOf(i) + 1] = Stack[i].names
    OBVIOUS
  <2> i \in 1..Framed /\ Pushed(frames[i].kind) = 1
    BY <1>9
  <2>1. Stack[i].names = Names(frames[i], symTab)
    BY <1>1, StackOfFrames
  <2>2. Names(frames[i], symTab) = symTab[LevelOf(i) + 1]
    BY <1>4 DEF Names
  <2>3. symTab'[LevelOf(i) + 1] = symTab[LevelOf(i) + 1]
    BY <1>5, <1>11 DEF Agree
  <2> QED
    BY <2>1, <2>2, <2>3
<1>14. ASSUME NEW k \in new
       PROVE  \/ \E i \in live : LevelOf(i) + 1 = k
              \/ k = Len(symTab') /\ symTab'[k] = {}
  <2>1. k \in Nat /\ n < k /\ k <= Len(symTab')
    BY <1>10
  <2>2. CASE k <= Len(symTab)
    <3>1. k - 1 \in Nat /\ base < k - 1 /\ k - 1 <= LevelOf(Framed)
      BY <1>2, <1>3, <2>1, <2>2
    <3>2. \E i \in 1..Framed : Pushed(frames[i].kind) = 1 /\ LevelOf(i) = k - 1
      BY <3>1, LevelsCovered DEF Inv
    <3> QED
      BY <1>9, <2>1, <3>2
  <2>3. CASE ~(k <= Len(symTab))
    BY <1>2, <1>5, <2>1, <2>3, LenProperties
  <2> QED
    BY <2>2, <2>3
<1>15. place \in [live -> new] /\ \A i \in live : place[i] = LevelOf(i) + 1
  BY <1>11
<1> HIDE DEF place
<1>16. /\ \A i, j \in live : i < j => place[i] < place[j]
       /\ \A i \in live : Left'[place[i]] = Stack[i].names
       /\ \A k \in new : \/ \E i \in live : place[i] = k
                         \/ k = Len(Left') /\ Left'[k] = {}
  BY <1>6, <1>11, <1>12, <1>13, <1>14, <1>15
<1>17. State = "running"
  BY <1>1, StackOfFrames
<1> QED
  BY <1>6, <1>8, <1>15, <1>16, <1>17 DEF Scopes!Fail, live, new

-----------------------------------------------------------------------------
(* The refinement. *)

\* The steps that begin a visit keep the contexts that there are.
LEMMA OpenStep ==
  ASSUME Inv, TypeOK',
         visitBlockNode \/ visitForeach \/ visitWhileNode \/ visitFilterExprNode
  PROVE  Scopes!Enter
<1>1. PICK f \in Frames :
        /\ Running /\ mode' = "running" /\ frames' = Append(frames, f)
        /\ f.level = level(symTab') /\ base' = base
  BY Opening DEF Inv, Opens
<1>2. /\ symTab \in Seq(SUBSET Var) /\ symTab' \in Seq(SUBSET Var)
      /\ Len(symTab) \in Nat /\ Len(symTab') \in Nat
      /\ level(symTab') = Len(symTab') - 1
  BY LenProperties DEF Inv, TypeOK, level
<1>3. f.kind # "call"
  <2>1. frames \in Seq(Frames)
    BY DEF Inv, TypeOK
  <2>2. PICK kind \in Kinds \ {"call"}, tab \in {symTab, symTab'}, ftab \in {funcTab, funcTab'} :
          frames' = Append(frames, Frame(kind, tab, ftab))
    BY DEF visitBlockNode, visitForeach, visitWhileNode, visitFilterExprNode, Kinds
  <2>3. level(tab) \in Nat /\ level(ftab) \in Nat
    BY <1>2, Tables DEF Inv, TypeOK
  <2> DEFINE g == Frame(kind, tab, ftab)
  <2>4. g \in Frames /\ g.kind = kind
    BY <2>3, FrameType
  <2>5. frames' = Append(frames, g)
    BY <2>2
  <2> HIDE DEF g
  <2>6. f = g
    <3>1. Append(frames, f)[Len(frames) + 1] = f
      BY <2>1, AppendIsSeq
    <3>2. Append(frames, g)[Len(frames) + 1] = g
      BY <2>1, <2>4, AppendIsSeq
    <3> QED
      BY <1>1, <2>5, <3>1, <3>2
  <2> QED
    BY <2>4, <2>6
<1>4. Agree(symTab, symTab', Len(symTab))
  <2>1. CASE symTab' = symTab
    BY <1>2, <2>1 DEF Agree
  <2>2. CASE symTab' = push(symTab)
    BY <1>2, <2>2, PushAgrees
  <2>3. CASE \E x \in Var : symTab' = insert(push(symTab), x)
    <3>1. PICK x \in Var : symTab' = insert(push(symTab), x)
      BY <2>3
    <3> DEFINE pushed == push(symTab)
    <3>2. /\ pushed \in Seq(SUBSET Var) /\ pushed # <<>> /\ Len(pushed) = Len(symTab) + 1
      BY <1>2, AppendIsSeq DEF push
    <3>3. Agree(symTab, pushed, Len(symTab))
      BY <1>2, PushAgrees
    <3> HIDE DEF pushed
    <3>4. Agree(pushed, insert(pushed, x), level(pushed))
      BY <3>2, InsertAgrees
    <3>5. level(pushed) = Len(symTab)
      BY <1>2, <3>2 DEF level
    <3> QED
      BY <1>2, <3>1, <3>2, <3>3, <3>4, <3>5 DEF Agree, pushed
  <2>4. symTab' = symTab \/ symTab' = push(symTab) \/ \E x \in Var : symTab' = insert(push(symTab), x)
    BY DEF visitBlockNode, visitForeach, visitWhileNode, visitFilterExprNode
  <2> QED
    BY <2>1, <2>2, <2>3, <2>4
<1>5. f.level < Len(symTab')
  BY <1>1, <1>2
<1> QED
  BY <1>1, <1>3, <1>4, <1>5, EnterStep

LEMMA LineStep ==
  ASSUME Inv
  PROVE  (Line => Scopes!Start) /\ (EndLine => Scopes!Stop)
<1>1. ASSUME Line PROVE Scopes!Start
  <2>1. /\ mode = "idle" /\ mode' = "running" /\ UNCHANGED <<symTab, frames, base>>
    BY <1>1 DEF Line
  <2>2. Live = frames /\ Live' = frames' /\ State = "idle" /\ State' = "running"
    BY <2>1, Calm, CalmAfter DEF Jumps
  <2> QED
    BY <2>1, <2>2 DEF Scopes!Start, Left, Stack
<1>2. ASSUME EndLine PROVE Scopes!Stop
  <2>1. /\ Running /\ mode' = "idle" /\ frames = <<>> /\ UNCHANGED <<symTab, frames, base>>
    BY <1>2 DEF EndLine
  <2>2. Live = frames /\ Live' = frames' /\ State = "running" /\ State' = "idle"
    BY <2>1, Calm, CalmAfter DEF Running, Jumps
  <2>3. Stack = <<>>
    BY <2>1, <2>2 DEF Stack, Constructs
  <2> QED
    BY <2>1, <2>2, <2>3 DEF Scopes!Stop, Left, Stack
<1> QED
  BY <1>1, <1>2

\* A loop goes to its body or back to its condition.
LEMMA LoopStep ==
  ASSUME Inv, BeginBody \/ EndBody
  PROVE  Scopes!Turn
<1>1. CASE BeginBody
  <2>1. /\ Running /\ mode' = "running" /\ frames # <<>> /\ Top.kind = "cond"
        /\ Become("while") /\ UNCHANGED <<symTab, base>> /\ "while" \in Kinds
    BY <1>1 DEF BeginBody, Innermost, Running, Kinds
  <2> QED
    BY <2>1, TurnStep
<1>2. CASE EndBody
  <2>1. /\ Running /\ mode' = "running" /\ frames # <<>> /\ Top.kind = "while"
        /\ Become("cond") /\ UNCHANGED <<symTab, base>> /\ "cond" \in Kinds
    BY <1>2 DEF EndBody, Innermost, Running, Kinds
  <2> QED
    BY <2>1, TurnStep
<1> QED
  BY <1>1, <1>2

\* What changes no variable that the scopes are made of is no step of theirs.
LEMMA SameScopes ==
  ASSUME UNCHANGED <<symTab, frames, mode, base>>
  PROVE  UNCHANGED <<Left, Stack, State>>
BY DEF Left, Stack, State, Live

LEMMA StepsMap ==
  ASSUME Inv, TypeOK', Next
  PROVE  Scopes!Next \/ UNCHANGED <<Left, Stack, State>>
<1>1. CASE Line \/ EndLine
  BY <1>1, LineStep DEF Scopes!Next
<1>2. CASE visitBlockNode \/ visitForeach \/ visitWhileNode \/ visitFilterExprNode
  BY <1>2, OpenStep DEF Scopes!Next
<1>3. CASE EndBlock \/ EndForeach \/ EndWhile \/ EndCall \/ EndFilter
  <2>1. Closes /\ Running
    BY <1>3, Closing DEF EndBlock, EndForeach, EndWhile, EndCall, EndFilter
  <2> QED
    BY <2>1, LeaveStep DEF Scopes!Next
<1>4. CASE BeginBody \/ EndBody
  BY <1>4, LoopStep DEF Scopes!Next
<1>5. CASE visitFunction
  <2>1. UNCHANGED <<symTab, frames, mode, base>>
    BY <1>5 DEF visitFunction
  <2> QED
    BY <2>1, SameScopes
<1>6. CASE visitFunctionCall
  BY <1>6, CallStep DEF Scopes!Next
<1>7. CASE visitAssignExpr
  BY <1>7, BindStep DEF Scopes!Next
<1>8. CASE visitJump
  BY <1>8, JumpStep DEF Scopes!Next
<1>9. CASE Error
  BY <1>9, FailStep DEF Scopes!Next
<1>10. CASE Handle
  BY <1>10, DropStep, UnwindStep, CatchStep, UncaughtStep DEF Handle
<1> QED
  BY <1>1, <1>2, <1>3, <1>4, <1>5, <1>6, <1>7, <1>8, <1>9, <1>10 DEF Next

LEMMA StartMaps ==
  ASSUME Init
  PROVE  Scopes!Init
<1>1. symTab = <<{}>> /\ frames = <<>> /\ mode = "idle" /\ base = 0
  BY DEF Init
<1>2. Live = <<>> /\ State = "idle"
  BY <1>1, Calm DEF Jumps
<1>3. Stack = <<>>
  BY <1>2 DEF Stack, Constructs
<1>4. Left = <<{}>>
  <2>1. /\ Len(symTab) = 1 /\ base + 1 = 1
    BY <1>1
  <2>2. symTab \in Seq(SUBSET Var)
    BY InitialTypes DEF TypeOK
  <2>3. SubSeq(symTab, 1, 1) = symTab
    BY <2>1, <2>2
  <2> QED
    BY <1>1, <2>1, <2>3 DEF Left
<1> QED
  BY <1>2, <1>3, <1>4 DEF Scopes!Init

\* The evaluator implements the stack of scopes, whatever program it runs: at
\* every point the names that can be seen are those of the constructs that run,
\* after any sequence of jumps and errors.
THEOREM EvalImplementsScopes == Spec => ScopesSpec
<1>1. Init => Scopes!Init
  BY StartMaps
<1>2. ASSUME Inv, TypeOK', [Next]_vars
      PROVE  [Scopes!Next]_(Scopes!vars)
  <2>1. CASE Next
    BY <1>2, <2>1, StepsMap DEF Scopes!vars
  <2>2. CASE UNCHANGED vars
    BY <2>2, SameScopes DEF vars, Scopes!vars
  <2> QED
    BY <1>2, <2>1, <2>2
<1>3. TypeOK /\ LevelInv => Inv
  BY DEF Inv
<1> QED
  BY <1>1, <1>2, <1>3, EvalTypeCorrect, LevelsAlwaysRight, PTL
  DEF Spec, ScopesSpec, Scopes!Spec
=============================================================================
