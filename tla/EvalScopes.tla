----------------------------- MODULE EvalScopes -----------------------------
(***************************************************************************)
(* The evaluator of the query language (interpreter/evaluator.h) and its    *)
(* two symbol tables (interpreter/symbol-table.h), under blocks, loops,     *)
(* calls, filters, jumps and errors.  break, continue, return and errors    *)
(* are C++ exceptions: they drop the visits they pass, with the pops these   *)
(* had still to do, and the handlers of break, continue and return pop      *)
(* _symTab back to the level they have recorded.                            *)
(*                                                                          *)
(* The program is not fixed: at each point the next statement or expression *)
(* is any that the grammar (parser.y) allows there.  If, import and the     *)
(* sequences of statements change no table and are not there.  Of a table a *)
(* context is the set of the names in it.                                   *)
(*                                                                          *)
(* A definition whose comment begins with "variant" is the next one with a  *)
(* plausible mistake in it; the model does not use it.                      *)
(***************************************************************************)
EXTENDS Integers, Sequences, SequencesExt

CONSTANTS Var,         \* names of variables
          Fun,         \* names of functions
          MaxFrames,   \* bound on the constructs that run at once
          MaxContexts  \* bound on the contexts of a table

ASSUME BoundsAssumption == MaxFrames \in Nat /\ MaxContexts \in Nat

VARIABLES
  symTab, funcTab,  \* _contexts of _symTab and of _funcTab, the current one last
  frames,           \* the visits that run, the innermost last
  mode,             \* "running", the exception under way, or between two lines
  base, fbase       \* levels outside of every visit, since the last error

vars == <<symTab, funcTab, frames, mode, base, fbase>>

Jumps == {"break", "continue", "return"}
Modes == Jumps \cup {"idle", "running", "terminated"}
Kinds == {"block", "foreach", "cond", "while", "call", "filter"}

\* A visit: level is what visitForeach, visitWhileNode and a function record
\* of _symTab; for the others it is the level they run at.  flevel is the level
\* of _funcTab that the visit runs at.
Frames == [kind : Kinds, level : Nat, flevel : Nat]

TypeOK ==
  /\ symTab \in Seq(SUBSET Var) /\ symTab # <<>>
  /\ funcTab \in Seq(SUBSET Fun) /\ funcTab # <<>>
  /\ frames \in Seq(Frames)
  /\ mode \in Modes
  /\ base \in Nat /\ fbase \in Nat

-----------------------------------------------------------------------------
(* SymbolTable.  The first context is at level 0. *)

\* variant: the number of contexts that push has made, less one.
level_short(tab) == Len(tab) - 2

level(tab)        == Len(tab) - 1
push(tab)         == Append(tab, {})
pop(tab)          == IF level(tab) = 0 THEN tab ELSE Front(tab)
insert(tab, name) == [tab EXCEPT ![Len(tab)] = @ \cup {name}]
found(tab, name)  == \E i \in DOMAIN tab : name \in tab[i]

-----------------------------------------------------------------------------
Top     == Last(frames)
Running == mode = "running"

\* Room for more visits, each with a context.
Room(n) == /\ Len(frames) + n <= MaxFrames
           /\ Len(symTab) + n <= MaxContexts /\ Len(funcTab) < MaxContexts

\* Statements stand in the body of a construct; in a loop's condition and in a
\* filter there are only expressions.  A call's frame has its block above it
\* until the block is over.
Innermost    == IF frames = <<>> THEN "none" ELSE Top.kind
AtStatement  == Running /\ Innermost \notin {"call", "cond", "filter"}
AtExpression == Running /\ Innermost # "call"

Frame(kind, tab, ftab) == [kind |-> kind, level |-> level(tab), flevel |-> level(ftab)]

Init ==
  /\ symTab = <<{}>> /\ funcTab = <<{}>>
  /\ frames = <<>> /\ mode = "idle" /\ base = 0 /\ fbase = 0

\* The file's program, or a line of the interactive mode.
Line ==
  /\ mode = "idle" /\ mode' = "running"
  /\ UNCHANGED <<symTab, funcTab, frames, base, fbase>>

EndLine ==
  /\ Running /\ frames = <<>>
  /\ mode' = "idle"
  /\ UNCHANGED <<symTab, funcTab, frames, base, fbase>>

visitBlockNode ==
  /\ AtStatement /\ Room(1)
  /\ symTab' = push(symTab) /\ funcTab' = push(funcTab)
  /\ frames' = Append(frames, Frame("block", symTab', funcTab'))
  /\ UNCHANGED <<mode, base, fbase>>

EndBlock ==
  /\ Running /\ Innermost = "block"
  /\ symTab' = pop(symTab) /\ funcTab' = pop(funcTab)
  /\ frames' = Front(frames)
  /\ UNCHANGED <<mode, base, fbase>>

\* variant: the level is recorded before the push.
visitForeach_early ==
  /\ AtStatement /\ Room(1)
  /\ \E x \in Var : symTab' = insert(push(symTab), x)
  /\ frames' = Append(frames, Frame("foreach", symTab, funcTab))
  /\ UNCHANGED <<funcTab, mode, base, fbase>>

visitForeach ==
  /\ AtStatement /\ Room(1)
  /\ \E x \in Var : symTab' = insert(push(symTab), x)
  /\ frames' = Append(frames, Frame("foreach", symTab', funcTab))
  /\ UNCHANGED <<funcTab, mode, base, fbase>>

EndForeach ==
  /\ Running /\ Innermost = "foreach"
  /\ symTab' = pop(symTab)
  /\ frames' = Front(frames)
  /\ UNCHANGED <<funcTab, mode, base, fbase>>

visitWhileNode ==
  /\ AtStatement /\ Room(1)
  /\ frames' = Append(frames, Frame("cond", symTab, funcTab))
  /\ UNCHANGED <<symTab, funcTab, mode, base, fbase>>

\* The condition is evaluated outside of the try block, the body inside.
Become(kind) == frames' = [frames EXCEPT ![Len(frames)].kind = kind]

BeginBody ==
  /\ Running /\ Innermost = "cond"
  /\ Become("while")
  /\ UNCHANGED <<symTab, funcTab, mode, base, fbase>>

EndBody ==
  /\ Running /\ Innermost = "while"
  /\ Become("cond")
  /\ UNCHANGED <<symTab, funcTab, mode, base, fbase>>

EndWhile ==
  /\ Running /\ Innermost = "cond"
  /\ frames' = Front(frames)
  /\ UNCHANGED <<symTab, funcTab, mode, base, fbase>>

\* Functions of the program; the built-in ones pop what visitFunctionCall has
\* pushed without more.
visitFunction ==
  /\ AtStatement
  /\ \E f \in Fun : funcTab' = insert(funcTab, f)
  /\ UNCHANGED <<symTab, frames, mode, base, fbase>>

\* A context for the parameters, and the function's block.
visitFunctionCall ==
  /\ AtExpression /\ Room(2)
  /\ \E f \in Fun : found(funcTab, f)
  /\ \E params \in SUBSET Var :
       LET called == Append(symTab, params)
       IN  /\ symTab' = push(called) /\ funcTab' = push(funcTab)
           /\ frames' = frames \o <<Frame("call", called, funcTab),
                                    Frame("block", symTab', funcTab')>>
  /\ UNCHANGED <<mode, base, fbase>>

EndCall ==
  /\ Running /\ Innermost = "call"
  /\ symTab' = pop(symTab)
  /\ frames' = Front(frames)
  /\ UNCHANGED <<funcTab, mode, base, fbase>>

visitFilterExprNode ==
  /\ AtExpression /\ Room(1)
  /\ \E x \in Var : symTab' = insert(push(symTab), x)
  /\ frames' = Append(frames, Frame("filter", symTab', funcTab))
  /\ UNCHANGED <<funcTab, mode, base, fbase>>

EndFilter ==
  /\ Running /\ Innermost = "filter"
  /\ symTab' = pop(symTab)
  /\ frames' = Front(frames)
  /\ UNCHANGED <<funcTab, mode, base, fbase>>

\* variant: without replace.
visitAssignExpr_local ==
  /\ AtExpression
  /\ \E x \in Var : symTab' = insert(symTab, x)
  /\ UNCHANGED <<funcTab, frames, mode, base, fbase>>

\* A variable that some context has keeps its place.
visitAssignExpr ==
  /\ AtExpression
  /\ \E x \in Var :
       symTab' = IF found(symTab, x) THEN symTab ELSE insert(symTab, x)
  /\ UNCHANGED <<funcTab, frames, mode, base, fbase>>

visitJump ==   \* visitBreakNode, visitContinueNode, visitReturnNode
  /\ AtStatement
  /\ mode' \in Jumps
  /\ UNCHANGED <<symTab, funcTab, frames, base, fbase>>

\* An InterpreterException: the loop of wasmati-query catches it, and no visit
\* does.  A call with too few arguments, and a built-in function, throw it when
\* the context for the parameters has been pushed.
Error ==
  /\ AtExpression
  /\ symTab' \in {symTab} \cup (IF Len(symTab) < MaxContexts THEN {push(symTab)} ELSE {})
  /\ frames' = <<>> /\ mode' = "idle"
  /\ base' = level(symTab') /\ fbase' = level(funcTab)
  /\ UNCHANGED funcTab

-----------------------------------------------------------------------------
Catches(frame, jump) ==
  \/ jump \in {"break", "continue"} /\ frame.kind \in {"foreach", "while"}
  \/ jump = "return" /\ frame.kind = "call"

\* The exception passes a visit, which pops nothing.
Drop ==
  /\ mode \in Jumps /\ frames # <<>> /\ ~Catches(Top, mode)
  /\ frames' = Front(frames)
  /\ UNCHANGED <<symTab, funcTab, mode, base, fbase>>

\* variant: _funcTab is restored with _symTab.
Unwind_both ==
  /\ mode \in Jumps /\ frames # <<>> /\ Catches(Top, mode)
  /\ level(symTab) # Top.level
  /\ symTab' = pop(symTab) /\ funcTab' = pop(funcTab)
  /\ UNCHANGED <<frames, mode, base, fbase>>

\* variant: do _symTab.pop(); while (_symTab.level() != level);
Unwind_do ==
  /\ mode \in Jumps /\ frames # <<>> /\ Catches(Top, mode)
  /\ symTab' = pop(symTab)
  /\ UNCHANGED <<funcTab, frames, mode, base, fbase>>

\* while (_symTab.level() != level) _symTab.pop();
Unwind ==
  /\ mode \in Jumps /\ frames # <<>> /\ Catches(Top, mode)
  /\ level(symTab) # Top.level
  /\ symTab' = pop(symTab)
  /\ UNCHANGED <<funcTab, frames, mode, base, fbase>>

Caught == /\ mode \in Jumps /\ frames # <<>> /\ Catches(Top, mode)
          /\ level(symTab) = Top.level
          /\ mode' = "running"

CatchContinue ==
  /\ Caught /\ mode = "continue"
  /\ Become(IF Top.kind = "while" THEN "cond" ELSE Top.kind)
  /\ UNCHANGED <<symTab, funcTab, base, fbase>>

\* variant: the handler of break leaves the loop's context.
CatchBreak_keeps ==
  /\ Caught /\ mode # "continue"
  /\ frames' = Front(frames)
  /\ UNCHANGED <<symTab, funcTab, base, fbase>>

\* The loop, or the call, pops what it has itself pushed.
CatchBreak ==
  /\ Caught /\ mode # "continue"
  /\ symTab' = IF Top.kind = "while" THEN symTab ELSE pop(symTab)
  /\ frames' = Front(frames)
  /\ UNCHANGED <<funcTab, base, fbase>>

\* No catch clause: std::terminate.
Uncaught ==
  /\ mode \in Jumps /\ frames = <<>>
  /\ mode' = "terminated"
  /\ UNCHANGED <<symTab, funcTab, frames, base, fbase>>

Handle == Drop \/ Unwind \/ CatchContinue \/ CatchBreak \/ Uncaught

Next ==
  \/ Line \/ EndLine
  \/ visitBlockNode \/ EndBlock \/ visitForeach \/ EndForeach
  \/ visitWhileNode \/ BeginBody \/ EndBody \/ EndWhile
  \/ visitFunction \/ visitFunctionCall \/ EndCall
  \/ visitFilterExprNode \/ EndFilter \/ visitAssignExpr
  \/ visitJump \/ Error \/ Handle

\* The C++ runtime and the handlers go on; of the program nothing is assumed.
Spec == Init /\ [][Next]_vars /\ WF_vars(Handle)

-----------------------------------------------------------------------------
(* Properties. *)

LevelOf(i)  == IF i = 0 THEN base ELSE frames[i].level
FlevelOf(i) == IF i = 0 THEN fbase ELSE frames[i].flevel

Pushed(kind) == IF kind \in {"cond", "while"} THEN 0 ELSE 1

\* Each construct runs one context above the one around it, or none if it is a
\* while: whatever has been jumped out of before.
ScopesAreNesting ==
  \A i \in DOMAIN frames :
    LevelOf(i) = LevelOf(i - 1) + Pushed(frames[i].kind)

\* While statements run, the current context of _symTab is that of the
\* innermost construct: a handler has popped what the jump left behind, and no
\* more, and a foreach finds its variable with replace_local.
CurrentIsInnermost ==
  mode \in {"idle", "running"} => level(symTab) = LevelOf(Len(frames))

\* An exception under way has popped no context of a construct that it has not
\* left, so that the handlers' loops, which wait for a level to be equal, end.
HandlersReachable ==
  mode \in Jumps => level(symTab) >= LevelOf(Len(frames))

\* _funcTab is popped by blocks only and restored by no handler.  It never has
\* fewer contexts than blocks run: what an outer block has declared stays.
FunctionsStay ==
  /\ level(funcTab) >= FlevelOf(Len(frames))
  /\ \A i \in DOMAIN frames :
       FlevelOf(i) >= FlevelOf(i - 1) + (IF frames[i].kind = "block" THEN 1 ELSE 0)

\* Every throw is dealt with.
JumpsArrive == mode \in Jumps ~> mode \notin Jumps

\* The scopes of a ScopeStack.  A jump is made when it is thrown: these are the
\* visits that remain when the innermost of those that catch it has caught it.
Catchers(visits, jump) == {i \in DOMAIN visits : Catches(visits[i], jump)}

Cut(visits, i, jump) ==
  IF jump # "continue" THEN SubSeq(visits, 1, i - 1)
  ELSE [SubSeq(visits, 1, i) EXCEPT ![i].kind = IF @ = "while" THEN "cond" ELSE @]

Remaining(visits, jump) ==
  IF Catchers(visits, jump) = {} THEN <<>>
  ELSE Cut(visits, CHOOSE i \in Catchers(visits, jump) :
                     \A j \in Catchers(visits, jump) : j <= i, jump)

Live == IF mode \in Jumps THEN Remaining(frames, mode) ELSE frames

\* The constructs that visits stand for, with the names in their own contexts.
Names(visit, tab) ==
  IF Pushed(visit.kind) = 1 THEN tab[visit.level + 1] ELSE {}
Constructs(visits, tab) ==
  [i \in DOMAIN visits |->
    [kind |-> visits[i].kind, names |-> Names(visits[i], tab)]]

Left  == SubSeq(symTab, 1, base + 1)
Stack == Constructs(Live, symTab)
State == IF mode \notin Jumps THEN mode
         ELSE IF Catchers(frames, mode) = {} THEN "terminated" ELSE "running"

Scopes == INSTANCE ScopeStack WITH left <- Left, stack <- Stack, state <- State

\* The evaluator implements the stack of scopes: after every jump and error the
\* names that can be seen are those of the constructs that run.
ScopesSpec == Scopes!Spec
=============================================================================
