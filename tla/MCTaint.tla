------------------------------- MODULE MCTaint ------------------------------
(***************************************************************************)
(* The programs for TLC: functions 1 to 3 with two parameters each, which    *)
(* call each other in every way and the imported function 4.                *)
(***************************************************************************)
EXTENDS TaintQueries, TLC

CONSTANT MaxCalls     \* bound on the number of calls among functions 1 to 3

Arg(locals) == [locals |-> locals, funcs |-> {}, const |-> FALSE, static |-> FALSE]
Call(f, to, args) == [in |-> f, to |-> to, args |-> args]

\* A local of a caller's that is no parameter has number 3.
InnerCalls ==
  {Call(f, to, <<Arg(a), Arg(b)>>) :
     f \in 1..3, to \in 1..2, a \in {{1}, {2}, {1, 2}}, b \in {{2}, {3}}}

Functions(exported) ==
  [f \in 1..4 |-> [params |-> 2, isImport |-> f = 4, isExport |-> f \in exported]]

Config ==
  [importAsSinks |-> TRUE, importAsSources |-> TRUE, exportedAsSinks |-> TRUE,
   sinks |-> {}, sources |-> {}, whiteList |-> {}, ignore |-> {}, boMemcpy |-> {4},
   dangerousFunctions |-> {4}, formatString |-> (4 :> 2), tainted |-> <<>>]

Program(funcs, calls, config_) == [funcs |-> funcs, calls |-> calls, config |-> config_]

\* A sink is called from function 1; what flows into it comes through other
\* calls from a parameter that is named as tainted, or an exported function.
Chains ==
  {Program(Functions(exported),
           <<Call(1, 4, <<[Arg({1}) EXCEPT !.static = TRUE], Arg({2, 3})>>)>> \o calls,
           [Config EXCEPT !.tainted = tainted]) :
     calls \in UNION {[1..k -> InnerCalls] : k \in 0..MaxCalls},
     exported \in {{}, {3}}, tainted \in {(3 :> {2}), (2 :> {2}), (1 :> {1})}}

\* The lists of the configuration, and calls of every kind in a function.
Configured ==
  {Program(Functions({1}),
           <<Call(1, 4, <<[Arg(a) EXCEPT !.static = static], [Arg({2}) EXCEPT !.funcs = funcs, !.const = const]>>),
             Call(1, 2, <<Arg({1}), Arg({3})>>),
             Call(2, 4, <<Arg({1}), Arg({2})>>)>>,
           [Config EXCEPT !.whiteList = white, !.ignore = ignore, !.importAsSinks = imports,
                          !.exportedAsSinks = exports, !.sinks = sinks]) :
     a \in {{}, {1, 3}}, static \in BOOLEAN, const \in BOOLEAN, funcs \in {{}, {4}},
     white \in {{}, {1}, {4}}, ignore \in {{}, {2}}, imports \in BOOLEAN,
     exports \in BOOLEAN, sinks \in {{}, {2}}}

MCPrograms == Chains \cup Configured
=============================================================================
