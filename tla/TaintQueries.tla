---------------------------- MODULE TaintQueries ----------------------------
(***************************************************************************)
(* VulnerabilityChecker: the queries that look for dangerous calls and for   *)
(* tainted arguments of calls, over a graph of several functions.           *)
(*                                                                          *)
(* isTainted follows a parameter up through the callers' arguments, depth    *)
(* first, and marks the functions it has been in; its recursion is the      *)
(* stack frames here.  Of an instruction matters only what the queries ask   *)
(* of the arguments of calls: the locals and functions whose values flow     *)
(* into them, and whether a constant does.                                  *)
(***************************************************************************)
EXTENDS Naturals, FiniteSets, Sequences, SequencesExt

CONSTANT Programs     \* graphs with their configurations: a set of the records below

\* funcs: the functions, in order, and calls: the Call instructions, in order.
\* Of a call the arguments are given, one for each parameter of the function to,
\* and static is what BOMemcpy asks of the buffer that is written; locals are
\* those of the function in, the parameters among them by number.
\* config: the configuration, its functions by number.
FunctionRecords == [params : Nat, isImport : BOOLEAN, isExport : BOOLEAN]
CallRecords(F) == [in : F, to : F,
               args : Seq([locals : SUBSET Nat, funcs : SUBSET F,
                           const : BOOLEAN, static : BOOLEAN])]

IsProgram(x) ==
  LET F == DOMAIN x.funcs
  IN  /\ x.funcs \in Seq(FunctionRecords)
      /\ x.calls \in Seq(CallRecords(F))
      /\ \A i \in DOMAIN x.calls :
           LET c == x.calls[i]
           IN  /\ ~x.funcs[c.in].isImport
               /\ Len(c.args) = x.funcs[c.to].params
               /\ c.to \in x.config.boMemcpy => Len(c.args) >= 2
               /\ c.to \in DOMAIN x.config.formatString =>
                    x.config.formatString[c.to] \in DOMAIN c.args
      /\ x.config.ignore \cup x.config.whiteList \subseteq F

ASSUME ProgramsAssumption == \A x \in Programs : IsProgram(x)

VARIABLES
  program,
  query,      \* the queries that are left, in the order of queries.def
  func,       \* the function that the query is at
  asking,     \* whether it has begun to ask isTainted
  todo,       \* of what it will: pairs of a call (BOMemcpy) and a parameter
  asked,      \* the pair it is asking of: NoPair if none
  frames,     \* the calls of isTainted: of each, what is left to follow, as pairs
              \* of a call (0 for the question itself) and a parameter of its caller
  visited,
  result,     \* what isTainted has returned
  taintedParams,
  vulns       \* the reports

taintVars == <<program, query, func, asking, todo, asked, frames, visited, result,
               taintedParams, vulns>>
searching == <<frames, visited, result>>

Funcs   == DOMAIN program.funcs
config  == program.config
In(c)   == program.calls[c].in
To(c)   == program.calls[c].to
Args(c) == program.calls[c].args
Imports == {f \in Funcs : program.funcs[f].isImport}
Indices(f)  == 1 .. program.funcs[f].params
Param(f, i) == [func |-> f, index |-> i]
None   == Param(0, 0)      \* ("", "")
NoPair == <<0, 0>>

Sinks   == (config.sinks \cup (IF config.importAsSinks THEN Imports ELSE {}))
           \ config.whiteList
Sources == config.sources \cup (IF config.importAsSources THEN Imports ELSE {})

CallsOf(f, targets) == {c \in DOMAIN program.calls : In(c) = f /\ To(c) \in targets}
LocalsInto(c)       == UNION {a.locals : a \in ToSet(Args(c))}

\* A report: the call, and the parameter i of its function that is tainted from
\* the parameter p.
Report(type, c, i, p) == [type |-> type, call |-> c, local |-> i, from |-> p]

-----------------------------------------------------------------------------
(* isTainted.                                                               *)

\* A parameter that the configuration names, or any of an exported function
\* of which it says nothing.
IsSource(p) ==
  IF p.func \in DOMAIN config.tainted THEN p.index \in config.tainted[p.func]
  ELSE config.exportedAsSinks /\ program.funcs[p.func].isExport
       /\ p.func \notin config.whiteList

\* Variant: of all arguments of the calls.
NewParams_anyArg(p) ==
  UNION {{<<c, i>> : i \in Indices(In(c)) \cap LocalsInto(c)} :
           c \in {c \in DOMAIN program.calls : To(c) = p.func}}

\* The parameters that flow into p in the calls of its function.
NewParams(p) ==
  UNION {{<<c, i>> : i \in Indices(In(c)) \cap Args(c)[p.index].locals} :
           c \in {c \in DOMAIN program.calls : To(c) = p.func}}

Running     == frames # <<>>
Followed(a) == Param(IF a[1] = 0 THEN func ELSE In(a[1]), a[2])
Others(a)   == [frames EXCEPT ![Len(frames)] = @ \ {a}]

\* By call, and of one call by parameter.
Following(a) ==
  /\ a \in Last(frames)
  /\ \A b \in Last(frames) : a[1] < b[1] \/ (a[1] = b[1] /\ a[2] <= b[2])

BeenThere ==
  /\ Running
  /\ \E a \in Last(frames) :
       /\ Following(a) /\ Followed(a).func \in visited
       /\ frames' = Others(a)
  /\ UNCHANGED <<visited, result>>

FoundSource ==
  /\ Running
  /\ \E a \in Last(frames) :
       /\ Following(a) /\ Followed(a).func \notin visited /\ IsSource(Followed(a))
       /\ visited' = visited \cup {Followed(a).func}
       /\ result' = Followed(a)
  /\ frames' = <<>>

\* Variant: the function is not marked as visited.
Recur_unmarked ==
  /\ Running
  /\ \E a \in Last(frames) :
       /\ Following(a) /\ Followed(a).func \notin visited /\ ~IsSource(Followed(a))
       /\ frames' = Append(Others(a), NewParams(Followed(a)))
  /\ UNCHANGED <<visited, result>>

Recur ==
  /\ Running
  /\ \E a \in Last(frames) :
       /\ Following(a) /\ Followed(a).func \notin visited /\ ~IsSource(Followed(a))
       /\ visited' = visited \cup {Followed(a).func}
       /\ frames' = Append(Others(a), NewParams(Followed(a)))
  /\ UNCHANGED result

NoneLeft ==
  /\ Running /\ Last(frames) = {}
  /\ frames' = Front(frames)
  /\ UNCHANGED <<visited, result>>

isTainted == /\ BeenThere \/ FoundSource \/ Recur \/ NoneLeft
             /\ UNCHANGED <<program, query, func, asking, todo, asked, taintedParams, vulns>>

-----------------------------------------------------------------------------
(* The queries, function by function.                                       *)

TInit ==
  /\ program \in Programs
  /\ query = <<"BOMemcpy", "DangerousFunctions", "FormatStrings", "TaintedFuncToFunc",
               "TaintedLocalToFunc">>
  /\ func = 1 /\ asking = FALSE /\ todo = {} /\ asked = NoPair
  /\ frames = <<>> /\ visited = {} /\ result = None
  /\ taintedParams = <<>> /\ vulns = {}

At(q) == query # <<>> /\ Head(query) = q /\ func \in Funcs
Begins(q) == At(q) /\ ~asking
Ends(q)   == At(q) /\ asking /\ todo = {} /\ asked = NoPair

\* On to the next function, with these reports made.
Done(reports) ==
  /\ vulns' = vulns \cup reports
  /\ func' = func + 1 /\ asking' = FALSE /\ taintedParams' = <<>>
  /\ UNCHANGED <<program, query, todo, asked, searching>>

NextQuery ==
  /\ query # <<>> /\ func \notin Funcs
  /\ query' = Tail(query) /\ func' = 1
  /\ UNCHANGED <<program, asking, todo, asked, searching, taintedParams, vulns>>

DangerousFunctions ==
  /\ Begins("DangerousFunctions")
  /\ Done({Report("DangFunc", c, 0, None) : c \in CallsOf(func, config.dangerousFunctions)})

\* The calls of such functions whose format does not come from a constant.
FormatStrings ==
  /\ Begins("FormatStrings")
  /\ LET F == config.formatString
     IN  Done(IF func \in config.ignore \cup DOMAIN F THEN {}
              ELSE {Report("FormatStrings", c, 0, None) :
                      c \in {c \in CallsOf(func, DOMAIN F) : ~Args(c)[F[To(c)]].const}})

\* The calls of sinks into which the result of a source flows.
TaintedFuncToFunc ==
  /\ Begins("TaintedFuncToFunc")
  /\ Done(IF func \in config.ignore \cup Sinks THEN {}
          ELSE {Report("FuncToFunc", c, 0, None) :
                  c \in {c \in CallsOf(func, Sinks) :
                           \E a \in ToSet(Args(c)) : a.funcs \cap Sources # {}}})

\* The two queries that ask isTainted, and the functions they pass over.
PassOver ==
  /\ \/ Begins("TaintedLocalToFunc") /\ func \in config.ignore \cup Sinks
     \/ Begins("BOMemcpy") /\ func \in config.ignore \cup config.boMemcpy
  /\ Done({})

\* TaintedLocalToFunc asks first, of each parameter of the function.
BeginTaintedLocalToFunc ==
  /\ Begins("TaintedLocalToFunc") /\ func \notin config.ignore \cup Sinks
  /\ asking' = TRUE
  /\ todo' = {<<0, i>> : i \in Indices(func)}
  /\ taintedParams' = [i \in Indices(func) |-> None]
  /\ UNCHANGED <<program, query, func, asked, searching, vulns>>

\* BOMemcpy asks of the parameters in the second argument of calls that write
\* to a buffer of fixed size.
BeginBOMemcpy ==
  /\ Begins("BOMemcpy") /\ func \notin config.ignore \cup config.boMemcpy
  /\ asking' = TRUE
  /\ todo' = UNION {{<<c, i>> : i \in Indices(func) \cap Args(c)[2].locals} :
                      c \in {c \in CallsOf(func, config.boMemcpy) : Args(c)[1].static}}
  /\ UNCHANGED <<program, query, func, asked, searching, taintedParams, vulns>>

\* Variant: the functions visited for one parameter stay so for the next.
Ask_visited ==
  /\ asking /\ asked = NoPair
  /\ \E a \in todo :
       /\ \A b \in todo : a[1] <= b[1]
       /\ asked' = a /\ todo' = todo \ {a}
       /\ frames' = <<{<<0, a[2]>>}>> /\ result' = None
  /\ UNCHANGED <<program, query, func, asking, visited, taintedParams, vulns>>

\* With a new set of visited functions.
Ask ==
  /\ asking /\ asked = NoPair
  /\ \E a \in todo :
       /\ \A b \in todo : a[1] <= b[1]
       /\ asked' = a /\ todo' = todo \ {a}
       /\ frames' = <<{<<0, a[2]>>}>> /\ visited' = {} /\ result' = None
  /\ UNCHANGED <<program, query, func, asking, taintedParams, vulns>>

AnswerLocalToFunc ==
  /\ At("TaintedLocalToFunc") /\ asked # NoPair /\ ~Running
  /\ taintedParams' = [taintedParams EXCEPT ![asked[2]] = result]
  /\ asked' = NoPair
  /\ UNCHANGED <<program, query, func, asking, todo, searching, vulns>>

\* One report of a call is enough.
AnswerBOMemcpy ==
  /\ At("BOMemcpy") /\ asked # NoPair /\ ~Running
  /\ IF result = None THEN UNCHANGED <<todo, vulns>>
     ELSE /\ vulns' = vulns \cup {Report("Memcpy", asked[1], asked[2], result)}
          /\ todo' = {a \in todo : a[1] # asked[1]}
  /\ asked' = NoPair
  /\ UNCHANGED <<program, query, func, asking, searching, taintedParams>>

\* The calls of sinks into which a tainted parameter flows.
TaintedLocalToFunc ==
  /\ Ends("TaintedLocalToFunc")
  /\ Done({Report("LocalToFunc", ci[1], ci[2], taintedParams[ci[2]]) :
             ci \in {ci \in CallsOf(func, Sinks) \X Indices(func) :
                       ci[2] \in LocalsInto(ci[1]) /\ taintedParams[ci[2]] # None}})

BOMemcpy == Ends("BOMemcpy") /\ Done({})

TNext == \/ isTainted \/ Ask \/ AnswerLocalToFunc \/ AnswerBOMemcpy
         \/ PassOver \/ BeginTaintedLocalToFunc \/ BeginBOMemcpy
         \/ DangerousFunctions \/ FormatStrings \/ TaintedFuncToFunc
         \/ TaintedLocalToFunc \/ BOMemcpy \/ NextQuery

TSpec == TInit /\ [][TNext]_taintVars
-----------------------------------------------------------------------------
\* <<q, p>>: a call hands q, or a value made of it, on as p.
Flows ==
  UNION {UNION {{<<Param(In(c), i), Param(To(c), j)>> :
                   i \in Indices(In(c)) \cap Args(c)[j].locals} :
                  j \in DOMAIN Args(c)} :
           c \in DOMAIN program.calls}

\* The parameters whose value may come to be that of p, p included: by calls
\* through any number of functions.
Reach(p) ==
  LET flows  == Flows
      origins == {flow[1] : flow \in flows}
      closed == {S \in {T \cup {p} : T \in SUBSET origins} :
                   \A flow \in flows : flow[2] \in S => flow[1] \in S}
  IN  {q \in origins \cup {p} : \A S \in closed : q \in S}

\* Two parameters of one function may both be followed from p: the second time
\* the function has been visited, and isTainted turns back.
Blocked(p) == \E q, r \in Reach(p) : q.func = r.func /\ q # r

\* Every taint reported is one: a value that comes into the program at the
\* parameter named flows through calls into an argument of the call reported.
TaintIsReal ==
  \A v \in vulns : v.from # None =>
    /\ v.local \in LocalsInto(v.call)
    /\ IsSource(v.from) /\ v.from \in Reach(Param(In(v.call), v.local))

\* When the query is over, every call of a sink into which a tainted parameter
\* flows is reported, and every such copy to a buffer, unless a function is
\* visited through one parameter and passed over for another.
NothingMissed ==
  /\ query = <<>> =>
       \A c \in DOMAIN program.calls : \A i \in LocalsInto(c) \cap Indices(In(c)) :
         (/\ To(c) \in Sinks /\ In(c) \notin config.ignore \cup Sinks
          /\ \E q \in Reach(Param(In(c), i)) : IsSource(q)
          /\ ~Blocked(Param(In(c), i)))
         => \E v \in vulns : v.type = "LocalToFunc" /\ v.call = c /\ v.local = i
  /\ query = <<>> =>
       \A c \in DOMAIN program.calls :
         (/\ To(c) \in config.boMemcpy /\ In(c) \notin config.ignore \cup config.boMemcpy
          /\ Args(c)[1].static
          /\ \E i \in Args(c)[2].locals \cap Indices(In(c)) :
               /\ \E q \in Reach(Param(In(c), i)) : IsSource(q)
               /\ ~Blocked(Param(In(c), i)))
         => \E v \in vulns : v.type = "Memcpy" /\ v.call = c

\* However the functions call each other, isTainted does not come back to one
\* that it is in: its recursion is no deeper than there are functions.
RecursionBounded == Len(frames) <= Cardinality(Funcs) + 1
=============================================================================
