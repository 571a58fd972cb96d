-------------------------- MODULE TaintQueriesProofs --------------------------
(***************************************************************************)
(* Proofs about TaintQueries for every set of programs: isTainted's          *)
(* recursion is bounded, every taint reported is one, and none is missed but *)
(* where the search turns back at a function it has been in.                 *)
(***************************************************************************)
EXTENDS TaintQueries, CommonLemmas, FiniteSetTheorems

-----------------------------------------------------------------------------
(* Programs, and what flows in them. *)

\* A parameter of a function of the program.
IsParam(p) == \E f \in Funcs : \E i \in Indices(f) : p = Param(f, i)

LEMMA ParamFields ==
  ASSUME NEW f, NEW i
  PROVE  Param(f, i).func = f /\ Param(f, i).index = i
BY DEF Param

LEMMA ProgramShape ==
  ASSUME program \in Programs
  PROVE  /\ Len(program.funcs) \in Nat /\ Funcs = 1 .. Len(program.funcs)
         /\ \A f \in Funcs : program.funcs[f].params \in Nat
         /\ \A f \in Funcs : Indices(f) \subseteq Nat \ {0}
         /\ Len(program.calls) \in Nat /\ DOMAIN program.calls = 1 .. Len(program.calls)
         /\ \A c \in DOMAIN program.calls :
              /\ In(c) \in Funcs /\ To(c) \in Funcs /\ Len(Args(c)) \in Nat
              /\ DOMAIN Args(c) = 1 .. Len(Args(c))
              /\ DOMAIN Args(c) = Indices(To(c))
              /\ To(c) \in config.boMemcpy => Len(Args(c)) >= 2
<1> DEFINE funcs == program.funcs
           calls == program.calls
<1>1. /\ funcs \in Seq(FunctionRecords)
      /\ calls \in Seq(CallRecords(Funcs))
      /\ \A i \in DOMAIN calls :
           /\ Len(calls[i].args) = funcs[calls[i].to].params
           /\ calls[i].to \in config.boMemcpy => Len(calls[i].args) >= 2
  BY ProgramsAssumption DEF IsProgram, Funcs, config
<1>2. /\ Len(funcs) \in Nat /\ DOMAIN funcs = 1..Len(funcs)
      /\ Len(calls) \in Nat /\ DOMAIN calls = 1..Len(calls)
  BY <1>1, LenProperties
<1>3. ASSUME NEW f \in Funcs
      PROVE  funcs[f].params \in Nat /\ Indices(f) \subseteq Nat \ {0}
  <2>1. funcs[f] \in FunctionRecords
    BY <1>1, <1>2, ElementOfSeq DEF Funcs
  <2>2. funcs[f].params \in Nat
    BY <2>1 DEF FunctionRecords
  <2> QED
    BY <2>2 DEF Indices
<1>4. ASSUME NEW c \in DOMAIN calls
      PROVE  /\ In(c) \in Funcs /\ To(c) \in Funcs /\ Len(Args(c)) \in Nat
             /\ DOMAIN Args(c) = 1 .. Len(Args(c))
             /\ DOMAIN Args(c) = Indices(To(c))
             /\ To(c) \in config.boMemcpy => Len(Args(c)) >= 2
  <2>1. calls[c] \in CallRecords(Funcs)
    BY <1>1, <1>2, ElementOfSeq
  <2> DEFINE Arguments == [locals : SUBSET Nat, funcs : SUBSET Funcs,
                           const : BOOLEAN, static : BOOLEAN]
  <2>2. In(c) \in Funcs /\ To(c) \in Funcs /\ Args(c) \in Seq(Arguments)
    BY <2>1 DEF CallRecords, In, To, Args
  <2> HIDE DEF Arguments
  <2>3. Len(Args(c)) \in Nat /\ DOMAIN Args(c) = 1 .. Len(Args(c))
    BY <2>2, LenProperties
  <2>4. /\ Len(Args(c)) = funcs[To(c)].params
        /\ To(c) \in config.boMemcpy => Len(Args(c)) >= 2
    BY <1>1 DEF To, Args
  <2> QED
    BY <2>2, <2>3, <2>4 DEF Indices
<1> QED
  BY <1>2, <1>3, <1>4 DEF Funcs

LEMMA CallShape ==
  ASSUME program \in Programs, NEW c \in DOMAIN program.calls
  PROVE  /\ c \in Nat \ {0} /\ In(c) \in Funcs /\ To(c) \in Funcs
         /\ DOMAIN Args(c) = Indices(To(c))
         /\ To(c) \in config.boMemcpy => 2 \in DOMAIN Args(c)
<1>1. /\ Len(program.calls) \in Nat /\ DOMAIN program.calls = 1 .. Len(program.calls)
      /\ In(c) \in Funcs /\ To(c) \in Funcs /\ Len(Args(c)) \in Nat
      /\ DOMAIN Args(c) = 1 .. Len(Args(c))
      /\ DOMAIN Args(c) = Indices(To(c))
      /\ To(c) \in config.boMemcpy => Len(Args(c)) >= 2
  BY ProgramShape
<1>2. c \in 1 .. Len(program.calls)
  BY <1>1
<1> QED
  BY <1>1, <1>2

LEMMA FlowsAre ==
  ASSUME NEW flow
  PROVE  flow \in Flows <=>
           \E c \in DOMAIN program.calls : \E j \in DOMAIN Args(c) :
             \E i \in Indices(In(c)) \cap Args(c)[j].locals :
               flow = <<Param(In(c), i), Param(To(c), j)>>
BY DEF Flows

LEMMA NewParamsAre ==
  ASSUME NEW p, NEW a
  PROVE  a \in NewParams(p) <=>
           \E c \in DOMAIN program.calls : To(c) = p.func /\
             \E i \in Indices(In(c)) \cap Args(c)[p.index].locals : a = <<c, i>>
BY DEF NewParams

\* isTainted follows what flows into a parameter, and nothing else.
LEMMA FollowedFlows ==
  ASSUME program \in Programs, NEW p, IsParam(p)
  PROVE  /\ \A q : <<q, p>> \in Flows <=> \E a \in NewParams(p) : Followed(a) = q
         /\ \A a \in NewParams(p) :
              /\ a = <<a[1], a[2]>> /\ a[1] \in DOMAIN program.calls
              /\ a[2] \in Indices(In(a[1])) /\ Followed(a) = Param(In(a[1]), a[2])
<1>1. PICK f, j : f \in Funcs /\ j \in Indices(f) /\ p = Param(f, j)
  BY DEF IsParam
<1>2. p.func = f /\ p.index = j
  BY <1>1, ParamFields
<1>3. ASSUME NEW a \in NewParams(p)
      PROVE  /\ a = <<a[1], a[2]>> /\ a[1] \in DOMAIN program.calls
             /\ a[2] \in Indices(In(a[1])) /\ Followed(a) = Param(In(a[1]), a[2])
             /\ a[2] \in Args(a[1])[j].locals /\ To(a[1]) = f
  <2>1. PICK c, i : /\ c \in DOMAIN program.calls
                    /\ i \in Indices(In(c)) \cap Args(c)[j].locals
                    /\ To(c) = f /\ a = <<c, i>>
    BY <1>2, NewParamsAre
  <2>2. a[1] = c /\ a[2] = i
    BY <2>1
  <2>3. c # 0
    BY <2>1, CallShape
  <2> QED
    BY <2>1, <2>2, <2>3 DEF Followed
<1>4. ASSUME NEW q, <<q, p>> \in Flows
      PROVE  \E a \in NewParams(p) : Followed(a) = q
  <2>1. PICK c, k, i : /\ c \in DOMAIN program.calls /\ k \in DOMAIN Args(c)
                       /\ i \in Indices(In(c)) \cap Args(c)[k].locals
                       /\ <<q, p>> = <<Param(In(c), i), Param(To(c), k)>>
    BY <1>4, FlowsAre
  <2>2. q = Param(In(c), i) /\ p = Param(To(c), k)
    BY <2>1
  <2>3. p.func = To(c) /\ p.index = k
    BY <2>2, ParamFields
  <2>4. <<c, i>> \in NewParams(p)
    <3>1. To(c) = p.func /\ i \in Indices(In(c)) \cap Args(c)[p.index].locals
      BY <2>1, <2>3
    <3> QED
      BY <2>1, <3>1, NewParamsAre
  <2>5. Followed(<<c, i>>) = q
    BY <1>3, <2>2, <2>4
  <2> QED
    BY <2>4, <2>5
<1>5. ASSUME NEW a \in NewParams(p)
      PROVE  <<Followed(a), p>> \in Flows
  <2>1. j \in DOMAIN Args(a[1])
    BY <1>1, <1>3, CallShape
  <2>2. p = Param(To(a[1]), j)
    BY <1>1, <1>3
  <2> QED
    BY <1>3, <2>1, <2>2, FlowsAre
<1> QED
  BY <1>3, <1>4, <1>5

\* Reach is the least set that has p and all that flows into it.
LEMMA ReachClosed ==
  ASSUME NEW p
  PROVE  /\ p \in Reach(p)
         /\ \A q, r : r \in Reach(p) /\ <<q, r>> \in Flows => q \in Reach(p)
<1>1. p \in Reach(p)
  BY DEF Reach
<1>2. ASSUME NEW q, NEW r, r \in Reach(p), <<q, r>> \in Flows
      PROVE  q \in Reach(p)
  <2> DEFINE origins == {flow[1] : flow \in Flows}
             closed == {S \in {T \cup {p} : T \in SUBSET origins} :
                          \A flow \in Flows : flow[2] \in S => flow[1] \in S}
  <2>1. Reach(p) = {x \in origins \cup {p} : \A S \in closed : x \in S}
    BY DEF Reach
  <2>2. q \in origins
    BY <1>2
  <2>3. ASSUME NEW S \in closed PROVE q \in S
    <3>1. r \in S
      BY <1>2, <2>1
    <3> QED
      BY <1>2, <3>1
  <2> HIDE DEF origins, closed
  <2> QED
    BY <2>1, <2>2, <2>3
<1> QED
  BY <1>1, <1>2

LEMMA ReachLeast ==
  ASSUME NEW p, NEW S, p \in S, S \subseteq Reach(p),
         \A q, r : r \in S /\ <<q, r>> \in Flows => q \in S
  PROVE  Reach(p) \subseteq S
<1> DEFINE origins == {flow[1] : flow \in Flows}
           closed == {T \in {U \cup {p} : U \in SUBSET origins} :
                        \A flow \in Flows : flow[2] \in T => flow[1] \in T}
<1>1. Reach(p) = {x \in origins \cup {p} : \A T \in closed : x \in T}
  BY DEF Reach
<1>2. S \in {U \cup {p} : U \in SUBSET origins}
  <2>1. S \ {p} \in SUBSET origins
    <3> HIDE DEF origins, closed
    <3> QED
      BY <1>1
  <2>2. S = (S \ {p}) \cup {p}
    OBVIOUS
  <2> QED
    BY <2>1, <2>2
<1>3. ASSUME NEW flow \in Flows, flow[2] \in S
      PROVE  flow[1] \in S
  <2>1. flow = <<flow[1], flow[2]>>
    BY FlowsAre
  <2> QED
    BY <1>3, <2>1
<1>4. S \in closed
  <2> HIDE DEF origins
  <2> QED
    BY <1>2, <1>3
<1> QED
  <2> HIDE DEF origins, closed
  <2> QED
    BY <1>1, <1>4

-----------------------------------------------------------------------------
(* Types: what is asked is asked of parameters, and a search that runs follows  *)
(* parameters.                                                              *)

QueryNames == {"BOMemcpy", "DangerousFunctions", "FormatStrings", "TaintedFuncToFunc",
               "TaintedLocalToFunc"}
Pairs == Nat \X Nat
Question(a) == a \in Pairs /\ a[2] \in Indices(func)

\* Each call of isTainted but the first has marked a function when it began.
SearchTypes ==
  /\ visited \subseteq Funcs
  /\ frames \in Seq(SUBSET Pairs)
  /\ \A k \in DOMAIN frames : \A a \in frames[k] : IsParam(Followed(a))
  /\ Len(frames) <= Cardinality(visited) + 1

TaintTypes ==
  /\ program \in Programs
  /\ query \in Seq(QueryNames)
  /\ func \in Nat \ {0} /\ func <= Len(program.funcs) + 1
  /\ \A a \in todo : Question(a)
  /\ asked # NoPair => Question(asked)
  /\ asking => /\ query # <<>> /\ func \in Funcs
               /\ Head(query) \in {"TaintedLocalToFunc", "BOMemcpy"}
  /\ ~asking => todo = {} /\ asked = NoPair
  /\ asked = NoPair => frames = <<>>
  /\ SearchTypes

LEMMA SameProgram ==
  ASSUME program' = program, func' = func, NEW a
  PROVE  /\ Followed(a)' = Followed(a)
         /\ IsParam(Followed(a))' <=> IsParam(Followed(a))
         /\ Question(a)' <=> Question(a)
         /\ Funcs' = Funcs
BY DEF Followed, IsParam, Question, Param, In, Funcs, Indices

\* What a step of the search has above the calls that wait.
LEMMA LastFrame ==
  ASSUME NEW X, NEW stack \in Seq(SUBSET X), stack # <<>>
  PROVE  /\ Len(stack) \in Nat \ {0} /\ DOMAIN stack = 1..Len(stack)
         /\ Last(stack) = stack[Len(stack)] /\ Last(stack) \in SUBSET X
BY LastIsElement, LenProperties DEF Last

LEMMA OthersShape ==
  ASSUME frames \in Seq(SUBSET Pairs), frames # <<>>, NEW a
  PROVE  /\ Others(a) \in Seq(SUBSET Pairs) /\ Len(Others(a)) = Len(frames)
         /\ DOMAIN Others(a) = 1..Len(frames)
         /\ \A k \in 1 .. Len(frames) - 1 : Others(a)[k] = frames[k]
         /\ Others(a)[Len(frames)] = Last(frames) \ {a}
         /\ \A k \in 1..Len(frames) : Others(a)[k] \subseteq frames[k]
<1> DEFINE rest == frames[Len(frames)] \ {a}
<1>1. /\ Len(frames) \in Nat \ {0} /\ DOMAIN frames = 1..Len(frames)
      /\ Last(frames) = frames[Len(frames)] /\ Last(frames) \in SUBSET Pairs
  BY LastFrame
<1>2. Others(a) = [frames EXCEPT ![Len(frames)] = rest]
  BY DEF Others
<1>3. /\ rest \subseteq frames[Len(frames)] /\ rest = Last(frames) \ {a}
      /\ rest \in SUBSET Pairs
  BY <1>1
<1> HIDE DEF rest
<1>4. PICK n \in Nat \ {0} : n = Len(frames)
  BY <1>1
<1>5. /\ Others(a) \in Seq(SUBSET Pairs) /\ Len(Others(a)) = n
      /\ \A k \in 1..n : Others(a)[k] = IF k = n THEN rest ELSE frames[k]
  BY <1>1, <1>2, <1>3, <1>4, ExceptSeq
<1>6. DOMAIN Others(a) = 1..n
  BY <1>5, LenProperties
<1>7. n \in 1..n /\ \A k \in 1 .. n - 1 : k \in 1..n /\ k # n
  BY <1>4
<1>8. \A k \in 1 .. n - 1 : Others(a)[k] = frames[k]
  BY <1>5, <1>7
<1>9. Others(a)[n] = Last(frames) \ {a}
  BY <1>3, <1>5, <1>7
<1>10. ASSUME NEW k \in 1..n
       PROVE  Others(a)[k] \subseteq frames[k]
  <2>1. Others(a)[k] = IF k = n THEN rest ELSE frames[k]
    BY <1>5
  <2> QED
    BY <1>3, <1>4, <2>1
<1> QED
  BY <1>4, <1>5, <1>6, <1>8, <1>9, <1>10

LEMMA NewParamsTypes ==
  ASSUME program \in Programs, NEW p, IsParam(p)
  PROVE  NewParams(p) \in SUBSET Pairs /\ \A a \in NewParams(p) : IsParam(Followed(a))
<1> SUFFICES ASSUME NEW a \in NewParams(p)
             PROVE  a \in Pairs /\ IsParam(Followed(a))
  OBVIOUS
<1>1. /\ a = <<a[1], a[2]>> /\ a[1] \in DOMAIN program.calls
      /\ a[2] \in Indices(In(a[1])) /\ Followed(a) = Param(In(a[1]), a[2])
  BY FollowedFlows
<1>2. a[1] \in Nat /\ In(a[1]) \in Funcs
  BY <1>1, CallShape
<1>3. a[2] \in Nat
  BY <1>1, <1>2, ProgramShape
<1> QED
  BY <1>1, <1>2, <1>3 DEF Pairs, IsParam

\* The functions visited are finitely many.
LEMMA VisitedFinite ==
  ASSUME program \in Programs, visited \subseteq Funcs
  PROVE  /\ IsFiniteSet(Funcs) /\ IsFiniteSet(visited) /\ Cardinality(visited) \in Nat
         /\ Cardinality(Funcs) \in Nat /\ Cardinality(visited) <= Cardinality(Funcs)
<1>1. IsFiniteSet(Funcs)
  <2>1. Len(program.funcs) \in Nat /\ Funcs = 1 .. Len(program.funcs)
    BY ProgramShape
  <2> QED
    BY <2>1, FS_Interval
<1>2. IsFiniteSet(visited) /\ Cardinality(visited) <= Cardinality(Funcs)
  BY <1>1, FS_Subset
<1> QED
  BY <1>1, <1>2, FS_CardinalityType

LEMMA SearchTypesKept ==
  ASSUME TaintTypes, isTainted
  PROVE  SearchTypes'
<1>1. /\ UNCHANGED <<program, func>> /\ Running /\ frames # <<>>
      /\ program \in Programs /\ SearchTypes
  BY DEF isTainted, BeenThere, FoundSource, Recur, NoneLeft, Running, TaintTypes
<1>2. /\ Len(frames) \in Nat \ {0} /\ DOMAIN frames = 1..Len(frames)
      /\ Last(frames) = frames[Len(frames)]
      /\ frames \in Seq(SUBSET Pairs)
      /\ \A k \in DOMAIN frames : \A a \in frames[k] : IsParam(Followed(a))
  BY <1>1, LastFrame DEF SearchTypes
<1>3. /\ Cardinality(visited) \in Nat /\ Len(frames) <= Cardinality(visited) + 1
      /\ IsFiniteSet(visited)
  BY <1>1, VisitedFinite DEF SearchTypes
<1>4. ASSUME visited' \subseteq Funcs, frames' \in Seq(SUBSET Pairs),
             \A k \in DOMAIN frames' : \A a \in frames'[k] : IsParam(Followed(a)),
             Len(frames') <= Cardinality(visited') + 1
      PROVE  SearchTypes'
  BY <1>1, <1>4, SameProgram DEF SearchTypes
<1>5. CASE BeenThere
  <2>1. PICK a : frames' = Others(a) /\ visited' = visited
    BY <1>5 DEF BeenThere
  <2>2. /\ Others(a) \in Seq(SUBSET Pairs) /\ Len(Others(a)) = Len(frames)
        /\ DOMAIN Others(a) = 1..Len(frames)
        /\ \A k \in 1..Len(frames) : Others(a)[k] \subseteq frames[k]
    BY <1>1, <1>2, OthersShape
  <2> QED
    BY <1>1, <1>2, <1>3, <1>4, <2>1, <2>2 DEF SearchTypes
<1>6. CASE FoundSource
  <2>1. PICK a \in Last(frames) : visited' = visited \cup {Followed(a).func}
    BY <1>6 DEF FoundSource
  <2>2. IsParam(Followed(a))
    BY <1>2, <2>1
  <2>3. Followed(a).func \in Funcs
    BY <2>2, ParamFields DEF IsParam
  <2>4. visited' \subseteq Funcs
    BY <1>1, <2>1, <2>3 DEF SearchTypes
  <2>5. Cardinality(visited') \in Nat
    <3>1. IsFiniteSet(visited \cup {Followed(a).func})
      BY <1>3, FS_AddElement
    <3> QED
      BY <2>1, <3>1, FS_CardinalityType
  <2>6. frames' = <<>>
    BY <1>6 DEF FoundSource
  <2> QED
    BY <1>4, <2>4, <2>5, <2>6
<1>7. CASE Recur
  <2>1. PICK a \in Last(frames) : /\ Followed(a).func \notin visited
                                 /\ visited' = visited \cup {Followed(a).func}
                                 /\ frames' = Append(Others(a), NewParams(Followed(a)))
    BY <1>7 DEF Recur
  <2>2. IsParam(Followed(a))
    BY <1>2, <2>1
  <2>3. Followed(a).func \in Funcs
    BY <2>2, ParamFields DEF IsParam
  <2>4. visited' \subseteq Funcs
    BY <1>1, <2>1, <2>3 DEF SearchTypes
  <2>5. Cardinality(visited') = Cardinality(visited) + 1
    BY <1>3, <2>1, FS_AddElement
  <2>6. /\ Others(a) \in Seq(SUBSET Pairs) /\ Len(Others(a)) = Len(frames)
        /\ DOMAIN Others(a) = 1..Len(frames)
        /\ \A k \in 1..Len(frames) : Others(a)[k] \subseteq frames[k]
    BY <1>1, <1>2, OthersShape
  <2> DEFINE new == NewParams(Followed(a))
  <2>7. new \in SUBSET Pairs /\ \A b \in new : IsParam(Followed(b))
    BY <1>1, <2>2, NewParamsTypes
  <2> HIDE DEF new
  <2>8. /\ frames' \in Seq(SUBSET Pairs) /\ Len(frames') = Len(frames) + 1
        /\ \A k \in 1..Len(frames) : frames'[k] = Others(a)[k]
        /\ frames'[Len(frames) + 1] = new
    <3>1. frames' = Append(Others(a), new)
      BY <2>1 DEF new
    <3> QED
      BY <2>6, <2>7, <3>1, AppendIsSeq
  <2>9. DOMAIN frames' = 1 .. Len(frames) + 1
    BY <2>8, LenProperties
  <2>10. ASSUME NEW k \in DOMAIN frames', NEW b \in frames'[k]
         PROVE  IsParam(Followed(b))
    <3>1. CASE k \in 1..Len(frames)
      BY <1>2, <2>6, <2>8, <2>10, <3>1
    <3>2. CASE k = Len(frames) + 1
      BY <2>7, <2>8, <2>10, <3>2
    <3> QED
      BY <1>2, <2>9, <3>1, <3>2
  <2>11. Len(frames') <= Cardinality(visited') + 1
    BY <1>2, <1>3, <2>5, <2>8
  <2> QED
    BY <1>4, <2>4, <2>8, <2>10, <2>11
<1>8. CASE NoneLeft
  <2>1. visited' = visited /\ frames' = Front(frames)
    BY <1>8 DEF NoneLeft
  <2>2. /\ Front(frames) \in Seq(SUBSET Pairs) /\ Len(Front(frames)) = Len(frames) - 1
        /\ \A k \in 1 .. Len(frames) - 1 : Front(frames)[k] = frames[k]
    BY <1>1, <1>2, FrontIsSeq
  <2>3. DOMAIN frames' = 1 .. Len(frames) - 1
    BY <2>1, <2>2, LenProperties
  <2> QED
    BY <1>1, <1>2, <1>3, <1>4, <2>1, <2>2, <2>3 DEF SearchTypes
<1> QED
  BY <1>5, <1>6, <1>7, <1>8 DEF isTainted

-----------------------------------------------------------------------------
(* The search seen from outside: what is left to follow, in whatever call.  *)

Pending == UNION {frames[k] : k \in DOMAIN frames}

LEMMA PendingHas ==
  ASSUME NEW a
  PROVE  a \in Pending <=> \E k \in DOMAIN frames : a \in frames[k]
BY DEF Pending

LEMMA PendingHasNext ==
  ASSUME NEW a
  PROVE  a \in Pending' <=> \E k \in DOMAIN frames' : a \in frames'[k]
BY DEF Pending

LEMMA PendingParams ==
  ASSUME TaintTypes, NEW a, a \in Pending
  PROVE  IsParam(Followed(a))
BY PendingHas DEF TaintTypes, SearchTypes

\* A function it has been in is passed over.
LEMMA BeenThereStep ==
  ASSUME TaintTypes, BeenThere
  PROVE  \E a \in Pending :
           /\ Followed(a).func \in visited
           /\ Pending \ {a} \subseteq Pending' /\ Pending' \subseteq Pending
           /\ UNCHANGED <<visited, result>>
<1>1. PICK a : /\ a \in Last(frames) /\ Followed(a).func \in visited /\ frames' = Others(a)
               /\ UNCHANGED <<visited, result>> /\ frames # <<>>
  BY DEF BeenThere, Running
<1>2. /\ Len(frames) \in Nat \ {0} /\ DOMAIN frames = 1..Len(frames)
      /\ Last(frames) = frames[Len(frames)] /\ frames \in Seq(SUBSET Pairs)
  BY <1>1, LastFrame DEF TaintTypes, SearchTypes
<1>3. /\ DOMAIN Others(a) = 1..Len(frames)
      /\ \A k \in 1 .. Len(frames) - 1 : Others(a)[k] = frames[k]
      /\ Others(a)[Len(frames)] = Last(frames) \ {a}
      /\ \A k \in 1..Len(frames) : Others(a)[k] \subseteq frames[k]
  BY <1>1, <1>2, OthersShape
<1>4. PICK n \in Nat \ {0} : n = Len(frames)
  BY <1>2
<1>5. \A k \in 1..n : k \in 1 .. n - 1 \/ k = n
  BY <1>4
<1>6. ASSUME NEW b \in Pending, b # a
      PROVE  b \in Pending'
  <2>1. PICK k \in DOMAIN frames : b \in frames[k]
    BY <1>6, PendingHas
  <2>2. b \in Others(a)[k]
    BY <1>2, <1>3, <1>4, <1>5, <1>6, <2>1
  <2> QED
    BY <1>1, <1>2, <1>3, <2>1, <2>2, PendingHasNext
<1>7. ASSUME NEW b \in Pending'
      PROVE  b \in Pending
  <2>1. PICK k \in DOMAIN frames' : b \in frames'[k]
    BY <1>7, PendingHasNext
  <2> QED
    BY <1>1, <1>2, <1>3, <2>1, PendingHas
<1>8. a \in Pending
  <2>1. n \in DOMAIN frames /\ a \in frames[n]
    BY <1>1, <1>2, <1>4
  <2> QED
    BY <2>1, PendingHas
<1> QED
  BY <1>1, <1>6, <1>7, <1>8

\* A source ends the search.
LEMMA FoundSourceStep ==
  ASSUME TaintTypes, FoundSource
  PROVE  /\ frames' = <<>>
         /\ \E a \in Pending :
              /\ IsSource(Followed(a))
              /\ visited' = visited \cup {Followed(a).func} /\ result' = Followed(a)
<1>1. PICK a : /\ a \in Last(frames) /\ IsSource(Followed(a)) /\ result' = Followed(a)
               /\ visited' = visited \cup {Followed(a).func} /\ frames # <<>>
  BY DEF FoundSource, Running
<1>2. /\ Len(frames) \in Nat \ {0} /\ DOMAIN frames = 1..Len(frames)
      /\ Last(frames) = frames[Len(frames)]
  BY <1>1, LastFrame DEF TaintTypes, SearchTypes
<1>3. Len(frames) \in DOMAIN frames /\ a \in frames[Len(frames)]
  BY <1>1, <1>2
<1>4. a \in Pending
  BY <1>3, PendingHas
<1> QED
  BY <1>1, <1>4 DEF FoundSource

\* A parameter that is none is replaced by those that flow into it.
LEMMA RecurStep ==
  ASSUME TaintTypes, Recur
  PROVE  \E a \in Pending :
           /\ Followed(a).func \notin visited /\ ~IsSource(Followed(a))
           /\ (Pending \ {a}) \cup NewParams(Followed(a)) \subseteq Pending'
           /\ Pending' \subseteq Pending \cup NewParams(Followed(a))
           /\ visited' = visited \cup {Followed(a).func} /\ result' = result
<1>1. PICK a : /\ a \in Last(frames) /\ Followed(a).func \notin visited
               /\ ~IsSource(Followed(a)) /\ result' = result /\ frames # <<>>
               /\ visited' = visited \cup {Followed(a).func}
               /\ frames' = Append(Others(a), NewParams(Followed(a)))
  BY DEF Recur, Running
<1>2. /\ Len(frames) \in Nat \ {0} /\ DOMAIN frames = 1..Len(frames)
      /\ Last(frames) = frames[Len(frames)] /\ frames \in Seq(SUBSET Pairs)
  BY <1>1, LastFrame DEF TaintTypes, SearchTypes
<1>3. /\ Others(a) \in Seq(SUBSET Pairs) /\ Len(Others(a)) = Len(frames)
      /\ \A k \in 1 .. Len(frames) - 1 : Others(a)[k] = frames[k]
      /\ Others(a)[Len(frames)] = Last(frames) \ {a}
      /\ \A k \in 1..Len(frames) : Others(a)[k] \subseteq frames[k]
  BY <1>1, <1>2, OthersShape
<1>4. PICK n \in Nat \ {0} : n = Len(frames)
  BY <1>2
<1>5. /\ \A k \in 1..n : k \in 1 .. n - 1 \/ k = n
      /\ n \in 1..n /\ n + 1 \in 1 .. n + 1 /\ 1..n \subseteq 1 .. n + 1
      /\ \A k \in 1 .. n + 1 : k \in 1..n \/ k = n + 1
  BY <1>4
<1>6. a \in Pending
  BY <1>1, <1>2, <1>4, <1>5, PendingHas
<1> DEFINE new == NewParams(Followed(a))
<1>7. new \in SUBSET Pairs
  BY <1>6, PendingParams, NewParamsTypes DEF TaintTypes
<1>8. frames' = Append(Others(a), new)
  BY <1>1
<1> HIDE DEF new
<1>9. /\ frames' \in Seq(SUBSET Pairs) /\ Len(frames') = n + 1
      /\ \A k \in 1..n : frames'[k] = Others(a)[k]
      /\ frames'[n + 1] = new
  BY <1>3, <1>4, <1>7, <1>8, AppendIsSeq
<1>10. DOMAIN frames' = 1 .. n + 1
  BY <1>9, LenProperties
<1>11. ASSUME NEW b \in Pending, b # a
       PROVE  b \in Pending'
  <2>1. PICK k \in 1..n : b \in frames[k]
    BY <1>2, <1>4, PendingHas
  <2>2. b \in Others(a)[k]
    BY <1>2, <1>3, <1>4, <1>5, <1>11, <2>1
  <2> QED
    BY <1>5, <1>9, <1>10, <2>2, PendingHasNext
<1>12. new \subseteq Pending'
  BY <1>5, <1>9, <1>10, PendingHasNext
<1>13. ASSUME NEW b \in Pending', b \notin new
       PROVE  b \in Pending
  <2>1. PICK k \in 1 .. n + 1 : b \in frames'[k]
    BY <1>10, PendingHasNext
  <2>2. k \in 1..n /\ b \in frames[k]
    BY <1>3, <1>4, <1>5, <1>9, <1>13, <2>1
  <2> QED
    BY <1>2, <1>4, <2>2, PendingHas
<1>14. (Pending \ {a}) \cup new \subseteq Pending' /\ Pending' \subseteq Pending \cup new
  BY <1>11, <1>12, <1>13
<1> QED
  BY <1>1, <1>6, <1>14 DEF new

\* A call with nothing left returns.
LEMMA NoneLeftStep ==
  ASSUME TaintTypes, NoneLeft
  PROVE  Pending' = Pending /\ UNCHANGED <<visited, result>>
<1>1. /\ frames # <<>> /\ Last(frames) = {} /\ frames' = Front(frames)
      /\ UNCHANGED <<visited, result>>
  BY DEF NoneLeft, Running
<1>2. /\ Len(frames) \in Nat \ {0} /\ DOMAIN frames = 1..Len(frames)
      /\ Last(frames) = frames[Len(frames)] /\ frames \in Seq(SUBSET Pairs)
  BY <1>1, LastFrame DEF TaintTypes, SearchTypes
<1>3. PICK n \in Nat \ {0} : n = Len(frames)
  BY <1>2
<1>4. /\ Front(frames) \in Seq(SUBSET Pairs) /\ Len(Front(frames)) = n - 1
      /\ \A k \in 1 .. n - 1 : Front(frames)[k] = frames[k]
  BY <1>1, <1>2, <1>3, FrontIsSeq
<1>5. DOMAIN frames' = 1 .. n - 1
  BY <1>1, <1>4, LenProperties
<1>6. \A k \in 1..n : k \in 1 .. n - 1 \/ k = n
  BY <1>3
<1>7. 1 .. n - 1 \subseteq 1..n
  BY <1>3
<1>8. ASSUME NEW b
      PROVE  b \in Pending' <=> b \in Pending
  BY ZenonT(60), <1>1, <1>2, <1>3, <1>4, <1>5, <1>6, <1>7, PendingHas, PendingHasNext
<1> QED
  BY <1>1, <1>8

-----------------------------------------------------------------------------
(* Types are kept.                                                          *)

\* The actions that are done with a function.
Passing == \/ PassOver \/ DangerousFunctions \/ FormatStrings \/ TaintedFuncToFunc
           \/ TaintedLocalToFunc \/ BOMemcpy

LEMMA PassingDone ==
  ASSUME TaintTypes, Passing
  PROVE  /\ query # <<>> /\ func \in Funcs /\ todo = {} /\ asked = NoPair /\ frames = <<>>
         /\ asking => TaintedLocalToFunc \/ BOMemcpy
         /\ \E reports : Done(reports)
<1>1. /\ query # <<>> /\ func \in Funcs /\ todo = {} /\ asked = NoPair
      /\ asking => TaintedLocalToFunc \/ BOMemcpy
  BY DEF Passing, PassOver, DangerousFunctions, FormatStrings, TaintedFuncToFunc,
         TaintedLocalToFunc, BOMemcpy, Begins, Ends, At, TaintTypes
<1>2. ASSUME NEW r, Done(r)
      PROVE  \E reports : Done(reports)
  BY <1>2
<1>3. \E reports : Done(reports)
  BY <1>2 DEF Passing, PassOver, DangerousFunctions, FormatStrings, TaintedFuncToFunc,
              TaintedLocalToFunc, BOMemcpy
<1> QED
  BY <1>1, <1>3 DEF TaintTypes

LEMMA TypesIfIdle ==
  ASSUME TaintTypes, UNCHANGED <<program, query>>, func' \in Nat \ {0},
         func' <= Len(program.funcs) + 1, todo' = {}, asked' = NoPair, ~asking',
         frames' = <<>>, visited' = visited
  PROVE  TaintTypes'
<1>1. frames' \in Seq(SUBSET Pairs) /\ DOMAIN frames' = {} /\ Len(frames') = 0
  OBVIOUS
<1>2. Cardinality(visited) \in Nat /\ visited \subseteq Funcs
  BY VisitedFinite DEF TaintTypes, SearchTypes
<1>3. Funcs' = Funcs
  BY DEF Funcs
<1>4. SearchTypes'
  BY <1>1, <1>2, <1>3 DEF SearchTypes
<1> QED
  BY <1>4 DEF TaintTypes

LEMMA TypesAtFirst ==
  ASSUME TInit
  PROVE  TaintTypes
<1>1. /\ program \in Programs /\ frames = <<>> /\ visited = {} /\ ~asking
      /\ todo = {} /\ asked = NoPair /\ func = 1
  BY DEF TInit
<1>2. query \in Seq(QueryNames)
  BY DEF TInit, QueryNames
<1>3. Len(program.funcs) \in Nat
  BY <1>1, ProgramShape
<1>4. Cardinality(visited) = 0
  BY <1>1, FS_EmptySet
<1>5. frames \in Seq(SUBSET Pairs) /\ DOMAIN frames = {} /\ Len(frames) = 0
  BY <1>1
<1>6. SearchTypes
  BY <1>1, <1>4, <1>5 DEF SearchTypes
<1> QED
  BY <1>1, <1>2, <1>3, <1>6 DEF TaintTypes

\* The parameters that BOMemcpy asks of are those of the function it is at.
LEMMA QuestionsOfParams ==
  ASSUME program \in Programs, func \in Funcs
  PROVE  /\ \A i \in Indices(func) : Question(<<0, i>>)
         /\ \A c \in DOMAIN program.calls : \A i \in Indices(func) : Question(<<c, i>>)
<1>1. Indices(func) \subseteq Nat
  BY ProgramShape
<1>2. DOMAIN program.calls \subseteq Nat
  BY CallShape
<1> QED
  BY <1>1, <1>2 DEF Question, Pairs

LEMMA TypesKeptAsking ==
  ASSUME TaintTypes, Ask
  PROVE  TaintTypes'
<1>1. PICK a \in todo : /\ asked' = a /\ todo' = todo \ {a} /\ frames' = <<{<<0, a[2]>>}>>
                        /\ visited' = {} /\ UNCHANGED <<program, query, func, asking>>
                        /\ asking
  BY DEF Ask
<1>2. /\ Question(a) /\ a[2] \in Indices(func) /\ func \in Funcs /\ <<0, a[2]>> \in Pairs
      /\ program \in Programs
  BY <1>1 DEF TaintTypes, Question, Pairs
<1> DEFINE first == {<<0, a[2]>>}
<1>3. first \in SUBSET Pairs /\ \A b \in first : IsParam(Followed(b))
  BY <1>2 DEF IsParam, Followed
<1>4. frames' = <<first>>
  BY <1>1
<1> HIDE DEF first
<1>5. frames' \in Seq(SUBSET Pairs) /\ Len(frames') = 1 /\ frames'[1] = first
  BY <1>3, <1>4
<1>6. DOMAIN frames' = 1..1
  BY <1>5, LenProperties
<1>7. Cardinality(visited') = 0
  BY <1>1, FS_EmptySet
<1>8. \A b : IsParam(Followed(b))' <=> IsParam(Followed(b))
  BY <1>1, SameProgram
<1>9. SearchTypes'
  BY <1>1, <1>3, <1>5, <1>6, <1>7, <1>8 DEF SearchTypes
<1>10. \A b : Question(b)' <=> Question(b)
  BY <1>1, SameProgram
<1>11. asked' # NoPair
  BY <1>1, <1>2, ProgramShape DEF NoPair
<1> QED
  BY <1>1, <1>2, <1>9, <1>10, <1>11 DEF TaintTypes, Funcs

LEMMA TypesKept ==
  ASSUME TaintTypes, [TNext]_taintVars
  PROVE  TaintTypes'
<1>1. /\ program \in Programs /\ Len(program.funcs) \in Nat
      /\ Funcs = 1 .. Len(program.funcs)
  BY ProgramShape DEF TaintTypes
<1>2. CASE isTainted
  <2>1. UNCHANGED <<program, query, func, asking, todo, asked>> /\ frames # <<>>
    BY <1>2 DEF isTainted, BeenThere, FoundSource, Recur, NoneLeft, Running
  <2>2. SearchTypes'
    BY <1>2, SearchTypesKept
  <2>3. \A b : Question(b)' <=> Question(b)
    BY <2>1, SameProgram
  <2> QED
    BY <2>1, <2>2, <2>3 DEF TaintTypes, Funcs
<1>3. CASE Ask
  BY <1>3, TypesKeptAsking
<1>4. CASE AnswerLocalToFunc \/ AnswerBOMemcpy
  <2>1. /\ UNCHANGED <<program, query, func, asking, frames, visited>> /\ frames = <<>>
        /\ todo' \subseteq todo /\ asked' = NoPair /\ asked # NoPair
    BY <1>4 DEF AnswerLocalToFunc, AnswerBOMemcpy, Running, searching
  <2>2. \A b : Question(b)' <=> Question(b)
    BY <2>1, SameProgram
  <2>3. SearchTypes'
    BY <2>1, SameProgram DEF TaintTypes, SearchTypes
  <2> QED
    BY <2>1, <2>2, <2>3 DEF TaintTypes, Funcs
<1>5. CASE BeginTaintedLocalToFunc \/ BeginBOMemcpy
  <2>1. /\ UNCHANGED <<program, query, func, asked, frames, visited>>
        /\ ~asking /\ asking' = TRUE /\ query # <<>> /\ func \in Funcs
        /\ Head(query) \in {"TaintedLocalToFunc", "BOMemcpy"}
    BY <1>5 DEF BeginTaintedLocalToFunc, BeginBOMemcpy, Begins, At, searching
  <2>2. \A a \in todo' : Question(a)
    <3>1. CASE BeginTaintedLocalToFunc
      BY <1>1, <2>1, <3>1, QuestionsOfParams DEF BeginTaintedLocalToFunc
    <3>2. CASE BeginBOMemcpy
      BY <1>1, <2>1, <3>2, QuestionsOfParams DEF BeginBOMemcpy, CallsOf
    <3> QED
      BY <1>5, <3>1, <3>2
  <2>3. \A b : Question(b)' <=> Question(b)
    BY <2>1, SameProgram
  <2>4. SearchTypes'
    BY <2>1, SameProgram DEF TaintTypes, SearchTypes
  <2> QED
    BY <2>1, <2>2, <2>3, <2>4 DEF TaintTypes, Funcs
<1>6. CASE Passing
  <2>1. /\ func \in Funcs /\ todo = {} /\ asked = NoPair /\ frames = <<>>
        /\ \E reports : Done(reports)
    BY <1>6, PassingDone
  <2>2. /\ UNCHANGED <<program, query, todo, asked, frames, visited>>
        /\ func' = func + 1 /\ ~asking'
    BY <2>1 DEF Done, searching
  <2>3. func' \in Nat \ {0} /\ func' <= Len(program.funcs) + 1
    BY <1>1, <2>1, <2>2
  <2> QED
    BY <2>1, <2>2, <2>3, TypesIfIdle
<1>7. CASE NextQuery
  <2>1. /\ query # <<>> /\ query' = Tail(query) /\ func' = 1 /\ func \notin Funcs
        /\ UNCHANGED <<program, asking, todo, asked, frames, visited>>
    BY <1>7 DEF NextQuery, searching
  <2>2. ~asking /\ frames = <<>> /\ todo = {} /\ asked = NoPair
    BY <2>1 DEF TaintTypes
  <2>3. query' \in Seq(QueryNames)
    BY <2>1 DEF TaintTypes
  <2>4. SearchTypes'
    BY <2>1, <2>2 DEF TaintTypes, SearchTypes, Funcs
  <2> QED
    BY <1>1, <2>1, <2>2, <2>3, <2>4 DEF TaintTypes
<1>8. CASE UNCHANGED taintVars
  <2>1. UNCHANGED <<program, query, func, asking, todo, asked, frames, visited>>
    BY <1>8 DEF taintVars
  <2>2. \A b : Question(b)' <=> Question(b)
    BY <2>1, SameProgram
  <2>3. SearchTypes'
    BY <2>1, SameProgram DEF TaintTypes, SearchTypes
  <2> QED
    BY <2>1, <2>2, <2>3 DEF TaintTypes, Funcs
<1> QED
  BY <1>2, <1>3, <1>4, <1>5, <1>6, <1>7, <1>8 DEF TNext, Passing

THEOREM TaintTypesAlways == TSpec => []TaintTypes
<1>1. TInit => TaintTypes
  BY TypesAtFirst
<1>2. TaintTypes /\ [TNext]_taintVars => TaintTypes'
  BY TypesKept
<1> QED
  BY <1>1, <1>2, PTL DEF TSpec

\* However the functions call each other, isTainted's recursion is no deeper than
\* there are functions: of the calls that wait each has marked one of its own.
THEOREM RecursionIsBounded == TSpec => []RecursionBounded
<1>1. TaintTypes => RecursionBounded
  <2> SUFFICES ASSUME TaintTypes PROVE RecursionBounded
    OBVIOUS
  <2>1. /\ Cardinality(visited) \in Nat /\ Cardinality(Funcs) \in Nat
        /\ Cardinality(visited) <= Cardinality(Funcs)
        /\ Len(frames) <= Cardinality(visited) + 1
    BY VisitedFinite DEF TaintTypes, SearchTypes
  <2>2. Len(frames) \in Nat
    BY LenProperties DEF TaintTypes, SearchTypes
  <2> QED
    BY <2>1, <2>2 DEF RecursionBounded
<1> QED
  BY <1>1, TaintTypesAlways, PTL

-----------------------------------------------------------------------------
(* TaintIsReal.                                                             *)

LEMMA SameReach ==
  ASSUME program' = program, NEW p
  PROVE  Reach(p)' = Reach(p) /\ (IsSource(p)' <=> IsSource(p)) /\ Flows' = Flows
<1>1. Flows' = Flows
  BY DEF Flows, In, To, Args, Indices
<1>2. IsSource(p)' <=> IsSource(p)
  BY DEF IsSource, config
<1>3. Reach(p)' = Reach(p)
  BY <1>1 DEF Reach
<1> QED
  BY <1>1, <1>2, <1>3

\* Of the report v.
Real(v) ==
  v.from # None =>
    /\ v.local \in LocalsInto(v.call)
    /\ IsSource(v.from) /\ v.from \in Reach(Param(In(v.call), v.local))

LEMMA SameReal ==
  ASSUME program' = program, NEW v
  PROVE  Real(v)' <=> Real(v)
<1>1. /\ IsSource(v.from)' <=> IsSource(v.from)
      /\ Reach(Param(In(v.call), v.local))' = Reach(Param(In(v.call), v.local))
  BY SameReach DEF In, Param
<1>2. LocalsInto(v.call)' = LocalsInto(v.call) /\ None' = None
  BY DEF LocalsInto, Args, None, Param
<1> QED
  BY <1>1, <1>2 DEF Real

\* The parameter that is asked of.
Root == Param(func, asked[2])

\* The search follows and returns what its parameter is reached from, and what is
\* kept of the answers was returned.
SearchSound ==
  asked # NoPair => /\ \A a \in Pending : Followed(a) \in Reach(Root)
                    /\ result # None => IsSource(result) /\ result \in Reach(Root)
QuestionSound(a) ==
  a # NoPair => a[1] \in DOMAIN program.calls /\ In(a[1]) = func /\ a[2] \in LocalsInto(a[1])
QuestionsSound ==
  asking /\ Head(query) = "BOMemcpy" => \A a \in todo \cup {asked} : QuestionSound(a)
ParamsSound ==
  asking /\ Head(query) = "TaintedLocalToFunc" =>
    /\ DOMAIN taintedParams = Indices(func)
    /\ \A i \in Indices(func) :
         taintedParams[i] # None => /\ IsSource(taintedParams[i])
                                    /\ taintedParams[i] \in Reach(Param(func, i))
SoundInv == TaintIsReal /\ SearchSound /\ QuestionsSound /\ ParamsSound

LEMMA SameSound ==
  ASSUME UNCHANGED <<program, func, query, asking>>
  PROVE  /\ \A a : QuestionSound(a)' <=> QuestionSound(a)
         /\ \A a : Followed(a)' = Followed(a)
         /\ \A p : Reach(p)' = Reach(p) /\ (IsSource(p)' <=> IsSource(p))
         /\ (todo' \subseteq todo /\ asked' \in todo \cup {asked, NoPair} /\ QuestionsSound)
            => QuestionsSound'
         /\ taintedParams' = taintedParams /\ ParamsSound => ParamsSound'
<1>1. ASSUME NEW a PROVE QuestionSound(a)' <=> QuestionSound(a)
  BY DEF QuestionSound, LocalsInto, In, Args, NoPair
<1>2. ASSUME NEW p PROVE Reach(p)' = Reach(p) /\ (IsSource(p)' <=> IsSource(p))
  BY SameReach
<1>3. ASSUME NEW a PROVE Followed(a)' = Followed(a)
  BY SameProgram
<1>4. ASSUME todo' \subseteq todo, asked' \in todo \cup {asked, NoPair}, QuestionsSound
      PROVE  QuestionsSound'
  BY <1>1, <1>4 DEF QuestionsSound, QuestionSound
<1>5. ASSUME taintedParams' = taintedParams, ParamsSound
      PROVE  ParamsSound'
  <2>1. \A f, i : Reach(Param(f, i))' = Reach(Param(f, i))
    BY <1>2 DEF Param
  <2> QED
    BY <1>2, <1>5, <2>1 DEF ParamsSound, Indices, None, Param
<1> QED
  BY <1>1, <1>2, <1>3, <1>4, <1>5

LEMMA TaintIsRealKept ==
  ASSUME TaintIsReal, program' = program, \A v \in vulns' : v \in vulns \/ Real(v)
  PROVE  TaintIsReal'
<1>1. \A v : Real(v)' <=> Real(v)
  BY SameReal
<1>2. \A v \in vulns' : Real(v)
  BY DEF TaintIsReal, Real
<1> QED
  BY <1>1, <1>2 DEF TaintIsReal, Real

LEMMA SearchSoundKept ==
  ASSUME TaintTypes, SearchSound, isTainted
  PROVE  SearchSound'
<1>1. UNCHANGED <<program, func, query, asking, asked>> /\ program \in Programs
  BY DEF isTainted, TaintTypes
<1>2. /\ \A a : Followed(a)' = Followed(a)
      /\ \A p : Reach(p)' = Reach(p) /\ (IsSource(p)' <=> IsSource(p))
      /\ Root' = Root /\ None' = None /\ NoPair' = NoPair
  BY <1>1, SameSound DEF Root, None, NoPair, Param
<1> SUFFICES ASSUME asked # NoPair
             PROVE  /\ \A a \in Pending' : Followed(a) \in Reach(Root)
                    /\ result' # None => IsSource(result') /\ result' \in Reach(Root)
  BY <1>1, <1>2 DEF SearchSound
<1>3. /\ \A a \in Pending : Followed(a) \in Reach(Root)
      /\ result # None => IsSource(result) /\ result \in Reach(Root)
  BY DEF SearchSound
<1>4. CASE BeenThere
  BY <1>3, <1>4, BeenThereStep
<1>5. CASE FoundSource
  <2>1. /\ frames' = <<>>
        /\ \E a \in Pending : IsSource(Followed(a)) /\ result' = Followed(a)
    BY <1>5, FoundSourceStep
  <2>2. Pending' = {}
    BY <2>1, PendingHasNext
  <2> QED
    BY <1>3, <2>1, <2>2
<1>6. CASE Recur
  <2>1. PICK a \in Pending : Pending' \subseteq Pending \cup NewParams(Followed(a))
    BY <1>6, RecurStep
  <2>2. IsParam(Followed(a))
    BY <2>1, PendingParams
  <2>3. ASSUME NEW b \in NewParams(Followed(a))
        PROVE  Followed(b) \in Reach(Root)
    <3>1. <<Followed(b), Followed(a)>> \in Flows
      BY <1>1, <2>2, <2>3, FollowedFlows
    <3>2. Followed(a) \in Reach(Root)
      BY <1>3
    <3> QED
      BY <3>1, <3>2, ReachClosed
  <2>4. result' = result
    BY <1>6 DEF Recur
  <2> QED
    BY <1>3, <2>1, <2>3, <2>4
<1>7. CASE NoneLeft
  BY <1>3, <1>7, NoneLeftStep
<1> QED
  BY <1>4, <1>5, <1>6, <1>7 DEF isTainted

LEMMA SearchSoundAtFirst ==
  ASSUME TaintTypes, Ask
  PROVE  SearchSound'
<1>1. PICK a \in todo : /\ asked' = a /\ frames' = <<{<<0, a[2]>>}>> /\ result' = None
                        /\ func' = func
  BY DEF Ask
<1>2. DOMAIN frames' = {1} /\ frames'[1] = {<<0, a[2]>>}
  BY <1>1
<1>3. Pending' = {<<0, a[2]>>}
  BY <1>2, PendingHasNext
<1>4. Followed(<<0, a[2]>>)' = Root'
  BY <1>1 DEF Followed, Root, Param
<1>5. Root' \in Reach(Root)'
  BY DEF Reach
<1>6. result' = None'
  BY <1>1 DEF None, Param
<1>7. \A b \in Pending' : b = <<0, a[2]>>
  BY <1>3
<1>8. \A b \in Pending' : Followed(b)' \in Reach(Root)'
  BY <1>4, <1>5, <1>7 DEF Followed
<1> QED
  BY <1>6, <1>8 DEF SearchSound

LEMMA SoundAsking ==
  ASSUME TaintTypes, SoundInv, Ask
  PROVE  SoundInv'
<1>1. /\ UNCHANGED <<program, func, query, asking, taintedParams, vulns>>
      /\ todo' \subseteq todo /\ asked' \in todo
  BY DEF Ask
<1>2. QuestionsSound' /\ ParamsSound'
  BY <1>1, SameSound DEF SoundInv
<1>3. TaintIsReal'
  BY <1>1, TaintIsRealKept DEF SoundInv
<1> QED
  BY <1>2, <1>3, SearchSoundAtFirst DEF SoundInv

LEMMA SoundAnswerLocalToFunc ==
  ASSUME TaintTypes, SoundInv, AnswerLocalToFunc
  PROVE  SoundInv'
<1>1. /\ UNCHANGED <<program, func, query, asking, todo, vulns>> /\ asked' = NoPair
      /\ taintedParams' = [taintedParams EXCEPT ![asked[2]] = result]
      /\ asked # NoPair /\ Head(query) = "TaintedLocalToFunc"
  BY DEF AnswerLocalToFunc, At
<1>2. /\ \A p : Reach(p)' = Reach(p) /\ (IsSource(p)' <=> IsSource(p))
      /\ QuestionsSound'
  BY <1>1, SameSound DEF SoundInv
<1>3. TaintIsReal' /\ SearchSound'
  BY <1>1, TaintIsRealKept DEF SoundInv, SearchSound, NoPair
<1>4. ASSUME asking
      PROVE  /\ DOMAIN taintedParams' = Indices(func)
             /\ \A i \in Indices(func) :
                  taintedParams'[i] # None =>
                    /\ IsSource(taintedParams'[i])
                    /\ taintedParams'[i] \in Reach(Param(func, i))
  <2>1. /\ DOMAIN taintedParams = Indices(func)
        /\ \A i \in Indices(func) :
             taintedParams[i] # None => /\ IsSource(taintedParams[i])
                                        /\ taintedParams[i] \in Reach(Param(func, i))
    BY <1>1, <1>4 DEF SoundInv, ParamsSound
  <2>2. result # None => IsSource(result) /\ result \in Reach(Param(func, asked[2]))
    BY <1>1 DEF SoundInv, SearchSound, Root
  <2>3. /\ DOMAIN taintedParams' = DOMAIN taintedParams
        /\ \A i \in DOMAIN taintedParams :
             taintedParams'[i] = IF i = asked[2] THEN result ELSE taintedParams[i]
    BY <1>1
  <2> QED
    BY <2>1, <2>2, <2>3
<1>5. ParamsSound'
  <2>1. /\ Indices(func)' = Indices(func) /\ None' = None
        /\ \A i : Param(func, i)' = Param(func, i)
    BY <1>1 DEF Indices, None, Param
  <2>2. \A i : Reach(Param(func, i))' = Reach(Param(func, i))
    BY <1>1, SameReach DEF Param
  <2> QED
    BY <1>1, <1>2, <1>4, <2>1, <2>2 DEF ParamsSound
<1> QED
  BY <1>2, <1>3, <1>5 DEF SoundInv

LEMMA SoundAnswerBOMemcpy ==
  ASSUME TaintTypes, SoundInv, AnswerBOMemcpy
  PROVE  SoundInv'
<1>1. /\ UNCHANGED <<program, func, query, asking, taintedParams>> /\ asked' = NoPair
      /\ todo' \subseteq todo /\ asked # NoPair /\ Head(query) = "BOMemcpy"
      /\ \A v \in vulns' : \/ v \in vulns
                           \/ v = Report("Memcpy", asked[1], asked[2], result)
      /\ result = None => vulns' = vulns
  BY DEF AnswerBOMemcpy, At
<1>2. QuestionsSound' /\ ParamsSound'
  BY <1>1, SameSound DEF SoundInv
<1>3. SearchSound'
  BY <1>1 DEF SearchSound, NoPair
<1>4. asking
  BY <1>1 DEF TaintTypes
<1>5. asked[1] \in DOMAIN program.calls /\ In(asked[1]) = func
      /\ asked[2] \in LocalsInto(asked[1])
  BY <1>1, <1>4 DEF SoundInv, QuestionsSound, QuestionSound
<1>6. Real(Report("Memcpy", asked[1], asked[2], result))
  <2>1. result # None => IsSource(result) /\ result \in Reach(Param(func, asked[2]))
    BY <1>1 DEF SoundInv, SearchSound, Root
  <2> DEFINE v == Report("Memcpy", asked[1], asked[2], result)
  <2>2. v.call = asked[1] /\ v.local = asked[2] /\ v.from = result
    BY DEF Report
  <2> HIDE DEF v
  <2>3. Real(v)
    BY <1>5, <2>1, <2>2 DEF Real
  <2> QED
    BY <2>3 DEF v
<1>7. TaintIsReal'
  BY <1>1, <1>6, TaintIsRealKept DEF SoundInv
<1> QED
  BY <1>2, <1>3, <1>7 DEF SoundInv

LEMMA SoundBegins ==
  ASSUME TaintTypes, SoundInv, BeginTaintedLocalToFunc \/ BeginBOMemcpy
  PROVE  SoundInv'
<1>1. /\ UNCHANGED <<program, func, query, asked, vulns>> /\ ~asking /\ func \in Funcs
  BY DEF BeginTaintedLocalToFunc, BeginBOMemcpy, Begins, At
<1>2. asked = NoPair /\ program \in Programs
  BY <1>1 DEF TaintTypes
<1>3. TaintIsReal' /\ SearchSound'
  BY <1>1, <1>2, TaintIsRealKept DEF SoundInv, SearchSound, NoPair
<1>4. CASE BeginTaintedLocalToFunc
  <2>1. /\ taintedParams' = [i \in Indices(func) |-> None]
        /\ Head(query) = "TaintedLocalToFunc"
    BY <1>4 DEF BeginTaintedLocalToFunc, Begins, At
  <2>2. ParamsSound'
    BY <1>1, <2>1 DEF ParamsSound, Indices, None, Param
  <2>3. QuestionsSound'
    BY <1>1, <2>1 DEF QuestionsSound
  <2> QED
    BY <1>3, <2>2, <2>3 DEF SoundInv
<1>5. CASE BeginBOMemcpy
  <2>1. Head(query) = "BOMemcpy"
    BY <1>5 DEF BeginBOMemcpy, Begins, At
  <2>2. ASSUME NEW a \in todo'
        PROVE  QuestionSound(a)
    <3>1. PICK c, i : /\ c \in CallsOf(func, config.boMemcpy)
                      /\ i \in Indices(func) \cap Args(c)[2].locals /\ a = <<c, i>>
      BY <1>5, <2>2 DEF BeginBOMemcpy
    <3>2. c \in DOMAIN program.calls /\ In(c) = func /\ To(c) \in config.boMemcpy
      BY <3>1 DEF CallsOf
    <3>3. 2 \in DOMAIN Args(c)
      BY <1>2, <3>2, CallShape
    <3>4. i \in LocalsInto(c)
      BY <3>1, <3>3 DEF LocalsInto, ToSet
    <3> QED
      BY <3>1, <3>2, <3>4 DEF QuestionSound
  <2>3. \A a : QuestionSound(a)' <=> QuestionSound(a)
    BY <1>1 DEF QuestionSound, LocalsInto, In, Args, NoPair
  <2>4. QuestionsSound'
    BY <1>1, <1>2, <2>2, <2>3 DEF QuestionsSound, QuestionSound
  <2>5. ParamsSound'
    BY <1>1, <2>1 DEF ParamsSound
  <2> QED
    BY <1>3, <2>4, <2>5 DEF SoundInv
<1> QED
  BY <1>4, <1>5

\* What is reported of a call of a sink is what isTainted has answered.
LEMMA ReportsReal ==
  ASSUME TaintTypes, SoundInv, Passing
  PROVE  \E reports : Done(reports) /\ \A v \in reports : Real(v)
<1>1. ASSUME NEW r, Done(r), \A v \in r : v.from = None
      PROVE  \E reports : Done(reports) /\ \A v \in reports : Real(v)
  BY <1>1 DEF Real
<1>2. \A type, c, i, p : /\ Report(type, c, i, p).call = c
                         /\ Report(type, c, i, p).local = i
                         /\ Report(type, c, i, p).from = p
  BY DEF Report
<1>3. CASE PassOver \/ BOMemcpy
  BY <1>1, <1>3 DEF PassOver, BOMemcpy
<1>4. CASE DangerousFunctions
  <2> DEFINE r == {Report("DangFunc", c, 0, None) : c \in CallsOf(func, config.dangerousFunctions)}
  <2>1. Done(r)
    BY <1>4 DEF DangerousFunctions
  <2>2. \A v \in r : v.from = None
    BY <1>2
  <2> QED
    BY <1>1, <2>1, <2>2
<1>5. CASE FormatStrings
  <2> DEFINE F == config.formatString
             r == IF func \in config.ignore \cup DOMAIN F THEN {}
                  ELSE {Report("FormatStrings", c, 0, None) :
                          c \in {c \in CallsOf(func, DOMAIN F) : ~Args(c)[F[To(c)]].const}}
  <2>1. Done(r)
    BY <1>5 DEF FormatStrings
  <2>2. \A v \in r : v.from = None
    BY <1>2
  <2> QED
    BY <1>1, <2>1, <2>2
<1>6. CASE TaintedFuncToFunc
  <2> DEFINE r == IF func \in config.ignore \cup Sinks THEN {}
                  ELSE {Report("FuncToFunc", c, 0, None) :
                          c \in {c \in CallsOf(func, Sinks) :
                                   \E a \in ToSet(Args(c)) : a.funcs \cap Sources # {}}}
  <2>1. Done(r)
    BY <1>6 DEF TaintedFuncToFunc
  <2>2. \A v \in r : v.from = None
    BY <1>2
  <2> QED
    BY <1>1, <2>1, <2>2
<1>7. CASE TaintedLocalToFunc
  <2> DEFINE r == {Report("LocalToFunc", ci[1], ci[2], taintedParams[ci[2]]) :
                     ci \in {ci \in CallsOf(func, Sinks) \X Indices(func) :
                               ci[2] \in LocalsInto(ci[1]) /\ taintedParams[ci[2]] # None}}
  <2>1. Done(r) /\ asking /\ Head(query) = "TaintedLocalToFunc"
    BY <1>7 DEF TaintedLocalToFunc, Ends, At
  <2>2. ASSUME NEW v \in r
        PROVE  Real(v)
    <3>1. PICK ci : /\ ci \in CallsOf(func, Sinks) \X Indices(func)
                    /\ ci[2] \in LocalsInto(ci[1]) /\ taintedParams[ci[2]] # None
                    /\ v = Report("LocalToFunc", ci[1], ci[2], taintedParams[ci[2]])
      BY <2>2
    <3>2. In(ci[1]) = func /\ ci[2] \in Indices(func)
      BY <3>1 DEF CallsOf
    <3>3. v.call = ci[1] /\ v.local = ci[2] /\ v.from = taintedParams[ci[2]]
      BY <1>2, <3>1
    <3>4. /\ IsSource(taintedParams[ci[2]])
          /\ taintedParams[ci[2]] \in Reach(Param(func, ci[2]))
      BY <2>1, <3>1, <3>2 DEF SoundInv, ParamsSound
    <3> QED
      BY <3>1, <3>2, <3>3, <3>4 DEF Real
  <2> QED
    BY <2>1, <2>2
<1> QED
  BY <1>3, <1>4, <1>5, <1>6, <1>7 DEF Passing

LEMMA SoundKept ==
  ASSUME TaintTypes, SoundInv, [TNext]_taintVars
  PROVE  SoundInv'
<1>1. CASE isTainted
  <2>1. UNCHANGED <<program, func, query, asking, todo, asked, taintedParams, vulns>>
    BY <1>1 DEF isTainted
  <2> QED
    BY <1>1, <2>1, SearchSoundKept, SameSound, TaintIsRealKept DEF SoundInv
<1>2. CASE Passing
  <2>1. asked = NoPair
    BY <1>2, PassingDone
  <2>2. PICK reports : Done(reports) /\ \A v \in reports : Real(v)
    BY <1>2, ReportsReal
  <2>3. /\ UNCHANGED <<program, query, asked>> /\ ~asking' /\ vulns' = vulns \cup reports
    BY <2>2 DEF Done
  <2> QED
    BY <2>1, <2>2, <2>3, TaintIsRealKept
    DEF SoundInv, SearchSound, QuestionsSound, ParamsSound, NoPair
<1>3. CASE NextQuery
  <2>1. UNCHANGED <<program, asking, asked, vulns>> /\ func \notin Funcs
    BY <1>3 DEF NextQuery
  <2>2. ~asking /\ asked = NoPair
    BY <2>1 DEF TaintTypes
  <2> QED
    BY <2>1, <2>2, TaintIsRealKept
    DEF SoundInv, SearchSound, QuestionsSound, ParamsSound, NoPair
<1>4. CASE UNCHANGED taintVars
  <2>1. UNCHANGED <<program, func, query, asking, todo, asked, frames, result,
                    taintedParams, vulns>>
    BY <1>4 DEF taintVars
  <2>2. QuestionsSound' /\ ParamsSound' /\ TaintIsReal'
    BY <2>1, SameSound, TaintIsRealKept DEF SoundInv
  <2>3. /\ Pending' = Pending /\ Root' = Root /\ None' = None /\ NoPair' = NoPair
        /\ \A a : Followed(a)' = Followed(a)
        /\ \A p : Reach(p)' = Reach(p) /\ (IsSource(p)' <=> IsSource(p))
    BY <2>1, SameSound DEF Pending, Root, None, NoPair, Param
  <2>4. SearchSound'
    BY <2>1, <2>3 DEF SoundInv, SearchSound
  <2> QED
    BY <2>2, <2>4 DEF SoundInv
<1> QED
  BY <1>1, <1>2, <1>3, <1>4, SoundAsking, SoundAnswerLocalToFunc, SoundAnswerBOMemcpy,
     SoundBegins DEF TNext, Passing

\* Every taint reported comes into the program at the source named, and flows
\* through calls into an argument of the call reported.
THEOREM TaintIsAlwaysReal == TSpec => []TaintIsReal
<1>1. TInit => SoundInv
  BY DEF TInit, SoundInv, TaintIsReal, SearchSound, QuestionsSound, ParamsSound
<1>2. TaintTypes /\ SoundInv /\ [TNext]_taintVars => SoundInv'
  BY SoundKept
<1>3. SoundInv => TaintIsReal
  BY DEF SoundInv
<1> QED
  BY <1>1, <1>2, <1>3, TaintTypesAlways, PTL DEF TSpec

-----------------------------------------------------------------------------
(* NothingMissed.                                                           *)

\* isTainted has to find a source from p.
Must(p) == (\E q \in Reach(p) : IsSource(q)) /\ ~Blocked(p)

LEMMA SameMust ==
  ASSUME program' = program, NEW p
  PROVE  /\ Must(p)' <=> Must(p)
         /\ Blocked(p)' <=> Blocked(p)
BY SameReach DEF Must, Blocked

\* The search has been to the function of q, or is to follow q.
Covered(q) == q.func \in visited \/ \E a \in Pending : Followed(a) = q

\* While nothing is found: the search is to follow whatever flows into what it has
\* been to.
SearchComplete ==
  asked # NoPair /\ ~Blocked(Root) /\ result = None =>
    /\ Covered(Root)
    /\ \A r \in Reach(Root) : r.func \in visited =>
         ~IsSource(r) /\ \A q : <<q, r>> \in Flows => Covered(q)

LEMMA CoveredKept ==
  ASSUME TaintTypes, isTainted, ~FoundSource, NEW q, Covered(q)
  PROVE  Covered(q)'
<1>1. \A a : Followed(a)' = Followed(a)
  BY SameProgram DEF isTainted
<1> SUFFICES ASSUME q.func \notin visited'
             PROVE  \E a \in Pending' : Followed(a) = q
  BY <1>1 DEF Covered
<1>2. CASE BeenThere
  <2>1. PICK a \in Pending : /\ Followed(a).func \in visited /\ Pending \ {a} \subseteq Pending'
                             /\ visited' = visited
    BY <1>2, BeenThereStep
  <2>2. PICK b \in Pending : Followed(b) = q
    BY <2>1 DEF Covered
  <2>3. b # a
    BY <2>1, <2>2
  <2> QED
    BY <2>1, <2>2, <2>3
<1>3. CASE Recur
  <2>1. PICK a \in Pending : /\ (Pending \ {a}) \cup NewParams(Followed(a)) \subseteq Pending'
                             /\ visited' = visited \cup {Followed(a).func}
    BY <1>3, RecurStep
  <2>2. PICK b \in Pending : Followed(b) = q
    BY <2>1 DEF Covered
  <2>3. b # a
    BY <2>1, <2>2
  <2> QED
    BY <2>1, <2>2, <2>3
<1>4. CASE NoneLeft
  BY <1>4, NoneLeftStep DEF Covered
<1> QED
  BY <1>2, <1>3, <1>4 DEF isTainted

LEMMA SearchCompleteKept ==
  ASSUME TaintTypes, SearchSound, SearchComplete, isTainted
  PROVE  SearchComplete'
<1>1. UNCHANGED <<program, func, asked>> /\ program \in Programs
  BY DEF isTainted, TaintTypes
<1>2. /\ \A p : Reach(p)' = Reach(p) /\ (IsSource(p)' <=> IsSource(p)) /\ Flows' = Flows
      /\ \A p : Blocked(p)' <=> Blocked(p)
      /\ Root' = Root /\ None' = None /\ NoPair' = NoPair
  BY <1>1, SameReach, SameMust DEF Root, None, NoPair, Param
<1>3. PICK p : p = Root
  OBVIOUS
<1> SUFFICES ASSUME asked # NoPair, ~Blocked(p), result' = None
             PROVE  /\ Covered(p)'
                    /\ \A r \in Reach(p) : r.func \in visited' =>
                         ~IsSource(r) /\ \A q : <<q, r>> \in Flows => Covered(q)'
  <2>1. Root' = p
    BY <1>2, <1>3
  <2>2. Covered(Root)' <=> Covered(p)'
    BY <2>1 DEF Covered
  <2>3. Blocked(Root)' <=> Blocked(p)
    BY <1>2, <2>1
  <2>4. Reach(Root)' = Reach(p)
    BY <1>2, <2>1
  <2> QED
    BY <1>1, <1>2, <2>2, <2>3, <2>4 DEF SearchComplete
<1>4. ~FoundSource
  <2> SUFFICES ASSUME FoundSource PROVE FALSE
    OBVIOUS
  <2>1. PICK a \in Pending : result' = Followed(a)
    BY FoundSourceStep
  <2>2. PICK f, i : f \in Funcs /\ i \in Indices(f) /\ Followed(a) = Param(f, i)
    BY <2>1, PendingParams DEF IsParam
  <2>3. i # 0
    BY <1>1, <2>2, ProgramShape
  <2>4. Param(f, i).index # None.index
    BY <2>3, ParamFields DEF None
  <2> QED
    BY <2>1, <2>2, <2>4
<1>5. \A q : Covered(q) => Covered(q)'
  BY <1>4, CoveredKept
<1>6. /\ result = None
      /\ \A r \in visited' : r \in visited \/ Recur
  BY <1>4 DEF isTainted, BeenThere, Recur, NoneLeft
<1>7. /\ Covered(p)
      /\ \A r \in Reach(p) : r.func \in visited =>
           ~IsSource(r) /\ \A q : <<q, r>> \in Flows => Covered(q)
  BY <1>3, <1>6 DEF SearchComplete
<1>8. ASSUME NEW r \in Reach(p), r.func \in visited', r.func \notin visited
      PROVE  ~IsSource(r) /\ \A q : <<q, r>> \in Flows => Covered(q)'
  <2>1. PICK a \in Pending : /\ ~IsSource(Followed(a))
                             /\ NewParams(Followed(a)) \subseteq Pending'
                             /\ visited' = visited \cup {Followed(a).func}
    BY <1>6, <1>8, RecurStep
  <2>2. Followed(a) \in Reach(p)
    BY <1>3, <2>1 DEF SearchSound
  <2>3. r = Followed(a)
    BY <1>8, <2>1, <2>2 DEF Blocked
  <2>4. IsParam(r)
    BY <2>1, <2>3, PendingParams
  <2>5. \A q : Followed(q)' = Followed(q)
    BY <1>1, SameProgram
  <2>6. ASSUME NEW q, <<q, r>> \in Flows
        PROVE  Covered(q)'
    <3>1. PICK b \in NewParams(r) : Followed(b) = q
      BY <1>1, <2>4, <2>6, FollowedFlows
    <3> QED
      BY <2>1, <2>3, <2>5, <3>1 DEF Covered
  <2> QED
    BY <2>1, <2>3, <2>6
<1>9. ASSUME NEW r \in Reach(p), r.func \in visited
      PROVE  ~IsSource(r) /\ \A q : <<q, r>> \in Flows => Covered(q)'
  BY <1>5, <1>7, <1>9
<1>10. Covered(p)'
  BY <1>5, <1>7
<1> QED
  BY <1>8, <1>9, <1>10

LEMMA SearchCompleteAtFirst ==
  ASSUME TaintTypes, Ask
  PROVE  SearchComplete'
<1>1. PICK a \in todo : /\ asked' = a /\ frames' = <<{<<0, a[2]>>}>> /\ visited' = {}
                        /\ func' = func
  BY DEF Ask
<1>2. DOMAIN frames' = {1} /\ frames'[1] = {<<0, a[2]>>}
  BY <1>1
<1>3. <<0, a[2]>> \in Pending'
  BY <1>2, PendingHasNext
<1>4. Followed(<<0, a[2]>>)' = Root'
  BY <1>1 DEF Followed, Root, Param
<1>5. Covered(Root)'
  BY <1>3, <1>4 DEF Covered, Followed
<1> QED
  BY <1>1, <1>5 DEF SearchComplete

\* A search that has followed all that it had to has found what there is.
LEMMA SearchFinds ==
  ASSUME SearchComplete, asked # NoPair, frames = <<>>, Must(Root)
  PROVE  result # None
<1> SUFFICES ASSUME result = None PROVE FALSE
  OBVIOUS
<1>1. Pending = {}
  BY PendingHas
<1>2. /\ Root.func \in visited
      /\ \A r \in Reach(Root) : r.func \in visited =>
           ~IsSource(r) /\ \A q : <<q, r>> \in Flows => q.func \in visited
  BY <1>1 DEF SearchComplete, Covered, Must
<1> DEFINE S == {r \in Reach(Root) : r.func \in visited}
<1>3. Root \in S /\ S \subseteq Reach(Root)
  BY <1>2, ReachClosed
<1>4. \A q, r : r \in S /\ <<q, r>> \in Flows => q \in S
  BY <1>2, ReachClosed
<1>5. Reach(Root) \subseteq S
  <2> HIDE DEF S
  <2> QED
    BY <1>3, <1>4, ReachLeast
<1> QED
  BY <1>2, <1>5 DEF Must

LocalReported(c, i) == \E v \in vulns : v.type = "LocalToFunc" /\ v.call = c /\ v.local = i
CopyReported(c)     == \E v \in vulns : v.type = "Memcpy" /\ v.call = c

\* Of the function f the query has nothing left to report.
LocalsDone(f) ==
  f \notin config.ignore \cup Sinks =>
    \A c \in CallsOf(f, Sinks) : \A i \in LocalsInto(c) \cap Indices(f) :
      Must(Param(f, i)) => LocalReported(c, i)
CopiesDone(f) ==
  f \notin config.ignore \cup config.boMemcpy =>
    \A c \in CallsOf(f, config.boMemcpy) : \A i \in Args(c)[2].locals \cap Indices(f) :
      Args(c)[1].static /\ Must(Param(f, i)) => CopyReported(c)

\* While a query asks, what it must report is asked, to be asked, or known.
LocalsAsked ==
  asking /\ Head(query) = "TaintedLocalToFunc" =>
    \A i \in Indices(func) :
      Must(Param(func, i)) => <<0, i>> \in todo \/ asked = <<0, i>> \/ taintedParams[i] # None
CopiesAsked ==
  asking /\ Head(query) = "BOMemcpy" =>
    \A c \in CallsOf(func, config.boMemcpy) : \A i \in Args(c)[2].locals \cap Indices(func) :
      Args(c)[1].static /\ Must(Param(func, i)) =>
        <<c, i>> \in todo \/ asked = <<c, i>> \/ CopyReported(c)

\* The query q has been to the function f.
Over(q, f) == (\E k \in DOMAIN query : query[k] = q) => Head(query) = q /\ func > f
PastDone ==
  \A f \in Funcs : /\ Over("TaintedLocalToFunc", f) => LocalsDone(f)
                   /\ Over("BOMemcpy", f) => CopiesDone(f)

CompleteInv == SearchComplete /\ LocalsAsked /\ CopiesAsked /\ PastDone

LEMMA SameQuestions ==
  ASSUME program' = program, vulns \subseteq vulns'
  PROVE  /\ \A f, i : (Must(Param(f, i))' <=> Must(Param(f, i))) /\ Indices(f)' = Indices(f)
         /\ \A f : CallsOf(f, config.boMemcpy)' = CallsOf(f, config.boMemcpy)
         /\ \A c : CopyReported(c) => CopyReported(c)'
         /\ \A f : LocalsDone(f) => LocalsDone(f)'
         /\ \A f : CopiesDone(f) => CopiesDone(f)'
<1>1. ASSUME NEW f, NEW i
      PROVE  (Must(Param(f, i))' <=> Must(Param(f, i))) /\ Indices(f)' = Indices(f)
  <2>1. \A p : Must(p)' <=> Must(p)
    BY SameMust
  <2> QED
    BY <2>1 DEF Param, Indices
<1>2. /\ config' = config /\ Sinks' = Sinks
      /\ \A f : CallsOf(f, config.boMemcpy)' = CallsOf(f, config.boMemcpy)
      /\ \A f : CallsOf(f, Sinks)' = CallsOf(f, Sinks)
      /\ \A c : LocalsInto(c)' = LocalsInto(c) /\ Args(c)' = Args(c)
  BY DEF config, Sinks, Imports, Funcs, CallsOf, In, To, LocalsInto, Args
<1>3. /\ \A c : CopyReported(c) => CopyReported(c)'
      /\ \A c, i : LocalReported(c, i) => LocalReported(c, i)'
  BY DEF CopyReported, LocalReported
<1>4. ASSUME NEW f, LocalsDone(f)
      PROVE  LocalsDone(f)'
  BY <1>1, <1>2, <1>3, <1>4 DEF LocalsDone
<1>5. ASSUME NEW f, CopiesDone(f)
      PROVE  CopiesDone(f)'
  BY <1>1, <1>2, <1>3, <1>5 DEF CopiesDone
<1> QED
  BY <1>1, <1>2, <1>3, <1>4, <1>5

\* Between two functions nothing changes of those that the queries have been to.
LEMMA PastKept ==
  ASSUME UNCHANGED <<program, query, func>>, vulns \subseteq vulns', PastDone
  PROVE  PastDone'
<1>1. \A q, f : Over(q, f)' <=> Over(q, f)
  BY DEF Over
<1>2. \A f : (LocalsDone(f) => LocalsDone(f)') /\ (CopiesDone(f) => CopiesDone(f)')
  BY SameQuestions
<1> QED
  BY <1>1, <1>2 DEF PastDone, Funcs

LEMMA LocalsAskedKept ==
  ASSUME UNCHANGED <<program, query, func, asking>>, vulns \subseteq vulns', LocalsAsked,
         \A i \in Indices(func) :
           \/ <<0, i>> \notin todo /\ asked # <<0, i>> /\ taintedParams[i] = None
           \/ <<0, i>> \in todo' \/ asked' = <<0, i>> \/ taintedParams'[i] # None
           \/ ~Must(Param(func, i))
  PROVE  LocalsAsked'
<1>1. \A i : Must(Param(func, i))' <=> Must(Param(func, i))
  BY SameQuestions DEF Param
<1>2. Indices(func)' = Indices(func) /\ None' = None
  BY DEF Indices, None, Param
<1> QED
  BY <1>1, <1>2 DEF LocalsAsked

LEMMA CopiesAskedKept ==
  ASSUME UNCHANGED <<program, query, func, asking>>, vulns \subseteq vulns', CopiesAsked,
         \A c \in DOMAIN program.calls : \A i \in Indices(func) :
           \/ <<c, i>> \notin todo /\ asked # <<c, i>>
           \/ <<c, i>> \in todo' \/ asked' = <<c, i>> \/ CopyReported(c)'
           \/ ~Must(Param(func, i))
  PROVE  CopiesAsked'
<1>1. /\ \A i : Must(Param(func, i))' <=> Must(Param(func, i))
      /\ \A c : CopyReported(c) => CopyReported(c)'
  BY SameQuestions DEF Param
<1>2. /\ Indices(func)' = Indices(func)
      /\ CallsOf(func, config.boMemcpy)' = CallsOf(func, config.boMemcpy)
      /\ \A c : Args(c)' = Args(c)
  BY DEF Indices, CallsOf, config, In, To, Args
<1>3. CallsOf(func, config.boMemcpy) \subseteq DOMAIN program.calls
  BY DEF CallsOf
<1> QED
  BY <1>1, <1>2, <1>3 DEF CopiesAsked

LEMMA NoQuestion ==
  ASSUME program \in Programs, func \in Funcs, NEW c, NEW i \in Indices(func)
  PROVE  <<c, i>> # NoPair
<1>1. i # 0
  BY ProgramShape
<1> QED
  BY <1>1 DEF NoPair

LEMMA CompleteAsking ==
  ASSUME TaintTypes, CompleteInv, Ask
  PROVE  CompleteInv'
<1>1. PICK a \in todo : asked' = a /\ todo' = todo \ {a}
  BY DEF Ask
<1>2. /\ UNCHANGED <<program, query, func, asking, taintedParams, vulns>>
      /\ asking /\ asked = NoPair
  BY DEF Ask
<1>3. program \in Programs /\ func \in Funcs
  BY <1>2 DEF TaintTypes
<1>4. \A c : \A i \in Indices(func) : asked # <<c, i>>
  BY <1>2, <1>3, NoQuestion
<1>5. LocalsAsked'
  BY <1>1, <1>2, <1>4, LocalsAskedKept DEF CompleteInv
<1>6. CopiesAsked'
  BY <1>1, <1>2, <1>4, CopiesAskedKept DEF CompleteInv
<1> QED
  BY <1>2, <1>5, <1>6, SearchCompleteAtFirst, PastKept DEF CompleteInv

LEMMA CompleteAnswerLocalToFunc ==
  ASSUME TaintTypes, SoundInv, CompleteInv, AnswerLocalToFunc
  PROVE  CompleteInv'
<1>1. /\ UNCHANGED <<program, query, func, asking, todo, vulns>> /\ asked' = NoPair
      /\ taintedParams' = [taintedParams EXCEPT ![asked[2]] = result]
      /\ asked # NoPair /\ frames = <<>> /\ Head(query) = "TaintedLocalToFunc"
  BY DEF AnswerLocalToFunc, At, Running
<1>2. asking
  BY <1>1 DEF TaintTypes
<1>3. DOMAIN taintedParams = Indices(func)
  BY <1>1, <1>2 DEF SoundInv, ParamsSound
<1>4. Must(Param(func, asked[2])) => result # None
  BY <1>1, SearchFinds DEF CompleteInv, Root
<1>5. \A i \in Indices(func) : taintedParams'[i] = IF i = asked[2] THEN result
                                                   ELSE taintedParams[i]
  BY <1>1, <1>3
<1>6. LocalsAsked'
  <2>1. ASSUME NEW i \in Indices(func)
        PROVE  \/ <<0, i>> \notin todo /\ asked # <<0, i>> /\ taintedParams[i] = None
               \/ <<0, i>> \in todo' \/ asked' = <<0, i>> \/ taintedParams'[i] # None
               \/ ~Must(Param(func, i))
    <3>1. CASE i = asked[2]
      BY <1>4, <1>5, <3>1
    <3>2. CASE i # asked[2]
      BY <1>1, <1>5, <3>2
    <3> QED
      BY <3>1, <3>2
  <2> QED
    BY <1>1, <2>1, LocalsAskedKept DEF CompleteInv
<1>7. CopiesAsked' /\ SearchComplete'
  BY <1>1 DEF CopiesAsked, SearchComplete, NoPair
<1> QED
  BY <1>1, <1>6, <1>7, PastKept DEF CompleteInv

LEMMA CompleteAnswerBOMemcpy ==
  ASSUME TaintTypes, CompleteInv, AnswerBOMemcpy
  PROVE  CompleteInv'
<1>1. /\ UNCHANGED <<program, query, func, asking>> /\ asked' = NoPair
      /\ asked # NoPair /\ frames = <<>> /\ Head(query) = "BOMemcpy"
  BY DEF AnswerBOMemcpy, At, Running
<1>2. Must(Param(func, asked[2])) => result # None
  BY <1>1, SearchFinds DEF CompleteInv, Root
<1>3. CASE result = None
  <2>1. todo' = todo /\ vulns' = vulns
    BY <1>3 DEF AnswerBOMemcpy
  <2>2. ASSUME NEW c, NEW i, asked = <<c, i>>
        PROVE  ~Must(Param(func, i))
    BY <1>2, <1>3, <2>2
  <2>3. CopiesAsked'
    BY <1>1, <2>1, <2>2, CopiesAskedKept DEF CompleteInv
  <2> QED
    BY <1>1, <2>1, <2>3, PastKept DEF CompleteInv, LocalsAsked, SearchComplete, NoPair
<1>4. CASE result # None
  <2> DEFINE v == Report("Memcpy", asked[1], asked[2], result)
  <2>1. vulns' = vulns \cup {v} /\ todo' = {a \in todo : a[1] # asked[1]}
    BY <1>4 DEF AnswerBOMemcpy
  <2>2. v.type = "Memcpy" /\ v.call = asked[1]
    BY DEF Report
  <2> HIDE DEF v
  <2>3. ASSUME NEW c, NEW i, <<c, i>> \in todo \/ asked = <<c, i>>
        PROVE  <<c, i>> \in todo' \/ CopyReported(c)'
    <3>1. CASE c = asked[1]
      <4>1. \E u \in vulns' : u.type = "Memcpy" /\ u.call = asked[1]
        BY <2>1, <2>2
      <4> QED
        BY <3>1, <4>1 DEF CopyReported
    <3>2. CASE c # asked[1]
      BY <2>1, <2>3, <3>2
    <3> QED
      BY <3>1, <3>2
  <2>4. CopiesAsked'
    BY <1>1, <2>1, <2>3, CopiesAskedKept DEF CompleteInv
  <2> QED
    BY <1>1, <2>1, <2>4, PastKept DEF CompleteInv, LocalsAsked, SearchComplete, NoPair
<1> QED
  BY <1>3, <1>4

LEMMA CompleteBegins ==
  ASSUME TaintTypes, CompleteInv, BeginTaintedLocalToFunc \/ BeginBOMemcpy
  PROVE  CompleteInv'
<1>1. /\ UNCHANGED <<program, query, func, asked, vulns>> /\ ~asking
  BY DEF BeginTaintedLocalToFunc, BeginBOMemcpy, Begins
<1>2. asked = NoPair
  BY <1>1 DEF TaintTypes
<1>3. SearchComplete' /\ PastDone'
  BY <1>1, <1>2, PastKept DEF CompleteInv, SearchComplete, NoPair
<1>4. CASE BeginTaintedLocalToFunc
  <2>1. todo' = {<<0, i>> : i \in Indices(func)} /\ Head(query) = "TaintedLocalToFunc"
    BY <1>4 DEF BeginTaintedLocalToFunc, Begins, At
  <2>2. LocalsAsked' /\ CopiesAsked'
    BY <1>1, <2>1 DEF LocalsAsked, CopiesAsked, Indices
  <2> QED
    BY <1>3, <2>2 DEF CompleteInv
<1>5. CASE BeginBOMemcpy
  <2>1. /\ todo' = UNION {{<<c, i>> : i \in Indices(func) \cap Args(c)[2].locals} :
                            c \in {c \in CallsOf(func, config.boMemcpy) : Args(c)[1].static}}
        /\ Head(query) = "BOMemcpy"
    BY <1>5 DEF BeginBOMemcpy, Begins, At
  <2>2. ASSUME NEW c \in CallsOf(func, config.boMemcpy), Args(c)[1].static,
               NEW i \in Indices(func) \cap Args(c)[2].locals
        PROVE  <<c, i>> \in todo'
    BY <2>1, <2>2
  <2>3. /\ Indices(func)' = Indices(func)
        /\ CallsOf(func, config.boMemcpy)' = CallsOf(func, config.boMemcpy)
        /\ \A c : Args(c)' = Args(c)
    BY <1>1 DEF Indices, CallsOf, config, In, To, Args
  <2>4. LocalsAsked' /\ CopiesAsked'
    BY <1>1, <2>1, <2>2, <2>3 DEF LocalsAsked, CopiesAsked
  <2> QED
    BY <1>3, <2>4 DEF CompleteInv
<1> QED
  BY <1>4, <1>5

LEMMA DoneIf ==
  ASSUME program' = program, NEW f
  PROVE  /\ (f \notin config.ignore \cup Sinks =>
               \A c \in CallsOf(f, Sinks) : \A i \in LocalsInto(c) \cap Indices(f) :
                 Must(Param(f, i)) => LocalReported(c, i)') => LocalsDone(f)'
         /\ (f \notin config.ignore \cup config.boMemcpy =>
               \A c \in CallsOf(f, config.boMemcpy) :
                 \A i \in Args(c)[2].locals \cap Indices(f) :
                   Args(c)[1].static /\ Must(Param(f, i)) => CopyReported(c)')
            => CopiesDone(f)'
<1>1. /\ Indices(f)' = Indices(f)
      /\ \A i : Must(Param(f, i))' <=> Must(Param(f, i))
  BY SameMust DEF Param, Indices
<1>2. /\ config' = config /\ Sinks' = Sinks
      /\ CallsOf(f, config.boMemcpy)' = CallsOf(f, config.boMemcpy)
      /\ CallsOf(f, Sinks)' = CallsOf(f, Sinks)
      /\ \A c : LocalsInto(c)' = LocalsInto(c) /\ Args(c)' = Args(c)
  BY DEF config, Sinks, Imports, Funcs, CallsOf, In, To, LocalsInto, Args
<1> QED
  BY <1>1, <1>2 DEF LocalsDone, CopiesDone

\* What the query of locals has been asked of a function, it reports.
LEMMA LocalsReported ==
  ASSUME TaintTypes, CompleteInv, TaintedLocalToFunc
  PROVE  /\ UNCHANGED <<program, query>> /\ vulns \subseteq vulns'
         /\ \A c \in CallsOf(func, Sinks) : \A i \in LocalsInto(c) \cap Indices(func) :
              Must(Param(func, i)) => LocalReported(c, i)'
<1>1. /\ asking /\ todo = {} /\ asked = NoPair /\ Head(query) = "TaintedLocalToFunc"
      /\ func \in Funcs /\ program \in Programs
  BY DEF TaintedLocalToFunc, Ends, At, TaintTypes
<1> DEFINE reports == {Report("LocalToFunc", ci[1], ci[2], taintedParams[ci[2]]) :
                         ci \in {ci \in CallsOf(func, Sinks) \X Indices(func) :
                                   ci[2] \in LocalsInto(ci[1]) /\ taintedParams[ci[2]] # None}}
<1>2. UNCHANGED <<program, query>> /\ vulns' = vulns \cup reports
  BY DEF TaintedLocalToFunc, Done
<1>3. ASSUME NEW c \in CallsOf(func, Sinks), NEW i \in LocalsInto(c) \cap Indices(func),
             Must(Param(func, i))
      PROVE  LocalReported(c, i)'
  <2>1. taintedParams[i] # None
    BY <1>1, <1>3, NoQuestion DEF CompleteInv, LocalsAsked
  <2>2. Report("LocalToFunc", c, i, taintedParams[i]) \in reports
    <3>1. <<c, i>> \in CallsOf(func, Sinks) \X Indices(func)
      BY <1>3
    <3>2. <<c, i>>[1] = c /\ <<c, i>>[2] = i
      OBVIOUS
    <3> QED
      BY <1>3, <2>1, <3>1, <3>2
  <2> DEFINE v == Report("LocalToFunc", c, i, taintedParams[i])
  <2>3. v.type = "LocalToFunc" /\ v.call = c /\ v.local = i
    BY DEF Report
  <2>4. v \in vulns'
    BY <1>2, <2>2
  <2> HIDE DEF v
  <2> QED
    BY <2>3, <2>4 DEF LocalReported
<1> QED
  BY <1>2, <1>3

LEMMA CompletePassing ==
  ASSUME TaintTypes, CompleteInv, Passing
  PROVE  CompleteInv'
<1>1. /\ query # <<>> /\ func \in Funcs /\ todo = {} /\ asked = NoPair
      /\ \E reports : Done(reports)
  BY PassingDone
<1>2. /\ UNCHANGED <<program, query, asked>> /\ ~asking' /\ vulns \subseteq vulns'
      /\ func' = func + 1
  BY <1>1 DEF Done
<1>3. SearchComplete' /\ LocalsAsked' /\ CopiesAsked'
  BY <1>1, <1>2 DEF SearchComplete, LocalsAsked, CopiesAsked, NoPair
<1>4. Len(program.funcs) \in Nat /\ Funcs = 1 .. Len(program.funcs) /\ program \in Programs
  BY ProgramShape DEF TaintTypes
<1>5. ASSUME NEW q, NEW f \in Funcs, Over(q, f)', ~Over(q, f)
      PROVE  f = func /\ Head(query) = q
  <2>1. Head(query) = q /\ func + 1 > f /\ ~(func > f)
    BY <1>2, <1>5 DEF Over
  <2> QED
    BY <1>1, <1>4, <2>1
<1>6. PICK g : g = func
  OBVIOUS
<1>7. ASSUME Head(query) = "TaintedLocalToFunc"
      PROVE  LocalsDone(g)'
  <2>1. CASE func \in config.ignore \cup Sinks
    BY <1>2, <1>6, <2>1, DoneIf
  <2>2. CASE TaintedLocalToFunc
    <3>1. \A c \in CallsOf(g, Sinks) : \A i \in LocalsInto(c) \cap Indices(g) :
            Must(Param(g, i)) => LocalReported(c, i)'
      BY <1>6, <2>2, LocalsReported
    <3> QED
      BY <1>2, <3>1, DoneIf
  <2> QED
    BY <1>7, <2>1, <2>2 DEF Passing, PassOver, DangerousFunctions, FormatStrings,
       TaintedFuncToFunc, BOMemcpy, Begins, Ends, At
<1>8. ASSUME Head(query) = "BOMemcpy"
      PROVE  CopiesDone(g)'
  <2>1. CASE func \in config.ignore \cup config.boMemcpy
    BY <1>2, <1>6, <2>1, DoneIf
  <2>2. CASE BOMemcpy
    <3>1. \A c \in CallsOf(g, config.boMemcpy) :
            \A i \in Args(c)[2].locals \cap Indices(g) :
              Args(c)[1].static /\ Must(Param(g, i)) => CopyReported(c)'
      <4>1. asking
        BY <2>2 DEF BOMemcpy, Ends
      <4>2. \A c : CopyReported(c) => CopyReported(c)'
        BY <1>2, SameQuestions
      <4> QED
        BY <1>1, <1>4, <1>6, <1>8, <4>1, <4>2, NoQuestion DEF CompleteInv, CopiesAsked
    <3> QED
      BY <1>2, <3>1, DoneIf
  <2> QED
    BY <1>8, <2>1, <2>2 DEF Passing, PassOver, DangerousFunctions, FormatStrings,
       TaintedFuncToFunc, TaintedLocalToFunc, Begins, Ends, At
<1>9. ASSUME NEW f \in Funcs
      PROVE  /\ Over("TaintedLocalToFunc", f)' => LocalsDone(f)'
             /\ Over("BOMemcpy", f)' => CopiesDone(f)'
  <2>1. (LocalsDone(f) => LocalsDone(f)') /\ (CopiesDone(f) => CopiesDone(f)')
    BY <1>2, SameQuestions
  <2>2. /\ Over("TaintedLocalToFunc", f) => LocalsDone(f)
        /\ Over("BOMemcpy", f) => CopiesDone(f)
    BY DEF CompleteInv, PastDone
  <2> QED
    BY <1>5, <1>6, <1>7, <1>8, <2>1, <2>2
<1>10. PastDone'
  BY <1>2, <1>9 DEF PastDone, Funcs
<1> QED
  BY <1>3, <1>10 DEF CompleteInv

LEMMA CompleteNextQuery ==
  ASSUME TaintTypes, CompleteInv, NextQuery
  PROVE  CompleteInv'
<1>1. /\ UNCHANGED <<program, asking, asked, vulns>> /\ query # <<>> /\ query' = Tail(query)
      /\ func' = 1 /\ func \notin Funcs
  BY DEF NextQuery
<1>2. /\ ~asking /\ asked = NoPair /\ program \in Programs /\ query \in Seq(QueryNames)
      /\ func \in Nat \ {0}
  BY <1>1 DEF TaintTypes
<1>3. SearchComplete' /\ LocalsAsked' /\ CopiesAsked'
  BY <1>1, <1>2 DEF SearchComplete, LocalsAsked, CopiesAsked, NoPair
<1>4. Len(program.funcs) \in Nat /\ Funcs = 1 .. Len(program.funcs)
  BY <1>2, ProgramShape
<1>5. ASSUME NEW q, NEW f \in Funcs, Over(q, f)'
      PROVE  Over(q, f)
  <2>1. func > f /\ ~(1 > f)
    BY <1>1, <1>2, <1>4
  <2>2. \A k \in DOMAIN query' : query'[k] # q
    BY <1>1, <1>5, <2>1 DEF Over
  <2>3. ASSUME NEW k \in DOMAIN query, query[k] = q
        PROVE  Head(query) = q
    <3>1. Len(query) \in Nat /\ DOMAIN query = 1..Len(query)
      BY <1>2, LenProperties
    <3>2. CASE k = 1
      BY <2>3, <3>2
    <3>3. CASE k # 1
      <4>1. PICK n \in Nat : n = Len(query)
        BY <3>1
      <4>2. k \in 1..n /\ k - 1 \in 1 .. n - 1 /\ (k - 1) + 1 = k
        BY <3>1, <3>3, <4>1
      <4>3. /\ Len(query') = n - 1 /\ DOMAIN query' = 1 .. Len(query')
            /\ \A m \in 1 .. n - 1 : query'[m] = query[m + 1]
        BY <1>1, <1>2, <4>1
      <4>4. k - 1 \in DOMAIN query' /\ query'[k - 1] = q
        BY <2>3, <4>2, <4>3
      <4> QED
        BY <2>2, <4>4
    <3> QED
      BY <3>2, <3>3
  <2> QED
    BY <2>1, <2>3 DEF Over
<1>6. \A f : (LocalsDone(f) => LocalsDone(f)') /\ (CopiesDone(f) => CopiesDone(f)')
  BY <1>1, SameQuestions
<1>7. PastDone'
  BY <1>1, <1>5, <1>6 DEF CompleteInv, PastDone, Funcs
<1> QED
  BY <1>3, <1>7 DEF CompleteInv

LEMMA CompleteKept ==
  ASSUME TaintTypes, SoundInv, CompleteInv, [TNext]_taintVars
  PROVE  CompleteInv'
<1>1. CASE isTainted
  <2>1. UNCHANGED <<program, func, query, asking, todo, asked, taintedParams, vulns>>
    BY <1>1 DEF isTainted
  <2>2. SearchComplete'
    BY <1>1, SearchCompleteKept DEF SoundInv, CompleteInv
  <2>3. LocalsAsked' /\ CopiesAsked' /\ PastDone'
    BY <2>1, LocalsAskedKept, CopiesAskedKept, PastKept DEF CompleteInv
  <2> QED
    BY <2>2, <2>3 DEF CompleteInv
<1>2. CASE UNCHANGED taintVars
  <2>1. UNCHANGED <<program, func, query, asking, todo, asked, frames, visited, result,
                    taintedParams, vulns>>
    BY <1>2 DEF taintVars
  <2>2. LocalsAsked' /\ CopiesAsked' /\ PastDone'
    BY <2>1, LocalsAskedKept, CopiesAskedKept, PastKept DEF CompleteInv
  <2>3. /\ Pending' = Pending /\ Root' = Root /\ None' = None /\ NoPair' = NoPair
        /\ \A a : Followed(a)' = Followed(a)
        /\ \A p : Reach(p)' = Reach(p) /\ (IsSource(p)' <=> IsSource(p))
        /\ \A p : Blocked(p)' <=> Blocked(p)
        /\ Flows' = Flows
    BY <2>1, SameProgram, SameReach, SameMust DEF Pending, Root, None, NoPair, Param
  <2>4. \A q : Covered(q)' <=> Covered(q)
    BY <2>1, <2>3 DEF Covered
  <2>5. SearchComplete'
    BY <2>1, <2>3, <2>4 DEF CompleteInv, SearchComplete
  <2> QED
    BY <2>2, <2>5 DEF CompleteInv
<1> QED
  BY <1>1, <1>2, CompleteAsking, CompleteAnswerLocalToFunc, CompleteAnswerBOMemcpy,
     CompleteBegins, CompletePassing, CompleteNextQuery DEF TNext, Passing

LEMMA CompleteAtFirst ==
  ASSUME TInit
  PROVE  CompleteInv
<1>1. /\ program \in Programs /\ ~asking /\ asked = NoPair /\ func = 1
      /\ query[1] = "BOMemcpy" /\ query[5] = "TaintedLocalToFunc" /\ Head(query) = "BOMemcpy"
      /\ 1 \in DOMAIN query /\ 5 \in DOMAIN query
  BY DEF TInit
<1>2. Len(program.funcs) \in Nat /\ Funcs = 1 .. Len(program.funcs)
  BY <1>1, ProgramShape
<1>3. \A f \in Funcs : ~(func > f)
  BY <1>1, <1>2
<1>4. PastDone
  BY <1>1, <1>3 DEF PastDone, Over
<1> QED
  BY <1>1, <1>4 DEF CompleteInv, SearchComplete, LocalsAsked, CopiesAsked

\* When the queries are over, every call of a sink and every copy to a buffer of
\* fixed size into which a source flows is reported, if the search for it cannot
\* turn back at a function that it has been in through another parameter.
THEOREM NothingIsMissed == TSpec => []NothingMissed
<1>1. CompleteInv /\ TaintTypes => NothingMissed
  <2> SUFFICES ASSUME CompleteInv, TaintTypes, query = <<>>
               PROVE  NothingMissed
    BY DEF NothingMissed
  <2>1. \A f \in Funcs : LocalsDone(f) /\ CopiesDone(f)
    BY DEF CompleteInv, PastDone, Over
  <2>2. \A c \in DOMAIN program.calls : In(c) \in Funcs
    BY CallShape DEF TaintTypes
  <2>3. \A c \in DOMAIN program.calls : LocalsDone(In(c)) /\ CopiesDone(In(c))
    BY <2>1, <2>2
  <2> QED
    BY <2>3 DEF NothingMissed, LocalsDone, CopiesDone, CallsOf, Must, LocalReported, CopyReported
<1>2. TInit => CompleteInv /\ SoundInv
  BY CompleteAtFirst
  DEF TInit, SoundInv, TaintIsReal, SearchSound, QuestionsSound, ParamsSound
<1>3. TaintTypes /\ SoundInv /\ CompleteInv /\ [TNext]_taintVars => SoundInv' /\ CompleteInv'
  BY SoundKept, CompleteKept
<1> QED
  BY <1>1, <1>2, <1>3, TaintTypesAlways, PTL DEF TSpec
=============================================================================
