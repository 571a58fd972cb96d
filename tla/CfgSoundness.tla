---------------------------- MODULE CfgSoundness ----------------------------
(***************************************************************************)
(* The builder composed with the executions of the function it has built:   *)
(* when the graph is done, a control point moves as WebAssembly would move   *)
(* it.  The graph is sound if every such step is an edge of it, and precise *)
(* if it has no other edge at a point that execution comes to.              *)
(***************************************************************************)
EXTENDS CfgBuilder, WasmExec

VARIABLE point   \* the control point of an execution of fn

allVars == <<vars, point>>

SInit == Init /\ point = InstsNode

Build == Next /\ UNCHANGED point

Execute ==
  /\ pc = "done"
  /\ \E s \in Step(fn, point) : point' = s[1]
  /\ UNCHANGED vars

SNext == Build \/ Execute

\* The builder is a sequential program; an execution may stop anywhere.
SSpec == SInit /\ [][SNext]_allVars /\ WF_allVars(Build)

-----------------------------------------------------------------------------
\* The edges that the steps from the control point must be in the graph.
StepEdges == {CFGEdge(point, View(fn, s[1]), s[2]) : s \in Step(fn, point)}

Visible == View(fn, point) = point

\* Every step that the execution can take next is an edge of the graph.
Sound == pc = "done" /\ Visible => StepEdges \subseteq edges

\* No other edge leaves a node that the execution is at.
Precise == pc = "done" /\ Visible =>
             {d \in edges : d.src = point} \subseteq StepEdges

\* Expression e lies somewhere inside the structured expression i.
Inside(f, e, i) ==
  LET W[x \in Body(f)] == LET o == Holder(f, x)[1]
                           IN  o # 0 /\ (o = i \/ W[o])
  IN  W[e]

\* List l has an expression that stops it: an Unreachable, a Br, or an If
\* whose two arms are both stopped.
Stops(f, l) ==
  LET S[m \in Lists] ==
        \E e \in Range(f.list[m]) :
          \/ f.kind[e] \in {"Unreachable", "Br"}
          \/ f.kind[e] = "If" /\ S[<<e, "then">>] /\ S[<<e, "else">>]
  IN  S[l]

\* A branch inside the structured expression i to its own label.
BranchesOut(f, i) ==
  \E e \in Exprs :
    /\ InBody(f, e) /\ f.kind[e] \in Branches /\ Inside(f, e, i)
    /\ \E k \in DOMAIN f.targets[e] : Binder(f, e, f.targets[e][k]) = i

\* An If both of whose arms are stopped, and a branch inside it to its own
\* end: construct takes what follows the If for unreachable, and it is not.
LosesJoin(f, i) ==
  /\ InBody(f, i) /\ f.kind[i] = "If"
  /\ Stops(f, <<i, "then">>) /\ Stops(f, <<i, "else">>)
  /\ BranchesOut(f, i)

KeepsJoins == \A i \in Exprs : ~LosesJoin(fn, i)

\* Whatever path a function takes, the graph that construct and
\* insertEdgeFromLastExpr have built has an edge for each of its steps.
SoundUnlessJoinLost == Sound \/ ~KeepsJoins

\* Where an execution can come, the graph offers only what it can do next:
\* construct inserts no edge from code that does not fall through.
PreciseUnlessJoinLost == Precise \/ ~KeepsJoins

\* Every call that may execute has its call graph edges.
CallsCoveredUnlessJoinLost ==
  pc = "done" =>
    \A e \in Exprs : (point = Inst(e) /\ fn.kind[e] \in Calls) =>
      ({Inst(e)} \X fn.callees[e] \subseteq cg \/ ~KeepsJoins)

\* A branch of f names a label that no expression around it declares.
HasUnboundLabel(f) ==
  \E e \in Exprs :
    /\ InBody(f, e) /\ f.kind[e] \in Branches
    /\ \E k \in DOMAIN f.targets[e] : Binder(f, e, f.targets[e][k]) = 0

\* Nothing but an empty Block, Loop or true arm, or a label that is not
\* declared, stops the builder: the label stack holds every label it is
\* asked for.
CrashNeedsCause == pc = "crashed" => HasEmptyList(fn) \/ HasUnboundLabel(fn)

\* A function with no such list or label is built to the end.
Completes == ~(HasEmptyList(fn) \/ HasUnboundLabel(fn)) ~> pc = "done"

\* The comment "the Else block is the same block of the true so we need to
\* put the true block in the stack in case there is a br": a br to an If's
\* end goes on after the If.
JoinContinues ==
  (pc = "done" /\ point[1] = "block") =>
    (fn.kind[point[2]] = "If" => StepEdges \subseteq edges)

\* The graph as a cursor walks on it; the cursor stays at the entry of a
\* function one of whose joins is lost.
Walk == INSTANCE CfgWalk WITH Entry <- InstsNode, graph <- edges,
          cursor <- IF KeepsJoins THEN View(fn, point) ELSE InstsNode

\* The builder and then the execution of the function implement the walk:
\* construct only adds edges, and every execution follows them.
WalkSpec == Walk!Spec
=============================================================================
