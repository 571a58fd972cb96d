# wasmati in TLA+

wasmati reads a WebAssembly module, builds its code property graph (syntax
tree, control flow graph, program dependence graph and call graph in one graph)
and searches that graph for vulnerabilities, with native queries or with
programs of its own query language. This directory holds TLA+ models of parts
of it, the configurations that check them with TLC, and theorems about them
checked by TLAPS. Paths below are relative to `src/src/` unless they begin
with `src/`.

    tlc -workers 2 -config CfgAll.cfg MCCfg.tla     # check one configuration
    tlapm CfgBuilderProofs.tla                      # check one module's proofs

`CommonLemmas` holds what several proofs need: stacks that are sequences (what
their last element, `Front` and `Append` are), the least and the greatest element
of a set of numbers, and induction on a set of numbers (`SetInduction`).

## 1. The system: inventory

| component | state it keeps | operations | hard behaviour |
|---|---|---|---|
| **AST builder** `ast-builder.cc` | a stack of expressions without a consumer, a list of those without a value, `exprNodes`, `ifBlocks`, `returnFunc` | `construct(Expr)`, `construct(ExprList)`, one per function | arities after dead code; two lists whose order becomes the order of children; one return node per function for all `Return`s |
| **CFG builder** `cfg-builder.cc` | the graph's CFG and call graph edges, `_blocks` (label stack), the C++ call stack of `construct` | `generateCFG`, `construct` (a switch over the expressions), `getBlock`, `insertEdgeFromLastExpr` | early returns of a recursive function that keeps a stack beside it; dead code; what "last expression" means |
| **PDG builder** `pdg-builder.cc/.h` | a work list, the definitions that have reached each node, loop stack, loop caches | one `visit…Inst` per instruction, `waitPaths`, `advance`, `unionDef`, `equals` | waits until all paths to a node have arrived; fixpoint of loops; shared definitions |
| **Graph store** `graph.h/.cc` | nodes with in- and out-edges, ordered by identifier | constructors of nodes and edges, `inEdges`, `hasInEdgesOf` | equal edges count once |
| **Query engine** `query.h/.cc` | none between calls (a pointer to the graph) | `BFS`, `BFSincludes`, filters, `Predicate`, `NodeStream` | cyclic graphs, limits, starts that are met again |
| **Native queries** `queries/*.cc`, `vulns.h` | the list of vulnerabilities found; the functions visited by `isTainted` | one function per kind of vulnerability, over every function of the module | recursion over the callers with marks that one question sets and the next must not see; "the first use after" rests on the order of a limited search |
| **Interpreter** `interpreter/*` | two symbol tables (stacks of contexts), the last result | one `visit…` per kind of node; an interactive loop | `break`, `continue`, `return` and errors are C++ exceptions that cut across the pushes and pops |
| **CSV reader, writer** `readers/`, `writers/csv-writer.h` | buffer, position, counts; the map of columns | `readLine`, `parseNode`, `parseEdge`; the writer's visitor | a row across a buffer's end, the last row, bytes of an earlier refill; columns that share a key |
| **Other writers** `writers/*` | output streams, the JSON document | one visitor each | parts of a graph: nodes are left out, and identifiers are positions no more |
| **Tools** `tools/*.cc` | the options | read, validate, name, build, query, write | a failed step whose result is overwritten |
| **External**: wabt, libzip, nlohmann json | | | wabt's validation is what the builders rely on |

How they interact: everything is sequential and in one process. The tools call
wabt for the module, then the AST, CFG and PDG builders in that order, each of
which reads the edges the ones before it made; the CFG builder, the PDG builder,
the native queries and the interpreter's functions all call the query engine.
There are no threads and nothing is persisted but the zip of CSV files. What is
hard is therefore not concurrency but **control**: recursion with a stack kept
beside it, early returns, exceptions, work lists that wait, and states that
only some order of legal constructs reaches.

What makes each component correct:

- *AST builder*: the syntax tree is one tree of the whole body, an
  expression's children begin with its arguments in order, identifiers follow the
  text; it dies of dead code at most.
- *CFG builder*: every execution of a function is a walk on its graph, and
  the graph has no other edge where an execution comes; the label stack is the
  nesting; it ends, on every valid function.
- *PDG builder*: every node that the CFG reaches is analysed, each with the
  definitions of all paths to it; the loops' fixpoint ends.
- *Query engine*: sound and complete up to the limit; a limited answer is the
  nearest; it ends on cyclic graphs.
- *Interpreter*: after a jump the tables are as deep as where the jump
  arrives; an unwinding ends.
- *Native queries*: what is reported as tainted is, whatever is tainted is
  reported, and the recursion ends.
- *Writers, CSV reader*: what is written hangs together; a graph written and
  read is the same graph, or reading fails, never half of it.

## 2. Plan

| order | module | what it models | state |
|---|---|---|---|
| 1 | `WasmFunction`, `CfgBuilder`, `CommonLemmas`, `CfgBuilderProofs` | function bodies; the CFG builder; its theorems | done |
| 2 | `WasmExec`, `CfgWalk`, `CfgSoundness`, `CfgSoundnessProofs` | how WebAssembly executes a body; a walk on a graph; builder and execution composed; that the graph is sound and precise | done |
| 3 | `QuerySearch`, `QuerySearchProofs` | `BFS`, `BFSincludes` and their theorems | done |
| 4 | `PdgBuilder`, `PdgSoundness`, `PdgBuilderProofs` | the PDG builder: its work list, waiting, shared definitions and loops; its edges against the flows of the executions; theorems on its objects and loops | done |
| 5 | `EvalScopes`, `ScopeStack`, `EvalScopesProofs` | the interpreter's two tables under blocks, loops, calls, jumps and errors; the lexical scopes they implement; theorems on both | done |
| 6 | `AstBuilder` | the AST builder's stacks of unconsumed expressions, with the code after a branch; the three builders one after the other | done |
| 7 | `GraphRows`, `GraphWriters`, `RowReader`, `GraphFile`, `GraphFileProofs` | the kinds of node and their rows; the CSV, JSON and dot writers; `readLine` over a buffer; a graph written and read again; its theorems | done |
| 8 | `TaintQueries`, `TaintQueriesProofs` | `isTainted` and the five queries on tainted and dangerous calls; their theorems | done |
| 9 | the queries on buffers and loops, the predicates | need constants and opcodes in the graphs | planned |

Abstract specifications worth stating: the walk (done: `CfgWalk`), the
lexical scopes of the interpreter (done: `ScopeStack`). Theorems worth proving:
the nesting (done), that the control flow graph is sound and precise (done), the searches (done, with the order of a limited search), the
levels of the interpreter's tables (done), that the evaluator implements
`ScopeStack` (done), that the taint queries are sound and complete (done), that the
PDG builder's pointers lead to objects and its loop stacks are nested (done), that
a graph that is read is the one that was written (done).

## 3. The control flow graph

### Modules

- `WasmFunction` is a function body as wabt hands it over, a record of kinds,
  labels, targets and nested lists, with the names of the graph's nodes:
  `Inst(e)` is `exprNodes.at(e)`, which for a Block is its `BeginBlockInst`
  (`EndBlock(e)` is the `BlockInst` itself), and every `Return` is `RetFunc`.
  Instructions that only go on to the next are of one kind, `Plain`. A record is
  a body (`IsBody`) if it has the types, if each expression is in one place of one
  list of one expression that is in the body (`IsTree`: wabt's intrusive lists own
  their expressions), and if the numbers that stand for the expressions follow
  the text (`InTextOrder`: a convention of the model, as the numbers are its own).
- `CfgBuilder` is `CFG::generateCFG` for one function and `CFG::construct`.
  Its C++ recursion is the variable `stack`; every case of the switch is an
  action, and a case that recurses is an `Enter…` action up to the call and a
  `Leave…` action after it. `edges`, `cg` and `blocks` are the CFG edges, the
  call graph edges and `_blocks`; `ret` is the list whose `construct` has
  returned and its result.

  | code | actions |
  |---|---|
  | `generateCFG` before and after `construct` | `BeginFunction`, `FinishFunction` |
  | `case Return`, `Unreachable` | `VisitReturn`, `VisitUnreachable` |
  | `case Br`, `BrIf`, `BrTable` | `VisitBr`, `VisitBrIf`, `VisitBrTable`; `VisitUnboundBranch` when `getBlock` asserts |
  | `case Block` | `EnterBlock`, `LeaveBlock`, `LeaveDeadBlock` (the early return) |
  | `case Loop` | `EnterLoop`, `LeaveLoop` |
  | `case If` | `EnterIf`, `EnterElse`, `LeaveIfWithoutElse`, `LeaveElse`, `LeaveDeadIf` (the early return) |
  | `case Call`, `CallIndirect` | `VisitCall` |
  | `default`, the end of the loop | `VisitDefault`, `EndOfList` |
  | `insertEdgeFromLastExpr` on an empty list | `LinkEmptyList` |

- `WasmExec` is the reference: the steps WebAssembly's structured control flow
  allows, read off the nesting alone, with no label stack and no edges.
- `CfgSoundness` composes the two: when the builder is done, `point` moves as
  an execution would. `CfgWalk` is the abstract specification: a graph grows,
  and then a cursor moves along its edges.
- `MCCfg` makes the bodies in families: every valid body of so many
  expressions of some kinds, an If, BrIf or BrTable only after an expression that
  leaves it an operand, branches only to labels in scope. All blocks have type
  `[] -> []`.

### Runs

| run | bodies | shows |
|---|---|---|
| `cfg_all` | three families, 123 355 states: `AllKinds`, 4 expressions of 10 kinds; `Empties`, 4 expressions with empty lists, two label names that nested blocks may share, and the function's own label in br_tables; `DeadArms`, 5 expressions of Plain, Br, If, Unreachable that lose no join | types; `ActivationsNest` and `ScopesAreNesting`: whichever early return is taken, the label stack is exactly the nesting; `NoWayBack`; soundness and precision of the graph for every execution, a label resolved to the innermost block that declares it; calls covered by the call graph; the builder dies of nothing but an empty list or an undeclared label (`CrashNeedsCause`) and finishes everything else (`Completes`); builder and execution implement `CfgWalk` (`WalkSpec`) |
| `cfg_lost_join` | expects a violation | an If both of whose arms branch to its own end loses what follows it |
| `cfg_empty_block` | expects a violation | an empty Block or Loop is not survived |

Bounds: four expressions are enough for a structured expression in another
one with a branch and something after it, which is as much as any single
decision of `construct` looks at; five of the kinds that make dead code reach
an If with two arms, each ending in a branch, and code after it. The theorems
below lift the nesting properties to every depth and length.

Soundness is stated *unless a join is lost*: `LosesJoin` is the one pattern for
which the code leaves out reachable code (`cfg-builder.cc:225`, the run
`cfg_lost_join`). TLC found it as a counterexample of the unconditional
property; with the pattern excluded, and nothing else, the property holds.

Fairness: `WF(Next)` for the builder, a sequential program that nothing stops.
`Execute` has none: an execution may stop anywhere.

### Theorems

All of them hold for every set of function bodies, whatever their size, depth,
labels and callees. Assumptions: `ExprsAssumption` (expressions are finitely many
positive numbers, 0 stands for "no owner") and `FunctionsAssumption` (what the
builder is given are bodies, `IsBody`).

`CfgBuilderProofs` proves `TypeCorrect` (`[]TypeOK`) and `NoWayBackHolds`. The
invariant `TypeInv` says more than the types: all edges are in `FlowEdges`,
edges whose source is neither the return node nor the trap, and a control
state that works has an activation. An edge from the last expression of a list is
the only one that could break it: that a `Return` is silent there is used in
the lemma `LastEdges`.

It also proves `ActivationsAlwaysNest` and `ScopesAlwaysNest`.
Neither property is inductive: with only "the label stack is as deep as the
activations" the builder could return from a true arm into a Loop and swap
its label for a join. `NestInv` adds that every suspended activation is at an
expression *one of whose own lists* is being built (`ListsOf`). Steps are
sorted into kinds (a call, a step over, a return, a return into a case that goes on
or that ends), each kind keeps the invariant, and every action is of one kind
(`StepKinds`).

`CfgSoundnessProofs` proves that the finished graph is right:

| theorem | property |
|---|---|
| `GraphIsSound` | `SoundUnlessJoinLost`: it has an edge for each step an execution can take |
| `GraphIsPrecise` | `PreciseUnlessJoinLost`: it has no other edge where an execution can come |
| `CallsAreCovered` | `CallsCoveredUnlessJoinLost`: a call that may execute has its call graph edges |
| `CrashHasCause` | `CrashNeedsCause`: the builder stops only for an empty list or an undeclared label |
| `ExecutionIsWalk` | `WalkSpec`: builder and execution implement `CfgWalk` |

The argument is that of a graph search whose work list is the C++ stack. A node
is *live* if an edge leads to it or the list it begins is open. It is *settled* if
all its edges (`Out`, computed from `WasmExec`) are in the graph or *owed*, and
*busy* if `construct` has it in hand: it is the instruction about to be visited,
or a node of an expression that an activation waits for. Owed are the edges out of
the last expression of a list that has been passed but whose end the caller has
yet to link (`IsDue`, `LinkOf`). `ClosedInv` says that every live node is busy or
settled. When `construct` is done, nothing is busy, `FinishFunction` pays the
last debt, and what is left is soundness. `PreciseInv` is the converse: every edge
is a step of `WasmExec` from its source. It has one exception (`Doomed`): a loop
without expressions that is not the last of its list is linked to what follows
it, which no execution does, and `construct` crashes before anyone can look at
the graph (`EmptyLoopDies`, `DoomStays`).

What `ClosedInv` rests on, all inductive and in the first half of the module:

- *levels*: with `NestInv`, the lists of the activations are the lists around the
  current expression, so that the label stack resolves a branch as `Binder`
  does (`BinderFound`, `BlockIsBinder`), and a Loop or Block inside which the
  builder is already has edges (`StartedInv`);
- `OrderInv`: nothing leads to the end of an expression later in the text. This
  is what the test "has the `BlockInst` an edge coming in?"
  (`cfg-builder.cc:138-150, 240-246`) relies on when it decides that what follows is dead;
- `UnreachInv`: a list reported as unreachable is one that something in it stops
  (`Stops`);
- `JoinInv`: an If both of whose arms are stopped has an edge to its joining block
  only from a branch inside it. With `UnreachInv` and the hypothesis `KeepsJoins`
  the early return of `LeaveDeadIf` then loses nothing (`DeadJoinIsLost`). Without the
  hypothesis this is the step that fails, as `cfg_lost_join` shows;
- `OpenInv`: the function's own list and a false arm are built only if they have
  expressions, so that an empty list is always that of a Block, a Loop or a true arm.

`LastExpr`, `Binder`, `View`, `Inside` and `Stops` are recursive functions over the
nesting. That such a function exists, and with it its defining equation, is
proved once: `Recursion` says so of any definition on a set with a rank in the
natural numbers, with the definition as a function (no operator parameter), and
`RankInduction` is the induction that goes with it. The rank of an expression is
its number, which is why a body's numbers follow the text; `Binder`, `View` and
`Inside` are defined on the expressions in the body (`Body`), where it decreases.

## 4. The program dependence graph

### Modules

- `PdgBuilder` extends `CfgBuilder`: one behaviour builds the CFG of a function
  and then its PDG (`PDG::generatePDG`). `code` is the function with its
  instructions. The variables and the code:

  | variable | code |
  |---|---|
  | `work` | `_dfsList`, each item with its node, `_lastNode` and `_loopsStack` |
  | `reach` | `_reachDef`: the `ReachDefinition`s that have come to a node |
  | `heap` | the `Definition` and `ReachDefinition` objects that `shared_ptr`s lead to |
  | `loops`, `entrances`, `cache` | `_loops`, `_loopsEntrances`, `_cacheDefloops` |
  | `begun` | the begin nodes added to `_loopsInsts` |
  | `pdg` | the PDG edges: source, destination, name |

  The heap is there because sharing matters: a copied `ReachDefinition` has
  its own variables and shares the operands on its stack, `local.set` makes a
  variable of the operand's own object, and `advance` hands the object itself to
  the first successor. A `Definition` is a function from the nodes that gave a
  name to the node the value now comes from. Every `visit…Inst` is an action
  of the same name; what they share (waiting, asserts, `getReachDef`,
  `advance`) is the operator `Visit`. `visitLoopInst` is four actions, for the
  first visit and the three ways a later one returns. A visit that returns
  at `waitPaths` is `Wait`; a failed assert is `AssertFails`. Definitions that have
  come to a node are in a set of pointers, which is ordered by address: the
  model unites them in any order.
- `PdgSoundness` is the reference: along each path of `WasmExec`, a state of
  operands, variables and entered blocks, and at each instruction the flows into
  it. It knows neither waiting nor uniting nor sharing.
- `MCPdg` makes the functions, in families: every body of so many statements that
  WebAssembly's validation accepts, stack heights included (`Height`, `Fits`). A
  statement is one instruction or a short idiom (`set` is a constant and a
  `local.set`), so that four of them reach joins inside loops. `MCBodies` is what
  it shares with `MCCfg`.

### Runs

| run | functions | shows |
|---|---|---|
| `pdg_values` | `KeptOperands`: 4 statements that keep operands on the stack over blocks, ifs, loops and branches, with and without results; 43 267 states | `FlowsRecorded`: every flow of a path has its edge; `AbortNeedsCause`: asserts fail at loops with results or among operands and nowhere else |
| `pdg_loops` | `EveryKind`: 3 statements over all instructions, blocks and ifs with results, a local and a global; `AssigningLoops`: 4 statements with loops in loops, and a use at the end; 102 373 states | `PdgTypeOK`: every pointer leads to an object; `FlowsRecorded`; `NoOtherFlows`: no edge that no execution justifies; `LoopsNest` of the loop stacks; `LoopDefinitionsGrow`, which is why the passes end |
| `ast_all` (section 5) | among others `TypedLoops`: 3 statements with loops and blocks, with and without results | `Terminates` |
| `pdg_assert` | expects a violation | a loop with a result that is branched to with the result on the stack fails an assert |

`NoOtherFlows` holds without a condition. `FlowsRecorded` does not say that the
builder records every flow of every function, which is false: it is stated for the
functions that are `Favourable`. Each of its six conditions is one way the
builder loses a path, found as a counterexample of the property without it.
The hazards of waiting for definitions that never come (`pdg-builder.cc:763`), of
definitions that copies share (`pdg-builder.h:320`), of a loop's list of entrances
(`pdg-builder.cc:669`) and of a `Binary` whose operands share a name
(`pdg-builder.cc:331`) come true in functions and flows that are left out. What the
property shows is that joins, branches, loop rounds and the uniting of definitions
lose nothing otherwise:

| condition | without it |
|---|---|
| `NoDeadEdges` | dead code has CFG edges too, and a node counts on definitions from them that never come: `block (block (br 1))` and what follows |
| `GraphFollows` | a join that the CFG builder has lost |
| `LoopsTurn` | a loop without a branch back has no second pass, and only that leaves a loop (as in `src/tests/wat/loop.wat`) |
| `NoInnerEnds` | the end of a loop has no edge in the syntax tree, so that it counts as outside of the loop around, and the outer pass stops there |
| `JoinsKeepPace` | a node counts definitions, not the edges they came along: two passes of a loop into one arm of an if make the join go on without the other arm |
| `ForksCarryNothing` | the operand that a `br_if` takes to a block's end is the same object as the one that stays, which a `Unary` changes in place |

Two losses are by design and `Recorded` allows them: a variable that only
some paths have assigned does not keep its initial value's name, and two operands of
a `Binary` that share a name get one edge.

Bounds: three statements are a branch in a structured statement with one beside
it; the use at the end and the reads of `br_if` and `if` see what comes out. Four
statements reach a join inside a loop and a loop inside a loop. One variable
suffices where the definitions of different variables do not meet; `EveryKind`
has a local and a global.

Fairness: `WF(PNext)`, as for the CFG builder: one sequential program.

### Proofs

`PdgBuilderProofs` proves three theorems of `PSpec`, for every set of functions
(`ProgramsAssumption`: `IsBody`, operations of the right types, and variables
that exist), every number of variables, and loops of any depth:

| theorem | property |
|---|---|
| `PdgTypeCorrect` | `[]PdgTypeOK`: every pointer leads to an object |
| `LoopsAlwaysNest` | `[]LoopsNest`: the loop stacks that travel with the work list are nested |
| `LoopDefinitionsAlwaysGrow` | `LoopDefinitionsGrow`: what a loop keeps loses no name from step to step |

The inductive invariant is `PdgInvs`, a conjunction of three:

- `PdgInv`, the types. They have to say more than `PdgTypeOK`: that the heights
  of the labels on a stack do not fall and do not exceed the stack (`Ordered`,
  else `popLabel` and `SubSeq` could make operands of nothing), that a loop that
  has definitions has a cache (`visitLoopInst` copies it without asking), that
  the CFG is finite (`advance` puts the successors in an order), and the types
  of the CFG builder, which runs before in the same behaviour.
- `OwnDefs`: the object that a loop keeps has come in at no node and is no cache,
  and the definitions of its variables are no other object's. Without it growth
  cannot be proved: `ClearTo` and `local.set` change objects that others point
  to, and `removeConsts` makes them smaller.
- `NestedInv`: the loops of an item are inside one another, and each has been
  visited; only begin nodes are in `begun`. The second is why a loop that is
  pushed is below the one on top: what `waitPaths` lets through is in the syntax
  tree below the top or has been added to it, and only begin nodes are added.

A visit is a chain of operations on the heap. `Changes(h, g, R)` says what each
does: it changes the objects of the `ReachDefinition`s `R` and makes new ones, and
what it makes is well formed. It holds of `push`, `pop`, `Put`, `pushLabel`,
`popLabel` under operands, `Copies` and `unionDef`, and of chains of them
(`ChangesAfterChanges`). The actions are then sorted (`VisitsOfNone`, `VisitsOfOne`,
`VisitsOfMore`, the four of `visitLoopInst`), and each is shown to be a
`GoesOn`, from which the three parts of the invariant follow once for all.

`Below`, `unionDef` and `getReachDef` are recursive; the model writes them as
recursive functions. Their values are found by the induction on a rank in
`CommonLemmas` (`Recursive`, `Iteration`), which is proved there by induction over
a set of numbers.

## 5. The syntax tree, and the three builders

`AstBuilder` is `AST::construct` for one function, and then, in the same
behaviour, the CFG and the PDG builder (`generateCPG` calls the three in this
order). The function is the `code` that `PdgBuilder` has chosen. `open` is the
stack of activations of `construct(ExprList)`, each with its `expStack` and
`expList`; `created` is the sequence of nodes by identifier; `ast` is the edges.

| code | actions |
|---|---|
| `generateAST` for one function, before and after `construct` | `BeginBody`, `endBody` (with the result that goes to the return node) |
| a case without lists of its own | `constructInst` |
| `case Block`, `case Loop` | `constructBlock`, `endBlock` |
| `case If` | `constructIf`, `beginElse`, `endIf` |
| an assert on the number of arguments; `back()` of an empty vector | `AstFails` |

`nargs` is `wabt::ModuleContext::GetExprArity`, which knows no dead code: after
a jump, validation accepts an instruction whose arguments nobody pushes, and
the assert fails. A missing result of a function is read with `back()` of
an empty vector, which is undefined; a failure stands for it.

The models of the CFG and the PDG take three things of the AST for granted:
that BFS over it finds the instructions of a function and only those, which
nodes lie below a loop (`ASTBelow`), and that identifiers come in the order of
the text (`Rank`). `AstIsTheBody` is what makes that so.

| run | functions | shows |
|---|---|---|
| `ast_all` | 5 families of at most 4 statements: operations of every arity among blocks and ifs; jumps with operands around them and dead code behind; tables; arguments made by calls and by structured expressions; typed loops; 30 886 states | `AstIsTheBody`: when the AST is done it is one tree (`OneTree`) with the body of every loop below it (`LoopsHoldTheirBodies`), identifiers in order (`IdsInOrderOfRank`), and an expression's arguments its first children in the order in which they were pushed (`ArgumentsInOrder`), as the queries that take "argument number *n*" need; where the builder dies there is dead code. `Terminates`: the three builders end |

Bounds: an argument that is itself a call, a block or an if with arguments is
four statements; that is every way in which `expStack` is used at two levels.
Deeper nesting repeats the same two activations.

Fairness: `WF(ANext)`, one sequential program.

## 6. The searches

`QuerySearch` is `Query::BFS` and `Query::BFSincludes`. `adj` is the graph one
search sees: the edges its condition accepts, reversed if asked for. The
actions are the call (`BFS`, `TakeStarts`, `IncludeStarts`), the two ways an
iteration of the loop goes (`Skip`, `Visit`) and its end (`Finish`). The code
takes neighbours in the order of identifiers; the model takes them in any order.

| run | bounds | shows |
|---|---|---|
| `query_all` | every graph on 3 nodes, every set of starts and of wanted nodes, limits 0 to 4, 1 825 609 states | `SearchIsSound`, `SearchIsComplete`, `NearestFirst` (what `verifyMallocConst` and `boBuffsStatic` need of limit 1), `WithinLimit`, `ShortOnlyByOverlap`, and `Terminates` under weak fairness of the sequential program |

Three nodes give cycles, self loops, two paths of different length to one
node, and starts that are reached again. Of the graphs that differ only in the
names of the nodes `MCGraphs` keeps one: no definition orders the nodes, and
every choice of starts, wanted nodes and orders is still made.

`QuerySearchProofs` proves, for every finite set of nodes (`NodeAssumption`), every
graph on it (`GraphsAssumption`) and natural limits (`LimitsAssumption`), all that
the run checks but termination: `SearchTypes`, `SearchSound`, `SearchComplete`,
`AnswerWithinLimit`, `SearchNearestFirst` and `ShortByOverlapOnly`.

- The invariant `SearchInv` says where the frontier is: while the search runs,
  every edge from a start or a visited node leads to a node visited or queued
  (`Frontier`); all that was seen lies in every set closed under edges
  (`Confined`); and what was found and included fits the limit (`Budget`).
- That the nearest come first is not inductive either, and needs to know how the
  queue is ordered. `Layered`: there is a distance *d* such that all that is
  nearer has been visited and nothing that is further away; the first so many
  in the queue are at distance *d* and, with the visited, are all that is; the rest
  is one edge further. A queue that is not first in, first out breaks it at once.
- `Spent`: `BFS` runs with exactly what `BFSincludes` has not taken of the limit.
  An answer that is short has then not met its limit, so that the queue is
  empty, by `SearchInv` all that is reachable was visited, and what is missing was
  counted as a start.

The distances are the recursive function `Within`. No induction theorem of the
library can be applied to it; `WithinIs` proves its two equations from its
definition: the least set of pairs that contains the starts at 0 and goes on along the
edges (`WithinRules`, `WithinSet`) is a function's graph, so that there is a function
with the equations and `CHOOSE` returns one. `ReachableClosed` and `DepthIs` follow.

## 7. The interpreter's scopes

`EvalScopes` is the evaluator with its two symbol tables. `symTab` and `funcTab`
are the `_contexts` of `_symTab` and `_funcTab`, of each context the names in it;
`frames` is the C++ stack of the visits that matter, each with the `level` it
has recorded; `mode` is the exception under way, if any. The program is not
fixed: at each point comes any construct that the grammar allows there.

| code | actions |
|---|---|
| `visitBlockNode`, `visitForeach`, `visitFilterExprNode`, up to the body and after it | `visitBlockNode`, `EndBlock`; `visitForeach`, `EndForeach`; `visitFilterExprNode`, `EndFilter` |
| `visitWhileNode`: the condition, the `try` around the body, the end | `visitWhileNode`; `BeginBody`, `EndBody`; `EndWhile` |
| `visitFunction`; `visitFunctionCall` with the function's block | `visitFunction`; `visitFunctionCall`, `EndCall` |
| `visitAssignExpr`, the throws | `visitAssignExpr`, `visitJump` |
| stack unwinding; the `while (level)` loops of the handlers; what comes after them | `Drop`; `Unwind`; `CatchContinue`, `CatchBreak` |
| `InterpreterException` and its `catch` in `wasmati-query`; the interactive loop; a throw nobody catches | `Error`; `Line`, `EndLine`; `Uncaught` |

What the code does, and the model with it: the handlers restore `_symTab` only,
so that each block cut by a jump leaves a context on `_funcTab` (`FunctionsStay`
says the error is always on that side); an error leaves its contexts on both
tables and the interactive loop goes on with them; a `break` in a function is
caught by a loop of the caller; one in a function called from a `while`'s
condition is not caught by that `while`.

`ScopeStack` is the specification: constructs with a scope each, a jump that
discards at once what it leaves, an error that leaves the scopes where they are.
It knows no table, level or unwinding. The mapping (`Scopes`) makes a jump when
it is thrown: while the exception travels, the stack is already cut.

| run | bounds | shows |
|---|---|---|
| `eval_all` | programs of nesting depth 3, tables of 4 contexts, one variable, one function, any number of lines, 267 142 states | `ScopesAreNesting`, `CurrentIsInnermost`, `HandlersReachable`, `FunctionsStay`, `JumpsArrive`; the evaluator implements `ScopeStack` (`ScopesSpec`) |

Depth 3 is a call with its block in a loop, or a loop in a call: the smallest
programs in which a handler has to pop several contexts, or a jump has to cross
a function. One name is enough for shadowing, as names do not interact.

Fairness: `WF(Handle)`: the C++ runtime goes on unwinding and the handlers'
loops run. Nothing is assumed of the program, which may loop for ever.
A jump that nothing catches ends the program, so deadlock is not checked.

`EvalScopesProofs` proves `EvalTypeCorrect` and the four properties of the levels
(`ScopesAlwaysNest`, `AlwaysInnermost`, `HandlersAlwaysReach`, `FunctionsAlwaysStay`)
for every set of names and every depth; the bounds `MaxFrames` and `MaxContexts`
are natural numbers (`BoundsAssumption`), which no proof uses. The four are
inductive together, given the types (`LevelInv`). The proof sorts the steps by what
they do to the levels (`StepKinds`): a visit begins (`Opens`, or
`visitFunctionCall` with two), one ends (`Closes`), none of both (`Keeps`), and
`Drop`, `Unwind` and `Error`. `HandlersReachable` is what makes `Unwind` stop at the
recorded level instead of below it, and `ScopesAreNesting` what carries it over
`Drop`.

It also proves `EvalImplementsScopes`, `Spec => ScopesSpec`: for
programs of any depth, after any jumps and errors, the names in the tables are
those that scopes which begin and end with their constructs would hold. The
invariant of the mapping is `TypeOK /\ LevelInv`. Its steps, each with a lemma:

- a visit that begins pushes contexts on top of those of the constructs around
  it, and leaves those alone (`Agree`: two tables have the same lower contexts;
  `push`, `pop` and `insert` change the top one only), so that it is one `Enter`;
- a visit that ends is a `Leave`, and one that changes from condition to body a
  `Turn`;
- an assignment that makes a variable puts it in the top context, which is, by
  `CurrentIsInnermost`, that of the innermost construct with a scope: `Bind`.
  A name that the table has not, no scope has;
- `visitJump` is `Jump`: `Cut` finds the construct that catches it, the innermost
  by `Catches`, and the abstract stack is cut there at once. `Drop`, `Unwind` and
  the handlers' ends then change no scope: they are stutters, the visits above the
  one that catches being no part of the mapped state;
- `Error` is `Fail`: what stays on the table are the contexts of the constructs in their
  order, and those of the lines before are a prefix of it.

`Fail` says which scopes an error leaves behind by placing each of them, in
order, behind those that were left before, rather than by computing the new
sequence: the proof then names a place for each construct, its recorded level.

## 8. The graph on file

### Modules

- `GraphRows` is `graph.h`'s kinds of node, with the properties that each
  class overrides, and the two translations: `NodeRow` and `EdgeRow` (the visits
  of `CSVWriter`), `parseNode` and `parseEdge` (`CSVReader`). The map that
  a visit fills has one key for two columns (`isExport` is the macro of
  `isImport`), so that the later assignment replaces the earlier one. Names and
  labels are empty, plain, or have a comma, a newline or a NUL (`Texts`);
  `Printed` is what `writeNode` makes of them. A newline is printed as it is and
  splits the row: `NodeLines` and `EdgeLines` are the numbers of columns in the
  lines it then makes. An offset is one that an `int` can hold or not (`Offsets`);
  `Parses` is what `std::stoi` and the maps of types accept.
- `GraphWriters` is `writeGraph` of the three writers: one node per step, in the
  order of identifiers (`WriteRows`, `WriteDot`, `WriteJson`, and
  `WriteJsonEdges` for the second loop of JSON). `Skipped` and `Selected` are the
  two tests that the options make: the loop that was asked for, and the parts
  of the graph.
- `RowReader` is `readLine`: a refill (`Refill`) overwrites the first bytes of the
  buffer only, a scan ends at a newline (`ReturnRow`), at the end of what was
  given (`EndOfFile`) or of the buffer (`GoOn`, the recursive call). A
  byte is a pair of its line and place, so that what is read can be compared
  with what was written; the end of a line is `<<0, 0>>`.
- `GraphFile` composes them: `readGraph` over the lines (`Lines`) of the file that
  the writer has made, with its asserts and the exceptions that nothing catches
  (`RowRefused`, `EndRead`).

Of the numbers in a row only the offset can be one that its reader refuses. The
others count nodes, parameters or bytes of one graph, and are taken to fit an
`int`. Integer constants are printed as signed numbers (`writeConst`) and read with
`stoi` and `stol`, which hold them again, and the text that `%f` makes of a float is
one that `stof` and `stod` take. Vector and reference constants end the writer by
an assertion before there is a file, and are not modelled.

### Runs

| run | graphs | shows |
|---|---|---|
| `file_all` | `EachKind`: every kind of node with every choice of its properties; `EachLabel`: every label of an edge, written or left out; `Parts`: three nodes with up to 2 of 9 edges, in every part, loop and format; `Lengths`: 1 to 3 rows of 1, 2, 3 and 6 bytes in a buffer of 4; 69 769 states | `WrittenGraphIsWhole`: no edge without its nodes, and every JSON node lists its own edges; `ReadIsWritten`: what is read to the end is what was written, up to `OnFile`; `FailsForCause`: reading fails for the causes in `NotReadable` and then always; `ReadingEnds` |
| `file_assert` | expects a violation | `assert(file->last > 0)` fails on files that the writer has written |

What the format loses (`OnFile`): commas in names and labels become `_`, what
follows a NUL in them is gone, a float keeps six decimals, and `isImport` comes
back as `isExport`. What cannot be read (`NotReadable`; `FailsForCause` is violated
without any one of these causes):

- a graph of which nodes were left out, as the constructors assert that identifiers
  count up and `parseEdge` that an edge's ends are nodes;
- a graph with a newline in a name or label that is written (`Breaks`,
  `EdgeBreaks`): `writeNode` and `writeEdge` replace commas only
  (`csv-writer.h:419-420, 438`), the row comes back as two lines, and the assert on
  the number of columns (`csv-reader.h:230, 393`) fails;
- a graph with a load or store whose offset is 2^31 or more (`Breaks`): the writer
  prints it with `std::to_string` as the unsigned number it is
  (`csv-writer.h:342`), the reader takes it with `std::stoi` (`csv-reader.h:324,
  328`), which throws, and nothing catches it;
- a file whose end `readLine` does not see, because its length is a multiple of the
  buffer's or because the byte after its end still holds a newline of the refill
  before (rows of that refill may then come again, until one is refused or the
  assert on `last` fails).

In JSON an edge is put at the *position* of its ends' identifiers: if nodes are
left out it lands on another node, or on a null that the library appends.
`NodesListTheirEdges` therefore asks for `NoGap`. With a loop asked for, edges
leave it for nodes that are not written; `EdgesJoinWrittenNodes` is stated
without.

Bounds: a buffer of four bytes with rows from one byte to more than a buffer
makes every position of a row's end in a buffer, rows over one and over two
refills, and files of more than two buffers; a last row of two bytes is what makes
the byte behind the end an old newline. Two edges are the least that
can be equal, sort, or share a node; three nodes are the least with a node
left out before another.

Fairness: `WF(FNext)`, sequential programs on a file that is there.

### Proofs

`GraphFileProofs` proves all three safety properties of `FSpec`, for every
buffer (`BufferAssumption`: of one byte or more) and all graphs, options and
lengths of rows (`InputsAssumption`: `IsInput`, identifiers count up, nodes have
the properties of their class, and edges join nodes and have the labels that
their constructors give them):

| theorem | property |
|---|---|
| `WrittenWhole` | `[]WrittenGraphIsWhole` |
| `ReadBack` | `[]ReadIsWritten` |
| `FailuresHaveCause` | `[]FailsForCause` |

The argument follows a row from the graph to the file and back.

- *Rows.* `RowParses`: `parseNode` makes of the row of a node of any class what
  `OnFile` says, and refuses it exactly if the node is one that `Breaks`; `EdgeParses` says it of edges. Two classes need an
  argument of their own: `Function`, whose map loses the value of `isImport` to
  `isExport`, and `Const`, which fills one of two columns.
- *Writers.* `WriterInv`: every node selected and passed is written; the edges
  written are those due, no fewer and no others; `info` counts the rows. That
  `CompareEdge` is a strict order on the edges of a node, and that an `EdgeSet`
  therefore lists every edge, is `EdgesOrdered` and `RankedIs`. `GraphInv` adds
  to it, for JSON, that the objects list the first so many edges at the
  positions of their ends (`ListsFirst`), which is what the loop of `insertEdge`
  keeps (`LoopLists`).
- *Reader.* What makes it inductive is to say where in the file the buffer is: it
  holds the bytes from `taken - last` on, a multiple of `BUFF_SIZE`, and
  behind `last` those of the refill before (`Buffered`). Between the rows *m* and
  *m + 1* the reader is `Calling`, `Returned`, `Ended`, or it has `Missed` the end
  (`Reads`, kept by `readLine` in `ReadLineKeeps`). `ScanIs` is the case analysis
  of the scan: it stops at the newline of the row it is in, at the end of the file
  only when all rows have been read, and at the end of the buffer only within a
  row. `Missed` is inductive too: from there no end is ever seen, so that the
  reader returns old rows until it fails and never reports success.
- *File.* `FileInv` goes through the stages of `readGraph`: after *m* rows, what
  has been read is what these rows say (`FirstNodes`, `FirstEdges`), and
  a stage is left only with all rows read and the end seen. The reader sees lines
  and not rows: `FlattenIs` says what joined sequences hold, `LinesOfRows` which
  lines a row makes, and `FirstLines` that, as long as rows are one line each, line
  *j* is row *j* and the next line begins the next row. `FirstNodes` and
  `FirstEdges` therefore also say that the rows read so far are whole. A line that is
  refused is part of a row that a newline has split, has an offset that does not
  parse, or has an identifier or ends that do not fit: each a case of `NotReadable`.
  When all has been read every row was whole and parsed, and as every edge that is on
  file was due and written (`OnFileIsDue`), no such case holds of the graph.

Rows are chosen and put in order by sets, not by an operator (`Selection` instead
of `SelectSeq`, ranks in `EdgeSet`), as an operator that takes an
operator cannot be proved about here.

## 9. The taint queries

`TaintQueries` is `VulnerabilityChecker` with five of its queries, one after the
other as in `queries.def`, each function by function. `frames` is the C++ stack of
`isTainted`: of each activation the pairs of a call and a parameter of its
caller (`Followed`) that are left to follow, in the order of calls and numbers
(`Following`); `visited` is the set of functions it passes by reference; the steps
are `BeenThere`, `FoundSource`, `Recur` and `NoneLeft`. The graph is given as what
these queries ask of it: for each argument of each call, the locals and functions
whose values flow into it and whether a constant does.

The reference knows no recursion: `Flows` are the pairs of parameters of which one
flows into the other in some call, and `Reach(p)` is the least set that contains
*p* and all that flows into it.

| run | programs | shows |
|---|---|---|
| `taint_all` | 3 functions of 2 parameters and a sink; up to 2 calls, from any of them to either of the first two, with parameters and values of no parameter as arguments, and sources named or exported; and every setting of the configuration's lists on a program with each kind of call; 869 978 states | `TaintIsReal`: a reported taint is a value that flows through calls from a source into that argument; `NothingMissed`: every one is reported, unless `Blocked`; `RecursionBounded` |

`Blocked` is what the code misses: `visited` holds names of functions, not
parameters. If two parameters of one function both lead to the argument, the
second is passed over, and a source behind it is not found. `NothingMissed`
without this condition is violated.

A call is one thing in this model, while the queries find it by AST edges in some
places and by its CG edge in others (`isTainted.cc:31-38`). Calls that the CFG
builder leaves without a CG edge, in dead code or behind a lost join (section 3),
are outside: a source that is reached only through such a call is missed by the
code, and `NothingMissed` does not speak of it.

Bounds: a chain of two calls and the sink is the shortest with a function
between source and sink; two parameters and two calls make the case in which a
function is met again through another parameter. No fairness is assumed; that
the recursion ends follows from its bound and from the marks.

`TaintQueriesProofs` proves all three for every program and configuration of the
shape that `IsProgram` says (`ProgramsAssumption`), which is what the queries read
off a valid module's graph:

- `RecursionIsBounded`: each activation but the first has marked a function that
  no other has marked, so that there are at most `Cardinality(visited) + 1`
  (`SearchTypes`, part of the type invariant `TaintTypes`);
- `TaintIsAlwaysReal`, with `SoundInv`: what any activation has still to follow
  reaches the parameter that was asked of (`SearchSound`), what is asked is an
  argument's (`QuestionsSound`), and what `TaintedLocalToFunc` has noted is so
  (`ParamsSound`);
- `NothingIsMissed`, with `CompleteInv`: while nothing has been found, whatever
  flows into a parameter the search has been to is in a function it has been to or
  is still to be followed (`SearchComplete`, which without `Blocked` would fail
  where a marked function is passed over). When nothing is left, the set of
  parameters it has been to is closed under `Flows` and `Reach` is the least such
  set, so that no source is left either (`SearchFinds`). `LocalsAsked` and
  `CopiesAsked` say for the function at hand, `PastDone` for those before it, that
  what must be reported is asked, to be asked or reported.

## 10. Where the code and its documentation disagree

Four runs expect a violation; each checks one property that the repository
states and the code does not keep.

| run | property | code |
|---|---|---|
| `cfg_lost_join` | `JoinContinues` | `cfg-builder.cc:225`: an If whose arms both branch to its own end is taken for the end of the path, and what follows is not built |
| `cfg_empty_block` | `EmptyListsAreBuilt` | `cfg-builder.cc:310`: the last expression of an empty list is taken, where comments announce "in case the block is empty" |
| `pdg_assert` | `NeverAborts` | `pdg-builder.cc:785`: the assert of `unionDef` fails on a valid function with a loop that has a result |
| `file_assert` | `LastIsPositive` | `csv-reader.h:93`: a file whose length is a multiple of the buffer's is read beyond its end |

## 11. What is only model-checked

- `Completes`, `Terminates`, `JumpsArrive`, `ReadingEnds`: liveness under fairness.
- `FlowsRecorded`, `NoOtherFlows` and `AbortNeedsCause`: they compare with the
  closure of a recursive step over paths (`PdgSoundness`), and stay with TLC, as
  does `AstIsTheBody` (descendants).

All other properties that the runs check, of the CFG builder, of the PDG builder
itself, of the searches, of the interpreter's tables, of the writers and the reader
and of the taint queries, are also theorems.

## 12. What is not modelled, and why

- Of the AST builder: the nodes of a function's signature, parameters and
  locals, which no other builder walks.
- Of the CFG builder: verbose output, and the choice of one function by name
  (`cfg-builder.cc:29-33`). The model's blocks have no parameters.
- Of the PDG builder: verbose output, and the state between functions (the
  model builds one). An assert that fails ends the model; in a build with
  `NDEBUG` the builder would go on.
- Of the interpreter: values, operators and the built-in functions, which
  call the query engine and change no table; `if` and `import`, which change
  none either.
- `Query::DFS` is called by nothing in the repository; the filters and maps
  are set comprehensions inside the definitions above.
- The predicates and node streams of the query engine are pure tests and chains of
  the searches; the wanted nodes of `QuerySearch` stand for what they select.
- The queries on buffers, `malloc` constants and loops match constants and opcodes,
  which the models of the graph do not keep; those on frees, indirect calls
  and unreachable code are commented out in `queries.def` or in no list.
- `datalog-writer.h` is used by nothing: `--datalog` is `CSVWriter` with default
  values in place of empty columns, a variant that is left out. The wording and
  colours of dot files are left out.
- What an invalid module does: the tool overwrites the result of the validation
  (`tools/wasmati.cc:309`) and goes on.
- Option parsing, measurements, charts and the container.
- wabt, libzip and json are external: wabt's bodies and arities, WebAssembly's
  execution, what `zip_fread` returns and what `[]` of a JSON array does are
  modelled as far as the code relies on them.
- The rest is on the plan above; `PROJECT.json` lists each component with its
  state and the hazards no property covers yet.
