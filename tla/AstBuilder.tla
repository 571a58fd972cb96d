----------------------------- MODULE AstBuilder -----------------------------
(***************************************************************************)
(* wasmati::AST: the syntax tree of a function (ast-builder.cc), and the     *)
(* three builders one after the other.  construct goes through an expression *)
(* list with a stack of the nodes whose value is not used yet (expStack) and *)
(* a list of those that have none (expList); an expression takes its          *)
(* arguments from the stack as its children, and what is left when the list  *)
(* ends becomes the children of the list's holder.                           *)
(*                                                                          *)
(* The stack of activations of construct is made explicit.  The CFG and PDG  *)
(* builders refer to the nodes by what they stand for: that they may, that    *)
(* the tree below a loop is its body and that identifiers come in the order  *)
(* that Rank gives is shown here.                                            *)
(***************************************************************************)
EXTENDS PdgSoundness

VARIABLES
  open,     \* the activations of construct(ExprList), the innermost last
  created,  \* the nodes in the order of their identifiers
  ast,      \* the AST edges, <<parent, child>>
  tree      \* "start", "construct", "done", or "aborted" by a failed assert

astVars == <<open, created, ast, tree>>

\* The node of expression e in the tree.  Every Return has one of its own here.
TreeNode(e) == IF fn.kind[e] = "Block" THEN EndBlock(e) ELSE Inst(e)
Else(e)     == <<"Else", e>>

Activation(l, holder) ==
  [list |-> l, at |-> 1, expStack |-> <<>>, expList |-> <<>>, holder |-> holder]

AInit == PInit /\ open = <<>> /\ created = <<>> /\ ast = {} /\ tree = "start"

-----------------------------------------------------------------------------
(* wabt::ModuleContext::GetExprArity, and what construct makes of it.        *)

\* The results that a jump of e to the label takes along.
LabelArity(e, l) ==
  LET b == Binder(fn, e, l)
  IN  IF b = 0 THEN code.nresults
      ELSE IF fn.kind[b] = "Loop" THEN 0 ELSE code.op[b].nresults

nargs(e) ==
  LET k == fn.kind[e]  i == code.op[e].inst
  IN  CASE k \in Calls   -> code.op[e].nargs
        [] k = "Return"  -> code.nresults
        [] k = "BrTable" -> 1 + LabelArity(e, Last(fn.targets[e]))
        [] k \in {"BrIf", "If"} -> 1
        [] i \in {"Drop", "LocalTee", "Load", "MemoryGrow", "Unary", "Convert"} \cup Sets -> 1
        [] i \in {"Binary", "Compare", "Store"} -> 2
        [] i = "Select" -> 3
        [] OTHER -> 0

\* Whether e's node goes to the stack: a Return's does, the other jumps' not.
HasValue(e) ==
  LET k == fn.kind[e]
  IN  \/ k = "Return"
      \/ k \in Calls \cup Structured /\ code.op[e].nresults = 1
      \/ k = "Plain" /\ code.op[e].inst \notin {"Drop", "Store", "Nop"} \cup Sets

-----------------------------------------------------------------------------
Within    == Last(open)
ListOver  == tree = "construct" /\ Within.at > Len(fn.list[Within.list])
Reads(e, kinds) ==
  /\ tree = "construct" /\ Within.at <= Len(fn.list[Within.list])
  /\ e = fn.list[Within.list][Within.at] /\ fn.kind[e] \in kinds

\* variant: the arguments are taken from the bottom of the stack.
Args_front(e) == SubSeq(Within.expStack, 1, nargs(e))

Args(e) == LET n == Len(Within.expStack)
           IN  SubSeq(Within.expStack, n - nargs(e) + 1, n)

ChildEdges(parent, ns) == {<<parent, n>> : n \in ToSet(ns)}

\* Activation a without e's arguments, and without e.
Taken(a, e)  == [a EXCEPT !.expStack = SubSeq(@, 1, Len(@) - nargs(e))]

\* Activation a after e, whose node is used later or has no value.
Passed(a, e) ==
  LET b == [a EXCEPT !.at = @ + 1]
  IN  IF HasValue(e) THEN [b EXCEPT !.expStack = Append(@, TreeNode(e))]
      ELSE [b EXCEPT !.expList = Append(@, TreeNode(e))]

BeginBody ==
  /\ tree = "start" /\ tree' = "construct"
  /\ created' = <<InstsNode, RetFunc>>
  /\ open' = <<Activation(RootList, InstsNode)>>
  /\ UNCHANGED ast

\* An expression without lists of its own.
constructInst(e) ==
  /\ Reads(e, Kinds \ Structured) /\ nargs(e) <= Len(Within.expStack)
  /\ created' = Append(created, TreeNode(e))
  /\ ast' = ast \cup ChildEdges(TreeNode(e), Args(e))
  /\ open' = Append(Front(open), Passed(Taken(Within, e), e))
  /\ UNCHANGED tree

constructBlock(e) ==
  /\ Reads(e, {"Block", "Loop"})
  /\ created' = Append(created, TreeNode(e))
  /\ open' = Append(open, Activation(<<e, "body">>, TreeNode(e)))
  /\ UNCHANGED <<ast, tree>>

constructIf(e) ==
  /\ Reads(e, {"If"}) /\ nargs(e) <= Len(Within.expStack)
  /\ created' = created \o <<Inst(e), EndBlock(e), ThenBegin(e)>>
  /\ ast' = ast \cup ChildEdges(Inst(e), Args(e)) \cup {<<Inst(e), EndBlock(e)>>}
  /\ open' = Front(open) \o <<Taken(Within, e), Activation(<<e, "then">>, EndBlock(e))>>
  /\ UNCHANGED tree

\* variant: what is left on the stack is given to nobody.
Held_listed == ChildEdges(Within.holder, Within.expList)

\* What the list that is over gives to its holder.
Held == ChildEdges(Within.holder, Within.expList \o Within.expStack)

\* Back in the activation that e belongs to.
Leave(e) == LET outer == Front(open)
            IN  open' = Append(Front(outer), Passed(Last(outer), e))

\* A BlockInst's BeginBlockInst is made after what is inside, and has no edge.
endBlock(e) ==
  /\ ListOver /\ Within.list = <<e, "body">>
  /\ created' = IF fn.kind[e] = "Block" THEN Append(created, Inst(e)) ELSE created
  /\ ast' = ast \cup Held
  /\ Leave(e)
  /\ UNCHANGED tree

HasElse(e) == fn.list[<<e, "else">>] # <<>>

beginElse(e) ==
  /\ ListOver /\ Within.list = <<e, "then">> /\ HasElse(e)
  /\ created' = Append(created, Else(e))
  /\ ast' = ast \cup Held \cup {<<Inst(e), Else(e)>>}
  /\ open' = Append(Front(open), Activation(<<e, "else">>, Else(e)))
  /\ UNCHANGED tree

endIf(e) ==
  /\ ListOver
  /\ Within.list = <<e, "else">> \/ (Within.list = <<e, "then">> /\ ~HasElse(e))
  /\ ast' = ast \cup Held
  /\ Leave(e)
  /\ UNCHANGED <<created, tree>>

\* The function's result is the last value, unless the body ends in Unreachable
\* and there is none.
WantsResult ==
  /\ code.nresults = 1
  /\ ~(/\ fn.list[RootList] # <<>> /\ fn.kind[Last(fn.list[RootList])] = "Unreachable"
       /\ Within.expStack = <<>>)

endBody ==
  /\ ListOver /\ Within.list = RootList
  /\ WantsResult => Within.expStack # <<>>
  /\ LET result == IF WantsResult THEN {Last(Within.expStack)} ELSE {}
     IN  ast' = ast \cup {<<p, n>> \in Held : n \notin result}
                    \cup {<<RetFunc, n>> : n \in result} \cup {<<InstsNode, RetFunc>>}
  /\ tree' = "done" /\ open' = <<>>
  /\ UNCHANGED created

\* An argument is missing: the assert of construct(Expr) fails.  A result is
\* missing: back() of an empty vector, which is undefined.
AstFails ==
  /\ \/ \E e \in Exprs : Reads(e, Kinds) /\ nargs(e) > Len(Within.expStack)
     \/ ListOver /\ Within.list = RootList /\ WantsResult /\ Within.expStack = <<>>
  /\ tree' = "aborted" /\ phase' = "aborted"
  /\ UNCHANGED <<open, created, ast, code, work, reach, heap, loops, entrances, cache,
                 begun, pdg>>

construct(e) == \/ constructInst(e) \/ constructBlock(e) \/ constructIf(e)
                \/ endBlock(e) \/ beginElse(e) \/ endIf(e)

generateAST == \/ (BeginBody \/ endBody \/ \E e \in Exprs : construct(e)) /\ UNCHANGED pdgVars
               \/ AstFails

\* The three builders, one after the other.
ANext == \/ generateAST /\ UNCHANGED vars
         \/ tree = "done" /\ PNext /\ UNCHANGED astVars

\* One sequential program, which nothing stops.
ASpec == /\ AInit /\ [][ANext]_<<vars, pdgVars, astVars>>
         /\ WF_<<vars, pdgVars, astVars>>(ANext)
-----------------------------------------------------------------------------
Parents(n) == {p \in ToSet(created) : <<p, n>> \in ast}

DownFrom(S) == S \cup {n \in ToSet(created) : Parents(n) \cap S # {}}
Descendants(n) ==
  LET U[k \in Nat] == IF k = 0 THEN {n} ELSE DownFrom(U[k - 1])
  IN  U[Len(created)]

\* The begin nodes are found through their expressions, not in the tree.
InTree(n) == n # InstsNode /\ n[1] # "then" /\ ~(n[1] = "inst" /\ fn.kind[n[2]] = "Block")

OneTree ==
  /\ \A n \in ToSet(created) : InTree(n) => Cardinality(Parents(n)) = 1
  /\ \A n \in ToSet(created) : InTree(n) => n \in Descendants(InstsNode)

\* Of the nodes below, those that the CFG knows: not an Else, nor a Return's own.
InGraph(n) == n[1] # "Else" /\ ~(n[1] = "inst" /\ fn.kind[n[2]] = "Return")

LoopsHoldTheirBodies ==
  \A e \in Exprs : fn.kind[e] = "Loop" /\ Inst(e) \in ToSet(created) =>
    {n \in Descendants(Inst(e)) : InGraph(n)} = ASTBelow(Inst(e))

IdsInOrderOfRank ==
  LET known == SelectSeq(created, LAMBDA n : InGraph(n) /\ n # InstsNode)
  IN  \A i, j \in DOMAIN known : i < j => Rank(known[i]) < Rank(known[j])

\* The values on the operand stack of list l after its first i expressions,
\* counted.
Values(l, i) ==
  LET H[j \in Nat] == IF j = 0 THEN 0
                      ELSE LET e == fn.list[l][j]
                           IN  H[j - 1] - nargs(e) + (IF HasValue(e) THEN 1 ELSE 0)
  IN  H[i]

\* Before the first jump of list l, which makes what follows it dead.
Alive(l, i) == \A j \in 1 .. i - 1 :
  fn.kind[fn.list[l][j]] \notin {"Br", "BrTable", "Return", "Unreachable"}

\* The expression of list l before position i whose value is the h-th there.
Source(l, i, h) ==
  LET made == {j \in 1 .. i - 1 : /\ Values(l, j) = h /\ HasValue(fn.list[l][j])}
  IN  fn.list[l][MaxOf(made)]

\* The children of e, by their identifiers, begin with its arguments in order.
ArgumentsInOrder ==
  \A l \in Lists : \A i \in DOMAIN fn.list[l] :
    LET e == fn.list[l][i]
        ns == SelectSeq(created, LAMBDA n : <<TreeNode(e), n>> \in ast)
    IN  Alive(l, i) =>
          \A k \in 1 .. nargs(e) :
            ns[k] = TreeNode(Source(l, i, Values(l, i - 1) - nargs(e) + k))

\* The AST that the CFG builder begins with is one tree of all the instructions, so
\* that BFS over AST edges finds every one of them, and those below a Loop are
\* its body; a node's children begin with its arguments in their order, which
\* the queries take by number; and the nodes have identifiers in the order of
\* the text.  Where the builder dies, the body has dead code.
AstIsTheBody ==
  /\ tree = "done" /\ pc = "start" => /\ OneTree /\ LoopsHoldTheirBodies
                                      /\ IdsInOrderOfRank /\ ArgumentsInOrder
  /\ tree = "aborted" => \E l \in Lists : ~Alive(l, Len(fn.list[l]) + 1)
=============================================================================
