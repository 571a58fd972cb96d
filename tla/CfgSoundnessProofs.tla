------------------------- MODULE CfgSoundnessProofs -------------------------
(***************************************************************************)
(* The control flow graph is sound and precise: for every set of function   *)
(* bodies, of any size and depth, the graph that the builder leaves has an  *)
(* edge for each step an execution can take, and no other edge where an     *)
(* execution can come, unless the function loses a join (LosesJoin).        *)
(*                                                                          *)
(* The argument is that of a search.  While construct runs, every node that *)
(* an edge leads to has all its edges (it is settled), or construct has it  *)
(* in hand (it is busy), or the edge it lacks is owed by the end of a list  *)
(* that is still to be linked (it is due).  In the end no node is either.   *)
(*                                                                          *)
(* It rests on how a body is nested and ordered (its recursive operators    *)
(* are unfolded by induction on the text), and on where construct is in it. *)
(* The levels of the recursion are the lists around the current expression; *)
(* what is outside and later in the text has not been met; a list that is   *)
(* reported as unreachable is one that something in it stops.               *)
(***************************************************************************)
EXTENDS CfgBuilderProofs, CfgSoundness

-----------------------------------------------------------------------------
(* Bodies. *)

\* An expression has one place, the one that Holder and Position find.
LEMMA HolderIs ==
  ASSUME NEW f, IsBody(f), NEW l \in Lists, NEW i \in 1..Len(f.list[l])
  PROVE  /\ InBody(f, f.list[l][i])
         /\ Holder(f, f.list[l][i]) = l
         /\ Position(f, f.list[l][i]) = i
<1> DEFINE e == f.list[l][i]
<1>1. i \in DOMAIN f.list[l]
  BY BodyParts
<1>2. InBody(f, e)
  BY <1>1 DEF InBody
<1>3. \A m \in Lists : \A j \in DOMAIN f.list[m] : f.list[m][j] = e => m = l /\ j = i
  BY <1>1 DEF IsBody, IsTree
<1>4. Holder(f, e) = l
  BY <1>1, <1>3 DEF Holder
<1>5. Position(f, e) = i
  BY <1>1, <1>3, <1>4 DEF Position
<1> QED
  BY <1>2, <1>4, <1>5

\* An expression of the body is the element of its holder at its position,
\* and its number is greater than that of the holder's owner.
LEMMA HolderOf ==
  ASSUME NEW f, IsBody(f), NEW e, InBody(f, e)
  PROVE  /\ e \in Exprs /\ Holder(f, e) \in Lists
         /\ Position(f, e) \in 1..Len(f.list[Holder(f, e)])
         /\ f.list[Holder(f, e)][Position(f, e)] = e
         /\ Holder(f, e)[1] \in Nat /\ Holder(f, e)[1] < e
         /\ Holder(f, e) # RootList => Holder(f, e)[1] \in Exprs
<1> PICK l \in Lists : \E i \in DOMAIN f.list[l] : f.list[l][i] = e
  BY DEF InBody
<1> PICK i \in DOMAIN f.list[l] : f.list[l][i] = e
  OBVIOUS
<1>1. i \in 1..Len(f.list[l]) /\ e \in Exprs
  BY BodyParts
<1>2. Holder(f, e) = l /\ Position(f, e) = i
  BY <1>1, HolderIs
<1>3. l[1] < f.list[l][i]
  BY DEF IsBody, InTextOrder
<1>4. l[1] \in Nat
  BY BodyParts
<1> QED
  BY <1>1, <1>2, <1>3, <1>4, BodyParts

\* The last expression of a list that is not empty.
LEMMA LastOfList ==
  ASSUME NEW f, IsBody(f), NEW l \in Lists, f.list[l] # <<>>
  PROVE  /\ Len(f.list[l]) \in 1..Len(f.list[l])
         /\ Last(f.list[l]) = f.list[l][Len(f.list[l])]
         /\ Last(f.list[l]) \in Exprs
         /\ l[1] < Last(f.list[l])
         /\ Holder(f, Last(f.list[l])) = l
         /\ IsLastOfList(f, Last(f.list[l]))
<1>1. f.list[l] \in Seq(Exprs)
  BY BodyParts
<1>2. Last(f.list[l]) \in Exprs /\ Len(f.list[l]) \in Nat \ {0}
  BY <1>1, LastIsElement
<1>3. Len(f.list[l]) \in 1..Len(f.list[l]) /\ Last(f.list[l]) = f.list[l][Len(f.list[l])]
  BY <1>2 DEF Last
<1>4. /\ Holder(f, Last(f.list[l])) = l
      /\ Position(f, Last(f.list[l])) = Len(f.list[l])
  BY <1>3, HolderIs
<1>5. l[1] < Last(f.list[l])
  BY <1>3, BodyParts DEF IsBody, InTextOrder
<1> QED
  BY <1>2, <1>3, <1>4, <1>5 DEF IsLastOfList

\* LastExpr is what its definition says.
LEMMA LastExprUnfolds ==
  ASSUME IsBody(fn)
  PROVE  /\ LastExpr \in [Exprs -> Exprs]
         /\ \A e \in Exprs :
              LastExpr[e] = IF fn.kind[e] = "Loop" /\ fn.list[<<e, "body">>] # <<>>
                            THEN LastExpr[Last(fn.list[<<e, "body">>])]
                            ELSE e
<1> PICK n \in Nat : \A e \in Exprs : e <= n
  BY ExprsBounded
<1> DEFINE Deeper(e) == fn.kind[e] = "Loop" /\ fn.list[<<e, "body">>] # <<>>
           Inner(e)  == Last(fn.list[<<e, "body">>])
           r == [e \in Exprs |-> n - e]
           F == [e \in Exprs |-> [g \in [Exprs -> Exprs] |->
                   IF Deeper(e) THEN g[Inner(e)] ELSE e]]
<1>1. \A e \in Exprs : e \in Nat
  BY ExprsAssumption
<1>2. \A e \in Exprs : Deeper(e) => Inner(e) \in Exprs /\ e < Inner(e)
  <2>1. \A e \in Exprs : <<e, "body">> \in Lists /\ <<e, "body">>[1] = e
    BY DEF Lists
  <2> QED
    BY <2>1, LastOfList
<1>3. r \in [Exprs -> Nat] /\ \A e \in Exprs : r[e] <= n
  BY <1>1
<1>4. \A e \in Exprs : Deeper(e) => r[Inner(e)] < r[e]
  BY <1>1, <1>2
<1>5. F \in [Exprs -> [[Exprs -> Exprs] -> Exprs]]
  BY <1>2
<1>6. \A e \in Exprs : \A g \in [Exprs -> Exprs] :
        F[e][g] = IF Deeper(e) THEN g[Inner(e)] ELSE e
  OBVIOUS
<1>7. \E g \in [Exprs -> Exprs] : \A e \in Exprs : g[e] = F[e][g]
  <2> HIDE DEF r, F, Deeper, Inner
  <2>1. \A e \in Exprs : \A g, h \in [Exprs -> Exprs] :
          (\A c \in Exprs : r[c] < r[e] => g[c] = h[c]) => F[e][g] = F[e][h]
    BY <1>2, <1>4, <1>6
  <2>2. Recursive(Exprs, Exprs, r, n, F)
    BY <1>3, <1>5, <2>1 DEF Recursive
  <2> QED
    BY <2>2, Recursion
<1>8. \E g : g = [e \in Exprs |-> IF Deeper(e) THEN g[Inner(e)] ELSE e]
  <2> PICK g \in [Exprs -> Exprs] : \A e \in Exprs : g[e] = F[e][g]
    BY <1>7
  <2>1. \A e \in Exprs : F[e][g] = IF Deeper(e) THEN g[Inner(e)] ELSE e
    BY <1>6
  <2> HIDE DEF F, Deeper, Inner
  <2>2. g = [e \in Exprs |-> IF Deeper(e) THEN g[Inner(e)] ELSE e]
    BY <2>1
  <2> QED
    BY <2>2
<1>9. LastExpr = [e \in Exprs |-> IF Deeper(e) THEN LastExpr[Inner(e)] ELSE e]
  BY <1>8 DEF LastExpr
<1> DEFINE T == {e \in Exprs : LastExpr[e] \in Exprs}
<1>10. Exprs \subseteq T
  <2>1. \A e \in Exprs : (\A c \in Exprs : r[c] < r[e] => c \in T) => e \in T
    <3> HIDE DEF r, Deeper, Inner
    <3> QED
      BY <1>2, <1>4, <1>9
  <2> HIDE DEF r, T
  <2> QED
    BY <1>3, <2>1, RankInduction
<1> HIDE DEF Deeper, Inner
<1>11. LastExpr \in [Exprs -> Exprs]
  BY <1>9, <1>10
<1>12. \A e \in Exprs : LastExpr[e] = IF Deeper(e) THEN LastExpr[Inner(e)] ELSE e
  BY <1>9
<1> QED
  BY <1>11, <1>12 DEF Deeper, Inner

\* The owner of an expression's list is in the body, and that list is one of
\* the owner's.
LEMMA OwnerInBody ==
  ASSUME NEW f, IsBody(f), NEW l \in Lists, f.list[l] # <<>>, l # RootList
  PROVE  /\ l[1] \in Body(f) /\ InBody(f, l[1])
         /\ l[2] \in ArmsOf(f.kind[l[1]])
         /\ l = <<l[1], l[2]>>
<1>1. PICK m \in Lists : l[1] \in Range(f.list[m])
  BY DEF IsBody, IsTree
<1>2. \E i \in DOMAIN f.list[m] : f.list[m][i] = l[1]
  BY <1>1 DEF Range
<1>3. InBody(f, l[1])
  BY <1>2 DEF InBody
<1>4. l[2] \in ArmsOf(f.kind[l[1]])
  BY DEF IsBody, IsTree
<1>5. l = <<l[1], l[2]>> /\ l[1] \in Exprs
  BY DEF Lists
<1> QED
  BY <1>3, <1>4, <1>5 DEF Body

\* The kinds of the owners of lists.
LEMMA ArmKinds ==
  ASSUME NEW k, NEW a \in ArmsOf(k)
  PROVE  \/ a = "body" /\ k \in {"Block", "Loop"}
         \/ a \in {"then", "else"} /\ k = "If"
<1>1. CASE k \in {"Block", "Loop"}
  BY <1>1 DEF ArmsOf
<1>2. CASE k = "If"
  BY <1>2 DEF ArmsOf
<1>3. CASE k \notin {"Block", "Loop", "If"}
  BY <1>3 DEF ArmsOf
<1> QED
  BY <1>1, <1>2, <1>3

-----------------------------------------------------------------------------
(* Where control is in the graph. *)

\* Control is at the end of a loop that ends its list.
AtLoopEnd(f, q) == q[1] = "endloop" /\ IsLastOfList(f, q[2])

\* Every other control point is a node of the graph.
LEMMA ViewStays ==
  ASSUME NEW f, NEW p, ~AtLoopEnd(f, p)
  PROVE  View(f, p) = p
BY DEF View, AtLoopEnd

\* Control comes to the end of a loop that ends its list from that list only.
LEMMA AfterIsLoopEnd ==
  ASSUME NEW f, IsBody(f), NEW x \in Body(f), AtLoopEnd(f, After(f, x))
  PROVE  /\ IsLastOfList(f, x)
         /\ After(f, x)[2] \in Body(f)
         /\ After(f, x)[2] < x
         /\ After(f, x) = EndLoop(After(f, x)[2])
<1>0. InBody(f, x)
  BY DEF Body
<1> DEFINE l == Holder(f, x)
<1>1. /\ l \in Lists /\ l[1] < x /\ f.list[l] # <<>>
  <2>1. /\ Position(f, x) \in 1..Len(f.list[l])
        /\ l \in Lists /\ l[1] < x
    BY <1>0, HolderOf
  <2>2. f.list[l] \in Seq(Exprs)
    BY <2>1, BodyParts
  <2> HIDE DEF l
  <2> QED
    BY <2>1, <2>2, EmptySeq
<1>2. \A e : NodeOf(f, e)[1] # "endloop"
  BY DEF NodeOf, RetFunc, Inst
<1>3. IsLastOfList(f, x) /\ After(f, x) = EndOf(f, l)
  BY <1>2 DEF After, AtLoopEnd
<1>4. l # RootList /\ EndOf(f, l) = EndLoop(l[1])
  BY <1>3 DEF EndOf, RetFunc, EndBlock, AtLoopEnd
<1> HIDE DEF l
<1>5. l[1] \in Body(f)
  BY <1>1, <1>4, OwnerInBody
<1>6. EndLoop(l[1])[2] = l[1]
  BY DEF EndLoop
<1> QED
  BY <1>1, <1>3, <1>4, <1>5, <1>6

\* There it goes on with what follows the loop.
LEMMA ViewUnfolds ==
  ASSUME NEW f, IsBody(f), NEW x \in Body(f), IsLastOfList(f, x)
  PROVE  View(f, EndLoop(x)) = View(f, After(f, x))
<1> PICK n \in Nat : \A e \in Exprs : e <= n
  BY ExprsBounded
<1> DEFINE D == Body(f)
           A(e) == After(f, e)
           E(q) == AtLoopEnd(f, q)
           Z == {A(e) : e \in D}
           r == [e \in D |-> e]
           F == [e \in D |-> [g \in [D -> Z] |-> IF E(A(e)) THEN g[A(e)[2]] ELSE A(e)]]
<1>1. \A e \in D : e \in Nat /\ e <= n
  BY ExprsAssumption DEF Body
<1>2. r \in [D -> Nat] /\ \A e \in D : r[e] = e
  BY <1>1
<1>3. \A e \in D : E(A(e)) => A(e)[2] \in D /\ A(e)[2] < e
  BY AfterIsLoopEnd
<1>4. \A e \in D : A(e) \in Z
  OBVIOUS
<1> HIDE DEF D, A, E, Z, r
<1>5. F \in [D -> [[D -> Z] -> Z]]
  BY <1>3, <1>4
<1>6. \A e \in D : \A g \in [D -> Z] : F[e][g] = IF E(A(e)) THEN g[A(e)[2]] ELSE A(e)
  OBVIOUS
<1> HIDE DEF F
<1>7. \A e \in D : \A g, h \in [D -> Z] :
        (\A c \in D : r[c] < r[e] => g[c] = h[c]) => F[e][g] = F[e][h]
  BY <1>2, <1>3, <1>6
<1>8. Recursive(D, Z, r, n, F)
  BY <1>1, <1>2, <1>4, <1>5, <1>7 DEF Recursive
<1>9. PICK g \in [D -> Z] : \A e \in D : g[e] = F[e][g]
  BY <1>8, Recursion
<1>10. g = [e \in D |-> IF E(A(e)) THEN g[A(e)[2]] ELSE A(e)]
  BY <1>6, <1>9
<1> DEFINE Is(h) == h = [e \in D |-> IF E(A(e)) THEN h[A(e)[2]] ELSE A(e)]
           V == CHOOSE h : Is(h)
<1>11. Is(V)
  <2>1. Is(g)
    BY <1>10
  <2> HIDE DEF Is
  <2> QED
    BY <2>1
<1>12. \A p : View(f, p) = IF E(p) THEN V[p[2]] ELSE p
  BY DEF View, AtLoopEnd, D, E, A
<1> HIDE DEF V
<1>13. x \in D /\ V[x] = IF E(A(x)) THEN V[A(x)[2]] ELSE A(x)
  BY <1>11 DEF D
<1>14. E(EndLoop(x)) /\ EndLoop(x)[2] = x
  BY DEF E, AtLoopEnd, EndLoop
<1>15. View(f, EndLoop(x)) = V[x] /\ View(f, A(x)) = V[x]
  BY <1>12, <1>13, <1>14
<1> QED
  BY <1>15 DEF A

\* Where a list ends is an expression that ends its list, and what follows it
\* is what follows the list.
LEMMA ExitOfLast ==
  ASSUME IsBody(fn)
  PROVE  \A y \in Exprs : InBody(fn, y) /\ IsLastOfList(fn, y) =>
           /\ InBody(fn, LastExpr[y])
           /\ fn.kind[LastExpr[y]] = "Loop" => fn.list[<<LastExpr[y], "body">>] = <<>>
           /\ View(fn, After(fn, LastExpr[y])) = View(fn, After(fn, y))
<1> PICK n \in Nat : \A e \in Exprs : e <= n
  BY ExprsBounded
<1> DEFINE P(y) == InBody(fn, y) /\ IsLastOfList(fn, y) =>
             /\ InBody(fn, LastExpr[y])
             /\ fn.kind[LastExpr[y]] = "Loop" => fn.list[<<LastExpr[y], "body">>] = <<>>
             /\ View(fn, After(fn, LastExpr[y])) = View(fn, After(fn, y))
           T == {y \in Exprs : P(y)}
           r == [y \in Exprs |-> n - y]
<1>1. r \in [Exprs -> Nat] /\ \A y \in Exprs : r[y] = n - y /\ y \in Nat /\ y <= n
  BY ExprsAssumption
<1> HIDE DEF r
<1>2. ASSUME NEW y \in Exprs, \A c \in Exprs : r[c] < r[y] => c \in T,
             InBody(fn, y), IsLastOfList(fn, y)
      PROVE  /\ InBody(fn, LastExpr[y])
             /\ fn.kind[LastExpr[y]] = "Loop" => fn.list[<<LastExpr[y], "body">>] = <<>>
             /\ View(fn, After(fn, LastExpr[y])) = View(fn, After(fn, y))
  <2> DEFINE l == <<y, "body">>
             z == Last(fn.list[l])
  <2>1. CASE fn.kind[y] = "Loop" /\ fn.list[l] # <<>>
    <3>1. l \in Lists /\ l[1] = y
      BY DEF Lists
    <3>2. /\ z \in Exprs /\ y < z
          /\ Holder(fn, z) = l /\ IsLastOfList(fn, z) /\ InBody(fn, z)
      <4>1. /\ z \in Exprs /\ l[1] < z
            /\ Holder(fn, z) = l /\ IsLastOfList(fn, z)
            /\ Len(fn.list[l]) \in 1..Len(fn.list[l])
            /\ z = fn.list[l][Len(fn.list[l])]
        BY <2>1, <3>1, LastOfList
      <4>2. InBody(fn, z)
        BY <3>1, <4>1, HolderIs
      <4> HIDE DEF z
      <4> QED
        BY <3>1, <4>1, <4>2
    <3>3. LastExpr[y] = LastExpr[z]
      BY <2>1, LastExprUnfolds
    <3>4. After(fn, z) = EndLoop(y)
      BY <2>1, <3>2 DEF After, EndOf, RootList, EndLoop
    <3>5. View(fn, After(fn, z)) = View(fn, After(fn, y))
      BY <1>2, <3>4, ViewUnfolds DEF Body
    <3> HIDE DEF z, l
    <3>6. r[z] < r[y]
      BY <1>1, <3>2
    <3>7. P(z)
      BY <1>2, <3>2, <3>6
    <3> QED
      BY <3>2, <3>3, <3>5, <3>7
  <2>2. CASE ~(fn.kind[y] = "Loop" /\ fn.list[l] # <<>>)
    <3>1. LastExpr[y] = y
      BY <2>2, LastExprUnfolds
    <3> QED
      BY <1>2, <2>2, <3>1
  <2> QED
    BY <2>1, <2>2
<1>3. Exprs \subseteq T
  <2>1. \A y \in Exprs : (\A c \in Exprs : r[c] < r[y] => c \in T) => y \in T
    <3> SUFFICES ASSUME NEW y \in Exprs, \A c \in Exprs : r[c] < r[y] => c \in T
                 PROVE  P(y)
      OBVIOUS
    <3> HIDE DEF T
    <3> QED
      BY <1>2
  <2> HIDE DEF T
  <2> QED
    BY <1>1, <2>1, RankInduction
<1> QED
  BY <1>3

\* The same of the end of a list.
LEMMA ExitOfList ==
  ASSUME IsBody(fn), NEW l \in Lists, fn.list[l] # <<>>
  PROVE  LET x == LastExpr[Last(fn.list[l])]
         IN  /\ x \in Exprs /\ InBody(fn, x)
             /\ fn.kind[x] = "Loop" => fn.list[<<x, "body">>] = <<>>
             /\ View(fn, After(fn, x)) = View(fn, EndOf(fn, l))
<1> DEFINE y == Last(fn.list[l])
<1>1. /\ y \in Exprs /\ InBody(fn, y) /\ IsLastOfList(fn, y)
      /\ Holder(fn, y) = l
  <2>1. /\ Last(fn.list[l]) \in Exprs /\ IsLastOfList(fn, Last(fn.list[l]))
        /\ Holder(fn, Last(fn.list[l])) = l
        /\ Len(fn.list[l]) \in 1..Len(fn.list[l])
        /\ Last(fn.list[l]) = fn.list[l][Len(fn.list[l])]
    BY LastOfList
  <2>2. InBody(fn, fn.list[l][Len(fn.list[l])])
    BY <2>1, HolderIs
  <2> QED
    BY <2>1, <2>2
<1>2. After(fn, y) = EndOf(fn, l)
  BY <1>1 DEF After
<1> HIDE DEF y
<1>3. LastExpr[y] \in Exprs
  BY <1>1, LastExprUnfolds
<1> QED
  BY <1>1, <1>2, <1>3, ExitOfLast DEF y

-----------------------------------------------------------------------------
(* What is around an expression. *)

\* The owner of an expression's list is 0 or in the body.
LEMMA OwnerOf ==
  ASSUME NEW f, IsBody(f), NEW x \in Body(f), Holder(f, x)[1] # 0
  PROVE  Holder(f, x)[1] \in Body(f) /\ Holder(f, x)[1] < x
<1>0. InBody(f, x)
  BY DEF Body
<1> DEFINE l == Holder(f, x)
<1>1. /\ l \in Lists /\ l[1] < x /\ f.list[l] # <<>>
  <2>1. /\ Position(f, x) \in 1..Len(f.list[l])
        /\ l \in Lists /\ l[1] < x
    BY <1>0, HolderOf
  <2>2. f.list[l] \in Seq(Exprs)
    BY <2>1, BodyParts
  <2> HIDE DEF l
  <2> QED
    BY <2>1, <2>2, EmptySeq
<1>2. l # RootList
  BY DEF RootList
<1> HIDE DEF l
<1>3. l[1] \in Body(f)
  BY <1>1, <1>2, OwnerInBody
<1> QED
  BY <1>1, <1>3 DEF l

\* Binder climbs from owner to owner.
LEMMA BinderUnfolds ==
  ASSUME NEW f, IsBody(f), NEW x \in Body(f), NEW t
  PROVE  LET o == Holder(f, x)[1]
         IN  Binder(f, x, t) = IF o = 0 \/ f.label[o] = t THEN o
                               ELSE Binder(f, o, t)
<1> PICK n \in Nat : \A e \in Exprs : e <= n
  BY ExprsBounded
<1> DEFINE D == Body(f)
           O(e) == Holder(f, e)[1]
           Stop(e) == O(e) = 0 \/ f.label[O(e)] = t
           Z == {O(e) : e \in D}
           r == [e \in D |-> e]
           F == [e \in D |-> [g \in [D -> Z] |-> IF Stop(e) THEN O(e) ELSE g[O(e)]]]
<1>1. \A e \in D : e \in Nat /\ e <= n
  BY ExprsAssumption DEF Body
<1>2. r \in [D -> Nat] /\ \A e \in D : r[e] = e
  BY <1>1
<1>3. \A e \in D : ~Stop(e) => O(e) \in D /\ O(e) < e
  BY OwnerOf
<1>4. \A e \in D : O(e) \in Z
  OBVIOUS
<1> HIDE DEF D, O, Stop, Z, r
<1>5. F \in [D -> [[D -> Z] -> Z]]
  BY <1>3, <1>4
<1>6. \A e \in D : \A g \in [D -> Z] : F[e][g] = IF Stop(e) THEN O(e) ELSE g[O(e)]
  OBVIOUS
<1> HIDE DEF F
<1>7. \A e \in D : \A g, h \in [D -> Z] :
        (\A c \in D : r[c] < r[e] => g[c] = h[c]) => F[e][g] = F[e][h]
  BY <1>2, <1>3, <1>6
<1>8. Recursive(D, Z, r, n, F)
  BY <1>1, <1>2, <1>4, <1>5, <1>7 DEF Recursive
<1>9. PICK g \in [D -> Z] : \A e \in D : g[e] = F[e][g]
  BY <1>8, Recursion
<1>10. g = [e \in D |-> IF Stop(e) THEN O(e) ELSE g[O(e)]]
  BY <1>6, <1>9
<1> DEFINE Is(h) == h = [e \in D |-> IF Stop(e) THEN O(e) ELSE h[O(e)]]
           B == CHOOSE h : Is(h)
<1>11. Is(B)
  <2>1. Is(g)
    BY <1>10
  <2> HIDE DEF Is
  <2> QED
    BY <2>1
<1>12. \A e : Binder(f, e, t) = B[e]
  BY DEF Binder, D, O, Stop
<1> HIDE DEF B
<1>13. x \in D /\ B[x] = IF Stop(x) THEN O(x) ELSE B[O(x)]
  BY <1>11 DEF D
<1> QED
  BY <1>12, <1>13 DEF O, Stop

\* Inside climbs from owner to owner too.
LEMMA InsideUnfolds ==
  ASSUME NEW f, IsBody(f), NEW x \in Body(f), NEW i
  PROVE  LET o == Holder(f, x)[1]
         IN  Inside(f, x, i) <=> o # 0 /\ (o = i \/ Inside(f, o, i))
<1> PICK n \in Nat : \A e \in Exprs : e <= n
  BY ExprsBounded
<1> DEFINE D == Body(f)
           O(e) == Holder(f, e)[1]
           r == [e \in D |-> e]
           F == [e \in D |-> [g \in [D -> BOOLEAN] |->
                   O(e) # 0 /\ (O(e) = i \/ g[O(e)])]]
<1>1. \A e \in D : e \in Nat /\ e <= n
  BY ExprsAssumption DEF Body
<1>2. r \in [D -> Nat] /\ \A e \in D : r[e] = e
  BY <1>1
<1>3. \A e \in D : O(e) # 0 => O(e) \in D /\ O(e) < e
  BY OwnerOf
<1> HIDE DEF D, O, r
<1>5. F \in [D -> [[D -> BOOLEAN] -> BOOLEAN]]
  BY <1>3
<1>6. \A e \in D : \A g \in [D -> BOOLEAN] :
        F[e][g] = (O(e) # 0 /\ (O(e) = i \/ g[O(e)]))
  OBVIOUS
<1> HIDE DEF F
<1>7. \A e \in D : \A g, h \in [D -> BOOLEAN] :
        (\A c \in D : r[c] < r[e] => g[c] = h[c]) => F[e][g] = F[e][h]
  BY <1>2, <1>3, <1>6
<1>8. Recursive(D, BOOLEAN, r, n, F)
  BY <1>1, <1>2, <1>5, <1>7 DEF Recursive
<1>9. PICK g \in [D -> BOOLEAN] : \A e \in D : g[e] = F[e][g]
  BY <1>8, Recursion
<1>10. g = [e \in D |-> O(e) # 0 /\ (O(e) = i \/ g[O(e)])]
  BY <1>6, <1>9
<1> DEFINE Is(h) == h = [e \in D |-> O(e) # 0 /\ (O(e) = i \/ h[O(e)])]
           W == CHOOSE h : Is(h)
<1>11. Is(W)
  <2>1. Is(g)
    BY <1>10
  <2> HIDE DEF Is
  <2> QED
    BY <2>1
<1>12. \A e : Inside(f, e, i) = W[e]
  BY DEF Inside, D, O
<1> HIDE DEF W
<1>13. x \in D /\ W[x] = (O(x) # 0 /\ (O(x) = i \/ W[O(x)]))
  BY <1>11 DEF D
<1> QED
  BY <1>12, <1>13 DEF O

\* What stops a list.
LEMMA StopsUnfolds ==
  ASSUME NEW f, IsBody(f), NEW l \in Lists
  PROVE  Stops(f, l) <=>
           \E e \in Range(f.list[l]) :
             \/ f.kind[e] \in {"Unreachable", "Br"}
             \/ f.kind[e] = "If" /\ Stops(f, <<e, "then">>) /\ Stops(f, <<e, "else">>)
<1> PICK n \in Nat : \A e \in Exprs : e <= n
  BY ExprsBounded
<1> DEFINE R(m) == Range(f.list[m])
           Halts(e) == f.kind[e] \in {"Unreachable", "Br"}
           If(e) == f.kind[e] = "If"
           T(e) == <<e, "then">>
           U(e) == <<e, "else">>
           r == [m \in Lists |-> n - m[1]]
           F == [m \in Lists |-> [g \in [Lists -> BOOLEAN] |->
                   \E e \in R(m) : Halts(e) \/ (If(e) /\ g[T(e)] /\ g[U(e)])]]
<1>1. \A m \in Lists : m[1] \in Nat /\ m[1] <= n
  BY BodyParts
<1>2. r \in [Lists -> Nat] /\ \A m \in Lists : r[m] = n - m[1] /\ r[m] <= n
  BY <1>1
<1>3. ASSUME NEW m \in Lists, NEW e \in R(m)
      PROVE  /\ T(e) \in Lists /\ U(e) \in Lists
             /\ r[T(e)] < r[m] /\ r[U(e)] < r[m]
  <2>1. e \in Exprs /\ m[1] < e
    BY BodyParts DEF IsBody, InTextOrder, Range
  <2>2. T(e) \in Lists /\ U(e) \in Lists /\ T(e)[1] = e /\ U(e)[1] = e
    BY <2>1 DEF Lists
  <2> HIDE DEF r, T, U
  <2> QED
    BY <1>1, <1>2, <2>1, <2>2, ExprsAssumption
<1> HIDE DEF R, Halts, If, T, U, r
<1>5. F \in [Lists -> [[Lists -> BOOLEAN] -> BOOLEAN]]
  OBVIOUS
<1>6. \A m \in Lists : \A g \in [Lists -> BOOLEAN] :
        F[m][g] = (\E e \in R(m) : Halts(e) \/ (If(e) /\ g[T(e)] /\ g[U(e)]))
  OBVIOUS
<1> HIDE DEF F
<1>7. ASSUME NEW m \in Lists, NEW g \in [Lists -> BOOLEAN], NEW h \in [Lists -> BOOLEAN],
             \A c \in Lists : r[c] < r[m] => g[c] = h[c]
      PROVE  F[m][g] = F[m][h]
  <2>1. \A e \in R(m) : g[T(e)] = h[T(e)] /\ g[U(e)] = h[U(e)]
    BY <1>3, <1>7
  <2> QED
    BY <1>6, <2>1
<1>8. Recursive(Lists, BOOLEAN, r, n, F)
  BY <1>2, <1>5, <1>7 DEF Recursive
<1>9. PICK g \in [Lists -> BOOLEAN] : \A m \in Lists : g[m] = F[m][g]
  BY <1>8, Recursion
<1>10. g = [m \in Lists |-> \E e \in R(m) : Halts(e) \/ (If(e) /\ g[T(e)] /\ g[U(e)])]
  BY <1>6, <1>9
<1> DEFINE Is(h) == h = [m \in Lists |->
                      \E e \in R(m) : Halts(e) \/ (If(e) /\ h[T(e)] /\ h[U(e)])]
           W == CHOOSE h : Is(h)
<1>11. Is(W)
  <2>1. Is(g)
    BY <1>10
  <2> HIDE DEF Is
  <2> QED
    BY <2>1
<1>12. \A m : Stops(f, m) = W[m]
  BY DEF Stops, R, Halts, If, T, U
<1> HIDE DEF W
<1>13. W[l] = (\E e \in R(l) : Halts(e) \/ (If(e) /\ W[T(e)] /\ W[U(e)]))
  BY <1>11
<1> QED
  BY <1>12, <1>13 DEF R, Halts, If, T, U


\* The types, the nesting, and that the function is a body.
BaseInv == TypeInv /\ NestInv /\ IsBody(fn)

\* No step changes the function.
LEMMA FunctionStays ==
  ASSUME TypeInv, NestInv, Next
  PROVE  fn' = fn
BY StepKinds
DEF Descends, Passes, Ends, Stays, Pops, Resumes, Leaves, BeginFunction,
    FinishFunction, Crash, EnterElse

\* BaseInv is inductive.
LEMMA InitBase == Init => BaseInv
<1> SUFFICES ASSUME Init PROVE BaseInv
  OBVIOUS
<1>1. IsBody(fn)
  BY FunctionsAssumption DEF Init
<1> QED
  BY <1>1, InitTypes, InitNests DEF BaseInv

\* And no step breaks it.
LEMMA NextBase == BaseInv /\ [Next]_vars => BaseInv'
<1> SUFFICES ASSUME BaseInv, [Next]_vars PROVE BaseInv'
  OBVIOUS
<1>1. fn' = fn
  BY FunctionStays DEF BaseInv, vars
<1>2. IsBody(fn)'
  BY <1>1 DEF BaseInv
<1> QED
  BY <1>2, NextTypes, NextNests DEF BaseInv

-----------------------------------------------------------------------------
(* The levels of the recursion. *)

\* The activations that wait for a list of the expression they are at.
Hanging == {k \in 1..Len(stack) : k < Len(stack) \/ pc = "returned"}

\* One level for each list that has been begun and not been linked.
Height == IF pc = "returned" THEN Len(stack) + 1 ELSE Len(stack)

\* The list of a level, and how many of its expressions have been begun.
ListAt(k)  == IF k <= Len(stack) THEN stack[k].list ELSE ret.list
Begun(k)   == IF k \in Hanging THEN stack[k].at
              ELSE IF k <= Len(stack) THEN stack[k].at - 1
              ELSE Len(fn.list[ret.list])

\* construct is running.
Active == pc \in {"construct", "returned"}

\* The sizes of the stack and what waits on it.
LEMMA LevelNumbers ==
  ASSUME BaseInv
  PROVE  /\ Len(stack) \in Nat /\ Height \in Nat
         /\ Hanging \subseteq 1..Len(stack)
         /\ pc = "construct" => /\ stack # <<>> /\ Len(stack) \in Nat \ {0}
                                /\ Hanging = 1 .. Len(stack) - 1
                                /\ Height = Len(stack)
         /\ pc = "returned" => Hanging = 1..Len(stack) /\ Height = Len(stack) + 1
         /\ \A k \in 1..Len(stack) : stack[k] \in Frames
         /\ pc = "returned" => ret.list \in Lists
<1>1. Len(stack) \in Nat /\ (stack # <<>> => Len(stack) # 0)
  BY Sizes DEF BaseInv, TypeInv
<1>2. pc = "construct" => stack # <<>>
  BY DEF BaseInv, TypeInv, Working
<1>3. \A k \in 1..Len(stack) : stack[k] \in Frames
  BY ElementOfSeq DEF BaseInv, TypeInv, StateTypes
<1>4. ret.list \in Lists
  BY DEF BaseInv, TypeInv, StateTypes, Results
<1> QED
  BY <1>1, <1>2, <1>3, <1>4 DEF Hanging, Height

\* What an activation waits for is a list of the expression it is at.
LEMMA HangingWaits ==
  ASSUME BaseInv, Active, NEW k \in Hanging
  PROVE  /\ stack[k].list \in Lists
         /\ stack[k].at \in 1..Len(fn.list[stack[k].list])
         /\ Pending(k) = fn.list[ListAt(k)][Begun(k)]
         /\ ListAt(k) = stack[k].list /\ Begun(k) = stack[k].at
         /\ Pending(k) \in Exprs /\ InBody(fn, Pending(k))
         /\ Holder(fn, Pending(k)) = stack[k].list
         /\ Position(fn, Pending(k)) = stack[k].at
         /\ ListAt(k + 1) \in ListsOf(Pending(k))
         /\ ListAt(k + 1)[1] = Pending(k)
<1>1. /\ k \in 1..Len(stack) /\ Len(stack) \in Nat /\ k \in Nat
      /\ stack[k].list \in Lists /\ stack[k].at \in Nat \ {0}
  BY LevelNumbers DEF Frames
<1>2. Suspended(k, ListAt(k + 1))
  <2>1. CASE k < Len(stack)
    <3>1. k \in 1 .. Len(stack) - 1 /\ k + 1 <= Len(stack)
      BY <1>1, <2>1
    <3> QED
      BY <3>1 DEF BaseInv, NestInv, Linked, ListAt
  <2>2. CASE ~(k < Len(stack))
    <3>1. pc = "returned" /\ k = Len(stack) /\ ~(k + 1 <= Len(stack)) /\ stack # <<>>
      BY <1>1, <2>2, EmptySeq DEF Hanging
    <3> QED
      BY <3>1 DEF BaseInv, NestInv, HasReturned, ListAt
  <2> QED
    BY <2>1, <2>2
<1>3. stack[k].at \in 1..Len(fn.list[stack[k].list])
  <2>1. Len(fn.list[stack[k].list]) \in Nat
    BY <1>1, BodyParts DEF BaseInv
  <2>2. stack[k].at <= Len(fn.list[stack[k].list])
    BY <1>2 DEF Suspended
  <2> QED
    BY <1>1, <2>1, <2>2
<1>4. ListAt(k) = stack[k].list /\ Begun(k) = stack[k].at
  BY <1>1 DEF ListAt, Begun
<1>5. /\ Pending(k) \in Exprs /\ InBody(fn, Pending(k))
      /\ Holder(fn, Pending(k)) = stack[k].list
      /\ Position(fn, Pending(k)) = stack[k].at
  BY <1>1, <1>3, HolderIs, BodyParts DEF Pending, BaseInv
<1>6. ListAt(k + 1) \in ListsOf(Pending(k)) /\ ListAt(k + 1)[1] = Pending(k)
  BY <1>2 DEF Suspended, ListsOf
<1> QED
  BY <1>1, <1>3, <1>4, <1>5, <1>6 DEF Pending

\* The list of a level is a list.
LEMMA LevelIsList ==
  ASSUME BaseInv, Active, NEW k \in 1..Height
  PROVE  ListAt(k) \in Lists
<1>1. /\ k \in Nat /\ Len(stack) \in Nat
      /\ k <= Len(stack) \/ (pc = "returned" /\ ~(k <= Len(stack)))
  BY LevelNumbers DEF Height
<1>2. k <= Len(stack) => k \in 1..Len(stack)
  BY <1>1
<1> QED
  BY <1>1, <1>2, LevelNumbers DEF ListAt, Frames

\* The first level is the function's own list.
LEMMA FirstLevel ==
  ASSUME BaseInv, Active
  PROVE  ListAt(1) = RootList /\ 1 \in 1..Height
<1>1. Len(stack) \in Nat /\ (stack = <<>> <=> Len(stack) = 0)
  BY Sizes DEF BaseInv, TypeInv
<1>2. CASE stack # <<>>
  <2>1. 1 <= Len(stack)
    BY <1>1, <1>2
  <2> QED
    BY <1>1, <1>2, <2>1 DEF BaseInv, NestInv, ListAt, Height
<1>3. CASE stack = <<>>
  <2>1. pc = "returned" /\ ret.list = RootList
    BY <1>3, LevelNumbers DEF Active, BaseInv, NestInv
  <2> QED
    BY <1>1, <1>3, <2>1 DEF ListAt, Height
<1> QED
  BY <1>2, <1>3

\* The levels below another one are of activations that wait.
LEMMA LowerLevelsHang ==
  ASSUME BaseInv, Active, NEW n \in 1..Height, NEW k \in Nat \ {0}, k < n
  PROVE  k \in Hanging
<1>1. Len(stack) \in Nat
  BY LevelNumbers
<1>2. CASE pc = "construct"
  BY <1>1, <1>2, LevelNumbers
<1>3. CASE pc = "returned"
  BY <1>1, <1>3, LevelNumbers
<1> QED
  BY <1>2, <1>3 DEF Active

\* The owner of an expression of a level: nothing, or what the level below is
\* at.
LEMMA OwnerAtLevel ==
  ASSUME BaseInv, Active, NEW n \in 1..Height, NEW x, Holder(fn, x) = ListAt(n)
  PROVE  /\ n = 1 => Holder(fn, x)[1] = 0
         /\ n # 1 => /\ n - 1 \in Hanging
                     /\ Holder(fn, x)[1] = Pending(n - 1)
                     /\ Pending(n - 1) \in Exprs /\ Pending(n - 1) # 0
                     /\ InBody(fn, Pending(n - 1))
                     /\ Holder(fn, Pending(n - 1)) = ListAt(n - 1)
<1>1. n = 1 => Holder(fn, x)[1] = 0
  BY FirstLevel DEF RootList
<1>2. ASSUME n # 1
      PROVE  /\ n - 1 \in Hanging
             /\ Holder(fn, x)[1] = Pending(n - 1)
             /\ Pending(n - 1) \in Exprs
             /\ InBody(fn, Pending(n - 1))
             /\ Holder(fn, Pending(n - 1)) = ListAt(n - 1)
  <2>1. n \in Nat /\ n - 1 \in Nat \ {0} /\ n - 1 < n /\ (n - 1) + 1 = n
    BY <1>2, LevelNumbers
  <2>2. n - 1 \in Hanging
    BY <2>1, LowerLevelsHang
  <2> QED
    BY <2>1, <2>2, HangingWaits
<1> QED
  BY <1>1, <1>2, ExprsAssumption

\* The expression that binds a label where the builder is: the innermost one
\* that an activation is at and that declares it.
LEMMA BinderFound ==
  ASSUME BaseInv, Active, NEW t
  PROVE  \A n \in 1..Height : \A x :
           InBody(fn, x) /\ Holder(fn, x) = ListAt(n) =>
             \/ /\ Binder(fn, x, t) = 0
                /\ \A i \in 1 .. n - 1 : fn.label[Pending(i)] # t
             \/ \E j \in 1 .. n - 1 :
                  /\ Binder(fn, x, t) = Pending(j)
                  /\ fn.label[Pending(j)] = t
                  /\ \A i \in 1 .. n - 1 : fn.label[Pending(i)] = t => i <= j
<1> DEFINE B(n, x) ==
             \/ /\ Binder(fn, x, t) = 0
                /\ \A i \in 1 .. n - 1 : fn.label[Pending(i)] # t
             \/ \E j \in 1 .. n - 1 :
                  /\ Binder(fn, x, t) = Pending(j)
                  /\ fn.label[Pending(j)] = t
                  /\ \A i \in 1 .. n - 1 : fn.label[Pending(i)] = t => i <= j
           At_(n, x) == InBody(fn, x) /\ Holder(fn, x) = ListAt(n)
           S == {n \in Nat : n \in 1..Height => \A x : At_(n, x) => B(n, x)}
<1>1. 0 \in S
  BY LevelNumbers
<1>2. ASSUME NEW m \in Nat, m \in S, m + 1 \in 1..Height, NEW x, At_(m + 1, x)
      PROVE  B(m + 1, x)
  <2> DEFINE o == Holder(fn, x)[1]
  <2>1. x \in Body(fn)
    BY <1>2, HolderOf DEF Body, BaseInv
  <2>2. Binder(fn, x, t) = IF o = 0 \/ fn.label[o] = t THEN o ELSE Binder(fn, o, t)
    BY <2>1, BinderUnfolds DEF BaseInv
  <2>3. CASE m = 0
    <3>1. o = 0
      BY <1>2, <2>3, OwnerAtLevel
    <3> QED
      BY <2>2, <2>3, <3>1
  <2>4. CASE m # 0
    <3>1. /\ o = Pending(m) /\ o # 0
          /\ InBody(fn, Pending(m)) /\ Holder(fn, Pending(m)) = ListAt(m)
      <4>1. m + 1 # 1 /\ (m + 1) - 1 = m
        BY <2>4
      <4> QED
        BY <1>2, <4>1, OwnerAtLevel
    <3>2. m \in 1..Height /\ m \in 1..m /\ (m + 1) - 1 = m
      BY <1>2, <2>4, LevelNumbers
    <3> HIDE DEF o
    <3>3. CASE fn.label[Pending(m)] = t
      <4>1. Binder(fn, x, t) = Pending(m)
        BY <2>2, <3>1, <3>3
      <4>2. \A i \in 1..m : i <= m
        OBVIOUS
      <4> QED
        BY <3>2, <3>3, <4>1, <4>2
    <3>4. CASE fn.label[Pending(m)] # t
      <4>1. Binder(fn, x, t) = Binder(fn, Pending(m), t)
        BY <2>2, <3>1, <3>4
      <4>2. B(m, Pending(m))
        BY <1>2, <3>1, <3>2
      <4>3. \A i \in 1..m : i \in 1 .. m - 1 \/ i = m
        BY <1>2
      <4>4. \A j \in 1 .. m - 1 : j \in 1..m
        BY <1>2
      <4> QED
        BY <3>2, <3>4, <4>1, <4>2, <4>3, <4>4
    <3> QED
      BY <3>3, <3>4
  <2> QED
    BY <2>3, <2>4
<1>3. ASSUME NEW m \in Nat, m \in S
      PROVE  m + 1 \in S
  <2>1. m + 1 \in 1..Height => \A x : At_(m + 1, x) => B(m + 1, x)
    BY <1>2, <1>3
  <2> HIDE DEF B, At_
  <2> QED
    BY <2>1
<1>4. Nat \subseteq S
  <2> HIDE DEF S
  <2> QED
    BY <1>1, <1>3, SetInduction
<1>5. \A n \in 1..Height : n \in Nat
  BY LevelNumbers
<1> HIDE DEF B
<1>6. \A n \in 1..Height : \A x : At_(n, x) => B(n, x)
  BY <1>4, <1>5
<1> QED
  BY <1>6 DEF B

\* An expression of a level is inside what each level below is at.
LEMMA InsideLevels ==
  ASSUME BaseInv, Active, NEW k \in Hanging
  PROVE  \A n \in 1..Height : \A x :
           k < n /\ InBody(fn, x) /\ Holder(fn, x) = ListAt(n) =>
             Inside(fn, x, Pending(k))
<1> DEFINE At_(n, x) == InBody(fn, x) /\ Holder(fn, x) = ListAt(n)
           I(x) == Inside(fn, x, Pending(k))
           S == {n \in Nat : n \in 1..Height /\ k < n => \A x : At_(n, x) => I(x)}
<1>0. k \in Nat \ {0}
  BY LevelNumbers
<1>1. 0 \in S
  BY LevelNumbers
<1>2. ASSUME NEW m \in Nat, m \in S, m + 1 \in 1..Height, k < m + 1,
             NEW x, At_(m + 1, x)
      PROVE  I(x)
  <2> DEFINE o == Holder(fn, x)[1]
  <2>1. x \in Body(fn)
    BY <1>2, HolderOf DEF Body, BaseInv
  <2>2. Inside(fn, x, Pending(k)) <=> o # 0 /\ (o = Pending(k) \/ Inside(fn, o, Pending(k)))
    BY <2>1, InsideUnfolds DEF BaseInv
  <2>3. /\ o = Pending(m) /\ o # 0
        /\ InBody(fn, Pending(m)) /\ Holder(fn, Pending(m)) = ListAt(m)
    <3>1. m + 1 # 1 /\ (m + 1) - 1 = m
      BY <1>0, <1>2
    <3> QED
      BY <1>2, <3>1, OwnerAtLevel
  <2>4. m \in 1..Height /\ (k = m \/ k < m)
    BY <1>0, <1>2, LevelNumbers
  <2> HIDE DEF o
  <2>5. k < m => I(Pending(m))
    BY <1>2, <2>3, <2>4
  <2> QED
    BY <2>2, <2>3, <2>4, <2>5
<1>3. ASSUME NEW m \in Nat, m \in S
      PROVE  m + 1 \in S
  <2>1. m + 1 \in 1..Height /\ k < m + 1 => \A x : At_(m + 1, x) => I(x)
    BY <1>2, <1>3
  <2> HIDE DEF I, At_
  <2> QED
    BY <2>1
<1>4. Nat \subseteq S
  <2> HIDE DEF S
  <2> QED
    BY <1>1, <1>3, SetInduction
<1>5. \A n \in 1..Height : n \in Nat
  BY LevelNumbers
<1> HIDE DEF I
<1>6. \A n \in 1..Height : \A x : k < n /\ At_(n, x) => I(x)
  BY <1>4, <1>5
<1> QED
  BY <1>6 DEF I

-----------------------------------------------------------------------------
(* The expression that construct looks at. *)

\* The place of the expression that construct looks at.
LEMMA CurrentPlace ==
  ASSUME BaseInv, NEW e \in Exprs, NEW k, At(e, k)
  PROVE  LET n == Len(stack)
         IN  /\ n \in Nat \ {0} /\ n = Height /\ Active /\ stack # <<>>
             /\ Top = stack[n] /\ Current = fn.list[stack[n].list]
             /\ stack[n].list \in Lists /\ ListAt(n) = stack[n].list
             /\ stack[n].at \in 1..Len(fn.list[stack[n].list])
             /\ e = fn.list[stack[n].list][stack[n].at]
             /\ InBody(fn, e) /\ Holder(fn, e) = ListAt(n)
             /\ Position(fn, e) = stack[n].at
<1> DEFINE n == Len(stack)
<1>1. /\ n \in Nat \ {0} /\ n = Height /\ Active /\ stack # <<>>
      /\ stack[n] \in Frames
  <2>1. /\ pc = "construct" /\ stack # <<>> /\ Len(stack) \in Nat \ {0}
        /\ Height = Len(stack)
        /\ \A i \in 1..Len(stack) : stack[i] \in Frames
    BY LevelNumbers DEF At
  <2> QED
    BY <2>1 DEF Active
<1>2. Top = stack[n] /\ Current = fn.list[stack[n].list]
  BY DEF Top, Current, Last
<1> HIDE DEF n
<1>3. /\ stack[n].list \in Lists /\ stack[n].at \in Nat \ {0}
      /\ ListAt(n) = stack[n].list
  BY <1>1 DEF Frames, ListAt, n
<1>4. /\ stack[n].at \in 1..Len(fn.list[stack[n].list])
      /\ e = fn.list[stack[n].list][stack[n].at]
  <2>1. Len(fn.list[stack[n].list]) \in Nat
    BY <1>3, BodyParts DEF BaseInv
  <2>2. stack[n].at <= Len(fn.list[stack[n].list])
    BY <1>2 DEF At
  <2> QED
    BY <1>2, <1>3, <2>1, <2>2 DEF At
<1>5. /\ InBody(fn, e) /\ Holder(fn, e) = stack[n].list
      /\ Position(fn, e) = stack[n].at
  BY <1>3, <1>4, HolderIs DEF BaseInv
<1> QED
  BY <1>1, <1>2, <1>3, <1>4, <1>5 DEF n

\* The label stack gives a branch the node that the branch goes to.
LEMMA BlockIsBinder ==
  ASSUME BaseInv, NEW e \in Exprs, NEW k, At(e, k), NEW t
  PROVE  LET b == Binder(fn, e, t)
         IN  \/ b = 0 /\ getBlock(t) = {}
             \/ \E j \in Hanging : /\ b = Pending(j) /\ b # 0
                                   /\ getBlock(t) = {Declared(b).node}
<1> DEFINE n == Len(stack)
<1>1. /\ n \in Nat \ {0} /\ n \in 1..Height /\ Active
      /\ InBody(fn, e) /\ Holder(fn, e) = ListAt(n)
  BY CurrentPlace
<1>2. /\ Len(blocks) = n - 1
      /\ \A i \in 1 .. n - 1 : blocks[i] = Declared(Pending(i))
  BY DEF At, BaseInv, NestInv, ScopesOfActivations
<1>3. Hanging = 1 .. n - 1
  BY LevelNumbers DEF At
<1> HIDE DEF n
<1>4. \A i \in 1 .. n - 1 : Declared(Pending(i)).label = fn.label[Pending(i)]
  BY DEF Declared, Scope
<1>5. \A j \in Hanging : Pending(j) # 0
  BY <1>1, HangingWaits, ExprsAssumption
<1>6. CASE /\ Binder(fn, e, t) = 0
           /\ \A i \in 1 .. n - 1 : fn.label[Pending(i)] # t
  <2>1. getBlock(t) = {}
    BY <1>2, <1>4, <1>6 DEF getBlock
  <2> QED
    BY <1>6, <2>1
<1>7. ASSUME NEW j \in 1 .. n - 1,
             Binder(fn, e, t) = Pending(j),
             fn.label[Pending(j)] = t,
             \A i \in 1 .. n - 1 : fn.label[Pending(i)] = t => i <= j
      PROVE  getBlock(t) = {Declared(Pending(j)).node}
  <2> DEFINE bound == {i \in 1..Len(blocks) : blocks[i].label = t}
  <2>1. bound = {i \in 1 .. n - 1 : fn.label[Pending(i)] = t}
    BY <1>2, <1>4
  <2>2. j \in bound /\ \A i \in bound : i <= j
    BY <1>7, <2>1
  <2>3. \A i \in bound : (\A m \in bound : m <= i) <=> i = j
    BY <1>1, <1>2, <2>2
  <2>4. getBlock(t) = {blocks[i].node : i \in {i \in bound : \A m \in bound : m <= i}}
    BY DEF getBlock
  <2> HIDE DEF bound
  <2>5. getBlock(t) = {blocks[j].node}
    BY <2>2, <2>3, <2>4
  <2> QED
    BY <1>2, <2>5
<1> QED
  BY <1>1, <1>3, <1>5, <1>6, <1>7, BinderFound

-----------------------------------------------------------------------------
(* What the steps do to the levels. *)

\* Level k is as it was.
Keeps(k) == stack'[k] = stack[k] /\ ListAt(k)' = ListAt(k) /\ Begun(k)' = Begun(k)

\* A step of the activation at level n: those below it wait as they did.
KeepsBelow(n) ==
  /\ Height' = n /\ Hanging' = 1 .. n - 1
  /\ \A k \in 1 .. n - 1 : Keeps(k)
  /\ ListAt(n)' = stack[n].list
  /\ \A j \in 1..Len(fn.list[stack[n].list]) : Begun(n)' < j => Begun(n) < j

\* The activation at level n waits for a new one, that has begun nothing.
Grows(n, l) ==
  /\ Height' = n + 1 /\ Hanging' = 1..n
  /\ \A k \in 1 .. n - 1 : Keeps(k)
  /\ \A k \in 1..n : /\ Kept(k)
                      /\ ListAt(k)' = stack[k].list /\ Begun(k)' = stack[k].at
  /\ ListAt(n + 1)' = l /\ Begun(n + 1)' = 0

\* Advance: the innermost activation has begun the expression it was at.
LEMMA AdvanceLevels ==
  ASSUME BaseInv, Active, stack # <<>>, Advance
  PROVE  \A n \in Nat : n = Len(stack) =>
           /\ KeepsBelow(n)
           /\ Begun(n)' = stack[n].at
           /\ stack'[n].list = stack[n].list
           /\ stack'[n].at = stack[n].at + 1
           /\ stack'[n].thenUnreachable = stack[n].thenUnreachable
           /\ pc' = "construct" /\ ret' = ret
           /\ Len(stack') = n /\ stack' # <<>>
<1> TAKE n \in Nat
<1> HAVE n = Len(stack)
<1> DEFINE g == [stack[n] EXCEPT !.at = @ + 1]
<1>1. n \in Nat \ {0} /\ stack[n] \in Frames /\ stack \in Seq(Frames)
  BY TopIsFrame DEF Top, Last, BaseInv, TypeInv, StateTypes
<1>2. /\ g \in Frames /\ g.list = stack[n].list /\ g.at = stack[n].at + 1
      /\ g.thenUnreachable = stack[n].thenUnreachable
  BY <1>1 DEF Frames
<1>3. stack' = [stack EXCEPT ![n] = g] /\ pc' = "construct" /\ ret' = ret
  BY DEF Advance
<1> HIDE DEF g
<1>4. n \in 1..Len(stack)
  BY <1>1
<1>5. /\ Len(stack') = n
      /\ \A i \in 1..n : stack'[i] = IF i = n THEN g ELSE stack[i]
      /\ stack' \in Seq(Frames)
  BY <1>1, <1>2, <1>3, <1>4, ExceptSeq
<1>6. Height' = n /\ Hanging' = 1 .. n - 1 /\ stack' # <<>>
  BY <1>1, <1>3, <1>5, EmptySeq DEF Height, Hanging
<1>7. \A k \in 1 .. n - 1 : stack'[k] = stack[k] /\ k \in Hanging
  BY <1>1, <1>5 DEF Hanging
<1>8. \A k \in 1 .. n - 1 : Keeps(k)
  <2> SUFFICES ASSUME NEW k \in 1 .. n - 1 PROVE Keeps(k)
    OBVIOUS
  <2>1. k <= Len(stack) /\ k <= Len(stack')
    BY <1>1, <1>5
  <2> QED
    BY <1>6, <1>7, <2>1 DEF Keeps, ListAt, Begun
<1>9. ListAt(n)' = stack[n].list /\ Begun(n)' = stack[n].at
  <2>1. n <= Len(stack') /\ n \notin Hanging' /\ stack'[n] = g
    BY <1>1, <1>4, <1>5, <1>6
  <2>2. Begun(n)' = g.at - 1 /\ ListAt(n)' = g.list
    BY <2>1 DEF ListAt, Begun
  <2>3. stack[n].at \in Nat
    BY <1>1 DEF Frames
  <2> QED
    BY <1>2, <2>2, <2>3
<1>10. /\ stack'[n].at = stack[n].at + 1 /\ stack'[n].list = stack[n].list
       /\ stack'[n].thenUnreachable = stack[n].thenUnreachable
  BY <1>2, <1>4, <1>5
<1>11. \A j \in 1..Len(fn.list[stack[n].list]) : Begun(n)' < j => Begun(n) < j
  <2>1. stack[n].at \in Nat /\ Begun(n) \in {stack[n].at, stack[n].at - 1}
    BY <1>1, <1>4 DEF Frames, Begun
  <2>2. Len(fn.list[stack[n].list]) \in Nat
    BY <1>1, BodyParts DEF Frames, BaseInv
  <2> QED
    BY <1>9, <2>1, <2>2
<1> QED
  BY <1>3, <1>5, <1>6, <1>8, <1>9, <1>10, <1>11 DEF KeepsBelow

\* Return: the innermost list has been done.
LEMMA ReturnLevels ==
  ASSUME BaseInv, Active, stack # <<>>, NEW u, Return(u), fn' = fn
  PROVE  \A n \in Nat : n = Len(stack) =>
           /\ KeepsBelow(n)
           /\ Begun(n)' = Len(fn.list[stack[n].list])
           /\ ret'.list = stack[n].list /\ ret'.unreachable = u
           /\ pc' = "returned" /\ Len(stack') = n - 1
<1> TAKE n \in Nat
<1> HAVE n = Len(stack)
<1>1. n \in Nat \ {0} /\ stack \in Seq(Frames)
  BY TopIsFrame DEF BaseInv, TypeInv, StateTypes
<1>2. /\ stack' \in Seq(Frames) /\ Len(stack') = n - 1
      /\ \A i \in 1 .. n - 1 : stack'[i] = stack[i]
  BY <1>1, FrontIsSeq DEF Return
<1>3. /\ ret'.list = stack[n].list /\ ret'.unreachable = u
      /\ pc' = "returned"
  BY DEF Return, Result, Top, Last
<1>4. Height' = n /\ Hanging' = 1 .. n - 1
  BY <1>1, <1>2, <1>3 DEF Height, Hanging
<1>5. \A k \in 1 .. n - 1 : k \in Hanging /\ k <= Len(stack) /\ k <= Len(stack')
  BY <1>1, <1>2 DEF Hanging
<1>6. \A k \in 1 .. n - 1 : Keeps(k)
  BY <1>2, <1>4, <1>5 DEF Keeps, ListAt, Begun
<1>7. n \notin Hanging' /\ ~(n <= Len(stack'))
  BY <1>1, <1>2, <1>4
<1>8. ListAt(n)' = stack[n].list /\ Begun(n)' = Len(fn.list[stack[n].list])
  BY <1>3, <1>7 DEF ListAt, Begun
<1>9. \A j \in 1..Len(fn.list[stack[n].list]) : ~(Begun(n)' < j)
  <2>1. Len(fn.list[stack[n].list]) \in Nat
    BY <1>1, LevelNumbers, BodyParts DEF Frames, BaseInv
  <2> QED
    BY <1>8, <2>1
<1> QED
  BY <1>2, <1>3, <1>4, <1>6, <1>8, <1>9 DEF KeepsBelow

\* Call: a list has been begun.
LEMMA CallLevels ==
  ASSUME BaseInv, NEW l \in Lists, Call(l)
  PROVE  \A n \in Nat : n = Len(stack) =>
           /\ Grows(n, l)
           /\ \A k \in 1..n : stack'[k] = stack[k]
           /\ pc' = "construct" /\ ret' = ret
           /\ Len(stack') = n + 1 /\ stack'[n + 1] = Frame(l)
<1> TAKE n \in Nat
<1> HAVE n = Len(stack)
<1>1. n \in Nat /\ stack \in Seq(Frames)
  BY DEF BaseInv, TypeInv, StateTypes
<1>2. /\ Len(stack') = n + 1
      /\ \A i \in 1..n : stack'[i] = stack[i]
      /\ stack'[n + 1] = Frame(l)
  BY <1>1, FrameIsFrame, AppendIsSeq DEF Call
<1>3. pc' = "construct" /\ ret' = ret
  BY DEF Call
<1>4. Height' = n + 1 /\ Hanging' = 1..n
  BY <1>1, <1>2, <1>3 DEF Height, Hanging
<1>5. \A k \in 1..n : k <= Len(stack) /\ k <= Len(stack')
  BY <1>1, <1>2
<1>6. \A k \in 1 .. n - 1 : k \in Hanging /\ k \in 1..n
  BY <1>1 DEF Hanging
<1>7. \A k \in 1 .. n - 1 : Keeps(k)
  BY <1>2, <1>4, <1>5, <1>6 DEF Keeps, ListAt, Begun
<1>8. \A k \in 1..n : ListAt(k)' = stack[k].list /\ Begun(k)' = stack[k].at
  BY <1>2, <1>4, <1>5 DEF ListAt, Begun
<1>9. n + 1 \notin Hanging' /\ n + 1 <= Len(stack')
  BY <1>1, <1>2, <1>4
<1>10. ListAt(n + 1)' = l /\ Begun(n + 1)' = 0
  BY <1>2, <1>9 DEF ListAt, Begun, Frame
<1> QED
  BY <1>2, <1>3, <1>4, <1>7, <1>8, <1>10 DEF Grows, Kept

\* EnterElse: the false arm takes the place of the true one.
LEMMA ElseLevels ==
  ASSUME BaseInv, NEW e \in Exprs, EnterElse(e)
  PROVE  \A n \in Nat : n = Len(stack) =>
           /\ Grows(n, <<e, "else">>)
           /\ stack'[n].thenUnreachable = ret.unreachable
           /\ pc' = "construct" /\ ret' = ret
           /\ Len(stack') = n + 1 /\ stack'[n + 1] = Frame(<<e, "else">>)
           /\ \A k \in 1..n : stack'[k].list = stack[k].list /\ stack'[k].at = stack[k].at
<1> TAKE n \in Nat
<1> HAVE n = Len(stack)
<1> DEFINE g == [stack[n] EXCEPT !.thenUnreachable = ret.unreachable]
           s == [stack EXCEPT ![n] = g]
           l == <<e, "else">>
<1>1. /\ stack # <<>> /\ stack \in Seq(Frames) /\ ret.unreachable \in BOOLEAN
      /\ l \in Lists
  BY ArmsAreLists DEF EnterElse, Back, BaseInv, TypeInv, StateTypes, Results
<1>2. n \in Nat \ {0} /\ stack[n] \in Frames
  BY <1>1, TopIsFrame DEF Top, Last, BaseInv, TypeInv
<1>3. /\ g \in Frames /\ g.list = stack[n].list /\ g.at = stack[n].at
      /\ g.thenUnreachable = ret.unreachable
  BY <1>1, <1>2 DEF Frames
<1>4. stack' = Append(s, Frame(l)) /\ pc' = "construct" /\ ret' = ret
  BY DEF EnterElse
<1> HIDE DEF g, l
<1>5. n \in 1..Len(stack)
  BY <1>2
<1>6. /\ s \in Seq(Frames) /\ Len(s) = n
      /\ \A i \in 1..n : s[i] = IF i = n THEN g ELSE stack[i]
  BY <1>1, <1>3, <1>5, ExceptSeq
<1> HIDE DEF s
<1>7. /\ Len(stack') = n + 1
      /\ \A i \in 1..n : stack'[i] = s[i]
      /\ stack'[n + 1] = Frame(l)
  BY <1>1, <1>4, <1>6, FrameIsFrame, AppendIsSeq
<1>8. Height' = n + 1 /\ Hanging' = 1..n
  BY <1>2, <1>4, <1>7 DEF Height, Hanging
<1>9. \A k \in 1..n : k <= Len(stack) /\ k <= Len(stack')
  BY <1>2, <1>7
<1>10. \A k \in 1 .. n - 1 : k \in Hanging /\ k \in 1..n /\ stack'[k] = stack[k]
  BY <1>2, <1>6, <1>7 DEF Hanging
<1>11. \A k \in 1 .. n - 1 : Keeps(k)
  BY <1>8, <1>9, <1>10 DEF Keeps, ListAt, Begun
<1>12. \A k \in 1..n : stack'[k].list = stack[k].list /\ stack'[k].at = stack[k].at
  BY <1>3, <1>6, <1>7
<1>13. \A k \in 1..n : ListAt(k)' = stack[k].list /\ Begun(k)' = stack[k].at
  BY <1>8, <1>9, <1>12 DEF ListAt, Begun
<1>14. n + 1 \notin Hanging' /\ n + 1 <= Len(stack')
  BY <1>2, <1>7, <1>8
<1>15. ListAt(n + 1)' = l /\ Begun(n + 1)' = 0
  BY <1>7, <1>14 DEF ListAt, Begun, Frame
<1>16. stack'[n].thenUnreachable = ret.unreachable
  BY <1>2, <1>3, <1>6, <1>7
<1> QED
  BY <1>4, <1>7, <1>8, <1>11, <1>12, <1>13, <1>15, <1>16 DEF Grows, Kept, l

-----------------------------------------------------------------------------
(* Steps, by what they do to the levels. *)

\* An expression's first list is begun.
Opens(n) ==
  \E e \in Exprs : \E k \in Structured :
    LET l == <<e, IF k = "If" THEN "then" ELSE "body">>
    IN  /\ At(e, k) /\ Call(l) /\ Grows(n, l)
        /\ EnterBlock(e) \/ EnterLoop(e) \/ EnterIf(e)

\* The steps that stop the builder.
Dies == LinkEmptyList \/ \E e \in Exprs : VisitUnboundBranch(e)

\* A step of construct works at the level of the innermost activation, opens
\* a list there, or goes from a true arm to the false one.
LEMMA LevelSteps ==
  ASSUME BaseInv, Next
  PROVE  \A n \in Nat : n = Len(stack) =>
           \/ BeginFunction \/ FinishFunction \/ Dies
           \/ Active /\ Active' /\ n # 0 /\ KeepsBelow(n)
           \/ Active /\ Active' /\ n # 0 /\ Opens(n)
           \/ /\ Active /\ Active' /\ n # 0
              /\ \E e \in Exprs : EnterElse(e) /\ Grows(n, <<e, "else">>)
<1> TAKE n \in Nat
<1> HAVE n = Len(stack)
<1>1. StateTypes /\ (stack # <<>> => n # 0) /\ fn' = fn
  BY Sizes, FunctionStays DEF BaseInv, TypeInv
<1>2. \A e \in Exprs : \A k : At(e, k) => Active /\ n # 0
  BY CurrentPlace
<1>3. ASSUME NEW e \in Exprs, EnterBlock(e) \/ EnterLoop(e) \/ EnterIf(e)
      PROVE  Active /\ Active' /\ n # 0 /\ Opens(n)
  <2>1. PICK k \in Structured :
          At(e, k) /\ Call(<<e, IF k = "If" THEN "then" ELSE "body">>)
    <3>1. CASE EnterBlock(e)
      BY <3>1 DEF EnterBlock, Structured
    <3>2. CASE EnterLoop(e)
      BY <3>2 DEF EnterLoop, Structured
    <3>3. CASE EnterIf(e)
      BY <3>3 DEF EnterIf, Structured
    <3> QED
      BY <1>3, <3>1, <3>2, <3>3
  <2> DEFINE l == <<e, IF k = "If" THEN "then" ELSE "body">>
  <2>2. l \in Lists
    BY ArmsAreLists
  <2>3. Grows(n, l) /\ Active'
    BY <2>1, <2>2, CallLevels DEF Active
  <2>4. Active /\ n # 0
    BY <1>2, <2>1
  <2> QED
    BY <1>3, <2>1, <2>3, <2>4 DEF Opens
<1>4. ASSUME \/ EndOfList
             \/ \E e \in Exprs :
                  \/ VisitReturn(e) \/ VisitUnreachable(e)
                  \/ VisitBr(e) \/ VisitBrIf(e) \/ VisitBrTable(e)
                  \/ VisitCall(e) \/ VisitDefault(e)
                  \/ LeaveBlock(e) \/ LeaveDeadBlock(e) \/ LeaveLoop(e)
                  \/ LeaveIfWithoutElse(e) \/ LeaveElse(e) \/ LeaveDeadIf(e)
      PROVE  Active /\ Active' /\ n # 0 /\ KeepsBelow(n)
  <2>1. Active /\ (Advance \/ \E u \in BOOLEAN : Return(u))
    BY <1>4
    DEF EndOfList, VisitReturn, VisitUnreachable, VisitBr, VisitBrIf,
        VisitBrTable, VisitCall, VisitDefault, LeaveBlock, LeaveDeadBlock,
        LeaveLoop, LeaveIfWithoutElse, LeaveElse, LeaveDeadIf, At, Back, Active
  <2>2. pc = "returned" => stack # <<>>
    BY <1>4
    DEF EndOfList, VisitReturn, VisitUnreachable, VisitBr, VisitBrIf,
        VisitBrTable, VisitCall, VisitDefault, LeaveBlock, LeaveDeadBlock,
        LeaveLoop, LeaveIfWithoutElse, LeaveElse, LeaveDeadIf, At, Back
  <2>3. stack # <<>>
    BY <2>1, <2>2 DEF Active, BaseInv, TypeInv, Working
  <2>4. CASE Advance
    BY <1>1, <2>1, <2>3, <2>4, AdvanceLevels DEF Active
  <2>5. ASSUME NEW u \in BOOLEAN, Return(u)
        PROVE  KeepsBelow(n) /\ Active'
    BY <1>1, <2>1, <2>3, <2>5, ReturnLevels DEF Active
  <2> QED
    BY <1>1, <2>1, <2>3, <2>4, <2>5 DEF Active
<1>5. ASSUME NEW e \in Exprs, EnterElse(e)
      PROVE  /\ Active /\ Active' /\ n # 0
             /\ Grows(n, <<e, "else">>)
  BY <1>1, <1>5, ElseLevels DEF Active, EnterElse, Back
<1> QED
  BY <1>3, <1>4, <1>5 DEF Next, Dies

-----------------------------------------------------------------------------
(* Why the builder stops. *)

\* A function's own list and a false arm are only begun when they hold
\* something.
OpenInv ==
  Active => \A k \in 1..Height :
              ListAt(k) = RootList \/ ListAt(k)[2] = "else" =>
                fn.list[ListAt(k)] # <<>>

\* A step at the level of the innermost activation leaves the lists there.
LEMMA ListsKept ==
  ASSUME BaseInv, Active, NEW n \in Nat, n = Len(stack), n # 0, KeepsBelow(n)
  PROVE  \A k \in 1..n : ListAt(k)' = ListAt(k) /\ k \in 1..Height
<1>1. n <= Height
  BY LevelNumbers DEF Active
<1>2. \A k \in 1..n : k \in 1 .. n - 1 \/ k = n
  OBVIOUS
<1>3. ListAt(n)' = ListAt(n)
  BY DEF KeepsBelow, ListAt
<1>4. \A k \in 1..n : k \in 1..Height
  BY <1>1, LevelNumbers
<1> QED
  BY <1>2, <1>3, <1>4 DEF KeepsBelow, Keeps

\* Nor does a step that adds a level.
LEMMA ListsGrown ==
  ASSUME BaseInv, Active, NEW n \in Nat, n = Len(stack), n # 0, NEW l,
         Grows(n, l)
  PROVE  /\ \A k \in 1..n : ListAt(k)' = ListAt(k) /\ k \in 1..Height
         /\ ListAt(n + 1)' = l /\ Height' = n + 1
<1>1. n <= Height
  BY LevelNumbers DEF Active
<1>2. \A k \in 1..n : k \in 1..Height
  BY <1>1, LevelNumbers
<1> QED
  BY <1>2 DEF Grows, ListAt

\* OpenInv is inductive, given BaseInv.
LEMMA InitOpen == Init => OpenInv
BY DEF Init, Start, OpenInv, Active

\* And no step breaks it.
LEMMA NextOpen == BaseInv /\ OpenInv /\ [Next]_vars => OpenInv'
<1> SUFFICES ASSUME BaseInv, OpenInv, [Next]_vars PROVE OpenInv'
  OBVIOUS
<1> DEFINE Wants(l) == l = RootList \/ l[2] = "else" => fn.list[l] # <<>>
<1>1. fn' = fn
  BY FunctionStays DEF BaseInv, vars
<1>2. SUFFICES ASSUME Active', NEW k \in 1..Height'
               PROVE  Wants(ListAt(k)')
  BY <1>1 DEF OpenInv
<1>3. ASSUME Active, k \in 1..Height, ListAt(k)' = ListAt(k)
      PROVE  Wants(ListAt(k)')
  BY <1>3 DEF OpenInv
<1>4. CASE UNCHANGED vars
  <2>1. Active /\ k \in 1..Height /\ ListAt(k)' = ListAt(k)
    BY <1>2, <1>4 DEF vars, Active, Height, ListAt
  <2> QED
    BY <1>3, <2>1
<1>5. CASE BeginFunction
  <2>1. fn.list[RootList] # <<>> /\ Call(RootList) /\ stack = <<>>
    BY <1>2, <1>5 DEF BeginFunction, Active, BaseInv, NestInv
  <2>2. Grows(0, RootList)
    BY <2>1, RootIsList, CallLevels
  <2>3. k = 1 /\ ListAt(1)' = RootList
    BY <1>2, <2>2 DEF Grows
  <2> QED
    BY <2>1, <2>3
<1>6. CASE FinishFunction \/ Dies
  BY <1>2, <1>6
  DEF FinishFunction, Dies, LinkEmptyList, VisitUnboundBranch, Crash, Active
<1>7. CASE Next /\ ~BeginFunction /\ ~FinishFunction /\ ~Dies
  <2> PICK n \in Nat : n = Len(stack)
    BY LevelNumbers
  <2>1. CASE Active /\ n # 0 /\ KeepsBelow(n)
    <3>1. k \in 1..n
      BY <2>1 DEF KeepsBelow
    <3> QED
      BY <1>3, <2>1, <3>1, ListsKept
  <2>2. ASSUME Active, n # 0, NEW e \in Exprs, NEW a \in {"body", "then", "else"},
               Grows(n, <<e, a>>), a = "else" => fn.list[<<e, a>>] # <<>>
        PROVE  Wants(ListAt(k)')
    <3>1. /\ \A i \in 1..n : ListAt(i)' = ListAt(i) /\ i \in 1..Height
          /\ ListAt(n + 1)' = <<e, a>> /\ Height' = n + 1
      BY <2>2, ListsGrown
    <3>2. k \in 1..n \/ k = n + 1
      BY <1>2, <3>1
    <3>3. <<e, a>> # RootList
      BY ExprsAssumption DEF RootList
    <3> QED
      BY <1>3, <2>2, <3>1, <3>2, <3>3
  <2>3. CASE Active /\ n # 0 /\ Opens(n)
    <3> PICK e \in Exprs, a \in {"body", "then"} : Grows(n, <<e, a>>)
      BY <2>3 DEF Opens
    <3> QED
      BY <2>2, <2>3
  <2>4. ASSUME Active, n # 0, NEW e \in Exprs, EnterElse(e), Grows(n, <<e, "else">>)
        PROVE  Wants(ListAt(k)')
    BY <2>2, <2>4 DEF EnterElse
  <2> QED
    BY <1>7, <2>1, <2>3, <2>4, LevelSteps
<1> QED
  BY <1>4, <1>5, <1>6, <1>7

\* A list that construct is to link the end of and that has no end is, or
\* ends with, an empty list of the function.
LEMMA NoEndNeedsEmptyList ==
  ASSUME BaseInv, OpenInv, pc = "returned", BackOfEmpty(ret.list)
  PROVE  HasEmptyList(fn)
<1> DEFINE l == ret.list
<1>1. l \in Lists /\ Active /\ Len(stack) \in Nat
  BY LevelNumbers DEF Active
<1>2. /\ Height = Len(stack) + 1 /\ Height \in 1..Height
      /\ ListAt(Height) = l
  BY <1>1, LevelNumbers DEF Active, ListAt
<1>3. CASE fn.list[l] = <<>>
  <2>1. l # RootList /\ l[2] # "else"
    BY <1>1, <1>2, <1>3 DEF OpenInv
  <2>2. stack # <<>> /\ HasReturned /\ Len(stack) # 0
    BY <2>1, Sizes DEF BaseInv, NestInv, TypeInv
  <2>3. Len(stack) \in Hanging
    BY <1>1, <2>2 DEF Hanging
  <2> DEFINE k == Len(stack)
  <2>4. /\ stack[k].list \in Lists
        /\ stack[k].at \in 1..Len(fn.list[stack[k].list])
        /\ Pending(k) = fn.list[stack[k].list][stack[k].at]
    BY <1>1, <2>3, HangingWaits DEF Pending
  <2>5. DOMAIN fn.list[stack[k].list] = 1..Len(fn.list[stack[k].list])
    BY <2>4, BodyParts DEF BaseInv
  <2>6. l \in ListsOf(Pending(k))
    BY <2>2 DEF HasReturned, Suspended
  <2> HIDE DEF k, l
  <2>7. \/ l = <<Pending(k), "body">> /\ fn.kind[Pending(k)] \in {"Block", "Loop"}
        \/ l = <<Pending(k), "then">> /\ fn.kind[Pending(k)] = "If"
    BY <2>1, <2>6 DEF ListsOf
  <2> QED
    BY <1>3, <2>4, <2>5, <2>7 DEF HasEmptyList
<1>4. CASE fn.list[l] # <<>>
  <2> DEFINE x == LastExpr[Last(fn.list[l])]
  <2>1. fn.kind[x] = "Loop"
    BY <1>4 DEF BackOfEmpty
  <2>2. InBody(fn, x) /\ fn.list[<<x, "body">>] = <<>>
    BY <1>1, <1>4, <2>1, ExitOfList DEF BaseInv
  <2> HIDE DEF x
  <2> QED
    BY <2>1, <2>2 DEF HasEmptyList, InBody
<1> QED
  BY <1>3, <1>4

\* A branch that getBlock finds no scope for names a label nothing around it
\* declares.
LEMMA UnboundNeedsLabel ==
  ASSUME BaseInv, NEW e \in Exprs, VisitUnboundBranch(e)
  PROVE  HasUnboundLabel(fn)
<1> PICK k \in Branches : At(e, k)
  BY DEF VisitUnboundBranch
<1>1. InBody(fn, e) /\ fn.kind[e] \in Branches
  BY CurrentPlace DEF At
<1> PICK i \in 1..Len(fn.targets[e]) : getBlock(fn.targets[e][i]) = {}
  BY DEF VisitUnboundBranch, AllBound
<1>2. fn.targets[e] \in Seq(Labels)
  BY FunctionParts DEF BaseInv, TypeInv
<1>3. i \in DOMAIN fn.targets[e]
  BY <1>2
<1>4. Binder(fn, e, fn.targets[e][i]) = 0
  BY BlockIsBinder
<1> QED
  BY <1>1, <1>3, <1>4 DEF HasUnboundLabel

\* Every crash has its cause.
LEMMA NextHasCause ==
  BaseInv /\ OpenInv /\ CrashNeedsCause /\ [Next]_vars => CrashNeedsCause'
<1> SUFFICES ASSUME BaseInv, OpenInv, CrashNeedsCause, [Next]_vars
             PROVE  CrashNeedsCause'
  OBVIOUS
<1>1. fn' = fn
  BY FunctionStays DEF BaseInv, vars
<1>2. HasEmptyList(fn)' = HasEmptyList(fn) /\ HasUnboundLabel(fn)' = HasUnboundLabel(fn)
  BY <1>1
<1>3. CASE UNCHANGED vars
  BY <1>2, <1>3 DEF CrashNeedsCause, vars
<1>4. CASE LinkEmptyList
  BY <1>2, <1>4, NoEndNeedsEmptyList DEF LinkEmptyList, CrashNeedsCause
<1>5. ASSUME NEW e \in Exprs, VisitUnboundBranch(e)
      PROVE  CrashNeedsCause'
  BY <1>2, <1>5, UnboundNeedsLabel DEF CrashNeedsCause
<1>6. CASE BeginFunction
  BY <1>6 DEF BeginFunction, Call, CrashNeedsCause
<1>7. CASE FinishFunction
  BY <1>7 DEF FinishFunction, CrashNeedsCause
<1>8. ASSUME Next, ~Dies, ~BeginFunction, ~FinishFunction
      PROVE  Active'
  <2> PICK n \in Nat : n = Len(stack)
    BY LevelNumbers
  <2> QED
    BY <1>8, LevelSteps
<1> QED
  BY <1>3, <1>4, <1>5, <1>6, <1>7, <1>8 DEF Active, CrashNeedsCause, Dies

-----------------------------------------------------------------------------
(* Where the edges go. *)

\* construct has come back from a list of the expression it is at.
LEMMA BackPlace ==
  ASSUME BaseInv, NEW e \in Exprs, NEW a, Back(e, a)
  PROVE  LET n == Len(stack)
         IN  /\ n \in Nat \ {0} /\ n \in Hanging /\ Height = n + 1 /\ Active
             /\ pc = "returned" /\ Hanging = 1..n /\ stack # <<>>
             /\ Top = stack[n] /\ Current = fn.list[stack[n].list]
             /\ stack[n].list \in Lists /\ ListAt(n) = stack[n].list
             /\ stack[n].at \in 1..Len(fn.list[stack[n].list])
             /\ e = Pending(n) /\ e = fn.list[stack[n].list][stack[n].at]
             /\ InBody(fn, e) /\ Holder(fn, e) = ListAt(n)
             /\ Position(fn, e) = stack[n].at
             /\ ListAt(n + 1) = <<e, a>> /\ ret.list = <<e, a>>
             /\ <<e, a>> \in Lists /\ <<e, a>> \in ListsOf(e)
<1> DEFINE n == Len(stack)
<1>1. pc = "returned" /\ ret.list = <<e, a>> /\ stack # <<>>
  BY DEF Back
<1>2. n \in Nat \ {0} /\ Active /\ Hanging = 1..n /\ Height = n + 1
  BY <1>1, TopIsFrame, LevelNumbers DEF Active, BaseInv, TypeInv
<1>3. n \in Hanging
  BY <1>2
<1>4. Top = stack[n] /\ Current = fn.list[stack[n].list]
  BY DEF Top, Current, Last
<1> HIDE DEF n
<1>5. ListAt(n + 1) = <<e, a>> /\ <<e, a>> \in Lists
  BY <1>1, <1>2, LevelNumbers DEF ListAt, n
<1>6. /\ stack[n].list \in Lists /\ ListAt(n) = stack[n].list
      /\ stack[n].at \in 1..Len(fn.list[stack[n].list])
      /\ InBody(fn, Pending(n)) /\ Holder(fn, Pending(n)) = stack[n].list
      /\ Position(fn, Pending(n)) = stack[n].at
      /\ ListAt(n + 1) \in ListsOf(Pending(n))
      /\ ListAt(n + 1)[1] = Pending(n)
  BY <1>2, <1>3, HangingWaits
<1>7. e = Pending(n)
  BY <1>5, <1>6
<1> QED
  BY <1>1, <1>2, <1>3, <1>4, <1>5, <1>6, <1>7 DEF n, Pending

\* The lists of an expression, by its kind.
LEMMA ListsByKind ==
  ASSUME NEW e, NEW a, <<e, a>> \in ListsOf(e)
  PROVE  \/ a = "body" /\ fn.kind[e] \in {"Block", "Loop"}
         \/ a \in {"then", "else"} /\ fn.kind[e] = "If"
BY DEF ListsOf

\* The nodes that edges may go to: the return node and the trap, or the nodes
\* of an expression of the body.
NodesOfKind(x) ==
  {q \in {Inst(x)} : fn.kind[x] # "Return"} \cup
  {q \in {EndBlock(x)} : fn.kind[x] \in {"Block", "If"}} \cup
  {q \in {ThenBegin(x), ElseBegin(x)} : fn.kind[x] = "If"} \cup
  {q \in {EndLoop(x)} : fn.kind[x] = "Loop" /\ ~IsLastOfList(fn, x)}

\* A node that an edge may lead to: one that an expression of the body has.
ProperDest(q) ==
  q \in {RetFunc, Trap} \/ \E x \in Body(fn) : q \in NodesOfKind(x)

\* The expressions whose end a step may add edges to: the one a list of which
\* has just returned, one with a branch in it to its own end, or a new block.
Ending(x) ==
  \/ \E k \in Hanging : x = Pending(k) /\ (k = Len(stack) \/ BranchesOut(fn, x))
  \/ EnterBlock(x)

\* Where the new edges of a step go.
NewDest(q) == ProperDest(q) /\ \A x : q = EndBlock(x) => Ending(x)

\* The expressions of a list.
LEMMA PlaceIsNew ==
  ASSUME BaseInv, NEW l \in Lists, NEW i \in 1..Len(fn.list[l])
  PROVE  NewDest(NodeOf(fn, fn.list[l][i]))
<1> DEFINE e == fn.list[l][i]
<1>1. e \in Exprs /\ InBody(fn, e) /\ e \in Body(fn)
  BY HolderIs, BodyParts DEF BaseInv, Body
<1> HIDE DEF e
<1>2. NodeOf(fn, e) = RetFunc \/ (NodeOf(fn, e) = Inst(e) /\ fn.kind[e] # "Return")
  BY DEF NodeOf
<1>3. \A x : NodeOf(fn, e) # EndBlock(x)
  BY DEF NodeOf, RetFunc, Inst, EndBlock
<1> QED
  BY <1>1, <1>2, <1>3 DEF NewDest, ProperDest, NodesOfKind, e

\* The expression after the one at the top.
LEMMA NextIsNew ==
  ASSUME BaseInv, Active, stack # <<>>, NEW s, NEW l, NEW d \in ToNext(s, l)
  PROVE  NewDest(d.dest)
<1>1. /\ Top.list \in Lists /\ Top.at \in Nat \ {0}
      /\ Len(Current) \in Nat
  BY TopIsFrame DEF BaseInv, TypeInv
<1>2. Top.at < Len(Current) /\ d.dest = NodeOf(fn, Current[Top.at + 1])
  BY DEF ToNext, CFGEdge
<1>3. Top.at + 1 \in 1..Len(Current)
  BY <1>1, <1>2
<1> QED
  BY <1>1, <1>2, <1>3, PlaceIsNew DEF Current

\* The first expression of a list.
LEMMA FirstIsNew ==
  ASSUME BaseInv, NEW s, NEW l \in Lists, NEW d \in ToFirst(s, l)
  PROVE  NewDest(d.dest)
<1>1. Len(fn.list[l]) \in Nat /\ fn.list[l] \in Seq(Exprs)
  BY BodyParts DEF BaseInv
<1>2. fn.list[l] # <<>> /\ d.dest = NodeOf(fn, fn.list[l][1])
  BY DEF ToFirst, CFGEdge
<1>3. 1 \in 1..Len(fn.list[l])
  BY <1>1, <1>2, EmptySeq
<1> QED
  BY <1>2, <1>3, PlaceIsNew

\* The end of a Block or If that construct is in.
LEMMA EndIsNew ==
  ASSUME BaseInv, NEW e \in Exprs, InBody(fn, e),
         fn.kind[e] \in {"Block", "If"}, Ending(e)
  PROVE  NewDest(EndBlock(e))
BY DEF NewDest, ProperDest, NodesOfKind, Body, EndBlock

\* The other nodes of an expression.
LEMMA OwnIsNew ==
  ASSUME BaseInv, NEW e \in Exprs, InBody(fn, e), NEW q,
         q \in NodesOfKind(e), q # EndBlock(e)
  PROVE  NewDest(q)
<1>1. \A x : q # EndBlock(x)
  BY DEF NodesOfKind, Inst, EndBlock, ThenBegin, ElseBegin, EndLoop
<1> QED
  BY <1>1 DEF NewDest, ProperDest, Body

\* The target of a branch.
LEMMA BranchIsNew ==
  ASSUME BaseInv, NEW e \in Exprs, NEW k \in Branches, At(e, k),
         NEW i \in 1..Len(fn.targets[e]), NEW l, NEW d \in BranchEdges(e, i, l)
  PROVE  NewDest(d.dest)
<1> DEFINE t == fn.targets[e][i]
<1>1. d.dest \in getBlock(t)
  BY DEF BranchEdges, CFGEdge
<1> PICK j \in Hanging : /\ getBlock(t) = {Declared(Pending(j)).node}
                          /\ Binder(fn, e, t) = Pending(j)
  BY <1>1, BlockIsBinder
<1>2. /\ Active /\ Pending(j) \in Exprs /\ InBody(fn, Pending(j))
      /\ ListAt(j + 1) \in ListsOf(Pending(j))
  BY CurrentPlace, HangingWaits
<1>3. fn.kind[Pending(j)] \in {"Block", "Loop", "If"}
  BY <1>2 DEF ListsOf
<1>4. d.dest = IF fn.kind[Pending(j)] = "Loop" THEN Inst(Pending(j))
               ELSE EndBlock(Pending(j))
  BY <1>1 DEF Declared, Scope
<1>5. CASE fn.kind[Pending(j)] = "Loop"
  <2>1. d.dest \in NodesOfKind(Pending(j)) /\ d.dest # EndBlock(Pending(j))
    BY <1>4, <1>5 DEF NodesOfKind, Inst, EndBlock
  <2> QED
    BY <1>2, <2>1, OwnIsNew
<1>6. CASE fn.kind[Pending(j)] # "Loop"
  <2>1. BranchesOut(fn, Pending(j))
    <3>1. /\ InBody(fn, e) /\ Holder(fn, e) = ListAt(Len(stack))
          /\ Len(stack) = Height /\ Len(stack) \in 1..Height /\ j < Len(stack)
      <4>1. j \in 1 .. Len(stack) - 1
        BY LevelNumbers DEF At
      <4> QED
        BY <4>1, CurrentPlace
    <3>2. Inside(fn, e, Pending(j))
      BY <1>2, <3>1, InsideLevels
    <3>3. i \in DOMAIN fn.targets[e]
      <4>1. fn.targets[e] \in Seq(Labels)
        BY FunctionParts DEF BaseInv, TypeInv
      <4> QED
        BY <4>1
    <3> QED
      BY <3>1, <3>2, <3>3 DEF BranchesOut, At
  <2> QED
    BY <1>2, <1>3, <1>4, <1>6, <2>1, EndIsNew DEF Ending
<1> QED
  BY <1>5, <1>6

\* The links of the end of a list go where they are told to.
LEMMA LastEdgesGo ==
  ASSUME NEW l, NEW q, NEW d \in insertEdgeFromLastExpr(l, q)
  PROVE  d.dest = q
BY DEF insertEdgeFromLastExpr, EdgesFrom, EdgesFromKind, CFGEdge

\* So does a fall through.
LEMMA FallThroughGoes ==
  ASSUME NEW q, NEW d \in FallThrough(q)
  PROVE  d.dest = q
BY LastEdgesGo DEF FallThrough

\* The edges that a step adds.
Added == edges' \ edges

\* What visiting an instruction adds.
LEMMA VisitsAdd ==
  ASSUME BaseInv, NEW e \in Exprs,
         \/ VisitReturn(e) \/ VisitUnreachable(e)
         \/ VisitBr(e) \/ VisitBrIf(e) \/ VisitBrTable(e)
         \/ VisitCall(e) \/ VisitDefault(e)
  PROVE  \A d \in Added : NewDest(d.dest)
<1> USE DEF Added
<1>1. Active /\ stack # <<>> /\ pc = "construct" /\ \E k : At(e, k)
  <2>1. pc = "construct" /\ \E k : At(e, k)
    BY DEF VisitReturn, VisitUnreachable, VisitBr, VisitBrIf, VisitBrTable,
           VisitCall, VisitDefault, At
  <2> QED
    BY <2>1, CurrentPlace
<1>2. \A k \in Branches : At(e, k) =>
        /\ \A i \in 1..Len(fn.targets[e]) : \A l :
             \A d \in BranchEdges(e, i, l) : NewDest(d.dest)
        /\ Len(fn.targets[e]) \in Nat \ {0}
  <2> SUFFICES ASSUME NEW k \in Branches, At(e, k)
               PROVE  Len(fn.targets[e]) \in Nat \ {0}
    BY BranchIsNew
  <2>1. fn.targets[e] \in Seq(Labels) /\ fn.targets[e] # <<>>
    BY FunctionParts DEF BaseInv, TypeInv, At
  <2> QED
    BY <2>1, EmptySeq
<1>3. \A s, l : \A d \in ToNext(s, l) : NewDest(d.dest)
  BY <1>1, NextIsNew
<1>4. NewDest(Trap)
  BY DEF NewDest, ProperDest, Trap, EndBlock
<1>5. CASE VisitReturn(e)
  BY <1>5 DEF VisitReturn
<1>6. CASE VisitUnreachable(e)
  BY <1>4, <1>6 DEF VisitUnreachable, CFGEdge
<1>7. CASE VisitBr(e)
  BY <1>2, <1>7 DEF VisitBr, Branches
<1>8. CASE VisitBrIf(e)
  BY <1>2, <1>3, <1>8 DEF VisitBrIf, Branches
<1>9. CASE VisitBrTable(e)
  <2> DEFINE N == Len(fn.targets[e])
  <2>1. edges' = edges \cup BranchEdges(e, N, OnDefault)
                 \cup UNION {BranchEdges(e, i, OnCase(i - 1)) : i \in 1 .. N - 1}
    BY <1>9 DEF VisitBrTable
  <2>2. /\ N \in 1..N
        /\ \A i \in 1..N : \A l : \A d \in BranchEdges(e, i, l) : NewDest(d.dest)
        /\ \A i \in 1 .. N - 1 : i \in 1..N
    BY <1>2, <1>9 DEF VisitBrTable, Branches
  <2> HIDE DEF N
  <2> QED
    BY <2>1, <2>2
<1>10. CASE VisitCall(e)
  BY <1>3, <1>10 DEF VisitCall
<1>11. CASE VisitDefault(e)
  BY <1>3, <1>11 DEF VisitDefault
<1> QED
  BY <1>5, <1>6, <1>7, <1>8, <1>9, <1>10, <1>11

\* What beginning a structured expression adds.
LEMMA EntersAdd ==
  ASSUME BaseInv, NEW e \in Exprs, EnterBlock(e) \/ EnterLoop(e) \/ EnterIf(e)
  PROVE  \A d \in Added : NewDest(d.dest)
<1> USE DEF Added
<1>1. Active /\ stack # <<>> /\ InBody(fn, e) /\ \E k : At(e, k)
  <2>1. \E k : At(e, k)
    BY DEF EnterBlock, EnterLoop, EnterIf
  <2> QED
    BY <2>1, CurrentPlace
<1>2. \A s, l : \A d \in ToNext(s, l) : NewDest(d.dest)
  BY <1>1, NextIsNew
<1>3. \A s : \A l \in Lists : \A d \in ToFirst(s, l) : NewDest(d.dest)
  BY FirstIsNew
<1>4. <<e, "body">> \in Lists
  BY ArmsAreLists
<1>5. CASE EnterBlock(e)
  <2>1. NewDest(EndBlock(e))
    BY <1>1, <1>5, EndIsNew DEF EnterBlock, At, Ending
  <2> QED
    BY <1>3, <1>4, <1>5, <2>1 DEF EnterBlock, CFGEdge
<1>6. CASE EnterLoop(e)
  BY <1>2, <1>3, <1>4, <1>6 DEF EnterLoop
<1>7. CASE EnterIf(e)
  <2>1. NewDest(ThenBegin(e))
    <3>1. ThenBegin(e) \in NodesOfKind(e) /\ ThenBegin(e) # EndBlock(e)
      BY <1>7 DEF EnterIf, At, NodesOfKind, ThenBegin, EndBlock
    <3> QED
      BY <1>1, <3>1, OwnIsNew
  <2> QED
    BY <1>7, <2>1 DEF EnterIf, CFGEdge
<1> QED
  BY <1>5, <1>6, <1>7

\* What coming back from one of its lists adds.
LEMMA LeavesAdd ==
  ASSUME BaseInv, NEW e \in Exprs,
         \/ LeaveBlock(e) \/ LeaveDeadBlock(e) \/ LeaveLoop(e)
         \/ EnterElse(e) \/ LeaveIfWithoutElse(e) \/ LeaveElse(e) \/ LeaveDeadIf(e)
  PROVE  \A d \in Added : NewDest(d.dest)
<1> USE DEF Added
<1>1. PICK a : Back(e, a)
  BY DEF LeaveBlock, LeaveDeadBlock, LeaveLoop, EnterElse, LeaveIfWithoutElse,
         LeaveElse, LeaveDeadIf
<1>2. /\ Active /\ stack # <<>> /\ InBody(fn, e) /\ e = Pending(Len(stack))
      /\ Len(stack) \in Hanging /\ <<e, a>> \in ListsOf(e)
      /\ stack[Len(stack)].at \in 1..Len(fn.list[stack[Len(stack)].list])
      /\ Top = stack[Len(stack)] /\ Current = fn.list[stack[Len(stack)].list]
      /\ Holder(fn, e) = stack[Len(stack)].list
      /\ Position(fn, e) = stack[Len(stack)].at
  BY <1>1, BackPlace
<1>3. \A s, l : \A d \in ToNext(s, l) : NewDest(d.dest)
  BY <1>2, NextIsNew
<1>4. \A s : \A d \in ToFirst(s, <<e, "then">>) \cup ToFirst(s, <<e, "else">>) :
        NewDest(d.dest)
  BY FirstIsNew, ArmsAreLists
<1>5. Ending(e)
  BY <1>2 DEF Ending
<1>6. Back(e, "then") \/ Back(e, "else") => fn.kind[e] = "If"
  BY BackPlace, ListsByKind
<1>7. fn.kind[e] \in {"Block", "If"} => NewDest(EndBlock(e))
  BY <1>2, <1>5, EndIsNew
<1>8. fn.kind[e] = "If" => NewDest(ElseBegin(e))
  <2>1. fn.kind[e] = "If" =>
          ElseBegin(e) \in NodesOfKind(e) /\ ElseBegin(e) # EndBlock(e)
    BY DEF NodesOfKind, ElseBegin, EndBlock
  <2> QED
    BY <1>2, <2>1, OwnIsNew
<1>9. \A q : \A d \in FallThrough(q) : d.dest = q
  BY FallThroughGoes
<1>10. CASE LeaveBlock(e)
  BY <1>3, <1>7, <1>9, <1>10 DEF LeaveBlock
<1>11. CASE LeaveDeadBlock(e)
  BY <1>7, <1>9, <1>11 DEF LeaveDeadBlock
<1>12. CASE LeaveLoop(e)
  <2>1. CASE Top.at < Len(Current)
    <3>1. ~IsLastOfList(fn, e)
      BY <1>2, <2>1 DEF IsLastOfList
    <3>2. EndLoop(e) \in NodesOfKind(e) /\ EndLoop(e) # EndBlock(e)
      BY <1>12, <3>1 DEF LeaveLoop, NodesOfKind, EndLoop, EndBlock
    <3>3. NewDest(EndLoop(e))
      BY <1>2, <3>2, OwnIsNew
    <3>4. \A l : \A d \in insertEdgeFromLastExpr(l, EndLoop(e)) : NewDest(d.dest)
      BY <3>3, LastEdgesGo
    <3> QED
      BY <1>3, <1>12, <2>1, <3>4 DEF LeaveLoop
  <2>2. CASE ~(Top.at < Len(Current))
    BY <1>12, <2>2 DEF LeaveLoop
  <2> QED
    BY <2>1, <2>2
<1>13. CASE EnterElse(e)
  BY <1>4, <1>6, <1>7, <1>9, <1>13 DEF EnterElse, ThenEdges
<1>14. CASE LeaveIfWithoutElse(e)
  BY <1>3, <1>4, <1>6, <1>7, <1>8, <1>9, <1>14
  DEF LeaveIfWithoutElse, ThenEdges, ToNextOfJoin, CFGEdge
<1>15. CASE LeaveElse(e)
  BY <1>3, <1>4, <1>6, <1>7, <1>8, <1>9, <1>15
  DEF LeaveElse, ElseEdges, ToNextOfJoin, CFGEdge
<1>16. CASE LeaveDeadIf(e)
  BY <1>4, <1>6, <1>7, <1>8, <1>9, <1>16
  DEF LeaveDeadIf, ElseEdges, CFGEdge
<1> QED
  BY <1>10, <1>11, <1>12, <1>13, <1>14, <1>15, <1>16

\* What a step adds to the graph, in every step of the builder.
LEMMA StepAdds ==
  ASSUME BaseInv, Next
  PROVE  \A d \in Added : NewDest(d.dest)
<1>1. NewDest(RetFunc)
  BY DEF NewDest, ProperDest, RetFunc, EndBlock
<1>2. CASE BeginFunction
  BY <1>1, <1>2, RootIsList, FirstIsNew DEF BeginFunction, Added, CFGEdge
<1>3. CASE FinishFunction
  <2> DEFINE C == {CFGEdge(n, RetFunc, Plainly) :
                     n \in childlessReturn(edges \cup FallThrough(RetFunc))}
  <2>1. edges' \subseteq edges \cup FallThrough(RetFunc) \cup C
    BY <1>3 DEF FinishFunction
  <2>2. \A d \in C : d.dest = RetFunc
    BY DEF CFGEdge
  <2> HIDE DEF C
  <2> QED
    BY <1>1, <2>1, <2>2, FallThroughGoes DEF Added
<1>4. CASE EndOfList \/ LinkEmptyList \/ \E e \in Exprs : VisitUnboundBranch(e)
  BY <1>4 DEF EndOfList, LinkEmptyList, VisitUnboundBranch, Crash, Added
<1> QED
  BY <1>2, <1>3, <1>4, VisitsAdd, EntersAdd, LeavesAdd DEF Next

-----------------------------------------------------------------------------
\* Every edge goes to a node of the body, to the return node or the trap.
ProperInv == \A d \in edges : ProperDest(d.dest)

\* Edges lead only to nodes that the body has.
LEMMA InitProper == Init => ProperInv
BY DEF Init, Start, ProperInv

\* And no step breaks it.
LEMMA NextProper == BaseInv /\ ProperInv /\ [Next]_vars => ProperInv'
<1> SUFFICES ASSUME BaseInv, ProperInv, [Next]_vars PROVE ProperInv'
  OBVIOUS
<1>1. fn' = fn
  BY FunctionStays DEF BaseInv, vars
<1>2. \A q : ProperDest(q)' <=> ProperDest(q)
  BY <1>1 DEF ProperDest, NodesOfKind
<1>3. CASE UNCHANGED vars
  BY <1>2, <1>3 DEF ProperInv, vars
<1>4. CASE Next
  <2>1. \A d \in edges' : d \in edges \/ d \in Added
    BY DEF Added
  <2> QED
    BY <1>2, <1>4, <2>1, StepAdds DEF ProperInv, NewDest
<1> QED
  BY <1>3, <1>4

-----------------------------------------------------------------------------
(* The order of the text. *)

\* What comes in the text after what a level has begun.
Ahead(k) == Later(fn, ListAt(k), Begun(k))

\* What lies at a level or above it comes before all that is ahead below it.
LEMMA AheadIsLater ==
  ASSUME BaseInv, Active, NEW k \in Hanging, NEW z \in Ahead(k)
  PROVE  /\ z \in Exprs /\ Pending(k) < z
         /\ \A n \in 1..Height : k < n =>
              \A m \in Lists : m[1] = ListAt(n)[1] =>
                \A y \in Range(fn.list[m]) : y < z
<1> DEFINE x == Pending(k)
           l == stack[k].list
           i == stack[k].at
<1>1. /\ l \in Lists /\ i \in 1..Len(fn.list[l]) /\ x = fn.list[l][i]
      /\ z \in Later(fn, l, i) /\ x \in Exprs
      /\ ListAt(k + 1)[1] = x
  BY HangingWaits DEF Ahead
<1>2. i \in DOMAIN fn.list[l]
  BY <1>1, BodyParts DEF BaseInv
<1> HIDE DEF x, l, i
<1>3. /\ x < z
      /\ \A m \in Lists : \A y \in Range(fn.list[m]) :
           x <= m[1] /\ m[1] < z => y < z
  BY <1>1, <1>2 DEF BaseInv, IsBody, InTextOrder
<1>4. z \in Exprs
  <2>1. \A m \in Lists : Range(fn.list[m]) \subseteq Exprs
    BY BodyParts DEF BaseInv, Range
  <2>2. l[2] = "then" => <<l[1], "else">> \in Lists
    <3>1. l = RootList \/ l[1] \in Exprs
      BY <1>1, BodyParts DEF BaseInv
    <3>2. RootList[2] # "then"
      BY DEF RootList
    <3> QED
      BY <3>1, <3>2, ArmsAreLists
  <2>3. \A j \in DOMAIN fn.list[l] : fn.list[l][j] \in Exprs
    BY <1>1, BodyParts DEF BaseInv
  <2> QED
    BY <1>1, <2>1, <2>2, <2>3 DEF Later
<1> DEFINE C(n) == x <= ListAt(n)[1] /\ ListAt(n)[1] < z
           S == {n \in Nat : n \in 1..Height /\ k < n => C(n)}
<1>5. 0 \in S
  BY LevelNumbers
<1>6. ASSUME NEW n \in Nat, n \in S, n + 1 \in 1..Height, k < n + 1
      PROVE  C(n + 1)
  <2>1. CASE n = k
    BY <1>1, <1>3, <1>4, <2>1, ExprsAssumption
  <2>2. CASE n # k
    <3>1. n \in 1..Height /\ k < n /\ k \in Nat /\ n \in Nat \ {0}
      BY <1>6, <2>2, LevelNumbers
    <3>2. n \in Hanging
      BY <1>6, <3>1, LowerLevelsHang
    <3>3. /\ ListAt(n + 1)[1] = Pending(n) /\ InBody(fn, Pending(n))
          /\ Holder(fn, Pending(n)) = ListAt(n) /\ Pending(n) \in Exprs
          /\ ListAt(n) \in Lists
      BY <3>2, HangingWaits
    <3>4. /\ ListAt(n)[1] \in Nat /\ ListAt(n)[1] < Pending(n)
          /\ Pending(n) \in Range(fn.list[ListAt(n)])
      <4>1. /\ Holder(fn, Pending(n))[1] \in Nat
            /\ Holder(fn, Pending(n))[1] < Pending(n)
            /\ Position(fn, Pending(n)) \in 1..Len(fn.list[ListAt(n)])
            /\ fn.list[ListAt(n)][Position(fn, Pending(n))] = Pending(n)
        BY <3>3, HolderOf DEF BaseInv
      <4>2. Position(fn, Pending(n)) \in DOMAIN fn.list[ListAt(n)]
        BY <3>3, <4>1, BodyParts DEF BaseInv
      <4> QED
        BY <3>3, <4>1, <4>2 DEF Range
    <3>5. C(n)
      BY <1>6, <3>1
    <3>6. Pending(n) < z
      BY <1>3, <3>3, <3>4, <3>5
    <3>7. x \in Nat /\ Pending(n) \in Nat
      BY <1>1, <3>3, ExprsAssumption
    <3>8. x <= Pending(n)
      BY <3>4, <3>5, <3>7
    <3> QED
      BY <3>3, <3>6, <3>8
  <2> QED
    BY <2>1, <2>2
<1>7. ASSUME NEW n \in Nat, n \in S
      PROVE  n + 1 \in S
  <2>1. n + 1 \in 1..Height /\ k < n + 1 => C(n + 1)
    BY <1>6, <1>7
  <2> HIDE DEF C
  <2> QED
    BY <2>1
<1>8. Nat \subseteq S
  <2> HIDE DEF S
  <2> QED
    BY <1>5, <1>7, SetInduction
<1>9. \A n \in 1..Height : k < n => C(n)
  <2>1. \A n \in 1..Height : n \in Nat
    BY LevelNumbers
  <2> HIDE DEF C
  <2> QED
    BY <1>8, <2>1
<1> HIDE DEF S
<1> QED
  BY <1>3, <1>4, <1>9 DEF x

\* The expressions whose end may have an edge to it already.
Met(x) == HasInEdges(edges, EndBlock(x)) \/ \E k \in Hanging : x = Pending(k)

\* They all come before what has not been begun.
OrderInv ==
  Active => \A k \in 1..Height : \A x \in Exprs : \A y \in Ahead(k) :
              Met(x) => x < y

\* The ends that a step adds edges to.
LEMMA MetGrows ==
  ASSUME BaseInv, Next, NEW x, HasInEdges(edges', EndBlock(x))
  PROVE  Met(x) \/ EnterBlock(x)
<1> PICK d \in edges' : d.dest = EndBlock(x)
  BY DEF HasInEdges
<1>1. CASE d \in edges
  BY <1>1 DEF Met, HasInEdges
<1>2. CASE d \notin edges
  BY <1>2, StepAdds DEF Added, NewDest, Ending, Met
<1> QED
  BY <1>1, <1>2

\* A step at the level of the innermost activation.
LEMMA KeepsOrder ==
  ASSUME BaseInv, OrderInv, Next, Active, Active',
         NEW n \in Nat, n = Len(stack), n # 0, KeepsBelow(n)
  PROVE  OrderInv'
<1>1. fn' = fn
  BY FunctionStays DEF BaseInv
<1>2. Height' = n /\ Hanging' = 1 .. n - 1 /\ Hanging' \subseteq Hanging
  BY DEF KeepsBelow, Hanging
<1>3. \A k \in Hanging' : Pending(k)' = Pending(k)
  BY <1>1, <1>2 DEF KeepsBelow, Keeps, Pending
<1>4. \A x \in Exprs : Met(x)' => Met(x)
  <2> SUFFICES ASSUME NEW x \in Exprs, Met(x)' PROVE Met(x)
    OBVIOUS
  <2>1. ~EnterBlock(x)
    <3>1. ASSUME EnterBlock(x) PROVE FALSE
      <4>1. Call(<<x, "body">>) /\ <<x, "body">> \in Lists
        BY <3>1, ArmsAreLists DEF EnterBlock
      <4>2. Height' = n + 1
        BY <4>1, CallLevels DEF Grows
      <4> QED
        BY <1>2, <4>2
    <3> QED
      BY <3>1
  <2>2. CASE HasInEdges(edges', EndBlock(x))
    BY <2>1, <2>2, MetGrows
  <2>3. CASE \E k \in Hanging' : x = Pending(k)'
    BY <1>2, <1>3, <2>3 DEF Met
  <2> QED
    BY <2>2, <2>3 DEF Met
<1>5. \A k \in 1..n : k \in 1..Height /\ Ahead(k)' \subseteq Ahead(k)
  <2> SUFFICES ASSUME NEW k \in 1..n
               PROVE  k \in 1..Height /\ Ahead(k)' \subseteq Ahead(k)
    OBVIOUS
  <2>1. ListAt(k)' = ListAt(k) /\ k \in 1..Height
    BY ListsKept
  <2>2. CASE k \in 1 .. n - 1
    BY <1>1, <2>1, <2>2 DEF KeepsBelow, Keeps, Ahead
  <2>3. CASE k = n
    <3>1. ListAt(n) = stack[n].list
      BY DEF ListAt
    <3>2. DOMAIN fn.list[ListAt(n)] = 1..Len(fn.list[ListAt(n)])
      BY <2>1, <2>3, LevelIsList, BodyParts DEF BaseInv
    <3>3. \A j \in DOMAIN fn.list[ListAt(n)] : Begun(n)' < j => Begun(n) < j
      BY <3>1, <3>2 DEF KeepsBelow
    <3> QED
      BY <1>1, <2>1, <2>3, <3>3 DEF Ahead, Later
  <2> QED
    BY <2>2, <2>3
<1> QED
  BY <1>2, <1>4, <1>5 DEF OrderInv

\* The steps that begin the first list of an expression.
LEMMA OpensOrder ==
  ASSUME BaseInv, OrderInv, Next, Active, Active',
         NEW n \in Nat, n = Len(stack), n # 0, Opens(n)
  PROVE  OrderInv'
<1> PICK e \in Exprs, kind \in Structured :
      LET l == <<e, IF kind = "If" THEN "then" ELSE "body">>
      IN  At(e, kind) /\ Call(l) /\ Grows(n, l)
  BY DEF Opens
<1> DEFINE l == <<e, IF kind = "If" THEN "then" ELSE "body">>
           g == stack[n].list
           i == stack[n].at
<1>1. fn' = fn
  BY FunctionStays DEF BaseInv
<1>2. /\ g \in Lists /\ i \in 1..Len(fn.list[g]) /\ e = fn.list[g][i]
      /\ ListAt(n) = g /\ n = Height /\ Hanging = 1 .. n - 1
      /\ Begun(n) = i - 1 /\ i \in Nat /\ l \in Lists /\ l[1] = e
      /\ i \in DOMAIN fn.list[g]
  <2>1. /\ g \in Lists /\ i \in 1..Len(fn.list[g]) /\ e = fn.list[g][i]
        /\ ListAt(n) = g /\ n = Height
    BY CurrentPlace
  <2>2. Hanging = 1 .. n - 1
    BY LevelNumbers DEF At
  <2>3. n \notin Hanging /\ n <= Len(stack)
    BY <2>2
  <2>4. i \in DOMAIN fn.list[g] /\ i \in Nat
    BY <2>1, BodyParts DEF BaseInv
  <2> QED
    BY <2>1, <2>2, <2>3, <2>4, ArmsAreLists DEF Begun
<1>3. /\ Height' = n + 1 /\ Hanging' = 1..n
      /\ \A k \in 1 .. n - 1 : ListAt(k)' = ListAt(k) /\ Begun(k)' = Begun(k)
      /\ \A k \in 1..n : Kept(k)
      /\ ListAt(n)' = g /\ Begun(n)' = i
      /\ ListAt(n + 1)' = l /\ Begun(n + 1)' = 0
  BY DEF Grows, Keeps
<1>4. Pending(n) = e /\ \A k \in 1..n : Pending(k)' = Pending(k)
  BY <1>1, <1>2, <1>3, KeptActivation DEF Pending
<1> HIDE DEF g, i, l
<1>5. \A x \in Exprs : Met(x)' => Met(x) \/ x = e
  <2> SUFFICES ASSUME NEW x \in Exprs, Met(x)' PROVE Met(x) \/ x = e
    OBVIOUS
  <2>1. EnterBlock(x) => x = e
    BY DEF EnterBlock, At
  <2>2. CASE HasInEdges(edges', EndBlock(x))
    BY <2>1, <2>2, MetGrows
  <2>3. ASSUME NEW k \in 1..n, x = Pending(k)
        PROVE  Met(x) \/ x = e
    BY <1>2, <1>4, <2>3 DEF Met
  <2> QED
    BY <1>3, <1>4, <2>2, <2>3 DEF Met
<1>6. e \in Ahead(n)
  BY <1>2 DEF Ahead, Later
<1>7. \A x \in Exprs : Met(x) => x < e
  BY <1>2, <1>6 DEF OrderInv
<1>8. \A k \in 1 .. n - 1 : Ahead(k)' = Ahead(k) /\ k \in 1..Height /\ k \in Hanging /\ k < n
  BY <1>1, <1>2, <1>3 DEF Ahead
<1>9. Ahead(n)' \subseteq Ahead(n) /\ \A y \in Ahead(n)' : e < y
  <2>1. Ahead(n)' = Later(fn, g, i) /\ Ahead(n) = Later(fn, g, i - 1)
    BY <1>1, <1>2, <1>3 DEF Ahead
  <2>2. \A y \in Later(fn, g, i) : e < y
    BY <1>2 DEF BaseInv, IsBody, InTextOrder
  <2>3. \A j \in DOMAIN fn.list[g] : i < j => i - 1 < j
    <3>1. DOMAIN fn.list[g] \subseteq Nat
      BY <1>2, BodyParts DEF BaseInv
    <3> QED
      BY <1>2, <3>1
  <2>4. Later(fn, g, i) \subseteq Later(fn, g, i - 1)
    BY <2>3 DEF Later
  <2> QED
    BY <2>1, <2>2, <2>4
<1>10. \A y \in Ahead(n + 1)' : y \in Exprs /\ e < y
  <2> SUFFICES ASSUME NEW y \in Later(fn, l, 0) PROVE y \in Exprs /\ e < y
    BY <1>1, <1>3 DEF Ahead
  <2>1. <<e, "else">> \in Lists
    BY ArmsAreLists
  <2>2. PICK m \in {l, <<e, "else">>} : y \in Range(fn.list[m])
    BY <1>2 DEF Later, Range
  <2>3. PICK j \in DOMAIN fn.list[m] : y = fn.list[m][j]
    BY <2>2 DEF Range
  <2>4. m \in Lists /\ m[1] = e
    BY <1>2, <2>1
  <2>5. y \in Exprs
    BY <2>3, <2>4, BodyParts DEF BaseInv
  <2> QED
    BY <2>3, <2>4, <2>5 DEF BaseInv, IsBody, InTextOrder
<1>11. \A k \in 1 .. n - 1 : \A y \in Ahead(k) : e < y
  <2> SUFFICES ASSUME NEW k \in 1 .. n - 1, NEW y \in Ahead(k) PROVE e < y
    OBVIOUS
  <2>1. e \in Range(fn.list[g])
    BY <1>2 DEF Range
  <2>2. n \in 1..Height
    BY <1>2
  <2> QED
    BY <1>2, <1>8, <2>1, <2>2, AheadIsLater
<1>12. ASSUME NEW k \in 1 .. n + 1, NEW x \in Exprs, NEW y \in Ahead(k)', Met(x)'
       PROVE  x < y
  <2>1. k \in 1 .. n - 1 \/ k = n \/ k = n + 1
    OBVIOUS
  <2>2. Met(x) \/ x = e
    BY <1>5, <1>12
  <2>3. CASE k \in 1 .. n - 1
    BY <1>8, <1>11, <1>12, <2>2, <2>3 DEF OrderInv
  <2>4. CASE k = n
    BY <1>2, <1>9, <1>12, <2>2, <2>4 DEF OrderInv
  <2>5. CASE k = n + 1
    <3>1. x \in Nat /\ e \in Nat /\ y \in Nat /\ e < y
      BY <1>10, <1>12, <2>5, ExprsAssumption
    <3>2. x < e \/ x = e
      BY <1>7, <2>2
    <3> QED
      BY <3>1, <3>2
  <2> QED
    BY <2>1, <2>3, <2>4, <2>5
<1> QED
  BY <1>3, <1>12 DEF OrderInv

\* The step from a true arm to the false one.
LEMMA ElseOrder ==
  ASSUME BaseInv, OrderInv, Next, Active, Active',
         NEW n \in Nat, n = Len(stack), n # 0,
         NEW e \in Exprs, EnterElse(e), Grows(n, <<e, "else">>)
  PROVE  OrderInv'
<1>1. fn' = fn
  BY FunctionStays DEF BaseInv
<1>2. /\ Hanging = 1..n /\ Height = n + 1
      /\ ListAt(n + 1) = <<e, "then">> /\ <<e, "then">> \in Lists
      /\ stack[n].list = ListAt(n) /\ pc = "returned"
  BY BackPlace DEF EnterElse
<1>3. /\ Height' = n + 1 /\ Hanging' = 1..n
      /\ \A k \in 1..n : Kept(k)
      /\ \A k \in 1..n : ListAt(k)' = stack[k].list /\ Begun(k)' = stack[k].at
      /\ ListAt(n + 1)' = <<e, "else">> /\ Begun(n + 1)' = 0
  BY DEF Grows
<1>4. \A k \in 1..n : /\ Pending(k)' = Pending(k)
                      /\ ListAt(k) = stack[k].list /\ Begun(k) = stack[k].at
  BY <1>1, <1>2, <1>3, KeptActivation DEF ListAt, Begun
<1>5. \A x \in Exprs : Met(x)' => Met(x)
  <2> SUFFICES ASSUME NEW x \in Exprs, Met(x)' PROVE Met(x)
    OBVIOUS
  <2>1. ~EnterBlock(x)
    BY <1>2 DEF EnterBlock, At
  <2>2. CASE HasInEdges(edges', EndBlock(x))
    BY <2>1, <2>2, MetGrows
  <2>3. CASE \E k \in Hanging' : x = Pending(k)'
    BY <1>2, <1>3, <1>4, <2>3 DEF Met
  <2> QED
    BY <2>2, <2>3 DEF Met
<1>6. \A k \in 1..n : Ahead(k)' = Ahead(k) /\ k \in 1..Height
  BY <1>1, <1>2, <1>3, <1>4 DEF Ahead
<1>7. Ahead(n + 1)' \subseteq Ahead(n + 1) /\ n + 1 \in 1..Height
  <2>1. Ahead(n + 1)' = Later(fn, <<e, "else">>, 0)
    BY <1>1, <1>3 DEF Ahead
  <2>2. Later(fn, <<e, "else">>, 0) \subseteq Range(fn.list[<<e, "else">>])
    BY DEF Later, Range
  <2>3. Range(fn.list[<<e, "else">>]) \subseteq Later(fn, <<e, "then">>, Begun(n + 1))
    BY DEF Later
  <2> QED
    BY <1>2, <2>1, <2>2, <2>3 DEF Ahead
<1>8. \A k \in 1 .. n + 1 : k \in 1..n \/ k = n + 1
  OBVIOUS
<1> QED
  BY <1>3, <1>5, <1>6, <1>7, <1>8 DEF OrderInv

\* Nothing has led to the end of what comes later in the text.
LEMMA InitOrder == Init => OrderInv
BY DEF Init, Start, OrderInv, Active

\* And no step breaks it.
LEMMA NextOrder == BaseInv /\ OrderInv /\ [Next]_vars => OrderInv'
<1> SUFFICES ASSUME BaseInv, OrderInv, [Next]_vars, Active' PROVE OrderInv'
  BY DEF OrderInv
<1>1. CASE UNCHANGED vars
  BY <1>1
  DEF vars, OrderInv, Active, Height, Ahead, ListAt, Begun, Hanging, Met, Pending
<1>2. CASE BeginFunction
  <2>1. fn.list[RootList] # <<>> /\ Call(RootList) /\ stack = <<>> /\ pc = "start"
    BY <1>2 DEF BeginFunction, Active, BaseInv, NestInv
  <2>2. Grows(0, RootList)
    BY <2>1, RootIsList, CallLevels
  <2>3. Hanging = {} /\ Hanging' = {}
    BY <2>1, <2>2 DEF Hanging, Grows
  <2>4. \A d \in edges' : NewDest(d.dest)
    BY <1>2, <2>1, RootIsList, FirstIsNew DEF BeginFunction
  <2>5. \A x : ~EnterBlock(x)
    BY <2>1 DEF EnterBlock, At
  <2>6. \A x : ~Met(x)'
    BY <2>3, <2>4, <2>5 DEF Met, HasInEdges, NewDest, Ending
  <2> QED
    BY <2>6 DEF OrderInv
<1>3. CASE FinishFunction \/ Dies
  BY <1>3
  DEF FinishFunction, Dies, LinkEmptyList, VisitUnboundBranch, Crash, Active
<1>4. CASE Next /\ ~BeginFunction /\ ~FinishFunction /\ ~Dies
  BY <1>4, LevelSteps, LevelNumbers, KeepsOrder, OpensOrder, ElseOrder
<1> QED
  BY <1>1, <1>2, <1>3, <1>4

-----------------------------------------------------------------------------
(* What construct reports as unreachable. *)

\* The false arm is being built, and the true one was unreachable at its end.
ThenWasDead(k) == ListAt(k + 1)[2] = "else" /\ stack[k].thenUnreachable

\* A list that is reported as unreachable at its end holds something that
\* stops it.
UnreachInv ==
  /\ pc = "returned" /\ ret.unreachable => Stops(fn, ret.list)
  /\ Active => \A k \in Hanging :
                 ThenWasDead(k) => Stops(fn, <<Pending(k), "then">>)

\* The second part, in a step that leaves the levels below the top as they were.
LEMMA BelowUnreach ==
  ASSUME BaseInv, UnreachInv, Active, fn' = fn,
         NEW n \in Nat, n = Len(stack), n # 0,
         \A k \in 1 .. n - 1 : Keeps(k),
         \A k \in 1..n : ListAt(k)' = ListAt(k)
  PROVE  \A k \in 1 .. n - 1 :
           (ThenWasDead(k) => Stops(fn, <<Pending(k), "then">>))'
<1> SUFFICES ASSUME NEW k \in 1 .. n - 1
             PROVE  (ThenWasDead(k) => Stops(fn, <<Pending(k), "then">>))'
  OBVIOUS
<1>1. k \in Hanging /\ k + 1 \in 1..n
  BY DEF Hanging
<1>2. ThenWasDead(k)' <=> ThenWasDead(k)
  BY <1>1 DEF ThenWasDead, Keeps
<1>3. Pending(k)' = Pending(k)
  BY DEF Keeps, Pending
<1> QED
  BY <1>1, <1>2, <1>3 DEF UnreachInv

\* The steps that report a list as unreachable.
LEMMA ReportsStopped ==
  ASSUME BaseInv, UnreachInv, Next, pc' = "returned", ret'.unreachable
  PROVE  Stops(fn, ret'.list)
<1>1. ASSUME NEW e \in Exprs, VisitUnreachable(e) \/ VisitBr(e)
      PROVE  Stops(fn, ret'.list)
  <2> PICK k \in {"Unreachable", "Br"} : At(e, k)
    BY <1>1 DEF VisitUnreachable, VisitBr
  <2>1. /\ Top.list \in Lists /\ e \in Range(fn.list[Top.list])
        /\ fn.kind[e] \in {"Unreachable", "Br"}
    <3>1. /\ stack[Len(stack)].list \in Lists /\ Top = stack[Len(stack)]
          /\ stack[Len(stack)].at \in 1..Len(fn.list[stack[Len(stack)].list])
          /\ e = fn.list[stack[Len(stack)].list][stack[Len(stack)].at]
      BY CurrentPlace
    <3>2. stack[Len(stack)].at \in DOMAIN fn.list[stack[Len(stack)].list]
      BY <3>1, BodyParts DEF BaseInv
    <3> QED
      BY <3>1, <3>2 DEF Range, At
  <2>2. ret'.list = Top.list
    BY <1>1 DEF VisitUnreachable, VisitBr, Return, Result
  <2> QED
    BY <2>1, <2>2, StopsUnfolds DEF BaseInv
<1>2. ASSUME NEW e \in Exprs, LeaveDeadIf(e)
      PROVE  Stops(fn, ret'.list)
  <2> DEFINE n == Len(stack)
  <2>1. Back(e, "else") /\ Top.thenUnreachable /\ ret.unreachable /\ Return(TRUE)
    BY <1>2 DEF LeaveDeadIf
  <2>2. /\ n \in Hanging /\ Active /\ Top = stack[n] /\ e = Pending(n)
        /\ stack[n].list \in Lists /\ pc = "returned"
        /\ stack[n].at \in 1..Len(fn.list[stack[n].list])
        /\ e = fn.list[stack[n].list][stack[n].at]
        /\ ListAt(n + 1) = <<e, "else">> /\ ret.list = <<e, "else">>
        /\ <<e, "else">> \in ListsOf(e)
    BY <2>1, BackPlace
  <2> HIDE DEF n
  <2>3. Stops(fn, <<e, "then">>) /\ Stops(fn, <<e, "else">>)
    <3>1. ThenWasDead(n)
      BY SMTT(30), <2>1, <2>2 DEF ThenWasDead
    <3>2. Stops(fn, <<Pending(n), "then">>)
      BY <2>2, <3>1 DEF UnreachInv
    <3>3. Stops(fn, ret.list)
      BY <2>1, <2>2 DEF UnreachInv
    <3> QED
      BY <2>2, <3>2, <3>3
  <2>4. fn.kind[e] = "If"
    BY <2>2, ListsByKind
  <2>5. stack[n].at \in DOMAIN fn.list[stack[n].list]
    BY <2>2, BodyParts DEF BaseInv
  <2>6. e \in Range(fn.list[Top.list])
    BY <2>2, <2>5 DEF Range
  <2>7. ret'.list = Top.list
    BY <2>1 DEF Return, Result
  <2> QED
    BY <2>2, <2>3, <2>4, <2>6, <2>7, StopsUnfolds DEF BaseInv
<1>3. ASSUME NEW e \in Exprs,
             \/ VisitReturn(e) \/ LeaveDeadBlock(e)
      PROVE  ~ret'.unreachable
  BY <1>3 DEF VisitReturn, LeaveDeadBlock, Return, Result
<1>4. EndOfList => ~ret'.unreachable
  BY DEF EndOfList, Return, Result
<1>5. ASSUME NEW e \in Exprs,
             \/ VisitBrIf(e) \/ VisitBrTable(e) \/ VisitUnboundBranch(e)
             \/ VisitCall(e) \/ VisitDefault(e)
             \/ EnterBlock(e) \/ EnterLoop(e) \/ EnterIf(e) \/ EnterElse(e)
             \/ LeaveBlock(e) \/ LeaveLoop(e)
             \/ LeaveIfWithoutElse(e) \/ LeaveElse(e)
      PROVE  pc' # "returned"
  BY <1>5
  DEF VisitBrIf, VisitBrTable, VisitUnboundBranch, VisitCall, VisitDefault,
      EnterBlock, EnterLoop, EnterIf, EnterElse, LeaveBlock, LeaveLoop,
      LeaveIfWithoutElse, LeaveElse, Advance, Call, Crash
<1>6. BeginFunction \/ FinishFunction \/ LinkEmptyList => pc' # "returned"
  BY DEF BeginFunction, FinishFunction, LinkEmptyList, Call, Crash
<1> QED
  BY <1>1, <1>2, <1>3, <1>4, <1>5, <1>6 DEF Next

\* A list is reported as unreachable only if something in it stops it.
LEMMA InitUnreach == Init => UnreachInv
BY DEF Init, Start, UnreachInv, Active

\* And no step breaks it.
LEMMA NextUnreach == BaseInv /\ UnreachInv /\ [Next]_vars => UnreachInv'
<1> SUFFICES ASSUME BaseInv, UnreachInv, [Next]_vars PROVE UnreachInv'
  OBVIOUS
<1>1. fn' = fn
  BY FunctionStays DEF BaseInv, vars
<1>2. CASE UNCHANGED vars
  BY <1>2 DEF vars, UnreachInv, Active, Hanging, ThenWasDead, ListAt, Pending
<1>3. CASE Next
  <2>1. pc' = "returned" /\ ret'.unreachable => Stops(fn, ret.list)'
    BY <1>1, <1>3, ReportsStopped
  <2> SUFFICES ASSUME Active', NEW k \in Hanging'
               PROVE  (ThenWasDead(k) => Stops(fn, <<Pending(k), "then">>))'
    BY <2>1 DEF UnreachInv
  <2> PICK n \in Nat : n = Len(stack)
    BY LevelNumbers
  <2>2. CASE BeginFunction
    <3>1. Call(RootList) /\ stack = <<>>
      BY <2>2 DEF BeginFunction, Active, BaseInv, NestInv
    <3>2. Grows(0, RootList)
      BY <3>1, RootIsList, CallLevels
    <3> QED
      BY <3>2 DEF Grows
  <2>3. CASE FinishFunction \/ Dies
    BY <2>3
    DEF FinishFunction, Dies, LinkEmptyList, VisitUnboundBranch, Crash, Active
  <2>4. CASE Active /\ n # 0 /\ KeepsBelow(n)
    <3>1. k \in 1 .. n - 1
      BY <2>4 DEF KeepsBelow
    <3>2. \A i \in 1..n : ListAt(i)' = ListAt(i)
      BY <2>4, ListsKept
    <3> QED
      BY <1>1, <2>4, <3>1, <3>2, BelowUnreach DEF KeepsBelow
  <2>5. ASSUME Active, n # 0, NEW l, Grows(n, l), k # n
        PROVE  (ThenWasDead(k) => Stops(fn, <<Pending(k), "then">>))'
    <3>1. k \in 1 .. n - 1
      BY <2>5 DEF Grows
    <3>2. \A i \in 1..n : ListAt(i)' = ListAt(i)
      BY <2>5, ListsGrown
    <3> QED
      BY <1>1, <2>5, <3>1, <3>2, BelowUnreach DEF Grows
  <2>6. CASE Active /\ n # 0 /\ Opens(n)
    <3> PICK e \in Exprs, a \in {"body", "then"} : Grows(n, <<e, a>>)
      BY <2>6 DEF Opens
    <3>1. k = n => ~ThenWasDead(k)'
      BY DEF Grows, ThenWasDead
    <3> QED
      BY <2>5, <2>6, <3>1
  <2>7. ASSUME Active, n # 0, NEW e \in Exprs, EnterElse(e), Grows(n, <<e, "else">>)
        PROVE  (ThenWasDead(k) => Stops(fn, <<Pending(k), "then">>))'
    <3>1. CASE k # n
      BY <2>5, <2>7, <3>1
    <3>2. CASE k = n
      <4>1. Pending(n)' = e
        <5>1. Pending(n) = e
          BY <2>7, BackPlace DEF EnterElse
        <5>2. Kept(n)
          BY <2>7 DEF Grows
        <5> QED
          BY <1>1, <5>1, <5>2, KeptActivation
      <4>2. stack'[n].thenUnreachable = ret.unreachable
        BY <2>7, ElseLevels
      <4>3. pc = "returned" /\ ret.list = <<e, "then">>
        BY <2>7 DEF EnterElse, Back
      <4> QED
        BY <1>1, <3>2, <4>1, <4>2, <4>3 DEF UnreachInv, ThenWasDead
    <3> QED
      BY <3>1, <3>2
  <2> QED
    BY <1>3, <2>2, <2>3, <2>4, <2>6, <2>7, LevelSteps
<1> QED
  BY <1>2, <1>3

-----------------------------------------------------------------------------
(* The joins nothing comes to. *)

\* What the levels are at rises with them.
LEMMA PendingsRise ==
  ASSUME BaseInv, Active, NEW k \in Hanging
  PROVE  \A n \in Hanging : k < n => Pending(k) < Pending(n)
<1> DEFINE S == {n \in Nat : n \in Hanging /\ k < n => Pending(k) < Pending(n)}
<1>1. 0 \in S
  BY LevelNumbers
<1>2. ASSUME NEW n \in Nat, n \in S, n + 1 \in Hanging, k < n + 1
      PROVE  Pending(k) < Pending(n + 1)
  <2>1. k \in Nat /\ Pending(k) \in Nat
    <3>1. Pending(k) \in Exprs
      BY HangingWaits
    <3>2. k \in Nat
      BY LevelNumbers
    <3> QED
      BY <3>1, <3>2, ExprsAssumption
  <2>2. n \in Hanging /\ n \in Nat \ {0}
    <3>1. n + 1 \in 1..Height /\ n \in Nat \ {0} /\ n < n + 1
      BY <1>2, <2>1, LevelNumbers DEF Active
    <3> QED
      BY <3>1, LowerLevelsHang
  <2>3. Pending(n) < Pending(n + 1) /\ Pending(n) \in Nat /\ Pending(n + 1) \in Nat
    <3>1. /\ ListAt(n + 1)[1] = Pending(n) /\ Pending(n) \in Exprs
      BY <2>2, HangingWaits
    <3>2. /\ InBody(fn, Pending(n + 1)) /\ Pending(n + 1) \in Exprs
          /\ Holder(fn, Pending(n + 1)) = ListAt(n + 1)
      BY <1>2, HangingWaits
    <3>3. Holder(fn, Pending(n + 1))[1] < Pending(n + 1)
      BY <3>2, HolderOf DEF BaseInv
    <3>4. Pending(n) \in Nat /\ Pending(n + 1) \in Nat
      BY <3>1, <3>2, ExprsAssumption
    <3> QED
      BY <3>1, <3>2, <3>3, <3>4
  <2>4. CASE n = k
    BY <2>3, <2>4
  <2>5. CASE n # k
    <3>1. Pending(k) < Pending(n)
      BY <1>2, <2>1, <2>2, <2>5
    <3> QED
      BY <2>1, <2>3, <3>1
  <2> QED
    BY <2>4, <2>5
<1>3. ASSUME NEW n \in Nat, n \in S PROVE n + 1 \in S
  BY <1>2, <1>3
<1>4. Nat \subseteq S
  <2> HIDE DEF S
  <2> QED
    BY <1>1, <1>3, SetInduction
<1> QED
  BY <1>4, LevelNumbers

\* An If no list of which has come to its end yet.
Joins(k) ==
  /\ fn.kind[Pending(k)] = "If"
  /\ ListAt(k + 1)[2] = "then" \/ stack[k].thenUnreachable

\* The join of such an If is only come to by branches inside it.
JoinInv ==
  Active => \A k \in Hanging :
    Joins(k) /\ HasInEdges(edges, EndBlock(Pending(k))) =>
      BranchesOut(fn, Pending(k))

\* In a step that leaves the levels below the top as they were.
LEMMA BelowJoins ==
  ASSUME BaseInv, JoinInv, Active, Next, fn' = fn,
         NEW n \in Nat, n = Len(stack), n # 0,
         \A k \in 1 .. n - 1 : Keeps(k),
         \A k \in 1..n : ListAt(k)' = ListAt(k),
         NEW k \in 1 .. n - 1, Joins(k)',
         HasInEdges(edges', EndBlock(Pending(k)))
  PROVE  BranchesOut(fn, Pending(k))
<1>1. k \in Hanging /\ k + 1 \in 1..n /\ Joins(k)
  <2>1. k \in Hanging /\ k + 1 \in 1..n /\ k \in 1..n
    BY DEF Hanging
  <2> QED
    BY <2>1 DEF Joins, Keeps, Pending
<1> PICK d \in edges' : d.dest = EndBlock(Pending(k))
  BY DEF HasInEdges
<1>2. CASE d \in edges
  BY <1>1, <1>2 DEF JoinInv, HasInEdges
<1>3. CASE d \notin edges
  <2>1. Ending(Pending(k))
    BY <1>3, StepAdds DEF Added, NewDest
  <2>2. ~EnterBlock(Pending(k))
    BY <1>1 DEF EnterBlock, At, Joins
  <2>3. \A j \in Hanging : Pending(k) = Pending(j) => j # Len(stack)
    <3>1. Pending(k) \in Nat
      BY <1>1, HangingWaits, ExprsAssumption
    <3>2. n \in Hanging => Pending(k) < Pending(n)
      BY <1>1, PendingsRise
    <3> QED
      BY <3>1, <3>2
  <2> QED
    BY <2>1, <2>2, <2>3 DEF Ending
<1> QED
  BY <1>2, <1>3

\* A dead If has an edge to its joining block only from a branch inside it.
LEMMA InitJoins == Init => JoinInv
BY DEF Init, Start, JoinInv, Active

\* And no step breaks it.
LEMMA NextJoins ==
  BaseInv /\ OrderInv /\ JoinInv /\ [Next]_vars => JoinInv'
<1> SUFFICES ASSUME BaseInv, OrderInv, JoinInv, [Next]_vars PROVE JoinInv'
  OBVIOUS
<1>1. fn' = fn
  BY FunctionStays DEF BaseInv, vars
<1>2. CASE UNCHANGED vars
  BY <1>2 DEF vars, JoinInv, Active, Hanging, Joins, ListAt, Pending
<1>3. CASE Next
  <2> SUFFICES ASSUME Active', NEW k \in Hanging', Joins(k)',
                      HasInEdges(edges', EndBlock(Pending(k)'))
               PROVE  BranchesOut(fn, Pending(k)')
    BY <1>1 DEF JoinInv
  <2> PICK n \in Nat : n = Len(stack)
    BY LevelNumbers
  <2>1. CASE BeginFunction
    <3>1. Call(RootList) /\ stack = <<>>
      BY <2>1 DEF BeginFunction, Active, BaseInv, NestInv
    <3>2. Grows(0, RootList)
      BY <3>1, RootIsList, CallLevels
    <3> QED
      BY <3>2 DEF Grows
  <2>2. CASE FinishFunction \/ Dies
    BY <2>2
    DEF FinishFunction, Dies, LinkEmptyList, VisitUnboundBranch, Crash, Active
  <2>3. ASSUME Active, n # 0, k \in 1 .. n - 1,
               \A i \in 1 .. n - 1 : Keeps(i),
               \A i \in 1..n : ListAt(i)' = ListAt(i)
        PROVE  BranchesOut(fn, Pending(k)')
    <3>1. Pending(k)' = Pending(k)
      BY <1>1, <2>3 DEF Keeps, Pending
    <3> QED
      BY <1>1, <1>3, <2>3, <3>1, BelowJoins
  <2>4. CASE Active /\ n # 0 /\ KeepsBelow(n)
    <3>1. k \in 1 .. n - 1
      BY <2>4 DEF KeepsBelow
    <3>2. \A i \in 1..n : ListAt(i)' = ListAt(i)
      BY <2>4, ListsKept
    <3> QED
      BY <2>3, <2>4, <3>1, <3>2 DEF KeepsBelow
  <2>5. ASSUME Active, n # 0, NEW l, Grows(n, l), k # n
        PROVE  BranchesOut(fn, Pending(k)')
    <3>1. k \in 1 .. n - 1
      BY <2>5 DEF Grows
    <3>2. \A i \in 1..n : ListAt(i)' = ListAt(i)
      BY <2>5, ListsGrown
    <3> QED
      BY <2>3, <2>5, <3>1, <3>2 DEF Grows
  <2>6. CASE Active /\ n # 0 /\ Opens(n)
    <3> PICK e \in Exprs, kind \in Structured :
          /\ At(e, kind)
          /\ Grows(n, <<e, IF kind = "If" THEN "then" ELSE "body">>)
      BY <2>6 DEF Opens
    <3>1. CASE k # n
      BY <2>5, <2>6, <3>1
    <3>2. CASE k = n
      <4>1. /\ Pending(n) = e /\ n = Height /\ ListAt(n) = stack[n].list
            /\ stack[n].at \in 1..Len(fn.list[stack[n].list])
            /\ e = fn.list[stack[n].list][stack[n].at]
            /\ stack[n].list \in Lists /\ n \notin Hanging
        <5>1. Hanging = 1 .. n - 1
          BY LevelNumbers DEF At
        <5> QED
          BY <5>1, CurrentPlace DEF Pending
      <4>2. Pending(n)' = e
        BY <1>1, <4>1, KeptActivation DEF Grows
      <4>3. fn.kind[e] = "If"
        BY <1>1, <3>2, <4>2 DEF Joins
      <4>4. e \in Ahead(n)
        <5>1. stack[n].at \in DOMAIN fn.list[stack[n].list]
          BY <4>1, BodyParts DEF BaseInv
        <5>2. Begun(n) = stack[n].at - 1 /\ stack[n].at - 1 < stack[n].at
          BY <4>1, LevelNumbers DEF Begun
        <5> QED
          BY <4>1, <5>1, <5>2 DEF Ahead, Later
      <4>5. ~Met(e)
        BY <2>6, <4>1, <4>4, ExprsAssumption DEF OrderInv
      <4>6. ~EnterBlock(e)
        BY <4>3 DEF EnterBlock, At
      <4> QED
        BY <1>3, <3>2, <4>2, <4>5, <4>6, MetGrows
    <3> QED
      BY <3>1, <3>2
  <2>7. ASSUME Active, n # 0, NEW e \in Exprs, EnterElse(e), Grows(n, <<e, "else">>)
        PROVE  BranchesOut(fn, Pending(k)')
    <3>1. CASE k # n
      BY <2>5, <2>7, <3>1
    <3>2. CASE k = n
      <4>1. /\ Pending(n) = e /\ n \in Hanging
            /\ ListAt(n + 1) = <<e, "then">> /\ <<e, "then">> \in ListsOf(e)
        BY <2>7, BackPlace DEF EnterElse
      <4>2. Pending(n)' = e
        BY <1>1, <2>7, <4>1, KeptActivation DEF Grows
      <4>3. ret.unreachable
        <5>1. ListAt(n + 1)' = <<e, "else">>
          BY <2>7 DEF Grows
        <5>2. stack'[n].thenUnreachable = ret.unreachable
          BY <2>7, ElseLevels
        <5> QED
          BY <3>2, <5>1, <5>2 DEF Joins
      <4>4. edges' = edges \cup ToFirst(ThenBegin(e), <<e, "then">>)
        BY <2>7, <4>3 DEF EnterElse, ThenEdges, FallThrough
      <4>5. \A d \in ToFirst(ThenBegin(e), <<e, "then">>) : d.dest # EndBlock(e)
        BY DEF ToFirst, NodeOf, CFGEdge, RetFunc, Inst, EndBlock
      <4>6. HasInEdges(edges, EndBlock(e))
        BY <3>2, <4>2, <4>4, <4>5 DEF HasInEdges
      <4>7. Joins(n)
        BY <4>1, ListsByKind DEF Joins
      <4> QED
        BY <2>7, <3>2, <4>1, <4>2, <4>6, <4>7 DEF JoinInv
    <3> QED
      BY <3>1, <3>2
  <2> QED
    BY <1>3, <2>1, <2>2, <2>4, <2>6, <2>7, LevelSteps
<1> QED
  BY <1>2, <1>3

\* If an If is left as unreachable and its join is come to, it is lost.
LEMMA DeadJoinIsLost ==
  ASSUME BaseInv, UnreachInv, JoinInv, NEW e \in Exprs, Back(e, "else"),
         Top.thenUnreachable, ret.unreachable, KeepsJoins
  PROVE  ~HasInEdges(edges, EndBlock(e))
<1> DEFINE n == Len(stack)
<1>1. /\ n \in Hanging /\ Active /\ pc = "returned" /\ e = Pending(n)
      /\ Top = stack[n] /\ InBody(fn, e)
      /\ ListAt(n + 1) = <<e, "else">> /\ ret.list = <<e, "else">>
      /\ <<e, "else">> \in ListsOf(e)
  BY BackPlace
<1> HIDE DEF n
<1>2. fn.kind[e] = "If"
  BY <1>1, ListsByKind
<1>3. Stops(fn, <<e, "then">>)
  <2>1. ThenWasDead(n)
    BY <1>1 DEF ThenWasDead
  <2> QED
    BY <1>1, <2>1 DEF UnreachInv
<1>4. Stops(fn, <<e, "else">>)
  BY <1>1 DEF UnreachInv
<1>5. HasInEdges(edges, EndBlock(e)) => BranchesOut(fn, e)
  BY <1>1, <1>2 DEF JoinInv, Joins
<1> QED
  BY <1>1, <1>2, <1>3, <1>4, <1>5 DEF KeepsJoins, LosesJoin

-----------------------------------------------------------------------------
(* The steps of an execution, as edges. *)

\* The edges that the steps from node p must be in the graph.
Out(p) == {CFGEdge(p, View(fn, s[1]), s[2]) : s \in Step(fn, p)}

\* What follows each kind of node.
LEMMA StepsOfNodes ==
  ASSUME NEW e
  PROVE  /\ Step(fn, Inst(e)) = InstSteps(fn, e)
         /\ Step(fn, ThenBegin(e)) = {<<StartOf(fn, <<e, "then">>), Plainly>>}
         /\ Step(fn, ElseBegin(e)) = {<<StartOf(fn, <<e, "else">>), Plainly>>}
         /\ Step(fn, EndBlock(e)) = {<<After(fn, e), Plainly>>}
         /\ Step(fn, EndLoop(e)) = {<<After(fn, e), Plainly>>}
         /\ Step(fn, InstsNode) = {<<StartOf(fn, RootList), Plainly>>}
         /\ Step(fn, RetFunc) = {} /\ Step(fn, Trap) = {}
BY DEF Step, Inst, ThenBegin, ElseBegin, EndBlock, EndLoop, InstsNode, RetFunc, Trap

\* An only step gives an only edge.
LEMMA OnlyStep ==
  ASSUME NEW p, NEW q, NEW l, Step(fn, p) = {<<q, l>>}
  PROVE  Out(p) = {CFGEdge(p, View(fn, q), l)}
BY DEF Out

\* Nothing leaves the return node and the trap.
LEMMA OutOfEnds == Out(RetFunc) = {} /\ Out(Trap) = {}
BY StepsOfNodes DEF Out

\* Only the end of a loop is not seen as it is.
LEMMA ViewOfNodes ==
  ASSUME NEW f, NEW x
  PROVE  /\ View(f, NodeOf(f, x)) = NodeOf(f, x)
         /\ View(f, Inst(x)) = Inst(x) /\ View(f, EndBlock(x)) = EndBlock(x)
         /\ View(f, ThenBegin(x)) = ThenBegin(x)
         /\ View(f, ElseBegin(x)) = ElseBegin(x)
         /\ View(f, RetFunc) = RetFunc /\ View(f, Trap) = Trap
         /\ ~IsLastOfList(f, x) => View(f, EndLoop(x)) = EndLoop(x)
<1>1. /\ ~AtLoopEnd(f, NodeOf(f, x)) /\ ~AtLoopEnd(f, Inst(x))
      /\ ~AtLoopEnd(f, EndBlock(x)) /\ ~AtLoopEnd(f, ThenBegin(x))
      /\ ~AtLoopEnd(f, ElseBegin(x)) /\ ~AtLoopEnd(f, RetFunc)
      /\ ~AtLoopEnd(f, Trap)
      /\ ~IsLastOfList(f, x) => ~AtLoopEnd(f, EndLoop(x))
  BY DEF AtLoopEnd, NodeOf, Inst, EndBlock, ThenBegin, ElseBegin, RetFunc,
         Trap, EndLoop
<1> QED
  BY <1>1, ViewStays

\* The step from a node into a list.
LEMMA IntoList ==
  ASSUME NEW p, NEW l, Step(fn, p) = {<<StartOf(fn, l), Plainly>>},
         fn.list[l] # <<>>
  PROVE  Out(p) = ToFirst(p, l)
<1>1. StartOf(fn, l) = NodeOf(fn, fn.list[l][1])
  BY DEF StartOf
<1>2. View(fn, StartOf(fn, l)) = NodeOf(fn, fn.list[l][1])
  BY <1>1, ViewOfNodes
<1> QED
  BY <1>2, OnlyStep DEF ToFirst

\* The way past a list that is empty.
LEMMA OverList ==
  ASSUME NEW p, NEW l, Step(fn, p) = {<<StartOf(fn, l), Plainly>>},
         fn.list[l] = <<>>
  PROVE  Out(p) = {CFGEdge(p, View(fn, EndOf(fn, l)), Plainly)}
BY OnlyStep DEF StartOf

\* The step from a node to what follows an expression of the top level.
LEMMA ToFollowing ==
  ASSUME BaseInv, stack # <<>>, NEW e, Holder(fn, e) = Top.list,
         Position(fn, e) = Top.at, Top.at <= Len(Current), NEW s, NEW l
  PROVE  IF IsLastOfList(fn, e) THEN Top.at = Len(Current) /\ ToNext(s, l) = {}
         ELSE /\ Top.at < Len(Current)
              /\ ToNext(s, l) = {CFGEdge(s, View(fn, After(fn, e)), l)}
              /\ NextOf(fn, e) = Current[Top.at + 1]
<1>1. Top.at \in Nat /\ Len(Current) \in Nat
  BY TopIsFrame DEF BaseInv, TypeInv
<1>2. CASE IsLastOfList(fn, e)
  BY <1>1, <1>2 DEF IsLastOfList, ToNext, Current
<1>3. CASE ~IsLastOfList(fn, e)
  <2>1. Top.at < Len(Current)
    BY <1>1, <1>3 DEF IsLastOfList, Current
  <2>2. NextOf(fn, e) = Current[Top.at + 1]
    BY DEF NextOf, Current
  <2>3. After(fn, e) = NodeOf(fn, NextOf(fn, e))
    BY <1>3 DEF After
  <2>4. View(fn, After(fn, e)) = NodeOf(fn, Current[Top.at + 1])
    BY <2>2, <2>3, ViewOfNodes
  <2> QED
    BY <1>3, <2>1, <2>2, <2>4 DEF ToNext
<1> QED
  BY <1>2, <1>3

-----------------------------------------------------------------------------
(* The edges of what has been begun. *)

\* No step takes an edge away.
LEMMA EdgesGrow ==
  Next => (edges \subseteq edges' /\ cg \subseteq cg') \/ pc = "start"
<1> SUFFICES ASSUME Next, pc # "start" PROVE edges \subseteq edges' /\ cg \subseteq cg'
  OBVIOUS
<1>1. ~BeginFunction
  BY DEF BeginFunction
<1>2. CASE EndOfList \/ FinishFunction \/ LinkEmptyList
  BY <1>2 DEF EndOfList, FinishFunction, LinkEmptyList, Crash
<1>3. ASSUME NEW e \in Exprs,
             \/ VisitReturn(e) \/ VisitUnreachable(e)
             \/ VisitBr(e) \/ VisitBrIf(e) \/ VisitBrTable(e)
             \/ VisitUnboundBranch(e) \/ VisitCall(e) \/ VisitDefault(e)
             \/ EnterBlock(e) \/ EnterLoop(e) \/ EnterIf(e)
      PROVE  edges \subseteq edges' /\ cg \subseteq cg'
  BY <1>3
  DEF VisitReturn, VisitUnreachable, VisitBr, VisitBrIf, VisitBrTable,
      VisitUnboundBranch, VisitCall, VisitDefault, EnterBlock, EnterLoop,
      EnterIf, Crash
<1>4. ASSUME NEW e \in Exprs,
             \/ LeaveBlock(e) \/ LeaveDeadBlock(e) \/ LeaveLoop(e)
             \/ EnterElse(e) \/ LeaveIfWithoutElse(e) \/ LeaveElse(e)
             \/ LeaveDeadIf(e)
      PROVE  edges \subseteq edges' /\ cg \subseteq cg'
  BY <1>4
  DEF LeaveBlock, LeaveDeadBlock, LeaveLoop, EnterElse, LeaveIfWithoutElse,
      LeaveElse, LeaveDeadIf
<1> QED
  BY <1>1, <1>2, <1>3, <1>4 DEF Next

\* The edges into what an activation waits for.
Started(e) ==
  /\ fn.list[<<e, "body">>] # <<>> => Out(Inst(e)) \subseteq edges
  /\ fn.kind[e] = "If" => CFGEdge(Inst(e), ThenBegin(e), OnTrue) \in edges

\* What construct is inside of has its first edges.
StartedInv == Active => \A k \in Hanging : Started(Pending(k))

\* The steps that begin an expression's first list.
LEMMA EntersStart ==
  ASSUME BaseInv, NEW e \in Exprs, EnterBlock(e) \/ EnterLoop(e) \/ EnterIf(e)
  PROVE  Started(e)'
<1>1. fn' = fn
  BY DEF EnterBlock, EnterLoop, EnterIf
<1>2. CASE EnterIf(e)
  <2>1. fn.list[<<e, "body">>] = <<>>
    <3>1. <<e, "body">> \in Lists /\ <<e, "body">> # RootList
      BY ArmsAreLists, ExprsAssumption DEF RootList
    <3>2. "body" \notin ArmsOf(fn.kind[e])
      BY <1>2 DEF EnterIf, At, ArmsOf
    <3> QED
      BY <3>1, <3>2, OwnerInBody DEF BaseInv
  <2> QED
    BY <1>1, <1>2, <2>1 DEF EnterIf, Started
<1>3. CASE EnterBlock(e) \/ EnterLoop(e)
  <2>1. fn.kind[e] \in {"Block", "Loop"}
    BY <1>3 DEF EnterBlock, EnterLoop, At
  <2>2. Step(fn, Inst(e)) = {<<StartOf(fn, <<e, "body">>), Plainly>>}
    BY <2>1, StepsOfNodes DEF InstSteps, Calls
  <2>3. fn.list[<<e, "body">>] # <<>> => Out(Inst(e)) \subseteq edges'
    BY <1>3, <2>2, IntoList DEF EnterBlock, EnterLoop
  <2>4. Out(Inst(e))' = Out(Inst(e))
    BY <1>1 DEF Out
  <2> QED
    BY <1>1, <2>1, <2>3, <2>4 DEF Started
<1> QED
  BY <1>2, <1>3

\* StartedInv is inductive, given BaseInv.
LEMMA InitStarted == Init => StartedInv
BY DEF Init, Start, StartedInv, Active

\* And no step breaks it.
LEMMA NextStarted == BaseInv /\ StartedInv /\ [Next]_vars => StartedInv'
<1> SUFFICES ASSUME BaseInv, StartedInv, [Next]_vars PROVE StartedInv'
  OBVIOUS
<1>1. fn' = fn
  BY FunctionStays DEF BaseInv, vars
<1>2. CASE UNCHANGED vars
  BY <1>2 DEF vars, StartedInv, Active, Hanging, Started, Out, Pending
<1>3. CASE Next
  <2> SUFFICES ASSUME Active', NEW k \in Hanging'
               PROVE  Started(Pending(k))'
    BY DEF StartedInv
  <2> PICK n \in Nat : n = Len(stack)
    BY LevelNumbers
  <2>1. CASE BeginFunction
    <3>1. Call(RootList) /\ stack = <<>>
      BY <2>1 DEF BeginFunction, Active, BaseInv, NestInv
    <3>2. Grows(0, RootList)
      BY <3>1, RootIsList, CallLevels
    <3> QED
      BY <3>2 DEF Grows
  <2>2. CASE FinishFunction \/ Dies
    BY <2>2
    DEF FinishFunction, Dies, LinkEmptyList, VisitUnboundBranch, Crash, Active
  <2>3. ASSUME Active, k \in Hanging, Pending(k)' = Pending(k)
        PROVE  Started(Pending(k))'
    <3>1. edges \subseteq edges'
      BY <1>3, <2>3, EdgesGrow DEF Active
    <3>2. Started(Pending(k))
      BY <2>3 DEF StartedInv
    <3> QED
      BY <1>1, <2>3, <3>1, <3>2 DEF Started, Out
  <2>4. CASE Active /\ n # 0 /\ KeepsBelow(n)
    <3>1. k \in 1 .. n - 1
      BY <2>4 DEF KeepsBelow
    <3>2. k \in Hanging /\ Pending(k)' = Pending(k)
      BY <1>1, <2>4, <3>1 DEF KeepsBelow, Keeps, Hanging, Pending
    <3> QED
      BY <2>3, <2>4, <3>2
  <2>5. CASE Active /\ n # 0 /\ Opens(n)
    <3> PICK e \in Exprs, kind \in Structured :
          /\ At(e, kind)
          /\ Grows(n, <<e, IF kind = "If" THEN "then" ELSE "body">>)
          /\ EnterBlock(e) \/ EnterLoop(e) \/ EnterIf(e)
      BY <2>5 DEF Opens
    <3>1. k \in 1..n /\ Pending(k)' = Pending(k)
      BY <1>1, KeptActivation DEF Grows
    <3>2. CASE k # n
      <4>1. k \in Hanging
        BY <3>1, <3>2 DEF Hanging
      <4> QED
        BY <2>3, <2>5, <3>1, <4>1
    <3>3. CASE k = n
      <4>1. Pending(n) = e
        BY CurrentPlace DEF Pending
      <4> QED
        BY <3>1, <3>3, <4>1, EntersStart
    <3> QED
      BY <3>2, <3>3
  <2>6. ASSUME Active, n # 0, NEW e \in Exprs, EnterElse(e), Grows(n, <<e, "else">>)
        PROVE  Started(Pending(k))'
    <3>1. k \in 1..n /\ Pending(k)' = Pending(k)
      BY <1>1, <2>6, KeptActivation DEF Grows
    <3>2. k \in Hanging
      BY <2>6, <3>1, BackPlace DEF EnterElse
    <3> QED
      BY <2>3, <2>6, <3>1, <3>2
  <2> QED
    BY <1>3, <2>1, <2>2, <2>4, <2>5, <2>6, LevelSteps
<1> QED
  BY <1>2, <1>3

-----------------------------------------------------------------------------
(* What is still owed to the graph. *)

\* The expression a list really ends with.
DueOf(l) == LastExpr[Last(fn.list[l])]

\* A list that construct has come to the end of, or was at the last of when it
\* was stopped in the middle, and whose end is to be linked.
OpenEnd(l) ==
  /\ l \in Lists /\ fn.list[l] # <<>>
  /\ \/ \E k \in 1..Len(stack) : stack[k].list = l /\ stack[k].at >= Len(fn.list[l])
     \/ pc = "returned" /\ ~ret.unreachable /\ ret.list = l

\* Expression x ends a list whose end is still to be linked.
IsDue(x) == Active /\ \E l \in Lists : OpenEnd(l) /\ x = DueOf(l)

\* The edges that linking the end of a list adds, as an execution sees them.
LinkOf(x) == EdgesFrom(x, View(fn, After(fn, x)))
Owed(d)   == \E x \in Exprs : IsDue(x) /\ d \in LinkOf(x)

\* The nodes that an execution may come to along the edges so far.
IsFirst(p, l) == fn.list[l] # <<>> /\ p = NodeOf(fn, fn.list[l][1])
\* A node that an edge leads to, the entry, or the first of an open list.
IsLive(p) ==
  \/ p = InstsNode \/ HasInEdges(edges, p)
  \/ Active /\ \E k \in 1..Height : IsFirst(p, ListAt(k))

\* The nodes of what activation k waits for that still lack edges.
Waits(k, p) ==
  LET e == Pending(k)
  IN  \/ p \in {EndBlock(e), ElseBegin(e)}
      \/ p = ThenBegin(e) /\ ListAt(k + 1)[2] = "then"
      \/ fn.list[<<e, "body">>] = <<>> /\ p = Inst(e)
      \/ /\ fn.list[<<e, "body">>] = <<>> /\ fn.kind[e] = "Loop"
         /\ ~IsLastOfList(fn, e) /\ p = NodeOf(fn, NextOf(fn, e))

\* The instruction that construct is about to visit.
LooksAt(p) == pc = "construct" /\ Top.at <= Len(Current) /\ p = Inst(Current[Top.at])

\* The nodes that construct is not done with.
Busy(p) ==
  \/ Active /\ \E k \in Hanging : Waits(k, p)
  \/ LooksAt(p)
  \/ \E x \in Exprs : IsDue(x) /\ fn.kind[x] = "Loop" /\ p = Inst(x)

\* All edges of a node, in both graphs, are there or are owed.
Settled(p) ==
  /\ \A d \in Out(p) : d \in edges \/ Owed(d)
  /\ \A x \in Exprs : p = Inst(x) /\ fn.kind[x] \in Calls =>
                        {p} \X fn.callees[x] \subseteq cg

\* If no join of the function is lost, a node that an execution may come to
\* is settled unless construct is not done with it.
ClosedInv ==
  (Active \/ pc = "done") /\ KeepsJoins =>
    \A p : IsLive(p) => Busy(p) \/ Settled(p)

-----------------------------------------------------------------------------
(* How dues change. *)

\* What is due is an expression of the body.
LEMMA DueInBody ==
  ASSUME BaseInv, NEW x, IsDue(x)
  PROVE  x \in Exprs /\ InBody(fn, x)
<1> PICK l \in Lists : fn.list[l] # <<>> /\ x = DueOf(l)
  BY DEF IsDue, OpenEnd
<1> QED
  BY ExitOfList DEF DueOf, BaseInv

\* An expression that is the last of its list and that no list ends in is due
\* itself when it has been begun.
LEMMA DueOfLast ==
  ASSUME BaseInv, NEW e \in Exprs, InBody(fn, e), IsLastOfList(fn, e)
  PROVE  /\ Holder(fn, e) \in Lists /\ fn.list[Holder(fn, e)] # <<>>
         /\ Last(fn.list[Holder(fn, e)]) = e
         /\ DueOf(Holder(fn, e)) = LastExpr[e]
         /\ fn.kind[e] # "Loop" => LastExpr[e] = e
         /\ fn.list[<<e, "body">>] = <<>> => LastExpr[e] = e
         /\ fn.kind[e] = "Loop" /\ fn.list[<<e, "body">>] # <<>> =>
              LastExpr[e] = DueOf(<<e, "body">>)
<1> DEFINE l == Holder(fn, e)
<1>1. /\ l \in Lists /\ Position(fn, e) = Len(fn.list[l])
      /\ Position(fn, e) \in 1..Len(fn.list[l])
      /\ fn.list[l][Position(fn, e)] = e
  BY HolderOf DEF BaseInv, IsLastOfList
<1>2. fn.list[l] # <<>> /\ Last(fn.list[l]) = e
  <2>1. fn.list[l] \in Seq(Exprs)
    BY <1>1, BodyParts DEF BaseInv
  <2> QED
    BY <1>1, <2>1, EmptySeq DEF Last
<1>3. LastExpr[e] = IF fn.kind[e] = "Loop" /\ fn.list[<<e, "body">>] # <<>>
                    THEN LastExpr[Last(fn.list[<<e, "body">>])]
                    ELSE e
  BY LastExprUnfolds DEF BaseInv
<1> QED
  BY <1>1, <1>2, <1>3 DEF DueOf

\* Linking the end of a list pays what is due there.
LEMMA LinkPays ==
  ASSUME BaseInv, NEW l \in Lists, fn.list[l] # <<>>
  PROVE  insertEdgeFromLastExpr(l, View(fn, EndOf(fn, l))) = LinkOf(DueOf(l))
<1>1. /\ DueOf(l) \in Exprs
      /\ View(fn, After(fn, DueOf(l))) = View(fn, EndOf(fn, l))
  BY ExitOfList DEF DueOf, BaseInv
<1> QED
  BY <1>1 DEF insertEdgeFromLastExpr, LinkOf, DueOf

\* The list that has just returned is due.
RetDue(x) == pc = "returned" /\ ~ret.unreachable /\ OpenEnd(ret.list) /\ x = DueOf(ret.list)
\* The end of the innermost list, when construct is at its last expression.
TopDue(x) ==
  /\ Top.at >= Len(Current) /\ OpenEnd(Top.list) /\ x = DueOf(Top.list)

\* What is due stays so while the activations stay and move on.
LEMMA DueStays ==
  ASSUME BaseInv, Active', fn' = fn, NEW n \in Nat, n = Len(stack),
         NEW m \in Nat, m = Len(stack'), n <= m,
         \A k \in 1..n : /\ stack'[k].list = stack[k].list
                          /\ stack[k].at <= stack'[k].at /\ stack'[k].at \in Nat,
         NEW x, IsDue(x)
  PROVE  IsDue(x)' \/ RetDue(x)
<1> PICK l \in Lists : OpenEnd(l) /\ x = DueOf(l)
  BY DEF IsDue
<1>1. DueOf(l)' = DueOf(l)
  BY DEF DueOf, LastExpr
<1>2. ASSUME NEW k \in 1..n, stack[k].list = l, stack[k].at >= Len(fn.list[l])
      PROVE  OpenEnd(l)'
  <2>1. stack'[k].list = l /\ stack'[k].at >= Len(fn.list[l]) /\ k \in 1..m
    <3>1. stack[k].at \in Nat /\ Len(fn.list[l]) \in Nat
      BY LevelNumbers, BodyParts DEF BaseInv, Frames
    <3> QED
      BY <1>2, <3>1
  <2> QED
    BY <2>1 DEF OpenEnd
<1> QED
  BY <1>1, <1>2 DEF IsDue, RetDue, OpenEnd, Active

\* When construct goes on, what is due stays due, or was at the end of the
\* list that has just returned.
LEMMA DueAdvance ==
  ASSUME BaseInv, Active, stack # <<>>, Advance, fn' = fn, NEW x, IsDue(x)
  PROVE  IsDue(x)' \/ RetDue(x)
<1> PICK n \in Nat : n = Len(stack)
  BY LevelNumbers
<1>1. /\ \A k \in 1 .. n - 1 : stack'[k] = stack[k]
      /\ stack'[n].list = stack[n].list /\ stack'[n].at = stack[n].at + 1
      /\ pc' = "construct" /\ Len(stack') = n
  BY AdvanceLevels DEF KeepsBelow, Keeps
<1>2. \A k \in 1..n : /\ stack'[k].list = stack[k].list
                       /\ stack[k].at <= stack'[k].at /\ stack'[k].at \in Nat
  <2> SUFFICES ASSUME NEW k \in 1..n
               PROVE  /\ stack'[k].list = stack[k].list
                      /\ stack[k].at <= stack'[k].at /\ stack'[k].at \in Nat
    OBVIOUS
  <2>1. stack[k].at \in Nat
    BY LevelNumbers DEF Frames
  <2>2. k \in 1 .. n - 1 \/ k = n
    OBVIOUS
  <2> QED
    BY <1>1, <2>1, <2>2
<1>3. Active' /\ n = Len(stack') /\ n <= n
  BY <1>1 DEF Active
<1> QED
  BY <1>2, <1>3, DueStays

\* So it does when construct is called.
LEMMA DueCall ==
  ASSUME BaseInv, NEW l \in Lists, Call(l), fn' = fn, NEW x, IsDue(x)
  PROVE  IsDue(x)' \/ RetDue(x)
<1> PICK n \in Nat : n = Len(stack)
  BY LevelNumbers
<1>1. /\ \A k \in 1..n : stack'[k] = stack[k]
      /\ pc' = "construct" /\ Len(stack') = n + 1
  BY CallLevels
<1>2. \A k \in 1..n : stack[k].at \in Nat
  BY LevelNumbers DEF Frames
<1>3. n + 1 \in Nat /\ n <= n + 1
  OBVIOUS
<1> QED
  BY <1>1, <1>2, <1>3, DueStays DEF Active

\* And when the false arm is begun.
LEMMA DueElse ==
  ASSUME BaseInv, NEW e \in Exprs, EnterElse(e), fn' = fn, NEW x, IsDue(x)
  PROVE  IsDue(x)' \/ RetDue(x)
<1> PICK n \in Nat : n = Len(stack)
  BY LevelNumbers
<1>1. /\ \A k \in 1..n : stack'[k].list = stack[k].list /\ stack'[k].at = stack[k].at
      /\ pc' = "construct" /\ Len(stack') = n + 1
  BY ElseLevels
<1>2. \A k \in 1..n : stack[k].at \in Nat
  BY LevelNumbers DEF Frames
<1>3. n + 1 \in Nat /\ n <= n + 1
  OBVIOUS
<1> QED
  BY <1>1, <1>2, <1>3, DueStays DEF Active

\* A list that is reported as unreachable at its end is not due any more.
LEMMA DueReturn ==
  ASSUME BaseInv, Active, stack # <<>>, NEW u \in BOOLEAN, Return(u), fn' = fn,
         NEW x, IsDue(x)
  PROVE  IsDue(x)' \/ RetDue(x) \/ (u /\ TopDue(x))
<1> PICK l \in Lists : OpenEnd(l) /\ x = DueOf(l)
  BY DEF IsDue
<1> PICK n \in Nat : n = Len(stack)
  BY LevelNumbers
<1>1. /\ \A k \in 1 .. n - 1 : stack'[k] = stack[k]
      /\ ret'.list = stack[n].list /\ ret'.unreachable = u
      /\ pc' = "returned" /\ Len(stack') = n - 1
  BY ReturnLevels DEF KeepsBelow, Keeps
<1>2. DueOf(l)' = DueOf(l)
  BY DEF DueOf, LastExpr
<1>3. Top = stack[n] /\ Current = fn.list[stack[n].list]
  BY DEF Top, Current, Last
<1>4. ASSUME NEW k \in 1 .. n - 1, stack[k].list = l, stack[k].at >= Len(fn.list[l])
      PROVE  OpenEnd(l)'
  BY <1>1, <1>4 DEF OpenEnd
<1>5. CASE stack[n].list = l /\ stack[n].at >= Len(fn.list[l])
  <2>1. ~u => OpenEnd(l)'
    BY <1>1, <1>5 DEF OpenEnd
  <2>2. u => TopDue(x)
    BY <1>3, <1>5 DEF TopDue
  <2> QED
    BY <1>1, <1>2, <2>1, <2>2 DEF IsDue, Active
<1>6. \A k \in 1..n : k \in 1 .. n - 1 \/ k = n
  OBVIOUS
<1> QED
  BY <1>1, <1>2, <1>4, <1>5, <1>6 DEF IsDue, RetDue, OpenEnd, Active

\* The list of the innermost activation is due when its last has been begun.
LEMMA TopIsDue ==
  ASSUME BaseInv, Active, stack # <<>>, Advance, fn' = fn,
         Top.at = Len(Current), NEW x, x = DueOf(Top.list)
  PROVE  IsDue(x)'
<1> PICK n \in Nat : n = Len(stack)
  BY LevelNumbers
<1>1. /\ stack'[n].list = stack[n].list /\ stack'[n].at = stack[n].at + 1
      /\ pc' = "construct" /\ Len(stack') = n
  BY AdvanceLevels
<1>2. /\ Top = stack[n] /\ Current = fn.list[stack[n].list] /\ n \in 1..n
      /\ Top.list \in Lists /\ Top.at \in Nat \ {0} /\ Current \in Seq(Exprs)
  BY TopIsFrame DEF Top, Current, Last, BaseInv, TypeInv
<1>3. stack'[n].at >= Len(fn.list[Top.list]) /\ fn.list[Top.list] # <<>>
  BY <1>1, <1>2, EmptySeq
<1> PICK l \in Lists : l = Top.list
  BY <1>2
<1>4. OpenEnd(l)'
  BY <1>1, <1>2, <1>3 DEF OpenEnd
<1>5. DueOf(l)' = DueOf(l)
  BY DEF DueOf, LastExpr
<1> QED
  BY <1>1, <1>4, <1>5 DEF IsDue, Active

-----------------------------------------------------------------------------
(* What a step has to show. *)

\* The node is settled or in work after the step, if it can be come to.
Good(p) == IsLive(p)' => Busy(p)' \/ Settled(p)'

\* What was due at x is in the graph, or starts where nothing comes.
Paid(x) == \A d \in LinkOf(x) : d \in edges' \/ ~IsLive(d.src)'

\* Dues are kept or paid; and what was waited for, or looked at, is good.
DuesPaid == \A x \in Exprs : IsDue(x) => IsDue(x)' \/ (fn.kind[x] # "Loop" /\ Paid(x))
NewGood  == \A d \in Added : IsLive(d.dest) \/ Good(d.dest)
WaitGood == Len(stack) \in Hanging => \A p : Waits(Len(stack), p) => Good(p)
LookGood == \A p : LooksAt(p) => Good(p)

\* A step that leaves the levels below the top as they were, and that shows
\* this and that the nodes it makes come to are good, keeps the invariant.
LEMMA ClosedStep ==
  ASSUME BaseInv, ClosedInv, KeepsJoins, Active, Active', Next,
         NEW n \in Nat, n = Len(stack), n # 0,
         \A k \in 1 .. n - 1 : Keeps(k) /\ k \in Hanging',
         \A k \in 1..n : ListAt(k)' = ListAt(k),
         DuesPaid, WaitGood, LookGood,
         NEW p, ~IsLive(p) => Good(p)
  PROVE  Good(p)
<1>1. fn' = fn /\ edges \subseteq edges' /\ cg \subseteq cg'
  BY FunctionStays, EdgesGrow DEF BaseInv, Active
<1> SUFFICES ASSUME IsLive(p)', IsLive(p) PROVE Busy(p)' \/ Settled(p)'
  BY DEF Good
<1>2. Busy(p) \/ Settled(p)
  BY DEF ClosedInv
<1>3. ASSUME NEW k \in Hanging, Waits(k, p)
      PROVE  Busy(p)' \/ Settled(p)'
  <2>1. CASE k = n
    BY <1>3, <2>1 DEF WaitGood, Good
  <2>2. CASE k # n
    <3>1. k \in 1 .. n - 1 /\ k + 1 \in 1..n
      <4>1. k \in 1..Len(stack)
        BY LevelNumbers
      <4> QED
        BY <2>2, <4>1
    <3>2. Pending(k)' = Pending(k) /\ ListAt(k + 1)' = ListAt(k + 1)
      BY <1>1, <3>1 DEF Keeps, Pending
    <3>3. Waits(k, p)'
      BY <1>1, <1>3, <3>2 DEF Waits
    <3> QED
      BY <3>1, <3>3 DEF Busy
  <2> QED
    BY <2>1, <2>2
<1>4. CASE LooksAt(p)
  BY <1>4 DEF LookGood, Good
<1>5. ASSUME NEW x \in Exprs, IsDue(x), fn.kind[x] = "Loop", p = Inst(x)
      PROVE  Busy(p)'
  BY <1>1, <1>5 DEF DuesPaid, Busy
<1>6. CASE Settled(p)
  <2>1. ASSUME NEW d \in Out(p) PROVE (d \in edges \/ Owed(d))'
    <3>1. CASE d \in edges
      BY <1>1, <3>1
    <3>2. CASE Owed(d)
      <4> PICK x \in Exprs : IsDue(x) /\ d \in LinkOf(x)
        BY <3>2 DEF Owed
      <4>1. CASE IsDue(x)'
        <5>1. LinkOf(x)' = LinkOf(x)
          BY <1>1 DEF LinkOf, EdgesFrom, EdgesFromKind
        <5> QED
          BY <4>1, <5>1 DEF Owed
      <4>2. CASE Paid(x)
        <5>1. d.src = p
          BY DEF Out, CFGEdge
        <5> QED
          BY <4>2, <5>1 DEF Paid
      <4> QED
        BY <4>1, <4>2 DEF DuesPaid
    <3> QED
      BY <1>6, <2>1, <3>1, <3>2 DEF Settled
  <2>2. Out(p)' = Out(p)
    BY <1>1 DEF Out
  <2>3. \A x \in Exprs : p = Inst(x) /\ fn.kind[x] \in Calls =>
                           {p} \X fn.callees[x] \subseteq cg'
    BY <1>1, <1>6 DEF Settled
  <2>4. Settled(p)'
    BY <1>1, <2>1, <2>2, <2>3 DEF Settled
  <2> QED
    BY <2>4
<1> QED
  BY <1>2, <1>3, <1>4, <1>5, <1>6 DEF Busy

\* A step at the level of the innermost activation.
LEMMA ClosedBelow ==
  ASSUME BaseInv, ClosedInv, KeepsJoins, Active, Active', Next,
         NEW n \in Nat, n = Len(stack), n # 0, KeepsBelow(n),
         DuesPaid, WaitGood, LookGood, NewGood, NEW p
  PROVE  Good(p)
<1>1. \A k \in 1..n : ListAt(k)' = ListAt(k) /\ k \in 1..Height
  BY ListsKept
<1>2. Height' = n /\ Hanging' = 1 .. n - 1 /\ \A k \in 1 .. n - 1 : Keeps(k)
  BY DEF KeepsBelow
<1>3. fn' = fn
  BY FunctionStays DEF BaseInv
<1>4. ~IsLive(p) => Good(p)
  <2> SUFFICES ASSUME ~IsLive(p), IsLive(p)' PROVE Good(p)
    BY DEF Good
  <2>1. HasInEdges(edges', p)
    BY <1>1, <1>2, <1>3 DEF IsLive, IsFirst
  <2>2. PICK d \in edges' : d.dest = p
    BY <2>1 DEF HasInEdges
  <2>3. d \in Added
    BY <2>2 DEF IsLive, HasInEdges, Added
  <2> QED
    BY <2>2, <2>3 DEF NewGood
<1> QED
  BY <1>1, <1>2, <1>4, ClosedStep

\* A step that begins a list.
LEMMA ClosedGrows ==
  ASSUME BaseInv, ClosedInv, KeepsJoins, Active, Active', Next,
         NEW n \in Nat, n = Len(stack), n # 0, NEW l, Grows(n, l),
         DuesPaid, WaitGood, LookGood, NewGood,
         \A q : IsFirst(q, l) => Good(q), NEW p
  PROVE  Good(p)
<1>1. \A k \in 1..n : ListAt(k)' = ListAt(k) /\ k \in 1..Height
  BY ListsGrown
<1>2. /\ Height' = n + 1 /\ Hanging' = 1..n /\ \A k \in 1 .. n - 1 : Keeps(k)
      /\ ListAt(n + 1)' = l
  BY DEF Grows
<1>3. fn' = fn
  BY FunctionStays DEF BaseInv
<1>4. ~IsLive(p) => Good(p)
  <2> SUFFICES ASSUME ~IsLive(p), IsLive(p)' PROVE Good(p)
    BY DEF Good
  <2>1. CASE HasInEdges(edges', p)
    <3>1. PICK d \in edges' : d.dest = p
      BY <2>1 DEF HasInEdges
    <3>2. d \in Added
      BY <3>1 DEF IsLive, HasInEdges, Added
    <3> QED
      BY <3>1, <3>2 DEF NewGood
  <2>2. ASSUME NEW k \in 1 .. n + 1, IsFirst(p, ListAt(k))'
        PROVE  IsFirst(p, l)
    <3>1. k \in 1..n \/ k = n + 1
      OBVIOUS
    <3>2. k \in 1..n => IsFirst(p, ListAt(k)) /\ k \in 1..Height
      BY <1>1, <1>3, <2>2 DEF IsFirst
    <3>3. k = n + 1 => IsFirst(p, l)
      BY <1>2, <1>3, <2>2 DEF IsFirst
    <3> QED
      BY <3>1, <3>2, <3>3 DEF IsLive
  <2> QED
    BY <1>2, <2>1, <2>2 DEF IsLive
<1>5. \A k \in 1 .. n - 1 : k \in Hanging'
  BY <1>2
<1> QED
  BY <1>1, <1>2, <1>4, <1>5, ClosedStep

-----------------------------------------------------------------------------
(* Nodes that are good after a step. *)

\* The edges of the node are there or due.
LEMMA SettledNow ==
  ASSUME fn' = fn, NEW p,
         \A d \in Out(p) :
           d \in edges' \/ \E x \in Exprs : IsDue(x)' /\ d \in LinkOf(x),
         \A x \in Exprs : p = Inst(x) /\ fn.kind[x] \in Calls =>
                            {p} \X fn.callees[x] \subseteq cg'
  PROVE  Settled(p)' /\ Good(p)
<1>1. \A x : LinkOf(x)' = LinkOf(x)
  BY DEF LinkOf, EdgesFrom, EdgesFromKind
<1>2. Out(p)' = Out(p)
  BY DEF Out
<1>3. \A d \in Out(p) : (d \in edges \/ Owed(d))'
  BY <1>1 DEF Owed
<1>4. Settled(p)'
  BY <1>2, <1>3 DEF Settled
<1> QED
  BY <1>4 DEF Good

\* Only instructions call.
LEMMA NotInst ==
  ASSUME NEW e, NEW x
  PROVE  /\ EndBlock(e) # Inst(x) /\ ThenBegin(e) # Inst(x)
         /\ ElseBegin(e) # Inst(x) /\ EndLoop(e) # Inst(x)
         /\ RetFunc # Inst(x) /\ Trap # Inst(x) /\ InstsNode # Inst(x)
         /\ (Inst(e) = Inst(x) <=> e = x)
         /\ (EndBlock(e) = EndBlock(x) <=> e = x)
BY DEF EndBlock, ThenBegin, ElseBegin, EndLoop, RetFunc, Trap, InstsNode, Inst

\* Nothing leaves the return node and the trap.
LEMMA EndsAreGood ==
  ASSUME fn' = fn
  PROVE  Good(RetFunc) /\ Good(Trap)
BY OutOfEnds, SettledNow, NotInst

\* construct looks at an expression after the step.
LEMMA LookedAt ==
  ASSUME fn' = fn, NEW l \in Lists, NEW i \in 1..Len(fn.list[l]),
         pc' = "construct", Top'.list = l, Top'.at = i,
         NEW p, p = NodeOf(fn, fn.list[l][i])
  PROVE  Good(p)
<1>1. CASE p = RetFunc
  BY <1>1, EndsAreGood
<1>2. CASE p = Inst(fn.list[l][i])
  <2>1. LooksAt(p)'
    BY <1>2 DEF LooksAt, Current
  <2> QED
    BY <2>1 DEF Busy, Good
<1> QED
  BY <1>1, <1>2 DEF NodeOf

\* The next expression, after Advance.
LEMMA NextGood ==
  ASSUME BaseInv, Active, stack # <<>>, Advance, fn' = fn,
         NEW s, NEW l, NEW d \in ToNext(s, l)
  PROVE  Good(d.dest)
<1> PICK n \in Nat : n = Len(stack)
  BY LevelNumbers
<1>1. /\ stack'[n].list = stack[n].list /\ stack'[n].at = stack[n].at + 1
      /\ pc' = "construct" /\ Len(stack') = n
  BY AdvanceLevels
<1>2. /\ Top = stack[n] /\ Current = fn.list[stack[n].list]
      /\ Top.list \in Lists /\ Top.at \in Nat \ {0} /\ Len(Current) \in Nat
  BY TopIsFrame DEF Top, Current, Last, BaseInv, TypeInv
<1>3. Top' = stack'[n]
  BY <1>1 DEF Top, Last
<1>4. Top.at < Len(Current) /\ d.dest = NodeOf(fn, Current[Top.at + 1])
  BY DEF ToNext, CFGEdge
<1> PICK i \in 1..Len(Current) : i = Top.at + 1
  BY <1>2, <1>4
<1> PICK g \in Lists : g = Top.list
  BY <1>2
<1>5. i \in 1..Len(fn.list[g]) /\ Top'.list = g /\ Top'.at = i
  BY <1>1, <1>2, <1>3
<1>6. d.dest = NodeOf(fn, fn.list[g][i])
  BY <1>2, <1>4
<1> QED
  BY <1>1, <1>5, <1>6, LookedAt

\* The first expression of a list that is begun.
LEMMA FirstGood ==
  ASSUME BaseInv, NEW l \in Lists, fn' = fn, pc' = "construct",
         Last(stack') = Frame(l), NEW p, IsFirst(p, l)
  PROVE  Good(p)
<1>1. Top'.list = l /\ Top'.at = 1
  BY DEF Top, Frame
<1>2. 1 \in 1..Len(fn.list[l])
  BY BodyParts, EmptySeq DEF BaseInv, IsFirst
<1> QED
  BY <1>1, <1>2, LookedAt DEF IsFirst

-----------------------------------------------------------------------------
(* Steps that visit an instruction. *)

\* The places a branch may go to have been begun, or construct is not done
\* with them.
LEMMA BranchGood ==
  ASSUME BaseInv, StartedInv, NEW e \in Exprs, NEW k, At(e, k),
         fn' = fn, edges \subseteq edges', Active',
         NEW n \in Nat, n = Len(stack), KeepsBelow(n),
         NEW i, NEW l, NEW d \in BranchEdges(e, i, l)
  PROVE  Good(d.dest)
<1> DEFINE t == fn.targets[e][i]
<1>1. d.dest \in getBlock(t)
  BY DEF BranchEdges, CFGEdge
<1>2. PICK j \in Hanging : Pending(j) # 0 /\ getBlock(t) = {Declared(Pending(j)).node}
  BY <1>1, BlockIsBinder
<1>3. Active
  BY DEF At, Active
<1>4. j \in 1 .. n - 1 /\ j \in Hanging'
  BY LevelNumbers DEF At, KeepsBelow
<1>5. Pending(j)' = Pending(j)
  BY <1>4 DEF KeepsBelow, Keeps, Pending
<1> PICK x \in Exprs : x = Pending(j)
  BY <1>3, HangingWaits
<1>6. d.dest = IF fn.kind[x] = "Loop" THEN Inst(x) ELSE EndBlock(x)
  BY <1>1, <1>2 DEF Declared, Scope
<1>7. CASE fn.kind[x] # "Loop" \/ fn.list[<<x, "body">>] = <<>>
  <2>1. Waits(j, d.dest)'
    BY <1>5, <1>6, <1>7 DEF Waits
  <2> QED
    BY <1>4, <2>1 DEF Good, Busy
<1>8. CASE fn.kind[x] = "Loop" /\ fn.list[<<x, "body">>] # <<>>
  <2>1. Out(Inst(x)) \subseteq edges'
    BY <1>3, <1>8 DEF StartedInv, Started
  <2>2. \A y \in Exprs : ~(Inst(x) = Inst(y) /\ fn.kind[y] \in Calls)
    BY <1>8, NotInst DEF Calls
  <2>3. Good(Inst(x))
    BY <2>1, <2>2, SettledNow
  <2> QED
    BY <1>6, <1>8, <2>3
<1> QED
  BY <1>7, <1>8

\* A branch's edge goes where the execution goes.
LEMMA BranchLeads ==
  ASSUME BaseInv, NEW e \in Exprs, NEW k, At(e, k), AllBound(e),
         NEW i \in 1..Len(fn.targets[e]), NEW l
  PROVE  BranchEdges(e, i, l) =
           {CFGEdge(Inst(e), View(fn, BranchTo(fn, e, fn.targets[e][i])), l)}
<1> DEFINE t == fn.targets[e][i]
           b == Binder(fn, e, t)
<1>1. getBlock(t) # {}
  BY DEF AllBound
<1>2. PICK j \in Hanging : b = Pending(j) /\ b # 0
                           /\ getBlock(t) = {Declared(Pending(j)).node}
  <2>1. \/ b = 0 /\ getBlock(t) = {}
        \/ \E j \in Hanging : b = Pending(j) /\ b # 0
                              /\ getBlock(t) = {Declared(b).node}
    BY BlockIsBinder
  <2> QED
    BY <1>1, <2>1
<1> HIDE DEF b, t
<1>3. Declared(b).node = IF fn.kind[b] = "Loop" THEN Inst(b) ELSE EndBlock(b)
  BY DEF Declared, Scope
<1>4. BranchTo(fn, e, t) = Declared(b).node
  BY <1>2, <1>3 DEF BranchTo, b
<1>5. View(fn, BranchTo(fn, e, t)) = Declared(b).node
  BY <1>3, <1>4, ViewOfNodes
<1>6. BranchEdges(e, i, l) = {CFGEdge(Inst(e), Declared(b).node, l)}
  BY <1>2 DEF BranchEdges, t
<1> QED
  BY <1>5, <1>6 DEF t

\* The edge that goes on from the current expression is there or is due.
LEMMA GoesOn ==
  ASSUME BaseInv, Active, stack # <<>>, Advance, fn' = fn,
         NEW e \in Exprs, InBody(fn, e), Holder(fn, e) = Top.list,
         Position(fn, e) = Top.at, Top.at <= Len(Current), fn.kind[e] # "Loop",
         NEW s, NEW l, ToNext(s, l) \subseteq edges',
         NEW d, d = CFGEdge(s, View(fn, After(fn, e)), l), d \in LinkOf(e)
  PROVE  d \in edges' \/ \E x \in Exprs : IsDue(x)' /\ d \in LinkOf(x)
<1>1. CASE IsLastOfList(fn, e)
  <2>1. Top.at = Len(Current)
    BY <1>1, ToFollowing
  <2>2. e = DueOf(Top.list)
    BY <1>1, DueOfLast
  <2> QED
    BY <2>1, <2>2, TopIsDue
<1>2. CASE ~IsLastOfList(fn, e)
  <2>1. ToNext(s, l) = {CFGEdge(s, View(fn, After(fn, e)), l)}
    BY <1>2, ToFollowing
  <2> QED
    BY <2>1
<1> QED
  BY <1>1, <1>2

\* An instruction that construct goes on from.
LEMMA PassCloses ==
  ASSUME BaseInv, ClosedInv, KeepsJoins, Next, NEW e \in Exprs, NEW k,
         At(e, k), Advance, NewGood, Good(Inst(e)), NEW p
  PROVE  Good(p)
<1>1. /\ Active /\ pc = "construct" /\ stack # <<>> /\ fn' = fn
      /\ Active' /\ e = Current[Top.at]
  BY CurrentPlace, FunctionStays DEF At, Active, Advance, BaseInv
<1> PICK n \in Nat : n = Len(stack) /\ n # 0
  BY CurrentPlace
<1>2. KeepsBelow(n)
  BY <1>1, AdvanceLevels
<1>3. DuesPaid
  BY <1>1, DueAdvance DEF DuesPaid, RetDue
<1>4. WaitGood
  <2>1. Len(stack) \notin Hanging
    BY <1>1 DEF Hanging
  <2> QED
    BY <2>1 DEF WaitGood
<1>5. LookGood
  BY <1>1 DEF LookGood, LooksAt
<1> QED
  BY <1>1, <1>2, <1>3, <1>4, <1>5, ClosedBelow

\* Calls and plain instructions.
LEMMA VisitCloses ==
  ASSUME BaseInv, ClosedInv, KeepsJoins, Next, NEW e \in Exprs,
         VisitCall(e) \/ VisitDefault(e), NEW p
  PROVE  Good(p)
<1> PICK k \in {"Call", "CallIndirect", "Plain"} : At(e, k)
  BY DEF VisitCall, VisitDefault
<1>1. /\ Advance /\ fn' = fn /\ edges' = edges \cup ToNext(Inst(e), Plainly)
      /\ fn.kind[e] \in Calls => {Inst(e)} \X fn.callees[e] \subseteq cg'
      /\ Active /\ fn.kind[e] = k
  BY DEF VisitCall, VisitDefault, At, Active, Calls
<1>2. /\ InBody(fn, e) /\ Holder(fn, e) = Top.list /\ Position(fn, e) = Top.at
      /\ Top.at <= Len(Current) /\ stack # <<>>
  BY CurrentPlace DEF At
<1>3. NewGood
  BY <1>1, <1>2, NextGood DEF NewGood, Added
<1> DEFINE d == CFGEdge(Inst(e), View(fn, After(fn, e)), Plainly)
<1>4. Out(Inst(e)) = {d}
  <2>1. Step(fn, Inst(e)) = {<<After(fn, e), Plainly>>}
    BY <1>1, StepsOfNodes DEF InstSteps, Calls
  <2> QED
    BY <2>1, OnlyStep
<1>5. d \in LinkOf(e)
  BY <1>1 DEF LinkOf, EdgesFrom, EdgesFromKind, NodeOf
<1>6. d \in edges' \/ \E x \in Exprs : IsDue(x)' /\ d \in LinkOf(x)
  <2> HIDE DEF d
  <2>1. fn.kind[e] # "Loop" /\ ToNext(Inst(e), Plainly) \subseteq edges'
    BY <1>1
  <2>2. d = CFGEdge(Inst(e), View(fn, After(fn, e)), Plainly)
    BY DEF d
  <2> QED
    BY <1>1, <1>2, <1>5, <2>1, <2>2, GoesOn
<1>7. Good(Inst(e))
  <2> HIDE DEF d
  <2>1. \A x \in Exprs : Inst(e) = Inst(x) /\ fn.kind[x] \in Calls =>
                           {Inst(e)} \X fn.callees[x] \subseteq cg'
    BY <1>1, NotInst
  <2> QED
    BY <1>1, <1>4, <1>6, <2>1, SettledNow
<1> QED
  BY <1>1, <1>3, <1>7, PassCloses

\* A conditional branch has an edge to its target and one past it.
LEMMA VisitBrIfCloses ==
  ASSUME BaseInv, ClosedInv, KeepsJoins, StartedInv, Next, NEW e \in Exprs,
         VisitBrIf(e), NEW p
  PROVE  Good(p)
<1>1. /\ At(e, "BrIf") /\ AllBound(e) /\ Advance /\ fn' = fn
      /\ edges' = edges \cup BranchEdges(e, 1, OnTrue) \cup ToNext(Inst(e), OnFalse)
      /\ Active /\ Active' /\ fn.kind[e] = "BrIf"
  BY DEF VisitBrIf, At, Active, Advance
<1>2. /\ InBody(fn, e) /\ Holder(fn, e) = Top.list /\ Position(fn, e) = Top.at
      /\ Top.at <= Len(Current) /\ stack # <<>>
  BY <1>1, CurrentPlace DEF At
<1> PICK n \in Nat : n = Len(stack) /\ n # 0
  BY <1>1, CurrentPlace
<1>3. KeepsBelow(n)
  BY <1>1, <1>2, AdvanceLevels
<1>4. NewGood
  <2>1. \A d \in ToNext(Inst(e), OnFalse) : Good(d.dest)
    BY <1>1, <1>2, NextGood
  <2>2. \A d \in BranchEdges(e, 1, OnTrue) : Good(d.dest)
    BY <1>1, <1>3, BranchGood
  <2> QED
    BY <1>1, <2>1, <2>2 DEF NewGood, Added
<1> DEFINE b == CFGEdge(Inst(e), View(fn, BranchTo(fn, e, fn.targets[e][1])), OnTrue)
           d == CFGEdge(Inst(e), View(fn, After(fn, e)), OnFalse)
<1>5. Out(Inst(e)) = {b, d}
  <2>1. Step(fn, Inst(e)) = {<<BranchTo(fn, e, fn.targets[e][1]), OnTrue>>,
                             <<After(fn, e), OnFalse>>}
    BY <1>1, StepsOfNodes DEF InstSteps, Calls
  <2> QED
    BY <2>1 DEF Out
<1>6. b \in edges'
  <2>1. 1 \in 1..Len(fn.targets[e])
    <3>1. fn.targets[e] \in Seq(Labels) /\ fn.targets[e] # <<>>
      BY <1>1, FunctionParts DEF BaseInv, TypeInv, Branches
    <3> QED
      BY <3>1, EmptySeq
  <2>2. BranchEdges(e, 1, OnTrue) = {b}
    BY <1>1, <2>1, BranchLeads
  <2> QED
    BY <1>1, <2>2
<1>7. d \in edges' \/ \E x \in Exprs : IsDue(x)' /\ d \in LinkOf(x)
  <2>1. d \in LinkOf(e)
    BY <1>1 DEF LinkOf, EdgesFrom, EdgesFromKind
  <2> HIDE DEF d
  <2>2. fn.kind[e] # "Loop" /\ ToNext(Inst(e), OnFalse) \subseteq edges'
    BY <1>1
  <2>3. d = CFGEdge(Inst(e), View(fn, After(fn, e)), OnFalse)
    BY DEF d
  <2> QED
    BY <1>1, <1>2, <2>1, <2>2, <2>3, GoesOn
<1>8. Good(Inst(e))
  <2> HIDE DEF b, d
  <2>1. \A x \in Exprs : ~(Inst(e) = Inst(x) /\ fn.kind[x] \in Calls)
    BY <1>1, NotInst DEF Calls
  <2> QED
    BY <1>1, <1>5, <1>6, <1>7, <2>1, SettledNow
<1> QED
  BY <1>1, <1>4, <1>8, PassCloses

\* A br_table has an edge to each of its targets.
LEMMA VisitBrTableCloses ==
  ASSUME BaseInv, ClosedInv, KeepsJoins, StartedInv, Next, NEW e \in Exprs,
         VisitBrTable(e), NEW p
  PROVE  Good(p)
<1> DEFINE m == Len(fn.targets[e])
           L(i) == IF i = m THEN OnDefault ELSE OnCase(i - 1)
<1>1. /\ At(e, "BrTable") /\ AllBound(e) /\ Advance /\ fn' = fn
      /\ edges' = edges \cup BranchEdges(e, m, OnDefault)
                    \cup UNION {BranchEdges(e, i, OnCase(i - 1)) : i \in 1 .. m - 1}
      /\ Active /\ Active' /\ fn.kind[e] = "BrTable"
  BY DEF VisitBrTable, At, Active, Advance
<1>2. /\ stack # <<>> /\ m \in Nat
  <2>1. fn.targets[e] \in Seq(Labels)
    BY FunctionParts DEF BaseInv, TypeInv
  <2> QED
    BY <1>1, <2>1, CurrentPlace
<1> PICK n \in Nat : n = Len(stack) /\ n # 0
  BY <1>1, CurrentPlace
<1>3. KeepsBelow(n)
  BY <1>1, <1>2, AdvanceLevels
<1>4. \A i : \A l : \A d \in BranchEdges(e, i, l) : edges \subseteq edges' => Good(d.dest)
  BY <1>1, <1>3, BranchGood
<1> HIDE DEF m
<1>5. NewGood
  BY <1>1, <1>4 DEF NewGood, Added
<1>6. \A i \in 1..m : BranchEdges(e, i, L(i)) \subseteq edges'
  <2> TAKE i \in 1..m
  <2>1. CASE i = m
    BY <1>1, <2>1
  <2>2. CASE i # m
    <3>1. i \in 1 .. m - 1
      BY <1>2, <2>2
    <3> QED
      BY <1>1, <2>2, <3>1
  <2> QED
    BY <2>1, <2>2
<1>7. \A i \in 1..m : CFGEdge(Inst(e), View(fn, BranchTo(fn, e, fn.targets[e][i])), L(i)) \in edges'
  <2> TAKE i \in 1..m
  <2> HIDE DEF L
  <2>1. BranchEdges(e, i, L(i)) =
          {CFGEdge(Inst(e), View(fn, BranchTo(fn, e, fn.targets[e][i])), L(i))}
    BY <1>1, BranchLeads DEF m
  <2> QED
    BY <1>6, <2>1
<1>8. Out(Inst(e)) \subseteq edges'
  <2>1. Step(fn, Inst(e)) = {<<BranchTo(fn, e, fn.targets[e][i]), L(i)>> : i \in 1..m}
    BY <1>1, StepsOfNodes DEF InstSteps, Calls, m
  <2> HIDE DEF L
  <2> QED
    BY <1>7, <2>1 DEF Out
<1>9. Good(Inst(e))
  <2>1. \A x \in Exprs : ~(Inst(e) = Inst(x) /\ fn.kind[x] \in Calls)
    BY <1>1, NotInst DEF Calls
  <2> QED
    BY <1>1, <1>8, <2>1, SettledNow
<1> QED
  BY <1>1, <1>5, <1>9, PassCloses

-----------------------------------------------------------------------------
(* Steps that leave a list at an instruction, or at its end. *)

\* What is due at the top of an expression that does not fall through.
LEMMA SilentPaid ==
  ASSUME BaseInv, NEW e \in Exprs, NEW k \in {"Return", "Unreachable", "Br"},
         At(e, k), NEW x, TopDue(x)
  PROVE  fn.kind[x] # "Loop" /\ Paid(x)
<1>1. /\ InBody(fn, e) /\ Holder(fn, e) = Top.list /\ Position(fn, e) = Top.at
      /\ Top.at <= Len(Current) /\ stack # <<>> /\ fn.kind[e] = k
  BY CurrentPlace DEF At
<1>2. Top.at >= Len(Current) /\ x = DueOf(Top.list)
  BY DEF TopDue
<1>3. IsLastOfList(fn, e)
  <2>1. Top.at \in Nat /\ Len(Current) \in Nat
    BY <1>1, TopIsFrame DEF BaseInv, TypeInv
  <2>2. Top.at = Len(fn.list[Top.list])
    BY <1>1, <1>2, <2>1 DEF Current
  <2> QED
    BY <1>1, <2>2 DEF IsLastOfList
<1>4. x = e
  BY <1>1, <1>2, <1>3, DueOfLast
<1>5. LinkOf(e) = {}
  BY <1>1 DEF LinkOf, EdgesFrom, EdgesFromKind
<1> QED
  BY <1>1, <1>4, <1>5 DEF Paid

\* An instruction that ends its activation.
LEMMA StopCloses ==
  ASSUME BaseInv, ClosedInv, KeepsJoins, Next, NEW e \in Exprs,
         NEW k \in {"Return", "Unreachable", "Br"}, At(e, k),
         NEW u \in BOOLEAN, Return(u), NewGood, Good(Inst(e)), NEW p
  PROVE  Good(p)
<1>1. /\ Active /\ pc = "construct" /\ stack # <<>> /\ fn' = fn
      /\ Active' /\ e = Current[Top.at]
  BY CurrentPlace, FunctionStays DEF At, Active, Return, BaseInv
<1> PICK n \in Nat : n = Len(stack) /\ n # 0
  BY CurrentPlace
<1>2. KeepsBelow(n)
  BY <1>1, ReturnLevels
<1>3. DuesPaid
  <2>1. \A x : ~RetDue(x)
    BY <1>1 DEF RetDue
  <2>2. \A x \in Exprs : IsDue(x) => IsDue(x)' \/ TopDue(x)
    BY <1>1, <2>1, DueReturn
  <2> QED
    BY <2>2, SilentPaid DEF DuesPaid
<1>4. WaitGood
  <2>1. Len(stack) \notin Hanging
    BY <1>1 DEF Hanging
  <2> QED
    BY <2>1 DEF WaitGood
<1>5. LookGood
  BY <1>1 DEF LookGood, LooksAt
<1> QED
  BY <1>1, <1>2, <1>3, <1>4, <1>5, ClosedBelow

\* A Return has no node of its own.
LEMMA ReturnHasNoInst ==
  ASSUME BaseInv, ProperInv, NEW e \in Exprs, fn.kind[e] = "Return"
  PROVE  /\ Inst(e) # InstsNode /\ ~HasInEdges(edges, Inst(e))
         /\ \A l : ~IsFirst(Inst(e), l)
<1>1. Inst(e) # RetFunc /\ Inst(e) # Trap /\ Inst(e) # InstsNode
  BY NotInst
<1>2. ~ProperDest(Inst(e))
  <2>1. \A x : Inst(e) \notin NodesOfKind(x)
    BY NotInst DEF NodesOfKind
  <2> QED
    BY <1>1, <2>1 DEF ProperDest
<1>3. \A l : ~IsFirst(Inst(e), l)
  BY <1>1, NotInst DEF IsFirst, NodeOf
<1> QED
  BY <1>1, <1>2, <1>3 DEF HasInEdges, ProperInv

\* A Return has no node of its own.
LEMMA VisitReturnCloses ==
  ASSUME BaseInv, ClosedInv, KeepsJoins, ProperInv, Next, NEW e \in Exprs,
         VisitReturn(e), NEW p
  PROVE  Good(p)
<1>1. At(e, "Return") /\ Return(FALSE) /\ edges' = edges
  BY DEF VisitReturn
<1>2. NewGood
  BY <1>1 DEF NewGood, Added
<1>3. Good(Inst(e))
  <2>1. fn' = fn /\ fn.kind[e] = "Return"
    BY <1>1 DEF VisitReturn, At
  <2>2. ~HasInEdges(edges', Inst(e)) /\ \A l : ~IsFirst(Inst(e), l)
    BY <1>1, <2>1, ReturnHasNoInst
  <2>3. \A l : IsFirst(Inst(e), l)' => IsFirst(Inst(e), l')
    BY <2>1 DEF IsFirst
  <2>4. ~IsLive(Inst(e))'
    BY <2>1, <2>2, <2>3, ReturnHasNoInst DEF IsLive
  <2> QED
    BY <2>4 DEF Good
<1> QED
  BY <1>1, <1>2, <1>3, StopCloses

\* An Unreachable leads to the trap.
LEMMA VisitUnreachableCloses ==
  ASSUME BaseInv, ClosedInv, KeepsJoins, Next, NEW e \in Exprs,
         VisitUnreachable(e), NEW p
  PROVE  Good(p)
<1>1. /\ At(e, "Unreachable") /\ Return(TRUE) /\ fn' = fn
      /\ edges' = edges \cup {CFGEdge(Inst(e), Trap, Plainly)}
      /\ fn.kind[e] = "Unreachable"
  BY DEF VisitUnreachable, At
<1>2. NewGood
  BY <1>1, EndsAreGood DEF NewGood, Added, CFGEdge
<1>3. Good(Inst(e))
  <2>1. Step(fn, Inst(e)) = {<<Trap, Plainly>>}
    BY <1>1, StepsOfNodes DEF InstSteps, Calls
  <2>2. Out(Inst(e)) = {CFGEdge(Inst(e), Trap, Plainly)}
    BY <2>1, OnlyStep, ViewOfNodes
  <2>3. \A x \in Exprs : ~(Inst(e) = Inst(x) /\ fn.kind[x] \in Calls)
    BY <1>1, NotInst DEF Calls
  <2> QED
    BY <1>1, <2>2, <2>3, SettledNow
<1> QED
  BY <1>1, <1>2, <1>3, StopCloses

\* A branch leads to its target.
LEMMA VisitBrCloses ==
  ASSUME BaseInv, ClosedInv, KeepsJoins, StartedInv, Next, NEW e \in Exprs,
         VisitBr(e), NEW p
  PROVE  Good(p)
<1>1. /\ At(e, "Br") /\ AllBound(e) /\ Return(TRUE) /\ fn' = fn
      /\ edges' = edges \cup BranchEdges(e, 1, Plainly)
      /\ Active /\ Active' /\ fn.kind[e] = "Br"
  BY DEF VisitBr, At, Active, Return
<1>2. stack # <<>>
  BY <1>1, CurrentPlace
<1> PICK n \in Nat : n = Len(stack) /\ n # 0
  BY <1>1, CurrentPlace
<1>3. KeepsBelow(n)
  BY <1>1, <1>2, ReturnLevels
<1>4. NewGood
  <2>1. \A d \in BranchEdges(e, 1, Plainly) : Good(d.dest)
    BY <1>1, <1>3, BranchGood
  <2> QED
    BY <1>1, <2>1 DEF NewGood, Added
<1>5. Good(Inst(e))
  <2>1. 1 \in 1..Len(fn.targets[e])
    <3>1. fn.targets[e] \in Seq(Labels) /\ fn.targets[e] # <<>>
      BY <1>1, FunctionParts DEF BaseInv, TypeInv, Branches
    <3> QED
      BY <3>1, EmptySeq
  <2>2. Step(fn, Inst(e)) = {<<BranchTo(fn, e, fn.targets[e][1]), Plainly>>}
    BY <1>1, StepsOfNodes DEF InstSteps, Calls
  <2>3. Out(Inst(e)) = BranchEdges(e, 1, Plainly)
    <3>1. BranchEdges(e, 1, Plainly) =
            {CFGEdge(Inst(e), View(fn, BranchTo(fn, e, fn.targets[e][1])), Plainly)}
      BY <1>1, <2>1, BranchLeads
    <3> QED
      BY <2>2, <3>1, OnlyStep
  <2>4. \A x \in Exprs : ~(Inst(e) = Inst(x) /\ fn.kind[x] \in Calls)
    BY <1>1, NotInst DEF Calls
  <2> QED
    BY <1>1, <2>3, <2>4, SettledNow
<1> QED
  BY <1>1, <1>4, <1>5, StopCloses

\* At the end of a list what is its last becomes due.
LEMMA EndOfListCloses ==
  ASSUME BaseInv, ClosedInv, KeepsJoins, Next, EndOfList, NEW p
  PROVE  Good(p)
<1>1. /\ pc = "construct" /\ Return(FALSE) /\ fn' = fn /\ edges' = edges
      /\ Active /\ Active' /\ Top.at > Len(Current)
  BY DEF EndOfList, Active, Return
<1>2. stack # <<>>
  BY <1>1, LevelNumbers
<1> PICK n \in Nat : n = Len(stack) /\ n # 0
  BY <1>1, LevelNumbers
<1>3. KeepsBelow(n)
  BY <1>1, <1>2, ReturnLevels
<1>4. DuesPaid
  <2>1. \A x : ~RetDue(x)
    BY <1>1 DEF RetDue
  <2> QED
    BY <1>1, <1>2, <2>1, DueReturn DEF DuesPaid
<1>5. WaitGood
  <2>1. Len(stack) \notin Hanging
    BY <1>1 DEF Hanging
  <2> QED
    BY <2>1 DEF WaitGood
<1>6. LookGood
  <2>1. ~(Top.at <= Len(Current))
    <3>1. Top.at \in Nat /\ Len(Current) \in Nat
      BY <1>2, TopIsFrame DEF BaseInv, TypeInv
    <3> QED
      BY <1>1, <3>1
  <2> QED
    BY <2>1 DEF LookGood, LooksAt
<1>7. NewGood
  BY <1>1 DEF NewGood, Added
<1> QED
  BY <1>1, <1>3, <1>4, <1>5, <1>6, <1>7, ClosedBelow

-----------------------------------------------------------------------------
(* Steps that begin an expression's first list. *)

\* The level of an expression whose list has been begun.
LEMMA NowWaits ==
  ASSUME BaseInv, fn' = fn, Active', NEW n \in Nat \ {0}, n = Len(stack), NEW l,
         Grows(n, l), NEW e \in Exprs, e = Pending(n), NEW p,
         \/ p \in {EndBlock(e), ElseBegin(e)}
         \/ p = ThenBegin(e) /\ l[2] = "then"
         \/ fn.list[<<e, "body">>] = <<>> /\ p = Inst(e)
         \/ /\ fn.list[<<e, "body">>] = <<>> /\ fn.kind[e] = "Loop"
            /\ ~IsLastOfList(fn, e) /\ p = NodeOf(fn, NextOf(fn, e))
  PROVE  Good(p)
<1>1. n \in 1..n
  OBVIOUS
<1>2. n \in Hanging' /\ Kept(n) /\ ListAt(n + 1)' = l
  BY <1>1 DEF Grows
<1>3. Pending(n)' = e
  BY <1>2 DEF Pending, Kept
<1>4. Waits(n, p)'
  BY <1>2, <1>3 DEF Waits
<1> QED
  BY <1>2, <1>4 DEF Good, Busy

\* Only Blocks and Loops have a body.
LEMMA IfHasNoBody ==
  ASSUME BaseInv, NEW e \in Exprs, fn.kind[e] = "If"
  PROVE  fn.list[<<e, "body">>] = <<>>
<1>1. <<e, "body">> \in Lists /\ <<e, "body">> # RootList
  BY ArmsAreLists, ExprsAssumption DEF RootList
<1>2. "body" \notin ArmsOf(fn.kind[e])
  BY DEF ArmsOf
<1> QED
  BY <1>1, <1>2, OwnerInBody DEF BaseInv

\* Beginning a structured expression, whose nodes are waited for from now on.
LEMMA EnterCloses ==
  ASSUME BaseInv, ClosedInv, KeepsJoins, Next, NEW e \in Exprs,
         NEW k \in Structured, At(e, k), NEW l \in Lists, Call(l),
         NewGood, Good(Inst(e)), NEW p
  PROVE  Good(p)
<1>1. /\ Active /\ pc = "construct" /\ stack # <<>> /\ fn' = fn
      /\ Active' /\ e = Current[Top.at] /\ pc' = "construct"
  BY CurrentPlace, FunctionStays DEF At, Active, Call, BaseInv
<1> PICK n \in Nat : n = Len(stack) /\ n # 0
  BY CurrentPlace
<1>2. Grows(n, l) /\ Len(stack') = n + 1 /\ stack'[n + 1] = Frame(l)
  BY CallLevels
<1>3. DuesPaid
  BY <1>1, DueCall DEF DuesPaid, RetDue
<1>4. WaitGood
  <2>1. Len(stack) \notin Hanging
    BY <1>1 DEF Hanging
  <2> QED
    BY <2>1 DEF WaitGood
<1>5. LookGood
  BY <1>1 DEF LookGood, LooksAt
<1>6. \A q : IsFirst(q, l) => Good(q)
  <2>1. Last(stack') = Frame(l)
    BY <1>2 DEF Last
  <2> QED
    BY <1>1, <2>1, FirstGood
<1> QED
  BY <1>1, <1>2, <1>3, <1>4, <1>5, <1>6, ClosedGrows

\* What holds when a list of the current expression has been begun.
LEMMA Entered ==
  ASSUME BaseInv, NEW e \in Exprs, NEW k, At(e, k), NEW l \in Lists, Call(l)
  PROVE  /\ pc' = "construct" /\ Active' /\ Last(stack') = Frame(l)
         /\ \E n \in Nat \ {0} : /\ n = Len(stack) /\ Grows(n, l)
                                 /\ e = Pending(n)
<1> PICK n \in Nat \ {0} : n = Len(stack)
  BY CurrentPlace
<1>1. Grows(n, l) /\ Len(stack') = n + 1 /\ stack'[n + 1] = Frame(l)
  BY CallLevels
<1>2. e = Pending(n)
  BY CurrentPlace DEF Pending
<1>3. pc' = "construct" /\ Active' /\ Last(stack') = Frame(l)
  BY <1>1 DEF Call, Active, Last
<1> QED
  BY <1>1, <1>2, <1>3

\* Blocks.
LEMMA EnterBlockCloses ==
  ASSUME BaseInv, ClosedInv, KeepsJoins, Next, NEW e \in Exprs,
         EnterBlock(e), NEW p
  PROVE  Good(p)
<1> PICK l \in Lists : l = <<e, "body">>
  BY ArmsAreLists
<1>1. /\ At(e, "Block") /\ Call(l) /\ fn' = fn /\ fn.kind[e] = "Block"
      /\ edges' = edges \cup IF fn.list[l] = <<>>
                             THEN {CFGEdge(Inst(e), EndBlock(e), Plainly)}
                             ELSE ToFirst(Inst(e), l)
  BY DEF EnterBlock, At
<1>2. pc' = "construct" /\ Active' /\ Last(stack') = Frame(l)
  BY <1>1, Entered
<1>3. PICK n \in Nat \ {0} : n = Len(stack) /\ Grows(n, l) /\ e = Pending(n)
  BY <1>1, Entered
<1>4. NewGood
  <2>1. Good(EndBlock(e))
    BY <1>1, <1>2, <1>3, NowWaits
  <2>2. \A d \in ToFirst(Inst(e), l) : Good(d.dest)
    <3>1. \A d \in ToFirst(Inst(e), l) : IsFirst(d.dest, l)
      BY DEF ToFirst, IsFirst, CFGEdge
    <3> QED
      BY <1>1, <1>2, <3>1, FirstGood
  <2>3. CASE fn.list[l] = <<>>
    BY <1>1, <2>1, <2>3 DEF NewGood, Added, CFGEdge
  <2>4. CASE fn.list[l] # <<>>
    BY <1>1, <2>2, <2>4 DEF NewGood, Added
  <2> QED
    BY <2>3, <2>4
<1>5. Good(Inst(e))
  <2>1. CASE fn.list[l] = <<>>
    BY <1>1, <1>2, <1>3, <2>1, NowWaits
  <2>2. CASE fn.list[l] # <<>>
    <3>1. Step(fn, Inst(e)) = {<<StartOf(fn, l), Plainly>>}
      BY <1>1, StepsOfNodes DEF InstSteps, Calls
    <3>2. Out(Inst(e)) \subseteq edges'
      BY <1>1, <2>2, <3>1, IntoList
    <3>3. \A x \in Exprs : ~(Inst(e) = Inst(x) /\ fn.kind[x] \in Calls)
      BY <1>1, NotInst DEF Calls
    <3> QED
      BY <1>1, <3>2, <3>3, SettledNow
  <2> QED
    BY <2>1, <2>2
<1>6. "Block" \in Structured
  BY DEF Structured
<1> QED
  BY <1>1, <1>4, <1>5, <1>6, EnterCloses

\* Loops.
LEMMA EnterLoopCloses ==
  ASSUME BaseInv, ClosedInv, KeepsJoins, Next, NEW e \in Exprs,
         EnterLoop(e), NEW p
  PROVE  Good(p)
<1> PICK l \in Lists : l = <<e, "body">>
  BY ArmsAreLists
<1>1. /\ At(e, "Loop") /\ Call(l) /\ fn' = fn /\ fn.kind[e] = "Loop"
      /\ edges' = edges \cup IF fn.list[l] = <<>>
                             THEN ToNext(Inst(e), Plainly)
                             ELSE ToFirst(Inst(e), l)
  BY DEF EnterLoop, At
<1>2. pc' = "construct" /\ Active' /\ Last(stack') = Frame(l)
  BY <1>1, Entered
<1>3. PICK n \in Nat \ {0} : n = Len(stack) /\ Grows(n, l) /\ e = Pending(n)
  BY <1>1, Entered
<1>4. /\ InBody(fn, e) /\ Holder(fn, e) = Top.list /\ Position(fn, e) = Top.at
      /\ Top.at <= Len(Current) /\ stack # <<>>
  BY <1>1, CurrentPlace DEF At
<1>5. NewGood
  <2>1. \A d \in ToFirst(Inst(e), l) : Good(d.dest)
    <3>1. \A d \in ToFirst(Inst(e), l) : IsFirst(d.dest, l)
      BY DEF ToFirst, IsFirst, CFGEdge
    <3> QED
      BY <1>1, <1>2, <3>1, FirstGood
  <2>2. CASE fn.list[l] = <<>>
    <3>1. ASSUME NEW d \in ToNext(Inst(e), Plainly)
          PROVE  Good(d.dest)
      <4>1. /\ ~IsLastOfList(fn, e)
            /\ NextOf(fn, e) = Current[Top.at + 1]
        BY <1>4, <3>1, ToFollowing
      <4>2. d.dest = NodeOf(fn, NextOf(fn, e))
        BY <3>1, <4>1 DEF ToNext, CFGEdge
      <4> QED
        BY <1>1, <1>2, <1>3, <2>2, <4>1, <4>2, NowWaits
    <3> QED
      BY <1>1, <2>2, <3>1 DEF NewGood, Added
  <2>3. CASE fn.list[l] # <<>>
    BY <1>1, <2>1, <2>3 DEF NewGood, Added
  <2> QED
    BY <2>2, <2>3
<1>6. Good(Inst(e))
  <2>1. CASE fn.list[l] = <<>>
    BY <1>1, <1>2, <1>3, <2>1, NowWaits
  <2>2. CASE fn.list[l] # <<>>
    <3>1. Step(fn, Inst(e)) = {<<StartOf(fn, l), Plainly>>}
      BY <1>1, StepsOfNodes DEF InstSteps, Calls
    <3>2. Out(Inst(e)) \subseteq edges'
      BY <1>1, <2>2, <3>1, IntoList
    <3>3. \A x \in Exprs : ~(Inst(e) = Inst(x) /\ fn.kind[x] \in Calls)
      BY <1>1, NotInst DEF Calls
    <3> QED
      BY <1>1, <3>2, <3>3, SettledNow
  <2> QED
    BY <2>1, <2>2
<1>7. "Loop" \in Structured
  BY DEF Structured
<1> QED
  BY <1>1, <1>5, <1>6, <1>7, EnterCloses

\* True arms.
LEMMA EnterIfCloses ==
  ASSUME BaseInv, ClosedInv, KeepsJoins, Next, NEW e \in Exprs,
         EnterIf(e), NEW p
  PROVE  Good(p)
<1> PICK l \in Lists : l = <<e, "then">>
  BY ArmsAreLists
<1>1. /\ At(e, "If") /\ Call(l) /\ fn' = fn /\ fn.kind[e] = "If"
      /\ edges' = edges \cup {CFGEdge(Inst(e), ThenBegin(e), OnTrue)}
  BY DEF EnterIf, At
<1>2. pc' = "construct" /\ Active'
  BY <1>1, Entered
<1>3. PICK n \in Nat \ {0} : n = Len(stack) /\ Grows(n, l) /\ e = Pending(n)
  BY <1>1, Entered
<1>4. NewGood
  <2>1. l[2] = "then" /\ fn' = fn
    BY <1>1
  <2>2. Good(ThenBegin(e))
    BY <1>2, <1>3, <2>1, NowWaits
  <2> QED
    BY <1>1, <2>2 DEF NewGood, Added, CFGEdge
<1>5. Good(Inst(e))
  <2>1. fn.list[<<e, "body">>] = <<>>
    BY <1>1, IfHasNoBody
  <2> QED
    BY <1>1, <1>2, <1>3, <2>1, NowWaits
<1>6. "If" \in Structured
  BY DEF Structured
<1> QED
  BY <1>1, <1>4, <1>5, <1>6, EnterCloses

-----------------------------------------------------------------------------
(* Steps that take up an expression again when its list has returned. *)

\* When the end of a Block's list or an If's is linked.
LEMMA LinksWhenReachable ==
  ASSUME BaseInv, NEW e \in Exprs, NEW a, Back(e, a), fn.kind[e] # "Loop"
  PROVE  LinksEnd <=> ~ret.unreachable
<1>1. \A x : ret.list = <<x, "body">> => x = e
  BY DEF Back
<1> QED
  BY <1>1 DEF LinksEnd

\* If it can be linked, it has an end.
LEMMA ReturnedHasEnd ==
  ASSUME BaseInv, UnreachInv, NEW e \in Exprs, NEW a, Back(e, a),
         fn.kind[e] # "Loop", LinksEnd => ~BackOfEmpty(ret.list)
  PROVE  fn.list[<<e, a>>] # <<>>
<1>1. ret.list = <<e, a>> /\ <<e, a>> \in Lists /\ pc = "returned"
  BY BackPlace
<1>2. CASE ~ret.unreachable
  BY <1>1, <1>2, LinksWhenReachable DEF BackOfEmpty
<1>3. CASE ret.unreachable
  <2>1. Stops(fn, <<e, a>>)
    BY <1>1, <1>3 DEF UnreachInv
  <2>2. \E x : x \in Range(fn.list[<<e, a>>])
    BY <1>1, <2>1, StopsUnfolds DEF BaseInv
  <2>3. Range(<<>>) = {}
    BY DEF Range
  <2> QED
    BY <2>2, <2>3
<1> QED
  BY <1>2, <1>3

\* The end of the list falls through to the block's end as an execution does.
LEMMA RetPaid ==
  ASSUME BaseInv, NEW e \in Exprs, NEW a, Back(e, a), fn.kind[e] # "Loop",
         LinksEnd => ~BackOfEmpty(ret.list),
         FallThrough(EndBlock(e)) \subseteq edges', NEW x, RetDue(x)
  PROVE  fn.kind[x] # "Loop" /\ Paid(x)
<1> PICK l \in Lists : l = <<e, a>>
  BY BackPlace
<1>1. /\ ret.list = l /\ ~ret.unreachable /\ fn.list[l] # <<>> /\ x = DueOf(l)
  BY DEF RetDue, OpenEnd, Back
<1>2. fn.kind[x] # "Loop"
  BY <1>1, LinksWhenReachable DEF BackOfEmpty, DueOf
<1>3. View(fn, EndOf(fn, l)) = EndBlock(e)
  <2>1. l # RootList /\ l[1] = e
    BY ExprsAssumption DEF RootList
  <2> QED
    BY <2>1, ViewOfNodes DEF EndOf
<1>4. LinkOf(x) = insertEdgeFromLastExpr(l, EndBlock(e))
  BY <1>1, <1>3, LinkPays
<1>5. LinkOf(x) \subseteq edges'
  BY <1>1, <1>4 DEF FallThrough
<1> QED
  BY <1>2, <1>5 DEF Paid

\* The edges into the list that has returned lead where it was begun.
LEMMA FirstWasLive ==
  ASSUME BaseInv, NEW e \in Exprs, NEW a, Back(e, a), NEW s,
         NEW d \in ToFirst(s, <<e, a>>)
  PROVE  IsLive(d.dest)
<1> PICK n \in Nat : n = Len(stack)
  BY BackPlace
<1>1. Active /\ n + 1 \in 1..Height /\ ListAt(n + 1) = <<e, a>>
  BY BackPlace
<1>2. IsFirst(d.dest, <<e, a>>)
  BY DEF ToFirst, IsFirst, CFGEdge
<1> QED
  BY <1>1, <1>2 DEF IsLive

\* An arm's begin is settled when the arm has been built.
LEMMA ArmBegun ==
  ASSUME fn' = fn, NEW e \in Exprs, NEW a, fn.list[<<e, a>>] # <<>>,
         NEW q, Step(fn, q) = {<<StartOf(fn, <<e, a>>), Plainly>>},
         ToFirst(q, <<e, a>>) \subseteq edges',
         \A x \in Exprs : q = Inst(x) => fn.kind[x] \notin Calls
  PROVE  Good(q)
<1>1. Out(q) \subseteq edges'
  BY IntoList
<1> QED
  BY <1>1, SettledNow

\* The false arm is begun when the true arm has returned.
LEMMA EnterElseCloses ==
  ASSUME BaseInv, ClosedInv, KeepsJoins, UnreachInv, Next, NEW e \in Exprs,
         EnterElse(e), NEW p
  PROVE  Good(p)
<1> PICK l \in Lists : l = <<e, "else">>
  BY ArmsAreLists
<1>1. /\ Back(e, "then") /\ fn' = fn /\ fn.list[l] # <<>>
      /\ LinksEnd => ~BackOfEmpty(ret.list)
      /\ edges' = edges \cup ToFirst(ThenBegin(e), <<e, "then">>)
                        \cup FallThrough(EndBlock(e))
  BY DEF EnterElse, ThenEdges
<1> PICK n \in Nat \ {0} : n = Len(stack) /\ e = Pending(n)
  BY <1>1, BackPlace
<1>2. /\ Active /\ n \in Hanging /\ ListAt(n + 1) = <<e, "then">>
      /\ pc = "returned" /\ fn.kind[e] = "If"
  <2>1. <<e, "then">> \in ListsOf(e)
    BY <1>1, BackPlace
  <2>2. fn.kind[e] = "If"
    BY <2>1, ListsByKind
  <2> QED
    BY <1>1, <2>2, BackPlace
<1>3. /\ Grows(n, l) /\ pc' = "construct" /\ Active'
      /\ Last(stack') = Frame(l)
  BY ElseLevels DEF Active, Last
<1>4. DuesPaid
  <2>1. \A x \in Exprs : IsDue(x) => IsDue(x)' \/ RetDue(x)
    BY <1>1, DueElse
  <2>2. \A x : RetDue(x) => fn.kind[x] # "Loop" /\ Paid(x)
    BY <1>1, <1>2, RetPaid
  <2> QED
    BY <2>1, <2>2 DEF DuesPaid
<1>5. Good(EndBlock(e)) /\ Good(ElseBegin(e)) /\ Good(Inst(e))
  BY <1>1, <1>2, <1>3, IfHasNoBody, NowWaits
<1>6. Good(ThenBegin(e))
  <2>1. fn.list[<<e, "then">>] # <<>>
    BY <1>1, <1>2, ReturnedHasEnd
  <2> QED
    BY <1>1, <2>1, StepsOfNodes, NotInst, ArmBegun
<1>7. WaitGood
  <2>1. \A q : Waits(n, q) => q \in {EndBlock(e), ElseBegin(e), ThenBegin(e), Inst(e)}
    BY <1>2 DEF Waits
  <2> QED
    BY <1>5, <1>6, <2>1 DEF WaitGood
<1>8. LookGood
  BY <1>2 DEF LookGood, LooksAt
<1>9. NewGood
  <2>1. \A d \in ToFirst(ThenBegin(e), <<e, "then">>) : IsLive(d.dest)
    BY <1>1, FirstWasLive
  <2>2. \A d \in FallThrough(EndBlock(e)) : d.dest = EndBlock(e)
    BY FallThroughGoes
  <2> QED
    BY <1>1, <1>5, <2>1, <2>2 DEF NewGood, Added
<1>10. \A q : IsFirst(q, l) => Good(q)
  BY <1>1, <1>3, FirstGood
<1> QED
  BY <1>2, <1>3, <1>4, <1>7, <1>8, <1>9, <1>10, ClosedGrows

\* A step that is done with an expression, as the invariant sees it.
LEMMA ResumeCloses ==
  ASSUME BaseInv, ClosedInv, KeepsJoins, Next, NEW e \in Exprs, NEW a, Back(e, a),
         Advance \/ \E u \in BOOLEAN : Return(u),
         DuesPaid, NewGood, \A q : Waits(Len(stack), q) => Good(q), NEW p
  PROVE  Good(p)
<1>1. /\ Active /\ pc = "returned" /\ stack # <<>> /\ fn' = fn
      /\ Active'
  BY BackPlace, FunctionStays DEF Active, Advance, Return, BaseInv
<1> PICK n \in Nat : n = Len(stack) /\ n # 0
  BY BackPlace
<1>2. KeepsBelow(n)
  BY <1>1, AdvanceLevels, ReturnLevels
<1>3. LookGood
  BY <1>1 DEF LookGood, LooksAt
<1>4. WaitGood
  BY DEF WaitGood
<1> QED
  BY <1>1, <1>2, <1>3, <1>4, ClosedBelow

\* Linking the end of the list that has returned pays what was due there.
LEMMA AdvancePays ==
  ASSUME BaseInv, NEW e \in Exprs, NEW a, Back(e, a), fn.kind[e] # "Loop",
         LinksEnd => ~BackOfEmpty(ret.list), fn' = fn,
         FallThrough(EndBlock(e)) \subseteq edges', Advance
  PROVE  DuesPaid
<1>1. Active /\ stack # <<>>
  BY BackPlace
<1>2. \A x \in Exprs : IsDue(x) => IsDue(x)' \/ RetDue(x)
  BY <1>1, DueAdvance
<1>3. \A x : RetDue(x) => fn.kind[x] # "Loop" /\ Paid(x)
  BY RetPaid
<1> QED
  BY <1>2, <1>3 DEF DuesPaid

\* An end or a false arm's begin without edges into it.
LEMMA EndNotLive ==
  ASSUME fn' = fn, NEW e, NEW q \in {EndBlock(e), ElseBegin(e)},
         ~HasInEdges(edges', q)
  PROVE  ~IsLive(q)' /\ Good(q)
<1>1. q # InstsNode /\ q # RetFunc /\ \A x : q # Inst(x)
  BY DEF EndBlock, ElseBegin, InstsNode, RetFunc, Inst
<1>2. \A l : ~IsFirst(q, l)'
  BY <1>1 DEF IsFirst, NodeOf
<1>3. ~IsLive(q)'
  BY <1>1, <1>2 DEF IsLive
<1> QED
  BY <1>3 DEF Good

\* One that the expression, by its kind, does not have.
LEMMA NotThere ==
  ASSUME BaseInv, ProperInv, Next, fn' = fn, NEW e,
         NEW q \in {EndBlock(e), ElseBegin(e)},
         q = EndBlock(e) => fn.kind[e] \notin {"Block", "If"},
         q = ElseBegin(e) => fn.kind[e] # "If"
  PROVE  Good(q)
<1>1. q # RetFunc /\ q # Trap
  BY DEF EndBlock, ElseBegin, Trap, RetFunc
<1>2. \A x : q \notin NodesOfKind(x)
  <2>1. \A x : q # Inst(x) /\ q # EndLoop(x) /\ q # ThenBegin(x)
    BY DEF EndBlock, ElseBegin, Inst, EndLoop, ThenBegin
  <2>2. \A x : q = EndBlock(x) => x = e /\ q = EndBlock(e)
    BY DEF EndBlock, ElseBegin
  <2>3. \A x : q = ElseBegin(x) => x = e /\ q = ElseBegin(e)
    BY DEF EndBlock, ElseBegin
  <2> QED
    BY <2>1, <2>2, <2>3 DEF NodesOfKind
<1>3. \A x : NodesOfKind(x)' = NodesOfKind(x)
  BY DEF NodesOfKind
<1>4. ProperInv'
  BY NextProper
<1>5. ~HasInEdges(edges', q)
  BY <1>1, <1>2, <1>3, <1>4 DEF ProperInv, ProperDest, HasInEdges
<1> QED
  BY <1>5, EndNotLive

\* Where the expression is whose list has returned.
LEMMA BackAtTop ==
  ASSUME BaseInv, NEW e \in Exprs, NEW a, Back(e, a)
  PROVE  /\ InBody(fn, e) /\ Holder(fn, e) = Top.list /\ Position(fn, e) = Top.at
         /\ Top.at \in 1..Len(Current) /\ Top.at <= Len(Current)
         /\ Len(Current) \in Nat /\ stack # <<>> /\ Active
<1>1. Top = stack[Len(stack)] /\ Current = fn.list[Top.list]
  BY BackPlace
<1>2. Holder(fn, e) = Top.list /\ Position(fn, e) = Top.at /\ InBody(fn, e)
  BY <1>1, BackPlace
<1>3. stack # <<>> /\ Active
  BY BackPlace
<1>4. Top.at \in 1..Len(Current)
  BY <1>1, BackPlace
<1>5. Len(Current) \in Nat
  BY <1>3, TopIsFrame DEF BaseInv, TypeInv
<1>6. Top.at <= Len(Current)
  BY <1>4, <1>5
<1> QED
  BY <1>2, <1>3, <1>4, <1>5, <1>6

\* The end of a Block or an If, when construct goes on after it.
LEMMA EndGoesOn ==
  ASSUME BaseInv, NEW e \in Exprs, NEW a, Back(e, a), Advance, fn' = fn,
         fn.kind[e] \in {"Block", "If"},
         ToNext(EndBlock(e), Plainly) \subseteq edges'
  PROVE  Good(EndBlock(e))
<1>1. /\ InBody(fn, e) /\ Holder(fn, e) = Top.list /\ Position(fn, e) = Top.at
      /\ Top.at <= Len(Current) /\ stack # <<>> /\ Active
  BY BackAtTop
<1> DEFINE d == CFGEdge(EndBlock(e), View(fn, After(fn, e)), Plainly)
<1>2. Out(EndBlock(e)) = {d}
  <2>1. Step(fn, EndBlock(e)) = {<<After(fn, e), Plainly>>}
    BY StepsOfNodes
  <2> QED
    BY <2>1, OnlyStep
<1>3. d \in LinkOf(e)
  BY DEF LinkOf, EdgesFrom, EdgesFromKind
<1>4. d \in edges' \/ \E x \in Exprs : IsDue(x)' /\ d \in LinkOf(x)
  <2> HIDE DEF d
  <2>1. d = CFGEdge(EndBlock(e), View(fn, After(fn, e)), Plainly) /\ fn.kind[e] # "Loop"
    BY DEF d
  <2> QED
    BY <1>1, <1>3, <2>1, GoesOn
<1> HIDE DEF d
<1> QED
  BY <1>2, <1>4, SettledNow, NotInst

\* Both outcomes of an If have their edges.
LEMMA IfIsSettled ==
  ASSUME fn' = fn, NEW e \in Exprs, fn.kind[e] = "If",
         CFGEdge(Inst(e), ThenBegin(e), OnTrue) \in edges',
         CFGEdge(Inst(e), ElseBegin(e), OnFalse) \in edges'
  PROVE  Good(Inst(e))
<1>1. Step(fn, Inst(e)) = {<<ThenBegin(e), OnTrue>>, <<ElseBegin(e), OnFalse>>}
  BY StepsOfNodes DEF InstSteps, Calls
<1>2. Out(Inst(e)) \subseteq edges'
  BY <1>1, ViewOfNodes DEF Out
<1>3. \A x \in Exprs : ~(Inst(e) = Inst(x) /\ fn.kind[x] \in Calls)
  BY NotInst DEF Calls
<1> QED
  BY <1>2, <1>3, SettledNow

\* An If without a false arm.
LEMMA LeaveIfWithoutElseCloses ==
  ASSUME BaseInv, ClosedInv, KeepsJoins, UnreachInv, StartedInv, Next,
         NEW e \in Exprs, LeaveIfWithoutElse(e), NEW p
  PROVE  Good(p)
<1> PICK l \in Lists : l = <<e, "else">>
  BY ArmsAreLists
<1> DEFINE linked == edges \cup ToFirst(ThenBegin(e), <<e, "then">>)
                       \cup FallThrough(EndBlock(e))
                       \cup {CFGEdge(Inst(e), ElseBegin(e), OnFalse),
                             CFGEdge(ElseBegin(e), EndBlock(e), Plainly)}
<1>1. /\ Back(e, "then") /\ fn' = fn /\ fn.list[l] = <<>> /\ Advance
      /\ LinksEnd => ~BackOfEmpty(ret.list)
      /\ edges' = linked \cup ToNext(EndBlock(e), Plainly)
  <2>1. HasInEdges(linked, EndBlock(e))
    <3>1. /\ CFGEdge(ElseBegin(e), EndBlock(e), Plainly) \in linked
          /\ CFGEdge(ElseBegin(e), EndBlock(e), Plainly).dest = EndBlock(e)
      BY DEF CFGEdge
    <3> HIDE DEF linked
    <3> QED
      BY <3>1 DEF HasInEdges
  <2>2. edges \cup ThenEdges(e) \cup
          {CFGEdge(Inst(e), ElseBegin(e), OnFalse),
           CFGEdge(ElseBegin(e), EndBlock(e), Plainly)} = linked
    BY DEF ThenEdges
  <2>3. ToNextOfJoin(linked, e) = ToNext(EndBlock(e), Plainly)
    BY <2>1 DEF ToNextOfJoin
  <2> HIDE DEF linked
  <2> QED
    BY <2>2, <2>3 DEF LeaveIfWithoutElse
<1> PICK n \in Nat \ {0} : n = Len(stack) /\ e = Pending(n)
  BY <1>1, BackPlace
<1>2. /\ Active /\ n \in Hanging /\ ListAt(n + 1) = <<e, "then">>
      /\ fn.kind[e] = "If" /\ stack # <<>>
  <2>1. <<e, "then">> \in ListsOf(e)
    BY <1>1, BackPlace
  <2>2. fn.kind[e] = "If"
    BY <2>1, ListsByKind
  <2> QED
    BY <1>1, <2>2, BackPlace
<1>3. DuesPaid
  BY <1>1, <1>2, AdvancePays
<1>4. Good(EndBlock(e))
  BY <1>1, <1>2, EndGoesOn
<1>5. Good(ElseBegin(e))
  <2>1. View(fn, EndOf(fn, l)) = EndBlock(e)
    <3>1. l # RootList /\ l[1] = e
      BY ExprsAssumption DEF RootList
    <3> QED
      BY <1>2, <3>1, ViewOfNodes DEF EndOf
  <2>2. Step(fn, ElseBegin(e)) = {<<StartOf(fn, l), Plainly>>}
    BY StepsOfNodes
  <2>3. Out(ElseBegin(e)) = {CFGEdge(ElseBegin(e), EndBlock(e), Plainly)}
    BY <1>1, <2>1, <2>2, OverList
  <2>4. Out(ElseBegin(e)) \subseteq edges'
    BY <1>1, <2>3
  <2> QED
    BY <1>1, <2>4, SettledNow, NotInst
<1>6. Good(ThenBegin(e))
  <2>1. fn.list[<<e, "then">>] # <<>>
    BY <1>1, <1>2, ReturnedHasEnd
  <2> QED
    BY <1>1, <2>1, StepsOfNodes, NotInst, ArmBegun
<1>7. Good(Inst(e))
  <2>1. CFGEdge(Inst(e), ThenBegin(e), OnTrue) \in edges
    BY <1>2 DEF StartedInv, Started
  <2> QED
    BY <1>1, <1>2, <2>1, IfIsSettled
<1>8. \A q : Waits(Len(stack), q) => Good(q)
  <2>1. \A q : Waits(n, q) => q \in {EndBlock(e), ElseBegin(e), ThenBegin(e), Inst(e)}
    BY <1>2 DEF Waits
  <2> QED
    BY <1>4, <1>5, <1>6, <1>7, <2>1
<1>9. NewGood
  <2>1. \A d \in ToFirst(ThenBegin(e), <<e, "then">>) : IsLive(d.dest)
    BY <1>1, FirstWasLive
  <2>2. \A d \in FallThrough(EndBlock(e)) : d.dest = EndBlock(e)
    BY FallThroughGoes
  <2>3. \A d \in ToNext(EndBlock(e), Plainly) : Good(d.dest)
    BY <1>1, <1>2, NextGood
  <2> QED
    BY <1>1, <1>4, <1>5, <2>1, <2>2, <2>3 DEF NewGood, Added, CFGEdge
<1> QED
  BY <1>1, <1>3, <1>8, <1>9, ResumeCloses

\* What both ways to leave a false arm do.
LEMMA ElseArmGood ==
  ASSUME BaseInv, OpenInv, StartedInv, fn' = fn, NEW e \in Exprs, Back(e, "else"),
         edges \subseteq edges', ElseEdges(e) \subseteq edges', Good(EndBlock(e))
  PROVE  /\ fn.kind[e] = "If" /\ Good(ElseBegin(e))
         /\ \A q : Waits(Len(stack), q) => Good(q)
         /\ \A d \in ElseEdges(e) : IsLive(d.dest) \/ Good(d.dest)
<1> PICK n \in Nat \ {0} : n = Len(stack) /\ e = Pending(n)
  BY BackPlace
<1> PICK l \in Lists : l = <<e, "else">>
  BY ArmsAreLists
<1>1. /\ Active /\ n \in Hanging /\ ListAt(n + 1) = l
      /\ fn.kind[e] = "If" /\ n + 1 \in 1..Height
  <2>1. <<e, "else">> \in ListsOf(e)
    BY BackPlace
  <2>2. fn.kind[e] = "If"
    BY <2>1, ListsByKind
  <2> QED
    BY <2>2, BackPlace
<1>2. fn.list[l] # <<>>
  BY <1>1 DEF OpenInv
<1>3. /\ CFGEdge(Inst(e), ElseBegin(e), OnFalse) \in edges'
      /\ ToFirst(ElseBegin(e), l) \subseteq edges'
  BY DEF ElseEdges
<1>4. Good(ElseBegin(e))
  <2>1. Step(fn, ElseBegin(e)) = {<<StartOf(fn, <<e, "else">>), Plainly>>}
    BY StepsOfNodes
  <2>2. \A x \in Exprs : ElseBegin(e) # Inst(x)
    BY NotInst
  <2> QED
    BY <1>2, <1>3, <2>1, <2>2, ArmBegun
<1>5. Good(Inst(e))
  <2>0. Started(e)
    BY <1>1 DEF StartedInv
  <2>1. CFGEdge(Inst(e), ThenBegin(e), OnTrue) \in edges
    BY <1>1, <2>0 DEF Started
  <2>2. CFGEdge(Inst(e), ThenBegin(e), OnTrue) \in edges'
    BY <2>1
  <2> QED
    BY <1>1, <1>3, <2>2, IfIsSettled
<1>6. \A q : Waits(Len(stack), q) => Good(q)
  <2>1. \A q : Waits(n, q) => q \in {EndBlock(e), ElseBegin(e), Inst(e)}
    <3>1. ListAt(n + 1)[2] # "then"
      BY <1>1
    <3> QED
      BY <1>1, <3>1 DEF Waits
  <2> QED
    BY <1>4, <1>5, <2>1
<1>7. \A d \in ElseEdges(e) : IsLive(d.dest) \/ Good(d.dest)
  <2>1. \A d \in ToFirst(ElseBegin(e), <<e, "else">>) : IsLive(d.dest)
    BY FirstWasLive
  <2>2. \A d \in FallThrough(EndBlock(e)) : d.dest = EndBlock(e)
    BY FallThroughGoes
  <2> QED
    BY <1>4, <2>1, <2>2 DEF ElseEdges, CFGEdge
<1> QED
  BY <1>1, <1>4, <1>6, <1>7

\* The join of an If: construct goes on after it, or nothing comes to it.
LEMMA JoinIsGood ==
  ASSUME BaseInv, NEW e \in Exprs, NEW a, Back(e, a), Advance, fn' = fn,
         fn.kind[e] = "If", NEW es, edges' = es \cup ToNextOfJoin(es, e)
  PROVE  Good(EndBlock(e))
<1>1. CASE HasInEdges(es, EndBlock(e))
  <2>1. ToNext(EndBlock(e), Plainly) \subseteq edges'
    BY <1>1 DEF ToNextOfJoin
  <2> QED
    BY <2>1, EndGoesOn
<1>2. CASE ~HasInEdges(es, EndBlock(e))
  <2>1. edges' = es
    BY <1>2 DEF ToNextOfJoin
  <2> QED
    BY <1>2, <2>1, EndNotLive
<1> QED
  BY <1>1, <1>2

\* An If with both arms, one of which comes to its end.
LEMMA LeaveElseCloses ==
  ASSUME BaseInv, ClosedInv, KeepsJoins, OpenInv, StartedInv, Next,
         NEW e \in Exprs, LeaveElse(e), NEW p
  PROVE  Good(p)
<1> DEFINE linked == edges \cup ElseEdges(e)
<1>1. /\ Back(e, "else") /\ fn' = fn /\ Advance
      /\ LinksEnd => ~BackOfEmpty(ret.list)
      /\ edges' = linked \cup ToNextOfJoin(linked, e)
  BY DEF LeaveElse
<1>2. stack # <<>> /\ Active /\ fn.kind[e] = "If"
  <2>1. <<e, "else">> \in ListsOf(e)
    BY <1>1, BackPlace
  <2> QED
    BY <1>1, <2>1, ListsByKind, BackPlace
<1>3. Good(EndBlock(e))
  <2> HIDE DEF linked
  <2> QED
    BY <1>1, <1>2, JoinIsGood
<1>4. DuesPaid
  <2>1. FallThrough(EndBlock(e)) \subseteq edges'
    BY <1>1 DEF ElseEdges
  <2> QED
    BY <1>1, <1>2, <2>1, AdvancePays
<1>5. /\ \A q : Waits(Len(stack), q) => Good(q)
      /\ \A d \in ElseEdges(e) : IsLive(d.dest) \/ Good(d.dest)
  <2>1. ElseEdges(e) \subseteq edges' /\ edges \subseteq edges'
    BY <1>1
  <2> QED
    BY <1>1, <1>3, <2>1, ElseArmGood
<1>6. NewGood
  <2>1. \A d \in ToNext(EndBlock(e), Plainly) : Good(d.dest)
    BY <1>1, <1>2, NextGood
  <2>2. edges' \subseteq edges \cup ElseEdges(e) \cup ToNext(EndBlock(e), Plainly)
    BY <1>1 DEF ToNextOfJoin
  <2> QED
    BY <1>5, <2>1, <2>2 DEF NewGood, Added
<1> QED
  BY <1>1, <1>4, <1>5, <1>6, ResumeCloses

\* An If neither arm of which does: nothing comes to its join.
LEMMA LeaveDeadIfCloses ==
  ASSUME BaseInv, ClosedInv, KeepsJoins, OpenInv, StartedInv, UnreachInv, JoinInv,
         Next, NEW e \in Exprs, LeaveDeadIf(e), NEW p
  PROVE  Good(p)
<1>1. /\ Back(e, "else") /\ fn' = fn /\ Return(TRUE)
      /\ Top.thenUnreachable /\ ret.unreachable
      /\ edges' = edges \cup ElseEdges(e)
  BY DEF LeaveDeadIf
<1>2. stack # <<>> /\ Active /\ fn.kind[e] = "If"
  <2>1. <<e, "else">> \in ListsOf(e)
    BY <1>1, BackPlace
  <2> QED
    BY <1>1, <2>1, ListsByKind, BackPlace
<1>3. ~HasInEdges(edges', EndBlock(e))
  <2>1. ~HasInEdges(edges, EndBlock(e))
    BY <1>1, DeadJoinIsLost
  <2>2. FallThrough(EndBlock(e)) = {}
    BY <1>1 DEF FallThrough
  <2>3. \A d \in ToFirst(ElseBegin(e), <<e, "else">>) : d.dest # EndBlock(e)
    BY DEF ToFirst, CFGEdge, NodeOf, Inst, RetFunc, EndBlock
  <2>4. CFGEdge(Inst(e), ElseBegin(e), OnFalse).dest # EndBlock(e)
    BY DEF CFGEdge, ElseBegin, EndBlock
  <2> QED
    BY <1>1, <2>1, <2>2, <2>3, <2>4 DEF ElseEdges, HasInEdges
<1>4. Good(EndBlock(e)) /\ ~IsLive(EndBlock(e))'
  BY <1>1, <1>3, EndNotLive
<1>5. DuesPaid
  <2>1. \A x : ~RetDue(x)
    BY <1>1 DEF RetDue
  <2>2. \A x \in Exprs : IsDue(x) => IsDue(x)' \/ TopDue(x)
    BY <1>1, <1>2, <2>1, DueReturn
  <2>3. ASSUME NEW x \in Exprs, TopDue(x)
        PROVE  fn.kind[x] # "Loop" /\ Paid(x)
    <3>1. Top.at >= Len(Current) /\ x = DueOf(Top.list)
      BY <2>3 DEF TopDue
    <3>2. IsLastOfList(fn, e)
      <4>1. /\ Top.at \in 1..Len(Current) /\ Len(Current) \in Nat
            /\ Holder(fn, e) = Top.list /\ Position(fn, e) = Top.at
        BY <1>1, BackAtTop
      <4>2. Top.at = Len(Current)
        BY <3>1, <4>1
      <4> QED
        BY <4>1, <4>2 DEF IsLastOfList, Current
    <3>3. x = e
      BY <1>1, <1>2, <3>1, <3>2, BackAtTop, DueOfLast
    <3>4. LinkOf(e) = {CFGEdge(EndBlock(e), View(fn, After(fn, e)), Plainly)}
      BY <1>2 DEF LinkOf, EdgesFrom, EdgesFromKind
    <3>5. Paid(e)
      BY <1>4, <3>4 DEF Paid, CFGEdge
    <3> QED
      BY <1>2, <3>3, <3>5
  <2> QED
    BY <2>2, <2>3 DEF DuesPaid
<1>6. /\ \A q : Waits(Len(stack), q) => Good(q)
      /\ \A d \in ElseEdges(e) : IsLive(d.dest) \/ Good(d.dest)
  <2>1. ElseEdges(e) \subseteq edges' /\ edges \subseteq edges'
    BY <1>1
  <2> QED
    BY <1>1, <1>4, <2>1, ElseArmGood
<1>7. NewGood
  BY <1>1, <1>6 DEF NewGood, Added
<1> QED
  BY <1>1, <1>5, <1>6, <1>7, ResumeCloses

\* What a Block or Loop waits for when its body has returned.
LEMMA BodyWaits ==
  ASSUME BaseInv, ProperInv, Next, fn' = fn, NEW e \in Exprs, Back(e, "body"),
         fn.kind[e] = "Loop" \/ Good(EndBlock(e)),
         fn.list[<<e, "body">>] # <<>>
  PROVE  \A q : Waits(Len(stack), q) => Good(q)
<1> PICK n \in Nat \ {0} : n = Len(stack) /\ e = Pending(n)
  BY BackPlace
<1> PICK l \in Lists : l = <<e, "body">>
  BY ArmsAreLists
<1>1. ListAt(n + 1) = l /\ l[2] # "then"
  BY BackPlace
<1>2. fn.kind[e] \in {"Block", "Loop"}
  <2>1. <<e, "body">> \in ListsOf(e)
    BY BackPlace
  <2> QED
    BY <2>1, ListsByKind
<1>3. Good(ElseBegin(e))
  BY <1>2, NotThere DEF EndBlock, ElseBegin
<1>4. Good(EndBlock(e))
  <2>1. EndBlock(e) # ElseBegin(e)
    BY DEF EndBlock, ElseBegin
  <2>2. fn.kind[e] = "Loop" => Good(EndBlock(e))
    BY <2>1, NotThere
  <2> QED
    BY <2>2
<1>5. \A q : Waits(n, q) => q \in {EndBlock(e), ElseBegin(e)}
  BY <1>1 DEF Waits
<1> QED
  BY <1>3, <1>4, <1>5

\* A Block whose end control can come to.
LEMMA LeaveBlockCloses ==
  ASSUME BaseInv, ClosedInv, KeepsJoins, UnreachInv, ProperInv, Next,
         NEW e \in Exprs, LeaveBlock(e), NEW p
  PROVE  Good(p)
<1>1. /\ Back(e, "body") /\ fn.kind[e] = "Block" /\ fn' = fn /\ Advance
      /\ LinksEnd => ~BackOfEmpty(ret.list)
      /\ edges' = edges \cup FallThrough(EndBlock(e)) \cup ToNext(EndBlock(e), Plainly)
  BY DEF LeaveBlock
<1>2. stack # <<>> /\ Active
  BY <1>1, BackPlace
<1>3. Good(EndBlock(e))
  BY <1>1, EndGoesOn
<1>4. DuesPaid
  BY <1>1, AdvancePays
<1>5. \A q : Waits(Len(stack), q) => Good(q)
  <2>1. fn.list[<<e, "body">>] # <<>>
    BY <1>1, ReturnedHasEnd
  <2> QED
    BY <1>1, <1>3, <2>1, BodyWaits
<1>6. NewGood
  <2>1. \A d \in ToNext(EndBlock(e), Plainly) : Good(d.dest)
    BY <1>1, <1>2, NextGood
  <2>2. \A d \in FallThrough(EndBlock(e)) : d.dest = EndBlock(e)
    BY FallThroughGoes
  <2> QED
    BY <1>1, <1>3, <2>1, <2>2 DEF NewGood, Added
<1> QED
  BY <1>1, <1>4, <1>5, <1>6, ResumeCloses

\* A Block whose end it cannot come to.
LEMMA LeaveDeadBlockCloses ==
  ASSUME BaseInv, ClosedInv, KeepsJoins, UnreachInv, ProperInv, Next,
         NEW e \in Exprs, LeaveDeadBlock(e), NEW p
  PROVE  Good(p)
<1>1. /\ Back(e, "body") /\ fn.kind[e] = "Block" /\ fn' = fn /\ Return(FALSE)
      /\ LinksEnd => ~BackOfEmpty(ret.list)
      /\ edges' = edges \cup FallThrough(EndBlock(e))
      /\ ~HasInEdges(edges', EndBlock(e))
  BY DEF LeaveDeadBlock
<1>2. stack # <<>> /\ Active
  BY <1>1, BackPlace
<1>3. Good(EndBlock(e))
  BY <1>1, EndNotLive
<1>4. DuesPaid
  <2>1. \A x \in Exprs : IsDue(x) => IsDue(x)' \/ RetDue(x)
    BY <1>1, <1>2, DueReturn
  <2>2. \A x : RetDue(x) => fn.kind[x] # "Loop" /\ Paid(x)
    BY <1>1, RetPaid
  <2> QED
    BY <2>1, <2>2 DEF DuesPaid
<1>5. \A q : Waits(Len(stack), q) => Good(q)
  <2>1. fn.list[<<e, "body">>] # <<>>
    BY <1>1, ReturnedHasEnd
  <2> QED
    BY <1>1, <1>3, <2>1, BodyWaits
<1>6. NewGood
  <2>1. \A d \in FallThrough(EndBlock(e)) : d.dest = EndBlock(e)
    BY FallThroughGoes
  <2> QED
    BY <1>1, <1>3, <2>1 DEF NewGood, Added
<1> QED
  BY <1>1, <1>4, <1>5, <1>6, ResumeCloses

\* A Loop.
LEMMA LeaveLoopCloses ==
  ASSUME BaseInv, ClosedInv, KeepsJoins, ProperInv, Next,
         NEW e \in Exprs, LeaveLoop(e), NEW p
  PROVE  Good(p)
<1> PICK l \in Lists : l = <<e, "body">>
  BY ArmsAreLists
<1>1. /\ Back(e, "body") /\ fn.kind[e] = "Loop" /\ fn' = fn /\ Advance
      /\ LinksEnd => ~BackOfEmpty(l)
      /\ edges' = edges \cup IF Top.at < Len(Current)
                             THEN insertEdgeFromLastExpr(l, EndLoop(e))
                                    \cup ToNext(EndLoop(e), Plainly)
                             ELSE {}
  BY DEF LeaveLoop, Back
<1>2. /\ stack # <<>> /\ Active /\ ret.list = l /\ InBody(fn, e)
      /\ Holder(fn, e) = Top.list /\ Position(fn, e) = Top.at
      /\ Top.at \in 1..Len(Current) /\ Len(Current) \in Nat
      /\ Top.at <= Len(Current)
  BY <1>1, BackAtTop DEF Back
<1>3. Top.at < Len(Current) => ~BackOfEmpty(l) /\ fn.list[l] # <<>>
  <2>1. LinksEnd <=> Top.at < Len(Current)
    BY <1>1, <1>2 DEF LinksEnd
  <2> QED
    BY <1>1, <2>1 DEF BackOfEmpty
<1>4. IsLastOfList(fn, e) <=> Top.at = Len(Current)
  BY <1>2 DEF IsLastOfList, Current
<1>5. DuesPaid
  <2>1. \A x \in Exprs : IsDue(x) => IsDue(x)' \/ RetDue(x)
    BY <1>1, <1>2, DueAdvance
  <2>2. ASSUME NEW x \in Exprs, RetDue(x), Top.at < Len(Current)
        PROVE  fn.kind[x] # "Loop" /\ Paid(x)
    <3>1. x = DueOf(l) /\ fn.list[l] # <<>>
      BY <1>2, <2>2 DEF RetDue, OpenEnd
    <3>2. fn.kind[x] # "Loop"
      BY <1>3, <2>2, <3>1 DEF BackOfEmpty, DueOf
    <3>3. View(fn, EndOf(fn, l)) = EndLoop(e)
      <4>1. l # RootList /\ l[1] = e
        BY ExprsAssumption DEF RootList
      <4>2. EndOf(fn, l) = EndLoop(e)
        BY <1>1, <4>1 DEF EndOf
      <4>3. ~IsLastOfList(fn, e)
        BY <1>2, <1>4, <2>2
      <4> QED
        BY <4>2, <4>3, ViewOfNodes
    <3>4. LinkOf(x) = insertEdgeFromLastExpr(l, EndLoop(e))
      BY <3>1, <3>3, LinkPays
    <3>5. LinkOf(x) \subseteq edges'
      BY <1>1, <2>2, <3>4
    <3> QED
      BY <3>2, <3>5 DEF Paid
  <2>3. ASSUME NEW x \in Exprs, RetDue(x), Top.at = Len(Current)
        PROVE  IsDue(x)'
    <3>1. x = DueOf(l) /\ fn.list[l] # <<>>
      BY <1>2, <2>3 DEF RetDue, OpenEnd
    <3>2. DueOf(Top.list) = x
      BY <1>1, <1>2, <1>4, <2>3, <3>1, DueOfLast
    <3> QED
      BY <1>1, <1>2, <2>3, <3>2, TopIsDue
  <2>4. Top.at < Len(Current) \/ Top.at = Len(Current)
    BY <1>2
  <2> QED
    BY <2>1, <2>2, <2>3, <2>4 DEF DuesPaid
<1>6. \A q : Waits(Len(stack), q) => Good(q)
  <2>1. CASE fn.list[l] # <<>>
    BY <1>1, <2>1, BodyWaits
  <2>2. CASE fn.list[l] = <<>>
    <3>1. Top.at = Len(Current)
      BY <1>2, <1>3, <2>2
    <3>2. IsDue(e)' /\ Good(Inst(e))
      <4>1. DueOf(Top.list) = e
        BY <1>1, <1>2, <1>4, <2>2, <3>1, DueOfLast
      <4>2. IsDue(e)'
        BY <1>1, <1>2, <3>1, <4>1, TopIsDue
      <4> QED
        BY <1>1, <4>2 DEF Good, Busy
    <3>3. Good(EndBlock(e)) /\ Good(ElseBegin(e))
      <4>1. EndBlock(e) # ElseBegin(e)
        BY DEF EndBlock, ElseBegin
      <4> QED
        BY <1>1, <4>1, NotThere
    <3> PICK n \in Nat \ {0} : n = Len(stack) /\ e = Pending(n)
      BY <1>1, BackPlace
    <3>4. ListAt(n + 1) = l /\ l[2] # "then"
      BY <1>1, BackPlace
    <3>5. \A q : Waits(n, q) => q \in {EndBlock(e), ElseBegin(e), Inst(e)}
      BY <1>4, <3>1, <3>4 DEF Waits
    <3> QED
      BY <3>2, <3>3, <3>5
  <2> QED
    BY <2>1, <2>2
<1>7. NewGood
  <2>1. \A d \in ToNext(EndLoop(e), Plainly) : Good(d.dest)
    BY <1>1, <1>2, NextGood
  <2>2. \A d \in insertEdgeFromLastExpr(l, EndLoop(e)) : d.dest = EndLoop(e)
    BY LastEdgesGo
  <2>3. CASE Top.at < Len(Current)
    <3>1. ToNext(EndLoop(e), Plainly) =
            {CFGEdge(EndLoop(e), View(fn, After(fn, e)), Plainly)}
      <4>1. ~IsLastOfList(fn, e)
        BY <1>2, <1>4, <2>3
      <4> QED
        BY <1>2, <4>1, ToFollowing
    <3>2. Out(EndLoop(e)) = ToNext(EndLoop(e), Plainly)
      <4>1. Step(fn, EndLoop(e)) = {<<After(fn, e), Plainly>>}
        BY StepsOfNodes
      <4> QED
        BY <3>1, <4>1, OnlyStep
    <3>3. Out(EndLoop(e)) \subseteq edges'
      BY <1>1, <2>3, <3>2
    <3>4. Good(EndLoop(e))
      BY <1>1, <3>3, SettledNow, NotInst
    <3> QED
      BY <1>1, <2>1, <2>2, <2>3, <3>4 DEF NewGood, Added
  <2>4. CASE ~(Top.at < Len(Current))
    BY <1>1, <2>4 DEF NewGood, Added
  <2> QED
    BY <2>3, <2>4
<1> QED
  BY <1>1, <1>5, <1>6, <1>7, ResumeCloses

-----------------------------------------------------------------------------
(* The first step and the last one. *)

\* The entry of the function.
LEMMA BeginCloses ==
  ASSUME BaseInv, Next, BeginFunction, NEW p
  PROVE  Good(p)
<1> PICK l \in Lists : l = RootList
  BY RootIsList
<1>1. pc = "start" /\ fn' = fn /\ stack = <<>>
  BY DEF BeginFunction, BaseInv, NestInv
<1>2. Step(fn, InstsNode) = {<<StartOf(fn, l), Plainly>>}
  BY StepsOfNodes
<1> SUFFICES ASSUME IsLive(p)' PROVE Good(p)
  BY DEF Good
<1>3. CASE fn.list[l] = <<>>
  <2>1. edges' = {CFGEdge(InstsNode, RetFunc, Plainly)} /\ pc' = "done"
    BY <1>3 DEF BeginFunction
  <2>2. View(fn, EndOf(fn, l)) = RetFunc
    BY ViewOfNodes DEF EndOf
  <2>3. Out(InstsNode) = edges'
    BY <1>2, <1>3, <2>1, <2>2, OverList
  <2>4. Good(InstsNode)
    BY <1>1, <2>3, SettledNow, NotInst
  <2>5. p = InstsNode \/ p = RetFunc
    BY <2>1 DEF IsLive, Active, HasInEdges, CFGEdge
  <2> QED
    BY <1>1, <2>4, <2>5, EndsAreGood
<1>4. CASE fn.list[l] # <<>>
  <2>1. edges' = ToFirst(InstsNode, l) /\ Call(l)
    BY <1>4 DEF BeginFunction
  <2>2. stack' = <<Frame(l)>> /\ pc' = "construct"
    BY <1>1, <2>1 DEF Call
  <2>3. Good(InstsNode)
    BY <1>1, <1>2, <1>4, <2>1, IntoList, SettledNow, NotInst
  <2>4. \A q : IsFirst(q, l) => Good(q)
    <3>1. Last(stack') = Frame(l)
      BY <2>2 DEF Last
    <3> QED
      BY <1>1, <2>2, <3>1, FirstGood
  <2>5. HasInEdges(edges', p) => IsFirst(p, l)
    BY <2>1 DEF HasInEdges, ToFirst, IsFirst, CFGEdge
  <2>6. ASSUME NEW k \in 1..1, IsFirst(p, ListAt(k))'
        PROVE  IsFirst(p, l)
    <3>1. ListAt(k)' = l
      BY <2>2 DEF ListAt, Frame
    <3> QED
      BY <1>1, <2>6, <3>1 DEF IsFirst
  <2>7. Height' = 1
    BY <2>2 DEF Height
  <2>8. p = InstsNode \/ IsFirst(p, l)
    BY <2>5, <2>6, <2>7 DEF IsLive
  <2> QED
    BY <2>3, <2>4, <2>8
<1> QED
  BY <1>3, <1>4

\* The end of the function: all that was due is paid.
LEMMA FinishCloses ==
  ASSUME BaseInv, ClosedInv, KeepsJoins, Next, FinishFunction, NEW p
  PROVE  Good(p)
<1>1. /\ pc = "returned" /\ Active /\ stack = <<>> /\ fn' = fn /\ cg' = cg
      /\ pc' = "done" /\ ~Active' /\ edges \subseteq edges'
      /\ LinksEnd => ~BackOfEmpty(ret.list)
  BY DEF FinishFunction, Active
<1> PICK l \in Lists : l = RootList
  BY RootIsList
<1>2. ret.list = l
  BY <1>1, NestInvSuffices DEF BaseInv, ActivationsNest
<1>3. LinksEnd <=> ~ret.unreachable
  <2>1. \A e \in Exprs : ret.list # <<e, "body">>
    BY <1>2 DEF RootList
  <2> QED
    BY <2>1 DEF LinksEnd
<1>4. ~ret.unreachable => insertEdgeFromLastExpr(l, RetFunc) \subseteq edges'
  BY <1>2 DEF FinishFunction, FallThrough
<1>5. \A d \in edges' : d \in edges \/ d.dest = RetFunc
  <2>1. \A d \in FallThrough(RetFunc) : d.dest = RetFunc
    BY FallThroughGoes
  <2> QED
    BY <2>1 DEF FinishFunction, CFGEdge
<1>6. \A k \in 1..Len(stack) : FALSE
  BY <1>1
<1>7. ASSUME NEW x, IsDue(x)
      PROVE  /\ ~ret.unreachable /\ x = DueOf(l) /\ fn.list[l] # <<>>
             /\ fn.kind[x] # "Loop"
  <2>1. ~ret.unreachable /\ x = DueOf(l) /\ fn.list[l] # <<>>
    BY <1>2, <1>6, <1>7 DEF IsDue, OpenEnd
  <2> QED
    BY <1>1, <1>2, <1>3, <2>1 DEF BackOfEmpty, DueOf
<1>8. ASSUME NEW x, IsDue(x)
      PROVE  LinkOf(x) \subseteq edges'
  <2>1. ~ret.unreachable /\ x = DueOf(l) /\ fn.list[l] # <<>>
    BY <1>7, <1>8
  <2>2. View(fn, EndOf(fn, l)) = RetFunc
    BY ViewOfNodes DEF EndOf
  <2> QED
    BY <1>4, <2>1, <2>2, LinkPays
<1> SUFFICES ASSUME IsLive(p)' PROVE Good(p)
  BY DEF Good
<1>9. CASE p = RetFunc
  BY <1>1, <1>9, EndsAreGood
<1>10. CASE p # RetFunc
  <2>1. IsLive(p)
    BY <1>1, <1>5, <1>10 DEF IsLive, HasInEdges
  <2>2. ~Busy(p)
    <3>1. Hanging = {}
      BY <1>6 DEF Hanging
    <3>2. ~LooksAt(p)
      BY <1>1 DEF LooksAt
    <3> QED
      BY <1>7, <3>1, <3>2 DEF Busy
  <2>3. Settled(p)
    BY <1>1, <2>1, <2>2 DEF ClosedInv
  <2>4. \A d \in Out(p) : d \in edges'
    BY <1>1, <1>8, <2>3 DEF Settled, Owed
  <2>5. \A x \in Exprs : p = Inst(x) /\ fn.kind[x] \in Calls =>
                           {p} \X fn.callees[x] \subseteq cg'
    BY <1>1, <2>3 DEF Settled
  <2> QED
    BY <1>1, <2>4, <2>5, SettledNow
<1> QED
  BY <1>9, <1>10

-----------------------------------------------------------------------------
(* The invariant. *)

\* ClosedInv holds before the first step.
LEMMA InitClosed == Init => ClosedInv
<1>1. Init => pc = "start"
  BY DEF Init, Start
<1> QED
  BY <1>1 DEF ClosedInv, Active

\* All that the invariant rests on.
AllInv ==
  /\ BaseInv /\ OpenInv /\ ProperInv /\ OrderInv
  /\ UnreachInv /\ JoinInv /\ StartedInv /\ ClosedInv

\* After every step, all nodes are good.
LEMMA NextCloses ==
  ASSUME AllInv, KeepsJoins, Next, ~Dies, NEW p
  PROVE  Good(p)
<1> USE DEF AllInv
<1>1. CASE BeginFunction
  BY <1>1, BeginCloses
<1>2. CASE EndOfList
  BY <1>2, EndOfListCloses
<1>3. CASE FinishFunction
  BY <1>3, FinishCloses
<1>4. ASSUME NEW e \in Exprs,
             \/ VisitReturn(e) \/ VisitUnreachable(e)
             \/ VisitBr(e) \/ VisitBrIf(e) \/ VisitBrTable(e)
             \/ VisitCall(e) \/ VisitDefault(e)
      PROVE  Good(p)
  BY <1>4, VisitReturnCloses, VisitUnreachableCloses, VisitBrCloses,
     VisitBrIfCloses, VisitBrTableCloses, VisitCloses
<1>5. ASSUME NEW e \in Exprs, EnterBlock(e) \/ EnterLoop(e) \/ EnterIf(e)
      PROVE  Good(p)
  BY <1>5, EnterBlockCloses, EnterLoopCloses, EnterIfCloses
<1>6. ASSUME NEW e \in Exprs,
             \/ LeaveBlock(e) \/ LeaveDeadBlock(e) \/ LeaveLoop(e)
             \/ EnterElse(e) \/ LeaveIfWithoutElse(e) \/ LeaveElse(e)
             \/ LeaveDeadIf(e)
      PROVE  Good(p)
  BY <1>6, LeaveBlockCloses, LeaveDeadBlockCloses, LeaveLoopCloses,
     EnterElseCloses, LeaveIfWithoutElseCloses, LeaveElseCloses, LeaveDeadIfCloses
<1> QED
  BY <1>1, <1>2, <1>3, <1>4, <1>5, <1>6 DEF Next, Dies

\* ClosedInv is inductive, given the invariants before it.
LEMMA NextClosed == AllInv /\ [Next]_vars => ClosedInv'
<1> SUFFICES ASSUME AllInv, [Next]_vars PROVE ClosedInv'
  OBVIOUS
<1>1. CASE UNCHANGED vars
  <2>1. /\ Active' = Active /\ pc' = pc /\ KeepsJoins' = KeepsJoins
    BY <1>1 DEF vars, Active, KeepsJoins
  <2>2. \A p : IsLive(p)' = IsLive(p)
    BY <1>1 DEF vars, Active, IsLive, Height, ListAt, IsFirst, HasInEdges
  <2>3. \A x : IsDue(x)' = IsDue(x)
    BY <1>1 DEF vars, Active, IsDue, OpenEnd, DueOf, LastExpr
  <2>4. \A p : \A k : Waits(k, p)' = Waits(k, p)
    BY <1>1 DEF vars, Waits, Pending, ListAt
  <2>5. Hanging' = Hanging /\ \A p : LooksAt(p)' = LooksAt(p)
    BY <1>1 DEF vars, Hanging, LooksAt, Top, Current
  <2>6. \A p : Busy(p)' = Busy(p)
    BY <1>1, <2>1, <2>3, <2>4, <2>5 DEF Busy, vars
  <2>7. \A x : LinkOf(x)' = LinkOf(x)
    BY <1>1 DEF vars, LinkOf, EdgesFrom, EdgesFromKind
  <2>8. \A p : Settled(p)' = Settled(p)
    BY <1>1, <2>3, <2>7 DEF vars, Settled, Owed, Out
  <2> QED
    BY <2>1, <2>2, <2>6, <2>8 DEF ClosedInv, AllInv
<1>2. CASE Dies
  <2>1. pc' = "crashed"
    BY <1>2 DEF Dies, LinkEmptyList, VisitUnboundBranch, Crash
  <2> QED
    BY <2>1 DEF ClosedInv, Active
<1>3. CASE Next /\ ~Dies
  <2>1. KeepsJoins' = KeepsJoins
    <3>1. fn' = fn
      BY <1>3, FunctionStays DEF AllInv, BaseInv
    <3> QED
      BY <3>1 DEF KeepsJoins
  <2>2. KeepsJoins => \A p : Good(p)
    BY <1>3, NextCloses
  <2> QED
    BY <2>1, <2>2 DEF ClosedInv, Good
<1> QED
  BY <1>1, <1>2, <1>3

\* All of it holds before the first step.
LEMMA InitAll == Init => AllInv
BY InitBase, InitOpen, InitProper, InitOrder, InitUnreach, InitJoins, InitStarted,
   InitClosed DEF AllInv

\* And no step breaks it.
LEMMA NextAll == AllInv /\ [Next]_vars => AllInv'
BY NextBase, NextOpen, NextProper, NextOrder, NextUnreach, NextJoins, NextStarted,
   NextClosed DEF AllInv

-----------------------------------------------------------------------------
(* Where an execution can be. *)

\* The control points of an expression.
NodesOfBody(x) == {q \in {Inst(x)} : fn.kind[x] # "Return"} \cup
                  {EndBlock(x), ThenBegin(x), ElseBegin(x), EndLoop(x)}

\* A control point of the function.
IsPoint(q) == q \in {InstsNode, RetFunc, Trap} \/ \E x \in Body(fn) : q \in NodesOfBody(x)

\* The innermost expression that declares a label is in the body.
LEMMA BinderInBody ==
  ASSUME IsBody(fn), NEW t
  PROVE  \A x \in Body(fn) : Binder(fn, x, t) = 0 \/ Binder(fn, x, t) \in Body(fn)
<1> DEFINE D == Body(fn)
           T == {x \in D : Binder(fn, x, t) = 0 \/ Binder(fn, x, t) \in D}
           r == [x \in D |-> x]
<1>1. r \in [D -> Nat]
  BY ExprsAssumption DEF Body
<1>2. ASSUME NEW x \in D, \A c \in D : r[c] < r[x] => c \in T
      PROVE  x \in T
  <2> DEFINE o == Holder(fn, x)[1]
  <2>1. Binder(fn, x, t) = IF o = 0 \/ fn.label[o] = t THEN o ELSE Binder(fn, o, t)
    BY BinderUnfolds
  <2>2. o # 0 => o \in D /\ o < x
    BY OwnerOf
  <2> HIDE DEF o, D
  <2>3. o # 0 => o \in T
    BY <1>2, <2>2
  <2> QED
    BY <2>1, <2>2, <2>3
<1>3. D \subseteq T
  <2> HIDE DEF r, T, D
  <2> QED
    BY <1>1, <1>2, RankInduction
<1> QED
  BY <1>3

\* The node of an expression.
LEMMA PlaceIsPoint ==
  ASSUME IsBody(fn), NEW x \in Body(fn)
  PROVE  IsPoint(NodeOf(fn, x))
BY DEF IsPoint, NodeOf, NodesOfBody

\* The end of a list that an expression of the body has.
LEMMA EndIsPoint ==
  ASSUME IsBody(fn), NEW l \in Lists, l = RootList \/ l[1] \in Body(fn)
  PROVE  IsPoint(EndOf(fn, l))
BY DEF IsPoint, EndOf, NodesOfBody

\* The start of such a list.
LEMMA StartIsPoint ==
  ASSUME IsBody(fn), NEW l \in Lists, l = RootList \/ l[1] \in Body(fn)
  PROVE  IsPoint(StartOf(fn, l))
<1>1. CASE fn.list[l] = <<>>
  BY <1>1, EndIsPoint DEF StartOf
<1>2. CASE fn.list[l] # <<>>
  <2>1. 1 \in 1..Len(fn.list[l])
    BY <1>2, BodyParts, EmptySeq
  <2>2. fn.list[l][1] \in Body(fn)
    BY <2>1, HolderIs, BodyParts DEF Body
  <2> QED
    BY <1>2, <2>2, PlaceIsPoint DEF StartOf
<1> QED
  BY <1>1, <1>2

\* What follows an expression.
LEMMA AfterIsPoint ==
  ASSUME IsBody(fn), NEW x \in Body(fn)
  PROVE  IsPoint(After(fn, x))
<1> DEFINE l == Holder(fn, x)
           i == Position(fn, x)
<1>1. /\ l \in Lists /\ i \in 1..Len(fn.list[l]) /\ Len(fn.list[l]) \in Nat
      /\ fn.list[l] # <<>>
  <2>1. l \in Lists /\ i \in 1..Len(fn.list[l])
    BY HolderOf DEF Body
  <2>2. fn.list[l] \in Seq(Exprs)
    BY <2>1, BodyParts
  <2> HIDE DEF l, i
  <2> QED
    BY <2>1, <2>2, EmptySeq
<1>2. CASE IsLastOfList(fn, x)
  <2>1. l = RootList \/ l[1] \in Body(fn)
    BY <1>1, OwnerInBody
  <2> QED
    BY <1>1, <1>2, <2>1, EndIsPoint DEF After
<1>3. CASE ~IsLastOfList(fn, x)
  <2> PICK j \in 1..Len(fn.list[l]) : j = i + 1
    BY <1>1, <1>3 DEF IsLastOfList
  <2>1. NextOf(fn, x) = fn.list[l][j]
    BY DEF NextOf
  <2>2. NextOf(fn, x) \in Body(fn)
    BY <1>1, <2>1, HolderIs, BodyParts DEF Body
  <2> QED
    BY <1>3, <2>2, PlaceIsPoint DEF After
<1> QED
  BY <1>2, <1>3

\* The target of a branch.
LEMMA BranchIsPoint ==
  ASSUME IsBody(fn), NEW x \in Body(fn), NEW t
  PROVE  IsPoint(BranchTo(fn, x, t))
<1> DEFINE b == Binder(fn, x, t)
<1>1. b = 0 \/ b \in Body(fn)
  BY BinderInBody
<1> HIDE DEF b
<1>2. BranchTo(fn, x, t) = IF b = 0 THEN RetFunc
                           ELSE IF fn.kind[b] = "Loop" THEN Inst(b) ELSE EndBlock(b)
  BY DEF BranchTo, b
<1> QED
  BY <1>1, <1>2 DEF IsPoint, NodesOfBody

\* A step leads from a control point to a control point.
LEMMA StepIsPoint ==
  ASSUME IsBody(fn), NEW p, IsPoint(p), NEW s \in Step(fn, p)
  PROVE  IsPoint(s[1])
<1>1. CASE p = InstsNode
  <2>1. s = <<StartOf(fn, RootList), Plainly>>
    BY <1>1, StepsOfNodes
  <2> QED
    BY <2>1, RootIsList, StartIsPoint
<1>2. CASE p \in {RetFunc, Trap}
  BY <1>2, StepsOfNodes
<1>3. ASSUME NEW x \in Body(fn), p \in NodesOfBody(x)
      PROVE  IsPoint(s[1])
  <2>0. x \in Exprs
    BY DEF Body
  <2>1. CASE p \in {EndBlock(x), EndLoop(x)}
    <3>1. s = <<After(fn, x), Plainly>>
      BY ZenonT(60), <2>1, StepsOfNodes
    <3> QED
      BY <3>1, AfterIsPoint
  <2>2. ASSUME NEW a \in {"body", "then", "else"},
               s = <<StartOf(fn, <<x, a>>), Plainly>>
        PROVE  IsPoint(s[1])
    <3>1. <<x, a>> \in Lists
      BY <2>0, ArmsAreLists
    <3>2. <<x, a>>[1] \in Body(fn)
      OBVIOUS
    <3> QED
      BY <2>2, <3>1, <3>2, StartIsPoint
  <2>3. CASE p = ThenBegin(x)
    BY <2>2, <2>3, StepsOfNodes
  <2>4. CASE p = ElseBegin(x)
    BY <2>2, <2>4, StepsOfNodes
  <2>5. CASE p = Inst(x) /\ fn.kind[x] # "Return"
    <3>1. s \in InstSteps(fn, x)
      BY <2>5, StepsOfNodes
    <3>2. fn.kind[x] \in Kinds
      BY <2>0, BodyParts
    <3>3. CASE fn.kind[x] \in {"Plain"} \cup Calls
      <4>1. InstSteps(fn, x) = {<<After(fn, x), Plainly>>}
        BY <3>3 DEF InstSteps, Calls
      <4>2. s = <<After(fn, x), Plainly>>
        BY <3>1, <4>1
      <4> QED
        BY <4>2, AfterIsPoint
    <3>4. CASE fn.kind[x] = "Unreachable"
      <4>1. s = <<Trap, Plainly>>
        BY <3>1, <3>4 DEF InstSteps, Calls
      <4> QED
        BY <4>1 DEF IsPoint
    <3>5. CASE fn.kind[x] = "Br"
      <4>1. s = <<BranchTo(fn, x, fn.targets[x][1]), Plainly>>
        BY <3>1, <3>5 DEF InstSteps, Calls
      <4> QED
        BY <4>1, BranchIsPoint
    <3>6. CASE fn.kind[x] = "BrIf"
      <4>1. \/ s = <<BranchTo(fn, x, fn.targets[x][1]), OnTrue>>
            \/ s = <<After(fn, x), OnFalse>>
        BY <3>1, <3>6 DEF InstSteps, Calls
      <4> QED
        BY <4>1, BranchIsPoint, AfterIsPoint
    <3>7. CASE fn.kind[x] = "BrTable"
      <4>1. \E i : s[1] = BranchTo(fn, x, fn.targets[x][i])
        BY <3>1, <3>7 DEF InstSteps, Calls
      <4> QED
        BY <4>1, BranchIsPoint
    <3>8. CASE fn.kind[x] \in {"Block", "Loop"}
      <4>1. s = <<StartOf(fn, <<x, "body">>), Plainly>>
        BY <3>1, <3>8 DEF InstSteps, Calls
      <4> QED
        BY <2>2, <4>1
    <3>9. CASE fn.kind[x] = "If"
      <4>1. \/ s = <<ThenBegin(x), OnTrue>>
            \/ s = <<ElseBegin(x), OnFalse>>
        BY <3>1, <3>9 DEF InstSteps, Calls
      <4> QED
        BY <4>1 DEF IsPoint, NodesOfBody
    <3> QED
      BY <2>5, <3>2, <3>3, <3>4, <3>5, <3>6, <3>7, <3>8, <3>9
      DEF Kinds, Structured, Branches, Calls
  <2> QED
    BY <1>3, <2>1, <2>3, <2>4, <2>5 DEF NodesOfBody
<1> QED
  BY <1>1, <1>2, <1>3 DEF IsPoint

\* Control at the end of a loop that ends its list is where the loop leads.
LEMMA HiddenStep ==
  ASSUME IsBody(fn), NEW p, IsPoint(p), View(fn, p) # p, NEW s \in Step(fn, p)
  PROVE  View(fn, s[1]) = View(fn, p)
<1>1. AtLoopEnd(fn, p)
  BY ViewStays
<1>2. PICK x \in Body(fn) : p = EndLoop(x)
  BY <1>1 DEF AtLoopEnd, IsPoint, NodesOfBody, InstsNode, RetFunc, Trap, Inst,
              EndBlock, ThenBegin, ElseBegin
<1>3. IsLastOfList(fn, x)
  BY <1>1, <1>2 DEF AtLoopEnd, EndLoop
<1>4. s = <<After(fn, x), Plainly>>
  BY <1>2, StepsOfNodes
<1>5. View(fn, EndLoop(x)) = View(fn, After(fn, x))
  BY <1>3, ViewUnfolds
<1> QED
  BY <1>2, <1>4, <1>5

-----------------------------------------------------------------------------
(* The graph offers no more than the execution can do. *)

\* An edge that is a step of the execution.
IsStep(d) == d \in Out(d.src)

\* The start of a loop without expressions that is not the last of its list:
\* construct has linked it to what follows, and is about to stop for it.
Doomed(q) ==
  Active /\ \E k \in Hanging :
    LET e == Pending(k)
    IN  /\ fn.kind[e] = "Loop" /\ fn.list[<<e, "body">>] = <<>>
        /\ ~IsLastOfList(fn, e) /\ q = Inst(e)

\* Unless a join is lost, every edge is a step or is on its way to a crash.
PreciseInv ==
  (Active \/ pc = "done") /\ KeepsJoins =>
    \A d \in edges : IsStep(d) \/ Doomed(d.src)

\* Control can go from p to q with outcome l.
Can(p, q, l) == <<q, l>> \in Step(fn, p)

\* What instructions can do, by their kind.
LEMMA StepsByKind ==
  ASSUME BaseInv, NEW e \in Exprs
  PROVE  /\ fn.kind[e] \in {"Plain"} \cup Calls => Can(Inst(e), After(fn, e), Plainly)
         /\ fn.kind[e] = "Unreachable" => Can(Inst(e), Trap, Plainly)
         /\ fn.kind[e] = "Br" =>
              Can(Inst(e), BranchTo(fn, e, fn.targets[e][1]), Plainly)
         /\ fn.kind[e] = "BrIf" =>
              /\ Can(Inst(e), BranchTo(fn, e, fn.targets[e][1]), OnTrue)
              /\ Can(Inst(e), After(fn, e), OnFalse)
         /\ fn.kind[e] \in {"Block", "Loop"} =>
              Can(Inst(e), StartOf(fn, <<e, "body">>), Plainly)
         /\ fn.kind[e] = "If" =>
              /\ Can(Inst(e), ThenBegin(e), OnTrue)
              /\ Can(Inst(e), ElseBegin(e), OnFalse)
         /\ fn.kind[e] \in Branches => 1 \in 1..Len(fn.targets[e])
<1>1. fn.kind[e] \in Branches => 1 \in 1..Len(fn.targets[e])
  <2>1. fn.targets[e] \in Seq(Labels)
    BY FunctionParts DEF BaseInv, TypeInv
  <2>2. fn.kind[e] \in Branches => fn.targets[e] # <<>>
    BY FunctionParts DEF BaseInv, TypeInv
  <2> QED
    BY <2>1, <2>2, EmptySeq
<1>2. \A q : \A l : Can(Inst(e), q, l) <=> <<q, l>> \in InstSteps(fn, e)
  BY StepsOfNodes DEF Can
<1>3. CASE fn.kind[e] \in {"Plain"} \cup Calls
  BY <1>1, <1>2, <1>3 DEF InstSteps, Calls
<1>4. CASE fn.kind[e] \in {"Unreachable", "Br", "BrIf"}
  BY <1>1, <1>2, <1>4 DEF InstSteps, Calls
<1>5. CASE fn.kind[e] \in {"Block", "Loop", "If"}
  BY <1>1, <1>2, <1>5 DEF InstSteps, Calls
<1>6. CASE fn.kind[e] \notin {"Plain"} \cup Calls \cup
             {"Unreachable", "Br", "BrIf", "Block", "Loop", "If"}
  BY <1>1, <1>6
<1> QED
  BY <1>3, <1>4, <1>5, <1>6

\* A step gives an edge.
LEMMA StepIsStep ==
  ASSUME NEW p, NEW q, NEW l, Can(p, q, l)
  PROVE  IsStep(CFGEdge(p, View(fn, q), l))
BY DEF IsStep, Out, CFGEdge, Can

\* The links of the end of a list.
LEMMA LinkIsStep ==
  ASSUME BaseInv, NEW x \in Exprs, NEW d \in LinkOf(x)
  PROVE  IsStep(d)
<1>1. CASE fn.kind[x] \in {"Br", "BrTable", "Return", "Unreachable", "Loop"}
  BY <1>1 DEF LinkOf, EdgesFrom, EdgesFromKind
<1>2. CASE fn.kind[x] = "BrIf"
  <2>1. d = CFGEdge(Inst(x), View(fn, After(fn, x)), OnFalse)
    BY <1>2 DEF LinkOf, EdgesFrom, EdgesFromKind
  <2>2. Can(Inst(x), After(fn, x), OnFalse)
    BY <1>2, StepsByKind
  <2> QED
    BY <2>1, <2>2, StepIsStep
<1>3. CASE fn.kind[x] \in {"Block", "If"}
  <2>1. d = CFGEdge(EndBlock(x), View(fn, After(fn, x)), Plainly)
    BY <1>3 DEF LinkOf, EdgesFrom, EdgesFromKind
  <2>2. Can(EndBlock(x), After(fn, x), Plainly)
    BY StepsOfNodes DEF Can
  <2> QED
    BY <2>1, <2>2, StepIsStep
<1>4. CASE fn.kind[x] \in {"Plain"} \cup Calls
  <2>1. d = CFGEdge(Inst(x), View(fn, After(fn, x)), Plainly)
    BY <1>4 DEF LinkOf, EdgesFrom, EdgesFromKind, NodeOf, Calls
  <2>2. Can(Inst(x), After(fn, x), Plainly)
    BY <1>4, StepsByKind
  <2> QED
    BY <2>1, <2>2, StepIsStep
<1>5. fn.kind[x] \in Kinds
  BY BodyParts DEF BaseInv
<1> QED
  BY <1>1, <1>2, <1>3, <1>4, <1>5 DEF Kinds, Structured, Branches, Calls

\* The edge to the expression after the one at the top.
LEMMA NextIsStep ==
  ASSUME BaseInv, stack # <<>>, NEW e, Holder(fn, e) = Top.list,
         Position(fn, e) = Top.at, Top.at <= Len(Current), NEW s, NEW l,
         Can(s, After(fn, e), l), NEW d \in ToNext(s, l)
  PROVE  IsStep(d)
<1>1. d = CFGEdge(s, View(fn, After(fn, e)), l)
  BY ToFollowing
<1> QED
  BY <1>1, StepIsStep

\* The edge into a list.
LEMMA FirstIsStep ==
  ASSUME NEW p, NEW l, Step(fn, p) = {<<StartOf(fn, l), Plainly>>},
         NEW d \in ToFirst(p, l)
  PROVE  IsStep(d)
<1>1. fn.list[l] # <<>> /\ d.src = p
  BY DEF ToFirst, CFGEdge
<1>2. d \in Out(p)
  BY <1>1, IntoList
<1> QED
  BY <1>1, <1>2 DEF IsStep

\* The edges from the end of a list that construct links.
LEMMA FallIsStep ==
  ASSUME BaseInv, NEW e \in Exprs, NEW a, Back(e, a), fn.kind[e] # "Loop",
         LinksEnd => ~BackOfEmpty(ret.list), NEW d \in FallThrough(EndBlock(e))
  PROVE  IsStep(d)
<1> PICK l \in Lists : l = <<e, a>>
  BY BackPlace
<1>1. /\ ret.list = l /\ ~ret.unreachable
      /\ d \in insertEdgeFromLastExpr(l, EndBlock(e))
  BY DEF Back, FallThrough
<1>2. fn.list[l] # <<>>
  BY <1>1, LinksWhenReachable DEF BackOfEmpty
<1>3. View(fn, EndOf(fn, l)) = EndBlock(e)
  <2>1. l # RootList /\ l[1] = e
    BY ExprsAssumption DEF RootList
  <2> QED
    BY <2>1, ViewOfNodes DEF EndOf
<1>4. d \in LinkOf(DueOf(l))
  BY <1>1, <1>2, <1>3, LinkPays
<1>5. DueOf(l) \in Exprs
  BY <1>2, ExitOfList DEF DueOf, BaseInv
<1> QED
  BY <1>4, <1>5, LinkIsStep

\* Visiting an instruction adds only steps of that instruction.
LEMMA VisitsPrecise ==
  ASSUME BaseInv, NEW e \in Exprs,
         \/ VisitReturn(e) \/ VisitUnreachable(e)
         \/ VisitBr(e) \/ VisitBrIf(e) \/ VisitBrTable(e)
         \/ VisitCall(e) \/ VisitDefault(e)
  PROVE  \A d \in Added : IsStep(d)
<1>1. PICK k : At(e, k)
  BY DEF VisitReturn, VisitUnreachable, VisitBr, VisitBrIf, VisitBrTable,
         VisitCall, VisitDefault
<1>2. /\ Holder(fn, e) = Top.list /\ Position(fn, e) = Top.at
      /\ Top.at <= Len(Current) /\ stack # <<>> /\ fn.kind[e] = k
  BY <1>1, CurrentPlace DEF At
<1>3. Step(fn, Inst(e)) = InstSteps(fn, e)
  BY StepsOfNodes
<1>4. CASE VisitReturn(e)
  BY <1>4 DEF VisitReturn, Added
<1>5. CASE VisitUnreachable(e)
  <2>1. Can(Inst(e), Trap, Plainly)
    BY <1>5, StepsByKind DEF VisitUnreachable, At
  <2>2. IsStep(CFGEdge(Inst(e), Trap, Plainly))
    BY <2>1, StepIsStep, ViewOfNodes
  <2> QED
    BY <1>5, <2>2 DEF VisitUnreachable, Added
<1>6. CASE VisitBr(e)
  <2>1. fn.kind[e] = "Br" /\ AllBound(e) /\ 1 \in 1..Len(fn.targets[e])
    BY <1>6, StepsByKind DEF VisitBr, At, Branches
  <2>2. Can(Inst(e), BranchTo(fn, e, fn.targets[e][1]), Plainly)
    BY <2>1, StepsByKind
  <2>3. \A d \in BranchEdges(e, 1, Plainly) : IsStep(d)
    BY <1>1, <2>1, <2>2, BranchLeads, StepIsStep
  <2> QED
    BY <1>6, <2>3 DEF VisitBr, Added
<1>7. CASE VisitBrIf(e)
  <2>1. fn.kind[e] = "BrIf" /\ AllBound(e) /\ 1 \in 1..Len(fn.targets[e])
    BY <1>7, StepsByKind DEF VisitBrIf, At, Branches
  <2>2. /\ Can(Inst(e), BranchTo(fn, e, fn.targets[e][1]), OnTrue)
        /\ Can(Inst(e), After(fn, e), OnFalse)
    BY <2>1, StepsByKind
  <2>3. \A d \in BranchEdges(e, 1, OnTrue) : IsStep(d)
    BY <1>1, <2>1, <2>2, BranchLeads, StepIsStep
  <2>4. \A d \in ToNext(Inst(e), OnFalse) : IsStep(d)
    BY <1>2, <2>2, NextIsStep
  <2> QED
    BY <1>7, <2>3, <2>4 DEF VisitBrIf, Added
<1>8. CASE VisitBrTable(e)
  <2> DEFINE m == Len(fn.targets[e])
             L(i) == IF i = m THEN OnDefault ELSE OnCase(i - 1)
  <2>1. fn.kind[e] = "BrTable" /\ AllBound(e) /\ m \in 1..m /\ m \in Nat
    <3>1. fn.kind[e] = "BrTable" /\ AllBound(e) /\ 1 \in 1..m
      BY <1>8, StepsByKind DEF VisitBrTable, At, Branches
    <3>2. m \in Nat
      BY FunctionParts, LenProperties DEF BaseInv, TypeInv
    <3> HIDE DEF m
    <3> QED
      BY <3>1, <3>2
  <2>2. InstSteps(fn, e) = {<<BranchTo(fn, e, fn.targets[e][i]), L(i)>> : i \in 1..m}
    BY <2>1 DEF InstSteps, Calls
  <2>3. \A i \in 1..m : \A d \in BranchEdges(e, i, L(i)) : IsStep(d)
    <3> TAKE i \in 1..m
    <3> HIDE DEF L
    <3>1. Can(Inst(e), BranchTo(fn, e, fn.targets[e][i]), L(i))
      BY <1>3, <2>2 DEF Can
    <3>2. BranchEdges(e, i, L(i)) =
            {CFGEdge(Inst(e), View(fn, BranchTo(fn, e, fn.targets[e][i])), L(i))}
      BY <1>1, <2>1, BranchLeads
    <3> QED
      BY <3>1, <3>2, StepIsStep
  <2>4. \A d \in BranchEdges(e, m, OnDefault) : IsStep(d)
    BY <2>1, <2>3
  <2>5. \A i \in 1 .. m - 1 : \A d \in BranchEdges(e, i, OnCase(i - 1)) : IsStep(d)
    <3> TAKE i \in 1 .. m - 1
    <3>1. i \in 1..m /\ i # m
      BY <2>1
    <3> QED
      BY <2>3, <3>1
  <2>6. edges' = edges \cup BranchEdges(e, m, OnDefault)
                  \cup UNION {BranchEdges(e, i, OnCase(i - 1)) : i \in 1 .. m - 1}
    BY <1>8 DEF VisitBrTable
  <2> HIDE DEF m
  <2> QED
    BY <2>4, <2>5, <2>6 DEF Added
<1>9. CASE VisitCall(e) \/ VisitDefault(e)
  <2>1. fn.kind[e] \in {"Plain"} \cup Calls
    BY <1>9 DEF VisitCall, VisitDefault, At, Calls
  <2>2. Can(Inst(e), After(fn, e), Plainly)
    BY <2>1, StepsByKind
  <2>3. \A d \in ToNext(Inst(e), Plainly) : IsStep(d)
    BY <1>2, <2>2, NextIsStep
  <2> QED
    BY <1>9, <2>3 DEF VisitCall, VisitDefault, Added
<1> QED
  BY <1>4, <1>5, <1>6, <1>7, <1>8, <1>9

\* Beginning a structured expression adds only steps, or an edge from a loop
\* without expressions that construct will stop for.
LEMMA EntersPrecise ==
  ASSUME BaseInv, NEW e \in Exprs, EnterBlock(e) \/ EnterLoop(e) \/ EnterIf(e)
  PROVE  \A d \in Added : IsStep(d) \/ Doomed(d.src)'
<1> PICK l \in Lists : l = <<e, "body">>
  BY ArmsAreLists
<1>1. CASE EnterBlock(e)
  <2>1. fn.kind[e] = "Block"
    BY <1>1 DEF EnterBlock, At
  <2>2. CASE fn.list[l] = <<>>
    <3>1. StartOf(fn, l) = EndBlock(e)
      <4>1. l # RootList /\ l[1] = e
        BY ExprsAssumption DEF RootList
      <4> QED
        BY <2>1, <2>2, <4>1 DEF StartOf, EndOf
    <3>2. Can(Inst(e), EndBlock(e), Plainly)
      BY <2>1, <3>1, StepsByKind
    <3>3. IsStep(CFGEdge(Inst(e), EndBlock(e), Plainly))
      BY <3>2, StepIsStep, ViewOfNodes
    <3> QED
      BY <1>1, <2>2, <3>3 DEF EnterBlock, Added
  <2>3. CASE fn.list[l] # <<>>
    <3>1. Step(fn, Inst(e)) = {<<StartOf(fn, l), Plainly>>}
      BY <2>1, StepsOfNodes DEF InstSteps, Calls
    <3>2. \A d \in ToFirst(Inst(e), l) : IsStep(d)
      BY <3>1, FirstIsStep
    <3> QED
      BY <1>1, <2>3, <3>2 DEF EnterBlock, Added
  <2> QED
    BY <2>2, <2>3
<1>2. CASE EnterLoop(e)
  <2>1. At(e, "Loop") /\ fn.kind[e] = "Loop" /\ fn' = fn /\ Call(l)
    BY <1>2 DEF EnterLoop, At
  <2>2. CASE fn.list[l] = <<>>
    <3>1. ASSUME NEW d \in ToNext(Inst(e), Plainly)
          PROVE  ~IsLastOfList(fn, e) /\ d.src = Inst(e)
      <4>1. /\ Holder(fn, e) = Top.list /\ Position(fn, e) = Top.at
            /\ Top.at <= Len(Current) /\ stack # <<>>
        BY <2>1, CurrentPlace DEF At
      <4>2. ~IsLastOfList(fn, e)
        BY <3>1, <4>1, ToFollowing
      <4> QED
        BY <3>1, <4>2 DEF ToNext, CFGEdge
    <3>2. PICK n \in Nat \ {0} : n = Len(stack) /\ Grows(n, l) /\ e = Pending(n)
      BY <2>1, Entered
    <3>3. n \in 1..n /\ Active'
      BY <2>1, Entered
    <3>4. n \in Hanging' /\ Kept(n)
      BY <3>2, <3>3 DEF Grows
    <3>5. Pending(n)' = e
      BY <2>1, <3>2, <3>4 DEF Pending, Kept
    <3>6. ~IsLastOfList(fn, e) => Doomed(Inst(e))'
      BY <2>1, <2>2, <3>3, <3>4, <3>5 DEF Doomed
    <3> QED
      BY <1>2, <2>2, <3>1, <3>6 DEF EnterLoop, Added
  <2>3. CASE fn.list[l] # <<>>
    <3>1. Step(fn, Inst(e)) = {<<StartOf(fn, l), Plainly>>}
      BY <2>1, StepsOfNodes DEF InstSteps, Calls
    <3>2. \A d \in ToFirst(Inst(e), l) : IsStep(d)
      BY <3>1, FirstIsStep
    <3> QED
      BY <1>2, <2>3, <3>2 DEF EnterLoop, Added
  <2> QED
    BY <2>2, <2>3
<1>3. CASE EnterIf(e)
  <2>1. Can(Inst(e), ThenBegin(e), OnTrue)
    BY <1>3, StepsByKind DEF EnterIf, At
  <2>2. IsStep(CFGEdge(Inst(e), ThenBegin(e), OnTrue))
    BY <2>1, StepIsStep, ViewOfNodes
  <2> QED
    BY <1>3, <2>2 DEF EnterIf, Added
<1> QED
  BY <1>1, <1>2, <1>3

\* The edge from an expression's end to what follows it.
LEMMA AfterIsStep ==
  ASSUME BaseInv, NEW e \in Exprs, NEW a, Back(e, a),
         NEW s \in {EndBlock(e), EndLoop(e)}, NEW d \in ToNext(s, Plainly)
  PROVE  IsStep(d)
<1>1. Can(s, After(fn, e), Plainly)
  <2>1. /\ Step(fn, EndBlock(e)) = {<<After(fn, e), Plainly>>}
        /\ Step(fn, EndLoop(e)) = {<<After(fn, e), Plainly>>}
    BY StepsOfNodes
  <2>2. Step(fn, s) = {<<After(fn, e), Plainly>>}
    <3>1. CASE s = EndBlock(e)
      BY <2>1, <3>1
    <3>2. CASE s = EndLoop(e)
      BY <2>1, <3>2
    <3> QED
      BY <3>1, <3>2
  <2> QED
    BY <2>2 DEF Can
<1> QED
  BY <1>1, BackAtTop, NextIsStep

\* Both arms of an If.
LEMMA ArmsPrecise ==
  ASSUME BaseInv, NEW e \in Exprs, fn.kind[e] = "If"
  PROVE  /\ IsStep(CFGEdge(Inst(e), ElseBegin(e), OnFalse))
         /\ \A d \in ToFirst(ThenBegin(e), <<e, "then">>) : IsStep(d)
         /\ \A d \in ToFirst(ElseBegin(e), <<e, "else">>) : IsStep(d)
         /\ fn.list[<<e, "else">>] = <<>> =>
              IsStep(CFGEdge(ElseBegin(e), EndBlock(e), Plainly))
<1>1. Can(Inst(e), ElseBegin(e), OnFalse)
  BY StepsByKind
<1>2. /\ Step(fn, ThenBegin(e)) = {<<StartOf(fn, <<e, "then">>), Plainly>>}
      /\ Step(fn, ElseBegin(e)) = {<<StartOf(fn, <<e, "else">>), Plainly>>}
  BY StepsOfNodes
<1>3. fn.list[<<e, "else">>] = <<>> => Can(ElseBegin(e), EndBlock(e), Plainly)
  <2> PICK l \in Lists : l = <<e, "else">>
    BY ArmsAreLists
  <2>1. l # RootList /\ l[1] = e
    BY ExprsAssumption DEF RootList
  <2>2. fn.list[l] = <<>> => StartOf(fn, l) = EndBlock(e)
    BY <2>1 DEF StartOf, EndOf
  <2> QED
    BY <1>2, <2>2 DEF Can
<1>4. IsStep(CFGEdge(Inst(e), ElseBegin(e), OnFalse))
  BY <1>1, StepIsStep, ViewOfNodes
<1>5. /\ \A d \in ToFirst(ThenBegin(e), <<e, "then">>) : IsStep(d)
      /\ \A d \in ToFirst(ElseBegin(e), <<e, "else">>) : IsStep(d)
  BY <1>2, FirstIsStep
<1>6. fn.list[<<e, "else">>] = <<>> => IsStep(CFGEdge(ElseBegin(e), EndBlock(e), Plainly))
  BY <1>3, StepIsStep, ViewOfNodes
<1> QED
  BY <1>4, <1>5, <1>6

\* Coming back from a list adds only steps.
LEMMA LeavesPrecise ==
  ASSUME BaseInv, NEW e \in Exprs,
         \/ LeaveBlock(e) \/ LeaveDeadBlock(e) \/ LeaveLoop(e)
         \/ EnterElse(e) \/ LeaveIfWithoutElse(e) \/ LeaveElse(e) \/ LeaveDeadIf(e)
  PROVE  \A d \in Added : IsStep(d)
<1>1. \A a : Back(e, a) /\ a \in {"then", "else"} => fn.kind[e] = "If"
  BY BackPlace, ListsByKind
<1>2. ASSUME NEW a, Back(e, a), fn.kind[e] # "Loop",
             LinksEnd => ~BackOfEmpty(ret.list)
      PROVE  \A d \in FallThrough(EndBlock(e)) : IsStep(d)
  BY <1>2, FallIsStep
<1>3. \A a : Back(e, a) => \A d \in ToNext(EndBlock(e), Plainly)
                                    \cup ToNext(EndLoop(e), Plainly) : IsStep(d)
  BY AfterIsStep
<1>4. CASE LeaveBlock(e) \/ LeaveDeadBlock(e)
  <2>1. /\ Back(e, "body") /\ fn.kind[e] = "Block"
        /\ LinksEnd => ~BackOfEmpty(ret.list)
        /\ edges' \subseteq edges \cup FallThrough(EndBlock(e))
                                  \cup ToNext(EndBlock(e), Plainly)
    BY <1>4 DEF LeaveBlock, LeaveDeadBlock
  <2>2. \A d \in FallThrough(EndBlock(e)) : IsStep(d)
    BY <1>2, <2>1
  <2> QED
    BY <1>3, <2>1, <2>2 DEF Added
<1>5. CASE LeaveLoop(e)
  <2> PICK l \in Lists : l = <<e, "body">>
    BY ArmsAreLists
  <2>1. /\ Back(e, "body") /\ fn.kind[e] = "Loop" /\ ret.list = l
        /\ LinksEnd => ~BackOfEmpty(l)
    BY <1>5 DEF LeaveLoop, Back
  <2>2. CASE Top.at < Len(Current)
    <3>1. edges' = edges \cup insertEdgeFromLastExpr(l, EndLoop(e))
                         \cup ToNext(EndLoop(e), Plainly)
      BY <1>5, <2>1, <2>2 DEF LeaveLoop
    <3>2. fn.list[l] # <<>>
      <4>1. LinksEnd
        BY <2>1, <2>2 DEF LinksEnd
      <4> QED
        BY <2>1, <4>1 DEF BackOfEmpty
    <3>3. View(fn, EndOf(fn, l)) = EndLoop(e)
      <4>1. l # RootList /\ l[1] = e
        BY ExprsAssumption DEF RootList
      <4>2. EndOf(fn, l) = EndLoop(e)
        BY <2>1, <4>1 DEF EndOf
      <4>3. ~IsLastOfList(fn, e)
        <5>1. /\ Holder(fn, e) = Top.list /\ Position(fn, e) = Top.at
              /\ Len(Current) \in Nat /\ Top.at \in 1..Len(Current)
          BY <2>1, BackAtTop
        <5> QED
          BY <2>2, <5>1 DEF IsLastOfList, Current
      <4> QED
        BY <4>2, <4>3, ViewOfNodes
    <3>4. insertEdgeFromLastExpr(l, EndLoop(e)) = LinkOf(DueOf(l))
      BY <3>2, <3>3, LinkPays
    <3>5. DueOf(l) \in Exprs
      BY <3>2, ExitOfList DEF DueOf, BaseInv
    <3>6. \A d \in LinkOf(DueOf(l)) : IsStep(d)
      BY <3>5, LinkIsStep
    <3> QED
      BY <1>3, <2>1, <3>1, <3>4, <3>6 DEF Added
  <2>3. CASE ~(Top.at < Len(Current))
    BY <1>5, <2>3 DEF LeaveLoop, Added
  <2> QED
    BY <2>2, <2>3
<1>6. CASE EnterElse(e)
  <2>1. /\ Back(e, "then")
        /\ edges' = edges \cup ThenEdges(e)
    BY <1>6 DEF EnterElse
  <2>2. LinksEnd => ~BackOfEmpty(ret.list)
    BY <1>6 DEF EnterElse
  <2>3. fn.kind[e] = "If"
    BY <1>1, <2>1
  <2>4. \A d \in FallThrough(EndBlock(e)) : IsStep(d)
    BY <1>2, <2>1, <2>2, <2>3
  <2>5. \A d \in ToFirst(ThenBegin(e), <<e, "then">>) : IsStep(d)
    BY <2>3, ArmsPrecise
  <2> QED
    BY <2>1, <2>4, <2>5 DEF Added, ThenEdges
<1>7. CASE LeaveIfWithoutElse(e)
  <2>1. /\ Back(e, "then")
        /\ fn.list[<<e, "else">>] = <<>>
        /\ edges' \subseteq edges \cup ThenEdges(e) \cup
                       {CFGEdge(Inst(e), ElseBegin(e), OnFalse),
                        CFGEdge(ElseBegin(e), EndBlock(e), Plainly)}
                       \cup ToNext(EndBlock(e), Plainly)
    BY <1>7 DEF LeaveIfWithoutElse, ToNextOfJoin
  <2>2. LinksEnd => ~BackOfEmpty(ret.list)
    BY <1>7 DEF LeaveIfWithoutElse
  <2>3. fn.kind[e] = "If"
    BY <1>1, <2>1
  <2>4. \A d \in FallThrough(EndBlock(e)) : IsStep(d)
    BY <1>2, <2>1, <2>2, <2>3
  <2>5. \A d \in ToFirst(ThenBegin(e), <<e, "then">>) : IsStep(d)
    BY <2>3, ArmsPrecise
  <2>6. /\ IsStep(CFGEdge(Inst(e), ElseBegin(e), OnFalse))
        /\ IsStep(CFGEdge(ElseBegin(e), EndBlock(e), Plainly))
    BY <2>1, <2>3, ArmsPrecise
  <2>7. \A d \in ToNext(EndBlock(e), Plainly) : IsStep(d)
    BY <1>3, <2>1
  <2> QED
    BY <2>1, <2>4, <2>5, <2>6, <2>7 DEF Added, ThenEdges
<1>8. CASE LeaveElse(e)
  <2>1. /\ Back(e, "else")
        /\ edges' \subseteq edges \cup ElseEdges(e) \cup ToNext(EndBlock(e), Plainly)
    BY <1>8 DEF LeaveElse, ToNextOfJoin
  <2>2. LinksEnd => ~BackOfEmpty(ret.list)
    BY <1>8 DEF LeaveElse
  <2>3. fn.kind[e] = "If"
    BY <1>1, <2>1
  <2>4. \A d \in FallThrough(EndBlock(e)) : IsStep(d)
    BY <1>2, <2>1, <2>2, <2>3
  <2>5. \A d \in ToFirst(ElseBegin(e), <<e, "else">>) : IsStep(d)
    BY <2>3, ArmsPrecise
  <2>6. IsStep(CFGEdge(Inst(e), ElseBegin(e), OnFalse))
    BY <2>3, ArmsPrecise
  <2>7. \A d \in ToNext(EndBlock(e), Plainly) : IsStep(d)
    BY <1>3, <2>1
  <2> QED
    BY <2>1, <2>4, <2>5, <2>6, <2>7 DEF Added, ElseEdges
<1>9. CASE LeaveDeadIf(e)
  <2>1. /\ Back(e, "else") /\ FallThrough(EndBlock(e)) = {}
        /\ edges' = edges \cup ElseEdges(e)
    BY <1>9 DEF LeaveDeadIf, FallThrough
  <2>2. fn.kind[e] = "If"
    BY <1>1, <2>1
  <2> QED
    BY <2>1, <2>2, ArmsPrecise DEF Added, ElseEdges
<1> QED
  BY <1>4, <1>5, <1>6, <1>7, <1>8, <1>9

-----------------------------------------------------------------------------
(* An edge that is no step is on its way to a crash. *)

\* construct cannot come back from a loop without expressions that is not the
\* last of its list.
LEMMA EmptyLoopDies ==
  ASSUME BaseInv, Next, ~Dies, pc = "returned", stack # <<>>,
         NEW n \in Nat, n = Len(stack), fn.kind[Pending(n)] = "Loop",
         fn.list[<<Pending(n), "body">>] = <<>>
  PROVE  IsLastOfList(fn, Pending(n))
<1>1. PICK e \in Exprs :
         \/ LeaveBlock(e) \/ LeaveDeadBlock(e) \/ LeaveLoop(e)
         \/ EnterElse(e) \/ LeaveIfWithoutElse(e) \/ LeaveElse(e) \/ LeaveDeadIf(e)
  BY DEF Next, Dies, BeginFunction, EndOfList, FinishFunction, At,
         VisitReturn, VisitUnreachable, VisitBr, VisitBrIf, VisitBrTable,
         EnterBlock, EnterLoop, EnterIf, VisitCall, VisitDefault
<1>2. PICK a : Back(e, a) /\ (~LeaveLoop(e) => a # "body" \/ fn.kind[e] = "Block")
  <2>1. LeaveBlock(e) \/ LeaveDeadBlock(e) => Back(e, "body") /\ fn.kind[e] = "Block"
    BY DEF LeaveBlock, LeaveDeadBlock
  <2>2. LeaveLoop(e) => Back(e, "body")
    BY DEF LeaveLoop
  <2>3. EnterElse(e) \/ LeaveIfWithoutElse(e) => Back(e, "then")
    BY DEF EnterElse, LeaveIfWithoutElse
  <2>4. LeaveElse(e) \/ LeaveDeadIf(e) => Back(e, "else")
    BY DEF LeaveElse, LeaveDeadIf
  <2> QED
    BY <1>1, <2>1, <2>2, <2>3, <2>4
<1>3. e = Pending(n) /\ <<e, a>> \in ListsOf(e)
  BY <1>2, BackPlace
<1>4. a = "body"
  BY <1>3, ListsByKind
<1>5. LeaveLoop(e)
  BY <1>2, <1>3, <1>4
<1>6. ret.list = <<e, "body">> /\ fn.list[ret.list] = <<>>
  BY <1>2, <1>3, <1>4 DEF Back
<1>7. Top.at >= Len(Current)
  <2>1. LinksEnd => ~BackOfEmpty(ret.list)
    BY <1>5 DEF LeaveLoop
  <2>2. BackOfEmpty(ret.list)
    BY <1>6 DEF BackOfEmpty
  <2>3. ~(Top.at < Len(Current))
    BY <1>3, <1>6, <2>1, <2>2 DEF LinksEnd
  <2> QED
    BY <1>2, <2>3, BackAtTop
<1>8. IsLastOfList(fn, e)
  <2>1. /\ Holder(fn, e) = Top.list /\ Position(fn, e) = Top.at
        /\ Len(Current) \in Nat /\ Top.at \in 1..Len(Current)
    BY <1>2, BackAtTop
  <2> QED
    BY <1>7, <2>1 DEF IsLastOfList, Current
<1> QED
  BY <1>3, <1>8

\* A loop that construct will stop for stays so until it has stopped.
LEMMA DoomStays ==
  ASSUME BaseInv, Next, ~Dies, NEW q, Doomed(q)
  PROVE  Doomed(q)'
<1>1. PICK k \in Hanging :
        LET e == Pending(k)
        IN  /\ fn.kind[e] = "Loop" /\ fn.list[<<e, "body">>] = <<>>
            /\ ~IsLastOfList(fn, e) /\ q = Inst(e)
  BY DEF Doomed
<1>2. Active
  BY DEF Doomed
<1> PICK n \in Nat : n = Len(stack)
  BY LevelNumbers
<1>3. k \in 1..n /\ (k \in 1 .. n - 1 \/ pc = "returned")
  BY <1>2, LevelNumbers DEF Hanging
<1>4. n # 0 /\ stack # <<>> /\ pc # "start" /\ fn' = fn
  BY <1>2, <1>3, FunctionStays DEF BaseInv, Active
<1>5. k = n => pc # "returned"
  BY <1>1, <1>4, EmptyLoopDies
<1>6. k \in 1 .. n - 1
  BY <1>3, <1>5
<1>7. Active' /\ k \in Hanging' /\ Pending(k)' = Pending(k)
  <2>1. CASE Active' /\ KeepsBelow(n)
    <3>1. k \in Hanging' /\ stack'[k] = stack[k]
      BY <1>6, <2>1 DEF KeepsBelow, Keeps
    <3> QED
      BY <1>4, <2>1, <3>1 DEF Pending
  <2>2. ASSUME NEW l, Active', Grows(n, l)
        PROVE  Active' /\ k \in Hanging' /\ Pending(k)' = Pending(k)
    <3>1. k \in Hanging' /\ Kept(k)
      BY <1>3, <2>2 DEF Grows
    <3> QED
      BY <1>4, <2>2, <3>1 DEF Pending, Kept
  <2>3. CASE BeginFunction \/ FinishFunction
    BY <1>2, <1>4, <2>3 DEF BeginFunction, FinishFunction, Active
  <2> QED
    BY <2>1, <2>2, <2>3, LevelSteps DEF Opens
<1> QED
  BY <1>1, <1>4, <1>7 DEF Doomed

-----------------------------------------------------------------------------
(* The first step and the last one add only steps. *)

\* The edge from the entry.
LEMMA BeginPrecise ==
  ASSUME BaseInv, BeginFunction
  PROVE  \A d \in edges' : IsStep(d)
<1> PICK l \in Lists : l = RootList
  BY RootIsList
<1>1. Step(fn, InstsNode) = {<<StartOf(fn, l), Plainly>>}
  BY StepsOfNodes
<1>2. CASE fn.list[l] = <<>>
  <2>1. edges' = {CFGEdge(InstsNode, RetFunc, Plainly)}
    BY <1>2 DEF BeginFunction
  <2>2. View(fn, EndOf(fn, l)) = RetFunc
    BY ViewOfNodes DEF EndOf
  <2>3. Out(InstsNode) = edges'
    BY <1>1, <1>2, <2>1, <2>2, OverList
  <2> QED
    BY <2>1, <2>3 DEF IsStep, CFGEdge
<1>3. CASE fn.list[l] # <<>>
  <2>1. edges' = ToFirst(InstsNode, l)
    BY <1>3 DEF BeginFunction
  <2> QED
    BY <1>1, <2>1, FirstIsStep
<1> QED
  BY <1>2, <1>3

\* Every instruction of the AST can do something.
LEMMA ASTInstGoesOn ==
  ASSUME BaseInv, NEW q \in ASTInsts
  PROVE  Out(q) # {} /\ q # RetFunc
<1>1. CASE \E e \in Exprs : q = EndBlock(e)
  <2> PICK e \in Exprs : q = EndBlock(e)
    BY <1>1
  <2>1. Step(fn, q) = {<<After(fn, e), Plainly>>}
    BY StepsOfNodes
  <2>2. \E s : \E l : Can(q, s, l)
    BY <2>1 DEF Can
  <2>3. q # RetFunc
    BY DEF EndBlock, RetFunc
  <2> QED
    BY <2>2, <2>3 DEF Can, Out
<1>2. CASE \E e \in Exprs : q = Inst(e) /\ fn.kind[e] # "Return"
  <2> PICK e \in Exprs : q = Inst(e) /\ fn.kind[e] # "Return"
    BY <1>2
  <2>1. fn.kind[e] \in Kinds
    BY BodyParts DEF BaseInv
  <2>2. \E s : \E l : Can(q, s, l)
    <3>1. CASE fn.kind[e] = "BrTable"
      <4> DEFINE m == Len(fn.targets[e])
                 L(i) == IF i = m THEN OnDefault ELSE OnCase(i - 1)
      <4>1. 1 \in 1..m
        BY <3>1, StepsByKind DEF Branches
      <4>2. Step(fn, q) = InstSteps(fn, e)
        BY StepsOfNodes
      <4>3. InstSteps(fn, e) = {<<BranchTo(fn, e, fn.targets[e][i]), L(i)>> : i \in 1..m}
        BY <3>1 DEF InstSteps, Calls
      <4> HIDE DEF m, L
      <4> QED
        BY <4>1, <4>2, <4>3 DEF Can
    <3>2. CASE fn.kind[e] # "BrTable"
      BY <2>1, <3>2, StepsByKind DEF Kinds, Structured, Branches, Calls
    <3> QED
      BY <3>1, <3>2
  <2> QED
    BY <2>2 DEF Can, Out, Inst, RetFunc
<1> QED
  BY <1>1, <1>2 DEF ASTInsts

\* A node that childlessReturn finds leads to the return node alone.
LEMMA ChildlessIsStep ==
  ASSUME BaseInv, ClosedInv, KeepsJoins, Next, FinishFunction, NEW es,
         edges' = es \cup {CFGEdge(q, RetFunc, Plainly) : q \in childlessReturn(es)},
         NEW p \in childlessReturn(es)
  PROVE  IsStep(CFGEdge(p, RetFunc, Plainly))
<1>1. p \in ASTInsts /\ HasInEdges(es, p) /\ \A d \in es : d.src # p
  BY DEF childlessReturn
<1>2. IsLive(p)'
  BY <1>1 DEF IsLive, HasInEdges
<1>3. pc' = "done" /\ fn' = fn
  BY DEF FinishFunction
<1>4. ~Busy(p)' /\ \A x : ~IsDue(x)'
  BY <1>3 DEF Busy, LooksAt, IsDue, Active
<1>5. Settled(p)'
  BY <1>2, <1>4, FinishCloses DEF Good
<1>6. \A d \in Out(p) : d \in edges'
  BY <1>3, <1>4, <1>5 DEF Settled, Owed, Out
<1>7. PICK d \in Out(p) : TRUE
  BY <1>1, ASTInstGoesOn
<1>8. d.src = p /\ d \in edges'
  BY <1>6, <1>7 DEF Out, CFGEdge
<1>9. d = CFGEdge(p, RetFunc, Plainly)
  BY <1>1, <1>8 DEF CFGEdge
<1> QED
  BY <1>7, <1>9 DEF IsStep, CFGEdge

\* The edges into the return node.
LEMMA FinishPrecise ==
  ASSUME BaseInv, ClosedInv, KeepsJoins, Next, FinishFunction
  PROVE  \A d \in Added : IsStep(d)
<1> PICK l \in Lists : l = RootList
  BY RootIsList
<1>1. /\ pc = "returned" /\ stack = <<>>
      /\ LinksEnd => ~BackOfEmpty(ret.list)
  BY DEF FinishFunction
<1>2. ret.list = l
  BY <1>1, NestInvSuffices DEF BaseInv, ActivationsNest
<1>3. CASE ret.unreachable
  BY <1>3 DEF FinishFunction, Added
<1>4. CASE ~ret.unreachable
  <2> DEFINE linked == edges \cup FallThrough(RetFunc)
  <2>1. edges' = linked \cup {CFGEdge(q, RetFunc, Plainly) : q \in childlessReturn(linked)}
    BY <1>4 DEF FinishFunction
  <2>2. fn.list[l] # <<>>
    <3>1. \A e \in Exprs : ret.list # <<e, "body">>
      BY <1>2 DEF RootList
    <3>2. LinksEnd
      BY <1>4, <3>1 DEF LinksEnd
    <3> QED
      BY <1>1, <1>2, <3>2 DEF BackOfEmpty
  <2>3. \A d \in FallThrough(RetFunc) : IsStep(d)
    <3>1. View(fn, EndOf(fn, l)) = RetFunc
      BY ViewOfNodes DEF EndOf
    <3>2. FallThrough(RetFunc) = LinkOf(DueOf(l))
      BY <1>2, <1>4, <2>2, <3>1, LinkPays DEF FallThrough
    <3>3. DueOf(l) \in Exprs
      BY <2>2, ExitOfList DEF DueOf, BaseInv
    <3> QED
      BY <3>2, <3>3, LinkIsStep
  <2>4. \A q \in childlessReturn(linked) : IsStep(CFGEdge(q, RetFunc, Plainly))
    <3> HIDE DEF linked
    <3> QED
      BY <2>1, ChildlessIsStep
  <2> QED
    BY <2>1, <2>3, <2>4 DEF Added
<1> QED
  BY <1>3, <1>4

\* PreciseInv is inductive, given the invariants before it.
LEMMA InitPrecise == Init => PreciseInv
BY DEF Init, Start, PreciseInv

\* And no step breaks it.
LEMMA NextPrecise == AllInv /\ PreciseInv /\ [Next]_vars => PreciseInv'
<1> SUFFICES ASSUME AllInv, PreciseInv, [Next]_vars PROVE PreciseInv'
  OBVIOUS
<1> USE DEF AllInv
<1>1. CASE UNCHANGED vars
  <2>1. /\ Active' = Active /\ KeepsJoins' = KeepsJoins /\ Hanging' = Hanging
    BY <1>1 DEF vars, Active, KeepsJoins, Hanging
  <2>2. \A q : Doomed(q)' = Doomed(q)
    BY <1>1, <2>1 DEF vars, Doomed, Pending
  <2>3. \A d : IsStep(d)' = IsStep(d)
    BY <1>1 DEF vars, IsStep, Out
  <2> QED
    BY <1>1, <2>1, <2>2, <2>3 DEF PreciseInv, vars
<1>2. CASE Dies
  <2>1. pc' = "crashed"
    BY <1>2 DEF Dies, LinkEmptyList, VisitUnboundBranch, Crash
  <2> QED
    BY <2>1 DEF PreciseInv, Active
<1>3. CASE Next /\ ~Dies
  <2> SUFFICES ASSUME KeepsJoins', NEW d \in edges'
               PROVE  IsStep(d)' \/ Doomed(d.src)'
    BY DEF PreciseInv
  <2>1. fn' = fn
    BY <1>3, FunctionStays DEF BaseInv
  <2>2. KeepsJoins
    BY <2>1 DEF KeepsJoins
  <2>3. IsStep(d)' = IsStep(d)
    BY <2>1 DEF IsStep, Out
  <2>4. CASE BeginFunction
    BY <2>3, <2>4, BeginPrecise
  <2>5. CASE FinishFunction
    <3>1. Active /\ ~\E k \in Hanging : TRUE
      BY <2>5, LevelNumbers DEF FinishFunction, Active, Hanging
    <3>2. d \in edges => IsStep(d)
      BY <2>2, <3>1 DEF PreciseInv, Doomed
    <3>3. d \notin edges => IsStep(d)
      BY <1>3, <2>2, <2>5, FinishPrecise DEF Added
    <3> QED
      BY <2>3, <3>2, <3>3
  <2>6. CASE ~BeginFunction /\ ~FinishFunction
    <3>1. Active
      BY <1>3, <2>6, LevelSteps, LevelNumbers
    <3>2. d \in edges => IsStep(d) \/ Doomed(d.src)'
      BY <1>3, <2>2, <3>1, DoomStays DEF PreciseInv
    <3>3. ASSUME d \notin edges
          PROVE  IsStep(d) \/ Doomed(d.src)'
      <4>1. d \in Added
        BY <3>3 DEF Added
      <4>2. CASE EndOfList
        BY <3>3, <4>2 DEF EndOfList
      <4>3. ASSUME NEW e \in Exprs,
                   \/ VisitReturn(e) \/ VisitUnreachable(e)
                   \/ VisitBr(e) \/ VisitBrIf(e) \/ VisitBrTable(e)
                   \/ VisitCall(e) \/ VisitDefault(e)
            PROVE  IsStep(d)
        BY <4>1, <4>3, VisitsPrecise
      <4>4. ASSUME NEW e \in Exprs, EnterBlock(e) \/ EnterLoop(e) \/ EnterIf(e)
            PROVE  IsStep(d) \/ Doomed(d.src)'
        BY <4>1, <4>4, EntersPrecise
      <4>5. ASSUME NEW e \in Exprs,
                   \/ LeaveBlock(e) \/ LeaveDeadBlock(e) \/ LeaveLoop(e)
                   \/ EnterElse(e) \/ LeaveIfWithoutElse(e) \/ LeaveElse(e)
                   \/ LeaveDeadIf(e)
            PROVE  IsStep(d)
        BY <4>1, <4>5, LeavesPrecise
      <4> QED
        BY <1>3, <2>6, <4>2, <4>3, <4>4, <4>5 DEF Next, Dies
    <3> QED
      BY <2>3, <3>2, <3>3
  <2> QED
    BY <2>4, <2>5, <2>6
<1> QED
  BY <1>1, <1>2, <1>3

-----------------------------------------------------------------------------
(* The builder and then the execution of what it has built. *)

\* Control is where edges lead, and at the entry while the graph is built.
PointInv ==
  /\ pc # "done" => point = InstsNode
  /\ pc = "start" => edges = {}
  /\ IsPoint(point)
  /\ KeepsJoins => \/ View(fn, point) = InstsNode
                   \/ HasInEdges(edges, View(fn, point))

\* The inductive invariant of the composition.
ExecInv == AllInv /\ PreciseInv /\ CrashNeedsCause /\ PointInv

\* The entry is a node of the graph.
LEMMA EntryIsSeen ==
  ASSUME NEW f
  PROVE  View(f, InstsNode) = InstsNode
<1>1. ~AtLoopEnd(f, InstsNode)
  BY DEF AtLoopEnd, InstsNode
<1> QED
  BY <1>1, ViewStays

\* The builder is not resumed, and a graph that is done is not built on.
LEMMA BuildsOnce ==
  ASSUME BaseInv, Next
  PROVE  pc # "done" /\ pc' # "start"
<1>1. Dies => pc # "done" /\ pc' # "start"
  BY DEF Dies, LinkEmptyList, VisitUnboundBranch, At, Crash
<1>2. BeginFunction \/ FinishFunction => pc # "done" /\ pc' # "start"
  BY DEF BeginFunction, FinishFunction, Call
<1>3. Active /\ Active' => pc # "done" /\ pc' # "start"
  BY DEF Active
<1> QED
  BY <1>1, <1>2, <1>3, LevelSteps, LevelNumbers

\* Every step from where an execution is, and every call there, is covered.
LEMMA PointIsCovered ==
  ASSUME ExecInv, pc = "done", KeepsJoins, Visible
  PROVE  /\ Out(point) \subseteq edges
         /\ \A e \in Exprs : point = Inst(e) /\ fn.kind[e] \in Calls =>
                               {Inst(e)} \X fn.callees[e] \subseteq cg
<1>1. IsLive(point)
  BY DEF ExecInv, PointInv, Visible, IsLive
<1>2. ~Active
  BY DEF Active
<1>3. ~Busy(point) /\ \A x : ~IsDue(x)
  BY <1>2 DEF Busy, LooksAt, IsDue, Active
<1>4. Settled(point)
  BY <1>1, <1>3 DEF ExecInv, AllInv, ClosedInv
<1> QED
  BY <1>3, <1>4 DEF Settled, Owed

\* A step of the execution follows an edge, or is the completion of a loop
\* that ends its list.
LEMMA ExecuteFollows ==
  ASSUME ExecInv, Execute, KeepsJoins
  PROVE  \/ View(fn, point)' = View(fn, point)
         \/ \E d \in edges : d.src = View(fn, point) /\ d.dest = View(fn, point)'
<1> PICK s \in Step(fn, point) : point' = s[1]
  BY DEF Execute
<1>1. pc = "done" /\ fn' = fn /\ IsBody(fn) /\ IsPoint(point)
  BY DEF Execute, vars, ExecInv, AllInv, BaseInv, PointInv
<1>2. View(fn, point)' = View(fn, s[1])
  BY <1>1
<1>3. CASE Visible
  <2>1. CFGEdge(point, View(fn, s[1]), s[2]) \in Out(point)
    BY DEF Out
  <2>2. CFGEdge(point, View(fn, s[1]), s[2]) \in edges
    BY <1>1, <1>3, <2>1, PointIsCovered
  <2> QED
    BY <1>2, <1>3, <2>2 DEF Visible, CFGEdge
<1>4. CASE ~Visible
  <2> PICK p : p = point
    OBVIOUS
  <2>1. View(fn, s[1]) = View(fn, p)
    BY <1>1, <1>4, HiddenStep DEF Visible
  <2> QED
    BY <1>2, <2>1
<1> QED
  BY <1>3, <1>4

\* ExecInv is inductive.
LEMMA InitExec == SInit => ExecInv
<1> SUFFICES ASSUME SInit PROVE ExecInv
  OBVIOUS
<1>1. Init /\ point = InstsNode /\ pc = "start" /\ edges = {}
  BY DEF SInit, Init, Start
<1>2. AllInv /\ PreciseInv
  BY <1>1, InitAll, InitPrecise
<1>3. CrashNeedsCause
  BY <1>1 DEF CrashNeedsCause
<1>4. PointInv
  BY <1>1, EntryIsSeen DEF PointInv, IsPoint
<1> QED
  BY <1>2, <1>3, <1>4 DEF ExecInv

\* And no step breaks it.
LEMMA NextExec == ExecInv /\ [SNext]_allVars => ExecInv'
<1> SUFFICES ASSUME ExecInv, [SNext]_allVars PROVE ExecInv'
  OBVIOUS
<1>1. [Next]_vars
  BY DEF SNext, Build, Execute, allVars
<1>2. AllInv' /\ PreciseInv' /\ CrashNeedsCause'
  BY <1>1, NextAll, NextPrecise, NextHasCause DEF ExecInv, AllInv
<1>3. PointInv'
  <2>1. CASE UNCHANGED allVars
    <3>1. /\ fn' = fn /\ edges' = edges /\ pc' = pc /\ point' = point
      BY <2>1 DEF allVars, vars
    <3>2. IsPoint(point)' = IsPoint(point) /\ KeepsJoins' = KeepsJoins
      BY <3>1 DEF IsPoint, NodesOfBody, KeepsJoins
    <3> QED
      BY <3>1, <3>2 DEF ExecInv, PointInv
  <2>2. CASE Build
    <3>1. pc # "done" /\ pc' # "start"
      BY <2>2, BuildsOnce DEF Build, ExecInv, AllInv
    <3>2. point' = InstsNode
      BY <2>2, <3>1 DEF Build, ExecInv, PointInv
    <3>3. View(fn', InstsNode) = InstsNode
      BY EntryIsSeen
    <3> QED
      BY <3>1, <3>2, <3>3 DEF PointInv, IsPoint
  <2>3. CASE Execute
    <3> PICK s \in Step(fn, point) : point' = s[1]
      BY <2>3 DEF Execute
    <3>1. /\ pc = "done" /\ fn' = fn /\ edges' = edges /\ pc' = pc
          /\ IsBody(fn) /\ IsPoint(point)
      BY <2>3 DEF Execute, vars, ExecInv, AllInv, BaseInv, PointInv
    <3>2. IsPoint(point)'
      <4>1. IsPoint(s[1])
        BY <3>1, StepIsPoint
      <4> QED
        BY <3>1, <4>1 DEF IsPoint, NodesOfBody
    <3>3. KeepsJoins' = KeepsJoins
      BY <3>1 DEF KeepsJoins
    <3>4. KeepsJoins => \/ View(fn, point)' = InstsNode
                        \/ HasInEdges(edges, View(fn, point)')
      BY <2>3, ExecuteFollows DEF ExecInv, PointInv, HasInEdges
    <3> QED
      BY <3>1, <3>2, <3>3, <3>4 DEF PointInv
  <2> QED
    BY <2>1, <2>2, <2>3 DEF SNext
<1> QED
  BY <1>2, <1>3 DEF ExecInv

\* So it always holds.
LEMMA ExecAlways == SSpec => []ExecInv
BY InitExec, NextExec, PTL DEF SSpec

\* Whatever path a function takes, the graph has an edge for each of its
\* steps, unless a join of the function is lost.
THEOREM GraphIsSound == SSpec => []SoundUnlessJoinLost
<1>1. ExecInv => SoundUnlessJoinLost
  BY PointIsCovered DEF SoundUnlessJoinLost, Sound, StepEdges, Out
<1> QED
  BY <1>1, ExecAlways, PTL

\* The graph has no other edge where an execution can come.
THEOREM GraphIsPrecise == SSpec => []PreciseUnlessJoinLost
<1>1. ExecInv => PreciseUnlessJoinLost
  BY DEF ExecInv, PreciseInv, PreciseUnlessJoinLost, Precise, StepEdges, IsStep,
         Out, Doomed, Active
<1> QED
  BY <1>1, ExecAlways, PTL

\* A call that may execute has the call graph edges of all its callees.
THEOREM CallsAreCovered == SSpec => []CallsCoveredUnlessJoinLost
<1>1. ExecInv => CallsCoveredUnlessJoinLost
  <2> SUFFICES ASSUME ExecInv, pc = "done", KeepsJoins, NEW e \in Exprs,
                      point = Inst(e), fn.kind[e] \in Calls
               PROVE  {Inst(e)} \X fn.callees[e] \subseteq cg
    BY DEF CallsCoveredUnlessJoinLost
  <2>1. Visible
    BY ViewOfNodes DEF Visible
  <2> QED
    BY <2>1, PointIsCovered
<1> QED
  BY <1>1, ExecAlways, PTL

\* Nothing stops the builder but a list without expressions whose end it
\* links or a label that no expression around the branch declares.
THEOREM CrashHasCause == SSpec => []CrashNeedsCause
<1>1. ExecInv => CrashNeedsCause
  BY DEF ExecInv
<1> QED
  BY <1>1, ExecAlways, PTL

\* The builder and the executions of what it has built implement the walk on
\* a graph that only grows and then stays.
THEOREM ExecutionIsWalk == SSpec => WalkSpec
<1>1. SInit => Walk!Init
  <2> SUFFICES ASSUME SInit PROVE Walk!Init
    OBVIOUS
  <2>1. edges = {} /\ point = InstsNode
    BY DEF SInit, Init, Start
  <2> QED
    BY <2>1, EntryIsSeen DEF Walk!Init
<1>2. ExecInv /\ [SNext]_allVars
        => [Walk!Next]_<<edges, IF KeepsJoins THEN View(fn, point) ELSE InstsNode>>
  <2> SUFFICES ASSUME ExecInv, [SNext]_allVars
               PROVE  [Walk!Next]_<<edges, IF KeepsJoins THEN View(fn, point)
                                           ELSE InstsNode>>
    OBVIOUS
  <2>1. CASE UNCHANGED allVars
    <3>1. fn' = fn /\ edges' = edges /\ point' = point /\ KeepsJoins' = KeepsJoins
      BY <2>1 DEF allVars, vars, KeepsJoins
    <3> QED
      BY <3>1
  <2>2. CASE Build
    <3>1. fn' = fn /\ point = InstsNode /\ point' = InstsNode
      BY <2>2, BuildsOnce, FunctionStays
      DEF Build, ExecInv, AllInv, BaseInv, PointInv
    <3>2. edges \subseteq edges'
      BY <2>2, EdgesGrow DEF Build, ExecInv, PointInv
    <3>3. View(fn, InstsNode) = InstsNode /\ View(fn', InstsNode) = InstsNode
      BY EntryIsSeen
    <3> QED
      BY <3>1, <3>2, <3>3 DEF Walk!Next, Walk!Build
  <2>3. CASE Execute
    <3>1. fn' = fn /\ edges' = edges /\ KeepsJoins' = KeepsJoins
      BY <2>3 DEF Execute, vars, KeepsJoins
    <3>2. CASE ~KeepsJoins
      BY <3>1, <3>2
    <3>3. CASE KeepsJoins
      BY <2>3, <3>1, <3>3, ExecuteFollows DEF Walk!Next, Walk!Walk
    <3> QED
      BY <3>2, <3>3
  <2> QED
    BY <2>1, <2>2, <2>3 DEF SNext
<1> QED
  BY <1>1, <1>2, ExecAlways, PTL DEF SSpec, WalkSpec, Walk!Spec
=============================================================================
