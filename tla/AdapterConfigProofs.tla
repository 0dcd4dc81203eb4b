-------------------------- MODULE AdapterConfigProofs -------------------------
(***************************************************************************)
(* Proofs about the adapter configuration, for every document, every limit *)
(* and every set of known fields.  First the walk of _validate_json_tree:  *)
(* it keeps everything it has not visited ahead and in order, whatever it  *)
(* refuses a value for, and refuses exactly what a document must not hold, *)
(* so it misses no fault and reports the rightmost.  Then the decoders and *)
(* the rules between fields, for a document the walk has found clean: the  *)
(* constructors of the profile and of the manifest accept everything the   *)
(* decoders give them, so a call ends with a configuration or with a       *)
(* documented code.  Last what the configuration says: its issues are the  *)
(* document's, and every step is one of ConfigReport's.                    *)
(***************************************************************************)
EXTENDS AdapterConfig, FiniteSetTheorems, SequenceTheorems, WellFoundedInduction, TLAPS

(***************************************************************************)
(* Every non-empty set of naturals has a least element.                    *)
(***************************************************************************)
Below == {pair \in Nat \X Nat : pair[1] < pair[2]}

LEMMA BelowWellFounded == IsWellFoundedOn(Below, Nat)
<1>1. OpToRel(<, Nat) = Below
  BY DEF OpToRel, Below
<1> QED
  BY <1>1, NatLessThanWellFounded

LEMMA LeastExists ==
  ASSUME NEW S \in SUBSET Nat, S # {}
  PROVE  \E m \in S : \A k \in S : m <= k
<1>1. PICK m \in S : \A k \in S : ~(<<k, m>> \in Below)
  BY BelowWellFounded, WFMin
<1>2. \A k \in S : ~(k < m)
  BY <1>1 DEF Below
<1> QED
  BY <1>2

-----------------------------------------------------------------------------
(***************************************************************************)
(* Paths.  Under(q, p): p is q or below it.  RightOf(q, p): q branches off *)
(* to the right of p, at a list or object both go through.                 *)
(***************************************************************************)
Under(q, p) == Len(q) <= Len(p) /\ \A k \in 1 .. Len(q) : p[k] = q[k]

RightOf(q, p) ==
  \E k \in 1 .. Len(p) :
    /\ k <= Len(q)
    /\ \A j \in 1 .. k - 1 : p[j] = q[j]
    /\ q[k] > p[k]

LEMMA PrefixIsUnder ==
  ASSUME NEW q \in Path, NEW p \in Path
  PROVE  IsPrefix(q, p) <=> Under(q, p)
<1>1. Len(q) \in Nat /\ Len(p) \in Nat
  BY DEF Path
<1>2. ASSUME Len(q) <= Len(p)
      PROVE  /\ SubSeq(q, 1, Len(q)) = [k \in 1 .. Len(q) |-> q[k]]
             /\ SubSeq(p, 1, Len(q)) = [k \in 1 .. Len(q) |-> p[k]]
  BY <1>1, <1>2 DEF Path
<1> QED
  BY <1>1, <1>2 DEF IsPrefix, Under

LEMMA UnderBothWays ==
  ASSUME NEW q \in Path, NEW p \in Path, Under(q, p), Under(p, q)
  PROVE  p = q
  BY DEF Under, Path

LEMMA RightOfBelow ==
  ASSUME NEW q \in Path, NEW p \in Path, RightOf(q, p)
  PROVE  /\ \A x \in Path : Under(p, x) => RightOf(q, x)
         /\ \A y \in Path : Under(q, y) => RightOf(y, p)
<1>1. Len(q) \in Nat /\ Len(p) \in Nat
  BY DEF Path
<1>2. PICK k \in 1 .. Len(p) :
        k <= Len(q) /\ (\A j \in 1 .. k - 1 : p[j] = q[j]) /\ q[k] > p[k]
  BY DEF RightOf
<1>3. ASSUME NEW x \in Path, Under(p, x) PROVE RightOf(q, x)
  <2>1. Len(x) \in Nat /\ k \in 1 .. Len(x) /\ x[k] = p[k]
    BY <1>1, <1>2, <1>3 DEF Under, Path
  <2>2. \A j \in 1 .. k - 1 : x[j] = p[j]
    BY <1>1, <1>3 DEF Under
  <2> QED
    BY <1>2, <2>1, <2>2 DEF RightOf
<1>4. ASSUME NEW y \in Path, Under(q, y) PROVE RightOf(y, p)
  <2>1. k <= Len(y) /\ y[k] = q[k]
    BY <1>1, <1>2, <1>4 DEF Under, Path
  <2>2. \A j \in 1 .. k - 1 : y[j] = q[j]
    BY <1>1, <1>2, <1>4 DEF Under
  <2> QED
    BY <1>2, <2>1, <2>2 DEF RightOf
<1> QED
  BY <1>3, <1>4

LEMMA RightOfApart ==
  ASSUME NEW q \in Path, NEW p \in Path, RightOf(q, p)
  PROVE  ~Under(p, q) /\ ~Under(q, p) /\ ~RightOf(p, q)
<1>1. Len(q) \in Nat /\ Len(p) \in Nat
  BY DEF Path
<1>2. PICK k \in 1 .. Len(p) :
        k <= Len(q) /\ (\A j \in 1 .. k - 1 : p[j] = q[j]) /\ q[k] > p[k]
  BY DEF RightOf
<1>3. p[k] \in Nat /\ q[k] \in Nat /\ p[k] # q[k] /\ k \in 1 .. Len(q)
  BY <1>1, <1>2 DEF Path
<1>4. ~Under(p, q) /\ ~Under(q, p)
  BY <1>3 DEF Under
<1>5. ASSUME NEW m \in 1 .. Len(q), m <= Len(p),
             \A j \in 1 .. m - 1 : q[j] = p[j], p[m] > q[m]
      PROVE  FALSE
  <2>1. CASE m < k
    <3>1. m \in 1 .. k - 1
      BY <1>1, <2>1
    <3>2. p[m] = q[m] /\ q[m] \in Nat
      BY <1>1, <1>2, <3>1 DEF Path
    <3> QED
      BY <1>5, <3>2
  <2>2. CASE m = k
    BY <1>2, <1>3, <1>5, <2>2
  <2>3. CASE k < m
    <3>1. k \in 1 .. m - 1
      BY <1>1, <2>3
    <3> QED
      BY <1>3, <1>5, <3>1
  <2> QED
    BY <1>1, <2>1, <2>2, <2>3
<1> QED
  BY <1>4, <1>5 DEF RightOf

LEMMA EarlierIs ==
  ASSUME NEW q \in Path, NEW p \in Path, Earlier(q, p)
  PROVE  (Under(q, p) /\ q # p) \/ RightOf(q, p)
<1>1. CASE IsStrictPrefix(q, p)
  BY <1>1, PrefixIsUnder DEF IsStrictPrefix
<1>2. CASE ~IsStrictPrefix(q, p)
  <2>1. PICK i \in DOMAIN p \cap DOMAIN q :
          SubSeq(p, 1, i - 1) = SubSeq(q, 1, i - 1) /\ q[i] > p[i]
    BY <1>2 DEF Earlier
  <2>2. /\ Len(p) \in Nat /\ Len(q) \in Nat
        /\ i \in 1 .. Len(p) /\ i <= Len(q)
    BY <2>1 DEF Path
  <2>3. /\ SubSeq(p, 1, i - 1) = [j \in 1 .. i - 1 |-> p[j]]
        /\ SubSeq(q, 1, i - 1) = [j \in 1 .. i - 1 |-> q[j]]
    BY <2>2 DEF Path
  <2>4. \A j \in 1 .. i - 1 : p[j] = q[j]
    BY <2>1, <2>3
  <2> QED
    BY <2>1, <2>2, <2>4 DEF RightOf
<1> QED
  BY <1>1, <1>2

(***************************************************************************)
(* The children of a value.                                                *)
(***************************************************************************)
LEMMA ChildPath ==
  ASSUME NEW q \in Path, NEW i \in Nat \ {0}
  PROVE  /\ Append(q, i) \in Path
         /\ Len(Append(q, i)) = Len(q) + 1
         /\ Append(q, i)[Len(q) + 1] = i
         /\ \A k \in 1 .. Len(q) : Append(q, i)[k] = q[k]
         /\ Under(q, Append(q, i))
  BY DEF Path, Under

LEMMA LaterChildRight ==
  ASSUME NEW q \in Path, NEW i \in Nat \ {0}, NEW j \in Nat \ {0}, i < j
  PROVE  RightOf(Append(q, j), Append(q, i))
<1>1. Len(q) \in Nat
  BY DEF Path
<1>2. /\ Len(Append(q, i)) = Len(q) + 1 /\ Len(Append(q, j)) = Len(q) + 1
      /\ Append(q, i)[Len(q) + 1] = i /\ Append(q, j)[Len(q) + 1] = j
      /\ \A k \in 1 .. Len(q) : Append(q, i)[k] = q[k] /\ Append(q, j)[k] = q[k]
  BY ChildPath
<1>3. Len(q) + 1 \in 1 .. Len(Append(q, i)) /\ (Len(q) + 1) - 1 = Len(q)
  BY <1>1, <1>2
<1> QED
  BY <1>1, <1>2, <1>3 DEF RightOf

(***************************************************************************)
(* A tree has every prefix of its paths ...                                *)
(***************************************************************************)
LEMMA PrefixInTree ==
  ASSUME NEW t, IsTree(t), NEW p \in DOMAIN t, NEW m \in 0 .. Len(p)
  PROVE  SubSeq(p, 1, m) \in DOMAIN t
<1>1. p \in Path /\ Len(p) \in Nat
  BY DEF IsTree, Path
<1> DEFINE Bad == {k \in 0 .. Len(p) : SubSeq(p, 1, Len(p) - k) \notin DOMAIN t}
<1>2. Bad = {}
  <2> SUFFICES ASSUME Bad # {} PROVE FALSE
    OBVIOUS
  <2>1. Bad \in SUBSET Nat
    OBVIOUS
  <2>2. PICK k \in Bad : \A i \in Bad : k <= i
    BY <2>1, LeastExists
  <2>3. k # 0
    <3>1. SubSeq(p, 1, Len(p)) = p
      BY <1>1 DEF Path
    <3>2. Len(p) - 0 = Len(p)
      BY <1>1
    <3> QED
      BY <2>2, <3>1, <3>2
  <2>4. k - 1 \in 0 .. Len(p) /\ k - 1 \notin Bad
    BY <1>1, <2>2, <2>3
  <2> DEFINE n == Len(p) - (k - 1)
             r == SubSeq(p, 1, n)
  <2>5. r \in DOMAIN t
    BY <2>4
  <2>6. n \in 1 .. Len(p) /\ n - 1 = Len(p) - k
    BY <1>1, <2>2, <2>3
  <2>7. r \in Path /\ Len(r) = n /\ \A i \in 1 .. n : r[i] = p[i]
    BY <1>1, <2>6 DEF Path
  <2> HIDE DEF n, r
  <2>8. r # <<>>
    BY <1>1, <2>6, <2>7
  <2>9. Front(r) = SubSeq(p, 1, n - 1)
    <3>1. Front(r) = [i \in 1 .. n - 1 |-> r[i]]
      BY <1>1, <2>6, <2>7 DEF Front, Path
    <3>2. SubSeq(p, 1, n - 1) = [i \in 1 .. n - 1 |-> p[i]]
      BY <1>1, <2>6 DEF Path
    <3> QED
      BY <1>1, <2>6, <2>7, <3>1, <3>2
  <2>10. Front(r) \in DOMAIN t
    BY <2>5, <2>8 DEF IsTree
  <2> QED
    BY <2>2, <2>6, <2>9, <2>10
<1>3. Len(p) - m \in 0 .. Len(p) /\ Len(p) - (Len(p) - m) = m
  BY <1>1
<1> QED
  BY <1>2, <1>3

(***************************************************************************)
(* ... so what is below a value is below one of its children.              *)
(***************************************************************************)
LEMMA BelowChild ==
  ASSUME NEW t, IsTree(t), NEW q \in DOMAIN t, NEW p \in DOMAIN t, Under(q, p), q # p
  PROVE  \E i \in 1 .. Width(t[q]) : Under(Append(q, i), p)
<1>1. p \in Path /\ q \in Path /\ Len(p) \in Nat /\ Len(q) \in Nat
  BY DEF IsTree, Path
<1>2. Len(q) < Len(p)
  <2>1. CASE Len(q) = Len(p)
    <3>1. Under(p, q)
      BY <2>1 DEF Under
    <3> QED
      BY <1>1, <3>1, UnderBothWays
  <2> QED
    BY <1>1, <2>1 DEF Under
<1> DEFINE n == Len(q) + 1
           r == SubSeq(p, 1, n)
<1>3. n \in 1 .. Len(p) /\ n - 1 = Len(q)
  BY <1>1, <1>2
<1>4. r \in DOMAIN t
  BY <1>3, PrefixInTree
<1>5. r \in Path /\ Len(r) = n /\ \A i \in 1 .. n : r[i] = p[i]
  BY <1>1, <1>3 DEF Path
<1>6. r # <<>>
  BY <1>3, <1>5
<1>7. Front(r) = q
  <2>1. Front(r) = [i \in 1 .. Len(q) |-> r[i]]
    BY <1>1, <1>3, <1>5 DEF Front, Path
  <2>2. \A i \in 1 .. Len(q) : r[i] = q[i]
    BY <1>3, <1>5 DEF Under
  <2>3. q = [i \in 1 .. Len(q) |-> q[i]]
    BY <1>1 DEF Path
  <2> QED
    BY <2>1, <2>2, <2>3
<1>8. Last(r) = p[n]
  BY <1>3, <1>5 DEF Last
<1>9. p[n] \in 1 .. Width(t[q]) /\ p[n] \in Nat \ {0}
  <2>1. Last(r) \in 1 .. Width(t[Front(r)])
    BY <1>4, <1>6 DEF IsTree
  <2>2. p[n] \in Nat \ {0}
    BY <1>1, <1>3 DEF Path
  <2> QED
    BY <1>7, <1>8, <2>1, <2>2
<1>10. Under(Append(q, p[n]), p)
  <2>1. /\ Len(Append(q, p[n])) = n /\ Append(q, p[n])[n] = p[n]
        /\ \A k \in 1 .. Len(q) : Append(q, p[n])[k] = q[k]
    BY <1>1, <1>9, ChildPath
  <2>2. \A k \in 1 .. n : k \in 1 .. Len(q) \/ k = n
    BY <1>1
  <2> QED
    BY <1>1, <1>3, <2>1, <2>2 DEF Under
<1> QED
  BY <1>9, <1>10

-----------------------------------------------------------------------------
(***************************************************************************)
(* The stack, from its bottom to its top, goes through the document from   *)
(* the last value still to visit to the next one.                          *)
(***************************************************************************)
StackOrdered ==
  /\ tree \in Trees
  /\ stack \in Seq(DOMAIN tree)
  /\ \A i, j \in 1 .. Len(stack) : i < j => RightOf(stack[j], stack[i])

LEMMA TreePaths ==
  ASSUME StackOrdered
  PROVE  /\ IsTree(tree)
         /\ \A p \in DOMAIN tree : p \in Path
         /\ Len(stack) \in Nat
         /\ \A i \in 1 .. Len(stack) : stack[i] \in DOMAIN tree
         /\ Walking => Top = stack[Len(stack)] /\ Len(stack) \in 1 .. Len(stack)
  BY TreesAssumption DEF StackOrdered, IsTree, Walking, Top, Last

LEMMA AheadIsUnder ==
  ASSUME StackOrdered
  PROVE  Ahead = {p \in DOMAIN tree : \E i \in 1 .. Len(stack) : Under(stack[i], p)}
<1>1. DOMAIN stack = 1 .. Len(stack)
  BY DEF StackOrdered
<1>2. \A i \in 1 .. Len(stack), p \in DOMAIN tree :
        IsPrefix(stack[i], p) <=> Under(stack[i], p)
  BY TreePaths, PrefixIsUnder
<1> QED
  BY <1>1, <1>2 DEF Ahead

LEMMA Joined ==
  ASSUME NEW S, NEW a \in Seq(S), NEW b \in Seq(S)
  PROVE  /\ a \o b \in Seq(S)
         /\ Len(a \o b) = Len(a) + Len(b)
         /\ \A i \in 1 .. Len(a) : (a \o b)[i] = a[i]
         /\ \A i \in 1 .. Len(b) : (a \o b)[Len(a) + i] = b[i]
  OBVIOUS

(***************************************************************************)
(* The stack after a visit: the values below the top stay, its children    *)
(* follow.                                                                 *)
(***************************************************************************)
LEMMA VisitedStack ==
  ASSUME StackOrdered, VisitClean
  PROVE  \E n \in Nat, w \in Nat :
           /\ Len(stack) = n + 1 /\ w = Width(tree[Top])
           /\ Len(stack') = n + w
           /\ \A i \in 1 .. n : stack'[i] = stack[i]
           /\ \A i \in 1 .. w : stack'[n + i] = Append(Top, i)
           /\ stack' \in Seq(DOMAIN tree)
<1> DEFINE n == Len(stack) - 1
           w == Width(tree[Top])
<1>1. /\ IsTree(tree) /\ stack \in Seq(DOMAIN tree)
      /\ Top \in DOMAIN tree /\ n \in Nat /\ Len(stack) = n + 1
  BY TreePaths DEF VisitClean, StackOrdered
<1>2. w \in Nat
  <2>1. tree[Top] \in Node
    BY <1>1 DEF IsTree
  <2>2. CASE tree[Top].kind = "dict"
    <3>1. tree[Top].keys \in Seq(Text)
      BY <2>1, <2>2 DEF Node
    <3> QED
      BY <2>2, <3>1 DEF Width
  <2>3. CASE tree[Top].kind = "list"
    <3>1. tree[Top].size \in Nat
      BY <2>1, <2>3 DEF Node
    <3> QED
      BY <2>3, <3>1 DEF Width
  <2> QED
    BY <2>2, <2>3 DEF Width
<1>3. \A i \in 1 .. w : Append(Top, i) \in DOMAIN tree
  BY <1>1 DEF IsTree
<1> HIDE DEF w
<1>4. stack' = Front(stack) \o Children(Top)
  BY DEF VisitClean
<1>5. /\ Children(Top) = [i \in 1 .. w |-> Append(Top, i)]
      /\ Children(Top) \in Seq(DOMAIN tree) /\ Len(Children(Top)) = w
  <2>1. Children(Top) = [i \in 1 .. w |-> Append(Top, i)]
    BY DEF Children, w
  <2>2. [i \in 1 .. w |-> Append(Top, i)] \in [1 .. w -> DOMAIN tree]
    BY <1>3
  <2> QED
    BY <1>2, <2>1, <2>2
<1>6. /\ Front(stack) \in Seq(DOMAIN tree) /\ Len(Front(stack)) = n
      /\ \A i \in 1 .. n : Front(stack)[i] = stack[i]
  BY <1>1 DEF Front
<1> HIDE DEF n
<1>7. /\ stack' \in Seq(DOMAIN tree)
      /\ Len(stack') = Len(Front(stack)) + Len(Children(Top))
      /\ \A i \in 1 .. Len(Front(stack)) : stack'[i] = Front(stack)[i]
      /\ \A i \in 1 .. Len(Children(Top)) :
           stack'[Len(Front(stack)) + i] = Children(Top)[i]
  <2>1. Front(stack) \in Seq(DOMAIN tree) /\ Children(Top) \in Seq(DOMAIN tree)
    BY <1>5, <1>6
  <2> QED
    BY <1>4, <2>1, Joined
<1>8. Len(stack') = n + w /\ \A i \in 1 .. n : stack'[i] = stack[i]
  BY <1>5, <1>6, <1>7
<1>9. \A i \in 1 .. w : stack'[n + i] = Append(Top, i)
  <2> SUFFICES ASSUME NEW i \in 1 .. w PROVE stack'[n + i] = Append(Top, i)
    OBVIOUS
  <2>1. stack'[n + i] = Children(Top)[i]
    BY <1>5, <1>6, <1>7
  <2> QED
    BY <1>5, <2>1
<1> QED
  BY <1>1, <1>2, <1>7, <1>8, <1>9 DEF w

(***************************************************************************)
(* A visit takes the top value, and nothing else, from what is ahead, and  *)
(* keeps the order of the stack.                                           *)
(***************************************************************************)
LEMMA VisitTakesTop ==
  ASSUME StackOrdered, VisitClean
  PROVE  StackOrdered' /\ Top \in Ahead /\ Ahead' = Ahead \ {Top}
<1>1. PICK n \in Nat, w \in Nat :
           /\ Len(stack) = n + 1 /\ w = Width(tree[Top])
           /\ Len(stack') = n + w
           /\ \A i \in 1 .. n : stack'[i] = stack[i]
           /\ \A i \in 1 .. w : stack'[n + i] = Append(Top, i)
           /\ stack' \in Seq(DOMAIN tree)
  BY VisitedStack
<1>2. tree' = tree /\ Top = stack[n + 1]
  BY <1>1, TreePaths DEF VisitClean
<1>3. /\ IsTree(tree) /\ tree \in Trees
      /\ \A p \in DOMAIN tree : p \in Path
      /\ \A i \in 1 .. n : stack[i] \in DOMAIN tree
      /\ Top \in DOMAIN tree
  BY <1>1, <1>2, TreePaths DEF StackOrdered
<1>4. \A i \in 1 .. n : RightOf(Top, stack[i])
  BY <1>1, <1>2 DEF StackOrdered
<1>5. \A i \in 1 .. w : Append(Top, i) \in Path /\ Under(Top, Append(Top, i))
  BY <1>3, ChildPath
<1>6. \A i \in 1 .. n + w : i \in 1 .. n \/ (i - n \in 1 .. w /\ n + (i - n) = i)
  OBVIOUS
<1>7. ASSUME NEW i \in 1 .. n + w, NEW j \in 1 .. n + w, i < j
      PROVE  RightOf(stack'[j], stack'[i])
  <2>1. CASE j \in 1 .. n
    <3>1. i \in 1 .. n /\ i \in 1 .. n + 1 /\ j \in 1 .. n + 1
      BY <1>7, <2>1
    <3> QED
      BY <1>1, <1>7, <2>1, <3>1 DEF StackOrdered
  <2>2. CASE i \in 1 .. n /\ j - n \in 1 .. w /\ n + (j - n) = j
    <3>1. stack'[j] = Append(Top, j - n) /\ stack'[i] = stack[i]
      BY <1>1, <2>2
    <3>2. RightOf(Top, stack[i]) /\ Under(Top, Append(Top, j - n))
      BY <1>4, <1>5, <2>2
    <3> QED
      BY <1>3, <1>5, <2>2, <3>1, <3>2, RightOfBelow
  <2>3. CASE /\ i - n \in 1 .. w /\ n + (i - n) = i
             /\ j - n \in 1 .. w /\ n + (j - n) = j
    <3>1. stack'[j] = Append(Top, j - n) /\ stack'[i] = Append(Top, i - n)
      BY <1>1, <2>3
    <3>2. i - n < j - n /\ i - n \in Nat \ {0} /\ j - n \in Nat \ {0}
      BY <1>7, <2>3
    <3> QED
      BY <1>3, <3>1, <3>2, LaterChildRight
  <2> QED
    BY <1>6, <1>7, <2>1, <2>2, <2>3
<1>8. StackOrdered'
  BY <1>1, <1>2, <1>3, <1>7 DEF StackOrdered
<1>9. Ahead = {p \in DOMAIN tree : \E i \in 1 .. n + 1 : Under(stack[i], p)}
  BY <1>1, AheadIsUnder
<1>10. Ahead' = {p \in DOMAIN tree : \E i \in 1 .. n + w : Under(stack'[i], p)}
  <2>1. DOMAIN stack' = 1 .. n + w /\ \A i \in 1 .. n + w : stack'[i] \in DOMAIN tree
    BY <1>1
  <2>2. \A i \in 1 .. n + w, p \in DOMAIN tree :
          IsPrefix(stack'[i], p) <=> Under(stack'[i], p)
    BY <1>3, <2>1, PrefixIsUnder
  <2> QED
    BY <1>2, <2>1, <2>2 DEF Ahead
<1>11. Under(Top, Top)
  BY <1>3 DEF Under, Path
<1>12. Top \in Ahead
  BY <1>2, <1>3, <1>9, <1>11
<1>13. ASSUME NEW p \in DOMAIN tree, NEW i \in 1 .. n + w, Under(stack'[i], p)
       PROVE  p # Top /\ \E j \in 1 .. n + 1 : Under(stack[j], p)
  <2>1. CASE i \in 1 .. n
    <3>1. stack'[i] = stack[i] /\ i \in 1 .. n + 1
      BY <1>1, <2>1
    <3>2. ~Under(stack[i], Top)
      BY <1>3, <1>4, <2>1, RightOfApart
    <3> QED
      BY <1>13, <3>1, <3>2
  <2>2. CASE i - n \in 1 .. w /\ n + (i - n) = i
    <3>1. stack'[i] = Append(Top, i - n)
      BY <1>1, <2>2
    <3>2. /\ i - n \in Nat \ {0}
          /\ Len(Append(Top, i - n)) = Len(Top) + 1
          /\ \A k \in 1 .. Len(Top) : Append(Top, i - n)[k] = Top[k]
      BY <1>3, <2>2, ChildPath
    <3>3. Len(Top) \in Nat /\ Len(p) \in Nat
      BY <1>3 DEF Path
    <3>4. Len(Top) + 1 <= Len(p) /\ Under(Top, p)
      BY <1>13, <3>1, <3>2, <3>3 DEF Under
    <3> QED
      BY <1>2, <3>3, <3>4
  <2> QED
    BY <1>6, <2>1, <2>2
<1>14. ASSUME NEW p \in DOMAIN tree, p # Top, NEW j \in 1 .. n + 1, Under(stack[j], p)
       PROVE  \E i \in 1 .. n + w : Under(stack'[i], p)
  <2>1. CASE j \in 1 .. n
    BY <1>1, <1>14, <2>1
  <2>2. CASE j = n + 1
    <3>1. PICK i \in 1 .. w : Under(Append(Top, i), p)
      BY <1>1, <1>2, <1>3, <1>14, <2>2, BelowChild
    <3>2. n + i \in 1 .. n + w
      OBVIOUS
    <3> QED
      BY <1>1, <3>1, <3>2
  <2> QED
    BY <2>1, <2>2
<1> QED
  BY <1>8, <1>9, <1>10, <1>12, <1>13, <1>14

(***************************************************************************)
(* The walk keeps its stack in order, for every document.                  *)
(***************************************************************************)
LEMMA OrderStep ==
  ASSUME StackOrdered, [WalkNext]_walk
  PROVE  StackOrdered'
<1>1. ASSUME UNCHANGED <<tree, stack>> PROVE StackOrdered'
  BY <1>1 DEF StackOrdered
<1> QED
  BY <1>1, VisitTakesTop
     DEF WalkNext, RefuseText, RefuseCollection, RefuseKey, Raise, walk

LEMMA StartOrdered == tree \in Trees /\ WalkInit => StackOrdered
<1> SUFFICES ASSUME tree \in Trees, WalkInit PROVE StackOrdered
  OBVIOUS
<1>1. /\ tree \in Trees /\ stack = << <<>> >> /\ Len(stack) = 1
      /\ <<>> \in DOMAIN tree
  BY TreesAssumption DEF WalkInit, IsTree
<1> QED
  BY <1>1 DEF StackOrdered

(***************************************************************************)
(* The stack of the walk holds values of the tree that lie apart, each to  *)
(* the left of what is below it, so what is ahead is visited in one order. *)
(***************************************************************************)
THEOREM OrderCorrect == WalkSpec => []StackOrdered
<1>1. StackOrdered /\ [WalkNext]_walk => StackOrdered'
  BY OrderStep
<1>2. WalkStart => tree \in Trees /\ WalkInit
  BY DEF WalkStart
<1> QED
  BY StartOrdered, <1>1, <1>2, PTL DEF WalkSpec

(***************************************************************************)
(* Every step that raises no error takes exactly the next value from what  *)
(* is ahead: no value is visited twice and none is skipped.                *)
(***************************************************************************)
THEOREM VisitsOnce == WalkSpec => OneValueAStep
<1>1. StackOrdered /\ [WalkNext]_walk
        => [code' = "none" => Top \in Ahead /\ Ahead' = Ahead \ {Top}]_walk
  <2> SUFFICES ASSUME StackOrdered, WalkNext, code' = "none"
               PROVE  Top \in Ahead /\ Ahead' = Ahead \ {Top}
    BY DEF walk
  <2>1. \A c \in {"invalid_unicode_scalar", "name_exceeds_policy_limit",
                  "collection_count_exceeds_policy_limit"} : c # "none"
    OBVIOUS
  <2>2. VisitClean
    BY <2>1 DEF WalkNext, RefuseText, RefuseCollection, RefuseKey, KeyCode, Raise
  <2> QED
    BY <2>2, VisitTakesTop
<1> QED
  BY OrderCorrect, <1>1, PTL DEF WalkSpec, OneValueAStep

(***************************************************************************)
(* What is defective depends on the document alone, which the walk keeps.  *)
(***************************************************************************)
LEMMA DefectsFixed ==
  ASSUME tree' = tree
  PROVE  \A p : Defective(p)' <=> Defective(p)
<1>1. \A p : BadKeyAt(p)' = BadKeyAt(p)
  BY DEF BadKeyAt, SelectInSeq, Keys, Kind, TooLong
<1>2. \A p : TooMany(p)' <=> TooMany(p)
  BY DEF TooMany, Kind, Width
<1>3. \A p : SurrogateText(p)' <=> SurrogateText(p)
  BY DEF SurrogateText, Kind
<1> QED
  BY <1>1, <1>2, <1>3 DEF Defective

(***************************************************************************)
(* No defect is left behind: the walk visits only clean values, and        *)
(* everything else stays ahead.                                            *)
(***************************************************************************)
DefectsAhead == \A p \in DOMAIN tree : Defective(p) => p \in Ahead

LEMMA MissStart ==
  ASSUME tree \in Trees, WalkInit
  PROVE  DefectsAhead
<1> SUFFICES ASSUME NEW p \in DOMAIN tree PROVE p \in Ahead
  BY DEF DefectsAhead
<1>1. StackOrdered /\ stack = << <<>> >>
  BY StartOrdered DEF WalkInit
<1>2. 1 \in 1 .. Len(stack) /\ stack[1] = <<>> /\ Len(p) \in Nat
  BY <1>1, TreePaths DEF Path
<1>3. Under(stack[1], p)
  BY <1>2 DEF Under
<1> QED
  BY <1>1, <1>2, <1>3, AheadIsUnder

LEMMA MissStep ==
  ASSUME StackOrdered, DefectsAhead, [WalkNext]_walk
  PROVE  DefectsAhead'
<1>1. tree' = tree
  BY DEF WalkNext, VisitClean, RefuseText, RefuseCollection, RefuseKey, Raise, walk
<1>2. \A p : Defective(p)' <=> Defective(p)
  BY <1>1, DefectsFixed
<1>3. CASE VisitClean
  <2>1. ~Defective(Top) /\ Ahead' = Ahead \ {Top}
    BY <1>3, VisitTakesTop DEF VisitClean
  <2> QED
    BY <1>1, <1>2, <2>1 DEF DefectsAhead
<1>4. CASE UNCHANGED <<tree, stack>>
  BY <1>1, <1>2, <1>4 DEF DefectsAhead, Ahead
<1> QED
  BY <1>3, <1>4 DEF WalkNext, RefuseText, RefuseCollection, RefuseKey, Raise, walk

(***************************************************************************)
(* The value refused is defective, and everything visited before it is     *)
(* clean: what is ahead is below it, or to the left of it.                 *)
(***************************************************************************)
LEMMA AheadIsLater ==
  ASSUME StackOrdered, stack # <<>>, NEW p \in Ahead
  PROVE  ~Earlier(p, Top)
<1>1. /\ Len(stack) \in 1 .. Len(stack) /\ Top = stack[Len(stack)]
      /\ Top \in Path /\ p \in Path
      /\ \A i \in 1 .. Len(stack) : stack[i] \in Path
  BY TreePaths DEF StackOrdered, Top, Last, Ahead
<1>2. PICK i \in 1 .. Len(stack) : Under(stack[i], p)
  BY AheadIsUnder
<1> SUFFICES ASSUME (Under(p, Top) /\ p # Top) \/ RightOf(p, Top) PROVE FALSE
  BY <1>1, EarlierIs
<1>3. CASE i = Len(stack)
  <2>1. Under(Top, p)
    BY <1>1, <1>2, <1>3
  <2> QED
    BY <1>1, <2>1, UnderBothWays, RightOfApart
<1>4. CASE i # Len(stack)
  <2>1. RightOf(Top, stack[i])
    BY <1>1, <1>4 DEF StackOrdered
  <2>2. RightOf(Top, p)
    BY <1>1, <1>2, <2>1, RightOfBelow
  <2> QED
    BY <1>1, <2>2, RightOfApart
<1> QED
  BY <1>3, <1>4

-----------------------------------------------------------------------------
(***************************************************************************)
(* Values of a document.  A value without a defect has only texts that     *)
(* have an encoding.                                                       *)
(***************************************************************************)
LEMMA ValueShape ==
  ASSUME IsTree(tree), NEW p \in DOMAIN tree
  PROVE  /\ tree[p] \in Node
         /\ Width(tree[p]) \in Nat
         /\ DOMAIN Keys(p) = IF Kind(p) = "dict" THEN 1 .. Width(tree[p]) ELSE {}
         /\ \A i \in 1 .. Width(tree[p]) : Append(p, i) \in DOMAIN tree
         /\ ToSet(Children(p)) = {Append(p, i) : i \in 1 .. Width(tree[p])}
         /\ DOMAIN Children(p) = 1 .. Width(tree[p])
<1>1. tree[p] \in Node /\ \A i \in 1 .. Width(tree[p]) : Append(p, i) \in DOMAIN tree
  BY DEF IsTree
<1>2. CASE tree[p].kind = "dict"
  <2>1. tree[p].keys \in Seq(Text)
    BY <1>1, <1>2 DEF Node
  <2>2. Keys(p) = tree[p].keys /\ Width(tree[p]) = Len(tree[p].keys)
    BY <1>2 DEF Keys, Kind, Width
  <2>3. Width(tree[p]) \in Nat /\ DOMAIN Keys(p) = 1 .. Width(tree[p])
    BY <2>1, <2>2
  <2> QED
    BY <1>1, <1>2, <2>3 DEF Kind, ToSet, Children
<1>3. CASE tree[p].kind # "dict"
  <2>1. Width(tree[p]) \in Nat
    <3>1. CASE tree[p].kind = "list"
      BY <1>1, <1>3, <3>1 DEF Node, Width
    <3>2. CASE tree[p].kind # "list"
      BY <1>3, <3>2 DEF Width
    <3> QED
      BY <3>1, <3>2
  <2>2. DOMAIN Keys(p) = {}
    BY <1>3 DEF Keys, Kind
  <2> QED
    BY <1>1, <1>3, <2>1, <2>2 DEF Kind, ToSet, Children
<1> QED
  BY <1>2, <1>3

JsonKinds == {"null", "bool", "int", "float", "str", "list", "dict"}

LEMMA KindIs ==
  ASSUME IsTree(tree), NEW p \in DOMAIN tree
  PROVE  Kind(p) \in JsonKinds
  BY ValueShape DEF Node, Kind, JsonKinds

Clean == \A p \in DOMAIN tree : ~Defective(p)

LEMMA BadKeyIs ==
  ASSUME IsTree(tree), NEW p \in DOMAIN tree
  PROVE  /\ BadKeyAt(p) # 0
              => /\ BadKeyAt(p) \in DOMAIN Keys(p)
                 /\ Keys(p)[BadKeyAt(p)] \in Surrogate \/ TooLong(Keys(p)[BadKeyAt(p)])
         /\ BadKeyAt(p) = 0
              => \A i \in DOMAIN Keys(p) : Keys(p)[i] \notin Surrogate /\ ~TooLong(Keys(p)[i])
<1> DEFINE I == {k \in 1 .. Len(Keys(p)) : Keys(p)[k] \in Surrogate \/ TooLong(Keys(p)[k])}
<1>1. DOMAIN Keys(p) = 1 .. Len(Keys(p)) /\ Len(Keys(p)) \in Nat
  <2>1. CASE Kind(p) = "dict"
    <3>1. /\ DOMAIN Keys(p) = 1 .. Width(tree[p]) /\ Width(tree[p]) \in Nat
      BY <2>1, ValueShape
    <3>2. Len(Keys(p)) = Width(tree[p])
      BY <2>1 DEF Keys, Kind, Width
    <3> QED
      BY <3>1, <3>2
  <2>2. CASE Kind(p) # "dict"
    <3>1. Keys(p) = <<>>
      BY <2>2 DEF Keys
    <3> QED
      BY <3>1
  <2> QED
    BY <2>1, <2>2
<1>2. BadKeyAt(p) = IF I # {} THEN Min(I) ELSE 0
  BY DEF BadKeyAt, SelectInSeq
<1>3. I # {} => Min(I) \in I /\ Min(I) # 0
  <2> SUFFICES ASSUME I # {} PROVE Min(I) \in I /\ Min(I) # 0
    OBVIOUS
  <2>1. I \in SUBSET Nat /\ \A k \in I : k # 0
    OBVIOUS
  <2>2. PICK m \in I : \A k \in I : m <= k
    BY <2>1, LeastExists
  <2> HIDE DEF I
  <2>3. Min(I) \in I
    BY <2>2 DEF Min
  <2> QED
    BY <2>1, <2>3
<1>4. CASE I # {}
  <2>1. BadKeyAt(p) \in I /\ BadKeyAt(p) # 0
    BY <1>2, <1>3, <1>4
  <2> QED
    BY <1>1, <2>1
<1>5. CASE I = {}
  BY <1>1, <1>2, <1>5
<1> QED
  BY <1>4, <1>5

-----------------------------------------------------------------------------
LEMMA FrontAndLast ==
  ASSUME NEW S, NEW s \in Seq(S), s # <<>>
  PROVE  s = Append(Front(s), Last(s))
<1>1. PICK n \in Nat \ {0} : Len(s) = n
  BY EmptySeq
<1>2. Front(s) = [i \in 1 .. n - 1 |-> s[i]]
  BY <1>1 DEF Front
<1>3. Front(s) \in Seq(S) /\ Len(Front(s)) = n - 1
  <2>1. \A i \in 1 .. n - 1 : s[i] \in S
    BY <1>1, ElementOfSeq
  <2>2. [i \in 1 .. n - 1 |-> s[i]] \in [1 .. n - 1 -> S] /\ n - 1 \in Nat
    BY <1>1, <2>1
  <2> QED
    BY <1>2, <2>2
<1>4. Last(s) = s[n] /\ s[n] \in S
  BY <1>1, ElementOfSeq DEF Last
<1> DEFINE a == Append(Front(s), Last(s))
<1>5. /\ a \in Seq(S) /\ Len(a) = n /\ a[n] = s[n]
      /\ \A i \in 1 .. n - 1 : a[i] = Front(s)[i]
  BY <1>1, <1>3, <1>4
<1>6. \A i \in 1 .. n : a[i] = s[i]
  BY <1>1, <1>2, <1>5
<1> HIDE DEF a
<1>7. a = s
  BY <1>1, <1>5, <1>6
<1> QED
  BY <1>7 DEF a

(***************************************************************************)
(* What the walk refuses a value for is what a document must not hold: the *)
(* keys are scanned up to the first bad one, and the root, the only value  *)
(* that nothing holds, is an object and exempt from the item limit.        *)
(***************************************************************************)
LEMMA HeldIs ==
  ASSUME IsTree(tree), NEW p \in DOMAIN tree
  PROVE  (\E q \in DOMAIN tree : p \in ToSet(Children(q))) <=> p # <<>>
<1>1. ASSUME NEW q \in DOMAIN tree, p \in ToSet(Children(q)) PROVE p # <<>>
  <2>1. PICK i \in 1 .. Width(tree[q]) : p = Append(q, i)
    BY <1>1, ValueShape
  <2>2. q \in Path /\ i \in Nat \ {0}
    BY ValueShape DEF IsTree
  <2>3. Len(p) = Len(q) + 1 /\ Len(q) \in Nat
    BY <2>1, <2>2, ChildPath DEF Path
  <2> QED
    BY <2>3
<1>2. ASSUME p # <<>> PROVE \E q \in DOMAIN tree : p \in ToSet(Children(q))
  <2>1. /\ Front(p) \in DOMAIN tree /\ Last(p) \in 1 .. Width(tree[Front(p)])
        /\ p \in Path
    BY <1>2 DEF IsTree
  <2>2. p = Append(Front(p), Last(p))
    BY <1>2, <2>1, FrontAndLast DEF Path
  <2>3. p \in ToSet(Children(Front(p)))
    BY <2>1, <2>2, ValueShape
  <2> QED
    BY <2>1, <2>3
<1> QED
  BY <1>1, <1>2

LEMMA FaultyIs ==
  ASSUME IsTree(tree), Kind(<<>>) = "dict", NEW p \in DOMAIN tree
  PROVE  Faulty(p) <=> Defective(p)
<1>1. SurrogateText(p) <=> Kind(p) = "str" /\ tree[p].text \in Surrogate
  BY DEF SurrogateText
<1>2. TooMany(p) <=> p # <<>> /\ Width(tree[p]) > MaxItems
  <2>1. Kind(p) \notin {"list", "dict"} => ~(Width(tree[p]) > MaxItems)
    BY WalkLimitsAssumption DEF Kind, Width
  <2> QED
    BY <2>1 DEF TooMany
<1>3. BadKeyAt(p) # 0
        <=> \E key \in ToSet(Keys(p)) : key \in Surrogate \/ Bytes[key] > MaxName
  <2>1. ToSet(Keys(p)) = {Keys(p)[i] : i \in DOMAIN Keys(p)}
    BY DEF ToSet
  <2> QED
    BY <2>1, BadKeyIs DEF TooLong
<1> QED
  BY <1>1, <1>2, <1>3, HeldIs DEF Faulty, Defective

(***************************************************************************)
(* _validate_json_tree leaves no fault behind: a fault of the document is  *)
(* always in what it still has to visit, so an empty stack means a         *)
(* document without one.                                                   *)
(***************************************************************************)
RootHolds == IsTree(tree) /\ Kind(<<>>) = "dict"

THEOREM RootCorrect == WalkSpec => []RootHolds
<1>1. WalkStart => RootHolds
  BY TreesAssumption DEF WalkStart, RootHolds
<1>2. RootHolds /\ [WalkNext]_walk => RootHolds'
  <2> SUFFICES ASSUME RootHolds, [WalkNext]_walk PROVE RootHolds'
    OBVIOUS
  <2>1. tree' = tree
    BY DEF WalkNext, VisitClean, RefuseText, RefuseCollection, RefuseKey, Raise, walk
  <2> QED
    BY <2>1 DEF RootHolds, Kind, IsTree
<1> QED
  BY <1>1, <1>2, PTL DEF WalkSpec

THEOREM DefectsStayAhead == WalkSpec => []DefectsAhead
<1>1. StackOrdered /\ DefectsAhead /\ [WalkNext]_walk => DefectsAhead'
  BY MissStep
<1>2. WalkStart => DefectsAhead
  BY MissStart DEF WalkStart
<1> QED
  BY OrderCorrect, <1>1, <1>2, PTL DEF WalkSpec

\* No fault of the document is left behind, root and unread values included.
THEOREM MissesNothing == WalkSpec => []NothingMissed
<1>1. RootHolds /\ DefectsAhead => NothingMissed
  BY FaultyIs DEF RootHolds, DefectsAhead, NothingMissed
<1> QED
  BY RootCorrect, DefectsStayAhead, <1>1, PTL

RefusalStands == code # "none" => stack # <<>> /\ Defective(Top)

(***************************************************************************)
(* The error _validate_json_tree raises is that of the rightmost faulty    *)
(* value of the document.                                                  *)
(***************************************************************************)
THEOREM ReportsTheRightmost == WalkSpec => []ReportsRightmost
<1>1. WalkStart => RefusalStands
  BY DEF WalkStart, WalkInit, RefusalStands
<1>2. RefusalStands /\ [WalkNext]_walk => RefusalStands'
  <2> SUFFICES ASSUME RefusalStands, [WalkNext]_walk PROVE RefusalStands'
    OBVIOUS
  <2>1. CASE VisitClean
    BY <2>1 DEF VisitClean, Walking, RefusalStands
  <2>2. ASSUME UNCHANGED <<tree, stack>>, stack # <<>>, Defective(Top)
        PROVE  RefusalStands'
    <3>1. Top' = Top
      BY <2>2 DEF Top
    <3>2. Defective(Top)' <=> Defective(Top)
      BY <2>2, <3>1, DefectsFixed
    <3> QED
      BY <2>2, <3>2 DEF RefusalStands
  <2>3. CASE RefuseText \/ RefuseCollection \/ RefuseKey
    BY <2>2, <2>3 DEF RefuseText, RefuseCollection, RefuseKey, Walking, Raise, Defective
  <2>4. CASE UNCHANGED walk
    BY <2>2, <2>4 DEF walk, RefusalStands
  <2> QED
    BY <2>1, <2>3, <2>4 DEF WalkNext
<1>3. StackOrdered /\ RootHolds /\ DefectsAhead /\ RefusalStands => ReportsRightmost
  <2> SUFFICES ASSUME StackOrdered, RootHolds, DefectsAhead, RefusalStands, code # "none"
               PROVE  /\ Faulty(Top)
                      /\ \A p \in DOMAIN tree : Earlier(p, Top) => ~Faulty(p)
    BY DEF ReportsRightmost
  <2>1. stack # <<>> /\ Defective(Top)
    BY DEF RefusalStands
  <2>2. Top \in DOMAIN tree
    BY <2>1, EmptySeq, ElementOfSeq DEF StackOrdered, Top, Last
  <2>3. \A p \in DOMAIN tree : Faulty(p) <=> Defective(p)
    BY FaultyIs DEF RootHolds
  <2>4. \A p \in DOMAIN tree : Earlier(p, Top) => ~Defective(p)
    BY <2>1, AheadIsLater DEF DefectsAhead
  <2> QED
    BY <2>1, <2>2, <2>3, <2>4
<1> QED
  BY OrderCorrect, RootCorrect, DefectsStayAhead, <1>1, <1>2, <1>3, PTL DEF WalkSpec

-----------------------------------------------------------------------------
LEMMA CleanTexts ==
  ASSUME IsTree(tree), Clean, NEW p \in DOMAIN tree
  PROVE  /\ Kind(p) = "str" => RequireText(TextAt(p))
         /\ \A i \in DOMAIN Keys(p) : RequireText(Keys(p)[i])
<1>1. Kind(p) = "str" => RequireText(TextAt(p))
  BY DEF Clean, Defective, SurrogateText, RequireText, TextAt
<1>2. BadKeyAt(p) = 0
  BY DEF Clean, Defective
<1> QED
  BY <1>1, <1>2, BadKeyIs DEF RequireText

LEMMA GivenIs ==
  ASSUME IsTree(tree), NEW f
  PROVE  /\ Given(f) <=> f \in Explicit
         /\ Given(f) => At(f) \in DOMAIN tree
<1>1. <<>> \in DOMAIN tree
  BY DEF IsTree
<1>2. \A i \in DOMAIN Keys(<<>>) : Append(<<>>, i) \in DOMAIN tree
  BY <1>1, ValueShape
<1>3. Given(f) <=> f \in Explicit
  BY DEF Given, Explicit, ToSet, Has, Member
<1>4. Given(f) => At(f) \in Member(<<>>, f)
  BY DEF Given, Has, At, Get
<1>5. Member(<<>>, f) \subseteq DOMAIN tree
  BY <1>2 DEF Member
<1> QED
  BY <1>3, <1>4, <1>5

(***************************************************************************)
(* Lists and objects of texts.                                             *)
(***************************************************************************)
LEMMA TextItems ==
  ASSUME IsTree(tree), Clean, NEW p \in DOMAIN tree, AllOf(p, "str"), "" \notin NamesAt(p)
  PROVE  /\ NamesFit(TextsAt(p))
         /\ \A t \in NamesAt(p) : RequireNonempty(t)
         /\ \A i \in 1 .. Width(tree[p]) : RequireNonempty(TextAt(Append(p, i)))
<1>1. DOMAIN TextsAt(p) = 1 .. Width(tree[p])
  BY DEF TextsAt
<1>2. ASSUME NEW i \in 1 .. Width(tree[p])
      PROVE  RequireNonempty(TextAt(Append(p, i))) /\ TextsAt(p)[i] = TextAt(Append(p, i))
  <2>1. Append(p, i) \in DOMAIN tree /\ Kind(Append(p, i)) = "str"
    BY ValueShape DEF AllOf
  <2>2. TextsAt(p)[i] = TextAt(Append(p, i))
    BY DEF TextsAt
  <2>3. TextAt(Append(p, i)) \in NamesAt(p)
    BY <1>1, <2>2 DEF NamesAt, ToSet
  <2> QED
    BY <2>1, <2>2, <2>3, CleanTexts DEF RequireNonempty
<1> QED
  BY <1>1, <1>2 DEF NamesFit, NamesAt, ToSet

-----------------------------------------------------------------------------
(***************************************************************************)
(* What LoraConfigProfile's constructor asks of one field alone.           *)
(***************************************************************************)
FieldFits(f, x) ==
  /\ f = "task_type" => Each(x, LAMBDA t : t \in TaskTypes)
  /\ f = "auto_mapping" => Each(x, MappingFits)
  /\ f = "peft_version" => RequireNonempty(x)
  /\ f \in {"base_model_name_or_path", "revision"} => Each(x, RequireText)
  /\ f = "r" => x \in 1 .. MaxInteger
  /\ f \in {"target_modules", "exclude_modules"} => SelectorFits(x)
  /\ f = "lora_alpha" => x \in -MaxInteger * Unit .. MaxInteger * Unit
  /\ f = "lora_dropout" => x \in 0 .. Unit
  /\ f = "bias" => x \in BiasModes
  /\ f \in {"modules_to_save", "layers_pattern"} => Each(x, NamesFit)
  /\ f = "init_lora_weights" => InitializerFits(x)
  /\ f = "layers_to_transform" => Each(x, LayersFit)
  /\ f = "rank_pattern" => Each(x, RankEntryFits)
  /\ f = "alpha_pattern" => Each(x, AlphaEntryFits)

CoreSet ==
  {"task_type", "auto_mapping", "peft_version", "base_model_name_or_path",
   "revision", "inference_mode", "r", "target_modules", "exclude_modules",
   "lora_alpha", "lora_dropout", "fan_in_fan_out", "bias", "use_rslora",
   "modules_to_save", "init_lora_weights", "layers_to_transform",
   "layers_pattern", "rank_pattern", "alpha_pattern"}

LEMMA CoreIs ==
  /\ CoreFields = CoreSet
  /\ Len(DecodeOrder) = 20 /\ DOMAIN DecodeOrder = 1 .. 20
  /\ \A i \in 1 .. 20 : DecodeOrder[i] \in CoreSet
<1>1. Len(DecodeOrder) = 20 /\ DOMAIN DecodeOrder = 1 .. 20
  BY DEF DecodeOrder
<1>2. \A i \in 1 .. 20 : DecodeOrder[i] \in CoreSet
  BY DEF DecodeOrder, CoreSet
<1>3. \A f \in CoreSet : \E i \in 1 .. 20 : DecodeOrder[i] = f
  <2>1. /\ DecodeOrder[1] = "task_type" /\ DecodeOrder[2] = "auto_mapping"
        /\ DecodeOrder[3] = "peft_version" /\ DecodeOrder[4] = "base_model_name_or_path"
        /\ DecodeOrder[5] = "revision" /\ DecodeOrder[6] = "inference_mode"
        /\ DecodeOrder[7] = "r" /\ DecodeOrder[8] = "target_modules"
        /\ DecodeOrder[9] = "exclude_modules" /\ DecodeOrder[10] = "lora_alpha"
        /\ DecodeOrder[11] = "lora_dropout" /\ DecodeOrder[12] = "fan_in_fan_out"
        /\ DecodeOrder[13] = "bias" /\ DecodeOrder[14] = "use_rslora"
        /\ DecodeOrder[15] = "modules_to_save" /\ DecodeOrder[16] = "init_lora_weights"
        /\ DecodeOrder[17] = "layers_to_transform" /\ DecodeOrder[18] = "layers_pattern"
        /\ DecodeOrder[19] = "rank_pattern" /\ DecodeOrder[20] = "alpha_pattern"
    BY DEF DecodeOrder
  <2> QED
    BY <2>1 DEF CoreSet
<1> QED
  BY <1>1, <1>2, <1>3 DEF CoreFields, ToSet

LEMMA ProfileByField ==
  ASSUME NEW v, \A f \in CoreFields : FieldFits(f, v[f]), LayerRulesFit(v)
  PROVE  ProfileFits(v)
<1> DEFINE F(f) == FieldFits(f, v[f])
<1>1. /\ F("task_type") /\ F("auto_mapping") /\ F("peft_version")
      /\ F("base_model_name_or_path") /\ F("revision") /\ F("r")
      /\ F("target_modules") /\ F("exclude_modules") /\ F("lora_alpha")
      /\ F("lora_dropout") /\ F("bias") /\ F("modules_to_save")
      /\ F("init_lora_weights") /\ F("layers_to_transform") /\ F("layers_pattern")
      /\ F("rank_pattern") /\ F("alpha_pattern")
  BY CoreIs DEF CoreSet
<1> QED
  BY <1>1 DEF FieldFits, ProfileFits

-----------------------------------------------------------------------------
(***************************************************************************)
(* The constructor takes every default ...                                 *)
(***************************************************************************)
LEMMA DefaultFits ==
  ASSUME NEW f \in CoreFields
  PROVE  FieldFits(f, Default(f))
<1>1. f \in CoreSet
  BY CoreIs
<1>2. CASE f = "lora_alpha"
  <2>1. Default(f) = 8 * Unit
    BY <1>2 DEF Default
  <2>2. 8 * Unit \in -MaxInteger * Unit .. MaxInteger * Unit
    <3>1. /\ MaxInteger \in Nat /\ Unit \in Nat /\ MaxInteger - 8 \in Nat
          /\ MaxInteger * Unit = 8 * Unit + (MaxInteger - 8) * Unit
      BY NumbersAssumption
    <3>2. (MaxInteger - 8) * Unit \in Nat
      BY <3>1
    <3>3. -MaxInteger * Unit = -(MaxInteger * Unit) /\ MaxInteger * Unit \in Nat
      BY <3>1
    <3> QED
      BY <3>1, <3>2, <3>3
  <2> QED
    BY <1>2, <2>1, <2>2 DEF FieldFits
<1>3. CASE f = "r"
  BY <1>3, NumbersAssumption DEF FieldFits, Default
<1>4. CASE f = "lora_dropout"
  BY <1>4, NumbersAssumption DEF FieldFits, Default
<1>5. CASE f \in {"target_modules", "exclude_modules"}
  BY <1>5 DEF FieldFits, Default, DefaultSelector, Selector, SelectorFits
<1>6. CASE f = "init_lora_weights"
  BY <1>6 DEF FieldFits, Default, DefaultInitializer, Initializer, InitializerFits
<1>7. CASE f \in {"bias", "peft_version"}
  BY <1>7, PinnedAssumption
     DEF FieldFits, Default, BiasModes, PinnedVersion, RequireNonempty, RequireText
<1>8. CASE f \in {"inference_mode", "fan_in_fan_out", "use_rslora"}
  BY <1>8 DEF FieldFits
<1>9. CASE f \in {"task_type", "auto_mapping", "base_model_name_or_path", "revision",
                  "modules_to_save", "layers_to_transform", "layers_pattern",
                  "rank_pattern", "alpha_pattern"}
  <2>1. Default(f) = <<>>
    BY <1>9 DEF Default
  <2> QED
    BY <1>9, <2>1 DEF FieldFits, Each
<1> QED
  BY <1>1, <1>2, <1>3, <1>4, <1>5, <1>6, <1>7, <1>8, <1>9 DEF CoreSet

(***************************************************************************)
(* ... and whatever a decoder makes of a value it accepts.                 *)
(***************************************************************************)
Accepted(f, p) == TypeFits(f, p) /\ ValueFits(f, p)

LEMMA AcceptedText ==
  ASSUME IsTree(tree), Clean, NEW p \in DOMAIN tree, NEW f \in CoreFields, Accepted(f, p),
         f \in {"task_type", "peft_version", "base_model_name_or_path", "revision", "bias"}
  PROVE  FieldFits(f, Normal(f, p))
<1>1. Kind(p) = "str"
  BY DEF Accepted, TypeFits, Forms, HasForm
<1>2. RequireText(TextAt(p))
  BY <1>1, CleanTexts
<1>3. CASE f = "task_type"
  <2>1. TextAt(p) \in TaskTypes /\ Normal(f, p) = <<TextAt(p)>>
    BY <1>3 DEF Accepted, ValueFits, Normal
  <2> QED
    BY <1>3, <2>1 DEF FieldFits, Each
<1>4. CASE f = "peft_version"
  <2>1. TextAt(p) # "" /\ Normal(f, p) = TextAt(p)
    BY <1>4 DEF Accepted, ValueFits, Normal
  <2> QED
    BY <1>2, <1>4, <2>1 DEF FieldFits, RequireNonempty
<1>5. CASE f \in {"base_model_name_or_path", "revision"}
  <2>1. Normal(f, p) = <<TextAt(p)>>
    BY <1>5 DEF Normal
  <2> QED
    BY <1>2, <1>5, <2>1 DEF FieldFits, Each
<1>6. CASE f = "bias"
  <2>1. TextAt(p) \in BiasModes /\ Normal(f, p) = TextAt(p)
    BY <1>6 DEF Accepted, ValueFits, Normal
  <2> QED
    BY <1>6, <2>1 DEF FieldFits
<1> QED
  BY <1>3, <1>4, <1>5, <1>6

LEMMA AcceptedNumber ==
  ASSUME NEW p \in DOMAIN tree, NEW f \in CoreFields, Accepted(f, p),
         f \in {"r", "lora_alpha", "lora_dropout", "inference_mode", "fan_in_fan_out",
                "use_rslora"}
  PROVE  FieldFits(f, Normal(f, p))
<1>1. CASE f = "r"
  <2>1. tree[p].int \in 1 .. MaxInteger /\ Normal(f, p) = tree[p].int
    BY <1>1 DEF Accepted, ValueFits, Normal, IntWithin
  <2> QED
    BY <1>1, <2>1 DEF FieldFits
<1>2. CASE f = "lora_alpha"
  <2>1. NumberAt(p) \in -MaxInteger * Unit .. MaxInteger * Unit /\ Normal(f, p) = NumberAt(p)
    BY <1>2 DEF Accepted, ValueFits, Normal, DecimalWithin, NumberWithin
  <2> QED
    BY <1>2, <2>1 DEF FieldFits
<1>3. CASE f = "lora_dropout"
  <2>1. NumberAt(p) \in 0 .. Unit /\ Normal(f, p) = NumberAt(p)
    BY <1>3 DEF Accepted, ValueFits, Normal, NumberWithin
  <2> QED
    BY <1>3, <2>1 DEF FieldFits
<1>4. CASE f \in {"inference_mode", "fan_in_fan_out", "use_rslora"}
  BY <1>4 DEF FieldFits
<1> QED
  BY <1>1, <1>2, <1>3, <1>4

LEMMA AcceptedMapping ==
  ASSUME IsTree(tree), Clean, NEW p \in DOMAIN tree, Accepted("auto_mapping", p)
  PROVE  FieldFits("auto_mapping", Normal("auto_mapping", p))
<1>1. Kind(p) = "dict" /\ ExactMapping(p) /\ AllOf(p, "str") /\ "" \notin NamesAt(p)
  <2>1. ExactMapping(p) /\ "" \notin NamesAt(p)
    BY DEF Accepted, ValueFits
  <2> QED
    BY <2>1, KindIs DEF Accepted, TypeFits, Forms, HasForm, JsonKinds
<1>2. ASSUME NEW k \in AutoMappingKeys PROVE RequireNonempty(TextAt(Get(p, k)))
  <2>1. PICK j \in DOMAIN Keys(p) : Keys(p)[j] = k
    BY <1>1 DEF ExactMapping, ToSet
  <2>2. Append(p, j) \in Member(p, k)
    BY <2>1 DEF Member
  <2>3. Get(p, k) \in Member(p, k)
    BY <2>2 DEF Get
  <2>4. PICK i \in DOMAIN Keys(p) : Get(p, k) = Append(p, i)
    BY <2>3 DEF Member
  <2>5. i \in 1 .. Width(tree[p])
    BY <1>1, <2>4, ValueShape
  <2> QED
    BY <1>1, <2>4, <2>5, TextItems
<1> DEFINE m == [k \in AutoMappingKeys |-> TextAt(Get(p, k))]
<1>3. MappingFits(m)
  BY <1>2 DEF MappingFits
<1>4. Normal("auto_mapping", p) = <<m>>
  BY DEF Normal
<1> HIDE DEF m
<1> QED
  BY <1>3, <1>4 DEF FieldFits, Each

LEMMA OneName ==
  ASSUME NEW t, RequireNonempty(t)
  PROVE  NamesFit(<<t>>)
<1>1. DOMAIN <<t>> = {1} /\ <<t>>[1] = t
  OBVIOUS
<1> QED
  BY <1>1 DEF NamesFit

LEMMA AcceptedNames ==
  ASSUME IsTree(tree), Clean, NEW p \in DOMAIN tree, NEW f \in CoreFields, Accepted(f, p),
         f \in {"modules_to_save", "layers_pattern"}
  PROVE  FieldFits(f, Normal(f, p))
<1>1. CASE Kind(p) = "list"
  <2>1. AllOf(p, "str")
    BY <1>1 DEF Accepted, TypeFits, Forms, HasForm
  <2>2. "" \notin NamesAt(p)
    BY <1>1 DEF Accepted, ValueFits
  <2>3. NamesFit(TextsAt(p))
    BY <2>1, <2>2, TextItems
  <2>4. Normal(f, p) = <<TextsAt(p)>>
    BY <1>1 DEF Normal, PatternTextsAt
  <2> QED
    BY <2>3, <2>4 DEF FieldFits, Each
<1>2. CASE Kind(p) # "list"
  <2>1. f = "layers_pattern" /\ Kind(p) = "str"
    BY <1>2, KindIs DEF Accepted, TypeFits, Forms, HasForm, JsonKinds
  <2>2. RequireText(TextAt(p))
    BY <2>1, CleanTexts
  <2>3. Normal(f, p) = <<PatternTextsAt(p)>>
    BY <2>1 DEF Normal
  <2>4. NamesFit(PatternTextsAt(p))
    <3>1. CASE TextAt(p) = ""
      <4>1. PatternTextsAt(p) = <<>>
        BY <2>1, <3>1 DEF PatternTextsAt
      <4> QED
        BY <4>1 DEF NamesFit
    <3>2. CASE TextAt(p) # ""
      <4>1. PatternTextsAt(p) = <<TextAt(p)>>
        BY <2>1, <3>2 DEF PatternTextsAt
      <4> QED
        BY <2>2, <3>2, <4>1, OneName DEF RequireNonempty
    <3> QED
      BY <3>1, <3>2
  <2> QED
    BY <2>1, <2>3, <2>4 DEF FieldFits, Each
<1> QED
  BY <1>1, <1>2

LEMMA AcceptedSelector ==
  ASSUME IsTree(tree), Clean, NEW p \in DOMAIN tree, NEW f \in CoreFields, Accepted(f, p),
         f \in {"target_modules", "exclude_modules"}
  PROVE  FieldFits(f, Normal(f, p))
<1>1. Normal(f, p) = SelectorAt(f, p)
  BY DEF Normal
<1>2. CASE Kind(p) = "list"
  <2>1. AllOf(p, "str")
    BY <1>2 DEF Accepted, TypeFits, Forms, HasForm
  <2>2. "" \notin NamesAt(p)
    BY <1>2 DEF Accepted, ValueFits
  <2>3. \A t \in NamesAt(p) : RequireNonempty(t)
    BY <2>1, <2>2, TextItems
  <2> QED
    BY <1>1, <1>2, <2>3 DEF FieldFits, SelectorAt, Selector, SelectorFits
<1>3. CASE Kind(p) # "list"
  <2>1. Kind(p) = "str"
    BY <1>3, KindIs DEF Accepted, TypeFits, Forms, HasForm, JsonKinds
  <2>2. RequireText(TextAt(p))
    BY <2>1, CleanTexts
  <2>3. TextAt(p) # ""
    BY <2>1 DEF Accepted, ValueFits
  <2>4. Cardinality({TextAt(p)}) = 1
    BY FS_Singleton
  <2>5. SelectorAt(f, p) \in {Selector("all_linear", {}), Selector("regex", {TextAt(p)})}
    BY <1>3 DEF SelectorAt
  <2>6. SelectorFits(Selector("all_linear", {}))
    BY DEF Selector, SelectorFits
  <2>7. SelectorFits(Selector("regex", {TextAt(p)}))
    BY <2>2, <2>3, <2>4 DEF Selector, SelectorFits, RequireNonempty
  <2> QED
    BY <1>1, <2>5, <2>6, <2>7 DEF FieldFits
<1> QED
  BY <1>2, <1>3

-----------------------------------------------------------------------------
LEMMA AcceptedInitializer ==
  ASSUME IsTree(tree), NEW p \in DOMAIN tree, Accepted("init_lora_weights", p)
  PROVE  FieldFits("init_lora_weights", Normal("init_lora_weights", p))
<1>1. Normal("init_lora_weights", p) = InitializerAt(p)
  BY DEF Normal
<1>2. CASE Kind(p) # "str"
  <2>1. InitializerAt(p) \in {DefaultInitializer, Initializer("random", <<>>)}
    BY <1>2 DEF InitializerAt
  <2> QED
    BY <1>1, <2>1 DEF FieldFits, DefaultInitializer, Initializer, InitializerFits
<1>3. CASE Kind(p) = "str"
  <2> DEFINE t == TextAt(p)
  <2>1. KnownInitializer(t)
    BY <1>3 DEF Accepted, ValueFits
  <2>2. InitializerAt(p) = InitializerNamed(t)
    BY <1>3 DEF InitializerAt
  <2> HIDE DEF t
  <2>3. CASE Lower[t] \in FoldedInitializers
    BY <1>1, <2>2, <2>3
       DEF InitializerNamed, Initializer, FoldedInitializers, FieldFits, InitializerFits
  <2>4. CASE Lower[t] \notin FoldedInitializers /\ t \in SpeltInitializers
    BY <1>1, <2>2, <2>4
       DEF InitializerNamed, Initializer, SpeltInitializers, FieldFits, InitializerFits
  <2>5. CASE Lower[t] \notin FoldedInitializers /\ t \notin SpeltInitializers
    <3>1. Iterations[t] \in 0 .. MaxInteger
      BY <2>1, <2>5, FoldingAssumption DEF KnownInitializer
    <3>2. InitializerAt(p) = Initializer("pissa_niter", <<Iterations[t]>>)
      BY <2>2, <2>5 DEF InitializerNamed
    <3>3. InitializerFits(Initializer("pissa_niter", <<Iterations[t]>>))
      BY <3>1 DEF Initializer, InitializerFits
    <3> QED
      BY <1>1, <3>2, <3>3 DEF FieldFits
  <2> QED
    BY <2>3, <2>4, <2>5
<1> QED
  BY <1>2, <1>3

LEMMA AcceptedLayers ==
  ASSUME NEW p \in DOMAIN tree, Accepted("layers_to_transform", p)
  PROVE  FieldFits("layers_to_transform", Normal("layers_to_transform", p))
<1>1. Normal("layers_to_transform", p) = <<LayersAt(p)>>
  BY DEF Normal
<1>2. LayersFit(LayersAt(p))
  BY DEF Accepted, ValueFits, IntWithin, LayersFit, LayersAt
<1> QED
  BY <1>1, <1>2 DEF FieldFits, Each

LEMMA AcceptedPattern ==
  ASSUME IsTree(tree), Clean, NEW p \in DOMAIN tree, NEW f \in CoreFields, Accepted(f, p),
         f \in {"rank_pattern", "alpha_pattern"}
  PROVE  FieldFits(f, Normal(f, p))
<1>1. Normal(f, p) = EntriesAt(f, p) /\ DOMAIN EntriesAt(f, p) = DOMAIN Keys(p)
  BY DEF Normal, EntriesAt
<1> SUFFICES ASSUME NEW i \in DOMAIN Keys(p)
             PROVE  /\ f = "rank_pattern" => RankEntryFits(EntriesAt(f, p)[i])
                    /\ f = "alpha_pattern" => AlphaEntryFits(EntriesAt(f, p)[i])
  BY <1>1 DEF FieldFits, Each
<1>2. Keys(p)[i] # "" /\ EntryValued(f, p, i)
  BY DEF Accepted, ValueFits, BadEntries, EntryFits
<1>3. RequireNonempty(Keys(p)[i])
  BY <1>2, CleanTexts DEF RequireNonempty
<1>4. EntriesAt(f, p)[i].pattern = Keys(p)[i]
  BY DEF EntriesAt
<1>5. CASE f = "rank_pattern"
  <2>1. EntriesAt(f, p)[i].value = tree[Append(p, i)].int
    BY <1>5 DEF EntriesAt
  <2>2. tree[Append(p, i)].int \in 1 .. MaxInteger
    BY <1>2, <1>5 DEF EntryValued, IntWithin
  <2> QED
    BY <1>3, <1>4, <1>5, <2>1, <2>2 DEF RankEntryFits
<1>6. CASE f = "alpha_pattern"
  <2>1. EntriesAt(f, p)[i].value = NumberAt(Append(p, i))
    BY <1>6 DEF EntriesAt
  <2>2. NumberAt(Append(p, i)) \in -MaxInteger * Unit .. MaxInteger * Unit
    BY <1>2, <1>6 DEF EntryValued, DecimalWithin, NumberWithin
  <2> QED
    BY <1>3, <1>4, <1>6, <2>1, <2>2 DEF AlphaEntryFits
<1> QED
  BY <1>5, <1>6

LEMMA NormalFits ==
  ASSUME IsTree(tree), Clean, NEW p \in DOMAIN tree, NEW f \in CoreFields, Accepted(f, p)
  PROVE  FieldFits(f, Normal(f, p))
<1>1. f \in CoreSet
  BY CoreIs
<1> QED
  BY <1>1, AcceptedText, AcceptedNumber, AcceptedMapping, AcceptedNames, AcceptedSelector,
     AcceptedInitializer, AcceptedLayers, AcceptedPattern
     DEF CoreSet

(***************************************************************************)
(* Nothing a decoder measures lacks an encoding.                           *)
(***************************************************************************)
LEMMA RetainedClean ==
  ASSUME IsTree(tree), Clean, NEW p \in DOMAIN tree, NEW f \in CoreFields, TypeFits(f, p),
         NEW t \in Retained(f, p)
  PROVE  RequireText(t)
<1>1. f \in CoreSet /\ Kind(p) \in JsonKinds
  BY CoreIs, KindIs
<1>2. ASSUME AllOf(p, "str"), t \in NamesAt(p) PROVE RequireText(t)
  <2>1. PICK i \in 1 .. Width(tree[p]) : t = TextAt(Append(p, i))
    BY <1>2 DEF NamesAt, ToSet, TextsAt
  <2>2. Append(p, i) \in DOMAIN tree /\ Kind(Append(p, i)) = "str"
    BY <1>2, ValueShape DEF AllOf
  <2> QED
    BY <2>1, <2>2, CleanTexts
<1>3. CASE \E i \in EntriesRead(f, p) : t = Keys(p)[i]
  BY <1>3, CleanTexts DEF EntriesRead
<1>4. CASE f = "auto_mapping" /\ ExactMapping(p) /\ t \in NamesAt(p)
  <2>1. AllOf(p, "str")
    BY <1>1, <1>4 DEF TypeFits, Forms, HasForm, JsonKinds
  <2> QED
    BY <1>2, <1>4, <2>1
<1>5. CASE f \in Measured /\ Kind(p) = "str" /\ t = TextAt(p)
  BY <1>5, CleanTexts
<1>6. CASE f \in Measured /\ Kind(p) = "list" /\ t \in NamesAt(p)
  <2>1. AllOf(p, "str")
    BY <1>1, <1>6 DEF TypeFits, Forms, HasForm, JsonKinds, Measured
  <2> QED
    BY <1>2, <1>6, <2>1
<1> QED
  BY <1>3, <1>4, <1>5, <1>6 DEF Retained

-----------------------------------------------------------------------------
(***************************************************************************)
(* What is read off the document does not change while it is read: the     *)
(* call never assigns to the tree.                                         *)
(***************************************************************************)
LEMMA ReadsFixed ==
  ASSUME tree' = tree
  PROVE  /\ \A p : /\ Kind(p)' = Kind(p) /\ Keys(p)' = Keys(p) /\ TextAt(p)' = TextAt(p)
                   /\ Children(p)' = Children(p) /\ TextsAt(p)' = TextsAt(p)
                   /\ NamesAt(p)' = NamesAt(p) /\ NumberAt(p)' = NumberAt(p)
         /\ \A p, k : Get(p, k)' = Get(p, k)
         /\ \A f : /\ At(f)' = At(f) /\ (Given(f)' <=> Given(f))
                   /\ (Omitted(f)' <=> Omitted(f))
         /\ Explicit' = Explicit
<1>1. \A p : /\ Kind(p)' = Kind(p) /\ Keys(p)' = Keys(p) /\ TextAt(p)' = TextAt(p)
             /\ Children(p)' = Children(p)
  BY DEF Kind, Keys, TextAt, Children, Width
<1>2. \A p : TextsAt(p)' = TextsAt(p) /\ NumberAt(p)' = NumberAt(p)
  BY <1>1 DEF TextsAt, NumberAt, Width
<1>3. \A p : NamesAt(p)' = NamesAt(p)
  BY <1>2 DEF NamesAt
<1>4. \A p, k : Member(p, k)' = Member(p, k)
  BY <1>1 DEF Member
<1>5. \A p, k : Get(p, k)' = Get(p, k) /\ (Has(p, k)' <=> Has(p, k))
  BY <1>4 DEF Get, Has
<1>6. \A f : At(f)' = At(f) /\ (Given(f)' <=> Given(f))
  BY <1>5 DEF At, Given
<1>7. \A f : Omitted(f)' <=> Omitted(f)
  BY <1>1, <1>6 DEF Omitted
<1>8. Explicit' = Explicit
  BY <1>1 DEF Explicit
<1> QED
  BY <1>1, <1>2, <1>3, <1>5, <1>6, <1>7, <1>8

LEMMA DecodersFixed ==
  ASSUME tree' = tree
  PROVE  \A f, p : /\ TypeFits(f, p)' <=> TypeFits(f, p)
                   /\ ValueFits(f, p)' <=> ValueFits(f, p)
                   /\ Normal(f, p)' = Normal(f, p)
<1>1. \A f, p : TypeFits(f, p)' <=> TypeFits(f, p)
  BY DEF TypeFits, HasForm, AllOf, ExactMapping, MistypedEntry, EntriesRead, BadEntries,
         EntryFits, EntryTyped, EntryValued, IntWithin, DecimalWithin, NumberWithin,
         NumberSupported, NumberAt, Kind, Keys, Children, Width
<1>2. \A p : /\ IntWithin(p, 0)' <=> IntWithin(p, 0)
             /\ IntWithin(p, 1)' <=> IntWithin(p, 1)
             /\ DecimalWithin(p)' <=> DecimalWithin(p)
             /\ NumberWithin(p, 0, Unit)' <=> NumberWithin(p, 0, Unit)
             /\ ExactMapping(p)' <=> ExactMapping(p)
  BY DEF IntWithin, DecimalWithin, NumberWithin, NumberSupported, NumberAt, ExactMapping,
         Kind, Keys
<1>3. \A f, p : BadEntries(f, p)' = BadEntries(f, p)
  BY <1>2 DEF BadEntries, EntryFits, EntryTyped, EntryValued, Kind, Keys
<1>4. \A f, p : ValueFits(f, p)' <=> ValueFits(f, p)
  <2> SUFFICES ASSUME NEW f, NEW p PROVE ValueFits(f, p)' <=> ValueFits(f, p)
    OBVIOUS
  <2> DEFINE Q == IF Kind(p) = "int" THEN {p} ELSE ToSet(Children(p))
  <2>1. Q' = Q
    BY ReadsFixed
  <2>2. (\A q \in Q : IntWithin(q, 0))' <=> (\A q \in Q : IntWithin(q, 0))
    BY <1>2, <2>1
  <2>3. KnownInitializer(TextAt(p))' <=> KnownInitializer(TextAt(p))
    BY ReadsFixed DEF KnownInitializer
  <2>4. /\ Kind(p)' = Kind(p) /\ TextAt(p)' = TextAt(p) /\ NamesAt(p)' = NamesAt(p)
        /\ BadEntries(f, p)' = BadEntries(f, p)
    BY <1>3, ReadsFixed
  <2> QED
    BY <1>2, <2>2, <2>3, <2>4 DEF ValueFits
<1>5. ASSUME NEW f, NEW p PROVE Normal(f, p)' = Normal(f, p)
  <2>1. [k \in AutoMappingKeys |-> TextAt(Get(p, k))]'
          = [k \in AutoMappingKeys |-> TextAt(Get(p, k))]
    BY DEF TextAt, Get, Member, Keys, Kind
  <2>2. /\ SelectorAt(f, p)' = SelectorAt(f, p) /\ InitializerAt(p)' = InitializerAt(p)
        /\ PatternTextsAt(p)' = PatternTextsAt(p)
    <3>1. SelectorAt(f, p)' = SelectorAt(f, p)
      BY ReadsFixed DEF SelectorAt
    <3>2. InitializerNamed(TextAt(p))' = InitializerNamed(TextAt(p))
      BY ReadsFixed DEF InitializerNamed
    <3>3. InitializerAt(p)' = InitializerAt(p)
      BY <3>2, ReadsFixed DEF InitializerAt
    <3>4. PatternTextsAt(p)' = PatternTextsAt(p)
      <4>1. /\ Kind(p)' = Kind(p) /\ TextAt(p)' = TextAt(p)
            /\ TextsAt(p)' = TextsAt(p)
        BY ReadsFixed
      <4> QED
        BY <4>1 DEF PatternTextsAt
    <3> QED
      BY <3>1, <3>3, <3>4
  <2>3. LayersAt(p)' = LayersAt(p)
    BY ReadsFixed DEF LayersAt
  <2>4. EntriesAt(f, p)' = EntriesAt(f, p)
    BY ReadsFixed DEF EntriesAt
  <2>5. TextAt(p)' = TextAt(p) /\ NumberAt(p)' = NumberAt(p) /\ TextsAt(p)' = TextsAt(p)
    BY ReadsFixed
  <2> QED
    BY <2>1, <2>2, <2>3, <2>4, <2>5, Zenon DEF Normal
<1> QED
  BY <1>1, <1>4, <1>5

(***************************************************************************)
(* What each decoder makes of its field: the value it returns, whether it  *)
(* is valid, and its issue.                                                *)
(***************************************************************************)
Readings(f) == ~Omitted(f) /\ Accepted(f, At(f))

ValueOf(f) == IF Readings(f) THEN Normal(f, At(f)) ELSE Default(f)

ValidOf(f) == Omitted(f) \/ Accepted(f, At(f))

Nonordinary(f, value) ==
  \/ f = "bias" /\ value # "none"
  \/ f = "init_lora_weights" /\ value.kind # "default"

FaultsOf(f) ==
  IF Omitted(f) THEN {}
  ELSE IF ~TypeFits(f, At(f)) THEN {Issue(f, "invalid_type")}
  ELSE IF ~ValueFits(f, At(f)) THEN {Issue(f, "invalid_value")}
  ELSE IF Nonordinary(f, Normal(f, At(f))) THEN {Issue(f, "unsupported_value")}
  ELSE {}

Reading(f) == [value |-> ValueOf(f), valid |-> ValidOf(f)]

\* The issues after n decoders.
FaultsUpTo(n) == UnknownIssues \cup UNION {FaultsOf(DecodeOrder[i]) : i \in 1 .. n}

LEMMA ReadingsFixed ==
  ASSUME tree' = tree
  PROVE  /\ \A f : Reading(f)' = Reading(f) /\ FaultsOf(f)' = FaultsOf(f)
         /\ UnknownIssues' = UnknownIssues
         /\ DefaultOnlyIssues' = DefaultOnlyIssues
         /\ \A n : FaultsUpTo(n)' = FaultsUpTo(n)
<1>1. \A f : /\ Normal(f, At(f))' = Normal(f, At(f))
             /\ Accepted(f, At(f))' <=> Accepted(f, At(f))
             /\ TypeFits(f, At(f))' <=> TypeFits(f, At(f))
             /\ ValueFits(f, At(f))' <=> ValueFits(f, At(f))
  BY ReadsFixed, DecodersFixed DEF Accepted
<1>2. \A f : Omitted(f)' <=> Omitted(f)
  BY ReadsFixed
<1>3. \A f : Reading(f)' = Reading(f)
  BY <1>1, <1>2 DEF Reading, ValueOf, ValidOf, Readings
<1>4. \A f : FaultsOf(f)' = FaultsOf(f)
  BY <1>1, <1>2 DEF FaultsOf, Nonordinary
<1>5. UnknownIssues' = UnknownIssues
  BY ReadsFixed DEF UnknownIssues
<1>6. \A f : HoldsDefault(f)' <=> HoldsDefault(f)
  BY ReadsFixed DEF HoldsDefault
<1>7. \A f : DefaultOnlyKind(f)' = DefaultOnlyKind(f)
  BY ReadsFixed DEF DefaultOnlyKind, IntWithin
<1>8. DefaultOnlyIssues' = DefaultOnlyIssues
  BY <1>6, <1>7, ReadsFixed DEF DefaultOnlyIssues
<1>9. \A n : FaultsUpTo(n)' = FaultsUpTo(n)
  BY <1>4, <1>5 DEF FaultsUpTo
<1> QED
  BY <1>3, <1>4, <1>5, <1>8, <1>9

-----------------------------------------------------------------------------
(***************************************************************************)
(* The inductive invariant.                                                *)
(***************************************************************************)
WalkKept == StackOrdered /\ DefectsAhead /\ doc \in R!Document

Early == phase \in {"bytes", "walk", "method"}

Walked == phase \in {"method", "fields", "relations", "manifest", "done"}

InLora == phase \in {"fields", "relations"}

LoraMethod == [status |-> "supported_lora", declared |-> <<"LORA">>]

\* The decoders have read what the document says of their fields.
ReadUpTo(n) == decoded = [i \in 1 .. n |-> Reading(DecodeOrder[i])]

FieldsRead ==
  /\ method = LoraMethod /\ Given("peft_type") /\ lora = <<>>
  /\ \E n \in 0 .. 20 :
       /\ ReadUpTo(n)
       /\ phase = "fields" => issues = FaultsUpTo(n)
       /\ phase = "relations" => n = 20 /\ issues = FaultsUpTo(n) \cup DefaultOnlyIssues

ConfigInv ==
  /\ WalkKept
  /\ NeverEscapes
  /\ Walked => stack = <<>>
  /\ Early => decoded = <<>> /\ lora = <<>> /\ issues = {}
  /\ InLora => FieldsRead
  /\ phase = "manifest" => ManifestFits(method.status, method.declared, lora, issues)

LEMMA WalkedClean ==
  ASSUME ConfigInv, Walked
  PROVE  IsTree(tree) /\ Clean
<1>1. stack = <<>> /\ StackOrdered /\ DefectsAhead
  BY DEF ConfigInv, WalkKept
<1>2. Ahead = {}
  BY <1>1 DEF Ahead
<1> QED
  BY <1>1, <1>2, TreesAssumption DEF DefectsAhead, Clean, StackOrdered

LEMMA KeptFixed ==
  ASSUME WalkKept, UNCHANGED <<doc, tree, stack>>
  PROVE  WalkKept'
<1>1. \A p : Defective(p)' <=> Defective(p)
  BY DefectsFixed
<1>2. StackOrdered'
  BY DEF StackOrdered, WalkKept
<1>3. DefectsAhead'
  BY <1>1 DEF DefectsAhead, Ahead, WalkKept
<1> QED
  BY <1>2, <1>3 DEF WalkKept, R!Document, R!JsonFailures

(***************************************************************************)
(* Refusals.                                                               *)
(***************************************************************************)
LEMMA RefusedKeeps ==
  ASSUME ConfigInv, NEW error, Refuse(error), error \notin {"ValueError", "UnicodeEncodeError"}
  PROVE  ConfigInv'
<1>1. WalkKept'
  BY KeptFixed DEF Refuse, ConfigInv
<1>2. phase' = "refused" /\ code' = error
  BY DEF Refuse
<1> QED
  BY <1>1, <1>2 DEF ConfigInv, NeverEscapes, Walked, Early, InLora

LEMMA BytesKeep ==
  ASSUME ConfigInv, ReadBytes
  PROVE  ConfigInv'
<1>1. CASE BeginWalk
  <2>1. WalkKept'
    BY <1>1, KeptFixed DEF BeginWalk, Proceed, ConfigInv
  <2>2. /\ phase = "bytes" /\ phase' = "walk" /\ code' = code
        /\ decoded' = decoded /\ lora' = lora /\ issues' = issues
    BY <1>1 DEF BeginWalk, Proceed, fields
  <2> QED
    BY <2>1, <2>2 DEF ConfigInv, NeverEscapes, Walked, Early, InLora
<1>2. CASE RefuseJson
  <2>1. doc.json \in DOMAIN R!JsonFailures
    BY <1>2 DEF RefuseJson, ConfigInv, WalkKept, R!Document
  <2>2. R!JsonFailures[doc.json] \notin {"ValueError", "UnicodeEncodeError"}
    BY <2>1 DEF R!JsonFailures
  <2> QED
    BY <1>2, <2>2, RefusedKeeps DEF RefuseJson
<1>3. CASE RefuseSize \/ RefuseUtf8 \/ RefuseRoot \/ RefuseFieldCount
  BY <1>3, RefusedKeeps DEF RefuseSize, RefuseUtf8, RefuseRoot, RefuseFieldCount
<1> QED
  BY <1>1, <1>2, <1>3 DEF ReadBytes

LEMMA WalkKeeps ==
  ASSUME ConfigInv, Walk \/ EndWalk
  PROVE  ConfigInv'
<1>1. CASE Walk
  <2>1. StackOrdered' /\ DefectsAhead' /\ doc' = doc
    BY <1>1, OrderStep, MissStep DEF Walk, ConfigInv, WalkKept
  <2>2. WalkKept'
    BY <2>1 DEF WalkKept, ConfigInv, R!Document, R!JsonFailures
  <2>3. /\ phase = "walk" /\ phase' \in {"walk", "refused"}
        /\ decoded' = decoded /\ lora' = lora /\ issues' = issues
    BY <1>1 DEF Walk, fields
  <2>4. NeverEscapes'
    BY <1>1 DEF Walk, WalkNext, VisitClean, RefuseText, RefuseCollection, RefuseKey, Raise,
                KeyCode, NeverEscapes, ConfigInv
  <2> QED
    BY <2>2, <2>3, <2>4 DEF ConfigInv, Walked, Early, InLora
<1>2. CASE EndWalk
  <2>1. WalkKept'
    BY <1>2, KeptFixed DEF EndWalk, Proceed, ConfigInv
  <2>2. /\ phase = "walk" /\ phase' = "method" /\ code' = code /\ stack' = <<>>
        /\ decoded' = decoded /\ lora' = lora /\ issues' = issues
    BY <1>2 DEF EndWalk, Proceed, fields
  <2> QED
    BY <2>1, <2>2 DEF ConfigInv, NeverEscapes, Walked, Early, InLora
<1> QED
  BY <1>1, <1>2

\* What is retained of a clean document has an encoding.
LEMMA RetainedKeep ==
  ASSUME ConfigInv, NEW texts, \A t \in texts : RequireText(t), RefuseRetained(texts)
  PROVE  ConfigInv'
<1>1. PICK t \in texts : Refuse(RetainCode(t))
  BY DEF RefuseRetained
<1>2. RetainCode(t) = "name_exceeds_policy_limit"
  BY DEF RetainCode, RequireText
<1> QED
  BY <1>1, <1>2, RefusedKeeps

-----------------------------------------------------------------------------
LEMMA ManifestFixed ==
  ASSUME tree' = tree
  PROVE  \A m, d, l, i : ManifestFits(m, d, l, i)' <=> ManifestFits(m, d, l, i)
<1>1. Explicit' = Explicit /\ \A f : Given(f)' <=> Given(f)
  BY ReadsFixed
<1>2. \A v : ProfileFits(v)' <=> ProfileFits(v)
  OBVIOUS
<1>3. \A v : NonordinaryIssues(v)' = NonordinaryIssues(v)
  OBVIOUS
<1>4. \A v : ProvenanceFits(v)' <=> ProvenanceFits(v)
  BY <1>1 DEF ProvenanceFits
<1>5. \A d, l, i : LoraManifestFits(d, l, i)' <=> LoraManifestFits(d, l, i)
  BY <1>1, <1>3, <1>4 DEF LoraManifestFits
<1> QED
  BY <1>1, <1>2, <1>5 DEF ManifestFits

\* A step to the manifest keeps the invariant if the constructor takes it.
LEMMA ToManifest ==
  ASSUME ConfigInv, UNCHANGED <<doc, tree, stack, code>>, phase' = "manifest", Walked,
         ManifestFits(method'.status, method'.declared, lora', issues')
  PROVE  ConfigInv'
<1>1. WalkKept'
  BY KeptFixed DEF ConfigInv
<1>2. ManifestFits(method.status, method.declared, lora, issues)'
  BY ManifestFixed
<1> QED
  BY <1>1, <1>2 DEF ConfigInv, NeverEscapes, Walked, Early, InLora

LEMMA ExplicitClean ==
  ASSUME IsTree(tree), Clean
  PROVE  \A f \in Explicit : RequireText(f)
<1>1. <<>> \in DOMAIN tree
  BY DEF IsTree
<1> QED
  BY <1>1, CleanTexts DEF Explicit, ToSet

LEMMA MethodKeeps ==
  ASSUME ConfigInv, ReadMethod
  PROVE  ConfigInv'
<1>1. Walked /\ phase = "method"
  BY DEF ReadMethod, RefuseMethod, MethodMissing, MethodInvalid, MethodUnsupported, MethodLora,
         Walked
<1>2. IsTree(tree) /\ Clean /\ \A f \in Explicit : RequireText(f)
  BY <1>1, WalkedClean, ExplicitClean
<1>3. decoded = <<>> /\ lora = <<>> /\ issues = {}
  BY <1>1 DEF ConfigInv, Early
<1>4. TypeNamed => RequireNonempty(TextAt(Type))
  <2> SUFFICES ASSUME TypeNamed PROVE RequireNonempty(TextAt(Type))
    OBVIOUS
  <2>1. Type \in DOMAIN tree /\ Kind(Type) = "str" /\ TextAt(Type) # ""
    BY <1>2, GivenIs DEF TypeNamed, Type
  <2> QED
    BY <1>2, <2>1, CleanTexts DEF RequireNonempty
<1>5. CASE RefuseMethod
  BY <1>4, <1>5, RetainedKeep DEF RefuseMethod, RequireNonempty
<1>6. ASSUME NEW status, NEW declared, ClassifyMethod(status, declared),
             ManifestFits(status, declared, <<>>, {})
      PROVE  ConfigInv'
  <2>1. /\ UNCHANGED <<doc, tree, stack, code>> /\ phase' = "manifest"
        /\ method'.status = status /\ method'.declared = declared
        /\ lora' = <<>> /\ issues' = {}
    BY <1>3, <1>6 DEF ClassifyMethod, Proceed
  <2> QED
    BY <1>1, <1>6, <2>1, ToManifest
<1>7. CASE MethodMissing
  <2>1. ManifestFits("missing", <<>>, <<>>, {})
    BY <1>2, <1>7 DEF ManifestFits, MethodMissing
  <2> QED
    BY <1>6, <1>7, <2>1 DEF MethodMissing
<1>8. CASE MethodInvalid
  <2>1. ManifestFits("invalid", <<>>, <<>>, {})
    BY <1>2, <1>8 DEF ManifestFits, MethodInvalid
  <2> QED
    BY <1>6, <1>8, <2>1 DEF MethodInvalid
<1>9. CASE MethodUnsupported
  <2> DEFINE t == TextAt(Type)
  <2>1. RequireNonempty(t) /\ t # "LORA" /\ Given("peft_type")
    BY <1>4, <1>9 DEF MethodUnsupported, TypeNamed
  <2>2. ClassifyMethod("unsupported", <<t>>)
    BY <1>9 DEF MethodUnsupported
  <2> HIDE DEF t
  <2>3. <<t>> # <<>> /\ <<t>> # <<"LORA">> /\ Each(<<t>>, RequireNonempty)
    BY <2>1 DEF Each
  <2>4. ManifestFits("unsupported", <<t>>, <<>>, {})
    BY <1>2, <2>1, <2>3 DEF ManifestFits
  <2> QED
    BY <1>6, <2>2, <2>4
<1>10. CASE MethodLora
  <2>1. /\ UNCHANGED <<doc, tree, stack, code>> /\ phase' = "fields" /\ method' = LoraMethod
        /\ decoded' = <<>> /\ lora' = <<>> /\ issues' = UnknownIssues
    BY <1>3, <1>10 DEF MethodLora, Proceed, LoraMethod
  <2>2. WalkKept'
    BY <2>1, KeptFixed DEF ConfigInv
  <2>3. Given("peft_type")'
    BY <1>10, <2>1, ReadsFixed DEF MethodLora, TypeNamed
  <2>4. ReadUpTo(0)'
    BY <2>1 DEF ReadUpTo
  <2>5. issues' = FaultsUpTo(0)'
    BY <2>1, ReadingsFixed DEF FaultsUpTo
  <2>6. FieldsRead'
    BY <2>1, <2>3, <2>4, <2>5 DEF FieldsRead, LoraMethod
  <2> QED
    BY <1>1, <2>1, <2>2, <2>6 DEF ConfigInv, NeverEscapes, Walked, Early, InLora
<1> QED
  BY <1>5, <1>7, <1>8, <1>9, <1>10 DEF ReadMethod

-----------------------------------------------------------------------------
LEMMA AppendUpTo ==
  ASSUME NEW n \in Nat, NEW g, NEW s, s = [i \in 1 .. n |-> g[i]]
  PROVE  /\ Len(s) = n
         /\ Append(s, g[n + 1]) = [i \in 1 .. n + 1 |-> g[i]]
<1> DEFINE S == {g[i] : i \in 1 .. n + 1}
           x == g[n + 1]
           all == [i \in 1 .. n + 1 |-> g[i]]
<1>1. s \in Seq(S) /\ x \in S /\ Len(s) = n
  OBVIOUS
<1>2. all \in Seq(S) /\ Len(all) = n + 1 /\ \A i \in 1 .. n + 1 : all[i] = g[i]
  OBVIOUS
<1>3. \A i \in 1 .. n : s[i] = g[i]
  OBVIOUS
<1> HIDE DEF S, all
<1>4. x = g[n + 1]
  OBVIOUS
<1> HIDE DEF x
<1>5. Append(s, x) \in Seq(S) /\ Len(Append(s, x)) = n + 1
  BY <1>1
<1>6. \A i \in 1 .. n + 1 : Append(s, x)[i] = g[i]
  BY <1>1, <1>3, <1>4
<1>7. Append(s, x) = all
  BY <1>2, <1>5, <1>6
<1> QED
  BY <1>1, <1>7 DEF all, x

(***************************************************************************)
(* A decoder that returns its reading and adds its issue.                  *)
(***************************************************************************)
LEMMA DecodingAt ==
  ASSUME ConfigInv, Decoding
  PROVE  \E n \in 0 .. 19 :
           /\ ReadUpTo(n) /\ Field = DecodeOrder[n + 1] /\ issues = FaultsUpTo(n)
           /\ Field \in CoreFields
<1>1. phase = "fields" /\ FieldsRead
  BY DEF Decoding, ConfigInv, InLora
<1>2. PICK n \in 0 .. 20 : ReadUpTo(n) /\ issues = FaultsUpTo(n)
  BY <1>1 DEF FieldsRead
<1> DEFINE g == [i \in 1 .. 20 |-> Reading(DecodeOrder[i])]
<1>3. decoded = [i \in 1 .. n |-> g[i]]
  BY <1>2 DEF ReadUpTo
<1> HIDE DEF g
<1>4. Len(decoded) = n
  BY <1>3, AppendUpTo
<1>5. n \in 0 .. 19
  BY <1>4, CoreIs DEF Decoding
<1> QED
  BY <1>2, <1>4, <1>5, CoreIs DEF Field

LEMMA DecodedKeeps ==
  ASSUME ConfigInv, Decoding, Return(ValueOf(Field), ValidOf(Field)),
         issues' = issues \cup FaultsOf(Field)
  PROVE  ConfigInv'
<1>1. PICK n \in 0 .. 19 :
        ReadUpTo(n) /\ Field = DecodeOrder[n + 1] /\ issues = FaultsUpTo(n)
  BY DecodingAt
<1>2. /\ UNCHANGED <<doc, tree, stack, code, method, lora>>
      /\ phase = "fields" /\ phase' = "fields"
      /\ decoded' = Append(decoded, Reading(Field))
  BY DEF Return, Decoding, Reading
<1>3. WalkKept'
  BY <1>2, KeptFixed DEF ConfigInv
<1>4. ReadUpTo(n + 1)'
  <2> DEFINE g == [i \in 1 .. 20 |-> Reading(DecodeOrder[i])]
  <2>1. decoded = [i \in 1 .. n |-> g[i]] /\ g[n + 1] = Reading(Field)
    BY <1>1 DEF ReadUpTo
  <2>2. \A i \in 1 .. n + 1 : g[i] = Reading(DecodeOrder[i])
    OBVIOUS
  <2> HIDE DEF g
  <2>3. decoded' = [i \in 1 .. n + 1 |-> g[i]]
    BY <1>2, <2>1, AppendUpTo
  <2>4. decoded' = [i \in 1 .. n + 1 |-> Reading(DecodeOrder[i])]
    BY <2>2, <2>3
  <2>5. \A i \in 1 .. n + 1 : Reading(DecodeOrder[i])' = Reading(DecodeOrder[i])
    BY <1>2, ReadingsFixed
  <2> QED
    BY <2>4, <2>5 DEF ReadUpTo
<1>5. issues' = FaultsUpTo(n + 1)'
  <2>1. FaultsUpTo(n + 1) = FaultsUpTo(n) \cup FaultsOf(Field)
    <3>1. 1 .. n + 1 = (1 .. n) \cup {n + 1}
      OBVIOUS
    <3> QED
      BY <1>1, <3>1 DEF FaultsUpTo
  <2> QED
    BY <1>1, <1>2, <2>1, ReadingsFixed
<1>6. method' = LoraMethod /\ Given("peft_type")' /\ lora' = <<>>
  <2>1. method = LoraMethod /\ Given("peft_type") /\ lora = <<>>
    BY <1>2 DEF ConfigInv, InLora, FieldsRead
  <2> QED
    BY <1>2, <2>1, ReadsFixed
<1>7. FieldsRead'
  <2>1. n + 1 \in 0 .. 20
    OBVIOUS
  <2> QED
    BY <1>2, <1>4, <1>5, <1>6, <2>1 DEF FieldsRead, LoraMethod
<1> QED
  BY <1>2, <1>3, <1>7 DEF ConfigInv, NeverEscapes, Walked, Early, InLora

LEMMA DecodeKeeps ==
  ASSUME ConfigInv, Decode
  PROVE  ConfigInv'
<1>1. Decoding
  BY DEF Decode, DecodeOmitted, DecodeRefused, DecodeWrongType, DecodeWrongValue, DecodeValue
<1>2. Field \in CoreFields
  BY <1>1, DecodingAt
<1>3. IsTree(tree) /\ Clean
  BY <1>1, WalkedClean DEF Decoding, Walked
<1>4. CASE DecodeOmitted
  <2>1. /\ ValueOf(Field) = Default(Field) /\ ValidOf(Field) = TRUE /\ FaultsOf(Field) = {}
    BY <1>4 DEF DecodeOmitted, ValueOf, Readings, ValidOf, FaultsOf
  <2> QED
    BY <1>1, <1>4, <2>1, DecodedKeeps DEF DecodeOmitted
<1>5. CASE DecodeRefused
  <2>1. At(Field) \in DOMAIN tree
    BY <1>3, <1>5, GivenIs DEF DecodeRefused, Omitted
  <2>2. \A t \in Retained(Field, Value) : RequireText(t)
    BY <1>2, <1>3, <1>5, <2>1, RetainedClean DEF DecodeRefused, Value
  <2> QED
    BY <1>5, <2>2, RetainedKeep DEF DecodeRefused
<1>6. CASE DecodeWrongType
  <2>1. /\ ValueOf(Field) = Default(Field) /\ ValidOf(Field) = FALSE
        /\ FaultsOf(Field) = {Issue(Field, "invalid_type")}
    BY <1>6 DEF DecodeWrongType, ValueOf, Readings, Accepted, ValidOf, FaultsOf, Value
  <2> QED
    BY <1>1, <1>6, <2>1, DecodedKeeps DEF DecodeWrongType, Fault
<1>7. CASE DecodeWrongValue
  <2>1. /\ ValueOf(Field) = Default(Field) /\ ValidOf(Field) = FALSE
        /\ FaultsOf(Field) = {Issue(Field, "invalid_value")}
    BY <1>7 DEF DecodeWrongValue, ValueOf, Readings, Accepted, ValidOf, FaultsOf, Value
  <2> QED
    BY <1>1, <1>7, <2>1, DecodedKeeps DEF DecodeWrongValue, Fault
<1>8. CASE DecodeValue
  <2>1. /\ ValueOf(Field) = Normal(Field, Value) /\ ValidOf(Field) = TRUE
    BY <1>8 DEF DecodeValue, ValueOf, Readings, Accepted, ValidOf, Value
  <2>2. FaultsOf(Field) = {Issue(f, "unsupported_value") :
                             f \in {g \in {Field} : Unsupported(Normal(g, Value))}}
    BY <1>8 DEF DecodeValue, FaultsOf, Value, Unsupported, Nonordinary
  <2> QED
    BY <1>1, <1>8, <2>1, <2>2, DecodedKeeps DEF DecodeValue
<1> QED
  BY <1>4, <1>5, <1>6, <1>7, <1>8 DEF Decode

LEMMA DefaultOnlyKeeps ==
  ASSUME ConfigInv, ClassifyDefaultOnly
  PROVE  ConfigInv'
<1>1. /\ UNCHANGED <<doc, tree, stack, code, method, decoded, lora>>
      /\ phase = "fields" /\ phase' = "relations"
      /\ issues' = issues \cup DefaultOnlyIssues /\ Len(decoded) = 20
  BY CoreIs DEF ClassifyDefaultOnly, Proceed
<1>2. PICK n \in 0 .. 20 : ReadUpTo(n) /\ issues = FaultsUpTo(n)
  BY <1>1 DEF ConfigInv, InLora, FieldsRead
<1>3. n = 20
  <2> DEFINE g == [i \in 1 .. 20 |-> Reading(DecodeOrder[i])]
  <2>1. decoded = [i \in 1 .. n |-> g[i]]
    BY <1>2 DEF ReadUpTo
  <2> HIDE DEF g
  <2> QED
    BY <1>1, <2>1, AppendUpTo
<1>4. WalkKept'
  BY <1>1, KeptFixed DEF ConfigInv
<1>5. ReadUpTo(20)'
  BY <1>1, <1>2, <1>3, ReadingsFixed DEF ReadUpTo
<1>6. issues' = (FaultsUpTo(20) \cup DefaultOnlyIssues)'
  BY <1>1, <1>2, <1>3, ReadingsFixed
<1>7. method' = LoraMethod /\ Given("peft_type")' /\ lora' = <<>>
  <2>1. method = LoraMethod /\ Given("peft_type") /\ lora = <<>>
    BY <1>1 DEF ConfigInv, InLora, FieldsRead
  <2> QED
    BY <1>1, <2>1, ReadsFixed
<1>8. FieldsRead'
  BY <1>1, <1>5, <1>6, <1>7 DEF FieldsRead, LoraMethod
<1> QED
  BY <1>1, <1>4, <1>8 DEF ConfigInv, NeverEscapes, Walked, Early, InLora

-----------------------------------------------------------------------------
(***************************************************************************)
(* All fields are read.                                                    *)
(***************************************************************************)
AllIssues == FaultsUpTo(20) \cup DefaultOnlyIssues

LEMMA RelatingAt ==
  ASSUME ConfigInv, Relating
  PROVE  /\ IsTree(tree) /\ Clean /\ Walked
         /\ method = LoraMethod /\ Given("peft_type") /\ lora = <<>>
         /\ ReadUpTo(20) /\ issues = AllIssues
<1>1. Walked /\ InLora /\ phase = "relations"
  BY DEF Relating, Walked, InLora
<1>2. FieldsRead
  BY <1>1 DEF ConfigInv
<1> QED
  BY <1>1, <1>2, WalkedClean DEF FieldsRead, AllIssues

LEMMA DecodedIs ==
  ASSUME ReadUpTo(20)
  PROVE  /\ \A f \in CoreFields : Decoded(f) = ValueOf(f)
         /\ AllValid <=> \A f \in CoreFields : ValidOf(f)
<1>1. /\ DOMAIN decoded = 1 .. 20
      /\ \A i \in 1 .. 20 : decoded[i].value = ValueOf(DecodeOrder[i])
                            /\ decoded[i].valid = ValidOf(DecodeOrder[i])
  BY DEF ReadUpTo, Reading
<1>2. \A f \in CoreFields : \E i \in 1 .. 20 : DecodeOrder[i] = f
  BY CoreIs DEF CoreFields, ToSet
<1>3. \A i \in 1 .. 20 : DecodeOrder[i] \in CoreFields
  BY CoreIs
<1>4. ASSUME NEW f \in CoreFields PROVE Decoded(f) = ValueOf(f)
  <2> DEFINE k == CHOOSE i \in DOMAIN decoded : DecodeOrder[i] = f
  <2>1. k \in 1 .. 20 /\ DecodeOrder[k] = f
    BY <1>1, <1>2
  <2> HIDE DEF k
  <2>2. decoded[k].value = ValueOf(f)
    BY <1>1, <2>1
  <2> QED
    BY <2>2 DEF Decoded, k
<1>5. AllValid <=> \A f \in CoreFields : ValidOf(f)
  BY <1>1, <1>2, <1>3 DEF AllValid
<1> QED
  BY <1>4, <1>5

LEMMA CoreKnown == CoreFields \subseteq KnownFields
  BY DEF KnownFields

LEMMA FaultIs ==
  ASSUME IsTree(tree), NEW f, NEW x \in FaultsOf(f)
  PROVE  /\ x.field = f /\ f \in Explicit /\ ~Omitted(f)
         /\ x.kind \in {"invalid_type", "invalid_value", "unsupported_value"}
<1>1. ~Omitted(f)
  BY DEF FaultsOf
<1>2. f \in Explicit
  BY <1>1, GivenIs DEF Omitted
<1>3. x \in {Issue(f, "invalid_type"), Issue(f, "invalid_value"), Issue(f, "unsupported_value")}
  BY DEF FaultsOf
<1> QED
  BY <1>1, <1>2, <1>3 DEF Issue

LEMMA DefaultOnlyIs ==
  ASSUME IsTree(tree), NEW x \in DefaultOnlyIssues
  PROVE  /\ x.field \in Explicit \cap KnownFields
         /\ \/ /\ x.kind \in {"invalid_type", "invalid_value", "unsupported_value"}
               /\ x.field \in DefaultOnly /\ ~HoldsDefault(x.field)
            \/ x = Issue("runtime_config", "ignored_field")
<1>1. CASE x \in {Issue(f, DefaultOnlyKind(f)) :
                    f \in {g \in DefaultOnly : Given(g) /\ ~HoldsDefault(g)}}
  <2>1. PICK f \in DefaultOnly :
          Given(f) /\ ~HoldsDefault(f) /\ x = Issue(f, DefaultOnlyKind(f))
    BY <1>1
  <2>2. f \in Explicit /\ f \in KnownFields
    BY <2>1, GivenIs DEF KnownFields
  <2>3. DefaultOnlyKind(f) \in {"invalid_type", "invalid_value", "unsupported_value"}
    BY DEF DefaultOnlyKind
  <2> QED
    BY <2>1, <2>2, <2>3 DEF Issue
<1>2. CASE x \in {Issue(f, "ignored_field") : f \in {"runtime_config"} \cap Explicit}
  BY <1>2 DEF Issue, KnownFields
<1> QED
  BY <1>1, <1>2 DEF DefaultOnlyIssues

LEMMA UnknownIs ==
  ASSUME NEW x \in UnknownIssues
  PROVE  x.field \in Explicit \ KnownFields /\ x.kind = "unknown_field"
  BY DEF UnknownIssues, Issue

LEMMA AllIssuesIs ==
  AllIssues =
    UnknownIssues \cup (UNION {FaultsOf(f) : f \in CoreFields}) \cup DefaultOnlyIssues
<1>1. {FaultsOf(DecodeOrder[i]) : i \in 1 .. 20} = {FaultsOf(f) : f \in CoreFields}
  BY CoreIs DEF CoreFields, ToSet
<1> QED
  BY <1>1 DEF AllIssues, FaultsUpTo

(***************************************************************************)
(* The issues of a document, with those of a broken rule, are issues that  *)
(* the manifest's constructor takes.                                       *)
(***************************************************************************)
IssuesFit(found) ==
  /\ \A i \in found : i.field \in Explicit
  /\ FieldsWith(found, "unknown_field") = Explicit \ KnownFields
  /\ \A i \in found : i.field \notin KnownFields => i.kind = "unknown_field"
  /\ FieldsWith(found, "ignored_field") = {"runtime_config"} \cap Explicit

LEMMA IssuesAccepted ==
  ASSUME IsTree(tree), NEW faults \in SUBSET (CoreFields \cap Explicit)
  PROVE  IssuesFit(AllIssues \cup {Issue(f, "invalid_value") : f \in faults})
<1> DEFINE found == AllIssues \cup {Issue(f, "invalid_value") : f \in faults}
<1>1. ASSUME NEW x \in found
      PROVE  \/ x \in UnknownIssues
             \/ /\ x.field \in Explicit \cap KnownFields
                /\ x.kind \in {"invalid_type", "invalid_value", "unsupported_value"}
             \/ x = Issue("runtime_config", "ignored_field") /\ x.field \in Explicit \cap KnownFields
  <2>1. CASE x \in {Issue(f, "invalid_value") : f \in faults}
    BY <2>1, CoreKnown DEF Issue
  <2>2. CASE x \in UNION {FaultsOf(f) : f \in CoreFields}
    BY <2>2, FaultIs, CoreKnown
  <2>3. CASE x \in DefaultOnlyIssues
    BY <2>3, DefaultOnlyIs
  <2> QED
    BY <2>1, <2>2, <2>3, AllIssuesIs
<1>2. \A f \in Explicit \ KnownFields : Issue(f, "unknown_field") \in found
  BY AllIssuesIs DEF UnknownIssues
<1>3. "runtime_config" \in Explicit => Issue("runtime_config", "ignored_field") \in found
  BY AllIssuesIs DEF DefaultOnlyIssues
<1> HIDE DEF found
<1>4. \A x \in found : x.field \in Explicit /\ (x.field \notin KnownFields => x.kind = "unknown_field")
  BY <1>1, UnknownIs
<1>5. FieldsWith(found, "unknown_field") = Explicit \ KnownFields
  <2>1. ASSUME NEW x \in found, x.kind = "unknown_field" PROVE x.field \in Explicit \ KnownFields
    BY <1>1, <2>1, UnknownIs DEF Issue
  <2>2. ASSUME NEW f \in Explicit \ KnownFields PROVE f \in FieldsWith(found, "unknown_field")
    <3> DEFINE x == Issue(f, "unknown_field")
    <3>1. x \in found /\ x.field = f /\ x.kind = "unknown_field"
      BY <1>2, <2>2 DEF Issue
    <3> HIDE DEF x
    <3> QED
      BY <3>1 DEF FieldsWith
  <2> QED
    BY <2>1, <2>2 DEF FieldsWith
<1>6. FieldsWith(found, "ignored_field") = {"runtime_config"} \cap Explicit
  <2>1. ASSUME NEW x \in found, x.kind = "ignored_field"
        PROVE  x.field \in {"runtime_config"} \cap Explicit
    BY <1>1, <2>1, UnknownIs DEF Issue
  <2>2. ASSUME "runtime_config" \in Explicit
        PROVE  "runtime_config" \in FieldsWith(found, "ignored_field")
    BY <1>3, <2>2 DEF FieldsWith, Issue
  <2> QED
    BY <2>1, <2>2 DEF FieldsWith
<1> QED
  BY <1>4, <1>5, <1>6 DEF IssuesFit, found

LEMMA LoraAccepted ==
  ASSUME IsTree(tree), Clean, Given("peft_type"), NEW found, IssuesFit(found), NEW profile,
         profile = <<>> => \E i \in found : Blocking(i),
         \A k \in DOMAIN profile : /\ ProfileFits(profile[k].values)
                                   /\ ProvenanceFits(profile[k])
                                   /\ NonordinaryIssues(profile[k].values) \subseteq found
  PROVE  ManifestFits("supported_lora", <<"LORA">>, profile, found)
<1>1. \A f \in Explicit : RequireText(f)
  BY ExplicitClean
<1>2. LoraManifestFits(<<"LORA">>, profile, found)
  BY DEF LoraManifestFits, IssuesFit
<1> QED
  BY <1>1, <1>2 DEF ManifestFits, IssuesFit

-----------------------------------------------------------------------------
\* The fields a rule between fields can blame, and what blames them.
RuleFields == {"layers_to_transform", "layers_pattern", "target_modules"}

RuleBroken == StringWithLayers \/ NoTargets \/ PatternWithoutLayers

LEMMA ValueStated ==
  ASSUME IsTree(tree), NEW f, ValueOf(f) # Default(f)
  PROVE  f \in Explicit /\ Readings(f)
<1>1. Readings(f)
  BY DEF ValueOf
<1>2. Given(f)
  BY <1>1 DEF Readings, Omitted
<1> QED
  BY <1>1, <1>2, GivenIs

LEMMA GivenUp ==
  ASSUME ConfigInv, Relating, NEW faults \in SUBSET (CoreFields \cap Explicit), GiveUp(faults),
         \E i \in AllIssues \cup {Issue(f, "invalid_value") : f \in faults} : Blocking(i)
  PROVE  ConfigInv'
<1>1. /\ IsTree(tree) /\ Clean /\ Walked
      /\ method = LoraMethod /\ Given("peft_type") /\ lora = <<>> /\ issues = AllIssues
  BY RelatingAt
<1> DEFINE found == AllIssues \cup {Issue(f, "invalid_value") : f \in faults}
<1>2. IssuesFit(found)
  BY <1>1, IssuesAccepted
<1>3. ManifestFits("supported_lora", <<"LORA">>, <<>>, found)
  <2>1. \E i \in found : Blocking(i)
    OBVIOUS
  <2> HIDE DEF found
  <2> QED
    BY <1>1, <1>2, <2>1, LoraAccepted
<1>4. /\ UNCHANGED <<doc, tree, stack, code>> /\ phase' = "manifest"
      /\ method'.status = "supported_lora" /\ method'.declared = <<"LORA">>
      /\ lora' = <<>> /\ issues' = found
  BY <1>1 DEF GiveUp, Proceed, LoraMethod
<1> HIDE DEF found
<1> QED
  BY <1>1, <1>3, <1>4, ToManifest

\* A blocking issue among those of the fields.
LEMMA InvalidBlocks ==
  ASSUME NEW f \in CoreFields, ~ValidOf(f)
  PROVE  \E i \in AllIssues : Blocking(i)
<1>1. \E i \in FaultsOf(f) : Blocking(i)
  BY DEF ValidOf, Accepted, FaultsOf, Issue, Blocking
<1> QED
  BY <1>1, AllIssuesIs

LEMMA RulesKeep ==
  ASSUME ConfigInv, GiveUpInvalid \/ GiveUpStringTarget \/ GiveUpNoTargets \/ GiveUpPattern
  PROVE  ConfigInv'
<1>1. Relating
  BY DEF GiveUpInvalid, GiveUpStringTarget, GiveUpNoTargets, GiveUpPattern
<1>2. IsTree(tree) /\ ReadUpTo(20)
  BY <1>1, RelatingAt
<1>3. \A f \in CoreFields : Decoded(f) = ValueOf(f)
  BY <1>2, DecodedIs
<1>4. AllValid <=> \A f \in CoreFields : ValidOf(f)
  BY <1>2, DecodedIs
<1>5. RuleFields \subseteq CoreFields
  BY CoreIs DEF RuleFields, CoreSet
<1>6. /\ Default("layers_to_transform") = <<>> /\ Default("layers_pattern") = <<>>
      /\ Default("target_modules") = DefaultSelector
  BY DEF Default
<1>7. \A f \in CoreFields : Decoded(f) # Default(f) => f \in Explicit
  BY <1>2, <1>3, ValueStated
<1>8. \A faults : \A f \in faults :
        Issue(f, "invalid_value") \in AllIssues \cup {Issue(g, "invalid_value") : g \in faults}
        /\ Blocking(Issue(f, "invalid_value"))
  BY DEF Blocking, Issue
<1>9. CASE GiveUpInvalid
  <2>1. PICK f \in CoreFields : ~ValidOf(f)
    BY <1>4, <1>9 DEF GiveUpInvalid
  <2>2. \E i \in AllIssues \cup {Issue(g, "invalid_value") : g \in {}} : Blocking(i)
    BY <2>1, InvalidBlocks
  <2> QED
    BY <1>1, <1>9, <2>2, GivenUp DEF GiveUpInvalid
<1>10. CASE GiveUpStringTarget
  <2> DEFINE faults == {f \in {"layers_to_transform", "layers_pattern"} : Decoded(f) # <<>>}
  <2>1. faults # {}
    BY <1>10 DEF GiveUpStringTarget, StringWithLayers, Layers, Pattern
  <2>2. faults \in SUBSET (CoreFields \cap Explicit)
    BY <1>5, <1>6, <1>7 DEF RuleFields
  <2>3. GiveUp(faults)
    BY <1>10 DEF GiveUpStringTarget
  <2> HIDE DEF faults
  <2>4. \E i \in AllIssues \cup {Issue(f, "invalid_value") : f \in faults} : Blocking(i)
    BY <1>8, <2>1
  <2> QED
    BY <1>1, <2>2, <2>3, <2>4, GivenUp
<1>11. CASE GiveUpNoTargets
  <2>1. Decoded("target_modules").kind = "names"
    BY <1>11 DEF GiveUpNoTargets, NoTargets, Target
  <2>2. "target_modules" \in CoreFields \cap Explicit
    <3>1. Decoded("target_modules") # Default("target_modules")
      BY <1>6, <2>1 DEF DefaultSelector, Selector
    <3> QED
      BY <1>5, <1>7, <3>1 DEF RuleFields
  <2>3. CASE Given("target_parameters") /\ Kind(At("target_parameters")) # "null"
    <3>1. "target_parameters" \in DefaultOnly /\ "null" \in Tolerated["target_parameters"]
      BY DEF DefaultOnly, Tolerated
    <3>2. ~HoldsDefault("target_parameters")
      BY <2>3, <3>1 DEF HoldsDefault
    <3> DEFINE x == Issue("target_parameters", DefaultOnlyKind("target_parameters"))
    <3>3. x \in AllIssues
      BY <2>3, <3>1, <3>2 DEF AllIssues, DefaultOnlyIssues
    <3>4. Blocking(x)
      BY DEF Blocking, Issue, DefaultOnlyKind
    <3> HIDE DEF x
    <3>5. \E i \in AllIssues \cup {Issue(g, "invalid_value") : g \in {}} : Blocking(i)
      BY <3>3, <3>4
    <3>6. GiveUp({})
      BY <1>11, <2>3 DEF GiveUpNoTargets
    <3> QED
      BY <1>1, <3>5, <3>6, GivenUp
  <2>4. CASE ~(Given("target_parameters") /\ Kind(At("target_parameters")) # "null")
    <3>1. GiveUp({"target_modules"})
      BY <1>11, <2>4 DEF GiveUpNoTargets
    <3>2. \E i \in AllIssues \cup {Issue(g, "invalid_value") : g \in {"target_modules"}} : Blocking(i)
      BY <1>8
    <3> QED
      BY <1>1, <2>2, <3>1, <3>2, GivenUp
  <2> QED
    BY <2>3, <2>4
<1>12. CASE GiveUpPattern
  <2>1. GiveUp({"layers_pattern"}) /\ Decoded("layers_pattern") # <<>>
    BY <1>12 DEF GiveUpPattern, PatternWithoutLayers, Pattern, Falsy
  <2>2. "layers_pattern" \in CoreFields \cap Explicit
    BY <1>5, <1>6, <1>7, <2>1 DEF RuleFields
  <2>3. \E i \in AllIssues \cup {Issue(g, "invalid_value") : g \in {"layers_pattern"}} : Blocking(i)
    BY <1>8
  <2> QED
    BY <1>1, <2>1, <2>2, <2>3, GivenUp
<1> QED
  BY <1>9, <1>10, <1>11, <1>12

(***************************************************************************)
(* Neither constructor refuses the profile of valid readings.              *)
(***************************************************************************)
LEMMA ValuesFit ==
  ASSUME IsTree(tree), Clean, NEW f \in CoreFields
  PROVE  FieldFits(f, ValueOf(f))
<1>1. CASE Readings(f)
  <2>1. At(f) \in DOMAIN tree
    BY <1>1, GivenIs DEF Readings, Omitted
  <2> QED
    BY <1>1, <2>1, NormalFits DEF Readings, ValueOf
<1>2. CASE ~Readings(f)
  BY <1>2, DefaultFits DEF ValueOf
<1> QED
  BY <1>1, <1>2

LEMMA ProfileAccepted ==
  ASSUME ConfigInv, Relating, AllValid, ~RuleBroken
  PROVE  /\ ProfileFits(Profile.values) /\ ProvenanceFits(Profile)
         /\ NonordinaryIssues(Profile.values) \subseteq AllIssues
<1>1. IsTree(tree) /\ Clean /\ ReadUpTo(20)
  BY RelatingAt
<1>2. /\ \A f \in CoreFields : Decoded(f) = ValueOf(f)
      /\ \A f \in CoreFields : ValidOf(f)
  BY <1>1, DecodedIs
<1> DEFINE v == Profile.values
<1>3. \A f \in CoreFields : v[f] = ValueOf(f)
  BY <1>2 DEF Profile
<1>4. Profile.declared = ~Omitted("peft_version")
  BY DEF Profile
<1> HIDE DEF v
<1>5. \A f \in RuleFields : f \in CoreFields
  BY CoreIs DEF RuleFields, CoreSet
<1>6. LayerRulesFit(v)
  <2>1. /\ v["target_modules"] = Target /\ v["layers_to_transform"] = Layers
        /\ v["layers_pattern"] = Pattern
    BY <1>2, <1>3, <1>5 DEF RuleFields, Target, Layers, Pattern
  <2> QED
    BY <2>1 DEF LayerRulesFit, RuleBroken, StringWithLayers, NoTargets, PatternWithoutLayers
<1>7. ProfileFits(v)
  BY <1>1, <1>3, <1>6, ValuesFit, ProfileByField
<1>8. ProvenanceFits(Profile)
  <2>1. "peft_version" \in CoreFields
    BY CoreIs DEF CoreSet
  <2>2. \A f \in CoreFields \ Explicit : v[f] = Default(f)
    BY <1>1, <1>3, ValueStated
  <2>3. ~Omitted("peft_version") => Given("peft_version")
    BY DEF Omitted
  <2>4. Omitted("peft_version") => v["peft_version"] = PinnedVersion
    BY <1>3, <2>1 DEF ValueOf, Readings, Default
  <2> QED
    BY <1>4, <2>2, <2>3, <2>4 DEF ProvenanceFits, v
<1>9. ASSUME NEW f \in CoreFields, Nonordinary(f, v[f])
      PROVE  Issue(f, "unsupported_value") \in AllIssues
  <2>1. ~Nonordinary(f, Default(f))
    BY DEF Nonordinary, Default, DefaultInitializer, Initializer
  <2>2. Readings(f) /\ Nonordinary(f, Normal(f, At(f)))
    BY <1>3, <1>9, <2>1 DEF ValueOf
  <2>3. Issue(f, "unsupported_value") \in FaultsOf(f)
    BY <2>2 DEF Readings, Accepted, FaultsOf
  <2> QED
    BY <2>3, AllIssuesIs
<1>10. NonordinaryIssues(v) \subseteq AllIssues
  <2>1. "bias" \in CoreFields /\ "init_lora_weights" \in CoreFields
    BY CoreIs DEF CoreSet
  <2> QED
    BY <1>9, <2>1 DEF NonordinaryIssues, Nonordinary
<1> QED
  BY <1>7, <1>8, <1>10 DEF v

LEMMA ProfileKeeps ==
  ASSUME ConfigInv, BuildProfile
  PROVE  ConfigInv'
<1>1. Relating /\ AllValid /\ ~RuleBroken
  BY DEF BuildProfile, RuleBroken
<1>2. /\ IsTree(tree) /\ Clean /\ Walked
      /\ method = LoraMethod /\ Given("peft_type") /\ issues = AllIssues
  BY <1>1, RelatingAt
<1>3. /\ ProfileFits(Profile.values) /\ ProvenanceFits(Profile)
      /\ NonordinaryIssues(Profile.values) \subseteq AllIssues
  BY <1>1, ProfileAccepted
<1>4. /\ UNCHANGED <<doc, tree, stack, code, method, issues>>
      /\ phase' = "manifest" /\ lora' = <<Profile>>
  BY <1>3 DEF BuildProfile, Construct
<1>5. IssuesFit(AllIssues)
  <2>1. AllIssues \cup {Issue(f, "invalid_value") : f \in {}} = AllIssues
    OBVIOUS
  <2> QED
    BY <1>2, <2>1, IssuesAccepted
<1>6. ManifestFits("supported_lora", <<"LORA">>, <<Profile>>, AllIssues)
  <2> DEFINE one == <<Profile>>
  <2>1. one # <<>> /\ \A k \in DOMAIN one : one[k] = Profile
    OBVIOUS
  <2> HIDE DEF one
  <2>2. ManifestFits("supported_lora", <<"LORA">>, one, AllIssues)
    BY <1>2, <1>3, <1>5, <2>1, LoraAccepted
  <2> QED
    BY <2>2 DEF one
<1> QED
  BY <1>2, <1>4, <1>6, ToManifest DEF LoraMethod

LEMMA ManifestKeeps ==
  ASSUME ConfigInv, BuildManifest
  PROVE  ConfigInv'
<1>1. phase = "manifest" /\ ManifestFits(method.status, method.declared, lora, issues)
  BY DEF BuildManifest, ConfigInv
<1>2. UNCHANGED <<doc, tree, stack, code, fields>> /\ phase' = "done"
  BY <1>1 DEF BuildManifest, Construct
<1>3. WalkKept'
  BY <1>2, KeptFixed DEF ConfigInv
<1> QED
  BY <1>1, <1>2, <1>3 DEF ConfigInv, NeverEscapes, Walked, Early, InLora

LEMMA ConfigStep ==
  ASSUME ConfigInv, [Next]_vars
  PROVE  ConfigInv'
<1>1. CASE Next
  BY <1>1, BytesKeep, WalkKeeps, MethodKeeps, DecodeKeeps, DefaultOnlyKeeps, RulesKeep,
     ProfileKeeps, ManifestKeeps
     DEF Next, Relate
<1>2. CASE UNCHANGED vars
  <2>1. UNCHANGED <<doc, tree, stack, code, phase, method, decoded, lora, issues>>
    BY <1>2 DEF vars, fields
  <2>2. WalkKept'
    BY <2>1, KeptFixed DEF ConfigInv
  <2>3. (phase = "manifest" => ManifestFits(method.status, method.declared, lora, issues))'
    BY <2>1, ManifestFixed DEF ConfigInv
  <2>4. (InLora => FieldsRead)'
    <3>1. \A n : ReadUpTo(n)' <=> ReadUpTo(n)
      BY <2>1, ReadingsFixed DEF ReadUpTo
    <3>2. /\ \A n : FaultsUpTo(n)' = FaultsUpTo(n)
          /\ DefaultOnlyIssues' = DefaultOnlyIssues
          /\ Given("peft_type")' <=> Given("peft_type")
      BY <2>1, ReadingsFixed, ReadsFixed
    <3> QED
      BY <2>1, <3>1, <3>2 DEF ConfigInv, InLora, FieldsRead, LoraMethod
  <2> QED
    BY <2>1, <2>2, <2>3, <2>4 DEF ConfigInv, NeverEscapes, Walked, Early
<1> QED
  BY <1>1, <1>2

LEMMA ConfigStart == Init => ConfigInv
<1> SUFFICES ASSUME Init PROVE ConfigInv
  OBVIOUS
<1>1. tree \in Trees /\ WalkInit /\ doc \in R!Document
  BY DEF Init, Start
<1>2. WalkKept
  BY <1>1, StartOrdered, MissStart DEF WalkKept
<1>3. code = "none"
  BY DEF Init, WalkInit
<1> QED
  BY <1>2, <1>3 DEF Init, ConfigInv, NeverEscapes, Walked, Early, InLora

(***************************************************************************)
(* The invariant behind the theorems about parse_adapter_config: each      *)
(* decoder has returned exactly what the document says of its field, the   *)
(* issues are exactly the faults of the fields read, and the constructors' *)
(* checks pass.                                                            *)
(***************************************************************************)
THEOREM ConfigCorrect == Spec => []ConfigInv
<1> QED
  BY ConfigStart, ConfigStep, PTL DEF Spec

(***************************************************************************)
(* parse_adapter_config never lets a ValueError of its constructors or a   *)
(* UnicodeEncodeError escape, on any document.                             *)
(***************************************************************************)
THEOREM OnlyDocumentedCodes == Spec => []NeverEscapes
<1>1. ConfigInv => NeverEscapes
  BY DEF ConfigInv
<1> QED
  BY ConfigCorrect, <1>1, PTL

-----------------------------------------------------------------------------
(***************************************************************************)
(* ConfigReport reads the same document with the same operators.           *)
(***************************************************************************)
LEMMA ReportReads ==
  /\ \A p : /\ R!Kind(p) = Kind(p) /\ R!Keys(p) = Keys(p)
            /\ R!Children(p) = Children(p) /\ R!TextAt(p) = TextAt(p)
  /\ \A f : R!At(f) = At(f) /\ (R!Given(f) <=> Given(f))
  /\ R!CoreFields = CoreFields /\ R!DefaultOnly = DefaultOnly /\ R!Nullable = Nullable
  /\ R!TaskTypes = TaskTypes /\ R!AutoMappingKeys = AutoMappingKeys
<1>1. \A p : /\ R!Kind(p) = Kind(p) /\ R!Keys(p) = Keys(p)
             /\ R!Children(p) = Children(p) /\ R!TextAt(p) = TextAt(p)
  BY DEF R!Kind, Kind, R!Keys, Keys, R!Children, Children, R!Width, Width, R!TextAt, TextAt
<1>2. \A p, k : R!Member(p, k) = Member(p, k)
  BY <1>1 DEF R!Member, Member
<1>3. \A p, k : R!Get(p, k) = Get(p, k) /\ (R!Has(p, k) <=> Has(p, k))
  BY <1>2 DEF R!Get, Get, R!Has, Has
<1>4. \A f : R!At(f) = At(f) /\ (R!Given(f) <=> Given(f))
  BY <1>3 DEF R!At, At, R!Given, Given
<1>5. R!CoreFields = CoreFields
  BY DEF R!CoreFields, CoreFields, R!DecodeOrder, DecodeOrder, R!ToSet, ToSet
<1>6. R!DefaultOnly = DefaultOnly
  BY DEF R!DefaultOnly, DefaultOnly, R!Tolerated, Tolerated
<1>7. /\ R!Nullable = Nullable /\ R!TaskTypes = TaskTypes
      /\ R!AutoMappingKeys = AutoMappingKeys
  BY DEF R!Nullable, Nullable, R!TaskTypes, TaskTypes, R!AutoMappingKeys, AutoMappingKeys
<1> QED
  BY <1>1, <1>4, <1>5, <1>6, <1>7

LEMMA ReportTests ==
  /\ \A p, lo : R!IntWithin(p, lo) <=> IntWithin(p, lo)
  /\ \A p, lo, hi : R!NumberWithin(p, lo, hi) <=> NumberWithin(p, lo, hi)
  /\ \A f : R!HoldsDefault(f) <=> HoldsDefault(f)
<1>1. \A p, lo : R!IntWithin(p, lo) <=> IntWithin(p, lo)
  BY DEF R!IntWithin, IntWithin
<1>2. \A p, lo, hi : R!NumberWithin(p, lo, hi) <=> NumberWithin(p, lo, hi)
  BY ReportReads DEF R!NumberWithin, NumberWithin, R!NumberSupported, NumberSupported,
                     R!NumberAt, NumberAt
<1>3. \A f : R!HoldsDefault(f) <=> HoldsDefault(f)
  BY ReportReads DEF R!HoldsDefault, HoldsDefault, R!Tolerated, Tolerated
<1> QED
  BY <1>1, <1>2, <1>3

-----------------------------------------------------------------------------
(***************************************************************************)
(* A value its decoder accepts without an issue is one an ordinary         *)
(* configuration has there, and the other way round.                       *)
(***************************************************************************)
Faultless(f, p) == TypeFits(f, p) /\ ValueFits(f, p) /\ ~Nonordinary(f, Normal(f, p))

LEMMA OrdinaryText ==
  ASSUME IsTree(tree), NEW p \in DOMAIN tree,
         NEW f \in {"task_type", "peft_version", "base_model_name_or_path", "revision", "bias"},
         f # "bias" => Kind(p) # "null"
  PROVE  R!OrdinaryCore(f, p) <=> Faultless(f, p)
<1>1. TypeFits(f, p) <=> Kind(p) = "str"
  BY DEF TypeFits, Forms, HasForm
<1>2. R!IsText(p) <=> Kind(p) = "str"
  BY ReportReads DEF R!IsText
<1>3. CASE f = "task_type"
  BY <1>1, <1>2, <1>3, ReportReads
     DEF R!OrdinaryCore, R!IsNull, Faultless, ValueFits, Nonordinary
<1>4. CASE f = "peft_version"
  BY <1>1, <1>2, <1>4, ReportReads
     DEF R!OrdinaryCore, R!NonemptyText, R!IsNull, Faultless, ValueFits, Nonordinary
<1>5. CASE f \in {"base_model_name_or_path", "revision"}
  BY <1>1, <1>2, <1>5, ReportReads
     DEF R!OrdinaryCore, R!IsNull, Faultless, ValueFits, Nonordinary
<1>6. CASE f = "bias"
  <2>1. Normal(f, p) = TextAt(p) /\ "none" \in BiasModes
    BY <1>6 DEF Normal, BiasModes
  <2> QED
    BY <1>1, <1>2, <1>6, <2>1, ReportReads
       DEF R!OrdinaryCore, Nullable, Faultless, ValueFits, Nonordinary
<1> QED
  BY <1>3, <1>4, <1>5, <1>6

LEMMA OrdinaryNumber ==
  ASSUME IsTree(tree), NEW p \in DOMAIN tree,
         NEW f \in {"r", "lora_alpha", "lora_dropout", "inference_mode", "fan_in_fan_out",
                    "use_rslora"}
  PROVE  R!OrdinaryCore(f, p) <=> Faultless(f, p)
<1>1. f \notin Nullable
  BY DEF Nullable
<1>2. CASE f = "r"
  <2>1. TypeFits(f, p) <=> Kind(p) = "int"
    BY <1>2 DEF TypeFits, Forms, HasForm
  <2> QED
    BY <1>1, <1>2, <2>1, ReportReads, ReportTests
       DEF R!OrdinaryCore, R!RankOf, R!IsInteger, Faultless, ValueFits, Nonordinary
<1>3. CASE f \in {"lora_alpha", "lora_dropout"}
  <2>1. TypeFits(f, p) <=> Kind(p) \in {"int", "float"}
    BY <1>3 DEF TypeFits, Forms, HasForm
  <2> QED
    BY <1>1, <1>3, <2>1, ReportReads, ReportTests
       DEF R!OrdinaryCore, R!Alpha, R!IsNumber, Faultless, ValueFits, Nonordinary, DecimalWithin
<1>4. CASE f \in {"inference_mode", "fan_in_fan_out", "use_rslora"}
  <2>1. TypeFits(f, p) <=> Kind(p) = "bool"
    BY <1>4 DEF TypeFits, Forms, HasForm
  <2> QED
    BY <1>1, <1>4, <2>1, ReportReads
       DEF R!OrdinaryCore, Faultless, ValueFits, Nonordinary
<1> QED
  BY <1>2, <1>3, <1>4

LEMMA OrdinaryInitializer ==
  ASSUME IsTree(tree), NEW p \in DOMAIN tree
  PROVE  R!OrdinaryCore("init_lora_weights", p) <=> Faultless("init_lora_weights", p)
<1>1. TypeFits("init_lora_weights", p) <=> Kind(p) \in {"bool", "str"}
  BY DEF TypeFits, Forms, HasForm
<1>2. R!OrdinaryCore("init_lora_weights", p) <=> Kind(p) = "bool" /\ tree[p].bool
  BY ReportReads DEF R!OrdinaryCore, Nullable
<1>3. Normal("init_lora_weights", p) = InitializerAt(p)
  BY DEF Normal
<1>4. CASE Kind(p) = "str"
  <2>1. ASSUME KnownInitializer(TextAt(p)) PROVE InitializerAt(p).kind # "default"
    BY <1>4, <2>1 DEF InitializerAt, InitializerNamed, Initializer, KnownInitializer,
                      FoldedInitializers, SpeltInitializers
  <2> QED
    BY <1>2, <1>3, <1>4, <2>1 DEF Faultless, ValueFits, Nonordinary
<1>5. CASE Kind(p) = "bool"
  <2>1. ValueFits("init_lora_weights", p)
    BY <1>5 DEF ValueFits
  <2>2. InitializerAt(p).kind = "default" <=> tree[p].bool
    BY <1>5 DEF InitializerAt, DefaultInitializer, Initializer
  <2> QED
    BY <1>1, <1>2, <1>3, <1>5, <2>1, <2>2 DEF Faultless, Nonordinary
<1> QED
  BY <1>1, <1>2, <1>4, <1>5 DEF Faultless

(***************************************************************************)
(* Lists of names, and objects.                                            *)
(***************************************************************************)
LEMMA ReportItems ==
  ASSUME IsTree(tree), NEW p \in DOMAIN tree
  PROVE  /\ R!ToSet(R!Children(p)) = {Append(p, i) : i \in 1 .. Width(tree[p])}
         /\ R!KeysOf(p) = ToSet(Keys(p))
         /\ NamesAt(p) = {TextAt(q) : q \in ToSet(Children(p))}
<1>1. R!ToSet(R!Children(p)) = ToSet(Children(p))
  BY ReportReads DEF R!ToSet, ToSet
<1>2. R!KeysOf(p) = ToSet(Keys(p))
  BY ReportReads DEF R!KeysOf, R!ToSet, ToSet
<1>3. NamesAt(p) = {TextAt(Append(p, i)) : i \in 1 .. Width(tree[p])}
  BY DEF NamesAt, TextsAt, ToSet
<1> QED
  BY <1>1, <1>2, <1>3, ValueShape

LEMMA ReportNames ==
  ASSUME IsTree(tree), NEW p \in DOMAIN tree
  PROVE  /\ R!ListOf(p, R!NonemptyText)
              <=> Kind(p) = "list" /\ AllOf(p, "str") /\ "" \notin NamesAt(p)
         /\ R!ObjectOf(p, R!NonemptyText)
              <=> Kind(p) = "dict" /\ AllOf(p, "str") /\ "" \notin NamesAt(p)
<1> DEFINE Q == ToSet(Children(p))
<1>1. R!ToSet(R!Children(p)) = Q
  BY ReportItems, ValueShape
<1>2. \A q : R!NonemptyText(q) <=> Kind(q) = "str" /\ TextAt(q) # ""
  BY ReportReads DEF R!NonemptyText, R!IsText
<1>3. (\A q \in Q : R!NonemptyText(q)) <=> AllOf(p, "str") /\ "" \notin NamesAt(p)
  BY <1>2, ReportItems DEF AllOf
<1> QED
  BY <1>1, <1>3, ReportReads DEF R!ListOf, R!ObjectOf

-----------------------------------------------------------------------------
LEMMA OrdinaryMapping ==
  ASSUME IsTree(tree), NEW p \in DOMAIN tree, Kind(p) # "null"
  PROVE  R!OrdinaryCore("auto_mapping", p) <=> Faultless("auto_mapping", p)
<1>1. TypeFits("auto_mapping", p)
        <=> Kind(p) = "dict" /\ (ExactMapping(p) => AllOf(p, "str"))
  <2>1. Kind(p) # "mapping"
    BY KindIs DEF JsonKinds
  <2> QED
    BY <2>1 DEF TypeFits, Forms, HasForm
<1>2. ValueFits("auto_mapping", p) <=> ExactMapping(p) /\ "" \notin NamesAt(p)
  BY DEF ValueFits
<1>3. R!OrdinaryCore("auto_mapping", p)
        <=> R!ObjectOf(p, R!NonemptyText) /\ R!KeysOf(p) = AutoMappingKeys
  BY ReportReads DEF R!OrdinaryCore, R!IsNull
<1>4. R!KeysOf(p) = AutoMappingKeys <=> ExactMapping(p)
  BY ReportItems DEF ExactMapping
<1> QED
  BY <1>1, <1>2, <1>3, <1>4, ReportNames DEF Faultless, Nonordinary

LEMMA OrdinaryNames ==
  ASSUME IsTree(tree), NEW p \in DOMAIN tree, Kind(p) # "null",
         NEW f \in {"target_modules", "exclude_modules", "modules_to_save", "layers_pattern"}
  PROVE  R!OrdinaryCore(f, p) <=> Faultless(f, p)
<1>1. TypeFits(f, p)
        <=> \/ f # "modules_to_save" /\ Kind(p) = "str"
            \/ Kind(p) = "list" /\ AllOf(p, "str")
  <2>1. Kind(p) # "strs"
    BY KindIs DEF JsonKinds
  <2> QED
    BY <2>1 DEF TypeFits, Forms, HasForm
<1>2. ValueFits(f, p)
        <=> /\ f \in {"target_modules", "exclude_modules"} /\ Kind(p) = "str" => TextAt(p) # ""
            /\ Kind(p) = "list" => "" \notin NamesAt(p)
  BY DEF ValueFits
<1>3. R!OrdinaryCore(f, p)
        <=> \/ f \in {"target_modules", "exclude_modules"} /\ Kind(p) = "str" /\ TextAt(p) # ""
            \/ f = "layers_pattern" /\ Kind(p) = "str"
            \/ R!ListOf(p, R!NonemptyText)
  BY ReportReads DEF R!OrdinaryCore, R!IsNull, R!NonemptyText, R!IsText
<1> QED
  BY <1>1, <1>2, <1>3, ReportNames DEF Faultless, Nonordinary

LEMMA OrdinaryLayers ==
  ASSUME IsTree(tree), NEW p \in DOMAIN tree, Kind(p) # "null"
  PROVE  R!OrdinaryCore("layers_to_transform", p) <=> Faultless("layers_to_transform", p)
<1> DEFINE Q == ToSet(Children(p))
<1>1. TypeFits("layers_to_transform", p)
        <=> Kind(p) = "int" \/ (Kind(p) = "list" /\ AllOf(p, "int"))
  <2>1. Kind(p) # "ints"
    BY KindIs DEF JsonKinds
  <2> QED
    BY <2>1 DEF TypeFits, Forms, HasForm
<1>2. ValueFits("layers_to_transform", p)
        <=> \A q \in IF Kind(p) = "int" THEN {p} ELSE Q : IntWithin(q, 0)
  BY DEF ValueFits
<1>3. \A q : R!Index(q) <=> Kind(q) = "int" /\ IntWithin(q, 0)
  BY ReportReads, ReportTests DEF R!Index, R!IsInteger
<1>4. R!OrdinaryCore("layers_to_transform", p) <=> R!Index(p) \/ R!ListOf(p, R!Index)
  BY ReportReads DEF R!OrdinaryCore, R!IsNull
<1>5. R!ToSet(R!Children(p)) = Q
  BY ReportItems, ValueShape
<1>6. R!ListOf(p, R!Index)
        <=> Kind(p) = "list" /\ \A q \in Q : Kind(q) = "int" /\ IntWithin(q, 0)
  BY <1>3, <1>5, ReportReads DEF R!ListOf
<1> QED
  BY <1>1, <1>2, <1>3, <1>4, <1>6 DEF Faultless, Nonordinary, AllOf

LEMMA OrdinaryPattern ==
  ASSUME IsTree(tree), NEW p \in DOMAIN tree, NEW f \in {"rank_pattern", "alpha_pattern"}
  PROVE  R!OrdinaryCore(f, p) <=> Faultless(f, p)
<1> DEFINE Entry(q) == IF f = "rank_pattern" THEN Kind(q) = "int" /\ IntWithin(q, 1)
                       ELSE Kind(q) \in {"int", "float"} /\ DecimalWithin(q)
<1>1. TypeFits(f, p) <=> Kind(p) = "dict" /\ ~MistypedEntry(f, p)
  <2>1. Kind(p) # "entries"
    BY KindIs DEF JsonKinds
  <2> QED
    BY <2>1 DEF TypeFits, Forms, HasForm
<1>2. ValueFits(f, p) <=> BadEntries(f, p) = {}
  BY DEF ValueFits
<1>3. \A i \in DOMAIN Keys(p) : EntryFits(f, p, i) <=> Keys(p)[i] # "" /\ Entry(Append(p, i))
  BY DEF EntryFits, EntryTyped, EntryValued
<1>4. BadEntries(f, p) = {} => ~MistypedEntry(f, p)
  BY DEF BadEntries, EntryFits, MistypedEntry, EntriesRead
<1>5. R!ToSet(R!Children(p)) = {Append(p, i) : i \in 1 .. Width(tree[p])}
  BY ReportItems
<1>6. R!KeysOf(p) = ToSet(Keys(p))
  BY ReportItems
<1>7. R!OrdinaryCore(f, p)
        <=> /\ Kind(p) = "dict" /\ "" \notin ToSet(Keys(p))
            /\ \A i \in 1 .. Width(tree[p]) : Entry(Append(p, i))
  <2>1. CASE f = "rank_pattern"
    <3>1. \A q : R!RankOf(q) <=> Entry(q)
      BY <2>1, ReportReads, ReportTests DEF R!RankOf, R!IsInteger
    <3>2. R!OrdinaryCore(f, p) <=> R!ObjectOf(p, R!RankOf) /\ "" \notin R!KeysOf(p)
      BY <2>1, ReportReads DEF R!OrdinaryCore, Nullable
    <3>3. R!ObjectOf(p, R!RankOf)
            <=> Kind(p) = "dict" /\ \A i \in 1 .. Width(tree[p]) : Entry(Append(p, i))
      BY <1>5, <3>1, ReportReads DEF R!ObjectOf
    <3> QED
      BY <1>6, <3>2, <3>3
  <2>2. CASE f = "alpha_pattern"
    <3>1. \A q : R!Alpha(q) <=> Entry(q)
      BY <2>2, ReportReads, ReportTests DEF R!Alpha, R!IsNumber, DecimalWithin
    <3>2. R!OrdinaryCore(f, p) <=> R!ObjectOf(p, R!Alpha) /\ "" \notin R!KeysOf(p)
      BY <2>2, ReportReads DEF R!OrdinaryCore, Nullable
    <3>3. R!ObjectOf(p, R!Alpha)
            <=> Kind(p) = "dict" /\ \A i \in 1 .. Width(tree[p]) : Entry(Append(p, i))
      BY <1>5, <3>1, ReportReads DEF R!ObjectOf
    <3> QED
      BY <1>6, <3>2, <3>3
  <2> QED
    BY <2>1, <2>2
<1> HIDE DEF Entry
<1>8. ASSUME Kind(p) = "dict"
      PROVE  BadEntries(f, p) = {}
               <=> /\ "" \notin ToSet(Keys(p))
                   /\ \A i \in 1 .. Width(tree[p]) : Entry(Append(p, i))
  <2>1. DOMAIN Keys(p) = 1 .. Width(tree[p])
    BY <1>8, ValueShape
  <2> QED
    BY <1>3, <2>1 DEF BadEntries, ToSet
<1> QED
  BY <1>1, <1>2, <1>4, <1>7, <1>8 DEF Faultless, Nonordinary

LEMMA OrdinaryIs ==
  ASSUME IsTree(tree), NEW f \in CoreFields, Given(f)
  PROVE  R!OrdinaryCore(f, R!At(f)) <=> FaultsOf(f) = {}
<1>1. At(f) \in DOMAIN tree /\ R!At(f) = At(f)
  BY GivenIs, ReportReads
<1>2. Omitted(f) <=> f \in Nullable /\ Kind(At(f)) = "null"
  BY DEF Omitted
<1>3. FaultsOf(f) = {} <=> Omitted(f) \/ Faultless(f, At(f))
  BY DEF FaultsOf, Faultless
<1>4. CASE f \in Nullable /\ Kind(At(f)) = "null"
  BY <1>1, <1>2, <1>3, <1>4, ReportReads DEF R!OrdinaryCore, R!IsNull
<1>5. CASE ~(f \in Nullable /\ Kind(At(f)) = "null")
  <2>1. f \in Nullable => Kind(At(f)) # "null"
    BY <1>5
  <2>2. R!OrdinaryCore(f, At(f)) <=> Faultless(f, At(f))
    <3>1. CASE f \in {"r", "lora_alpha", "lora_dropout", "inference_mode", "fan_in_fan_out",
                      "use_rslora"}
      BY <1>1, <3>1, OrdinaryNumber
    <3>2. CASE f \in {"rank_pattern", "alpha_pattern"}
      BY <1>1, <3>2, OrdinaryPattern
    <3>3. CASE f = "init_lora_weights"
      BY <1>1, <3>3, OrdinaryInitializer
    <3>4. CASE f \in {"task_type", "peft_version", "base_model_name_or_path", "revision"}
      BY <1>1, <2>1, <3>4, OrdinaryText DEF Nullable
    <3>5. CASE f = "auto_mapping"
      BY <1>1, <2>1, <3>5, OrdinaryMapping DEF Nullable
    <3>6. CASE f \in {"target_modules", "exclude_modules", "modules_to_save", "layers_pattern"}
      BY <1>1, <2>1, <3>6, OrdinaryNames DEF Nullable
    <3>7. CASE f = "layers_to_transform"
      BY <1>1, <2>1, <3>7, OrdinaryLayers DEF Nullable
    <3>8. CASE f = "bias"
      BY <1>1, <3>8, OrdinaryText
    <3> QED
      BY <3>1, <3>2, <3>3, <3>4, <3>5, <3>6, <3>7, <3>8, CoreIs DEF CoreSet
  <2> QED
    BY <1>1, <1>2, <1>3, <1>5, <2>2
<1> QED
  BY <1>4, <1>5

-----------------------------------------------------------------------------
(***************************************************************************)
(* The rules between fields ask of the decoded values what ConfigReport    *)
(* asks of the document.                                                   *)
(***************************************************************************)
LEMMA ReportStates ==
  ASSUME IsTree(tree)
  PROVE  /\ \A f \in Nullable : R!Stated(f) <=> ~Omitted(f)
         /\ \A p \in DOMAIN tree :
              R!Empty(p) <=> \/ Kind(p) = "str" /\ TextAt(p) = ""
                             \/ Kind(p) = "list" /\ Width(tree[p]) = 0
         /\ \A p : R!IsText(p) <=> Kind(p) = "str"
<1>1. \A f \in Nullable : R!Stated(f) <=> ~Omitted(f)
  BY ReportReads DEF R!Stated, R!IsNull, Omitted
<1>2. \A p : R!IsText(p) <=> Kind(p) = "str"
  BY ReportReads DEF R!IsText
<1>3. ASSUME NEW p \in DOMAIN tree PROVE Children(p) = <<>> <=> Width(tree[p]) = 0
  <2>1. DOMAIN Children(p) = 1 .. Width(tree[p]) /\ Width(tree[p]) \in Nat
    BY ValueShape
  <2>2. Width(tree[p]) = 0 => Children(p) = <<>>
    BY DEF Children
  <2>3. Width(tree[p]) # 0 => 1 \in DOMAIN Children(p)
    BY <2>1
  <2>4. DOMAIN << >> = {}
    OBVIOUS
  <2> QED
    BY <2>2, <2>3, <2>4
<1> QED
  BY <1>1, <1>2, <1>3, ReportReads DEF R!Empty

LEMMA TargetIs ==
  ASSUME IsTree(tree), ValidOf("target_modules"), NEW s, s = ValueOf("target_modules")
  PROVE  /\ s.kind \in StringKinds
              <=> ~Omitted("target_modules") /\ Kind(At("target_modules")) = "str"
         /\ s.kind = "names" /\ s.values = {}
              <=> /\ ~Omitted("target_modules")
                  /\ Kind(At("target_modules")) = "list"
                  /\ Width(tree[At("target_modules")]) = 0
         /\ Kind(At("target_modules")) = "str" /\ ~Omitted("target_modules")
              => TextAt(At("target_modules")) # ""
<1> DEFINE p == At("target_modules")
<1>1. CASE Omitted("target_modules")
  <2>1. s = DefaultSelector
    BY <1>1 DEF ValueOf, Readings, Default
  <2>2. s.kind = "default"
    BY <2>1 DEF DefaultSelector, Selector
  <2> QED
    BY <1>1, <2>2 DEF StringKinds
<1>2. CASE ~Omitted("target_modules")
  <2>1. p \in DOMAIN tree /\ Accepted("target_modules", p)
    BY <1>2, GivenIs DEF Omitted, ValidOf
  <2>2. s = SelectorAt("target_modules", p)
    BY <1>2, <2>1 DEF ValueOf, Readings, Normal
  <2>3. \/ Kind(p) = "str" /\ TextAt(p) # ""
        \/ Kind(p) = "list"
    <3>1. Kind(p) # "strs"
      BY <2>1, KindIs DEF JsonKinds
    <3> QED
      BY <2>1, <3>1 DEF Accepted, TypeFits, Forms, HasForm, ValueFits
  <2>4. CASE Kind(p) = "list"
    <3>1. s.kind = "names" /\ s.values = NamesAt(p)
      BY <2>2, <2>4 DEF SelectorAt, Selector
    <3>2. NamesAt(p) = {} <=> Width(tree[p]) = 0
      <4>1. Width(tree[p]) \in Nat
        BY <2>1, ValueShape
      <4>2. NamesAt(p) = {TextAt(Append(p, i)) : i \in 1 .. Width(tree[p])}
        BY DEF NamesAt, TextsAt, ToSet
      <4>3. Width(tree[p]) # 0 => 1 \in 1 .. Width(tree[p])
        BY <4>1
      <4> QED
        BY <4>1, <4>2, <4>3
    <3> QED
      BY <1>2, <2>4, <3>1, <3>2 DEF StringKinds
  <2>5. CASE Kind(p) = "str"
    <3>1. s.kind \in StringKinds
      BY <2>2, <2>5 DEF SelectorAt, Selector, StringKinds
    <3> QED
      BY <1>2, <2>3, <2>5, <3>1 DEF StringKinds
  <2> QED
    BY <2>3, <2>4, <2>5
<1> QED
  BY <1>1, <1>2

LEMMA LayersAre ==
  ASSUME IsTree(tree), ValidOf("layers_to_transform"), NEW s, s = ValueOf("layers_to_transform")
  PROVE  /\ s # <<>> <=> ~Omitted("layers_to_transform")
         /\ Falsy(s, {})
              <=> \/ Omitted("layers_to_transform")
                  \/ /\ Kind(At("layers_to_transform")) = "list"
                     /\ Width(tree[At("layers_to_transform")]) = 0
         /\ ~Omitted("layers_to_transform") => Kind(At("layers_to_transform")) \in {"int", "list"}
<1> DEFINE p == At("layers_to_transform")
<1>1. CASE Omitted("layers_to_transform")
  <2>1. s = <<>>
    BY <1>1 DEF ValueOf, Readings, Default
  <2> QED
    BY <1>1, <2>1 DEF Falsy
<1>2. CASE ~Omitted("layers_to_transform")
  <2>1. p \in DOMAIN tree /\ Accepted("layers_to_transform", p)
    BY <1>2, GivenIs DEF Omitted, ValidOf
  <2>2. s = <<LayersAt(p)>>
    BY <1>2, <2>1 DEF ValueOf, Readings, Normal
  <2>3. Kind(p) = "int" \/ Kind(p) = "list"
    <3>1. Kind(p) # "ints"
      BY <2>1, KindIs DEF JsonKinds
    <3> QED
      BY <2>1, <3>1 DEF Accepted, TypeFits, Forms, HasForm
  <2>4. s # <<>> /\ (Falsy(s, {}) <=> LayersAt(p) = {})
    BY <2>2 DEF Falsy
  <2>5. LayersAt(p) = {} <=> Kind(p) = "list" /\ Width(tree[p]) = 0
    <3>1. Width(tree[p]) \in Nat /\ ToSet(Children(p)) = {Append(p, i) : i \in 1 .. Width(tree[p])}
      BY <2>1, ValueShape
    <3>2. Width(tree[p]) # 0 => 1 \in 1 .. Width(tree[p])
      BY <3>1
    <3>3. CASE Kind(p) = "int"
      <4>1. tree[p].int \in LayersAt(p)
        BY <3>3 DEF LayersAt
      <4> QED
        BY <3>3, <4>1
    <3>4. CASE Kind(p) = "list"
      <4>1. LayersAt(p) = {tree[Append(p, i)].int : i \in 1 .. Width(tree[p])}
        BY <3>1, <3>4 DEF LayersAt
      <4>2. LayersAt(p) = {} <=> 1 .. Width(tree[p]) = {}
        BY <4>1
      <4> QED
        BY <3>1, <3>2, <3>4, <4>2
    <3> QED
      BY <2>3, <3>3, <3>4
  <2> QED
    BY <1>2, <2>3, <2>4, <2>5
<1> QED
  BY <1>1, <1>2

LEMMA PatternIs ==
  ASSUME IsTree(tree), ValidOf("layers_pattern"), NEW s, s = ValueOf("layers_pattern")
  PROVE  /\ s # <<>> <=> ~Omitted("layers_pattern")
         /\ Falsy(s, <<>>)
              <=> \/ Omitted("layers_pattern")
                  \/ Kind(At("layers_pattern")) = "str" /\ TextAt(At("layers_pattern")) = ""
                  \/ /\ Kind(At("layers_pattern")) = "list"
                     /\ Width(tree[At("layers_pattern")]) = 0
<1> DEFINE p == At("layers_pattern")
<1>1. CASE Omitted("layers_pattern")
  <2>1. s = <<>>
    BY <1>1 DEF ValueOf, Readings, Default
  <2> QED
    BY <1>1, <2>1 DEF Falsy
<1>2. CASE ~Omitted("layers_pattern")
  <2>1. p \in DOMAIN tree /\ Accepted("layers_pattern", p)
    BY <1>2, GivenIs DEF Omitted, ValidOf
  <2>2. s = <<PatternTextsAt(p)>>
    BY <1>2, <2>1 DEF ValueOf, Readings, Normal
  <2>3. Kind(p) = "str" \/ Kind(p) = "list"
    <3>1. Kind(p) # "strs"
      BY <2>1, KindIs DEF JsonKinds
    <3> QED
      BY <2>1, <3>1 DEF Accepted, TypeFits, Forms, HasForm
  <2>4. s # <<>> /\ (Falsy(s, <<>>) <=> PatternTextsAt(p) = <<>>)
    BY <2>2 DEF Falsy
  <2>5. CASE Kind(p) = "str"
    <3>1. PatternTextsAt(p) = <<>> <=> TextAt(p) = ""
      BY <2>5 DEF PatternTextsAt
    <3> QED
      BY <1>2, <2>4, <2>5, <3>1
  <2>6. CASE Kind(p) = "list"
    <3>1. PatternTextsAt(p) = TextsAt(p)
      BY <2>6 DEF PatternTextsAt
    <3>2. DOMAIN TextsAt(p) = 1 .. Width(tree[p]) /\ Width(tree[p]) \in Nat
      BY <2>1, ValueShape DEF TextsAt
    <3>3. Width(tree[p]) = 0 => TextsAt(p) = <<>>
      BY DEF TextsAt
    <3>4. Width(tree[p]) # 0 => 1 \in DOMAIN TextsAt(p)
      BY <3>2
    <3>5. DOMAIN << >> = {}
      OBVIOUS
    <3>6. TextsAt(p) = <<>> <=> Width(tree[p]) = 0
      BY <3>3, <3>4, <3>5
    <3> QED
      BY <1>2, <2>4, <2>6, <3>1, <3>6
  <2> QED
    BY <2>3, <2>5, <2>6
<1> QED
  BY <1>1, <1>2

LEMMA RulesAre ==
  ASSUME IsTree(tree), ReadUpTo(20), AllValid
  PROVE  RuleBroken <=> ~R!LayersOrdinary
<1>1. /\ "target_modules" \in CoreFields \cap Nullable
      /\ "layers_to_transform" \in CoreFields \cap Nullable
      /\ "layers_pattern" \in CoreFields \cap Nullable
  BY CoreIs DEF CoreSet, Nullable
<1>2. /\ Target = ValueOf("target_modules") /\ ValidOf("target_modules")
      /\ Layers = ValueOf("layers_to_transform") /\ ValidOf("layers_to_transform")
      /\ Pattern = ValueOf("layers_pattern") /\ ValidOf("layers_pattern")
  BY <1>1, DecodedIs DEF Target, Layers, Pattern
<1>3. \A f \in Nullable : /\ R!At(f) = At(f)
                          /\ R!Stated(f) <=> ~Omitted(f)
                          /\ ~Omitted(f) => Given(f) /\ At(f) \in DOMAIN tree
  BY ReportReads, ReportStates, GivenIs DEF Omitted
<1>4. \A p : R!Kind(p) = Kind(p)
  BY ReportReads
<1>5. R!IsText(At("target_modules")) <=> Kind(At("target_modules")) = "str"
  BY ReportStates
<1> QED
  <2>1. StringWithLayers
          <=> ~ (/\ R!Stated("target_modules") /\ R!IsText(R!At("target_modules"))
                    => ~R!Stated("layers_to_transform") /\ ~R!Stated("layers_pattern"))
    BY <1>1, <1>2, <1>3, <1>5, TargetIs, LayersAre, PatternIs DEF StringWithLayers
  <2>2. NoTargets <=> ~ (R!Stated("target_modules") => ~R!Empty(R!At("target_modules")))
    BY <1>1, <1>2, <1>3, TargetIs, ReportStates DEF NoTargets
  <2>3. ~Falsy(Pattern, <<>>)
          <=> R!Stated("layers_pattern") /\ ~R!Empty(R!At("layers_pattern"))
    BY <1>1, <1>2, <1>3, PatternIs, ReportStates
  <2>4. ~(Falsy(Layers, {}) \/ ScalarZero)
          <=> /\ R!Stated("layers_to_transform")
              /\ ~R!Empty(R!At("layers_to_transform"))
              /\ R!Kind(R!At("layers_to_transform")) = "int"
                   => tree[R!At("layers_to_transform")].int # 0
    BY <1>1, <1>2, <1>3, <1>4, LayersAre, ReportStates DEF ScalarZero, Omitted
  <2> QED
    BY <2>1, <2>2, <2>3, <2>4 DEF RuleBroken, PatternWithoutLayers, R!LayersOrdinary

-----------------------------------------------------------------------------
(***************************************************************************)
(* Once the rules between fields have been asked, the issues are those of  *)
(* the fields and those of the rule that was broken, and there is a        *)
(* profile exactly if every field is valid and no rule is broken.          *)
(***************************************************************************)
Settled ==
  /\ ReadUpTo(20)
  /\ \E faults \in SUBSET RuleFields :
       /\ issues = AllIssues \cup {Issue(f, "invalid_value") : f \in faults}
       /\ faults # {} => AllValid /\ RuleBroken
       /\ lora = <<>> => ~AllValid \/ RuleBroken
       /\ lora # <<>> => lora = <<Profile>> /\ AllValid /\ ~RuleBroken /\ faults = {}

SettledInv == phase \in {"manifest", "done"} /\ method.status = "supported_lora" => Settled

LEMMA SettledFixed ==
  ASSUME tree' = tree, decoded' = decoded
  PROVE  /\ ReadUpTo(20)' <=> ReadUpTo(20)
         /\ AllIssues' = AllIssues
         /\ AllValid' <=> AllValid
         /\ RuleBroken' <=> RuleBroken
         /\ Profile' = Profile
<1>1. ReadUpTo(20)' <=> ReadUpTo(20)
  BY ReadingsFixed DEF ReadUpTo
<1>2. AllIssues' = AllIssues
  BY ReadingsFixed DEF AllIssues
<1>3. AllValid' <=> AllValid
  BY DEF AllValid
<1>4. \A f : Decoded(f)' = Decoded(f)
  BY DEF Decoded
<1>5. RuleBroken' <=> RuleBroken
  BY <1>4, ReadsFixed DEF RuleBroken, StringWithLayers, NoTargets, PatternWithoutLayers,
                          ScalarZero, Target, Layers, Pattern
<1>6. Profile' = Profile
  BY <1>4, ReadsFixed DEF Profile
<1> QED
  BY <1>1, <1>2, <1>3, <1>5, <1>6

LEMMA GivenUpSettles ==
  ASSUME ConfigInv, Relating, NEW faults \in SUBSET RuleFields, GiveUp(faults),
         faults # {} => AllValid /\ RuleBroken, ~AllValid \/ RuleBroken
  PROVE  SettledInv'
<1>1. ReadUpTo(20) /\ issues = AllIssues /\ lora = <<>>
  BY RelatingAt
<1>2. /\ tree' = tree /\ decoded' = decoded /\ lora' = <<>>
      /\ issues' = AllIssues \cup {Issue(f, "invalid_value") : f \in faults}
  BY <1>1 DEF GiveUp, Proceed
<1> QED
  BY <1>1, <1>2, SettledFixed DEF SettledInv, Settled

LEMMA SettledStep ==
  ASSUME ConfigInv, SettledInv, [Next]_vars
  PROVE  SettledInv'
<1>1. ASSUME UNCHANGED <<tree, decoded, lora, issues, method>>,
             phase \in {"manifest", "done"} \/ phase' \notin {"manifest", "done"}
      PROVE  SettledInv'
  BY <1>1, SettledFixed DEF SettledInv, Settled
<1>2. CASE ReadBytes \/ Walk \/ EndWalk
  <2>1. phase' \notin {"manifest", "done"}
    BY <1>2 DEF ReadBytes, RefuseSize, RefuseUtf8, RefuseJson, RefuseRoot, RefuseFieldCount,
                BeginWalk, Walk, EndWalk, Refuse, Proceed
  <2> QED
    BY <2>1 DEF SettledInv
<1>3. CASE ReadMethod
  <2>1. phase' \notin {"manifest", "done"} \/ method'.status # "supported_lora"
    BY <1>3 DEF ReadMethod, RefuseMethod, RefuseRetained, Refuse, MethodMissing, MethodInvalid,
                MethodUnsupported, MethodLora, ClassifyMethod, Proceed
  <2> QED
    BY <2>1 DEF SettledInv
<1>4. CASE Decode \/ ClassifyDefaultOnly
  <2>1. phase' \notin {"manifest", "done"}
    BY <1>4 DEF Decode, DecodeOmitted, DecodeRefused, DecodeWrongType, DecodeWrongValue,
                DecodeValue, Decoding, Fault, Return, RefuseRetained, Refuse,
                ClassifyDefaultOnly, Proceed
  <2> QED
    BY <2>1 DEF SettledInv
<1>5. CASE GiveUpInvalid
  BY <1>5, GivenUpSettles DEF GiveUpInvalid
<1>6. CASE GiveUpStringTarget
  <2>1. {f \in {"layers_to_transform", "layers_pattern"} : Decoded(f) # <<>>} \in SUBSET RuleFields
    BY DEF RuleFields
  <2> QED
    BY <1>6, <2>1, GivenUpSettles DEF GiveUpStringTarget, RuleBroken
<1>7. CASE GiveUpNoTargets
  BY <1>7, GivenUpSettles DEF GiveUpNoTargets, RuleBroken, RuleFields
<1>8. CASE GiveUpPattern
  BY <1>8, GivenUpSettles DEF GiveUpPattern, RuleBroken, RuleFields
<1>9. CASE BuildProfile
  <2>1. Relating /\ AllValid /\ ~RuleBroken
    BY <1>9 DEF BuildProfile, RuleBroken
  <2>2. ReadUpTo(20) /\ issues = AllIssues
    BY <2>1, RelatingAt
  <2>3. ProfileFits(Profile.values)
    BY <2>1, ProfileAccepted
  <2>4. UNCHANGED <<tree, decoded, issues>> /\ lora' = <<Profile>>
    BY <1>9, <2>3 DEF BuildProfile, Construct
  <2>5. AllIssues = AllIssues \cup {Issue(f, "invalid_value") : f \in {}}
    OBVIOUS
  <2>6. <<Profile>> # <<>>
    OBVIOUS
  <2>7. {} \in SUBSET RuleFields
    OBVIOUS
  <2> QED
    BY <2>1, <2>2, <2>4, <2>5, <2>6, <2>7, SettledFixed DEF SettledInv, Settled
<1>10. CASE BuildManifest
  BY <1>1, <1>10 DEF BuildManifest, Construct, fields
<1>11. CASE UNCHANGED vars
  BY <1>1, <1>11 DEF vars, fields
<1> QED
  BY <1>2, <1>3, <1>4, <1>5, <1>6, <1>7, <1>8, <1>9, <1>10, <1>11 DEF Next, Relate

-----------------------------------------------------------------------------
(***************************************************************************)
(* Where an issue comes from.                                              *)
(***************************************************************************)
LEMMA FieldsApart ==
  /\ CoreFields \cap DefaultOnly = {}
  /\ {"peft_type", "runtime_config"} \cap (CoreFields \cup DefaultOnly) = {}
  /\ RuleFields \subseteq CoreFields
<1>1. CoreFields = CoreSet
  BY CoreIs
<1>2. CoreSet \cap DefaultOnly = {}
  BY DEF CoreSet, DefaultOnly, Tolerated
<1>3. {"peft_type", "runtime_config"} \cap DefaultOnly = {}
  BY DEF DefaultOnly, Tolerated
<1>4. {"peft_type", "runtime_config"} \cap CoreSet = {} /\ RuleFields \subseteq CoreSet
  BY DEF CoreSet, RuleFields
<1> QED
  BY <1>1, <1>2, <1>3, <1>4

\* An issue of the fields one by one, by what its field is.
Sourced(x) ==
  \/ x.field \in Explicit \ KnownFields /\ x = Issue(x.field, "unknown_field")
  \/ x.field \in CoreFields \cap Explicit /\ x \in FaultsOf(x.field)
  \/ /\ x.field \in DefaultOnly \cap Explicit /\ ~HoldsDefault(x.field)
     /\ x = Issue(x.field, DefaultOnlyKind(x.field))
  \/ "runtime_config" \in Explicit /\ x = Issue("runtime_config", "ignored_field")

LEMMA IssueFields == \A f, k : Issue(f, k).field = f /\ Issue(f, k).kind = k
  BY DEF Issue

LEMMA IssueSources ==
  ASSUME IsTree(tree)
  PROVE  \A x : x \in AllIssues <=> Sourced(x)
<1>1. \A x : x \in UnknownIssues
              <=> x.field \in Explicit \ KnownFields /\ x = Issue(x.field, "unknown_field")
  BY IssueFields DEF UnknownIssues
<1>2. \A f \in CoreFields : \A x \in FaultsOf(f) : x.field = f /\ f \in Explicit
  BY FaultIs
<1>3. \A x : x \in UNION {FaultsOf(f) : f \in CoreFields}
              <=> x.field \in CoreFields \cap Explicit /\ x \in FaultsOf(x.field)
  BY <1>2
<1>4. \A x : x \in DefaultOnlyIssues
              <=> \/ /\ x.field \in DefaultOnly \cap Explicit /\ ~HoldsDefault(x.field)
                     /\ x = Issue(x.field, DefaultOnlyKind(x.field))
                  \/ "runtime_config" \in Explicit /\ x = Issue("runtime_config", "ignored_field")
  BY IssueFields, GivenIs DEF DefaultOnlyIssues
<1> QED
  BY <1>1, <1>3, <1>4, AllIssuesIs DEF Sourced

LEMMA OneFault ==
  ASSUME NEW f, NEW x \in FaultsOf(f), NEW y \in FaultsOf(f)
  PROVE  x = y
  BY DEF FaultsOf

LEMMA OneIssueAField ==
  ASSUME IsTree(tree), NEW x \in AllIssues, NEW y \in AllIssues, x.field = y.field
  PROVE  x = y
<1>1. Sourced(x) /\ Sourced(y)
  BY IssueSources
<1>2. "runtime_config" \in KnownFields \ (CoreFields \cup DefaultOnly)
  BY FieldsApart DEF KnownFields
<1>3. CoreFields \subseteq KnownFields /\ DefaultOnly \subseteq KnownFields
  BY DEF KnownFields
<1>4. CoreFields \cap DefaultOnly = {}
  BY FieldsApart
<1>5. CASE x.field \notin KnownFields
  BY <1>1, <1>2, <1>3, <1>5, IssueFields DEF Sourced
<1>6. CASE x.field \in CoreFields
  <2>1. x \in FaultsOf(x.field) /\ y \in FaultsOf(x.field)
    BY <1>1, <1>2, <1>3, <1>4, <1>6, IssueFields DEF Sourced
  <2> QED
    BY <2>1, OneFault
<1>7. CASE x.field \in DefaultOnly
  BY <1>1, <1>2, <1>3, <1>4, <1>7, IssueFields DEF Sourced
<1>8. CASE x.field \in KnownFields \ (CoreFields \cup DefaultOnly)
  BY <1>1, <1>8, IssueFields DEF Sourced
<1> QED
  BY <1>5, <1>6, <1>7, <1>8

\* A valid field that a rule can blame has no issue of its own.
LEMMA ValidFaultless ==
  ASSUME NEW f \in RuleFields, ValidOf(f)
  PROVE  FaultsOf(f) = {}
<1>1. f # "bias" /\ f # "init_lora_weights"
  BY DEF RuleFields
<1> QED
  BY <1>1 DEF ValidOf, Accepted, FaultsOf, Nonordinary

LEMMA OrdinaryFieldIs ==
  ASSUME IsTree(tree), NEW f \in Explicit
  PROVE  R!OrdinaryField(f) <=> \/ f \in {"peft_type", "runtime_config"}
                                \/ f \in DefaultOnly /\ HoldsDefault(f)
                                \/ f \in CoreFields /\ FaultsOf(f) = {}
<1>1. Given(f)
  BY GivenIs
<1>2. f \in CoreFields => (R!OrdinaryCore(f, R!At(f)) <=> FaultsOf(f) = {})
  BY <1>1, OrdinaryIs
<1> QED
  BY <1>2, ReportReads, ReportTests DEF R!OrdinaryField

LEMMA OrdinaryUnblamed ==
  ASSUME IsTree(tree), NEW x \in AllIssues
  PROVE  ~R!OrdinaryField(x.field) \/ x.kind = "ignored_field"
<1>1. Sourced(x)
  BY IssueSources
<1>2. x.kind # "ignored_field" => x # Issue("runtime_config", "ignored_field")
  BY IssueFields
<1>3. CASE x.kind # "ignored_field"
  <2>1. x.field \in Explicit
    BY <1>1, <1>2, <1>3 DEF Sourced
  <2>2. ~( \/ x.field \in {"peft_type", "runtime_config"}
           \/ x.field \in DefaultOnly /\ HoldsDefault(x.field)
           \/ x.field \in CoreFields /\ FaultsOf(x.field) = {} )
    <3>1. CoreFields \cap DefaultOnly = {}
      BY FieldsApart
    <3>2. {"peft_type", "runtime_config"} \cap (CoreFields \cup DefaultOnly) = {}
      BY FieldsApart
    <3>3. CoreFields \cup DefaultOnly \cup {"peft_type", "runtime_config"} = KnownFields
      BY DEF KnownFields
    <3> QED
      BY <1>1, <1>2, <1>3, <3>1, <3>2, <3>3 DEF Sourced
  <2> QED
    BY <2>1, <2>2, OrdinaryFieldIs
<1> QED
  BY <1>3

LEMMA BlamedField ==
  ASSUME IsTree(tree), NEW f \in Explicit, ~R!OrdinaryField(f)
  PROVE  \E x \in AllIssues : x.field = f /\ Blocking(x)
<1>1. /\ f \notin {"peft_type", "runtime_config"}
      /\ ~(f \in DefaultOnly /\ HoldsDefault(f))
      /\ ~(f \in CoreFields /\ FaultsOf(f) = {})
  BY OrdinaryFieldIs
<1>2. CASE f \notin KnownFields
  <2> DEFINE x == Issue(f, "unknown_field")
  <2>1. x.field = f /\ x.kind = "unknown_field" /\ x = Issue(f, "unknown_field")
    BY IssueFields
  <2> HIDE DEF x
  <2> QED
    BY <1>2, <2>1, IssueSources DEF Sourced, Blocking
<1>3. CASE f \in CoreFields
  <2>1. PICK x : x \in FaultsOf(f)
    BY <1>1, <1>3
  <2>2. x.field = f /\ x.kind # "ignored_field"
    BY <2>1, FaultIs
  <2> QED
    BY <1>3, <2>1, <2>2, IssueSources DEF Sourced, Blocking
<1>4. CASE f \in DefaultOnly
  <2> DEFINE x == Issue(f, DefaultOnlyKind(f))
  <2>1. x.field = f /\ x.kind = DefaultOnlyKind(f)
    BY IssueFields
  <2>2. x.kind # "ignored_field"
    BY <2>1 DEF DefaultOnlyKind
  <2> HIDE DEF x
  <2>3. x = Issue(f, DefaultOnlyKind(f))
    BY DEF x
  <2> QED
    BY <1>1, <1>4, <2>1, <2>2, <2>3, IssueSources DEF Sourced, Blocking
<1> QED
  BY <1>1, <1>2, <1>3, <1>4 DEF KnownFields

LEMMA SettledPrecise ==
  ASSUME IsTree(tree), Settled
  PROVE  /\ \A i, j \in issues : i.field = j.field => i = j
         /\ \A f \in Explicit :
              ~R!OrdinaryField(f) => \E i \in issues : i.field = f /\ Blocking(i)
         /\ \A i \in issues :
              \/ ~R!OrdinaryField(i.field)
              \/ i.kind = "ignored_field"
              \/ /\ i.field \in RuleFields
                 /\ i.kind = "invalid_value"
                 /\ ~R!LayersOrdinary
<1>1. PICK faults \in SUBSET RuleFields :
        /\ issues = AllIssues \cup {Issue(f, "invalid_value") : f \in faults}
        /\ faults # {} => AllValid /\ RuleBroken
  BY DEF Settled
<1>2. \A f \in faults : FaultsOf(f) = {} /\ ~R!LayersOrdinary
  <2> SUFFICES ASSUME NEW f \in faults PROVE FaultsOf(f) = {} /\ ~R!LayersOrdinary
    OBVIOUS
  <2>1. AllValid /\ RuleBroken /\ ReadUpTo(20)
    BY <1>1 DEF Settled
  <2>2. ValidOf(f)
    BY <2>1, DecodedIs, FieldsApart
  <2> QED
    BY <2>1, <2>2, ValidFaultless, RulesAre
<1>3. \A x \in AllIssues : x.field \notin faults
  <2> SUFFICES ASSUME NEW x \in AllIssues, x.field \in faults PROVE FALSE
    OBVIOUS
  <2>1. Sourced(x) /\ x.field \in CoreFields
    BY IssueSources, FieldsApart
  <2>2. x \in FaultsOf(x.field)
    BY <2>1, FieldsApart, IssueFields DEF Sourced, KnownFields
  <2> QED
    BY <1>2, <2>2
<1>4. \A x \in issues : x \in AllIssues \/ (x.field \in faults /\ x = Issue(x.field, "invalid_value"))
  BY <1>1, IssueFields
<1>5. ASSUME NEW i \in issues, NEW j \in issues, i.field = j.field PROVE i = j
  BY <1>3, <1>4, <1>5, OneIssueAField
<1>6. ASSUME NEW f \in Explicit, ~R!OrdinaryField(f)
      PROVE  \E i \in issues : i.field = f /\ Blocking(i)
  BY <1>1, <1>6, BlamedField
<1>7. ASSUME NEW i \in issues
      PROVE  \/ ~R!OrdinaryField(i.field)
             \/ i.kind = "ignored_field"
             \/ i.field \in RuleFields /\ i.kind = "invalid_value" /\ ~R!LayersOrdinary
  BY <1>2, <1>4, OrdinaryUnblamed, IssueFields
<1> QED
  BY <1>5, <1>6, <1>7

(***************************************************************************)
(* Every field that is not what an ordinary configuration has there has an *)
(* issue, and only one; a field that is has none, but for those a broken   *)
(* rule between fields blames.                                             *)
(***************************************************************************)
THEOREM IssuesArePrecise == Spec => []IssuesPrecise
<1>1. Init => SettledInv
  BY DEF Init, SettledInv
<1>2. ConfigInv /\ SettledInv /\ [Next]_vars => SettledInv'
  BY SettledStep
<1>3. ConfigInv /\ SettledInv => IssuesPrecise
  <2> SUFFICES ASSUME ConfigInv, SettledInv, phase = "done", method.status = "supported_lora"
               PROVE  /\ \A i, j \in issues : i.field = j.field => i = j
                      /\ \A f \in Explicit :
                           ~R!OrdinaryField(f) => \E i \in issues : i.field = f /\ Blocking(i)
                      /\ \A i \in issues :
                           \/ ~R!OrdinaryField(i.field)
                           \/ i.kind = "ignored_field"
                           \/ /\ i.field \in {"layers_to_transform", "layers_pattern",
                                              "target_modules"}
                              /\ i.kind = "invalid_value"
                              /\ ~R!LayersOrdinary
    BY DEF IssuesPrecise
  <2>1. IsTree(tree) /\ Settled
    BY WalkedClean DEF SettledInv, Walked
  <2> QED
    BY <2>1, SettledPrecise DEF RuleFields
<1> QED
  BY ConfigCorrect, <1>1, <1>2, <1>3, PTL DEF Spec

-----------------------------------------------------------------------------
(***************************************************************************)
(* The decoders are those of the schema ConfigReport extends.              *)
(***************************************************************************)
LEMMA ReportDecoders ==
  /\ \A p : R!TextsAt(p) = TextsAt(p) /\ R!NamesAt(p) = NamesAt(p)
  /\ \A f : R!Omitted(f) <=> Omitted(f)
  /\ \A f, p : R!TypeFits(f, p) <=> TypeFits(f, p)
  /\ \A f, p : R!Retained(f, p) = Retained(f, p)
<1>1. \A p : R!TextsAt(p) = TextsAt(p)
  BY ReportReads DEF R!TextsAt, TextsAt, R!Width, Width
<1>2. \A p : R!NamesAt(p) = NamesAt(p)
  BY <1>1 DEF R!NamesAt, NamesAt, R!ToSet, ToSet
<1>3. \A f : R!Omitted(f) <=> Omitted(f)
  BY ReportReads DEF R!Omitted, Omitted
<1>4. \A p, kind : R!AllOf(p, kind) <=> AllOf(p, kind)
  BY ReportReads DEF R!AllOf, AllOf, R!ToSet, ToSet
<1>5. \A p : R!ExactMapping(p) <=> ExactMapping(p)
  BY ReportReads DEF R!ExactMapping, ExactMapping, R!ToSet, ToSet
<1>6. \A p : /\ R!IntWithin(p, 1) <=> IntWithin(p, 1)
             /\ R!DecimalWithin(p) <=> DecimalWithin(p)
  BY ReportTests DEF R!DecimalWithin, DecimalWithin
<1>7. \A f, p, i : /\ R!EntryTyped(f, p, i) <=> EntryTyped(f, p, i)
                   /\ R!EntryValued(f, p, i) <=> EntryValued(f, p, i)
  BY <1>6, ReportReads DEF R!EntryTyped, EntryTyped, R!EntryValued, EntryValued
<1>8. \A f, p : R!BadEntries(f, p) = BadEntries(f, p)
  BY <1>7, ReportReads DEF R!BadEntries, BadEntries, R!EntryFits, EntryFits
<1>9. \A f, p : R!EntriesRead(f, p) = EntriesRead(f, p)
  BY <1>8, ReportReads DEF R!EntriesRead, EntriesRead
<1>10. \A f, p : R!MistypedEntry(f, p) <=> MistypedEntry(f, p)
  BY <1>7, <1>9, ReportReads DEF R!MistypedEntry, MistypedEntry
<1>11. \A f, p, form : R!HasForm(f, p, form) <=> HasForm(f, p, form)
  BY <1>4, <1>5, <1>10, ReportReads DEF R!HasForm, HasForm
<1>12. \A f, p : R!TypeFits(f, p) <=> TypeFits(f, p)
  BY <1>11 DEF R!TypeFits, TypeFits, R!Forms, Forms
<1>13. \A f, p : R!Retained(f, p) = Retained(f, p)
  BY <1>2, <1>5, <1>9, ReportReads DEF R!Retained, Retained, R!Measured, Measured
<1> QED
  BY <1>1, <1>2, <1>3, <1>12, <1>13

(***************************************************************************)
(* The errors ConfigReport allows, by what the document has.               *)
(***************************************************************************)
LEMMA ReportDeclared ==
  /\ R!LoraDeclared
       <=> Given("peft_type") /\ Kind(Type) = "str" /\ TextAt(Type) = "LORA"
  /\ \A f \in CoreFields : \A t :
       R!LoraDeclared /\ ~Omitted(f) /\ TypeFits(f, At(f)) /\ t \in Retained(f, At(f))
         => t \in R!Kept
  /\ TypeNamed => TextAt(Type) \in R!Kept
<1>1. R!LoraDeclared
       <=> Given("peft_type") /\ Kind(Type) = "str" /\ TextAt(Type) = "LORA"
  BY ReportReads DEF R!LoraDeclared, Type
<1>2. TypeNamed => TextAt(Type) \in R!Kept
  BY ReportReads DEF TypeNamed, Type, R!Kept
<1>3. ASSUME NEW f \in CoreFields, NEW t, R!LoraDeclared, ~Omitted(f), TypeFits(f, At(f)),
             t \in Retained(f, At(f))
      PROVE  t \in R!Kept
  <2>1. f \in {g \in R!CoreFields : ~R!Omitted(g) /\ R!TypeFits(g, R!At(g))}
    BY <1>3, ReportReads, ReportDecoders
  <2>2. t \in R!Retained(f, R!At(f))
    BY <1>3, ReportReads, ReportDecoders
  <2> QED
    BY <1>3, <2>1, <2>2 DEF R!Kept
<1> QED
  BY <1>1, <1>2, <1>3

LEMMA KeysKept ==
  \A p \in DOMAIN tree : \A i \in DOMAIN Keys(p) : Keys(p)[i] \in R!AllKeys /\ Keys(p)[i] \in R!Kept
<1>1. \A p : R!KeysOf(p) = ToSet(Keys(p))
  BY ReportReads DEF R!KeysOf, R!ToSet, ToSet
<1> QED
  BY <1>1 DEF R!AllKeys, R!Kept, ToSet

-----------------------------------------------------------------------------
(***************************************************************************)
(* Whatever the walk refuses is an error of the document ...               *)
(***************************************************************************)
LEMMA TreeErrorsAre ==
  /\ \A t \in R!AllTexts : t \in Surrogate => "invalid_unicode_scalar" \in R!TreeErrors
  /\ \A t \in R!Kept : TooLong(t) => "name_exceeds_policy_limit" \in R!TreeErrors
  /\ \A p \in DOMAIN tree :
       TooMany(p) => "collection_count_exceeds_policy_limit" \in R!TreeErrors
  /\ /\ \A t \in R!AllTexts : t \notin Surrogate
     /\ \A t \in R!Kept : ~TooLong(t)
     /\ \A p \in DOMAIN tree : ~TooMany(p)
     => R!TreeErrors = {}
<1>1. \A p \in DOMAIN tree :
        TooMany(p) <=> p \in R!Lists \cup (R!Objects \ {<<>>}) /\ R!Width(tree[p]) > MaxItems
  BY ReportReads DEF TooMany, R!Lists, R!Objects, R!Width, Width
<1>2. R!Lists \cup R!Objects \subseteq DOMAIN tree
  BY DEF R!Lists, R!Objects
<1> QED
  BY <1>1, <1>2 DEF R!TreeErrors, TooLong

LEMMA WalkErrors ==
  ASSUME IsTree(tree), Top \in DOMAIN tree, WalkNext, code' # "none"
  PROVE  code' \in R!TreeErrors
<1>1. CASE RefuseText
  <2>1. tree[Top].text \in R!AllTexts /\ tree[Top].text \in Surrogate
    BY <1>1, ReportReads DEF RefuseText, SurrogateText, R!AllTexts
  <2> QED
    BY <1>1, <2>1, TreeErrorsAre DEF RefuseText, Raise
<1>2. CASE RefuseCollection
  BY <1>2, TreeErrorsAre DEF RefuseCollection, Raise
<1>3. CASE RefuseKey
  <2> DEFINE k == Keys(Top)[BadKeyAt(Top)]
  <2>1. k \in R!AllKeys /\ k \in R!Kept /\ (k \in Surrogate \/ TooLong(k))
    BY <1>3, BadKeyIs, KeysKept DEF RefuseKey
  <2>2. code' = KeyCode(k)
    BY <1>3 DEF RefuseKey, Raise
  <2> HIDE DEF k
  <2>3. k \in R!AllTexts
    BY <2>1 DEF R!AllTexts
  <2> QED
    BY <2>1, <2>2, <2>3, TreeErrorsAre DEF KeyCode
<1>4. CASE VisitClean
  BY <1>4 DEF VisitClean, Walking
<1> QED
  BY <1>1, <1>2, <1>3, <1>4 DEF WalkNext

(***************************************************************************)
(* ... and a document that is clean, and whose texts have been measured,   *)
(* has none.                                                               *)
(***************************************************************************)
Fits(f) == ~Omitted(f) /\ TypeFits(f, At(f)) => \A t \in Retained(f, At(f)) : ~TooLong(t)

LEMMA NoErrors ==
  ASSUME IsTree(tree), Clean, TypeNamed => ~TooLong(TextAt(Type)),
         R!LoraDeclared => \A f \in CoreFields : Fits(f)
  PROVE  R!TreeErrors = {}
<1>1. \A p \in DOMAIN tree : ~TooMany(p) /\ BadKeyAt(p) = 0 /\ ~SurrogateText(p)
  BY DEF Clean, Defective
<1>2. \A p : R!KeysOf(p) = {Keys(p)[i] : i \in DOMAIN Keys(p)}
  BY ReportReads DEF R!KeysOf, R!ToSet
<1>3. \A t \in R!AllKeys : t \notin Surrogate /\ ~TooLong(t)
  BY <1>1, <1>2, BadKeyIs DEF R!AllKeys
<1>4. \A t \in R!AllTexts : t \notin Surrogate
  BY <1>1, <1>3, ReportReads DEF R!AllTexts, SurrogateText
<1>5. ASSUME Given("peft_type"), Kind(Type) = "str" PROVE ~TooLong(TextAt(Type))
  <2>1. CASE TextAt(Type) = ""
    <3>1. TextAt(Type) \in Text
      BY <1>5, GivenIs, ValueShape DEF Type, Kind, TextAt, Node
    <3>2. Bytes[""] = 0
      BY <2>1, <3>1, TextAssumption
    <3>3. ~(0 > MaxName)
      BY WalkLimitsAssumption
    <3> QED
      BY <2>1, <3>2, <3>3 DEF TooLong
  <2>2. CASE TextAt(Type) # ""
    BY <1>5, <2>2 DEF TypeNamed
  <2> QED
    BY <2>1, <2>2
<1>6. ASSUME NEW t \in R!Kept PROVE ~TooLong(t)
  <2>1. CASE t \in R!AllKeys
    BY <1>3, <2>1
  <2>2. CASE Given("peft_type") /\ Kind(Type) = "str" /\ t = TextAt(Type)
    BY <1>5, <2>2
  <2>3. ASSUME R!LoraDeclared,
               NEW g \in {h \in R!CoreFields : ~R!Omitted(h) /\ R!TypeFits(h, R!At(h))},
               t \in R!Retained(g, R!At(g))
        PROVE  ~TooLong(t)
    BY <2>3, ReportReads, ReportDecoders DEF Fits
  <2>4. \/ t \in R!AllKeys
        \/ Given("peft_type") /\ Kind(Type) = "str" /\ t = TextAt(Type)
        \/ /\ R!LoraDeclared
           /\ \E g \in {h \in R!CoreFields : ~R!Omitted(h) /\ R!TypeFits(h, R!At(h))} :
                t \in R!Retained(g, R!At(g))
    BY <1>6, ReportReads DEF R!Kept, Type
  <2> QED
    BY <2>1, <2>2, <2>3, <2>4
<1> QED
  BY <1>1, <1>4, <1>6, TreeErrorsAre

-----------------------------------------------------------------------------
(***************************************************************************)
(* What has been read is within the limits, and the method is the one the  *)
(* document declares.                                                      *)
(***************************************************************************)
MethodKnown == phase \in {"fields", "relations", "manifest", "done"}

Opened == R!Readable /\ Kind(<<>>) = "dict" /\ Len(Keys(<<>>)) <= MaxFields

MethodOf ==
  IF ~Given("peft_type") THEN "missing"
  ELSE IF ~TypeNamed THEN "invalid"
  ELSE IF TextAt(Type) = "LORA" THEN "supported_lora"
  ELSE "unsupported"

Classified ==
  /\ TypeNamed => ~TooLong(TextAt(Type))
  /\ method.status = MethodOf
  /\ method.status = "supported_lora" =>
       \A i \in 1 .. Len(decoded) : Fits(DecodeOrder[i])

MeasuredInv ==
  /\ phase # "refused" => code = "none"
  /\ phase \notin {"bytes", "refused"} => Opened
  /\ MethodKnown => Classified

LEMMA FitsFixed ==
  ASSUME tree' = tree
  PROVE  \A f : Fits(f)' <=> Fits(f)
<1>1. \A f, p : BadEntries(f, p)' = BadEntries(f, p)
  BY DEF BadEntries, EntryFits, EntryTyped, EntryValued, IntWithin, DecimalWithin, NumberWithin,
         NumberSupported, NumberAt, Kind, Keys
<1>2. \A f, p : EntriesRead(f, p)' = EntriesRead(f, p)
  BY <1>1, ReadsFixed DEF EntriesRead
<1>3. \A p : ExactMapping(p)' <=> ExactMapping(p)
  BY ReadsFixed DEF ExactMapping
<1>4. \A f, p : Retained(f, p)' = Retained(f, p)
  BY <1>2, <1>3, ReadsFixed DEF Retained
<1>5. \A f, p : TypeFits(f, p)' <=> TypeFits(f, p)
  BY DecodersFixed
<1> QED
  BY <1>4, <1>5, ReadsFixed DEF Fits, TooLong

LEMMA OpenedFixed ==
  ASSUME UNCHANGED <<doc, tree>>
  PROVE  /\ Opened' <=> Opened
         /\ TypeNamed' <=> TypeNamed
         /\ TextAt(Type)' = TextAt(Type)
         /\ MethodOf' = MethodOf
<1>1. R!Readable' <=> R!Readable
  BY DEF R!Readable
<1>2. Opened' <=> Opened
  BY <1>1, ReadsFixed DEF Opened
<1>3. Type' = Type
  BY ReadsFixed DEF Type
<1>4. (TypeNamed' <=> TypeNamed) /\ TextAt(Type)' = TextAt(Type)
  BY <1>3, ReadsFixed DEF TypeNamed, TextAt, Kind
<1>5. MethodOf' = MethodOf
  BY <1>4, ReadsFixed DEF MethodOf
<1> QED
  BY <1>2, <1>4, <1>5

LEMMA AppendLength ==
  ASSUME NEW n \in Nat, NEW g, NEW s, s = [i \in 1 .. n |-> g[i]], NEW x
  PROVE  Len(s) = n /\ Len(Append(s, x)) = n + 1
<1> DEFINE S == {g[i] : i \in 1 .. n} \cup {x}
<1>1. s \in Seq(S) /\ x \in S /\ Len(s) = n
  OBVIOUS
<1> HIDE DEF S
<1> QED
  BY <1>1

LEMMA FieldMeasured ==
  ASSUME ConfigInv, MeasuredInv, Decoding, Fits(Field), NEW x, decoded' = Append(decoded, x),
         UNCHANGED <<doc, tree, stack, code, phase, method>>
  PROVE  MeasuredInv'
<1>1. PICK n \in 0 .. 19 : ReadUpTo(n) /\ Field = DecodeOrder[n + 1]
  BY DecodingAt
<1> DEFINE g == [i \in 1 .. 20 |-> Reading(DecodeOrder[i])]
<1>2. decoded = [i \in 1 .. n |-> g[i]]
  BY <1>1 DEF ReadUpTo
<1> HIDE DEF g
<1>3. Len(decoded) = n /\ Len(decoded') = n + 1
  BY <1>2, AppendLength
<1>4. MethodKnown /\ Classified
  BY DEF MeasuredInv, Decoding, MethodKnown
<1>5. method.status = "supported_lora" => \A i \in 1 .. n + 1 : Fits(DecodeOrder[i])
  <2>1. \A i \in 1 .. n + 1 : i \in 1 .. n \/ i = n + 1
    OBVIOUS
  <2> QED
    BY <1>1, <1>3, <1>4, <2>1 DEF Classified
<1>6. Classified'
  BY <1>3, <1>4, <1>5, FitsFixed, OpenedFixed DEF Classified, TooLong
<1> QED
  BY <1>6, OpenedFixed DEF MeasuredInv

LEMMA MeasuredKeeps ==
  ASSUME MeasuredInv, UNCHANGED <<doc, tree, decoded, code>>,
         phase' # "refused", phase \notin {"bytes", "refused"},
         MethodKnown' => MethodKnown /\ method' = method
  PROVE  MeasuredInv'
<1>1. Classified /\ method' = method => Classified'
  BY FitsFixed, OpenedFixed DEF Classified, TooLong
<1> QED
  BY <1>1, OpenedFixed DEF MeasuredInv

LEMMA MeasuredRefused ==
  ASSUME NEW error, Refuse(error)
  PROVE  MeasuredInv'
  BY DEF Refuse, MeasuredInv, MethodKnown

LEMMA MethodMeasured ==
  ASSUME ConfigInv, MeasuredInv, ReadMethod
  PROVE  MeasuredInv'
<1>1. CASE RefuseMethod
  BY <1>1, MeasuredRefused DEF RefuseMethod, RefuseRetained
<1>2. ASSUME NEW status, status = MethodOf, TypeNamed => ~TooLong(TextAt(Type)),
             method'.status = status, UNCHANGED <<doc, tree, code, decoded>>,
             phase = "method", phase' # "refused"
      PROVE  MeasuredInv'
  <2>1. decoded = <<>> /\ Len(decoded) = 0
    BY <1>2 DEF ConfigInv, Early
  <2>2. Classified'
    BY <1>2, <2>1, OpenedFixed DEF Classified, TooLong
  <2> QED
    BY <1>2, <2>2, OpenedFixed DEF MeasuredInv
<1>3. CASE MethodMissing
  <2>1. MethodOf = "missing" /\ ~TypeNamed
    BY <1>3 DEF MethodMissing, MethodOf, TypeNamed
  <2> QED
    BY <1>2, <1>3, <2>1 DEF MethodMissing, ClassifyMethod, Proceed
<1>4. CASE MethodInvalid
  <2>1. MethodOf = "invalid" /\ ~TypeNamed
    BY <1>4 DEF MethodInvalid, MethodOf
  <2> QED
    BY <1>2, <1>4, <2>1 DEF MethodInvalid, ClassifyMethod, Proceed
<1>5. CASE MethodUnsupported
  <2>1. MethodOf = "unsupported" /\ ~TooLong(TextAt(Type))
    BY <1>5 DEF MethodUnsupported, MethodOf, TypeNamed, RetainFails
  <2> QED
    BY <1>2, <1>5, <2>1 DEF MethodUnsupported, ClassifyMethod, Proceed
<1>6. CASE MethodLora
  <2>1. MethodOf = "supported_lora" /\ ~TooLong(TextAt(Type))
    BY <1>6 DEF MethodLora, MethodOf, TypeNamed, RetainFails
  <2> QED
    BY <1>2, <1>6, <2>1 DEF MethodLora, Proceed
<1> QED
  BY <1>1, <1>3, <1>4, <1>5, <1>6 DEF ReadMethod

LEMMA DecodeMeasured ==
  ASSUME ConfigInv, MeasuredInv, Decode
  PROVE  MeasuredInv'
<1>1. CASE DecodeRefused
  BY <1>1, MeasuredRefused DEF DecodeRefused, RefuseRetained
<1>2. CASE DecodeOmitted
  <2>1. Fits(Field)
    BY <1>2 DEF DecodeOmitted, Fits
  <2> QED
    BY <1>2, <2>1, FieldMeasured DEF DecodeOmitted, Return
<1>3. CASE DecodeWrongType
  <2>1. Fits(Field)
    BY <1>3 DEF DecodeWrongType, Fits, Value
  <2> QED
    BY <1>3, <2>1, FieldMeasured DEF DecodeWrongType, Fault, Return
<1>4. CASE DecodeWrongValue
  <2>1. Fits(Field)
    BY <1>4 DEF DecodeWrongValue, Fits, Value, RetainFails
  <2> QED
    BY <1>4, <2>1, FieldMeasured DEF DecodeWrongValue, Fault, Return
<1>5. CASE DecodeValue
  <2>1. Fits(Field)
    BY <1>5 DEF DecodeValue, Fits, Value, RetainFails
  <2> QED
    BY <1>5, <2>1, FieldMeasured DEF DecodeValue, Return
<1> QED
  BY <1>1, <1>2, <1>3, <1>4, <1>5 DEF Decode

LEMMA MeasuredStep ==
  ASSUME ConfigInv, ConfigInv', MeasuredInv, [Next]_vars
  PROVE  MeasuredInv'
<1>1. CASE ReadBytes
  <2>1. CASE BeginWalk
    <3>1. Opened
      BY <2>1 DEF BeginWalk, Opened
    <3> QED
      BY <2>1, <3>1, OpenedFixed DEF BeginWalk, Proceed, MeasuredInv, MethodKnown
  <2>2. CASE ~BeginWalk
    BY <1>1, <2>2, MeasuredRefused
       DEF ReadBytes, RefuseSize, RefuseUtf8, RefuseJson, RefuseRoot, RefuseFieldCount
  <2> QED
    BY <2>1, <2>2
<1>2. CASE Walk
  <2>1. /\ UNCHANGED <<doc, tree>> /\ phase = "walk"
        /\ phase' = IF code' = "none" THEN "walk" ELSE "refused"
    BY <1>2 DEF Walk, WalkNext, VisitClean, RefuseText, RefuseCollection, RefuseKey, Raise
  <2> QED
    BY <2>1, OpenedFixed DEF MeasuredInv, MethodKnown
<1>3. CASE EndWalk
  BY <1>3, MeasuredKeeps DEF EndWalk, Proceed, fields, MethodKnown
<1>4. CASE ReadMethod
  BY <1>4, MethodMeasured
<1>5. CASE Decode
  BY <1>5, DecodeMeasured
<1>6. CASE ClassifyDefaultOnly
  BY <1>6, MeasuredKeeps DEF ClassifyDefaultOnly, Proceed, MethodKnown
<1>7. CASE GiveUpInvalid \/ GiveUpStringTarget \/ GiveUpNoTargets \/ GiveUpPattern
  BY <1>7, MeasuredKeeps DEF GiveUpInvalid, GiveUpStringTarget, GiveUpNoTargets, GiveUpPattern,
                             GiveUp, Proceed, Relating, MethodKnown
<1>8. CASE BuildProfile
  <2>1. ProfileFits(Profile.values)
    BY <1>8, ProfileAccepted DEF BuildProfile, RuleBroken
  <2> QED
    BY <1>8, <2>1, MeasuredKeeps DEF BuildProfile, Construct, Relating, MethodKnown
<1>9. CASE BuildManifest
  <2>1. ManifestFits(method.status, method.declared, lora, issues)
    BY <1>9 DEF BuildManifest, ConfigInv
  <2> QED
    BY <1>9, <2>1, MeasuredKeeps DEF BuildManifest, Construct, fields, MethodKnown
<1>10. CASE UNCHANGED vars
  <2>1. UNCHANGED <<doc, tree, decoded, code, phase, method>>
    BY <1>10 DEF vars, fields
  <2>2. Classified' <=> Classified
    BY <2>1, FitsFixed, OpenedFixed DEF Classified, TooLong
  <2> QED
    BY <2>1, <2>2, OpenedFixed DEF MeasuredInv, MethodKnown
<1> QED
  BY <1>1, <1>2, <1>3, <1>4, <1>5, <1>6, <1>7, <1>8, <1>9, <1>10 DEF Next, Relate

-----------------------------------------------------------------------------
(***************************************************************************)
(* The two instances of ConfigReport say the same of a document.           *)
(***************************************************************************)
LEMMA SameReads ==
  /\ \A p : /\ Reported!Kind(p) = R!Kind(p) /\ Reported!Keys(p) = R!Keys(p)
            /\ Reported!Children(p) = R!Children(p) /\ Reported!TextAt(p) = R!TextAt(p)
            /\ Reported!NamesAt(p) = R!NamesAt(p)
  /\ \A f : Reported!At(f) = R!At(f) /\ (Reported!Given(f) <=> R!Given(f))
  /\ \A s : Reported!ToSet(s) = R!ToSet(s)
<1>1. \A p : /\ Reported!Kind(p) = R!Kind(p) /\ Reported!Keys(p) = R!Keys(p)
             /\ Reported!Children(p) = R!Children(p) /\ Reported!TextAt(p) = R!TextAt(p)
  BY DEF Reported!Kind, R!Kind, Reported!Keys, R!Keys, Reported!Children, R!Children,
         Reported!Width, R!Width, Reported!TextAt, R!TextAt
<1>2. \A p, k : Reported!Member(p, k) = R!Member(p, k)
  BY <1>1 DEF Reported!Member, R!Member
<1>3. \A f : Reported!At(f) = R!At(f) /\ (Reported!Given(f) <=> R!Given(f))
  BY <1>2 DEF Reported!At, R!At, Reported!Get, R!Get, Reported!Given, R!Given,
              Reported!Has, R!Has
<1>4. \A s : Reported!ToSet(s) = R!ToSet(s)
  BY DEF Reported!ToSet, R!ToSet
<1>5. \A p : Reported!NamesAt(p) = R!NamesAt(p)
  BY <1>1, <1>4 DEF Reported!NamesAt, R!NamesAt, Reported!TextsAt, R!TextsAt,
                    Reported!Width, R!Width
<1> QED
  BY <1>1, <1>3, <1>4, <1>5

LEMMA SameDecoders ==
  /\ \A f : Reported!Omitted(f) <=> R!Omitted(f)
  /\ \A f, p : Reported!TypeFits(f, p) <=> R!TypeFits(f, p)
  /\ \A f, p : Reported!Retained(f, p) = R!Retained(f, p)
  /\ Reported!CoreFields = R!CoreFields
<1>1. Reported!CoreFields = R!CoreFields
  BY SameReads DEF Reported!CoreFields, R!CoreFields, Reported!DecodeOrder, R!DecodeOrder
<1>2. \A f : Reported!Omitted(f) <=> R!Omitted(f)
  BY SameReads DEF Reported!Omitted, R!Omitted, Reported!Nullable, R!Nullable
<1>3. \A f, p, i : /\ Reported!EntryTyped(f, p, i) <=> R!EntryTyped(f, p, i)
                   /\ Reported!EntryValued(f, p, i) <=> R!EntryValued(f, p, i)
  BY SameReads DEF Reported!EntryTyped, R!EntryTyped, Reported!EntryValued, R!EntryValued,
                   Reported!IntWithin, R!IntWithin, Reported!DecimalWithin, R!DecimalWithin,
                   Reported!NumberWithin, R!NumberWithin, Reported!NumberSupported,
                   R!NumberSupported, Reported!NumberAt, R!NumberAt
<1>4. \A f, p : Reported!EntriesRead(f, p) = R!EntriesRead(f, p)
  BY <1>3, SameReads DEF Reported!EntriesRead, R!EntriesRead, Reported!BadEntries, R!BadEntries,
                         Reported!EntryFits, R!EntryFits
<1>5. \A f, p : Reported!MistypedEntry(f, p) <=> R!MistypedEntry(f, p)
  BY <1>3, <1>4, SameReads DEF Reported!MistypedEntry, R!MistypedEntry
<1>6. \A p : Reported!ExactMapping(p) <=> R!ExactMapping(p)
  BY SameReads DEF Reported!ExactMapping, R!ExactMapping, Reported!AutoMappingKeys,
                   R!AutoMappingKeys
<1>7. \A p, kind : Reported!AllOf(p, kind) <=> R!AllOf(p, kind)
  BY SameReads DEF Reported!AllOf, R!AllOf
<1>8. \A f, p, form : Reported!HasForm(f, p, form) <=> R!HasForm(f, p, form)
  BY <1>5, <1>6, <1>7, SameReads DEF Reported!HasForm, R!HasForm
<1>9. \A f, p : Reported!TypeFits(f, p) <=> R!TypeFits(f, p)
  BY <1>8 DEF Reported!TypeFits, R!TypeFits, Reported!Forms, R!Forms
<1>10. \A f, p : Reported!Retained(f, p) = R!Retained(f, p)
  BY <1>4, <1>6, SameReads DEF Reported!Retained, R!Retained, Reported!Measured, R!Measured
<1> QED
  BY <1>1, <1>2, <1>9, <1>10

LEMMA SameErrors ==
  Reported!Errors = R!Errors /\ Reported!DocumentMethod = R!DocumentMethod
  /\ (Reported!LoraDeclared <=> R!LoraDeclared)
<1>1. Reported!LoraDeclared <=> R!LoraDeclared
  BY SameReads DEF Reported!LoraDeclared, R!LoraDeclared
<1>2. \A p : Reported!KeysOf(p) = R!KeysOf(p)
  BY SameReads DEF Reported!KeysOf, R!KeysOf
<1>3. Reported!AllKeys = R!AllKeys
  BY <1>2 DEF Reported!AllKeys, R!AllKeys
<1>4. Reported!AllTexts = R!AllTexts
  BY <1>3, SameReads DEF Reported!AllTexts, R!AllTexts
<1>5. Reported!Kept = R!Kept
  BY <1>1, <1>3, SameReads, SameDecoders DEF Reported!Kept, R!Kept
<1>6. Reported!Lists = R!Lists /\ Reported!Objects = R!Objects
  BY SameReads DEF Reported!Lists, R!Lists, Reported!Objects, R!Objects
<1>7. Reported!TreeErrors = R!TreeErrors
  BY <1>4, <1>5, <1>6 DEF Reported!TreeErrors, R!TreeErrors, Reported!Width, R!Width
<1>8. Reported!Errors = R!Errors
  BY <1>7, SameReads DEF Reported!Errors, R!Errors, Reported!JsonFailures, R!JsonFailures
<1>9. Reported!DocumentMethod = R!DocumentMethod
  BY <1>1, SameReads DEF Reported!DocumentMethod, R!DocumentMethod, Reported!NonemptyText,
                         R!NonemptyText, Reported!IsText, R!IsText
<1> QED
  BY <1>1, <1>8, <1>9

LEMMA SameOrdinary ==
  (Reported!Ordinary <=> R!Ordinary) /\ Reported!DocumentFacts = R!DocumentFacts
<1>1. \A p : /\ Reported!IsText(p) <=> R!IsText(p)
             /\ Reported!IsNull(p) <=> R!IsNull(p)
             /\ Reported!NonemptyText(p) <=> R!NonemptyText(p)
             /\ Reported!Empty(p) <=> R!Empty(p)
  BY SameReads DEF Reported!IsText, R!IsText, Reported!IsNull, R!IsNull, Reported!NonemptyText,
                   R!NonemptyText, Reported!Empty, R!Empty
<1>2. \A p : /\ Reported!Alpha(p) <=> R!Alpha(p)
             /\ Reported!IsNumber(p, 0, Unit) <=> R!IsNumber(p, 0, Unit)
             /\ Reported!Index(p) <=> R!Index(p)
             /\ Reported!RankOf(p) <=> R!RankOf(p)
  BY SameReads DEF Reported!Alpha, R!Alpha, Reported!IsNumber, R!IsNumber, Reported!Index,
                   R!Index, Reported!RankOf, R!RankOf, Reported!IsInteger, R!IsInteger,
                   Reported!IntWithin, R!IntWithin, Reported!NumberWithin, R!NumberWithin,
                   Reported!NumberSupported, R!NumberSupported, Reported!NumberAt, R!NumberAt
<1>3. \A p : Reported!KeysOf(p) = R!KeysOf(p)
  BY SameReads DEF Reported!KeysOf, R!KeysOf
<1>5. ASSUME NEW f \in R!CoreFields, NEW p
      PROVE  Reported!OrdinaryCore(f, p) <=> R!OrdinaryCore(f, p)
  <2>1. /\ Reported!Kind(p) = R!Kind(p) /\ Reported!TextAt(p) = R!TextAt(p)
        /\ Reported!Nullable = R!Nullable /\ Reported!TaskTypes = R!TaskTypes
        /\ Reported!AutoMappingKeys = R!AutoMappingKeys
        /\ Reported!ToSet(Reported!Children(p)) = R!ToSet(R!Children(p))
    BY SameReads
       DEF Reported!Nullable, R!Nullable, Reported!TaskTypes, R!TaskTypes,
           Reported!AutoMappingKeys, R!AutoMappingKeys
  <2>2. /\ Reported!IsText(p) <=> R!IsText(p)
        /\ Reported!IsNull(p) <=> R!IsNull(p)
        /\ Reported!NonemptyText(p) <=> R!NonemptyText(p)
        /\ Reported!Alpha(p) <=> R!Alpha(p)
        /\ Reported!IsNumber(p, 0, Unit) <=> R!IsNumber(p, 0, Unit)
        /\ Reported!Index(p) <=> R!Index(p)
        /\ Reported!RankOf(p) <=> R!RankOf(p)
        /\ Reported!KeysOf(p) = R!KeysOf(p)
    BY <1>1, <1>2, <1>3
  <2>3. Reported!ListOf(p, Reported!NonemptyText) <=> R!ListOf(p, R!NonemptyText)
    BY <1>1, <2>1 DEF Reported!ListOf, R!ListOf
  <2>4. Reported!ListOf(p, Reported!Index) <=> R!ListOf(p, R!Index)
    BY <1>2, <2>1 DEF Reported!ListOf, R!ListOf
  <2>5. Reported!ObjectOf(p, Reported!NonemptyText) <=> R!ObjectOf(p, R!NonemptyText)
    BY <1>1, <2>1 DEF Reported!ObjectOf, R!ObjectOf
  <2>6. Reported!ObjectOf(p, Reported!RankOf) <=> R!ObjectOf(p, R!RankOf)
    BY <1>2, <2>1 DEF Reported!ObjectOf, R!ObjectOf
  <2>7. Reported!ObjectOf(p, Reported!Alpha) <=> R!ObjectOf(p, R!Alpha)
    BY <1>2, <2>1 DEF Reported!ObjectOf, R!ObjectOf
  <2>8. CASE f \in {"task_type", "auto_mapping", "peft_version", "base_model_name_or_path",
                    "revision", "bias"}
    BY <2>1, <2>2, <2>5, <2>8 DEF Reported!OrdinaryCore, R!OrdinaryCore
  <2>9. CASE f \in {"target_modules", "exclude_modules", "modules_to_save", "layers_pattern",
                    "layers_to_transform"}
    BY <2>1, <2>2, <2>3, <2>4, <2>9 DEF Reported!OrdinaryCore, R!OrdinaryCore
  <2>10. CASE f \in {"r", "lora_alpha", "lora_dropout", "inference_mode", "fan_in_fan_out",
                     "use_rslora", "init_lora_weights"}
    BY <2>1, <2>2, <2>10 DEF Reported!OrdinaryCore, R!OrdinaryCore
  <2>11. CASE f \in {"rank_pattern", "alpha_pattern"}
    BY <2>1, <2>2, <2>6, <2>7, <2>11 DEF Reported!OrdinaryCore, R!OrdinaryCore
  <2> QED
    BY <2>8, <2>9, <2>10, <2>11, CoreIs, ReportReads DEF CoreSet
<1>6. \A f : Reported!HoldsDefault(f) <=> R!HoldsDefault(f)
  BY SameReads DEF Reported!HoldsDefault, R!HoldsDefault, Reported!Tolerated, R!Tolerated
<1>7. \A f : Reported!OrdinaryField(f) <=> R!OrdinaryField(f)
  BY <1>5, <1>6, SameReads, SameDecoders
     DEF Reported!OrdinaryField, R!OrdinaryField, Reported!DefaultOnly, R!DefaultOnly,
         Reported!Tolerated, R!Tolerated
<1>8. \A f : Reported!Stated(f) <=> R!Stated(f)
  BY <1>1, SameReads DEF Reported!Stated, R!Stated
<1>9. Reported!LayersOrdinary <=> R!LayersOrdinary
  BY <1>1, <1>8, SameReads DEF Reported!LayersOrdinary, R!LayersOrdinary
<1>10. Reported!Explicit = R!Explicit
  BY SameReads DEF Reported!Explicit, R!Explicit
<1>11. Reported!Ordinary <=> R!Ordinary
  BY <1>7, <1>9, <1>10, SameErrors DEF Reported!Ordinary, R!Ordinary
<1>12. Reported!DocumentFacts = R!DocumentFacts
  BY <1>1, <1>8, SameReads DEF Reported!DocumentFacts, R!DocumentFacts, Reported!Facts, R!Facts
<1> QED
  BY <1>11, <1>12

-----------------------------------------------------------------------------
(***************************************************************************)
(* Once the rules between fields have been asked, the profile is closed    *)
(* exactly for an ordinary document, and holds its facts.                  *)
(***************************************************************************)
LEMMA ProfileValues ==
  ASSUME IsTree(tree), ReadUpTo(20), AllValid
  PROVE  /\ \A f \in CoreFields : Profile.values[f] = ValueOf(f) /\ ValidOf(f)
         /\ \A f \in CoreFields : ~Omitted(f) =>
              Accepted(f, At(f)) /\ ValueOf(f) = Normal(f, At(f)) /\ At(f) \in DOMAIN tree
         /\ \A f \in CoreFields : Omitted(f) => ValueOf(f) = Default(f)
<1>1. \A f \in CoreFields : Decoded(f) = ValueOf(f) /\ ValidOf(f)
  BY DecodedIs
<1>2. \A f \in CoreFields : Profile.values[f] = ValueOf(f)
  BY <1>1 DEF Profile
<1>3. \A f : ~Omitted(f) => At(f) \in DOMAIN tree
  BY GivenIs DEF Omitted
<1> QED
  BY <1>1, <1>2, <1>3 DEF ValidOf, ValueOf, Readings

LEMMA FactsAre ==
  ASSUME IsTree(tree), ReadUpTo(20), AllValid, NEW v, v = Profile.values
  PROVE  R!Facts(v["r"], v["rank_pattern"] # <<>>, ~Falsy(v["modules_to_save"], <<>>))
           = R!DocumentFacts
<1>1. {"r", "rank_pattern", "modules_to_save"} \subseteq CoreFields
  BY CoreIs DEF CoreSet
<1>2. /\ v["r"] = ValueOf("r") /\ v["rank_pattern"] = ValueOf("rank_pattern")
      /\ v["modules_to_save"] = ValueOf("modules_to_save")
  BY <1>1, ProfileValues
<1>3. v["r"] = IF R!Given("r") THEN tree[R!At("r")].int ELSE 8
  <2>1. Omitted("r") <=> ~Given("r")
    BY DEF Omitted, Nullable
  <2>2. Normal("r", At("r")) = tree[At("r")].int /\ Default("r") = 8
    BY DEF Normal, Default
  <2> QED
    BY <1>1, <1>2, <2>1, <2>2, ProfileValues, ReportReads
<1>4. v["rank_pattern"] # <<>> <=> R!Given("rank_pattern") /\ R!Keys(R!At("rank_pattern")) # <<>>
  <2> DEFINE p == At("rank_pattern")
  <2>1. Omitted("rank_pattern") <=> ~Given("rank_pattern")
    BY DEF Omitted, Nullable
  <2>2. Default("rank_pattern") = <<>> /\ Normal("rank_pattern", p) = EntriesAt("rank_pattern", p)
    BY DEF Default, Normal
  <2>3. ASSUME Given("rank_pattern")
        PROVE  EntriesAt("rank_pattern", p) = <<>> <=> Keys(p) = <<>>
    <3>1. p \in DOMAIN tree
      BY <2>3, GivenIs
    <3>2. DOMAIN EntriesAt("rank_pattern", p) = DOMAIN Keys(p)
      BY DEF EntriesAt
    <3>3. DOMAIN << >> = {}
      OBVIOUS
    <3>4. DOMAIN Keys(p) = {} => Keys(p) = <<>> /\ EntriesAt("rank_pattern", p) = <<>>
      <4>1. CASE Kind(p) = "dict"
        <5>1. Keys(p) \in Seq(Text)
          BY <3>1, <4>1, ValueShape DEF Keys, Kind, Node
        <5>2. DOMAIN Keys(p) = {} => EntriesAt("rank_pattern", p) = <<>>
          BY DEF EntriesAt
        <5> QED
          BY <5>1, <5>2
      <4>2. CASE Kind(p) # "dict"
        <5>1. Keys(p) = <<>>
          BY <4>2 DEF Keys
        <5>2. DOMAIN Keys(p) = {} => EntriesAt("rank_pattern", p) = <<>>
          BY DEF EntriesAt
        <5> QED
          BY <5>1, <5>2
      <4> QED
        BY <4>1, <4>2
    <3> QED
      BY <3>2, <3>3, <3>4
  <2> QED
    BY <1>1, <1>2, <2>1, <2>2, <2>3, ProfileValues, ReportReads
<1>5. ~Falsy(v["modules_to_save"], <<>>)
        <=> R!Stated("modules_to_save") /\ ~R!Empty(R!At("modules_to_save"))
  <2> DEFINE p == At("modules_to_save")
  <2>1. R!Stated("modules_to_save") <=> ~Omitted("modules_to_save")
    BY ReportStates DEF Nullable
  <2>2. Default("modules_to_save") = <<>> /\ Normal("modules_to_save", p) = <<TextsAt(p)>>
    BY DEF Default, Normal
  <2>3. CASE Omitted("modules_to_save")
    BY <1>1, <1>2, <2>1, <2>2, <2>3, ProfileValues DEF Falsy
  <2>4. CASE ~Omitted("modules_to_save")
    <3>1. p \in DOMAIN tree /\ Accepted("modules_to_save", p) /\ v["modules_to_save"] = <<TextsAt(p)>>
      BY <1>1, <1>2, <2>2, <2>4, ProfileValues
    <3>2. Kind(p) = "list"
      <4>1. Kind(p) # "strs"
        BY <3>1, KindIs DEF JsonKinds
      <4> QED
        BY <3>1, <4>1 DEF Accepted, TypeFits, Forms, HasForm
    <3>3. R!Empty(R!At("modules_to_save")) <=> Width(tree[p]) = 0
      BY <3>1, <3>2, ReportStates, ReportReads
    <3>4. TextsAt(p) = <<>> <=> Width(tree[p]) = 0
      <4>1. DOMAIN TextsAt(p) = 1 .. Width(tree[p]) /\ Width(tree[p]) \in Nat
        BY <3>1, ValueShape DEF TextsAt
      <4>2. Width(tree[p]) = 0 => TextsAt(p) = <<>>
        BY DEF TextsAt
      <4>3. Width(tree[p]) # 0 => 1 \in DOMAIN TextsAt(p)
        BY <4>1
      <4>4. DOMAIN << >> = {}
        OBVIOUS
      <4> QED
        BY <4>2, <4>3, <4>4
    <3>5. Falsy(v["modules_to_save"], <<>>) <=> TextsAt(p) = <<>>
      BY <3>1 DEF Falsy
    <3> QED
      BY <2>1, <2>4, <3>3, <3>4, <3>5
  <2> QED
    BY <2>3, <2>4
<1> QED
  BY <1>3, <1>4, <1>5 DEF R!Facts, R!DocumentFacts

LEMMA ClosedIs ==
  ASSUME IsTree(tree), Settled, R!LoraDeclared
  PROVE  ClosedProfile("supported_lora", lora, issues) <=> R!Ordinary
<1>1. PICK faults \in SUBSET RuleFields :
        /\ issues = AllIssues \cup {Issue(f, "invalid_value") : f \in faults}
        /\ faults # {} => AllValid /\ RuleBroken
        /\ lora = <<>> => ~AllValid \/ RuleBroken
        /\ lora # <<>> => lora = <<Profile>> /\ AllValid /\ ~RuleBroken /\ faults = {}
  BY DEF Settled
<1>2. ReadUpTo(20) /\ R!Explicit = Explicit
  BY ReportReads DEF Settled, R!Explicit, Explicit, R!ToSet, ToSet
<1>3. ASSUME ClosedProfile("supported_lora", lora, issues) PROVE R!Ordinary
  <2>1. lora # <<>> /\ \A i \in issues : ~Blocking(i)
    BY <1>3 DEF ClosedProfile
  <2>2. AllValid /\ ~RuleBroken
    BY <1>1, <2>1
  <2>3. R!LayersOrdinary
    BY <1>2, <2>2, RulesAre
  <2>4. \A f \in Explicit : R!OrdinaryField(f)
    BY <1>1, <2>1, BlamedField
  <2> QED
    BY <1>2, <2>3, <2>4 DEF R!Ordinary
<1>4. ASSUME R!Ordinary PROVE ClosedProfile("supported_lora", lora, issues)
  <2>1. (\A f \in Explicit : R!OrdinaryField(f)) /\ R!LayersOrdinary
    BY <1>2, <1>4 DEF R!Ordinary
  <2>2. \A f \in CoreFields : Given(f) => FaultsOf(f) = {}
    <3> SUFFICES ASSUME NEW f \in CoreFields, Given(f) PROVE FaultsOf(f) = {}
      OBVIOUS
    <3>1. f \in Explicit /\ f \notin DefaultOnly /\ f \notin {"peft_type", "runtime_config"}
      BY GivenIs, FieldsApart
    <3> QED
      BY <2>1, <3>1, OrdinaryFieldIs
  <2>3. \A f \in CoreFields : FaultsOf(f) = {} => ValidOf(f)
    BY DEF FaultsOf, ValidOf, Accepted
  <2>4. \A f \in CoreFields : ValidOf(f)
    BY <2>2, <2>3 DEF ValidOf, Omitted
  <2>5. AllValid
    BY <1>2, <2>4, DecodedIs
  <2>6. ~RuleBroken
    BY <1>2, <2>1, <2>5, RulesAre
  <2>7. lora # <<>> /\ lora = <<Profile>> /\ issues = AllIssues
    BY <1>1, <2>5, <2>6
  <2>8. \A x \in issues : x.kind = "ignored_field"
    <3> SUFFICES ASSUME NEW x \in AllIssues PROVE x.kind = "ignored_field"
      BY <2>7
    <3>1. x.field \in Explicit \/ x.kind = "ignored_field"
      BY IssueSources, IssueFields DEF Sourced
    <3> QED
      BY <2>1, <3>1, OrdinaryUnblamed
  <2>9. lora[1].values = Profile.values
    BY <2>7
  <2>10. {"bias", "init_lora_weights"} \subseteq CoreFields
    BY CoreIs DEF CoreSet
  <2>11. /\ Profile.values["bias"] = ValueOf("bias")
         /\ Profile.values["init_lora_weights"] = ValueOf("init_lora_weights")
    BY <1>2, <2>5, <2>10, ProfileValues
  <2>12. ASSUME NEW f \in {"bias", "init_lora_weights"} PROVE ~Nonordinary(f, ValueOf(f))
    <3>1. CASE Omitted(f)
      <4>1. ValueOf(f) = Default(f)
        BY <3>1 DEF ValueOf, Readings
      <4>2. Default("bias") = "none" /\ Default("init_lora_weights") = DefaultInitializer
        BY DEF Default
      <4>3. DefaultInitializer.kind = "default"
        BY DEF DefaultInitializer, Initializer
      <4> QED
        BY <4>1, <4>2, <4>3 DEF Nonordinary
    <3>2. CASE ~Omitted(f)
      <4>1. Accepted(f, At(f)) /\ ValueOf(f) = Normal(f, At(f))
        BY <1>2, <2>5, <2>10, <3>2, ProfileValues
      <4>2. FaultsOf(f) = {}
        BY <2>2, <2>10, <3>2 DEF Omitted
      <4> QED
        BY <3>2, <4>1, <4>2 DEF FaultsOf, Accepted
    <3> QED
      BY <3>1, <3>2
  <2>13. ValueOf("bias") = "none" /\ ValueOf("init_lora_weights").kind = "default"
    BY <2>12 DEF Nonordinary
  <2> QED
    BY <2>7, <2>8, <2>9, <2>11, <2>13 DEF ClosedProfile, Blocking
<1> QED
  BY <1>3, <1>4

-----------------------------------------------------------------------------
(***************************************************************************)
(* Every step of the parser answers as ConfigReport does, or stutters.     *)
(***************************************************************************)
LEMMA Silent ==
  ASSUME code = "none", phase # "done", phase' # "done", UNCHANGED <<doc, tree, code>>
  PROVE  UNCHANGED Reported!vars
<1>1. Outcome = R!Pending
  BY DEF Outcome
<1>2. Outcome' = R!Pending
  BY DEF Outcome, R!Pending, R!Refused
<1> QED
  BY <1>1, <1>2 DEF Reported!vars

LEMMA RefusedAnswers ==
  ASSUME code = "none", phase # "done", UNCHANGED <<doc, tree>>,
         NEW error \in R!Errors, error # "none", code' = error
  PROVE  Reported!Answer
<1>1. Outcome = Reported!Pending
  BY DEF Outcome, R!Pending, Reported!Pending, R!Refused, Reported!Refused
<1>2. Outcome' = Reported!Refused(error)
  BY DEF Outcome, R!Refused, Reported!Refused
<1>3. error \in Reported!Errors
  BY SameErrors
<1> QED
  BY <1>1, <1>2, <1>3 DEF Reported!Answer

LEMMA OpenedErrors ==
  ASSUME IsTree(tree), Opened
  PROVE  R!Errors = R!TreeErrors
<1>1. Len(Keys(<<>>)) \in Nat
  <2>1. <<>> \in DOMAIN tree /\ Kind(<<>>) = "dict"
    BY DEF IsTree, Opened
  <2>2. tree[<<>>].keys \in Seq(Text)
    BY <2>1 DEF IsTree, Node, Kind
  <2> QED
    BY <2>1, <2>2 DEF Keys
<1>2. ~(Len(Keys(<<>>)) > MaxFields)
  BY <1>1, FieldLimitAssumption DEF Opened
<1> QED
  BY <1>2, ReportReads DEF Opened, R!Errors, R!Readable

LEMMA TreeRefused ==
  ASSUME IsTree(tree), code = "none", Opened, phase # "done", UNCHANGED <<doc, tree>>,
         NEW error \in R!TreeErrors, code' = error
  PROVE  Reported!Answer
<1>1. R!Errors = R!TreeErrors
  BY OpenedErrors
<1>2. error # "none"
  BY DEF R!TreeErrors
<1> QED
  BY <1>1, <1>2, RefusedAnswers

LEMMA BytesAnswer ==
  ASSUME ConfigInv, MeasuredInv, ReadBytes
  PROVE  [Reported!Answer]_(Reported!vars)
<1>1. phase = "bytes" /\ code = "none"
  BY DEF ReadBytes, RefuseSize, RefuseUtf8, RefuseJson, RefuseRoot, RefuseFieldCount, BeginWalk,
         MeasuredInv
<1>2. CASE BeginWalk
  BY <1>1, <1>2, Silent DEF BeginWalk, Proceed
<1>3. CASE RefuseSize
  <2>1. "document_exceeds_policy_limit" \in R!Errors
    BY <1>3 DEF RefuseSize, R!Errors
  <2> QED
    BY <1>1, <1>3, <2>1, RefusedAnswers DEF RefuseSize, Refuse
<1>4. CASE RefuseUtf8
  <2>1. "document_utf8" \in R!Errors
    BY <1>4 DEF RefuseUtf8, R!Errors
  <2> QED
    BY <1>1, <1>4, <2>1, RefusedAnswers DEF RefuseUtf8, Refuse
<1>5. CASE RefuseJson
  <2>1. R!JsonFailures[doc.json] \in R!Errors
    BY <1>5 DEF RefuseJson, R!Errors
  <2>2. R!JsonFailures[doc.json] # "none"
    <3>1. doc.json \in DOMAIN R!JsonFailures
      BY <1>5 DEF RefuseJson, ConfigInv, WalkKept, R!Document
    <3> QED
      BY <3>1 DEF R!JsonFailures
  <2> QED
    BY <1>1, <1>5, <2>1, <2>2, RefusedAnswers DEF RefuseJson, Refuse
<1>6. CASE RefuseRoot
  <2>1. "root_not_object" \in R!Errors
    BY <1>6, ReportReads DEF RefuseRoot, R!Errors, R!Readable
  <2> QED
    BY <1>1, <1>6, <2>1, RefusedAnswers DEF RefuseRoot, Refuse
<1>7. CASE RefuseFieldCount
  <2>1. "root_field_count_exceeds_policy_limit" \in R!Errors
    BY <1>7, ReportReads DEF RefuseFieldCount, R!Errors, R!Readable
  <2> QED
    BY <1>1, <1>7, <2>1, RefusedAnswers DEF RefuseFieldCount, Refuse
<1> QED
  BY <1>2, <1>3, <1>4, <1>5, <1>6, <1>7 DEF ReadBytes

LEMMA WalkAnswers ==
  ASSUME ConfigInv, MeasuredInv, Walk
  PROVE  [Reported!Answer]_(Reported!vars)
<1>1. /\ phase = "walk" /\ code = "none" /\ Opened /\ WalkNext
      /\ UNCHANGED <<doc, tree>> /\ phase' # "done"
  BY DEF Walk, WalkNext, VisitClean, RefuseText, RefuseCollection, RefuseKey, Raise, MeasuredInv
<1>2. CASE code' = "none"
  BY <1>1, <1>2, Silent
<1>3. CASE code' # "none"
  <2>1. IsTree(tree) /\ Len(stack) \in Nat /\ stack # <<>> /\ stack \in Seq(DOMAIN tree)
    BY <1>1, TreePaths
       DEF ConfigInv, WalkKept, StackOrdered, WalkNext, VisitClean, RefuseText, RefuseCollection,
           RefuseKey, Walking
  <2>2. Top \in DOMAIN tree
    BY <2>1 DEF Top, Last
  <2>3. code' \in R!TreeErrors
    BY <1>1, <1>3, <2>1, <2>2, WalkErrors
  <2> QED
    BY <1>1, <2>1, <2>3, TreeRefused
<1> QED
  BY <1>2, <1>3

(***************************************************************************)
(* A retained text that is too long is one the report counts.              *)
(***************************************************************************)
LEMMA MethodAnswers ==
  ASSUME ConfigInv, MeasuredInv, ReadMethod
  PROVE  [Reported!Answer]_(Reported!vars)
<1>1. /\ phase = "method" /\ code = "none" /\ Opened
  BY DEF ReadMethod, RefuseMethod, MethodMissing, MethodInvalid, MethodUnsupported, MethodLora,
         MeasuredInv
<1>2. CASE RefuseMethod
  <2>1. TypeNamed /\ RetainFails({TextAt(Type)}) /\ Refuse(RetainCode(TextAt(Type)))
    BY <1>2 DEF RefuseMethod, RefuseRetained
  <2>2. IsTree(tree) /\ Clean
    BY <1>1, WalkedClean DEF Walked
  <2>3. TextAt(Type) \notin Surrogate
    BY <2>1, <2>2, CleanTexts, GivenIs DEF TypeNamed, Type, RequireText
  <2>4. TooLong(TextAt(Type)) /\ RetainCode(TextAt(Type)) = "name_exceeds_policy_limit"
    BY <2>1, <2>3 DEF RetainFails, RetainCode
  <2>5. "name_exceeds_policy_limit" \in R!TreeErrors
    BY <2>1, <2>4, ReportDeclared, TreeErrorsAre
  <2> QED
    BY <1>1, <2>1, <2>2, <2>4, <2>5, TreeRefused DEF Refuse
<1>3. CASE ~RefuseMethod
  <2>1. UNCHANGED <<doc, tree, code>> /\ phase' # "done"
    BY <1>3 DEF ReadMethod, MethodMissing, MethodInvalid, MethodUnsupported, MethodLora,
                ClassifyMethod, Proceed
  <2> QED
    BY <1>1, <2>1, Silent
<1> QED
  BY <1>2, <1>3

LEMMA DeclaredLora ==
  ASSUME ConfigInv, MeasuredInv, MethodKnown
  PROVE  method.status = "supported_lora" <=> R!LoraDeclared
<1>1. method.status = MethodOf
  BY DEF MeasuredInv, Classified
<1>2. "LORA" # ""
  OBVIOUS
<1> QED
  BY <1>1, <1>2, ReportDeclared DEF MethodOf, TypeNamed

LEMMA DecodeAnswers ==
  ASSUME ConfigInv, MeasuredInv, Decode
  PROVE  [Reported!Answer]_(Reported!vars)
<1>1. phase = "fields" /\ code = "none" /\ Opened /\ Len(decoded) < 20
  BY CoreIs DEF Decode, DecodeOmitted, DecodeRefused, DecodeWrongType, DecodeWrongValue,
         DecodeValue, Decoding, MeasuredInv
<1>2. CASE DecodeRefused
  <2>1. PICK t \in Retained(Field, Value) : RetainFails({t}) /\ Refuse(RetainCode(t))
    BY <1>2 DEF DecodeRefused, RefuseRetained
  <2>2. IsTree(tree) /\ Clean
    BY <1>1, WalkedClean DEF Walked
  <2>3. Field \in CoreFields
    BY <1>2, DecodingAt DEF DecodeRefused
  <2>4. ~Omitted(Field) /\ TypeFits(Field, Value) /\ Value = At(Field)
    BY <1>2 DEF DecodeRefused, Value
  <2>5. Value \in DOMAIN tree
    BY <2>2, <2>4, GivenIs DEF Omitted
  <2>6. t \notin Surrogate
    BY <2>2, <2>3, <2>4, <2>5, RetainedClean DEF RequireText
  <2>7. TooLong(t) /\ RetainCode(t) = "name_exceeds_policy_limit"
    BY <2>1, <2>6 DEF RetainFails, RetainCode
  <2>8. R!LoraDeclared
    <3>1. method.status = "supported_lora"
      BY <1>1 DEF ConfigInv, InLora, FieldsRead, LoraMethod
    <3> QED
      BY <1>1, <3>1, DeclaredLora DEF MethodKnown
  <2>9. t \in R!Kept
    BY <2>3, <2>4, <2>8, ReportDeclared
  <2>10. "name_exceeds_policy_limit" \in R!TreeErrors
    BY <2>7, <2>9, TreeErrorsAre
  <2> QED
    BY <1>1, <2>1, <2>2, <2>7, <2>10, TreeRefused DEF Refuse
<1>3. CASE ~DecodeRefused
  <2>1. UNCHANGED <<doc, tree, code, phase>>
    BY <1>3 DEF Decode, DecodeOmitted, DecodeWrongType, DecodeWrongValue, DecodeValue, Fault,
                Return
  <2> QED
    BY <1>1, <2>1, Silent
<1> QED
  BY <1>2, <1>3

(***************************************************************************)
(* The manifest is the report of a document without errors.                *)
(***************************************************************************)
LEMMA ManifestAnswers ==
  ASSUME ConfigInv, MeasuredInv, SettledInv, BuildManifest
  PROVE  Reported!Answer
<1>1. /\ phase = "manifest" /\ code = "none" /\ Opened /\ Classified
      /\ ManifestFits(method.status, method.declared, lora, issues)
  BY DEF BuildManifest, MeasuredInv, ConfigInv, MethodKnown
<1>2. UNCHANGED <<doc, tree, code, fields>> /\ phase' = "done"
  BY <1>1 DEF BuildManifest, Construct
<1>3. IsTree(tree) /\ Clean
  BY <1>1, WalkedClean DEF Walked
<1>4. method.status = "supported_lora" <=> R!LoraDeclared
  BY <1>1, DeclaredLora DEF MethodKnown
<1>5. R!LoraDeclared => Settled
  BY <1>1, <1>4 DEF SettledInv
<1>6. R!Errors = {}
  <2>1. ASSUME R!LoraDeclared, NEW f \in CoreFields PROVE Fits(f)
    <3>1. Len(decoded) = 20
      BY <1>5, <2>1 DEF Settled, ReadUpTo
    <3>2. PICK i \in 1 .. 20 : DecodeOrder[i] = f
      BY CoreIs DEF CoreFields, ToSet
    <3> QED
      BY <1>1, <1>4, <2>1, <3>1, <3>2 DEF Classified
  <2>2. R!TreeErrors = {}
    BY <1>1, <1>3, <2>1, NoErrors DEF Classified
  <2> QED
    BY <1>1, <1>3, <2>2, OpenedErrors
<1>7. method.status = R!DocumentMethod
  BY <1>1, <1>4, ReportDeclared, ReportReads
     DEF Classified, MethodOf, TypeNamed, Type, R!DocumentMethod, R!NonemptyText, R!IsText
<1>8. ClosedProfile(method.status, lora, issues) <=> R!Ordinary
  <2>1. CASE R!LoraDeclared
    BY <1>3, <1>4, <1>5, <2>1, ClosedIs
  <2>2. CASE ~R!LoraDeclared
    BY <1>4, <2>2 DEF ClosedProfile, R!Ordinary
  <2> QED
    BY <2>1, <2>2
<1>9. ASSUME R!Ordinary
      PROVE  R!Facts(lora[1].values["r"], lora[1].values["rank_pattern"] # <<>>,
                     ~Falsy(lora[1].values["modules_to_save"], <<>>)) = R!DocumentFacts
  <2>1. Settled /\ lora # <<>>
    BY <1>4, <1>5, <1>8, <1>9 DEF R!Ordinary, ClosedProfile
  <2>2. ReadUpTo(20) /\ AllValid /\ lora[1].values = Profile.values
    BY <2>1 DEF Settled
  <2> QED
    BY <1>3, <2>2, FactsAre
<1>10. Outcome' = R!Report(method.status, IF R!Ordinary THEN <<R!DocumentFacts>> ELSE <<>>)
  <2>1. method' = method /\ lora' = lora /\ issues' = issues
    BY <1>2 DEF fields
  <2>2. ClosedProfile(method.status, lora, issues)' <=> R!Ordinary
    BY <1>8, <2>1 DEF ClosedProfile, Blocking
  <2> QED
    BY <1>1, <1>2, <1>9, <2>1, <2>2 DEF Outcome, R!Facts, Falsy
<1>11. Outcome = Reported!Pending
  BY <1>1 DEF Outcome, R!Pending, Reported!Pending, R!Refused, Reported!Refused
<1> QED
  BY <1>2, <1>6, <1>7, <1>10, <1>11, SameErrors, SameOrdinary
     DEF Reported!Answer, R!Report, Reported!Report

LEMMA AnswersStep ==
  ASSUME ConfigInv, MeasuredInv, SettledInv, [Next]_vars
  PROVE  [Reported!Answer]_(Reported!vars)
<1>1. CASE EndWalk \/ ClassifyDefaultOnly \/ GiveUpInvalid \/ GiveUpStringTarget
           \/ GiveUpNoTargets \/ GiveUpPattern
  <2>1. /\ code = "none" /\ phase # "done" /\ phase' # "done"
        /\ UNCHANGED <<doc, tree, code>>
    BY <1>1 DEF EndWalk, ClassifyDefaultOnly, GiveUpInvalid, GiveUpStringTarget, GiveUpNoTargets,
                GiveUpPattern, GiveUp, Proceed, Relating, MeasuredInv
  <2> QED
    BY <2>1, Silent
<1>2. CASE BuildProfile
  <2>1. ProfileFits(Profile.values)
    BY <1>2, ProfileAccepted DEF BuildProfile, RuleBroken
  <2>2. /\ code = "none" /\ phase # "done" /\ phase' # "done"
        /\ UNCHANGED <<doc, tree, code>>
    BY <1>2, <2>1 DEF BuildProfile, Construct, Relating, MeasuredInv
  <2> QED
    BY <2>2, Silent
<1>3. CASE UNCHANGED vars
  <2>1. UNCHANGED <<doc, tree, code, phase, method, lora, issues>>
    BY <1>3 DEF vars, fields
  <2>2. Outcome' = Outcome
    BY <2>1 DEF Outcome, R!Refused, R!Pending, R!Report, R!Facts, ClosedProfile, Blocking, Falsy
  <2> QED
    BY <2>1, <2>2 DEF Reported!vars
<1> QED
  BY <1>1, <1>2, <1>3, BytesAnswer, WalkAnswers, MethodAnswers, DecodeAnswers, ManifestAnswers
     DEF Next, Relate

LEMMA AnswersStart == Init => Reported!Init /\ MeasuredInv
<1> SUFFICES ASSUME Init PROVE Reported!Init /\ MeasuredInv
  OBVIOUS
<1>1. tree \in Trees /\ doc \in R!Document /\ code = "none" /\ phase = "bytes"
  BY DEF Init, Start, WalkInit
<1>2. Outcome = Reported!Pending
  BY <1>1 DEF Outcome, R!Pending, Reported!Pending, R!Refused, Reported!Refused
<1>3. IsTree(tree)
  BY <1>1, TreesAssumption
<1>4. Reported!IsTree(tree) <=> IsTree(tree)
  BY DEF Reported!IsTree, IsTree, Reported!Path, Path, Reported!Node, Node, Reported!Width, Width,
         Reported!Front, Front, Reported!Last, Last, Reported!IsInjective, IsInjective
<1>5. doc \in Reported!Document
  BY <1>1 DEF R!Document, Reported!Document, R!JsonFailures, Reported!JsonFailures
<1> QED
  BY <1>1, <1>2, <1>3, <1>4, <1>5 DEF Reported!Init, MeasuredInv, MethodKnown

(***************************************************************************)
(* parse_adapter_config implements ConfigReport step by step: it raises    *)
(* only an error the document has, returns only when the document has      *)
(* none, and then calls the profile closed exactly for an ordinary         *)
(* document, with the document's facts.                                    *)
(***************************************************************************)
THEOREM ReportSteps == Spec => Reported!Init /\ [][Reported!Answer]_(Reported!vars)
<1>1. Init => SettledInv
  BY DEF Init, SettledInv
<1> QED
  BY AnswersStart, <1>1, ConfigCorrect, MeasuredStep, SettledStep, AnswersStep, PTL DEF Spec
===============================================================================
