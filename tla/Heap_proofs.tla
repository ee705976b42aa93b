---------------------------- MODULE Heap_proofs -----------------------------
(***************************************************************************)
(* Proofs about the binary heap for any number of elements, any dates and  *)
(* any width of size_t that can count the elements.                        *)
(*                                                                         *)
(* While reheap is at work the array is ordered except at one place.  On   *)
(* the way down this is between the root of reheap and its children, and   *)
(* what is above the root is not later than these children.  On the way up *)
(* it is between the root and one of its children, the element that rises; *)
(* reheap does not know which one it is, and the root is not later than    *)
(* what is below that child.                                               *)
(***************************************************************************)
EXTENDS Heap, TLAPS, WellFoundedInduction, NaturalsInduction

Places == 0..(list_len - 1)
IsChild(p, c) == c = 2 * p + 1 \/ c = 2 * p + 2
At(i) == date[list[i]]

Distinct == \A i, j \in Places : list[i] = list[j] => i = j

Ordered == \A p, c \in Places : IsChild(p, c) => At(p) <= At(c)

\* On the way down.
OrderedBut(r) == \A p, c \in Places : IsChild(p, c) /\ p # r => At(p) <= At(c)
Above(r) == \A p, c \in Places : IsChild(p, r) /\ IsChild(r, c) => At(p) <= At(c)

\* On the way up: x, a child of r, is the element that rises.
Rising(r, x) ==
  /\ IsChild(r, x)
  /\ \A p, c \in Places : IsChild(p, c) /\ c # x => At(p) <= At(c)
  /\ \A g \in Places : IsChild(x, g) => At(r) <= At(g)

\* The argument of reheap: a place of the array, or the parent of the very
\* first element, which is none.
GoodRoot == root \in Places \/ (list_len = 1 /\ root = (SizeT - 1) \div 2)

\* What holds at every place of the code.
Shape ==
  /\ pc \in {"idle", "shrink"} => Ordered
  /\ pc = "up" => /\ list_len > 0
                  /\ GoodRoot
                  /\ root \in Places => \E x \in Places : Rising(root, x)
  /\ pc = "down" => root \in Places /\ OrderedBut(root) /\ Above(root)

\* Where the size of the array is between the calls.
Tight ==
  /\ pc \in {"idle", "up"} => list_size <= list_len + 2 * Chunk

IInv == TypeOK /\ Distinct /\ Shape /\ Tight

-----------------------------------------------------------------------------
(* Lemmas *)

\* The remainder of a number that is small enough.
LEMMA SmallModulo ==
  ASSUME NEW a \in Nat, NEW n \in Nat, a < n
  PROVE  a % n = a
  OBVIOUS

\* The indices of the children, for a place of the array.
LEMMA ChildIndices ==
  ASSUME TypeOK, NEW r \in Places
  PROVE  /\ Left(r) = IF 2 * r + 1 < list_len THEN 2 * r + 1 ELSE 0
         /\ Right(r) = IF 2 * r + 2 < list_len THEN 2 * r + 2 ELSE 0
<1>1. (2 * r + 1) % SizeT = 2 * r + 1 /\ (2 * r + 2) % SizeT = 2 * r + 2
  <2>1. 2 * r + 1 \in Nat /\ 2 * r + 2 \in Nat
        /\ 2 * r + 1 < SizeT /\ 2 * r + 2 < SizeT /\ SizeT \in Nat
    BY HeapAssumption DEF TypeOK, Places
  <2>. QED BY <2>1, SmallModulo
<1>. QED BY <1>1 DEF Left, Right, TypeOK, Places

\* For the first element, reheap is called with a number that is no place of
\* the array, and finds no children there although one of the sums wraps.
LEMMA FirstHasNoParent ==
  ASSUME TypeOK, list_len = 1, NEW r, r = (SizeT - 1) \div 2
  PROVE  Left(r) = 0 /\ Right(r) = 0
<1>1. SizeT \in Nat /\ SizeT >= 2 /\ 2 * r + 1 = SizeT - 1 /\ 2 * r + 2 = SizeT
  BY HeapAssumption DEF TypeOK
<1>2. (2 * r + 1) % SizeT = SizeT - 1
  BY <1>1, SmallModulo
<1>3. (2 * r + 2) % SizeT = 0
  BY <1>1
<1>. QED BY <1>1, <1>2, <1>3 DEF Left, Right

\* The parent of a place.
LEMMA ParentIndex ==
  ASSUME TypeOK, NEW i \in 0..(MaxLen - 1)
  PROVE  /\ i = 0 => ParentOf(i) = (SizeT - 1) \div 2
         /\ i # 0 => ParentOf(i) \in 0..(i - 1) /\ IsChild(ParentOf(i), i)
<1>1. CASE i = 0
  <2>1. (0 - 1) % SizeT = SizeT - 1
    BY HeapAssumption
  <2>. QED BY <1>1, <2>1 DEF ParentOf
<1>2. CASE i # 0
  <2>1. (i - 1) % SizeT = i - 1
    BY <1>2, SmallModulo, HeapAssumption
  <2>. QED BY <1>2, <2>1 DEF ParentOf, IsChild
<1>. QED BY <1>1, <1>2

\* reheap either finds no child, or the earliest child.
LEMMA ChildOfRoot ==
  ASSUME TypeOK, GoodRoot, list_len > 0
  PROVE  \/ /\ Left(root) = 0 /\ Right(root) = 0
            /\ \A c \in Places : ~IsChild(root, c)
         \/ /\ Left(root) # 0 \/ Right(root) # 0
            /\ root \in Places
            /\ Smaller(root) \in Places
            /\ IsChild(root, Smaller(root))
            /\ \A c \in Places : IsChild(root, c) => At(Smaller(root)) <= At(c)
<1>1. CASE root \in Places
  <2>0. \A i \in Places : At(i) \in Int
    BY HeapAssumption DEF TypeOK, Places, At
  <2>1. /\ Left(root) = IF 2 * root + 1 < list_len THEN 2 * root + 1 ELSE 0
        /\ Right(root) = IF 2 * root + 2 < list_len THEN 2 * root + 2 ELSE 0
    BY <1>1, ChildIndices
  <2>2. CASE 2 * root + 2 < list_len
    <3>1. Left(root) = 2 * root + 1 /\ Right(root) = 2 * root + 2
          /\ Left(root) \in Places /\ Right(root) \in Places
          /\ Left(root) # 0 /\ Right(root) # 0
      BY <2>1, <2>2, <1>1 DEF TypeOK, Places
    <3>2. \A c \in Places : IsChild(root, c) => c = Left(root) \/ c = Right(root)
      BY <3>1 DEF IsChild
    <3>3. IsChild(root, Left(root)) /\ IsChild(root, Right(root))
      BY <3>1 DEF IsChild
    <3>4. At(Left(root)) \in Int /\ At(Right(root)) \in Int
      BY <3>1, <2>0
    <3>5. CASE Later(Left(root), Right(root))
      <4>1. Smaller(root) = Right(root) /\ At(Right(root)) <= At(Left(root))
        BY <3>5, <3>1, <3>4 DEF Smaller, Later, At
      <4>. QED BY <4>1, <3>1, <3>2, <3>3, <3>4, <1>1
    <3>6. CASE ~Later(Left(root), Right(root))
      <4>1. Smaller(root) = Left(root) /\ At(Left(root)) <= At(Right(root))
        BY <3>6, <3>1, <3>4 DEF Smaller, Later, At
      <4>. QED BY <4>1, <3>1, <3>2, <3>3, <3>4, <1>1
    <3>. QED BY <3>5, <3>6
  <2>3. CASE 2 * root + 1 < list_len /\ ~(2 * root + 2 < list_len)
    <3>1. Left(root) = 2 * root + 1 /\ Right(root) = 0
          /\ Left(root) \in Places /\ Left(root) # 0
      BY <2>1, <2>3, <1>1 DEF TypeOK, Places
    <3>2. Smaller(root) = Left(root)
      BY <3>1 DEF Smaller
    <3>3. \A c \in Places : IsChild(root, c) => c = Left(root)
      BY <3>1, <2>3, <1>1 DEF IsChild, Places, TypeOK
    <3>4. IsChild(root, Left(root)) /\ At(Left(root)) \in Int
      BY <3>1, <2>0 DEF IsChild
    <3>. QED BY <3>1, <3>2, <3>3, <3>4, <1>1
  <2>4. CASE ~(2 * root + 1 < list_len)
    <3>1. Left(root) = 0 /\ Right(root) = 0
      BY <2>1, <2>4, <1>1 DEF TypeOK, Places
    <3>2. \A c \in Places : ~IsChild(root, c)
      BY <2>4, <1>1 DEF TypeOK, Places, IsChild
    <3>. QED BY <3>1, <3>2
  <2>. QED BY <2>2, <2>3, <2>4, <1>1 DEF TypeOK, Places
<1>2. CASE list_len = 1 /\ root = (SizeT - 1) \div 2
  <2>1. Left(root) = 0 /\ Right(root) = 0
    BY <1>2, FirstHasNoParent
  <2>2. \A c \in Places : ~IsChild(root, c)
    BY <1>2 DEF Places, IsChild, TypeOK
  <2>. QED BY <2>1, <2>2
<1>. QED BY <1>1, <1>2 DEF GoodRoot

\* The dates that reheap compares are numbers.
LEMMA DatesAreNumbers ==
  ASSUME TypeOK
  PROVE  \A i \in Places : At(i) \in Int
  BY HeapAssumption DEF TypeOK, Places, At

\* What an exchange of two places does.
LEMMA Exchange ==
  ASSUME TypeOK, NEW r \in Places, NEW m \in Places, r # m,
         list' = [list EXCEPT ![r] = list[m], ![m] = list[r]],
         UNCHANGED <<list_len, list_size, date>>
  PROVE  /\ Places' = Places
         /\ At(r)' = At(m)
         /\ At(m)' = At(r)
         /\ \A i \in Places : i # r /\ i # m => At(i)' = At(i)
         /\ Distinct => Distinct'
         /\ Content' = Content
         /\ list' \in [0..(list_size - 1) -> Elem \cup {NULL}]
         /\ \A i \in Places : list'[i] \in Elem
<1>1. Places' = Places
  BY DEF Places
<1>2. /\ list'[r] = list[m] /\ list'[m] = list[r]
      /\ \A i \in Places : i # r /\ i # m => list'[i] = list[i]
  BY DEF TypeOK, Places
<1>3. Distinct => Distinct'
  <2>. SUFFICES ASSUME Distinct, NEW i \in Places, NEW j \in Places, list'[i] = list'[j]
                PROVE  i = j
    BY <1>1 DEF Distinct
  <2>. DEFINE from(k) == IF k = r THEN m ELSE IF k = m THEN r ELSE k
  <2>1. \A k \in Places : list'[k] = list[from(k)] /\ from(k) \in Places
    BY <1>2
  <2>2. from(i) = from(j)
    <3>. HIDE DEF from
    <3>1. list[from(i)] = list[from(j)] /\ from(i) \in Places /\ from(j) \in Places
      BY <2>1, Zenon
    <3>. QED BY <3>1, Zenon DEF Distinct
  <2>. QED BY <2>2
<1>4. Content' = Content
  <2>1. Content' = {list'[i] : i \in Places} /\ Content = {list[i] : i \in Places}
    BY <1>1 DEF Content, Places
  <2>. QED BY <2>1, <1>2
<1>. QED BY <1>1, <1>2, <1>3, <1>4 DEF At, TypeOK, Places

-----------------------------------------------------------------------------
(* The inductive invariant *)

\* c_heap_create: the empty heap.
LEMMA InitialState == Init => IInv
  BY HeapAssumption
  DEF Init, IInv, TypeOK, Distinct, Shape, Tight, Ordered, Places

\* An exchange of the root of reheap, r, with its earliest child, m: the
\* disorder below r moves below m; if m is rising it has risen to r.
LEMMA ExchangeOrder ==
  ASSUME TypeOK, NEW r \in Places, NEW m \in Places, r # m,
         list' = [list EXCEPT ![r] = list[m], ![m] = list[r]],
         UNCHANGED <<list_len, list_size, date>>,
         IsChild(r, m), At(m) < At(r),
         \A c \in Places : IsChild(r, c) => At(m) <= At(c)
  PROVE  /\ OrderedBut(r) /\ Above(r) => OrderedBut(m)' /\ Above(m)'
         /\ Rising(r, m) /\ (\A p \in Places : ~IsChild(p, r)) => Ordered'
         /\ Rising(r, m) => \A p \in Places : IsChild(p, r) => Rising(p, r)'
<1>1. /\ Places' = Places
      /\ At(r)' = At(m)
      /\ At(m)' = At(r)
      /\ \A i \in Places : i # r /\ i # m => At(i)' = At(i)
  <2>. HIDE DEF TypeOK
  <2>1. TypeOK /\ UNCHANGED <<list_len, list_size, date>>
    OBVIOUS
  <2>2. list' = [list EXCEPT ![r] = list[m], ![m] = list[r]]
    OBVIOUS
  <2>. QED BY ONLY <2>1, <2>2, r \in Places, m \in Places, r # m, Exchange
<1>2. \A i \in Places : At(i) \in Int
  BY DatesAreNumbers
<1>3. \A p, c \in Places : IsChild(p, c) => p # c
  BY DEF IsChild, Places, TypeOK
<1>4. \A p, q, c \in Places : IsChild(p, c) /\ IsChild(q, c) => p = q
  BY DEF IsChild, Places, TypeOK
<1>5. \A p, c \in Places : IsChild(p, c) => ~IsChild(c, p)
  BY DEF IsChild, Places, TypeOK
<1>. DEFINE B(i) == IF i = r THEN At(m) ELSE IF i = m THEN At(r) ELSE At(i)
<1>6. \A i \in Places : At(i)' = B(i)
  BY <1>1
<1>7. \A p, c \in Places : IsChild(p, c)' <=> IsChild(p, c)
  BY DEF IsChild
<1>8. \A i \in Places : B(i) \in Int
  BY <1>2
<1>9. \A c \in Places : IsChild(r, c) => B(r) <= B(c)
  BY <1>2, <1>3
<1>10. B(r) = At(m) /\ B(m) = At(r) /\ \A i \in Places : i # r /\ i # m => B(i) = At(i)
  OBVIOUS
<1>. HIDE DEF B
<1>11. ASSUME OrderedBut(r), Above(r)
       PROVE  OrderedBut(m)' /\ Above(m)'
  <2>1. \A p \in Places : IsChild(p, r) => B(p) <= B(r)
    BY <1>3, <1>5, <1>10, <1>11 DEF Above
  <2>2. OrderedBut(m)'
    <3>. SUFFICES ASSUME NEW p \in Places, NEW c \in Places, IsChild(p, c), p # m
                  PROVE  B(p) <= B(c)
      BY <1>1, <1>6, <1>7 DEF OrderedBut
    <3>. QED BY <2>1, <1>3, <1>4, <1>9, <1>10, <1>11 DEF OrderedBut
  <2>3. Above(m)'
    <3>. SUFFICES ASSUME NEW p \in Places, NEW c \in Places, IsChild(p, m), IsChild(m, c)
                  PROVE  B(p) <= B(c)
      BY <1>1, <1>6, <1>7 DEF Above
    <3>1. p = r /\ c # r /\ c # m
      BY <1>3, <1>4, <1>5
    <3>2. At(m) <= At(c)
      BY <1>11 DEF OrderedBut
    <3>. QED BY <3>1, <3>2, <1>10
  <2>. QED BY <2>2, <2>3
<1>12. ASSUME Rising(r, m)
       PROVE  \A p, c \in Places : IsChild(p, c) /\ c # r => B(p) <= B(c)
  <2>. SUFFICES ASSUME NEW p \in Places, NEW c \in Places, IsChild(p, c), c # r
                PROVE  B(p) <= B(c)
    OBVIOUS
  <2>1. CASE p = r
    BY <2>1, <1>9
  <2>2. CASE p = m
    BY <2>2, <1>3, <1>10, <1>12 DEF Rising
  <2>3. CASE p # r /\ p # m
    BY <2>3, <1>4, <1>10, <1>12 DEF Rising
  <2>. QED BY <2>1, <2>2, <2>3
<1>13. ASSUME Rising(r, m), \A p \in Places : ~IsChild(p, r)
       PROVE  Ordered'
  <2>. SUFFICES ASSUME NEW p \in Places, NEW c \in Places, IsChild(p, c)
                PROVE  B(p) <= B(c)
    BY <1>1, <1>6, <1>7 DEF Ordered
  <2>. QED BY <1>12, <1>13
<1>14. ASSUME Rising(r, m), NEW p \in Places, IsChild(p, r)
       PROVE  Rising(p, r)'
  <2>1. p # r /\ p # m /\ B(p) = At(p) /\ At(p) <= At(r)
    BY <1>3, <1>5, <1>10, <1>14 DEF Rising
  <2>2. \A g \in Places : IsChild(r, g) => B(p) <= B(g)
    <3>. SUFFICES ASSUME NEW g \in Places, IsChild(r, g), g # m
                  PROVE  At(p) <= B(g)
      BY <2>1, <1>10
    <3>1. At(r) <= At(g) /\ B(g) = At(g)
      BY <1>3, <1>10, <1>14 DEF Rising
    <3>. QED BY <3>1, <2>1, <1>2
  <2>. QED BY <1>1, <1>6, <1>7, <1>12, <1>14, <2>2 DEF Rising
<1>. QED BY <1>11, <1>13, <1>14

\* A call of reheap that exchanges two places.
LEMMA SwapStep ==
  ASSUME IInv, reheap_swap
  PROVE  IInv' /\ Content' = Content
<1>0. TypeOK /\ Distinct /\ GoodRoot /\ list_len > 0
  BY DEF IInv, Shape, reheap_swap, GoodRoot, Places, TypeOK
<1>1. /\ root \in Places /\ Smaller(root) \in Places /\ IsChild(root, Smaller(root))
      /\ \A c \in Places : IsChild(root, c) => At(Smaller(root)) <= At(c)
  BY <1>0, ChildOfRoot DEF reheap_swap
<1>2. PICK r \in Places, m \in Places : r = root /\ m = Smaller(root)
  BY <1>1
<1>3. /\ r # m /\ IsChild(r, m)
      /\ \A c \in Places : IsChild(r, c) => At(m) <= At(c)
      /\ list' = [list EXCEPT ![r] = list[m], ![m] = list[r]]
      /\ UNCHANGED <<list_len, list_size, date>>
  <2>1. r # m
    BY <1>0, <1>1, <1>2 DEF IsChild, Places, TypeOK
  <2>. QED BY <2>1, <1>1, <1>2 DEF reheap_swap
<1>4. At(m) < At(r) /\ \A i \in Places : At(i) \in Int
  BY <1>0, <1>2, DatesAreNumbers DEF reheap_swap, Later, At
<1>5. /\ Places' = Places
      /\ Distinct'
      /\ Content' = Content
      /\ list' \in [0..(list_size - 1) -> Elem \cup {NULL}]
      /\ \A i \in Places : list'[i] \in Elem
  BY <1>0, <1>3, Exchange
<1>6. /\ OrderedBut(r) /\ Above(r) => OrderedBut(m)' /\ Above(m)'
      /\ Rising(r, m) /\ (\A p \in Places : ~IsChild(p, r)) => Ordered'
      /\ Rising(r, m) => \A p \in Places : IsChild(p, r) => Rising(p, r)'
  BY <1>0, <1>3, <1>4, ExchangeOrder
<1>7. Tight'
  BY DEF IInv, Tight, reheap_swap, AfterReheap
<1>8. CASE pc = "down"
  <2>1. root' = m /\ pc' = "down"
    BY <1>2, <1>8 DEF reheap_swap
  <2>2. TypeOK'
    BY <1>0, <1>5, <2>1 DEF TypeOK, Places, reheap_swap
  <2>3. OrderedBut(m)' /\ Above(m)'
    BY <1>2, <1>6, <1>8 DEF IInv, Shape
  <2>4. Shape'
    BY <1>5, <2>1, <2>3 DEF Shape, OrderedBut, Above
  <2>. QED BY <1>5, <1>7, <2>2, <2>4 DEF IInv
<1>9. CASE pc = "up"
  <2>1. Rising(r, m)
    <3>1. PICK x \in Places : Rising(r, x)
      BY <1>1, <1>2, <1>9 DEF IInv, Shape
    <3>2. x = m
      BY <3>1, <1>3, <1>4 DEF Rising
    <3>. QED BY <3>1, <3>2
  <2>2. CASE root = 0
    <3>1. root' = 0 /\ pc' = "idle"
      BY <1>9, <2>2 DEF reheap_swap, AfterReheap
    <3>2. \A p \in Places : ~IsChild(p, r)
      BY <1>0, <1>2, <2>2 DEF IsChild, Places, TypeOK
    <3>3. TypeOK'
      BY <1>0, <1>5, <3>1 DEF TypeOK, Places, reheap_swap
    <3>4. Shape'
      BY <1>6, <2>1, <3>1, <3>2 DEF Shape
    <3>. QED BY <1>5, <1>7, <3>3, <3>4 DEF IInv
  <2>3. CASE root # 0
    <3>1. PICK p \in Places : p = ParentOf(root) /\ IsChild(p, r)
      <4>1. root \in 0..(MaxLen - 1)
        BY <1>0, <1>1, HeapAssumption DEF Places, TypeOK
      <4>2. ParentOf(root) \in 0..(root - 1) /\ IsChild(ParentOf(root), root)
        BY <4>1, <1>0, <2>3, ParentIndex
      <4>3. ParentOf(root) \in Places
        BY <4>1, <4>2, <1>0, <1>1 DEF Places, TypeOK
      <4>. QED BY <4>2, <4>3, <1>2
    <3>2. root' = p /\ pc' = "up"
      BY <3>1, <1>9, <2>3 DEF reheap_swap
    <3>3. TypeOK'
      BY <1>0, <1>5, <3>2 DEF TypeOK, Places, reheap_swap
    <3>4. Rising(p, r)'
      BY <1>6, <2>1, <3>1
    <3>5. list_len' > 0 /\ GoodRoot'
      BY <1>0, <1>3, <1>5, <3>2 DEF GoodRoot
    <3>6. (\E x \in Places : Rising(root, x))'
      BY <3>2, <3>4, <1>5 DEF Rising
    <3>7. Shape'
      BY <3>2, <3>5, <3>6 DEF Shape
    <3>. QED BY <1>5, <1>7, <3>3, <3>7 DEF IInv
  <2>. QED BY <2>2, <2>3
<1>. QED BY <1>5, <1>8, <1>9 DEF reheap_swap

\* A call of reheap that finds nothing to do, and returns.
LEMMA ReturnStep ==
  ASSUME IInv, reheap_return
  PROVE  IInv' /\ Content' = Content
<1>0. TypeOK /\ GoodRoot /\ list_len > 0
  BY DEF IInv, Shape, reheap_return, GoodRoot, Places, TypeOK
<1>1. Ordered
  <2>1. \A i \in Places : At(i) \in Int
    BY <1>0, DatesAreNumbers
  <2>2. \A c \in Places : IsChild(root, c) => At(root) <= At(c)
    <3>1. CASE \A c \in Places : ~IsChild(root, c)
      BY <3>1
    <3>2. CASE ~(\A c \in Places : ~IsChild(root, c))
      <4>1. /\ root \in Places /\ Smaller(root) \in Places
            /\ \A c \in Places : IsChild(root, c) => At(Smaller(root)) <= At(c)
            /\ Left(root) # 0 \/ Right(root) # 0
        BY <1>0, <3>2, ChildOfRoot
      <4>2. At(root) <= At(Smaller(root))
        BY <4>1, <2>1 DEF reheap_return, Later, At
      <4>. QED BY <4>1, <4>2, <2>1
    <3>. QED BY <3>1, <3>2
  <2>3. CASE pc = "down"
    BY <2>2, <2>3 DEF OrderedBut, Ordered, IInv, Shape
  <2>4. CASE pc = "up" /\ root \in Places
    <3>1. PICK x \in Places : Rising(root, x)
      BY <2>4 DEF IInv, Shape
    <3>2. \A p \in Places : IsChild(p, x) => p = root
      BY <3>1, <2>4, <1>0 DEF Rising, IsChild, Places, TypeOK
    <3>. QED BY <2>2, <3>1, <3>2 DEF Ordered, Rising
  <2>5. CASE pc = "up" /\ root \notin Places
    <3>1. list_len = 1
      BY <2>5, <1>0 DEF GoodRoot
    <3>. QED BY <3>1 DEF Ordered, IsChild, Places
  <2>. QED BY <2>3, <2>4, <2>5 DEF reheap_return
<1>2. Places' = Places /\ Ordered' /\ Distinct' /\ Content' = Content
  BY <1>1 DEF reheap_return, Places, Ordered, At, Distinct, IInv, Content
<1>3. TypeOK'
  BY <1>0 DEF TypeOK, reheap_return, AfterReheap
<1>. QED BY <1>2, <1>3 DEF IInv, Shape, Tight, reheap_return, AfterReheap

\* A new leaf.
LEMMA InsertStep ==
  ASSUME IInv, NEW e \in Elem, NEW d \in Date, c_heap_insert(e, d)
  PROVE  IInv' /\ Content' = Content \cup {e}
<1>0. TypeOK /\ Distinct /\ Ordered /\ list_size <= list_len + 2 * Chunk
  BY DEF IInv, Shape, Tight, c_heap_insert
<1>1. /\ list_len \in Nat /\ list_len < MaxLen /\ list_len' = list_len + 1
      /\ \A i \in Places : list[i] # e
      /\ Places' = Places \cup {list_len} /\ list_len \notin Places
  BY <1>0 DEF TypeOK, c_heap_insert, Places
<1>2. /\ list' \in [0..(list_size' - 1) -> Elem \cup {NULL}]
      /\ list'[list_len] = e
      /\ \A i \in Places : list'[i] = list[i]
      /\ list_size' \in Nat /\ list_len' <= list_size'
      /\ list_size' <= list_len' + 2 * Chunk
  <2>1. Grown \in [0..(list_size' - 1) -> Elem \cup {NULL}]
    BY <1>0, HeapAssumption DEF TypeOK, Grown, Resized, c_heap_insert
  <2>2. \A i \in Places : Grown[i] = list[i]
    BY <1>0, HeapAssumption DEF TypeOK, Grown, Resized, Places
  <2>3. list_len \in 0..(list_size' - 1)
    BY <1>0, HeapAssumption DEF TypeOK, c_heap_insert
  <2>4. list' = [Grown EXCEPT ![list_len] = e]
    BY DEF c_heap_insert
  <2>5. /\ list_size' \in Nat /\ list_len' <= list_size'
        /\ list_size' <= list_len' + 2 * Chunk
    BY <1>0, HeapAssumption DEF TypeOK, c_heap_insert
  <2>6. /\ list' \in [0..(list_size' - 1) -> Elem \cup {NULL}]
        /\ list'[list_len] = e
    BY <2>1, <2>3, <2>4
  <2>7. \A i \in Places : list'[i] = list[i]
    BY <2>1, <2>2, <2>4, <1>1
  <2>. QED BY <2>5, <2>6, <2>7
<1>3. \A i \in Places : At(i)' = At(i) /\ At(i) \in Int
  <2>1. \A i \in Places : list[i] \in Elem /\ list[i] # e
    BY <1>0, <1>1 DEF TypeOK, Places
  <2>2. \A f \in Elem : f # e => date'[f] = date[f]
    BY <1>0 DEF TypeOK, c_heap_insert
  <2>3. \A i \in Places : At(i) \in Int
    BY <1>0, DatesAreNumbers
  <2>4. ASSUME NEW i \in Places PROVE At(i)' = At(i)
    <3>1. list'[i] = list[i]
      BY <1>2
    <3>2. date'[list[i]] = date[list[i]]
      BY <2>1, <2>2
    <3>. QED BY <3>1, <3>2 DEF At
  <2>. QED BY <2>3, <2>4
<1>4. Distinct'
  <2>1. \A i \in Places' : i = list_len \/ (i \in Places /\ list'[i] = list[i] /\ list[i] # e)
    BY <1>1, <1>2
  <2>2. \A i, j \in Places : list[i] = list[j] => i = j
    BY <1>0 DEF Distinct
  <2>. QED BY <1>2, <2>1, <2>2 DEF Distinct
<1>5. Content' = Content \cup {e}
  <2>1. Content = {list[i] : i \in Places} /\ Content' = {list'[i] : i \in Places'}
    BY DEF Content, Places
  <2>. QED BY <2>1, <1>1, <1>2
<1>6. PICK r : r = ParentOf(list_len)
  OBVIOUS
<1>7. /\ list_len = 0 => r = (SizeT - 1) \div 2
      /\ list_len # 0 => r \in Places /\ IsChild(r, list_len)
  BY <1>0, <1>1, <1>6, ParentIndex, HeapAssumption DEF Places, TypeOK
<1>8. \A p, c \in Places' : IsChild(p, c) =>
        p \in Places /\ (c \in Places \/ (c = list_len /\ p = r /\ list_len # 0))
  BY <1>1, <1>7, <1>0 DEF Places, IsChild, TypeOK
<1>9. PICK x : x = list_len
  OBVIOUS
<1>10. root' = r /\ pc' = "up"
  BY <1>6 DEF c_heap_insert
<1>11. TypeOK'
  <2>1. date' \in [Elem -> Date]
    BY <1>0 DEF TypeOK, c_heap_insert
  <2>2. \A i \in Places' : list'[i] \in Elem
    BY <1>0, <1>1, <1>2 DEF TypeOK, Places
  <2>3. r \in Nat
    BY <1>0, <1>7, HeapAssumption DEF TypeOK, Places
  <2>4. list_len' \in 0..MaxLen
    BY <1>0, <1>1, HeapAssumption DEF TypeOK
  <2>. QED BY <1>2, <1>10, <2>1, <2>2, <2>3, <2>4 DEF TypeOK, Places
<1>12. ASSUME list_len # 0
       PROVE  Rising(r, x)'
  <2>1. IsChild(r, x)'
    BY <1>7, <1>9, <1>12 DEF IsChild
  <2>2. \A p, c \in Places' : IsChild(p, c)' /\ c # x => At(p)' <= At(c)'
    <3>. SUFFICES ASSUME NEW p \in Places', NEW c \in Places', IsChild(p, c), c # x
                  PROVE  At(p)' <= At(c)'
      BY DEF IsChild
    <3>1. p \in Places /\ c \in Places
      BY <1>8, <1>9
    <3>2. At(p) <= At(c)
      BY <1>0, <3>1 DEF Ordered
    <3>. QED BY <3>1, <3>2, <1>3
  <2>3. \A g \in Places' : ~IsChild(x, g)
    BY <1>0, <1>1, <1>9 DEF Places, IsChild, TypeOK
  <2>4. \A g \in Places' : IsChild(x, g)' => At(r)' <= At(g)'
    BY <2>3 DEF IsChild
  <2>. QED BY <2>1, <2>2, <2>4 DEF Rising
<1>13. GoodRoot' /\ list_len' > 0
  BY <1>1, <1>7, <1>10 DEF GoodRoot
<1>14. list_len = 0 => r \notin Places'
  BY <1>0, <1>1, <1>7, HeapAssumption DEF Places
<1>15. (root \in Places => \E y \in Places : Rising(root, y))'
  <2>1. CASE list_len = 0
    BY <2>1, <1>10, <1>14
  <2>2. CASE list_len # 0
    BY <2>2, <1>1, <1>9, <1>10, <1>12 DEF Rising
  <2>. QED BY <2>1, <2>2
<1>16. Shape'
  BY <1>10, <1>13, <1>15 DEF Shape
<1>17. Tight'
  BY <1>2 DEF Tight
<1>. QED BY <1>4, <1>5, <1>11, <1>16, <1>17 DEF IInv

\* The root is taken out, and the last leaf takes its place.
LEMMA GetRootStep ==
  ASSUME IInv, c_heap_get_root
  PROVE  IInv' /\ Content' = Content \ {list[0]} /\ list[0] \in Content
<1>0. TypeOK /\ Distinct /\ Ordered /\ list_len > 0
  BY DEF IInv, Shape, c_heap_get_root
<1>1. /\ list_len \in Nat /\ list_len' = list_len - 1 /\ list_size' = list_size
      /\ Places' = Places \ {list_len - 1} /\ list_len - 1 \in Places /\ 0 \in Places
      /\ date' = date
  BY <1>0 DEF TypeOK, c_heap_get_root, Places
<1>2. /\ list' \in [0..(list_size - 1) -> Elem \cup {NULL}]
      /\ list_len > 1 => list'[0] = list[list_len - 1]
      /\ \A i \in Places' : i # 0 => list'[i] = list[i]
  BY <1>0, <1>1 DEF TypeOK, c_heap_get_root, Places
<1>3. list_len = 1 => Places' = {}
  BY <1>1 DEF Places
<1>4. list_len > 1 => 0 \in Places'
  BY <1>1
<1>. DEFINE from(i) == IF i = 0 THEN list_len - 1 ELSE i
<1>5. \A i \in Places' : list'[i] = list[from(i)] /\ from(i) \in Places
  <2>1. CASE list_len = 1
    BY <2>1, <1>3
  <2>2. CASE list_len # 1
    <3>1. list_len > 1
      BY <2>2, <1>0, <1>1
    <3>. QED BY <3>1, <1>1, <1>2
  <2>. QED BY <2>1, <2>2
<1>6. \A i, j \in Places' : from(i) = from(j) => i = j
  BY <1>1, <1>3
<1>7. Distinct'
  <2>. SUFFICES ASSUME NEW i \in Places', NEW j \in Places', list'[i] = list'[j]
                PROVE  i = j
    BY DEF Distinct
  <2>. HIDE DEF from
  <2>1. list[from(i)] = list[from(j)] /\ from(i) \in Places /\ from(j) \in Places
    BY <1>5, Zenon
  <2>2. from(i) = from(j)
    BY <2>1, <1>0, Zenon DEF Distinct
  <2>. QED BY <2>2, <1>6
<1>8. Content = {list[i] : i \in Places} /\ Content' = {list'[i] : i \in Places'}
  BY DEF Content, Places
<1>9. Content' = Content \ {list[0]} /\ list[0] \in Content
  <2>1. \A i \in Places' : list'[i] \in Content /\ list'[i] # list[0]
    <3>. SUFFICES ASSUME NEW i \in Places'
                  PROVE  list'[i] \in Content /\ list'[i] # list[0]
      OBVIOUS
    <3>1. from(i) # 0
      BY <1>1, <1>3
    <3>2. list[from(i)] # list[0]
      <4>. HIDE DEF from
      <4>. QED BY <3>1, <1>0, <1>1, <1>5 DEF Distinct
    <3>. HIDE DEF from
    <3>. QED BY <3>2, <1>5, <1>8
  <2>2. \A i \in Places : i # 0 => \E j \in Places' : list'[j] = list[i]
    <3>. SUFFICES ASSUME NEW i \in Places, i # 0
                  PROVE  \E j \in Places' : list'[j] = list[i]
      OBVIOUS
    <3>1. CASE i = list_len - 1
      <4>1. list_len > 1
        BY <3>1, <1>1 DEF Places
      <4>. QED BY <4>1, <3>1, <1>2, <1>4
    <3>2. CASE i # list_len - 1
      BY <3>2, <1>1, <1>2
    <3>. QED BY <3>1, <3>2
  <2>3. list[0] \in Content
    BY <1>1, <1>8
  <2>4. \A f \in Content : f # list[0] => f \in Content'
    BY <2>2, <1>8
  <2>. QED BY <2>1, <2>3, <2>4, <1>8
<1>10. \A i \in Places' : i # 0 => At(i)' = At(i) /\ i \in Places
  BY <1>1, <1>2 DEF At
<1>11. \A p, c \in Places' : IsChild(p, c) => c # 0
  BY <1>0, <1>1 DEF IsChild, Places, TypeOK
<1>12. OrderedBut(0)' /\ Above(0)'
  <2>1. ASSUME NEW p \in Places', NEW c \in Places', IsChild(p, c), p # 0
        PROVE  At(p)' <= At(c)'
    <3>1. At(p) <= At(c)
      BY <1>0, <1>10, <1>11, <2>1 DEF Ordered
    <3>. QED BY <3>1, <1>10, <1>11, <2>1
  <2>2. OrderedBut(0)'
    BY <2>1 DEF OrderedBut, IsChild
  <2>3. \A p \in Places' : ~IsChild(p, 0)
    BY <1>0, <1>1 DEF IsChild, Places, TypeOK
  <2>4. Above(0)'
    BY <2>3 DEF Above, IsChild
  <2>. QED BY <2>2, <2>4
<1>13. root' = 0 /\ pc' = IF list_len = 1 THEN "shrink" ELSE "down"
  BY DEF c_heap_get_root
<1>14. TypeOK'
  <2>1. \A i \in Places' : list'[i] \in Elem
    <3>1. \A i \in Places : list[i] \in Elem
      BY <1>0 DEF TypeOK, Places
    <3>. HIDE DEF from
    <3>. QED BY <3>1, <1>5
  <2>2. list_len' \in 0..MaxLen /\ list_len' <= list_size'
    BY <1>0, <1>1, HeapAssumption DEF TypeOK
  <2>. QED BY <1>0, <1>1, <1>2, <1>13, <2>1, <2>2 DEF TypeOK, Places
<1>15. Shape'
  <2>1. CASE list_len = 1
    <3>1. Ordered'
      BY <2>1, <1>3 DEF Ordered
    <3>. QED BY <3>1, <2>1, <1>13 DEF Shape
  <2>2. CASE list_len # 1
    <3>1. 0 \in Places'
      BY <2>2, <1>0, <1>1, <1>4
    <3>2. pc' = "down" /\ root' = 0
      BY <2>2, <1>13
    <3>3. (root \in Places /\ OrderedBut(root) /\ Above(root))'
      BY <3>1, <3>2, <1>12 DEF OrderedBut, Above
    <3>. QED BY <3>2, <3>3 DEF Shape
  <2>. QED BY <2>1, <2>2
<1>16. Tight'
  BY <1>13 DEF Tight
<1>. QED BY <1>7, <1>9, <1>14, <1>15, <1>16 DEF IInv

\* Memory is given back, and no element is in what is given back.
LEMMA ShrinkStep ==
  ASSUME IInv, free_some_memory
  PROVE  IInv' /\ Content' = Content
<1>0. TypeOK /\ Distinct /\ Ordered
  BY DEF IInv, Shape, free_some_memory
<1>1. /\ list_len' = list_len /\ date' = date /\ root' = root
      /\ pc' = "idle" /\ Places' = Places
  BY DEF free_some_memory, Places
<1>2. /\ list' \in [0..(list_size' - 1) -> Elem \cup {NULL}]
      /\ \A i \in Places : list'[i] = list[i]
      /\ list_size' \in Nat /\ list_len <= list_size'
      /\ list_size' <= list_len + 2 * Chunk
  <2>1. CASE list_len + 2 * Chunk < list_size
    <3>1. list' = Resized(list_len + Chunk) /\ list_size' = list_len + Chunk
      BY <2>1, <1>0, HeapAssumption DEF free_some_memory, TypeOK
    <3>. QED BY <2>1, <3>1, <1>0, HeapAssumption DEF Resized, TypeOK, Places
  <2>2. CASE list_len + 2 * Chunk >= list_size
    BY <2>2, <1>0, HeapAssumption DEF free_some_memory, TypeOK, Places
  <2>. QED BY <2>1, <2>2 DEF free_some_memory
<1>3. Distinct' /\ Ordered'
  BY <1>0, <1>1, <1>2 DEF Distinct, Ordered, At
<1>4. Content' = Content
  <2>1. Content = {list[i] : i \in Places} /\ Content' = {list'[i] : i \in Places'}
    BY DEF Content, Places
  <2>. QED BY <2>1, <1>1, <1>2
<1>5. TypeOK'
  BY <1>0, <1>1, <1>2 DEF TypeOK, Places
<1>. QED BY <1>1, <1>2, <1>3, <1>4, <1>5 DEF IInv, Shape, Tight

\* Nothing that happens outside the heap's own steps concerns it.
LEMMA StutterStep ==
  ASSUME IInv, UNCHANGED vars
  PROVE  IInv' /\ Content' = Content
  BY DEF vars, IInv, TypeOK, Distinct, Shape, Tight, Ordered, OrderedBut, Above,
         Rising, GoodRoot, Places, At, IsChild, Content

\* The inductive invariant holds in every reachable state.
THEOREM Invariance == Spec => []IInv
<1>1. ASSUME IInv, [Next]_vars
      PROVE  IInv'
  <2>1. CASE Next
    BY <1>1, <2>1, InsertStep, ReturnStep, SwapStep, GetRootStep, ShrinkStep DEF Next
  <2>2. CASE UNCHANGED vars
    BY <1>1, <2>2, StutterStep
  <2>. QED BY <1>1, <2>1, <2>2
<1>. QED BY <1>1, InitialState, PTL DEF Spec

\* TypeOK: the indices stay within what is allocated, whatever the width of
\* size_t, also where the parent of the first element is computed as (0 - 1)/2.
THEOREM TypeCorrect == Spec => []TypeOK
  BY Invariance, PTL DEF IInv

\* MemoryIsReturned: what "free some memory" leaves allocated is enough for
\* the elements and not more than two chunks too much.
THEOREM MemoryBounded == Spec => []MemoryIsReturned
<1>1. IInv => MemoryIsReturned
  BY DEF IInv, Tight, MemoryIsReturned
<1>. QED BY <1>1, Invariance, PTL

-----------------------------------------------------------------------------
(* The heap implements the set *)

\* Every non-empty set of natural numbers has a least one.
LEMMA LeastNumber ==
  ASSUME NEW S \in SUBSET Nat, S # {}
  PROVE  \E s \in S : \A t \in S : s <= t
<1>. DEFINE Less == OpToRel(<, Nat)
<1>1. IsWellFoundedOn(Less, Nat)
  BY NatLessThanWellFounded
<1>2. PICK s \in S : \A t \in S : ~(<<t, s>> \in Less)
  <2>. HIDE DEF Less
  <2>. QED BY <1>1, WFMin
<1>3. \A t \in S : ~(t < s)
  <2>. SUFFICES ASSUME NEW t \in S, t < s PROVE FALSE
    OBVIOUS
  <2>1. <<t, s>> \in {ss \in Nat \X Nat : ss[1] < ss[2]}
    OBVIOUS
  <2>. QED BY <2>1, <1>2 DEF OpToRel
<1>. QED BY <1>3

\* Order between parents and children is enough: no place is earlier than
\* the root.  The first place that is would have an earlier parent.
LEMMA RootIsLeast ==
  ASSUME TypeOK, Ordered, list_len > 0
  PROVE  \A i \in Places : At(0) <= At(i)
<1>. DEFINE Bad == {i \in Places : ~(At(0) <= At(i))}
<1>. SUFFICES ASSUME Bad # {} PROVE FALSE
  OBVIOUS
<1>0. \A i \in Places : At(i) \in Int
  BY DatesAreNumbers
<1>1. Bad \in SUBSET Nat
  BY DEF Places, TypeOK
<1>2. PICK i \in Bad : \A j \in Bad : i <= j
  <2>. HIDE DEF Bad
  <2>. QED BY <1>1, LeastNumber
<1>3. i \in Places /\ ~(At(0) <= At(i)) /\ 0 \in Places
  BY DEF Places, TypeOK
<1>4. i # 0 /\ i \in Nat
  BY <1>0, <1>1, <1>3
<1>5. PICK p \in Places : p < i /\ IsChild(p, i)
  <2>1. i \in 0..(MaxLen - 1)
    BY <1>3, HeapAssumption DEF Places, TypeOK
  <2>2. ParentOf(i) \in 0..(i - 1) /\ IsChild(ParentOf(i), i)
    BY <2>1, <1>4, ParentIndex
  <2>3. ParentOf(i) \in Places /\ ParentOf(i) < i
    BY <2>1, <2>2, <1>3 DEF Places, TypeOK
  <2>. QED BY <2>2, <2>3
<1>6. At(p) <= At(i)
  BY <1>3, <1>5 DEF Ordered
<1>7. p \notin Bad
  BY <1>1, <1>2, <1>5 DEF Places, TypeOK
<1>. QED BY <1>0, <1>3, <1>5, <1>6, <1>7

\* One step of the heap is one step of the set or none: an insertion when the
\* leaf is added, a removal of an earliest element when the root is taken.
LEMMA SetStep ==
  ASSUME IInv, [Next]_vars
  PROVE  [Abstract!SetNext]_(Abstract!set)
<1>0. TypeOK
  BY DEF IInv
<1>1. ASSUME NEW e \in Elem, NEW d \in Date, c_heap_insert(e, d)
      PROVE  Abstract!Insert(e, d)
  <2>1. Content' = Content \cup {e}
    BY <1>1, InsertStep
  <2>2. e \notin Content
    BY <1>1 DEF c_heap_insert, Content
  <2>. QED BY <1>1, <2>1, <2>2 DEF Abstract!Insert, c_heap_insert
<1>2. ASSUME c_heap_get_root
      PROVE  \E e \in Elem : Abstract!TakeEarliest(e)
  <2>1. Content' = Content \ {list[0]} /\ list[0] \in Content
    BY <1>2, GetRootStep
  <2>2. Ordered /\ list_len > 0
    BY <1>2 DEF c_heap_get_root, IInv, Shape
  <2>3. \A i \in Places : At(0) <= At(i)
    BY <1>0, <2>2, RootIsLeast
  <2>4. \A f \in Content : date[list[0]] <= date[f]
    BY <2>3 DEF At, Content, Places
  <2>5. list[0] \in Elem
    BY <1>0, <2>2 DEF TypeOK
  <2>. QED BY <1>2, <2>1, <2>4, <2>5 DEF Abstract!TakeEarliest, c_heap_get_root
<1>3. ASSUME reheap_return \/ reheap_swap \/ free_some_memory
      PROVE  UNCHANGED Abstract!set
  <2>1. Content' = Content
    BY <1>3, ReturnStep, SwapStep, ShrinkStep
  <2>. QED BY <1>3, <2>1 DEF Abstract!set, reheap_return, reheap_swap, free_some_memory
<1>4. ASSUME UNCHANGED vars
      PROVE  UNCHANGED Abstract!set
  BY <1>4, StutterStep DEF vars, Abstract!set
<1>. QED BY <1>1, <1>2, <1>3, <1>4 DEF Next, Abstract!SetNext

\* The heap implements the set of elements with dates from which only an
\* earliest one can be taken: for any number of elements, any dates and any
\* order of the calls of c_heap_insert and c_heap_get_root.
THEOREM Refinement == Spec => ImplementsSet
<1>1. Init => Abstract!SetInit
  BY DEF Init, Abstract!SetInit, Content
<1>. QED BY <1>1, Invariance, SetStep, PTL DEF Spec, ImplementsSet, Abstract!SetSpec

=============================================================================
