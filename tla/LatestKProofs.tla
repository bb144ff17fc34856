---------------------------- MODULE LatestKProofs ----------------------------
(***************************************************************************)
(* Proofs about take_latest_revset, for every N, every set of timestamps *)
(* and every bound on `count`: it never panics (NeverPanics), and what it *)
(* returns is the `count` latest candidates in descending position        *)
(* (LatestIsTopK).                                                         *)
(***************************************************************************)
EXTENDS LatestK, FiniteSetTheorems, SequenceTheorems, TLAPS

\* How many candidates the loop has consumed, and which.
Consumed == Len(candidates) - Len(cands)
Seen == {candidates[i] : i \in 1 .. Consumed}

\* The positions of the heap's items.
HeapPos == {it.pos : it \in heap}

\* candidate_iter is what is left of the candidate vector.
Suffix ==
  /\ Len(cands) <= Len(candidates)
  /\ \A i \in 1 .. Len(cands) : cands[i] = candidates[i + Consumed]

(***************************************************************************)
(* The heap during and after the scan: the items of `count` (or all, if   *)
(* fewer) of the candidates seen so far, and every seen candidate left    *)
(* out is earlier than every item kept.                                   *)
(***************************************************************************)
HeapOK ==
  /\ \A it \in heap : it = Item(it.pos)
  /\ HeapPos \subseteq Seen
  /\ IsFiniteSet(heap)
  /\ Cardinality(heap) = MinOf(count, Consumed)
  /\ \A p \in Seen \ HeapPos : \A it \in heap : ItemLess(Item(p), it)

(***************************************************************************)
(* The inductive invariant.  NeverPanics is not inductive by itself: the *)
(* unwrap of peek_mut() is safe only because the fill left `count` items  *)
(* whenever candidates remain, and the assertion only because the scan    *)
(* swaps one item for one.  LatestIsTopK needs HeapOK at the end of the   *)
(* scan, which each iteration keeps.                                      *)
(***************************************************************************)
IInv ==
  /\ TypeOK
  /\ Suffix
  /\ phase = "start" => cands = candidates /\ heap = {}
  /\ phase = "scan" => count >= 1 /\ (cands # <<>> => Consumed >= count)
  /\ phase \in {"scan", "done"} /\ count >= 1 => HeapOK
  /\ phase = "done" =>
       \/ count = 0 /\ result = <<>>
       \/ /\ count >= 1 /\ cands = <<>>
          /\ result \in DescSeqs /\ Elements(result) = HeapPos
  /\ NeverPanics

-----------------------------------------------------------------------------
(***************************************************************************)
(* The derived Ord of Item is a strict total order on the items of        *)
(* distinct positions: the heap's peek and replace rest on it.            *)
(***************************************************************************)
ItemRecs == [ts : Nat, pos : Nat]

LEMMA ItemOrder ==
  ASSUME NEW a \in ItemRecs, NEW b \in ItemRecs, NEW c \in ItemRecs
  PROVE  /\ ~ItemLess(a, a)
         /\ ItemLess(a, b) => ~ItemLess(b, a)
         /\ a.pos # b.pos => ItemLess(a, b) \/ ItemLess(b, a)
         /\ ItemLess(a, b) /\ ItemLess(b, c) => ItemLess(a, c)
BY DEF ItemRecs, ItemLess

\* The item of a position is a record of naturals.
LEMMA ItemType ==
  ASSUME timestamp \in [Positions -> Times], NEW p \in Positions
  PROVE  Item(p) \in ItemRecs /\ Item(p).pos = p
<1>1. p \in Nat /\ timestamp[p] \in Nat
  <2>1. p \in Nat
    BY NAssumption DEF Positions
  <2>2. timestamp[p] \in Times
    OBVIOUS
  <2>3. Times \subseteq Nat
    BY LatestAssumption
  <2>4. QED
    BY <2>1, <2>2, <2>3
<1>2. QED
  BY <1>1 DEF Item, ItemRecs

\* Every non-empty set of naturals has a least element.
LEMMA NatHasMin ==
  ASSUME NEW T \in SUBSET Nat, T # {}
  PROVE  \E m \in T : \A k \in T : m <= k
<1>1. PICK x \in T : \A y \in T : ~ (<<y, x>> \in OpToRel(<, Nat))
  BY WFMin, NatLessThanWellFounded
<1>2. \A y \in T : ~ (y < x)
  BY <1>1 DEF OpToRel
<1>3. QED
  BY <1>2

(***************************************************************************)
(* A sequence without repeats has as many elements as its length.         *)
(***************************************************************************)
LEMMA SeqCard ==
  ASSUME NEW S, NEW s \in Seq(S),
         \A i, j \in 1 .. Len(s) : s[i] = s[j] => i = j
  PROVE  IsFiniteSet(Elements(s)) /\ Cardinality(Elements(s)) = Len(s)
<1> DEFINE k == Len(s)
           T == Elements(s)
<1>1. k \in Nat /\ IsFiniteSet(1 .. k) /\ Cardinality(1 .. k) = k
  BY FS_Interval
<1>2. s \in Bijection(1 .. k, T)
  BY DEF Bijection, Injection, Surjection, IsInjective, Elements
<1>3. ExistsBijection(1 .. k, T)
  BY <1>2 DEF ExistsBijection
<1>4. IsFiniteSet(T) /\ Cardinality(T) = Cardinality(1 .. k)
  BY <1>1, <1>3, FS_Bijection
<1>5. QED
  BY <1>1, <1>4

\* A descending sequence lists distinct positions.
LEMMA DescFacts ==
  ASSUME NEW s \in DescSeqs
  PROVE  /\ s \in Seq(Positions) /\ IsDescending(s) /\ Len(s) <= N
         /\ \A i, j \in 1 .. Len(s) : s[i] = s[j] => i = j
         /\ IsFiniteSet(Elements(s)) /\ Cardinality(Elements(s)) = Len(s)
<1>1. s \in Seq(Positions) /\ IsDescending(s) /\ Len(s) <= N
  BY NAssumption DEF DescSeqs
<1>2. \A i, j \in 1 .. Len(s) : s[i] = s[j] => i = j
  BY <1>1, NAssumption DEF IsDescending, Positions
<1>3. IsFiniteSet(Elements(s)) /\ Cardinality(Elements(s)) = Len(s)
  BY <1>1, <1>2, SeqCard
<1>4. QED
  BY <1>1, <1>2, <1>3

(***************************************************************************)
(* A descending listing of a set without its least element, followed by   *)
(* that element, is a descending listing of the set.                      *)
(***************************************************************************)
LEMMA SortStep ==
  ASSUME NEW T \in SUBSET Positions, NEW n \in Nat, n <= N,
         NEW x \in T, \A y \in T : x <= y,
         NEW t \in DescSeqs, Elements(t) = T \ {x}, Len(t) = n - 1, n # 0
  PROVE  \E s \in DescSeqs : Elements(s) = T
<1>1. t \in Seq(Positions) /\ IsDescending(t) /\ x \in Positions
  BY DescFacts
<1> DEFINE u == Append(t, x)
<1>2. /\ u \in Seq(Positions) /\ Len(u) = n
      /\ \A i \in 1 .. n - 1 : u[i] = t[i]
      /\ u[n] = x
  BY <1>1, AppendProperties
<1> HIDE DEF u
<1>3. IsDescending(u)
  <2> SUFFICES ASSUME NEW i \in 1 .. n, NEW k \in 1 .. n, i < k PROVE u[i] > u[k]
    BY <1>2 DEF IsDescending
  <2>1. CASE k < n
    BY <1>1, <1>2, <2>1 DEF IsDescending
  <2>2. CASE k = n
    <3>1. u[i] \in T /\ u[i] # x
      BY <1>2, <2>2 DEF Elements
    <3>2. x <= u[i]
      BY <3>1
    <3>3. T \subseteq Nat
      BY NAssumption DEF Positions
    <3>4. u[k] = x
      BY <1>2, <2>2
    <3>5. u[i] \in Nat /\ x \in Nat
      BY <3>1, <3>3
    <3>6. QED
      BY <3>1, <3>2, <3>4, <3>5
  <2>3. QED
    BY <2>1, <2>2
<1>4. Elements(u) = T
  BY <1>1, <1>2 DEF Elements
<1>5. u \in [1 .. n -> Positions]
  BY <1>2
<1>6. u \in {v \in [1 .. n -> Positions] : IsDescending(v)} /\ n \in 0 .. N
  BY <1>3, <1>5
<1>7. u \in DescSeqs
  BY <1>6, Zenon DEF DescSeqs
<1>8. QED
  BY <1>4, <1>7

(***************************************************************************)
(* Every set of positions is listed by some descending sequence, so the   *)
(* CHOOSE of SortDescending, the sort of the result, picks a sequence     *)
(* that lists it.  The proof takes a least counterexample by size.        *)
(***************************************************************************)
LEMMA SortExists ==
  ASSUME NEW S \in SUBSET Positions
  PROVE  \E s \in DescSeqs : Elements(s) = S
<1> DEFINE Sortable(T) == \E s \in DescSeqs : Elements(s) = T
           Bad == {n \in Nat : \E T \in SUBSET Positions : Cardinality(T) = n /\ ~Sortable(T)}
<1>1. IsFiniteSet(Positions) /\ Cardinality(Positions) = N
  BY NAssumption, FS_Interval DEF Positions
<1>2. ASSUME NEW T \in SUBSET Positions
      PROVE  IsFiniteSet(T) /\ Cardinality(T) \in Nat /\ Cardinality(T) <= N
  BY <1>1, FS_Subset, FS_CardinalityType
<1> SUFFICES ASSUME ~Sortable(S) PROVE FALSE
  OBVIOUS
<1>3. Bad \in SUBSET Nat /\ Bad # {}
  BY <1>2
<1>4. PICK n \in Bad : \A k \in Bad : n <= k
  BY <1>3, NatHasMin
<1>5. PICK T \in SUBSET Positions : Cardinality(T) = n /\ ~Sortable(T)
  BY <1>4
<1>6. n \in Nat /\ n <= N
  BY <1>2, <1>4, <1>5
<1>7. CASE T = {}
  <2>1. <<>> \in DescSeqs /\ Elements(<<>>) = {}
    BY NAssumption DEF DescSeqs, IsDescending, Elements
  <2>2. QED
    BY <1>5, <1>7, <2>1
<1>8. CASE T # {}
  <2>1. T \subseteq Nat
    BY NAssumption DEF Positions
  <2>2. PICK x \in T : \A y \in T : x <= y
    BY <1>8, <2>1, NatHasMin
  <2>3. Cardinality(T \ {x}) = n - 1 /\ n # 0
    BY <1>2, <1>5, <1>8, FS_RemoveElement, FS_EmptySet
  <2>4. Sortable(T \ {x})
    <3> SUFFICES ASSUME ~Sortable(T \ {x}) PROVE FALSE
      OBVIOUS
    <3>1. n - 1 \in Bad
      BY <2>3, <1>6
    <3>2. QED
      BY <1>4, <1>6, <2>3, <3>1
  <2>5. PICK t \in DescSeqs : Elements(t) = T \ {x}
    BY <2>4
  <2>6. Len(t) = n - 1
    BY <2>3, <2>5, DescFacts
  <2>7. QED
    <3> HIDE DEF Sortable, Bad
    <3>1. \E s \in DescSeqs : Elements(s) = T
      BY <1>6, <2>2, <2>3, <2>5, <2>6, SortStep
    <3>2. QED
      BY <1>5, <3>1 DEF Sortable
<1>9. QED
  BY <1>7, <1>8

-----------------------------------------------------------------------------
LEMMA InitIInv == Init => IInv
<1> SUFFICES ASSUME Init PROVE IInv
  OBVIOUS
<1>1. candidates \in Seq(Positions) /\ count \in Nat
  BY DescFacts, LatestAssumption DEF Init
<1>2. TypeOK
  BY <1>1 DEF Init, TypeOK
<1>3. Consumed = 0 /\ Suffix
  BY <1>1 DEF Init, Consumed, Suffix
<1>4. QED
  BY <1>2, <1>3 DEF Init, IInv, NeverPanics

\* `if count == 0 { return ... }` leaves nothing to panic and an empty result.
LEMMA ReturnEmptyKeeps ==
  ASSUME IInv, ReturnEmpty
  PROVE  IInv'
<1>1. TypeOK' /\ Suffix'
  BY DEF IInv, ReturnEmpty, TypeOK, Suffix, Consumed
<1>2. QED
  BY <1>1 DEF IInv, ReturnEmpty, NeverPanics

\* HeapOK depends only on the candidates, the count, the iterator and the heap.
LEMMA HeapFrame ==
  ASSUME UNCHANGED <<candidates, timestamp, count, cands, heap>>
  PROVE  HeapOK' = HeapOK /\ HeapPos' = HeapPos
<1>1. Consumed' = Consumed /\ Seen' = Seen /\ HeapPos' = HeapPos
  BY DEF Consumed, Seen, HeapPos
<1>2. \A p : Item(p)' = Item(p)
  BY DEF Item
<1>3. QED
  BY <1>1, <1>2 DEF HeapOK, ItemLess

\* A step that changes none of the variables.
LEMMA StutterKeeps ==
  ASSUME IInv, UNCHANGED vars
  PROVE  IInv'
<1>1. UNCHANGED <<candidates, timestamp, count, cands, heap>>
  BY DEF vars
<1>2. HeapOK' = HeapOK /\ HeapPos' = HeapPos
  BY <1>1, HeapFrame
<1>3. QED
  BY <1>2 DEF IInv, vars, TypeOK, Suffix, Consumed, NeverPanics

(***************************************************************************)
(* The assertion holds because the heap has min(count, consumed) items,   *)
(* and the sort lists the heap's positions because some descending        *)
(* sequence does (SortExists).                                             *)
(***************************************************************************)
LEMMA FinishKeeps ==
  ASSUME IInv, Finish
  PROVE  IInv'
<1>1. phase = "scan" /\ count >= 1 /\ count \in Nat /\ HeapOK
  BY LatestAssumption DEF IInv, Finish, TypeOK
<1>2. Cardinality(heap) <= count /\ Cardinality(heap) \in Nat
  BY <1>1, FS_CardinalityType DEF HeapOK, MinOf, Consumed, TypeOK, IInv
<1>3. result' = SortDescending(HeapPos) /\ phase' = "done"
  BY <1>1, <1>2 DEF Finish, HeapPos
<1>4. HeapPos \subseteq Positions
  BY DEF IInv, TypeOK, HeapPos
<1>5. result' \in DescSeqs /\ Elements(result') = HeapPos
  <2>1. \E s \in DescSeqs : Elements(s) = HeapPos
    BY <1>4, SortExists
  <2>2. QED
    BY <1>3, <2>1 DEF SortDescending
<1>6. result' \in Seq(Positions)
  BY <1>5, DescFacts
<1>7. UNCHANGED <<candidates, timestamp, count, cands, heap>> /\ cands = <<>>
  BY DEF Finish
<1>8. (TypeOK /\ Suffix /\ HeapOK)'
  <2>1. TypeOK' /\ Suffix'
    BY <1>3, <1>6, <1>7 DEF IInv, TypeOK, Suffix, Consumed
  <2>2. HeapOK'
    BY <1>1, <1>7, HeapFrame
  <2>3. QED
    BY <2>1, <2>2
<1>9. HeapPos' = HeapPos
  BY <1>7 DEF HeapPos
<1>10. QED
  BY <1>1, <1>3, <1>5, <1>7, <1>8, <1>9 DEF IInv, NeverPanics

(***************************************************************************)
(* BinaryHeap::from_iter(candidate_iter.by_ref().take(count)): the heap   *)
(* gets the items of the first min(count, n) candidates, all distinct, and *)
(* the iterator keeps the rest.                                            *)
(***************************************************************************)
LEMMA FillKeeps ==
  ASSUME IInv, FillHeap
  PROVE  IInv'
<1> DEFINE k == MinOf(count, Len(cands))
           L == Len(candidates)
<1>1. /\ phase = "start" /\ cands = candidates /\ heap = {}
      /\ count \in Nat /\ count >= 1
      /\ timestamp \in [Positions -> Times]
  BY LatestAssumption DEF IInv, FillHeap, TypeOK
<1>2. /\ candidates \in Seq(Positions) /\ L \in Nat
      /\ \A i, j \in 1 .. L : candidates[i] = candidates[j] => i = j
  BY DescFacts DEF IInv, TypeOK
<1>3. k \in 0 .. L /\ k <= count /\ (k < L => k = count)
  BY <1>1, <1>2 DEF MinOf
<1>4. /\ heap' = {Item(cands[i]) : i \in 1 .. k}
      /\ cands' = SubSeq(cands, k + 1, Len(cands))
      /\ phase' = "scan"
      /\ UNCHANGED <<candidates, timestamp, count, result>>
  BY DEF FillHeap
<1> HIDE DEF k
<1>5. /\ cands' \in Seq(Positions) /\ Len(cands') = L - k
      /\ \A i \in 1 .. L - k : cands'[i] = candidates[i + k]
  BY <1>1, <1>2, <1>3, <1>4, SubSeqProperties
<1>6. Consumed' = k /\ Seen' = {candidates[i] : i \in 1 .. k}
  <2>1. Consumed' = k
    BY <1>2, <1>3, <1>4, <1>5 DEF Consumed
  <2>2. QED
    BY <1>4, <2>1 DEF Seen
<1>7. Suffix'
  <2>1. Len(cands') <= Len(candidates')
    BY <1>2, <1>3, <1>4, <1>5
  <2>2. \A i \in 1 .. Len(cands') : cands'[i] = candidates'[i + Consumed']
    BY <1>4, <1>5, <1>6
  <2>3. QED
    BY <2>1, <2>2 DEF Suffix
\* The heap's items, listed by the first k candidates.
<1> DEFINE f == [i \in 1 .. k |-> Item(candidates[i])]
<1>8. /\ \A i \in 1 .. k : f[i] = Item(candidates[i]) /\ f[i].pos = candidates[i]
      /\ f \in Seq(ItemRecs)
      /\ heap' = Elements(f)
  <2>1. \A i \in 1 .. k : candidates[i] \in Positions
    BY <1>2, <1>3
  <2>2. \A i \in 1 .. k : f[i] = Item(candidates[i]) /\ f[i].pos = candidates[i]
    BY <1>1, <2>1, ItemType
  <2>3. f \in Seq(ItemRecs)
    BY <1>1, <1>3, <2>1, ItemType
  <2>4. heap' = Elements(f)
    BY <1>1, <1>3, <1>4 DEF Elements
  <2>5. QED
    BY <2>2, <2>3, <2>4
<1>9. IsFiniteSet(heap') /\ Cardinality(heap') = k
  <2>1. \A i, j \in 1 .. Len(f) : f[i] = f[j] => i = j
    BY <1>2, <1>3, <1>8
  <2>2. IsFiniteSet(Elements(f)) /\ Cardinality(Elements(f)) = Len(f)
    BY <1>8, <2>1, SeqCard
  <2>3. Len(f) = k
    BY <1>3
  <2>4. QED
    BY <1>8, <2>2, <2>3
<1>10. HeapOK'
  <2>1. ASSUME NEW it \in heap' PROVE it = Item(it.pos)'
    <3>1. PICK i \in 1 .. k : it = Item(candidates[i])
      BY <1>1, <1>4
    <3>0. i \in 1 .. L
      BY <1>3
    <3>2. candidates[i] \in Positions
      BY <1>2, <3>0
    <3>3. it.pos = candidates[i]
      BY <1>1, <3>1, <3>2, ItemType
    <3>4. Item(it.pos)' = Item(it.pos)
      BY <1>4 DEF Item
    <3>5. QED
      BY <3>1, <3>3, <3>4, Zenon
  <2>2. HeapPos' = {candidates[i] : i \in 1 .. k}
    <3>1. \A i \in 1 .. k : Item(candidates[i]).pos = candidates[i]
      BY <1>1, <1>2, <1>3, ItemType
    <3>2. QED
      BY <1>1, <1>4, <3>1 DEF HeapPos
  <2>3. MinOf(count', Consumed') = Consumed'
    BY <1>1, <1>3, <1>4, <1>6 DEF MinOf
  <2>4. QED
    BY <1>6, <1>9, <2>1, <2>2, <2>3 DEF HeapOK
<1>11. TypeOK'
  <2>1. heap' \subseteq [ts : Times, pos : Positions]
    BY <1>1, <1>2, <1>3, <1>4 DEF Item
  <2>2. QED
    BY <1>4, <1>5, <2>1 DEF IInv, TypeOK
<1>12. (cands # <<>> => Consumed >= count)'
  <2> SUFFICES ASSUME cands' # <<>> PROVE Consumed' >= count'
    OBVIOUS
  <2>1. Len(cands') # 0
    BY <1>5
  <2>2. k < L
    BY <1>2, <1>3, <1>5, <2>1
  <2>3. QED
    BY <1>3, <1>4, <1>6, <2>2
<1>13. QED
  BY <1>1, <1>4, <1>7, <1>10, <1>11, <1>12 DEF IInv, NeverPanics

-----------------------------------------------------------------------------
(***************************************************************************)
(* One iteration of the scan loop.  The order lemmas are stated over any  *)
(* heap H of candidates seen so far, S: the peeked item e is the earliest *)
(* of H, and x is the item of the candidate c the loop takes.             *)
(***************************************************************************)
HeapPosOf(H) == {it.pos : it \in H}

\* Two items of H that differ differ in position, so the order decides between them.
LEMMA DistinctItems ==
  ASSUME timestamp \in [Positions -> Times],
         NEW H, \A it \in H : it = Item(it.pos), HeapPosOf(H) \subseteq Positions,
         NEW a \in H, NEW b \in H, a # b
  PROVE  a.pos # b.pos /\ a \in ItemRecs /\ b \in ItemRecs
<1>1. a = Item(a.pos) /\ b = Item(b.pos) /\ a.pos \in Positions /\ b.pos \in Positions
  BY DEF HeapPosOf
<1>2. a \in ItemRecs /\ b \in ItemRecs
  BY <1>1, ItemType
<1>3. QED
  BY <1>1, <1>2

\* `*earliest = item` when the new item is later: every left-out candidate stays earlier than every kept item.
LEMMA SwapOrder ==
  ASSUME timestamp \in [Positions -> Times],
         NEW H, \A it \in H : it = Item(it.pos), HeapPosOf(H) \subseteq Positions,
         NEW S \in SUBSET Positions, NEW c \in Positions, NEW e \in H,
         \A o \in H : ~ItemLess(o, e),
         ItemLess(e, Item(c)),
         \A p \in S \ HeapPosOf(H) : \A it \in H : ItemLess(Item(p), it)
  PROVE  \A p \in (S \cup {c}) \ HeapPosOf((H \ {e}) \cup {Item(c)}) :
           \A it \in (H \ {e}) \cup {Item(c)} : ItemLess(Item(p), it)
<1> DEFINE H2 == (H \ {e}) \cup {Item(c)}
<1> SUFFICES ASSUME NEW p \in (S \cup {c}) \ HeapPosOf(H2), NEW it \in H2
             PROVE  ItemLess(Item(p), it)
  OBVIOUS
<1>1. Item(c) \in ItemRecs /\ Item(c).pos = c /\ e \in ItemRecs /\ e = Item(e.pos)
  BY ItemType DEF HeapPosOf
<1>2. p \in S /\ Item(p) \in ItemRecs
  <2>1. c \in HeapPosOf(H2)
    BY <1>1 DEF HeapPosOf
  <2>2. QED
    BY <2>1, ItemType
<1>3. CASE p = e.pos
  <2>1. Item(p) = e
    BY <1>1, <1>3
  <2>2. CASE it = Item(c)
    BY <1>3, <2>1, <2>2
  <2>3. CASE it \in H \ {e}
    <3>1. it.pos # e.pos /\ it \in ItemRecs
      BY <2>3, DistinctItems
    <3>2. ~ItemLess(it, e)
      BY <2>3
    <3>3. QED
      BY <1>1, <2>1, <3>1, <3>2, ItemOrder
  <2>4. QED
    BY <2>2, <2>3
<1>4. CASE p # e.pos
  <2>1. p \in S \ HeapPosOf(H)
    BY <1>2, <1>4 DEF HeapPosOf
  <2>2. ItemLess(Item(p), e)
    BY <2>1
  <2>3. CASE it = Item(c)
    BY <1>1, <1>2, <2>2, <2>3, ItemOrder
  <2>4. CASE it \in H \ {e}
    BY <2>1, <2>4
  <2>5. QED
    BY <2>3, <2>4
<1>5. QED
  BY <1>3, <1>4

\* The new item is not later: it joins the left-out candidates, and is earlier than every kept item.
LEMMA KeepOrder ==
  ASSUME timestamp \in [Positions -> Times],
         NEW H, \A it \in H : it = Item(it.pos), HeapPosOf(H) \subseteq Positions,
         NEW S \in SUBSET Positions, NEW c \in Positions \ HeapPosOf(H), NEW e \in H,
         \A o \in H : ~ItemLess(o, e),
         ~ItemLess(e, Item(c)),
         \A p \in S \ HeapPosOf(H) : \A it \in H : ItemLess(Item(p), it)
  PROVE  \A p \in (S \cup {c}) \ HeapPosOf(H) : \A it \in H : ItemLess(Item(p), it)
<1> SUFFICES ASSUME NEW p \in (S \cup {c}) \ HeapPosOf(H), NEW it \in H
             PROVE  ItemLess(Item(p), it)
  OBVIOUS
<1>1. Item(c) \in ItemRecs /\ Item(c).pos = c /\ e \in ItemRecs /\ e = Item(e.pos)
      /\ e.pos \in HeapPosOf(H)
  BY ItemType DEF HeapPosOf
<1>2. CASE p \in S
  BY <1>2
<1>3. CASE p = c
  <2>1. ItemLess(Item(c), e)
    BY <1>1, ItemOrder
  <2>2. CASE it = e
    BY <1>3, <2>1, <2>2
  <2>3. CASE it # e
    <3>1. it.pos # e.pos /\ it \in ItemRecs
      BY <2>3, DistinctItems
    <3>2. ItemLess(e, it)
      BY <1>1, <3>1, ItemOrder
    <3>3. QED
      BY <1>1, <1>3, <2>1, <3>1, <3>2, ItemOrder
  <2>4. QED
    BY <2>2, <2>3
<1>4. QED
  BY <1>2, <1>3

\* HeapOK over any heap, set of seen candidates and number consumed.
HeapOKOf(H, S, n) ==
  /\ \A it \in H : it = Item(it.pos)
  /\ HeapPosOf(H) \subseteq S
  /\ IsFiniteSet(H)
  /\ Cardinality(H) = MinOf(count, n)
  /\ \A p \in S \ HeapPosOf(H) : \A it \in H : ItemLess(Item(p), it)

LEMMA HeapOKPrime ==
  ASSUME timestamp' = timestamp, count' = count
  PROVE  /\ HeapOK = HeapOKOf(heap, Seen, Consumed)
         /\ HeapOK' = HeapOKOf(heap', Seen', Consumed')
BY DEF HeapOK, HeapOKOf, HeapPos, HeapPosOf, Item, ItemLess

(***************************************************************************)
(* The loop body: peek_mut() finds an item because the fill left `count`  *)
(* of them and each iteration swaps one for one, and the swap keeps the   *)
(* `count` latest seen (SwapOrder, KeepOrder).                            *)
(***************************************************************************)
LEMMA ScanKeeps ==
  ASSUME IInv, ScanItem
  PROVE  IInv'
<1>1. /\ phase = "scan" /\ cands # <<>> /\ count \in Nat /\ count >= 1
      /\ Consumed >= count /\ HeapOK /\ Suffix
      /\ timestamp \in [Positions -> Times] /\ cands \in Seq(Positions)
      /\ heap \subseteq [ts : Times, pos : Positions]
  BY LatestAssumption DEF IInv, ScanItem, TypeOK
<1>2. /\ candidates \in Seq(Positions) /\ Len(candidates) \in Nat
      /\ \A i, j \in 1 .. Len(candidates) : candidates[i] = candidates[j] => i = j
  BY DescFacts DEF IInv, TypeOK
<1> DEFINE n == Consumed
           c == Head(cands)
<1>3. /\ Len(cands) >= 1 /\ Len(cands) <= Len(candidates)
      /\ n \in 0 .. Len(candidates) - 1
      /\ c = candidates[n + 1] /\ c \in Positions
  <2>1. Len(cands) >= 1 /\ Len(cands) <= Len(candidates)
    BY <1>1 DEF Suffix
  <2>2. n \in 0 .. Len(candidates) - 1
    BY <1>1, <1>2, <2>1 DEF Consumed
  <2>3. c = candidates[n + 1]
    <3>1. cands[1] = candidates[1 + Consumed]
      BY <1>1, <2>1 DEF Suffix
    <3>2. c = cands[1]
      OBVIOUS
    <3>3. QED
      BY <2>2, <3>1, <3>2
  <2>4. n + 1 \in 1 .. Len(candidates)
    BY <1>2, <2>2
  <2>5. QED
    BY <1>2, <2>1, <2>2, <2>3, <2>4
<1>4. /\ cands' = Tail(cands)
      /\ UNCHANGED <<candidates, timestamp, count, result>>
  BY DEF ScanItem
<1>5. /\ cands' \in Seq(Positions) /\ Len(cands') = Len(cands) - 1
      /\ \A i \in 1 .. Len(cands') : cands'[i] = cands[i + 1]
  BY <1>1, <1>4, HeadTailProperties
<1>6. Consumed' = n + 1 /\ Suffix'
  <2>1. Consumed' = n + 1
    BY <1>1, <1>3, <1>4, <1>5 DEF Consumed
  <2>2. \A i \in 1 .. Len(cands') : cands'[i] = candidates'[i + Consumed']
    BY <1>1, <1>3, <1>4, <1>5, <2>1 DEF Suffix
  <2>3. QED
    BY <1>3, <1>4, <1>5, <2>1, <2>2 DEF Suffix
<1>7. Seen' = Seen \cup {c} /\ c \notin Seen /\ Seen \subseteq Positions
  <2>1. Seen' = Seen \cup {c}
    BY <1>3, <1>4, <1>6 DEF Seen
  <2>2. c \notin Seen
    BY <1>2, <1>3 DEF Seen
  <2>3. Seen \subseteq Positions
    BY <1>2, <1>3 DEF Seen
  <2>4. QED
    BY <2>1, <2>2, <2>3
<1>8. /\ HeapOKOf(heap, Seen, n)
      /\ MinOf(count, n) = count /\ MinOf(count, n + 1) = count
      /\ Cardinality(heap) = count /\ heap # {}
      /\ HeapPosOf(heap) \subseteq Positions
      /\ Item(c) \notin heap
  <2>1. HeapOKOf(heap, Seen, n)
    BY <1>1, <1>4, HeapOKPrime
  <2>2. MinOf(count, n) = count /\ MinOf(count, n + 1) = count
    BY <1>1, <1>3 DEF MinOf
  <2>3. Cardinality(heap) = count /\ IsFiniteSet(heap)
    BY <2>1, <2>2 DEF HeapOKOf
  <2>4. heap # {}
    BY <1>1, <2>3, FS_EmptySet
  <2>5. HeapPosOf(heap) \subseteq Positions
    BY <1>7, <2>1 DEF HeapOKOf
  <2>6. Item(c) \notin heap
    BY <1>1, <1>3, <1>7, <2>1, ItemType DEF HeapOKOf, HeapPosOf
  <2>7. QED
    BY <2>1, <2>2, <2>3, <2>4, <2>5, <2>6
<1>9. PICK e \in heap :
        /\ \A other \in heap : ~ItemLess(other, e)
        /\ heap' = IF ItemLess(e, Item(c)) THEN (heap \ {e}) \cup {Item(c)} ELSE heap
        /\ phase' = phase
  BY <1>8 DEF ScanItem
<1>10. HeapOKOf(heap', Seen', Consumed')
  <2>1. /\ \A it \in heap : it = Item(it.pos)
        /\ \A p \in Seen \ HeapPosOf(heap) : \A it \in heap : ItemLess(Item(p), it)
        /\ IsFiniteSet(heap)
        /\ HeapPosOf(heap) \subseteq Seen
    BY <1>8 DEF HeapOKOf
  <2>2. CASE ItemLess(e, Item(c))
    <3> DEFINE H2 == (heap \ {e}) \cup {Item(c)}
    <3>1. heap' = H2
      BY <1>9, <2>2
    <3>0. Item(c).pos = c
      BY <1>1, <1>3, ItemType
    <3>2. \A it \in H2 : it = Item(it.pos)
      BY <2>1, <3>0
    <3>3. HeapPosOf(H2) \subseteq Seen \cup {c}
      BY <2>1, <3>0 DEF HeapPosOf
    <3>4. IsFiniteSet(H2) /\ Cardinality(H2) = count
      <4>1. IsFiniteSet(heap \ {e}) /\ Cardinality(heap \ {e}) = count - 1
        BY <1>8, <2>1, FS_RemoveElement
      <4>2. Item(c) \notin heap \ {e}
        BY <1>8
      <4>3. IsFiniteSet(H2) /\ Cardinality(H2) = Cardinality(heap \ {e}) + 1
        BY <4>1, <4>2, FS_AddElement
      <4>4. QED
        BY <1>1, <4>1, <4>3
    <3>5. \A p \in (Seen \cup {c}) \ HeapPosOf(H2) : \A it \in H2 : ItemLess(Item(p), it)
      <4>1. /\ timestamp \in [Positions -> Times]
            /\ \A it \in heap : it = Item(it.pos)
            /\ HeapPosOf(heap) \subseteq Positions
            /\ Seen \in SUBSET Positions /\ c \in Positions
        BY <1>1, <1>3, <1>7, <1>8, <2>1
      <4>2. /\ \A o \in heap : ~ItemLess(o, e)
            /\ ItemLess(e, Item(c))
            /\ \A p \in Seen \ HeapPosOf(heap) : \A it \in heap : ItemLess(Item(p), it)
        BY <1>9, <2>1, <2>2
      <4>3. QED
        BY <4>1, <4>2, SwapOrder
    <3>6. QED
      BY <1>6, <1>7, <1>8, <3>1, <3>2, <3>3, <3>4, <3>5 DEF HeapOKOf
  <2>3. CASE ~ItemLess(e, Item(c))
    <3>1. heap' = heap
      BY <1>9, <2>3
    <3>2. c \in Positions \ HeapPosOf(heap)
      BY <1>3, <1>7, <2>1
    <3>3. \A p \in (Seen \cup {c}) \ HeapPosOf(heap) : \A it \in heap : ItemLess(Item(p), it)
      <4>1. /\ timestamp \in [Positions -> Times]
            /\ \A it \in heap : it = Item(it.pos)
            /\ HeapPosOf(heap) \subseteq Positions
            /\ Seen \in SUBSET Positions
        BY <1>1, <1>7, <1>8, <2>1
      <4>2. /\ \A o \in heap : ~ItemLess(o, e)
            /\ ~ItemLess(e, Item(c))
            /\ \A p \in Seen \ HeapPosOf(heap) : \A it \in heap : ItemLess(Item(p), it)
        BY <1>9, <2>1, <2>3
      <4>3. QED
        BY <3>2, <4>1, <4>2, KeepOrder
    <3>4. QED
      BY <1>6, <1>7, <1>8, <2>1, <3>1, <3>3 DEF HeapOKOf
  <2>4. QED
    BY <2>2, <2>3
<1>11. HeapOK'
  BY <1>4, <1>10, HeapOKPrime
<1>12. heap' \subseteq [ts : Times, pos : Positions]
  <2>1. Item(c) \in [ts : Times, pos : Positions]
    BY <1>1, <1>3 DEF Item
  <2>2. heap' \subseteq heap \cup {Item(c)}
    BY <1>9
  <2>3. QED
    BY <1>1, <2>1, <2>2
<1>13. TypeOK'
  BY <1>4, <1>5, <1>9, <1>12 DEF IInv, TypeOK
<1>14. QED
  BY <1>1, <1>3, <1>4, <1>6, <1>9, <1>11, <1>13 DEF IInv, NeverPanics

\* Items are told apart by their positions, so a heap has as many positions as items.
LEMMA PosCard ==
  ASSUME NEW H, IsFiniteSet(H), \A it \in H : it = Item(it.pos)
  PROVE  IsFiniteSet(HeapPosOf(H)) /\ Cardinality(HeapPosOf(H)) = Cardinality(H)
<1> DEFINE g == [it \in H |-> it.pos]
<1>1. g \in Bijection(H, HeapPosOf(H))
  BY DEF Bijection, Injection, Surjection, IsInjective, HeapPosOf
<1>2. ExistsBijection(H, HeapPosOf(H))
  BY <1>1 DEF ExistsBijection
<1>3. QED
  BY <1>2, FS_Bijection

-----------------------------------------------------------------------------
(***************************************************************************)
(* At the end, the heap's positions are exactly the candidates that fewer *)
(* than `count` candidates are later than: the left-out ones are earlier  *)
(* than all `count` kept, and a kept one is beaten only by other kept     *)
(* ones.                                                                  *)
(***************************************************************************)
LEMMA IInvTopK == IInv => LatestIsTopK
<1> SUFFICES ASSUME IInv, phase = "done"
             PROVE  IsDescending(result) /\ Elements(result) = LatestRef
  BY DEF LatestIsTopK
<1> DEFINE C == Elements(candidates)
           G(p) == {q \in C : ItemLess(Item(p), Item(q))}
<1>1. /\ candidates \in DescSeqs /\ IsFiniteSet(C) /\ Cardinality(C) = Len(candidates)
      /\ C \subseteq Positions /\ Len(candidates) \in Nat
      /\ count \in Nat /\ timestamp \in [Positions -> Times]
  <2>1. candidates \in DescSeqs /\ count \in Nat /\ timestamp \in [Positions -> Times]
    BY LatestAssumption DEF IInv, TypeOK
  <2>2. /\ candidates \in Seq(Positions) /\ IsFiniteSet(C)
        /\ Cardinality(C) = Len(candidates)
    BY <2>1, DescFacts
  <2>3. \A i \in 1 .. Len(candidates) : candidates[i] \in Positions
    BY <2>2
  <2>4. C \subseteq Positions
    BY <2>3, Zenon DEF Elements
  <2>5. QED
    BY <2>1, <2>2, <2>4
<1>2. \A p \in C : IsFiniteSet(G(p)) /\ Cardinality(G(p)) \in Nat
  BY <1>1, FS_Subset, FS_CardinalityType
<1>3. LatestRef = {p \in C : Cardinality(G(p)) < count}
  BY DEF LatestRef
<1>4. CASE count = 0
  <2>1. result = <<>>
    BY <1>4 DEF IInv
  <2>2. \A p \in C : ~(Cardinality(G(p)) < count)
    BY <1>2, <1>4
  <2>3. LatestRef = {}
    BY <1>3, <2>2
  <2>4. QED
    BY <2>1, <2>3 DEF IsDescending, Elements
<1>5. CASE count # 0
  <2>1. /\ cands = <<>> /\ result \in DescSeqs /\ Elements(result) = HeapPos
        /\ HeapOKOf(heap, Seen, Consumed)
    <3>1. /\ cands = <<>> /\ result \in DescSeqs /\ Elements(result) = HeapPos
          /\ HeapOK
      BY <1>1, <1>5 DEF IInv
    <3>2. QED
      BY <3>1 DEF HeapOK, HeapOKOf, HeapPos, HeapPosOf
  <2>2. Consumed = Len(candidates) /\ Seen = C
    BY <2>1 DEF Consumed, Seen, Elements
  <2>3. IsDescending(result)
    BY <2>1, DescFacts
  <2>4. /\ \A it \in heap : it = Item(it.pos)
        /\ HeapPosOf(heap) \subseteq C
        /\ \A p \in C \ HeapPosOf(heap) : \A it \in heap : ItemLess(Item(p), it)
        /\ IsFiniteSet(HeapPosOf(heap))
        /\ Cardinality(HeapPosOf(heap)) = MinOf(count, Len(candidates))
    <3>1. IsFiniteSet(heap) /\ \A it \in heap : it = Item(it.pos)
      BY <2>1 DEF HeapOKOf
    <3>2. IsFiniteSet(HeapPosOf(heap)) /\ Cardinality(HeapPosOf(heap)) = Cardinality(heap)
      BY <3>1, PosCard
    <3>3. QED
      BY <2>1, <2>2, <3>1, <3>2 DEF HeapOKOf
  <2> DEFINE P == HeapPosOf(heap)
  <2>5. \A p \in P : Item(p) \in heap /\ Item(p) \in ItemRecs
    BY <1>1, <2>4, ItemType DEF HeapPosOf
  <2>6. ASSUME NEW p \in P PROVE Cardinality(G(p)) < count
    <3>1. G(p) \subseteq P \ {p}
      <4> SUFFICES ASSUME NEW q \in C, ItemLess(Item(p), Item(q))
                   PROVE  q \in P /\ q # p
        OBVIOUS
      <4>1. Item(p) \in ItemRecs /\ Item(q) \in ItemRecs /\ Item(p) \in heap
        BY <1>1, <2>5, ItemType
      <4>2. q # p
        BY <4>1, ItemOrder
      <4>3. q \in P
        <5>1. SUFFICES ASSUME q \notin P PROVE FALSE
          OBVIOUS
        <5>2. ItemLess(Item(q), Item(p))
          BY <2>4, <4>1, <5>1
        <5>3. QED
          BY <4>1, <5>2, ItemOrder
      <4>4. QED
        BY <4>2, <4>3
    <3>2. IsFiniteSet(P \ {p}) /\ Cardinality(P \ {p}) = Cardinality(P) - 1
      BY <2>4, FS_RemoveElement
    <3>3. Cardinality(G(p)) <= Cardinality(P \ {p})
      BY <3>1, <3>2, FS_Subset
    <3>4. Cardinality(P) <= count
      BY <1>1, <2>4 DEF MinOf
    <3>5. QED
      BY <1>1, <1>2, <2>4, <3>2, <3>3, <3>4, FS_CardinalityType
  <2>7. ASSUME NEW p \in C \ P PROVE ~(Cardinality(G(p)) < count)
    <3>1. P \subseteq G(p)
      BY <2>4, <2>5
    <3>2. Cardinality(P) <= Cardinality(G(p))
      BY <1>2, <3>1, FS_Subset
    <3>3. CASE count <= Len(candidates)
      BY <1>1, <1>2, <2>4, <3>2, <3>3 DEF MinOf
    <3>4. CASE count > Len(candidates)
      <4>1. Cardinality(P) = Cardinality(C)
        BY <1>1, <2>4, <3>4 DEF MinOf
      <4>2. P = C
        BY <1>1, <2>4, <4>1, FS_Subset
      <4>3. QED
        BY <4>2
    <3>5. QED
      BY <1>1, <3>3, <3>4
  <2>8. P = LatestRef
    BY <1>3, <2>4, <2>6, <2>7
  <2>9. QED
    BY <2>1, <2>3, <2>8 DEF HeapPos, HeapPosOf
<1>6. QED
  BY <1>4, <1>5

-----------------------------------------------------------------------------
\* Every step of take_latest_revset keeps the inductive invariant.
LEMMA NextKeepsIInv ==
  ASSUME IInv, [Next]_vars
  PROVE  IInv'
<1>1. CASE ReturnEmpty
  BY <1>1, ReturnEmptyKeeps
<1>2. CASE FillHeap
  BY <1>2, FillKeeps
<1>3. CASE ScanItem
  BY <1>3, ScanKeeps
<1>4. CASE Finish
  BY <1>4, FinishKeeps
<1>5. CASE UNCHANGED vars
  BY <1>5, StutterKeeps
<1>6. QED
  BY <1>1, <1>2, <1>3, <1>4, <1>5 DEF Next

(***************************************************************************)
(* take_latest_revset never panics: neither the unwrap of peek_mut() nor  *)
(* the assertion on the heap's size fails, for any candidates, timestamps *)
(* and count.                                                             *)
(***************************************************************************)
THEOREM NoPanicCorrect == Spec => []NeverPanics
<1>1. Init => IInv
  BY InitIInv
<1>2. IInv /\ [Next]_vars => IInv'
  BY NextKeepsIInv
<1>3. IInv => NeverPanics
  BY DEF IInv
<1>4. QED
  BY <1>1, <1>2, <1>3, PTL DEF Spec

(***************************************************************************)
(* What take_latest_revset returns lists, in descending position, exactly *)
(* the candidates that fewer than `count` candidates are later than (by   *)
(* committer timestamp, then position).                                   *)
(***************************************************************************)
THEOREM TopKCorrect == Spec => []LatestIsTopK
<1>1. Init => IInv
  BY InitIInv
<1>2. IInv /\ [Next]_vars => IInv'
  BY NextKeepsIInv
<1>3. IInv => LatestIsTopK
  BY IInvTopK
<1>4. QED
  BY <1>1, <1>2, <1>3, PTL DEF Spec

=============================================================================
