-------------------------- MODULE PostProcessProofs --------------------------
(***************************************************************************)
(* Proofs about PostProcess, for any number of candidates, any scores,     *)
(* classes and overlaps and any limit on the results.                      *)
(*                                                                         *)
(* The sort: with the key in its hole the index array is a permutation at  *)
(* every moment, each move swaps two of its places within the range of the *)
(* present call, and only pairs within one pending range may be out of     *)
(* order (SortInv).  The suppression: the positions nms() has been through *)
(* overlap none behind them, and whoever is gone was overlapped by one no  *)
(* worse (NmsInv).  The selection: SelectInv.                              *)
(***************************************************************************)
EXTENDS PostProcess, SequenceTheorems, FiniteSetTheorems, TLAPS

Holed == pc \in {"fromHigh", "fromLow", "place"}
Hole == IF pc = "fromLow" THEN high ELSE low

\* The candidates by position, the key in its hole.
Order == [p \in Positions |-> IF Holed /\ p = Hole THEN key_index ELSE indexArray[p]]

Permutes(f) ==
    /\ f \in [Positions -> Positions]
    /\ \A p, q \in Positions : f[p] = f[q] => p = q
    /\ \A b \in Positions : \E p \in Positions : f[p] = b

\* What process() found.
CandidatesInv ==
    /\ validCount \in Nat
    /\ score \in [Positions -> Int]
    /\ classId \in [Positions -> Int]
    /\ \A a, b \in Positions : <<a, b>> \in overlap => <<b, a>> \in overlap

\* The scores move with the candidates.
ArraysInv ==
    /\ objProbs \in [Positions -> Int]
    /\ indexArray \in [Positions -> Positions]
    /\ Permutes(Order)
    /\ \A p \in Positions : ~(Holed /\ p = Hole) => objProbs[p] = score[indexArray[p]]
    /\ Holed => key_index \in Positions /\ key = score[key_index]

InRange(k, p) == calls[k][1] <= p /\ p <= calls[k][2]
Pending(p, q) == \E k \in 1..Len(calls) : InRange(k, p) /\ InRange(k, q)

\* The pending ranges are apart, and all that is not in one of them together is
\* in order.
RangesInv ==
    /\ calls \in Seq(Int \X Int)
    /\ \A k \in 1..Len(calls) : calls[k][1] >= 1 /\ calls[k][2] <= validCount
    /\ \A j, k \in 1..Len(calls) : \A p \in Positions : InRange(j, p) /\ InRange(k, p) => j = k

OrderedInv ==
    \A p, q \in Positions : p < q => Pending(p, q) \/ score[Order[p]] >= score[Order[q]]

\* The call in progress has the better ones on its left, the others on its right.
PartitionInv ==
    Holed =>
        /\ Len(calls) >= 1
        /\ low \in Int /\ high \in Int
        /\ calls[1][1] <= low /\ low <= high /\ high <= calls[1][2]
        /\ \A p \in Positions : calls[1][1] <= p /\ p < low => objProbs[p] >= key
        /\ \A p \in Positions : high < p /\ p <= calls[1][2] => objProbs[p] <= key
        /\ pc = "fromLow" /\ low < high => objProbs[low] >= key
        /\ pc = "place" => low = high

SortInv == ArraysInv /\ RangesInv /\ OrderedInv /\ PartitionInv

-----------------------------------------------------------------------------
(* The sort.                                                               *)

\* Two places change hands.
Swapped(f, a, b) == [p \in Positions |-> IF p = a THEN f[b] ELSE IF p = b THEN f[a] ELSE f[p]]

LEMMA SwapPermutes ==
    ASSUME NEW f, Permutes(f), NEW a \in Positions, NEW b \in Positions
    PROVE  Permutes(Swapped(f, a, b))
<1> DEFINE g == Swapped(f, a, b)
<1>1. g \in [Positions -> Positions]
  BY DEF Permutes, Swapped
<1>2. ASSUME NEW p \in Positions, NEW q \in Positions, g[p] = g[q]
      PROVE p = q
  BY <1>2 DEF Permutes, Swapped
<1>3. ASSUME NEW c \in Positions
      PROVE \E p \in Positions : g[p] = c
  <2>1. PICK p \in Positions : f[p] = c
    BY DEF Permutes
  <2>2. g[IF p = a THEN b ELSE IF p = b THEN a ELSE p] = c
    BY <2>1 DEF Swapped
  <2>3. QED
    BY <2>2
<1> QED
  BY <1>1, <1>2, <1>3 DEF Permutes

\* A swap within the range of the present call leaves all other pairs in order.
LEMMA SwapOrdered ==
    ASSUME CandidatesInv, SortInv, Len(calls) >= 1,
           NEW a \in Positions, NEW b \in Positions, InRange(1, a), InRange(1, b),
           NEW p \in Positions, NEW q \in Positions, p < q, ~Pending(p, q)
    PROVE  score[Swapped(Order, a, b)[p]] >= score[Swapped(Order, a, b)[q]]
<1> DEFINE s(x) == IF x = a THEN b ELSE IF x = b THEN a ELSE x
<1>1. \A x \in Positions : s(x) \in Positions /\ Swapped(Order, a, b)[x] = Order[s(x)]
  BY DEF Swapped
<1>2. 1 \in 1..Len(calls) /\ calls[1][1] \in Int /\ calls[1][2] \in Int
  <2>1. 1 \in 1..Len(calls) /\ calls[1] \in Int \X Int
    BY DEF SortInv, RangesInv
  <2>2. QED
    BY <2>1
<1>5. a \in Int /\ b \in Int /\ p \in Int /\ q \in Int
  BY DEF Positions, CandidatesInv
<1>3. ~(InRange(1, p) /\ InRange(1, q))
  BY <1>2 DEF Pending
<1>4. s(p) < s(q) /\ ~Pending(s(p), s(q))
  <2>1. CASE p \in {a, b}
    <3>1. s(q) = q /\ s(p) \in {a, b} /\ InRange(1, s(p)) /\ ~InRange(1, q)
      BY <1>3, <2>1
    <3>2. s(p) < q
      BY <1>2, <1>3, <1>5, <2>1, <3>1 DEF InRange
    <3>3. ~Pending(s(p), q)
      BY <1>1, <1>2, <3>1 DEF Pending, SortInv, RangesInv
    <3>4. QED
      BY <3>1, <3>2, <3>3
  <2>2. CASE q \in {a, b}
    <3>1. s(p) = p /\ s(q) \in {a, b} /\ InRange(1, s(q)) /\ ~InRange(1, p)
      BY <1>3, <2>2
    <3>2. p < s(q)
      BY <1>2, <1>3, <1>5, <2>2, <3>1 DEF InRange
    <3>3. ~Pending(p, s(q))
      BY <1>1, <1>2, <3>1 DEF Pending, SortInv, RangesInv
    <3>4. QED
      BY <3>1, <3>2, <3>3
  <2>3. CASE p \notin {a, b} /\ q \notin {a, b}
    BY <2>3
  <2>4. QED
    BY <2>1, <2>2, <2>3
<1> QED
  BY <1>1, <1>4 DEF SortInv, OrderedInv

LEMMA InitSort == Init => CandidatesInv /\ (pc = "sort" => SortInv)
<1> SUFFICES ASSUME Init
             PROVE CandidatesInv /\ (pc = "sort" => SortInv)
  OBVIOUS
<1>1. /\ validCount \in Nat /\ score \in [Positions -> Int] /\ classId \in [Positions -> Int]
  <2>1. /\ validCount \in 0..MaxCandidates /\ score \in [Positions -> Scores]
        /\ classId \in [Positions -> Classes]
    BY DEF Init
  <2>2. Scores \subseteq Int /\ Classes \subseteq Int /\ MaxCandidates \in Nat
    BY PostProcessAssumption
  <2>3. validCount \in Nat
    BY <2>1, <2>2
  <2>4. QED
    BY <2>1, <2>2, <2>3
<1>2. \A a, b \in Positions : <<a, b>> \in overlap => <<b, a>> \in overlap
  BY DEF Init, Overlaps
<1>3. ASSUME pc = "sort"
      PROVE SortInv
  <2>1. Order = [p \in Positions |-> p] /\ ~Holed
    BY <1>3 DEF Init, Order, Holed
  <2>2. ArraysInv
    BY <1>1, <2>1 DEF Init, ArraysInv, Permutes
  <2>3. calls = << <<1, validCount>> >> /\ calls \in Seq(Int \X Int) /\ Len(calls) = 1
    BY <1>1 DEF Init
  <2>4. RangesInv
    BY <1>1, <2>3 DEF RangesInv
  <2>5. \A p, q \in Positions : Pending(p, q)
    BY <1>1, <2>3 DEF Pending, InRange, Positions
  <2>6. OrderedInv /\ PartitionInv
    BY <2>1, <2>5 DEF OrderedInv, PartitionInv
  <2>7. QED
    BY <2>2, <2>4, <2>6 DEF SortInv
<1> QED
  BY <1>1, <1>2, <1>3 DEF CandidatesInv

LEMMA CallSort ==
    ASSUME CandidatesInv, SortInv, Call
    PROVE  SortInv'
<1> DEFINE left == Head(calls)[1]
           right == Head(calls)[2]
<1>1. /\ pc = "sort" /\ calls # <<>> /\ calls \in Seq(Int \X Int) /\ ~Holed
      /\ objProbs' = objProbs /\ indexArray' = indexArray /\ score' = score
      /\ validCount' = validCount
  BY DEF Call, SortInv, RangesInv, candidates, Holed
<1>2. /\ Len(calls) \in Nat \ {0} /\ Head(calls) = calls[1] /\ calls[1] \in Int \X Int
      /\ left = calls[1][1] /\ right = calls[1][2] /\ left \in Int /\ right \in Int
      /\ left >= 1 /\ right <= validCount /\ validCount \in Nat
  <2>1. Len(calls) \in Nat \ {0} /\ Head(calls) = calls[1] /\ calls[1] \in Int \X Int
    BY <1>1
  <2>2. QED
    BY <2>1 DEF SortInv, RangesInv, CandidatesInv
<1>3. CASE left < right
  <2>1. /\ low' = left /\ high' = right /\ key' = objProbs[left] /\ key_index' = indexArray[left]
        /\ pc' = "fromHigh" /\ calls' = calls
    BY <1>3 DEF Call
  <2>2. left \in Positions /\ Holed' /\ Hole' = left
    BY <1>2, <1>3, <2>1 DEF Positions, Holed, Hole
  <2>3. Order' = Order
    BY <1>1, <2>1, <2>2 DEF Order, Positions
  <2>4. ArraysInv'
    BY <1>1, <2>1, <2>2, <2>3 DEF SortInv, ArraysInv, Positions, Permutes
  <2>5. RangesInv' /\ OrderedInv'
    BY <1>1, <2>1, <2>3
    DEF SortInv, RangesInv, OrderedInv, Pending, InRange, Positions
  <2>6. PartitionInv'
    BY <1>1, <1>2, <1>3, <2>1 DEF PartitionInv, Positions
  <2>7. QED
    BY <2>4, <2>5, <2>6 DEF SortInv
<1>4. CASE ~(left < right)
  <2>1. calls' = Tail(calls) /\ pc' = "sort" /\ ~Holed'
    BY <1>1, <1>4 DEF Call, Holed
  <2>2. /\ calls' \in Seq(Int \X Int) /\ Len(calls') = Len(calls) - 1
        /\ \A k \in 1..Len(calls') : k + 1 \in 1..Len(calls) /\ calls'[k] = calls[k + 1]
    BY <1>1, <1>2, <2>1
  <2>3. Order' = Order
    BY <1>1, <2>1 DEF Order, Positions
  <2>4. ArraysInv'
    <3>1. Positions' = Positions
      BY <1>1 DEF Positions
    <3>2. Permutes(Order)'
      BY <2>3, <3>1 DEF SortInv, ArraysInv, Permutes
    <3>3. /\ objProbs' \in [Positions -> Int] /\ indexArray' \in [Positions -> Positions]
          /\ \A p \in Positions : objProbs'[p] = score'[indexArray'[p]]
      BY <1>1 DEF SortInv, ArraysInv
    <3>4. QED
      BY <2>1, <3>1, <3>2, <3>3 DEF ArraysInv
  <2>5. RangesInv'
    <3>1. \A k \in 1..Len(calls') : calls'[k][1] >= 1 /\ calls'[k][2] <= validCount
      BY <2>2 DEF SortInv, RangesInv
    <3>2. ASSUME NEW j \in 1..Len(calls'), NEW k \in 1..Len(calls'), NEW p \in Positions,
                 InRange(j, p)', InRange(k, p)'
          PROVE j = k
      <4>1. /\ j + 1 \in 1..Len(calls) /\ InRange(j + 1, p)
            /\ k + 1 \in 1..Len(calls) /\ InRange(k + 1, p)
        BY <2>2, <3>2 DEF InRange
      <4>2. j + 1 = k + 1
        BY <4>1 DEF SortInv, RangesInv
      <4>3. QED
        BY <4>2
    <3>3. Positions' = Positions
      BY <1>1 DEF Positions
    <3>4. QED
      BY <1>1, <2>2, <3>1, <3>2, <3>3 DEF RangesInv
  <2>6. ASSUME NEW p \in Positions, NEW q \in Positions, p < q, Pending(p, q)
        PROVE Pending(p, q)'
    <3>1. PICK k \in 1..Len(calls) : InRange(k, p) /\ InRange(k, q)
      BY <2>6 DEF Pending
    <3>2. k # 1
      <4>1. p \in Int /\ q \in Int
        BY DEF Positions
      <4>2. left \in Int /\ right \in Int /\ (k = 1 => left <= p /\ q <= right)
        BY <1>2, <3>1 DEF InRange
      <4> HIDE DEF left, right
      <4>3. QED
        BY <1>4, <2>6, <4>1, <4>2
    <3>3. k - 1 \in 1..Len(calls') /\ calls'[k - 1] = calls[k]
      <4>1. k - 1 \in 1..Len(calls')
        BY <1>2, <2>2, <3>2
      <4>2. calls'[k - 1] = calls[(k - 1) + 1] /\ (k - 1) + 1 = k
        BY <2>2, <4>1
      <4>3. QED
        BY <4>1, <4>2
    <3>4. QED
      BY <3>1, <3>3 DEF Pending, InRange
  <2>7. OrderedInv'
    BY <1>1, <2>3, <2>6 DEF SortInv, OrderedInv, Positions
  <2>8. QED
    BY <2>1, <2>4, <2>5, <2>7 DEF SortInv, PartitionInv
<1> QED
  BY <1>3, <1>4

\* A move of the hole is a swap, of the key with the element that is moved.
LEMMA MoveSort ==
    ASSUME CandidatesInv, SortInv, Holed, Holed',
           NEW b \in Positions, InRange(1, b), InRange(1, Hole), Hole \in Positions, Hole' = b,
           UNCHANGED <<calls, key, key_index, score, validCount>>,
           objProbs' = [objProbs EXCEPT ![Hole] = objProbs[b]],
           indexArray' = [indexArray EXCEPT ![Hole] = indexArray[b]]
    PROVE  ArraysInv' /\ RangesInv' /\ OrderedInv'
<1> DEFINE a == Hole
<1>1. /\ objProbs \in [Positions -> Int] /\ indexArray \in [Positions -> Positions]
      /\ Positions' = Positions /\ key_index \in Positions /\ Permutes(Order)
      /\ key = score[key_index]
  BY DEF SortInv, ArraysInv, Positions
<1>2. Order' = Swapped(Order, a, b)
  BY <1>1 DEF Order, Swapped
<1>3. Permutes(Order')
  BY <1>1, <1>2, SwapPermutes
<1>4. /\ objProbs' \in [Positions -> Int] /\ indexArray' \in [Positions -> Positions]
  BY <1>1
<1>5. \A p \in Positions : p # b => objProbs'[p] = score[indexArray'[p]]
  BY <1>1 DEF SortInv, ArraysInv
<1>6. ArraysInv'
  BY <1>1, <1>3, <1>4, <1>5 DEF ArraysInv, Permutes
<1>7. RangesInv'
  BY <1>1 DEF SortInv, RangesInv, InRange
<1>8. Len(calls) >= 1
  BY DEF SortInv, PartitionInv
<1>9. OrderedInv'
  <2>1. \A p, q \in Positions : Pending(p, q)' <=> Pending(p, q)
    BY DEF Pending, InRange
  <2>2. QED
    BY <1>1, <1>2, <1>8, <2>1, SwapOrdered DEF OrderedInv
<1> QED
  BY <1>6, <1>7, <1>9

LEMMA MoveFromHighSort ==
    ASSUME CandidatesInv, SortInv, MoveFromHigh
    PROVE  SortInv'
<1>1. PICK h \in low..high :
         /\ h = low \/ objProbs[h] > key
         /\ \A k \in h + 1..high : objProbs[k] <= key
         /\ high' = h
         /\ objProbs' = [objProbs EXCEPT ![low] = objProbs[h]]
         /\ indexArray' = [indexArray EXCEPT ![low] = indexArray[h]]
  BY DEF MoveFromHigh
<1>2. /\ pc = "fromHigh" /\ pc' = "fromLow" /\ Holed /\ Holed' /\ Hole = low /\ Hole' = h
      /\ UNCHANGED <<calls, low, key, key_index, score, validCount>>
  BY <1>1 DEF MoveFromHigh, Holed, Hole, candidates
<1> DEFINE L == calls[1][1]
           R == calls[1][2]
<1>3. /\ L \in Int /\ R \in Int /\ L >= 1 /\ R <= validCount /\ validCount \in Nat
      /\ Len(calls) >= 1 /\ low \in Int /\ high \in Int /\ L <= low /\ low <= high /\ high <= R
  <2>1. Len(calls) >= 1 /\ 1 \in 1..Len(calls) /\ calls[1] \in Int \X Int
    BY <1>2 DEF SortInv, RangesInv, PartitionInv
  <2>2. QED
    BY <1>2, <2>1 DEF SortInv, RangesInv, PartitionInv, CandidatesInv
<1>4. h \in Positions /\ low \in Positions /\ InRange(1, h) /\ InRange(1, low)
  BY <1>3 DEF Positions, InRange
<1>5. ArraysInv' /\ RangesInv' /\ OrderedInv'
  BY <1>1, <1>2, <1>4, MoveSort
<1>6. /\ \A p \in Positions : p # low => objProbs'[p] = objProbs[p]
      /\ objProbs'[low] = objProbs[h] /\ objProbs[h] \in Int /\ key \in Int
  BY <1>1, <1>2, <1>4 DEF SortInv, ArraysInv, CandidatesInv
<1>7. \A p \in Positions : p \in Int
  BY DEF Positions
<1>8. PartitionInv'
  <2>1. \A p \in Positions : L <= p /\ p < low => objProbs'[p] >= key
    BY <1>2, <1>3, <1>6, <1>7 DEF SortInv, PartitionInv
  <2>2. ASSUME NEW p \in Positions, h < p, p <= R
        PROVE objProbs'[p] <= key
    <3>1. objProbs'[p] = objProbs[p]
      BY <1>3, <1>4, <1>6, <1>7, <2>2
    <3>2. p \in h + 1..high \/ (high < p /\ p <= R)
      BY <1>3, <1>4, <1>7, <2>2
    <3>3. QED
      BY <1>1, <1>2, <3>1, <3>2 DEF SortInv, PartitionInv
  <2>3. low < h => objProbs'[low] >= key
    BY <1>1, <1>3, <1>4, <1>6, <1>7
  <2>4. Positions' = Positions /\ L' = L /\ R' = R
    BY <1>2 DEF Positions
  <2>5. QED
    BY <1>1, <1>2, <1>3, <1>4, <1>7, <2>1, <2>2, <2>3, <2>4 DEF PartitionInv
<1> QED
  BY <1>5, <1>8 DEF SortInv

LEMMA MoveFromLowSort ==
    ASSUME CandidatesInv, SortInv, MoveFromLow
    PROVE  SortInv'
<1>1. PICK l \in low..high :
         /\ l = high \/ objProbs[l] < key
         /\ \A k \in low..l - 1 : objProbs[k] >= key
         /\ low' = l
         /\ objProbs' = [objProbs EXCEPT ![high] = objProbs[l]]
         /\ indexArray' = [indexArray EXCEPT ![high] = indexArray[l]]
         /\ pc' = IF l < high THEN "fromHigh" ELSE "place"
  BY DEF MoveFromLow
<1>2. /\ pc = "fromLow" /\ pc' \in {"fromHigh", "place"} /\ (pc' = "place" => ~(l < high))
      /\ Holed /\ Holed' /\ Hole = high /\ Hole' = l
      /\ UNCHANGED <<calls, high, key, key_index, score, validCount>>
  BY <1>1 DEF MoveFromLow, Holed, Hole, candidates
<1> DEFINE L == calls[1][1]
           R == calls[1][2]
<1>3. /\ L \in Int /\ R \in Int /\ L >= 1 /\ R <= validCount /\ validCount \in Nat
      /\ Len(calls) >= 1 /\ low \in Int /\ high \in Int /\ L <= low /\ low <= high /\ high <= R
  <2>1. Len(calls) >= 1 /\ 1 \in 1..Len(calls) /\ calls[1] \in Int \X Int
    BY <1>2 DEF SortInv, RangesInv, PartitionInv
  <2>2. QED
    BY <1>2, <2>1 DEF SortInv, RangesInv, PartitionInv, CandidatesInv
<1>4. l \in Positions /\ high \in Positions /\ InRange(1, l) /\ InRange(1, high)
  BY <1>3 DEF Positions, InRange
<1>5. ArraysInv' /\ RangesInv' /\ OrderedInv'
  BY <1>1, <1>2, <1>4, MoveSort
<1>6. /\ \A p \in Positions : p # high => objProbs'[p] = objProbs[p]
      /\ objProbs'[high] = objProbs[l] /\ objProbs[l] \in Int /\ key \in Int
  BY <1>1, <1>2, <1>4 DEF SortInv, ArraysInv, CandidatesInv
<1>7. \A p \in Positions : p \in Int
  BY DEF Positions
<1>8. PartitionInv'
  <2>1. ASSUME NEW p \in Positions, L <= p, p < l
        PROVE objProbs'[p] >= key
    <3>1. objProbs'[p] = objProbs[p]
      BY <1>3, <1>4, <1>6, <1>7, <2>1
    <3>2. p \in low..l - 1 \/ p < low
      BY <1>3, <1>4, <1>7, <2>1
    <3>3. QED
      BY <1>1, <1>2, <2>1, <3>1, <3>2 DEF SortInv, PartitionInv
  <2>2. \A p \in Positions : high < p /\ p <= R => objProbs'[p] <= key
    BY <1>2, <1>3, <1>6, <1>7 DEF SortInv, PartitionInv
  <2>3. Positions' = Positions /\ L' = L /\ R' = R /\ pc' # "fromLow"
    BY <1>2 DEF Positions
  <2>4. l \in Int /\ L <= l /\ l <= high /\ (pc' = "place" => l = high)
    BY <1>2, <1>3
  <2>5. QED
    BY <1>1, <1>2, <1>3, <2>1, <2>2, <2>3, <2>4 DEF PartitionInv
<1> QED
  BY <1>5, <1>8 DEF SortInv

\* The key comes to stand between those no worse and those no better, and the
\* range falls in two.
LEMMA PlaceKeySort ==
    ASSUME CandidatesInv, SortInv, PlaceKey
    PROVE  SortInv'
<1> DEFINE L == calls[1][1]
           R == calls[1][2]
<1>1. /\ pc = "place" /\ pc' = "sort" /\ Holed /\ ~Holed' /\ Hole = low
      /\ UNCHANGED <<low, key, key_index, score, validCount>> /\ Positions' = Positions
      /\ objProbs' = [objProbs EXCEPT ![low] = key]
      /\ indexArray' = [indexArray EXCEPT ![low] = key_index]
  BY DEF PlaceKey, Holed, Hole, candidates, Positions
<1>2. /\ L \in Int /\ R \in Int /\ L >= 1 /\ R <= validCount /\ validCount \in Nat
      /\ Len(calls) \in Nat \ {0} /\ low \in Int /\ low = high /\ L <= low /\ low <= R
      /\ Head(calls) = calls[1] /\ calls \in Seq(Int \X Int)
  <2>1. Len(calls) \in Nat \ {0} /\ Head(calls) = calls[1] /\ calls[1] \in Int \X Int
        /\ calls \in Seq(Int \X Int) /\ 1 \in 1..Len(calls)
    BY <1>1 DEF SortInv, RangesInv, PartitionInv
  <2>2. QED
    BY <1>1, <2>1 DEF SortInv, RangesInv, PartitionInv, CandidatesInv
<1>3. /\ calls' \in Seq(Int \X Int) /\ Len(calls') = Len(calls) + 1
      /\ calls'[1][1] = L /\ calls'[1][2] = low - 1 /\ calls'[2][1] = low + 1 /\ calls'[2][2] = R
      /\ \A k \in 3..Len(calls') : calls'[k] = calls[k - 1] /\ k - 1 \in 2..Len(calls)
      /\ 1 \in 1..Len(calls') /\ 2 \in 1..Len(calls')
  <2> DEFINE two == << <<L, low - 1>>, <<low + 1, R>> >>
  <2>1. two \in Seq(Int \X Int) /\ Len(two) = 2 /\ two[1] = <<L, low - 1>> /\ two[2] = <<low + 1, R>>
    BY <1>2
  <2> HIDE DEF two
  <2>2. /\ Tail(calls) \in Seq(Int \X Int) /\ Len(Tail(calls)) = Len(calls) - 1
        /\ \A k \in 1..Len(calls) - 1 : Tail(calls)[k] = calls[k + 1]
    BY <1>2
  <2>3. calls' = two \o Tail(calls)
    BY <1>2 DEF PlaceKey, two
  <2>4. /\ calls' \in Seq(Int \X Int) /\ Len(calls') = 2 + (Len(calls) - 1)
        /\ \A k \in 1..Len(calls') : calls'[k] = IF k <= 2 THEN two[k] ELSE Tail(calls)[k - 2]
    <3> DEFINE tail == Tail(calls)
    <3>1. tail \in Seq(Int \X Int) /\ Len(tail) = Len(calls) - 1
      BY <2>2
    <3> HIDE DEF tail
    <3>2. /\ two \o tail \in Seq(Int \X Int) /\ Len(two \o tail) = 2 + Len(tail)
          /\ \A k \in 1..Len(two \o tail) : (two \o tail)[k] = IF k <= 2 THEN two[k] ELSE tail[k - 2]
      <4>1. /\ two \o tail \in Seq(Int \X Int) /\ Len(two \o tail) = Len(two) + Len(tail)
            /\ \A k \in 1..Len(two) + Len(tail) :
                  (two \o tail)[k] = IF k <= Len(two) THEN two[k] ELSE tail[k - Len(two)]
        BY <2>1, <3>1, ConcatProperties, Zenon
      <4>2. QED
        BY <2>1, <4>1
    <3>3. QED
      BY <2>3, <3>1, <3>2 DEF tail
  <2>5. ASSUME NEW k \in 3..Len(calls')
        PROVE calls'[k] = calls[k - 1] /\ k - 1 \in 2..Len(calls)
    <3>1. k - 2 \in 1..Len(calls) - 1 /\ k \in 1..Len(calls') /\ ~(k <= 2)
      BY <1>2, <2>4
    <3>2. calls'[k] = Tail(calls)[k - 2] /\ Tail(calls)[k - 2] = calls[(k - 2) + 1]
      BY <2>2, <2>4, <3>1
    <3>3. (k - 2) + 1 = k - 1 /\ k - 1 \in 2..Len(calls)
      BY <1>2, <3>1
    <3>4. QED
      BY <3>2, <3>3
  <2>6. 1 \in 1..Len(calls') /\ 2 \in 1..Len(calls') /\ calls'[1] = two[1] /\ calls'[2] = two[2]
    <3>1. 1 \in 1..Len(calls') /\ 2 \in 1..Len(calls')
      BY <1>2, <2>4
    <3>2. QED
      BY <2>4, <3>1
  <2>7. QED
    BY <1>2, <2>1, <2>4, <2>5, <2>6
<1>4. low \in Positions /\ \A p \in Positions : p \in Int
  BY <1>2 DEF Positions
<1>11. /\ L \in Int /\ R \in Int /\ low \in Int /\ L >= 1 /\ L <= low /\ low <= R
       /\ R <= validCount /\ validCount \in Nat
  BY <1>2
<1>5. Order' = Order
  BY <1>1, <1>4 DEF Order, SortInv, ArraysInv
<1>6. ArraysInv'
  <2>1. Permutes(Order)'
    BY <1>1, <1>5 DEF SortInv, ArraysInv, Permutes
  <2>2. key_index \in Positions /\ key = score[key_index] /\ key \in Int
    BY <1>1 DEF SortInv, ArraysInv, CandidatesInv
  <2>3. objProbs' \in [Positions -> Int] /\ indexArray' \in [Positions -> Positions]
    BY <1>1, <1>4, <2>2 DEF SortInv, ArraysInv
  <2>4. \A p \in Positions : objProbs'[p] = score[indexArray'[p]]
    BY <1>1, <1>4, <2>2 DEF SortInv, ArraysInv
  <2>5. QED
    BY <1>1, <2>1, <2>3, <2>4 DEF ArraysInv
<1>7. ASSUME NEW k \in 1..Len(calls'), NEW p \in Positions, InRange(k, p)'
      PROVE /\ k = 1 => InRange(1, p) /\ p < low
            /\ k = 2 => InRange(1, p) /\ p > low
            /\ k \notin {1, 2} => k - 1 \in 2..Len(calls) /\ InRange(k - 1, p)
  <2>1. p \in Int /\ calls'[k][1] <= p /\ p <= calls'[k][2]
    BY <1>4, <1>7 DEF InRange
  <2>2. CASE k = 1
    <3>1. L <= p /\ p <= low - 1
      BY <1>3, <2>1, <2>2
    <3>2. QED
      BY <1>11, <2>1, <2>2, <3>1 DEF InRange
  <2>3. CASE k = 2
    <3>1. low + 1 <= p /\ p <= R
      BY <1>3, <2>1, <2>3
    <3>2. QED
      BY <1>11, <2>1, <2>3, <3>1 DEF InRange
  <2>4. CASE k \notin {1, 2}
    <3>1. k \in 3..Len(calls')
      BY <2>4
    <3>2. QED
      BY <1>3, <2>1, <2>4, <3>1 DEF InRange
  <2>5. QED
    BY <2>2, <2>3, <2>4
<1>8. RangesInv'
  <2>1. \A k \in 1..Len(calls') : calls'[k][1] >= 1 /\ calls'[k][2] <= validCount
    <3>1. SUFFICES ASSUME NEW k \in 1..Len(calls')
                   PROVE calls'[k][1] >= 1 /\ calls'[k][2] <= validCount
      OBVIOUS
    <3>2. CASE k = 1
      <4>1. calls'[k][1] = L /\ calls'[k][2] = low - 1
        BY <1>3, <3>2
      <4>2. QED
        BY <1>11, <4>1
    <3>5. CASE k = 2
      <4>1. calls'[k][1] = low + 1 /\ calls'[k][2] = R
        BY <1>3, <3>5
      <4>2. QED
        BY <1>11, <4>1
    <3>3. CASE k \notin {1, 2}
      <4>3. k \in 3..Len(calls')
        BY <3>3
      <4>4. calls'[k] = calls[k - 1] /\ k - 1 \in 2..Len(calls)
        BY <1>3, <4>3
      <4>1. calls'[k] = calls[k - 1] /\ k - 1 \in 1..Len(calls)
        BY <4>4
      <4>2. QED
        BY <4>1 DEF SortInv, RangesInv
    <3>4. QED
      BY <3>2, <3>3, <3>5
  <2>2. ASSUME NEW j \in 1..Len(calls'), NEW k \in 1..Len(calls'), NEW p \in Positions,
               InRange(j, p)', InRange(k, p)'
        PROVE j = k
    <3>1. 1 \in 1..Len(calls)
      BY <1>2
    <3>2. \A m, n \in 1..Len(calls) : InRange(m, p) /\ InRange(n, p) => m = n
      BY DEF SortInv, RangesInv
    <3>3. CASE j \in {1, 2} /\ k \in {1, 2}
      BY <1>2, <1>4, <1>7, <2>2, <3>3
    <3>4. CASE j \in {1, 2} /\ k \notin {1, 2}
      BY <1>2, <1>7, <2>2, <3>1, <3>2, <3>4
    <3>5. CASE j \notin {1, 2} /\ k \in {1, 2}
      BY <1>2, <1>7, <2>2, <3>1, <3>2, <3>5
    <3>6. CASE j \notin {1, 2} /\ k \notin {1, 2}
      <4>3. /\ j - 1 \in 2..Len(calls) /\ InRange(j - 1, p)
            /\ k - 1 \in 2..Len(calls) /\ InRange(k - 1, p)
        BY <1>7, <2>2, <3>6
      <4>1. j - 1 = k - 1
        BY <3>2, <4>3
      <4>2. QED
        BY <4>1
    <3>7. QED
      BY <3>3, <3>4, <3>5, <3>6
  <2>3. QED
    BY <1>1, <1>3, <2>1, <2>2 DEF RangesInv
<1>9. ASSUME NEW p \in Positions, NEW q \in Positions, p < q
      PROVE Pending(p, q)' \/ score[Order[p]] >= score[Order[q]]
  <2>1. CASE ~Pending(p, q)
    BY <1>9, <2>1 DEF SortInv, OrderedInv
  <2>2. CASE Pending(p, q)
    <3>1. PICK k \in 1..Len(calls) : InRange(k, p) /\ InRange(k, q)
      BY <2>2 DEF Pending
    <3>2. CASE k # 1
      <4>1. k + 1 \in 3..Len(calls') /\ calls'[k + 1] = calls[k]
        BY <1>2, <1>3, <3>2
      <4>2. k + 1 \in 1..Len(calls') /\ InRange(k + 1, p)' /\ InRange(k + 1, q)'
        BY <3>1, <4>1 DEF InRange
      <4>3. QED
        BY <4>2 DEF Pending
    <3>3. CASE k = 1
      <4>1. L <= p /\ q <= R
        BY <3>1, <3>3 DEF InRange
      <4>6. L \in Int /\ R \in Int /\ low \in Int /\ p \in Int /\ q \in Int
        BY <1>4, <1>11
      <4> HIDE DEF L, R
      <4>7. q < low => /\ L <= p /\ p <= low - 1 /\ L <= q /\ q <= low - 1
        BY <1>9, <4>1, <4>6
      <4>8. low < p => /\ low + 1 <= p /\ p <= R /\ low + 1 <= q /\ q <= R
        BY <1>9, <4>1, <4>6
      <4>2. CASE q < low
        <5>1. InRange(1, p)' /\ InRange(1, q)'
          BY <1>3, <4>2, <4>7 DEF InRange, L, R
        <5>2. QED
          BY <1>3, <5>1 DEF Pending
      <4>3. CASE low < p
        <5>1. InRange(2, p)' /\ InRange(2, q)'
          BY <1>3, <4>3, <4>8 DEF InRange, L, R
        <5>2. QED
          BY <1>3, <5>1 DEF Pending
      <4>4. CASE p <= low /\ low <= q
        <5>1. score[Order[p]] = objProbs'[p] /\ score[Order[q]] = objProbs'[q]
          <6>1. Order'[p] = indexArray'[p] /\ Order'[q] = indexArray'[q]
            BY <1>1 DEF Order
          <6>2. objProbs'[p] = score[indexArray'[p]] /\ objProbs'[q] = score[indexArray'[q]]
            BY <1>1, <1>6 DEF ArraysInv
          <6>3. QED
            BY <1>5, <6>1, <6>2
        <5>2. key \in Int /\ objProbs'[p] \in Int /\ objProbs'[q] \in Int
          BY <1>1, <1>6 DEF SortInv, ArraysInv, CandidatesInv
        <5>3. objProbs'[p] >= key
          <6>1. CASE p = low
            BY <1>1, <1>4, <5>2, <6>1 DEF SortInv, ArraysInv
          <6>2. CASE p < low
            <7>1. objProbs[p] >= key /\ objProbs'[p] = objProbs[p]
              BY <1>1, <1>4, <4>1, <6>2 DEF SortInv, ArraysInv, PartitionInv, L
            <7>2. QED
              BY <7>1
          <6>3. QED
            BY <4>4, <4>6, <6>1, <6>2
        <5>4. key >= objProbs'[q]
          <6>1. CASE q = low
            BY <1>1, <1>4, <5>2, <6>1 DEF SortInv, ArraysInv
          <6>2. CASE low < q
            <7>1. objProbs[q] <= key /\ objProbs'[q] = objProbs[q]
              BY <1>1, <1>2, <1>4, <4>1, <6>2 DEF SortInv, ArraysInv, PartitionInv, R
            <7>2. QED
              BY <5>2, <7>1
          <6>3. QED
            BY <4>4, <4>6, <6>1, <6>2
        <5>5. QED
          BY <5>1, <5>2, <5>3, <5>4
      <4>5. QED
        BY <4>2, <4>3, <4>4, <4>6
    <3>4. QED
      BY <3>2, <3>3
  <2>3. QED
    BY <2>1, <2>2
<1>10. OrderedInv' /\ PartitionInv'
  BY <1>1, <1>5, <1>9 DEF OrderedInv, PartitionInv
<1> QED
  BY <1>6, <1>8, <1>10 DEF SortInv

-----------------------------------------------------------------------------
(* The suppression.                                                        *)

Left(p) == indexArray[p] # None
Gone(b) == \A p \in Positions : indexArray[p] # b

\* nms() has been through the position, for whatever class it went by.
Processed(p) == classId[p] \notin class_set /\ (classId[p] = filterId => p < i)

\* Whoever is gone was overlapped by one no worse; with one class, by one that
\* is there to stay.
GoneInv ==
    \A b \in Positions : Gone(b) =>
        \E a \in Positions :
            /\ Overlap(a, b)
            /\ score[a] >= score[b]
            /\ OneClass => \E p \in Positions : indexArray[p] = a /\ (pc = "nms" => p < i)

NmsInv ==
    /\ indexArray \in [Positions -> Positions \cup {None}]
    /\ \A p, q \in Positions : Left(p) /\ indexArray[p] = indexArray[q] => p = q
    /\ objProbs \in [Positions -> Int]
    /\ \A p \in Positions : Left(p) => objProbs[p] = score[indexArray[p]]
    /\ \A p, q \in Positions : p < q => objProbs[p] >= objProbs[q]
    /\ i \in 0..validCount + 1
    /\ pc \in {"nms", "select"} => i >= 1
    /\ pc = "done" => i > validCount \/ validCount = 0
    /\ class_set \subseteq {classId[p] : p \in Positions}
    /\ pc = "nms" /\ i <= validCount => filterId \notin class_set
    /\ \A p, q \in Positions : p < q /\ Processed(p) /\ Left(p) /\ Left(q) =>
                                ~Overlap(indexArray[p], indexArray[q])
    /\ GoneInv
    /\ OneClass /\ class_set # {} => \A b \in Positions : ~Gone(b)

\* The selection.
Apart == \A p, q \in Positions : p < q /\ Left(p) /\ Left(q) => ~Overlap(indexArray[p], indexArray[q])

Result == [box : Positions, id : Int, prop : Int]

SelectInv ==
    /\ Apart
    /\ results \in Seq(Result)
    /\ Len(results) <= OBJ_NUMB_MAX_SIZE
    /\ \A r \in Ranks : results[r].id = classId[results[r].box]
    /\ \A r \in Ranks : \E p \in Positions :
          p < i /\ indexArray[p] = results[r].box /\ objProbs[p] = results[r].prop
    /\ \A r, t \in Ranks : r < t => results[r].prop >= results[t].prop /\ results[r].box # results[t].box
    /\ \A p \in Positions : p < i /\ Left(p) =>
          \/ \E r \in Ranks : results[r].box = indexArray[p]
          \/ Len(results) = OBJ_NUMB_MAX_SIZE /\ \A r \in Ranks : results[r].prop >= objProbs[p]

\* The sort has left a permutation in order, and nobody is gone.
LEMMA SortEndsNms ==
    ASSUME CandidatesInv, SortInv, SortEnds
    PROVE  NmsInv'
<1>1. /\ pc = "sort" /\ pc' = "nms" /\ calls = <<>> /\ ~Holed /\ i' = validCount + 1
      /\ class_set' = {classId[p] : p \in Positions} /\ Positions' = Positions
      /\ UNCHANGED <<candidates, objProbs, indexArray, results>> /\ validCount \in Nat
  BY DEF SortEnds, Holed, Positions, candidates, CandidatesInv
<1>2. Order = [p \in Positions |-> indexArray[p]] /\ Order = indexArray
  BY <1>1 DEF Order, SortInv, ArraysInv
<1>3. /\ indexArray \in [Positions -> Positions] /\ objProbs \in [Positions -> Int]
      /\ \A p \in Positions : objProbs[p] = score[indexArray[p]]
      /\ \A p, q \in Positions : indexArray[p] = indexArray[q] => p = q
      /\ \A b \in Positions : \E p \in Positions : indexArray[p] = b
  BY <1>1, <1>2 DEF SortInv, ArraysInv, Permutes
<1>4. \A p, q \in Positions : p < q => objProbs[p] >= objProbs[q]
  <2>1. \A p, q \in Positions : ~Pending(p, q)
    BY <1>1 DEF Pending
  <2>2. QED
    BY <1>2, <1>3, <2>1 DEF SortInv, OrderedInv
<1>5. \A b \in Positions : ~Gone(b)'
  BY <1>1, <1>3 DEF Gone
<1>6. GoneInv'
  BY <1>1, <1>5 DEF GoneInv
<1>7. \A p \in Positions : ~Processed(p)'
  BY <1>1 DEF Processed, candidates
<1>8. i' \in 0..validCount + 1 /\ i' >= 1 /\ ~(i' <= validCount)
  BY <1>1
<1>9. /\ indexArray' \in [Positions -> Positions \cup {None}] /\ objProbs' \in [Positions -> Int]
      /\ \A p \in Positions : objProbs'[p] = score'[indexArray'[p]]
      /\ \A p, q \in Positions : indexArray'[p] = indexArray'[q] => p = q
      /\ \A p, q \in Positions : p < q => objProbs'[p] >= objProbs'[q]
      /\ class_set' = {classId'[p] : p \in Positions} /\ validCount' = validCount
  BY <1>1, <1>3, <1>4 DEF candidates
<1> QED
  BY <1>1, <1>5, <1>6, <1>7, <1>8, <1>9 DEF NmsInv

LEMMA NextClassNms ==
    ASSUME CandidatesInv, NmsInv, NextClass
    PROVE  NmsInv'
<1>1. PICK c \in class_set :
         /\ filterId' = c
         /\ class_set' = class_set \ {c}
  BY DEF NextClass
<1>2. /\ pc = "nms" /\ pc' = "nms" /\ i > validCount /\ i' = 1 /\ Positions' = Positions
      /\ validCount' = validCount /\ score' = score /\ classId' = classId /\ overlap' = overlap
      /\ objProbs' = objProbs /\ indexArray' = indexArray /\ validCount \in Nat
  BY DEF NextClass, candidates, CandidatesInv, Positions
<1>3. \A p \in Positions : p \in Int /\ p <= validCount /\ p >= 1
  BY <1>2 DEF Positions
<1>4. ASSUME NEW p \in Positions, Processed(p)'
      PROVE Processed(p)
  <2>1. classId[p] # c
    BY <1>1, <1>2, <1>3, <1>4 DEF Processed
  <2>2. p < i
    BY <1>2, <1>3 DEF NmsInv
  <2>3. QED
    BY <1>1, <1>2, <1>4, <2>1, <2>2 DEF Processed
<1>5. GoneInv'
  <2>1. ASSUME NEW b \in Positions, Gone(b)'
        PROVE \E a \in Positions : /\ Overlap(a, b)
                                   /\ score[a] >= score[b]
                                   /\ ~OneClass
    <3>1. Gone(b)
      BY <1>2, <2>1 DEF Gone
    <3>2. ~OneClass
      BY <1>1, <3>1 DEF NmsInv
    <3>3. QED
      BY <3>1, <3>2 DEF NmsInv, GoneInv
  <2>2. \A a, b \in Positions : Overlap(a, b)' <=> Overlap(a, b)
    BY <1>2 DEF Overlap
  <2>3. OneClass' <=> OneClass
    BY <1>2 DEF OneClass
  <2>4. QED
    BY <1>2, <2>1, <2>2, <2>3 DEF GoneInv
<1>6. OneClass' => class_set' = {}
  <2>1. ASSUME OneClass, NEW d \in class_set
        PROVE d = c
    BY <2>1 DEF OneClass, NmsInv
  <2>2. OneClass' <=> OneClass
    BY <1>2 DEF OneClass
  <2>3. QED
    BY <1>1, <2>1, <2>2
<1>7. \A p \in Positions : Left(p)' <=> Left(p)
  BY <1>2 DEF Left
<1>8. ASSUME NEW p \in Positions, NEW q \in Positions, p < q, Processed(p)', Left(p)', Left(q)'
      PROVE ~Overlap(indexArray[p], indexArray[q])'
  BY <1>2, <1>4, <1>7, <1>8 DEF NmsInv, Overlap
<1>9. /\ i' \in 0..validCount + 1 /\ i' >= 1 /\ class_set' \subseteq {classId[p] : p \in Positions}
      /\ filterId' \notin class_set'
  BY <1>1, <1>2 DEF NmsInv
<1>10. /\ \A p, q \in Positions : Left(p) /\ indexArray[p] = indexArray[q] => p = q
       /\ \A p \in Positions : Left(p) => objProbs[p] = score[indexArray[p]]
       /\ \A p, q \in Positions : p < q => objProbs[p] >= objProbs[q]
       /\ indexArray \in [Positions -> Positions \cup {None}] /\ objProbs \in [Positions -> Int]
  BY DEF NmsInv
<1> QED
  BY <1>2, <1>5, <1>6, <1>7, <1>8, <1>9, <1>10 DEF NmsInv

\* A box at a position of the class suppresses all behind it that it overlaps;
\* they are no better, and it is not suppressed itself any more.
LEMMA NmsBoxNms ==
    ASSUME CandidatesInv, NmsInv, NmsBox
    PROVE  NmsInv'
<1> DEFINE Idle == indexArray[i] = None \/ classId[i] # filterId
           Hit(j) == ~Idle /\ j > i /\ Overlap(indexArray[i], indexArray[j])
<1>1. /\ pc = "nms" /\ pc' = "nms" /\ i <= validCount /\ i' = i + 1 /\ Positions' = Positions
      /\ validCount' = validCount /\ score' = score /\ classId' = classId /\ overlap' = overlap
      /\ objProbs' = objProbs /\ class_set' = class_set /\ filterId' = filterId /\ validCount \in Nat
  BY DEF NmsBox, candidates, suppressing, CandidatesInv, Positions
<1>2. i \in Positions /\ i' \in 0..validCount + 1 /\ i' >= 1 /\ \A p \in Positions : p \in Int
  BY <1>1 DEF NmsInv, Positions
<1>3. /\ indexArray \in [Positions -> Positions \cup {None}]
      /\ \A p, q \in Positions : Left(p) /\ indexArray[p] = indexArray[q] => p = q
      /\ \A p \in Positions : Left(p) => objProbs[p] = score[indexArray[p]]
      /\ \A p, q \in Positions : p < q => objProbs[p] >= objProbs[q]
      /\ objProbs \in [Positions -> Int] /\ class_set \subseteq {classId[p] : p \in Positions}
  BY DEF NmsInv
<1>4. indexArray' = [j \in Positions |-> IF Hit(j) THEN None ELSE indexArray[j]]
  <2>1. CASE Idle
    <3>1. indexArray' = indexArray
      BY <2>1 DEF NmsBox
    <3>2. QED
      BY <1>3, <2>1, <3>1
  <2>2. CASE ~Idle
    BY <2>2 DEF NmsBox, Overlap
  <2>3. QED
    BY <2>1, <2>2
<1> HIDE DEF Idle
<1>5. /\ indexArray' \in [Positions -> Positions \cup {None}]
      /\ \A p \in Positions : (Left(p)' <=> Left(p) /\ ~Hit(p)) /\ (Left(p)' => indexArray'[p] = indexArray[p])
  BY <1>3, <1>4 DEF Left, None
<1> HIDE DEF Hit
<1>6. ASSUME NEW p \in Positions, NEW q \in Positions, p < q, Processed(p)', Left(p)', Left(q)'
      PROVE ~Overlap(indexArray'[p], indexArray'[q])
  <2>1. Left(p) /\ Left(q) /\ indexArray'[p] = indexArray[p] /\ indexArray'[q] = indexArray[q]
    BY <1>5, <1>6
  <2>2. CASE Processed(p)
    BY <1>6, <2>1, <2>2 DEF NmsInv
  <2>3. CASE ~Processed(p)
    <3>1. p = i /\ classId[i] = filterId
      BY <1>1, <1>2, <1>6, <2>3 DEF Processed
    <3>2. ~Hit(q)
      BY <1>5, <1>6
    <3>3. QED
      BY <1>2, <1>6, <2>1, <3>1, <3>2 DEF Hit, Idle, Left
  <2>4. QED
    BY <2>2, <2>3
<1>7. ASSUME NEW b \in Positions, Gone(b)'
      PROVE \E a \in Positions :
               /\ Overlap(a, b)
               /\ score[a] >= score[b]
               /\ OneClass => \E p \in Positions : indexArray'[p] = a /\ p < i'
  <2>1. CASE Gone(b)
    <3>1. PICK a \in Positions :
             /\ Overlap(a, b)
             /\ score[a] >= score[b]
             /\ OneClass => \E p \in Positions : indexArray[p] = a /\ p < i
      BY <1>1, <2>1 DEF NmsInv, GoneInv
    <3>2. ASSUME NEW p \in Positions, indexArray[p] = a, p < i
          PROVE indexArray'[p] = a /\ p < i'
      <4>1. ~Hit(p) /\ Left(p)
        BY <1>2, <3>2 DEF Hit, Left, None, Positions
      <4>2. QED
        BY <1>1, <1>2, <1>5, <3>2, <4>1
    <3>3. QED
      BY <3>1, <3>2
  <2>2. CASE ~Gone(b)
    <3>1. PICK j \in Positions : indexArray[j] = b
      BY <2>2 DEF Gone
    <3>2. Left(j)
      BY <3>1 DEF Left, None, Positions
    <3>3. Hit(j)
      <4>1. indexArray'[j] # b
        BY <1>1, <1>7 DEF Gone
      <4>2. QED
        BY <1>5, <3>1, <3>2, <4>1
    <3>4. Left(i) /\ j > i /\ Overlap(indexArray[i], b) /\ indexArray[i] \in Positions
      BY <1>2, <1>3, <3>1, <3>3 DEF Hit, Idle, Left
    <3>5. score[indexArray[i]] >= score[b]
      BY <1>2, <1>3, <3>1, <3>2, <3>4
    <3>6. indexArray'[i] = indexArray[i] /\ i < i'
      <4>1. ~Hit(i)
        BY <1>2 DEF Hit
      <4>2. QED
        BY <1>1, <1>2, <1>5, <3>4, <4>1
    <3>7. QED
      BY <1>2, <3>4, <3>5, <3>6
  <2>3. QED
    BY <2>1, <2>2
<1>8. GoneInv'
  <2>1. \A a, b \in Positions : Overlap(a, b)' <=> Overlap(a, b)
    BY <1>1 DEF Overlap
  <2>2. OneClass' <=> OneClass
    BY <1>1 DEF OneClass
  <2>3. QED
    BY <1>1, <1>7, <2>1, <2>2 DEF GoneInv
<1>9. ASSUME OneClass, class_set # {}, NEW b \in Positions, Gone(b)'
      PROVE FALSE
  <2>1. ~Gone(b)
    BY <1>9 DEF NmsInv
  <2>2. PICK j \in Positions : indexArray[j] = b
    BY <2>1 DEF Gone
  <2>3. Hit(j)
    <3>1. indexArray'[j] # b /\ Left(j)
      BY <1>1, <1>9, <2>2 DEF Gone, Left, None, Positions
    <3>2. QED
      BY <1>5, <2>2, <3>1
  <2>4. classId[i] = filterId /\ classId[i] \in class_set
    <3>1. classId[i] = filterId
      BY <2>3 DEF Hit, Idle
    <3>2. classId[i] \in class_set
      BY <1>2, <1>3, <1>9 DEF OneClass
    <3>3. QED
      BY <3>1, <3>2
  <2>5. QED
    BY <1>1, <2>4 DEF NmsInv
<1>10. /\ \A p, q \in Positions : Left(p)' /\ indexArray'[p] = indexArray'[q] => p = q
       /\ \A p \in Positions : Left(p)' => objProbs'[p] = score'[indexArray'[p]]
  <2>1. ASSUME NEW p \in Positions, NEW q \in Positions, Left(p)', indexArray'[p] = indexArray'[q]
        PROVE p = q
    <3>1. Left(q)'
      BY <2>1 DEF Left
    <3>2. QED
      BY <1>3, <1>5, <2>1, <3>1
  <2>2. QED
    BY <1>1, <1>3, <1>5, <2>1
<1>11. OneClass' /\ class_set' # {} => \A b \in Positions : ~Gone(b)'
  <2>1. OneClass' <=> OneClass
    BY <1>1 DEF OneClass
  <2>2. QED
    BY <1>1, <1>9, <2>1
<1>12. filterId' \notin class_set'
  BY <1>1 DEF NmsInv
<1>13. class_set' \subseteq {classId'[p] : p \in Positions} /\ objProbs' \in [Positions -> Int]
       /\ \A p, q \in Positions : p < q => objProbs'[p] >= objProbs'[q]
  BY <1>1, <1>3
<1>14. \A p, q \in Positions : p < q /\ Processed(p)' /\ Left(p)' /\ Left(q)' =>
          ~Overlap(indexArray[p], indexArray[q])'
  BY <1>1, <1>6 DEF Overlap
<1> QED
  BY <1>1, <1>2, <1>5, <1>8, <1>10, <1>11, <1>12, <1>13, <1>14 DEF NmsInv
-----------------------------------------------------------------------------
(* The selection.                                                          *)

\* Once nms() is through, the boxes stay what they are.
LEMMA SettledNms ==
    ASSUME NmsInv, Apart,
           validCount' = validCount, score' = score, classId' = classId, overlap' = overlap,
           objProbs' = objProbs, indexArray' = indexArray,
           class_set' = class_set, filterId' = filterId,
           pc' \in {"select", "done"}, i' \in 0..validCount + 1,
           pc' = "select" => i' >= 1, pc' = "done" => i' > validCount
    PROVE  NmsInv' /\ Apart'
<1>1. Positions' = Positions
  BY DEF Positions
<1>2. \A p \in Positions : Left(p)' <=> Left(p)
  BY DEF Left
<1>3. Apart'
  BY <1>1, <1>2 DEF Apart, Overlap
<1>4. OneClass' <=> OneClass
  BY <1>1 DEF OneClass
<1>5. \A b \in Positions : Gone(b)' <=> Gone(b)
  BY <1>1 DEF Gone
<1>6. GoneInv'
  <2>1. ASSUME NEW b \in Positions, Gone(b)
        PROVE \E a \in Positions : /\ Overlap(a, b)
                                   /\ score[a] >= score[b]
                                   /\ OneClass => \E p \in Positions : indexArray[p] = a
    BY <2>1 DEF NmsInv, GoneInv
  <2>2. \A a, b \in Positions : Overlap(a, b)' <=> Overlap(a, b)
    BY DEF Overlap
  <2>3. pc' # "nms"
    OBVIOUS
  <2>4. QED
    BY <1>1, <1>4, <1>5, <2>1, <2>2, <2>3 DEF GoneInv
<1>7. OneClass' /\ class_set' # {} => \A b \in Positions : ~Gone(b)'
  BY <1>4, <1>5 DEF NmsInv
<1>8. /\ indexArray' \in [Positions -> Positions \cup {None}]
      /\ objProbs' \in [Positions -> Int]
      /\ \A p, q \in Positions : Left(p)' /\ indexArray'[p] = indexArray'[q] => p = q
      /\ \A p \in Positions : Left(p)' => objProbs'[p] = score'[indexArray'[p]]
      /\ \A p, q \in Positions : p < q => objProbs'[p] >= objProbs'[q]
      /\ class_set' \subseteq {classId'[p] : p \in Positions}
  BY <1>2 DEF NmsInv
<1>9. \A p, q \in Positions : p < q /\ Left(p)' /\ Left(q)' => ~Overlap(indexArray[p], indexArray[q])'
  BY <1>1, <1>3 DEF Apart
<1>10. i' \in 0..validCount' + 1 /\ (pc' \in {"nms", "select"} => i' >= 1) /\ pc' # "nms"
       /\ (pc' = "done" => i' > validCount')
  OBVIOUS
<1> QED
  BY <1>1, <1>3, <1>6, <1>7, <1>8, <1>9, <1>10 DEF NmsInv

\* All positions have been gone through.
LEMMA NmsEndsSelect ==
    ASSUME CandidatesInv, NmsInv, results = <<>>, NmsEnds
    PROVE  NmsInv' /\ SelectInv'
<1>1. /\ pc = "nms" /\ pc' = "select" /\ i > validCount /\ i' = 1 /\ class_set = {}
      /\ validCount' = validCount /\ score' = score /\ classId' = classId /\ overlap' = overlap
      /\ objProbs' = objProbs /\ indexArray' = indexArray /\ results' = <<>>
      /\ class_set' = class_set /\ filterId' = filterId /\ validCount \in Nat
  BY DEF NmsEnds, candidates, suppressing, CandidatesInv
<1>2. \A p \in Positions : Processed(p) /\ p >= 1
  BY <1>1 DEF Processed, Positions, NmsInv
<1>3. Apart
  BY <1>2 DEF Apart, NmsInv
<1>4. NmsInv' /\ Apart'
  BY <1>1, <1>3, SettledNms
<1>5. \A p \in Positions : ~(p < i')
  BY <1>1, <1>2 DEF Positions
<1>6. Positions' = Positions
  BY <1>1 DEF Positions
<1>7. results' \in Seq(Result') /\ Len(results') = 0 /\ Ranks' = {}
  BY <1>1 DEF Ranks
<1>8. OBJ_NUMB_MAX_SIZE \in Nat
  BY PostProcessAssumption
<1> QED
  BY <1>4, <1>5, <1>6, <1>7, <1>8 DEF SelectInv

\* The next box joins the results behind those that are no worse.
LEMMA SelectBoxSelect ==
    ASSUME CandidatesInv, NmsInv, SelectInv, SelectBox
    PROVE  NmsInv' /\ SelectInv'
<1>1. /\ pc = "select" /\ pc' = "select" /\ i <= validCount /\ i' = i + 1
      /\ validCount' = validCount /\ score' = score /\ classId' = classId /\ overlap' = overlap
      /\ objProbs' = objProbs /\ indexArray' = indexArray
      /\ class_set' = class_set /\ filterId' = filterId /\ validCount \in Nat
  BY DEF SelectBox, candidates, suppressing, CandidatesInv
<1>2. /\ i \in Positions /\ i' \in 0..validCount + 1 /\ i' >= 1 /\ i \in Int
      /\ \A p \in Positions : p \in Int
  BY <1>1 DEF NmsInv, Positions
<1>3. NmsInv' /\ Apart'
  BY <1>1, <1>2, SettledNms DEF SelectInv
<1>4. /\ Positions' = Positions /\ \A p \in Positions : Left(p)' <=> Left(p)
  BY <1>1 DEF Positions, Left
<1>5. \A p \in Positions : p < i' <=> p < i \/ p = i
  BY <1>1, <1>2
<1>6. Result' = Result
  BY <1>4 DEF Result
<1>7. OBJ_NUMB_MAX_SIZE \in Nat /\ results \in Seq(Result) /\ Len(results) \in Nat
      /\ Len(results) <= OBJ_NUMB_MAX_SIZE
  BY PostProcessAssumption DEF SelectInv
<1>8. /\ \A r \in Ranks : results[r].id = classId[results[r].box]
      /\ \A r \in Ranks : \E p \in Positions :
            p < i /\ indexArray[p] = results[r].box /\ objProbs[p] = results[r].prop
      /\ \A r, t \in Ranks : r < t => results[r].prop >= results[t].prop /\ results[r].box # results[t].box
      /\ \A p \in Positions : p < i /\ Left(p) =>
            \/ \E r \in Ranks : results[r].box = indexArray[p]
            \/ Len(results) = OBJ_NUMB_MAX_SIZE /\ \A r \in Ranks : results[r].prop >= objProbs[p]
  BY DEF SelectInv
<1>9. /\ \A p, q \in Positions : Left(p) /\ indexArray[p] = indexArray[q] => p = q
      /\ \A p, q \in Positions : p < q => objProbs[p] >= objProbs[q]
      /\ indexArray \in [Positions -> Positions \cup {None}] /\ objProbs \in [Positions -> Int]
  BY DEF NmsInv
<1>10. \A r \in Ranks : results[r].prop >= objProbs[i]
  BY <1>2, <1>8, <1>9
<1>11. CASE ~Left(i) \/ Len(results) >= OBJ_NUMB_MAX_SIZE
  <2>1. results' = results /\ Ranks' = Ranks
    BY <1>11 DEF SelectBox, Left, Ranks
  <2>2. ASSUME NEW p \in Positions, p < i', Left(p)
        PROVE \/ \E r \in Ranks : results[r].box = indexArray[p]
              \/ Len(results) = OBJ_NUMB_MAX_SIZE /\ \A r \in Ranks : results[r].prop >= objProbs[p]
    <3>1. CASE p < i
      BY <1>8, <2>2, <3>1
    <3>2. CASE p = i
      BY <1>7, <1>10, <1>11, <2>2, <3>2
    <3>3. QED
      BY <1>5, <2>2, <3>1, <3>2
  <2>3. \A r \in Ranks : \E p \in Positions :
            p < i' /\ indexArray[p] = results[r].box /\ objProbs[p] = results[r].prop
    BY <1>5, <1>8
  <2>4. QED
    BY <1>1, <1>3, <1>4, <1>6, <1>7, <1>8, <2>1, <2>2, <2>3 DEF SelectInv
<1>12. CASE Left(i) /\ Len(results) < OBJ_NUMB_MAX_SIZE
  <2> DEFINE n == Len(results) + 1
             new == [box |-> indexArray[i], id |-> classId[indexArray[i]], prop |-> objProbs[i]]
  <2>1. results' = Append(results, new)
    BY <1>7, <1>12 DEF SelectBox, Left
  <2>2. indexArray[i] \in Positions /\ new \in Result
    BY <1>2, <1>9, <1>12 DEF Left, Result, CandidatesInv
  <2>3. /\ results' \in Seq(Result) /\ Len(results') = n /\ results'[n] = new
        /\ \A r \in Ranks : results'[r] = results[r]
    BY <1>7, <2>1, <2>2 DEF Ranks
  <2>4. Ranks' = Ranks \cup {n} /\ (\A r \in Ranks : r < n /\ r \in Int) /\ n \in Int
    BY <1>7, <2>3 DEF Ranks
  <2>5. new.box = indexArray[i] /\ new.id = classId[indexArray[i]] /\ new.prop = objProbs[i]
    OBVIOUS
  <2> HIDE DEF n, new
  <2>6. \A r \in Ranks' : results'[r].id = classId[results'[r].box]
    BY <1>8, <2>3, <2>4, <2>5
  <2>7. ASSUME NEW r \in Ranks'
        PROVE \E p \in Positions :
                 p < i' /\ indexArray[p] = results'[r].box /\ objProbs[p] = results'[r].prop
    <3>1. CASE r = n
      BY <1>2, <1>5, <2>3, <2>5, <3>1
    <3>2. CASE r \in Ranks
      BY <1>5, <1>8, <2>3, <3>2
    <3>3. QED
      BY <2>4, <3>1, <3>2
  <2>8. ASSUME NEW r \in Ranks', NEW t \in Ranks', r < t
        PROVE results'[r].prop >= results'[t].prop /\ results'[r].box # results'[t].box
    <3>1. r \in Ranks
      BY <2>4, <2>8
    <3>2. CASE t = n
      <4>1. PICK p \in Positions : p < i /\ indexArray[p] = results[r].box
        BY <1>8, <3>1
      <4>2. results[r].box # new.box
        BY <1>2, <1>9, <1>12, <2>5, <4>1
      <4>3. QED
        BY <1>10, <2>3, <2>5, <3>1, <3>2, <4>2
    <3>3. CASE t \in Ranks
      BY <1>8, <2>3, <2>8, <3>1, <3>3
    <3>4. QED
      BY <2>4, <3>2, <3>3
  <2>9. ASSUME NEW p \in Positions, p < i', Left(p)
        PROVE \E r \in Ranks' : results'[r].box = indexArray[p]
    <3>1. CASE p = i
      BY <2>3, <2>4, <2>5, <3>1
    <3>2. CASE p < i
      <4>1. PICK r \in Ranks : results[r].box = indexArray[p]
        BY <1>7, <1>8, <1>12, <2>9, <3>2
      <4>2. QED
        BY <2>3, <2>4, <4>1
    <3>3. QED
      BY <1>5, <2>9, <3>1, <3>2
  <2>10. Len(results') <= OBJ_NUMB_MAX_SIZE
    BY <1>7, <1>12, <2>3 DEF n
  <2>11. QED
    BY <1>1, <1>3, <1>4, <1>6, <2>3, <2>6, <2>7, <2>8, <2>9, <2>10 DEF SelectInv
<1> QED
  BY <1>7, <1>11, <1>12

LEMMA SelectEndsSelect ==
    ASSUME CandidatesInv, NmsInv, SelectInv, SelectEnds
    PROVE  NmsInv' /\ SelectInv'
<1>1. /\ pc = "select" /\ pc' = "done" /\ i > validCount /\ i' = i
      /\ validCount' = validCount /\ score' = score /\ classId' = classId /\ overlap' = overlap
      /\ objProbs' = objProbs /\ indexArray' = indexArray /\ results' = results
      /\ class_set' = class_set /\ filterId' = filterId /\ validCount \in Nat
  BY DEF SelectEnds, candidates, suppressing, CandidatesInv
<1>2. NmsInv' /\ Apart'
  BY <1>1, SettledNms DEF SelectInv, NmsInv
<1>3. /\ Positions' = Positions /\ Ranks' = Ranks /\ Result' = Result
      /\ \A p \in Positions : Left(p)' <=> Left(p)
  BY <1>1 DEF Positions, Ranks, Result, Left
<1> QED
  BY <1>1, <1>2, <1>3 DEF SelectInv
-----------------------------------------------------------------------------
(* The whole.                                                              *)

Sorting == pc \in {"sort", "fromHigh", "fromLow", "place"}

PostInv ==
    /\ pc \in {"sort", "fromHigh", "fromLow", "place", "nms", "select", "done"}
    /\ CandidatesInv
    /\ Sorting => SortInv
    /\ pc \in {"nms", "select", "done"} => NmsInv
    /\ pc \in {"select", "done"} => SelectInv
    /\ Sorting \/ pc = "nms" => results = <<>>

\* Without a candidate there is nothing to do.
LEMMA InitPost == Init => PostInv
<1> SUFFICES ASSUME Init
             PROVE PostInv
  OBVIOUS
<1>1. CandidatesInv /\ (pc = "sort" => SortInv) /\ results = <<>>
  BY InitSort DEF Init
<1>2. CASE validCount = 0
  <2>1. /\ pc = "done" /\ i = 0 /\ class_set = {} /\ Positions = {} /\ Ranks = {} /\ Len(results) = 0
        /\ results \in Seq(Result)
    BY <1>1, <1>2 DEF Init, Positions, Ranks
  <2>2. indexArray \in [Positions -> Positions \cup {None}] /\ objProbs \in [Positions -> Int]
    BY <1>1, <2>1 DEF Init, CandidatesInv
  <2>3. NmsInv
    BY <1>2, <2>1, <2>2 DEF NmsInv, GoneInv
  <2>4. SelectInv
    BY <2>1, PostProcessAssumption DEF SelectInv, Apart
  <2>5. QED
    BY <1>1, <2>1, <2>3, <2>4 DEF PostInv, Sorting
<1>3. CASE validCount # 0
  BY <1>1, <1>3 DEF Init, PostInv, Sorting
<1> QED
  BY <1>2, <1>3

LEMMA NextPost == PostInv /\ [Next]_vars => PostInv'
<1> SUFFICES ASSUME PostInv, [Next]_vars
             PROVE PostInv'
  OBVIOUS
<1>1. CandidatesInv
  BY DEF PostInv
<1>2. /\ validCount' = validCount /\ score' = score /\ classId' = classId /\ overlap' = overlap
  BY DEF Next, Call, MoveFromHigh, MoveFromLow, PlaceKey, SortEnds, NextClass, NmsBox, NmsEnds,
         SelectBox, SelectEnds, Returned, vars, candidates
<1>3. CandidatesInv'
  <2>1. Positions' = Positions
    BY <1>2 DEF Positions
  <2>2. QED
    BY <1>1, <1>2, <2>1 DEF CandidatesInv
<1>4. CASE Call
  <2>1. pc = "sort" /\ pc' \in {"sort", "fromHigh"} /\ results' = results
    BY <1>4 DEF Call
  <2>2. SortInv'
    BY <1>1, <1>4, <2>1, CallSort DEF PostInv, Sorting
  <2>3. QED
    BY <1>3, <2>1, <2>2 DEF PostInv, Sorting
<1>5. CASE MoveFromHigh
  <2>1. pc = "fromHigh" /\ pc' = "fromLow" /\ results' = results
    BY <1>5 DEF MoveFromHigh
  <2>2. SortInv'
    BY <1>1, <1>5, <2>1, MoveFromHighSort DEF PostInv, Sorting
  <2>3. QED
    BY <1>3, <2>1, <2>2 DEF PostInv, Sorting
<1>6. CASE MoveFromLow
  <2>1. pc = "fromLow" /\ pc' \in {"fromHigh", "place"} /\ results' = results
    BY <1>6 DEF MoveFromLow
  <2>2. SortInv'
    BY <1>1, <1>6, <2>1, MoveFromLowSort DEF PostInv, Sorting
  <2>3. QED
    BY <1>3, <2>1, <2>2 DEF PostInv, Sorting
<1>7. CASE PlaceKey
  <2>1. pc = "place" /\ pc' = "sort" /\ results' = results
    BY <1>7 DEF PlaceKey
  <2>2. SortInv'
    BY <1>1, <1>7, <2>1, PlaceKeySort DEF PostInv, Sorting
  <2>3. QED
    BY <1>3, <2>1, <2>2 DEF PostInv, Sorting
<1>8. CASE SortEnds
  <2>1. pc = "sort" /\ pc' = "nms" /\ results' = results
    BY <1>8 DEF SortEnds
  <2>2. NmsInv'
    BY <1>1, <1>8, <2>1, SortEndsNms DEF PostInv, Sorting
  <2>3. QED
    BY <1>3, <2>1, <2>2 DEF PostInv, Sorting
<1>9. CASE NextClass
  <2>1. pc = "nms" /\ pc' = "nms" /\ results' = results
    BY <1>9 DEF NextClass
  <2>2. NmsInv'
    BY <1>1, <1>9, <2>1, NextClassNms DEF PostInv
  <2>3. QED
    BY <1>3, <2>1, <2>2 DEF PostInv, Sorting
<1>10. CASE NmsBox
  <2>1. pc = "nms" /\ pc' = "nms" /\ results' = results
    BY <1>10 DEF NmsBox
  <2>2. NmsInv'
    BY <1>1, <1>10, <2>1, NmsBoxNms DEF PostInv
  <2>3. QED
    BY <1>3, <2>1, <2>2 DEF PostInv, Sorting
<1>11. CASE NmsEnds
  <2>1. pc = "nms" /\ pc' = "select"
    BY <1>11 DEF NmsEnds
  <2>2. NmsInv' /\ SelectInv'
    BY <1>1, <1>11, <2>1, NmsEndsSelect DEF PostInv
  <2>3. QED
    BY <1>3, <2>1, <2>2 DEF PostInv, Sorting
<1>12. CASE SelectBox
  <2>1. pc = "select" /\ pc' = "select"
    BY <1>12 DEF SelectBox
  <2>2. NmsInv' /\ SelectInv'
    BY <1>1, <1>12, <2>1, SelectBoxSelect DEF PostInv
  <2>3. QED
    BY <1>3, <2>1, <2>2 DEF PostInv, Sorting
<1>13. CASE SelectEnds
  <2>1. pc = "select" /\ pc' = "done"
    BY <1>13 DEF SelectEnds
  <2>2. NmsInv' /\ SelectInv'
    BY <1>1, <1>13, <2>1, SelectEndsSelect DEF PostInv
  <2>3. QED
    BY <1>3, <2>1, <2>2 DEF PostInv, Sorting
<1>14. CASE Returned \/ UNCHANGED vars
  <2>1. /\ pc' = pc /\ objProbs' = objProbs /\ indexArray' = indexArray /\ calls' = calls
        /\ low' = low /\ high' = high /\ key' = key /\ key_index' = key_index
        /\ class_set' = class_set /\ filterId' = filterId /\ i' = i /\ results' = results
    BY <1>14 DEF Returned, vars, sorting, suppressing
  <2>2. Positions' = Positions /\ Ranks' = Ranks /\ Result' = Result
    BY <1>2, <2>1 DEF Positions, Ranks, Result
  <2>3. SortInv => SortInv'
    <3>1. Holed' <=> Holed
      BY <2>1 DEF Holed
    <3>2. Order' = Order /\ Hole' = Hole
      BY <2>1, <2>2, <3>1 DEF Order, Hole
    <3>3. ArraysInv => ArraysInv'
      BY <1>2, <2>1, <2>2, <3>1, <3>2 DEF ArraysInv, Permutes
    <3>4. \A k \in 1..Len(calls), p \in Positions : InRange(k, p)' <=> InRange(k, p)
      BY <2>1 DEF InRange
    <3>5. RangesInv => RangesInv'
      BY <1>2, <2>1, <2>2, <3>4 DEF RangesInv
    <3>6. \A p, q \in Positions : Pending(p, q)' <=> Pending(p, q)
      BY <2>1, <3>4 DEF Pending
    <3>7. OrderedInv => OrderedInv'
      BY <1>2, <2>2, <3>2, <3>6 DEF OrderedInv
    <3>8. PartitionInv => PartitionInv'
      BY <2>1, <2>2, <3>1 DEF PartitionInv
    <3>9. QED
      BY <3>3, <3>5, <3>7, <3>8 DEF SortInv
  <2>4. \A p \in Positions : (Left(p)' <=> Left(p)) /\ (Processed(p)' <=> Processed(p))
    BY <1>2, <2>1 DEF Left, Processed
  <2>5. \A a, b \in Positions : Overlap(a, b)' <=> Overlap(a, b)
    BY <1>2 DEF Overlap
  <2>6. OneClass' <=> OneClass
    BY <1>2, <2>2 DEF OneClass
  <2>7. \A b \in Positions : Gone(b)' <=> Gone(b)
    BY <2>1, <2>2 DEF Gone
  <2>8. GoneInv => GoneInv'
    BY <1>2, <2>1, <2>2, <2>5, <2>6, <2>7 DEF GoneInv
  <2>9. NmsInv => NmsInv'
    <3>1. ASSUME NmsInv, NEW p \in Positions, NEW q \in Positions,
                 p < q, Processed(p), Left(p), Left(q)
          PROVE ~Overlap(indexArray[p], indexArray[q])'
      BY <1>2, <2>1, <3>1 DEF NmsInv, Overlap
    <3>2. QED
      BY <1>2, <2>1, <2>2, <2>4, <2>6, <2>7, <2>8, <3>1 DEF NmsInv
  <2>10. Apart => Apart'
    BY <1>2, <2>1, <2>2, <2>4 DEF Apart, Overlap
  <2>11. SelectInv => SelectInv'
    BY <1>2, <2>1, <2>2, <2>4, <2>10 DEF SelectInv
  <2>12. QED
    BY <1>3, <2>1, <2>3, <2>9, <2>11 DEF PostInv, Sorting
<1> QED
  BY <1>4, <1>5, <1>6, <1>7, <1>8, <1>9, <1>10, <1>11, <1>12, <1>13, <1>14 DEF Next

\* Every phase of post_process() keeps what the next one relies on.
THEOREM PostCorrect == Spec => []PostInv
  BY InitPost, NextPost, PTL DEF Spec

\* Every result is a box that is left, and so its score is its own.
LEMMA ResultsAreLeft ==
    ASSUME PostInv, pc = "done", NEW r \in Ranks
    PROVE  \E p \in Positions :
              /\ Left(p) /\ indexArray[p] = results[r].box
              /\ results[r].prop = score[results[r].box] /\ objProbs[p] = results[r].prop
<1>1. results[r].box \in Positions
  <2>1. results \in Seq(Result)
    BY DEF PostInv, SelectInv
  <2>2. results[r] \in Result
    BY <2>1 DEF Ranks
  <2>3. QED
    BY <2>2 DEF Result
<1>2. PICK p \in Positions : indexArray[p] = results[r].box /\ objProbs[p] = results[r].prop
  BY DEF PostInv, SelectInv
<1>3. Left(p)
  BY <1>1, <1>2 DEF Left, None, Positions
<1> QED
  BY <1>2, <1>3 DEF PostInv, NmsInv

\* The results come with the best first, no box twice, each with the score and
\* the class of its own box.
THEOREM RankedCorrect == Spec => []ResultsRanked
<1>1. ASSUME PostInv, pc = "done"
      PROVE ResultsRanked
  <2>1. \A r \in Ranks : results[r].prop = score[results[r].box]
    BY <1>1, ResultsAreLeft
  <2>2. QED
    BY <1>1, <2>1 DEF ResultsRanked, PostInv, SelectInv
<1>2. PostInv => ResultsRanked
  BY <1>1 DEF ResultsRanked
<1> QED
  BY <1>2, PostCorrect, PTL

\* No two results overlap, of whatever classes.
THEOREM ApartCorrect == Spec => []KeptApart
<1>1. ASSUME PostInv, pc = "done", NEW r \in Ranks, NEW t \in Ranks,
             results[r].box # results[t].box
      PROVE ~Overlap(results[r].box, results[t].box)
  <2>1. PICK p \in Positions : Left(p) /\ indexArray[p] = results[r].box
    BY <1>1, ResultsAreLeft
  <2>2. PICK q \in Positions : Left(q) /\ indexArray[q] = results[t].box
    BY <1>1, ResultsAreLeft
  <2>3. p < q \/ q < p
    BY <1>1, <2>1, <2>2 DEF Positions, PostInv, CandidatesInv
  <2>4. indexArray[p] \in Positions /\ indexArray[q] \in Positions
    BY <1>1, <2>1, <2>2 DEF PostInv, NmsInv, Left
  <2>5. QED
    BY <1>1, <2>1, <2>2, <2>3, <2>4 DEF PostInv, SelectInv, Apart, Overlap, CandidatesInv
<1>2. PostInv => KeptApart
  BY <1>1 DEF KeptApart, Kept
<1> QED
  BY <1>2, PostCorrect, PTL

\* Nothing is dropped but for a better overlapping box or for want of room.
THEOREM DroppedCorrect == Spec => []DroppedForBetter
<1>1. ASSUME PostInv, pc = "done", NEW b \in Positions, b \notin Kept
      PROVE \/ \E a \in Positions :
                 /\ Overlap(a, b)
                 /\ score[a] >= score[b]
                 /\ OneClass /\ Len(results) < OBJ_NUMB_MAX_SIZE => a \in Kept
            \/ /\ Len(results) = OBJ_NUMB_MAX_SIZE
               /\ \A a \in Kept : score[a] >= score[b]
  <2>1. \A p \in Positions : p < i
    BY <1>1 DEF PostInv, NmsInv, CandidatesInv, Positions
  <2>2. ASSUME NEW p \in Positions, Left(p)
        PROVE \/ indexArray[p] \in Kept
              \/ Len(results) = OBJ_NUMB_MAX_SIZE /\ \A r \in Ranks : results[r].prop >= objProbs[p]
    BY <1>1, <2>1, <2>2 DEF PostInv, SelectInv, Kept
  <2>3. Len(results) \in Nat /\ OBJ_NUMB_MAX_SIZE \in Nat
    BY <1>1, PostProcessAssumption DEF PostInv, SelectInv
  <2>4. CASE Gone(b)
    <3>1. PICK a \in Positions :
             /\ Overlap(a, b)
             /\ score[a] >= score[b]
             /\ OneClass => \E p \in Positions : indexArray[p] = a
      BY <1>1, <2>4 DEF PostInv, NmsInv, GoneInv
    <3>2. ASSUME OneClass, Len(results) < OBJ_NUMB_MAX_SIZE
          PROVE a \in Kept
      <4>1. PICK p \in Positions : indexArray[p] = a
        BY <3>1, <3>2
      <4>2. Left(p)
        BY <4>1 DEF Left, None, Positions
      <4>3. QED
        BY <2>2, <2>3, <3>2, <4>1, <4>2
    <3>3. QED
      BY <3>1, <3>2
  <2>5. CASE ~Gone(b)
    <3>1. PICK p \in Positions : indexArray[p] = b
      BY <2>5 DEF Gone
    <3>2. Left(p)
      BY <3>1 DEF Left, None, Positions
    <3>3. objProbs[p] = score[b]
      BY <1>1, <3>1, <3>2 DEF PostInv, NmsInv
    <3>4. Len(results) = OBJ_NUMB_MAX_SIZE /\ \A r \in Ranks : results[r].prop >= score[b]
      BY <1>1, <2>2, <3>1, <3>2, <3>3
    <3>5. \A r \in Ranks : results[r].prop = score[results[r].box]
      BY <1>1, ResultsAreLeft
    <3>6. QED
      BY <3>4, <3>5 DEF Kept
  <2>6. QED
    BY <2>4, <2>5
<1>2. PostInv => DroppedForBetter
  BY <1>1 DEF DroppedForBetter
<1> QED
  BY <1>2, PostCorrect, PTL

-----------------------------------------------------------------------------
(* What post_process() has left (OnlyGoesOn).                              *)

\* The calls to come lie to the right of each other, and the box moved down
\* from the right is above the key, so that low must pass it.
StackInv ==
    \A k \in 1..Len(calls) :
        /\ calls[k][1] <= calls[k][2] + 1
        /\ k < Len(calls) => calls[k][2] + 1 < calls[k + 1][1]

MovedAbove == pc = "fromLow" /\ low < high => objProbs[low] > key

GoInv ==
    /\ PostInv
    /\ Sorting => StackInv
    /\ MovedAbove
    /\ IsFiniteSet(class_set)

\* The first component that falls decides.
LEMMA LessByParts ==
    ASSUME NEW a1, NEW a2, NEW a3, NEW a4, NEW a5, NEW a6,
           NEW b1, NEW b2, NEW b3, NEW b4, NEW b5, NEW b6,
           \/ a1 < b1
           \/ a1 = b1 /\ a2 < b2
           \/ a1 = b1 /\ a2 = b2 /\ a3 < b3
           \/ a1 = b1 /\ a2 = b2 /\ a3 = b3 /\ a4 < b4
           \/ a1 = b1 /\ a2 = b2 /\ a3 = b3 /\ a4 = b4 /\ a5 < b5
           \/ a1 = b1 /\ a2 = b2 /\ a3 = b3 /\ a4 = b4 /\ a5 = b5 /\ a6 < b6
    PROVE  Less(<<a1, a2, a3, a4, a5, a6>>, <<b1, b2, b3, b4, b5, b6>>)
<1> DEFINE r == <<a1, a2, a3, a4, a5, a6>>
           q == <<b1, b2, b3, b4, b5, b6>>
<1>1. \E j \in 1..6 : r[j] < q[j] /\ \A m \in 1..(j - 1) : r[m] = q[m]
  <2>1. CASE a1 < b1
    BY <2>1
  <2>2. CASE a1 = b1 /\ a2 < b2
    BY <2>2
  <2>3. CASE a1 = b1 /\ a2 = b2 /\ a3 < b3
    BY <2>3
  <2>4. CASE a1 = b1 /\ a2 = b2 /\ a3 = b3 /\ a4 < b4
    BY <2>4
  <2>5. CASE a1 = b1 /\ a2 = b2 /\ a3 = b3 /\ a4 = b4 /\ a5 < b5
    BY <2>5
  <2>6. CASE a1 = b1 /\ a2 = b2 /\ a3 = b3 /\ a4 = b4 /\ a5 = b5 /\ a6 < b6
    BY <2>6
  <2> QED
    BY <2>1, <2>2, <2>3, <2>4, <2>5, <2>6
<1> QED
  BY <1>1 DEF Less

\* What the call on top of the stack is.
LEMMA TopCall ==
    ASSUME PostInv, Sorting, calls # <<>>
    PROVE  /\ calls \in Seq(Int \X Int) /\ Len(calls) \in Nat \ {0} /\ Head(calls) = calls[1]
           /\ calls[1] \in Int \X Int /\ calls[1][1] \in Int /\ calls[1][2] \in Int
           /\ calls[1][2] <= validCount /\ validCount \in Nat
<1>1. calls \in Seq(Int \X Int) /\ validCount \in Nat
  BY DEF PostInv, SortInv, RangesInv, CandidatesInv
<1>2. Len(calls) \in Nat \ {0} /\ Head(calls) = calls[1] /\ calls[1] \in Int \X Int
  BY <1>1
<1>3. calls[1][2] <= validCount
  BY <1>2 DEF PostInv, SortInv, RangesInv
<1> QED
  BY <1>1, <1>2, <1>3

LEMMA PopGoesOn ==
    ASSUME GoInv, Call, ~(Head(calls)[1] < Head(calls)[2])
    PROVE  /\ pc = "sort" /\ pc' = "sort"
           /\ CallsLeft' < CallsLeft
           /\ StackInv'
<1>1. pc = "sort" /\ pc' = "sort" /\ calls # <<>> /\ calls' = Tail(calls) /\ validCount' = validCount
  BY DEF Call, candidates
<1>2. Sorting /\ PostInv /\ StackInv
  BY <1>1 DEF GoInv, Sorting
<1>3. /\ calls \in Seq(Int \X Int) /\ Len(calls) \in Nat \ {0} /\ Head(calls) = calls[1]
      /\ calls[1] \in Int \X Int /\ calls[1][1] \in Int /\ calls[1][2] \in Int
      /\ calls[1][2] <= validCount /\ validCount \in Nat
  BY <1>1, <1>2, TopCall
<1>4. /\ calls' \in Seq(Int \X Int) /\ Len(calls') = Len(calls) - 1
      /\ \A k \in 1..Len(calls') : k + 1 \in 1..Len(calls) /\ calls'[k] = calls[k + 1]
  BY <1>1, <1>3
<1>5. StackInv'
  <2>1. SUFFICES ASSUME NEW k \in 1..Len(calls')
                 PROVE /\ calls'[k][1] <= calls'[k][2] + 1
                       /\ k < Len(calls') => calls'[k][2] + 1 < calls'[k + 1][1]
    BY DEF StackInv
  <2>2. k + 1 \in 1..Len(calls) /\ calls'[k] = calls[k + 1]
    BY <1>4
  <2>3. ASSUME k < Len(calls')
        PROVE k + 1 < Len(calls) /\ calls'[k + 1] = calls[(k + 1) + 1]
    <3>1. k + 1 \in 1..Len(calls')
      BY <1>3, <1>4, <2>3
    <3>2. k \in Int /\ k + 1 < Len(calls)
      BY <1>3, <1>4, <2>3
    <3> QED
      BY <1>4, <3>1, <3>2
  <2> QED
    BY <1>2, <2>2, <2>3 DEF StackInv
<1>6. calls[1][1] <= calls[1][2] + 1
  BY <1>2, <1>3 DEF StackInv
<1>7. CallsLeft = validCount + 2 - calls[1][1]
  BY <1>1, <1>3 DEF CallsLeft
<1>8. CASE calls' = <<>>
  <2>1. CallsLeft' = 0
    BY <1>8 DEF CallsLeft
  <2> QED
    BY <1>1, <1>3, <1>5, <1>6, <1>7, <2>1
<1>9. CASE calls' # <<>>
  <2>1. Head(calls') = calls'[1] /\ 1 \in 1..Len(calls') /\ calls'[1] \in Int \X Int
    BY <1>4, <1>9
  <2>2. calls'[1] = calls[2] /\ calls[2][1] \in Int
    <3>1. calls'[1] = calls[1 + 1] /\ 1 + 1 = 2
      BY <1>4, <2>1
    <3> QED
      BY <2>1, <3>1
  <2>3. 1 < Len(calls)
    BY <1>3, <1>4, <2>1
  <2>4. calls[1][2] + 1 < calls[2][1]
    <3>1. 1 \in 1..Len(calls) /\ 1 + 1 = 2
      BY <2>3, <1>3
    <3>2. calls[1][2] + 1 < calls[1 + 1][1]
      BY <1>2, <2>3, <3>1 DEF StackInv
    <3> QED
      BY <3>1, <3>2
  <2>5. CallsLeft' = validCount + 2 - calls[2][1]
    BY <1>1, <1>9, <2>1, <2>2 DEF CallsLeft
  <2>6. validCount + 2 - calls[2][1] < validCount + 2 - calls[1][1]
    BY <1>3, <1>6, <2>2, <2>4
  <2> QED
    BY <1>1, <1>5, <1>7, <2>5, <2>6
<1> QED
  BY <1>8, <1>9

LEMMA CallGoesOn ==
    ASSUME GoInv, Call
    PROVE  GoInv' /\ Less(WorkLeft', WorkLeft)
<1>1. /\ pc = "sort" /\ pc' \in {"sort", "fromHigh"} /\ class_set' = class_set
  BY DEF Call, suppressing
<1>2. PostInv' /\ MovedAbove' /\ IsFiniteSet(class_set')
  BY <1>1, NextPost DEF GoInv, Next, MovedAbove
<1>3. PhaseLeft = 3 /\ PhaseLeft' = 3
  BY <1>1 DEF PhaseLeft
<1>4. CASE Head(calls)[1] < Head(calls)[2]
  <2>1. calls' = calls /\ validCount' = validCount /\ pc' = "fromHigh"
    BY <1>4 DEF Call, candidates
  <2>2. StackInv' /\ CallsLeft' = CallsLeft /\ CallLeft' = CallLeft
    BY <1>1, <2>1 DEF GoInv, Sorting, StackInv, CallsLeft, CallLeft
  <2>3. KeyLeft = 2 /\ KeyLeft' = 1
    BY <1>1, <2>1 DEF KeyLeft
  <2> QED
    BY <1>2, <1>3, <2>2, <2>3, LessByParts DEF GoInv, WorkLeft
<1>5. CASE ~(Head(calls)[1] < Head(calls)[2])
  BY <1>2, <1>3, <1>5, PopGoesOn, LessByParts DEF GoInv, WorkLeft
<1> QED
  BY <1>4, <1>5

\* The box moved down is above the key, or the gap is closed.
LEMMA MoveFromHighGoesOn ==
    ASSUME GoInv, MoveFromHigh
    PROVE  GoInv' /\ Less(WorkLeft', WorkLeft)
<1>1. PICK h \in low..high :
         /\ h = low \/ objProbs[h] > key
         /\ high' = h
         /\ objProbs' = [objProbs EXCEPT ![low] = objProbs[h]]
  BY DEF MoveFromHigh
<1>2. /\ pc = "fromHigh" /\ pc' = "fromLow" /\ class_set' = class_set
      /\ calls' = calls /\ validCount' = validCount /\ low' = low /\ key' = key
  BY DEF MoveFromHigh, suppressing, candidates
<1>3. PostInv' /\ StackInv' /\ IsFiniteSet(class_set')
  BY <1>2, NextPost DEF GoInv, Next, Sorting, StackInv
<1>4. SortInv /\ Holed /\ CandidatesInv
  BY <1>2 DEF GoInv, PostInv, Sorting, Holed
<1>5. low \in Int /\ high \in Int /\ low \in Positions
  <2>1. /\ Len(calls) >= 1 /\ low \in Int /\ high \in Int
        /\ calls[1][1] <= low /\ low <= high /\ high <= calls[1][2]
    BY <1>4 DEF SortInv, PartitionInv
  <2>2. calls # <<>>
    BY <2>1
  <2>3. /\ calls[1][1] \in Int /\ calls[1][2] \in Int /\ calls[1][2] <= validCount
        /\ validCount \in Nat /\ 1 \in 1..Len(calls)
    BY <1>2, <2>1, <2>2, TopCall DEF GoInv, Sorting
  <2>4. calls[1][1] >= 1
    BY <1>4, <2>3 DEF SortInv, RangesInv
  <2> QED
    BY <2>1, <2>3, <2>4 DEF Positions
<1>6. MovedAbove'
  <2>1. objProbs'[low] = objProbs[h]
    BY <1>1, <1>4, <1>5 DEF SortInv, ArraysInv
  <2> QED
    BY <1>1, <1>2, <1>5, <2>1 DEF MovedAbove
<1>7. PhaseLeft = 3 /\ PhaseLeft' = 3 /\ KeyLeft' = KeyLeft /\ TurnLeft = 1 /\ TurnLeft' = 0
  BY <1>2 DEF PhaseLeft, KeyLeft, TurnLeft
<1>8. CallsLeft' = CallsLeft /\ CallLeft' = CallLeft
  BY <1>2 DEF CallsLeft, CallLeft
<1>9. GapLeft' < GapLeft \/ GapLeft' = GapLeft
  <2>1. GapLeft = high - low /\ GapLeft' = h - low
    BY <1>1, <1>2 DEF GapLeft
  <2>2. h - low < high - low \/ h - low = high - low
    BY <1>5
  <2> QED
    BY <2>1, <2>2
<1>10. Less(WorkLeft', WorkLeft)
  BY <1>7, <1>8, <1>9, LessByParts DEF WorkLeft
<1> QED
  BY <1>2, <1>3, <1>6, <1>10 DEF GoInv

\* low passes the box above the key, and so the gap narrows or is closed.
LEMMA MoveFromLowGoesOn ==
    ASSUME GoInv, MoveFromLow
    PROVE  GoInv' /\ Less(WorkLeft', WorkLeft)
<1>1. PICK l \in low..high :
         /\ l = high \/ objProbs[l] < key
         /\ low' = l
         /\ pc' = IF l < high THEN "fromHigh" ELSE "place"
  BY DEF MoveFromLow
<1>2. /\ pc = "fromLow" /\ pc' \in {"fromHigh", "place"} /\ class_set' = class_set
      /\ calls' = calls /\ validCount' = validCount /\ high' = high
  BY <1>1 DEF MoveFromLow, suppressing, candidates
<1>3. PostInv' /\ StackInv' /\ MovedAbove' /\ IsFiniteSet(class_set')
  BY <1>2, NextPost DEF GoInv, Next, Sorting, StackInv, MovedAbove
<1>4. SortInv /\ Holed /\ CandidatesInv
  BY <1>2 DEF GoInv, PostInv, Sorting, Holed
<1>5. low \in Int /\ high \in Int /\ low <= high
  BY <1>4 DEF SortInv, PartitionInv
<1>6. l < high => low < l
  <2>1. SUFFICES ASSUME l < high, l = low
                 PROVE FALSE
    BY <1>5
  <2>2. objProbs[low] > key /\ objProbs[low] < key
    BY <1>1, <1>2, <1>5, <2>1 DEF GoInv, MovedAbove
  <2>3. low \in Positions
    <3>1. Len(calls) >= 1 /\ calls[1][1] <= low /\ high <= calls[1][2]
      BY <1>4 DEF SortInv, PartitionInv
    <3>2. calls # <<>>
      BY <3>1
    <3>3. /\ calls[1][1] \in Int /\ calls[1][2] \in Int /\ calls[1][2] <= validCount
          /\ validCount \in Nat /\ 1 \in 1..Len(calls)
      BY <1>2, <3>1, <3>2, TopCall DEF GoInv, Sorting
    <3>4. calls[1][1] >= 1
      BY <1>4, <3>3 DEF SortInv, RangesInv
    <3> QED
      BY <1>5, <3>1, <3>3, <3>4 DEF Positions
  <2>4. objProbs[low] \in Int /\ key \in Int
    BY <1>4, <2>3 DEF SortInv, ArraysInv, CandidatesInv
  <2> QED
    BY <2>2, <2>4
<1>7. PhaseLeft = 3 /\ PhaseLeft' = 3
  BY <1>2 DEF PhaseLeft
<1>8. CallsLeft' = CallsLeft /\ CallLeft' = CallLeft
  BY <1>2 DEF CallsLeft, CallLeft
<1>9. CASE l < high
  <2>1. pc' = "fromHigh"
    BY <1>1, <1>9
  <2>2. KeyLeft = 1 /\ KeyLeft' = 1 /\ GapLeft = high - low /\ GapLeft' = high - l
    BY <1>1, <1>2, <2>1 DEF KeyLeft, GapLeft
  <2>3. high - l < high - low
    BY <1>5, <1>6, <1>9
  <2> QED
    BY <1>2, <1>3, <1>7, <1>8, <2>2, <2>3, LessByParts DEF GoInv, WorkLeft
<1>10. CASE ~(l < high)
  <2>1. pc' = "place"
    BY <1>1, <1>10
  <2>2. KeyLeft = 1 /\ KeyLeft' = 0
    BY <1>2, <2>1 DEF KeyLeft
  <2> QED
    BY <1>2, <1>3, <1>7, <1>8, <2>2, LessByParts DEF GoInv, WorkLeft
<1> QED
  BY <1>9, <1>10

\* The calls for the two sides lie where the one for both lay.
LEMMA PlaceKeyGoesOn ==
    ASSUME GoInv, PlaceKey
    PROVE  GoInv' /\ Less(WorkLeft', WorkLeft)
<1> DEFINE L == calls[1][1]
           R == calls[1][2]
<1>1. /\ pc = "place" /\ pc' = "sort" /\ class_set' = class_set /\ validCount' = validCount
      /\ Sorting /\ Sorting' /\ Holed
  BY DEF PlaceKey, suppressing, candidates, Sorting, Holed
<1>2. PostInv' /\ MovedAbove' /\ IsFiniteSet(class_set')
  BY <1>1, NextPost DEF GoInv, Next, MovedAbove
<1>3. SortInv /\ StackInv /\ PostInv
  BY <1>1 DEF GoInv, PostInv
<1>4. Len(calls) >= 1 /\ low \in Int /\ L <= low /\ low <= R
  BY <1>1, <1>3 DEF SortInv, PartitionInv
<1>5. calls # <<>>
  BY <1>4
<1>6. /\ calls \in Seq(Int \X Int) /\ Len(calls) \in Nat \ {0} /\ Head(calls) = calls[1]
      /\ L \in Int /\ R \in Int /\ R <= validCount /\ validCount \in Nat
  BY <1>1, <1>3, <1>5, TopCall
<1>7. /\ calls' \in Seq(Int \X Int) /\ Len(calls') = Len(calls) + 1
      /\ calls'[1][1] = L /\ calls'[1][2] = low - 1 /\ calls'[2][1] = low + 1 /\ calls'[2][2] = R
      /\ \A k \in 3..Len(calls') : calls'[k] = calls[k - 1]
  <2> DEFINE two == << <<L, low - 1>>, <<low + 1, R>> >>
             tail == Tail(calls)
  <2>1. two \in Seq(Int \X Int) /\ Len(two) = 2 /\ two[1] = <<L, low - 1>> /\ two[2] = <<low + 1, R>>
    BY <1>4, <1>6
  <2>2. /\ tail \in Seq(Int \X Int) /\ Len(tail) = Len(calls) - 1
        /\ \A k \in 1..Len(calls) - 1 : tail[k] = calls[k + 1]
    BY <1>6
  <2>3. calls' = two \o tail
    BY <1>6 DEF PlaceKey
  <2> HIDE DEF two, tail
  <2>4. /\ two \o tail \in Seq(Int \X Int) /\ Len(two \o tail) = Len(two) + Len(tail)
        /\ \A k \in 1..Len(two) + Len(tail) :
              (two \o tail)[k] = IF k <= Len(two) THEN two[k] ELSE tail[k - Len(two)]
    BY <2>1, <2>2, ConcatProperties, Zenon
  <2>5. Len(calls') = Len(calls) + 1
    BY <1>6, <2>1, <2>2, <2>3, <2>4
  <2>6. calls'[1] = two[1] /\ calls'[2] = two[2]
    <3>1. 1 \in 1..Len(two) + Len(tail) /\ 2 \in 1..Len(two) + Len(tail)
      BY <1>6, <2>1, <2>2
    <3> QED
      BY <2>1, <2>3, <2>4, <3>1
  <2>7. ASSUME NEW k \in 3..Len(calls')
        PROVE calls'[k] = calls[k - 1]
    <3>1. k \in 1..Len(two) + Len(tail) /\ ~(k <= Len(two)) /\ k - Len(two) = k - 2
      BY <1>6, <2>1, <2>2, <2>5
    <3>2. calls'[k] = tail[k - 2]
      BY <2>3, <2>4, <3>1
    <3>3. k - 2 \in 1..Len(calls) - 1 /\ (k - 2) + 1 = k - 1
      BY <1>6, <2>5
    <3>4. tail[k - 2] = calls[(k - 2) + 1]
      BY <2>2, <3>3
    <3> QED
      BY <3>2, <3>3, <3>4
  <2> QED
    BY <2>1, <2>3, <2>4, <2>5, <2>6, <2>7
<1>7a. Len(calls) \in Nat /\ Len(calls') = Len(calls) + 1
  BY <1>6, <1>7
<1>8. ASSUME NEW k \in 1..Len(calls)
      PROVE /\ calls[k] \in Int \X Int
            /\ calls[k][1] <= calls[k][2] + 1
            /\ k < Len(calls) => calls[k][2] + 1 < calls[k + 1][1]
  BY <1>3, <1>6 DEF StackInv
<1>9. StackInv'
  <2>1. SUFFICES ASSUME NEW k \in 1..Len(calls')
                 PROVE /\ calls'[k][1] <= calls'[k][2] + 1
                       /\ k < Len(calls') => calls'[k][2] + 1 < calls'[k + 1][1]
    BY DEF StackInv
  <2>2. CASE k = 1
    <3>1. k + 1 = 2 /\ L <= (low - 1) + 1 /\ (low - 1) + 1 < low + 1
      BY <1>4, <1>6, <2>2
    <3> QED
      BY <1>7, <2>2, <3>1
  <2>3. CASE k = 2
    <3>1. low + 1 <= R + 1
      BY <1>4, <1>6
    <3>2. ASSUME 2 < Len(calls')
          PROVE R + 1 < calls'[3][1]
      <4>1. calls'[3] = calls[2]
        <5>1. 3 \in 3..Len(calls') /\ 3 - 1 = 2
          BY <1>6, <1>7, <3>2
        <5> QED
          BY <1>7, <5>1
      <4>2. 1 \in 1..Len(calls) /\ 1 < Len(calls) /\ 1 + 1 = 2
        BY <1>7a, <3>2
      <4>3. calls[1][2] + 1 < calls[1 + 1][1]
        BY <1>8, <4>2
      <4> QED
        BY <4>1, <4>2, <4>3
    <3>3. k + 1 = 3
      BY <2>3
    <3> QED
      BY <1>7, <2>3, <3>1, <3>2, <3>3
  <2>4. CASE k \notin {1, 2}
    <3>1. k \in 3..Len(calls') /\ k - 1 \in 1..Len(calls)
      BY <1>6, <1>7, <2>4
    <3>2. calls'[k] = calls[k - 1]
      BY <1>7, <3>1
    <3>3. ASSUME k < Len(calls')
          PROVE k - 1 < Len(calls) /\ calls'[k + 1] = calls[(k - 1) + 1]
      <4>1. k + 1 \in 3..Len(calls') /\ (k + 1) - 1 = (k - 1) + 1 /\ k - 1 < Len(calls)
        BY <1>7a, <3>1, <3>3
      <4>2. calls'[k + 1] = calls[(k + 1) - 1]
        BY <1>7, <4>1
      <4> QED
        BY <4>1, <4>2
    <3> QED
      BY <1>8, <3>1, <3>2, <3>3
  <2> QED
    BY <2>2, <2>3, <2>4
<1>10. PhaseLeft = 3 /\ PhaseLeft' = 3
  BY <1>1 DEF PhaseLeft
<1>11. /\ CallsLeft = validCount + 2 - L /\ CallsLeft' = validCount + 2 - L
       /\ CallLeft = R + 1 - L /\ CallLeft' = (low - 1) + 1 - L
  <2>1. calls' # <<>> /\ Head(calls') = calls'[1]
    BY <1>6, <1>7
  <2> QED
    BY <1>1, <1>5, <1>6, <1>7, <2>1 DEF CallsLeft, CallLeft
<1>12. (low - 1) + 1 - L < R + 1 - L
  BY <1>4, <1>6
<1>13. CallsLeft' = CallsLeft /\ CallLeft' < CallLeft
  BY <1>11, <1>12
<1>14. Less(WorkLeft', WorkLeft)
  BY <1>10, <1>13, LessByParts DEF WorkLeft
<1> QED
  BY <1>2, <1>9, <1>14 DEF GoInv

LEMMA SortEndsGoesOn ==
    ASSUME GoInv, SortEnds
    PROVE  GoInv' /\ Less(WorkLeft', WorkLeft)
<1>1. pc = "sort" /\ pc' = "nms" /\ class_set' = {classId[p] : p \in Positions}
  BY DEF SortEnds
<1>2. PostInv' /\ MovedAbove' /\ ~Sorting'
  BY <1>1, NextPost DEF GoInv, Next, MovedAbove, Sorting
<1>3. IsFiniteSet(class_set')
  <2>1. validCount \in Nat /\ classId \in [Positions -> Int]
    BY DEF GoInv, PostInv, CandidatesInv
  <2>2. IsFiniteSet(Positions)
    BY <2>1, FS_Interval DEF Positions
  <2>3. classId \in Surjection(Positions, class_set')
    BY <1>1, <2>1 DEF Surjection
  <2> QED
    BY <2>2, <2>3, FS_Surjection
<1>4. PhaseLeft = 3 /\ PhaseLeft' = 2
  BY <1>1 DEF PhaseLeft
<1>5. Less(WorkLeft', WorkLeft)
  BY <1>4, LessByParts DEF WorkLeft
<1> QED
  BY <1>2, <1>3, <1>5 DEF GoInv

LEMMA NmsGoesOn ==
    ASSUME GoInv, NextClass \/ NmsBox \/ NmsEnds
    PROVE  GoInv' /\ Less(WorkLeft', WorkLeft)
<1>1. pc = "nms" /\ pc' \in {"nms", "select"} /\ validCount' = validCount
  BY DEF NextClass, NmsBox, NmsEnds, candidates
<1>2. PostInv' /\ MovedAbove' /\ ~Sorting'
  BY <1>1, NextPost DEF GoInv, Next, MovedAbove, Sorting
<1>3. PhaseLeft = 2
  BY <1>1 DEF PhaseLeft
<1>4. CASE NextClass
  <2>1. PICK c \in class_set : class_set' = class_set \ {c}
    BY <1>4 DEF NextClass
  <2>2. IsFiniteSet(class_set') /\ Cardinality(class_set') = Cardinality(class_set) - 1
    BY <2>1, FS_RemoveElement DEF GoInv
  <2>3. Cardinality(class_set) \in Nat
    BY FS_CardinalityType DEF GoInv
  <2>4. Cardinality(class_set') < Cardinality(class_set)
    BY <2>2, <2>3
  <2>5. PhaseLeft' = 2
    BY <1>4 DEF NextClass, PhaseLeft
  <2>6. Less(WorkLeft', WorkLeft)
    BY <1>3, <2>4, <2>5, LessByParts DEF WorkLeft
  <2> QED
    BY <1>2, <2>2, <2>6 DEF GoInv
<1>5. CASE NmsBox
  <2>1. class_set' = class_set /\ i' = i + 1 /\ pc' = "nms"
    BY <1>5 DEF NmsBox, suppressing
  <2>2. i \in Int /\ validCount \in Nat
    BY <1>1 DEF GoInv, PostInv, NmsInv, CandidatesInv
  <2>3. PhaseLeft' = 2 /\ Cardinality(class_set') = Cardinality(class_set)
    BY <2>1 DEF PhaseLeft
  <2>4. PositionsLeft = validCount + 1 - i /\ PositionsLeft' = validCount + 1 - (i + 1)
    BY <1>1, <2>1 DEF PositionsLeft
  <2>5. validCount + 1 - (i + 1) < validCount + 1 - i
    BY <2>2
  <2>6. PositionsLeft' < PositionsLeft
    BY <2>4, <2>5
  <2>7. Less(WorkLeft', WorkLeft)
    BY <1>3, <2>3, <2>6, LessByParts DEF WorkLeft
  <2> QED
    BY <1>2, <2>1, <2>7 DEF GoInv
<1>6. CASE NmsEnds
  <2>1. class_set' = class_set /\ PhaseLeft' = 1
    BY <1>6 DEF NmsEnds, suppressing, PhaseLeft
  <2>2. Less(WorkLeft', WorkLeft)
    BY <1>3, <2>1, LessByParts DEF WorkLeft
  <2> QED
    BY <1>2, <2>1, <2>2 DEF GoInv
<1> QED
  BY <1>4, <1>5, <1>6

LEMMA SelectGoesOn ==
    ASSUME GoInv, SelectBox \/ SelectEnds
    PROVE  GoInv' /\ Less(WorkLeft', WorkLeft)
<1>1. /\ pc = "select" /\ pc' \in {"select", "done"} /\ validCount' = validCount
      /\ class_set' = class_set
  BY DEF SelectBox, SelectEnds, candidates, suppressing
<1>2. GoInv'
  BY <1>1, NextPost DEF GoInv, Next, MovedAbove, Sorting
<1>3. PhaseLeft = 1
  BY <1>1 DEF PhaseLeft
<1>4. CASE SelectBox
  <2>1. i' = i + 1 /\ pc' = "select"
    BY <1>1, <1>4 DEF SelectBox
  <2>2. i \in Int /\ validCount \in Nat
    BY <1>1 DEF GoInv, PostInv, NmsInv, CandidatesInv
  <2>3. PhaseLeft' = 1 /\ Cardinality(class_set') = Cardinality(class_set)
    BY <1>1, <2>1 DEF PhaseLeft
  <2>4. PositionsLeft = validCount + 1 - i /\ PositionsLeft' = validCount + 1 - (i + 1)
    BY <1>1, <2>1 DEF PositionsLeft
  <2>5. validCount + 1 - (i + 1) < validCount + 1 - i
    BY <2>2
  <2>6. PositionsLeft' < PositionsLeft
    BY <2>4, <2>5
  <2> QED
    BY <1>2, <1>3, <2>3, <2>6, LessByParts DEF WorkLeft
<1>5. CASE SelectEnds
  <2>1. PhaseLeft' = 0
    BY <1>5 DEF SelectEnds, PhaseLeft
  <2> QED
    BY <1>2, <1>3, <2>1, LessByParts DEF WorkLeft
<1> QED
  BY <1>4, <1>5

LEMMA InitGo == Init => GoInv
<1> SUFFICES ASSUME Init
             PROVE GoInv
  OBVIOUS
<1>1. PostInv
  BY InitPost
<1>2. MovedAbove /\ IsFiniteSet(class_set)
  BY FS_EmptySet DEF Init, MovedAbove
<1>3. StackInv
  <2>1. validCount \in Nat
    BY <1>1 DEF PostInv, CandidatesInv
  <2>2. calls = << <<1, validCount>> >> /\ Len(calls) = 1
    BY DEF Init
  <2> QED
    BY <2>1, <2>2 DEF StackInv
<1> QED
  BY <1>1, <1>2, <1>3 DEF GoInv

LEMMA NextGo ==
    ASSUME GoInv, [Next]_vars
    PROVE  GoInv' /\ (pc # "done" => [Less(WorkLeft', WorkLeft)]_vars)
<1>1. CASE Next /\ ~Returned
  BY <1>1, CallGoesOn, MoveFromHighGoesOn, MoveFromLowGoesOn, PlaceKeyGoesOn, SortEndsGoesOn,
     NmsGoesOn, SelectGoesOn
  DEF Next
<1>2. CASE Returned \/ UNCHANGED vars
  <2>1. UNCHANGED vars
    BY <1>2 DEF Returned
  <2>2. PostInv'
    BY NextPost DEF GoInv
  <2>3. /\ pc' = pc /\ calls' = calls /\ low' = low /\ high' = high /\ key' = key
        /\ objProbs' = objProbs /\ class_set' = class_set
    BY <2>1 DEF vars, sorting, suppressing
  <2> QED
    BY <2>1, <2>2, <2>3 DEF GoInv, Sorting, StackInv, MovedAbove
<1> QED
  BY <1>1, <1>2

\* post_process() returns: until it does, every step uses up something of what
\* is left, whatever ties there are between the scores.
THEOREM GoesOnCorrect == Spec => OnlyGoesOn
<1>1. Spec => []GoInv
  BY InitGo, NextGo, PTL DEF Spec
<1>2. GoInv /\ [Next]_vars => [pc # "done" => Less(WorkLeft', WorkLeft)]_vars
  BY NextGo
<1> QED
  BY <1>1, <1>2, PTL DEF Spec, OnlyGoesOn

\* What is left is counted in natural numbers, so there is an end to it.
THEOREM LeftIsNatural == Spec => [](WorkLeft \in Nat \X Nat \X Nat \X Nat \X Nat \X Nat)
<1>1. ASSUME GoInv
      PROVE WorkLeft \in Nat \X Nat \X Nat \X Nat \X Nat \X Nat
  <2>1. PhaseLeft \in Nat /\ KeyLeft \in Nat /\ TurnLeft \in Nat
    BY DEF PhaseLeft, KeyLeft, TurnLeft
  <2>2. Cardinality(class_set) \in Nat
    BY <1>1, FS_CardinalityType DEF GoInv
  <2>3. CASE Sorting
    <3>1. PhaseLeft = 3
      BY <2>3 DEF Sorting, PhaseLeft
    <3>2. CallsLeft \in Nat /\ CallLeft \in Nat
      <4>1. CASE calls = <<>>
        BY <4>1 DEF CallsLeft, CallLeft
      <4>2. CASE calls # <<>>
        <5>1. /\ Head(calls) = calls[1] /\ calls[1][1] \in Int /\ calls[1][2] \in Int
              /\ calls[1][2] <= validCount /\ validCount \in Nat /\ 1 \in 1..Len(calls)
          BY <1>1, <2>3, <4>2, TopCall DEF GoInv
        <5>2. calls[1][1] <= calls[1][2] + 1
          BY <1>1, <2>3, <5>1 DEF GoInv, StackInv
        <5>3. validCount + 2 - calls[1][1] \in Nat /\ calls[1][2] + 1 - calls[1][1] \in Nat
          BY <5>1, <5>2
        <5> QED
          BY <4>2, <5>1, <5>3 DEF CallsLeft, CallLeft
      <4> QED
        BY <4>1, <4>2
    <3>3. GapLeft \in Nat
      <4>1. CASE pc \in {"fromHigh", "fromLow"}
        <5>1. low \in Int /\ high \in Int /\ low <= high
          BY <1>1, <2>3, <4>1 DEF GoInv, PostInv, SortInv, PartitionInv, Holed
        <5>2. high - low \in Nat
          BY <5>1
        <5> QED
          BY <4>1, <5>2 DEF GapLeft
      <4> QED
        BY <4>1 DEF GapLeft
    <3> QED
      BY <2>1, <3>1, <3>2, <3>3 DEF WorkLeft
  <2>4. CASE ~Sorting
    <3>1. pc \in {"nms", "select", "done"} /\ NmsInv /\ validCount \in Nat
      BY <1>1, <2>4 DEF GoInv, PostInv, Sorting, CandidatesInv
    <3>2. PhaseLeft # 3
      BY <3>1 DEF PhaseLeft
    <3>3. PositionsLeft \in Nat
      <4>1. i \in 0..validCount + 1
        BY <3>1 DEF NmsInv
      <4>2. validCount + 1 - i \in Nat
        BY <3>1, <4>1
      <4> QED
        BY <4>2 DEF PositionsLeft
    <3> QED
      BY <2>1, <2>2, <3>2, <3>3 DEF WorkLeft
  <2> QED
    BY <2>3, <2>4
<1>2. Spec => []GoInv
  BY InitGo, NextGo, PTL DEF Spec
<1> QED
  BY <1>1, <1>2, PTL
=============================================================================
