----------------------------- MODULE PostProcess -----------------------------
(***************************************************************************)
(* yolov5s_postprocess.cpp: what post_process() does with the candidate    *)
(* boxes process() found in the three output tensors: it sorts them by     *)
(* score in place, an index array alongside (quick_sort_indice_inverse),   *)
(* suppresses overlapping boxes (nms) and takes the first                  *)
(* OBJ_NUMB_MAX_SIZE that are left.                                        *)
(*                                                                         *)
(* A candidate is its number, in the order in which process() pushed it;   *)
(* its score is an integer, and of its rectangle only the candidates it    *)
(* overlaps by more than nms_threshold matter.  Any symmetric relation     *)
(* between a few rectangles can be had with the threshold of the code.     *)
(* Positions count from 1, and None stands for the code's -1.  The label   *)
(* table post_process() reads is in module SharedStatics.                  *)
(***************************************************************************)
EXTENDS LexOrder, FiniteSets

CONSTANTS
    MaxCandidates,      \* most candidates in one frame
    Scores,             \* objProbs
    Classes,            \* class numbers
    OBJ_NUMB_MAX_SIZE   \* most results, 64 in the code

ASSUME PostProcessAssumption ==
    /\ MaxCandidates \in Nat
    /\ Scores \subseteq Int
    /\ Classes \subseteq Int
    /\ OBJ_NUMB_MAX_SIZE \in Nat

None == 0

VARIABLES
    validCount, score, classId, overlap,    \* what process() found
    pc,             \* "sort", "fromHigh", "fromLow", "place", "nms", "select", "done"
    objProbs,       \* scores, in the order of the sort
    indexArray,     \* candidates in the same order, None once suppressed
    calls,          \* calls of the sort still to do, as <<left, right>>
    low, high, key, key_index,              \* of the call in progress
    class_set,      \* classes nms() is still to be called for
    filterId,       \* the class of the present nms()
    i,              \* its loop variable, and that of the selection
    results

candidates == <<validCount, score, classId, overlap>>
sorting == <<calls, low, high, key, key_index>>
suppressing == <<class_set, filterId>>
vars == <<candidates, pc, objProbs, indexArray, sorting, suppressing, i, results>>

Positions == 1..validCount

-----------------------------------------------------------------------------
\* Symmetric relations on the candidates.
Overlaps(count) ==
    LET pairs == {p \in (1..count) \X (1..count) : p[1] < p[2]}
    IN {s \cup {<<p[2], p[1]>> : p \in s} : s \in SUBSET pairs}

\* The cells whose confidence reaches the threshold.  Without any, the group
\* stays empty.
Init ==
    /\ validCount \in 0..MaxCandidates
    /\ score \in [Positions -> Scores]
    /\ classId \in [Positions -> Classes]
    /\ overlap \in Overlaps(validCount)
    /\ pc = IF validCount = 0 THEN "done" ELSE "sort"
    /\ objProbs = score
    /\ indexArray = [p \in Positions |-> p]
    /\ calls = << <<1, validCount>> >>
    /\ low = 0 /\ high = 0 /\ key = 0 /\ key_index = 0
    /\ class_set = {} /\ filterId = 0
    /\ i = 0
    /\ results = <<>>

-----------------------------------------------------------------------------
(* quick_sort_indice_inverse.  Its recursion is the stack of calls.        *)

\* A call starts: the first element is the key, and leaves a hole at low.
Call ==
    /\ pc = "sort"
    /\ calls # <<>>
    /\ LET left == Head(calls)[1]
           right == Head(calls)[2]
       IN IF left < right
          THEN /\ low' = left
               /\ high' = right
               /\ key' = objProbs[left]
               /\ key_index' = indexArray[left]
               /\ pc' = "fromHigh"
               /\ UNCHANGED calls
          ELSE /\ calls' = Tail(calls)
               /\ UNCHANGED <<low, high, key, key_index, pc>>
    /\ UNCHANGED <<candidates, objProbs, indexArray, suppressing, i, results>>

\* The last element above the key, or low itself, fills the hole at low.
MoveFromHigh ==
    /\ pc = "fromHigh"
    /\ \E h \in low..high :
         /\ h = low \/ objProbs[h] > key
         /\ \A k \in h + 1..high : objProbs[k] <= key
         /\ high' = h
         /\ objProbs' = [objProbs EXCEPT ![low] = objProbs[h]]
         /\ indexArray' = [indexArray EXCEPT ![low] = indexArray[h]]
    /\ pc' = "fromLow"
    /\ UNCHANGED <<candidates, calls, low, key, key_index, suppressing, i, results>>

\* Fault: the index stays where it was.
MoveFromLowValueOnly ==
    /\ pc = "fromLow"
    /\ \E l \in low..high :
         /\ l = high \/ objProbs[l] < key
         /\ \A k \in low..l - 1 : objProbs[k] >= key
         /\ low' = l
         /\ objProbs' = [objProbs EXCEPT ![high] = objProbs[l]]
         /\ pc' = IF l < high THEN "fromHigh" ELSE "place"
    /\ UNCHANGED <<candidates, indexArray, calls, high, key, key_index, suppressing, i, results>>

\* The first element below the key, or high itself, fills the hole at high.
MoveFromLow ==
    /\ pc = "fromLow"
    /\ \E l \in low..high :
         /\ l = high \/ objProbs[l] < key
         /\ \A k \in low..l - 1 : objProbs[k] >= key
         /\ low' = l
         /\ objProbs' = [objProbs EXCEPT ![high] = objProbs[l]]
         /\ indexArray' = [indexArray EXCEPT ![high] = indexArray[l]]
         /\ pc' = IF l < high THEN "fromHigh" ELSE "place"
    /\ UNCHANGED <<candidates, calls, high, key, key_index, suppressing, i, results>>

\* Fault: the key is sorted once more, with the left side.
PlaceKeyKeepsIt ==
    /\ pc = "place"
    /\ objProbs' = [objProbs EXCEPT ![low] = key]
    /\ indexArray' = [indexArray EXCEPT ![low] = key_index]
    /\ calls' = << <<Head(calls)[1], low>>, <<low + 1, Head(calls)[2]>> >> \o Tail(calls)
    /\ pc' = "sort"
    /\ UNCHANGED <<candidates, low, high, key, key_index, suppressing, i, results>>

\* The key fills the hole; the two sides are sorted next, the left one first.
PlaceKey ==
    /\ pc = "place"
    /\ objProbs' = [objProbs EXCEPT ![low] = key]
    /\ indexArray' = [indexArray EXCEPT ![low] = key_index]
    /\ calls' = << <<Head(calls)[1], low - 1>>, <<low + 1, Head(calls)[2]>> >> \o Tail(calls)
    /\ pc' = "sort"
    /\ UNCHANGED <<candidates, low, high, key, key_index, suppressing, i, results>>

\* The sort returns.  The classes are those of all candidates.
SortEnds ==
    /\ pc = "sort"
    /\ calls = <<>>
    /\ class_set' = {classId[p] : p \in Positions}
    /\ i' = validCount + 1
    /\ pc' = "nms"
    /\ UNCHANGED <<candidates, objProbs, indexArray, sorting, filterId, results>>

-----------------------------------------------------------------------------
(* nms, once per class, in the order of std::set.                          *)

NextClass ==
    /\ pc = "nms"
    /\ i > validCount
    /\ \E c \in class_set :
         /\ \A d \in class_set : c <= d
         /\ filterId' = c
         /\ class_set' = class_set \ {c}
    /\ i' = 1
    /\ UNCHANGED <<candidates, pc, objProbs, indexArray, sorting, results>>

\* Fault: the box next to the present one is never compared.
NmsBoxSkipsNext ==
    /\ pc = "nms"
    /\ i <= validCount
    /\ indexArray' =
         IF indexArray[i] = None \/ classId[i] # filterId
         THEN indexArray
         ELSE [j \in Positions |-> IF j > i + 1 /\ <<indexArray[i], indexArray[j]>> \in overlap
                                   THEN None ELSE indexArray[j]]
    /\ i' = i + 1
    /\ UNCHANGED <<candidates, pc, objProbs, sorting, suppressing, results>>

\* Fault: better boxes are suppressed as well as worse ones.
NmsBoxBothWays ==
    /\ pc = "nms"
    /\ i <= validCount
    /\ indexArray' =
         IF indexArray[i] = None \/ classId[i] # filterId
         THEN indexArray
         ELSE [j \in Positions |-> IF j # i /\ <<indexArray[i], indexArray[j]>> \in overlap
                                   THEN None ELSE indexArray[j]]
    /\ i' = i + 1
    /\ UNCHANGED <<candidates, pc, objProbs, sorting, suppressing, results>>

\* The box at position i suppresses every later one it overlaps.  The class is
\* that of the candidate number i, not of the box at position i, and the class
\* of the other box plays no part.
NmsBox ==
    /\ pc = "nms"
    /\ i <= validCount
    /\ indexArray' =
         IF indexArray[i] = None \/ classId[i] # filterId
         THEN indexArray
         ELSE [j \in Positions |-> IF j > i /\ <<indexArray[i], indexArray[j]>> \in overlap
                                   THEN None ELSE indexArray[j]]
    /\ i' = i + 1
    /\ UNCHANGED <<candidates, pc, objProbs, sorting, suppressing, results>>

NmsEnds ==
    /\ pc = "nms"
    /\ i > validCount
    /\ class_set = {}
    /\ i' = 1
    /\ pc' = "select"
    /\ UNCHANGED <<candidates, objProbs, indexArray, sorting, suppressing, results>>

-----------------------------------------------------------------------------
\* One result per box that is left, as long as there is room.
SelectBox ==
    /\ pc = "select"
    /\ i <= validCount
    /\ results' = IF indexArray[i] = None \/ Len(results) >= OBJ_NUMB_MAX_SIZE
                  THEN results
                  ELSE Append(results, [box |-> indexArray[i], id |-> classId[indexArray[i]],
                                        prop |-> objProbs[i]])
    /\ i' = i + 1
    /\ UNCHANGED <<candidates, pc, objProbs, indexArray, sorting, suppressing>>

SelectEnds ==
    /\ pc = "select"
    /\ i > validCount
    /\ pc' = "done"
    /\ UNCHANGED <<candidates, objProbs, indexArray, sorting, suppressing, i, results>>

Returned == pc = "done" /\ UNCHANGED vars

Next ==
    \/ Call \/ MoveFromHigh \/ MoveFromLow \/ PlaceKey \/ SortEnds
    \/ NextClass \/ NmsBox \/ NmsEnds
    \/ SelectBox \/ SelectEnds
    \/ Returned

Spec == Init /\ [][Next]_vars

-----------------------------------------------------------------------------
(* Properties.                                                             *)

Ranks == 1..Len(results)
Kept == {results[r].box : r \in Ranks}
Overlap(a, b) == <<a, b>> \in overlap

\* The results come with the best first, no box twice, and each carries the
\* score and the class of its own box: the two arrays of the in-place sort
\* never get out of step, whatever ties there are.
ResultsRanked ==
    pc = "done" =>
        /\ \A r \in Ranks :
             /\ results[r].prop = score[results[r].box]
             /\ results[r].id = classId[results[r].box]
        /\ \A r, s \in Ranks : r < s => /\ results[r].prop >= results[s].prop
                                        /\ results[r].box # results[s].box

\* No two results overlap, of whatever classes: although nms() takes the class
\* by position, it takes every position exactly once.
KeptApart == pc = "done" => \A a, b \in Kept : a # b => ~Overlap(a, b)

OneClass == \A a, b \in Positions : classId[a] = classId[b]

\* A box is dropped only for a box that overlaps it and is no worse, or because
\* there are enough results no worse than it.  When all candidates have one
\* class, the box it is dropped for is itself a result, as in the greedy
\* suppression nms() implements; with several classes it need not be.
DroppedForBetter ==
    pc = "done" =>
        \A b \in Positions \ Kept :
            \/ \E a \in Positions :
                 /\ Overlap(a, b)
                 /\ score[a] >= score[b]
                 /\ OneClass /\ Len(results) < OBJ_NUMB_MAX_SIZE => a \in Kept
            \/ /\ Len(results) = OBJ_NUMB_MAX_SIZE
               /\ \A a \in Kept : score[a] >= score[b]

\* What post_process() has left: of the sort the positions from the left end of
\* the call on, the size of the call, whether its key is to be chosen or placed,
\* the gap between low and high and whose turn it is to move; of nms() the
\* classes and the positions; of the selection the positions.
PhaseLeft ==
    CASE pc = "done" -> 0
      [] pc = "select" -> 1
      [] pc = "nms" -> 2
      [] OTHER -> 3

CallsLeft == IF calls = <<>> THEN 0 ELSE validCount + 2 - Head(calls)[1]
CallLeft == IF calls = <<>> THEN 0 ELSE Head(calls)[2] + 1 - Head(calls)[1]

KeyLeft ==
    CASE pc = "sort" -> 2
      [] pc = "place" -> 0
      [] OTHER -> 1

GapLeft == IF pc \in {"fromHigh", "fromLow"} THEN high - low ELSE 0
TurnLeft == IF pc = "fromHigh" THEN 1 ELSE 0

PositionsLeft == IF pc = "done" THEN 0 ELSE validCount + 1 - i

WorkLeft ==
    IF PhaseLeft = 3
    THEN <<3, CallsLeft, CallLeft, KeyLeft, GapLeft, TurnLeft>>
    ELSE <<PhaseLeft, Cardinality(class_set), PositionsLeft, 0, 0, 0>>

\* post_process() returns: every step uses up something of what is left, so no
\* ties between scores keep low and high of the sort apart for ever, and no call
\* of it hands on all it was called for.
OnlyGoesOn == [][pc # "done" => Less(WorkLeft', WorkLeft)]_vars
=============================================================================
