------------------------------ MODULE LexOrder ------------------------------
(***************************************************************************)
(* The lexicographic order on tuples of natural numbers of one length, in  *)
(* which the first component that differs decides.  The modules use it to  *)
(* say of a thread that every step of it uses something up.                *)
(***************************************************************************)
EXTENDS Integers, Sequences

Less(r, q) ==
    \E j \in 1 .. Len(q) :
        /\ r[j] < q[j]
        /\ \A i \in 1 .. (j - 1) : r[i] = q[i]
=============================================================================
