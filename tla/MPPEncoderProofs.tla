-------------------------- MODULE MPPEncoderProofs --------------------------
(***************************************************************************)
(* Proofs about MPPEncoder, for any number of calls.  ReleasedOnce follows *)
(* from ObjectsInv, which says at each point of init(), of encode_frame()  *)
(* and of cleanup() which fields are set and which of their objects MPP    *)
(* still has; ShowsThisPicture from FramesInv, which follows the frames    *)
(* through MPP's two queues.                                               *)
(***************************************************************************)
EXTENDS MPPEncoder, TLAPS

PCs == {"init", "failed", "idle", "put", "get", "got", "cleanup", "destroyed"}

Encoding == {"idle", "put", "get", "got"}

\* Fields are acquired in the order of init() and released in that of cleanup().
ObjectsInv ==
    /\ pc \in PCs
    /\ step \in Nat
    /\ set \subseteq Fields /\ live \subseteq set
    /\ set \ live \subseteq {"mpp_ctx_"} /\ (set # live => calls = 0)
    /\ twice \subseteq {"mpp_ctx_"} /\ (twice # {} => calls = 0)
    /\ \A f \in live : MadeFrom(f) \subseteq live
    /\ calls \in Nat /\ lost \in Nat
    /\ pc \in {"init", "failed"} => calls = 0
    /\ pc \notin {"cleanup", "destroyed"} => twice = {}
    /\ lost <= calls /\ (pc \in {"put", "get"} => lost < calls)
    /\ pc = "init" =>
          /\ step \in 1..Len(InitSteps)
          /\ set = live
          /\ \A k \in 1..Len(InitSteps) :
                InitSteps[k] \in Fields => (InitSteps[k] \in set <=> k < step)
    /\ pc \in Encoding => set = live /\ Fields \ {"packet_"} \subseteq set
    /\ pc = "cleanup" =>
          /\ step \in 1..Len(CleanupOrder)
          /\ \A k \in 1..step - 1 : CleanupOrder[k] \notin set
    /\ pc = "destroyed" => set = {}

\* What MPP may have encoded before the next call.
Encodings(c) == {e \in [frame : Nat, shows : Nat] : e.frame <= e.shows /\ e.shows <= c}

\* As many frames are in MPP as gets came back empty, and one more between put
\* and get.
FramesInv ==
    /\ pc \in PCs
    /\ calls \in Nat /\ missed \in Nat
    /\ frm_buf = calls
    /\ accepted \in Seq(0..calls)
    /\ encoded \in Seq(Encodings(calls))
    /\ pc \notin {"get", "cleanup", "destroyed"} => Len(accepted) + Len(encoded) = missed
    /\ pc = "get" => Len(accepted) + Len(encoded) = missed + 1
    /\ pc = "get" /\ missed = 0 =>
          /\ \A k \in 1..Len(accepted) : accepted[k] = calls
          /\ \A k \in 1..Len(encoded) : encoded[k].frame = calls
    /\ pc = "got" =>
          /\ jpeg \in Encodings(calls)
          /\ missed = 0 => jpeg.frame = calls

-----------------------------------------------------------------------------
(* The objects.                                                            *)

\* The two orders, place by place.
LEMMA Orders ==
    /\ Len(InitSteps) = 11
    /\ InitSteps[1] = "mpp_ctx_" /\ InitSteps[2] = "mpp_init" /\ InitSteps[3] = "cfg_"
    /\ InitSteps[4] = "get_cfg" /\ InitSteps[5] = "set_cfg" /\ InitSteps[6] = "frm_grp_"
    /\ InitSteps[7] = "pkt_grp_" /\ InitSteps[8] = "frm_buf_" /\ InitSteps[9] = "frame_"
    /\ InitSteps[10] = "pkt_buf_" /\ InitSteps[11] = "packet_"
    /\ Len(CleanupOrder) = 8
    /\ CleanupOrder[1] = "packet_" /\ CleanupOrder[2] = "frame_" /\ CleanupOrder[3] = "pkt_buf_"
    /\ CleanupOrder[4] = "frm_buf_" /\ CleanupOrder[5] = "pkt_grp_"
    /\ CleanupOrder[6] = "frm_grp_" /\ CleanupOrder[7] = "cfg_" /\ CleanupOrder[8] = "mpp_ctx_"
BY DEF InitSteps, CleanupOrder

\* No two places hold the same, and cleanup() comes to every field.
LEMMA Places ==
    /\ \A j, k \in 1..11 : InitSteps[j] = InitSteps[k] => j = k
    /\ \A f \in Fields : \E k \in 1..8 : CleanupOrder[k] = f
<1>1. ASSUME NEW j \in 1..11, NEW k \in 1..11, InitSteps[j] = InitSteps[k]
      PROVE j = k
  <2>1. CASE j \in 1..5
    BY <1>1, <2>1, Orders
  <2>2. CASE j \in 6..11
    BY <1>1, <2>2, Orders
  <2>3. QED
    BY <2>1, <2>2
<1>2. ASSUME NEW f \in Fields
      PROVE \E k \in 1..8 : CleanupOrder[k] = f
  <2>1. CleanupOrder[1] = f \/ CleanupOrder[2] = f \/ CleanupOrder[3] = f \/ CleanupOrder[4] = f
        \/ CleanupOrder[5] = f \/ CleanupOrder[6] = f \/ CleanupOrder[7] = f \/ CleanupOrder[8] = f
    BY Orders DEF Fields
  <2>2. QED
    BY <2>1
<1> QED
  BY <1>1, <1>2

LEMMA Makers ==
    /\ MadeFrom("frm_buf_") = {"frm_grp_"} /\ MadeFrom("pkt_buf_") = {"pkt_grp_"}
    /\ MadeFrom("frame_") = {"frm_buf_"} /\ MadeFrom("packet_") = {"pkt_buf_"}
    /\ \A f \in {"mpp_ctx_", "cfg_", "frm_grp_", "pkt_grp_"} : MadeFrom(f) = {}
BY DEF MadeFrom

LEMMA InitObjects == Init => ObjectsInv
BY Orders DEF Init, ObjectsInv, PCs, Encoding, Fields

\* A step of init() acquires what it needs after what that is made from.
LEMMA InitStepObjects ==
    ASSUME ObjectsInv, InitStep
    PROVE ObjectsInv'
<1> DEFINE acquired == {InitSteps[step]} \cap Fields
<1>1. /\ step \in 1..11 /\ set = live /\ calls = 0 /\ lost = 0 /\ twice = {}
      /\ set' = set \cup acquired /\ live' = set' /\ step' = step + 1
      /\ UNCHANGED <<twice, lost, calls>>
      /\ pc' = IF step = 11 THEN "idle" ELSE "init"
  BY Orders DEF ObjectsInv, InitStep, frames
<1>2. \A k \in 1..11 : InitSteps[k] \in Fields => (InitSteps[k] \in set <=> k < step)
  BY Orders DEF ObjectsInv, InitStep
<1>3. ASSUME NEW k \in 1..11, InitSteps[k] \in Fields
      PROVE InitSteps[k] \in set' <=> k < step'
  <2>1. InitSteps[k] \in acquired <=> k = step
    BY <1>1, <1>3, Places
  <2>2. QED
    BY <1>1, <1>2, <1>3, <2>1
<1>4. \A f \in live' : MadeFrom(f) \subseteq live'
  <2>1. \A f \in live : MadeFrom(f) \subseteq live
    BY DEF ObjectsInv
  <2>2. \A f \in acquired : MadeFrom(f) \subseteq set
    BY <1>1, <1>2, Orders, Makers DEF Fields
  <2>3. QED
    BY <1>1, <2>1, <2>2
<1>5. step = 11 => Fields \subseteq set'
  BY <1>1, <1>3, Orders DEF Fields
<1>6. /\ calls' = 0 /\ lost' = 0 /\ twice' = {} /\ set' \subseteq Fields /\ live' = set'
      /\ step' \in Nat
  BY <1>1 DEF ObjectsInv
<1>7. CASE step = 11
  <2>1. pc' \in PCs /\ pc' = "idle" /\ Fields \ {"packet_"} \subseteq set'
    BY <1>1, <1>5, <1>7 DEF PCs
  <2>2. QED
    BY <1>4, <1>6, <2>1 DEF ObjectsInv, Encoding
<1>8. CASE step # 11
  <2>1. pc' \in PCs /\ pc' = "init" /\ step' \in 1..11
    BY <1>1, <1>8 DEF PCs
  <2>2. QED
    BY <1>3, <1>4, <1>6, <2>1, Orders DEF ObjectsInv, Encoding
<1> QED
  BY <1>7, <1>8

\* One that fails leaves at most the context behind, destroyed and still set.
LEMMA InitFailsObjects ==
    ASSUME ObjectsInv, InitFails
    PROVE ObjectsInv'
<1>1. CASE InitSteps[step] \in {"mpp_init", "cfg_"}
  <2>1. step \in {2, 3}
    BY <1>1, Orders DEF ObjectsInv, InitFails
  <2>2. \A k \in 1..11 : InitSteps[k] \in Fields => (InitSteps[k] \in set <=> k < step)
    BY Orders DEF ObjectsInv, InitFails
  <2>3. /\ "mpp_ctx_" \in set /\ "cfg_" \notin set /\ "frm_grp_" \notin set
        /\ "pkt_grp_" \notin set /\ "frm_buf_" \notin set /\ "frame_" \notin set
        /\ "pkt_buf_" \notin set /\ "packet_" \notin set
    BY <2>1, <2>2, Orders DEF Fields
  <2>4. set = {"mpp_ctx_"} /\ live = set
    BY <2>3 DEF ObjectsInv, InitFails, Fields
  <2>5. QED
    BY <1>1, <2>4 DEF ObjectsInv, InitFails, frames, PCs, Encoding
<1>2. CASE InitSteps[step] \notin {"mpp_init", "cfg_"}
  BY <1>2 DEF ObjectsInv, InitFails, frames, PCs, Encoding
<1> QED
  BY <1>1, <1>2

\* cleanup() releases nothing that another object is still made from.
LEMMA CleanupObjects ==
    ASSUME ObjectsInv, CleanupField
    PROVE ObjectsInv'
<1> DEFINE f == CleanupOrder[step]
<1>1. /\ step \in 1..8 /\ live \subseteq set /\ set \ live \subseteq {"mpp_ctx_"}
      /\ \A k \in 1..step - 1 : CleanupOrder[k] \notin set
      /\ set' = set \ {f} /\ live' = live \ {f} /\ step' = step + 1
      /\ UNCHANGED <<lost, calls>>
      /\ twice' = IF f \in set \ live THEN twice \cup {f} ELSE twice
      /\ pc' = IF step = 8 THEN "destroyed" ELSE "cleanup"
  BY Orders DEF ObjectsInv, CleanupField, frames
<1>2. \A k \in 1..step : CleanupOrder[k] \notin set'
  BY <1>1
<1>3. \A g \in live' : MadeFrom(g) \subseteq live'
  <2>1. \A g \in live' : g \in Fields /\ MadeFrom(g) \subseteq live
    BY <1>1 DEF ObjectsInv
  <2>2. \A g \in live' : f \notin MadeFrom(g)
    BY <1>1, <1>2, <2>1, Orders, Makers DEF Fields
  <2>3. QED
    BY <1>1, <2>1, <2>2
<1>4. step = 8 => set' = {}
  BY <1>1, <1>2, Places DEF ObjectsInv
<1>5. twice' \subseteq {"mpp_ctx_"} /\ (twice' # {} => calls' = 0)
  BY <1>1 DEF ObjectsInv
<1>6. /\ set' \subseteq Fields /\ live' \subseteq set'
      /\ set' \ live' \subseteq {"mpp_ctx_"} /\ (set' # live' => calls' = 0)
  BY <1>1 DEF ObjectsInv
<1>7. lost' <= calls' /\ lost' \in Nat /\ calls' \in Nat
  BY <1>1 DEF ObjectsInv, CleanupField
<1>8. CASE step = 8
  BY <1>1, <1>3, <1>4, <1>5, <1>6, <1>7, <1>8 DEF ObjectsInv, PCs, Encoding
<1>9. CASE step # 8
  <2>1. pc' = "cleanup" /\ step' \in 1..8 /\ \A k \in 1..step' - 1 : CleanupOrder[k] \notin set'
    BY <1>1, <1>2, <1>9
  <2>2. QED
    BY <1>1, <1>3, <1>5, <1>6, <1>7, <2>1, Orders DEF ObjectsInv, PCs, Encoding
<1> QED
  BY <1>8, <1>9

\* What encode_frame() does to packet_ alone.
LEMMA PacketObjects ==
    ASSUME ObjectsInv, GetPacket \/ GetNothing
    PROVE ObjectsInv'
<1>1. /\ set = live /\ Fields \ {"packet_"} \subseteq set /\ pc' \in {"idle", "got"}
      /\ set' = live' /\ set' \subseteq Fields /\ Fields \ {"packet_"} \subseteq set'
      /\ UNCHANGED <<step, twice, calls>>
  BY DEF ObjectsInv, GetPacket, GetNothing, Encoding, Fields
<1>2. lost' \in Nat /\ lost' <= calls
  BY DEF ObjectsInv, GetPacket, GetNothing, Overwritten
<1>3. \A f \in live' : MadeFrom(f) \subseteq live'
  BY <1>1, Makers DEF Fields
<1>4. /\ step' \in Nat /\ calls' \in Nat /\ twice' = {}
  BY <1>1 DEF ObjectsInv, GetPacket, GetNothing
<1>5. /\ pc' \in PCs /\ pc' \notin {"init", "failed", "put", "get", "cleanup", "destroyed"}
  BY <1>1 DEF PCs
<1>6. lost' <= calls'
  BY <1>1, <1>2
<1>7. /\ set' \subseteq Fields /\ live' \subseteq set'
      /\ set' \ live' \subseteq {"mpp_ctx_"} /\ (set' # live' => calls' = 0)
      /\ pc' \in Encoding => set' = live' /\ Fields \ {"packet_"} \subseteq set'
  BY <1>1
<1> QED
  BY <1>2, <1>3, <1>4, <1>5, <1>6, <1>7 DEF ObjectsInv

\* cleanup() starts at its first field with what init() and the calls left.
LEMMA BeginObjects ==
    ASSUME ObjectsInv, BeginCleanup
    PROVE ObjectsInv'
<1>1. /\ step' = 1 /\ UNCHANGED <<set, live, twice, lost, calls>> /\ pc' = "cleanup"
  BY DEF BeginCleanup, frames
<1>2. step' \in 1..Len(CleanupOrder) /\ \A k \in 1..step' - 1 : CleanupOrder[k] \notin set'
  BY <1>1, Orders
<1>3. /\ lost' = lost /\ calls' = calls /\ twice' = twice /\ set' = set /\ live' = live
  BY <1>1
<1>4. /\ lost \in Nat /\ calls \in Nat /\ lost <= calls /\ twice \subseteq {"mpp_ctx_"}
      /\ twice # {} => calls = 0
      /\ set \subseteq Fields /\ live \subseteq set /\ set \ live \subseteq {"mpp_ctx_"}
      /\ set # live => calls = 0
      /\ \A f \in live : MadeFrom(f) \subseteq live
  BY DEF ObjectsInv
<1>5. step' \in Nat
  BY <1>1
<1> QED
  BY <1>1, <1>2, <1>3, <1>4, <1>5 DEF ObjectsInv, PCs, Encoding

LEMMA NextObjects == ObjectsInv /\ [Next]_vars => ObjectsInv'
<1> SUFFICES ASSUME ObjectsInv, [Next]_vars
             PROVE ObjectsInv'
  OBVIOUS
<1>1. CASE Convert \/ PutFrame \/ PutFails \/ Return
  <2>1. /\ UNCHANGED <<step, set, live, twice, lost>> /\ pc \in Encoding
        /\ pc' \in PCs /\ pc' \in Encoding
    BY <1>1 DEF Convert, PutFrame, PutFails, Return, objects, frames, PCs, Encoding
  <2>2. /\ lost \in Nat /\ calls \in Nat /\ calls' \in Nat
        /\ twice = {}
        /\ lost <= calls' /\ (pc' \in {"put", "get"} => lost < calls')
    BY <1>1 DEF ObjectsInv, Convert, PutFrame, PutFails, Return, objects, frames, PCs, Encoding
  <2>3. QED
    BY <2>1, <2>2 DEF ObjectsInv, Encoding
<1>2. CASE Encode \/ UNCHANGED vars
  BY <1>2 DEF ObjectsInv, Encode, vars, objects, frames
<1> QED
  BY <1>1, <1>2, InitStepObjects, InitFailsObjects, BeginObjects, CleanupObjects, PacketObjects
     DEF Next

\* Whatever fails, cleanup() gives every object back in order and once, but for
\* the context that init() destroyed itself.
THEOREM ReleaseOnceCorrect == Spec => []ReleasedOnce
<1>1. ObjectsInv => ReleasedOnce
  BY DEF ObjectsInv, ReleasedOnce
<1> QED
  BY <1>1, InitObjects, NextObjects, PTL DEF Spec

-----------------------------------------------------------------------------
(* The frames.                                                             *)

LEMMA InitFrames == Init => FramesInv
BY DEF Init, FramesInv, PCs

\* A later call allows all that an earlier one did.
LEMMA LaterCall ==
    ASSUME NEW c \in Nat
    PROVE  /\ \A s \in Seq(0..c) : s \in Seq(0..(c + 1))
           /\ \A s \in Seq(Encodings(c)) : s \in Seq(Encodings(c + 1))
<1>1. 0..c \subseteq 0..(c + 1)
  OBVIOUS
<1>2. Encodings(c) \subseteq Encodings(c + 1)
  <2>1. ASSUME NEW e \in [frame : Nat, shows : Nat], e.shows <= c
        PROVE e.shows <= c + 1
    BY <2>1
  <2>2. QED
    BY <2>1 DEF Encodings
<1>3. ASSUME NEW S, NEW T, S \subseteq T, NEW s \in Seq(S)
      PROVE s \in Seq(T)
  BY <1>3
<1> QED
  BY <1>1, <1>2, <1>3

LEMMA ConvertFrames ==
    ASSUME FramesInv, Convert
    PROVE FramesInv'
<1>1. /\ pc = "idle" /\ pc' = "put" /\ calls \in Nat /\ calls' = calls + 1 /\ frm_buf' = calls'
      /\ accepted' = accepted /\ encoded' = encoded /\ missed' = missed
  BY DEF FramesInv, Convert
<1>2. accepted' \in Seq(0..calls') /\ encoded' \in Seq(Encodings(calls'))
  BY <1>1, LaterCall DEF FramesInv
<1>3. missed \in Nat /\ Len(accepted) + Len(encoded) = missed
  BY <1>1 DEF FramesInv
<1> QED
  BY <1>1, <1>2, <1>3 DEF FramesInv, PCs

\* MPP encodes the first frame it has accepted, and no picture in the buffer is
\* newer than the last call.
LEMMA EncodeFrames ==
    ASSUME FramesInv, Encode
    PROVE FramesInv'
<1> DEFINE e == [frame |-> Head(accepted), shows |-> frm_buf]
<1>1. /\ pc' = pc /\ calls' = calls /\ frm_buf' = frm_buf /\ missed' = missed /\ jpeg' = jpeg
      /\ accepted # <<>> /\ accepted' = Tail(accepted) /\ encoded' = Append(encoded, e)
  BY DEF Encode
<1>2. /\ calls \in Nat /\ accepted \in Seq(0..calls) /\ encoded \in Seq(Encodings(calls))
      /\ frm_buf = calls
  BY DEF FramesInv
<1>3. /\ Head(accepted) = accepted[1] /\ accepted[1] \in 0..calls /\ Len(accepted) \in Nat \ {0}
      /\ Len(accepted') = Len(accepted) - 1
      /\ \A k \in 1..Len(accepted') : accepted'[k] = accepted[k + 1]
      /\ accepted' \in Seq(0..calls)
  BY <1>1, <1>2
<1>4. e \in Encodings(calls) /\ e.frame = accepted[1]
  BY <1>2, <1>3 DEF Encodings
<1> HIDE DEF e
<1>5. /\ Len(encoded') = Len(encoded) + 1 /\ Len(encoded) \in Nat
      /\ encoded' \in Seq(Encodings(calls))
      /\ \A k \in 1..Len(encoded') : encoded'[k] = IF k <= Len(encoded) THEN encoded[k] ELSE e
  BY <1>1, <1>2, <1>4
<1>6. Len(accepted') + Len(encoded') = Len(accepted) + Len(encoded)
  BY <1>3, <1>5
<1>7. ASSUME \A k \in 1..Len(accepted) : accepted[k] = calls,
             \A k \in 1..Len(encoded) : encoded[k].frame = calls
      PROVE /\ \A k \in 1..Len(accepted') : accepted'[k] = calls
            /\ \A k \in 1..Len(encoded') : encoded'[k].frame = calls
  BY <1>3, <1>4, <1>5, <1>7
<1>8. accepted' \in Seq(0..calls') /\ encoded' \in Seq(Encodings(calls'))
  BY <1>1, <1>3, <1>5
<1> QED
  BY <1>1, <1>6, <1>7, <1>8 DEF FramesInv

LEMMA PutFrames ==
    ASSUME FramesInv, PutFrame
    PROVE FramesInv'
<1>1. /\ pc = "put" /\ pc' = "get" /\ accepted' = Append(accepted, calls)
      /\ calls' = calls /\ frm_buf' = frm_buf /\ encoded' = encoded /\ missed' = missed
  BY DEF PutFrame
<1>2. /\ calls \in Nat /\ missed \in Nat /\ accepted \in Seq(0..calls)
      /\ encoded \in Seq(Encodings(calls)) /\ Len(accepted) + Len(encoded) = missed
      /\ frm_buf = calls
  BY <1>1 DEF FramesInv
<1>3. /\ Len(accepted') = Len(accepted) + 1 /\ Len(accepted) \in Nat /\ Len(encoded) \in Nat
      /\ accepted' \in Seq(0..calls)
      /\ \A k \in 1..Len(accepted') : accepted'[k] = IF k <= Len(accepted) THEN accepted[k] ELSE calls
  BY <1>1, <1>2
<1>4. Len(accepted') + Len(encoded) = missed + 1
  BY <1>2, <1>3
<1>5. missed = 0 => /\ \A k \in 1..Len(accepted') : accepted'[k] = calls
                   /\ \A k \in 1..Len(encoded) : encoded[k].frame = calls
  <2>1. missed = 0 => Len(accepted) = 0 /\ Len(encoded) = 0
    BY <1>2, <1>3
  <2>2. QED
    BY <1>3, <2>1
<1> QED
  BY <1>1, <1>2, <1>3, <1>4, <1>5 DEF FramesInv, PCs

LEMMA GetFrames ==
    ASSUME FramesInv, GetPacket
    PROVE FramesInv'
<1>1. /\ pc = "get" /\ pc' = "got" /\ encoded # <<>>
      /\ encoded' = Tail(encoded) /\ jpeg' = Head(encoded)
      /\ calls' = calls /\ frm_buf' = frm_buf /\ accepted' = accepted /\ missed' = missed
  BY DEF GetPacket
<1>2. /\ calls \in Nat /\ missed \in Nat /\ accepted \in Seq(0..calls)
      /\ encoded \in Seq(Encodings(calls)) /\ Len(accepted) + Len(encoded) = missed + 1
      /\ frm_buf = calls
      /\ missed = 0 => \A k \in 1..Len(encoded) : encoded[k].frame = calls
  BY <1>1 DEF FramesInv
<1>3. /\ jpeg' = encoded[1] /\ encoded[1] \in Encodings(calls) /\ Len(encoded) \in Nat \ {0}
      /\ Len(encoded') = Len(encoded) - 1 /\ encoded' \in Seq(Encodings(calls))
  BY <1>1, <1>2
<1>4. Len(accepted) + Len(encoded') = missed
  BY <1>2, <1>3
<1> QED
  BY <1>1, <1>2, <1>3, <1>4 DEF FramesInv, PCs

LEMMA NextFrames == FramesInv /\ [Next]_vars => FramesInv'
<1> SUFFICES ASSUME FramesInv, [Next]_vars
             PROVE FramesInv'
  OBVIOUS
<1>1. CASE InitStep \/ InitFails \/ BeginCleanup \/ CleanupField
  <2>1. /\ UNCHANGED frames /\ pc \notin {"get", "got", "destroyed"}
        /\ pc' \in PCs /\ pc' \notin {"get", "got"}
        /\ pc = "cleanup" => pc' \in {"cleanup", "destroyed"}
    BY <1>1 DEF InitStep, InitFails, BeginCleanup, CleanupField, PCs
  <2>2. QED
    BY <2>1 DEF FramesInv, frames
<1>3. CASE PutFails \/ Return
  BY <1>3 DEF FramesInv, PutFails, Return, frames, PCs
<1>4. CASE GetNothing
  BY <1>4 DEF FramesInv, GetNothing, PCs
<1>5. CASE UNCHANGED vars
  BY <1>5 DEF FramesInv, vars, frames
<1> QED
  BY <1>1, <1>3, <1>4, <1>5, ConvertFrames, EncodeFrames, PutFrames, GetFrames DEF Next

\* A JPEG is of the call that returns it until a get comes back empty, and
\* never shows a picture from before its frame, for any number of calls.
THEOREM PictureCorrect == Spec => []ShowsThisPicture
<1>1. FramesInv => ShowsThisPicture
  <2>1. FramesInv /\ pc = "got" => jpeg \in Encodings(calls)
    BY DEF FramesInv
  <2>2. QED
    BY <2>1 DEF FramesInv, ShowsThisPicture, Encodings
<1> QED
  BY <1>1, InitFrames, NextFrames, PTL DEF Spec
=============================================================================
