----------------------------- MODULE MPPEncoder -----------------------------
(***************************************************************************)
(* mpp_encoder.cpp: the JPEG encoder of a streamer over Rockchip's MPP.    *)
(* init() acquires its objects one after another and any step may fail;    *)
(* encode_frame() writes the picture into the only frame buffer, puts the  *)
(* frame and gets a packet; the destructor releases what there is.         *)
(*                                                                         *)
(* MPP itself is external.  It encodes the frames it accepted in their     *)
(* order and at its own pace, reading the buffer when it does, and a get   *)
(* may come back without a packet.  A picture is the number of the call    *)
(* that wrote it.                                                          *)
(***************************************************************************)
EXTENDS Integers, Sequences, FiniteSets

CONSTANT MaxCalls   \* calls of encode_frame, bounded to keep the model finite

ASSUME MPPEncoderAssumption == MaxCalls \in Nat

\* The members that point to an object of MPP.
Fields == {"mpp_ctx_", "cfg_", "frm_grp_", "pkt_grp_", "frm_buf_", "frame_", "pkt_buf_", "packet_"}

\* What init() and prepare_frame_buffer() do that can fail, in their order.  All
\* but three steps acquire the object of a field.
InitSteps == <<"mpp_ctx_", "mpp_init", "cfg_", "get_cfg", "set_cfg", "frm_grp_", "pkt_grp_",
               "frm_buf_", "frame_", "pkt_buf_", "packet_">>

\* Fault: the groups are put before the buffers taken from them.
GroupsFirst == <<"packet_", "frame_", "pkt_grp_", "frm_grp_", "pkt_buf_", "frm_buf_",
                 "cfg_", "mpp_ctx_">>

\* The order of cleanup().
CleanupOrder == <<"packet_", "frame_", "pkt_buf_", "frm_buf_", "pkt_grp_", "frm_grp_",
                  "cfg_", "mpp_ctx_">>

\* The object that an object was made from.
MadeFrom(f) ==
    CASE f = "frm_buf_" -> {"frm_grp_"}
      [] f = "pkt_buf_" -> {"pkt_grp_"}
      [] f = "frame_" -> {"frm_buf_"}
      [] f = "packet_" -> {"pkt_buf_"}
      [] OTHER -> {}

VARIABLES
    pc,         \* "init", "failed", "idle", "put", "get", "got", "cleanup", "destroyed"
    step,       \* position in InitSteps, then in CleanupOrder
    set,        \* the fields that are not NULL
    live,       \* the fields whose object MPP still has
    twice,      \* the fields whose object was released when MPP no longer had it
    lost,       \* packets that no field points to any more
    calls,      \* calls of encode_frame that wrote their picture
    frm_buf,    \* the picture in the frame buffer
    accepted,   \* frames MPP has still to encode, by their calls
    encoded,    \* frames it has encoded, with the picture they show
    missed,     \* gets after a put that came back without a packet
    jpeg        \* the frame that encode_frame() last returned

objects == <<step, set, live, twice>>
frames == <<calls, frm_buf, accepted, encoded, missed, jpeg>>
vars == <<pc, objects, lost, frames>>

NoJpeg == [frame |-> 0, shows |-> 0]

Init ==
    /\ pc = "init"
    /\ step = 1
    /\ set = {}
    /\ live = {}
    /\ twice = {}
    /\ lost = 0
    /\ calls = 0
    /\ frm_buf = 0
    /\ accepted = <<>>
    /\ encoded = <<>>
    /\ missed = 0
    /\ jpeg = NoJpeg

-----------------------------------------------------------------------------
(* init() and the destructor.                                              *)

InitStep ==
    /\ pc = "init"
    /\ LET acquired == {InitSteps[step]} \cap Fields
       IN /\ set' = set \cup acquired
          /\ live' = live \cup acquired
    /\ step' = step + 1
    /\ pc' = IF step = Len(InitSteps) THEN "idle" ELSE "init"
    /\ UNCHANGED <<twice, lost, frames>>

\* init() returns -1.  After mpp_init and mpp_enc_cfg_init it has destroyed the
\* context, which the field still points to.
InitFails ==
    /\ pc = "init"
    /\ pc' = "failed"
    /\ live' = IF InitSteps[step] \in {"mpp_init", "cfg_"} THEN live \ {"mpp_ctx_"} ELSE live
    /\ UNCHANGED <<step, set, twice, lost, frames>>

\* The destructor; the encoder's thread is no longer in encode_frame().
BeginCleanup ==
    /\ pc \in {"failed", "idle"}
    /\ pc' = "cleanup"
    /\ step' = 1
    /\ UNCHANGED <<set, live, twice, lost, frames>>

\* One field of cleanup(): released, and NULL from then on.
CleanupField ==
    /\ pc = "cleanup"
    /\ LET f == CleanupOrder[step]
       IN /\ set' = set \ {f}
          /\ live' = IF f \in set THEN live \ {f} ELSE live
          /\ twice' = IF f \in set \ live THEN twice \cup {f} ELSE twice
    /\ step' = step + 1
    /\ pc' = IF step = Len(CleanupOrder) THEN "destroyed" ELSE "cleanup"
    /\ UNCHANGED <<lost, frames>>

-----------------------------------------------------------------------------
(* encode_frame().  A picture of another size is refused before anything   *)
(* has changed.                                                            *)

\* Fault: a picture that was refused is put all the same.
ConvertUnchecked ==
    /\ pc = "idle"
    /\ calls < MaxCalls
    /\ calls' = calls + 1
    /\ frm_buf' \in {frm_buf, calls'}
    /\ jpeg' = NoJpeg
    /\ pc' = "put"
    /\ UNCHANGED <<objects, lost, accepted, encoded, missed>>

\* convert_mat_to_yuv420 writes the picture into the frame buffer.
Convert ==
    /\ pc = "idle"
    /\ calls < MaxCalls
    /\ calls' = calls + 1
    /\ frm_buf' = calls'
    /\ jpeg' = NoJpeg
    /\ pc' = "put"
    /\ UNCHANGED <<objects, lost, accepted, encoded, missed>>

PutFrame ==
    /\ pc = "put"
    /\ accepted' = Append(accepted, calls)
    /\ pc' = "get"
    /\ UNCHANGED <<objects, lost, calls, frm_buf, encoded, missed, jpeg>>

PutFails ==
    /\ pc = "put"
    /\ pc' = "idle"
    /\ UNCHANGED <<objects, lost, frames>>

\* MPP encodes the frame that is next, from what the buffer holds now.
Encode ==
    /\ accepted # <<>>
    /\ "mpp_ctx_" \in live
    /\ encoded' = Append(encoded, [frame |-> Head(accepted), shows |-> frm_buf])
    /\ accepted' = Tail(accepted)
    /\ UNCHANGED <<pc, objects, lost, calls, frm_buf, missed, jpeg>>

\* Whatever packet_ pointed to, nothing does after MPP has stored into it.
Overwritten == IF "packet_" \in set THEN 1 ELSE 0

\* The packet is copied into jpeg_data and released, and packet_ made anew over
\* pkt_buf_, which nobody checks.
GetPacket ==
    /\ pc = "get"
    /\ encoded # <<>>
    /\ jpeg' = Head(encoded)
    /\ encoded' = Tail(encoded)
    /\ lost' = lost + Overwritten
    /\ \/ set' = set \cup {"packet_"} /\ live' = live \cup {"packet_"}
       \/ set' = set \ {"packet_"} /\ live' = live \ {"packet_"}
    /\ pc' = "got"
    /\ UNCHANGED <<step, twice, calls, frm_buf, accepted, missed>>

\* No packet: an error, or success with NULL stored into packet_.
GetNothing ==
    /\ pc = "get"
    /\ \/ UNCHANGED <<set, live, lost>>
       \/ /\ lost' = lost + Overwritten
          /\ set' = set \ {"packet_"}
          /\ live' = live \ {"packet_"}
    /\ missed' = missed + 1
    /\ pc' = "idle"
    /\ UNCHANGED <<step, twice, calls, frm_buf, accepted, encoded, jpeg>>

\* encode_frame() returns the JPEG to encoder_worker.
Return ==
    /\ pc = "got"
    /\ pc' = "idle"
    /\ UNCHANGED <<objects, lost, frames>>

Next ==
    \/ InitStep \/ InitFails \/ BeginCleanup \/ CleanupField
    \/ Convert \/ PutFrame \/ PutFails \/ Encode \/ GetPacket \/ GetNothing \/ Return

Spec == Init /\ [][Next]_vars

-----------------------------------------------------------------------------
(* Properties.                                                             *)

\* A JPEG shows no picture older than its frame nor newer than the call that
\* returns it: the only frame buffer is written anew while frames may be
\* waiting.  It is of this very call as long as no get has come back empty, and
\* from then on as many frames stay behind as gets came back so.
ShowsThisPicture ==
    pc = "got" =>
        /\ jpeg.frame <= jpeg.shows
        /\ jpeg.shows <= calls
        /\ missed = 0 => jpeg.frame = calls
        /\ Len(accepted) + Len(encoded) = missed

\* Whichever step of init() fails and however many frames were encoded, cleanup
\* releases every object that was acquired, after all those made from it, and
\* none twice: except the context, if init() has destroyed it already, and the
\* packets overwritten, one at most for each get.
ReleasedOnce ==
    /\ \A f \in live : MadeFrom(f) \subseteq live
    /\ pc = "destroyed" => live = {} /\ set = {}
    /\ twice \subseteq {"mpp_ctx_"}
    /\ twice # {} => calls = 0
    /\ lost <= calls
=============================================================================
