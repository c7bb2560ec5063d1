------------------------ MODULE FFmpegStreamChannel ------------------------
(***************************************************************************)
(* One FFmpegStreamChannel (src/src/ffmpeg.cpp, ffmpeg.h): its             *)
(* constructor, decode_continuous() with the sessions decode() runs one    *)
(* after the other, cleanup_ffmpeg_contexts() and the destructor.  All of  *)
(* it is one thread; stop_processing() may be called by another one at any *)
(* time.  What FFmpeg, DRM, RGA, RKNN and the input do is nondeterminism.  *)
(* pc = "crashed" stands for undefined behaviour the code runs into.       *)
(***************************************************************************)
EXTENDS Integers, Sequences, LexOrder

CONSTANTS MaxFailures,         \* max_consecutive_failures, 5 in the code
          PacketsPerSession,   \* bound: packets of an input file
          DecoderDepth,        \* bound: frames a decoder holds
          LiveSource           \* the input is a camera that need not end

ASSUME ChannelAssumption ==
    /\ MaxFailures \in Nat \ {0}
    /\ PacketsPerSession \in Nat
    /\ DecoderDepth \in Nat \ {0}
    /\ LiveSource \in BOOLEAN

VARIABLES
    pc,              \* where the channel's thread is
    shouldStop,      \* should_stop_processing
    softwareOnly,    \* use_software_only
    buffers,         \* which of drm_buf_for_rga1 and drm_buf_for_rga2 are mapped
    model,           \* init_rknn2 loaded the model
    restarted,       \* restart_count > 1
    failures,        \* consecutive_failures
    recent,          \* history: what the last MaxFailures sessions returned
    result,          \* what decode and then decode_continuous returned
    formatCtx,       \* format_context_input is set
    ctxVideo,        \* codec_ctx_input_video: "null", "allocated" or "open"
    ctxAudio,        \* codec_ctx_input_audio is set
    codecVideo,      \* codec_input_video
    streamCodec,     \* codec of the input's video stream
    packetsLeft,     \* packets the input still has
    decoded,         \* frames the decoder is ready to return
    receiveFailed,   \* avcodec_receive_frame failed since the decoder was drained
    frame,           \* frame_input_tmp: how its pixels are stored
    images           \* which frame the two buffers, the NPU's input and the results
                     \* are of; history: whether the NPU refused a call on this frame

hardware == <<softwareOnly, buffers, model>>
control  == <<restarted, failures, recent, result>>
contexts == <<formatCtx, ctxVideo, ctxAudio, codecVideo>>
input    == <<streamCodec, packetsLeft, decoded, receiveFailed, frame>>
vars == <<pc, shouldStop, hardware, control, contexts, input, images>>

-----------------------------------------------------------------------------
Both == {"rga1", "rga2"}

Codecs == {"h264", "hevc", "other"}

Decoder == [id : Codecs \cup {"none"}, rkmpp : BOOLEAN]

NoCodec == [id |-> "none", rkmpp |-> FALSE]

\* avcodec_find_decoder and avcodec_find_decoder_by_name may find nothing.
SoftwareDecoder(id) == {[id |-> id, rkmpp |-> FALSE], NoCodec}

\* h264_rkmpp and hevc_rkmpp are the only hardware decoders asked for.
HardwareDecoder(id) ==
    IF id \in {"h264", "hevc"} THEN {[id |-> id, rkmpp |-> TRUE], NoCodec} ELSE {codecVideo}

\* How a decoder stores its frames: behind a DRM descriptor, behind one that
\* is not valid, as YUV420P planes, or in a format the code cannot convert.
FrameKinds == {"drm", "brokenDrm", "yuv420p", "unsupported"}

FramesOf(codec) ==
    IF codec.rkmpp THEN {"drm", "brokenDrm", "unsupported"} ELSE {"yuv420p", "unsupported"}

Image == {"none", "stale", "current"}

Images == [rknn : Image, display : Image, npu : Image, results : Image, refused : BOOLEAN]

NoImages ==
    [rknn |-> "none", display |-> "none", npu |-> "none", results |-> "none",
     refused |-> FALSE]

\* What was of the current frame is of an older one once the next is received.
Older(image) == IF image = "current" THEN "stale" ELSE image

Aged ==
    [rknn |-> Older(images.rknn), display |-> Older(images.display),
     npu |-> Older(images.npu), results |-> Older(images.results), refused |-> FALSE]

\* cleanup_ffmpeg_contexts
Cleanup ==
    /\ formatCtx' = FALSE
    /\ ctxVideo' = "null"
    /\ ctxAudio' = FALSE
    /\ codecVideo' = NoCodec

-----------------------------------------------------------------------------
Init ==
    /\ pc = "initRgaDrm"
    /\ shouldStop = FALSE
    /\ softwareOnly = FALSE
    /\ buffers = {}
    /\ model = FALSE
    /\ restarted = FALSE
    /\ failures = 0
    /\ recent = <<>>
    /\ result = TRUE
    /\ formatCtx = FALSE
    /\ ctxVideo = "null"
    /\ ctxAudio = FALSE
    /\ codecVideo = NoCodec
    /\ streamCodec = "other"
    /\ packetsLeft = 0
    /\ decoded = 0
    /\ receiveFailed = FALSE
    /\ frame = "unsupported"
    /\ images = NoImages

-----------------------------------------------------------------------------
(* The constructor.                                                        *)

\* init_rga_drm: the DRM device, the two buffers and RGA, in this order; the
\* first failure leaves software-only mode behind.
InitRgaDrm ==
    /\ pc = "initRgaDrm"
    /\ \E mapped \in {{}, {"rga1"}, Both}, rga \in BOOLEAN :
           /\ rga => mapped = Both
           /\ buffers' = mapped
           /\ softwareOnly' = ~rga
    /\ pc' = "initRknn2"
    /\ UNCHANGED <<shouldStop, model, control, contexts, input, images>>

\* init_rknn2, whose result the constructor does not look at.
InitRknn2 ==
    /\ pc = "initRknn2"
    /\ model' \in BOOLEAN
    /\ pc' = "loop"
    /\ UNCHANGED <<shouldStop, softwareOnly, buffers, control, contexts, input, images>>

-----------------------------------------------------------------------------
(* decode_continuous.                                                      *)

\* Fault: a session starts on the contexts the one before it left behind.
SessionLoopSkipsCleanup ==
    /\ pc = "loop"
    /\ IF shouldStop THEN pc' = "finalCleanup" ELSE pc' = "validate"
    /\ restarted' = (restarted \/ ~shouldStop)
    /\ UNCHANGED <<shouldStop, hardware, failures, recent, result, contexts, input, images>>

\* while (!should_stop_processing), and the cleanup before a restart.
SessionLoop ==
    /\ pc = "loop"
    /\ IF shouldStop
       THEN /\ pc' = "finalCleanup"
            /\ UNCHANGED <<restarted, contexts>>
       ELSE /\ pc' = "validate"
            /\ restarted' = TRUE
            /\ IF restarted THEN Cleanup ELSE UNCHANGED contexts
    /\ UNCHANGED <<shouldStop, hardware, failures, recent, result, input, images>>

\* Fault: a success leaves consecutive_failures as it is.
FailuresAddUp == IF shouldStop \/ result THEN failures ELSE failures + 1

\* Fault: consecutive_failures is declared inside the loop.
FailuresForgotten == IF shouldStop THEN failures ELSE IF result THEN 0 ELSE 1

\* consecutive_failures after a session.
FailuresAfter == IF shouldStop THEN failures ELSE IF result THEN 0 ELSE failures + 1

\* The results of the last MaxFailures sessions, the newest one last.
RecentAfter ==
    LET all == Append(recent, result)
    IN  IF Len(all) > MaxFailures THEN Tail(all) ELSE all

\* What decode returned decides: stop, restart at once, or retry a limited
\* number of times.
SessionResult ==
    /\ pc = "sessionResult"
    /\ failures' = FailuresAfter
    /\ recent' = RecentAfter
    /\ pc' = IF shouldStop \/ failures' >= MaxFailures THEN "finalCleanup" ELSE "loop"
    /\ UNCHANGED <<shouldStop, hardware, restarted, result, contexts, input, images>>

\* The cleanup after the loop; decode_continuous returns true.
FinalCleanup ==
    /\ pc = "finalCleanup"
    /\ Cleanup
    /\ result' = TRUE
    /\ pc' = "returned"
    /\ UNCHANGED <<shouldStop, hardware, restarted, failures, recent, input, images>>

\* The destructor.
Destroy ==
    /\ pc = "returned"
    /\ Cleanup
    /\ pc' = "done"
    /\ UNCHANGED <<shouldStop, hardware, control, input, images>>

-----------------------------------------------------------------------------
(* decode.                                                                 *)

SessionFails ==
    /\ result' = FALSE
    /\ pc' = "sessionResult"

SessionSucceeds ==
    /\ result' = TRUE
    /\ pc' = "sessionResult"

\* Fault: use_software_only becomes what this session's check says.
ValidateAfresh ==
    /\ pc = "validate"
    /\ softwareOnly' \in BOOLEAN
    /\ pc' = "open"
    /\ UNCHANGED <<shouldStop, buffers, model, control, contexts, input, images>>

\* validate_hardware_acceleration is asked in every session that may still use
\* the hardware; a refusal is for ever.
Validate ==
    /\ pc = "validate"
    /\ IF softwareOnly THEN UNCHANGED softwareOnly ELSE softwareOnly' \in BOOLEAN
    /\ pc' = "open"
    /\ UNCHANGED <<shouldStop, buffers, model, control, contexts, input, images>>

\* avformat_open_input fails, and frees the context it was given.
OpenFails ==
    /\ pc = "open"
    /\ formatCtx' = FALSE
    /\ SessionFails
    /\ UNCHANGED <<shouldStop, hardware, restarted, failures, recent, ctxVideo, ctxAudio,
                   codecVideo, input, images>>

\* avformat_find_stream_info fails: the input stays open.
StreamInfoFails ==
    /\ pc = "open"
    /\ formatCtx' = TRUE
    /\ SessionFails
    /\ UNCHANGED <<shouldStop, hardware, restarted, failures, recent, ctxVideo, ctxAudio,
                   codecVideo, input, images>>

\* An input without a video stream: streams[video_stream_index_input] is
\* read with a negative index.
NoVideoStream ==
    /\ pc = "open"
    /\ formatCtx' = TRUE
    /\ pc' = "crashed"
    /\ UNCHANGED <<shouldStop, hardware, control, ctxVideo, ctxAudio, codecVideo, input, images>>

OpenInput ==
    /\ pc = "open"
    /\ formatCtx' = TRUE
    /\ streamCodec' \in Codecs
    /\ packetsLeft' = PacketsPerSession
    /\ pc' = "select"
    /\ UNCHANGED <<shouldStop, hardware, control, ctxVideo, ctxAudio, codecVideo,
                   decoded, receiveFailed, frame, images>>

\* The decoders the selection may end with.
Selected ==
    IF softwareOnly
    THEN SoftwareDecoder(streamCodec)
    ELSE (HardwareDecoder(streamCodec) \ {NoCodec})
             \cup (IF NoCodec \in HardwareDecoder(streamCodec)
                   THEN SoftwareDecoder(streamCodec) ELSE {})

\* The decoder is chosen and its context allocated; either may fail.
SelectDecoder ==
    /\ pc = "select"
    /\ codecVideo' \in Selected
    /\ \/ /\ codecVideo' # NoCodec
          /\ ctxVideo' = "allocated"
          /\ pc' = "openCodec"
          /\ UNCHANGED result
       \/ /\ UNCHANGED ctxVideo
          /\ SessionFails
    /\ UNCHANGED <<shouldStop, hardware, restarted, failures, recent, formatCtx, ctxAudio,
                   input, images>>

\* avcodec_open2 succeeds.
CodecOpens ==
    /\ ctxVideo' = "open"
    /\ decoded' = 0
    /\ receiveFailed' = FALSE
    /\ pc' = "openAudio"
    /\ UNCHANGED result

OpenCodec ==
    /\ pc = "openCodec"
    /\ CodecOpens
    /\ UNCHANGED <<shouldStop, hardware, restarted, failures, recent, formatCtx, ctxAudio,
                   codecVideo, streamCodec, packetsLeft, frame, images>>

\* avcodec_open2 fails, with no hardware decoder to fall back from.
OpenCodecFails ==
    /\ pc = "openCodec"
    /\ ~codecVideo.rkmpp \/ softwareOnly
    /\ SessionFails
    /\ UNCHANGED <<shouldStop, hardware, restarted, failures, recent, contexts, input, images>>

\* Fault: the second try uses the decoder that did not open.
OpenSoftwareInsteadKeepsDecoder ==
    /\ pc = "openCodec"
    /\ codecVideo.rkmpp /\ ~softwareOnly
    /\ softwareOnly' = TRUE
    /\ \/ CodecOpens
       \/ SessionFails /\ UNCHANGED <<ctxVideo, decoded, receiveFailed>>
    /\ UNCHANGED <<shouldStop, buffers, model, restarted, failures, recent, formatCtx,
                   ctxAudio, codecVideo, streamCodec, packetsLeft, frame, images>>

\* A hardware decoder does not open: software-only mode from now on, and one
\* more try with the software decoder of the codec.
OpenSoftwareInstead ==
    /\ pc = "openCodec"
    /\ codecVideo.rkmpp /\ ~softwareOnly
    /\ softwareOnly' = TRUE
    /\ codecVideo' \in SoftwareDecoder(streamCodec)
    /\ \/ codecVideo' # NoCodec /\ CodecOpens
       \/ SessionFails /\ UNCHANGED <<ctxVideo, decoded, receiveFailed>>
    /\ UNCHANGED <<shouldStop, buffers, model, restarted, failures, recent, formatCtx,
                   ctxAudio, streamCodec, packetsLeft, frame, images>>

\* The audio context, made of the video stream's parameters.
OpenAudio ==
    /\ pc = "openAudio"
    /\ ctxAudio' = TRUE
    /\ pc' = "read"
    /\ UNCHANGED <<shouldStop, hardware, control, formatCtx, ctxVideo, codecVideo, input, images>>

\* Fault: an input that ends is read again from its start.
ReadPacketRewinds ==
    /\ pc = "read"
    /\ packetsLeft > 0
    /\ packetsLeft' = IF packetsLeft = 1 THEN PacketsPerSession ELSE packetsLeft - 1
    /\ pc' \in {"send", "unref"}
    /\ UNCHANGED <<shouldStop, hardware, control, contexts, streamCodec, decoded,
                   receiveFailed, frame, images>>

\* av_read_frame returns a packet of the video stream or of another one.
ReadPacket ==
    /\ pc = "read"
    /\ packetsLeft > 0
    /\ packetsLeft' = IF LiveSource THEN packetsLeft ELSE packetsLeft - 1
    /\ pc' \in {"send", "unref"}
    /\ UNCHANGED <<shouldStop, hardware, control, contexts, streamCodec, decoded,
                   receiveFailed, frame, images>>

\* av_read_frame fails, at the end of the input or before it.
EndSession ==
    /\ pc = "read"
    /\ formatCtx' = FALSE
    /\ SessionSucceeds
    /\ UNCHANGED <<shouldStop, hardware, restarted, failures, recent, ctxVideo, ctxAudio,
                   codecVideo, input, images>>

\* avcodec_send_packet refuses bad data, and any data while it is full; the
\* packet is skipped, and not released.
PacketRejected ==
    /\ pc = "send"
    /\ pc' = "read"
    /\ UNCHANGED <<shouldStop, hardware, control, contexts, input, images>>

\* avcodec_send_packet takes the packet, and more frames may be ready.
SendPacket ==
    /\ pc = "send"
    /\ decoded < DecoderDepth
    /\ decoded' \in decoded..DecoderDepth
    /\ pc' = "receive"
    /\ UNCHANGED <<shouldStop, hardware, control, contexts, streamCodec, packetsLeft,
                   receiveFailed, frame, images>>

\* avcodec_receive_frame returns a frame.
ReceiveFrame ==
    /\ pc = "receive"
    /\ decoded > 0
    /\ decoded' = decoded - 1
    /\ frame' \in FramesOf(codecVideo)
    /\ images' = Aged
    /\ pc' = "frame"
    /\ UNCHANGED <<shouldStop, hardware, control, contexts, streamCodec, packetsLeft, receiveFailed>>

\* EAGAIN: no frame is ready.
NoMoreFrames ==
    /\ pc = "receive"
    /\ decoded = 0
    /\ receiveFailed' = FALSE
    /\ pc' = "unref"
    /\ UNCHANGED <<shouldStop, hardware, control, contexts, streamCodec, packetsLeft,
                   decoded, frame, images>>

\* Any other error ends the inner loop, whatever the decoder still holds.
ReceiveFails ==
    /\ pc = "receive"
    /\ receiveFailed' = TRUE
    /\ pc' = "unref"
    /\ UNCHANGED <<shouldStop, hardware, control, contexts, streamCodec, packetsLeft,
                   decoded, frame, images>>

\* A frame with dimensions out of range is skipped.
SkipFrame ==
    /\ pc = "frame"
    /\ pc' = "receive"
    /\ UNCHANGED <<shouldStop, hardware, control, contexts, input, images>>

\* Hardware for a valid DRM frame unless in software-only mode.  That a model
\* is loaded is not known here: rknn_width_ and rknn_height_ are 640 without.
ChoosePath ==
    /\ pc = "frame"
    /\ pc' = IF ~softwareOnly /\ frame = "drm" THEN "hardware" ELSE "software"
    /\ UNCHANGED <<shouldStop, hardware, control, contexts, input, images>>

\* Fault: the conversion for the model alone counts as a success.
ProcessHardwareHalf ==
    /\ pc = "hardware"
    /\ \/ /\ images' = [images EXCEPT !.rknn = "current", !.display = "current"]
          /\ pc' = "infer"
       \/ /\ images' = [images EXCEPT !.rknn = "current"]
          /\ pc' = "infer"
    /\ UNCHANGED <<shouldStop, hardware, control, contexts, input>>

\* process_frame_hardware: RGA writes the model's buffer and then the display
\* buffer, for some pair of formats, or fails with the first one written or not.
ProcessHardware ==
    /\ pc = "hardware"
    /\ \/ /\ images' = [images EXCEPT !.rknn = "current", !.display = "current"]
          /\ pc' = "infer"
       \/ /\ images' \in {images, [images EXCEPT !.rknn = "current"]}
          /\ pc' = "software"
    /\ UNCHANGED <<shouldStop, hardware, control, contexts, input>>

\* Fault: a frame that was refused is tried again.
SoftwareRefusesRetries ==
    /\ pc = "software"
    /\ frame # "yuv420p"
    /\ pc' = "frame"
    /\ UNCHANGED <<shouldStop, hardware, control, contexts, input, images>>

\* process_frame_software_fallback refuses the frame: no data, no mapping, or a
\* format it does not know.
SoftwareRefuses ==
    /\ pc = "software"
    /\ frame # "yuv420p"
    /\ pc' = "receive"
    /\ UNCHANGED <<shouldStop, hardware, control, contexts, input, images>>

\* process_frame_software_fallback writes both buffers, mapped or not.
ProcessSoftware ==
    /\ pc = "software"
    /\ frame # "unsupported"
    /\ IF buffers = Both
       THEN /\ images' = [images EXCEPT !.rknn = "current", !.display = "current"]
            /\ pc' = "infer"
       ELSE /\ pc' = "crashed"
            /\ UNCHANGED images
    /\ UNCHANGED <<shouldStop, hardware, control, contexts, input>>

\* The inference and the post-processing of its results.  Whether
\* rknn_inputs_set and rknn_run did what they were asked is not looked at: the
\* NPU may run on the picture of an older frame, or not run at all, and the
\* outputs are then those of an older frame, or of none.
Infer ==
    /\ pc = "infer"
    /\ model
    /\ \E inputsSet, ran \in BOOLEAN :
           LET npu == IF inputsSet THEN images.rknn ELSE images.npu
           IN  images' = [images EXCEPT !.npu = npu,
                                        !.results = IF ran THEN npu ELSE images.results,
                                        !.refused = ~inputsSet \/ ~ran]
    /\ pc' = "push"
    /\ UNCHANGED <<shouldStop, hardware, control, contexts, input>>

\* rknn_outputs_get fails, and outputs that are not there are read all the same.
InferenceFails ==
    /\ pc = "infer"
    /\ pc' = "crashed"
    /\ UNCHANGED <<shouldStop, hardware, control, contexts, input, images>>

\* Fault: one frame is received per packet.
PushReceivesOnce ==
    /\ pc = "push"
    /\ pc' = "unref"
    /\ UNCHANGED <<shouldStop, hardware, control, contexts, input, images>>

\* push_frame_raw with the display buffer and the results, then the release of
\* the outputs.
Push ==
    /\ pc = "push"
    /\ pc' = "receive"
    /\ UNCHANGED <<shouldStop, hardware, control, contexts, input, images>>

\* The packet and the frame are released.
Unref ==
    /\ pc = "unref"
    /\ pc' = "read"
    /\ UNCHANGED <<shouldStop, hardware, control, contexts, input, images>>

-----------------------------------------------------------------------------
(* stop_processing, from another thread or a signal handler.               *)

Constructing == {"initRgaDrm", "initRknn2"}

StopProcessing ==
    /\ pc \notin Constructing \cup {"done", "crashed"}
    /\ shouldStop' = TRUE
    /\ UNCHANGED <<pc, hardware, control, contexts, input, images>>

Finished ==
    /\ pc \in {"done", "crashed"}
    /\ UNCHANGED vars

Session ==
    \/ Validate \/ OpenFails \/ StreamInfoFails \/ NoVideoStream \/ OpenInput
    \/ SelectDecoder \/ OpenCodec \/ OpenCodecFails \/ OpenSoftwareInstead \/ OpenAudio
    \/ ReadPacket \/ EndSession \/ PacketRejected \/ SendPacket
    \/ ReceiveFrame \/ NoMoreFrames \/ ReceiveFails \/ SkipFrame \/ ChoosePath
    \/ ProcessHardware \/ SoftwareRefuses \/ ProcessSoftware
    \/ Infer \/ InferenceFails \/ Push \/ Unref

Channel ==
    \/ InitRgaDrm \/ InitRknn2
    \/ SessionLoop \/ Session \/ SessionResult \/ FinalCleanup \/ Destroy

Next == Channel \/ StopProcessing \/ Finished

Spec == Init /\ [][Next]_vars

\* The channel's thread is scheduled: no step of it waits for another thread.
FairSpec == Spec /\ WF_vars(Channel)

-----------------------------------------------------------------------------
(* Properties.                                                             *)

Decoding == {"read", "send", "receive", "frame", "hardware", "software", "infer", "push", "unref"}

PCs == Decoding \cup Constructing
           \cup {"loop", "validate", "open", "select", "openCodec", "openAudio",
                 "sessionResult", "finalCleanup", "returned", "done", "crashed"}

\* Every variable has its type; no more than MaxFailures failures are counted
\* before decode_continuous gives up.
TypeOK ==
    /\ pc \in PCs
    /\ shouldStop \in BOOLEAN
    /\ softwareOnly \in BOOLEAN
    /\ buffers \in SUBSET Both
    /\ model \in BOOLEAN
    /\ restarted \in BOOLEAN
    /\ failures \in 0..MaxFailures
    /\ recent \in Seq(BOOLEAN)
    /\ Len(recent) <= MaxFailures
    /\ result \in BOOLEAN
    /\ formatCtx \in BOOLEAN
    /\ ctxVideo \in {"null", "allocated", "open"}
    /\ ctxAudio \in BOOLEAN
    /\ codecVideo \in Decoder
    /\ streamCodec \in Codecs
    /\ packetsLeft \in 0..PacketsPerSession
    /\ decoded \in 0..DecoderDepth
    /\ receiveFailed \in BOOLEAN
    /\ frame \in FrameKinds
    /\ images \in Images

\* decode overwrites the context pointers without looking at them, so nothing
\* of an earlier session, however it ended, may be left when the next opens
\* its input: that would leak a decoder and its hardware buffers.
SessionStartsClean ==
    pc = "open" => ~formatCtx /\ ctxVideo = "null" /\ ~ctxAudio /\ codecVideo = NoCodec

\* Frames are decoded by a decoder for the codec of this session's input, and
\* by a hardware one only outside software-only mode: an input that comes back
\* with another codec must not meet the decoder of the one before.
DecoderMatchesStream ==
    pc \in Decoding =>
        /\ ctxVideo = "open"
        /\ codecVideo.id = streamCodec
        /\ codecVideo.rkmpp => ~softwareOnly

\* RGA is given frames only when both buffers it writes to are mapped, however
\* far init_rga_drm came.
HardwareHasBuffers == pc = "hardware" => buffers = Both /\ ~softwareOnly

\* What is pushed to the streamer, and what the detections were made on, is
\* the frame just received, although the two buffers are reused for every frame
\* and the two paths write them in two steps that can fail in between.  Only the
\* detections may be an older frame's, and only when the NPU refused a call on
\* this very frame: what it refused before does not stay behind.
PushIsCurrent ==
    pc = "push" =>
        /\ images.rknn = "current"
        /\ images.display = "current"
        /\ images.results = "current" \/ images.refused

\* The channel implements FrameBuffers: through all sessions, restarts and
\* fallbacks the hardware is used with both buffers or not at all, is never taken
\* up again once it was given up, and what goes to the inference and to the
\* streamer is in both buffers.
Phase ==
    CASE pc = "initRgaDrm" -> "setup"
      [] pc \in {"hardware", "software", "crashed"} -> pc
      [] pc \in {"infer", "push"} ->
             IF images.rknn = "current" /\ images.display = "current" THEN "shown" ELSE "torn"
      [] OTHER -> "idle"

FB ==
    INSTANCE FrameBuffers WITH
        Buffers  <- Both,
        phase    <- Phase,
        hardware <- Phase # "setup" /\ ~softwareOnly,
        mapped   <- buffers

ImplementsFrameBuffers == FB!Spec

\* A packet is sent only once the decoder has been drained, so it never
\* refuses one for being full and no packet is lost that way, except after a
\* receive error.
DrainedBeforeSend == pc = "send" => decoded = 0 \/ receiveFailed

\* decode_continuous gives up by itself only when max_consecutive_failures
\* sessions failed in a row, no matter what happened before them.
GivesUpOnlyAfterFailures ==
    pc = "finalCleanup" /\ ~shouldStop =>
        Len(recent) = MaxFailures /\ \A i \in 1..MaxFailures : ~recent[i]

\* What the channel's thread has left to do, in falling order of weight: failures
\* it tolerates, parts of a session, packets, parts of a packet, frames the
\* decoder holds, parts of a frame.
SessionLeft ==
    CASE pc = "initRgaDrm" -> 12
      [] pc = "initRknn2" -> 11
      [] pc = "loop" -> 10
      [] pc = "validate" -> 9
      [] pc = "open" -> 8
      [] pc = "select" -> 7
      [] pc = "openCodec" -> 6
      [] pc = "openAudio" -> 5
      [] pc \in Decoding -> 4
      [] pc = "sessionResult" -> 3
      [] pc = "finalCleanup" -> 2
      [] pc = "returned" -> 1
      [] OTHER -> 0

PacketLeft ==
    CASE pc = "send" -> 3
      [] pc = "unref" -> 1
      [] pc \in Decoding \ {"send", "unref", "read"} -> 2
      [] OTHER -> 0

FrameLeft ==
    CASE pc = "frame" -> 5
      [] pc = "hardware" -> 4
      [] pc = "software" -> 3
      [] pc = "infer" -> 2
      [] pc = "push" -> 1
      [] OTHER -> 0

Left == <<MaxFailures - failures, SessionLeft, packetsLeft, PacketLeft, decoded, FrameLeft>>

\* Whatever fails, and in whatever order, every step of the channel's thread
\* uses up something of what it has left.  Only two things give it more: a
\* session that succeeded while nobody asked to stop, and a packet of an input
\* that need not end.  No chain of failures, fallbacks and retries goes round.
OnlySuccessRenews ==
    [][Channel => \/ Less(Left', Left)
                  \/ pc = "sessionResult" /\ result /\ ~shouldStop
                  \/ pc = "read" /\ LiveSource]_vars

\* Once stop_processing was called, the channel's thread comes to its end.
StopHonoured == shouldStop ~> pc \in {"done", "crashed"}

\* An input that fails from some session on makes the channel give up.
GivesUp == <>[](pc = "sessionResult" => ~result) => <>(pc \in {"done", "crashed"})
=============================================================================
