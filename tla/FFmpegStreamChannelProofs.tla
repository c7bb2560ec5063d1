--------------------- MODULE FFmpegStreamChannelProofs ---------------------
(***************************************************************************)
(* Proofs about FFmpegStreamChannel, for any number of tolerated failures, *)
(* any length of the input and any depth of the decoder: what holds in     *)
(* every session, whatever the sessions before it left behind.             *)
(***************************************************************************)
EXTENDS FFmpegStreamChannel, WellFoundedInduction, TLAPS

ContextsClean == ~formatCtx /\ ctxVideo = "null" /\ ~ctxAudio /\ codecVideo = NoCodec

\* The contexts are clean where a session opens its input: before the first
\* one because nothing was made, before the others because of the cleanup.
SessionStartsFresh ==
    /\ pc \in Constructing => ~restarted
    /\ ~restarted => pc \in Constructing \cup {"loop", "finalCleanup", "returned", "done"}
    /\ pc \in Constructing \cup {"validate", "open"} \/ (pc = "loop" /\ ~restarted)
           => ContextsClean

Matches == codecVideo.id = streamCodec /\ (codecVideo.rkmpp => ~softwareOnly)

\* How far the decoder of the session has come.
DecoderChosen ==
    /\ pc = "select" => codecVideo = NoCodec
    /\ pc = "openCodec" => ctxVideo = "allocated" /\ Matches
    /\ pc \in {"openAudio"} \cup Decoding => ctxVideo = "open" /\ Matches

\* Hardware mode is left for good by whatever is missing.
BuffersMapped ==
    /\ pc # "initRgaDrm" /\ ~softwareOnly => buffers = Both
    /\ pc = "hardware" => ~softwareOnly

\* Both buffers hold the frame when the inference starts.
ImagesWritten ==
    /\ pc \in {"infer", "push"} => images.rknn = "current" /\ images.display = "current"
    /\ pc = "push" => images.results = "current" \/ images.refused

\* The decoder is drained whenever the channel is not about to drain it.
DecoderDrained ==
    pc \in {"openAudio", "read", "send", "unref"} => decoded = 0 \/ receiveFailed

\* consecutive_failures counts failures at the end of the history.
FailuresCounted ==
    /\ pc \notin {"finalCleanup", "returned", "done"} => failures < MaxFailures
    /\ ~shouldStop =>
           /\ failures <= Len(recent)
           /\ \A i \in 1..Len(recent) : i > Len(recent) - failures => ~recent[i]
           /\ pc = "finalCleanup" => failures = MaxFailures

CInv ==
    /\ TypeOK
    /\ SessionStartsFresh
    /\ DecoderChosen
    /\ BuffersMapped
    /\ ImagesWritten
    /\ DecoderDrained
    /\ FailuresCounted

-----------------------------------------------------------------------------
\* The history after a session is the one before it with the result at its
\* end, without its oldest entry when it was full.
LEMMA RecentLemma ==
    ASSUME TypeOK
    PROVE  /\ RecentAfter \in Seq(BOOLEAN)
           /\ Len(RecentAfter) <= MaxFailures
           /\ Len(RecentAfter) = IF Len(recent) = MaxFailures THEN Len(recent)
                                 ELSE Len(recent) + 1
           /\ \A i \in 1..Len(RecentAfter) :
                  RecentAfter[i] =
                      IF i = Len(RecentAfter) THEN result
                      ELSE IF Len(recent) = MaxFailures THEN recent[i + 1] ELSE recent[i]
<1> DEFINE all == Append(recent, result)
<1>1. /\ recent \in Seq(BOOLEAN) /\ Len(recent) \in Nat /\ Len(recent) <= MaxFailures
      /\ result \in BOOLEAN /\ MaxFailures \in Nat \ {0}
  BY ChannelAssumption DEF TypeOK
<1>2. /\ all \in Seq(BOOLEAN) /\ Len(all) = Len(recent) + 1
      /\ \A i \in 1..Len(all) : all[i] = IF i = Len(all) THEN result ELSE recent[i]
  BY <1>1
<1>3. RecentAfter = IF Len(all) > MaxFailures THEN Tail(all) ELSE all
  BY DEF RecentAfter
<1> HIDE DEF all
<1>4. CASE Len(recent) = MaxFailures
  <2>1. RecentAfter = Tail(all) /\ Len(all) > 0
    BY <1>1, <1>2, <1>3, <1>4
  <2>2. /\ Tail(all) \in Seq(BOOLEAN) /\ Len(Tail(all)) = Len(recent)
        /\ \A i \in 1..Len(Tail(all)) : Tail(all)[i] = all[i + 1]
    BY <1>1, <1>2, <2>1
  <2> QED
    BY <1>1, <1>2, <1>4, <2>1, <2>2
<1>5. CASE Len(recent) # MaxFailures
  <2>1. RecentAfter = all
    BY <1>1, <1>2, <1>3, <1>5
  <2> QED
    BY <1>1, <1>2, <1>5, <2>1
<1> QED
  BY <1>4, <1>5

LEMMA DecoderTypes ==
    /\ NoCodec \in Decoder
    /\ \A id \in Codecs : SoftwareDecoder(id) \subseteq Decoder
    /\ codecVideo \in Decoder => \A id \in Codecs : HardwareDecoder(id) \subseteq Decoder
<1>1. NoCodec \in Decoder
  BY DEF NoCodec, Decoder
<1>2. \A id \in Codecs : SoftwareDecoder(id) \subseteq Decoder
  BY <1>1 DEF SoftwareDecoder, Decoder
<1>3. ASSUME codecVideo \in Decoder, NEW id \in Codecs
      PROVE  HardwareDecoder(id) \subseteq Decoder
  <2>1. [id |-> id, rkmpp |-> TRUE] \in Decoder
    BY DEF Decoder
  <2> QED
    BY <1>1, <1>3, <2>1 DEF HardwareDecoder
<1> QED
  BY <1>1, <1>2, <1>3

LEMMA InvInit == Init => CInv
<1> SUFFICES ASSUME Init PROVE CInv
  OBVIOUS
<1>1. TypeOK
  <2>1. recent \in Seq(BOOLEAN) /\ Len(recent) = 0
    BY DEF Init
  <2>2. images \in Images
    BY DEF Init, NoImages, Images, Image
  <2>3. codecVideo \in Decoder
    BY DecoderTypes DEF Init
  <2>4. pc \in PCs /\ streamCodec \in Codecs /\ frame \in FrameKinds
    BY DEF Init, PCs, Constructing, Codecs, FrameKinds
  <2>5. /\ shouldStop \in BOOLEAN /\ softwareOnly \in BOOLEAN /\ model \in BOOLEAN
        /\ restarted \in BOOLEAN /\ result \in BOOLEAN /\ formatCtx \in BOOLEAN
        /\ ctxAudio \in BOOLEAN /\ receiveFailed \in BOOLEAN /\ buffers \in SUBSET Both
        /\ ctxVideo \in {"null", "allocated", "open"}
    BY DEF Init
  <2>6. /\ failures \in 0..MaxFailures /\ packetsLeft \in 0..PacketsPerSession
        /\ decoded \in 0..DecoderDepth /\ 0 <= MaxFailures
    BY ChannelAssumption DEF Init
  <2> QED
    BY <2>1, <2>2, <2>3, <2>4, <2>5, <2>6 DEF TypeOK
<1>2. SessionStartsFresh
  BY DEF Init, SessionStartsFresh, ContextsClean, Constructing
<1>3. DecoderChosen
  BY DEF Init, DecoderChosen, Decoding
<1>4. BuffersMapped
  BY DEF Init, BuffersMapped
<1>5. ImagesWritten
  BY DEF Init, ImagesWritten
<1>6. DecoderDrained
  BY DEF Init, DecoderDrained
<1>7. FailuresCounted
  <2>1. Len(recent) = 0
    BY DEF Init
  <2> QED
    BY <2>1, ChannelAssumption DEF Init, FailuresCounted
<1> QED
  BY <1>1, <1>2, <1>3, <1>4, <1>5, <1>6, <1>7 DEF CInv

-----------------------------------------------------------------------------
\* Every step keeps the types; that failures stays in its range is what
\* FailuresCounted is needed for.
LEMMA TypeStep ==
    ASSUME TypeOK, FailuresCounted, [Next]_vars
    PROVE  TypeOK'
<1> USE ChannelAssumption
<1>1. CASE InitRgaDrm
  BY <1>1 DEF TypeOK, PCs, Decoding, Constructing, InitRgaDrm, Both, vars, hardware,
     control, contexts, input
<1>2. CASE InitRknn2
  BY <1>2 DEF TypeOK, PCs, Decoding, Constructing, InitRknn2, vars, hardware, control,
     contexts, input
<1>3. CASE SessionLoop
  <2>1. codecVideo' \in Decoder
    <3>1. codecVideo' = NoCodec \/ codecVideo' = codecVideo
      BY <1>3 DEF SessionLoop, Cleanup, contexts
    <3> QED
      BY <3>1, DecoderTypes DEF TypeOK
  <2>2. /\ ctxVideo' \in {"null", "allocated", "open"}
        /\ formatCtx' \in BOOLEAN /\ ctxAudio' \in BOOLEAN
    <3>1. \/ formatCtx' = FALSE /\ ctxVideo' = "null" /\ ctxAudio' = FALSE
          \/ formatCtx' = formatCtx /\ ctxVideo' = ctxVideo /\ ctxAudio' = ctxAudio
      BY <1>3 DEF SessionLoop, Cleanup, contexts
    <3> QED
      BY <3>1 DEF TypeOK
  <2>3. pc' \in PCs /\ restarted' \in BOOLEAN
    BY <1>3 DEF SessionLoop, TypeOK, PCs
  <2>4. UNCHANGED <<shouldStop, softwareOnly, buffers, model, failures, recent, result,
                    streamCodec, packetsLeft, decoded, receiveFailed, frame, images>>
    BY <1>3 DEF SessionLoop, hardware, input
  <2> QED
    BY <2>1, <2>2, <2>3, <2>4 DEF TypeOK
<1>4. CASE SessionResult
  <2>1. recent' \in Seq(BOOLEAN) /\ Len(recent') <= MaxFailures
    BY <1>4, RecentLemma DEF SessionResult
  <2>2. failures' \in 0..MaxFailures
    BY <1>4 DEF TypeOK, FailuresCounted, SessionResult, FailuresAfter
  <2> QED
    BY <1>4, <2>1, <2>2 DEF TypeOK, PCs, Decoding, Constructing, SessionResult, vars,
       hardware, control, contexts, input
<1>5. CASE FinalCleanup
  BY <1>5 DEF TypeOK, PCs, Decoding, Constructing, FinalCleanup, Cleanup, NoCodec,
     Codecs, Decoder, vars, hardware, control, contexts, input
<1>6. CASE Destroy
  BY <1>6 DEF TypeOK, PCs, Decoding, Constructing, Destroy, Cleanup, NoCodec, Codecs,
     Decoder, vars, hardware, control, contexts, input
<1>7. CASE Validate
  BY <1>7 DEF TypeOK, PCs, Decoding, Constructing, Validate, vars, hardware, control,
     contexts, input
<1>8. CASE OpenFails
  BY <1>8 DEF TypeOK, PCs, Decoding, Constructing, OpenFails, SessionFails, vars,
     hardware, control, contexts, input
<1>9. CASE StreamInfoFails
  BY <1>9 DEF TypeOK, PCs, Decoding, Constructing, StreamInfoFails, SessionFails, vars,
     hardware, control, contexts, input
<1>10. CASE NoVideoStream
  BY <1>10 DEF TypeOK, PCs, Decoding, Constructing, NoVideoStream, vars, hardware,
     control, contexts, input
<1>11. CASE OpenInput
  BY <1>11 DEF TypeOK, PCs, Decoding, Constructing, OpenInput, Codecs, vars, hardware,
     control, contexts, input
<1>12. CASE SelectDecoder
  <2>1. codecVideo' \in Decoder
    <3>1. streamCodec \in Codecs /\ codecVideo \in Decoder
      BY DEF TypeOK
    <3> QED
      BY <1>12, <3>1, DecoderTypes DEF SelectDecoder, Selected
  <2>2. ctxVideo' \in {"null", "allocated", "open"}
    BY <1>12 DEF SelectDecoder, TypeOK
  <2>3. pc' \in PCs
    BY <1>12 DEF SelectDecoder, SessionFails, PCs
  <2>4. result' \in BOOLEAN
    <3>1. result' = result \/ result' = FALSE
      BY <1>12 DEF SelectDecoder, SessionFails
    <3> QED
      BY <3>1 DEF TypeOK
  <2>5. UNCHANGED <<shouldStop, softwareOnly, buffers, model, restarted, failures, recent,
                    formatCtx, ctxAudio, streamCodec, packetsLeft, decoded, receiveFailed,
                    frame, images>>
    BY <1>12 DEF SelectDecoder, hardware, input
  <2> QED
    BY <2>1, <2>2, <2>3, <2>4, <2>5 DEF TypeOK
<1>13. CASE OpenCodec
  <2>1. /\ ctxVideo' = "open" /\ decoded' = 0 /\ receiveFailed' = FALSE
        /\ pc' = "openAudio"
        /\ UNCHANGED <<shouldStop, softwareOnly, buffers, model, restarted, failures, recent,
                       result, formatCtx, ctxAudio, codecVideo, streamCodec, packetsLeft,
                       frame, images>>
    BY <1>13 DEF OpenCodec, CodecOpens, hardware
  <2>2. pc' \in PCs /\ decoded' \in 0..DecoderDepth
    BY <2>1 DEF PCs
  <2> QED
    BY <2>1, <2>2 DEF TypeOK
<1>14. CASE OpenCodecFails
  BY <1>14 DEF TypeOK, PCs, Decoding, Constructing, OpenCodecFails, SessionFails, vars,
     hardware, control, contexts, input
<1>15. CASE OpenSoftwareInstead
  <2>1. codecVideo' \in Decoder
    <3>1. streamCodec \in Codecs
      BY DEF TypeOK
    <3> QED
      BY <1>15, <3>1, DecoderTypes DEF OpenSoftwareInstead
  <2>2. \/ /\ ctxVideo' = "open" /\ decoded' = 0 /\ receiveFailed' = FALSE
           /\ pc' = "openAudio" /\ result' = result
        \/ /\ ctxVideo' = ctxVideo /\ decoded' = decoded /\ receiveFailed' = receiveFailed
           /\ pc' = "sessionResult" /\ result' = FALSE
    BY <1>15 DEF OpenSoftwareInstead, CodecOpens, SessionFails
  <2>3. /\ decoded' \in 0..DecoderDepth /\ receiveFailed' \in BOOLEAN
        /\ ctxVideo' \in {"null", "allocated", "open"} /\ result' \in BOOLEAN
    <3>1. CASE ctxVideo' = "open" /\ decoded' = 0 /\ receiveFailed' = FALSE /\ result' = result
      <4>1. result' \in BOOLEAN
        BY <3>1, Zenon DEF TypeOK
      <4>2. decoded' \in 0..DecoderDepth
        BY <3>1, ChannelAssumption
      <4> QED
        BY <3>1, <4>1, <4>2
    <3>2. CASE UNCHANGED <<ctxVideo, decoded, receiveFailed>> /\ result' = FALSE
      BY <3>2 DEF TypeOK
    <3> QED
      BY <2>2, <3>1, <3>2
  <2>4. pc' \in PCs
    BY <2>2 DEF PCs
  <2>5. /\ softwareOnly' = TRUE
        /\ UNCHANGED <<shouldStop, buffers, model, restarted, failures, recent, formatCtx,
                       ctxAudio, streamCodec, packetsLeft, frame, images>>
    BY <1>15 DEF OpenSoftwareInstead
  <2> QED
    BY <2>1, <2>3, <2>4, <2>5 DEF TypeOK
<1>16. CASE OpenAudio
  BY <1>16 DEF TypeOK, PCs, Decoding, Constructing, OpenAudio, vars, hardware, control,
     contexts, input
<1>17. CASE ReadPacket
  BY <1>17 DEF TypeOK, PCs, Decoding, Constructing, ReadPacket, vars, hardware, control,
     contexts, input
<1>18. CASE EndSession
  BY <1>18 DEF TypeOK, PCs, Decoding, Constructing, EndSession, SessionSucceeds, vars,
     hardware, control, contexts, input
<1>19. CASE PacketRejected
  BY <1>19 DEF TypeOK, PCs, Decoding, Constructing, PacketRejected, vars, hardware,
     control, contexts, input
<1>20. CASE SendPacket
  BY <1>20 DEF TypeOK, PCs, Decoding, Constructing, SendPacket, vars, hardware, control,
     contexts, input
<1>21. CASE ReceiveFrame
  <2>1. images' \in Images
    BY <1>21 DEF TypeOK, ReceiveFrame, Aged, Older, Images, Image
  <2>2. frame' \in FrameKinds
    BY <1>21 DEF ReceiveFrame, FramesOf, FrameKinds
  <2>3. decoded' \in 0..DecoderDepth
    BY <1>21 DEF TypeOK, ReceiveFrame
  <2> QED
    BY <1>21, <2>1, <2>2, <2>3 DEF TypeOK, PCs, Decoding, Constructing, ReceiveFrame,
       vars, hardware, control, contexts, input
<1>22. CASE NoMoreFrames
  BY <1>22 DEF TypeOK, PCs, Decoding, Constructing, NoMoreFrames, vars, hardware,
     control, contexts, input
<1>23. CASE ReceiveFails
  BY <1>23 DEF TypeOK, PCs, Decoding, Constructing, ReceiveFails, vars, hardware,
     control, contexts, input
<1>24. CASE SkipFrame
  BY <1>24 DEF TypeOK, PCs, Decoding, Constructing, SkipFrame, vars, hardware, control,
     contexts, input
<1>25. CASE ChoosePath
  BY <1>25 DEF TypeOK, PCs, Decoding, Constructing, ChoosePath, vars, hardware, control,
     contexts, input
<1>26. CASE ProcessHardware
  <2>1. images' \in Images
    BY <1>26 DEF TypeOK, Images, Image, ProcessHardware
  <2> QED
    BY <1>26, <2>1 DEF TypeOK, PCs, Decoding, Constructing, ProcessHardware, vars,
       hardware, control, contexts, input
<1>27. CASE SoftwareRefuses
  BY <1>27 DEF TypeOK, PCs, Decoding, Constructing, SoftwareRefuses, vars, hardware,
     control, contexts, input
<1>28. CASE ProcessSoftware
  <2>1. images' \in Images
    BY <1>28 DEF TypeOK, Images, Image, ProcessSoftware
  <2> QED
    BY <1>28, <2>1 DEF TypeOK, PCs, Decoding, Constructing, ProcessSoftware, Both, vars,
       hardware, control, contexts, input
<1>29. CASE Infer
  <2>1. images' \in Images
    BY <1>29 DEF TypeOK, Images, Infer
  <2> QED
    BY <1>29, <2>1 DEF TypeOK, PCs, Decoding, Constructing, Infer, vars, hardware,
       control, contexts, input
<1>30. CASE InferenceFails
  BY <1>30 DEF TypeOK, PCs, Decoding, Constructing, InferenceFails, vars, hardware,
     control, contexts, input
<1>31. CASE Push
  BY <1>31 DEF TypeOK, PCs, Decoding, Constructing, Push, vars, hardware, control,
     contexts, input
<1>32. CASE Unref
  BY <1>32 DEF TypeOK, PCs, Decoding, Constructing, Unref, vars, hardware, control,
     contexts, input
<1>33. CASE StopProcessing
  BY <1>33 DEF TypeOK, PCs, Decoding, Constructing, StopProcessing, vars, hardware,
     control, contexts, input
<1>34. CASE Finished
  BY <1>34 DEF TypeOK, PCs, Decoding, Constructing, Finished, vars, hardware, control,
     contexts, input
<1>35. CASE UNCHANGED vars
  BY <1>35 DEF TypeOK, PCs, Decoding, Constructing, vars, hardware, control, contexts,
     input
<1> QED
  BY <1>1, <1>2, <1>3, <1>4, <1>5, <1>6, <1>7, <1>8, <1>9, <1>10, <1>11, <1>12, <1>13,
     <1>14, <1>15, <1>16, <1>17, <1>18, <1>19, <1>20, <1>21, <1>22, <1>23, <1>24, <1>25,
     <1>26, <1>27, <1>28, <1>29, <1>30, <1>31, <1>32, <1>33, <1>34, <1>35 DEF Next,
     Channel, Session

\* cleanup_ffmpeg_contexts runs before every session but the first.
LEMMA SessionStartsFreshStep ==
    ASSUME TypeOK, SessionStartsFresh, [Next]_vars
    PROVE  SessionStartsFresh'
<1>1. CASE InitRgaDrm
  BY <1>1 DEF SessionStartsFresh, ContextsClean, Constructing, InitRgaDrm, Both, vars,
     hardware, control, contexts, input
<1>2. CASE InitRknn2
  BY <1>2 DEF SessionStartsFresh, ContextsClean, Constructing, InitRknn2, vars,
     hardware, control, contexts, input
<1>3. CASE SessionLoop
  <2>1. CASE shouldStop
    BY <1>3, <2>1 DEF SessionStartsFresh, Constructing, SessionLoop
  <2>2. CASE ~shouldStop /\ restarted
    BY <1>3, <2>2 DEF SessionStartsFresh, ContextsClean, Constructing, SessionLoop, Cleanup
  <2>3. CASE ~shouldStop /\ ~restarted
    <3>1. ContextsClean /\ UNCHANGED contexts /\ pc' = "validate" /\ restarted'
      BY <1>3, <2>3 DEF SessionStartsFresh, SessionLoop
    <3> QED
      BY <3>1 DEF SessionStartsFresh, ContextsClean, Constructing, contexts
  <2> QED
    BY <2>1, <2>2, <2>3
<1>4. CASE SessionResult
  BY <1>4 DEF SessionStartsFresh, ContextsClean, Constructing, SessionResult,
     FailuresAfter, vars, hardware, control, contexts, input
<1>5. CASE Validate
  BY <1>5 DEF SessionStartsFresh, ContextsClean, Constructing, Validate, vars, hardware,
     control, contexts, input
<1>6. CASE FinalCleanup \/ Destroy \/ OpenFails \/ StreamInfoFails \/
         NoVideoStream \/ OpenInput \/ SelectDecoder \/ OpenCodec \/
         OpenCodecFails \/ OpenSoftwareInstead \/ OpenAudio \/ ReadPacket
         \/ EndSession \/ PacketRejected \/ SendPacket \/ ReceiveFrame \/
         NoMoreFrames \/ ReceiveFails \/ SkipFrame \/ ChoosePath \/
         ProcessHardware \/ SoftwareRefuses \/ ProcessSoftware \/ Infer \/
         InferenceFails \/ Push \/ Unref
  BY <1>6 DEF SessionStartsFresh, ContextsClean, Constructing, FinalCleanup, Cleanup,
     Destroy, OpenFails, SessionFails, StreamInfoFails, NoVideoStream, OpenInput,
     SelectDecoder, Selected, SoftwareDecoder, HardwareDecoder, NoCodec, OpenCodec,
     CodecOpens, OpenCodecFails, OpenSoftwareInstead, OpenAudio, ReadPacket, EndSession,
     SessionSucceeds, PacketRejected, SendPacket, ReceiveFrame, FramesOf, Aged,
     NoMoreFrames, ReceiveFails, SkipFrame, ChoosePath, ProcessHardware,
     SoftwareRefuses, ProcessSoftware, Both, Infer, InferenceFails, Push, Unref, vars,
     hardware, control, contexts, input
<1>7. CASE StopProcessing \/ Finished \/ UNCHANGED vars
  BY <1>7 DEF SessionStartsFresh, ContextsClean, Constructing, StopProcessing, Finished,
     vars, hardware, control, contexts, input
<1> QED
  BY <1>1, <1>2, <1>3, <1>4, <1>5, <1>6, <1>7 DEF Next, Channel, Session

\* The decoder is selected for the stream and the mode at hand, and neither
\* changes while it is used.
LEMMA DecoderChosenStep ==
    ASSUME TypeOK, SessionStartsFresh, DecoderChosen, [Next]_vars
    PROVE  DecoderChosen'
<1>1. CASE OpenInput
  BY <1>1 DEF TypeOK, DecoderChosen, Matches, Decoding, OpenInput, SessionStartsFresh,
     ContextsClean, vars, hardware, control, contexts, input
<1>2. CASE SelectDecoder
  BY <1>2 DEF TypeOK, DecoderChosen, Matches, Decoding, SelectDecoder, SessionFails,
     Selected, SoftwareDecoder, HardwareDecoder, NoCodec, vars, hardware, control,
     contexts, input
<1>3. CASE OpenCodec
  BY <1>3 DEF TypeOK, DecoderChosen, Matches, Decoding, OpenCodec, CodecOpens, vars,
     hardware, control, contexts, input
<1>4. CASE OpenSoftwareInstead
  BY <1>4 DEF TypeOK, DecoderChosen, Matches, Decoding, OpenSoftwareInstead,
     SessionFails, CodecOpens, SoftwareDecoder, NoCodec, vars, hardware, control,
     contexts, input
<1>5. CASE OpenAudio
  BY <1>5 DEF TypeOK, DecoderChosen, Matches, Decoding, OpenAudio, vars, hardware,
     control, contexts, input
<1>6. CASE InitRgaDrm \/ InitRknn2 \/ SessionLoop \/ SessionResult \/
         FinalCleanup \/ Destroy \/ Validate \/ OpenFails \/
         StreamInfoFails \/ NoVideoStream \/ OpenCodecFails \/ ReadPacket
         \/ EndSession \/ PacketRejected \/ SendPacket \/ ReceiveFrame \/
         NoMoreFrames \/ ReceiveFails \/ SkipFrame \/ ChoosePath \/
         ProcessHardware \/ SoftwareRefuses \/ ProcessSoftware \/
         InferenceFails \/ Push \/ Unref
  BY <1>6 DEF TypeOK, DecoderChosen, Matches, Decoding, InitRgaDrm, Both, InitRknn2,
     SessionLoop, Cleanup, SessionResult, FailuresAfter, FinalCleanup, Destroy,
     Validate, OpenFails, SessionFails, StreamInfoFails, NoVideoStream, OpenCodecFails,
     ReadPacket, EndSession, SessionSucceeds, PacketRejected, SendPacket, ReceiveFrame,
     FramesOf, NoMoreFrames, ReceiveFails, SkipFrame, ChoosePath, ProcessHardware,
     SoftwareRefuses, ProcessSoftware, InferenceFails, Push, Unref, vars, hardware,
     control, contexts, input
<1>7. CASE Infer
  <2>1. /\ pc = "infer" /\ pc' = "push"
        /\ UNCHANGED <<softwareOnly, ctxVideo, codecVideo, streamCodec>>
    BY <1>7 DEF Infer, hardware, contexts, input
  <2> QED
    BY <2>1 DEF DecoderChosen, Matches, Decoding
<1>8. CASE StopProcessing \/ Finished \/ UNCHANGED vars
  BY <1>8 DEF TypeOK, DecoderChosen, Matches, Decoding, StopProcessing, Finished, vars,
     hardware, control, contexts, input
<1> QED
  BY <1>1, <1>2, <1>3, <1>4, <1>5, <1>6, <1>7, <1>8 DEF Next, Channel, Session

\* Leaving hardware mode is the answer to every missing piece.
LEMMA BuffersMappedStep ==
    ASSUME TypeOK, BuffersMapped, [Next]_vars
    PROVE  BuffersMapped'
<1>1. CASE InitRgaDrm
  BY <1>1 DEF BuffersMapped, InitRgaDrm, Both, vars, hardware, control, contexts, input
<1>2. CASE Validate
  BY <1>2 DEF BuffersMapped, Validate, vars, hardware, control, contexts, input
<1>3. CASE OpenSoftwareInstead
  BY <1>3 DEF BuffersMapped, OpenSoftwareInstead, SessionFails, CodecOpens,
     SoftwareDecoder, NoCodec, vars, hardware, control, contexts, input
<1>4. CASE ChoosePath
  BY <1>4 DEF BuffersMapped, ChoosePath, vars, hardware, control, contexts, input
<1>5. CASE InitRknn2 \/ SessionLoop \/ SessionResult \/ FinalCleanup \/
         Destroy \/ OpenFails \/ StreamInfoFails \/ NoVideoStream \/
         OpenInput \/ SelectDecoder \/ OpenCodec \/ OpenCodecFails \/
         OpenAudio \/ ReadPacket \/ EndSession \/ PacketRejected \/
         SendPacket \/ ReceiveFrame \/ NoMoreFrames \/ ReceiveFails \/
         SkipFrame \/ ProcessHardware \/ SoftwareRefuses \/
         ProcessSoftware \/ Infer \/ InferenceFails \/ Push \/ Unref
  BY <1>5 DEF BuffersMapped, InitRknn2, SessionLoop, Cleanup, SessionResult,
     FailuresAfter, FinalCleanup, Destroy, OpenFails, SessionFails, StreamInfoFails,
     NoVideoStream, OpenInput, SelectDecoder, Selected, SoftwareDecoder,
     HardwareDecoder, NoCodec, OpenCodec, CodecOpens, OpenCodecFails, OpenAudio,
     ReadPacket, EndSession, SessionSucceeds, PacketRejected, SendPacket, ReceiveFrame,
     FramesOf, Aged, NoMoreFrames, ReceiveFails, SkipFrame, ProcessHardware,
     SoftwareRefuses, ProcessSoftware, Both, Infer, InferenceFails, Push, Unref, vars,
     hardware, control, contexts, input
<1>6. CASE StopProcessing \/ Finished \/ UNCHANGED vars
  BY <1>6 DEF BuffersMapped, StopProcessing, Finished, vars, hardware, control,
     contexts, input
<1> QED
  BY <1>1, <1>2, <1>3, <1>4, <1>5, <1>6 DEF Next, Channel, Session

\* No path reaches the inference with a buffer of an older frame.
LEMMA ImagesWrittenStep ==
    ASSUME TypeOK, ImagesWritten, [Next]_vars
    PROVE  ImagesWritten'
<1>1. CASE ReceiveFrame
  BY <1>1 DEF TypeOK, ImagesWritten, ReceiveFrame, FramesOf, Aged, vars, hardware,
     control, contexts, input
<1>2. CASE ProcessHardware
  BY <1>2 DEF TypeOK, Images, ImagesWritten, ProcessHardware, vars, hardware, control, contexts,
     input
<1>3. CASE ProcessSoftware
  BY <1>3 DEF TypeOK, Images, ImagesWritten, ProcessSoftware, Both, vars, hardware, control,
     contexts, input
<1>4. CASE Infer
  BY <1>4 DEF TypeOK, Images, ImagesWritten, Infer, vars, hardware, control, contexts, input
<1>5. CASE InitRgaDrm \/ InitRknn2 \/ SessionLoop \/ SessionResult \/
         FinalCleanup \/ Destroy \/ Validate \/ OpenFails \/
         StreamInfoFails \/ NoVideoStream \/ OpenInput \/ SelectDecoder \/
         OpenCodec \/ OpenCodecFails \/ OpenSoftwareInstead \/ OpenAudio
         \/ ReadPacket \/ EndSession \/ PacketRejected \/ SendPacket \/
         NoMoreFrames \/ ReceiveFails \/ SkipFrame \/ ChoosePath \/
         SoftwareRefuses \/ InferenceFails \/ Push \/ Unref
  BY <1>5 DEF TypeOK, ImagesWritten, InitRgaDrm, Both, InitRknn2, SessionLoop, Cleanup,
     SessionResult, FailuresAfter, FinalCleanup, Destroy, Validate, OpenFails,
     SessionFails, StreamInfoFails, NoVideoStream, OpenInput, SelectDecoder, Selected,
     SoftwareDecoder, HardwareDecoder, NoCodec, OpenCodec, CodecOpens, OpenCodecFails,
     OpenSoftwareInstead, OpenAudio, ReadPacket, EndSession, SessionSucceeds,
     PacketRejected, SendPacket, NoMoreFrames, ReceiveFails, SkipFrame, ChoosePath,
     SoftwareRefuses, InferenceFails, Push, Unref, vars, hardware, control, contexts,
     input
<1>6. CASE StopProcessing \/ Finished \/ UNCHANGED vars
  BY <1>6 DEF TypeOK, ImagesWritten, StopProcessing, Finished, vars, hardware, control,
     contexts, input
<1> QED
  BY <1>1, <1>2, <1>3, <1>4, <1>5, <1>6 DEF Next, Channel, Session

\* The inner loop ends with EAGAIN or with an error.
LEMMA DecoderDrainedStep ==
    ASSUME TypeOK, DecoderDrained, [Next]_vars
    PROVE  DecoderDrained'
<1>1. CASE OpenCodec
  BY <1>1 DEF DecoderDrained, OpenCodec, CodecOpens, vars, hardware, control, contexts,
     input
<1>2. CASE OpenSoftwareInstead
  BY <1>2 DEF DecoderDrained, OpenSoftwareInstead, SessionFails, CodecOpens,
     SoftwareDecoder, NoCodec, vars, hardware, control, contexts, input
<1>3. CASE SendPacket
  BY <1>3 DEF DecoderDrained, SendPacket, vars, hardware, control, contexts, input
<1>4. CASE ReceiveFrame
  BY <1>4 DEF DecoderDrained, ReceiveFrame, FramesOf, Aged, vars, hardware, control,
     contexts, input
<1>5. CASE NoMoreFrames
  BY <1>5 DEF DecoderDrained, NoMoreFrames, vars, hardware, control, contexts, input
<1>6. CASE ReceiveFails
  BY <1>6 DEF DecoderDrained, ReceiveFails, vars, hardware, control, contexts, input
<1>7. CASE Push
  BY <1>7 DEF DecoderDrained, Push, vars, hardware, control, contexts, input
<1>8. CASE InitRgaDrm \/ InitRknn2 \/ SessionLoop \/ SessionResult \/
         FinalCleanup \/ Destroy \/ Validate \/ OpenFails \/
         StreamInfoFails \/ NoVideoStream \/ OpenInput \/ SelectDecoder \/
         OpenCodecFails \/ OpenAudio \/ ReadPacket \/ EndSession \/
         PacketRejected \/ SkipFrame \/ ChoosePath \/ ProcessHardware \/
         SoftwareRefuses \/ ProcessSoftware \/ Infer \/ InferenceFails \/
         Unref
  BY <1>8 DEF DecoderDrained, InitRgaDrm, Both, InitRknn2, SessionLoop, Cleanup,
     SessionResult, FailuresAfter, FinalCleanup, Destroy, Validate, OpenFails,
     SessionFails, StreamInfoFails, NoVideoStream, OpenInput, SelectDecoder, Selected,
     SoftwareDecoder, HardwareDecoder, NoCodec, OpenCodecFails, OpenAudio, ReadPacket,
     EndSession, SessionSucceeds, PacketRejected, SkipFrame, ChoosePath,
     ProcessHardware, SoftwareRefuses, ProcessSoftware, Infer, InferenceFails, Unref,
     vars, hardware, control, contexts, input
<1>9. CASE StopProcessing \/ Finished \/ UNCHANGED vars
  BY <1>9 DEF DecoderDrained, StopProcessing, Finished, vars, hardware, control,
     contexts, input
<1> QED
  BY <1>1, <1>2, <1>3, <1>4, <1>5, <1>6, <1>7, <1>8, <1>9 DEF Next, Channel, Session

\* A success starts the count again; a failure adds to it and to the history.
LEMMA FailuresCountedStep ==
    ASSUME TypeOK, FailuresCounted, [Next]_vars
    PROVE  FailuresCounted'
<1>1. CASE SessionResult
  <2>1. failures' = FailuresAfter /\ recent' = RecentAfter /\ shouldStop' = shouldStop
    BY <1>1 DEF SessionResult
  <2>2. failures < MaxFailures
    BY <1>1 DEF FailuresCounted, SessionResult
  <2>3. pc' = IF shouldStop \/ failures' >= MaxFailures THEN "finalCleanup" ELSE "loop"
    BY <1>1 DEF SessionResult
  <2>4. /\ failures \in Nat /\ MaxFailures \in Nat /\ Len(recent) \in Nat
        /\ Len(recent) <= MaxFailures
    BY ChannelAssumption DEF TypeOK
  <2>5. CASE shouldStop
    BY <2>1, <2>2, <2>3, <2>4, <2>5 DEF FailuresCounted, FailuresAfter
  <2>6. CASE ~shouldStop /\ result
    BY <2>1, <2>2, <2>3, <2>4, <2>6, RecentLemma, ChannelAssumption
       DEF FailuresCounted, FailuresAfter
  <2>7. CASE ~shouldStop /\ ~result
    <3>1. failures' = failures + 1
      BY <2>1, <2>7 DEF FailuresAfter
    <3>2. failures' <= Len(recent')
      BY <2>1, <2>2, <2>4, <2>7, <3>1, RecentLemma DEF FailuresCounted
    <3>3. ASSUME NEW i \in 1..Len(recent'), i > Len(recent') - failures'
          PROVE  ~recent'[i]
      <4>1. /\ Len(recent') = IF Len(recent) = MaxFailures THEN Len(recent)
                               ELSE Len(recent) + 1
            /\ recent'[i] =
                   IF i = Len(recent') THEN result
                   ELSE IF Len(recent) = MaxFailures THEN recent[i + 1] ELSE recent[i]
        BY <2>1, RecentLemma
      <4>2. /\ failures <= Len(recent)
            /\ \A k \in 1..Len(recent) : k > Len(recent) - failures => ~recent[k]
        BY <2>7 DEF FailuresCounted
      <4>3. CASE i = Len(recent')
        BY <2>7, <4>1, <4>3
      <4>4. CASE i # Len(recent') /\ Len(recent) = MaxFailures
        <5>1. i + 1 \in 1..Len(recent) /\ i + 1 > Len(recent) - failures
          BY <2>2, <2>4, <3>1, <3>3, <4>1, <4>4
        <5> QED
          BY <4>1, <4>2, <4>4, <5>1
      <4>5. CASE i # Len(recent') /\ Len(recent) # MaxFailures
        <5>1. i \in 1..Len(recent) /\ i > Len(recent) - failures
          BY <2>2, <2>4, <3>1, <3>3, <4>1, <4>5
        <5> QED
          BY <4>1, <4>2, <4>5, <5>1
      <4> QED
        BY <4>3, <4>4, <4>5
    <3> QED
      BY <2>1, <2>2, <2>3, <2>4, <2>7, <3>1, <3>2, <3>3 DEF FailuresCounted
  <2> QED
    BY <2>5, <2>6, <2>7
<1>2. CASE SessionLoop
  BY <1>2 DEF FailuresCounted, SessionLoop, Cleanup, vars, hardware, control, contexts,
     input
<1>3. CASE InitRgaDrm \/ InitRknn2 \/ FinalCleanup \/ Destroy \/ Validate
         \/ OpenFails \/ StreamInfoFails \/ NoVideoStream \/ OpenInput \/
         SelectDecoder \/ OpenCodec \/ OpenCodecFails \/
         OpenSoftwareInstead \/ OpenAudio \/ ReadPacket \/ EndSession \/
         PacketRejected \/ SendPacket \/ ReceiveFrame \/ NoMoreFrames \/
         ReceiveFails \/ SkipFrame \/ ChoosePath \/ ProcessHardware \/
         SoftwareRefuses \/ ProcessSoftware \/ Infer \/ InferenceFails \/
         Push \/ Unref
  BY <1>3 DEF FailuresCounted, InitRgaDrm, Both, InitRknn2, FinalCleanup, Cleanup,
     Destroy, Validate, OpenFails, SessionFails, StreamInfoFails, NoVideoStream,
     OpenInput, SelectDecoder, Selected, SoftwareDecoder, HardwareDecoder, NoCodec,
     OpenCodec, CodecOpens, OpenCodecFails, OpenSoftwareInstead, OpenAudio, ReadPacket,
     EndSession, SessionSucceeds, PacketRejected, SendPacket, ReceiveFrame, FramesOf,
     Aged, NoMoreFrames, ReceiveFails, SkipFrame, ChoosePath, ProcessHardware,
     SoftwareRefuses, ProcessSoftware, Infer, InferenceFails, Push, Unref, vars,
     hardware, control, contexts, input
<1>4. CASE StopProcessing \/ Finished \/ UNCHANGED vars
  BY <1>4 DEF FailuresCounted, StopProcessing, Finished, vars, hardware, control,
     contexts, input
<1> QED
  BY <1>1, <1>2, <1>3, <1>4 DEF Next, Channel, Session

-----------------------------------------------------------------------------
\* CInv is inductive.
LEMMA Inductive == Spec => []CInv
<1>1. CInv /\ [Next]_vars => CInv'
  BY TypeStep, SessionStartsFreshStep, DecoderChosenStep, BuffersMappedStep,
     ImagesWrittenStep, DecoderDrainedStep, FailuresCountedStep DEF CInv
<1> QED
  BY InvInit, <1>1, PTL DEF Spec

\* The types of the channel's state, the bound on consecutive_failures among
\* them, hold for every max_consecutive_failures, input and decoder.
THEOREM ChannelTypeCorrect == Spec => []TypeOK
<1>1. CInv => TypeOK
  BY DEF CInv
<1> QED
  BY <1>1, Inductive, PTL

\* No session, however the one before it ended, opens its input over contexts
\* that are still there (cleanup_ffmpeg_contexts).
THEOREM SessionsCorrect == Spec => []SessionStartsClean
<1>1. CInv => SessionStartsClean
  BY DEF CInv, SessionStartsFresh, ContextsClean, SessionStartsClean
<1> QED
  BY <1>1, Inductive, PTL

\* No session decodes with a decoder chosen for another stream or another mode.
THEOREM DecoderCorrect == Spec => []DecoderMatchesStream
<1>1. CInv => DecoderMatchesStream
  BY DEF CInv, DecoderChosen, Matches, DecoderMatchesStream
<1> QED
  BY <1>1, Inductive, PTL

\* The hardware path has its buffers, and what is pushed is one frame, its
\* display image and, unless the NPU refused a call on it, the detections made on
\* it (process_frame_hardware, process_frame_software_fallback and the inference).
THEOREM FramesCorrect == Spec => [](HardwareHasBuffers /\ PushIsCurrent)
<1>1. CInv => HardwareHasBuffers
  BY DEF CInv, BuffersMapped, HardwareHasBuffers
<1>2. CInv => PushIsCurrent
  BY DEF CInv, ImagesWritten, PushIsCurrent
<1> QED
  BY <1>1, <1>2, Inductive, PTL

\* A packet meets a drained decoder unless receiving failed.
THEOREM DrainCorrect == Spec => []DrainedBeforeSend
<1>1. CInv => DrainedBeforeSend
  BY DEF CInv, DecoderDrained, DrainedBeforeSend
<1> QED
  BY <1>1, Inductive, PTL

\* decode_continuous gives up only after max_consecutive_failures failures in
\* a row, whatever their number is and whatever came before.
THEOREM GiveUpCorrect == Spec => []GivesUpOnlyAfterFailures
<1>1. CInv => GivesUpOnlyAfterFailures
  <2> SUFFICES ASSUME CInv, pc = "finalCleanup", ~shouldStop
               PROVE  Len(recent) = MaxFailures /\ \A i \in 1..MaxFailures : ~recent[i]
    BY DEF GivesUpOnlyAfterFailures
  <2>1. /\ failures = MaxFailures /\ failures <= Len(recent)
        /\ \A i \in 1..Len(recent) : i > Len(recent) - failures => ~recent[i]
    BY DEF CInv, FailuresCounted
  <2>2. Len(recent) <= MaxFailures /\ Len(recent) \in Nat /\ MaxFailures \in Nat
    BY ChannelAssumption DEF CInv, TypeOK
  <2> QED
    BY <2>1, <2>2
<1> QED
  BY <1>1, Inductive, PTL

-----------------------------------------------------------------------------
(* What the thread has left (OnlySuccessRenews).                           *)

\* The first component that falls decides.
LEMMA LessByParts ==
    ASSUME NEW a1, NEW a2, NEW a3, NEW a4, NEW a5, NEW a6,
           NEW b1, NEW b2, NEW b3, NEW b4, NEW b5, NEW b6,
           \/ a1 < b1
           \/ a1 = b1 /\ a2 < b2
           \/ a1 = b1 /\ a2 = b2 /\ a3 < b3
           \/ a1 = b1 /\ a2 = b2 /\ a3 = b3 /\ a4 < b4
           \/ a1 = b1 /\ a2 = b2 /\ a3 = b3 /\ a4 = b4 /\ a5 < b5
           \/ a1 = b1 /\ a2 = b2 /\ a3 = b3 /\ a4 = b4 /\ a5 = b5 /\ a6 < b6
    PROVE  Less(<<a1, a2, a3, a4, a5, a6>>, <<b1, b2, b3, b4, b5, b6>>)
<1> DEFINE r == <<a1, a2, a3, a4, a5, a6>>
           q == <<b1, b2, b3, b4, b5, b6>>
<1>1. \E j \in 1..6 : r[j] < q[j] /\ \A i \in 1..(j - 1) : r[i] = q[i]
  <2>1. CASE a1 < b1
    BY <2>1
  <2>2. CASE a1 = b1 /\ a2 < b2
    BY <2>2
  <2>3. CASE a1 = b1 /\ a2 = b2 /\ a3 < b3
    BY <2>3
  <2>4. CASE a1 = b1 /\ a2 = b2 /\ a3 = b3 /\ a4 < b4
    BY <2>4
  <2>5. CASE a1 = b1 /\ a2 = b2 /\ a3 = b3 /\ a4 = b4 /\ a5 < b5
    BY <2>5
  <2>6. CASE a1 = b1 /\ a2 = b2 /\ a3 = b3 /\ a4 = b4 /\ a5 = b5 /\ a6 < b6
    BY <2>6
  <2> QED
    BY <2>1, <2>2, <2>3, <2>4, <2>5, <2>6
<1> QED
  BY <1>1 DEF Less

Ranks == [1..6 -> Nat]

NatLess == {ss \in Nat \X Nat : ss[1] < ss[2]}

LEMMA LeftType == TypeOK => Left \in Ranks
<1> SUFFICES ASSUME TypeOK PROVE Left \in Ranks
  OBVIOUS
<1>1. MaxFailures - failures \in Nat
  BY ChannelAssumption DEF TypeOK
<1>2. SessionLeft \in Nat /\ PacketLeft \in Nat /\ FrameLeft \in Nat
  BY DEF SessionLeft, PacketLeft, FrameLeft
<1>3. packetsLeft \in Nat /\ decoded \in Nat
  BY ChannelAssumption DEF TypeOK
<1> QED
  BY <1>1, <1>2, <1>3 DEF Left, Ranks

\* Nothing goes down for ever in the order of OnlySuccessRenews.
THEOREM LessIsWellFounded == IsWellFoundedOn({ss \in Ranks \X Ranks : Less(ss[1], ss[2])}, Ranks)
<1>1. IsWellFoundedOn(LexProductOrdering(NatLess, Nat, 6), Ranks)
  <2>1. IsWellFoundedOn(NatLess, Nat)
    BY NatLessThanWellFounded DEF NatLess, OpToRel
  <2> QED
    BY <2>1, WFLexProductOrdering, 6 \in Nat DEF Ranks
<1>2. ASSUME NEW ss \in Ranks \X Ranks, Less(ss[1], ss[2])
      PROVE  ss \in LexProductOrdering(NatLess, Nat, 6)
  <2>1. /\ ss[1] \in [1..6 -> Nat] /\ ss[2] \in [1..6 -> Nat]
        /\ DOMAIN ss[2] = 1..6
    BY DEF Ranks
  <2>2. Len(ss[2]) = 6
    BY <2>1
  <2>3. PICK j \in 1..6 : ss[1][j] < ss[2][j] /\ \A i \in 1..(j - 1) : ss[1][i] = ss[2][i]
    BY <1>2, <2>2 DEF Less
  <2>4. <<ss[1][j], ss[2][j]>> \in NatLess
    BY <2>1, <2>3 DEF NatLess
  <2> QED
    BY <2>1, <2>3, <2>4 DEF LexProductOrdering, Ranks
<1> DEFINE R == {ss \in Ranks \X Ranks : Less(ss[1], ss[2])}
<1>3. R \cap (Ranks \X Ranks) \subseteq LexProductOrdering(NatLess, Nat, 6)
  BY <1>2
<1> HIDE DEF R
<1>4. IsWellFoundedOn(R, Ranks)
  BY <1>1, <1>3, IsWellFoundedOnSubrelation
<1> QED
  BY <1>4 DEF R


\* A step that touches neither packets nor frames goes on in the session.
LEMMA SessionGoesOn ==
    ASSUME TypeOK,
           \/ InitRgaDrm \/ InitRknn2 \/ SessionLoop \/ FinalCleanup \/ Destroy
           \/ Validate \/ OpenFails \/ StreamInfoFails \/ NoVideoStream \/ OpenInput
           \/ SelectDecoder \/ OpenCodec \/ OpenCodecFails \/ OpenSoftwareInstead
           \/ OpenAudio \/ EndSession \/ InferenceFails
    PROVE  failures' = failures /\ SessionLeft' < SessionLeft
  BY DEF InitRgaDrm, InitRknn2, SessionLoop, FinalCleanup, Destroy, Validate, OpenFails,
         StreamInfoFails, NoVideoStream, OpenInput, SelectDecoder, OpenCodec,
         OpenCodecFails, OpenSoftwareInstead, OpenAudio, EndSession, InferenceFails,
         CodecOpens, SessionFails, SessionSucceeds, Cleanup, SessionLeft, Decoding,
         control, vars

\* A session's end counts a failure, or ends decode_continuous.
LEMMA SessionEndGoesOn ==
    ASSUME TypeOK, SessionResult, ~result \/ shouldStop
    PROVE  /\ failures \in Int /\ MaxFailures \in Int
           /\ \/ failures' = failures + 1
              \/ failures' = failures /\ SessionLeft' < SessionLeft
  BY ChannelAssumption DEF TypeOK, SessionResult, FailuresAfter, SessionLeft, Decoding

\* A packet is used up, or handled further.
LEMMA PacketGoesOn ==
    ASSUME TypeOK,
           \/ ReadPacket /\ ~LiveSource
           \/ PacketRejected \/ SendPacket \/ NoMoreFrames \/ ReceiveFails \/ Unref
    PROVE  /\ failures' = failures /\ SessionLeft' = SessionLeft
           /\ \/ packetsLeft' < packetsLeft
              \/ packetsLeft' = packetsLeft /\ PacketLeft' < PacketLeft
  BY ChannelAssumption
     DEF TypeOK, ReadPacket, PacketRejected, SendPacket, NoMoreFrames, ReceiveFails,
         Unref, SessionLeft, PacketLeft, Decoding, control, input

\* A frame is taken from the decoder, or handled further.
LEMMA FrameGoesOn ==
    ASSUME TypeOK,
           \/ ReceiveFrame \/ SkipFrame \/ ChoosePath \/ ProcessHardware
           \/ SoftwareRefuses \/ ProcessSoftware \/ Infer \/ Push
    PROVE  /\ failures' = failures
           /\ \/ SessionLeft' < SessionLeft
              \/ /\ SessionLeft' = SessionLeft /\ packetsLeft' = packetsLeft
                 /\ PacketLeft' = PacketLeft
                 /\ \/ decoded' < decoded
                    \/ decoded' = decoded /\ FrameLeft' < FrameLeft
<1>1. failures' = failures
  BY DEF ReceiveFrame, SkipFrame, ChoosePath, ProcessHardware, SoftwareRefuses,
         ProcessSoftware, Infer, Push, control
<1>2. CASE ReceiveFrame
  BY <1>1, <1>2, ChannelAssumption
     DEF TypeOK, ReceiveFrame, SessionLeft, PacketLeft, Decoding
<1>3. CASE SkipFrame \/ ChoosePath
  BY <1>1, <1>3
     DEF SkipFrame, ChoosePath, SessionLeft, PacketLeft, FrameLeft, Decoding, input
<1>4. CASE ProcessHardware \/ SoftwareRefuses \/ ProcessSoftware
  BY <1>1, <1>4
     DEF ProcessHardware, SoftwareRefuses, ProcessSoftware, SessionLeft, PacketLeft,
         FrameLeft, Decoding, input
<1>5. CASE Infer \/ Push
  <2>1. /\ \/ pc = "infer" /\ pc' = "push"
           \/ pc = "push" /\ pc' = "receive"
        /\ UNCHANGED <<packetsLeft, decoded>>
    BY <1>5 DEF Infer, Push, input
  <2> QED
    BY <1>1, <2>1 DEF SessionLeft, PacketLeft, FrameLeft, Decoding
<1> QED
  BY <1>2, <1>3, <1>4, <1>5

\* For any number of tolerated failures, packets and frames in the decoder:
\* whatever fails, each step of the channel's thread uses something up.  With
\* LessIsWellFounded, only successful sessions or a live input keep it going.
THEOREM RenewalCorrect == Spec => OnlySuccessRenews
<1> DEFINE Renewed == \/ Less(Left', Left)
                      \/ pc = "sessionResult" /\ result /\ ~shouldStop
                      \/ pc = "read" /\ LiveSource
<1>1. ASSUME TypeOK, Channel PROVE Renewed
  <2>1. ASSUME failures' = failures,
               \/ SessionLeft' < SessionLeft
               \/ /\ SessionLeft' = SessionLeft
                  /\ \/ packetsLeft' < packetsLeft
                     \/ packetsLeft' = packetsLeft /\ PacketLeft' < PacketLeft
                     \/ /\ packetsLeft' = packetsLeft /\ PacketLeft' = PacketLeft
                        /\ \/ decoded' < decoded
                           \/ decoded' = decoded /\ FrameLeft' < FrameLeft
        PROVE  Less(Left', Left)
    BY <2>1, LessByParts DEF Left
  <2>2. CASE SessionResult
    <3>1. CASE result /\ ~shouldStop
      BY <2>2, <3>1 DEF SessionResult
    <3>2. CASE ~(result /\ ~shouldStop)
      <4>1. result \in BOOLEAN /\ shouldStop \in BOOLEAN
        BY <1>1 DEF TypeOK
      <4>2. CASE failures' = failures + 1
        <5>1. MaxFailures - failures' < MaxFailures - failures
          BY <1>1, <2>2, <3>2, <4>1, <4>2, SessionEndGoesOn
        <5> QED
          BY <5>1, LessByParts DEF Left
      <4> QED
        BY <1>1, <2>1, <2>2, <3>2, <4>1, <4>2, SessionEndGoesOn
    <3> QED
      BY <3>1, <3>2
  <2>3. CASE ReadPacket
    <3>1. CASE LiveSource
      BY <2>3, <3>1 DEF ReadPacket
    <3>2. CASE ~LiveSource
      BY <1>1, <2>1, <2>3, <3>2, PacketGoesOn
    <3> QED
      BY <3>1, <3>2
  <2>4. CASE PacketRejected \/ SendPacket \/ NoMoreFrames \/ ReceiveFails \/ Unref
    BY <1>1, <2>1, <2>4, PacketGoesOn
  <2>5. CASE \/ ReceiveFrame \/ SkipFrame \/ ChoosePath \/ ProcessHardware
             \/ SoftwareRefuses \/ ProcessSoftware \/ Infer \/ Push
    BY <1>1, <2>1, <2>5, FrameGoesOn
  <2>6. CASE \/ InitRgaDrm \/ InitRknn2 \/ SessionLoop \/ FinalCleanup \/ Destroy
             \/ Validate \/ OpenFails \/ StreamInfoFails \/ NoVideoStream \/ OpenInput
             \/ SelectDecoder \/ OpenCodec \/ OpenCodecFails \/ OpenSoftwareInstead
             \/ OpenAudio \/ EndSession \/ InferenceFails
    BY <1>1, <2>1, <2>6, SessionGoesOn
  <2> QED
    BY <1>1, <2>2, <2>3, <2>4, <2>5, <2>6 DEF Channel, Session
<1>2. TypeOK /\ [Next]_vars => [Channel => Renewed]_vars
  BY <1>1
<1> QED
  BY <1>2, ChannelTypeCorrect, PTL DEF Spec, OnlySuccessRenews

-----------------------------------------------------------------------------
(* The refinement of FrameBuffers.                                         *)

NotIdle == {"initRgaDrm", "hardware", "software", "infer", "push", "crashed"}

LEMMA Phases ==
    /\ pc = "initRgaDrm" => Phase = "setup"
    /\ pc \in {"hardware", "software", "crashed"} => Phase = pc
    /\ pc \in {"infer", "push"} /\ ImagesWritten => Phase = "shown"
    /\ pc \notin NotIdle => Phase = "idle"
BY DEF NotIdle, Phase, ImagesWritten

LEMMA PhasesNext ==
    /\ pc' \in {"hardware", "software", "crashed"} => Phase' = pc'
    /\ pc' \in {"infer", "push"} /\ ImagesWritten' => Phase' = "shown"
    /\ pc' \notin NotIdle => Phase' = "idle"
BY DEF NotIdle, Phase, ImagesWritten

LEMMA InitBuffers == Init => FB!Init
BY Phases DEF Init, FB!Init

\* init_rga_drm is SetUp; what leaves hardware mode later is LoseHardware.
LEMMA ModeStep ==
    ASSUME TypeOK, InitRgaDrm \/ Validate \/ OpenSoftwareInstead
    PROVE  FB!Next \/ UNCHANGED FB!vars
<1>1. CASE InitRgaDrm
  <2>1. Phase = "setup" /\ Phase' = "idle"
    BY <1>1, Phases, PhasesNext DEF InitRgaDrm, NotIdle
  <2>2. /\ buffers' \in SUBSET Both /\ softwareOnly' \in BOOLEAN
        /\ ~softwareOnly' => buffers' = Both
    BY <1>1 DEF InitRgaDrm, Both
  <2>3. FB!SetUp
    BY <2>1, <2>2 DEF FB!SetUp
  <2> QED
    BY <2>3 DEF FB!Next
<1>2. CASE Validate \/ OpenSoftwareInstead
  <2>1. Phase = "idle" /\ Phase' = "idle"
    BY <1>2, Phases, PhasesNext
       DEF Validate, OpenSoftwareInstead, CodecOpens, SessionFails, NotIdle
  <2>2. UNCHANGED buffers
    BY <1>2 DEF Validate, OpenSoftwareInstead
  <2>3. softwareOnly \in BOOLEAN /\ softwareOnly' \in BOOLEAN /\ (softwareOnly => softwareOnly')
    BY <1>2 DEF Validate, OpenSoftwareInstead, TypeOK
  <2>4. CASE ~softwareOnly /\ softwareOnly'
    <3>1. FB!LoseHardware
      BY <2>1, <2>2, <2>4 DEF FB!LoseHardware
    <3> QED
      BY <3>1 DEF FB!Next
  <2>5. CASE softwareOnly' = softwareOnly
    BY <2>1, <2>2, <2>5 DEF FB!vars
  <2> QED
    BY <2>3, <2>4, <2>5
<1> QED
  BY <1>1, <1>2

\* A frame goes from phase to phase.
LEMMA FrameStep ==
    ASSUME CInv, CInv',
           ChoosePath \/ ProcessHardware \/ SoftwareRefuses \/ ProcessSoftware \/ Infer \/ Push
    PROVE  FB!Next \/ UNCHANGED FB!vars
<1>1. UNCHANGED <<buffers, softwareOnly>>
  BY DEF ChoosePath, ProcessHardware, SoftwareRefuses, ProcessSoftware, Infer, Push, hardware
<1>2. ImagesWritten /\ ImagesWritten' /\ BuffersMapped
  BY DEF CInv
<1>3. CASE ChoosePath
  <2>1. Phase = "idle" /\ pc # "initRgaDrm" /\ pc' \in {"hardware", "software"} /\ Phase' = pc'
    BY <1>3, Phases, PhasesNext DEF ChoosePath, NotIdle
  <2>2. CASE pc' = "hardware"
    <3>1. ~softwareOnly
      BY <1>3, <2>2 DEF ChoosePath
    <3>2. FB!ByHardware
      BY <1>1, <2>1, <2>2, <3>1 DEF FB!ByHardware
    <3> QED
      BY <3>2 DEF FB!Next
  <2>3. CASE pc' = "software"
    <3>1. FB!BySoftware
      BY <1>1, <2>1, <2>3 DEF FB!BySoftware
    <3> QED
      BY <3>1 DEF FB!Next
  <2> QED
    BY <2>1, <2>2, <2>3
<1>4. CASE ProcessHardware
  <2>1. Phase = "hardware" /\ buffers = Both /\ pc' \in {"infer", "software"}
    BY <1>2, <1>4, Phases DEF ProcessHardware, BuffersMapped
  <2>2. CASE pc' = "infer"
    <3>1. Phase' = "shown"
      BY <1>2, <2>2, PhasesNext
    <3>2. FB!Show
      BY <1>1, <2>1, <3>1 DEF FB!Show
    <3> QED
      BY <3>2 DEF FB!Next
  <2>3. CASE pc' = "software"
    <3>1. Phase' = "software"
      BY <2>3, PhasesNext
    <3>2. FB!BySoftware
      BY <1>1, <2>1, <3>1 DEF FB!BySoftware
    <3> QED
      BY <3>2 DEF FB!Next
  <2> QED
    BY <2>1, <2>2, <2>3
<1>5. CASE SoftwareRefuses
  <2>1. Phase = "software" /\ Phase' = "idle"
    BY <1>5, Phases, PhasesNext DEF SoftwareRefuses, NotIdle
  <2>2. FB!Refuse
    BY <1>1, <2>1 DEF FB!Refuse
  <2> QED
    BY <2>2 DEF FB!Next
<1>6. CASE ProcessSoftware
  <2>1. Phase = "software"
    BY <1>6, Phases DEF ProcessSoftware
  <2>2. CASE buffers = Both
    <3>1. Phase' = "shown"
      BY <1>2, <1>6, <2>2, PhasesNext DEF ProcessSoftware
    <3>2. FB!Show
      BY <1>1, <2>1, <2>2, <3>1 DEF FB!Show
    <3> QED
      BY <3>2 DEF FB!Next
  <2>3. CASE buffers # Both
    <3>1. Phase' = "crashed"
      BY <1>6, <2>3, PhasesNext DEF ProcessSoftware
    <3>2. FB!Crash
      BY <1>1, <2>1, <2>3, <3>1 DEF FB!Crash
    <3> QED
      BY <3>2 DEF FB!Next
  <2> QED
    BY <2>2, <2>3
<1>7. CASE Infer
  <2>1. Phase = "shown" /\ Phase' = "shown"
    BY <1>2, <1>7, Phases, PhasesNext DEF Infer
  <2> QED
    BY <1>1, <2>1 DEF FB!vars
<1>8. CASE Push
  <2>1. Phase = "shown" /\ Phase' = "idle"
    BY <1>2, <1>8, Phases, PhasesNext DEF Push, NotIdle
  <2>2. FB!Done
    BY <1>1, <2>1 DEF FB!Done
  <2> QED
    BY <2>2 DEF FB!Next
<1> QED
  BY <1>3, <1>4, <1>5, <1>6, <1>7, <1>8

\* The undefined behaviour that is not for want of a buffer.
LEMMA CrashStep ==
    ASSUME CInv, NoVideoStream \/ InferenceFails
    PROVE  FB!Next
<1>1. /\ UNCHANGED <<buffers, softwareOnly>>
      /\ pc \in {"open", "infer"} /\ pc' = "crashed"
  BY DEF NoVideoStream, InferenceFails, hardware
<1>2. Phase \in {"idle", "shown"} /\ Phase' = "crashed"
  BY <1>1, Phases, PhasesNext DEF CInv, NotIdle
<1>3. FB!Crash
  BY <1>1, <1>2 DEF FB!Crash
<1> QED
  BY <1>3 DEF FB!Next

\* Between two frames nothing happens to the buffers.
LEMMA IdleStep ==
    ASSUME \/ InitRknn2 \/ SessionLoop \/ SessionResult \/ FinalCleanup \/ Destroy
           \/ OpenFails \/ StreamInfoFails \/ OpenInput \/ SelectDecoder \/ OpenCodec
           \/ OpenCodecFails \/ OpenAudio \/ ReadPacket \/ EndSession \/ PacketRejected
           \/ SendPacket \/ ReceiveFrame \/ NoMoreFrames \/ ReceiveFails \/ SkipFrame \/ Unref
    PROVE  UNCHANGED FB!vars
<1>1. /\ UNCHANGED <<buffers, softwareOnly>>
      /\ pc \notin NotIdle /\ pc' \notin NotIdle
  BY DEF InitRknn2, SessionLoop, SessionResult, FinalCleanup, Destroy, OpenFails,
     SessionFails, StreamInfoFails, OpenInput, SelectDecoder, OpenCodec, CodecOpens,
     OpenCodecFails, OpenAudio, ReadPacket, EndSession, SessionSucceeds, PacketRejected,
     SendPacket, ReceiveFrame, NoMoreFrames, ReceiveFails, SkipFrame, Unref, hardware, NotIdle
<1>2. Phase = "idle" /\ Phase' = "idle"
  BY <1>1, Phases, PhasesNext
<1> QED
  BY <1>1, <1>2 DEF FB!vars

LEMMA OthersStep ==
    ASSUME StopProcessing \/ Finished \/ UNCHANGED vars
    PROVE  UNCHANGED FB!vars
<1>1. UNCHANGED <<pc, buffers, softwareOnly, images>>
  BY DEF StopProcessing, Finished, vars, hardware
<1>2. Phase' = Phase
  BY <1>1 DEF Phase
<1> QED
  BY <1>1, <1>2 DEF FB!vars

\* Through every session, fallback and restart: the hardware path means both
\* buffers, hardware mode that was left is never entered again, and inference
\* and streamer see only frames that both buffers hold.
THEOREM BuffersImplement == Spec => ImplementsFrameBuffers
<1>1. CInv /\ CInv' /\ [Next]_vars => [FB!Next]_(FB!vars)
  <2>1. CInv => TypeOK
    BY DEF CInv
  <2> QED
    BY <2>1, ModeStep, FrameStep, CrashStep, IdleStep, OthersStep DEF Next, Channel, Session
<1> QED
  BY <1>1, InitBuffers, Inductive, PTL DEF Spec, ImplementsFrameBuffers, FB!Spec
=============================================================================
