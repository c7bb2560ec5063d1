------------------------ MODULE MJPEGStreamerProofs ------------------------
(***************************************************************************)
(* Proofs about MJPEGStreamer, for every MaxFrames and MAX_QUEUE_SIZE.     *)
(* IInv joins the safety properties with what they rest on: who holds the  *)
(* lock, that frames are taken in the order they were pushed, and what     *)
(* each position of the two threads implies.                               *)
(***************************************************************************)
EXTENDS MJPEGStreamer, SequenceTheorems, TLAPS

\* The encoder holds queue_mutex_ from the predicate to the pop, and the
\* owner's critical sections are single steps.
LockHolder ==
    queueMutex = IF encoderPc \in {"predicate", "block", "awake"}
                 THEN "encoder" ELSE "free"

\* While the encoder waits it sees an empty queue until a push is notified.
BlocksOnEmpty == encoderPc = "block" => frameQueue = <<>> \/ shouldStop

\* Frames leave the queue in the order in which they entered it.
TakenInOrder ==
    /\ frameData.results + Len(frameQueue) <= PushedCount
    /\ encoderPc \in {"encode", "get", "publish"} => frameData.results > 0

\* A queued or taken frame owns the pixels its boxes were computed on.
FramesOwnPixels ==
    /\ \A i \in 1 .. Len(frameQueue) :
           frameQueue[i].frame = [shared |-> FALSE, pixels |-> frameQueue[i].results]
    /\ frameData.frame = [shared |-> FALSE, pixels |-> frameData.results]

\* MPP reads the frame buffer late, but frame by frame: what it has in packets
\* lies, in order, between the newest picture published and the buffer's.
PacketsInOrder ==
    /\ \A i \in 1 .. Len(packets) :
           /\ packets[i].boxes = packets[i].pixels
           /\ 0 < packets[i].pixels
           /\ newestShown <= packets[i].pixels
           /\ packets[i].pixels <= frmBuf.pixels
    /\ \A i, j \in 1 .. Len(packets) : i < j => packets[i].pixels <= packets[j].pixels

\* The frame buffer's picture is the newest of all, and of a frame taken.
BufferIsNewest ==
    /\ frmBuf.boxes = frmBuf.pixels
    /\ newestShown <= frmBuf.pixels
    /\ frmBuf.pixels <= frameData.results
    /\ accepted > 0 => 0 < frmBuf.pixels

\* A get finds the buffer as this call left it; if MPP holds no other frame, its
\* packet is of this one.
GetFindsThisFrame ==
    encoderPc = "get" =>
        /\ accepted + Len(packets) >= 1
        /\ frmBuf.pixels = frameData.results
        /\ Behind = 0 /\ packets # <<>> => packets[1].pixels = frameData.results

\* What is about to be published is nothing, if a packet did not come, or a
\* picture between the newest published and those still to come.
PublishInOrder ==
    encoderPc = "publish" =>
        \/ jpegData = NoJpeg /\ Behind > 0
        \/ /\ 0 < jpegData.pixels
           /\ newestShown <= jpegData.pixels
           /\ jpegData.pixels <= frmBuf.pixels
           /\ \A i \in 1 .. Len(packets) : jpegData.pixels <= packets[i].pixels
           /\ Behind = 0 => jpegData.pixels = frameData.results

PicturesInOrder ==
    PacketsInOrder /\ BufferIsNewest /\ GetFindsThisFrame /\ PublishInOrder

\* How far stop() has come.
StopProgress ==
    /\ running <=> ownerPc \notin {"init", "stopped"}
    /\ encoderPc = "unstarted" <=> ownerPc = "init"
    /\ ownerPc \in {"clearQueue", "clearJpeg", "setStopped", "stopped"} => encoderPc = "done"
    /\ ownerPc \in {"clearJpeg", "setStopped", "stopped"} => frameQueue = <<>>
    /\ ownerPc \in {"setStopped", "stopped"} => currentJpeg = NoJpeg

IInv ==
    /\ TypeOK
    /\ LockHolder
    /\ QueueHoldsNewest
    /\ BlocksOnEmpty
    /\ NoSleepOnFrames
    /\ AwakeFindsFrame
    /\ TakenInOrder
    /\ FramesOwnPixels
    /\ BoxesMatchPixels
    /\ PicturesInOrder
    /\ FramesAccountedFor
    /\ StopProgress

-----------------------------------------------------------------------------
(* The queue's two operations.                                             *)

\* What Pushed does to a queue of any length: one frame at the end, and the
\* oldest gone exactly when the queue was full.
LEMMA PushedQueue ==
    ASSUME NEW queue \in Seq(Frame), NEW data \in Frame
    PROVE  /\ Pushed(queue, data) \in Seq(Frame)
           /\ Len(Pushed(queue, data)) =
                  IF Len(queue) >= MAX_QUEUE_SIZE THEN Len(queue) ELSE Len(queue) + 1
           /\ Pushed(queue, data) # <<>>
           /\ \A i \in 1 .. Len(Pushed(queue, data)) :
                  Pushed(queue, data)[i] =
                      IF i = Len(Pushed(queue, data)) THEN data
                      ELSE IF Len(queue) >= MAX_QUEUE_SIZE THEN queue[i + 1]
                      ELSE queue[i]
<1>1. CASE Len(queue) >= MAX_QUEUE_SIZE
  <2> DEFINE rest == Tail(queue)
  <2>1. queue # <<>>
    BY <1>1, StreamerAssumption
  <2>2. /\ rest \in Seq(Frame)
        /\ Len(rest) = Len(queue) - 1
        /\ \A i \in 1 .. Len(rest) : rest[i] = queue[i + 1]
    BY <2>1
  <2>3. Pushed(queue, data) = Append(rest, data)
    BY <1>1 DEF Pushed
  <2> HIDE DEF rest
  <2>4. /\ Append(rest, data) \in Seq(Frame)
        /\ Len(Append(rest, data)) = Len(rest) + 1
        /\ Append(rest, data) # <<>>
        /\ \A i \in 1 .. Len(rest) + 1 :
               Append(rest, data)[i] = IF i = Len(rest) + 1 THEN data ELSE rest[i]
    BY <2>2, AppendProperties
  <2> QED
    BY <1>1, <2>2, <2>3, <2>4
<1>2. CASE ~(Len(queue) >= MAX_QUEUE_SIZE)
  BY <1>2, StreamerAssumption DEF Pushed
<1> QED
  BY <1>1, <1>2

\* What is left after pop(): the queue without its oldest frame.
LEMMA PoppedQueue ==
    ASSUME NEW queue \in Seq(Frame), queue # <<>>
    PROVE  /\ Head(queue) \in Frame
           /\ Head(queue) = queue[1]
           /\ Len(queue) > 0
           /\ Tail(queue) \in Seq(Frame)
           /\ Len(Tail(queue)) = Len(queue) - 1
           /\ \A i \in 1 .. Len(Tail(queue)) : Tail(queue)[i] = queue[i + 1]
  OBVIOUS

\* The packets of MPP without the oldest, and with one more.
LEMMA PoppedPackets ==
    ASSUME NEW queue \in Seq(Jpeg), queue # <<>>
    PROVE  /\ Head(queue) \in Jpeg
           /\ Head(queue) = queue[1]
           /\ Len(queue) > 0
           /\ Tail(queue) \in Seq(Jpeg)
           /\ Len(Tail(queue)) = Len(queue) - 1
           /\ \A i \in 1 .. Len(Tail(queue)) : Tail(queue)[i] = queue[i + 1]
  OBVIOUS

LEMMA MorePackets ==
    ASSUME NEW queue \in Seq(Jpeg), NEW jpeg \in Jpeg
    PROVE  /\ Append(queue, jpeg) \in Seq(Jpeg)
           /\ Len(Append(queue, jpeg)) = Len(queue) + 1
           /\ Append(queue, jpeg) # <<>>
           /\ \A i \in 1 .. Len(queue) + 1 :
                  Append(queue, jpeg)[i] = IF i = Len(queue) + 1 THEN jpeg ELSE queue[i]
  BY AppendProperties

\* Whatever validate_and_correct_color_format returns, the frame queued for
\* it holds pixels of its own, those of the DRM buffer.
LEMMA ClonedFrame ==
    ASSUME displayBuf \in Nat, NEW mat \in ValidateAndCorrectColorFormat
    PROVE  /\ FrameData(mat, displayBuf) \in Frame
           /\ FrameData(mat, displayBuf) =
                  [frame |-> [shared |-> FALSE, pixels |-> displayBuf],
                   results |-> displayBuf]
<1>1. Pixels(mat) = displayBuf
  BY DEF ValidateAndCorrectColorFormat, Pixels
<1>2. FrameData(mat, displayBuf) =
          [frame |-> [shared |-> FALSE, pixels |-> displayBuf], results |-> displayBuf]
  BY <1>1 DEF FrameData
<1> QED
  BY <1>2 DEF Frame, Mat

-----------------------------------------------------------------------------
(* Type correctness.                                                       *)

LEMMA TypeInit == Init => TypeOK
<1> SUFFICES ASSUME Init PROVE TypeOK
  OBVIOUS
<1>1. frameData = [frame |-> [shared |-> FALSE, pixels |-> 0], results |-> 0]
  BY DEF Init, FrameData, Pixels
<1>2. frameData \in Frame
  BY <1>1 DEF Frame, Mat
<1>3. jpegData \in Jpeg /\ currentJpeg \in Jpeg /\ frmBuf \in Jpeg
  BY DEF Init, NoJpeg, Jpeg
<1>4. frameQueue \in Seq(Frame) /\ packets \in Seq(Jpeg)
  BY EmptySeq DEF Init
<1> QED
  BY <1>2, <1>3, <1>4 DEF Init, TypeOK, OwnerPcs, EncoderPcs

LEMMA TypeNext == TypeOK /\ [Next]_vars => TypeOK'
<1> SUFFICES ASSUME TypeOK, [Next]_vars PROVE TypeOK'
  OBVIOUS
<1> USE DEF TypeOK, ownerKeeps, encoderKeeps, beforeEncoding, whileEncoding, mpp
<1>1. CASE Start
  BY <1>1 DEF Start, OwnerPcs, EncoderPcs
<1>2. CASE StartServer
  BY <1>2 DEF StartServer, OwnerPcs
<1>3. CASE ProcessFrame
  BY <1>3 DEF ProcessFrame, OwnerPcs
<1>4. CASE PushFrame
  <2>1. PICK mat \in ValidateAndCorrectColorFormat :
              frameQueue' = Pushed(frameQueue, FrameData(mat, displayBuf))
    BY <1>4 DEF PushFrame
  <2>2. frameQueue' \in Seq(Frame)
    BY <2>1, ClonedFrame, PushedQueue
  <2> QED
    BY <1>4, <2>2 DEF PushFrame, OwnerPcs
<1>5. CASE NotifyOne
  BY <1>5 DEF NotifyOne, WakeEncoder, OwnerPcs, EncoderPcs
<1>6. CASE Stop
  BY <1>6 DEF Stop, OwnerPcs
<1>7. CASE StopServer
  BY <1>7 DEF StopServer, OwnerPcs
<1>8. CASE NotifyAll
  BY <1>8 DEF NotifyAll, WakeEncoder, OwnerPcs, EncoderPcs
<1>9. CASE JoinEncoder
  BY <1>9 DEF JoinEncoder, OwnerPcs
<1>10. CASE ClearQueue
  BY <1>10 DEF ClearQueue, OwnerPcs
<1>11. CASE ClearJpeg
  BY <1>11 DEF ClearJpeg, OwnerPcs, NoJpeg, Jpeg
<1>12. CASE SetStopped
  BY <1>12 DEF SetStopped, OwnerPcs
<1>13. CASE EncLoop
  BY <1>13 DEF EncLoop, EncoderPcs
<1>14. CASE EncLock
  BY <1>14 DEF EncLock, EncoderPcs
<1>15. CASE EncPredicate
  BY <1>15 DEF EncPredicate, EncoderPcs
<1>16. CASE EncBlock
  BY <1>16 DEF EncBlock, EncoderPcs
<1>17. CASE EncSpuriousWakeup
  BY <1>17 DEF EncSpuriousWakeup, EncoderPcs
<1>18. CASE EncBreak
  BY <1>18 DEF EncBreak, EncoderPcs
<1>19. CASE EncTake
  <2>1. frameQueue' \in Seq(Frame) /\ frameData' \in Frame
    BY <1>19, PoppedQueue DEF EncTake
  <2> QED
    BY <1>19, <2>1 DEF EncTake, EncoderPcs
<1>20. CASE EncPut \/ EncPutFails
  <2>1. DrawDetectionResults(frameData) \in Jpeg
    BY DEF DrawDetectionResults, Pixels, Jpeg, Frame, Mat
  <2> QED
    BY <1>20, <2>1 DEF EncPut, EncPutFails, EncoderPcs
<1>21. CASE EncGetNothing \/ EncGetFails
  <2>1. CASE EncGetNothing
    BY <2>1 DEF EncGetNothing, EncoderPcs, NoJpeg, Jpeg
  <2>2. CASE EncGetFails
    BY <2>2 DEF EncGetFails, EncoderPcs
  <2> QED
    BY <1>21, <2>1, <2>2
<1>22. CASE EncGet
  <2>1. jpegData' \in Jpeg /\ packets' \in Seq(Jpeg)
    BY <1>22, PoppedPackets DEF EncGet
  <2> QED
    BY <1>22, <2>1 DEF EncGet, EncoderPcs
<1>23. CASE MppEncode
  <2>1. packets' \in Seq(Jpeg) /\ accepted' \in Nat
    BY <1>23, MorePackets DEF MppEncode
  <2> QED
    BY <1>23, <2>1 DEF MppEncode
<1>24. CASE EncPublish
  BY <1>24 DEF EncPublish, EncoderPcs, Jpeg
<1>25. CASE UNCHANGED vars
  BY <1>25 DEF vars
<1> QED
  BY <1>1, <1>2, <1>3, <1>4, <1>5, <1>6, <1>7, <1>8, <1>9, <1>10, <1>11, <1>12, <1>13, <1>14, <1>15, <1>16, <1>17, <1>18, <1>19, <1>20, <1>21, <1>22, <1>23, <1>24, <1>25 DEF Next, OwnerCall, EncoderStep, Finished

\* Every variable keeps its type in every behaviour.
THEOREM TypeCorrect == Spec => []TypeOK
  BY TypeInit, TypeNext, PTL DEF Spec

-----------------------------------------------------------------------------
(* The inductive invariant.                                                *)

\* The queue after push_frame: one clone of the DRM buffer at the end, and the
\* oldest frame gone exactly when the queue was full.
LEMMA PushFrameQueue ==
    ASSUME TypeOK, PushFrame
    PROVE  /\ Len(frameQueue') =
                  IF Len(frameQueue) >= MAX_QUEUE_SIZE THEN Len(frameQueue) ELSE Len(frameQueue) + 1
           /\ frameQueue' # <<>>
           /\ \A i \in 1 .. Len(frameQueue') :
                  frameQueue'[i] =
                      IF i = Len(frameQueue')
                      THEN [frame |-> [shared |-> FALSE, pixels |-> displayBuf],
                            results |-> displayBuf]
                      ELSE IF Len(frameQueue) >= MAX_QUEUE_SIZE THEN frameQueue[i + 1]
                      ELSE frameQueue[i]
<1> DEFINE data == [frame |-> [shared |-> FALSE, pixels |-> displayBuf],
                    results |-> displayBuf]
<1>1. displayBuf \in Nat /\ frameQueue \in Seq(Frame)
  BY DEF TypeOK
<1>2. PICK mat \in ValidateAndCorrectColorFormat :
          frameQueue' = Pushed(frameQueue, FrameData(mat, displayBuf))
  BY DEF PushFrame
<1>3. data \in Frame /\ FrameData(mat, displayBuf) = data
  BY <1>1, ClonedFrame
<1> HIDE DEF data
<1>4. frameQueue' = Pushed(frameQueue, data)
  BY <1>2, <1>3
<1> DEFINE after == Pushed(frameQueue, data)
<1>5. /\ Len(after) =
             IF Len(frameQueue) >= MAX_QUEUE_SIZE THEN Len(frameQueue) ELSE Len(frameQueue) + 1
      /\ after # <<>>
      /\ \A i \in 1 .. Len(after) :
             after[i] = IF i = Len(after) THEN data
                        ELSE IF Len(frameQueue) >= MAX_QUEUE_SIZE THEN frameQueue[i + 1]
                        ELSE frameQueue[i]
  BY <1>1, <1>3, PushedQueue
<1>6. frameQueue' = after
  BY <1>4
<1> HIDE DEF after
<1> QED
  BY <1>5, <1>6 DEF data

LEMMA InvInit == Init => IInv
<1> SUFFICES ASSUME Init PROVE IInv
  OBVIOUS
<1>1. TypeOK
  BY TypeInit
<1>2. frameData = [frame |-> [shared |-> FALSE, pixels |-> 0], results |-> 0]
  BY DEF Init, FrameData, Pixels
<1>3. Len(frameQueue) = 0 /\ PushedCount = 0
  BY DEF Init, PushedCount
<1>4. QueueHoldsNewest /\ FramesAccountedFor
  BY <1>3, StreamerAssumption DEF Init, QueueHoldsNewest, FramesAccountedFor
<1>5. TakenInOrder /\ FramesOwnPixels
  <2>1. FramesOwnPixels
    BY <1>2, <1>3 DEF FramesOwnPixels
  <2>2. TakenInOrder
    BY <1>2, <1>3 DEF Init, TakenInOrder
  <2> QED
    BY <2>1, <2>2
<1>6. BoxesMatchPixels /\ PicturesInOrder /\ StopProgress
  BY <1>2 DEF Init, NoJpeg, BoxesMatchPixels, StopProgress, PicturesInOrder, PacketsInOrder,
              BufferIsNewest, GetFindsThisFrame, PublishInOrder
<1>7. LockHolder /\ BlocksOnEmpty /\ NoSleepOnFrames /\ AwakeFindsFrame
  BY DEF Init, LockHolder, BlocksOnEmpty, NoSleepOnFrames, AwakeFindsFrame
<1> QED
  BY <1>1, <1>4, <1>5, <1>6, <1>7 DEF IInv

\* Only the steps of encode_frame, of MPP and of the encoder's thread around them
\* change what the order of the pictures is about.
LEMMA PicturesNext == IInv /\ [Next]_vars => PicturesInOrder'
<1> SUFFICES ASSUME IInv, [Next]_vars PROVE PicturesInOrder'
  OBVIOUS
<1>0. TypeOK /\ TypeOK' /\ PicturesInOrder
  BY TypeNext DEF IInv
<1>1. /\ frameData.results \in Nat /\ frameData'.results \in Nat
      /\ frmBuf \in Jpeg /\ frmBuf.pixels \in Nat /\ jpegData \in Jpeg
      /\ accepted \in Nat /\ newestShown \in Nat /\ packets \in Seq(Jpeg)
      /\ Len(packets) \in Nat /\ \A i \in 1 .. Len(packets) : packets[i].pixels \in Nat
  <2>1. frameData.results \in Nat /\ frameData'.results \in Nat
    BY <1>0 DEF TypeOK, Frame
  <2>2. packets \in Seq(Jpeg) /\ Len(packets) \in Nat
    BY <1>0 DEF TypeOK
  <2>3. \A i \in 1 .. Len(packets) : packets[i] \in Jpeg
    BY <2>2
  <2> QED
    BY <1>0, <2>1, <2>2, <2>3 DEF TypeOK, Jpeg
<1> USE DEF mpp, PicturesInOrder
<1>2. ASSUME UNCHANGED <<mpp, newestShown, frameData, jpegData>>,
             encoderPc' \in {"get", "publish"} => encoderPc' = encoderPc
      PROVE  PicturesInOrder'
  BY <1>0, <1>2 DEF PacketsInOrder, BufferIsNewest, GetFindsThisFrame, PublishInOrder, Behind
<1>3. CASE OwnerCall \/ ProcessFrame \/ Stop
  BY <1>2, <1>3 DEF OwnerCall, ownerKeeps, Start, StartServer, ProcessFrame, PushFrame,
         NotifyOne, WakeEncoder, Stop, StopServer, NotifyAll, JoinEncoder, ClearQueue,
         ClearJpeg, SetStopped
<1>4. CASE \/ EncLoop \/ EncLock \/ EncPredicate \/ EncBlock \/ EncSpuriousWakeup
           \/ EncBreak \/ EncGetFails
  BY <1>2, <1>4 DEF beforeEncoding, whileEncoding, EncLoop, EncLock, EncPredicate, EncBlock,
         EncSpuriousWakeup, EncBreak, EncGetFails
<1>5. CASE EncTake
  <2>1. frameData.results <= frameData'.results
    <3>1. frameData' = frameQueue[1] /\ Len(frameQueue) > 0 /\ Len(frameQueue) \in Nat
      BY <1>0, <1>5, PoppedQueue DEF EncTake, TypeOK
    <3>2. PushedCount \in Int
      BY <1>0 DEF TypeOK, PushedCount
    <3>3. frameData'.results = PushedCount - Len(frameQueue) + 1
      BY <3>1, <3>2 DEF IInv, QueueHoldsNewest
    <3>4. frameData.results + Len(frameQueue) <= PushedCount
      BY DEF IInv, TakenInOrder
    <3> QED
      BY <1>1, <3>1, <3>2, <3>3, <3>4
  <2>2. UNCHANGED <<mpp, newestShown, jpegData>> /\ encoderPc' = "encode"
    BY <1>5 DEF EncTake, beforeEncoding
  <2> QED
    BY <1>0, <1>1, <2>1, <2>2 DEF PacketsInOrder, BufferIsNewest, GetFindsThisFrame, PublishInOrder
<1>6. CASE EncPut \/ EncPutFails
  <2>1. /\ encoderPc = "encode" /\ encoderPc' \in {"get", "loop"}
        /\ UNCHANGED <<newestShown, frameData, packets>>
        /\ accepted' \in {accepted, accepted + 1}
        /\ frmBuf' \in {frmBuf, DrawDetectionResults(frameData)}
        /\ encoderPc' = "get" =>
               accepted' = accepted + 1 /\ frmBuf' = DrawDetectionResults(frameData)
        /\ encoderPc' = "loop" => accepted' = accepted
    BY <1>6 DEF EncPut, EncPutFails, whileEncoding
  <2>2. DrawDetectionResults(frameData).pixels = frameData.results
        /\ DrawDetectionResults(frameData).boxes = frameData.results
    BY DEF IInv, FramesOwnPixels, DrawDetectionResults, Pixels
  <2>3. /\ 0 < frameData.results
        /\ frmBuf'.boxes = frmBuf'.pixels
        /\ frmBuf'.pixels \in {frmBuf.pixels, frameData.results}
        /\ encoderPc' = "get" => frmBuf'.pixels = frameData.results
    BY <1>0, <2>1, <2>2 DEF IInv, TakenInOrder, BufferIsNewest
  <2>4. BufferIsNewest' /\ PacketsInOrder'
    BY <1>0, <1>1, <2>1, <2>3 DEF PacketsInOrder, BufferIsNewest
  <2>5. GetFindsThisFrame'
    <3> SUFFICES ASSUME encoderPc' = "get" PROVE GetFindsThisFrame'
      BY DEF GetFindsThisFrame
    <3>1. Behind' = accepted + Len(packets) /\ accepted' = accepted + 1
      BY <1>1, <2>1 DEF Behind
    <3>2. Behind' = 0 => packets = <<>>
      BY <1>1, <3>1
    <3> QED
      BY <1>1, <2>1, <2>3, <3>1, <3>2 DEF GetFindsThisFrame
  <2> QED
    BY <2>1, <2>4, <2>5 DEF PublishInOrder
<1>7. CASE MppEncode
  <2>1. /\ UNCHANGED <<newestShown, frameData, jpegData, frmBuf, encoderPc>>
        /\ accepted > 0 /\ accepted' = accepted - 1
        /\ packets' = Append(packets, frmBuf)
    BY <1>7 DEF MppEncode, whileEncoding
  <2> DEFINE n == Len(packets)
  <2>2. /\ Len(packets') = n + 1
        /\ \A i \in 1 .. n + 1 : packets'[i] = IF i = n + 1 THEN frmBuf ELSE packets[i]
    BY <1>1, <2>1, MorePackets
  <2>3. Behind' = Behind
    BY <1>1, <2>1, <2>2 DEF Behind
  <2>4. BufferIsNewest' /\ 0 < frmBuf.pixels
    BY <1>0, <1>1, <2>1 DEF BufferIsNewest
  <2>5. PacketsInOrder'
    <3>1. ASSUME NEW i \in 1 .. Len(packets')
          PROVE  /\ packets'[i].boxes = packets'[i].pixels
                 /\ 0 < packets'[i].pixels
                 /\ newestShown' <= packets'[i].pixels
                 /\ packets'[i].pixels <= frmBuf'.pixels
      BY <1>0, <1>1, <2>1, <2>2, <2>4 DEF PacketsInOrder, BufferIsNewest
    <3>2. ASSUME NEW i \in 1 .. Len(packets'), NEW j \in 1 .. Len(packets'), i < j
          PROVE  packets'[i].pixels <= packets'[j].pixels
      <4>1. i \in 1 .. n /\ packets'[i] = packets[i]
        BY <1>1, <2>2, <3>2
      <4>2. CASE j = n + 1
        BY <1>0, <1>1, <2>2, <4>1, <4>2 DEF PacketsInOrder
      <4>3. CASE j # n + 1
        BY <1>0, <1>1, <2>2, <3>2, <4>1, <4>3 DEF PacketsInOrder
      <4> QED
        BY <4>2, <4>3
    <3> QED
      BY <3>1, <3>2 DEF PacketsInOrder
  <2>6. GetFindsThisFrame'
    <3> SUFFICES ASSUME encoderPc = "get" PROVE GetFindsThisFrame'
      BY <2>1 DEF GetFindsThisFrame
    <3>1. /\ frmBuf.pixels = frameData.results
          /\ Behind = 0 /\ packets # <<>> => packets[1].pixels = frameData.results
      BY <1>0 DEF GetFindsThisFrame
    <3>2. 1 \in 1 .. n + 1 /\ (packets = <<>> <=> n = 0)
      BY <1>1
    <3>3. packets'[1].pixels = IF packets = <<>> THEN frmBuf.pixels ELSE packets[1].pixels
      BY <1>1, <2>2, <3>2
    <3> QED
      BY <1>0, <1>1, <2>1, <2>2, <2>3, <3>1, <3>3 DEF GetFindsThisFrame
  <2>7. PublishInOrder'
    BY <1>0, <1>1, <2>1, <2>2, <2>3 DEF PublishInOrder
  <2> QED
    BY <2>4, <2>5, <2>6, <2>7
<1>8. CASE EncGet
  <2>1. /\ UNCHANGED <<newestShown, frameData, frmBuf, accepted>>
        /\ encoderPc = "get" /\ encoderPc' = "publish" /\ packets # <<>>
        /\ jpegData' = Head(packets) /\ packets' = Tail(packets)
    BY <1>8 DEF EncGet, whileEncoding
  <2> DEFINE n == Len(packets)
  <2>2. /\ jpegData' = packets[1] /\ n > 0 /\ Len(packets') = n - 1
        /\ \A i \in 1 .. n - 1 : packets'[i] = packets[i + 1]
    BY <1>1, <2>1, PoppedPackets
  <2>3. Behind' = Behind
    BY <1>1, <2>1, <2>2 DEF Behind
  <2>4. BufferIsNewest'
    BY <1>0, <2>1 DEF BufferIsNewest
  <2>5. PacketsInOrder'
    BY <1>0, <1>1, <2>1, <2>2 DEF PacketsInOrder
  <2>6. PublishInOrder'
    <3>1. 1 \in 1 .. n
      BY <1>1, <2>2
    <3>2. /\ 0 < jpegData'.pixels /\ newestShown <= jpegData'.pixels
          /\ jpegData'.pixels <= frmBuf.pixels
      BY <1>0, <2>2, <3>1 DEF PacketsInOrder
    <3>3. \A i \in 1 .. Len(packets') : jpegData'.pixels <= packets'[i].pixels
      BY <1>0, <1>1, <2>2, <3>1 DEF PacketsInOrder
    <3>4. Behind = 0 => jpegData'.pixels = frameData.results
      BY <1>0, <2>1, <2>2 DEF GetFindsThisFrame
    <3> QED
      BY <2>1, <2>3, <3>2, <3>3, <3>4 DEF PublishInOrder
  <2> QED
    BY <2>1, <2>4, <2>5, <2>6 DEF GetFindsThisFrame
<1>9. CASE EncGetNothing
  <2>1. /\ UNCHANGED <<newestShown, frameData, frmBuf, accepted, packets>>
        /\ encoderPc = "get" /\ encoderPc' = "publish" /\ jpegData' = NoJpeg
    BY <1>9 DEF EncGetNothing, whileEncoding
  <2>2. Behind' > 0
    BY <1>0, <1>1, <2>1 DEF Behind, GetFindsThisFrame
  <2> QED
    BY <1>0, <2>1, <2>2 DEF PacketsInOrder, BufferIsNewest, GetFindsThisFrame, PublishInOrder
<1>10. CASE EncPublish
  <2>1. /\ UNCHANGED <<frameData, jpegData, frmBuf, accepted, packets>>
        /\ encoderPc = "publish" /\ encoderPc' = "loop"
        /\ newestShown' = IF jpegData = NoJpeg THEN newestShown ELSE jpegData.pixels
    BY <1>10 DEF EncPublish, encoderKeeps
  <2>2. /\ newestShown' <= frmBuf.pixels
        /\ \A i \in 1 .. Len(packets) : newestShown' <= packets[i].pixels
    <3>1. CASE jpegData = NoJpeg
      BY <1>0, <2>1, <3>1 DEF PacketsInOrder, BufferIsNewest
    <3>2. CASE jpegData # NoJpeg
      BY <1>0, <2>1, <3>2 DEF PublishInOrder
    <3> QED
      BY <3>1, <3>2
  <2> QED
    BY <1>0, <2>1, <2>2 DEF PacketsInOrder, BufferIsNewest, GetFindsThisFrame, PublishInOrder
<1>11. CASE UNCHANGED vars
  BY <1>2, <1>11 DEF vars
<1> QED
  BY <1>3, <1>4, <1>5, <1>6, <1>7, <1>8, <1>9, <1>10, <1>11 DEF Next, EncoderStep, Finished

LEMMA InvNext == IInv /\ [Next]_vars => IInv'
<1> SUFFICES ASSUME IInv, [Next]_vars PROVE IInv'
  OBVIOUS
<1>0. TypeOK /\ TypeOK' /\ PicturesInOrder'
  BY TypeNext, PicturesNext DEF IInv
<1> USE DEF TypeOK, IInv, LockHolder, QueueHoldsNewest, BlocksOnEmpty,
            NoSleepOnFrames, AwakeFindsFrame, TakenInOrder, FramesOwnPixels,
            BoxesMatchPixels, FramesAccountedFor, StopProgress,
            PushedCount, ownerKeeps, encoderKeeps, beforeEncoding, whileEncoding
<1>1. CASE Start
  BY <1>0, <1>1, StreamerAssumption DEF Start
<1>2. CASE StartServer
  BY <1>0, <1>2, StreamerAssumption DEF StartServer
<1>3. CASE ProcessFrame
  BY <1>0, <1>3, StreamerAssumption DEF ProcessFrame
<1>4. CASE PushFrame
  <2> DEFINE data == [frame |-> [shared |-> FALSE, pixels |-> displayBuf],
                      results |-> displayBuf]
  <2>1. /\ Len(frameQueue') =
               IF Len(frameQueue) >= MAX_QUEUE_SIZE THEN Len(frameQueue) ELSE Len(frameQueue) + 1
        /\ frameQueue' # <<>>
        /\ \A i \in 1 .. Len(frameQueue') :
               frameQueue'[i] =
                   IF i = Len(frameQueue') THEN data
                   ELSE IF Len(frameQueue) >= MAX_QUEUE_SIZE THEN frameQueue[i + 1]
                   ELSE frameQueue[i]
    BY <1>0, <1>4, PushFrameQueue
  <2>2. PushedCount = displayBuf - 1 /\ PushedCount' = displayBuf
    BY <1>4 DEF PushFrame
  <2>3. Len(frameQueue) \in Nat /\ Len(frameQueue') \in Nat
    BY <1>0
  <2>4. data.frame = [shared |-> FALSE, pixels |-> displayBuf] /\ data.results = displayBuf
    OBVIOUS
  <2>5. frameData' = frameData
    BY <1>4 DEF PushFrame
  <2> HIDE DEF PushedCount, data
  <2>6. QueueHoldsNewest'
    <3>1. Len(frameQueue') <= MAX_QUEUE_SIZE
      BY <2>1, <2>3, StreamerAssumption
    <3>2. ASSUME NEW i \in 1 .. Len(frameQueue')
          PROVE  frameQueue'[i].results = PushedCount' - Len(frameQueue') + i
      <4>1. CASE i = Len(frameQueue')
        BY <2>1, <2>2, <2>3, <2>4, <4>1
      <4>2. CASE i # Len(frameQueue') /\ Len(frameQueue) >= MAX_QUEUE_SIZE
        <5>1. i + 1 \in 1 .. Len(frameQueue) /\ frameQueue'[i] = frameQueue[i + 1]
          BY <2>1, <2>3, <4>2
        <5>2. frameQueue[i + 1].results = PushedCount - Len(frameQueue) + (i + 1)
          BY <5>1
        <5> QED
          BY <2>1, <2>2, <2>3, <4>2, <5>1, <5>2
      <4>3. CASE i # Len(frameQueue') /\ ~(Len(frameQueue) >= MAX_QUEUE_SIZE)
        <5>1. i \in 1 .. Len(frameQueue) /\ frameQueue'[i] = frameQueue[i]
          BY <2>1, <2>3, <4>3
        <5>2. frameQueue[i].results = PushedCount - Len(frameQueue) + i
          BY <5>1
        <5> QED
          BY <2>1, <2>2, <2>3, <4>3, <5>1, <5>2
      <4> QED
        BY <4>1, <4>2, <4>3
    <3> QED
      BY <3>1, <3>2
  <2>7. FramesOwnPixels'
    <3>1. ASSUME NEW i \in 1 .. Len(frameQueue')
          PROVE  frameQueue'[i].frame =
                     [shared |-> FALSE, pixels |-> frameQueue'[i].results]
      <4>1. CASE i = Len(frameQueue')
        BY <2>1, <2>4, <4>1
      <4>2. CASE i # Len(frameQueue') /\ Len(frameQueue) >= MAX_QUEUE_SIZE
        <5>1. i + 1 \in 1 .. Len(frameQueue) /\ frameQueue'[i] = frameQueue[i + 1]
          BY <2>1, <2>3, <4>2
        <5> QED
          BY <5>1
      <4>3. CASE i # Len(frameQueue') /\ ~(Len(frameQueue) >= MAX_QUEUE_SIZE)
        <5>1. i \in 1 .. Len(frameQueue) /\ frameQueue'[i] = frameQueue[i]
          BY <2>1, <2>3, <4>3
        <5> QED
          BY <5>1
      <4> QED
        BY <4>1, <4>2, <4>3
    <3>2. frameData'.frame = [shared |-> FALSE, pixels |-> frameData'.results]
      BY <2>5
    <3> QED
      BY <3>1, <3>2
  <2>8. frameData.results \in Nat /\ framesEncoded \in Nat /\ framesDropped \in Nat
    BY <1>0 DEF Frame
  <2>9. TakenInOrder'
    BY <1>4, <2>1, <2>2, <2>3, <2>5, <2>8 DEF PushFrame
  <2>10. FramesAccountedFor'
    <3>1. framesDropped' + Len(frameQueue') = framesDropped + Len(frameQueue) + 1
      BY <1>4, <2>1, <2>3, <2>8 DEF PushFrame
    <3>2. framesEncoded' = framesEncoded /\ encoderPc' = encoderPc
      BY <1>4 DEF PushFrame
    <3>3. framesDropped' \in Nat
      BY <1>0
    <3> QED
      BY <2>2, <2>3, <2>8, <3>1, <3>2, <3>3
  <2>11. LockHolder' /\ BlocksOnEmpty' /\ NoSleepOnFrames' /\ AwakeFindsFrame'
    BY <1>4, <2>1 DEF PushFrame
  <2>12. BoxesMatchPixels' /\ StopProgress'
    BY <1>4 DEF PushFrame
  <2> QED
    BY <1>0, <2>6, <2>7, <2>11, <2>12, <2>9, <2>10
<1>5. CASE NotifyOne
  BY <1>0, <1>5, StreamerAssumption DEF NotifyOne, WakeEncoder
<1>6. CASE Stop
  BY <1>0, <1>6, StreamerAssumption DEF Stop
<1>7. CASE StopServer
  BY <1>0, <1>7, StreamerAssumption DEF StopServer
<1>8. CASE NotifyAll
  BY <1>0, <1>8, StreamerAssumption DEF NotifyAll, WakeEncoder
<1>9. CASE JoinEncoder
  BY <1>0, <1>9, StreamerAssumption DEF JoinEncoder
<1>10. CASE ClearQueue
  <2>1. Len(frameQueue') = 0 /\ Len(frameQueue) \in Nat
    BY <1>0, <1>10 DEF ClearQueue
  <2>2. PushedCount' = PushedCount
    BY <1>10 DEF ClearQueue
  <2>3. QueueHoldsNewest' /\ TakenInOrder' /\ FramesOwnPixels' /\ FramesAccountedFor'
    BY <1>0, <1>10, <2>1, <2>2, StreamerAssumption DEF ClearQueue, Frame
  <2> QED
    BY <1>0, <1>10, <2>3 DEF ClearQueue
<1>11. CASE ClearJpeg
  BY <1>0, <1>11 DEF ClearJpeg, NoJpeg
<1>12. CASE SetStopped
  BY <1>0, <1>12, StreamerAssumption DEF SetStopped
<1>13. CASE EncLoop
  BY <1>0, <1>13, StreamerAssumption DEF EncLoop
<1>14. CASE EncLock
  BY <1>0, <1>14, StreamerAssumption DEF EncLock
<1>15. CASE EncPredicate
  BY <1>0, <1>15, StreamerAssumption DEF EncPredicate
<1>16. CASE EncBlock
  BY <1>0, <1>16, StreamerAssumption DEF EncBlock
<1>17. CASE EncSpuriousWakeup
  BY <1>0, <1>17, StreamerAssumption DEF EncSpuriousWakeup
<1>18. CASE EncBreak
  BY <1>0, <1>18, StreamerAssumption DEF EncBreak
<1>19. CASE EncTake
  <2>1. /\ frameData' = frameQueue[1]
        /\ Len(frameQueue) > 0
        /\ Len(frameQueue') = Len(frameQueue) - 1
        /\ \A i \in 1 .. Len(frameQueue') : frameQueue'[i] = frameQueue[i + 1]
    BY <1>0, <1>19, PoppedQueue DEF EncTake
  <2>2. PushedCount' = PushedCount
    BY <1>19 DEF EncTake
  <2>3. Len(frameQueue) \in Nat /\ PushedCount \in Int
    BY <1>0
  <2>4. frameData'.results = PushedCount - Len(frameQueue) + 1
    BY <2>1, <2>3
  <2> HIDE DEF PushedCount
  <2>5. QueueHoldsNewest'
    <3>1. ASSUME NEW i \in 1 .. Len(frameQueue')
          PROVE  frameQueue'[i].results = PushedCount' - Len(frameQueue') + i
      <4>1. i + 1 \in 1 .. Len(frameQueue) /\ frameQueue'[i] = frameQueue[i + 1]
        BY <2>1, <2>3
      <4>2. frameQueue[i + 1].results = PushedCount - Len(frameQueue) + (i + 1)
        BY <4>1
      <4> QED
        BY <2>1, <2>2, <2>3, <4>1, <4>2
    <3> QED
      BY <2>1, <2>3, <3>1, StreamerAssumption
  <2>6. FramesOwnPixels'
    <3>1. ASSUME NEW i \in 1 .. Len(frameQueue')
          PROVE  frameQueue'[i].frame =
                     [shared |-> FALSE, pixels |-> frameQueue'[i].results]
      <4>1. i + 1 \in 1 .. Len(frameQueue) /\ frameQueue'[i] = frameQueue[i + 1]
        BY <2>1, <2>3
      <4> QED
        BY <4>1
    <3>2. 1 \in 1 .. Len(frameQueue)
      BY <2>1, <2>3
    <3>3. frameData'.frame = [shared |-> FALSE, pixels |-> frameData'.results]
      BY <2>1, <3>2
    <3> QED
      BY <3>1, <3>3
  <2>7. TakenInOrder'
    BY <1>0, <1>19, <2>1, <2>2, <2>3, <2>4 DEF EncTake, Frame
  <2>8. FramesAccountedFor'
    BY <1>0, <1>19, <2>1, <2>2, <2>3 DEF EncTake
  <2>9. /\ LockHolder' /\ BlocksOnEmpty' /\ NoSleepOnFrames' /\ AwakeFindsFrame'
         /\ BoxesMatchPixels' /\ StopProgress'
    BY <1>19 DEF EncTake
  <2> QED
    BY <1>0, <2>5, <2>6, <2>7, <2>8, <2>9
<1>20. CASE EncPut \/ EncPutFails
  <2>1. CASE EncPut
    BY <1>0, <2>1 DEF EncPut
  <2>2. CASE EncPutFails
    BY <1>0, <2>2 DEF EncPutFails
  <2> QED
    BY <1>20, <2>1, <2>2
<1>21. CASE EncGetNothing \/ EncGetFails
  <2>1. CASE EncGetNothing
    BY <1>0, <2>1 DEF EncGetNothing, NoJpeg
  <2>2. CASE EncGetFails
    BY <1>0, <2>2 DEF EncGetFails
  <2> QED
    BY <1>21, <2>1, <2>2
<1>22. CASE EncGet
  <2>1. jpegData'.pixels = jpegData'.boxes
    <3>1. 1 \in 1 .. Len(packets) /\ jpegData' = packets[1]
      BY <1>22, PoppedPackets DEF EncGet
    <3> QED
      BY <3>1 DEF PicturesInOrder, PacketsInOrder
  <2> QED
    BY <1>0, <1>22, <2>1 DEF EncGet
<1>23. CASE MppEncode
  BY <1>0, <1>23 DEF MppEncode
<1>24. CASE EncPublish
  BY <1>0, <1>24 DEF EncPublish
<1>25. CASE UNCHANGED vars
  BY <1>0, <1>25 DEF vars
<1> QED
  BY <1>1, <1>2, <1>3, <1>4, <1>5, <1>6, <1>7, <1>8, <1>9, <1>10, <1>11, <1>12, <1>13, <1>14, <1>15, <1>16, <1>17, <1>18, <1>19, <1>20, <1>21, <1>22, <1>23, <1>24, <1>25 DEF Next, OwnerCall, EncoderStep, Finished

LEMMA InvAlways == Spec => []IInv
  BY InvInit, InvNext, PTL DEF Spec

-----------------------------------------------------------------------------
(* What follows from it.                                                   *)

\* frame_queue_ is always exactly the newest frames pushed, at most
\* MAX_QUEUE_SIZE of them and in order, however push_frame and encoder_worker
\* interleave.
THEOREM QueueCorrect == Spec => []QueueHoldsNewest
<1>1. IInv => QueueHoldsNewest
  BY DEF IInv
<1> QED
  BY <1>1, InvAlways, PTL

\* push_frame never leaves the encoder asleep with a frame in the queue, and
\* front() is never called on an empty one, spurious wakeups or not.
THEOREM WakeupsCorrect == Spec => []WakeupsMatchFrames
<1>1. IInv => WakeupsMatchFrames
  BY DEF IInv, WakeupsMatchFrames
<1> QED
  BY <1>1, InvAlways, PTL

\* A viewer never sees boxes over another frame's pixels: the FrameData clone
\* isolates waiting frames from the decoder's reuse of the DRM buffer.
THEOREM BoxesCorrect == Spec => []BoxesMatchPixels
<1>1. IInv => BoxesMatchPixels
  BY DEF IInv
<1> QED
  BY <1>1, InvAlways, PTL

\* get_stats() never counts a frame as both dropped and encoded.
THEOREM StatisticsCorrect == Spec => []FramesAccountedFor
<1>1. IInv => FramesAccountedFor
  BY DEF IInv
<1> QED
  BY <1>1, InvAlways, PTL

\* After stop() no thread, lock, frame or JPEG of the streamer is left.
THEOREM StopCorrect == Spec => []StoppedIsQuiet
<1>1. IInv => StoppedIsQuiet
  <2> SUFFICES ASSUME IInv, ~running, ownerPc # "init" PROVE
        encoderPc = "done" /\ queueMutex = "free" /\ frameQueue = <<>> /\ currentJpeg = NoJpeg
    BY DEF StoppedIsQuiet
  <2>1. ownerPc = "stopped"
    BY DEF IInv, StopProgress
  <2> QED
    BY <2>1 DEF IInv, StopProgress, LockHolder
<1> QED
  BY <1>1, InvAlways, PTL

\* What goes into current_jpeg_: a picture with its own boxes, or nothing.
LEMMA Published ==
    ASSUME IInv, EncPublish
    PROVE  /\ currentJpeg' = jpegData /\ jpegData.boxes = jpegData.pixels
           /\ newestShown' = IF jpegData = NoJpeg THEN newestShown ELSE jpegData.pixels
           /\ jpegData = NoJpeg => Behind > 0
           /\ jpegData # NoJpeg => jpegData.pixels \in newestShown .. frameData.results
           /\ jpegData # NoJpeg => 0 < jpegData.pixels
           /\ jpegData # NoJpeg /\ Behind = 0 => jpegData.pixels = frameData.results
<1>1. /\ jpegData.pixels \in Nat /\ newestShown \in Nat /\ frameData.results \in Nat
      /\ frmBuf.pixels \in Nat
  BY DEF IInv, TypeOK, Jpeg, Frame
<1>2. /\ currentJpeg' = jpegData /\ jpegData.boxes = jpegData.pixels /\ encoderPc = "publish"
      /\ newestShown' = IF jpegData = NoJpeg THEN newestShown ELSE jpegData.pixels
  BY DEF EncPublish, IInv, BoxesMatchPixels
<1>3. frmBuf.pixels <= frameData.results
  BY DEF IInv, PicturesInOrder, BufferIsNewest
<1>4. \/ jpegData = NoJpeg /\ Behind > 0
      \/ /\ 0 < jpegData.pixels
         /\ newestShown <= jpegData.pixels
         /\ jpegData.pixels <= frmBuf.pixels
         /\ Behind = 0 => jpegData.pixels = frameData.results
  BY <1>2 DEF IInv, PicturesInOrder, PublishInOrder
<1> QED
  BY <1>1, <1>2, <1>3, <1>4 DEF NoJpeg

\* The JPEG viewers get never goes back, not even when the encoder's packets
\* come late: it is not older than any shown before, and that of the frame just
\* taken unless a get came back without a packet.
THEOREM OrderCorrect == Spec => NeverRewinds
<1>1. IInv /\ [Next]_vars =>
          [currentJpeg' # NoJpeg =>
               /\ currentJpeg'.pixels >= newestShown
               /\ Behind = 0 => currentJpeg'.pixels = frameData.results]_currentJpeg
  <2> SUFFICES ASSUME IInv, Next, currentJpeg' # currentJpeg, currentJpeg' # NoJpeg
               PROVE  /\ currentJpeg'.pixels >= newestShown
                      /\ Behind = 0 => currentJpeg'.pixels = frameData.results
    BY DEF vars
  <2>1. EncPublish
    BY DEF Next, OwnerCall, EncoderStep, Finished, vars, ownerKeeps, Start,
           StartServer, ProcessFrame, PushFrame, NotifyOne, Stop, StopServer,
           NotifyAll, JoinEncoder, ClearQueue, ClearJpeg, SetStopped, EncLoop,
           EncLock, EncPredicate, EncBlock, EncSpuriousWakeup, EncBreak,
           EncTake, beforeEncoding, whileEncoding, EncPut, EncPutFails, EncGet,
           EncGetNothing, EncGetFails, MppEncode
  <2> QED
    BY <2>1, Published DEF IInv, TypeOK
<1> QED
  BY <1>1, InvAlways, PTL DEF Spec, NeverRewinds

-----------------------------------------------------------------------------
(* Refinement: MJPEGStreamer implements LiveStream.                        *)

IsOpen == ownerPc \notin {"setStopped", "stopped"}

LEMMA StreamInit == Init => Stream!Init
<1> SUFFICES ASSUME Init PROVE Stream!Init
  OBVIOUS
<1>1. frameData.results = 0
  BY DEF Init, FrameData
<1>2. PushedCount = 0
  BY DEF Init, PushedCount
<1> QED
  BY <1>1, <1>2 DEF Init, Stream!Init, Stream!Nothing, NoJpeg, Behind

\* A push offers a frame, the encoder's pop takes one, publishing shows it and
\* clearing current_jpeg_ closes the stream; a get without a packet is a miss, and
\* every other step stutters.
LEMMA StreamNext == IInv /\ IInv' /\ [Next]_vars => [Stream!Next]_(Stream!vars)
<1> SUFFICES ASSUME IInv, IInv', [Next]_vars
             PROVE  Stream!Next \/ UNCHANGED Stream!vars
  BY DEF Stream!vars
<1>1. TypeOK /\ StopProgress
  BY DEF IInv
<1>2. ASSUME UNCHANGED <<frameData, currentJpeg, accepted, packets, newestShown>>,
             PushedCount' = PushedCount, IsOpen' = IsOpen,
             encoderPc = "get" <=> encoderPc' = "get"
      PROVE  UNCHANGED Stream!vars
  <2>1. Behind' = Behind
    BY <1>2 DEF Behind
  <2> QED
    BY <1>2, <2>1 DEF Stream!vars, IsOpen
<1> USE DEF mpp
<1>3. CASE Start
  BY <1>3, <1>1, <1>2 DEF Start, ownerKeeps, PushedCount, IsOpen, TypeOK, StopProgress
<1>4. CASE StartServer
  BY <1>4, <1>1, <1>2 DEF StartServer, ownerKeeps, PushedCount, IsOpen, TypeOK
<1>5. CASE ProcessFrame
  BY <1>5, <1>1, <1>2 DEF ProcessFrame, ownerKeeps, PushedCount, IsOpen, TypeOK
<1>6. CASE NotifyOne
  BY <1>6, <1>1, <1>2 DEF NotifyOne, WakeEncoder, ownerKeeps, PushedCount, IsOpen, TypeOK
<1>7. CASE Stop
  BY <1>7, <1>1, <1>2 DEF Stop, ownerKeeps, PushedCount, IsOpen, TypeOK
<1>8. CASE StopServer
  BY <1>8, <1>1, <1>2 DEF StopServer, ownerKeeps, PushedCount, IsOpen, TypeOK
<1>9. CASE NotifyAll
  BY <1>9, <1>1, <1>2 DEF NotifyAll, WakeEncoder, ownerKeeps, PushedCount, IsOpen, TypeOK
<1>10. CASE JoinEncoder
  BY <1>10, <1>1, <1>2 DEF JoinEncoder, ownerKeeps, PushedCount, IsOpen, TypeOK
<1>11. CASE SetStopped
  BY <1>11, <1>1, <1>2 DEF SetStopped, ownerKeeps, PushedCount, IsOpen, TypeOK
<1>12. CASE EncLoop
  BY <1>12, <1>2 DEF EncLoop, beforeEncoding, encoderKeeps, PushedCount, IsOpen
<1>13. CASE EncLock
  BY <1>13, <1>2 DEF EncLock, beforeEncoding, encoderKeeps, PushedCount, IsOpen
<1>14. CASE EncPredicate
  BY <1>14, <1>2 DEF EncPredicate, beforeEncoding, encoderKeeps, PushedCount, IsOpen
<1>15. CASE EncBlock
  BY <1>15, <1>2 DEF EncBlock, beforeEncoding, encoderKeeps, PushedCount, IsOpen
<1>16. CASE EncSpuriousWakeup
  BY <1>16, <1>2 DEF EncSpuriousWakeup, beforeEncoding, encoderKeeps, PushedCount, IsOpen
<1>17. CASE EncBreak
  BY <1>17, <1>2 DEF EncBreak, beforeEncoding, encoderKeeps, PushedCount, IsOpen
<1>18. CASE EncPut \/ EncPutFails \/ MppEncode \/ EncGet
  <2>1. /\ UNCHANGED <<frameData, currentJpeg, newestShown>>
        /\ PushedCount' = PushedCount /\ IsOpen' = IsOpen
    BY <1>18 DEF EncPut, EncPutFails, MppEncode, EncGet, whileEncoding, encoderKeeps,
                 PushedCount, IsOpen
  <2>2. accepted \in Nat /\ packets \in Seq(Jpeg) /\ frmBuf \in Jpeg
    BY <1>1 DEF TypeOK
  <2>3. Behind' = Behind
    <3>1. CASE EncPut \/ EncPutFails
      BY <2>2, <3>1 DEF EncPut, EncPutFails, Behind
    <3>2. CASE MppEncode
      BY <2>2, <3>2, MorePackets DEF MppEncode, whileEncoding, Behind
    <3>3. CASE EncGet
      BY <2>2, <3>3, PoppedPackets DEF EncGet, Behind
    <3> QED
      BY <1>18, <3>1, <3>2, <3>3
  <2> QED
    BY <2>1, <2>3 DEF Stream!vars, IsOpen
<1>19. CASE EncGetNothing \/ EncGetFails
  <2>1. /\ UNCHANGED <<frameData, currentJpeg, newestShown, accepted, packets>>
        /\ PushedCount' = PushedCount /\ encoderPc = "get" /\ encoderPc' # "get"
        /\ IsOpen' = IsOpen
    BY <1>19 DEF EncGetNothing, EncGetFails, whileEncoding, encoderKeeps, PushedCount, IsOpen
  <2>2. IsOpen
    BY <2>1, <1>1 DEF StopProgress, IsOpen
  <2>3. frameData.results > 0
    BY <2>1 DEF IInv, TakenInOrder
  <2>4. Behind' > 0
    <3>1. accepted \in Nat /\ Len(packets) \in Nat /\ accepted + Len(packets) >= 1
      BY <1>1, <2>1 DEF TypeOK, IInv, PicturesInOrder, GetFindsThisFrame
    <3> QED
      BY <2>1, <3>1 DEF Behind
  <2>5. Stream!Miss
    BY <2>1, <2>2, <2>3, <2>4 DEF Stream!Miss, IsOpen
  <2> QED
    BY <2>5 DEF Stream!Next
<1>20. CASE ClearQueue
  <2>1. PushedCount' = PushedCount /\ IsOpen' = IsOpen
    BY <1>20 DEF ClearQueue, ownerKeeps, PushedCount, IsOpen
  <2> QED
    BY <1>20, <1>2, <2>1 DEF ClearQueue, ownerKeeps
<1>21. CASE PushFrame
  <2>1. PushedCount' = PushedCount + 1 /\ IsOpen /\ IsOpen'
    BY <1>21, <1>1 DEF PushFrame, PushedCount, IsOpen, TypeOK
  <2>2. Behind' = Behind
    BY <1>21 DEF PushFrame, Behind
  <2>3. Stream!Offer
    BY <1>21, <2>1, <2>2 DEF PushFrame, Stream!Offer, IsOpen
  <2> QED
    BY <2>3 DEF Stream!Next
<1>22. CASE EncTake
  <2>1. /\ PushedCount' = PushedCount /\ IsOpen /\ IsOpen' /\ currentJpeg' = currentJpeg
        /\ newestShown' = newestShown /\ Behind' = Behind
    BY <1>22, <1>1 DEF EncTake, beforeEncoding, encoderKeeps, PushedCount, IsOpen, StopProgress,
                       Behind
  <2>2. frameData' = frameQueue[1] /\ Len(frameQueue) > 0
    BY <1>22, <1>1, PoppedQueue DEF EncTake, TypeOK
  <2>3. /\ Len(frameQueue) \in Nat
        /\ PushedCount \in Int
        /\ frameData.results \in Nat
    BY <1>1 DEF TypeOK, PushedCount, Frame
  <2>4. /\ frameData'.results = PushedCount - Len(frameQueue) + 1
        /\ Len(frameQueue) <= MAX_QUEUE_SIZE
    BY <2>2, <2>3 DEF IInv, QueueHoldsNewest
  <2>5. frameData.results + Len(frameQueue) <= PushedCount
    BY DEF IInv, TakenInOrder
  <2>6. Stream!Take
    BY <2>1, <2>2, <2>3, <2>4, <2>5, StreamerAssumption DEF Stream!Take, IsOpen
  <2> QED
    BY <2>6 DEF Stream!Next
<1>23. CASE EncPublish
  <2>1. /\ PushedCount' = PushedCount /\ IsOpen /\ IsOpen'
        /\ frameData' = frameData /\ Behind' = Behind
    BY <1>23, <1>1 DEF EncPublish, encoderKeeps, PushedCount, IsOpen, StopProgress, Behind
  <2>2. /\ currentJpeg' = jpegData /\ jpegData.boxes = jpegData.pixels
        /\ newestShown' = IF jpegData = NoJpeg THEN newestShown ELSE jpegData.pixels
        /\ jpegData = NoJpeg => Behind > 0
        /\ jpegData # NoJpeg => jpegData.pixels \in newestShown .. frameData.results
        /\ jpegData # NoJpeg => 0 < jpegData.pixels
        /\ jpegData # NoJpeg /\ Behind = 0 => jpegData.pixels = frameData.results
    BY <1>23, Published
  <2>3. CASE jpegData = NoJpeg
    <3>1. Stream!ShowNothing
      BY <2>1, <2>2, <2>3 DEF Stream!ShowNothing, Stream!Nothing, NoJpeg, IsOpen
    <3> QED
      BY <3>1 DEF Stream!Next
  <2>4. CASE jpegData # NoJpeg
    <3>1. jpegData \in Jpeg /\ Behind \in Nat
      BY <1>1, <1>23 DEF TypeOK, Behind, EncPublish
    <3>2. jpegData = [pixels |-> jpegData.pixels, boxes |-> jpegData.pixels]
      BY <2>2, <3>1 DEF Jpeg
    <3>3. ~(Behind > 0) => jpegData.pixels = frameData.results
      BY <2>2, <2>4, <3>1
    <3>4. Stream!Show
      BY <2>1, <2>2, <2>4, <3>2, <3>3 DEF Stream!Show, IsOpen
    <3> QED
      BY <3>4 DEF Stream!Next
  <2> QED
    BY <2>3, <2>4
<1>24. CASE ClearJpeg
  <2>1. /\ PushedCount' = PushedCount /\ IsOpen /\ ~IsOpen'
        /\ frameData' = frameData /\ currentJpeg' = NoJpeg
        /\ newestShown' = newestShown /\ Behind' = Behind
    BY <1>24 DEF ClearJpeg, ownerKeeps, PushedCount, IsOpen, Behind
  <2>2. Stream!Close
    BY <2>1 DEF Stream!Close, Stream!Nothing, NoJpeg, IsOpen
  <2> QED
    BY <2>2 DEF Stream!Next
<1>25. CASE UNCHANGED vars
  BY <1>25, <1>2 DEF vars, PushedCount, IsOpen
<1> QED
  BY <1>3, <1>4, <1>5, <1>6, <1>7, <1>8, <1>9, <1>10, <1>11, <1>12, <1>13, <1>14, <1>15, <1>16, <1>17, <1>18, <1>19, <1>20, <1>21, <1>22, <1>23, <1>24, <1>25 DEF Next, OwnerCall, EncoderStep, Finished

\* The threads, the lock and the queue of MJPEGStreamer implement the abstract
\* live stream: frames are taken once, in order, among the newest, and shown
\* with their own boxes until the stream closes for good.
THEOREM Implements == Spec => ImplementsLiveStream
  BY StreamInit, StreamNext, InvAlways, PTL DEF Spec, ImplementsLiveStream, Stream!Spec
-----------------------------------------------------------------------------
(* Winding down: what is left of each thread's way once should_stop_ is    *)
(* set.                                                                    *)

\* should_stop_ is set by stop() alone, and nobody clears it again.
StopInProgress ==
    shouldStop => ownerPc \in {"stopServer", "notifyAll", "join", "clearQueue",
                               "clearJpeg", "setStopped", "stopped"}

LEMMA StopInProgressAlways == Spec => []StopInProgress
<1>1. Init => StopInProgress
  BY DEF Init, StopInProgress
<1>2. TypeOK /\ StopInProgress /\ [Next]_vars => StopInProgress'
  BY DEF TypeOK, StopInProgress, Next, OwnerCall, EncoderStep, Finished, vars,
         ownerKeeps, encoderKeeps, Start, StartServer, ProcessFrame, PushFrame,
         NotifyOne, Stop, StopServer, NotifyAll, JoinEncoder, ClearQueue,
         ClearJpeg, SetStopped, EncLoop, EncLock, EncPredicate, EncBlock,
         EncSpuriousWakeup, EncBreak, EncTake, beforeEncoding, whileEncoding, EncPut,
         EncPutFails, EncGet, EncGetNothing, EncGetFails, EncPublish, MppEncode, mpp
<1> QED
  BY <1>1, <1>2, TypeCorrect, PTL DEF Spec

WindsDown ==
    /\ OwnerLeft' <= OwnerLeft
    /\ EncoderLeft' <= EncoderLeft
    /\ OwnerLeft' + EncoderLeft' + accepted' < OwnerLeft + EncoderLeft + accepted

\* The measures are numbers, and a sum falls with one of its terms.
LEMMA SumFalls ==
    ASSUME NEW o \in Nat, NEW p \in Nat, NEW d \in Nat, NEW e \in Nat, NEW a \in Nat,
           p <= o, e <= d, p < o \/ e < d
    PROVE  p + e + a < o + d + a
  OBVIOUS

LEMMA LeftType == OwnerLeft \in Nat /\ EncoderLeft \in Nat /\ OwnerLeft' \in Nat /\ EncoderLeft' \in Nat
  BY DEF OwnerLeft, EncoderLeft

\* A step of the owner brings it nearer to the end of stop(); what it wakes has
\* not more to do than before.
LEMMA OwnerWindsDown ==
    ASSUME TypeOK, StopInProgress, shouldStop, OwnerCall \/ ProcessFrame \/ Stop
    PROVE  WindsDown
<1>1. ~ProcessFrame /\ ~Stop /\ ~Start /\ ~StartServer /\ ~PushFrame /\ ~NotifyOne
  BY DEF StopInProgress, ProcessFrame, Stop, Start, StartServer, PushFrame, NotifyOne
<1>2. StopServer \/ NotifyAll \/ JoinEncoder \/ ClearQueue \/ ClearJpeg \/ SetStopped
  BY <1>1 DEF OwnerCall
<1>3. OwnerLeft' < OwnerLeft
  <2>1. \/ ownerPc = "stopServer" /\ ownerPc' = "notifyAll"
        \/ ownerPc = "notifyAll" /\ ownerPc' = "join"
        \/ ownerPc = "join" /\ ownerPc' = "clearQueue"
        \/ ownerPc = "clearQueue" /\ ownerPc' = "clearJpeg"
        \/ ownerPc = "clearJpeg" /\ ownerPc' = "setStopped"
        \/ ownerPc = "setStopped" /\ ownerPc' = "stopped"
    BY <1>2 DEF StopServer, NotifyAll, JoinEncoder, ClearQueue, ClearJpeg, SetStopped
  <2> QED
    BY <2>1 DEF OwnerLeft
<1>4. \/ encoderPc' = encoderPc
      \/ encoderPc = "waiting" /\ encoderPc' = "relock"
  BY <1>2 DEF StopServer, NotifyAll, WakeEncoder, JoinEncoder, ClearQueue, ClearJpeg,
              SetStopped
<1>5. EncoderLeft' <= EncoderLeft
  <2>1. CASE encoderPc' = encoderPc
    <3>1. EncoderLeft' = EncoderLeft
      BY <2>1 DEF EncoderLeft
    <3> QED
      BY <3>1, LeftType
  <2>2. CASE encoderPc = "waiting" /\ encoderPc' = "relock"
    BY <2>2 DEF EncoderLeft
  <2> QED
    BY <1>4, <2>1, <2>2
<1>6. accepted \in Nat /\ accepted' = accepted
  BY <1>2 DEF TypeOK, ownerKeeps, mpp, StopServer, NotifyAll, JoinEncoder, ClearQueue, ClearJpeg,
              SetStopped
<1>7. OwnerLeft' <= OwnerLeft
  BY <1>3, LeftType
<1>8. OwnerLeft' + EncoderLeft' + accepted < OwnerLeft + EncoderLeft + accepted
  BY <1>3, <1>5, <1>6, <1>7, LeftType, SumFalls
<1> QED
  BY <1>5, <1>6, <1>7, <1>8 DEF WindsDown

\* A step of the encoder brings it nearer to the end of encoder_worker: with
\* should_stop_ set its predicate holds and it breaks out of the loop, and the one
\* frame it may still put is taken account of.
LEMMA EncoderWindsDown ==
    ASSUME TypeOK, shouldStop, EncoderStep \/ EncSpuriousWakeup
    PROVE  WindsDown
<1>1. ownerPc' = ownerPc
  BY DEF EncoderStep, beforeEncoding, whileEncoding, encoderKeeps, EncLoop, EncLock,
         EncPredicate, EncBlock, EncSpuriousWakeup, EncBreak, EncTake, EncPut, EncPutFails,
         EncGet, EncGetNothing, EncGetFails, EncPublish
<1>2. OwnerLeft' = OwnerLeft
  BY <1>1 DEF OwnerLeft
<1>3. OwnerLeft' <= OwnerLeft /\ accepted \in Nat
  BY <1>2, LeftType DEF TypeOK
<1>4. CASE EncPut
  <2>1. EncoderLeft' = EncoderLeft - 2 /\ accepted' = accepted + 1
    BY <1>4 DEF EncPut, EncoderLeft
  <2> QED
    BY <1>2, <1>3, <2>1, LeftType DEF WindsDown
<1>5. CASE ~EncPut
  <2>1. EncoderLeft' < EncoderLeft
    <3>1. CASE EncLoop \/ EncLock
      BY <3>1 DEF EncoderLeft, EncLoop, EncLock
    <3>2. CASE EncPredicate \/ EncBlock \/ EncSpuriousWakeup
      BY <3>2 DEF EncoderLeft, EncPredicate, EncBlock, EncSpuriousWakeup
    <3>3. CASE EncBreak \/ EncTake
      BY <3>3 DEF EncoderLeft, EncBreak, EncTake
    <3>4. CASE EncPutFails \/ EncGet \/ EncGetNothing
      BY <3>4 DEF EncoderLeft, EncPutFails, EncGet, EncGetNothing
    <3>5. CASE EncGetFails \/ EncPublish
      BY <3>5 DEF EncoderLeft, EncGetFails, EncPublish
    <3> QED
      BY <1>5, <3>1, <3>2, <3>3, <3>4, <3>5 DEF EncoderStep
  <2>2. accepted' = accepted
    BY <1>5 DEF EncoderStep, beforeEncoding, whileEncoding, mpp, EncLoop, EncLock,
         EncPredicate, EncBlock, EncSpuriousWakeup, EncBreak, EncTake, EncPutFails,
         EncGet, EncGetNothing, EncGetFails, EncPublish
  <2>3. EncoderLeft' <= EncoderLeft
    BY <2>1, LeftType
  <2>4. OwnerLeft' + EncoderLeft' + accepted < OwnerLeft + EncoderLeft + accepted
    BY <1>3, <2>1, <2>3, LeftType, SumFalls
  <2> QED
    BY <1>3, <2>2, <2>3, <2>4 DEF WindsDown
<1> QED
  BY <1>4, <1>5

\* MPP leaves both threads where they are, and has one frame less to encode.
LEMMA MppWindsDown ==
    ASSUME TypeOK, MppEncode
    PROVE  WindsDown
<1>1. ownerPc' = ownerPc /\ encoderPc' = encoderPc /\ accepted' = accepted - 1 /\ accepted > 0
  BY DEF MppEncode, whileEncoding, encoderKeeps
<1>2. OwnerLeft' = OwnerLeft /\ EncoderLeft' = EncoderLeft
  BY <1>1 DEF OwnerLeft, EncoderLeft
<1>3. accepted \in Nat
  BY DEF TypeOK
<1> QED
  BY <1>1, <1>2, <1>3, LeftType DEF WindsDown

\* Once should_stop_ is set, nothing makes either thread's way longer: from
\* then on the two together take at most a dozen steps, and MPP one for each frame
\* it has accepted.
THEOREM WindDownCorrect == Spec => StopWindsDown
<1>1. TypeOK /\ StopInProgress /\ [Next]_vars => [shouldStop => WindsDown]_vars
  <2> SUFFICES ASSUME TypeOK, StopInProgress, Next, shouldStop, vars' # vars
               PROVE  WindsDown
    BY DEF vars
  <2>1. OwnerCall \/ ProcessFrame \/ Stop \/ EncoderStep \/ EncSpuriousWakeup \/ MppEncode
    BY DEF Next, Finished, vars
  <2> QED
    BY <2>1, OwnerWindsDown, EncoderWindsDown, MppWindsDown
<1> QED
  BY <1>1, TypeCorrect, StopInProgressAlways, PTL DEF Spec, StopWindsDown, WindsDown
=============================================================================
