--------------------------- MODULE MJPEGStreamer ---------------------------
(***************************************************************************)
(* One MJPEGStreamer (src/src/mjpeg_streamer.cpp) from start() to the end  *)
(* of stop(), and the two threads that share it:                           *)
(*   - the owner: the channel's decode thread, which starts the streamer,  *)
(*     converts a frame into the DRM display buffer, pushes it and stops   *)
(*     the streamer;                                                       *)
(*   - the encoder: encoder_worker(), which takes frames from frame_queue_ *)
(*     under queue_mutex_, waits on queue_cv_, and publishes current_jpeg_.*)
(* A step is what one thread does between two accesses to shared state.    *)
(* Critical sections of jpeg_mutex_ hold one assignment and are one step.  *)
(* Viewers only read current_jpeg_ (get_current_jpeg, one step under       *)
(* jpeg_mutex_); SimpleHTTPServer has their threads and its own stop().    *)
(* MPP, behind the encoder's encode_frame(), encodes what was put at its   *)
(* own pace, from the one frame buffer, as in MPPEncoder: a JPEG may be    *)
(* that of an earlier call.                                                *)
(***************************************************************************)
EXTENDS Integers, Sequences

CONSTANTS MaxFrames,        \* bound: frames the owner decodes in a lifetime
          MAX_QUEUE_SIZE,   \* 5 in the code
          MaxInMpp          \* bound: frames MPP holds before it refuses one

ASSUME StreamerAssumption ==
    /\ MaxFrames \in Nat
    /\ MAX_QUEUE_SIZE \in Nat \ {0}
    /\ MaxInMpp \in Nat

VARIABLES
    running,         \* running_
    shouldStop,      \* should_stop_
    queueMutex,      \* who holds queue_mutex_ between two steps
    frameQueue,      \* frame_queue_, oldest frame first
    currentJpeg,     \* current_jpeg_
    framesEncoded,   \* frames_encoded_
    framesDropped,   \* frames_dropped_
    displayBuf,      \* number of the frame whose pixels drm_buf_for_rga2 holds
    ownerPc,         \* where the owner is
    encoderPc,       \* where the encoder is
    frameData,       \* the encoder's local frame_data
    jpegData,        \* the encoder's local jpeg_data
    frmBuf,          \* the annotated picture in MPP's only frame buffer
    accepted,        \* how many frames MPP has accepted and not yet encoded
    packets,         \* the pictures in the packets nobody got yet, oldest first
    newestShown      \* history: number of the newest picture published

mpp == <<frmBuf, accepted, packets>>
vars == <<running, shouldStop, queueMutex, frameQueue, currentJpeg,
          framesEncoded, framesDropped, displayBuf, ownerPc, encoderPc,
          frameData, jpegData, mpp, newestShown>>

-----------------------------------------------------------------------------
(* Frames.  The owner numbers frames from 1; a picture is the number of    *)
(* the frame its pixels come from, a detection group the number of the     *)
(* frame it was computed on, and 0 stands for the empty image.             *)

\* A cv::Mat over the caller's memory (shared) or with pixels of its own.
Mat == [shared : BOOLEAN, pixels : Nat]

Pixels(mat) == IF mat.shared THEN displayBuf ELSE mat.pixels

\* validate_and_correct_color_format: a header over the DRM buffer, or a
\* corrected copy when the sampled pixels look swapped.
ValidateAndCorrectColorFormat ==
    {[shared |-> TRUE, pixels |-> 0], [shared |-> FALSE, pixels |-> displayBuf]}

\* Fault: the constructor keeps the caller's header instead of a clone.
FrameDataNotCloned(mat, results) == [frame |-> mat, results |-> results]

\* The FrameData constructor clones the image it is given.
FrameData(mat, results) ==
    [frame |-> [shared |-> FALSE, pixels |-> Pixels(mat)], results |-> results]

\* draw_detection_results and the JPEG made of it.
DrawDetectionResults(data) ==
    [pixels |-> Pixels(data.frame), boxes |-> data.results]

NoJpeg == [pixels |-> 0, boxes |-> 0]

\* Fault: one frame too many fits before the oldest goes.
PushedOneTooMany(queue, data) ==
    Append(IF Len(queue) > MAX_QUEUE_SIZE THEN Tail(queue) ELSE queue, data)

\* frame_queue_ after push_frame: the oldest frame goes when it is full.
Pushed(queue, data) ==
    Append(IF Len(queue) >= MAX_QUEUE_SIZE THEN Tail(queue) ELSE queue, data)

-----------------------------------------------------------------------------
Init ==
    /\ running = FALSE
    /\ shouldStop = FALSE
    /\ queueMutex = "free"
    /\ frameQueue = <<>>
    /\ currentJpeg = NoJpeg
    /\ framesEncoded = 0
    /\ framesDropped = 0
    /\ displayBuf = 0
    /\ ownerPc = "init"
    /\ encoderPc = "unstarted"
    /\ frameData = FrameData([shared |-> FALSE, pixels |-> 0], 0)
    /\ jpegData = NoJpeg
    /\ frmBuf = NoJpeg
    /\ accepted = 0
    /\ packets = <<>>
    /\ newestShown = 0

\* What the owner's steps that touch neither frames nor the encoder keep.
ownerKeeps == <<queueMutex, framesEncoded, framesDropped, displayBuf,
                frameData, jpegData, mpp, newestShown>>

-----------------------------------------------------------------------------
(* The owner: start(), the decode loop's pushes, stop().                   *)

\* start() up to the creation of encoder_thread_.
Start ==
    /\ ownerPc = "init"
    /\ ~running
    /\ shouldStop' = FALSE
    /\ running' = TRUE
    /\ encoderPc' = "loop"
    /\ ownerPc' = "startServer"
    /\ UNCHANGED <<ownerKeeps, frameQueue, currentJpeg>>

\* server_->start() succeeds, or fails and start() calls stop().
StartServer ==
    /\ ownerPc = "startServer"
    /\ ownerPc' \in {"streaming", "startFailed"}
    /\ UNCHANGED <<ownerKeeps, frameQueue, currentJpeg, running, shouldStop,
                   encoderPc>>

\* decode() converts the next frame into drm_buf_for_rga2 and runs inference.
ProcessFrame ==
    /\ ownerPc = "streaming"
    /\ displayBuf < MaxFrames
    /\ displayBuf' = displayBuf + 1
    /\ ownerPc' = "push"
    /\ UNCHANGED <<running, shouldStop, queueMutex, frameQueue, currentJpeg,
                   framesEncoded, framesDropped, encoderPc, frameData, jpegData,
                   mpp, newestShown>>

\* push_frame_raw and push_frame up to lock.unlock().
PushFrame ==
    /\ ownerPc = "push"
    /\ running
    /\ queueMutex = "free"
    /\ \E mat \in ValidateAndCorrectColorFormat :
           frameQueue' = Pushed(frameQueue, FrameData(mat, displayBuf))
    /\ framesDropped' =
           IF Len(frameQueue) >= MAX_QUEUE_SIZE THEN framesDropped + 1 ELSE framesDropped
    /\ ownerPc' = "notify"
    /\ UNCHANGED <<running, shouldStop, queueMutex, currentJpeg, framesEncoded,
                   displayBuf, encoderPc, frameData, jpegData, mpp, newestShown>>

\* Fault: nobody is notified.
WakeNobody == encoderPc' = encoderPc

\* Notifying queue_cv_ reaches the encoder only if it is already blocked.
WakeEncoder ==
    encoderPc' = IF encoderPc = "waiting" THEN "relock" ELSE encoderPc

\* queue_cv_.notify_one() at the end of push_frame.
NotifyOne ==
    /\ ownerPc = "notify"
    /\ WakeEncoder
    /\ ownerPc' = "streaming"
    /\ UNCHANGED <<ownerKeeps, frameQueue, currentJpeg, running, shouldStop>>

\* stop(): should_stop_ is set without queue_mutex_.
Stop ==
    /\ ownerPc \in {"streaming", "startFailed"}
    /\ running
    /\ shouldStop' = TRUE
    /\ ownerPc' = "stopServer"
    /\ UNCHANGED <<ownerKeeps, frameQueue, currentJpeg, running, encoderPc>>

\* server_->stop() returns.
StopServer ==
    /\ ownerPc = "stopServer"
    /\ ownerPc' = "notifyAll"
    /\ UNCHANGED <<ownerKeeps, frameQueue, currentJpeg, running, shouldStop,
                   encoderPc>>

\* queue_cv_.notify_all(); nothing waits on jpeg_cv_.
NotifyAll ==
    /\ ownerPc = "notifyAll"
    /\ WakeEncoder
    /\ ownerPc' = "join"
    /\ UNCHANGED <<ownerKeeps, frameQueue, currentJpeg, running, shouldStop>>

\* Fault: stop() does not wait for the encoder.
JoinNothing ==
    /\ ownerPc = "join"
    /\ ownerPc' = "clearQueue"
    /\ UNCHANGED <<ownerKeeps, frameQueue, currentJpeg, running, shouldStop,
                   encoderPc>>

\* encoder_thread_.join() returns.
JoinEncoder ==
    /\ ownerPc = "join"
    /\ encoderPc = "done"
    /\ ownerPc' = "clearQueue"
    /\ UNCHANGED <<ownerKeeps, frameQueue, currentJpeg, running, shouldStop,
                   encoderPc>>

ClearQueue ==
    /\ ownerPc = "clearQueue"
    /\ queueMutex = "free"
    /\ frameQueue' = <<>>
    /\ ownerPc' = "clearJpeg"
    /\ UNCHANGED <<ownerKeeps, currentJpeg, running, shouldStop, encoderPc>>

\* Fault: the last picture stays.
KeepJpeg ==
    /\ ownerPc = "clearJpeg"
    /\ ownerPc' = "setStopped"
    /\ UNCHANGED <<ownerKeeps, frameQueue, currentJpeg, running, shouldStop, encoderPc>>

ClearJpeg ==
    /\ ownerPc = "clearJpeg"
    /\ currentJpeg' = NoJpeg
    /\ ownerPc' = "setStopped"
    /\ UNCHANGED <<ownerKeeps, frameQueue, running, shouldStop, encoderPc>>

\* running_ = false; the channel then destroys the streamer.
SetStopped ==
    /\ ownerPc = "setStopped"
    /\ running' = FALSE
    /\ ownerPc' = "stopped"
    /\ UNCHANGED <<ownerKeeps, frameQueue, currentJpeg, shouldStop, encoderPc>>

-----------------------------------------------------------------------------
(* The encoder: one iteration of encoder_worker's loop.                    *)

encoderKeeps == <<running, shouldStop, displayBuf, framesDropped, ownerPc>>

\* What every step of it before encode_frame keeps besides.
beforeEncoding == <<encoderKeeps, currentJpeg, framesEncoded, jpegData, mpp, newestShown>>

\* while (!should_stop_)
EncLoop ==
    /\ encoderPc = "loop"
    /\ encoderPc' = IF shouldStop THEN "done" ELSE "lock"
    /\ UNCHANGED <<beforeEncoding, queueMutex, frameQueue, frameData>>

\* Fault: a wakeup is trusted, wait() without a predicate loop.
EncLockTrustsWakeup ==
    /\ encoderPc \in {"lock", "relock"}
    /\ queueMutex = "free"
    /\ queueMutex' = "encoder"
    /\ encoderPc' = IF encoderPc = "relock" THEN "awake" ELSE "predicate"
    /\ UNCHANGED <<beforeEncoding, frameQueue, frameData>>

\* The unique_lock, and wait() getting the mutex back after a wakeup.
EncLock ==
    /\ encoderPc \in {"lock", "relock"}
    /\ queueMutex = "free"
    /\ queueMutex' = "encoder"
    /\ encoderPc' = "predicate"
    /\ UNCHANGED <<beforeEncoding, frameQueue, frameData>>

\* Fault: the predicate asks for frames only.
EncPredicateIgnoresStop ==
    /\ encoderPc = "predicate"
    /\ encoderPc' = IF frameQueue # <<>> THEN "awake" ELSE "block"
    /\ UNCHANGED <<beforeEncoding, queueMutex, frameQueue, frameData>>

\* wait() evaluates its predicate with the mutex held.
EncPredicate ==
    /\ encoderPc = "predicate"
    /\ encoderPc' = IF frameQueue # <<>> \/ shouldStop THEN "awake" ELSE "block"
    /\ UNCHANGED <<beforeEncoding, queueMutex, frameQueue, frameData>>

\* wait() releases the mutex and blocks in one step.
EncBlock ==
    /\ encoderPc = "block"
    /\ queueMutex' = "free"
    /\ encoderPc' = "waiting"
    /\ UNCHANGED <<beforeEncoding, frameQueue, frameData>>

\* A condition variable may wake its waiter unasked.
EncSpuriousWakeup ==
    /\ encoderPc = "waiting"
    /\ encoderPc' = "relock"
    /\ UNCHANGED <<beforeEncoding, queueMutex, frameQueue, frameData>>

\* break out of the loop; the unique_lock's destructor unlocks.
EncBreak ==
    /\ encoderPc = "awake"
    /\ shouldStop
    /\ queueMutex' = "free"
    /\ encoderPc' = "done"
    /\ UNCHANGED <<beforeEncoding, frameQueue, frameData>>

\* front(), pop() and unlock().  The code's "continue" for an empty queue is
\* never taken here (WakeupsMatchFrames).
EncTake ==
    /\ encoderPc = "awake"
    /\ ~shouldStop
    /\ frameQueue # <<>>
    /\ frameData' = Head(frameQueue)
    /\ frameQueue' = Tail(frameQueue)
    /\ queueMutex' = "free"
    /\ encoderPc' = "encode"
    /\ UNCHANGED beforeEncoding

-----------------------------------------------------------------------------
(* encode_frame() in the encoder's thread, and MPP behind it.              *)

\* What the steps inside encode_frame keep.
whileEncoding == <<encoderKeeps, queueMutex, frameQueue, currentJpeg, frameData, newestShown>>

\* The annotated picture goes into the frame buffer, and MPP accepts the frame.
EncPut ==
    /\ encoderPc = "encode"
    /\ accepted + Len(packets) < MaxInMpp
    /\ frmBuf' = DrawDetectionResults(frameData)
    /\ accepted' = accepted + 1
    /\ encoderPc' = "get"
    /\ UNCHANGED <<whileEncoding, framesEncoded, jpegData, packets>>

\* encode_frame fails before MPP has the frame: the picture is refused for its
\* size, or it is in the buffer and the put fails.
EncPutFails ==
    /\ encoderPc = "encode"
    /\ frmBuf' \in {frmBuf, DrawDetectionResults(frameData)}
    /\ encoderPc' = "loop"
    /\ UNCHANGED <<whileEncoding, framesEncoded, jpegData, accepted, packets>>

\* MPP encodes the frame that is next, from what the buffer holds now.
MppEncode ==
    /\ accepted > 0
    /\ accepted' = accepted - 1
    /\ packets' = Append(packets, frmBuf)
    /\ UNCHANGED <<whileEncoding, encoderPc, framesEncoded, jpegData, frmBuf>>

\* encode_frame returns 0 with the oldest packet.
EncGet ==
    /\ encoderPc = "get"
    /\ packets # <<>>
    /\ jpegData' = Head(packets)
    /\ packets' = Tail(packets)
    /\ framesEncoded' = framesEncoded + 1
    /\ encoderPc' = "publish"
    /\ UNCHANGED <<whileEncoding, frmBuf, accepted>>

\* Fault: the frame is counted again when no packet came.
EncGetNothingCountsTwice ==
    /\ encoderPc = "get"
    /\ jpegData' = NoJpeg
    /\ framesEncoded' = framesEncoded + 2
    /\ encoderPc' = "publish"
    /\ UNCHANGED <<whileEncoding, mpp>>

\* encode_frame returns 0 without a packet: jpeg_data stays empty, and one more
\* frame stays behind in MPP.
EncGetNothing ==
    /\ encoderPc = "get"
    /\ jpegData' = NoJpeg
    /\ framesEncoded' = framesEncoded + 1
    /\ encoderPc' = "publish"
    /\ UNCHANGED <<whileEncoding, mpp>>

\* The get fails: the frame is given up, although MPP has it.
EncGetFails ==
    /\ encoderPc = "get"
    /\ encoderPc' = "loop"
    /\ UNCHANGED <<whileEncoding, framesEncoded, jpegData, mpp>>

\* current_jpeg_ = std::move(jpeg_data) under jpeg_mutex_.
EncPublish ==
    /\ encoderPc = "publish"
    /\ currentJpeg' = jpegData
    /\ newestShown' = IF jpegData = NoJpeg THEN newestShown ELSE jpegData.pixels
    /\ encoderPc' = "loop"
    /\ UNCHANGED <<encoderKeeps, queueMutex, frameQueue, framesEncoded,
                   frameData, jpegData, mpp>>

-----------------------------------------------------------------------------
\* What the owner does on its own account once it has begun a call.
OwnerCall ==
    \/ Start \/ StartServer \/ PushFrame \/ NotifyOne
    \/ StopServer \/ NotifyAll \/ JoinEncoder
    \/ ClearQueue \/ ClearJpeg \/ SetStopped

EncoderStep ==
    \/ EncLoop \/ EncLock \/ EncPredicate \/ EncBlock \/ EncBreak \/ EncTake
    \/ EncPut \/ EncPutFails \/ EncGet \/ EncGetNothing \/ EncGetFails \/ EncPublish

\* The streamer's life is over; keeps the final state from being a deadlock.
Finished == ownerPc = "stopped" /\ UNCHANGED vars

Next ==
    \/ OwnerCall \/ ProcessFrame \/ Stop \/ EncoderStep \/ EncSpuriousWakeup
    \/ MppEncode \/ Finished

Spec == Init /\ [][Next]_vars

\* Both threads are scheduled; nobody promises another frame, a stop, a
\* spurious wakeup or that MPP comes round to a frame.
FairSpec == Spec /\ WF_vars(OwnerCall) /\ WF_vars(EncoderStep)

-----------------------------------------------------------------------------
(* Properties.                                                             *)

OwnerPcs == {"init", "startServer", "startFailed", "streaming", "push", "notify",
             "stopServer", "notifyAll", "join", "clearQueue", "clearJpeg",
             "setStopped", "stopped"}

EncoderPcs == {"unstarted", "loop", "lock", "predicate", "block", "waiting",
               "relock", "awake", "encode", "get", "publish", "done"}

Frame == [frame : Mat, results : Nat]

Jpeg == [pixels : Nat, boxes : Nat]

\* The type of every variable.
TypeOK ==
    /\ running \in BOOLEAN
    /\ shouldStop \in BOOLEAN
    /\ queueMutex \in {"free", "encoder"}
    /\ frameQueue \in Seq(Frame)
    /\ currentJpeg \in Jpeg
    /\ framesEncoded \in Nat
    /\ framesDropped \in Nat
    /\ displayBuf \in Nat
    /\ ownerPc \in OwnerPcs
    /\ encoderPc \in EncoderPcs
    /\ frameData \in Frame
    /\ jpegData \in Jpeg
    /\ frmBuf \in Jpeg
    /\ accepted \in Nat
    /\ packets \in Seq(Jpeg)
    /\ newestShown \in Nat

\* Frames handed to push_frame so far: all decoded ones but the one in flight.
PushedCount == IF ownerPc = "push" THEN displayBuf - 1 ELSE displayBuf

\* While frames flow, frame_queue_ is exactly the newest frames pushed, in
\* order and at most MAX_QUEUE_SIZE of them: dropping loses the oldest frame
\* and never opens a gap, whatever the encoder takes in between.
QueueHoldsNewest ==
    /\ Len(frameQueue) <= MAX_QUEUE_SIZE
    /\ \A i \in 1 .. Len(frameQueue) :
           frameQueue[i].results = PushedCount - Len(frameQueue) + i

\* An encoder blocked on queue_cv_ with a frame in the queue is about to be
\* notified: a push is never slept through.
NoSleepOnFrames ==
    encoderPc \in {"block", "waiting"} /\ frameQueue # <<>>
        => ownerPc = "notify" \/ shouldStop

\* front() is only reached with a frame in the queue: the mutex is held from
\* the predicate to the pop, so the empty-queue test in between is dead code.
AwakeFindsFrame ==
    encoderPc = "awake" => frameQueue # <<>> \/ shouldStop

\* What the encoder believes about the queue is what is in it, on both sides of
\* its wait on queue_cv_: it does not sleep on frames, whoever pushed them when,
\* and it does not wake for frames that are not there, spuriously or not.
WakeupsMatchFrames == NoSleepOnFrames /\ AwakeFindsFrame

\* A viewer is never shown the boxes of one frame over the pixels of another,
\* although the decoder overwrites drm_buf_for_rga2 while frames wait.
BoxesMatchPixels ==
    /\ currentJpeg.pixels = currentJpeg.boxes
    /\ jpegData.pixels = jpegData.boxes

\* Every frame pushed is waiting, was dropped or was taken, and what was taken
\* was encoded except for the frames encode_frame gave up: the statistics
\* get_stats() returns never count a frame twice.
FramesAccountedFor ==
    framesEncoded + framesDropped + Len(frameQueue)
      + (IF encoderPc \in {"encode", "get"} THEN 1 ELSE 0) <= PushedCount

\* When stop() is done the encoder has ended, the lock is free, and neither a
\* frame nor a JPEG is left behind or can appear later.
StoppedIsQuiet ==
    ~running /\ ownerPc # "init"
        => /\ encoderPc = "done"
           /\ queueMutex = "free"
           /\ frameQueue = <<>>
           /\ currentJpeg = NoJpeg

\* Frames that MPP has besides that of the call in progress: as many as gets
\* have come back without a packet.
Behind == accepted + Len(packets) - (IF encoderPc = "get" THEN 1 ELSE 0)

\* However many packets came late or not at all, the picture viewers get is not
\* older than any they were shown before; and it is that of the frame just taken
\* as long as no get has come back without a packet.
NeverRewinds ==
    [][currentJpeg' # NoJpeg =>
           /\ currentJpeg'.pixels >= newestShown
           /\ Behind = 0 => currentJpeg'.pixels = frameData.results]_currentJpeg

\* How many steps each thread has left, at most, once should_stop_ is set.
OwnerLeft ==
    CASE ownerPc = "stopServer" -> 6
      [] ownerPc = "notifyAll" -> 5
      [] ownerPc = "join" -> 4
      [] ownerPc = "clearQueue" -> 3
      [] ownerPc = "clearJpeg" -> 2
      [] ownerPc = "setStopped" -> 1
      [] OTHER -> 0

EncoderLeft ==
    CASE encoderPc = "block" -> 6
      [] encoderPc = "waiting" -> 5
      [] encoderPc \in {"lock", "relock"} -> 4
      [] encoderPc = "encode" -> 5
      [] encoderPc \in {"predicate", "get"} -> 3
      [] encoderPc \in {"awake", "publish"} -> 2
      [] encoderPc = "loop" -> 1
      [] OTHER -> 0

\* From the moment should_stop_ is set both threads only go on to their ends:
\* the encoder neither takes another frame nor blocks again after a wakeup,
\* wherever it was, so stop() is over after a dozen steps of theirs unless it
\* sleeps, and MPP encodes only what it has accepted.
StopWindsDown ==
    [][shouldStop =>
           /\ OwnerLeft' <= OwnerLeft
           /\ EncoderLeft' <= EncoderLeft
           /\ OwnerLeft' + EncoderLeft' + accepted' < OwnerLeft + EncoderLeft + accepted]_vars

\* The streamer implements the abstract live stream.
Stream ==
    INSTANCE LiveStream WITH
        Capacity <- MAX_QUEUE_SIZE,
        offered  <- PushedCount,
        taken    <- frameData.results,
        shown    <- currentJpeg,
        latest   <- newestShown,
        late     <- Behind > 0,
        open     <- ownerPc \notin {"setStopped", "stopped"}

ImplementsLiveStream == Stream!Spec

\* A queued frame does not wait for ever: the encoder empties the queue unless
\* the streamer is stopped.
QueueIsDrained == frameQueue # <<>> ~> frameQueue = <<>> \/ shouldStop

\* stop() returns whenever the encoder was not caught between evaluating its
\* predicate and blocking: whoever is at another point sees should_stop_.
StopJoinsAwakeEncoder ==
    ownerPc = "join" /\ encoderPc \notin {"block", "waiting"} ~> ownerPc = "stopped"

\* stop() always wakes the encoder and returns (mjpeg_streamer.cpp:489, :493).
StopReturns == shouldStop ~> ownerPc = "stopped"
=============================================================================
