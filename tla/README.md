# TLA+ specifications of rknn_ffmpeg_tutorial

The program decodes one video stream (`main.cpp`) or eight (`multi_stream_main.cpp`)
with FFmpeg on a Rockchip SoC, runs YOLOv5 on the NPU, draws the detections and serves
the result as MJPEG over HTTP.  This directory models its concurrent and failure-prone
core in TLA+, checks the models with TLC and proves their safety properties with TLAPS.
Line numbers refer to the files under `src/src/`.

## 1. Inventory

| component | state | operations | talks to |
|---|---|---|---|
| MJPEG streamer (`mjpeg_streamer.cpp`, 419-739) | `frame_queue_` under `queue_mutex_`, `queue_cv_`, `current_jpeg_` under `jpeg_mutex_`, `running_`, `should_stop_`, two counters | `start`, `stop`, `push_frame(_raw)`, `encoder_worker`, `get_current_jpeg`, `get_stats` | its HTTP server through provider callbacks; called by the channel's decode thread |
| HTTP server (`mjpeg_streamer.cpp`, 16-417) | `server_fd_` (unprotected), `running_`, `should_stop_`, server thread, detached client threads | `start`, `stop`, `server_worker`, `handle_client`, `send_mjpeg_stream` | peers; reads JPEGs from the streamer |
| Stream channel (`ffmpeg.cpp`, `ffmpeg.h`) | FFmpeg contexts, `use_software_only`, two DRM buffers, RKNN context, `should_stop_processing`, failure counter | constructor, `decode_continuous`, `decode`, `process_frame_hardware`, `process_frame_software_fallback`, `cleanup_ffmpeg_contexts`, `stop_processing`, destructor | owns a streamer; FFmpeg, RGA, DRM, RKNN |
| Multi-stream program (`multi_stream_main.cpp`) | `g_channels`, `g_shutdown_requested`, worker threads; TCP ports 8090-8097 | `main`, `stream_worker`, `signal_process` | one channel per worker; channels compete for ports |
| Single-stream program (`main.cpp`) | `g_channel` | `main`, `signal_process` | one channel |
| MPP JPEG encoder (`mpp_encoder.cpp`) | MPP context, configuration, two buffer groups, one frame and its buffer, one packet and its buffer | `init`, `encode_frame`, `cleanup` | called by the streamer's encoder thread |
| Software conversion (`ffmpeg.cpp`, 319-950) | one `static` conversion buffer shared by all channels | packing or mapping a frame, YUV420P/NV12 to BGR with strides | the channel |
| DRM buffers and RGA (`rockchip/`, `ffmpeg.cpp` 10-78, 191-317) | the card, dumb buffers, prime descriptors, mappings, RGA's functions | `rknn_drm_init`, `rknn_drm_buf_alloc`, `rknn_rga_init`, the stride-aware blit | kernel, librga |
| YOLOv5 post-processing (`yolov5s_postprocess.cpp`) | `static int init`, label table; per call the candidates, scores and index array | `post_process`: decode, sort, NMS, selection | called in every channel's thread |
| Utilities, build, scripts, pages | none at run time | | |

### Hard behaviours, and what makes each component correct

* **Streamer.** The decode thread pushes and drops while the encoder takes; the encoder
  waits on a condition variable; `stop()` runs against both.  Correct means: no gap or
  reordering in the queue, no lost wakeup, boxes drawn on the frame they belong to even
  though the pixels live in a DRM buffer the decoder overwrites, pictures that never go
  back although MPP may be late with them, no frame counted twice, and nothing left or
  published after `stop()`.
* **HTTP server.** `stop()` closes a descriptor another thread is about to call, or is
  blocked in, `accept()` on; numbers are reused by other channels; client threads are
  detached.  Correct means: `stop()` closes its own descriptor only, leaves no thread,
  socket or connection behind, and one stuck client does not keep others unserved.
* **Channel.** Every call of a session may fail, and the next session starts over what is
  left.  Two paths (RGA and software) write the same two buffers.  Correct means: clean
  contexts at each session, a decoder that fits the stream and the mode, buffers that
  hold the current frame when it is shown, with its own detections, no packet lost to an undrained decoder,
  giving up exactly after a row of failures.
* **Multi-stream.** Each constructor grabs the default port before its stream moves to its
  own, and what one server closes another may get the number of, while a thread of the
  first is about to call `accept()` with it.  Correct means that each stream ends up on
  its own port, and that ports and threads come back.

* **Software conversion.** Three pieces of code compute where a sample lies: `decode`
  rounds the size and finds the pitch, the fallback packs planes, the conversions index
  them by width, height and stride.  Correct means that they agree for every size, and
  that a picture holds samples of its own frame only, although the buffer is shared.
* **DRM and RGA.** Any of eight steps of the initialization may fail, and RGA may refuse
  any of six pairs of formats for either buffer.  Correct means that hardware mode has
  all it needs, and that the model and the display see one format of one frame.
* **MPP encoder.** `init` fails half way and `cleanup` runs all the same; a packet may be
  late, and there is one frame buffer.  Correct means that everything is released once
  and in order, and that a JPEG shows what its caller asked for.
* **Post-processing.** Two arrays are sorted in place with one hole, `nms` looks up
  classes by position, and the label table is loaded by whichever thread comes first.
  Correct means that results are ranked, carry their own score, class and name, do not
  overlap, and that nothing is dropped without cause.

`PROJECT.json` lists the hazards with their lines and the properties that cover them.

## 2. Modules

| module | models | state and actions against the code |
|---|---|---|
| `LiveStream` | the abstract promise of a streamer: offer, take one of the `Capacity` newest, show the picture taken last with its own boxes, or, once a packet failed to come, of an earlier one but never an earlier one than was shown, close | abstract |
| `PortServer` | the abstract promise of an HTTP server to whoever else wants a port: it takes one, holds it until it was closed and its thread has left `accept()`, and those of other servers that came to the socket meanwhile, and gives it up once | abstract |
| `FrameBuffers` | the abstract promise of a channel about its two DRM buffers: one setup, hardware mode only with both, each frame by hardware, by software or by one after the other, shown from both buffers or not at all | abstract |
| `LexOrder` | the lexicographic order a variant goes down in | operators, no state |
| `MJPEGStreamer` | one streamer from `start()` to the end of `stop()`, two threads | one variable per shared member; `ownerPc`/`encoderPc` say where each thread is; one action per access to shared state, one per critical section of `jpeg_mutex_`; `frmBuf`, `accepted` and `packets` are the encoder's frame buffer and what MPP has |
| `MJPEGStreamerProofs` | theorems about it | |
| `SimpleHTTPServer` | one HTTP server with its owner, its server thread, its detached client threads, the peers, and one other channel of the process | `serverFd` is the plain int; `fdTable` is what the number means to the system; `serverPc` separates reading the int (`SrvReadFd`) from `accept()`; a client in state "undefined" has used the server after it was freed |
| `SimpleHTTPServerProofs` | theorems about it | |
| `FFmpegStreamChannel` | constructor, sessions, cleanup and destructor of a channel, and `stop_processing` from elsewhere | one action per call that can fail, and one per way of failing; FFmpeg, RGA, DRM and RKNN are nondeterministic |
| `FFmpegStreamChannelProofs` | theorems about it | |
| `MultiStream` | main, the workers, the signal handler, the ports and the descriptor numbers | `holder` says which stream's socket is bound to each port, `fdTable` whose socket a number means; `server`, `readFd` and `acceptOn` say where each server thread is between its test, the read of `server_fd_` and `accept()`; of each streamer that, and the join of its encoder |
| `MultiStreamProofs` | theorems about it | |
| `PostProcess` | one call of `post_process` after the candidates were found | `objProbs`, `indexArray`, `i`, `class_set`, `filterId` as in the code; the recursion of the sort is the stack `calls`; one action per loop of the sort's partition, per position of `nms` and of the selection |
| `PostProcessProofs` | theorems about it | |
| `PixelLayout` | where each piece of code takes a sample to be | operators, no state |
| `SharedStatics` | two or more channels' threads in `process_frame_software_fallback` and `post_process`; extends `PixelLayout` | `yuv_buffer` with size, capacity and bytes; one action per `resize`, copied line, conversion and stored label |
| `SharedStaticsProofs` | theorems about both | |
| `MPPEncoder` | `init`, `encode_frame`, `cleanup`, and MPP behind them | `set` are the fields that are not NULL, `live` those whose object exists; `accepted` and `encoded` are MPP's |
| `MPPEncoderProofs` | theorems about it | |
| `DrmRga` | `init_rga_drm` step by step and `process_frame_hardware` | `buf_fd`, `buf_ptr`, `use_software_only`, `i`, `color_fmt` as in the code; `dumb` and `prime` are the kernel's |
| `DrmRgaProofs` | theorems about it | |

How they fit together: `FFmpegStreamChannel` takes `init_rga_drm` and the two processing
paths as one step each; `DrmRga` and `SharedStatics` are those steps in detail.  That
the one step is a fair account of the many is not left to the reader: the channel and
`DrmRga` both implement `FrameBuffers`, one session by session and the other ioctl by
ioctl.  `MJPEGStreamer` has a small MPP of its own, so that `encode_frame` may return the JPEG of
an earlier call; `MPPEncoder` is that call with its objects, its failing `init` and its
`cleanup`.  `MultiStream` composes what channels, streamers and servers do to the ports
and to the process's descriptor numbers.  Of a server it has the thread and the socket,
`SimpleHTTPServer` has the connections and the client threads as well, and both implement
`PortServer`.  Of a streamer's `stop()` it has the two joins: the server's, which waits
for a thread in `accept()`, and the encoder's, which hangs when the encoder missed its
wakeup (`asleep`; `MJPEGStreamer` is how that comes about).

Abstractions worth knowing:

* A frame is its number (`MJPEGStreamer`) or "current"/"older" (`FFmpegStreamChannel`);
  a picture is the number of the frame its pixels come from, detections the number of the
  frame they were computed on.  `Mat` keeps the difference between an image that owns its
  pixels and a header over the DRM buffer: that is where `clone()` matters.
* In Linux a thread blocked in `accept()` keeps its listening socket alive after
  `close()`, so `close()` does not wake it.  `Listening`, `LeaveAccept` and `CloseSocket`
  model this; a finding and several properties rest on it.
* `pc = "crashed"` is undefined behaviour the channel really reaches (a NULL buffer, a
  negative stream index, inference outputs that were not delivered), and so is
  `lost # "no"` in `SharedStatics` (storage that another thread released, a label that is
  NULL) and "undefined" in `SimpleHTTPServer` (a client thread in the freed server).  No
  claim is made past it.
* What the NPU is asked is looked at only in the end: `Infer` lets `rknn_inputs_set` and
  `rknn_run` be refused, which leaves the picture or the results of an older frame, and
  only `rknn_outputs_get` without outputs is `InferenceFails`.
* In `PostProcess` a candidate is its number, and of its rectangle only the set of
  candidates it overlaps matters; scores are integers.  Positions count from 1.
* In `SharedStatics` a byte stands for where it came from.  A vector that grows moves, so
  a pointer into it is the capacity at the time; `Decode` takes any mixture of sizes and
  formats the constants allow, whatever the other channel has.
* MPP encodes accepted frames in order, at any later time, from what the only frame
  buffer then holds, and a get may come back empty.  It reads the buffer at once: a
  picture read while `convert_mat_to_yuv420` writes the next one is not told apart.
* `MultiStream` lets a streamer fail in `MPPEncoder::init` at any time
  (`ConstructNothing`, `InitFails`), and `Exit` may come at any time after a signal:
  everything in the process ends with it.  Ports are taken by channels of this process
  only.  A new socket gets any number that is not in use, which includes one that was
  closed just before; numbers of files and connections are not sockets one can call
  `accept()` on, and are as good as unused.
* `newestShown` in `MJPEGStreamer`, `visitors` in `MultiStream`, `recent` in
  `FFmpegStreamChannel`, `late` in `SimpleHTTPServer`, `disturbed` in `SharedStatics` and `missed` in `MPPEncoder` are history variables: no guard reads them.

Operators that start with `\* Fault:` are deliberate faults, used by no action of a
specification.  Each replaces one modelled definition in turn, and the property named
beside it in `PROJECT.json` ("mutants") must then be violated: evidence that the property
depends on the code.

## 3. Runs

One passing run per component checks its properties together, under the fair
specification where there is a liveness property; each violation run checks one sentence
of the source that the code does not keep.

| run | instance | shows |
|---|---|---|
| `streamer` | 7 frames, queue of 5, 2 frames in MPP | queue, wakeups, pictures, statistics and shutdown, with packets that come late or not at all; refinement of `LiveStream`; queued frames are taken; once `should_stop_` is set both threads only go on to their ends, and `stop()` returns from every encoder position but one |
| `streamer_stop` | 2 frames, queue of 2, 1 frame in MPP | **violated**: `stop()` can hang, because `should_stop_` is set without the mutex (482) and the notification may fall between predicate and wait (558) |
| `server` | 3 clients, 1 of another channel, backlog 2 | at most one late connection, own descriptor only, refinement of `PortServer`, clients independent of each other, and after `should_stop_` every thread only goes on to its end, until a detached one uses the freed server |
| `server_stop` | 2 clients | **violated**: `stop()` waits for one more connection (71, 76) |
| `channel` | 2 failures, 2 packets, decoder of 2 frames, finite input | sessions, decoder choice, buffers, draining, giving up, stopping; refinement of `FrameBuffers`; every step uses something up unless a session succeeded |
| `multi` | 3 streams, 3 descriptor numbers | ports, the competition for the default port, and threads that come to `accept()` on another server's socket; each server refines `PortServer`; two streams never sleep on their own default sockets at once; all but that one come to decode or give up, unless they wait for a thread on another's socket or for an encoder that missed its wakeup |
| `multi_ports` | 2 streams | **violated**: the first stream may decode without a streamer (1789) |
| `post_process` | up to 4 candidates, 3 scores, 2 classes, 3 results | `ResultsRanked`, `KeptApart`, `DroppedForBetter` for every mixture of scores, classes and overlaps; `OnlyGoesOn`: no step of sort, suppression or selection goes round |
| `statics` | 2 threads; YUV420P of 2 and 3 columns, DRM frames of 14 with a pitch of 32 and 2 or 4 lines; 2 labels | `OwnPicture`, `LostOnlyWhenDisturbed`, `LabelsAreRight` |
| `statics_mixed` | the same | **violated**: a channel's picture may hold another channel's lines (ffmpeg.cpp:330) |
| `encoder` | 5 pictures | `ShowsThisPicture`, `ReleasedOnce`, for every failing step and every pace of MPP |
| `drm` | no constants | `HardwareComplete` and the refinement of `FrameBuffers`, for both builds, every failing step and every refused blit |

The runs check no type invariants: these are proved (`TypeCorrect` and its kin).  So are
`OneFormat`, `NeverRewinds` and `StoppedReleasesSocket`, which the refinements of
`FrameBuffers`, `LiveStream` and `PortServer` largely contain.

### Bounds, and why they are enough

* `MaxFrames = 7` against `MAX_QUEUE_SIZE = 5` (the code's value): the queue fills, drops
  and refills, with an encoder at every position.  `MaxInMpp = 2`: a packet missed once
  makes every later JPEG that of an earlier call, and a second miss fills MPP.  The
  proofs have no such bounds.
* 3 connections: one being served, one accepted late, one waiting; `Backlog = 2` is
  reached.  One connection of another channel is enough to be accepted by the wrong server.
* `MaxFailures = 2` (5 in the code): a failure, a success and a failure again can occur
  in every order before giving up; `PacketsPerSession = 2` and `DecoderDepth = 2` allow a
  packet that yields several frames, a packet that yields none, and a decoder still full.
* 3 streams: the one of the default port and two others, which are alike in the code.
  That is enough for a thread on another stream's socket while that stream decodes or is
  itself stuck, and for two such threads at once.  With a number for each stream a socket
  gets a closed number or a fresh one.

* 4 candidates give the sort two levels of recursion on either side and every pattern of
  ties, `nms` a chain of three suppressions, and the selection one box more than results.
  The proofs have no such bound.
* 2 threads and 2 sizes, one odd: the buffer grows, shrinks and grows again under the
  other thread.  14 columns are rounded up to 16 below a pitch of 32; 4 lines under a
  picture of 2 are a luma plane with padding.  The layout theorems hold for every size.
* 5 pictures: a packet missed at the first of them is late for all others, and a second
  may be missed.

### Fairness

* `MJPEGStreamer`: `WF` of the owner's and of the encoder's step.  Both are threads the
  system schedules and neither waits for anything but the mutex, the condition variable
  and the join, whose guards are in the actions.  No further frame, no stop, no spurious
  wakeup is promised, and not that MPP comes round to a frame.
* `SimpleHTTPServer`: `WF` of the owner and of the server thread, `SF` of an `accept()`
  that has a connection waiting, because `accept()` can also fail in between
  (`SrvAcceptError`) and the code then retries: failing for ever is excluded.  Nothing is
  assumed about peers, who may never connect, send or read.
* `FFmpegStreamChannel`: `WF` of the one thread.  That FFmpeg's calls return is part of
  it; that they succeed is not.  With `LiveSource = FALSE` a session's input ends.
* `MultiStream`: `WF` of spawning, of each worker outside `decode_continuous`, of each
  server thread up to its `accept()`, and of the end of the handler's `sleep(3)`.  No
  client has to connect, no encoder has to wake up by itself and no video has to end.

Liveness that rests on this: `QueueIsDrained`, `StopJoinsAwakeEncoder`, `PendingIsServed`,
`PendingFreesStop`, `StopHonoured`, `GivesUp`, `AllButOneStart`.

`PostProcess`, `SharedStatics`, `MPPEncoder` and `DrmRga` state no liveness and no fairness.

Deadlock is checked in every run but five: in `streamer_stop` the hang is the very
subject; `statics` and `statics_mixed` stop where the behaviour is undefined, `encoder`
after the destructor, and `drm` where software mode has no buffer to write to.

## 4. Proofs

TLAPS proves, for every value of the constants that satisfies the modules' assumptions:

* **Streamer** (`StreamerAssumption`: a queue of at least one frame).  `TypeCorrect`;
  `QueueCorrect`, `WakeupsCorrect`, `BoxesCorrect`, `StatisticsCorrect`, `StopCorrect`,
  `OrderCorrect`; and `Implements`: the streamer implements `LiveStream` under
  offered = frames pushed, taken = number of the encoder's `frame_data`, shown =
  `current_jpeg_`, late = frames were left behind in MPP, open until `current_jpeg_` is
  cleared.  The inductive invariant `IInv`
  adds what no single property says: who holds the mutex at each position of the encoder
  (`LockHolder`), that the encoder decided to block on an empty queue (`BlocksOnEmpty`),
  that frames are taken in queue order (`TakenInOrder`), that a queued frame owns its
  pixels (`FramesOwnPixels`), that pictures leave MPP in the order they went in and what
  is found there is this frame's unless one was left behind (`PicturesInOrder`:
  `PacketsInOrder`, `BufferIsNewest`, `GetFindsThisFrame`, `PublishInOrder`), and how far `stop()` has come (`StopProgress`).  `QueueHoldsNewest` alone is not inductive: a
  push drops the head only when it knows that nobody else is between test and pop.
* **HTTP server** (`ServerAssumption`).  `ServerTypeCorrect`, `LateCorrect`,
  `ReleaseCorrect`, `CloseCorrect`, and `PortImplements`, the refinement of `PortServer`.
  `SInv` relates the owner's position to the flags and to the descriptor's meaning
  (`OwnerProgress`), the server thread's position to both (`ServerProgress`), and says
  that a connection waits only on a held socket (`PendingIsHeld`) and that a late
  connection is the thread's last (`LateIsLast`).
* **Channel** (`ChannelAssumption`).  `ChannelTypeCorrect`, `SessionsCorrect`,
  `DecoderCorrect`, `FramesCorrect`, `DrainCorrect`, `GiveUpCorrect`, and
  `BuffersImplement`, the refinement of `FrameBuffers`.  `CInv` adds where contexts are clean
  (`SessionStartsFresh`), which decoder has been chosen (`DecoderChosen`), that hardware
  mode has its buffers (`BuffersMapped`), which image is in which buffer
  (`ImagesWritten`), when the decoder is drained (`DecoderDrained`) and that the failure
  counter is the length of the failing end of the history (`FailuresCounted`).
* **Multi-stream** (`NumStreamsAssumption`).  `MultiTypeCorrect`, `OwnPortCorrect`,
  `EndCorrect`, `StuckCorrect` and `PortsImplement`, all from `MInv`.  `SocketsInv`: a
  number that means a socket is the `server_fd_` of the one stream that holds the
  socket's port, and a port is held exactly as long as a number or a thread in `accept()`
  refers to it.  `StreamInv`: each worker's position fixes which of its two ports it may
  hold, whether its server thread runs and where that may be; as long as a server has a
  descriptor, its thread knows no other number and is on no other socket.  A step leaves
  what the other streams have as it is (`Kept`, shown once for binding, closing, and
  entering and leaving `accept()`), so that each action is looked at for its own stream
  only.  `HeldFor`: what a stream holds is its open port, the port its own thread is on,
  and those foreign threads are on; `GuestIsJoined`: such a thread is being joined.  A
  thread that sleeps on its own default socket still holds the port, so that only one
  stream can (`StuckCorrect`).
* **Post-processing** (`PostProcessAssumption`).  `RankedCorrect`, `ApartCorrect`,
  `DroppedCorrect`, from `PostInv`, which hands one phase's invariant to the next.
  `SortInv`: with the key put into the hole the index array is a permutation at every
  step, scores follow it, pending ranges are apart, and two positions in no common pending
  range are in order; each move of the partition is a swap within the present range
  (`SwapPermutes`, `SwapOrdered`).  `NmsInv`: a position that has been gone through, under
  whatever class, overlaps nobody behind it, and whoever is gone was overlapped by one no
  worse.  `SelectInv`: the results are the boxes left so far, or there is no room.
* **Software conversion and labels** (`SharedStaticsAssumption`).  `PackedLayoutAgrees`
  and `MappedLayoutAgrees` are the layout of `PixelLayout` for every size, pitch and
  format; `PicturesCorrect` follows with `PictureInv`, what an undisturbed thread has
  copied so far; `StorageCorrect` from `BufferInv`; `LabelsCorrect` from `LabelsInv`.
* **MPP encoder** (`MPPEncoderAssumption`).  `ReleaseOnceCorrect`, from
  `ObjectsInv`: while `init` runs the fields set are those of a prefix of `InitSteps`, and
  during `cleanup` a prefix of `CleanupOrder` is not set.  `PictureCorrect`, from
  `FramesInv`: MPP holds as many frames as gets came back empty, and one more in between.
* **DRM and RGA**.  `HardwareCorrect`, from `AcquiredInv`: what each step of the
  initialization has acquired.  `FormatCorrect`, from `ContentInv`: once the model's
  buffer is written, the format stays until the display's is written or both are tried
  anew.  `BuffersImplement`, the refinement of `FrameBuffers`, from both.

The layout theorems aside, each invariance proof has the same form: initial states satisfy
the invariant, each action preserves each part, the invariant implies the property.

### Refinements

| theorem | abstract module | what a step may look like from outside |
|---|---|---|
| `Implements` | `LiveStream` | offering, taking, showing, closing |
| `PortImplements` | `PortServer` | what `server_fd_` comes to mean is hidden; only start, `accept()`, close and join are seen |
| `PortsImplement` | `PortServer`, once per stream | the steps of the other streams stutter, although they change `holder` and `fdTable`, but for threads that come to the stream's socket (`Invite`) and leave it (`Leave`) |
| `BuffersImplement` (channel) | `FrameBuffers` | whole sessions are `idle`; a conversion is one step |
| `BuffersImplement` (DRM) | `FrameBuffers` | each failing ioctl, library or blit stutters until it decides something |

`ImplementPortServers` is one action formula, Init of every server and a box over all of
their steps, rather than a conjunction of one specification per stream: the two are
equivalent, and TLC checks only the first as a property.

### Progress

Liveness under fairness is out of the prover's reach, but the part of it that does not
speak of fairness is not.  These theorems say that a step uses something up, so that the
only way not to get to the end is to stop taking steps:

* `RenewalCorrect`: a step of the channel's thread makes
  <failures it tolerates, parts of the session, packets, parts of the packet, frames in
  the decoder, parts of the frame> lexicographically smaller, unless a session succeeded
  with no stop asked for, or a live input had another packet.  `LessIsWellFounded`: that
  order has no infinite descent.  Behind `StopHonoured` and `GivesUp`.
* `WindDownCorrect` (streamer, HTTP server): once `should_stop_` is set no thread takes up
  new work, wherever it was and whoever else is running; for the server until a detached
  thread uses it after it was freed.  Behind `StopJoinsAwakeEncoder`
  and `PendingFreesStop`.
* `GoesOnCorrect` and `LeftIsNatural`: each step of `post_process()` makes six natural
  numbers smaller in the same order (`LexOrder`): the phases to come, the positions in
  ranges still to be sorted and what the partition at hand has left, or the classes and
  positions of `nms` and of the selection.  An in-place quick sort with one hole that
  sorted a range again, or waited for two equal scores to change places, would not.
* `StuckCorrect`: two streams never sleep on their own default sockets at once, for any
  number of streams.  Behind `AllButOneStart`.

Only model-checked: the liveness properties themselves (`QueueIsDrained`,
`StopJoinsAwakeEncoder`, `PendingIsServed`, `PendingFreesStop`, `StopHonoured`, `GivesUp`,
`AllButOneStart`), since fairness and `ENABLED` are out of this prover's reach.  Every
other property of a passing run is stated by a theorem.

## 5. Where the code differs from its words

The violation runs above, each quoted in `PROJECT.json` under "findings": the encoder can
sleep through `stop()`; a `stop()` of the server waits for one more connection; the first
of several streams may stay without a port; and in software mode one channel's picture
may show another's lines.

Met while modelling and visible in the modules, without a run of their own:

* Client threads are detached, and nobody waits for them before the server is destroyed:
  one in `send_mjpeg_stream` then reads `should_stop_` and `mjpeg_provider_` of freed
  memory (`mjpeg_streamer.cpp:102`, 142-147; `SimpleHTTPServer`, `UseFreed`).  Until that
  happens each ends after at most one more frame (`StopWindsDown`).
* A server thread that has read `server_fd_` before `close()` may accept on another
  channel's socket that got the same number (`mjpeg_streamer.cpp:92`).  Its own worker
  then waits in the join for a client of that other channel, and the other channel's
  default port may stay bound while it decodes on its own (`MultiStream`, `Guests`,
  `StuckElsewhere`).
* `stop()` of a streamer that found its port taken joins the encoder it has just started
  (`mjpeg_streamer.cpp:465`, 494), which may miss the wakeup as any other: the worker then
  never gets to decode (`EncoderMissed`).
* What `rknn_inputs_set` and `rknn_run` return is not looked at (`ffmpeg.cpp:1545`, 1553):
  detections of an older frame may be drawn on the current one (the exception in
  `PushIsCurrent`).
* Once a packet failed to come, every later JPEG is that of an earlier call
  (`mpp_encoder.cpp:262`): the stream lags, but never goes back (`NeverRewinds`).
* `decode` never looks at `should_stop_processing`: a stop request takes effect when the
  input ends (`ffmpeg.cpp:1340`).  `StopHonoured` is checked for inputs that end, with
  `LiveSource = FALSE`.
* After "forcing software-only mode" the software path writes through the DRM buffers
  that could not be allocated (`ffmpeg.cpp:400`): `pc = "crashed"`.
* The signal handler of the multi-stream program stops the channels of a vector nobody
  fills (`multi_stream_main.cpp:41`).
* Labels that could not be loaded count as loaded (`yolov5s_postprocess.cpp:257`), and the
  first detection then copies from NULL: `lost = "label"`.
* The chroma of a DRM frame whose luma plane has more lines than the picture (1088 for
  1080) is read from the luma's last lines (`ffmpeg.cpp:737`): the exception in
  `OwnPicture`.  The rounding up of odd sizes reads one column beyond the decoder's
  picture (`ffmpeg.cpp:1510`), inside FFmpeg's padded lines.
* When `mpp_init` or `mpp_enc_cfg_init` fails the context is destroyed and the field kept,
  so that the destructor destroys it again (`mpp_encoder.cpp:80`): the exception in
  `ReleasedOnce`.

## 6. Not modelled

* The text of HTTP pages, logging, the display window, audio packets (their context is
  opened and released, their packets are skipped), colour arithmetic, and the
  floating-point decoding of boxes from tensors: data no property tells apart.
* Memory and devices that are leaked rather than misused: refused packets, a session's
  `AVFrame` and `Mat`, DRM buffers and the NPU context of a channel that ends.
* `main.cpp`: one channel and a handler whose only effect on state is `stop_processing`,
  which `FFmpegStreamChannel` has.
* What nobody calls: the conversions to RGB and those without strides, the blits other
  than `rknn_img_resize_phy_to_phy_stride`, `rknn_drm_buf_destroy`, `rknn_rga_deinit`,
  `deinitPostProcess`, `encode_frame_raw`.
* A streamer and its HTTP server composed, with viewers reading the JPEG while both stop,
  is the next module worth writing: today `LiveStream` is the interface between the two.
  An abstract queue of pictures for `MPPEncoder`, and a `SharedStatics` that implements
  `FrameBuffers` thread by thread, are the refinements still to be stated.

To check: `tlc -config <run>.cfg <Module>.tla` for each row of section 3, and
`tlapm <Module>Proofs.tla`.
