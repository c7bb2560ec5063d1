------------------------------- MODULE DrmRga -------------------------------
(***************************************************************************)
(* drm_func.cpp, rga_func.cpp and their use in ffmpeg.cpp: init_rga_drm()  *)
(* opens the DRM card, allocates a buffer for the model and one for the    *)
(* display and loads RGA, any step of which may fail;                      *)
(* process_frame_hardware() then has RGA convert a frame into both, trying *)
(* one pair of formats after another.                                      *)
(*                                                                         *)
(* Module FFmpegStreamChannel takes init_rga_drm() as one step, and only   *)
(* whether a buffer holds the frame; here are the steps.  Both implement   *)
(* FrameBuffers.  The kernel, the two libraries and RGA are external: they *)
(* succeed or fail.                                                        *)
(***************************************************************************)
EXTENDS Integers, Sequences

\* yuv_formats and color_formats of process_frame_hardware, in their order.
YuvFormats == <<"NV12", "YUV420P", "NV21">>
ColorFormats == <<"BGR888", "RGB888">>

Buffers == {1, 2}   \* drm_buf_for_rga1, of the model, and drm_buf_for_rga2

VARIABLES
    ENABLE_RGA_HARDWARE,    \* how the program was built
    pc,
    buffer,         \* the buffer being allocated
    card,           \* whether the card's descriptor is open; nobody keeps it
    libdrm,         \* whether drm_handle and io_func are set
    buf_fd,         \* buffers whose drm_buf_fd is not -1
    buf_ptr,        \* buffers whose drm_buf_ptr is not NULL
    dumb, prime,    \* dumb buffers and prime descriptors the kernel holds
    rga,            \* rga_ctx: "null", "handle", "ready"
    use_software_only,
    i, color_fmt,   \* positions in YuvFormats and ColorFormats
    content         \* how each buffer was written last

drm == <<card, libdrm, buf_fd, buf_ptr, dumb, prime>>
trial == <<i, color_fmt>>
vars == <<ENABLE_RGA_HARDWARE, pc, buffer, drm, rga, use_software_only, trial, content>>

Empty == <<"none", "none">>

Init ==
    /\ ENABLE_RGA_HARDWARE \in BOOLEAN
    /\ pc = "open"
    /\ buffer = 1
    /\ card = FALSE
    /\ libdrm = FALSE
    /\ buf_fd = {}
    /\ buf_ptr = {}
    /\ dumb = {}
    /\ prime = {}
    /\ rga = "null"
    /\ use_software_only = ~ENABLE_RGA_HARDWARE
    /\ i = 1
    /\ color_fmt = 1
    /\ content = [b \in Buffers |-> Empty]

-----------------------------------------------------------------------------
(* init_rga_drm().  Whatever fails, the channel is left without hardware.  *)

GiveUp ==
    /\ pc' = "decode"
    /\ use_software_only' = TRUE

\* open("/dev/dri/card0").
OpenCard ==
    /\ pc = "open"
    /\ \/ card' = TRUE /\ pc' = "libdrm" /\ UNCHANGED use_software_only
       \/ GiveUp /\ UNCHANGED card
    /\ UNCHANGED <<ENABLE_RGA_HARDWARE, buffer, libdrm, buf_fd, buf_ptr, dumb, prime, rga, trial, content>>

\* dlopen and dlsym; if either fails the library is unloaded and the card closed.
LoadLibdrm ==
    /\ pc = "libdrm"
    /\ \/ libdrm' = TRUE /\ pc' = "create" /\ UNCHANGED <<card, use_software_only>>
       \/ card' = FALSE /\ GiveUp /\ UNCHANGED libdrm
    /\ UNCHANGED <<ENABLE_RGA_HARDWARE, buffer, buf_fd, buf_ptr, dumb, prime, rga, trial, content>>

\* rknn_drm_buf_alloc: DRM_IOCTL_MODE_CREATE_DUMB.
CreateDumb ==
    /\ pc = "create"
    /\ \/ dumb' = dumb \cup {buffer} /\ pc' = "prime" /\ UNCHANGED use_software_only
       \/ GiveUp /\ UNCHANGED dumb
    /\ UNCHANGED <<ENABLE_RGA_HARDWARE, buffer, card, libdrm, buf_fd, buf_ptr, prime, rga, trial, content>>

\* DRM_IOCTL_PRIME_HANDLE_TO_FD; the dumb buffer stays when it fails.
ExportPrime ==
    /\ pc = "prime"
    /\ \/ /\ prime' = prime \cup {buffer}
          /\ buf_fd' = buf_fd \cup {buffer}
          /\ pc' = "map"
          /\ UNCHANGED use_software_only
       \/ GiveUp /\ UNCHANGED <<prime, buf_fd>>
    /\ UNCHANGED <<ENABLE_RGA_HARDWARE, buffer, card, libdrm, buf_ptr, dumb, rga, trial, content>>

AfterMap == IF buffer = 1 THEN "create" ELSE "rga"

\* Fault: the result of mmap is not compared with MAP_FAILED.
MapUnchecked ==
    /\ pc = "map"
    /\ buf_ptr' = buf_ptr \cup {buffer}
    /\ buffer' = 2
    /\ pc' = AfterMap
    /\ dumb' \in {dumb, dumb \ {buffer}}
    /\ UNCHANGED <<ENABLE_RGA_HARDWARE, card, libdrm, buf_fd, prime, rga, use_software_only, trial, content>>

\* DRM_IOCTL_MODE_MAP_DUMB and mmap; the dumb buffer is destroyed when one
\* fails, and the prime descriptor stays.
Map ==
    /\ pc = "map"
    /\ \/ /\ buf_ptr' = buf_ptr \cup {buffer}
          /\ buffer' = 2
          /\ pc' = AfterMap
          /\ UNCHANGED <<dumb, use_software_only>>
       \/ /\ dumb' = dumb \ {buffer}
          /\ GiveUp
          /\ UNCHANGED <<buf_ptr, buffer>>
    /\ UNCHANGED <<ENABLE_RGA_HARDWARE, card, libdrm, buf_fd, prime, rga, trial, content>>

\* rga_ctx is cleared and, unless the build has no RGA, filled: the library,
\* its three functions, and the call of the first.
LoadRga ==
    /\ pc = "rga"
    /\ \/ /\ ENABLE_RGA_HARDWARE
          /\ rga' = "ready"
          /\ pc' = "decode"
          /\ UNCHANGED use_software_only
       \/ /\ ENABLE_RGA_HARDWARE
          /\ rga' \in {"null", "handle"}
          /\ GiveUp
       \/ /\ ~ENABLE_RGA_HARDWARE
          /\ GiveUp
          /\ UNCHANGED rga
    /\ UNCHANGED <<ENABLE_RGA_HARDWARE, buffer, drm, trial, content>>

-----------------------------------------------------------------------------
(* A frame.                                                                *)

\* decode() has a frame in a DRM buffer.
Frame ==
    /\ pc = "decode"
    /\ i' = 1
    /\ color_fmt' = 1
    /\ pc' = IF use_software_only THEN "software" ELSE "model"
    /\ UNCHANGED <<ENABLE_RGA_HARDWARE, buffer, drm, rga, use_software_only, content>>

\* process_frame_software_fallback, if there is anything to write to; without,
\* the channel ends here (FFmpegStreamChannel).
Software ==
    /\ pc = "software"
    /\ buf_ptr = Buffers
    /\ content' = [b \in Buffers |-> <<"software", "BGR888">>]
    /\ pc' = "infer"
    /\ UNCHANGED <<ENABLE_RGA_HARDWARE, buffer, drm, rga, use_software_only, trial>>

\* The pair of formats after a failure, and the fallback after the last.
NextPair ==
    IF color_fmt < Len(ColorFormats)
    THEN i' = i /\ color_fmt' = color_fmt + 1 /\ pc' = "model"
    ELSE IF i < Len(YuvFormats)
    THEN i' = i + 1 /\ color_fmt' = 1 /\ pc' = "model"
    ELSE pc' = "software" /\ UNCHANGED trial

\* RGA writes the model's buffer, or refuses.
BlitModel ==
    /\ pc = "model"
    /\ \/ /\ content' = [content EXCEPT ![1] = <<YuvFormats[i], ColorFormats[color_fmt]>>]
          /\ pc' = "display"
          /\ UNCHANGED trial
       \/ NextPair /\ UNCHANGED content
    /\ UNCHANGED <<ENABLE_RGA_HARDWARE, buffer, drm, rga, use_software_only>>

\* Fault: a display conversion that RGA refused is tried in the next format
\* alone.
BlitDisplayAgain ==
    /\ pc = "display"
    /\ \/ /\ content' = [content EXCEPT ![2] = <<YuvFormats[i], "BGR888">>]
          /\ pc' = "infer"
          /\ UNCHANGED trial
       \/ /\ i < Len(YuvFormats)
          /\ i' = i + 1
          /\ UNCHANGED <<color_fmt, content, pc>>
    /\ UNCHANGED <<ENABLE_RGA_HARDWARE, buffer, drm, rga, use_software_only>>

\* RGA writes the display's buffer from the same format, always as BGR888.
BlitDisplay ==
    /\ pc = "display"
    /\ \/ /\ content' = [content EXCEPT ![2] = <<YuvFormats[i], "BGR888">>]
          /\ pc' = "infer"
          /\ UNCHANGED trial
       \/ NextPair /\ UNCHANGED content
    /\ UNCHANGED <<ENABLE_RGA_HARDWARE, buffer, drm, rga, use_software_only>>

\* Inference and the push of the picture.
Infer ==
    /\ pc = "infer"
    /\ pc' = "decode"
    /\ UNCHANGED <<ENABLE_RGA_HARDWARE, buffer, drm, rga, use_software_only, trial, content>>

Next ==
    \/ OpenCard \/ LoadLibdrm \/ CreateDumb \/ ExportPrime \/ Map \/ LoadRga
    \/ Frame \/ Software \/ BlitModel \/ BlitDisplay \/ Infer

Spec == Init /\ [][Next]_vars

-----------------------------------------------------------------------------
(* Properties.                                                             *)

\* RGA is called only when everything it relies on is there, whichever of the
\* eight steps of the initialisation may have failed: its functions, and behind
\* both buffers a descriptor, a mapping and memory that was not given back.  No
\* pointer to a buffer outlives its memory in software-only mode either.
HardwareComplete ==
    /\ pc \in {"model", "display"} =>
          rga = "ready" /\ buf_fd = Buffers /\ buf_ptr = Buffers /\ ENABLE_RGA_HARDWARE
    /\ buf_ptr \subseteq dumb \cap prime \cap buf_fd
    /\ buf_ptr # {} => card /\ libdrm

\* The model and the display are shown one frame in one way: whichever attempts
\* RGA refused, in the end both buffers were written from the same format, the
\* display's as OpenCV expects it.
OneFormat ==
    pc = "infer" => content[1][1] = content[2][1] /\ content[2][2] = "BGR888"

\* The many steps implement those of FrameBuffers: whichever of them failed,
\* hardware mode means both buffers, and no picture is shown of which the two
\* buffers were written in different ways.
Phase ==
    CASE pc \in {"open", "libdrm", "create", "prime", "map", "rga"} -> "setup"
      [] pc = "decode" -> "idle"
      [] pc \in {"model", "display"} -> "hardware"
      [] pc = "software" -> "software"
      [] pc = "infer" -> IF OneFormat THEN "shown" ELSE "torn"

FB ==
    INSTANCE FrameBuffers WITH
        phase    <- Phase,
        hardware <- Phase # "setup" /\ ~use_software_only,
        mapped   <- IF Phase = "setup" THEN {} ELSE buf_ptr

ImplementsFrameBuffers == FB!Spec
=============================================================================
