---------------------------- MODULE DrmRgaProofs ----------------------------
(***************************************************************************)
(* Proofs about DrmRga.  HardwareComplete follows from AcquiredInv, which  *)
(* says after each step of init_rga_drm() what it has acquired so far;     *)
(* OneFormat from ContentInv, which follows a frame through the attempts.  *)
(* Together they give the refinement of FrameBuffers.                      *)
(***************************************************************************)
EXTENDS DrmRga, TLAPS

Decoding == {"decode", "model", "display", "software", "infer"}

\* Buffer 1 is complete before buffer 2 is begun, and whoever gave up stays in
\* software-only mode.
AcquiredInv ==
    /\ buffer \in Buffers
    /\ buf_ptr \subseteq buf_fd /\ buf_ptr \subseteq prime /\ buf_ptr \subseteq dumb
    /\ buf_ptr # {} => card /\ libdrm
    /\ pc = "open" => buffer = 1 /\ buf_ptr = {} /\ buf_fd = {}
    /\ pc = "libdrm" => buffer = 1 /\ buf_ptr = {} /\ buf_fd = {} /\ card
    /\ pc \in {"create", "prime", "map"} =>
          /\ card /\ libdrm
          /\ buf_ptr = IF buffer = 1 THEN {} ELSE {1}
          /\ buf_fd = IF pc = "map" THEN buf_ptr \cup {buffer} ELSE buf_ptr
    /\ pc = "map" => buffer \in dumb \cap prime
    /\ pc = "prime" => buffer \in dumb
    /\ pc = "rga" => buf_ptr = Buffers
    /\ pc \in Decoding /\ ~use_software_only =>
          rga = "ready" /\ buf_ptr = Buffers /\ buf_fd = Buffers /\ ENABLE_RGA_HARDWARE
    /\ buf_fd \subseteq Buffers
    /\ pc \in {"model", "display"} => ~use_software_only
    /\ ~ENABLE_RGA_HARDWARE => use_software_only

\* Once RGA has written the model's buffer, the formats do not change until the
\* display's is written or the model's is tried anew.
ContentInv ==
    /\ i \in 1..3 /\ color_fmt \in 1..2
    /\ content = [b \in Buffers |-> content[b]]
    /\ pc = "display" => content[1][1] = YuvFormats[i]
    /\ OneFormat

-----------------------------------------------------------------------------

\* Six pairs of formats.
LEMMA Formats == Len(YuvFormats) = 3 /\ Len(ColorFormats) = 2
BY DEF YuvFormats, ColorFormats

LEMMA InitAcquired == Init => AcquiredInv
BY DEF Init, AcquiredInv, Buffers, Decoding

LEMMA NextAcquired == AcquiredInv /\ [Next]_vars => AcquiredInv'
<1> SUFFICES ASSUME AcquiredInv, [Next]_vars
             PROVE AcquiredInv'
  OBVIOUS
<1>1. CASE OpenCard
  BY <1>1 DEF AcquiredInv, OpenCard, GiveUp, Decoding
<1>2. CASE LoadLibdrm
  BY <1>2 DEF AcquiredInv, LoadLibdrm, GiveUp, Decoding
<1>3. CASE CreateDumb
  BY <1>3 DEF AcquiredInv, CreateDumb, GiveUp, Decoding
<1>4. CASE ExportPrime
  BY <1>4 DEF AcquiredInv, ExportPrime, GiveUp, Decoding, Buffers
<1>5. CASE Map
  <2>1. buffer \notin buf_ptr /\ buf_fd = buf_ptr \cup {buffer} /\ buffer \in dumb \cap prime
    BY <1>5 DEF AcquiredInv, Map, Buffers
  <2>2. CASE pc' = "decode"
    <3>1. /\ dumb' = dumb \ {buffer} /\ use_software_only'
          /\ UNCHANGED <<ENABLE_RGA_HARDWARE, buffer, card, libdrm, buf_fd, buf_ptr, prime>>
      BY <1>5, <2>2 DEF Map, GiveUp, AfterMap
    <3>2. buf_ptr' \subseteq dumb'
      BY <2>1, <3>1 DEF AcquiredInv
    <3>3. QED
      BY <2>2, <3>1, <3>2 DEF AcquiredInv
  <2>3. CASE pc' # "decode"
    <3>1. /\ buf_ptr' = buf_ptr \cup {buffer} /\ buffer' = 2 /\ pc = "map" /\ pc' = AfterMap
          /\ UNCHANGED <<ENABLE_RGA_HARDWARE, card, libdrm, buf_fd, dumb, prime, use_software_only>>
      BY <1>5, <2>3 DEF Map, GiveUp
    <3>2. CASE buffer = 1
      <4>1. pc' = "create" /\ buf_ptr' = {1} /\ buf_fd' = {1} /\ card /\ libdrm
        BY <2>1, <3>1, <3>2 DEF AcquiredInv, AfterMap
      <4>2. QED
        BY <2>1, <3>1, <3>2, <4>1 DEF AcquiredInv, Decoding, Buffers
    <3>3. CASE buffer = 2
      <4>1. pc' = "rga" /\ buf_ptr' = Buffers /\ buf_fd' = Buffers /\ card /\ libdrm
        BY <2>1, <3>1, <3>3 DEF AcquiredInv, AfterMap, Buffers
      <4>2. QED
        BY <2>1, <3>1, <3>3, <4>1 DEF AcquiredInv, Decoding, Buffers
    <3>4. QED
      BY <3>2, <3>3 DEF AcquiredInv, Buffers
  <2>4. QED
    BY <2>2, <2>3
<1>6. CASE LoadRga
  BY <1>6 DEF AcquiredInv, LoadRga, GiveUp, Decoding, Buffers, drm
<1>7. CASE Frame \/ Software \/ Infer
  BY <1>7 DEF AcquiredInv, Frame, Software, Infer, Decoding, drm
<1>8. CASE BlitModel \/ BlitDisplay
  BY <1>8 DEF AcquiredInv, BlitModel, BlitDisplay, NextPair, Decoding, drm
<1>9. CASE UNCHANGED vars
  BY <1>9 DEF AcquiredInv, vars, drm
<1> QED
  BY <1>1, <1>2, <1>3, <1>4, <1>5, <1>6, <1>7, <1>8, <1>9 DEF Next

\* RGA is called only with everything it needs, whichever step of
\* init_rga_drm() may have failed, and no pointer outlives its memory.
THEOREM HardwareCorrect == Spec => []HardwareComplete
<1>1. AcquiredInv => HardwareComplete
  BY DEF AcquiredInv, HardwareComplete, Decoding
<1> QED
  BY <1>1, InitAcquired, NextAcquired, PTL DEF Spec

-----------------------------------------------------------------------------

LEMMA InitContent == Init => ContentInv
BY DEF Init, ContentInv, OneFormat, Buffers

\* The next pair is one of the six, or there is none left.
LEMMA PairsInv ==
    ASSUME i \in 1..3, color_fmt \in 1..2, NextPair
    PROVE  i' \in 1..3 /\ color_fmt' \in 1..2 /\ pc' \in {"model", "software"}
BY Formats DEF NextPair, trial

LEMMA NextContent == ContentInv /\ [Next]_vars => ContentInv'
<1> SUFFICES ASSUME ContentInv, [Next]_vars
             PROVE ContentInv'
  OBVIOUS
<1>1. CASE OpenCard \/ LoadLibdrm \/ CreateDumb \/ ExportPrime \/ Map \/ LoadRga
  <2>1. UNCHANGED <<i, color_fmt, content>> /\ pc' \notin {"display", "infer"}
    BY <1>1 DEF OpenCard, LoadLibdrm, CreateDumb, ExportPrime, Map, LoadRga, GiveUp, AfterMap, trial
  <2>2. QED
    BY <2>1 DEF ContentInv, OneFormat
<1>2. CASE Frame
  BY <1>2 DEF ContentInv, OneFormat, Frame
<1>3. CASE Software
  <2>1. /\ pc' = "infer" /\ UNCHANGED <<i, color_fmt>>
        /\ content' = [b \in Buffers |-> <<"software", "BGR888">>]
    BY <1>3 DEF Software, trial
  <2>2. \A b \in Buffers : content'[b] = <<"software", "BGR888">>
    BY <2>1
  <2>3. content'[1][1] = "software" /\ content'[2][1] = "software" /\ content'[2][2] = "BGR888"
    BY <2>2 DEF Buffers
  <2>4. content' = [b \in Buffers |-> content'[b]]
    BY <2>1, <2>2
  <2>5. QED
    BY <2>1, <2>3, <2>4 DEF ContentInv, OneFormat
<1>4. CASE BlitModel
  <2>1. CASE NextPair /\ UNCHANGED content
    BY <2>1, PairsInv DEF ContentInv, OneFormat
  <2>2. CASE content' = [content EXCEPT ![1] = <<YuvFormats[i], ColorFormats[color_fmt]>>]
             /\ pc' = "display" /\ UNCHANGED trial
    BY <2>2, Formats DEF ContentInv, OneFormat, trial, Buffers
  <2>3. QED
    BY <1>4, <2>1, <2>2 DEF BlitModel
<1>5. CASE BlitDisplay
  <2>1. CASE NextPair /\ UNCHANGED content
    BY <2>1, PairsInv DEF ContentInv, OneFormat
  <2>2. CASE content' = [content EXCEPT ![2] = <<YuvFormats[i], "BGR888">>]
             /\ pc' = "infer" /\ UNCHANGED trial
    <3>1. content[1][1] = YuvFormats[i] /\ content = [b \in Buffers |-> content[b]]
      BY <1>5 DEF ContentInv, BlitDisplay
    <3>2. /\ content'[1] = content[1] /\ content'[2] = <<YuvFormats[i], "BGR888">>
          /\ content' = [b \in Buffers |-> content'[b]]
      <4> DEFINE e == <<YuvFormats[i], "BGR888">>
      <4> HIDE DEF e
      <4>1. content' = [content EXCEPT ![2] = e]
        BY <2>2 DEF e
      <4>2. content' = [b \in Buffers |-> IF b = 2 THEN e ELSE content[b]]
        BY <3>1, <4>1
      <4>3. content'[1] = content[1] /\ content'[2] = e
        BY <4>2 DEF Buffers
      <4>4. content' = [b \in Buffers |-> content'[b]]
        BY <4>2
      <4>5. QED
        BY <4>3, <4>4 DEF e
    <3>3. content'[1][1] = content'[2][1] /\ content'[2][2] = "BGR888"
      BY <3>1, <3>2
    <3>4. QED
      BY <2>2, <3>2, <3>3 DEF ContentInv, OneFormat, trial
  <2>3. QED
    BY <1>5, <2>1, <2>2 DEF BlitDisplay
<1>6. CASE Infer \/ UNCHANGED vars
  BY <1>6 DEF ContentInv, OneFormat, Infer, vars, trial
<1> QED
  BY <1>1, <1>2, <1>3, <1>4, <1>5, <1>6 DEF Next

\* Whatever RGA refused, the model's and the display's picture are of one
\* format of the same frame.
THEOREM FormatCorrect == Spec => []OneFormat
<1>1. ContentInv => OneFormat
  BY DEF ContentInv
<1> QED
  BY <1>1, InitContent, NextContent, PTL DEF Spec

-----------------------------------------------------------------------------
(* The refinement of FrameBuffers.                                         *)

Setup == {"open", "libdrm", "create", "prime", "map", "rga"}

LEMMA Phases ==
    /\ pc \in Setup => Phase = "setup"
    /\ pc = "decode" => Phase = "idle"
    /\ pc \in {"model", "display"} => Phase = "hardware"
    /\ pc = "software" => Phase = "software"
    /\ pc = "infer" /\ OneFormat => Phase = "shown"
BY DEF Setup, Phase

LEMMA PhasesNext ==
    /\ pc' \in Setup => Phase' = "setup"
    /\ pc' = "decode" => Phase' = "idle"
    /\ pc' \in {"model", "display"} => Phase' = "hardware"
    /\ pc' = "software" => Phase' = "software"
    /\ pc' = "infer" /\ OneFormat' => Phase' = "shown"
BY DEF Setup, Phase

LEMMA InitBuffers == Init => FB!Init
BY Phases DEF Init, Setup, FB!Init

\* The steps of init_rga_drm() are the one step SetUp or stutter.
LEMMA SetupBuffers ==
    ASSUME AcquiredInv',
           OpenCard \/ LoadLibdrm \/ CreateDumb \/ ExportPrime \/ Map \/ LoadRga
    PROVE  FB!SetUp \/ UNCHANGED FB!vars
<1>1. pc \in Setup /\ pc' \in Setup \cup {"decode"}
  BY DEF OpenCard, LoadLibdrm, CreateDumb, ExportPrime, Map, LoadRga, GiveUp, AfterMap, Setup
<1>2. Phase = "setup"
  BY <1>1, Phases
<1>3. CASE pc' \in Setup
  <2>1. Phase' = "setup"
    BY <1>3, PhasesNext
  <2> QED
    BY <1>2, <2>1 DEF FB!vars
<1>4. CASE pc' = "decode"
  <2>1. Phase' = "idle"
    BY <1>4, PhasesNext
  <2>2. buf_ptr' \subseteq Buffers /\ (~use_software_only' => buf_ptr' = Buffers)
    BY <1>4 DEF AcquiredInv, Decoding
  <2> QED
    BY <1>2, <2>1, <2>2 DEF FB!SetUp
<1> QED
  BY <1>1, <1>3, <1>4

\* A frame goes from phase to phase, and the attempts of one phase stutter.
LEMMA FrameBuffersStep ==
    ASSUME AcquiredInv, ContentInv, ContentInv',
           Frame \/ Software \/ BlitModel \/ BlitDisplay \/ Infer
    PROVE  FB!Next \/ UNCHANGED FB!vars
<1>1. UNCHANGED <<buf_ptr, use_software_only>>
  BY DEF Frame, Software, BlitModel, BlitDisplay, Infer, drm
<1>2. OneFormat /\ OneFormat'
  BY DEF ContentInv
<1>3. CASE Frame
  <2>1. Phase = "idle" /\ pc' = IF use_software_only THEN "software" ELSE "model"
    BY <1>3, Phases DEF Frame
  <2>2. CASE use_software_only
    <3>1. Phase' = "software"
      BY <2>1, <2>2, PhasesNext
    <3>2. FB!BySoftware
      BY <1>1, <2>1, <3>1 DEF FB!BySoftware
    <3> QED
      BY <3>2 DEF FB!Next
  <2>3. CASE ~use_software_only
    <3>1. Phase' = "hardware"
      BY <2>1, <2>3, PhasesNext
    <3>2. FB!ByHardware
      BY <1>1, <2>1, <2>3, <3>1 DEF FB!ByHardware
    <3> QED
      BY <3>2 DEF FB!Next
  <2> QED
    BY <2>2, <2>3
<1>4. CASE Software
  <2>1. Phase = "software" /\ Phase' = "shown" /\ buf_ptr = Buffers
    BY <1>2, <1>4, Phases, PhasesNext DEF Software
  <2>2. FB!Show
    BY <1>1, <2>1 DEF FB!Show
  <2> QED
    BY <2>2 DEF FB!Next
<1>5. CASE BlitModel \/ BlitDisplay
  <2>1. /\ Phase = "hardware"
        /\ buf_ptr = Buffers
    BY <1>5, Phases DEF BlitModel, BlitDisplay, AcquiredInv, Decoding
  <2>2. pc' \in {"model", "display", "software", "infer"}
    BY <1>5, PairsInv DEF BlitModel, BlitDisplay, ContentInv
  <2>3. CASE pc' \in {"model", "display"}
    <3>1. Phase' = "hardware"
      BY <2>3, PhasesNext
    <3> QED
      BY <1>1, <2>1, <3>1 DEF FB!vars
  <2>4. CASE pc' = "software"
    <3>1. Phase' = "software"
      BY <2>4, PhasesNext
    <3>2. FB!BySoftware
      BY <1>1, <2>1, <3>1 DEF FB!BySoftware
    <3> QED
      BY <3>2 DEF FB!Next
  <2>5. CASE pc' = "infer"
    <3>1. Phase' = "shown"
      BY <1>2, <2>5, PhasesNext
    <3>2. FB!Show
      BY <1>1, <2>1, <3>1 DEF FB!Show
    <3> QED
      BY <3>2 DEF FB!Next
  <2> QED
    BY <2>2, <2>3, <2>4, <2>5
<1>6. CASE Infer
  <2>1. Phase = "shown" /\ Phase' = "idle"
    BY <1>2, <1>6, Phases, PhasesNext DEF Infer
  <2>2. FB!Done
    BY <1>1, <2>1 DEF FB!Done
  <2> QED
    BY <2>2 DEF FB!Next
<1> QED
  BY <1>3, <1>4, <1>5, <1>6

LEMMA SameBuffers == ASSUME UNCHANGED vars PROVE UNCHANGED FB!vars
<1>1. UNCHANGED <<pc, buf_ptr, use_software_only, content>>
  BY DEF vars, drm
<1>2. Phase' = Phase
  BY <1>1 DEF Phase, OneFormat
<1> QED
  BY <1>1, <1>2 DEF FB!vars

\* The steps of drm_func.cpp and rga_func.cpp, each of which may fail, add up
\* to what the channel relies on: process_frame_hardware() runs only with both
\* buffers, and no picture is shown that only one of them holds.
THEOREM BuffersImplement == Spec => ImplementsFrameBuffers
<1>1. AcquiredInv /\ AcquiredInv' /\ ContentInv /\ ContentInv' /\ [Next]_vars
          => [FB!Next]_(FB!vars)
  BY SetupBuffers, FrameBuffersStep, SameBuffers DEF Next, FB!Next
<1> QED
  BY <1>1, InitBuffers, InitAcquired, NextAcquired, InitContent, NextContent, PTL
     DEF Spec, ImplementsFrameBuffers, FB!Spec
=============================================================================
