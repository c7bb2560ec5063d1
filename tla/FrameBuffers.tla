---------------------------- MODULE FrameBuffers ----------------------------
(***************************************************************************)
(* What a channel does with its DRM buffers, one for the model and one for *)
(* the display, as whoever uses the pictures in them sees it.  Setting up  *)
(* is one step that leaves some buffers mapped, all of them if the         *)
(* hardware may be used; the hardware may be given up between frames, and  *)
(* never comes back; each frame goes through the hardware, the software or *)
(* first the one and then the other, and is shown from all the buffers or  *)
(* not at all.                                                             *)
(*                                                                         *)
(* DrmRga implements this step by step, FFmpegStreamChannel frame by       *)
(* frame: that the channel takes the setup and a conversion each as one    *)
(* step loses nothing of what is seen here.                                *)
(***************************************************************************)
CONSTANT Buffers

VARIABLES phase,      \* "setup", "idle", "hardware", "software", "shown", "crashed"
          hardware,   \* frames may go through the hardware
          mapped      \* the buffers that are mapped

vars == <<phase, hardware, mapped>>

Init ==
    /\ phase = "setup"
    /\ hardware = FALSE
    /\ mapped = {}

SetUp ==
    /\ phase = "setup"
    /\ phase' = "idle"
    /\ hardware' \in BOOLEAN
    /\ mapped' \in SUBSET Buffers
    /\ hardware' => mapped' = Buffers

LoseHardware ==
    /\ phase = "idle"
    /\ hardware
    /\ hardware' = FALSE
    /\ UNCHANGED <<phase, mapped>>

ByHardware ==
    /\ phase = "idle"
    /\ hardware
    /\ phase' = "hardware"
    /\ UNCHANGED <<hardware, mapped>>

\* At once, or because the hardware refused the frame.
BySoftware ==
    /\ phase \in {"idle", "hardware"}
    /\ phase' = "software"
    /\ UNCHANGED <<hardware, mapped>>

\* All the buffers hold the frame, and the pictures fit each other.
Show ==
    /\ phase \in {"hardware", "software"}
    /\ mapped = Buffers
    /\ phase' = "shown"
    /\ UNCHANGED <<hardware, mapped>>

\* The software cannot convert the frame.
Refuse ==
    /\ phase = "software"
    /\ phase' = "idle"
    /\ UNCHANGED <<hardware, mapped>>

Done ==
    /\ phase = "shown"
    /\ phase' = "idle"
    /\ UNCHANGED <<hardware, mapped>>

\* The program ends for reasons of its own, or writes to what is not mapped;
\* the hardware never does.
Crash ==
    /\ \/ phase \in {"idle", "shown"}
       \/ phase = "software" /\ mapped # Buffers
    /\ phase' = "crashed"
    /\ UNCHANGED <<hardware, mapped>>

Next ==
    \/ SetUp \/ LoseHardware \/ ByHardware \/ BySoftware
    \/ Show \/ Refuse \/ Done \/ Crash

Spec == Init /\ [][Next]_vars
=============================================================================
