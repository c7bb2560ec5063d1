---------------------------- MODULE SharedStatics ----------------------------
(***************************************************************************)
(* The two function-level statics that the threads of all channels share   *)
(* without a lock: yuv_buffer of process_frame_software_fallback()         *)
(* (ffmpeg.cpp) and the label table of post_process()                      *)
(* (yolov5s_postprocess.cpp).  Each channel's thread takes a frame, packs  *)
(* it into yuv_buffer if it is YUV420P or maps it if it is DRM_PRIME,      *)
(* converts it for the model and for the display, makes sure the labels    *)
(* are loaded and reads one for a detection.                               *)
(*                                                                         *)
(* A sample stands for its byte: <<channel, plane, column, line>>.  A      *)
(* vector that grows moves, so its capacity tells one storage from         *)
(* another; a pointer into it is the capacity at the time it was taken.    *)
(* Using a pointer into storage that is gone, or the NULL that stands for  *)
(* a label, has no defined outcome: the model then stops, with "lost"      *)
(* naming the cause.                                                       *)
(***************************************************************************)
EXTENDS PixelLayout, FiniteSets, TLC

CONSTANTS
    Channels,           \* the threads
    Widths, DrmWidths,  \* of the YUV420P and of the DRM_PRIME frames
    Heights,            \* of both
    Pitches, Rows,      \* line length and lines of the luma plane of DRM frames
    OBJ_CLASS_NUM       \* classes, and lines of the label file, 80 in the code

ASSUME SharedStaticsAssumption ==
    /\ Widths \cup DrmWidths \cup Heights \cup Pitches \cup Rows \subseteq Nat \ {0}
    /\ OBJ_CLASS_NUM \in Nat \ {0}

\* FFmpeg hands out chroma for an even number of luma lines.
Frames ==
    [format : {"YUV420P"}, w : Widths, h : Heights, pitch : {0}, rows : {0}]
        \cup {f \in [format : {"DRM_PRIME"}, w : DrmWidths, h : Heights, pitch : Pitches, rows : Rows] :
                 f.pitch >= Width(f) /\ f.rows >= Height(f) /\ f.rows % 2 = 0}

Null == -1
Zero == <<"zero">>
Outside == <<"outside">>
NoFrame == [format |-> "none"]

VARIABLES
    pc,             \* where each thread is
    frame,          \* the frame it converts
    yuv_buffer,     \* [capacity, size, bytes]
    plane, row,     \* the line a thread copies next
    pointer,        \* its pointer into yuv_buffer, or into the mapped object
    picture,        \* what its pictures for the model and the display are made of
    init,           \* whether the labels are loaded, -1 or 0
    labels,         \* the table: the line of the file at each index, or Null
    at,             \* readLines: the index a thread stores at next, in its only load
    id, name,       \* the class it looks up and the label it finds
    lost,           \* "no", or what was used that is not there
    \* history
    disturbed       \* another thread was in yuv_buffer at the same time

converting == <<frame, yuv_buffer, plane, row, pointer, picture, disturbed>>
labelling == <<init, labels, at, id, name>>
vars == <<pc, converting, labelling, lost>>

Classes == 0..OBJ_CLASS_NUM - 1

\* A pixel's sample is the frame's own, another channel's or some other byte.
Origins == {"own", "foreign", "wrong"}

Init ==
    /\ pc = [c \in Channels |-> "decode"]
    /\ frame = [c \in Channels |-> NoFrame]
    /\ yuv_buffer = [capacity |-> 0, size |-> 0, bytes |-> <<>>]
    /\ plane = [c \in Channels |-> "Y"]
    /\ row = [c \in Channels |-> 0]
    /\ pointer = [c \in Channels |-> 0]
    /\ picture = [c \in Channels |-> {}]
    /\ init = -1
    /\ labels = [k \in Classes |-> Null]
    /\ at = [c \in Channels |-> 0]
    /\ id = [c \in Channels |-> 0]
    /\ name = [c \in Channels |-> Null]
    /\ lost = "no"
    /\ disturbed = [c \in Channels |-> FALSE]

-----------------------------------------------------------------------------
(* process_frame_software_fallback().                                      *)

\* A thread between its resize and the end of its conversions.
InBuffer(c) == frame[c].format = "YUV420P" /\ pc[c] \in {"resize", "copy", "model", "display"}

\* The fallback begins with a frame: a packed copy, or the object mapped.
\* A frame that cannot be mapped is skipped.
Decode(c) ==
    /\ pc[c] = "decode"
    /\ \E f \in Frames :
          /\ frame' = [frame EXCEPT ![c] = f]
          /\ IF f.format = "YUV420P"
             THEN LET others == {d \in Channels \ {c} : InBuffer(d)}
                  IN /\ pc' = [pc EXCEPT ![c] = "resize"]
                     /\ disturbed' = [d \in Channels |->
                           IF d = c THEN others # {} ELSE disturbed[d] \/ d \in others]
             ELSE /\ pc' = [pc EXCEPT ![c] = "model"]
                  /\ disturbed' = [disturbed EXCEPT ![c] = FALSE]
    /\ UNCHANGED <<yuv_buffer, plane, row, pointer, picture, labelling, lost>>

MaxOf(a, b) == IF a >= b THEN a ELSE b

\* std::vector::resize: storage that is too small is replaced by storage for
\* twice the size at least, with the old bytes; bytes added are zero.  A vector
\* that shrinks keeps its storage.
resize(n) ==
    LET capacity == IF n <= yuv_buffer.capacity THEN yuv_buffer.capacity
                    ELSE MaxOf(2 * yuv_buffer.size, n)
    IN [capacity |-> capacity,
        size |-> n,
        bytes |-> [k \in 0..capacity - 1 |->
                      IF k < yuv_buffer.size \/ (k >= n /\ k \in DOMAIN yuv_buffer.bytes)
                      THEN yuv_buffer.bytes[k] ELSE Zero]]

\* Fault: data() is called before the vector is resized.
ResizeAfterData(c) ==
    /\ pc[c] = "resize"
    /\ yuv_buffer' = resize(total_size(frame[c]))
    /\ pc' = [pc EXCEPT ![c] = "copy"]
    /\ plane' = [plane EXCEPT ![c] = "Y"]
    /\ row' = [row EXCEPT ![c] = 0]
    /\ pointer' = [pointer EXCEPT ![c] = yuv_buffer.capacity]
    /\ UNCHANGED <<frame, picture, disturbed, labelling, lost>>

Resize(c) ==
    /\ pc[c] = "resize"
    /\ yuv_buffer' = resize(total_size(frame[c]))
    /\ pc' = [pc EXCEPT ![c] = "copy"]
    /\ plane' = [plane EXCEPT ![c] = "Y"]
    /\ row' = [row EXCEPT ![c] = 0]
    /\ pointer' = [pointer EXCEPT ![c] = yuv_buffer'.capacity]
    /\ UNCHANGED <<frame, picture, disturbed, labelling, lost>>

\* Two resizes at once, both with something to do: the vector may be ruined.
ResizesCollide(c) ==
    /\ pc[c] = "resize"
    /\ \E d \in Channels \ {c} : pc[d] = "resize" /\ total_size(frame[d]) # yuv_buffer.size
    /\ total_size(frame[c]) # yuv_buffer.size
    /\ lost' = "buffer"
    /\ UNCHANGED <<pc, converting, labelling>>

\* memcpy of one line, through the pointer taken before.
Copied(c) ==
    [k \in DOMAIN yuv_buffer.bytes |->
        LET f == frame[c]
            first == Packed(f, plane[c], 0, row[c])
        IN IF k \in first..first + RowLength(f, plane[c]) - 1
           THEN <<c, plane[c], k - first, row[c]>> ELSE yuv_buffer.bytes[k]]

LastLine(c) == row[c] + 1 \notin Lines(frame[c], plane[c])

\* data() is called for each line of Y, once for U, once for V and once more
\* for the conversions: another thread may have moved the buffer before that.
CallsData(c) == (pc[c] = "copy" /\ (plane[c] = "Y" \/ row[c] = 0)) \/ pc[c] = "model"

CopyLine(c) ==
    /\ pc[c] = "copy"
    /\ pointer[c] = yuv_buffer.capacity \/ CallsData(c)
    /\ pointer' = [pointer EXCEPT ![c] = yuv_buffer.capacity]
    /\ yuv_buffer' = [yuv_buffer EXCEPT !.bytes = Copied(c)]
    /\ row' = [row EXCEPT ![c] = IF LastLine(c) THEN 0 ELSE @ + 1]
    /\ plane' = [plane EXCEPT ![c] =
          IF ~LastLine(c) THEN @ ELSE IF @ = "Y" THEN "U" ELSE IF @ = "U" THEN "V" ELSE "Y"]
    /\ pc' = [pc EXCEPT ![c] = IF LastLine(c) /\ plane[c] = "V" THEN "model" ELSE "copy"]
    /\ UNCHANGED <<frame, picture, disturbed, labelling, lost>>

\* What the conversions find where they look for a pixel's sample: in the buffer what was copied
\* there last, in the mapped object the byte itself.
Sample(c, p, x, y) ==
    LET f == frame[c]
        o == IF f.format = "YUV420P" THEN Yuv420p(f, p, x, y) ELSE Nv12(f, p, x, y)
    IN IF f.format = "YUV420P"
       THEN IF o < yuv_buffer.capacity THEN yuv_buffer.bytes[o] ELSE Outside
       ELSE IF o < ObjectSize(f) THEN <<c, o>> ELSE Outside

\* The sample of the frame that belongs in a pixel.
Own(c, p, x, y) ==
    LET f == frame[c]
        column == SampleX(p, x)
        line == SampleY(p, y)
    IN IF f.format = "YUV420P" THEN <<c, p, column, line>> ELSE <<c, InObject(f, p, column, line)>>

Origin(c, p, x, y) ==
    LET found == Sample(c, p, x, y)
    IN IF found = Own(c, p, x, y) THEN "own"
       ELSE IF found[1] \in Channels \ {c} THEN "foreign" ELSE "wrong"

\* A conversion takes a sample of each plane for each pixel.
Delivered(c) ==
    LET f == frame[c]
    IN {<<p, Origin(c, p, x, y)>> : p \in Planes, x \in 0..Width(f) - 1, y \in 0..Height(f) - 1}

\* The conversion for the model, into drm_buf_for_rga1.
ToModel(c) ==
    /\ pc[c] = "model"
    /\ picture' = [picture EXCEPT ![c] = Delivered(c)]
    /\ pointer' = [pointer EXCEPT ![c] = yuv_buffer.capacity]
    /\ pc' = [pc EXCEPT ![c] = "display"]
    /\ UNCHANGED <<frame, yuv_buffer, plane, row, disturbed, labelling, lost>>

\* The one for the display, into drm_buf_for_rga2, through the same pointer.
ToDisplay(c) ==
    /\ pc[c] = "display"
    /\ frame[c].format = "YUV420P" => pointer[c] = yuv_buffer.capacity
    /\ picture' = [picture EXCEPT ![c] = @ \cup Delivered(c)]
    /\ pc' = [pc EXCEPT ![c] = "labels"]
    /\ UNCHANGED <<frame, yuv_buffer, plane, row, pointer, disturbed, labelling, lost>>

\* A pointer into storage that another thread's resize has released.
UseStale(c) ==
    /\ pc[c] \in {"copy", "model", "display"}
    /\ frame[c].format = "YUV420P"
    /\ pointer[c] # yuv_buffer.capacity
    /\ lost' = "buffer"
    /\ UNCHANGED <<pc, converting, labelling>>

-----------------------------------------------------------------------------
(* post_process().                                                         *)

\* Every thread that finds the labels missing loads them.  The frame and its
\* pictures are of no more account.
CheckInit(c) ==
    /\ pc[c] = "labels"
    /\ pc' = [pc EXCEPT ![c] = IF init = -1 THEN "load" ELSE "look up"]
    /\ frame' = [frame EXCEPT ![c] = NoFrame]
    /\ picture' = [picture EXCEPT ![c] = {}]
    /\ pointer' = [pointer EXCEPT ![c] = 0]
    /\ disturbed' = [disturbed EXCEPT ![c] = FALSE]
    /\ UNCHANGED <<yuv_buffer, plane, row, labelling, lost>>

\* Fault: the index is static, like the table.
LoadLineAtSharedIndex(c) ==
    /\ pc[c] = "load"
    /\ at[c] < OBJ_CLASS_NUM
    /\ LET stored == Cardinality({k \in Classes : labels[k] # Null})
       IN labels' = [labels EXCEPT ![IF stored < OBJ_CLASS_NUM THEN stored ELSE 0] = at[c]]
    /\ at' = [at EXCEPT ![c] = @ + 1]
    /\ UNCHANGED <<pc, converting, init, id, name, lost>>

\* One turn of readLines: the next line of the file, at the next index.
LoadLine(c) ==
    /\ pc[c] = "load"
    /\ at[c] < OBJ_CLASS_NUM
    /\ labels' = [labels EXCEPT ![at[c]] = at[c]]
    /\ at' = [at EXCEPT ![c] = @ + 1]
    /\ UNCHANGED <<pc, converting, init, id, name, lost>>

\* The table is full, or the file could not be opened or ended early: all of
\* them count as loaded.
LoadEnds(c) ==
    /\ pc[c] = "load"
    /\ init' = 0
    /\ pc' = [pc EXCEPT ![c] = "look up"]
    /\ UNCHANGED <<converting, labels, at, id, name, lost>>

\* label = labels[id], for a class of the model.  A thread need not see yet what
\* another one stored without synchronisation.
LookUp(c) ==
    /\ pc[c] = "look up"
    /\ \E k \in Classes :
          /\ id' = [id EXCEPT ![c] = k]
          /\ \/ name' = [name EXCEPT ![c] = labels[k]]
             \/ k >= at[c] /\ name' = [name EXCEPT ![c] = Null]
    /\ pc' = [pc EXCEPT ![c] = "named"]
    /\ UNCHANGED <<converting, init, labels, at, lost>>

\* The label is copied into the result; that was the frame's last detection, or
\* it had none.
Finish(c) ==
    /\ pc[c] = "look up" \/ (pc[c] = "named" /\ name[c] # Null)
    /\ pc' = [pc EXCEPT ![c] = "decode"]
    /\ id' = [id EXCEPT ![c] = 0]
    /\ name' = [name EXCEPT ![c] = Null]
    /\ UNCHANGED <<converting, init, labels, at, lost>>

\* strncpy from NULL.
CopyNull(c) ==
    /\ pc[c] = "named"
    /\ name[c] = Null
    /\ lost' = "label"
    /\ UNCHANGED <<pc, converting, labelling>>

Next ==
    /\ lost = "no"
    /\ \E c \in Channels :
          \/ Decode(c) \/ Resize(c) \/ ResizesCollide(c) \/ CopyLine(c)
          \/ ToModel(c) \/ ToDisplay(c) \/ UseStale(c)
          \/ CheckInit(c) \/ LoadLine(c) \/ LoadEnds(c) \/ LookUp(c)
          \/ Finish(c) \/ CopyNull(c)

Spec == Init /\ [][Next]_vars

-----------------------------------------------------------------------------
(* Properties.                                                             *)

Delivering(c) == pc[c] = "labels"

\* Both pictures of a frame consist of its own samples, each at its place and
\* read inside the memory that holds it, for every size, even or odd, pitch and
\* format: unless another thread packed a frame meanwhile, and but for the
\* chroma of a DRM frame with more lines in its luma plane than in its picture,
\* which the conversions look for too early.
OwnPicture ==
    \A c \in Channels :
        Delivering(c) /\ ~disturbed[c] =>
            picture[c] \subseteq IF frame[c].format = "YUV420P" \/ frame[c].rows = Height(frame[c])
                                 THEN Planes \X {"own"}
                                 ELSE {<<"Y", "own">>} \cup {"U", "V"} \X Origins

\* The buffer's storage is not released under a thread that is alone in it:
\* every pointer was taken after the resize it has to survive.
LostOnlyWhenDisturbed ==
    lost = "buffer" => \E c \in Channels : InBuffer(c) /\ disturbed[c]

\* A detection carries the name of its class, however many threads load the
\* table at once or again; a class without a name, which post_process() does
\* not survive, is met only by a thread that did not store that name itself.
LabelsAreRight ==
    \A c \in Channels :
        pc[c] = "named" => name[c] = id[c] \/ (name[c] = Null /\ id[c] >= at[c])

\* The pages say "Individual streams: http://YOUR_SERVER_IP:809X/mjpeg (X=0-7)":
\* a channel's picture never holds samples of another channel.
PicturesOwn ==
    \A c \in Channels : Delivering(c) => picture[c] \cap (Planes \X {"foreign"}) = {}

\* The channels are interchangeable.
Symmetry == Permutations(Channels)
=============================================================================
