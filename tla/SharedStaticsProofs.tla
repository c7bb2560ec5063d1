------------------------- MODULE SharedStaticsProofs -------------------------
(***************************************************************************)
(* Proofs about SharedStatics and PixelLayout, for any number of threads,  *)
(* frames of any size, pitch and format and any number of classes.         *)
(* LabelsAreRight follows from LabelsInv: the table only ever holds a      *)
(* class's own name, and a thread's own stores stay.  LostOnlyWhenDisturbed*)
(* follows from BufferInv: of two threads in the buffer both count as      *)
(* disturbed, and a thread alone in it has the pointer to its storage.     *)
(* OwnPicture follows from PictureInv, what an undisturbed thread has      *)
(* copied so far, and from the layout theorems: the planes as they are     *)
(* packed are the planes the conversion reads back.                        *)
(***************************************************************************)
EXTENDS SharedStatics, TLAPS

PCs == {"decode", "resize", "copy", "model", "display", "labels", "load", "look up", "named"}

-----------------------------------------------------------------------------
(* The label table.                                                        *)

LabelsInv ==
    /\ pc \in [Channels -> PCs]
    /\ labels \in [Classes -> Classes \cup {Null}]
    /\ \A k \in Classes : labels[k] \in {k, Null}
    /\ at \in [Channels -> 0..OBJ_CLASS_NUM]
    /\ \A c \in Channels : \A k \in Classes : k < at[c] => labels[k] = k
    /\ id \in [Channels -> Classes]
    /\ name \in [Channels -> Classes \cup {Null}]
    /\ LabelsAreRight

LEMMA InitLabels == Init => LabelsInv
<1> SUFFICES ASSUME Init
             PROVE LabelsInv
  OBVIOUS
<1>1. OBJ_CLASS_NUM \in Nat \ {0} /\ 0 \in Classes
  BY SharedStaticsAssumption DEF Classes
<1> QED
  BY <1>1 DEF Init, LabelsInv, LabelsAreRight, PCs, Classes, Null

LEMMA NextLabels == LabelsInv /\ [Next]_vars => LabelsInv'
<1> SUFFICES ASSUME LabelsInv, [Next]_vars
             PROVE LabelsInv'
  OBVIOUS
<1> USE SharedStaticsAssumption
<1>1. ASSUME NEW c \in Channels, LoadLine(c)
      PROVE LabelsInv'
  <2>1. /\ at[c] \in Classes /\ labels' = [labels EXCEPT ![at[c]] = at[c]]
        /\ at' = [at EXCEPT ![c] = at[c] + 1] /\ at'[c] \in 0..OBJ_CLASS_NUM
        /\ UNCHANGED <<pc, id, name>>
    BY <1>1 DEF LabelsInv, LoadLine, Classes
  <2>2. \A k \in Classes : labels'[k] = IF k = at[c] THEN k ELSE labels[k]
    BY <2>1 DEF LabelsInv
  <2>3. ASSUME NEW d \in Channels, NEW k \in Classes, k < at'[d]
        PROVE labels'[k] = k
    <3>1. at'[d] = (IF d = c THEN at[c] + 1 ELSE at[d]) /\ at[d] \in Nat /\ k \in Nat
      BY <2>1 DEF LabelsInv, Classes
    <3>2. k = at[c] \/ k < at[d]
      BY <2>3, <3>1
    <3>3. QED
      BY <2>2, <3>2 DEF LabelsInv
  <2>4. LabelsAreRight'
    <3>1. ASSUME NEW d \in Channels, pc[d] = "named"
          PROVE name[d] = id[d] \/ (name[d] = Null /\ id[d] >= at'[d])
      <4>1. d # c
        BY <1>1, <3>1 DEF LoadLine
      <4>2. at'[d] = at[d]
        BY <2>1, <4>1 DEF LabelsInv
      <4>3. QED
        BY <3>1, <4>2 DEF LabelsInv, LabelsAreRight
    <3>2. QED
      BY <2>1, <3>1 DEF LabelsAreRight
  <2>5. labels' \in [Classes -> Classes \cup {Null}] /\ at' \in [Channels -> 0..OBJ_CLASS_NUM]
    BY <2>1 DEF LabelsInv
  <2>6. QED
    BY <2>1, <2>2, <2>3, <2>4, <2>5 DEF LabelsInv
<1>2. ASSUME NEW c \in Channels, LookUp(c)
      PROVE LabelsInv'
  <2>1. PICK k \in Classes :
           /\ id' = [id EXCEPT ![c] = k]
           /\ \/ name' = [name EXCEPT ![c] = labels[k]]
              \/ k >= at[c] /\ name' = [name EXCEPT ![c] = Null]
    BY <1>2 DEF LookUp
  <2>2. pc' = [pc EXCEPT ![c] = "named"] /\ labels' = labels /\ at' = at
    BY <1>2 DEF LookUp
  <2>3. labels[k] \in {k, Null} /\ (k < at[c] => labels[k] = k) /\ k \in Int /\ at[c] \in Nat
    BY DEF LabelsInv, Classes
  <2>4. id'[c] = k /\ (name'[c] = k \/ (name'[c] = Null /\ k >= at[c]))
    BY <2>1, <2>3 DEF LabelsInv
  <2>5. \A d \in Channels \ {c} : id'[d] = id[d] /\ name'[d] = name[d] /\ pc'[d] = pc[d]
    BY <2>1, <2>2 DEF LabelsInv
  <2>6. LabelsAreRight'
    BY <2>2, <2>4, <2>5 DEF LabelsInv, LabelsAreRight
  <2>7. /\ pc' \in [Channels -> PCs] /\ id' \in [Channels -> Classes]
        /\ name' \in [Channels -> Classes \cup {Null}]
    BY <2>1, <2>2 DEF LabelsInv, PCs
  <2>8. QED
    BY <2>2, <2>6, <2>7 DEF LabelsInv
<1>3. ASSUME NEW c \in Channels, Finish(c)
      PROVE LabelsInv'
  <2>1. /\ pc' = [pc EXCEPT ![c] = "decode"] /\ id' = [id EXCEPT ![c] = 0]
        /\ name' = [name EXCEPT ![c] = Null] /\ labels' = labels /\ at' = at
    BY <1>3 DEF Finish
  <2>2. \A d \in Channels \ {c} : id'[d] = id[d] /\ name'[d] = name[d] /\ pc'[d] = pc[d]
    BY <2>1 DEF LabelsInv
  <2>3. pc'[c] = "decode"
    BY <2>1 DEF LabelsInv
  <2>4. LabelsAreRight'
    BY <2>1, <2>2, <2>3 DEF LabelsInv, LabelsAreRight
  <2>5. /\ pc' \in [Channels -> PCs] /\ id' \in [Channels -> Classes]
        /\ name' \in [Channels -> Classes \cup {Null}]
    <3>1. 0 \in Classes
      BY DEF Classes
    <3>2. QED
      BY <2>1, <3>1 DEF LabelsInv, PCs
  <2>6. QED
    BY <2>1, <2>4, <2>5 DEF LabelsInv
<1>4. ASSUME UNCHANGED <<labels, at, id, name>>, pc' \in [Channels -> PCs],
             \A d \in Channels : pc'[d] = "named" => pc[d] = "named"
      PROVE LabelsInv'
  BY <1>4 DEF LabelsInv, LabelsAreRight
<1>5. ASSUME NEW c \in Channels,
             \/ Decode(c) \/ Resize(c) \/ ResizesCollide(c) \/ CopyLine(c) \/ ToModel(c)
             \/ ToDisplay(c) \/ UseStale(c) \/ CheckInit(c) \/ LoadEnds(c) \/ CopyNull(c)
      PROVE LabelsInv'
  <2>1. UNCHANGED <<labels, at, id, name>>
    BY <1>5 DEF Decode, Resize, ResizesCollide, CopyLine, ToModel, ToDisplay, UseStale, CheckInit,
                LoadEnds, CopyNull, labelling
  <2>2. pc' = pc \/ \E next \in PCs \ {"named"} : pc' = [pc EXCEPT ![c] = next]
    BY <1>5 DEF Decode, Resize, ResizesCollide, CopyLine, ToModel, ToDisplay, UseStale, CheckInit,
                LoadEnds, CopyNull, PCs
  <2>3. pc' \in [Channels -> PCs] /\ \A d \in Channels : pc'[d] = "named" => pc[d] = "named"
    BY <2>2 DEF LabelsInv
  <2>4. QED
    BY <1>4, <2>1, <2>3
<1>6. CASE UNCHANGED vars
  BY <1>4, <1>6 DEF vars, labelling, LabelsInv
<1> QED
  BY <1>1, <1>2, <1>3, <1>5, <1>6 DEF Next

\* A detection has its class's name or, in a thread that did not store it, none:
\* for any number of threads loading the table at once.
THEOREM LabelsCorrect == Spec => []LabelsAreRight
<1>1. LabelsInv => LabelsAreRight
  BY DEF LabelsInv
<1> QED
  BY <1>1, InitLabels, NextLabels, PTL DEF Spec

-----------------------------------------------------------------------------
(* The layouts of PixelLayout.                                             *)

\* A row that begins after y rows of W ends before the next and within H rows.
LEMMA RowFits ==
    ASSUME NEW W \in Nat, NEW H \in Nat, NEW x \in 0..W - 1, NEW y \in 0..H - 1
    PROVE  /\ y * W \in Nat /\ W * H \in Nat /\ y * W + x \in 0..W * H - 1
           /\ y * W + W <= W * H
<1>1. (H - y - 1) * W \in Nat
  OBVIOUS
<1>2. (H - y - 1) * W = W * H - y * W - W
  OBVIOUS
<1>3. y * W \in Nat /\ W * H \in Nat
  OBVIOUS
<1> QED
  BY <1>1, <1>2, <1>3

LEMMA RowsApart ==
    ASSUME NEW W \in Nat, NEW y \in Nat, NEW z \in Nat, y < z
    PROVE  y * W + W <= z * W
<1>1. (z - y - 1) * W \in Nat
  OBVIOUS
<1>2. (z - y - 1) * W = z * W - y * W - W
  OBVIOUS
<1>3. y * W \in Nat /\ z * W \in Nat
  OBVIOUS
<1> QED
  BY <1>1, <1>2, <1>3

LEMMA RoundedUp ==
    ASSUME NEW n \in Nat \ {0}
    PROVE  /\ RoundUp(n, 2) \in Nat \ {0} /\ RoundUp(n, 2) = 2 * (RoundUp(n, 2) \div 2)
           /\ RoundUp(n, 16) \in Nat \ {0} /\ RoundUp(n, 16) = 2 * (RoundUp(n, 16) \div 2)
           /\ RoundUp(n, 2) >= n /\ RoundUp(n, 16) >= n
BY DEF RoundUp

\* Both sides of a picture are even, and its stride is its width or its pitch.
LEMMA FrameSizes ==
    ASSUME NEW f \in Frames
    PROVE  /\ Width(f) \in Nat \ {0} /\ Width(f) = 2 * (Width(f) \div 2)
           /\ Height(f) \in Nat \ {0} /\ Height(f) = 2 * (Height(f) \div 2)
           /\ f.format \in {"YUV420P", "DRM_PRIME"}
           /\ f.format = "YUV420P" => Stride(f) = Width(f)
           /\ f.format = "DRM_PRIME" =>
                 /\ Stride(f) = f.pitch /\ f.pitch \in Nat /\ f.rows \in Nat
                 /\ f.pitch >= Width(f) /\ f.rows >= Height(f) /\ f.rows = 2 * (f.rows \div 2)
<1>1. f.w \in Nat \ {0} /\ f.h \in Nat \ {0}
  BY SharedStaticsAssumption DEF Frames
<1>2. Width(f) \in Nat \ {0} /\ Width(f) = 2 * (Width(f) \div 2) /\ Width(f) >= f.w
  BY <1>1, RoundedUp DEF Width
<1>3. Height(f) \in Nat \ {0} /\ Height(f) = 2 * (Height(f) \div 2)
  BY <1>1, RoundedUp DEF Height
<1>4. CASE f.format = "YUV420P"
  <2>1. Stride(f) = Width(f)
    BY <1>1, <1>2, <1>4, RoundedUp DEF Stride, Width
  <2>2. QED
    BY <1>2, <1>3, <1>4, <2>1
<1>5. CASE f.format # "YUV420P"
  <2>1. /\ f.format = "DRM_PRIME" /\ f.pitch \in Nat /\ f.rows \in Nat
        /\ f.pitch >= Width(f) /\ f.rows >= Height(f) /\ f.rows % 2 = 0
    BY <1>5, SharedStaticsAssumption DEF Frames
  <2>2. Stride(f) = f.pitch
    BY <1>2, <2>1 DEF Stride
  <2>3. f.rows = 2 * (f.rows \div 2)
    BY <2>1
  <2>4. QED
    BY <1>2, <1>3, <2>1, <2>2, <2>3
<1> QED
  BY <1>4, <1>5

\* Where memcpy puts the rows of the planes: one after another, up to total_size.
LEMMA PackedFits ==
    ASSUME NEW f \in Frames, NEW p \in Planes, NEW x \in Columns(f, p), NEW y \in Lines(f, p)
    PROVE  /\ Packed(f, p, x, y) \in 0..total_size(f) - 1
           /\ Packed(f, p, 0, y) \in Nat /\ RowLength(f, p) \in Nat
           /\ Packed(f, p, x, y) = Packed(f, p, 0, y) + x /\ x \in 0..RowLength(f, p) - 1
           /\ p = "Y" => Packed(f, p, x, y) < y_size(f)
           /\ p # "Y" => Packed(f, p, x, y) >= y_size(f)
           /\ p = "U" => Packed(f, p, x, y) < y_size(f) + uv_size(f)
           /\ p = "V" => Packed(f, p, x, y) >= y_size(f) + uv_size(f)
<1> DEFINE W == Width(f)
           H == Height(f)
           w2 == Width(f) \div 2
           h2 == Height(f) \div 2
<1>1. W \in Nat /\ H \in Nat /\ w2 \in Nat /\ h2 \in Nat
  BY FrameSizes
<1>2. y_size(f) = W * H /\ uv_size(f) = w2 * h2 /\ total_size(f) = W * H + 2 * (w2 * h2)
  BY DEF y_size, uv_size, total_size
<1>3. W * H \in Nat /\ w2 * h2 \in Nat
  BY <1>1
<1> HIDE DEF W, H, w2, h2
<1>4. CASE p = "Y"
  <2>1. x \in 0..W - 1 /\ y \in 0..H - 1
    BY <1>4 DEF Columns, Lines, W, H
  <2>2. RowLength(f, p) = W /\ \A k \in 0..W - 1 : Packed(f, p, k, y) = 0 + y * W + k
    BY <1>4 DEF RowLength, Packed, PlaneStart, W
  <2>3. y * W \in Nat /\ y * W + x \in 0..W * H - 1
    BY <1>1, <2>1, RowFits
  <2>4. Packed(f, p, x, y) = y * W + x /\ Packed(f, p, 0, y) = y * W
    BY <1>1, <2>1, <2>2, <2>3
  <2>5. QED
    BY <1>1, <1>2, <1>3, <1>4, <2>1, <2>2, <2>3, <2>4
<1>5. CASE p # "Y"
  <2> DEFINE S == IF p = "U" THEN W * H ELSE W * H + w2 * h2
  <2>1. x \in 0..w2 - 1 /\ y \in 0..h2 - 1
    BY <1>5 DEF Columns, Lines, w2, h2
  <2>2. RowLength(f, p) = w2 /\ PlaneStart(f, p) = S
    BY <1>2, <1>5 DEF RowLength, PlaneStart, w2, Planes
  <2>3. y * w2 \in Nat /\ y * w2 + x \in 0..w2 * h2 - 1
    BY <1>1, <2>1, RowFits
  <2>4. S \in Nat /\ Packed(f, p, x, y) = S + y * w2 + x /\ Packed(f, p, 0, y) = S + y * w2 + 0
    BY <1>3, <2>2 DEF Packed
  <2>5. QED
    BY <1>1, <1>2, <1>3, <1>5, <2>1, <2>2, <2>3, <2>4 DEF Planes
<1> QED
  BY <1>4, <1>5

\* No row is written over another.
LEMMA PackedApart ==
    ASSUME NEW f \in Frames,
           NEW p \in Planes, NEW x \in Columns(f, p), NEW y \in Lines(f, p),
           NEW q \in Planes, NEW u \in Columns(f, q), NEW v \in Lines(f, q),
           Packed(f, p, x, y) = Packed(f, q, u, v)
    PROVE  p = q /\ y = v
<1>1. p = q
  <2>1. /\ Packed(f, p, x, y) \in Int /\ y_size(f) \in Int /\ uv_size(f) \in Int
    BY PackedFits, FrameSizes DEF y_size, uv_size
  <2>2. QED
    BY <2>1, PackedFits DEF Planes
<1>2. y = v
  <2> DEFINE W == RowLength(f, p)
  <2>1. /\ y \in Nat /\ v \in Nat /\ W \in Nat /\ x \in 0..W - 1 /\ u \in 0..W - 1
    BY <1>1, PackedFits DEF Lines
  <2>2. PlaneStart(f, p) \in Int
    BY FrameSizes DEF PlaneStart, y_size, uv_size, Planes
  <2>3. PlaneStart(f, p) + y * W + x = PlaneStart(f, p) + v * W + u
    BY <1>1 DEF Packed
  <2> HIDE DEF W
  <2>4. y * W + x = v * W + u /\ y * W \in Int /\ v * W \in Int
    BY <2>1, <2>2, <2>3
  <2>5. ~(y < v) /\ ~(v < y)
    BY <2>1, <2>4, RowsApart
  <2>6. QED
    BY <2>1, <2>5
<1> QED
  BY <1>1, <1>2

\* The sample of a pixel is a sample of the plane.
LEMMA SampleFits ==
    ASSUME NEW f \in Frames, NEW p \in Planes,
           NEW x \in 0..Width(f) - 1, NEW y \in 0..Height(f) - 1
    PROVE  SampleX(p, x) \in Columns(f, p) /\ SampleY(p, y) \in Lines(f, p)
<1>1. x \div 2 \in 0..Width(f) \div 2 - 1 /\ y \div 2 \in 0..Height(f) \div 2 - 1
  BY FrameSizes
<1> QED
  BY <1>1 DEF SampleX, SampleY, Columns, Lines, Planes

\* The conversions of a YUV420P frame look for each sample where memcpy has put
\* it, whatever the size: decode() hands on even sides and their width as stride.
THEOREM PackedLayoutAgrees ==
    ASSUME NEW f \in Frames, f.format = "YUV420P", NEW p \in Planes,
           NEW x \in 0..Width(f) - 1, NEW y \in 0..Height(f) - 1
    PROVE  /\ Yuv420p(f, p, x, y) = Packed(f, p, SampleX(p, x), SampleY(p, y))
           /\ Yuv420p(f, p, x, y) \in 0..total_size(f) - 1
<1>1. Stride(f) = Width(f) /\ Width(f) \in Nat /\ Height(f) \in Nat
  BY FrameSizes
<1>2. /\ Width(f) * Height(f) \in Int /\ (Width(f) \div 2) * (Height(f) \div 2) \in Int
      /\ y * Width(f) \in Int /\ (y \div 2) * (Width(f) \div 2) \in Int
  BY <1>1
<1>3. Yuv420p(f, p, x, y) = Packed(f, p, SampleX(p, x), SampleY(p, y))
  BY <1>1, <1>2 DEF Yuv420p, Packed, PlaneStart, RowLength, SampleX, SampleY, y_size, uv_size, Planes
<1> QED
  BY <1>3, PackedFits, SampleFits

\* Those of a DRM_PRIME frame look for each sample where the decoder has put it,
\* if its luma plane has no more lines than its picture, and for luma always.
THEOREM MappedLayoutAgrees ==
    ASSUME NEW f \in Frames, f.format = "DRM_PRIME", NEW p \in Planes,
           NEW x \in 0..Width(f) - 1, NEW y \in 0..Height(f) - 1,
           p = "Y" \/ f.rows = Height(f)
    PROVE  /\ Nv12(f, p, x, y) = InObject(f, p, SampleX(p, x), SampleY(p, y))
           /\ Nv12(f, p, x, y) \in 0..ObjectSize(f) - 1
<1> DEFINE P == f.pitch
           R == f.rows
<1>1. /\ Stride(f) = P /\ P \in Nat /\ R \in Nat /\ R = 2 * (R \div 2) /\ R >= Height(f)
      /\ P >= Width(f) /\ Width(f) = 2 * (Width(f) \div 2) /\ Width(f) \in Nat
      /\ Height(f) = 2 * (Height(f) \div 2) /\ Height(f) \in Nat
  BY FrameSizes
<1>2. x \div 2 \in 0..Width(f) \div 2 - 1 /\ y \div 2 \in 0..Height(f) \div 2 - 1
  BY <1>1
<1>3. P * R \in Nat /\ P * (R \div 2) \in Nat /\ ObjectSize(f) = P * R + P * (R \div 2)
  BY <1>1 DEF ObjectSize
<1>4. CASE p = "Y"
  <2>1. y \in 0..R - 1 /\ x \in 0..P - 1
    BY <1>1
  <2>2. y * P + x \in 0..P * R - 1 /\ y * P \in Nat
    BY <1>1, <2>1, RowFits
  <2>3. Nv12(f, p, x, y) = y * P + x /\ InObject(f, p, SampleX(p, x), SampleY(p, y)) = y * P + x
    BY <1>1, <1>4 DEF Nv12, InObject, SampleX, SampleY
  <2>4. QED
    BY <1>3, <2>2, <2>3
<1>5. CASE p # "Y"
  <2> DEFINE k == IF p = "U" THEN 0 ELSE 1
  <2>1. (y \div 2) \in 0..(R \div 2) - 1 /\ (x \div 2) * 2 + k \in 0..P - 1
    BY <1>1, <1>2, <1>5
  <2>2. /\ (y \div 2) * P + ((x \div 2) * 2 + k) \in 0..P * (R \div 2) - 1
        /\ (y \div 2) * P \in Nat
    BY <1>1, <2>1, RowFits
  <2>3. /\ Nv12(f, p, x, y) = P * R + ((y \div 2) * P + (x \div 2) * 2) + k
        /\ InObject(f, p, SampleX(p, x), SampleY(p, y)) = P * R + (y \div 2) * P + 2 * (x \div 2) + k
    BY <1>1, <1>2, <1>3, <1>5, <2>2 DEF Nv12, InObject, SampleX, SampleY, Planes
  <2>4. QED
    BY <1>2, <1>3, <2>1, <2>2, <2>3
<1> QED
  BY <1>4, <1>5

-----------------------------------------------------------------------------
(* The buffer's storage.                                                   *)

\* yuv_buffer as a vector: its bytes fill its capacity.
Vector ==
    /\ yuv_buffer = [capacity |-> yuv_buffer.capacity, size |-> yuv_buffer.size,
                     bytes |-> yuv_buffer.bytes]
    /\ yuv_buffer.capacity \in Nat
    /\ yuv_buffer.size \in 0..yuv_buffer.capacity
    /\ DOMAIN yuv_buffer.bytes = 0..yuv_buffer.capacity - 1

BufferInv ==
    /\ Vector
    /\ \A c \in Channels :
          pc[c] \in {"resize", "copy", "model", "display", "labels"} => frame[c] \in Frames
    /\ pc \in [Channels -> PCs]
    /\ frame = [c \in Channels |-> frame[c]]
    /\ disturbed \in [Channels -> BOOLEAN]
    /\ pointer = [c \in Channels |-> pointer[c]]
    /\ lost \in {"no", "buffer", "label"}
    /\ \A c \in Channels : pc[c] \in {"resize", "copy"} => frame[c].format = "YUV420P"
    /\ \A c, d \in Channels : c # d /\ InBuffer(c) /\ InBuffer(d) => disturbed[c]
    /\ \A c \in Channels :
          InBuffer(c) /\ pc[c] # "resize" /\ ~disturbed[c] => pointer[c] = yuv_buffer.capacity
    /\ LostOnlyWhenDisturbed

LEMMA InitBuffer == Init => BufferInv
<1>1. Init => Vector
  <2>1. DOMAIN <<>> = 0..(-1)
    OBVIOUS
  <2>2. QED
    BY <2>1 DEF Init, Vector
<1> QED
  BY <1>1 DEF Init, BufferInv, InBuffer, LostOnlyWhenDisturbed, PCs

\* Whatever the size asked for, it fits the vector resized to it.
LEMMA ResizedVector ==
    ASSUME Vector, NEW n \in Nat, yuv_buffer' = resize(n)
    PROVE  Vector' /\ yuv_buffer'.size = n /\ n <= yuv_buffer'.capacity
BY DEF Vector, resize, MaxOf

LEMMA TotalSizes ==
    ASSUME NEW f \in Frames
    PROVE  total_size(f) \in Nat
<1>1. Width(f) * Height(f) \in Nat /\ (Width(f) \div 2) * (Height(f) \div 2) \in Nat
  BY FrameSizes
<1> QED
  BY <1>1 DEF total_size, y_size, uv_size

\* A line is copied into the bytes that are there.
LEMMA CopiedVector ==
    ASSUME Vector, NEW c, yuv_buffer' = [yuv_buffer EXCEPT !.bytes = Copied(c)]
    PROVE  /\ Vector' /\ yuv_buffer'.capacity = yuv_buffer.capacity
           /\ yuv_buffer'.bytes = Copied(c)
<1>1. DOMAIN Copied(c) = DOMAIN yuv_buffer.bytes
  BY DEF Copied
<1> HIDE DEF Copied
<1>2. yuv_buffer' = [capacity |-> yuv_buffer.capacity, size |-> yuv_buffer.size, bytes |-> Copied(c)]
  BY DEF Vector
<1> QED
  BY <1>1, <1>2 DEF Vector

\* Whoever enters the buffer disturbs all that are in it, and is disturbed by
\* them.
LEMMA DecodeBuffer ==
    ASSUME BufferInv, lost = "no", NEW c \in Channels, Decode(c)
    PROVE  BufferInv'
<1>1. PICK f \in Frames :
        /\ frame' = [frame EXCEPT ![c] = f]
        /\ IF f.format = "YUV420P"
           THEN LET others == {d \in Channels \ {c} : InBuffer(d)}
                IN /\ pc' = [pc EXCEPT ![c] = "resize"]
                   /\ disturbed' = [d \in Channels |->
                         IF d = c THEN others # {} ELSE disturbed[d] \/ d \in others]
           ELSE /\ pc' = [pc EXCEPT ![c] = "model"]
                /\ disturbed' = [disturbed EXCEPT ![c] = FALSE]
  BY DEF Decode
<1>2. /\ pc[c] = "decode" /\ yuv_buffer' = yuv_buffer /\ pointer' = pointer /\ lost' = lost
      /\ frame'[c] = f /\ \A d \in Channels \ {c} : frame'[d] = frame[d] /\ pc'[d] = pc[d]
      /\ frame' = [d \in Channels |-> frame'[d]]
      /\ \A d \in Channels :
            pc'[d] \in {"resize", "copy", "model", "display", "labels"} => frame'[d] \in Frames
      /\ Vector'
  BY <1>1 DEF Decode, BufferInv, Vector
<1>3. \A d \in Channels \ {c} : InBuffer(d)' <=> InBuffer(d)
  BY <1>2 DEF InBuffer
<1>4. CASE f.format = "YUV420P"
  <2>1. /\ pc' = [pc EXCEPT ![c] = "resize"] /\ pc'[c] = "resize"
        /\ disturbed'[c] <=> \E d \in Channels \ {c} : InBuffer(d)
        /\ \A d \in Channels \ {c} : disturbed'[d] <=> disturbed[d] \/ InBuffer(d)
        /\ disturbed' \in [Channels -> BOOLEAN]
    BY <1>1, <1>4 DEF BufferInv
  <2>2. \A a, d \in Channels : a # d /\ InBuffer(a)' /\ InBuffer(d)' => disturbed'[a]
    BY <1>3, <2>1 DEF BufferInv
  <2>3. \A d \in Channels : InBuffer(d)' /\ pc'[d] # "resize" /\ ~disturbed'[d] =>
           pointer'[d] = yuv_buffer'.capacity
    BY <1>2, <1>3, <2>1 DEF BufferInv
  <2>4. \A d \in Channels : pc'[d] \in {"resize", "copy"} => frame'[d].format = "YUV420P"
    BY <1>2, <1>4, <2>1 DEF BufferInv
  <2>5. pc' \in [Channels -> PCs] /\ lost' = "no" /\ pointer' = [d \in Channels |-> pointer'[d]]
    BY <1>2, <2>1 DEF BufferInv, PCs
  <2>6. QED
    BY <1>2, <2>1, <2>2, <2>3, <2>4, <2>5 DEF BufferInv, LostOnlyWhenDisturbed
<1>5. CASE f.format # "YUV420P"
  <2>1. /\ pc' = [pc EXCEPT ![c] = "model"] /\ pc'[c] = "model" /\ ~InBuffer(c)'
        /\ \A d \in Channels \ {c} : disturbed'[d] <=> disturbed[d]
        /\ disturbed' \in [Channels -> BOOLEAN]
    BY <1>1, <1>2, <1>5 DEF BufferInv, InBuffer
  <2>2. \A a, d \in Channels : a # d /\ InBuffer(a)' /\ InBuffer(d)' => disturbed'[a]
    BY <1>3, <2>1 DEF BufferInv
  <2>3. \A d \in Channels : InBuffer(d)' /\ pc'[d] # "resize" /\ ~disturbed'[d] =>
           pointer'[d] = yuv_buffer'.capacity
    BY <1>2, <1>3, <2>1 DEF BufferInv
  <2>4. \A d \in Channels : pc'[d] \in {"resize", "copy"} => frame'[d].format = "YUV420P"
    BY <1>2, <2>1 DEF BufferInv
  <2>5. pc' \in [Channels -> PCs] /\ lost' = "no" /\ pointer' = [d \in Channels |-> pointer'[d]]
    BY <1>2, <2>1 DEF BufferInv, PCs
  <2>6. QED
    BY <1>2, <2>1, <2>2, <2>3, <2>4, <2>5 DEF BufferInv, LostOnlyWhenDisturbed
<1> QED
  BY <1>4, <1>5

\* The other steps let nobody into the buffer, and leave its storage as it is
\* or are made by a thread in the buffer, which takes its pointer anew.
LEMMA StepBuffer ==
    ASSUME BufferInv, lost = "no", NEW c \in Channels,
           lost' = "no", disturbed' = disturbed \/ disturbed' = [disturbed EXCEPT ![c] = FALSE],
           pc' = [pc EXCEPT ![c] = pc'[c]], pc'[c] \in PCs,
           frame' = frame \/ frame' = [frame EXCEPT ![c] = frame'[c]],
           pointer' = pointer \/ pointer' = [pointer EXCEPT ![c] = pointer'[c]],
           InBuffer(c)' => /\ InBuffer(c) /\ frame'[c] = frame[c] /\ disturbed'[c] = disturbed[c]
                           /\ pc'[c] # "resize" /\ pointer'[c] = yuv_buffer'.capacity,
           pc'[c] \in {"resize", "copy"} => frame'[c].format = "YUV420P",
           pc'[c] \in {"resize", "copy", "model", "display", "labels"} => frame'[c] \in Frames,
           Vector',
           yuv_buffer'.capacity = yuv_buffer.capacity \/ InBuffer(c)
    PROVE  BufferInv'
<1>1. \A d \in Channels \ {c} : /\ pc'[d] = pc[d] /\ frame'[d] = frame[d]
                               /\ disturbed'[d] = disturbed[d] /\ pointer'[d] = pointer[d]
  BY DEF BufferInv
<1>2. /\ pc' \in [Channels -> PCs] /\ disturbed' \in [Channels -> BOOLEAN]
      /\ frame' = [d \in Channels |-> frame'[d]] /\ pointer' = [d \in Channels |-> pointer'[d]]
  BY DEF BufferInv
<1>3. \A d \in Channels \ {c} : InBuffer(d)' <=> InBuffer(d)
  BY <1>1 DEF InBuffer
<1>4. \A a, d \in Channels : a # d /\ InBuffer(a)' /\ InBuffer(d)' => disturbed'[a]
  BY <1>3, <1>1 DEF BufferInv
<1>5. \A d \in Channels : InBuffer(d)' /\ pc'[d] # "resize" /\ ~disturbed'[d] =>
         pointer'[d] = yuv_buffer'.capacity
  BY <1>3, <1>1 DEF BufferInv
<1>6. \A d \in Channels : pc'[d] \in {"resize", "copy"} => frame'[d].format = "YUV420P"
  BY <1>1 DEF BufferInv
<1>7. \A d \in Channels :
         pc'[d] \in {"resize", "copy", "model", "display", "labels"} => frame'[d] \in Frames
  BY <1>1 DEF BufferInv
<1> QED
  BY <1>4, <1>5, <1>6, <1>7, <1>2 DEF BufferInv, LostOnlyWhenDisturbed

LEMMA NextBuffer == BufferInv /\ [Next]_vars => BufferInv'
<1> SUFFICES ASSUME BufferInv, [Next]_vars
             PROVE BufferInv'
  OBVIOUS
<1>1. ASSUME NEW c \in Channels, lost = "no", Resize(c)
      PROVE BufferInv'
  <2>1. /\ pc[c] = "resize" /\ pc' = [pc EXCEPT ![c] = "copy"] /\ frame' = frame
        /\ pointer' = [pointer EXCEPT ![c] = yuv_buffer'.capacity]
        /\ disturbed' = disturbed /\ lost' = lost
    BY <1>1 DEF Resize
  <2>2. InBuffer(c) /\ frame[c].format = "YUV420P" /\ frame[c] \in Frames
    BY <2>1 DEF BufferInv, InBuffer
  <2>4. Vector'
    BY <1>1, <2>2, TotalSizes, ResizedVector DEF Resize, BufferInv
  <2>3. QED
    BY <1>1, <2>1, <2>2, <2>4, StepBuffer DEF BufferInv, PCs, InBuffer
<1>2. ASSUME NEW c \in Channels, lost = "no", CopyLine(c)
      PROVE BufferInv'
  <2>1. /\ pc[c] = "copy" /\ pc' = [pc EXCEPT ![c] = pc'[c]] /\ pc'[c] \in {"model", "copy"}
        /\ frame' = frame /\ pointer' = [pointer EXCEPT ![c] = yuv_buffer.capacity]
        /\ yuv_buffer' = [yuv_buffer EXCEPT !.bytes = Copied(c)]
        /\ disturbed' = disturbed /\ lost' = lost
    BY <1>2 DEF CopyLine, BufferInv
  <2>2. InBuffer(c) /\ frame[c].format = "YUV420P" /\ frame[c] \in Frames
    BY <2>1 DEF BufferInv, InBuffer
  <2>3. Vector' /\ yuv_buffer'.capacity = yuv_buffer.capacity
    BY <2>1, CopiedVector DEF BufferInv
  <2>4. QED
    BY <1>2, <2>1, <2>2, <2>3, StepBuffer DEF BufferInv, PCs, InBuffer
<1>3. ASSUME NEW c \in Channels, lost = "no", ToModel(c) \/ ToDisplay(c)
      PROVE BufferInv'
  <2>1. /\ pc[c] \in {"model", "display"} /\ pc' = [pc EXCEPT ![c] = pc'[c]]
        /\ pc'[c] \in {"display", "labels"} /\ frame' = frame /\ yuv_buffer' = yuv_buffer
        /\ pointer' = [pointer EXCEPT ![c] = pointer'[c]]
        /\ disturbed' = disturbed /\ lost' = lost
        /\ pc'[c] = "display" => pointer'[c] = yuv_buffer.capacity
    BY <1>3 DEF ToModel, ToDisplay, BufferInv
  <2>2. frame[c] \in Frames /\ Vector'
    BY <2>1 DEF BufferInv, Vector
  <2>3. InBuffer(c)' => InBuffer(c) /\ pc'[c] = "display"
    BY <2>1 DEF InBuffer
  <2>4. QED
    BY <1>3, <2>1, <2>2, <2>3, StepBuffer DEF BufferInv, PCs
<1>4. ASSUME NEW c \in Channels, lost = "no",
             CheckInit(c) \/ LoadLine(c) \/ LoadEnds(c) \/ LookUp(c) \/ Finish(c)
      PROVE BufferInv'
  <2>1. /\ yuv_buffer' = yuv_buffer /\ lost' = lost
        /\ frame' = [frame EXCEPT ![c] = frame'[c]]
        /\ pointer' = [pointer EXCEPT ![c] = pointer'[c]]
        /\ disturbed' = disturbed \/ disturbed' = [disturbed EXCEPT ![c] = FALSE]
    BY <1>4 DEF BufferInv, CheckInit, LoadLine, LoadEnds, LookUp, Finish, converting
  <2>2. \E next \in {"load", "look up", "named", "decode"} : pc' = [pc EXCEPT ![c] = next]
    BY <1>4 DEF BufferInv, CheckInit, LoadLine, LoadEnds, LookUp, Finish
  <2>3. pc' = [pc EXCEPT ![c] = pc'[c]] /\ pc'[c] \in {"load", "look up", "named", "decode"}
    BY <2>2 DEF BufferInv
  <2>4. ~InBuffer(c)' /\ Vector'
    BY <2>1, <2>3 DEF InBuffer, BufferInv, Vector
  <2>5. QED
    BY <1>4, <2>1, <2>3, <2>4, StepBuffer DEF BufferInv, PCs
<1>5. ASSUME NEW c \in Channels, lost = "no", ResizesCollide(c)
      PROVE BufferInv'
  <2>1. PICK d \in Channels \ {c} : pc[d] = "resize"
    BY <1>5 DEF ResizesCollide
  <2>2. InBuffer(c) /\ disturbed[c]
    BY <1>5, <2>1 DEF ResizesCollide, BufferInv, InBuffer
  <2>3. QED
    BY <1>5, <2>2 DEF BufferInv, ResizesCollide, converting, LostOnlyWhenDisturbed, InBuffer, Vector
<1>6. ASSUME NEW c \in Channels, lost = "no", UseStale(c)
      PROVE BufferInv'
  <2>1. InBuffer(c) /\ disturbed[c]
    BY <1>6 DEF UseStale, BufferInv, InBuffer
  <2>2. QED
    BY <1>6, <2>1 DEF BufferInv, UseStale, converting, LostOnlyWhenDisturbed, InBuffer, Vector
<1>7. ASSUME NEW c \in Channels, lost = "no", CopyNull(c)
      PROVE BufferInv'
  BY <1>7 DEF BufferInv, CopyNull, converting, LostOnlyWhenDisturbed, InBuffer, Vector
<1>8. CASE UNCHANGED vars
  BY <1>8 DEF BufferInv, vars, converting, LostOnlyWhenDisturbed, InBuffer, Vector
<1> QED
  BY <1>1, <1>2, <1>3, <1>4, <1>5, <1>6, <1>7, <1>8, DecodeBuffer DEF Next

\* Only a thread that shared yuv_buffer with another is left with a pointer to
\* storage that is gone: for any number of threads and any sizes.
THEOREM StorageCorrect == Spec => []LostOnlyWhenDisturbed
<1>1. BufferInv => LostOnlyWhenDisturbed
  BY DEF BufferInv
<1> QED
  BY <1>1, InitBuffer, NextBuffer, PTL DEF Spec

-----------------------------------------------------------------------------
(* The bytes in the buffer, and the pictures.                              *)

\* Rows of the frame that its thread has copied so far.
Packs(c, p, y) ==
    \/ pc[c] \in {"model", "display"}
    \/ /\ pc[c] = "copy"
       /\ \/ p = plane[c] /\ y < row[c]
          \/ p = "Y" /\ plane[c] # "Y"
          \/ p = "U" /\ plane[c] = "V"

Alone(c) == InBuffer(c) /\ ~disturbed[c] /\ pc[c] # "resize"

\* What OwnPicture lets a picture of the frame hold.
Allowed(f) ==
    IF f.format = "YUV420P" \/ f.rows = Height(f)
    THEN Planes \X {"own"}
    ELSE {<<"Y", "own">>} \cup {"U", "V"} \X Origins

PacksRight(c) ==
    \A p \in Planes : \A y \in Lines(frame[c], p), x \in Columns(frame[c], p) :
        Packs(c, p, y) => yuv_buffer.bytes[Packed(frame[c], p, x, y)] = <<c, p, x, y>>

ThreadInv(c) ==
    /\ pc[c] = "copy" => row[c] \in Lines(frame[c], plane[c])
    /\ Alone(c) => total_size(frame[c]) <= yuv_buffer.capacity /\ PacksRight(c)
    /\ pc[c] \in {"display", "labels"} /\ ~disturbed[c] => picture[c] \subseteq Allowed(frame[c])

PictureInv ==
    /\ BufferInv
    /\ plane \in [Channels -> Planes]
    /\ row = [c \in Channels |-> row[c]]
    /\ picture = [c \in Channels |-> picture[c]]
    /\ \A c \in Channels : ThreadInv(c)

LEMMA InitPictures == Init => PictureInv
BY InitBuffer DEF Init, PictureInv, ThreadInv, Alone, InBuffer, Planes

\* A thread notices nothing of another's step but a buffer it is not alone in.
LEMMA OtherThread ==
    ASSUME PictureInv, NEW d \in Channels,
           pc'[d] = pc[d], frame'[d] = frame[d], plane'[d] = plane[d], row'[d] = row[d],
           picture'[d] = picture[d], disturbed[d] => disturbed'[d],
           Alone(d)' => yuv_buffer' = yuv_buffer
    PROVE  ThreadInv(d)'
<1>1. Alone(d)' => Alone(d)
  BY DEF Alone, InBuffer
<1>2. ASSUME Alone(d)'
      PROVE PacksRight(d)'
  <2>1. PacksRight(d)
    BY <1>1, <1>2 DEF PictureInv, ThreadInv
  <2>2. QED
    BY <1>2, <2>1 DEF PacksRight, Packs
<1> QED
  BY <1>1, <1>2 DEF PictureInv, ThreadInv

\* A row that is copied joins those copied before and leaves them as they are.
LEMMA CopyLineThread ==
    ASSUME PictureInv, lost = "no", NEW c \in Channels, CopyLine(c)
    PROVE  ThreadInv(c)' /\ plane' \in [Channels -> Planes]
<1> DEFINE f == frame[c]
           p0 == plane[c]
           y0 == row[c]
<1>1. /\ pc[c] = "copy" /\ frame'[c] = f /\ f \in Frames /\ disturbed' = disturbed
      /\ p0 \in Planes /\ y0 \in Lines(f, p0) /\ InBuffer(c)
      /\ yuv_buffer' = [yuv_buffer EXCEPT !.bytes = Copied(c)]
      /\ row'[c] = (IF LastLine(c) THEN 0 ELSE y0 + 1)
      /\ plane'[c] = (IF ~LastLine(c) THEN p0 ELSE IF p0 = "Y" THEN "U" ELSE IF p0 = "U" THEN "V" ELSE "Y")
      /\ pc'[c] = (IF LastLine(c) /\ p0 = "V" THEN "model" ELSE "copy")
  BY DEF CopyLine, PictureInv, ThreadInv, BufferInv, InBuffer
<1>2. plane' \in [Channels -> Planes]
  BY DEF CopyLine, PictureInv, Planes
<1>3. yuv_buffer'.capacity = yuv_buffer.capacity /\ yuv_buffer'.bytes = Copied(c) /\ Vector
  BY <1>1, CopiedVector DEF PictureInv, BufferInv
<1>4. /\ 0 \in Lines(f, "Y") /\ 0 \in Lines(f, "U") /\ 0 \in Lines(f, "V")
  BY <1>1, FrameSizes DEF Lines
<1>5. pc'[c] = "copy" => row'[c] \in Lines(frame'[c], plane'[c])
  BY <1>1, <1>4 DEF LastLine, Planes
<1>6. ASSUME LastLine(c), NEW y \in Lines(f, p0)
      PROVE y < y0 \/ y = y0
  BY <1>1, <1>6, FrameSizes DEF LastLine, Lines
<1>7. ASSUME NEW p \in Planes, NEW y \in Lines(f, p), Packs(c, p, y)'
      PROVE Packs(c, p, y) \/ (p = p0 /\ y = y0)
  <2>1. CASE ~LastLine(c)
    <3>1. y \in Int /\ y0 \in Int
      BY <1>1 DEF Lines
    <3>2. QED
      BY <1>1, <1>7, <2>1, <3>1 DEF Packs
  <2>2. CASE LastLine(c)
    <3>1. p = p0 => y < y0 \/ y = y0
      BY <1>6, <2>2
    <3>2. p # p0 => (p = "Y" /\ p0 # "Y") \/ (p = "U" /\ p0 = "V")
      <4>1. ~(y < 0)
        BY DEF Lines
      <4>2. QED
        BY <1>1, <1>7, <2>2, <4>1 DEF Packs, Planes
    <3>3. QED
      BY <1>1, <3>1, <3>2 DEF Packs
  <2>3. QED
    BY <2>1, <2>2
<1>8. ASSUME Alone(c)'
      PROVE total_size(f) <= yuv_buffer.capacity /\ PacksRight(c)
  BY <1>1, <1>8 DEF Alone, InBuffer, PictureInv, ThreadInv
<1>9. ASSUME Alone(c)'
      PROVE PacksRight(c)'
  <2>1. SUFFICES ASSUME NEW p \in Planes, NEW y \in Lines(f, p), NEW x \in Columns(f, p),
                        Packs(c, p, y)'
                 PROVE yuv_buffer'.bytes[Packed(f, p, x, y)] = <<c, p, x, y>>
    BY <1>1 DEF PacksRight
  <2> DEFINE k == Packed(f, p, x, y)
             first == Packed(f, p0, 0, y0)
             length == RowLength(f, p0)
  <2>2. k \in DOMAIN yuv_buffer.bytes /\ k \in Int
    <3>1. k \in 0..total_size(f) - 1 /\ total_size(f) \in Nat
      BY <1>1, PackedFits, TotalSizes
    <3>2. QED
      BY <1>3, <1>8, <1>9, <3>1 DEF Vector
  <2>3. Copied(c)[k] = IF k \in first..first + length - 1
                       THEN <<c, p0, k - first, y0>> ELSE yuv_buffer.bytes[k]
    BY <2>2 DEF Copied
  <2>4. first \in Nat /\ length \in Nat
    <3>1. 0 \in Columns(f, p0)
      BY <1>1, FrameSizes DEF Columns
    <3>2. QED
      BY <1>1, <3>1, PackedFits
  <2>5. CASE p = p0 /\ y = y0
    <3>1. k = first + x /\ x \in 0..length - 1
      BY <1>1, <2>5, PackedFits
    <3>2. k \in first..first + length - 1 /\ k - first = x
      BY <2>4, <3>1
    <3>3. QED
      BY <1>3, <2>3, <2>5, <3>2
  <2>6. CASE ~(p = p0 /\ y = y0)
    <3>1. k \notin first..first + length - 1
      <4>1. SUFFICES ASSUME k \in first..first + length - 1
                     PROVE FALSE
        OBVIOUS
      <4>2. k - first \in Columns(f, p0)
        <5>1. k - first \in 0..length - 1
          BY <2>2, <2>4, <4>1
        <5>2. QED
          BY <5>1 DEF Columns, RowLength
      <4>3. Packed(f, p0, k - first, y0) = first + (k - first)
        BY <1>1, <4>2, PackedFits
      <4>4. Packed(f, p0, k - first, y0) = Packed(f, p, x, y)
        BY <2>2, <2>4, <4>3
      <4>5. QED
        BY <1>1, <2>6, <4>2, <4>4, PackedApart
    <3>2. Packs(c, p, y)
      BY <1>7, <2>1, <2>6
    <3>3. yuv_buffer.bytes[k] = <<c, p, x, y>>
      BY <1>8, <1>9, <3>2 DEF PacksRight
    <3>4. QED
      BY <1>3, <2>3, <3>1, <3>3
  <2>7. QED
    BY <2>5, <2>6
<1> QED
  BY <1>1, <1>2, <1>3, <1>5, <1>8, <1>9 DEF ThreadInv

\* A conversion by a thread that is alone finds the frame's own samples.
LEMMA DeliveredThread ==
    ASSUME PictureInv, NEW c \in Channels, pc[c] \in {"model", "display"}, ~disturbed[c]
    PROVE  Delivered(c) \subseteq Allowed(frame[c])
<1> DEFINE f == frame[c]
<1>1. f \in Frames /\ f.format \in {"YUV420P", "DRM_PRIME"}
  BY FrameSizes DEF PictureInv, BufferInv
<1>2. SUFFICES ASSUME NEW p \in Planes, NEW x \in 0..Width(f) - 1, NEW y \in 0..Height(f) - 1
               PROVE <<p, Origin(c, p, x, y)>> \in Allowed(f)
  BY DEF Delivered
<1>3. Origin(c, p, x, y) \in Origins
  BY DEF Origin, Origins
<1>4. CASE f.format = "YUV420P"
  <2> DEFINE o == Yuv420p(f, p, x, y)
             u == SampleX(p, x)
             v == SampleY(p, y)
  <2>1. /\ o = Packed(f, p, u, v) /\ o \in 0..total_size(f) - 1
        /\ u \in Columns(f, p) /\ v \in Lines(f, p)
    BY <1>1, <1>4, PackedLayoutAgrees, SampleFits
  <2>2. Alone(c)
    BY <1>4 DEF Alone, InBuffer
  <2>3. total_size(f) <= yuv_buffer.capacity /\ PacksRight(c)
    BY <2>2 DEF PictureInv, ThreadInv
  <2>4. yuv_buffer.bytes[o] = <<c, p, u, v>>
    BY <2>1, <2>3 DEF PacksRight, Packs
  <2>5. o < yuv_buffer.capacity
    BY <1>1, <2>1, <2>3, TotalSizes DEF PictureInv, BufferInv, Vector
  <2>6. Sample(c, p, x, y) = <<c, p, u, v>> /\ Own(c, p, x, y) = <<c, p, u, v>>
    BY <1>4, <2>4, <2>5 DEF Sample, Own
  <2>7. QED
    BY <1>4, <2>6 DEF Origin, Allowed
<1>5. CASE f.format = "DRM_PRIME" /\ (p = "Y" \/ f.rows = Height(f))
  <2> DEFINE o == Nv12(f, p, x, y)
  <2>1. o = InObject(f, p, SampleX(p, x), SampleY(p, y)) /\ o \in 0..ObjectSize(f) - 1
    BY <1>1, <1>5, MappedLayoutAgrees
  <2>2. ObjectSize(f) \in Int
    BY <1>1, <1>5, FrameSizes DEF ObjectSize
  <2>3. Sample(c, p, x, y) = <<c, o>> /\ Own(c, p, x, y) = <<c, o>>
    BY <1>5, <2>1, <2>2 DEF Sample, Own
  <2>4. QED
    BY <1>5, <2>3 DEF Origin, Allowed, Planes
<1>6. CASE f.format = "DRM_PRIME" /\ p # "Y" /\ f.rows # Height(f)
  BY <1>3, <1>6 DEF Allowed, Planes
<1> QED
  BY <1>1, <1>4, <1>5, <1>6

LEMMA NextPictures == PictureInv /\ [Next]_vars => PictureInv'
<1> SUFFICES ASSUME PictureInv, [Next]_vars
             PROVE PictureInv'
  OBVIOUS
<1>1. BufferInv' /\ BufferInv
  BY NextBuffer DEF PictureInv
<1>2. ASSUME NEW c \in Channels, lost = "no", Decode(c)
      PROVE PictureInv'
  <2>1. /\ UNCHANGED <<plane, row, picture, yuv_buffer>>
        /\ pc'[c] \in {"resize", "model"} /\ (pc'[c] = "model" => frame'[c].format # "YUV420P")
        /\ \A d \in Channels \ {c} : pc'[d] = pc[d] /\ frame'[d] = frame[d]
                                     /\ (disturbed[d] => disturbed'[d])
    BY <1>1, <1>2 DEF Decode, BufferInv
  <2>2. ThreadInv(c)'
    BY <2>1 DEF ThreadInv, Alone, InBuffer
  <2>3. \A d \in Channels \ {c} : ThreadInv(d)'
    BY <2>1, OtherThread
  <2>4. QED
    BY <1>1, <2>1, <2>2, <2>3 DEF PictureInv
<1>3. ASSUME NEW c \in Channels, lost = "no", Resize(c) \/ CopyLine(c)
      PROVE \A d \in Channels \ {c} : ThreadInv(d)'
  <2>1. InBuffer(c)
    BY <1>1, <1>3 DEF Resize, CopyLine, BufferInv, InBuffer
  <2>2. ASSUME NEW d \in Channels \ {c}
        PROVE ThreadInv(d)'
    <3>1. /\ pc'[d] = pc[d] /\ frame'[d] = frame[d] /\ plane'[d] = plane[d] /\ row'[d] = row[d]
          /\ picture'[d] = picture[d] /\ disturbed'[d] = disturbed[d]
      BY <1>1, <1>3 DEF Resize, CopyLine, BufferInv, PictureInv
    <3>2. ~Alone(d)'
      BY <1>1, <2>1, <3>1 DEF Alone, InBuffer, BufferInv
    <3>3. QED
      BY <3>1, <3>2, OtherThread
  <2>3. QED
    BY <2>2
<1>4. ASSUME NEW c \in Channels, lost = "no", Resize(c)
      PROVE PictureInv'
  <2>1. /\ pc'[c] = "copy" /\ plane'[c] = "Y" /\ row'[c] = 0 /\ picture' = picture /\ frame' = frame
        /\ frame[c] \in Frames /\ yuv_buffer' = resize(total_size(frame[c]))
        /\ plane' \in [Channels -> Planes] /\ row' = [d \in Channels |-> row'[d]]
    BY <1>1, <1>4 DEF Resize, BufferInv, PictureInv, Planes
  <2>2. total_size(frame[c]) <= yuv_buffer'.capacity
    BY <1>1, <2>1, TotalSizes, ResizedVector DEF BufferInv
  <2>3. 0 \in Lines(frame[c], "Y")
    BY <2>1, FrameSizes DEF Lines
  <2>4. PacksRight(c)'
    <3>1. \A p \in Planes, y \in Nat : ~Packs(c, p, y)'
      BY <2>1 DEF Packs
    <3>2. \A p \in Planes : \A y \in Lines(frame[c], p) : y \in Nat
      BY DEF Lines
    <3>3. QED
      BY <2>1, <3>1, <3>2 DEF PacksRight
  <2>5. ThreadInv(c)'
    BY <2>1, <2>2, <2>3, <2>4 DEF ThreadInv
  <2>6. QED
    BY <1>1, <1>3, <1>4, <2>1, <2>5 DEF PictureInv
<1>5. ASSUME NEW c \in Channels, lost = "no", CopyLine(c)
      PROVE PictureInv'
  <2>1. picture' = picture /\ row' = [d \in Channels |-> row'[d]]
    BY <1>5 DEF CopyLine, PictureInv
  <2>2. QED
    BY <1>1, <1>3, <1>5, <2>1, CopyLineThread DEF PictureInv
<1>6. ASSUME NEW c \in Channels, lost = "no", ToModel(c) \/ ToDisplay(c)
      PROVE PictureInv'
  <2>1. /\ UNCHANGED <<plane, row, yuv_buffer, frame, disturbed>>
        /\ pc[c] \in {"model", "display"} /\ pc'[c] \in {"display", "labels"}
        /\ picture'[c] = Delivered(c) \/ (pc[c] = "display" /\ picture'[c] = picture[c] \cup Delivered(c))
        /\ picture' = [d \in Channels |-> picture'[d]]
        /\ \A d \in Channels \ {c} : pc'[d] = pc[d] /\ picture'[d] = picture[d]
    BY <1>1, <1>6 DEF ToModel, ToDisplay, BufferInv, PictureInv
  <2>2. ASSUME ~disturbed[c]
        PROVE picture'[c] \subseteq Allowed(frame[c])
    BY <2>1, <2>2, DeliveredThread DEF PictureInv, ThreadInv
  <2>3. ASSUME Alone(c)'
        PROVE total_size(frame[c]) <= yuv_buffer.capacity /\ PacksRight(c)'
    <3>1. Alone(c)
      BY <2>1, <2>3 DEF Alone, InBuffer
    <3>2. total_size(frame[c]) <= yuv_buffer.capacity /\ PacksRight(c)
      BY <3>1 DEF PictureInv, ThreadInv
    <3>3. QED
      BY <2>1, <3>2 DEF PacksRight, Packs
  <2>4. ThreadInv(c)'
    BY <2>1, <2>2, <2>3 DEF ThreadInv
  <2>5. \A d \in Channels \ {c} : ThreadInv(d)'
    BY <2>1, OtherThread
  <2>6. QED
    BY <1>1, <2>1, <2>4, <2>5 DEF PictureInv
<1>7. ASSUME NEW c \in Channels, lost = "no",
             CheckInit(c) \/ LoadLine(c) \/ LoadEnds(c) \/ LookUp(c) \/ Finish(c)
      PROVE PictureInv'
  <2>1. /\ UNCHANGED <<plane, row, yuv_buffer>>
        /\ pc'[c] \in {"load", "look up", "named", "decode"}
        /\ picture' = [d \in Channels |-> picture'[d]]
        /\ \A d \in Channels \ {c} : pc'[d] = pc[d] /\ picture'[d] = picture[d]
                                     /\ frame'[d] = frame[d] /\ disturbed'[d] = disturbed[d]
    BY <1>1, <1>7
    DEF CheckInit, LoadLine, LoadEnds, LookUp, Finish, BufferInv, PictureInv, converting
  <2>2. ThreadInv(c)'
    BY <2>1 DEF ThreadInv, Alone, InBuffer
  <2>3. \A d \in Channels \ {c} : ThreadInv(d)'
    BY <2>1, OtherThread
  <2>4. QED
    BY <1>1, <2>1, <2>2, <2>3 DEF PictureInv
<1>8. ASSUME UNCHANGED <<pc, converting>>
      PROVE PictureInv'
  <2>1. \A d \in Channels : ThreadInv(d)'
    BY <1>8, OtherThread DEF converting
  <2>2. QED
    BY <1>1, <1>8, <2>1 DEF PictureInv, converting
<1>9. ASSUME NEW c \in Channels, ResizesCollide(c) \/ UseStale(c) \/ CopyNull(c)
      PROVE PictureInv'
  BY <1>8, <1>9 DEF ResizesCollide, UseStale, CopyNull
<1>10. CASE UNCHANGED vars
  BY <1>8, <1>10 DEF vars
<1> QED
  BY <1>2, <1>4, <1>5, <1>6, <1>7, <1>9, <1>10 DEF Next

\* For any number of threads and frames of any size, format and pitch: a frame
\* that was alone in the buffer is delivered sample for sample, but for the
\* chroma of a DRM frame with more lines in its luma plane than in its picture.
THEOREM PicturesCorrect == Spec => []OwnPicture
<1>1. PictureInv => OwnPicture
  BY DEF PictureInv, ThreadInv, OwnPicture, Delivering, Allowed
<1> QED
  BY <1>1, InitPictures, NextPictures, PTL DEF Spec
=============================================================================
