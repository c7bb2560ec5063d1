----------------------------- MODULE PixelLayout -----------------------------
(***************************************************************************)
(* ffmpeg.cpp: where the samples of a decoded frame lie, as decode(),      *)
(* process_frame_software_fallback() and the stride-aware conversions each *)
(* compute it for themselves.  decode() rounds the size up and finds the   *)
(* pitch; the fallback packs the planes of a YUV420P frame into            *)
(* yuv_buffer; the conversions read it back by width, height and stride.   *)
(*                                                                         *)
(* A frame is a record: format is "YUV420P" or "DRM_PRIME", w and h are    *)
(* the decoder's size, and for DRM_PRIME pitch and rows are the length and *)
(* the number of the lines of its luma plane, which the chroma follows.    *)
(* Samples and offsets count from 0, as in the code.                       *)
(***************************************************************************)
EXTENDS Integers

RoundUp(n, unit) == ((n + unit - 1) \div unit) * unit

\* w and h as decode() hands them on, in this order for each format.
Width(f) == IF f.format = "DRM_PRIME" THEN RoundUp(f.w, 16) ELSE RoundUp(f.w, 2)
Height(f) == RoundUp(f.h, 2)

\* Fault: the pitch is taken for the stride as it is.
PitchAsItIs(f) == IF f.format = "DRM_PRIME" THEN f.pitch ELSE f.w

\* The pitch is that of the descriptor, or the width before it was rounded up;
\* a pitch below the width is replaced by the width.
Stride(f) ==
    LET pitch == IF f.format = "DRM_PRIME" THEN f.pitch ELSE f.w
    IN IF pitch < Width(f) THEN Width(f) ELSE pitch

-----------------------------------------------------------------------------
(* yuv_buffer, as the fallback fills it: Y, then U, then V, without gaps.  *)

y_size(f) == Width(f) * Height(f)
uv_size(f) == (Width(f) \div 2) * (Height(f) \div 2)
total_size(f) == y_size(f) + 2 * uv_size(f)

Planes == {"Y", "U", "V"}

\* Columns and lines of a plane.
Columns(f, plane) == 0..(IF plane = "Y" THEN Width(f) ELSE Width(f) \div 2) - 1
Lines(f, plane) == 0..(IF plane = "Y" THEN Height(f) ELSE Height(f) \div 2) - 1

PlaneStart(f, plane) ==
    CASE plane = "Y" -> 0
      [] plane = "U" -> y_size(f)
      [] plane = "V" -> y_size(f) + uv_size(f)

RowLength(f, plane) == IF plane = "Y" THEN Width(f) ELSE Width(f) \div 2

\* Where memcpy puts a sample.
Packed(f, plane, x, y) == PlaneStart(f, plane) + y * RowLength(f, plane) + x

-----------------------------------------------------------------------------
(* The conversions.  The pixel they want is anywhere in the picture: src_x *)
(* and src_y are clamped to it.                                            *)

\* yuv420p_to_bgr888_stride, and the same lines of its variant for the model.
Yuv420p(f, plane, src_x, src_y) ==
    LET stride == Stride(f)
        chroma == (src_y \div 2) * (stride \div 2) + src_x \div 2
    IN CASE plane = "Y" -> src_y * stride + src_x
         [] plane = "U" -> stride * Height(f) + chroma
         [] plane = "V" -> stride * Height(f) + (stride \div 2) * (Height(f) \div 2) + chroma

\* nv12_to_bgr888_stride, and the same lines of its variant for the model.
Nv12(f, plane, src_x, src_y) ==
    LET stride == Stride(f)
        uv_idx == (src_y \div 2) * stride + (src_x \div 2) * 2
    IN CASE plane = "Y" -> src_y * stride + src_x
         [] plane = "U" -> stride * Height(f) + uv_idx
         [] plane = "V" -> stride * Height(f) + uv_idx + 1

\* The column and the line of the sample for a pixel.
SampleX(plane, x) == IF plane = "Y" THEN x ELSE x \div 2
SampleY(plane, y) == IF plane = "Y" THEN y ELSE y \div 2

\* Where the decoder put a sample of a DRM_PRIME frame: the chroma begins after
\* all lines of the luma plane, those below the picture included.
InObject(f, plane, x, y) ==
    CASE plane = "Y" -> y * f.pitch + x
      [] plane = "U" -> f.pitch * f.rows + y * f.pitch + 2 * x
      [] plane = "V" -> f.pitch * f.rows + y * f.pitch + 2 * x + 1

\* objects[0].size: chroma has half as many lines as luma.
ObjectSize(f) == f.pitch * f.rows + f.pitch * (f.rows \div 2)
=============================================================================
