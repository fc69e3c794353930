----------------------------- MODULE PhotoProcess -----------------------------
(***************************************************************************)
(* photo.Process on one upload: the limits, the walk through the segments  *)
(* of a JPEG to its orientation tag, the scaled size and the turn.  What   *)
(* the bytes say is chosen where the code reads them, so that every file   *)
(* is among the behaviours; where it reads them is kept in touched.        *)
(***************************************************************************)
EXTENDS Integers

CONSTANTS
    MaxEdge, MaxPixels, MaxSide, MaxDecodeBytes, ScalerCellBytes,
    Sides,       \* widths and heights a header may declare
    Lengths,     \* lengths of the upload, up to MaxBytes
    Offsets,     \* values of a 32-bit offset
    Words,       \* values of a 16-bit length or count
    Models,      \* colour models a header may declare
    NoImage      \* no result yet

ASSUME LimitAssumption ==
    /\ MaxEdge \in Nat \ {0} /\ MaxPixels \in Nat /\ MaxSide \in Nat
    /\ MaxDecodeBytes \in Nat /\ ScalerCellBytes \in Nat
ASSUME InputAssumption ==
    Sides \subseteq Nat /\ Lengths \subseteq Nat /\ Offsets \subseteq Nat /\ Words \subseteq Nat
ASSUME ModelAssumption ==
    Models \subseteq {"rgba64", "rgba", "ycbcr", "gray16", "gray", "unknown"}
ASSUME ResultAssumption == NoImage \notin Int

VARIABLES
    at,          \* the step
    len,         \* len(data)
    img,         \* what the header declares
    pos,         \* position in data
    payload,     \* the segment's payload, then the TIFF block: its length
    entries,     \* of the IFD: where they start, how many, and the next one
    orient,      \* 1..8
    out,         \* width and height of the result
    touched      \* end of the last slice taken, and the length it was taken of

processVars == <<at, len, img, pos, payload, entries, orient, out, touched>>

ifdEntrySize == 12
exifHeaderLen == 6
NoEntries == [start |-> 0, count |-> 0, next |-> 0]

Steps == {"config", "marker", "fill", "length", "payload", "tiff", "ifd", "entry",
          "decode", "done", "refused"}

ProcessTypeOK ==
    /\ at \in Steps /\ len \in Lengths /\ pos \in Nat /\ payload \in Nat
    /\ img \in [w : Sides, h : Sides, model : Models]
    /\ entries \in [start : Nat, count : Nat, next : Nat]
    /\ orient \in 1..8
    /\ out = NoImage \/ out \in [w : Nat, h : Nat]
    /\ touched \in [to : Nat, of : Nat]

\* An upload within MaxBytes.
ProcessInit ==
    /\ at = "config" /\ len \in Lengths /\ pos = 0 /\ payload = 0
    /\ img \in [w : Sides, h : Sides, model : Models]
    /\ entries = NoEntries /\ orient = 1 /\ out = NoImage
    /\ touched = [to |-> 0, of |-> 0]
-------------------------------------------------------------------------------
(* Sizes.                                                                  *)

Larger(a, b) == IF a > b THEN a ELSE b

\* One side, rounded to the nearest.
Fitted(side, long) == Larger(1, (side * MaxEdge + long \div 2) \div long)

scaledSize(w, h) ==
    LET long == Larger(w, h)
    IN  IF long > MaxEdge THEN [w |-> Fitted(w, long), h |-> Fitted(h, long)]
        ELSE [w |-> w, h |-> h]

bytesPerPixel ==
    [rgba64 |-> 8, rgba |-> 4, ycbcr |-> 3, gray16 |-> 2, gray |-> 1, unknown |-> 8]

estimatedPeak(i) ==
    i.w * i.h * bytesPerPixel[i.model] + scaledSize(i.w, i.h).w * i.h * ScalerCellBytes

\* Defect: only the number of pixels is bounded.
WithinLimitsPixels(i) == i.w > 0 /\ i.h > 0 /\ i.w * i.h <= MaxPixels

WithinLimits(i) ==
    /\ i.w > 0 /\ i.h > 0
    /\ i.w <= MaxSide /\ i.h <= MaxSide /\ i.w * i.h <= MaxPixels
    /\ estimatedPeak(i) <= MaxDecodeBytes
-------------------------------------------------------------------------------
Touch(to, of) == touched' = [to |-> to, of |-> of]

Refuse == at' = "refused" /\ UNCHANGED <<len, img, pos, payload, entries, orient, out, touched>>

\* No usable tag: the image is upright.
Upright1 ==
    /\ at' = "decode" /\ orient' = 1
    /\ UNCHANGED <<len, img, pos, payload, entries, out>>

\* Not an image, not JPEG or PNG, or too large.
ConfigRefused == at = "config" /\ Refuse

\* DecodeConfig; only a JPEG has an orientation.
ConfigPNG ==
    /\ at = "config" /\ WithinLimits(img)
    /\ Upright1 /\ UNCHANGED touched

ConfigJPEG ==
    /\ at = "config" /\ WithinLimits(img) /\ len >= 2
    /\ at' = "marker" /\ pos' = 2 /\ Touch(2, len)
    /\ UNCHANGED <<len, img, payload, entries, orient, out>>
-------------------------------------------------------------------------------
(* orientation                                                             *)

\* The byte at pos is 0xFF and is skipped.
Marker ==
    /\ at = "marker" /\ pos < len /\ Touch(pos + 1, len)
    /\ pos' = pos + 1 /\ at' = "fill"
    /\ UNCHANGED <<len, img, payload, entries, orient, out>>

\* It is not, or the data ends here.
MarkerAbsent ==
    /\ at = "marker"
    /\ IF pos < len THEN Touch(pos + 1, len) ELSE UNCHANGED touched
    /\ Upright1

\* Another fill byte, or the marker.
Fill ==
    /\ at = "fill" /\ pos < len /\ Touch(pos + 1, len)
    /\ pos' = pos + 1 /\ at' \in {"fill", "length"}
    /\ UNCHANGED <<len, img, payload, entries, orient, out>>

\* Start of scan, or the end of the data.
FillEnds ==
    /\ at = "fill"
    /\ IF pos < len THEN Touch(pos + 1, len) ELSE UNCHANGED touched
    /\ Upright1

LengthThere == pos + 2 <= len

Segment(segLen) ==
    /\ at = "length" /\ LengthThere
    /\ segLen >= 2 /\ pos + segLen <= len
    /\ Touch(pos + segLen, len)
    /\ payload' = segLen - 2 /\ pos' = pos + segLen /\ at' = "payload"
    /\ UNCHANGED <<len, img, entries, orient, out>>

\* The length itself is read, and is of no use.
SegmentBad ==
    /\ at = "length" /\ LengthThere /\ Touch(pos + 2, len) /\ Upright1

SegmentCut == at = "length" /\ ~LengthThere /\ Upright1 /\ UNCHANGED touched

\* Not EXIF: on to the next segment.
OtherSegment ==
    /\ at = "payload" /\ at' = "marker"
    /\ UNCHANGED <<len, img, pos, payload, entries, orient, out, touched>>

Exif ==
    /\ at = "payload" /\ payload >= exifHeaderLen /\ Touch(exifHeaderLen, payload)
    /\ payload' = payload - exifHeaderLen /\ at' = "tiff"
    /\ UNCHANGED <<len, img, pos, entries, orient, out>>
-------------------------------------------------------------------------------
(* tiffOrientation; payload is len(tiff).                                  *)

Tiff ==
    /\ at = "tiff" /\ payload >= 8 /\ Touch(8, payload) /\ at' = "ifd"
    /\ UNCHANGED <<len, img, pos, payload, entries, orient, out>>

TiffBad ==
    /\ at = "tiff"
    /\ IF payload >= 8 THEN Touch(8, payload) ELSE UNCHANGED touched
    /\ Upright1

\* Defect: the count is looked at, the entries are not.
EntriesThereFirst(ifd, count) == ifd + 2 + (count - 1) * ifdEntrySize <= payload

EntriesThere(ifd, count) == ifd + 2 + count * ifdEntrySize <= payload

Ifd(ifd, count) ==
    /\ at = "ifd" /\ ifd + 2 <= payload /\ EntriesThere(ifd, count)
    /\ Touch(ifd + 2, payload)
    /\ entries' = [start |-> ifd + 2, count |-> count, next |-> 0] /\ at' = "entry"
    /\ UNCHANGED <<len, img, pos, payload, orient, out>>

IfdOutside(ifd) == at = "ifd" /\ ifd + 2 > payload /\ Upright1 /\ UNCHANGED touched

EntriesOutside(ifd, count) ==
    /\ at = "ifd" /\ ifd + 2 <= payload /\ ~EntriesThere(ifd, count)
    /\ Touch(ifd + 2, payload) /\ Upright1

EntryEnd == entries.start + (entries.next + 1) * ifdEntrySize

TakeEntry == at = "entry" /\ entries.next < entries.count /\ Touch(EntryEnd, payload)

OtherEntry ==
    /\ TakeEntry /\ entries' = [entries EXCEPT !.next = @ + 1]
    /\ UNCHANGED <<at, len, img, pos, payload, orient, out>>

ValidOrientation(v) == v >= 1 /\ v <= 8

OrientationEntry(v) ==
    /\ TakeEntry /\ at' = "decode"
    /\ orient' = IF ValidOrientation(v) THEN v ELSE 1
    /\ UNCHANGED <<len, img, pos, payload, entries, out>>

\* Not a SHORT.
OrientationType == TakeEntry /\ Upright1

NoOrientation ==
    at = "entry" /\ entries.next >= entries.count /\ Upright1 /\ UNCHANGED touched
-------------------------------------------------------------------------------
(* Decode, scale, turn, encode.                                            *)

\* Width and height after orientation o.
Turned(o, s) == IF o >= 5 THEN [w |-> s.h, h |-> s.w] ELSE s

\* Defect: clockwise and counter-clockwise are the other way round.
SourceSwapped(o, w, h, x, y) ==
    CASE o = 2 -> <<w - 1 - x, y>>
      [] o = 3 -> <<w - 1 - x, h - 1 - y>>
      [] o = 4 -> <<x, h - 1 - y>>
      [] o = 5 -> <<y, x>>
      [] o = 6 -> <<w - 1 - y, x>>
      [] o = 7 -> <<w - 1 - y, h - 1 - x>>
      [] o = 8 -> <<y, h - 1 - x>>
      [] OTHER -> <<x, y>>

\* orient8: the pixel of a w x h image that lands at <<x, y>>.
Source(o, w, h, x, y) ==
    CASE o = 2 -> <<w - 1 - x, y>>
      [] o = 3 -> <<w - 1 - x, h - 1 - y>>
      [] o = 4 -> <<x, h - 1 - y>>
      [] o = 5 -> <<y, x>>
      [] o = 6 -> <<y, h - 1 - x>>
      [] o = 7 -> <<w - 1 - y, h - 1 - x>>
      [] o = 8 -> <<w - 1 - y, x>>
      [] OTHER -> <<x, y>>

Finish ==
    /\ at = "decode" /\ at' = "done"
    /\ out' = Turned(orient, scaledSize(img.w, img.h))
    /\ UNCHANGED <<len, img, pos, payload, entries, orient, touched>>

DecodeFails == at = "decode" /\ Refuse

Header == ConfigRefused \/ ConfigPNG \/ ConfigJPEG

Walk ==
    \/ Marker \/ MarkerAbsent \/ Fill \/ FillEnds
    \/ \E n \in Words : Segment(n)
    \/ SegmentBad \/ SegmentCut \/ OtherSegment \/ Exif

TiffWalk ==
    \/ Tiff \/ TiffBad
    \/ \E ifd \in Offsets : IfdOutside(ifd) \/ \E n \in Words : Ifd(ifd, n) \/ EntriesOutside(ifd, n)
    \/ \E v \in 0..9 : OrientationEntry(v)
    \/ OtherEntry \/ OrientationType \/ NoOrientation

ProcessNext == Header \/ Walk \/ TiffWalk \/ Finish \/ DecodeFails

ProcessSpec == ProcessInit /\ [][ProcessNext]_processVars

-------------------------------------------------------------------------------
(* Properties.                                                             *)

\* No input can make the walk panic: no slice of orientation and
\* tiffOrientation ends beyond what it is taken of.
InBounds == touched.to <= touched.of

\* The two sides before the turn, which is its own inverse on sizes.
Stored == Turned(orient, out)

\* t is the integer nearest to side * MaxEdge / long.
Nearest(t, side, long) ==
    /\ 2 * t * long <= 2 * side * MaxEdge + long
    /\ 2 * side * MaxEdge <= 2 * t * long + long

\* scaledSize: a photo with a side over MaxEdge gets a long side of exactly
\* MaxEdge and the other at the nearest integer, at least 1; any other photo
\* keeps its size.
KeepsAspect ==
    at = "done" =>
        LET long == Larger(img.w, img.h)
        IN  IF long <= MaxEdge THEN Stored = [w |-> img.w, h |-> img.h]
            ELSE /\ Larger(Stored.w, Stored.h) = MaxEdge
                 /\ \A s \in {<<Stored.w, img.w>>, <<Stored.h, img.h>>} :
                        s[1] >= 1 /\ (Nearest(s[1], s[2], long) \/ s[1] = 1)

\* Bytes of pixels held at most: the decoded image, the scaler's rows, the RGBA it
\* writes and the one orient8 turns that into.  The bytes of the upload, and the
\* coefficients a progressive JPEG is decoded from, come on top.
Held ==
    LET s == scaledSize(img.w, img.h)
    IN  img.w * img.h * bytesPerPixel[img.model] + s.w * img.h * ScalerCellBytes
        + 2 * (4 * s.w * s.h)

\* The header's limits bound the pixels that decoding, scaling and turning hold:
\* MaxDecodeBytes and two output images.
MemoryBounded == at \in {"decode", "done"} => Held <= MaxDecodeBytes + 2 * (4 * MaxEdge * MaxEdge)

\* The meaning of the tag: on which visual side row 0 and column 0 lie.
VisualSides == <<
    <<"top", "left">>, <<"top", "right">>, <<"bottom", "right">>, <<"bottom", "left">>,
    <<"left", "top">>, <<"right", "top">>, <<"right", "bottom">>, <<"left", "bottom">> >>

\* Where the pixel at column sx and row sy is seen in an image of dw by dh.
SeenX(o, dw, sx, sy) ==
    CASE VisualSides[o][1] = "left"  -> sy
      [] VisualSides[o][1] = "right" -> dw - 1 - sy
      [] VisualSides[o][2] = "left"  -> sx
      [] VisualSides[o][2] = "right" -> dw - 1 - sx

SeenY(o, dh, sx, sy) ==
    CASE VisualSides[o][1] = "top"    -> sy
      [] VisualSides[o][1] = "bottom" -> dh - 1 - sy
      [] VisualSides[o][2] = "top"    -> sx
      [] VisualSides[o][2] = "bottom" -> dh - 1 - sx

\* orient8 reads inside the scaled image, and each of its pixels ends where
\* the tag says it is seen.
Upright ==
    at = "done" =>
        \A x \in 0..(out.w - 1), y \in 0..(out.h - 1) :
            LET s == Source(orient, Stored.w, Stored.h, x, y)
            IN  /\ s[1] \in 0..(Stored.w - 1) /\ s[2] \in 0..(Stored.h - 1)
                /\ SeenX(orient, out.w, s[1], s[2]) = x
                /\ SeenY(orient, out.h, s[1], s[2]) = y

\* Any header: the photo keeps its proportions, and the memory fits the limits that
\* let it in.
Scaled == KeepsAspect /\ MemoryBounded
===============================================================================
