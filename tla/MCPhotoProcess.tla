--------------------------- MODULE MCPhotoProcess ---------------------------
(* photo.Process with small limits and short uploads.                       *)
EXTENDS PhotoProcess

\* Two segments fit in 48 bytes, the second with the EXIF header, the TIFF
\* header and an entry: 2 + 2 + 2 + 2 + 2 + 6 + 8 + 2 + 12 is 38.
ShortLengths == {0, 1, 2, 3, 4, 5, 12, 20, 38, 48}

ShortWords == {0, 1, 2, 3, 7, 8, 9, 16, 18, 30, 42, 43, 65534}

SmallOffsets == {0, 6, 7, 8, 9, 20, 22, 30, 65536}
=============================================================================
