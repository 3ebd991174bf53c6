------------------------------ MODULE GrayConvert ------------------------------
(***************************************************************************)
(* The conversions of a camera image to grey in src/qrscan/uikit_qrscan.c:   *)
(* what a row of the source holds, and which grey byte goes where.           *)
(*                                                                         *)
(* A pixel is a record of its components: r, g, b in as many bits as the     *)
(* format has, or y with the chroma c.  Conversions index memory as the code *)
(* does; the bit fields of a packed pixel are taken out with \div and %.     *)
(* Definitions marked "faulty" are mistakes the properties must detect.      *)
(***************************************************************************)
EXTENDS Integers

Byte == 256

\* The luma of the code, with black at 16.
Luma(r, g, b) == ((66 * r + 129 * g + 25 * b + 4224) \div 256) % Byte

Formats == {"nv12", "yuyv", "bgra8888", "rgb565", "rgb332"}

\* The components of a pixel, each in the bits the format gives it.
Rgb(red, green, blue) == [r : 0..(red - 1), g : 0..(green - 1), b : 0..(blue - 1)]
Pixels(format) ==
    CASE format \in {"nv12", "yuyv"} -> [y : 0..(Byte - 1), c : 0..(Byte - 1)]
      [] format = "bgra8888" -> Rgb(Byte, Byte, Byte)
      [] format = "rgb565"   -> Rgb(32, 64, 32)
      [] format = "rgb332"   -> Rgb(8, 8, 4)

--------------------------------------------------------------------------------
(* The rows of an image as the client gives them.  YUYV and BGRA rows lie      *)
(* src_pitch bytes apart, whatever that is, and the client passes the true      *)
(* value.  The header documents 4 * w for both, but whole pairs of YUYV take    *)
(* 2 * w bytes only: for rows packed that close the documented value is wrong,  *)
(* and no client in the repository shows which rows are meant.                  *)
(*                                                                         *)
(* BGRA pixels are those the demo hands over, of LVGL's native format with      *)
(* alpha, which the video adapter equates with BGRA8888: bytes B G R A.  The    *)
(* comment at the conversion says (msb)8B 8G 8R 8A(lsb); in the sense of the    *)
(* other comments that is A R G B in memory, which the code would misread.      *)

Pitched == {"yuyv", "bgra8888"}

\* The bytes that the pixels of a row take: pairs Y0 U Y1 V, or four for each.
RowBytes(format, w) == IF format = "yuyv" THEN 4 * ((w + 1) \div 2) ELSE 4 * w

\* What stands behind the pixels of a row.
Padding == [y |-> 0, c |-> 0, r |-> 0, g |-> 0, b |-> 0]

\* src_pitch bytes of a pitched row, or its w samples.
RowInMemory(format, w, src_pitch, row) ==
    LET pixel(x) == IF x < w THEN row[x] ELSE Padding IN
    CASE format = "nv12" -> [x \in 0..(w-1) |-> row[x].y]
      [] format = "yuyv" -> [i \in 0..(src_pitch - 1) |->
           IF i % 2 = 0 THEN pixel(i \div 2).y ELSE pixel(i \div 2).c]
      [] format = "bgra8888" -> [i \in 0..(src_pitch - 1) |->
           LET p == pixel(i \div 4) IN <<p.b, p.g, p.r, Byte - 1>>[(i % 4) + 1]]
      \* packed, from the most significant bit: 5 R 6 G 5 B, 3 R 3 G 2 B
      [] format = "rgb565" -> [x \in 0..(w-1) |->
           row[x].r * 2048 + row[x].g * 32 + row[x].b]
      [] format = "rgb332" -> [x \in 0..(w-1) |->
           row[x].r * 32 + row[x].g * 4 + row[x].b]

--------------------------------------------------------------------------------
(* The conversions: grey byte x of the row at src.                            *)

Nv12ToGray(src, x) == src[x]

\* The loop takes two pixels at a time.
YuyvToGray(src, x) == LET yuv == 4 * (x \div 2) IN
    IF x % 2 = 0 THEN src[yuv] ELSE src[yuv + 2]

Bgra8888ToGray(src, x) == LET rgb32 == 4 * x IN
    Luma(src[rgb32 + 2], src[rgb32 + 1], src[rgb32])

\* The fields are taken the other way round than the comment says.
Rgb565ToGray(src, x) ==
    Luma(src[x] % 32, (src[x] \div 32) % 64, (src[x] \div 2048) % 32)

Rgb332ToGray(src, x) ==
    Luma((src[x] \div 32) % 8, (src[x] \div 4) % 8, src[x] % 4)

ToGray(format, src, x) ==
    CASE format = "nv12"     -> Nv12ToGray(src, x)
      [] format = "yuyv"     -> YuyvToGray(src, x)
      [] format = "bgra8888" -> Bgra8888ToGray(src, x)
      [] format = "rgb565"   -> Rgb565ToGray(src, x)
      [] format = "rgb332"   -> Rgb332ToGray(src, x)

\* Grey bytes that the loop over a row writes.
Written(format, w) == IF format = "yuyv" THEN 2 * ((w + 1) \div 2) ELSE w

\* The row that the loop converts after `done' others.
NextRowFromBelow(h, done) == h - 1 - done                            \* faulty
NextRow(h, done) == done

\* dst, with pitch w, after row y.
ConvertRow(format, w, y, src, dst) ==
    LET new == y * w .. y * w + Written(format, w) - 1 IN
    [i \in DOMAIN dst \cup new |->
       IF i \in new THEN ToGray(format, src, i - y * w) ELSE dst[i]]

--------------------------------------------------------------------------------
(* The grey value of a pixel, from its components.                            *)

GrayOf(format, p) ==
    IF format \in {"nv12", "yuyv"} THEN p.y ELSE Luma(p.r, p.g, p.b)
================================================================================
