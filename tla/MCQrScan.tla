--------------------------------- MODULE MCQrScan ------------------------------
(* A small instance of QrScan for TLC: pictures of a few pixels, codes that say *)
(* nothing, one character, or two strings of which the scan keeps the first.    *)
EXTENDS QrScan

\* src_pitch is passed to two of the conversions only.
Picture(format, w, h, src_pitch, Pixel(_, _)) ==
    [format |-> format, w |-> w, h |-> h, src_pitch |-> src_pitch,
     pixel |-> [y \in 0..(h-1) |-> [x \in 0..(w-1) |-> Pixel(x, y)]]]

Yuv(x, y) == [y |-> 16 + 40 * x + 70 * y, c |-> 128]
Rgb332(x, y) == [r |-> (3 * x + 7 * y) % 8, g |-> (5 * x) % 8, b |-> (x + y) % 4]
Rgb565(x, y) == [r |-> (31 * y) % 32, g |-> (21 * x) % 64, b |-> (9 * x) % 32]
\* The brightest pixel and three of one component each.
Rgb888(x, y) == [r |-> IF x = 0 THEN 255 ELSE 0, g |-> IF y = x THEN 255 ELSE 0,
                 b |-> IF y = 0 THEN 255 ELSE 0]

\* YUYV rows as far apart as documented and packed; a BGRA row with padding.
Pictures == {
    Picture("nv12", 3, 2, 0, Yuv), Picture("yuyv", 2, 2, 8, Yuv),
    Picture("yuyv", 3, 3, 8, Yuv), Picture("yuyv", 1, 2, 4, Yuv),
    Picture("bgra8888", 2, 2, 8, Rgb888), Picture("bgra8888", 1, 2, 8, Rgb888),
    Picture("rgb332", 4, 2, 0, Rgb332)}
Pictures565 == {Picture("rgb565", 2, 2, 0, Rgb565)}

Says3 == {<<NUL>>, <<1, NUL>>, <<2, NUL, 1, NUL>>}
================================================================================
