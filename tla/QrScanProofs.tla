------------------------------ MODULE QrScanProofs ------------------------------
(***************************************************************************)
(* Theorems about the QR scan for any pictures, any payloads and any number  *)
(* of scans: every byte of the grey image is right, the borrowed image goes  *)
(* back, and nothing is freed twice or lost.                                 *)
(***************************************************************************)
EXTENDS QrScan, SequenceTheorems, WellFoundedInduction, TLAPS

--------------------------------------------------------------------------------
(* The conversions.  RGB565 is excluded: its fields are taken the wrong way    *)
(* round.  BGRA is that of the demo's images.                                  *)

\* The byte written for a pixel of the row is its grey.
LEMMA GrayOfRow ==
    ASSUME NEW format \in Formats \ {"rgb565"}, NEW w \in Nat,
           NEW row \in [0..(w - 1) -> Pixels(format)], NEW x \in 0..(w - 1), NEW pitch,
           format \in Pitched => pitch \in Nat /\ pitch >= RowBytes(format, w)
    PROVE  ToGray(format, RowInMemory(format, w, pitch, row), x) = GrayOf(format, row[x])
<1> DEFINE pixel(i) == IF i < w THEN row[i] ELSE Padding
<1>1. CASE format = "nv12"
  <2> DEFINE src == [i \in 0..(w - 1) |-> row[i].y]
  <2>1. src[x] = row[x].y
    OBVIOUS
  <2>2. RowInMemory(format, w, pitch, row) = src /\ ToGray(format, src, x) = src[x]
    BY <1>1 DEF RowInMemory, ToGray, Nv12ToGray
  <2>3. GrayOf(format, row[x]) = row[x].y
    BY <1>1 DEF GrayOf
  <2> QED BY <2>1, <2>2, <2>3
<1>2. CASE format = "yuyv"
  <2> DEFINE src == [i \in 0..(pitch - 1) |->
                       IF i % 2 = 0 THEN pixel(i \div 2).y ELSE pixel(i \div 2).c]
  <2>0. pitch \in Nat /\ pitch >= 4 * ((w + 1) \div 2)
    BY <1>2 DEF Pitched, RowBytes
  <2>1. RowInMemory(format, w, pitch, row) = src
    BY <1>2 DEF RowInMemory
  <2>2. GrayOf(format, row[x]) = row[x].y
    BY <1>2 DEF GrayOf
  <2>3. ToGray(format, src, x) = IF x % 2 = 0 THEN src[4 * (x \div 2)] ELSE src[4 * (x \div 2) + 2]
    BY <1>2 DEF ToGray, YuyvToGray
  <2>4. PICK n \in 0..(pitch - 1) :
          n = (IF x % 2 = 0 THEN 4 * (x \div 2) ELSE 4 * (x \div 2) + 2)
    BY <2>0
  <2>5. n % 2 = 0 /\ n \div 2 = x
    BY <2>4
  <2>6. src[n] = pixel(n \div 2).y
    BY <2>5
  <2>7. pixel(n \div 2) = row[x]
    BY <2>5
  <2> HIDE DEF src, pixel
  <2> QED BY <2>1, <2>2, <2>3, <2>4, <2>6, <2>7
<1>3. CASE format = "bgra8888"
  <2> DEFINE src == [i \in 0..(pitch - 1) |->
                LET p == pixel(i \div 4) IN <<p.b, p.g, p.r, Byte - 1>>[(i % 4) + 1]]
  <2>0. pitch \in Nat /\ pitch >= 4 * w
    BY <1>3 DEF Pitched, RowBytes
  <2>1. RowInMemory(format, w, pitch, row) = src
    BY <1>3 DEF RowInMemory
  <2>2. GrayOf(format, row[x]) = Luma(row[x].r, row[x].g, row[x].b)
    BY <1>3 DEF GrayOf
  <2>3. ToGray(format, src, x) = Luma(src[4 * x + 2], src[4 * x + 1], src[4 * x])
    BY <1>3 DEF ToGray, Bgra8888ToGray
  <2>4. ASSUME NEW k \in 0..3
        PROVE  src[4 * x + k] = <<row[x].b, row[x].g, row[x].r, Byte - 1>>[k + 1]
    <3>1. 4 * x + k \in 0..(pitch - 1) /\ (4 * x + k) \div 4 = x /\ (4 * x + k) % 4 = k
      BY <2>0
    <3>2. pixel(x) = row[x]
      OBVIOUS
    <3> QED BY <3>1, <3>2
  <2>5. /\ src[4 * x + 2] = row[x].r
        /\ src[4 * x + 1] = row[x].g
        /\ src[4 * x + 0] = row[x].b
    <3>1. 2 \in 0..3 /\ 1 \in 0..3 /\ 0 \in 0..3 /\ 2 + 1 = 3 /\ 1 + 1 = 2 /\ 0 + 1 = 1
      OBVIOUS
    <3>2. ASSUME NEW b, NEW g, NEW r, NEW a
          PROVE  <<b, g, r, a>>[3] = r /\ <<b, g, r, a>>[2] = g /\ <<b, g, r, a>>[1] = b
      OBVIOUS
    <3> HIDE DEF src
    <3>3. /\ src[4 * x + 2] = <<row[x].b, row[x].g, row[x].r, Byte - 1>>[3]
          /\ src[4 * x + 1] = <<row[x].b, row[x].g, row[x].r, Byte - 1>>[2]
          /\ src[4 * x + 0] = <<row[x].b, row[x].g, row[x].r, Byte - 1>>[1]
      <4>1. src[4 * x + 2] = <<row[x].b, row[x].g, row[x].r, Byte - 1>>[2 + 1]
        BY <2>4, <3>1
      <4>2. src[4 * x + 1] = <<row[x].b, row[x].g, row[x].r, Byte - 1>>[1 + 1]
        BY <2>4, <3>1
      <4>3. src[4 * x + 0] = <<row[x].b, row[x].g, row[x].r, Byte - 1>>[0 + 1]
        BY <2>4, <3>1
      <4> QED BY <3>1, <4>1, <4>2, <4>3
    <3> QED BY <3>2, <3>3
  <2>6. 4 * x + 0 = 4 * x
    OBVIOUS
  <2> HIDE DEF src
  <2> QED BY <2>1, <2>2, <2>3, <2>5, <2>6
<1>4. CASE format = "rgb332"
  <2> DEFINE src == [i \in 0..(w - 1) |-> row[i].r * 32 + row[i].g * 4 + row[i].b]
  <2>1. RowInMemory(format, w, pitch, row) = src
    BY <1>4 DEF RowInMemory
  <2>2. GrayOf(format, row[x]) = Luma(row[x].r, row[x].g, row[x].b)
    BY <1>4 DEF GrayOf
  <2>3. ToGray(format, src, x) = Luma((src[x] \div 32) % 8, (src[x] \div 4) % 8, src[x] % 4)
    BY <1>4 DEF ToGray, Rgb332ToGray
  <2>4. row[x].r \in 0..7 /\ row[x].g \in 0..7 /\ row[x].b \in 0..3
    <3>1. row[x] \in Rgb(8, 8, 4)
      BY <1>4 DEF Pixels
    <3> QED BY <3>1 DEF Rgb
  <2>5. src[x] = row[x].r * 32 + row[x].g * 4 + row[x].b
    OBVIOUS
  <2>6. /\ (src[x] \div 32) % 8 = row[x].r
        /\ (src[x] \div 4) % 8 = row[x].g
        /\ src[x] % 4 = row[x].b
    <3> HIDE DEF src
    <3>1. ASSUME NEW r \in 0..7, NEW g \in 0..7, NEW b \in 0..3, NEW v \in Nat,
                 v = r * 32 + g * 4 + b
          PROVE  (v \div 32) % 8 = r /\ (v \div 4) % 8 = g /\ v % 4 = b
      <4>1. v \div 32 = r /\ v \div 4 = 8 * r + g /\ v % 4 = b
        BY <3>1
      <4> QED BY <4>1
    <3>2. PICK r \in 0..7, g \in 0..7, b \in 0..3 :
            row[x].r = r /\ row[x].g = g /\ row[x].b = b
      BY <2>4
    <3>3. r * 32 + g * 4 + b \in Nat
      OBVIOUS
    <3>4. src[x] = r * 32 + g * 4 + b
      BY <2>5, <3>2
    <3> QED BY <3>1, <3>2, <3>3, <3>4
  <2> HIDE DEF src
  <2> QED BY <2>1, <2>2, <2>3, <2>6
<1> QED BY <1>1, <1>2, <1>3, <1>4 DEF Formats

\* A pixel that lies as the comment at its conversion says is misread: of
\* (msb)5R 6G 5B(lsb) red and blue change places (uikit_qrscan.c:166), and of
\* (msb)8B 8G 8R 8A(lsb), A R G B in memory, green is taken for red, red for green
\* and alpha for blue (uikit_qrscan.c:144).
THEOREM CommentsMisread ==
    /\ \A r \in 0..31, g \in 0..63, b \in 0..31 :
         Rgb565ToGray([x \in {0} |-> r * 2048 + g * 32 + b], 0) = Luma(b, g, r)
    /\ \A r, g, b, a \in 0..(Byte - 1) :
         Bgra8888ToGray([i \in 0..3 |-> <<a, r, g, b>>[i + 1]], 0) = Luma(g, r, a)
<1>1. ASSUME NEW r \in 0..31, NEW g \in 0..63, NEW b \in 0..31
      PROVE  Rgb565ToGray([x \in {0} |-> r * 2048 + g * 32 + b], 0) = Luma(b, g, r)
  <2>1. ASSUME NEW v \in Nat, v = r * 2048 + g * 32 + b
        PROVE  v % 32 = b /\ (v \div 32) % 64 = g /\ (v \div 2048) % 32 = r
    <3>1. v \div 2048 = r /\ v \div 32 = 64 * r + g /\ v % 32 = b
      BY <2>1
    <3> QED BY <3>1
  <2>2. PICK v \in Nat : v = r * 2048 + g * 32 + b
    OBVIOUS
  <2> QED BY <2>1, <2>2 DEF Rgb565ToGray
<1>2. ASSUME NEW r \in 0..(Byte - 1), NEW g \in 0..(Byte - 1), NEW b \in 0..(Byte - 1),
             NEW a \in 0..(Byte - 1)
      PROVE  Bgra8888ToGray([i \in 0..3 |-> <<a, r, g, b>>[i + 1]], 0) = Luma(g, r, a)
  <2> DEFINE src == [i \in 0..3 |-> <<a, r, g, b>>[i + 1]]
  <2>1. src[2] = g /\ src[1] = r /\ src[0] = a
    OBVIOUS
  <2>2. 4 * 0 = 0 /\ 0 + 2 = 2 /\ 0 + 1 = 1
    OBVIOUS
  <2> HIDE DEF src
  <2> QED BY <2>1, <2>2 DEF Bgra8888ToGray
<1> QED BY <1>1, <1>2

--------------------------------------------------------------------------------
(* The grey image.                                                            *)

\* The byte behind the rows done so far, when the last of them is a YUYV row of
\* odd width.
Spill(w) == IF camera.format = "yuyv" /\ w % 2 = 1 /\ rows > 0 THEN {w * rows} ELSE {}

\* The rows done so far are right, and only one byte may be past them: the next
\* row begins there and writes it again.
GrayRows(w) ==
    /\ DOMAIN gray = 0 .. w * rows - 1 \cup Spill(w)
    /\ \A y \in 0..(rows - 1), x \in 0..(w - 1) :
         gray[y * w + x] = GrayOf(camera.format, camera.pixel[y][x])

GrayInv == stage = "convert" =>
    /\ camera \in Images /\ rows \in 0..camera.h
    /\ GrayRows(camera.w)

\* Row y ends where row y + 1 begins, and an earlier row lies before it.
LEMMA RowPlaces ==
    ASSUME NEW w \in Nat, NEW y \in Nat
    PROVE  /\ y * w \in Nat /\ w * y = y * w /\ w * (y + 1) = y * w + w
           /\ \A k \in 0..(y - 1), x \in 0..(w - 1) :
                k * w + x \in 0 .. y * w - 1
<1>1. y * w \in Nat /\ w * y = y * w /\ w * (y + 1) = y * w + w
  OBVIOUS
<1>2. ASSUME NEW k \in 0..(y - 1), NEW x \in 0..(w - 1)
      PROVE  k * w + x \in 0 .. y * w - 1
  <2>1. PICK d \in Nat : y = k + 1 + d
    <3>1. y - (k + 1) \in Nat /\ y = k + 1 + (y - (k + 1))
      OBVIOUS
    <3> QED BY <3>1
  <2>2. y * w = k * w + w + d * w
    BY <2>1
  <2>3. k * w \in Nat /\ d * w \in Nat
    OBVIOUS
  <2> QED BY <2>2, <2>3
<1> QED BY <1>1, <1>2

\* One more row is converted.
LEMMA ConvertStep ==
    ASSUME GrayInv, Convert, \A c \in Images : c.format # "rgb565"
    PROVE  GrayInv'
<1>1. /\ stage = "convert" /\ stage' = stage /\ camera' = camera
      /\ rows' = rows + 1 /\ rows < camera.h
  BY DEF Convert
<1>2. PICK w \in Nat : w = camera.w
  BY <1>1, ImagesAssumption DEF GrayInv
<1>3. /\ camera \in Images /\ camera.h \in Nat /\ rows \in 0..camera.h /\ GrayRows(w)
      /\ camera.format \in Formats \ {"rgb565"}
      /\ camera.pixel \in [0..(camera.h - 1) -> [0..(w - 1) -> Pixels(camera.format)]]
  BY <1>1, <1>2, ImagesAssumption DEF GrayInv
<1>4. PICK format \in Formats \ {"rgb565"} : format = camera.format
  BY <1>3
<1>5. PICK row \in [0..(w - 1) -> Pixels(format)] : row = camera.pixel[rows]
  BY <1>1, <1>3, <1>4
<1>6. PICK y \in Nat : y = rows
  BY <1>3
<1>7. PICK start \in Nat : start = y * w /\ start = w * y /\ start + w = w * (y + 1)
  BY RowPlaces
<1>8. PICK count \in Nat : count = Written(format, w)
  BY DEF Written
<1>9. count = w \/ (format = "yuyv" /\ w % 2 = 1 /\ count = w + 1)
  BY <1>8 DEF Written
<1>10. (format = "yuyv" /\ w % 2 = 1) => count = w + 1
  BY <1>8 DEF Written
<1>11. PICK src : src = RowInMemory(format, w, camera.src_pitch, row)
  OBVIOUS
<1>12. gray' = ConvertRow(format, w, y, src, gray)
  BY <1>2, <1>4, <1>5, <1>6, <1>11 DEF Convert, NextRow
<1>13. gray' = [i \in DOMAIN gray \cup start .. start + count - 1 |->
         IF i \in start .. start + count - 1 THEN ToGray(format, src, i - start) ELSE gray[i]]
  BY <1>7, <1>8, <1>12 DEF ConvertRow
<1>14. DOMAIN gray = 0 .. start - 1 \cup Spill(w)
  BY <1>3, <1>6, <1>7 DEF GrayRows
<1>15. Spill(w) = IF format = "yuyv" /\ w % 2 = 1 /\ y > 0 THEN {start} ELSE {}
  BY <1>4, <1>6, <1>7 DEF Spill
<1>16. DOMAIN gray' = 0 .. start + count - 1
  <2>1. CASE count = 0
    BY <1>9, <1>10, <1>13, <1>14, <1>15, <2>1
  <2>2. CASE count > 0
    BY <1>9, <1>10, <1>13, <1>14, <1>15, <2>2
  <2> QED BY <2>1, <2>2
<1>17. DOMAIN gray' = 0 .. w * (y + 1) - 1 \cup Spill(w)'
  <2>1. Spill(w)' = IF format = "yuyv" /\ w % 2 = 1 THEN {start + w} ELSE {}
    <3>1. rows' = y + 1 /\ y + 1 > 0 /\ w * (y + 1) = start + w
      BY <1>1, <1>6, <1>7
    <3>2. rows' > 0 /\ w * rows' = start + w
      BY <3>1
    <3>3. camera'.format = format
      BY <1>1, <1>4
    <3> QED BY <3>2, <3>3 DEF Spill
  <2>2. CASE format = "yuyv" /\ w % 2 = 1
    BY <1>7, <1>10, <1>16, <2>1, <2>2
  <2>3. CASE ~(format = "yuyv" /\ w % 2 = 1)
    BY <1>7, <1>9, <1>16, <2>1, <2>3
  <2> QED BY <2>2, <2>3
<1>18. format \in Pitched =>
         camera.src_pitch \in Nat /\ camera.src_pitch >= RowBytes(format, w)
  BY <1>2, <1>3, <1>4, ImagesAssumption
<1>19. ASSUME NEW k \in 0..y, NEW x \in 0..(w - 1)
       PROVE  gray'[k * w + x] = GrayOf(format, camera.pixel[k][x])
  <2>1. CASE k = y
    <3>1. start + x \in start .. start + count - 1 /\ (start + x) - start = x
      BY <1>9
    <3>2. gray'[start + x] = ToGray(format, src, x)
      BY <1>13, <3>1
    <3>3. ToGray(format, src, x) = GrayOf(format, row[x])
      BY <1>3, <1>4, <1>11, <1>18, GrayOfRow
    <3> QED BY <1>5, <1>6, <1>7, <2>1, <3>2, <3>3
  <2>2. CASE k # y
    <3>1. k \in 0..(y - 1)
      BY <2>2
    <3>2. k * w + x \in 0 .. start - 1
      BY <1>7, <3>1, RowPlaces
    <3>3. gray'[k * w + x] = gray[k * w + x]
      <4>1. PICK i \in 0 .. start - 1 : i = k * w + x
        BY <3>2
      <4>2. i \in DOMAIN gray /\ i \notin start .. start + count - 1
        BY <1>14, <4>1
      <4> QED BY <1>13, <4>1, <4>2
    <3> QED BY <1>3, <1>4, <1>6, <3>1, <3>3 DEF GrayRows
  <2> QED BY <2>1, <2>2
<1>20. GrayRows(w)'
  <2>1. rows' = y + 1 /\ 0..(rows' - 1) = 0..y
    BY <1>1, <1>6
  <2> QED BY <1>1, <1>4, <1>17, <1>19, <2>1 DEF GrayRows
<1>21. rows' \in 0..camera.h
  BY <1>1, <1>3
<1> QED BY <1>1, <1>2, <1>3, <1>20, <1>21 DEF GrayInv

LEMMA GrayStep ==
    ASSUME \A c \in Images : c.format # "rgb565"
    PROVE  GrayInv /\ [Next]_vars => GrayInv'
<1> SUFFICES ASSUME GrayInv, [Next]_vars PROVE GrayInv'
  OBVIOUS
<1>1. CASE \E c \in Images : TakeImage(c)
  <2>1. PICK c \in Images : TakeImage(c)
    BY <1>1
  <2>2. rows' = 0 /\ gray' = <<>> /\ camera' = c
    BY <2>1 DEF TakeImage
  <2>3. PICK w \in Nat : w = c.w
    BY ImagesAssumption
  <2>4. c.h \in Nat /\ w * 0 = 0 /\ 0 .. 0 - 1 = {} /\ DOMAIN <<>> = {}
    BY ImagesAssumption
  <2>5. GrayRows(w)'
    BY <2>2, <2>4 DEF GrayRows, Spill
  <2> QED BY <2>2, <2>3, <2>4, <2>5 DEF GrayInv
<1>2. CASE Convert
  BY <1>2, ConvertStep
<1>3. CASE stage' # "convert"
  BY <1>3 DEF GrayInv
<1>4. CASE UNCHANGED <<stage, camera, rows, gray>>
  BY <1>4 DEF GrayInv, GrayRows, Spill
<1>5. ASSUME \/ Create \/ Destroy \/ ScanRefused
             \/ \E count \in 0..MaxCodes : BeginScan(count)
             \/ \E payload \in Payloads : DecodeCode(payload)
             \/ SkipCode \/ NoMemoryForMessage \/ EndScan
             \/ FreeMessage \/ FreeGray
      PROVE  stage' # "convert"
  BY <1>5 DEF Create, Destroy, ScanRefused, BeginScan, DecodeCode, SkipCode,
              NoMemoryForMessage, EndScan, FreeMessage, FreeGray
<1>6. CASE UNCHANGED vars
  BY <1>4, <1>6 DEF vars
<1> QED BY <1>1, <1>2, <1>3, <1>5, <1>6 DEF Next

\* For pictures of any size in any format but RGB565, as the client gives them and
\* with rows as far apart as the client says, every byte of the grey image is that
\* of its pixel when the conversion is over, and at most one byte is written past
\* the block.
THEOREM GrayIsExact ==
    ASSUME \A c \in Images : c.format # "rgb565"
    PROVE  Spec => []GrayExact
<1>1. Init => GrayInv
  BY DEF Init, GrayInv
<1>2. GrayInv => GrayExact
  <2> SUFFICES ASSUME GrayInv, stage = "convert", rows = camera.h PROVE GrayExact
    BY DEF GrayExact
  <2>1. PICK w \in Nat : w = camera.w
    BY ImagesAssumption DEF GrayInv
  <2>2. PICK h \in Nat : h = camera.h /\ h = rows
    BY ImagesAssumption DEF GrayInv
  <2>3. GrayRows(w)
    BY <2>1 DEF GrayInv
  <2>4. Spill(w) = {} \/ (Spill(w) = {w * h} /\ camera.format = "yuyv" /\ w % 2 = 1)
    BY <2>2 DEF Spill
  <2>5. DOMAIN gray = 0 .. w * h - 1 \cup Spill(w)
    BY <2>2, <2>3 DEF GrayRows
  <2>6. \A y \in 0..(h - 1), x \in 0..(w - 1) :
          gray[y * w + x] = GrayOf(camera.format, camera.pixel[y][x])
    BY <2>2, <2>3 DEF GrayRows
  <2> QED BY <2>1, <2>2, <2>4, <2>5, <2>6 DEF GrayExact
<1> QED BY <1>1, <1>2, GrayStep, PTL DEF Spec

--------------------------------------------------------------------------------
(* The message.                                                               *)

\* The first NUL of a payload exists, so a string can be taken out.
LEMMA StringOfPayload ==
    ASSUME NEW payload \in Payloads
    PROVE  \E k \in 1..Len(payload) :
             /\ CString(payload) \in Seq(Nat) /\ Len(CString(payload)) = k
             /\ \A i \in 1..k : CString(payload)[i] = payload[i]
             /\ payload[k] = NUL /\ \A i \in 1..(k - 1) : payload[i] # NUL
<1> DEFINE Ends == {n \in Nat : n \in DOMAIN payload /\ payload[n] = NUL}
           First(n) == payload[n] = NUL /\ \A i \in 1..(n - 1) : payload[i] # NUL
<1>1. payload \in Seq(Nat) /\ Len(payload) \in Nat /\ DOMAIN payload = 1..Len(payload)
  BY PayloadsAssumption
<1>2. Len(payload) \in Ends
  BY <1>1, PayloadsAssumption
<1>3. PICK n \in Ends : \A m \in Ends : ~(<<m, n>> \in OpToRel(<, Nat))
  BY <1>2, WFMin, NatLessThanWellFounded
<1>4. \A m \in Ends : ~(m < n)
  BY <1>3 DEF OpToRel
<1>5. n \in DOMAIN payload /\ First(n)
  BY <1>1, <1>4
<1>6. PICK k \in DOMAIN payload : First(k) /\ k = CHOOSE m \in DOMAIN payload : First(m)
  BY <1>5
<1>7. CString(payload) = SubSeq(payload, 1, k)
  BY <1>6 DEF CString
<1>8. k \in 1..Len(payload) /\ \A i \in 1..k : payload[i] \in Nat
  BY <1>1, <1>6
<1>9. /\ CString(payload) \in Seq(Nat) /\ Len(CString(payload)) = k
      /\ \A i \in 1..k : CString(payload)[i] = payload[i]
  BY <1>7, <1>8, SubSeqProperties
<1> QED BY <1>6, <1>8, <1>9

\* The message is a text of its block's size, or there is none.
MsgInv == msg = NULL \/ (msg \in Seq(Nat) /\ msg # <<>> /\ Len(msg) = room)

\* What a store leaves: the old text without its last NUL, the string, a NUL.
LEMMA StoreFacts ==
    ASSUME MsgInv, NEW payload \in Payloads, Store(payload)
    PROVE  \E len \in Nat, k \in 1..Len(payload) :
             /\ len = IF msg = NULL THEN 0 ELSE Len(msg) - 1
             /\ msg' \in Seq(Nat) /\ Len(msg') = len + k + 1 /\ room' = Len(msg')
             /\ \A i \in 1..len : msg'[i] = msg[i]
             /\ \A i \in 1..k : msg'[len + i] = payload[i]
             /\ msg'[len + k + 1] = NUL
             /\ payload[k] = NUL /\ \A i \in 1..(k - 1) : payload[i] # NUL
<1> DEFINE len == IF msg = NULL THEN 0 ELSE Len(msg) - 1
<1>1. /\ len \in Nat /\ Kept \in Seq(Nat) /\ Len(Kept) = len
      /\ \A i \in 1..len : Kept[i] = msg[i]
  <2>1. CASE msg = NULL
    BY <2>1, EmptySeq DEF Kept
  <2>2. CASE msg # NULL
    <3>1. msg \in Seq(Nat) /\ Len(msg) \in Nat \ {0} /\ \A i \in 1..(Len(msg) - 1) : msg[i] \in Nat
      BY <2>2, EmptySeq, ElementOfSeq DEF MsgInv
    <3>2. Kept = SubSeq(msg, 1, Len(msg) - 1)
      BY <2>2 DEF Kept, Front
    <3> DEFINE m == Len(msg) - 1
    <3>3. m \in Nat /\ \A i \in 1..m : msg[i] \in Nat
      BY <3>1
    <3>4. len = m /\ Kept = SubSeq(msg, 1, m)
      BY <2>2, <3>2
    <3> HIDE DEF m, len
    <3>5. /\ SubSeq(msg, 1, m) \in Seq(Nat) /\ Len(SubSeq(msg, 1, m)) = m
          /\ \A i \in 1..m : SubSeq(msg, 1, m)[i] = msg[i]
      <4>1. /\ SubSeq(msg, 1, m) \in Seq(Nat)
            /\ Len(SubSeq(msg, 1, m)) = IF 1 <= m THEN m - 1 + 1 ELSE 0
            /\ \A i \in 1 .. m - 1 + 1 : SubSeq(msg, 1, m)[i] = msg[1 + i - 1]
        BY <3>3, SubSeqProperties
      <4>2. m - 1 + 1 = m /\ (~(1 <= m) => m = 0) /\ \A i \in 1..m : 1 + i - 1 = i
        BY <3>3
      <4> QED BY <4>1, <4>2
    <3> QED BY <3>3, <3>4, <3>5
  <2> QED BY <2>1, <2>2
<1>2. PICK a \in Seq(Nat) : a = Kept
  BY <1>1
<1>3. PICK k \in 1..Len(payload) :
        /\ CString(payload) \in Seq(Nat) /\ Len(CString(payload)) = k
        /\ \A i \in 1..k : CString(payload)[i] = payload[i]
        /\ payload[k] = NUL /\ \A i \in 1..(k - 1) : payload[i] # NUL
  BY StringOfPayload
<1>4. PICK b \in Seq(Nat) : b = CString(payload)
  BY <1>3
<1>5. msg' = a \o b \o <<NUL>> /\ room' = Len(a) + Len(b) + 1
  BY <1>2, <1>4 DEF Store
<1> HIDE DEF len
<1>6. k \in Nat \ {0} /\ Len(a) = len /\ Len(b) = k
  BY <1>1, <1>2, <1>3, <1>4, PayloadsAssumption
<1>7. /\ a \o b \in Seq(Nat) /\ Len(a \o b) = len + k
      /\ \A i \in 1..(len + k) : (a \o b)[i] = IF i <= len THEN a[i] ELSE b[i - len]
  BY <1>6, ConcatProperties
<1>8. <<NUL>> \in Seq(Nat) /\ Len(<<NUL>>) = 1 /\ <<NUL>>[1] = NUL
  BY DEF NUL
<1>9. /\ msg' \in Seq(Nat) /\ Len(msg') = len + k + 1
      /\ \A i \in 1..(len + k + 1) :
           msg'[i] = IF i <= len + k THEN (a \o b)[i] ELSE <<NUL>>[i - (len + k)]
  BY <1>5, <1>7, <1>8, ConcatProperties
<1>10. \A i \in 1..len : msg'[i] = msg[i]
  BY <1>1, <1>2, <1>6, <1>7, <1>9
<1>11. \A i \in 1..k : msg'[len + i] = payload[i]
  <2> SUFFICES ASSUME NEW i \in 1..k PROVE msg'[len + i] = payload[i]
    OBVIOUS
  <2>1. /\ len + i \in 1..(len + k) /\ len + i \in 1..(len + k + 1)
        /\ ~(len + i <= len) /\ len + i <= len + k /\ (len + i) - len = i
    BY <1>1, <1>6
  <2>2. msg'[len + i] = (a \o b)[len + i]
    BY <1>9, <2>1
  <2>3. (a \o b)[len + i] = b[i]
    BY <1>7, <2>1
  <2> QED BY <1>3, <1>4, <2>2, <2>3
<1>12. msg'[len + k + 1] = NUL
  BY <1>1, <1>6, <1>8, <1>9
<1>13. room' = Len(msg')
  BY <1>5, <1>6, <1>9
<1>14. len = IF msg = NULL THEN 0 ELSE Len(msg) - 1
  BY DEF len
<1>15. len \in Nat
  BY <1>1
<1> QED BY <1>3, <1>9, <1>10, <1>11, <1>12, <1>13, <1>14, <1>15

LEMMA StoreStep ==
    ASSUME MsgInv, NEW payload \in Payloads, Store(payload)
    PROVE  MsgInv' /\ msg' # NULL
<1>1. PICK len \in Nat, k \in 1..Len(payload) :
        msg' \in Seq(Nat) /\ Len(msg') = len + k + 1 /\ room' = Len(msg')
  BY StoreFacts
<1>2. k \in Nat
  BY PayloadsAssumption
<1>3. msg' # <<>>
  BY <1>1, <1>2, EmptySeq
<1> QED BY <1>1, <1>3, NullAssumption DEF MsgInv

\* Where the strings of the message end.
Cuts(bytes, codes, at) ==
    /\ at \in [0..Len(codes) -> {0} \cup {i \in 1..(Len(bytes) - 1) : bytes[i] = NUL}]
    /\ at[0] = 0 /\ at[Len(codes)] = Len(bytes) - 1
    /\ \A i \in 1..Len(codes) : Reads(bytes, at[i - 1] + 1, at[i], codes[i])

\* The message says what was decoded, while it is written and when it was given.
MessageInv ==
    /\ decoded \in Seq(Payloads)
    /\ stage = "codes" /\ msg = NULL => decoded = <<>>
    /\ stage = "codes" /\ msg # NULL => SaysAll(msg)
    /\ stage = "scanned" /\ out # NULL /\ decoded # <<>> => SaysAll(out)

LEMMA SaysAllCuts ==
    ASSUME NEW bytes
    PROVE  SaysAll(bytes) <=> /\ bytes[Len(bytes)] = NUL
                              /\ \E at : Cuts(bytes, decoded, at)
BY DEF SaysAll, Cuts

\* Before the next string is stored, the text without its last NUL is cut into
\* the strings of the codes so far.
LEMMA CutSoFar ==
    ASSUME MsgInv, MessageInv, stage = "codes",
           NEW len \in Nat, len = IF msg = NULL THEN 0 ELSE Len(msg) - 1
    PROVE  \E at \in [0..Len(decoded) -> 0..len] :
             /\ at[0] = 0 /\ at[Len(decoded)] = len
             /\ \A i \in 1..Len(decoded) :
                  at[i] # 0 /\ Reads(msg, at[i - 1] + 1, at[i], decoded[i])
<1>1. CASE msg = NULL
  <2>1. Len(decoded) = 0 /\ len = 0
    BY <1>1, EmptySeq DEF MessageInv
  <2> DEFINE zero == [i \in 0..Len(decoded) |-> 0]
  <2>2. zero \in [0..Len(decoded) -> 0..len] /\ zero[0] = 0 /\ zero[Len(decoded)] = len
    BY <2>1
  <2>3. 1..Len(decoded) = {}
    BY <2>1
  <2> HIDE DEF zero
  <2> QED BY <2>2, <2>3
<1>2. CASE msg # NULL
  <2>1. PICK at : Cuts(msg, decoded, at)
    BY <1>2, SaysAllCuts DEF MessageInv
  <2>2. PICK n \in Nat : n = Len(decoded)
    BY LenProperties DEF MessageInv
  <2>3. len = Len(msg) - 1
    BY <1>2
  <2>4. \A i \in 0..n : at[i] \in 0..len
    BY <2>1, <2>2, <2>3 DEF Cuts
  <2>5. at \in [0..n -> 0..len]
    BY <2>1, <2>2, <2>4 DEF Cuts
  <2>6. at[0] = 0 /\ at[n] = len
    BY <2>1, <2>2, <2>3 DEF Cuts
  <2>7. \A i \in 1..n : Reads(msg, at[i - 1] + 1, at[i], decoded[i])
    BY <2>1, <2>2 DEF Cuts
  <2>8. \A i \in 1..n : at[i] # 0
    <3> SUFFICES ASSUME NEW i \in 1..n PROVE at[i] # 0
      OBVIOUS
    <3>1. at[i - 1] + 1 <= at[i]
      BY <2>7 DEF Reads
    <3>2. at[i - 1] \in Nat /\ at[i] \in Nat
      BY <2>2, <2>4
    <3> QED BY <3>1, <3>2
  <2> QED BY <2>2, <2>5, <2>6, <2>7, <2>8
<1> QED BY <1>1, <1>2

\* One more string leaves the ones before where they are.
LEMMA SayOneMore ==
    ASSUME MsgInv, MessageInv, stage = "codes", NEW payload \in Payloads,
           Store(payload), decoded' = Append(decoded, payload)
    PROVE  SaysAll(msg)'
<1>1. PICK len \in Nat, k \in 1..Len(payload) :
        /\ len = IF msg = NULL THEN 0 ELSE Len(msg) - 1
        /\ msg' \in Seq(Nat) /\ Len(msg') = len + k + 1 /\ room' = Len(msg')
        /\ \A i \in 1..len : msg'[i] = msg[i]
        /\ \A i \in 1..k : msg'[len + i] = payload[i]
        /\ msg'[len + k + 1] = NUL
        /\ payload[k] = NUL /\ \A i \in 1..(k - 1) : payload[i] # NUL
  BY StoreFacts
<1>2. PICK n \in Nat : n = Len(decoded)
  BY LenProperties DEF MessageInv
<1>3. PICK at \in [0..n -> 0..len] :
        /\ at[0] = 0 /\ at[n] = len
        /\ \A i \in 1..n : at[i] # 0 /\ Reads(msg, at[i - 1] + 1, at[i], decoded[i])
  BY <1>1, <1>2, CutSoFar
<1>4. /\ Len(decoded') = n + 1 /\ \A i \in 1..n : decoded'[i] = decoded[i]
      /\ decoded'[n + 1] = payload
  BY <1>2, AppendProperties DEF MessageInv
<1>5. k \in Nat \ {0} /\ DOMAIN payload = 1..Len(payload) /\ Len(payload) \in Nat
  BY PayloadsAssumption
<1> DEFINE new == [i \in 0..(n + 1) |-> IF i = n + 1 THEN len + k ELSE at[i]]
<1>6. /\ new[0] = 0 /\ new[n] = len /\ new[n + 1] = len + k
      /\ \A i \in 1..n : new[i] = at[i] /\ new[i - 1] = at[i - 1]
  BY <1>3
<1> HIDE DEF new
<1>7. ASSUME NEW i \in 1..n
      PROVE  /\ Reads(msg', new[i - 1] + 1, new[i], decoded'[i])
             /\ new[i] \in 1..len /\ msg'[new[i]] = NUL
  <2>0. i \in 0..n /\ i - 1 \in 0..n
    BY <1>2
  <2>1. PICK from \in Nat, to \in Nat :
             /\ from = at[i - 1] + 1 /\ from \in 1..(len + 1)
             /\ to = at[i] /\ to \in 1..len
    <3>1. at[i - 1] \in 0..len /\ at[i] \in 0..len /\ at[i] # 0
      BY <1>3, <2>0
    <3> DEFINE from == at[i - 1] + 1
               to == at[i]
    <3>2. from \in Nat /\ from \in 1..(len + 1) /\ to \in Nat /\ to \in 1..len
      BY <3>1
    <3> QED BY <3>2
  <2>2. from \in 1..to /\ Reads(msg, from, to, decoded[i])
    <3>1. Reads(msg, from, to, decoded[i])
      BY <1>3, <2>1
    <3> QED BY <2>1, <3>1 DEF Reads
  <2>3. \A j \in from..to : msg'[j] = msg[j]
    <3>1. \A j \in from..to : j \in 1..len
      BY <2>1, <2>2
    <3> QED BY <1>1, <3>1
  <2>4. to \in from..to /\ \A j \in from..(to - 1) : j \in from..to
    BY <2>1, <2>2
  <2>5. Reads(msg', from, to, decoded[i])
    BY <2>2, <2>3, <2>4 DEF Reads
  <2>6. msg'[to] = NUL
    BY <2>5 DEF Reads
  <2>7. new[i] = to /\ new[i - 1] + 1 = from /\ decoded'[i] = decoded[i]
    BY <1>4, <1>6, <2>1
  <2> QED BY <2>1, <2>5, <2>6, <2>7
<1>8. Reads(msg', len + 1, len + k, payload)
  <2>1. len + 1 <= len + k /\ (len + k) - (len + 1) + 1 = k
    BY <1>5
  <2>2. \A i \in (len + 1)..(len + k) : msg'[i] = payload[i - (len + 1) + 1]
    <3> SUFFICES ASSUME NEW i \in (len + 1)..(len + k)
                 PROVE  msg'[i] = payload[i - (len + 1) + 1]
      OBVIOUS
    <3>1. PICK j \in 1..k : i = len + j /\ i - (len + 1) + 1 = j
      <4>1. i - len \in 1..k /\ i = len + (i - len) /\ i - (len + 1) + 1 = i - len
        BY <1>5
      <4> QED BY <4>1
    <3> QED BY <1>1, <3>1
  <2>3. \A i \in (len + 1)..(len + k - 1) : msg'[i] # NUL
    <3> SUFFICES ASSUME NEW i \in (len + 1)..(len + k - 1) PROVE msg'[i] # NUL
      OBVIOUS
    <3>1. i \in (len + 1)..(len + k) /\ i - (len + 1) + 1 \in 1..(k - 1)
      BY <1>5
    <3> QED BY <1>1, <2>2, <3>1
  <2>4. msg'[len + k] = NUL
    <3>1. k \in 1..k
      BY <1>5
    <3> QED BY <1>1, <3>1
  <2>5. k \in DOMAIN payload
    BY <1>5
  <2> QED BY <2>1, <2>2, <2>3, <2>4, <2>5 DEF Reads
<1>9. Cuts(msg', decoded', new)
  <2>1. Len(msg') - 1 = len + k /\ Len(decoded') = n + 1
    BY <1>1, <1>4, <1>5
  <2>2. \A i \in 0..(n + 1) :
          new[i] \in {0} \cup {j \in 1..(len + k) : msg'[j] = NUL}
    <3> SUFFICES ASSUME NEW i \in 0..(n + 1), i # 0
                 PROVE  new[i] \in 1..(len + k) /\ msg'[new[i]] = NUL
      BY <1>6
    <3>1. CASE i = n + 1
      BY <1>5, <1>6, <1>8, <3>1 DEF Reads
    <3>2. CASE i # n + 1
      <4>1. i \in 1..n
        BY <3>2
      <4>2. new[i] \in 1..len /\ msg'[new[i]] = NUL
        BY <1>7, <4>1
      <4> QED BY <1>5, <4>2
    <3> QED BY <3>1, <3>2
  <2>3. new \in [0..(n + 1) -> {0} \cup {j \in 1..(len + k) : msg'[j] = NUL}]
    BY <2>2 DEF new
  <2>4. \A i \in 1..(n + 1) : Reads(msg', new[i - 1] + 1, new[i], decoded'[i])
    <3> SUFFICES ASSUME NEW i \in 1..(n + 1)
                 PROVE  Reads(msg', new[i - 1] + 1, new[i], decoded'[i])
      OBVIOUS
    <3>1. CASE i = n + 1
      <4>1. i - 1 = n
        BY <3>1
      <4> QED BY <1>4, <1>6, <1>8, <3>1, <4>1
    <3>2. CASE i # n + 1
      <4>1. i \in 1..n
        BY <3>2
      <4> QED BY <1>7, <4>1
    <3> QED BY <3>1, <3>2
  <2> QED BY <1>6, <2>1, <2>3, <2>4 DEF Cuts
<1>10. msg'[Len(msg')] = NUL
  BY <1>1
<1> QED BY <1>9, <1>10 DEF SaysAll, Cuts

--------------------------------------------------------------------------------
(* The blocks.                                                                *)

MsgBlock == <<"msg", 0>>
Msgs(m) == IF m = NULL THEN {} ELSE {MsgBlock}
Blocks(a) == {a} \ {NULL}

\* The scanner's own image, of some earlier scan, or none yet.
OwnImage == image = NULL \/ \E j \in Nat : image = <<"image", j>>

\* The blocks at every place, as long as there was memory for the messages.
HeapRight ==
    /\ ~fault
    /\ stage \in {"none", "made", "convert", "scanned", "codes"}
    /\ stage = "none" => image = NULL /\ heap = Msgs(out)
    /\ stage \in {"made", "convert", "scanned"} =>
         /\ OwnImage
         /\ \E k \in Nat : heap = {<<"scanner", k>>} \cup Blocks(image) \cup Msgs(out)
                             \cup (IF stage = "made" THEN {} ELSE {GrayBlock})
    /\ stage = "codes" =>
         /\ out = NULL /\ image = GrayBlock /\ buf = ImageBlock
         /\ \E k \in Nat : heap = {<<"scanner", k>>, GrayBlock, ImageBlock} \cup Msgs(msg)

ScanInv ==
    /\ scans \in Nat /\ MsgInv
    /\ ~failed => HeapRight

\* Blocks of different kinds are different, and none is NULL.
LEMMA BlocksDiffer ==
    ASSUME NEW i \in Nat, NEW j \in Nat
    PROVE  /\ <<"scanner", i>> # <<"gray", j>> /\ <<"scanner", i>> # <<"image", j>>
           /\ <<"scanner", i>> # MsgBlock /\ <<"gray", i>> # <<"image", j>>
           /\ <<"gray", i>> # MsgBlock /\ <<"image", i>> # MsgBlock
           /\ <<"scanner", i>> # NULL /\ <<"gray", i>> # NULL
           /\ <<"image", i>> # NULL /\ MsgBlock # NULL
           /\ <<"scanner", i>>[1] = "scanner" /\ <<"gray", i>>[1] = "gray"
           /\ <<"image", i>>[1] = "image" /\ MsgBlock[1] = "msg"
<1>1. /\ <<"scanner", i>>[1] = "scanner" /\ <<"gray", i>>[1] = "gray"
      /\ <<"image", i>>[1] = "image" /\ <<"msg", 0>>[1] = "msg"
      /\ <<"scanner", j>>[1] = "scanner" /\ <<"gray", j>>[1] = "gray"
      /\ <<"image", j>>[1] = "image"
  OBVIOUS
<1>2. \A kind \in {"scanner", "gray", "image", "msg"}, n \in Nat : <<kind, n>> # NULL
  BY NullAssumption
<1>3. /\ <<"scanner", i>> # NULL /\ <<"gray", i>> # NULL
      /\ <<"image", i>> # NULL /\ <<"msg", 0>> # NULL
  BY <1>2
<1>4. "scanner" # "gray" /\ "scanner" # "image" /\ "scanner" # "msg"
      /\ "gray" # "image" /\ "gray" # "msg" /\ "image" # "msg"
  OBVIOUS
<1>5. <<"scanner", i>> # <<"gray", j>> /\ <<"scanner", i>> # <<"image", j>>
      /\ <<"scanner", i>> # <<"msg", 0>> /\ <<"gray", i>> # <<"image", j>>
      /\ <<"gray", i>> # <<"msg", 0>> /\ <<"image", i>> # <<"msg", 0>>
  BY <1>1, <1>4
<1> QED BY <1>1, <1>3, <1>5 DEF MsgBlock

\* Making a scanner, handing it a grey image.
LEMMA CreateStep ==
    ASSUME ScanInv, Create
    PROVE  ScanInv'
<1>1. /\ stage = "none" /\ stage' = "made" /\ image' = NULL
      /\ heap' = heap \cup {<<"scanner", scans>>}
      /\ out' = out /\ msg' = msg /\ room' = room /\ scans' = scans
      /\ failed' = failed /\ fault' = fault
  BY DEF Create, scan
<1>2. MsgInv' /\ scans' \in Nat
  BY <1>1 DEF ScanInv, MsgInv
<1>3. ASSUME ~failed' PROVE HeapRight'
  <2>1. HeapRight
    BY <1>1, <1>3 DEF ScanInv
  <2>2. heap = Msgs(out) /\ Msgs(out)' = Msgs(out) /\ Blocks(image)' = {}
    BY <1>1, <2>1 DEF HeapRight, Msgs, Blocks
  <2>3. heap' = {<<"scanner", scans>>} \cup Blocks(image)' \cup Msgs(out)'
                  \cup (IF stage' = "made" THEN {} ELSE {GrayBlock'})
    BY <1>1, <2>2
  <2>4. OwnImage' /\ ~fault'
    BY <1>1, <2>1 DEF OwnImage, HeapRight
  <2>5. PICK k \in Nat : k = scans
    BY DEF ScanInv
  <2> QED BY <1>1, <2>3, <2>4, <2>5 DEF HeapRight
<1> QED BY <1>2, <1>3 DEF ScanInv

LEMMA TakeImageStep ==
    ASSUME ScanInv, NEW c \in Images, TakeImage(c)
    PROVE  ScanInv'
<1>1. /\ stage = "made" /\ stage' = "convert" /\ image' = image
      /\ scans' = scans + 1 /\ heap' = heap \cup {GrayBlock'}
      /\ out' = out /\ msg' = msg /\ room' = room
      /\ failed' = failed /\ fault' = fault
  BY DEF TakeImage, scan, GrayBlock
<1>2. MsgInv' /\ scans' \in Nat
  BY <1>1 DEF ScanInv, MsgInv
<1>3. ASSUME ~failed' PROVE HeapRight'
  <2>1. HeapRight
    BY <1>1, <1>3 DEF ScanInv
  <2>2. PICK k \in Nat : heap = {<<"scanner", k>>} \cup Blocks(image) \cup Msgs(out)
    BY <1>1, <2>1 DEF HeapRight
  <2>3. OwnImage' /\ Blocks(image)' = Blocks(image) /\ Msgs(out)' = Msgs(out) /\ ~fault'
    BY <1>1, <2>1 DEF HeapRight, OwnImage, Blocks, Msgs
  <2>4. heap' = {<<"scanner", k>>} \cup Blocks(image)' \cup Msgs(out)'
                  \cup (IF stage' = "made" THEN {} ELSE {GrayBlock'})
    BY <1>1, <2>2, <2>3
  <2> QED BY <1>1, <2>3, <2>4 DEF HeapRight
<1> QED BY <1>2, <1>3 DEF ScanInv

\* The scan takes a new image and then puts the caller's in its place.
LEMMA BeginScanStep ==
    ASSUME ScanInv, NEW count \in 0..MaxCodes, BeginScan(count)
    PROVE  ScanInv'
<1>1. /\ stage = "convert" /\ stage' = "codes" /\ out = NULL /\ out' = NULL
      /\ Resize /\ buf' = ImageBlock /\ image' = GrayBlock
      /\ msg' = NULL /\ scans' = scans /\ failed' = failed
  BY DEF BeginScan, AtScan
<1>2. MsgInv' /\ scans' \in Nat
  BY <1>1 DEF ScanInv, MsgInv
<1>3. ASSUME ~failed' PROVE HeapRight'
  <2>1. HeapRight
    BY <1>1, <1>3 DEF ScanInv
  <2>2. PICK k \in Nat : heap = {<<"scanner", k>>} \cup Blocks(image) \cup Msgs(out) \cup {GrayBlock}
    BY <1>1, <2>1 DEF HeapRight
  <2>3. Msgs(out) = {} /\ Msgs(msg)' = {} /\ GrayBlock' = GrayBlock /\ ImageBlock' = ImageBlock
    BY <1>1 DEF Msgs, GrayBlock, ImageBlock
  <2>4. heap' = (heap \ {image}) \cup {ImageBlock}
        /\ fault' = (fault \/ ~({image} \ {NULL} \subseteq heap))
    BY <1>1 DEF Resize, FreeAndAllocate
  <2>5. <<"scanner", k>> # image /\ GrayBlock # image
    <3>1. CASE image = NULL
      BY <3>1, BlocksDiffer DEF GrayBlock, ScanInv
    <3>2. CASE \E j \in Nat : image = <<"image", j>>
      BY <3>2, BlocksDiffer DEF GrayBlock, ScanInv
    <3> QED BY <1>1, <2>1, <3>1, <3>2 DEF HeapRight, OwnImage
  <2>6. heap \ {image} = {<<"scanner", k>>, GrayBlock}
    BY <2>2, <2>3, <2>5 DEF Blocks
  <2>7. heap' = {<<"scanner", k>>, GrayBlock', ImageBlock'} \cup Msgs(msg)'
    BY <2>3, <2>4, <2>6
  <2>8. ~fault'
    BY <2>1, <2>2, <2>4 DEF Blocks, HeapRight
  <2> QED BY <1>1, <2>3, <2>7, <2>8 DEF HeapRight
<1> QED BY <1>2, <1>3 DEF ScanInv

\* One more string; an unreadable code; the end of the codes.
LEMMA DecodeStep ==
    ASSUME ScanInv, NEW payload \in Payloads, DecodeCode(payload)
    PROVE  ScanInv'
<1>1. /\ stage = "codes" /\ stage' = "codes" /\ out' = out /\ image' = image /\ buf' = buf
      /\ heap' = heap \cup {MsgBlock} /\ scans' = scans
      /\ failed' = failed /\ fault' = fault /\ Store(payload)
  BY DEF DecodeCode, MsgBlock
<1>2. MsgInv' /\ msg' # NULL /\ scans' \in Nat
  BY <1>1, StoreStep DEF ScanInv
<1>3. ASSUME ~failed' PROVE HeapRight'
  <2>1. HeapRight
    BY <1>1, <1>3 DEF ScanInv
  <2>2. PICK k \in Nat : heap = {<<"scanner", k>>, GrayBlock, ImageBlock} \cup Msgs(msg)
    BY <1>1, <2>1 DEF HeapRight
  <2>3. Msgs(msg)' = {MsgBlock} /\ GrayBlock' = GrayBlock /\ ImageBlock' = ImageBlock
    BY <1>1, <1>2 DEF Msgs, GrayBlock, ImageBlock, MsgBlock
  <2>4. heap' = {<<"scanner", k>>, GrayBlock', ImageBlock'} \cup Msgs(msg)'
    BY <1>1, <2>2, <2>3 DEF Msgs
  <2> QED BY <1>1, <2>1, <2>3, <2>4 DEF HeapRight
<1> QED BY <1>2, <1>3 DEF ScanInv

LEMMA EndScanStep ==
    ASSUME ScanInv, EndScan
    PROVE  ScanInv'
<1>1. /\ stage = "codes" /\ stage' = "scanned" /\ out' = msg /\ image' = buf
      /\ heap' = heap /\ scans' = scans /\ msg' = msg /\ room' = room
      /\ failed' = failed /\ fault' = fault
  BY DEF EndScan, scan
<1>2. MsgInv' /\ scans' \in Nat
  BY <1>1 DEF ScanInv, MsgInv
<1>3. ASSUME ~failed' PROVE HeapRight'
  <2>1. HeapRight
    BY <1>1, <1>3 DEF ScanInv
  <2>2. PICK k \in Nat : heap = {<<"scanner", k>>, GrayBlock, ImageBlock} \cup Msgs(msg)
    BY <1>1, <2>1 DEF HeapRight
  <2>3. image' = ImageBlock /\ Msgs(out)' = Msgs(msg) /\ GrayBlock' = GrayBlock
    BY <1>1, <2>1 DEF HeapRight, Msgs, GrayBlock
  <2>4. Blocks(image)' = {ImageBlock} /\ OwnImage'
    <3>1. ImageBlock # NULL /\ scans \in Nat
      BY BlocksDiffer DEF ScanInv, ImageBlock
    <3> QED BY <2>3, <3>1 DEF Blocks, OwnImage, ImageBlock
  <2>5. heap' = {<<"scanner", k>>} \cup Blocks(image)' \cup Msgs(out)'
                  \cup (IF stage' = "made" THEN {} ELSE {GrayBlock'})
    BY <1>1, <2>2, <2>3, <2>4
  <2> QED BY <1>1, <2>1, <2>4, <2>5 DEF HeapRight
<1> QED BY <1>2, <1>3 DEF ScanInv

\* The client frees the message, then its grey image, then the scanner.
LEMMA FreeMessageStep ==
    ASSUME ScanInv, FreeMessage
    PROVE  ScanInv'
<1>1. /\ stage = "scanned" /\ stage' = "scanned" /\ out # NULL /\ out' = NULL
      /\ heap' = heap \ {MsgBlock} /\ image' = image /\ scans' = scans
      /\ msg' = msg /\ room' = room /\ failed' = failed /\ fault' = fault
  BY DEF FreeMessage, scan, MsgBlock
<1>2. MsgInv' /\ scans' \in Nat
  BY <1>1 DEF ScanInv, MsgInv
<1>3. ASSUME ~failed' PROVE HeapRight'
  <2>1. HeapRight
    BY <1>1, <1>3 DEF ScanInv
  <2>2. PICK k \in Nat : heap = {<<"scanner", k>>} \cup Blocks(image) \cup Msgs(out) \cup {GrayBlock}
    BY <1>1, <2>1 DEF HeapRight
  <2>3. /\ Msgs(out) = {MsgBlock} /\ Msgs(out)' = {} /\ GrayBlock' = GrayBlock
        /\ Blocks(image)' = Blocks(image) /\ OwnImage'
    BY <1>1, <2>1 DEF HeapRight, Msgs, GrayBlock, OwnImage, Blocks
  <2>4. MsgBlock \notin Blocks(image)
    <3>1. OwnImage
      BY <1>1, <2>1 DEF HeapRight
    <3> QED BY <3>1, BlocksDiffer DEF OwnImage, Blocks
  <2>5. MsgBlock # <<"scanner", k>> /\ MsgBlock # GrayBlock
    BY BlocksDiffer DEF GrayBlock, ScanInv
  <2>6. heap' = {<<"scanner", k>>} \cup Blocks(image)' \cup Msgs(out)'
                  \cup (IF stage' = "made" THEN {} ELSE {GrayBlock'})
    BY <1>1, <2>2, <2>3, <2>4, <2>5
  <2> QED BY <1>1, <2>1, <2>3, <2>6 DEF HeapRight
<1> QED BY <1>2, <1>3 DEF ScanInv

LEMMA FreeGrayStep ==
    ASSUME ScanInv, FreeGray
    PROVE  ScanInv'
<1>1. /\ stage = "scanned" /\ stage' = "made" /\ out' = out /\ image' = image
      /\ heap' = heap \ {GrayBlock} /\ scans' = scans
      /\ fault' = (fault \/ ~({GrayBlock} \ {NULL} \subseteq heap))
      /\ msg' = msg /\ room' = room /\ failed' = failed
  BY DEF FreeGray, scan, Frees, FreeAndAllocate
<1>2. MsgInv' /\ scans' \in Nat
  BY <1>1 DEF ScanInv, MsgInv
<1>3. ASSUME ~failed' PROVE HeapRight'
  <2>1. HeapRight
    BY <1>1, <1>3 DEF ScanInv
  <2>2. PICK k \in Nat : heap = {<<"scanner", k>>} \cup Blocks(image) \cup Msgs(out) \cup {GrayBlock}
    BY <1>1, <2>1 DEF HeapRight
  <2>3. Msgs(out)' = Msgs(out) /\ Blocks(image)' = Blocks(image) /\ OwnImage /\ OwnImage'
    BY <1>1, <2>1 DEF HeapRight, Msgs, OwnImage, Blocks
  <2>4. GrayBlock \notin Blocks(image)
    BY <2>3, BlocksDiffer DEF OwnImage, Blocks, GrayBlock, ScanInv
  <2>5. GrayBlock # <<"scanner", k>> /\ GrayBlock \notin Msgs(out)
    BY BlocksDiffer DEF GrayBlock, ScanInv, Msgs
  <2>6. heap' = {<<"scanner", k>>} \cup Blocks(image)' \cup Msgs(out)'
                  \cup (IF stage' = "made" THEN {} ELSE {GrayBlock'})
    BY <1>1, <2>2, <2>3, <2>4, <2>5
  <2>7. ~fault'
    BY <1>1, <2>1, <2>2 DEF HeapRight
  <2> QED BY <1>1, <2>3, <2>6, <2>7 DEF HeapRight
<1> QED BY <1>2, <1>3 DEF ScanInv

LEMMA DestroyStep ==
    ASSUME ScanInv, Destroy
    PROVE  ScanInv'
<1>1. /\ stage = "made" /\ stage' = "none" /\ out' = out /\ image' = NULL /\ scans' = scans
      /\ msg' = msg /\ room' = room /\ failed' = failed
      /\ Frees({image} \cup {b \in heap : b[1] = "scanner"})
  BY DEF Destroy, scan
<1>2. MsgInv' /\ scans' \in Nat
  BY <1>1 DEF ScanInv, MsgInv
<1>3. ASSUME ~failed' PROVE HeapRight'
  <2>1. HeapRight
    BY <1>1, <1>3 DEF ScanInv
  <2>2. PICK k \in Nat : heap = {<<"scanner", k>>} \cup Blocks(image) \cup Msgs(out)
    BY <1>1, <2>1 DEF HeapRight
  <2>3. OwnImage
    BY <1>1, <2>1 DEF HeapRight
  <2>4. /\ <<"scanner", k>>[1] = "scanner"
        /\ \A b \in Blocks(image) : b[1] # "scanner"
        /\ \A b \in Msgs(out) : b[1] # "scanner" /\ b # image
    <3>1. "image" # "scanner" /\ "msg" # "scanner"
      OBVIOUS
    <3> QED BY <2>3, <3>1, BlocksDiffer DEF OwnImage, Blocks, Msgs
  <2>5. {b \in heap : b[1] = "scanner"} = {<<"scanner", k>>}
    BY <2>2, <2>4
  <2>6. /\ heap' = heap \ ({image} \cup {<<"scanner", k>>})
        /\ fault' = (fault \/ ~(({image} \cup {<<"scanner", k>>}) \ {NULL} \subseteq heap))
    BY <1>1, <2>5 DEF Frees, FreeAndAllocate
  <2>7. Msgs(out)' = Msgs(out) /\ <<"scanner", k>> \notin Msgs(out)
    BY <1>1, BlocksDiffer DEF Msgs
  <2>8. heap' = Msgs(out)'
    BY <2>2, <2>4, <2>6, <2>7 DEF Blocks
  <2>9. ~fault'
    BY <2>1, <2>2, <2>6 DEF Blocks, HeapRight
  <2> QED BY <1>1, <2>8, <2>9 DEF HeapRight
<1> QED BY <1>2, <1>3 DEF ScanInv

\* The steps that keep every block.
LEMMA SameBlocksStep ==
    ASSUME ScanInv, UNCHANGED <<heap, image, buf, msg, room, out, failed, fault, scans>>,
           stage' = stage \/ (stage = "convert" /\ stage' = "scanned")
    PROVE  ScanInv'
<1>1. MsgInv' /\ scans' \in Nat
  BY DEF ScanInv, MsgInv
<1>2. ASSUME ~failed' PROVE HeapRight'
  <2>1. HeapRight
    BY <1>2 DEF ScanInv
  <2>2. /\ OwnImage' <=> OwnImage
        /\ Msgs(out)' = Msgs(out) /\ Msgs(msg)' = Msgs(msg) /\ Blocks(image)' = Blocks(image)
        /\ GrayBlock' = GrayBlock /\ ImageBlock' = ImageBlock
    BY DEF OwnImage, Msgs, Blocks, GrayBlock, ImageBlock
  <2>3. CASE stage' = stage
    BY <2>1, <2>2, <2>3 DEF HeapRight
  <2>4. CASE stage = "convert" /\ stage' = "scanned"
    BY <2>1, <2>2, <2>4 DEF HeapRight
  <2> QED BY <2>3, <2>4
<1> QED BY <1>1, <1>2 DEF ScanInv

LEMMA ScanStep == ScanInv /\ [Next]_vars => ScanInv'
<1> SUFFICES ASSUME ScanInv, [Next]_vars PROVE ScanInv'
  OBVIOUS
<1>1. CASE Create \/ Destroy
  BY <1>1, CreateStep, DestroyStep
<1>2. CASE \E c \in Images : TakeImage(c)
  BY <1>2, TakeImageStep
<1>3. CASE Convert \/ ScanRefused \/ SkipCode \/ UNCHANGED vars
  <2>1. UNCHANGED <<heap, image, buf, out, failed, fault, scans>>
    BY <1>3 DEF Convert, ScanRefused, SkipCode, vars
  <2>2. UNCHANGED <<msg, room>>
    BY <1>3 DEF Convert, ScanRefused, SkipCode, vars, scan
  <2>3. stage' = stage \/ (stage = "convert" /\ stage' = "scanned")
    BY <1>3 DEF Convert, ScanRefused, SkipCode, AtScan, vars
  <2> QED BY <2>1, <2>2, <2>3, SameBlocksStep
<1>4. CASE \E count \in 0..MaxCodes : BeginScan(count)
  BY <1>4, BeginScanStep
<1>5. CASE \E payload \in Payloads : DecodeCode(payload)
  BY <1>5, DecodeStep
<1>6. CASE NoMemoryForMessage
  <2>1. failed' = TRUE /\ msg' = NULL /\ scans' = scans
    BY <1>6 DEF NoMemoryForMessage
  <2> QED BY <2>1 DEF ScanInv, MsgInv
<1>7. CASE EndScan
  BY <1>7, EndScanStep
<1>8. CASE FreeMessage \/ FreeGray
  BY <1>8, FreeMessageStep, FreeGrayStep
<1> QED BY <1>1, <1>2, <1>3, <1>4, <1>5, <1>6, <1>7, <1>8 DEF Next

\* The blocks at every place of a scan, and a message of the size of its block,
\* for any number of scanners, scans and codes.
THEOREM ScanInductive == Spec => []ScanInv
<1>1. Init => ScanInv
  <2> SUFFICES ASSUME Init PROVE ScanInv
    OBVIOUS
  <2>1. stage = "none" /\ heap = {} /\ image = NULL /\ out = NULL /\ msg = NULL
        /\ fault = FALSE /\ scans = 0
    BY DEF Init
  <2>2. HeapRight
    BY <2>1 DEF HeapRight, Msgs
  <2> QED BY <2>1, <2>2 DEF ScanInv, MsgInv
<1> QED BY <1>1, ScanStep, PTL DEF Spec

\* As long as there is memory for the messages, the scanner has its own image
\* again after each scan, no block is freed twice and none is lost.
THEOREM ImageComesBack == Spec => []ImageReturned
<1>1. ScanInv => ImageReturned
  <2> SUFFICES ASSUME ScanInv, ~failed PROVE ImageReturned
    BY DEF ImageReturned
  <2>1. HeapRight
    BY DEF ScanInv
  <2>2. stage \in {"made", "scanned"} /\ image # NULL => image[1] = "image"
    BY <2>1 DEF HeapRight, OwnImage
  <2>3. stage = "none" => heap = IF out = NULL THEN {} ELSE {<<"msg", 0>>}
    BY <2>1 DEF HeapRight, Msgs, MsgBlock
  <2>4. ~fault
    BY <2>1 DEF HeapRight
  <2> QED BY <2>2, <2>3, <2>4 DEF ImageReturned
<1> QED BY <1>1, ScanInductive, PTL

\* Every step keeps what the message says: only a decoded code adds to it.
LEMMA MessageStep == ScanInv /\ MessageInv /\ [Next]_vars => MessageInv'
<1> SUFFICES ASSUME ScanInv, MessageInv, [Next]_vars PROVE MessageInv'
  OBVIOUS
<1> USE DEF MessageInv
<1>0. <<>> \in Seq(Payloads)
  BY EmptySeq
<1>1. CASE stage' \notin {"codes", "scanned"} /\ decoded' = decoded
  BY <1>1
<1>2. CASE \/ Create \/ Destroy \/ Convert \/ FreeGray
           \/ \E c \in Images : TakeImage(c)
  <2>1. stage' \notin {"codes", "scanned"} /\ decoded' = decoded
    BY <1>2 DEF Create, Destroy, Convert, FreeGray, TakeImage, scan
  <2> QED BY <1>1, <2>1
<1>3. CASE ScanRefused \/ NoMemoryForMessage
  <2>1. stage' = "scanned" /\ decoded' = <<>>
    BY <1>3 DEF ScanRefused, NoMemoryForMessage
  <2> QED BY <1>0, <2>1
<1>4. CASE \E count \in 0..MaxCodes : BeginScan(count)
  <2>1. stage' = "codes" /\ msg' = NULL /\ decoded' = <<>>
    BY <1>4 DEF BeginScan
  <2> QED BY <1>0, <2>1
<1>5. ASSUME NEW payload \in Payloads, DecodeCode(payload) PROVE MessageInv'
  <2>1. /\ stage = "codes" /\ stage' = "codes" /\ Store(payload)
        /\ decoded' = Append(decoded, payload)
    BY <1>5 DEF DecodeCode
  <2>2. SaysAll(msg)' /\ msg' # NULL
    BY <2>1, SayOneMore, StoreStep DEF ScanInv
  <2>3. decoded' \in Seq(Payloads)
    BY <2>1, AppendProperties
  <2> QED BY <2>1, <2>2, <2>3
<1>6. CASE SkipCode \/ UNCHANGED vars
  <2>1. UNCHANGED <<stage, msg, out, decoded>>
    BY <1>6 DEF SkipCode, vars
  <2> QED BY <2>1 DEF SaysAll
<1>7. CASE EndScan
  <2>1. stage = "codes" /\ stage' = "scanned" /\ out' = msg /\ decoded' = decoded
    BY <1>7 DEF EndScan, scan
  <2> QED BY <2>1 DEF SaysAll
<1>8. CASE FreeMessage
  <2>1. stage' = "scanned" /\ out' = NULL /\ decoded' = decoded
    BY <1>8 DEF FreeMessage, scan
  <2> QED BY <2>1
<1> QED BY <1>2, <1>3, <1>4, <1>5, <1>6, <1>7, <1>8 DEF Next

\* For any codes, any number of them and of scans: the message holds, as strings one
\* after the other, what each readable code says, and stays inside its block.
THEOREM MessageComplete == Spec => []MessageWhole
<1>1. Init => MessageInv
  BY EmptySeq DEF Init, MessageInv
<1>2. ScanInv /\ MessageInv => MessageWhole
  <2> SUFFICES ASSUME ScanInv, MessageInv PROVE MessageWhole
    OBVIOUS
  <2>1. stage = "codes" /\ msg # NULL => Len(msg) <= room /\ SaysAll(msg)
    BY LenProperties DEF ScanInv, MsgInv, MessageInv
  <2>2. stage = "scanned" /\ out # NULL /\ decoded # <<>> => SaysAll(out)
    BY DEF MessageInv
  <2> QED BY <2>1, <2>2 DEF MessageWhole
<1> QED BY <1>1, <1>2, MessageStep, ScanInductive, PTL DEF Spec
================================================================================
