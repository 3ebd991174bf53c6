--------------------------------- MODULE QrScan --------------------------------
(***************************************************************************)
(* Scanning camera images for QR codes (src/qrscan/uikit_qrscan.c) by a      *)
(* client like test/video/camera_demo.c: convert the image to grey, scan it, *)
(* free the message and the grey image, for one scanner one or more times.   *)
(*                                                                         *)
(* The scanner is the external quirc library: quirc_resize gives it a new    *)
(* image and frees the one before, quirc_destroy frees its image.  To save a *)
(* copy, a scan puts the caller's grey image in its place for a while.       *)
(* Blocks of memory have a number of their own: an address is not reused.    *)
(* Definitions marked "faulty" are mistakes the properties must detect.      *)
(***************************************************************************)
EXTENDS GrayConvert, SequencesExt

CONSTANTS
    Images,     \* camera images: [format, w, h, src_pitch,
                \* pixel : [row -> [column -> pixel]]]
    Payloads,   \* what codes say: sequences of characters that end with NUL
    MaxCodes,   \* bound: codes in one image
    MaxScans,   \* bound: scans in a run
    NULL

NUL == 0

ASSUME NullAssumption ==
    NULL \notin {"scanner", "gray", "image", "msg"} \X Nat /\ NULL \notin Seq(Nat)
ASSUME ImagesAssumption == \A c \in Images :
    /\ c.format \in Formats /\ c.w \in Nat /\ c.h \in Nat
    /\ c.format \in Pitched =>
         c.src_pitch \in Nat /\ c.src_pitch >= RowBytes(c.format, c.w)
    /\ c.pixel \in [0..(c.h - 1) -> [0..(c.w - 1) -> Pixels(c.format)]]
ASSUME PayloadsAssumption == \A p \in Payloads :
    p \in Seq(Nat) /\ p # <<>> /\ p[Len(p)] = NUL

VARIABLES
    stage,      \* where the client and the scan stand
    heap,       \* blocks allocated
    image,      \* the image pointer of the scanner (qr->image)
    buf,        \* local: the address to restore
    camera,     \* the camera image at hand
    rows,       \* rows of it converted
    gray,       \* bytes written from the start of the grey image
    left,       \* codes of the image not looked at yet
    msg,        \* local: the message, NULL before the first code
    room,       \* bytes allocated for msg
    out,        \* the client's message pointer
    decoded,    \* history: payloads decoded in this scan
    failed,     \* history: no memory for a message
    fault,      \* history: a block freed twice
    scans       \* counter for the bound

vars == <<stage, heap, image, buf, camera, rows, gray, left, msg, room, out,
          decoded, failed, fault, scans>>

conversion == <<camera, rows, gray>>
scan == <<left, msg, room, decoded>>

GrayBlock  == <<"gray", scans>>
ImageBlock == <<"image", scans>>

\* free of each of a set of addresses; NULL is nothing to free.
FreeAndAllocate(freed, allocated) ==
    /\ heap' = (heap \ freed) \cup allocated
    /\ fault' = (fault \/ ~(freed \ {NULL} \subseteq heap))
Frees(blocks) == FreeAndAllocate(blocks, {})
Resize == FreeAndAllocate({image}, {ImageBlock})

Init ==
    /\ stage = "none" /\ heap = {} /\ image = NULL /\ buf = NULL
    /\ camera = NULL /\ rows = 0 /\ gray = <<>>
    /\ left = 0 /\ msg = NULL /\ room = 0 /\ out = NULL /\ decoded = <<>>
    /\ failed = FALSE /\ fault = FALSE /\ scans = 0

--------------------------------------------------------------------------------
(* The client: vg_qrscan_create, vg_*_to_gray, vg_qrscan_destory.             *)

Create ==
    /\ stage = "none"
    /\ scans < MaxScans
    /\ stage' = "made"
    /\ heap' = heap \cup {<<"scanner", scans>>}
    /\ image' = NULL
    /\ UNCHANGED <<buf, conversion, scan, out, failed, fault, scans>>

TakeImage(c) ==
    /\ stage = "made"
    /\ scans < MaxScans
    /\ scans' = scans + 1
    /\ stage' = "convert"
    /\ heap' = heap \cup {<<"gray", scans'>>}
    /\ camera' = c
    /\ rows' = 0
    /\ gray' = <<>>
    /\ UNCHANGED <<image, buf, scan, out, failed, fault>>

Convert ==
    /\ stage = "convert"
    /\ rows < camera.h
    /\ LET y == NextRow(camera.h, rows)
           src == RowInMemory(camera.format, camera.w, camera.src_pitch,
                              camera.pixel[y])
       IN gray' = ConvertRow(camera.format, camera.w, y, src, gray)
    /\ rows' = rows + 1
    /\ UNCHANGED <<stage, heap, image, buf, camera, scan, out, failed, fault, scans>>

FreeMessage ==
    /\ stage = "scanned"
    /\ out # NULL
    /\ out' = NULL
    /\ heap' = heap \ {<<"msg", 0>>}
    /\ UNCHANGED <<stage, image, buf, conversion, scan, failed, fault, scans>>

FreeGray ==
    /\ stage = "scanned"
    /\ stage' = "made"
    /\ Frees({GrayBlock})
    /\ UNCHANGED <<image, buf, conversion, scan, out, failed, scans>>

Destroy ==
    /\ stage = "made"
    /\ stage' = "none"
    /\ Frees({image} \cup {b \in heap : b[1] = "scanner"})
    /\ image' = NULL
    /\ UNCHANGED <<buf, conversion, scan, out, failed, scans>>

--------------------------------------------------------------------------------
(* vg_qrscan_scan                                                             *)

AtScan == stage = "convert" /\ rows = camera.h

\* A message that was not taken, or no memory for the scanner's image.
ScanRefused ==
    /\ AtScan
    /\ stage' = "scanned"
    /\ decoded' = <<>>
    /\ UNCHANGED <<heap, image, buf, conversion, left, msg, room, out, failed,
                   fault, scans>>

BeginScan(count) ==
    /\ AtScan
    /\ out = NULL
    /\ Resize
    /\ buf' = ImageBlock
    /\ image' = GrayBlock
    /\ left' = count
    /\ msg' = NULL
    /\ room' = 0
    /\ decoded' = <<>>
    /\ stage' = "codes"
    /\ UNCHANGED <<conversion, out, failed, scans>>

\* The payload up to its first NUL, which is kept.
CString(payload) ==
    SubSeq(payload, 1, CHOOSE n \in DOMAIN payload :
             payload[n] = NUL /\ \A i \in 1..(n-1) : payload[i] # NUL)

\* The bytes written so far but the NUL that closes the message.
Kept == IF msg = NULL THEN <<>> ELSE Front(msg)

StoreMerged(payload) ==                                              \* faulty
    /\ msg' = Kept \o Front(CString(payload)) \o <<NUL>>
    /\ room' = Len(Kept) + Len(CString(payload)) + 1
Store(payload) ==
    /\ msg' = Kept \o CString(payload) \o <<NUL>>
    /\ room' = Len(Kept) + Len(CString(payload)) + 1

\* Decoded at once, or mirrored after an error of the correction.
DecodeCode(payload) ==
    /\ stage = "codes"
    /\ left > 0
    /\ left' = left - 1
    /\ Store(payload)
    /\ heap' = heap \cup {<<"msg", 0>>}
    /\ decoded' = Append(decoded, payload)
    /\ UNCHANGED <<stage, image, buf, conversion, out, failed, fault, scans>>

SkipCode ==
    /\ stage = "codes"
    /\ left > 0
    /\ left' = left - 1
    /\ UNCHANGED <<stage, heap, image, buf, conversion, msg, room, out, decoded,
                   failed, fault, scans>>

\* The scan returns with the caller's image still in the scanner.
NoMemoryForMessage ==
    /\ stage = "codes"
    /\ left > 0
    /\ heap' = heap \ {<<"msg", 0>>}
    /\ failed' = TRUE
    /\ left' = 0
    /\ msg' = NULL
    /\ room' = 0
    /\ decoded' = <<>>
    /\ stage' = "scanned"
    /\ UNCHANGED <<image, buf, conversion, out, fault, scans>>

EndScanKeepsGray ==                                                  \* faulty
    /\ stage = "codes" /\ left = 0
    /\ stage' = "scanned" /\ out' = msg
    /\ UNCHANGED <<heap, image, buf, conversion, scan, failed, fault, scans>>
EndScan ==
    /\ stage = "codes"
    /\ left = 0
    /\ out' = msg
    /\ image' = buf
    /\ stage' = "scanned"
    /\ UNCHANGED <<heap, buf, conversion, scan, failed, fault, scans>>

Next ==
    \/ Create \/ Destroy
    \/ \E c \in Images : TakeImage(c)
    \/ Convert
    \/ ScanRefused
    \/ \E count \in 0..MaxCodes : BeginScan(count)
    \/ \E payload \in Payloads : DecodeCode(payload)
    \/ SkipCode \/ NoMemoryForMessage \/ EndScan
    \/ FreeMessage \/ FreeGray

Spec == Init /\ [][Next]_vars

--------------------------------------------------------------------------------
(* Properties.                                                                *)

\* The scanner borrows the caller's image for the time of a scan only: no block
\* is freed twice, and of destroyed scanners nothing is left but a message the
\* client still has, however often they were used, unless memory for a message
\* was lacking.
ImageReturned == ~failed =>
    /\ ~fault
    /\ stage \in {"made", "scanned"} /\ image # NULL => image[1] = "image"
    /\ stage = "none" => heap = IF out = NULL THEN {} ELSE {<<"msg", 0>>}

\* In bytes from..to stands what a C program reads of the payload of a code, with
\* the NUL that ends it.
Reads(bytes, from, to, payload) ==
    /\ from <= to /\ to - from + 1 \in DOMAIN payload
    /\ bytes[to] = NUL
    /\ \A i \in from..(to - 1) : bytes[i] # NUL
    /\ \A i \in from..to : bytes[i] = payload[i - from + 1]

\* Read as strings one after the other, the message holds what each readable
\* code of the image says, in their order, then an empty string and nothing else,
\* and it stays inside its block.
SaysAll(bytes) ==
    LET n == Len(decoded)
        ends == {i \in 1..(Len(bytes) - 1) : bytes[i] = NUL}
    IN
    /\ bytes[Len(bytes)] = NUL
    /\ \E at \in [0..n -> {0} \cup ends] :
         /\ at[0] = 0 /\ at[n] = Len(bytes) - 1
         /\ \A i \in 1..n : Reads(bytes, at[i - 1] + 1, at[i], decoded[i])
MessageWhole ==
    /\ stage = "codes" /\ msg # NULL => Len(msg) <= room /\ SaysAll(msg)
    /\ stage = "scanned" /\ out # NULL /\ decoded # <<>> => SaysAll(out)

\* When an image was converted, every byte of the grey image is that of its
\* pixel, also where the pairs of YUYV run over an odd row, which the row below
\* puts right; only the last row of such an image goes past the block.
GrayExact == stage = "convert" /\ rows = camera.h =>
    LET w == camera.w
        block == 0 .. w * camera.h - 1
    IN
    /\ \A y \in 0..(camera.h - 1), x \in 0..(w - 1) :
         gray[y * w + x] = GrayOf(camera.format, camera.pixel[y][x])
    /\ DOMAIN gray \in {block} \cup (IF camera.format = "yuyv" /\ w % 2 = 1
                                    THEN {block \cup {w * camera.h}} ELSE {})
================================================================================
