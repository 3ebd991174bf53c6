# A verification development for open-vela UIKit

TLA+ models, TLC runs and TLAPS proofs for `frameworks_graphics_uikit`, the C
library that adds a font manager, refresh-synchronised tasks, a video widget, QR
scanning and vector shapes to LVGL. Paths are relative to the repository root.

## 1. Inventory

Almost everything runs on the one LVGL thread. What is hard is not data races but
long sequences of calls, failures in the middle of a call, callbacks that call
back, and a media service that answers later.

| Component | State | Operations | What must hold |
|---|---|---|---|
| Font manager, `src/font_manager/font_manager.c` | `rec_ll` (fonts callers hold), `refer_ll` (reference-counted freetype fonts), `path_ll`, `base_path` | create/delete manager, create/delete font, add/remove path, set base path | counts equal records; a freetype font has one owner; a caller's font is the one it asked for |
| Reuse cache, `font_cache.c` | `cache_ll`, most recent first, at most `UIKIT_FONT_CACHE_SIZE` | get_reuse, set_reuse (evicts the tail), delete | bounded; owns what it holds; no emoji font |
| Emoji fonts, `font_emoji.c` | table from the config file, one path buffer for all fonts | create/delete font, path of a glyph | freed through the emoji manager, never cached; a glyph has the file of its own font |
| Config reader, `font_utils.c` | parsed JSON | emoji table, families, info equality | partial failures free what was read; a table is whole or absent |
| Public fonts, `src/uikit_font_manager.c` | the global manager; `fallback` links | init, deinit, create, destroy | a font and its family live and die together; shutdown possible |
| Async tasks, `src/uikit_async.c` | two lists of tasks, `inited`; event callbacks on the display | call, cancel, deinit, event pass | once, in order, not after cancel, not lost |
| Video widget, `src/video/uikit_video.c` | `video_ctx`, image, vsync registration | set_src, start, pause, resume, stop, callbacks, destructor, frame task | frames only from the widget's own open source |
| Video adapter, `src/video/video_adapter.c` | contexts: socket, player handle, callbacks | open, commands, close, events, get_frame, config | contexts, sockets and players balanced under failure |
| Life cycle, `src/uikit.c` | global data | `vg_init`, `vg_deinit`, `vg_uv_init`, `vg_uv_deinit` | parts torn down in an order that leaves no user of a freed part |
| QR scan, `src/qrscan/uikit_qrscan.c` | the image pointer of the scanner | conversion to grey, decode with quirc | grey of the right pixel; the borrowed image goes back; the message is whole |
| Vector shapes, `src/draw/shapes/uikit_vector_shapes.c` | none | path data | - |

Interaction: `vg_font_create` calls the manager once per font of a family; the
manager moves fonts between nodes and cache. LVGL calls `on_refr_event` and
`video_frame_task_cb` from display events, and both call back into client code.
The media service calls `video_event_cb` with the context as its cookie.
`PROJECT.json` lists the hazards with their lines.

## 2. Modules

| Module | Models | State and actions |
|---|---|---|
| `FontManager` | font manager, cache, emoji rule | the C lists as functions from addresses (`refer_ll`, `rec_ll`) and sequences (`cache_ll`, `path_ll`); `freetype` is the set of font objects alive. One action per public call: `CreateFont` is one of `ShareFont`, `ReuseFont`, `OpenFont`, and `CreateFails`; `DeleteFont`, `SetBasePath`, `AddPath`, `RemovePath`, `CreateManager`, `DeleteManager` |
| `FontPool` | what callers are promised | handles, made fonts, spare fonts |
| `FontManagerProofs` | proofs about `FontManager` and its refinement of `FontPool` | |
| `UikitFont` | `vg_font_*` and font families, extends `FontManager` | `call` is the progress of the public call; each manager call inside it is a step |
| `UikitFontProofs` | proofs about `UikitFont`, extends `FontManagerProofs` | |
| `AsyncRefresh` | `uikit_async.c` and the events of LVGL's refresh | `ll` the two lists; `phase`, `left`, `pos`, `running` say where the event pass stands |
| `TaskAgenda` | what those who hand tasks in are promised | the tasks due, those done, how many there were |
| `AsyncRefreshProofs` | proofs about `AsyncRefresh` and its refinement of `TaskAgenda` | |
| `VideoSession` | video widgets and adapter contexts | `slot` the contexts, `video_ctx` and `vsync` per widget, `events` in flight |
| `VideoSessionProofs` | proofs about `VideoSession` | |
| `FramePull` | `video_frame_task_cb` and `video_adapter_get_frame` against a vtun server | `sent`, `read`, `answered`, `replies` the socket; `ui` says whether the UI thread is inside `send` or `poll`; `img` the frame in `img_dsc`, `cached` what LVGL decoded from it, `source` whether the widget shows it or a poster |
| `FramePullProofs` | proofs about `FramePull` | |
| `FontConfig` | reading and freeing the font configuration, `font_utils.c` | `stage` is the place in the load, `heap` the blocks it allocated, `read` the entries so far; one action per allocation or array item, and `JsonFails`, `EmojiFails`, `FamilyFails` for the `failed:` labels |
| `EmojiFont` | `font_emoji.c`, extends `FontConfig` | `user_data` is the entry of each font, `path` the static buffer |
| `FontConfigProofs` | the proofs about both | |
| `Lifecycle` | `uikit.c`, init and deinit of fonts, adapter and uv loop, the video configuration file | lives are numbered, a pointer is the number of its life; `heap` the blocks; `fault` how a call met NULL or a freed part |
| `LifecycleProofs` | proofs about `Lifecycle` | |
| `GrayConvert` | the five conversions to grey | operators only: a row in memory with its pitch, the byte written for it, the order of rows |
| `QrScan` | the scan and its client, extends `GrayConvert` | `image` is `qr->image`, `heap` the blocks, `msg` and `room` the message and its block |
| `QrScanProofs` | proofs about both | |
| `MC*` | instances for TLC | |

`UikitFont` composes the public calls with `FontManager`, and `EmojiFont` the emoji
fonts with the table `FontConfig` reads; `Lifecycle` takes the parts as blocks and
pointers, since what matters there is only whether they exist.

History variables (`asked`, `accepted`, `ran`, `void`, `dropped`, `fresh`, `stranded`, `sess`,
`live`, `opens`, `late`, `announced`, `misled`) record what happened and are read by the properties; in
`VideoSession`, `sess` also names the playback a callback was set for and `live`
appears in the rules of the careful client. A definition marked `faulty` is
a definition with a plausible bug; `PROJECT.json` pairs each property with
one that breaks it.

### What is abstracted, and the assumptions

* `FontManager`, `UikitFont`, `AsyncRefresh`, `VideoSession` and `FramePull`: memory
  is never exhausted (the code asserts). `FontConfig` and `QrScan` let every
  allocation fail, as the code behind `LV_ASSERT_MALLOC` expects when assertions
  are off; `Lifecycle` does for the map of the video configuration.
* In `FontConfig` the values of the JSON have the kind the code takes them for, and
  numbers are not negative. A name or path is a text and a length, so that cutting
  it by `strncpy` can be seen. `cJSON` is external.
* An image font opens the file of a glyph before it asks for another, so the answer
  of `get_imgfont_path` is looked at when it is given. The result of
  `generate_path` is ignored by the code: for an entry whose path does not fit,
  the caller is given what the buffer held before. `GlyphRight` excepts such
  entries, and `GlyphPath` models what they get.
* `quirc` is external: `quirc_resize` gives the scanner a new image and frees the
  old one, `quirc_destroy` frees its image. Blocks are numbered, an address is
  not used again.
* The rows of a YUYV or BGRA image lie `src_pitch` bytes apart in the client's memory:
  the client passes the true value, which holds at least the pixels, a YUYV row of odd
  width padded to a pair. A BGRA pixel is that of the demo's images, LVGL's native
  format with alpha, bytes B G R A. Section 3 says where the repository's own text
  differs.
* The order of `refer_ll` is not
  kept: any matching node may be found first. With one node per info
  (`OneFontPerInfo`) that is no choice; with cut names it covers every order.
* Whether a font file exists and opens is a free choice at each call. The path
  that is looked up is modelled, in `FindPath`.
* Names are values; `Trunc` says which name `strncpy` into `name[NAME_MAX]`
  leaves. `NamesFit` is the case that none is cut.
* Callers do not use fonts after destroying them and do not delete a fallback.
* `vg_async_refr_deinit` is not called from a task, and no refresh starts inside a
  callback.
* A task handed in before there is a display writes to a list whose node size is
  0, outside its allocation. The model keeps the mildest outcome: it stays in the
  list until the list is initialised. Passing runs exclude such calls
  (`EarlyCalls = FALSE`).
* Media commands answer with an event that is queued. A player that was closed
  may or may not still deliver it (`EventsAfterClose`). The code expects it does:
  `vg_video_stop` closes the player in the same call that asks it to stop, and
  `video_event_cb` handles STOPPED.
* `lv_display_unregister_vsync_event` removes all registrations of a widget.
* A failing command changes no state, so it is not an action; only a failing stop
  has dropped the decoded frame before, `FramePull!StopFails`.
* A frame is the number of the request it answers. The server answers in order, may
  answer NULL, may be late or silent, may go away. The socket blocks: `Room` requests
  fit unread, and `send` holds the UI thread until the server has read enough of them
  or is gone.
* `errno` is kept only as 0 or not: `poll` that times out leaves it alone, and
  `-errno` is then the result; `poll` that fails sets it.

## 3. Runs

| Run | Question | Bounds and why they suffice |
|---|---|---|
| `FontManager_core` | does bookkeeping hold in every order of calls, and does the manager implement `FontPool`? | 3 records, 3 nodes, 4 fonts, 2 plain names and an emoji, cache of 1, two directories, one find path: sharing, eviction, refill and path changes all happen together; the invariants relate at most two owners. Node and font addresses are enough that a creation never lacks one |
| `UikitFont_calls` | do main font and family stay together under failure? | 5 records: the largest family twice, partly; cache size 0, so the last drop destroys |
| `Async_core` | in order, not after cancel, not lost, served, and does the pair of lists implement `TaskAgenda`? | 3 tasks, 2 keys, 2 registrations: two nodes of one key with a third between, a list walked twice per event, a display that is replaced |
| `Async_afternext` (violation) | does an after-refresh task wait for the next refresh? | same |
| `Async_early` (violation) | is a task before the display delayed? | same, with early calls |
| `Video_careful` | do contexts, sockets, players, registrations and callbacks belong together? | 2 widgets, contexts Video, Camera, Video, 3 opens, 3 events in flight: a widget can open its second source while the STOPPED of the first is still to come and the other plays or closes |
| `Video_wild` | does the adapter stay consistent when clients do anything and players do not close? | 2 widgets, 2 player contexts, every liberty, failing closes |
| `FramePull_core` | what do late, NULL and missing replies, failing polls and a server that does not read do to the frames, the decoded image, the custom event and the UI thread? | 6 requests on a socket, 2 of them unread, 3 polls given up, the first reply NULL; sockets opened again without limit: a NULL reply, several late ones and a frame fit on one socket |
| `Emoji_core` | is anything lost or half read when a load fails anywhere, and is each glyph's file that of its font? | 5 files of up to 3 entries: complete, incomplete, empty, with a name, a path or a size too large; 2 fonts sharing the buffer, heights on the borders of the ranges, loads repeated without limit |
| `Lifecycle_core` | does init and deinit leave a user of a freed part, or a leak? | 3 lives, so that what one leaves behind meets two others; 2 widgets, 2 fonts, 2 contexts, every outcome of the configuration |
| `Scan_core` | is the scanner's image returned, the message whole, the grey right? | 7 pictures of up to 3 rows and 4 columns, odd and even, rows packed or far apart, 3 codes, 2 scans on one scanner or on two; payloads empty, of one character, and with a NUL inside |
| `Scan_rgb565` (violation) | is the grey of an RGB565 picture that of its pixels? | one picture of 2 by 2 |

Symmetry is used on addresses, keys and widgets in runs of safety properties, and
not in `Async_core`, which checks a liveness property. Deadlock checking is off for
`VideoSession`, `Lifecycle` and `QrScan`, whose numbers of opens, lives and scans are
bounded. In `AsyncRefresh`,
`FontManager`, `EmojiFont` and `FramePull` something is always possible, and TLC checks that.

**Fairness.** `AsyncRefresh!FairSpec` is weakly fair in the refresh (LVGL's refresh
timer fires again and again, the pass is a loop that runs to its end, callbacks
return) and in the creation of a display. Calls, cancels, deinit and the deletion
of the display are never forced. `TaskServed` excepts the case that the display
took the event callbacks with it: `inited` stays true, nothing adds them again,
and tasks wait for ever. Without the exception TLC refutes it.

`FramePull!FairSpec` is weakly fair in the request (vsync comes again and again while
a widget plays), in a `send` that has room, in its failure when the server is gone,
and in the end of `poll`, which has a timeout of 100 ms. The server is not assumed to
do anything: what a property needs of it stands inside the property.
`UiThreadReturns` needs a server that reads (`WF_vars(ServerReads)`), for the socket is
opened without `SOCK_NONBLOCK` and `send` without `MSG_DONTWAIT`: without the premise
TLC shows the UI thread in `send` for ever. It does not need one that answers.
`FrameShown` has as premises a server that reads and answers, and sends that are not
all interrupted (`SF_vars(Sent)`): one that fails again and again would leave nothing
to answer, as TLC shows.

**The careful client.** The widget interface has no written contract, so
`VideoSession` names in `Liberties` what a client may do beyond the demos under
`test/video/`: set a source over an open one, open while a stopped widget lives
on, open a second camera, delete without stop, use a stopped widget.
`Video_careful` has none of them. It does stop a widget and open the next source at
once, before the STOPPED of the first has come, as `video_controller_demo.c:176` does.
The event then comes to a context in use again, and `video_event_cb` clears its
callbacks with it: callbacks that were set before it came are lost, those of the demo
included. `CallbacksKept` says exactly that and no more may be lost, and
`NoCallbackOfEarlier` that the old player's event never calls what an even earlier
client left there. Each liberty breaks something, which TLC shows when it is put in
`Liberties`:

* `reopen` breaks `SlotsReturned`, the old context is taken for good, and for a
  camera `SocketsHeld`.
* `linger` breaks `SessionIntact`: deleting a stopped widget closes the source
  another widget opened on the same context. With three widgets it breaks both
  properties of callbacks too.
* `share` breaks `SocketsHeld`: a camera context has no handle and so always
  counts as available; the second open overwrites the descriptor of the first.
* `abandon` breaks `NoCallbackOfEarlier`: `video_adapter_close` leaves the callbacks
  and the object of the context, and the next video there calls them.
* `stale` breaks `NoCallbackOfEarlier`: callbacks set after the stop stay on the
  context for whoever opens it next.

**The client of the library.** `Lifecycle` has `Liberties` too: calls outside of
`vg_init` and `vg_deinit` (`order`), `vg_deinit` with a display left (`display`) or
before `vg_uv_deinit` (`loop`), a font destroyed in a later life (`oldfont`).
`Lifecycle_core` has none, like `test/uikit_demo.c`. Each one breaks
`FaultsExplained`: with a display left, `lv_deinit` deletes widgets that close their
video through an adapter that is gone; with the loop running, a player's event
arrives with a context that is gone. Without any liberty two faults are left. When
`vg_font_deinit`, which is public and may be called on its own, has deleted the
manager and no font was made since, `vg_font_deinit` asserts on NULL, and `vg_deinit`
calls it. And when the video configuration gives no contexts, `vg_uv_init`, the first
video widget, its source and `vg_deinit` meet NULL. That includes a file that was read while memory
for the contexts was lacking and `errno` was 0: the adapter then counts as
configured and has no contexts.

### What the violation runs show

1. `Async_afternext`: an after-refresh task that hands in another runs it at once;
   one that hands in itself never lets the pass end.
2. `Async_early`: an accepted task is dropped when the display comes.
3. `Scan_rgb565`: red is weighted as blue and blue as red, against the comment on
   the line above.

The repository's text on the other formats is not what `GrayExact` takes as its
measure. The comment at `src/qrscan/uikit_qrscan.c:144` has BGRA as "(msb)8B 8G 8R
8A(lsb)"; read like the comment on RGB565, that is A R G B in memory, of which the
code would take green for red, red for green and alpha for blue
(`CommentsMisread` proves it). The images that `camera_demo.c:510` converts are
LVGL's, B G R A in memory, which the code reads correctly. The header documents
`src_pitch` as w*4 for YUYV (`uikit_qrscan.h:64`), of which whole pairs fill only
w*2: for rows packed that close the documented value makes the conversion skip every
second row and read past the image. `GrayExact` is about clients that pass the true
distance, documented or not; nothing in the repository calls this conversion.

Known behaviour that no run is about: a font shared or cached keeps the file it was
opened from when find paths change (`FindPath` of `FontManager` is used only by
`OpenFont`), and a name longer than `UIKIT_FONT_NAME_MAX` is cut in its node and
answers requests for the short name; the instance of `RightFont` cuts no name, so
`NamesFit` holds in it. A poster set after the first frame hides the frames until
the source is stopped and another brings its first frame: only that one makes
`img_dsc` the image source. The colour key is one static structure, so setting it
for one video widget changes it for all. In `QrScan` a scan that has no memory for its message returns with the
caller's image in the scanner: the client of `camera_demo.c` frees it and then
destroys the scanner, which frees it again. `ImageReturned` has that case as its
premise. Every failure of a scan is -1; the header's error numbers are not used.

## 4. Proofs

Every invariant, every action property and both refinements that a passing run checks
are proved; the theorems hold for all values of the constants that satisfy
the named assumptions of the modules. `PROJECT.json` lists them with what each
establishes. Where a theorem needs more than the specification assumes, the
premise stands in its ASSUME, and it is what the run's instance has too.

Induction over data has no rule that the provers can apply. Where a proof needs it,
it takes the least counterexample instead: the library's theorem that every
non-empty set of numbers has a least element is one they can cite (`FirstFound`,
`FilterUpTo`, `FilterKeeps`, `StringOfPayload`).

Each module follows one pattern: an inductive invariant (`IInv`, `UInv`, `Base`,
`ScanInv`, ...), a lemma per action, and short theorems that read the properties off
it.

**Font manager** (`FontManagerProofs`). The assumptions are those of `FontManager`:
`Trunc` is idempotent and keeps the emoji header, sizes are natural numbers,
handles are finitely many, and `NULL` is none of the values. `IInv` is the conjunction
of `TypeOK`, `RefCountExact`, `Ownership`, `CacheBound`, `NothingOutlivesManager` and
`EmojiManaged`: a node with an emoji font exists only while there is an emoji manager.
Without it `DeleteWrapper` could drop an emoji node whose font nobody destroys, and
`Ownership` would not be preserved. `RefCountExact` and `Ownership` need each other: a
node whose count falls to 0 has no other record, so its font may leave it. The
counting rests on lemmas on the users of a node, the cache on lemmas on what
removing, prepending and cutting the tail do to a sequence.

What callers see: `HeldFontsStable` (`StableWhileHeld`) needs `IInv` only.
`CallerGetsOwnFont` (`RightFont`), `FontMadeOnce` (`OneFontPerInfo`) and
`ManagerIsPool` (the refinement of `FontPool`) assume `NamesFit`, and TLC refutes them
without it. Their strengthening `FontsRight` says what both speak of: each node,
cache entry and record has the info its font object was made for, and no two of
them together have one info. The refinement goes action by action: sharing and
reusing implement `Pool!Hold` of a font that is made already, opening makes one, and
a deletion lets go and may put a font among the spare ones, evicting another.

**Public fonts** (`UikitFontProofs`), on the theorems about the manager; `NULL` is not
a handle (`HandleAssumption`). `NoOrphans` is far from inductive: it speaks of the
time between calls, and "every record is the fallback of one other" would allow a
ring of fallbacks that no destroy reaches. `FamilyInv` therefore names for every main
font the sequence of its family (`fam`): live records, linked one to the next, in
one family and one place only, and all records are main fonts or in a family.
`Progress` ties the sequence of the main font in hand to the locals of the call:
`first` and `last` are its ends while it grows, `at` its head while it is eaten.

**Async tasks** (`AsyncRefreshProofs`). `IInv` has where a pass can stand (`Engine`,
`Hung`); that numbers ascend along a list and that those the pass has still to reach
lie above all that ran from it (`Sorted`, `RanBefore`), from which order and
"at most once" follow, also when a list is walked twice per event; and that what was
cancelled is flagged for as long as it waits (`FlagsRight`).

`TasksAreAgendas` (`ImplementsAgenda`) says all of this at once, in terms that know no
lists: `Due` maps a list to the tasks whose nodes are neither cancelled nor passed.
Entering a callback is `Agenda!Run`: by `Sorted` its task is the first that is due,
and from then on its node counts as passed until the list is cleared, however often
the list is walked. Skipping, leaving a callback and clearing change nothing, since
all nodes they leave behind were passed or cancelled; a call is `HandIn`, a cancel
takes exactly the tasks of its key, a deinit drops all. `TasksKept` (`NoneLost`) and
the refinement have the premise `~EarlyCalls`; with early calls `NoneLost` is false,
which `Async_early` shows, and a task vanishes from its agenda in the same way.

**Video** (`VideoSessionProofs`). What each property needs of the client, in terms of
`Liberties` (section 3), and of the player:

| Property | Holds for |
|---|---|
| `NoDanglingHandle` | every client, failing closes |
| `PlayersHeld` | every client, closes that succeed |
| `SocketsHeld` | no `reopen`, no `share` |
| `SlotsReturned` | no `reopen`, closes that succeed |
| `SessionIntact` | no `linger`, no `share` |
| `VsyncInSession` | no `reopen`, `linger` or `share`; no `stale` if closes fail |
| `CallbacksKept` | no `linger`, no `share`; failing closes, events after close or not |
| `NoCallbackOfEarlier` | at most `reopen`, failing closes, events after close |

So the proofs say more than `Video_careful`, where all liberties are excluded at
once. `Base` is what holds for every client: a playing widget holds a context, no two
contexts have one handle, a handle is that of an open player, and each open player
has one unless closes fail. `Apart`, no other widget points to the context of a
playing one, makes `SessionIntact` inductive. For the callbacks the queue must be
known: `QueueRight` says that nothing in flight for the context of a playing widget is
about a later playback, and no STOPPED if callbacks count as asked for. `Answered`
says that an event which would call what an earlier client of the context set has the
STOPPED that forgets it ahead of it in the queue, or being handled; that this STOPPED
is on its way whenever a context has no player is `ForgottenInTime`. The last needs widgets that are stopped before they are
deleted and left alone then (`Forgets`), and `EventsAfterClose`, the setting of
`Video_careful`: a service that drops the events of a player it closes drops the
STOPPED of `vg_video_stop` too, nobody forgets the callbacks, and the next client of
the context is called with the object of the last; TLC shows this when the constant
is changed. `CallbacksKept` and the types (`VideoTypeCorrect`) do not depend on it.
There a close leaves a part of the queue: `AfterFacts` says so of `Filtered`, whose
recursion is unfolded by a least counterexample.

**Frames** (`FramePullProofs`), for every first frame and all bounds: `TypeOK`,
`RepliesLagGivenUp`, `CacheFresh`, `AnnouncedWithFirstFrame` and the action property
`FramesInOrder`. The inductive invariant adds `RepliesInOrder`, the waiting replies are
those to the last requests answered, and `SocketState`, which says that the frame
shown is older than all of them and that nobody polls without a socket.
`NeverBackwards` needs both: the head of the queue is newer than `img`.

**Configuration and emoji** (`FontConfigProofs`), for all files whose arrays are
sequences (`DocumentsAssumption`). `NoLeak` and `AllOrNothing` speak only of a load that
ended, so `IInv` says what holds on the way: `HeapAt`, the blocks are a function of
the place in the load and of the number of families read; `ReadSoFar`, the entries
read are the beginning of the array; and `Tables`, which table may be there at which
place. `GlyphsRight` (`GlyphRight`) adds that a font in use has the first entry for
what it was asked and that no load is under way (`FontsFirst`), and that the last
answer is the path in such an entry (`AnswerFirst`); `TextsAssumption` says that lengths are numbers.

**Life cycle** (`LifecycleProofs`). `IInv` is `Alive` as long as no fault happened: which
pointers are set in a life, which blocks they imply, and that what is in the heap
without a pointer to it is a manager with fonts. `HoldersSafe` and `LeaksKnown` hold
for every client, since the fault is then the excuse; `FaultsKnown` assumes
`Liberties = {}` and needs `Ordered`, the order of the demo's calls as a state
predicate: the loop runs within a life that has an adapter, events come only from
its players, and a widget stands on a display. `HoldersSafe` is about widgets and
fonts; events of players outlive their contexts when a client with `loop` deinits,
and only `FaultsKnown` excludes that.

**QR scan** (`QrScanProofs`). `ImageComesBack` (`ImageReturned`): `HeapRight` lists the
blocks at every place of a scan; the message is shown not to be `NULL` from the text
it is (`MsgInv`). `MessageComplete` (`MessageWhole`) is about the text: `MessageInv` has a
cut of it for every code read so far, and its own last byte, a NUL, behind the last
cut. The next payload is written over that NUL and brings its own (`StoreStep`), the
cuts before stay where they are and one is added (`SayOneMore`). That a payload is
read up to its first NUL only, wherever that is, comes from a least counterexample
(`StringOfPayload`). `GrayIsExact` (`GrayExact`) is proved for every picture with pixels in
the range of its format, of any width, height and pitch, if none is RGB565: `GrayOfRow` shows
for each format that the bytes read for a pixel give its grey, and `GrayRows` that
rows do not overlap but for the one byte (`Spill`) which an odd YUYV row writes into
the next, and which that one writes again.

**Only model-checked.** Liveness (`TaskServed`, `UiThreadReturns`, `FrameShown`), which
is out of the prover's reach.

The premises are not there for the proof's sake. Where one excludes a failing close,
lost events, cut names or early calls, TLC refutes the property without it, and where
one excludes a liberty, with that liberty alone (`linger` with a third widget for the
two properties of callbacks), but for this: `share` broke neither of those two in the
instance, but their proofs rest on `SessionIntact`, which it breaks.

## 5. Plan

Modelled and proved: every part with state of its own.

Not modelled: vector shapes (floating-point path data without state), finding and
decoding codes in quirc, crop, scale, alignment and colour key of the frame image
(layout arithmetic on LVGL's draw descriptors), seek, duration, playing state and
looping of the player (forwarded commands that change nothing here), the demos.
