------------------------------- MODULE FramePull -------------------------------
(***************************************************************************)
(* How a video widget gets its frames: video_frame_task_cb in               *)
(* src/video/uikit_video.c asks through video_adapter_get_frame in          *)
(* src/video/video_adapter.c, and a vtun server answers on the socket.      *)
(*                                                                         *)
(* At each vsync of a playing widget the UI thread sends one request, polls *)
(* for at most 100 ms and reads one reply.  The send blocks while the socket *)
(* is full of requests the server has not read.  Nothing ties a reply to its *)
(* request: a reply that comes after the poll gave up, or failed, is read at *)
(* the next vsync.  A frame is named by the number of the request it answers. *)
(* The session is that of one widget at a time, with a media player.        *)
(* Definitions marked "faulty" are mistakes the properties must detect.     *)
(***************************************************************************)
EXTENDS Naturals, Sequences

CONSTANTS
    FirstFrame,   \* requests before this number are answered with NULL
    MaxSent,      \* bound of the model: requests on one socket
    MaxTimeouts,  \* bound of the model: polls that give up on one socket
    Room          \* requests that the socket holds unread

ASSUME BoundAssumption ==
    /\ {FirstFrame, MaxSent, MaxTimeouts, Room} \subseteq Nat \ {0}
    /\ FirstFrame + MaxTimeouts <= MaxSent

None == 0    \* no frame

VARIABLES
    open,      \* the widget has a socket
    peer,      \* the server holds the other end
    sent,      \* requests sent on the socket
    read,      \* requests the server has read
    answered,  \* requests the server has answered
    replies,   \* answers not yet read, by the number of their request
    late,      \* history: polls on the socket that gave up, by their timeout or an error
    playing,   \* is the frame callback registered
    ui,        \* where the UI thread is: idle, inside send or inside poll
    errno,     \* is errno different from 0
    img,       \* the frame in img_dsc
    cached,    \* the frame LVGL decoded from img_dsc and keeps
    announced, \* history: custom events since the source was opened
    misled,    \* history: has a poll on the socket timed out with errno 0
    source     \* what the image widget shows: nothing, a poster or img_dsc

socket == <<open, peer, sent, read, answered, replies, late>>
image == <<img, cached, announced, misled, source>>
vars == <<open, peer, sent, read, answered, replies, late, playing, ui, errno,
          img, cached, announced, misled, source>>

TypeOK ==
    /\ open \in BOOLEAN /\ peer \in BOOLEAN
    /\ sent \in 0..MaxSent /\ read \in 0..sent /\ answered \in 0..read
    /\ replies \in Seq(1..MaxSent)
    /\ late \in 0..MaxTimeouts
    /\ playing \in BOOLEAN /\ ui \in {"idle", "sending", "polling"} /\ errno \in BOOLEAN
    /\ img \in 0..MaxSent /\ cached \in 0..MaxSent
    /\ announced \in 0..MaxTimeouts + 1 /\ misled \in BOOLEAN
    /\ source \in {"none", "poster", "frames"}

Init ==
    /\ open = FALSE /\ peer = FALSE
    /\ sent = 0 /\ read = 0 /\ answered = 0 /\ replies = <<>> /\ late = 0
    /\ playing = FALSE /\ ui = "idle"
    /\ errno \in BOOLEAN       \* whatever failed in the thread before
    /\ img = None /\ cached = None /\ announced = 0 /\ misled = FALSE
    /\ source = "none"

--------------------------------------------------------------------------------
(* The server.                                                                *)

ServerReads ==
    /\ peer /\ read < sent
    /\ read' = read + 1
    /\ UNCHANGED <<open, peer, sent, answered, replies, late, playing, ui, errno, image>>

Reply ==
    /\ peer /\ answered < read
    /\ answered' = answered + 1
    /\ replies' = Append(replies, answered + 1)
    /\ UNCHANGED <<open, peer, sent, read, late, playing, ui, errno, image>>

ServerCloses ==
    /\ peer
    /\ peer' = FALSE
    /\ UNCHANGED <<open, sent, read, answered, replies, late, playing, ui, errno, image>>

--------------------------------------------------------------------------------
(* The interface; while the UI thread is in send or poll nobody can call it.  *)

\* vg_video_set_src_opt: a new connection.
SetSrc ==
    /\ ~open
    /\ open' = TRUE /\ peer' = TRUE
    /\ sent' = 0 /\ read' = 0 /\ answered' = 0 /\ replies' = <<>> /\ late' = 0
    /\ announced' = 0 /\ misled' = FALSE
    /\ UNCHANGED <<playing, ui, errno, img, cached, source>>

\* vg_video_start and vg_video_resume; a second registration only makes the
\* requests come faster.
Start ==
    /\ open /\ ui = "idle" /\ ~playing
    /\ playing' = TRUE
    /\ UNCHANGED <<socket, ui, errno, image>>

Pause ==
    /\ ui = "idle" /\ playing
    /\ playing' = FALSE
    /\ UNCHANGED <<socket, ui, errno, image>>

\* The widget shows the poster until the next first frame, also when it is playing.
SetPoster ==
    /\ ui = "idle"
    /\ source' = "poster"
    /\ UNCHANGED <<socket, playing, ui, errno, img, cached, announced, misled>>

\* vg_video_stop: drop the decoded frame, close, unregister, clear img_dsc.
ClearImageForgotten == cached' = None /\ img' = img                   \* faulty
ClearImage == cached' = None /\ img' = None
Stop ==
    /\ open /\ ui = "idle"
    /\ ClearImage
    /\ open' = FALSE /\ peer' = FALSE /\ playing' = FALSE
    /\ UNCHANGED <<sent, read, answered, replies, late, ui, errno, announced, misled, source>>

\* The decoded frame is dropped before the player is asked to stop, which may fail.
StopFails ==
    /\ open /\ ui = "idle"
    /\ cached' = None
    /\ UNCHANGED <<socket, playing, ui, errno, img, announced, misled, source>>

\* LVGL draws the widget and keeps what it decoded from img_dsc, when it shows that.
Draw ==
    /\ ui = "idle" /\ source = "frames" /\ cached = None
    /\ cached' = img
    /\ UNCHANGED <<socket, playing, ui, errno, img, announced, misled, source>>

--------------------------------------------------------------------------------
(* video_frame_task_cb.                                                       *)

Request ==
    /\ playing /\ ui = "idle"
    /\ sent < MaxSent /\ late < MaxTimeouts
    /\ ui' = "sending"
    /\ UNCHANGED <<socket, playing, errno, image>>

Sent ==
    /\ ui = "sending"
    /\ peer /\ sent - read < Room
    /\ sent' = sent + 1
    /\ ui' = "polling"
    /\ UNCHANGED <<open, peer, read, answered, replies, late, playing, errno, image>>

\* The server is gone, or the send is interrupted.
SendFails ==
    /\ ui = "sending"
    /\ ui' = "idle" /\ errno' = TRUE
    /\ UNCHANGED <<socket, playing, image>>

\* The first frame makes img_dsc the source of the image and is announced by the
\* custom event; later ones drop what was decoded.  "First" means that img_dsc was
\* empty before the call.
IsFirstAfterwards(frame) == frame = None                              \* faulty
IsFirst(frame) == img = None
PresentKeepsDecoded(frame) ==                                         \* faulty
    /\ img' = frame
    /\ UNCHANGED cached
    /\ IF IsFirst(frame)
       THEN announced' = announced + 1 /\ source' = "frames"
       ELSE UNCHANGED <<announced, source>>
Present(frame) ==
    /\ img' = frame
    /\ IF IsFirst(frame)
       THEN announced' = announced + 1 /\ source' = "frames" /\ UNCHANGED cached
       ELSE cached' = None /\ UNCHANGED <<announced, source>>

\* One reply is read; NULL is answered with -ENOENT.
ReceivePeeks ==                                                       \* faulty
    /\ ui = "polling" /\ replies # <<>>
    /\ ui' = "idle"
    /\ IF Head(replies) < FirstFrame THEN UNCHANGED <<img, cached, announced, source>>
       ELSE Present(Head(replies))
    /\ UNCHANGED <<socket, playing, errno, misled>>
ReceiveSkipsLate ==                                                   \* faulty
    /\ ui = "polling" /\ replies # <<>>
    /\ ui' = "idle"
    /\ replies' = Tail(replies)
    /\ IF Head(replies) < FirstFrame \/ Head(replies) # sent
       THEN UNCHANGED <<img, cached, announced, source>>
       ELSE Present(Head(replies))
    /\ UNCHANGED <<open, peer, sent, read, answered, late, playing, errno, misled>>
Receive ==
    /\ ui = "polling" /\ replies # <<>>
    /\ ui' = "idle"
    /\ replies' = Tail(replies)
    /\ IF Head(replies) < FirstFrame THEN UNCHANGED <<img, cached, announced, source>>
       ELSE Present(Head(replies))
    /\ UNCHANGED <<open, peer, sent, read, answered, late, playing, errno, misled>>

\* End of file reads as NULL; a reset connection is an error of recv.
ReceiveFails ==
    /\ ui = "polling" /\ replies = <<>> /\ ~peer
    /\ ui' = "idle"
    /\ errno' \in {errno, TRUE}
    /\ UNCHANGED <<socket, playing, image>>

\* poll returned 0 and left errno alone; -errno may be 0, which the caller takes
\* for a frame.
TimeoutNever == FALSE                                                 \* faulty
Timeout ==
    /\ ui = "polling" /\ replies = <<>> /\ peer
    /\ ui' = "idle"
    /\ late' = late + 1
    /\ IF errno THEN UNCHANGED image ELSE Present(img) /\ misled' = TRUE
    /\ UNCHANGED <<open, peer, sent, read, answered, replies, playing, errno>>

\* poll, or recv before it took anything, fails, whatever there is to read.
PollFails ==
    /\ ui = "polling"
    /\ ui' = "idle" /\ errno' = TRUE
    /\ late' = late + 1
    /\ UNCHANGED <<open, peer, sent, read, answered, replies, playing, image>>

Next ==
    \/ ServerReads \/ Reply \/ ServerCloses
    \/ SetSrc \/ Start \/ Pause \/ SetPoster \/ Stop \/ StopFails \/ Draw
    \/ Request \/ Sent \/ SendFails \/ Receive \/ ReceiveFails \/ Timeout \/ PollFails

\* The vsync of a playing widget comes again and again, send returns when there is
\* room or nobody to send to, and poll ends by a reply, the end of the connection or
\* its timeout.  Nothing is assumed of the server.
Fairness ==
    /\ WF_vars(Request) /\ WF_vars(Sent) /\ WF_vars(~peer /\ SendFails)
    /\ WF_vars(Receive \/ ReceiveFails \/ Timeout)

Spec == Init /\ [][Next]_vars
FairSpec == Spec /\ Fairness

--------------------------------------------------------------------------------
(* Properties.                                                                *)

\* Every poll that gave up, by its timeout or by an error, leaves one reply too many
\* on its way, for as long as the socket is open, and nothing else does, a send that
\* blocks or fails neither: the frame read is always the answer to the request sent
\* that many vsyncs ago, never an older or a newer one.
RepliesLagGivenUp ==
    peer => (sent - answered) + Len(replies) = late + (IF ui = "polling" THEN 1 ELSE 0)

\* A widget never shows an older frame after a newer one, also when replies are
\* late, and after a stop no frame of the old source is left to compare with.
FramesInOrder == [][img # None /\ img' # None => img' >= img]_vars

\* What LVGL draws from its cache is the frame that was received last.
CacheFresh == cached \in {None, img}

\* The custom event is sent once for every opened source, with its first frame.
\* The exception is a poll that times out while errno is 0, which also sends it.
AnnouncedWithFirstFrame ==
    open /\ ~misled => announced = IF img = None THEN 0 ELSE 1

\* A server that reads its requests cannot hold the UI thread, even if it answers
\* none of them: send finds room and poll gives up.  One that stops reading can, in
\* send, once its socket is full of the requests of polls that gave up.
UiThreadReturns == WF_vars(ServerReads) => (ui # "idle" ~> ui = "idle")

\* A playing widget that has no frame gets one from a server that reads and answers
\* and shows it in place of a poster, in spite of replies that are NULL or late and
\* of sends and polls that fail, unless all sends do or the bound of polls that give
\* up is reached.
FrameShown ==
    WF_vars(ServerReads) /\ WF_vars(Reply) /\ SF_vars(Sent) =>
        (playing /\ peer /\ img = None
            ~> \/ img # None /\ source = "frames"
               \/ ~playing \/ ~peer \/ late = MaxTimeouts)

================================================================================
