------------------------------ MODULE VideoSession -----------------------------
(***************************************************************************)
(* Video widgets (src/video/uikit_video.c) playing through the contexts of  *)
(* the video adapter (src/video/video_adapter.c).                           *)
(*                                                                         *)
(* The adapter holds one context per configured vtun server.  Opening a     *)
(* source takes a free context, connects its socket and, unless the source  *)
(* is a camera, opens a media player.  A widget keeps a pointer to the      *)
(* context it was given, also after the context was closed.  The media      *)
(* service answers commands with events that arrive later, with the context *)
(* as their cookie, in the order in which they arose: all players share the *)
(* loop of the adapter.  Sockets and players of one open carry the same      *)
(* number.                                                                  *)
(*                                                                         *)
(* The widget interface has no written contract.  Liberties names what the  *)
(* client does beyond this one: it stops what it opened before it opens,    *)
(* deletes or leaves the widget, at once and without waiting for STOPPED,   *)
(* as the demos under test/video/ do.                                       *)
(*   "reopen"   set a new source while the old one is open                  *)
(*   "linger"   open a widget while another one, stopped, lives on          *)
(*   "share"    open a second camera widget while one is open               *)
(*   "abandon"  delete a widget without stopping it                         *)
(*   "stale"    play or set callbacks on a widget after stopping it         *)
(* Definitions marked "faulty" are mistakes the properties must detect.     *)
(***************************************************************************)
EXTENDS Naturals, Integers, FiniteSets, Sequences, SequencesExt

CONSTANTS
    Widgets,          \* the vg_video_t objects
    SlotKind,         \* the configured contexts in order: "Video" or "Camera"
    Watched,          \* the media events a client asks to be called for
    Liberties,        \* see above
    CloseFails,       \* may media_uv_player_close fail
    EventsAfterClose, \* do events in flight outlive their player
    MaxOpens,         \* bound of the model: opens that reached a server
    MaxEvents,        \* bound of the model: media events in flight
    MaxRegs           \* bound of the model: vsync registrations of a widget

EventNames == {"started", "prepared", "paused", "completed", "stopped"}
Kinds == {"Video", "Camera"}

ASSUME SlotAssumption == SlotKind \in Seq(Kinds)
ASSUME WatchedAssumption == Watched \subseteq EventNames
ASSUME LibertyAssumption ==
    Liberties \subseteq {"reopen", "linger", "share", "abandon", "stale"}
ASSUME ServiceAssumption == CloseFails \in BOOLEAN /\ EventsAfterClose \in BOOLEAN
ASSUME BoundAssumption == {MaxOpens, MaxEvents, MaxRegs} \subseteq Nat \ {0}

Slots == DOMAIN SlotKind
Opens == 1..MaxOpens
None == 0       \* NULL, and a closed descriptor
Failed == -1    \* the negative result of connecting, kept in fd
Clear == [ev \in Watched |-> None]

VARIABLES
    slot,      \* [Slots -> context]; a callback is known by the open it was set for
    video_ctx, \* [Widgets -> slot it points to]
    vsync,     \* [Widgets -> registrations of video_frame_task_cb]
    created,   \* widgets created so far
    deleted,   \* widgets deleted
    socks,     \* open sockets
    players,   \* open media players
    events,    \* media events in flight
    busy,      \* slot whose STOPPED callback is running
    opens,     \* history: number of sockets connected
    sess,      \* history: [Widgets -> last open that succeeded]
    live,      \* history: widgets whose last open was not stopped
    asked      \* history: [Widgets -> events it set callbacks for in sess with no
               \* STOPPED under way]

vars == <<slot, video_ctx, vsync, created, deleted, socks, players, events, busy,
          opens, sess, live, asked>>

Context == [fd : Opens \cup {None, Failed}, handle : Opens \cup {None},
            cbs : [Watched -> Opens \cup {None}]]
Event == [player : Opens, cookie : Slots, ev : EventNames]

TypeOK ==
    /\ slot \in [Slots -> Context]
    /\ video_ctx \in [Widgets -> Slots \cup {None}]
    /\ vsync \in [Widgets -> 0..MaxRegs]
    /\ deleted \subseteq created /\ created \subseteq Widgets
    /\ live \subseteq created \ deleted
    /\ socks \subseteq Opens /\ players \subseteq Opens
    /\ events \in Seq(Event)
    /\ busy \in Slots \cup {None}
    /\ opens \in 0..MaxOpens
    /\ sess \in [Widgets -> 0..MaxOpens]
    /\ asked \in [Widgets -> SUBSET Watched]

Init ==
    /\ slot = [s \in Slots |-> [fd |-> None, handle |-> None, cbs |-> Clear]]
    /\ video_ctx = [w \in Widgets |-> None]
    /\ vsync = [w \in Widgets |-> 0]
    /\ created = {} /\ deleted = {} /\ live = {}
    /\ socks = {} /\ players = {} /\ events = <<>> /\ busy = None
    /\ opens = 0
    /\ sess = [w \in Widgets |-> 0]
    /\ asked = [w \in Widgets |-> {}]

Alive(w) == w \in created \ deleted

--------------------------------------------------------------------------------
(* The media service.                                                         *)

\* A command that succeeded is answered by an event.  Only watched events and
\* STOPPED have an effect.
Post(s, ev) ==
    IF ev \in Watched \cup {"stopped"}
    THEN /\ Len(events) < MaxEvents
         /\ events' = Append(events, [player |-> slot[s].handle, cookie |-> s, ev |-> ev])
    ELSE UNCHANGED events

\* The events of a queue but those about player p, as far as each place.
Filtered(queue, p) ==
    LET upTo[i \in 0..Len(queue)] ==
          IF i = 0 THEN <<>>
          ELSE IF queue[i].player = p THEN upTo[i - 1]
          ELSE Append(upTo[i - 1], queue[i])
    IN upTo
Without(queue, p) == Filtered(queue, p)[Len(queue)]
After(queue, p) == IF EventsAfterClose THEN queue ELSE Without(queue, p)

\* Playing ends by itself.
Complete(s) ==
    /\ slot[s].handle \in players
    /\ Post(s, "completed")
    /\ UNCHANGED <<slot, video_ctx, vsync, created, deleted, socks, players, busy,
                   opens, sess, live, asked>>

--------------------------------------------------------------------------------
(* Opening a source: vg_video_set_src_opt, video_adapter_open.                *)

\* vg_find_avail_ctx: a camera context never has a handle.
AvailableAny(kind) == {s \in Slots : SlotKind[s] = kind}              \* faulty
Available(kind) == {s \in Slots : SlotKind[s] = kind /\ slot[s].handle = None}
FirstOf(S) == CHOOSE s \in S : \A t \in S : s <= t

MayOpen(w, kind) ==
    /\ "reopen" \in Liberties \/ w \notin live
    /\ "linger" \in Liberties \/ \A v \in created \ deleted :
                                    v \in {w} \cup live \/ video_ctx[v] = None
    /\ "share" \in Liberties \/ kind = "Video"
         \/ \A v \in live : SlotKind[video_ctx[v]] # "Camera"

NoOpen(w) ==
    /\ video_ctx' = [video_ctx EXCEPT ![w] = None]
    /\ live' = live \ {w}

OpenNowhere(w, kind) ==
    /\ Available(kind) = {}
    /\ NoOpen(w)
    /\ UNCHANGED <<slot, vsync, created, deleted, socks, players, events, busy,
                   opens, sess, asked>>

ConnectFails(w, kind) ==
    /\ Available(kind) # {}
    /\ slot' = [slot EXCEPT ![FirstOf(Available(kind))].fd = Failed]
    /\ NoOpen(w)
    /\ UNCHANGED <<vsync, created, deleted, socks, players, events, busy,
                   opens, sess, asked>>

\* The fail path closes the socket again, and the player if there is one; the
\* context forgets the player also when it does not close.
GiveBackSocketOnly(s) ==                                              \* faulty
    /\ slot' = [slot EXCEPT ![s].fd = None]
    /\ UNCHANGED socks
    /\ players' = players \cup {opens + 1}
GiveBackPlayerOnly(s) ==                                              \* faulty
    /\ slot' = [slot EXCEPT ![s].fd = None]
    /\ socks' = socks \cup {opens + 1}
    /\ UNCHANGED players
GiveBack(s) ==
    /\ slot' = [slot EXCEPT ![s].fd = None]
    /\ UNCHANGED socks
    /\ players' \in {players} \cup (IF CloseFails THEN {players \cup {opens + 1}} ELSE {})
PlayerFails(w, kind) ==
    /\ kind = "Video"
    /\ Available(kind) # {}
    /\ opens < MaxOpens
    /\ opens' = opens + 1
    /\ GiveBack(FirstOf(Available(kind)))
    /\ NoOpen(w)
    /\ UNCHANGED <<vsync, created, deleted, events, busy, sess, asked>>

\* The callbacks stay as the last user of the context left them.
Opened(w, kind) ==
    LET s == FirstOf(Available(kind))
        id == opens + 1 IN
    /\ Available(kind) # {}
    /\ opens < MaxOpens
    /\ opens' = id
    /\ socks' = socks \cup {id}
    /\ IF kind = "Video"
       THEN /\ slot' = [slot EXCEPT ![s].fd = id, ![s].handle = id]
            /\ players' = players \cup {id}
            /\ IF "prepared" \in Watched
               THEN /\ Len(events) < MaxEvents
                    /\ events' = Append(events,
                          [player |-> id, cookie |-> s, ev |-> "prepared"])
               ELSE UNCHANGED events
       ELSE slot' = [slot EXCEPT ![s].fd = id] /\ UNCHANGED <<players, events>>
    /\ video_ctx' = [video_ctx EXCEPT ![w] = s]
    /\ sess' = [sess EXCEPT ![w] = id]
    /\ live' = live \cup {w}
    /\ asked' = [asked EXCEPT ![w] = {}]
    /\ UNCHANGED <<vsync, created, deleted, busy>>

SetSrc(w, kind) ==
    /\ Alive(w)
    /\ MayOpen(w, kind)
    /\ \/ OpenNowhere(w, kind) \/ ConnectFails(w, kind)
       \/ PlayerFails(w, kind) \/ Opened(w, kind)

--------------------------------------------------------------------------------
(* Playing.  A command that fails changes nothing, neither does seeking.      *)

Create(w) ==
    /\ w \notin created
    /\ created' = created \cup {w}
    /\ UNCHANGED <<slot, video_ctx, vsync, deleted, socks, players, events, busy,
                   opens, sess, live, asked>>

\* Without a context every call answers -EPERM.
MayCall(w) ==
    /\ Alive(w) /\ video_ctx[w] # None
    /\ "stale" \in Liberties \/ w \in live

\* vg_video_set_callback.  A STOPPED of an earlier playback in the context may be
\* under way; it takes the callbacks that are set now.
StoppedUnderWay(s) ==
    busy = s \/ \E i \in DOMAIN events : events[i].cookie = s /\ events[i].ev = "stopped"
CallbacksWith(cbs, ev, id) == [cbs EXCEPT ![ev] = id]
SetCallback(w, ev) ==
    /\ MayCall(w)
    /\ slot' = [slot EXCEPT ![video_ctx[w]].cbs = CallbacksWith(@, ev, sess[w])]
    /\ asked' = [asked EXCEPT ![w] =
                   IF w \in live /\ ~StoppedUnderWay(video_ctx[w]) THEN @ \cup {ev} ELSE @]
    /\ UNCHANGED <<video_ctx, vsync, created, deleted, socks, players, events, busy,
                   opens, sess, live>>

Register(w) == vsync[w] < MaxRegs /\ vsync' = [vsync EXCEPT ![w] = @ + 1]
UnregisterForgotten(w) == UNCHANGED vsync                             \* faulty
Unregister(w) == vsync' = [vsync EXCEPT ![w] = 0]

\* A camera context is told over its socket, which needs an open one.
Reaches(s) == slot[s].handle # None \/ slot[s].fd \in socks
Answer(s, ev) == IF slot[s].handle # None THEN Post(s, ev) ELSE UNCHANGED events

\* vg_video_start, and vg_video_resume for a context with a player.
Start(w) ==
    /\ MayCall(w)
    /\ Reaches(video_ctx[w])
    /\ Answer(video_ctx[w], "started")
    /\ Register(w)
    /\ UNCHANGED <<slot, video_ctx, created, deleted, socks, players, busy,
                   opens, sess, live, asked>>

Pause(w) ==
    /\ MayCall(w)
    /\ slot[video_ctx[w]].handle # None
    /\ Post(video_ctx[w], "paused")
    /\ Unregister(w)
    /\ UNCHANGED <<slot, video_ctx, created, deleted, socks, players, busy,
                   opens, sess, live, asked>>

\* video_adapter_close, on the queue of events in flight: the socket is closed
\* first; a player that does not close stays in the context.
CloseSocket(s) ==
    /\ socks' = socks \ {slot[s].fd}
    /\ slot' = [slot EXCEPT ![s].fd = IF @ > 0 THEN None ELSE @]
    /\ UNCHANGED players
CloseBothKeepsHandle(s) ==                                            \* faulty
    /\ socks' = socks \ {slot[s].fd}
    /\ slot' = [slot EXCEPT ![s].fd = IF @ > 0 THEN None ELSE @]
    /\ players' = players \ {slot[s].handle}
CloseBoth(s) ==
    /\ socks' = socks \ {slot[s].fd}
    /\ slot' = [slot EXCEPT ![s].fd = IF @ > 0 THEN None ELSE @, ![s].handle = None]
    /\ players' = players \ {slot[s].handle}
ClosePlayerForgotten(s, queue) == CloseSocket(s) /\ events' = queue   \* faulty
Close(s, queue) ==
    \/ CloseBoth(s) /\ events' = After(queue, slot[s].handle)
    \/ /\ CloseFails /\ slot[s].handle # None
       /\ CloseSocket(s)
       /\ events' = queue

\* The widget keeps its pointer to the context.
Stop(w) ==
    LET s == video_ctx[w] IN
    /\ MayCall(w)
    /\ Reaches(s)
    /\ IF slot[s].handle # None
       THEN /\ Len(events) < MaxEvents
            /\ Close(s, Append(events,
                  [player |-> slot[s].handle, cookie |-> s, ev |-> "stopped"]))
       ELSE Close(s, events)
    /\ Unregister(w)
    /\ live' = live \ {w}
    /\ UNCHANGED <<video_ctx, created, deleted, busy, opens, sess, asked>>

\* vg_video_destructor closes whatever the context holds by now.
Delete(w) ==
    /\ Alive(w)
    /\ "abandon" \in Liberties \/ w \notin live
    /\ IF video_ctx[w] # None THEN Close(video_ctx[w], events)
       ELSE UNCHANGED <<slot, socks, players, events>>
    /\ Unregister(w)
    /\ deleted' = deleted \cup {w}
    /\ live' = live \ {w}
    /\ UNCHANGED <<video_ctx, created, busy, opens, sess, asked>>

--------------------------------------------------------------------------------
(* video_event_cb.  The callback of STOPPED may call the interface again      *)
(* before the event handler forgets all callbacks.                            *)

ForgetsNever(ev) == FALSE                                             \* faulty
ForgetsOnCompleted(ev) == ev \in {"completed", "stopped"}             \* faulty
ForgetsCallbacks(ev) == ev = "stopped"

HandleEvent ==
    LET e == Head(events) IN
    /\ events # <<>> /\ busy = None
    /\ events' = Tail(events)
    /\ busy' = IF ForgetsCallbacks(e.ev) THEN e.cookie ELSE None
    /\ UNCHANGED <<slot, video_ctx, vsync, created, deleted, socks, players,
                   opens, sess, live, asked>>

ForgetCallbacks ==
    /\ busy # None
    /\ slot' = [slot EXCEPT ![busy].cbs = Clear]
    /\ busy' = None
    /\ UNCHANGED <<video_ctx, vsync, created, deleted, socks, players, events,
                   opens, sess, live, asked>>

Next ==
    \/ \E w \in Widgets : Create(w) \/ Start(w) \/ Pause(w) \/ Stop(w) \/ Delete(w)
    \/ \E w \in Widgets, kind \in Kinds : SetSrc(w, kind)
    \/ \E w \in Widgets, ev \in Watched : SetCallback(w, ev)
    \/ \E s \in Slots : Complete(s)
    \/ HandleEvent
    \/ ForgetCallbacks

Spec == Init /\ [][Next]_vars

--------------------------------------------------------------------------------
(* Properties.                                                                *)

Holders(field, id) == {s \in Slots : slot[s][field] = id}

\* Whatever step of an open fails, every open media player is the handle of
\* exactly one context, through which it can be stopped and closed.
PlayersHeld == \A p \in players : Cardinality(Holders("handle", p)) = 1

\* Whatever clients do and whatever fails, no context commands a closed player
\* and no two contexts command the same one.
NoDanglingHandle ==
    \A s \in Slots : slot[s].handle # None =>
        slot[s].handle \in players /\ Holders("handle", slot[s].handle) = {s}

\* Every open socket is the descriptor of exactly one context, and no context
\* holds a closed one.
SocketsHeld ==
    /\ \A k \in socks : Cardinality(Holders("fd", k)) = 1
    /\ \A s \in Slots : slot[s].fd \in socks \cup {None, Failed}

\* A source stays open until its own widget stops it or goes: the context a
\* playing widget points to holds the socket and the player of that very open.
SessionIntact ==
    \A w \in live :
        /\ slot[video_ctx[w]].fd = sess[w]
        /\ SlotKind[video_ctx[w]] = "Video" => slot[video_ctx[w]].handle = sess[w]

\* A context that no playing widget uses is available again.
SlotsReturned ==
    \A s \in Slots : (\A w \in live : video_ctx[w] # s) =>
        slot[s].handle = None /\ slot[s].fd \in {None, Failed}

\* Frames are pulled only by a widget that plays, from an open socket.
VsyncInSession ==
    \A w \in Widgets : vsync[w] > 0 => w \in live /\ slot[video_ctx[w]].fd \in socks

\* No event calls what was set for an earlier playback than its own, whose object may
\* be gone, although the next open of a context inherits the callbacks of the last and
\* may come before its STOPPED.  A late event may call what was set for a later one.
NoCallbackOfEarlier ==
    events # <<>> /\ busy = None /\ Head(events).ev \in Watched =>
        LET callback == slot[Head(events).cookie].cbs[Head(events).ev] IN
        callback = None \/ callback >= Head(events).player

\* The callbacks set on a playing widget are there until it is stopped.  The exception
\* is what was set while a STOPPED of an earlier playback was under way to the context.
CallbacksKept ==
    \A w \in live : \A ev \in asked[w] : slot[video_ctx[w]].cbs[ev] = sess[w]

================================================================================
