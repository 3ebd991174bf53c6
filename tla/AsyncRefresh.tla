------------------------------ MODULE AsyncRefresh -----------------------------
(***************************************************************************)
(* Tasks that run before or after a display refresh (src/uikit_async.c).    *)
(*                                                                         *)
(* Two lists of tasks hang on the default display's REFR_START and          *)
(* REFR_READY events.  An event runs its list from the head and then clears *)
(* it; the link to the next node is read after the callback returned, and   *)
(* a callback may call this interface itself, so a pass is modelled node by *)
(* node with the callback's body as a state of its own.                     *)
(*                                                                         *)
(* Definitions marked "faulty" are mistakes the properties must detect;     *)
(* nothing uses them here.                                                  *)
(***************************************************************************)
EXTENDS Naturals, FiniteSets, Sequences, SequencesExt

CONSTANTS
    Keys,         \* the (callback, user_data) pairs in use
    MaxTasks,     \* bound of the model: tasks accepted
    MaxRegs,      \* bound of the model: times the event callbacks are added
    EarlyCalls,   \* may tasks be handed in before there is a display
    DisplayGoes   \* may the display be deleted while uikit lives

ASSUME BoundAssumption == MaxTasks \in Nat /\ MaxRegs \in Nat
ASSUME ModeAssumption == EarlyCalls \in BOOLEAN /\ DisplayGoes \in BOOLEAN

Lists == {"start", "finish"}      \* refr_start_ll, refr_finish_ll
Ids == 1..MaxTasks                \* tasks, in the order they were accepted
Node == [id : Ids, key : Keys, is_cancelled : BOOLEAN]

VARIABLES
    disp,     \* is there a default display
    inited,   \* async_info.inited
    regs,     \* how often on_refr_event hangs on each of the two events
    ll,       \* [Lists -> Seq(Node)]
    phase,    \* of the refresh timer: "idle", "start", "render", "finish"
    left,     \* registrations still to be called for the event of this phase
    pos,      \* node on_refr_event is at, 0 outside its loop
    running,  \* is the callback of that node running
    accepted, \* history: number of tasks accepted
    ran,      \* history: [Lists -> ids run, in order]
    void,     \* history: the ids a cancel call was asked to stop in time
    dropped,  \* history: the ids a deinit cleared
    fresh,    \* history: the ids handed in by a callback of this REFR_READY
    stranded  \* history: did the display go since the last init

engine == <<phase, left, pos, running>>
history == <<accepted, ran, void, dropped, fresh, stranded>>
vars == <<disp, inited, regs, ll, engine, history>>

TypeOK ==
    /\ {disp, inited, running, stranded} \subseteq BOOLEAN
    /\ regs \in 0..MaxRegs /\ left \in 0..MaxRegs
    /\ ll \in [Lists -> Seq(Node)]
    /\ phase \in {"idle", "start", "render", "finish"}
    /\ pos \in 0..MaxTasks
    /\ accepted \in 0..MaxTasks
    /\ ran \in [Lists -> Seq(Ids)]
    /\ void \subseteq Ids /\ dropped \subseteq Ids /\ fresh \subseteq Ids

Init ==
    /\ disp = FALSE /\ inited = FALSE /\ regs = 0
    /\ ll = [l \in Lists |-> <<>>]
    /\ phase = "idle" /\ left = 0 /\ pos = 0 /\ running = FALSE
    /\ accepted = 0
    /\ ran = [l \in Lists |-> <<>>]
    /\ void = {} /\ dropped = {} /\ fresh = {} /\ stranded = FALSE

IdsIn(l) == {ll[l][i].id : i \in DOMAIN ll[l]}
Waiting == IdsIn("start") \cup IdsIn("finish")
RanIds == UNION {ToSet(ran[l]) : l \in Lists}

--------------------------------------------------------------------------------
(* The interface.  It is called between events or from a running callback.    *)

CanCall == running \/ phase \in {"idle", "render"}

\* vg_async_refr_init: with a display, hang on it and start from empty lists.
NeedsInit == ~inited /\ disp
RegisterForgotten == UNCHANGED regs                                  \* faulty
Register == regs' = regs + 1

InsHead(l, node, lists) == [lists EXCEPT ![l] = Cons(node, @)]       \* faulty
InsTail(l, node, lists) == [lists EXCEPT ![l] = Append(@, node)]
Empty == [l \in Lists |-> <<>>]

\* vg_async_refr_call answers OK whether or not there was a display to wait for.
\* Without one the lists are not initialised and their nodes have no room for a
\* task (node size 0): that such a task stays in its list until the lists are
\* initialised is the best that can happen to it.
ListsForCallReset == Empty                                           \* faulty
ListsForCall == IF NeedsInit THEN Empty ELSE ll
AddCall(l, key) ==
    LET node == [id |-> accepted + 1, key |-> key, is_cancelled |-> FALSE] IN
    /\ ll' = InsTail(l, node, ListsForCall)
    /\ accepted' = accepted + 1
    /\ fresh' = fresh \cup (IF phase = "finish" /\ l = "finish" THEN {node.id} ELSE {})
Call(l, key) ==
    /\ CanCall
    /\ EarlyCalls \/ disp
    /\ accepted < MaxTasks
    /\ IF NeedsInit
       THEN inited' = TRUE /\ regs < MaxRegs /\ Register
       ELSE UNCHANGED <<inited, regs>>
    /\ AddCall(l, key)
    /\ UNCHANGED <<disp, engine, ran, void, dropped, stranded>>

\* vg_async_refr_call_cancel marks every node of the key, also one that ran.
Flagged(node) == [node EXCEPT !.is_cancelled = TRUE]
Marked(l, key) == {i \in DOMAIN ll[l] : ll[l][i].key = key}
FirstMarked(l, key) == {i \in Marked(l, key) :                       \* faulty
                          \A j \in Marked(l, key) : i <= j}
MarkFirstNode(l, key) ==                                             \* faulty
    ll' = [ll EXCEPT ![l] = [i \in DOMAIN ll[l] |->
             IF i \in FirstMarked(l, key) THEN Flagged(ll[l][i]) ELSE ll[l][i]]]
MarkNodes(l, key) ==
    ll' = [ll EXCEPT ![l] = [i \in DOMAIN ll[l] |->
             IF i \in Marked(l, key) THEN Flagged(ll[l][i]) ELSE ll[l][i]]]
Cancel(l, key) ==
    /\ CanCall
    /\ inited
    /\ Marked(l, key) # {}
    /\ MarkNodes(l, key)
    /\ void' = void \cup ({ll[l][i].id : i \in Marked(l, key)} \ RanIds)
    /\ UNCHANGED <<disp, inited, regs, engine, accepted, ran, dropped, fresh, stranded>>

\* vg_async_refr_deinit: a public function that vg_deinit calls too, and that is
\* not called from a task.  The event callbacks stay on the display.
Deinit ==
    /\ phase = "idle"
    /\ inited
    /\ inited' = FALSE
    /\ ll' = Empty
    /\ dropped' = dropped \cup Waiting
    /\ stranded' = FALSE
    /\ UNCHANGED <<disp, regs, engine, accepted, ran, void, fresh>>

--------------------------------------------------------------------------------
(* LVGL: the display and its refresh timer.                                   *)

CreateDisplay ==
    /\ ~disp
    /\ disp' = TRUE
    /\ UNCHANGED <<inited, regs, ll, engine, history>>

\* The event callbacks go with the display.
DeleteDisplay ==
    /\ DisplayGoes
    /\ disp /\ phase = "idle"
    /\ disp' = FALSE
    /\ regs' = 0
    /\ stranded' = inited
    /\ UNCHANGED <<inited, ll, engine, accepted, ran, void, dropped, fresh>>

\* The timer fires: REFR_START, rendering, REFR_READY.
SendEvent(from, to) ==
    /\ disp
    /\ phase = from
    /\ phase' = to
    /\ left' = regs
    /\ UNCHANGED <<disp, inited, regs, ll, pos, running, history>>
RefrStart == SendEvent("idle", "start")
RefrReady == SendEvent("render", "finish")

InEvent == phase \in Lists
EventDone ==
    /\ InEvent /\ left = 0
    /\ phase' = IF phase = "start" THEN "render" ELSE "idle"
    /\ fresh' = {}
    /\ UNCHANGED <<disp, inited, regs, ll, left, pos, running,
                   accepted, ran, void, dropped, stranded>>

--------------------------------------------------------------------------------
(* on_refr_event                                                              *)

EnterEvent ==
    /\ InEvent /\ left > 0 /\ pos = 0
    /\ IF ll[phase] = <<>>
       THEN left' = left - 1 /\ UNCHANGED pos
       ELSE pos' = 1 /\ UNCHANGED left
    /\ UNCHANGED <<disp, inited, regs, ll, phase, running, history>>

\* The loop moves on from the current node, or clears the list and returns.
ClearListForgotten == UNCHANGED ll                                   \* faulty
ClearList == ll' = [ll EXCEPT ![phase] = <<>>]
Advance ==
    IF pos < Len(ll[phase])
    THEN pos' = pos + 1 /\ UNCHANGED <<left, ll>>
    ELSE pos' = 0 /\ left' = left - 1 /\ ClearList

SkipCancelled ==
    /\ InEvent /\ pos > 0 /\ ~running
    /\ ll[phase][pos].is_cancelled
    /\ Advance
    /\ UNCHANGED <<disp, inited, regs, phase, running, history>>

EnterCallback ==
    /\ InEvent /\ pos > 0 /\ ~running
    /\ ~ll[phase][pos].is_cancelled
    /\ running' = TRUE
    /\ ran' = [ran EXCEPT ![phase] = Append(@, ll[phase][pos].id)]
    /\ UNCHANGED <<disp, inited, regs, ll, phase, left, pos,
                   accepted, void, dropped, fresh, stranded>>

LeaveCallback ==
    /\ running
    /\ running' = FALSE
    /\ Advance
    /\ UNCHANGED <<disp, inited, regs, phase, history>>

Refresh ==
    \/ RefrStart \/ RefrReady \/ EventDone
    \/ EnterEvent \/ SkipCancelled \/ EnterCallback \/ LeaveCallback

Next ==
    \/ \E l \in Lists, key \in Keys : Call(l, key)
    \/ \E l \in Lists, key \in Keys : Cancel(l, key)
    \/ Deinit
    \/ CreateDisplay
    \/ DeleteDisplay
    \/ Refresh

Spec == Init /\ [][Next]_vars
\* The display refreshes again and again and every callback returns; a display
\* is created when none is there.
FairSpec == Spec /\ WF_vars(Refresh) /\ WF_vars(CreateDisplay)

--------------------------------------------------------------------------------
(* Properties.                                                                *)

\* A task that a cancel call was asked to stop before it ran never runs, also
\* when the cancel comes from another task of the same pass.
CancelledNeverRuns ==
    \A l \in Lists : \A i \in DOMAIN ran[l] : ran[l][i] \notin void

\* Tasks of one list run in the order they were handed in.
FifoOrder ==
    \A l \in Lists : \A i, j \in DOMAIN ran[l] : i < j => ran[l][i] < ran[l][j]

\* A task that was accepted waits, ran, was cancelled or fell to a deinit: the
\* clearing at the end of a pass takes no task that was handed in meanwhile.
NoneLost == 1..accepted \subseteq Waiting \cup RanIds \cup void \cup dropped

\* The lists are agendas: due is a task that is not cancelled and that the pass has
\* not reached.  However often on_refr_event hangs on an event, and whatever the
\* tasks of a pass call, callers see only steps of the agendas.
Passed(l, i) == l = phase /\ (i < pos \/ (i = pos /\ running))
Due(l) == {[id |-> ll[l][i].id, key |-> ll[l][i].key] :
             i \in {j \in DOMAIN ll[l] : ~ll[l][j].is_cancelled /\ ~Passed(l, j)}}
Agenda == INSTANCE TaskAgenda WITH
    Agendas <- Lists, due <- [l \in Lists |-> Due(l)], done <- ran, count <- accepted
ImplementsAgenda == Agenda!AgendaSpec

\* An accepted task does not wait for ever, unless the display took the event
\* callbacks with it: inited stays TRUE and nothing adds them to the next one.
TaskServed == \A id \in Ids : (id \in Waiting) ~> (id \notin Waiting \/ stranded)

\* uikit_async.h:57: an after-refresh task runs after the next refresh, so one
\* that an after-refresh task hands in does not run before that refresh.
AfterNextRefresh == running => ll[phase][pos].id \notin fresh
================================================================================
