--------------------------- MODULE VideoSessionProofs --------------------------
(***************************************************************************)
(* Proofs about video widgets and the contexts they play through.  Each      *)
(* theorem says which liberties of the client it forbids: the properties do  *)
(* not hold for every client.                                               *)
(***************************************************************************)
EXTENDS VideoSession, SequenceTheorems, FiniteSetTheorems, WellFoundedInduction, TLAPS

--------------------------------------------------------------------------------
(* The slots and the first of them.                                           *)

\* A slot is a positive number, so it is never NULL.
LEMMA SlotFacts ==
    /\ Slots = 1..Len(SlotKind) /\ Len(SlotKind) \in Nat
    /\ Slots \subseteq Nat \ {0}
    /\ \A s \in Slots : SlotKind[s] \in Kinds
    /\ None \notin Slots
<1>1. SlotKind \in Seq(Kinds)
  BY SlotAssumption
<1> QED BY <1>1, LenProperties, ElementOfSeq DEF Slots, None

\* vg_find_avail_ctx finds one of the available contexts if there is one.
LEMMA FirstFound ==
    ASSUME NEW S, S \subseteq Slots, S # {}
    PROVE  FirstOf(S) \in S
<1>1. S \subseteq Nat
  BY SlotFacts
<1>2. \E s \in S : \A t \in S : ~(<<t, s>> \in OpToRel(<, Nat))
  BY <1>1, WFMin, NatLessThanWellFounded
<1>3. \A s, t \in Nat : t < s => <<t, s>> \in OpToRel(<, Nat)
  BY DEF OpToRel
<1>4. \E s \in S : \A t \in S : s <= t
  <2>1. PICK s \in S : \A t \in S : ~(<<t, s>> \in OpToRel(<, Nat))
    BY <1>2
  <2>2. \A t \in S : ~(t < s) /\ t \in Nat /\ s \in Nat
    BY <1>1, <1>3, <2>1
  <2> QED BY <2>2
<1> QED BY <1>4 DEF FirstOf

\* The bounds are numbers.
LEMMA Bounds ==
    /\ MaxOpens \in Nat \ {0} /\ MaxEvents \in Nat \ {0} /\ MaxRegs \in Nat \ {0}
    /\ Opens = 1..MaxOpens /\ None = 0 /\ Failed = -1
BY BoundAssumption DEF Opens, None, Failed

--------------------------------------------------------------------------------
(* What holds for every client.                                               *)

Types ==
    /\ slot \in [Slots -> Context]
    /\ video_ctx \in [Widgets -> Slots \cup {None}]
    /\ vsync \in [Widgets -> 0..MaxRegs]
    /\ sess \in [Widgets -> 0..MaxOpens]
    /\ asked \in [Widgets -> SUBSET Watched]
    /\ opens \in 0..MaxOpens

\* Widgets are created before they are used and hold a context while they play.
WidgetsRight ==
    /\ created \subseteq Widgets
    /\ live \subseteq created \ deleted
    /\ \A w \in live : video_ctx[w] \in Slots /\ sess[w] \in 1..opens
    /\ \A w \in Widgets \ created : video_ctx[w] = None

\* Nothing carries the number of an open that is yet to come.
NumbersUsed ==
    /\ socks \subseteq 1..opens /\ players \subseteq 1..opens
    /\ \A s \in Slots : slot[s].fd <= opens /\ slot[s].handle <= opens

\* Players belong to video contexts, and no context commands a closed one or that
\* of another.
HandlesRight ==
    /\ \A s \in Slots : SlotKind[s] = "Camera" => slot[s].handle = None
    /\ \A s \in Slots : slot[s].handle # None => slot[s].handle \in players
    /\ \A s, t \in Slots : slot[s].handle # None /\ slot[s].handle = slot[t].handle => s = t

\* Unless a player does not close, every open player can be reached.
PlayersOwned == ~CloseFails => \A p \in players : \E s \in Slots : slot[s].handle = p

Base == Types /\ WidgetsRight /\ NumbersUsed /\ HandlesRight /\ PlayersOwned

\* The fields of a context.
LEMMA ContextFacts ==
    ASSUME Types, NEW s \in Slots
    PROVE  /\ slot[s] \in Context
           /\ slot[s].fd \in Opens \cup {None, Failed}
           /\ slot[s].handle \in Opens \cup {None}
           /\ slot[s].fd \in Int /\ slot[s].handle \in Nat
           /\ slot[s].cbs \in [Watched -> Opens \cup {None}]
BY Bounds DEF Types, Context

\* What the fail paths of an open do to the contexts.
LEMMA FdSet ==
    ASSUME Types, NEW s \in Slots, NEW x \in Opens \cup {None, Failed},
           slot' = [slot EXCEPT ![s].fd = x]
    PROVE  /\ slot' \in [Slots -> Context]
           /\ \A t \in Slots \ {s} : slot'[t] = slot[t]
           /\ slot'[s].fd = x
           /\ slot'[s].handle = slot[s].handle /\ slot'[s].cbs = slot[s].cbs
BY ContextFacts DEF Types, Context

\* What video_adapter_close does.
LEMMA CloseFacts ==
    ASSUME Types, NEW s \in Slots, NEW queue, Close(s, queue)
    PROVE  /\ slot' \in [Slots -> Context]
           /\ \A t \in Slots \ {s} : slot'[t] = slot[t]
           /\ slot'[s].fd = IF slot[s].fd > 0 THEN None ELSE slot[s].fd
           /\ slot'[s].cbs = slot[s].cbs
           /\ socks' = socks \ {slot[s].fd}
           /\ \/ /\ slot'[s].handle = None /\ players' = players \ {slot[s].handle}
                 /\ events' = After(queue, slot[s].handle)
              \/ /\ CloseFails /\ slot[s].handle # None /\ slot'[s].handle = slot[s].handle
                 /\ UNCHANGED players /\ events' = queue
<1>1. /\ slot[s] \in Context /\ None \in Opens \cup {None, Failed}
      /\ None \in Opens \cup {None} /\ slot \in [Slots -> Context]
  BY ContextFacts DEF Types
<1>2. CASE CloseBoth(s) /\ events' = After(queue, slot[s].handle)
  BY <1>1, <1>2 DEF CloseBoth, Context
<1>3. CASE CloseFails /\ slot[s].handle # None /\ CloseSocket(s) /\ events' = queue
  BY <1>1, <1>3 DEF CloseSocket, Context
<1> QED BY <1>2, <1>3 DEF Close

\* What a successful open does.
LEMMA OpenedFacts ==
    ASSUME Base, NEW w \in Widgets, NEW kind \in Kinds, Opened(w, kind)
    PROVE  \E s \in Slots :
             /\ s = FirstOf(Available(kind))
             /\ SlotKind[s] = kind /\ slot[s].handle = None
             /\ opens < MaxOpens /\ opens' = opens + 1
             /\ slot' \in [Slots -> Context]
             /\ \A t \in Slots \ {s} : slot'[t] = slot[t]
             /\ slot'[s].fd = opens + 1 /\ slot'[s].cbs = slot[s].cbs
             /\ socks' = socks \cup {opens + 1}
             /\ \/ /\ kind = "Video" /\ slot'[s].handle = opens + 1
                   /\ players' = players \cup {opens + 1}
                \/ kind = "Camera" /\ slot'[s].handle = None /\ UNCHANGED <<players, events>>
             /\ video_ctx' = [video_ctx EXCEPT ![w] = s]
             /\ sess' = [sess EXCEPT ![w] = opens + 1]
             /\ live' = live \cup {w}
             /\ asked' = [asked EXCEPT ![w] = {}]
             /\ UNCHANGED <<vsync, created, deleted, busy>>
<1> DEFINE s == FirstOf(Available(kind))
<1>1. s \in Slots /\ SlotKind[s] = kind /\ slot[s].handle = None
  BY FirstFound DEF Opened, Available
<1>2. opens \in Nat /\ opens < MaxOpens /\ opens + 1 \in Opens
  BY Bounds DEF Base, Types, Opened
<1>3. slot[s] \in Context /\ slot \in [Slots -> Context]
  BY <1>1, ContextFacts DEF Base, Types
<1> HIDE DEF s
<1>4. CASE kind = "Video"
  <2>1. /\ slot' = [slot EXCEPT ![s].fd = opens + 1, ![s].handle = opens + 1]
        /\ players' = players \cup {opens + 1}
    BY <1>4 DEF Opened, s
  <2>2. /\ slot' \in [Slots -> Context]
        /\ \A t \in Slots \ {s} : slot'[t] = slot[t]
        /\ slot'[s].fd = opens + 1 /\ slot'[s].cbs = slot[s].cbs
        /\ slot'[s].handle = opens + 1
    BY <1>1, <1>2, <1>3, <2>1 DEF Context
  <2> QED BY <1>1, <1>2, <1>4, <2>1, <2>2 DEF Opened, s
<1>5. CASE kind = "Camera"
  <2>1. slot' = [slot EXCEPT ![s].fd = opens + 1] /\ UNCHANGED <<players, events>>
    BY <1>5 DEF Opened, s
  <2>2. /\ slot' \in [Slots -> Context]
        /\ \A t \in Slots \ {s} : slot'[t] = slot[t]
        /\ slot'[s].fd = opens + 1 /\ slot'[s].cbs = slot[s].cbs
        /\ slot'[s].handle = None
    BY <1>1, <1>2, <1>3, <2>1 DEF Context
  <2> QED BY <1>1, <1>2, <1>5, <2>1, <2>2 DEF Opened, s
<1> QED BY <1>4, <1>5 DEF Kinds

\* What an open that fails does, wherever it fails.
LEMMA OpenFailsFacts ==
    ASSUME Base, NEW w \in Widgets, NEW kind \in Kinds,
           OpenNowhere(w, kind) \/ ConnectFails(w, kind) \/ PlayerFails(w, kind)
    PROVE  /\ slot' \in [Slots -> Context]
           /\ \A t \in Slots : /\ slot'[t].handle = slot[t].handle
                               /\ slot'[t].cbs = slot[t].cbs
                               /\ \/ slot'[t] = slot[t]
                                  \/ /\ slot'[t].fd \in {None, Failed}
                                     /\ SlotKind[t] = kind /\ slot[t].handle = None
           /\ opens' \in {opens, opens + 1} /\ opens' <= MaxOpens
           /\ players' \in {players, players \cup {opens'}}
           /\ players' # players => CloseFails /\ opens' = opens + 1
           /\ UNCHANGED <<vsync, created, deleted, socks, events, busy, sess, asked>>
           /\ video_ctx' = [video_ctx EXCEPT ![w] = None]
           /\ live' = live \ {w}
<1> DEFINE s == FirstOf(Available(kind))
<1>1. opens \in Nat /\ opens <= MaxOpens /\ slot \in [Slots -> Context]
  BY Bounds DEF Base, Types
<1>2. CASE OpenNowhere(w, kind)
  BY <1>1, <1>2 DEF OpenNowhere, NoOpen
<1>3. Available(kind) # {} => s \in Slots /\ SlotKind[s] = kind /\ slot[s].handle = None
  BY FirstFound DEF Available
<1> HIDE DEF s
<1>4. CASE ConnectFails(w, kind)
  <2>1. slot' = [slot EXCEPT ![s].fd = Failed] /\ s \in Slots
    BY <1>3, <1>4 DEF ConnectFails, s
  <2>2. Failed \in Opens \cup {None, Failed}
    OBVIOUS
  <2>3. /\ slot' \in [Slots -> Context]
        /\ \A t \in Slots \ {s} : slot'[t] = slot[t]
        /\ slot'[s].fd = Failed
        /\ slot'[s].handle = slot[s].handle /\ slot'[s].cbs = slot[s].cbs
    BY <2>1, <2>2, FdSet DEF Base
  <2>4. SlotKind[s] = kind /\ slot[s].handle = None
    BY <1>3, <1>4 DEF ConnectFails
  <2> QED BY <1>1, <1>4, <2>3, <2>4 DEF ConnectFails, NoOpen
<1>5. CASE PlayerFails(w, kind)
  <2>1. /\ slot' = [slot EXCEPT ![s].fd = None] /\ s \in Slots /\ opens' = opens + 1
        /\ opens < MaxOpens
    BY <1>3, <1>5 DEF PlayerFails, GiveBack, s
  <2>2. /\ players' \in {players, players \cup {opens'}}
        /\ players' # players => CloseFails
    BY <1>5, <2>1 DEF PlayerFails, GiveBack
  <2>3. None \in Opens \cup {None, Failed}
    OBVIOUS
  <2>4. /\ slot' \in [Slots -> Context]
        /\ \A t \in Slots \ {s} : slot'[t] = slot[t]
        /\ slot'[s].fd = None
        /\ slot'[s].handle = slot[s].handle /\ slot'[s].cbs = slot[s].cbs
    BY <2>1, <2>3, FdSet DEF Base
  <2>5. SlotKind[s] = kind /\ slot[s].handle = None
    BY <1>3, <1>5 DEF PlayerFails
  <2>6. UNCHANGED <<vsync, socks, events, busy, sess, asked>>
    BY <1>5 DEF PlayerFails, GiveBack
  <2>7. opens' \in {opens, opens + 1} /\ opens' <= MaxOpens
    BY <1>1, <2>1, Bounds
  <2> QED BY <1>5, <2>1, <2>2, <2>4, <2>5, <2>6, <2>7 DEF PlayerFails, NoOpen
<1> QED BY <1>2, <1>4, <1>5

\* What setting or forgetting callbacks does.
LEMMA CbsSet ==
    ASSUME Types, NEW s \in Slots, NEW c \in [Watched -> Opens \cup {None}],
           slot' = [slot EXCEPT ![s].cbs = c]
    PROVE  /\ slot' \in [Slots -> Context]
           /\ \A t \in Slots \ {s} : slot'[t] = slot[t]
           /\ slot'[s].cbs = c
           /\ slot'[s].handle = slot[s].handle /\ slot'[s].fd = slot[s].fd
BY ContextFacts DEF Types, Context

\* vg_video_set_callback changes one callback of the context the widget points to.
LEMMA SetCallbackFacts ==
    ASSUME Base, NEW w \in Widgets, NEW ev \in Watched, SetCallback(w, ev)
    PROVE  /\ video_ctx[w] \in Slots
           /\ slot' \in [Slots -> Context]
           /\ \A t \in Slots \ {video_ctx[w]} : slot'[t] = slot[t]
           /\ slot'[video_ctx[w]].cbs = [slot[video_ctx[w]].cbs EXCEPT ![ev] = sess[w]]
           /\ \A t \in Slots : slot'[t].handle = slot[t].handle /\ slot'[t].fd = slot[t].fd
           /\ asked' \in [Widgets -> SUBSET Watched]
           /\ asked'[w] = IF w \in live /\ ~StoppedUnderWay(video_ctx[w])
                          THEN asked[w] \cup {ev} ELSE asked[w]
           /\ \A v \in Widgets \ {w} : asked'[v] = asked[v]
<1> DEFINE s == video_ctx[w]
           c == [slot[s].cbs EXCEPT ![ev] = sess[w]]
<1>1. s \in Slots
  BY DEF SetCallback, MayCall, Base, Types
<1>2. sess[w] \in Opens \cup {None}
  BY Bounds DEF Base, Types
<1>3. c \in [Watched -> Opens \cup {None}]
  BY <1>1, <1>2, ContextFacts DEF Base
<1>4. slot' = [slot EXCEPT ![s].cbs = c]
  BY DEF SetCallback, CallbacksWith
<1>5. asked' = [asked EXCEPT ![w] = IF w \in live /\ ~StoppedUnderWay(s)
                                     THEN asked[w] \cup {ev} ELSE asked[w]]
  BY DEF SetCallback
<1>6. asked \in [Widgets -> SUBSET Watched]
  BY DEF Base, Types
<1>7. /\ asked' \in [Widgets -> SUBSET Watched]
      /\ asked'[w] = IF w \in live /\ ~StoppedUnderWay(s) THEN asked[w] \cup {ev}
                     ELSE asked[w]
      /\ \A v \in Widgets \ {w} : asked'[v] = asked[v]
  BY <1>5, <1>6
<1> HIDE DEF s, c
<1>8. /\ slot' \in [Slots -> Context]
      /\ \A t \in Slots \ {s} : slot'[t] = slot[t]
      /\ slot'[s].cbs = c
      /\ slot'[s].handle = slot[s].handle /\ slot'[s].fd = slot[s].fd
  BY <1>1, <1>3, <1>4, CbsSet DEF Base
<1> QED BY <1>1, <1>7, <1>8 DEF s, c

\* After STOPPED the event handler forgets the callbacks of one context.
LEMMA ForgetFacts ==
    ASSUME Base, ForgetCallbacks
    PROVE  /\ slot' \in [Slots -> Context]
           /\ \A t \in Slots : /\ slot'[t].cbs = IF t = busy THEN Clear ELSE slot[t].cbs
                               /\ slot'[t].handle = slot[t].handle
                               /\ slot'[t].fd = slot[t].fd
<1>1. slot' = [slot EXCEPT ![busy].cbs = Clear]
  BY DEF ForgetCallbacks
<1>2. slot \in [Slots -> Context]
  BY DEF Base, Types
<1>3. CASE busy \in Slots
  <2>1. Clear \in [Watched -> Opens \cup {None}]
    BY DEF Clear
  <2>2. /\ slot' \in [Slots -> Context]
        /\ \A t \in Slots \ {busy} : slot'[t] = slot[t]
        /\ slot'[busy].cbs = Clear
        /\ slot'[busy].handle = slot[busy].handle /\ slot'[busy].fd = slot[busy].fd
    BY <1>1, <1>3, <2>1, CbsSet DEF Base
  <2> QED BY <1>3, <2>2
<1>4. CASE busy \notin Slots
  <2>1. slot' = slot
    BY <1>1, <1>2, <1>4
  <2> QED BY <1>2, <1>4, <2>1
<1> QED BY <1>3, <1>4

--------------------------------------------------------------------------------
(* Every client: no context commands a closed player.                         *)

\* Nothing is open at first.
LEMMA BaseInit == Init => Base
<1> SUFFICES ASSUME Init PROVE Base
  OBVIOUS
<1>1. \A t \in Slots : slot[t] \in Context /\ slot[t].fd = 0 /\ slot[t].handle = 0
  BY Bounds DEF Init, Context, Clear
<1>2. Types
  BY <1>1, Bounds DEF Init, Types
<1>3. WidgetsRight
  BY DEF Init, WidgetsRight
<1>4. NumbersUsed
  BY <1>1 DEF Init, NumbersUsed
<1>5. HandlesRight /\ PlayersOwned
  BY <1>1 DEF Init, HandlesRight, PlayersOwned, None
<1> QED BY <1>2, <1>3, <1>4, <1>5 DEF Base

\* A step that leaves descriptors, handles and pointers alone keeps it.
LEMMA BaseQuiet ==
    ASSUME Base,
           slot' \in [Slots -> Context],
           \A t \in Slots : slot'[t].handle = slot[t].handle /\ slot'[t].fd = slot[t].fd,
           vsync' \in [Widgets -> 0..MaxRegs], asked' \in [Widgets -> SUBSET Watched],
           created \subseteq created', created' \subseteq Widgets,
           UNCHANGED <<video_ctx, deleted, socks, players, opens, sess, live>>
    PROVE  Base'
<1>1. Types'
  BY DEF Base, Types
<1>2. WidgetsRight'
  BY DEF Base, WidgetsRight
<1>3. NumbersUsed'
  BY DEF Base, NumbersUsed
<1>4. HandlesRight' /\ PlayersOwned'
  BY DEF Base, HandlesRight, PlayersOwned
<1> QED BY <1>1, <1>2, <1>3, <1>4 DEF Base

\* Closing a context keeps it, whatever fails.
LEMMA BaseClose ==
    ASSUME Base, NEW w \in Widgets, NEW s \in Slots, NEW queue, Close(s, queue),
           vsync' \in [Widgets -> 0..MaxRegs],
           live' = live \ {w}, deleted' \in {deleted, deleted \cup {w}},
           UNCHANGED <<video_ctx, created, opens, sess, asked>>
    PROVE  Base'
<1>1. /\ slot' \in [Slots -> Context]
      /\ \A t \in Slots \ {s} : slot'[t] = slot[t]
      /\ slot'[s].fd = IF slot[s].fd > 0 THEN None ELSE slot[s].fd
      /\ socks' = socks \ {slot[s].fd}
      /\ \/ slot'[s].handle = None /\ players' = players \ {slot[s].handle}
         \/ CloseFails /\ slot'[s].handle = slot[s].handle /\ UNCHANGED players
  BY CloseFacts DEF Base
<1>2. Types'
  BY <1>1 DEF Base, Types
<1>3. WidgetsRight'
  BY DEF Base, WidgetsRight
<1>4. NumbersUsed'
  <2>1. opens \in Nat /\ None = 0
    BY Bounds DEF Base, Types
  <2>2. \A t \in Slots : /\ slot'[t].fd \in {slot[t].fd, None}
                         /\ slot'[t].handle \in {slot[t].handle, None}
    BY <1>1
  <2>3. \A t \in Slots : slot'[t].fd <= opens /\ slot'[t].handle <= opens
    BY <2>1, <2>2 DEF Base, NumbersUsed
  <2>4. socks' \subseteq 1..opens /\ players' \subseteq 1..opens
    BY <1>1 DEF Base, NumbersUsed
  <2> QED BY <2>3, <2>4 DEF NumbersUsed
<1>5. HandlesRight'
  <2>1. \A t \in Slots : slot'[t].handle \in {slot[t].handle, None}
    BY <1>1
  <2>2. \A t \in Slots : slot'[t].handle # None => slot'[t].handle \in players'
    <3> SUFFICES ASSUME NEW t \in Slots, slot'[t].handle # None
                 PROVE  slot'[t].handle \in players'
      OBVIOUS
    <3> QED BY <1>1, <2>1 DEF Base, HandlesRight
  <2> QED BY <2>1, <2>2 DEF Base, HandlesRight
<1>6. PlayersOwned'
  <2> SUFFICES ASSUME ~CloseFails, NEW p \in players' 
               PROVE  \E t \in Slots : slot'[t].handle = p
    BY DEF PlayersOwned
  <2>1. PICK t \in Slots : slot[t].handle = p
    BY <1>1 DEF Base, PlayersOwned
  <2> QED BY <1>1, <2>1
<1> QED BY <1>2, <1>3, <1>4, <1>5, <1>6 DEF Base

\* So does an open that fails, ...
LEMMA BaseOpenFails ==
    ASSUME Base, NEW w \in Widgets, NEW kind \in Kinds, Alive(w),
           OpenNowhere(w, kind) \/ ConnectFails(w, kind) \/ PlayerFails(w, kind)
    PROVE  Base'
<1>1. /\ slot' \in [Slots -> Context]
      /\ \A t \in Slots : /\ slot'[t].handle = slot[t].handle
                          /\ \/ slot'[t] = slot[t]
                             \/ slot'[t].fd \in {None, Failed}
      /\ opens' \in {opens, opens + 1} /\ opens' <= MaxOpens
      /\ players' \in {players, players \cup {opens'}}
      /\ players' # players => CloseFails /\ opens' = opens + 1
      /\ UNCHANGED <<vsync, created, deleted, socks, events, busy, sess, asked>>
      /\ video_ctx' = [video_ctx EXCEPT ![w] = None]
      /\ live' = live \ {w}
  BY OpenFailsFacts
<1>0. opens \in Nat /\ opens <= MaxOpens
  BY Bounds DEF Base, Types
<1>2. Types'
  BY <1>0, <1>1, Bounds DEF Base, Types
<1>3. WidgetsRight'
  <2>1. \A v \in live' : v \in live /\ video_ctx'[v] = video_ctx[v]
    BY <1>1 DEF Base, Types, WidgetsRight
  <2> QED BY <1>0, <1>1, <2>1 DEF Base, Types, WidgetsRight
<1>4. NumbersUsed'
  <2>1. \A t \in Slots : slot'[t].fd <= opens' /\ slot'[t].handle <= opens'
    BY <1>0, <1>1, ContextFacts, Bounds DEF Base, NumbersUsed
  <2>2. socks' \subseteq 1..opens' /\ players' \subseteq 1..opens'
    BY <1>0, <1>1 DEF Base, NumbersUsed
  <2> QED BY <2>1, <2>2 DEF NumbersUsed
<1>5. HandlesRight' /\ PlayersOwned'
  BY <1>1 DEF Base, HandlesRight, PlayersOwned
<1> QED BY <1>2, <1>3, <1>4, <1>5 DEF Base

\* ... and an open that succeeds.
LEMMA BaseOpened ==
    ASSUME Base, NEW w \in Widgets, NEW kind \in Kinds, Alive(w), Opened(w, kind)
    PROVE  Base'
<1>1. PICK s \in Slots :
             /\ SlotKind[s] = kind /\ slot[s].handle = None
             /\ opens < MaxOpens /\ opens' = opens + 1
             /\ slot' \in [Slots -> Context]
             /\ \A t \in Slots \ {s} : slot'[t] = slot[t]
             /\ slot'[s].fd = opens + 1
             /\ socks' = socks \cup {opens + 1}
             /\ \/ /\ kind = "Video" /\ slot'[s].handle = opens + 1
                   /\ players' = players \cup {opens + 1}
                \/ kind = "Camera" /\ slot'[s].handle = None /\ UNCHANGED <<players, events>>
             /\ video_ctx' = [video_ctx EXCEPT ![w] = s]
             /\ sess' = [sess EXCEPT ![w] = opens + 1]
             /\ live' = live \cup {w}
             /\ asked' = [asked EXCEPT ![w] = {}]
             /\ UNCHANGED <<vsync, created, deleted, busy>>
  BY OpenedFacts
<1>0. opens \in Nat /\ opens < MaxOpens /\ MaxOpens \in Nat /\ Opens = 1..MaxOpens
  BY <1>1, Bounds DEF Base, Types
<1>2. Types'
  BY <1>0, <1>1 DEF Base, Types
<1>3. WidgetsRight'
  BY <1>0, <1>1 DEF Base, Types, WidgetsRight, Alive
<1>4. NumbersUsed'
  <2>1. \A t \in Slots : slot'[t].fd <= opens' /\ slot'[t].handle <= opens'
    BY <1>0, <1>1, ContextFacts, Bounds DEF Base, NumbersUsed
  <2>2. socks \subseteq 1..opens /\ players \subseteq 1..opens /\ opens' = opens + 1
        /\ socks' \subseteq socks \cup {opens + 1}
        /\ players' \subseteq players \cup {opens + 1}
    BY <1>1 DEF Base, NumbersUsed
  <2>3. socks' \subseteq 1..opens' /\ players' \subseteq 1..opens'
    BY <1>0, <2>2
  <2> QED BY <2>1, <2>3 DEF NumbersUsed
<1>5. HandlesRight'
  <2>1. \A t \in Slots : slot[t].handle # opens + 1
    BY <1>0, ContextFacts DEF Base, NumbersUsed
  <2> QED BY <1>0, <1>1, <2>1 DEF Base, HandlesRight
<1>6. PlayersOwned'
  <2> SUFFICES ASSUME ~CloseFails, NEW p \in players'
               PROVE  \E t \in Slots : slot'[t].handle = p
    BY DEF PlayersOwned
  <2>1. CASE p \in players
    <3>1. PICK t \in Slots : slot[t].handle = p
      BY <2>1 DEF Base, PlayersOwned
    <3>2. p # None
      BY <1>0, <2>1 DEF Base, NumbersUsed, None
    <3> QED BY <1>1, <3>1, <3>2
  <2> QED BY <1>1, <2>1
<1> QED BY <1>2, <1>3, <1>4, <1>5, <1>6 DEF Base

\* Registering and unregistering keep the type of the counter.
LEMMA VsyncTyped ==
    ASSUME Types, NEW w \in Widgets, Register(w) \/ Unregister(w)
    PROVE  vsync' \in [Widgets -> 0..MaxRegs]
BY Bounds DEF Types, Register, Unregister

\* One step per action.
LEMMA BaseStep == Base /\ [Next]_vars => Base'
<1> SUFFICES ASSUME Base, [Next]_vars PROVE Base'
  OBVIOUS
<1> USE DEF Alive
<1>0. Types /\ WidgetsRight /\ slot \in [Slots -> Context] /\ vsync \in [Widgets -> 0..MaxRegs]
      /\ asked \in [Widgets -> SUBSET Watched] /\ created \subseteq Widgets
  BY DEF Base, Types, WidgetsRight
<1>1. ASSUME NEW w \in Widgets, Create(w) PROVE Base'
  <2>1. created' \subseteq Widgets /\ created \subseteq created'
    BY <1>0, <1>1 DEF Create
  <2> QED BY <1>0, <1>1, <2>1, BaseQuiet DEF Create
<1>2. ASSUME NEW w \in Widgets, Start(w) \/ Pause(w) PROVE Base'
  <2>1. vsync' \in [Widgets -> 0..MaxRegs]
    BY <1>0, <1>2, VsyncTyped DEF Start, Pause
  <2> QED BY <1>0, <1>2, <2>1, BaseQuiet DEF Start, Pause
<1>3. ASSUME NEW w \in Widgets, Stop(w) PROVE Base'
  <2>1. vsync' \in [Widgets -> 0..MaxRegs] /\ video_ctx[w] \in Slots
    BY <1>0, <1>3, VsyncTyped DEF Stop, MayCall, Types
  <2>2. \E queue : Close(video_ctx[w], queue)
    BY <1>3 DEF Stop
  <2> QED BY <1>3, <2>1, <2>2, BaseClose DEF Stop
<1>4. ASSUME NEW w \in Widgets, Delete(w) PROVE Base'
  <2>1. vsync' \in [Widgets -> 0..MaxRegs]
    BY <1>0, <1>4, VsyncTyped DEF Delete
  <2>2. CASE video_ctx[w] # None
    <3>1. video_ctx[w] \in Slots
      BY <1>0, <2>2 DEF Types
    <3> QED BY <1>4, <2>1, <2>2, <3>1, BaseClose DEF Delete
  <2>3. CASE video_ctx[w] = None
    <3>1. /\ UNCHANGED <<slot, video_ctx, created, socks, players, opens, sess, asked>>
          /\ deleted' = deleted \cup {w} /\ live' = live \ {w}
      BY <1>4, <2>3 DEF Delete
    <3>2. Types'
      BY <1>0, <2>1, <3>1 DEF Types
    <3>3. WidgetsRight'
      BY <1>0, <3>1 DEF WidgetsRight
    <3> QED BY <3>1, <3>2, <3>3 DEF Base, NumbersUsed, HandlesRight, PlayersOwned
  <2> QED BY <2>2, <2>3
<1>5. ASSUME NEW w \in Widgets, NEW kind \in Kinds, SetSrc(w, kind) PROVE Base'
  BY <1>5, BaseOpened, BaseOpenFails DEF SetSrc
<1>6. ASSUME NEW w \in Widgets, NEW ev \in Watched, SetCallback(w, ev) PROVE Base'
  BY <1>0, <1>6, SetCallbackFacts, BaseQuiet DEF SetCallback
<1>7. ASSUME NEW s \in Slots, Complete(s) PROVE Base'
  BY <1>0, <1>7, BaseQuiet DEF Complete
<1>8. CASE HandleEvent
  BY <1>0, <1>8, BaseQuiet DEF HandleEvent
<1>9. CASE ForgetCallbacks
  <2>1. \A t \in Slots : slot'[t].handle = slot[t].handle /\ slot'[t].fd = slot[t].fd
    BY <1>9, ForgetFacts
  <2>2. slot' \in [Slots -> Context]
    BY <1>9, ForgetFacts
  <2> QED BY <1>0, <1>9, <2>1, <2>2, BaseQuiet DEF ForgetCallbacks
<1>10. CASE UNCHANGED vars
  BY <1>0, <1>10, BaseQuiet DEF vars
<1> QED BY <1>1, <1>2, <1>3, <1>4, <1>5, <1>6, <1>7, <1>8, <1>9, <1>10 DEF Next

\* The model's bookkeeping is right for every client and whatever fails.
THEOREM VideoInductive == Spec => []Base
<1> QED BY BaseInit, BaseStep, PTL DEF Spec

\* Whatever clients do and whatever fails, no context commands a closed player and
\* no two contexts command the same one.
THEOREM HandlesAlive == Spec => []NoDanglingHandle
<1>1. Base => NoDanglingHandle
  BY DEF Base, HandlesRight, NoDanglingHandle, Holders
<1> QED BY <1>1, VideoInductive, PTL

\* Unless a player does not close, every open player is the handle of exactly one
\* context, whichever step of an open fails and whatever clients do.
THEOREM PlayersReached ==
    ASSUME ~CloseFails
    PROVE  Spec => []PlayersHeld
<1>1. Base => PlayersHeld
  <2> SUFFICES ASSUME Base, NEW p \in players
               PROVE  Cardinality(Holders("handle", p)) = 1
    BY DEF PlayersHeld
  <2>1. PICK s \in Slots : slot[s].handle = p
    BY DEF Base, PlayersOwned
  <2>2. p # None
    BY Bounds DEF Base, NumbersUsed
  <2>3. Holders("handle", p) = {s}
    BY <2>1, <2>2 DEF Base, HandlesRight, Holders
  <2> QED BY <2>3, FS_Singleton
<1> QED BY <1>1, VideoInductive, PTL

--------------------------------------------------------------------------------
(* The kinds of steps, by what they do to contexts and sessions.              *)

\* Calls and events that open and close nothing.
Quiet ==
    /\ \A t \in Slots : slot'[t].handle = slot[t].handle /\ slot'[t].fd = slot[t].fd
    /\ UNCHANGED <<video_ctx, deleted, socks, players, opens, sess, live>>
    /\ \A w \in Widgets :
          vsync'[w] \in {0, vsync[w]} \/ (MayCall(w) /\ Reaches(video_ctx[w]))

OpenFails(w, kind) ==
    /\ Alive(w) /\ MayOpen(w, kind)
    /\ OpenNowhere(w, kind) \/ ConnectFails(w, kind) \/ PlayerFails(w, kind)

OpenSucceeds(w, kind) == Alive(w) /\ MayOpen(w, kind) /\ Opened(w, kind)

\* Stopping or deleting a widget that points to a context.
Closing(w) ==
    /\ Alive(w) /\ video_ctx[w] \in Slots
    /\ \E queue : Close(video_ctx[w], queue)
    /\ vsync' = [vsync EXCEPT ![w] = 0]
    /\ live' = live \ {w}
    /\ \/ deleted' = deleted
       \/ deleted' = deleted \cup {w}
    /\ UNCHANGED <<video_ctx, created, opens, sess, asked, busy>>

\* Deleting a widget without a context.
Dropping(w) ==
    /\ Alive(w) /\ video_ctx[w] = None
    /\ vsync' = [vsync EXCEPT ![w] = 0]
    /\ live' = live \ {w}
    /\ deleted' = deleted \cup {w}
    /\ UNCHANGED <<slot, video_ctx, created, socks, players, opens, sess>>

\* Every step is of one of these kinds.
LEMMA StepKinds ==
    ASSUME Base, [Next]_vars
    PROVE  \/ Quiet /\ UNCHANGED created
           \/ \E w \in Widgets : w \notin created /\ created' = created \cup {w} /\ Quiet
           \/ \E w \in Widgets, kind \in Kinds : OpenFails(w, kind)
           \/ \E w \in Widgets, kind \in Kinds : OpenSucceeds(w, kind)
           \/ \E w \in Widgets : Closing(w) \/ Dropping(w)
<1>1. ASSUME NEW w \in Widgets, Create(w)
      PROVE  w \notin created /\ created' = created \cup {w} /\ Quiet
  BY <1>1 DEF Create, Quiet
<1>2. ASSUME NEW w \in Widgets, Start(w) \/ Pause(w)
      PROVE  Quiet /\ UNCHANGED created
  <2>1. \A v \in Widgets : vsync'[v] \in {0, vsync[v]} \/ v = w
    BY <1>2 DEF Start, Pause, Register, Unregister, Base, Types
  <2>2. MayCall(w) /\ Reaches(video_ctx[w])
    BY <1>2 DEF Start, Pause, Reaches
  <2> QED BY <1>2, <2>1, <2>2 DEF Start, Pause, Quiet
<1>3. ASSUME NEW w \in Widgets, Stop(w) PROVE Closing(w)
  BY <1>3 DEF Stop, MayCall, Closing, Unregister, Base, Types
<1>4. ASSUME NEW w \in Widgets, Delete(w) PROVE Closing(w) \/ Dropping(w)
  BY <1>4 DEF Delete, Closing, Dropping, Unregister, Base, Types
<1>5. ASSUME NEW w \in Widgets, NEW kind \in Kinds, SetSrc(w, kind)
      PROVE  OpenFails(w, kind) \/ OpenSucceeds(w, kind)
  BY <1>5 DEF SetSrc, OpenFails, OpenSucceeds
<1>6. ASSUME NEW w \in Widgets, NEW ev \in Watched, SetCallback(w, ev)
      PROVE  Quiet /\ UNCHANGED created
  BY <1>6, SetCallbackFacts DEF SetCallback, Quiet
<1>7. ASSUME NEW s \in Slots, Complete(s) PROVE Quiet /\ UNCHANGED created
  BY <1>7 DEF Complete, Quiet
<1>8. CASE HandleEvent \/ UNCHANGED vars
  BY <1>8 DEF HandleEvent, Quiet, vars
<1>9. CASE ForgetCallbacks
  BY <1>9, ForgetFacts DEF ForgetCallbacks, Quiet
<1> QED BY <1>1, <1>2, <1>3, <1>4, <1>5, <1>6, <1>7, <1>8, <1>9 DEF Next

--------------------------------------------------------------------------------
(* Sockets, for clients that stop before they open again and have one camera. *)

SocketsRight ==
    /\ \A k \in socks : \E s \in Slots : slot[s].fd = k
    /\ \A s \in Slots : slot[s].fd \in socks \cup {None, Failed}
    /\ \A s, t \in Slots : slot[s].fd \in socks /\ slot[s].fd = slot[t].fd => s = t

\* A context whose socket is open cannot be found available: a video context has a
\* player then, and a camera context has a playing widget.
SocketsGuarded ==
    \A s \in Slots : slot[s].fd \in socks =>
        \/ SlotKind[s] = "Video" /\ slot[s].handle # None
        \/ SlotKind[s] = "Camera" /\ \E w \in live : video_ctx[w] = s

\* An open finds a context without an open socket.
LEMMA FoundClosed ==
    ASSUME Base, SocketsRight, SocketsGuarded, "share" \notin Liberties,
           NEW w \in Widgets, NEW kind \in Kinds, MayOpen(w, kind),
           NEW s \in Slots, SlotKind[s] = kind, slot[s].handle = None
    PROVE  slot[s].fd \in {None, Failed} /\ slot[s].fd \notin socks
<1>1. slot[s].fd \notin socks
  BY DEF SocketsGuarded, MayOpen, Kinds
<1> QED BY <1>1 DEF SocketsRight

\* Every kind of step keeps sockets with the contexts that guard them.
LEMMA SocketsStep ==
    ASSUME "reopen" \notin Liberties, "share" \notin Liberties,
           Base, SocketsRight, SocketsGuarded, [Next]_vars
    PROVE  SocketsRight' /\ SocketsGuarded'
<1>0. /\ None \notin socks /\ Failed \notin socks /\ opens + 1 \notin socks
      /\ None = 0 /\ Failed = -1 /\ opens \in Nat
      /\ \A s \in Slots : slot[s].fd \in Int
  BY Bounds, ContextFacts DEF Base, NumbersUsed, Types
<1>1. ASSUME Quiet PROVE SocketsRight' /\ SocketsGuarded'
  BY <1>1 DEF Quiet, SocketsRight, SocketsGuarded
<1>2. ASSUME NEW w \in Widgets, NEW kind \in Kinds, OpenFails(w, kind)
      PROVE  SocketsRight' /\ SocketsGuarded'
  <2>1. /\ \A t \in Slots : /\ slot'[t].handle = slot[t].handle
                            /\ \/ slot'[t] = slot[t]
                               \/ /\ slot'[t].fd \in {None, Failed}
                                  /\ SlotKind[t] = kind /\ slot[t].handle = None
        /\ UNCHANGED socks
        /\ video_ctx' = [video_ctx EXCEPT ![w] = None] /\ live' = live \ {w}
    BY <1>2, OpenFailsFacts DEF OpenFails
  <2>2. \A t \in Slots : \/ slot'[t].fd = slot[t].fd
                         \/ /\ slot'[t].fd \in {None, Failed}
                            /\ slot[t].fd \in {None, Failed}
    BY <1>2, <2>1, FoundClosed DEF OpenFails
  <2>3. w \notin live /\ live \subseteq Widgets
    BY <1>2 DEF OpenFails, MayOpen, Base, WidgetsRight
  <2>4. SocketsRight'
    BY <1>0, <2>1, <2>2 DEF SocketsRight
  <2>5. \A v \in live : v \in live' /\ video_ctx'[v] = video_ctx[v]
    BY <2>1, <2>3 DEF Base, Types
  <2>6. SocketsGuarded'
    BY <1>0, <2>1, <2>2, <2>5 DEF SocketsGuarded
  <2> QED BY <2>4, <2>6
<1>3. ASSUME NEW w \in Widgets, NEW kind \in Kinds, OpenSucceeds(w, kind)
      PROVE  SocketsRight' /\ SocketsGuarded'
  <2>1. PICK s \in Slots :
             /\ SlotKind[s] = kind /\ slot[s].handle = None
             /\ \A t \in Slots \ {s} : slot'[t] = slot[t]
             /\ slot'[s].fd = opens + 1
             /\ socks' = socks \cup {opens + 1}
             /\ (kind = "Video" /\ slot'[s].handle = opens + 1) \/ kind = "Camera"
             /\ video_ctx' = [video_ctx EXCEPT ![w] = s]
             /\ live' = live \cup {w}
    BY <1>3, OpenedFacts DEF OpenSucceeds
  <2>2. slot[s].fd \in {None, Failed} /\ slot[s].fd \notin socks
    BY <1>3, <2>1, FoundClosed DEF OpenSucceeds
  <2>3. w \notin live /\ live \subseteq Widgets
    BY <1>3 DEF OpenSucceeds, MayOpen, Base, WidgetsRight
  <2>4. SocketsRight'
    <3>1. \A k \in socks' : \E t \in Slots : slot'[t].fd = k
      BY <1>0, <2>1, <2>2 DEF SocketsRight
    <3>2. \A t \in Slots : slot'[t].fd \in socks' \cup {None, Failed}
      BY <2>1 DEF SocketsRight
    <3>3. \A t \in Slots \ {s} : slot'[t].fd # opens + 1
      BY <1>0, <2>1 DEF SocketsRight
    <3> QED BY <2>1, <3>1, <3>2, <3>3 DEF SocketsRight
  <2>5. \A v \in live : v \in live' /\ video_ctx'[v] = video_ctx[v]
    BY <2>1, <2>3 DEF Base, Types
  <2>6. w \in live' /\ video_ctx'[w] = s
    BY <2>1 DEF Base, Types
  <2>7. SocketsGuarded'
    <3> SUFFICES ASSUME NEW t \in Slots, slot'[t].fd \in socks'
                 PROVE  \/ SlotKind[t] = "Video" /\ slot'[t].handle # None
                        \/ SlotKind[t] = "Camera" /\ \E v \in live' : video_ctx'[v] = t
      BY DEF SocketsGuarded
    <3>1. CASE t = s
      BY <1>0, <2>1, <2>6, <3>1
    <3>2. CASE t # s
      <4>1. slot[t].fd \in socks
        BY <1>0, <2>1, <3>2 DEF SocketsRight
      <4> QED BY <2>1, <2>5, <3>2, <4>1 DEF SocketsGuarded
    <3> QED BY <3>1, <3>2
  <2> QED BY <2>4, <2>7
<1>4. ASSUME NEW w \in Widgets, Closing(w) PROVE SocketsRight' /\ SocketsGuarded'
  <2> DEFINE s == video_ctx[w]
  <2>1. /\ s \in Slots
        /\ \A t \in Slots \ {s} : slot'[t] = slot[t]
        /\ slot'[s].fd = IF slot[s].fd > 0 THEN None ELSE slot[s].fd
        /\ socks' = socks \ {slot[s].fd}
        /\ live' = live \ {w} /\ UNCHANGED video_ctx
    BY <1>4, CloseFacts DEF Closing, Base
  <2> HIDE DEF s
  <2>2. slot'[s].fd \in {None, Failed}
    BY <1>0, <2>1, Bounds DEF SocketsRight, Base, NumbersUsed
  <2>3. \A t \in Slots \ {s} : slot[t].fd \in socks => slot[t].fd \in socks'
    BY <2>1 DEF SocketsRight
  <2>4. SocketsRight'
    BY <1>0, <2>1, <2>2, <2>3 DEF SocketsRight
  <2>5. \A v \in live : video_ctx[v] # s => v \in live'
    BY <2>1 DEF s
  <2>6. SocketsGuarded'
    BY <1>0, <2>1, <2>2, <2>5 DEF SocketsGuarded
  <2> QED BY <2>4, <2>6
<1>5. ASSUME NEW w \in Widgets, Dropping(w) PROVE SocketsRight' /\ SocketsGuarded'
  <2>1. w \notin live
    BY <1>5, SlotFacts DEF Dropping, Base, WidgetsRight
  <2> QED BY <1>5, <2>1 DEF Dropping, SocketsRight, SocketsGuarded
<1> QED BY <1>1, <1>2, <1>3, <1>4, <1>5, StepKinds

\* The sockets of a client that stops a widget before it opens it again and has
\* one camera widget: each open socket belongs to exactly one context, whatever
\* connecting, opening or closing a player does.
THEOREM SocketsReached ==
    ASSUME "reopen" \notin Liberties, "share" \notin Liberties
    PROVE  Spec => []SocketsHeld
<1>1. Init => SocketsRight /\ SocketsGuarded
  <2> SUFFICES ASSUME Init PROVE SocketsRight /\ SocketsGuarded
    OBVIOUS
  <2>1. socks = {} /\ \A s \in Slots : slot[s].fd = None
    BY DEF Init
  <2> QED BY <2>1 DEF SocketsRight, SocketsGuarded
<1>2. SocketsRight /\ SocketsGuarded /\ Base /\ [Next]_vars => SocketsRight' /\ SocketsGuarded'
  BY SocketsStep
<1>3. SocketsRight => SocketsHeld
  <2> SUFFICES ASSUME SocketsRight, NEW k \in socks
               PROVE  Cardinality(Holders("fd", k)) = 1
    BY DEF SocketsHeld, SocketsRight
  <2>1. PICK s \in Slots : slot[s].fd = k
    BY DEF SocketsRight
  <2>2. Holders("fd", k) = {s}
    BY <2>1 DEF SocketsRight, Holders
  <2> QED BY <2>2, FS_Singleton
<1>4. Spec => [](SocketsRight /\ SocketsGuarded)
  BY <1>1, <1>2, VideoInductive, PTL DEF Spec
<1> QED BY <1>3, <1>4, PTL

--------------------------------------------------------------------------------
(* Contexts come back.                                                        *)

\* A context is taken only while a playing widget points to it.
LEMMA ReturnedStep ==
    ASSUME "reopen" \notin Liberties, ~CloseFails, Base, SlotsReturned, [Next]_vars
    PROVE  SlotsReturned'
<1>0. \A s \in Slots : slot[s].fd \in Opens \cup {None, Failed}
  BY ContextFacts DEF Base
<1>1. ASSUME Quiet PROVE SlotsReturned'
  BY <1>1 DEF Quiet, SlotsReturned
<1>2. ASSUME NEW w \in Widgets, NEW kind \in Kinds, OpenFails(w, kind)
      PROVE  SlotsReturned'
  <2>1. /\ \A t \in Slots : /\ slot'[t].handle = slot[t].handle
                            /\ slot'[t] = slot[t] \/ slot'[t].fd \in {None, Failed}
        /\ video_ctx' = [video_ctx EXCEPT ![w] = None] /\ live' = live \ {w}
    BY <1>2, OpenFailsFacts DEF OpenFails
  <2>2. w \notin live /\ live \subseteq Widgets
    BY <1>2 DEF OpenFails, MayOpen, Base, WidgetsRight
  <2>3. \A v \in live : v \in live' /\ video_ctx'[v] = video_ctx[v]
    BY <2>1, <2>2 DEF Base, Types
  <2> QED BY <2>1, <2>3 DEF SlotsReturned
<1>3. ASSUME NEW w \in Widgets, NEW kind \in Kinds, OpenSucceeds(w, kind)
      PROVE  SlotsReturned'
  <2>1. PICK s \in Slots :
             /\ \A t \in Slots \ {s} : slot'[t] = slot[t]
             /\ video_ctx' = [video_ctx EXCEPT ![w] = s]
             /\ live' = live \cup {w}
    BY <1>3, OpenedFacts DEF OpenSucceeds
  <2>2. w \notin live /\ live \subseteq Widgets
    BY <1>3 DEF OpenSucceeds, MayOpen, Base, WidgetsRight
  <2>3. \A v \in live : v \in live' /\ video_ctx'[v] = video_ctx[v]
    BY <2>1, <2>2 DEF Base, Types
  <2>4. w \in live' /\ video_ctx'[w] = s
    BY <2>1 DEF Base, Types
  <2> QED BY <2>1, <2>3, <2>4 DEF SlotsReturned
<1>4. ASSUME NEW w \in Widgets, Closing(w) PROVE SlotsReturned'
  <2> DEFINE s == video_ctx[w]
  <2>1. /\ s \in Slots
        /\ \A t \in Slots \ {s} : slot'[t] = slot[t]
        /\ slot'[s].fd = IF slot[s].fd > 0 THEN None ELSE slot[s].fd
        /\ slot'[s].handle = None
        /\ live' = live \ {w} /\ UNCHANGED video_ctx
    BY <1>4, CloseFacts DEF Closing, Base
  <2>2. \A v \in live : video_ctx[v] # s => v \in live'
    BY <2>1
  <2> HIDE DEF s
  <2>3. slot'[s].fd \in {None, Failed}
    BY <1>0, <2>1, Bounds
  <2> QED BY <2>1, <2>2, <2>3 DEF SlotsReturned
<1>5. ASSUME NEW w \in Widgets, Dropping(w) PROVE SlotsReturned'
  <2>1. w \notin live
    BY <1>5, SlotFacts DEF Dropping, Base, WidgetsRight
  <2> QED BY <1>5, <2>1 DEF Dropping, SlotsReturned
<1> QED BY <1>1, <1>2, <1>3, <1>4, <1>5, StepKinds

\* While players close and widgets are stopped before they are opened again, a
\* context that no playing widget points to is available again, whatever fails.
THEOREM SlotsComeBack ==
    ASSUME "reopen" \notin Liberties, ~CloseFails
    PROVE  Spec => []SlotsReturned
<1>1. Init => SlotsReturned
  <2> SUFFICES ASSUME Init, NEW s \in Slots
               PROVE  slot[s].handle = None /\ slot[s].fd = None
    BY DEF SlotsReturned
  <2> QED BY DEF Init
<1>2. SlotsReturned /\ Base /\ [Next]_vars => SlotsReturned'
  BY ReturnedStep
<1> QED BY <1>1, <1>2, VideoInductive, PTL DEF Spec

--------------------------------------------------------------------------------
(* Sessions stay intact.                                                      *)

\* Nobody else, stopped widgets included, points to the context of a playing one.
Apart == \A w \in live : \A v \in created \ deleted :
            video_ctx[v] = video_ctx[w] => v = w

\* An open of one widget finds a context that no other living widget points to.
LEMMA FoundUnused ==
    ASSUME "linger" \notin Liberties, "share" \notin Liberties, Base, SessionIntact,
           NEW w \in Widgets, NEW kind \in Kinds, MayOpen(w, kind),
           NEW s \in Slots, SlotKind[s] = kind, slot[s].handle = None
    PROVE  /\ \A v \in live : video_ctx[v] # s
           /\ \A v \in created \ deleted : v # w => video_ctx[v] # s
<1>1. \A v \in live : video_ctx[v] # s
  <2> SUFFICES ASSUME NEW v \in live, video_ctx[v] = s PROVE FALSE
    OBVIOUS
  <2>1. kind # "Camera"
    BY DEF MayOpen
  <2>2. sess[v] = None
    BY <2>1 DEF SessionIntact, Kinds
  <2> QED BY <2>2, Bounds DEF Base, Types, WidgetsRight
<1>2. \A v \in created \ deleted : v \in {w} \cup live \/ video_ctx[v] = None
  BY DEF MayOpen
<1> QED BY <1>1, <1>2, SlotFacts

\* Only its own widget takes a session away.
LEMMA IntactStep ==
    ASSUME "linger" \notin Liberties, "share" \notin Liberties,
           Base, SessionIntact, Apart, [Next]_vars
    PROVE  SessionIntact' /\ Apart'
<1>0. /\ live \subseteq created \ deleted /\ created \subseteq Widgets
      /\ \A v \in live : video_ctx[v] \in Slots /\ sess[v] \in 1..opens
      /\ \A v \in Widgets \ created : video_ctx[v] = None
      /\ video_ctx \in [Widgets -> Slots \cup {None}] /\ sess \in [Widgets -> 0..MaxOpens]
      /\ None \notin Slots
  BY SlotFacts DEF Base, WidgetsRight, Types
<1>1. ASSUME Quiet PROVE SessionIntact'
  BY <1>0, <1>1 DEF Quiet, SessionIntact
<1>2. ASSUME Quiet, UNCHANGED created PROVE Apart'
  BY <1>2 DEF Quiet, Apart
<1>3. ASSUME NEW w \in Widgets, w \notin created, created' = created \cup {w}, Quiet PROVE Apart'
  BY <1>0, <1>3 DEF Quiet, Apart
<1>4. ASSUME NEW w \in Widgets, NEW kind \in Kinds, OpenFails(w, kind)
      PROVE  SessionIntact' /\ Apart'
  <2>1. /\ \A t \in Slots : /\ slot'[t].handle = slot[t].handle
                            /\ \/ slot'[t] = slot[t]
                               \/ SlotKind[t] = kind /\ slot[t].handle = None
        /\ UNCHANGED <<created, deleted, sess>>
        /\ video_ctx' = [video_ctx EXCEPT ![w] = None] /\ live' = live \ {w}
    BY <1>4, OpenFailsFacts DEF OpenFails
  <2>2. \A v \in live' : v \in live /\ v # w /\ video_ctx'[v] = video_ctx[v]
    BY <1>0, <2>1
  <2>3. \A v \in live' : slot'[video_ctx[v]] = slot[video_ctx[v]]
    BY <1>0, <1>4, <2>1, <2>2, FoundUnused DEF OpenFails
  <2>4. SessionIntact'
    BY <2>1, <2>2, <2>3 DEF SessionIntact
  <2>5. Apart'
    <3> SUFFICES ASSUME NEW v \in live', NEW u \in created \ deleted,
                        video_ctx'[u] = video_ctx'[v]
                 PROVE  u = v
      BY <2>1 DEF Apart
    <3>1. v \in live /\ v # w /\ video_ctx'[v] = video_ctx[v] /\ video_ctx[v] \in Slots
      BY <1>0, <2>2
    <3>2. u # w
      BY <1>0, <2>1, <3>1
    <3>3. video_ctx'[u] = video_ctx[u]
      BY <1>0, <2>1, <3>2
    <3> QED BY <3>1, <3>3 DEF Apart
  <2> QED BY <2>4, <2>5
<1>5. ASSUME NEW w \in Widgets, NEW kind \in Kinds, OpenSucceeds(w, kind)
      PROVE  SessionIntact' /\ Apart'
  <2>1. PICK s \in Slots :
             /\ SlotKind[s] = kind /\ slot[s].handle = None
             /\ \A t \in Slots \ {s} : slot'[t] = slot[t]
             /\ slot'[s].fd = opens + 1
             /\ (kind = "Video" /\ slot'[s].handle = opens + 1) \/ kind = "Camera"
             /\ video_ctx' = [video_ctx EXCEPT ![w] = s]
             /\ sess' = [sess EXCEPT ![w] = opens + 1]
             /\ live' = live \cup {w}
             /\ UNCHANGED <<created, deleted>>
    BY <1>5, OpenedFacts DEF OpenSucceeds
  <2>2. /\ \A v \in live : video_ctx[v] # s
        /\ \A v \in created \ deleted : v # w => video_ctx[v] # s
    BY <1>5, <2>1, FoundUnused DEF OpenSucceeds
  <2>3. \A v \in Widgets : /\ video_ctx'[v] = IF v = w THEN s ELSE video_ctx[v]
                           /\ sess'[v] = IF v = w THEN opens + 1 ELSE sess[v]
    BY <1>0, <2>1
  <2>4. SessionIntact'
    <3> SUFFICES ASSUME NEW v \in live'
                 PROVE  /\ slot'[video_ctx'[v]].fd = sess'[v]
                        /\ SlotKind[video_ctx'[v]] = "Video" =>
                              slot'[video_ctx'[v]].handle = sess'[v]
      BY DEF SessionIntact
    <3>1. CASE v = w
      BY <2>1, <2>3, <3>1
    <3>2. CASE v # w
      <4>1. v \in live /\ v \in Widgets
        BY <1>0, <2>1, <3>2
      <4>2. video_ctx'[v] = video_ctx[v] /\ sess'[v] = sess[v]
        BY <2>3, <3>2, <4>1
      <4>3. slot'[video_ctx[v]] = slot[video_ctx[v]]
        BY <1>0, <2>1, <2>2, <4>1
      <4> QED BY <4>1, <4>2, <4>3 DEF SessionIntact
    <3> QED BY <3>1, <3>2
  <2>5. Apart'
    <3> SUFFICES ASSUME NEW v \in live', NEW u \in created \ deleted,
                        video_ctx'[u] = video_ctx'[v], u # v
                 PROVE  FALSE
      BY <2>1 DEF Apart
    <3>1. v \in Widgets /\ u \in Widgets /\ v \in created \ deleted
      BY <1>0, <1>5, <2>1 DEF OpenSucceeds, Alive
    <3>2. CASE v = w \/ u = w
      BY <2>2, <2>3, <3>1, <3>2
    <3>3. CASE v # w /\ u # w
      BY <2>1, <2>3, <3>1, <3>3 DEF Apart
    <3> QED BY <3>2, <3>3
  <2> QED BY <2>4, <2>5
<1>6. ASSUME NEW w \in Widgets, Closing(w) PROVE SessionIntact' /\ Apart'
  <2>1. /\ video_ctx[w] \in Slots
        /\ \A t \in Slots \ {video_ctx[w]} : slot'[t] = slot[t]
        /\ live' = live \ {w} /\ created' = created /\ deleted \subseteq deleted'
        /\ UNCHANGED <<video_ctx, sess>>
    BY <1>6, CloseFacts DEF Closing, Base
  <2>2. \A v \in live' : v \in live /\ video_ctx[v] # video_ctx[w]
    BY <1>6, <2>1 DEF Apart, Closing, Alive
  <2>3. \A v \in live' : slot'[video_ctx[v]] = slot[video_ctx[v]]
    BY <1>0, <2>1, <2>2
  <2> QED BY <2>1, <2>2, <2>3 DEF SessionIntact, Apart
<1>7. ASSUME NEW w \in Widgets, Dropping(w) PROVE SessionIntact' /\ Apart'
  BY <1>7 DEF Dropping, SessionIntact, Apart
<1> QED BY <1>1, <1>2, <1>3, <1>4, <1>5, <1>6, <1>7, StepKinds

\* A client that leaves no stopped widget with its context while it opens another,
\* and has one camera widget, keeps each session intact until its own widget stops
\* it, also when it sets new sources while playing.
THEOREM SessionsKept ==
    ASSUME "linger" \notin Liberties, "share" \notin Liberties
    PROVE  Spec => [](SessionIntact /\ Apart)
<1>1. Init => SessionIntact /\ Apart
  BY DEF Init, SessionIntact, Apart
<1>2. SessionIntact /\ Apart /\ Base /\ [Next]_vars => SessionIntact' /\ Apart'
  BY IntactStep
<1> QED BY <1>1, <1>2, VideoInductive, PTL DEF Spec

--------------------------------------------------------------------------------
(* Frames are pulled only in a session.                                       *)

VsyncLive == \A w \in Widgets : vsync[w] > 0 => w \in live

\* Only a playing widget reaches a player or a server.
OnlyLiveReach ==
    \A w \in Widgets : MayCall(w) /\ Reaches(video_ctx[w]) => w \in live

\* A stopped widget reaches none where contexts come back and each is pointed to by
\* one widget.
LEMMA StoppedUnreached ==
    ASSUME Base, Apart, SlotsReturned
    PROVE  OnlyLiveReach
<1> SUFFICES ASSUME NEW w \in Widgets, Alive(w), video_ctx[w] # None,
                    Reaches(video_ctx[w]), w \notin live
             PROVE  FALSE
  BY DEF OnlyLiveReach, MayCall
<1>1. video_ctx[w] \in Slots /\ socks \subseteq 1..opens /\ opens \in Nat
  BY Bounds DEF Base, Types, NumbersUsed
<1>2. \A v \in live : video_ctx[v] # video_ctx[w]
  BY DEF Apart, Alive
<1>3. slot[video_ctx[w]].handle = None /\ slot[video_ctx[w]].fd \in {None, Failed}
  BY <1>1, <1>2 DEF SlotsReturned
<1> QED BY <1>1, <1>3, Bounds DEF Reaches

\* Registrations end with the session.
LEMMA VsyncStep ==
    ASSUME "reopen" \notin Liberties, OnlyLiveReach, Base, VsyncLive, [Next]_vars
    PROVE  VsyncLive'
<1>0. vsync \in [Widgets -> 0..MaxRegs]
  BY DEF Base, Types
<1>1. ASSUME Quiet PROVE VsyncLive'
  BY <1>1 DEF Quiet, VsyncLive, OnlyLiveReach
<1>2. ASSUME NEW w \in Widgets, NEW kind \in Kinds, OpenFails(w, kind) PROVE VsyncLive'
  <2>1. w \notin live /\ UNCHANGED vsync /\ live' = live \ {w}
    BY <1>2, OpenFailsFacts DEF OpenFails, MayOpen
  <2> QED BY <2>1 DEF VsyncLive
<1>3. ASSUME NEW w \in Widgets, NEW kind \in Kinds, OpenSucceeds(w, kind) PROVE VsyncLive'
  <2>1. UNCHANGED vsync /\ live' = live \cup {w}
    BY <1>3, OpenedFacts DEF OpenSucceeds
  <2> QED BY <2>1 DEF VsyncLive
<1>4. ASSUME NEW w \in Widgets, Closing(w) \/ Dropping(w) PROVE VsyncLive'
  <2>1. vsync' = [vsync EXCEPT ![w] = 0] /\ live' = live \ {w}
    BY <1>4 DEF Closing, Dropping
  <2> QED BY <1>0, <2>1 DEF VsyncLive
<1> QED BY <1>1, <1>2, <1>3, <1>4, StepKinds

\* A client that neither opens a playing widget again nor a widget beside a stopped
\* one, and has one camera, pulls frames only while it plays, from an open socket.  It
\* may go on to use a stopped widget where players close.
THEOREM VsyncWithinSession ==
    ASSUME Liberties \cap {"reopen", "linger", "share"} = {},
           "stale" \in Liberties => ~CloseFails
    PROVE  Spec => []VsyncInSession
<1>0. "reopen" \notin Liberties /\ "linger" \notin Liberties /\ "share" \notin Liberties
  OBVIOUS
<1>1. Init => VsyncLive
  BY DEF Init, VsyncLive
<1>2. VsyncLive /\ Base /\ OnlyLiveReach /\ [Next]_vars => VsyncLive'
  BY <1>0, VsyncStep
<1>3. Base /\ VsyncLive /\ SocketsHeld /\ SessionIntact => VsyncInSession
  <2> SUFFICES ASSUME Base, VsyncLive, SocketsHeld, SessionIntact,
                      NEW w \in Widgets, vsync[w] > 0
               PROVE  w \in live /\ slot[video_ctx[w]].fd \in socks
    BY DEF VsyncInSession
  <2>1. w \in live /\ video_ctx[w] \in Slots /\ sess[w] \in 1..opens
    BY DEF VsyncLive, Base, WidgetsRight
  <2>2. slot[video_ctx[w]].fd \notin {None, Failed}
    BY <2>1, Bounds DEF SessionIntact, Base, Types
  <2> QED BY <2>1, <2>2 DEF SocketsHeld
<1>4. Spec => []SocketsHeld
  BY <1>0, SocketsReached
<1>5. Spec => [](SessionIntact /\ Apart)
  BY <1>0, SessionsKept
<1>6. ASSUME "stale" \notin Liberties PROVE Spec => []OnlyLiveReach
  <2>1. OnlyLiveReach
    BY <1>6 DEF OnlyLiveReach, MayCall
  <2> QED BY <2>1, PTL
<1>7. ASSUME ~CloseFails PROVE Spec => []OnlyLiveReach
  <2>1. Spec => []SlotsReturned
    BY <1>0, <1>7, SlotsComeBack
  <2>2. Base /\ (SessionIntact /\ Apart) /\ SlotsReturned => OnlyLiveReach
    BY StoppedUnreached
  <2> QED BY <1>5, <2>1, <2>2, VideoInductive, PTL
<1>8. Spec => []OnlyLiveReach
  BY <1>6, <1>7
<1>9. Spec => []VsyncLive
  BY <1>1, <1>2, <1>8, VideoInductive, PTL DEF Spec
<1> QED BY <1>3, <1>4, <1>5, <1>9, VideoInductive, PTL

--------------------------------------------------------------------------------
(* What a close leaves of the queue of events.                                *)

\* One event more.
Longer(queue, p, f, i) ==
    IF queue[i].player = p THEN f[i - 1] ELSE Append(f[i - 1], queue[i])

\* The filter of a queue as a function of the place, from its definition.
IsFilter(queue, p, n, f) ==
    /\ f = [i \in 0..n |-> f[i]]
    /\ f[0] = <<>>
    /\ \A i \in 1..n : f[i] = Longer(queue, p, f, i)

\* Up to each place there is such a function, by the least place without one.
LEMMA FilterUpTo ==
    ASSUME NEW queue, NEW p, NEW n \in Nat
    PROVE  \E f : IsFilter(queue, p, n, f)
<1> DEFINE Bad == {m \in Nat : ~ \E f : IsFilter(queue, p, m, f)}
<1> SUFFICES ASSUME Bad # {} PROVE FALSE
  OBVIOUS
<1>1. PICK m \in Bad : \A k \in Bad : ~(<<k, m>> \in OpToRel(<, Nat))
  BY WFMin, NatLessThanWellFounded
<1>2. m \in Nat /\ ~ \E f : IsFilter(queue, p, m, f)
  BY <1>1
<1>3. \A k \in Nat : k < m => \E f : IsFilter(queue, p, k, f)
  BY <1>1 DEF OpToRel
<1> HIDE DEF Bad
<1>4. CASE m = 0
  <2> DEFINE f == [i \in 0..0 |-> <<>>]
  <2>1. f = [i \in 0..0 |-> f[i]] /\ f[0] = <<>>
    OBVIOUS
  <2> HIDE DEF f
  <2>2. IsFilter(queue, p, 0, f)
    BY <2>1 DEF IsFilter
  <2> QED BY <1>2, <1>4, <2>2
<1>5. CASE m # 0
  <2>1. m - 1 \in Nat /\ m - 1 < m
    BY <1>2, <1>5
  <2>2. PICK g : IsFilter(queue, p, m - 1, g)
    BY <1>3, <2>1
  <2> DEFINE f == [i \in 0..m |-> IF i = m THEN Longer(queue, p, g, m) ELSE g[i]]
  <2>3. \A i \in 0..m : f[i] = IF i = m THEN Longer(queue, p, g, m) ELSE g[i]
    OBVIOUS
  <2>4. f = [i \in 0..m |-> f[i]]
    OBVIOUS
  <2> HIDE DEF f
  <2>5. f[0] = <<>>
    BY <1>2, <1>5, <2>2, <2>3 DEF IsFilter
  <2>6. ASSUME NEW i \in 1..m PROVE f[i] = Longer(queue, p, f, i)
    <3>1. i - 1 \in 0..m /\ i - 1 # m /\ i \in 0..m /\ i \in Nat
      BY <1>2
    <3>2. f[i - 1] = g[i - 1]
      BY <2>3, <3>1
    <3>3. Longer(queue, p, f, i) = Longer(queue, p, g, i)
      BY <3>2 DEF Longer
    <3>4. CASE i = m
      BY <2>3, <3>1, <3>3, <3>4
    <3>5. CASE i # m
      <4>1. i \in 1..(m - 1)
        BY <1>2, <3>5
      <4>2. g[i] = Longer(queue, p, g, i)
        BY <2>2, <4>1 DEF IsFilter
      <4> QED BY <2>3, <3>1, <3>3, <3>5, <4>2
    <3> QED BY <3>4, <3>5
  <2>7. IsFilter(queue, p, m, f)
    BY <2>4, <2>5, <2>6 DEF IsFilter
  <2> QED BY <1>2, <2>7
<1> QED BY <1>4, <1>5

\* So what Filtered chooses is one.
LEMMA FilteredDef ==
    ASSUME NEW queue \in Seq(Event), NEW p
    PROVE  IsFilter(queue, p, Len(queue), Filtered(queue, p))
<1> DEFINE n == Len(queue)
           Right(f) == f = [i \in 0..n |-> IF i = 0 THEN <<>>
                                          ELSE IF queue[i].player = p THEN f[i - 1]
                                          ELSE Append(f[i - 1], queue[i])]
<1>1. n \in Nat
  BY LenProperties
<1>2. PICK f : IsFilter(queue, p, n, f)
  BY <1>1, FilterUpTo
<1>3. Right(f)
  <2> DEFINE h == [i \in 0..n |-> IF i = 0 THEN <<>>
                                ELSE IF queue[i].player = p THEN f[i - 1]
                                ELSE Append(f[i - 1], queue[i])]
  <2>1. ASSUME NEW i \in 0..n PROVE f[i] = h[i]
    <3>1. CASE i = 0
      BY <1>2, <3>1 DEF IsFilter
    <3>2. CASE i # 0
      <4>1. i \in 1..n
        BY <1>1, <3>2
      <4>2. f[i] = Longer(queue, p, f, i)
        BY <1>2, <4>1 DEF IsFilter
      <4> QED BY <3>2, <4>2 DEF Longer
    <3> QED BY <3>1, <3>2
  <2>2. f = [i \in 0..n |-> f[i]]
    BY <1>2 DEF IsFilter
  <2>3. h = [i \in 0..n |-> h[i]]
    OBVIOUS
  <2> HIDE DEF h
  <2>4. [i \in 0..n |-> f[i]] = [i \in 0..n |-> h[i]]
    BY <2>1
  <2>5. f = h
    BY <2>2, <2>3, <2>4
  <2> QED BY <2>5 DEF h
<1>4. PICK g : g = CHOOSE k : Right(k)
  OBVIOUS
<1>5. Right(g)
  BY <1>3, <1>4
<1>6. Filtered(queue, p) = g
  BY <1>4 DEF Filtered
<1> HIDE DEF n
<1>7. g = [i \in 0..n |-> g[i]]
  BY <1>5
<1>8. g[0] = <<>>
  <2>1. 0 \in 0..n
    BY <1>1
  <2> QED BY <1>5, <2>1
<1>9. \A i \in 1..n : g[i] = Longer(queue, p, g, i)
  <2> SUFFICES ASSUME NEW i \in 1..n PROVE g[i] = Longer(queue, p, g, i)
    OBVIOUS
  <2>1. i \in 0..n /\ i # 0
    BY <1>1
  <2> QED BY <1>5, <2>1 DEF Longer
<1> QED BY <1>6, <1>7, <1>8, <1>9 DEF IsFilter, n

\* What is left is the events about other players.
Kept(queue, p, n) == {queue[i] : i \in {j \in 1..n : queue[j].player # p}}

LEMMA FilterKeeps ==
    ASSUME NEW queue \in Seq(Event), NEW p, NEW n \in Nat, n <= Len(queue),
           NEW f, IsFilter(queue, p, n, f)
    PROVE  f[n] \in Seq(Event) /\ {f[n][j] : j \in 1..Len(f[n])} = Kept(queue, p, n)
<1> DEFINE Holds(m) == /\ f[m] \in Seq(Event)
                       /\ {f[m][j] : j \in 1..Len(f[m])} = Kept(queue, p, m)
           Bad == {m \in 0..n : ~Holds(m)}
<1> SUFFICES ASSUME Bad # {} PROVE FALSE
  OBVIOUS
<1>0. Bad \subseteq Nat
  OBVIOUS
<1>1. PICK m \in Bad : \A k \in Bad : ~(<<k, m>> \in OpToRel(<, Nat))
  BY <1>0, WFMin, NatLessThanWellFounded
<1>2. m \in 0..n /\ ~Holds(m) /\ \A k \in 0..n : k < m => Holds(k)
  BY <1>0, <1>1 DEF OpToRel
<1> HIDE DEF Bad
<1>3. CASE m = 0
  <2>1. f[0] = <<>> /\ <<>> \in Seq(Event) /\ Len(<<>>) = 0
    BY EmptySeq DEF IsFilter
  <2>2. Kept(queue, p, 0) = {} /\ {f[0][j] : j \in 1..Len(f[0])} = {}
    BY <2>1 DEF Kept
  <2> QED BY <1>2, <1>3, <2>1, <2>2
<1>4. CASE m # 0
  <2>1. m - 1 \in 0..n /\ m - 1 < m /\ m \in 1..n /\ m \in Nat /\ Len(queue) \in Nat
    BY <1>2, <1>4, LenProperties
  <2>2. Holds(m - 1)
    BY <1>2, <2>1
  <2>3. PICK s \in Seq(Event) : s = f[m - 1]
    BY <2>2
  <2>4. {s[j] : j \in 1..Len(s)} = Kept(queue, p, m - 1)
    BY <2>2, <2>3
  <2>5. f[m] = IF queue[m].player = p THEN s ELSE Append(s, queue[m])
    BY <2>1, <2>3 DEF IsFilter, Longer
  <2>6. queue[m] \in Event
    BY <2>1, ElementOfSeq
  <2>7. Kept(queue, p, m) = Kept(queue, p, m - 1)
                             \cup (IF queue[m].player = p THEN {} ELSE {queue[m]})
    <3>1. 1..m = 1..(m - 1) \cup {m}
      BY <2>1
    <3> QED BY <3>1 DEF Kept
  <2>8. CASE queue[m].player = p
    BY <1>2, <2>3, <2>4, <2>5, <2>7, <2>8
  <2>9. CASE queue[m].player # p
    <3>1. PICK t \in Seq(Event) : t = Append(s, queue[m])
      BY <2>6, AppendProperties
    <3>2. /\ Len(s) \in Nat /\ Len(t) = Len(s) + 1
          /\ \A i \in 1..Len(s) : t[i] = s[i]
          /\ t[Len(s) + 1] = queue[m]
      BY <2>6, <3>1, AppendProperties, LenProperties
    <3>3. 1..Len(t) = 1..Len(s) \cup {Len(s) + 1}
      BY <3>2
    <3>4. {t[j] : j \in 1..Len(t)} = {s[j] : j \in 1..Len(s)} \cup {queue[m]}
      BY <3>2, <3>3
    <3>5. f[m] = t
      BY <2>5, <2>9, <3>1
    <3>6. {t[j] : j \in 1..Len(t)} = Kept(queue, p, m)
      BY <2>4, <2>7, <2>9, <3>4
    <3> QED BY <1>2, <3>5, <3>6
  <2> QED BY <2>8, <2>9
<1> QED BY <1>3, <1>4

\* A close leaves of the queue no event that was not in it.
LEMMA AfterFacts ==
    ASSUME NEW queue \in Seq(Event), NEW p
    PROVE  /\ After(queue, p) \in Seq(Event)
           /\ {After(queue, p)[j] : j \in 1..Len(After(queue, p))}
                \subseteq {queue[i] : i \in 1..Len(queue)}
           /\ EventsAfterClose => After(queue, p) = queue
<1>1. Len(queue) \in Nat
  BY LenProperties
<1>2. /\ Without(queue, p) \in Seq(Event)
      /\ {Without(queue, p)[j] : j \in 1..Len(Without(queue, p))} = Kept(queue, p, Len(queue))
  <2> DEFINE n == Len(queue)
             f == Filtered(queue, p)
  <2>1. n \in Nat /\ n <= n
    BY <1>1
  <2>2. IsFilter(queue, p, n, f)
    BY FilteredDef
  <2>3. f[n] \in Seq(Event) /\ {f[n][j] : j \in 1..Len(f[n])} = Kept(queue, p, n)
    <3> HIDE DEF f
    <3> QED BY <2>1, <2>2, FilterKeeps
  <2> QED BY <2>3 DEF Without
<1>3. Kept(queue, p, Len(queue)) \subseteq {queue[i] : i \in 1..Len(queue)}
  BY DEF Kept
<1>4. CASE EventsAfterClose
  <2>1. After(queue, p) = queue
    BY <1>4 DEF After
  <2> QED BY <2>1
<1>5. CASE ~EventsAfterClose
  <2>1. After(queue, p) = Without(queue, p)
    BY <1>5 DEF After
  <2> QED BY <1>2, <1>3, <1>5, <2>1
<1> QED BY <1>4, <1>5

--------------------------------------------------------------------------------
(* Callbacks.  A client may open a context again before the STOPPED event of   *)
(* the playback before is handled.                                            *)

InFlight == {events[i] : i \in 1..Len(events)}

\* The STOPPED event that makes the handler forget the callbacks of a context is
\* pending or being handled, unless they are forgotten already.
Forgetting(s) ==
    \/ slot[s].cbs = Clear
    \/ busy = s
    \/ \E e \in InFlight : e.cookie = s /\ e.ev = "stopped"

\* Events are about players of video contexts, for that of a playing widget none about
\* a later playback, and no STOPPED after callbacks that count as asked for.
QueueRight ==
    /\ events \in Seq(Event)
    /\ \A e \in InFlight : SlotKind[e.cookie] = "Video" /\ e.player <= opens
    /\ \A w \in live, e \in InFlight : e.cookie = video_ctx[w] => e.player <= sess[w]
    /\ \A w \in live : asked[w] # {} =>
          /\ busy # video_ctx[w]
          /\ \A e \in InFlight : e.cookie = video_ctx[w] => e.ev # "stopped"

\* What the i-th event would call now is not of an earlier playback than its own, or
\* it will be forgotten before this event is handled.
Answered(i) ==
    LET e == events[i]
        callback == slot[e.cookie].cbs[e.ev] IN
    e.ev \in Watched =>
        \/ callback = None \/ callback >= e.player
        \/ busy = e.cookie
        \/ \E j \in 1..(i - 1) : events[j].cookie = e.cookie /\ events[j].ev = "stopped"

\* Callbacks are of the player that the context holds or being forgotten, and no event
\* will call those of an earlier one.
CallbacksRight ==
    /\ \A s \in Slots : slot[s].handle # None =>
          \/ \A ev \in Watched : slot[s].cbs[ev] \in {None, slot[s].handle}
          \/ Forgetting(s)
    /\ \A i \in 1..Len(events) : Answered(i)

\* The callbacks of a context that lost its player, or whose widget was stopped,
\* are forgotten before the context serves a new open.
ForgottenInTime ==
    /\ \A s \in Slots : SlotKind[s] = "Video" /\ slot[s].handle = None => Forgetting(s)
    /\ \A w \in (created \ deleted) \ live :
          video_ctx[w] \in Slots /\ SlotKind[video_ctx[w]] = "Video" => Forgetting(video_ctx[w])

\* Callbacks are forgotten in time only if events outlive the players they are about,
\* since the STOPPED event of a close that takes its player's events along is lost, and
\* only if widgets are stopped before they are deleted and left alone then.
Forgets == EventsAfterClose /\ Liberties \subseteq {"reopen"}
CallbackInv ==
    /\ QueueRight
    /\ CallbacksKept
    /\ Forgets => CallbacksRight /\ ForgottenInTime

\* What the client is assumed to do.
Careful == Liberties \subseteq {"reopen", "abandon", "stale"}

\* The service puts an event at the end of the queue, ...
LEMMA AppendFacts ==
    ASSUME events \in Seq(Event), NEW e \in Event, events' = Append(events, e)
    PROVE  events' \in Seq(Event) /\ InFlight' = InFlight \cup {e}
<1>1. /\ Len(events) \in Nat /\ events' \in Seq(Event) /\ Len(events') = Len(events) + 1
      /\ \A i \in 1..Len(events) : events'[i] = events[i]
      /\ events'[Len(events) + 1] = e
  BY AppendProperties, LenProperties
<1>2. 1..Len(events') = 1..Len(events) \cup {Len(events) + 1}
  BY <1>1
<1> QED BY <1>1, <1>2 DEF InFlight

LEMMA AppendQueue ==
    ASSUME NEW queue \in Seq(Event), NEW e \in Event
    PROVE  /\ Append(queue, e) \in Seq(Event)
           /\ {Append(queue, e)[i] : i \in 1..Len(Append(queue, e))}
                = {queue[i] : i \in 1..Len(queue)} \cup {e}
<1>1. PICK longer \in Seq(Event) : longer = Append(queue, e)
  BY AppendProperties
<1>2. /\ Len(queue) \in Nat /\ Len(longer) = Len(queue) + 1
      /\ \A i \in 1..Len(queue) : longer[i] = queue[i]
      /\ longer[Len(queue) + 1] = e
  BY <1>1, AppendProperties, LenProperties
<1>3. 1..Len(longer) = 1..Len(queue) \cup {Len(queue) + 1}
  BY <1>2
<1>4. {longer[i] : i \in 1..Len(longer)} = {queue[i] : i \in 1..Len(queue)} \cup {e}
  BY <1>2, <1>3
<1> QED BY <1>1, <1>4

\* ... the handler takes one from its head, ...
LEMMA TailFacts ==
    ASSUME events \in Seq(Event), events # <<>>, events' = Tail(events)
    PROVE  /\ events' \in Seq(Event) /\ Head(events) \in InFlight /\ Head(events) \in Event
           /\ InFlight' \subseteq InFlight
           /\ InFlight \subseteq InFlight' \cup {Head(events)}
<1>1. /\ Len(events) \in Nat \ {0} /\ events' \in Seq(Event) /\ Len(events') = Len(events) - 1
      /\ \A i \in 1..Len(events') : events'[i] = events[i + 1]
      /\ Head(events) = events[1] /\ Head(events) \in Event
  BY HeadTailProperties, EmptySeq, LenProperties
<1>2. InFlight' \subseteq InFlight
  BY <1>1 DEF InFlight
<1>3. ASSUME NEW i \in 1..Len(events), i # 1
      PROVE  i - 1 \in 1..Len(events') /\ events'[i - 1] = events[i]
  BY <1>1, <1>3
<1>4. InFlight \subseteq InFlight' \cup {Head(events)}
  <2> SUFFICES ASSUME NEW i \in 1..Len(events), i # 1 PROVE events[i] \in InFlight'
    BY <1>1 DEF InFlight
  <2> QED BY <1>3 DEF InFlight
<1>5. Head(events) \in InFlight
  <2>1. 1 \in 1..Len(events)
    BY <1>1
  <2> QED BY <1>1, <2>1 DEF InFlight
<1> QED BY <1>1, <1>2, <1>4, <1>5

\* ... and all events in between have their type.
LEMMA InFlightTyped ==
    ASSUME QueueRight
    PROVE  \A e \in InFlight : e \in Event /\ e.player \in Opens /\ e.cookie \in Slots
<1>1. \A i \in 1..Len(events) : events[i] \in Event
  BY ElementOfSeq DEF QueueRight
<1> QED BY <1>1 DEF InFlight, Event

\* A close leaves all of a queue or a part of it.
LEMMA CloseQueue ==
    ASSUME NEW queue \in Seq(Event),
           events' = queue \/ \E p : events' = After(queue, p)
    PROVE  /\ events' \in Seq(Event)
           /\ InFlight' \subseteq {queue[i] : i \in 1..Len(queue)}
           /\ EventsAfterClose => InFlight' = {queue[i] : i \in 1..Len(queue)}
<1>1. CASE events' = queue
  BY <1>1 DEF InFlight
<1>2. ASSUME NEW p, events' = After(queue, p)
      PROVE  /\ events' \in Seq(Event)
             /\ InFlight' \subseteq {queue[i] : i \in 1..Len(queue)}
             /\ EventsAfterClose => InFlight' = {queue[i] : i \in 1..Len(queue)}
  <2>1. PICK rest : rest = After(queue, p)
    OBVIOUS
  <2>2. /\ rest \in Seq(Event)
        /\ {rest[j] : j \in 1..Len(rest)} \subseteq {queue[i] : i \in 1..Len(queue)}
        /\ EventsAfterClose => rest = queue
    BY <2>1, AfterFacts
  <2> QED BY <1>2, <2>1, <2>2 DEF InFlight
<1> QED BY <1>1, <1>2

\* An event about the player that a context holds goes to the end of the queue.
LEMMA PostFacts ==
    ASSUME Base, events \in Seq(Event), NEW s \in Slots, slot[s].handle # None,
           NEW ev \in EventNames, Post(s, ev)
    PROVE  LET e == [player |-> slot[s].handle, cookie |-> s, ev |-> ev] IN
           /\ events' \in Seq(Event) /\ e \in Event
           /\ events' = events \/ events' = Append(events, e)
           /\ InFlight' = InFlight \/ InFlight' = InFlight \cup {e}
<1> DEFINE e == [player |-> slot[s].handle, cookie |-> s, ev |-> ev]
<1>1. e \in Event
  BY ContextFacts DEF Event, Base
<1>2. events' = events \/ events' = Append(events, e)
  BY DEF Post
<1> HIDE DEF e
<1>3. InFlight' = InFlight \/ InFlight' = InFlight \cup {e}
  BY <1>1, <1>2, AppendFacts DEF InFlight
<1>4. events' \in Seq(Event)
  BY <1>1, <1>2, AppendFacts
<1> QED BY <1>1, <1>2, <1>3, <1>4 DEF e

\* In terms of the events in flight.
LEMMA UnderWay ==
    ASSUME events \in Seq(Event), NEW s
    PROVE  StoppedUnderWay(s) <=>
             busy = s \/ \E e \in InFlight : e.cookie = s /\ e.ev = "stopped"
<1>1. DOMAIN events = 1..Len(events)
  BY LenProperties
<1> QED BY <1>1 DEF StoppedUnderWay, InFlight

\* Events that are in flight keep what they will call while callbacks do not change, and
\* a new one about the player of its context is answered too.
LEMMA AnswersKept ==
    ASSUME events \in Seq(Event), NEW e \in Event,
           events' = events \/ events' = Append(events, e),
           \A t \in Slots : slot'[t].cbs = slot[t].cbs, UNCHANGED busy,
           \A i \in 1..Len(events) : Answered(i),
           e.ev \in Watched =>
             slot[e.cookie].cbs[e.ev] \in {None, e.player} \/ Forgetting(e.cookie)
    PROVE  \A i \in 1..Len(events') : Answered(i)'
<1>1. /\ Len(events) \in Nat
      /\ \A i \in 1..Len(events) : events'[i] = events[i] /\ events[i] \in Event
  BY AppendProperties, LenProperties, ElementOfSeq
<1>2. \A f \in Event : f.cookie \in Slots /\ f.player \in Nat
  BY Bounds DEF Event
<1>3. ASSUME NEW i \in 1..Len(events) PROVE Answered(i)'
  <2>1. /\ i \in Nat /\ events'[i] = events[i] /\ events[i].cookie \in Slots
        /\ \A j \in 1..(i - 1) : events'[j] = events[j]
    BY <1>1, <1>2
  <2>2. Answered(i)
    OBVIOUS
  <2> QED BY <2>1, <2>2 DEF Answered
<1>4. CASE events' = events
  BY <1>3, <1>4
<1>5. ASSUME NEW n \in {Len(events) + 1}, events' = Append(events, e), e.ev \in Watched
      PROVE  Answered(n)'
  <2>1. events'[n] = e /\ 1..(n - 1) = 1..Len(events) /\ e.cookie \in Slots /\ e.player \in Nat
    BY <1>1, <1>2, <1>5, AppendProperties
  <2>2. ASSUME Forgetting(e.cookie)
        PROVE  \/ slot'[e.cookie].cbs[e.ev] = None
               \/ busy' = e.cookie
               \/ \E j \in 1..(n - 1) : events'[j].cookie = e.cookie /\ events'[j].ev = "stopped"
    <3>1. slot[e.cookie].cbs = Clear => slot[e.cookie].cbs[e.ev] = None
      BY <1>5 DEF Clear
    <3> QED BY <1>1, <2>1, <2>2, <3>1 DEF Forgetting, InFlight
  <2>3. slot'[e.cookie].cbs[e.ev] \in {None, e.player} \/ Forgetting(e.cookie)
    BY <1>5, <2>1
  <2>4. slot'[e.cookie].cbs[e.ev] = e.player => slot'[e.cookie].cbs[e.ev] >= e.player
    BY <2>1
  <2> QED BY <2>1, <2>2, <2>3, <2>4 DEF Answered
<1>6. CASE events' = Append(events, e)
  <2>1. 1..Len(events') = 1..Len(events) \cup {Len(events) + 1}
    BY <1>1, <1>6, AppendProperties
  <2>2. events'[Len(events) + 1] = e
    BY <1>6, AppendProperties
  <2>3. ASSUME NEW n \in {Len(events) + 1} PROVE Answered(n)'
    BY <1>5, <1>6, <2>2 DEF Answered
  <2> QED BY <1>3, <2>1, <2>3
<1> QED BY <1>4, <1>6

\* A player is of one context, and of a video context.
LEMMA HandleVideo ==
    ASSUME Base, NEW s \in Slots, slot[s].handle # None
    PROVE  SlotKind[s] = "Video" /\ slot[s].handle \in players /\ slot[s].handle <= opens
BY SlotFacts DEF Base, HandlesRight, NumbersUsed, Kinds

\* Announcing something other than STOPPED about a held player keeps it.
LEMMA PostStep ==
    ASSUME Base, SessionIntact, CallbackInv, NEW s \in Slots, slot[s].handle # None,
           NEW ev \in EventNames, ev # "stopped", Post(s, ev),
           UNCHANGED <<slot, video_ctx, created, deleted, players, busy, opens, sess,
                       live, asked>>
    PROVE  CallbackInv'
<1> DEFINE e == [player |-> slot[s].handle, cookie |-> s, ev |-> ev]
<1>1. /\ events' \in Seq(Event) /\ e \in Event
      /\ events' = events \/ events' = Append(events, e)
      /\ InFlight' = InFlight \/ InFlight' = InFlight \cup {e}
  BY PostFacts DEF CallbackInv, QueueRight
<1>2. SlotKind[s] = "Video" /\ slot[s].handle \in players /\ slot[s].handle <= opens
  BY HandleVideo
<1>3. \A w \in live : video_ctx[w] = s => slot[s].handle <= sess[w]
  <2>1. slot[s].handle \in Nat
    BY ContextFacts DEF Base
  <2> QED BY <1>2, <2>1 DEF SessionIntact
<1>4. e.player = slot[s].handle /\ e.cookie = s /\ e.ev = ev
  OBVIOUS
<1> HIDE DEF e
<1>5. QueueRight'
  BY <1>1, <1>2, <1>3, <1>4 DEF CallbackInv, QueueRight
<1>6. \A t \in Slots : Forgetting(t) => Forgetting(t)'
  BY <1>1 DEF Forgetting
<1>7. Forgets => CallbacksRight'
  <2> SUFFICES ASSUME Forgets PROVE CallbacksRight'
    OBVIOUS
  <2>1. CallbacksRight /\ events \in Seq(Event)
    BY DEF CallbackInv, QueueRight
  <2>2. e.ev \in Watched =>
          slot[e.cookie].cbs[e.ev] \in {None, e.player} \/ Forgetting(e.cookie)
    BY <1>4, <2>1 DEF CallbacksRight
  <2>3. \A i \in 1..Len(events') : Answered(i)'
    BY <1>1, <2>1, <2>2, AnswersKept DEF CallbacksRight
  <2> QED BY <1>6, <2>1, <2>3 DEF CallbacksRight
<1>8. Forgets => ForgottenInTime'
  BY <1>6 DEF CallbackInv, ForgottenInTime
<1> QED BY <1>5, <1>7, <1>8 DEF CallbackInv, CallbacksKept

\* Setting a callback on a playing widget keeps it.
LEMMA SetCallbackStep ==
    ASSUME Careful, Base, SessionIntact, Apart, CallbackInv,
           NEW w \in Widgets, NEW ev \in Watched, SetCallback(w, ev)
    PROVE  CallbackInv'
<1> DEFINE s == video_ctx[w]
<1>1. /\ s \in Slots
      /\ slot[s].cbs \in [Watched -> Opens \cup {None}]
      /\ \A t \in Slots \ {s} : slot'[t] = slot[t]
      /\ slot'[s].cbs = [slot[s].cbs EXCEPT ![ev] = sess[w]]
      /\ \A t \in Slots : slot'[t].handle = slot[t].handle /\ slot'[t].fd = slot[t].fd
      /\ asked'[w] = IF w \in live /\ ~StoppedUnderWay(s) THEN asked[w] \cup {ev}
                     ELSE asked[w]
      /\ \A v \in Widgets \ {w} : asked'[v] = asked[v]
      /\ UNCHANGED <<video_ctx, vsync, created, deleted, socks, players, events, busy,
                     opens, sess, live>>
  BY SetCallbackFacts, ContextFacts DEF SetCallback, Base
<1>2. Forgets => w \in live
  BY DEF SetCallback, MayCall, Forgets
<1>3. /\ \A v \in live : video_ctx[v] = s => v = w
      /\ Forgets => \A v \in created \ deleted : video_ctx[v] = s => v = w
  BY <1>2 DEF SetCallback, MayCall, Alive, Apart
<1>4. Forgets /\ SlotKind[s] = "Video" => slot[s].handle = sess[w] /\ sess[w] # None
  BY <1>2, Bounds DEF SessionIntact, Base, Types, WidgetsRight
<1>5. Forgets => \A e \in InFlight : e.cookie = s => e.player <= sess[w]
  BY <1>2 DEF CallbackInv, QueueRight
<1>6. \A x \in Watched : slot'[s].cbs[x] = IF x = ev THEN sess[w] ELSE slot[s].cbs[x]
  BY <1>1
<1>7. InFlight' = InFlight /\ live \subseteq created \ deleted
  BY <1>1 DEF InFlight, Base, WidgetsRight
<1>8. asked'[w] # asked[w] =>
         busy # s /\ \A e \in InFlight : e.cookie = s => e.ev # "stopped"
  BY <1>1, UnderWay DEF CallbackInv, QueueRight
<1>9. \A v \in Widgets : v # w => asked'[v] = asked[v]
  BY <1>1
<1>10. QueueRight'
  <2>1. ASSUME NEW v \in live, asked'[v] # {}
        PROVE  /\ busy # video_ctx[v]
               /\ \A e \in InFlight : e.cookie = video_ctx[v] => e.ev # "stopped"
    <3>1. CASE asked'[v] = asked[v]
      BY <2>1, <3>1 DEF CallbackInv, QueueRight
    <3>2. CASE asked'[v] # asked[v]
      <4>1. v = w
        BY <1>9, <3>2 DEF Base, WidgetsRight
      <4> QED BY <1>8, <3>2, <4>1
    <3> QED BY <3>1, <3>2
  <2> QED BY <1>1, <1>7, <2>1, InFlightTyped DEF CallbackInv, QueueRight
<1> HIDE DEF s
<1>11. Forgets => CallbacksRight'
  <2> SUFFICES ASSUME Forgets PROVE CallbacksRight'
    OBVIOUS
  <2>1. \A e \in InFlight : e.cookie \in Slots
    BY InFlightTyped DEF CallbackInv
  <2>2. ASSUME NEW t \in Slots, slot[t].handle # None
        PROVE  \/ \A x \in Watched : slot'[t].cbs[x] \in {None, slot[t].handle}
               \/ Forgetting(t)'
    <3>1. \/ \A x \in Watched : slot[t].cbs[x] \in {None, slot[t].handle}
          \/ Forgetting(t)
      BY <2>2 DEF CallbackInv, CallbacksRight
    <3>2. SlotKind[t] = "Video"
      BY <2>2, HandleVideo
    <3>3. slot[t].cbs = Clear => \A x \in Watched : slot[t].cbs[x] = None
      BY DEF Clear
    <3>4. CASE t # s
      <4>1. slot'[t] = slot[t]
        BY <1>1, <3>4
      <4> QED BY <1>1, <1>7, <3>1, <4>1 DEF Forgetting
    <3>5. CASE t = s
      <4>1. slot[s].handle = sess[w]
        BY <1>4, <3>2, <3>5
      <4>2. CASE \A x \in Watched : slot[s].cbs[x] \in {None, slot[s].handle}
        BY <1>6, <3>5, <4>1, <4>2
      <4>3. CASE busy = s \/ \E e \in InFlight : e.cookie = s /\ e.ev = "stopped"
        BY <1>1, <1>7, <3>5, <4>3 DEF Forgetting
      <4> QED BY <3>1, <3>3, <3>5, <4>2, <4>3 DEF Forgetting
    <3> QED BY <3>4, <3>5
  <2>3. ASSUME NEW i \in 1..Len(events) PROVE Answered(i)'
    <3>1. Answered(i) /\ events[i] \in InFlight
      BY DEF CallbackInv, CallbacksRight, InFlight
    <3>2. events[i].cookie \in Slots
      BY <2>1, <3>1
    <3>3. CASE events[i].cookie = s /\ events[i].ev = ev
      <4>1. slot'[s].cbs[ev] = sess[w] /\ events[i].player <= sess[w]
        BY <1>5, <1>6, <3>1, <3>3
      <4>2. sess[w] \in Nat /\ events[i].player \in Nat
        BY <3>1, InFlightTyped, Bounds DEF Base, Types, CallbackInv
      <4>3. slot'[s].cbs[ev] >= events[i].player
        BY <4>1, <4>2
      <4> QED BY <1>1, <3>3, <4>3 DEF Answered
    <3>4. CASE ~(events[i].cookie = s /\ events[i].ev = ev)
      <4>1. events[i].ev \in Watched =>
              slot'[events[i].cookie].cbs[events[i].ev] = slot[events[i].cookie].cbs[events[i].ev]
        BY <1>1, <1>6, <3>2, <3>4
      <4> QED BY <1>1, <3>1, <4>1 DEF Answered
    <3> QED BY <3>3, <3>4
  <2> QED BY <1>1, <2>2, <2>3 DEF CallbacksRight
<1>12. Forgets => ForgottenInTime'
  <2> SUFFICES ASSUME Forgets PROVE ForgottenInTime'
    OBVIOUS
  <2>1. \A t \in Slots \ {s} : Forgetting(t) => Forgetting(t)'
    BY <1>1, <1>7 DEF Forgetting
  <2> QED BY <1>1, <1>2, <1>3, <1>4, <2>1 DEF CallbackInv, ForgottenInTime
<1>13. CallbacksKept'
  <2> SUFFICES ASSUME NEW v \in live, NEW x \in asked'[v]
               PROVE  slot'[video_ctx[v]].cbs[x] = sess[v]
    BY <1>1 DEF CallbacksKept
  <2>0. v \in Widgets /\ video_ctx[v] \in Slots /\ asked[v] \subseteq Watched
    BY DEF Base, Types, WidgetsRight
  <2>1. CASE v = w
    BY <1>1, <1>6, <2>0, <2>1 DEF CallbackInv, CallbacksKept, s
  <2>2. CASE v # w
    <3>1. video_ctx[v] # s /\ x \in asked[v]
      BY <1>1, <1>3, <1>7, <2>0, <2>2
    <3> QED BY <1>1, <2>0, <3>1 DEF CallbackInv, CallbacksKept
  <2> QED BY <2>1, <2>2
<1> QED BY <1>10, <1>11, <1>12, <1>13 DEF CallbackInv

\* Handling the event at the head of the queue keeps it, ...
LEMMA HandleStep ==
    ASSUME Base, CallbackInv, HandleEvent
    PROVE  CallbackInv'
<1> DEFINE e == Head(events)
<1>1. /\ busy = None /\ events # <<>> /\ events' = Tail(events)
      /\ busy' = IF e.ev = "stopped" THEN e.cookie ELSE None
      /\ UNCHANGED <<slot, video_ctx, vsync, created, deleted, socks, players,
                     opens, sess, live, asked>>
  BY DEF HandleEvent, ForgetsCallbacks
<1>2. /\ events' \in Seq(Event) /\ e \in InFlight
      /\ InFlight' \subseteq InFlight /\ InFlight \subseteq InFlight' \cup {e}
  BY <1>1, TailFacts DEF CallbackInv, QueueRight
<1> HIDE DEF e
<1>3. QueueRight'
  <2>1. \A w \in live : asked[w] # {} => busy' # video_ctx[w]
    BY <1>1, <1>2, SlotFacts DEF CallbackInv, QueueRight, Base, WidgetsRight
  <2> QED BY <1>1, <1>2, <2>1 DEF CallbackInv, QueueRight
<1>4. \A t \in Slots : Forgetting(t) => Forgetting(t)'
  BY <1>1, <1>2, SlotFacts DEF Forgetting
<1>5. Forgets => CallbacksRight'
  <2> SUFFICES ASSUME Forgets PROVE CallbacksRight'
    OBVIOUS
  <2>1. /\ Len(events) \in Nat \ {0} /\ Len(events') = Len(events) - 1
        /\ \A i \in 1..Len(events') : events'[i] = events[i + 1]
        /\ e = events[1]
        /\ \A i \in 1..Len(events) : events[i] \in Event
    BY <1>1, HeadTailProperties, EmptySeq, LenProperties, ElementOfSeq
       DEF CallbackInv, QueueRight, e
  <2>2. ASSUME NEW i \in 1..Len(events') PROVE Answered(i)'
    <3>1. /\ i \in Nat /\ i + 1 \in 1..Len(events) /\ events'[i] = events[i + 1]
          /\ events[i + 1].cookie \in Slots
      BY <2>1 DEF Event
    <3>2. Answered(i + 1)
      BY <3>1 DEF CallbackInv, CallbacksRight
    <3>3. ASSUME NEW j \in 1..((i + 1) - 1),
                 events[j].cookie = events[i + 1].cookie, events[j].ev = "stopped"
          PROVE  \/ busy' = events[i + 1].cookie
                 \/ \E k \in 1..(i - 1) : /\ events'[k].cookie = events[i + 1].cookie
                                          /\ events'[k].ev = "stopped"
      <4>1. CASE j = 1
        BY <1>1, <2>1, <3>3, <4>1
      <4>2. CASE j # 1
        <5>1. j - 1 \in 1..(i - 1) /\ j - 1 \in 1..Len(events') /\ (j - 1) + 1 = j
          BY <2>1, <3>1, <4>2
        <5>2. events'[j - 1] = events[j]
          BY <2>1, <5>1
        <5> QED BY <3>3, <5>1, <5>2
      <4> QED BY <4>1, <4>2
    <3>4. busy # events[i + 1].cookie
      BY <1>1, <3>1, SlotFacts
    <3> QED BY <1>1, <3>1, <3>2, <3>3, <3>4 DEF Answered
  <2> QED BY <1>1, <1>4, <2>2 DEF CallbackInv, CallbacksRight
<1>6. Forgets => ForgottenInTime'
  BY <1>1, <1>4 DEF CallbackInv, ForgottenInTime
<1> QED BY <1>1, <1>3, <1>5, <1>6 DEF CallbackInv, CallbacksKept

\* ... and so does forgetting callbacks after STOPPED.
LEMMA ForgetStep ==
    ASSUME Base, CallbackInv, ForgetCallbacks
    PROVE  CallbackInv'
<1>1. /\ \A t \in Slots : /\ slot'[t].cbs = IF t = busy THEN Clear ELSE slot[t].cbs
                          /\ slot'[t].handle = slot[t].handle
                          /\ slot'[t].fd = slot[t].fd
      /\ busy' = None
      /\ UNCHANGED <<video_ctx, vsync, created, deleted, socks, players, events,
                     opens, sess, live, asked>>
  BY ForgetFacts DEF ForgetCallbacks
<1>2. InFlight' = InFlight /\ \A e \in InFlight : e.cookie \in Slots
  BY <1>1, InFlightTyped DEF InFlight, CallbackInv
<1>3. \A x \in Watched : Clear[x] = None
  BY DEF Clear
<1>4. QueueRight'
  <2>1. \A w \in live : busy' # video_ctx[w]
    BY <1>1, SlotFacts DEF Base, WidgetsRight
  <2> QED BY <1>1, <1>2, <2>1 DEF CallbackInv, QueueRight
<1>5. \A t \in Slots : Forgetting(t) => Forgetting(t)'
  BY <1>1, <1>2 DEF Forgetting
<1>6. Forgets => CallbacksRight'
  <2> SUFFICES ASSUME Forgets PROVE CallbacksRight'
    OBVIOUS
  <2>1. ASSUME NEW i \in 1..Len(events) PROVE Answered(i)'
    <3>1. Answered(i) /\ events[i] \in InFlight
      BY DEF CallbackInv, CallbacksRight, InFlight
    <3>2. events[i].cookie \in Slots
      BY <1>2, <3>1
    <3> QED BY <1>1, <1>3, <3>1, <3>2 DEF Answered
  <2>2. \A t \in Slots : slot'[t].handle # None =>
          (\A ev \in Watched : slot'[t].cbs[ev] \in {None, slot'[t].handle}) \/ Forgetting(t)'
    BY <1>1, <1>3, <1>5 DEF CallbackInv, CallbacksRight
  <2> QED BY <1>1, <2>1, <2>2 DEF CallbacksRight
<1>7. Forgets => ForgottenInTime'
  BY <1>1, <1>5 DEF CallbackInv, ForgottenInTime
<1>8. CallbacksKept'
  <2> SUFFICES ASSUME NEW w \in live, NEW ev \in asked[w]
               PROVE  slot'[video_ctx[w]].cbs[ev] = sess[w]
    BY <1>1 DEF CallbacksKept
  <2>1. video_ctx[w] \in Slots /\ busy # video_ctx[w]
    BY DEF CallbackInv, QueueRight, Base, WidgetsRight
  <2> QED BY <1>1, <2>1 DEF CallbackInv, CallbacksKept
<1> QED BY <1>4, <1>6, <1>7, <1>8 DEF CallbackInv

\* Stopping a playing widget puts STOPPED into the queue if there is a player.
LEMMA StopStep ==
    ASSUME Careful, Base, SessionIntact, Apart, CallbackInv, NEW w \in Widgets, Stop(w)
    PROVE  CallbackInv'
<1> DEFINE s == video_ctx[w]
           e == [player |-> slot[s].handle, cookie |-> s, ev |-> "stopped"]
           queue == IF slot[s].handle # None THEN Append(events, e) ELSE events
<1>1. s \in Slots /\ w \in created \ deleted /\ (Forgets => w \in live)
  BY DEF Stop, MayCall, Forgets, Base, Types, Alive
<1>2. Close(s, queue)
  BY DEF Stop
<1>3. /\ live' = live \ {w}
      /\ UNCHANGED <<video_ctx, created, deleted, busy, opens, sess, asked>>
  BY DEF Stop
<1>4. slot[s].handle # None => e \in Event /\ SlotKind[s] = "Video"
                               /\ slot[s].handle \in players /\ slot[s].handle <= opens
  <2> SUFFICES ASSUME slot[s].handle # None
               PROVE  e \in Event /\ SlotKind[s] = "Video"
                      /\ slot[s].handle \in players /\ slot[s].handle <= opens
    OBVIOUS
  <2>1. slot[s].handle \in Opens
    BY <1>1, ContextFacts DEF Base
  <2> QED BY <1>1, <2>1, HandleVideo DEF Event, EventNames
<1>5. Forgets /\ SlotKind[s] = "Video" => slot[s].handle # None
  BY <1>1, Bounds DEF SessionIntact, Base, Types, WidgetsRight
<1>6. e.player = slot[s].handle /\ e.cookie = s /\ e.ev = "stopped"
  OBVIOUS
<1>7. events \in Seq(Event) /\ (events' = events => InFlight' = InFlight)
  BY DEF CallbackInv, QueueRight, InFlight
<1>8. \A v \in live' : v \in live /\ video_ctx[v] # s
  BY <1>1, <1>3 DEF Apart
<1>9. /\ \A t \in Slots \ {s} : slot'[t] = slot[t]
      /\ slot'[s].cbs = slot[s].cbs
      /\ \/ slot'[s].handle = None /\ players' = players \ {slot[s].handle}
         \/ slot[s].handle # None /\ slot'[s].handle = slot[s].handle /\ UNCHANGED players
      /\ events' = queue \/ events' = After(queue, slot[s].handle)
  <2> HIDE DEF s, queue
  <2> QED BY <1>1, <1>2, CloseFacts DEF Base
<1> HIDE DEF s, e
<1>10. /\ events' \in Seq(Event)
       /\ InFlight' \subseteq {f \in InFlight \cup {e} : f \in InFlight \/ slot[s].handle # None}
       /\ EventsAfterClose => InFlight \subseteq InFlight'
       /\ EventsAfterClose /\ slot[s].handle # None => e \in InFlight'
       /\ EventsAfterClose => events' = IF slot[s].handle # None THEN Append(events, e)
                                         ELSE events
  <2>0. EventsAfterClose => events' = queue
    <3> HIDE DEF queue
    <3> QED BY <1>9 DEF After
  <2> DEFINE Queued == {queue[i] : i \in 1..Len(queue)}
  <2>1. CASE slot[s].handle # None
    <3>1. queue = Append(events, e)
      BY <2>1
    <3>2. queue \in Seq(Event) /\ Queued = InFlight \cup {e}
      <4> HIDE DEF queue
      <4>1. e \in Event /\ events \in Seq(Event)
        BY <1>4, <1>7, <2>1
      <4> QED BY <3>1, <4>1, AppendQueue DEF InFlight
    <3>3. events' \in Seq(Event) /\ InFlight' \subseteq Queued
          /\ (EventsAfterClose => InFlight' = Queued)
      <4> HIDE DEF queue
      <4> QED BY <1>9, <3>2, CloseQueue
    <3> HIDE DEF queue, Queued
    <3> QED BY <2>0, <2>1, <3>1, <3>2, <3>3
  <2>2. CASE slot[s].handle = None
    <3>1. queue = events
      BY <2>2
    <3>2. queue \in Seq(Event) /\ Queued = InFlight
      BY <1>7, <3>1 DEF InFlight
    <3>3. events' \in Seq(Event) /\ InFlight' \subseteq Queued
          /\ (EventsAfterClose => InFlight' = Queued)
      <4> HIDE DEF queue
      <4> QED BY <1>9, <3>2, CloseQueue
    <3> HIDE DEF queue, Queued
    <3> QED BY <2>0, <2>2, <3>1, <3>2, <3>3
  <2> QED BY <2>1, <2>2
<1> HIDE DEF queue
<1>11. \A f \in InFlight : f \in Event /\ f.cookie \in Slots /\ f.player \in Opens
  BY InFlightTyped DEF CallbackInv
<1>12. QueueRight'
  <2>1. \A f \in InFlight' : SlotKind[f.cookie] = "Video" /\ f.player <= opens
    BY <1>4, <1>6, <1>10 DEF CallbackInv, QueueRight
  <2>2. ASSUME NEW v \in live', NEW f \in InFlight', f.cookie = video_ctx[v]
        PROVE  f \in InFlight /\ v \in live
    BY <1>6, <1>8, <1>10, <2>2
  <2> QED BY <1>3, <1>8, <1>10, <2>1, <2>2 DEF CallbackInv, QueueRight
<1>13. EventsAfterClose => \A t \in Slots : Forgetting(t) => Forgetting(t)'
  BY <1>3, <1>9, <1>10 DEF Forgetting
<1>14. Forgets => CallbacksRight'
  <2> SUFFICES ASSUME Forgets PROVE CallbacksRight'
    OBVIOUS
  <2>1. \A t \in Slots : /\ slot'[t].cbs = slot[t].cbs
                         /\ slot'[t].handle # None => slot'[t].handle = slot[t].handle
    BY <1>9
  <2>2. \A i \in 1..Len(events') : Answered(i)'
    <3>1. CASE slot[s].handle # None
      <4>1. e.ev \in Watched =>
              slot[e.cookie].cbs[e.ev] \in {None, e.player} \/ Forgetting(e.cookie)
        BY <1>1, <1>6, <3>1 DEF CallbackInv, CallbacksRight
      <4>2. e \in Event /\ events' = Append(events, e)
        BY <1>4, <1>10, <3>1 DEF Forgets
      <4> QED BY <1>3, <1>7, <2>1, <4>1, <4>2, AnswersKept DEF CallbackInv, CallbacksRight
    <3>2. CASE slot[s].handle = None
      <4>1. events' = events
        BY <1>10, <3>2 DEF Forgets
      <4>2. \A i \in 1..Len(events) : events[i].cookie \in Slots /\ Answered(i)
        BY <1>11 DEF InFlight, CallbackInv, CallbacksRight
      <4> QED BY <1>3, <2>1, <4>1, <4>2 DEF Answered
    <3> QED BY <3>1, <3>2
  <2>3. \A t \in Slots : slot'[t].handle # None =>
          (\A ev \in Watched : slot'[t].cbs[ev] \in {None, slot'[t].handle}) \/ Forgetting(t)'
    BY <1>13, <2>1 DEF Forgets, CallbackInv, CallbacksRight
  <2> QED BY <2>2, <2>3 DEF CallbacksRight
<1>15. Forgets => ForgottenInTime'
  <2> SUFFICES ASSUME Forgets PROVE ForgottenInTime'
    OBVIOUS
  <2>1. \A t \in Slots : Forgetting(t) => Forgetting(t)'
    BY <1>13 DEF Forgets
  <2>2. SlotKind[s] = "Video" => Forgetting(s)'
    <3> SUFFICES ASSUME SlotKind[s] = "Video" PROVE Forgetting(s)'
      OBVIOUS
    <3>1. e \in InFlight'
      BY <1>5, <1>10 DEF Forgets
    <3>2. \E f \in InFlight' : f.cookie = s /\ f.ev = "stopped"
      BY <1>6, <3>1
    <3>3. s' = s
      BY <1>3 DEF s
    <3> QED BY <3>2, <3>3 DEF Forgetting
  <2>3. \A v \in (created \ deleted) \ live' : v = w \/ v \in (created \ deleted) \ live
    BY <1>3
  <2>4. \A t \in Slots \ {s} : slot'[t].handle = slot[t].handle
    BY <1>9
  <2> QED BY <1>3, <2>1, <2>2, <2>3, <2>4 DEF CallbackInv, ForgottenInTime, s
<1>16. CallbacksKept'
  BY <1>3, <1>8, <1>9 DEF CallbackInv, CallbacksKept, Base, WidgetsRight
<1> QED BY <1>12, <1>14, <1>15, <1>16 DEF CallbackInv

\* Deleting a stopped widget closes a context whose callbacks are being forgotten.
LEMMA DeleteStep ==
    ASSUME Careful, Base, SessionIntact, Apart, CallbackInv, NEW w \in Widgets, Delete(w)
    PROVE  CallbackInv'
<1> DEFINE s == video_ctx[w]
<1>1. /\ (Forgets => w \notin live) /\ w \in created \ deleted
      /\ deleted' = deleted \cup {w} /\ live' = live \ {w}
      /\ UNCHANGED <<video_ctx, created, busy, opens, sess, asked>>
  BY DEF Delete, Forgets, Alive
<1>2. s = None \/ s \in Slots
  BY DEF Base, Types
<1>3. \A v \in live' : v \in live /\ video_ctx[v] # s
  BY <1>1 DEF Apart
<1>4. s \in Slots => \/ slot'[s].handle = None /\ players' = players \ {slot[s].handle}
                     \/ slot'[s].handle = slot[s].handle /\ UNCHANGED players
  <2> SUFFICES ASSUME s \in Slots
               PROVE  \/ slot'[s].handle = None /\ players' = players \ {slot[s].handle}
                      \/ slot'[s].handle = slot[s].handle /\ UNCHANGED players
    OBVIOUS
  <2>1. Close(s, events)
    BY SlotFacts DEF Delete
  <2> HIDE DEF s
  <2> QED BY <2>1, CloseFacts DEF Base
<1>5. /\ \A t \in Slots : t # s => slot'[t] = slot[t]
      /\ s \in Slots => slot'[s].cbs = slot[s].cbs
      /\ s = None => UNCHANGED players
      /\ events' = events \/ \E p : events' = After(events, p)
  <2>1. CASE s = None
    BY <2>1 DEF Delete
  <2>2. CASE s \in Slots
    <3>1. Close(s, events)
      BY <2>2, SlotFacts DEF Delete
    <3> HIDE DEF s
    <3> QED BY <2>2, <3>1, CloseFacts, SlotFacts DEF Base
  <2> QED BY <1>2, <2>1, <2>2
<1>6. /\ events' \in Seq(Event) /\ InFlight' \subseteq InFlight
      /\ EventsAfterClose => InFlight' = InFlight /\ events' = events
      /\ \A f \in InFlight : f.cookie \in Slots
  <2>1. EventsAfterClose => events' = events
    BY <1>5 DEF After
  <2> QED BY <1>5, <2>1, CloseQueue, InFlightTyped DEF InFlight, CallbackInv, QueueRight
<1>7. Forgets /\ s \in Slots /\ SlotKind[s] = "Video" => Forgetting(s)
  BY <1>1 DEF CallbackInv, ForgottenInTime
<1> HIDE DEF s
<1>8. QueueRight'
  BY <1>1, <1>3, <1>6 DEF CallbackInv, QueueRight
<1>9. Forgets => CallbacksRight'
  <2> SUFFICES ASSUME Forgets PROVE CallbacksRight'
    OBVIOUS
  <2>1. \A t \in Slots : /\ slot'[t].cbs = slot[t].cbs
                         /\ slot'[t].handle # None => slot'[t].handle = slot[t].handle
    BY <1>4, <1>5
  <2>2. \A t \in Slots : Forgetting(t) => Forgetting(t)'
    BY <1>1, <1>6, <2>1 DEF Forgetting, Forgets
  <2>3. \A t \in Slots : slot'[t].handle # None =>
          (\A ev \in Watched : slot'[t].cbs[ev] \in {None, slot'[t].handle}) \/ Forgetting(t)'
    BY <2>1, <2>2 DEF CallbackInv, CallbacksRight
  <2>4. \A i \in 1..Len(events) : events[i].cookie \in Slots /\ Answered(i)
    BY <1>6 DEF InFlight, CallbackInv, CallbacksRight
  <2>5. \A i \in 1..Len(events') : Answered(i)'
    BY <1>1, <1>6, <2>1, <2>4 DEF Answered, Forgets
  <2> QED BY <2>3, <2>5 DEF CallbacksRight
<1>10. Forgets => ForgottenInTime'
  <2> SUFFICES ASSUME Forgets PROVE ForgottenInTime'
    OBVIOUS
  <2>1. \A t \in Slots : Forgetting(t) => Forgetting(t)'
    BY <1>1, <1>5, <1>6 DEF Forgetting, Forgets
  <2>2. \A t \in Slots : t # s => slot'[t].handle = slot[t].handle
    BY <1>5
  <2> QED BY <1>1, <1>7, <2>1, <2>2 DEF CallbackInv, ForgottenInTime
<1>11. CallbacksKept'
  BY <1>1, <1>3, <1>5 DEF CallbackInv, CallbacksKept, Base, WidgetsRight
<1> QED BY <1>8, <1>9, <1>10, <1>11 DEF CallbackInv

\* An open that fails leaves its widget without a context.
LEMMA FailsStep ==
    ASSUME Careful, Base, SessionIntact, CallbackInv,
           NEW w \in Widgets, NEW kind \in Kinds, OpenFails(w, kind)
    PROVE  CallbackInv'
<1>1. /\ \A t \in Slots : slot'[t].handle = slot[t].handle /\ slot'[t].cbs = slot[t].cbs
      /\ opens \in Nat /\ opens' \in {opens, opens + 1}
      /\ players' \subseteq players \cup {opens + 1}
      /\ UNCHANGED <<created, deleted, events, busy, sess, asked>>
      /\ video_ctx' = [video_ctx EXCEPT ![w] = None] /\ live' = live \ {w}
  BY OpenFailsFacts, Bounds DEF OpenFails, Base, Types
<1>2. InFlight' = InFlight /\ \A e \in InFlight : /\ e.cookie \in Slots /\ e.player \in Nat
                                                  /\ e.player # opens + 1
  <2>1. \A e \in InFlight : e.player <= opens
    BY DEF CallbackInv, QueueRight
  <2> QED BY <1>1, <2>1, InFlightTyped, Bounds DEF InFlight, CallbackInv
<1>3. /\ live \subseteq created \ deleted /\ created \subseteq Widgets
      /\ \A v \in Widgets : video_ctx'[v] = IF v = w THEN None ELSE video_ctx[v]
  BY <1>1 DEF Base, WidgetsRight, Types
<1>4. \A v \in live' : v \in live /\ video_ctx'[v] = video_ctx[v] /\ video_ctx[v] \in Slots
  BY <1>1, <1>3 DEF Base, WidgetsRight
<1>5. QueueRight'
  <2>1. \A e \in InFlight : SlotKind[e.cookie] = "Video" /\ e.player <= opens'
    BY <1>1, <1>2 DEF CallbackInv, QueueRight
  <2> QED BY <1>1, <1>2, <1>4, <2>1 DEF CallbackInv, QueueRight
<1>6. Forgets => CallbacksRight'
  <2> SUFFICES ASSUME Forgets PROVE CallbacksRight'
    OBVIOUS
  <2>1. \A t \in Slots : Forgetting(t) => Forgetting(t)'
    BY <1>1, <1>2 DEF Forgetting
  <2>2. \A i \in 1..Len(events) : events[i].cookie \in Slots /\ Answered(i)
    BY <1>2 DEF InFlight, CallbackInv, CallbacksRight
  <2>3. \A i \in 1..Len(events') : Answered(i)'
    BY <1>1, <2>2 DEF Answered
  <2> QED BY <1>1, <2>1, <2>3 DEF CallbackInv, CallbacksRight
<1>7. Forgets => ForgottenInTime'
  <2> SUFFICES ASSUME Forgets PROVE ForgottenInTime'
    OBVIOUS
  <2>1. \A t \in Slots : Forgetting(t) => Forgetting(t)'
    BY <1>1, <1>2 DEF Forgetting
  <2> QED BY <1>1, <1>3, <2>1, SlotFacts DEF CallbackInv, ForgottenInTime
<1>8. CallbacksKept'
  BY <1>1, <1>4 DEF CallbackInv, CallbacksKept
<1> QED BY <1>5, <1>6, <1>7, <1>8 DEF CallbackInv

\* The context that an open finds has forgotten its callbacks, or its last STOPPED is
\* under way and comes before any event of the new player.
LEMMA OpenedStep ==
    ASSUME Careful, Base, SessionIntact, CallbackInv,
           NEW w \in Widgets, NEW kind \in Kinds, OpenSucceeds(w, kind)
    PROVE  CallbackInv'
<1> DEFINE id == opens + 1
<1>1. PICK s \in Slots :
             /\ s = FirstOf(Available(kind))
             /\ SlotKind[s] = kind /\ slot[s].handle = None
             /\ opens' = opens + 1
             /\ \A t \in Slots \ {s} : slot'[t] = slot[t]
             /\ slot'[s].cbs = slot[s].cbs
             /\ \/ /\ kind = "Video" /\ slot'[s].handle = opens + 1
                   /\ players' = players \cup {opens + 1}
                \/ kind = "Camera" /\ slot'[s].handle = None /\ UNCHANGED <<players, events>>
             /\ video_ctx' = [video_ctx EXCEPT ![w] = s]
             /\ sess' = [sess EXCEPT ![w] = opens + 1]
             /\ live' = live \cup {w}
             /\ asked' = [asked EXCEPT ![w] = {}]
             /\ UNCHANGED <<created, deleted, busy>>
  BY OpenedFacts DEF OpenSucceeds
<1>2. opens \in Nat /\ id \in Opens
  BY Bounds DEF OpenSucceeds, Opened, Base, Types
<1>3. /\ live \subseteq created \ deleted /\ created \subseteq Widgets /\ w \in created \ deleted
      /\ \A v \in Widgets : /\ video_ctx'[v] = IF v = w THEN s ELSE video_ctx[v]
                            /\ sess'[v] = IF v = w THEN id ELSE sess[v]
                            /\ asked'[v] = IF v = w THEN {} ELSE asked[v]
  BY <1>1 DEF Base, WidgetsRight, Types, OpenSucceeds, Alive
<1>4. /\ \A v \in live : video_ctx[v] # s
      /\ \A v \in created \ deleted : v # w => video_ctx[v] # s
  BY <1>1, FoundUnused DEF OpenSucceeds, Careful
<1>5. \A e \in InFlight : /\ e.cookie \in Slots
                          /\ e.player \in Nat /\ e.player # id /\ e.player <= opens
  <2>1. \A e \in InFlight : e.player <= opens
    BY DEF CallbackInv, QueueRight
  <2> QED BY <1>1, <1>2, <2>1, InFlightTyped, Bounds DEF CallbackInv
<1>6. Forgets /\ kind = "Video" => Forgetting(s)
  BY <1>1 DEF CallbackInv, ForgottenInTime
<1> DEFINE e0 == [player |-> id, cookie |-> s, ev |-> "prepared"]
<1>7. e0 \in Event /\ e0.player = id /\ e0.cookie = s /\ e0.ev = "prepared"
  BY <1>2 DEF Event, EventNames
<1>8. \/ events' = events
      \/ kind = "Video" /\ events' = Append(events, e0)
  <2>1. CASE kind = "Video"
    BY <1>1, <2>1 DEF OpenSucceeds, Opened
  <2>2. CASE kind = "Camera"
    BY <1>1, <2>2
  <2> QED BY <2>1, <2>2 DEF Kinds
<1> HIDE DEF e0
<1>9. /\ events' \in Seq(Event)
       /\ \/ InFlight' = InFlight
          \/ kind = "Video" /\ InFlight' = InFlight \cup {e0}
  BY <1>7, <1>8, AppendFacts DEF CallbackInv, QueueRight, InFlight
<1> HIDE DEF id
<1>10. QueueRight'
  <2>1. \A e \in InFlight' : SlotKind[e.cookie] = "Video" /\ e.player <= opens'
    BY <1>1, <1>2, <1>5, <1>7, <1>9 DEF CallbackInv, QueueRight, id
  <2>2. ASSUME NEW v \in live', NEW e \in InFlight', e.cookie = video_ctx'[v]
        PROVE  e.player <= sess'[v]
    <3>1. CASE v = w
      BY <1>1, <1>2, <1>3, <1>5, <1>7, <1>9, <2>2, <3>1 DEF id
    <3>2. CASE v # w
      <4>1. /\ v \in live /\ video_ctx'[v] = video_ctx[v] /\ sess'[v] = sess[v]
            /\ video_ctx[v] # s
        BY <1>1, <1>3, <1>4, <3>2
      <4>2. e \in InFlight
        BY <1>7, <1>9, <2>2, <4>1
      <4> QED BY <2>2, <4>1, <4>2 DEF CallbackInv, QueueRight
    <3> QED BY <3>1, <3>2
  <2>3. ASSUME NEW v \in live', asked'[v] # {}
        PROVE  /\ busy' # video_ctx'[v]
               /\ \A e \in InFlight' : e.cookie = video_ctx'[v] => e.ev # "stopped"
    <3>1. /\ v \in live /\ video_ctx'[v] = video_ctx[v] /\ asked'[v] = asked[v]
      BY <1>1, <1>3, <2>3
    <3> QED BY <1>1, <1>7, <1>9, <2>3, <3>1 DEF CallbackInv, QueueRight
  <2> QED BY <1>9, <2>1, <2>2, <2>3 DEF QueueRight
<1>11. Forgets => CallbacksRight'
  <2> SUFFICES ASSUME Forgets PROVE CallbacksRight'
    OBVIOUS
  <2>1. \A t \in Slots : slot'[t].cbs = slot[t].cbs
    BY <1>1
  <2>2. \A t \in Slots : Forgetting(t) => Forgetting(t)'
    BY <1>1, <1>9 DEF Forgetting
  <2>3. ASSUME NEW t \in Slots, slot'[t].handle # None
        PROVE  (\A ev \in Watched : slot'[t].cbs[ev] \in {None, slot'[t].handle}) \/ Forgetting(t)'
    <3>1. CASE t = s
      BY <1>1, <1>6, <2>2, <2>3, <3>1
    <3>2. CASE t # s
      BY <1>1, <2>2, <2>3, <3>2 DEF CallbackInv, CallbacksRight
    <3> QED BY <3>1, <3>2
  <2>4. \A i \in 1..Len(events') : Answered(i)'
    <3>1. CASE kind = "Video"
      <4>1. e0.ev \in Watched =>
              slot[e0.cookie].cbs[e0.ev] \in {None, e0.player} \/ Forgetting(e0.cookie)
        BY <1>6, <1>7, <3>1
      <4>2. events \in Seq(Event) /\ \A i \in 1..Len(events) : Answered(i)
        BY DEF CallbackInv, QueueRight, CallbacksRight
      <4> QED BY <1>1, <1>7, <1>8, <2>1, <4>1, <4>2, AnswersKept
    <3>2. CASE kind = "Camera"
      <4>1. events' = events
        BY <1>1, <3>2
      <4>2. \A i \in 1..Len(events) : events[i].cookie \in Slots /\ Answered(i)
        BY <1>5 DEF InFlight, CallbackInv, CallbacksRight
      <4> QED BY <1>1, <2>1, <4>1, <4>2 DEF Answered
    <3> QED BY <3>1, <3>2 DEF Kinds
  <2> QED BY <2>3, <2>4 DEF CallbacksRight
<1>12. Forgets => ForgottenInTime'
  <2> SUFFICES ASSUME Forgets PROVE ForgottenInTime'
    OBVIOUS
  <2>1. \A t \in Slots : Forgetting(t) => Forgetting(t)'
    BY <1>1, <1>9 DEF Forgetting
  <2>2. ASSUME NEW t \in Slots, SlotKind[t] = "Video", slot'[t].handle = None
        PROVE  Forgetting(t)'
    <3>1. t # s
      BY <1>1, <1>2, <2>2, Bounds
    <3> QED BY <1>1, <2>1, <2>2, <3>1 DEF CallbackInv, ForgottenInTime
  <2>3. ASSUME NEW v \in (created' \ deleted') \ live', video_ctx'[v] \in Slots,
               SlotKind[video_ctx'[v]] = "Video"
        PROVE  Forgetting(video_ctx[v])'
    <3>1. v # w /\ v \in (created \ deleted) \ live /\ video_ctx'[v] = video_ctx[v]
      BY <1>1, <1>3
    <3>2. Forgetting(video_ctx[v])
      BY <2>3, <3>1 DEF CallbackInv, ForgottenInTime
    <3>3. video_ctx[v] \in Slots /\ slot'[video_ctx[v]].cbs = slot[video_ctx[v]].cbs
      BY <1>1, <2>3, <3>1
    <3> QED BY <1>1, <1>9, <3>1, <3>2, <3>3 DEF Forgetting
  <2> QED BY <2>2, <2>3 DEF ForgottenInTime
<1>13. CallbacksKept'
  <2> SUFFICES ASSUME NEW v \in live', NEW ev \in asked'[v]
               PROVE  slot'[video_ctx'[v]].cbs[ev] = sess'[v]
    BY DEF CallbacksKept
  <2>1. v # w /\ v \in live /\ v \in Widgets
    BY <1>1, <1>3
  <2>2. video_ctx'[v] = video_ctx[v] /\ sess'[v] = sess[v] /\ asked'[v] = asked[v]
    BY <1>3, <2>1
  <2>3. video_ctx[v] \in Slots \ {s}
    BY <1>4, <2>1 DEF Base, WidgetsRight
  <2> QED BY <1>1, <2>1, <2>2, <2>3 DEF CallbackInv, CallbacksKept
<1> QED BY <1>10, <1>11, <1>12, <1>13 DEF CallbackInv

\* One step per action.
LEMMA CallbackStep ==
    ASSUME Careful, Base, SessionIntact, Apart, CallbackInv, [Next]_vars
    PROVE  CallbackInv'
<1>0. /\ \A t \in Slots : None # t
      /\ \A w \in Widgets \ created : video_ctx[w] = None
      /\ \A w \in Widgets : video_ctx[w] # None => video_ctx[w] \in Slots
  BY SlotFacts DEF Base, WidgetsRight, Types
<1>1. ASSUME UNCHANGED <<slot, video_ctx, deleted, players, events, busy, opens, sess,
                         live, asked>>,
             \/ UNCHANGED created
             \/ \E w \in Widgets \ created : created' = created \cup {w}
      PROVE  CallbackInv'
  <2>1. InFlight' = InFlight
    BY <1>1 DEF InFlight
  <2>2. QueueRight' /\ CallbacksKept' /\ (Forgets => CallbacksRight')
    BY <1>1, <2>1
       DEF CallbackInv, QueueRight, CallbacksRight, Answered, Forgetting, CallbacksKept
  <2>3. \A t \in Slots : Forgetting(t) => Forgetting(t)'
    BY <1>1, <2>1 DEF Forgetting
  <2>4. ASSUME NEW v \in (created' \ deleted) \ live, video_ctx[v] \in Slots
        PROVE  v \in (created \ deleted) \ live
    BY <1>0, <1>1, <2>4
  <2>5. Forgets => ForgottenInTime'
    BY <1>1, <2>3, <2>4 DEF CallbackInv, ForgottenInTime
  <2> QED BY <2>2, <2>5 DEF CallbackInv
<1>2. ASSUME NEW w \in Widgets, Create(w) PROVE CallbackInv'
  BY <1>1, <1>2 DEF Create
<1>3. ASSUME NEW w \in Widgets, Start(w) PROVE CallbackInv'
  <2>1. CASE slot[video_ctx[w]].handle # None
    BY <1>0, <1>3, <2>1, PostStep DEF Start, MayCall, Answer, EventNames
  <2>2. CASE slot[video_ctx[w]].handle = None
    BY <1>1, <1>3, <2>2 DEF Start, Answer
  <2> QED BY <2>1, <2>2
<1>4. ASSUME NEW w \in Widgets, Pause(w) PROVE CallbackInv'
  BY <1>0, <1>4, PostStep DEF Pause, MayCall, EventNames
<1>5. ASSUME NEW s \in Slots, Complete(s) PROVE CallbackInv'
  <2>1. slot[s].handle # None
    BY <1>5, Bounds DEF Complete, Base, NumbersUsed
  <2> QED BY <1>5, <2>1, PostStep DEF Complete, EventNames
<1>6. ASSUME NEW w \in Widgets, NEW kind \in Kinds, SetSrc(w, kind) PROVE CallbackInv'
  BY <1>6, FailsStep, OpenedStep DEF SetSrc, OpenFails, OpenSucceeds
<1>7. CASE UNCHANGED vars
  BY <1>1, <1>7 DEF vars
<1> QED BY <1>2, <1>3, <1>4, <1>5, <1>6, <1>7, StopStep, DeleteStep, SetCallbackStep,
           HandleStep, ForgetStep DEF Next

\* Nobody asked for callbacks at first.
LEMMA CallbackInit == Init => CallbackInv
<1> SUFFICES ASSUME Init PROVE CallbackInv
  OBVIOUS
<1>1. /\ events = <<>> /\ live = {} /\ created = {} /\ busy = None
      /\ \A s \in Slots : slot[s].handle = None /\ slot[s].cbs = Clear
  BY DEF Init
<1>2. events \in Seq(Event) /\ InFlight = {}
  BY <1>1, EmptySeq DEF InFlight
<1> QED BY <1>1, <1>2 DEF CallbackInv, QueueRight, CallbacksRight, ForgottenInTime,
                          Forgetting, CallbacksKept

\* The queue, the callbacks and what the clients asked for always agree.
LEMMA CallbacksAgree ==
    ASSUME Liberties \subseteq {"reopen", "abandon", "stale"}
    PROVE  Spec => []CallbackInv
<1>0. Careful /\ "linger" \notin Liberties /\ "share" \notin Liberties
  BY DEF Careful
<1>1. Spec => [](SessionIntact /\ Apart)
  BY <1>0, SessionsKept
<1>2. CallbackInv /\ Base /\ (SessionIntact /\ Apart) /\ [Next]_vars => CallbackInv'
  BY <1>0, CallbackStep
<1> QED BY <1>1, <1>2, CallbackInit, VideoInductive, PTL DEF Spec

\* The callbacks a widget leaves on its context are never called for the next playback
\* there, however soon that is opened after the stop, also when the client sets new
\* sources while playing and when players do not close, if it stops its widgets before
\* it deletes them and leaves stopped ones alone.
THEOREM NeverForEarlier ==
    ASSUME Liberties \subseteq {"reopen"}, EventsAfterClose
    PROVE  Spec => []NoCallbackOfEarlier
<1>1. CallbackInv => NoCallbackOfEarlier
  <2> SUFFICES ASSUME CallbackInv, events # <<>>, busy = None, Head(events).ev \in Watched
               PROVE  LET callback == slot[Head(events).cookie].cbs[Head(events).ev] IN
                      callback = None \/ callback >= Head(events).player
    BY DEF NoCallbackOfEarlier
  <2>1. events \in Seq(Event)
    BY DEF CallbackInv, QueueRight
  <2>2. /\ 1 \in 1..Len(events) /\ Head(events) = events[1] /\ events[1] \in Event
        /\ 1..(1 - 1) = {}
    BY <2>1, HeadTailProperties, EmptySeq, LenProperties, ElementOfSeq
  <2>3. Answered(1) /\ events[1].cookie # None
    BY <2>2, SlotFacts DEF Forgets, CallbackInv, CallbacksRight, Event
  <2> QED BY <2>2, <2>3 DEF Answered
<1>2. Liberties \subseteq {"reopen", "abandon", "stale"}
  OBVIOUS
<1>3. Spec => []CallbackInv
  BY <1>2, CallbacksAgree
<1> QED BY <1>1, <1>3, PTL

\* Only a STOPPED that was under way when they were set takes the callbacks of a playing
\* widget away: no event posted later and no other widget does, however soon the widget
\* was opened again, also where a playing widget is deleted and a stopped one used.
THEOREM CallbacksStay ==
    ASSUME Liberties \subseteq {"reopen", "abandon", "stale"}
    PROVE  Spec => []CallbacksKept
<1>1. CallbackInv => CallbacksKept
  BY DEF CallbackInv
<1> QED BY <1>1, CallbacksAgree, PTL

--------------------------------------------------------------------------------
(* Types.                                                                     *)

QueueTyped == events \in Seq(Event) /\ busy \in Slots \cup {None} /\ deleted \subseteq created

\* An event that an open or a close puts into the queue has its type.
LEMMA TypedAppend ==
    ASSUME events \in Seq(Event), NEW p \in Opens, NEW s \in Slots, NEW ev \in EventNames,
           events' = Append(events, [player |-> p, cookie |-> s, ev |-> ev])
    PROVE  events' \in Seq(Event)
<1>1. [player |-> p, cookie |-> s, ev |-> ev] \in Event
  BY DEF Event
<1> QED BY <1>1, AppendFacts

\* Every action keeps the type of the queue.
LEMMA QueueTypedStep ==
    ASSUME Base, QueueTyped, [Next]_vars
    PROVE  QueueTyped'
<1> USE DEF QueueTyped
<1>0. \A w \in Widgets : video_ctx[w] # None => video_ctx[w] \in Slots
  BY DEF Base, Types
<1>1. ASSUME NEW w \in Widgets, Create(w) PROVE QueueTyped'
  BY <1>1 DEF Create
<1>2. ASSUME NEW w \in Widgets, Start(w) \/ Pause(w) PROVE QueueTyped'
  <2>1. video_ctx[w] \in Slots /\ UNCHANGED <<busy, created, deleted>>
    BY <1>0, <1>2 DEF Start, Pause, MayCall
  <2>2. \/ UNCHANGED events
        \/ slot[video_ctx[w]].handle # None /\ \E ev \in EventNames : Post(video_ctx[w], ev)
    BY <1>2 DEF Start, Pause, Answer, EventNames
  <2>3. events' \in Seq(Event)
    BY <2>1, <2>2, PostFacts
  <2> QED BY <2>1, <2>3
<1>3. ASSUME NEW w \in Widgets, Stop(w) PROVE QueueTyped'
  <2> DEFINE s == video_ctx[w]
             queue == IF slot[s].handle # None
                      THEN Append(events, [player |-> slot[s].handle, cookie |-> s,
                                           ev |-> "stopped"])
                      ELSE events
  <2>1. s \in Slots /\ UNCHANGED <<busy, created, deleted>> /\ Close(s, queue)
    BY <1>0, <1>3 DEF Stop, MayCall
  <2>2. slot[s].handle \in Opens \cup {None} /\ "stopped" \in EventNames
    BY <2>1, ContextFacts DEF Base, EventNames
  <2>3. events' = queue \/ \E p : events' = After(queue, p)
    <3> HIDE DEF s, queue
    <3> QED BY <2>1, CloseFacts DEF Base
  <2>4. queue \in Seq(Event)
    <3> HIDE DEF s
    <3>1. slot[s].handle # None =>
             [player |-> slot[s].handle, cookie |-> s, ev |-> "stopped"] \in Event
      BY <2>1, <2>2 DEF Event
    <3> QED BY <3>1, AppendQueue
  <2> HIDE DEF s, queue
  <2>5. events' \in Seq(Event)
    BY <2>3, <2>4, CloseQueue
  <2> QED BY <2>1, <2>5
<1>4. ASSUME NEW w \in Widgets, Delete(w) PROVE QueueTyped'
  <2>1. events' = events \/ \E p : events' = After(events, p)
    BY <1>0, <1>4, CloseFacts DEF Delete, Base
  <2>2. events' \in Seq(Event)
    BY <2>1, CloseQueue
  <2> QED BY <1>4, <2>2 DEF Delete, Alive
<1>5. ASSUME NEW w \in Widgets, NEW kind \in Kinds, SetSrc(w, kind) PROVE QueueTyped'
  <2>1. CASE Opened(w, kind)
    <3> DEFINE s == FirstOf(Available(kind))
    <3>1. Available(kind) \subseteq Slots /\ Available(kind) # {}
      BY <2>1 DEF Opened, Available
    <3>2. s \in Slots
      BY <3>1, FirstFound
    <3>3. opens \in Nat /\ opens < MaxOpens /\ MaxOpens \in Nat /\ Opens = 1..MaxOpens
      BY <2>1, Bounds DEF Opened, Base, Types
    <3>4. UNCHANGED <<busy, created, deleted>>
      BY <2>1 DEF Opened
    <3>5. /\ s \in Slots /\ opens + 1 \in Opens /\ "prepared" \in EventNames
          /\ UNCHANGED <<busy, created, deleted>>
      BY <3>2, <3>3, <3>4 DEF EventNames
    <3>6. \/ UNCHANGED events
          \/ events' = Append(events, [player |-> opens + 1, cookie |-> s, ev |-> "prepared"])
      BY <2>1 DEF Opened
    <3> HIDE DEF s
    <3>7. events' \in Seq(Event)
      BY <3>5, <3>6, TypedAppend
    <3> QED BY <3>5, <3>7
  <2>2. CASE OpenNowhere(w, kind) \/ ConnectFails(w, kind) \/ PlayerFails(w, kind)
    BY <2>2, OpenFailsFacts
  <2> QED BY <1>5, <2>1, <2>2 DEF SetSrc
<1>6. ASSUME NEW w \in Widgets, NEW ev \in Watched, SetCallback(w, ev) PROVE QueueTyped'
  BY <1>6 DEF SetCallback
<1>7. ASSUME NEW s \in Slots, Complete(s) PROVE QueueTyped'
  <2>1. slot[s].handle # None /\ "completed" \in EventNames
    BY <1>7, Bounds DEF Complete, Base, NumbersUsed, EventNames
  <2>2. events' \in Seq(Event)
    BY <1>7, <2>1, PostFacts DEF Complete
  <2> QED BY <1>7, <2>2 DEF Complete
<1>8. CASE HandleEvent
  <2>1. events' \in Seq(Event) /\ Head(events).cookie \in Slots
    BY <1>8, TailFacts DEF HandleEvent, Event
  <2> QED BY <1>8, <2>1 DEF HandleEvent
<1>9. CASE ForgetCallbacks \/ UNCHANGED vars
  BY <1>9 DEF ForgetCallbacks, vars
<1> QED BY <1>1, <1>2, <1>3, <1>4, <1>5, <1>6, <1>7, <1>8, <1>9 DEF Next

\* Types for every client, whether or not the service drops the events about a player
\* that is closed.
THEOREM VideoTypeCorrect == Spec => []TypeOK
<1>1. Init => QueueTyped
  BY EmptySeq DEF Init, QueueTyped
<1>2. QueueTyped /\ Base /\ [Next]_vars => QueueTyped'
  BY QueueTypedStep
<1>3. Base /\ QueueTyped => TypeOK
  BY Bounds DEF Base, Types, WidgetsRight, NumbersUsed, QueueTyped, TypeOK
<1> QED BY <1>1, <1>2, <1>3, VideoInductive, PTL DEF Spec

================================================================================
