---------------------------- MODULE LifecycleProofs ----------------------------
(***************************************************************************)
(* Proofs about the life of the library, for any number of lives, widgets,   *)
(* fonts and contexts: for any client, whoever points into the library        *)
(* points to a part that is there, and nothing but the manager of a font that *)
(* is left outlives a life; a client in the order of the demo never meets a   *)
(* freed part, and NULL only where there is no configuration, or no manager   *)
(* since vg_font_deinit.                                                     *)
(***************************************************************************)
EXTENDS Lifecycle, TLAPS

--------------------------------------------------------------------------------
(* The inductive invariant, for any client.                                   *)

Blocks ==
    ({"global", "manager"} \X Lives \X {0}) \cup ({"adapter", "map", "name"} \X Lives \X Nat)

\* The pointers of the global data are those of the present life or NULL.
Pointers ==
    /\ lives \in 0..MaxLives
    /\ data \in {NULL, lives}
    /\ font_manager \in {NULL, data}
    /\ video_vtable \in {NULL, data}
    /\ vtable \in [Widgets -> {NULL, video_vtable}]
    /\ fonts \in [Fonts -> 0..lives]
    /\ config \in [Lives -> [map : BOOLEAN, names : 0..Contexts, ok : BOOLEAN]]

HeapRight == heap \subseteq Blocks /\ \A b \in heap : b[2] \in 1..lives

\* A life has its global data, and its adapter with what was read; the adapter is
\* the default one if reading went well.
PartsAlive == data # NULL =>
    /\ <<"global", data, 0>> \in heap
    /\ AdapterBlocks(data, config[data]) \subseteq heap
    /\ config[data].ok <=> video_vtable = data

\* The manager of a life is there exactly as long as the global data know it.
ManagerKnown == data # NULL =>
    (<<"manager", data, 0>> \in heap <=> font_manager = data)

FontsManaged == \A f \in Fonts : fonts[f] # NULL => <<"manager", fonts[f], 0>> \in heap

OnlyFontsLeft == \A b \in heap : b[2] # data => b[1] = "manager" /\ FontsOf(b[2]) # {}

Alive == Pointers /\ HeapRight /\ PartsAlive /\ ManagerKnown /\ FontsManaged /\ OnlyFontsLeft

\* A fault ends the program.
IInv == fault = "none" => Alive

--------------------------------------------------------------------------------
(* The inductive invariant for a client in the order of the demo.             *)

\* The loop runs within a life that has an adapter, events come only from its
\* players, and widgets are on the display.
Ordered ==
    /\ uv => data # NULL /\ video_vtable = data
    /\ pending # {} => uv /\ pending = {data} /\ config[data].map
    /\ \A w \in Widgets : vtable[w] # NULL => display

OInv == (fault = "none" => Ordered) /\ FaultsExplained
--------------------------------------------------------------------------------
(* Calls.                                                                     *)

\* A use is sound, or of NULL, or of a freed part.
LEMMA RefValues == \A kind, life : Ref(kind, life) \in {"ok", "null", "freed"}
  BY DEF Ref

\* An assertion passes unless the pointer is NULL.
LEMMA AssertedValues ==
    \A pointer : Asserted(pointer) = IF pointer = NULL THEN "null" ELSE "ok"
  BY DEF Asserted

\* A call with one use faults as that one does.
LEMMA OneUse ==
    ASSUME NEW a
    PROVE  /\ Sound(<<a>>) <=> a = "ok"
           /\ a # "ok" => FirstFault(<<a>>) = a
<1>1. DOMAIN <<a>> = {1} /\ <<a>>[1] = a
  OBVIOUS
<1>2. Sound(<<a>>) <=> a = "ok"
  BY <1>1 DEF Sound
<1>3. ASSUME a # "ok" PROVE FirstFault(<<a>>) = a
  <2>1. \A i \in DOMAIN <<a>> : <<a>>[i] = a
    BY <1>1
  <2>2. \E i \in DOMAIN <<a>> : <<a>>[i] # "ok" /\ \A j \in 1..(i-1) : <<a>>[j] = "ok"
    <3>1. 1 \in DOMAIN <<a>> /\ 1..(1 - 1) = {} /\ <<a>>[1] # "ok"
      BY <1>3
    <3> QED BY <3>1
  <2> QED BY <2>1, <2>2 DEF FirstFault
<1> QED BY <1>2, <1>3

\* A call with two uses faults as the first that is not sound.
LEMMA TwoUses ==
    ASSUME NEW a, NEW b
    PROVE  /\ Sound(<<a, b>>) <=> a = "ok" /\ b = "ok"
           /\ a # "ok" => FirstFault(<<a, b>>) = a
           /\ a = "ok" /\ b # "ok" => FirstFault(<<a, b>>) = b
<1> DEFINE u == <<a, b>>
           First(i) == u[i] # "ok" /\ \A j \in 1..(i-1) : u[j] = "ok"
<1>1. DOMAIN u = {1, 2} /\ u[1] = a /\ u[2] = b
  OBVIOUS
<1>2. Sound(u) <=> a = "ok" /\ b = "ok"
  BY <1>1 DEF Sound
<1>3. 1..(1 - 1) = {} /\ 1..(2 - 1) = {1}
  OBVIOUS
<1> HIDE DEF u
<1>4. FirstFault(u) = u[CHOOSE i \in DOMAIN u : First(i)]
  BY DEF FirstFault
<1>5. ASSUME a # "ok" PROVE FirstFault(u) = a
  <2>1. First(1) /\ ~First(2)
    BY <1>1, <1>3, <1>5
  <2> HIDE DEF First
  <2> QED BY <1>1, <1>4, <2>1
<1>6. ASSUME a = "ok", b # "ok" PROVE FirstFault(u) = b
  <2>1. First(2) /\ ~First(1)
    BY <1>1, <1>3, <1>6
  <2> HIDE DEF First
  <2> QED BY <1>1, <1>4, <2>1
<1> QED BY <1>2, <1>5, <1>6 DEF u

\* No call is made after a fault.
LEMMA FaultEnds == Next => fault = "none"
  BY DEF Next, VgInit, VgDeinit, UvInit, UvDeinit, CreateDisplay, RemoveDisplay,
         CreateWidget, DeleteWidget, OpenVideo, PlayerEvent, CreateFont, DestroyFont,
         VgFontDeinit, Call

\* What a part is when Alive says that it is there.
LEMMA AliveRefs ==
    ASSUME Alive, data # NULL
    PROVE  /\ Ref("global", data) = "ok"
           /\ Ref("adapter", data) = "ok"
           /\ config[data].map => Ref("map", data) = "ok"
<1>1. /\ <<"global", data, 0>> \in heap /\ <<"adapter", data, 0>> \in heap
      /\ config[data].map => <<"map", data, 0>> \in heap
  BY DEF Alive, PartsAlive, AdapterBlocks
<1>2. Ref("global", data) = "ok" /\ Ref("adapter", data) = "ok"
  BY <1>1 DEF Ref
<1>3. ASSUME config[data].map PROVE Ref("map", data) = "ok"
  BY <1>1, <1>3 DEF Ref
<1> QED BY <1>2, <1>3
--------------------------------------------------------------------------------
(* The steps, for any client.                                                 *)

\* Nothing is there at first.
LEMMA InitAlive == Init => Alive
<1> SUFFICES ASSUME Init PROVE Alive
  OBVIOUS
<1>1. Pointers
  <2>1. lives = 0 /\ data = 0 /\ font_manager = 0 /\ video_vtable = 0
    BY DEF Init, NULL
  <2>2. /\ vtable \in [Widgets -> {NULL, video_vtable}]
        /\ fonts \in [Fonts -> 0..lives]
    BY <2>1 DEF Init, NULL
  <2>3. config \in [Lives -> [map : BOOLEAN, names : 0..Contexts, ok : BOOLEAN]]
    BY LivesAssumption DEF Init
  <2> QED BY <2>1, <2>2, <2>3, LivesAssumption DEF Pointers, NULL
<1> QED BY <1>1 DEF Init, Alive, HeapRight, PartsAlive, ManagerKnown, FontsManaged, OnlyFontsLeft

\* vg_init begins a life with parts of its own.
LEMMA VgInitStep ==
    ASSUME Alive, NEW outcome \in ConfigOutcomes, VgInit(outcome)
    PROVE  Alive'
<1> DEFINE life == lives + 1
           new == {<<"global", life, 0>>, <<"manager", life, 0>>} \cup AdapterBlocks(life, outcome)
<1>1. /\ data = NULL /\ life \in Lives /\ life \in Nat /\ lives \in Nat /\ life # NULL
      /\ font_manager = NULL /\ video_vtable = NULL
  BY LivesAssumption DEF Alive, Pointers, VgInit, Initialized, Lives, NULL
<1>2. /\ lives' = life /\ data' = life /\ font_manager' = life /\ heap' = heap \cup new
      /\ video_vtable' = IF outcome.ok THEN life ELSE NULL
      /\ config' = [config EXCEPT ![life] = outcome]
      /\ UNCHANGED <<vtable, fonts>>
  BY DEF VgInit, SetDefault
<1>3. outcome \in [map : BOOLEAN, names : 0..Contexts, ok : BOOLEAN]
  <2>1. CASE outcome \in {[map |-> TRUE, names |-> n, ok |-> FALSE] : n \in 0 .. Contexts-1}
    <3>1. PICK n \in 0 .. Contexts-1 : outcome = [map |-> TRUE, names |-> n, ok |-> FALSE]
      BY <2>1
    <3>2. n \in 0..Contexts
      BY LivesAssumption
    <3> QED BY <3>1, <3>2
  <2>2. 0 \in 0..Contexts /\ Contexts \in 0..Contexts
    BY LivesAssumption
  <2>3. CASE outcome = [map |-> FALSE, names |-> 0, ok |-> FALSE]
    BY <2>2, <2>3
  <2>4. CASE outcome = [map |-> FALSE, names |-> 0, ok |-> TRUE]
    BY <2>2, <2>4
  <2>5. CASE outcome = [map |-> TRUE, names |-> Contexts, ok |-> TRUE]
    BY <2>2, <2>5
  <2> QED BY <2>1, <2>3, <2>4, <2>5 DEF ConfigOutcomes
<1>4. config'[life] = outcome
  BY <1>1, <1>2 DEF Alive, Pointers
<1>5. Pointers'
  <2>1. config' \in [Lives -> [map : BOOLEAN, names : 0..Contexts, ok : BOOLEAN]]
    BY <1>1, <1>2, <1>3 DEF Alive, Pointers
  <2>2. vtable' \in [Widgets -> {NULL, video_vtable}']
    BY <1>1, <1>2 DEF Alive, Pointers
  <2>3. fonts' \in [Fonts -> 0..lives']
    BY <1>1, <1>2 DEF Alive, Pointers
  <2>4. lives' \in 0..MaxLives
    BY <1>1, <1>2, LivesAssumption DEF Lives
  <2> QED BY <1>1, <1>2, <2>1, <2>2, <2>3, <2>4 DEF Pointers
<1>6. new \subseteq Blocks /\ \A b \in new : b[2] = life
  BY <1>1, <1>3, LivesAssumption DEF Blocks, AdapterBlocks
<1>7. HeapRight'
  <2>1. \A b \in heap' : b[2] \in 1..life
    BY <1>1, <1>2, <1>6 DEF Alive, HeapRight
  <2> QED BY <1>2, <1>6, <2>1 DEF Alive, HeapRight
<1>8. PartsAlive' /\ ManagerKnown'
  <2>1. new \subseteq heap' /\ AdapterBlocks(life, outcome) \subseteq heap'
    BY <1>2
  <2>2. AdapterBlocks(data, config[data])' = AdapterBlocks(life, outcome)
    BY <1>2, <1>4 DEF AdapterBlocks
  <2>3. outcome.ok \in BOOLEAN
    BY <1>3
  <2> QED BY <1>1, <1>2, <1>4, <2>1, <2>2, <2>3 DEF PartsAlive, ManagerKnown
<1>9. FontsManaged'
  BY <1>2 DEF Alive, FontsManaged
<1>10. OnlyFontsLeft'
  <2>1. \A b \in heap : b[2] # data
    BY <1>1 DEF Alive, HeapRight, NULL
  <2>2. \A l : FontsOf(l)' = FontsOf(l)
    BY <1>2 DEF FontsOf
  <2> QED BY <1>2, <1>6, <2>1, <2>2 DEF Alive, OnlyFontsLeft
<1> QED BY <1>5, <1>7, <1>8, <1>9, <1>10 DEF Alive

\* vg_deinit frees the parts of the life, but no manager that has fonts.
LEMMA VgDeinitStep ==
    ASSUME Alive, VgDeinit, fault' = "none"
    PROVE  Alive'
<1> DEFINE uses == <<Asserted(font_manager), Ref("adapter", video_vtable)>>
<1>0. Sound(uses)
  <2>1. ASSUME ~Sound(uses) PROVE FALSE
    <3>1. fault' = FirstFault(uses)
      BY <2>1 DEF VgDeinit
    <3> QED BY <2>1, <3>1, TwoUses, RefValues, AssertedValues
  <2> QED BY <2>1
<1>1. /\ data # NULL /\ Ref("adapter", video_vtable) = "ok"
      /\ heap' = heap \ (ManagerFreed \cup Destroy \cup {<<"global", data, 0>>})
      /\ data' = NULL /\ font_manager' = NULL /\ video_vtable' = NULL
      /\ vtable' = [w \in Widgets |-> NULL]
      /\ UNCHANGED <<lives, config, fonts>>
  BY <1>0, TwoUses DEF VgDeinit
<1>2. video_vtable = data
  BY <1>1 DEF Alive, Pointers, Ref
<1>3. Pointers'
  BY <1>1 DEF Alive, Pointers
<1>4. HeapRight'
  BY <1>1 DEF Alive, HeapRight
<1>5. ASSUME NEW b \in heap'
      PROVE  b[1] = "manager" /\ FontsOf(b[2]) # {}
  <2>1. CASE b[2] # data
    BY <1>1, <2>1 DEF Alive, OnlyFontsLeft
  <2>2. CASE b[2] = data
    <3>1. b \in Blocks /\ b \in heap /\ b \notin Destroy /\ b # <<"global", data, 0>>
          /\ b \notin ManagerFreed
      BY <1>1 DEF Alive, HeapRight
    <3>2. b[1] \notin {"adapter", "map", "name"}
      BY <1>2, <2>2, <3>1 DEF Destroy
    <3>3. b = <<"manager", data, 0>>
      BY <2>2, <3>1, <3>2 DEF Blocks
    <3>4. font_manager = data
      BY <1>1, <3>1, <3>3 DEF Alive, ManagerKnown
    <3>5. FontsOf(data) # {}
      BY <1>1, <3>1, <3>3, <3>4 DEF ManagerFreed
    <3> QED BY <3>3, <3>5
  <2> QED BY <2>1, <2>2
<1>6. OnlyFontsLeft'
  <2>1. \A l : FontsOf(l)' = FontsOf(l)
    BY <1>1 DEF FontsOf
  <2> QED BY <1>5, <2>1 DEF OnlyFontsLeft
<1>7. FontsManaged'
  <2> SUFFICES ASSUME NEW f \in Fonts, fonts[f] # NULL
               PROVE  <<"manager", fonts[f], 0>> \in heap'
    BY <1>1 DEF FontsManaged
  <2>1. <<"manager", fonts[f], 0>> \in heap
    BY DEF Alive, FontsManaged
  <2>2. <<"manager", fonts[f], 0>> \notin ManagerFreed
    BY DEF ManagerFreed, FontsOf
  <2>3. <<"manager", fonts[f], 0>> \notin Destroy
    BY DEF Destroy
  <2> QED BY <1>1, <2>1, <2>2, <2>3
<1>8. PartsAlive' /\ ManagerKnown'
  BY <1>1 DEF PartsAlive, ManagerKnown
<1> QED BY <1>3, <1>4, <1>6, <1>7, <1>8 DEF Alive

\* What no block and no font is touched by keeps all but the pointers.
LEMMA HeapKept ==
    ASSUME Alive, UNCHANGED <<data, font_manager, video_vtable, heap, fonts, config, lives>>,
           vtable' \in [Widgets -> {NULL, video_vtable}]
    PROVE  Alive'
<1>1. Pointers'
  BY DEF Alive, Pointers
<1>2. \A l : FontsOf(l)' = FontsOf(l)
  BY DEF FontsOf
<1>3. AdapterBlocks(data, config[data])' = AdapterBlocks(data, config[data])
  BY DEF AdapterBlocks
<1> QED BY <1>1, <1>2, <1>3
       DEF Alive, HeapRight, PartsAlive, ManagerKnown, FontsManaged, OnlyFontsLeft

\* The loop, its events, displays and widgets touch no block.
LEMMA WidgetSteps ==
    ASSUME Alive, fault = "none", fault' = "none",
           \/ UvInit \/ UvDeinit \/ CreateDisplay \/ RemoveDisplay
           \/ \E w \in Widgets : CreateWidget(w) \/ DeleteWidget(w) \/ OpenVideo(w)
           \/ \E life \in Lives : PlayerEvent(life)
    PROVE  Alive'
<1>1. UNCHANGED <<data, font_manager, video_vtable, heap, fonts, config, lives>>
  BY DEF UvInit, UvDeinit, CreateDisplay, RemoveDisplay, CreateWidget, DeleteWidget,
         OpenVideo, PlayerEvent, Call, global
<1>2. \/ vtable' = vtable
      \/ \E w \in Widgets : vtable' = [vtable EXCEPT ![w] = video_vtable]
      \/ \E w \in Widgets : vtable' = [vtable EXCEPT ![w] = NULL]
  BY DEF UvInit, UvDeinit, CreateDisplay, RemoveDisplay, CreateWidget, DeleteWidget,
         OpenVideo, PlayerEvent, Call, global
<1>3. vtable' \in [Widgets -> {NULL, video_vtable}]
  BY <1>2 DEF Alive, Pointers
<1> QED BY <1>1, <1>3, HeapKept
\* A font is made with the manager of the life, which is made if need be.
LEMMA CreateFontStep ==
    ASSUME Alive, NEW f \in Fonts, CreateFont(f), fault = "none", fault' = "none"
    PROVE  Alive'
<1>1. Sound(<<Ref("global", data)>>)
  <2>1. ASSUME ~Sound(<<Ref("global", data)>>) PROVE FALSE
    BY <2>1, OneUse, RefValues DEF CreateFont, Call
  <2> QED BY <2>1
<1>2. data # NULL
  BY <1>1, OneUse DEF Ref
<1>3. /\ fonts[f] = NULL /\ font_manager' = data
      /\ heap' = heap \cup {<<"manager", data, 0>>}
      /\ fonts' = [fonts EXCEPT ![f] = data]
      /\ UNCHANGED <<lives, data, video_vtable, config, vtable>>
  BY <1>1 DEF CreateFont, Call
<1>4. lives \in Nat /\ data = lives /\ data \in 1..lives /\ data \in Lives
  BY <1>2, LivesAssumption DEF Alive, Pointers, Lives, NULL
<1>5. Pointers'
  BY <1>3, <1>4 DEF Alive, Pointers
<1>6. HeapRight'
  BY <1>3, <1>4 DEF Alive, HeapRight, Blocks
<1>7. PartsAlive' /\ ManagerKnown'
  BY <1>2, <1>3 DEF Alive, PartsAlive, ManagerKnown, AdapterBlocks
<1>8. FontsManaged'
  BY <1>3 DEF Alive, FontsManaged, Pointers
<1>9. OnlyFontsLeft'
  <2> SUFFICES ASSUME NEW b \in heap', b[2] # data
               PROVE  b[1] = "manager" /\ FontsOf(b[2])' # {}
    BY <1>3 DEF OnlyFontsLeft
  <2>1. b \in heap
    BY <1>3
  <2>2. b[1] = "manager" /\ FontsOf(b[2]) # {} /\ b[2] # NULL
    BY <2>1 DEF Alive, OnlyFontsLeft, HeapRight, NULL
  <2>3. FontsOf(b[2]) \subseteq FontsOf(b[2])'
    BY <1>3, <2>2 DEF FontsOf, Alive, Pointers
  <2> QED BY <2>2, <2>3
<1> QED BY <1>5, <1>6, <1>7, <1>8, <1>9 DEF Alive

\* A font that is destroyed is of the present life, or stays.
LEMMA DestroyFontStep ==
    ASSUME Alive, NEW f \in Fonts, DestroyFont(f), fault = "none", fault' = "none"
    PROVE  Alive'
<1>1. Sound(<<Ref("global", data), Ref("manager", font_manager)>>)
  <2>1. ASSUME ~Sound(<<Ref("global", data), Ref("manager", font_manager)>>) PROVE FALSE
    BY <2>1, TwoUses, RefValues DEF DestroyFont, Call
  <2> QED BY <2>1
<1>2. data # NULL /\ font_manager = data
  BY <1>1, TwoUses DEF Ref, Alive, Pointers
<1>3. /\ fonts' = [fonts EXCEPT ![f] = IF @ = data THEN NULL ELSE @]
      /\ UNCHANGED <<lives, data, video_vtable, font_manager, heap, config, vtable>>
  BY <1>1, <1>2 DEF DestroyFont, Call, global
<1>4. Pointers' /\ HeapRight'
  BY <1>3 DEF Alive, Pointers, HeapRight, NULL
<1>5. PartsAlive' /\ ManagerKnown'
  BY <1>3 DEF Alive, PartsAlive, ManagerKnown, AdapterBlocks
<1>6. FontsManaged'
  BY <1>3 DEF Alive, FontsManaged, Pointers
<1>7. OnlyFontsLeft'
  <2>1. \A l : l # data /\ l # NULL => FontsOf(l)' = FontsOf(l)
    BY <1>3 DEF FontsOf, Alive, Pointers
  <2>2. \A b \in heap : b[2] # NULL
    BY DEF Alive, HeapRight, NULL
  <2> QED BY <1>3, <2>1, <2>2 DEF Alive, OnlyFontsLeft
<1> QED BY <1>4, <1>5, <1>6, <1>7 DEF Alive

\* vg_font_deinit frees the manager when no font is left.
LEMMA FontDeinitStep ==
    ASSUME Alive, VgFontDeinit, fault = "none", fault' = "none"
    PROVE  Alive'
<1> DEFINE uses == <<Ref("global", data), Asserted(font_manager)>>
<1>1. Sound(uses)
  <2>1. ASSUME ~Sound(uses) PROVE FALSE
    BY <2>1, TwoUses, RefValues, AssertedValues DEF VgFontDeinit, Call
  <2> QED BY <2>1
<1>2. /\ font_manager # NULL /\ heap' = heap \ ManagerFreed
      /\ font_manager' = IF ManagerFreed = {} THEN font_manager ELSE NULL
      /\ UNCHANGED <<lives, data, video_vtable, config, vtable, fonts>>
  BY <1>1, TwoUses, AssertedValues DEF VgFontDeinit, Call
<1>3. font_manager = data /\ data # NULL /\ <<"manager", data, 0>> \in heap
  BY <1>2 DEF Alive, Pointers, ManagerKnown
<1>4. CASE ManagerFreed = {}
  <2>1. UNCHANGED <<data, font_manager, video_vtable, heap, fonts, config, lives>>
    BY <1>2, <1>4
  <2>2. vtable' \in [Widgets -> {NULL, video_vtable}]
    BY <1>2 DEF Alive, Pointers
  <2> QED BY <2>1, <2>2, HeapKept
<1>5. CASE ManagerFreed # {}
  <2>1. /\ font_manager' = NULL /\ heap' = heap \ {<<"manager", data, 0>>}
        /\ \A f \in Fonts : fonts[f] # data
    BY <1>2, <1>3, <1>5 DEF ManagerFreed, FontsOf
  <2>2. Pointers' /\ HeapRight'
    BY <1>2, <2>1 DEF Alive, Pointers, HeapRight
  <2>3. PartsAlive' /\ ManagerKnown'
    BY <1>2, <1>3, <2>1 DEF Alive, PartsAlive, ManagerKnown, AdapterBlocks
  <2>4. FontsManaged'
    BY <1>2, <2>1 DEF Alive, FontsManaged
  <2>5. OnlyFontsLeft'
    <3>1. \A l : FontsOf(l)' = FontsOf(l)
      BY <1>2 DEF FontsOf
    <3> QED BY <1>2, <2>1, <3>1 DEF Alive, OnlyFontsLeft
  <2> QED BY <2>2, <2>3, <2>4, <2>5 DEF Alive
<1> QED BY <1>4, <1>5

\* Every step of any client keeps the parts alive, up to a fault.
LEMMA AliveStep ==
    ASSUME IInv, [Next]_vars
    PROVE  IInv'
<1> SUFFICES ASSUME fault' = "none" PROVE Alive'
  BY DEF IInv
<1>1. CASE Next
  <2> USE DEF IInv
  <2>1. fault = "none" /\ Alive
    BY <1>1, FaultEnds
  <2>2. CASE \E outcome \in ConfigOutcomes : VgInit(outcome)
    BY <2>1, <2>2, VgInitStep
  <2>3. CASE VgDeinit
    BY <2>1, <2>3, VgDeinitStep
  <2>4. CASE \E f \in Fonts : CreateFont(f) \/ DestroyFont(f)
    BY <2>1, <2>4, CreateFontStep, DestroyFontStep
  <2>5. CASE VgFontDeinit
    BY <2>1, <2>5, FontDeinitStep
  <2> QED BY <1>1, <2>1, <2>2, <2>3, <2>4, <2>5, WidgetSteps DEF Next
<1>2. CASE UNCHANGED vars
  <2>1. Alive
    BY <1>2 DEF vars, IInv
  <2>2. vtable' \in [Widgets -> {NULL, video_vtable}]
    BY <1>2, <2>1 DEF vars, Alive, Pointers
  <2> QED BY <1>2, <2>1, <2>2, HeapKept DEF vars
<1> QED BY <1>1, <1>2

\* Alive holds in every life, whatever the client does (src/uikit.c), until a call
\* uses NULL or a freed part.
THEOREM LifeInductive == Spec => []IInv
<1>1. Init => IInv
  BY InitAlive DEF IInv
<1> QED BY <1>1, AliveStep, PTL DEF Spec

\* Whoever holds a pointer into the library, a widget into the adapter or a font
\* into its manager, holds one to a part that is there.
THEOREM HoldersSafe == Spec => []HoldersAlive
<1>1. ASSUME IInv, fault = "none"
      PROVE  /\ \A w \in Widgets : vtable[w] # NULL =>
                  AdapterBlocks(vtable[w], config[vtable[w]]) \subseteq heap
             /\ \A f \in Fonts : fonts[f] # NULL => <<"manager", fonts[f], 0>> \in heap
  <2>1. ASSUME NEW w \in Widgets, vtable[w] # NULL PROVE vtable[w] = data /\ data # NULL
    BY <1>1, <2>1 DEF IInv, Alive, Pointers
  <2> QED BY <1>1, <2>1 DEF IInv, Alive, PartsAlive, FontsManaged
<1>2. IInv => HoldersAlive
  BY <1>1 DEF HoldersAlive
<1> QED BY <1>2, LifeInductive, PTL

\* Repeated vg_init and vg_deinit lose nothing but the manager of a font that was
\* never destroyed.
THEOREM LeaksKnown == Spec => []LeaksExplained
<1>1. IInv => LeaksExplained
  BY DEF IInv, Alive, OnlyFontsLeft, LeaksExplained
<1> QED BY <1>1, LifeInductive, PTL

--------------------------------------------------------------------------------
(* A client in the order of the demo.                                         *)

\* No widget is left when the display is removed or the library ends.
LEMMA OrderedStep ==
    ASSUME Liberties = {}, IInv, IInv', OInv, [Next]_vars
    PROVE  OInv'
<1>1. CASE UNCHANGED vars
  BY <1>1 DEF vars, OInv, Ordered, FaultsExplained
<1> USE DEF May
<1>2. CASE Next
  <2>1. fault = "none" /\ Alive /\ Ordered
    BY <1>2, FaultEnds DEF IInv, OInv
  <2> DEFINE Fine == fault' = "none" /\ Ordered'
             Explained == /\ fault' = "null" /\ data' # NULL
                          /\ \/ ~(config'[data'].ok /\ config'[data'].map)
                             \/ font_manager' = NULL
  <2>2. Fine \/ Explained => OInv'
    BY DEF OInv, FaultsExplained
  <2>3. /\ video_vtable = NULL \/ video_vtable = data
        /\ data # NULL => (config[data].ok <=> video_vtable = data)
        /\ \A w \in Widgets : vtable[w] # NULL => vtable[w] = data /\ video_vtable = data
        /\ font_manager = NULL \/ font_manager = data
        /\ Ref("global", NULL) = "null" /\ Ref("adapter", NULL) = "null"
    BY <2>1 DEF Alive, Pointers, PartsAlive, Ref
  <2>4. ASSUME NEW outcome \in ConfigOutcomes, VgInit(outcome) PROVE Fine
    <3>1. /\ UNCHANGED <<vtable, display, uv, pending, fault>> /\ data = NULL
      BY <2>4 DEF VgInit, Initialized
    <3>2. ~uv /\ pending = {}
      BY <2>1, <3>1 DEF Ordered
    <3> QED BY <2>1, <3>1, <3>2 DEF Ordered
  <2>5. ASSUME VgDeinit PROVE Fine \/ Explained
    <3>1. ~display /\ ~uv /\ data # NULL
      BY <2>5 DEF VgDeinit
    <3>2. pending = {} /\ \A w \in Widgets : vtable[w] = NULL
      BY <2>1, <3>1 DEF Ordered
    <3> DEFINE uses == <<Asserted(font_manager), Ref("adapter", video_vtable)>>
    <3>3. CASE font_manager = NULL
      <4>1. ~Sound(uses) /\ FirstFault(uses) = "null"
        BY <3>3, TwoUses, AssertedValues
      <4> QED BY <2>5, <3>1, <3>3, <4>1 DEF VgDeinit, global
    <3>4. CASE font_manager # NULL /\ Ref("adapter", video_vtable) # "ok"
      <4>1. video_vtable = NULL /\ ~config[data].ok
        BY <2>1, <2>3, <3>1, <3>4, AliveRefs
      <4>2. ~Sound(uses) /\ FirstFault(uses) = "null"
        BY <2>3, <3>4, <4>1, TwoUses, AssertedValues
      <4> QED BY <2>5, <3>1, <4>1, <4>2 DEF VgDeinit, global
    <3>5. CASE font_manager # NULL /\ Ref("adapter", video_vtable) = "ok"
      <4>1. Sound(uses)
        BY <3>5, TwoUses, AssertedValues
      <4> QED BY <2>5, <3>1, <3>2, <4>1 DEF VgDeinit, Ordered
    <3> QED BY <3>3, <3>4, <3>5
  <2>6. ASSUME UvInit PROVE Fine \/ Explained
    <3>1. data # NULL /\ Ref("global", data) = "ok"
      BY <2>1, <2>6, AliveRefs DEF UvInit
    <3>2. CASE video_vtable = data
      <4>1. Sound(<<Ref("global", data), Ref("adapter", video_vtable)>>)
        BY <2>1, <3>1, <3>2, AliveRefs, TwoUses
      <4> QED BY <2>1, <2>6, <3>1, <3>2, <4>1 DEF UvInit, Call, Ordered, global
    <3>3. CASE video_vtable = NULL
      <4>1. ~Sound(<<Ref("global", data), Ref("adapter", video_vtable)>>)
            /\ FirstFault(<<Ref("global", data), Ref("adapter", video_vtable)>>) = "null"
        BY <2>3, <3>1, <3>3, TwoUses
      <4> QED BY <2>3, <2>6, <3>1, <3>3, <4>1 DEF UvInit, Call, global
    <3> QED BY <2>3, <3>2, <3>3
  <2>7. ASSUME UvDeinit PROVE Fine
    <3>1. data # NULL /\ video_vtable = data
      BY <2>1, <2>7 DEF UvDeinit, Ordered
    <3>2. Sound(<<Ref("global", data), Ref("adapter", video_vtable)>>)
      BY <2>1, <3>1, AliveRefs, TwoUses
    <3> QED BY <2>1, <2>7, <3>2 DEF UvDeinit, Call, Ordered, global
  <2>8. ASSUME CreateDisplay \/ RemoveDisplay PROVE Fine
    BY <2>1, <2>8 DEF CreateDisplay, RemoveDisplay, Ordered, global
  <2>9. ASSUME NEW w \in Widgets, CreateWidget(w) PROVE Fine \/ Explained
    <3> DEFINE second == Asserted(video_vtable)
    <3>1. data # NULL /\ Ref("global", data) = "ok" /\ display
      BY <2>1, <2>9, AliveRefs DEF CreateWidget
    <3>2. CASE video_vtable = data
      <4>1. Sound(<<Ref("global", data), second>>)
        BY <3>1, <3>2, TwoUses, AssertedValues
      <4>2. /\ fault' = fault /\ vtable' = [vtable EXCEPT ![w] = video_vtable]
            /\ UNCHANGED <<global, display, uv, pending>>
        BY <2>9, <4>1 DEF CreateWidget, Call
      <4> QED BY <2>1, <3>1, <4>2 DEF Ordered, global, Alive, Pointers
    <3>3. CASE video_vtable = NULL
      <4>1. ~Sound(<<Ref("global", data), second>>)
            /\ FirstFault(<<Ref("global", data), second>>) = "null"
        BY <3>1, <3>3, TwoUses, AssertedValues
      <4> QED BY <2>3, <2>9, <3>1, <3>3, <4>1 DEF CreateWidget, Call, global
    <3> QED BY <2>3, <3>2, <3>3
  <2>10. ASSUME NEW w \in Widgets, DeleteWidget(w) PROVE Fine
    <3>1. vtable[w] = data /\ data # NULL
      BY <2>3, <2>10 DEF DeleteWidget
    <3>2. Sound(<<Ref("adapter", vtable[w])>>)
      BY <2>1, <3>1, AliveRefs, OneUse
    <3>3. /\ fault' = fault /\ vtable' = [vtable EXCEPT ![w] = NULL]
          /\ UNCHANGED <<global, display, uv, pending>>
      BY <2>10, <3>2 DEF DeleteWidget, Call
    <3> QED BY <2>1, <3>3 DEF Ordered, global, Alive, Pointers
  <2>11. ASSUME NEW w \in Widgets, OpenVideo(w) PROVE Fine \/ Explained
    <3> DEFINE second == IF config[vtable[w]].map THEN Ref("map", vtable[w]) ELSE "null"
    <3>1. vtable[w] = data /\ data # NULL /\ uv /\ Ref("adapter", vtable[w]) = "ok"
      BY <2>1, <2>3, <2>11, AliveRefs DEF OpenVideo
    <3>2. CASE config[data].map
      <4>1. Sound(<<Ref("adapter", vtable[w]), second>>)
        BY <2>1, <3>1, <3>2, AliveRefs, TwoUses
      <4>2. /\ fault' = fault /\ pending' = pending \cup {data}
            /\ UNCHANGED <<global, display, vtable, uv>>
        BY <2>11, <3>1, <4>1 DEF OpenVideo, Call
      <4> QED BY <2>1, <3>1, <3>2, <4>2 DEF Ordered, global
    <3>3. CASE ~config[data].map
      <4>1. ~Sound(<<Ref("adapter", vtable[w]), second>>)
            /\ FirstFault(<<Ref("adapter", vtable[w]), second>>) = "null"
        BY <3>1, <3>3, TwoUses
      <4> QED BY <2>11, <3>1, <3>3, <4>1 DEF OpenVideo, Call, global
    <3> QED BY <3>2, <3>3
  <2>12. ASSUME NEW life \in Lives, PlayerEvent(life) PROVE Fine
    <3>1. life = data /\ data # NULL /\ config[data].map /\ pending = {data}
      BY <2>1, <2>12 DEF PlayerEvent, Ordered
    <3>2. Sound(<<Ref("map", life)>>)
      BY <2>1, <3>1, AliveRefs, OneUse
    <3>3. /\ fault' = fault /\ pending' = pending \ {data}
          /\ UNCHANGED <<global, display, vtable, uv>>
      BY <2>12, <3>1, <3>2 DEF PlayerEvent, Call
    <3> QED BY <2>1, <3>1, <3>3 DEF Ordered, global
  <2>13. ASSUME NEW f \in Fonts, CreateFont(f) PROVE Fine
    <3>1. Sound(<<Ref("global", data)>>)
      BY <2>1, <2>13, AliveRefs, OneUse DEF CreateFont
    <3> QED BY <2>1, <2>13, <3>1 DEF CreateFont, Call, Ordered
  <2>14. ASSUME NEW f \in Fonts, DestroyFont(f) PROVE Fine
    <3>1. fonts[f] = data /\ data # NULL
      BY <2>14 DEF DestroyFont
    <3>2. <<"manager", data, 0>> \in heap /\ font_manager = data
      BY <2>1, <3>1 DEF Alive, FontsManaged, ManagerKnown
    <3>3. Ref("manager", font_manager) = "ok"
      BY <3>1, <3>2 DEF Ref
    <3>4. Sound(<<Ref("global", data), Ref("manager", font_manager)>>)
      BY <2>1, <3>1, <3>3, AliveRefs, TwoUses
    <3> QED BY <2>1, <2>14, <3>4 DEF DestroyFont, Call, Ordered, global
  <2>15. ASSUME VgFontDeinit PROVE Fine \/ Explained
    <3> DEFINE uses == <<Ref("global", data), Asserted(font_manager)>>
    <3>1. data # NULL /\ Ref("global", data) = "ok"
      BY <2>1, <2>15, AliveRefs DEF VgFontDeinit
    <3>2. CASE font_manager # NULL
      <4>1. Sound(uses)
        BY <3>1, <3>2, TwoUses, AssertedValues
      <4> QED BY <2>1, <2>15, <4>1 DEF VgFontDeinit, Call, Ordered
    <3>3. CASE font_manager = NULL
      <4>1. ~Sound(uses) /\ FirstFault(uses) = "null"
        BY <3>1, <3>3, TwoUses, AssertedValues
      <4> QED BY <2>15, <3>1, <3>3, <4>1 DEF VgFontDeinit, Call, global
    <3> QED BY <3>2, <3>3
  <2> HIDE DEF Fine, Explained
  <2> QED BY <1>2, <2>2, <2>4, <2>5, <2>6, <2>7, <2>8, <2>9, <2>10, <2>11, <2>12, <2>13,
             <2>14, <2>15 DEF Next
<1> QED BY <1>1, <1>2

\* A client in the order of test/uikit_demo.c never reaches a freed part, and NULL
\* only in a life whose video configuration gave no contexts, or between a
\* vg_font_deinit that took the manager and the next font.
THEOREM FaultsKnown ==
    ASSUME Liberties = {}
    PROVE  Spec => []FaultsExplained
<1>1. Init => OInv
  BY DEF Init, OInv, Ordered, FaultsExplained
<1>2. IInv /\ IInv' /\ OInv /\ [Next]_vars => OInv'
  BY OrderedStep
<1>3. OInv => FaultsExplained
  BY DEF OInv
<1> QED BY <1>1, <1>2, <1>3, LifeInductive, PTL DEF Spec
================================================================================
