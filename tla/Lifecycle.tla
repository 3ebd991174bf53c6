-------------------------------- MODULE Lifecycle ------------------------------
(***************************************************************************)
(* The life of the library: src/uikit.c with the global data it keeps in     *)
(* LVGL, the init and deinit of the font manager and of the video adapter    *)
(* with its configuration file, and the widgets, fonts and player events     *)
(* that may outlive a part they point into.                                  *)
(*                                                                         *)
(* Lives are numbered: `data' is the life whose global data LVGL points to,  *)
(* 0 for NULL, and a pointer to a part is the number of its life.  A call    *)
(* that uses NULL or a freed part ends the program: `fault' says how.        *)
(* Definitions marked "faulty" are mistakes the properties must detect.      *)
(***************************************************************************)
EXTENDS Naturals, Sequences

CONSTANTS
    Widgets,    \* addresses of video widgets
    Fonts,      \* addresses of fonts
    Contexts,   \* how many names the video configuration file lists
    MaxLives,   \* bound of the model: calls of vg_init
    Liberties   \* what the client does beyond the order of test/uikit_demo.c:
                \* "order"   calls outside vg_init .. vg_deinit
                \* "display" vg_deinit without removing the display
                \* "loop"    vg_deinit before vg_uv_deinit
                \* "oldfont" destroys a font of an earlier life

ASSUME LivesAssumption == MaxLives \in Nat /\ Contexts \in Nat \ {0}

NULL == 0
Lives == 1..MaxLives

VARIABLES
    lives,          \* how many lives were begun
    data,           \* LV_GLOBAL_DEFAULT()->user_data
    font_manager,   \* its members
    video_vtable,
    heap,           \* the blocks allocated: <<kind, life, index>>
    display,        \* is there a display
    vtable,         \* [Widgets -> Lives, NULL for no widget]: its vtable
    fonts,          \* [Fonts -> Lives, NULL for no font]: their manager
    uv,             \* does the application's uv loop run
    pending,        \* the lives of whose players an event may still come
    config,         \* history: [Lives -> how reading the video config ended]
    fault           \* "none", "null" or "freed"

vars == <<lives, data, font_manager, video_vtable, heap, display, vtable,
          fonts, uv, pending, config, fault>>
global == <<lives, data, font_manager, video_vtable, config>>

\* map: was map->ctx allocated; names: how many were read into it;
\* ok: is the result 0.
ConfigOutcomes ==
      \* unreadable, no JSON or an empty array
    {[map |-> FALSE, names |-> 0, ok |-> FALSE]}
      \* no memory for the map: -errno, which may be 0
    \cup {[map |-> FALSE, names |-> 0, ok |-> TRUE]}
      \* an item that is not a string
    \cup {[map |-> TRUE, names |-> n, ok |-> FALSE] : n \in 0 .. Contexts-1}
    \cup {[map |-> TRUE, names |-> Contexts, ok |-> TRUE]}

Init ==
    /\ lives = 0
    /\ data = NULL /\ font_manager = NULL /\ video_vtable = NULL
    /\ heap = {}
    /\ display = FALSE
    /\ vtable = [w \in Widgets |-> NULL]
    /\ fonts = [f \in Fonts |-> NULL]
    /\ uv = FALSE
    /\ pending = {}
    /\ config = [l \in Lives |-> [map |-> FALSE, names |-> 0, ok |-> FALSE]]
    /\ fault = "none"

--------------------------------------------------------------------------------
(* Using a part through a pointer.                                            *)

Ref(kind, life) ==
    IF life = NULL THEN "null"
    ELSE IF <<kind, life, 0>> \in heap THEN "ok" ELSE "freed"
\* What an assertion that a pointer is not NULL makes of it.
Asserted(pointer) == IF pointer = NULL THEN "null" ELSE "ok"
Sound(uses) == \A i \in DOMAIN uses : uses[i] = "ok"
FirstFault(uses) ==
    uses[CHOOSE i \in DOMAIN uses :
           uses[i] # "ok" /\ \A j \in 1..(i-1) : uses[j] = "ok"]

\* The call uses these parts in this order, and has this effect if all are
\* there.
Call(uses, Effect) ==
    /\ fault = "none"
    /\ \/ Sound(uses) /\ Effect /\ UNCHANGED fault
       \/ /\ ~Sound(uses)
          /\ fault' = FirstFault(uses)
          /\ UNCHANGED <<global, heap, display, vtable, fonts, uv, pending>>

May(liberty, rule) == liberty \in Liberties \/ rule

--------------------------------------------------------------------------------
(* vg_init                                                                    *)

AdapterBlocks(life, outcome) ==
    {<<"adapter", life, 0>>}
      \cup (IF outcome.map THEN {<<"map", life, 0>>} ELSE {})
      \cup {<<"name", life, i>> : i \in 1..outcome.names}

\* An adapter without configuration is not set as the default, nor freed.
SetDefault(life, outcome) ==
    video_vtable' = IF outcome.ok THEN life ELSE NULL

NeverInitialized == FALSE                                            \* faulty
Initialized == data # NULL

VgInit(outcome) ==
    /\ fault = "none"
    /\ ~Initialized
    /\ lives < MaxLives
    /\ LET life == lives + 1 IN
         /\ lives' = life
         /\ data' = life
         /\ font_manager' = life
         /\ SetDefault(life, outcome)
         /\ heap' = heap \cup {<<"global", life, 0>>, <<"manager", life, 0>>}
                         \cup AdapterBlocks(life, outcome)
         /\ config' = [config EXCEPT ![life] = outcome]
    /\ UNCHANGED <<display, vtable, fonts, uv, pending, fault>>

--------------------------------------------------------------------------------
(* vg_deinit                                                                  *)

FontsOf(life) == {f \in Fonts : fonts[f] = life}

\* vg_font_deinit: font_manager_delete refuses while a font is left.
ManagerAnyway == {<<"manager", font_manager, 0>>}                    \* faulty
ManagerFreed ==
    IF font_manager # NULL /\ FontsOf(font_manager) = {}
    THEN {<<"manager", font_manager, 0>>} ELSE {}

\* video_adapter_destroy
DestroyMapOnly ==                                                    \* faulty
    {b \in heap : b[1] \in {"adapter", "map"} /\ b[2] = video_vtable}
Destroy ==
    {b \in heap : b[1] \in {"adapter", "map", "name"} /\ b[2] = video_vtable}

\* Deletion of a widget calls video_adapter_close through its vtable.
Closed(w, blocks) == <<"adapter", vtable[w], 0>> \in blocks

\* vg_font_deinit asserts that there is a manager.  Adapter and global data go
\* before lv_deinit deletes what displays are left.
VgDeinit ==
    /\ data # NULL
    /\ May("display", ~display)
    /\ May("loop", ~uv)
    /\ fault = "none"
    /\ LET uses == <<Asserted(font_manager), Ref("adapter", video_vtable)>> IN
       \/ /\ ~Sound(uses)
          /\ fault' = FirstFault(uses)
          /\ UNCHANGED <<global, heap, display, vtable, fonts, uv, pending>>
       \/ /\ Sound(uses)
          /\ heap' = heap \ (ManagerFreed \cup Destroy \cup {<<"global", data, 0>>})
          /\ data' = NULL /\ font_manager' = NULL /\ video_vtable' = NULL
          /\ display' = FALSE
          /\ vtable' = [w \in Widgets |-> NULL]
          /\ fault' = IF \E w \in Widgets : vtable[w] # NULL /\ ~Closed(w, heap')
                      THEN "freed" ELSE "none"
          /\ UNCHANGED <<lives, config, fonts, uv, pending>>

--------------------------------------------------------------------------------
(* The uv loop, through which the media service's events come.                *)

UvInit ==
    /\ May("order", data # NULL)
    /\ ~uv
    /\ Call(<<Ref("global", data), Ref("adapter", video_vtable)>>,
            uv' = TRUE /\ UNCHANGED <<global, heap, display, vtable, fonts, pending>>)

\* The loop has ended before: its events will not come any more.
UvDeinit ==
    /\ May("order", data # NULL)
    /\ uv
    /\ Call(<<Ref("global", data), Ref("adapter", video_vtable)>>,
            /\ uv' = FALSE /\ pending' = {}
            /\ UNCHANGED <<global, heap, display, vtable, fonts>>)

\* vg_video_set_src: a context of the map is searched, its player will answer.
OpenVideo(w) ==
    /\ vtable[w] # NULL
    /\ May("order", uv)
    /\ Call(<<Ref("adapter", vtable[w]), IF config[vtable[w]].map
                                         THEN Ref("map", vtable[w]) ELSE "null">>,
            /\ pending' = pending \cup {vtable[w]}
            /\ UNCHANGED <<global, heap, display, vtable, fonts, uv>>)

\* video_event_cb: the cookie is a context of the map.
PlayerEvent(life) ==
    /\ uv /\ life \in pending
    /\ Call(<<Ref("map", life)>>,
            /\ pending' = pending \ {life}
            /\ UNCHANGED <<global, heap, display, vtable, fonts, uv>>)

--------------------------------------------------------------------------------
(* Displays and video widgets.                                                *)

\* lv_init runs in vg_init at the latest.
CreateDisplay ==
    /\ fault = "none" /\ data # NULL
    /\ ~display
    /\ display' = TRUE
    /\ UNCHANGED <<global, heap, vtable, fonts, uv, pending, fault>>

\* vg_video_constructor asserts that there is a default vtable.
CreateWidget(w) ==
    /\ display /\ vtable[w] = NULL
    /\ May("order", data # NULL)
    /\ Call(<<Ref("global", data), Asserted(video_vtable)>>,
            /\ vtable' = [vtable EXCEPT ![w] = video_vtable]
            /\ UNCHANGED <<global, heap, display, fonts, uv, pending>>)

DeleteWidget(w) ==
    /\ vtable[w] # NULL
    /\ Call(<<Ref("adapter", vtable[w])>>,
            /\ vtable' = [vtable EXCEPT ![w] = NULL]
            /\ UNCHANGED <<global, heap, display, fonts, uv, pending>>)

\* The widgets of the display are deleted with it.
RemoveDisplay ==
    /\ fault = "none" /\ display
    /\ \A w \in Widgets : vtable[w] = NULL
    /\ display' = FALSE
    /\ UNCHANGED <<global, heap, vtable, fonts, uv, pending, fault>>

--------------------------------------------------------------------------------
(* Fonts: vg_font_create makes a manager when there is none.                  *)

CreateFont(f) ==
    /\ fonts[f] = NULL
    /\ May("order", data # NULL)
    /\ Call(<<Ref("global", data)>>,
            /\ font_manager' = data
            /\ heap' = heap \cup {<<"manager", data, 0>>}
            /\ fonts' = [fonts EXCEPT ![f] = data]
            /\ UNCHANGED <<lives, data, video_vtable, config, display, vtable,
                           uv, pending>>)

\* A manager has no record of another one's font, and does nothing.
DestroyFont(f) ==
    /\ fonts[f] # NULL
    /\ May("order", data # NULL)
    /\ May("oldfont", fonts[f] = data)
    /\ Call(<<Ref("global", data), Ref("manager", font_manager)>>,
            /\ fonts' = [fonts EXCEPT ![f] = IF @ = font_manager THEN NULL ELSE @]
            /\ UNCHANGED <<global, heap, display, vtable, uv, pending>>)

\* vg_font_deinit may be called on its own, and leaves no manager for the next
\* call of it, or for vg_deinit, unless a font is made in between.
VgFontDeinit ==
    /\ May("order", data # NULL)
    /\ Call(<<Ref("global", data), Asserted(font_manager)>>,
            /\ heap' = heap \ ManagerFreed
            /\ font_manager' = IF ManagerFreed = {} THEN font_manager ELSE NULL
            /\ UNCHANGED <<lives, data, video_vtable, config, display, vtable,
                           fonts, uv, pending>>)

Next ==
    \/ \E outcome \in ConfigOutcomes : VgInit(outcome)
    \/ VgDeinit
    \/ UvInit \/ UvDeinit
    \/ CreateDisplay \/ RemoveDisplay
    \/ \E w \in Widgets : CreateWidget(w) \/ DeleteWidget(w) \/ OpenVideo(w)
    \/ \E life \in Lives : PlayerEvent(life)
    \/ \E f \in Fonts : CreateFont(f) \/ DestroyFont(f)
    \/ VgFontDeinit

Spec == Init /\ [][Next]_vars

--------------------------------------------------------------------------------
(* Properties.                                                                *)

\* Whoever holds a pointer into the library holds one to a part that is there,
\* through any number of lives: a widget's adapter with all its contexts, and
\* the manager of a font, which vg_font_deinit keeps while the font is left.
HoldersAlive == fault = "none" =>
    /\ \A w \in Widgets : vtable[w] # NULL =>
         AdapterBlocks(vtable[w], config[vtable[w]]) \subseteq heap
    /\ \A f \in Fonts : fonts[f] # NULL => <<"manager", fonts[f], 0>> \in heap

\* What an earlier life left allocated is the manager of a font that was never
\* destroyed: repeated init and deinit loses nothing else.  (An adapter whose
\* configuration could not be read would be lost, but vg_deinit ends with it.)
LeaksExplained == fault = "none" =>
    \A b \in heap : b[2] # data => b[1] = "manager" /\ FontsOf(b[2]) # {}

\* A client that keeps to the order of the demo, but may call vg_font_deinit in
\* between, never reaches a freed part, and reaches NULL in two ways only: in a
\* life whose video configuration gave no contexts, by vg_uv_init, the first
\* widget, its source or vg_deinit; and by vg_font_deinit or vg_deinit when an
\* earlier vg_font_deinit took the manager and no font was made since.
FaultsExplained == fault # "none" =>
    /\ fault = "null"
    /\ data # NULL
    /\ \/ ~(config[data].ok /\ config[data].map)
       \/ font_manager = NULL
================================================================================
