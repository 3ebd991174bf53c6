------------------------------- MODULE UikitFont -------------------------------
(***************************************************************************)
(* The public font interface (src/uikit_font_manager.c) on top of the font  *)
(* manager, with the font families of font_manager.c.                       *)
(*                                                                         *)
(* vg_font_create makes a main font and then one font per fallback of its   *)
(* family, linked through lv_font_t.fallback; each of those calls into the  *)
(* manager may fail on its own.  vg_font_destroy walks the links.  A call   *)
(* runs to its end before the next one starts: `call' is its progress.      *)
(* Definitions marked "faulty" are mistakes the properties must detect.     *)
(***************************************************************************)
EXTENDS FontManager

CONSTANTS
    LibBase,    \* UIKIT_FONT_LIB_PATH "/font"
    Family      \* [Names -> Seq(Names)]: the fallbacks of a name, <<>> if none

ASSUME LibAssumption == LibBase \in Bases
ASSUME FamilyAssumption == Family \in [Names -> Seq(Names)]
ASSUME HandleAssumption == NULL \notin Handles

VARIABLES
    fallback,           \* [Handles -> Handles or NULL]: font->fallback
    font_family_config, \* did the config file give the families
    call,               \* the public call in progress
    given               \* the fonts the application got and has to destroy

uikit == <<fallback, font_family_config, call, given>>
allVars == <<vars, uikit>>

Idle == [op |-> "idle"]
\* main: the font asked for; first, last: ends of the family made so far.
Creating(info, todo, main, first, last) ==
    [op |-> "create", info |-> info, todo |-> todo,
     main |-> main, first |-> first, last |-> last]
\* at: the next font of the family to delete.
Destroying(main, at) == [op |-> "destroy", main |-> main, at |-> at]

MaybeHandle == Handles \cup {NULL}
UikitTypeOK ==
    /\ TypeOK
    /\ fallback \in [Handles -> MaybeHandle]
    /\ font_family_config \in BOOLEAN
    /\ given \subseteq Handles
    /\ \/ call = Idle
       \/ /\ call.op = "create"
          /\ call.info \in Infos /\ call.todo \in Seq(Names)
          /\ {call.main, call.first, call.last} \subseteq MaybeHandle
       \/ /\ call.op = "destroy"
          /\ call.main \in Handles /\ call.at \in MaybeHandle

UikitInit ==
    /\ Init
    /\ fallback = [h \in Handles |-> NULL]
    /\ font_family_config = FALSE
    /\ call = Idle
    /\ given = {}

--------------------------------------------------------------------------------
(* vg_font_init, and vg_font_deinit, which keeps a manager with fonts left.   *)

VgFontInit ==
    IF manager
    THEN UNCHANGED <<vars, font_family_config>>
    ELSE /\ \E hasEmoji \in BOOLEAN : CreateManager(LibBase, hasEmoji)
         /\ font_family_config' \in BOOLEAN

Init_(next) ==
    /\ call = Idle
    /\ VgFontInit
    /\ call' = next
    /\ UNCHANGED <<fallback, given>>

Startup == ~manager /\ Init_(Idle)

VgFontDeinit ==
    /\ call = Idle
    /\ manager
    /\ IF HasResource THEN UNCHANGED vars ELSE DeleteManager
    /\ UNCHANGED uikit

--------------------------------------------------------------------------------
(* vg_font_create                                                             *)

\* Bound of the model: enough record addresses for the whole family.
Room(info) == Cardinality(Handles \ InUse) > Len(Family[info.name])

FamilyOf(info) == IF font_family_config' THEN Family[info.name] ELSE <<>>
BeginCreate(info) ==
    /\ Room(info)
    /\ Init_(Creating(info, FamilyOf(info), NULL, NULL, NULL))

\* The main font: without it the call ends and gives nothing (or the built-in
\* default font, which is not the manager's).
CreateMain ==
    /\ call.op = "create" /\ call.main = NULL
    /\ \/ \E h \in Handles :
            /\ CreateFont(h, call.info)
            /\ fallback' = [fallback EXCEPT ![h] = NULL]
            /\ call' = [call EXCEPT !.main = h]
       \/ /\ CreateFails(call.info)
          /\ call' = Idle
          /\ UNCHANGED fallback
    /\ UNCHANGED <<font_family_config, given>>

\* font_manager_create_font_family, one fallback: a failure is skipped.
LinkFirstOnly(last, h) ==                                            \* faulty
    fallback' = [fallback EXCEPT ![h] = NULL]
LinkBack(last, h) ==                                                 \* faulty
    fallback' = [g \in Handles |->
                   IF g = h THEN last ELSE IF g = last THEN h ELSE fallback[g]]
Link(last, h) ==
    fallback' = [g \in Handles |->
                   IF g = h THEN NULL ELSE IF g = last THEN h ELSE fallback[g]]
CreateFallback ==
    /\ call.op = "create" /\ call.main # NULL /\ call.todo # <<>>
    /\ LET info == [call.info EXCEPT !.name = Head(call.todo)] IN
       \/ \E h \in Handles :
            /\ CreateFont(h, info)
            /\ Link(call.last, h)
            /\ call' = [call EXCEPT !.todo = Tail(@), !.last = h,
                          !.first = IF @ = NULL THEN h ELSE @]
       \/ /\ CreateFails(info)
          /\ call' = [call EXCEPT !.todo = Tail(@)]
          /\ UNCHANGED fallback
    /\ UNCHANGED <<font_family_config, given>>

EndCreate ==
    /\ call.op = "create" /\ call.main # NULL /\ call.todo = <<>>
    /\ fallback' = [fallback EXCEPT ![call.main] = call.first]
    /\ given' = given \cup {call.main}
    /\ call' = Idle
    /\ UNCHANGED <<vars, font_family_config>>

--------------------------------------------------------------------------------
(* vg_font_destroy: the family first, then the main font.                     *)

BeginDestroy(h) ==
    /\ call = Idle
    /\ h \in given
    /\ given' = given \ {h}
    /\ call' = Destroying(h, fallback[h])
    /\ UNCHANGED <<vars, fallback, font_family_config>>

\* font_manager_delete_font_family reads the link before it frees the font.
DestroyFallback ==
    /\ call.op = "destroy" /\ call.at # NULL
    /\ DeleteFont(call.at)
    /\ fallback' = [fallback EXCEPT ![call.at] = NULL]
    /\ call' = [call EXCEPT !.at = fallback[call.at]]
    /\ UNCHANGED <<font_family_config, given>>

DestroyMain ==
    /\ call.op = "destroy" /\ call.at = NULL
    /\ DeleteFont(call.main)
    /\ fallback' = [fallback EXCEPT ![call.main] = NULL]
    /\ call' = Idle
    /\ UNCHANGED <<font_family_config, given>>

CallStep ==
    \/ CreateMain
    \/ CreateFallback
    \/ EndCreate
    \/ DestroyFallback
    \/ DestroyMain

UikitNext ==
    \/ Startup
    \/ VgFontDeinit
    \/ \E info \in Infos : BeginCreate(info)
    \/ \E h \in Handles : BeginDestroy(h)
    \/ CallStep

UikitSpec == UikitInit /\ [][UikitNext]_allVars

--------------------------------------------------------------------------------
(* Properties.                                                                *)

Before(h) == {g \in InUse : fallback[g] = h}
\* Between calls every record is a font the application holds or the fallback
\* of exactly one record; a held font is no one's fallback.  So no failure in
\* the middle of a family leaves a record that no destroy will reach, and no
\* two fonts share a fallback record that the first destroy would free.
NoOrphans ==
    call = Idle =>
        /\ given \subseteq InUse
        /\ \A h \in InUse : fallback[h] \in InUse \cup {NULL}
        /\ \A h \in InUse :
             Cardinality(Before(h)) = IF h \in given THEN 0 ELSE 1

\* An application that destroyed all its fonts can shut the manager down: no
\* record or node is left that would make vg_font_deinit refuse.
ShutdownPossible == call = Idle /\ given = {} => ~HasResource

\* The walk of vg_font_destroy only deletes records that exist.
DestroyWalksLiveFonts ==
    call.op = "destroy" =>
        call.main \in InUse /\ (call.at # NULL => call.at \in InUse)
================================================================================
