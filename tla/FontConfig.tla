------------------------------- MODULE FontConfig ------------------------------
(***************************************************************************)
(* Reading the font configuration file (src/font_manager/font_utils.c) when  *)
(* font_manager_create makes a font manager, and freeing what was read when  *)
(* font_manager_delete deletes it.                                          *)
(*                                                                         *)
(* One load is a row of steps, one per allocation or item of a JSON array,   *)
(* each of which may fail.  `heap' has the blocks the load allocated.        *)
(* LV_ASSERT_MALLOC is compiled out, as the code behind it expects.          *)
(* Definitions marked "faulty" are mistakes the properties must detect.      *)
(***************************************************************************)
EXTENDS Integers, Sequences

CONSTANTS
    Documents,  \* the JSON texts: [emoji : Seq(items), family : Seq(items)],
                \* where an array that is not there is empty
    NameMax,    \* UIKIT_FONT_NAME_MAX
    ExtMax,     \* UIKIT_FONT_EXT_MAX
    PathMax,    \* PATH_MAX
    NULL        \* also the value of a member that a JSON object lacks

\* Their arrays are sequences.
ASSUME DocumentsAssumption == \A d \in Documents :
    /\ d.emoji \in Seq({d.emoji[i] : i \in DOMAIN d.emoji})
    /\ d.family \in Seq({d.family[i] : i \in DOMAIN d.family})

UInt16 == 65536

VARIABLES
    stage,          \* where the load stands
    doc,            \* the text of the file
    heap,           \* the blocks allocated: <<kind, index>>
    emoji_manager,  \* the emoji table of the manager, <<>> for none
    family_config,  \* the families of the manager, <<>> for none
    read,           \* the entries of the current array read so far
    failed          \* history: reading or an allocation failed in this load

load == <<stage, doc, heap, emoji_manager, family_config, read, failed>>

JsonBlocks   == {"json_buf", "cjson", "json_obj"} \X {0}
EmojiBlocks  == {"emoji_config", "emoji_arr", "emoji_manager"} \X {0}
Manager      == <<"manager", 0>>
\* font_utils_json_font_family_free: the zeroed array says which are there.
FamilyBlocksFlat ==                                                  \* faulty
    {"family_config", "family_arr"} \X {0}
FamilyBlocks ==
    {"family_config", "family_arr"} \X {0}
        \cup {"fallback_arr"} \X DOMAIN doc.family

LoadInit ==
    /\ stage = "none"
    /\ doc = NULL
    /\ heap = {}
    /\ emoji_manager = <<>>
    /\ family_config = <<>>
    /\ read = <<>>
    /\ failed = FALSE

--------------------------------------------------------------------------------
(* font_manager_create, font_utils_json_obj_create                            *)

BeginLoad(d) ==
    /\ stage = "none"
    /\ stage' = "file"
    /\ doc' = d
    /\ heap' = {Manager}
    /\ failed' = FALSE
    /\ UNCHANGED <<emoji_manager, family_config, read>>

JsonStep(from, block, to) ==
    /\ stage = from
    /\ stage' = to
    /\ heap' = heap \cup {<<block, 0>>}
    /\ UNCHANGED <<doc, emoji_manager, family_config, read, failed>>
ReadFile   == JsonStep("file", "json_buf", "text")
ParseText  == JsonStep("text", "cjson", "tree")
NewJsonObj == JsonStep("tree", "json_obj", "emoji")

\* No file, a short read, no JSON, no memory: the manager has neither table.
JsonFails ==
    /\ stage \in {"file", "text", "tree"}
    /\ stage' = "ready"
    /\ heap' = heap \ JsonBlocks
    /\ failed' = TRUE
    /\ UNCHANGED <<doc, emoji_manager, family_config, read>>

--------------------------------------------------------------------------------
(* What is kept of a value of the file.                                       *)

\* strncpy into a buffer of max characters, then the last one is zeroed.
Cut(s, max) == IF s.len < max THEN s ELSE [s EXCEPT !.len = max - 1]

Complete(item) == \A m \in DOMAIN item : item[m] # NULL

EmojiEntry(item) ==
    [font_name |-> Cut(item.font_name, NameMax),
     path  |-> Cut(item.path, PathMax),
     ext   |-> Cut(item.ext, ExtMax),
     min   |-> item.min % UInt16,
     max   |-> item.max % UInt16,
     begin |-> item.begin,
     end   |-> item.end]

FamilyEntry(item) ==
    [font_name |-> Cut(item.font_name, NameMax),
     fallback  |-> [i \in DOMAIN item.fallback |-> Cut(item.fallback[i], NameMax)]]

--------------------------------------------------------------------------------
(* font_emoji_manager_create, font_utils_json_get_emoji_config                *)

NewEmojiTable ==
    /\ stage = "emoji"
    /\ doc.emoji # <<>>
    /\ stage' = "emoji_items"
    /\ heap' = heap \cup {<<"emoji_config", 0>>, <<"emoji_arr", 0>>}
    /\ UNCHANGED <<doc, emoji_manager, family_config, read, failed>>

NextEmoji == doc.emoji[Len(read) + 1]
EmojiLeft == stage = "emoji_items" /\ Len(read) < Len(doc.emoji)
EmojiDoneEarly ==                                                    \* faulty
    /\ stage = "emoji_items"
    /\ EmojiLeft => ~Complete(NextEmoji)
EmojiDone == stage = "emoji_items" /\ Len(read) = Len(doc.emoji)

ReadEmoji ==
    /\ EmojiLeft
    /\ Complete(NextEmoji)
    /\ read' = Append(read, EmojiEntry(NextEmoji))
    /\ UNCHANGED <<stage, doc, heap, emoji_manager, family_config, failed>>

NewEmojiManager ==
    /\ EmojiDone
    /\ heap' = heap \cup {<<"emoji_manager", 0>>}
    /\ emoji_manager' = read
    /\ read' = <<>>
    /\ stage' = "family"
    /\ UNCHANGED <<doc, family_config, failed>>

\* An empty list, an entry that lacks a member, or no memory: no emoji fonts.
EmojiFails ==
    /\ \/ stage = "emoji" /\ failed' = (failed \/ doc.emoji # <<>>)
       \/ EmojiLeft /\ ~Complete(NextEmoji) /\ UNCHANGED failed
       \/ EmojiDone /\ failed' = TRUE
    /\ heap' = heap \ EmojiBlocks
    /\ read' = <<>>
    /\ stage' = "family"
    /\ UNCHANGED <<doc, emoji_manager, family_config>>

--------------------------------------------------------------------------------
(* font_utils_json_get_font_family_config, font_utils_json_obj_delete         *)

NewFamilyTable ==
    /\ stage = "family"
    /\ doc.family # <<>>
    /\ stage' = "family_items"
    /\ heap' = heap \cup {<<"family_config", 0>>, <<"family_arr", 0>>}
    /\ UNCHANGED <<doc, emoji_manager, family_config, read, failed>>

FamilyLeft == stage = "family_items" /\ Len(read) < Len(doc.family)
FamilyDone == stage = "family_items" /\ Len(read) = Len(doc.family)
NextFamily == doc.family[Len(read) + 1]
HasFallbacks(item) == Complete(item) /\ item.fallback # <<>>

ReadFamily ==
    /\ FamilyLeft
    /\ HasFallbacks(NextFamily)
    /\ heap' = heap \cup {<<"fallback_arr", Len(read) + 1>>}
    /\ read' = Append(read, FamilyEntry(NextFamily))
    /\ UNCHANGED <<stage, doc, emoji_manager, family_config, failed>>

GiveFamilies ==
    /\ FamilyDone
    /\ family_config' = read
    /\ read' = <<>>
    /\ heap' = heap \ JsonBlocks
    /\ stage' = "ready"
    /\ UNCHANGED <<doc, emoji_manager, failed>>

\* One family without name or fallbacks, or no memory: there are no families.
FamilyFails ==
    /\ \/ stage = "family" /\ failed' = (failed \/ doc.family # <<>>)
       \/ FamilyLeft /\ ~HasFallbacks(NextFamily) /\ UNCHANGED failed
       \/ FamilyLeft /\ HasFallbacks(NextFamily) /\ failed' = TRUE
    /\ heap' = heap \ (FamilyBlocks \cup JsonBlocks)
    /\ read' = <<>>
    /\ stage' = "ready"
    /\ UNCHANGED <<doc, emoji_manager, family_config>>

--------------------------------------------------------------------------------
(* font_manager_delete                                                        *)

DeleteTables ==
    /\ stage = "ready"
    /\ stage' = "none"
    /\ heap' = heap \ (  {Manager}
                       \cup (IF family_config # <<>> THEN FamilyBlocks ELSE {})
                       \cup (IF emoji_manager # <<>> THEN EmojiBlocks ELSE {}))
    /\ doc' = NULL
    /\ emoji_manager' = <<>>
    /\ family_config' = <<>>
    /\ UNCHANGED <<read, failed>>

LoadNext ==
    \/ \E d \in Documents : BeginLoad(d)
    \/ ReadFile \/ ParseText \/ NewJsonObj \/ JsonFails
    \/ NewEmojiTable \/ ReadEmoji \/ NewEmojiManager \/ EmojiFails
    \/ NewFamilyTable \/ ReadFamily \/ GiveFamilies \/ FamilyFails

LoadSpec == LoadInit /\ [][LoadNext \/ DeleteTables]_load

--------------------------------------------------------------------------------
(* Properties.                                                                *)

\* Wherever a load fails, what stays allocated is what the manager can reach
\* and will free, and after the deletion of the manager nothing is left.
Reachable ==
    {Manager}
      \cup (IF emoji_manager # <<>> THEN EmojiBlocks ELSE {})
      \cup (IF family_config # <<>> THEN FamilyBlocks ELSE {})
NoLeak ==
    /\ stage = "ready" => heap = Reachable
    /\ stage = "none" => heap = {}

\* A table is there whole or not at all: every entry, in the order of the file,
\* when all are complete and nothing failed, and else none of them.
WholeTable(table, items, Ok(_), Entry(_)) ==
    LET whole == \A i \in DOMAIN items : Ok(items[i]) IN
    /\ table # <<>> =>
         whole /\ table = [i \in DOMAIN items |-> Entry(items[i])]
    /\ ~failed /\ whole => Len(table) = Len(items)
AllOrNothing == stage = "ready" =>
    /\ WholeTable(emoji_manager, doc.emoji, Complete, EmojiEntry)
    /\ WholeTable(family_config, doc.family, HasFallbacks, FamilyEntry)
================================================================================
