-------------------------------- MODULE EmojiFont ------------------------------
(***************************************************************************)
(* Emoji fonts (src/font_manager/font_emoji.c) over the table that was read  *)
(* from the configuration file: an emoji font is an image font that asks     *)
(* get_imgfont_path for the image file of each glyph.                        *)
(*                                                                         *)
(* All emoji fonts share one static path buffer.  The answer to a caller is  *)
(* that buffer; image fonts open the file before they ask for another.       *)
(* Definitions marked "faulty" are mistakes the properties must detect.      *)
(***************************************************************************)
EXTENDS FontConfig

CONSTANTS
    Fonts,      \* addresses of emoji fonts
    AskedNames, \* the font names asked for
    Heights,    \* the font heights asked for
    Unicodes    \* the glyphs asked for

\* An entry has the members that are read, NULL where the object lacks one; texts
\* have a length, and so has the path buffer.
ASSUME TextsAssumption ==
    /\ PathMax \in Nat
    /\ \A d \in Documents : \A i \in DOMAIN d.emoji :
         LET item == d.emoji[i] IN
         /\ {"path", "ext"} \subseteq DOMAIN item
         /\ item.path # NULL => item.path.len \in Nat
         /\ item.ext # NULL => item.ext.len \in Nat

VARIABLES
    user_data,  \* [Fonts -> index in emoji_arr, or NULL]
    asked,      \* history: [Fonts -> <<name, height>>, or NULL]
    path,       \* the static buffer, NULL while it is empty
    answer      \* history: the last glyph asked for, and the path given

emojiVars == <<load, user_data, asked, path, answer>>

EmojiInit ==
    /\ LoadInit
    /\ user_data = [f \in Fonts |-> NULL]
    /\ asked = [f \in Fonts |-> NULL]
    /\ path = NULL
    /\ answer = NULL

--------------------------------------------------------------------------------
(* font_emoji_manager_create_font, font_emoji_manager_delete_font             *)

MatchesName(emoji, name, height) == emoji.font_name = name           \* faulty
Matches(emoji, name, height) ==
    /\ emoji.font_name = name
    /\ height \in emoji.min .. emoji.max

FirstMatch(name, height, i) ==
    /\ Matches(emoji_manager[i], name, height)
    /\ \A j \in 1..(i-1) : ~Matches(emoji_manager[j], name, height)

\* A font that no entry matches is not made, and nothing changes.
CreateFont(f, name, height) ==
    /\ stage = "ready"
    /\ emoji_manager # <<>>
    /\ user_data[f] = NULL
    /\ \E i \in DOMAIN emoji_manager :
         /\ FirstMatch(name, height, i)
         /\ user_data' = [user_data EXCEPT ![f] = i]
    /\ asked' = [asked EXCEPT ![f] = <<name, height>>]
    /\ UNCHANGED <<load, path, answer>>

DeleteFont(f) ==
    /\ user_data[f] # NULL
    /\ user_data' = [user_data EXCEPT ![f] = NULL]
    /\ asked' = [asked EXCEPT ![f] = NULL]
    /\ UNCHANGED <<load, path, answer>>

--------------------------------------------------------------------------------
(* get_imgfont_path, generate_path                                            *)

NumberSize == 16    \* room for the digits of the glyph and the terminator

\* The result of generate_path is not looked at: when the buffer is too small
\* the caller is given what was in it before.
GeneratePath(emoji, unicode) ==
    IF PathMax < emoji.path.len + emoji.ext.len + NumberSize
    THEN path
    ELSE [dir |-> emoji.path, number |-> unicode, ext |-> emoji.ext]

GlyphPath(f, unicode) ==
    /\ user_data[f] # NULL
    /\ LET emoji == emoji_manager[user_data[f]] IN
         \/ /\ unicode \in emoji.begin .. emoji.end
            /\ path' = GeneratePath(emoji, unicode)
            /\ answer' = [asked |-> asked[f], unicode |-> unicode, path |-> path']
         \/ /\ unicode \notin emoji.begin .. emoji.end
            /\ answer' = [asked |-> asked[f], unicode |-> unicode, path |-> NULL]
            /\ UNCHANGED path
    /\ UNCHANGED <<load, user_data, asked>>

\* font_manager_delete refuses while a font is left.
DeleteManager ==
    /\ \A f \in Fonts : user_data[f] = NULL
    /\ DeleteTables
    /\ answer' = NULL
    /\ UNCHANGED <<user_data, asked, path>>

EmojiNext ==
    \/ LoadNext /\ UNCHANGED <<user_data, asked, path, answer>>
    \/ \E f \in Fonts, name \in AskedNames, height \in Heights :
         CreateFont(f, name, height)
    \/ \E f \in Fonts : DeleteFont(f)
    \/ \E f \in Fonts, unicode \in Unicodes : GlyphPath(f, unicode)
    \/ DeleteManager

EmojiSpec == EmojiInit /\ [][EmojiNext]_emojiVars

--------------------------------------------------------------------------------
(* Properties.                                                                *)

\* What the fixed name buffer and the 16-bit sizes can hold.
Matchable(item) ==
    /\ item.font_name.len < NameMax
    /\ item.min \in 0 .. UInt16 - 1 /\ item.max \in 0 .. UInt16 - 1
\* What the path buffers can hold.
PathFits(item) ==
    /\ item.ext.len < ExtMax
    /\ item.path.len + item.ext.len + NumberSize <= PathMax

\* Read from the file itself: the entries for a font, the first one counts.
EntriesFor(name, height) ==
    {i \in DOMAIN doc.emoji : /\ doc.emoji[i].font_name = name
                             /\ height \in doc.emoji[i].min .. doc.emoji[i].max}

\* The path given for a glyph is the one the file names for the font and height
\* that were asked for, whatever other fonts share the buffer, and a glyph
\* outside the range of that entry has none.
GlyphRight ==
    answer # NULL /\ (\A i \in DOMAIN doc.emoji : Matchable(doc.emoji[i])) =>
      LET found == EntriesFor(answer.asked[1], answer.asked[2]) IN
      \E i \in found :
        LET item == doc.emoji[i] IN
        /\ \A j \in found : i <= j
        /\ PathFits(item) =>
             answer.path =
               IF answer.unicode \in item.begin .. item.end
               THEN [dir |-> item.path, number |-> answer.unicode, ext |-> item.ext]
               ELSE NULL
================================================================================
