------------------------------- MODULE MCEmojiFont -----------------------------
(* A small instance of EmojiFont for TLC: five configuration files. *)
EXTENDS EmojiFont, TLC

CONSTANTS f1, f2

Symmetry == Permutations(Fonts)

Text(text, len) == [text |-> text, len |-> len]
Local  == Text("Emoji_Local", 3)
WeChat == Text("Emoji_WeChat", 3)
Png == Text(".png", 4)
Bin == Text(".bin", 4)
Latin == Text("MiSansW", 3)

Entry(name, dir, ext, min, max, begin, end) ==
    [font_name |-> name, path |-> dir, ext |-> ext,
     min |-> min, max |-> max, begin |-> begin, end |-> end]
Emoji24 == Entry(WeChat, Text("emoji24/", 4), Png, 24, 29, 1, 1)
Emoji30 == Entry(WeChat, Text("emoji30/", 4), Bin, 29, 39, 1, 2)
Smiley  == Entry(Local, Text("emoji/", 2), Bin, 24, 39, 2, 2)
\* Its path fills the buffer before the number is written.
LongDir == Entry(Local, Text("deep/", 9), Png, 24, 39, 1, 2)
\* A maximum that does not fit in 16 bits.
Huge    == Entry(Local, Text("emoji/", 2), Png, 24, UInt16 + 1, 1, 2)
NoRange == Entry(WeChat, Text("emoji24/", 4), Png, 24, 29, 1, NULL)
\* A name that is cut in the table and asked for in full.
LongName == Entry(Text("Emoji_Local", 9), Text("emoji/", 2), Png, 24, 39, 1, 2)

Family(name, fallback) == [font_name |-> name, fallback |-> fallback]
Families == <<Family(Latin, <<Local, WeChat>>), Family(Local, <<WeChat>>)>>

Files == {
    [emoji |-> <<Emoji24, Emoji30, Smiley>>, family |-> Families],
    [emoji |-> <<LongDir, Emoji30>>, family |-> <<>>],
    [emoji |-> <<LongName, Huge, Emoji24>>, family |-> Families],
    [emoji |-> <<Smiley, NoRange>>,
     family |-> <<Family(Latin, <<Local>>), Family(WeChat, <<>>)>>],
    [emoji |-> <<>>, family |-> <<Family(Latin, <<Local>>), Family(NULL, <<Local>>)>>]}

Names == {Local, WeChat}
================================================================================
