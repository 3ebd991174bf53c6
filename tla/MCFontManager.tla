----------------------------- MODULE MCFontManager -----------------------------
(* Small instances of FontManager for TLC. *)
EXTENDS FontManager

CONSTANTS h1, h2, h3, r1, r2, r3, f1, f2, f3, f4, arial, song, emoji,
          dir1, dir2, added

Symmetry == Permutations(Handles) \cup Permutations(Nodes) \cup Permutations(Fonts)

\* No name is cut.
KeepName == [n \in Names |-> n]
Small == {"size16"}
EmojiEntry == {[name |-> emoji, attr |-> "size16"]}

\* "<base>/<name>.ttf" is a path of its own for each base and name.
DefPaths == Bases \X Names
AllPaths == DefPaths \cup {added}
DefPathOf == [b \in Bases |-> [n \in Names |-> <<b, n>>]]
================================================================================
