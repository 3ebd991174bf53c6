------------------------------ MODULE MCUikitFont ------------------------------
(* Small instances of UikitFont for TLC. *)
EXTENDS UikitFont

CONSTANTS h1, h2, h3, h4, h5, r1, r2, r3, f1, f2, f3, f4, arial, song, emoji, dir1

Symmetry == Permutations(Handles) \cup Permutations(Nodes) \cup Permutations(Fonts)

KeepName == [n \in Names |-> n]
OneSize == {"size16"}
EmojiEntry == {[name |-> emoji, attr |-> "size16"]}
DefPaths == Bases \X Names
DefPathOf == [b \in Bases |-> [n \in Names |-> <<b, n>>]]

\* arial falls back on two fonts, one of them an emoji font; song on arial.
Families == [n \in Names |-> CASE n = arial -> <<song, emoji>>
                               [] n = song  -> <<arial>>
                               [] OTHER     -> <<>>]
================================================================================
