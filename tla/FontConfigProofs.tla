---------------------------- MODULE FontConfigProofs ---------------------------
(***************************************************************************)
(* Proofs about the reading of the font configuration file: for any files    *)
(* nothing is lost and every table is there whole or not at all, wherever a  *)
(* load fails.                                                              *)
(***************************************************************************)
EXTENDS EmojiFont, TLAPS

--------------------------------------------------------------------------------
(* The blocks.                                                                *)

TableBlocks == {"family_config", "family_arr"} \X {0}
Fallbacks(n) == {"fallback_arr"} \X (1..n)

EmojiKept == IF emoji_manager # <<>> THEN EmojiBlocks ELSE {}

\* What the load has allocated where it stands.
HeapAt ==
    CASE stage = "none" -> {}
      [] stage = "file" -> {Manager}
      [] stage = "text" -> {Manager, <<"json_buf", 0>>}
      [] stage = "tree" -> {Manager, <<"json_buf", 0>>, <<"cjson", 0>>}
      [] stage = "emoji" -> {Manager} \cup JsonBlocks
      [] stage = "emoji_items" -> {Manager} \cup JsonBlocks
            \cup {<<"emoji_config", 0>>, <<"emoji_arr", 0>>}
      [] stage = "family" -> {Manager} \cup JsonBlocks \cup EmojiKept
      [] stage = "family_items" -> {Manager} \cup JsonBlocks \cup EmojiKept
            \cup TableBlocks \cup Fallbacks(Len(read))
      [] OTHER -> Reachable

Stages == {"none", "file", "text", "tree", "emoji", "emoji_items", "family",
           "family_items", "ready"}

--------------------------------------------------------------------------------
(* The entries.                                                               *)

EmojiAll  == [i \in 1..Len(doc.emoji) |-> EmojiEntry(doc.emoji[i])]
FamilyAll == [i \in 1..Len(doc.family) |-> FamilyEntry(doc.family[i])]
FirstOf(all, n) == [i \in 1..n |-> all[i]]

EmojiWhole  == \A i \in DOMAIN doc.emoji : Complete(doc.emoji[i])
FamilyWhole == \A i \in DOMAIN doc.family : HasFallbacks(doc.family[i])

\* What was read so far is the beginning of the array.
ReadSoFar ==
    /\ stage \notin {"emoji_items", "family_items"} => read = <<>>
    /\ stage = "emoji_items" =>
         /\ doc.emoji # <<>>
         /\ Len(read) \in 0 .. Len(doc.emoji)
         /\ read = FirstOf(EmojiAll, Len(read))
         /\ \A i \in 1 .. Len(read) : Complete(doc.emoji[i])
    /\ stage = "family_items" =>
         /\ doc.family # <<>>
         /\ Len(read) \in 0 .. Len(doc.family)
         /\ read = FirstOf(FamilyAll, Len(read))
         /\ \A i \in 1 .. Len(read) : HasFallbacks(doc.family[i])

EmojiRight ==
    /\ emoji_manager # <<>> =>
         EmojiWhole /\ emoji_manager = EmojiAll
    /\ ~failed /\ EmojiWhole => Len(emoji_manager) = Len(doc.emoji)
FamilyRight ==
    /\ family_config # <<>> =>
         FamilyWhole /\ family_config = FamilyAll
    /\ ~failed /\ FamilyWhole => Len(family_config) = Len(doc.family)

Tables ==
    /\ stage # "none" => doc \in Documents
    /\ stage \in {"none", "file", "text", "tree", "emoji", "emoji_items"} =>
         emoji_manager = <<>>
    /\ stage \in {"family", "family_items", "ready"} => EmojiRight
    /\ stage # "ready" => family_config = <<>>
    /\ stage = "ready" => FamilyRight

IInv ==
    /\ stage \in Stages
    /\ heap = HeapAt
    /\ ReadSoFar
    /\ Tables

--------------------------------------------------------------------------------
(* Sequences.                                                                 *)

\* The first n entries of a table, and one more.
LEMMA TableGrows ==
    ASSUME NEW f, NEW n \in Nat, NEW s, s = [i \in 1..n |-> f[i]]
    PROVE  /\ Len(s) = n
           /\ Append(s, f[n + 1]) = [i \in 1..(n + 1) |-> f[i]]
           /\ n > 0 => s # <<>>
<1> DEFINE S == {f[i] : i \in 1..(n + 1)}
           t == Append(s, f[n + 1])
<1>1. f[n + 1] \in S
  <2>1. n + 1 \in 1..(n + 1)
    OBVIOUS
  <2>2. QED
    BY <2>1
<1>2. s \in Seq(S) /\ Len(s) = n
  <2>1. \A i \in 1..n : f[i] \in S
    OBVIOUS
  <2>2. s \in [1..n -> S]
    BY <2>1
  <2>3. QED
    BY <2>2
<1> HIDE DEF S
<1>3. t \in Seq(S) /\ Len(t) = n + 1
  BY <1>1, <1>2
<1>4. ASSUME NEW i \in 1..(n + 1) PROVE t[i] = f[i]
  BY <1>1, <1>2
<1>5. t = [i \in 1..(n + 1) |-> f[i]]
  <2>1. DOMAIN t = 1..(n + 1) /\ t = [i \in DOMAIN t |-> t[i]]
    BY <1>3
  <2>2. QED
    BY <2>1, <1>4
<1>6. n > 0 => s # <<>>
  BY <1>2
<1>7. QED
  BY <1>2, <1>5, <1>6

\* The arrays of a file.
LEMMA Arrays ==
    ASSUME doc \in Documents
    PROVE  /\ Len(doc.emoji) \in Nat /\ DOMAIN doc.emoji = 1..Len(doc.emoji)
           /\ doc.emoji = <<>> <=> Len(doc.emoji) = 0
           /\ Len(doc.family) \in Nat /\ DOMAIN doc.family = 1..Len(doc.family)
           /\ doc.family = <<>> <=> Len(doc.family) = 0
<1>1. ASSUME NEW S, NEW s \in Seq(S)
      PROVE  Len(s) \in Nat /\ DOMAIN s = 1..Len(s) /\ (s = <<>> <=> Len(s) = 0)
  OBVIOUS
<1>2. QED
  BY <1>1, DocumentsAssumption

--------------------------------------------------------------------------------
(* The steps.  First font_manager_create and font_utils_json_obj_create.      *)

\* Nothing is allocated and nothing read when a load has not begun.
LEMMA InitStep == LoadInit => IInv
  BY DEF LoadInit, IInv, Stages, HeapAt, ReadSoFar, Tables

\* Opening a file: the manager is new, so are its tables.
LEMMA BeginStep ==
    ASSUME IInv, NEW d \in Documents, BeginLoad(d)
    PROVE  IInv'
<1>1. stage' \in Stages /\ heap' = HeapAt'
  BY DEF BeginLoad, Stages, HeapAt
<1>2. ReadSoFar' /\ Tables'
  BY DEF IInv, BeginLoad, ReadSoFar, Tables
<1>3. QED
  BY <1>1, <1>2 DEF IInv

\* The text is read and parsed, and freed once it is parsed.
LEMMA JsonSteps ==
    ASSUME IInv, ReadFile \/ ParseText \/ NewJsonObj
    PROVE  IInv'
<1> USE DEF JsonStep
<1>1. stage' \in Stages
  BY DEF ReadFile, ParseText, NewJsonObj, Stages
<1>2. CASE ReadFile
  BY <1>1, <1>2 DEF ReadFile, IInv, HeapAt, ReadSoFar, Tables
<1>3. CASE ParseText
  BY <1>1, <1>3 DEF ParseText, IInv, HeapAt, ReadSoFar, Tables
<1>4. CASE NewJsonObj
  BY <1>1, <1>4 DEF NewJsonObj, IInv, HeapAt, ReadSoFar, Tables, JsonBlocks
<1>5. QED
  BY <1>2, <1>3, <1>4

\* Whatever fails before the parsed file is there frees what was allocated.
LEMMA JsonFailsStep ==
    ASSUME IInv, JsonFails
    PROVE  IInv'
<1>1. stage' \in Stages
  BY DEF JsonFails, Stages
<1>2. emoji_manager' = <<>> /\ family_config' = <<>> /\ failed'
  BY DEF IInv, JsonFails, Tables
<1>3. heap' = HeapAt'
  <2>1. heap' = {Manager}
    BY DEF IInv, JsonFails, HeapAt, JsonBlocks, Manager
  <2>2. QED
    BY <2>1, <1>2 DEF JsonFails, HeapAt, Reachable
<1>4. ReadSoFar' /\ Tables'
  BY <1>2 DEF IInv, JsonFails, ReadSoFar, Tables, EmojiRight, FamilyRight
<1>5. QED
  BY <1>1, <1>3, <1>4 DEF IInv

--------------------------------------------------------------------------------
(* The emoji table.                                                           *)

\* The array of emoji entries is found and its table allocated.
LEMMA NewEmojiTableStep ==
    ASSUME IInv, NewEmojiTable
    PROVE  IInv'
<1>1. stage' \in Stages
  BY DEF NewEmojiTable, Stages
<1>2. heap' = HeapAt'
  BY DEF IInv, NewEmojiTable, HeapAt, JsonBlocks
<1>3. ReadSoFar'
  <2>1. doc \in Documents /\ read = <<>> /\ Len(read) = 0
    BY DEF IInv, NewEmojiTable, ReadSoFar, Tables
  <2>2. read = FirstOf(EmojiAll, 0)
    BY <2>1 DEF FirstOf
  <2>3. QED
    BY <2>1, <2>2, Arrays DEF NewEmojiTable, ReadSoFar, FirstOf, EmojiAll
<1>4. Tables'
  BY DEF IInv, NewEmojiTable, Tables
<1>5. QED
  BY <1>1, <1>2, <1>3, <1>4 DEF IInv

\* One more entry: what is read stays the beginning of the array.
LEMMA ReadEmojiStep ==
    ASSUME IInv, ReadEmoji
    PROVE  IInv'
<1> DEFINE n == Len(read)
<1>1. /\ stage = "emoji_items" /\ stage' = stage /\ doc' = doc
      /\ doc \in Documents /\ doc.emoji # <<>>
      /\ n \in 0..Len(doc.emoji) /\ n < Len(doc.emoji)
      /\ read = FirstOf(EmojiAll, n)
      /\ read' = Append(read, EmojiEntry(doc.emoji[n + 1]))
      /\ Complete(doc.emoji[n + 1])
  BY DEF IInv, ReadEmoji, EmojiLeft, NextEmoji, ReadSoFar, Tables
<1>2. EmojiEntry(doc.emoji[n + 1]) = EmojiAll[n + 1]
  BY <1>1, Arrays DEF EmojiAll
<1>3. read' = FirstOf(EmojiAll, n + 1) /\ Len(read') = n + 1
  BY <1>1, <1>2, TableGrows DEF FirstOf
<1>4. ReadSoFar'
  <2>1. \A i \in 1..(n + 1) : Complete(doc.emoji[i])
    BY <1>1 DEF IInv, ReadSoFar
  <2>2. QED
    BY <1>1, <1>3, <2>1, Arrays DEF ReadSoFar, EmojiAll, FirstOf
<1>5. stage' \in Stages /\ heap' = HeapAt' /\ Tables'
  BY <1>1 DEF IInv, ReadEmoji, HeapAt, JsonBlocks, Tables, Stages
<1>6. QED
  BY <1>4, <1>5 DEF IInv

\* After the last entry the manager takes the table.
LEMMA NewEmojiManagerStep ==
    ASSUME IInv, NewEmojiManager
    PROVE  IInv'
<1>1. /\ stage = "emoji_items" /\ stage' = "family" /\ doc' = doc /\ read' = <<>>
      /\ emoji_manager' = read /\ failed' = failed
      /\ family_config' = family_config /\ family_config = <<>>
      /\ doc \in Documents /\ doc.emoji # <<>>
      /\ Len(read) = Len(doc.emoji) /\ read = FirstOf(EmojiAll, Len(read))
      /\ \A i \in 1..Len(read) : Complete(doc.emoji[i])
  BY DEF IInv, NewEmojiManager, EmojiDone, ReadSoFar, Tables
<1>2. /\ Len(doc.emoji) \in Nat \ {0} /\ DOMAIN doc.emoji = 1..Len(doc.emoji)
  BY <1>1, Arrays
<1>3. emoji_manager' # <<>>
  BY <1>1, <1>2
<1>4. emoji_manager' = EmojiAll'
  BY <1>1, <1>2 DEF FirstOf, EmojiAll
<1>5. heap' = HeapAt'
  <2>1. heap' = {Manager} \cup JsonBlocks \cup EmojiBlocks
    BY <1>1 DEF IInv, NewEmojiManager, HeapAt, EmojiBlocks
  <2>2. QED
    BY <1>1, <1>3, <2>1 DEF HeapAt, EmojiKept
<1>6. ReadSoFar'
  BY <1>1 DEF ReadSoFar
<1>7. Tables'
  BY <1>1, <1>2, <1>4 DEF Tables, EmojiRight, EmojiWhole
<1>8. QED
  BY <1>1, <1>5, <1>6, <1>7 DEF IInv, Stages

\* A failure among the emoji entries frees the table and no more.
LEMMA EmojiFailsStep ==
    ASSUME IInv, EmojiFails
    PROVE  IInv'
<1>1. /\ stage \in {"emoji", "emoji_items"} /\ stage' = "family" /\ doc' = doc
      /\ read' = <<>> /\ emoji_manager' = <<>> /\ family_config' = <<>>
      /\ doc \in Documents
  BY DEF IInv, EmojiFails, EmojiLeft, EmojiDone, Tables
<1>2. heap' = HeapAt'
  <2>1. heap' = {Manager} \cup JsonBlocks
    BY <1>1 DEF IInv, EmojiFails, HeapAt, Manager, JsonBlocks, EmojiBlocks
  <2>2. QED
    BY <1>1, <2>1 DEF HeapAt, EmojiKept
<1>3. EmojiRight'
  <2>1. CASE failed'
    BY <1>1, <2>1 DEF EmojiRight
  <2>2. CASE stage = "emoji" /\ ~failed'
    <3>1. doc.emoji = <<>>
      BY <2>2, <1>1 DEF EmojiFails, EmojiLeft, EmojiDone
    <3>2. QED
      BY <3>1, <1>1, Arrays DEF EmojiRight
  <2>3. CASE stage = "emoji_items" /\ ~failed'
    <3>1. ~Complete(doc.emoji[Len(read) + 1]) /\ Len(read) < Len(doc.emoji)
      BY <2>3 DEF EmojiFails, EmojiLeft, NextEmoji
    <3>2. Len(read) + 1 \in DOMAIN doc.emoji
      BY <2>3, <3>1, <1>1, Arrays DEF IInv, ReadSoFar
    <3>3. ~EmojiWhole'
      BY <3>1, <3>2, <1>1 DEF EmojiWhole
    <3>4. QED
      BY <1>1, <3>3 DEF EmojiRight
  <2>4. QED
    BY <1>1, <2>1, <2>2, <2>3
<1>4. ReadSoFar' /\ Tables'
  BY <1>1, <1>3 DEF ReadSoFar, Tables
<1>5. QED
  BY <1>1, <1>2, <1>4 DEF IInv, Stages

--------------------------------------------------------------------------------
(* The families.                                                              *)

\* What is known of the emoji table stays true while the families are read.
LEMMA EmojiTableKept ==
    ASSUME EmojiRight, UNCHANGED <<doc, emoji_manager>>, failed => failed'
    PROVE  EmojiRight'
  BY DEF EmojiRight, EmojiWhole, EmojiAll

\* The array of families is found and its table allocated.
LEMMA NewFamilyTableStep ==
    ASSUME IInv, NewFamilyTable
    PROVE  IInv'
<1>1. /\ stage = "family" /\ stage' = "family_items" /\ doc.family # <<>>
      /\ UNCHANGED <<doc, emoji_manager, family_config, read, failed>>
      /\ read = <<>> /\ doc \in Documents /\ family_config = <<>> /\ EmojiRight
  BY DEF IInv, NewFamilyTable, ReadSoFar, Tables
<1>2. heap' = HeapAt'
  <2>1. heap' = {Manager} \cup JsonBlocks \cup EmojiKept \cup TableBlocks
    BY <1>1 DEF IInv, NewFamilyTable, HeapAt, TableBlocks
  <2>2. Fallbacks(Len(read')) = {}
    BY <1>1 DEF Fallbacks
  <2>3. QED
    BY <1>1, <2>1, <2>2 DEF HeapAt, EmojiKept
<1>3. ReadSoFar'
  <2>1. read' = FirstOf(FamilyAll, 0)' /\ Len(read') = 0
    BY <1>1 DEF FirstOf
  <2>2. QED
    BY <1>1, <2>1, Arrays DEF ReadSoFar, FirstOf, FamilyAll
<1>4. Tables'
  BY <1>1, EmojiTableKept DEF Tables
<1>5. QED
  BY <1>1, <1>2, <1>3, <1>4 DEF IInv, Stages

\* One more family brings the blocks of one more family.
LEMMA ReadFamilyStep ==
    ASSUME IInv, ReadFamily
    PROVE  IInv'
<1> DEFINE n == Len(read)
<1>1. /\ stage = "family_items" /\ stage' = stage
      /\ UNCHANGED <<doc, emoji_manager, family_config, failed>>
      /\ doc \in Documents /\ doc.family # <<>>
      /\ n \in 0..Len(doc.family) /\ n < Len(doc.family)
      /\ read = FirstOf(FamilyAll, n)
      /\ read' = Append(read, FamilyEntry(doc.family[n + 1]))
      /\ HasFallbacks(doc.family[n + 1])
      /\ heap' = heap \cup {<<"fallback_arr", n + 1>>}
  BY DEF IInv, ReadFamily, FamilyLeft, NextFamily, ReadSoFar, Tables
<1>2. FamilyEntry(doc.family[n + 1]) = FamilyAll[n + 1]
  BY <1>1, Arrays DEF FamilyAll
<1>3. read' = FirstOf(FamilyAll, n + 1) /\ Len(read') = n + 1
  BY <1>1, <1>2, TableGrows DEF FirstOf
<1>4. ReadSoFar'
  <2>1. \A i \in 1..(n + 1) : HasFallbacks(doc.family[i])
    BY <1>1 DEF IInv, ReadSoFar
  <2>2. QED
    BY <1>1, <1>3, <2>1, Arrays DEF ReadSoFar, FamilyAll, FirstOf
<1>5. heap' = HeapAt'
  <2>1. heap = {Manager} \cup JsonBlocks \cup EmojiKept \cup TableBlocks
                 \cup Fallbacks(n)
    BY <1>1 DEF IInv, HeapAt
  <2>2. Fallbacks(n + 1) = Fallbacks(n) \cup {<<"fallback_arr", n + 1>>}
    <3>1. 1..(n + 1) = (1..n) \cup {n + 1}
      BY <1>1, Arrays
    <3>2. QED
      BY <3>1 DEF Fallbacks
  <2>3. heap' = {Manager} \cup JsonBlocks \cup EmojiKept \cup TableBlocks
                 \cup Fallbacks(n + 1)
    BY <1>1, <2>1, <2>2
  <2>4. QED
    BY <1>1, <1>3, <2>3 DEF HeapAt, EmojiKept
<1>6. Tables'
  BY <1>1, EmojiTableKept DEF IInv, Tables
<1>7. QED
  BY <1>1, <1>4, <1>5, <1>6 DEF IInv, Stages

\* The blocks a family table owns are those of the families read.
LEMMA BlocksOfFamilies ==
    ASSUME doc \in Documents
    PROVE  /\ FamilyBlocks = TableBlocks \cup Fallbacks(Len(doc.family))
           /\ EmojiBlocks \cap (JsonBlocks \cup FamilyBlocks \cup {Manager}) = {}
           /\ Manager \notin JsonBlocks \cup FamilyBlocks
           /\ JsonBlocks \cap FamilyBlocks = {}
<1>1. FamilyBlocks = TableBlocks \cup Fallbacks(Len(doc.family))
  BY Arrays DEF FamilyBlocks, TableBlocks, Fallbacks
<1>2. QED
  BY <1>1 DEF EmojiBlocks, JsonBlocks, FamilyBlocks, Manager

\* After the last family the manager takes the table.
LEMMA GiveFamiliesStep ==
    ASSUME IInv, GiveFamilies
    PROVE  IInv'
<1>1. /\ stage = "family_items" /\ stage' = "ready" /\ read' = <<>>
      /\ UNCHANGED <<doc, emoji_manager, failed>>
      /\ family_config' = read /\ heap' = heap \ JsonBlocks
      /\ doc \in Documents /\ doc.family # <<>> /\ EmojiRight
      /\ Len(read) = Len(doc.family) /\ read = FirstOf(FamilyAll, Len(read))
      /\ \A i \in 1..Len(read) : HasFallbacks(doc.family[i])
  BY DEF IInv, GiveFamilies, FamilyDone, ReadSoFar, Tables
<1>2. Len(doc.family) \in Nat \ {0} /\ DOMAIN doc.family = 1..Len(doc.family)
  BY <1>1, Arrays
<1>3. family_config' # <<>> /\ family_config' = FamilyAll'
  <2>1. family_config' # <<>>
    BY <1>1, <1>2
  <2>2. family_config' = FamilyAll'
    BY <1>1, <1>2 DEF FirstOf, FamilyAll
  <2>3. QED
    BY <2>1, <2>2
<1>4. heap' = HeapAt'
  <2>1. heap = {Manager} \cup JsonBlocks \cup EmojiKept \cup FamilyBlocks
    BY <1>1, BlocksOfFamilies DEF IInv, HeapAt
  <2>2. heap' = {Manager} \cup EmojiKept \cup FamilyBlocks
    BY <1>1, <2>1, BlocksOfFamilies DEF EmojiKept
  <2>3. EmojiKept' = EmojiKept /\ FamilyBlocks' = FamilyBlocks
    BY <1>1 DEF EmojiKept, FamilyBlocks
  <2>4. QED
    BY <1>1, <1>3, <2>2, <2>3 DEF HeapAt, Reachable, EmojiKept
<1>5. ReadSoFar'
  BY <1>1 DEF ReadSoFar
<1>6. Tables'
  <2>1. EmojiRight'
    BY <1>1, EmojiTableKept
  <2>2. FamilyRight'
    BY <1>1, <1>2, <1>3 DEF FamilyRight, FamilyWhole
  <2>3. QED
    BY <1>1, <2>1, <2>2 DEF Tables
<1>7. QED
  BY <1>1, <1>4, <1>5, <1>6 DEF IInv, Stages

\* A failure among the families frees the blocks of those read so far.
LEMMA FamilyFailsStep ==
    ASSUME IInv, FamilyFails
    PROVE  IInv'
<1>1. /\ stage \in {"family", "family_items"} /\ stage' = "ready" /\ doc' = doc
      /\ read' = <<>> /\ emoji_manager' = emoji_manager
      /\ family_config' = <<>>
      /\ failed => failed'
      /\ heap' = heap \ (FamilyBlocks \cup JsonBlocks)
      /\ doc \in Documents /\ EmojiRight
  <2>1. failed => failed'
    BY Zenon DEF FamilyFails
  <2>2. stage \in {"family", "family_items"}
    BY DEF FamilyFails, FamilyLeft
  <2>3. QED
    BY <2>1, <2>2 DEF IInv, FamilyFails, Tables
<1>2. heap' = HeapAt'
  <2>1. CASE stage = "family"
    <3>1. heap = {Manager} \cup JsonBlocks \cup EmojiKept
      BY <2>1 DEF IInv, HeapAt
    <3>2. heap' = {Manager} \cup EmojiKept
      BY <1>1, <3>1, BlocksOfFamilies DEF EmojiKept
    <3>3. QED
      BY <1>1, <3>2 DEF HeapAt, Reachable, EmojiKept
  <2>2. CASE stage = "family_items"
    <3>1. heap = {Manager} \cup JsonBlocks \cup EmojiKept \cup TableBlocks
                   \cup Fallbacks(Len(read))
      BY <2>2 DEF IInv, HeapAt
    <3>2. Fallbacks(Len(read)) \subseteq Fallbacks(Len(doc.family))
      BY <2>2, <1>1, Arrays DEF IInv, ReadSoFar, Fallbacks
    <3>3. heap' = {Manager} \cup EmojiKept
      BY <1>1, <3>1, <3>2, BlocksOfFamilies DEF EmojiKept
    <3>4. QED
      BY <1>1, <3>3 DEF HeapAt, Reachable, EmojiKept
  <2>3. QED
    BY <1>1, <2>1, <2>2
<1>3. FamilyRight'
  <2>1. CASE failed'
    BY <1>1, <2>1 DEF FamilyRight
  <2>2. CASE stage = "family" /\ ~failed'
    <3>1. doc.family = <<>>
      BY <2>2, <1>1 DEF FamilyFails, FamilyLeft
    <3>2. QED
      BY <3>1, <1>1, Arrays DEF FamilyRight
  <2>3. CASE stage = "family_items" /\ ~failed'
    <3>1. ~HasFallbacks(doc.family[Len(read) + 1]) /\ Len(read) < Len(doc.family)
      BY <2>3 DEF FamilyFails, FamilyLeft, NextFamily
    <3>2. Len(read) + 1 \in DOMAIN doc.family
      BY <2>3, <3>1, <1>1, Arrays DEF IInv, ReadSoFar
    <3>3. ~FamilyWhole'
      BY <3>1, <3>2, <1>1 DEF FamilyWhole
    <3>4. QED
      BY <1>1, <3>3 DEF FamilyRight
  <2>4. QED
    BY <1>1, <2>1, <2>2, <2>3
<1>4. ReadSoFar' /\ Tables'
  BY <1>1, <1>3, EmojiTableKept DEF ReadSoFar, Tables
<1>5. QED
  BY <1>1, <1>2, <1>4 DEF IInv, Stages

\* The deletion of the manager frees every block of both tables.
LEMMA DeleteTablesStep ==
    ASSUME IInv, DeleteTables
    PROVE  IInv'
<1>1. heap' = {}
  BY DEF IInv, DeleteTables, HeapAt, Reachable
<1>2. QED
  BY <1>1 DEF IInv, DeleteTables, HeapAt, ReadSoFar, Tables, Stages

--------------------------------------------------------------------------------
(* The theorems.                                                              *)

\* An emoji font's calls are no step of a load.
LEMMA LoadKept ==
    ASSUME IInv, UNCHANGED load
    PROVE  IInv'
<1> USE DEF load
<1>1. heap' = HeapAt'
  <2>1. EmojiKept' = EmojiKept /\ FamilyBlocks' = FamilyBlocks
    BY DEF EmojiKept, FamilyBlocks
  <2>2. Reachable' = Reachable
    BY <2>1 DEF Reachable
  <2>3. HeapAt' = HeapAt
    BY <2>1, <2>2 DEF HeapAt
  <2>4. QED
    BY <2>3 DEF IInv
<1>2. EmojiAll' = EmojiAll /\ FamilyAll' = FamilyAll
  BY DEF EmojiAll, FamilyAll
<1>3. ReadSoFar'
  BY <1>2 DEF IInv, ReadSoFar, FirstOf
<1>4. Tables'
  BY <1>2 DEF IInv, Tables, EmojiRight, FamilyRight, EmojiWhole, FamilyWhole
<1>5. QED
  BY <1>1, <1>3, <1>4 DEF IInv

\* Every step of a load keeps the invariant.
LEMMA LoadStep ==
    ASSUME IInv, LoadNext
    PROVE  IInv'
<1>1. CASE \E d \in Documents : BeginLoad(d)
  BY <1>1, BeginStep
<1>2. CASE ReadFile \/ ParseText \/ NewJsonObj
  BY <1>2, JsonSteps
<1>3. CASE JsonFails
  BY <1>3, JsonFailsStep
<1>4. CASE NewEmojiTable
  BY <1>4, NewEmojiTableStep
<1>5. CASE ReadEmoji
  BY <1>5, ReadEmojiStep
<1>6. CASE NewEmojiManager
  BY <1>6, NewEmojiManagerStep
<1>7. CASE EmojiFails
  BY <1>7, EmojiFailsStep
<1>8. CASE NewFamilyTable
  BY <1>8, NewFamilyTableStep
<1>9. CASE ReadFamily
  BY <1>9, ReadFamilyStep
<1>10. CASE GiveFamilies
  BY <1>10, GiveFamiliesStep
<1>11. CASE FamilyFails
  BY <1>11, FamilyFailsStep
<1>12. QED
  BY <1>1, <1>2, <1>3, <1>4, <1>5, <1>6, <1>7, <1>8, <1>9, <1>10, <1>11
     DEF LoadNext

\* IInv, which says of every place in a load what is allocated and how much of
\* which array was read, holds in every state (font_utils.c, font_manager_create
\* and font_manager_delete) whatever emoji fonts are made meanwhile.
THEOREM LoadInductive == EmojiSpec => []IInv
<1>1. EmojiInit => IInv
  BY InitStep DEF EmojiInit
<1>2. IInv /\ [EmojiNext]_emojiVars => IInv'
  <2> SUFFICES ASSUME IInv, [EmojiNext]_emojiVars PROVE IInv'
    OBVIOUS
  <2>1. CASE LoadNext
    BY <2>1, LoadStep
  <2>2. CASE DeleteManager
    BY <2>2, DeleteTablesStep DEF DeleteManager
  <2>3. CASE UNCHANGED load
    BY <2>3, LoadKept
  <2>4. EmojiNext => LoadNext \/ DeleteManager \/ UNCHANGED load
    BY DEF EmojiNext, CreateFont, DeleteFont, GlyphPath
  <2>5. QED
    BY <2>1, <2>2, <2>3, <2>4 DEF emojiVars
<1>3. QED
  BY <1>1, <1>2, PTL DEF EmojiSpec

\* Wherever a load fails, what stays allocated is what font_manager_delete will
\* free, and after that nothing is left.
THEOREM NothingLost == EmojiSpec => []NoLeak
<1>1. IInv => NoLeak
  BY DEF IInv, HeapAt, NoLeak
<1>2. QED
  BY <1>1, LoadInductive, PTL

\* The emoji table and the families are those of the whole file or absent.
THEOREM TablesWhole == EmojiSpec => []AllOrNothing
<1>1. ASSUME IInv PROVE AllOrNothing
  <2> SUFFICES ASSUME stage = "ready"
               PROVE  /\ WholeTable(emoji_manager, doc.emoji, Complete, EmojiEntry)
                      /\ WholeTable(family_config, doc.family, HasFallbacks, FamilyEntry)
    BY DEF AllOrNothing
  <2>1. doc \in Documents /\ EmojiRight /\ FamilyRight
    BY <1>1 DEF IInv, Tables
  <2>2. WholeTable(emoji_manager, doc.emoji, Complete, EmojiEntry)
    BY <2>1, Arrays DEF WholeTable, EmojiRight, EmojiWhole, EmojiAll
  <2>3. WholeTable(family_config, doc.family, HasFallbacks, FamilyEntry)
    BY <2>1, Arrays DEF WholeTable, FamilyRight, FamilyWhole, FamilyAll
  <2>4. QED
    BY <2>2, <2>3
<1>2. QED
  BY <1>1, LoadInductive, PTL
--------------------------------------------------------------------------------
(* The emoji fonts.                                                           *)

\* A font has the first entry for what was asked, and no load is under way.
FontsFirst ==
    /\ user_data = [f \in Fonts |-> user_data[f]]
    /\ asked = [f \in Fonts |-> asked[f]]
    /\ \A f \in Fonts : user_data[f] # NULL =>
         /\ stage = "ready"
         /\ user_data[f] \in DOMAIN emoji_manager
         /\ FirstMatch(asked[f][1], asked[f][2], user_data[f])

\* The last answer is the path in the entry of the font that was asked for, unless
\* that is too long for the buffer.
AnswerOf(emoji) ==
    IF answer.unicode \in emoji.begin .. emoji.end
    THEN ~(PathMax < emoji.path.len + emoji.ext.len + NumberSize) =>
           answer.path = [dir |-> emoji.path, number |-> answer.unicode, ext |-> emoji.ext]
    ELSE answer.path = NULL
AnswerFirst == answer # NULL =>
    /\ stage = "ready"
    /\ \E i \in DOMAIN emoji_manager :
         FirstMatch(answer.asked[1], answer.asked[2], i) /\ AnswerOf(emoji_manager[i])

\* No step of a load is taken while a font or an answer is there.
LEMMA LoadLeavesFonts ==
    ASSUME FontsFirst, AnswerFirst, LoadNext, UNCHANGED <<user_data, asked, path, answer>>
    PROVE  FontsFirst' /\ AnswerFirst'
<1>1. stage # "ready"
  BY DEF LoadNext, BeginLoad, ReadFile, ParseText, NewJsonObj, JsonStep, JsonFails,
         NewEmojiTable, ReadEmoji, EmojiLeft, NewEmojiManager, EmojiDone, EmojiFails,
         NewFamilyTable, ReadFamily, GiveFamilies, FamilyFails, FamilyLeft, FamilyDone
<1>2. answer = NULL /\ \A f \in Fonts : user_data[f] = NULL
  BY <1>1 DEF FontsFirst, AnswerFirst
<1> QED BY <1>2 DEF FontsFirst, AnswerFirst

\* A font is made with the first entry that matches.
LEMMA CreateFontStep ==
    ASSUME FontsFirst, AnswerFirst,
           NEW f \in Fonts, NEW name \in AskedNames, NEW height \in Heights,
           CreateFont(f, name, height)
    PROVE  FontsFirst' /\ AnswerFirst'
<1>1. PICK i \in DOMAIN emoji_manager :
        FirstMatch(name, height, i) /\ user_data' = [user_data EXCEPT ![f] = i]
  BY DEF CreateFont
<1>2. /\ stage = "ready" /\ UNCHANGED <<stage, emoji_manager, answer>>
      /\ asked' = [asked EXCEPT ![f] = <<name, height>>]
  BY DEF CreateFont, load
<1>3. \A n, h, k : FirstMatch(n, h, k)' <=> FirstMatch(n, h, k)
  BY <1>2 DEF FirstMatch
<1>4. AnswerFirst'
  BY <1>2, <1>3 DEF AnswerFirst, AnswerOf
<1>5. /\ user_data'[f] = i /\ asked'[f] = <<name, height>>
      /\ \A g \in Fonts \ {f} : user_data'[g] = user_data[g] /\ asked'[g] = asked[g]
  BY <1>1, <1>2 DEF FontsFirst
<1>6. /\ user_data' = [g \in Fonts |-> user_data'[g]]
      /\ asked' = [g \in Fonts |-> asked'[g]]
  BY <1>1, <1>2 DEF FontsFirst
<1>7. ASSUME NEW g \in Fonts, user_data'[g] # NULL
      PROVE  /\ stage' = "ready" /\ user_data'[g] \in DOMAIN emoji_manager'
             /\ FirstMatch(asked[g][1], asked[g][2], user_data[g])'
  <2>1. CASE g = f
    BY <1>1, <1>2, <1>5, <2>1 DEF FirstMatch
  <2>2. CASE g # f
    BY <1>2, <1>5, <1>7, <2>2 DEF FontsFirst, FirstMatch
  <2> QED BY <2>1, <2>2
<1> QED BY <1>4, <1>6, <1>7 DEF FontsFirst

\* The deletion of a font leaves the others and the answer.
LEMMA DeleteFontStep ==
    ASSUME FontsFirst, AnswerFirst, NEW f \in Fonts, DeleteFont(f)
    PROVE  FontsFirst' /\ AnswerFirst'
<1>1. /\ UNCHANGED <<stage, emoji_manager, answer>>
      /\ user_data' = [user_data EXCEPT ![f] = NULL]
      /\ asked' = [asked EXCEPT ![f] = NULL]
  BY DEF DeleteFont, load
<1>2. \A n, h, k : FirstMatch(n, h, k)' <=> FirstMatch(n, h, k)
  BY <1>1 DEF FirstMatch
<1>3. AnswerFirst'
  BY <1>1, <1>2 DEF AnswerFirst, AnswerOf
<1>4. /\ user_data' = [g \in Fonts |-> user_data'[g]]
      /\ asked' = [g \in Fonts |-> asked'[g]]
      /\ \A g \in Fonts : user_data'[g] # NULL =>
           user_data'[g] = user_data[g] /\ asked'[g] = asked[g]
  BY <1>1 DEF FontsFirst
<1> QED BY <1>1, <1>2, <1>3, <1>4 DEF FontsFirst

\* A glyph is answered from the entry of its font.
LEMMA GlyphStep ==
    ASSUME FontsFirst, NEW f \in Fonts, NEW unicode \in Unicodes, GlyphPath(f, unicode)
    PROVE  FontsFirst' /\ AnswerFirst'
<1>1. UNCHANGED <<stage, emoji_manager, user_data, asked>> /\ user_data[f] # NULL
  BY DEF GlyphPath, load
<1>2. \A n, h, k : FirstMatch(n, h, k)' <=> FirstMatch(n, h, k)
  BY <1>1 DEF FirstMatch
<1>3. FontsFirst'
  BY <1>1, <1>2 DEF FontsFirst
<1> DEFINE i == user_data[f]
           emoji == emoji_manager[i]
<1>4. stage = "ready" /\ i \in DOMAIN emoji_manager /\ FirstMatch(asked[f][1], asked[f][2], i)
  BY <1>1 DEF FontsFirst
<1>5. answer'.asked = asked[f] /\ answer'.unicode = unicode
      /\ AnswerOf(emoji)'
  <2>1. CASE /\ unicode \in emoji.begin .. emoji.end
             /\ path' = GeneratePath(emoji, unicode)
             /\ answer' = [asked |-> asked[f], unicode |-> unicode, path |-> path']
    BY <1>1, <2>1 DEF AnswerOf, GeneratePath
  <2>2. CASE /\ unicode \notin emoji.begin .. emoji.end
             /\ answer' = [asked |-> asked[f], unicode |-> unicode, path |-> NULL]
    BY <1>1, <2>2 DEF AnswerOf
  <2> QED BY <2>1, <2>2 DEF GlyphPath
<1> QED BY <1>1, <1>2, <1>3, <1>4, <1>5 DEF AnswerFirst

\* In a table of entries that fit, what an entry matches is what the file says.
LEMMA EntryMatches ==
    ASSUME NEW item, Matchable(item), NEW name, NEW height
    PROVE  /\ EmojiEntry(item).begin = item.begin /\ EmojiEntry(item).end = item.end
           /\ Matches(EmojiEntry(item), name, height)
                <=> item.font_name = name /\ height \in item.min .. item.max
<1>1. Cut(item.font_name, NameMax) = item.font_name
  BY DEF Matchable, Cut
<1>2. item.min % UInt16 = item.min /\ item.max % UInt16 = item.max
  <2>1. ASSUME NEW n \in 0 .. UInt16 - 1 PROVE n % UInt16 = n
    <3>1. n \in Nat /\ n < 65536
      BY DEF UInt16
    <3>2. n % 65536 = n
      BY <3>1
    <3> QED BY <3>2 DEF UInt16
  <2>2. item.min \in 0 .. UInt16 - 1 /\ item.max \in 0 .. UInt16 - 1
    BY Zenon DEF Matchable
  <2> QED BY <2>1, <2>2
<1>3. /\ EmojiEntry(item).font_name = item.font_name
      /\ EmojiEntry(item).min = item.min /\ EmojiEntry(item).max = item.max
      /\ EmojiEntry(item).begin = item.begin /\ EmojiEntry(item).end = item.end
  BY <1>1, <1>2 DEF EmojiEntry
<1> QED BY <1>3 DEF Matches

\* A path that fits is not cut.
LEMMA PathKept ==
    ASSUME NEW item, PathFits(item), item.path.len \in Nat, item.ext.len \in Nat
    PROVE  /\ EmojiEntry(item).path = item.path /\ EmojiEntry(item).ext = item.ext
           /\ ~(PathMax < item.path.len + item.ext.len + NumberSize)
<1>1. item.path.len < PathMax /\ ~(PathMax < item.path.len + item.ext.len + NumberSize)
  BY TextsAssumption DEF PathFits, NumberSize
<1>2. Cut(item.path, PathMax) = item.path /\ Cut(item.ext, ExtMax) = item.ext
  BY <1>1 DEF PathFits, Cut
<1> QED BY <1>1, <1>2 DEF EmojiEntry

\* What GlyphRight says of a table follows from the table being that of the file.
LEMMA RightFollows ==
    ASSUME IInv, AnswerFirst
    PROVE  GlyphRight
<1> SUFFICES ASSUME answer # NULL, \A i \in DOMAIN doc.emoji : Matchable(doc.emoji[i])
             PROVE  GlyphRight
  BY DEF GlyphRight
<1> DEFINE name == answer.asked[1]
           height == answer.asked[2]
           found == EntriesFor(name, height)
<1>1. PICK i \in DOMAIN emoji_manager :
        FirstMatch(name, height, i) /\ AnswerOf(emoji_manager[i])
  BY DEF AnswerFirst
<1>2. /\ doc \in Documents /\ EmojiWhole /\ emoji_manager = EmojiAll
      /\ Len(doc.emoji) \in Nat /\ DOMAIN doc.emoji = 1..Len(doc.emoji)
  <2>1. doc \in Documents /\ EmojiRight
    BY DEF IInv, Tables, AnswerFirst
  <2>2. emoji_manager # <<>>
    BY <1>1
  <2> QED BY <2>1, <2>2, Arrays DEF EmojiRight
<1>3. /\ DOMAIN emoji_manager = DOMAIN doc.emoji
      /\ \A j \in DOMAIN doc.emoji : emoji_manager[j] = EmojiEntry(doc.emoji[j])
  BY <1>2 DEF EmojiAll
<1>4. \A j \in DOMAIN doc.emoji : Matches(emoji_manager[j], name, height) <=> j \in found
  BY <1>3, EntryMatches DEF EntriesFor
<1>5. i \in found /\ \A j \in found : i <= j
  <2>1. i \in found /\ i \in 1..Len(doc.emoji) /\ found \subseteq 1..Len(doc.emoji)
    BY <1>1, <1>2, <1>3, <1>4 DEF FirstMatch, EntriesFor
  <2>2. \A j \in 1..(i - 1) : j \notin found
    BY <1>1, <1>2, <1>4, <2>1 DEF FirstMatch
  <2> QED BY <1>2, <2>1, <2>2
<1> DEFINE item == doc.emoji[i]
<1>6. /\ emoji_manager[i] = EmojiEntry(item)
      /\ emoji_manager[i].begin = item.begin /\ emoji_manager[i].end = item.end
  BY <1>1, <1>3, EntryMatches
<1>7. ASSUME PathFits(item)
      PROVE  answer.path =
               IF answer.unicode \in item.begin .. item.end
               THEN [dir |-> item.path, number |-> answer.unicode, ext |-> item.ext]
               ELSE NULL
  <2>1. item.path.len \in Nat /\ item.ext.len \in Nat
    <3>1. Complete(item)
      BY <1>1, <1>2, <1>3 DEF EmojiWhole
    <3>2. /\ {"path", "ext"} \subseteq DOMAIN item
          /\ item.path # NULL => item.path.len \in Nat
          /\ item.ext # NULL => item.ext.len \in Nat
      BY <1>1, <1>2, <1>3, TextsAssumption
    <3>3. item["path"] # NULL /\ item["ext"] # NULL
      BY <3>1, <3>2 DEF Complete
    <3> QED BY <3>2, <3>3
  <2>2. /\ emoji_manager[i].path = item.path /\ emoji_manager[i].ext = item.ext
        /\ ~(PathMax < item.path.len + item.ext.len + NumberSize)
    BY <1>6, <1>7, <2>1, PathKept
  <2> HIDE DEF item
  <2> QED BY <1>1, <1>6, <2>2 DEF AnswerOf
<1> HIDE DEF item
<1> QED BY <1>5, <1>7 DEF GlyphRight, item

\* get_imgfont_path gives the path that the file names for the font and height that
\* were asked for, in any order of loads, fonts and glyphs, for every file whose
\* names and sizes fit and every path that fits its buffer.
THEOREM GlyphsRight == EmojiSpec => []GlyphRight
<1>1. EmojiInit => FontsFirst /\ AnswerFirst
  BY DEF EmojiInit, FontsFirst, AnswerFirst
<1>2. FontsFirst /\ AnswerFirst /\ [EmojiNext]_emojiVars => FontsFirst' /\ AnswerFirst'
  <2> SUFFICES ASSUME FontsFirst, AnswerFirst, [EmojiNext]_emojiVars
               PROVE  FontsFirst' /\ AnswerFirst'
    OBVIOUS
  <2>1. CASE DeleteManager
    BY <2>1 DEF DeleteManager, FontsFirst, AnswerFirst
  <2>2. CASE UNCHANGED emojiVars
    <3>1. \A n, h, k : FirstMatch(n, h, k)' <=> FirstMatch(n, h, k)
      BY <2>2 DEF FirstMatch, emojiVars, load
    <3> QED BY <2>2, <3>1 DEF FontsFirst, AnswerFirst, AnswerOf, emojiVars, load
  <2> QED BY <2>1, <2>2, LoadLeavesFonts, CreateFontStep, DeleteFontStep, GlyphStep
             DEF EmojiNext
<1> QED BY <1>1, <1>2, RightFollows, LoadInductive, PTL DEF EmojiSpec
================================================================================
