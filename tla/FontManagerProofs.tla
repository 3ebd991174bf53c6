--------------------------- MODULE FontManagerProofs ---------------------------
(***************************************************************************)
(* Theorems about FontManager for every set of names, handles, nodes and    *)
(* fonts, every way names are cut and every cache size: its bookkeeping, and *)
(* what its callers see of it.  They hold the font they asked for, nobody    *)
(* touches it meanwhile, it exists once, and the manager implements          *)
(* FontPool.  RightFont, OneFontPerInfo and FontPool need names that are not *)
(* cut (NamesFit): two names that are cut to one share a font.               *)
(***************************************************************************)
EXTENDS FontManager, SequenceTheorems, FiniteSetTheorems, TLAPS

--------------------------------------------------------------------------------
(* A linked list of LVGL, the _lv_ll functions: a sequence, head first.       *)

\* _lv_ll_remove: the entries behind position i move up by one.
LEMMA RemoveAtFacts ==
    ASSUME NEW S, NEW s \in Seq(S), NEW i \in 1..Len(s)
    PROVE  /\ RemoveAt(s, i) \in Seq(S)
           /\ Len(RemoveAt(s, i)) = Len(s) - 1
           /\ \A j \in 1..(Len(s) - 1) :
                RemoveAt(s, i)[j] = IF j < i THEN s[j] ELSE s[j + 1]
<1>1. /\ SubSeq(s, 1, i - 1) \in Seq(S)
      /\ Len(SubSeq(s, 1, i - 1)) = i - 1
      /\ \A j \in 1..(i - 1) : SubSeq(s, 1, i - 1)[j] = s[j]
  OBVIOUS
<1>2. /\ SubSeq(s, i + 1, Len(s)) \in Seq(S)
      /\ Len(SubSeq(s, i + 1, Len(s))) = Len(s) - i
      /\ \A j \in 1..(Len(s) - i) : SubSeq(s, i + 1, Len(s))[j] = s[i + j]
  OBVIOUS
<1>3. ASSUME NEW a \in Seq(S), NEW b \in Seq(S),
             Len(a) = i - 1, \A j \in 1..(i - 1) : a[j] = s[j],
             Len(b) = Len(s) - i, \A j \in 1..(Len(s) - i) : b[j] = s[i + j]
      PROVE  /\ a \o b \in Seq(S) /\ Len(a \o b) = Len(s) - 1
             /\ \A j \in 1..(Len(s) - 1) :
                  (a \o b)[j] = IF j < i THEN s[j] ELSE s[j + 1]
  <2>0. Len(a) + Len(b) = Len(s) - 1
    BY <1>3
  <2>1. /\ a \o b \in Seq(S) /\ Len(a \o b) = Len(s) - 1
        /\ \A j \in 1..(Len(s) - 1) :
             (a \o b)[j] = IF j <= i - 1 THEN a[j] ELSE b[j - (i - 1)]
    <3>1. /\ a \o b \in Seq(S)
          /\ Len(a \o b) = Len(a) + Len(b)
          /\ \A j \in 1..Len(a) + Len(b) :
               (a \o b)[j] = IF j <= Len(a) THEN a[j] ELSE b[j - Len(a)]
      BY ConcatProperties
    <3> QED BY <3>1, <2>0, <1>3
  <2>2. ASSUME NEW j \in 1..(Len(s) - 1), j >= i
        PROVE  b[j - (i - 1)] = s[j + 1]
    BY <1>3, <2>2
  <2> QED BY <1>3, <2>1, <2>2
<1> QED BY <1>1, <1>2, <1>3 DEF RemoveAt

\* _lv_ll_ins_head: the new entry is first, the others move down by one.
LEMMA ConsFacts ==
    ASSUME NEW S, NEW s \in Seq(S), NEW e \in S
    PROVE  /\ Cons(e, s) \in Seq(S)
           /\ Len(Cons(e, s)) = Len(s) + 1
           /\ Cons(e, s)[1] = e
           /\ \A j \in 2..(Len(s) + 1) : Cons(e, s)[j] = s[j - 1]
BY DEF Cons

\* font_cache_manager_remove_tail: all entries but the last one stay.
LEMMA FrontFacts ==
    ASSUME NEW S, NEW s \in Seq(S), Len(s) > 0
    PROVE  /\ Front(s) \in Seq(S)
           /\ Len(Front(s)) = Len(s) - 1
           /\ \A j \in 1..(Len(s) - 1) : Front(s)[j] = s[j]
           /\ Last(s) = s[Len(s)] /\ Last(s) \in S
<1>1. Len(s) \in 1..Len(s) /\ Len(s) - 1 <= Len(s)
  OBVIOUS
<1>2. s[Len(s)] \in S
  BY <1>1, ElementOfSeq
<1>3. /\ SubSeq(s, 1, Len(s) - 1) \in Seq(S)
      /\ Len(SubSeq(s, 1, Len(s) - 1)) = Len(s) - 1
      /\ \A j \in 1..(Len(s) - 1) : SubSeq(s, 1, Len(s) - 1)[j] = s[j]
  <2>1. ASSUME NEW n \in Nat, n = Len(s) - 1
        PROVE  /\ SubSeq(s, 1, n) \in Seq(S)
               /\ Len(SubSeq(s, 1, n)) = n
               /\ \A j \in 1..n : SubSeq(s, 1, n)[j] = s[j]
    <3>1. SubSeq(s, 1, n) \in Seq(S) /\ Len(SubSeq(s, 1, n)) = n
      BY <2>1
    <3>2. \A j \in 1..n : SubSeq(s, 1, n)[j] = s[j]
      BY <2>1
    <3> QED BY <3>1, <3>2
  <2>2. Len(s) - 1 \in Nat
    OBVIOUS
  <2> QED BY <2>1, <2>2
<1> QED BY <1>2, <1>3 DEF Front, Last

--------------------------------------------------------------------------------
(* Type correctness, one lemma per part of the state that moves.              *)

\* The copy of an info that a node keeps is an info, an emoji's if it was one.
LEMMA StoredInfo ==
    ASSUME NEW info \in Infos
    PROVE  /\ Stored(info) \in Infos
           /\ Stored(info).attr = info.attr
           /\ IsEmoji(Stored(info)) <=> IsEmoji(info)
BY TruncAssumption DEF Stored, Infos, IsEmoji

\* A node, a record and a font object have the fields their type says.
LEMMA HeldNode ==
    ASSUME TypeOK, NEW n \in Held
    PROVE  /\ n \in Nodes /\ refer_ll[n] \in NodeRecord
           /\ refer_ll[n].ft_info \in Infos /\ refer_ll[n].font_p \in Fonts
           /\ refer_ll[n].ref_cnt \in Nat
BY DEF TypeOK, Held, NodeRecord

\* A record in use has a font and a node of the right types.
LEMMA InUseRecord ==
    ASSUME TypeOK, NEW h \in InUse
    PROVE  /\ h \in Handles /\ rec_ll[h] \in FontRecord
           /\ rec_ll[h].font \in Fonts /\ rec_ll[h].refer_node_p \in Nodes
BY DEF TypeOK, InUse, FontRecord

\* An entry of the cache has an info and a font of the right types.
LEMMA CacheEntry ==
    ASSUME TypeOK, NEW i \in DOMAIN cache_ll
    PROVE  /\ cache_ll[i] \in CacheRecord
           /\ cache_ll[i].ft_info \in Infos /\ cache_ll[i].font \in Fonts
<1>1. cache_ll \in Seq(CacheRecord) /\ i \in 1..Len(cache_ll)
  BY DEF TypeOK
<1>2. cache_ll[i] \in CacheRecord
  BY <1>1, ElementOfSeq
<1> QED BY <1>2 DEF CacheRecord

\* font_manager_create_font's record.
LEMMA AddRecordType ==
    ASSUME TypeOK, NEW h \in Handles, NEW info \in Infos, NEW n \in Nodes,
           NEW f \in Fonts, AddRecord(h, info, n, f)
    PROVE  /\ rec_ll' \in [Handles -> FontRecord \cup {NULL}]
           /\ asked' \in [Handles -> Infos \cup {NULL}]
BY DEF TypeOK, AddRecord, FontRecord

\* font_manager_request_font's node.
LEMMA AddNodeType ==
    ASSUME TypeOK, NEW info \in Infos, NEW n \in Nodes, NEW f \in Fonts,
           AddNode(info, n, f)
    PROVE  refer_ll' \in [Nodes -> NodeRecord \cup {NULL}]
<1>1. [ft_info |-> Stored(info), font_p |-> f, ref_cnt |-> 1] \in NodeRecord
  BY StoredInfo DEF NodeRecord
<1> QED BY <1>1 DEF TypeOK, AddNode

\* A destroyed object is gone, the others stay.
LEMMA DestroyType ==
    ASSUME TypeOK, NEW F, Destroy(F)
    PROVE  freetype' \in [Fonts -> FontObject \cup {NULL}]
BY DEF TypeOK, Destroy

\* font_cache_manager_set_reuse, in a cache that may hold something.
LEMMA SetReuseType ==
    ASSUME TypeOK, CacheSize > 0, NEW entry \in CacheRecord, SetReuse(entry)
    PROVE  /\ cache_ll' \in Seq(CacheRecord)
           /\ freetype' \in [Fonts -> FontObject \cup {NULL}]
<1>1. cache_ll \in Seq(CacheRecord) /\ Len(cache_ll) \in Nat
  BY DEF TypeOK
<1>2. CASE Len(cache_ll) >= CacheSize
  <2>1. Front(cache_ll) \in Seq(CacheRecord)
    BY <1>1, <1>2, FrontFacts, SizeAssumption
  <2>2. Cons(entry, Front(cache_ll)) \in Seq(CacheRecord)
    BY <2>1, ConsFacts
  <2> QED BY <1>2, <2>2, DestroyType DEF SetReuse
<1>3. CASE ~(Len(cache_ll) >= CacheSize)
  BY <1>1, <1>3, ConsFacts DEF SetReuse, TypeOK
<1> QED BY <1>2, <1>3

\* font_manager_drop_font keeps the types of the lists it changes.
LEMMA DropFontType ==
    ASSUME TypeOK, NEW n \in Held, DropFont(n)
    PROVE  /\ refer_ll' \in [Nodes -> NodeRecord \cup {NULL}]
           /\ cache_ll' \in Seq(CacheRecord)
           /\ freetype' \in [Fonts -> FontObject \cup {NULL}]
<1> DEFINE node == refer_ll[n]
<1>1. n \in Nodes /\ node \in NodeRecord /\ node.ref_cnt \in Nat
      /\ node.ft_info \in Infos /\ node.font_p \in Fonts
  BY HeldNode
<1>2. CASE node.ref_cnt > 1
  <2>1. [node EXCEPT !.ref_cnt = @ - 1] \in NodeRecord
    BY <1>1, <1>2 DEF NodeRecord
  <2>2. refer_ll' = [refer_ll EXCEPT ![n] = [node EXCEPT !.ref_cnt = @ - 1]]
        /\ UNCHANGED <<cache_ll, freetype>>
    BY <1>2 DEF DropFont
  <2> QED BY <2>1, <2>2 DEF TypeOK
<1>3. CASE ~(node.ref_cnt > 1)
  <2>1. refer_ll' = [refer_ll EXCEPT ![n] = NULL] /\ DeleteWrapper(node)
    BY <1>3 DEF DropFont
  <2>2. [ft_info |-> Stored(node.ft_info), font |-> node.font_p] \in CacheRecord
    BY <1>1, StoredInfo DEF CacheRecord
  <2> HIDE DEF node
  <2>3. /\ cache_ll' \in Seq(CacheRecord)
        /\ freetype' \in [Fonts -> FontObject \cup {NULL}]
    BY <2>1, <2>2, SetReuseType, DestroyType DEF DeleteWrapper, TypeOK
  <2> QED BY <2>1, <2>3 DEF TypeOK
<1> QED BY <1>2, <1>3

--------------------------------------------------------------------------------
(* Reference counts: how the users of the nodes move with the records.        *)

\* A node has finitely many records, so they can be counted.
LEMMA UsersFinite ==
    ASSUME NEW n
    PROVE  IsFiniteSet(Users(n)) /\ Cardinality(Users(n)) \in Nat
<1>1. Users(n) \subseteq Handles
  BY DEF Users, InUse
<1> QED BY <1>1, HandlesAssumption, FS_Subset, FS_CardinalityType

\* A new record is one more user of its node.
LEMMA AddRecordUsers ==
    ASSUME TypeOK, NEW h \in Handles, NEW info \in Infos, NEW n \in Nodes,
           NEW f \in Fonts, AddRecord(h, info, n, f)
    PROVE  /\ h \notin InUse /\ InUse' = InUse \cup {h}
           /\ rec_ll'[h] = [font |-> f, refer_node_p |-> n]
           /\ \A g \in InUse : rec_ll'[g] = rec_ll[g]
           /\ Users(n)' = Users(n) \cup {h} /\ h \notin Users(n)
           /\ \A m : m # n => Users(m)' = Users(m)
           /\ Cardinality(Users(n)') = Cardinality(Users(n)) + 1
<1>1. [font |-> f, refer_node_p |-> n] \in FontRecord
  BY DEF FontRecord
<1>2. /\ h \notin InUse
      /\ rec_ll' = [rec_ll EXCEPT ![h] = [font |-> f, refer_node_p |-> n]]
      /\ rec_ll \in [Handles -> FontRecord \cup {NULL}]
  BY DEF AddRecord, TypeOK
<1>3. InUse' = InUse \cup {h}
  BY <1>1, <1>2, NullAssumption DEF InUse
<1>4. /\ rec_ll'[h] = [font |-> f, refer_node_p |-> n]
      /\ \A g \in InUse : rec_ll'[g] = rec_ll[g]
  BY <1>2 DEF InUse
<1>5. /\ Users(n)' = Users(n) \cup {h} /\ h \notin Users(n)
      /\ \A m : m # n => Users(m)' = Users(m)
  BY <1>2, <1>3, <1>4 DEF Users
<1>6. Cardinality(Users(n) \cup {h}) = Cardinality(Users(n)) + 1
  BY <1>5, UsersFinite, FS_AddElement
<1> QED BY <1>2, <1>3, <1>4, <1>5, <1>6

\* The removal of a record takes one user from its node.
LEMMA RemoveRecordUsers ==
    ASSUME TypeOK, NEW h \in InUse, NEW n, rec_ll[h].refer_node_p = n,
           rec_ll' = [rec_ll EXCEPT ![h] = NULL]
    PROVE  /\ InUse' = InUse \ {h}
           /\ \A g \in InUse' : rec_ll'[g] = rec_ll[g]
           /\ \A m : Users(m)' = Users(m) \ {h}
           /\ \A m : m # n => Users(m)' = Users(m)
           /\ Cardinality(Users(n)') = Cardinality(Users(n)) - 1
<1>1. rec_ll \in [Handles -> FontRecord \cup {NULL}] /\ h \in Handles
  BY DEF TypeOK, InUse
<1>2. InUse' = InUse \ {h} /\ \A g \in InUse' : rec_ll'[g] = rec_ll[g]
  BY <1>1 DEF InUse
<1>3. \A m : Users(m)' = Users(m) \ {h}
  BY <1>2 DEF Users
<1>4. \A m : m # n => Users(m)' = Users(m)
  BY <1>2, <1>3 DEF Users
<1>5. h \in Users(n)
  BY DEF Users
<1>6. ASSUME NEW m, h \in Users(m)
      PROVE  Cardinality(Users(m) \ {h}) = Cardinality(Users(m)) - 1
  BY <1>6, UsersFinite, FS_RemoveElement
<1> QED BY <1>2, <1>3, <1>4, <1>5, <1>6

\* A node with one reference has no user left when that record goes.
LEMMA LastUser ==
    ASSUME NEW n, NEW h \in Users(n), Cardinality(Users(n)) <= 1
    PROVE  Users(n) = {h}
<1>1. IsFiniteSet(Users(n)) /\ Cardinality(Users(n)) \in Nat
  BY UsersFinite
<1>2. SUFFICES ASSUME NEW g \in Users(n), g # h PROVE FALSE
  OBVIOUS
<1>3. Cardinality(Users(n) \ {h}) = Cardinality(Users(n)) - 1
  BY <1>1, FS_RemoveElement
<1>4. Cardinality((Users(n) \ {h}) \ {g}) = Cardinality(Users(n) \ {h}) - 1
      /\ IsFiniteSet((Users(n) \ {h}) \ {g})
  BY <1>1, <1>2, FS_RemoveElement
<1>5. Cardinality((Users(n) \ {h}) \ {g}) \in Nat
  BY <1>4, FS_CardinalityType
<1> QED BY <1>1, <1>3, <1>4, <1>5

--------------------------------------------------------------------------------
(* The inductive invariant: types, counts and owners hold each other up.  The *)
(* type of a node is only kept because a record's node is live, the owners    *)
(* only because the count of a node is the number of its records.             *)

\* Emoji nodes need the emoji manager to be freed.
EmojiManaged == \A n \in Held : IsEmoji(refer_ll[n].ft_info) => emoji_manager

IInv ==
    /\ TypeOK /\ RefCountExact /\ Ownership /\ CacheBound
    /\ NothingOutlivesManager /\ EmojiManaged

\* A record added to node n keeps the counts exact when n alone counts one more.
LEMMA CountsAfterAdd ==
    ASSUME TypeOK, RefCountExact, NEW h \in Handles, NEW info \in Infos,
           NEW n \in Nodes, NEW f \in Fonts, AddRecord(h, info, n, f),
           Held' = Held \cup {n},
           refer_ll'[n].font_p = f,
           refer_ll'[n].ref_cnt = Cardinality(Users(n)) + 1,
           \A m \in Held : refer_ll'[m].font_p = refer_ll[m].font_p,
           \A m \in Held : m # n => refer_ll'[m].ref_cnt = refer_ll[m].ref_cnt
    PROVE  RefCountExact'
<1>1. /\ InUse' = InUse \cup {h}
      /\ rec_ll'[h] = [font |-> f, refer_node_p |-> n]
      /\ \A g \in InUse : rec_ll'[g] = rec_ll[g]
      /\ \A m : m # n => Users(m)' = Users(m)
      /\ Cardinality(Users(n)') = Cardinality(Users(n)) + 1
      /\ h \notin InUse
  BY AddRecordUsers
<1>2. Cardinality(Users(n)) \in Nat
  BY UsersFinite
<1>3. ASSUME NEW g \in InUse'
      PROVE  /\ rec_ll'[g].refer_node_p \in Held'
             /\ refer_ll'[rec_ll'[g].refer_node_p].font_p = rec_ll'[g].font
  <2>1. CASE g = h
    BY <1>1, <2>1
  <2>2. CASE g # h
    <3>1. g \in InUse /\ rec_ll'[g] = rec_ll[g]
      BY <1>1, <2>2
    <3> QED BY <3>1 DEF RefCountExact
  <2> QED BY <2>1, <2>2
<1>4. ASSUME NEW m \in Held'
      PROVE  refer_ll'[m].ref_cnt = Cardinality(Users(m)') /\ refer_ll'[m].ref_cnt > 0
  <2>1. CASE m = n
    BY <1>1, <1>2, <2>1
  <2>2. CASE m # n
    <3>1. Users(m)' = Users(m) /\ m \in Held
      BY <1>1, <2>2
    <3> QED BY <2>2, <3>1 DEF RefCountExact
  <2> QED BY <2>1, <2>2
<1> QED BY <1>3, <1>4 DEF RefCountExact

\* A request answered by a live node.
LEMMA ShareFontStep ==
    ASSUME IInv, NEW h \in Handles, NEW info \in Infos, ShareFont(h, info)
    PROVE  IInv'
<1> USE DEF IInv
<1>1. PICK n \in Matches(info) :
        /\ refer_ll' = [refer_ll EXCEPT ![n].ref_cnt = @ + 1]
        /\ AddRecord(h, info, n, refer_ll[n].font_p)
  BY DEF ShareFont, CountUp
<1>2. PICK f \in Fonts : f = refer_ll[n].font_p
  BY HeldNode DEF Matches
<1>3. n \in Held /\ n \in Nodes /\ refer_ll[n] \in NodeRecord
  BY HeldNode DEF Matches
<1>4. UNCHANGED <<manager, emoji_manager, path_ll, base_path, cache_ll, freetype>>
      /\ manager
  BY DEF ShareFont, config
<1>5. AddRecord(h, info, n, f)
  BY <1>1, <1>2
<1>6. refer_ll' = [refer_ll EXCEPT ![n] =
                     [refer_ll[n] EXCEPT !.ref_cnt = refer_ll[n].ref_cnt + 1]]
  BY <1>1
<1>7. /\ [refer_ll[n] EXCEPT !.ref_cnt = refer_ll[n].ref_cnt + 1] \in NodeRecord
      /\ refer_ll \in [Nodes -> NodeRecord \cup {NULL}]
  BY <1>3 DEF NodeRecord, TypeOK
<1>8. /\ Held' = Held
      /\ \A m \in Held : /\ refer_ll'[m].font_p = refer_ll[m].font_p
                         /\ m # n => refer_ll'[m] = refer_ll[m]
      /\ refer_ll'[n].ref_cnt = refer_ll[n].ref_cnt + 1
  BY <1>3, <1>6, <1>7, NullAssumption DEF Held, NodeRecord
<1>9. TypeOK'
  BY <1>3, <1>4, <1>5, <1>6, <1>7, AddRecordType DEF TypeOK
<1>10. RefCountExact'
  <2>1. refer_ll'[n].ref_cnt = Cardinality(Users(n)) + 1
    BY <1>3, <1>8 DEF RefCountExact
  <2> QED BY <1>2, <1>3, <1>5, <1>8, <2>1, CountsAfterAdd
<1>11. Ownership'
  <2>1. Live' = Live /\ CacheFonts' = CacheFonts
    BY <1>4 DEF Live, CacheFonts
  <2>2. {refer_ll'[m].font_p : m \in Held'} = {refer_ll[m].font_p : m \in Held}
    BY <1>8
  <2> QED BY <2>1, <2>2, <1>4, <1>8 DEF Ownership
<1>12. CacheBound'
  BY <1>4 DEF CacheBound
<1>13. NothingOutlivesManager'
  BY <1>4 DEF NothingOutlivesManager
<1>14. EmojiManaged'
  <2>1. \A m \in Held : refer_ll'[m].ft_info = refer_ll[m].ft_info
    BY <1>3, <1>6, <1>7 DEF NodeRecord
  <2> QED BY <2>1, <1>4, <1>8 DEF EmojiManaged, IsEmoji
<1> QED BY <1>9, <1>10, <1>11, <1>12, <1>13, <1>14

\* A new node: the lists grow by it, and it has no user yet.
LEMMA AddNodeFacts ==
    ASSUME TypeOK, RefCountExact, NEW info \in Infos, NEW n \in Nodes,
           NEW f \in Fonts, AddNode(info, n, f)
    PROVE  /\ n \notin Held /\ Held' = Held \cup {n}
           /\ refer_ll'[n] = [ft_info |-> Stored(info), font_p |-> f, ref_cnt |-> 1]
           /\ \A m \in Held : refer_ll'[m] = refer_ll[m]
           /\ refer_ll'[n].font_p = f /\ refer_ll'[n].ft_info = Stored(info)
           /\ Users(n) = {} /\ Cardinality(Users(n)) = 0
<1>1. [ft_info |-> Stored(info), font_p |-> f, ref_cnt |-> 1] \in NodeRecord
  BY StoredInfo DEF NodeRecord
<1>2. /\ n \notin Held
      /\ refer_ll' = [refer_ll EXCEPT ![n] =
                         [ft_info |-> Stored(info), font_p |-> f, ref_cnt |-> 1]]
      /\ refer_ll \in [Nodes -> NodeRecord \cup {NULL}]
  BY DEF AddNode, TypeOK
<1>3. /\ refer_ll'[n] = [ft_info |-> Stored(info), font_p |-> f, ref_cnt |-> 1]
      /\ \A m \in Held : refer_ll'[m] = refer_ll[m]
  BY <1>2 DEF Held
<1>4. Held' = Held \cup {n}
  BY <1>1, <1>2, NullAssumption DEF Held
<1>5. Users(n) = {}
  BY <1>2 DEF Users, RefCountExact
<1> QED BY <1>2, <1>3, <1>4, <1>5, FS_EmptySet

\* The counts when a node and its first record are added.
LEMMA CountsAfterNode ==
    ASSUME TypeOK, RefCountExact, NEW h \in Handles, NEW info \in Infos,
           NEW n \in Nodes, NEW f \in Fonts,
           AddNode(info, n, f), AddRecord(h, info, n, f)
    PROVE  RefCountExact'
<1>1. /\ n \notin Held /\ Held' = Held \cup {n}
      /\ refer_ll'[n] = [ft_info |-> Stored(info), font_p |-> f, ref_cnt |-> 1]
      /\ \A m \in Held : refer_ll'[m] = refer_ll[m]
      /\ Cardinality(Users(n)) = 0
  BY AddNodeFacts
<1>2. refer_ll'[n].font_p = f /\ refer_ll'[n].ref_cnt = Cardinality(Users(n)) + 1
  BY <1>1
<1> QED BY <1>1, <1>2, CountsAfterAdd

\* An entry taken from the cache leaves the other entries, in their order.
LEMMA TakeFacts ==
    ASSUME TypeOK, Ownership, NEW i \in DOMAIN cache_ll, TakeFromCache(i)
    PROVE  /\ cache_ll' \in Seq(CacheRecord)
           /\ Len(cache_ll') = Len(cache_ll) - 1
           /\ \A j \in DOMAIN cache_ll' : \E k \in DOMAIN cache_ll :
                k # i /\ cache_ll'[j] = cache_ll[k]
           /\ \A j, k \in DOMAIN cache_ll' :
                cache_ll'[j].font = cache_ll'[k].font => j = k
           /\ CacheFonts' = CacheFonts \ {cache_ll[i].font}
<1>1. /\ cache_ll \in Seq(CacheRecord) /\ Len(cache_ll) \in Nat
      /\ i \in 1..Len(cache_ll) /\ DOMAIN cache_ll = 1..Len(cache_ll)
  BY DEF TypeOK
<1>2. /\ cache_ll' \in Seq(CacheRecord)
      /\ Len(cache_ll') = Len(cache_ll) - 1
      /\ \A j \in 1..(Len(cache_ll) - 1) :
           cache_ll'[j] = IF j < i THEN cache_ll[j] ELSE cache_ll[j + 1]
  BY <1>1, RemoveAtFacts DEF TakeFromCache
<1>3. DOMAIN cache_ll' = 1..(Len(cache_ll) - 1)
  BY <1>2, LenProperties
<1> DEFINE old(j) == IF j < i THEN j ELSE j + 1
<1>4. ASSUME NEW j \in 1..(Len(cache_ll) - 1)
      PROVE  /\ old(j) \in 1..Len(cache_ll) /\ old(j) # i
             /\ cache_ll'[j] = cache_ll[old(j)]
  BY <1>1, <1>2
<1>5. \A j, k \in 1..(Len(cache_ll) - 1) : old(j) = old(k) => j = k
  BY <1>1
<1>6. ASSUME NEW k \in 1..Len(cache_ll), k # i
      PROVE  \E j \in 1..(Len(cache_ll) - 1) : cache_ll'[j] = cache_ll[k]
  <2>1. CASE k < i
    <3>1. k \in 1..(Len(cache_ll) - 1) /\ cache_ll'[k] = cache_ll[k]
      BY <1>1, <1>2, <2>1
    <3> QED BY <3>1
  <2>2. CASE k > i
    <3>1. /\ k - 1 \in 1..(Len(cache_ll) - 1) /\ ~(k - 1 < i)
          /\ (k - 1) + 1 = k
      BY <1>1, <2>2
    <3>2. cache_ll'[k - 1] = cache_ll[k]
      BY <1>2, <3>1
    <3> QED BY <3>1, <3>2
  <2> QED BY <1>1, <1>6, <2>1, <2>2
<1> HIDE DEF old
<1>7. \A j, k \in DOMAIN cache_ll :
        cache_ll[j].font = cache_ll[k].font => j = k
  BY DEF Ownership
<1>8. \A j, k \in DOMAIN cache_ll' :
        cache_ll'[j].font = cache_ll'[k].font => j = k
  BY <1>1, <1>3, <1>4, <1>5, <1>7
<1>9. CacheFonts' = CacheFonts \ {cache_ll[i].font}
  <2>1. CacheFonts' = {cache_ll'[j].font : j \in 1..(Len(cache_ll) - 1)}
    BY <1>3 DEF CacheFonts
  <2>2. CacheFonts = {cache_ll[j].font : j \in 1..Len(cache_ll)}
    BY <1>1 DEF CacheFonts
  <2>3. \A k \in 1..Len(cache_ll) : cache_ll[k].font = cache_ll[i].font => k = i
    BY <1>1, <1>7
  <2>4. CacheFonts' \subseteq CacheFonts \ {cache_ll[i].font}
    BY <1>4, <2>1, <2>2, <2>3
  <2>5. CacheFonts \ {cache_ll[i].font} \subseteq CacheFonts'
    BY <1>6, <2>1, <2>2
  <2> QED BY <2>4, <2>5
<1> QED BY <1>1, <1>2, <1>3, <1>4, <1>8, <1>9

\* A request answered from the cache.
LEMMA ReuseFontStep ==
    ASSUME IInv, NEW h \in Handles, NEW info \in Infos, ReuseFont(h, info)
    PROVE  IInv'
<1> USE DEF IInv
<1>1. PICK i \in DOMAIN cache_ll, n \in Nodes :
        /\ AddNode(info, n, cache_ll[i].font)
        /\ AddRecord(h, info, n, cache_ll[i].font)
        /\ TakeFromCache(i)
  BY DEF ReuseFont
<1>2. PICK f \in Fonts : f = cache_ll[i].font
  BY CacheEntry
<1>3. /\ UNCHANGED <<manager, emoji_manager, path_ll, base_path, freetype>>
      /\ manager
  BY DEF ReuseFont, config
<1>4. AddNode(info, n, f) /\ AddRecord(h, info, n, f)
  BY <1>1, <1>2
<1>5. /\ n \notin Held /\ Held' = Held \cup {n} /\ refer_ll'[n].font_p = f
      /\ refer_ll'[n].ft_info = Stored(info)
      /\ \A m \in Held : refer_ll'[m] = refer_ll[m]
  BY <1>4, AddNodeFacts
<1>6. /\ cache_ll' \in Seq(CacheRecord)
      /\ Len(cache_ll') = Len(cache_ll) - 1
      /\ \A j \in DOMAIN cache_ll' : \E k \in DOMAIN cache_ll :
           k # i /\ cache_ll'[j] = cache_ll[k]
      /\ \A j, k \in DOMAIN cache_ll' :
           cache_ll'[j].font = cache_ll'[k].font => j = k
      /\ CacheFonts' = CacheFonts \ {f}
  BY <1>1, <1>2, TakeFacts
<1>7. TypeOK'
  BY <1>3, <1>4, <1>6, AddRecordType, AddNodeType DEF TypeOK
<1>8. RefCountExact'
  BY <1>4, CountsAfterNode
<1>9. Ownership'
  <2>1. \A m \in Held : refer_ll[m].font_p # f
    BY <1>2 DEF Ownership
  <2>2. \A m, k \in Held' : refer_ll'[m].font_p = refer_ll'[k].font_p => m = k
    BY <2>1, <1>5 DEF Ownership
  <2>3. ASSUME NEW m \in Held', NEW j \in DOMAIN cache_ll'
        PROVE  refer_ll'[m].font_p # cache_ll'[j].font
    <3>1. PICK k \in DOMAIN cache_ll : k # i /\ cache_ll'[j] = cache_ll[k]
      BY <1>6
    <3>2. cache_ll[k].font # f
      BY <3>1, <1>2 DEF Ownership
    <3> QED BY <3>1, <3>2, <1>5 DEF Ownership
  <2>4. {refer_ll'[m].font_p : m \in Held'} = {refer_ll[m].font_p : m \in Held} \cup {f}
    BY <1>5
  <2>5. f \in CacheFonts /\ Live' = Live
    BY <1>2, <1>3 DEF CacheFonts, Live
  <2>6. Live' = {refer_ll'[m].font_p : m \in Held'} \cup CacheFonts'
    BY <2>4, <2>5, <1>6 DEF Ownership
  <2> QED BY <1>6, <2>2, <2>3, <2>6 DEF Ownership
<1>10. CacheBound'
  <2>1. Len(cache_ll') <= CacheSize
    BY <1>6, SizeAssumption DEF CacheBound, TypeOK
  <2>2. \A j \in DOMAIN cache_ll' : ~IsEmoji(cache_ll'[j].ft_info)
    BY <1>6 DEF CacheBound
  <2> QED BY <2>1, <2>2 DEF CacheBound, IsEmoji
<1>11. NothingOutlivesManager'
  BY <1>3 DEF NothingOutlivesManager
<1>12. EmojiManaged'
  <2>1. ~IsEmoji(Stored(info))
    BY StoredInfo DEF ReuseFont
  <2> QED BY <2>1, <1>3, <1>5 DEF EmojiManaged, IsEmoji
<1> QED BY <1>7, <1>8, <1>9, <1>10, <1>11, <1>12

\* A request for which a font object is made.
LEMMA OpenFontStep ==
    ASSUME IInv, NEW h \in Handles, NEW info \in Infos, OpenFont(h, info)
    PROVE  IInv'
<1> USE DEF IInv
<1>1. PICK p \in Paths \cup {NULL}, f \in Fonts \ Live, n \in Nodes :
        /\ CanOpen(info, p)
        /\ freetype' = [freetype EXCEPT ![f] = [path |-> p, made_for |-> info]]
        /\ AddNode(info, n, f)
        /\ AddRecord(h, info, n, f)
  BY DEF OpenFont
<1>2. /\ UNCHANGED <<manager, emoji_manager, path_ll, base_path, cache_ll>>
      /\ manager
  BY DEF OpenFont, config
<1>3. /\ n \notin Held /\ Held' = Held \cup {n} /\ refer_ll'[n].font_p = f
      /\ refer_ll'[n].ft_info = Stored(info)
      /\ \A m \in Held : refer_ll'[m] = refer_ll[m]
  BY <1>1, AddNodeFacts
<1>4. [path |-> p, made_for |-> info] \in FontObject
  BY DEF FontObject
<1>5. freetype' \in [Fonts -> FontObject \cup {NULL}] /\ Live' = Live \cup {f}
  BY <1>1, <1>4, NullAssumption DEF TypeOK, Live
<1>6. TypeOK'
  BY <1>1, <1>2, <1>5, AddRecordType, AddNodeType DEF TypeOK
<1>7. RefCountExact'
  BY <1>1, CountsAfterNode
<1>8. Ownership'
  <2>1. CacheFonts' = CacheFonts
    BY <1>2 DEF CacheFonts
  <2>2. \A m \in Held : refer_ll[m].font_p # f
    BY <1>1 DEF Ownership
  <2>3. \A i \in DOMAIN cache_ll : cache_ll[i].font # f
    BY <1>1 DEF Ownership, CacheFonts
  <2>4. {refer_ll'[m].font_p : m \in Held'} = {refer_ll[m].font_p : m \in Held} \cup {f}
    BY <1>3
  <2>5. Live' = {refer_ll'[m].font_p : m \in Held'} \cup CacheFonts'
    BY <2>1, <2>4, <1>5 DEF Ownership
  <2>6. \A m, k \in Held' : refer_ll'[m].font_p = refer_ll'[k].font_p => m = k
    BY <2>2, <1>3 DEF Ownership
  <2>7. \A m \in Held', i \in DOMAIN cache_ll' : refer_ll'[m].font_p # cache_ll'[i].font
    BY <2>3, <1>2, <1>3 DEF Ownership
  <2>8. \A i, j \in DOMAIN cache_ll' : cache_ll'[i].font = cache_ll'[j].font => i = j
    BY <1>2 DEF Ownership
  <2> QED BY <2>5, <2>6, <2>7, <2>8 DEF Ownership
<1>9. CacheBound'
  BY <1>2 DEF CacheBound
<1>10. NothingOutlivesManager'
  BY <1>2 DEF NothingOutlivesManager
<1>11. EmojiManaged'
  <2>1. IsEmoji(Stored(info)) => emoji_manager
    BY <1>1, StoredInfo DEF CanOpen
  <2> QED BY <2>1, <1>2, <1>3 DEF EmojiManaged, IsEmoji
<1> QED BY <1>6, <1>7, <1>8, <1>9, <1>10, <1>11

--------------------------------------------------------------------------------
(* Deletion.                                                                  *)

\* set_reuse puts the font in front and closes at most the font at the tail.
LEMMA SetReuseFacts ==
    ASSUME TypeOK, Ownership, CacheBound, CacheSize > 0,
           NEW entry \in CacheRecord, entry.font \notin CacheFonts,
           SetReuse(entry)
    PROVE  /\ cache_ll' \in Seq(CacheRecord) /\ Len(cache_ll') <= CacheSize
           /\ \A j \in DOMAIN cache_ll' :
                cache_ll'[j] = entry
                  \/ \E k \in DOMAIN cache_ll : cache_ll'[j] = cache_ll[k]
           /\ \A j, k \in DOMAIN cache_ll' :
                cache_ll'[j].font = cache_ll'[k].font => j = k
           /\ \E T \in SUBSET CacheFonts :
                /\ Destroy(T)
                /\ CacheFonts' = (CacheFonts \ T) \cup {entry.font}
<1> DEFINE len == Len(cache_ll)
<1>1. /\ cache_ll \in Seq(CacheRecord) /\ len \in Nat
      /\ DOMAIN cache_ll = 1..len /\ len <= CacheSize /\ CacheSize \in Nat
      /\ freetype \in [Fonts -> FontObject \cup {NULL}]
  BY SizeAssumption DEF TypeOK, CacheBound
<1> HIDE DEF len
<1>2. PICK new \in Nat, T \in SUBSET CacheFonts :
        /\ cache_ll' \in Seq(CacheRecord) /\ DOMAIN cache_ll' = 1..new
        /\ Len(cache_ll') = new /\ new \in 1..CacheSize /\ new <= len + 1
        /\ cache_ll'[1] = entry
        /\ \A j \in 2..new : cache_ll'[j] = cache_ll[j - 1]
        /\ Destroy(T)
        /\ T = {cache_ll[k].font : k \in new..len}
  <2>1. CASE len >= CacheSize
    <3>1. /\ Front(cache_ll) \in Seq(CacheRecord) /\ Len(Front(cache_ll)) = len - 1
          /\ \A j \in 1..(len - 1) : Front(cache_ll)[j] = cache_ll[j]
          /\ Last(cache_ll) = cache_ll[len]
      <4>1. Len(cache_ll) > 0
        BY <1>1, <2>1 DEF len
      <4> QED BY <1>1, <4>1, FrontFacts DEF len
    <3>2. cache_ll' = Cons(entry, Front(cache_ll)) /\ Destroy({cache_ll[len].font})
      BY <2>1, <3>1 DEF SetReuse, len
    <3>0. LET s == Front(cache_ll) IN
          /\ Cons(entry, s) \in Seq(CacheRecord) /\ Len(Cons(entry, s)) = Len(s) + 1
          /\ Cons(entry, s)[1] = entry
          /\ \A j \in 2..(Len(s) + 1) : Cons(entry, s)[j] = s[j - 1]
      BY <3>1, ConsFacts
    <3>3. /\ cache_ll' \in Seq(CacheRecord) /\ Len(cache_ll') = (len - 1) + 1
          /\ cache_ll'[1] = entry
          /\ \A j \in 2..((len - 1) + 1) : cache_ll'[j] = Front(cache_ll)[j - 1]
      BY <3>0, <3>1, <3>2
    <3>4. \A j \in 2..len : cache_ll'[j] = cache_ll[j - 1]
      BY <1>1, <3>1, <3>3
    <3>5. Len(cache_ll') = len /\ DOMAIN cache_ll' = 1..len
      BY <1>1, <3>3, LenProperties
    <3>6. {cache_ll[len].font} = {cache_ll[k].font : k \in len..len}
      BY <1>1
    <3>7. len \in 1..len /\ len \in 1..CacheSize
      BY <1>1, <2>1
    <3>8. {cache_ll[len].font} \in SUBSET CacheFonts
      BY <1>1, <3>7 DEF CacheFonts
    <3> WITNESS len \in Nat, {cache_ll[len].font} \in SUBSET CacheFonts
    <3> QED BY <1>1, <3>2, <3>3, <3>4, <3>5, <3>6, <3>7
  <2>2. CASE ~(len >= CacheSize)
    <3>1. cache_ll' = Cons(entry, cache_ll) /\ freetype' = freetype
      BY <2>2 DEF SetReuse, len
    <3>0. /\ Cons(entry, cache_ll) \in Seq(CacheRecord)
          /\ Len(Cons(entry, cache_ll)) = Len(cache_ll) + 1
          /\ Cons(entry, cache_ll)[1] = entry
          /\ \A j \in 2..(Len(cache_ll) + 1) : Cons(entry, cache_ll)[j] = cache_ll[j - 1]
      BY <1>1, ConsFacts
    <3>2. /\ cache_ll' \in Seq(CacheRecord) /\ Len(cache_ll') = len + 1
          /\ cache_ll'[1] = entry
          /\ \A j \in 2..(len + 1) : cache_ll'[j] = cache_ll[j - 1]
      BY <3>0, <3>1 DEF len
    <3>3. DOMAIN cache_ll' = 1..(len + 1)
      BY <3>2, LenProperties
    <3>4. Destroy({})
      BY <1>1, <3>1 DEF Destroy
    <3>5. {} = {cache_ll[k].font : k \in (len + 1)..len} /\ {} \in SUBSET CacheFonts
      BY <1>1
    <3>6. len + 1 \in Nat /\ len + 1 \in 1..CacheSize
      BY <1>1, <2>2
    <3> WITNESS len + 1 \in Nat, {} \in SUBSET CacheFonts
    <3> QED BY <3>2, <3>3, <3>4, <3>5, <3>6, <1>1
  <2> QED BY <2>1, <2>2
<1>3. \A j \in 2..new : j - 1 \in 1..len /\ j - 1 < new
  BY <1>1, <1>2
<1>4. \A j \in 1..new : j = 1 \/ j \in 2..new
  BY <1>2
<1>5. \A j \in DOMAIN cache_ll' :
        cache_ll'[j] = entry \/ \E k \in DOMAIN cache_ll : cache_ll'[j] = cache_ll[k]
  BY <1>1, <1>2, <1>3, <1>4
<1>6. \A j \in 2..new : cache_ll'[j].font # entry.font
  BY <1>1, <1>2, <1>3 DEF CacheFonts
<1>7. \A j, k \in 1..len : cache_ll[j].font = cache_ll[k].font => j = k
  BY <1>1 DEF Ownership
<1>8. ASSUME NEW j \in 1..new, NEW k \in 1..new, cache_ll'[j].font = cache_ll'[k].font
      PROVE  j = k
  <2>1. CASE j = 1 \/ k = 1
    BY <2>1, <1>2, <1>4, <1>6, <1>8
  <2>2. CASE j \in 2..new /\ k \in 2..new
    <3>1. j - 1 = k - 1
      BY <2>2, <1>2, <1>3, <1>7, <1>8
    <3> QED BY <3>1
  <2> QED BY <2>1, <2>2, <1>4
<1>9. CacheFonts' = (CacheFonts \ T) \cup {entry.font}
  <2>1. CacheFonts' = {cache_ll'[j].font : j \in 1..new}
    BY <1>2 DEF CacheFonts
  <2>2. CacheFonts = {cache_ll[j].font : j \in 1..len}
    BY <1>1 DEF CacheFonts
  <2>3. ASSUME NEW j \in 2..new
        PROVE  cache_ll'[j].font \in CacheFonts \ T
    <3>1. /\ j - 1 \in 1..len /\ j - 1 < new
          /\ cache_ll'[j] = cache_ll[j - 1]
      BY <1>2, <1>3
    <3>2. \A k \in new..len : k \in 1..len /\ k # j - 1
      BY <1>1, <1>2, <3>1
    <3>3. cache_ll[j - 1].font \notin T
      BY <1>2, <1>7, <3>1, <3>2
    <3> QED BY <2>2, <3>1, <3>3
  <2>4. ASSUME NEW k \in 1..len, cache_ll[k].font \notin T
        PROVE  cache_ll[k].font \in CacheFonts'
    <3>1. k < new
      BY <1>1, <1>2, <2>4
    <3>2. k + 1 \in 2..new /\ k + 1 \in 1..new /\ (k + 1) - 1 = k
      BY <1>2, <3>1
    <3>3. cache_ll'[k + 1] = cache_ll[k]
      BY <1>2, <3>2
    <3> QED BY <2>1, <3>2, <3>3
  <2>5. 1 \in 1..new /\ cache_ll'[1].font = entry.font
    BY <1>2
  <2> QED BY <2>1, <2>2, <2>3, <2>4, <2>5, <1>4
<1>10. Len(cache_ll') <= CacheSize
  BY <1>2
<1> QED BY <1>2, <1>5, <1>8, <1>9, <1>10

\* The record h goes: its node n counts one less, or goes with it.
LEMMA CountsAfterRemove ==
    ASSUME TypeOK, RefCountExact, NEW h \in InUse, NEW n \in Held,
           rec_ll[h].refer_node_p = n, rec_ll' = [rec_ll EXCEPT ![h] = NULL],
           \/ /\ refer_ll[n].ref_cnt > 1 /\ Held' = Held
              /\ refer_ll'[n].ref_cnt = refer_ll[n].ref_cnt - 1
           \/ /\ ~(refer_ll[n].ref_cnt > 1) /\ Held' = Held \ {n},
           \A m \in Held' : /\ refer_ll'[m].font_p = refer_ll[m].font_p
                            /\ m # n => refer_ll'[m] = refer_ll[m]
    PROVE  RefCountExact'
<1>1. /\ InUse' = InUse \ {h}
      /\ \A g \in InUse' : rec_ll'[g] = rec_ll[g]
      /\ \A m : m # n => Users(m)' = Users(m)
      /\ Cardinality(Users(n)') = Cardinality(Users(n)) - 1
  BY RemoveRecordUsers
<1>2. /\ refer_ll[n].ref_cnt = Cardinality(Users(n))
      /\ Cardinality(Users(n)) \in Nat /\ h \in Users(n)
  BY UsersFinite DEF RefCountExact, Users
<1>3. \A g \in InUse' : rec_ll[g].refer_node_p \in Held'
  <2>1. CASE Held' = Held
    BY <2>1, <1>1 DEF RefCountExact
  <2>2. CASE ~(refer_ll[n].ref_cnt > 1) /\ Held' = Held \ {n}
    <3>1. Users(n) = {h}
      BY <1>2, <2>2, LastUser
    <3>2. \A g \in InUse' : rec_ll[g].refer_node_p # n
      BY <1>1, <3>1 DEF Users
    <3> QED BY <1>1, <2>2, <3>2 DEF RefCountExact
  <2> QED BY <2>1, <2>2
<1>4. ASSUME NEW m \in Held'
      PROVE  refer_ll'[m].ref_cnt = Cardinality(Users(m)') /\ refer_ll'[m].ref_cnt > 0
  <2>1. CASE m = n
    BY <1>1, <1>2, <2>1
  <2>2. CASE m # n
    <3>1. Users(m)' = Users(m) /\ m \in Held /\ refer_ll'[m] = refer_ll[m]
      BY <1>1, <2>2
    <3> QED BY <3>1 DEF RefCountExact
  <2> QED BY <2>1, <2>2
<1>5. ASSUME NEW g \in InUse'
      PROVE  /\ rec_ll'[g].refer_node_p \in Held'
             /\ refer_ll'[rec_ll'[g].refer_node_p].font_p = rec_ll'[g].font
  BY <1>1, <1>3 DEF RefCountExact
<1> QED BY <1>4, <1>5 DEF RefCountExact

\* Where the font f of a dying node goes: it is destroyed, or it goes into the
\* cache in the place of the fonts T that the cache closes.
LEMMA DeleteWrapperFacts ==
    ASSUME IInv, NEW node \in NodeRecord, NEW f \in Fonts, node.font_p = f,
           node.ft_info \in Infos, f \notin CacheFonts,
           IsEmoji(node.ft_info) => emoji_manager, DeleteWrapper(node)
    PROVE  /\ \A j, k \in DOMAIN cache_ll' :
                cache_ll'[j].font = cache_ll'[k].font => j = k
           /\ \E T \in SUBSET (CacheFonts \cup {f}) :
                /\ Destroy(T)
                /\ CacheFonts' = (CacheFonts \cup {f}) \ T
           /\ CacheBound'
<1> USE DEF IInv
<1>1. CASE UNCHANGED cache_ll /\ Destroy({f})
  <2>1. CacheFonts' = (CacheFonts \cup {f}) \ {f}
    BY <1>1 DEF CacheFonts
  <2>2. CacheBound'
    BY <1>1 DEF CacheBound
  <2>3. {f} \in SUBSET (CacheFonts \cup {f})
    OBVIOUS
  <2> QED BY <1>1, <2>1, <2>2, <2>3 DEF Ownership
<1>2. CASE /\ ~IsEmoji(node.ft_info) /\ CacheSize > 0
           /\ SetReuse([ft_info |-> Stored(node.ft_info), font |-> f])
  <2> DEFINE entry == [ft_info |-> Stored(node.ft_info), font |-> f]
  <2>1. entry \in CacheRecord /\ entry.font = f /\ ~IsEmoji(entry.ft_info)
    BY <1>2, StoredInfo DEF CacheRecord
  <2>2. SetReuse(entry)
    BY <1>2
  <2> HIDE DEF entry
  <2>3. /\ cache_ll' \in Seq(CacheRecord) /\ Len(cache_ll') <= CacheSize
        /\ \A j \in DOMAIN cache_ll' :
             cache_ll'[j] = entry
               \/ \E k \in DOMAIN cache_ll : cache_ll'[j] = cache_ll[k]
        /\ \A j, k \in DOMAIN cache_ll' :
             cache_ll'[j].font = cache_ll'[k].font => j = k
        /\ \E T \in SUBSET CacheFonts :
             /\ Destroy(T)
             /\ CacheFonts' = (CacheFonts \ T) \cup {f}
    BY <1>2, <2>1, <2>2, SetReuseFacts
  <2>4. CacheBound'
    BY <2>1, <2>3 DEF CacheBound, IsEmoji
  <2>5. PICK T \in SUBSET CacheFonts :
          Destroy(T) /\ CacheFonts' = (CacheFonts \ T) \cup {f}
    BY <2>3
  <2>6. CacheFonts' = (CacheFonts \cup {f}) \ T /\ T \in SUBSET (CacheFonts \cup {f})
    BY <2>5
  <2> QED BY <2>3, <2>4, <2>5, <2>6
<1> QED BY <1>1, <1>2 DEF DeleteWrapper

\* font_manager_delete_font keeps the invariant.
LEMMA DeleteFontStep ==
    ASSUME IInv, NEW h \in Handles, DeleteFont(h)
    PROVE  IInv'
<1> USE DEF IInv
<1>1. /\ h \in InUse /\ manager
      /\ DropFont(rec_ll[h].refer_node_p)
      /\ rec_ll' = [rec_ll EXCEPT ![h] = NULL]
      /\ asked' = [asked EXCEPT ![h] = NULL]
      /\ UNCHANGED <<manager, emoji_manager, path_ll, base_path>>
  BY DEF DeleteFont, config
<1>2. PICK n \in Held : n = rec_ll[h].refer_node_p
  BY <1>1 DEF RefCountExact
<1>3. PICK f \in Fonts : f = refer_ll[n].font_p
  BY HeldNode
<1>4. /\ n \in Nodes /\ refer_ll[n] \in NodeRecord /\ refer_ll[n].ref_cnt \in Nat
      /\ refer_ll[n].ft_info \in Infos /\ DropFont(n)
      /\ refer_ll \in [Nodes -> NodeRecord \cup {NULL}]
  BY <1>1, <1>2, HeldNode DEF TypeOK
<1>5. TypeOK'
  <2>1. /\ rec_ll' \in [Handles -> FontRecord \cup {NULL}]
        /\ asked' \in [Handles -> Infos \cup {NULL}]
    BY <1>1 DEF TypeOK
  <2> QED BY <2>1, <1>1, <1>4, DropFontType DEF TypeOK
<1>6. CASE refer_ll[n].ref_cnt > 1
  <2>1. /\ refer_ll' = [refer_ll EXCEPT ![n] =
                           [refer_ll[n] EXCEPT !.ref_cnt = refer_ll[n].ref_cnt - 1]]
        /\ UNCHANGED <<cache_ll, freetype>>
    BY <1>4, <1>6 DEF DropFont
  <2>2. [refer_ll[n] EXCEPT !.ref_cnt = refer_ll[n].ref_cnt - 1] \in NodeRecord
    BY <1>4, <1>6 DEF NodeRecord
  <2>3. /\ Held' = Held
        /\ refer_ll'[n].ref_cnt = refer_ll[n].ref_cnt - 1
        /\ \A m \in Held : /\ refer_ll'[m].font_p = refer_ll[m].font_p
                           /\ refer_ll'[m].ft_info = refer_ll[m].ft_info
                           /\ m # n => refer_ll'[m] = refer_ll[m]
    BY <2>1, <2>2, <1>4, NullAssumption DEF Held, NodeRecord
  <2>4. RefCountExact'
    BY <1>1, <1>2, <1>6, <2>3, CountsAfterRemove
  <2>5. Ownership'
    <3>1. Live' = Live /\ CacheFonts' = CacheFonts
      BY <2>1 DEF Live, CacheFonts
    <3>2. {refer_ll'[m].font_p : m \in Held'} = {refer_ll[m].font_p : m \in Held}
      BY <2>3
    <3> QED BY <3>1, <3>2, <2>1, <2>3 DEF Ownership
  <2>6. CacheBound' /\ NothingOutlivesManager' /\ EmojiManaged'
    BY <1>1, <2>1, <2>3
       DEF CacheBound, NothingOutlivesManager, EmojiManaged, IsEmoji
  <2> QED BY <1>5, <2>4, <2>5, <2>6
<1>7. CASE ~(refer_ll[n].ref_cnt > 1)
  <2>1. refer_ll' = [refer_ll EXCEPT ![n] = NULL] /\ DeleteWrapper(refer_ll[n])
    BY <1>7, <1>4 DEF DropFont
  <2>2. Held' = Held \ {n} /\ \A m \in Held' : refer_ll'[m] = refer_ll[m]
    BY <2>1, <1>4 DEF Held
  <2>3. RefCountExact'
    BY <1>1, <1>2, <1>7, <2>2, CountsAfterRemove
  <2>4. f \notin CacheFonts /\ (IsEmoji(refer_ll[n].ft_info) => emoji_manager)
    BY <1>3 DEF Ownership, CacheFonts, EmojiManaged
  <2>5. /\ \A j, k \in DOMAIN cache_ll' :
             cache_ll'[j].font = cache_ll'[k].font => j = k
        /\ \E T \in SUBSET (CacheFonts \cup {f}) :
             /\ Destroy(T)
             /\ CacheFonts' = (CacheFonts \cup {f}) \ T
        /\ CacheBound'
    BY <1>3, <1>4, <2>1, <2>4, DeleteWrapperFacts
  <2>6. PICK T \in SUBSET (CacheFonts \cup {f}) :
          Destroy(T) /\ CacheFonts' = (CacheFonts \cup {f}) \ T
    BY <2>5
  <2>7. Live' = Live \ T
    BY <2>6 DEF Live, Destroy
  <2>8. Ownership'
    <3>1. \A m \in Held' : refer_ll[m].font_p \notin CacheFonts \cup {f}
      BY <1>3, <2>2 DEF Ownership, CacheFonts
    <3>2. {refer_ll'[m].font_p : m \in Held'} = {refer_ll[m].font_p : m \in Held} \ {f}
      BY <1>3, <2>2 DEF Ownership
    <3>3. Live' = {refer_ll'[m].font_p : m \in Held'} \cup CacheFonts'
      <4>1. Live = {refer_ll[m].font_p : m \in Held} \cup CacheFonts
        BY DEF Ownership
      <4>2. f \in {refer_ll[m].font_p : m \in Held}
        BY <1>3
      <4>3. {refer_ll'[m].font_p : m \in Held'} \cap (CacheFonts \cup {f}) = {}
        BY <3>1, <2>2
      <4> QED BY <4>1, <4>2, <4>3, <3>2, <2>6, <2>7
    <3>4. \A m \in Held', j \in DOMAIN cache_ll' :
            refer_ll'[m].font_p # cache_ll'[j].font
      BY <3>1, <2>2, <2>6 DEF CacheFonts
    <3>5. \A m, k \in Held' : refer_ll'[m].font_p = refer_ll'[k].font_p => m = k
      BY <2>2 DEF Ownership
    <3> QED BY <2>5, <3>3, <3>4, <3>5 DEF Ownership
  <2>9. NothingOutlivesManager' /\ EmojiManaged'
    BY <1>1, <2>2 DEF NothingOutlivesManager, EmojiManaged, IsEmoji
  <2> QED BY <1>5, <2>3, <2>5, <2>8, <2>9
<1> QED BY <1>6, <1>7

--------------------------------------------------------------------------------
(* The other calls, and the theorem.                                          *)

\* A call that leaves the fonts and the manager alone.
LEMMA FontsUnchangedStep ==
    ASSUME IInv, UNCHANGED <<manager, emoji_manager, fonts>>,
           path_ll' \in Seq(PathRecord), base_path' \in Bases
    PROVE  IInv'
<1> USE DEF IInv
<1>1. UNCHANGED <<manager, emoji_manager, refer_ll, rec_ll, cache_ll, freetype, asked>>
  BY DEF fonts
<1>2. /\ InUse' = InUse /\ Held' = Held /\ Live' = Live /\ CacheFonts' = CacheFonts
      /\ \A n : Users(n)' = Users(n)
  BY <1>1 DEF InUse, Held, Live, CacheFonts, Users
<1>3. TypeOK'
  BY <1>1 DEF TypeOK
<1>4. RefCountExact'
  BY <1>1, <1>2 DEF RefCountExact
<1>5. Ownership'
  BY <1>1, <1>2 DEF Ownership
<1>6. CacheBound' /\ EmojiManaged'
  BY <1>1, <1>2 DEF CacheBound, EmojiManaged, IsEmoji
<1>7. NothingOutlivesManager'
  BY <1>1, <1>2 DEF NothingOutlivesManager
<1> QED BY <1>3, <1>4, <1>5, <1>6, <1>7

\* add_path, remove_path and set_base_path keep the types of the path list.
LEMMA PathStep ==
    ASSUME IInv,
           \/ \E b \in Bases : SetBasePath(b)
           \/ \E name \in Names, q \in Paths : AddPath(name, q)
           \/ \E i \in 1..MaxPaths : RemovePath(i)
    PROVE  IInv'
<1>1. path_ll \in Seq(PathRecord) /\ base_path \in Bases
      /\ DOMAIN path_ll = 1..Len(path_ll)
  BY DEF IInv, TypeOK
<1>2. ASSUME NEW b \in Bases, SetBasePath(b) PROVE IInv'
  BY <1>1, <1>2, FontsUnchangedStep DEF SetBasePath
<1>3. ASSUME NEW name \in Names, NEW q \in Paths, AddPath(name, q) PROVE IInv'
  <2>1. [name |-> name, path |-> q] \in PathRecord
    BY DEF PathRecord
  <2>2. path_ll' \in Seq(PathRecord)
    BY <1>1, <1>3, <2>1 DEF AddPath
  <2> QED BY <1>1, <1>3, <2>2, FontsUnchangedStep DEF AddPath
<1>4. ASSUME NEW i \in 1..MaxPaths, RemovePath(i) PROVE IInv'
  <2>1. path_ll' \in Seq(PathRecord)
    BY <1>1, <1>4, RemoveAtFacts DEF RemovePath
  <2> QED BY <1>1, <1>4, <2>1, FontsUnchangedStep DEF RemovePath
<1> QED BY <1>2, <1>3, <1>4

\* font_manager_create keeps the invariant: it starts from empty lists.
LEMMA CreateManagerStep ==
    ASSUME IInv, NEW b \in Bases, NEW hasEmoji \in BOOLEAN,
           CreateManager(b, hasEmoji)
    PROVE  IInv'
<1> USE DEF IInv
<1>1. /\ ~manager /\ manager' = TRUE /\ emoji_manager' \in BOOLEAN
      /\ base_path' \in Bases /\ path_ll' = <<>> /\ cache_ll' = <<>>
      /\ refer_ll' = [n \in Nodes |-> NULL]
      /\ rec_ll' = [g \in Handles |-> NULL]
      /\ freetype' = freetype /\ asked' = asked
  BY DEF CreateManager
<1>2. Live = {}
  BY <1>1 DEF NothingOutlivesManager
<1>3. InUse' = {} /\ Held' = {} /\ Live' = {} /\ CacheFonts' = {}
      /\ DOMAIN cache_ll' = {} /\ Len(cache_ll') = 0
  BY <1>1, <1>2 DEF InUse, Held, Live, CacheFonts
<1>4. TypeOK'
  BY <1>1 DEF TypeOK
<1>5. RefCountExact' /\ EmojiManaged' /\ NothingOutlivesManager'
  BY <1>1, <1>3 DEF RefCountExact, EmojiManaged, NothingOutlivesManager
<1>6. Ownership' /\ CacheBound'
  BY <1>3, SizeAssumption DEF Ownership, CacheBound
<1> QED BY <1>4, <1>5, <1>6

\* font_manager_delete keeps the invariant: the cache held the last fonts.
LEMMA DeleteManagerStep ==
    ASSUME IInv, DeleteManager
    PROVE  IInv'
<1> USE DEF IInv
<1>1. /\ InUse = {} /\ Held = {} /\ manager' = FALSE /\ emoji_manager' = FALSE
      /\ path_ll' = <<>> /\ cache_ll' = <<>> /\ Destroy(CacheFonts)
      /\ UNCHANGED <<refer_ll, rec_ll, base_path, asked>>
  BY DEF DeleteManager, HasResource, ClearCache
<1>2. Live = CacheFonts
  BY <1>1 DEF Ownership
<1>3. InUse' = {} /\ Held' = {} /\ CacheFonts' = {}
      /\ DOMAIN cache_ll' = {} /\ Len(cache_ll') = 0
  BY <1>1 DEF InUse, Held, CacheFonts
<1>4. Live' = {}
  BY <1>1, <1>2 DEF Live, Destroy
<1>5. TypeOK'
  <2>1. manager' \in BOOLEAN /\ emoji_manager' \in BOOLEAN
    BY <1>1
  <2>2. path_ll' \in Seq(PathRecord) /\ cache_ll' \in Seq(CacheRecord)
    BY <1>1, EmptySeq
  <2>3. /\ refer_ll' \in [Nodes -> NodeRecord \cup {NULL}]
        /\ rec_ll' \in [Handles -> FontRecord \cup {NULL}]
        /\ freetype' \in [Fonts -> FontObject \cup {NULL}]
        /\ base_path' \in Bases /\ asked' \in [Handles -> Infos \cup {NULL}]
    BY <1>1, DestroyType DEF TypeOK
  <2> QED BY <2>1, <2>2, <2>3 DEF TypeOK
<1>6. RefCountExact' /\ EmojiManaged' /\ NothingOutlivesManager'
  BY <1>3, <1>4 DEF RefCountExact, EmojiManaged, NothingOutlivesManager
<1>7. Ownership' /\ CacheBound'
  BY <1>3, <1>4, SizeAssumption DEF Ownership, CacheBound
<1> QED BY <1>5, <1>6, <1>7

\* The invariant holds before the first manager is made.
LEMMA InitInv == Init => IInv
<1> SUFFICES ASSUME Init PROVE IInv
  OBVIOUS
<1> USE DEF Init
<1>1. InUse = {} /\ Held = {} /\ Live = {} /\ CacheFonts = {}
      /\ DOMAIN cache_ll = {} /\ Len(cache_ll) = 0
  BY DEF InUse, Held, Live, CacheFonts
<1>2. TypeOK
  <2>1. manager \in BOOLEAN /\ emoji_manager \in BOOLEAN
    OBVIOUS
  <2>2. path_ll \in Seq(PathRecord) /\ cache_ll \in Seq(CacheRecord)
    BY EmptySeq
  <2> QED BY <2>1, <2>2, PathAssumption DEF TypeOK
<1>3. RefCountExact /\ EmojiManaged /\ NothingOutlivesManager
  BY <1>1 DEF RefCountExact, EmojiManaged, NothingOutlivesManager
<1>4. Ownership /\ CacheBound
  BY <1>1, SizeAssumption DEF Ownership, CacheBound
<1> QED BY <1>2, <1>3, <1>4 DEF IInv

\* Every call of the font manager keeps the invariant.
LEMMA StepInv == IInv /\ [Next]_vars => IInv'
<1> SUFFICES ASSUME IInv, [Next]_vars PROVE IInv'
  OBVIOUS
<1>1. ASSUME NEW h \in Handles, NEW info \in Infos, ShareFont(h, info) PROVE IInv'
  BY <1>1, ShareFontStep
<1>2. ASSUME NEW h \in Handles, NEW info \in Infos, ReuseFont(h, info) PROVE IInv'
  BY <1>2, ReuseFontStep
<1>3. ASSUME NEW h \in Handles, NEW info \in Infos, OpenFont(h, info) PROVE IInv'
  BY <1>3, OpenFontStep
<1>4. CASE UNCHANGED vars
  <2>1. /\ UNCHANGED <<manager, emoji_manager, fonts>>
        /\ path_ll' \in Seq(PathRecord) /\ base_path' \in Bases
    BY <1>4 DEF vars, fonts, IInv, TypeOK
  <2> QED BY <2>1, FontsUnchangedStep
<1>5. ASSUME NEW info \in Infos, CreateFails(info) PROVE IInv'
  BY <1>4, <1>5 DEF CreateFails
<1>6. ASSUME NEW h \in Handles, DeleteFont(h) PROVE IInv'
  BY <1>6, DeleteFontStep
<1>7. ASSUME \/ \E b \in Bases : SetBasePath(b)
             \/ \E name \in Names, q \in Paths : AddPath(name, q)
             \/ \E i \in 1..MaxPaths : RemovePath(i)
      PROVE  IInv'
  BY <1>7, PathStep
<1>8. ASSUME NEW hasEmoji \in BOOLEAN, CreateManager(NoBase, hasEmoji) PROVE IInv'
  BY <1>8, CreateManagerStep, PathAssumption
<1>9. CASE DeleteManager
  BY <1>9, DeleteManagerStep
<1> QED BY <1>1, <1>2, <1>3, <1>4, <1>5, <1>6, <1>7, <1>8, <1>9 DEF Next

\* The invariant the properties below rest on holds after any calls.
THEOREM Inductive == Spec => []IInv
<1>1. Init => IInv
  BY InitInv
<1>2. IInv /\ [Next]_vars => IInv'
  BY StepInv
<1> QED BY <1>1, <1>2, PTL DEF Spec

\* Every variable keeps its type: in particular no node is reached after it
\* was freed and no count is lost, through any sequence of calls.
THEOREM TypeCorrect == Spec => []TypeOK
<1>1. IInv => TypeOK
  BY DEF IInv
<1> QED BY <1>1, Inductive, PTL

\* ref_cnt is the number of the records on the node, and no record's node is
\* freed before the record, for any number of fonts and handles.
THEOREM CountsExact == Spec => []RefCountExact
<1>1. IInv => RefCountExact
  BY DEF IInv
<1> QED BY <1>1, Inductive, PTL

\* Every font object has exactly one owner and every owner's object exists:
\* no leak, no double deletion, no use after deletion, for every cache size
\* and whatever names are cut.
THEOREM OwnedOnce == Spec => []Ownership
<1>1. IInv => Ownership
  BY DEF IInv
<1> QED BY <1>1, Inductive, PTL

\* The cache respects its size and keeps freetype fonts only.
THEOREM CacheBounded == Spec => []CacheBound
<1>1. IInv => CacheBound
  BY DEF IInv
<1> QED BY <1>1, Inductive, PTL

\* A deleted manager has freed every font object it made.
THEOREM ManagerCleanup == Spec => []NothingOutlivesManager
<1>1. IInv => NothingOutlivesManager
  BY DEF IInv
<1> QED BY <1>1, Inductive, PTL

--------------------------------------------------------------------------------
(* What the calls do to lists and objects.                                    *)

\* A name that is not cut is kept as it is.
LEMMA StoredSame ==
    ASSUME NamesFit, NEW info \in Infos
    PROVE  Stored(info) = info
BY DEF NamesFit, Stored, Infos

\* A request answered by a live node.
LEMMA ShareFacts ==
    ASSUME IInv, NEW h \in Handles, NEW info \in Infos, ShareFont(h, info)
    PROVE  \E n \in Held :
             /\ refer_ll[n].ft_info = info
             /\ AddRecord(h, info, n, refer_ll[n].font_p)
             /\ Held' = Held
             /\ \A m \in Held : /\ refer_ll'[m].ft_info = refer_ll[m].ft_info
                                /\ refer_ll'[m].font_p = refer_ll[m].font_p
             /\ UNCHANGED <<cache_ll, freetype>>
<1>1. PICK n \in Matches(info) :
        /\ refer_ll' = [refer_ll EXCEPT ![n].ref_cnt = @ + 1]
        /\ AddRecord(h, info, n, refer_ll[n].font_p)
  BY DEF ShareFont, CountUp
<1>2. /\ n \in Held /\ n \in Nodes /\ refer_ll[n] \in NodeRecord /\ refer_ll[n].ref_cnt \in Nat
      /\ refer_ll[n].ft_info = info
  BY HeldNode DEF Matches, IInv
<1>3. refer_ll' = [refer_ll EXCEPT ![n] =
                     [refer_ll[n] EXCEPT !.ref_cnt = refer_ll[n].ref_cnt + 1]]
  BY <1>1
<1>4. /\ [refer_ll[n] EXCEPT !.ref_cnt = refer_ll[n].ref_cnt + 1] \in NodeRecord
      /\ refer_ll \in [Nodes -> NodeRecord \cup {NULL}]
  BY <1>2 DEF NodeRecord, IInv, TypeOK
<1>5. /\ Held' = Held
      /\ \A m \in Held : /\ refer_ll'[m].ft_info = refer_ll[m].ft_info
                         /\ refer_ll'[m].font_p = refer_ll[m].font_p
  BY <1>2, <1>3, <1>4, NullAssumption DEF Held, NodeRecord
<1> QED BY <1>1, <1>2, <1>5 DEF ShareFont

\* The deletion of a record: its node n stays and counts one less, or it goes and
\* with it its font, into the cache or away together with the fonts T.
LEMMA DeleteFacts ==
    ASSUME IInv, NEW h \in Handles, DeleteFont(h)
    PROVE  \E n \in Held, T \in SUBSET Fonts :
             LET f == refer_ll[n].font_p IN
             /\ h \in InUse /\ n = rec_ll[h].refer_node_p /\ f = rec_ll[h].font /\ f \in Fonts
             /\ rec_ll' = [rec_ll EXCEPT ![h] = NULL]
             /\ asked' = [asked EXCEPT ![h] = NULL]
             /\ Held' \subseteq Held
             /\ \A m \in Held' : /\ refer_ll'[m].ft_info = refer_ll[m].ft_info
                                 /\ refer_ll'[m].font_p = refer_ll[m].font_p
             /\ \A m \in Held : m # n => m \in Held'
             /\ T \subseteq CacheFonts \cup {f} /\ Destroy(T)
             /\ \A j \in DOMAIN cache_ll' :
                  \/ \E i \in DOMAIN cache_ll : cache_ll'[j] = cache_ll[i]
                  \/ cache_ll'[j] = [ft_info |-> Stored(refer_ll[n].ft_info), font |-> f]
             /\ \/ /\ refer_ll[n].ref_cnt > 1 /\ n \in Held'
                   /\ T = {} /\ CacheFonts' = CacheFonts
                \/ /\ ~(refer_ll[n].ref_cnt > 1) /\ n \notin Held'
                   /\ CacheFonts' = (CacheFonts \cup {f}) \ T
<1> USE DEF IInv
<1>1. /\ h \in InUse /\ manager
      /\ DropFont(rec_ll[h].refer_node_p)
      /\ rec_ll' = [rec_ll EXCEPT ![h] = NULL]
      /\ asked' = [asked EXCEPT ![h] = NULL]
  BY DEF DeleteFont
<1>2. PICK n \in Held : n = rec_ll[h].refer_node_p /\ refer_ll[n].font_p = rec_ll[h].font
  BY <1>1 DEF RefCountExact
<1>3. PICK f \in Fonts : f = refer_ll[n].font_p
  BY HeldNode
<1>4. /\ n \in Nodes /\ refer_ll[n] \in NodeRecord /\ refer_ll[n].ref_cnt \in Nat
      /\ refer_ll[n].ft_info \in Infos /\ DropFont(n)
      /\ refer_ll \in [Nodes -> NodeRecord \cup {NULL}]
  BY <1>1, <1>2, HeldNode DEF TypeOK
<1>5. /\ freetype \in [Fonts -> FontObject \cup {NULL}] /\ CacheFonts \subseteq Fonts
      /\ f \notin CacheFonts
      /\ IsEmoji(refer_ll[n].ft_info) => emoji_manager
  BY <1>3, CacheEntry DEF TypeOK, CacheFonts, Ownership, EmojiManaged
<1>6. CASE refer_ll[n].ref_cnt > 1
  <2>1. /\ refer_ll' = [refer_ll EXCEPT ![n] =
                           [refer_ll[n] EXCEPT !.ref_cnt = refer_ll[n].ref_cnt - 1]]
        /\ UNCHANGED <<cache_ll, freetype>>
    BY <1>4, <1>6 DEF DropFont
  <2>2. [refer_ll[n] EXCEPT !.ref_cnt = refer_ll[n].ref_cnt - 1] \in NodeRecord
    BY <1>4, <1>6 DEF NodeRecord
  <2>3. /\ Held' = Held
        /\ \A m \in Held : /\ refer_ll'[m].font_p = refer_ll[m].font_p
                           /\ refer_ll'[m].ft_info = refer_ll[m].ft_info
    BY <2>1, <2>2, <1>4, NullAssumption DEF Held, NodeRecord
  <2>4. Destroy({}) /\ CacheFonts' = CacheFonts
    BY <1>5, <2>1 DEF Destroy, CacheFonts
  <2>5. {} \in SUBSET Fonts
    OBVIOUS
  <2> WITNESS n \in Held, {} \in SUBSET Fonts
  <2> QED BY <1>1, <1>2, <1>3, <1>6, <2>1, <2>3, <2>4
<1>7. CASE ~(refer_ll[n].ref_cnt > 1)
  <2> DEFINE node == refer_ll[n]
             entry == [ft_info |-> Stored(node.ft_info), font |-> f]
  <2>1. refer_ll' = [refer_ll EXCEPT ![n] = NULL] /\ DeleteWrapper(node)
    BY <1>7, <1>4 DEF DropFont
  <2>2. Held' = Held \ {n} /\ \A m \in Held' : refer_ll'[m] = refer_ll[m]
    BY <2>1, <1>4 DEF Held
  <2>3. PICK T \in SUBSET (CacheFonts \cup {f}) :
          Destroy(T) /\ CacheFonts' = (CacheFonts \cup {f}) \ T
    BY <1>3, <1>4, <1>5, <2>1, DeleteWrapperFacts
  <2>4. entry \in CacheRecord /\ entry.font \notin CacheFonts
    BY <1>4, <1>5, StoredInfo DEF CacheRecord
  <2>5. \/ UNCHANGED cache_ll
        \/ CacheSize > 0 /\ SetReuse(entry)
    BY <1>3, <2>1 DEF DeleteWrapper
  <2> HIDE DEF entry
  <2>6. \A j \in DOMAIN cache_ll' :
          \/ \E i \in DOMAIN cache_ll : cache_ll'[j] = cache_ll[i]
          \/ cache_ll'[j] = entry
    <3>1. CASE UNCHANGED cache_ll
      BY <3>1
    <3>2. CASE CacheSize > 0 /\ SetReuse(entry)
      BY <2>4, <3>2, SetReuseFacts
    <3> QED BY <2>5, <3>1, <3>2
  <2>7. T \in SUBSET Fonts
    BY <1>3, <1>5, <2>3
  <2> WITNESS n \in Held, T \in SUBSET Fonts
  <2> QED BY <1>1, <1>2, <1>3, <1>7, <2>2, <2>3, <2>6 DEF entry
<1> QED BY <1>6, <1>7

--------------------------------------------------------------------------------
(* Nobody touches a font that is held.                                        *)

\* Only a font without a node is ever destroyed.
LEMMA StableHolds == IInv /\ [Next]_vars => StableStep
<1> SUFFICES ASSUME IInv, [Next]_vars, NEW g \in InUse, g \in InUse'
             PROVE  /\ rec_ll'[g] = rec_ll[g]
                    /\ freetype'[rec_ll[g].font] = freetype[rec_ll[g].font]
  BY DEF StableStep
<1> USE DEF IInv
<1>0. /\ rec_ll[g].refer_node_p \in Held
      /\ refer_ll[rec_ll[g].refer_node_p].font_p = rec_ll[g].font
      /\ rec_ll[g].font \in Live /\ rec_ll[g].font \in Fonts
      /\ rec_ll[g].font \notin CacheFonts
      /\ freetype \in [Fonts -> FontObject \cup {NULL}]
  BY InUseRecord DEF RefCountExact, Ownership, CacheFonts, TypeOK
<1>1. ASSUME NEW h \in Handles, NEW info \in Infos, NEW n \in Nodes, NEW f \in Fonts,
             AddRecord(h, info, n, f)
      PROVE  rec_ll'[g] = rec_ll[g]
  BY <1>1, AddRecordUsers
<1>2. ASSUME NEW h \in Handles, NEW info \in Infos, ShareFont(h, info)
      PROVE  rec_ll'[g] = rec_ll[g] /\ UNCHANGED freetype
  <2>1. PICK n \in Held : AddRecord(h, info, n, refer_ll[n].font_p) /\ UNCHANGED freetype
    BY <1>2, ShareFacts
  <2>2. n \in Nodes /\ refer_ll[n].font_p \in Fonts
    BY HeldNode
  <2> QED BY <1>1, <2>1, <2>2
<1>3. ASSUME NEW h \in Handles, NEW info \in Infos, ReuseFont(h, info)
      PROVE  rec_ll'[g] = rec_ll[g] /\ UNCHANGED freetype
  BY <1>1, <1>3, CacheEntry DEF ReuseFont
<1>4. ASSUME NEW h \in Handles, NEW info \in Infos, OpenFont(h, info)
      PROVE  rec_ll'[g] = rec_ll[g] /\ freetype'[rec_ll[g].font] = freetype[rec_ll[g].font]
  <2>1. PICK p \in Paths \cup {NULL}, f \in Fonts \ Live, n \in Nodes :
          /\ freetype' = [freetype EXCEPT ![f] = [path |-> p, made_for |-> info]]
          /\ AddRecord(h, info, n, f)
    BY <1>4 DEF OpenFont
  <2> QED BY <1>0, <1>1, <2>1
<1>5. ASSUME NEW h \in Handles, DeleteFont(h)
      PROVE  rec_ll'[g] = rec_ll[g] /\ freetype'[rec_ll[g].font] = freetype[rec_ll[g].font]
  <2>1. PICK n \in Held, T \in SUBSET Fonts :
             LET f == refer_ll[n].font_p IN
             /\ h \in InUse /\ n = rec_ll[h].refer_node_p
             /\ rec_ll' = [rec_ll EXCEPT ![h] = NULL]
             /\ T \subseteq CacheFonts \cup {f} /\ Destroy(T)
             /\ \/ refer_ll[n].ref_cnt > 1 /\ T = {}
                \/ ~(refer_ll[n].ref_cnt > 1)
    BY <1>5, DeleteFacts
  <2>2. g # h /\ rec_ll'[g] = rec_ll[g]
    BY <2>1 DEF TypeOK, InUse
  <2>3. rec_ll[g].font \notin T
    <3>1. CASE T = {}
      BY <3>1
    <3>2. CASE ~(refer_ll[n].ref_cnt > 1)
      <4>1. refer_ll[n].ref_cnt = Cardinality(Users(n)) /\ Cardinality(Users(n)) \in Nat
        BY UsersFinite DEF RefCountExact
      <4>2. h \in Users(n)
        BY <2>1 DEF Users
      <4>3. Users(n) = {h}
        BY <3>2, <4>1, <4>2, LastUser
      <4>4. rec_ll[g].refer_node_p # n
        BY <2>2, <4>3 DEF Users
      <4> QED BY <1>0, <2>1, <4>4 DEF Ownership
    <3> QED BY <2>1, <3>1, <3>2
  <2> QED BY <1>0, <2>1, <2>2, <2>3 DEF Destroy
<1>6. CASE /\ UNCHANGED <<rec_ll, freetype>>
  BY <1>6
<1>7. ASSUME NEW info \in Infos, CreateFails(info) PROVE UNCHANGED <<rec_ll, freetype>>
  BY <1>7 DEF CreateFails, vars
<1>8. ASSUME NEW b \in Bases, SetBasePath(b) PROVE UNCHANGED <<rec_ll, freetype>>
  BY <1>8 DEF SetBasePath, fonts
<1>9. ASSUME NEW name \in Names, NEW p \in Paths, AddPath(name, p)
      PROVE  UNCHANGED <<rec_ll, freetype>>
  BY <1>9 DEF AddPath, fonts
<1>10. ASSUME NEW i \in 1..MaxPaths, RemovePath(i) PROVE UNCHANGED <<rec_ll, freetype>>
  BY <1>10 DEF RemovePath, fonts
<1>11. ASSUME NEW hasEmoji \in BOOLEAN, CreateManager(NoBase, hasEmoji) PROVE FALSE
  BY <1>11 DEF CreateManager, NothingOutlivesManager
<1>12. CASE DeleteManager
  BY <1>12 DEF DeleteManager, HasResource
<1>13. CASE UNCHANGED vars
  BY <1>13 DEF vars
<1> QED BY <1>2, <1>3, <1>4, <1>5, <1>6, <1>7, <1>8, <1>9, <1>10, <1>11, <1>12, <1>13 DEF Next

\* The object behind a record stays the same and untouched while the record lives,
\* for every cache size and whatever names are cut: deletions of other records and
\* evictions from the cache never reach it.
THEOREM HeldFontsStable == Spec => StableWhileHeld
<1>1. IInv /\ [Next]_vars => StableStep
  BY StableHolds
<1> QED BY <1>1, Inductive, PTL DEF Spec, StableWhileHeld

--------------------------------------------------------------------------------
(* The right font, and only one of it.                                        *)

\* Nodes and cache entries are filed under the info their object was made for, a
\* record's node under the info that was asked; and no two objects were made for
\* the same info.
FontsRight ==
    /\ \A n \in Held : freetype[refer_ll[n].font_p].made_for = refer_ll[n].ft_info
    /\ \A i \in DOMAIN cache_ll : freetype[cache_ll[i].font].made_for = cache_ll[i].ft_info
    /\ \A h \in InUse : asked[h] = refer_ll[rec_ll[h].refer_node_p].ft_info
    /\ \A f, g \in Live : freetype[f].made_for = freetype[g].made_for => f = g

\* The two properties the runs check follow.
LEMMA RightFontFollows == IInv /\ FontsRight => RightFont /\ OneFontPerInfo
<1> SUFFICES ASSUME IInv, FontsRight PROVE RightFont /\ OneFontPerInfo
  OBVIOUS
<1> USE DEF IInv
<1>1. RightFont
  BY DEF RightFont, FontsRight, RefCountExact, Ownership
<1>2. /\ \A n \in Held : refer_ll[n].font_p \in Live
      /\ \A i \in DOMAIN cache_ll : cache_ll[i].font \in Live
  BY DEF Ownership, CacheFonts
<1>3. OneFontPerInfo
  BY <1>2 DEF OneFontPerInfo, FontsRight, Ownership
<1> QED BY <1>1, <1>3

\* A step that makes no object and files what it moves under the old info.
LEMMA FontsFollow ==
    ASSUME IInv, IInv', FontsRight,
           \A f \in Fonts : freetype'[f] \in {freetype[f], NULL},
           \A m \in Held' :
              \/ \E n \in Held : /\ refer_ll'[m].ft_info = refer_ll[n].ft_info
                               /\ refer_ll'[m].font_p = refer_ll[n].font_p
              \/ \E i \in DOMAIN cache_ll : /\ refer_ll'[m].ft_info = cache_ll[i].ft_info
                                          /\ refer_ll'[m].font_p = cache_ll[i].font,
           \A j \in DOMAIN cache_ll' :
              \/ \E i \in DOMAIN cache_ll : cache_ll'[j] = cache_ll[i]
              \/ \E n \in Held : /\ cache_ll'[j].ft_info = refer_ll[n].ft_info
                               /\ cache_ll'[j].font = refer_ll[n].font_p,
           \A h \in InUse' : asked'[h] = refer_ll'[rec_ll'[h].refer_node_p].ft_info
    PROVE  FontsRight'
<1> USE DEF IInv
<1>1. \A f \in Live' : f \in Live /\ freetype'[f] = freetype[f]
  BY DEF Live
<1>2. /\ \A m \in Held' : refer_ll'[m].font_p \in Live'
      /\ \A j \in DOMAIN cache_ll' : cache_ll'[j].font \in Live'
  BY DEF Ownership, CacheFonts
<1>3. \A m \in Held' : freetype'[refer_ll'[m].font_p].made_for = refer_ll'[m].ft_info
  BY <1>1, <1>2 DEF FontsRight
<1>4. \A j \in DOMAIN cache_ll' : freetype'[cache_ll'[j].font].made_for = cache_ll'[j].ft_info
  BY <1>1, <1>2 DEF FontsRight
<1>5. \A f, g \in Live' : freetype'[f].made_for = freetype'[g].made_for => f = g
  BY <1>1 DEF FontsRight
<1> QED BY <1>3, <1>4, <1>5 DEF FontsRight

\* Nothing that exists was made for an info that neither lists nor cache know.
LEMMA NothingMadeFor ==
    ASSUME IInv, FontsRight, NEW info \in Infos, Matches(info) = {},
           IsEmoji(info) \/ CacheMiss(info)
    PROVE  \A f \in Live : freetype[f].made_for # info
<1> USE DEF IInv
<1>1. \A n \in Held : refer_ll[n].ft_info # info
  BY DEF Matches
<1>2. \A i \in DOMAIN cache_ll : cache_ll[i].ft_info # info
  BY DEF CacheMiss, CacheBound
<1> QED BY <1>1, <1>2 DEF FontsRight, Ownership, CacheFonts

\* Who asked what, when a record is added to a node filed under the info asked.
LEMMA AskedFollows ==
    ASSUME IInv, FontsRight, NEW h \in Handles, NEW info \in Infos, NEW n \in Nodes,
           NEW f \in Fonts, AddRecord(h, info, n, f),
           refer_ll'[n].ft_info = info,
           \A m \in Held : refer_ll'[m].ft_info = refer_ll[m].ft_info
    PROVE  \A g \in InUse' : asked'[g] = refer_ll'[rec_ll'[g].refer_node_p].ft_info
<1> USE DEF IInv
<1>1. /\ InUse' = InUse \cup {h} /\ h \notin InUse
      /\ rec_ll'[h] = [font |-> f, refer_node_p |-> n]
      /\ \A g \in InUse : rec_ll'[g] = rec_ll[g]
  BY AddRecordUsers
<1>2. asked'[h] = info /\ \A g \in InUse : asked'[g] = asked[g]
  BY <1>1 DEF AddRecord, TypeOK, InUse
<1>3. \A g \in InUse : rec_ll[g].refer_node_p \in Held
  BY DEF RefCountExact
<1> QED BY <1>1, <1>2, <1>3 DEF FontsRight

\* One step per call that moves fonts.
LEMMA FontsRightStep ==
    ASSUME NamesFit, IInv, IInv', FontsRight, [Next]_vars
    PROVE  FontsRight'
<1> USE DEF IInv
<1>0. \A i \in DOMAIN cache_ll : cache_ll[i].font \in Fonts /\ cache_ll[i].ft_info \in Infos
  BY CacheEntry
<1>1. ASSUME NEW h \in Handles, NEW info \in Infos, ShareFont(h, info) PROVE FontsRight'
  <2>1. PICK n \in Held :
             /\ refer_ll[n].ft_info = info
             /\ AddRecord(h, info, n, refer_ll[n].font_p)
             /\ Held' = Held
             /\ \A m \in Held : /\ refer_ll'[m].ft_info = refer_ll[m].ft_info
                                /\ refer_ll'[m].font_p = refer_ll[m].font_p
             /\ UNCHANGED <<cache_ll, freetype>>
    BY <1>1, ShareFacts
  <2>2. n \in Nodes /\ refer_ll[n].font_p \in Fonts
    BY HeldNode
  <2>3. \A g \in InUse' : asked'[g] = refer_ll'[rec_ll'[g].refer_node_p].ft_info
    BY <2>1, <2>2, AskedFollows
  <2> QED BY <2>1, <2>3, FontsFollow
<1>2. ASSUME NEW h \in Handles, NEW info \in Infos, ReuseFont(h, info) PROVE FontsRight'
  <2>1. PICK i \in DOMAIN cache_ll, n \in Nodes :
        /\ cache_ll[i].ft_info = info
        /\ AddNode(info, n, cache_ll[i].font)
        /\ AddRecord(h, info, n, cache_ll[i].font)
        /\ TakeFromCache(i)
    BY <1>2 DEF ReuseFont, FirstHit
  <2>2. PICK f \in Fonts : f = cache_ll[i].font
    BY <1>0
  <2>3. /\ Held' = Held \cup {n}
        /\ refer_ll'[n].font_p = f /\ refer_ll'[n].ft_info = info
        /\ \A m \in Held : refer_ll'[m] = refer_ll[m]
    BY <2>1, <2>2, AddNodeFacts, StoredSame
  <2>4. \A j \in DOMAIN cache_ll' : \E k \in DOMAIN cache_ll : cache_ll'[j] = cache_ll[k]
    BY <2>1, TakeFacts
  <2>5. \A g \in InUse' : asked'[g] = refer_ll'[rec_ll'[g].refer_node_p].ft_info
    BY <2>1, <2>2, <2>3, AskedFollows
  <2>6. UNCHANGED freetype
    BY <1>2 DEF ReuseFont
  <2> QED BY <2>1, <2>2, <2>3, <2>4, <2>5, <2>6, FontsFollow
<1>3. ASSUME NEW h \in Handles, NEW info \in Infos, OpenFont(h, info) PROVE FontsRight'
  <2>1. PICK p \in Paths \cup {NULL}, f \in Fonts \ Live, n \in Nodes :
          /\ CanOpen(info, p)
          /\ freetype' = [freetype EXCEPT ![f] = [path |-> p, made_for |-> info]]
          /\ AddNode(info, n, f)
          /\ AddRecord(h, info, n, f)
    BY <1>3 DEF OpenFont
  <2>2. /\ Held' = Held \cup {n}
        /\ refer_ll'[n].font_p = f /\ refer_ll'[n].ft_info = info
        /\ \A m \in Held : refer_ll'[m] = refer_ll[m]
    BY <2>1, AddNodeFacts, StoredSame
  <2>3. /\ freetype'[f].made_for = info
        /\ \A g \in Live : freetype'[g] = freetype[g] /\ g # f
        /\ Live' \subseteq Live \cup {f}
    BY <2>1 DEF TypeOK, Live
  <2>4. \A g \in Live : freetype[g].made_for # info
    BY <1>3, <2>1, NothingMadeFor DEF CanOpen, OpenFont
  <2>5. \A g \in InUse' : asked'[g] = refer_ll'[rec_ll'[g].refer_node_p].ft_info
    BY <2>1, <2>2, AskedFollows
  <2>6. \A m \in Held : refer_ll[m].font_p \in Live
    BY DEF Ownership
  <2>7. \A i \in DOMAIN cache_ll : cache_ll[i].font \in Live
    BY DEF Ownership, CacheFonts
  <2>8. UNCHANGED cache_ll
    BY <1>3 DEF OpenFont
  <2>9. \A m \in Held' : freetype'[refer_ll'[m].font_p].made_for = refer_ll'[m].ft_info
    BY <2>2, <2>3, <2>6 DEF FontsRight
  <2>10. \A i \in DOMAIN cache_ll' : freetype'[cache_ll'[i].font].made_for = cache_ll'[i].ft_info
    BY <2>3, <2>7, <2>8 DEF FontsRight
  <2>11. \A g, k \in Live' : freetype'[g].made_for = freetype'[k].made_for => g = k
    BY <2>3, <2>4 DEF FontsRight
  <2> QED BY <2>5, <2>9, <2>10, <2>11 DEF FontsRight
<1>4. ASSUME NEW h \in Handles, DeleteFont(h) PROVE FontsRight'
  <2>1. PICK n \in Held, T \in SUBSET Fonts :
             LET f == refer_ll[n].font_p IN
             /\ h \in InUse
             /\ rec_ll' = [rec_ll EXCEPT ![h] = NULL]
             /\ asked' = [asked EXCEPT ![h] = NULL]
             /\ Held' \subseteq Held
             /\ \A m \in Held' : /\ refer_ll'[m].ft_info = refer_ll[m].ft_info
                                 /\ refer_ll'[m].font_p = refer_ll[m].font_p
             /\ Destroy(T)
             /\ \A j \in DOMAIN cache_ll' :
                  \/ \E i \in DOMAIN cache_ll : cache_ll'[j] = cache_ll[i]
                  \/ cache_ll'[j] = [ft_info |-> Stored(refer_ll[n].ft_info), font |-> f]
    BY <1>4, DeleteFacts
  <2>2. Stored(refer_ll[n].ft_info) = refer_ll[n].ft_info
    BY HeldNode, StoredSame
  <2>3. \A f \in Fonts : freetype'[f] \in {freetype[f], NULL}
    BY <2>1 DEF Destroy
  <2>4. \A g \in InUse' : g \in InUse /\ rec_ll'[g] = rec_ll[g] /\ asked'[g] = asked[g]
    BY <2>1 DEF InUse, TypeOK
  <2>5. \A g \in InUse' : rec_ll'[g].refer_node_p \in Held'
    BY DEF RefCountExact
  <2>6. \A g \in InUse' : asked'[g] = refer_ll'[rec_ll'[g].refer_node_p].ft_info
    BY <2>1, <2>4, <2>5 DEF FontsRight
  <2>7. \A j \in DOMAIN cache_ll' :
          \/ \E i \in DOMAIN cache_ll : cache_ll'[j] = cache_ll[i]
          \/ /\ cache_ll'[j].ft_info = refer_ll[n].ft_info
             /\ cache_ll'[j].font = refer_ll[n].font_p
    BY <2>1, <2>2
  <2> QED BY <2>1, <2>3, <2>6, <2>7, FontsFollow
<1>5. CASE UNCHANGED <<refer_ll, rec_ll, cache_ll, freetype, asked>>
  BY <1>5 DEF FontsRight, Held, InUse, Live
<1>6. ASSUME NEW info \in Infos, CreateFails(info) PROVE FontsRight'
  BY <1>5, <1>6 DEF CreateFails, vars
<1>7. ASSUME NEW b \in Bases, SetBasePath(b) PROVE FontsRight'
  BY <1>5, <1>7 DEF SetBasePath, fonts
<1>8. ASSUME NEW name \in Names, NEW p \in Paths, AddPath(name, p) PROVE FontsRight'
  BY <1>5, <1>8 DEF AddPath, fonts
<1>9. ASSUME NEW i \in 1..MaxPaths, RemovePath(i) PROVE FontsRight'
  BY <1>5, <1>9 DEF RemovePath, fonts
<1>10. ASSUME InUse' = {}, Held' = {}, Live' = {}, cache_ll' = <<>> PROVE FontsRight'
  BY <1>10 DEF FontsRight
<1>11. ASSUME NEW hasEmoji \in BOOLEAN, CreateManager(NoBase, hasEmoji) PROVE FontsRight'
  <2>1. InUse' = {} /\ Held' = {} /\ Live' = {} /\ cache_ll' = <<>>
    BY <1>11 DEF CreateManager, NothingOutlivesManager, InUse, Held, Live
  <2> QED BY <1>10, <2>1
<1>12. CASE DeleteManager
  <2>1. InUse' = {} /\ Held' = {} /\ Live' = {} /\ cache_ll' = <<>>
    BY <1>12 DEF DeleteManager, ClearCache, NothingOutlivesManager
  <2> QED BY <1>10, <2>1
<1>13. CASE UNCHANGED vars
  BY <1>5, <1>13 DEF vars
<1> QED BY <1>1, <1>2, <1>3, <1>4, <1>6, <1>7, <1>8, <1>9, <1>11, <1>12, <1>13 DEF Next

\* What nodes, cache and objects say of a font's info always agrees.
LEMMA FontsFit ==
    ASSUME NamesFit
    PROVE  Spec => []FontsRight
<1>1. Init => FontsRight
  BY DEF Init, FontsRight, Held, InUse, Live
<1> QED BY <1>1, Inductive, FontsRightStep, PTL DEF Spec

\* If no name is cut, a caller holds a font that was opened for what that caller
\* asked, whatever mix of requests, deletions and evictions ran.
THEOREM CallerGetsOwnFont ==
    ASSUME NamesFit
    PROVE  Spec => []RightFont
BY FontsFit, Inductive, RightFontFollows, PTL

\* If no name is cut, no file is opened twice for the same info: a request finds
\* the live node or the cached font of its info.
THEOREM FontMadeOnce ==
    ASSUME NamesFit
    PROVE  Spec => []OneFontPerInfo
BY FontsFit, Inductive, RightFontFollows, PTL

--------------------------------------------------------------------------------
(* The manager implements the pool.                                           *)

\* What a caller sees: the font behind each handle, what each font was made for.
HeldFonts == [h \in Handles |-> IF h \in InUse THEN rec_ll[h].font ELSE NULL]
MadeFonts == [f \in Fonts |-> IF f \in Live THEN freetype[f].made_for ELSE NULL]

PInv == IInv /\ FontsRight

\* Records with the same font are records of the same node.
LEMMA HoldersAreUsers ==
    ASSUME IInv, NEW n \in Held
    PROVE  {h \in Handles : HeldFonts[h] = refer_ll[n].font_p} = Users(n)
<1> USE DEF IInv
<1>1. refer_ll[n].font_p \in Fonts /\ NULL \notin Fonts
  BY HeldNode, NullAssumption
<1>2. \A h \in InUse : h \in Handles /\ (rec_ll[h].font = refer_ll[n].font_p
                                         <=> rec_ll[h].refer_node_p = n)
  BY DEF InUse, RefCountExact, Ownership
<1> QED BY <1>1, <1>2 DEF HeldFonts, Users, InUse

\* A new record is a new hold.
LEMMA HoldAdded ==
    ASSUME IInv, NEW h \in Handles, NEW info \in Infos, NEW n \in Nodes, NEW f \in Fonts,
           AddRecord(h, info, n, f)
    PROVE  HeldFonts[h] = NULL /\ HeldFonts' = [HeldFonts EXCEPT ![h] = f]
<1>1. /\ h \notin InUse /\ InUse' = InUse \cup {h}
      /\ rec_ll'[h] = [font |-> f, refer_node_p |-> n]
      /\ \A g \in InUse : rec_ll'[g] = rec_ll[g]
  BY AddRecordUsers DEF IInv
<1>2. \A g \in Handles : /\ (g \in InUse') <=> (g \in InUse \/ g = h)
                         /\ g \in InUse' => rec_ll'[g].font = IF g = h THEN f ELSE rec_ll[g].font
  BY <1>1
<1>3. HeldFonts' = [g \in Handles |-> IF g \in InUse' THEN rec_ll'[g].font ELSE NULL]
  BY DEF HeldFonts
<1>4. HeldFonts' = [g \in Handles |-> IF g = h THEN f ELSE HeldFonts[g]]
  BY <1>2, <1>3 DEF HeldFonts
<1>5. [HeldFonts EXCEPT ![h] = f] = [g \in Handles |-> IF g = h THEN f ELSE HeldFonts[g]]
  BY DEF HeldFonts
<1> QED BY <1>1, <1>4, <1>5 DEF HeldFonts

\* The cache's fonts are as few as its entries.
LEMMA FewSpare ==
    TypeOK /\ CacheBound => Cardinality(CacheFonts) <= CacheSize
<1> SUFFICES ASSUME TypeOK, CacheBound
             PROVE  Cardinality(CacheFonts) <= CacheSize
  OBVIOUS
<1>1. /\ Len(cache_ll) \in Nat /\ DOMAIN cache_ll = 1..Len(cache_ll)
      /\ Len(cache_ll) <= CacheSize /\ CacheSize \in Nat
  BY SizeAssumption DEF TypeOK, CacheBound
<1>2. IsFiniteSet(1..Len(cache_ll)) /\ Cardinality(1..Len(cache_ll)) = Len(cache_ll)
  <2>1. ASSUME NEW k \in Nat PROVE IsFiniteSet(1..k) /\ Cardinality(1..k) = k
    <3>1. /\ IsFiniteSet(1..k)
          /\ Cardinality(1..k) = IF 1 > k THEN 0 ELSE k - 1 + 1
      BY FS_Interval
    <3> QED BY <3>1
  <2> QED BY <1>1, <2>1
<1> DEFINE fontOf == [i \in 1..Len(cache_ll) |-> cache_ll[i].font]
<1>3. fontOf \in Surjection(1..Len(cache_ll), CacheFonts)
  BY <1>1 DEF Surjection, CacheFonts
<1>4. /\ IsFiniteSet(CacheFonts)
      /\ Cardinality(CacheFonts) <= Cardinality(1..Len(cache_ll))
  BY <1>2, <1>3, FS_Surjection
<1>5. Cardinality(CacheFonts) \in Nat
  BY <1>4, FS_CardinalityType
<1> QED BY <1>1, <1>2, <1>4, <1>5

\* A request is answered by a font that others hold, by a spare one, or by a new one.
LEMMA ShareImplements ==
    ASSUME PInv, PInv', NEW h \in Handles, NEW info \in Infos, ShareFont(h, info)
    PROVE  Pool!PoolNext
<1> USE DEF PInv
<1>1. PICK n \in Held :
             /\ refer_ll[n].ft_info = info
             /\ AddRecord(h, info, n, refer_ll[n].font_p)
             /\ UNCHANGED <<cache_ll, freetype>>
  BY ShareFacts
<1>2. PICK f \in Fonts : f = refer_ll[n].font_p /\ n \in Nodes
  BY HeldNode DEF IInv
<1>3. HeldFonts[h] = NULL /\ HeldFonts' = [HeldFonts EXCEPT ![h] = f]
  BY <1>1, <1>2, HoldAdded
<1>4. {g \in Handles : HeldFonts[g] = f} # {}
  <2>1. Cardinality(Users(n)) # 0
    BY DEF IInv, RefCountExact
  <2>2. Users(n) # {}
    BY <2>1, FS_EmptySet
  <2> QED BY <1>2, <2>2, HoldersAreUsers
<1>5. /\ MadeFonts' = MadeFonts /\ CacheFonts' = CacheFonts
      /\ MadeFonts'[f] = info
  BY <1>1, <1>2 DEF MadeFonts, Live, CacheFonts, FontsRight, IInv, Ownership
<1>6. Pool!Share(h, f)
  BY <1>3, <1>4, <1>5 DEF Pool!Share, Pool!Hold, Pool!Holders, HeldFonts, MadeFonts
<1>7. Pool!Acquire(h, f, info)
  BY <1>5, <1>6 DEF Pool!Acquire, MadeFonts
<1> QED BY <1>7 DEF Pool!PoolNext

\* A font that leaves the cache is held again.
LEMMA ReuseImplements ==
    ASSUME NamesFit, PInv, PInv', NEW h \in Handles, NEW info \in Infos, ReuseFont(h, info)
    PROVE  Pool!PoolNext
<1> USE DEF PInv
<1>1. PICK i \in DOMAIN cache_ll, n \in Nodes :
        /\ cache_ll[i].ft_info = info
        /\ AddRecord(h, info, n, cache_ll[i].font)
        /\ TakeFromCache(i)
        /\ UNCHANGED freetype
  BY DEF ReuseFont, FirstHit
<1>2. PICK f \in Fonts : f = cache_ll[i].font
  BY CacheEntry DEF IInv
<1>3. HeldFonts[h] = NULL /\ HeldFonts' = [HeldFonts EXCEPT ![h] = f]
  BY <1>1, <1>2, HoldAdded
<1>4. f \in CacheFonts /\ CacheFonts' = CacheFonts \ {f}
  BY <1>1, <1>2, TakeFacts DEF IInv, CacheFonts
<1>5. MadeFonts' = MadeFonts /\ MadeFonts'[f] = info
  BY <1>1, <1>2, <1>4 DEF MadeFonts, Live, FontsRight, IInv, Ownership
<1>6. Pool!Reuse(h, f)
  BY <1>3, <1>4, <1>5 DEF Pool!Reuse, Pool!Hold, HeldFonts, MadeFonts
<1>7. Pool!Acquire(h, f, info)
  BY <1>5, <1>6 DEF Pool!Acquire, MadeFonts
<1> QED BY <1>7 DEF Pool!PoolNext

\* A font is made only when none exists for the request.
LEMMA OpenImplements ==
    ASSUME PInv, PInv', NEW h \in Handles, NEW info \in Infos, OpenFont(h, info)
    PROVE  Pool!PoolNext
<1> USE DEF PInv
<1>1. PICK p \in Paths \cup {NULL}, f \in Fonts \ Live, n \in Nodes :
        /\ CanOpen(info, p)
        /\ freetype' = [freetype EXCEPT ![f] = [path |-> p, made_for |-> info]]
        /\ AddRecord(h, info, n, f)
        /\ UNCHANGED cache_ll
  BY DEF OpenFont
<1>2. HeldFonts[h] = NULL /\ HeldFonts' = [HeldFonts EXCEPT ![h] = f]
  BY <1>1, HoldAdded
<1>3. \A g \in Fonts : MadeFonts[g] # info
  BY <1>1, NothingMadeFor, NullAssumption DEF MadeFonts, OpenFont, CanOpen
<1>4. MadeFonts[f] = NULL
  BY <1>1 DEF MadeFonts
<1>5. /\ f \in Live' /\ freetype'[f].made_for = info
      /\ \A g \in Fonts \ {f} : freetype'[g] = freetype[g]
  <2>1. [path |-> p, made_for |-> info] \in FontObject
    BY DEF FontObject
  <2> QED BY <1>1, <2>1, NullAssumption DEF Live, IInv, TypeOK
<1>6. MadeFonts' = [MadeFonts EXCEPT ![f] = info]
  <2>1. \A g \in Fonts : (IF g \in Live' THEN freetype'[g].made_for ELSE NULL)
                          = IF g = f THEN info ELSE MadeFonts[g]
    BY <1>5 DEF MadeFonts, Live
  <2>2. MadeFonts' = [g \in Fonts |-> IF g = f THEN info ELSE MadeFonts[g]]
    BY <2>1 DEF MadeFonts
  <2>3. [MadeFonts EXCEPT ![f] = info] = [g \in Fonts |-> IF g = f THEN info ELSE MadeFonts[g]]
    BY DEF MadeFonts
  <2> QED BY <2>2, <2>3
<1>7. CacheFonts' = CacheFonts
  BY <1>1 DEF CacheFonts
<1>8. Pool!Make(h, f, info)
  BY <1>2, <1>3, <1>4, <1>6, <1>7 DEF Pool!Make, Pool!Hold, HeldFonts, MadeFonts
<1>9. MadeFonts'[f] = info
  BY <1>6 DEF MadeFonts
<1>10. Pool!Acquire(h, f, info)
  BY <1>8, <1>9 DEF Pool!Acquire, MadeFonts
<1> QED BY <1>1, <1>10 DEF Pool!PoolNext

\* A handle is given back: only a font nobody holds is spared or destroyed.
LEMMA DeleteImplements ==
    ASSUME PInv, PInv', NEW h \in Handles, DeleteFont(h)
    PROVE  Pool!PoolNext
<1> USE DEF PInv
<1>1. PICK n \in Held, T \in SUBSET Fonts :
             LET f == refer_ll[n].font_p IN
             /\ h \in InUse /\ n = rec_ll[h].refer_node_p /\ f = rec_ll[h].font /\ f \in Fonts
             /\ rec_ll' = [rec_ll EXCEPT ![h] = NULL]
             /\ T \subseteq CacheFonts \cup {f} /\ Destroy(T)
             /\ \/ refer_ll[n].ref_cnt > 1 /\ T = {} /\ CacheFonts' = CacheFonts
                \/ ~(refer_ll[n].ref_cnt > 1) /\ CacheFonts' = (CacheFonts \cup {f}) \ T
  BY DeleteFacts
<1>2. PICK f \in Fonts : f = refer_ll[n].font_p /\ f = rec_ll[h].font
  BY <1>1
<1>3. HeldFonts[h] = f /\ f # NULL
  BY <1>1, <1>2, NullAssumption DEF HeldFonts
<1>4. HeldFonts' = [HeldFonts EXCEPT ![h] = NULL]
  <2>1. InUse' = InUse \ {h} /\ \A g \in InUse' : rec_ll'[g] = rec_ll[g]
    BY <1>1, RemoveRecordUsers DEF IInv
  <2>2. HeldFonts' = [g \in Handles |-> IF g \in InUse' THEN rec_ll'[g].font ELSE NULL]
    BY DEF HeldFonts
  <2>3. HeldFonts' = [g \in Handles |-> IF g = h THEN NULL ELSE HeldFonts[g]]
    BY <2>1, <2>2 DEF HeldFonts
  <2>4. [HeldFonts EXCEPT ![h] = NULL] = [g \in Handles |-> IF g = h THEN NULL ELSE HeldFonts[g]]
    BY DEF HeldFonts
  <2> QED BY <2>3, <2>4
<1> DEFINE Of(x) == {g \in Handles : HeldFonts[g] = x}
           Idle == CacheFonts \cup {x \in Fonts : Of(x) = {h}}
<1>5. Of(f) = Users(n) /\ h \in Users(n)
  BY <1>1, <1>2, HoldersAreUsers DEF Users
<1>6. \A x \in Fonts : x # f => Of(x) # {h}
  BY <1>3
<1>7. refer_ll[n].ref_cnt = Cardinality(Users(n)) /\ Cardinality(Users(n)) \in Nat
  BY UsersFinite DEF IInv, RefCountExact
<1>8. T \in SUBSET Idle /\ CacheFonts' = Idle \ T
  <2>1. CASE refer_ll[n].ref_cnt > 1 /\ T = {} /\ CacheFonts' = CacheFonts
    <3>1. Of(f) # {h}
      <4>1. Cardinality({h}) = 1
        BY FS_Singleton
      <4>2. Cardinality(Of(f)) > 1
        BY <1>5, <1>7, <2>1
      <4> QED BY <4>1, <4>2
    <3>2. Idle = CacheFonts
      BY <1>6, <3>1
    <3> QED BY <2>1, <3>2
  <2>2. CASE ~(refer_ll[n].ref_cnt > 1) /\ CacheFonts' = (CacheFonts \cup {f}) \ T
    <3>1. Of(f) = {h}
      BY <1>5, <1>7, <2>2, LastUser
    <3>2. Idle = CacheFonts \cup {f}
      BY <1>6, <3>1
    <3> QED BY <1>1, <1>2, <2>2, <3>2
  <2> QED BY <1>1, <1>2, <2>1, <2>2
<1>9. MadeFonts' = [x \in Fonts |-> IF x \in T THEN NULL ELSE MadeFonts[x]]
  <2>1. \A x \in Fonts : freetype'[x] = IF x \in T THEN NULL ELSE freetype[x]
    BY <1>1 DEF Destroy
  <2> QED BY <2>1 DEF MadeFonts, Live
<1>10. Cardinality(CacheFonts') <= CacheSize
  <2>1. (TypeOK /\ CacheBound)'
    BY DEF IInv
  <2>2. (TypeOK /\ CacheBound => Cardinality(CacheFonts) <= CacheSize)'
    BY FewSpare, PTL
  <2> QED BY <2>1, <2>2
<1>11. Pool!Idle(h) = Idle
  BY DEF Pool!Idle, Pool!Holders, HeldFonts
<1> HIDE DEF Of, Idle
<1>12. /\ HeldFonts[h] # NULL /\ HeldFonts' = [HeldFonts EXCEPT ![h] = NULL]
       /\ \E gone \in SUBSET Pool!Idle(h) :
            /\ CacheFonts' = Pool!Idle(h) \ gone
            /\ MadeFonts' = [x \in Fonts |-> IF x \in gone THEN NULL ELSE MadeFonts[x]]
       /\ Cardinality(CacheFonts') <= CacheSize
  BY <1>3, <1>4, <1>8, <1>9, <1>10, <1>11
<1>13. Pool!Cardinality(CacheFonts') = Cardinality(CacheFonts')
  BY DEF Pool!Cardinality, Cardinality
<1>14. Pool!Release(h)
  BY <1>12, <1>13 DEF Pool!Release, HeldFonts, MadeFonts
<1> QED BY <1>14 DEF Pool!PoolNext

\* The other calls do not show, or close the pool.
LEMMA PoolStep ==
    ASSUME NamesFit, PInv, PInv', [Next]_vars
    PROVE  [Pool!PoolNext]_(Pool!poolVars)
<1> USE DEF PInv
<1>1. ASSUME UNCHANGED <<rec_ll, cache_ll, freetype>> PROVE UNCHANGED Pool!poolVars
  BY <1>1 DEF Pool!poolVars, InUse, Live, CacheFonts
<1>2. ASSUME NEW info \in Infos, CreateFails(info) PROVE UNCHANGED Pool!poolVars
  BY <1>1, <1>2 DEF CreateFails, vars
<1>3. ASSUME NEW b \in Bases, SetBasePath(b) PROVE UNCHANGED Pool!poolVars
  BY <1>1, <1>3 DEF SetBasePath, fonts
<1>4. ASSUME NEW name \in Names, NEW p \in Paths, AddPath(name, p)
      PROVE  UNCHANGED Pool!poolVars
  BY <1>1, <1>4 DEF AddPath, fonts
<1>5. ASSUME NEW i \in 1..MaxPaths, RemovePath(i) PROVE UNCHANGED Pool!poolVars
  BY <1>1, <1>5 DEF RemovePath, fonts
<1>6. ASSUME NEW hasEmoji \in BOOLEAN, CreateManager(NoBase, hasEmoji)
      PROVE  UNCHANGED Pool!poolVars
  <2>1. /\ InUse = {} /\ Live = {} /\ CacheFonts = {}
        /\ InUse' = {} /\ Live' = {} /\ CacheFonts' = {}
    BY <1>6 DEF CreateManager, IInv, NothingOutlivesManager, Ownership, InUse, Live, CacheFonts
  <2> QED BY <2>1 DEF Pool!poolVars
<1>7. CASE DeleteManager
  <2>1. /\ InUse = {} /\ InUse' = {} /\ Live' = {} /\ CacheFonts' = {}
    BY <1>7 DEF DeleteManager, HasResource, ClearCache, InUse, IInv, NothingOutlivesManager,
                CacheFonts
  <2>2. Pool!Close
    BY <2>1 DEF Pool!Close
  <2> QED BY <2>2 DEF Pool!PoolNext
<1>8. CASE UNCHANGED vars
  BY <1>1, <1>8 DEF vars
<1> QED BY <1>2, <1>3, <1>4, <1>5, <1>6, <1>7, <1>8, ShareImplements, ReuseImplements,
           OpenImplements, DeleteImplements DEF Next

\* Whatever the reference counts, the cache and the lists do, the manager is a font
\* pool: equal requests share a font, only fonts nobody holds are spared or
\* destroyed, and none is made while one for the same request exists.
THEOREM ManagerIsPool ==
    ASSUME NamesFit
    PROVE  Spec => ImplementsPool
<1>1. Init => Pool!PoolInit
  BY DEF Init, Pool!PoolInit, InUse, Live, CacheFonts
<1>2. Init => FontsRight
  BY DEF Init, FontsRight, Held, InUse, Live
<1>3. Spec => []FontsRight
  BY <1>2, Inductive, FontsRightStep, PTL DEF Spec
<1>4. IInv /\ FontsRight <=> PInv
  BY DEF PInv
<1>5. PInv /\ PInv' /\ [Next]_vars => [Pool!PoolNext]_(Pool!poolVars)
  BY PoolStep
<1>6. ImplementsPool <=> Pool!PoolInit /\ [][Pool!PoolNext]_(Pool!poolVars)
  BY DEF ImplementsPool, Pool!PoolSpec
<1> QED BY <1>1, <1>3, <1>4, <1>5, <1>6, Inductive, PTL DEF Spec

================================================================================
