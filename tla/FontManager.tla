------------------------------ MODULE FontManager ------------------------------
(***************************************************************************)
(* The font manager (src/font_manager/font_manager.c) with its reuse cache *)
(* (font_cache.c) and its emoji fonts (font_emoji.c).                       *)
(*                                                                         *)
(* A caller owns font RECORDS (font_rec_node_t).  A record is a copy of a   *)
(* freetype font that a reference-counted NODE (font_refer_node_t) owns.    *)
(* When the last record of a node goes, its freetype font moves to the      *)
(* CACHE, from which the next request for the same font takes it back.      *)
(* All of it runs on the one LVGL thread: one action is one call.           *)
(*                                                                         *)
(* A definition marked "faulty" is no part of the model: it is the next     *)
(* definition with a plausible bug, for showing that a property notices.    *)
(***************************************************************************)
EXTENDS Naturals, FiniteSets, Sequences, SequencesExt

CONSTANTS
    Names,      \* font names a caller asks for
    Trunc,      \* [Names -> Names]: what strncpy into name[NAME_MAX] keeps
    Attrs,      \* the (size, style) pairs in use
    EmojiNames, \* the names that start with UIKIT_FONT_EMOJI_HEADER
    EmojiMatch, \* the infos that some entry of the emoji config matches
    Bases,      \* font directories
    NoBase,     \* the empty base path of a fresh manager
    Paths,      \* font file paths
    DefPath,    \* [Bases -> [Names -> Paths]]: "<base>/<name>.<ext>"
    Handles,    \* addresses of font records
    Nodes,      \* addresses of reference nodes
    Fonts,      \* addresses of lv_font_t objects made by freetype or imgfont
    CacheSize,  \* UIKIT_FONT_CACHE_SIZE; 0 compiles the cache out
    MaxPaths,   \* bound of the model: length of path_ll
    NULL

Infos == [name : Names, attr : Attrs]       \* lv_freetype_info_t
IsEmoji(info) == info.name \in EmojiNames

\* The copy of an info that a node or a cache entry keeps.
Stored(info) == [info EXCEPT !.name = Trunc[info.name]]

NodeRecord  == [ft_info : Infos, font_p : Fonts, ref_cnt : Nat]
FontRecord  == [font : Fonts, refer_node_p : Nodes]
CacheRecord == [ft_info : Infos, font : Fonts]
PathRecord  == [name : Names, path : Paths]
\* What freetype opened, and the request it was opened for.
FontObject  == [path : Paths \cup {NULL}, made_for : Infos]

ASSUME TruncAssumption ==
    /\ Trunc \in [Names -> Names]
    /\ \A n \in Names : Trunc[Trunc[n]] = Trunc[n]
    /\ \A n \in Names : Trunc[n] \in EmojiNames <=> n \in EmojiNames
ASSUME EmojiAssumption == EmojiMatch \subseteq Infos
ASSUME PathAssumption ==
    NoBase \in Bases /\ DefPath \in [Bases -> [Names -> Paths]]
ASSUME SizeAssumption == CacheSize \in Nat /\ MaxPaths \in Nat
ASSUME HandlesAssumption == IsFiniteSet(Handles)
ASSUME NullAssumption ==
    /\ NULL \notin NodeRecord /\ NULL \notin FontRecord
    /\ NULL \notin FontObject /\ NULL \notin Infos /\ NULL \notin Fonts

\* No name is cut: the assumption the callers are expected to keep.
NamesFit == \A n \in Names : Trunc[n] = n

VARIABLES
    manager,        \* is there a font_manager_t
    emoji_manager,  \* did the config give an emoji manager
    refer_ll,       \* [Nodes -> NodeRecord or NULL]
    rec_ll,         \* [Handles -> FontRecord or NULL]
    cache_ll,       \* sequence of CacheRecord, head first
    path_ll,        \* sequence of PathRecord, head first
    base_path,
    freetype,       \* [Fonts -> FontObject or NULL]: the objects that exist
    asked           \* history: [Handles -> the info the caller asked, or NULL]

vars == <<manager, emoji_manager, refer_ll, rec_ll, cache_ll, path_ll,
          base_path, freetype, asked>>
config == <<manager, emoji_manager, path_ll, base_path>>

TypeOK ==
    /\ manager \in BOOLEAN
    /\ emoji_manager \in BOOLEAN
    /\ refer_ll \in [Nodes -> NodeRecord \cup {NULL}]
    /\ rec_ll \in [Handles -> FontRecord \cup {NULL}]
    /\ cache_ll \in Seq(CacheRecord)
    /\ path_ll \in Seq(PathRecord)
    /\ base_path \in Bases
    /\ freetype \in [Fonts -> FontObject \cup {NULL}]
    /\ asked \in [Handles -> Infos \cup {NULL}]

Init ==
    /\ manager = FALSE
    /\ emoji_manager = FALSE
    /\ refer_ll = [n \in Nodes |-> NULL]
    /\ rec_ll = [h \in Handles |-> NULL]
    /\ cache_ll = <<>>
    /\ path_ll = <<>>
    /\ base_path = NoBase
    /\ freetype = [f \in Fonts |-> NULL]
    /\ asked = [h \in Handles |-> NULL]

InUse    == {h \in Handles : rec_ll[h] # NULL}
Held     == {n \in Nodes : refer_ll[n] # NULL}
Live     == {f \in Fonts : freetype[f] # NULL}
CacheFonts == {cache_ll[i].font : i \in DOMAIN cache_ll}
Users(n) == {h \in InUse : rec_ll[h].refer_node_p = n}

--------------------------------------------------------------------------------
(* Looking up: lists are searched from the head and the first match is taken. *)

FirstEntry(name, i) ==
    /\ path_ll[i].name = name
    /\ \A j \in 1..(i-1) : path_ll[j].name # name

\* font_manager_get_path(name) returns p.
FindPath(name, p) ==
    \/ \E i \in DOMAIN path_ll : FirstEntry(name, i) /\ path_ll[i].path = p
    \/ /\ \A i \in DOMAIN path_ll : path_ll[i].name # name
       /\ p = DefPath[base_path][name]

\* The nodes font_manager_search_refer_node may return: it compares the info
\* asked for with the stored one.  The order of refer_ll is abstracted, any
\* match may be the first.
MatchesNone(info)   == {}                                            \* faulty
Matches(info) == {n \in Held : refer_ll[n].ft_info = info}

\* The entry font_cache_manager_get_reuse takes.
FirstHitBySize(info, i) ==                                           \* faulty
    /\ cache_ll[i].ft_info.attr = info.attr
    /\ \A j \in 1..(i-1) : cache_ll[j].ft_info.attr # info.attr
FirstHit(info, i) ==
    /\ cache_ll[i].ft_info = info
    /\ \A j \in 1..(i-1) : cache_ll[j].ft_info # info
CacheMissIgnored(info) == TRUE                                       \* faulty
CacheMiss(info) == \A i \in DOMAIN cache_ll : cache_ll[i].ft_info # info

--------------------------------------------------------------------------------
(* font_manager_create_font: the record h is allocated at the end of it.      *)

AddRecord(h, info, n, f) ==
    /\ h \notin InUse
    /\ rec_ll' = [rec_ll EXCEPT ![h] = [font |-> f, refer_node_p |-> n]]
    /\ asked' = [asked EXCEPT ![h] = info]

AddNode(info, n, f) ==
    /\ n \notin Held
    /\ refer_ll' = [refer_ll EXCEPT ![n] =
                      [ft_info |-> Stored(info), font_p |-> f, ref_cnt |-> 1]]

\* A node already answers the request: one more reference.
CountUpForgotten(n) == refer_ll' = refer_ll                          \* faulty
CountUp(n) == refer_ll' = [refer_ll EXCEPT ![n].ref_cnt = @ + 1]
ShareFont(h, info) ==
    /\ manager
    /\ \E n \in Matches(info) :
         /\ CountUp(n)
         /\ AddRecord(h, info, n, refer_ll[n].font_p)
    /\ UNCHANGED <<config, cache_ll, freetype>>

\* No node, but the cache has the font: it moves to a new node.
TakeFromCacheKeeps(i) == cache_ll' = cache_ll                        \* faulty
TakeFromCache(i) == cache_ll' = RemoveAt(cache_ll, i)
ReuseFont(h, info) ==
    /\ manager
    /\ Matches(info) = {}
    /\ ~IsEmoji(info)
    /\ \E i \in DOMAIN cache_ll, n \in Nodes :
         /\ FirstHit(info, i)
         /\ AddNode(info, n, cache_ll[i].font)
         /\ AddRecord(h, info, n, cache_ll[i].font)
         /\ TakeFromCache(i)
    /\ UNCHANGED <<config, freetype>>

\* Neither: freetype opens the file, or imgfont makes an emoji font.
CanOpen(info, p) ==
    IF IsEmoji(info)
    THEN emoji_manager /\ info \in EmojiMatch /\ p = NULL
    ELSE CacheMiss(info) /\ FindPath(info.name, p)
OpenFont(h, info) ==
    /\ manager
    /\ Matches(info) = {}
    /\ \E p \in Paths \cup {NULL}, f \in Fonts \ Live, n \in Nodes :
         /\ CanOpen(info, p)
         /\ freetype' = [freetype EXCEPT ![f] =
                                       [path |-> p, made_for |-> info]]
         /\ AddNode(info, n, f)
         /\ AddRecord(h, info, n, f)
    /\ UNCHANGED <<config, cache_ll>>

\* Nothing is found, or the file cannot be opened: NULL, nothing changes.
CreateFails(info) ==
    /\ manager
    /\ Matches(info) = {}
    /\ IsEmoji(info) => ~(emoji_manager /\ info \in EmojiMatch)
    /\ ~IsEmoji(info) => CacheMiss(info)
    /\ UNCHANGED vars

CreateFont(h, info) ==
    ShareFont(h, info) \/ ReuseFont(h, info) \/ OpenFont(h, info)

--------------------------------------------------------------------------------
(* font_manager_delete_font                                                   *)

Destroy(F) == freetype' = [f \in Fonts |-> IF f \in F THEN NULL ELSE freetype[f]]

\* font_cache_manager_set_reuse: a full cache first closes its tail.
SetReuseLate(entry) ==                                               \* faulty
    IF Len(cache_ll) > CacheSize
    THEN /\ Destroy({Last(cache_ll).font})
         /\ cache_ll' = Cons(entry, Front(cache_ll))
    ELSE /\ cache_ll' = Cons(entry, cache_ll)
         /\ UNCHANGED freetype
SetReuse(entry) ==
    IF Len(cache_ll) >= CacheSize
    THEN /\ Destroy({Last(cache_ll).font})
         /\ cache_ll' = Cons(entry, Front(cache_ll))
    ELSE /\ cache_ll' = Cons(entry, cache_ll)
         /\ UNCHANGED freetype

\* font_manager_delete_font_warpper: where the font of a dying node goes.
DeleteWrapper(node) ==
    \/ /\ IsEmoji(node.ft_info)
       /\ Destroy(IF emoji_manager THEN {node.font_p} ELSE {})
       /\ UNCHANGED cache_ll
    \/ /\ ~IsEmoji(node.ft_info) /\ CacheSize > 0
       /\ SetReuse([ft_info |-> Stored(node.ft_info), font |-> node.font_p])
    \/ /\ ~IsEmoji(node.ft_info) /\ CacheSize = 0
       /\ Destroy({node.font_p})
       /\ UNCHANGED cache_ll

DropFontUnlinks(n) ==                                                \* faulty
    IF refer_ll[n].ref_cnt > 1
    THEN /\ refer_ll' = [refer_ll EXCEPT ![n].ref_cnt = @ - 1]
         /\ UNCHANGED <<cache_ll, freetype>>
    ELSE /\ refer_ll' = [refer_ll EXCEPT ![n].font_p = NULL]
         /\ DeleteWrapper(refer_ll[n])
DropFont(n) ==
    IF refer_ll[n].ref_cnt > 1
    THEN /\ refer_ll' = [refer_ll EXCEPT ![n].ref_cnt = @ - 1]
         /\ UNCHANGED <<cache_ll, freetype>>
    ELSE /\ refer_ll' = [refer_ll EXCEPT ![n] = NULL]
         /\ DeleteWrapper(refer_ll[n])

DeleteFont(h) ==
    /\ manager
    /\ h \in InUse
    /\ DropFont(rec_ll[h].refer_node_p)
    /\ rec_ll' = [rec_ll EXCEPT ![h] = NULL]
    /\ asked' = [asked EXCEPT ![h] = NULL]
    /\ UNCHANGED config

--------------------------------------------------------------------------------
(* The find paths.                                                            *)

fonts == <<refer_ll, rec_ll, cache_ll, freetype, asked>>

SetBasePath(b) ==
    /\ manager
    /\ base_path' = b
    /\ UNCHANGED <<manager, emoji_manager, path_ll, fonts>>

\* NULL is returned, and nothing added, when the path is already the one found.
AddPath(name, p) ==
    /\ manager
    /\ Len(path_ll) < MaxPaths
    /\ ~FindPath(name, p)
    /\ path_ll' = Append(path_ll, [name |-> name, path |-> p])
    /\ UNCHANGED <<manager, emoji_manager, base_path, fonts>>

RemovePath(i) ==
    /\ manager
    /\ i \in DOMAIN path_ll
    /\ path_ll' = RemoveAt(path_ll, i)
    /\ UNCHANGED <<manager, emoji_manager, base_path, fonts>>

--------------------------------------------------------------------------------
(* The manager's own life.                                                    *)

\* The config file may or may not give an emoji manager.
CreateManager(b, hasEmoji) ==
    /\ ~manager
    /\ manager' = TRUE
    /\ emoji_manager' = hasEmoji
    /\ base_path' = b
    /\ path_ll' = <<>>
    /\ cache_ll' = <<>>
    /\ refer_ll' = [n \in Nodes |-> NULL]
    /\ rec_ll' = [h \in Handles |-> NULL]
    /\ UNCHANGED <<freetype, asked>>

\* font_manager_check_resource: a record or a node makes the deletion fail.
HasResource == InUse # {} \/ Held # {}

ClearCacheForgets == UNCHANGED freetype /\ cache_ll' = <<>>          \* faulty
ClearCache == Destroy(CacheFonts) /\ cache_ll' = <<>>
DeleteManager ==
    /\ manager
    /\ ~HasResource
    /\ manager' = FALSE
    /\ emoji_manager' = FALSE
    /\ path_ll' = <<>>
    /\ ClearCache
    /\ UNCHANGED <<refer_ll, rec_ll, base_path, asked>>

Next ==
    \/ \E h \in Handles, info \in Infos : ShareFont(h, info)
    \/ \E h \in Handles, info \in Infos : ReuseFont(h, info)
    \/ \E h \in Handles, info \in Infos : OpenFont(h, info)
    \/ \E info \in Infos : CreateFails(info)
    \/ \E h \in Handles : DeleteFont(h)
    \/ \E b \in Bases : SetBasePath(b)
    \/ \E name \in Names, p \in Paths : AddPath(name, p)
    \/ \E i \in 1..MaxPaths : RemovePath(i)
    \/ \E hasEmoji \in BOOLEAN : CreateManager(NoBase, hasEmoji)
    \/ DeleteManager

Spec == Init /\ [][Next]_vars

--------------------------------------------------------------------------------
(* Properties.                                                                *)

\* Every record is backed by a live node whose freetype font it is a copy of,
\* and ref_cnt of a node is the number of the records that use it, never 0:
\* request_font, drop_font and the record list never disagree.
RefCountExact ==
    /\ \A h \in InUse : LET n == rec_ll[h].refer_node_p IN
         n \in Held /\ refer_ll[n].font_p = rec_ll[h].font
    /\ \A n \in Held : /\ refer_ll[n].ref_cnt = Cardinality(Users(n))
                       /\ refer_ll[n].ref_cnt > 0

\* A freetype or imgfont object has exactly one owner, a node or a cache entry,
\* and every owner's object exists: nothing leaks, is deleted twice or is used
\* after its deletion, whatever mix of requests, drops and evictions ran.
Ownership ==
    /\ \A m, n \in Held : refer_ll[m].font_p = refer_ll[n].font_p => m = n
    /\ \A i, j \in DOMAIN cache_ll : cache_ll[i].font = cache_ll[j].font => i = j
    /\ \A n \in Held, i \in DOMAIN cache_ll : refer_ll[n].font_p # cache_ll[i].font
    /\ Live = {refer_ll[n].font_p : n \in Held} \cup CacheFonts

\* The cache never holds more than UIKIT_FONT_CACHE_SIZE fonts, and never an
\* emoji font, which freetype could not delete on eviction.
CacheBound ==
    /\ Len(cache_ll) <= CacheSize
    /\ \A i \in DOMAIN cache_ll : ~IsEmoji(cache_ll[i].ft_info)

\* There is one freetype object per info, in a node or in the cache: a request
\* never opens a file again while the font of that info is around.
OneFontPerInfo ==
    /\ \A m, n \in Held : refer_ll[m].ft_info = refer_ll[n].ft_info => m = n
    /\ \A i, j \in DOMAIN cache_ll :
         cache_ll[i].ft_info = cache_ll[j].ft_info => i = j
    /\ \A n \in Held, i \in DOMAIN cache_ll :
         refer_ll[n].ft_info # cache_ll[i].ft_info

\* A caller holds a font that exists and was opened for what that caller asked,
\* through any number of moves from node to cache to another node.
RightFont ==
    \A h \in InUse : /\ rec_ll[h].font \in Live
                     /\ freetype[rec_ll[h].font].made_for = asked[h]

\* When the manager is gone no font object of its is left.
NothingOutlivesManager == ~manager => InUse = {} /\ Held = {} /\ Live = {}

\* The object behind a record stays the same one, untouched, for as long as the
\* record lives: other callers' deletions and the evictions never reach it.
StableStep ==
    \A h \in InUse \cap InUse' :
        /\ rec_ll'[h] = rec_ll[h]
        /\ freetype'[rec_ll[h].font] = freetype[rec_ll[h].font]
StableWhileHeld == [][StableStep]_vars

\* The manager is a font pool: records hold the fonts of their nodes, the cache
\* is the spare part.
Pool == INSTANCE FontPool WITH
    Requests <- Infos, Limit <- CacheSize, Empty <- NULL,
    held  <- [h \in Handles |-> IF h \in InUse THEN rec_ll[h].font ELSE NULL],
    made  <- [f \in Fonts |-> IF f \in Live THEN freetype[f].made_for ELSE NULL],
    spare <- CacheFonts
\* Whatever the reference counts and lists do, callers see only pool steps.
ImplementsPool == Pool!PoolSpec
================================================================================
