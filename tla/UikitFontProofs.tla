---------------------------- MODULE UikitFontProofs ----------------------------
(***************************************************************************)
(* Proofs about the public font interface, for any names, families, cuts and *)
(* cache sizes: whichever manager calls fail, a font and its family live and *)
(* die together, and an application that destroyed its fonts can shut down.   *)
(***************************************************************************)
EXTENDS UikitFont, FontManagerProofs

--------------------------------------------------------------------------------
(* The inductive invariant.  That every record but a main font is some         *)
(* record's fallback would allow a ring of fallbacks that no main font reaches, *)
(* so it names the family of every main font as a sequence.                    *)

CallShape ==
    \/ call = Idle
    \/ \E info \in Infos, todo \in Seq(Names), main, first, last \in MaybeHandle :
         /\ call = Creating(info, todo, main, first, last)
         /\ main = NULL => first = NULL /\ last = NULL
    \/ \E main \in Handles, at \in MaybeHandle : call = Destroying(main, at)

Shape ==
    /\ fallback \in [Handles -> MaybeHandle]
    /\ given \subseteq Handles
    /\ CallShape

Making   == IF call.op = "create" /\ call.main # NULL THEN {call.main} ELSE {}
Deleting == IF call.op = "destroy" THEN {call.main} ELSE {}

\* The main fonts, that of the call in progress included.
Roots == given \cup Making \cup Deleting

FirstOf(s) == IF s = <<>> THEN NULL ELSE s[1]
LastOf(s)  == IF s = <<>> THEN NULL ELSE s[Len(s)]

\* Live records, each the fallback of the one before.
Chain(s) == \A i \in DOMAIN s :
    /\ s[i] \in InUse \ Roots
    /\ fallback[s[i]] = IF i = Len(s) THEN NULL ELSE s[i + 1]

FamiliesRight(fam) ==
    /\ \A m \in Roots : Chain(fam[m])
    /\ \A h \in InUse \ Roots : \E m \in Roots : \E i \in DOMAIN fam[m] : h = fam[m][i]
    /\ \A m, n \in Roots : \A i \in DOMAIN fam[m], j \in DOMAIN fam[n] :
         fam[m][i] = fam[n][j] => m = n /\ i = j
    /\ \A m \in given : fallback[m] = FirstOf(fam[m])

\* How far the family of the call in progress is made or deleted.
Progress(fam) ==
    /\ \A m \in Making : /\ m \notin given /\ fallback[m] = NULL
                         /\ call.first = FirstOf(fam[m]) /\ call.last = LastOf(fam[m])
    /\ \A m \in Deleting : m \notin given /\ call.at = FirstOf(fam[m])

FamilyInv ==
    /\ Roots \subseteq InUse
    /\ \E fam \in [Handles -> Seq(Handles)] : FamiliesRight(fam) /\ Progress(fam)

UInv == IInv /\ Shape /\ FamilyInv
--------------------------------------------------------------------------------
(* What the manager's calls do to the records.                                *)

\* A call that changes nothing in the manager.
LEMMA SameManager ==
    ASSUME IInv, UNCHANGED vars
    PROVE  IInv' /\ InUse' = InUse
<1>1. path_ll' \in Seq(PathRecord) /\ base_path' \in Bases
  BY DEF IInv, TypeOK, vars
<1>2. UNCHANGED <<manager, emoji_manager, fonts>>
  BY DEF vars, fonts
<1> QED BY <1>1, <1>2, FontsUnchangedStep DEF InUse, vars

\* A font that is made is one more record.
LEMMA CreateEffect ==
    ASSUME IInv, NEW h \in Handles, NEW info \in Infos, CreateFont(h, info)
    PROVE  IInv' /\ h \notin InUse /\ InUse' = InUse \cup {h}
<1>1. IInv'
  BY ShareFontStep, ReuseFontStep, OpenFontStep DEF CreateFont
<1>2. \E n \in Nodes, f \in Fonts : AddRecord(h, info, n, f)
  <2>1. CASE ShareFont(h, info)
    BY <2>1, HeldNode DEF ShareFont, Matches, IInv
  <2>2. CASE ReuseFont(h, info)
    BY <2>2, CacheEntry DEF ReuseFont, IInv
  <2>3. CASE OpenFont(h, info)
    BY <2>3 DEF OpenFont
  <2> QED BY <2>1, <2>2, <2>3 DEF CreateFont
<1>3. PICK n \in Nodes, f \in Fonts : AddRecord(h, info, n, f)
  BY <1>2
<1>4. rec_ll' = [rec_ll EXCEPT ![h] = [font |-> f, refer_node_p |-> n]] /\ h \notin InUse
  BY <1>3 DEF AddRecord
<1>5. rec_ll \in [Handles -> FontRecord \cup {NULL}] /\ rec_ll' \in [Handles -> FontRecord \cup {NULL}]
  BY <1>1 DEF IInv, TypeOK
<1>6. rec_ll'[h] # NULL
  <2>1. [font |-> f, refer_node_p |-> n] \in FontRecord
    BY DEF FontRecord
  <2> QED BY <1>4, <1>5, <2>1, NullAssumption
<1> QED BY <1>1, <1>4, <1>5, <1>6 DEF InUse

\* A font that is deleted is one record less.
LEMMA DeleteEffect ==
    ASSUME IInv, NEW h \in Handles, DeleteFont(h)
    PROVE  IInv' /\ h \in InUse /\ InUse' = InUse \ {h}
<1>1. IInv' /\ h \in InUse /\ rec_ll' = [rec_ll EXCEPT ![h] = NULL]
  BY DeleteFontStep DEF DeleteFont
<1>2. InUse' = InUse \ {h}
  BY <1>1, RemoveRecordUsers DEF IInv
<1> QED BY <1>1, <1>2

\* vg_font_init makes a manager without records, or does nothing.
LEMMA InitEffect ==
    ASSUME IInv, VgFontInit
    PROVE  IInv' /\ InUse' = InUse
<1>1. CASE manager
  BY <1>1, SameManager DEF VgFontInit
<1>2. CASE ~manager
  <2>1. PICK hasEmoji \in BOOLEAN : CreateManager(LibBase, hasEmoji)
    BY <1>2 DEF VgFontInit
  <2>2. IInv'
    BY <2>1, CreateManagerStep, LibAssumption
  <2>3. InUse = {}
    BY <1>2 DEF IInv, NothingOutlivesManager
  <2>4. InUse' = {}
    BY <2>1 DEF CreateManager, InUse
  <2> QED BY <2>2, <2>3, <2>4
<1> QED BY <1>1, <1>2

\* vg_font_deinit deletes a manager without records, or does nothing.
LEMMA DeinitEffect ==
    ASSUME IInv, VgFontDeinit
    PROVE  IInv' /\ InUse' = InUse
<1>1. CASE HasResource
  BY <1>1, SameManager DEF VgFontDeinit
<1>2. CASE ~HasResource
  BY <1>2, DeleteManagerStep DEF VgFontDeinit, DeleteManager, InUse
<1> QED BY <1>1, <1>2

--------------------------------------------------------------------------------
(* The call in progress.                                                      *)

\* What is known of a call from its kind.
LEMMA CallKinds ==
    ASSUME CallShape
    PROVE  /\ call = Idle => Making = {} /\ Deleting = {} /\ Roots = given
           /\ call.op = "create" =>
                \E info \in Infos, todo \in Seq(Names), main, first, last \in MaybeHandle :
                  /\ call = Creating(info, todo, main, first, last)
                  /\ main = NULL => first = NULL /\ last = NULL
                  /\ Deleting = {} /\ Making = IF main = NULL THEN {} ELSE {main}
           /\ call.op = "destroy" =>
                \E main \in Handles, at \in MaybeHandle :
                  /\ call = Destroying(main, at)
                  /\ Making = {} /\ Deleting = {main}
<1> USE DEF Making, Deleting
<1>1. CASE call = Idle
  BY <1>1 DEF Idle, Roots
<1>2. CASE \E info \in Infos, todo \in Seq(Names), main, first, last \in MaybeHandle :
             /\ call = Creating(info, todo, main, first, last)
             /\ main = NULL => first = NULL /\ last = NULL
  <2>1. PICK info \in Infos, todo \in Seq(Names), main, first, last \in MaybeHandle :
             /\ call = Creating(info, todo, main, first, last)
             /\ main = NULL => first = NULL /\ last = NULL
    BY <1>2
  <2>2. call.op = "create" /\ call.main = main
    BY <2>1 DEF Creating
  <2>3. call # Idle
    BY <2>2 DEF Idle
  <2>4. Deleting = {} /\ Making = IF main = NULL THEN {} ELSE {main}
    BY <2>2
  <2> HIDE DEF Making, Deleting
  <2> QED BY <2>1, <2>2, <2>3, <2>4
<1>3. CASE \E main \in Handles, at \in MaybeHandle : call = Destroying(main, at)
  <2>1. PICK main \in Handles, at \in MaybeHandle : call = Destroying(main, at)
    BY <1>3
  <2>2. call.op = "destroy" /\ call.main = main
    BY <2>1 DEF Destroying
  <2>3. call # Idle
    BY <2>2 DEF Idle
  <2>4. Making = {} /\ Deleting = {main}
    BY <2>2
  <2> HIDE DEF Making, Deleting
  <2> QED BY <2>1, <2>2, <2>3, <2>4
<1> QED BY <1>1, <1>2, <1>3 DEF CallShape

\* A call that gives up, or has not begun, changes no family.
LEMMA FamiliesKept ==
    ASSUME FamilyInv, InUse' = InUse, fallback' = fallback, given' = given,
           Making = {}, Deleting = {}, Making' = {}, Deleting' = {}
    PROVE  FamilyInv'
<1>1. Roots' = Roots
  BY DEF Roots
<1>2. PICK fam \in [Handles -> Seq(Handles)] : FamiliesRight(fam) /\ Progress(fam)
  BY DEF FamilyInv
<1>3. FamiliesRight(fam)' /\ Progress(fam)'
  BY <1>1, <1>2 DEF FamiliesRight, Progress, Chain
<1> QED BY <1>1, <1>2, <1>3 DEF FamilyInv
--------------------------------------------------------------------------------
(* Sequences.                                                                 *)

\* One more font at the end of a family.
LEMMA FamilyGrows ==
    ASSUME NEW s \in Seq(Handles), NEW h \in Handles
    PROVE  /\ Append(s, h) \in Seq(Handles) /\ Append(s, h) # <<>>
           /\ Len(Append(s, h)) = Len(s) + 1 /\ Len(s) \in Nat
           /\ DOMAIN s = 1..Len(s) /\ DOMAIN Append(s, h) = 1..(Len(s) + 1)
           /\ \A i \in 1..Len(s) : Append(s, h)[i] = s[i]
           /\ Append(s, h)[Len(s) + 1] = h
           /\ LastOf(Append(s, h)) = h
           /\ FirstOf(Append(s, h)) = IF s = <<>> THEN h ELSE FirstOf(s)
           /\ s = <<>> <=> Len(s) = 0
BY DEF LastOf, FirstOf

\* A family without its first font.
LEMMA FamilyShrinks ==
    ASSUME NEW s \in Seq(Handles), s # <<>>
    PROVE  /\ Tail(s) \in Seq(Handles)
           /\ Len(Tail(s)) = Len(s) - 1 /\ Len(s) \in Nat /\ Len(s) > 0
           /\ DOMAIN s = 1..Len(s) /\ DOMAIN Tail(s) = 1..(Len(s) - 1)
           /\ \A i \in 1..(Len(s) - 1) : Tail(s)[i] = s[i + 1]
           /\ FirstOf(Tail(s)) = IF Len(s) = 1 THEN NULL ELSE s[2]
<1>1. /\ Tail(s) \in Seq(Handles) /\ Len(s) \in Nat /\ Len(s) > 0
      /\ Len(Tail(s)) = Len(s) - 1 /\ DOMAIN s = 1..Len(s)
  OBVIOUS
<1>2. DOMAIN Tail(s) = 1..(Len(s) - 1)
  BY <1>1
<1>3. \A i \in 1..(Len(s) - 1) : Tail(s)[i] = s[i + 1]
  OBVIOUS
<1>4. Tail(s) = <<>> <=> Len(s) = 1
  BY <1>1
<1>5. FirstOf(Tail(s)) = IF Len(s) = 1 THEN NULL ELSE s[2]
  BY <1>1, <1>3, <1>4 DEF FirstOf
<1> QED BY <1>1, <1>2, <1>3, <1>5

--------------------------------------------------------------------------------
(* The steps of vg_font_create.                                               *)

\* The main font is made, without family, or the call ends.
LEMMA CreateMainStep ==
    ASSUME UInv, CreateMain
    PROVE  UInv'
<1> USE DEF UInv
<1>1. PICK info \in Infos, todo \in Seq(Names), main, first, last \in MaybeHandle :
        /\ call = Creating(info, todo, main, first, last)
        /\ main = NULL => first = NULL /\ last = NULL
        /\ Deleting = {} /\ Making = IF main = NULL THEN {} ELSE {main}
  BY CallKinds DEF CreateMain, Shape
<1>2. main = NULL /\ call.info = info /\ Making = {} /\ Deleting = {} /\ Roots = given
  BY <1>1 DEF CreateMain, Creating, Roots
<1>3. CASE CreateFails(call.info) /\ call' = Idle /\ UNCHANGED fallback
  <2>1. IInv' /\ InUse' = InUse
    BY <1>3, SameManager DEF CreateFails
  <2>2. Shape'
    BY <1>3 DEF CreateMain, Shape, CallShape
  <2>3. Making' = {} /\ Deleting' = {}
    BY <1>3 DEF Making, Deleting, Idle
  <2> QED BY <1>2, <1>3, <2>1, <2>2, <2>3, FamiliesKept DEF CreateMain
<1>4. ASSUME NEW h \in Handles, CreateFont(h, call.info),
             fallback' = [fallback EXCEPT ![h] = NULL], call' = [call EXCEPT !.main = h]
      PROVE  UInv'
  <2>1. IInv' /\ h \notin InUse /\ InUse' = InUse \cup {h}
    BY <1>2, <1>4, CreateEffect
  <2>2. call' = Creating(info, todo, h, NULL, NULL)
    BY <1>1, <1>2, <1>4 DEF Creating
  <2>3. h \in MaybeHandle /\ NULL \in MaybeHandle /\ h # NULL
    BY HandleAssumption DEF MaybeHandle
  <2>4. CallShape'
    BY <2>2, <2>3 DEF CallShape
  <2>5. Shape'
    BY <1>4, <2>4 DEF Shape, CreateMain, MaybeHandle
  <2>6. call'.op = "create" /\ call'.main = h /\ call'.first = NULL /\ call'.last = NULL
    BY <2>2 DEF Creating
  <2>7. Making' = {h} /\ Deleting' = {} /\ given' = given
    BY <2>3, <2>6 DEF Making, Deleting, CreateMain
  <2>8. Roots' = Roots \cup {h} /\ h \notin Roots
    BY <1>2, <2>1, <2>7 DEF Roots, FamilyInv
  <2>9. PICK fam \in [Handles -> Seq(Handles)] : FamiliesRight(fam) /\ Progress(fam)
    BY DEF FamilyInv
  <2>10. PICK new \in [Handles -> Seq(Handles)] :
           /\ new[h] = <<>> /\ DOMAIN new[h] = {}
           /\ \A m \in Roots : new[m] = fam[m]
    <3>1. [fam EXCEPT ![h] = <<>>] \in [Handles -> Seq(Handles)]
      OBVIOUS
    <3> DEFINE f == [fam EXCEPT ![h] = <<>>]
    <3>2. f[h] = <<>> /\ \A m \in Handles : m # h => f[m] = fam[m]
      OBVIOUS
    <3>3. DOMAIN <<>> = {}
      OBVIOUS
    <3>4. \A m \in Roots : m \in Handles /\ m # h
      BY <2>8 DEF FamilyInv, InUse
    <3> HIDE DEF f
    <3>5. f \in [Handles -> Seq(Handles)]
      BY <3>1 DEF f
    <3> QED BY <3>2, <3>3, <3>4, <3>5
  <2>11. /\ fallback'[h] = NULL
         /\ \A g \in InUse : fallback'[g] = fallback[g] /\ g # h
    BY <1>4, <2>1 DEF Shape, InUse
  <2>12. /\ \A m \in Roots : \A i \in DOMAIN fam[m] : fam[m][i] \in InUse \ Roots
         /\ Roots \subseteq InUse
    BY <2>9 DEF FamiliesRight, Chain, FamilyInv
  <2>13. ASSUME NEW m \in Roots' PROVE Chain(new[m])'
    <3>1. CASE m = h
      BY <2>10, <3>1 DEF Chain
    <3>2. CASE m \in Roots
      <4>1. new[m] = fam[m] /\ Chain(fam[m])
        BY <2>9, <2>10, <3>2 DEF FamiliesRight
      <4>2. ASSUME NEW g \in InUse \ Roots PROVE g \in InUse' \ Roots' /\ fallback'[g] = fallback[g]
        BY <2>1, <2>8, <2>11
      <4> QED BY <4>1, <4>2 DEF Chain
    <3> QED BY <2>8, <3>1, <3>2
  <2>14. \A g \in InUse' \ Roots' : \E m \in Roots' : \E i \in DOMAIN new[m] : g = new[m][i]
    BY <2>1, <2>8, <2>9, <2>10 DEF FamiliesRight
  <2>15. ASSUME NEW m \in Roots', NEW n \in Roots', NEW i \in DOMAIN new[m],
                NEW j \in DOMAIN new[n], new[m][i] = new[n][j]
         PROVE  m = n /\ i = j
    <3>1. m \in Roots /\ n \in Roots
      BY <2>8, <2>10
    <3>2. new[m] = fam[m] /\ new[n] = fam[n]
      BY <2>10, <3>1
    <3>3. i \in DOMAIN fam[m] /\ j \in DOMAIN fam[n] /\ fam[m][i] = fam[n][j]
      BY <2>15, <3>2
    <3> QED BY <2>9, <3>1, <3>3 DEF FamiliesRight
  <2>16. FamiliesRight(new)'
    BY <1>2, <2>7, <2>9, <2>10, <2>11, <2>12, <2>13, <2>14, <2>15 DEF FamiliesRight
  <2>17. Progress(new)'
    BY <1>2, <2>6, <2>7, <2>8, <2>10, <2>11 DEF Progress, FirstOf, LastOf
  <2>18. Roots' \subseteq InUse'
    BY <2>1, <2>8, <2>12
  <2> QED BY <2>1, <2>5, <2>10, <2>16, <2>17, <2>18 DEF FamilyInv
<1> QED BY <1>2, <1>3, <1>4 DEF CreateMain

\* A fallback is made and goes to the end of the family.
LEMMA LinkStep ==
    ASSUME UInv, NEW main \in Handles, NEW h \in Handles,
           Making = {main}, Deleting = {}, Making' = {main}, Deleting' = {},
           h \notin InUse, InUse' = InUse \cup {h}, given' = given,
           Link(call.last, h),
           call'.first = IF call.first = NULL THEN h ELSE call.first, call'.last = h
    PROVE  FamilyInv'
<1> USE DEF UInv
<1>1. /\ Roots' = Roots /\ main \in Roots /\ h \notin Roots
      /\ Roots \subseteq InUse /\ Roots = given \cup {main}
  BY DEF Roots, FamilyInv
<1>2. PICK fam \in [Handles -> Seq(Handles)] : FamiliesRight(fam) /\ Progress(fam)
  BY DEF FamilyInv
<1>3. PICK s \in Seq(Handles) : s = fam[main]
  OBVIOUS
<1>4. PICK t \in Seq(Handles) : t = Append(s, h)
  BY FamilyGrows
<1>5. PICK n \in Nat :
        /\ n = Len(s)
        /\ DOMAIN s = 1..n
        /\ DOMAIN t = 1..(n + 1)
        /\ Len(t) = n + 1
        /\ t # <<>>
        /\ t[n + 1] = h
        /\ (s = <<>>) <=> (n = 0)
        /\ FirstOf(t) = (IF s = <<>> THEN h ELSE FirstOf(s))
        /\ LastOf(t) = h
        /\ (\A i \in 1..n : t[i] = s[i])
  BY <1>4, FamilyGrows
<1>6. PICK new \in [Handles -> Seq(Handles)] :
        new[main] = t /\ \A m \in Handles : m # main => new[m] = fam[m]
  <2> DEFINE f == [fam EXCEPT ![main] = t]
  <2>1. f \in [Handles -> Seq(Handles)]
    OBVIOUS
  <2>2. f[main] = t /\ \A m \in Handles : m # main => f[m] = fam[m]
    OBVIOUS
  <2> HIDE DEF f
  <2> QED BY <2>1, <2>2
<1>7. /\ fallback[main] = NULL /\ main \notin given
      /\ call.first = FirstOf(s) /\ call.last = LastOf(s)
  BY <1>2, <1>3 DEF Progress
<1>8. /\ Chain(s)
      /\ Roots \subseteq Handles /\ InUse \subseteq Handles
      /\ (\A m \in Roots : \A i \in DOMAIN fam[m] : fam[m][i] \in InUse \ Roots)
  <2>1. Chain(s)
    BY <1>1, <1>2, <1>3 DEF FamiliesRight
  <2>2. \A m \in Roots : \A i \in DOMAIN fam[m] : fam[m][i] \in InUse \ Roots
    BY <1>2 DEF FamiliesRight, Chain
  <2>3. Roots \subseteq Handles /\ InUse \subseteq Handles
    BY <1>1 DEF InUse
  <2> QED BY <2>1, <2>2, <2>3
<1>21. \A i \in 1..n : /\ s[i] \in InUse \ Roots
                      /\ fallback[s[i]] = IF i = n THEN NULL ELSE s[i + 1]
  <2>1. DOMAIN s = 1..n /\ Len(s) = n
    BY <1>5
  <2> QED BY <1>8, <2>1 DEF Chain
<1>22. /\ \A i, j \in 1..n : s[i] = s[j] => i = j
       /\ \A m \in Roots : \A i \in DOMAIN fam[m], j \in 1..n :
            fam[m][i] = s[j] => m = main
  <2>1. DOMAIN fam[main] = 1..n /\ fam[main] = s
    BY <1>3, <1>5
  <2>2. \A m, k \in Roots : \A i \in DOMAIN fam[m], j \in DOMAIN fam[k] :
          fam[m][i] = fam[k][j] => m = k /\ i = j
    BY <1>2 DEF FamiliesRight
  <2> QED BY <1>1, <2>1, <2>2
<1>9. /\ call.last \notin Roots \cup {h}
      /\ (n > 0) => (call.last = s[n] /\ call.last # NULL)
      /\ (n = 0) => (call.last = NULL)
      /\ (FirstOf(s) = NULL) <=> (n = 0)
  <2>1. CASE n = 0
    BY <1>1, <1>5, <1>7, <1>8, <2>1, HandleAssumption DEF LastOf, FirstOf
  <2>2. CASE n > 0
    <3>1. call.last = s[n] /\ FirstOf(s) = s[1] /\ n \in DOMAIN s /\ 1 \in DOMAIN s
      BY <1>5, <1>7, <2>2 DEF LastOf, FirstOf
    <3>2. s[n] \in InUse \ Roots /\ s[1] \in InUse
      BY <1>1, <1>3, <1>8, <3>1
    <3> QED BY <1>8, <2>2, <3>1, <3>2, HandleAssumption
  <2> QED BY <1>5, <2>1, <2>2
<1>10. /\ fallback'[h] = NULL
       /\ (call.last # NULL) => (fallback'[call.last] = h)
       /\ \A g \in InUse : g # call.last => fallback'[g] = fallback[g]
  <2>1. ASSUME NEW g \in Handles
        PROVE  fallback'[g] = IF g = h THEN NULL ELSE IF g = call.last THEN h ELSE fallback[g]
    BY DEF Link
  <2>2. call.last # NULL => call.last \in InUse
    BY <1>5, <1>8, <1>9 DEF Chain
  <2> QED BY <1>8, <1>9, <2>1, <2>2
<1>11. Chain(new[main])'
  <2> SUFFICES ASSUME NEW i \in 1..(n + 1)
               PROVE  /\ t[i] \in InUse' \ Roots'
                      /\ fallback'[t[i]] = IF i = n + 1 THEN NULL ELSE t[i + 1]
    <3>1. new[main] = t /\ DOMAIN t = 1..(n + 1) /\ Len(t) = n + 1
      BY <1>5, <1>6
    <3> QED BY <3>1 DEF Chain
  <2>1. CASE i = n + 1
    BY <1>1, <1>5, <1>10, <2>1
  <2>2. CASE i = n
    <3>1. n > 0 /\ t[i] = s[n] /\ t[i + 1] = h
      BY <1>5, <2>2
    <3>2. s[n] \in InUse \ Roots
      BY <1>5, <1>8, <3>1 DEF Chain
    <3> QED BY <1>1, <1>9, <1>10, <2>2, <3>1, <3>2
  <2>3. CASE i < n
    <3>1. i \in 1..n /\ i + 1 \in 1..n /\ n \in 1..n
      BY <2>3
    <3>2. t[i] = s[i] /\ t[i + 1] = s[i + 1]
      BY <1>5, <3>1
    <3>3. s[i] \in InUse \ Roots /\ fallback[s[i]] = s[i + 1]
      <4>1. i # n
        BY <2>3
      <4> QED BY <1>21, <3>1, <4>1
    <3>4. s[i] # s[n]
      BY <1>22, <2>3, <3>1
    <3>5. i # n + 1 /\ n > 0
      BY <2>3, <3>1
    <3>6. fallback'[s[i]] = fallback[s[i]]
      BY <1>9, <1>10, <3>3, <3>4, <3>5
    <3>7. t[i] \in InUse' \ Roots'
      BY <1>1, <3>2, <3>3
    <3>8. fallback'[t[i]] = t[i + 1]
      BY <3>2, <3>3, <3>6
    <3> QED BY <3>5, <3>7, <3>8
  <2>4. i = n + 1 \/ i = n \/ i < n
    <3>1. n \in Nat /\ i \in Nat /\ i <= n + 1
      BY <1>5
    <3> QED BY <3>1
  <2> QED BY <2>1, <2>2, <2>3, <2>4
<1>12. ASSUME NEW m \in Roots, m # main PROVE Chain(new[m])'
  <2>1. new[m] = fam[m] /\ Chain(fam[m])
    BY <1>2, <1>6, <1>8, <1>12 DEF FamiliesRight
  <2>2. ASSUME NEW i \in DOMAIN fam[m] PROVE fam[m][i] # call.last
    <3>1. n > 0 => fam[m][i] # s[n]
      <4>1. n > 0 => n \in 1..n
        OBVIOUS
      <4> QED BY <1>12, <1>22, <4>1
    <3>2. fam[m][i] # NULL
      BY <1>8, HandleAssumption
    <3>3. n = 0 \/ n > 0
      OBVIOUS
    <3> QED BY <1>9, <3>1, <3>2, <3>3
  <2>3. \A i \in DOMAIN fam[m] : /\ fam[m][i] \in InUse' \ Roots'
                                /\ fallback'[fam[m][i]] = fallback[fam[m][i]]
    BY <1>1, <1>8, <1>10, <2>2
  <2> QED BY <2>1, <2>3 DEF Chain
<1>13. \A g \in InUse' \ Roots' : \E m \in Roots' : \E i \in DOMAIN new[m] : g = new[m][i]
  <2> SUFFICES ASSUME NEW g \in InUse' \ Roots'
               PROVE  \E m \in Roots : \E i \in DOMAIN new[m] : g = new[m][i]
    BY <1>1
  <2>1. CASE g = h
    <3>1. n + 1 \in DOMAIN new[main] /\ new[main][n + 1] = h
      BY <1>5, <1>6
    <3> QED BY <1>1, <2>1, <3>1
  <2>2. CASE g # h
    <3>1. g \in InUse \ Roots
      BY <1>1, <2>2
    <3>4. PICK m \in Roots : \E i \in DOMAIN fam[m] : g = fam[m][i]
      BY <1>2, <3>1 DEF FamiliesRight
    <3>2. PICK i \in DOMAIN fam[m] : g = fam[m][i]
      BY <3>4
    <3>3. i \in DOMAIN new[m] /\ g = new[m][i]
      <4>1. CASE m = main
        BY <1>3, <1>5, <1>6, <3>2, <4>1
      <4>2. CASE m # main
        BY <1>6, <1>8, <3>2, <4>2
      <4> QED BY <4>1, <4>2
    <3> QED BY <3>3
  <2> QED BY <2>1, <2>2
<1>14. \A m \in Roots : \A i \in DOMAIN new[m] :
          \/ m = main /\ i = n + 1 /\ new[m][i] = h
          \/ i \in DOMAIN fam[m] /\ new[m][i] = fam[m][i] /\ new[m][i] # h
  <2> SUFFICES ASSUME NEW m \in Roots, NEW i \in DOMAIN new[m]
               PROVE  \/ m = main /\ i = n + 1 /\ new[m][i] = h
                      \/ i \in DOMAIN fam[m] /\ new[m][i] = fam[m][i] /\ new[m][i] # h
    OBVIOUS
  <2>1. CASE m # main
    BY <1>6, <1>8, <2>1
  <2>2. CASE m = main /\ i = n + 1
    BY <1>5, <1>6, <2>2
  <2>3. CASE m = main /\ i # n + 1
    <3>1. i \in 1..n
      BY <1>5, <1>6, <2>3
    <3>2. i \in DOMAIN fam[m] /\ new[m][i] = fam[m][i]
      BY <1>3, <1>5, <1>6, <2>3, <3>1
    <3>3. fam[m][i] \in InUse
      BY <1>8, <3>2
    <3> QED BY <3>2, <3>3
  <2> QED BY <2>1, <2>2, <2>3
<1>15. \A m, k \in Roots' : \A i \in DOMAIN new[m], j \in DOMAIN new[k] :
          new[m][i] = new[k][j] => m = k /\ i = j
  <2> SUFFICES ASSUME NEW m \in Roots, NEW k \in Roots, NEW i \in DOMAIN new[m],
                      NEW j \in DOMAIN new[k], new[m][i] = new[k][j]
               PROVE  m = k /\ i = j
    BY <1>1
  <2>1. \/ m = main /\ i = n + 1 /\ k = main /\ j = n + 1
        \/ i \in DOMAIN fam[m] /\ j \in DOMAIN fam[k] /\ fam[m][i] = fam[k][j]
    BY <1>14
  <2> QED BY <1>2, <2>1 DEF FamiliesRight
<1>16. \A m \in given' : fallback'[m] = FirstOf(new[m])
  <2> SUFFICES ASSUME NEW m \in given PROVE fallback'[m] = FirstOf(new[m])
    OBVIOUS
  <2>1. m \in Roots /\ m # main /\ m # call.last
    BY <1>1, <1>7, <1>9
  <2>2. fallback'[m] = fallback[m] /\ new[m] = fam[m]
    BY <1>1, <1>6, <1>8, <1>10, <2>1
  <2> QED BY <1>2, <2>2 DEF FamiliesRight
<1>17. FamiliesRight(new)'
  BY <1>1, <1>11, <1>12, <1>13, <1>15, <1>16 DEF FamiliesRight
<1>18. /\ fallback'[main] = NULL
       /\ call'.first = FirstOf(t) /\ call'.last = LastOf(t)
  BY <1>1, <1>5, <1>7, <1>9, <1>10
<1>19. Progress(new)'
  BY <1>6, <1>7, <1>18 DEF Progress
<1>20. Roots' \subseteq InUse'
  BY <1>1
<1> QED BY <1>17, <1>19, <1>20 DEF FamilyInv

\* A step that makes and deletes no record keeps the families.
LEMMA RootsKept ==
    ASSUME NEW fam \in [Handles -> Seq(Handles)], FamiliesRight(fam),
           Roots' = Roots, InUse' = InUse,
           \A g \in InUse \ Roots : fallback'[g] = fallback[g],
           \A m \in given' : fallback'[m] = FirstOf(fam[m])
    PROVE  FamiliesRight(fam)'
<1>1. ASSUME NEW m \in Roots PROVE Chain(fam[m])'
  <2>1. Chain(fam[m])
    BY DEF FamiliesRight
  <2> QED BY <2>1 DEF Chain
<1> QED BY <1>1 DEF FamiliesRight

\* The call begins: vg_font_init leaves the records as they are.
LEMMA BeginCreateStep ==
    ASSUME UInv, NEW info \in Infos, BeginCreate(info)
    PROVE  UInv'
<1> USE DEF UInv
<1>1. /\ call = Idle /\ VgFontInit /\ UNCHANGED <<fallback, given>>
      /\ call' = Creating(info, FamilyOf(info), NULL, NULL, NULL)
  BY DEF BeginCreate, Init_
<1>2. IInv' /\ InUse' = InUse
  BY <1>1, InitEffect
<1>3. FamilyOf(info) \in Seq(Names)
  <2>1. info.name \in Names
    BY DEF Infos
  <2>2. Family[info.name] \in Seq(Names) /\ <<>> \in Seq(Names)
    BY <2>1, FamilyAssumption
  <2> QED BY <2>2 DEF FamilyOf
<1>4. CallShape'
  <2>1. PICK todo \in Seq(Names) : todo = FamilyOf(info)
    BY <1>3
  <2>2. call' = Creating(info, todo, NULL, NULL, NULL)
    BY <1>1, <2>1
  <2>3. NULL \in MaybeHandle
    BY DEF MaybeHandle
  <2> QED BY <2>2, <2>3 DEF CallShape
<1>5. Shape'
  BY <1>1, <1>4 DEF Shape
<1>6. Making = {} /\ Deleting = {}
  BY <1>1, CallKinds DEF Shape
<1>7. call'.op = "create" /\ call'.main = NULL
  BY <1>1 DEF Creating
<1>8. Making' = {} /\ Deleting' = {}
  BY <1>7 DEF Making, Deleting
<1> QED BY <1>1, <1>2, <1>5, <1>6, <1>8, FamiliesKept

\* One fallback is made and linked, or skipped.
LEMMA CreateFallbackStep ==
    ASSUME UInv, CreateFallback
    PROVE  UInv'
<1> USE DEF UInv
<1>1. PICK info \in Infos, todo \in Seq(Names), main, first, last \in MaybeHandle :
        /\ call = Creating(info, todo, main, first, last)
        /\ main = NULL => first = NULL /\ last = NULL
        /\ Deleting = {} /\ Making = IF main = NULL THEN {} ELSE {main}
  BY CallKinds DEF CreateFallback, Shape
<1>2. /\ call.main = main /\ call.info = info /\ call.todo = todo
      /\ call.first = first /\ call.last = last
  BY <1>1 DEF Creating
<1>3. main \in Handles /\ main # NULL /\ todo # <<>> /\ Making = {main} /\ Deleting = {}
  BY <1>1, <1>2 DEF CreateFallback, MaybeHandle
<1>4. Head(todo) \in Names /\ Tail(todo) \in Seq(Names)
  BY <1>3
<1>5. PICK info2 \in Infos : info2 = [info EXCEPT !.name = Head(todo)]
  BY <1>4 DEF Infos
<1>6. given' = given
  BY DEF CreateFallback
<1>7. CASE /\ CreateFails(info2) /\ UNCHANGED fallback
           /\ call' = [call EXCEPT !.todo = Tail(@)]
  <2>1. call' = Creating(info, Tail(todo), main, first, last)
    BY <1>1, <1>7 DEF Creating
  <2>2. IInv' /\ InUse' = InUse
    BY <1>7, SameManager DEF CreateFails
  <2>3. CallShape'
    <3>1. PICK rest \in Seq(Names) : rest = Tail(todo)
      BY <1>4
    <3>2. call' = Creating(info, rest, main, first, last) /\ main # NULL
      BY <1>3, <2>1, <3>1
    <3> QED BY <3>2 DEF CallShape
  <2>4. Shape'
    BY <1>6, <1>7, <2>3 DEF Shape
  <2>5. call'.op = "create" /\ call'.main = main /\ call'.first = first /\ call'.last = last
    BY <2>1 DEF Creating
  <2>6. Making' = {main} /\ Deleting' = {}
    BY <1>3, <2>5 DEF Making, Deleting
  <2>7. Roots' = Roots
    BY <1>3, <1>6, <2>6 DEF Roots
  <2>8. PICK fam \in [Handles -> Seq(Handles)] : FamiliesRight(fam) /\ Progress(fam)
    BY DEF FamilyInv
  <2>9. FamiliesRight(fam)'
    BY <1>6, <1>7, <2>2, <2>7, <2>8, RootsKept DEF FamiliesRight
  <2>10. Progress(fam)'
    BY <1>2, <1>3, <1>6, <1>7, <2>5, <2>6, <2>8 DEF Progress
  <2> QED BY <2>2, <2>4, <2>7, <2>8, <2>9, <2>10 DEF FamilyInv
<1>8. ASSUME NEW h \in Handles, CreateFont(h, info2), Link(call.last, h),
             call' = [call EXCEPT !.todo = Tail(@), !.last = h,
                        !.first = IF @ = NULL THEN h ELSE @]
      PROVE  UInv'
  <2>1. IInv' /\ h \notin InUse /\ InUse' = InUse \cup {h}
    BY <1>8, CreateEffect
  <2>2. PICK head \in MaybeHandle : head = IF first = NULL THEN h ELSE first
    BY DEF MaybeHandle
  <2>3. call' = Creating(info, Tail(todo), main, head, h)
    BY <1>1, <1>8, <2>2 DEF Creating
  <2>4. CallShape'
    <3>1. PICK rest \in Seq(Names) : rest = Tail(todo)
      BY <1>4
    <3>2. /\ call' = Creating(info, rest, main, head, h)
          /\ main # NULL /\ h \in MaybeHandle
      BY <1>3, <2>3, <3>1 DEF MaybeHandle
    <3> QED BY <3>2 DEF CallShape
  <2>5. fallback' \in [Handles -> MaybeHandle]
    <3>1. last \in MaybeHandle /\ h \in MaybeHandle /\ NULL \in MaybeHandle
      BY DEF MaybeHandle
    <3> QED BY <1>8, <3>1 DEF Link, Shape
  <2>6. Shape'
    BY <1>6, <2>4, <2>5 DEF Shape
  <2>7. call'.op = "create" /\ call'.main = main /\ call'.first = head /\ call'.last = h
    BY <2>3 DEF Creating
  <2>8. Making' = {main} /\ Deleting' = {}
    BY <1>3, <2>7 DEF Making, Deleting
  <2>9. FamilyInv'
    BY <1>2, <1>3, <1>6, <1>8, <2>1, <2>2, <2>7, <2>8, LinkStep
  <2> QED BY <2>1, <2>6, <2>9
<1> QED BY <1>2, <1>5, <1>7, <1>8 DEF CreateFallback

\* The family is hung on the main font, which the application gets.
LEMMA EndCreateStep ==
    ASSUME UInv, EndCreate
    PROVE  UInv'
<1> USE DEF UInv
<1>1. PICK info \in Infos, todo \in Seq(Names), main, first, last \in MaybeHandle :
        /\ call = Creating(info, todo, main, first, last)
        /\ main = NULL => first = NULL /\ last = NULL
        /\ Deleting = {} /\ Making = IF main = NULL THEN {} ELSE {main}
  BY CallKinds DEF EndCreate, Shape
<1>2. call.main = main /\ call.first = first
  BY <1>1 DEF Creating
<1>3. /\ main \in Handles /\ Making = {main} /\ Deleting = {}
      /\ fallback' = [fallback EXCEPT ![main] = first]
      /\ given' = given \cup {main} /\ call' = Idle /\ UNCHANGED vars
  BY <1>1, <1>2 DEF EndCreate, MaybeHandle
<1>4. IInv' /\ InUse' = InUse
  BY <1>3, SameManager
<1>5. Shape'
  BY <1>3 DEF Shape, CallShape
<1>6. Making' = {} /\ Deleting' = {} /\ Roots' = Roots /\ main \in Roots
  BY <1>3 DEF Making, Deleting, Idle, Roots
<1>7. PICK fam \in [Handles -> Seq(Handles)] : FamiliesRight(fam) /\ Progress(fam)
  BY DEF FamilyInv
<1>8. main \notin given /\ first = FirstOf(fam[main])
  BY <1>2, <1>3, <1>7 DEF Progress
<1>9. fallback'[main] = first /\ \A g \in Handles : g # main => fallback'[g] = fallback[g]
  BY <1>3 DEF Shape
<1>10. \A m \in given' : fallback'[m] = FirstOf(fam[m])
  <2>1. \A m \in given : fallback[m] = FirstOf(fam[m]) /\ m \in Handles
    BY <1>7 DEF FamiliesRight, Shape
  <2> QED BY <1>3, <1>8, <1>9, <2>1
<1>11. \A g \in InUse \ Roots : fallback'[g] = fallback[g]
  BY <1>6, <1>9 DEF InUse
<1>12. FamiliesRight(fam)'
  BY <1>4, <1>6, <1>7, <1>10, <1>11, RootsKept
<1>13. Progress(fam)'
  BY <1>6 DEF Progress
<1> QED BY <1>4, <1>5, <1>6, <1>7, <1>12, <1>13 DEF FamilyInv

--------------------------------------------------------------------------------
(* The steps of vg_font_destroy.                                              *)

\* The call begins at the first font of the family.
LEMMA BeginDestroyStep ==
    ASSUME UInv, NEW h \in Handles, BeginDestroy(h)
    PROVE  UInv'
<1> USE DEF UInv
<1>1. /\ call = Idle /\ h \in given /\ given' = given \ {h}
      /\ call' = Destroying(h, fallback[h]) /\ fallback' = fallback /\ UNCHANGED vars
  BY DEF BeginDestroy
<1>2. IInv' /\ InUse' = InUse
  BY <1>1, SameManager
<1>3. PICK at \in MaybeHandle : at = fallback[h]
  BY DEF Shape
<1>4. Shape'
  BY <1>1, <1>3 DEF Shape, CallShape
<1>5. call'.op = "destroy" /\ call'.main = h /\ call'.at = at
  BY <1>1, <1>3 DEF Destroying
<1>6. Making' = {} /\ Deleting' = {h} /\ Roots' = Roots
  <2>1. Making' = {} /\ Deleting' = {h}
    BY <1>5 DEF Making, Deleting
  <2>2. Making = {} /\ Deleting = {}
    BY <1>1, CallKinds DEF Shape
  <2> QED BY <1>1, <2>1, <2>2 DEF Roots
<1>7. PICK fam \in [Handles -> Seq(Handles)] : FamiliesRight(fam) /\ Progress(fam)
  BY DEF FamilyInv
<1>8. \A m \in given : fallback[m] = FirstOf(fam[m])
  BY <1>7 DEF FamiliesRight
<1>9. FamiliesRight(fam)'
  BY <1>1, <1>2, <1>6, <1>7, <1>8, RootsKept
<1>10. Progress(fam)'
  BY <1>1, <1>3, <1>5, <1>6, <1>8 DEF Progress
<1> QED BY <1>2, <1>4, <1>6, <1>7, <1>9, <1>10 DEF FamilyInv

\* What is known while a font is destroyed.
LEMMA InDestroy ==
    ASSUME UInv, call.op = "destroy"
    PROVE  \E main \in Handles, at \in MaybeHandle :
             /\ call = Destroying(main, at)
             /\ call.main = main /\ call.at = at
             /\ Making = {} /\ Deleting = {main}
             /\ Roots = given \cup {main} /\ main \in InUse
<1>1. PICK main \in Handles, at \in MaybeHandle :
        call = Destroying(main, at) /\ Making = {} /\ Deleting = {main}
  BY CallKinds DEF UInv, Shape
<1>2. call.main = main /\ call.at = at
  BY <1>1 DEF Destroying
<1>3. Roots = given \cup {main} /\ main \in InUse
  BY <1>1 DEF Roots, UInv, FamilyInv
<1> QED BY <1>1, <1>2, <1>3

\* The last font of the call: its family is gone.
LEMMA DestroyMainStep ==
    ASSUME UInv, DestroyMain
    PROVE  UInv'
<1> USE DEF UInv
<1>1. PICK main \in Handles, at \in MaybeHandle :
        /\ call.main = main /\ call.at = at
        /\ Making = {} /\ Deleting = {main}
        /\ Roots = given \cup {main} /\ main \in InUse
  BY InDestroy DEF DestroyMain
<1>2. /\ at = NULL /\ DeleteFont(main) /\ call' = Idle /\ given' = given
      /\ fallback' = [fallback EXCEPT ![main] = NULL]
  BY <1>1 DEF DestroyMain
<1>3. IInv' /\ InUse' = InUse \ {main}
  BY <1>2, DeleteEffect
<1>4. Shape'
  BY <1>2 DEF Shape, CallShape, MaybeHandle
<1>5. PICK fam \in [Handles -> Seq(Handles)] : FamiliesRight(fam) /\ Progress(fam)
  BY DEF FamilyInv
<1>6. main \notin given /\ FirstOf(fam[main]) = NULL
  BY <1>1, <1>2, <1>5 DEF Progress
<1>7. Making' = {} /\ Deleting' = {} /\ Roots' = given
  BY <1>2 DEF Making, Deleting, Idle, Roots
<1>8. \A m \in Roots : \A i \in DOMAIN fam[m] : fam[m][i] \in InUse \ Roots
  BY <1>5 DEF FamiliesRight, Chain
<1>9. fam[main] = <<>>
  <2>1. CASE fam[main] # <<>>
    <3>1. 1 \in DOMAIN fam[main] /\ FirstOf(fam[main]) = fam[main][1]
      <4>1. PICK s \in Seq(Handles) : s = fam[main]
        OBVIOUS
      <4> QED BY <2>1, <4>1 DEF FirstOf
    <3>2. fam[main][1] \in Handles
      BY <1>1, <1>8, <3>1 DEF InUse
    <3> QED BY <1>6, <3>1, <3>2, HandleAssumption
  <2> QED BY <2>1
<1>10. \A g \in InUse : g # main => fallback'[g] = fallback[g]
  BY <1>2 DEF Shape, InUse
<1>11. InUse' \ Roots' = InUse \ Roots
  BY <1>1, <1>3, <1>6, <1>7
<1>12. ASSUME NEW m \in Roots' PROVE Chain(fam[m])'
  <2>1. m \in Roots /\ Chain(fam[m])
    BY <1>1, <1>5, <1>7 DEF FamiliesRight
  <2>2. \A i \in DOMAIN fam[m] : fallback'[fam[m][i]] = fallback[fam[m][i]]
    BY <1>1, <1>8, <1>10, <2>1
  <2> QED BY <1>11, <2>1, <2>2 DEF Chain
<1>13. \A h \in InUse' \ Roots' : \E m \in Roots' : \E i \in DOMAIN fam[m] : h = fam[m][i]
  <2> SUFFICES ASSUME NEW h \in InUse \ Roots
               PROVE  \E m \in given : \E i \in DOMAIN fam[m] : h = fam[m][i]
    BY <1>7, <1>11
  <2>1. PICK m \in Roots : \E i \in DOMAIN fam[m] : h = fam[m][i]
    BY <1>5 DEF FamiliesRight
  <2>2. m # main
    <3>1. DOMAIN <<>> = {}
      OBVIOUS
    <3> QED BY <1>9, <2>1, <3>1
  <2> QED BY <1>1, <2>1, <2>2
<1>14. \A m \in given : fallback'[m] = FirstOf(fam[m])
  <2>1. \A m \in given : fallback[m] = FirstOf(fam[m]) /\ m \in InUse /\ m # main
    BY <1>1, <1>5, <1>6 DEF FamiliesRight, FamilyInv
  <2> QED BY <1>10, <2>1
<1>15. \A m, n \in Roots' : \A i \in DOMAIN fam[m], j \in DOMAIN fam[n] :
         fam[m][i] = fam[n][j] => m = n /\ i = j
  BY <1>1, <1>5, <1>7 DEF FamiliesRight
<1>16. FamiliesRight(fam)'
  BY <1>2, <1>12, <1>13, <1>14, <1>15 DEF FamiliesRight
<1>17. Progress(fam)'
  BY <1>7 DEF Progress
<1>18. Roots' \subseteq InUse'
  BY <1>1, <1>3, <1>6, <1>7 DEF FamilyInv
<1> QED BY <1>3, <1>4, <1>5, <1>16, <1>17, <1>18 DEF FamilyInv

\* The next font of the family: the rest is the family still to delete.
LEMMA DestroyFallbackStep ==
    ASSUME UInv, DestroyFallback
    PROVE  UInv'
<1> USE DEF UInv
<1>1. PICK main \in Handles, at \in MaybeHandle :
        /\ call = Destroying(main, at)
        /\ call.main = main /\ call.at = at
        /\ Making = {} /\ Deleting = {main}
        /\ Roots = given \cup {main} /\ main \in InUse
  BY InDestroy DEF DestroyFallback
<1>2. /\ at # NULL /\ at \in Handles /\ DeleteFont(at) /\ given' = given
      /\ fallback' = [fallback EXCEPT ![at] = NULL]
      /\ call' = [call EXCEPT !.at = fallback[at]]
  BY <1>1 DEF DestroyFallback, MaybeHandle
<1>3. IInv' /\ InUse' = InUse \ {at}
  BY <1>2, DeleteEffect
<1>4. PICK next \in MaybeHandle : next = fallback[at]
  BY <1>2 DEF Shape
<1>5. call' = Destroying(main, next)
  BY <1>1, <1>2, <1>4 DEF Destroying
<1>6. Shape'
  <2>1. CallShape'
    BY <1>5 DEF CallShape
  <2>2. NULL \in MaybeHandle
    BY DEF MaybeHandle
  <2> QED BY <1>2, <2>1, <2>2 DEF Shape
<1>7. call'.op = "destroy" /\ call'.main = main /\ call'.at = next
  BY <1>5 DEF Destroying
<1>8. Making' = {} /\ Deleting' = {main}
  BY <1>7 DEF Making, Deleting
<1>9. Roots' = Roots
  BY <1>1, <1>2, <1>8 DEF Roots
<1>10. PICK fam \in [Handles -> Seq(Handles)] : FamiliesRight(fam) /\ Progress(fam)
  BY DEF FamilyInv
<1>11. PICK s \in Seq(Handles) : s = fam[main]
  OBVIOUS
<1>12. main \notin given /\ at = FirstOf(s)
  BY <1>1, <1>10, <1>11 DEF Progress
<1>13. s # <<>>
  BY <1>2, <1>12 DEF FirstOf
<1>14. PICK t \in Seq(Handles) : t = Tail(s)
  BY <1>13, FamilyShrinks
<1>15. PICK n \in Nat :
         /\ n = Len(s)
         /\ n > 0
         /\ Len(t) = n - 1
         /\ DOMAIN s = 1..n
         /\ DOMAIN t = 1..(n - 1)
         /\ FirstOf(t) = (IF n = 1 THEN NULL ELSE s[2])
         /\ (\A i \in 1..(n - 1) : t[i] = s[i + 1])
  BY <1>13, <1>14, FamilyShrinks
<1>16. 1 \in 1..n /\ at = s[1]
  BY <1>12, <1>13, <1>15 DEF FirstOf
<1>17. PICK new \in [Handles -> Seq(Handles)] :
         new[main] = t /\ \A m \in Handles : m # main => new[m] = fam[m]
  <2> DEFINE f == [fam EXCEPT ![main] = t]
  <2>1. f \in [Handles -> Seq(Handles)]
    OBVIOUS
  <2>2. f[main] = t /\ \A m \in Handles : m # main => f[m] = fam[m]
    OBVIOUS
  <2> HIDE DEF f
  <2> QED BY <2>1, <2>2
<1>18. \A m \in Roots : \A i \in DOMAIN fam[m] : fam[m][i] \in InUse \ Roots
  BY <1>10 DEF FamiliesRight, Chain
<1>19. \A i \in 1..n : /\ s[i] \in InUse \ Roots
                       /\ fallback[s[i]] = IF i = n THEN NULL ELSE s[i + 1]
  <2>1. Chain(s)
    BY <1>1, <1>10, <1>11 DEF FamiliesRight
  <2>2. DOMAIN s = 1..n /\ Len(s) = n
    BY <1>15
  <2> QED BY <2>1, <2>2 DEF Chain
<1>20. /\ \A i, j \in 1..n : s[i] = s[j] => i = j
       /\ \A m \in Roots : \A i \in DOMAIN fam[m], j \in 1..n :
            fam[m][i] = s[j] => m = main
  <2>1. DOMAIN fam[main] = 1..n /\ fam[main] = s
    BY <1>11, <1>15
  <2>2. \A m, k \in Roots : \A i \in DOMAIN fam[m], j \in DOMAIN fam[k] :
          fam[m][i] = fam[k][j] => m = k /\ i = j
    BY <1>10 DEF FamiliesRight
  <2>3. main \in Roots
    BY <1>1
  <2> QED BY <2>1, <2>2, <2>3
<1>21. at \in InUse \ Roots
  BY <1>16, <1>19
<1>22. \A g \in Handles : g # at => fallback'[g] = fallback[g]
  BY <1>2 DEF Shape
<1>23. \A g \in InUse \ Roots : g # at => g \in InUse' \ Roots' /\ fallback'[g] = fallback[g]
  BY <1>3, <1>9, <1>22 DEF InUse
<1>24. Chain(new[main])'
  <2> SUFFICES ASSUME NEW i \in 1..(n - 1)
               PROVE  /\ t[i] \in InUse' \ Roots'
                      /\ fallback'[t[i]] = IF i = n - 1 THEN NULL ELSE t[i + 1]
    <3>1. new[main] = t /\ DOMAIN t = 1..(n - 1) /\ Len(t) = n - 1
      BY <1>15, <1>17
    <3> QED BY <3>1 DEF Chain
  <2>1. i + 1 \in 1..n /\ i + 1 # 1 /\ (i = n - 1 <=> i + 1 = n)
    OBVIOUS
  <2>2. t[i] = s[i + 1] /\ t[i] # at
    BY <1>15, <1>16, <1>20, <2>1
  <2>3. t[i] \in InUse' \ Roots' /\ fallback'[t[i]] = fallback[t[i]]
    BY <1>19, <1>23, <2>1, <2>2
  <2>4. CASE i = n - 1
    BY <1>19, <2>1, <2>2, <2>3, <2>4
  <2>5. CASE i # n - 1
    <3>1. i + 1 \in 1..(n - 1) /\ i + 1 # n
      BY <2>5
    <3>2. t[i + 1] = s[(i + 1) + 1]
      BY <1>15, <3>1
    <3>3. fallback[s[i + 1]] = s[(i + 1) + 1]
      BY <1>19, <2>1, <3>1
    <3> QED BY <2>2, <2>3, <2>5, <3>2, <3>3
  <2> QED BY <2>4, <2>5
<1>25. ASSUME NEW m \in Roots, m # main PROVE Chain(new[m])'
  <2>1. new[m] = fam[m] /\ Chain(fam[m])
    BY <1>10, <1>17, <1>18, <1>25 DEF FamiliesRight, FamilyInv, InUse
  <2>2. \A i \in DOMAIN fam[m] : /\ fam[m][i] \in InUse \ Roots
                                /\ fam[m][i] # at
    BY <1>16, <1>18, <1>20, <1>25
  <2> QED BY <1>23, <2>1, <2>2 DEF Chain
<1>26. \A g \in InUse' \ Roots' : \E m \in Roots' : \E i \in DOMAIN new[m] : g = new[m][i]
  <2> SUFFICES ASSUME NEW g \in InUse \ Roots, g # at
               PROVE  \E m \in Roots : \E i \in DOMAIN new[m] : g = new[m][i]
    BY <1>3, <1>9
  <2>1. PICK m \in Roots : \E i \in DOMAIN fam[m] : g = fam[m][i]
    BY <1>10 DEF FamiliesRight
  <2>2. PICK i \in DOMAIN fam[m] : g = fam[m][i]
    BY <2>1
  <2>3. CASE m # main
    <3>1. new[m] = fam[m]
      BY <1>17, <2>3 DEF FamilyInv, InUse
    <3> QED BY <2>2, <3>1
  <2>4. CASE m = main
    <3>1. i \in 1..n /\ g = s[i]
      BY <1>11, <1>15, <2>2, <2>4
    <3>2. i # 1
      BY <1>16, <2>4, <3>1
    <3>3. PICK j \in 1..(n - 1) : i = j + 1
      <4>1. i - 1 \in 1..(n - 1) /\ i = (i - 1) + 1
        BY <3>1, <3>2
      <4> QED BY <4>1
    <3>4. j \in DOMAIN new[main] /\ g = new[main][j]
      BY <1>15, <1>17, <3>1, <3>3
    <3> QED BY <1>1, <3>4
  <2> QED BY <2>3, <2>4
<1>27. \A m \in Roots : \A i \in DOMAIN new[m] :
          \/ m # main /\ i \in DOMAIN fam[m] /\ new[m][i] = fam[m][i]
          \/ m = main /\ i \in 1..(n - 1) /\ i + 1 \in DOMAIN fam[m] /\ new[m][i] = fam[m][i + 1]
  <2> SUFFICES ASSUME NEW m \in Roots, NEW i \in DOMAIN new[m]
               PROVE  \/ m # main /\ i \in DOMAIN fam[m] /\ new[m][i] = fam[m][i]
                      \/ m = main /\ i \in 1..(n - 1) /\ i + 1 \in DOMAIN fam[m] /\ new[m][i] = fam[m][i + 1]
    OBVIOUS
  <2>1. CASE m # main
    BY <1>17, <2>1 DEF FamilyInv, InUse
  <2>2. CASE m = main
    <3>1. i \in 1..(n - 1) /\ new[m][i] = t[i]
      BY <1>15, <1>17, <2>2
    <3>2. i + 1 \in 1..n
      BY <3>1
    <3> QED BY <1>11, <1>15, <2>2, <3>1, <3>2
  <2> QED BY <2>1, <2>2
<1>28. \A m, k \in Roots' : \A i \in DOMAIN new[m], j \in DOMAIN new[k] :
          new[m][i] = new[k][j] => m = k /\ i = j
  <2> SUFFICES ASSUME NEW m \in Roots, NEW k \in Roots, NEW i \in DOMAIN new[m],
                      NEW j \in DOMAIN new[k], new[m][i] = new[k][j]
               PROVE  m = k /\ i = j
    BY <1>9
  <2>1. \A p, q \in Roots : \A x \in DOMAIN fam[p], y \in DOMAIN fam[q] :
          fam[p][x] = fam[q][y] => p = q /\ x = y
    BY <1>10 DEF FamiliesRight
  <2>2. CASE m # main /\ k # main
    <3>1. i \in DOMAIN fam[m] /\ j \in DOMAIN fam[k] /\ fam[m][i] = fam[k][j]
      BY <1>27, <2>2
    <3> QED BY <2>1, <3>1
  <2>3. CASE m = main /\ k = main
    <3>1. i \in 1..(n - 1) /\ j \in 1..(n - 1) /\ i + 1 = j + 1
      BY <1>27, <2>1, <2>3
    <3> QED BY <2>3, <3>1
  <2>4. CASE m # main /\ k = main
    BY <1>27, <2>1, <2>4
  <2>5. CASE m = main /\ k # main
    BY <1>27, <2>1, <2>5
  <2> QED BY <2>2, <2>3, <2>4, <2>5
<1>29. \A m \in given' : fallback'[m] = FirstOf(new[m])
  <2> SUFFICES ASSUME NEW m \in given PROVE fallback'[m] = FirstOf(new[m])
    BY <1>2
  <2>1. m \in Roots /\ m # main /\ m # at /\ m \in Handles
    BY <1>1, <1>12, <1>21 DEF Shape
  <2>2. fallback'[m] = fallback[m] /\ new[m] = fam[m]
    BY <1>17, <1>22, <2>1
  <2> QED BY <1>10, <2>2 DEF FamiliesRight
<1>30. FamiliesRight(new)'
  BY <1>9, <1>24, <1>25, <1>26, <1>28, <1>29 DEF FamiliesRight
<1>31. next = FirstOf(t)
  <2>1. CASE n = 1
    BY <1>4, <1>15, <1>16, <1>19, <2>1
  <2>2. CASE n # 1
    BY <1>4, <1>15, <1>16, <1>19, <2>2
  <2> QED BY <2>1, <2>2
<1>32. Progress(new)'
  BY <1>2, <1>7, <1>8, <1>12, <1>17, <1>31 DEF Progress
<1>33. Roots' \subseteq InUse'
  BY <1>3, <1>9, <1>21 DEF FamilyInv
<1> QED BY <1>3, <1>6, <1>17, <1>30, <1>32, <1>33 DEF FamilyInv

--------------------------------------------------------------------------------
(* The invariant holds.                                                       *)

\* At first no font is asked for.
LEMMA UikitInitInv == UikitInit => UInv
<1> SUFFICES ASSUME UikitInit PROVE UInv
  OBVIOUS
<1> USE DEF UikitInit
<1>1. IInv
  BY InitInv
<1>2. Shape
  BY DEF Shape, CallShape, MaybeHandle
<1>3. Making = {} /\ Deleting = {} /\ Roots = {} /\ InUse = {}
  BY DEF Making, Deleting, Roots, Idle, Init, InUse
<1>4. [h \in Handles |-> <<>>] \in [Handles -> Seq(Handles)]
  OBVIOUS
<1>5. FamiliesRight([h \in Handles |-> <<>>]) /\ Progress([h \in Handles |-> <<>>])
  BY <1>3 DEF FamiliesRight, Progress
<1>6. FamilyInv
  BY <1>3, <1>4, <1>5 DEF FamilyInv
<1> QED BY <1>1, <1>2, <1>6 DEF UInv

\* vg_font_init and vg_font_deinit happen between calls and touch no record.
LEMMA BetweenCallsStep ==
    ASSUME UInv, Startup \/ VgFontDeinit
    PROVE  UInv'
<1>1. /\ call = Idle /\ call' = Idle /\ fallback' = fallback /\ given' = given
      /\ VgFontInit \/ VgFontDeinit
  BY DEF Startup, Init_, VgFontDeinit, uikit
<1>2. IInv' /\ InUse' = InUse
  BY <1>1, InitEffect, DeinitEffect DEF UInv
<1>3. Shape'
  BY <1>1 DEF UInv, Shape, CallShape
<1>4. Making = {} /\ Deleting = {} /\ Making' = {} /\ Deleting' = {}
  BY <1>1 DEF Making, Deleting, Idle
<1> QED BY <1>1, <1>2, <1>3, <1>4, FamiliesKept DEF UInv

\* A step of no one.
LEMMA UikitStutter ==
    ASSUME UInv, UNCHANGED allVars
    PROVE  UInv'
<1>1. UNCHANGED vars /\ UNCHANGED uikit
  BY DEF allVars
<1>2. call' = call /\ fallback' = fallback /\ given' = given
  BY <1>1 DEF uikit
<1>3. IInv' /\ InUse' = InUse
  BY <1>1, SameManager DEF UInv
<1>4. Shape'
  BY <1>2 DEF UInv, Shape, CallShape
<1>5. Making' = Making /\ Deleting' = Deleting /\ Roots' = Roots
  BY <1>2 DEF Making, Deleting, Roots
<1>6. PICK fam \in [Handles -> Seq(Handles)] : FamiliesRight(fam) /\ Progress(fam)
  BY DEF UInv, FamilyInv
<1>7. FamiliesRight(fam)' /\ Progress(fam)'
  BY <1>2, <1>3, <1>5, <1>6 DEF FamiliesRight, Chain, Progress
<1> QED BY <1>3, <1>4, <1>5, <1>6, <1>7 DEF UInv, FamilyInv

LEMMA UikitStep == UInv /\ [UikitNext]_allVars => UInv'
<1> SUFFICES ASSUME UInv, [UikitNext]_allVars PROVE UInv'
  OBVIOUS
<1>1. CASE Startup \/ VgFontDeinit
  BY <1>1, BetweenCallsStep
<1>2. CASE \E info \in Infos : BeginCreate(info)
  BY <1>2, BeginCreateStep
<1>3. CASE \E h \in Handles : BeginDestroy(h)
  BY <1>3, BeginDestroyStep
<1>4. CASE CreateMain
  BY <1>4, CreateMainStep
<1>5. CASE CreateFallback
  BY <1>5, CreateFallbackStep
<1>6. CASE EndCreate
  BY <1>6, EndCreateStep
<1>7. CASE DestroyFallback
  BY <1>7, DestroyFallbackStep
<1>8. CASE DestroyMain
  BY <1>8, DestroyMainStep
<1>9. CASE UNCHANGED allVars
  BY <1>9, UikitStutter
<1> QED BY <1>1, <1>2, <1>3, <1>4, <1>5, <1>6, <1>7, <1>8, <1>9 DEF UikitNext, CallStep

\* Every record is a main font or a member of the one family of one main font,
\* through creations that fail half-way and destructions in any order.
THEOREM FamiliesInductive == UikitSpec => []UInv
BY UikitInitInv, UikitStep, PTL DEF UikitSpec

--------------------------------------------------------------------------------
(* The properties.                                                            *)

\* The records before one are none or one.
LEMMA OneBefore ==
    ASSUME UInv, call = Idle, NEW h \in InUse
    PROVE  Cardinality(Before(h)) = IF h \in given THEN 0 ELSE 1
<1> USE DEF UInv
<1>1. PICK fam \in [Handles -> Seq(Handles)] : FamiliesRight(fam) /\ Progress(fam)
  BY DEF FamilyInv
<1>2. Roots = given /\ Roots \subseteq InUse /\ InUse \subseteq Handles /\ NULL \notin InUse
  BY CallKinds, HandleAssumption DEF Shape, FamilyInv, InUse
\* Where the fallback of a record stands in its family.
<1>3. ASSUME NEW g \in InUse, fallback[g] # NULL
      PROVE  \E m \in Roots : \E i \in DOMAIN fam[m] :
               /\ fallback[g] = fam[m][i]
               /\ i = 1 => g = m
               /\ i # 1 => i - 1 \in DOMAIN fam[m] /\ g = fam[m][i - 1]
  <2>1. CASE g \in Roots
    <3>1. PICK s \in Seq(Handles) : s = fam[g]
      BY <1>2, <2>1
    <3>2. fallback[g] = FirstOf(s)
      BY <1>1, <1>2, <2>1, <3>1 DEF FamiliesRight
    <3>3. s # <<>> /\ fallback[g] = s[1]
      BY <1>3, <3>2 DEF FirstOf
    <3>4. 1 \in DOMAIN s
      BY <3>3
    <3> QED BY <2>1, <3>1, <3>3, <3>4
  <2>2. CASE g \notin Roots
    <3>1. PICK m \in Roots : \E i \in DOMAIN fam[m] : g = fam[m][i]
      BY <1>1, <2>2 DEF FamiliesRight
    <3>2. PICK i \in DOMAIN fam[m] : g = fam[m][i]
      BY <3>1
    <3>3. PICK s \in Seq(Handles) : s = fam[m]
      BY <1>2
    <3>4. i \in 1..Len(s) /\ DOMAIN s = 1..Len(s) /\ Len(s) \in Nat
      BY <3>2, <3>3
    <3>5. fallback[g] = IF i = Len(s) THEN NULL ELSE s[i + 1]
      BY <1>1, <3>2, <3>3 DEF FamiliesRight, Chain
    <3>6. i + 1 \in DOMAIN s /\ fallback[g] = s[i + 1] /\ i + 1 # 1 /\ (i + 1) - 1 = i
      BY <1>3, <3>4, <3>5
    <3> QED BY <3>2, <3>3, <3>6
  <2> QED BY <2>1, <2>2
\* No family holds a main font, and its members are no one else's.
<1>4. \A m \in Roots : \A i \in DOMAIN fam[m] : fam[m][i] \notin Roots
  BY <1>1 DEF FamiliesRight, Chain
<1>5. \A m, n \in Roots : \A i \in DOMAIN fam[m], j \in DOMAIN fam[n] :
        fam[m][i] = fam[n][j] => m = n /\ i = j
  BY <1>1 DEF FamiliesRight
<1>6. CASE h \in given
  <2>1. Before(h) = {}
    <3> SUFFICES ASSUME NEW g \in InUse, fallback[g] = h PROVE FALSE
      BY DEF Before
    <3> QED BY <1>2, <1>3, <1>4, <1>6
  <2> QED BY <1>6, <2>1, FS_EmptySet
<1>7. CASE h \notin given
  <2>1. PICK m \in Roots : \E i \in DOMAIN fam[m] : h = fam[m][i]
    BY <1>1, <1>2, <1>7 DEF FamiliesRight
  <2>2. PICK i \in DOMAIN fam[m] : h = fam[m][i]
    BY <2>1
  <2>3. PICK s \in Seq(Handles) : s = fam[m]
    BY <1>2
  <2>4. i \in 1..Len(s) /\ DOMAIN s = 1..Len(s) /\ Len(s) \in Nat
    BY <2>2, <2>3
  <2>5. PICK g \in InUse : /\ fallback[g] = h
                           /\ i = 1 => g = m
                           /\ i # 1 => g = s[i - 1]
    <3>1. CASE i = 1
      <4>1. s # <<>>
        BY <2>4
      <4>2. fallback[m] = h
        BY <1>1, <1>2, <2>2, <2>3, <3>1, <4>1 DEF FamiliesRight, FirstOf
      <4> QED BY <1>2, <3>1, <4>2
    <3>2. CASE i # 1
      <4>1. i - 1 \in 1..Len(s) /\ i - 1 # Len(s) /\ (i - 1) + 1 = i
        BY <2>4, <3>2
      <4>2. s[i - 1] \in InUse /\ fallback[s[i - 1]] = s[(i - 1) + 1]
        BY <1>1, <2>3, <2>4, <4>1 DEF FamiliesRight, Chain
      <4> QED BY <2>2, <2>3, <3>2, <4>1, <4>2
    <3> QED BY <3>1, <3>2
  <2>6. Before(h) = {g}
    <3> SUFFICES ASSUME NEW k \in InUse, fallback[k] = h PROVE k = g
      BY <2>5 DEF Before
    <3>4. fallback[k] # NULL
      BY <1>2
    <3>1. PICK n \in Roots : \E j \in DOMAIN fam[n] :
               /\ fallback[k] = fam[n][j]
               /\ j = 1 => k = n
               /\ j # 1 => j - 1 \in DOMAIN fam[n] /\ k = fam[n][j - 1]
      BY <1>3, <3>4
    <3>2. PICK j \in DOMAIN fam[n] : /\ h = fam[n][j]
                                     /\ j = 1 => k = n
                                     /\ j # 1 => k = fam[n][j - 1]
      BY <3>1
    <3>3. n = m /\ j = i
      <4>1. fam[n][j] = fam[m][i]
        BY <2>2, <3>2
      <4> QED BY <1>5, <4>1
    <3> QED BY <2>3, <2>5, <3>2, <3>3
  <2> QED BY <1>7, <2>6, FS_Singleton
<1> QED BY <1>6, <1>7

\* Between the calls of vg_font_create and vg_font_destroy every record is a
\* font the application holds, or the fallback of exactly one record.
THEOREM NoRecordLost == UikitSpec => []NoOrphans
<1>1. UInv => NoOrphans
  <2> SUFFICES ASSUME UInv, call = Idle
               PROVE  /\ given \subseteq InUse
                      /\ \A h \in InUse : fallback[h] \in InUse \cup {NULL}
                      /\ \A h \in InUse :
                           Cardinality(Before(h)) = IF h \in given THEN 0 ELSE 1
    BY DEF NoOrphans
  <2>1. PICK fam \in [Handles -> Seq(Handles)] : FamiliesRight(fam)
    BY DEF UInv, FamilyInv
  <2>2. Roots = given /\ Roots \subseteq InUse
    BY CallKinds DEF UInv, Shape, FamilyInv
  <2>3. \A m \in Roots : FirstOf(fam[m]) \in InUse \cup {NULL}
    <3> SUFFICES ASSUME NEW m \in Roots, fam[m] # <<>> PROVE fam[m][1] \in InUse
      BY DEF FirstOf
    <3>1. PICK s \in Seq(Handles) : s = fam[m]
      BY <2>2 DEF InUse
    <3>2. 1 \in DOMAIN fam[m]
      BY <3>1
    <3> QED BY <2>1, <3>2 DEF FamiliesRight, Chain
  <2>4. ASSUME NEW h \in InUse PROVE fallback[h] \in InUse \cup {NULL}
    <3>1. CASE h \in given
      BY <2>1, <2>2, <2>3, <3>1 DEF FamiliesRight
    <3>2. CASE h \notin given
      <4>1. PICK m \in Roots : \E i \in DOMAIN fam[m] : h = fam[m][i]
        BY <2>1, <2>2, <3>2 DEF FamiliesRight
      <4>2. PICK i \in DOMAIN fam[m] : h = fam[m][i]
        BY <4>1
      <4>3. PICK s \in Seq(Handles) : s = fam[m]
        BY <2>2 DEF InUse
      <4>4. i \in 1..Len(s) /\ DOMAIN s = 1..Len(s)
        BY <4>2, <4>3
      <4>5. fallback[h] = IF i = Len(s) THEN NULL ELSE s[i + 1]
        BY <2>1, <4>2, <4>3 DEF FamiliesRight, Chain
      <4>6. CASE i # Len(s)
        <5>1. i + 1 \in DOMAIN fam[m]
          BY <4>3, <4>4, <4>6
        <5>2. fam[m][i + 1] \in InUse
          BY <2>1, <5>1 DEF FamiliesRight, Chain
        <5> QED BY <4>3, <4>5, <4>6, <5>2
      <4> QED BY <4>5, <4>6
    <3> QED BY <3>1, <3>2
  <2> QED BY <2>2, <2>4, OneBefore
<1> QED BY <1>1, FamiliesInductive, PTL

\* When the application has destroyed all its fonts, vg_font_deinit finds no
\* record and no node that would make it keep the manager.
THEOREM CanShutDown == UikitSpec => []ShutdownPossible
<1>1. UInv => ShutdownPossible
  <2> SUFFICES ASSUME UInv, call = Idle, given = {} PROVE ~HasResource
    BY DEF ShutdownPossible
  <2>1. Roots = {}
    BY CallKinds DEF UInv, Shape
  <2>2. InUse = {}
    BY <2>1 DEF UInv, FamilyInv, FamiliesRight
  <2>3. \A n \in Held : Users(n) = {}
    BY <2>2 DEF Users
  <2>4. Held = {}
    BY <2>3, FS_EmptySet DEF UInv, IInv, RefCountExact
  <2> QED BY <2>2, <2>4 DEF HasResource
<1> QED BY <1>1, FamiliesInductive, PTL

\* vg_font_destroy deletes only fonts that are there, though each deletion
\* frees the record in which it read the next one.
THEOREM WalkIsSafe == UikitSpec => []DestroyWalksLiveFonts
<1>1. UInv => DestroyWalksLiveFonts
  <2> SUFFICES ASSUME UInv, call.op = "destroy"
               PROVE  call.main \in InUse /\ (call.at # NULL => call.at \in InUse)
    BY DEF DestroyWalksLiveFonts
  <2>1. PICK main \in Handles, at \in MaybeHandle :
          /\ call = Destroying(main, at)
          /\ call.main = main /\ call.at = at
          /\ Making = {} /\ Deleting = {main}
          /\ Roots = given \cup {main} /\ main \in InUse
    BY InDestroy
  <2>2. PICK fam \in [Handles -> Seq(Handles)] : FamiliesRight(fam) /\ Progress(fam)
    BY DEF UInv, FamilyInv
  <2>3. PICK s \in Seq(Handles) : s = fam[main]
    OBVIOUS
  <2>4. at = FirstOf(s) /\ Chain(s)
    BY <2>1, <2>2, <2>3 DEF Progress, FamiliesRight
  <2>5. CASE at # NULL
    <3>1. s # <<>> /\ at = s[1] /\ 1 \in DOMAIN s
      BY <2>4, <2>5 DEF FirstOf
    <3> QED BY <2>1, <2>4, <3>1 DEF Chain
  <2> QED BY <2>1, <2>5
<1> QED BY <1>1, FamiliesInductive, PTL
================================================================================
