--------------------------- MODULE AsyncRefreshProofs --------------------------
(***************************************************************************)
(* Proofs about the tasks around a refresh: for any keys and any number of  *)
(* tasks, calls and registrations, each list runs its tasks once and in     *)
(* order, never a cancelled one, and loses none.                            *)
(***************************************************************************)
EXTENDS AsyncRefresh, SequenceTheorems, TLAPS

--------------------------------------------------------------------------------
(* The inductive invariant.                                                   *)

\* Where the refresh timer and a pass can be.
Engine ==
    /\ phase # "idle" => disp
    /\ ~InEvent => left = 0
    /\ left <= regs
    /\ pos > 0 => InEvent /\ left > 0 /\ pos <= Len(ll[phase])
    /\ running => pos > 0

\* Tasks stand in a list only if the list is initialised or nothing runs it.
Hung ==
    /\ ~disp => regs = 0
    /\ ~inited /\ (regs > 0 \/ ~EarlyCalls) => ll = Empty

\* Each list holds tasks in the order of their numbers, no task is in both.
Sorted ==
    /\ \A l \in Lists : Len(ll[l]) <= accepted
    /\ \A l \in Lists : \A i \in DOMAIN ll[l] : ll[l][i].id <= accepted
    /\ \A l \in Lists : \A i, j \in DOMAIN ll[l] : i < j => ll[l][i].id < ll[l][j].id
    /\ \A i \in DOMAIN ll["start"], j \in DOMAIN ll["finish"] :
         ll["start"][i].id # ll["finish"][j].id

\* What ran from a list comes before what the pass has still to reach.
RanBefore ==
    /\ \A l \in Lists : \A k \in DOMAIN ran[l] : ran[l][k] <= accepted
    /\ \A l \in Lists : \A i \in DOMAIN ll[l] : ~Passed(l, i) =>
         \A k \in DOMAIN ran[l] : ran[l][k] < ll[l][i].id

\* The flags in the lists agree with the history of cancel calls.
FlagsRight ==
    /\ void \subseteq 1..accepted
    /\ \A l \in Lists : \A i \in DOMAIN ll[l] :
         ll[l][i].id \in void => ll[l][i].is_cancelled
    /\ \A l \in Lists : \A i \in DOMAIN ll[l] :
         ll[l][i].is_cancelled \/ Passed(l, i) => ll[l][i].id \in void \cup RanIds

IInv ==
    /\ TypeOK
    /\ Engine /\ Hung /\ Sorted /\ RanBefore /\ FlagsRight
    /\ FifoOrder /\ CancelledNeverRuns
    /\ ~EarlyCalls => NoneLost

--------------------------------------------------------------------------------
(* Facts about the state.                                                     *)

\* The type invariant by parts: the provers take them apart.
Flags == {disp, inited, running, stranded} \subseteq BOOLEAN
Numbers ==
    /\ regs \in 0..MaxRegs /\ left \in 0..MaxRegs /\ pos \in 0..MaxTasks
    /\ accepted \in 0..MaxTasks
    /\ phase \in {"idle", "start", "render", "finish"}
ListTypes == ll \in [Lists -> Seq(Node)] /\ ran \in [Lists -> Seq(Ids)]
IdSets == void \subseteq Ids /\ dropped \subseteq Ids /\ fresh \subseteq Ids
\* The type invariant by the kind of its variables: no step touches all of them.
LEMMA TypeParts == TypeOK <=> Flags /\ Numbers /\ ListTypes /\ IdSets
BY Zenon DEF TypeOK, Flags, Numbers, ListTypes, IdSets

\* A list is a sequence, and its indices are those up to its length.
LEMMA ListIsSeq ==
    ASSUME TypeOK, NEW l \in Lists
    PROVE  /\ ll[l] \in Seq(Node) /\ Len(ll[l]) \in Nat
           /\ DOMAIN ll[l] = 1..Len(ll[l])
           /\ \A i \in DOMAIN ll[l] : ll[l][i] \in Node
<1>1. ll[l] \in Seq(Node)
  BY DEF TypeOK
<1> QED BY <1>1, LenProperties, ElementOfSeq

\* The same for what ran.
LEMMA RanIsSeq ==
    ASSUME TypeOK, NEW l \in Lists
    PROVE  /\ ran[l] \in Seq(Ids) /\ Len(ran[l]) \in Nat
           /\ DOMAIN ran[l] = 1..Len(ran[l])
           /\ \A k \in DOMAIN ran[l] : ran[l][k] \in Ids /\ ran[l][k] \in Nat
<1>1. ran[l] \in Seq(Ids)
  BY DEF TypeOK
<1>2. Ids \subseteq Nat
  BY BoundAssumption DEF Ids
<1> QED BY <1>1, <1>2, LenProperties, ElementOfSeq

\* A task waits when it is a node of one of the two lists.
LEMMA WaitingIds ==
    ASSUME NEW id
    PROVE  id \in Waiting <=> \E l \in Lists : \E i \in DOMAIN ll[l] : ll[l][i].id = id
BY DEF Waiting, IdsIn, Lists

\* A task ran when the history of one of the two lists has it.
LEMMA IdsRun ==
    ASSUME NEW id
    PROVE  id \in RanIds <=> \E l \in Lists : \E k \in DOMAIN ran[l] : ran[l][k] = id
BY DEF RanIds, ToSet

\* The parts of an invariant that a step leaves alone.
LEMMA SameHistory ==
    ASSUME UNCHANGED ran
    PROVE  RanIds' = RanIds
BY DEF RanIds, ToSet

--------------------------------------------------------------------------------
(* One lemma for each step.                                                   *)

\* The invariant holds before there is a display.
LEMMA InitInv == Init => IInv
<1> SUFFICES ASSUME Init PROVE IInv
  OBVIOUS
<1>1. /\ ll = [l \in Lists |-> <<>>] /\ ran = [l \in Lists |-> <<>>]
      /\ \A l \in Lists : /\ ll[l] = <<>> /\ ran[l] = <<>>
                          /\ DOMAIN ll[l] = {} /\ DOMAIN ran[l] = {}
  BY DEF Init
<1>2. MaxTasks \in Nat /\ MaxRegs \in Nat
  BY BoundAssumption
<1>3. TypeOK
  <2>1. Flags
    BY Zenon DEF Init, Flags
  <2>2. Numbers
    BY <1>2 DEF Init, Numbers
  <2>3. ListTypes
    BY <1>1, EmptySeq DEF ListTypes
  <2>4. IdSets
    BY DEF Init, IdSets
  <2> QED BY <2>1, <2>2, <2>3, <2>4, TypeParts
<1>4. Engine /\ Hung
  BY <1>1 DEF Init, Engine, InEvent, Lists, Hung, Empty
<1>5. Sorted /\ RanBefore /\ FlagsRight /\ FifoOrder /\ CancelledNeverRuns
  BY <1>1, EmptySeq DEF Init, Sorted, RanBefore, FlagsRight, FifoOrder, CancelledNeverRuns, Lists
<1>6. NoneLost
  BY DEF Init, NoneLost
<1> QED BY <1>3, <1>4, <1>5, <1>6 DEF IInv

\* What an index of a list can be after the loop moved on from the current node.
LEMMA AdvanceLists ==
    ASSUME TypeOK, InEvent, pos > 0, pos <= Len(ll[phase]), Advance
    PROVE  /\ ll' \in [Lists -> Seq(Node)]
           /\ \A l \in Lists :
                \/ ll'[l] = ll[l]
                \/ l = phase /\ pos = Len(ll[l]) /\ pos' = 0 /\ ll'[l] = <<>> /\ DOMAIN ll'[l] = {}
           /\ \/ pos' = pos + 1 /\ UNCHANGED <<left, ll>> /\ pos < Len(ll[phase])
              \/ /\ pos' = 0 /\ left' = left - 1 /\ pos = Len(ll[phase])
                 /\ DOMAIN ll'[phase] = {}
<1>1. phase \in Lists /\ pos \in Nat /\ ll \in [Lists -> Seq(Node)]
  BY DEF InEvent, TypeOK
<1>2. Len(ll[phase]) \in Nat
  BY <1>1, ListIsSeq
<1>3. CASE pos < Len(ll[phase])
  BY <1>1, <1>2, <1>3 DEF Advance
<1>4. CASE pos = Len(ll[phase])
  <2>1. pos' = 0 /\ left' = left - 1 /\ ll' = [ll EXCEPT ![phase] = <<>>]
    BY <1>2, <1>4 DEF Advance, ClearList
  <2>2. ll' \in [Lists -> Seq(Node)]
    BY <1>1, <2>1, EmptySeq
  <2>3. /\ \A l \in Lists \ {phase} : ll'[l] = ll[l]
        /\ ll'[phase] = <<>> /\ DOMAIN ll'[phase] = {}
    BY <1>1, <2>1
  <2> QED BY <1>4, <2>1, <2>2, <2>3
<1> QED BY <1>1, <1>2, <1>3, <1>4

\* The loop may move on from a node that ran or was cancelled in time.
LEMMA AdvanceStep ==
    ASSUME IInv, InEvent, pos > 0, Advance, running' = FALSE,
           ~running => ll[phase][pos].is_cancelled,
           UNCHANGED <<disp, inited, regs, phase, history>>
    PROVE  IInv'
<1>1. /\ TypeOK /\ Engine /\ Hung /\ Sorted /\ RanBefore /\ FlagsRight /\ FifoOrder
      /\ CancelledNeverRuns
      /\ ~EarlyCalls => NoneLost
  BY DEF IInv
<1>2. /\ phase \in Lists /\ pos \in Nat \ {0} /\ left \in Nat \ {0} /\ left <= regs
      /\ pos <= Len(ll[phase])
      /\ regs \in Nat /\ accepted \in Nat
  BY <1>1, BoundAssumption DEF InEvent, Engine, TypeOK
<1>3. /\ ll' \in [Lists -> Seq(Node)]
      /\ \A l \in Lists :
           \/ ll'[l] = ll[l]
           \/ l = phase /\ pos = Len(ll[l]) /\ pos' = 0 /\ ll'[l] = <<>> /\ DOMAIN ll'[l] = {}
      /\ \/ pos' = pos + 1 /\ UNCHANGED <<left, ll>> /\ pos < Len(ll[phase])
         \/ /\ pos' = 0 /\ left' = left - 1 /\ pos = Len(ll[phase])
            /\ DOMAIN ll'[phase] = {}
  BY <1>1, <1>2, AdvanceLists
<1>4. /\ UNCHANGED <<disp, inited, regs, phase, accepted, ran, void, dropped, fresh, stranded>>
      /\ RanIds' = RanIds
  BY SameHistory DEF history
<1>5. \A l \in Lists : /\ DOMAIN ll[l] = 1..Len(ll[l]) /\ Len(ll[l]) \in Nat
  BY <1>1, ListIsSeq
<1>6. ll[phase][pos].id \in void \cup RanIds
  BY <1>1, <1>2, <1>5 DEF FlagsRight, Passed
<1>7. ASSUME NEW l \in Lists, NEW i \in DOMAIN ll'[l]
      PROVE  /\ i \in DOMAIN ll[l] /\ ll'[l][i] = ll[l][i]
             /\ Passed(l, i)' => (Passed(l, i) \/ (l = phase /\ i = pos))
             /\ Passed(l, i) => Passed(l, i)'
  <2>1. ll'[l] = ll[l] /\ i \in Nat /\ i <= Len(ll[l])
    BY <1>3, <1>5
  <2>2. CASE l # phase
    BY <1>4, <2>1, <2>2 DEF Passed
  <2>3. CASE l = phase
    <3>1. pos' = pos + 1
      BY <1>2, <1>3, <1>5, <2>1, <2>3
    <3> QED BY <1>2, <1>4, <2>1, <2>3, <3>1 DEF Passed
  <2> QED BY <2>2, <2>3
<1>8. \A id \in Waiting : id \in Waiting' \cup void \cup RanIds
  <2> SUFFICES ASSUME NEW l \in Lists, NEW i \in DOMAIN ll[l], ll[l][i].id \notin void \cup RanIds
               PROVE  ll[l][i].id \in Waiting'
    BY WaitingIds
  <2>1. CASE ll'[l] = ll[l]
    BY <2>1, WaitingIds DEF Waiting, IdsIn, Lists
  <2>2. CASE l = phase /\ pos = Len(ll[l])
    BY <1>1, <1>2, <1>5, <1>6, <2>2 DEF FlagsRight, Passed
  <2> QED BY <1>3, <2>1, <2>2
<1>9. TypeOK'
  <2>1. Flags'
    BY <1>1, <1>4, TypeParts, Zenon DEF Flags
  <2>2. Numbers'
    BY <1>1, <1>2, <1>3, <1>4, <1>5, BoundAssumption DEF TypeOK, Numbers, Sorted
  <2>3. ListTypes' /\ IdSets'
    BY <1>1, <1>3, <1>4 DEF TypeOK, ListTypes, IdSets
  <2> QED BY <2>1, <2>2, <2>3, Zenon DEF TypeOK, Flags, Numbers, ListTypes, IdSets
<1>10. Engine'
  BY <1>1, <1>2, <1>3, <1>4 DEF Engine, InEvent
<1>11. Hung'
  BY <1>1, <1>2, <1>3, <1>4, <1>5 DEF Hung, Empty
<1>12. Sorted'
  <2>1. \A l \in Lists : Len(ll'[l]) <= accepted
    BY <1>1, <1>2, <1>3, EmptySeq DEF Sorted
  <2> QED BY <1>1, <1>4, <1>7, <2>1 DEF Sorted, Lists
<1>13. RanBefore' /\ FlagsRight'
  BY <1>1, <1>4, <1>6, <1>7 DEF RanBefore, FlagsRight
<1>14. FifoOrder' /\ CancelledNeverRuns'
  BY <1>1, <1>4 DEF FifoOrder, CancelledNeverRuns
<1>15. ~EarlyCalls => NoneLost'
  BY <1>1, <1>4, <1>8 DEF NoneLost
<1> QED BY <1>9, <1>10, <1>11, <1>12, <1>13, <1>14, <1>15 DEF IInv

\* While no pass stands on a node, a step that leaves lists and history alone keeps
\* what the invariant says of them.
LEMMA QuietStep ==
    ASSUME IInv, pos = 0, pos' \in {0, 1}, running' = FALSE,
           UNCHANGED <<ll, accepted, ran, void, dropped>>
    PROVE  /\ Sorted' /\ RanBefore' /\ FlagsRight' /\ FifoOrder' /\ CancelledNeverRuns'
           /\ ~EarlyCalls => NoneLost'
<1>1. /\ TypeOK /\ Engine /\ Sorted /\ RanBefore /\ FlagsRight /\ FifoOrder
      /\ CancelledNeverRuns
      /\ ~EarlyCalls => NoneLost
  BY DEF IInv
<1>2. RanIds' = RanIds /\ Waiting' = Waiting
  BY SameHistory DEF Waiting, IdsIn
<1>3. ASSUME NEW l \in Lists, NEW i \in DOMAIN ll[l]
      PROVE  ~Passed(l, i) /\ ~Passed(l, i)'
  <2>1. i \in Nat \ {0}
    BY <1>1, ListIsSeq
  <2> QED BY <1>1, <2>1 DEF Engine, Passed
<1> QED BY <1>1, <1>2, <1>3
      DEF Sorted, RanBefore, FlagsRight, FifoOrder, CancelledNeverRuns, NoneLost

\* The display, its timer and the ends of an event move no task.
LEMMA TimerStep ==
    ASSUME IInv,
           \/ CreateDisplay \/ DeleteDisplay \/ RefrStart \/ RefrReady \/ EventDone
    PROVE  IInv'
<1>1. /\ TypeOK /\ Engine /\ Hung /\ regs \in Nat /\ left \in Nat /\ pos \in Nat
      /\ MaxRegs \in Nat
  BY BoundAssumption DEF IInv, TypeOK
<1>2. UNCHANGED <<inited, pos, running, ll, accepted, ran, void, dropped>>
  BY DEF CreateDisplay, DeleteDisplay, RefrStart, RefrReady, SendEvent, EventDone,
         engine, history
<1>3. Flags' /\ Numbers' /\ IdSets' /\ Engine' /\ Hung'
  <2>1. CASE CreateDisplay
    <3>1. Flags'
      BY <1>1, <2>1, Zenon DEF TypeOK, Flags, CreateDisplay, engine, history
    <3> QED BY <1>1, <2>1, <3>1
          DEF TypeOK, Numbers, IdSets, Engine, InEvent, Hung, CreateDisplay, engine, history
  <2>2. CASE DeleteDisplay
    <3>1. Flags'
      BY <1>1, <2>2, Zenon DEF TypeOK, Flags, DeleteDisplay, engine
    <3>2. left = 0 /\ pos = 0
      BY <1>1, <2>2 DEF DeleteDisplay, Engine, InEvent, Lists
    <3> QED BY <1>1, <2>2, <3>1, <3>2
          DEF TypeOK, Numbers, IdSets, Engine, InEvent, Hung, DeleteDisplay, engine, Lists
  <2>3. CASE RefrStart \/ RefrReady
    <3>1. Flags'
      BY <1>1, <2>3, Zenon DEF TypeOK, Flags, RefrStart, RefrReady, SendEvent, history
    <3>2. pos = 0
      BY <1>1, <2>3 DEF RefrStart, RefrReady, SendEvent, Engine, InEvent, Lists
    <3> QED BY <1>1, <2>3, <3>1, <3>2
          DEF TypeOK, Numbers, IdSets, Engine, InEvent, Hung, RefrStart, RefrReady,
              SendEvent, Lists, history
  <2>4. CASE EventDone
    <3>1. Flags'
      BY <1>1, <2>4, Zenon DEF TypeOK, Flags, EventDone
    <3> QED BY <1>1, <2>4, <3>1
          DEF TypeOK, Numbers, IdSets, Engine, InEvent, Hung, EventDone, Lists
  <2> QED BY <2>1, <2>2, <2>3, <2>4
<1>4. TypeOK'
  <2>1. ListTypes'
    BY <1>1, <1>2 DEF TypeOK, ListTypes
  <2> QED BY <1>3, <2>1, Zenon DEF TypeOK, Flags, Numbers, ListTypes, IdSets
<1>5. CASE pos = 0
  <2>1. running' = FALSE /\ pos' = 0
    BY <1>1, <1>2, <1>5 DEF Engine, TypeOK
  <2>2. /\ Sorted' /\ RanBefore' /\ FlagsRight' /\ FifoOrder' /\ CancelledNeverRuns'
        /\ ~EarlyCalls => NoneLost'
    BY <1>2, <1>5, <2>1, QuietStep
  <2> QED BY <1>3, <1>4, <2>2 DEF IInv
<1>6. CASE pos # 0
  <2>1. CreateDisplay
    BY <1>1, <1>6 DEF DeleteDisplay, RefrStart, RefrReady, SendEvent, EventDone, Engine,
                      InEvent, Lists
  <2> QED BY <1>1, <1>6, <2>1 DEF CreateDisplay, Engine, InEvent, Lists
<1> QED BY <1>5, <1>6

\* The event is entered: an empty list is left at once, another one from its head.
LEMMA EnterStep ==
    ASSUME IInv, EnterEvent
    PROVE  IInv'
<1>1. /\ TypeOK /\ Engine /\ Hung /\ Sorted /\ regs \in Nat /\ left \in Nat
      /\ accepted \in 0..MaxTasks /\ MaxTasks \in Nat /\ MaxRegs \in Nat
      /\ pos = 0 /\ left > 0 /\ phase \in Lists
  BY BoundAssumption DEF IInv, TypeOK, EnterEvent, InEvent
<1>2. /\ UNCHANGED <<disp, inited, regs, ll, phase, running, accepted, ran, void,
                    dropped, fresh, stranded>>
      /\ \/ left' = left - 1 /\ pos' = 0
         \/ left' = left /\ pos' = 1 /\ ll[phase] # <<>>
  BY <1>1 DEF EnterEvent, history
<1>3. ll[phase] # <<>> => 1 <= Len(ll[phase]) /\ Len(ll[phase]) <= accepted
  BY <1>1, ListIsSeq, EmptySeq DEF Sorted
<1>4. running = FALSE
  BY <1>1 DEF Engine, TypeOK
<1>5. TypeOK'
  <2>1. Flags'
    BY <1>1, <1>2, Zenon DEF TypeOK, Flags
  <2>2. Numbers' /\ ListTypes' /\ IdSets'
    BY <1>1, <1>2, <1>3 DEF TypeOK, Numbers, ListTypes, IdSets
  <2> QED BY <2>1, <2>2, Zenon DEF TypeOK, Flags, Numbers, ListTypes, IdSets
<1>6. Engine' /\ Hung'
  BY <1>1, <1>2, <1>3, <1>4 DEF Engine, InEvent, Hung, Empty
<1>7. /\ Sorted' /\ RanBefore' /\ FlagsRight' /\ FifoOrder' /\ CancelledNeverRuns'
      /\ ~EarlyCalls => NoneLost'
  BY <1>1, <1>2, <1>4, QuietStep
<1> QED BY <1>5, <1>6, <1>7 DEF IInv

\* Skipping a node and leaving a callback move the loop on.
LEMMA MoveOnStep ==
    ASSUME IInv, SkipCancelled \/ LeaveCallback
    PROVE  IInv'
<1>1. /\ InEvent /\ pos > 0 /\ Advance /\ running' = FALSE
      /\ ~running => ll[phase][pos].is_cancelled
      /\ UNCHANGED <<disp, inited, regs, phase, history>>
  BY DEF SkipCancelled, LeaveCallback, IInv, Engine, TypeOK
<1> QED BY <1>1, AdvanceStep

\* A node that is not cancelled runs: it comes after all that ran from its list and
\* before all that the pass has still to reach.
LEMMA RunStep ==
    ASSUME IInv, EnterCallback
    PROVE  IInv'
<1> DEFINE id == ll[phase][pos].id
<1>1. /\ TypeOK /\ Engine /\ Hung /\ Sorted /\ RanBefore /\ FlagsRight /\ FifoOrder
      /\ CancelledNeverRuns
      /\ ~EarlyCalls => NoneLost
  BY DEF IInv
<1>2. /\ phase \in Lists /\ pos \in 1..Len(ll[phase]) /\ pos \in Nat /\ ~running /\ running'
      /\ ~ll[phase][pos].is_cancelled
      /\ ran' = [ran EXCEPT ![phase] = Append(@, id)]
      /\ UNCHANGED <<disp, inited, regs, ll, phase, left, pos,
                     accepted, void, dropped, fresh, stranded>>
  BY <1>1, ListIsSeq DEF EnterCallback, InEvent, Engine, TypeOK
<1>3. \A l \in Lists : /\ DOMAIN ll[l] = 1..Len(ll[l]) /\ Len(ll[l]) \in Nat
                       /\ \A i \in DOMAIN ll[l] : ll[l][i] \in Node /\ ll[l][i].id \in Nat
                       /\ DOMAIN ran[l] = 1..Len(ran[l]) /\ Len(ran[l]) \in Nat
                       /\ ran[l] \in Seq(Ids)
                       /\ \A k \in DOMAIN ran[l] : ran[l][k] \in Nat
  BY <1>1, ListIsSeq, RanIsSeq, BoundAssumption DEF Node, Ids
<1>4. id \in Ids /\ id \in Nat /\ id <= accepted /\ id \notin void
  BY <1>1, <1>2, <1>3 DEF Node, Sorted, FlagsRight
<1>5. \A k \in DOMAIN ran[phase] : ran[phase][k] < id
  BY <1>1, <1>2, <1>3 DEF RanBefore, Passed
<1>6. /\ \A l \in Lists \ {phase} : ran'[l] = ran[l]
      /\ ran'[phase] \in Seq(Ids)
      /\ DOMAIN ran'[phase] = 1..(Len(ran[phase]) + 1)
      /\ \A k \in DOMAIN ran[phase] : ran'[phase][k] = ran[phase][k]
      /\ ran'[phase][Len(ran[phase]) + 1] = id
  <2>1. ran'[phase] = Append(ran[phase], id) /\ \A l \in Lists \ {phase} : ran'[l] = ran[l]
    BY <1>1, <1>2 DEF TypeOK
  <2>2. /\ Append(ran[phase], id) \in Seq(Ids)
        /\ Len(Append(ran[phase], id)) = Len(ran[phase]) + 1
        /\ \A k \in 1..Len(ran[phase]) : Append(ran[phase], id)[k] = ran[phase][k]
        /\ Append(ran[phase], id)[Len(ran[phase]) + 1] = id
    BY <1>2, <1>3, <1>4, AppendProperties
  <2>3. DOMAIN Append(ran[phase], id) = 1..Len(Append(ran[phase], id))
    BY <2>2, LenProperties
  <2> QED BY <1>2, <1>3, <2>1, <2>2, <2>3
<1>7. ASSUME NEW l \in Lists, NEW k \in DOMAIN ran'[l]
      PROVE  \/ k \in DOMAIN ran[l] /\ ran'[l][k] = ran[l][k]
             \/ l = phase /\ k = Len(ran[l]) + 1 /\ ran'[l][k] = id
  BY <1>2, <1>3, <1>6
<1>8. /\ RanIds \subseteq RanIds' /\ id \in RanIds'
  <2>1. \A l \in Lists : \A k \in DOMAIN ran[l] : k \in DOMAIN ran'[l] /\ ran'[l][k] = ran[l][k]
    BY <1>2, <1>3, <1>6
  <2>2. RanIds \subseteq RanIds'
    BY <2>1 DEF RanIds, ToSet
  <2>3. Len(ran[phase]) + 1 \in DOMAIN ran'[phase]
    BY <1>2, <1>3, <1>6
  <2>4. id \in RanIds'
    BY <1>2, <1>6, <2>3 DEF RanIds, ToSet
  <2> QED BY <2>2, <2>4
<1>9. ASSUME NEW l \in Lists, NEW i \in DOMAIN ll[l]
      PROVE  Passed(l, i)' <=> Passed(l, i) \/ (l = phase /\ i = pos)
  BY <1>2 DEF Passed
<1>10. TypeOK'
  <2>1. Flags'
    BY <1>1, <1>2, Zenon DEF TypeOK, Flags, EnterCallback
  <2>2. ListTypes'
    BY <1>1, <1>2, <1>6 DEF TypeOK, ListTypes
  <2>3. Numbers' /\ IdSets'
    BY <1>1, <1>2 DEF TypeOK, Numbers, IdSets
  <2> QED BY <2>1, <2>2, <2>3, Zenon DEF TypeOK, Flags, Numbers, ListTypes, IdSets
<1>11. Engine' /\ Hung' /\ Sorted'
  BY <1>1, <1>2 DEF Engine, InEvent, Hung, Sorted
<1>12. RanBefore'
  <2>1. \A l \in Lists : \A k \in DOMAIN ran'[l] : ran'[l][k] <= accepted
    BY <1>1, <1>4, <1>7 DEF RanBefore
  <2>2. ASSUME NEW l \in Lists, NEW i \in DOMAIN ll[l], ~Passed(l, i)', NEW k \in DOMAIN ran'[l]
        PROVE  ran'[l][k] < ll[l][i].id
    <3>1. ~Passed(l, i) /\ (l = phase => i > pos)
      BY <1>2, <1>3, <1>9, <2>2 DEF Passed
    <3>2. CASE k \in DOMAIN ran[l] /\ ran'[l][k] = ran[l][k]
      BY <1>1, <3>1, <3>2 DEF RanBefore
    <3>3. CASE l = phase /\ ran'[l][k] = id
      BY <1>1, <1>2, <1>3, <3>1, <3>3 DEF Sorted
    <3> QED BY <1>7, <2>2, <3>2, <3>3
  <2> QED BY <1>2, <2>1, <2>2 DEF RanBefore
<1>13. FlagsRight'
  BY <1>1, <1>2, <1>8, <1>9 DEF FlagsRight
<1>14. FifoOrder'
  <2> SUFFICES ASSUME NEW l \in Lists, NEW i \in DOMAIN ran'[l], NEW j \in DOMAIN ran'[l], i < j
               PROVE  ran'[l][i] < ran'[l][j]
    BY DEF FifoOrder
  <2>1. i \in DOMAIN ran[l] /\ ran'[l][i] = ran[l][i]
    BY <1>3, <1>6, <1>7
  <2>2. CASE j \in DOMAIN ran[l] /\ ran'[l][j] = ran[l][j]
    BY <1>1, <2>1, <2>2 DEF FifoOrder
  <2>3. CASE l = phase /\ ran'[l][j] = id
    BY <1>5, <2>1, <2>3
  <2> QED BY <1>7, <2>2, <2>3
<1>15. CancelledNeverRuns'
  BY <1>1, <1>2, <1>4, <1>7 DEF CancelledNeverRuns
<1>16. ~EarlyCalls => NoneLost'
  BY <1>1, <1>2, <1>8 DEF NoneLost, Waiting, IdsIn
<1> QED BY <1>10, <1>11, <1>12, <1>13, <1>14, <1>15, <1>16 DEF IInv

\* A deinit drops all that wait.
LEMMA DeinitStep ==
    ASSUME IInv, Deinit
    PROVE  IInv'
<1>1. /\ TypeOK /\ Engine /\ Hung /\ RanBefore /\ FlagsRight /\ FifoOrder /\ CancelledNeverRuns
      /\ ~EarlyCalls => NoneLost
      /\ accepted \in Nat
  BY BoundAssumption DEF IInv, TypeOK
<1>2. /\ \A l \in Lists : ll'[l] = <<>> /\ DOMAIN ll'[l] = {} /\ Len(ll'[l]) = 0
      /\ ll' = Empty
      /\ UNCHANGED <<disp, regs, phase, left, pos, running, accepted, ran, void, fresh>>
      /\ inited' = FALSE /\ stranded' = FALSE
      /\ dropped' = dropped \cup Waiting
  BY EmptySeq DEF Deinit, Empty, engine
<1>3. RanIds' = RanIds
  BY <1>2, SameHistory
<1>4. Waiting \subseteq Ids
  BY <1>1, WaitingIds, ListIsSeq DEF Node
<1>5. TypeOK'
  <2>1. Flags'
    BY <1>1, <1>2, Zenon DEF TypeOK, Flags
  <2>2. ListTypes'
    BY <1>1, <1>2, EmptySeq DEF TypeOK, ListTypes, Empty
  <2>3. Numbers' /\ IdSets'
    BY <1>1, <1>2, <1>4 DEF TypeOK, Numbers, IdSets
  <2> QED BY <2>1, <2>2, <2>3, Zenon DEF TypeOK, Flags, Numbers, ListTypes, IdSets
<1>6. Engine' /\ Hung'
  BY <1>1, <1>2 DEF Engine, InEvent, Hung, Deinit, Lists
<1>7. Sorted' /\ RanBefore' /\ FlagsRight'
  BY <1>1, <1>2, <1>3 DEF Sorted, RanBefore, FlagsRight, Lists
<1>8. FifoOrder' /\ CancelledNeverRuns'
  BY <1>1, <1>2 DEF FifoOrder, CancelledNeverRuns
<1>9. ~EarlyCalls => NoneLost'
  BY <1>1, <1>2, <1>3 DEF NoneLost
<1> QED BY <1>5, <1>6, <1>7, <1>8, <1>9 DEF IInv

\* A cancel call flags every node of the key, and none that waits is left unflagged.
LEMMA CancelStep ==
    ASSUME IInv, NEW m \in Lists, NEW key \in Keys, Cancel(m, key)
    PROVE  IInv'
<1>1. /\ TypeOK /\ Engine /\ Hung /\ Sorted /\ RanBefore /\ FlagsRight /\ FifoOrder
      /\ CancelledNeverRuns
      /\ ~EarlyCalls => NoneLost
  BY DEF IInv
<1>2. /\ inited /\ Marked(m, key) # {}
      /\ void' = void \cup ({ll[m][i].id : i \in Marked(m, key)} \ RanIds)
      /\ UNCHANGED <<disp, inited, regs, phase, left, pos, running, accepted, ran,
                     dropped, fresh, stranded>>
  BY DEF Cancel, engine
<1>3. \A l \in Lists : /\ DOMAIN ll[l] = 1..Len(ll[l]) /\ Len(ll[l]) \in Nat
                       /\ \A i \in DOMAIN ll[l] :
                            /\ ll[l][i] \in Node /\ ll[l][i].id \in Ids
                            /\ ll[l][i].key \in Keys /\ ll[l][i].is_cancelled \in BOOLEAN
  BY <1>1, ListIsSeq DEF Node
<1>4. /\ \A l \in Lists \ {m} : ll'[l] = ll[l]
      /\ ll'[m] = [i \in DOMAIN ll[m] |->
                     IF i \in Marked(m, key) THEN Flagged(ll[m][i]) ELSE ll[m][i]]
  BY <1>1, Zenon DEF Cancel, MarkNodes, TypeOK
<1>5. ASSUME NEW i \in DOMAIN ll[m]
      PROVE  /\ ll'[m][i] \in Node /\ ll'[m][i].id = ll[m][i].id
             /\ ll'[m][i].is_cancelled <=> ll[m][i].is_cancelled \/ i \in Marked(m, key)
  <2>1. \A node \in Node : /\ Flagged(node) \in Node /\ Flagged(node).id = node.id
                            /\ Flagged(node).is_cancelled
    BY DEF Node, Flagged
  <2> QED BY <1>3, <1>4, <2>1
<1>6. /\ ll'[m] \in Seq(Node) /\ Len(ll'[m]) = Len(ll[m]) /\ DOMAIN ll'[m] = DOMAIN ll[m]
  <2>1. \A i \in 1..Len(ll[m]) : ll'[m][i] \in Node
    BY <1>3, <1>5
  <2>2. ll'[m] = [i \in 1..Len(ll[m]) |-> ll'[m][i]]
    BY <1>3, <1>4
  <2>3. ll'[m] \in Seq(Node)
    BY <1>3, <2>1, <2>2, IsASeq
  <2>4. DOMAIN ll'[m] = 1..Len(ll[m]) /\ DOMAIN ll'[m] = 1..Len(ll'[m]) /\ Len(ll'[m]) \in Nat
    BY <2>2, <2>3, LenProperties
  <2> QED BY <1>3, <2>3, <2>4
<1>7. ASSUME NEW l \in Lists
      PROVE  /\ Len(ll'[l]) = Len(ll[l]) /\ DOMAIN ll'[l] = DOMAIN ll[l]
             /\ \A i \in DOMAIN ll[l] :
                  /\ ll'[l][i].id = ll[l][i].id
                  /\ Passed(l, i)' = Passed(l, i)
                  /\ ll'[l][i].is_cancelled <=>
                       ll[l][i].is_cancelled \/ (l = m /\ i \in Marked(m, key))
  BY <1>2, <1>4, <1>5, <1>6 DEF Passed
<1>8. RanIds' = RanIds /\ Waiting' = Waiting
  <2>1. Waiting' = Waiting
    BY <1>7 DEF Waiting, IdsIn, Lists
  <2> QED BY <1>2, <2>1, SameHistory
<1>9. Marked(m, key) \subseteq DOMAIN ll[m]
  BY DEF Marked
<1>10. /\ \A x \in void' : x \in void \/ (x \notin RanIds /\ \E i \in Marked(m, key) : ll[m][i].id = x)
       /\ \A i \in Marked(m, key) : ll[m][i].id \in void' \cup RanIds
       /\ void \subseteq void'
  BY <1>2
<1>11. TypeOK'
  <2>1. Flags'
    BY <1>1, <1>2, Zenon DEF TypeOK, Flags
  <2>2. ll' \in [Lists -> Seq(Node)]
    <3>1. DOMAIN ll' = Lists /\ ll' = [l \in Lists |-> ll'[l]]
      BY <1>1 DEF Cancel, MarkNodes, TypeOK
    <3> QED BY <1>1, <1>4, <1>6, <3>1 DEF TypeOK
  <2>3. Numbers' /\ IdSets' /\ ListTypes'
    BY <1>1, <1>2, <1>3, <1>9, <1>10, <2>2 DEF TypeOK, Numbers, IdSets, ListTypes
  <2> QED BY <2>1, <2>3, Zenon DEF TypeOK, Flags, Numbers, ListTypes, IdSets
<1>12. Engine' /\ Hung'
  BY <1>1, <1>2, <1>7 DEF Engine, InEvent, Hung
<1>13. Sorted'
  BY <1>1, <1>2, <1>7 DEF Sorted, Lists
<1>14. RanBefore'
  BY <1>1, <1>2, <1>7 DEF RanBefore
<1>15. FlagsRight'
  <2>1. void' \subseteq 1..accepted
    BY <1>1, <1>3, <1>9, <1>10, BoundAssumption DEF FlagsRight, Sorted, Ids
  <2>2. ASSUME NEW l \in Lists, NEW i \in DOMAIN ll[l], ll[l][i].id \in void'
        PROVE  ll'[l][i].is_cancelled
    <3>1. CASE ll[l][i].id \in void
      BY <1>1, <1>7, <3>1 DEF FlagsRight
    <3>2. CASE ll[l][i].id \notin void
      <4>1. PICK j \in Marked(m, key) : ll[m][j].id = ll[l][i].id
        BY <1>10, <2>2, <3>2
      <4>2. l = m
        BY <1>1, <1>9, <4>1 DEF Sorted, Lists
      <4>3. i = j
        BY <1>1, <1>3, <1>9, <4>1, <4>2, BoundAssumption DEF Sorted, Ids
      <4> QED BY <1>7, <4>2, <4>3
    <3> QED BY <3>1, <3>2
  <2>3. ASSUME NEW l \in Lists, NEW i \in DOMAIN ll[l], ll'[l][i].is_cancelled \/ Passed(l, i)
        PROVE  ll[l][i].id \in void' \cup RanIds
    BY <1>1, <1>7, <1>10, <2>3 DEF FlagsRight
  <2> QED BY <1>2, <1>7, <1>8, <2>1, <2>2, <2>3 DEF FlagsRight
<1>16. FifoOrder' /\ CancelledNeverRuns'
  BY <1>1, <1>2, <1>10, IdsRun DEF FifoOrder, CancelledNeverRuns
<1>17. ~EarlyCalls => NoneLost'
  BY <1>1, <1>2, <1>8, <1>10 DEF NoneLost
<1> QED BY <1>11, <1>12, <1>13, <1>14, <1>15, <1>16, <1>17 DEF IInv

\* A call adds one task, behind all that wait; it may find the lists uninitialised,
\* and then no pass is under way.
LEMMA CallStep ==
    ASSUME IInv, NEW m \in Lists, NEW key \in Keys, Call(m, key)
    PROVE  IInv'
<1> DEFINE node == [id |-> accepted + 1, key |-> key, is_cancelled |-> FALSE]
<1>1. /\ TypeOK /\ Engine /\ Hung /\ Sorted /\ RanBefore /\ FlagsRight /\ FifoOrder
      /\ CancelledNeverRuns
      /\ ~EarlyCalls => NoneLost
      /\ MaxTasks \in Nat /\ MaxRegs \in Nat
  BY BoundAssumption DEF IInv
<1>2. /\ CanCall /\ (EarlyCalls \/ disp) /\ accepted < MaxTasks
      /\ \/ NeedsInit /\ inited' = TRUE /\ regs < MaxRegs /\ regs' = regs + 1
         \/ ~NeedsInit /\ UNCHANGED <<inited, regs>>
      /\ UNCHANGED <<disp, phase, left, pos, running, ran, void, dropped, stranded>>
      /\ accepted' = accepted + 1
      /\ fresh' \in {fresh, fresh \cup {accepted + 1}}
      /\ ll' = [ListsForCall EXCEPT ![m] = Append(@, node)]
  BY DEF Call, AddCall, InsTail, Register, engine
<1>3. /\ accepted \in Nat /\ regs \in Nat /\ left \in Nat /\ pos \in Nat
      /\ accepted + 1 \in Ids /\ node \in Node
  BY <1>1, <1>2 DEF TypeOK, Ids, Node
<1>4. /\ ListsForCall \in [Lists -> Seq(Node)]
      /\ \A l \in Lists : ListsForCall[l] = ll[l] \/ ListsForCall[l] = <<>>
      /\ ~NeedsInit => ListsForCall = ll
      /\ ~EarlyCalls => ListsForCall = ll
      /\ NeedsInit => pos = 0
  <2>1. NeedsInit => pos = 0
    <3> SUFFICES ASSUME ~inited, pos # 0 PROVE FALSE
      BY DEF NeedsInit
    <3>1. ll = Empty /\ phase \in Lists /\ pos <= Len(ll[phase])
      BY <1>1, <1>3 DEF Engine, Hung, InEvent
    <3>2. ll[phase] = <<>>
      BY <3>1 DEF Empty
    <3> QED BY <1>3, <3>1, <3>2, EmptySeq
  <2>2. Empty \in [Lists -> Seq(Node)] /\ \A l \in Lists : Empty[l] = <<>>
    BY EmptySeq DEF Empty
  <2> QED BY <1>1, <2>1, <2>2 DEF ListsForCall, NeedsInit, Hung, TypeOK
<1>5. ASSUME NEW l \in Lists
      PROVE  /\ ListsForCall[l] \in Seq(Node) /\ Len(ListsForCall[l]) \in Nat
             /\ DOMAIN ListsForCall[l] = 1..Len(ListsForCall[l])
             /\ DOMAIN ListsForCall[l] \subseteq DOMAIN ll[l]
             /\ \A i \in DOMAIN ListsForCall[l] : ListsForCall[l][i] = ll[l][i]
             /\ Len(ListsForCall[l]) <= accepted
  <2>1. /\ ListsForCall[l] \in Seq(Node) /\ Len(ListsForCall[l]) \in Nat
        /\ DOMAIN ListsForCall[l] = 1..Len(ListsForCall[l])
    BY <1>4, LenProperties
  <2>2. CASE ListsForCall[l] = ll[l]
    BY <1>1, <2>1, <2>2 DEF Sorted
  <2>3. CASE ListsForCall[l] = <<>>
    BY <1>3, <2>1, <2>3, EmptySeq
  <2> QED BY <1>4, <2>2, <2>3
<1>6. /\ \A l \in Lists \ {m} : ll'[l] = ListsForCall[l]
      /\ ll'[m] = Append(ListsForCall[m], node)
      /\ ll' \in [Lists -> Seq(Node)]
      /\ ll'[m] \in Seq(Node)
      /\ Len(ll'[m]) = Len(ListsForCall[m]) + 1
      /\ DOMAIN ll'[m] = 1..(Len(ListsForCall[m]) + 1)
      /\ \A i \in DOMAIN ListsForCall[m] : ll'[m][i] = ListsForCall[m][i]
      /\ ll'[m][Len(ListsForCall[m]) + 1] = node
  <2>1. /\ Append(ListsForCall[m], node) \in Seq(Node)
        /\ Len(Append(ListsForCall[m], node)) = Len(ListsForCall[m]) + 1
        /\ \A i \in 1..Len(ListsForCall[m]) :
             Append(ListsForCall[m], node)[i] = ListsForCall[m][i]
        /\ Append(ListsForCall[m], node)[Len(ListsForCall[m]) + 1] = node
    BY <1>3, <1>5, AppendProperties
  <2>2. DOMAIN Append(ListsForCall[m], node) = 1..Len(Append(ListsForCall[m], node))
    BY <2>1, LenProperties
  <2>3. /\ \A l \in Lists \ {m} : ll'[l] = ListsForCall[l]
        /\ ll'[m] = Append(ListsForCall[m], node)
    BY <1>2, <1>4
  <2>4. ll' \in [Lists -> Seq(Node)]
    BY <1>2, <1>4, <2>1
  <2> QED BY <1>5, <2>1, <2>2, <2>3, <2>4
<1> HIDE DEF node
<1>7. node.id = accepted + 1 /\ ~node.is_cancelled
  BY DEF node
<1>8. ASSUME NEW l \in Lists, NEW i \in DOMAIN ll'[l]
      PROVE  /\ i \in Nat \ {0}
             /\ \/ i \in DOMAIN ll[l] /\ ll'[l][i] = ll[l][i]
                \/ l = m /\ ll'[l][i] = node /\ \A j \in DOMAIN ll'[l] : j <= i
  <2>1. CASE i \in DOMAIN ListsForCall[l] /\ ll'[l][i] = ListsForCall[l][i]
    BY <1>5, <2>1
  <2>2. CASE l = m /\ i = Len(ListsForCall[m]) + 1
    BY <1>5, <1>6, <2>2
  <2>3. CASE l # m
    BY <1>6, <2>1, <2>3
  <2>4. CASE l = m /\ i # Len(ListsForCall[m]) + 1
    <3>1. i \in DOMAIN ListsForCall[m]
      BY <1>5, <1>6, <2>4
    <3> QED BY <1>6, <2>1, <2>4, <3>1
  <2> QED BY <2>2, <2>3, <2>4
<1>9. ASSUME NEW l \in Lists, NEW i \in DOMAIN ll'[l]
      PROVE  /\ Passed(l, i)' <=> Passed(l, i)
             /\ Passed(l, i) => i \in DOMAIN ll[l] /\ ll'[l][i] = ll[l][i]
  <2>1. Passed(l, i)' <=> Passed(l, i)
    BY <1>2 DEF Passed
  <2>2. ASSUME Passed(l, i)
        PROVE  i \in DOMAIN ll[l] /\ ll'[l][i] = ll[l][i]
    <3>1. pos > 0 /\ l = phase /\ i <= pos
      BY <1>1, <1>3, <1>8, <2>2 DEF Passed, Engine
    <3>2. ListsForCall = ll /\ i \in 1..Len(ll[l])
      BY <1>1, <1>3, <1>4, <1>8, <3>1, ListIsSeq DEF Engine
    <3> QED BY <1>5, <1>6, <3>2
  <2> QED BY <2>1, <2>2
<1>10. RanIds' = RanIds
  BY <1>2, SameHistory
<1>11. ASSUME NEW l \in Lists, NEW i \in DOMAIN ll[l]
       PROVE  ll[l][i].id \in Nat /\ ll[l][i].id <= accepted
  BY <1>1, ListIsSeq, BoundAssumption DEF Sorted, Node, Ids
<1>12. TypeOK'
  <2>1. Flags'
    <3>1. inited' \in BOOLEAN
      BY <1>1, <1>2, Zenon DEF TypeOK
    <3> QED BY <1>1, <1>2, <3>1, Zenon DEF TypeOK, Flags
  <2>2. Numbers'
    BY <1>1, <1>2, <1>3 DEF TypeOK, Numbers
  <2>3. ListTypes' /\ IdSets'
    BY <1>1, <1>2, <1>3, <1>6 DEF TypeOK, ListTypes, IdSets
  <2> QED BY <2>1, <2>2, <2>3, Zenon DEF TypeOK, Flags, Numbers, ListTypes, IdSets
<1>13. Engine'
  <2>1. pos > 0 => Len(ll[phase]) <= Len(ll'[phase])
    <3> SUFFICES ASSUME pos > 0 PROVE Len(ll[phase]) <= Len(ll'[phase])
      OBVIOUS
    <3>1. ListsForCall = ll /\ phase \in Lists
      BY <1>1, <1>3, <1>4 DEF Engine, InEvent
    <3> QED BY <1>5, <1>6, <3>1
  <2>2. pos > 0 => Len(ll[phase]) \in Nat /\ Len(ll'[phase]) \in Nat
    BY <1>1, <1>5, <1>6, ListIsSeq DEF Engine, InEvent
  <2> QED BY <1>1, <1>2, <1>3, <2>1, <2>2 DEF Engine, InEvent
<1>14. Hung'
  BY <1>1, <1>2, <1>3 DEF Hung, NeedsInit
<1>15. Sorted'
  <2>1. \A l \in Lists : Len(ll'[l]) <= accepted + 1
    BY <1>3, <1>5, <1>6
  <2>2. ASSUME NEW l \in Lists, NEW i \in DOMAIN ll'[l]
        PROVE  ll'[l][i].id <= accepted + 1
    BY <1>3, <1>7, <1>8, <1>11
  <2>3. ASSUME NEW l \in Lists, NEW i \in DOMAIN ll'[l], NEW j \in DOMAIN ll'[l], i < j
        PROVE  ll'[l][i].id < ll'[l][j].id
    <3>1. i \in DOMAIN ll[l] /\ ll'[l][i] = ll[l][i]
      BY <1>8, <2>3
    <3>2. CASE j \in DOMAIN ll[l] /\ ll'[l][j] = ll[l][j]
      BY <1>1, <2>3, <3>1, <3>2 DEF Sorted
    <3>3. CASE ll'[l][j] = node
      BY <1>3, <1>7, <1>11, <3>1, <3>3
    <3> QED BY <1>8, <3>2, <3>3
  <2>4. ASSUME NEW i \in DOMAIN ll'["start"], NEW j \in DOMAIN ll'["finish"]
        PROVE  ll'["start"][i].id # ll'["finish"][j].id
    <3>1. "start" \in Lists /\ "finish" \in Lists
      BY DEF Lists
    <3> QED BY <1>1, <1>3, <1>7, <1>8, <1>11, <3>1 DEF Sorted
  <2> QED BY <1>2, <2>1, <2>2, <2>3, <2>4 DEF Sorted
<1>16. RanBefore'
  <2>1. \A l \in Lists : \A k \in DOMAIN ran[l] : ran[l][k] \in Nat /\ ran[l][k] <= accepted
    BY <1>1, RanIsSeq DEF RanBefore
  <2>2. ASSUME NEW l \in Lists, NEW i \in DOMAIN ll'[l], ~Passed(l, i)', NEW k \in DOMAIN ran[l]
        PROVE  ran[l][k] < ll'[l][i].id
    <3>1. CASE i \in DOMAIN ll[l] /\ ll'[l][i] = ll[l][i]
      BY <1>1, <1>9, <2>2, <3>1 DEF RanBefore
    <3>2. CASE ll'[l][i] = node
      BY <1>3, <1>7, <2>1, <3>2
    <3> QED BY <1>8, <3>1, <3>2
  <2> QED BY <1>2, <1>3, <2>1, <2>2 DEF RanBefore
<1>17. FlagsRight'
  <2>1. void' \subseteq 1..accepted'
    BY <1>1, <1>2, <1>3 DEF FlagsRight
  <2>2. ASSUME NEW l \in Lists, NEW i \in DOMAIN ll'[l], ll'[l][i].id \in void
        PROVE  ll'[l][i].is_cancelled
    BY <1>1, <1>3, <1>7, <1>8, <2>2 DEF FlagsRight
  <2>3. ASSUME NEW l \in Lists, NEW i \in DOMAIN ll'[l], ll'[l][i].is_cancelled \/ Passed(l, i)
        PROVE  ll'[l][i].id \in void \cup RanIds
    <3>1. i \in DOMAIN ll[l] /\ ll'[l][i] = ll[l][i]
      BY <1>7, <1>8, <1>9, <2>3
    <3> QED BY <1>1, <2>3, <3>1 DEF FlagsRight
  <2> QED BY <1>2, <1>9, <1>10, <2>1, <2>2, <2>3 DEF FlagsRight
<1>18. FifoOrder' /\ CancelledNeverRuns'
  BY <1>1, <1>2 DEF FifoOrder, CancelledNeverRuns
<1>19. ~EarlyCalls => NoneLost'
  <2> SUFFICES ASSUME ~EarlyCalls, NEW id \in 1..(accepted + 1)
               PROVE  id \in Waiting' \cup RanIds \cup void \cup dropped
    BY <1>2, <1>10 DEF NoneLost
  <2>1. CASE id = accepted + 1
    <3>1. Len(ListsForCall[m]) + 1 \in DOMAIN ll'[m]
      BY <1>5, <1>6
    <3>2. ll'[m][Len(ListsForCall[m]) + 1].id = id
      BY <1>6, <1>7, <2>1
    <3> QED BY <3>1, <3>2 DEF Waiting, IdsIn, Lists
  <2>2. CASE id # accepted + 1
    <3>1. id \in Waiting \cup RanIds \cup void \cup dropped
      BY <1>1, <1>3, <2>2 DEF NoneLost
    <3>2. ASSUME id \in Waiting
          PROVE  id \in Waiting'
      <4>0. PICK l \in Lists : \E i \in DOMAIN ll[l] : ll[l][i].id = id
        BY <3>2, WaitingIds
      <4>1. PICK i \in DOMAIN ll[l] : ll[l][i].id = id
        BY <4>0
      <4>2. i \in DOMAIN ll'[l] /\ ll'[l][i] = ll[l][i]
        <5>1. ListsForCall = ll
          BY <1>4
        <5>2. CASE l = m
          BY <1>5, <1>6, <4>1, <5>1, <5>2
        <5>3. CASE l # m
          BY <1>6, <4>1, <5>1, <5>3
        <5> QED BY <5>2, <5>3
      <4> QED BY <4>1, <4>2 DEF Waiting, IdsIn, Lists
    <3> QED BY <3>1, <3>2
  <2> QED BY <2>1, <2>2
<1> QED BY <1>12, <1>13, <1>14, <1>15, <1>16, <1>17, <1>18, <1>19 DEF IInv

\* A stuttering step.
LEMMA StutterStep ==
    ASSUME IInv, UNCHANGED vars
    PROVE  IInv'
<1>1. /\ UNCHANGED <<disp, inited, regs, ll, phase, left, pos, running>>
      /\ UNCHANGED <<accepted, ran, void, dropped, fresh, stranded>>
  BY DEF vars, engine, history
<1> QED BY <1>1
    DEF IInv, TypeOK, Engine, InEvent, Hung, Sorted, RanBefore, FlagsRight, FifoOrder,
        CancelledNeverRuns, NoneLost, Waiting, IdsIn, RanIds, ToSet, Passed

--------------------------------------------------------------------------------
(* The theorems.                                                              *)

\* The invariant is inductive, for any keys, bounds and modes.
THEOREM AsyncInductive == Spec => []IInv
<1>1. ASSUME IInv, [Next]_vars PROVE IInv'
  <2>1. ASSUME NEW l \in Lists, NEW key \in Keys, Call(l, key) PROVE IInv'
    BY <1>1, <2>1, CallStep
  <2>2. ASSUME NEW l \in Lists, NEW key \in Keys, Cancel(l, key) PROVE IInv'
    BY <1>1, <2>2, CancelStep
  <2>3. CASE Deinit
    BY <1>1, <2>3, DeinitStep
  <2>4. CASE CreateDisplay \/ DeleteDisplay \/ RefrStart \/ RefrReady \/ EventDone
    BY <1>1, <2>4, TimerStep
  <2>5. CASE EnterEvent
    BY <1>1, <2>5, EnterStep
  <2>6. CASE SkipCancelled \/ LeaveCallback
    BY <1>1, <2>6, MoveOnStep
  <2>7. CASE EnterCallback
    BY <1>1, <2>7, RunStep
  <2>8. CASE UNCHANGED vars
    BY <1>1, <2>8, StutterStep
  <2> QED BY <1>1, <2>1, <2>2, <2>3, <2>4, <2>5, <2>6, <2>7, <2>8 DEF Next, Refresh
<1> QED BY <1>1, InitInv, PTL DEF Spec

\* Tasks of one list run in the order they were handed in, whatever tasks call.
THEOREM TasksInOrder == Spec => []FifoOrder
<1>1. IInv => FifoOrder BY DEF IInv
<1> QED BY <1>1, AsyncInductive, PTL

\* A task cancelled before it ran never runs.
THEOREM CancelHolds == Spec => []CancelledNeverRuns
<1>1. IInv => CancelledNeverRuns BY DEF IInv
<1> QED BY <1>1, AsyncInductive, PTL

\* Handed in with a display, no task is lost: the end of a pass clears only what ran
\* or was cancelled.
THEOREM TasksKept == ASSUME ~EarlyCalls PROVE Spec => []NoneLost
<1>1. IInv => NoneLost BY DEF IInv
<1> QED BY <1>1, AsyncInductive, PTL

--------------------------------------------------------------------------------
(* The lists are agendas: each step of the tasks is a step of TaskAgenda.      *)

\* A task is due when a node that is neither cancelled nor passed holds it.
LEMMA DueTasks ==
    ASSUME NEW l \in Lists, NEW task
    PROVE  task \in Due(l) <=> \E i \in DOMAIN ll[l] :
              /\ ~ll[l][i].is_cancelled /\ ~Passed(l, i)
              /\ task = [id |-> ll[l][i].id, key |-> ll[l][i].key]
BY DEF Due

\* A step that leaves what is due, what ran and the number of tasks alone is none
\* of the agendas'.
LEMMA AgendaSame ==
    ASSUME \A l \in Lists : Due(l)' = Due(l), UNCHANGED <<ran, accepted>>
    PROVE  UNCHANGED Agenda!agendaVars
BY DEF Agenda!agendaVars

\* So are the steps of the timer and of the loop: a node they leave behind ran or
\* was cancelled.
LEMMA AgendaQuiet ==
    ASSUME IInv, \/ CreateDisplay \/ DeleteDisplay \/ RefrStart \/ RefrReady \/ EventDone
                 \/ EnterEvent \/ UNCHANGED vars
    PROVE  UNCHANGED Agenda!agendaVars
<1>1. /\ UNCHANGED <<ll, ran, accepted>>
      /\ running' = running
      /\ \/ UNCHANGED <<phase, pos>>
         \/ pos = 0 /\ pos' = 0 /\ ~running
         \/ pos = 0 /\ pos' = 1 /\ ~running
  BY DEF CreateDisplay, DeleteDisplay, RefrStart, RefrReady, SendEvent, EventDone,
         EnterEvent, vars, engine, history, IInv, Engine, InEvent, TypeOK, Lists
<1>2. \A l \in Lists : \A i \in DOMAIN ll[l] : Passed(l, i)' <=> Passed(l, i)
  <2> SUFFICES ASSUME NEW l \in Lists, NEW i \in DOMAIN ll[l]
               PROVE  Passed(l, i)' <=> Passed(l, i)
    OBVIOUS
  <2>1. i \in Nat /\ i >= 1
    BY ListIsSeq DEF IInv
  <2> QED BY <1>1, <2>1 DEF Passed
<1>3. \A l \in Lists : Due(l)' = Due(l)
  BY <1>1, <1>2 DEF Due
<1> QED BY <1>1, <1>3, AgendaSame

LEMMA AgendaMoveOn ==
    ASSUME IInv, SkipCancelled \/ LeaveCallback
    PROVE  UNCHANGED Agenda!agendaVars
<1>1. /\ TypeOK /\ InEvent /\ pos > 0 /\ pos <= Len(ll[phase]) /\ Advance
      /\ running' = FALSE /\ (~running => ll[phase][pos].is_cancelled)
      /\ UNCHANGED <<phase, ran, accepted>>
  BY DEF SkipCancelled, LeaveCallback, IInv, Engine, TypeOK, history
<1>2. /\ \A l \in Lists :
           \/ ll'[l] = ll[l]
           \/ l = phase /\ pos = Len(ll[l]) /\ pos' = 0 /\ ll'[l] = <<>> /\ DOMAIN ll'[l] = {}
      /\ \/ pos' = pos + 1 /\ UNCHANGED <<left, ll>> /\ pos < Len(ll[phase])
         \/ /\ pos' = 0 /\ left' = left - 1 /\ pos = Len(ll[phase])
            /\ DOMAIN ll'[phase] = {}
  BY <1>1, AdvanceLists
<1>3. pos \in Nat /\ phase \in Lists
  BY <1>1 DEF TypeOK, InEvent
<1>4. ASSUME NEW l \in Lists PROVE Due(l)' = Due(l)
  <2>1. \A i \in DOMAIN ll[l] : i \in Nat /\ i <= Len(ll[l])
    BY <1>1, ListIsSeq
  <2>2. CASE l # phase
    <3>1. ll'[l] = ll[l] /\ \A i \in DOMAIN ll[l] : Passed(l, i)' <=> Passed(l, i)
      BY <1>1, <1>2, <2>2 DEF Passed
    <3> QED BY <3>1 DEF Due
  <2>3. CASE l = phase /\ pos' = pos + 1
    <3>1. ll' = ll
      BY <1>2, <1>3, <2>3
    <3>2. \A i \in DOMAIN ll[l] :
             ~ll[l][i].is_cancelled => (Passed(l, i)' <=> Passed(l, i))
      BY <1>1, <1>3, <2>1, <2>3 DEF Passed
    <3> QED BY <3>1, <3>2 DEF Due
  <2>4. CASE l = phase /\ pos = Len(ll[l]) /\ DOMAIN ll'[l] = {}
    <3>1. \A i \in DOMAIN ll[l] : ll[l][i].is_cancelled \/ Passed(l, i)
      BY <1>1, <1>3, <2>1, <2>4 DEF Passed
    <3> QED BY <2>4, <3>1 DEF Due
  <2> QED BY <1>2, <2>2, <2>3, <2>4
<1> QED BY <1>1, <1>4, AgendaSame

\* A callback is entered for the first of the tasks that are due, which is due no more.
LEMMA AgendaRun ==
    ASSUME IInv, EnterCallback
    PROVE  Agenda!Run(phase)
<1> DEFINE task == [id |-> ll[phase][pos].id, key |-> ll[phase][pos].key]
<1>1. /\ TypeOK /\ phase \in Lists /\ pos \in DOMAIN ll[phase] /\ pos \in Nat
      /\ ~running /\ running' /\ ~ll[phase][pos].is_cancelled
      /\ ran' = [ran EXCEPT ![phase] = Append(@, task.id)]
      /\ UNCHANGED <<ll, phase, pos, accepted>>
  BY ListIsSeq DEF EnterCallback, InEvent, IInv, Engine, TypeOK
<1>2. \A l \in Lists : \A i \in DOMAIN ll[l] : i \in Nat /\ ll[l][i].id \in Nat
  BY <1>1, ListIsSeq, BoundAssumption DEF Node, Ids
<1>3. \A i, j \in DOMAIN ll[phase] : i < j => ll[phase][i].id < ll[phase][j].id
  BY <1>1 DEF IInv, Sorted
<1>4. \A l \in Lists : \A i \in DOMAIN ll[l] :
         Passed(l, i)' <=> Passed(l, i) \/ (l = phase /\ i = pos)
  BY <1>1 DEF Passed
<1>5. task \in Due(phase)
  BY <1>1, DueTasks DEF Passed
<1>6. ASSUME NEW other \in Due(phase) PROVE task.id <= other.id
  <2>1. PICK i \in DOMAIN ll[phase] :
               ~Passed(phase, i) /\ other = [id |-> ll[phase][i].id, key |-> ll[phase][i].key]
    BY <1>1, DueTasks
  <2>2. i = pos \/ pos < i
    BY <1>1, <1>2, <2>1 DEF Passed
  <2> QED BY <1>1, <1>2, <1>3, <2>1, <2>2
<1>7. \A l \in Lists \ {phase} : Due(l)' = Due(l)
  BY <1>1, <1>4 DEF Due
<1>8. Due(phase)' = Due(phase) \ {task}
  <2>1. ASSUME NEW i \in DOMAIN ll[phase], ll[phase][i].id = ll[phase][pos].id PROVE i = pos
    BY <1>1, <1>2, <1>3, <2>1
  <2>2. \A i \in DOMAIN ll[phase] :
           [id |-> ll[phase][i].id, key |-> ll[phase][i].key] = task <=> i = pos
    BY <1>1, <2>1
  <2>3. (phase \in Lists)' /\ phase' = phase
    BY <1>1
  <2>4. \A other : other \in Due(phase)' <=> other \in Due(phase) /\ other # task
    <3> HIDE DEF task
    <3> QED BY <1>1, <1>4, <2>2, <2>3 DEF Due
  <2> QED BY <2>4
<1> HIDE DEF task
<1>9. [l \in Lists |-> Due(l)]' = [[l \in Lists |-> Due(l)] EXCEPT ![phase] = @ \ {task}]
  BY <1>1, <1>7, <1>8
<1> QED BY <1>1, <1>5, <1>6, <1>9 DEF Agenda!Run

\* A call hands one task in, ...
LEMMA AgendaCall ==
    ASSUME ~EarlyCalls, IInv, NEW m \in Lists, NEW key \in Keys, Call(m, key)
    PROVE  Agenda!HandIn(m, key)
<1> DEFINE node == [id |-> accepted + 1, key |-> key, is_cancelled |-> FALSE]
           task == [id |-> accepted + 1, key |-> key]
<1>1. /\ TypeOK /\ accepted < MaxTasks /\ accepted' = accepted + 1
      /\ UNCHANGED <<phase, pos, running, ran>>
      /\ ll' = [ListsForCall EXCEPT ![m] = Append(@, node)]
  BY DEF Call, AddCall, InsTail, engine, IInv
<1>2. ListsForCall = ll
  BY DEF ListsForCall, NeedsInit, IInv, Hung
<1>3. accepted + 1 \in Ids /\ node \in Node
  BY <1>1, BoundAssumption DEF TypeOK, Ids, Node
<1>4. /\ \A l \in Lists \ {m} : ll'[l] = ll[l]
      /\ ll'[m] = Append(ll[m], node)
  BY <1>1, <1>2 DEF TypeOK
<1>5. /\ ll[m] \in Seq(Node) /\ Len(ll[m]) \in Nat /\ DOMAIN ll[m] = 1..Len(ll[m])
  BY <1>1, ListIsSeq
<1>6. /\ DOMAIN ll'[m] = DOMAIN ll[m] \cup {Len(ll[m]) + 1}
      /\ \A i \in DOMAIN ll[m] : ll'[m][i] = ll[m][i]
      /\ ll'[m][Len(ll[m]) + 1] = node
  <2>1. PICK longer \in Seq(Node) : longer = Append(ll[m], node)
    BY <1>3, <1>5, AppendProperties
  <2>2. /\ Len(longer) = Len(ll[m]) + 1 /\ DOMAIN longer = 1..Len(longer)
        /\ \A i \in 1..Len(ll[m]) : longer[i] = ll[m][i]
        /\ longer[Len(ll[m]) + 1] = node
    BY <1>3, <1>5, <2>1, AppendProperties, LenProperties
  <2> HIDE DEF node
  <2> QED BY <1>4, <1>5, <2>1, <2>2
<1>7. node.id = accepted + 1 /\ node.key = key /\ ~node.is_cancelled
  OBVIOUS
<1>8. /\ \A l \in Lists, i \in Nat : Passed(l, i)' <=> Passed(l, i)
      /\ ~Passed(m, Len(ll[m]) + 1)
  BY <1>1, <1>5 DEF Passed, IInv, Engine, TypeOK
<1>9. \A l \in Lists \ {m} : Due(l)' = Due(l)
  <2>1. \A l \in Lists : \A i \in DOMAIN ll[l] : i \in Nat
    BY <1>1, ListIsSeq
  <2> QED BY <1>4, <1>8, <2>1 DEF Due
<1>10. Due(m)' = Due(m) \cup {task}
  <2>1. \A other : other \in Due(m)' <=> other \in Due(m) \/ other = task
    <3> HIDE DEF node
    <3> QED BY <1>5, <1>6, <1>7, <1>8 DEF Due
  <2> QED BY <2>1
<1> HIDE DEF node, task
<1>11. [l \in Lists |-> Due(l)]' = [[l \in Lists |-> Due(l)] EXCEPT ![m] = @ \cup {task}]
  BY <1>9, <1>10
<1> QED BY <1>1, <1>11 DEF Agenda!HandIn, task

\* ... a cancel call takes all tasks of its key away, ...
LEMMA AgendaCancel ==
    ASSUME IInv, NEW m \in Lists, NEW key \in Keys, Cancel(m, key)
    PROVE  Agenda!Withdraw(m, key)
<1>1. /\ TypeOK /\ UNCHANGED <<phase, pos, running, ran, accepted>>
  BY DEF Cancel, engine, IInv
<1>2. /\ \A l \in Lists \ {m} : ll'[l] = ll[l]
      /\ ll'[m] = [i \in DOMAIN ll[m] |->
                     IF i \in Marked(m, key) THEN Flagged(ll[m][i]) ELSE ll[m][i]]
  BY <1>1, Zenon DEF Cancel, MarkNodes, TypeOK
<1>3. \A node \in Node : /\ Flagged(node).id = node.id /\ Flagged(node).key = node.key
                          /\ Flagged(node).is_cancelled
  BY DEF Node, Flagged
<1>4. /\ DOMAIN ll'[m] = DOMAIN ll[m]
      /\ \A i \in DOMAIN ll[m] :
           /\ ll'[m][i].id = ll[m][i].id /\ ll'[m][i].key = ll[m][i].key
           /\ ll'[m][i].is_cancelled <=> ll[m][i].is_cancelled \/ ll[m][i].key = key
  BY <1>1, <1>2, <1>3, ListIsSeq DEF Marked
<1>5. \A l \in Lists : \A i \in DOMAIN ll[l] : Passed(l, i)' <=> Passed(l, i)
  BY <1>1 DEF Passed
<1>6. \A l \in Lists \ {m} : Due(l)' = Due(l)
  BY <1>2, <1>5 DEF Due
<1>7. Due(m)' = {task \in Due(m) : task.key # key}
  BY <1>4, <1>5 DEF Due
<1>8. [l \in Lists |-> Due(l)]'
        = [[l \in Lists |-> Due(l)] EXCEPT ![m] = {task \in @ : task.key # key}]
  BY <1>6, <1>7
<1> QED BY <1>1, <1>8 DEF Agenda!Withdraw

\* ... and a deinit drops all.
LEMMA AgendaDeinit ==
    ASSUME IInv, Deinit
    PROVE  Agenda!DropAll
<1>1. ll' = Empty /\ UNCHANGED <<ran, accepted>>
  BY DEF Deinit
<1>2. \A l \in Lists : DOMAIN ll'[l] = {}
  BY <1>1, EmptySeq DEF Empty
<1>3. \A l \in Lists : Due(l)' = {}
  BY <1>2 DEF Due
<1> QED BY <1>1, <1>3 DEF Agenda!DropAll

\* Handed in with a display, tasks follow the agendas: each runs at most once, in
\* order and not after a cancel, whatever lists, flags and passes there are.
THEOREM TasksAreAgendas ==
    ASSUME ~EarlyCalls
    PROVE  Spec => ImplementsAgenda
<1>1. Init => Agenda!AgendaInit
  <2> SUFFICES ASSUME Init PROVE Agenda!AgendaInit
    OBVIOUS
  <2>1. \A l \in Lists : DOMAIN ll[l] = {}
    BY EmptySeq DEF Init
  <2>2. \A l \in Lists : Due(l) = {}
    BY <2>1 DEF Due
  <2> QED BY <2>2 DEF Init, Agenda!AgendaInit
<1>2. ASSUME IInv, [Next]_vars PROVE [Agenda!AgendaNext]_(Agenda!agendaVars)
  <2>1. ASSUME NEW l \in Lists, NEW key \in Keys, Call(l, key)
        PROVE  Agenda!AgendaNext
    BY <1>2, <2>1, AgendaCall DEF Agenda!AgendaNext
  <2>2. ASSUME NEW l \in Lists, NEW key \in Keys, Cancel(l, key)
        PROVE  Agenda!AgendaNext
    BY <1>2, <2>2, AgendaCancel DEF Agenda!AgendaNext
  <2>3. CASE Deinit
    BY <1>2, <2>3, AgendaDeinit DEF Agenda!AgendaNext
  <2>4. CASE EnterCallback
    <3>1. phase \in Lists
      BY <2>4 DEF EnterCallback, InEvent
    <3> QED BY <1>2, <2>4, <3>1, AgendaRun DEF Agenda!AgendaNext
  <2>5. CASE \/ CreateDisplay \/ DeleteDisplay \/ RefrStart \/ RefrReady \/ EventDone
             \/ EnterEvent \/ UNCHANGED vars
    BY <1>2, <2>5, AgendaQuiet
  <2>6. CASE SkipCancelled \/ LeaveCallback
    BY <1>2, <2>6, AgendaMoveOn
  <2> QED BY <1>2, <2>1, <2>2, <2>3, <2>4, <2>5, <2>6 DEF Next, Refresh
<1>3. ImplementsAgenda <=> Agenda!AgendaInit /\ [][Agenda!AgendaNext]_(Agenda!agendaVars)
  BY DEF ImplementsAgenda, Agenda!AgendaSpec
<1> QED BY <1>1, <1>2, <1>3, AsyncInductive, PTL DEF Spec
================================================================================
