----------------------------- MODULE FramePullProofs ----------------------------
(***************************************************************************)
(* Proofs about FramePull, for every first frame and every bound.           *)
(***************************************************************************)
EXTENDS FramePull, SequenceTheorems, TLAPS

ReqNo == 1..MaxSent

\* Replies are read in the order of their requests and none is missing between
\* them: what waits are the answers to the last requests that were answered.
Waiting == Len(replies)
RepliesInOrder ==
    /\ Waiting <= answered
    /\ \A i \in 1..Waiting : replies[i] = answered - Waiting + i

\* The parts of the state that only make sense with a socket.
SocketState ==
    /\ peer => open
    /\ playing => open
    /\ ui # "idle" => open /\ playing /\ late < MaxTimeouts
    /\ ui = "sending" => sent < MaxSent
    /\ ~open => img = None
    /\ open => img <= answered - Waiting
    /\ open /\ img = None => announced <= late
    /\ announced <= late + 1

IInv ==
    /\ TypeOK
    /\ RepliesLagGivenUp
    /\ CacheFresh
    /\ AnnouncedWithFirstFrame
    /\ RepliesInOrder
    /\ SocketState

\* The bounds are numbers.
LEMMA Bounds == MaxSent \in Nat /\ MaxTimeouts \in Nat /\ FirstFrame \in Nat
BY BoundAssumption DEF BoundAssumption

\* The type invariant by parts.
Numbers ==
    /\ sent \in 0..MaxSent /\ read \in 0..sent /\ answered \in 0..read /\ late \in 0..MaxTimeouts
    /\ img \in 0..MaxSent /\ cached \in 0..MaxSent
    /\ announced \in 0..(MaxTimeouts + 1)
Flags ==
    /\ open \in BOOLEAN /\ peer \in BOOLEAN /\ playing \in BOOLEAN
    /\ ui \in {"idle", "sending", "polling"} /\ errno \in BOOLEAN /\ misled \in BOOLEAN
    /\ source \in {"none", "poster", "frames"}
\* The parts together are the type invariant.
LEMMA TypeParts == TypeOK <=> Numbers /\ Flags /\ replies \in Seq(ReqNo)
BY Zenon DEF TypeOK, Numbers, Flags, ReqNo

\* Without a frame nothing is decoded either.
LEMMA NothingDecoded == ASSUME CacheFresh, img = None PROVE cached = None
BY DEF CacheFresh

\* Reading the head of the replies leaves the others in order.
LEMMA ReadOne ==
    ASSUME TypeOK, RepliesInOrder, replies # <<>>
    PROVE  /\ Waiting \in Nat \ {0}
           /\ Head(replies) = answered - Waiting + 1
           /\ Head(replies) \in ReqNo
           /\ Tail(replies) \in Seq(ReqNo)
           /\ Len(Tail(replies)) = Waiting - 1
           /\ \A i \in 1..(Waiting - 1) : Tail(replies)[i] = answered - Waiting + 1 + i
<1>1. replies \in Seq(ReqNo) BY DEF TypeOK, ReqNo
<1>2. Waiting \in Nat \ {0} BY <1>1, EmptySeq, LenProperties DEF Waiting
<1>3. Head(replies) = replies[1] /\ Head(replies) \in ReqNo
  BY <1>1, <1>2, ElementOfSeq, HeadTailProperties DEF Waiting
<1>4. /\ Tail(replies) \in Seq(ReqNo)
      /\ Len(Tail(replies)) = Waiting - 1
      /\ \A i \in 1..(Waiting - 1) : Tail(replies)[i] = replies[i + 1]
  BY <1>1, HeadTailProperties DEF Waiting
<1>5. answered \in Nat BY Bounds DEF TypeOK
<1> QED BY <1>2, <1>3, <1>4, <1>5 DEF RepliesInOrder

\* The invariant holds before the first source is opened.
LEMMA InitInv == Init => IInv
<1> SUFFICES ASSUME Init PROVE IInv OBVIOUS
<1>1. Len(replies) = 0 /\ replies \in Seq(ReqNo) BY EmptySeq DEF Init
<1>2. TypeOK
  <2>1. Numbers BY Bounds DEF Init, Numbers, None
  <2>2. Flags BY DEF Init, Flags
  <2> QED BY <1>1, <2>1, <2>2, TypeParts DEF ReqNo
<1>3. RepliesInOrder BY <1>1 DEF Init, RepliesInOrder, Waiting
<1>4. SocketState BY DEF Init, SocketState, None
<1> QED BY <1>2, <1>3, <1>4
     DEF Init, IInv, RepliesLagGivenUp, CacheFresh, AnnouncedWithFirstFrame

\* The server answers the oldest open request.
LEMMA ReplyStep == ASSUME IInv, Reply PROVE IInv'
<1>1. /\ answered \in Nat /\ read \in Nat /\ sent \in Nat /\ MaxSent \in Nat
      /\ answered < read /\ read <= sent /\ sent <= MaxSent
  BY Bounds DEF IInv, TypeOK, Reply
<1>2. answered + 1 \in ReqNo BY <1>1 DEF ReqNo
<1>3. replies \in Seq(ReqNo) BY DEF IInv, TypeOK, ReqNo
<1>4. /\ replies' \in Seq(ReqNo)
      /\ Waiting' = Waiting + 1
      /\ \A i \in 1..Waiting : replies'[i] = replies[i]
      /\ replies'[Waiting + 1] = answered + 1
  BY <1>2, <1>3, AppendProperties DEF Reply, Waiting
<1>5. Waiting \in Nat BY <1>3, LenProperties DEF Waiting
<1>6. RepliesInOrder'
  BY <1>1, <1>4, <1>5 DEF IInv, RepliesInOrder, Reply
<1>7. TypeOK' BY <1>1, <1>4 DEF IInv, TypeOK, Reply, image, ReqNo
<1>8. RepliesLagGivenUp'
  <2>1. late \in Nat BY Bounds DEF IInv, TypeOK
  <2> QED BY <1>1, <1>4, <1>5, <2>1 DEF IInv, RepliesLagGivenUp, Reply, Waiting
<1>9. SocketState' BY <1>1, <1>4, <1>5 DEF IInv, SocketState, Reply, image
<1> QED BY <1>6, <1>7, <1>8, <1>9
     DEF IInv, CacheFresh, AnnouncedWithFirstFrame, Reply, image

\* One reply is read, and shown unless it is NULL.
LEMMA ReceiveStep == ASSUME IInv, Receive PROVE IInv'
<1> USE Bounds
<1>1. /\ Waiting \in Nat \ {0} /\ Waiting <= answered
      /\ Head(replies) = answered - Waiting + 1
      /\ Head(replies) \in ReqNo
      /\ replies' \in Seq(ReqNo)
      /\ Waiting' = Waiting - 1
      /\ \A i \in 1..(Waiting - 1) : replies'[i] = answered - Waiting + 1 + i
  BY ReadOne DEF IInv, RepliesInOrder, Receive, Waiting
<1>2. /\ answered \in Nat /\ sent \in Nat /\ late \in Nat /\ announced \in Nat /\ img \in Nat
      /\ MaxTimeouts \in Nat /\ late < MaxTimeouts /\ open /\ ui = "polling" /\ ui' = "idle"
      /\ announced <= late + 1
      /\ img = None => announced <= late
      /\ img <= answered - Waiting
  BY DEF IInv, TypeOK, SocketState, Receive
<1>3. \/ UNCHANGED <<img, cached, announced, source>>
      \/ img' = Head(replies) /\ Present(Head(replies))
  BY DEF Receive, Present
<1>4. CacheFresh' BY <1>3, NothingDecoded DEF IInv, CacheFresh, Present, IsFirst
<1>5. AnnouncedWithFirstFrame'
  <2>1. UNCHANGED <<open, misled>> BY DEF Receive
  <2>2. img' # None \/ UNCHANGED <<img, announced>>
    BY <1>1, <1>3 DEF ReqNo, None
  <2> QED BY <1>2, <1>3, <2>1, <2>2 DEF IInv, AnnouncedWithFirstFrame, Present, IsFirst
<1>6. RepliesInOrder'
  <2>1. answered' = answered BY DEF Receive
  <2>2. \A i \in 1..Waiting' : replies'[i] = answered' - Waiting' + i
    BY <1>1, <1>2, <2>1
  <2> QED BY <1>1, <1>2, <2>1, <2>2 DEF RepliesInOrder
<1>7. RepliesLagGivenUp'
  BY <1>1, <1>2 DEF IInv, RepliesLagGivenUp, Receive, Waiting
<1>8. SocketState'
  <2>1. img' # None \/ UNCHANGED <<img, announced>>
    BY <1>1, <1>3 DEF ReqNo, None
  <2>2. announced' <= late + 1 BY <1>2, <1>3 DEF Present, IsFirst
  <2>3. img' <= answered - Waiting' BY <1>1, <1>2, <1>3
  <2> QED BY <1>1, <1>2, <2>1, <2>2, <2>3 DEF IInv, SocketState, Receive
<1>9. TypeOK'
  <2>1. announced' \in 0..MaxTimeouts + 1 BY <1>2, <1>3 DEF IInv, TypeOK, Present, IsFirst
  <2>2. img' \in 0..MaxSent /\ cached' \in 0..MaxSent
    BY <1>1, <1>3 DEF IInv, TypeOK, Present, ReqNo, None
  <2>3. source' \in {"none", "poster", "frames"} BY <1>3 DEF IInv, TypeOK, Present
  <2> QED BY <1>1, <2>1, <2>2, <2>3 DEF IInv, TypeOK, Receive, ReqNo
<1> QED BY <1>4, <1>5, <1>6, <1>7, <1>8, <1>9 DEF IInv

\* A poll that gives up leaves its reply to the next one.
LEMMA TimeoutStep == ASSUME IInv, Timeout PROVE IInv'
<1> USE Bounds
<1>1. /\ answered \in Nat /\ sent \in Nat /\ late \in Nat /\ announced \in Nat
      /\ MaxTimeouts \in Nat /\ late < MaxTimeouts /\ open /\ open'
      /\ announced <= late + 1
      /\ img = None => announced <= late
  BY DEF IInv, TypeOK, SocketState, Timeout
<1>2. UNCHANGED <<open, peer, sent, read, answered, replies, playing, errno>> /\ img' = img
      /\ late' = late + 1 /\ ui = "polling" /\ ui' = "idle" /\ Waiting' = Waiting
  BY DEF Timeout, Present, image, Waiting
<1>3. \/ UNCHANGED image
      \/ Present(img) /\ misled'
  BY DEF Timeout
<1>4. CacheFresh'
  BY <1>2, <1>3, NothingDecoded DEF IInv, CacheFresh, Present, IsFirst, image
<1>5. AnnouncedWithFirstFrame'
  BY <1>2, <1>3 DEF IInv, AnnouncedWithFirstFrame, image
<1>6. /\ announced' \in Nat
      /\ announced' <= late' \/ (img # None /\ announced' = announced)
  <2>1. CASE UNCHANGED image BY <1>1, <1>2, <2>1 DEF image
  <2>2. CASE Present(img) BY <1>1, <1>2, <2>2 DEF Present, IsFirst
  <2> QED BY <1>3, <2>1, <2>2
<1>7. TypeOK'
  <2>1. announced' \in 0..(MaxTimeouts + 1)
    BY <1>1, <1>2, <1>6 DEF IInv, TypeOK
  <2>2. cached' \in 0..MaxSent BY <1>3 DEF IInv, TypeOK, Present, image, None
  <2>3. misled' \in BOOLEAN BY DEF IInv, TypeOK, Timeout, image
  <2>4. Numbers' BY <1>1, <1>2, <2>1, <2>2, TypeParts DEF IInv, Numbers
  <2>5. source' \in {"none", "poster", "frames"} BY <1>3 DEF IInv, TypeOK, Present, image
  <2>6. Flags' BY <1>2, <2>3, <2>5, TypeParts, Zenon DEF IInv, Flags
  <2> QED BY <1>2, <2>4, <2>6 DEF IInv, TypeOK, Numbers, Flags
<1>8. RepliesLagGivenUp'
  <2>1. Waiting \in Nat BY LenProperties DEF IInv, TypeOK, Waiting
  <2> QED BY <1>1, <1>2, <2>1 DEF IInv, RepliesLagGivenUp, Waiting
<1>9. SocketState' BY <1>1, <1>2, <1>6 DEF IInv, SocketState
<1>10. RepliesInOrder' BY <1>2 DEF IInv, RepliesInOrder
<1> QED BY <1>4, <1>5, <1>7, <1>8, <1>9, <1>10 DEF IInv

\* A poll or recv that fails leaves its reply to the next one as well.
LEMMA PollFailsStep == ASSUME IInv, PollFails PROVE IInv'
<1> USE Bounds
<1>1. Waiting' = Waiting /\ Waiting \in Nat
  BY LenProperties DEF IInv, TypeOK, PollFails, Waiting
<1>2. /\ sent \in Nat /\ answered \in Nat /\ late \in Nat /\ announced \in Nat
      /\ late < MaxTimeouts /\ MaxTimeouts \in Nat
  BY DEF IInv, TypeOK, SocketState, PollFails
<1>3. TypeOK' BY <1>2 DEF IInv, TypeOK, PollFails, image
<1>4. RepliesLagGivenUp' BY <1>1, <1>2 DEF IInv, RepliesLagGivenUp, PollFails, Waiting
<1>5. SocketState' BY <1>1, <1>2 DEF IInv, SocketState, PollFails, image
<1>6. RepliesInOrder' BY <1>1 DEF IInv, RepliesInOrder, PollFails
<1> QED BY <1>3, <1>4, <1>5, <1>6
     DEF IInv, CacheFresh, AnnouncedWithFirstFrame, PollFails, image

\* A request opens the gap that its reply or the end of its poll closes.
LEMMA SentStep == ASSUME IInv, Sent PROVE IInv'
<1> USE Bounds
<1>1. Waiting' = Waiting /\ Waiting \in Nat
  BY LenProperties DEF IInv, TypeOK, Sent, Waiting
<1>2. /\ sent \in Nat /\ read \in Nat /\ answered \in Nat /\ late \in Nat
      /\ sent < MaxSent
  BY DEF IInv, TypeOK, SocketState, Sent
<1>3. TypeOK' BY <1>2 DEF IInv, TypeOK, Sent, image
<1>4. RepliesLagGivenUp' BY <1>1, <1>2 DEF IInv, RepliesLagGivenUp, Sent, Waiting
<1>5. SocketState' BY <1>1 DEF IInv, SocketState, Sent, image
<1>6. RepliesInOrder' BY <1>1 DEF IInv, RepliesInOrder, Sent
<1> QED BY <1>3, <1>4, <1>5, <1>6
     DEF IInv, CacheFresh, AnnouncedWithFirstFrame, Sent, image

\* The server takes a request from the socket.
LEMMA ServerReadsStep == ASSUME IInv, ServerReads PROVE IInv'
<1> USE Bounds
<1>1. Waiting' = Waiting BY DEF ServerReads, Waiting
<1>2. sent \in Nat /\ read \in Nat /\ read < sent /\ answered \in Nat
  BY DEF IInv, TypeOK, ServerReads
<1>3. TypeOK' BY <1>2 DEF IInv, TypeOK, ServerReads, image
<1>4. SocketState' BY <1>1 DEF IInv, SocketState, ServerReads, image
<1>5. RepliesInOrder' BY <1>1 DEF IInv, RepliesInOrder, ServerReads
<1> QED BY <1>3, <1>4, <1>5
     DEF IInv, RepliesLagGivenUp, CacheFresh, AnnouncedWithFirstFrame, ServerReads, image

\* A new socket carries nothing over from the old one.
LEMMA SetSrcStep == ASSUME IInv, SetSrc PROVE IInv'
<1> USE Bounds
<1>1. Waiting' = 0 /\ replies' \in Seq(ReqNo) BY EmptySeq DEF SetSrc, Waiting
<1>2. ~open /\ ui = "idle" /\ img = None
  BY DEF IInv, TypeOK, SocketState, SetSrc
<1>3. TypeOK'
  <2>1. Numbers' BY TypeParts DEF IInv, Numbers, SetSrc
  <2>2. Flags' BY TypeParts, Zenon DEF IInv, Flags, SetSrc
  <2> QED BY <1>1, <2>1, <2>2, TypeParts DEF TypeOK, Numbers, Flags, ReqNo
<1>4. RepliesLagGivenUp' BY <1>1, <1>2 DEF RepliesLagGivenUp, SetSrc, Waiting
<1>5. SocketState' BY <1>1, <1>2 DEF IInv, SocketState, SetSrc, None
<1>6. RepliesInOrder' BY <1>1 DEF RepliesInOrder, SetSrc
<1> QED BY <1>2, <1>3, <1>4, <1>5, <1>6
     DEF IInv, CacheFresh, AnnouncedWithFirstFrame, SetSrc

\* Stopping closes the socket and leaves no frame.
LEMMA StopStep == ASSUME IInv, Stop PROVE IInv'
<1>1. Waiting' = Waiting BY DEF Stop, Waiting
<1>2. TypeOK'
  <2>1. Numbers' BY Bounds, TypeParts DEF IInv, Numbers, Stop, ClearImage, None
  <2>2. Flags' BY TypeParts, Zenon DEF IInv, Flags, Stop
  <2>3. replies' \in Seq(ReqNo) BY TypeParts DEF IInv, Stop
  <2> QED BY <2>1, <2>2, <2>3 DEF TypeOK, Numbers, Flags, ReqNo
<1>3. SocketState' BY <1>1 DEF IInv, TypeOK, SocketState, Stop, ClearImage
<1>4. RepliesInOrder' BY <1>1 DEF IInv, RepliesInOrder, Stop
<1> QED BY <1>2, <1>3, <1>4
     DEF IInv, RepliesLagGivenUp, CacheFresh, AnnouncedWithFirstFrame, Stop, ClearImage

\* The other steps leave requests, replies and the frame alone.
LEMMA OtherSteps ==
    ASSUME IInv,
           \/ ServerCloses \/ Start \/ Pause \/ SetPoster \/ StopFails \/ Draw
           \/ Request \/ SendFails \/ ReceiveFails \/ UNCHANGED vars
    PROVE  IInv'
<1>1. /\ UNCHANGED <<open, sent, read, answered, replies, late, img, announced, misled>>
      /\ cached' \in {cached, img, None}
  BY DEF ServerCloses, Start, Pause, SetPoster, StopFails, Draw, Request, SendFails, ReceiveFails,
         vars, socket, image
<1>2. Flags BY TypeParts DEF IInv
<1>3. /\ peer' => peer
      /\ ui' # "idle" => open /\ playing' /\ late < MaxTimeouts
      /\ playing' => open
      /\ ui' = "sending" => sent < MaxSent
      /\ peer' => (ui' = "polling" <=> ui = "polling")
      /\ Flags'
  <2>1. CASE ServerCloses
    BY <1>2, <2>1 DEF IInv, SocketState, Flags, ServerCloses, image
  <2>2. CASE Start BY <1>2, <2>2 DEF IInv, SocketState, Flags, Start, socket, image
  <2>3. CASE Pause BY <1>2, <2>3 DEF IInv, SocketState, Flags, Pause, socket, image
  <2>4. CASE Draw BY <1>2, <2>4 DEF IInv, SocketState, Flags, Draw, socket
  <2>5. CASE StopFails BY <1>2, <2>5 DEF IInv, SocketState, Flags, StopFails, socket
  <2>6. CASE Request BY <1>2, <2>6 DEF IInv, SocketState, Flags, Request, socket, image
  <2>10. CASE SendFails BY <1>2, <2>10 DEF IInv, SocketState, Flags, SendFails, socket, image
  <2>7. CASE ReceiveFails BY <1>2, <2>7 DEF IInv, SocketState, Flags, ReceiveFails, socket, image
  <2>8. CASE SetPoster BY <1>2, <2>8 DEF IInv, SocketState, Flags, SetPoster, socket
  <2>9. CASE UNCHANGED vars BY <1>2, <2>9 DEF IInv, SocketState, Flags, vars
  <2> QED BY <2>1, <2>2, <2>3, <2>4, <2>5, <2>6, <2>7, <2>8, <2>9, <2>10
<1>4. Waiting' = Waiting BY <1>1 DEF Waiting
<1>5. TypeOK'
  <2>1. Numbers' BY <1>1, Bounds, TypeParts DEF IInv, Numbers, None
  <2> QED BY <1>1, <1>3, <2>1 DEF IInv, TypeOK, Numbers, Flags
<1>6. RepliesLagGivenUp' BY <1>1, <1>3 DEF IInv, RepliesLagGivenUp
<1>7. CacheFresh' /\ AnnouncedWithFirstFrame'
  BY <1>1 DEF IInv, CacheFresh, AnnouncedWithFirstFrame
<1>8. RepliesInOrder' BY <1>1, <1>4 DEF IInv, RepliesInOrder
<1>9. SocketState' BY <1>1, <1>4, <1>3 DEF IInv, SocketState
<1> QED BY <1>5, <1>6, <1>7, <1>8, <1>9 DEF IInv

\* Every step keeps the invariant.
LEMMA NextInv == IInv /\ [Next]_vars => IInv'
<1> SUFFICES ASSUME IInv, [Next]_vars PROVE IInv' OBVIOUS
<1>1. CASE Reply BY <1>1, ReplyStep
<1>2. CASE SetSrc BY <1>2, SetSrcStep
<1>3. CASE Stop BY <1>3, StopStep
<1>4. CASE Sent BY <1>4, SentStep
<1>5. CASE Receive BY <1>5, ReceiveStep
<1>6. CASE Timeout BY <1>6, TimeoutStep
<1>7. CASE \/ ServerCloses \/ Start \/ Pause \/ SetPoster \/ StopFails \/ Draw
           \/ Request \/ SendFails \/ ReceiveFails \/ UNCHANGED vars
  BY <1>7, OtherSteps
<1>8. CASE ServerReads BY <1>8, ServerReadsStep
<1>9. CASE PollFails BY <1>9, PollFailsStep
<1> QED BY <1>1, <1>2, <1>3, <1>4, <1>5, <1>6, <1>7, <1>8, <1>9 DEF Next

--------------------------------------------------------------------------------
\* The requests, replies and polls of a socket always fit together, with all
\* that the properties below need.
THEOREM FrameInductive == Spec => []IInv
<1> QED BY InitInv, NextInv, PTL DEF Spec

\* The state of the pull is always of its type.
THEOREM FrameTypeCorrect == Spec => []TypeOK
<1>1. IInv => TypeOK BY DEF IInv
<1> QED BY <1>1, FrameInductive, PTL

\* Replies lag behind requests by exactly the polls that gave up so far, by their
\* timeout or by an error.
THEOREM LagExact == Spec => []RepliesLagGivenUp
<1>1. IInv => RepliesLagGivenUp BY DEF IInv
<1> QED BY <1>1, FrameInductive, PTL

\* What is drawn from the decode cache is the last frame received.
THEOREM DecodedIsCurrent == Spec => []CacheFresh
<1>1. IInv => CacheFresh BY DEF IInv
<1> QED BY <1>1, FrameInductive, PTL

\* The custom event comes once for each source, with its first frame, unless a
\* poll timed out while errno was 0.
THEOREM AnnouncedOnce == Spec => []AnnouncedWithFirstFrame
<1>1. IInv => AnnouncedWithFirstFrame BY DEF IInv
<1> QED BY <1>1, FrameInductive, PTL

\* No step replaces a frame by an older one.
THEOREM NeverBackwards == Spec => FramesInOrder
<1>1. IInv /\ [Next]_vars => [img # None /\ img' # None => img' >= img]_vars
  <2> SUFFICES ASSUME IInv, Next, img # None, img' # None PROVE img' >= img
    BY DEF vars
  <2>1. img \in Nat /\ answered \in Nat BY Bounds DEF IInv, TypeOK
  <2>2. CASE Receive
    <3>1. open BY <2>2 DEF IInv, SocketState, Receive
    <3>2. Waiting \in Nat \ {0} /\ Head(replies) = answered - Waiting + 1
      BY <2>2, ReadOne DEF IInv, Receive
    <3>3. img <= answered - Waiting BY <3>1 DEF IInv, SocketState
    <3>4. img' = img \/ img' = Head(replies) BY <2>2 DEF Receive, Present
    <3> QED BY <2>1, <3>2, <3>3, <3>4
  <2>3. CASE ~Receive
    <3>1. img' = img \/ img' = None
      BY <2>3 DEF Next, ServerReads, Reply, ServerCloses, SetSrc, Start, Pause, SetPoster,
           Stop, ClearImage, StopFails,
           Draw, Request, Sent, SendFails, ReceiveFails, Timeout, PollFails, Present, socket, image
    <3> QED BY <2>1, <3>1
  <2> QED BY <2>2, <2>3
<1> QED BY <1>1, FrameInductive, PTL DEF Spec, FramesInOrder
================================================================================
