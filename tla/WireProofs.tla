----------------------------- MODULE WireProofs -----------------------------
(***************************************************************************)
(* What is proved of DaemonPeers and of RemoteClient, as MCWire puts them  *)
(* together, for any requests, queue sizes and threads.                    *)
(***************************************************************************)
EXTENDS MCWire, FiniteSetTheorems, SequenceTheorems, TLAPS

-----------------------------------------------------------------------------
(* The daemon's peer: admissions.                                          *)

UnderWay == {q \in Requests : request[q] \in {"admitted", "answering", "replying"}}

\* The inductive invariant: only so many are under way as were admitted.
AdmissionInv ==
  /\ DOMAIN request = Requests /\ admission \in Nat /\ IsFiniteSet(UnderWay)
  /\ admission + Cardinality(UnderWay) = Slots

LEMMA AdmissionStep ==
  ASSUME AdmissionInv, [Peer!Next]_(Peer!peerVars)
  PROVE  AdmissionInv'
<1> USE SlotsAssumption DEF AdmissionInv
<1>c. Cardinality(UnderWay) \in Nat
  BY FS_CardinalityType
<1>1. ASSUME NEW q \in Requests, Peer!Read(q)
      PROVE  AdmissionInv'
  <2>1. CASE admission = 0
    <3>1. UnderWay' = UnderWay /\ admission' = admission
      BY <1>1, <2>1 DEF Peer!Read, UnderWay
    <3> QED
      BY <1>1, <2>1, <3>1 DEF Peer!Read
  <2>2. CASE admission # 0
    <3>1. UnderWay' = UnderWay \cup {q} /\ q \notin UnderWay /\ admission' = admission - 1 /\ admission' \in Nat
      BY <1>1, <2>2 DEF Peer!Read, UnderWay
    <3>2. IsFiniteSet(UnderWay') /\ Cardinality(UnderWay') = Cardinality(UnderWay) + 1
      BY <3>1, FS_AddElement
    <3> QED
      BY <1>1, <1>c, <2>2, <3>1, <3>2 DEF Peer!Read
  <2> QED
    BY <2>1, <2>2
<1>2. ASSUME NEW q \in Requests, Peer!Answer(q)
      PROVE  AdmissionInv'
  <2>1. CASE peerClosed
    <3>1. UnderWay' = UnderWay \ {q} /\ q \in UnderWay /\ admission' = admission + 1
      BY <1>2, <2>1 DEF Peer!Answer, UnderWay
    <3>2. IsFiniteSet(UnderWay') /\ Cardinality(UnderWay') = Cardinality(UnderWay) - 1
      BY <3>1, FS_RemoveElement
    <3> QED
      BY <1>2, <1>c, <2>1, <3>1, <3>2 DEF Peer!Answer
  <2>2. CASE ~peerClosed
    <3>1. UnderWay' = UnderWay /\ admission' = admission
      BY <1>2, <2>2 DEF Peer!Answer, UnderWay
    <3> QED
      BY <1>2, <2>2, <3>1 DEF Peer!Answer
  <2> QED
    BY <2>1, <2>2
<1>3. ASSUME NEW q \in Requests, Peer!Subscribe(q)
      PROVE  AdmissionInv'
  <2>1. UnderWay' = UnderWay /\ admission' = admission
    BY <1>3 DEF Peer!Subscribe, UnderWay
  <2> QED
    BY <1>3, <2>1 DEF Peer!Subscribe
<1>4. ASSUME NEW q \in Requests, Peer!Replies(q)
      PROVE  AdmissionInv'
  <2>1. UnderWay' = UnderWay \ {q} /\ q \in UnderWay /\ admission' = admission + 1
    BY <1>4 DEF Peer!Replies, UnderWay
  <2>2. IsFiniteSet(UnderWay') /\ Cardinality(UnderWay') = Cardinality(UnderWay) - 1
    BY <2>1, FS_RemoveElement
  <2> QED
    BY <1>4, <1>c, <2>1, <2>2 DEF Peer!Replies
<1>5. CASE UNCHANGED <<admission, request>>
  <2>1. UnderWay' = UnderWay
    BY <1>5 DEF UnderWay
  <2> QED
    BY <1>5, <2>1
<1>6. CASE Peer!Shutdown \/ Peer!Take \/ Peer!Broken \/ Peer!Written \/ Peer!Broadcast \/ Peer!Leaves
           \/ \E who \in Requests \cup {"reader", "refusal"} : Peer!Overflows(who)
  BY <1>5, <1>6 DEF Peer!Shutdown, Peer!Take, Peer!Broken, Peer!Written, Peer!Broadcast, Peer!Leaves, Peer!Overflows
<1>7. CASE UNCHANGED Peer!peerVars
  BY <1>5, <1>7 DEF Peer!peerVars
<1> QED
  BY <1>1, <1>2, <1>3, <1>4, <1>6, <1>7 DEF Peer!Next

\* Every admission is given back, whichever way a request ends: the ones that
\* are out belong to requests under way, and there are never more than Slots.  (Needs
\* none of the fairness of the peer.)
THEOREM AdmissionsComeBack == Peer!Init /\ [][Peer!Next]_(Peer!peerVars) => []AdmissionIsBack
<1>1. Peer!Init => AdmissionInv
  <2> SUFFICES ASSUME Peer!Init
               PROVE  AdmissionInv
    OBVIOUS
  <2>1. UnderWay = {}
    BY DEF Peer!Init, UnderWay
  <2> QED
    BY <2>1, SlotsAssumption, FS_EmptySet
    DEF Peer!Init, AdmissionInv
<1>2. AdmissionInv => AdmissionIsBack
  <2>1. AdmissionInv => admission + Cardinality(UnderWay) = Slots
    BY DEF AdmissionInv
  <2> QED
    BY <2>1 DEF UnderWay, AdmissionIsBack, Peer!AdmissionIsBack, Peer!Cardinality, Cardinality
<1> QED
  BY <1>1, <1>2, AdmissionStep, PTL

-----------------------------------------------------------------------------
(* The daemon's peer: its stream of events.                                *)

PeerFrames == {Peer!Event(n) : n \in Nat} \cup {Peer!Reply(q) : q \in Requests} \cup {Peer!Stop}

\* What the client has got, what is being written to it and what waits, in order.
Handed == IF writing = "send" THEN Append(received, frame) ELSE received
Stream == Handed \o outbound

\* The last event of s is the browser's n-th.
EndsAt(s, n) ==
  \A i \in DOMAIN s :
    Peer!IsEvent(s[i]) /\ (\A k \in DOMAIN s : i < k => ~Peer!IsEvent(s[k])) => s[i][2] = n

StreamType ==
  /\ received \in Seq(PeerFrames) /\ outbound \in Seq(PeerFrames)
  /\ writing = "send" => frame \in PeerFrames
  /\ news \in Nat

\* The writer ends, or is told to, only when the peer is closed.
StopInv ==
  /\ writing = "ended" => peerClosed
  /\ \A i \in DOMAIN outbound : outbound[i] = Peer!Stop => peerClosed

\* Nothing is missing from the stream; while a peer is served and its last
\* event fitted, a peer that has been sent one is listed, and is up to date.
StreamInv ==
  /\ NoGap
  /\ writing # "ended" => Peer!Consecutive(Stream)
  /\ ~peerClosed /\ "reader" \notin overflowed =>
       /\ (\E i \in DOMAIN Stream : Peer!IsEvent(Stream[i])) => listed
       /\ EndsAt(Stream, news)

PeerInv == StreamType /\ StopInv /\ StreamInv

LEMMA FrameShapes ==
  /\ \A n \in Nat : Peer!Event(n) \in PeerFrames /\ Peer!IsEvent(Peer!Event(n)) /\ Peer!Event(n)[2] = n
                    /\ Peer!Event(n) # Peer!Stop
  /\ \A q \in Requests : Peer!Reply(q) \in PeerFrames /\ ~Peer!IsEvent(Peer!Reply(q)) /\ Peer!Reply(q) # Peer!Stop
  /\ Peer!Stop \in PeerFrames /\ ~Peer!IsEvent(Peer!Stop)
BY DEF PeerFrames, Peer!Event, Peer!Reply, Peer!Stop, Peer!IsEvent

\* A frame at the end: an event has to be the next one.
LEMMA AppendConsecutive ==
  ASSUME NEW s \in Seq(PeerFrames), NEW f \in PeerFrames, NEW n \in Nat, Peer!Consecutive(s),
         Peer!IsEvent(f) => EndsAt(s, n) /\ f[2] = n + 1
  PROVE  /\ Peer!Consecutive(Append(s, f))
         /\ Peer!IsEvent(f) => EndsAt(Append(s, f), n + 1)
         /\ ~Peer!IsEvent(f) /\ EndsAt(s, n) => EndsAt(Append(s, f), n)
<1> DEFINE t == Append(s, f)
<1>1. /\ Len(s) \in Nat /\ DOMAIN s = 1..Len(s) /\ DOMAIN t = 1..(Len(s) + 1)
      /\ \A i \in 1..Len(s) : t[i] = s[i]
      /\ t[Len(s) + 1] = f
  OBVIOUS
<1> HIDE DEF t
<1>2. Peer!Consecutive(t)
  <2> SUFFICES ASSUME NEW i \in DOMAIN t, NEW j \in DOMAIN t, i < j, Peer!IsEvent(t[i]), Peer!IsEvent(t[j]),
                      \A k \in DOMAIN t : i < k /\ k < j => ~Peer!IsEvent(t[k])
               PROVE  t[j][2] = t[i][2] + 1
    BY DEF Peer!Consecutive
  <2>1. CASE j \in DOMAIN s
    BY <1>1, <2>1 DEF Peer!Consecutive
  <2>2. CASE j = Len(s) + 1
    <3>1. i \in DOMAIN s /\ t[i] = s[i] /\ t[j] = f
      BY <1>1, <2>2
    <3>2. \A k \in DOMAIN s : i < k => ~Peer!IsEvent(s[k])
      BY <1>1, <2>2
    <3>3. s[i][2] = n
      BY <3>1, <3>2 DEF EndsAt
    <3> QED
      BY <3>1, <3>3
  <2> QED
    BY <1>1, <2>1, <2>2
<1>3. Peer!IsEvent(f) => EndsAt(t, n + 1)
  BY <1>1 DEF EndsAt
<1>4. ~Peer!IsEvent(f) /\ EndsAt(s, n) => EndsAt(t, n)
  BY <1>1 DEF EndsAt
<1> QED
  BY <1>2, <1>3, <1>4 DEF t

LEMMA PrefixConsecutive ==
  ASSUME NEW s \in Seq(PeerFrames), NEW t \in Seq(PeerFrames), Peer!Consecutive(s \o t)
  PROVE  Peer!Consecutive(s)
<1>1. /\ Len(s) \in Nat /\ Len(t) \in Nat /\ DOMAIN s = 1..Len(s) /\ DOMAIN (s \o t) = 1..(Len(s) + Len(t))
      /\ \A i \in 1..Len(s) : (s \o t)[i] = s[i]
  BY ConcatProperties
<1> QED
  BY <1>1 DEF Peer!Consecutive

LEMMA StreamIsSeq == StreamType => Handed \in Seq(PeerFrames) /\ Stream \in Seq(PeerFrames)
BY DEF StreamType, Handed, Stream

LEMMA StreamAppend ==
  ASSUME StreamType, NEW f \in PeerFrames, outbound' = Append(outbound, f),
         UNCHANGED <<received, writing, frame>>
  PROVE  Stream' = Append(Stream, f) /\ (news' \in Nat => StreamType')
<1>1. Stream' = Handed \o (outbound \o <<f>>)
  BY AppendIsConcat DEF Stream, Handed, StreamType
<1>2. Stream' = (Handed \o outbound) \o <<f>>
  BY <1>1, StreamIsSeq, ConcatAssociative DEF StreamType
<1>3. Stream' = Append(Stream, f)
  BY <1>2, StreamIsSeq, AppendIsConcat DEF Stream
<1> QED
  BY <1>3 DEF StreamType

\* A reply, or the word to stop, changes nothing about the events.
LEMMA QuietFrame ==
  ASSUME PeerInv, NEW f \in PeerFrames, ~Peer!IsEvent(f), f = Peer!Stop => peerClosed',
         outbound' = Append(outbound, f),
         UNCHANGED <<received, writing, frame, news>>, peerClosed => peerClosed',
         peerClosed' \/ UNCHANGED <<overflowed, listed>>
  PROVE  PeerInv'
<1>t. StreamType /\ StreamType' /\ Stream \in Seq(PeerFrames) /\ Stream' = Append(Stream, f)
  BY StreamAppend, StreamIsSeq DEF PeerInv, StreamType
<1>1. StopInv'
  <2>1. \A i \in DOMAIN outbound' : outbound'[i] = Peer!Stop => peerClosed'
    BY <1>t DEF StreamType, PeerInv, StopInv
  <2> QED
    BY <2>1 DEF PeerInv, StopInv
<1>2. writing # "ended" => Peer!Consecutive(Stream')
  BY <1>t, AppendConsecutive DEF PeerInv, StreamInv, StreamType
<1>3. NoGap'
  BY DEF PeerInv, StreamInv, NoGap, Peer!NoGap, Peer!Consecutive, Peer!IsEvent
<1>4. ASSUME ~peerClosed', "reader" \notin overflowed'
      PROVE  EndsAt(Stream', news') /\ ((\E i \in DOMAIN Stream' : Peer!IsEvent(Stream'[i])) => listed')
  <2>1. EndsAt(Stream, news) /\ ((\E i \in DOMAIN Stream : Peer!IsEvent(Stream[i])) => listed) /\ writing # "ended"
    BY <1>4 DEF PeerInv, StreamInv, StopInv
  <2>2. EndsAt(Stream', news')
    BY <1>t, <2>1, AppendConsecutive DEF PeerInv, StreamInv, StreamType
  <2>3. (\E i \in DOMAIN Stream' : Peer!IsEvent(Stream'[i])) => \E i \in DOMAIN Stream : Peer!IsEvent(Stream[i])
    BY <1>t
  <2> QED
    BY <1>4, <2>1, <2>2, <2>3
<1> QED
  BY <1>t, <1>1, <1>2, <1>3, <1>4 DEF PeerInv, StreamInv

\* Nothing said: who else closed it, or found no room.
LEMMA NothingSaid ==
  ASSUME PeerInv, UNCHANGED <<outbound, received, writing, frame, news>>,
         peerClosed => peerClosed', overflowed \subseteq overflowed' \/ peerClosed',
         listed => listed' \/ peerClosed'
  PROVE  PeerInv'
<1>1. StreamType' /\ StopInv' /\ Stream' = Stream
  BY DEF PeerInv, StreamType, StopInv, Stream, Handed
<1>2. NoGap'
  BY DEF PeerInv, StreamInv, NoGap, Peer!NoGap, Peer!Consecutive, Peer!IsEvent
<1> QED
  BY <1>1, <1>2 DEF PeerInv, StreamInv

LEMMA SaidQuietly ==
  ASSUME PeerInv, NEW who, NEW q \in Requests, Peer!Send(Peer!Reply(q), who),
         UNCHANGED <<received, writing, frame, news, listed, peerClosed>>
  PROVE  PeerInv'
<1>1. CASE UNCHANGED outbound
  BY <1>1, NothingSaid DEF Peer!Send, Peer!queueVars
<1>2. CASE outbound' = Append(outbound, Peer!Reply(q)) /\ UNCHANGED overflowed
  BY <1>2, QuietFrame, FrameShapes
<1> QED
  BY <1>1, <1>2 DEF Peer!Send, Peer!queueVars

LEMMA ClosedQuietly ==
  ASSUME PeerInv, Peer!Close, UNCHANGED <<received, writing, frame, news>>
  PROVE  PeerInv'
<1>1. CASE UNCHANGED outbound
  BY <1>1, NothingSaid DEF Peer!Close
<1>2. CASE outbound' = Append(outbound, Peer!Stop)
  BY <1>2, QuietFrame, FrameShapes DEF Peer!Close
<1> QED
  BY <1>1, <1>2 DEF Peer!Close

LEMMA BroadcastStep ==
  ASSUME PeerInv, Peer!Broadcast
  PROVE  PeerInv'
<1>n. news \in Nat /\ news' = news + 1 /\ "reader" \notin overflowed
  BY DEF Peer!Broadcast, PeerInv, StreamType
<1>g. NoGap'
  BY DEF PeerInv, StreamInv, NoGap, Peer!NoGap, Peer!Consecutive, Peer!IsEvent, Peer!Broadcast, Peer!writerVars
<1>1. CASE UNCHANGED outbound
  <2>1. StreamType' /\ StopInv' /\ Stream' = Stream
    BY <1>n, <1>1 DEF PeerInv, StreamType, StopInv, Stream, Handed, Peer!Broadcast, Peer!writerVars
  <2>2. peerClosed' \/ "reader" \in overflowed' \/ ~listed
    BY <1>1 DEF Peer!Broadcast, Peer!Send, Peer!queueVars, PeerInv, StreamType
  <2>3. ASSUME ~peerClosed', "reader" \notin overflowed'
        PROVE  ~(\E i \in DOMAIN Stream : Peer!IsEvent(Stream[i]))
    BY <1>n, <2>2, <2>3 DEF Peer!Broadcast, PeerInv, StreamInv
  <2> QED
    BY <1>g, <2>1, <2>3 DEF PeerInv, StreamInv, EndsAt, Peer!Broadcast, Peer!writerVars
<1>2. CASE ~(UNCHANGED outbound)
  <2> DEFINE f == Peer!Event(news + 1)
  <2>1. /\ ~peerClosed /\ listed /\ listed' /\ ~peerClosed' /\ UNCHANGED <<received, writing, frame, overflowed>>
        /\ outbound' = Append(outbound, f)
    BY <1>n, <1>2 DEF Peer!Broadcast, Peer!Send, Peer!queueVars, Peer!writerVars
  <2>2. f \in PeerFrames /\ Peer!IsEvent(f) /\ f[2] = news + 1 /\ f # Peer!Stop
    BY <1>n, FrameShapes
  <2> HIDE DEF f
  <2>3. Stream' = Append(Stream, f) /\ StreamType' /\ Stream \in Seq(PeerFrames)
    BY <1>n, <2>1, <2>2, StreamAppend, StreamIsSeq DEF PeerInv
  <2>4. writing # "ended" /\ Peer!Consecutive(Stream) /\ EndsAt(Stream, news)
    BY <1>n, <2>1 DEF PeerInv, StreamInv, StopInv
  <2>5. Peer!Consecutive(Stream') /\ EndsAt(Stream', news')
    BY <1>n, <2>2, <2>3, <2>4, AppendConsecutive
  <2>6. StopInv'
    BY <2>1, <2>2 DEF PeerInv, StreamType, StopInv
  <2> QED
    BY <1>g, <2>1, <2>3, <2>5, <2>6 DEF PeerInv, StreamInv
<1> QED
  BY <1>1, <1>2

\* The writer moves a frame along the stream, or ends.
LEMMA TakeStep ==
  ASSUME PeerInv, Peer!Take
  PROVE  PeerInv'
<1>g. NoGap' /\ received' = received /\ news' = news /\ peerClosed' = peerClosed
      /\ overflowed' = overflowed /\ listed' = listed /\ writing = "get"
  BY DEF PeerInv, StreamInv, NoGap, Peer!NoGap, Peer!Consecutive, Peer!IsEvent, Peer!Take
<1>1. CASE writing' = "ended"
  <2>1. outbound' = outbound \/ (outbound # <<>> /\ outbound' = Tail(outbound))
    BY <1>1 DEF Peer!Take
  <2>2. outbound' \in Seq(PeerFrames)
        /\ \A i \in DOMAIN outbound' : \E j \in DOMAIN outbound : outbound'[i] = outbound[j]
    BY <2>1 DEF PeerInv, StreamType
  <2>3. peerClosed
    BY <1>1 DEF Peer!Take, PeerInv, StopInv, StreamType
  <2> QED
    BY <1>g, <1>1, <2>2, <2>3 DEF PeerInv, StreamType, StopInv, StreamInv
<1>2. CASE writing' # "ended"
  <2>1. /\ outbound # <<>> /\ outbound' = Tail(outbound) /\ writing' = "send" /\ frame' = Head(outbound)
    BY <1>2 DEF Peer!Take
  <2>2. /\ Head(outbound) \in PeerFrames /\ Tail(outbound) \in Seq(PeerFrames)
        /\ outbound = <<Head(outbound)>> \o Tail(outbound)
    BY <2>1 DEF PeerInv, StreamType
  <2>3. Stream' = (received \o <<Head(outbound)>>) \o Tail(outbound)
    BY <1>g, <2>1, <2>2, AppendIsConcat DEF Stream, Handed, PeerInv, StreamType
  <2>4. Stream' = received \o (<<Head(outbound)>> \o Tail(outbound))
    BY <2>2, <2>3, ConcatAssociative DEF PeerInv, StreamType
  <2>5. Stream' = Stream
    BY <1>g, <2>2, <2>4 DEF Stream, Handed
  <2>6. StreamType' /\ StopInv'
    BY <1>g, <2>1, <2>2 DEF PeerInv, StreamType, StopInv
  <2> QED
    BY <1>g, <2>1, <2>5, <2>6 DEF PeerInv, StreamInv
<1> QED
  BY <1>1, <1>2

LEMMA WrittenStep ==
  ASSUME PeerInv, Peer!Written
  PROVE  PeerInv'
<1>1. /\ writing = "send" /\ writing' = "get" /\ received' = Append(received, frame)
      /\ UNCHANGED <<outbound, overflowed, peerClosed, listed, news>>
  BY DEF Peer!Written
<1>2. Stream' = Stream /\ received' = Handed
  BY <1>1 DEF Stream, Handed
<1>3. StreamType' /\ StopInv'
  BY <1>1 DEF PeerInv, StreamType, StopInv
<1>4. Peer!Consecutive(Handed)
  BY <1>1, PrefixConsecutive, StreamIsSeq DEF PeerInv, StreamInv, StreamType, Stream
<1>5. NoGap'
  BY <1>2, <1>4 DEF NoGap, Peer!NoGap, Peer!Consecutive, Peer!IsEvent
<1> QED
  BY <1>1, <1>2, <1>3, <1>5 DEF PeerInv, StreamInv

LEMMA BrokenStep ==
  ASSUME PeerInv, Peer!Broken
  PROVE  PeerInv'
<1>1. writing' = "ended" /\ peerClosed' /\ UNCHANGED <<received, news>>
  BY DEF Peer!Broken, Peer!Close
<1>2. NoGap'
  BY <1>1 DEF PeerInv, StreamInv, NoGap, Peer!NoGap, Peer!Consecutive, Peer!IsEvent
<1>3. outbound' \in Seq(PeerFrames)
  BY FrameShapes DEF Peer!Broken, Peer!Close, PeerInv, StreamType
<1> QED
  BY <1>1, <1>2, <1>3 DEF PeerInv, StreamType, StopInv, StreamInv

LEMMA StreamStep ==
  ASSUME PeerInv, [Peer!Next]_(Peer!peerVars)
  PROVE  PeerInv'
<1>1. ASSUME NEW q \in Requests, Peer!Read(q) \/ Peer!Answer(q) \/ Peer!Subscribe(q) \/ Peer!Replies(q)
      PROVE  PeerInv'
  <2>1. CASE Peer!Replies(q) \/ (Peer!Read(q) /\ admission = 0)
    BY <2>1, SaidQuietly DEF Peer!Replies, Peer!Read, Peer!writerVars
  <2>2. CASE Peer!Answer(q) \/ (Peer!Read(q) /\ admission # 0)
    BY <2>2, NothingSaid DEF Peer!Answer, Peer!Read, Peer!writerVars, Peer!queueVars
  <2>3. CASE Peer!Subscribe(q)
    <3>1. /\ UNCHANGED <<outbound, received, writing, frame, news, peerClosed, overflowed>>
          /\ listed' = listed \/ listed' = TRUE
      BY <2>3 DEF Peer!Subscribe, Peer!writerVars, Peer!queueVars
    <3> QED
      BY <3>1, NothingSaid
  <2> QED
    BY <1>1, <2>1, <2>2, <2>3
<1>2. CASE Peer!Leaves \/ \E who \in Requests \cup {"reader", "refusal"} : Peer!Overflows(who)
  BY <1>2, ClosedQuietly DEF Peer!Leaves, Peer!Overflows, Peer!writerVars
<1>3. CASE Peer!Shutdown \/ UNCHANGED Peer!peerVars
  BY <1>3, NothingSaid DEF Peer!Shutdown, Peer!peerVars, Peer!writerVars, Peer!queueVars
<1> QED
  BY <1>1, <1>2, <1>3, BroadcastStep, TakeStep, WrittenStep, BrokenStep DEF Peer!Next

\* What the client has got of the browser's events has no gap: a client that is
\* too slow is cut off before it misses one.
THEOREM EventsHaveNoGap == Peer!Init /\ [][Peer!Next]_(Peer!peerVars) => []NoGap
<1>1. Peer!Init => PeerInv
  BY DEF Peer!Init, PeerInv, StreamType, StopInv, StreamInv, Stream, Handed, NoGap, Peer!NoGap, Peer!Consecutive, EndsAt
<1>2. PeerInv => NoGap
  BY DEF PeerInv, StreamInv
<1> QED
  BY <1>1, <1>2, StreamStep, PTL

-----------------------------------------------------------------------------
(* The client: whose answer it is, and why a call failed.                  *)

\* A slot is filled from a reply of its own, and only while its call is pending.
AnswerInv ==
  /\ clientPending \subseteq Client!Rids
  /\ lastRid \in 0..MaxCalls
  /\ clientSlot = [r \in Client!Rids |-> clientSlot[r]]
  /\ AnswersItsOwn

\* Once the reader has said why the connection died, it reads no more.
CauseInv ==
  /\ failure # None => cause = failure /\ pump \in {"drain", "close", "ended"}
  /\ outcome = [c \in Callers |-> outcome[c]]

LEMMA AnswerStep ==
  ASSUME AnswerInv, [Client!Next]_(Client!vars)
  PROVE  AnswerInv'
<1> USE CallsAssumption DEF AnswerInv, AnswersItsOwn, Client!AnswersItsOwn, Client!clientVars
<1>1. ASSUME NEW c \in Callers, Client!Call(c)
      PROVE  AnswerInv'
  BY <1>1 DEF Client!Call, Client!Rids
<1>2. ASSUME NEW c \in Callers,
             Client!CallRefused(c) \/ Client!SendFails(c) \/ Client!TimesOut(c) \/ Client!Raised(c) \/ Client!Store(c)
      PROVE  AnswerInv'
  BY <1>2 DEF Client!CallRefused, Client!SendFails, Client!TimesOut, Client!Raised, Client!Store, Client!Ends,
     Client!Empty
<1>3. ASSUME NEW c \in Callers, Client!Send(c) \/ Client!WaitEnds(c)
      PROVE  AnswerInv'
  BY <1>3 DEF Client!Send, Client!WaitEnds
<1>4. ASSUME NEW c \in Callers, Client!Answered(c)
      PROVE  AnswerInv'
  BY <1>4 DEF Client!Answered, Client!Ends, Client!Empty
<1>5. CASE Client!OnReply
  BY <1>5 DEF Client!OnReply
<1>6. CASE Client!FailAll
  BY <1>6 DEF Client!FailAll, Client!Empty
<1>7. CASE UNCHANGED <<clientPending, lastRid, clientSlot>>
  BY <1>7
<1>8. CASE Client!Check \/ Client!Recv \/ Client!RecvFails \/ Client!OnEvent \/ Client!OnGarbage \/ Client!Hangup
           \/ Client!Daemon
  BY <1>7, <1>8 DEF Client!Check, Client!Recv, Client!RecvFails, Client!OnEvent, Client!OnGarbage, Client!Hangup,
     Client!Daemon, Client!Choose, Client!Serve, Client!SessionDies, Client!Garble, Client!DaemonLeaves
<1>9. CASE Client!Forget \/ Client!Close \/ Client!CloseSocket \/ UNCHANGED Client!vars
  BY <1>7, <1>9 DEF Client!Forget, Client!Close, Client!CloseSocket, Client!vars
<1> QED
  BY <1>1, <1>2, <1>3, <1>4, <1>5, <1>6, <1>8, <1>9 DEF Client!Next, Client!Caller, Client!Pump

\* Whatever is late, repeated or overtaken: a call is given the answer to its
\* own request.
THEOREM AnswersAreOnesOwn == Client!Spec => []AnswersItsOwn
<1>1. Client!Init => AnswerInv
  BY CallsAssumption DEF Client!Init, AnswerInv, AnswersItsOwn, Client!AnswersItsOwn, Client!Empty
<1>2. AnswerInv => AnswersItsOwn
  BY DEF AnswerInv
<1> QED
  BY <1>1, <1>2, AnswerStep, PTL DEF Client!Spec

LEMMA CauseStep ==
  ASSUME CauseInv, [Client!Next]_(Client!vars)
  PROVE  CauseInv'
<1> USE DEF CauseInv, Client!clientVars, Client!readerVars, Client!callerVars
<1>1. ASSUME NEW c \in Callers, Client!Caller(c)
      PROVE  CauseInv'
  BY <1>1 DEF Client!Caller, Client!Call, Client!CallRefused, Client!Send, Client!SendFails, Client!WaitEnds,
     Client!TimesOut, Client!Raised, Client!Answered, Client!Store, Client!Ends
<1>2. CASE Client!Pump
  BY <1>2 DEF Client!Pump, Client!Check, Client!Recv, Client!RecvFails, Client!Die, Client!OnEvent, Client!OnReply,
     Client!Next1, Client!OnGarbage, Client!FailAll, Client!Hangup
<1>3. CASE Client!Daemon \/ Client!Forget \/ Client!Close \/ Client!CloseSocket \/ UNCHANGED Client!vars
  BY <1>3 DEF Client!Daemon, Client!Choose, Client!Serve, Client!SessionDies, Client!Garble, Client!DaemonLeaves,
     Client!Forget, Client!Close, Client!CloseSocket, Client!vars
<1> QED
  BY <1>1, <1>2, <1>3 DEF Client!Next

\* A call that fails once the reader has said why the connection died is told
\* just that.
THEOREM CauseReachesTheCaller == Client!Spec => Client!CauseIsKept
<1> DEFINE Kept == \A c \in Callers : outcome'[c] \notin {outcome[c], None} /\ failure # None => outcome'[c] = failure
<1>1. Client!Init => CauseInv
  BY DEF Client!Init, CauseInv
<1>2. CauseInv /\ [Client!Next]_(Client!vars) => [Kept]_(Client!vars)
  <2> SUFFICES ASSUME CauseInv, Client!Next, NEW c \in Callers, outcome'[c] \notin {outcome[c], None}, failure # None
               PROVE  outcome'[c] = failure
    OBVIOUS
  <2> USE DEF CauseInv, Client!callerVars
  <2>1. ASSUME NEW t \in Callers, Client!Caller(t)
        PROVE  outcome'[c] = failure
    BY <2>1 DEF Client!Caller, Client!Call, Client!CallRefused, Client!Send, Client!SendFails, Client!WaitEnds,
       Client!TimesOut, Client!Raised, Client!Answered, Client!Store, Client!Ends
  <2>2. outcome' # outcome
    OBVIOUS
  <2>3. ~(Client!Pump \/ Client!Daemon \/ Client!Forget \/ Client!Close \/ Client!CloseSocket)
    BY <2>2 DEF Client!Pump, Client!Check, Client!Recv, Client!RecvFails, Client!OnEvent, Client!OnReply,
     Client!OnGarbage, Client!FailAll, Client!Hangup, Client!Daemon, Client!Choose, Client!Serve, Client!SessionDies,
     Client!Garble, Client!DaemonLeaves, Client!Forget, Client!Close, Client!CloseSocket
  <2> QED
    BY <2>1, <2>3 DEF Client!Next
<1> QED
  BY <1>1, <1>2, CauseStep, PTL DEF Client!Spec, Client!CauseIsKept

-----------------------------------------------------------------------------
(* The three ends side by side.                                            *)

\* A step of one end is a stutter of each other.
LEMMA EndsStep ==
  ASSUME [WireNext]_<<part, vars, clientAll, peerAll>>
  PROVE  [Next]_vars /\ [Client!Next]_(Client!vars) /\ [Peer!Next]_(Peer!peerVars)
<1> USE DEF clientAll, peerAll, Client!vars, Client!clientVars, Client!readerVars, Client!callerVars,
            Client!daemonVars, Peer!peerVars
<1>1. CASE Browsers
  BY <1>1 DEF Browsers
<1>2. CASE Clients
  BY <1>2 DEF Clients
<1>3. CASE Peers
  BY <1>3 DEF Peers
<1>4. CASE UNCHANGED <<part, vars, clientAll, peerAll>>
  BY <1>4
<1> QED
  BY <1>1, <1>2, <1>3, <1>4 DEF WireNext

\* Whatever is said above of the client and of the peer, and in CdpConnectionProofs of the
\* connection, holds where the three are put side by side, as the run wire checks them.
THEOREM SideBySide == WireSpec => Spec /\ []AnswersItsOwn /\ []NoGap /\ []AdmissionIsBack
<1> DEFINE all == <<part, vars, clientAll, peerAll>>
<1>1. WireInit => Init /\ Client!Init /\ Peer!Init
  BY DEF WireInit
<1>2. [WireNext]_all => [Next]_vars
  BY EndsStep
<1>3. [WireNext]_all => [Client!Next]_(Client!vars)
  BY EndsStep
<1>4. [WireNext]_all => [Peer!Next]_(Peer!peerVars)
  BY EndsStep
<1>5. WireSpec => WireInit /\ [][WireNext]_all
  BY PTL DEF WireSpec
<1> HIDE DEF all
<1>6. WireSpec => Spec
  BY <1>1, <1>2, <1>5, PTL DEF Spec
<1>7. WireSpec => []AnswersItsOwn
  BY <1>1, <1>3, <1>5, AnswersAreOnesOwn, PTL DEF Client!Spec
<1>8. WireSpec => []NoGap
  BY <1>1, <1>4, <1>5, EventsHaveNoGap, PTL
<1>9. WireSpec => []AdmissionIsBack
  BY <1>1, <1>4, <1>5, AdmissionsComeBack, PTL
<1> QED
  BY <1>6, <1>7, <1>8, <1>9

=============================================================================
