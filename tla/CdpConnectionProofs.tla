------------------------ MODULE CdpConnectionProofs ------------------------
(***************************************************************************)
(* What is proved of CdpConnection, for any threads and any number of      *)
(* requests.                                                               *)
(***************************************************************************)
EXTENDS CdpConnection, TLAPS

\* Ids are given out in order: whatever names a slot names one that was given out.
GivenInv ==
  /\ \A i \in pending \cup done : i <= nextId
  /\ \A d \in Drainers : \A i \in drain[d] : i <= nextId
  /\ \A w \in Workers : cur[w] <= nextId /\ (pc[w] # "idle" => cur[w] \in Ids)
  /\ reader = "settle" => hand.id <= nextId

\* What the reader is about to settle is an answer.
HandInv == reader \in {"dispatch", "settle"} => hand \in Frame /\ (reader = "settle" => Answers(hand))

\* Two calls under way have two ids.
CallersInv ==
  \A v, w \in Workers : pc[v] # "idle" /\ pc[w] # "idle" /\ cur[v] = cur[w] => v = w

\* A thread holds slots of a drain only while it fails them.
DrainInv ==
  /\ reader # "failing" => drain["reader"] = {}
  /\ \A c \in Closers : cpc[c] # "failing" => drain[c] = {}

\* A slot is in one place: in the table, with the reader, in one drain, or settled.
PlaceInv ==
  /\ OneOwner
  /\ pending \cap done = {}
  /\ reader = "settle" => hand.id \notin pending /\ hand.id \notin done

\* Nobody is forgotten, from the moment the request is in the table.
WaitInv ==
  \A w \in Workers :
    pc[w] \in {"send", "wait"} /\ cur[w] \notin done => InHand(cur[w]) \/ cur[w] \in spoiled

\* Who tears down has closed before, and has yet to drain.
ClosedInv == (tornDown => closed) /\ ClosedIsDrained

\* The inductive invariant.
IInv == TypeOK /\ GivenInv /\ HandInv /\ CallersInv /\ DrainInv /\ PlaceInv /\ WaitInv /\ ClosedInv

-----------------------------------------------------------------------------
(* Type correctness.                                                       *)

LEMMA FrameKind ==
  /\ \A f \in Frame : f.kind \in FrameKinds
  /\ \A f \in Frame : Answers(f) => f.id \in Ids
BY DEF Frame, FrameKinds, Answers


LEMMA InitIInv == Init => IInv
<1> SUFFICES ASSUME Init PROVE IInv
  OBVIOUS
<1> USE DEF Init
<1>1. TypeOK
  <2>1. nextId \in 0..MaxId /\ cur \in [Workers -> 0..MaxId]
    BY MaxIdAssumption
  <2>2. drain \in [Drainers -> SUBSET Ids]
    OBVIOUS
  <2>3. slot \in [Ids -> {"empty", "result", "error", "lost"}]
    OBVIOUS
  <2> QED
    BY <2>1, <2>2, <2>3 DEF TypeOK
<1>2. GivenInv /\ HandInv /\ CallersInv
  BY MaxIdAssumption DEF GivenInv, HandInv, CallersInv, Drainers
<1>3. DrainInv /\ PlaceInv
  BY DEF DrainInv, PlaceInv, OneOwner, Drainers
<1>4. WaitInv /\ ClosedInv
  BY DEF WaitInv, ClosedInv, ClosedIsDrained, InHand
<1> QED
  BY <1>1, <1>2, <1>3, <1>4 DEF IInv

LEMMA TypeStep ==
  ASSUME TypeOK, GivenInv, HandInv, Next
  PROVE  TypeOK'
<1> USE MaxIdAssumption DEF TypeOK, Ids, Drainers, connVars, workerVars, readerVars, closerVars, browserVars
<1>1. ASSUME NEW w \in Workers, Request(w)
      PROVE  TypeOK'
  BY <1>1 DEF Request
<1>2. ASSUME NEW w \in Workers, Send(w)
      PROVE  TypeOK'
  BY <1>2 DEF Send, GivenInv
<1>3. ASSUME NEW w \in Workers, SendFails(w) \/ Woken(w) \/ TimesOut(w)
      PROVE  TypeOK'
  BY <1>3 DEF SendFails, Woken, TimesOut
<1>4. ASSUME NEW w \in Workers, Drop(w)
      PROVE  TypeOK'
  BY <1>4 DEF Drop
<1>5. CASE Poll \/ Tick \/ ReceiveFails \/ ReaderEnds
  BY <1>5 DEF Poll, Tick, ReceiveFails, ReaderEnds, ReaderAt, AfterLoss
<1>6. CASE Receive
  BY <1>6 DEF Receive, ReaderAt
<1>7. CASE Pop
  BY <1>7 DEF Pop, Popped, ReaderAt
<1>8. CASE Ignore \/ Junk
  BY <1>8 DEF Ignore, Junk, ReaderAt
<1>9. CASE Settle
  BY <1>9, FrameKind DEF Settle, HandInv, ReaderAt
<1>10. CASE SettleFails
  BY <1>10, FrameKind DEF SettleFails, HandInv, ReaderAt
<1>11. CASE ReaderClaims
  BY <1>11 DEF ReaderClaims, Drained, ReaderAt
<1>12. CASE ReaderWakes
  BY <1>12 DEF ReaderWakes, Wake, LossOf
<1>13. ASSUME NEW c \in Closers, Close(c) \/ CloseTransport(c) \/ CloserEnds(c)
       PROVE  TypeOK'
  BY <1>13 DEF Close, CloseTransport, CloserEnds, CloserAt
<1>14. ASSUME NEW c \in Closers, CloserClaims(c)
       PROVE  TypeOK'
  BY <1>14 DEF CloserClaims, Drained, CloserAt
<1>15. ASSUME NEW c \in Closers, CloserWakes(c)
       PROVE  TypeOK'
  BY <1>15 DEF CloserWakes, Wake, LossOf
<1>16. ASSUME NEW i \in Ids, Answer(i)
       PROVE  TypeOK'
  BY <1>16 DEF Answer, Frame
<1>17. CASE Unsolicited
  BY <1>17 DEF Unsolicited, Frame
<1>18. CASE LoseConnection
  BY <1>18 DEF LoseConnection
<1> QED
  BY <1>1, <1>2, <1>3, <1>4, <1>5, <1>6, <1>7, <1>8, <1>9, <1>10, <1>11, <1>12, <1>13, <1>14, <1>15,
     <1>16, <1>17, <1>18
  DEF Next, Worker, Reader, Closer

-----------------------------------------------------------------------------
(* The conjuncts, one lemma each.                                          *)

LEMMA GivenStep ==
  ASSUME IInv, Next
  PROVE  GivenInv'
<1>t. TypeOK /\ TypeOK'
  BY TypeStep DEF IInv
<1> USE <1>t, MaxIdAssumption DEF IInv, TypeOK, Ids, Drainers, connVars, workerVars, readerVars, closerVars, browserVars
<1>1. ASSUME NEW w \in Workers, Request(w)
      PROVE  GivenInv'
  <2>1. nextId' = nextId + 1 /\ nextId' \in Ids
    BY <1>1 DEF Request
  <2>2. \A i \in pending' \cup done' : i <= nextId'
    BY <1>1, <2>1 DEF Request, GivenInv
  <2>3. \A v \in Workers : cur'[v] <= nextId' /\ (pc'[v] # "idle" => cur'[v] \in Ids)
    BY <1>1, <2>1 DEF Request, GivenInv
  <2>4. \A d \in Drainers : \A i \in drain'[d] : i <= nextId'
    BY <1>1, <2>1 DEF Request, GivenInv
  <2>5. reader' = "settle" => hand'.id <= nextId'
    <3> SUFFICES ASSUME reader = "settle" PROVE hand.id <= nextId'
      BY <1>1 DEF Request
    <3>1. hand.id \in Ids
      BY FrameKind DEF HandInv
    <3> QED
      BY <2>1, <3>1 DEF GivenInv
  <2> QED
    BY <2>2, <2>3, <2>4, <2>5 DEF GivenInv
<1>2. ASSUME NEW w \in Workers, Send(w) \/ SendFails(w) \/ Woken(w) \/ TimesOut(w) \/ Drop(w)
      PROVE  GivenInv'
  BY <1>2 DEF Send, SendFails, Woken, TimesOut, Drop, GivenInv
<1>3. CASE Poll \/ Tick \/ ReceiveFails \/ ReaderEnds \/ Receive \/ Ignore \/ Junk \/ SettleFails
  BY <1>3 DEF Poll, Tick, ReceiveFails, ReaderEnds, Receive, Ignore, Junk, SettleFails, ReaderAt, AfterLoss, GivenInv
<1>4. CASE Pop \/ Settle
  BY <1>4 DEF Pop, Popped, Settle, ReaderAt, GivenInv
<1>5. CASE ReaderClaims \/ ReaderWakes
  BY <1>5 DEF ReaderClaims, ReaderWakes, Drained, Wake, ReaderAt, GivenInv
<1>6. ASSUME NEW c \in Closers, Close(c) \/ CloseTransport(c) \/ CloserEnds(c) \/ CloserClaims(c) \/ CloserWakes(c)
      PROVE  GivenInv'
  BY <1>6 DEF Close, CloseTransport, CloserEnds, CloserClaims, CloserWakes, Drained, Wake, GivenInv
<1>7. CASE (\E i \in Ids : Answer(i)) \/ Unsolicited \/ LoseConnection
  BY <1>7 DEF Answer, Unsolicited, LoseConnection, GivenInv
<1> QED
  BY <1>1, <1>2, <1>3, <1>4, <1>5, <1>6, <1>7 DEF Next, Worker, Reader, Closer

LEMMA HandStep ==
  ASSUME IInv, Next
  PROVE  HandInv'
<1> USE DEF IInv, TypeOK, connVars, workerVars, readerVars, closerVars, browserVars
<1>1. ASSUME NEW w \in Workers, Request(w) \/ Send(w) \/ SendFails(w) \/ Woken(w) \/ TimesOut(w) \/ Drop(w)
      PROVE  HandInv'
  BY <1>1 DEF Request, Send, SendFails, Woken, TimesOut, Drop, HandInv, Answers
<1>2. CASE Receive
  BY <1>2 DEF Receive, HandInv, ReaderAt
<1>3. CASE Pop
  BY <1>3 DEF Pop, HandInv, ReaderAt, Answers
<1>4. CASE Poll \/ Tick \/ ReceiveFails \/ ReaderEnds \/ Ignore \/ Junk \/ Settle \/ SettleFails \/ ReaderClaims \/ ReaderWakes
  BY <1>4 DEF Poll, Tick, ReceiveFails, ReaderEnds, Ignore, Junk, Settle, SettleFails, ReaderClaims, ReaderWakes,
     ReaderAt, AfterLoss, HandInv
<1>5. ASSUME NEW c \in Closers, Close(c) \/ CloseTransport(c) \/ CloserEnds(c) \/ CloserClaims(c) \/ CloserWakes(c)
      PROVE  HandInv'
  BY <1>5 DEF Close, CloseTransport, CloserEnds, CloserClaims, CloserWakes, HandInv, Answers
<1>6. CASE (\E i \in Ids : Answer(i)) \/ Unsolicited \/ LoseConnection
  BY <1>6 DEF Answer, Unsolicited, LoseConnection, HandInv, Answers
<1> QED
  BY <1>1, <1>2, <1>3, <1>4, <1>5, <1>6 DEF Next, Worker, Reader, Closer

LEMMA CallersStep ==
  ASSUME IInv, Next
  PROVE  CallersInv'
<1> USE MaxIdAssumption DEF IInv, TypeOK, CallersInv, connVars, workerVars, readerVars, closerVars, browserVars
<1>1. ASSUME NEW w \in Workers, Request(w)
      PROVE  CallersInv'
  BY <1>1 DEF Request, GivenInv
<1>2. ASSUME NEW w \in Workers, Send(w) \/ SendFails(w) \/ Woken(w) \/ TimesOut(w) \/ Drop(w)
      PROVE  CallersInv'
  BY <1>2 DEF Send, SendFails, Woken, TimesOut, Drop
<1>3. CASE Reader
  BY <1>3 DEF Reader, Poll, Receive, Tick, ReceiveFails, Pop, Ignore, Junk, Settle, SettleFails, ReaderClaims,
     ReaderWakes, ReaderEnds
<1>4. ASSUME NEW c \in Closers, Close(c) \/ Closer(c)
      PROVE  CallersInv'
  BY <1>4 DEF Close, Closer, CloseTransport, CloserEnds, CloserClaims, CloserWakes
<1>5. CASE (\E i \in Ids : Answer(i)) \/ Unsolicited \/ LoseConnection
  BY <1>5 DEF Answer, Unsolicited, LoseConnection
<1> QED
  BY <1>1, <1>2, <1>3, <1>4, <1>5 DEF Next, Worker

LEMMA DrainStep ==
  ASSUME IInv, Next
  PROVE  DrainInv'
<1> USE ReaderAssumption DEF IInv, TypeOK, DrainInv, Drainers, connVars, workerVars, readerVars, closerVars, browserVars
<1>1. ASSUME NEW w \in Workers, Request(w) \/ Worker(w) \/ TimesOut(w)
      PROVE  DrainInv'
  BY <1>1 DEF Request, Worker, Send, SendFails, Woken, TimesOut, Drop
<1>2. CASE Poll \/ Receive \/ Tick \/ ReceiveFails \/ Pop \/ Ignore \/ Junk \/ Settle \/ SettleFails \/ ReaderEnds
  BY <1>2 DEF Poll, Receive, Tick, ReceiveFails, Pop, Ignore, Junk, Settle, SettleFails, ReaderEnds, ReaderAt
<1>3. CASE ReaderClaims
  BY <1>3 DEF ReaderClaims, ReaderAt
<1>4. CASE ReaderWakes
  BY <1>4 DEF ReaderWakes, Wake
<1>5. ASSUME NEW c \in Closers, Close(c) \/ CloseTransport(c) \/ CloserEnds(c)
      PROVE  DrainInv'
  BY <1>5 DEF Close, CloseTransport, CloserEnds, CloserAt
<1>6. ASSUME NEW c \in Closers, CloserClaims(c)
      PROVE  DrainInv'
  BY <1>6 DEF CloserClaims, CloserAt
<1>7. ASSUME NEW c \in Closers, CloserWakes(c)
      PROVE  DrainInv'
  BY <1>7 DEF CloserWakes, Wake
<1>8. CASE (\E i \in Ids : Answer(i)) \/ Unsolicited \/ LoseConnection
  BY <1>8 DEF Answer, Unsolicited, LoseConnection
<1> QED
  BY <1>1, <1>2, <1>3, <1>4, <1>5, <1>6, <1>7, <1>8 DEF Next, Reader, Closer

LEMMA PlaceStep ==
  ASSUME IInv, Next
  PROVE  PlaceInv'
<1>d. DrainInv
  BY DEF IInv
<1> USE ReaderAssumption, MaxIdAssumption DEF IInv, TypeOK, PlaceInv, OneOwner, connVars, workerVars, readerVars, closerVars, browserVars
<1>1. ASSUME NEW w \in Workers, Request(w)
      PROVE  PlaceInv'
  <2>1. nextId' \notin done /\ (reader = "settle" => hand.id # nextId')
          /\ \A d \in Drainers : nextId' \notin drain[d]
    BY <1>1 DEF Request, GivenInv, Ids
  <2> QED
    BY <1>1, <2>1 DEF Request
<1>2. ASSUME NEW w \in Workers, Send(w) \/ SendFails(w) \/ Woken(w) \/ TimesOut(w) \/ Drop(w)
      PROVE  PlaceInv'
  BY <1>2 DEF Send, SendFails, Woken, TimesOut, Drop
<1>3. CASE Poll \/ Tick \/ ReceiveFails \/ ReaderEnds \/ Receive \/ Ignore \/ Junk \/ SettleFails
  BY <1>3 DEF Poll, Tick, ReceiveFails, ReaderEnds, Receive, Ignore, Junk, SettleFails, ReaderAt, AfterLoss
<1>4. CASE Pop
  BY <1>4 DEF Pop, Popped, ReaderAt
<1>5. CASE Settle
  BY <1>5 DEF Settle, ReaderAt
<1>6. CASE ReaderClaims
  BY <1>6, <1>d DEF ReaderClaims, ReaderAt, Drained, DrainInv, Drainers
<1>7. CASE ReaderWakes
  BY <1>7 DEF ReaderWakes, Wake, Drainers
<1>8. ASSUME NEW c \in Closers, Close(c) \/ CloseTransport(c) \/ CloserEnds(c)
      PROVE  PlaceInv'
  BY <1>8 DEF Close, CloseTransport, CloserEnds
<1>9. ASSUME NEW c \in Closers, CloserClaims(c)
      PROVE  PlaceInv'
  BY <1>9, <1>d DEF CloserClaims, Drained, DrainInv, Drainers
<1>10. ASSUME NEW c \in Closers, CloserWakes(c)
      PROVE  PlaceInv'
  BY <1>10 DEF CloserWakes, Wake, Drainers
<1>11. CASE (\E i \in Ids : Answer(i)) \/ Unsolicited \/ LoseConnection
  BY <1>11 DEF Answer, Unsolicited, LoseConnection
<1> QED
  BY <1>1, <1>2, <1>3, <1>4, <1>5, <1>6, <1>7, <1>8, <1>9, <1>10, <1>11 DEF Next, Worker, Reader, Closer

LEMMA WaitStep ==
  ASSUME IInv, Next
  PROVE  WaitInv'
<1>d. DrainInv /\ CallersInv
  BY DEF IInv
<1> USE DEF IInv, TypeOK, WaitInv, InHand, connVars, workerVars, readerVars, closerVars, browserVars
<1>1. ASSUME NEW w \in Workers, Request(w)
      PROVE  WaitInv'
  BY <1>1 DEF Request
<1>2. ASSUME NEW w \in Workers, Send(w) \/ SendFails(w) \/ Woken(w) \/ TimesOut(w)
      PROVE  WaitInv'
  BY <1>2 DEF Send, SendFails, Woken, TimesOut
<1>3. ASSUME NEW w \in Workers, Drop(w)
      PROVE  WaitInv'
  BY <1>3, <1>d DEF Drop, CallersInv
<1>4. CASE Poll \/ Tick \/ ReceiveFails \/ ReaderEnds \/ Receive \/ Ignore \/ Junk
  BY <1>4 DEF Poll, Tick, ReceiveFails, ReaderEnds, Receive, Ignore, Junk, ReaderAt
<1>5. CASE Pop
  BY <1>5 DEF Pop, Popped, ReaderAt
<1>6. CASE Settle \/ SettleFails
  BY <1>6 DEF Settle, SettleFails, ReaderAt
<1>7. CASE ReaderClaims
  BY <1>7, <1>d DEF ReaderClaims, ReaderAt, Drained, DrainInv, Drainers
<1>8. CASE ReaderWakes
  BY <1>8 DEF ReaderWakes, Wake
<1>9. ASSUME NEW c \in Closers, Close(c) \/ CloseTransport(c) \/ CloserEnds(c)
      PROVE  WaitInv'
  BY <1>9 DEF Close, CloseTransport, CloserEnds
<1>10. ASSUME NEW c \in Closers, CloserClaims(c)
      PROVE  WaitInv'
  BY <1>10, <1>d DEF CloserClaims, Drained, DrainInv, Drainers
<1>11. ASSUME NEW c \in Closers, CloserWakes(c)
      PROVE  WaitInv'
  BY <1>11 DEF CloserWakes, Wake
<1>12. CASE (\E i \in Ids : Answer(i)) \/ Unsolicited \/ LoseConnection
  BY <1>12 DEF Answer, Unsolicited, LoseConnection
<1> QED
  BY <1>1, <1>2, <1>3, <1>4, <1>5, <1>6, <1>7, <1>8, <1>9, <1>10, <1>11, <1>12 DEF Next, Worker, Reader, Closer

LEMMA ClosedStep ==
  ASSUME IInv, Next
  PROVE  ClosedInv'
<1> USE DEF IInv, TypeOK, ClosedInv, ClosedIsDrained, connVars, workerVars, readerVars, closerVars, browserVars
<1>1. ASSUME NEW w \in Workers, Request(w) \/ Worker(w) \/ TimesOut(w)
      PROVE  ClosedInv'
  BY <1>1 DEF Request, Dead, Worker, Send, SendFails, Woken, TimesOut, Drop
<1>2. CASE Reader
  BY <1>2 DEF Reader, Poll, Receive, Tick, ReceiveFails, Pop, Popped, Ignore, Junk, Settle, SettleFails, ReaderClaims,
     ReaderWakes, ReaderEnds
<1>3. ASSUME NEW c \in Closers, Close(c)
      PROVE  ClosedInv'
  BY <1>3 DEF Close, CloserAt
<1>4. ASSUME NEW c \in Closers, Closer(c)
      PROVE  ClosedInv'
  BY <1>4 DEF Closer, CloserAt, CloseTransport, CloserEnds, CloserClaims, CloserWakes
<1>5. CASE (\E i \in Ids : Answer(i)) \/ Unsolicited \/ LoseConnection
  BY <1>5 DEF Answer, Unsolicited, LoseConnection
<1> QED
  BY <1>1, <1>2, <1>3, <1>4, <1>5 DEF Next

LEMMA StutterIInv ==
  ASSUME IInv, UNCHANGED vars
  PROVE  IInv'
<1> USE DEF IInv, vars, connVars, workerVars, readerVars, closerVars, browserVars
<1>1. TypeOK' /\ GivenInv' /\ HandInv'
  BY DEF TypeOK, GivenInv, HandInv, Answers
<1>2. CallersInv' /\ DrainInv'
  BY DEF CallersInv, DrainInv
<1>3. PlaceInv'
  BY DEF PlaceInv, OneOwner
<1>4. WaitInv' /\ ClosedInv'
  BY DEF WaitInv, InHand, ClosedInv, ClosedIsDrained
<1> QED
  BY <1>1, <1>2, <1>3, <1>4

LEMMA StepIInv == IInv /\ [Next]_vars => IInv'
<1>1. ASSUME IInv, Next
      PROVE  IInv'
  BY <1>1, TypeStep, GivenStep, HandStep, CallersStep, DrainStep, PlaceStep, WaitStep, ClosedStep DEF IInv
<1> QED
  BY <1>1, StutterIInv

\* The invariant that carries the theorems below: the id of every slot in use
\* was given out, and each is in one place only.
THEOREM Inductive == Spec => []IInv
BY InitIInv, StepIInv, PTL DEF Spec

-----------------------------------------------------------------------------
(* What the runs check.                                                    *)

\* Every variable of the connection keeps its type.
THEOREM TypeCorrect == Spec => []TypeOK
BY Inductive, PTL DEF IInv

\* A caller that waits is in somebody's hands: in the table, with the reader,
\* or in a drain, whatever requests, answers, timeouts and closes interleave.
THEOREM NobodyIsForgotten == Spec => []NobodyForgotten
<1>1. IInv => NobodyForgotten
  BY DEF IInv, WaitInv, NobodyForgotten
<1> QED
  BY <1>1, Inductive, PTL

\* A slot belongs to one thread at a time.
THEOREM SlotsHaveOneOwner == Spec => []OneOwner
<1>1. IInv => OneOwner
  BY DEF IInv, PlaceInv
<1> QED
  BY <1>1, Inductive, PTL

\* A closed connection that nobody is about to drain has an empty table.
THEOREM ClosedStaysDrained == Spec => []ClosedIsDrained
<1>1. IInv => ClosedIsDrained
  BY DEF IInv, ClosedInv
<1> QED
  BY <1>1, Inductive, PTL

\* What a caller was woken with is never overwritten: who settles a slot holds
\* it alone, and a settled slot is in nobody's hands.
THEOREM WokenOnce == Spec => SettledOnce
<1>1. ASSUME IInv, [Next]_vars
      PROVE  [\A i \in done : slot'[i] = slot[i]]_vars
  <2> SUFFICES ASSUME Next, NEW i \in done
               PROVE  slot'[i] = slot[i]
    BY <1>1
  <2> USE <1>1 DEF IInv, TypeOK, connVars, workerVars, readerVars, closerVars, browserVars
  <2>1. CASE Settle
    BY <2>1 DEF Settle, PlaceInv
  <2>2. CASE ReaderWakes
    BY <2>2 DEF ReaderWakes, Wake, PlaceInv, OneOwner, Drainers
  <2>3. ASSUME NEW c \in Closers, CloserWakes(c)
        PROVE  slot'[i] = slot[i]
    BY <2>3 DEF CloserWakes, Wake, PlaceInv, OneOwner, Drainers
  <2>4. ASSUME NEW w \in Workers, Request(w) \/ Worker(w) \/ TimesOut(w)
        PROVE  slot'[i] = slot[i]
    BY <2>4 DEF Request, Worker, Send, SendFails, Woken, TimesOut, Drop
  <2>5. CASE Poll \/ Receive \/ Tick \/ ReceiveFails \/ Pop \/ Ignore \/ Junk \/ SettleFails \/ ReaderClaims \/ ReaderEnds
    BY <2>5 DEF Poll, Receive, Tick, ReceiveFails, Pop, Ignore, Junk, SettleFails, ReaderClaims, ReaderEnds
  <2>6. ASSUME NEW c \in Closers, Close(c) \/ CloseTransport(c) \/ CloserClaims(c) \/ CloserEnds(c)
        PROVE  slot'[i] = slot[i]
    BY <2>6 DEF Close, CloseTransport, CloserEnds, CloserClaims
  <2>7. CASE (\E j \in Ids : Answer(j)) \/ Unsolicited \/ LoseConnection
    BY <2>7 DEF Answer, Unsolicited, LoseConnection
  <2> QED
    BY <2>1, <2>2, <2>3, <2>4, <2>5, <2>6, <2>7 DEF Next, Reader, Closer
<1> QED
  BY <1>1, Inductive, PTL DEF Spec, SettledOnce
=============================================================================
