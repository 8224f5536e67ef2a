------------------------- MODULE TargetBrokerProofs -------------------------
(***************************************************************************)
(* What is proved of TargetBroker, for any number of clients, handlers,    *)
(* tabs and lease tokens: it implements TabReservations, and its tables    *)
(* stay consistent.                                                        *)
(***************************************************************************)
EXTENDS TargetBroker, TLAPS

\* A message has the shape its kind says.
LEMMA MessageShape ==
  ASSUME NEW m \in Message
  PROVE  /\ m.kind = "reply" => m.to \in Handlers /\ m.targets \subseteq Targets
         /\ m.kind # "reply" => m.tgt \in Targets
BY DEF Message

\* A request on a lease carries one, and only such a request looks one up.
LeaseHeld ==
  \A h \in Handlers :
    /\ op[h] \in {"lease_claim", "lease_release"} => lease[h] \in Leases
    /\ pc[h] \in {"claim", "drop"} => op[h] \in {"lease_claim", "lease_release"}

\* A request that is being served is some client's.
PeerHeld ==
  \A h \in Handlers : pc[h] # "idle" => peer[h] \in Peers

\* The two halves of a client's end come in order.
CleanedClosed == cleaned \subseteq closed

\* The inductive invariant.
IInv ==
  /\ TypeOK
  /\ LeaseHeld /\ PeerHeld
  /\ CleanedClosed /\ GoneHoldsNothing
  /\ LeaseTablesAgree

-----------------------------------------------------------------------------
(* Type correctness.                                                       *)

LEMMA TypeRequest ==
  ASSUME TypeOK, NEW h \in Handlers, BeginAdopt(h) \/ BeginOnTarget(h) \/ BeginOnLease(h)
  PROVE  TypeOK'
<1>1. CASE BeginAdopt(h)
  BY <1>1 DEF TypeOK, BeginAdopt, Goto, brokerVars, peerVars, Ops
<1>2. CASE BeginOnTarget(h)
  BY <1>2 DEF TypeOK, BeginOnTarget, Goto, brokerVars, peerVars, Ops
<1>3. CASE BeginOnLease(h)
  BY <1>3 DEF TypeOK, BeginOnLease, Goto, brokerVars, peerVars, Ops
<1> QED
  BY <1>1, <1>2, <1>3

LEMMA ReservedTyped ==
  ASSUME TypeOK, NEW h \in Handlers, NEW t \in Targets
  PROVE  Reserved(h, t) \in [Peers -> Targets \cup {None}]
BY DEF TypeOK, Reserved

LEMMA TypeAdopt ==
  ASSUME TypeOK, NEW h \in Handlers,
         \/ ReadLive(h) \/ PickCached(h) \/ NoneCached(h) \/ Remember(h) \/ PickListed(h)
         \/ NoneListed(h) \/ ReserveCreated(h) \/ CreatedIsTaken(h)
  PROVE  TypeOK'
<1>1. CASE ReadLive(h)
  BY <1>1 DEF TypeOK, ReadLive, Goto, brokerVars, peerVars
<1>2. CASE PickCached(h)
  BY <1>2, ReservedTyped DEF TypeOK, PickCached, Cached, Goto, peerVars
<1>3. CASE NoneCached(h)
  BY <1>3 DEF TypeOK, NoneCached, Send, Goto, Waiting, brokerVars, peerVars
<1>4. CASE Remember(h)
  BY <1>4 DEF TypeOK, Remember, Goto, peerVars
<1>5. CASE PickListed(h)
  BY <1>5, ReservedTyped DEF TypeOK, PickListed, Pickable, Goto, peerVars
<1>6. CASE NoneListed(h)
  BY <1>6 DEF TypeOK, NoneListed, Send, Goto, Waiting, brokerVars, peerVars
<1>7. CASE ReserveCreated(h)
  BY <1>7, ReservedTyped DEF TypeOK, ReserveCreated, Goto, peerVars
<1>8. CASE CreatedIsTaken(h)
  BY <1>8 DEF TypeOK, CreatedIsTaken, Goto, brokerVars, peerVars
<1> QED
  BY <1>1, <1>2, <1>3, <1>4, <1>5, <1>6, <1>7, <1>8

LEMMA DropTyped ==
  ASSUME TypeOK, NEW l, DropLease(l)
  PROVE  /\ leases' \in [Leases -> Targets \cup {None}]
         /\ leaseForTarget' \in [Targets -> Leases \cup {None}]
BY DEF TypeOK, DropLease

LEMMA TypeLease ==
  ASSUME TypeOK, LeaseHeld, NEW h \in Handlers,
         \/ FindSession(h) \/ SendAttach(h) \/ Attached(h) \/ NotAttached(h) \/ RequestFails(h)
         \/ Mint(h) \/ Claim(h) \/ Drop(h) \/ Answer(h)
  PROVE  TypeOK'
<1>1. CASE FindSession(h)
  BY <1>1 DEF TypeOK, FindSession, Goto, Lively, Deadly, brokerVars, peerVars
<1>2. CASE SendAttach(h)
  BY <1>2 DEF TypeOK, SendAttach, Send, Goto, Waiting, brokerVars, peerVars
<1>3. CASE Attached(h)
  BY <1>3 DEF TypeOK, Attached, Goto, Lively, peerVars
<1>4. CASE NotAttached(h)
  BY <1>4 DEF TypeOK, NotAttached, Goto, Deadly, brokerVars, peerVars
<1>5. CASE RequestFails(h)
  BY <1>5 DEF TypeOK, RequestFails, Goto, Deadly, brokerVars, peerVars
<1>6. CASE Mint(h)
  <2>1. leases' \in [Leases -> Targets \cup {None}]
    <3>1. leases \in [Leases -> Targets \cup {None}] /\ tgt[h] \in Targets \cup {None}
      BY DEF TypeOK
    <3> QED
      BY <1>6, <3>1 DEF Mint
  <2>2. leaseForTarget' \in [Targets -> Leases \cup {None}]
    BY <1>6 DEF TypeOK, Mint
  <2> QED
    BY <1>6, <2>1, <2>2 DEF TypeOK, Mint, Goto, peerVars
<1>7. CASE Claim(h)
  BY <1>7 DEF TypeOK, LeaseHeld, Claim, LeasedTarget, Goto, brokerVars, peerVars
<1>8. CASE Drop(h)
  BY <1>8, DropTyped DEF TypeOK, Drop, Goto, peerVars
<1>9. CASE Answer(h)
  BY <1>9 DEF TypeOK, Answer, Goto, Ops, brokerVars, peerVars
<1> QED
  BY <1>1, <1>2, <1>3, <1>4, <1>5, <1>6, <1>7, <1>8, <1>9

LEMMA TypeReader ==
  ASSUME TypeOK, OnReply \/ ReadEvent \/ RegistryHears \/ LeasesHear \/ InfosHear
  PROVE  TypeOK'
<1>1. wire # <<>> => Head(wire) \in Message /\ Tail(wire) \in Seq(Message)
  BY DEF TypeOK
<1>2. CASE OnReply
  <2>1. Head(wire).to \in Handlers /\ Head(wire).targets \subseteq Targets
    BY <1>1, <1>2, MessageShape DEF OnReply
  <2>2. ans' \in [Handlers -> {"none", "ok", "err"}] /\ infos' \in [Handlers -> SUBSET Targets]
    BY <1>2, <2>1 DEF TypeOK, OnReply
  <2> QED
    BY <1>1, <1>2, <2>2 DEF TypeOK, OnReply, brokerVars, peerVars
<1>3. CASE ReadEvent
  BY <1>1, <1>3 DEF TypeOK, ReadEvent, brokerVars, peerVars, handlerVars
<1>4. CASE RegistryHears
  BY <1>4 DEF TypeOK, RegistryHears, peerVars, handlerVars
<1>5. CASE LeasesHear
  BY <1>5, DropTyped DEF TypeOK, LeasesHear, peerVars, handlerVars
<1>6. CASE InfosHear
  <2>1. event.kind = "created" => event.tgt \in Targets
    BY MessageShape DEF TypeOK, NoEvent
  <2> QED
    BY <1>6, <2>1 DEF TypeOK, InfosHear, peerVars, handlerVars
<1> QED
  BY <1>2, <1>3, <1>4, <1>5, <1>6

\* What is put on the wire leaves it a wire.
LEMMA Sent ==
  ASSUME wire \in Seq(Message), NEW m \in Message, NEW n \in Message
  PROVE  Append(wire, m) \in Seq(Message) /\ wire \o <<m, n>> \in Seq(Message)
OBVIOUS

LEMMA TypeElse ==
  ASSUME TypeOK,
         \/ \E h \in Handlers : AnswerList(h) \/ AnswerCreate(h) \/ AnswerAttach(h)
         \/ \E p \in Peers : ClosePeer(p) \/ CleanPeer(p)
         \/ \E t \in Targets : CloseTab(t) \/ CrashTab(t)
         \/ UNCHANGED vars
  PROVE  TypeOK'
<1>1. ASSUME NEW h \in Handlers, NEW b \in BOOLEAN, NEW ts \in SUBSET Targets
      PROVE  Reply(h, b, ts) \in Message
  BY <1>1 DEF TypeOK, Reply, Message
<1>2. ASSUME NEW t \in Targets
      PROVE  [kind |-> "created", tgt |-> t] \in Message /\ [kind |-> "gone", tgt |-> t] \in Message
  BY <1>2 DEF Message
<1>3. ASSUME NEW h \in Handlers, AnswerList(h) PROVE TypeOK'
  <2>1. Reply(h, TRUE, tabs) \in Message /\ wire \in Seq(Message)
    BY <1>1 DEF TypeOK
  <2>2. wire' \in Seq(Message)
    BY <1>3, <2>1, Sent DEF AnswerList
  <2> QED
    BY <1>3, <2>2 DEF TypeOK, AnswerList, brokerVars, peerVars, handlerVars
<1>4. ASSUME NEW h \in Handlers, AnswerCreate(h) PROVE TypeOK'
  <2>1. \A t \in Targets : Reply(h, TRUE, {t}) \in Message
    BY <1>1
  <2>2. wire \in Seq(Message)
    BY DEF TypeOK
  <2>3. wire' \in Seq(Message)
    <3>1. PICK t \in Targets :
            wire' = wire \o <<[kind |-> "created", tgt |-> t], Reply(h, TRUE, {t})>>
      BY <1>4 DEF AnswerCreate
    <3>2. [kind |-> "created", tgt |-> t] \in Message /\ Reply(h, TRUE, {t}) \in Message
      BY <1>2, <2>1
    <3> DEFINE m == [kind |-> "created", tgt |-> t]
               n == Reply(h, TRUE, {t})
    <3>3. wire \o <<m, n>> \in Seq(Message)
      <4> HIDE DEF m, n
      <4>1. m \in Message /\ n \in Message
        BY <3>2 DEF m, n
      <4> QED
        BY <2>2, <4>1, Sent
    <3> QED
      BY <3>1, <3>3
  <2> QED
    BY <1>4, <2>3 DEF TypeOK, AnswerCreate, brokerVars, peerVars, handlerVars
<1>5. ASSUME NEW h \in Handlers, AnswerAttach(h) PROVE TypeOK'
  <2>1. Reply(h, tgt[h] \in tabs, {}) \in Message /\ wire \in Seq(Message)
    <3>1. (tgt[h] \in tabs) \in BOOLEAN /\ {} \in SUBSET Targets
      OBVIOUS
    <3> QED
      BY <1>1, <3>1 DEF TypeOK
  <2>2. wire' \in Seq(Message)
    BY <1>5, <2>1, Sent DEF AnswerAttach
  <2> QED
    BY <1>5, <2>2 DEF TypeOK, AnswerAttach, brokerVars, peerVars, handlerVars
<1>6. ASSUME NEW p \in Peers, ClosePeer(p) \/ CleanPeer(p) PROVE TypeOK'
  BY <1>6 DEF TypeOK, ClosePeer, CleanPeer, brokerVars, handlerVars
<1>7. ASSUME NEW t \in Targets, CloseTab(t) \/ CrashTab(t) PROVE TypeOK'
  <2>1. wire \in Seq(Message)
    BY DEF TypeOK
  <2>2. wire' \in Seq(Message)
    BY <1>2, <1>7, <2>1, Sent DEF CloseTab, CrashTab
  <2> QED
    BY <1>7, <2>2 DEF TypeOK, CloseTab, CrashTab, brokerVars, peerVars, handlerVars
<1>8. CASE UNCHANGED vars
  BY <1>8 DEF TypeOK, vars, brokerVars, peerVars, handlerVars
<1> QED
  BY <1>3, <1>4, <1>5, <1>6, <1>7, <1>8

LEMMA TypeStep == TypeOK /\ LeaseHeld /\ [Next]_vars => TypeOK'
BY TypeRequest, TypeAdopt, TypeLease, TypeReader, TypeElse DEF Next, Handler

-----------------------------------------------------------------------------
(* The tables.                                                             *)

\* The browser and the reader's other steps do not touch what the requests hold.
Elsewhere ==
  \/ \E h \in Handlers : AnswerList(h) \/ AnswerCreate(h) \/ AnswerAttach(h)
  \/ \E t \in Targets : CloseTab(t) \/ CrashTab(t)
  \/ ReadEvent \/ RegistryHears \/ InfosHear
  \/ UNCHANGED vars

LEMMA ElsewhereChanges ==
  ASSUME Elsewhere
  PROVE  UNCHANGED <<adoptions, leases, leaseForTarget, peerVars, pc, op, peer, lease, tgt, exclude>>
BY DEF Elsewhere, AnswerList, AnswerCreate, AnswerAttach, CloseTab, CrashTab, ReadEvent,
   RegistryHears, InfosHear, vars, brokerVars, handlerVars

\* A request looks a lease up only if it carries one.
LEMMA LeaseHeldStep == TypeOK /\ LeaseHeld /\ [Next]_vars => LeaseHeld'
<1> SUFFICES ASSUME TypeOK, LeaseHeld, [Next]_vars
             PROVE  LeaseHeld'
  OBVIOUS
<1>1. ASSUME NEW h \in Handlers, BeginAdopt(h) \/ BeginOnTarget(h) \/ BeginOnLease(h)
      PROVE  LeaseHeld'
  <2>1. CASE BeginAdopt(h)
    BY <2>1 DEF TypeOK, LeaseHeld, BeginAdopt, Goto
  <2>2. CASE BeginOnTarget(h)
    BY <2>2 DEF TypeOK, LeaseHeld, BeginOnTarget, Goto
  <2>3. CASE BeginOnLease(h)
    BY <2>3 DEF TypeOK, LeaseHeld, BeginOnLease, Goto
  <2> QED
    BY <1>1, <2>1, <2>2, <2>3
<1>2. ASSUME NEW h \in Handlers, ReadLive(h) \/ PickCached(h) \/ NoneCached(h) \/ Remember(h)
      PROVE  LeaseHeld'
  BY <1>2 DEF TypeOK, LeaseHeld, ReadLive, PickCached, NoneCached, Remember, Send, Goto
<1>3. ASSUME NEW h \in Handlers,
             PickListed(h) \/ NoneListed(h) \/ ReserveCreated(h) \/ CreatedIsTaken(h)
      PROVE  LeaseHeld'
  BY <1>3 DEF TypeOK, LeaseHeld, PickListed, NoneListed, ReserveCreated, CreatedIsTaken, Send, Goto
<1>4. ASSUME NEW h \in Handlers,
             FindSession(h) \/ SendAttach(h) \/ Attached(h) \/ NotAttached(h) \/ RequestFails(h)
      PROVE  LeaseHeld'
  BY <1>4 DEF TypeOK, LeaseHeld, FindSession, SendAttach, Attached, NotAttached, RequestFails,
              Lively, Deadly, Send, Goto
<1>5. ASSUME NEW h \in Handlers, Mint(h) \/ Claim(h) \/ Drop(h)
      PROVE  LeaseHeld'
  BY <1>5 DEF TypeOK, LeaseHeld, Mint, Claim, Drop, Goto
<1>6. ASSUME NEW h \in Handlers, Answer(h)
      PROVE  LeaseHeld'
  BY <1>6 DEF TypeOK, LeaseHeld, Answer, Goto
<1>7. CASE \E p \in Peers : ClosePeer(p) \/ CleanPeer(p)
  BY <1>7 DEF LeaseHeld, ClosePeer, CleanPeer, handlerVars
<1>8. CASE OnReply \/ LeasesHear
  BY <1>8 DEF LeaseHeld, OnReply, LeasesHear, handlerVars
<1>9. CASE Elsewhere
  BY <1>9, ElsewhereChanges DEF LeaseHeld
<1> QED
  BY <1>1, <1>2, <1>3, <1>4, <1>5, <1>6, <1>7, <1>8, <1>9 DEF Next, Handler, Elsewhere

LEMMA PeerHeldStep == TypeOK /\ PeerHeld /\ [Next]_vars => PeerHeld'
<1> SUFFICES ASSUME TypeOK, PeerHeld, [Next]_vars
             PROVE  PeerHeld'
  OBVIOUS
<1>1. ASSUME NEW h \in Handlers, BeginAdopt(h) \/ BeginOnTarget(h) \/ BeginOnLease(h)
      PROVE  PeerHeld'
  <2>1. CASE BeginAdopt(h)
    BY <2>1 DEF TypeOK, PeerHeld, BeginAdopt, Goto
  <2>2. CASE BeginOnTarget(h)
    BY <2>2 DEF TypeOK, PeerHeld, BeginOnTarget, Goto
  <2>3. CASE BeginOnLease(h)
    BY <2>3 DEF TypeOK, PeerHeld, BeginOnLease, Goto
  <2> QED
    BY <1>1, <2>1, <2>2, <2>3
<1>2. ASSUME NEW h \in Handlers, Answer(h)
      PROVE  PeerHeld'
  BY <1>2 DEF TypeOK, PeerHeld, Answer, Goto
<1>3. ASSUME NEW h \in Handlers,
             \/ ReadLive(h) \/ PickCached(h) \/ NoneCached(h) \/ Remember(h)
             \/ PickListed(h) \/ NoneListed(h) \/ ReserveCreated(h) \/ CreatedIsTaken(h)
      PROVE  PeerHeld'
  BY <1>3 DEF TypeOK, PeerHeld, Goto, Send, ReadLive, PickCached, NoneCached, Remember, PickListed, NoneListed,
              ReserveCreated, CreatedIsTaken
<1>4. ASSUME NEW h \in Handlers,
             \/ FindSession(h) \/ SendAttach(h) \/ Attached(h) \/ NotAttached(h) \/ RequestFails(h)
             \/ Mint(h) \/ Claim(h) \/ Drop(h)
      PROVE  PeerHeld'
  BY <1>4 DEF TypeOK, PeerHeld, Goto, Send, Waiting, FindSession, SendAttach, Attached, NotAttached,
              RequestFails, Mint, Claim, Drop
<1>5. CASE \E p \in Peers : ClosePeer(p) \/ CleanPeer(p)
  BY <1>5 DEF PeerHeld, ClosePeer, CleanPeer, handlerVars
<1>6. CASE OnReply \/ LeasesHear
  BY <1>6 DEF PeerHeld, OnReply, LeasesHear, handlerVars
<1>7. CASE Elsewhere
  BY <1>7, ElsewhereChanges DEF PeerHeld
<1> QED
  BY <1>1, <1>2, <1>3, <1>4, <1>5, <1>6, <1>7 DEF Next, Handler, Elsewhere

-----------------------------------------------------------------------------
(* Every step, as the three tables see it.                                 *)

TakesTab(p, t) ==
  /\ p \in Peers \ closed /\ t \in Targets \ Taken
  /\ adoptions' = [adoptions EXCEPT ![p] = t]
  /\ UNCHANGED <<leases, leaseForTarget, closed, cleaned>>

LeavesTab(p) ==
  /\ p \in closed
  /\ adoptions' = [adoptions EXCEPT ![p] = None]
  /\ cleaned' = cleaned \cup {p}
  /\ UNCHANGED <<leases, leaseForTarget, closed>>

MintsLease(l, t) ==
  /\ l \in Leases /\ leases[l] = None
  /\ t \in Targets /\ leaseForTarget[t] = None
  /\ leases'         = [leases EXCEPT ![l] = t]
  /\ leaseForTarget' = [leaseForTarget EXCEPT ![t] = l]
  /\ UNCHANGED <<adoptions, closed, cleaned>>

DropsLease(l) ==
  /\ l \in Leases /\ DropLease(l)
  /\ UNCHANGED <<adoptions, closed, cleaned>>

LeavesTables ==
  /\ UNCHANGED <<adoptions, leases, leaseForTarget, cleaned>>
  /\ closed \subseteq closed'

TableStep ==
  \/ \E p \in Peers : LeavesTab(p) \/ \E t \in Targets : TakesTab(p, t)
  \/ \E l \in Leases : DropsLease(l) \/ \E t \in Targets : MintsLease(l, t)
  \/ LeavesTables

\* What a handler reserves for its client, it takes; for a client whose
\* connection is closed nothing is reserved.
LEMMA Reserving ==
  ASSUME NEW h \in Handlers, peer[h] \in Peers, NEW t \in Targets \ Taken,
         adoptions' = Reserved(h, t),
         UNCHANGED <<leases, leaseForTarget, closed, cleaned>>
  PROVE  TableStep
<1>1. CASE peer[h] \in closed
  BY <1>1 DEF Reserved, TableStep, LeavesTables
<1>2. CASE peer[h] \notin closed
  <2>1. TakesTab(peer[h], t)
    BY <1>2 DEF Reserved, TakesTab
  <2> QED
    BY <2>1 DEF TableStep
<1> QED
  BY <1>1, <1>2

LEMMA TablesChange ==
  ASSUME TypeOK, LeaseHeld, PeerHeld, [Next]_vars
  PROVE  TableStep
<1>1. ASSUME NEW h \in Handlers, Mint(h) PROVE TableStep
  <2>1. CASE leaseForTarget[tgt[h]] = None /\ tgt[h] \in Targets /\ leaseForTarget' # leaseForTarget
    <3>1. PICK l \in Leases : MintsLease(l, tgt[h])
      BY <1>1, <2>1 DEF Mint, MintsLease, peerVars
    <3> QED
      BY <2>1, <3>1 DEF TableStep
  <2> QED
    BY <1>1, <2>1 DEF TypeOK, Mint, Unleased, TableStep, LeavesTables, MintsLease, peerVars
<1>2. ASSUME NEW h \in Handlers, PickCached(h) PROVE TableStep
  <2>1. PICK t \in Targets \ Taken : adoptions' = Reserved(h, t)
    BY <1>2 DEF TypeOK, PickCached, Cached
  <2>2. peer[h] \in Peers
    BY <1>2 DEF PeerHeld, PickCached
  <2> QED
    BY <1>2, <2>1, <2>2, Reserving DEF PickCached, peerVars
<1>3. ASSUME NEW h \in Handlers, PickListed(h) PROVE TableStep
  <2>1. PICK t \in Targets \ Taken : adoptions' = Reserved(h, t)
    BY <1>3 DEF TypeOK, PickListed, Pickable
  <2>2. peer[h] \in Peers
    BY <1>3 DEF PeerHeld, PickListed
  <2> QED
    BY <1>3, <2>1, <2>2, Reserving DEF PickListed, peerVars
<1>4. ASSUME NEW h \in Handlers, ReserveCreated(h) PROVE TableStep
  <2>1. PICK t \in Targets \ Taken : adoptions' = Reserved(h, t)
    BY <1>4 DEF TypeOK, ReserveCreated
  <2>2. peer[h] \in Peers
    BY <1>4 DEF PeerHeld, ReserveCreated, Waiting
  <2> QED
    BY <1>4, <2>1, <2>2, Reserving DEF ReserveCreated, peerVars
<1>5. ASSUME NEW h \in Handlers, Drop(h) PROVE TableStep
  <2>1. DropsLease(lease[h])
    BY <1>5 DEF LeaseHeld, Drop, DropsLease, peerVars
  <2> QED
    BY <2>1 DEF TableStep, DropsLease
<1>6. CASE LeasesHear
  <2>1. CASE event.kind = "gone" /\ leaseForTarget[event.tgt] # None
    <3>1. event \in Message
      BY <2>1 DEF TypeOK, NoEvent
    <3>2. leaseForTarget[event.tgt] \in Leases
      BY <2>1, <3>1, MessageShape DEF TypeOK
    <3> QED
      BY <1>6, <2>1, <3>2 DEF LeasesHear, TableStep, DropsLease, peerVars
  <2> QED
    BY <1>6, <2>1 DEF LeasesHear, TableStep, LeavesTables, peerVars
<1>7. CASE \E p \in Peers : ClosePeer(p) \/ CleanPeer(p)
  BY <1>7 DEF ClosePeer, CleanPeer, TableStep, LeavesTables, LeavesTab, brokerVars
<1>8. ASSUME NEW h \in Handlers,
             \/ BeginAdopt(h) \/ BeginOnTarget(h) \/ BeginOnLease(h)
             \/ ReadLive(h) \/ NoneCached(h) \/ Remember(h) \/ NoneListed(h) \/ CreatedIsTaken(h)
      PROVE  LeavesTables
  BY <1>8 DEF BeginAdopt, BeginOnTarget, BeginOnLease, ReadLive, NoneCached, Remember,
              NoneListed, CreatedIsTaken, LeavesTables, brokerVars, peerVars
<1>9. ASSUME NEW h \in Handlers,
             \/ FindSession(h) \/ SendAttach(h) \/ Attached(h) \/ NotAttached(h) \/ RequestFails(h)
             \/ Claim(h) \/ Answer(h)
      PROVE  LeavesTables
  BY <1>9 DEF FindSession, SendAttach, Attached, NotAttached, RequestFails, Claim, Answer,
              LeavesTables, brokerVars, peerVars
<1>10. CASE OnReply
  BY <1>10 DEF OnReply, TableStep, LeavesTables, brokerVars, peerVars
<1>11. CASE Elsewhere
  BY <1>11, ElsewhereChanges DEF TableStep, LeavesTables, peerVars
<1>12. LeavesTables => TableStep
  BY DEF TableStep
<1> QED
  BY <1>1, <1>2, <1>3, <1>4, <1>5, <1>6, <1>7, <1>8, <1>9, <1>10, <1>11, <1>12
  DEF Next, Handler, Elsewhere

LEMMA GoneStep ==
  ASSUME TypeOK, CleanedClosed, GoneHoldsNothing, TableStep
  PROVE  CleanedClosed' /\ GoneHoldsNothing'
<1> USE DEF TypeOK, CleanedClosed, GoneHoldsNothing
<1>1. ASSUME NEW p \in Peers, LeavesTab(p) PROVE CleanedClosed' /\ GoneHoldsNothing'
  BY <1>1 DEF LeavesTab
<1>2. ASSUME NEW p \in Peers, NEW t \in Targets, TakesTab(p, t)
      PROVE  CleanedClosed' /\ GoneHoldsNothing'
  BY <1>2 DEF TakesTab
<1>3. ASSUME NEW l \in Leases, DropsLease(l) PROVE CleanedClosed' /\ GoneHoldsNothing'
  BY <1>3 DEF DropsLease
<1>4. ASSUME NEW l \in Leases, NEW t \in Targets, MintsLease(l, t)
      PROVE  CleanedClosed' /\ GoneHoldsNothing'
  BY <1>4 DEF MintsLease
<1>5. CASE LeavesTables
  BY <1>5 DEF LeavesTables
<1> QED
  BY <1>1, <1>2, <1>3, <1>4, <1>5 DEF TableStep

LEMMA AgreeStep ==
  ASSUME TypeOK, LeaseTablesAgree, TableStep
  PROVE  LeaseTablesAgree'
<1> USE BrokerAssumption
<1>1. ASSUME NEW p \in Peers, NEW t \in Targets, TakesTab(p, t)
      PROVE  LeaseTablesAgree'
  BY <1>1 DEF TakesTab, LeaseTablesAgree
<1>2. ASSUME NEW p \in Peers, LeavesTab(p)
      PROVE  LeaseTablesAgree'
  BY <1>2 DEF LeavesTab, LeaseTablesAgree
<1>3. ASSUME NEW l \in Leases, DropsLease(l) PROVE LeaseTablesAgree'
  BY <1>3 DEF TypeOK, DropsLease, DropLease, LeaseTablesAgree
<1>4. ASSUME NEW l \in Leases, NEW t \in Targets, MintsLease(l, t)
      PROVE  LeaseTablesAgree'
  BY <1>4 DEF TypeOK, MintsLease, LeaseTablesAgree
<1>5. CASE LeavesTables
  BY <1>5 DEF LeavesTables, LeaseTablesAgree
<1> QED
  BY <1>1, <1>2, <1>3, <1>4, <1>5 DEF TableStep

-----------------------------------------------------------------------------
(* The invariant, and what follows from it.                                *)

LEMMA InvInit == Init => IInv
<1> SUFFICES ASSUME Init PROVE IInv
  OBVIOUS
<1>1. TypeOK
  BY DEF Init, TypeOK, Ops, NoEvent
<1>2. LeaseHeld /\ PeerHeld /\ CleanedClosed /\ GoneHoldsNothing /\ LeaseTablesAgree
  BY DEF Init, LeaseHeld, PeerHeld, CleanedClosed, GoneHoldsNothing, LeaseTablesAgree
<1> QED
  BY <1>1, <1>2 DEF IInv

LEMMA InvStep == IInv /\ [Next]_vars => IInv'
BY TypeStep, LeaseHeldStep, PeerHeldStep, TablesChange, GoneStep, AgreeStep DEF IInv

LEMMA Invariant == Spec => []IInv
BY InvInit, InvStep, PTL DEF Spec

\* The state has its types, whatever the number of clients and handlers.
THEOREM BrokerTypes == Spec => []TypeOK
<1>1. IInv => TypeOK
  BY DEF IInv
<1> QED
  BY <1>1, Invariant, PTL

\* A client that is gone holds no tab, though requests of its are still running.
THEOREM NothingLeftBehind == Spec => []GoneHoldsNothing
<1>1. IInv => GoneHoldsNothing
  BY DEF IInv
<1> QED
  BY <1>1, Invariant, PTL

\* The two lease tables are inverse to each other.
THEOREM LeaseTables == Spec => []LeaseTablesAgree
<1>1. IInv => LeaseTablesAgree
  BY DEF IInv
<1> QED
  BY <1>1, Invariant, PTL

\* Every step of the broker is a step of the promise or none of its business.
LEMMA PromiseStep ==
  ASSUME TypeOK, TableStep
  PROVE  [Reservations!Next]_Reservations!vars
<1> USE BrokerAssumption DEF Reservations!vars
<1>1. ASSUME NEW p \in Peers, LeavesTab(p) PROVE Reservations!Next
  BY <1>1 DEF LeavesTab, Reservations!Next, Reservations!Leave
<1>2. ASSUME NEW p \in Peers, NEW t \in Targets, TakesTab(p, t) PROVE Reservations!Next
  <2>1. Reservations!Adopt(p, t)
    BY <1>2 DEF TakesTab, Taken, Reservations!Adopt, Reservations!Taken
  <2> QED
    BY <2>1 DEF Reservations!Next
<1>3. ASSUME NEW l \in Leases, DropsLease(l) PROVE [Reservations!Next]_Reservations!vars
  <2>1. CASE leases[l] \in Targets
    <3>1. PICK t \in Targets : t = leases[l]
      BY <2>1
    <3>2. Reservations!Revoke(t)
      BY <1>3, <3>1 DEF TypeOK, DropsLease, DropLease, Reservations!Revoke
    <3> QED
      BY <3>2 DEF Reservations!Next
  <2>2. CASE leases[l] \notin Targets
    <3>1. leaseForTarget' = leaseForTarget /\ adoptions' = adoptions
      BY <1>3, <2>2 DEF TypeOK, DropsLease, DropLease
    <3> QED
      BY <3>1
  <2> QED
    BY <2>1, <2>2
<1>4. ASSUME NEW l \in Leases, NEW t \in Targets, MintsLease(l, t) PROVE Reservations!Next
  <2>1. Reservations!Grant(t)
    BY <1>4 DEF TypeOK, MintsLease, Reservations!Grant
  <2> QED
    BY <2>1 DEF Reservations!Next
<1>5. CASE LeavesTables
  BY <1>5 DEF LeavesTables
<1> QED
  BY <1>1, <1>2, <1>3, <1>4, <1>5 DEF TableStep

\* The broker implements the promise: whatever the handlers, the reader and the
\* connection threads do to the three tables in any order, a tab goes only to a
\* client when nobody has it.
THEOREM Implements == Spec => KeepsReservations
<1>1. Init => Reservations!Init
  BY DEF Init, Reservations!Init
<1>2. IInv /\ [Next]_vars => [Reservations!Next]_Reservations!vars
  BY TablesChange, PromiseStep DEF IInv
<1> QED
  BY <1>1, <1>2, Invariant, PTL DEF Spec, KeepsReservations, Reservations!Spec

\* What the promise is worth: no two clients ever work in the same tab.
THEOREM OneClientPerTab == Spec => []Reservations!Exclusive
<1>1. Init => Reservations!Exclusive
  BY DEF Init, Reservations!Exclusive
<1>2. IInv /\ Reservations!Exclusive /\ [Next]_vars => Reservations!Exclusive'
  <2> SUFFICES ASSUME IInv, Reservations!Exclusive, [Reservations!Next]_Reservations!vars
               PROVE  Reservations!Exclusive'
    BY TablesChange, PromiseStep DEF IInv
  <2>1. adoptions \in [Peers -> Targets \cup {None}]
    BY DEF IInv, TypeOK
  <2>2. ASSUME NEW p \in Peers, NEW t \in Targets, Reservations!Adopt(p, t)
        PROVE  Reservations!Exclusive'
    BY <2>1, <2>2 DEF Reservations!Adopt, Reservations!Taken, Reservations!Exclusive
  <2>3. ASSUME NEW p \in Peers, Reservations!Leave(p)
        PROVE  Reservations!Exclusive'
    BY <2>1, <2>3 DEF Reservations!Leave, Reservations!Exclusive
  <2>4. CASE UNCHANGED adoptions
    BY <2>4 DEF Reservations!Exclusive
  <2> QED
    BY <2>2, <2>3, <2>4 DEF Reservations!Next, Reservations!vars, Reservations!Grant, Reservations!Revoke
<1> QED
  BY <1>1, <1>2, Invariant, PTL DEF Spec

-----------------------------------------------------------------------------
(* The answers to adopt.                                                   *)

\* A handler moves itself only.
LEMMA HandlerMoves ==
  ASSUME TypeOK, NEW g \in Handlers, Handler(g), NEW h \in Handlers, h # g
  PROVE  pc'[h] = pc[h]
<1> USE DEF TypeOK, Goto, Send
<1>1. CASE BeginAdopt(g) \/ BeginOnTarget(g) \/ BeginOnLease(g) \/ Answer(g)
  BY <1>1 DEF BeginAdopt, BeginOnTarget, BeginOnLease, Answer
<1>2. CASE \/ ReadLive(g) \/ PickCached(g) \/ NoneCached(g) \/ Remember(g) \/ PickListed(g)
           \/ NoneListed(g) \/ ReserveCreated(g) \/ CreatedIsTaken(g)
  BY <1>2 DEF ReadLive, PickCached, NoneCached, Remember, PickListed, NoneListed, ReserveCreated,
              CreatedIsTaken
<1>3. CASE \/ FindSession(g) \/ SendAttach(g) \/ Attached(g) \/ NotAttached(g) \/ RequestFails(g)
           \/ Mint(g) \/ Claim(g) \/ Drop(g)
  BY <1>3 DEF FindSession, SendAttach, Attached, NotAttached, RequestFails, Mint, Claim, Drop
<1> QED
  BY <1>1, <1>2, <1>3 DEF Handler

\* From a selection, only a selection leads to the answer.
LEMMA OnlyPicks ==
  ASSUME TypeOK, NEW h \in Handlers, [Next]_vars,
         pc[h] \in {"cached", "pick"}, pc'[h] = "answer"
  PROVE  PickCached(h) \/ PickListed(h)
<1>1. ASSUME NEW g \in Handlers, Handler(g) PROVE PickCached(h) \/ PickListed(h)
  <2>1. Handler(h)
    BY <1>1, HandlerMoves
  <2>2. ~(NoneCached(h) \/ NoneListed(h))
    BY DEF TypeOK, NoneCached, NoneListed, Send, Goto
  <2>3. ~(\/ BeginAdopt(h) \/ BeginOnTarget(h) \/ BeginOnLease(h) \/ ReadLive(h) \/ Remember(h)
          \/ ReserveCreated(h) \/ CreatedIsTaken(h) \/ FindSession(h) \/ SendAttach(h))
    BY DEF BeginAdopt, BeginOnTarget, BeginOnLease, ReadLive, Remember, ReserveCreated,
           CreatedIsTaken, FindSession, SendAttach
  <2>4. ~(\/ Attached(h) \/ NotAttached(h) \/ RequestFails(h) \/ Mint(h) \/ Claim(h) \/ Drop(h)
          \/ Answer(h))
    BY DEF Attached, NotAttached, RequestFails, Waiting, Mint, Claim, Drop, Answer
  <2> QED
    BY <2>1, <2>2, <2>3, <2>4 DEF Handler
<1>2. CASE \E p \in Peers : ClosePeer(p) \/ CleanPeer(p)
  BY <1>2 DEF ClosePeer, CleanPeer, handlerVars
<1>3. CASE OnReply \/ LeasesHear
  BY <1>3 DEF OnReply, LeasesHear, handlerVars
<1>4. CASE Elsewhere
  BY <1>4, ElsewhereChanges
<1> QED
  BY <1>1, <1>2, <1>3, <1>4 DEF Next, Elsewhere

\* An adopt answered from the cache or from the list names a tab reserved for
\* that client in the same step, and not one the client excluded.
THEOREM AnswersReserved == Spec => AnswerIsReserved
<1>1. ASSUME IInv, [Next]_vars, NEW h \in Handlers,
             pc[h] \in {"cached", "pick"}, pc'[h] = "answer", peer[h] \notin closed
      PROVE  adoptions'[peer[h]] = tgt'[h] /\ tgt'[h] \notin exclude[h]
  <2>1. TypeOK /\ peer[h] \in Peers
    BY <1>1 DEF IInv, PeerHeld
  <2>2. PICK t \in (Targets \cup pageInfos) \ exclude[h] :
          tgt' = [tgt EXCEPT ![h] = t] /\ adoptions' = Reserved(h, t)
    BY <1>1, <2>1, OnlyPicks DEF TypeOK, PickCached, PickListed, Cached, Pickable
  <2> QED
    BY <1>1, <2>1, <2>2 DEF TypeOK, Reserved
<1>2. IInv /\ [Next]_vars =>
        [\A h \in Handlers :
           /\ op[h] = "adopt" /\ pc[h] \in {"cached", "pick"} /\ pc'[h] = "answer"
           /\ peer[h] \notin closed
           => adoptions'[peer[h]] = tgt'[h] /\ tgt'[h] \notin exclude[h]]_vars
  BY <1>1
<1> QED
  BY <1>2, Invariant, PTL DEF Spec, AnswerIsReserved
=============================================================================
