----------------------- MODULE SessionRegistryProofs -----------------------
(***************************************************************************)
(* What is proved of SessionRegistry, for any number of targets, frames,   *)
(* workers, session ids, calls and events in flight.                       *)
(***************************************************************************)
EXTENDS SessionRegistry, TLAPS

\* A message on the wire has the shape its kind says.
LEMMA MessageShape ==
  ASSUME NEW m \in Message
  PROVE  /\ m.kind = "reply" => /\ m.to \in Workers /\ m.no \in Nat
                                /\ m.ok \in BOOLEAN /\ m.sid \in 0..MaxSid
         /\ m.kind \in {"detached", "inspectorCrashed"} => m.sid \in Sids
         /\ m.kind \in {"destroyed", "crashed"} => m.tgt \in Targets
         /\ m.kind = "attached" => m.tgt \in Targets /\ m.sid \in Sids
BY DEF Message

\* Whatever is sent is a message.
LEMMA MessageMade ==
  /\ \A w \in Workers, b \in BOOLEAN, s \in 0..MaxSid : req[w] \in Nat => Reply(w, b, s) \in Message
  /\ \A s \in Sids : SessionEvent("detached", s) \in Message /\ SessionEvent("inspectorCrashed", s) \in Message
  /\ \A t \in Targets : TargetEvent("destroyed", t) \in Message /\ TargetEvent("crashed", t) \in Message
  /\ \A t \in Targets, s \in Sids : AttachedEvent(t, s) \in Message
  /\ [kind |-> "inspectorDetached"] \in Message
BY DEF Message, Reply, SessionEvent, TargetEvent, AttachedEvent

LEMMA MarkedTyped ==
  ASSUME TypeOK, NEW t, NEW st \in Dead
  PROVE  Marked(t, st) \in [Targets -> Session]
BY DEF TypeOK, Marked, Session, Dead

LEMMA TypeInit == Init => TypeOK
BY BoundAssumption DEF Init, TypeOK, NoSession, Session, Ops, Sids

\* The messages under way.
Wired == {wire[i] : i \in 1..Len(wire)}

\* Where a worker holds a session, and where that session is registered or was.
Served     == {"runtime", "arming", "widen", "widening", "done"}
HasSession == Served \cup {"enabling"}

\* A worker inside a target's lock is the one that holds it.
LockInv == \A w \in Workers : pc[w] \in Inside => holder[tgt[w]] = w

\* Only a worker that saw no live session goes on to make one, and while it
\* does none appears.
MakingInv ==
  \A w \in Workers :
    pc[w] \in {"adopt", "attaching", "enabling"} => sessions[tgt[w]].state # "attached"

\* What the browser still has to answer is what the worker waits for.
AskInv ==
  \A w \in Workers :
    /\ pc[w] = "attaching" => ask[w] \in {"none", "attach"}
    /\ pc[w] = "enabling"  => ask[w] \in {"none", "enable"}

\* A session id the browser has not handed out belongs to nobody.
FreshInv == \A s \in Sids : s > lastSid => owner[s] = None

\* An answer on the wire is to a request already made; if it is to the current
\* one, it tells the truth about the session.
ReplyInv ==
  \A m \in Wired : m.kind = "reply" =>
    /\ m.no <= req[m.to]
    /\ m.ok /\ m.no = req[m.to] =>
         /\ pc[m.to] = "attaching" => m.sid \in Sids /\ owner[m.sid] = tgt[m.to]
         /\ pc[m.to] = "enabling"  => sid[m.to] \in enabled

EventInv == \A m \in Wired : m.kind = "attached" => owner[m.sid] = m.tgt

\* The session a worker holds is one of its target.
HoldingInv ==
  \A w \in Workers :
    pc[w] \in HasSession \/ (pc[w] = "attaching" /\ ans[w] = "ok") =>
      sid[w] \in Sids /\ owner[sid[w]] = tgt[w]

EnabledInv ==
  \A w \in Workers :
    pc[w] \in Served \/ (pc[w] = "enabling" /\ ans[w] = "ok") => sid[w] \in enabled

RegisteredInv ==
  \A t \in Targets :
    /\ sessions[t].state = "none" => sessions[t].sid = 0
    /\ sessions[t].state # "none" =>
         /\ sessions[t].sid \in Sids /\ owner[sessions[t].sid] = t
         /\ bySession[sessions[t].sid] = t
         /\ sessions[t].sid \in enabled

AdoptedInv == \A t \in Targets : adopted[t] # 0 => owner[adopted[t]] = t

RoutedInv == \A s \in Sids : bySession[s] # None => owner[s] = bySession[s]

\* The runtime and the domains a call was made for are there when it returns.
PreparedInv ==
  /\ \A w \in Workers : pc[w] \in {"runtime", "arming"} => op[w] = "prepare"
  /\ \A w \in Workers : pc[w] \in {"widen", "widening"} => op[w] = "domains"
  /\ \A t \in Targets : runtime[t] # 0 => armed[runtime[t]] > 0
  /\ \A w \in Workers : pc[w] = "done" /\ op[w] = "prepare" => armed[sid[w]] > 0
  /\ \A w \in Workers : pc[w] = "done" /\ op[w] = "domains" => sid[w] \in wide

\* The inductive invariant.
IInv ==
  /\ TypeOK
  /\ LockInv /\ MakingInv
  /\ AskInv /\ FreshInv /\ ReplyInv /\ EventInv
  /\ HoldingInv /\ EnabledInv /\ RegisteredInv /\ AdoptedInv /\ RoutedInv
  /\ PreparedInv

-----------------------------------------------------------------------------
(* Type correctness.                                                       *)


LEMMA TypeWorker ==
  ASSUME TypeOK, HoldingInv, NEW w \in Workers, Begin(w) \/ Worker(w)
  PROVE  TypeOK'
<1> USE BoundAssumption
<1>1. CASE Begin(w)
  BY SMTT(30), <1>1 DEF TypeOK, Begin, regVars
<1>2. CASE Acquire(w)
  BY <1>2 DEF TypeOK, Acquire, regVars, browserVars, Inside
<1>3. CASE FindLive(w)
  BY <1>3 DEF TypeOK, FindLive, regVars, browserVars, AfterReady, Session, Inside
<1>4. CASE RaiseDead(w)
  BY <1>4 DEF TypeOK, RaiseDead, Leave, regVars, browserVars
<1>5. CASE DropStale(w)
  <2>1. sessions' \in [Targets -> Session]
    BY <1>5 DEF TypeOK, DropStale, NoSession, Session
  <2>2. bySession' \in [Sids -> Targets \cup {None}]
    BY <1>5 DEF TypeOK, DropStale
  <2>3. pc' \in [Workers -> {"idle", "lock"} \cup Inside]
    BY <1>5 DEF TypeOK, DropStale, Inside
  <2> QED
    BY <1>5, <2>1, <2>2, <2>3 DEF TypeOK, DropStale, browserVars
<1>6. CASE FindNone(w)
  BY <1>6 DEF TypeOK, FindNone, Inside, regVars, browserVars
<1>7. CASE TakeAdopted(w)
  BY <1>7 DEF TypeOK, TakeAdopted, Popped, Send, Inside
<1>8. CASE SendAttach(w)
  BY <1>8 DEF TypeOK, SendAttach, Send, Inside, regVars
<1>9. CASE Attached(w)
  BY <1>9 DEF TypeOK, Attached, Send, Inside, regVars
<1>10. CASE AttachRefused(w)
  BY <1>10, MarkedTyped DEF TypeOK, AttachRefused, Leave, Dead, browserVars
<1>11. CASE Register(w)
  BY <1>11 DEF TypeOK, Register, RoutedTo, AfterReady, Inside, Session, browserVars
<1>12. CASE RuntimeThere(w)
  BY <1>12 DEF TypeOK, RuntimeThere, Inside, regVars, browserVars
<1>13. CASE SendRuntime(w)
  BY <1>13 DEF TypeOK, SendRuntime, Send, Inside, regVars
<1>14. CASE RuntimeRecorded(w)
  BY <1>14 DEF TypeOK, RuntimeRecorded, HoldingInv, HasSession, Served, Inside
<1>15. CASE DomainsThere(w)
  BY <1>15 DEF TypeOK, DomainsThere, Inside, regVars, browserVars
<1>16. CASE SendDomains(w)
  BY <1>16 DEF TypeOK, SendDomains, Send, Inside, regVars
<1>17. CASE DomainsRecorded(w)
  BY <1>17 DEF TypeOK, DomainsRecorded, HoldingInv, HasSession, Served, Inside, browserVars
<1>18. CASE CommandRefused(w)
  BY <1>18 DEF TypeOK, CommandRefused, Leave, regVars, browserVars
<1>19. CASE RequestFails(w)
  BY <1>19 DEF TypeOK, RequestFails, Leave, regVars, browserVars
<1>20. CASE Return(w)
  BY <1>20 DEF TypeOK, Return, Leave, regVars, browserVars
<1> QED
  BY <1>1, <1>2, <1>3, <1>4, <1>5, <1>6, <1>7, <1>8, <1>9, <1>10, <1>11, <1>12, <1>13, <1>14, <1>15, <1>16, <1>17, <1>18, <1>19, <1>20 DEF Worker

LEMMA TypeForget ==
  ASSUME TypeOK, NEW t \in Targets, Forget(t)
  PROVE  TypeOK'
<1>1. sessions' \in [Targets -> Session] /\ runtime' \in [Targets -> 0..MaxSid]
  BY BoundAssumption DEF TypeOK, Forget, NoSession, Session
<1>2. bySession' \in [Sids -> Targets \cup {None}]
  BY DEF TypeOK, Forget
<1> QED
  BY <1>1, <1>2 DEF TypeOK, Forget, workerVars, browserVars

\* What remains of the wire once its first message is taken.
LEMMA Received ==
  ASSUME wire \in Seq(Message), wire # <<>>
  PROVE  Head(wire) \in Message /\ Tail(wire) \in Seq(Message)
OBVIOUS

LEMMA TypeReader ==
  ASSUME TypeOK, Reader
  PROVE  TypeOK'
<1> DEFINE m == Head(wire)
<1>1. CASE OnReply
  <2>1. m \in Message /\ m.kind = "reply" /\ wire' \in Seq(Message)
    BY <1>1, Received DEF OnReply, Receive, TypeOK
  <2>2. m.sid \in 0..MaxSid
    BY <2>1, MessageShape
  <2>3. ans' \in [Workers -> {"none", "ok", "err"}]
    BY <1>1 DEF OnReply, TypeOK
  <2>4. sid' \in [Workers -> 0..MaxSid]
    <3>1. CASE sid' = sid
      BY <3>1 DEF TypeOK
    <3>2. CASE sid' = [sid EXCEPT ![m.to] = IF pc[m.to] = "attaching" THEN m.sid ELSE @]
      BY <3>2, <2>2 DEF TypeOK
    <3> QED
      BY <1>1, <3>1, <3>2 DEF OnReply
  <2> QED
    BY <1>1, <2>1, <2>3, <2>4 DEF OnReply, TypeOK, regVars, browserVars
<1>2. CASE OnAttachedToTarget
  <2>1. m \in Message /\ m.kind = "attached" /\ wire' \in Seq(Message)
    BY <1>2, Received DEF OnAttachedToTarget, Receive, TypeOK
  <2>2. m.sid \in Sids
    BY <2>1, MessageShape
  <2>3. m.sid \in 0..MaxSid
    BY <2>2, BoundAssumption DEF Sids
  <2>4. adopted' \in [Targets -> 0..MaxSid]
    BY <1>2, <2>3 DEF OnAttachedToTarget, TypeOK
  <2> QED
    BY <1>2, <2>1, <2>4 DEF OnAttachedToTarget, TypeOK, workerVars, browserVars
<1>3. CASE OnDetached \/ OnDestroyed \/ OnCrashed \/ OnInspectorCrashed
  <2>1. wire' \in Seq(Message)
    BY <1>3, Received DEF OnDetached, OnDestroyed, OnCrashed, OnInspectorCrashed, Receive, TypeOK
  <2>2. sessions' \in [Targets -> Session]
    BY SMTT(30), <1>3, MarkedTyped DEF OnDetached, OnDestroyed, OnCrashed, OnInspectorCrashed, Routed, Dead, TypeOK
  <2> QED
    BY <1>3, <2>1, <2>2
    DEF OnDetached, OnDestroyed, OnCrashed, OnInspectorCrashed, TypeOK, workerVars, browserVars
<1>4. CASE OnInspectorDetached
  <2>1. wire' \in Seq(Message)
    BY <1>4, Received DEF OnInspectorDetached, Receive, TypeOK
  <2> QED
    BY <1>4, <2>1 DEF OnInspectorDetached, TypeOK, regVars, workerVars, browserVars
<1>5. ASSUME NEW t \in Targets, MarkDisconnected(t)
      PROVE  TypeOK'
  BY <1>5, MarkedTyped DEF MarkDisconnected, TypeOK, Dead, workerVars, browserVars
<1> QED
  BY <1>1, <1>2, <1>3, <1>4, <1>5 DEF Reader

\* Whatever the browser does to the wire, messages stay on it.
LEMMA Emitted ==
  ASSUME wire \in Seq(Message), NEW m \in Message, Emit(m)
  PROVE  wire' \in Seq(Message)
BY DEF Emit

LEMMA Opened ==
  ASSUME TypeOK, NEW t \in Targets, Open(t)
  PROVE  /\ lastSid' \in Sids
         /\ open' \subseteq Sids
         /\ owner' \in [Sids -> Targets \cup {None}]
BY BoundAssumption DEF TypeOK, Open, Sids

LEMMA TypeBrowser ==
  ASSUME TypeOK, Browser
  PROVE  TypeOK'
<1> USE DEF regVars, workerVars, browserVars
<1>1. ASSUME NEW w \in Workers, AnswerAttach(w)
      PROVE  TypeOK'
  <2>1. tgt[w] \in Targets /\ req[w] \in Nat /\ ask' \in [Workers -> {"none", "attach", "enable", "arm", "widen"}]
    BY <1>1 DEF TypeOK, AnswerAttach
  <2>2. CASE Open(tgt[w]) /\ Emit(Reply(w, TRUE, lastSid'))
    <3>1. lastSid' \in 0..MaxSid
      BY <2>1, <2>2, Opened DEF Sids
    <3>2. Reply(w, TRUE, lastSid') \in Message
      BY <2>1, <3>1, MessageMade
    <3>3. wire' \in Seq(Message)
      BY <2>2, <3>2, Emitted DEF TypeOK
    <3> QED
      BY <1>1, <2>1, <2>2, <3>1, <3>3, Opened DEF TypeOK, AnswerAttach
  <2>3. CASE Emit(Reply(w, FALSE, 0)) /\ UNCHANGED <<lastSid, open, owner>>
    <3> 0 \in 0..MaxSid
      BY BoundAssumption
    <3>1. Reply(w, FALSE, 0) \in Message
      BY <2>1, MessageMade
    <3>2. wire' \in Seq(Message)
      BY <2>3, <3>1, Emitted DEF TypeOK
    <3> QED
      BY <1>1, <2>1, <2>3, <3>2 DEF TypeOK, AnswerAttach
  <2> QED
    BY <1>1, <2>2, <2>3 DEF AnswerAttach
<1>2. ASSUME NEW w \in Workers, AnswerCommand(w)
      PROVE  TypeOK'
  <2> 0 \in 0..MaxSid /\ req[w] \in Nat
    BY BoundAssumption DEF TypeOK
  <2>1. Reply(w, TRUE, 0) \in Message /\ Reply(w, FALSE, 0) \in Message
    BY MessageMade
  <2>2. wire' \in Seq(Message)
    BY <1>2, <2>1, Emitted DEF TypeOK, AnswerCommand
  <2>3. enabled' \subseteq Sids /\ ask' \in [Workers -> {"none", "attach", "enable", "arm", "widen"}]
    BY <1>2 DEF TypeOK, AnswerCommand
  <2> QED
    BY <1>2, <2>2, <2>3 DEF TypeOK, AnswerCommand
<1>3. ASSUME NEW t \in Targets, AutoAttach(t)
      PROVE  TypeOK'
  <2>1. lastSid' \in Sids
    BY <1>3, Opened DEF AutoAttach
  <2>2. wire' \in Seq(Message)
    BY <1>3, <2>1, MessageMade, Emitted DEF TypeOK, AutoAttach, Notify
  <2>3. lastSid' \in 0..MaxSid /\ open' \subseteq Sids /\ owner' \in [Sids -> Targets \cup {None}]
    BY <1>3, <2>1, Opened, BoundAssumption DEF AutoAttach, Sids
  <2> QED
    BY <1>3, <2>2, <2>3 DEF TypeOK, AutoAttach, Notify, Emit
<1>4. ASSUME NEW t \in Targets, Destroy(t) \/ Crash(t)
      PROVE  TypeOK'
  <2>1. wire' \in Seq(Message)
    <3>1. CASE Destroy(t)
      BY <3>1, MessageMade, Emitted DEF TypeOK, Destroy, Notify
    <3>2. CASE Crash(t)
      BY <3>2, MessageMade, Emitted DEF TypeOK, Crash, Notify
    <3> QED BY <1>4, <3>1, <3>2
  <2>2. life' \in [Targets -> {"running", "crashed", "gone"}]
    BY <1>4 DEF TypeOK, Destroy, Crash
  <2>3. UNCHANGED <<regVars, workerVars, marking, ask, open, owner, lastSid, enabled, armed>>
    BY <1>4 DEF Destroy, Crash
  <2>4. up' \in BOOLEAN
    BY <1>4 DEF TypeOK, Destroy, Crash
  <2> QED
    BY <2>1, <2>2, <2>3, <2>4 DEF TypeOK
<1>5. ASSUME NEW s \in Sids, Detach(s)
      PROVE  TypeOK'
  <2>1. wire' \in Seq(Message)
    BY <1>5, MessageMade, Emitted DEF TypeOK, Detach, Notify
  <2> QED
    BY <1>5, <2>1 DEF TypeOK, Detach
<1>6. CASE GoingAway
  <2>1. wire' \in Seq(Message)
    BY <1>6, MessageMade, Emitted DEF TypeOK, GoingAway, Notify
  <2> QED
    BY <1>6, <2>1 DEF TypeOK, GoingAway
<1>7. CASE LoseConnection
  <2>1. up' \in BOOLEAN /\ open' \subseteq Sids /\ wire' = <<>>
    BY <1>7 DEF LoseConnection
  <2>3. wire' \in Seq(Message)
    BY <2>1
  <2>2. ask' \in [Workers -> {"none", "attach", "enable", "arm", "widen"}]
    BY <1>7 DEF LoseConnection
  <2> QED
    BY <1>7, <2>1, <2>2, <2>3 DEF TypeOK, LoseConnection
<1> QED
  BY <1>1, <1>2, <1>3, <1>4, <1>5, <1>6, <1>7 DEF Browser

LEMMA TypeStutter == ASSUME TypeOK, UNCHANGED vars PROVE TypeOK'
BY DEF TypeOK, vars, regVars, workerVars, browserVars

LEMMA TypeStep ==
  ASSUME TypeOK, HoldingInv, [Next]_vars
  PROVE  TypeOK'
BY TypeWorker, TypeForget, TypeReader, TypeBrowser, TypeStutter DEF Next

-----------------------------------------------------------------------------
(* The lock of a target, and what is done under it.                        *)

\* forget(), the reader and the browser leave the workers where they are.
LEMMA OthersFrame ==
  ASSUME (\E t \in Targets : Forget(t)) \/ Reader \/ Browser
  PROVE  UNCHANGED <<pc, op, tgt, req, holder>>
<1>1. CASE \E t \in Targets : Forget(t)
  BY <1>1 DEF Forget, workerVars
<1>2. CASE Reader
  BY <1>2 DEF Reader, OnReply, OnAttachedToTarget, OnDetached, OnDestroyed, OnCrashed,
     OnInspectorCrashed, OnInspectorDetached, MarkDisconnected, workerVars
<1>3. CASE Browser
  BY <1>3 DEF Browser, AnswerAttach, AnswerCommand, AutoAttach, Detach, Destroy, Crash,
     GoingAway, LoseConnection, workerVars
<1> QED
  BY <1>1, <1>2, <1>3

\* A worker's step takes the lock, lets go of it, or goes on under it.
LEMMA WorkerMoves ==
  ASSUME TypeOK, NEW w \in Workers, Worker(w)
  PROVE  /\ tgt' = tgt /\ op' = op
         /\ \/ Acquire(w)
            \/ pc[w] \in Inside /\ Leave(w)
            \/ /\ pc[w] \in Inside /\ holder' = holder
               /\ \E p \in Inside : pc' = [pc EXCEPT ![w] = p]
<1> USE DEF Inside
<1>1. CASE Acquire(w)
  BY <1>1 DEF Acquire
<1>2. CASE RaiseDead(w) \/ AttachRefused(w) \/ CommandRefused(w) \/ RequestFails(w) \/ Return(w)
  BY <1>2 DEF RaiseDead, AttachRefused, CommandRefused, RequestFails, Return, Waiting
<1>3. CASE FindLive(w) \/ Register(w)
  BY <1>3 DEF FindLive, Register, AfterReady
<1>4. CASE TakeAdopted(w) \/ SendAttach(w) \/ Attached(w) \/ SendRuntime(w) \/ SendDomains(w)
  BY <1>4 DEF TakeAdopted, SendAttach, Attached, SendRuntime, SendDomains, Send
<1>5. CASE DropStale(w) \/ FindNone(w) \/ RuntimeThere(w) \/ RuntimeRecorded(w)
           \/ DomainsThere(w) \/ DomainsRecorded(w)
  BY <1>5 DEF DropStale, FindNone, RuntimeThere, RuntimeRecorded, DomainsThere, DomainsRecorded
<1> QED
  BY <1>1, <1>2, <1>3, <1>4, <1>5 DEF Worker

LEMMA LockStep ==
  ASSUME TypeOK, LockInv, [Next]_vars
  PROVE  LockInv'
<1>1. ASSUME NEW w \in Workers, Begin(w)
      PROVE  LockInv'
  BY <1>1 DEF Begin, LockInv, Inside, TypeOK
<1>2. ASSUME NEW w \in Workers, Worker(w)
      PROVE  LockInv'
  <2>1. CASE Acquire(w)
    BY <2>1, NoneAssumption DEF Acquire, Free, LockInv, TypeOK
  <2>2. CASE pc[w] \in Inside /\ Leave(w) /\ tgt' = tgt
    BY <2>2 DEF Leave, LockInv, TypeOK, Inside
  <2>3. CASE /\ pc[w] \in Inside /\ holder' = holder /\ tgt' = tgt
             /\ \E p \in Inside : pc' = [pc EXCEPT ![w] = p]
    BY <2>3 DEF LockInv, TypeOK
  <2> QED
    BY <1>2, <2>1, <2>2, <2>3, WorkerMoves
<1>3. CASE (\E t \in Targets : Forget(t)) \/ Reader \/ Browser
  BY <1>3, OthersFrame DEF LockInv
<1>4. CASE UNCHANGED vars
  BY <1>4 DEF LockInv, vars, workerVars
<1> QED
  BY <1>1, <1>2, <1>3, <1>4 DEF Next

LEMMA OneInside ==
  ASSUME TypeOK, LockInv
  PROVE  OneProducer
BY DEF LockInv, OneProducer, TypeOK

\* A session that is marked keeps its id, and none appears or disappears.
LEMMA MarkedKeeps ==
  ASSUME TypeOK, NEW t \in Targets, NEW st \in Dead, NEW u \in Targets
  PROVE  /\ Marked(t, st)[u].sid = sessions[u].sid
         /\ Marked(t, st)[u].state = "none" <=> sessions[u].state = "none"
         /\ Marked(t, st)[u].state = "attached" => sessions[u].state = "attached"
BY DEF TypeOK, Marked, Session, Dead

\* Every way in which the table of sessions may change.
LEMMA SessionsChange ==
  ASSUME TypeOK, [Next]_vars
  PROVE  \/ \E w \in Workers : Register(w) \/ DropStale(w)
         \/ \E t \in Targets : Forget(t)
         \/ \E t \in Targets, st \in Dead : sessions' = Marked(t, st)
         \/ sessions' = sessions
<1>1. ASSUME NEW w \in Workers, Begin(w)
      PROVE  sessions' = sessions
  BY <1>1 DEF Begin, regVars
<1>2. ASSUME NEW w \in Workers, Worker(w), ~Register(w), ~DropStale(w), ~AttachRefused(w)
      PROVE  sessions' = sessions
  BY <1>2 DEF Worker, Acquire, FindLive, RaiseDead, FindNone, TakeAdopted, SendAttach, Attached,
     RuntimeThere, SendRuntime, RuntimeRecorded, DomainsThere, SendDomains, DomainsRecorded,
     CommandRefused, RequestFails, Return, regVars
<1>3. ASSUME NEW w \in Workers, AttachRefused(w)
      PROVE  \E t \in Targets, st \in Dead : sessions' = Marked(t, st)
  BY <1>3 DEF AttachRefused, Dead, TypeOK
<1>4. ASSUME Reader
      PROVE  \/ \E t \in Targets, st \in Dead : sessions' = Marked(t, st)
             \/ sessions' = sessions
  <2>1. CASE OnReply \/ OnAttachedToTarget \/ OnInspectorDetached
    BY <2>1 DEF OnReply, OnAttachedToTarget, OnInspectorDetached, regVars
  <2>2. CASE OnDestroyed \/ OnCrashed
    <3>1. Head(wire) \in Message /\ Head(wire).kind \in {"destroyed", "crashed"}
      BY <2>2, Received DEF OnDestroyed, OnCrashed, Receive, TypeOK
    <3>2. Head(wire).tgt \in Targets
      BY <3>1, MessageShape
    <3> QED
      BY <2>2, <3>2 DEF OnDestroyed, OnCrashed, Dead
  <2>3. CASE OnDetached \/ OnInspectorCrashed
    <3>1. Head(wire) \in Message /\ Head(wire).kind \in {"detached", "inspectorCrashed"}
      BY <2>3, Received DEF OnDetached, OnInspectorCrashed, Receive, TypeOK
    <3>2. Head(wire).sid \in Sids
      BY <3>1, MessageShape
    <3> QED
      BY <2>3, <3>2 DEF OnDetached, OnInspectorCrashed, Routed, Dead, TypeOK
  <2>4. CASE \E t \in Targets : MarkDisconnected(t)
    BY <2>4 DEF MarkDisconnected, Dead
  <2> QED
    BY <1>4, <2>1, <2>2, <2>3, <2>4 DEF Reader
<1>5. ASSUME Browser
      PROVE  sessions' = sessions
  BY <1>5 DEF Browser, AnswerAttach, AnswerCommand, AutoAttach, Detach, Destroy, Crash,
     GoingAway, LoseConnection, regVars
<1>6. CASE UNCHANGED vars
  BY <1>6 DEF vars, regVars
<1> QED
  BY <1>1, <1>2, <1>3, <1>4, <1>5, <1>6 DEF Next

\* A worker stays on the way to a new session, or turns to it from a target
\* that has no live one.
LEMMA MakingStarts ==
  ASSUME TypeOK, NEW w \in Workers, Worker(w), pc'[w] \in {"adopt", "attaching", "enabling"}
  PROVE  /\ tgt' = tgt
         /\ \/ DropStale(w)
            \/ sessions' = sessions /\ sessions[tgt[w]].state # "attached"
            \/ sessions' = sessions /\ pc[w] \in {"adopt", "attaching", "enabling"}
<1>1. CASE FindNone(w)
  BY <1>1 DEF FindNone, regVars, Dead
<1>2. CASE TakeAdopted(w) \/ SendAttach(w) \/ Attached(w)
  BY <1>2 DEF TakeAdopted, SendAttach, Attached, regVars
<1>3. CASE DropStale(w)
  BY <1>3 DEF DropStale
<1>4. CASE Acquire(w) \/ RuntimeThere(w) \/ RuntimeRecorded(w) \/ DomainsThere(w) \/ DomainsRecorded(w)
  BY <1>4 DEF Acquire, RuntimeThere, RuntimeRecorded, DomainsThere, DomainsRecorded, TypeOK
<1>5. CASE FindLive(w) \/ Register(w)
  BY <1>5 DEF FindLive, Register, AfterReady, TypeOK
<1>6. CASE SendRuntime(w) \/ SendDomains(w)
  BY <1>6 DEF SendRuntime, SendDomains, Send, TypeOK
<1>7. CASE RaiseDead(w) \/ AttachRefused(w) \/ CommandRefused(w) \/ RequestFails(w) \/ Return(w)
  BY <1>7 DEF RaiseDead, AttachRefused, CommandRefused, RequestFails, Return, Leave, TypeOK
<1> QED
  BY <1>1, <1>2, <1>3, <1>4, <1>5, <1>6, <1>7 DEF Worker

\* A step of one worker does not move another.
LEMMA OtherStays ==
  ASSUME TypeOK, [Next]_vars, NEW v \in Workers, ~Begin(v), ~Worker(v)
  PROVE  pc'[v] = pc[v] /\ tgt'[v] = tgt[v] /\ op'[v] = op[v]
<1>1. ASSUME NEW w \in Workers, w # v, Begin(w)
      PROVE  pc'[v] = pc[v] /\ tgt'[v] = tgt[v] /\ op'[v] = op[v]
  BY <1>1 DEF Begin, TypeOK
<1>2. ASSUME NEW w \in Workers, w # v, Worker(w)
      PROVE  pc'[v] = pc[v] /\ tgt'[v] = tgt[v] /\ op'[v] = op[v]
  BY <1>2, WorkerMoves DEF Acquire, Leave, TypeOK
<1> QED
  BY <1>1, <1>2, OthersFrame DEF Next, vars, workerVars

\* While a worker makes a session, no live one appears on its target.
LEMMA MakingStep ==
  ASSUME TypeOK, LockInv, MakingInv, [Next]_vars
  PROVE  MakingInv'
<1> DEFINE Making == {"adopt", "attaching", "enabling"}
<1> SUFFICES ASSUME NEW v \in Workers, pc'[v] \in Making
             PROVE  sessions'[tgt'[v]].state # "attached"
  BY DEF MakingInv
<1>1. CASE Begin(v)
  BY <1>1 DEF Begin, TypeOK
<1>2. CASE Worker(v)
  <2>1. CASE DropStale(v)
    BY <2>1 DEF DropStale, NoSession, TypeOK
  <2> QED
    BY <1>2, <2>1, MakingStarts DEF MakingInv
<1>3. CASE ~Begin(v) /\ ~Worker(v)
  <2>1. pc[v] \in Making /\ tgt'[v] = tgt[v] /\ tgt[v] \in Targets
        /\ sessions[tgt[v]].state # "attached"
    BY <1>3, OtherStays DEF MakingInv, TypeOK
  <2>2. ASSUME NEW w \in Workers, Register(w)
        PROVE  sessions'[tgt[v]].state # "attached"
    <3>1. w # v
      BY <1>3, <2>2 DEF Worker
    <3>2. tgt[w] # tgt[v]
      BY <2>1, <2>2, <3>1 DEF Register, LockInv, Inside
    <3> QED
      BY <2>1, <2>2, <3>2 DEF Register, TypeOK
  <2>3. ASSUME NEW w \in Workers, DropStale(w)
        PROVE  sessions'[tgt[v]].state # "attached"
    BY <2>1, <2>3 DEF DropStale, NoSession, TypeOK
  <2>4. ASSUME NEW t \in Targets, Forget(t)
        PROVE  sessions'[tgt[v]].state # "attached"
    BY <2>1, <2>4 DEF Forget, NoSession, TypeOK
  <2>5. ASSUME NEW t \in Targets, NEW st \in Dead, sessions' = Marked(t, st)
        PROVE  sessions'[tgt[v]].state # "attached"
    BY <2>1, <2>5, MarkedKeeps
  <2> QED
    BY <2>1, <2>2, <2>3, <2>4, <2>5, SessionsChange
<1> QED
  BY <1>1, <1>2, <1>3

\* No step but forget() takes a live session out of the registry.
LEMMA LiveStays ==
  ASSUME TypeOK, MakingInv, [Next]_vars, NEW t \in Targets, sessions[t].state = "attached"
  PROVE  sessions'[t].sid = sessions[t].sid \/ Forget(t)
<1>1. ASSUME NEW w \in Workers, Register(w)
      PROVE  sessions'[t].sid = sessions[t].sid
  BY <1>1 DEF Register, MakingInv, TypeOK
<1>2. ASSUME NEW w \in Workers, DropStale(w)
      PROVE  sessions'[t].sid = sessions[t].sid
  BY <1>2 DEF DropStale, TypeOK
<1>3. ASSUME NEW u \in Targets, Forget(u), u # t
      PROVE  sessions'[t].sid = sessions[t].sid
  BY <1>3 DEF Forget, TypeOK
<1>4. ASSUME NEW u \in Targets, NEW st \in Dead, sessions' = Marked(u, st)
      PROVE  sessions'[t].sid = sessions[t].sid
  BY <1>4, MarkedKeeps
<1> QED
  BY <1>1, <1>2, <1>3, <1>4, SessionsChange

-----------------------------------------------------------------------------
(* The wire and the sessions the browser has opened.                       *)

LEMMA WiredTyped == ASSUME TypeOK PROVE Wired \subseteq Message
BY DEF TypeOK, Wired

LEMMA WiredSame == ASSUME wire' = wire PROVE Wired' = Wired
BY DEF Wired

LEMMA WiredTaken ==
  ASSUME wire \in Seq(Message), wire # <<>>, wire' = Tail(wire)
  PROVE  Wired' \subseteq Wired /\ Head(wire) \in Wired
<1>1. Len(wire) \in Nat \ {0} /\ Len(wire') = Len(wire) - 1
  OBVIOUS
<1>2. \A i \in 1..Len(wire') : wire'[i] = wire[i + 1] /\ i + 1 \in 1..Len(wire)
  BY <1>1
<1>3. Head(wire) = wire[1] /\ 1 \in 1..Len(wire)
  BY <1>1
<1> QED
  BY <1>2, <1>3 DEF Wired

LEMMA WiredAdded ==
  ASSUME wire \in Seq(Message), NEW m \in Message, Emit(m)
  PROVE  \A x \in Wired' : x \in Wired \/ x = m
<1>1. Len(wire) \in Nat /\ Len(wire') = Len(wire) + 1
  BY DEF Emit
<1>2. \A i \in 1..Len(wire') : wire'[i] = m \/ (i \in 1..Len(wire) /\ wire'[i] = wire[i])
  BY <1>1 DEF Emit
<1> QED
  BY <1>2 DEF Wired

\* What the browser adds to the wire: an answer, the attachment of a frame, or
\* a message that is neither.
LEMMA WiredChange ==
  ASSUME TypeOK, [Next]_vars, NEW m \in Wired', m \notin Wired
  PROVE  \/ \E w \in Workers : AnswerAttach(w) /\ m \in {Reply(w, TRUE, lastSid'), Reply(w, FALSE, 0)}
         \/ \E w \in Workers : AnswerCommand(w) /\ m \in {Reply(w, TRUE, 0), Reply(w, FALSE, 0)}
         \/ \E t \in Targets : AutoAttach(t) /\ m = AttachedEvent(t, lastSid')
         \/ m.kind \notin {"reply", "attached"}
<1> USE DEF regVars, workerVars, browserVars
<1>1. ASSUME NEW w \in Workers, Begin(w) \/ Worker(w)
      PROVE  FALSE
  <2>1. CASE Begin(w)
    BY <2>1, WiredSame DEF Begin
  <2>2. CASE Worker(w)
    BY <2>2, WiredSame
    DEF Worker, Acquire, FindLive, RaiseDead, DropStale, FindNone, TakeAdopted, SendAttach,
        Attached, AttachRefused, Register, RuntimeThere, SendRuntime, RuntimeRecorded,
        DomainsThere, SendDomains, DomainsRecorded, CommandRefused, RequestFails, Return
  <2> QED
    BY <1>1, <2>1, <2>2
<1>2. ASSUME NEW t \in Targets, Forget(t) \/ MarkDisconnected(t)
      PROVE  FALSE
  BY <1>2, WiredSame DEF Forget, MarkDisconnected
<1>3. CASE OnReply \/ OnAttachedToTarget \/ OnDetached \/ OnDestroyed \/ OnCrashed
           \/ OnInspectorCrashed \/ OnInspectorDetached
  BY <1>3, WiredTaken DEF OnReply, OnAttachedToTarget, OnDetached, OnDestroyed, OnCrashed,
     OnInspectorCrashed, OnInspectorDetached, Receive, TypeOK
<1> 0 \in 0..MaxSid /\ wire \in Seq(Message)
  BY BoundAssumption DEF TypeOK
<1>4. ASSUME NEW w \in Workers, AnswerAttach(w)
      PROVE  m \in {Reply(w, TRUE, lastSid'), Reply(w, FALSE, 0)}
  <2>1. tgt[w] \in Targets /\ req[w] \in Nat
    BY DEF TypeOK
  <2>2. CASE Open(tgt[w]) /\ Emit(Reply(w, TRUE, lastSid'))
    <3>1. lastSid' \in 0..MaxSid
      BY <2>1, <2>2, Opened, BoundAssumption DEF Sids
    <3> QED
      BY <2>1, <2>2, <3>1, MessageMade, WiredAdded
  <2>3. CASE Emit(Reply(w, FALSE, 0))
    BY <2>1, <2>3, MessageMade, WiredAdded
  <2> QED
    BY <1>4, <2>2, <2>3 DEF AnswerAttach
<1>5. ASSUME NEW w \in Workers, AnswerCommand(w)
      PROVE  m \in {Reply(w, TRUE, 0), Reply(w, FALSE, 0)}
  <2>1. Reply(w, TRUE, 0) \in Message /\ Reply(w, FALSE, 0) \in Message
    BY MessageMade DEF TypeOK
  <2> QED
    BY <1>5, <2>1, WiredAdded DEF AnswerCommand
<1>6. ASSUME NEW t \in Targets, AutoAttach(t)
      PROVE  m = AttachedEvent(t, lastSid')
  BY <1>6, Opened, MessageMade, WiredAdded DEF AutoAttach, Notify
<1>7. ASSUME NEW t \in Targets, Destroy(t) \/ Crash(t)
      PROVE  m.kind \notin {"reply", "attached"}
  <2>1. CASE Destroy(t)
    <3>1. m = TargetEvent("destroyed", t)
      BY <2>1, MessageMade, WiredAdded DEF Destroy, Notify
    <3> QED
      BY <3>1 DEF TargetEvent
  <2>2. CASE Emit(TargetEvent("crashed", t))
    <3>1. m = TargetEvent("crashed", t)
      BY <2>2, MessageMade, WiredAdded
    <3> QED
      BY <3>1 DEF TargetEvent
  <2>3. ASSUME NEW s \in Sids, Emit(SessionEvent("inspectorCrashed", s))
        PROVE  m.kind \notin {"reply", "attached"}
    <3>1. m = SessionEvent("inspectorCrashed", s)
      BY <2>3, MessageMade, WiredAdded
    <3> QED
      BY <3>1 DEF SessionEvent
  <2> QED
    BY <1>7, <2>1, <2>2, <2>3 DEF Crash, Notify, TypeOK
<1>8. ASSUME NEW s \in Sids, Detach(s)
      PROVE  m.kind \notin {"reply", "attached"}
  <2>1. m = SessionEvent("detached", s)
    BY <1>8, MessageMade, WiredAdded DEF Detach, Notify
  <2> QED
    BY <2>1 DEF SessionEvent
<1>9. CASE GoingAway
  <2>1. m = [kind |-> "inspectorDetached"]
    BY <1>9, MessageMade, WiredAdded DEF GoingAway, Notify
  <2> QED
    BY <2>1
<1>10. CASE LoseConnection
  BY <1>10 DEF LoseConnection, Wired
<1>11. CASE UNCHANGED vars
  BY <1>11, WiredSame DEF vars
<1> QED
  BY <1>1, <1>2, <1>3, <1>4, <1>5, <1>6, <1>7, <1>8, <1>9, <1>10, <1>11 DEF Next, Reader, Browser

\* Session ids are handed out in order; an enabled session stays enabled.
LEMMA BrowserGrows ==
  ASSUME TypeOK, [Next]_vars
  PROVE  /\ UNCHANGED <<owner, lastSid>> \/ \E t \in Targets : Open(t)
         /\ enabled \subseteq enabled'
<1> USE DEF browserVars
<1>1. ASSUME NEW w \in Workers, Begin(w) \/ Worker(w)
      PROVE  UNCHANGED <<owner, lastSid, enabled>>
  <2>1. CASE Begin(w)
    BY <2>1 DEF Begin
  <2>2. CASE Worker(w)
    BY <2>2
    DEF Worker, Acquire, FindLive, RaiseDead, DropStale, FindNone, TakeAdopted, SendAttach,
        Attached, AttachRefused, Register, RuntimeThere, SendRuntime, RuntimeRecorded,
        DomainsThere, SendDomains, DomainsRecorded, CommandRefused, RequestFails, Return
  <2> QED
    BY <1>1, <2>1, <2>2
<1>2. CASE (\E t \in Targets : Forget(t)) \/ Reader
  BY <1>2 DEF Forget, Reader, OnReply, OnAttachedToTarget, OnDetached, OnDestroyed, OnCrashed,
     OnInspectorCrashed, OnInspectorDetached, MarkDisconnected
<1>3. CASE Browser
  BY <1>3 DEF Browser, AnswerAttach, AnswerCommand, AutoAttach, Detach, Destroy, Crash,
     GoingAway, LoseConnection, TypeOK
<1> QED
  BY <1>1, <1>2, <1>3 DEF Next, vars

LEMMA OwnerKept ==
  ASSUME TypeOK, FreshInv, [Next]_vars
  PROVE  /\ FreshInv'
         /\ \A s \in Sids : owner[s] # None => owner'[s] = owner[s]
<1>1. CASE UNCHANGED <<owner, lastSid>>
  BY <1>1 DEF FreshInv
<1>2. ASSUME NEW t \in Targets, Open(t)
      PROVE  /\ FreshInv'
             /\ \A s \in Sids : owner[s] # None => owner'[s] = owner[s]
  BY <1>2, BoundAssumption DEF FreshInv, Open, TypeOK, Sids
<1> QED
  BY <1>1, <1>2, BrowserGrows

\* A request begins with a fresh number, or nothing a reply is matched against
\* changes under way to where the reply is awaited.
LEMMA RequestsGrow ==
  ASSUME TypeOK, [Next]_vars, NEW w \in Workers
  PROVE  \/ req'[w] = req[w] + 1
         \/ /\ req'[w] = req[w]
            /\ pc'[w] \in {"attaching", "enabling"} =>
                 pc'[w] = pc[w] /\ tgt'[w] = tgt[w]
<1>1. CASE Begin(w)
  BY <1>1 DEF Begin, TypeOK
<1>2. CASE Worker(w)
  <2>1. CASE TakeAdopted(w) \/ SendAttach(w) \/ Attached(w) \/ SendRuntime(w) \/ SendDomains(w)
    BY <2>1 DEF TakeAdopted, SendAttach, Attached, SendRuntime, SendDomains, Send, TypeOK
  <2>2. CASE FindLive(w) \/ Register(w)
    BY <2>2 DEF FindLive, Register, AfterReady, TypeOK
  <2>3. CASE Acquire(w) \/ DropStale(w) \/ FindNone(w) \/ RuntimeThere(w) \/ RuntimeRecorded(w)
             \/ DomainsThere(w) \/ DomainsRecorded(w)
    BY <2>3 DEF Acquire, DropStale, FindNone, RuntimeThere, RuntimeRecorded, DomainsThere,
       DomainsRecorded, TypeOK
  <2>4. CASE RaiseDead(w) \/ AttachRefused(w) \/ CommandRefused(w) \/ RequestFails(w) \/ Return(w)
    BY <2>4 DEF RaiseDead, AttachRefused, CommandRefused, RequestFails, Return, Leave, TypeOK
  <2> QED
    BY <1>2, <2>1, <2>2, <2>3, <2>4 DEF Worker
<1>3. CASE ~Begin(w) /\ ~Worker(w)
  <2>1. req'[w] = req[w]
    <3>1. ASSUME NEW v \in Workers, v # w, Begin(v) \/ Worker(v)
          PROVE  req'[w] = req[w]
      BY <3>1 DEF Begin, Worker, Acquire, FindLive, RaiseDead, DropStale, FindNone, TakeAdopted,
         SendAttach, Attached, AttachRefused, Register, RuntimeThere, SendRuntime,
         RuntimeRecorded, DomainsThere, SendDomains, DomainsRecorded, CommandRefused,
         RequestFails, Return, Send, TypeOK
    <3> QED
      BY <1>3, <3>1, OthersFrame DEF Next, vars, workerVars
  <2> QED
    BY <1>3, <2>1, OtherStays
<1> QED
  BY <1>1, <1>2, <1>3

LEMMA AskStep ==
  ASSUME TypeOK, AskInv, [Next]_vars
  PROVE  AskInv'
<1> SUFFICES ASSUME NEW v \in Workers
             PROVE  /\ pc'[v] = "attaching" => ask'[v] \in {"none", "attach"}
                    /\ pc'[v] = "enabling"  => ask'[v] \in {"none", "enable"}
  BY DEF AskInv
<1>1. ASSUME NEW w \in Workers, Begin(w)
      PROVE  ask'[v] \in {"none", ask[v]}
  BY <1>1 DEF Begin, TypeOK
<1>2. ASSUME NEW w \in Workers, Worker(w)
      PROVE  \/ ask'[v] = ask[v]
             \/ pc'[v] = "attaching" /\ ask'[v] \in {"none", "attach"}
             \/ pc'[v] = "enabling" /\ ask'[v] \in {"none", "enable"}
             \/ pc'[v] \in {"arming", "widening"}
  <2>1. CASE TakeAdopted(w) \/ SendAttach(w) \/ Attached(w) \/ SendRuntime(w) \/ SendDomains(w)
    BY <2>1 DEF TakeAdopted, SendAttach, Attached, SendRuntime, SendDomains, Send, TypeOK
  <2>2. CASE ask' = ask
    BY <2>2
  <2> QED
    BY <1>2, <2>1, <2>2 DEF Worker, Acquire, FindLive, RaiseDead, DropStale, FindNone,
       AttachRefused, Register, RuntimeThere, RuntimeRecorded, DomainsThere, DomainsRecorded,
       CommandRefused, RequestFails, Return, browserVars
<1>3. ASSUME (\E t \in Targets : Forget(t)) \/ Reader \/ Browser
      PROVE  pc'[v] = pc[v] /\ ask'[v] \in {"none", ask[v]}
  <2>1. CASE (\E t \in Targets : Forget(t)) \/ Reader
    BY <2>1, OthersFrame DEF Forget, Reader, OnReply, OnAttachedToTarget, OnDetached,
       OnDestroyed, OnCrashed, OnInspectorCrashed, OnInspectorDetached, MarkDisconnected,
       browserVars
  <2>2. CASE Browser
    BY <2>2, OthersFrame DEF Browser, AnswerAttach, AnswerCommand, AutoAttach, Detach, Destroy,
       Crash, GoingAway, LoseConnection, browserVars, TypeOK
  <2> QED
    BY <1>3, <2>1, <2>2
<1>4. pc'[v] \in {"attaching", "enabling"} => pc'[v] = pc[v] \/ req'[v] = req[v] + 1
  BY RequestsGrow
<1>5. CASE req'[v] = req[v] + 1
  <2>1. \E w \in Workers : Worker(w) /\ w = v
    <3>1. ASSUME NEW w \in Workers, Begin(w)
          PROVE  FALSE
      BY <1>5, <3>1 DEF Begin, TypeOK
    <3>2. ASSUME NEW w \in Workers, Worker(w), w # v
          PROVE  FALSE
      BY <1>5, <3>2 DEF Worker, Acquire, FindLive, RaiseDead, DropStale, FindNone, TakeAdopted,
         SendAttach, Attached, AttachRefused, Register, RuntimeThere, SendRuntime,
         RuntimeRecorded, DomainsThere, SendDomains, DomainsRecorded, CommandRefused,
         RequestFails, Return, Send, TypeOK
    <3> QED
      BY <1>5, <3>1, <3>2, OthersFrame DEF Next, vars, workerVars, TypeOK
  <2>2. TakeAdopted(v) \/ SendAttach(v) \/ Attached(v) \/ SendRuntime(v) \/ SendDomains(v)
    BY <1>5, <2>1 DEF Worker, Acquire, FindLive, RaiseDead, DropStale, FindNone,
       AttachRefused, Register, RuntimeThere, RuntimeRecorded, DomainsThere, DomainsRecorded,
       CommandRefused, RequestFails, Return, TypeOK
  <2> QED
    BY <2>2 DEF TakeAdopted, SendAttach, Attached, SendRuntime, SendDomains, Send, TypeOK
<1>6. CASE pc'[v] = pc[v]
  BY <1>1, <1>2, <1>3, <1>6 DEF Next, vars, browserVars, AskInv
<1> QED
  BY <1>4, <1>5, <1>6

\* What a worker's session may become.
LEMMA SidChange ==
  ASSUME TypeOK, [Next]_vars, NEW v \in Workers
  PROVE  \/ sid'[v] = sid[v]
         \/ Begin(v) \/ FindLive(v) \/ TakeAdopted(v)
         \/ OnReply /\ Head(wire).to = v /\ Awaited(Head(wire)) /\ pc[v] = "attaching"
<1>1. ASSUME NEW w \in Workers, Begin(w)
      PROVE  w = v \/ sid'[v] = sid[v]
  BY <1>1 DEF Begin, TypeOK
<1>2. ASSUME NEW w \in Workers, Worker(w)
      PROVE  \/ sid'[v] = sid[v]
             \/ w = v /\ (FindLive(v) \/ TakeAdopted(v))
  <2>1. CASE FindLive(w) \/ TakeAdopted(w)
    BY <2>1 DEF FindLive, TakeAdopted, TypeOK
  <2> QED
    BY <1>2, <2>1 DEF Worker, Acquire, RaiseDead, DropStale, FindNone, SendAttach, Attached,
       AttachRefused, Register, RuntimeThere, SendRuntime, RuntimeRecorded, DomainsThere,
       SendDomains, DomainsRecorded, CommandRefused, RequestFails, Return
<1>3. CASE OnReply
  BY <1>3 DEF OnReply, TypeOK
<1>4. CASE UNCHANGED workerVars
  BY <1>4 DEF workerVars
<1> QED
  BY <1>1, <1>2, <1>3, <1>4 DEF Next, vars, Forget, Reader, OnAttachedToTarget, OnDetached,
     OnDestroyed, OnCrashed, OnInspectorCrashed, OnInspectorDetached, MarkDisconnected,
     Browser, AnswerAttach, AnswerCommand, AutoAttach, Detach, Destroy, Crash, GoingAway,
     LoseConnection, workerVars

LEMMA ReplyStep ==
  ASSUME TypeOK, AskInv, FreshInv, ReplyInv, [Next]_vars
  PROVE  ReplyInv'
<1> SUFFICES ASSUME NEW m \in Wired', m.kind = "reply"
             PROVE  /\ m.no <= req'[m.to]
                    /\ m.ok /\ m.no = req'[m.to] =>
                         /\ pc'[m.to] = "attaching" => m.sid \in Sids /\ owner'[m.sid] = tgt'[m.to]
                         /\ pc'[m.to] = "enabling"  => sid'[m.to] \in enabled'
  BY DEF ReplyInv
<1>1. CASE m \in Wired
  <2> DEFINE w == m.to
  <2>1. w \in Workers /\ m.no \in Nat /\ m.no <= req[w] /\ req[w] \in Nat
    BY <1>1, WiredTyped, MessageShape DEF ReplyInv, TypeOK
  <2>2. CASE req'[w] = req[w] + 1
    BY <2>1, <2>2
  <2>3. CASE req'[w] = req[w] /\ m.ok /\ m.no = req[w] /\ pc'[w] = "attaching"
    <3>1. pc[w] = "attaching" /\ tgt'[w] = tgt[w]
      BY <2>1, <2>3, RequestsGrow
    <3>2. m.sid \in Sids /\ owner[m.sid] = tgt[w] /\ tgt[w] # None
      BY <1>1, <2>1, <2>3, <3>1, NoneAssumption DEF ReplyInv, TypeOK
    <3> QED
      BY <2>1, <2>3, <3>1, <3>2, OwnerKept
  <2>4. CASE req'[w] = req[w] /\ m.ok /\ m.no = req[w] /\ pc'[w] = "enabling"
    <3>1. pc[w] = "enabling"
      BY <2>1, <2>4, RequestsGrow
    <3>2. sid[w] \in enabled
      BY <1>1, <2>1, <2>4, <3>1 DEF ReplyInv
    <3>3. sid'[w] = sid[w]
      BY <2>1, <3>1, SidChange DEF Begin, FindLive, TakeAdopted
    <3> QED
      BY <2>1, <2>4, <3>2, <3>3, BrowserGrows
  <2> QED
    BY <2>1, <2>2, <2>3, <2>4, RequestsGrow
<1>2. ASSUME NEW w \in Workers, AnswerAttach(w), m \in {Reply(w, TRUE, lastSid'), Reply(w, FALSE, 0)}, m \notin Wired
      PROVE  /\ m.no <= req'[m.to]
             /\ m.ok /\ m.no = req'[m.to] =>
                  /\ pc'[m.to] = "attaching" => m.sid \in Sids /\ owner'[m.sid] = tgt'[m.to]
                  /\ pc'[m.to] = "enabling"  => sid'[m.to] \in enabled'
  <2> 0 \in 0..MaxSid /\ req[w] \in Nat
    BY BoundAssumption DEF TypeOK
  <2>0. Reply(w, FALSE, 0) \in Message /\ wire \in Seq(Message)
    BY MessageMade DEF TypeOK
  <2>1. m.to = w /\ m.no = req[w] /\ req[w] \in Nat
    BY <1>2 DEF Reply, TypeOK
  <2>2. UNCHANGED <<pc, tgt, req>>
    BY <1>2 DEF AnswerAttach, workerVars
  <2>3. pc[w] # "enabling"
    BY <1>2 DEF AnswerAttach, AskInv
  <2>4. ASSUME m.ok
        PROVE  m.sid \in Sids /\ owner'[m.sid] = tgt[w]
    <3>1. m = Reply(w, TRUE, lastSid') /\ m.sid = lastSid'
      BY <1>2, <2>4 DEF Reply
    <3>2. Reply(w, TRUE, lastSid') # Reply(w, FALSE, 0)
      BY DEF Reply
    <3>3. Open(tgt[w])
      <4>1. CASE Emit(Reply(w, FALSE, 0))
        <5>1. m = Reply(w, FALSE, 0)
          BY <1>2, <2>0, <4>1, WiredAdded
        <5> QED
          BY <3>1, <3>2, <5>1
      <4> QED
        BY <1>2, <4>1 DEF AnswerAttach
    <3> QED
      BY <3>1, <3>3, Opened DEF Open, TypeOK
  <2> QED
    BY <2>1, <2>2, <2>3, <2>4
<1>3. ASSUME NEW w \in Workers, AnswerCommand(w), m \in {Reply(w, TRUE, 0), Reply(w, FALSE, 0)}, m \notin Wired
      PROVE  /\ m.no <= req'[m.to]
             /\ m.ok /\ m.no = req'[m.to] =>
                  /\ pc'[m.to] = "attaching" => m.sid \in Sids /\ owner'[m.sid] = tgt'[m.to]
                  /\ pc'[m.to] = "enabling"  => sid'[m.to] \in enabled'
  <2> 0 \in 0..MaxSid /\ req[w] \in Nat
    BY BoundAssumption DEF TypeOK
  <2>0. Reply(w, FALSE, 0) \in Message /\ wire \in Seq(Message)
    BY MessageMade DEF TypeOK
  <2>1. m.to = w /\ m.no = req[w] /\ req[w] \in Nat
    BY <1>3 DEF Reply, TypeOK
  <2>2. UNCHANGED <<pc, tgt, req, sid>>
    BY <1>3 DEF AnswerCommand, workerVars
  <2>3. pc[w] # "attaching" /\ (pc[w] = "enabling" => ask[w] = "enable")
    BY <1>3 DEF AnswerCommand, AskInv
  <2>4. ASSUME m.ok, pc[w] = "enabling"
        PROVE  sid[w] \in enabled'
    <3>1. m # Reply(w, FALSE, 0)
      BY <2>4 DEF Reply
    <3>2. ~Emit(Reply(w, FALSE, 0))
      BY <1>3, <2>0, <3>1, WiredAdded
    <3> QED
      BY <1>3, <2>3, <2>4, <3>2 DEF AnswerCommand
  <2> QED
    BY <2>1, <2>2, <2>3, <2>4
<1>4. ~ \E t \in Targets : m = AttachedEvent(t, lastSid')
  BY DEF AttachedEvent
<1> QED
  BY <1>1, <1>2, <1>3, <1>4, WiredChange

LEMMA EventStep ==
  ASSUME TypeOK, FreshInv, EventInv, [Next]_vars
  PROVE  EventInv'
<1> SUFFICES ASSUME NEW m \in Wired', m.kind = "attached"
             PROVE  owner'[m.sid] = m.tgt
  BY DEF EventInv
<1>1. CASE m \in Wired
  <2>1. m.sid \in Sids /\ owner[m.sid] = m.tgt /\ m.tgt # None
    BY <1>1, WiredTyped, MessageShape, NoneAssumption DEF EventInv
  <2> QED
    BY <2>1, OwnerKept
<1>2. ASSUME NEW t \in Targets, AutoAttach(t), m = AttachedEvent(t, lastSid')
      PROVE  owner'[m.sid] = m.tgt
  <2>1. m.sid = lastSid' /\ m.tgt = t
    BY <1>2 DEF AttachedEvent
  <2>2. Open(t)
    BY <1>2 DEF AutoAttach
  <2> QED
    BY <2>1, <2>2, Opened DEF Open, TypeOK
<1>3. ~ \E w \in Workers, b \in BOOLEAN : \E n \in {0, lastSid'} : m = Reply(w, b, n)
  BY DEF Reply
<1> QED
  BY <1>1, <1>2, <1>3, WiredChange

-----------------------------------------------------------------------------
(* Whose session it is.                                                    *)

\* A worker has a session because it had one, or because it has just found,
\* adopted or been given one.
LEMMA HoldingStarts ==
  ASSUME TypeOK, NEW v \in Workers, Worker(v),
         pc'[v] \in HasSession \/ (pc'[v] = "attaching" /\ ans'[v] = "ok")
  PROVE  \/ FindLive(v) \/ TakeAdopted(v)
         \/ pc[v] \in HasSession \/ (pc[v] = "attaching" /\ ans[v] = "ok")
<1> USE DEF HasSession, Served
<1>1. CASE SendAttach(v)
  BY <1>1 DEF SendAttach, Send, TypeOK
<1>2. CASE Acquire(v) \/ DropStale(v) \/ FindNone(v)
  BY <1>2 DEF Acquire, DropStale, FindNone, TypeOK
<1>3. CASE RaiseDead(v) \/ AttachRefused(v) \/ CommandRefused(v) \/ RequestFails(v) \/ Return(v)
  BY <1>3 DEF RaiseDead, AttachRefused, CommandRefused, RequestFails, Return, Leave, TypeOK
<1> QED
  BY <1>1, <1>2, <1>3 DEF Worker, Attached, Register, RuntimeThere, SendRuntime,
     RuntimeRecorded, DomainsThere, SendDomains, DomainsRecorded

\* An answer changes while its worker waits, and only by the reply it awaits.
LEMMA AnswerChange ==
  ASSUME TypeOK, [Next]_vars, NEW v \in Workers, ~Begin(v), ~Worker(v)
  PROVE  \/ ans'[v] = ans[v]
         \/ OnReply /\ Head(wire).to = v /\ Awaited(Head(wire))
            /\ (ans'[v] = "ok" => Head(wire).ok)
<1>1. ASSUME NEW w \in Workers, w # v, Begin(w) \/ Worker(w)
      PROVE  ans'[v] = ans[v]
  BY <1>1 DEF Begin, Worker, Acquire, FindLive, RaiseDead, DropStale, FindNone, TakeAdopted,
     SendAttach, Attached, AttachRefused, Register, RuntimeThere, SendRuntime,
     RuntimeRecorded, DomainsThere, SendDomains, DomainsRecorded, CommandRefused,
     RequestFails, Return, Send, Leave, TypeOK
<1>2. CASE OnReply
  BY <1>2 DEF OnReply, TypeOK
<1>3. CASE UNCHANGED ans
  BY <1>3
<1> QED
  BY <1>1, <1>2, <1>3 DEF Next, vars, Forget, Reader, OnAttachedToTarget, OnDetached,
     OnDestroyed, OnCrashed, OnInspectorCrashed, OnInspectorDetached, MarkDisconnected,
     Browser, AnswerAttach, AnswerCommand, AutoAttach, Detach, Destroy, Crash, GoingAway,
     LoseConnection, workerVars

LEMMA HoldingStep ==
  ASSUME IInv, [Next]_vars
  PROVE  HoldingInv'
<1> USE DEF IInv
<1> SUFFICES ASSUME NEW v \in Workers,
                    pc'[v] \in HasSession \/ (pc'[v] = "attaching" /\ ans'[v] = "ok")
             PROVE  sid'[v] \in Sids /\ owner'[sid'[v]] = tgt'[v]
  BY DEF HoldingInv
<1>t. tgt[v] \in Targets /\ tgt[v] # None /\ (~Begin(v) => tgt'[v] = tgt[v])
  BY WorkerMoves, OtherStays, NoneAssumption DEF TypeOK
<1>1. CASE Begin(v)
  BY <1>1 DEF Begin, HasSession, Served, TypeOK
<1>2. CASE FindLive(v)
  <2>1. sid'[v] = sessions[tgt[v]].sid /\ sid'[v] \in Sids /\ owner[sid'[v]] = tgt[v]
    BY <1>t, <1>2 DEF FindLive, RegisteredInv, TypeOK
  <2> QED
    BY <1>t, <1>2, <2>1, OwnerKept DEF FindLive
<1>3. CASE TakeAdopted(v)
  <2>1. sid'[v] = adopted[tgt[v]] /\ adopted[tgt[v]] # 0 /\ adopted[tgt[v]] \in 0..MaxSid
    BY <1>t, <1>3 DEF TakeAdopted, TypeOK
  <2>2. sid'[v] \in Sids /\ owner[sid'[v]] = tgt[v]
    BY <1>t, <2>1, BoundAssumption DEF AdoptedInv, Sids
  <2> QED
    BY <1>t, <1>3, <2>2, OwnerKept DEF TakeAdopted
<1>4. CASE OnReply /\ Head(wire).to = v /\ Awaited(Head(wire)) /\ pc[v] = "attaching"
  <2> DEFINE m == Head(wire)
  <2>1. m \in Wired /\ m \in Message /\ m.kind = "reply"
    BY <1>4, WiredTaken, Received DEF OnReply, Receive, TypeOK
  <2>2. pc' = pc /\ tgt' = tgt /\ ans'[v] = (IF m.ok THEN "ok" ELSE "err") /\ sid'[v] = m.sid
    BY <1>4 DEF OnReply, TypeOK
  <2>3. m.ok /\ m.no = req[v]
    BY <1>4, <2>2 DEF HasSession, Served, Awaited
  <2>4. m.sid \in Sids /\ owner[m.sid] = tgt[v]
    BY <1>4, <2>1, <2>3 DEF ReplyInv
  <2> QED
    BY <1>t, <2>2, <2>4, OwnerKept
<1>5. CASE sid'[v] = sid[v] /\ ~Begin(v) /\ ~FindLive(v) /\ ~TakeAdopted(v)
           /\ ~(OnReply /\ Head(wire).to = v /\ Awaited(Head(wire)) /\ pc[v] = "attaching")
  <2>1. pc[v] \in HasSession \/ (pc[v] = "attaching" /\ ans[v] = "ok")
    <3>1. CASE Worker(v)
      BY <1>5, <3>1, HoldingStarts
    <3>2. CASE ~Worker(v)
      BY <1>5, <3>2, OtherStays, AnswerChange
    <3> QED
      BY <3>1, <3>2
  <2>2. sid[v] \in Sids /\ owner[sid[v]] = tgt[v]
    BY <2>1 DEF HoldingInv
  <2> QED
    BY <1>t, <1>5, <2>2, OwnerKept
<1> QED
  BY <1>1, <1>2, <1>3, <1>4, <1>5, SidChange

LEMMA EnabledStep ==
  ASSUME IInv, [Next]_vars
  PROVE  EnabledInv'
<1> USE DEF IInv
<1> SUFFICES ASSUME NEW v \in Workers,
                    pc'[v] \in Served \/ (pc'[v] = "enabling" /\ ans'[v] = "ok")
             PROVE  sid'[v] \in enabled'
  BY DEF EnabledInv
<1>1. CASE Begin(v)
  BY <1>1 DEF Begin, Served, TypeOK
<1>2. CASE FindLive(v)
  <2>1. sid'[v] = sessions[tgt[v]].sid /\ sid'[v] \in enabled
    BY <1>2 DEF FindLive, RegisteredInv, TypeOK
  <2> QED
    BY <2>1, BrowserGrows
<1>3. CASE TakeAdopted(v)
  BY <1>3 DEF TakeAdopted, Send, Served, TypeOK
<1>4. CASE sid'[v] = sid[v] /\ Worker(v) /\ ~TakeAdopted(v)
  <2>1. pc[v] \in Served \/ (pc[v] = "enabling" /\ ans[v] = "ok") \/ FindLive(v)
    <3> USE DEF Served
    <3>1. CASE SendAttach(v) \/ Attached(v)
      BY <3>1 DEF SendAttach, Attached, Send, TypeOK
    <3>2. CASE Acquire(v) \/ DropStale(v) \/ FindNone(v)
      BY <3>2 DEF Acquire, DropStale, FindNone, TypeOK
    <3>3. CASE RaiseDead(v) \/ AttachRefused(v) \/ CommandRefused(v) \/ RequestFails(v) \/ Return(v)
      BY <3>3 DEF RaiseDead, AttachRefused, CommandRefused, RequestFails, Return, Leave, TypeOK
    <3> QED
      BY <1>4, <3>1, <3>2, <3>3 DEF Worker, Register, EnableSucceeded, RuntimeThere, SendRuntime,
         RuntimeRecorded, DomainsThere, SendDomains, DomainsRecorded
  <2> QED
    BY <1>2, <1>4, <2>1, BrowserGrows DEF EnabledInv
<1>5. CASE ~Worker(v) /\ ~Begin(v) /\ sid'[v] = sid[v]
  <2>1. pc'[v] = pc[v]
    BY <1>5, OtherStays
  <2>2. CASE ans'[v] = ans[v] \/ pc[v] \in Served
    BY <1>5, <2>1, <2>2, BrowserGrows DEF EnabledInv
  <2>3. CASE pc[v] = "enabling" /\ OnReply /\ Head(wire).to = v /\ Awaited(Head(wire)) /\ Head(wire).ok
    <3>1. Head(wire) \in Wired /\ Head(wire).kind = "reply"
      BY <2>3, WiredTaken DEF OnReply, Receive, TypeOK
    <3>2. sid[v] \in enabled
      BY <2>3, <3>1 DEF ReplyInv, Awaited
    <3> QED
      BY <1>5, <3>2, BrowserGrows
  <2> QED
    BY <1>5, <2>1, <2>2, <2>3, AnswerChange
<1>6. CASE OnReply /\ pc[v] = "attaching" /\ Awaited(Head(wire))
  BY <1>6 DEF OnReply, Served
<1> QED
  BY <1>1, <1>2, <1>3, <1>4, <1>5, <1>6, SidChange DEF Worker

\* Every way in which the routing may change.
LEMMA RoutingChange ==
  ASSUME [Next]_vars
  PROVE  \/ \E w \in Workers : Register(w) \/ DropStale(w)
         \/ \E t \in Targets : Forget(t)
         \/ bySession' = bySession
<1>1. ASSUME NEW w \in Workers, Begin(w) \/ Worker(w), ~Register(w), ~DropStale(w)
      PROVE  bySession' = bySession
  BY <1>1 DEF Begin, Worker, Acquire, FindLive, RaiseDead, FindNone, TakeAdopted, SendAttach,
     Attached, AttachRefused, RuntimeThere, SendRuntime, RuntimeRecorded, DomainsThere,
     SendDomains, DomainsRecorded, CommandRefused, RequestFails, Return, regVars
<1>2. CASE Reader \/ Browser
  BY <1>2 DEF Reader, OnReply, OnAttachedToTarget, OnDetached, OnDestroyed, OnCrashed,
     OnInspectorCrashed, OnInspectorDetached, MarkDisconnected, Browser, AnswerAttach,
     AnswerCommand, AutoAttach, Detach, Destroy, Crash, GoingAway, LoseConnection, regVars
<1> QED
  BY <1>1, <1>2 DEF Next, vars, regVars

LEMMA RegisteredStep ==
  ASSUME IInv, [Next]_vars
  PROVE  RegisteredInv'
<1> USE DEF IInv
<1>1. ASSUME NEW s \in Sids, owner[s] # None
      PROVE  owner'[s] = owner[s]
  BY <1>1, OwnerKept
<1>2. ASSUME NEW w \in Workers, Register(w)
      PROVE  RegisteredInv'
  <2>1. sid[w] \in Sids /\ owner[sid[w]] = tgt[w] /\ tgt[w] \in Targets /\ sid[w] \in enabled
    BY <1>2 DEF Register, EnableSucceeded, HoldingInv, EnabledInv, HasSession, TypeOK
  <2>2. owner' = owner /\ enabled' = enabled
    BY <1>2 DEF Register, browserVars
  <2>3. ASSUME NEW t \in Targets, t # tgt[w]
        PROVE  sessions'[t] = sessions[t] /\ (sessions[t].state # "none" => sessions[t].sid # sid[w])
    BY <1>2, <2>1, <2>3 DEF Register, RegisteredInv, TypeOK
  <2>4. sessions'[tgt[w]] = [sid |-> sid[w], state |-> "attached"] /\ bySession'[sid[w]] = tgt[w]
    BY <1>2, <2>1 DEF Register, RoutedTo, TypeOK
  <2>5. \A s \in Sids : s # sid[w] => bySession'[s] = bySession[s]
    BY <1>2 DEF Register, RoutedTo, TypeOK
  <2> QED
    BY <2>1, <2>2, <2>3, <2>4, <2>5 DEF RegisteredInv
<1>3. ASSUME NEW w \in Workers, DropStale(w)
      PROVE  RegisteredInv'
  <2>1. sessions[tgt[w]].state # "none" /\ tgt[w] \in Targets
    BY <1>3 DEF DropStale, TypeOK
  <2>2. sessions'[tgt[w]] = NoSession
    BY <1>3, <2>1 DEF DropStale, TypeOK
  <2>3. ASSUME NEW t \in Targets, t # tgt[w], sessions[t].state # "none"
        PROVE  bySession'[sessions[t].sid] = bySession[sessions[t].sid]
    BY <1>3, <2>1, <2>3 DEF DropStale, RegisteredInv, TypeOK
  <2>4. \A t \in Targets : t # tgt[w] => sessions'[t] = sessions[t]
    BY <1>3 DEF DropStale, TypeOK
  <2> QED
    BY <1>3, <2>2, <2>3, <2>4 DEF RegisteredInv, NoSession, DropStale, browserVars
<1>4. ASSUME NEW u \in Targets, Forget(u)
      PROVE  RegisteredInv'
  <2>1. sessions'[u] = NoSession /\ owner' = owner /\ enabled' = enabled
    BY <1>4 DEF Forget, TypeOK, browserVars
  <2>2. \A t \in Targets : t # u => sessions'[t] = sessions[t]
    BY <1>4 DEF Forget, TypeOK
  <2>3. ASSUME NEW t \in Targets, t # u, sessions[t].state # "none"
        PROVE  bySession'[sessions[t].sid] = t
    <3>1. sessions[t].sid # sessions[u].sid
      BY <2>3 DEF RegisteredInv, Sids
    <3> QED
      BY <1>4, <2>3, <3>1 DEF Forget, RegisteredInv
  <2> QED
    BY <2>1, <2>2, <2>3 DEF RegisteredInv, NoSession
<1>5. CASE bySession' = bySession /\ \A t \in Targets :
             /\ sessions'[t].sid = sessions[t].sid
             /\ sessions'[t].state = "none" <=> sessions[t].state = "none"
  <2>1. ASSUME NEW t \in Targets, sessions[t].state # "none"
        PROVE  owner'[sessions[t].sid] = t /\ sessions[t].sid \in enabled'
    BY <1>1, <2>1, BrowserGrows, NoneAssumption DEF RegisteredInv
  <2> QED
    BY <1>5, <2>1 DEF RegisteredInv
<1> QED
  BY <1>2, <1>3, <1>4, <1>5, SessionsChange, RoutingChange, MarkedKeeps

LEMMA AdoptedStep ==
  ASSUME IInv, [Next]_vars
  PROVE  AdoptedInv'
<1> USE DEF IInv
<1>1. CASE adopted' = adopted
  <2> SUFFICES ASSUME NEW t \in Targets, adopted[t] # 0
               PROVE  owner'[adopted[t]] = t
    BY <1>1 DEF AdoptedInv
  <2>1. adopted[t] \in Sids /\ owner[adopted[t]] = t /\ t # None
    BY BoundAssumption, NoneAssumption DEF AdoptedInv, TypeOK, Sids
  <2> QED
    BY <2>1, OwnerKept
<1>2. CASE OnAttachedToTarget
  <2>1. Head(wire) \in Wired /\ Head(wire) \in Message /\ Head(wire).kind = "attached"
    BY <1>2, WiredTaken, Received DEF OnAttachedToTarget, Receive, TypeOK
  <2>2. owner[Head(wire).sid] = Head(wire).tgt
    BY <2>1 DEF EventInv
  <2> QED
    BY <1>2, <2>2 DEF OnAttachedToTarget, AdoptedInv, browserVars, TypeOK
<1>3. ASSUME NEW w \in Workers, TakeAdopted(w)
      PROVE  AdoptedInv'
  BY <1>3 DEF TakeAdopted, Popped, AdoptedInv, TypeOK
<1>4. ASSUME NEW w \in Workers, Begin(w) \/ Worker(w), ~TakeAdopted(w)
      PROVE  adopted' = adopted
  BY <1>4 DEF Begin, Worker, Acquire, FindLive, RaiseDead, DropStale, FindNone, SendAttach,
     Attached, AttachRefused, Register, RuntimeThere, SendRuntime, RuntimeRecorded,
     DomainsThere, SendDomains, DomainsRecorded, CommandRefused, RequestFails, Return, regVars
<1>5. ASSUME (\E t \in Targets : Forget(t)) \/ Reader \/ Browser \/ UNCHANGED vars, ~OnAttachedToTarget
      PROVE  adopted' = adopted
  BY <1>5 DEF Forget, Reader, OnReply, OnDetached, OnDestroyed, OnCrashed, OnInspectorCrashed,
     OnInspectorDetached, MarkDisconnected, Browser, AnswerAttach, AnswerCommand, AutoAttach,
     Detach, Destroy, Crash, GoingAway, LoseConnection, vars, regVars
<1> QED
  BY <1>1, <1>2, <1>3, <1>4, <1>5 DEF Next

LEMMA RoutedStep ==
  ASSUME IInv, [Next]_vars
  PROVE  RoutedInv'
<1> USE DEF IInv
<1> SUFFICES ASSUME NEW s \in Sids, bySession'[s] # None
             PROVE  owner'[s] = bySession'[s]
  BY DEF RoutedInv
<1>1. CASE bySession'[s] = bySession[s]
  <2>1. owner[s] = bySession[s]
    BY <1>1 DEF RoutedInv
  <2> QED
    BY <1>1, <2>1, OwnerKept
<1>2. ASSUME NEW w \in Workers, Register(w), bySession'[s] # bySession[s]
      PROVE  owner'[s] = bySession'[s]
  <2>1. s = sid[w] /\ bySession'[s] = tgt[w]
    BY <1>2 DEF Register, RoutedTo, TypeOK
  <2>2. owner[sid[w]] = tgt[w] /\ owner' = owner
    BY <1>2 DEF Register, HoldingInv, HasSession, browserVars
  <2> QED
    BY <2>1, <2>2
<1>3. ASSUME NEW w \in Workers, DropStale(w)
      PROVE  bySession'[s] = bySession[s]
  BY <1>3 DEF DropStale, TypeOK
<1>4. ASSUME NEW t \in Targets, Forget(t)
      PROVE  bySession'[s] = bySession[s]
  BY <1>4 DEF Forget, TypeOK
<1> QED
  BY <1>1, <1>2, <1>3, <1>4, RoutingChange

\* The runtime table and the list of domains change only where they are recorded.
LEMMA RecordsChange ==
  ASSUME [Next]_vars
  PROVE  \/ \E w \in Workers : RuntimeRecorded(w) \/ DomainsRecorded(w)
         \/ (\E t \in Targets : Forget(t)) /\ UNCHANGED <<armed, wide>>
         \/ UNCHANGED <<runtime, armed, wide>>
<1>1. ASSUME NEW w \in Workers, Begin(w) \/ Worker(w), ~RuntimeRecorded(w), ~DomainsRecorded(w)
      PROVE  UNCHANGED <<runtime, armed, wide>>
  BY <1>1 DEF Begin, Worker, Acquire, FindLive, RaiseDead, DropStale, FindNone, TakeAdopted,
     SendAttach, Attached, AttachRefused, Register, RuntimeThere, SendRuntime, DomainsThere,
     SendDomains, CommandRefused, RequestFails, Return, regVars, browserVars
<1>2. CASE Reader \/ Browser
  BY <1>2 DEF Reader, OnReply, OnAttachedToTarget, OnDetached, OnDestroyed, OnCrashed,
     OnInspectorCrashed, OnInspectorDetached, MarkDisconnected, Browser, AnswerAttach,
     AnswerCommand, AutoAttach, Detach, Destroy, Crash, GoingAway, LoseConnection, regVars,
     browserVars
<1> QED
  BY <1>1, <1>2 DEF Next, Forget, vars, regVars, browserVars

\* What a worker went through to be where it is.
LEMMA PathOf ==
  ASSUME TypeOK, NEW v \in Workers, Worker(v)
  PROVE  /\ pc'[v] \in {"runtime", "arming"} => pc[v] = "runtime" \/ op[v] = "prepare"
         /\ pc'[v] \in {"widen", "widening"} => pc[v] = "widen" \/ op[v] = "domains"
         /\ pc'[v] = "done" => \/ RuntimeThere(v) \/ RuntimeRecorded(v)
                               \/ DomainsThere(v) \/ DomainsRecorded(v)
                               \/ op[v] \notin {"prepare", "domains"}
<1>1. CASE FindLive(v) \/ Register(v)
  BY <1>1 DEF FindLive, Register, AfterReady, TypeOK
<1>2. CASE TakeAdopted(v) \/ SendAttach(v) \/ Attached(v) \/ SendRuntime(v) \/ SendDomains(v)
  BY <1>2 DEF TakeAdopted, SendAttach, Attached, SendRuntime, SendDomains, Send, TypeOK
<1>3. CASE RaiseDead(v) \/ AttachRefused(v) \/ CommandRefused(v) \/ RequestFails(v) \/ Return(v)
  BY <1>3 DEF RaiseDead, AttachRefused, CommandRefused, RequestFails, Return, Leave, TypeOK
<1>4. CASE Acquire(v) \/ DropStale(v) \/ FindNone(v)
  BY <1>4 DEF Acquire, DropStale, FindNone, TypeOK
<1>5. CASE RuntimeThere(v) \/ RuntimeRecorded(v) \/ DomainsThere(v) \/ DomainsRecorded(v)
  BY <1>5 DEF RuntimeThere, RuntimeRecorded, DomainsThere, DomainsRecorded, TypeOK
<1> QED
  BY <1>1, <1>2, <1>3, <1>4, <1>5 DEF Worker

LEMMA PreparedStep ==
  ASSUME IInv, [Next]_vars
  PROVE  PreparedInv'
<1> USE DEF IInv
<1>1. ASSUME NEW s \in Sids
      PROVE  armed'[s] >= armed[s] /\ (s \in wide => s \in wide')
  <2>1. ASSUME NEW w \in Workers, RuntimeRecorded(w) \/ DomainsRecorded(w)
        PROVE  armed'[s] >= armed[s] /\ (s \in wide => s \in wide')
    BY <2>1 DEF RuntimeRecorded, DomainsRecorded, browserVars, TypeOK
  <2>2. CASE UNCHANGED <<armed, wide>>
    BY <2>2 DEF TypeOK
  <2> QED
    BY <2>1, <2>2, RecordsChange
<1>2. ASSUME NEW t \in Targets, runtime'[t] # 0
      PROVE  armed'[runtime'[t]] > 0
  <2>1. CASE runtime'[t] = runtime[t]
    <3>1. runtime[t] \in Sids /\ armed[runtime[t]] > 0 /\ armed[runtime[t]] \in Nat
      BY <1>2, <2>1, BoundAssumption DEF PreparedInv, TypeOK, Sids
    <3>2. armed' [runtime[t]] >= armed[runtime[t]] /\ armed'[runtime[t]] \in Nat
      BY <1>1, <3>1, TypeStep DEF TypeOK
    <3> QED
      BY <2>1, <3>1, <3>2
  <2>2. ASSUME NEW w \in Workers, RuntimeRecorded(w), runtime'[t] # runtime[t]
        PROVE  armed'[runtime'[t]] > 0
    <3>1. sid[w] \in Sids /\ armed[sid[w]] \in Nat
      BY <2>2 DEF RuntimeRecorded, HoldingInv, HasSession, Served, TypeOK
    <3> QED
      BY <2>2, <3>1 DEF RuntimeRecorded, TypeOK
  <2>3. ASSUME NEW w \in Workers, DomainsRecorded(w)
        PROVE  runtime' = runtime
    BY <2>3 DEF DomainsRecorded
  <2>4. ASSUME NEW u \in Targets, Forget(u)
        PROVE  runtime'[t] = runtime[t]
    BY <1>2, <2>4 DEF Forget, TypeOK
  <2> QED
    BY <2>1, <2>2, <2>3, <2>4, RecordsChange
<1>3. ASSUME NEW v \in Workers, ~Begin(v)
      PROVE  /\ pc'[v] \in {"runtime", "arming"} => op'[v] = "prepare"
             /\ pc'[v] \in {"widen", "widening"} => op'[v] = "domains"
  BY <1>3, PathOf, WorkerMoves, OtherStays DEF PreparedInv
<1>4. ASSUME NEW v \in Workers, pc'[v] = "done", pc[v] = "done"
      PROVE  /\ op'[v] = "prepare" => armed'[sid'[v]] > 0
             /\ op'[v] = "domains" => sid'[v] \in wide'
  <2>1. ~Begin(v) /\ ~FindLive(v) /\ ~TakeAdopted(v)
    BY <1>4 DEF Begin, FindLive, TakeAdopted
  <2>2. sid'[v] = sid[v] /\ op'[v] = op[v]
    BY <1>4, <2>1, SidChange, WorkerMoves, OtherStays
  <2>3. sid[v] \in Sids /\ armed[sid[v]] \in Nat /\ armed'[sid[v]] \in Nat
    BY <1>4, TypeStep DEF HoldingInv, HasSession, Served, TypeOK
  <2>4. armed'[sid[v]] >= armed[sid[v]] /\ (sid[v] \in wide => sid[v] \in wide')
    BY <1>1, <2>3
  <2> QED
    BY <1>4, <2>2, <2>3, <2>4 DEF PreparedInv
<1>5. ASSUME NEW v \in Workers, pc'[v] = "done", pc[v] # "done"
      PROVE  /\ op'[v] = "prepare" => armed'[sid'[v]] > 0
             /\ op'[v] = "domains" => sid'[v] \in wide'
  <2>1. Worker(v)
    BY <1>5, OtherStays DEF Begin, TypeOK
  <2>2. op'[v] = op[v]
    BY <2>1, WorkerMoves
  <2>3. CASE RuntimeThere(v) \/ RuntimeRecorded(v)
    <3>1. op[v] = "prepare" /\ sid'[v] = sid[v] /\ sid[v] \in Sids /\ armed[sid[v]] \in Nat
      BY <2>3 DEF RuntimeThere, RuntimeRecorded, PreparedInv, HoldingInv, HasSession, Served, TypeOK
    <3>2. CASE RuntimeThere(v)
      BY <2>2, <3>1, <3>2 DEF RuntimeThere, RuntimeInstalled, PreparedInv, browserVars, TypeOK, Sids
    <3>3. CASE RuntimeRecorded(v)
      BY <2>2, <3>1, <3>3 DEF RuntimeRecorded, TypeOK
    <3> QED
      BY <2>3, <3>2, <3>3
  <2>4. CASE DomainsThere(v) \/ DomainsRecorded(v)
    BY <2>2, <2>4 DEF DomainsThere, DomainsRecorded, PreparedInv, regVars
  <2> QED
    BY <1>5, <2>1, <2>2, <2>3, <2>4, PathOf
<1>6. ASSUME NEW v \in Workers, Begin(v)
      PROVE  pc'[v] = "lock"
  BY <1>6 DEF Begin, TypeOK
<1> QED
  BY <1>2, <1>3, <1>4, <1>5, <1>6 DEF PreparedInv

-----------------------------------------------------------------------------
(* The theorems.                                                           *)

LEMMA InvInit == Init => IInv
<1> SUFFICES ASSUME Init PROVE IInv
  OBVIOUS
<1>1. TypeOK
  BY TypeInit
<1>2. Wired = {}
  BY DEF Init, Wired
<1>3. LockInv /\ MakingInv /\ AskInv /\ HoldingInv /\ EnabledInv
  BY DEF Init, LockInv, MakingInv, AskInv, HoldingInv, EnabledInv, Inside, HasSession, Served
<1>4. FreshInv /\ ReplyInv /\ EventInv
  BY <1>2 DEF Init, FreshInv, ReplyInv, EventInv
<1>5. RegisteredInv /\ AdoptedInv /\ RoutedInv /\ PreparedInv
  BY DEF Init, RegisteredInv, AdoptedInv, RoutedInv, PreparedInv, NoSession
<1> QED
  BY <1>1, <1>3, <1>4, <1>5 DEF IInv

LEMMA InvStep == IInv /\ [Next]_vars => IInv'
BY TypeStep, LockStep, MakingStep, AskStep, OwnerKept, ReplyStep, EventStep, HoldingStep,
   EnabledStep, RegisteredStep, AdoptedStep, RoutedStep, PreparedStep DEF IInv

LEMMA Invariant == Spec => []IInv
BY InvInit, InvStep, PTL DEF Spec

\* The state has its types, whatever the number of targets, workers and calls.
THEOREM TypeCorrect == Spec => []TypeOK
<1>1. IInv => TypeOK
  BY DEF IInv
<1> QED
  BY <1>1, Invariant, PTL

\* Two workers are never inside the lock of one target: no session of a target
\* is being attached, enabled or armed by two calls at once.
THEOREM Producer == Spec => []OneProducer
<1>1. IInv => OneProducer
  BY OneInside DEF IInv
<1> QED
  BY <1>1, Invariant, PTL

\* No reply, however late, no event and no forget() lets a session end up
\* registered, routed or adopted under a target it was not opened on.
THEOREM Unshared == Spec => []NeverShared
<1>1. IInv => NeverShared
  BY DEF IInv, RegisteredInv, AdoptedInv, RoutedInv, NeverShared
<1> QED
  BY <1>1, Invariant, PTL

\* What is registered is routed, so its death can reach it.
THEOREM Routing == Spec => []RegisteredIsRouted
<1>1. IInv => RegisteredIsRouted
  BY DEF IInv, RegisteredInv, RegisteredIsRouted
<1> QED
  BY <1>1, Invariant, PTL

\* What is registered has its domains enabled.
THEOREM Enabling == Spec => []RegisteredIsEnabled
<1>1. IInv => RegisteredIsEnabled
  BY DEF IInv, RegisteredInv, RegisteredIsEnabled
<1> QED
  BY <1>1, Invariant, PTL

\* A call that returns returns a session that has what the call was made for.
THEOREM Preparing == Spec => []ReturnedIsPrepared
<1>1. IInv => ReturnedIsPrepared
  BY DEF IInv, EnabledInv, PreparedInv, Served, ReturnedIsPrepared
<1> QED
  BY <1>1, Invariant, PTL

\* No worker takes a live session out of the registry.
THEOREM LiveStaying == Spec => LiveSessionStays
<1>1. IInv /\ [Next]_vars =>
        [\A t \in Targets : sessions[t].state = "attached" =>
           sessions'[t].sid = sessions[t].sid \/ Forget(t)]_vars
  BY LiveStays DEF IInv
<1> QED
  BY <1>1, Invariant, PTL DEF Spec, LiveSessionStays

-----------------------------------------------------------------------------
(* Session ids are not used twice.                                         *)

\* The session id that a message brings.
Carried(m) == IF m.kind \in {"reply", "attached"} THEN m.sid ELSE 0
At(i) == Carried(wire[i])

\* A worker that holds a session which is to be registered.
Bringing(w) == pc[w] = "enabling" \/ (pc[w] = "attaching" /\ ans[w] = "ok")

\* The sessions that are registered, or were when a worker found them, or have the runtime.
Used == {s \in Sids : \/ armed[s] > 0
                      \/ \E t \in Targets : sessions[t].sid = s
                      \/ \E w \in Workers : pc[w] \in Served /\ sid[w] = s}

\* A session that is not registered yet is in one place only: under way, kept for its target,
\* or in the hands of one worker.
FreshIds ==
  /\ \A s \in Used : s <= lastSid
  /\ \A w \in Workers : Bringing(w) =>
       /\ sid[w] \notin Used
       /\ \A v \in Workers : Bringing(v) /\ sid[v] = sid[w] => v = w
       /\ \A t \in Targets : adopted[t] # sid[w]
       /\ \A i \in 1..Len(wire) : At(i) # sid[w]
  /\ \A t \in Targets : adopted[t] # 0 =>
       /\ adopted[t] \notin Used
       /\ \A i \in 1..Len(wire) : At(i) # adopted[t]
  /\ \A i \in 1..Len(wire) : At(i) # 0 =>
       /\ At(i) \notin Used /\ At(i) <= lastSid
       /\ \A j \in 1..Len(wire) : At(j) = At(i) => i = j

\* The runtime is installed once in the session that is registered, and a worker that installs it
\* is the only one that does.
RuntimeInv ==
  /\ \A t \in Targets : sessions[t].state # "none" =>
       /\ armed[sessions[t].sid] <= 1
       /\ armed[sessions[t].sid] = 1 => runtime[t] = sessions[t].sid
  /\ \A w \in Workers : pc[w] = "arming" => runtime[tgt[w]] # sid[w]
  /\ \A w \in Workers : pc[w] \in Served => sessions[tgt[w]].state = "none" \/ sessions[tgt[w]].sid = sid[w]

\* What is used, adopted, brought or under way has been handed out by the browser.
LEMMA HandedOut ==
  ASSUME IInv, NEW s \in Sids, owner[s] # None
  PROVE  s <= lastSid
BY DEF IInv, FreshInv, TypeOK, Sids

LEMMA BroughtOnes ==
  ASSUME IInv, NEW w \in Workers, Bringing(w)
  PROVE  sid[w] \in Sids /\ sid[w] # 0 /\ sid[w] <= lastSid
<1>1. sid[w] \in Sids /\ owner[sid[w]] = tgt[w] /\ tgt[w] \in Targets
  BY DEF IInv, HoldingInv, HasSession, Bringing, TypeOK
<1>2. sid[w] # 0 /\ owner[sid[w]] # None
  BY <1>1, NoneAssumption DEF Sids
<1> QED
  BY <1>1, <1>2, HandedOut

LEMMA AdoptedOnes ==
  ASSUME IInv, NEW t \in Targets, adopted[t] # 0
  PROVE  adopted[t] \in Sids /\ adopted[t] <= lastSid
<1>1. adopted[t] \in Sids /\ owner[adopted[t]] = t
  BY BoundAssumption DEF IInv, AdoptedInv, TypeOK, Sids
<1> QED
  BY <1>1, NoneAssumption, HandedOut

LEMMA WiredOnes ==
  ASSUME IInv, NEW i \in 1..Len(wire)
  PROVE  At(i) \in 0..MaxSid /\ wire[i] \in Message
<1>1. wire[i] \in Message
  BY DEF IInv, TypeOK
<1>2. wire[i].kind = "reply" => wire[i].sid \in 0..MaxSid
  BY <1>1, MessageShape
<1>3. wire[i].kind = "attached" => wire[i].sid \in 0..MaxSid
  BY <1>1, MessageShape, BoundAssumption DEF Sids
<1> QED
  BY <1>1, <1>2, <1>3, BoundAssumption DEF At, Carried

\* What a step does to the places where session ids are, if it moves none: it may take them away
\* and use one that is used, and take or add the end of the wire.
Quiet(n) ==
  /\ lastSid' = lastSid
  /\ \A s \in Used' : s \in Used
  /\ \A w \in Workers : Bringing(w)' => Bringing(w) /\ sid'[w] = sid[w]
  /\ \A t \in Targets : adopted'[t] \in {0, adopted[t]}
  /\ \A i \in 1..Len(wire') : At(i)' = 0 \/ (i + n \in 1..Len(wire) /\ At(i)' = At(i + n))

LEMMA QuietKeeps ==
  ASSUME IInv, FreshIds, NEW n \in {0, 1}, Quiet(n)
  PROVE  FreshIds'
<1>1. \A s \in Used' : s <= lastSid'
  BY DEF Quiet, FreshIds
<1>2. ASSUME NEW i \in 1..Len(wire'), At(i)' # 0
      PROVE  i + n \in 1..Len(wire) /\ At(i)' = At(i + n)
  BY <1>2 DEF Quiet
<1>3. ASSUME NEW w \in Workers, Bringing(w)'
      PROVE  /\ sid'[w] \notin Used'
             /\ \A v \in Workers : Bringing(v)' /\ sid'[v] = sid'[w] => v = w
             /\ \A t \in Targets : adopted'[t] # sid'[w]
             /\ \A i \in 1..Len(wire') : At(i)' # sid'[w]
  <2>1. Bringing(w) /\ sid'[w] = sid[w] /\ sid[w] # 0
    BY <1>3, BroughtOnes DEF Quiet
  <2>2. \A i \in 1..Len(wire') : At(i)' # sid'[w]
    <3> SUFFICES ASSUME NEW i \in 1..Len(wire'), At(i)' = sid'[w]
                 PROVE  FALSE
      OBVIOUS
    <3> QED
      BY <1>2, <2>1 DEF FreshIds
  <2> QED
    BY <2>1, <2>2 DEF Quiet, FreshIds
<1>4. ASSUME NEW t \in Targets, adopted'[t] # 0
      PROVE  /\ adopted'[t] \notin Used'
             /\ \A i \in 1..Len(wire') : At(i)' # adopted'[t]
  <2>1. adopted'[t] = adopted[t]
    BY <1>4 DEF Quiet
  <2>2. \A i \in 1..Len(wire') : At(i)' # adopted'[t]
    <3> SUFFICES ASSUME NEW i \in 1..Len(wire'), At(i)' = adopted'[t]
                 PROVE  FALSE
      OBVIOUS
    <3> QED
      BY <1>2, <1>4, <2>1 DEF FreshIds
  <2> QED
    BY <1>4, <2>1, <2>2 DEF Quiet, FreshIds
<1>5. ASSUME NEW i \in 1..Len(wire'), At(i)' # 0
      PROVE  /\ At(i)' \notin Used' /\ At(i)' <= lastSid'
             /\ \A j \in 1..Len(wire') : At(j)' = At(i)' => i = j
  <2>1. i + n \in 1..Len(wire) /\ At(i)' = At(i + n)
    BY <1>2, <1>5
  <2>2. At(i)' \notin Used' /\ At(i)' <= lastSid'
    BY <1>5, <2>1 DEF Quiet, FreshIds
  <2>3. ASSUME NEW j \in 1..Len(wire'), At(j)' = At(i)'
        PROVE  i = j
    <3>1. j + n \in 1..Len(wire) /\ At(j)' = At(j + n)
      BY <1>2, <1>5, <2>3
    <3>2. i + n = j + n
      BY <1>5, <2>1, <2>3, <3>1 DEF FreshIds
    <3> QED
      BY <3>2
  <2> QED
    BY <2>2, <2>3
<1> QED
  BY <1>1, <1>3, <1>4, <1>5 DEF FreshIds

\* A table of sessions that keeps its ids, or drops some, uses none anew.
LEMMA UsedShrinks ==
  ASSUME \A t \in Targets : sessions'[t].sid \in {0, sessions[t].sid},
         \A s \in Sids : armed'[s] > 0 => s \in Used,
         \A w \in Workers : pc'[w] \in Served /\ sid'[w] \in Sids => sid'[w] \in Used
  PROVE  \A s \in Used' : s \in Used
<1> SUFFICES ASSUME NEW s \in Sids,
                    armed'[s] > 0 \/ (\E t \in Targets : sessions'[t].sid = s)
                      \/ \E w \in Workers : pc'[w] \in Served /\ sid'[w] = s
             PROVE  s \in Used
  BY DEF Used
<1>1. s # 0
  BY DEF Sids
<1> QED
  BY <1>1 DEF Used

LEMMA MarkedIds ==
  ASSUME TypeOK, NEW t, NEW st, sessions' = Marked(t, st)
  PROVE  \A u \in Targets : sessions'[u].sid = sessions[u].sid
BY DEF TypeOK, Marked, Session

LEMMA WireStays ==
  ASSUME wire' = wire
  PROVE  \A i \in 1..Len(wire') : i + 0 \in 1..Len(wire) /\ At(i)' = At(i + 0)
BY DEF At, Carried

LEMMA WireTaken ==
  ASSUME TypeOK, wire # <<>>, wire' = Tail(wire)
  PROVE  \A i \in 1..Len(wire') : i + 1 \in 1..Len(wire) /\ At(i)' = At(i + 1)
<1> SUFFICES ASSUME NEW i \in 1..Len(wire')
             PROVE  i + 1 \in 1..Len(wire) /\ wire'[i] = wire[i + 1]
  BY DEF At, Carried
<1>1. wire \in Seq(Message) /\ Len(wire) \in Nat \ {0} /\ Len(wire') = Len(wire) - 1
  BY DEF TypeOK
<1> QED
  BY <1>1

LEMMA WireAdded ==
  ASSUME TypeOK, NEW m, Emit(m)
  PROVE  /\ Len(wire') = Len(wire) + 1 /\ Len(wire) \in Nat
         /\ \A i \in 1..Len(wire) : i \in 1..Len(wire') /\ At(i)' = At(i)
         /\ wire'[Len(wire')] = m
<1>1. wire \in Seq(Message) /\ Len(wire) \in Nat /\ wire' = Append(wire, m)
  BY DEF TypeOK, Emit
<1>2. Len(wire') = Len(wire) + 1
  BY <1>1
<1>3. \A i \in 1..Len(wire) : i \in 1..Len(wire') /\ wire'[i] = wire[i]
  BY <1>1, <1>2
<1>4. wire'[Len(wire')] = m
  BY <1>1, <1>2
<1> QED
  BY <1>1, <1>2, <1>3, <1>4 DEF At, Carried

\* A message that brings no session id.
LEMMA WireGrows ==
  ASSUME TypeOK, NEW m, Emit(m), Carried(m) = 0
  PROVE  \A i \in 1..Len(wire') : At(i)' = 0 \/ (i + 0 \in 1..Len(wire) /\ At(i)' = At(i + 0))
<1> TAKE i \in 1..Len(wire')
<1>1. i \in 1..Len(wire) \/ i = Len(wire')
  BY WireAdded
<1>2. CASE i \in 1..Len(wire)
  <2>1. At(i)' = At(i) /\ i + 0 = i
    BY <1>2, WireAdded
  <2> QED
    BY <1>2, <2>1
<1>3. CASE i = Len(wire')
  <2>1. wire'[i] = m
    BY <1>3, WireAdded
  <2> QED
    BY <2>1 DEF At, Carried
<1> QED
  BY <1>1, <1>2, <1>3

-----------------------------------------------------------------------------
(* The steps that move no session id.                                      *)

LEMMA WorkerQuiet ==
  ASSUME IInv, NEW w \in Workers, Begin(w) \/ Worker(w), ~TakeAdopted(w), ~Register(w)
  PROVE  Quiet(0)
<1> USE DEF IInv
<1>1. UNCHANGED <<wire, lastSid>> /\ adopted' = adopted
  BY DEF Begin, Worker, Acquire, FindLive, RaiseDead, DropStale, FindNone, SendAttach, Attached,
     AttachRefused, RuntimeThere, SendRuntime, RuntimeRecorded, DomainsThere, SendDomains,
     DomainsRecorded, CommandRefused, RequestFails, Return, regVars, browserVars
<1>2. \A t \in Targets : sessions'[t].sid \in {0, sessions[t].sid}
  <2>1. CASE AttachRefused(w)
    BY <2>1, MarkedIds DEF AttachRefused
  <2>2. CASE DropStale(w)
    BY <2>2 DEF DropStale, TypeOK, NoSession
  <2>3. CASE ~AttachRefused(w) /\ ~DropStale(w)
    BY <2>3 DEF Begin, Worker, Acquire, FindLive, RaiseDead, FindNone, SendAttach, Attached,
     RuntimeThere, SendRuntime, RuntimeRecorded, DomainsThere, SendDomains,
     DomainsRecorded, CommandRefused, RequestFails, Return, regVars
  <2> QED
    BY <2>1, <2>2, <2>3
<1>3. \A s \in Sids : armed'[s] > 0 => s \in Used
  <2>1. CASE RuntimeRecorded(w)
    <3>1. pc[w] \in Served /\ \A s \in Sids : s # sid[w] => armed'[s] = armed[s]
      BY <2>1 DEF RuntimeRecorded, Served, TypeOK
    <3> QED
      BY <3>1 DEF Used
  <2>2. CASE ~RuntimeRecorded(w)
    <3>1. armed' = armed
      BY <2>2 DEF Begin, Worker, Acquire, FindLive, RaiseDead, DropStale, FindNone, SendAttach, Attached,
       AttachRefused, RuntimeThere, SendRuntime, DomainsThere, SendDomains,
       DomainsRecorded, CommandRefused, RequestFails, Return, regVars, browserVars
    <3> QED
      BY <3>1 DEF Used
  <2> QED
    BY <2>1, <2>2
<1>4. \A v \in Workers : v # w => pc'[v] = pc[v] /\ sid'[v] = sid[v] /\ ans'[v] = ans[v]
  BY DEF Begin, Worker, Acquire, FindLive, RaiseDead, DropStale, FindNone, SendAttach, Attached, Leave, Send,
     AttachRefused, RuntimeThere, SendRuntime, RuntimeRecorded, DomainsThere, SendDomains,
     DomainsRecorded, CommandRefused, RequestFails, Return, TypeOK
<1>5. /\ pc'[w] \in Served /\ sid'[w] \in Sids => sid'[w] \in Used
      /\ Bringing(w)' => Bringing(w) /\ sid'[w] = sid[w]
  <2>1. CASE FindLive(w)
    <3>1. sid'[w] = sessions[tgt[w]].sid /\ tgt[w] \in Targets /\ pc'[w] \in Served
      BY <2>1 DEF FindLive, AfterReady, Served, TypeOK
    <3> QED
      BY <3>1 DEF Used, Bringing, Served
  <2>2. CASE Begin(w) \/ Acquire(w) \/ DropStale(w) \/ FindNone(w) \/ SendAttach(w) \/ RaiseDead(w) \/ AttachRefused(w)
             \/ CommandRefused(w) \/ RequestFails(w) \/ Return(w)
    <3>1. pc'[w] \in {"lock", "look", "adopt", "idle"} \/ (pc'[w] = "attaching" /\ ans'[w] = "none")
      BY <2>2 DEF Begin, Acquire, DropStale, FindNone, SendAttach, RaiseDead, AttachRefused, CommandRefused,
         RequestFails, Return, Leave, Send, TypeOK
    <3> QED
      BY <3>1 DEF Bringing, Served
  <2>3. CASE Attached(w)
    BY <2>3 DEF Attached, Send, Bringing, Served, TypeOK
  <2>4. CASE RuntimeThere(w) \/ SendRuntime(w) \/ RuntimeRecorded(w) \/ DomainsThere(w) \/ SendDomains(w) \/ DomainsRecorded(w)
    <3>1. pc[w] \in Served /\ sid' = sid /\ pc'[w] \in Served
      BY <2>4 DEF RuntimeThere, SendRuntime, RuntimeRecorded, DomainsThere, SendDomains, DomainsRecorded, Send, Served, TypeOK
    <3> QED
      BY <3>1 DEF Used, Bringing, Served
  <2> QED
    BY <2>1, <2>2, <2>3, <2>4 DEF Worker
<1>6. \A v \in Workers : /\ pc'[v] \in Served /\ sid'[v] \in Sids => sid'[v] \in Used
                         /\ Bringing(v)' => Bringing(v) /\ sid'[v] = sid[v]
  BY <1>4, <1>5 DEF Used, Bringing
<1>7. \A s \in Used' : s \in Used
  BY <1>2, <1>3, <1>6, UsedShrinks
<1> QED
  BY <1>1, <1>6, <1>7, WireStays DEF Quiet

\* Steps that leave the workers as they are.
LEMMA OthersQuiet ==
  ASSUME IInv, NEW n \in {0, 1}, UNCHANGED <<pc, ans, sid, armed, lastSid>>,
         \A t \in Targets : sessions'[t].sid \in {0, sessions[t].sid},
         \A t \in Targets : adopted'[t] \in {0, adopted[t]},
         \A i \in 1..Len(wire') : At(i)' = 0 \/ (i + n \in 1..Len(wire) /\ At(i)' = At(i + n))
  PROVE  Quiet(n)
<1>1. \A s \in Used' : s \in Used
  <2>1. /\ \A s \in Sids : armed'[s] > 0 => s \in Used
        /\ \A w \in Workers : pc'[w] \in Served /\ sid'[w] \in Sids => sid'[w] \in Used
    BY DEF Used
  <2> QED
    BY <2>1, UsedShrinks
<1> QED
  BY <1>1 DEF Quiet, Bringing

LEMMA ReaderQuiet ==
  ASSUME IInv,
         OnDetached \/ OnDestroyed \/ OnCrashed \/ OnInspectorCrashed \/ OnInspectorDetached
  PROVE  Quiet(1)
<1> USE DEF IInv
<1>1. UNCHANGED <<pc, ans, sid, armed, lastSid, adopted>> /\ wire # <<>> /\ wire' = Tail(wire)
  BY DEF OnDetached, OnDestroyed, OnCrashed, OnInspectorCrashed, OnInspectorDetached, Receive, regVars, workerVars, browserVars
<1>2. \A t \in Targets : sessions'[t].sid = sessions[t].sid
  <2>1. CASE sessions' = sessions
    BY <2>1
  <2>2. CASE \E t, st : sessions' = Marked(t, st)
    BY <2>2, MarkedIds
  <2> QED
    BY <2>1, <2>2 DEF OnDetached, OnDestroyed, OnCrashed, OnInspectorCrashed, OnInspectorDetached, Routed, regVars
<1>3. TypeOK
  OBVIOUS
<1>4. \A i \in 1..Len(wire') : i + 1 \in 1..Len(wire) /\ At(i)' = At(i + 1)
  BY <1>1, <1>3, WireTaken
<1> QED
  BY <1>1, <1>2, <1>4, OthersQuiet

LEMMA BrowserQuiet ==
  ASSUME IInv,
         \/ \E w \in Workers : AnswerCommand(w) \/ (AnswerAttach(w) /\ lastSid' = lastSid)
         \/ \E t \in Targets : Destroy(t) \/ Crash(t) \/ Forget(t) \/ MarkDisconnected(t)
         \/ \E s \in Sids : Detach(s)
         \/ GoingAway \/ LoseConnection \/ UNCHANGED vars
  PROVE  Quiet(0)
<1> USE DEF IInv
<1>0. TypeOK
  OBVIOUS
<1>1. UNCHANGED <<pc, ans, sid, armed, lastSid, adopted>>
  BY DEF AnswerCommand, AnswerAttach, Destroy, Crash, Forget, MarkDisconnected, Detach, GoingAway, LoseConnection,
     vars, regVars, workerVars, browserVars
<1>2. \A t \in Targets : sessions'[t].sid \in {0, sessions[t].sid}
  <2>1. CASE sessions' = sessions
    BY <2>1
  <2>2. CASE \E t, st : sessions' = Marked(t, st)
    BY <2>2, MarkedIds
  <2>3. CASE \E u \in Targets : sessions' = [sessions EXCEPT ![u] = NoSession]
    BY <2>3 DEF TypeOK, NoSession
  <2> QED
    BY <2>1, <2>2, <2>3 DEF AnswerCommand, AnswerAttach, Destroy, Crash, Forget, MarkDisconnected, Detach, GoingAway,
       LoseConnection, vars, regVars
<1>3. ASSUME NEW m, Emit(m), Carried(m) = 0
      PROVE  Quiet(0)
  BY <1>0, <1>1, <1>2, <1>3, WireGrows, OthersQuiet
<1>4. CASE wire' = wire
  BY <1>1, <1>2, <1>4, WireStays, OthersQuiet
<1>5. CASE LoseConnection
  <2>1. wire' = <<>>
    BY <1>5 DEF LoseConnection
  <2> QED
    BY <1>1, <1>2, <2>1, OthersQuiet
<1>6. ASSUME NEW w \in Workers, AnswerCommand(w) \/ (AnswerAttach(w) /\ lastSid' = lastSid)
      PROVE  Quiet(0)
  <2>1. lastSid \in Nat
    BY BoundAssumption DEF TypeOK
  <2>2. Emit(Reply(w, TRUE, 0)) \/ Emit(Reply(w, FALSE, 0))
    <3>1. CASE AnswerCommand(w)
      BY <3>1 DEF AnswerCommand
    <3>2. CASE AnswerAttach(w) /\ lastSid' = lastSid
      <4>1. ~Open(tgt[w])
        BY <2>1, <3>2 DEF Open
      <4> QED
        BY <3>2, <4>1 DEF AnswerAttach
    <3> QED
      BY <1>6, <3>1, <3>2
  <2>3. Carried(Reply(w, TRUE, 0)) = 0 /\ Carried(Reply(w, FALSE, 0)) = 0
    BY DEF Carried, Reply
  <2> QED
    BY <1>3, <2>2, <2>3
<1>7. CASE \/ \E t \in Targets : Destroy(t) \/ Crash(t)
           \/ \E s \in Sids : Detach(s)
           \/ GoingAway
  <2>1. \/ \E t \in Targets : Emit(TargetEvent("destroyed", t)) \/ Emit(TargetEvent("crashed", t))
        \/ \E s \in Sids : Emit(SessionEvent("inspectorCrashed", s)) \/ Emit(SessionEvent("detached", s))
        \/ Emit([kind |-> "inspectorDetached"])
    BY <1>7, <1>0 DEF Destroy, Crash, Detach, GoingAway, Notify, TypeOK
  <2>2. /\ \A t : Carried(TargetEvent("destroyed", t)) = 0 /\ Carried(TargetEvent("crashed", t)) = 0
        /\ \A s : Carried(SessionEvent("inspectorCrashed", s)) = 0 /\ Carried(SessionEvent("detached", s)) = 0
        /\ Carried([kind |-> "inspectorDetached"]) = 0
    BY DEF Carried, TargetEvent, SessionEvent
  <2> QED
    BY <1>3, <2>1, <2>2
<1>8. CASE UNCHANGED vars \/ \E t \in Targets : Forget(t) \/ MarkDisconnected(t)
  BY <1>4, <1>8 DEF Forget, MarkDisconnected, vars
<1> QED
  BY <1>5, <1>6, <1>7, <1>8

-----------------------------------------------------------------------------
(* The steps that move a session id from one place to another.             *)

\* The session that was kept for its target comes into the hands of a worker.
LEMMA AdoptedIsTaken ==
  ASSUME IInv, FreshIds, NEW w \in Workers, TakeAdopted(w)
  PROVE  FreshIds'
<1> USE DEF IInv
<1> DEFINE t0 == tgt[w]
           a  == adopted[t0]
<1>1. /\ t0 \in Targets /\ a # 0 /\ sid' = [sid EXCEPT ![w] = a] /\ adopted' = [adopted EXCEPT ![t0] = 0]
      /\ pc' = [pc EXCEPT ![w] = "enabling"] /\ ans' = [ans EXCEPT ![w] = "none"]
      /\ UNCHANGED <<sessions, armed, lastSid, wire>>
  BY DEF TakeAdopted, Popped, Send, TypeOK
<1>2. /\ a \in Sids /\ a \notin Used /\ a <= lastSid /\ \A i \in 1..Len(wire) : At(i) # a
  BY <1>1, AdoptedOnes DEF FreshIds
<1>3. \A t \in Targets : t # t0 => adopted[t] # a
  <2>1. \A t \in Targets : adopted[t] # 0 => owner[adopted[t]] = t
    BY DEF AdoptedInv
  <2> QED
    BY <1>1, <2>1
<1>4. \A v \in Workers : Bringing(v) => sid[v] # a
  BY <1>1 DEF FreshIds
<1>5. \A v \in Workers : v # w => pc'[v] = pc[v] /\ ans'[v] = ans[v] /\ sid'[v] = sid[v] /\ (Bringing(v)' <=> Bringing(v))
  BY <1>1 DEF TypeOK, Bringing
<1>6. sid'[w] = a /\ pc'[w] = "enabling"
  BY <1>1 DEF TypeOK
<1>7. \A s \in Used' : s \in Used
  BY <1>1, <1>5, <1>6 DEF Used, Served
<1>8. \A i : At(i)' = At(i)
  BY <1>1 DEF At, Carried
<1>9. \A t \in Targets : adopted'[t] = IF t = t0 THEN 0 ELSE adopted[t]
  BY <1>1 DEF TypeOK
<1> HIDE DEF t0, a
<1>10. \A s \in Used' : s <= lastSid'
  BY <1>1, <1>7 DEF FreshIds
<1>11. ASSUME NEW v \in Workers, Bringing(v)'
       PROVE  /\ sid'[v] \notin Used'
              /\ \A u \in Workers : Bringing(u)' /\ sid'[u] = sid'[v] => u = v
              /\ \A t \in Targets : adopted'[t] # sid'[v]
              /\ \A i \in 1..Len(wire') : At(i)' # sid'[v]
  <2>1. CASE v = w
    <3>1. a # 0
      BY <1>1
    <3> QED
      BY <2>1, <3>1, <1>1, <1>2, <1>3, <1>4, <1>5, <1>6, <1>7, <1>8, <1>9
  <2>2. CASE v # w
    <3>1. Bringing(v) /\ sid'[v] = sid[v] /\ sid[v] # 0 /\ sid[v] # a
      BY <1>4, <1>5, <1>11, <2>2, BroughtOnes
    <3>2. \A i \in 1..Len(wire') : At(i)' # sid'[v]
      BY <1>1, <1>8, <3>1 DEF FreshIds
    <3>3. \A u \in Workers : Bringing(u)' /\ sid'[u] = sid'[v] => u = v
      BY <1>5, <1>6, <3>1, <2>2 DEF FreshIds
    <3> QED
      BY <1>7, <1>9, <3>1, <3>2, <3>3 DEF FreshIds
  <2> QED
    BY <2>1, <2>2
<1>12. ASSUME NEW t \in Targets, adopted'[t] # 0
       PROVE  adopted'[t] \notin Used' /\ \A i \in 1..Len(wire') : At(i)' # adopted'[t]
  BY <1>1, <1>7, <1>8, <1>9, <1>12 DEF FreshIds
<1>13. ASSUME NEW i \in 1..Len(wire'), At(i)' # 0
       PROVE  /\ At(i)' \notin Used' /\ At(i)' <= lastSid'
              /\ \A j \in 1..Len(wire') : At(j)' = At(i)' => i = j
  BY <1>1, <1>7, <1>8, <1>13 DEF FreshIds
<1> QED
  BY <1>10, <1>11, <1>12, <1>13 DEF FreshIds

\* The session of a worker is registered: it is used, and was nowhere else.
LEMMA RegisteredIsUsed ==
  ASSUME IInv, FreshIds, NEW w \in Workers, Register(w)
  PROVE  FreshIds'
<1> USE DEF IInv
<1>1. /\ pc[w] = "enabling" /\ tgt[w] \in Targets
      /\ sessions' = [sessions EXCEPT ![tgt[w]] = [sid |-> sid[w], state |-> "attached"]]
      /\ pc' = [pc EXCEPT ![w] = AfterReady(w)]
      /\ UNCHANGED <<sid, ans, adopted, armed, lastSid, wire>>
  BY DEF Register, regVars, browserVars, TypeOK
<1>2. AfterReady(w) \in Served /\ "enabling" \notin Served /\ "attaching" \notin Served
  BY DEF AfterReady, Served, TypeOK
<1>3. Bringing(w) /\ sid[w] \in Sids /\ sid[w] # 0 /\ sid[w] <= lastSid
  BY <1>1, BroughtOnes DEF Bringing
<1>4. \A v \in Workers : Bringing(v)' => v # w /\ Bringing(v) /\ sid[v] # sid[w]
  <2>1. \A v \in Workers : v # w => pc'[v] = pc[v]
    BY <1>1 DEF TypeOK
  <2>2. pc'[w] \in Served
    BY <1>1, <1>2 DEF TypeOK
  <2> QED
    BY <1>1, <1>2, <1>3, <2>1, <2>2 DEF Bringing, FreshIds
<1>5. \A s \in Used' : s \in Used \/ s = sid[w]
  <2>1. \A t \in Targets : sessions'[t].sid = IF t = tgt[w] THEN sid[w] ELSE sessions[t].sid
    BY <1>1 DEF TypeOK
  <2>2. \A v \in Workers : pc'[v] \in Served => v = w \/ pc[v] \in Served
    BY <1>1 DEF TypeOK
  <2> QED
    BY <1>1, <2>1, <2>2 DEF Used
<1>6. \A i : At(i)' = At(i)
  BY <1>1 DEF At, Carried
<1>7. \A s \in Used' : s <= lastSid'
  BY <1>1, <1>3, <1>5 DEF FreshIds
<1>8. ASSUME NEW v \in Workers, Bringing(v)'
      PROVE  /\ sid'[v] \notin Used'
             /\ \A u \in Workers : Bringing(u)' /\ sid'[u] = sid'[v] => u = v
             /\ \A t \in Targets : adopted'[t] # sid'[v]
             /\ \A i \in 1..Len(wire') : At(i)' # sid'[v]
  BY <1>1, <1>4, <1>5, <1>6, <1>8 DEF FreshIds
<1>9. ASSUME NEW t \in Targets, adopted'[t] # 0
      PROVE  adopted'[t] \notin Used' /\ \A i \in 1..Len(wire') : At(i)' # adopted'[t]
  BY <1>1, <1>3, <1>5, <1>6, <1>9 DEF FreshIds
<1>10. ASSUME NEW i \in 1..Len(wire'), At(i)' # 0
       PROVE  /\ At(i)' \notin Used' /\ At(i)' <= lastSid'
              /\ \A j \in 1..Len(wire') : At(j)' = At(i)' => i = j
  BY <1>1, <1>3, <1>5, <1>6, <1>10 DEF FreshIds
<1> QED
  BY <1>7, <1>8, <1>9, <1>10 DEF FreshIds

\* The wire gives its first message away.
LEMMA TakenFromWire ==
  ASSUME IInv, FreshIds, wire # <<>>, wire' = Tail(wire)
  PROVE  /\ 1 \in 1..Len(wire) /\ Head(wire) = wire[1] /\ Carried(Head(wire)) = At(1)
         /\ \A i \in 1..Len(wire') : i + 1 \in 1..Len(wire) /\ At(i)' = At(i + 1)
         /\ At(1) # 0 => \A i \in 1..Len(wire') : At(i)' # At(1)
<1>1. TypeOK /\ wire \in Seq(Message)
  BY DEF IInv, TypeOK
<1>2. Len(wire) \in Nat \ {0} /\ Head(wire) = wire[1]
  BY <1>1
<1>3. \A i \in 1..Len(wire') : i + 1 \in 1..Len(wire) /\ At(i)' = At(i + 1)
  BY <1>1, WireTaken
<1>4. ASSUME At(1) # 0, NEW i \in 1..Len(wire'), At(i)' = At(1)
      PROVE  FALSE
  <2>1. i + 1 \in 1..Len(wire) /\ At(i + 1) = At(1)
    BY <1>3, <1>4
  <2>2. 1 = i + 1
    BY <1>2, <1>4, <2>1 DEF FreshIds
  <2> QED
    BY <2>2
<1> QED
  BY <1>2, <1>3, <1>4 DEF At

\* A session the browser attached by itself is kept for its target.
LEMMA AttachedIsKept ==
  ASSUME IInv, FreshIds, OnAttachedToTarget
  PROVE  FreshIds'
<1> USE DEF IInv
<1> DEFINE m == Head(wire)
<1>1. /\ wire # <<>> /\ wire' = Tail(wire) /\ m.kind = "attached"
      /\ adopted' = [adopted EXCEPT ![m.tgt] = m.sid]
      /\ UNCHANGED <<sessions, pc, sid, ans, armed, lastSid>>
  BY DEF OnAttachedToTarget, Receive, workerVars, browserVars
<1>2. m.tgt \in Targets /\ m.sid \in Sids /\ m.sid # 0
  BY <1>1, MessageShape, Received DEF TypeOK, Sids
<1>3. /\ 1 \in 1..Len(wire) /\ At(1) = m.sid
      /\ \A i \in 1..Len(wire') : i + 1 \in 1..Len(wire) /\ At(i)' = At(i + 1)
      /\ \A i \in 1..Len(wire') : At(i)' # m.sid
  <2>1. Carried(m) = m.sid
    BY <1>1 DEF Carried
  <2> HIDE DEF m
  <2>2. Head(wire) = m
    BY DEF m
  <2> QED
    BY <1>1, <1>2, <2>1, <2>2, TakenFromWire
<1>4. Used' = Used /\ \A v \in Workers : Bringing(v)' = Bringing(v)
  BY <1>1 DEF Used, Bringing
<1>5. \A t \in Targets : adopted'[t] = IF t = m.tgt THEN m.sid ELSE adopted[t]
  BY <1>1 DEF TypeOK
<1> HIDE DEF m
<1>6. m.sid \notin Used /\ \A v \in Workers : Bringing(v) => sid[v] # m.sid
  BY <1>2, <1>3 DEF FreshIds
<1>7. \A s \in Used' : s <= lastSid'
  BY <1>1, <1>4 DEF FreshIds
<1>8. ASSUME NEW v \in Workers, Bringing(v)'
      PROVE  /\ sid'[v] \notin Used'
             /\ \A u \in Workers : Bringing(u)' /\ sid'[u] = sid'[v] => u = v
             /\ \A t \in Targets : adopted'[t] # sid'[v]
             /\ \A i \in 1..Len(wire') : At(i)' # sid'[v]
  <2>1. \A i \in 1..Len(wire') : At(i)' # sid'[v]
    BY <1>1, <1>3, <1>4, <1>8 DEF FreshIds
  <2> QED
    BY <1>1, <1>4, <1>5, <1>6, <1>8, <2>1 DEF FreshIds
<1>9. ASSUME NEW t \in Targets, adopted'[t] # 0
      PROVE  adopted'[t] \notin Used' /\ \A i \in 1..Len(wire') : At(i)' # adopted'[t]
  <2>1. CASE t = m.tgt
    BY <1>3, <1>4, <1>5, <1>6, <2>1
  <2>2. CASE t # m.tgt
    <3>1. adopted'[t] = adopted[t] /\ adopted[t] # 0
      BY <1>5, <1>9, <2>2
    <3> QED
      BY <1>3, <1>4, <3>1 DEF FreshIds
  <2> QED
    BY <2>1, <2>2
<1>10. ASSUME NEW i \in 1..Len(wire'), At(i)' # 0
       PROVE  /\ At(i)' \notin Used' /\ At(i)' <= lastSid'
              /\ \A j \in 1..Len(wire') : At(j)' = At(i)' => i = j
  <2>1. i + 1 \in 1..Len(wire) /\ At(i)' = At(i + 1)
    BY <1>3
  <2>2. ASSUME NEW j \in 1..Len(wire'), At(j)' = At(i)'
        PROVE  i = j
    <3>1. j + 1 \in 1..Len(wire) /\ At(j)' = At(j + 1)
      BY <1>3
    <3>2. i + 1 = j + 1
      BY <1>10, <2>1, <2>2, <3>1 DEF FreshIds
    <3> QED
      BY <3>2
  <2> QED
    BY <1>1, <1>4, <1>10, <2>1, <2>2 DEF FreshIds
<1> QED
  BY <1>7, <1>8, <1>9, <1>10 DEF FreshIds

\* An answer wakes the worker that waits for it, which then has the session it names.
LEMMA AnswerIsBrought ==
  ASSUME IInv, FreshIds, OnReply
  PROVE  FreshIds'
<1> USE DEF IInv
<1> DEFINE m == Head(wire)
           w == m.to
<1>1. /\ wire # <<>> /\ wire' = Tail(wire) /\ m.kind = "reply"
      /\ UNCHANGED <<sessions, adopted, pc, armed, lastSid>>
  BY DEF OnReply, Receive, regVars, browserVars
<1>2. m \in Message /\ w \in Workers /\ m.ok \in BOOLEAN /\ m.sid \in 0..MaxSid /\ m \in Wired
  BY <1>1, MessageShape, Received, WiredTaken DEF TypeOK
<1>3. /\ 1 \in 1..Len(wire) /\ At(1) = m.sid
      /\ \A i \in 1..Len(wire') : i + 1 \in 1..Len(wire) /\ At(i)' = At(i + 1)
      /\ m.sid # 0 => \A i \in 1..Len(wire') : At(i)' # m.sid
  <2>1. Carried(m) = m.sid
    BY <1>1 DEF Carried
  <2> HIDE DEF m, w
  <2>2. Head(wire) = m
    BY DEF m
  <2> QED
    BY <1>1, <1>2, <2>1, <2>2, TakenFromWire
<1>4. CASE Awaited(m) /\ m.ok /\ pc[w] = "attaching"
  <2>1. sid' = [sid EXCEPT ![w] = m.sid] /\ ans' = [ans EXCEPT ![w] = "ok"]
    BY <1>4 DEF OnReply
  <2>2. m.sid \in Sids /\ m.sid # 0
    BY <1>1, <1>2, <1>4 DEF ReplyInv, Awaited, Sids
  <2>3. \A v \in Workers : v # w => ans'[v] = ans[v] /\ sid'[v] = sid[v] /\ (Bringing(v)' <=> Bringing(v))
    BY <1>1, <2>1 DEF TypeOK, Bringing
  <2>4. sid'[w] = m.sid /\ pc'[w] \notin Served
    BY <1>1, <1>2, <1>4, <2>1 DEF TypeOK, Served
  <2>5. \A s \in Used' : s \in Used
    BY <1>1, <2>3, <2>4 DEF Used
  <2> HIDE DEF m, w
  <2>6. m.sid \notin Used /\ \A v \in Workers : Bringing(v) => sid[v] # m.sid
    BY <1>3, <2>2 DEF FreshIds
  <2>7. \A s \in Used' : s <= lastSid'
    BY <1>1, <2>5 DEF FreshIds
  <2>8. ASSUME NEW v \in Workers, Bringing(v)'
        PROVE  /\ sid'[v] \notin Used'
               /\ \A u \in Workers : Bringing(u)' /\ sid'[u] = sid'[v] => u = v
               /\ \A t \in Targets : adopted'[t] # sid'[v]
               /\ \A i \in 1..Len(wire') : At(i)' # sid'[v]
    <3>1. CASE v = w
      <4>1. \A t \in Targets : adopted[t] # m.sid
        BY <1>3, <2>2 DEF FreshIds
      <4> QED
        BY <1>1, <1>3, <2>2, <2>3, <2>4, <2>5, <2>6, <3>1, <4>1
    <3>2. CASE v # w
      <4>1. Bringing(v) /\ sid'[v] = sid[v]
        BY <2>3, <2>8, <3>2
      <4>2. \A i \in 1..Len(wire') : At(i)' # sid'[v]
        BY <1>3, <4>1 DEF FreshIds
      <4> QED
        BY <1>1, <2>3, <2>4, <2>5, <2>6, <3>2, <4>1, <4>2 DEF FreshIds
    <3> QED
      BY <3>1, <3>2
  <2>9. ASSUME NEW t \in Targets, adopted'[t] # 0
        PROVE  adopted'[t] \notin Used' /\ \A i \in 1..Len(wire') : At(i)' # adopted'[t]
    BY <1>1, <1>3, <2>5, <2>9 DEF FreshIds
  <2>10. ASSUME NEW i \in 1..Len(wire'), At(i)' # 0
         PROVE  /\ At(i)' \notin Used' /\ At(i)' <= lastSid'
                /\ \A j \in 1..Len(wire') : At(j)' = At(i)' => i = j
    <3>1. i + 1 \in 1..Len(wire) /\ At(i)' = At(i + 1)
      BY <1>3
    <3>2. ASSUME NEW j \in 1..Len(wire'), At(j)' = At(i)'
          PROVE  i = j
      <4>1. j + 1 \in 1..Len(wire) /\ At(j)' = At(j + 1)
        BY <1>3
      <4>2. i + 1 = j + 1
        BY <2>10, <3>1, <3>2, <4>1 DEF FreshIds
      <4> QED
        BY <4>2
    <3> QED
      BY <1>1, <2>5, <2>10, <3>1, <3>2 DEF FreshIds
  <2> QED
    BY <2>7, <2>8, <2>9, <2>10 DEF FreshIds
<1>5. CASE ~(Awaited(m) /\ m.ok /\ pc[w] = "attaching")
  <2>1. \A v \in Workers : Bringing(v)' => Bringing(v) /\ sid'[v] = sid[v]
    <3>1. CASE Awaited(m)
      <4>1. /\ ans' = [ans EXCEPT ![w] = IF m.ok THEN "ok" ELSE "err"]
            /\ sid' = [sid EXCEPT ![w] = IF pc[w] = "attaching" THEN m.sid ELSE @]
        BY <3>1 DEF OnReply
      <4> QED
        BY <1>1, <1>2, <1>5, <3>1, <4>1 DEF Bringing, TypeOK
    <3>2. CASE ~Awaited(m)
      <4>1. UNCHANGED <<ans, sid>>
        BY <3>2 DEF OnReply
      <4> QED
        BY <1>1, <4>1 DEF Bringing
    <3> QED
      BY <3>1, <3>2
  <2>2. \A v \in Workers : pc'[v] \in Served => sid'[v] = sid[v]
    BY <1>1 DEF OnReply, Served, TypeOK
  <2>3. \A s \in Used' : s \in Used
    BY <1>1, <2>2 DEF Used
  <2>4. Quiet(1)
    BY <1>1, <1>3, <2>1, <2>3 DEF Quiet
  <2> QED
    BY <2>4, QuietKeeps
<1> QED
  BY <1>4, <1>5

\* The browser hands out a new session id.
LEMMA NewIsUnderWay ==
  ASSUME IInv, FreshIds, NEW m, Emit(m), Carried(m) = lastSid', lastSid' = lastSid + 1,
         UNCHANGED <<sessions, adopted, pc, sid, ans, armed>>
  PROVE  FreshIds'
<1>1. TypeOK /\ lastSid \in Nat /\ lastSid' \in Nat
  BY BoundAssumption DEF IInv, TypeOK
<1> DEFINE n == lastSid'
<1>2. /\ Len(wire') = Len(wire) + 1 /\ Len(wire) \in Nat
      /\ \A i \in 1..Len(wire) : i \in 1..Len(wire') /\ At(i)' = At(i)
  BY <1>1, WireAdded
<1>3. \A i \in 1..Len(wire') : i \notin 1..Len(wire) => At(i)' = n
  <2>1. wire'[Len(wire')] = m
    BY <1>1, WireAdded
  <2>2. \A i \in 1..Len(wire') : i \notin 1..Len(wire) => i = Len(wire')
    BY <1>2
  <2> QED
    BY <2>1, <2>2 DEF At, Carried
<1>4. Used' = Used /\ \A v \in Workers : Bringing(v)' = Bringing(v)
  BY DEF Used, Bringing
<1>5. \A i \in 1..Len(wire) : At(i) # n
  <2>1. \A i \in 1..Len(wire) : At(i) # 0 => At(i) <= lastSid /\ At(i) \in 0..MaxSid
    BY WiredOnes DEF FreshIds
  <2> QED
    BY <1>1, <2>1
<1>6. /\ \A s \in Used : s <= lastSid /\ s \in Sids
      /\ \A v \in Workers : Bringing(v) => sid[v] \in Sids /\ sid[v] <= lastSid
      /\ \A t \in Targets : adopted[t] # 0 => adopted[t] \in Sids /\ adopted[t] <= lastSid
  BY BroughtOnes, AdoptedOnes DEF FreshIds, Used
<1>7. /\ n \notin Used /\ (\A s \in Used : s <= n)
      /\ \A v \in Workers : Bringing(v) => sid[v] # n
      /\ \A t \in Targets : adopted[t] # n
  BY <1>1, <1>6 DEF Sids
<1>8. n <= n /\ n # 0
  BY <1>1
<1>9. \A i \in 1..Len(wire) : At(i) # 0 => At(i) <= n
  <2>1. \A i \in 1..Len(wire) : At(i) # 0 => At(i) <= lastSid /\ At(i) \in 0..MaxSid
    BY WiredOnes DEF FreshIds
  <2> QED
    BY <1>1, <2>1
<1> HIDE DEF n
<1>10. ASSUME NEW v \in Workers, Bringing(v)'
       PROVE  /\ sid'[v] \notin Used'
              /\ \A u \in Workers : Bringing(u)' /\ sid'[u] = sid'[v] => u = v
              /\ \A t \in Targets : adopted'[t] # sid'[v]
              /\ \A i \in 1..Len(wire') : At(i)' # sid'[v]
  <2>1. \A i \in 1..Len(wire') : At(i)' # sid'[v]
    BY <1>2, <1>3, <1>4, <1>7, <1>10 DEF FreshIds
  <2> QED
    BY <1>4, <1>10, <2>1 DEF FreshIds
<1>11. ASSUME NEW t \in Targets, adopted'[t] # 0
       PROVE  adopted'[t] \notin Used' /\ \A i \in 1..Len(wire') : At(i)' # adopted'[t]
  BY <1>2, <1>3, <1>4, <1>7, <1>11 DEF FreshIds
<1>12. ASSUME NEW i \in 1..Len(wire'), At(i)' # 0
       PROVE  /\ At(i)' \notin Used' /\ At(i)' <= n
              /\ \A j \in 1..Len(wire') : At(j)' = At(i)' => i = j
  <2>1. CASE i \in 1..Len(wire)
    <3>1. At(i)' = At(i) /\ At(i) # 0 /\ At(i) # n
      BY <1>2, <1>5, <1>12, <2>1
    <3>2. \A j \in 1..Len(wire') : At(j)' = At(i)' => i = j
      BY <1>2, <1>3, <2>1, <3>1 DEF FreshIds
    <3> QED
      BY <1>4, <1>9, <2>1, <3>1, <3>2 DEF FreshIds
  <2>2. CASE i \notin 1..Len(wire)
    <3>1. At(i)' = n
      BY <1>3, <2>2
    <3>2. \A j \in 1..Len(wire') : At(j)' = n => j \notin 1..Len(wire)
      BY <1>2, <1>5
    <3>3. \A j \in 1..Len(wire') : j \notin 1..Len(wire) => j = Len(wire')
      BY <1>2
    <3> QED
      BY <1>4, <1>7, <1>8, <2>2, <3>1, <3>2, <3>3
  <2> QED
    BY <2>1, <2>2
<1>13. \A s \in Used' : s <= n
  BY <1>4, <1>7
<1> QED
  BY <1>10, <1>11, <1>12, <1>13 DEF FreshIds, n

LEMMA FreshStep ==
  ASSUME IInv, FreshIds, [Next]_vars
  PROVE  FreshIds'
<1>1. ASSUME NEW w \in Workers, Begin(w) \/ Worker(w)
      PROVE  FreshIds'
  BY <1>1, AdoptedIsTaken, RegisteredIsUsed, WorkerQuiet, QuietKeeps
<1>2. CASE Reader
  BY <1>2, AnswerIsBrought, AttachedIsKept, ReaderQuiet, BrowserQuiet, QuietKeeps DEF Reader
<1>3. ASSUME NEW w \in Workers, AnswerAttach(w)
      PROVE  FreshIds'
  <2>1. CASE Open(tgt[w]) /\ Emit(Reply(w, TRUE, lastSid'))
    <3>1. Carried(Reply(w, TRUE, lastSid')) = lastSid'
      BY DEF Carried, Reply
    <3>2. lastSid' = lastSid + 1 /\ UNCHANGED <<sessions, adopted, pc, sid, ans, armed>>
      BY <1>3, <2>1 DEF AnswerAttach, Open, regVars, workerVars
    <3> QED
      BY <2>1, <3>1, <3>2, NewIsUnderWay
  <2>2. CASE lastSid' = lastSid
    BY <1>3, <2>2, BrowserQuiet, QuietKeeps
  <2> QED
    BY <1>3, <2>1, <2>2 DEF AnswerAttach
<1>4. ASSUME NEW t \in Targets, AutoAttach(t)
      PROVE  FreshIds'
  <2>1. Carried(AttachedEvent(t, lastSid')) = lastSid'
    BY DEF Carried, AttachedEvent
  <2>2. lastSid' = lastSid + 1 /\ Emit(AttachedEvent(t, lastSid')) /\ UNCHANGED <<sessions, adopted, pc, sid, ans, armed>>
    BY <1>4 DEF AutoAttach, Notify, Open, regVars, workerVars
  <2> QED
    BY <2>1, <2>2, NewIsUnderWay
<1>5. CASE Browser
  BY <1>3, <1>4, <1>5, BrowserQuiet, QuietKeeps DEF Browser
<1>6. CASE UNCHANGED vars \/ \E t \in Targets : Forget(t)
  BY <1>6, BrowserQuiet, QuietKeeps
<1> QED
  BY <1>1, <1>2, <1>5, <1>6 DEF Next

-----------------------------------------------------------------------------
(* The runtime of a registered session.                                    *)

LEMMA FreshInit == Init => FreshIds
<1> SUFFICES ASSUME Init PROVE FreshIds
  OBVIOUS
<1>1. Used = {}
  BY DEF Init, Used, Served, NoSession, Sids
<1>2. \A w \in Workers : ~Bringing(w)
  BY DEF Init, Bringing
<1>3. 1..Len(wire) = {}
  BY DEF Init
<1> QED
  BY <1>1, <1>2, <1>3 DEF Init, FreshIds

LEMMA RuntimeInit == Init => RuntimeInv
BY DEF Init, RuntimeInv, NoSession, Served

\* What a worker is given when it comes to be served, and what it keeps.
LEMMA ServedSession ==
  ASSUME TypeOK, NEW w \in Workers, Begin(w) \/ Worker(w), pc'[w] \in Served
  PROVE  \/ FindLive(w) /\ sessions' = sessions /\ sid'[w] = sessions[tgt[w]].sid /\ tgt' = tgt
         \/ Register(w) /\ sessions'[tgt[w]].sid = sid[w] /\ sid' = sid /\ tgt' = tgt
         \/ pc[w] \in Served /\ sessions' = sessions /\ sid' = sid /\ tgt' = tgt
<1>1. CASE FindLive(w) \/ Register(w)
  BY <1>1 DEF FindLive, Register, regVars, TypeOK
<1>2. CASE \/ RuntimeThere(w) \/ SendRuntime(w) \/ RuntimeRecorded(w)
           \/ DomainsThere(w) \/ SendDomains(w) \/ DomainsRecorded(w)
  BY <1>2 DEF RuntimeThere, SendRuntime, RuntimeRecorded, DomainsThere, SendDomains, DomainsRecorded,
     Served, regVars
<1>3. CASE TakeAdopted(w) \/ SendAttach(w) \/ Attached(w)
  BY <1>3 DEF TakeAdopted, SendAttach, Attached, Send, Served, TypeOK
<1>4. CASE RaiseDead(w) \/ AttachRefused(w) \/ CommandRefused(w) \/ RequestFails(w) \/ Return(w)
  BY <1>4 DEF RaiseDead, AttachRefused, CommandRefused, RequestFails, Return, Leave, Served, TypeOK
<1>5. CASE Begin(w) \/ Acquire(w) \/ DropStale(w) \/ FindNone(w)
  BY <1>5 DEF Begin, Acquire, DropStale, FindNone, Served, TypeOK
<1> QED
  BY <1>1, <1>2, <1>3, <1>4, <1>5 DEF Worker

\* While a worker is served, only forget() and the death of the session touch the registry's
\* entry for its target.
LEMMA ServedKeeps ==
  ASSUME IInv, [Next]_vars, NEW w \in Workers, pc[w] \in Served,
         sessions[tgt[w]].state = "none" \/ sessions[tgt[w]].sid = sid[w]
  PROVE  sessions'[tgt[w]].state = "none" \/ sessions'[tgt[w]].sid = sid[w]
<1> USE DEF IInv
<1>1. ASSUME NEW v \in Workers, Register(v) \/ DropStale(v)
      PROVE  sessions'[tgt[w]] = sessions[tgt[w]]
  <2>1. pc[v] \in Inside /\ pc[v] \notin Served /\ pc[w] \in Inside
    BY <1>1 DEF Register, DropStale, Inside, Served
  <2>2. tgt[v] # tgt[w]
    BY <2>1, OneInside DEF OneProducer
  <2> QED
    BY <1>1, <2>2 DEF Register, DropStale, TypeOK
<1>2. ASSUME NEW t \in Targets, Forget(t)
      PROVE  sessions'[tgt[w]].state = "none" \/ sessions'[tgt[w]] = sessions[tgt[w]]
  BY <1>2 DEF Forget, NoSession, TypeOK
<1>3. tgt[w] \in Targets
  BY DEF TypeOK
<1> QED
  BY <1>1, <1>2, <1>3, SessionsChange, MarkedKeeps

LEMMA RuntimeStep ==
  ASSUME IInv, FreshIds, RuntimeInv, [Next]_vars
  PROVE  RuntimeInv'
<1> USE DEF IInv
\* A worker's session is the one that is registered, if any is.
<1>1. ASSUME NEW w \in Workers, pc'[w] \in Served
      PROVE  sessions'[tgt'[w]].state = "none" \/ sessions'[tgt'[w]].sid = sid'[w]
  <2>1. CASE Begin(w) \/ Worker(w)
    BY <1>1, <2>1, ServedSession DEF RuntimeInv
  <2>2. CASE ~Begin(w) /\ ~Worker(w)
    <3>1. pc'[w] = pc[w] /\ tgt'[w] = tgt[w]
      BY <2>2, OtherStays
    <3>2. sid'[w] = sid[w]
      BY <1>1, <2>2, <3>1, SidChange DEF Served, Worker
    <3> QED
      BY <1>1, <3>1, <3>2, ServedKeeps DEF RuntimeInv
  <2> QED
    BY <2>1, <2>2
\* Two workers do not install the runtime of one session.
<1>2. ASSUME NEW w \in Workers, pc'[w] = "arming"
      PROVE  runtime'[tgt'[w]] # sid'[w]
  <2>1. CASE SendRuntime(w)
    BY <2>1 DEF SendRuntime, RuntimeInstalled, regVars
  <2>2. CASE ~SendRuntime(w)
    <3>1. ~Begin(w) /\ ~Worker(w)
      <4>1. CASE Begin(w)
        BY <1>2, <4>1 DEF Begin, TypeOK
      <4>2. CASE Acquire(w) \/ FindLive(w) \/ Register(w) \/ DropStale(w) \/ FindNone(w)
        BY <1>2, <4>2 DEF Acquire, FindLive, Register, AfterReady, DropStale, FindNone, TypeOK
      <4>3. CASE RaiseDead(w) \/ AttachRefused(w) \/ CommandRefused(w) \/ RequestFails(w) \/ Return(w)
        BY <1>2, <4>3 DEF RaiseDead, AttachRefused, CommandRefused, RequestFails, Return, Leave, TypeOK
      <4>4. CASE TakeAdopted(w) \/ SendAttach(w) \/ Attached(w) \/ SendDomains(w)
        BY <1>2, <4>4 DEF TakeAdopted, SendAttach, Attached, SendDomains, Send, TypeOK
      <4>5. CASE RuntimeThere(w) \/ RuntimeRecorded(w) \/ DomainsThere(w) \/ DomainsRecorded(w)
        BY <1>2, <4>5 DEF RuntimeThere, RuntimeRecorded, DomainsThere, DomainsRecorded, TypeOK
      <4> QED
        BY <2>2, <4>1, <4>2, <4>3, <4>4, <4>5 DEF Worker
    <3>2. pc[w] = "arming" /\ tgt'[w] = tgt[w]
      BY <1>2, <3>1, OtherStays
    <3>3. sid'[w] = sid[w]
      BY <2>2, <3>1, <3>2, SidChange DEF Worker
    <3>4. tgt[w] \in Targets /\ sid[w] \in Sids /\ sid[w] # 0 /\ runtime[tgt[w]] # sid[w]
      BY <3>2 DEF RuntimeInv, HoldingInv, HasSession, Served, TypeOK, Sids
    <3>5. ASSUME NEW v \in Workers, RuntimeRecorded(v)
          PROVE  runtime'[tgt[w]] # sid[w]
      <4>1. v # w
        BY <1>2, <3>5 DEF RuntimeRecorded, TypeOK
      <4>2. tgt[v] # tgt[w]
        BY <3>2, <3>5, <4>1, OneInside DEF OneProducer, RuntimeRecorded, Inside
      <4> QED
        BY <3>4, <3>5, <4>2 DEF RuntimeRecorded, TypeOK
    <3>6. ASSUME NEW v \in Workers, DomainsRecorded(v)
          PROVE  runtime' = runtime
      BY <3>6 DEF DomainsRecorded
    <3>7. ASSUME NEW t \in Targets, Forget(t)
          PROVE  runtime'[tgt[w]] # sid[w]
      BY <3>4, <3>7 DEF Forget, TypeOK
    <3> QED
      BY <3>2, <3>3, <3>4, <3>5, <3>6, <3>7, RecordsChange
  <2> QED
    BY <2>1, <2>2
\* What is registered has the runtime once, and then the table says so.
<1>3. ASSUME NEW t \in Targets, sessions'[t].state # "none"
      PROVE  /\ armed'[sessions'[t].sid] <= 1
             /\ armed'[sessions'[t].sid] = 1 => runtime'[t] = sessions'[t].sid
  <2> DEFINE s == sessions'[t].sid
  <2>1. ASSUME NEW w \in Workers, Register(w)
        PROVE  armed'[s] <= 1 /\ (armed'[s] = 1 => runtime'[t] = s)
    <3>1. armed' = armed /\ runtime' = runtime
      BY <2>1 DEF Register, browserVars
    <3>2. CASE t = tgt[w]
      <4>1. s = sid[w] /\ sid[w] \in Sids /\ armed[sid[w]] \in Nat
        BY <2>1, <3>2, BroughtOnes DEF Register, Bringing, TypeOK
      <4>2. sid[w] \notin Used
        BY <2>1 DEF Register, Bringing, FreshIds
      <4>3. armed[sid[w]] = 0
        BY <4>1, <4>2 DEF Used
      <4> QED
        BY <3>1, <4>1, <4>3
    <3>3. CASE t # tgt[w]
      <4>1. sessions'[t] = sessions[t]
        BY <2>1, <3>3 DEF Register, TypeOK
      <4> QED
        BY <1>3, <3>1, <4>1 DEF RuntimeInv
    <3> QED
      BY <3>2, <3>3
  <2>2. ASSUME NEW w \in Workers, RuntimeRecorded(w)
        PROVE  armed'[s] <= 1 /\ (armed'[s] = 1 => runtime'[t] = s)
    <3>1. /\ sessions' = sessions /\ pc[w] = "arming" /\ tgt[w] \in Targets /\ sid[w] \in Sids /\ owner[sid[w]] = tgt[w]
          /\ runtime' = [runtime EXCEPT ![tgt[w]] = sid[w]]
          /\ armed' = [armed EXCEPT ![sid[w]] = @ + 1]
      BY <2>2 DEF RuntimeRecorded, HoldingInv, HasSession, Served, TypeOK
    <3>2. s \in Sids /\ owner[s] = t /\ armed[s] \in Nat /\ s = sessions[t].sid
      BY <1>3, <3>1 DEF RegisteredInv, TypeOK
    <3>3. armed[s] <= 1 /\ (armed[s] = 1 => runtime[t] = s)
      BY <1>3, <3>1 DEF RuntimeInv
    <3> HIDE DEF s
    <3>4. CASE s = sid[w]
      <4>1. t = tgt[w] /\ runtime[t] # s
        BY <3>1, <3>2, <3>4 DEF RuntimeInv
      <4>2. armed[s] = 0
        BY <3>2, <3>3, <4>1
      <4>3. armed'[s] = 1 /\ runtime'[t] = s
        BY <3>1, <3>2, <3>4, <4>1, <4>2 DEF TypeOK
      <4> QED
        BY <4>3
    <3>5. CASE s # sid[w]
      <4>1. armed'[s] = armed[s]
        BY <3>1, <3>2, <3>5 DEF TypeOK
      <4>2. runtime'[t] = runtime[t] \/ t = tgt[w]
        BY <3>1 DEF TypeOK
      <4>3. t = tgt[w] => sessions[t].state # "none" /\ s = sid[w]
        BY <1>3, <3>1, <3>2 DEF RuntimeInv, Served
      <4> QED
        BY <3>3, <3>5, <4>1, <4>2, <4>3
    <3> QED
      BY <3>4, <3>5
  <2>3. ASSUME NEW u \in Targets, Forget(u)
        PROVE  armed'[s] <= 1 /\ (armed'[s] = 1 => runtime'[t] = s)
    <3>1. t # u /\ sessions'[t] = sessions[t] /\ runtime'[t] = runtime[t] /\ armed' = armed
      BY <1>3, <2>3 DEF Forget, NoSession, browserVars, TypeOK
    <3> QED
      BY <1>3, <3>1 DEF RuntimeInv
  <2>4. CASE /\ ~\E w \in Workers : Register(w) \/ RuntimeRecorded(w)
             /\ ~\E u \in Targets : Forget(u)
    <3>1. UNCHANGED <<runtime, armed>>
      <4>1. ASSUME NEW w \in Workers, DomainsRecorded(w)
            PROVE  UNCHANGED <<runtime, armed>>
        BY <4>1 DEF DomainsRecorded, browserVars
      <4> QED
        BY <2>4, <4>1, RecordsChange
    <3>2. sessions[t].state # "none" /\ s = sessions[t].sid
      <4>1. ASSUME NEW w \in Workers, DropStale(w)
            PROVE  sessions'[t] = sessions[t]
        BY <1>3, <4>1 DEF DropStale, NoSession, TypeOK
      <4> QED
        BY <1>3, <2>4, <4>1, SessionsChange, MarkedKeeps
    <3> QED
      BY <3>1, <3>2 DEF RuntimeInv
  <2> QED
    BY <2>1, <2>2, <2>3, <2>4
<1> QED
  BY <1>1, <1>2, <1>3 DEF RuntimeInv

LEMMA FreshInvariant == Spec => [](IInv /\ FreshIds)
<1>1. Init => IInv /\ FreshIds
  BY InvInit, FreshInit
<1>2. IInv /\ FreshIds /\ [Next]_vars => (IInv /\ FreshIds)'
  BY InvStep, FreshStep
<1> QED
  BY <1>1, <1>2, PTL DEF Spec

\* A session found dead does not come back to life: what is registered as live in its place has
\* another id, however late the replies and events about the dead one are.
THEOREM DeadIsDead == Spec => DeadStaysDead
<1>1. IInv /\ FreshIds /\ [Next]_vars =>
        [\A t \in Targets :
           sessions[t].state \in Dead /\ sessions'[t].state = "attached" =>
             sessions'[t].sid # sessions[t].sid]_vars
  <2> SUFFICES ASSUME IInv, FreshIds, [Next]_vars, NEW t \in Targets,
                      sessions[t].state \in Dead, sessions'[t].state = "attached"
               PROVE  sessions'[t].sid # sessions[t].sid
    OBVIOUS
  <2>1. TypeOK /\ sessions[t].state # "none" /\ sessions[t].state # "attached"
    BY DEF IInv, Dead
  <2>2. sessions[t].sid \in Used
    BY <2>1 DEF IInv, RegisteredInv, Used
  <2>3. ASSUME NEW w \in Workers, Register(w)
        PROVE  t = tgt[w] /\ sessions'[t].sid = sid[w] /\ sid[w] \notin Used
    BY <2>1, <2>3 DEF Register, Bringing, FreshIds, TypeOK
  <2>4. ASSUME NEW w \in Workers, DropStale(w)
        PROVE  FALSE
    BY <2>1, <2>4 DEF DropStale, NoSession, TypeOK
  <2>5. ASSUME NEW u \in Targets, Forget(u)
        PROVE  FALSE
    BY <2>1, <2>5 DEF Forget, NoSession, TypeOK
  <2> QED
    BY <2>1, <2>2, <2>3, <2>4, <2>5, SessionsChange, MarkedKeeps
<1> QED
  BY <1>1, FreshInvariant, PTL DEF Spec, DeadStaysDead

\* The runtime is installed at most once in a session that is registered, however prepare_runtime,
\* forget() and the death of sessions interleave.
THEOREM RuntimeIsInstalledOnce == Spec => []RuntimeOncePerGeneration
<1>1. Init => IInv /\ FreshIds /\ RuntimeInv
  BY InvInit, FreshInit, RuntimeInit
<1>2. (IInv /\ FreshIds /\ RuntimeInv) /\ [Next]_vars => (IInv /\ FreshIds /\ RuntimeInv)'
  BY InvStep, FreshStep, RuntimeStep
<1>3. IInv /\ FreshIds /\ RuntimeInv => RuntimeOncePerGeneration
  BY DEF RuntimeInv, RuntimeOncePerGeneration
<1> QED
  BY <1>1, <1>2, <1>3, PTL DEF Spec

=============================================================================
