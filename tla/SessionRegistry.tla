-------------------------- MODULE SessionRegistry --------------------------
(***************************************************************************)
(* harness/connect/session.py: the registry targetId -> CDP session that   *)
(* the daemon's worker threads share, together with the browser at the     *)
(* other end of the websocket and the reader thread between them.          *)
(*                                                                         *)
(* A worker makes one call at a time on one target.  It runs under the     *)
(* target's lock and makes round trips while it holds it; the reader       *)
(* thread handles the wire in order, wakes the worker a reply belongs to,  *)
(* and edits the registry under _guard only, so between any two steps of a *)
(* worker an event may change what that worker looked at.                  *)
(*                                                                         *)
(* A session object is identified with its session id.  The several        *)
(* X.enable requests of one session are one round trip here, and so are    *)
(* the installation requests of prepare_runtime.                           *)
(***************************************************************************)
EXTENDS Naturals, Sequences

CONSTANTS
  Targets,      \* target ids
  Frames,       \* the targets that are out-of-process iframes
  Workers,      \* the daemon's request threads
  None,         \* no target, no worker
  MaxSid,       \* bound: session ids the browser hands out
  MaxRequests,  \* bound: requests after which a worker begins no further call
  MaxWire       \* bound: unsolicited events in flight

ASSUME FramesAssumption == Frames \subseteq Targets
ASSUME NoneAssumption   == None \notin Targets /\ None \notin Workers
ASSUME BoundAssumption  == MaxSid \in Nat /\ MaxRequests \in Nat /\ MaxWire \in Nat

VARIABLES
  \* the registry
  sessions,   \* _sessions: target -> session record, state "none" when absent
  runtime,    \* _runtime_sessions: target -> session id whose runtime is installed
  adopted,    \* _adopted: target -> session id the browser attached by itself
  bySession,  \* _by_session: session id -> target
  wide,       \* session ids whose object lists the additional domains
  holder,     \* _locks: target -> the worker inside `with lock`
  \* the workers
  pc, op, tgt, sid, req, ans,
  \* the reader thread
  marking,    \* targets disconnected() still has to mark
  \* the connection and the browser
  up, wire, ask, life, open, owner, lastSid, enabled, armed

regVars     == <<sessions, runtime, adopted, bySession, wide>>
workerVars  == <<pc, op, tgt, sid, req, ans, holder>>
browserVars == <<ask, life, open, owner, lastSid, enabled, armed>>
vars        == <<regVars, workerVars, marking, up, wire, browserVars>>

Sids       == 1..MaxSid
Dead       == {"missing", "stale", "unresponsive", "disconnected"}
Session    == [sid : 0..MaxSid, state : {"none", "attached"} \cup Dead]
NoSession  == [sid |-> 0, state |-> "none"]
Ops        == {"ready", "ensure", "prepare", "domains"}
Inside     == {"look", "adopt", "attaching", "enabling", "runtime", "arming",
               "widen", "widening", "done"}
Waiting    == {"attaching", "enabling", "arming", "widening"}
Message    == [kind : {"reply"}, to : Workers, no : Nat, ok : BOOLEAN, sid : 0..MaxSid]
              \cup [kind : {"detached", "inspectorCrashed"}, sid : Sids]
              \cup [kind : {"destroyed", "crashed"}, tgt : Targets]
              \cup [kind : {"attached"}, tgt : Targets, sid : Sids]
              \cup [kind : {"inspectorDetached"}]

Reply(w, isOk, s)    == [kind |-> "reply", to |-> w, no |-> req[w], ok |-> isOk, sid |-> s]
SessionEvent(k, s)   == [kind |-> k, sid |-> s]
TargetEvent(k, t)    == [kind |-> k, tgt |-> t]
AttachedEvent(t, s)  == [kind |-> "attached", tgt |-> t, sid |-> s]

TypeOK ==
  /\ sessions  \in [Targets -> Session]
  /\ runtime   \in [Targets -> 0..MaxSid]
  /\ adopted   \in [Targets -> 0..MaxSid]
  /\ bySession \in [Sids -> Targets \cup {None}]
  /\ wide      \subseteq Sids
  /\ holder    \in [Targets -> Workers \cup {None}]
  /\ pc        \in [Workers -> {"idle", "lock"} \cup Inside]
  /\ op        \in [Workers -> Ops]
  /\ tgt       \in [Workers -> Targets]
  /\ sid       \in [Workers -> 0..MaxSid]
  /\ req       \in [Workers -> Nat]
  /\ ans       \in [Workers -> {"none", "ok", "err"}]
  /\ marking   \subseteq Targets
  /\ up        \in BOOLEAN
  /\ wire      \in Seq(Message)
  /\ ask       \in [Workers -> {"none", "attach", "enable", "arm", "widen"}]
  /\ life      \in [Targets -> {"running", "crashed", "gone"}]
  /\ open      \subseteq Sids
  /\ owner     \in [Sids -> Targets \cup {None}]
  /\ lastSid   \in 0..MaxSid
  /\ enabled   \subseteq Sids
  /\ armed     \in [Sids -> Nat]

Init ==
  /\ sessions  = [t \in Targets |-> NoSession]
  /\ runtime   = [t \in Targets |-> 0]
  /\ adopted   = [t \in Targets |-> 0]
  /\ bySession = [s \in Sids |-> None]
  /\ wide      = {}
  /\ holder    = [t \in Targets |-> None]
  /\ pc        = [w \in Workers |-> "idle"]
  /\ op        = [w \in Workers |-> "ready"]
  /\ tgt       \in [Workers -> Targets]
  /\ sid       = [w \in Workers |-> 0]
  /\ req       = [w \in Workers |-> 0]
  /\ ans       = [w \in Workers |-> "none"]
  /\ marking   = {}
  /\ up        = TRUE
  /\ wire      = <<>>
  /\ ask       = [w \in Workers |-> "none"]
  /\ life      = [t \in Targets |-> "running"]
  /\ open      = {}
  /\ owner     = [s \in Sids |-> None]
  /\ lastSid   = 0
  /\ enabled   = {}
  /\ armed     = [s \in Sids |-> 0]

-----------------------------------------------------------------------------
(* mark(): a dead state overwrites whatever state the session has; a target *)
(* with no session is left alone.                                           *)

Marked(t, st) ==
  IF sessions[t].state = "none" THEN sessions
  ELSE [sessions EXCEPT ![t].state = st]

\* A worker sends a request and waits for its answer.
Send(w, what, where) ==
  /\ req' = [req EXCEPT ![w] = @ + 1]
  /\ ans' = [ans EXCEPT ![w] = "none"]
  /\ ask' = [ask EXCEPT ![w] = IF up THEN what ELSE "none"]
  /\ pc'  = [pc EXCEPT ![w] = where]

LeaveLocked(w) ==   \* mutant: the exception path forgets the lock
  /\ holder' = IF pc[w] = "done" THEN [holder EXCEPT ![tgt[w]] = None] ELSE holder
  /\ pc'     = [pc EXCEPT ![w] = "idle"]
  /\ ans'    = [ans EXCEPT ![w] = "none"]

\* The call ends, with a session or with an exception: `with lock` lets go.
Leave(w) ==
  /\ holder' = [holder EXCEPT ![tgt[w]] = None]
  /\ pc'     = [pc EXCEPT ![w] = "idle"]
  /\ ans'    = [ans EXCEPT ![w] = "none"]

-----------------------------------------------------------------------------
(* The workers.                                                            *)

Begin(w) ==
  /\ pc[w] = "idle" /\ req[w] < MaxRequests
  /\ \E o \in Ops, t \in Targets :
       /\ op'  = [op EXCEPT ![w] = o]
       /\ tgt' = [tgt EXCEPT ![w] = t]
  /\ pc'  = [pc EXCEPT ![w] = "lock"]
  /\ sid' = [sid EXCEPT ![w] = 0]
  /\ ask' = [ask EXCEPT ![w] = "none"]
  /\ UNCHANGED <<regVars, holder, req, ans, marking, up, wire,
                 life, open, owner, lastSid, enabled, armed>>

FreeAlways(t) == t \in Targets   \* mutant: no lock per target

Free(t) == holder[t] = None

Acquire(w) ==
  /\ pc[w] = "lock" /\ Free(tgt[w])
  /\ holder' = [holder EXCEPT ![tgt[w]] = w]
  /\ pc'     = [pc EXCEPT ![w] = "look"]
  /\ UNCHANGED <<regVars, op, tgt, sid, req, ans, marking, up, wire, browserVars>>

\* Where a call goes once _ready_session_locked has a session for it.
AfterReady(w) ==
  CASE op[w] = "prepare" -> "runtime"
    [] op[w] = "domains" -> "widen"
    [] OTHER             -> "done"

\* A live session is returned as it is, without a round trip.
FindLive(w) ==
  /\ pc[w] = "look" /\ sessions[tgt[w]].state = "attached"
  /\ sid' = [sid EXCEPT ![w] = sessions[tgt[w]].sid]
  /\ pc'  = [pc EXCEPT ![w] = AfterReady(w)]
  /\ UNCHANGED <<regVars, op, tgt, holder, req, ans, marking, up, wire, browserVars>>

\* ensure_live() raises the typed error of a state it takes as final.
RaiseDead(w) ==
  /\ pc[w] = "look" /\ op[w] = "ensure"
  /\ sessions[tgt[w]].state \in Dead \ {"stale"}
  /\ Leave(w)
  /\ UNCHANGED <<regVars, op, tgt, sid, req, marking, up, wire, browserVars>>

\* ensure_live() removes exactly the stale generation it has observed.
DropStale(w) ==
  /\ pc[w] = "look" /\ op[w] = "ensure" /\ sessions[tgt[w]].state = "stale"
  /\ sessions'  = [sessions EXCEPT ![tgt[w]] = NoSession]
  /\ bySession' = [bySession EXCEPT ![sessions[tgt[w]].sid] = None]
  /\ pc'        = [pc EXCEPT ![w] = "adopt"]
  /\ UNCHANGED <<runtime, adopted, wide, op, tgt, sid, holder, req, ans,
                 marking, up, wire, browserVars>>

\* No session, or (except in ensure_live) a dead one, which a new one replaces.
FindNone(w) ==
  /\ pc[w] = "look"
  /\ \/ sessions[tgt[w]].state = "none"
     \/ op[w] # "ensure" /\ sessions[tgt[w]].state \in Dead
  /\ pc' = [pc EXCEPT ![w] = "adopt"]
  /\ UNCHANGED <<regVars, op, tgt, sid, holder, req, ans, marking, up, wire, browserVars>>

NotPopped(t) == adopted   \* mutant: get() where the code has pop()

Popped(t) == [adopted EXCEPT ![t] = 0]

\* The browser already attached this one; it still has to be enabled.
TakeAdopted(w) ==
  /\ pc[w] = "adopt" /\ adopted[tgt[w]] # 0
  /\ sid'     = [sid EXCEPT ![w] = adopted[tgt[w]]]
  /\ adopted' = Popped(tgt[w])
  /\ Send(w, "enable", "enabling")
  /\ UNCHANGED <<sessions, runtime, bySession, wide, op, tgt, holder, marking,
                 up, wire, life, open, owner, lastSid, enabled, armed>>

SendAttach(w) ==
  /\ pc[w] = "adopt" /\ adopted[tgt[w]] = 0
  /\ Send(w, "attach", "attaching")
  /\ UNCHANGED <<regVars, op, tgt, sid, holder, marking, up, wire,
                 life, open, owner, lastSid, enabled, armed>>

\* The reply to attachToTarget arrived with a session id.
Attached(w) ==
  /\ pc[w] = "attaching" /\ ans[w] = "ok"
  /\ Send(w, "enable", "enabling")
  /\ UNCHANGED <<regVars, op, tgt, sid, holder, marking, up, wire,
                 life, open, owner, lastSid, enabled, armed>>

\* The browser refused to attach: _dead() marks what is registered and raises.
AttachRefused(w) ==
  /\ pc[w] = "attaching" /\ ans[w] = "err"
  /\ sessions' = Marked(tgt[w], "missing")
  /\ Leave(w)
  /\ UNCHANGED <<runtime, adopted, bySession, wide, op, tgt, sid, req, marking,
                 up, wire, browserVars>>

\* The routing entry that registering session s of target t makes.

RoutedTo(s, t) == [bySession EXCEPT ![s] = t]

EnableSucceeded(w) == ans[w] = "ok"

\* Domains are on: the session is registered.
Register(w) ==
  /\ pc[w] = "enabling" /\ EnableSucceeded(w)
  /\ sessions'  = [sessions EXCEPT ![tgt[w]] = [sid |-> sid[w], state |-> "attached"]]
  /\ bySession' = RoutedTo(sid[w], tgt[w])
  /\ pc'        = [pc EXCEPT ![w] = AfterReady(w)]
  /\ UNCHANGED <<runtime, adopted, wide, op, tgt, sid, holder, req, ans,
                 marking, up, wire, browserVars>>

RuntimeByTarget(w) == runtime[tgt[w]] # 0    \* mutant: ignores the generation

RuntimeInstalled(w) == runtime[tgt[w]] = sid[w]

\* prepare_runtime() finds the runtime installed in this very generation ...
RuntimeThere(w) ==
  /\ pc[w] = "runtime" /\ RuntimeInstalled(w)
  /\ pc' = [pc EXCEPT ![w] = "done"]
  /\ UNCHANGED <<regVars, op, tgt, sid, holder, req, ans, marking, up, wire, browserVars>>

\* ... or installs it.
SendRuntime(w) ==
  /\ pc[w] = "runtime" /\ ~RuntimeInstalled(w)
  /\ Send(w, "arm", "arming")
  /\ UNCHANGED <<regVars, op, tgt, sid, holder, marking, up, wire,
                 life, open, owner, lastSid, enabled, armed>>

RuntimeRecorded(w) ==
  /\ pc[w] = "arming" /\ ans[w] = "ok"
  /\ runtime' = [runtime EXCEPT ![tgt[w]] = sid[w]]
  /\ armed'   = [armed EXCEPT ![sid[w]] = @ + 1]
  /\ pc'      = [pc EXCEPT ![w] = "done"]
  /\ UNCHANGED <<sessions, adopted, bySession, wide, op, tgt, sid, holder, req, ans,
                 marking, up, wire, ask, life, open, owner, lastSid, enabled>>

\* ensure_domains(): the session has the additional domains, or gets them.
DomainsThere(w) ==
  /\ pc[w] = "widen" /\ sid[w] \in wide
  /\ pc' = [pc EXCEPT ![w] = "done"]
  /\ UNCHANGED <<regVars, op, tgt, sid, holder, req, ans, marking, up, wire, browserVars>>

SendDomains(w) ==
  /\ pc[w] = "widen" /\ sid[w] \notin wide
  /\ Send(w, "widen", "widening")
  /\ UNCHANGED <<regVars, op, tgt, sid, holder, marking, up, wire,
                 life, open, owner, lastSid, enabled, armed>>

DomainsRecorded(w) ==
  /\ pc[w] = "widening" /\ ans[w] = "ok"
  /\ wide' = wide \cup {sid[w]}
  /\ pc'   = [pc EXCEPT ![w] = "done"]
  /\ UNCHANGED <<sessions, runtime, adopted, bySession, op, tgt, sid, holder, req, ans,
                 marking, up, wire, browserVars>>

\* A session command was refused: the exception leaves the call as it is.
CommandRefused(w) ==
  /\ pc[w] \in Waiting \ {"attaching"} /\ ans[w] = "err"
  /\ Leave(w)
  /\ UNCHANGED <<regVars, op, tgt, sid, req, marking, up, wire, browserVars>>

\* request() gives up on an answer: Timeout, RendererUnresponsive, or
\* BrowserDisconnected on a dead connection.  The worker raises; the browser
\* may still carry the request out.
RequestFails(w) ==
  /\ pc[w] \in Waiting /\ ans[w] = "none"
  /\ Leave(w)
  /\ UNCHANGED <<regVars, op, tgt, sid, req, marking, up, wire, browserVars>>

Return(w) ==
  /\ pc[w] = "done"
  /\ Leave(w)
  /\ UNCHANGED <<regVars, op, tgt, sid, req, marking, up, wire, browserVars>>

\* forget() takes no target lock: it may land in the middle of any call.
Forget(t) ==
  /\ sessions[t] # NoSession \/ runtime[t] # 0
  /\ sessions'  = [sessions EXCEPT ![t] = NoSession]
  /\ runtime'   = [runtime EXCEPT ![t] = 0]
  /\ bySession' = [s \in Sids |-> IF s = sessions[t].sid THEN None ELSE bySession[s]]
  /\ UNCHANGED <<adopted, wide, workerVars, marking, up, wire, browserVars>>

-----------------------------------------------------------------------------
(* The reader thread: the next message on the wire, whole, unless it is    *)
(* still inside disconnected().                                            *)

Receive(k) == marking = {} /\ wire # <<>> /\ Head(wire).kind = k /\ wire' = Tail(wire)

AwaitedByWorker(m) == pc[m.to] \in Waiting   \* mutant: any reply to the worker

Awaited(m) == pc[m.to] \in Waiting /\ m.no = req[m.to]

\* _dispatch() wakes the worker whose slot the reply carries; a late reply to
\* a request that was given up finds no slot.
OnReply ==
  /\ Receive("reply")
  /\ LET m == Head(wire)
         w == m.to
     IN  IF Awaited(m)
         THEN /\ ans' = [ans EXCEPT ![w] = IF m.ok THEN "ok" ELSE "err"]
              /\ sid' = [sid EXCEPT ![w] = IF pc[w] = "attaching" THEN m.sid ELSE @]
         ELSE UNCHANGED <<ans, sid>>
  /\ UNCHANGED <<regVars, pc, op, tgt, req, holder, marking, up, browserVars>>

OnAttachedToTarget ==
  /\ Receive("attached")
  /\ adopted' = [adopted EXCEPT ![Head(wire).tgt] = Head(wire).sid]
  /\ UNCHANGED <<sessions, runtime, bySession, wide, workerVars, marking, up, browserVars>>

\* An event that names a session reaches the target bySession routes it to.
Routed(s, st) ==
  IF bySession[s] = None THEN sessions ELSE Marked(bySession[s], st)

OnDetached ==
  /\ Receive("detached")
  /\ sessions' = Routed(Head(wire).sid, "stale")
  /\ UNCHANGED <<runtime, adopted, bySession, wide, workerVars, marking, up, browserVars>>

OnDestroyed ==
  /\ Receive("destroyed")
  /\ sessions' = Marked(Head(wire).tgt, "missing")
  /\ UNCHANGED <<runtime, adopted, bySession, wide, workerVars, marking, up, browserVars>>

OnCrashed ==
  /\ Receive("crashed")
  /\ sessions' = Marked(Head(wire).tgt, "unresponsive")
  /\ UNCHANGED <<runtime, adopted, bySession, wide, workerVars, marking, up, browserVars>>

OnInspectorCrashed ==
  /\ Receive("inspectorCrashed")
  /\ sessions' = Routed(Head(wire).sid, "unresponsive")
  /\ UNCHANGED <<runtime, adopted, bySession, wide, workerVars, marking, up, browserVars>>

\* disconnected() copies the targets under _guard, then marks them one by one.
OnInspectorDetached ==
  /\ Receive("inspectorDetached")
  /\ marking' = {t \in Targets : sessions[t].state # "none"}
  /\ UNCHANGED <<regVars, workerVars, up, browserVars>>

MarkDisconnected(t) ==
  /\ t \in marking
  /\ marking'  = marking \ {t}
  /\ sessions' = Marked(t, "disconnected")
  /\ UNCHANGED <<runtime, adopted, bySession, wide, workerVars, up, wire, browserVars>>

-----------------------------------------------------------------------------
(* The browser (external).  It answers requests in any order, and reports  *)
(* what happens to its targets on the same, ordered, wire.                 *)

Emit(m) == up /\ wire' = Append(wire, m)
Notify(m) == Len(wire) < MaxWire /\ Emit(m)

\* A new session id, opened on t.
Open(t) ==
  /\ lastSid < MaxSid
  /\ lastSid' = lastSid + 1
  /\ open'    = open \cup {lastSid'}
  /\ owner'   = [owner EXCEPT ![lastSid'] = t]

AnswerAttach(w) ==
  /\ ask[w] = "attach"
  /\ ask' = [ask EXCEPT ![w] = "none"]
  /\ \/ /\ life[tgt[w]] # "gone" /\ tgt[w] \notin Frames
        /\ Open(tgt[w]) /\ Emit(Reply(w, TRUE, lastSid'))
     \/ /\ life[tgt[w]] = "gone" \/ tgt[w] \in Frames
        /\ Emit(Reply(w, FALSE, 0))
        /\ UNCHANGED <<lastSid, open, owner>>
  /\ UNCHANGED <<regVars, workerVars, marking, up, life, enabled, armed>>

\* A command on an open session of a healthy renderer succeeds; on a closed
\* session it is refused; a crashed renderer does not answer.
AnswerCommand(w) ==
  /\ ask[w] \in {"enable", "arm", "widen"}
  /\ ask' = [ask EXCEPT ![w] = "none"]
  /\ \/ /\ sid[w] \in open /\ life[owner[sid[w]]] = "running"
        /\ Emit(Reply(w, TRUE, 0))
        /\ enabled' = IF ask[w] = "enable" THEN enabled \cup {sid[w]} ELSE enabled
     \/ /\ sid[w] \notin open
        /\ Emit(Reply(w, FALSE, 0))
        /\ UNCHANGED enabled
  /\ UNCHANGED <<regVars, workerVars, marking, up, life, open, owner, lastSid, armed>>

AutoAttach(t) ==
  /\ t \in Frames /\ life[t] = "running" /\ \A s \in open : owner[s] # t
  /\ Open(t)
  /\ Notify(AttachedEvent(t, lastSid'))
  /\ UNCHANGED <<regVars, workerVars, marking, up, ask, life, enabled, armed>>

Detach(s) ==
  /\ s \in open
  /\ open' = open \ {s}
  /\ Notify(SessionEvent("detached", s))
  /\ UNCHANGED <<regVars, workerVars, marking, up, ask, life, owner, lastSid,
                 enabled, armed>>

\* A target goes once its sessions have been detached.
Destroy(t) ==
  /\ life[t] # "gone" /\ \A s \in open : owner[s] # t
  /\ life' = [life EXCEPT ![t] = "gone"]
  /\ Notify(TargetEvent("destroyed", t))
  /\ UNCHANGED <<regVars, workerVars, marking, up, ask, open, owner, lastSid,
                 enabled, armed>>

Crash(t) ==
  /\ life[t] = "running"
  /\ life' = [life EXCEPT ![t] = "crashed"]
  /\ \/ Notify(TargetEvent("crashed", t))
     \/ \E s \in open : owner[s] = t /\ Notify(SessionEvent("inspectorCrashed", s))
  /\ UNCHANGED <<regVars, workerVars, marking, up, ask, open, owner, lastSid,
                 enabled, armed>>

GoingAway ==
  /\ Notify([kind |-> "inspectorDetached"])
  /\ UNCHANGED <<regVars, workerVars, marking, up, browserVars>>

\* The websocket ends; nothing tells the registry.
LoseConnection ==
  /\ up /\ up' = FALSE
  /\ wire' = <<>>
  /\ ask'  = [w \in Workers |-> "none"]
  /\ open' = {}
  /\ UNCHANGED <<regVars, workerVars, marking, life, owner, lastSid, enabled, armed>>

-----------------------------------------------------------------------------
Worker(w) ==
  \/ Acquire(w) \/ FindLive(w) \/ RaiseDead(w) \/ DropStale(w) \/ FindNone(w)
  \/ TakeAdopted(w) \/ SendAttach(w) \/ Attached(w) \/ AttachRefused(w)
  \/ Register(w) \/ RuntimeThere(w) \/ SendRuntime(w) \/ RuntimeRecorded(w)
  \/ DomainsThere(w) \/ SendDomains(w) \/ DomainsRecorded(w)
  \/ CommandRefused(w) \/ RequestFails(w) \/ Return(w)

Reader ==
  \/ OnReply \/ OnAttachedToTarget \/ OnDetached \/ OnDestroyed \/ OnCrashed
  \/ OnInspectorCrashed \/ OnInspectorDetached
  \/ \E t \in Targets : MarkDisconnected(t)

Browser ==
  \/ \E w \in Workers : AnswerAttach(w) \/ AnswerCommand(w)
  \/ \E t \in Targets : AutoAttach(t) \/ Destroy(t) \/ Crash(t)
  \/ \E s \in Sids : Detach(s)
  \/ GoingAway \/ LoseConnection

Next ==
  \/ \E w \in Workers : Begin(w) \/ Worker(w)
  \/ \E t \in Targets : Forget(t)
  \/ Reader \/ Browser

Spec == Init /\ [][Next]_vars

\* The threads run, and request() gives up after its timeout: a step of a
\* worker or of the reader that stays possible is taken.  The browser and the
\* callers promise nothing.
FairSpec == Spec /\ (\A w \in Workers : WF_vars(Worker(w))) /\ WF_vars(Reader)

-----------------------------------------------------------------------------
(* What the registry promises.                                             *)

\* "Exactly one producer": two workers are never inside the lock of the same
\* target, so no target is being attached, enabled or armed twice at once.
OneProducer ==
  \A v, w \in Workers :
    pc[v] \in Inside /\ pc[w] \in Inside /\ tgt[v] = tgt[w] => v = w

\* A session is never shared across targets: what is registered, routed or
\* adopted for a target is a session the browser opened on that target.
NeverShared ==
  /\ \A t \in Targets : sessions[t].state # "none" => owner[sessions[t].sid] = t
  /\ \A t \in Targets : adopted[t] # 0 => owner[adopted[t]] = t
  /\ \A s \in Sids : bySession[s] # None => owner[s] = bySession[s]

\* The death of a registered session can reach it: its id is routed to its
\* target for as long as it is registered, on every path that registers,
\* replaces or forgets.
RegisteredIsRouted ==
  \A t \in Targets : sessions[t].state # "none" => bySession[sessions[t].sid] = t

\* No path registers a session whose domains the browser has not enabled.
RegisteredIsEnabled ==
  \A t \in Targets : sessions[t].state # "none" => sessions[t].sid \in enabled

\* The runtime is installed to completion at most once in a registered
\* generation, however the callers of prepare_runtime, forget and the detach
\* events interleave.  (A session forgotten while prepare_runtime holds it may
\* be armed again, but it is never registered again.)
RuntimeOncePerGeneration ==
  \A t \in Targets : sessions[t].state # "none" => armed[sessions[t].sid] <= 1

\* A prepare_runtime that returns does return a session that has the runtime,
\* an ensure_domains that returns returns one with the domains, and any call
\* that returns returns a session whose domains are enabled.
ReturnedIsPrepared ==
  \A w \in Workers : pc[w] = "done" =>
    /\ sid[w] \in enabled
    /\ op[w] = "prepare" => armed[sid[w]] > 0
    /\ op[w] = "domains" => sid[w] \in wide

\* A worker never replaces or drops a session that is live: only forget()
\* takes a live session out of the registry.  A second caller that recovers a
\* stale session cannot delete the fresh one the first has installed.
LiveSessionStays ==
  [][\A t \in Targets :
       sessions[t].state = "attached" =>
         sessions'[t].sid = sessions[t].sid \/ Forget(t)]_vars

\* A session id that was found dead is never handed out again as live.
DeadStaysDead ==
  [][\A t \in Targets :
       sessions[t].state \in Dead /\ sessions'[t].state = "attached" =>
         sessions'[t].sid # sessions[t].sid]_vars

\* Every call returns or raises: no worker stays inside a target's lock, or
\* outside it, for ever, even if the browser never answers.
EveryCallEnds == \A w \in Workers : pc[w] # "idle" ~> pc[w] = "idle"

-----------------------------------------------------------------------------
(* What the source says of the registry and the code does not do.          *)

\* session.py:204 "the browser already told us when the target died": a session
\* that is registered live and closed in the browser is one whose detach event
\* has not been read yet.
LiveUntilTold ==
  up => \A t \in Targets :
    sessions[t].state = "attached" /\ sessions[t].sid \notin open =>
      \E i \in DOMAIN wire : wire[i] = SessionEvent("detached", sessions[t].sid)

\* session.py:390 "Every session dies with the connection".
DiesWithTheConnection ==
  ~up ~> \A t \in Targets : sessions[t].state # "attached"
=============================================================================
