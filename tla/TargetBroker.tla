---------------------------- MODULE TargetBroker ----------------------------
(***************************************************************************)
(* harness/connect/daemon.py: which tab a client gets.  Handlers are the   *)
(* threads of the request pool; each serves one request of one peer at a   *)
(* time (adopt, lease_create, lease_claim, lease_release, or a command on  *)
(* a target).  The reader thread runs the subscribers of one event in the  *)
(* order they were registered: the session registry, the leases, the page  *)
(* cache.  The connection thread of a peer closes it and then withdraws    *)
(* its adoption.  No lock is held over a round trip, so every critical     *)
(* section is one step.                                                    *)
(*                                                                         *)
(* Every target is a drivable page.  The session registry is reduced to    *)
(* what ensure_live() answers; SessionRegistry has it in full.             *)
(***************************************************************************)
EXTENDS Naturals, Sequences

CONSTANTS
  Peers,        \* client connections
  Handlers,     \* threads of the request pool
  Targets,      \* pages the browser may have
  Leases,       \* capability tokens that may be minted
  Requests,     \* the kinds of request the clients make
  None,
  MaxRequests,  \* bound: CDP requests after which a handler starts nothing new
  MaxWire       \* bound: unsolicited events in flight

ASSUME BrokerAssumption == None \notin Targets /\ None \notin Leases
ASSUME RequestsAssumption ==
  Requests \subseteq {"adopt", "lease_create", "lease_claim", "lease_release", "command"}

VARIABLES
  adoptions,       \* _adoptions: peer -> target
  leases,          \* _leases: lease -> target
  leaseForTarget,  \* _lease_for_target: target -> lease
  pageInfos,       \* _page_infos: the cached drivable pages
  session,         \* the registry: "none", "live" or "dead"
  closed,          \* peer.closed
  cleaned,         \* peers whose connection thread has finished
  pc, op, peer, tgt, lease, exclude, infos, req, ans,
  event, stage,    \* the event the reader is handing out, and to whom next
  tabs, born,      \* the browser: open tabs, and the ids it has ever used
  wire, ask        \* the websocket, and the requests it has not answered

brokerVars  == <<adoptions, leases, leaseForTarget, pageInfos, session>>
peerVars    == <<closed, cleaned>>
handlerVars == <<pc, op, peer, tgt, lease, exclude, infos, req, ans>>
vars == <<brokerVars, peerVars, handlerVars, event, stage, tabs, born, wire, ask>>

Ops     == {"none", "adopt", "lease_create", "lease_claim", "lease_release", "command"}
Waiting == {"listing", "creating", "attaching"}
Message == [kind : {"reply"}, to : Handlers, no : Nat, ok : BOOLEAN, targets : SUBSET Targets]
           \cup [kind : {"created", "gone"}, tgt : Targets]
NoEvent == [kind |-> "nothing"]

TypeOK ==
  /\ adoptions      \in [Peers -> Targets \cup {None}]
  /\ leases         \in [Leases -> Targets \cup {None}]
  /\ leaseForTarget \in [Targets -> Leases \cup {None}]
  /\ pageInfos      \subseteq Targets
  /\ session        \in [Targets -> {"none", "live", "dead"}]
  /\ closed  \subseteq Peers
  /\ cleaned \subseteq Peers
  /\ pc      \in [Handlers -> {"idle", "live", "cached", "list", "remember", "pick", "reserve",
                               "ensure", "mint", "claim", "drop", "answer"} \cup Waiting]
  /\ op      \in [Handlers -> Ops]
  /\ peer    \in [Handlers -> Peers \cup {None}]
  /\ tgt     \in [Handlers -> Targets \cup {None}]
  /\ lease   \in [Handlers -> Leases \cup {None}]
  /\ exclude \in [Handlers -> SUBSET Targets]
  /\ infos   \in [Handlers -> SUBSET Targets]
  /\ req     \in [Handlers -> Nat]
  /\ ans     \in [Handlers -> {"none", "ok", "err"}]
  /\ event   \in Message \cup {NoEvent}
  /\ stage   \in {"idle", "registry", "leases", "infos"}
  /\ tabs    \subseteq born
  /\ born    \subseteq Targets
  /\ wire    \in Seq(Message)
  /\ ask     \in [Handlers -> {"none", "list", "create", "attach"}]

Init ==
  /\ tabs \in SUBSET Targets
  /\ adoptions      = [p \in Peers |-> None]
  /\ leases         = [l \in Leases |-> None]
  /\ leaseForTarget = [t \in Targets |-> None]
  /\ session \in [Targets -> {"none", "live"}]   \* some tabs are in use already
  /\ \A t \in Targets : session[t] = "live" => t \in tabs
  /\ closed = {} /\ cleaned = {}
  /\ pc      = [h \in Handlers |-> "idle"]
  /\ op      = [h \in Handlers |-> "none"]
  /\ peer    = [h \in Handlers |-> None]
  /\ tgt     = [h \in Handlers |-> None]
  /\ lease   = [h \in Handlers |-> None]
  /\ exclude = [h \in Handlers |-> {}]
  /\ infos   = [h \in Handlers |-> {}]
  /\ req     = [h \in Handlers |-> 0]
  /\ ans     = [h \in Handlers |-> "none"]
  /\ event = NoEvent /\ stage = "idle"
  /\ born = tabs
  /\ pageInfos = tabs        \* setDiscoverTargets reports what is open
  /\ wire = <<>>
  /\ ask = [h \in Handlers |-> "none"]

-----------------------------------------------------------------------------
Goto(h, where) == pc' = [pc EXCEPT ![h] = where]

Send(h, what, where) ==
  /\ req' = [req EXCEPT ![h] = @ + 1]
  /\ ans' = [ans EXCEPT ![h] = "none"]
  /\ ask' = [ask EXCEPT ![h] = what]
  /\ Goto(h, where)

TakenIfLeased ==   \* mutant: adoption ignores the other clients
  {t \in Targets : leaseForTarget[t] # None}

\* What implicit adoption may not touch.
Taken == {adoptions[p] : p \in Peers} \cup {t \in Targets : leaseForTarget[t] # None}

ReservedAnyway(h, t) == [adoptions EXCEPT ![peer[h]] = t]   \* mutant: for the dead too

\* A reservation is recorded only for a connection that is still open.
Reserved(h, t) ==
  IF peer[h] \in closed THEN adoptions ELSE [adoptions EXCEPT ![peer[h]] = t]

DropOneTable(l) ==   \* mutant: the second table keeps the lease
  /\ leases' = [leases EXCEPT ![l] = None]
  /\ UNCHANGED leaseForTarget

\* _drop_lease(): both tables forget it.
DropLease(l) ==
  /\ leases' = [leases EXCEPT ![l] = None]
  /\ leaseForTarget' =
       [t \in Targets |-> IF t = leases[l] THEN None ELSE leaseForTarget[t]]

-----------------------------------------------------------------------------
(* A request arrives.  One that names a closed peer is not answered.       *)

BeginAdopt(h) ==
  /\ "adopt" \in Requests
  /\ pc[h] = "idle" /\ req[h] < MaxRequests
  /\ \E p \in Peers \ closed, x \in {{}} \cup {{t} : t \in Targets} :
       /\ peer'    = [peer EXCEPT ![h] = p]
       /\ exclude' = [exclude EXCEPT ![h] = x]
  /\ op' = [op EXCEPT ![h] = "adopt"]
  /\ Goto(h, "live")
  /\ ask' = [ask EXCEPT ![h] = "none"]
  /\ UNCHANGED <<brokerVars, peerVars, tgt, lease, infos, req, ans, event, stage, tabs, born, wire>>

BeginOnTarget(h) ==
  /\ pc[h] = "idle" /\ req[h] < MaxRequests
  /\ \E p \in Peers \ closed, t \in Targets, o \in {"lease_create", "command"} \cap Requests :
       /\ peer' = [peer EXCEPT ![h] = p]
       /\ tgt'  = [tgt EXCEPT ![h] = t]
       /\ op'   = [op EXCEPT ![h] = o]
  /\ Goto(h, "ensure")
  /\ ask' = [ask EXCEPT ![h] = "none"]
  /\ UNCHANGED <<brokerVars, peerVars, lease, exclude, infos, req, ans, event, stage, tabs, born, wire>>

BeginOnLease(h) ==
  /\ pc[h] = "idle" /\ req[h] < MaxRequests
  /\ \E p \in Peers \ closed, l \in Leases,
        o \in {"lease_claim", "lease_release"} \cap Requests :
       /\ peer'  = [peer EXCEPT ![h] = p]
       /\ lease' = [lease EXCEPT ![h] = l]
       /\ op'    = [op EXCEPT ![h] = o]
       /\ Goto(h, IF o = "lease_claim" THEN "claim" ELSE "drop")
  /\ ask' = [ask EXCEPT ![h] = "none"]
  /\ UNCHANGED <<brokerVars, peerVars, tgt, exclude, infos, req, ans, event, stage, tabs, born, wire>>

-----------------------------------------------------------------------------
(* adopt                                                                   *)

\* live = set(self.sessions.live_targets), before any lock is taken.
ReadLive(h) ==
  /\ pc[h] = "live"
  /\ infos' = [infos EXCEPT ![h] = {t \in Targets : session[t] = "live"}]
  /\ Goto(h, "cached")
  /\ UNCHANGED <<brokerVars, peerVars, op, peer, tgt, lease, exclude, req, ans,
                 event, stage, tabs, born, wire, ask>>

Cached(h) == (pageInfos \cap infos[h]) \ (Taken \cup exclude[h])

\* A cached page with a live session is selected and reserved under both locks.
PickCached(h) ==
  /\ pc[h] = "cached"
  /\ \E t \in Cached(h) :
       /\ tgt'       = [tgt EXCEPT ![h] = t]
       /\ adoptions' = Reserved(h, t)
  /\ Goto(h, "answer")
  /\ UNCHANGED <<leases, leaseForTarget, pageInfos, session, peerVars, op, peer, lease,
                 exclude, infos, req, ans, event, stage, tabs, born, wire, ask>>

NoneCached(h) ==
  /\ pc[h] = "cached" /\ Cached(h) = {}
  /\ Send(h, "list", "listing")
  /\ UNCHANGED <<brokerVars, peerVars, op, peer, tgt, lease, exclude, infos,
                 event, stage, tabs, born, wire>>

\* The reply to Target.getTargets refreshes the cache first ...
Remember(h) ==
  /\ pc[h] = "listing" /\ ans[h] = "ok"
  /\ pageInfos' = pageInfos \cup infos[h]
  /\ Goto(h, "pick")
  /\ UNCHANGED <<adoptions, leases, leaseForTarget, session, peerVars, op, peer, tgt, lease,
                 exclude, infos, req, ans, event, stage, tabs, born, wire, ask>>

Pickable(h) == infos[h] \ (Taken \cup exclude[h])

\* ... and then a page of that list is selected and reserved under both locks.
PickListed(h) ==
  /\ pc[h] = "pick"
  /\ \E t \in Pickable(h) :
       /\ tgt'       = [tgt EXCEPT ![h] = t]
       /\ adoptions' = Reserved(h, t)
  /\ Goto(h, "answer")
  /\ UNCHANGED <<leases, leaseForTarget, pageInfos, session, peerVars, op, peer, lease,
                 exclude, infos, req, ans, event, stage, tabs, born, wire, ask>>

NoneListed(h) ==
  /\ pc[h] = "pick" /\ Pickable(h) = {}
  /\ Send(h, "create", "creating")
  /\ UNCHANGED <<brokerVars, peerVars, op, peer, tgt, lease, exclude, infos,
                 event, stage, tabs, born, wire>>

\* The new tab is reserved and remembered, unless somebody took it meanwhile.
ReserveCreated(h) ==
  /\ pc[h] = "creating" /\ ans[h] = "ok"
  /\ \E t \in infos[h] \ (Taken \cup exclude[h]) :
       /\ tgt'       = [tgt EXCEPT ![h] = t]
       /\ adoptions' = Reserved(h, t)
       /\ pageInfos' = pageInfos \cup {t}
  /\ Goto(h, "answer")
  /\ UNCHANGED <<leases, leaseForTarget, session, peerVars, op, peer, lease,
                 exclude, infos, req, ans, event, stage, tabs, born, wire, ask>>

\* In that case the code says `continue`; but the loop runs `while pick is
\* None`, and pick is the tab: the loop ends and the tab is the answer.
CreatedIsTaken(h) ==
  /\ pc[h] = "creating" /\ ans[h] = "ok"
  /\ \E t \in infos[h] \cap (Taken \cup exclude[h]) : tgt' = [tgt EXCEPT ![h] = t]
  /\ Goto(h, "answer")
  /\ UNCHANGED <<brokerVars, peerVars, op, peer, lease,
                 exclude, infos, req, ans, event, stage, tabs, born, wire, ask>>

-----------------------------------------------------------------------------
(* ensure_live, as the leases and the target commands use it.              *)

\* What the request does next with a live session, and without one.
Lively(h) == IF op[h] = "lease_create" THEN "mint" ELSE "answer"
Deadly(h) == IF op[h] = "lease_claim" THEN "drop" ELSE "answer"

FindSession(h) ==
  /\ pc[h] = "ensure" /\ session[tgt[h]] # "none"
  /\ Goto(h, IF session[tgt[h]] = "live" THEN Lively(h) ELSE Deadly(h))
  /\ UNCHANGED <<brokerVars, peerVars, op, peer, tgt, lease, exclude, infos, req, ans,
                 event, stage, tabs, born, wire, ask>>

SendAttach(h) ==
  /\ pc[h] = "ensure" /\ session[tgt[h]] = "none"
  /\ Send(h, "attach", "attaching")
  /\ UNCHANGED <<brokerVars, peerVars, op, peer, tgt, lease, exclude, infos,
                 event, stage, tabs, born, wire>>

Attached(h) ==
  /\ pc[h] = "attaching" /\ ans[h] = "ok"
  /\ session' = [session EXCEPT ![tgt[h]] = "live"]
  /\ Goto(h, Lively(h))
  /\ UNCHANGED <<adoptions, leases, leaseForTarget, pageInfos, peerVars, op, peer, tgt, lease,
                 exclude, infos, req, ans, event, stage, tabs, born, wire, ask>>

NotAttached(h) ==
  /\ pc[h] = "attaching" /\ ans[h] = "err"
  /\ Goto(h, Deadly(h))
  /\ UNCHANGED <<brokerVars, peerVars, op, peer, tgt, lease, exclude, infos, req, ans,
                 event, stage, tabs, born, wire, ask>>

\* A CDP request times out, or the connection is gone: adopt answers the
\* error, and so does ensure_live's caller, except that lease_claim drops the
\* lease.
RequestFails(h) ==
  /\ pc[h] \in Waiting /\ ans[h] = "none"
  /\ Goto(h, IF pc[h] = "attaching" THEN Deadly(h) ELSE "answer")
  /\ tgt' = IF op[h] = "adopt" THEN [tgt EXCEPT ![h] = None] ELSE tgt
  /\ UNCHANGED <<brokerVars, peerVars, op, peer, lease, exclude, infos, req, ans,
                 event, stage, tabs, born, wire, ask>>

-----------------------------------------------------------------------------
(* Leases                                                                  *)

Unleased(t) == leaseForTarget[t] = None

\* lease_create, under _lease_lock: refuse a leased target, or mint a token.
Mint(h) ==
  /\ pc[h] = "mint"
  /\ \/ /\ Unleased(tgt[h])
        /\ \E l \in Leases :
             /\ leases[l] = None /\ \A g \in Handlers : lease[g] # l
             /\ leases'         = [leases EXCEPT ![l] = tgt[h]]
             /\ leaseForTarget' = [leaseForTarget EXCEPT ![tgt[h]] = l]
     \/ ~Unleased(tgt[h]) /\ UNCHANGED <<leases, leaseForTarget>>
  /\ Goto(h, "answer")
  /\ UNCHANGED <<adoptions, pageInfos, session, peerVars, op, peer, tgt, lease, exclude,
                 infos, req, ans, event, stage, tabs, born, wire, ask>>

LeasedTarget(l) == leases[l]

\* lease_claim looks the lease up under the lock, then asks ensure_live.
Claim(h) ==
  /\ pc[h] = "claim"
  /\ tgt' = [tgt EXCEPT ![h] = LeasedTarget(lease[h])]
  /\ Goto(h, IF leases[lease[h]] = None THEN "answer" ELSE "ensure")
  /\ UNCHANGED <<brokerVars, peerVars, op, peer, lease, exclude, infos, req, ans,
                 event, stage, tabs, born, wire, ask>>

Drop(h) ==
  /\ pc[h] = "drop"
  /\ DropLease(lease[h])
  /\ Goto(h, "answer")
  /\ UNCHANGED <<adoptions, pageInfos, session, peerVars, op, peer, tgt, lease, exclude,
                 infos, req, ans, event, stage, tabs, born, wire, ask>>

Answer(h) ==
  /\ pc[h] = "answer"
  /\ Goto(h, "idle")
  /\ op'      = [op EXCEPT ![h] = "none"]
  /\ peer'    = [peer EXCEPT ![h] = None]
  /\ ans'     = [ans EXCEPT ![h] = "none"]
  /\ tgt'     = [tgt EXCEPT ![h] = None]
  /\ lease'   = [lease EXCEPT ![h] = None]
  /\ exclude' = [exclude EXCEPT ![h] = {}]
  /\ infos'   = [infos EXCEPT ![h] = {}]
  /\ UNCHANGED <<brokerVars, peerVars, req, event, stage, tabs, born, wire, ask>>

-----------------------------------------------------------------------------
(* The connection thread of a peer: peer.close(), then its adoption goes.  *)

ClosePeer(p) ==
  /\ p \notin closed
  /\ closed' = closed \cup {p}
  /\ UNCHANGED <<brokerVars, cleaned, handlerVars, event, stage, tabs, born, wire, ask>>

CleanPeer(p) ==
  /\ p \in closed \ cleaned
  /\ cleaned'   = cleaned \cup {p}
  /\ adoptions' = [adoptions EXCEPT ![p] = None]
  /\ UNCHANGED <<leases, leaseForTarget, pageInfos, session, closed, handlerVars,
                 event, stage, tabs, born, wire, ask>>

-----------------------------------------------------------------------------
(* The reader thread.                                                      *)

OnReply ==
  /\ stage = "idle" /\ wire # <<>> /\ Head(wire).kind = "reply"
  /\ wire' = Tail(wire)
  /\ LET m == Head(wire)
         h == m.to
     IN  IF pc[h] \in Waiting /\ ans[h] = "none" /\ m.no = req[h]
         THEN /\ ans'   = [ans EXCEPT ![h] = IF m.ok THEN "ok" ELSE "err"]
              /\ infos' = [infos EXCEPT ![h] = m.targets]
         ELSE UNCHANGED <<ans, infos>>
  /\ UNCHANGED <<brokerVars, peerVars, pc, op, peer, tgt, lease, exclude, req,
                 event, stage, tabs, born, ask>>

ReadEvent ==
  /\ stage = "idle" /\ wire # <<>> /\ Head(wire).kind # "reply"
  /\ event' = Head(wire)
  /\ wire'  = Tail(wire)
  /\ stage' = "registry"
  /\ UNCHANGED <<brokerVars, peerVars, handlerVars, tabs, born, ask>>

\* SessionRegistry.on_event(): a registered session dies.
RegistryHears ==
  /\ stage = "registry" /\ stage' = "leases"
  /\ session' = IF event.kind = "gone" /\ session[event.tgt] = "live"
                THEN [session EXCEPT ![event.tgt] = "dead"] ELSE session
  /\ UNCHANGED <<adoptions, leases, leaseForTarget, pageInfos, peerVars, handlerVars,
                 event, tabs, born, wire, ask>>

\* _watch_leases()
LeasesHear ==
  /\ stage = "leases" /\ stage' = "infos"
  /\ IF event.kind = "gone" /\ leaseForTarget[event.tgt] # None
     THEN DropLease(leaseForTarget[event.tgt])
     ELSE UNCHANGED <<leases, leaseForTarget>>
  /\ UNCHANGED <<adoptions, pageInfos, session, peerVars, handlerVars, event, tabs, born, wire, ask>>

\* _watch_target_infos()
InfosHear ==
  /\ stage = "infos" /\ stage' = "idle"
  /\ event' = NoEvent
  /\ pageInfos' = IF event.kind = "created" THEN pageInfos \cup {event.tgt}
                  ELSE pageInfos \ {event.tgt}
  /\ UNCHANGED <<adoptions, leases, leaseForTarget, session, peerVars, handlerVars,
                 tabs, born, wire, ask>>

-----------------------------------------------------------------------------
(* The browser (external).                                                 *)

Reply(h, isOk, ts) == [kind |-> "reply", to |-> h, no |-> req[h], ok |-> isOk, targets |-> ts]

AnswerList(h) ==
  /\ ask[h] = "list"
  /\ wire' = Append(wire, Reply(h, TRUE, tabs))
  /\ ask'  = [ask EXCEPT ![h] = "none"]
  /\ UNCHANGED <<brokerVars, peerVars, handlerVars, event, stage, tabs, born>>

AnswerCreate(h) ==
  /\ ask[h] = "create"
  /\ \E t \in Targets \ born :
       /\ tabs' = tabs \cup {t}
       /\ born' = born \cup {t}
       /\ wire' = wire \o <<[kind |-> "created", tgt |-> t], Reply(h, TRUE, {t})>>
  /\ ask' = [ask EXCEPT ![h] = "none"]
  /\ UNCHANGED <<brokerVars, peerVars, handlerVars, event, stage>>

AnswerAttach(h) ==
  /\ ask[h] = "attach"
  /\ wire' = Append(wire, Reply(h, tgt[h] \in tabs, {}))
  /\ ask'  = [ask EXCEPT ![h] = "none"]
  /\ UNCHANGED <<brokerVars, peerVars, handlerVars, event, stage, tabs, born>>

\* Target.targetDestroyed
CloseTab(t) ==
  /\ t \in tabs /\ Len(wire) < MaxWire
  /\ tabs' = tabs \ {t}
  /\ wire' = Append(wire, [kind |-> "gone", tgt |-> t])
  /\ UNCHANGED <<brokerVars, peerVars, handlerVars, event, stage, born, ask>>

\* Target.targetCrashed: the daemon treats both alike, and the tab stays open.
CrashTab(t) ==
  /\ t \in tabs /\ Len(wire) < MaxWire
  /\ wire' = Append(wire, [kind |-> "gone", tgt |-> t])
  /\ UNCHANGED <<brokerVars, peerVars, handlerVars, event, stage, tabs, born, ask>>

-----------------------------------------------------------------------------
Handler(h) ==
  \/ BeginAdopt(h) \/ BeginOnTarget(h) \/ BeginOnLease(h)
  \/ ReadLive(h) \/ PickCached(h) \/ NoneCached(h) \/ Remember(h) \/ PickListed(h)
  \/ NoneListed(h) \/ ReserveCreated(h) \/ CreatedIsTaken(h)
  \/ FindSession(h) \/ SendAttach(h) \/ Attached(h) \/ NotAttached(h) \/ RequestFails(h)
  \/ Mint(h) \/ Claim(h) \/ Drop(h) \/ Answer(h)

Next ==
  \/ \E h \in Handlers : Handler(h) \/ AnswerList(h) \/ AnswerCreate(h) \/ AnswerAttach(h)
  \/ \E p \in Peers : ClosePeer(p) \/ CleanPeer(p)
  \/ \E t \in Targets : CloseTab(t) \/ CrashTab(t)
  \/ OnReply \/ ReadEvent \/ RegistryHears \/ LeasesHear \/ InfosHear

Spec == Init /\ [][Next]_vars

-----------------------------------------------------------------------------
(* What the daemon promises about tabs.                                    *)

Reservations == INSTANCE TabReservations WITH
  adopted <- adoptions,
  leased  <- {t \in Targets : leaseForTarget[t] # None}

\* Every step of the handlers, of the reader and of the connection threads is
\* a step of the promise, or none of its business.
KeepsReservations == Reservations!Spec

\* The two lease tables say the same, whoever drops or mints a lease and
\* whatever the reader hears in between.
LeaseTablesAgree ==
  /\ \A l \in Leases : leases[l] # None => leaseForTarget[leases[l]] = l
  /\ \A t \in Targets : leaseForTarget[t] # None => leases[leaseForTarget[t]] = t

\* Once the thread of a connection is done, no request of that connection that
\* is still running leaves a reservation behind: its tab can be adopted again.
GoneHoldsNothing == \A p \in cleaned : adoptions[p] = None

\* An adopt answered from the cache or from the list, to a client that is still
\* there, names a tab that was reserved for it in the same step and that the client
\* did not exclude.
AnswerIsReserved ==
  [][\A h \in Handlers :
       /\ op[h] = "adopt" /\ pc[h] \in {"cached", "pick"} /\ pc'[h] = "answer"
       /\ peer[h] \notin closed
       => adoptions'[peer[h]] = tgt'[h] /\ tgt'[h] \notin exclude[h]]_vars

-----------------------------------------------------------------------------
(* What the source says and the code does not do.                          *)

\* daemon.py:761 "a second client never steals the page the first is working
\* in": the tab an adopt answers with is nobody else's.
NeverStolen ==
  [][\A h \in Handlers :
       /\ op[h] = "adopt" /\ pc[h] # "answer" /\ pc'[h] = "answer" /\ tgt'[h] # None
       /\ peer[h] \notin closed
       => \A p \in Peers \ {peer[h]} : adoptions[p] # tgt'[h]]_vars
=============================================================================
