---------------------------- MODULE RemoteClient ----------------------------
(***************************************************************************)
(* The client's end of the daemon's socket: harness/connect/client.py,     *)
(* RemoteConnection (_call, _pump, _dispatch, _die, _fail_all, close) and  *)
(* RemoteRegistry, the cache of the one target's session.                  *)
(*                                                                         *)
(* Replies and events share one ordered stream, `wire`, which the reader   *)
(* thread (_pump) alone reads.  Every section under a lock is one step.    *)
(* The daemon (external here) chooses a live session for a request, and    *)
(* puts its reply on the stream in a later step: its own reader may        *)
(* announce the death of that session in between.                          *)
(***************************************************************************)
EXTENDS Naturals, Sequences, FiniteSets

CONSTANTS
  Callers,    \* threads of the client
  MaxCalls,   \* calls made in all (a bound)
  MaxSid,     \* sessions the browser ever opens on the target (a bound)
  MaxWire,    \* frames under way (a bound)
  None

VARIABLES
  shut,       \* _closed
  failure,    \* _failure: None, or why the reader died
  pending,    \* _pending: the rids
  lastRid,    \* _next_id
  slot,       \* rid -> what its slot holds: nothing, an error or a reply
  sock,       \* "open", "lost" (the daemon closed its end) or "closed" (close() on ours)
  pump,       \* the reader: "check", "recv", "lines", "drain", "close", "ended"
  lines,      \* what it has received and not dispatched yet
  cause,      \* what _die() was called with
  cpc,        \* caller -> where it is
  rid,        \* caller -> the request it waits for
  outcome,    \* caller -> what its last call was told of the connection, if it failed for that
  cache,      \* RemoteRegistry._cache: the session of the target, or None
  \* the daemon and the browser
  wire, asked, chosen, lastSid, alive,
  quiet       \* history: sessions whose death was dispatched while no call was under way

clientVars == <<shut, failure, pending, lastRid, slot>>
readerVars == <<pump, lines, cause>>
callerVars == <<cpc, rid, outcome>>
daemonVars == <<wire, asked, chosen, lastSid, alive>>
vars == <<clientVars, sock, readerVars, callerVars, cache, daemonVars, quiet>>

Rids == 1..MaxCalls
Sids == 1..MaxSid
Empty == [kind |-> "empty", rid |-> 0, sid |-> None]
Reply(r, s) == [kind |-> "reply", rid |-> r, sid |-> s]      \* s = None: not ok
Lines ==
  [kind : {"reply"}, rid : Rids, sid : Sids \cup {None}]
  \cup [kind : {"detached"}, sid : Sids] \cup [kind : {"destroyed", "garbage"}]

TypeOK ==
  /\ shut \in BOOLEAN
  /\ failure \in {None, "lost", "garbled"} /\ cause \in {None, "lost", "garbled"}
  /\ pending \subseteq 1..lastRid
  /\ lastRid \in 0..MaxCalls
  /\ slot \in [Rids -> [kind : {"empty", "error", "reply"}, rid : 0..MaxCalls, sid : Sids \cup {None}]]
  /\ sock \in {"open", "lost", "closed"}
  /\ pump \in {"check", "recv", "lines", "drain", "close", "ended"}
  /\ lines \in Seq(Lines) /\ wire \in Seq(Lines)
  /\ cpc \in [Callers -> {"idle", "send", "wait", "expire", "store"}]
  /\ rid \in [Callers -> 0..MaxCalls]
  /\ outcome \in [Callers -> {None, "disconnected", "lost", "garbled"}]
  /\ cache \in Sids \cup {None}
  /\ asked \subseteq Rids
  /\ chosen \in [Rids -> Sids \cup {None}]
  /\ lastSid \in 0..MaxSid
  /\ alive \in Sids \cup {None}
  /\ quiet \subseteq Sids

Init ==
  /\ shut = FALSE /\ failure = None /\ pending = {} /\ lastRid = 0
  /\ slot = [r \in Rids |-> Empty]
  /\ sock = "open" /\ pump = "check" /\ lines = <<>> /\ cause = None
  /\ cpc = [c \in Callers |-> "idle"]
  /\ rid = [c \in Callers |-> 0]
  /\ outcome = [c \in Callers |-> None]
  /\ cache = None
  /\ wire = <<>> /\ asked = {} /\ chosen = [r \in Rids |-> None]
  /\ lastSid = 0 /\ alive = None
  /\ quiet = {}

-----------------------------------------------------------------------------
(* RemoteConnection._call(), as RemoteRegistry uses it.                    *)

\* The caller's slot is gone with the call.
Ends(c, how) ==
  /\ cpc' = [cpc EXCEPT ![c] = "idle"]
  /\ outcome' = [outcome EXCEPT ![c] = how]
  /\ rid' = [rid EXCEPT ![c] = 0]
  /\ slot' = [r \in Rids |-> IF r = rid[c] THEN Empty ELSE slot[r]]

\* ready_session() asks only when the cache misses; prepare_runtime() and
\* ensure_domains() always ask.  The two cannot be told apart after that.
Call(c) ==
  /\ cpc[c] = "idle" /\ ~shut /\ lastRid < MaxCalls
  /\ lastRid' = lastRid + 1
  /\ rid' = [rid EXCEPT ![c] = lastRid']
  /\ pending' = pending \cup {lastRid'}
  /\ cpc' = [cpc EXCEPT ![c] = "send"]
  /\ outcome' = [outcome EXCEPT ![c] = None]
  /\ UNCHANGED <<shut, failure, slot, sock, readerVars, cache, daemonVars, quiet>>

\* A connection that the reader has found dead says why.
CallRefused(c) ==
  /\ cpc[c] = "idle" /\ shut /\ outcome[c] = None
  /\ Ends(c, IF failure = None THEN "disconnected" ELSE failure)
  /\ UNCHANGED <<shut, failure, pending, lastRid, sock, readerVars, cache, daemonVars, quiet>>

\* A write may still succeed after the daemon has gone.
Send(c) ==
  /\ cpc[c] = "send" /\ sock \in {"open", "lost"}
  /\ asked' = IF sock = "open" THEN asked \cup {rid[c]} ELSE asked
  /\ cpc' = [cpc EXCEPT ![c] = "wait"]
  /\ UNCHANGED <<clientVars, sock, readerVars, rid, outcome, cache, wire, chosen, lastSid, alive, quiet>>

SendFails(c) ==
  /\ cpc[c] = "send" /\ sock # "open"
  /\ pending' = pending \ {rid[c]}
  /\ Ends(c, IF failure = None THEN "disconnected" ELSE failure)
  /\ UNCHANGED <<shut, failure, lastRid, sock, readerVars, cache, daemonVars, quiet>>

\* The wait is over, and only then is the slot withdrawn.
WaitEnds(c) ==
  /\ cpc[c] = "wait" /\ slot[rid[c]].kind = "empty"
  /\ cpc' = [cpc EXCEPT ![c] = "expire"]
  /\ UNCHANGED <<clientVars, sock, readerVars, rid, outcome, cache, daemonVars, quiet>>

TimesOut(c) ==
  /\ cpc[c] = "expire"
  /\ pending' = pending \ {rid[c]}
  /\ Ends(c, None)
  /\ UNCHANGED <<shut, failure, lastRid, sock, readerVars, cache, daemonVars, quiet>>

Raised(c) ==
  /\ cpc[c] = "wait" /\ slot[rid[c]].kind = "error"
  /\ Ends(c, cause)
  /\ UNCHANGED <<shut, failure, pending, lastRid, sock, readerVars, cache, daemonVars, quiet>>

Answered(c) ==
  /\ cpc[c] = "wait" /\ slot[rid[c]].kind = "reply"
  /\ IF slot[rid[c]].sid = None
     THEN Ends(c, None)
     ELSE cpc' = [cpc EXCEPT ![c] = "store"] /\ UNCHANGED <<outcome, rid, slot>>
  /\ UNCHANGED <<shut, failure, pending, lastRid, sock, readerVars, cache, daemonVars, quiet>>

\* The session is cached once the caller has the lock of the cache.
Store(c) ==
  /\ cpc[c] = "store"
  /\ cache' = slot[rid[c]].sid
  /\ Ends(c, None)
  /\ UNCHANGED <<shut, failure, pending, lastRid, sock, readerVars, daemonVars, quiet>>

\* Session.close_tab() and .forget()
Forget ==
  /\ cache # None
  /\ cache' = None
  /\ UNCHANGED <<clientVars, sock, readerVars, callerVars, daemonVars, quiet>>

-----------------------------------------------------------------------------
(* close(), by the program.  The reader is not told.                       *)

Close ==
  /\ ~shut
  /\ shut' = TRUE
  /\ UNCHANGED <<failure, pending, lastRid, slot, sock, readerVars, callerVars, cache, daemonVars, quiet>>

CloseSocket ==
  /\ shut /\ failure = None /\ sock # "closed"
  /\ sock' = "closed"
  /\ UNCHANGED <<clientVars, readerVars, callerVars, cache, daemonVars, quiet>>

-----------------------------------------------------------------------------
(* _pump()                                                                 *)

Check ==
  /\ pump = "check"
  /\ pump' = IF shut THEN "ended" ELSE "recv"
  /\ UNCHANGED <<clientVars, sock, lines, cause, callerVars, cache, daemonVars, quiet>>

\* One recv() may bring several lines.  A blocked one may survive close().
Recv ==
  /\ pump = "recv"
  /\ \E n \in 1..Len(wire) :
       /\ lines' = SubSeq(wire, 1, n)
       /\ wire'  = SubSeq(wire, n + 1, Len(wire))
  /\ pump' = "lines"
  /\ UNCHANGED <<clientVars, cause, sock, callerVars, cache, asked, chosen, lastSid, alive, quiet>>

\* _die(): claimed only if close() was not faster.
Die(why) ==
  /\ shut' = TRUE
  /\ failure' = IF shut THEN failure ELSE why
  /\ cause' = why
  /\ pump' = "drain"

RecvFails ==
  /\ pump = "recv"
  /\ (sock = "lost" /\ wire = <<>>) \/ sock = "closed"
  /\ Die("lost")
  /\ UNCHANGED <<pending, lastRid, slot, sock, lines, callerVars, cache, daemonVars, quiet>>

Next1 == pump' = IF Tail(lines) = <<>> THEN "check" ELSE "lines"

InCall == {c \in Callers : cpc[c] # "idle"}

\* RemoteRegistry._on_event(), on the reader thread.
OnEvent ==
  /\ pump = "lines" /\ Head(lines).kind \in {"detached", "destroyed"}
  /\ cache' = IF Head(lines).kind = "destroyed" \/ cache = Head(lines).sid THEN None ELSE cache
  /\ quiet' = IF Head(lines).kind = "detached" /\ InCall = {} THEN quiet \cup {Head(lines).sid} ELSE quiet
  /\ lines' = Tail(lines) /\ Next1 /\ UNCHANGED cause
  /\ UNCHANGED <<clientVars, sock, callerVars, daemonVars>>

OnReplyInTurn ==   \* mutant: a reply is for the call that waits longest
  /\ pump = "lines" /\ Head(lines).kind = "reply"
  /\ IF pending # {}
     THEN LET r == CHOOSE r \in pending : \A q \in pending : r <= q
          IN pending' = pending \ {r} /\ slot' = [slot EXCEPT ![r] = Head(lines)]
     ELSE UNCHANGED <<pending, slot>>
  /\ lines' = Tail(lines) /\ Next1 /\ UNCHANGED cause
  /\ UNCHANGED <<shut, failure, lastRid, sock, callerVars, cache, daemonVars, quiet>>

\* _dispatch() of a reply; a call that has timed out has no slot any more.
OnReply ==
  /\ pump = "lines" /\ Head(lines).kind = "reply"
  /\ LET r == Head(lines).rid
     IN IF r \in pending
        THEN pending' = pending \ {r} /\ slot' = [slot EXCEPT ![r] = Head(lines)]
        ELSE UNCHANGED <<pending, slot>>
  /\ lines' = Tail(lines) /\ Next1 /\ UNCHANGED cause
  /\ UNCHANGED <<shut, failure, lastRid, sock, callerVars, cache, daemonVars, quiet>>

\* What is no JSON ends the reader; the rest of the chunk is not looked at.
OnGarbage ==
  /\ pump = "lines" /\ Head(lines).kind = "garbage"
  /\ Die("garbled") /\ lines' = <<>>
  /\ UNCHANGED <<pending, lastRid, slot, sock, callerVars, cache, daemonVars, quiet>>

FailNone ==   \* mutant: the callers are left to their timeouts
  /\ pump = "drain" /\ pump' = "close"
  /\ UNCHANGED <<clientVars, sock, lines, cause, callerVars, cache, daemonVars, quiet>>

\* _fail_all()
FailAll ==
  /\ pump = "drain"
  /\ slot' = [r \in Rids |-> IF r \in pending THEN [Empty EXCEPT !.kind = "error"] ELSE slot[r]]
  /\ pending' = {}
  /\ pump' = "close"
  /\ UNCHANGED <<shut, failure, lastRid, sock, lines, cause, callerVars, cache, daemonVars, quiet>>

Hangup ==
  /\ pump = "close"
  /\ sock' = IF failure # None THEN "closed" ELSE sock
  /\ pump' = "ended"
  /\ UNCHANGED <<clientVars, lines, cause, callerVars, cache, daemonVars, quiet>>

-----------------------------------------------------------------------------
(* The daemon and the browser.                                             *)

\* The daemon's registry attaches, or finds the session of the target ...
Choose ==
  /\ \E r \in asked :
       /\ chosen[r] = None
       /\ \/ alive # None /\ chosen' = [chosen EXCEPT ![r] = alive] /\ UNCHANGED <<lastSid, alive>>
          \/ /\ alive = None /\ lastSid < MaxSid
             /\ lastSid' = lastSid + 1 /\ alive' = lastSid'
             /\ chosen' = [chosen EXCEPT ![r] = lastSid']
  /\ UNCHANGED <<clientVars, sock, readerVars, callerVars, cache, wire, asked, quiet>>

\* What is sent to a reader that has ended is lost.
Emit(frames) ==
  /\ Len(wire) < MaxWire
  /\ IF pump = "ended" THEN UNCHANGED wire ELSE \E f \in frames : wire' = Append(wire, f)

\* ... and answers, with that or with a failure.
Serve ==
  /\ sock = "open"
  /\ \E r \in asked :
       /\ Emit({Reply(r, chosen[r]), Reply(r, None)})
       /\ asked' = asked \ {r}
       /\ chosen' = [chosen EXCEPT ![r] = None]
  /\ UNCHANGED <<clientVars, sock, readerVars, callerVars, cache, lastSid, alive, quiet>>

\* A detach names the session, a crash the target.
SessionDies ==
  /\ alive # None
  /\ alive' = None
  /\ Emit({[kind |-> "detached", sid |-> alive], [kind |-> "destroyed"]})
  /\ UNCHANGED <<clientVars, sock, readerVars, callerVars, cache, asked, chosen, lastSid, quiet>>

Garble ==
  /\ sock = "open"
  /\ \A i \in DOMAIN wire : wire[i].kind # "garbage"
  /\ Emit({[kind |-> "garbage"]})
  /\ UNCHANGED <<clientVars, sock, readerVars, callerVars, cache, asked, chosen, lastSid, alive, quiet>>

DaemonLeaves ==
  /\ sock = "open" /\ sock' = "lost"
  /\ UNCHANGED <<clientVars, readerVars, callerVars, cache, daemonVars, quiet>>

-----------------------------------------------------------------------------
Caller(c) ==
  \/ Call(c) \/ CallRefused(c) \/ Send(c) \/ SendFails(c) \/ WaitEnds(c) \/ TimesOut(c)
  \/ Raised(c) \/ Answered(c) \/ Store(c)
Pump == Check \/ Recv \/ RecvFails \/ OnEvent \/ OnReply \/ OnGarbage \/ FailAll \/ Hangup
Daemon == Choose \/ Serve \/ SessionDies \/ Garble \/ DaemonLeaves

Next == (\E c \in Callers : Caller(c)) \/ Forget \/ Close \/ CloseSocket \/ Pump \/ Daemon

Spec == Init /\ [][Next]_vars

Moves(c) == Send(c) \/ SendFails(c) \/ Raised(c) \/ Answered(c) \/ Store(c)

\* The reader runs.  No timeout is assumed to expire, nor a blocked recv() to be
\* woken by close().
FairSpec ==
  /\ Spec
  /\ WF_vars(Pump /\ sock # "closed") /\ WF_vars(FailAll)
  /\ \A c \in Callers : WF_vars(Moves(c))

-----------------------------------------------------------------------------
(* Properties.                                                             *)

\* However late, repeated or overtaken: what a caller is given is the answer to its
\* own request.
AnswersItsOwn ==
  \A r \in Rids : slot[r].kind = "reply" => slot[r].rid = r

\* A call that fails once the reader has diagnosed why the connection died reports
\* that, never a plain disconnect (client.py:352, the cause reaches the caller).
CauseIsKept ==
  [][\A c \in Callers :
       outcome'[c] \notin {outcome[c], None} /\ failure # None => outcome'[c] = failure]_vars

\* When the daemon goes away, or talks nonsense, nobody who waits is left to the
\* timeout, unless the program itself is closing the connection.
DeathWakesAll ==
  (failure # None) ~> (\A c \in Callers : cpc[c] # "wait")

\* A session whose death the client was told of while it was not asking for one is
\* never in the cache again: the next call asks the daemon.
DeadStaysOut == cache \notin quiet

-----------------------------------------------------------------------------
(* What the source says and the code does not do.                          *)

\* client.py:403 "every exit has to go through `_die`", so that nobody waits for a
\* reader that has ended.
EveryExitDies == pump = "ended" => \A c \in Callers : cpc[c] = "wait" => slot[rid[c]].kind # "empty"

\* client.py:546 "A target that died invalidates its cached session, so the next call
\* re-attaches": once the death has been dispatched and no call is under way, the
\* session is not in the cache.
DeadIsDropped ==
  ~shut /\ wire = <<>> /\ lines = <<>> /\ InCall = {} => cache \in {None, alive}
=============================================================================
