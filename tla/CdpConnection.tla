--------------------------- MODULE CdpConnection ---------------------------
(***************************************************************************)
(* harness/connect/cdp.py, Connection: one websocket to the browser, many  *)
(* threads with a request in flight, one reader thread that routes answers *)
(* back by id, and threads that close the connection.  A request's id also *)
(* names its slot.  Every `with self._lock` block is one step; what runs   *)
(* outside the lock (the send, the wait, setting a popped slot) is not in  *)
(* that step.                                                              *)
(*                                                                         *)
(* The connection has its transport and its reader from the start.         *)
(***************************************************************************)
EXTENDS Naturals

CONSTANTS
  Workers,   \* threads that call request()
  Closers,   \* threads that call close()
  Frames,    \* the kinds of frame the browser may send
  MaxId      \* bound: requests made over the life of the connection

FrameKinds == {"result", "error", "badError", "event", "junk"}

ASSUME FramesAssumption == Frames \subseteq FrameKinds
ASSUME MaxIdAssumption  == MaxId \in Nat

VARIABLES
  closed,    \* _closed
  tornDown,  \* _torn_down
  nextId,    \* _next_id
  pending,   \* keys of _pending
  slot,      \* what is in each slot
  done,      \* slots whose event is set
  pc, cur,   \* per worker: where it is, and the id of its request
  reader,    \* where the reader thread is
  hand,      \* the frame it holds
  cpc,       \* where each closing thread is
  drain,     \* slots a thread inside _fail_pending has taken out of _pending
  linked,    \* the socket carries data
  asked,     \* requests the browser has to answer
  wire,      \* frames under way to the reader
  spoiled    \* (history) the requests whose answer classify() could not read

connVars    == <<closed, tornDown, nextId, pending, slot, done>>
workerVars  == <<pc, cur>>
readerVars  == <<reader, hand>>
closerVars  == <<cpc, drain>>
browserVars == <<linked, asked, wire>>
vars == <<connVars, workerVars, readerVars, closerVars, browserVars, spoiled>>

Ids      == 1..MaxId
Drainers == Closers \cup {"reader"}
Frame    == [kind : {"result", "error", "badError"}, id : Ids] \cup [kind : {"event", "junk"}]
NoFrame  == [kind |-> "none"]

ASSUME ReaderAssumption == "reader" \notin Closers

TypeOK ==
  /\ closed   \in BOOLEAN
  /\ tornDown \in BOOLEAN
  /\ nextId   \in 0..MaxId
  /\ pending  \subseteq Ids
  /\ slot     \in [Ids -> {"empty", "result", "error", "lost"}]
  /\ done     \subseteq Ids
  /\ pc       \in [Workers -> {"idle", "send", "wait", "drop"}]
  /\ cur      \in [Workers -> 0..MaxId]
  /\ reader   \in {"poll", "recv", "dispatch", "settle", "claim", "failing", "stopped"}
  /\ hand     \in Frame \cup {NoFrame}
  /\ cpc      \in [Closers -> {"idle", "close", "claim", "failing"}]
  /\ drain    \in [Drainers -> SUBSET Ids]
  /\ linked   \in BOOLEAN
  /\ asked    \subseteq Ids
  /\ wire     \subseteq Frame
  /\ spoiled  \subseteq Ids

Init ==
  /\ closed = FALSE /\ tornDown = FALSE
  /\ nextId = 0
  /\ pending = {}
  /\ slot = [i \in Ids |-> "empty"]
  /\ done = {}
  /\ pc  = [w \in Workers |-> "idle"]
  /\ cur = [w \in Workers |-> 0]
  /\ reader = "poll" /\ hand = NoFrame
  /\ cpc   = [c \in Closers |-> "idle"]
  /\ drain = [d \in Drainers |-> {}]
  /\ linked = TRUE
  /\ asked = {} /\ wire = {} /\ spoiled = {}

\* _dead(), under the lock: the flag, or a reader thread that has ended.
Dead == closed \/ reader = "stopped"

-----------------------------------------------------------------------------
(* request()                                                               *)

\* An id and a slot, in the same critical section as the check.
Request(w) ==
  /\ pc[w] = "idle" /\ nextId < MaxId /\ ~Dead
  /\ nextId'  = nextId + 1
  /\ pending' = pending \cup {nextId'}
  /\ cur'     = [cur EXCEPT ![w] = nextId']
  /\ pc'      = [pc EXCEPT ![w] = "send"]
  /\ UNCHANGED <<closed, tornDown, slot, done, readerVars, closerVars, browserVars, spoiled>>

\* The frame goes out; on a socket the browser has left it may go nowhere.
Send(w) ==
  /\ pc[w] = "send"
  /\ asked' = IF linked THEN asked \cup {cur[w]} ELSE asked
  /\ pc'    = [pc EXCEPT ![w] = "wait"]
  /\ UNCHANGED <<connVars, cur, readerVars, closerVars, linked, wire, spoiled>>

\* send() raises EOFError: the slot goes, the caller gets BrowserDisconnected.
SendFails(w) ==
  /\ pc[w] = "send" /\ ~linked
  /\ pc' = [pc EXCEPT ![w] = "drop"]
  /\ UNCHANGED <<connVars, cur, readerVars, closerVars, browserVars, spoiled>>

\* slot.done is set: the caller has its result or its error.
Woken(w) ==
  /\ pc[w] = "wait" /\ cur[w] \in done
  /\ pc' = [pc EXCEPT ![w] = "idle"]
  /\ UNCHANGED <<connVars, cur, readerVars, closerVars, browserVars, spoiled>>

\* slot.done.wait(timeout) gives up ...
TimesOut(w) ==
  /\ pc[w] = "wait" /\ cur[w] \notin done
  /\ pc' = [pc EXCEPT ![w] = "drop"]
  /\ UNCHANGED <<connVars, cur, readerVars, closerVars, browserVars, spoiled>>

\* ... and _drop() takes the slot out; an answer on its way finds none.
Drop(w) ==
  /\ pc[w] = "drop"
  /\ pending' = pending \ {cur[w]}
  /\ pc'      = [pc EXCEPT ![w] = "idle"]
  /\ UNCHANGED <<closed, tornDown, nextId, slot, done, cur, readerVars, closerVars, browserVars, spoiled>>

-----------------------------------------------------------------------------
(* _pump(), _dispatch() and _reader_stopped()                              *)

ReaderAt(where) == reader' = where

Poll ==
  /\ reader = "poll"
  /\ ReaderAt(IF closed THEN "stopped" ELSE "recv")
  /\ UNCHANGED <<connVars, workerVars, hand, closerVars, browserVars, spoiled>>

Receive ==
  /\ reader = "recv"
  /\ \E f \in wire : hand' = f /\ wire' = wire \ {f}
  /\ ReaderAt("dispatch")
  /\ UNCHANGED <<connVars, workerVars, closerVars, linked, asked, spoiled>>

\* recv() times out after a tick.
Tick ==
  /\ reader = "recv" /\ wire = {} /\ linked
  /\ ReaderAt("poll")
  /\ UNCHANGED <<connVars, workerVars, hand, closerVars, browserVars, spoiled>>

AfterLoss == "claim"

\* recv() raises: end of file, or anything else a dying socket raises.
ReceiveFails ==
  /\ reader = "recv" /\ ~linked
  /\ ReaderAt(AfterLoss)
  /\ UNCHANGED <<connVars, workerVars, hand, closerVars, browserVars, spoiled>>

Answers(f) == f.kind \in {"result", "error", "badError"}

Popped(i) == pending \ {i}

\* The slot of the answer is popped under the lock.
Pop ==
  /\ reader = "dispatch" /\ Answers(hand) /\ hand.id \in pending
  /\ pending' = Popped(hand.id)
  /\ ReaderAt("settle")
  /\ UNCHANGED <<closed, tornDown, nextId, slot, done, workerVars, hand, closerVars, browserVars, spoiled>>

\* An answer to a request that was given up, or an event: nobody waits for it.
Ignore ==
  /\ reader = "dispatch"
  /\ hand.kind = "event" \/ (Answers(hand) /\ hand.id \notin pending)
  /\ hand' = NoFrame
  /\ ReaderAt("poll")
  /\ UNCHANGED <<connVars, workerVars, closerVars, browserVars, spoiled>>

\* A frame that is no message: _dispatch raises before it has touched a slot.
Junk ==
  /\ reader = "dispatch" /\ hand.kind = "junk"
  /\ hand' = NoFrame
  /\ ReaderAt("claim")
  /\ UNCHANGED <<connVars, workerVars, closerVars, browserVars, spoiled>>

\* The popped slot is filled, then its event is set.
Settle ==
  /\ reader = "settle" /\ hand.kind \in {"result", "error"}
  /\ slot' = [slot EXCEPT ![hand.id] = hand.kind]
  /\ done' = done \cup {hand.id}
  /\ hand' = NoFrame
  /\ ReaderAt("poll")
  /\ UNCHANGED <<closed, tornDown, nextId, pending, workerVars, closerVars, browserVars, spoiled>>

\* `error` is not an object: classify() raises with the slot already popped.
SettleFails ==
  /\ reader = "settle" /\ hand.kind = "badError"
  /\ hand' = NoFrame
  /\ ReaderAt("claim")
  /\ spoiled' = spoiled \cup {hand.id}
  /\ UNCHANGED <<connVars, workerVars, closerVars, browserVars>>

DrainsNothing == {}   \* mutant: _pending is cleared before it is copied

Drained == pending

\* _fail_pending(closing=True): the flag and the drain are one step.
ReaderClaims ==
  /\ reader = "claim"
  /\ closed' = TRUE
  /\ drain'   = [drain EXCEPT !["reader"] = Drained]
  /\ pending' = {}
  /\ ReaderAt("failing")
  /\ UNCHANGED <<tornDown, nextId, slot, done, workerVars, hand, cpc, browserVars, spoiled>>

LossOf(i) == "lost"

Wake(d, i) ==
  /\ i \in drain[d]
  /\ drain' = [drain EXCEPT ![d] = @ \ {i}]
  /\ slot'  = [slot EXCEPT ![i] = LossOf(i)]
  /\ done'  = done \cup {i}

ReaderWakes ==
  /\ reader = "failing"
  /\ \E i \in Ids : Wake("reader", i)
  /\ UNCHANGED <<closed, tornDown, nextId, pending, workerVars, readerVars, cpc, browserVars, spoiled>>

ReaderEnds ==
  /\ reader = "failing" /\ drain["reader"] = {}
  /\ ReaderAt("stopped")
  /\ UNCHANGED <<connVars, workerVars, hand, closerVars, browserVars, spoiled>>

-----------------------------------------------------------------------------
(* close()                                                                 *)

CloserAt(c, where) == cpc' = [cpc EXCEPT ![c] = where]

\* Only the first close() tears down.
Close(c) ==
  /\ cpc[c] = "idle" /\ ~(closed /\ tornDown)
  /\ closed'   = TRUE
  /\ tornDown' = TRUE
  /\ CloserAt(c, IF tornDown THEN "idle" ELSE "close")
  /\ UNCHANGED <<nextId, pending, slot, done, workerVars, readerVars, drain, browserVars, spoiled>>

CloseTransport(c) ==
  /\ cpc[c] = "close"
  /\ linked' = FALSE
  /\ asked'  = {}
  /\ CloserAt(c, "claim")
  /\ UNCHANGED <<connVars, workerVars, readerVars, drain, wire, spoiled>>

CloserClaims(c) ==
  /\ cpc[c] = "claim"
  /\ drain'   = [drain EXCEPT ![c] = Drained]
  /\ pending' = {}
  /\ CloserAt(c, "failing")
  /\ UNCHANGED <<closed, tornDown, nextId, slot, done, workerVars, readerVars, browserVars, spoiled>>

CloserWakes(c) ==
  /\ cpc[c] = "failing"
  /\ \E i \in Ids : Wake(c, i)
  /\ UNCHANGED <<closed, tornDown, nextId, pending, workerVars, readerVars, cpc, browserVars, spoiled>>

CloserEnds(c) ==
  /\ cpc[c] = "failing" /\ drain[c] = {}
  /\ CloserAt(c, "idle")
  /\ UNCHANGED <<connVars, workerVars, readerVars, drain, browserVars, spoiled>>

-----------------------------------------------------------------------------
(* The browser (external): answers in any order, or never.                 *)

Answer(i) ==
  /\ linked /\ i \in asked
  /\ \E k \in Frames \cap {"result", "error", "badError"} : wire' = wire \cup {[kind |-> k, id |-> i]}
  /\ asked' = asked \ {i}
  /\ UNCHANGED <<connVars, workerVars, readerVars, closerVars, linked, spoiled>>

Unsolicited ==
  /\ linked
  /\ \E k \in Frames \cap {"event", "junk"} : wire' = wire \cup {[kind |-> k]}
  /\ UNCHANGED <<connVars, workerVars, readerVars, closerVars, linked, asked, spoiled>>

LoseConnection ==
  /\ linked
  /\ linked' = FALSE
  /\ asked'  = {}
  /\ UNCHANGED <<connVars, workerVars, readerVars, closerVars, wire, spoiled>>

-----------------------------------------------------------------------------
Worker(w) == Send(w) \/ SendFails(w) \/ Woken(w) \/ Drop(w)

Reader ==
  \/ Poll \/ Receive \/ Tick \/ ReceiveFails \/ Pop \/ Ignore \/ Junk \/ Settle \/ SettleFails
  \/ ReaderClaims \/ ReaderWakes \/ ReaderEnds

Closer(c) == CloseTransport(c) \/ CloserClaims(c) \/ CloserWakes(c) \/ CloserEnds(c)

Next ==
  \/ \E w \in Workers : Request(w) \/ Worker(w) \/ TimesOut(w)
  \/ Reader
  \/ \E c \in Closers : Close(c) \/ Closer(c)
  \/ \E i \in Ids : Answer(i)
  \/ Unsolicited \/ LoseConnection

Spec == Init /\ [][Next]_vars

\* The threads run.  No timeout is assumed to expire: what ends under FairSpec
\* ends because somebody is woken.
FairSpec ==
  /\ Spec
  /\ \A w \in Workers : WF_vars(Worker(w))
  /\ WF_vars(Reader)
  /\ \A c \in Closers : WF_vars(Closer(c))

-----------------------------------------------------------------------------
\* A caller that waits is in somebody's hands: its slot is still in _pending,
\* or the reader has popped it for its answer, or a drain has taken it to fail
\* it.  No interleaving of requests, answers, timeouts, a dying reader and
\* close() forgets a waiter, except the one whose own answer classify() could
\* not read.
InHand(i) ==
  \/ i \in pending
  \/ reader = "settle" /\ hand.id = i
  \/ \E d \in Drainers : i \in drain[d]

NobodyForgotten ==
  \A w \in Workers : pc[w] = "wait" /\ cur[w] \notin done => InHand(cur[w]) \/ cur[w] \in spoiled

\* Once the connection is closed and nobody is about to drain it, no slot is
\* left in _pending, and none slips in afterwards.
ClosedIsDrained ==
  closed /\ (\A c \in Closers : cpc[c] \notin {"close", "claim"}) => pending = {}

\* A slot belongs to one thread at a time: the reader and a closing thread are
\* never both about to settle it.
OneOwner ==
  \A i \in Ids : \A d, e \in Drainers :
    /\ i \in drain[d] => i \notin pending /\ i \notin done
    /\ i \in drain[d] /\ i \in drain[e] => d = e
    /\ reader = "settle" /\ hand.id = i => i \notin drain[d]

\* What a caller was woken with is never overwritten afterwards.
SettledOnce == [][\A i \in done : slot'[i] = slot[i]]_vars

\* Once the connection is closed, whoever waits is woken by the drain and not
\* by its own timeout, again except the one with the answer nobody could read.
WakesTheOthers ==
  \A w \in Workers :
    closed /\ pc[w] = "wait" ~> pc[w] # "wait" \/ cur[w] \in spoiled

\* A connection whose browser has gone does not stay open: the reader notices,
\* closes it, and ends.
LossIsNoticed == ~linked ~> closed /\ reader = "stopped"
=============================================================================
