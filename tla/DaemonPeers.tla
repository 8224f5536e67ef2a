----------------------------- MODULE DaemonPeers -----------------------------
(***************************************************************************)
(* A client of the daemon as the daemon sees it (harness/connect/daemon.py):*)
(* _Peer, its bounded queue and its one writer; _serve_client(), which     *)
(* admits its requests to the pool; _broadcast(), which hands it events.   *)
(***************************************************************************)
EXTENDS Naturals, Sequences, FiniteSets

CONSTANTS
  Requests,  \* requests the client may send
  Slots,     \* admissions: _DAEMON_WORKERS + _DAEMON_QUEUE
  MaxFrames, \* of the peer's queue
  MaxBytes,  \* of its frames, the one being written included; each frame counts one
  MaxEvents  \* events the browser has (a bound)

VARIABLES
  outbound,   \* the queue
  closed,     \* the peer is closed
  writing,    \* the writer: "get", "send" or "ended"
  frame,      \* the frame it has taken
  buffered,   \* bytes of frames put and not yet written
  overflowed, \* who found no room and has yet to close the peer
  shut,       \* its socket is shut down
  listed,     \* it is among _peers
  admission,  \* admissions left
  request,    \* what has become of each request
  news,       \* events there have been
  received,   \* the frames the client has got
  reading     \* the thread that reads its requests still does

peerVars == <<outbound, closed, writing, frame, buffered, overflowed, shut, listed, admission,
              request, news, received, reading>>
queueVars == <<outbound, buffered, overflowed>>
writerVars == <<writing, frame, received>>

Stop == <<"stop">>
Nothing == <<"nothing">>
Event(n) == <<"event", n>>
Reply(q) == <<"reply", q>>

TypeOK ==
  /\ closed \in BOOLEAN /\ shut \in BOOLEAN /\ listed \in BOOLEAN /\ reading \in BOOLEAN
  /\ writing \in {"get", "send", "ended"} /\ Len(outbound) <= MaxFrames
  /\ buffered \in 0..MaxBytes /\ admission \in 0..Slots
  /\ overflowed \subseteq Requests \cup {"reader", "refusal"}
  /\ request \in [Requests -> {"unsent", "admitted", "answering", "replying", "over", "refused"}]

Init ==
  /\ outbound = <<>> /\ closed = FALSE /\ writing = "get" /\ frame = Nothing /\ buffered = 0
  /\ overflowed = {} /\ shut = FALSE /\ listed = FALSE /\ admission = Slots
  /\ request = [q \in Requests |-> "unsent"] /\ news = 0 /\ received = <<>> /\ reading = TRUE

\* _Peer.send() by who: a closed peer takes nothing, one with no room is closed by its sender.
Fits == buffered < MaxBytes /\ Len(outbound) < MaxFrames
Drops(f, who) ==                 \* mutant: a slow client misses a frame and stays
  IF closed \/ ~Fits THEN UNCHANGED queueVars
  ELSE outbound' = Append(outbound, f) /\ buffered' = buffered + 1 /\ UNCHANGED overflowed
Send(f, who) ==
  IF closed THEN UNCHANGED queueVars
  ELSE IF Fits
  THEN outbound' = Append(outbound, f) /\ buffered' = buffered + 1 /\ UNCHANGED overflowed
  ELSE overflowed' = overflowed \cup {who} /\ UNCHANGED <<outbound, buffered>>

\* _Peer.close(): the writer's stop goes in the queue if there is room; shutdown() is a step of its own.
Close ==
  /\ closed' = TRUE
  /\ outbound' = IF closed \/ Len(outbound) = MaxFrames THEN outbound ELSE Append(outbound, Stop)

Overflows(who) ==
  /\ who \in overflowed /\ Close /\ overflowed' = overflowed \ {who}
  /\ listed' = (listed /\ who # "reader")
  /\ UNCHANGED <<writerVars, buffered, shut, admission, request, news, reading>>
ShutdownNever == FALSE /\ UNCHANGED peerVars   \* mutant: the socket is closed, not shut down
Shutdown ==
  /\ closed /\ ~shut /\ shut' = TRUE
  /\ UNCHANGED <<queueVars, writerVars, closed, listed, admission, request, news, reading>>

\* The writer: a frame it takes from a closed peer is dropped.
Take ==
  /\ writing = "get"
  /\ \/ closed /\ writing' = "ended" /\ UNCHANGED <<outbound, frame, buffered>>
     \/ /\ outbound # <<>> /\ outbound' = Tail(outbound)
        /\ IF Head(outbound) = Stop
           THEN writing' = "ended" /\ UNCHANGED <<frame, buffered>>
           ELSE IF closed
           THEN writing' = "ended" /\ buffered' = buffered - 1 /\ UNCHANGED frame
           ELSE writing' = "send" /\ frame' = Head(outbound) /\ UNCHANGED buffered
  /\ UNCHANGED <<overflowed, received, closed, shut, listed, admission, request, news, reading>>

\* sendall() returns when the client reads.
Written ==
  /\ writing = "send" /\ ~shut
  /\ writing' = "get" /\ received' = Append(received, frame) /\ frame' = Nothing
  /\ buffered' = buffered - 1
  /\ UNCHANGED <<outbound, overflowed, closed, shut, listed, admission, request, news, reading>>

\* It raises when the socket is shut down here, or the client is gone; then the writer closes the peer.
Broken ==
  /\ writing = "send" /\ (shut \/ ~reading)
  /\ writing' = "ended" /\ frame' = Nothing /\ buffered' = buffered - 1 /\ Close
  /\ UNCHANGED <<overflowed, received, shut, listed, admission, request, news, reading>>

\* _broadcast(), on the one thread that reads the browser; a peer that takes no frame is dropped.
Broadcast ==
  /\ news < MaxEvents /\ "reader" \notin overflowed
  /\ news' = news + 1
  /\ IF listed THEN Send(Event(news'), "reader") /\ listed' = ~closed
               ELSE UNCHANGED <<queueVars, listed>>
  /\ UNCHANGED <<writerVars, closed, shut, admission, request, reading>>

\* A request is read: it is admitted to the pool, or refused at once.
Read(q) ==
  /\ reading /\ "refusal" \notin overflowed /\ request[q] = "unsent"
  /\ IF admission = 0
     THEN request' = [request EXCEPT ![q] = "refused"] /\ Send(Reply(q), "refusal") /\ UNCHANGED admission
     ELSE request' = [request EXCEPT ![q] = "admitted"] /\ admission' = admission - 1 /\ UNCHANGED queueVars
  /\ UNCHANGED <<writerVars, closed, shut, listed, news, reading>>

\* A worker takes it; one of them subscribes.  Nothing is answered to a closed peer.
AnswerLeaking(q) ==                  \* mutant: the early return keeps the admission
  /\ request[q] = "admitted"
  /\ request' = [request EXCEPT ![q] = IF closed THEN "over" ELSE "answering"]
  /\ UNCHANGED <<queueVars, writerVars, closed, shut, listed, admission, news, reading>>
Answer(q) ==
  /\ request[q] = "admitted"
  /\ request' = [request EXCEPT ![q] = IF closed THEN "over" ELSE "answering"]
  /\ admission' = IF closed THEN admission + 1 ELSE admission
  /\ UNCHANGED <<queueVars, writerVars, closed, shut, listed, news, reading>>
Subscribe(q) ==
  /\ request[q] = "answering" /\ request' = [request EXCEPT ![q] = "replying"]
  /\ listed' \in {listed, TRUE}
  /\ UNCHANGED <<queueVars, writerVars, closed, shut, admission, news, reading>>
Replies(q) ==
  /\ request[q] = "replying" /\ request' = [request EXCEPT ![q] = "over"]
  /\ Send(Reply(q), q) /\ admission' = admission + 1
  /\ UNCHANGED <<writerVars, closed, shut, listed, news, reading>>

\* The client goes: the reading thread closes the peer and takes it off the list.
Leaves ==
  /\ reading /\ reading' = FALSE /\ Close /\ listed' = FALSE
  /\ UNCHANGED <<writerVars, buffered, overflowed, shut, admission, request, news>>

Next ==
  \/ Shutdown \/ Take \/ Broken \/ Written \/ Broadcast \/ Leaves
  \/ \E who \in Requests \cup {"reader", "refusal"} : Overflows(who)
  \/ \E q \in Requests : Read(q) \/ Answer(q) \/ Subscribe(q) \/ Replies(q)
Spec == Init /\ [][Next]_peerVars /\ WF_peerVars(Shutdown) /\ WF_peerVars(Take \/ Broken)

\* What the client gets of the browser's events has no gap: a client too slow is cut off, never kept
\* with an event missing.
IsEvent(f) == f[1] = "event"
Consecutive(s) ==
  \A i, j \in DOMAIN s :
    /\ i < j /\ IsEvent(s[i]) /\ IsEvent(s[j])
    /\ \A k \in DOMAIN s : i < k /\ k < j => ~IsEvent(s[k])
    => s[j][2] = s[i][2] + 1
NoGap == Consecutive(received)

\* Every admission is given back: those that are out belong to requests under way.
AdmissionIsBack ==
  admission + Cardinality({q \in Requests : request[q] \in {"admitted", "answering", "replying"}}) = Slots

\* The writer of a peer that is closed ends, whatever its queue holds and though the client reads
\* nothing.
WriterEnds == closed ~> writing = "ended"
=============================================================================
