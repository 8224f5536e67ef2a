-------------------------------- MODULE MCWire --------------------------------
(***************************************************************************)
(* The three ends that wait on a stream of frames, side by side and each   *)
(* by itself: the daemon's connection to the browser, a client's to the    *)
(* daemon, and the daemon's to a client.  `part` says which one a          *)
(* behaviour is about.                                                     *)
(***************************************************************************)
EXTENDS CdpConnection

CONSTANTS Callers, MaxCalls, MaxSid, MaxWire, None,              \* RemoteClient
          Requests, Slots, MaxFrames, MaxBytes, MaxEvents        \* DaemonPeers

\* _DAEMON_WORKERS + _DAEMON_QUEUE and the lengths of the queue are numbers; so is each bound.
ASSUME SlotsAssumption == Slots \in Nat
ASSUME CallsAssumption == MaxCalls \in Nat

VARIABLES
  part,
  shut, failure, clientPending, lastRid, clientSlot, sock, pump, lines, cause, callerPc, rid,
  outcome, cache, clientWire, served, chosen, lastSid, alive, quiet,
  outbound, peerClosed, writing, frame, buffered, overflowed, peerShut, listed, admission,
  request, news, received, reading

clientAll == <<shut, failure, clientPending, lastRid, clientSlot, sock, pump, lines, cause, callerPc, rid,
               outcome, cache, clientWire, served, chosen, lastSid, alive, quiet>>
peerAll == <<outbound, peerClosed, writing, frame, buffered, overflowed, peerShut, listed, admission,
             request, news, received, reading>>

Client == INSTANCE RemoteClient WITH
  pending <- clientPending, slot <- clientSlot, cpc <- callerPc, wire <- clientWire, asked <- served
Peer == INSTANCE DaemonPeers WITH closed <- peerClosed, shut <- peerShut

\* To the connection an ordinary error is an answer like a result is, and an event is no answer,
\* as a late one is not.
AnswersAndJunk == {"result", "badError", "junk"}

In(p) == part = p
WireInit == part \in {"browser", "client", "peer"} /\ Init /\ Client!Init /\ Peer!Init

Browsers == In("browser") /\ Next /\ UNCHANGED <<part, clientAll, peerAll>>
Clients == In("client") /\ Client!Next /\ UNCHANGED <<part, vars, peerAll>>
Peers == In("peer") /\ Peer!Next /\ UNCHANGED <<part, vars, clientAll>>
WireNext == Browsers \/ Clients \/ Peers

\* The fairness of each module, while a behaviour is about it.
WireSpec ==
  /\ WireInit /\ [][WireNext]_<<part, vars, clientAll, peerAll>>
  /\ \A w \in Workers : WF_vars(In("browser") /\ Worker(w))
  /\ WF_vars(In("browser") /\ Reader)
  /\ \A c \in Closers : WF_vars(In("browser") /\ Closer(c))
  /\ WF_clientAll(In("client") /\ Client!Pump /\ sock # "closed")
  /\ WF_clientAll(In("client") /\ Client!FailAll)
  /\ \A t \in Callers : WF_clientAll(In("client") /\ Client!Moves(t))
  /\ WF_peerAll(In("peer") /\ Peer!Shutdown)
  /\ WF_peerAll(In("peer") /\ (Peer!Take \/ Peer!Broken))

AnswersItsOwn == Client!AnswersItsOwn
DeathWakesAll == Client!DeathWakesAll
NoGap == Peer!NoGap
AdmissionIsBack == Peer!AdmissionIsBack
WriterEnds == Peer!WriterEnds
=============================================================================
