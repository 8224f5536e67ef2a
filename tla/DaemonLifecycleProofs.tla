----------------------- MODULE DaemonLifecycleProofs -----------------------
(***************************************************************************)
(* What is proved of DaemonLifecycle, for any number of daemons and of     *)
(* client commands.                                                        *)
(***************************************************************************)
EXTENDS DaemonLifecycle, TLAPS

\* Before it serves, a daemon has not begun to open its browser; before the
\* handshake is over there is no websocket, and then there is one.
StartInv ==
  \A d \in Daemons :
    /\ main[d] \in {"unborn", "unlink", "bind", "stat"} => opener[d] = "off"
    /\ opener[d] \in {"off", "handshake"} => websocket[d] = "none"
    /\ opener[d] = "attach" => websocket[d] # "none"

\* A thread that has not called stop() yet is in no teardown.
CallInv ==
  /\ \A d \in Daemons :
       main[d] \in {"unborn", "unlink", "bind", "stat", "serve"} => teardown[d][None] = "out"
  /\ \A d \in Daemons, c \in Clients :
       cpc[c] \in {"idle", "status", "ask"} => teardown[d][c] = "out"

\* Why a thread is about to stop the daemon.
CauseInv ==
  \A d \in Daemons :
    /\ teardown[d][None] = "latch" => d \in stop \/ (d \in settled /\ d \in error \cup closed)
    /\ \A c \in Clients : teardown[d][c] = "latch" => named[c] = d

\* Who tears a daemon down has set its latch, alone.
LatchInv ==
  /\ \A d \in Daemons, t \in Threads : TearsDown(d, t) => d \in stop
  /\ OneTeardown

\* An open websocket is in the hands of the opener, or of a connection that is
\* in use or about to be closed.
SocketInv ==
  \A d \in Daemons :
    websocket[d] = "open" =>
      \/ opener[d] = "attach"
      \/ d \in attached /\ (d \notin stop \/ \E t \in Threads : teardown[d][t] \in {"server", "conn"})

\* A client is given a daemon at its end only; it names one that has been serving;
\* and once it goes on to ensure another, the one it named is no longer published.
\* It has spawned none before it ensures one.
ClientInv ==
  \A c \in Clients :
    /\ got[c] # None => cpc[c] = "ready"
    /\ cpc[c] \in {"idle", "status"} => named[c] = None
    /\ named[c] # None => main[named[c]] \in {"serve", "stopping", "exited"}
    /\ named[c] # None /\ cpc[c] \in {"first", "loop", "ready"} => file # named[c]
    /\ cpc[c] \in {"idle", "status", "ask", "poll", "first"} => spawns[c] = 0

\* The inductive invariant.
IInv ==
  /\ TypeOK
  /\ StartInv /\ CallInv /\ CauseInv /\ LatchInv /\ SocketInv
  /\ ClientInv /\ ReloadIsFresh

-----------------------------------------------------------------------------
(* Type correctness.                                                       *)

LEMMA TypeInit == Init => TypeOK
BY DEF Init, TypeOK

\* A thread's place in stop() may be set to any of its places.
LEMMA TypeTeardown ==
  ASSUME TypeOK, NEW d \in Daemons, NEW t \in Threads,
         NEW p \in {"out", "latch", "server", "conn", "compare", "unlink"},
         teardown' = [teardown EXCEPT ![d][t] = p]
  PROVE  teardown' \in [Daemons -> [Threads -> {"out", "latch", "server", "conn", "compare", "unlink"}]]
BY DEF TypeOK

\* A websocket that is not there yet is not closed.
LEMMA TypeClosing ==
  ASSUME TypeOK, NEW d \in Daemons, websocket' = Close(d), attached' = attached
  PROVE  /\ websocket' \in [Daemons -> {"none", "open", "lost", "closed"}]
         /\ attached' \subseteq {e \in Daemons : websocket'[e] # "none"}
BY DEF TypeOK, Close

LEMMA TypeDaemon ==
  ASSUME IInv, NEW d \in Daemons,
         Starting(d) \/ Opening(d) \/ Handshake(d) \/ Lose(d) \/ ReaderEnds(d) \/ Serving(d)
  PROVE  TypeOK'
<1> USE DEF IInv
<1>1. CASE Unlink(d)
  BY <1>1 DEF TypeOK, Unlink, fileVars, openVars, clientVars
<1>2. CASE Bind(d)
  BY <1>2 DEF TypeOK, Bind, openVars, clientVars
<1>3. CASE BindFails(d)
  BY <1>3 DEF TypeOK, BindFails, fileVars, openVars, clientVars
<1>4. CASE Stat(d)
  BY <1>4 DEF TypeOK, Stat, clientVars
<1>5. CASE Attach(d)
  <2>1. CASE d \in stop
    <3>1. websocket' = Close(d) /\ attached' = attached
      BY <1>5, <2>1 DEF Attach
    <3> QED
      BY <1>5, <2>1, <3>1, TypeClosing DEF TypeOK, Attach, fileVars, daemonVars, clientVars
  <2>2. CASE d \notin stop
    BY SMTT(30), <1>5, <2>2 DEF TypeOK, StartInv, Attach, fileVars, daemonVars, clientVars
  <2> QED
    BY <2>1, <2>2
<1>6. CASE Discover(d)
  BY <1>6 DEF TypeOK, Discover, fileVars, daemonVars, clientVars
<1>7. CASE Settle(d)
  BY <1>7 DEF TypeOK, Settle, fileVars, daemonVars, clientVars
<1>8. CASE Handshake(d)
  BY <1>8 DEF TypeOK, Handshake, fileVars, daemonVars, clientVars
<1>9. CASE Lose(d)
  BY <1>9 DEF TypeOK, Lose, fileVars, daemonVars, clientVars
<1>10. CASE ReaderEnds(d)
  BY <1>10 DEF TypeOK, ReaderEnds, fileVars, daemonVars, clientVars
<1>11. CASE Notice(d)
  BY <1>11 DEF TypeOK, Notice, BrowserIsDead, fileVars, openVars, clientVars
<1>12. CASE Expire(d)
  BY <1>12, TypeTeardown DEF TypeOK, Expire, Threads, fileVars, openVars, clientVars
<1>13. CASE LeaveLoop(d)
  BY <1>13, TypeTeardown DEF TypeOK, LeaveLoop, Threads, fileVars, openVars, clientVars
<1>14. CASE Exit(d)
  BY <1>14, TypeClosing DEF TypeOK, Exit, fileVars, clientVars
<1> QED
  BY <1>1, <1>2, <1>3, <1>4, <1>5, <1>6, <1>7, <1>8, <1>9, <1>10, <1>11, <1>12, <1>13, <1>14
     DEF Starting, Opening, Serving

LEMMA TypeStopping ==
  ASSUME TypeOK, NEW d \in Daemons, NEW t \in Threads, Stopping(d, t)
  PROVE  TypeOK'
<1> USE DEF TypeOK
<1>1. CASE Latch(d, t)
  BY <1>1 DEF Latch, Steps, fileVars, openVars, clientVars
<1>2. CASE CloseServer(d, t)
  BY <1>2 DEF CloseServer, Steps, openVars, clientVars
<1>3. CASE CloseConnection(d, t)
  <2>1. /\ websocket' \in [Daemons -> {"none", "open", "lost", "closed"}]
        /\ attached' \subseteq {e \in Daemons : websocket'[e] # "none"}
    <3>1. CASE d \in attached
      BY <1>3, <3>1, TypeClosing DEF CloseConnection
    <3>2. CASE d \notin attached
      BY <1>3, <3>2 DEF CloseConnection
    <3> QED
      BY <3>1, <3>2
  <2> QED
    BY <1>3, <2>1 DEF CloseConnection, Steps, fileVars, clientVars
<1>4. CASE Compare(d, t)
  BY <1>4 DEF Compare, Steps, fileVars, openVars, clientVars
<1>5. CASE Cleanup(d, t)
  BY <1>5 DEF Cleanup, Steps, openVars, clientVars
<1> QED
  BY <1>1, <1>2, <1>3, <1>4, <1>5 DEF Stopping

LEMMA TypeClient ==
  ASSUME IInv, NEW c \in Clients, Client(c)
  PROVE  TypeOK'
<1> USE DEF IInv
<1>1. CASE Begin(c)
  BY <1>1, LifecycleAssumption DEF TypeOK, Begin, fileVars, openVars, daemonVars
<1>2. CASE GivesUp(c)
  BY <1>2 DEF TypeOK, GivesUp, Finished, fileVars, openVars, daemonVars
<1>3. CASE SeesItStopped(c)
  BY <1>3 DEF TypeOK, SeesItStopped, Finished, fileVars, openVars, daemonVars
<1>4. CASE IsReady(c)
  BY <1>4 DEF TypeOK, IsReady, Finished, fileVars, openVars, daemonVars
<1>5. CASE IsPending(c)
  BY <1>5 DEF TypeOK, IsPending, fileVars, openVars, daemonVars
<1>6. CASE SpawnFirst(c)
  BY <1>6 DEF TypeOK, ClientInv, SpawnFirst, Spawn, fileVars, openVars
<1>7. CASE SpawnAgain(c)
  BY <1>7 DEF TypeOK, SpawnAgain, Spawn, fileVars, openVars
<1>8. CASE Status(c)
  BY SMTT(30), <1>8 DEF TypeOK, Status, Finished, fileVars, openVars, daemonVars
<1>9. CASE Ask(c)
  <2>1. PICK d \in Reachable :
          /\ teardown' = [teardown EXCEPT ![d][c] = "latch"]
          /\ cpc' \in {[cpc EXCEPT ![c] = "poll"], [cpc EXCEPT ![c] = "failed"]}
    BY <1>9 DEF Ask
  <2>2. d \in Daemons /\ c \in Threads
    BY DEF Reachable, Threads
  <2> QED
    BY <1>9, <2>1, <2>2, TypeTeardown DEF TypeOK, Ask, Finished, fileVars, openVars
<1> QED
  BY <1>1, <1>2, <1>3, <1>4, <1>5, <1>6, <1>7, <1>8, <1>9 DEF Client
-----------------------------------------------------------------------------
(* The other parts of the invariant, one lemma each.                       *)

\* The opener starts when the daemon serves, and opens the websocket itself.
LEMMA StartStep ==
  ASSUME IInv, TypeOK', [Next]_vars
  PROVE  StartInv'
<1> USE DEF IInv
<1>1. ASSUME NEW d \in Daemons, Unlink(d) PROVE StartInv'
  BY <1>1 DEF TypeOK, StartInv, Unlink, openVars
<1>2. ASSUME NEW d \in Daemons, Bind(d) PROVE StartInv'
  BY <1>2 DEF TypeOK, StartInv, Bind, openVars
<1>3. ASSUME NEW d \in Daemons, BindFails(d) PROVE StartInv'
  BY <1>3 DEF TypeOK, StartInv, BindFails, openVars
<1>4. ASSUME NEW d \in Daemons, Stat(d) PROVE StartInv'
  BY <1>4 DEF TypeOK, StartInv, Stat
<1>5. ASSUME NEW d \in Daemons, Attach(d) PROVE StartInv'
  BY <1>5 DEF TypeOK, StartInv, Attach, Close, daemonVars
<1>6. ASSUME NEW d \in Daemons, Discover(d) PROVE StartInv'
  BY <1>6 DEF TypeOK, StartInv, Discover, daemonVars
<1>7. ASSUME NEW d \in Daemons, Settle(d) PROVE StartInv'
  BY <1>7 DEF TypeOK, StartInv, Settle, daemonVars
<1>8. ASSUME NEW d \in Daemons, Handshake(d) PROVE StartInv'
  BY <1>8 DEF TypeOK, StartInv, Handshake, daemonVars
<1>9. ASSUME NEW d \in Daemons, Lose(d) PROVE StartInv'
  BY <1>9 DEF TypeOK, StartInv, Lose, daemonVars
<1>10. ASSUME NEW d \in Daemons, Expire(d) PROVE StartInv'
  BY <1>10 DEF TypeOK, StartInv, Expire, BrowserIsDead, openVars
<1>11. ASSUME NEW d \in Daemons, LeaveLoop(d) PROVE StartInv'
  BY <1>11 DEF TypeOK, StartInv, LeaveLoop, openVars
<1>12. ASSUME NEW d \in Daemons, Exit(d) PROVE StartInv'
  BY <1>12 DEF TypeOK, StartInv, Exit, Close
<1>13. ASSUME NEW d \in Daemons, ReaderEnds(d) \/ Notice(d)
      PROVE  StartInv'
  BY <1>13 DEF StartInv, ReaderEnds, daemonVars, Notice, openVars
<1>14. ASSUME NEW d \in Daemons, NEW t \in Threads, CloseConnection(d, t) PROVE StartInv'
  BY <1>14 DEF TypeOK, StartInv, CloseConnection, Steps, Close
<1>15. ASSUME NEW d \in Daemons, NEW t \in Threads, Latch(d, t) \/
            CloseServer(d, t) \/ Compare(d, t) \/ Cleanup(d, t)
      PROVE  StartInv'
  BY <1>15 DEF StartInv, Latch, Steps, openVars, CloseServer, Compare, Cleanup
<1>16. ASSUME NEW c \in Clients, SpawnFirst(c) PROVE StartInv'
  BY <1>16 DEF TypeOK, StartInv, SpawnFirst, Spawn, openVars
<1>17. ASSUME NEW c \in Clients, SpawnAgain(c) PROVE StartInv'
  BY <1>17 DEF TypeOK, StartInv, SpawnAgain, Spawn, openVars
<1>18. ASSUME NEW c \in Clients, Begin(c) \/ IsReady(c) \/ IsPending(c) \/
            Status(c) \/ Ask(c) \/ SeesItStopped(c) \/ GivesUp(c)
      PROVE  StartInv'
  BY <1>18 DEF StartInv, Begin, openVars, daemonVars, IsReady, IsPending, Status, Ask,
     SeesItStopped, GivesUp
<1>19. CASE UNCHANGED vars
  BY <1>19 DEF StartInv, vars, openVars, daemonVars
<1> QED
  BY <1>1, <1>2, <1>3, <1>4, <1>5, <1>6, <1>7, <1>8, <1>9, <1>10, <1>11, <1>12, <1>13,
     <1>14, <1>15, <1>16, <1>17, <1>18, <1>19
     DEF Next, Starting, Opening, Serving, Stopping, Client

\* Only an expiring main thread, and a client that has asked, call stop().
LEMMA CallStep ==
  ASSUME IInv, TypeOK', [Next]_vars
  PROVE  CallInv'
<1> USE DEF IInv
<1>1. ASSUME NEW d \in Daemons, Unlink(d) PROVE CallInv'
  BY <1>1 DEF TypeOK, Threads, CallInv, Unlink, clientVars
<1>2. ASSUME NEW d \in Daemons, Bind(d) PROVE CallInv'
  BY <1>2 DEF TypeOK, Threads, CallInv, Bind, clientVars
<1>3. ASSUME NEW d \in Daemons, BindFails(d) PROVE CallInv'
  BY <1>3 DEF TypeOK, Threads, CallInv, BindFails, clientVars
<1>4. ASSUME NEW d \in Daemons, Stat(d) PROVE CallInv'
  BY <1>4 DEF TypeOK, Threads, CallInv, Stat, clientVars
<1>5. ASSUME NEW d \in Daemons, Expire(d) PROVE CallInv'
  <2>1. \A e \in Daemons, s \in Threads :
          teardown'[e][s] = IF e = d /\ s = None THEN "latch" ELSE teardown[e][s]
    BY <1>5 DEF TypeOK, Expire, Threads
  <2> QED
    BY <1>5, <2>1, LifecycleAssumption DEF TypeOK, Threads, CallInv, Expire, BrowserIsDead,
       clientVars
<1>6. ASSUME NEW d \in Daemons, LeaveLoop(d) PROVE CallInv'
  <2>1. \A e \in Daemons, s \in Threads :
          teardown'[e][s] = IF e = d /\ s = None THEN "latch" ELSE teardown[e][s]
    BY <1>6 DEF TypeOK, LeaveLoop, Threads
  <2> QED
    BY <1>6, <2>1, LifecycleAssumption DEF TypeOK, Threads, CallInv, LeaveLoop, clientVars
<1>7. ASSUME NEW d \in Daemons, Exit(d) PROVE CallInv'
  BY <1>7 DEF TypeOK, Threads, CallInv, Exit, Close, clientVars
<1>8. ASSUME NEW d \in Daemons, Attach(d) \/ Discover(d) \/ Settle(d) \/
            Handshake(d) \/ Lose(d) \/ ReaderEnds(d) \/ Notice(d)
      PROVE  CallInv'
  BY <1>8 DEF CallInv, Threads, Attach, daemonVars, clientVars, Discover, Settle,
     Handshake, Lose, ReaderEnds, Notice
<1>9. ASSUME NEW d \in Daemons, NEW t \in Threads, Latch(d, t) PROVE CallInv'
  BY <1>9 DEF TypeOK, Threads, CallInv, Latch, Steps, clientVars
<1>10. ASSUME NEW d \in Daemons, NEW t \in Threads, CloseServer(d, t) PROVE CallInv'
  BY <1>10 DEF TypeOK, Threads, CallInv, CloseServer, Steps, clientVars
<1>11. ASSUME NEW d \in Daemons, NEW t \in Threads, CloseConnection(d, t) PROVE CallInv'
  BY <1>11 DEF TypeOK, Threads, CallInv, CloseConnection, Steps, Close, clientVars
<1>12. ASSUME NEW d \in Daemons, NEW t \in Threads, Compare(d, t) PROVE CallInv'
  BY <1>12 DEF TypeOK, Threads, CallInv, Compare, Steps, clientVars
<1>13. ASSUME NEW d \in Daemons, NEW t \in Threads, Cleanup(d, t) PROVE CallInv'
  BY <1>13 DEF TypeOK, Threads, CallInv, Cleanup, Steps, clientVars
<1>14. ASSUME NEW c \in Clients, Begin(c) PROVE CallInv'
  BY <1>14 DEF TypeOK, Threads, CallInv, Begin, daemonVars
<1>15. ASSUME NEW c \in Clients, IsReady(c) PROVE CallInv'
  BY <1>15 DEF TypeOK, Threads, CallInv, IsReady, Pong, Live, Reachable, daemonVars
<1>16. ASSUME NEW c \in Clients, IsPending(c) PROVE CallInv'
  BY <1>16 DEF TypeOK, Threads, CallInv, IsPending, Pong, Live, Reachable, daemonVars
<1>17. ASSUME NEW c \in Clients, SpawnFirst(c) PROVE CallInv'
  BY <1>17 DEF TypeOK, Threads, CallInv, SpawnFirst, Spawn
<1>18. ASSUME NEW c \in Clients, SpawnAgain(c) PROVE CallInv'
  BY <1>18 DEF TypeOK, Threads, CallInv, SpawnAgain, Spawn
<1>19. ASSUME NEW c \in Clients, Status(c) PROVE CallInv'
  BY <1>19 DEF TypeOK, Threads, CallInv, Status, Pong, Reachable, daemonVars
<1>20. ASSUME NEW c \in Clients, Ask(c) PROVE CallInv'
  <2>1. PICK d \in Daemons :
          /\ d = named[c]
          /\ teardown' = [teardown EXCEPT ![d][c] = "latch"]
          /\ cpc' \in {[cpc EXCEPT ![c] = "poll"], [cpc EXCEPT ![c] = "failed"]}
    BY <1>20 DEF Ask, Reachable
  <2>2. \A e \in Daemons, s \in Threads :
          teardown'[e][s] = IF e = d /\ s = c THEN "latch" ELSE teardown[e][s]
    BY <2>1 DEF TypeOK, Threads
  <2> QED
    BY <1>20, <2>1, <2>2, LifecycleAssumption DEF TypeOK, Threads, CallInv, Ask
<1>21. ASSUME NEW c \in Clients, SeesItStopped(c) PROVE CallInv'
  BY <1>21 DEF TypeOK, Threads, CallInv, SeesItStopped, daemonVars
<1>22. ASSUME NEW c \in Clients, GivesUp(c) PROVE CallInv'
  BY <1>22 DEF TypeOK, Threads, CallInv, GivesUp, Reachable, daemonVars
<1>23. CASE UNCHANGED vars
  BY <1>23 DEF CallInv, Threads, vars, daemonVars, clientVars
<1> QED
  BY <1>1, <1>2, <1>3, <1>4, <1>5, <1>6, <1>7, <1>8, <1>9, <1>10, <1>11, <1>12, <1>13,
     <1>14, <1>15, <1>16, <1>17, <1>18, <1>19, <1>20, <1>21, <1>22, <1>23
     DEF Next, Starting, Opening, Serving, Stopping, Client

\* A death is final, and a client that has been answered names nobody else.
LEMMA CauseStep ==
  ASSUME IInv, TypeOK', [Next]_vars
  PROVE  CauseInv'
<1> USE DEF IInv
<1>1. ASSUME NEW d \in Daemons, Discover(d) PROVE CauseInv'
  BY <1>1 DEF TypeOK, CallInv, Threads, CauseInv, Discover, daemonVars, clientVars
<1>2. ASSUME NEW d \in Daemons, Settle(d) PROVE CauseInv'
  BY <1>2 DEF TypeOK, CallInv, Threads, CauseInv, Settle, daemonVars, clientVars
<1>3. ASSUME NEW d \in Daemons, Handshake(d) PROVE CauseInv'
  BY <1>3 DEF TypeOK, CallInv, Threads, CauseInv, Handshake, daemonVars, clientVars
<1>4. ASSUME NEW d \in Daemons, ReaderEnds(d) PROVE CauseInv'
  BY <1>4 DEF TypeOK, CallInv, Threads, CauseInv, ReaderEnds, daemonVars, clientVars
<1>5. ASSUME NEW d \in Daemons, Expire(d) PROVE CauseInv'
  <2>1. \A e \in Daemons, s \in Threads :
          teardown'[e][s] = IF e = d /\ s = None THEN "latch" ELSE teardown[e][s]
    BY <1>5 DEF TypeOK, Expire, Threads
  <2> QED
    BY <1>5, <2>1, LifecycleAssumption DEF TypeOK, CallInv, Threads, CauseInv, Expire,
       BrowserIsDead, openVars, clientVars
<1>6. ASSUME NEW d \in Daemons, LeaveLoop(d) PROVE CauseInv'
  <2>1. \A e \in Daemons, s \in Threads :
          teardown'[e][s] = IF e = d /\ s = None THEN "latch" ELSE teardown[e][s]
    BY <1>6 DEF TypeOK, LeaveLoop, Threads
  <2> QED
    BY <1>6, <2>1, LifecycleAssumption DEF TypeOK, CallInv, Threads, CauseInv, LeaveLoop,
       openVars, clientVars
<1>7. ASSUME NEW d \in Daemons, Unlink(d) \/ Bind(d) \/ BindFails(d) \/ Stat(d) \/
            Attach(d) \/ Lose(d) \/ Notice(d) \/ Exit(d)
      PROVE  CauseInv'
  BY <1>7 DEF CauseInv, Threads, Unlink, openVars, clientVars, Bind, BindFails, Stat,
     Attach, daemonVars, Lose, Notice, Exit
<1>8. ASSUME NEW d \in Daemons, NEW t \in Threads, Latch(d, t) PROVE CauseInv'
  BY <1>8 DEF TypeOK, CallInv, Threads, CauseInv, Latch, Steps, openVars, clientVars
<1>9. ASSUME NEW d \in Daemons, NEW t \in Threads, CloseServer(d, t) PROVE CauseInv'
  BY <1>9 DEF TypeOK, CallInv, Threads, CauseInv, CloseServer, Steps, openVars,
     clientVars
<1>10. ASSUME NEW d \in Daemons, NEW t \in Threads, CloseConnection(d, t) PROVE CauseInv'
  BY <1>10 DEF TypeOK, CallInv, Threads, CauseInv, CloseConnection, Steps, Close,
     clientVars
<1>11. ASSUME NEW d \in Daemons, NEW t \in Threads, Compare(d, t) PROVE CauseInv'
  BY <1>11 DEF TypeOK, CallInv, Threads, CauseInv, Compare, Steps, openVars, clientVars
<1>12. ASSUME NEW d \in Daemons, NEW t \in Threads, Cleanup(d, t) PROVE CauseInv'
  BY <1>12 DEF TypeOK, CallInv, Threads, CauseInv, Cleanup, Steps, openVars, clientVars
<1>13. ASSUME NEW c \in Clients, Status(c) PROVE CauseInv'
  BY <1>13 DEF TypeOK, CallInv, Threads, CauseInv, Status, Pong, Reachable, openVars,
     daemonVars
<1>14. ASSUME NEW c \in Clients, Ask(c) PROVE CauseInv'
  <2>1. PICK d \in Daemons :
          /\ d = named[c]
          /\ teardown' = [teardown EXCEPT ![d][c] = "latch"]
          /\ cpc' \in {[cpc EXCEPT ![c] = "poll"], [cpc EXCEPT ![c] = "failed"]}
    BY <1>14 DEF Ask, Reachable
  <2>2. \A e \in Daemons, s \in Threads :
          teardown'[e][s] = IF e = d /\ s = c THEN "latch" ELSE teardown[e][s]
    BY <2>1 DEF TypeOK, Threads
  <2> QED
    BY <1>14, <2>1, <2>2, LifecycleAssumption DEF TypeOK, CallInv, Threads, CauseInv, Ask,
       openVars
<1>15. ASSUME NEW c \in Clients, Begin(c) \/ IsReady(c) \/ IsPending(c) \/
            SpawnFirst(c) \/ SpawnAgain(c) \/ SeesItStopped(c) \/ GivesUp(c)
      PROVE  CauseInv'
  BY <1>15 DEF CauseInv, Threads, Begin, openVars, daemonVars, IsReady, IsPending,
     SpawnFirst, SpawnAgain, SeesItStopped, GivesUp
<1>16. CASE UNCHANGED vars
  BY <1>16 DEF CauseInv, Threads, vars, openVars, daemonVars, clientVars
<1> QED
  BY <1>1, <1>2, <1>3, <1>4, <1>5, <1>6, <1>7, <1>8, <1>9, <1>10, <1>11, <1>12, <1>13,
     <1>14, <1>15, <1>16
     DEF Next, Starting, Opening, Serving, Stopping, Client

\* _stop is set under its lock by the first of the callers.
LEMMA LatchStep ==
  ASSUME IInv, TypeOK', [Next]_vars
  PROVE  LatchInv'
<1> USE DEF IInv
<1>1. ASSUME NEW d \in Daemons, Expire(d) PROVE LatchInv'
  BY <1>1 DEF TypeOK, CallInv, OneTeardown, TearsDown, Threads, LatchInv, Expire,
     BrowserIsDead
<1>2. ASSUME NEW d \in Daemons, LeaveLoop(d) PROVE LatchInv'
  BY <1>2 DEF TypeOK, CallInv, OneTeardown, TearsDown, Threads, LatchInv, LeaveLoop
<1>3. ASSUME NEW d \in Daemons, Unlink(d) \/ Bind(d) \/ BindFails(d) \/ Stat(d) \/
            Attach(d) \/ Discover(d) \/ Settle(d) \/ Handshake(d) \/ Lose(d) \/
            ReaderEnds(d) \/ Notice(d) \/ Exit(d)
      PROVE  LatchInv'
  BY <1>3 DEF LatchInv, OneTeardown, TearsDown, Threads, Unlink, Bind, BindFails, Stat,
     Attach, daemonVars, Discover, Settle, Handshake, Lose, ReaderEnds, Notice, Exit
<1>4. ASSUME NEW d \in Daemons, NEW t \in Threads, Latch(d, t) PROVE LatchInv'
  BY <1>4 DEF TypeOK, CallInv, OneTeardown, TearsDown, Threads, LatchInv, Latch, Steps
<1>5. ASSUME NEW d \in Daemons, NEW t \in Threads, CloseServer(d, t) PROVE LatchInv'
  <2>1. \A e \in Daemons, s \in Threads :
          teardown'[e][s] = IF e = d /\ s = t THEN "conn" ELSE teardown[e][s]
    BY <1>5 DEF TypeOK, CloseServer, Steps
  <2> QED
    BY <1>5, <2>1, LifecycleAssumption DEF TypeOK, CallInv, OneTeardown, TearsDown,
       Threads, LatchInv, CloseServer, Steps
<1>6. ASSUME NEW d \in Daemons, NEW t \in Threads, CloseConnection(d, t) PROVE LatchInv'
  <2>1. \A e \in Daemons, s \in Threads :
          teardown'[e][s] = IF e = d /\ s = t THEN "compare" ELSE teardown[e][s]
    BY <1>6 DEF TypeOK, CloseConnection, Steps
  <2>2. stop' = stop /\ TearsDown(d, t)
    BY <1>6 DEF CloseConnection, Steps, TearsDown
  <2> QED
    BY <2>1, <2>2 DEF LatchInv, OneTeardown, TearsDown
<1>7. ASSUME NEW d \in Daemons, NEW t \in Threads, Compare(d, t) PROVE LatchInv'
  <2>1. teardown' \in {[teardown EXCEPT ![d][t] = "unlink"], [teardown EXCEPT ![d][t] = "out"]}
    BY <1>7 DEF Compare, Steps
  <2>2. \E p \in {"unlink", "out"} : \A e \in Daemons, s \in Threads :
          teardown'[e][s] = IF e = d /\ s = t THEN p ELSE teardown[e][s]
    BY <2>1 DEF TypeOK
  <2> QED
    BY <1>7, <2>2, LifecycleAssumption DEF TypeOK, CallInv, OneTeardown, TearsDown,
       Threads, LatchInv, Compare, Steps
<1>8. ASSUME NEW d \in Daemons, NEW t \in Threads, Cleanup(d, t) PROVE LatchInv'
  <2>1. \A e \in Daemons, s \in Threads :
          teardown'[e][s] = IF e = d /\ s = t THEN "out" ELSE teardown[e][s]
    BY <1>8 DEF TypeOK, Cleanup, Steps
  <2> QED
    BY <1>8, <2>1, LifecycleAssumption DEF TypeOK, CallInv, OneTeardown, TearsDown,
       Threads, LatchInv, Cleanup, Steps
<1>9. ASSUME NEW c \in Clients, Ask(c) PROVE LatchInv'
  BY <1>9 DEF TypeOK, CallInv, OneTeardown, TearsDown, Threads, LatchInv, Ask, Reachable
<1>10. ASSUME NEW c \in Clients, Begin(c) \/ IsReady(c) \/ IsPending(c) \/
            SpawnFirst(c) \/ SpawnAgain(c) \/ Status(c) \/ SeesItStopped(c) \/
            GivesUp(c)
      PROVE  LatchInv'
  BY <1>10 DEF LatchInv, OneTeardown, TearsDown, Threads, Begin, daemonVars, IsReady,
     IsPending, SpawnFirst, SpawnAgain, Status, SeesItStopped, GivesUp
<1>11. CASE UNCHANGED vars
  BY <1>11 DEF LatchInv, OneTeardown, TearsDown, Threads, vars, daemonVars
<1> QED
  BY <1>1, <1>2, <1>3, <1>4, <1>5, <1>6, <1>7, <1>8, <1>9, <1>10, <1>11
     DEF Next, Starting, Opening, Serving, Stopping, Client

\* Whoever stops a daemon closes its websocket, or the opener does.
LEMMA SocketStep ==
  ASSUME IInv, TypeOK', [Next]_vars
  PROVE  SocketInv'
<1> USE DEF IInv
<1>1. ASSUME NEW d \in Daemons, Stat(d) PROVE SocketInv'
  BY <1>1 DEF TypeOK, StartInv, CallInv, LatchInv, Threads, SocketInv, Stat
<1>2. ASSUME NEW d \in Daemons, Attach(d) PROVE SocketInv'
  BY SMTT(30), <1>2 DEF TypeOK, StartInv, CallInv, LatchInv, Threads, SocketInv, Attach, Close,
     daemonVars
<1>3. ASSUME NEW d \in Daemons, Discover(d) PROVE SocketInv'
  BY <1>3 DEF TypeOK, StartInv, CallInv, LatchInv, Threads, SocketInv, Discover,
     daemonVars
<1>4. ASSUME NEW d \in Daemons, Settle(d) PROVE SocketInv'
  BY <1>4 DEF TypeOK, StartInv, CallInv, LatchInv, Threads, SocketInv, Settle,
     daemonVars
<1>5. ASSUME NEW d \in Daemons, Handshake(d) PROVE SocketInv'
  BY <1>5 DEF TypeOK, StartInv, CallInv, LatchInv, Threads, SocketInv, Handshake,
     daemonVars
<1>6. ASSUME NEW d \in Daemons, Lose(d) PROVE SocketInv'
  BY <1>6 DEF TypeOK, StartInv, CallInv, LatchInv, Threads, SocketInv, Lose, daemonVars
<1>7. ASSUME NEW d \in Daemons, Expire(d) PROVE SocketInv'
  <2>1. \A e \in Daemons, s \in Threads :
          teardown'[e][s] = IF e = d /\ s = None THEN "latch" ELSE teardown[e][s]
    BY <1>7 DEF TypeOK, Expire, Threads
  <2> QED
    BY <1>7, <2>1, LifecycleAssumption DEF TypeOK, StartInv, CallInv, LatchInv, Threads,
       SocketInv, Expire, BrowserIsDead, openVars
<1>8. ASSUME NEW d \in Daemons, LeaveLoop(d) PROVE SocketInv'
  <2>1. \A e \in Daemons, s \in Threads :
          teardown'[e][s] = IF e = d /\ s = None THEN "latch" ELSE teardown[e][s]
    BY <1>8 DEF TypeOK, LeaveLoop, Threads
  <2> QED
    BY SMTT(30), <1>8, <2>1, LifecycleAssumption DEF TypeOK, StartInv, CallInv, LatchInv, Threads,
       SocketInv, LeaveLoop, openVars
<1>9. ASSUME NEW d \in Daemons, Exit(d) PROVE SocketInv'
  BY <1>9 DEF TypeOK, StartInv, CallInv, LatchInv, Threads, SocketInv, Exit, Close
<1>10. ASSUME NEW d \in Daemons, Unlink(d) \/ Bind(d) \/ BindFails(d) \/
            ReaderEnds(d) \/ Notice(d)
      PROVE  SocketInv'
  BY <1>10 DEF SocketInv, Threads, Unlink, openVars, Bind, BindFails, ReaderEnds,
     daemonVars, Notice
<1>11. ASSUME NEW d \in Daemons, NEW t \in Threads, Latch(d, t) PROVE SocketInv'
  BY SMTT(30), <1>11 DEF TypeOK, StartInv, CallInv, LatchInv, Threads, SocketInv, Latch, Steps,
     openVars
<1>12. ASSUME NEW d \in Daemons, NEW t \in Threads, CloseServer(d, t) PROVE SocketInv'
  <2>1. \A e \in Daemons, s \in Threads :
          teardown'[e][s] = IF e = d /\ s = t THEN "conn" ELSE teardown[e][s]
    BY <1>12 DEF TypeOK, CloseServer, Steps
  <2> QED
    BY <1>12, <2>1, LifecycleAssumption DEF TypeOK, StartInv, CallInv, LatchInv, Threads,
       SocketInv, CloseServer, Steps, openVars
<1>13. ASSUME NEW d \in Daemons, NEW t \in Threads, CloseConnection(d, t) PROVE SocketInv'
  BY <1>13 DEF TypeOK, StartInv, CallInv, LatchInv, Threads, SocketInv, CloseConnection,
     Steps, Close
<1>14. ASSUME NEW d \in Daemons, NEW t \in Threads, Compare(d, t) PROVE SocketInv'
  <2>1. teardown' \in {[teardown EXCEPT ![d][t] = "unlink"], [teardown EXCEPT ![d][t] = "out"]}
    BY <1>14 DEF Compare, Steps
  <2>2. \E p \in {"unlink", "out"} : \A e \in Daemons, s \in Threads :
          teardown'[e][s] = IF e = d /\ s = t THEN p ELSE teardown[e][s]
    BY <2>1 DEF TypeOK
  <2>3. UNCHANGED <<openVars, stop>> /\ teardown[d][t] = "compare"
    BY <1>14 DEF Compare, Steps
  <2> QED
    BY <2>2, <2>3 DEF SocketInv, openVars
<1>15. ASSUME NEW d \in Daemons, NEW t \in Threads, Cleanup(d, t) PROVE SocketInv'
  <2>1. \A e \in Daemons, s \in Threads :
          teardown'[e][s] = IF e = d /\ s = t THEN "out" ELSE teardown[e][s]
    BY <1>15 DEF TypeOK, Cleanup, Steps
  <2>2. UNCHANGED <<openVars, stop>> /\ teardown[d][t] = "unlink"
    BY <1>15 DEF Cleanup, Steps
  <2> QED
    BY <2>1, <2>2 DEF SocketInv, openVars
<1>16. ASSUME NEW c \in Clients, Ask(c) PROVE SocketInv'
  BY <1>16 DEF TypeOK, StartInv, CallInv, LatchInv, Threads, SocketInv, Ask, Reachable,
     openVars
<1>17. ASSUME NEW c \in Clients, Begin(c) \/ IsReady(c) \/ IsPending(c) \/
            SpawnFirst(c) \/ SpawnAgain(c) \/ Status(c) \/ SeesItStopped(c) \/
            GivesUp(c)
      PROVE  SocketInv'
  BY <1>17 DEF SocketInv, Threads, Begin, openVars, daemonVars, IsReady, IsPending,
     SpawnFirst, SpawnAgain, Status, SeesItStopped, GivesUp
<1>18. CASE UNCHANGED vars
  BY <1>18 DEF SocketInv, Threads, vars, openVars, daemonVars
<1> QED
  BY <1>1, <1>2, <1>3, <1>4, <1>5, <1>6, <1>7, <1>8, <1>9, <1>10, <1>11, <1>12, <1>13,
     <1>14, <1>15, <1>16, <1>17, <1>18
     DEF Next, Starting, Opening, Serving, Stopping, Client

\* A published daemon is serving or has just bound, so no stopped one comes back.
LEMMA ClientStep ==
  ASSUME IInv, TypeOK', [Next]_vars
  PROVE  ClientInv'
<1> USE DEF IInv
<1>1. ASSUME NEW d \in Daemons, Unlink(d) PROVE ClientInv'
  BY <1>1 DEF TypeOK, ClientInv, Unlink, clientVars
<1>2. ASSUME NEW d \in Daemons, Bind(d) PROVE ClientInv'
  BY <1>2 DEF TypeOK, ClientInv, Bind, clientVars
<1>3. ASSUME NEW d \in Daemons, BindFails(d) PROVE ClientInv'
  BY <1>3 DEF TypeOK, ClientInv, BindFails, fileVars, clientVars
<1>4. ASSUME NEW d \in Daemons, Stat(d) PROVE ClientInv'
  BY <1>4 DEF TypeOK, ClientInv, Stat, clientVars
<1>5. ASSUME NEW d \in Daemons, Expire(d) PROVE ClientInv'
  BY <1>5 DEF TypeOK, ClientInv, Expire, BrowserIsDead, fileVars, clientVars
<1>6. ASSUME NEW d \in Daemons, LeaveLoop(d) PROVE ClientInv'
  BY <1>6 DEF TypeOK, ClientInv, LeaveLoop, fileVars, clientVars
<1>7. ASSUME NEW d \in Daemons, Exit(d) PROVE ClientInv'
  BY <1>7 DEF TypeOK, ClientInv, Exit, Close, fileVars, clientVars
<1>8. ASSUME NEW d \in Daemons, Attach(d) \/ Discover(d) \/ Settle(d) \/
            Handshake(d) \/ Lose(d) \/ ReaderEnds(d) \/ Notice(d)
      PROVE  ClientInv'
  BY <1>8 DEF ClientInv, Attach, fileVars, daemonVars, clientVars, Discover, Settle,
     Handshake, Lose, ReaderEnds, Notice
<1>9. ASSUME NEW d \in Daemons, NEW t \in Threads, Cleanup(d, t) PROVE ClientInv'
  BY <1>9 DEF TypeOK, ClientInv, Cleanup, Steps, clientVars
<1>10. ASSUME NEW d \in Daemons, NEW t \in Threads, Latch(d, t) \/
            CloseServer(d, t) \/ CloseConnection(d, t) \/ Compare(d, t)
      PROVE  ClientInv'
  BY <1>10 DEF ClientInv, Latch, Steps, fileVars, clientVars, CloseServer,
     CloseConnection, Compare
<1>11. ASSUME NEW c \in Clients, Begin(c) PROVE ClientInv'
  BY <1>11 DEF TypeOK, ClientInv, Begin, fileVars, daemonVars
<1>12. ASSUME NEW c \in Clients, IsReady(c) PROVE ClientInv'
  BY <1>12 DEF TypeOK, ClientInv, IsReady, Pong, Live, Reachable, fileVars, daemonVars
<1>13. ASSUME NEW c \in Clients, IsPending(c) PROVE ClientInv'
  BY <1>13 DEF TypeOK, ClientInv, IsPending, Pong, Live, Reachable, fileVars, daemonVars
<1>14. ASSUME NEW c \in Clients, SpawnFirst(c) PROVE ClientInv'
  BY <1>14 DEF TypeOK, ClientInv, SpawnFirst, Spawn, fileVars
<1>15. ASSUME NEW c \in Clients, SpawnAgain(c) PROVE ClientInv'
  BY <1>15 DEF TypeOK, ClientInv, SpawnAgain, Spawn, fileVars
<1>16. ASSUME NEW c \in Clients, Status(c) PROVE ClientInv'
  BY <1>16 DEF TypeOK, ClientInv, Status, Pong, Reachable, fileVars, daemonVars
<1>17. ASSUME NEW c \in Clients, Ask(c) PROVE ClientInv'
  BY <1>17 DEF TypeOK, ClientInv, Ask, Reachable, fileVars
<1>18. ASSUME NEW c \in Clients, SeesItStopped(c) PROVE ClientInv'
  BY <1>18 DEF TypeOK, ClientInv, SeesItStopped, fileVars, daemonVars
<1>19. ASSUME NEW c \in Clients, GivesUp(c) PROVE ClientInv'
  BY <1>19 DEF TypeOK, ClientInv, GivesUp, Reachable, fileVars, daemonVars
<1>20. CASE UNCHANGED vars
  BY <1>20 DEF ClientInv, vars, fileVars, daemonVars, clientVars
<1> QED
  BY <1>1, <1>2, <1>3, <1>4, <1>5, <1>6, <1>7, <1>8, <1>9, <1>10, <1>11, <1>12, <1>13,
     <1>14, <1>15, <1>16, <1>17, <1>18, <1>19, <1>20
     DEF Next, Starting, Opening, Serving, Stopping, Client

\* A reload waits until the name is free, and a daemon binds once.
LEMMA ReloadStep ==
  ASSUME IInv, TypeOK', [Next]_vars
  PROVE  ReloadIsFresh'
<1> USE DEF IInv
<1>1. ASSUME NEW d \in Daemons, Unlink(d) \/ Bind(d) \/ BindFails(d) \/ Stat(d) \/
            Attach(d) \/ Discover(d) \/ Settle(d) \/ Handshake(d) \/ Lose(d) \/
            ReaderEnds(d) \/ Notice(d) \/ Expire(d) \/ LeaveLoop(d) \/ Exit(d)
      PROVE  ReloadIsFresh'
  BY <1>1 DEF ReloadIsFresh, Unlink, clientVars, Bind, BindFails, Stat, Attach,
     Discover, Settle, Handshake, Lose, ReaderEnds, Notice, Expire, LeaveLoop, Exit
<1>2. ASSUME NEW d \in Daemons, NEW t \in Threads, Latch(d, t) \/ CloseServer(d, t) \/
            CloseConnection(d, t) \/ Compare(d, t) \/ Cleanup(d, t)
      PROVE  ReloadIsFresh'
  BY <1>2 DEF ReloadIsFresh, Latch, Steps, clientVars, CloseServer, CloseConnection,
     Compare, Cleanup
<1>3. ASSUME NEW c \in Clients, Begin(c) PROVE ReloadIsFresh'
  BY <1>3 DEF TypeOK, ClientInv, ReloadIsFresh, Begin
<1>4. ASSUME NEW c \in Clients, IsReady(c) PROVE ReloadIsFresh'
  BY <1>4 DEF TypeOK, ClientInv, ReloadIsFresh, IsReady, Pong, Live, Reachable
<1>5. ASSUME NEW c \in Clients, Status(c) PROVE ReloadIsFresh'
  BY <1>5 DEF TypeOK, ClientInv, ReloadIsFresh, Status, Pong, Reachable
<1>6. ASSUME NEW c \in Clients, IsPending(c) \/ SpawnFirst(c) \/ SpawnAgain(c) \/
            Ask(c) \/ SeesItStopped(c) \/ GivesUp(c)
      PROVE  ReloadIsFresh'
  BY <1>6 DEF ReloadIsFresh, IsPending, SpawnFirst, SpawnAgain, Ask, SeesItStopped,
     GivesUp
<1>7. CASE UNCHANGED vars
  BY <1>7 DEF ReloadIsFresh, vars, clientVars
<1> QED
  BY <1>1, <1>2, <1>3, <1>4, <1>5, <1>6, <1>7
     DEF Next, Starting, Opening, Serving, Stopping, Client

-----------------------------------------------------------------------------
(* The invariant, and what follows from it.                                *)

LEMMA InvInit == Init => IInv
<1> SUFFICES ASSUME Init PROVE IInv
  OBVIOUS
<1>1. TypeOK
  BY TypeInit
<1>2. StartInv
  BY LifecycleAssumption DEF Init, StartInv
<1>3. CallInv /\ CauseInv /\ LatchInv
  BY DEF Init, Threads, CallInv, CauseInv, LatchInv, OneTeardown, TearsDown
<1>4. SocketInv /\ ClientInv /\ ReloadIsFresh
  BY DEF Init, SocketInv, ClientInv, ReloadIsFresh
<1> QED
  BY <1>1, <1>2, <1>3, <1>4 DEF IInv

LEMMA TypeStep ==
  ASSUME IInv, [Next]_vars
  PROVE  TypeOK'
<1> USE DEF IInv
<1>1. CASE UNCHANGED vars
  BY <1>1 DEF TypeOK, vars, fileVars, openVars, daemonVars, clientVars
<1>2. CASE Next
  BY <1>2, TypeDaemon, TypeStopping, TypeClient DEF Next
<1> QED
  BY <1>1, <1>2

LEMMA InvStep == IInv /\ [Next]_vars => IInv'
<1> SUFFICES ASSUME IInv, [Next]_vars PROVE IInv'
  OBVIOUS
<1>1. TypeOK'
  BY TypeStep
<1> QED
  BY <1>1, StartStep, CallStep, CauseStep, LatchStep, SocketStep, ClientStep, ReloadStep DEF IInv

\* The invariant, of every behaviour: how daemons of a name come and go.
THEOREM Invariant == Spec => []IInv
BY InvInit, InvStep, PTL DEF Spec

\* Every variable keeps its type; in particular nobody is noticed dead before the
\* browser has settled.
THEOREM LifecycleTypes == Spec => []TypeOK
<1>1. IInv => TypeOK
  BY DEF IInv
<1> QED
  BY Invariant, <1>1, PTL

\* Of all the threads that call stop() on a daemon, one tears it down.
THEOREM TornDownOnce == Spec => []OneTeardown
<1>1. IInv => OneTeardown
  BY DEF IInv, LatchInv
<1> QED
  BY Invariant, <1>1, PTL

\* However the answer to the prompt and a call of stop() interleave, the browser's
\* one websocket is given back.
THEOREM Released == Spec => []ReleasedWhenGone
<1>1. IInv => ReleasedWhenGone
  BY DEF IInv, SocketInv, ReleasedWhenGone
<1> QED
  BY Invariant, <1>1, PTL

\* A reload never ends with the daemon that it stopped.
THEOREM FreshAfterReload == Spec => []ReloadIsFresh
<1>1. IInv => ReloadIsFresh
  BY DEF IInv
<1> QED
  BY Invariant, <1>1, PTL

\* No daemon latches its stop while the consent prompt is pending, unless a client
\* has named it.
THEOREM Warranted == Spec => StopIsWarranted
<1> DEFINE Cause(d) == \/ \E c \in Clients : named[c] = d
                       \/ d \in settled /\ d \in error \cup closed
<1>1. ASSUME IInv, [Next]_vars, NEW d \in stop' \ stop
      PROVE  Cause(d)
  <2>1. PICK e \in Daemons, t \in Threads : Latch(e, t)
    BY <1>1 DEF Next, Starting, Unlink, Bind, BindFails, Stat, Opening, Attach, Discover,
       Settle, Handshake, Lose, ReaderEnds, Serving, Notice, Expire, LeaveLoop, Exit,
       Stopping, CloseServer, CloseConnection, Compare, Cleanup, Client, Begin, IsReady,
       IsPending, SpawnFirst, SpawnAgain, Status, Ask, SeesItStopped, GivesUp,
       vars, daemonVars
  <2>2. e = d /\ teardown[d][t] = "latch"
    BY <1>1, <2>1 DEF Latch, Steps
  <2> QED
    BY <1>1, <2>1, <2>2 DEF IInv, CauseInv, Threads
<1>2. IInv /\ [Next]_vars => [\A d \in stop' \ stop : Cause(d)]_vars
  BY <1>1
<1> QED
  BY Invariant, <1>2, PTL DEF Spec, StopIsWarranted
=============================================================================
