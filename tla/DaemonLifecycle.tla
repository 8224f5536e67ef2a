-------------------------- MODULE DaemonLifecycle --------------------------
(***************************************************************************)
(* How daemons of one name come and go: harness/connect/daemon.py (start,  *)
(* the opening of the browser, the serving loop, stop), harness/core/      *)
(* ipc.py (bind, ping, the identity of the endpoint, cleanup) and the      *)
(* client processes of harness/connect/client.py that spawn, stop and      *)
(* reload them.  The POSIX side: the endpoint is a socket file.            *)
(*                                                                         *)
(* A daemon is a process with a main thread, the thread that opens the     *)
(* browser, a reader, and a pool thread per shutdown request.  A client is *)
(* one run of a command.  Every daemon binds once, so the inode of its     *)
(* socket is named by the daemon itself (inode numbers are not reused).    *)
(***************************************************************************)
EXTENDS Naturals

CONSTANTS
  Daemons,    \* daemon processes that may ever be spawned (a bound)
  Clients,    \* client commands, each run once
  Commands,   \* what they run
  None

ASSUME LifecycleAssumption ==
  /\ None \notin Daemons /\ None \notin Clients
  /\ Commands \subseteq {"ensure", "stop", "reload"}

VARIABLES
  file,       \* whose socket is published under the name
  main,       \* daemon -> where its main thread is
  listening,  \* daemons whose server socket is open
  identity,   \* _endpoint_identity: what stat() found after bind()
  stop,       \* daemons with _stop set
  noticed,    \* daemons with _died_at set
  opener,     \* where _open_browser is
  settled,    \* daemons with _settled set
  error,      \* daemons with a _connect_error
  websocket,  \* "none", "open", "lost" (ended by the browser) or "closed" (by us)
  attached,   \* daemons whose Connection has its transport
  closed,     \* daemons whose Connection is closed
  teardown,   \* daemon -> thread -> where it is in stop()
  cpc, cmd,   \* clients: where they are, and their command
  spawns, sinceGone,  \* ensure_daemon's two locals
  named,      \* the instance a stop names
  got         \* the instance the client was given in the end

fileVars   == <<file, listening, identity>>
openVars   == <<opener, settled, error, websocket, attached, closed>>
daemonVars == <<main, stop, noticed, teardown>>
clientVars == <<cpc, cmd, spawns, sinceGone, named, got>>
vars == <<fileVars, openVars, daemonVars, clientVars>>

\* The threads that may call stop(): the main one, and the one that answers a client.
Threads  == {None} \cup Clients
Finished == {"ready", "stopped", "failed"}

TypeOK ==
  /\ file      \in Daemons \cup {None}
  /\ main      \in [Daemons -> {"unborn", "unlink", "bind", "stat", "serve", "stopping", "exited"}]
  /\ listening \subseteq Daemons
  /\ identity  \in [Daemons -> Daemons \cup {None}]
  /\ stop      \subseteq Daemons
  /\ noticed   \subseteq settled      \* nobody dies while the browser is opening
  /\ opener    \in [Daemons -> {"off", "handshake", "attach", "discover", "settle", "done"}]
  /\ settled   \subseteq Daemons
  /\ error     \subseteq Daemons
  /\ websocket \in [Daemons -> {"none", "open", "lost", "closed"}]
  /\ attached  \subseteq {d \in Daemons : websocket[d] # "none"}
  /\ closed    \subseteq Daemons
  /\ teardown  \in [Daemons -> [Threads -> {"out", "latch", "server", "conn", "compare", "unlink"}]]
  /\ cpc       \in [Clients -> {"idle", "first", "loop", "status", "ask", "poll"} \cup Finished]
  /\ cmd       \in [Clients -> Commands \cup {"none"}]
  /\ spawns    \in [Clients -> 0..2]
  /\ sinceGone \subseteq Clients
  /\ named     \in [Clients -> Daemons \cup {None}]
  /\ got       \in [Clients -> Daemons \cup {None}]

Init ==
  /\ file = None
  /\ main      \in [Daemons -> {"unborn", "unlink"}]   \* some were spawned before
  /\ listening = {}
  /\ identity  = [d \in Daemons |-> None]
  /\ stop = {} /\ noticed = {}
  /\ opener    = [d \in Daemons |-> "off"]
  /\ settled = {} /\ error = {} /\ attached = {} /\ closed = {}
  /\ websocket = [d \in Daemons |-> "none"]
  /\ teardown  = [d \in Daemons |-> [t \in Threads |-> "out"]]
  /\ cpc       = [c \in Clients |-> "idle"]
  /\ cmd       = [c \in Clients |-> "none"]
  /\ spawns    = [c \in Clients |-> 0]
  /\ sinceGone = {}
  /\ named     = [c \in Clients |-> None]
  /\ got       = [c \in Clients |-> None]

-----------------------------------------------------------------------------
(* start(): ipc.bind() unlinks whatever has the name, then binds; then the *)
(* daemon looks up the identity of what is published.                      *)

Unlink(d) ==
  /\ main[d] = "unlink"
  /\ file' = None
  /\ main' = [main EXCEPT ![d] = "bind"]
  /\ UNCHANGED <<listening, identity, openVars, stop, noticed, teardown, clientVars>>

Bind(d) ==
  /\ main[d] = "bind" /\ file = None
  /\ file' = d
  /\ listening' = listening \cup {d}
  /\ main' = [main EXCEPT ![d] = "stat"]
  /\ UNCHANGED <<identity, openVars, stop, noticed, teardown, clientVars>>

\* Another daemon was faster: EADDRINUSE ends the process.
BindFails(d) ==
  /\ main[d] = "bind" /\ file # None
  /\ main' = [main EXCEPT ![d] = "exited"]
  /\ UNCHANGED <<fileVars, openVars, stop, noticed, teardown, clientVars>>

\* By now the path may be gone, or another daemon's.
Stat(d) ==
  /\ main[d] = "stat"
  /\ identity' = [identity EXCEPT ![d] = file]
  /\ main'     = [main EXCEPT ![d] = "serve"]
  /\ opener'   = [opener EXCEPT ![d] = "handshake"]
  /\ UNCHANGED <<file, listening, settled, error, websocket, attached, closed,
                 stop, noticed, teardown, clientVars>>

-----------------------------------------------------------------------------
(* _open_browser()                                                         *)

\* The browser's consent prompt is answered, or refused; nobody knows when.
Handshake(d) ==
  /\ opener[d] = "handshake"
  /\ \/ /\ websocket' = [websocket EXCEPT ![d] = "open"]
        /\ opener'    = [opener EXCEPT ![d] = "attach"]
        /\ UNCHANGED error
     \/ /\ error'  = error \cup {d}
        /\ opener' = [opener EXCEPT ![d] = "settle"]
        /\ UNCHANGED websocket
  /\ UNCHANGED <<fileVars, settled, attached, closed, daemonVars, clientVars>>

Close(d) == IF websocket[d] = "none" THEN websocket ELSE [websocket EXCEPT ![d] = "closed"]

AttachAnyway(d) ==   \* mutant: stop() is not looked at
  /\ opener[d] = "attach"
  /\ attached' = attached \cup {d}
  /\ opener'   = [opener EXCEPT ![d] = "discover"]
  /\ UNCHANGED <<fileVars, settled, error, websocket, closed, daemonVars, clientVars>>

\* Under _stop_lock: a daemon that is stopping closes the transport at once.
Attach(d) ==
  /\ opener[d] = "attach"
  /\ IF d \in stop
     THEN /\ websocket' = Close(d)
          /\ opener' = [opener EXCEPT ![d] = "settle"]
          /\ UNCHANGED attached
     ELSE /\ attached' = attached \cup {d}
          /\ opener' = [opener EXCEPT ![d] = "discover"]
          /\ UNCHANGED websocket
  /\ UNCHANGED <<fileVars, settled, error, closed, daemonVars, clientVars>>

\* conn.start(), the subscriptions and sessions.discover(), a request: it fails on
\* a dead connection, or by itself.
Discover(d) ==
  /\ opener[d] = "discover"
  /\ \/ d \notin closed /\ UNCHANGED error
     \/ error' = error \cup {d}
  /\ opener' = [opener EXCEPT ![d] = "settle"]
  /\ UNCHANGED <<fileVars, settled, websocket, attached, closed, daemonVars, clientVars>>

Settle(d) ==
  /\ opener[d] = "settle"
  /\ settled' = settled \cup {d}
  /\ opener'  = [opener EXCEPT ![d] = "done"]
  /\ UNCHANGED <<fileVars, error, websocket, attached, closed, daemonVars, clientVars>>

\* The browser ends the websocket; the reader, once started, finds out.
Lose(d) ==
  /\ websocket[d] = "open"
  /\ websocket' = [websocket EXCEPT ![d] = "lost"]
  /\ UNCHANGED <<fileVars, opener, settled, error, attached, closed, daemonVars, clientVars>>

ReaderEnds(d) ==
  /\ opener[d] \in {"settle", "done"} /\ d \in attached
  /\ websocket[d] = "lost" /\ d \notin closed
  /\ closed' = closed \cup {d}
  /\ UNCHANGED <<fileVars, opener, settled, error, websocket, attached, daemonVars, clientVars>>

-----------------------------------------------------------------------------
(* serve_forever()                                                         *)

DeadOnError(d)   == d \in settled /\ d \in error    \* mutant: a closed connection is not

\* _browser_is_dead(): settled, and not coming back on this process.
BrowserIsDead(d) == d \in settled /\ d \in error \cup closed

\* _expired(): first it notes the time; after the linger window it is true.
Notice(d) ==
  /\ main[d] = "serve" /\ d \notin stop \cup noticed
  /\ BrowserIsDead(d)
  /\ noticed' = noticed \cup {d}
  /\ UNCHANGED <<fileVars, openVars, main, stop, teardown, clientVars>>

Expire(d) ==
  /\ main[d] = "serve" /\ d \notin stop
  /\ BrowserIsDead(d) /\ d \in noticed
  /\ main'     = [main EXCEPT ![d] = "stopping"]
  /\ teardown' = [teardown EXCEPT ![d][None] = "latch"]
  /\ UNCHANGED <<fileVars, openVars, stop, noticed, clientVars>>

\* The loop ends once somebody has called stop(); serve() calls it again.
LeaveLoop(d) ==
  /\ main[d] = "serve" /\ d \in stop
  /\ main'     = [main EXCEPT ![d] = "stopping"]
  /\ teardown' = [teardown EXCEPT ![d][None] = "latch"]
  /\ UNCHANGED <<fileVars, openVars, stop, noticed, clientVars>>

\* The process ends when its main thread and its pool threads have: the
\* browser thread and the reader go with it, and so does the websocket.
Exit(d) ==
  /\ main[d] = "stopping"
  /\ \A t \in Threads : teardown[d][t] = "out"
  /\ main'      = [main EXCEPT ![d] = "exited"]
  /\ opener'    = [opener EXCEPT ![d] = "done"]
  /\ websocket' = Close(d)
  /\ UNCHANGED <<fileVars, settled, error, attached, closed, stop, noticed, teardown, clientVars>>

-----------------------------------------------------------------------------
(* stop(), as thread t of daemon d runs it.                                *)

Steps(d, t, from, to) ==
  /\ teardown[d][t] = from
  /\ teardown' = [teardown EXCEPT ![d][t] = to]

\* Only one teardown is run.
Latch(d, t) ==
  /\ Steps(d, t, "latch", IF d \in stop THEN "out" ELSE "server")
  /\ stop' = stop \cup {d}
  /\ UNCHANGED <<fileVars, openVars, main, noticed, clientVars>>

CloseServer(d, t) ==
  /\ Steps(d, t, "server", "conn")
  /\ listening' = listening \ {d}
  /\ UNCHANGED <<file, identity, openVars, main, stop, noticed, clientVars>>

\* conn.close(): without a transport it only marks the connection closed.
CloseConnection(d, t) ==
  /\ Steps(d, t, "conn", "compare")
  /\ closed'    = closed \cup {d}
  /\ websocket' = IF d \in attached THEN Close(d) ELSE websocket
  /\ UNCHANGED <<fileVars, opener, settled, error, attached, main, stop, noticed, clientVars>>

\* Is what is published still what we published?  Two system calls apart ...
Compare(d, t) ==
  /\ Steps(d, t, "compare",
           IF identity[d] # None /\ file = identity[d] THEN "unlink" ELSE "out")
  /\ UNCHANGED <<fileVars, openVars, main, stop, noticed, clientVars>>

\* ... ipc.cleanup() unlinks it, by name.
Cleanup(d, t) ==
  /\ Steps(d, t, "unlink", "out")
  /\ file' = None
  /\ UNCHANGED <<listening, identity, openVars, main, stop, noticed, clientVars>>

-----------------------------------------------------------------------------
(* Clients.                                                                *)

\* The daemon that answers a request made now, if any does.
Reachable == {d \in Daemons : file = d /\ d \in listening /\ main[d] = "serve" /\ d \notin stop}

\* What a pong's `browser` says.
Live(d) == d \in settled /\ d \notin error \cup closed

\* ipc.ping() is answered.  It may always not be, within the second it waits.
Pong(d) == d \in Reachable

Begin(c) ==
  /\ cpc[c] = "idle"
  /\ \E o \in Commands :
       /\ cmd' = [cmd EXCEPT ![c] = o]
       /\ cpc' = [cpc EXCEPT ![c] = IF o = "ensure" THEN "first" ELSE "status"]
  /\ UNCHANGED <<fileVars, openVars, daemonVars, spawns, sinceGone, named, got>>

\* _spawn_daemon()
Spawn(c) ==
  /\ \E d \in Daemons : main[d] = "unborn" /\ main' = [main EXCEPT ![d] = "unlink"]
  /\ spawns'    = [spawns EXCEPT ![c] = @ + 1]
  /\ sinceGone' = sinceGone \cup {c}

\* ensure_daemon() ends as soon as a pong says that the browser is live ...
IsReady(c) ==
  /\ cpc[c] \in {"first", "loop"}
  /\ \E d \in Daemons : Pong(d) /\ Live(d) /\ got' = [got EXCEPT ![c] = d]
  /\ cpc' = [cpc EXCEPT ![c] = "ready"]
  /\ UNCHANGED <<fileVars, openVars, daemonVars, cmd, spawns, sinceGone, named>>

\* ... and waits while the daemon has no browser.
IsPending(c) ==
  /\ cpc[c] \in {"first", "loop"}
  /\ \E d \in Daemons : Pong(d) /\ ~Live(d)
  /\ sinceGone' = IF cpc[c] = "loop" THEN sinceGone \ {c} ELSE sinceGone
  /\ cpc' = [cpc EXCEPT ![c] = "loop"]
  /\ UNCHANGED <<fileVars, openVars, daemonVars, cmd, spawns, named, got>>

\* The first ping is not answered: a daemon is spawned.
SpawnFirst(c) ==
  /\ cpc[c] = "first"
  /\ Spawn(c)
  /\ cpc' = [cpc EXCEPT ![c] = "loop"]
  /\ UNCHANGED <<fileVars, openVars, stop, noticed, teardown, cmd, named, got>>

\* A daemon that had answered does not any more: one replacement.
SpawnAgain(c) ==
  /\ cpc[c] = "loop"
  /\ spawns[c] < 2 /\ c \notin sinceGone
  /\ Spawn(c)
  /\ UNCHANGED <<fileVars, openVars, stop, noticed, teardown, cpc, cmd, named, got>>

\* stop_daemon(): whoever answers is named; a file without a daemon is left alone.
Status(c) ==
  /\ cpc[c] = "status"
  /\ \/ \E d \in Daemons : Pong(d) /\ named' = [named EXCEPT ![c] = d]
                           /\ cpc' = [cpc EXCEPT ![c] = "ask"]
     \/ /\ cpc' = [cpc EXCEPT ![c] = IF file # None THEN "failed"
                                     ELSE IF cmd[c] = "reload" THEN "first" ELSE "stopped"]
        /\ UNCHANGED named
  /\ UNCHANGED <<fileVars, openVars, daemonVars, cmd, spawns, sinceGone, got>>

AskAnybody(c) ==   \* mutant: the daemon does not compare the instance
  /\ cpc[c] = "ask"
  /\ \E d \in Reachable :
       /\ teardown' = [teardown EXCEPT ![d][c] = "latch"]
       /\ cpc' \in {[cpc EXCEPT ![c] = "poll"], [cpc EXCEPT ![c] = "failed"]}
  /\ UNCHANGED <<fileVars, openVars, main, stop, noticed, cmd, spawns, sinceGone, named, got>>

\* The shutdown request reaches whoever has the name now; only the daemon it
\* names obeys, and calls stop() whether or not the answer arrives.
Ask(c) ==
  /\ cpc[c] = "ask"
  /\ \E d \in Reachable :
       /\ d = named[c]
       /\ teardown' = [teardown EXCEPT ![d][c] = "latch"]
       /\ cpc' \in {[cpc EXCEPT ![c] = "poll"], [cpc EXCEPT ![c] = "failed"]}
  /\ UNCHANGED <<fileVars, openVars, main, stop, noticed, cmd, spawns, sinceGone, named, got>>

GoesOnAtOnce(c) ==   \* mutant: the acknowledgement is enough
  /\ cpc[c] = "poll"
  /\ cpc' = [cpc EXCEPT ![c] = IF cmd[c] = "reload" THEN "first" ELSE "stopped"]
  /\ UNCHANGED <<fileVars, openVars, daemonVars, cmd, spawns, sinceGone, named, got>>

\* The endpoint is gone: it is stopped.  reload_daemon() then ensures a new one.
SeesItStopped(c) ==
  /\ cpc[c] = "poll" /\ file = None
  /\ cpc' = [cpc EXCEPT ![c] = IF cmd[c] = "reload" THEN "first" ELSE "stopped"]
  /\ UNCHANGED <<fileVars, openVars, daemonVars, cmd, spawns, sinceGone, named, got>>

\* Refused, replaced, unreachable, or out of time.
GivesUp(c) ==
  /\ \/ cpc[c] = "loop"
     \/ cpc[c] = "ask" /\ named[c] \notin Reachable
     \/ cpc[c] = "poll"
  /\ cpc' = [cpc EXCEPT ![c] = "failed"]
  /\ UNCHANGED <<fileVars, openVars, daemonVars, cmd, spawns, sinceGone, named, got>>

-----------------------------------------------------------------------------
Serving(d)  == Notice(d) \/ Expire(d) \/ LeaveLoop(d) \/ Exit(d)
Starting(d) == Unlink(d) \/ Bind(d) \/ BindFails(d) \/ Stat(d)
Opening(d)  == Attach(d) \/ Discover(d) \/ Settle(d)
Stopping(d, t) ==
  Latch(d, t) \/ CloseServer(d, t) \/ CloseConnection(d, t) \/ Compare(d, t) \/ Cleanup(d, t)
Client(c) ==
  \/ Begin(c) \/ IsReady(c) \/ IsPending(c) \/ SpawnFirst(c) \/ SpawnAgain(c)
  \/ Status(c) \/ Ask(c) \/ SeesItStopped(c) \/ GivesUp(c)

Next ==
  \/ \E d \in Daemons :
       \/ Starting(d) \/ Opening(d) \/ Handshake(d) \/ Lose(d) \/ ReaderEnds(d) \/ Serving(d)
       \/ \E t \in Threads : Stopping(d, t)
  \/ \E c \in Clients : Client(c)

Spec == Init /\ [][Next]_vars

\* The threads of a daemon run; the browser and the clients may take for ever.
FairSpec ==
  /\ Spec
  /\ \A d \in Daemons :
       /\ WF_vars(Serving(d)) /\ WF_vars(Opening(d))
       /\ \A t \in Threads : WF_vars(Stopping(d, t))

-----------------------------------------------------------------------------
(* Properties.                                                             *)

TearsDown(d, t) == teardown[d][t] \notin {"out", "latch"}

\* Two calls of stop(), by the expiring main thread and by requests, never tear
\* the same daemon down together.
OneTeardown ==
  \A d \in Daemons, s, t \in Threads :
    TearsDown(d, s) /\ TearsDown(d, t) => s = t

\* A daemon that has been torn down while its browser was still opening does not
\* keep the one websocket that the browser grants.
ReleasedWhenGone ==
  \A d \in Daemons :
    /\ d \in stop /\ opener[d] = "done"
    /\ \A t \in Threads : teardown[d][t] \notin {"server", "conn"}
    => websocket[d] # "open"

\* A daemon stops only because a client has asked this very instance to, or
\* because its handshake is over and the browser is gone: never during the prompt.
StopIsWarranted ==
  [][\A d \in stop' \ stop :
       \/ \E c \in Clients : named[c] = d
       \/ d \in settled /\ d \in error \cup closed]_vars

\* After a reload the client is served by another daemon than the one it stopped.
ReloadIsFresh ==
  \A c \in Clients : cmd[c] = "reload" /\ got[c] # None => got[c] # named[c]

\* A daemon that has lost its browser, or never got one, does not answer under the
\* name for ever: it leaves.
DeadLeaves ==
  \A d \in Daemons :
    d \in settled /\ d \in error \cup closed ~> main[d] = "exited"

-----------------------------------------------------------------------------
(* What the source says and the code does not do.                          *)

\* tests/unit/test_daemon.py:546 "old daemon does not unlink a replacement endpoint"
ReplacementStays ==
  [][\A d \in Daemons, t \in Threads : Cleanup(d, t) => file \in {d, None}]_vars
=============================================================================
