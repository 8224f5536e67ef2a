------------------------------ MODULE Dashboard ------------------------------
(***************************************************************************)
(* dashboard/server.py: one STATE under one lock.  A request is checked    *)
(* against the phase under the lock, and the thread it starts takes the    *)
(* lock again to set the phase.                                            *)
(***************************************************************************)
EXTENDS Naturals, FiniteSets

CONSTANTS
  MaxParallel,  \* MAX_PARALLEL, the clients of a run
  Found,        \* jobs that a search finds at most
  MaxPosts,     \* searches and runs that are admitted (a bound)
  MaxResets     \* resets (a bound)

VARIABLES
  phase,    \* STATE["phase"]
  listed,   \* STATE["jobs"]
  status,   \* of every job there has been
  filled,   \* the fields filled in it
  thread,   \* the threads of do_search() and do_run(), in the order they were started
  list,     \* the jobs each run has copied
  filling,  \* the jobs each run has under way, in run_bh()
  ended,    \* those it is through with
  resets

dashVars == <<phase, listed, status, filled, thread, list, filling, ended, resets>>
jobVars == <<listed, status, filled>>
runVars == <<list, filling, ended>>

Posts == 1..MaxPosts
Jobs == Posts \X (1..Found)   \* each search makes new ones

TypeOK ==
  /\ phase \in {"idle", "searching", "ready", "running", "done"}
  /\ listed \subseteq Jobs
  /\ status \in [Jobs -> {"pending", "running", "done", "failed"}] /\ filled \in [Jobs -> BOOLEAN]
  /\ \A i \in Posts : ended[i] \cup filling[i] \subseteq list[i] /\ Cardinality(filling[i]) <= MaxParallel

Init ==
  /\ phase = "idle" /\ listed = {}
  /\ status = [j \in Jobs |-> "pending"] /\ filled = [j \in Jobs |-> FALSE]
  /\ thread = [i \in Posts |-> "none"]
  /\ list = [i \in Posts |-> {}] /\ filling = [i \in Posts |-> {}] /\ ended = [i \in Posts |-> {}]
  /\ resets = 0

\* POST /api/search, POST /api/run
Admit(i, what) ==
  /\ thread[i] = "none" /\ \A k \in 1..(i - 1) : thread[k] # "none"
  /\ thread' = [thread EXCEPT ![i] = what]
  /\ UNCHANGED <<phase, jobVars, runVars, resets>>
PostSearch(i) == phase \notin {"searching", "running"} /\ Admit(i, "search")
PostRun(i) == phase # "running" /\ listed # {} /\ Admit(i, "run")

\* POST /api/reset looks at no phase.
Reset ==
  /\ resets < MaxResets /\ resets' = resets + 1
  /\ status' = [j \in Jobs |-> IF j \in listed THEN "pending" ELSE status[j]]
  /\ filled' = [j \in Jobs |-> filled[j] /\ j \notin listed]
  /\ phase' = "ready"
  /\ UNCHANGED <<listed, thread, runVars>>

-----------------------------------------------------------------------------
(* do_search(): whatever happens in the browser, the phase moves on.       *)

Search(i) ==
  /\ thread[i] = "search" /\ thread' = [thread EXCEPT ![i] = "browse"]
  /\ phase' = "searching" /\ listed' = {}
  /\ UNCHANGED <<status, filled, runVars, resets>>
Browsed(i) ==
  /\ thread[i] = "browse" /\ thread' = [thread EXCEPT ![i] = "over"]
  /\ \/ \E n \in 0..Found :
          /\ listed' = {i} \X (1..n)
          /\ phase' = IF n = 0 THEN "idle" ELSE "ready"
     \/ phase' = "idle" /\ UNCHANGED listed
  /\ UNCHANGED <<status, filled, runVars, resets>>

-----------------------------------------------------------------------------
(* do_run()                                                                *)

Run(i) ==
  /\ thread[i] = "run" /\ thread' = [thread EXCEPT ![i] = "launch"]
  /\ phase' = "running" /\ list' = [list EXCEPT ![i] = listed]
  /\ UNCHANGED <<jobVars, filling, ended, resets>>

\* ensure_chrome(): the browser cannot be started, and the error ends the thread.
Launch(i) ==
  /\ thread[i] = "launch"
  /\ \E next \in {"pool", "died"} : thread' = [thread EXCEPT ![i] = next]
  /\ UNCHANGED <<phase, jobVars, runVars, resets>>

\* fill_one(), on a thread of the pool
Fill(i) ==
  /\ thread[i] = "pool" /\ Cardinality(filling[i]) < MaxParallel
  /\ \E j \in list[i] \ (filling[i] \cup ended[i]) :
       /\ \A k \in list[i] \ (filling[i] \cup ended[i]) : j[2] <= k[2]
       /\ filling' = [filling EXCEPT ![i] = @ \cup {j}]
       /\ status' = [status EXCEPT ![j] = "running"]
  /\ UNCHANGED <<phase, listed, filled, thread, list, ended, resets>>

Settled(i, j) ==
  /\ filling' = [filling EXCEPT ![i] = @ \ {j}] /\ ended' = [ended EXCEPT ![i] = @ \cup {j}]
  /\ UNCHANGED <<phase, listed, list, resets>>

\* It ends with a result, or with an error, which is the job's.
FilledNoting(i) ==         \* mutant: an error is noted and the status left
  \E j \in filling[i] :
    /\ Settled(i, j) /\ UNCHANGED thread
    /\ \/ \E ok \in BOOLEAN : filled' = [filled EXCEPT ![j] = ok]
                              /\ status' = [status EXCEPT ![j] = IF ok THEN "done" ELSE "failed"]
       \/ UNCHANGED <<status, filled>>
FilledRaising(i) ==        \* mutant: an error is the run's
  \E j \in filling[i] :
    /\ Settled(i, j) /\ thread' \in {thread, [thread EXCEPT ![i] = "raised"]}
    /\ status' = [status EXCEPT ![j] = "failed"] /\ UNCHANGED filled
Filled(i) ==
  \E j \in filling[i] :
    /\ Settled(i, j) /\ UNCHANGED thread
    /\ \/ \E ok \in BOOLEAN : filled' = [filled EXCEPT ![j] = ok]
                              /\ status' = [status EXCEPT ![j] = IF ok THEN "done" ELSE "failed"]
       \/ status' = [status EXCEPT ![j] = "failed"] /\ UNCHANGED filled

RunOver(i) ==
  /\ thread[i] = "pool" /\ ended[i] = list[i] /\ thread' = [thread EXCEPT ![i] = "over"]
  /\ phase' = "done"
  /\ UNCHANGED <<jobVars, runVars, resets>>

Works(i) == Search(i) \/ Browsed(i) \/ Run(i) \/ Launch(i) \/ Fill(i) \/ Filled(i) \/ RunOver(i)
Next == Reset \/ \E i \in Posts : PostSearch(i) \/ PostRun(i) \/ Works(i)

\* The threads run, and run_bh() has a timeout; nobody need post anything.
FairSpec == Init /\ [][Next]_dashVars /\ \A i \in Posts : WF_dashVars(Works(i))

-----------------------------------------------------------------------------
(* Properties.                                                             *)

\* A job shown amber is being filled by somebody, however often it has been reset or run.
AmberIsLive == \A j \in Jobs : status[j] = "running" => \E i \in Posts : j \in filling[i]

\* The phase does not stay at "running" or "searching", where every search is refused, if the
\* browser can be started.
PhaseMovesOn == phase \in {"searching", "running"} ~>
                  phase \notin {"searching", "running"} \/ \E i \in Posts : thread[i] = "died"

-----------------------------------------------------------------------------
(* What the source says and the code does not do.                          *)

\* MAX_PARALLEL: "Three runs at ten parallel clients leaked tabs and killed the browser. This is
\* a scar" (server.py:37).
AtMostParallel == Cardinality(UNION {{i} \X filling[i] : i \in Posts}) <= MaxParallel

\* The phase moves on whatever fails ("surfaced in the UI, never raised at a user", server.py:202).
PhaseAlwaysMovesOn == phase = "running" ~> phase # "running"
=============================================================================
