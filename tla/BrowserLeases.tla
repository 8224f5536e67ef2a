--------------------------- MODULE BrowserLeases ---------------------------
(***************************************************************************)
(* harness/core/resources.py, BrowserLease: the machine-wide registry of   *)
(* scratch Chromes, the processes that launch them (tests/live/_browser.py *)
(* is the caller), and one watchdog process per lease.  Each section under *)
(* the registry's file lock is one step.  A launcher may crash between any *)
(* two of its steps.                                                       *)
(***************************************************************************)
EXTENDS Naturals, FiniteSets

CONSTANTS
  Procs,       \* launching processes
  Profiles,    \* user-data directories
  None,
  Limit,       \* the machine budget
  MaxLeases,   \* bound: leases ever minted
  TornWrites   \* whether a process may die while it rewrites the registry

ASSUME LeaseAssumption ==
  /\ Limit \in Nat \ {0} /\ MaxLeases \in Nat
  /\ TornWrites \in BOOLEAN
  /\ None \notin Procs /\ None \notin Profiles

VARIABLES
  entries,   \* browser-instances.json
  lastId,    \* leases minted
  owner,     \* lease -> the process that minted it
  profile,   \* lease -> its profile
  alive,     \* processes that run
  pc, held,  \* per process: where it is in launch() or kill(), and its lease
  dog,       \* per lease: where its watchdog is
  chrome     \* profile -> the lease whose launch started the Chrome on it

vars == <<entries, lastId, owner, profile, alive, pc, held, dog, chrome>>

Ids   == 1..MaxLeases
Entry == [id : Ids, pid : Procs, profile : Profiles]

TypeOK ==
  /\ entries \subseteq Entry
  /\ lastId  \in 0..MaxLeases
  /\ owner   \in [Ids -> Procs \cup {None}]
  /\ profile \in [Ids -> Profiles \cup {None}]
  /\ alive   \subseteq Procs
  /\ pc      \in [Procs -> {"idle", "reserved", "watched", "launched", "running", "killed"}]
  /\ held    \in [Procs -> 0..MaxLeases]
  /\ dog     \in [Ids -> {"none", "look", "claim", "kill", "gone"}]
  /\ chrome  \in [Profiles -> 0..MaxLeases]

Init ==
  /\ entries = {}
  /\ lastId  = 0
  /\ owner   = [i \in Ids |-> None]
  /\ profile = [i \in Ids |-> None]
  /\ alive   = Procs
  /\ pc      = [p \in Procs |-> "idle"]
  /\ held    = [p \in Procs |-> 0]
  /\ dog     = [i \in Ids |-> "none"]
  /\ chrome  = [f \in Profiles |-> 0]

-----------------------------------------------------------------------------
PruneOthers(es) == {}   \* mutant: the file is rewritten from scratch

\* _locked_state(): entries of processes that have died are left out.
Prune(es) == {e \in es : e.pid \in alive}

Owned(f) == \E e \in Prune(entries) : e.profile = f

Full == Cardinality(Prune(entries)) >= Limit

NewEntry(i, p, f) == [id |-> i, pid |-> p, profile |-> f]

Acquire(p, f) ==
  /\ p \in alive /\ pc[p] = "idle" /\ lastId < MaxLeases
  /\ ~Owned(f) /\ ~Full
  /\ lastId'  = lastId + 1
  /\ entries' = Prune(entries) \cup {NewEntry(lastId', p, f)}
  /\ owner'   = [owner EXCEPT ![lastId'] = p]
  /\ profile' = [profile EXCEPT ![lastId'] = f]
  /\ held'    = [held EXCEPT ![p] = lastId']
  /\ pc'      = [pc EXCEPT ![p] = "reserved"]
  /\ UNCHANGED <<alive, dog, chrome>>

\* ResourceLimit; and active(), which only reads: both write the pruned list.
Rewrite(p) ==
  /\ p \in alive
  /\ entries' = Prune(entries)
  /\ UNCHANGED <<lastId, owner, profile, alive, pc, held, dog, chrome>>

StartWatchdog(p) ==
  /\ p \in alive /\ pc[p] = "reserved"
  /\ dog' = [dog EXCEPT ![held[p]] = "look"]
  /\ pc'  = [pc EXCEPT ![p] = "watched"]
  /\ UNCHANGED <<entries, lastId, owner, profile, alive, held, chrome>>

\* Chrome starts; on a profile that is in use the running one takes over.
Launch(p) ==
  /\ p \in alive /\ pc[p] = "watched"
  /\ chrome' = [chrome EXCEPT ![profile[held[p]]] = IF @ = 0 THEN held[p] ELSE @]
  /\ pc'     = [pc EXCEPT ![p] = "launched"]
  /\ UNCHANGED <<entries, lastId, owner, profile, alive, held, dog>>

\* DevToolsActivePort is there: launch() returns.
PortReady(p) ==
  /\ p \in alive /\ pc[p] = "launched"
  /\ pc' = [pc EXCEPT ![p] = "running"]
  /\ UNCHANGED <<entries, lastId, owner, profile, alive, held, dog, chrome>>

\* kill() stops the Chrome on the profile ...
Kill(p) ==
  /\ p \in alive /\ pc[p] = "running"
  /\ chrome' = [chrome EXCEPT ![profile[held[p]]] = 0]
  /\ pc'     = [pc EXCEPT ![p] = "killed"]
  /\ UNCHANGED <<entries, lastId, owner, profile, alive, held, dog>>

\* ... and then releases the lease; so does a launch() that fails, whether or
\* not Chrome has started.
Release(p) ==
  /\ p \in alive /\ pc[p] \in {"watched", "launched", "killed"}
  /\ entries' = {e \in Prune(entries) : e.id # held[p]}
  /\ held'    = [held EXCEPT ![p] = 0]
  /\ pc'      = [pc EXCEPT ![p] = "idle"]
  /\ UNCHANGED <<lastId, owner, profile, alive, dog, chrome>>

Crash(p) ==
  /\ p \in alive
  /\ alive' = alive \ {p}
  /\ UNCHANGED <<entries, lastId, owner, profile, pc, held, dog, chrome>>

\* write_text() truncates the file before it fills it: a process that dies in
\* between leaves text that does not parse, which the next reader takes for [].
CrashWriting(p) ==
  /\ TornWrites /\ p \in alive
  /\ alive'   = alive \ {p}
  /\ entries' = {}
  /\ UNCHANGED <<lastId, owner, profile, pc, held, dog, chrome>>

-----------------------------------------------------------------------------
(* _watch(i) and _claim_dead_lease(i): these sections do not prune.        *)

Listed(i) == \E e \in entries : e.id = i

DogAt(i, where) == dog' = [dog EXCEPT ![i] = where]

OwnerAlive(i) == owner[i] \in alive

\* The entry is gone: nothing to watch.  A living owner: look again later.
Look(i) ==
  /\ dog[i] = "look"
  /\ \/ ~Listed(i) /\ DogAt(i, "gone")
     \/ Listed(i) /\ ~OwnerAlive(i) /\ DogAt(i, "claim")
  /\ UNCHANGED <<entries, lastId, owner, profile, alive, pc, held, chrome>>

Claimable(i) == Listed(i) /\ ~OwnerAlive(i)

Claim(i) ==
  /\ dog[i] = "claim"
  /\ \/ Claimable(i) /\ DogAt(i, "kill")
     \/ ~Claimable(i) /\ DogAt(i, "gone")
  /\ entries' = IF Claimable(i) THEN {e \in entries : e.id # i} ELSE entries
  /\ UNCHANGED <<lastId, owner, profile, alive, pc, held, chrome>>

\* kill_chrome_for_profile(), after the lock has been let go.
DogKills(i) ==
  /\ dog[i] = "kill"
  /\ chrome' = [chrome EXCEPT ![profile[i]] = 0]
  /\ DogAt(i, "gone")
  /\ UNCHANGED <<entries, lastId, owner, profile, alive, pc, held>>

Watchdog(i) == Look(i) \/ Claim(i) \/ DogKills(i)

Next ==
  \/ \E p \in Procs :
       \/ \E f \in Profiles : Acquire(p, f)
       \/ Rewrite(p) \/ StartWatchdog(p) \/ Launch(p) \/ PortReady(p) \/ Kill(p) \/ Release(p)
       \/ Crash(p) \/ CrashWriting(p)
  \/ \E i \in Ids : Watchdog(i)

Spec == Init /\ [][Next]_vars

\* A watchdog polls for ever; launchers promise nothing.
FairSpec == Spec /\ \A i \in Ids : WF_vars(Watchdog(i))

-----------------------------------------------------------------------------
\* The budget is the machine's, whoever acquires, crashes or is pruned.
WithinBudget == Cardinality(entries) <= Limit

\* Two leases never name the same profile.
ProfileOwnedOnce ==
  \A e, g \in entries : e.profile = g.profile => e = g

\* A process that lives keeps its slot until it releases it: no prune, no
\* watchdog and no other process takes the entry away, unless that process dies
\* while it rewrites the file.
LivingKeepTheirSlot ==
  [][\A e \in entries :
       e.pid \in alive' /\ e \notin entries' =>
         \/ Release(e.pid) /\ held[e.pid] = e.id
         \/ \E p \in Procs : CrashWriting(p)]_vars

-----------------------------------------------------------------------------
(* What the source says and the code does not do.                          *)

\* resources.py:204 "Kill this uniquely profiled Chrome if its launching process
\* crashes": a Chrome whose launcher dies with its lease, while the watchdog
\* watches, is stopped.
CrashedChromeIsKilled ==
  \A f \in Profiles, i \in Ids :
    chrome[f] = i /\ owner[i] \notin alive /\ Listed(i) /\ dog[i] = "look" ~> chrome[f] # i
=============================================================================
