------------------------ MODULE BrowserLeasesProofs ------------------------
(***************************************************************************)
(* What is proved of BrowserLeases, for any number of processes, profiles  *)
(* and leases, any budget, with and without torn writes of the registry.   *)
(***************************************************************************)
EXTENDS BrowserLeases, FiniteSetTheorems, TLAPS

\* An entry is the lease of the process it names, on the profile it was minted for.
EntriesAreLeases ==
  \A e \in entries : e.id <= lastId /\ owner[e.id] = e.pid /\ profile[e.id] = e.profile

\* A process between launch() and the release holds a lease, and holds its own.
HeldIsOwn ==
  \A p \in Procs :
    /\ held[p] # 0 => held[p] <= lastId /\ owner[held[p]] = p
    /\ pc[p] # "idle" => held[p] # 0

\* A watchdog watches a lease that was minted.
WatchedIsMinted == \A i \in Ids : dog[i] # "none" => profile[i] \in Profiles

\* A lease that was minted has a profile.
MintedHasProfile == \A i \in Ids : i <= lastId => profile[i] \in Profiles

\* The inductive invariant.
IInv ==
  /\ TypeOK
  /\ IsFiniteSet(entries)
  /\ EntriesAreLeases /\ HeldIsOwn /\ MintedHasProfile /\ WatchedIsMinted
  /\ WithinBudget /\ ProfileOwnedOnce

-----------------------------------------------------------------------------
(* Sets of entries.                                                        *)

\* A part of the registry is a registry that keeps what the whole one keeps.
LEMMA FewerEntries ==
  ASSUME LeaseAssumption, IsFiniteSet(entries), WithinBudget, NEW S, S \subseteq entries
  PROVE  IsFiniteSet(S) /\ Cardinality(S) \in Nat /\ Cardinality(S) <= Limit
BY FS_Subset, FS_CardinalityType DEF WithinBudget, LeaseAssumption

\* One more entry, where there was room, stays within the budget.
LEMMA OneMore ==
  ASSUME LeaseAssumption, NEW S, IsFiniteSet(S), ~(Cardinality(S) >= Limit), NEW e
  PROVE  IsFiniteSet(S \cup {e}) /\ Cardinality(S \cup {e}) <= Limit
<1>1. Cardinality(S) \in Nat
  BY FS_CardinalityType
<1>2. /\ IsFiniteSet(S \cup {e})
      /\ Cardinality(S \cup {e}) \in {Cardinality(S), Cardinality(S) + 1}
  <2>1. CASE e \in S
    <3>1. S \cup {e} = S  BY <2>1
    <3> QED  BY <3>1
  <2>2. CASE e \notin S
    BY <2>2, FS_AddElement
  <2> QED  BY <2>1, <2>2
<1> QED
  BY <1>1, <1>2 DEF LeaseAssumption

-----------------------------------------------------------------------------
(* The steps.                                                              *)

\* What a step that takes entries away and mints no lease keeps.
LEMMA Shrinks ==
  ASSUME LeaseAssumption, IInv, entries' \subseteq entries, UNCHANGED <<lastId, owner, profile>>
  PROVE  /\ entries' \subseteq Entry /\ IsFiniteSet(entries)'
         /\ EntriesAreLeases' /\ MintedHasProfile' /\ WithinBudget' /\ ProfileOwnedOnce'
<1>1. IsFiniteSet(entries') /\ Cardinality(entries') <= Limit
  BY FewerEntries DEF IInv
<1>2. entries' \subseteq Entry /\ EntriesAreLeases' /\ MintedHasProfile'
  BY DEF IInv, TypeOK, EntriesAreLeases, MintedHasProfile
<1>3. ProfileOwnedOnce'
  BY DEF IInv, ProfileOwnedOnce
<1> QED
  BY <1>1, <1>2, <1>3 DEF WithinBudget

LEMMA InitIInv ==
  ASSUME LeaseAssumption, Init
  PROVE  IInv
<1>1. TypeOK
  BY DEF Init, TypeOK, LeaseAssumption
<1>2. IsFiniteSet(entries) /\ WithinBudget
  BY FS_EmptySet DEF Init, WithinBudget, LeaseAssumption
<1>3. EntriesAreLeases /\ HeldIsOwn /\ WatchedIsMinted /\ ProfileOwnedOnce
  BY DEF Init, EntriesAreLeases, HeldIsOwn, WatchedIsMinted, ProfileOwnedOnce
<1>4. MintedHasProfile
  BY DEF Init, MintedHasProfile, Ids
<1> QED
  BY <1>1, <1>2, <1>3, <1>4 DEF IInv

\* A lease is minted for a profile nobody owns, where the budget has room.
LEMMA AcquireStep ==
  ASSUME LeaseAssumption, IInv, NEW p \in Procs, NEW f \in Profiles, Acquire(p, f)
  PROVE  IInv'
<1> DEFINE i == lastId + 1
           e == NewEntry(i, p, f)
<1>0. lastId \in 0..MaxLeases /\ lastId < MaxLeases /\ lastId' = i
  BY DEF Acquire, IInv, TypeOK
<1>1. i \in Ids /\ i \in 0..MaxLeases
  BY <1>0 DEF Ids, LeaseAssumption
<1>2. e \in Entry /\ e.id = i /\ e.pid = p /\ e.profile = f
  BY <1>1 DEF NewEntry, Entry
<1>3. /\ entries' = Prune(entries) \cup {e} /\ Prune(entries) \subseteq entries
      /\ owner' = [owner EXCEPT ![i] = p] /\ profile' = [profile EXCEPT ![i] = f]
      /\ held' = [held EXCEPT ![p] = i] /\ pc' = [pc EXCEPT ![p] = "reserved"]
      /\ UNCHANGED <<alive, dog, chrome>>
  BY <1>0 DEF Acquire, Prune
<1> HIDE DEF e
<1>4. TypeOK'
  BY <1>0, <1>1, <1>2, <1>3 DEF IInv, TypeOK
<1>5. IsFiniteSet(entries)' /\ WithinBudget'
  <2>1. IsFiniteSet(Prune(entries))
    BY <1>3, FewerEntries DEF IInv
  <2>2. ~(Cardinality(Prune(entries)) >= Limit)
    BY DEF Acquire, Full
  <2> QED
    BY <2>1, <2>2, OneMore, <1>3 DEF WithinBudget
<1>6. EntriesAreLeases'
  <2> SUFFICES ASSUME NEW g \in entries'
               PROVE  g.id <= i /\ owner'[g.id] = g.pid /\ profile'[g.id] = g.profile
    BY <1>0 DEF EntriesAreLeases
  <2>1. CASE g = e
    BY <2>1, <1>1, <1>2, <1>3 DEF IInv, TypeOK
  <2>2. CASE g # e
    <3>1. g \in entries /\ g \in Entry /\ g.id \in Ids
      BY <2>2, <1>3 DEF IInv, TypeOK, Entry
    <3>2. g.id <= lastId /\ owner[g.id] = g.pid /\ profile[g.id] = g.profile
      BY <3>1 DEF IInv, EntriesAreLeases
    <3>3. g.id # i /\ g.id <= i
      BY <3>1, <3>2, <1>0 DEF Ids
    <3> QED
      BY <3>1, <3>2, <3>3, <1>3 DEF IInv, TypeOK
  <2> QED
    BY <2>1, <2>2
<1>7. HeldIsOwn'
  <2> SUFFICES ASSUME NEW q \in Procs
               PROVE  /\ held'[q] # 0 => held'[q] <= i /\ owner'[held'[q]] = q
                      /\ pc'[q] # "idle" => held'[q] # 0
    BY <1>0 DEF HeldIsOwn
  <2>1. CASE q = p
    BY <2>1, <1>0, <1>1, <1>3 DEF IInv, TypeOK
  <2>2. CASE q # p
    <3>1. held'[q] = held[q] /\ pc'[q] = pc[q] /\ held[q] \in 0..MaxLeases
      BY <2>2, <1>3 DEF IInv, TypeOK
    <3>2. /\ held[q] # 0 => held[q] <= lastId /\ owner[held[q]] = q
          /\ pc[q] # "idle" => held[q] # 0
      BY DEF IInv, HeldIsOwn
    <3>3. held[q] # 0 => held[q] # i /\ held[q] <= i /\ held[q] \in Ids
      BY <3>1, <3>2, <1>0 DEF Ids
    <3> QED
      BY <3>1, <3>2, <3>3, <1>3 DEF IInv, TypeOK
  <2> QED
    BY <2>1, <2>2
<1>8. MintedHasProfile'
  <2> SUFFICES ASSUME NEW j \in Ids, j <= i
               PROVE  profile'[j] \in Profiles
    BY <1>0 DEF MintedHasProfile
  <2>1. j # i => j <= lastId
    BY <1>0 DEF Ids
  <2> QED
    BY <2>1, <1>1, <1>3 DEF IInv, TypeOK, MintedHasProfile
<1>9. WatchedIsMinted'
  BY <1>1, <1>3 DEF IInv, TypeOK, WatchedIsMinted
<1>10. ProfileOwnedOnce'
  <2>1. \A g \in Prune(entries) : g.profile # f
    BY DEF Acquire, Owned
  <2> QED
    BY <2>1, <1>2, <1>3 DEF IInv, ProfileOwnedOnce
<1> QED
  BY <1>4, <1>5, <1>6, <1>7, <1>8, <1>9, <1>10 DEF IInv

\* The lease that a process between launch() and the release holds.
LEMMA HeldLease ==
  ASSUME LeaseAssumption, IInv, NEW p \in Procs, pc[p] # "idle"
  PROVE  held[p] \in Ids /\ owner[held[p]] = p /\ profile[held[p]] \in Profiles
<1>1. held[p] \in 0..MaxLeases /\ held[p] # 0 /\ held[p] <= lastId /\ owner[held[p]] = p
  BY DEF IInv, TypeOK, HeldIsOwn
<1>2. held[p] \in Ids
  BY <1>1 DEF Ids, LeaseAssumption
<1> QED
  BY <1>1, <1>2 DEF IInv, MintedHasProfile

\* The steps of a launcher that leave the registry alone.
LEMMA LaunchStep ==
  ASSUME LeaseAssumption, IInv, NEW p \in Procs,
         StartWatchdog(p) \/ Launch(p) \/ PortReady(p) \/ Kill(p)
  PROVE  IInv'
<1>1. pc[p] # "idle" /\ UNCHANGED <<entries, lastId, owner, profile, alive, held>>
  BY DEF StartWatchdog, Launch, PortReady, Kill
<1>2. held[p] \in Ids /\ owner[held[p]] = p /\ profile[held[p]] \in Profiles
  BY <1>1, HeldLease
<1>3. held[p] \in 0..MaxLeases
  BY DEF IInv, TypeOK
<1>4. TypeOK'
  <2>1. CASE StartWatchdog(p)
    BY <2>1, <1>2 DEF StartWatchdog, IInv, TypeOK
  <2>2. CASE Launch(p)
    BY <2>2, <1>2, <1>3 DEF Launch, IInv, TypeOK
  <2>3. CASE PortReady(p)
    BY <2>3 DEF PortReady, IInv, TypeOK
  <2>4. CASE Kill(p)
    BY <2>4, <1>2, <1>3 DEF Kill, IInv, TypeOK, LeaseAssumption
  <2> QED
    BY <2>1, <2>2, <2>3, <2>4
<1>5. HeldIsOwn'
  <2>1. \A q \in Procs : pc'[q] # "idle" => pc[q] # "idle"
    BY DEF IInv, TypeOK, StartWatchdog, Launch, PortReady, Kill
  <2> QED
    BY <2>1, <1>1 DEF IInv, HeldIsOwn
<1>6. WatchedIsMinted'
  BY <1>1, <1>2 DEF IInv, TypeOK, WatchedIsMinted, StartWatchdog, Launch, PortReady, Kill
<1>7. entries' \subseteq entries
  BY <1>1
<1> QED
  BY <1>1, <1>4, <1>5, <1>6, <1>7, Shrinks DEF IInv

\* The registry is rewritten, for a release or for nothing, by a process that lives or dies of it.
LEMMA RewriteStep ==
  ASSUME LeaseAssumption, IInv, NEW p \in Procs,
         Rewrite(p) \/ Release(p) \/ Crash(p) \/ CrashWriting(p)
  PROVE  IInv'
<1>1. entries' \subseteq entries /\ UNCHANGED <<lastId, owner, profile, dog, chrome>>
  BY DEF Rewrite, Release, Crash, CrashWriting, Prune
<1>2. entries' \subseteq Entry
  BY <1>1 DEF IInv, TypeOK
<1>3. TypeOK'
  BY <1>1, <1>2 DEF Rewrite, Release, Crash, CrashWriting, IInv, TypeOK, LeaseAssumption
<1>4. HeldIsOwn'
  BY <1>1 DEF Rewrite, Release, Crash, CrashWriting, IInv, TypeOK, HeldIsOwn
<1>5. WatchedIsMinted'
  BY <1>1 DEF IInv, WatchedIsMinted
<1> QED
  BY <1>1, <1>3, <1>4, <1>5, Shrinks DEF IInv

\* A watchdog takes out the entry of a process that has died, and stops its Chrome.
LEMMA WatchdogStep ==
  ASSUME LeaseAssumption, IInv, NEW i \in Ids, Watchdog(i)
  PROVE  IInv'
<1>1. /\ entries' \subseteq entries /\ UNCHANGED <<lastId, owner, profile, alive, pc, held>>
      /\ dog[i] # "none"
  BY DEF Watchdog, Look, Claim, DogKills
<1>2. profile[i] \in Profiles
  BY <1>1 DEF IInv, WatchedIsMinted
<1>3. /\ dog' \in [Ids -> {"none", "look", "claim", "kill", "gone"}]
      /\ \A j \in Ids : dog'[j] # "none" => dog[j] # "none"
  BY <1>1 DEF Watchdog, Look, Claim, DogKills, DogAt, IInv, TypeOK
<1>4. chrome' \in [Profiles -> 0..MaxLeases]
  BY <1>2 DEF Watchdog, Look, Claim, DogKills, IInv, TypeOK, LeaseAssumption
<1>5. entries' \subseteq Entry
  BY <1>1 DEF IInv, TypeOK
<1>6. TypeOK'
  BY <1>1, <1>3, <1>4, <1>5 DEF IInv, TypeOK
<1>7. HeldIsOwn' /\ WatchedIsMinted'
  BY <1>1, <1>3 DEF IInv, HeldIsOwn, WatchedIsMinted
<1> QED
  BY <1>1, <1>6, <1>7, Shrinks DEF IInv

LEMMA Stutter ==
  ASSUME IInv, UNCHANGED vars
  PROVE  IInv'
BY DEF IInv, TypeOK, EntriesAreLeases, HeldIsOwn, MintedHasProfile, WatchedIsMinted, WithinBudget,
       ProfileOwnedOnce, vars

\* Registry, leases and processes stay in step, whoever crashes where.
THEOREM Inductive == Spec => []IInv
<1>1. Init => IInv
  BY InitIInv, LeaseAssumption
<1>2. IInv /\ [Next]_vars => IInv'
  <2> SUFFICES ASSUME IInv, [Next]_vars
               PROVE  IInv'
    OBVIOUS
  <2>1. ASSUME NEW p \in Procs, NEW f \in Profiles, Acquire(p, f)
        PROVE  IInv'
    BY <2>1, AcquireStep, LeaseAssumption
  <2>2. ASSUME NEW p \in Procs, StartWatchdog(p) \/ Launch(p) \/ PortReady(p) \/ Kill(p)
        PROVE  IInv'
    BY <2>2, LaunchStep, LeaseAssumption
  <2>3. ASSUME NEW p \in Procs, Rewrite(p) \/ Release(p) \/ Crash(p) \/ CrashWriting(p)
        PROVE  IInv'
    BY <2>3, RewriteStep, LeaseAssumption
  <2>4. ASSUME NEW i \in Ids, Watchdog(i)
        PROVE  IInv'
    BY <2>4, WatchdogStep, LeaseAssumption
  <2>5. CASE UNCHANGED vars
    BY <2>5, Stutter
  <2> QED
    BY <2>1, <2>2, <2>3, <2>4, <2>5 DEF Next
<1> QED
  BY <1>1, <1>2, PTL DEF Spec

\* The tables have the types the model says (the registry file, the leases and the watchdogs).
THEOREM TypeCorrect == Spec => []TypeOK
<1>1. IInv => TypeOK
  BY DEF IInv
<1> QED
  BY <1>1, Inductive, PTL

\* acquire(): the registry never lists more leases than the budget, whoever acquires, crashes or
\* is pruned in between, and no two of those it lists are for one profile.
THEOREM TheBudgetIsKept == Spec => [](WithinBudget /\ ProfileOwnedOnce)
<1>1. IInv => WithinBudget /\ ProfileOwnedOnce
  BY DEF IInv
<1> QED
  BY <1>1, Inductive, PTL

-----------------------------------------------------------------------------
(* A living process keeps its slot.                                        *)

\* A step that takes out the entry of a process that is alive afterwards is that process's
\* release of that lease, or somebody died in the middle of a rewrite.
LEMMA OnlyByItself ==
  ASSUME LeaseAssumption, IInv, [Next]_vars,
         NEW e \in entries, e.pid \in alive', e \notin entries'
  PROVE  \/ Release(e.pid) /\ held[e.pid] = e.id
         \/ \E p \in Procs : CrashWriting(p)
<1>1. e \in Entry /\ e.id \in Ids /\ owner[e.id] = e.pid
  BY DEF IInv, TypeOK, Entry, EntriesAreLeases
<1>2. alive' \subseteq alive
  <2>1. \A p \in Procs, f \in Profiles : Acquire(p, f) => alive' = alive
    BY DEF Acquire
  <2>2. \A p \in Procs : Rewrite(p) \/ StartWatchdog(p) \/ Launch(p) \/ PortReady(p) \/ Kill(p) \/ Release(p) => alive' = alive
    BY DEF Rewrite, StartWatchdog, Launch, PortReady, Kill, Release
  <2>3. \A p \in Procs : Crash(p) \/ CrashWriting(p) => alive' \subseteq alive
    BY DEF Crash, CrashWriting
  <2>4. \A i \in Ids : Watchdog(i) => alive' = alive
    BY DEF Watchdog, Look, Claim, DogKills
  <2> QED
    BY <2>1, <2>2, <2>3, <2>4 DEF Next, vars
<1>3. e \in Prune(entries)
  BY <1>2 DEF Prune
<1>4. ASSUME NEW p \in Procs, NEW f \in Profiles, Acquire(p, f)
      PROVE  FALSE
  BY <1>3, <1>4 DEF Acquire
<1>5. ASSUME NEW p \in Procs, Rewrite(p) \/ StartWatchdog(p) \/ Launch(p) \/ PortReady(p) \/ Kill(p) \/ Crash(p)
      PROVE  FALSE
  BY <1>3, <1>5 DEF Rewrite, StartWatchdog, Launch, PortReady, Kill, Crash
<1>6. ASSUME NEW p \in Procs, Release(p)
      PROVE  Release(e.pid) /\ held[e.pid] = e.id
  <2>1. e.id = held[p]
    BY <1>3, <1>6 DEF Release
  <2>2. pc[p] # "idle"
    BY <1>6 DEF Release
  <2>3. owner[held[p]] = p
    BY <2>2, HeldLease
  <2> QED
    BY <1>1, <1>6, <2>1, <2>3
<1>7. ASSUME NEW i \in Ids, Watchdog(i)
      PROVE  FALSE
  <2>1. Claim(i) /\ Claimable(i) /\ e.id = i
    BY <1>7 DEF Watchdog, Look, Claim, DogKills
  <2>2. owner[i] \notin alive
    BY <2>1 DEF Claimable, OwnerAlive
  <2> QED
    BY <1>1, <1>2, <2>1, <2>2
<1>8. CASE UNCHANGED vars
  BY <1>8 DEF vars
<1> QED
  BY <1>4, <1>5, <1>6, <1>7, <1>8 DEF Next

\* _locked_state(), _claim_dead_lease(): no prune, no watchdog and no other process takes the
\* slot of a process that lives.
THEOREM ALivingProcessKeepsItsSlot == Spec => LivingKeepTheirSlot
<1>1. IInv /\ [Next]_vars =>
        [\A e \in entries :
           e.pid \in alive' /\ e \notin entries' =>
             \/ Release(e.pid) /\ held[e.pid] = e.id
             \/ \E p \in Procs : CrashWriting(p)]_vars
  BY OnlyByItself, LeaseAssumption
<1> QED
  BY <1>1, Inductive, PTL DEF Spec, LivingKeepTheirSlot
=============================================================================
