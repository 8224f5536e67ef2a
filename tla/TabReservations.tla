-------------------------- MODULE TabReservations --------------------------
(***************************************************************************)
(* What the daemon promises its clients about tabs (daemon.py, the adopt   *)
(* and lease requests): a client works in one adopted tab at a time, a tab *)
(* is adopted by one client, and an explicit lease keeps a tab out of      *)
(* everybody's implicit adoption.                                          *)
(***************************************************************************)
CONSTANTS Peers, Targets, None

VARIABLES
  adopted,   \* peer -> the tab reserved for it
  leased     \* the tabs with an explicit lease

vars == <<adopted, leased>>

Taken == {adopted[p] : p \in Peers} \cup leased

Init ==
  /\ adopted = [p \in Peers |-> None]
  /\ leased  = {}

\* A client is given a tab nobody has; it lets go of the one it had.
Adopt(p, t) ==
  /\ t \notin Taken
  /\ adopted' = [adopted EXCEPT ![p] = t]
  /\ UNCHANGED leased

Leave(p) ==
  /\ adopted' = [adopted EXCEPT ![p] = None]
  /\ UNCHANGED leased

Grant(t) ==
  /\ t \notin leased
  /\ leased' = leased \cup {t}
  /\ UNCHANGED adopted

Revoke(t) ==
  /\ leased' = leased \ {t}
  /\ UNCHANGED adopted

Next ==
  \/ \E p \in Peers : Leave(p) \/ \E t \in Targets : Adopt(p, t)
  \/ \E t \in Targets : Grant(t) \/ Revoke(t)

Spec == Init /\ [][Next]_vars

\* No two clients work in the same tab.
Exclusive ==
  \A p, q \in Peers : adopted[p] = adopted[q] /\ adopted[p] # None => p = q
=============================================================================
