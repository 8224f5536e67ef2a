--------------------------- MODULE MCTargetBroker ---------------------------
(* Small instances of TargetBroker for TLC.                                *)
EXTENDS TargetBroker, TLC

\* Handlers, tabs and lease tokens are interchangeable.
Symmetry == Permutations(Handlers) \cup Permutations(Targets) \cup Permutations(Leases)
            \cup Permutations(Peers)
=============================================================================
