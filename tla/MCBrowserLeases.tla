-------------------------- MODULE MCBrowserLeases --------------------------
(* Small instances of BrowserLeases for TLC.                               *)
EXTENDS BrowserLeases, TLC

\* Processes and profiles are interchangeable.
Symmetry == Permutations(Procs) \cup Permutations(Profiles)
=============================================================================
