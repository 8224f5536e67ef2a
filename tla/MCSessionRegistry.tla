------------------------- MODULE MCSessionRegistry -------------------------
(* Small instances of SessionRegistry for TLC.                             *)
EXTENDS SessionRegistry, TLC

\* The workers are interchangeable.
WorkerSymmetry == Permutations(Workers)
=============================================================================
