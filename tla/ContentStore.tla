----------------------------- MODULE ContentStore -----------------------------
(***************************************************************************)
(* harness/core/content.py: values kept under their digest, one file each, *)
(* by processes that share a directory and may die at any step.  The lock  *)
(* is a process's own and is left out: a writer here is a process.         *)
(*                                                                         *)
(* A value is <<kind, payload>>; its digest is of both, as SHA-256 is      *)
(* taken to be: two values have one digest only when they are the same.    *)
(***************************************************************************)
EXTENDS Naturals

CONSTANTS
  Writers,  \* processes that put values
  Values,   \* what they put
  MaxPuts   \* how often (a bound)

VARIABLES
  blobs,    \* of each digest: what its file holds, or Absent
  doing,    \* of each writer: its step
  value,    \* what it puts
  digest,   \* of it
  given,    \* history: <<digest, value>> of the references given out
  puts

storeVars == <<blobs, doing, value, digest, given, puts>>

Absent == <<"absent">>
Partial == <<"partial">>

DigestBare(v) == <<"any", v[2]>>     \* mutant: the kind is not hashed
Digest(v) == v
Digests == {Digest(v) : v \in Values}

TypeOK ==
  /\ blobs \in [Digests -> Values \cup {Absent, Partial}]
  /\ doing \in [Writers -> {"idle", "look", "fill", "replace", "answer"}]
  /\ value \in [Writers -> Values] /\ digest \in [Writers -> Digests]
  /\ given \subseteq Digests \X Values /\ puts \in 0..MaxPuts

Init ==
  /\ blobs = [d \in Digests |-> Absent] /\ doing = [w \in Writers |-> "idle"]
  /\ value \in [Writers -> Values] /\ \A w, x \in Writers : value[w] = value[x]
  /\ digest = [w \in Writers |-> Digest(value[w])]
  /\ given = {} /\ puts = 0

Goes(w, to) == doing' = [doing EXCEPT ![w] = to]

Put(w) ==
  /\ doing[w] = "idle" /\ puts < MaxPuts /\ puts' = puts + 1 /\ Goes(w, "look")
  /\ \E v \in Values : value' = [value EXCEPT ![w] = v] /\ digest' = [digest EXCEPT ![w] = Digest(v)]
  /\ UNCHANGED <<blobs, given>>

\* What is there already is not written again.
Look(w) ==
  /\ doing[w] = "look" /\ Goes(w, IF blobs[digest[w]] = Absent THEN "fill" ELSE "answer")
  /\ UNCHANGED <<blobs, value, digest, given, puts>>

\* The value goes to a file of its own, which then takes the place of the other.
FillInPlace(w) ==         \* mutant: it is written where it is to be found
  /\ doing[w] = "fill" /\ Goes(w, "replace") /\ blobs' = [blobs EXCEPT ![digest[w]] = Partial]
  /\ UNCHANGED <<value, digest, given, puts>>
Fill(w) ==
  /\ doing[w] = "fill" /\ Goes(w, "replace")
  /\ UNCHANGED <<blobs, value, digest, given, puts>>
Replace(w) ==
  /\ doing[w] = "replace" /\ Goes(w, "answer") /\ blobs' = [blobs EXCEPT ![digest[w]] = value[w]]
  /\ UNCHANGED <<value, digest, given, puts>>

\* The reference is in the marker that stands for the value.
Answer(w) ==
  /\ doing[w] = "answer" /\ Goes(w, "idle") /\ given' = given \cup {<<digest[w], value[w]>>}
  /\ UNCHANGED <<blobs, value, digest, puts>>

\* The process dies, or the disk is full and its put() raises; the next starts from nothing.
Dies(w) ==
  /\ doing[w] # "idle" /\ Goes(w, "idle")
  /\ UNCHANGED <<blobs, value, digest, given, puts>>

Next == \E w \in Writers : Put(w) \/ Look(w) \/ Fill(w) \/ Replace(w) \/ Answer(w) \/ Dies(w)
Spec == Init /\ [][Next]_storeVars

\* get(): what is read is believed if it has the digest.
Get(d) == IF blobs[d] \in Values /\ Digest(blobs[d]) = d THEN blobs[d] ELSE Absent

\* A reference that was given out gets the very value back, of the very kind, for ever: whoever
\* writes the same at the same time, and wherever a writer dies ("the exact typed value",
\* content.py:5).
RefIsGood == \A r \in given : Get(r[1]) = r[2]
=============================================================================
