------------------------------- MODULE FetchAll -------------------------------
(***************************************************************************)
(* fetch_all() of harness/ops/batch.py: a pool of workers in the page that *)
(* take the urls in turn, wait for the answers in any order, try again     *)
(* what may pass, and the tally made of their slots (core/outcome.py).     *)
(***************************************************************************)
EXTENDS Naturals, Sequences, FiniteSets

CONSTANTS
  Urls,         \* how many there are
  Concurrency,  \* workers
  Retries

VARIABLES
  taken,   \* next
  busy,    \* of each worker: the url it waits for, 0 none, Done when its loop is over
  tries,   \* of each url: the attempts made
  answers, \* history: the answers each url has had
  out,     \* its slot
  tally,   \* once the page has returned: [outcome, results, failures]
  reach    \* FALSE once the page is gone or the call has timed out

fetchVars == <<taken, busy, tries, answers, out, tally, reach>>

Pool == 1..Concurrency
All == 1..Urls
Finished == Urls + 1
Waiting == "waiting"
Gap == [url |-> 0, result |-> "none"]
Answers == {"ok", "missing", "limited", "error"}   \* 200, 404, 429 or 5xx, no answer at all

TypeOK ==
  /\ taken \in 0..Urls /\ busy \in [Pool -> 0..Finished]
  /\ tries \in [All -> 0..Retries + 1] /\ out \in [All -> [url : 0..Urls, result : Answers \cup {"none"}]]
  /\ tally.outcome \in {Waiting, "ok", "partial", "raised"}

Init ==
  /\ taken = 0 /\ busy = [w \in Pool |-> 0]
  /\ tries = [u \in All |-> 0] /\ answers = [u \in All |-> <<>>]
  /\ out = [u \in All |-> Gap] /\ reach = TRUE
  /\ tally = [outcome |-> Waiting, results |-> {}, failures |-> {}]

Running == reach /\ tally.outcome = Waiting

\* A worker takes the next url, or ends its loop.
Takes(w) ==
  /\ Running /\ busy[w] = 0
  /\ IF taken < Urls THEN taken' = taken + 1 /\ busy' = [busy EXCEPT ![w] = taken + 1]
     ELSE busy' = [busy EXCEPT ![w] = Finished] /\ UNCHANGED taken
  /\ UNCHANGED <<tries, answers, out, tally, reach>>

\* one(): an answer; what is neither there nor denied is tried again, so long as tries are left.
Again(a, n) == a \in {"limited", "error"} /\ n <= Retries
AnsweredAt(w, slot) ==
  LET u == busy[w] IN
    /\ Running /\ u \in All
    /\ tries' = [tries EXCEPT ![u] = @ + 1]
    /\ \E a \in Answers :
         /\ answers' = [answers EXCEPT ![u] = Append(@, a)]
         /\ IF Again(a, tries[u] + 1) THEN UNCHANGED <<busy, out>>
            ELSE busy' = [busy EXCEPT ![w] = 0] /\ out' = [out EXCEPT ![slot] = [url |-> u, result |-> a]]
    /\ UNCHANGED <<taken, tally, reach>>
AnsweredLate(w) == AnsweredAt(w, taken)     \* mutant: the slot is that of the url taken last
Answered(w) == AnsweredAt(w, busy[w])

\* The page is navigated away, or the call runs into its timeout: the call raises.
Raises ==
  /\ Running /\ reach' = FALSE /\ tally' = [tally EXCEPT !.outcome = "raised"]
  /\ UNCHANGED <<taken, busy, tries, answers, out>>

\* Every url is recorded; a slot that nobody filled is a failure.
Counted(results, failures) ==
  [outcome |-> IF failures = {} THEN "ok" ELSE "partial", results |-> results, failures |-> failures]
Good(u) == out[u].result = "ok"
Returned == Running /\ \A w \in Pool : busy[w] = Finished
RecordFilled ==           \* mutant: a slot that nobody filled is passed over
  /\ \/ Returned /\ UNCHANGED out
     \/ Running /\ out' = [u \in All |-> Gap]
  /\ tally' = Counted({out'[u].url : u \in {x \in All : out'[x].result = "ok"}},
                      {u \in All : out'[u] # Gap /\ out'[u].result # "ok"})
  /\ UNCHANGED <<taken, busy, tries, answers, reach>>
\* The answer may also be no list at all: then no slot is filled.
Record ==
  /\ \/ Returned /\ UNCHANGED out
     \/ Running /\ out' = [u \in All |-> Gap]
  /\ tally' = Counted({out'[u].url : u \in {x \in All : out'[x].result = "ok"}},
                      {u \in All : out'[u].result # "ok"})
  /\ UNCHANGED <<taken, busy, tries, answers, reach>>

Next == Raises \/ Record \/ \E w \in Pool : Takes(w) \/ Answered(w)
Spec == Init /\ [][Next]_fetchVars

\* Nothing is missing without a word: each url is a result or a failure, a result only when its
\* last answer was one, and all is well only when all have been fetched ("a missing slot is a
\* counted failure, never a silent gap", batch.py:8).
NoSilentGap ==
  tally.outcome \in {"ok", "partial"} =>
    /\ tally.results \cup tally.failures = All /\ tally.results \cap tally.failures = {}
    /\ \A u \in tally.results : answers[u] # <<>> /\ answers[u][Len(answers[u])] = "ok"
    /\ tally.outcome = "ok" => tally.results = All

\* No url is asked for again once it was answered for good ("a 404 is HTTP_ERROR and is not
\* retried", batch.py:59), nor more often than it may be.
AskedInMeasure ==
  \A u \in All : Len(answers[u]) <= Retries + 1
                 /\ \A i \in 1..Len(answers[u]) : answers[u][i] \in {"ok", "missing"} => i = Len(answers[u])
=============================================================================
