------------------------------ MODULE PageFrames ------------------------------
(***************************************************************************)
(* frames(): which cross-origin frames the page has (harness/ops/page.py). *)
(* The browser announces a child target while auto-attach is on, and again *)
(* each time auto-attach is turned on.  A search of the document is the    *)
(* gate: a trustworthy zero skips the off-on dance.                        *)
(***************************************************************************)
EXTENDS Naturals, Sequences, FiniteSets

CONSTANTS
  Frames,    \* cross-origin frames the page may have
  MaxEvents  \* events and answers under way (a bound)

VARIABLES
  there,     \* frames whose target exists
  attaching, \* auto-attach is on
  sent,      \* events and answers under way
  ask,       \* the call: what it is about to do
  count,     \* what the search answered: "zero", "some" or "unknown"
  found,     \* frames its waiter has been told of
  counted,   \* how many there were when the quiet window began
  settled    \* history: frames that were there when auto-attach was last turned on

framesVars == <<there, attaching, sent, ask, count, found, counted, settled>>

TypeOK ==
  /\ there \subseteq Frames /\ found \subseteq Frames /\ settled \subseteq Frames
  /\ attaching \in BOOLEAN /\ counted \in 0..Cardinality(Frames)
  /\ ask \in {"idle", "search", "searching", "off", "on", "turned", "observe", "quiet", "report"}
  /\ count \in {"zero", "some", "unknown"}

Init ==
  /\ there \in SUBSET Frames /\ attaching \in BOOLEAN
  /\ sent = <<>> /\ ask = "idle" /\ count = "unknown"
  /\ found = {} /\ counted = 0 /\ settled = {}

Room(n) == Len(sent) + n <= MaxEvents

\* The page inserts a frame.
Inserts(f) ==
  /\ f \notin there /\ there' = there \cup {f}
  /\ IF attaching THEN Room(2) /\ sent' = Append(sent, f) ELSE UNCHANGED sent
  /\ UNCHANGED <<attaching, ask, count, found, counted, settled>>

\* The waiter is armed before the search.
LateWaiter == ask \in {"observe", "quiet"}   \* mutant: armed for the settling only
Armed == ask # "idle"

\* The reader; an answer is the name of the step that follows it.
Dispatch ==
  /\ sent # <<>> /\ sent' = Tail(sent)
  /\ IF Head(sent) \in Frames
     THEN found' = (IF Armed THEN found \cup {Head(sent)} ELSE found) /\ UNCHANGED ask
     ELSE ask' = Head(sent) /\ UNCHANGED found
  /\ counted' = IF Head(sent) = "quiet" THEN Cardinality(found) ELSE counted
  /\ UNCHANGED <<there, attaching, count, settled>>

Begin ==
  /\ ask = "idle" /\ sent = <<>>
  /\ ask' = "search" /\ found' = {}
  /\ UNCHANGED <<there, attaching, sent, count, counted, settled>>

\* DOM.performSearch sees every host; it may fail, or answer nonsense.
Search ==
  /\ ask = "search" /\ Room(1)
  /\ count' \in {IF there = {} THEN "zero" ELSE "some", "unknown"}
  /\ sent' = Append(sent, IF count' = "zero" THEN "on" ELSE "off")
  /\ ask' = "searching"
  /\ UNCHANGED <<there, attaching, found, counted, settled>>

TurnOff ==
  /\ ask = "off"
  /\ ask' = "on" /\ attaching' = FALSE
  /\ UNCHANGED <<there, sent, count, found, counted, settled>>

SeqsOf(S) == {s \in [1..Cardinality(S) -> S] : \A f \in S : \E i \in DOMAIN s : s[i] = f}

\* Turning on what is on announces nothing.
TurnOn ==
  /\ ask = "on"
  /\ \E s \in IF attaching THEN {<<>>} ELSE SeqsOf(there) :
       sent' = sent \o s \o <<IF count = "zero" THEN "observe" ELSE "quiet">>
  /\ ask' = "turned" /\ attaching' = TRUE /\ settled' = there
  /\ UNCHANGED <<there, count, found, counted>>

\* On a zero, the first announcement within a short window opens the settling; none ends it.
Observe ==
  /\ ask = "observe"
  /\ ask' = IF found # {} THEN "quiet" ELSE "report"
  /\ counted' = Cardinality(found)
  /\ UNCHANGED <<there, attaching, sent, count, found, settled>>

\* A whole window with nothing new ends the settling, and so does the deadline.
WindowOver ==
  /\ ask = "quiet"
  /\ ask' = "report" \/ (Cardinality(found) # counted /\ ask' = "quiet")
  /\ counted' = Cardinality(found)
  /\ UNCHANGED <<there, attaching, sent, count, found, settled>>

\* Frames of the same site, which never become targets, are added from the document.
Report ==
  /\ ask = "report"
  /\ ask' = "idle"
  /\ UNCHANGED <<there, attaching, sent, count, found, counted, settled>>

Next ==
  \/ (\E f \in Frames : Inserts(f)) \/ Dispatch \/ Begin \/ Search \/ TurnOff \/ TurnOn
  \/ Observe \/ WindowOver \/ Report
Spec == Init /\ [][Next]_framesVars

\* The report names every frame that was there when auto-attach was turned on: one that came
\* between the search and that moment too, whether or not auto-attach was on before.
NoneLeftOut == ask = "report" => settled \subseteq found
=============================================================================
