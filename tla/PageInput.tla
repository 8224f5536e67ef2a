------------------------------- MODULE PageInput -------------------------------
(***************************************************************************)
(* Keys and the wheel, verified and done again through the DOM when the    *)
(* renderer dropped them: press_key(), type_chars() and scroll() of        *)
(* harness/ops/page.py with the scripts they end in.  A counter in the     *)
(* isolated world says whether anything arrived.                           *)
(***************************************************************************)
EXTENDS Naturals

CONSTANTS
  Length,   \* characters of the text typed
  MaxShown, \* documents the tab ever shows (a bound)
  MaxOther  \* keys of somebody else's (a bound)

VARIABLES
  docNo,    \* the document shown
  input,    \* the call: what it sends, "key", "text" or "wheel", and what it is about to do
  counter,  \* __bh.keys or __bh.scrolls of this document
  pre,      \* what it was before
  left,     \* what is left to dispatch
  landed,   \* history: position -> how often it has reached the page
  origin,   \* history: the document the call began in
  others,   \* keys of somebody else's
  modality  \* what the call reported

inputVars == <<docNo, input, counter, pre, left, landed, origin, others, modality>>

Size(kind) == IF kind = "text" THEN Length ELSE 1
Positions == 1..Length

TypeOK ==
  /\ docNo \in 1..MaxShown /\ origin \in 1..MaxShown
  /\ input \in [kind : {"key", "text", "wheel"}, pc : {"idle", "dispatch", "verify"}]
  /\ counter \in 0..(Length + 1 + MaxOther) /\ pre \in 0..(Length + 1 + MaxOther)
  /\ left \in 0..Length /\ landed \in [Positions -> 0..2]
  /\ others \in 0..MaxOther
  /\ modality \in {"none", "compositor", "dom", "no_target", "failed"}

Init ==
  /\ docNo = 1 /\ origin = 1 /\ counter = 0 /\ pre = 0 /\ left = 0 /\ others = 0
  /\ input = [kind |-> "key", pc |-> "idle"]
  /\ landed = [p \in Positions |-> 0] /\ modality = "none"

\* A new document counts from zero.
Replaced ==
  /\ docNo < MaxShown /\ docNo' = docNo + 1
  /\ counter' = 0
  /\ UNCHANGED <<input, pre, left, landed, origin, others, modality>>

\* The listener counts every key that reaches the document.
SomeoneTypes ==
  /\ others < MaxOther /\ others' = others + 1
  /\ counter' = counter + 1
  /\ UNCHANGED <<docNo, input, pre, left, landed, origin, modality>>

\* Enter is refused where it would submit.  The counter is read first.
Begins ==
  /\ input.pc = "idle" /\ modality = "none"
  /\ \E kind \in {"key", "text", "wheel"} :
       input' = [kind |-> kind, pc |-> "dispatch"] /\ left' = Size(kind)
  /\ pre' = counter /\ origin' = docNo
  /\ UNCHANGED <<docNo, counter, landed, others, modality>>

\* The answer comes once the renderer has dealt with the event, be it by dropping it.  (A
\* wheel event may be late; scroll() settles first, which is in this step.)
Sends ==
  /\ input.pc = "dispatch" /\ left > 0
  /\ left' = left - 1
  /\ \/ /\ landed' = [landed EXCEPT ![Size(input.kind) - left + 1] = @ + 1]
        /\ counter' = counter + 1
     \/ UNCHANGED <<landed, counter>>
  /\ UNCHANGED <<docNo, input, pre, origin, others, modality>>

Sent ==
  /\ input.pc = "dispatch" /\ left = 0
  /\ input' = [input EXCEPT !.pc = "verify"]
  /\ UNCHANGED <<docNo, counter, pre, left, landed, origin, others, modality>>

ArrivedAll == counter >= pre + Size(input.kind)   \* mutant: a part is not enough

\* The wheel's script compares for equality: a document that came up since has scrolled.
Scrolled == counter # pre
Arrived == IF input.kind = "wheel" THEN Scrolled ELSE counter > pre

Ends(how) == input' = [input EXCEPT !.pc = "idle"] /\ modality' = how

\* The same again, by script.
ByScript == landed' = [p \in Positions |-> IF p <= Size(input.kind) THEN landed[p] + 1 ELSE landed[p]]

\* Nothing has arrived: the text goes to the field it is meant for, or to what has the focus; a
\* document that has neither takes none.
Verifies ==
  /\ input.pc = "verify"
  /\ IF Arrived THEN Ends("compositor") /\ UNCHANGED landed
     ELSE \/ Ends("dom") /\ ByScript
          \/ input.kind = "text" /\ Ends("no_target") /\ UNCHANGED landed
  /\ UNCHANGED <<docNo, counter, pre, left, origin, others>>

\* A dispatch that fails ends the call, and nothing is done again.  scroll() goes on when it
\* times out: the event has not arrived.
Fails ==
  /\ input.pc = "dispatch" /\ input.kind # "wheel"
  /\ Ends("failed")
  /\ UNCHANGED <<docNo, counter, pre, left, landed, origin, others>>

Next == Replaced \/ SomeoneTypes \/ Begins \/ Sends \/ Sent \/ Verifies \/ Fails
Spec == Init /\ [][Next]_inputVars

\* Whatever part of it the renderer dropped, no key and no character reaches a document twice.
NeverTwice == docNo = origin => \A p \in Positions : landed[p] <= 1

\* What the source says: the counter "is race-free" and a key delivered is "already" counted
\* (page.py:1176-1178): it is not done again, in a document it brought up either.
KeyOnce == \A p \in Positions : landed[p] <= 1
=============================================================================
