----------------------------- MODULE PageProofs -----------------------------
(***************************************************************************)
(* What is proved of the operations of a page that MCPage puts side by     *)
(* side, for any documents, frames, urls and lengths.                      *)
(***************************************************************************)
EXTENDS MCPage, FiniteSetTheorems, SequenceTheorems, WellFoundedInduction, TLAPS

-----------------------------------------------------------------------------
(* The dry-run guard.                                                      *)

GuardInv ==
  /\ consents \in Nat /\ passed \in Nat /\ budget \in {0, 1}
  /\ OneRequestEach

LEMMA GuardStep ==
  ASSUME GuardInv, [Guard!Next]_(Guard!guardVars)
  PROVE  GuardInv'
<1> USE DEF GuardInv, OneRequestEach, Guard!OneRequestEach, Guard!helperVars
<1>1. CASE Guard!Fetch \/ Guard!XhrSend
  BY <1>1 DEF Guard!Fetch, Guard!XhrSend, Guard!Passes, Guard!ConsumeAuth
<1>2. CASE Guard!Navigates
  BY <1>2 DEF Guard!Navigates
<1>3. CASE Guard!ArmBudget
  BY <1>3 DEF Guard!ArmBudget
<1>4. CASE Guard!ClearBudget
  BY <1>4 DEF Guard!ClearBudget
<1>5. CASE Guard!XhrOpen \/ Guard!PageChanges \/ Guard!ArmDryRun \/ Guard!BatchWrite \/ Guard!BatchMark \/ Guard!TypedMark
           \/ Guard!TypedWrite \/ Guard!SelectOption \/ Guard!UploadFile \/ Guard!Check \/ Guard!ClickOnce
           \/ UNCHANGED Guard!guardVars
  BY <1>5 DEF Guard!XhrOpen, Guard!PageChanges, Guard!ArmDryRun, Guard!BatchWrite, Guard!BatchMark, Guard!TypedMark,
     Guard!TypedWrite, Guard!SelectOption, Guard!UploadFile, Guard!Check, Guard!ClickOnce, Guard!guardVars
<1> QED
  BY <1>1, <1>2, <1>3, <1>4, <1>5 DEF Guard!Next

\* One consent, one request: a dirty document under the guard lets no more
\* requests through than calls of click_auth_ref() allowed it, whatever
\* documents follow each other and even if the budget is not cleared.
THEOREM OneRequestPerConsent == Guard!Spec => []OneRequestEach
<1>1. Guard!Init => GuardInv
  BY DEF Guard!Init, GuardInv, OneRequestEach, Guard!OneRequestEach
<1>2. GuardInv => OneRequestEach
  BY DEF GuardInv
<1> QED
  BY <1>1, <1>2, GuardStep, PTL DEF Guard!Spec

-----------------------------------------------------------------------------
(* Keys and the wheel.                                                     *)

KeysType ==
  /\ docNo \in Nat /\ origin \in Nat /\ counter \in Nat /\ pre \in Nat /\ left \in Nat
  /\ input \in [kind : {"key", "text", "wheel"}, pc : {"idle", "dispatch", "verify"}]
  /\ landed \in [Keys!Positions -> Nat]

\* In the document the call began in, what has landed has been counted since,
\* and what is left to send has not landed.
KeysInv ==
  /\ KeysType /\ origin <= docNo
  /\ input.pc = "idle" /\ modality = "none" => \A p \in Keys!Positions : landed[p] = 0
  /\ docNo = origin =>
       /\ NeverTwice
       /\ input.pc # "idle" => counter >= pre /\ ((\E p \in Keys!Positions : landed[p] > 0) => counter > pre)
       /\ input.pc = "dispatch" =>
            /\ left <= Keys!Size(input.kind)
            /\ \A p \in Keys!Positions : p > Keys!Size(input.kind) - left => landed[p] = 0

LEMMA KeysStep ==
  ASSUME KeysInv, [Keys!Next]_(Keys!inputVars)
  PROVE  KeysInv'
<1> USE LengthAssumption DEF KeysInv, KeysType, NeverTwice, Keys!NeverTwice, Keys!Positions
<1>1. CASE Keys!Replaced
  BY <1>1 DEF Keys!Replaced
<1>2. CASE Keys!SomeoneTypes
  BY <1>2 DEF Keys!SomeoneTypes
<1>3. CASE Keys!Begins
  BY <1>3 DEF Keys!Begins, Keys!Size
<1>4. CASE Keys!Sends
  <2> DEFINE at == Keys!Size(input.kind) - left + 1
  <2>1. /\ input.pc = "dispatch" /\ left > 0 /\ left' = left - 1 /\ UNCHANGED <<docNo, input, pre, origin, modality>>
        /\ \/ landed' = [landed EXCEPT ![at] = @ + 1] /\ counter' = counter + 1
           \/ UNCHANGED <<landed, counter>>
    BY <1>4 DEF Keys!Sends
  <2>2. Keys!Size(input.kind) \in Nat
    BY DEF Keys!Size
  <2>3. CASE UNCHANGED <<landed, counter>>
    BY <2>1, <2>2, <2>3
  <2>4. CASE landed' = [landed EXCEPT ![at] = @ + 1] /\ counter' = counter + 1
    <3>2. \A p \in Keys!Positions : landed'[p] = IF p = at THEN landed[p] + 1 ELSE landed[p]
      BY <2>4
    <3>1. KeysType'
      <4>1. landed' = [p \in Keys!Positions |-> landed'[p]]
        BY <2>4
      <4>2. landed' \in [Keys!Positions -> Nat]
        BY <3>2, <4>1
      <4> QED
        BY <2>1, <2>4, <4>2
    <3>3. docNo = origin => left <= Keys!Size(input.kind)
                            /\ \A p \in Keys!Positions : p >= at => landed[p] = 0
      BY <2>1, <2>2
    <3> HIDE DEF at
    <3>4. docNo = origin => NeverTwice'
      BY <2>1, <3>2, <3>3
    <3>5. docNo = origin => left' <= Keys!Size(input.kind)
                            /\ \A p \in Keys!Positions : p > Keys!Size(input.kind) - left' => landed'[p] = 0
      BY <2>1, <2>2, <3>2, <3>3 DEF at
    <3>6. docNo = origin => counter' >= pre /\ counter' > pre
      BY <2>1, <2>4
    <3> QED
      BY <2>1, <3>1, <3>4, <3>5, <3>6
  <2> QED
    BY <2>1, <2>3, <2>4
<1>5. CASE Keys!Sent
  BY <1>5 DEF Keys!Sent
<1>6. CASE Keys!Verifies
  BY <1>6 DEF Keys!Verifies, Keys!Arrived, Keys!Scrolled, Keys!Ends, Keys!ByScript, Keys!Size
<1>7. CASE Keys!Fails
  BY <1>7 DEF Keys!Fails, Keys!Ends
<1>8. CASE UNCHANGED Keys!inputVars
  BY <1>8 DEF Keys!inputVars
<1> QED
  BY <1>1, <1>2, <1>3, <1>4, <1>5, <1>6, <1>7, <1>8 DEF Keys!Next

\* No key and no character reaches a document twice, whatever part of a call
\* the renderer dropped before it was done again by script.
THEOREM NoKeyTwice == Keys!Spec => []NeverTwice
<1>1. Keys!Init => KeysInv
  BY LengthAssumption DEF Keys!Init, KeysInv, KeysType, NeverTwice, Keys!NeverTwice, Keys!Positions
<1>2. KeysInv => NeverTwice
  BY DEF KeysInv, NeverTwice, Keys!NeverTwice
<1> QED
  BY <1>1, <1>2, KeysStep, PTL DEF Keys!Spec

-----------------------------------------------------------------------------
(* fetch_all().                                                            *)

FetchType ==
  /\ next \in 0..Urls
  /\ busy \in [Fetch!Pool -> 0..Fetch!Finished]
  /\ out \in [Fetch!All -> [url : 0..Urls, result : Fetch!Answers \cup {"none"}]]
  /\ answers \in [Fetch!All -> Seq(Fetch!Answers)]
  /\ tally \in [outcome : {Fetch!Waiting, "ok", "partial", "raised"}, results : SUBSET Fetch!All,
                failures : SUBSET Fetch!All]

\* A url is with one worker; its slot is empty until it has been answered for
\* good, and then names it and its last answer.
FetchInv ==
  /\ FetchType
  /\ \A v, w \in Fetch!Pool : busy[v] \in Fetch!All /\ busy[v] = busy[w] => v = w
  /\ \A w \in Fetch!Pool : busy[w] \in Fetch!All => busy[w] <= next /\ out[busy[w]] = Fetch!Gap
  /\ \A u \in Fetch!All : u > next => out[u] = Fetch!Gap
  /\ Fetch!Running => \A u \in Fetch!All : out[u] # Fetch!Gap =>
       out[u].url = u /\ answers[u] # <<>> /\ answers[u][Len(answers[u])] = out[u].result
  /\ NoSilentGap

LEMMA FetchStep ==
  ASSUME FetchInv, [Fetch!Next]_(Fetch!fetchVars)
  PROVE  FetchInv'
<1> USE UrlsAssumption DEF FetchInv, FetchType, Fetch!All, Fetch!Finished, Fetch!Running, Fetch!Waiting, Fetch!Gap
<1>1. ASSUME NEW w \in Fetch!Pool, Fetch!Takes(w)
      PROVE  FetchInv'
  <2>1. tally.outcome = "waiting" /\ UNCHANGED <<answers, out, tally, reach>> /\ NoSilentGap'
    BY <1>1 DEF Fetch!Takes, NoSilentGap, Fetch!NoSilentGap
  <2>2. CASE next < Urls
    <3>1. next' = next + 1 /\ busy' = [busy EXCEPT ![w] = next + 1]
      BY <1>1, <2>2 DEF Fetch!Takes
    <3>2. FetchType'
      BY <1>1, <2>1, <2>2, <3>1
    <3>3. \A v \in Fetch!Pool : busy'[v] = IF v = w THEN next + 1 ELSE busy[v]
      BY <3>1
    <3>4. \A v, x \in Fetch!Pool : busy'[v] \in Fetch!All /\ busy'[v] = busy'[x] => v = x
      BY <3>3
    <3>5. \A v \in Fetch!Pool : busy'[v] \in Fetch!All => busy'[v] <= next' /\ out[busy'[v]] = Fetch!Gap
      BY <2>2, <3>1, <3>3
    <3> QED
      BY <2>1, <3>1, <3>2, <3>4, <3>5
  <2>3. CASE ~(next < Urls)
    <3>1. next' = next /\ busy' = [busy EXCEPT ![w] = Urls + 1]
      BY <1>1, <2>3 DEF Fetch!Takes
    <3> QED
      BY <2>1, <3>1
  <2> QED
    BY <2>2, <2>3
<1>2. ASSUME NEW w \in Fetch!Pool, Fetch!Answered(w)
      PROVE  FetchInv'
  <2> DEFINE u == busy[w]
  <2>1. u \in 1..Urls /\ tally.outcome = "waiting" /\ UNCHANGED <<next, tally, reach>> /\ NoSilentGap'
    BY <1>2 DEF Fetch!Answered, Fetch!AnsweredAt, NoSilentGap, Fetch!NoSilentGap
  <2>2. PICK a \in Fetch!Answers :
          /\ answers' = [answers EXCEPT ![u] = Append(@, a)]
          /\ \/ UNCHANGED <<busy, out>>
             \/ busy' = [busy EXCEPT ![w] = 0] /\ out' = [out EXCEPT ![u] = [url |-> u, result |-> a]]
    BY <1>2 DEF Fetch!Answered, Fetch!AnsweredAt
  <2> HIDE DEF u
  <2>3. /\ answers'[u] \in Seq(Fetch!Answers) /\ answers'[u] # <<>> /\ answers'[u][Len(answers'[u])] = a
        /\ answers' \in [Fetch!All -> Seq(Fetch!Answers)]
        /\ \A x \in 1..Urls : x # u => answers'[x] = answers[x]
    <3>1. answers[u] \in Seq(Fetch!Answers) /\ answers'[u] = Append(answers[u], a)
      BY <2>1, <2>2
    <3>2. Append(answers[u], a) \in Seq(Fetch!Answers) /\ Append(answers[u], a) # <<>>
          /\ Append(answers[u], a)[Len(Append(answers[u], a))] = a
      <4>1. \A S, t, e : t \in Seq(S) /\ e \in S =>
              Append(t, e) \in Seq(S) /\ Append(t, e) # <<>> /\ Append(t, e)[Len(Append(t, e))] = e
        OBVIOUS
      <4> QED
        BY <2>2, <3>1, <4>1
    <3> QED
      BY <2>1, <2>2, <3>1, <3>2
  <2>4. out[u] = Fetch!Gap
    BY <2>1 DEF u
  <2>5. CASE UNCHANGED <<busy, out>>
    BY <2>1, <2>3, <2>4, <2>5
  <2>6. CASE busy' = [busy EXCEPT ![w] = 0] /\ out' = [out EXCEPT ![u] = [url |-> u, result |-> a]]
    <3>1. FetchType'
      BY <2>1, <2>3, <2>6
    <3>2. \A v \in Fetch!Pool : busy'[v] \in 1..Urls => busy'[v] = busy[v] /\ v # w /\ busy[v] # u
      BY <2>1, <2>6 DEF u
    <3>3. \A x \in 1..Urls : x # u => out'[x] = out[x]
      BY <2>6
    <3>4. u <= next
      BY <2>1 DEF u
    <3>5. out'[u] = [url |-> u, result |-> a]
      BY <2>1, <2>6
    <3>6. \A v, x \in Fetch!Pool : busy'[v] \in Fetch!All /\ busy'[v] = busy'[x] => v = x
      BY <3>2
    <3>7. \A v \in Fetch!Pool : busy'[v] \in Fetch!All => busy'[v] <= next' /\ out'[busy'[v]] = Fetch!Gap
      BY <2>1, <3>2, <3>3
    <3>8. \A x \in Fetch!All : x > next' => out'[x] = Fetch!Gap
      BY <2>1, <3>3, <3>4
    <3>9. \A x \in Fetch!All : Fetch!Running' /\ out'[x] # Fetch!Gap =>
            out'[x].url = x /\ answers'[x] # <<>> /\ answers'[x][Len(answers'[x])] = out'[x].result
      BY <2>1, <2>3, <3>3, <3>5
    <3> QED
      BY <2>1, <3>1, <3>6, <3>7, <3>8, <3>9
  <2> QED
    BY <2>2, <2>5, <2>6
<1>3. CASE Fetch!Raises
  BY <1>3 DEF Fetch!Raises, NoSilentGap, Fetch!NoSilentGap
<1>4. CASE Fetch!Record
  <2>1. tally.outcome = "waiting" /\ UNCHANGED <<next, busy, answers, reach>>
    BY <1>4 DEF Fetch!Record, Fetch!Returned
  <2>2. out' = out \/ out' = [x \in 1..Urls |-> Fetch!Gap]
    BY <1>4 DEF Fetch!Record
  <2>3. /\ out' \in [Fetch!All -> [url : 0..Urls, result : Fetch!Answers \cup {"none"}]]
        /\ \A x \in 1..Urls : out'[x].result # "none" => out'[x] = out[x] /\ out[x] # Fetch!Gap
        /\ \A x \in 1..Urls : out[x] = Fetch!Gap => out'[x] = Fetch!Gap
    BY <2>2
  <2> DEFINE good == {x \in 1..Urls : out'[x].result = "ok"}
             bad  == {x \in 1..Urls : out'[x].result # "ok"}
  <2>r. reach
    BY <1>4 DEF Fetch!Record, Fetch!Returned
  <2>g. \A x \in good : out'[x].url = x /\ answers[x] # <<>> /\ answers[x][Len(answers[x])] = "ok"
    BY <2>1, <2>3, <2>r
  <2>4. {out'[x].url : x \in good} = good
    <3>1. \A x \in good : out'[x].url = x
      BY <2>g
    <3> HIDE DEF good
    <3> QED
      BY <3>1
  <2>5. tally' = [outcome |-> IF bad = {} THEN "ok" ELSE "partial", results |-> good, failures |-> bad]
    BY <1>4, <2>4 DEF Fetch!Record, Fetch!Counted
  <2>6. \A x \in good : answers[x] # <<>> /\ answers[x][Len(answers[x])] = "ok"
    BY <2>g
  <2>7. good \cup bad = 1..Urls /\ good \cap bad = {} /\ (bad = {} => good = 1..Urls)
    OBVIOUS
  <2> HIDE DEF good, bad
  <2>8. NoSilentGap'
    BY <2>1, <2>5, <2>6, <2>7 DEF NoSilentGap, Fetch!NoSilentGap
  <2>9. FetchType'
    BY <2>1, <2>3, <2>5, <2>7
  <2> QED
    BY <2>1, <2>3, <2>5, <2>8, <2>9
<1>5. CASE UNCHANGED Fetch!fetchVars
  BY <1>5 DEF Fetch!fetchVars, NoSilentGap, Fetch!NoSilentGap
<1> QED
  BY <1>1, <1>2, <1>3, <1>4, <1>5 DEF Fetch!Next

\* Every url of a batch that returns is a result or a counted failure, and a
\* result only if that was its last answer.
THEOREM NoGapIsSilent == Fetch!Spec => []NoSilentGap
<1>1. Fetch!Init => FetchInv
  BY UrlsAssumption DEF Fetch!Init, FetchInv, FetchType, NoSilentGap, Fetch!NoSilentGap, Fetch!Pool, Fetch!All,
     Fetch!Finished, Fetch!Gap, Fetch!Waiting, Fetch!Answers
<1>2. FetchInv => NoSilentGap
  BY DEF FetchInv
<1> QED
  BY <1>1, <1>2, FetchStep, PTL DEF Fetch!Spec

-----------------------------------------------------------------------------
(* frames().                                                               *)

Replies == {"on", "off", "observe", "quiet"}

\* The waiter has been told of the frames of S, or will be.
Covered(S) == \A f \in S : f \in found \/ \E i \in DOMAIN sent : sent[i] = f

\* ... and before it is told that auto-attach is on.
CoveredFirst(S) ==
  \A f \in S : f \in found \/ \E i \in DOMAIN sent : sent[i] = f /\ \A j \in DOMAIN sent : sent[j] \in Replies => i < j

ListType ==
  /\ there \in SUBSET Frames /\ found \in SUBSET Frames /\ settled \in SUBSET Frames
  /\ attaching \in BOOLEAN
  /\ ask \in {"idle", "search", "searching", "off", "on", "turned", "observe", "quiet", "report"}
  /\ sent \in Seq(Frames \cup Replies)

\* One answer at a time, and only to what has been asked.
RepliesInv ==
  /\ \A i \in DOMAIN sent : sent[i] \in Replies =>
       \/ ask = "searching" /\ sent[i] = IF count = "zero" THEN "on" ELSE "off"
       \/ ask = "turned" /\ sent[i] \in {"observe", "quiet"}
  /\ \A i, j \in DOMAIN sent : sent[i] \in Replies /\ sent[j] \in Replies => i = j

\* After a zero nothing was there; what has come since was announced.
ListInv ==
  /\ ListType /\ RepliesInv
  /\ attaching /\ (ask = "on" \/ (ask = "searching" /\ count = "zero")) => Covered(there)
  /\ ask = "turned" => CoveredFirst(settled)
  /\ ask \in {"observe", "quiet", "report"} => settled \subseteq found

LEMMA SameCardinality == \A S : FrameList!Cardinality(S) = Cardinality(S)
BY DEF FrameList!Cardinality, Cardinality

LEMMA InsertsStep ==
  ASSUME ListInv, NEW f \in Frames, FrameList!Inserts(f)
  PROVE  ListInv'
<1> USE FramesAssumption DEF ListInv, ListType, RepliesInv, Covered, CoveredFirst, Replies
<1>1. CASE attaching
  <2>1. /\ sent' = Append(sent, f) /\ there' = there \cup {f}
        /\ UNCHANGED <<attaching, ask, count, found, settled>>
    BY <1>1 DEF FrameList!Inserts
  <2>2. /\ Len(sent) \in Nat /\ DOMAIN sent = 1..Len(sent) /\ DOMAIN sent' = 1..(Len(sent) + 1)
        /\ \A i \in 1..Len(sent) : sent'[i] = sent[i]
        /\ sent'[Len(sent) + 1] = f /\ f \notin Replies
    BY <2>1
  <2>3. ListType'
    BY <2>1
  <2>4. RepliesInv'
    BY <2>1, <2>2
  <2>5. Covered(there) => Covered(there)'
    BY <2>1, <2>2
  <2>6. CoveredFirst(settled) => CoveredFirst(settled)'
    BY <2>1, <2>2
  <2> QED
    BY <2>1, <2>3, <2>4, <2>5, <2>6
<1>2. CASE ~attaching
  BY <1>2 DEF FrameList!Inserts
<1> QED
  BY <1>1, <1>2

LEMMA DispatchStep ==
  ASSUME ListInv, FrameList!Dispatch
  PROVE  ListInv'
<1> USE FramesAssumption DEF ListInv, ListType
<1>1. /\ sent # <<>> /\ sent' = Tail(sent) /\ UNCHANGED <<there, attaching, count, settled>>
      /\ Head(sent) \in Frames \cup Replies
      /\ Head(sent) \in Frames => found' = (IF FrameList!Armed THEN found \cup {Head(sent)} ELSE found) /\ ask' = ask
      /\ Head(sent) \notin Frames => ask' = Head(sent) /\ found' = found
  BY DEF FrameList!Dispatch
<1>2. /\ Len(sent) \in Nat \ {0} /\ DOMAIN sent = 1..Len(sent) /\ DOMAIN sent' = 1..(Len(sent) - 1)
      /\ \A i \in 1..(Len(sent) - 1) : sent'[i] = sent[i + 1]
      /\ sent[1] = Head(sent) /\ sent' \in Seq(Frames \cup Replies)
  BY <1>1
<1>i. \A i \in DOMAIN sent : i = 1 \/ (i - 1 \in DOMAIN sent' /\ sent'[i - 1] = sent[i])
  BY <1>2
<1>3. CASE Head(sent) \in Frames
  <2>1. ask' = ask /\ ListType' /\ found \subseteq found' /\ (ask # "idle" => Head(sent) \in found')
    BY <1>1, <1>2, <1>3 DEF FrameList!Armed
  <2>2. RepliesInv'
    BY <1>1, <1>2, <2>1 DEF RepliesInv
  <2>3. ask # "idle" /\ Covered(there) => Covered(there)'
    <3> SUFFICES ASSUME ask # "idle", Covered(there), NEW f \in there, f \notin found'
                 PROVE  \E i \in DOMAIN sent' : sent'[i] = f
      BY <1>1 DEF Covered
    <3>1. PICK i \in DOMAIN sent : sent[i] = f
      BY <2>1 DEF Covered
    <3> QED
      BY <1>2, <1>i, <2>1, <3>1
  <2>4. ask # "idle" /\ CoveredFirst(settled) => CoveredFirst(settled)'
    <3> SUFFICES ASSUME ask # "idle", CoveredFirst(settled), NEW f \in settled, f \notin found'
                 PROVE  \E i \in DOMAIN sent' : sent'[i] = f /\ \A j \in DOMAIN sent' : sent'[j] \in Replies => i < j
      BY <1>1 DEF CoveredFirst
    <3>1. PICK i \in DOMAIN sent : sent[i] = f /\ \A j \in DOMAIN sent : sent[j] \in Replies => i < j
      BY <2>1 DEF CoveredFirst
    <3>2. i - 1 \in DOMAIN sent' /\ sent'[i - 1] = f
      BY <1>2, <1>i, <2>1, <3>1
    <3>3. ASSUME NEW j \in DOMAIN sent', sent'[j] \in Replies PROVE i - 1 < j
      <4>1. j + 1 \in DOMAIN sent /\ sent[j + 1] = sent'[j] /\ j \in Int /\ i \in Int
        BY <1>2, <3>1
      <4>2. i < j + 1
        BY <3>1, <3>3, <4>1
      <4> QED
        BY <4>1, <4>2
    <3> QED
      BY <3>2, <3>3
  <2> QED
    BY <1>1, <2>1, <2>2, <2>3, <2>4
<1>4. CASE Head(sent) \notin Frames
  <2>1. /\ ask' = Head(sent) /\ found' = found /\ sent[1] \in Replies
        /\ \A i \in DOMAIN sent' : sent'[i] \notin Replies
    BY <1>1, <1>2, <1>4 DEF RepliesInv
  <2>2. CASE ask = "searching"
    <3>1. ask' = IF count = "zero" THEN "on" ELSE "off"
      BY <1>2, <2>1, <2>2 DEF RepliesInv, Replies
    <3>2. Covered(there) => Covered(there)'
      <4> SUFFICES ASSUME Covered(there), NEW f \in there, f \notin found
                   PROVE  \E i \in DOMAIN sent' : sent'[i] = f
        BY <1>1, <2>1 DEF Covered
      <4>1. PICK i \in DOMAIN sent : sent[i] = f
        BY DEF Covered
      <4> QED
        BY <1>2, <1>i, <1>4, <4>1
    <3> QED
      BY <1>1, <1>2, <2>1, <2>2, <3>1, <3>2 DEF RepliesInv
  <2>3. CASE ask = "turned"
    <3>1. ask' \in {"observe", "quiet"}
      BY <1>2, <2>1, <2>3 DEF RepliesInv, Replies
    <3>2. settled \subseteq found
      BY <1>2, <2>1, <2>3 DEF CoveredFirst
    <3> QED
      BY <1>1, <1>2, <2>1, <2>3, <3>1, <3>2 DEF RepliesInv
  <2> QED
    BY <1>2, <2>1, <2>2, <2>3 DEF RepliesInv
<1> QED
  BY <1>3, <1>4

LEMMA TurnOnStep ==
  ASSUME ListInv, FrameList!TurnOn
  PROVE  ListInv'
<1> USE FramesAssumption DEF ListInv, ListType
<1> DEFINE answer == IF count = "zero" THEN "observe" ELSE "quiet"
<1>1. PICK s \in (IF attaching THEN {<<>>} ELSE FrameList!SeqsOf(there)) : sent' = sent \o s \o <<answer>>
  BY DEF FrameList!TurnOn
<1>2. /\ ask = "on" /\ ask' = "turned" /\ settled' = there
      /\ UNCHANGED <<there, count, found>> /\ attaching' = TRUE
  BY DEF FrameList!TurnOn
<1>3. Cardinality(there) \in Nat
  BY FS_Subset, FS_CardinalityType
<1>4. s \in Seq(Frames) /\ (attaching \/ \A f \in there : \E i \in DOMAIN s : s[i] = f)
  <2>1. CASE attaching
    BY <1>1, <2>1
  <2>2. CASE ~attaching
    <3> DEFINE c == Cardinality(there)
    <3>1. s \in [1..c -> there] /\ \A f \in there : \E i \in DOMAIN s : s[i] = f
      BY <1>1, <2>2, SameCardinality DEF FrameList!SeqsOf
    <3> HIDE DEF c
    <3>2. c \in Nat
      BY <1>3 DEF c
    <3> QED
      BY <3>1, <3>2
  <2> QED
    BY <2>1, <2>2
<1>5. answer \in Replies
  BY DEF Replies
<1> HIDE DEF answer
<1> DEFINE n == Len(sent) + Len(s)
<1>6. /\ Len(sent) \in Nat /\ DOMAIN sent = 1..Len(sent) /\ Len(s) \in Nat /\ DOMAIN s = 1..Len(s)
      /\ sent' \in Seq(Frames \cup Replies) /\ DOMAIN sent' = 1..(n + 1) /\ n \in Nat
      /\ \A i \in 1..Len(sent) : sent'[i] = sent[i]
      /\ \A i \in 1..Len(s) : sent'[Len(sent) + i] = s[i]
      /\ sent'[n + 1] = answer
  BY <1>1, <1>4, <1>5
<1>7. \A i \in 1..n : sent'[i] \in Frames
  <2>1. \A i \in 1..Len(sent) : sent[i] \in Frames
    BY <1>2, <1>6 DEF RepliesInv, Replies
  <2>2. \A i \in 1..n : i \in 1..Len(sent) \/ \E m \in 1..Len(s) : i = Len(sent) + m
    <3> TAKE i \in 1..n
    <3>1. i \in 1..Len(sent) \/ (i - Len(sent) \in 1..Len(s) /\ i = Len(sent) + (i - Len(sent)))
      BY <1>6
    <3> QED
      BY <3>1
  <2> QED
    <3>1. \A m \in 1..Len(s) : s[m] \in Frames
      BY <1>4, <1>6
    <3> QED
      BY <1>6, <2>1, <2>2, <3>1
<1> HIDE DEF n
<1>8. RepliesInv'
  <2>1. \A i \in DOMAIN sent' : sent'[i] \in Replies => i = n + 1
    BY <1>6, <1>7 DEF Replies
  <2> QED
    BY <1>2, <1>6, <2>1 DEF RepliesInv, answer
<1>9. CoveredFirst(settled)'
  <2> SUFFICES ASSUME NEW f \in there, f \notin found
               PROVE  \E i \in DOMAIN sent' : sent'[i] = f /\ \A j \in DOMAIN sent' : sent'[j] \in Replies => i < j
    BY <1>2 DEF CoveredFirst
  <2>1. \E i \in 1..n : sent'[i] = f
    <3>1. CASE attaching
      BY <1>2, <1>6, <3>1 DEF Covered, n
    <3>2. CASE ~attaching
      BY <1>4, <1>6, <3>2 DEF n
    <3> QED
      BY <3>1, <3>2
  <2> QED
    BY <1>6, <1>7, <2>1 DEF Replies
<1> QED
  BY <1>2, <1>6, <1>8, <1>9

LEMMA ListStep ==
  ASSUME ListInv, [FrameList!Next]_(FrameList!framesVars)
  PROVE  ListInv'
<1> USE DEF ListInv, ListType
<1>1. CASE FrameList!Begin
  BY <1>1 DEF FrameList!Begin, RepliesInv
<1>2. CASE FrameList!Search
  <2>1. /\ ask = "search" /\ ask' = "searching" /\ UNCHANGED <<there, attaching, found, settled>>
        /\ sent' = Append(sent, IF count' = "zero" THEN "on" ELSE "off")
        /\ count' = "zero" => there = {}
    BY <1>2 DEF FrameList!Search
  <2>2. \A i \in DOMAIN sent : sent[i] \notin Replies
    BY <2>1 DEF RepliesInv
  <2>3. sent' \in Seq(Frames \cup Replies)
    BY <2>1 DEF Replies
  <2>4. RepliesInv'
    BY <2>1, <2>2 DEF RepliesInv
  <2> QED
    BY <2>1, <2>3, <2>4 DEF Covered
<1>3. CASE FrameList!TurnOff
  BY <1>3 DEF FrameList!TurnOff, RepliesInv
<1>4. CASE FrameList!Observe \/ FrameList!WindowOver \/ FrameList!Report
  BY <1>4 DEF FrameList!Observe, FrameList!WindowOver, FrameList!Report, RepliesInv
<1>5. CASE UNCHANGED FrameList!framesVars
  BY <1>5 DEF FrameList!framesVars, RepliesInv, Covered, CoveredFirst
<1> QED
  BY <1>1, <1>2, <1>3, <1>4, <1>5, InsertsStep, DispatchStep, TurnOnStep DEF FrameList!Next

\* The report names every frame that was there when auto-attach was turned on,
\* one that came between the search and that moment too.
THEOREM NoFrameLeftOut == FrameList!Spec => []NoneLeftOut
<1>1. FrameList!Init => ListInv
  BY DEF FrameList!Init, ListInv, ListType, RepliesInv
<1>2. ListInv => NoneLeftOut
  BY DEF ListInv, NoneLeftOut, FrameList!NoneLeftOut
<1> QED
  BY <1>1, <1>2, ListStep, PTL DEF FrameList!Spec

-----------------------------------------------------------------------------
(* watch_document().                                                       *)

WatchAnswers == {"matched", "watching"}
Arrivals == {"binding", "cleared", "navigated"} \cup WatchAnswers

\* An observer runs that will see the next change, and sees the condition as
\* it is.
Guarded1(n) == running[n] >= 1 /\ (holds => changed)

WatchType ==
  /\ holds \in BOOLEAN /\ changed \in BOOLEAN /\ flagged \in BOOLEAN
  /\ running \in [Watch!Calls -> Nat]
  /\ stream \in Seq(Arrivals) /\ watchHits \in Seq(Arrivals)
  /\ wait \in [n : 0..MaxCalls, kind : Watch!Kinds, pc : {"idle", "probe", "asked", "wait", "unwatch"},
               result : {"none", "terminal", "binding", "stable", "timeout", "raised"}]
  /\ Watch!In("idle") \/ wait.n \in Watch!Calls

\* An evaluation has one answer, and nothing else does.
OneAnswer ==
  /\ \A i \in DOMAIN stream : stream[i] \in WatchAnswers => Watch!In("asked")
  /\ \A i, j \in DOMAIN stream : stream[i] \in WatchAnswers /\ stream[j] \in WatchAnswers => i = j

\* From the moment the observer is left: it is there, or something it or the
\* browser has sent since is on its way.
WatchInv ==
  /\ WatchType /\ OneAnswer
  /\ Watch!In("wait") /\ wait.kind # "selector" => Guarded1(wait.n) \/ stream # <<>> \/ watchHits # <<>>
  /\ Watch!In("asked") /\ wait.kind # "selector" =>
       \A i \in DOMAIN stream : stream[i] = "watching" => Guarded1(wait.n) \/ i < Len(stream) \/ watchHits # <<>>

\* What the browser sends goes behind what it has sent.
LEMMA ArrivesBehind ==
  ASSUME WatchInv, NEW e \in Seq(Arrivals \ WatchAnswers), stream' = stream \o e, e # <<>>,
         UNCHANGED <<wait, flagged, watchHits>>, holds' \in BOOLEAN, changed' \in BOOLEAN,
         running' \in [Watch!Calls -> Nat]
  PROVE  WatchInv'
<1> USE DEF WatchInv, WatchType, Watch!In
<1>1. /\ Len(stream) \in Nat /\ DOMAIN stream = 1..Len(stream) /\ Len(e) \in Nat \ {0}
      /\ Len(stream') = Len(stream) + Len(e) /\ DOMAIN stream' = 1..(Len(stream) + Len(e))
      /\ \A i \in DOMAIN stream : stream'[i] = stream[i] /\ i < Len(stream')
      /\ \A i \in DOMAIN stream' : i > Len(stream) => stream'[i] \in Arrivals \ WatchAnswers
      /\ stream' \in Seq(Arrivals) /\ stream' # <<>>
  BY ConcatProperties
<1>2. \A i \in DOMAIN stream' : stream'[i] \in WatchAnswers => i \in DOMAIN stream
  BY <1>1
<1>3. WatchType' /\ OneAnswer'
  BY <1>1, <1>2 DEF OneAnswer
<1>4. \A i \in DOMAIN stream' : stream'[i] = "watching" => i < Len(stream')
  BY <1>1, <1>2 DEF WatchAnswers
<1> QED
  BY <1>1, <1>3, <1>4

LEMMA WatchAnswered ==
  ASSUME Watch!Dispatch
  PROVE  /\ Head(stream) = "matched" =>
              /\ wait' = [wait EXCEPT !.pc = IF flagged THEN "unwatch" ELSE "idle", !.result = "terminal"]
              /\ flagged' = flagged /\ watchHits' = watchHits
         /\ Head(stream) = "watching" =>
              wait' = [wait EXCEPT !.pc = "wait"] /\ flagged' = TRUE /\ watchHits' = watchHits
<1>1. CASE Head(stream) = "matched"
  BY <1>1 DEF Watch!Dispatch
<1>2. CASE Head(stream) = "watching"
  BY <1>2 DEF Watch!Dispatch, Watch!Goes
<1> QED
  BY <1>1, <1>2

LEMMA WatchDispatchStep ==
  ASSUME WatchInv, Watch!Dispatch
  PROVE  WatchInv'
<1> USE DEF WatchInv, WatchType, Watch!In
<1>1. /\ stream # <<>> /\ stream' = Tail(stream) /\ UNCHANGED <<holds, changed, running>>
      /\ Head(stream) = stream[1] /\ Head(stream) \in Arrivals
      /\ Len(stream) \in Nat \ {0} /\ DOMAIN stream = 1..Len(stream)
      /\ Len(stream') = Len(stream) - 1 /\ DOMAIN stream' = 1..(Len(stream) - 1) /\ stream' \in Seq(Arrivals)
      /\ \A i \in DOMAIN stream' : stream'[i] = stream[i + 1] /\ i + 1 \in DOMAIN stream
  BY DEF Watch!Dispatch, Watch!pageVars
<1>2. OneAnswer' \/ ~Watch!In("asked")'
  BY <1>1 DEF OneAnswer, Watch!Dispatch
<1>3. CASE Head(stream) \in WatchAnswers
  <2>1. \A i \in DOMAIN stream' : stream'[i] \notin WatchAnswers
    BY <1>1, <1>3 DEF OneAnswer
  <2>2. OneAnswer'
    BY <2>1 DEF OneAnswer
  <2>a. /\ UNCHANGED watchHits /\ flagged' \in BOOLEAN /\ wait.pc = "asked"
        /\ \/ /\ Head(stream) = "matched"
              /\ \E p \in {"unwatch", "idle"} : wait' = [wait EXCEPT !.pc = p, !.result = "terminal"]
           \/ Head(stream) = "watching" /\ wait' = [wait EXCEPT !.pc = "wait"]
    <3>1. wait.pc = "asked"
      BY <1>1, <1>3 DEF OneAnswer
    <3>2. CASE Head(stream) = "matched"
      <4>1. wait' = [wait EXCEPT !.pc = IF flagged THEN "unwatch" ELSE "idle", !.result = "terminal"]
            /\ UNCHANGED <<flagged, watchHits>>
        BY <3>2, WatchAnswered
      <4> QED
        BY <3>1, <3>2, <4>1
    <3>3. CASE Head(stream) = "watching"
      <4>1. wait' = [wait EXCEPT !.pc = "wait"] /\ flagged' = TRUE /\ UNCHANGED watchHits
        BY <3>3, WatchAnswered
      <4> QED
        BY <3>1, <3>3, <4>1
    <3> QED
      BY <1>3, <3>2, <3>3 DEF WatchAnswers
  <2>3. WatchType' /\ ~Watch!In("asked")' /\ UNCHANGED watchHits
    BY <1>1, <2>a
  <2>4. Watch!In("wait")' => Head(stream) = "watching" /\ wait'.n = wait.n /\ wait'.kind = wait.kind
    BY <1>1, <2>a
  <2>5. Watch!In("wait")' /\ wait'.kind # "selector" => Guarded1(wait.n) \/ 1 < Len(stream) \/ watchHits # <<>>
    BY <1>1, <1>3, <2>4 DEF OneAnswer
  <2>6. 1 < Len(stream) => stream' # <<>>
    <3>1. Len(<<>>) = 0
      OBVIOUS
    <3>2. 1 < Len(stream) => Len(stream') # 0
      BY <1>1
    <3> QED
      BY <3>1, <3>2
  <2> QED
    BY <1>1, <2>2, <2>3, <2>4, <2>5, <2>6 DEF Guarded1
<1>4. CASE Head(stream) \notin WatchAnswers
  <2>1. /\ UNCHANGED <<wait, flagged>>
        /\ watchHits' = watchHits \/ watchHits' = Append(watchHits, Head(stream))
        /\ ~Watch!In("idle") /\ wait.kind # "selector" => watchHits' = Append(watchHits, Head(stream))
    BY <1>1, <1>4 DEF Watch!Dispatch, Watch!Heard, WatchAnswers
  <2>2. watchHits' \in Seq(Arrivals) /\ (~Watch!In("idle") /\ wait.kind # "selector" => watchHits' # <<>>)
    <3>1. CASE watchHits' = Append(watchHits, Head(stream))
      BY <1>1, <3>1, AppendProperties
    <3>2. CASE watchHits' = watchHits
      BY <2>1, <3>2, AppendInjective
    <3> QED
      BY <2>1, <3>1, <3>2
  <2>3. OneAnswer'
    BY <1>1, <2>1 DEF OneAnswer
  <2> QED
    BY <1>1, <2>1, <2>2, <2>3
<1> QED
  BY <1>3, <1>4

LEMMA WatchStep ==
  ASSUME WatchInv, [Watch!Next]_(Watch!watchVars)
  PROVE  WatchInv'
<1> USE DEF WatchInv, WatchType, Watch!In, Watch!pageVars
<1>1. CASE Watch!Changes
  BY <1>1 DEF Watch!Changes, OneAnswer, Guarded1
<1>2. CASE Watch!Callbacks
  <2>1. CASE holds
    <3> DEFINE e == [i \in 1..(IF Watch!In("idle") THEN 0 ELSE running[wait.n]) |-> "binding"]
    <3>1. /\ stream' = stream \o e /\ running' = [c \in Watch!Calls |-> 0] /\ changed' = FALSE
          /\ UNCHANGED <<holds, wait, flagged, watchHits>>
      BY <1>2, <2>1 DEF Watch!Callbacks, Watch!Emits
    <3>2. e \in Seq(Arrivals \ WatchAnswers)
      BY SMTT(30) DEF Arrivals, WatchAnswers
    <3>3. CASE e = <<>>
      <4>1. stream' = stream
        BY <3>1, <3>3, ConcatEmptySeq
      <4>2. Watch!In("idle") \/ running[wait.n] = 0
        <5> SUFFICES ASSUME ~Watch!In("idle")
                     PROVE  running[wait.n] = 0
          OBVIOUS
        <5>1. running[wait.n] \in Nat /\ DOMAIN e = 1..running[wait.n] /\ DOMAIN e = {}
          BY <3>3
        <5> QED
          BY <5>1
      <4>3. WatchType' /\ OneAnswer'
        BY <3>1, <4>1 DEF OneAnswer
      <4>4. ~Watch!In("idle") => ~Guarded1(wait.n)
        BY <4>2 DEF Guarded1
      <4> QED
        BY <3>1, <4>1, <4>3, <4>4
    <3>4. CASE e # <<>>
      BY <3>1, <3>2, <3>4, ArrivesBehind
    <3> QED
      BY <3>3, <3>4
  <2>2. CASE ~holds
    BY <1>2, <2>2 DEF Watch!Callbacks, OneAnswer, Guarded1
  <2> QED
    BY <2>1, <2>2
<1>3. CASE Watch!Replaces
  <2>1. <<"cleared", "navigated">> \in Seq(Arrivals \ WatchAnswers) /\ <<"cleared", "navigated">> # <<>>
    BY DEF Arrivals, WatchAnswers
  <2> QED
    BY <1>3, <2>1, ArrivesBehind DEF Watch!Replaces, Watch!Emits
<1>4. CASE Watch!SubframeNavigates
  <2>1. <<"navigated">> \in Seq(Arrivals \ WatchAnswers) /\ <<"navigated">> # <<>>
    BY DEF Arrivals, WatchAnswers
  <2> QED
    BY <1>4, <2>1, ArrivesBehind DEF Watch!SubframeNavigates, Watch!Emits
<1>5. CASE Watch!Begin
  <2>1. PICK m \in Watch!Kinds : wait' = [n |-> wait.n + 1, kind |-> m, pc |-> "probe", result |-> "none"]
    BY <1>5 DEF Watch!Begin
  <2>2. /\ stream = <<>> /\ stream' = <<>> /\ watchHits' = <<>> /\ wait.n < MaxCalls
        /\ UNCHANGED <<holds, changed, running>> /\ flagged' = FALSE
    BY <1>5 DEF Watch!Begin
  <2>3. wait'.n \in Watch!Calls /\ wait'.pc = "probe"
    BY <2>1, <2>2, CallsAssumption DEF Watch!Calls
  <2>4. WatchType'
    <3>1. wait.n + 1 \in 0..MaxCalls
      BY <2>1, <2>3 DEF Watch!Calls
    <3>2. wait' \in [n : 0..MaxCalls, kind : Watch!Kinds, pc : {"idle", "probe", "asked", "wait", "unwatch"},
                     result : {"none", "terminal", "binding", "stable", "timeout", "raised"}]
      BY <2>1, <3>1
    <3> QED
      BY <2>2, <2>3, <3>2
  <2>5. OneAnswer'
    BY <2>2 DEF OneAnswer
  <2> QED
    BY <2>3, <2>4, <2>5
<1>6. CASE Watch!Probe
  <2>1. /\ Watch!In("probe") /\ wait' = [wait EXCEPT !.pc = "asked"]
        /\ UNCHANGED <<shown, holds, changed, flagged, watchHits>>
        /\ \/ stream' = stream \o <<"matched">> /\ running' = [running EXCEPT ![wait.n] = 0]
           \/ ~holds /\ stream' = stream \o <<"watching">> /\ running' = [running EXCEPT ![wait.n] = 1]
    BY <1>6 DEF Watch!Probe, Watch!Looks, Watch!Goes, Watch!Emits
  <2>2. PICK a \in WatchAnswers :
          /\ stream' = Append(stream, a)
          /\ a = "watching" => Guarded1(wait.n)'
    BY <2>1 DEF WatchAnswers, Guarded1
  <2>3. \A i \in DOMAIN stream : stream[i] \notin WatchAnswers
    BY <2>1 DEF OneAnswer
  <2>4. /\ Len(stream) \in Nat /\ DOMAIN stream = 1..Len(stream) /\ DOMAIN stream' = 1..(Len(stream) + 1)
        /\ \A i \in 1..Len(stream) : stream'[i] = stream[i]
        /\ stream'[Len(stream) + 1] = a /\ stream' \in Seq(Arrivals)
    BY <2>2 DEF Arrivals
  <2>5. \A i \in DOMAIN stream' : stream'[i] \in WatchAnswers => i = Len(stream) + 1
    BY <2>3, <2>4
  <2>6. OneAnswer' /\ WatchType'
    <3>1. wait'.pc = "asked" /\ wait'.n = wait.n /\ wait.n \in Watch!Calls
      BY <2>1
    <3>2. running' \in [Watch!Calls -> Nat]
      BY <2>1
    <3>3. OneAnswer'
      BY <2>5, <3>1 DEF OneAnswer
    <3>4. wait' \in [n : 0..MaxCalls, kind : Watch!Kinds, pc : {"idle", "probe", "asked", "wait", "unwatch"},
                     result : {"none", "terminal", "binding", "stable", "timeout", "raised"}]
      BY <2>1
    <3> QED
      BY <2>1, <2>4, <3>1, <3>2, <3>3, <3>4
  <2>7. \A i \in DOMAIN stream' : stream'[i] = "watching" => Guarded1(wait.n)'
    BY <2>2, <2>4, <2>5 DEF WatchAnswers
  <2> QED
    BY <2>1, <2>6, <2>7
<1>7. CASE Watch!Wake
  <2>1. /\ wait.pc = "wait" /\ watchHits' \in Seq(Arrivals) /\ flagged' = FALSE
        /\ wait' = [wait EXCEPT !.pc = "idle", !.result = "binding"] \/ wait' = [wait EXCEPT !.pc = "probe"]
        /\ UNCHANGED <<holds, changed, running, stream>>
    BY <1>7 DEF Watch!Wake, Watch!Goes
  <2>2. OneAnswer'
    BY <2>1 DEF OneAnswer
  <2> QED
    BY <2>1, <2>2
<1>8. CASE Watch!FallsQuiet \/ Watch!OutOfTime
  BY <1>8 DEF Watch!FallsQuiet, Watch!OutOfTime, OneAnswer
<1>9. CASE Watch!Unwatch
  BY <1>9 DEF Watch!Unwatch, Watch!Goes, OneAnswer
<1>10. CASE UNCHANGED Watch!watchVars
  BY <1>10 DEF Watch!watchVars, OneAnswer, Guarded1
<1> QED
  BY <1>1, <1>2, <1>3, <1>4, <1>5, <1>6, <1>7, <1>8, <1>9, <1>10, WatchDispatchStep DEF Watch!Next

\* No wait of watch_document() sleeps over the moment it waits for.
THEOREM NoMomentMissed == Watch!Spec => []NothingMissed
<1>1. Watch!Init => WatchInv
  <2> SUFFICES ASSUME Watch!Init PROVE WatchInv
    OBVIOUS
  <2>1. WatchType
    <3>1. running \in [Watch!Calls -> Nat] /\ stream \in Seq(Arrivals) /\ watchHits \in Seq(Arrivals)
      BY DEF Watch!Init
    <3>2. wait \in [n : 0..MaxCalls, kind : Watch!Kinds, pc : {"idle", "probe", "asked", "wait", "unwatch"},
                    result : {"none", "terminal", "binding", "stable", "timeout", "raised"}]
      BY CallsAssumption DEF Watch!Init, Watch!Kinds
    <3> QED
      BY <3>1, <3>2 DEF Watch!Init, WatchType, Watch!In
  <2>2. OneAnswer /\ wait.pc = "idle"
    BY DEF Watch!Init, OneAnswer
  <2> QED
    BY <2>1, <2>2 DEF WatchInv, Watch!In
<1>2. WatchInv => NothingMissed
  BY DEF WatchInv, NothingMissed, Watch!NothingMissed, Guarded1
<1> QED
  BY <1>1, <1>2, WatchStep, PTL DEF Watch!Spec

-----------------------------------------------------------------------------
(* A navigation, and the session it goes through.                          *)

WorldType ==
  /\ DOMAIN tab = {"sid", "world", "frame", "healed"} /\ tab.sid \in Nat
  /\ DOMAIN op = {"kind", "at", "via", "ctx", "tries", "made", "stamp", "result"} /\ op.via \in Nat
  /\ live \in Nat

\* A session the tab holds on to is one it has armed, or tried to in vain; what
\* it is about to arm is not yet.
WorldInv ==
  /\ WorldType
  /\ tab.sid <= live /\ op.via <= live
  /\ op.kind # "none" => op.result = "none"
  /\ tab.sid = live /\ op.at # "rearm" => live \in armedOn \cup failedOn
  /\ op.at = "send" /\ op.via = live => live \in armedOn \cup failedOn

LEMMA WorldStep ==
  ASSUME WorldInv, [World!Next]_(World!worldVars)
  PROVE  /\ WorldInv'
         /\ op.kind = "navigate" /\ op'.result = "navigated" /\ ~(UNCHANGED World!worldVars) =>
              doc' \in guarded' \/ live \in failedOn
<1> USE DEF WorldInv, WorldType, World!callVars, World!sessionVars, World!docVars, World!wireVars, World!Goes, World!Ends,
            World!Idle, World!AfterSid
<1>1. CASE World!Begin
  BY <1>1 DEF World!Begin
<1>2. CASE World!EnsureWorld
  BY <1>2 DEF World!EnsureWorld
<1>3. CASE World!Sid
  BY <1>3 DEF World!Sid
<1>4. CASE World!Rearm
  BY <1>4 DEF World!Rearm
<1>5. CASE World!CreateWorld \/ World!CreateWorldFails \/ World!WorldCreated
  <2>1. CASE World!CreateWorld
    BY <2>1 DEF World!CreateWorld
  <2>2. CASE World!CreateWorldFails
    BY <2>2 DEF World!CreateWorldFails
  <2>3. CASE World!WorldCreated
    BY <2>3 DEF World!WorldCreated
  <2> QED
    BY <1>5, <2>1, <2>2, <2>3
<1>6. CASE World!Evaluate
  BY <1>6 DEF World!Evaluate
<1>7. CASE World!Heal \/ World!EvaluateFails \/ World!SessionGone
  <2>1. CASE World!Heal
    BY <2>1 DEF World!Heal
  <2>2. CASE World!EvaluateFails
    <3>1. CASE op.tries = 0
      BY <2>2, <3>1 DEF World!EvaluateFails
    <3>2. CASE op.tries # 0
      BY <2>2, <3>2 DEF World!EvaluateFails
    <3> QED
      BY <3>1, <3>2
  <2>3. CASE World!SessionGone
    BY <2>3 DEF World!SessionGone
  <2> QED
    BY <1>7, <2>1, <2>2, <2>3
<1>8. CASE World!Navigate
  BY <1>8 DEF World!Navigate
<1>9. CASE World!OnReplaced
  BY <1>9 DEF World!OnReplaced
<1>10. CASE World!PageNavigates \/ World!SessionReplaced
  BY <1>10 DEF World!PageNavigates, World!SessionReplaced
<1>11. CASE UNCHANGED World!worldVars
  BY <1>11 DEF World!worldVars
<1> QED
  BY <1>1, <1>2, <1>3, <1>4, <1>5, <1>6, <1>7, <1>8, <1>9, <1>10, <1>11 DEF World!Next, World!Caller

\* A navigation the program asks for loads a document under the dry-run guard,
\* whatever became of the session before, unless installing it has failed.
THEOREM NavigationsAreGuarded == World!Spec => NavigatesGuarded
<1> DEFINE Under == op.kind = "navigate" /\ op'.result = "navigated" => doc' \in guarded' \/ live \in failedOn
<1>1. World!Init => WorldInv
  BY DEF World!Init, WorldInv, WorldType, World!Idle
<1>2. WorldInv /\ [World!Next]_(World!worldVars) => WorldInv' /\ [Under]_(World!worldVars)
  BY WorldStep
<1> QED
  BY <1>1, <1>2, PTL DEF World!Spec, NavigatesGuarded, World!NavigatesGuarded

-----------------------------------------------------------------------------
(* A click and its dialogs.                                                *)

Happening == [kind : {"opening"}, dialog : Click!Dialogs] \cup [kind : {"target"}, dialog : {0}]
Seen == {"nothing", "navigation", "mutation", "state"}
Consequences == {"state", "mutation", "internal", "target", "dialog", "navigation"}

ClickType ==
  /\ runs \in 0..2 /\ pendingDlg \in 0..MaxDialogs /\ autoDlg \subseteq Click!Dialogs
  /\ kinds \in [Click!Dialogs -> {"none", "alert", "beforeunload"}]
  /\ events \in Seq(Happening)
  /\ done \in [dialog : 0..MaxDialogs, seen : Seen, modality : {"compositor", "dom"}, retry : BOOLEAN]

\* A dialog the reader knows of is pending, or a thread has dismissed it.
Known == pendingDlg # 0 \/ autoDlg # {}
Coming(kind) == \E i \in 1..Len(events) : events[i].kind = kind

\* What the first run of the handler did stays visible to the click until it has decided whether
\* to repeat it: a tab it opened is under way or counted; a dialog is under way, pending,
\* dismissed, or already in what the click has seen.
TraceInv ==
  /\ step = "dispatch" => runs = 0
  /\ runs = 0 => effect = "nothing"
  /\ runs # 0 => effect \in Consequences
  /\ runs = 1 /\ effect = "target" => newTargets # 0 \/ Coming("target")
  /\ runs = 1 /\ effect = "dialog" =>
       /\ step = "settle" => Known \/ Coming("opening")
       /\ step = "pop" => Known
       /\ step \in {"handle", "observe"} => done.dialog # 0
  /\ runs = 1 /\ step = "activate" => effect \in {"internal", "navigation"}

ClickInv == ClickType /\ TraceInv

\* The page opens a dialog with a number of its own.
LEMMA OpensOne ==
  ASSUME ClickInv, NEW what \in {"alert", "beforeunload"}, Click!Opens(what), DialogsAssumption
  PROVE  /\ kinds' \in [Click!Dialogs -> {"none", "alert", "beforeunload"}]
         /\ events' \in Seq(Happening) /\ Len(events') = Len(events) + 1
         /\ \A i \in 1..Len(events) : events'[i] = events[i]
         /\ events'[Len(events) + 1].kind = "opening"
<1>1. Click!Cardinality(Click!Asked) = Cardinality(Click!Asked)
  BY DEF Click!Cardinality, Cardinality
<1>2. IsFiniteSet(Click!Dialogs)
  BY FS_Interval, DialogsAssumption DEF Click!Dialogs, DialogsAssumption
<1>3. Cardinality(Click!Asked) \in Nat
  BY <1>2, FS_Subset, FS_CardinalityType DEF Click!Asked
<1>4. Click!Next1 \in Click!Dialogs
  BY <1>1, <1>3 DEF Click!Next1, Click!Dialogs, Click!Opens, DialogsAssumption
<1>5. [kind |-> "opening", dialog |-> Click!Next1] \in Happening
  BY <1>4 DEF Happening
<1>6. events \in Seq(Happening) /\ events' = Append(events, [kind |-> "opening", dialog |-> Click!Next1])
  BY DEF ClickInv, ClickType, Click!Opens
<1>7. kinds' = [kinds EXCEPT ![Click!Next1] = what]
  BY DEF Click!Opens
<1> HIDE DEF Happening
<1> QED
  BY <1>4, <1>5, <1>6, <1>7, AppendProperties DEF ClickInv, ClickType

\* What is under way stays so while something is added.
LEMMA StillComing ==
  ASSUME Len(events) \in Nat, Len(events') = Len(events) + 1, \A i \in 1..Len(events) : events'[i] = events[i]
  PROVE  \A what : Coming(what) => Coming(what)'
<1> TAKE what
<1> SUFFICES ASSUME NEW i \in 1..Len(events), events[i].kind = what
             PROVE  Coming(what)'
  BY DEF Coming
<1>1. i \in 1..Len(events') /\ events'[i].kind = what
  OBVIOUS
<1> QED
  BY <1>1 DEF Coming

\* The handler runs once more.
LEMMA HandlerDoes ==
  ASSUME ClickInv, Click!Handler, DialogsAssumption
  PROVE  /\ runs' = runs + 1 /\ effect' \in Consequences
         /\ kinds' \in [Click!Dialogs -> {"none", "alert", "beforeunload"}] /\ events' \in Seq(Happening)
         /\ effect' = "target" => Coming("target")'
         /\ effect' = "dialog" => Coming("opening")'
<1>0. events \in Seq(Happening) /\ Len(events) \in Nat
  BY LenProperties DEF ClickInv, ClickType
<1>1. CASE /\ effect' \in {"state", "mutation", "internal", "navigation"} /\ UNCHANGED <<kinds, events>>
  BY <1>1 DEF Click!Handler, ClickInv, ClickType, Consequences
<1>2. CASE effect' = "target" /\ UNCHANGED kinds /\ events' = Append(events, [kind |-> "target", dialog |-> 0])
  <2>1. [kind |-> "target", dialog |-> 0] \in Happening
    BY DEF Happening
  <2>2. /\ events' \in Seq(Happening) /\ Len(events') = Len(events) + 1
        /\ events'[Len(events) + 1].kind = "target"
    BY <1>0, <1>2, <2>1, AppendProperties
  <2>3. Coming("target")'
    BY <1>0, <2>2 DEF Coming
  <2> QED
    BY <1>2, <2>2, <2>3 DEF Click!Handler, ClickInv, ClickType, Consequences
<1>3. CASE effect' \in {"dialog", "navigation"} /\ \E what \in {"alert", "beforeunload"} : Click!Opens(what)
  <2>1. /\ kinds' \in [Click!Dialogs -> {"none", "alert", "beforeunload"}]
        /\ events' \in Seq(Happening) /\ Len(events') = Len(events) + 1
        /\ events'[Len(events) + 1].kind = "opening"
    BY <1>3, OpensOne
  <2>2. Coming("opening")'
    BY <1>0, <2>1 DEF Coming
  <2> QED
    BY <1>3, <2>1, <2>2 DEF Click!Handler, Consequences
<1> QED
  BY <1>1, <1>2, <1>3 DEF Click!Handler, Click!browserVars

LEMMA PageDoes ==
  ASSUME ClickInv, Click!PageOpens \/ Click!PageCloses, DialogsAssumption
  PROVE  ClickInv'
<1>0. events \in Seq(Happening) /\ Len(events) \in Nat
  BY LenProperties DEF ClickInv, ClickType
<1>1. CASE Click!PageOpens
  <2>1. /\ kinds' \in [Click!Dialogs -> {"none", "alert", "beforeunload"}] /\ events' \in Seq(Happening)
        /\ Len(events') = Len(events) + 1 /\ \A i \in 1..Len(events) : events'[i] = events[i]
    BY <1>1, OpensOne DEF Click!PageOpens
  <2>2. \A what : Coming(what) => Coming(what)'
    BY <1>0, <2>1, StillComing
  <2> QED
    BY <1>1, <2>1, <2>2 DEF ClickInv, ClickType, TraceInv, Known, Click!PageOpens, Click!handlerVars
<1>2. CASE Click!PageCloses
  BY <1>2 DEF ClickInv, ClickType, TraceInv, Known, Coming, Click!PageCloses, Click!Closes, Click!handlerVars
<1> QED
  BY <1>1, <1>2

\* The reader takes the next event.
LEMMA ReaderDoes ==
  ASSUME ClickInv, Click!OnEvent
  PROVE  ClickInv'
<1>1. /\ events \in Seq(Happening) /\ events # <<>> /\ events' = Tail(events)
  BY DEF ClickInv, ClickType, Click!OnEvent
<1>2. /\ Head(events) \in Happening /\ Head(events) = events[1] /\ events' \in Seq(Happening)
      /\ Len(events) \in Nat /\ Len(events') = Len(events) - 1
      /\ \A i \in 1..Len(events') : events'[i] = events[i + 1]
  BY <1>1, HeadTailProperties, LenProperties
<1>3. \A what : Coming(what) => Coming(what)' \/ Head(events).kind = what
  <2> TAKE what
  <2> SUFFICES ASSUME NEW i \in 1..Len(events), events[i].kind = what, i # 1
               PROVE  Coming(what)'
    BY <1>2 DEF Coming
  <2>1. i - 1 \in 1..Len(events') /\ events'[i - 1] = events[i]
    BY <1>2
  <2> QED
    BY <2>1 DEF Coming
<1>4. UNCHANGED <<step, done, runs, effect, autoDlg, kinds>>
  BY DEF Click!OnEvent, Click!handlerVars, Click!browserVars
<1>5. CASE Head(events).kind = "opening"
  <2>1. Head(events).dialog \in Click!Dialogs /\ pendingDlg' = Head(events).dialog /\ newTargets' = newTargets
    BY <1>2, <1>5 DEF Happening, Click!OnEvent
  <2>2. pendingDlg' # 0 /\ pendingDlg' \in 0..MaxDialogs
    BY <2>1 DEF Click!Dialogs
  <2> QED
    BY <1>2, <1>3, <1>4, <1>5, <2>1, <2>2 DEF ClickInv, ClickType, TraceInv, Known
<1>6. CASE Head(events).kind # "opening"
  <2>1. newTargets' = 1 /\ pendingDlg' = pendingDlg
    BY <1>6 DEF Click!OnEvent
  <2> QED
    BY <1>2, <1>3, <1>4, <1>6, <2>1 DEF ClickInv, ClickType, TraceInv, Known
<1> QED
  BY <1>5, <1>6

LEMMA ResolverDoes ==
  ASSUME ClickInv, NEW d \in Click!Dialogs, Click!Resolver(d), DialogsAssumption
  PROVE  ClickInv'
<1>1. UNCHANGED <<step, done, runs, effect, kinds, events, newTargets>>
  BY DEF Click!Resolver, Click!GraceOver, Click!Resolve, Click!Clear, Click!handlerVars, Click!browserVars, Click!Closes
<1>2. pendingDlg' \in 0..MaxDialogs /\ autoDlg' \subseteq Click!Dialogs /\ (Known => Known')
  BY DEF Click!Resolver, Click!GraceOver, Click!Resolve, Click!Clear, ClickInv, ClickType, Known, DialogsAssumption
<1> QED
  BY <1>1, <1>2 DEF ClickInv, ClickType, TraceInv, Coming

LEMMA ClickDoes ==
  ASSUME ClickInv, Click!Click, DialogsAssumption
  PROVE  ClickInv'
<1> USE DEF ClickInv, ClickType, TraceInv
<1>1. CASE Click!Begin
  BY <1>1 DEF Click!Begin, Click!Blank, Click!handlerVars, Click!browserVars, DialogsAssumption, Seen
<1>2. CASE Click!Dispatch
  <2>1. CASE Click!Handler
    BY <1>2, <2>1, HandlerDoes DEF Click!Dispatch, Click!Goes
  <2>2. CASE effect' = "nothing" /\ UNCHANGED <<kinds, events, runs>>
    BY <1>2, <2>2 DEF Click!Dispatch, Click!Goes
  <2> QED
    BY <1>2, <2>1, <2>2 DEF Click!Dispatch, Click!browserVars
<1>3. CASE Click!Dispatched
  <2>1. events = <<>> => ~Coming("opening")
    BY DEF Coming
  <2> QED
    BY <1>3, <2>1 DEF Click!Dispatched, Click!Goes, Click!handlerVars, Click!browserVars, Known, Coming
<1>4. CASE Click!Pop
  <2> DEFINE dlg == IF pendingDlg # 0 THEN pendingDlg ELSE IF autoDlg # {} THEN CHOOSE d \in autoDlg : TRUE ELSE 0
  <2>1. dlg \in 0..MaxDialogs /\ (Known => dlg # 0)
    <3>1. autoDlg # {} => (CHOOSE d \in autoDlg : TRUE) \in Click!Dialogs
      OBVIOUS
    <3> QED
      BY <3>1, DialogsAssumption DEF Known, Click!Dialogs, DialogsAssumption
  <2>2. done' = [done EXCEPT !.dialog = dlg] /\ step = "pop" /\ step' \in {"handle", "observe"}
    BY <1>4 DEF Click!Pop
  <2> HIDE DEF dlg
  <2>3. done' \in [dialog : 0..MaxDialogs, seen : Seen, modality : {"compositor", "dom"}, retry : BOOLEAN] /\ done'.dialog = dlg
    BY <2>1, <2>2
  <2>4. UNCHANGED <<runs, effect, autoDlg, kinds, events, newTargets>> /\ pendingDlg' \in 0..MaxDialogs
    BY <1>4, DialogsAssumption DEF Click!Pop, Click!handlerVars, Click!browserVars, DialogsAssumption
  <2>5. runs = 1 /\ effect = "dialog" => done'.dialog # 0
    BY <2>1, <2>2, <2>3
  <2>6. Coming("target")' = Coming("target")
    BY <2>4 DEF Coming
  <2> QED
    BY <2>2, <2>3, <2>4, <2>5, <2>6
<1>5. CASE Click!Handle
  BY <1>5 DEF Click!Handle, Click!Goes, Click!Closes, Click!handlerVars, Click!browserVars, Coming
<1>6. CASE Click!Observe
  <2>1. PICK v \in Click!Visible : done' = [done EXCEPT !.seen = v]
    BY <1>6 DEF Click!Observe
  <2>2. v \in Seen /\ (effect = "mutation" \/ effect = "state" => v # "nothing")
    BY <2>1 DEF Click!Visible, Seen
  <2>3. /\ done' \in [dialog : 0..MaxDialogs, seen : Seen, modality : {"compositor", "dom"}, retry : BOOLEAN]
        /\ done'.seen = v /\ done'.dialog = done.dialog
    BY <2>1, <2>2
  <2>4. ~Coming("target") /\ step = "observe"
    BY <1>6 DEF Click!Observe, Coming
  <2>5. step' \in {"activate", "report"} /\ (step' = "activate" => v = "nothing" /\ done.dialog = 0 /\ newTargets = 0)
    BY <1>6, <2>3 DEF Click!Observe, Click!TargetsSince
  <2>6. UNCHANGED <<runs, effect, pendingDlg, autoDlg, kinds, events, newTargets>>
    BY <1>6 DEF Click!Observe, Click!handlerVars, Click!browserVars
  <2> QED
    BY <2>2, <2>3, <2>4, <2>5, <2>6 DEF Coming, Consequences
<1>7. CASE Click!Activate
  BY <1>7, HandlerDoes DEF Click!Activate
<1>8. CASE Click!ActivateFails \/ Click!Report
  BY <1>8 DEF Click!ActivateFails, Click!Report, Click!Goes, Click!handlerVars, Click!browserVars, Coming
<1>9. CASE Click!Activated
  <2> DEFINE dlg == IF pendingDlg # 0 THEN pendingDlg ELSE IF autoDlg # {} THEN CHOOSE d \in autoDlg : TRUE ELSE 0
  <2>1. dlg \in 0..MaxDialogs
    <3>1. autoDlg # {} => (CHOOSE d \in autoDlg : TRUE) \in Click!Dialogs
      OBVIOUS
    <3> QED
      BY <3>1, DialogsAssumption DEF Click!Dialogs, DialogsAssumption
  <2>2. done' = [done EXCEPT !.dialog = dlg] /\ step' = "report"
    BY <1>9 DEF Click!Activated
  <2> HIDE DEF dlg
  <2> QED
    BY <1>9, <2>1, <2>2 DEF Click!Activated, Click!handlerVars, Click!browserVars, Coming
<1> QED
  BY <1>1, <1>2, <1>3, <1>4, <1>5, <1>6, <1>7, <1>8, <1>9 DEF Click!Click

LEMMA ClickStep ==
  ASSUME ClickInv, [Click!Next]_(Click!clickVars), DialogsAssumption
  PROVE  ClickInv'
<1>1. CASE UNCHANGED Click!clickVars
  BY <1>1 DEF ClickInv, ClickType, TraceInv, Known, Coming, Click!clickVars
<1> QED
  BY <1>1, PageDoes, ReaderDoes, ResolverDoes, ClickDoes DEF Click!Next, Click!Reader

\* _click(): what the first try has done to the page is not done again by the second, unless it
\* was a navigation or nothing anybody could see, whoever settled the dialogs in between.
THEOREM ConsequencesAreNotRepeated == Click!Spec => NeverRepeated
<1>1. Click!Init => ClickInv
  <2> SUFFICES ASSUME Click!Init PROVE ClickInv
    OBVIOUS
  <2>1. events \in Seq(Happening)
    BY EmptySeq DEF Click!Init
  <2> QED
    BY <2>1, DialogsAssumption DEF Click!Init, Click!Blank, ClickInv, ClickType, TraceInv, DialogsAssumption, Seen
<1>2. ClickInv /\ [Click!Next]_(Click!clickVars)
        => [runs = 1 /\ runs' = 2 => effect \in {"internal", "navigation"}]_(Click!clickVars)
  <2> SUFFICES ASSUME ClickInv, Click!Next, runs = 1, runs' = 2
               PROVE  effect \in {"internal", "navigation"}
    BY DEF Click!clickVars
  <2>1. Click!Dispatch \/ Click!Activate
    BY DEF Click!Next, Click!PageOpens, Click!PageCloses, Click!Reader, Click!OnEvent, Click!Resolver, Click!GraceOver,
           Click!Resolve, Click!Clear, Click!Click, Click!Begin, Click!Dispatched, Click!Pop, Click!Handle, Click!Observe,
           Click!ActivateFails, Click!Activated, Click!Report, Click!handlerVars
  <2> QED
    BY <2>1 DEF Click!Dispatch, Click!Activate, ClickInv, TraceInv
<1> QED
  BY <1>1, <1>2, ClickStep, DialogsAssumption, PTL DEF Click!Spec, NeverRepeated, Click!NeverRepeated

-----------------------------------------------------------------------------
(* A navigation.                                                           *)

Announced ==
  [kind : {"lifecycle"}, name : {"parsed", "idle", "load"}, loader : Nat, at : Nat]
    \cup [kind : {"sent"}, id : Requests, loader : Nat, data : BOOLEAN, at : Nat]
    \cup [kind : {"ended"}, id : Requests, at : Nat]
KFields ==
  {"exact", "seen", "requests", "critical", "activity", "epoch", "settled", "first", "lastEpoch", "reprobe", "pause",
   "before", "wake", "early"}
NavStages ==
  {"idle", "navigate", "revive", "again", "loop", "sleep", "probe", "judge", "conclude", "lastprobe", "lastjudge",
   "landing", "done"}

\* The local variables as consume() keeps them.
KeptWell(s) ==
  /\ DOMAIN s = KFields
  /\ s.requests \subseteq Requests /\ s.critical \subseteq s.requests
  /\ s.epoch \in Nat

NavType ==
  /\ stage \in NavStages
  /\ clock \in Nat /\ loader \in Nat
  /\ hits \in Seq(Announced) /\ cursor \in 0..Len(hits)
  /\ DOMAIN page = {"doc", "issued", "renders"} /\ page.issued \in Nat
  /\ KeptWell(k)

\* The i-th event starts a data request, and up to the n-th nothing more is heard of it: for
\* the browser, and for a caller that knows its requests by their loader.
StartsData(i) == hits[i].kind = "sent" /\ hits[i].data
InFlight(i, n) ==
  StartsData(i) /\ \A j \in (i + 1)..n : hits[j].kind \in {"sent", "ended"} => hits[j].id # hits[i].id
Pending(i, n) ==
  /\ StartsData(i)
  /\ \A j \in (i + 1)..n :
       hits[j].kind = "ended" \/ (hits[j].kind = "sent" /\ hits[j].loader = hits[i].loader) => hits[j].id # hits[i].id
CriticalAt(n) == {hits[i].id : i \in {j \in 1..n : Pending(j, n) /\ hits[j].loader = loader}}

FlyingInv ==
  /\ stage \notin {"landing", "done"} =>
       flying = {[id |-> hits[i].id, loader |-> hits[i].loader] : i \in {j \in 1..Len(hits) : InFlight(j, Len(hits))}}
  /\ \A n \in 0..Len(hits) : \A i \in 1..n : Pending(i, n) => InFlight(i, n)

\* What the caller has consumed tells it which requests matter.
CriticalInv ==
  /\ stage \in {"idle", "navigate", "revive", "again", "landing", "done"} => cursor = 0 /\ k = Navigation!Fresh
  /\ loader # 0 => k.critical = CriticalAt(cursor)

Earned == seenAt.flying = {} /\ Navigation!Usable(seenAt.doc) /\ seenAt.doc = seenAt.prior

ProbeInv ==
  /\ stage \in {"probe", "judge"} => Navigation!FallbackEnabled /\ k.critical = {} /\ k.before = k.epoch
  /\ stage \in {"loop", "sleep", "probe"} => \A f \in k.first : f.doc = seenAt.doc /\ Navigation!Usable(f.doc)
  /\ stage = "judge" =>
       /\ \A f \in k.first : f.doc = seenAt.prior /\ Navigation!Usable(f.doc)
       /\ \E n \in cursor..Len(hits) : {f.id : f \in seenAt.flying} = CriticalAt(n)

EarlyInv ==
  /\ k.early # "no" => stage = "conclude" /\ Navigation!FallbackEnabled /\ Earned
  /\ lifecycle \in {"settled", "usable"} => stage \in {"landing", "done"} /\ ~mode.strict /\ Earned

NavInv == NavType /\ FlyingInv /\ CriticalInv /\ ProbeInv /\ EarlyInv

\* Every set of numbers that has a member has a least one: what an induction needs.
LEMMA LeastOf ==
  ASSUME NEW T, T \subseteq Nat, T # {}
  PROVE  \E x \in T : \A y \in T : x <= y
<1> DEFINE R == OpToRel(<, Nat)
<1>1. IsWellFoundedOn(R, Nat)
  BY NatLessThanWellFounded, Zenon
<1>2. PICK x \in T : \A y \in T : ~(<<y, x>> \in R)
  <2> HIDE DEF R
  <2> QED BY <1>1, WFMin, Zenon
<1>3. \A y \in T : ~(y < x)
  BY <1>2 DEF OpToRel
<1> QED
  BY <1>3

\* The buffered events are consumed one after the other.
LEMMA ConsumedOneByOne ==
  ASSUME NEW h, h = Len(hits), h \in Nat, cursor \in 0..h
  PROVE  \A n \in cursor..h :
           Navigation!Consumed[n] =
             IF n = cursor THEN k ELSE Navigation!Consume(Navigation!Consumed[n - 1], hits[n])
<1> DEFINE Is(f, m) == f = [n \in cursor..m |-> IF n = cursor THEN k ELSE Navigation!Consume(f[n - 1], hits[n])]
           T == {m \in Nat : m >= cursor /\ ~\E f : Is(f, m)}
<1>1. T = {}
  <2> SUFFICES ASSUME T # {} PROVE FALSE
    OBVIOUS
  <2>1. PICK m \in T : \A y \in T : m <= y
    <3> HIDE DEF T
    <3>1. T \subseteq Nat
      BY DEF T
    <3> QED
      BY <3>1, LeastOf
  <2>2. CASE m = cursor
    <3>1. Is([n \in cursor..m |-> k], m)
      BY <2>2
    <3> QED
      BY <3>1, <2>1
  <2>3. CASE m > cursor
    <3>0. m - 1 \in Nat /\ m - 1 >= cursor /\ m - 1 \notin T
      <4>1. ~(m <= m - 1) /\ m \in Nat /\ m - 1 \in Nat /\ m - 1 >= cursor
        BY <2>1, <2>3
      <4> HIDE DEF T
      <4> QED
        BY <4>1, <2>1
    <3>1. PICK f : Is(f, m - 1)
      BY <3>0
    <3> DEFINE g == [n \in cursor..m |-> IF n = m THEN Navigation!Consume(f[m - 1], hits[m]) ELSE f[n]]
    <3>2. \A n \in cursor..m : g[n] = IF n = cursor THEN k ELSE Navigation!Consume(g[n - 1], hits[n])
      BY <3>1, <2>1, <2>3
    <3>3. Is(g, m)
      <4> HIDE DEF g
      <4>1. g = [n \in cursor..m |-> g[n]]
        BY DEF g
      <4> QED
        BY <4>1, <3>2
    <3> QED
      BY <3>3, <2>1
  <2> QED
    BY <2>1, <2>2, <2>3
<1>2. \E f : Is(f, h)
  BY <1>1
<1>3. Is(Navigation!Consumed, h)
  BY <1>2, Zenon DEF Navigation!Consumed
<1> QED
  BY <1>3

\* What an event makes of the data requests under way.
Counts(c, e) ==
  IF e.kind = "sent" /\ e.loader = loader THEN IF e.data THEN c \cup {e.id} ELSE c \ {e.id}
  ELSE IF e.kind = "ended" THEN c \ {e.id} ELSE c

\* One event consumed: the judgements under way are dropped with whatever is news.
LEMMA ConsumeKeeps ==
  ASSUME NEW s, KeptWell(s), NEW e \in Announced
  PROVE  LET t == Navigation!Consume(s, e) IN
           /\ KeptWell(t) /\ t.before = s.before /\ t.early = s.early /\ t.first \subseteq s.first
           /\ t.epoch >= s.epoch /\ (t.epoch = s.epoch => t.critical = s.critical)
           /\ loader # 0 => t.critical = Counts(s.critical, e)
<1> DEFINE t == Navigation!Consume(s, e)
<1>0. /\ e.kind \in {"lifecycle", "sent", "ended"}
      /\ e.kind = "sent" => e.id \in Requests /\ e.loader \in Nat /\ e.data \in BOOLEAN
      /\ e.kind = "ended" => e.id \in Requests
  BY DEF Announced
<1> USE DEF KeptWell, KFields, Counts
<1>1. CASE e.kind = "lifecycle"
  <2>1. CASE t = s
    BY <1>1, <2>1
  <2>2. CASE t = Navigation!OnLifecycle(s, e)
    <3> DEFINE noted == [s EXCEPT !.seen = s.seen \cup {e.name},
                         !.exact = @ \/ e.name = mode.until,
                         !.settled = @ \/ (Navigation!FallbackEnabled /\ {"parsed", "idle"} \subseteq (s.seen \cup {e.name}))]
    <3>1. t = noted \/ t = Navigation!Active(noted, e.at)
      BY <2>2 DEF Navigation!OnLifecycle
    <3>2. /\ DOMAIN noted = KFields /\ noted.requests = s.requests /\ noted.critical = s.critical /\ noted.epoch = s.epoch
          /\ noted.before = s.before /\ noted.early = s.early /\ noted.first = s.first
      OBVIOUS
    <3> HIDE DEF noted
    <3>3. CASE t = noted
      BY <1>1, <3>2, <3>3
    <3>4. CASE t = Navigation!Active(noted, e.at)
      BY <1>1, <3>2, <3>4 DEF Navigation!Active
    <3> QED
      BY <3>1, <3>3, <3>4
  <2> QED
    BY <1>1, <2>1, <2>2 DEF Navigation!Consume
<1>2. CASE e.kind = "sent" /\ loader # 0 /\ e.loader = loader
  <2> DEFINE p == [s EXCEPT !.requests = @ \cup {e.id},
                          !.critical = IF e.data THEN @ \cup {e.id} ELSE @ \ {e.id}]
  <2>1. t = Navigation!Active(p, e.at)
    BY <1>2 DEF Navigation!Consume
  <2>2. /\ DOMAIN p = KFields /\ p.requests = s.requests \cup {e.id} /\ p.epoch = s.epoch
        /\ p.critical = (IF e.data THEN s.critical \cup {e.id} ELSE s.critical \ {e.id})
        /\ p.before = s.before /\ p.early = s.early /\ p.first = s.first
    OBVIOUS
  <2> HIDE DEF p
  <2> QED
    BY <1>0, <1>2, <2>1, <2>2 DEF Navigation!Active
<1>3. CASE e.kind = "ended" /\ e.id \in s.requests
  <2> DEFINE p == [s EXCEPT !.requests = @ \ {e.id}, !.critical = @ \ {e.id}]
  <2>1. t = Navigation!Active(p, e.at)
    BY <1>3 DEF Navigation!Consume
  <2>2. /\ DOMAIN p = KFields /\ p.requests = s.requests \ {e.id} /\ p.epoch = s.epoch
        /\ p.critical = s.critical \ {e.id}
        /\ p.before = s.before /\ p.early = s.early /\ p.first = s.first
    OBVIOUS
  <2> HIDE DEF p
  <2> QED
    BY <1>0, <1>3, <2>1, <2>2 DEF Navigation!Active
<1>4. CASE /\ e.kind # "lifecycle" /\ ~(e.kind = "sent" /\ loader # 0 /\ e.loader = loader)
           /\ ~(e.kind = "ended" /\ e.id \in s.requests)
  BY <1>0, <1>4 DEF Navigation!Consume
<1> QED
  BY <1>0, <1>1, <1>2, <1>3, <1>4

LEMMA CriticalStep ==
  ASSUME NEW h, h = Len(hits), h \in Nat, NEW n \in 1..h
  PROVE  CriticalAt(n) = Counts(CriticalAt(n - 1), hits[n])
<1>1. \A i \in 1..(n - 1) :
        Pending(i, n) <=> /\ Pending(i, n - 1)
                          /\ hits[n].kind = "ended" \/ (hits[n].kind = "sent" /\ hits[n].loader = hits[i].loader)
                               => hits[n].id # hits[i].id
  BY DEF Pending
<1>2. Pending(n, n) <=> hits[n].kind = "sent" /\ hits[n].data
  BY DEF Pending, StartsData
<1>3. \A i \in 1..n : i = n \/ i \in 1..(n - 1)
  OBVIOUS
<1>4. \A i \in 1..(n - 1) : i \in 1..n
  OBVIOUS
<1> HIDE DEF Pending
<1>5. ASSUME NEW x PROVE x \in CriticalAt(n) <=> x \in Counts(CriticalAt(n - 1), hits[n])
  <2>1. x \in CriticalAt(n) <=> \/ Pending(n, n) /\ hits[n].loader = loader /\ x = hits[n].id
                                \/ \E i \in 1..(n - 1) : Pending(i, n) /\ hits[i].loader = loader /\ x = hits[i].id
    BY <1>3, <1>4 DEF CriticalAt
  <2>2. x \in CriticalAt(n - 1) <=> \E i \in 1..(n - 1) : Pending(i, n - 1) /\ hits[i].loader = loader /\ x = hits[i].id
    BY DEF CriticalAt
  <2> QED
    BY <1>1, <1>2, <2>1, <2>2 DEF Counts
<1> QED
  BY <1>5

\* So much is known of the local variables when all that is buffered has been consumed.
Follows(s, n) ==
  /\ KeptWell(s) /\ s.before = k.before /\ s.early = k.early /\ s.first \subseteq k.first
  /\ s.epoch >= k.epoch
  /\ loader # 0 => s.critical = CriticalAt(n)
  /\ loader # 0 /\ s.epoch = k.epoch => \A m \in cursor..n : CriticalAt(m) = k.critical

LEMMA AllConsumed ==
  ASSUME NavType, CriticalInv
  PROVE  \A n \in cursor..Len(hits) : Follows(Navigation!Consumed[n], n)
<1> DEFINE T == {n \in Nat : n \in cursor..Len(hits) /\ ~Follows(Navigation!Consumed[n], n)}
<1>0. Len(hits) \in Nat /\ cursor \in 0..Len(hits) /\ cursor \in Nat
  BY DEF NavType
<1>1. \A n \in cursor..Len(hits) :
        Navigation!Consumed[n] = IF n = cursor THEN k ELSE Navigation!Consume(Navigation!Consumed[n - 1], hits[n])
  BY <1>0, ConsumedOneByOne
<1>2. T = {}
  <2> SUFFICES ASSUME T # {} PROVE FALSE
    OBVIOUS
  <2>1. PICK n \in T : \A y \in T : n <= y
    <3>1. T \subseteq Nat
      OBVIOUS
    <3> HIDE DEF T
    <3> QED
      BY <3>1, LeastOf
  <2>2. n \in cursor..Len(hits) /\ ~Follows(Navigation!Consumed[n], n) /\ n \in Nat
    BY <2>1
  <2>3. CASE n = cursor
    <3>1. Navigation!Consumed[n] = k
      BY <1>1, <2>2, <2>3
    <3>2. \A m \in cursor..n : m = n
      BY <1>0, <2>3
    <3> QED
      BY <2>2, <2>3, <3>1, <3>2 DEF Follows, NavType, CriticalInv, KeptWell
  <2>4. CASE n > cursor
    <3>1. n - 1 \in cursor..Len(hits) /\ n - 1 \in Nat /\ ~(n <= n - 1) /\ n \in 1..Len(hits) /\ n # cursor
      BY <1>0, <2>2, <2>4
    <3>2. Follows(Navigation!Consumed[n - 1], n - 1)
      <4>1. n - 1 \notin T
        <5> HIDE DEF T
        <5> QED
          BY <2>1, <3>1
      <4> QED
        BY <4>1, <3>1
    <3>3. hits[n] \in Announced
      BY <3>1 DEF NavType
    <3> DEFINE s == Navigation!Consumed[n - 1]
               t == Navigation!Consumed[n]
    <3>4. t = Navigation!Consume(s, hits[n])
      BY <1>1, <2>2, <3>1
    <3>5. CriticalAt(n) = Counts(CriticalAt(n - 1), hits[n])
      BY <1>0, <3>1, CriticalStep
    <3> HIDE DEF s, t
    <3>6. /\ KeptWell(s) /\ s.before = k.before /\ s.early = k.early /\ s.first \subseteq k.first
          /\ s.epoch >= k.epoch /\ s.epoch \in Nat /\ k.epoch \in Nat
          /\ loader # 0 => s.critical = CriticalAt(n - 1)
          /\ loader # 0 /\ s.epoch = k.epoch => \A m \in cursor..(n - 1) : CriticalAt(m) = k.critical
      BY <3>2 DEF s, Follows, KeptWell, NavType
    <3>7. /\ KeptWell(t) /\ t.before = s.before /\ t.early = s.early /\ t.first \subseteq s.first
          /\ t.epoch >= s.epoch /\ t.epoch \in Nat /\ (t.epoch = s.epoch => t.critical = s.critical)
          /\ loader # 0 => t.critical = Counts(s.critical, hits[n])
      <4>1. KeptWell(s)
        BY <3>6
      <4> QED
        BY <3>3, <3>4, <4>1, ConsumeKeeps DEF KeptWell
    <3>8. loader # 0 => t.critical = CriticalAt(n)
      BY <3>5, <3>6, <3>7
    <3>9. loader # 0 /\ t.epoch = k.epoch => \A m \in cursor..n : CriticalAt(m) = k.critical
      <4> SUFFICES ASSUME loader # 0, t.epoch = k.epoch, NEW m \in cursor..n PROVE CriticalAt(m) = k.critical
        OBVIOUS
      <4>1. s.epoch = k.epoch /\ t.epoch = s.epoch
        BY <3>6, <3>7
      <4>2. t.critical = s.critical /\ n - 1 \in cursor..(n - 1) /\ (m = n \/ m \in cursor..(n - 1))
        BY <1>0, <3>1, <3>7, <4>1
      <4> QED
        BY <3>6, <3>8, <4>1, <4>2
    <3>10. Follows(t, n)
      BY <3>6, <3>7, <3>8, <3>9 DEF Follows
    <3> QED
      BY <3>10, <2>2 DEF t
  <2> QED
    BY <1>0, <2>2, <2>3, <2>4
<1> QED
  BY <1>0, <1>2

LEMMA TakenFollows ==
  ASSUME NavInv
  PROVE  Follows(Navigation!Taken, Len(hits)) /\ Len(hits) \in Nat
<1>1. Len(hits) \in cursor..Len(hits) /\ Len(hits) \in Nat
  BY DEF NavInv, NavType
<1> QED
  BY <1>1, AllConsumed DEF NavInv, Navigation!Taken

\* One more event in the buffer changes nothing about those before it.
LEMMA OneMore ==
  ASSUME NavType, NEW e \in Announced, hits' = Append(hits, e), loader' = loader
  PROVE  /\ hits' \in Seq(Announced) /\ Len(hits') = Len(hits) + 1 /\ Len(hits) \in Nat /\ hits'[Len(hits) + 1] = e
         /\ \A n \in 0..Len(hits) : \A i \in 1..n :
              hits'[i] = hits[i] /\ (Pending(i, n)' <=> Pending(i, n)) /\ (InFlight(i, n)' <=> InFlight(i, n))
         /\ \A n \in 0..Len(hits) : CriticalAt(n)' = CriticalAt(n)
<1>1. hits \in Seq(Announced)
  BY DEF NavType
<1>2. /\ hits' \in Seq(Announced) /\ Len(hits') = Len(hits) + 1 /\ Len(hits) \in Nat /\ hits'[Len(hits) + 1] = e
      /\ \A i \in 1..Len(hits) : hits'[i] = hits[i]
  BY <1>1
<1>3. \A n \in 0..Len(hits) : \A i \in 1..n :
        hits'[i] = hits[i] /\ (Pending(i, n)' <=> Pending(i, n)) /\ (InFlight(i, n)' <=> InFlight(i, n))
  <2> SUFFICES ASSUME NEW n \in 0..Len(hits), NEW i \in 1..n
               PROVE  hits'[i] = hits[i] /\ (Pending(i, n)' <=> Pending(i, n)) /\ (InFlight(i, n)' <=> InFlight(i, n))
    OBVIOUS
  <2>1. hits'[i] = hits[i] /\ \A j \in (i + 1)..n : hits'[j] = hits[j]
    BY <1>2
  <2> QED
    BY <2>1 DEF Pending, InFlight, StartsData
<1>4. \A n \in 0..Len(hits) : CriticalAt(n)' = CriticalAt(n)
  BY <1>3 DEF CriticalAt
<1> QED
  BY <1>2, <1>3, <1>4

\* An event of the browser reaches the buffer, and the requests in flight follow it.
LEMMA OfferKeeps ==
  ASSUME NavInv, NEW e \in Announced, Navigation!Armed, hits' = Append(hits, e),
         UNCHANGED <<stage, clock, mode, loader, cursor, k, page, seenAt, lifecycle>>,
         e.kind = "sent" => \A f \in flying : f.id = e.id => f.loader = e.loader,
         flying' = IF e.kind = "lifecycle" THEN flying
                   ELSE {f \in flying : f.id # e.id} \cup
                        (IF e.kind = "sent" /\ e.data THEN {[id |-> e.id, loader |-> e.loader]} ELSE {})
  PROVE  NavInv'
<1>a. PICK h : h = Len(hits)
  OBVIOUS
<1> USE <1>a
<1>0. stage \notin {"idle", "loop", "landing", "done"}
  BY DEF Navigation!Armed
<1>1. NavType /\ FlyingInv /\ CriticalInv /\ ProbeInv /\ EarlyInv
  BY DEF NavInv
<1>2. /\ hits' \in Seq(Announced) /\ Len(hits') = h + 1 /\ h \in Nat /\ hits'[h + 1] = e
      /\ \A n \in 0..h : \A i \in 1..n :
           hits'[i] = hits[i] /\ (Pending(i, n)' <=> Pending(i, n)) /\ (InFlight(i, n)' <=> InFlight(i, n))
      /\ \A n \in 0..h : CriticalAt(n)' = CriticalAt(n)
  BY <1>1, OneMore
<1>3. cursor \in 0..h /\ \A i \in 1..h : hits'[i] = hits[i]
  BY <1>1, <1>2 DEF NavType
<1>4. NavType'
  BY <1>1, <1>2, <1>3 DEF NavType, KeptWell
<1>5. \A i \in 1..h : /\ InFlight(i, h + 1)' <=> /\ InFlight(i, h)
                                                 /\ e.kind \in {"sent", "ended"} => e.id # hits[i].id
                      /\ Pending(i, h + 1)' <=> /\ Pending(i, h)
                                                /\ e.kind = "ended" \/ (e.kind = "sent" /\ e.loader = hits[i].loader)
                                                     => e.id # hits[i].id
  <2> SUFFICES ASSUME NEW i \in 1..h
               PROVE  /\ InFlight(i, h + 1)' <=> /\ InFlight(i, h)
                                                 /\ e.kind \in {"sent", "ended"} => e.id # hits[i].id
                      /\ Pending(i, h + 1)' <=> /\ Pending(i, h)
                                                /\ e.kind = "ended" \/ (e.kind = "sent" /\ e.loader = hits[i].loader)
                                                     => e.id # hits[i].id
    OBVIOUS
  <2>1. hits'[i] = hits[i] /\ (\A j \in (i + 1)..h : hits'[j] = hits[j]) /\ h + 1 \in (i + 1)..(h + 1)
    BY <1>2, <1>3
  <2>2. \A j \in (i + 1)..(h + 1) : j = h + 1 \/ j \in (i + 1)..h
    BY <1>2
  <2>3. \A j \in (i + 1)..h : j \in (i + 1)..(h + 1)
    BY <1>2
  <2> QED
    BY <1>2, <2>1, <2>2, <2>3 DEF InFlight, Pending, StartsData
<1>6. /\ InFlight(h + 1, h + 1)' <=> e.kind = "sent" /\ e.data
      /\ Pending(h + 1, h + 1)' => InFlight(h + 1, h + 1)'
  BY <1>2 DEF InFlight, Pending, StartsData
<1>7. flying = {[id |-> hits[i].id, loader |-> hits[i].loader] : i \in {j \in 1..h : InFlight(j, h)}}
  BY <1>0, <1>1 DEF FlyingInv
<1>8. flying' = {[id |-> hits'[i].id, loader |-> hits'[i].loader] : i \in {j \in 1..(h + 1) : InFlight(j, h + 1)'}}
  <2>1. ASSUME NEW x
        PROVE  x \in flying' <=> \E i \in 1..(h + 1) :
                                   InFlight(i, h + 1)' /\ x = [id |-> hits'[i].id, loader |-> hits'[i].loader]
    <3>1. \A i : i \in 1..(h + 1) <=> i = h + 1 \/ i \in 1..h
      BY <1>2
    <3>2. (\E i \in 1..(h + 1) : InFlight(i, h + 1)' /\ x = [id |-> hits'[i].id, loader |-> hits'[i].loader])
            <=> \/ e.kind = "sent" /\ e.data /\ x = [id |-> e.id, loader |-> e.loader]
                \/ \E i \in 1..h : /\ InFlight(i, h) /\ x = [id |-> hits[i].id, loader |-> hits[i].loader]
                                   /\ e.kind \in {"sent", "ended"} => e.id # hits[i].id
      <4> HIDE DEF InFlight
      <4> QED
        BY <1>2, <1>3, <1>5, <1>6, <3>1
    <3>3. x \in flying <=> \E i \in 1..h : InFlight(i, h) /\ x = [id |-> hits[i].id, loader |-> hits[i].loader]
      BY <1>7
    <3>4. e.kind \in {"lifecycle", "sent", "ended"}
      BY DEF Announced
    <3>5. \A i : x = [id |-> hits[i].id, loader |-> hits[i].loader] => x.id = hits[i].id
      OBVIOUS
    <3>6. CASE e.kind = "lifecycle"
      BY <3>2, <3>3, <3>6
    <3>7. CASE e.kind \in {"sent", "ended"}
      <4>1. x \in flying' <=> \/ x \in flying /\ x.id # e.id
                              \/ e.kind = "sent" /\ e.data /\ x = [id |-> e.id, loader |-> e.loader]
        BY <3>7
      <4> QED
        BY <3>2, <3>3, <3>5, <3>7, <4>1
    <3> QED
      BY <3>4, <3>6, <3>7
  <2> QED
    BY <2>1
<1>9. FlyingInv'
  <2>1. \A n \in 0..(h + 1) : \A i \in 1..n : Pending(i, n)' => InFlight(i, n)'
    <3> SUFFICES ASSUME NEW n \in 0..(h + 1), NEW i \in 1..n, Pending(i, n)' PROVE InFlight(i, n)'
      OBVIOUS
    <3>1. CASE n \in 0..h
      BY <1>1, <1>2, <3>1 DEF FlyingInv
    <3>2. CASE n = h + 1 /\ i = h + 1
      BY <1>6, <3>2
    <3>3. CASE n = h + 1 /\ i \in 1..h
      <4>1. /\ Pending(i, h)
            /\ e.kind = "ended" \/ (e.kind = "sent" /\ e.loader = hits[i].loader) => e.id # hits[i].id
        BY <1>5, <3>3
      <4>2. InFlight(i, h)
        BY <1>1, <1>2, <3>3, <4>1 DEF FlyingInv
      <4>3. e.kind = "sent" /\ e.id = hits[i].id => e.loader = hits[i].loader
        <5>1. [id |-> hits[i].id, loader |-> hits[i].loader] \in flying
          BY <1>7, <3>3, <4>2
        <5> QED
          BY <5>1
      <4> QED
        BY <1>5, <3>3, <4>1, <4>2, <4>3
    <3> QED
      BY <1>2, <3>1, <3>2, <3>3
  <2> QED
    BY <1>2, <1>8, <2>1 DEF FlyingInv
<1>10. CriticalInv'
  <2>1. CriticalAt(cursor)' = CriticalAt(cursor)
    BY <1>2, <1>3
  <2> QED
    BY <1>1, <2>1 DEF CriticalInv, Navigation!Fresh
<1>11. ProbeInv'
  <2>1. ASSUME NEW n \in cursor..h, {f.id : f \in seenAt.flying} = CriticalAt(n)
        PROVE  \E m \in cursor'..Len(hits') : {f.id : f \in seenAt'.flying} = CriticalAt(m)'
    <3>1. n \in cursor'..Len(hits') /\ n \in 0..h
      BY <1>2, <1>3
    <3> QED
      BY <1>2, <2>1, <3>1
  <2> QED
    BY <1>1, <2>1 DEF ProbeInv, Navigation!Usable, Navigation!FallbackEnabled
<1>12. EarlyInv'
  BY <1>1 DEF EarlyInv, Earned, Navigation!Usable, Navigation!FallbackEnabled
<1> QED
  BY <1>4, <1>9, <1>10, <1>11, <1>12 DEF NavInv

LEMMA SameBuffer ==
  ASSUME UNCHANGED <<hits, loader>>
  PROVE  /\ \A n, i : (Pending(i, n)' <=> Pending(i, n)) /\ (InFlight(i, n)' <=> InFlight(i, n))
         /\ \A n : CriticalAt(n)' = CriticalAt(n)
<1>1. \A n, i : (Pending(i, n)' <=> Pending(i, n)) /\ (InFlight(i, n)' <=> InFlight(i, n))
  BY DEF Pending, InFlight, StartsData
<1> QED
  BY <1>1 DEF CriticalAt

\* The call is over, and its waiter gone.
LEMMA EmptiedKeeps ==
  ASSUME NavInv, hits' = <<>>, cursor' = 0, k' = Navigation!Fresh, stage' \in {"landing", "done"},
         UNCHANGED <<clock, mode>>, loader' \in Nat, DOMAIN page' = {"doc", "issued", "renders"}, page'.issued \in Nat,
         EarlyInv'
  PROVE  NavInv'
<1>1. Len(hits') = 0 /\ hits' \in Seq(Announced)
  OBVIOUS
<1>2. NavType'
  BY <1>1 DEF NavInv, NavType, KeptWell, Navigation!Fresh, NavStages, KFields
<1>3. FlyingInv'
  BY <1>1 DEF FlyingInv
<1>4. CriticalInv'
  BY DEF CriticalInv, CriticalAt, Navigation!Fresh
<1>5. ProbeInv'
  BY DEF ProbeInv
<1> QED
  BY <1>2, <1>3, <1>4, <1>5 DEF NavInv

LEMMA BeginKeeps == ASSUME NavInv, Navigation!Begin PROVE NavInv'
<1>1. stage = "idle" /\ stage' = "navigate" /\ UNCHANGED <<clock, loader, hits, cursor, k, page, flying, seenAt, lifecycle>>
  BY DEF Navigation!Begin, Navigation!browserVars
<1>2. k.first = {} /\ k.early = "no" /\ lifecycle \notin {"settled", "usable"}
  BY <1>1 DEF NavInv, CriticalInv, EarlyInv, Navigation!Fresh
<1> QED
  BY <1>1, <1>2, SameBuffer
     DEF NavInv, NavType, NavStages, FlyingInv, CriticalInv, ProbeInv, EarlyInv, KeptWell

LEMMA NavigateKeeps ==
  ASSUME NavInv, Navigation!Navigate \/ Navigation!NavigateUnanswered \/ Navigation!Revive
  PROVE  NavInv'
<1>1. /\ stage \in {"navigate", "revive", "again"} /\ UNCHANGED <<clock, mode, flying, seenAt>>
      /\ cursor = 0 /\ k = Navigation!Fresh /\ loader \in Nat /\ lifecycle \notin {"settled", "usable"}
  BY DEF Navigation!Navigate, Navigation!NavigateUnanswered, Navigation!Revive, Navigation!browserVars,
         NavInv, NavType, CriticalInv, EarlyInv
<1>2. DOMAIN page' = {"doc", "issued", "renders"} /\ page'.issued \in Nat /\ loader' \in Nat
  <2>1. DOMAIN page = {"doc", "issued", "renders"} /\ page.issued \in Nat /\ loader \in Nat
    BY DEF NavInv, NavType
  <2>2. \/ page' = [page EXCEPT !.doc = "unready", !.issued = @ + 1]
        \/ page' = page
    BY DEF Navigation!Navigate, Navigation!NavigateUnanswered, Navigation!Revive, Navigation!browserVars
  <2>3. loader' \in {loader, 0, page.issued + 1}
    BY DEF Navigation!Navigate, Navigation!NavigateUnanswered, Navigation!Revive, Navigation!browserVars
  <2>4. page.issued + 1 \in Nat
    BY <2>1
  <2>5. DOMAIN page' = {"doc", "issued", "renders"} /\ page'.issued \in Nat
    <3>1. CASE page' = page
      BY <2>1, <3>1
    <3>2. CASE page' = [page EXCEPT !.doc = "unready", !.issued = @ + 1]
      <4>1. DOMAIN page' = DOMAIN page /\ page'.issued = page.issued + 1
        BY <2>1, <3>2
      <4> QED
        BY <2>1, <2>4, <4>1
    <3> QED
      BY <2>2, <3>1, <3>2
  <2> QED
    BY <2>1, <2>3, <2>4, <2>5
<1>3. CASE Navigation!End("Failed") \/ Navigation!End("Timeout")
  BY <1>1, <1>2, <1>3, EmptiedKeeps DEF Navigation!End, EarlyInv, Navigation!Fresh
<1>4. CASE Navigation!Stay("revive") \/ Navigation!Stay("again") \/ Navigation!Stay("loop")
  <2>1. UNCHANGED <<lifecycle, hits, cursor, k>> /\ stage' \in {"revive", "again", "loop"}
    BY <1>4 DEF Navigation!Stay
  <2>2. NavType'
    BY <1>1, <1>2, <2>1 DEF NavInv, NavType, NavStages, KeptWell
  <2>3. FlyingInv'
    <3>1. \A n, i : (Pending(i, n)' <=> Pending(i, n)) /\ (InFlight(i, n)' <=> InFlight(i, n))
      BY <2>1 DEF Pending, InFlight, StartsData
    <3> QED
      BY <1>1, <2>1, <3>1 DEF NavInv, FlyingInv
  <2>4. CriticalAt(0)' = {} /\ k.critical = {} /\ k.first = {} /\ k.early = "no"
    BY <1>1 DEF CriticalAt, Navigation!Fresh
  <2> QED
    BY <1>1, <2>1, <2>2, <2>3, <2>4 DEF NavInv, CriticalInv, ProbeInv, EarlyInv
<1> QED
  BY <1>3, <1>4 DEF Navigation!Navigate, Navigation!NavigateUnanswered, Navigation!Revive

\* The caller goes on with what it has consumed.
LEMMA GoesOn ==
  ASSUME NavInv, stage \in {"loop", "sleep", "judge", "conclude"},
         stage' \in {"loop", "sleep", "probe", "conclude", "lastprobe"},
         UNCHANGED <<clock, mode, loader, hits, page, flying, seenAt, lifecycle>>,
         cursor' = Len(hits), KeptWell(k'), loader # 0 => k'.critical = CriticalAt(Len(hits)),
         ProbeInv', EarlyInv'
  PROVE  NavInv'
<1>1. Len(hits) \in Nat
  BY TakenFollows
<1>2. NavType' /\ FlyingInv'
  BY <1>1, SameBuffer DEF NavInv, NavType, NavStages, FlyingInv
<1>3. CriticalInv'
  BY SameBuffer DEF CriticalInv
<1> QED
  BY <1>2, <1>3 DEF NavInv

LEMMA LookKeeps == ASSUME NavInv, Navigation!Look PROVE NavInv'
<1> DEFINE t == Navigation!Taken
<1>1. Follows(t, Len(hits)) /\ Len(hits) \in Nat
  BY TakenFollows
<1> HIDE DEF t
<1>2. PICK s : /\ s = [t EXCEPT !.wake = 0]
               /\ \/ stage' = "conclude" /\ k' = s
                  \/ Navigation!DueProbe(s) /\ stage' = "probe" /\ k' = [s EXCEPT !.before = s.epoch]
                  \/ \E w : stage' = "sleep" /\ k' = [s EXCEPT !.wake = w]
  BY DEF Navigation!Look, t
<1>3. /\ DOMAIN s = KFields /\ s.requests = t.requests /\ s.critical = t.critical /\ s.epoch = t.epoch
      /\ s.early = t.early /\ s.first = t.first
  BY <1>1, <1>2 DEF Follows, KeptWell, KFields
<1>4. /\ KeptWell(k') /\ k'.critical = t.critical /\ k'.early = k.early /\ k'.first \subseteq k.first
      /\ stage' = "probe" => /\ Navigation!FallbackEnabled /\ k'.critical = {} /\ k'.before = k'.epoch
  <2>1. KeptWell(t) /\ t.early = k.early /\ t.first \subseteq k.first
    BY <1>1 DEF Follows
  <2>2. CASE stage' = "conclude" /\ k' = s
    BY <2>1, <2>2, <1>3 DEF KeptWell
  <2>3. CASE Navigation!DueProbe(s) /\ stage' = "probe" /\ k' = [s EXCEPT !.before = s.epoch]
    <3>1. Navigation!FallbackEnabled /\ s.critical = {}
      BY <2>3 DEF Navigation!DueProbe, Navigation!MayProbe
    <3>2. /\ DOMAIN k' = KFields /\ k'.requests = s.requests /\ k'.critical = s.critical /\ k'.epoch = s.epoch
          /\ k'.early = s.early /\ k'.first = s.first /\ k'.before = s.epoch
      BY <2>3, <1>3 DEF KFields
    <3> QED
      BY <2>1, <1>3, <3>1, <3>2 DEF KeptWell
  <2>4. ASSUME NEW w, stage' = "sleep", k' = [s EXCEPT !.wake = w]
        PROVE  /\ KeptWell(k') /\ k'.critical = t.critical /\ k'.early = k.early /\ k'.first \subseteq k.first
               /\ stage' # "probe"
    <3>1. /\ DOMAIN k' = KFields /\ k'.requests = s.requests /\ k'.critical = s.critical /\ k'.epoch = s.epoch
          /\ k'.early = s.early /\ k'.first = s.first
      BY <2>4, <1>3 DEF KFields
    <3> QED
      BY <2>1, <2>4, <1>3, <3>1 DEF KeptWell
  <2> QED
    BY <1>2, <2>2, <2>3, <2>4
<1>5. /\ stage \in {"loop", "sleep"} /\ stage' \in {"sleep", "probe", "conclude"}
      /\ UNCHANGED <<clock, mode, loader, hits, page, flying, seenAt, lifecycle>> /\ cursor' = Len(hits)
  BY <1>2 DEF Navigation!Look, Navigation!browserVars
<1>6. loader # 0 => k'.critical = CriticalAt(Len(hits))
  BY <1>1, <1>4 DEF Follows
<1>7. k.early = "no" /\ lifecycle \notin {"settled", "usable"}
  BY <1>5 DEF NavInv, EarlyInv
<1>8. ProbeInv'
  BY <1>4, <1>5 DEF NavInv, ProbeInv, Navigation!Usable, Navigation!FallbackEnabled
<1>9. EarlyInv'
  BY <1>4, <1>5, <1>7 DEF EarlyInv
<1> QED
  BY <1>4, <1>5, <1>6, <1>8, <1>9, GoesOn

LEMMA ProbeKeeps == ASSUME NavInv, Navigation!Probe PROVE NavInv'
<1>1. /\ stage \in {"probe", "lastprobe"} /\ stage' = (IF stage = "probe" THEN "judge" ELSE "lastjudge")
      /\ UNCHANGED <<clock, mode, loader, hits, cursor, k, page, flying, lifecycle>>
      /\ seenAt'.flying = {f \in flying : f.loader = loader} /\ seenAt'.prior = seenAt.doc
  BY DEF Navigation!Probe
<1>2. NavType /\ FlyingInv /\ CriticalInv /\ ProbeInv /\ EarlyInv
  BY DEF NavInv
<1>3. NavType' /\ FlyingInv' /\ CriticalInv'
  BY <1>1, <1>2, SameBuffer DEF NavType, NavStages, FlyingInv, CriticalInv
<1>4. k.early = "no" /\ lifecycle \notin {"settled", "usable"}
  BY <1>1, <1>2 DEF EarlyInv
<1>5. {f.id : f \in seenAt'.flying} = CriticalAt(Len(hits))
  <2> PICK h : h = Len(hits)
    OBVIOUS
  <2>1. flying = {[id |-> hits[i].id, loader |-> hits[i].loader] : i \in {j \in 1..h : InFlight(j, h)}}
    BY <1>1, <1>2 DEF FlyingInv
  <2>2. h \in 0..h
    BY <1>2 DEF NavType
  <2>3. \A i \in 1..h : Pending(i, h) <=> InFlight(i, h)
    <3>1. \A i \in 1..h : Pending(i, h) => InFlight(i, h)
      BY <1>2, <2>2 DEF FlyingInv
    <3>2. \A i \in 1..h : InFlight(i, h) => Pending(i, h)
      BY DEF Pending, InFlight
    <3> QED
      BY <3>1, <3>2
  <2>4. CriticalAt(h) = {hits[i].id : i \in {j \in 1..h : InFlight(j, h) /\ hits[j].loader = loader}}
    BY <2>3 DEF CriticalAt
  <2>5. ASSUME NEW x
        PROVE  x \in {f.id : f \in seenAt'.flying} <=> \E i \in 1..h : InFlight(i, h) /\ hits[i].loader = loader /\ x = hits[i].id
    <3> HIDE DEF InFlight
    <3>1. x \in {f.id : f \in seenAt'.flying} <=> \E f \in flying : f.loader = loader /\ x = f.id
      BY <1>1
    <3>2. ASSUME NEW f \in flying, f.loader = loader, x = f.id
          PROVE  \E i \in 1..h : InFlight(i, h) /\ hits[i].loader = loader /\ x = hits[i].id
      BY <2>1, <3>2
    <3>3. ASSUME NEW i \in 1..h, InFlight(i, h), hits[i].loader = loader, x = hits[i].id
          PROVE  \E f \in flying : f.loader = loader /\ x = f.id
      <4>1. [id |-> hits[i].id, loader |-> hits[i].loader] \in flying
        BY <2>1, <3>3
      <4> QED
        BY <3>3, <4>1
    <3> QED
      BY <3>1, <3>2, <3>3
  <2> QED
    BY <2>4, <2>5
<1>6. ProbeInv'
  <2>1. Len(hits) \in cursor..Len(hits) /\ CriticalAt(Len(hits))' = CriticalAt(Len(hits))
    BY <1>1, <1>2, SameBuffer DEF NavType
  <2>2. \E n \in cursor'..Len(hits') : {f.id : f \in seenAt'.flying} = CriticalAt(n)'
    <3> PICK n : n = Len(hits)
      OBVIOUS
    <3> QED
      BY <1>1, <1>5, <2>1, SameBuffer
  <2> QED
    BY <1>1, <1>2, <2>2 DEF ProbeInv, Navigation!FallbackEnabled, Navigation!Usable
<1>7. EarlyInv'
  BY <1>1, <1>4 DEF EarlyInv
<1> QED
  BY <1>3, <1>6, <1>7 DEF NavInv

\* The answer of a probe is believed when nothing was heard since it was decided on: then no
\* data request was under way when the page gave it.
LEMMA JudgeKeeps == ASSUME NavInv, Navigation!Judge PROVE NavInv'
<1> DEFINE s == Navigation!Taken
<1>1. Follows(s, Len(hits)) /\ Len(hits) \in Nat
  BY TakenFollows
<1>2. /\ stage = "judge" /\ cursor' = Len(hits)
      /\ UNCHANGED <<clock, mode, loader, hits, page, flying, seenAt, lifecycle>>
      /\ k' = (IF s.exact THEN s ELSE Navigation!Weigh(s))
      /\ stage' = IF s.exact \/ k'.early # "no" THEN "conclude" ELSE "loop"
  BY DEF Navigation!Judge, Navigation!browserVars
<1> HIDE DEF s
<1>3. /\ KeptWell(s) /\ DOMAIN s = KFields /\ s.before = k.before /\ s.early = k.early /\ s.first \subseteq k.first
      /\ k.early = "no" /\ lifecycle \notin {"settled", "usable"} /\ k.before = k.epoch /\ k.critical = {}
      /\ Navigation!FallbackEnabled /\ \A f \in k.first : f.doc = seenAt.prior /\ Navigation!Usable(f.doc)
  BY <1>1, <1>2 DEF Follows, KeptWell, NavInv, EarlyInv, ProbeInv
<1>4. s.epoch = s.before => seenAt.flying = {}
  <2>1. PICK n \in cursor..Len(hits) : {f.id : f \in seenAt.flying} = CriticalAt(n)
    BY <1>2 DEF NavInv, ProbeInv
  <2>2. loader # 0
    BY <1>3 DEF Navigation!FallbackEnabled
  <2>3. s.epoch = s.before => {f.id : f \in seenAt.flying} = {}
    BY <1>1, <1>3, <2>1, <2>2 DEF Follows
  <2> QED
    BY <2>3
<1> DEFINE p == [s EXCEPT !.lastEpoch = {s.epoch}]
<1>5. /\ DOMAIN p = KFields /\ p.requests = s.requests /\ p.critical = s.critical /\ p.epoch = s.epoch
      /\ p.early = s.early /\ p.first = s.first
  BY <1>3 DEF KFields
<1>6. \/ s.exact /\ k' = s
      \/ k' = [p EXCEPT !.first = {}]
      \/ \E r, q : k' = [p EXCEPT !.first = {}, !.reprobe = r, !.pause = q]
      \/ /\ s.epoch = s.before /\ Navigation!Usable(seenAt.doc) /\ \E f \in s.first : f.doc = seenAt.doc
         /\ \E w \in {"settled", "usable"} : k' = [p EXCEPT !.early = w]
      \/ /\ Navigation!Usable(seenAt.doc)
         /\ k' = [p EXCEPT !.first = {[at |-> clock, doc |-> seenAt.doc, epoch |-> s.epoch]}]
  BY <1>2 DEF Navigation!Weigh
<1> DEFINE Good == /\ DOMAIN k' = KFields /\ k'.requests = s.requests /\ k'.critical = s.critical /\ k'.epoch = s.epoch
                   /\ k'.early = "no" \/ Earned
                   /\ stage' = "loop" => \A f \in k'.first : f.doc = seenAt.doc /\ Navigation!Usable(f.doc)
<1>7. Good
  <2> HIDE DEF p
  <2>1. CASE s.exact /\ k' = s
    BY <1>2, <1>3, <2>1
  <2>2. CASE k' = [p EXCEPT !.first = {}]
    BY <1>3, <1>5, <2>2 DEF KFields
  <2>3. ASSUME NEW r, NEW q, k' = [p EXCEPT !.first = {}, !.reprobe = r, !.pause = q] PROVE Good
    BY <1>3, <1>5, <2>3 DEF KFields
  <2>4. ASSUME s.epoch = s.before, Navigation!Usable(seenAt.doc), NEW f \in s.first, f.doc = seenAt.doc,
               NEW w \in {"settled", "usable"}, k' = [p EXCEPT !.early = w]
        PROVE  Good
    <3>1. Earned
      BY <1>3, <1>4, <2>4 DEF Earned
    <3>2. /\ DOMAIN k' = KFields /\ k'.requests = s.requests /\ k'.critical = s.critical /\ k'.epoch = s.epoch
          /\ k'.early = w
      BY <1>5, <2>4 DEF KFields
    <3>3. stage' = "conclude"
      BY <1>2, <3>2
    <3> QED
      BY <3>1, <3>2, <3>3
  <2>5. CASE /\ Navigation!Usable(seenAt.doc)
             /\ k' = [p EXCEPT !.first = {[at |-> clock, doc |-> seenAt.doc, epoch |-> s.epoch]}]
    <3>1. /\ DOMAIN k' = KFields /\ k'.requests = s.requests /\ k'.critical = s.critical /\ k'.epoch = s.epoch
          /\ k'.early = s.early /\ k'.first = {[at |-> clock, doc |-> seenAt.doc, epoch |-> s.epoch]}
      BY <1>5, <2>5 DEF KFields
    <3> QED
      BY <1>3, <2>5, <3>1
  <2> QED
    BY <1>6, <2>1, <2>2, <2>3, <2>4, <2>5
<1> HIDE DEF p
<1>8. KeptWell(k') /\ (loader # 0 => k'.critical = CriticalAt(Len(hits)))
  BY <1>1, <1>3, <1>7 DEF KeptWell, Follows
<1>9. ProbeInv'
  BY <1>2, <1>7 DEF ProbeInv, Navigation!Usable
<1>10. EarlyInv'
  BY <1>2, <1>3, <1>7 DEF EarlyInv, Earned, Navigation!Usable, Navigation!FallbackEnabled
<1> QED
  BY <1>2, <1>8, <1>9, <1>10, GoesOn

LEMMA ConcludeKeeps ==
  ASSUME NavInv, Navigation!Conclude \/ Navigation!LastJudge \/ Navigation!Landing
  PROVE  NavInv'
<1>0. /\ stage \in {"conclude", "lastjudge", "landing"} /\ UNCHANGED <<clock, mode, loader, page, flying, seenAt>>
      /\ NavType /\ FlyingInv /\ CriticalInv /\ ProbeInv /\ EarlyInv
  BY DEF NavInv, Navigation!Conclude, Navigation!LastJudge, Navigation!Landing, Navigation!browserVars
<1>1. CASE \E w \in {"load", "timeout"} : Navigation!Lands(w)
  BY <1>0, <1>1, EmptiedKeeps DEF NavType, Navigation!Lands, EarlyInv, Navigation!Fresh
<1>2. CASE Navigation!End("Timeout")
  BY <1>0, <1>2, EmptiedKeeps DEF NavType, Navigation!End, EarlyInv, Navigation!Fresh
<1>3. CASE k.early # "no" /\ Navigation!Lands(k.early)
  <2>1. Navigation!FallbackEnabled /\ Earned
    BY <1>0, <1>3 DEF EarlyInv
  <2>2. EarlyInv'
    BY <1>0, <1>3, <2>1
       DEF Navigation!Lands, EarlyInv, Navigation!Fresh, Earned, Navigation!Usable, Navigation!FallbackEnabled
  <2> QED
    BY <1>0, <1>3, <2>2, EmptiedKeeps DEF NavType, Navigation!Lands
<1>4. CASE /\ stage = "conclude" /\ k.early = "no" /\ k' = Navigation!Taken /\ cursor' = Len(hits)
           /\ stage' = "lastprobe" /\ UNCHANGED <<hits, lifecycle>>
  <2>1. KeptWell(k') /\ (loader # 0 => k'.critical = CriticalAt(Len(hits))) /\ k'.early = "no"
    BY <1>4, TakenFollows DEF Follows
  <2>2. ProbeInv'
    BY <1>4 DEF ProbeInv
  <2>3. EarlyInv'
    BY <1>0, <1>4, <2>1 DEF EarlyInv
  <2> QED
    BY <1>0, <1>4, <2>1, <2>2, <2>3, GoesOn
<1>5. CASE Navigation!Landing
  <2>1. stage = "landing" /\ stage' = "done" /\ lifecycle' \in {lifecycle, "Failed"} /\ UNCHANGED <<hits, cursor, k>>
    BY <1>5 DEF Navigation!Landing
  <2> QED
    BY <1>0, <2>1, SameBuffer
       DEF NavInv, NavType, NavStages, FlyingInv, CriticalInv, ProbeInv, EarlyInv, KeptWell, Earned, Navigation!Usable
<1> QED
  BY <1>1, <1>2, <1>3, <1>4, <1>5 DEF Navigation!Conclude, Navigation!LastJudge

LEMMA BrowserKeeps == ASSUME NavInv, Navigation!Browser \/ Navigation!Tick PROVE NavInv'
<1>0. /\ clock \in Nat /\ page.issued \in Nat /\ \A l \in 1..page.issued : l \in Nat
      /\ hits \in Seq(Announced)
  BY DEF NavInv, NavType
<1>1. CASE Navigation!Lifecycle
  <2>1. PICK n \in {"parsed", "idle", "load"}, l \in 1..page.issued :
          hits' = Append(hits, [kind |-> "lifecycle", name |-> n, loader |-> l, at |-> clock])
    BY <1>1 DEF Navigation!Lifecycle, Navigation!Offer
  <2> DEFINE e == [kind |-> "lifecycle", name |-> n, loader |-> l, at |-> clock]
  <2>2. e \in Announced /\ e.kind = "lifecycle"
    BY <1>0 DEF Announced
  <2>3. Navigation!Armed /\ UNCHANGED <<stage, clock, mode, loader, cursor, k, page, flying, seenAt, lifecycle>>
    BY <1>1 DEF Navigation!Lifecycle
  <2> HIDE DEF e
  <2> QED
    BY <2>1, <2>2, <2>3, OfferKeeps DEF e
<1>2. CASE Navigation!RequestSent
  <2>1. PICK id \in Requests, l \in 1..page.issued, data \in BOOLEAN :
          /\ \A f \in flying : f.id = id => f.loader = l
          /\ hits' = Append(hits, [kind |-> "sent", id |-> id, loader |-> l, data |-> data, at |-> clock])
          /\ flying' = {f \in flying : f.id # id} \cup (IF data THEN {[id |-> id, loader |-> l]} ELSE {})
    BY <1>2 DEF Navigation!RequestSent, Navigation!Offer
  <2> DEFINE e == [kind |-> "sent", id |-> id, loader |-> l, data |-> data, at |-> clock]
  <2>2. e \in Announced /\ e.kind = "sent" /\ e.id = id /\ e.loader = l /\ e.data = data /\ hits' = Append(hits, e)
    BY <1>0, <2>1 DEF Announced
  <2>3. Navigation!Armed /\ UNCHANGED <<stage, clock, mode, loader, cursor, k, page, seenAt, lifecycle>>
    BY <1>2 DEF Navigation!RequestSent
  <2> HIDE DEF e
  <2> QED
    BY <2>1, <2>2, <2>3, OfferKeeps
<1>3. CASE Navigation!RequestEnded
  <2>1. PICK i \in DOMAIN hits :
          /\ hits[i].kind = "sent"
          /\ hits' = Append(hits, [kind |-> "ended", id |-> hits[i].id, at |-> clock])
          /\ flying' = {f \in flying : f.id # hits[i].id}
    BY <1>3 DEF Navigation!RequestEnded, Navigation!Offer
  <2>2. hits[i].id \in Requests
    <3>1. hits[i] \in Announced
      BY <1>0
    <3> QED
      BY <2>1, <3>1 DEF Announced
  <2> DEFINE e == [kind |-> "ended", id |-> hits[i].id, at |-> clock]
  <2>3. e \in Announced /\ e.kind = "ended" /\ e.id = hits[i].id /\ hits' = Append(hits, e)
    BY <1>0, <2>1, <2>2 DEF Announced
  <2>4. Navigation!Armed /\ UNCHANGED <<stage, clock, mode, loader, cursor, k, page, seenAt, lifecycle>>
    BY <1>3 DEF Navigation!RequestEnded
  <2> HIDE DEF e
  <2>5. flying' = IF e.kind = "lifecycle" THEN flying
                  ELSE {f \in flying : f.id # e.id} \cup
                       (IF e.kind = "sent" /\ e.data THEN {[id |-> e.id, loader |-> e.loader]} ELSE {})
    BY <2>1, <2>3
  <2> QED
    BY <2>3, <2>4, <2>5, OfferKeeps
<1>4. CASE Navigation!Renders \/ Navigation!Tick
  <2>1. /\ UNCHANGED <<stage, mode, loader, hits, cursor, k, flying, seenAt, lifecycle>> /\ clock' \in Nat
        /\ DOMAIN page' = DOMAIN page /\ page'.issued = page.issued
    <3>1. CASE Navigation!Tick
      BY <1>0, <3>1 DEF Navigation!Tick
    <3>2. CASE Navigation!Renders
      <4>1. PICK d : page' = [page EXCEPT !.doc = d, !.renders = @ + 1]
        BY <3>2 DEF Navigation!Renders
      <4>2. DOMAIN page' = DOMAIN page /\ page'.issued = page.issued
        BY <4>1 DEF NavInv, NavType
      <4> QED
        BY <1>0, <3>2, <4>2 DEF Navigation!Renders
    <3> QED
      BY <1>4, <3>1, <3>2
  <2> QED
    BY <2>1, SameBuffer
       DEF NavInv, NavType, NavStages, FlyingInv, CriticalInv, ProbeInv, EarlyInv, KeptWell, Earned,
           Navigation!Usable, Navigation!FallbackEnabled, Navigation!Fresh
<1> QED
  BY <1>1, <1>2, <1>3, <1>4 DEF Navigation!Browser

LEMMA NavStep == NavInv /\ [Navigation!Next]_(Navigation!navVars) => NavInv'
<1> SUFFICES ASSUME NavInv, [Navigation!Next]_(Navigation!navVars) PROVE NavInv'
  OBVIOUS
<1>1. CASE UNCHANGED Navigation!navVars
  BY <1>1, SameBuffer
     DEF Navigation!navVars, NavInv, NavType, NavStages, FlyingInv, CriticalInv, ProbeInv, EarlyInv, KeptWell, Earned,
         Navigation!Usable, Navigation!FallbackEnabled, Navigation!Fresh
<1> QED
  BY <1>1, BeginKeeps, NavigateKeeps, LookKeeps, ProbeKeeps, JudgeKeeps, ConcludeKeeps, BrowserKeeps
     DEF Navigation!Next, Navigation!Goto

\* A goto() that returns before the load event has looked twice at the same usable document, and
\* no data request of this navigation announced by the second look was under way when the page
\* answered it, however the events raced the looks.
THEOREM EarlyReturnsAreEarned == Navigation!Spec => []EarlyIsEarned
<1>1. Navigation!Init => NavInv
  BY DEF Navigation!Init, NavInv, NavType, NavStages, FlyingInv, CriticalInv, ProbeInv, EarlyInv, KeptWell, KFields,
         Navigation!Fresh, CriticalAt, InFlight, Pending
<1>2. NavInv => EarlyIsEarned
  BY DEF NavInv, EarlyInv, Earned, EarlyIsEarned, Navigation!EarlyIsEarned
<1> QED
  BY <1>1, <1>2, NavStep, PTL DEF Navigation!Spec

\* The i-th event is the one the call waits for.
Awaited(i) == hits[i].kind = "lifecycle" /\ hits[i].name = mode.until /\ loader \in {0, hits[i].loader}
ExactInv == k.exact \in BOOLEAN /\ \A i \in 1..cursor : Awaited(i) => k.exact = TRUE

LEMMA ConsumeExact ==
  ASSUME NEW s, KeptWell(s), s.exact \in BOOLEAN, NEW e \in Announced
  PROVE  LET t == Navigation!Consume(s, e) IN
           /\ t.exact \in BOOLEAN /\ (s.exact = TRUE => t.exact = TRUE)
           /\ e.kind = "lifecycle" /\ e.name = mode.until /\ loader \in {0, e.loader} => t.exact = TRUE
<1> DEFINE t == Navigation!Consume(s, e)
<1> USE DEF KeptWell, KFields
<1>1. CASE /\ e.kind = "lifecycle" /\ (IF loader # 0 THEN e.loader = loader ELSE e.name = mode.until)
  <2> DEFINE noted == [s EXCEPT !.seen = s.seen \cup {e.name},
                       !.exact = @ \/ e.name = mode.until,
                       !.settled = @ \/ (Navigation!FallbackEnabled /\ {"parsed", "idle"} \subseteq (s.seen \cup {e.name}))]
  <2>1. t = noted \/ t = Navigation!Active(noted, e.at)
    BY <1>1 DEF Navigation!Consume, Navigation!OnLifecycle
  <2>2. DOMAIN noted = KFields /\ noted.exact = (s.exact \/ e.name = mode.until)
    OBVIOUS
  <2> HIDE DEF noted
  <2>3. t.exact = (s.exact \/ e.name = mode.until)
    BY <2>1, <2>2 DEF Navigation!Active
  <2> QED
    BY <1>1, <2>3
<1>2. CASE ~(e.kind = "lifecycle" /\ (IF loader # 0 THEN e.loader = loader ELSE e.name = mode.until))
  <2>1. t.exact = s.exact
    <3>1. CASE e.kind = "sent" /\ loader # 0 /\ e.loader = loader
      BY <3>1 DEF Navigation!Consume, Navigation!Active
    <3>2. CASE e.kind = "ended" /\ e.id \in s.requests
      BY <3>2 DEF Navigation!Consume, Navigation!Active
    <3>3. CASE ~(e.kind = "sent" /\ loader # 0 /\ e.loader = loader) /\ ~(e.kind = "ended" /\ e.id \in s.requests)
      BY <1>2, <3>3 DEF Navigation!Consume
    <3> QED
      BY <3>1, <3>2, <3>3
  <2> QED
    BY <1>2, <2>1
<1> QED
  BY <1>1, <1>2

LEMMA TakenExact ==
  ASSUME NavInv, ExactInv
  PROVE  /\ Navigation!Taken.exact \in BOOLEAN
         /\ \A i \in 1..Len(hits) : Awaited(i) => Navigation!Taken.exact = TRUE
<1> DEFINE P(n) == /\ Navigation!Consumed[n].exact \in BOOLEAN
                   /\ \A i \in 1..n : Awaited(i) => Navigation!Consumed[n].exact = TRUE
           T == {n \in Nat : n \in cursor..Len(hits) /\ ~P(n)}
<1>0. Len(hits) \in Nat /\ cursor \in 0..Len(hits) /\ cursor \in Nat /\ hits \in Seq(Announced)
  BY DEF NavInv, NavType
<1>1. \A n \in cursor..Len(hits) :
        Navigation!Consumed[n] = IF n = cursor THEN k ELSE Navigation!Consume(Navigation!Consumed[n - 1], hits[n])
  BY <1>0, ConsumedOneByOne
<1>2. T = {}
  <2> SUFFICES ASSUME T # {} PROVE FALSE
    OBVIOUS
  <2>1. PICK n \in T : \A y \in T : n <= y
    <3>1. T \subseteq Nat
      OBVIOUS
    <3> HIDE DEF T
    <3> QED
      BY <3>1, LeastOf
  <2>2. n \in cursor..Len(hits) /\ ~P(n) /\ n \in Nat
    BY <2>1
  <2>3. CASE n = cursor
    <3>1. Navigation!Consumed[n] = k
      BY <1>1, <2>2, <2>3
    <3> QED
      BY <2>2, <2>3, <3>1 DEF ExactInv
  <2>4. CASE n > cursor
    <3>1. /\ n - 1 \in cursor..Len(hits) /\ n - 1 \in Nat /\ ~(n <= n - 1) /\ n \in 1..Len(hits) /\ n # cursor
          /\ \A i \in 1..n : i = n \/ i \in 1..(n - 1)
      BY <1>0, <2>2, <2>4
    <3>2. P(n - 1)
      <4>1. n - 1 \notin T
        <5> HIDE DEF T
        <5> QED
          BY <2>1, <3>1
      <4> HIDE DEF P
      <4> QED
        BY <4>1, <3>1
    <3>3. hits[n] \in Announced /\ KeptWell(Navigation!Consumed[n - 1])
      BY <1>0, <3>1, AllConsumed DEF NavInv, Follows
    <3>4. Navigation!Consumed[n] = Navigation!Consume(Navigation!Consumed[n - 1], hits[n])
      BY <1>1, <2>2, <3>1
    <3> DEFINE s == Navigation!Consumed[n - 1]
               u == Navigation!Consumed[n]
    <3> HIDE DEF s, u
    <3>5. /\ s.exact \in BOOLEAN /\ (\A i \in 1..(n - 1) : Awaited(i) => s.exact = TRUE)
          /\ KeptWell(s) /\ hits[n] \in Announced /\ u = Navigation!Consume(s, hits[n])
      BY <3>2, <3>3, <3>4 DEF s, u
    <3>6. /\ u.exact \in BOOLEAN /\ (s.exact = TRUE => u.exact = TRUE) /\ (Awaited(n) => u.exact = TRUE)
      BY <3>5, ConsumeExact DEF Awaited
    <3>7. P(n)
      <4>1. \A i \in 1..n : Awaited(i) => u.exact = TRUE
        BY <3>1, <3>5, <3>6
      <4> QED
        BY <3>6, <4>1 DEF u
    <3> QED
      BY <3>7, <2>2
  <2> QED
    BY <1>0, <2>2, <2>3, <2>4
<1>3. P(Len(hits))
  <2> HIDE DEF P
  <2> QED
    BY <1>0, <1>2
<1> QED
  BY <1>3 DEF Navigation!Taken

LEMMA ExactStep == NavInv /\ ExactInv /\ [Navigation!Next]_(Navigation!navVars) => ExactInv'
<1> SUFFICES ASSUME NavInv, ExactInv, [Navigation!Next]_(Navigation!navVars) PROVE ExactInv'
  OBVIOUS
<1> DEFINE t == Navigation!Taken
<1>0. /\ cursor \in 0..Len(hits) /\ Len(hits) \in Nat /\ k.exact \in BOOLEAN /\ KeptWell(t) /\ DOMAIN k = KFields
      /\ t.exact \in BOOLEAN /\ \A i \in 1..Len(hits) : Awaited(i) => t.exact = TRUE
      /\ hits \in Seq(Announced)
  BY TakenFollows, TakenExact DEF NavInv, NavType, ExactInv, Follows, KeptWell
<1>1. CASE cursor' = 0 /\ k' = Navigation!Fresh
  BY <1>1 DEF ExactInv, Navigation!Fresh
<1>2. CASE cursor = 0 /\ UNCHANGED <<cursor, k>>
  BY <1>2 DEF ExactInv
<1>3. CASE /\ UNCHANGED <<cursor, k, loader, mode>> /\ \A i \in 1..cursor : hits'[i] = hits[i]
  BY <1>3 DEF ExactInv, Awaited
<1>4. CASE /\ cursor' = Len(hits) /\ UNCHANGED <<hits, loader, mode>> /\ k'.exact = t.exact
  BY <1>0, <1>4 DEF ExactInv, Awaited
<1> HIDE DEF t
<1>5. CASE Navigation!Look
  <2>1. PICK s : /\ s = [t EXCEPT !.wake = 0]
                 /\ k' = s \/ k' = [s EXCEPT !.before = s.epoch] \/ \E w : k' = [s EXCEPT !.wake = w]
    BY <1>5 DEF Navigation!Look, t
  <2>2. DOMAIN s = KFields /\ s.exact = t.exact
    BY <1>0, <2>1 DEF KeptWell, KFields
  <2>3. k'.exact = t.exact
    BY <2>1, <2>2 DEF KFields
  <2> QED
    BY <1>4, <1>5, <2>3 DEF Navigation!Look
<1>6. CASE Navigation!Judge
  <2> DEFINE p == [t EXCEPT !.lastEpoch = {t.epoch}]
  <2>1. \/ k' = t
        \/ k' = [p EXCEPT !.first = {}]
        \/ \E r, q : k' = [p EXCEPT !.first = {}, !.reprobe = r, !.pause = q]
        \/ \E w : k' = [p EXCEPT !.early = w]
        \/ \E w : k' = [p EXCEPT !.first = w]
    BY <1>6 DEF Navigation!Judge, Navigation!Weigh, t
  <2>2. DOMAIN p = KFields /\ p.exact = t.exact
    BY <1>0 DEF KeptWell, KFields
  <2> HIDE DEF p
  <2>3. k'.exact = t.exact
    BY <2>1, <2>2 DEF KFields
  <2> QED
    BY <1>4, <1>6, <2>3 DEF Navigation!Judge
<1>7. CASE Navigation!Conclude
  BY <1>1, <1>4, <1>7 DEF Navigation!Conclude, Navigation!Lands, t
<1>8. CASE Navigation!LastJudge \/ Navigation!Landing \/ Navigation!Probe
  BY <1>1, <1>3, <1>8
     DEF Navigation!LastJudge, Navigation!Lands, Navigation!End, Navigation!Landing, Navigation!Probe
<1>9. CASE Navigation!Begin \/ Navigation!Navigate \/ Navigation!NavigateUnanswered \/ Navigation!Revive
  <2>1. cursor = 0
    BY <1>9 DEF Navigation!Begin, Navigation!Navigate, Navigation!NavigateUnanswered, Navigation!Revive, NavInv, CriticalInv
  <2> QED
    BY <1>1, <1>2, <1>9, <2>1 DEF Navigation!Begin, Navigation!Navigate, Navigation!NavigateUnanswered, Navigation!Revive,
         Navigation!Stay, Navigation!End
<1>10. CASE Navigation!Browser \/ Navigation!Tick
  <2>1. UNCHANGED <<cursor, k, loader, mode>> /\ (hits' = hits \/ \E e : hits' = Append(hits, e))
    BY <1>10 DEF Navigation!Browser, Navigation!Tick, Navigation!Lifecycle, Navigation!RequestSent,
         Navigation!RequestEnded, Navigation!Renders, Navigation!Offer
  <2>2. \A i \in 1..cursor : hits'[i] = hits[i]
    BY <1>0, <2>1
  <2> QED
    BY <1>3, <2>1, <2>2
<1>11. CASE UNCHANGED Navigation!navVars
  BY <1>3, <1>11 DEF Navigation!navVars
<1> QED
  BY <1>5, <1>6, <1>7, <1>8, <1>9, <1>10, <1>11 DEF Navigation!Next, Navigation!Goto

\* The event the call waits for, once delivered, is never overruled: not by an early return
\* decided on an older view, not by the deadline.
THEOREM TheExactEventWins == Navigation!Spec => Navigation!ExactWins
<1>1. Navigation!Init => NavInv /\ ExactInv
  BY DEF Navigation!Init, NavInv, NavType, NavStages, FlyingInv, CriticalInv, ProbeInv, EarlyInv, KeptWell, KFields,
         Navigation!Fresh, CriticalAt, InFlight, Pending, ExactInv
<1>2. NavInv /\ ExactInv /\ [Navigation!Next]_(Navigation!navVars)
        => [lifecycle = "none" /\ lifecycle' \notin {"none", "load", "Failed"} /\ stage \notin {"again", "revive"} =>
             \A i \in DOMAIN hits :
               ~(hits[i].kind = "lifecycle" /\ hits[i].name = mode.until /\ loader \in {0, hits[i].loader})]_(Navigation!navVars)
  <2> SUFFICES ASSUME NavInv, ExactInv, Navigation!Next,
                      lifecycle = "none", lifecycle' \notin {"none", "load", "Failed"}, stage \notin {"again", "revive"}
               PROVE  \A i \in DOMAIN hits : ~Awaited(i)
    BY DEF Awaited
  <2>1. Navigation!Taken.exact = FALSE
    <3>1. (Navigation!Conclude \/ Navigation!LastJudge) /\ ~Navigation!Taken.exact
      BY DEF Navigation!Next, Navigation!Goto, Navigation!Browser, Navigation!Begin, Navigation!Navigate,
             Navigation!NavigateUnanswered, Navigation!Revive, Navigation!Look, Navigation!Probe, Navigation!Judge,
             Navigation!Conclude, Navigation!LastJudge, Navigation!Landing, Navigation!Lifecycle,
             Navigation!RequestSent, Navigation!RequestEnded, Navigation!Renders, Navigation!Tick,
             Navigation!Lands, Navigation!End, Navigation!Stay
    <3> QED
      BY <3>1, TakenExact
  <2>2. DOMAIN hits = 1..Len(hits)
    BY DEF NavInv, NavType
  <2> QED
    BY <2>1, <2>2, TakenExact
<1> QED
  BY <1>1, <1>2, NavStep, ExactStep, PTL DEF Navigation!Spec, Navigation!ExactWins

-----------------------------------------------------------------------------
(* The operations side by side.                                            *)

\* A step of one operation is a stutter of each other.
LEMMA PartsStep ==
  ASSUME [PageNext]_<<part, navigation, world, click, guard, watch, frames, keys, cast, fetch>>
  PROVE  /\ [World!Next]_(World!worldVars) /\ [Click!Next]_(Click!clickVars) /\ [Guard!Next]_(Guard!guardVars)
         /\ [Watch!Next]_(Watch!watchVars) /\ [FrameList!Next]_(FrameList!framesVars)
         /\ [Keys!Next]_(Keys!inputVars) /\ [Fetch!Next]_(Fetch!fetchVars)
         /\ [Navigation!Next]_(Navigation!navVars)
<1> USE DEF navigation, Navigation!navVars, world, click, guard, watch, frames, keys, fetch, World!worldVars, Click!clickVars, Guard!guardVars,
            Watch!watchVars, FrameList!framesVars, Keys!inputVars, Fetch!fetchVars
<1>1. CASE Navigates
  BY <1>1 DEF Navigates
<1>2. CASE Evaluates
  BY <1>2 DEF Evaluates
<1>3. CASE Clicks
  BY <1>3 DEF Clicks
<1>4. CASE Guards
  BY <1>4 DEF Guards
<1>5. CASE Watches
  BY <1>5 DEF Watches
<1>6. CASE Lists
  BY <1>6 DEF Lists
<1>7. CASE Types
  BY <1>7 DEF Types
<1>8. CASE Records
  BY <1>8 DEF Records
<1>9. CASE Fetches
  BY <1>9 DEF Fetches
<1>10. CASE UNCHANGED <<part, navigation, world, click, guard, watch, frames, keys, cast, fetch>>
  BY <1>10
<1> QED
  BY <1>1, <1>2, <1>3, <1>4, <1>5, <1>6, <1>7, <1>8, <1>9, <1>10 DEF PageNext

\* Whatever is said above of an operation holds of it where the operations are put side by side,
\* as the run page checks them.
THEOREM SideBySide ==
  PageSpec => /\ []OneRequestEach /\ []NothingMissed /\ []NoneLeftOut /\ []NeverTwice /\ []NoSilentGap
              /\ []EarlyIsEarned /\ NavigatesGuarded /\ NeverRepeated
<1> DEFINE all == <<part, navigation, world, click, guard, watch, frames, keys, cast, fetch>>
<1>1. PageInit => /\ World!Init /\ Click!Init /\ Guard!Init /\ Watch!Init /\ FrameList!Init /\ Keys!Init /\ Fetch!Init
                  /\ Navigation!Init
  BY DEF PageInit
<1>2. [PageNext]_all => [World!Next]_(World!worldVars)
  BY PartsStep
<1>3. [PageNext]_all => [Click!Next]_(Click!clickVars)
  BY PartsStep
<1>4. [PageNext]_all => [Guard!Next]_(Guard!guardVars)
  BY PartsStep
<1>5. [PageNext]_all => [Watch!Next]_(Watch!watchVars)
  BY PartsStep
<1>6. [PageNext]_all => [FrameList!Next]_(FrameList!framesVars)
  BY PartsStep
<1>7. [PageNext]_all => [Keys!Next]_(Keys!inputVars)
  BY PartsStep
<1>8. [PageNext]_all => [Fetch!Next]_(Fetch!fetchVars)
  BY PartsStep
<1>17. [PageNext]_all => [Navigation!Next]_(Navigation!navVars)
  BY PartsStep
<1>9. PageSpec => PageInit /\ [][PageNext]_all
  BY PTL DEF PageSpec
<1> HIDE DEF all
<1>10. PageSpec => NavigatesGuarded
  BY <1>1, <1>2, <1>9, NavigationsAreGuarded, PTL DEF World!Spec
<1>11. PageSpec => NeverRepeated
  BY <1>1, <1>3, <1>9, ConsequencesAreNotRepeated, PTL DEF Click!Spec
<1>12. PageSpec => []OneRequestEach
  BY <1>1, <1>4, <1>9, OneRequestPerConsent, PTL DEF Guard!Spec
<1>13. PageSpec => []NothingMissed
  BY <1>1, <1>5, <1>9, NoMomentMissed, PTL DEF Watch!Spec
<1>14. PageSpec => []NoneLeftOut
  BY <1>1, <1>6, <1>9, NoFrameLeftOut, PTL DEF FrameList!Spec
<1>15. PageSpec => []NeverTwice
  BY <1>1, <1>7, <1>9, NoKeyTwice, PTL DEF Keys!Spec
<1>16. PageSpec => []NoSilentGap
  BY <1>1, <1>8, <1>9, NoGapIsSilent, PTL DEF Fetch!Spec
<1>18. PageSpec => []EarlyIsEarned
  BY <1>1, <1>17, <1>9, EarlyReturnsAreEarned, PTL DEF Navigation!Spec
<1> QED
  BY <1>10, <1>11, <1>12, <1>13, <1>14, <1>15, <1>16, <1>18

=============================================================================
