----------------------------- MODULE WorkProofs -----------------------------
(***************************************************************************)
(* What is proved of the parts that MCWork puts side by side, for any      *)
(* writers, jobs, threads, tabs, workers and plans.                        *)
(***************************************************************************)
EXTENDS MCWork, FiniteSetTheorems, SequenceTheorems, WellFoundedInduction, TLAPS

-----------------------------------------------------------------------------
(* The content store.                                                      *)

Steps == {"idle", "look", "fill", "replace", "answer"}

\* A file holds what its name is the digest of, or is not there; and it is there
\* once a writer is about to answer with its name.
StoreInv ==
  /\ blobs \in [Store!Digests -> Store!Digests \cup {Store!Absent}]
  /\ doing \in [Writers -> Steps] /\ value \in [Writers -> Values] /\ digest = value
  /\ \A d \in Store!Digests : blobs[d] \in {Store!Absent, d}
  /\ \A w \in Writers : doing[w] = "answer" => blobs[digest[w]] = value[w]
  /\ \A r \in given : r[1] \in Values /\ r[1] = r[2] /\ blobs[r[1]] = r[2]

LEMMA DigestsAreValues == Store!Digests = Values
BY DEF Store!Digests, Store!Digest

LEMMA StoreStarts == Store!Init => StoreInv
BY DigestsAreValues DEF Store!Init, StoreInv, Store!Digest, Steps

LEMMA StoreStep ==
  ASSUME StoreInv, [Store!Next]_(Store!storeVars)
  PROVE  StoreInv'
<1> USE DigestsAreValues DEF StoreInv, Steps, Store!Goes
<1>1. ASSUME NEW w \in Writers, Store!Put(w) PROVE StoreInv'
  BY <1>1 DEF Store!Put, Store!Digest
<1>2. ASSUME NEW w \in Writers, Store!Look(w) PROVE StoreInv'
  BY <1>2 DEF Store!Look
<1>3. ASSUME NEW w \in Writers, Store!Fill(w) \/ Store!Dies(w) PROVE StoreInv'
  BY <1>3 DEF Store!Fill, Store!Dies
<1>4. ASSUME NEW w \in Writers, Store!Replace(w) PROVE StoreInv'
  BY <1>4, Zenon DEF Store!Replace
<1>5. ASSUME NEW w \in Writers, Store!Answer(w) PROVE StoreInv'
  BY <1>5 DEF Store!Answer
<1>6. CASE UNCHANGED Store!storeVars
  BY <1>6 DEF Store!storeVars
<1> QED
  BY <1>1, <1>2, <1>3, <1>4, <1>5, <1>6 DEF Store!Next

\* A reference given out finds the very value it was given for, whoever writes
\* the same at the same time and wherever a writer dies.
THEOREM ReferencesAreGood == Store!Spec => []RefIsGood
<1>1. StoreInv => RefIsGood
  BY DigestsAreValues DEF StoreInv, RefIsGood, Store!RefIsGood, Store!Get, Store!Digest
<1> QED
  BY <1>1, StoreStarts, StoreStep, PTL DEF Store!Spec

-----------------------------------------------------------------------------
(* The dashboard.                                                          *)

DashInv ==
  /\ status \in [Dash!Jobs -> {"pending", "running", "done", "failed"}] /\ filling \in [Dash!Posts -> SUBSET Dash!Jobs]
  /\ list \in [Dash!Posts -> SUBSET Dash!Jobs] /\ jobs \subseteq Dash!Jobs
  /\ AmberIsLive

LEMMA DashStarts == Dash!Init => DashInv
BY DEF Dash!Init, DashInv, AmberIsLive, Dash!AmberIsLive

\* Only fill_one() makes a job amber, and when it has ended its job is not amber,
\* whoever else may be filling it.
LEMMA FilledKeeps ==
  ASSUME DashInv, NEW i \in Dash!Posts, Dash!Filled(i)
  PROVE  DashInv'
<1> USE DEF DashInv, AmberIsLive, Dash!AmberIsLive
<1>1. PICK j \in filling[i] : /\ Dash!Settled(i, j)
                              /\ \E ended_as \in {"done", "failed"} : status' = [status EXCEPT ![j] = ended_as]
  BY DEF Dash!Filled
<1>2. PICK ended_as \in {"done", "failed"} : status' = [status EXCEPT ![j] = ended_as]
  BY <1>1
<1>3. filling' = [filling EXCEPT ![i] = @ \ {j}] /\ UNCHANGED <<jobs, list>>
  BY <1>1 DEF Dash!Settled
<1>4. j \in Dash!Jobs /\ status'[j] # "running" /\ \A k \in Dash!Jobs \ {j} : status'[k] = status[k]
  BY <1>1, <1>2
<1>5. ASSUME NEW k \in Dash!Jobs, status'[k] = "running" PROVE \E x \in Dash!Posts : k \in filling'[x]
  <2>1. k # j /\ status[k] = "running"
    BY <1>4, <1>5
  <2>2. PICK x \in Dash!Posts : k \in filling[x]
    BY <2>1
  <2> QED
    BY <1>3, <2>1, <2>2
<1> QED
  BY <1>2, <1>3, <1>5

LEMMA FillKeeps ==
  ASSUME DashInv, NEW i \in Dash!Posts, Dash!Fill(i)
  PROVE  DashInv'
<1> USE DEF DashInv, AmberIsLive, Dash!AmberIsLive
<1>1. PICK j \in list[i] : /\ filling' = [filling EXCEPT ![i] = @ \cup {j}]
                           /\ status' = [status EXCEPT ![j] = "running"]
  BY DEF Dash!Fill
<1>2. UNCHANGED <<jobs, list>> /\ j \in Dash!Jobs
  BY <1>1 DEF Dash!Fill
<1>3. ASSUME NEW k \in Dash!Jobs, status'[k] = "running" PROVE \E x \in Dash!Posts : k \in filling'[x]
  <2>1. CASE k = j
    BY <1>1, <2>1
  <2>2. CASE k # j
    <3>1. PICK x \in Dash!Posts : k \in filling[x]
      BY <1>1, <1>2, <1>3, <2>2
    <3> QED
      BY <1>1, <3>1
  <2> QED
    BY <2>1, <2>2
<1> QED
  BY <1>1, <1>2, <1>3

LEMMA DashStep ==
  ASSUME DashInv, [Dash!Next]_(Dash!dashVars), FoundAssumption
  PROVE  DashInv'
<1> USE DEF DashInv, AmberIsLive, Dash!AmberIsLive, Dash!jobVars, Dash!runVars
<1>1. CASE Dash!Reset
  <2>1. status' \in [Dash!Jobs -> {"pending", "running", "done", "failed"}] /\ UNCHANGED <<jobs, list, filling>>
    BY <1>1 DEF Dash!Reset
  <2>2. \A k \in Dash!Jobs : status'[k] = "running" => status[k] = "running"
    BY <1>1 DEF Dash!Reset
  <2> QED
    BY <2>1, <2>2
<1>2. ASSUME NEW i \in Dash!Posts, Dash!PostSearch(i) \/ Dash!PostRun(i) \/ Dash!Launch(i) \/ Dash!RunOver(i) PROVE DashInv'
  BY <1>2 DEF Dash!PostSearch, Dash!PostRun, Dash!Admit, Dash!Launch, Dash!RunOver
<1>3. ASSUME NEW i \in Dash!Posts, Dash!Search(i) \/ Dash!Browsed(i) PROVE DashInv'
  <2>1. UNCHANGED <<status, list, filling>>
    BY <1>3 DEF Dash!Search, Dash!Browsed
  <2>2. jobs' \subseteq Dash!Jobs
    BY <1>3, FoundAssumption DEF Dash!Search, Dash!Browsed, Dash!Jobs
  <2> QED
    BY <2>1, <2>2
<1>4. ASSUME NEW i \in Dash!Posts, Dash!Run(i) PROVE DashInv'
  BY <1>4 DEF Dash!Run
<1>5. CASE UNCHANGED Dash!dashVars
  BY <1>5 DEF Dash!dashVars
<1> QED
  BY <1>1, <1>2, <1>3, <1>4, <1>5, FillKeeps, FilledKeeps DEF Dash!Next, Dash!Works

\* A job that is shown amber is being filled by a thread of some run, however
\* often it has been reset or run meanwhile.
THEOREM AmberIsFilled == Dash!Init /\ [][Dash!Next]_(Dash!dashVars) => []AmberIsLive
<1>1. DashInv => AmberIsLive
  BY DEF DashInv
<1> QED
  BY <1>1, DashStarts, DashStep, FoundAssumption, PTL

-----------------------------------------------------------------------------
(* The journal and its recorder.                                           *)

\* A file of frames holds the picture of that call.
Held(frames, r, n, span, view) ==
  \E f \in frames : f.dir = r /\ f.name = n /\ f.span = span /\ f.view = view

Span == [id : Nat, fn : Recorder!Helpers]
Ending == [at : {"no", "settle", "shoot", "write"}, span : Nat, parent : Nat,
           by : 0..MaxRecordings, view : Views \cup {Recorder!NoView}, frame : Nat]
RecType ==
  /\ closing \in [Actors -> Ending]
  /\ chosen \in [Actors -> Views \cup {Recorder!NoView}]
  /\ allocated \in [Recorder!Recordings -> Nat]
  /\ hook \in 0..MaxRecordings /\ journal \in 0..MaxRecordings

\* A number that was given out is nobody else's, and has no file until its
\* screenshot is there.
FrameInv ==
  /\ \A f \in disk : f.dir \in Recorder!Recordings /\ f.name \in 1..allocated[f.dir]
  /\ \A t \in Actors : closing[t].at \in {"settle", "shoot"} => closing[t].by \in Recorder!Recordings
  /\ \A t \in Actors : closing[t].at = "shoot" =>
       /\ closing[t].frame \in 1..allocated[closing[t].by]
       /\ \A f \in disk : ~(f.dir = closing[t].by /\ f.name = closing[t].frame)
  /\ \A t, u \in Actors : t # u /\ closing[t].at = "shoot" /\ closing[u].at = "shoot" =>
       ~(closing[t].by = closing[u].by /\ closing[t].frame = closing[u].frame)
  /\ \A t \in Actors : closing[t].at = "write" /\ closing[t].frame # 0 =>
       Held(disk, closing[t].by, closing[t].frame, closing[t].span, closing[t].view)
  /\ \A l \in lines : l.frame # 0 => Held(disk, l.by, l.frame, l.id, l.view)

\* id is a call of thread t.
Own(t, id, who) == id \in 1..Len(who) /\ who[id] = t

\* The spans on the stack of a thread are its own, the outer before the inner.
SpanInv ==
  /\ spans \in Nat /\ owner \in Seq(Actors) /\ Len(owner) = spans
  /\ stack \in [Actors -> Seq(Span)]
  /\ \A t \in Actors : Len(stack[t]) <= 2 /\ \A k \in 1..Len(stack[t]) : Own(t, stack[t][k].id, owner)
  /\ \A t \in Actors : Len(stack[t]) = 2 => stack[t][1].id < stack[t][2].id
  /\ \A t \in Actors : closing[t].at # "no" /\ closing[t].parent # 0 =>
       Own(t, closing[t].parent, owner) /\ closing[t].parent < closing[t].span
  /\ \A l \in lines : l.parent # 0 => Own(l.thread, l.parent, owner) /\ l.parent < l.id

RecInv == RecType /\ FrameInv /\ SpanInv

LEMMA StackType ==
  ASSUME SpanInv, NEW t \in Actors
  PROVE  stack[t] \in Seq(Span) /\ Len(stack[t]) \in 0..2
<1>1. stack[t] \in Seq(Span)
  BY DEF SpanInv
<1>2. Len(stack[t]) <= 2
  BY DEF SpanInv
<1>3. Len(stack[t]) \in Nat
  BY <1>1, LenProperties
<1> DEFINE n == Len(stack[t])
<1>4. n \in Nat /\ n <= 2
  BY <1>2, <1>3
<1> HIDE DEF n
<1>5. n \in 0..2
  BY <1>4
<1> QED
  BY <1>1, <1>5 DEF n

LEMMA RecStarts == Recorder!Init /\ RecordingsAssumption => RecInv
<1> SUFFICES ASSUME Recorder!Init, RecordingsAssumption PROVE RecInv
  OBVIOUS
<1> USE RecordingsAssumption DEF RecordingsAssumption, Recorder!Init, Recorder!Idle
<1>1. RecType
  BY DEF RecType, Recorder!Recordings, Ending
<1>2. FrameInv
  BY DEF FrameInv
<1>3. SpanInv
  BY DEF SpanInv
<1> QED
  BY <1>1, <1>2, <1>3 DEF RecInv

LEMMA BeginKeeps ==
  ASSUME RecInv, NEW t \in Actors, Recorder!Begin(t)
  PROVE  RecInv'
<1> USE DEF RecInv
<1>1. RecType' /\ FrameInv'
  BY DEF Recorder!Begin, Recorder!recorderVars, RecType, FrameInv, Held
<1>2. PICK fn \in Recorder!Helpers : stack' = [stack EXCEPT ![t] = Append(@, [id |-> spans + 1, fn |-> fn])]
  BY DEF Recorder!Begin
<1>3. /\ spans' = spans + 1 /\ owner' = Append(owner, t) /\ UNCHANGED <<closing, lines>>
      /\ Len(stack[t]) < 2 /\ closing[t].at = "no"
  BY DEF Recorder!Begin
<1>4. /\ spans' \in Nat /\ owner' \in Seq(Actors) /\ Len(owner') = spans' /\ owner'[spans'] = t
      /\ \A id \in 1..spans : owner'[id] = owner[id]
  BY <1>3 DEF SpanInv
<1>5. \A u \in Actors, id \in 1..spans : Own(u, id, owner) => Own(u, id, owner')
  BY <1>3, <1>4 DEF Own, SpanInv
<1>6. stack' \in [Actors -> Seq(Span)]
  <2>1. [id |-> spans + 1, fn |-> fn] \in Span
    BY DEF SpanInv, Span
  <2>2. Append(stack[t], [id |-> spans + 1, fn |-> fn]) \in Seq(Span)
    BY <2>1, StackType
  <2> QED
    BY <1>2, <2>2 DEF SpanInv
<1>7. \A u \in Actors \ {t} : stack'[u] = stack[u]
  BY <1>2 DEF SpanInv
<1>8. /\ Len(stack'[t]) = Len(stack[t]) + 1 /\ stack'[t][Len(stack'[t])].id = spans'
      /\ \A k \in 1..Len(stack[t]) : stack'[t][k] = stack[t][k]
  BY <1>2, <1>3 DEF SpanInv
<1>9. \A u \in Actors : Len(stack'[u]) <= 2 /\ \A k \in 1..Len(stack'[u]) : Own(u, stack'[u][k].id, owner')
  <2>1. \A k \in 1..Len(stack'[t]) : Own(t, stack'[t][k].id, owner')
    <3>1. Own(t, spans', owner')
      BY <1>4, <1>3 DEF Own, SpanInv
    <3>2. \A k \in 1..Len(stack[t]) : Own(t, stack'[t][k].id, owner')
      BY <1>8, <1>5 DEF SpanInv, Own
    <3>3. Len(stack[t]) \in Nat
      BY DEF SpanInv
    <3> QED
      BY <3>1, <3>2, <3>3, <1>8
  <2>2. Len(stack'[t]) <= 2
    BY <1>3, <1>8 DEF SpanInv
  <2>3. \A u \in Actors \ {t} : Len(stack'[u]) <= 2 /\ \A k \in 1..Len(stack'[u]) : Own(u, stack'[u][k].id, owner')
    BY <1>7, <1>5 DEF SpanInv, Own
  <2> QED
    BY <2>1, <2>2, <2>3
<1>10. \A u \in Actors : Len(stack'[u]) = 2 => stack'[u][1].id < stack'[u][2].id
  <2>1. Len(stack'[t]) = 2 => stack'[t][1].id < stack'[t][2].id
    BY <1>3, <1>8 DEF SpanInv, Own
  <2> QED
    BY <2>1, <1>7 DEF SpanInv
<1>11. /\ \A u \in Actors : closing[u].at # "no" /\ closing[u].parent # 0 =>
            Own(u, closing[u].parent, owner') /\ closing[u].parent < closing[u].span
       /\ \A l \in lines : l.parent # 0 => Own(l.thread, l.parent, owner') /\ l.parent < l.id
  BY <1>4, <1>3 DEF SpanInv, Own
<1> HIDE DEF RecInv
<1>12. SpanInv'
  BY <1>3, <1>4, <1>6, <1>9, <1>10, <1>11 DEF SpanInv
<1> QED
  BY <1>1, <1>12 DEF RecInv

LEMMA EndKeeps ==
  ASSUME RecInv, NEW t \in Actors, Recorder!End(t), RecordingsAssumption
  PROVE  RecInv'
<1> USE DEF RecInv
<1> DEFINE span == Recorder!Top(stack[t])
           parent == Recorder!Top(Recorder!Popped(stack[t]))
           pictured == Recorder!Pictured(span.fn, parent, chosen[t])
           c == [at |-> IF pictured THEN "settle" ELSE "write", span |-> span.id, parent |-> parent.id,
                 by |-> IF pictured THEN hook ELSE 0, view |-> chosen[t], frame |-> 0]
<1>1. /\ closing' = [closing EXCEPT ![t] = c] /\ stack' = [stack EXCEPT ![t] = Recorder!Popped(@)]
      /\ stack[t] # <<>> /\ closing[t].at = "no"
      /\ UNCHANGED <<chosen, spans, owner, journal, hook, profile, allocated, disk, lines>>
  BY DEF Recorder!End, Recorder!recorderVars
<1>2. /\ stack[t] \in Seq(Span) /\ Len(stack[t]) \in {1, 2}
      /\ span = stack[t][Len(stack[t])]
  <2>1. stack[t] \in Seq(Span) /\ Len(stack[t]) \in 0..2 /\ Len(stack[t]) # 0
    BY <1>1, StackType, EmptySeq
  <2> QED
    BY <1>1, <2>1 DEF Recorder!Top
<1>3. /\ Recorder!Popped(stack[t]) = IF Len(stack[t]) = 1 THEN <<>> ELSE <<stack[t][1]>>
      /\ parent = IF Len(stack[t]) = 1 THEN Recorder!NoSpan ELSE stack[t][1]
  <2>1. CASE Len(stack[t]) = 1
    <3>1. Recorder!Popped(stack[t]) = <<>>
      BY <1>2, <2>1, SubSeqEmpty DEF Recorder!Popped
    <3> QED
      BY <2>1, <3>1 DEF Recorder!Top
  <2>2. CASE Len(stack[t]) = 2
    <3>1. stack[t][1] \in Span
      BY <1>2, <2>2, ElementOfSeq
    <3>2. SubSeq(stack[t], 1, 1) \in Seq(Span) /\ Len(SubSeq(stack[t], 1, 1)) = 1 /\ SubSeq(stack[t], 1, 1)[1] = stack[t][1]
      BY <3>1, SubSeqProperties
    <3>3. SubSeq(stack[t], 1, 1) = <<stack[t][1]>>
      <4>1. <<stack[t][1]>> \in Seq(Span) /\ Len(<<stack[t][1]>>) = 1 /\ <<stack[t][1]>>[1] = stack[t][1]
        BY <3>1
      <4> QED
        <5> DEFINE s == SubSeq(stack[t], 1, 1)
                   one == <<stack[t][1]>>
        <5>1. s \in Seq(Span) /\ one \in Seq(Span) /\ Len(s) = 1 /\ Len(one) = 1 /\ s[1] = one[1]
          BY <3>2, <4>1
        <5> HIDE DEF s, one
        <5>2. s = one
          BY <5>1, SeqEqual
        <5> QED
          BY <5>2 DEF s, one
    <3>4. Recorder!Popped(stack[t]) = <<stack[t][1]>>
      BY <2>2, <3>3 DEF Recorder!Popped
    <3> QED
      BY <2>2, <3>4 DEF Recorder!Top
  <2> QED
    BY <1>2, <2>1, <2>2
<1>4. span.id \in Nat /\ parent.id \in Nat /\ (parent.id # 0 => Own(t, parent.id, owner) /\ parent.id < span.id)
  <2>1. span \in Span /\ span.id \in Nat
    <3>1. span \in Span
      <4>1. stack[t] \in Seq(Span)
        BY <1>2
      <4>3. Len(stack[t]) \in 1..Len(stack[t])
        <5>1. CASE Len(stack[t]) = 1
          BY <5>1
        <5>2. CASE Len(stack[t]) = 2
          BY <5>2
        <5> QED
          BY <1>2, <5>1, <5>2
      <4>2. stack[t][Len(stack[t])] \in Span
        BY <4>1, <4>3, ElementOfSeq
      <4> QED
        BY <1>2, <4>2
    <3> QED
      BY <3>1 DEF Span
  <2>2. CASE Len(stack[t]) = 1
    BY <1>3, <2>1, <2>2 DEF Recorder!NoSpan
  <2>3. CASE Len(stack[t]) = 2
    <3>1. stack[t][1].id \in Nat /\ Own(t, stack[t][1].id, owner) /\ stack[t][1].id < stack[t][2].id
      <4>1. stack[t][1] \in Span
        BY <1>2, <2>3, ElementOfSeq
      <4>2. stack[t][1].id \in Nat
        BY <4>1 DEF Span
      <4> QED
        BY <4>2, <2>3 DEF SpanInv
    <3> QED
      BY <1>2, <1>3, <2>1, <2>3, <3>1
  <2> QED
    BY <1>2, <2>2, <2>3
<1>5. pictured => hook \in Recorder!Recordings
  BY RecordingsAssumption DEF Recorder!Pictured, RecType, Recorder!Recordings, RecordingsAssumption
<1>6. c \in Ending
  BY <1>4, RecordingsAssumption DEF RecType, RecordingsAssumption, Ending
<1>7. /\ c.frame = 0 /\ c.at \in {"settle", "write"} /\ (c.at = "settle" => c.by \in Recorder!Recordings)
      /\ c.parent = parent.id /\ c.span = span.id
  BY <1>5
<1> HIDE DEF c, span, parent, pictured
<1>8. closing'[t] = c /\ \A u \in Actors \ {t} : closing'[u] = closing[u]
  BY <1>1 DEF RecType
<1>9. RecType'
  BY <1>1, <1>6 DEF RecType
<1>10. FrameInv'
  BY <1>1, <1>7, <1>8 DEF FrameInv, Held
<1>11. SpanInv'
  <2>1. stack' \in [Actors -> Seq(Span)]
    <3>1. Recorder!Popped(stack[t]) \in Seq(Span)
      BY <1>2, <1>3
    <3> QED
      BY <1>1, <3>1 DEF SpanInv
  <2>2. \A u \in Actors : /\ Len(stack'[u]) <= 2 /\ \A k \in 1..Len(stack'[u]) : Own(u, stack'[u][k].id, owner')
                          /\ Len(stack'[u]) = 2 => stack'[u][1].id < stack'[u][2].id
    <3>1. stack'[t] = IF Len(stack[t]) = 1 THEN <<>> ELSE <<stack[t][1]>>
      BY <1>1, <1>3 DEF SpanInv
    <3>2. \A k \in 1..Len(stack'[t]) : k = 1 /\ stack'[t][1] = stack[t][1] /\ Len(stack[t]) = 2
      BY <3>1, <1>2
    <3>3. Len(stack'[t]) <= 1
      BY <3>1
    <3> QED
      BY <3>2, <3>3, <1>1, <1>2 DEF SpanInv, Own
  <2>3. \A u \in Actors : closing'[u].at # "no" /\ closing'[u].parent # 0 =>
          Own(u, closing'[u].parent, owner') /\ closing'[u].parent < closing'[u].span
    BY <1>1, <1>4, <1>7, <1>8 DEF SpanInv, Own
  <2> QED
    BY <1>1, <2>1, <2>2, <2>3 DEF SpanInv, Own
<1> QED
  BY <1>9, <1>10, <1>11

LEMMA AllocateKeeps ==
  ASSUME RecInv, NEW t \in Actors, Recorder!Allocate(t)
  PROVE  RecInv'
<1> USE DEF RecInv
<1> DEFINE r == closing[t].by
           n == allocated[r] + 1
<1>1. /\ closing[t].at = "settle" /\ allocated' = [allocated EXCEPT ![r] = @ + 1]
      /\ closing' = [closing EXCEPT ![t].at = "shoot", ![t].frame = n]
      /\ UNCHANGED <<stack, chosen, spans, owner, journal, hook, profile, disk, lines>>
  BY DEF Recorder!Allocate
<1>2. r \in Recorder!Recordings /\ allocated[r] \in Nat
  BY <1>1 DEF FrameInv, RecType
<1>3. /\ closing'[t] = [closing[t] EXCEPT !.at = "shoot", !.frame = n]
      /\ \A u \in Actors \ {t} : closing'[u] = closing[u]
  BY <1>1 DEF RecType
<1>4. /\ closing'[t].at = "shoot" /\ closing'[t].frame = n /\ closing'[t].by = r
      /\ closing'[t].parent = closing[t].parent /\ closing'[t].span = closing[t].span
      /\ closing'[t] \in Ending
  <2>1. closing[t] \in Ending /\ n \in Nat
    BY <1>2 DEF RecType
  <2> QED
    BY <1>3, <2>1 DEF Ending
<1>10. \A u \in Actors \ {t} : closing'[u] = closing[u]
  BY <1>3
<1>5. allocated'[r] = n /\ \A q \in Recorder!Recordings \ {r} : allocated'[q] = allocated[q]
  BY <1>1, <1>2 DEF RecType
<1>6. RecType'
  <2>1. closing' \in [Actors -> Ending]
    BY <1>1, <1>4, <1>10 DEF RecType
  <2> QED
    BY <1>1, <1>2, <2>1 DEF RecType
<1> HIDE DEF r, n
<1>7. n = allocated[r] + 1
  BY DEF n
<1>8. FrameInv'
  <2>1. \A f \in disk : f.dir \in Recorder!Recordings /\ f.name \in 1..allocated'[f.dir]
    BY <1>2, <1>5, <1>7 DEF FrameInv, RecType
  <2>2. \A u \in Actors : closing'[u].at \in {"settle", "shoot"} => closing'[u].by \in Recorder!Recordings
    BY <1>2, <1>10, <1>4 DEF FrameInv
  <2>3. \A u \in Actors : closing'[u].at = "shoot" =>
          /\ closing'[u].frame \in 1..allocated'[closing'[u].by]
          /\ \A f \in disk : ~(f.dir = closing'[u].by /\ f.name = closing'[u].frame)
    <3>1. n \in 1..allocated'[r] /\ \A f \in disk : ~(f.dir = r /\ f.name = n)
      BY <1>2, <1>5, <1>7 DEF FrameInv
    <3>2. ASSUME NEW u \in Actors \ {t}, closing[u].at = "shoot"
          PROVE  /\ closing[u].frame \in 1..allocated'[closing[u].by]
                 /\ \A f \in disk : ~(f.dir = closing[u].by /\ f.name = closing[u].frame)
      <4>1. closing[u].by \in Recorder!Recordings /\ closing[u].frame \in 1..allocated[closing[u].by]
        BY <3>2 DEF FrameInv
      <4>2. \A f \in disk : ~(f.dir = closing[u].by /\ f.name = closing[u].frame)
        BY <3>2 DEF FrameInv
      <4> QED
        BY <4>1, <4>2, <1>2, <1>5, <1>7 DEF RecType
    <3> QED
      BY <3>1, <3>2, <1>10, <1>4
  <2>4. \A u \in Actors \ {t} : closing[u].at = "shoot" => ~(closing[u].by = r /\ closing[u].frame = n)
    BY <1>2, <1>7 DEF FrameInv
  <2>5. \A u, v \in Actors : u # v /\ closing'[u].at = "shoot" /\ closing'[v].at = "shoot" =>
          ~(closing'[u].by = closing'[v].by /\ closing'[u].frame = closing'[v].frame)
    BY <2>4, <1>10, <1>4 DEF FrameInv
  <2>6. \A u \in Actors : closing'[u].at = "write" /\ closing'[u].frame # 0 =>
          Held(disk, closing'[u].by, closing'[u].frame, closing'[u].span, closing'[u].view)
    BY <1>10, <1>4 DEF FrameInv
  <2> QED
    BY <1>1, <2>1, <2>2, <2>3, <2>5, <2>6 DEF FrameInv, Held
<1>9. SpanInv'
  <2>1. \A u \in Actors : closing'[u].at # "no" /\ closing'[u].parent # 0 =>
          Own(u, closing'[u].parent, owner) /\ closing'[u].parent < closing'[u].span
    BY <1>1, <1>10, <1>4 DEF SpanInv
  <2> QED
    BY <1>1, <2>1 DEF SpanInv
<1> QED
  BY <1>6, <1>8, <1>9

LEMMA ShootKeeps ==
  ASSUME RecInv, NEW t \in Actors, Recorder!Shoot(t)
  PROVE  RecInv'
<1> USE DEF RecInv
<1> DEFINE c == closing[t]
           new == [dir |-> c.by, name |-> c.frame, span |-> c.span, view |-> c.view]
<1>1. /\ c.at = "shoot" /\ c \in Ending
      /\ UNCHANGED <<stack, chosen, spans, owner, journal, hook, profile, allocated, lines>>
  BY DEF Recorder!Shoot, Recorder!recorderVars, RecType
<1>2. c.by \in Recorder!Recordings /\ c.frame \in 1..allocated[c.by] /\ allocated[c.by] \in Nat
  BY <1>1 DEF FrameInv, RecType
<1>3. /\ closing' \in [Actors -> Ending] /\ closing'[t].at = "write"
      /\ closing'[t].parent = c.parent /\ closing'[t].span = c.span
      /\ \A u \in Actors \ {t} : closing'[u] = closing[u]
  <2>1. \/ closing' = [closing EXCEPT ![t] = [c EXCEPT !.at = "write"]]
        \/ closing' = [closing EXCEPT ![t] = [c EXCEPT !.at = "write", !.frame = 0]]
    BY DEF Recorder!Shoot
  <2>2. [c EXCEPT !.at = "write"] \in Ending /\ [c EXCEPT !.at = "write", !.frame = 0] \in Ending
    BY <1>1 DEF Ending
  <2>3. PICK e \in Ending : /\ closing' = [closing EXCEPT ![t] = e]
                            /\ e = [c EXCEPT !.at = "write"] \/ e = [c EXCEPT !.at = "write", !.frame = 0]
    BY <2>1, <2>2
  <2>4. e.at = "write" /\ e.parent = c.parent /\ e.span = c.span
    BY <2>3, <1>1 DEF Ending
  <2> HIDE DEF c
  <2> QED
    BY <2>3, <2>4 DEF RecType
<1>4. RecType'
  BY <1>1, <1>3 DEF RecType
<1>5. SpanInv'
  <2>1. \A u \in Actors : closing'[u].at # "no" /\ closing'[u].parent # 0 =>
          Own(u, closing'[u].parent, owner) /\ closing'[u].parent < closing'[u].span
    BY <1>1, <1>3 DEF SpanInv
  <2> QED
    BY <1>1, <2>1 DEF SpanInv
<1>6. FrameInv'
  <2>1. CASE /\ disk' = {f \in disk : f.dir # c.by \/ f.name # c.frame} \cup {new}
             /\ closing' = [closing EXCEPT ![t].at = "write"]
    <3>1. disk' = disk \cup {new}
      <4>1. \A f \in disk : f.dir # c.by \/ f.name # c.frame
        BY <1>1 DEF FrameInv
      <4> QED
        BY <2>1, <4>1
    <3>2. Held(disk', c.by, c.frame, c.span, c.view) /\ \A r, n, s, v : Held(disk, r, n, s, v) => Held(disk', r, n, s, v)
      <4>1. new \in disk' /\ new.dir = c.by /\ new.name = c.frame /\ new.span = c.span /\ new.view = c.view
        BY <3>1
      <4>2. disk \subseteq disk'
        BY <3>1
      <4>3. ASSUME NEW r, NEW n, NEW s, NEW v, Held(disk, r, n, s, v) PROVE Held(disk', r, n, s, v)
        BY <4>2, <4>3, Zenon DEF Held
      <4> HIDE DEF new, c
      <4> QED
        BY <4>1, <4>3 DEF Held
    <3>3. closing'[t].by = c.by /\ closing'[t].frame = c.frame /\ closing'[t].view = c.view
      BY <1>1, <2>1 DEF RecType, Ending
    <3>4. \A f \in disk' : f.dir \in Recorder!Recordings /\ f.name \in 1..allocated[f.dir]
      BY <1>2, <3>1 DEF FrameInv
    <3>5. \A u \in Actors : closing'[u].at \in {"settle", "shoot"} => closing'[u].by \in Recorder!Recordings
      BY <1>3 DEF FrameInv
    <3>6. \A u \in Actors : closing'[u].at = "shoot" =>
            /\ closing'[u].frame \in 1..allocated[closing'[u].by]
            /\ \A f \in disk' : ~(f.dir = closing'[u].by /\ f.name = closing'[u].frame)
      BY <1>1, <1>3, <3>1 DEF FrameInv
    <3>7. \A u, v \in Actors : u # v /\ closing'[u].at = "shoot" /\ closing'[v].at = "shoot" =>
            ~(closing'[u].by = closing'[v].by /\ closing'[u].frame = closing'[v].frame)
      BY <1>3 DEF FrameInv
    <3>8. \A u \in Actors : closing'[u].at = "write" /\ closing'[u].frame # 0 =>
            Held(disk', closing'[u].by, closing'[u].frame, closing'[u].span, closing'[u].view)
      BY <1>3, <3>2, <3>3 DEF FrameInv
    <3>9. \A l \in lines : l.frame # 0 => Held(disk', l.by, l.frame, l.id, l.view)
      BY <3>2 DEF FrameInv
    <3> QED
      BY <1>1, <3>4, <3>5, <3>6, <3>7, <3>8, <3>9 DEF FrameInv
  <2>2. CASE closing' = [closing EXCEPT ![t].at = "write", ![t].frame = 0] /\ UNCHANGED disk
    <3>1. closing'[t].frame = 0
      BY <1>1, <2>2 DEF RecType, Ending
    <3> QED
      BY <1>1, <1>3, <2>2, <3>1 DEF FrameInv
  <2> QED
    BY <2>1, <2>2 DEF Recorder!Shoot
<1> QED
  BY <1>4, <1>5, <1>6

LEMMA WriteKeeps ==
  ASSUME RecInv, NEW t \in Actors, Recorder!Write(t), RecordingsAssumption
  PROVE  RecInv'
<1> USE DEF RecInv
<1> DEFINE c == closing[t]
           new == [dir |-> journal, thread |-> t, id |-> c.span, parent |-> c.parent,
                   by |-> c.by, frame |-> c.frame, view |-> c.view]
<1>1. /\ c.at = "write" /\ lines' = lines \cup {new} /\ closing' = [closing EXCEPT ![t] = Recorder!Idle]
      /\ UNCHANGED <<stack, chosen, spans, owner, journal, hook, profile, allocated, disk>>
  BY DEF Recorder!Write, Recorder!recorderVars
<1>2. /\ closing' \in [Actors -> Ending] /\ closing'[t] = Recorder!Idle
      /\ \A u \in Actors \ {t} : closing'[u] = closing[u]
  BY <1>1, RecordingsAssumption DEF RecType, Recorder!Idle, Ending, RecordingsAssumption
<1>3. Recorder!Idle.at = "no"
  BY DEF Recorder!Idle
<1>4. RecType'
  BY <1>1, <1>2 DEF RecType
<1>5. new.frame # 0 => Held(disk, new.by, new.frame, new.id, new.view)
  BY <1>1 DEF FrameInv
<1>6. new.parent # 0 => Own(new.thread, new.parent, owner) /\ new.parent < new.id
  BY <1>1 DEF SpanInv
<1> HIDE DEF new
<1>7. FrameInv'
  BY <1>1, <1>2, <1>3, <1>5 DEF FrameInv
<1>8. SpanInv'
  <2>1. \A u \in Actors : closing'[u].at # "no" /\ closing'[u].parent # 0 =>
          Own(u, closing'[u].parent, owner) /\ closing'[u].parent < closing'[u].span
    BY <1>2, <1>3 DEF SpanInv
  <2>2. \A l \in lines' : l.parent # 0 => Own(l.thread, l.parent, owner) /\ l.parent < l.id
    BY <1>1, <1>6 DEF SpanInv
  <2> QED
    BY <1>1, <2>1, <2>2 DEF SpanInv
<1> QED
  BY <1>4, <1>7, <1>8

LEMMA RecStep ==
  ASSUME RecInv, [Recorder!Next]_(Recorder!recVars), RecordingsAssumption
  PROVE  RecInv'
<1> USE DEF RecInv
<1>1. ASSUME UNCHANGED <<closing, stack, spans, owner, allocated, disk, lines>>, chosen' \in [Actors -> Views \cup {Recorder!NoView}],
             hook' \in 0..MaxRecordings, journal' \in 0..MaxRecordings
      PROVE  RecInv'
  BY <1>1 DEF RecType, FrameInv, SpanInv
<1>2. CASE Recorder!Move \/ Recorder!Install \/ Recorder!StopRecording
  BY <1>1, <1>2, RecordingsAssumption
     DEF Recorder!Move, Recorder!Install, Recorder!StopRecording, Recorder!threadVars, RecType, RecordingsAssumption
<1>3. ASSUME NEW t \in Actors, Recorder!Turn(t) PROVE RecInv'
  BY <1>1, <1>3 DEF Recorder!Turn, Recorder!recorderVars, RecType
<1>4. CASE UNCHANGED Recorder!recVars
  BY <1>1, <1>4 DEF Recorder!recVars, RecType
<1> QED
  BY <1>2, <1>3, <1>4, BeginKeeps, EndKeeps, AllocateKeeps, ShootKeeps, WriteKeeps DEF Recorder!Next

\* A line of the journal is about its own call: the picture it names was taken
\* for that call, of the tab its thread drove, and its parent is an earlier call
\* of the same thread, whoever else was calling and recording.
THEOREM LinesAreTheirCalls == Recorder!Spec => []LineIsItsCalls
<1>1. RecInv => LineIsItsCalls
  BY DEF RecInv, FrameInv, SpanInv, Held, Own, LineIsItsCalls, Recorder!LineIsItsCalls,
     Recorder!FrameIsItsCalls, Recorder!ParentIsOwn
<1> QED
  BY <1>1, RecStarts, RecStep, RecordingsAssumption, PTL DEF Recorder!Spec

-----------------------------------------------------------------------------
(* A set that gains or loses one member.                                   *)

One(condition) == IF condition THEN 1 ELSE 0

LEMMA CountMoves ==
  ASSUME NEW S, NEW T, NEW p, IsFiniteSet(S), S \ {p} = T \ {p}
  PROVE  /\ Cardinality(S) \in Nat /\ Cardinality(T) \in Nat
         /\ Cardinality(T) = Cardinality(S) + One(p \in T) - One(p \in S)
<1> DEFINE R == S \ {p}
<1>1. IsFiniteSet(R) /\ p \notin R
  BY FS_Subset
<1>2. Cardinality(R) \in Nat /\ Cardinality(R \cup {p}) = Cardinality(R) + 1
  BY <1>1, FS_CardinalityType, FS_AddElement
<1>3. S = (IF p \in S THEN R \cup {p} ELSE R) /\ T = (IF p \in T THEN R \cup {p} ELSE R)
  OBVIOUS
<1>4. ASSUME NEW Q, Q = (IF p \in Q THEN R \cup {p} ELSE R) PROVE Cardinality(Q) = Cardinality(R) + One(p \in Q)
  <2> HIDE DEF R
  <2>1. CASE p \in Q
    BY <1>2, <1>4, <2>1 DEF One
  <2>2. CASE p \notin Q
    BY <1>2, <1>4, <2>2 DEF One
  <2> QED
    BY <2>1, <2>2
<1>5. Cardinality(S) = Cardinality(R) + One(p \in S) /\ Cardinality(T) = Cardinality(R) + One(p \in T)
  <2> HIDE DEF R
  <2> QED
    BY <1>3, <1>4
<1>6. One(p \in S) \in {0, 1} /\ One(p \in T) \in {0, 1}
  BY DEF One
<1> HIDE DEF R
<1> QED
  BY <1>2, <1>4, <1>5, <1>6

-----------------------------------------------------------------------------
(* The tabs of a session.                                                  *)

Building(t) == {p \in Threads : arg[p] = t /\ call[p] = "store"}
Dropping(t) == {p \in Threads : arg[p] = t /\ call[p] = "unsubscribe" /\ popped[p]}
Closing(t) == {p \in Threads : call[p] = "tabs" /\ t \in left}

\* What thread p has in its hands of target t, and what the table has.
Mine(p, t) == One(p \in Building(t)) + One(p \in Dropping(t)) + One(p \in Closing(t))
Tabled(t) == One(t \in tabs)

Accounted(t) ==
  listening[t] = Tabled(t) + Cardinality(Building(t)) + Cardinality(Dropping(t)) + Cardinality(Closing(t))

SessType ==
  /\ listening \in [Targets -> Int] /\ attaching \in [Targets -> Threads \cup {Session!None}]
  /\ call = [p \in Threads |-> call[p]] /\ arg = [p \in Threads |-> arg[p]] /\ popped \in [Threads -> BOOLEAN]

OnATarget == {"attach", "build", "store", "close", "teardown", "unsubscribe"}

\* A Tab is built under the lock of its target, while the table has none; and one
\* thread closes the session.
HoldInv ==
  /\ \A p \in Threads : call[p] \in OnATarget => arg[p] \in Targets
  /\ \A p \in Threads : call[p] \in {"build", "store"} => attaching[arg[p]] = p /\ arg[p] \notin tabs
  /\ \A p \in Threads : call[p] \in {"contexts", "tabs"} => closer = p

SessInv == SessType /\ HoldInv /\ \A t \in Targets : Accounted(t)

LEMMA SessIsForgotten == SessInv => NoTabForgotten
<1>1. \A S : Session!Cardinality(S) = Cardinality(S)
  BY DEF Session!Cardinality, Cardinality
<1> QED
  BY <1>1 DEF SessInv, Accounted, Tabled, One, Building, Dropping, Closing, NoTabForgotten, Session!NoTabForgotten

LEMMA SessStarts == Session!Init => SessInv
<1> SUFFICES ASSUME Session!Init PROVE SessInv
  OBVIOUS
<1> USE DEF Session!Init
<1>1. SessType /\ HoldInv
  BY DEF SessType, HoldInv, OnATarget
<1>2. ASSUME NEW t \in Targets PROVE Accounted(t)
  <2>1. Building(t) = {} /\ Dropping(t) = {} /\ Closing(t) = {} /\ Tabled(t) = 0 /\ listening[t] = 0
    BY DEF Building, Dropping, Closing, Tabled, One
  <2> QED
    BY <2>1, FS_EmptySet DEF Accounted
<1> QED
  BY <1>1, <1>2 DEF SessInv

\* The others go on with what they have in hand; closing the session is one's own.
OthersRest(p) ==
  \A q \in Threads \ {p} :
    /\ call'[q] = call[q] /\ arg'[q] = arg[q] /\ popped'[q] = popped[q]
    /\ call[q] # "tabs" \/ left' = left

\* What begins to listen, or ceases to, is in the table or in the hands of p.
Moves(p, t) == listening'[t] + Tabled(t) + Mine(p, t) = listening[t] + Tabled(t)' + Mine(p, t)'

LEMMA HandsMove ==
  ASSUME SessInv, NEW p \in Threads, NEW t \in Targets, OthersRest(p), Moves(p, t), listening'[t] \in Int,
         ThreadsAssumption
  PROVE  Accounted(t)'
<1>1. /\ Building(t) \ {p} = Building(t)' \ {p}
      /\ Dropping(t) \ {p} = Dropping(t)' \ {p}
      /\ Closing(t) \ {p} = Closing(t)' \ {p}
  BY DEF Building, Dropping, Closing, OthersRest
<1>2. IsFiniteSet(Building(t)) /\ IsFiniteSet(Dropping(t)) /\ IsFiniteSet(Closing(t))
  BY FS_Subset, ThreadsAssumption DEF Building, Dropping, Closing, ThreadsAssumption
<1>3. /\ Cardinality(Building(t)) \in Nat /\ Cardinality(Building(t))' \in Nat
      /\ Cardinality(Building(t))' = Cardinality(Building(t)) + One(p \in Building(t)') - One(p \in Building(t))
  BY <1>1, <1>2, CountMoves
<1>4. /\ Cardinality(Dropping(t)) \in Nat /\ Cardinality(Dropping(t))' \in Nat
      /\ Cardinality(Dropping(t))' = Cardinality(Dropping(t)) + One(p \in Dropping(t)') - One(p \in Dropping(t))
  BY <1>1, <1>2, CountMoves
<1>5. /\ Cardinality(Closing(t)) \in Nat /\ Cardinality(Closing(t))' \in Nat
      /\ Cardinality(Closing(t))' = Cardinality(Closing(t)) + One(p \in Closing(t)') - One(p \in Closing(t))
  BY <1>1, <1>2, CountMoves
<1>6. \A c \in BOOLEAN : One(c) \in {0, 1}
  BY DEF One
<1>7. listening[t] = Tabled(t) + Cardinality(Building(t)) + Cardinality(Dropping(t)) + Cardinality(Closing(t))
  BY DEF SessInv, Accounted
<1>8. /\ One(p \in Building(t)) \in {0, 1} /\ One(p \in Building(t)') \in {0, 1}
      /\ One(p \in Dropping(t)) \in {0, 1} /\ One(p \in Dropping(t)') \in {0, 1}
      /\ One(p \in Closing(t)) \in {0, 1} /\ One(p \in Closing(t)') \in {0, 1}
      /\ Tabled(t) \in {0, 1} /\ Tabled(t)' \in {0, 1}
  BY DEF One, Tabled
<1>9. /\ Mine(p, t) = One(p \in Building(t)) + One(p \in Dropping(t)) + One(p \in Closing(t))
      /\ Mine(p, t)' = One(p \in Building(t)') + One(p \in Dropping(t)') + One(p \in Closing(t)')
  BY DEF Mine
<1>10. listening'[t] = Tabled(t)' + Cardinality(Building(t))' + Cardinality(Dropping(t))' + Cardinality(Closing(t))'
  <2> DEFINE b == Cardinality(Building(t))   b1 == Cardinality(Building(t))'
             d == Cardinality(Dropping(t))   d1 == Cardinality(Dropping(t))'
             c == Cardinality(Closing(t))    c1 == Cardinality(Closing(t))'
             pb == One(p \in Building(t))    pb1 == One(p \in Building(t)')
             pd == One(p \in Dropping(t))    pd1 == One(p \in Dropping(t)')
             pc == One(p \in Closing(t))     pc1 == One(p \in Closing(t)')
             k == Tabled(t)                  k1 == Tabled(t)'
             n1 == listening'[t]
  <2>1. /\ b \in Nat /\ b1 \in Nat /\ d \in Nat /\ d1 \in Nat /\ c \in Nat /\ c1 \in Nat
        /\ b1 = b + pb1 - pb /\ d1 = d + pd1 - pd /\ c1 = c + pc1 - pc
    BY <1>3, <1>4, <1>5
  <2>2. /\ pb \in {0, 1} /\ pb1 \in {0, 1} /\ pd \in {0, 1} /\ pd1 \in {0, 1} /\ pc \in {0, 1} /\ pc1 \in {0, 1}
        /\ k \in {0, 1} /\ k1 \in {0, 1} /\ n1 \in Int
    BY <1>8
  <2>3. n1 + k + (pb + pd + pc) = (k + b + d + c) + k1 + (pb1 + pd1 + pc1)
    BY <1>7, <1>9 DEF Moves
  <2> HIDE DEF b, b1, d, d1, c, c1, pb, pb1, pd, pd1, pc, pc1, k, k1, n1
  <2>4. n1 = k1 + b1 + d1 + c1
    BY <2>1, <2>2, <2>3
  <2> QED
    BY <2>4 DEF b1, d1, c1, k1, n1
<1> QED
  BY <1>10 DEF Accounted

LEMMA ByHands ==
  ASSUME SessInv, NEW p \in Threads, SessType', HoldInv', OthersRest(p), \A t \in Targets : Moves(p, t)
  PROVE  SessInv'
<1>1. ASSUME NEW t \in Targets PROVE Accounted(t)'
  BY HandsMove, ThreadsAssumption DEF SessType
<1> QED
  BY <1>1 DEF SessInv

InHands == {"store", "unsubscribe", "tabs"}

\* A step of a call that has nothing in hand, before or after, and locks nothing.
LEMMA QuietKeeps ==
  ASSUME SessInv, NEW p \in Threads, NEW to, NEW x,
         call' = [call EXCEPT ![p] = to], arg' = [arg EXCEPT ![p] = x],
         call[p] \notin InHands, to \notin InHands \cup {"build"},
         to \in OnATarget => x \in Targets,
         to = "contexts" => closer' = p,
         closer' = closer \/ (closer = Session!None /\ closer' = p),
         left' = left \/ closer \in {Session!None, p},
         UNCHANGED <<tabs, listening, popped, attaching>>
  PROVE  SessInv'
<1> USE DEF InHands
<1>1. call'[p] = to /\ arg'[p] = x /\ \A q \in Threads \ {p} : call'[q] = call[q] /\ arg'[q] = arg[q]
  BY DEF SessInv, SessType
<1>2. \A q \in Threads \ {p} : call[q] \in {"contexts", "tabs"} => closer = q /\ closer # Session!None
  BY ThreadsAssumption DEF SessInv, HoldInv, ThreadsAssumption, Session!None
<1>3. OthersRest(p)
  BY <1>1, <1>2 DEF OthersRest
<1>4. SessType'
  BY DEF SessInv, SessType
<1>5. HoldInv'
  BY <1>1, <1>2 DEF SessInv, HoldInv
<1>6. ASSUME NEW t \in Targets PROVE Moves(p, t)
  <2>1. Mine(p, t) = 0 /\ Mine(p, t)' = 0
    BY <1>1 DEF Mine, One, Building, Dropping, Closing
  <2>2. Tabled(t)' = Tabled(t) /\ listening'[t] = listening[t]
    BY DEF Tabled
  <2> QED
    BY <2>1, <2>2 DEF Moves
<1> QED
  BY <1>3, <1>4, <1>5, <1>6, ByHands

LEMMA SameArg ==
  ASSUME SessInv, NEW p \in Threads, arg' = arg
  PROVE  arg' = [arg EXCEPT ![p] = arg[p]]
BY DEF SessInv, SessType

LEMMA StartsKeep ==
  ASSUME SessInv, NEW p \in Threads,
         \/ \E c \in Contexts : Session!NewContext(p, c) \/ Session!CloseContext(p, c)
         \/ \E t \in Targets : \/ Session!UseTab(p, t) \/ Session!CloseTab(p, t)
                               \/ \E c \in Contexts \cup {Session!None} : Session!NewTab(p, t, c)
         \/ Session!AdoptTab(p) \/ Session!CloseSession(p)
  PROVE  SessInv'
<1>1. PICK to \in {"idle", "dispose", "attach", "close", "adopt", "contexts"}, x \in {Session!None} \cup Contexts \cup Targets :
        /\ Session!Starts(p, to, x)
        /\ to \in {"attach", "close"} => x \in Targets
        /\ IF to = "contexts" THEN closer = Session!None /\ closer' = p ELSE UNCHANGED <<closer, left>>
        /\ UNCHANGED <<tabs, listening, popped, attaching>>
  <2> USE DEF Session!worldOf, Session!tables, Session!notes, Session!tries, Session!closing
  <2>1. ASSUME NEW c \in Contexts, Session!NewContext(p, c) \/ Session!CloseContext(p, c)
        PROVE  /\ Session!Starts(p, "idle", Session!None) \/ Session!Starts(p, "dispose", c)
               /\ UNCHANGED <<closer, left, tabs, listening, popped, attaching>>
    BY <2>1 DEF Session!NewContext, Session!CloseContext
  <2>2. ASSUME NEW t \in Targets, \/ Session!UseTab(p, t) \/ Session!CloseTab(p, t)
                                  \/ \E c \in Contexts \cup {Session!None} : Session!NewTab(p, t, c)
        PROVE  /\ Session!Starts(p, "attach", t) \/ Session!Starts(p, "close", t)
               /\ UNCHANGED <<closer, left, tabs, listening, popped, attaching>>
    BY <2>2 DEF Session!UseTab, Session!CloseTab, Session!NewTab
  <2>3. ASSUME Session!AdoptTab(p)
        PROVE  Session!Starts(p, "adopt", Session!None) /\ UNCHANGED <<closer, left, tabs, listening, popped, attaching>>
    BY <2>3 DEF Session!AdoptTab
  <2>4. ASSUME Session!CloseSession(p)
        PROVE  /\ Session!Starts(p, "contexts", Session!None) /\ closer = Session!None /\ closer' = p
               /\ UNCHANGED <<tabs, listening, popped, attaching>>
    BY <2>4 DEF Session!CloseSession
  <2> QED
    BY <2>1, <2>2, <2>3, <2>4
<1>2. call[p] = "idle" /\ call' = [call EXCEPT ![p] = to] /\ arg' = [arg EXCEPT ![p] = x]
  BY <1>1 DEF Session!Starts, Session!Goes
<1> QED
  BY <1>1, <1>2, QuietKeeps DEF InHands, OnATarget

LEMMA DisposalsKeep ==
  ASSUME SessInv, NEW p \in Threads,
         Session!Adopted(p) \/ Session!Closed(p) \/ Session!Dispose(p) \/ Session!CloseNext(p)
  PROVE  SessInv'
<1>1. PICK to \in {"attach", "idle", "teardown", "forget", "contexts", "dispose"}, x \in {arg[p]} \cup Targets \cup left :
        /\ call' = [call EXCEPT ![p] = to] /\ arg' = [arg EXCEPT ![p] = x]
        /\ call[p] \in {"adopt", "close", "dispose", "contexts"}
        /\ to \in OnATarget => x \in Targets
        /\ to = "contexts" => closer = p
        /\ left' = left \/ closer = p
        /\ UNCHANGED <<tabs, listening, popped, attaching, closer>>
  <2> USE DEF Session!worldOf, Session!tables, Session!notes, Session!tries, Session!closing, Session!Goes
  <2>1. CASE Session!Adopted(p)
    <3>1. /\ call[p] = "adopt" /\ UNCHANGED <<left, tabs, listening, popped, attaching, closer>>
          /\ \/ \E t \in Targets : call' = [call EXCEPT ![p] = "attach"] /\ arg' = [arg EXCEPT ![p] = t]
             \/ call' = [call EXCEPT ![p] = "idle"] /\ arg' = arg
      BY <2>1 DEF Session!Adopted
    <3> QED
      BY <3>1, SameArg DEF OnATarget
  <2>2. CASE Session!Closed(p)
    <3>1. /\ call[p] = "close" /\ call' = [call EXCEPT ![p] = "teardown"] /\ arg' = arg
          /\ UNCHANGED <<left, tabs, listening, popped, attaching, closer>>
      BY <2>2 DEF Session!Closed
    <3>2. arg[p] \in Targets
      BY <3>1 DEF SessInv, HoldInv, OnATarget
    <3> QED
      BY <3>1, <3>2, SameArg
  <2>3. CASE Session!Dispose(p)
    <3>1. /\ call[p] = "dispose" /\ arg' = arg /\ UNCHANGED <<left, tabs, listening, popped, attaching, closer>>
          /\ \/ call' = [call EXCEPT ![p] = "forget"] \/ call' = [call EXCEPT ![p] = "idle"]
             \/ call' = [call EXCEPT ![p] = "contexts"] /\ closer = p
      BY <2>3 DEF Session!Dispose, Session!Returns
    <3> QED
      BY <3>1, SameArg DEF OnATarget
  <2>4. CASE Session!CloseNext(p)
    <3>1. PICK c \in left : /\ arg' = [arg EXCEPT ![p] = c]
                            /\ call' = [call EXCEPT ![p] = "dispose"] \/ call' = [call EXCEPT ![p] = "contexts"]
      BY <2>4 DEF Session!CloseNext
    <3>2. call[p] = "contexts" /\ closer = p /\ UNCHANGED <<tabs, listening, popped, attaching, closer>>
      BY <2>4 DEF Session!CloseNext, SessInv, HoldInv
    <3> QED
      BY <3>1, <3>2 DEF OnATarget
  <2> QED
    BY <2>1, <2>2, <2>3, <2>4
<1> QED
  BY <1>1, QuietKeeps DEF InHands

LEMMA AttachKeeps ==
  ASSUME SessInv, NEW p \in Threads, Session!Attach(p)
  PROVE  SessInv'
<1> USE DEF Session!worldOf, Session!tables, Session!notes, Session!tries, Session!closing, Session!Goes
<1>1. CASE arg[p] \in tabs
  <2>1. /\ call[p] = "attach" /\ call' = [call EXCEPT ![p] = "idle"] /\ arg' = arg
        /\ UNCHANGED <<left, tabs, listening, popped, attaching, closer>>
    BY <1>1 DEF Session!Attach
  <2> QED
    BY <2>1, SameArg, QuietKeeps DEF InHands, OnATarget
<1>2. CASE arg[p] \notin tabs
  <2>1. /\ call[p] = "attach" /\ attaching[arg[p]] = Session!None
        /\ call' = [call EXCEPT ![p] = "build"] /\ attaching' = [attaching EXCEPT ![arg[p]] = p]
        /\ UNCHANGED <<arg, left, tabs, listening, popped, closer>>
    BY <1>2 DEF Session!Attach
  <2>2. arg[p] \in Targets
    BY <2>1 DEF SessInv, HoldInv, OnATarget
  <2>3. call'[p] = "build" /\ attaching'[arg[p]] = p
    BY <2>1, <2>2 DEF SessInv, SessType
  <2>4. \A q \in Threads \ {p} : call'[q] = call[q]
    BY <2>1 DEF SessInv, SessType
  <2>5. SessType'
    BY <2>1 DEF SessInv, SessType
  <2>6. \A q \in Threads \ {p} : call[q] \in {"build", "store"} => arg[q] # arg[p] /\ arg[q] \in Targets
    BY <2>1, ThreadsAssumption DEF SessInv, HoldInv, OnATarget, ThreadsAssumption, Session!None
  <2>7. HoldInv'
    BY <1>2, <2>1, <2>2, <2>3, <2>4, <2>6 DEF SessInv, SessType, HoldInv
  <2>8. OthersRest(p)
    BY <2>1, <2>4 DEF OthersRest
  <2>9. ASSUME NEW t \in Targets PROVE Moves(p, t)
    <3>1. Mine(p, t) = 0 /\ Mine(p, t)' = 0
      BY <2>1, <2>3 DEF Mine, One, Building, Dropping, Closing
    <3> QED
      BY <2>1, <3>1 DEF Moves, Tabled
  <2> QED
    BY <2>5, <2>7, <2>8, <2>9, ByHands
<1> QED
  BY <1>1, <1>2

\* Tab() subscribes, and then it is in the hands of the thread that builds it.
LEMMA BuildKeeps ==
  ASSUME SessInv, NEW p \in Threads, Session!Build(p)
  PROVE  SessInv'
<1> USE DEF Session!worldOf, Session!tables, Session!notes, Session!tries, Session!closing, Session!Goes
<1> DEFINE a == arg[p]
<1>1. /\ call[p] = "build" /\ call' = [call EXCEPT ![p] = "store"]
      /\ listening' = [listening EXCEPT ![a] = @ + 1]
      /\ UNCHANGED <<arg, attaching, left, tabs, popped, closer>>
  BY DEF Session!Build
<1>2. a \in Targets
  BY <1>1 DEF SessInv, HoldInv, OnATarget
<1>3. call'[p] = "store" /\ \A q \in Threads \ {p} : call'[q] = call[q]
  BY <1>1 DEF SessInv, SessType
<1>4. SessType'
  BY <1>1, <1>2 DEF SessInv, SessType
<1>5. HoldInv'
  BY <1>1, <1>2, <1>3 DEF SessInv, HoldInv
<1>6. OthersRest(p)
  BY <1>1, <1>3 DEF OthersRest
<1>7. ASSUME NEW t \in Targets PROVE Moves(p, t)
  <2>1. Mine(p, t) = 0 /\ Mine(p, t)' = One(a = t)
    BY <1>1, <1>3 DEF Mine, One, Building, Dropping, Closing
  <2>2. listening'[t] = listening[t] + One(a = t) /\ listening[t] \in Int
    BY <1>1, <1>2 DEF SessInv, SessType, One
  <2>3. Tabled(t)' = Tabled(t) /\ Tabled(t) \in Int /\ One(a = t) \in Int
    BY <1>1 DEF Tabled, One
  <2> HIDE DEF a
  <2> QED
    BY <2>1, <2>2, <2>3 DEF Moves
<1> QED
  BY <1>4, <1>5, <1>6, <1>7, ByHands

\* It is stored in the table, or it is unsubscribed.
LEMMA BuiltKeeps ==
  ASSUME SessInv, NEW p \in Threads, Session!Built(p)
  PROVE  SessInv'
<1> USE DEF Session!worldOf, Session!tables, Session!notes, Session!tries, Session!closing, Session!Goes
<1> DEFINE a == arg[p]
<1>1. PICK to \in {"idle", "close", "adopt"} :
        /\ call' = [call EXCEPT ![p] = to]
        /\ \/ tabs' = tabs \cup {a} /\ listening' = listening /\ to = "idle"
           \/ tabs' = tabs /\ listening' = [listening EXCEPT ![a] = @ - 1]
  BY DEF Session!Built
<1>2. /\ call[p] = "store" /\ attaching' = [attaching EXCEPT ![a] = Session!None]
      /\ UNCHANGED <<arg, left, popped, closer>>
  BY DEF Session!Built
<1>3. a \in Targets /\ a \notin tabs /\ attaching[a] = p
  BY <1>2 DEF SessInv, HoldInv, OnATarget
<1>4. call'[p] = to /\ \A q \in Threads \ {p} : call'[q] = call[q]
  BY <1>1 DEF SessInv, SessType
<1>5. SessType'
  BY <1>1, <1>2, <1>3 DEF SessInv, SessType
<1>6. \A q \in Threads \ {p} : call[q] \in {"build", "store"} => arg[q] # a
  BY <1>3 DEF SessInv, HoldInv
<1>7. HoldInv'
  BY <1>1, <1>2, <1>3, <1>4, <1>6 DEF SessInv, SessType, HoldInv, OnATarget
<1>8. OthersRest(p)
  BY <1>2, <1>4 DEF OthersRest
<1>9. ASSUME NEW t \in Targets PROVE Moves(p, t)
  <2>1. Mine(p, t) = One(a = t) /\ Mine(p, t)' = 0
    BY <1>1, <1>2, <1>4 DEF Mine, One, Building, Dropping, Closing
  <2>2. listening'[t] - Tabled(t)' = listening[t] - Tabled(t) - One(a = t) /\ listening[t] \in Int /\ listening'[t] \in Int
    BY <1>1, <1>3 DEF SessInv, SessType, One, Tabled
  <2>3. Tabled(t)' \in Int /\ Tabled(t) \in Int /\ One(a = t) \in Int
    BY DEF Tabled, One
  <2> HIDE DEF a
  <2>4. PICK was \in Int, is \in Int, had \in Int, has \in Int, mine \in Int :
          /\ was = listening[t] /\ is = listening'[t]
          /\ had = Tabled(t) /\ has = Tabled(t)' /\ mine = One(a = t)
    BY <2>2, <2>3
  <2>5. is + had + mine = was + has + 0
    <3>1. is - has = was - had - mine
      BY <2>2, <2>4
    <3> QED
      BY <3>1
  <2> QED
    BY <2>1, <2>4, <2>5 DEF Moves
<1> QED
  BY <1>5, <1>7, <1>8, <1>9, ByHands

\* The teardown takes it out of the table, and then unsubscribes it.
LEMMA TeardownKeeps ==
  ASSUME SessInv, NEW p \in Threads, Session!Teardown(p)
  PROVE  SessInv'
<1> USE DEF Session!worldOf, Session!tables, Session!notes, Session!tries, Session!closing, Session!Goes
<1> DEFINE a == arg[p]
<1>1. /\ call[p] = "teardown" /\ call' = [call EXCEPT ![p] = "unsubscribe"]
      /\ popped' = [popped EXCEPT ![p] = a \in tabs] /\ tabs' = tabs \ {a}
      /\ UNCHANGED <<arg, attaching, left, listening, closer>>
  BY DEF Session!Teardown
<1>2. a \in Targets
  BY <1>1 DEF SessInv, HoldInv, OnATarget
<1>3. /\ call'[p] = "unsubscribe" /\ popped'[p] = (a \in tabs)
      /\ \A q \in Threads \ {p} : call'[q] = call[q] /\ popped'[q] = popped[q]
  BY <1>1 DEF SessInv, SessType
<1>4. SessType'
  BY <1>1 DEF SessInv, SessType
<1>5. HoldInv'
  BY <1>1, <1>2, <1>3 DEF SessInv, HoldInv
<1>6. OthersRest(p)
  BY <1>1, <1>3 DEF OthersRest
<1>7. ASSUME NEW t \in Targets PROVE Moves(p, t)
  <2>1. Mine(p, t) = 0 /\ Mine(p, t)' = One(a = t /\ a \in tabs)
    <3>1. p \notin Building(t) /\ p \notin Dropping(t) /\ p \notin Closing(t)
      BY <1>1 DEF Building, Dropping, Closing
    <3>2. p \notin Building(t)' /\ p \notin Closing(t)'
      BY <1>3 DEF Building, Closing
    <3>3. CASE a = t /\ a \in tabs
      <4>1. p \in Dropping(t)'
        BY <1>1, <1>3, <3>3 DEF Dropping
      <4> QED
        BY <3>1, <3>2, <3>3, <4>1 DEF Mine, One
    <3>4. CASE ~(a = t /\ a \in tabs)
      <4>1. p \notin Dropping(t)'
        BY <1>1, <1>3, <3>4 DEF Dropping
      <4> QED
        BY <3>1, <3>2, <3>4, <4>1 DEF Mine, One
    <3> QED
      BY <3>3, <3>4
  <2>2. Tabled(t)' = Tabled(t) - One(a = t /\ a \in tabs)
    BY <1>1 DEF Tabled, One
  <2>3. Tabled(t) \in Int /\ One(a = t /\ a \in tabs) \in Int /\ listening[t] \in Int /\ listening'[t] = listening[t]
    BY <1>1 DEF Tabled, One, SessInv, SessType
  <2> HIDE DEF a
  <2> QED
    BY <2>1, <2>2, <2>3 DEF Moves
<1> QED
  BY <1>4, <1>5, <1>6, <1>7, ByHands

LEMMA UnsubscribeKeeps ==
  ASSUME SessInv, NEW p \in Threads, Session!Unsubscribe(p)
  PROVE  SessInv'
<1> USE DEF Session!worldOf, Session!tables, Session!notes, Session!tries, Session!closing, Session!Goes
<1> DEFINE a == arg[p]
<1>1. /\ call[p] = "unsubscribe" /\ call' = [call EXCEPT ![p] = "idle"]
      /\ listening' = [listening EXCEPT ![a] = IF popped[p] THEN @ - 1 ELSE @]
      /\ popped' = [popped EXCEPT ![p] = FALSE]
      /\ UNCHANGED <<arg, attaching, left, tabs, closer>>
  BY DEF Session!Unsubscribe
<1>2. a \in Targets
  BY <1>1 DEF SessInv, HoldInv, OnATarget
<1>3. call'[p] = "idle" /\ \A q \in Threads \ {p} : call'[q] = call[q] /\ popped'[q] = popped[q]
  BY <1>1 DEF SessInv, SessType
<1>4. SessType'
  BY <1>1, <1>2 DEF SessInv, SessType
<1>5. HoldInv'
  BY <1>1, <1>2, <1>3 DEF SessInv, HoldInv, OnATarget
<1>6. OthersRest(p)
  BY <1>1, <1>3 DEF OthersRest
<1>7. ASSUME NEW t \in Targets PROVE Moves(p, t)
  <2>1. Mine(p, t) = One(a = t /\ popped[p]) /\ Mine(p, t)' = 0
    BY <1>1, <1>3 DEF Mine, One, Building, Dropping, Closing
  <2>2. listening'[t] = listening[t] - One(a = t /\ popped[p])
    BY <1>1, <1>2 DEF SessInv, SessType, One
  <2>3. Tabled(t) \in Int /\ Tabled(t)' = Tabled(t) /\ One(a = t /\ popped[p]) \in Int /\ listening[t] \in Int
    BY <1>1 DEF Tabled, One, SessInv, SessType
  <2> HIDE DEF a
  <2> QED
    BY <2>1, <2>2, <2>3 DEF Moves
<1> QED
  BY <1>4, <1>5, <1>6, <1>7, ByHands

\* The tabs of a context that is gone leave the table and are unsubscribed.
LEMMA ForgetKeeps ==
  ASSUME SessInv, NEW p \in Threads, Session!Forget(p)
  PROVE  SessInv'
<1> USE DEF Session!worldOf, Session!tables, Session!notes, Session!tries, Session!closing, Session!Goes
<1> DEFINE its == listed[p]
<1>1. PICK to \in {"idle", "contexts"} : call' = [call EXCEPT ![p] = to] /\ (to = "contexts" => closer = p)
  BY DEF Session!Forget, Session!Returns
<1>2. /\ call[p] = "forget" /\ tabs' = tabs \ its
      /\ listening' = [t \in Targets |-> IF t \in its \cap tabs THEN listening[t] - 1 ELSE listening[t]]
      /\ UNCHANGED <<arg, attaching, left, popped, closer>>
  BY DEF Session!Forget, Session!Forgets
<1>3. call'[p] = to /\ \A q \in Threads \ {p} : call'[q] = call[q]
  BY <1>1 DEF SessInv, SessType
<1>4. SessType'
  BY <1>1, <1>2 DEF SessInv, SessType
<1>5. HoldInv'
  BY <1>1, <1>2, <1>3 DEF SessInv, HoldInv, OnATarget
<1>6. OthersRest(p)
  BY <1>2, <1>3 DEF OthersRest
<1>7. ASSUME NEW t \in Targets PROVE Moves(p, t)
  <2>1. Mine(p, t) = 0 /\ Mine(p, t)' = 0
    BY <1>1, <1>2, <1>3 DEF Mine, One, Building, Dropping, Closing
  <2>2. listening'[t] = listening[t] - One(t \in its \cap tabs) /\ Tabled(t)' = Tabled(t) - One(t \in its \cap tabs)
    BY <1>2 DEF SessInv, SessType, One, Tabled
  <2>3. Tabled(t) \in Int /\ One(t \in its \cap tabs) \in Int /\ listening[t] \in Int
    BY DEF Tabled, One, SessInv, SessType
  <2> HIDE DEF its
  <2> QED
    BY <2>1, <2>2, <2>3 DEF Moves
<1> QED
  BY <1>4, <1>5, <1>6, <1>7, ByHands

\* close() takes the whole table at once, and unsubscribes its Tabs one by one.
LEMMA TakeTabsKeeps ==
  ASSUME SessInv, NEW p \in Threads, Session!TakeTabs(p)
  PROVE  SessInv'
<1> USE DEF Session!worldOf, Session!Goes
<1>1. /\ call[p] = "contexts" /\ call' = [call EXCEPT ![p] = "tabs"] /\ left' = tabs /\ tabs' = {}
      /\ UNCHANGED <<arg, attaching, listening, popped, closer>>
  BY DEF Session!TakeTabs
<1>2. closer = p /\ call'[p] = "tabs" /\ \A q \in Threads \ {p} : call'[q] = call[q] /\ call[q] # "tabs"
  BY <1>1 DEF SessInv, SessType, HoldInv
<1>3. SessType'
  BY <1>1 DEF SessInv, SessType
<1>4. HoldInv'
  BY <1>1, <1>2 DEF SessInv, HoldInv, OnATarget
<1>5. OthersRest(p)
  BY <1>1, <1>2 DEF OthersRest
<1>6. ASSUME NEW t \in Targets PROVE Moves(p, t)
  <2>1. Mine(p, t) = 0 /\ Mine(p, t)' = One(t \in tabs)
    BY <1>1, <1>2 DEF Mine, One, Building, Dropping, Closing
  <2>2. Tabled(t) = One(t \in tabs) /\ Tabled(t)' = 0 /\ One(t \in tabs) \in Int
    BY <1>1 DEF Tabled, One
  <2>3. listening[t] \in Int /\ listening'[t] = listening[t]
    BY <1>1 DEF SessInv, SessType
  <2> QED
    BY <2>1, <2>2, <2>3 DEF Moves
<1> QED
  BY <1>3, <1>4, <1>5, <1>6, ByHands

LEMMA CloseTabsKeeps ==
  ASSUME SessInv, NEW p \in Threads, Session!CloseTabs(p)
  PROVE  SessInv'
<1> USE DEF Session!worldOf, Session!tables, Session!tries, Session!Goes
<1>1. call[p] = "tabs" /\ UNCHANGED <<arg, attaching, tabs, popped, closer>>
  BY DEF Session!CloseTabs
<1>2. closer = p /\ \A q \in Threads \ {p} : call[q] # "tabs"
  BY <1>1 DEF SessInv, HoldInv
<1>3. CASE left = {}
  <2>1. call' = [call EXCEPT ![p] = "closed"] /\ UNCHANGED <<left, listening>>
    BY <1>3 DEF Session!CloseTabs
  <2>2. call'[p] = "closed" /\ \A q \in Threads \ {p} : call'[q] = call[q]
    BY <2>1 DEF SessInv, SessType
  <2>3. SessType'
    BY <1>1, <2>1 DEF SessInv, SessType
  <2>4. HoldInv'
    BY <1>1, <2>1, <2>2 DEF SessInv, HoldInv, OnATarget
  <2>5. OthersRest(p)
    BY <1>1, <2>1, <2>2 DEF OthersRest
  <2>6. ASSUME NEW t \in Targets PROVE Moves(p, t)
    <3>1. Mine(p, t) = 0 /\ Mine(p, t)' = 0
      BY <1>1, <1>3, <2>1, <2>2 DEF Mine, One, Building, Dropping, Closing
    <3> QED
      BY <1>1, <2>1, <3>1 DEF Moves, Tabled
  <2> QED
    BY <2>3, <2>4, <2>5, <2>6, ByHands
<1>4. CASE left # {}
  <2>1. PICK a \in left : left' = left \ {a} /\ listening' = [listening EXCEPT ![a] = @ - 1] /\ UNCHANGED call
    BY <1>4 DEF Session!CloseTabs
  <2>2. SessType'
    <3>1. \A t \in Targets : listening[t] - 1 \in Int
      BY DEF SessInv, SessType
    <3>2. listening' \in [Targets -> Int]
      BY <2>1, <3>1 DEF SessInv, SessType
    <3> QED
      BY <1>1, <2>1, <3>2 DEF SessInv, SessType
  <2>3. HoldInv'
    BY <1>1, <2>1 DEF SessInv, HoldInv
  <2>4. OthersRest(p)
    BY <1>1, <1>2, <2>1 DEF OthersRest
  <2>5. ASSUME NEW t \in Targets PROVE Moves(p, t)
    <3>1. Mine(p, t) = One(t \in left) /\ Mine(p, t)' = One(t \in left /\ t # a)
      BY <1>1, <2>1 DEF Mine, One, Building, Dropping, Closing
    <3>2. listening[t] \in Int /\ listening'[t] = (IF t = a THEN listening[t] - 1 ELSE listening[t])
      BY <2>1 DEF SessInv, SessType
    <3>3. Tabled(t)' = Tabled(t) /\ Tabled(t) \in Int
      BY <1>1 DEF Tabled, One
    <3>4. One(t \in left) = IF t = a THEN 1 + One(t \in left /\ t # a) ELSE One(t \in left /\ t # a)
      BY <2>1 DEF One
    <3>5. One(t \in left /\ t # a) \in Int
      BY DEF One
    <3> QED
      BY <3>1, <3>2, <3>3, <3>4, <3>5 DEF Moves
  <2> QED
    BY <2>2, <2>3, <2>4, <2>5, ByHands
<1> QED
  BY <1>3, <1>4

LEMMA SessStep ==
  ASSUME SessInv, [Session!Next]_(Session!sessVars)
  PROVE  SessInv'
<1>1. ASSUME UNCHANGED <<call, arg, popped, left, listening, tabs, attaching, closer>> PROVE SessInv'
  <2>1. SessType' /\ HoldInv'
    BY <1>1 DEF SessInv, SessType, HoldInv
  <2>2. ASSUME NEW t \in Targets PROVE Accounted(t)'
    <3>1. Building(t)' = Building(t) /\ Dropping(t)' = Dropping(t) /\ Closing(t)' = Closing(t) /\ Tabled(t)' = Tabled(t)
      BY <1>1 DEF Building, Dropping, Closing, Tabled
    <3> QED
      BY <1>1, <3>1 DEF Accounted, SessInv
  <2> QED
    BY <2>1, <2>2 DEF SessInv
<1>2. ASSUME NEW t \in Targets, Session!Vanishes(t) PROVE SessInv'
  BY <1>1, <1>2 DEF Session!Vanishes, Session!tables, Session!notes, Session!tries, Session!closing
<1>3. CASE UNCHANGED Session!sessVars
  BY <1>1, <1>3 DEF Session!sessVars
<1> QED
  BY <1>2, <1>3, StartsKeep, DisposalsKeep, AttachKeeps, BuildKeeps, BuiltKeeps, TeardownKeeps, UnsubscribeKeeps,
     ForgetKeeps, TakeTabsKeeps, CloseTabsKeeps DEF Session!Next

\* A Tab that listens to the browser is in the table, where close() finds it, or
\* in the hands of a thread that builds it or takes it down: whichever threads
\* attach, adopt, create and close at once, and whichever of their requests fail.
THEOREM NoTabIsForgotten == Session!Spec => []NoTabForgotten
BY SessStarts, SessStep, SessIsForgotten, PTL DEF Session!Spec

-----------------------------------------------------------------------------
(* The workers of a parallel run, whether they keep their tabs or not.     *)

Ways == {"context", "tab", "popup", "orphan"}
Busy == {"context", "tab", "run", "observe", "close", "cursor", "release", "report"}

\* A record of a failed item of worker w.
Evidence(w) == \E i \in 1..Items : record[i].by = w /\ ~record[i].ok

RunType ==
  /\ upTo \in 0..Items /\ does \in [Workers -> Busy \cup {"claim", "cleanup", "end"}]
  /\ item \in [Workers -> 0..Items] /\ okay \in [Workers -> BOOLEAN]
  /\ keeps \in [Workers -> SUBSET Ways] /\ ledger \in [Workers -> SUBSET Ways] /\ open \in [Workers -> SUBSET Ways]
  /\ record = [i \in 1..Items |-> [by |-> record[i].by, ok |-> record[i].ok, gone |-> record[i].gone]]

\* What w has open that it will not close by its ledger, it has failed over or is
\* about to list; and an item is on record once w is through with it.
WorkerInv(w) ==
  /\ \A x \in open[w] : \/ x \in ledger[w]
                        \/ Evidence(w) \/ (does[w] \in Busy /\ ~okay[w])
                        \/ x = "popup" /\ does[w] \in {"observe", "close"} /\ "tab" \in keeps[w]
  /\ does[w] \in Busy => item[w] \in 1..upTo /\ record[item[w]].by = "none"
  /\ does[w] \in {"claim", "cleanup"} /\ item[w] # 0 => record[item[w]].by = w
  /\ item[w] = 0 => open[w] = {} /\ ledger[w] = {}
  /\ does[w] = "end" /\ open[w] # {} => Evidence(w)
  /\ does[w] = "run" => "tab" \in keeps[w]

ClaimsInv ==
  /\ \A v, w \in Workers : v # w /\ item[v] = item[w] => item[v] = 0
  /\ \A w \in Workers : item[w] <= upTo
  /\ \A i \in 1..Items : i > upTo => record[i].by = "none"

RunInv == RunType /\ ClaimsInv /\ \A w \in Workers : WorkerInv(w)

LEMMA RunStarts == Batch!Init => RunInv
<1> SUFFICES ASSUME Batch!Init PROVE RunInv
  OBVIOUS
<1> USE ItemsAssumption DEF ItemsAssumption, Batch!Init, Batch!None
<1>1. RunType /\ ClaimsInv
  BY DEF RunType, ClaimsInv, Busy
<1>2. ASSUME NEW w \in Workers PROVE WorkerInv(w)
  BY <1>2 DEF WorkerInv, Busy
<1> QED
  BY <1>1, <1>2 DEF RunInv

\* The others stay as they are, and what was on record stays there.
LEMMA OthersStay ==
  ASSUME RunInv, NEW w \in Workers, NEW v \in Workers \ {w},
         does'[v] = does[v], item'[v] = item[v], okay'[v] = okay[v], keeps'[v] = keeps[v], ledger'[v] = ledger[v],
         open'[v] = open[v], upTo \in Nat, upTo' \in Nat, upTo <= upTo',
         \A i \in 1..Items : i # item[w] => record'[i] = record[i],
         Evidence(v) => Evidence(v)'
  PROVE  WorkerInv(v)'
<1>1. item[v] # 0 => item[v] \in 1..Items /\ item[v] # item[w]
  BY ItemsAssumption DEF RunInv, RunType, ClaimsInv, ItemsAssumption
<1>2. item[v] # 0 => record'[item[v]] = record[item[v]]
  BY <1>1
<1>3. WorkerInv(v)
  BY DEF RunInv
<1> QED
  BY <1>2, <1>3 DEF WorkerInv

\* A step of a worker that puts nothing on record.
LEMMA OffRecord ==
  ASSUME RunInv, NEW w \in Workers, RunType', WorkerInv(w)', UNCHANGED <<upTo, item, record>>,
         \A v \in Workers \ {w} : /\ does'[v] = does[v] /\ okay'[v] = okay[v] /\ keeps'[v] = keeps[v]
                                  /\ ledger'[v] = ledger[v] /\ open'[v] = open[v]
  PROVE  RunInv'
<1>1. upTo \in Nat /\ upTo <= upTo'
  BY ItemsAssumption DEF RunInv, RunType, ItemsAssumption
<1>2. \A v \in Workers : Evidence(v)' = Evidence(v)
  BY DEF Evidence
<1>3. \A v \in Workers \ {w} : WorkerInv(v)'
  BY <1>1, <1>2, OthersStay
<1>4. ClaimsInv'
  BY DEF RunInv, ClaimsInv
<1> QED
  BY <1>3, <1>4 DEF RunInv

LEMMA ClaimKeeps ==
  ASSUME RunInv, NEW w \in Workers, Batch!Claim(w)
  PROVE  RunInv'
<1> USE ItemsAssumption DEF Batch!Goes, Batch!Sets, Batch!itemVars, ItemsAssumption
<1>1. does[w] = "claim" /\ UNCHANGED <<keeps, ledger, open, record>>
  BY DEF Batch!Claim
<1>2. WorkerInv(w) /\ RunType /\ ClaimsInv
  BY DEF RunInv
<1>3. \A v \in Workers : Evidence(v)' = Evidence(v)
  BY <1>1 DEF Evidence
<1>4. CASE cancelled \/ upTo = Items
  <2>1. does' = [does EXCEPT ![w] = "cleanup"] /\ UNCHANGED <<upTo, item, okay>>
    BY <1>4 DEF Batch!Claim
  <2>2. RunType'
    BY <1>1, <1>2, <2>1 DEF RunType
  <2>3. does'[w] = "cleanup" /\ \A v \in Workers \ {w} : does'[v] = does[v]
    BY <1>2, <2>1 DEF RunType
  <2>4. WorkerInv(w)'
    BY <1>1, <1>2, <1>3, <2>1, <2>3 DEF WorkerInv, Busy
  <2> QED
    BY <1>1, <2>1, <2>2, <2>3, <2>4, OffRecord
<1>5. CASE ~(cancelled \/ upTo = Items)
  <2>1. /\ upTo' = upTo + 1 /\ item' = [item EXCEPT ![w] = upTo + 1] /\ does' = [does EXCEPT ![w] = "context"]
        /\ okay' = [okay EXCEPT ![w] = TRUE]
    BY <1>5 DEF Batch!Claim
  <2>2. upTo \in Nat /\ upTo + 1 \in 1..Items
    BY <1>2, <1>5 DEF RunType
  <2>3. RunType'
    BY <1>1, <1>2, <2>1, <2>2 DEF RunType, Busy
  <2>4. /\ does'[w] = "context" /\ item'[w] = upTo + 1 /\ okay'[w] = TRUE
        /\ \A v \in Workers \ {w} : does'[v] = does[v] /\ item'[v] = item[v] /\ okay'[v] = okay[v]
    BY <1>2, <2>1 DEF RunType
  <2>5. ClaimsInv'
    <3>1. \A v \in Workers : item[v] \in Nat /\ item[v] <= upTo
      BY <1>2 DEF RunType, ClaimsInv
    <3>2. \A i \in 1..Items : i > upTo' => record'[i].by = "none"
      BY <1>1, <1>2, <2>1, <2>2 DEF ClaimsInv
    <3>3. \A v \in Workers : item'[v] <= upTo'
      BY <2>1, <2>2, <2>4, <3>1
    <3>4. \A v \in Workers \ {w} : item'[v] # item'[w]
      BY <2>2, <2>4, <3>1
    <3> QED
      BY <1>2, <2>4, <3>2, <3>3, <3>4 DEF ClaimsInv
  <2>6. WorkerInv(w)'
    <3>1. record[upTo + 1].by = "none"
      BY <1>2, <2>2 DEF ClaimsInv
    <3>2. \A x \in open[w] : x \in ledger[w] \/ Evidence(w)'
      BY <1>1, <1>2, <1>3 DEF WorkerInv, Busy
    <3> QED
      BY <1>1, <1>2, <2>1, <2>2, <2>4, <3>1, <3>2 DEF WorkerInv, Busy
  <2>7. \A v \in Workers \ {w} : WorkerInv(v)'
    <3>1. upTo' \in Nat /\ upTo <= upTo' /\ UNCHANGED <<keeps, ledger, open, record>>
      BY <1>1, <2>1, <2>2
    <3>2. ASSUME NEW v \in Workers \ {w} PROVE WorkerInv(v)'
      BY <1>3, <2>2, <2>4, <3>1, OthersStay
    <3> QED
      BY <3>2
  <2> QED
    BY <2>3, <2>5, <2>6, <2>7 DEF RunInv
<1> QED
  BY <1>4, <1>5

\* A worker that fails its item, or takes up what it needs of the browser.
LEMMA TakesKeep ==
  ASSUME RunInv, NEW w \in Workers, Batch!Context(w) \/ Batch!TakeTab(w)
  PROVE  RunInv'
<1> USE DEF Batch!Goes, Batch!Sets, Batch!itemVars
<1>1. does[w] \in {"context", "tab"} /\ UNCHANGED <<upTo, item, record>>
  BY DEF Batch!Context, Batch!TakeTab
<1>2. WorkerInv(w) /\ RunType
  BY DEF RunInv
<1>3. Evidence(w)' = Evidence(w)
  BY <1>1 DEF Evidence
<1>4. PICK to \in {"tab", "run", "observe"}, r \in {"context", "tab"} :
        /\ does' = [does EXCEPT ![w] = to]
        /\ \/ /\ to # "observe" /\ okay' = okay
              /\ \/ /\ keeps' = [keeps EXCEPT ![w] = keeps[w] \cup {r}] /\ ledger' = [ledger EXCEPT ![w] = ledger[w] \cup {r}]
                    /\ open' = [open EXCEPT ![w] = open[w] \cup {r}] /\ (to = "run" => r = "tab")
                 \/ UNCHANGED <<keeps, ledger, open>> /\ (to = "run" => "tab" \in keeps[w])
           \/ /\ to = "observe" /\ okay' = [okay EXCEPT ![w] = FALSE] /\ UNCHANGED <<keeps, ledger>>
              /\ open' \in {open, [open EXCEPT ![w] = open[w] \cup {"orphan"}]}
  <2>1. CASE Batch!Context(w)
    BY <2>1 DEF Batch!Context, Batch!Fails, Batch!Takes
  <2>2. CASE Batch!TakeTab(w)
    <3>1. /\ does' = [does EXCEPT ![w] = "observe"] /\ okay' = [okay EXCEPT ![w] = FALSE] /\ UNCHANGED <<keeps, ledger>>
          /\ open' \in {open, [open EXCEPT ![w] = open[w] \cup {"orphan"}]}
          \/ /\ does' = [does EXCEPT ![w] = "run"] /\ okay' = okay
             /\ IF "tab" \in keeps[w] THEN UNCHANGED <<keeps, ledger, open>>
                ELSE /\ keeps' = [keeps EXCEPT ![w] = keeps[w] \cup {"tab"}]
                     /\ ledger' = [ledger EXCEPT ![w] = ledger[w] \cup {"tab"}]
                     /\ open' = [open EXCEPT ![w] = open[w] \cup {"tab"}]
      BY <2>2 DEF Batch!TakeTab, Batch!Fails, Batch!Takes
    <3> QED
      BY <3>1
  <2> QED
    BY <2>1, <2>2
<1>5. RunType'
  <2>1. keeps' \in [Workers -> SUBSET Ways] /\ ledger' \in [Workers -> SUBSET Ways]
    <3>1. /\ keeps[w] \cup {r} \in SUBSET Ways /\ ledger[w] \cup {r} \in SUBSET Ways
          /\ keeps \in [Workers -> SUBSET Ways] /\ ledger \in [Workers -> SUBSET Ways]
      BY <1>2 DEF RunType, Ways
    <3>2. keeps' = keeps \/ keeps' = [keeps EXCEPT ![w] = keeps[w] \cup {r}]
      BY <1>4
    <3>3. ledger' = ledger \/ ledger' = [ledger EXCEPT ![w] = ledger[w] \cup {r}]
      BY <1>4
    <3> QED
      BY <3>1, <3>2, <3>3
  <2>2. open' \in [Workers -> SUBSET Ways]
    <3>1. \E x \in SUBSET Ways : open' = open \/ open' = [open EXCEPT ![w] = x]
      <4>1. open[w] \cup {r} \in SUBSET Ways /\ open[w] \cup {"orphan"} \in SUBSET Ways
        BY <1>2 DEF RunType, Ways
      <4> QED
        BY <1>4, <4>1
    <3> QED
      BY <1>2, <3>1 DEF RunType
  <2>3. does' \in [Workers -> Busy \cup {"claim", "cleanup", "end"}] /\ okay' \in [Workers -> BOOLEAN]
    BY <1>2, <1>4 DEF RunType, Busy
  <2> QED
    BY <1>1, <1>2, <2>1, <2>2, <2>3 DEF RunType
<1>6. \A v \in Workers \ {w} : /\ does'[v] = does[v] /\ okay'[v] = okay[v] /\ keeps'[v] = keeps[v]
                               /\ ledger'[v] = ledger[v] /\ open'[v] = open[v]
  BY <1>2, <1>4 DEF RunType
<1>7. /\ does'[w] = to /\ ledger[w] \subseteq ledger'[w]
      /\ to = "observe" => ~okay'[w]
      /\ to # "observe" => okay'[w] = okay[w] /\ open'[w] \subseteq open[w] \cup ledger'[w]
      /\ to = "run" => "tab" \in keeps'[w]
  BY <1>2, <1>4 DEF RunType, WorkerInv
<1>8. item[w] # 0
  BY <1>1, <1>2, ItemsAssumption DEF WorkerInv, Busy, RunType, ItemsAssumption
<1>9. WorkerInv(w)'
  <2>1. ASSUME NEW x \in open'[w]
        PROVE  \/ x \in ledger'[w]
               \/ Evidence(w)' \/ (does'[w] \in Busy /\ ~okay'[w])
               \/ x = "popup" /\ does'[w] \in {"observe", "close"} /\ "tab" \in keeps'[w]
    BY <1>1, <1>2, <1>3, <1>7, <1>8 DEF WorkerInv, Busy
  <2>2. item[w] \in 1..upTo /\ item[w] # 0 /\ record[item[w]].by = "none"
    BY <1>1, <1>2 DEF WorkerInv, Busy
  <2>3. does'[w] \in Busy /\ (does'[w] = "run" => "tab" \in keeps'[w])
    BY <1>1, <1>2, <1>7, <1>8 DEF Busy
  <2>4. /\ item'[w] \in 1..upTo' /\ item'[w] # 0 /\ record'[item'[w]].by = "none"
        /\ does'[w] \notin {"claim", "cleanup", "end"}
    BY <1>1, <2>2, <2>3 DEF Busy
  <2> QED
    BY <2>1, <2>3, <2>4 DEF WorkerInv
<1> QED
  BY <1>1, <1>5, <1>6, <1>9, OffRecord

\* fn(item), the list of its popups, and the cursor.
LEMMA RunKeeps ==
  ASSUME RunInv, NEW w \in Workers, Batch!Run(w)
  PROVE  RunInv'
<1> USE DEF Batch!Goes, Batch!Sets, Batch!itemVars
<1>1. does[w] = "run" /\ UNCHANGED <<upTo, item, keeps, ledger, record>> /\ does' = [does EXCEPT ![w] = "observe"]
  BY DEF Batch!Run, Batch!Fails
<1>2. WorkerInv(w) /\ RunType
  BY DEF RunInv
<1>3. Evidence(w)' = Evidence(w)
  BY <1>1 DEF Evidence
<1>4. PICK now \in SUBSET Ways : open' = [open EXCEPT ![w] = now] /\ now \subseteq open[w] \cup {"popup"}
  <2>1. open[w] \subseteq Ways /\ open = [open EXCEPT ![w] = open[w]]
    BY <1>2 DEF RunType
  <2> QED
    BY <2>1 DEF Batch!Run, Ways
<1>5. PICK good \in {okay[w], FALSE} : okay' = [okay EXCEPT ![w] = good]
  <2>1. okay = [okay EXCEPT ![w] = okay[w]]
    BY <1>2 DEF RunType
  <2> QED
    BY <2>1 DEF Batch!Run, Batch!Fails
<1>6. RunType'
  <2>1. good \in BOOLEAN
    BY <1>2 DEF RunType
  <2> QED
    BY <1>1, <1>2, <1>4, <1>5, <2>1 DEF RunType, Busy
<1>7. \A v \in Workers \ {w} : /\ does'[v] = does[v] /\ okay'[v] = okay[v] /\ keeps'[v] = keeps[v]
                               /\ ledger'[v] = ledger[v] /\ open'[v] = open[v]
  BY <1>1, <1>2, <1>4, <1>5 DEF RunType
<1>8. does'[w] = "observe" /\ open'[w] = now /\ okay'[w] = good
  BY <1>1, <1>2, <1>4, <1>5 DEF RunType
<1>9. WorkerInv(w)'
  <2>1. ASSUME NEW x \in open'[w]
        PROVE  \/ x \in ledger'[w]
               \/ Evidence(w)' \/ ~okay'[w]
               \/ x = "popup" /\ does'[w] \in {"observe", "close"} /\ "tab" \in keeps'[w]
    BY <1>1, <1>2, <1>3, <1>4, <1>8 DEF WorkerInv, Busy
  <2>2. item[w] \in 1..upTo /\ item[w] # 0 /\ record[item[w]].by = "none"
    BY <1>1, <1>2 DEF WorkerInv, Busy
  <2>3. /\ item'[w] \in 1..upTo' /\ item'[w] # 0 /\ record'[item'[w]].by = "none"
        /\ does'[w] = "observe"
    BY <1>1, <1>8, <2>2
  <2> QED
    BY <2>1, <2>3 DEF WorkerInv, Busy
<1> QED
  BY <1>1, <1>6, <1>7, <1>9, OffRecord

LEMMA ObserveKeeps ==
  ASSUME RunInv, NEW w \in Workers, Batch!Observe(w) \/ Batch!Cursor(w)
  PROVE  RunInv'
<1> USE DEF Batch!Goes, Batch!Sets, Batch!itemVars
<1>1. does[w] \in {"observe", "cursor"} /\ UNCHANGED <<upTo, item, keeps, ledger, open, record>>
  BY DEF Batch!Observe, Batch!Cursor
<1>2. WorkerInv(w) /\ RunType
  BY DEF RunInv
<1>3. Evidence(w)' = Evidence(w)
  BY <1>1 DEF Evidence
<1>4. PICK to \in {"release", "close", "report"}, good \in {okay[w], FALSE} :
        /\ does' = [does EXCEPT ![w] = to] /\ okay' = [okay EXCEPT ![w] = good]
        /\ does[w] = "observe" => \/ to = "close" /\ "tab" \in keeps[w]
                                  \/ good = FALSE
                                  \/ "tab" \notin keeps[w]
        /\ does[w] = "cursor" => to # "close"
  <2>1. okay = [okay EXCEPT ![w] = okay[w]]
    BY <1>2 DEF RunType
  <2> QED
    BY <2>1 DEF Batch!Observe, Batch!Cursor
<1>5. good \in BOOLEAN
  BY <1>2 DEF RunType
<1>6. RunType'
  BY <1>1, <1>2, <1>4, <1>5 DEF RunType, Busy
<1>7. \A v \in Workers \ {w} : /\ does'[v] = does[v] /\ okay'[v] = okay[v] /\ keeps'[v] = keeps[v]
                               /\ ledger'[v] = ledger[v] /\ open'[v] = open[v]
  BY <1>1, <1>2, <1>4 DEF RunType
<1>8. does'[w] = to /\ okay'[w] = good
  BY <1>2, <1>4 DEF RunType
<1>9. WorkerInv(w)'
  <2>1. ASSUME NEW x \in open'[w]
        PROVE  \/ x \in ledger'[w]
               \/ Evidence(w)' \/ (does'[w] \in Busy /\ ~okay'[w])
               \/ x = "popup" /\ does'[w] \in {"observe", "close"} /\ "tab" \in keeps'[w]
    BY <1>1, <1>2, <1>3, <1>4, <1>8 DEF WorkerInv, Busy
  <2>2. item[w] \in 1..upTo /\ item[w] # 0 /\ record[item[w]].by = "none"
    BY <1>1, <1>2 DEF WorkerInv, Busy
  <2>3. does'[w] \in Busy /\ (does'[w] = "run" => "tab" \in keeps'[w])
    BY <1>1, <1>2, <1>4, <1>8 DEF Busy
  <2>4. /\ item'[w] \in 1..upTo' /\ item'[w] # 0 /\ record'[item'[w]].by = "none"
        /\ does'[w] \notin {"claim", "cleanup", "end"}
    BY <1>1, <2>2, <2>3 DEF Busy
  <2> QED
    BY <2>1, <2>3, <2>4 DEF WorkerInv
<1> QED
  BY <1>1, <1>6, <1>7, <1>9, OffRecord

\* What is released is gone, or its item has failed.
LEMMA ReleasesWhat ==
  ASSUME RunType, NEW w \in Workers, NEW rs \in SUBSET Ways, Batch!Releases(w, rs)
  PROVE  /\ open' \in [Workers -> SUBSET Ways] /\ okay' \in [Workers -> BOOLEAN]
         /\ open'[w] \subseteq open[w] /\ (okay'[w] => okay[w])
         /\ \A r \in rs : r \in open'[w] => ~okay'[w]
         /\ \A v \in Workers \ {w} : open'[v] = open[v] /\ okay'[v] = okay[v]
<1> USE DEF Batch!Sets
<1>1. PICK failed \in SUBSET rs, shut \in SUBSET Ways, also \in SUBSET rs :
        /\ also \subseteq failed
        /\ rs \ failed \subseteq shut
        /\ open' = [open EXCEPT ![w] = open[w] \ (shut \cup also)]
        /\ okay' = [okay EXCEPT ![w] = okay[w] /\ failed = {}]
  <2>1. PICK failed \in SUBSET (rs \cap (open[w] \cup IF browserLost THEN {"tab", "context", "popup"} ELSE {})) :
          LET leaving == (rs \ failed) \cup (IF "context" \in rs \ failed THEN {"tab", "popup", "orphan"} ELSE {})
          IN /\ open' \in {[open EXCEPT ![w] = open[w] \ (leaving \cup also)] : also \in SUBSET failed}
             /\ okay' = [okay EXCEPT ![w] = okay[w] /\ failed = {}]
    BY DEF Batch!Releases
  <2> DEFINE leaving == (rs \ failed) \cup (IF "context" \in rs \ failed THEN {"tab", "popup", "orphan"} ELSE {})
  <2>2. PICK also \in SUBSET failed : open' = [open EXCEPT ![w] = open[w] \ (leaving \cup also)]
    BY <2>1
  <2>3. leaving \in SUBSET Ways /\ rs \ failed \subseteq leaving /\ failed \in SUBSET rs
    BY <2>1 DEF Ways
  <2>4. okay' = [okay EXCEPT ![w] = okay[w] /\ failed = {}]
    BY <2>1
  <2>5. also \in SUBSET rs /\ also \subseteq failed
    BY <2>3
  <2> HIDE DEF leaving
  <2> QED
    BY <2>2, <2>3, <2>4, <2>5
<1>2. (okay[w] /\ failed = {}) \in BOOLEAN
  OBVIOUS
<1>3. okay'[w] = (okay[w] /\ failed = {}) /\ okay' \in [Workers -> BOOLEAN]
  BY <1>1, <1>2 DEF RunType
<1>4. open' \in [Workers -> SUBSET Ways] /\ open'[w] = open[w] \ (shut \cup also)
  BY <1>1 DEF RunType
<1>5. \A v \in Workers \ {w} : open'[v] = open[v] /\ okay'[v] = okay[v]
  BY <1>1 DEF RunType
<1>6. \A r \in rs : r \in open'[w] => r \in failed
  BY <1>1, <1>4
<1> QED
  BY <1>3, <1>4, <1>5, <1>6

LEMMA SameReleases ==
  ASSUME NEW w \in Workers, NEW rs
  PROVE  OneShot!Releases(w, rs) <=> Batch!Releases(w, rs)
BY DEF OneShot!Releases, Batch!Releases, OneShot!Sets, Batch!Sets

LEMMA CloseKeeps ==
  ASSUME RunInv, NEW w \in Workers, Batch!Close(w) \/ OneShot!Close(w)
  PROVE  RunInv'
<1>1. does[w] = "close" /\ UNCHANGED <<upTo, item, ledger, record>> /\ Batch!Releases(w, {"popup"})
  BY SameReleases DEF Batch!Close, OneShot!Close
<1>2. WorkerInv(w) /\ RunType
  BY DEF RunInv
<1>3. Evidence(w)' = Evidence(w)
  BY <1>1 DEF Evidence
<1>4. PICK to \in {"report", "cursor", "release"}, now \in SUBSET Ways :
        does' = [does EXCEPT ![w] = to] /\ keeps' = [keeps EXCEPT ![w] = now]
  <2>1. keeps = [keeps EXCEPT ![w] = keeps[w]] /\ keeps[w] \in SUBSET Ways
    BY <1>2 DEF RunType
  <2> QED
    BY <2>1 DEF Batch!Close, OneShot!Close, Batch!Goes, Batch!Sets, OneShot!Goes, OneShot!Sets
<1>5. {"popup"} \in SUBSET Ways
  BY DEF Ways
<1>6. /\ open' \in [Workers -> SUBSET Ways] /\ okay' \in [Workers -> BOOLEAN]
      /\ open'[w] \subseteq open[w] /\ (okay'[w] => okay[w])
      /\ ("popup" \in open'[w] => ~okay'[w])
      /\ \A v \in Workers \ {w} : open'[v] = open[v] /\ okay'[v] = okay[v]
  BY <1>1, <1>2, <1>5, ReleasesWhat
<1>7. RunType'
  BY <1>1, <1>2, <1>4, <1>6 DEF RunType, Busy
<1>8. does'[w] = to /\ \A v \in Workers \ {w} : does'[v] = does[v] /\ keeps'[v] = keeps[v]
  BY <1>2, <1>4 DEF RunType
<1>9. WorkerInv(w)'
  <2>1. ASSUME NEW x \in open'[w]
        PROVE  \/ x \in ledger'[w]
               \/ Evidence(w)' \/ (does'[w] \in Busy /\ ~okay'[w])
               \/ x = "popup" /\ does'[w] \in {"observe", "close"} /\ "tab" \in keeps'[w]
    BY <1>1, <1>2, <1>3, <1>6, <1>8 DEF WorkerInv, Busy
  <2>2. item[w] \in 1..upTo /\ item[w] # 0 /\ record[item[w]].by = "none"
    BY <1>1, <1>2 DEF WorkerInv, Busy
  <2>3. does'[w] \in Busy /\ (does'[w] = "run" => "tab" \in keeps'[w])
    BY <1>1, <1>2, <1>6, <1>8 DEF Busy
  <2>4. /\ item'[w] \in 1..upTo' /\ item'[w] # 0 /\ record'[item'[w]].by = "none"
        /\ does'[w] \notin {"claim", "cleanup", "end"}
    BY <1>1, <2>2, <2>3 DEF Busy
  <2> QED
    BY <2>1, <2>3, <2>4 DEF WorkerInv
<1> QED
  BY <1>1, <1>6, <1>7, <1>8, <1>9, OffRecord

LEMMA ReleaseKeeps ==
  ASSUME RunInv, NEW w \in Workers, Batch!Release(w) \/ OneShot!Release(w)
  PROVE  RunInv'
<1>1. /\ does[w] = "release" /\ UNCHANGED <<upTo, item, record>> /\ does' = [does EXCEPT ![w] = "report"]
      /\ \/ UNCHANGED <<keeps, ledger, open, okay>>
         \/ /\ Batch!Releases(w, ledger[w]) /\ keeps' = [keeps EXCEPT ![w] = {}]
            /\ ledger' = [ledger EXCEPT ![w] = {}]
  BY SameReleases DEF Batch!Release, OneShot!Release, Batch!Goes, Batch!Sets, OneShot!Goes, OneShot!Sets
<1>2. WorkerInv(w) /\ RunType
  BY DEF RunInv
<1>3. Evidence(w)' = Evidence(w)
  BY <1>1 DEF Evidence
<1>4. does'[w] = "report" /\ \A v \in Workers \ {w} : does'[v] = does[v]
  BY <1>1, <1>2 DEF RunType
<1>5. CASE UNCHANGED <<keeps, ledger, open, okay>>
  <2>1. RunType'
    BY <1>1, <1>2, <1>5 DEF RunType, Busy
  <2>2. WorkerInv(w)'
    BY <1>1, <1>2, <1>3, <1>4, <1>5 DEF WorkerInv, Busy
  <2> QED
    BY <1>1, <1>4, <1>5, <2>1, <2>2, OffRecord
<1>6. CASE /\ Batch!Releases(w, ledger[w]) /\ keeps' = [keeps EXCEPT ![w] = {}]
           /\ ledger' = [ledger EXCEPT ![w] = {}]
  <2>1. ledger[w] \in SUBSET Ways
    BY <1>2 DEF RunType
  <2>2. /\ open' \in [Workers -> SUBSET Ways] /\ okay' \in [Workers -> BOOLEAN]
        /\ open'[w] \subseteq open[w] /\ (okay'[w] => okay[w])
        /\ \A r \in ledger[w] : r \in open'[w] => ~okay'[w]
        /\ \A v \in Workers \ {w} : open'[v] = open[v] /\ okay'[v] = okay[v]
    BY <1>2, <1>6, <2>1, ReleasesWhat
  <2>3. RunType'
    BY <1>1, <1>2, <1>6, <2>2 DEF RunType, Busy
  <2>4. ledger'[w] = {} /\ \A v \in Workers \ {w} : keeps'[v] = keeps[v] /\ ledger'[v] = ledger[v]
    BY <1>2, <1>6 DEF RunType
  <2>5. WorkerInv(w)'
    BY <1>1, <1>2, <1>3, <1>4, <2>2, <2>4 DEF WorkerInv, Busy
  <2> QED
    BY <1>1, <1>4, <2>2, <2>3, <2>4, <2>5, OffRecord
<1> QED
  BY <1>1, <1>5, <1>6

\* The record of an item, and what the cleanup of its worker still puts on it.
LEMMA RecordKeeps ==
  ASSUME RunInv, NEW w \in Workers, item[w] # 0, NEW ok, NEW met_it,
         record' = [record EXCEPT ![item[w]] = [by |-> w, ok |-> ok, gone |-> met_it]],
         record[item[w]].by = "none" \/ (record[item[w]].by = w /\ (ok => record[item[w]].ok))
  PROVE  /\ record' = [i \in 1..Items |-> [by |-> record'[i].by, ok |-> record'[i].ok, gone |-> record'[i].gone]]
         /\ item[w] \in 1..Items /\ record'[item[w]].by = w /\ record'[item[w]].ok = ok
         /\ \A i \in 1..Items : i # item[w] => record'[i] = record[i]
         /\ \A v \in Workers : Evidence(v) => Evidence(v)'
         /\ \A i \in 1..Items : i > upTo => record'[i].by = "none"
<1>1. RunType /\ ClaimsInv /\ item[w] \in 1..Items /\ item[w] <= upTo /\ upTo \in Nat
  BY ItemsAssumption DEF RunInv, RunType, ClaimsInv, ItemsAssumption
<1>2. /\ record'[item[w]].by = w /\ record'[item[w]].ok = ok
      /\ \A i \in 1..Items : i # item[w] => record'[i] = record[i]
  BY <1>1 DEF RunType
<1>3. record' = [i \in 1..Items |-> [by |-> record'[i].by, ok |-> record'[i].ok, gone |-> record'[i].gone]]
  BY <1>1 DEF RunType
<1>4. ASSUME NEW v \in Workers, Evidence(v) PROVE Evidence(v)'
  <2>1. PICK i \in 1..Items : record[i].by = v /\ ~record[i].ok
    BY <1>4 DEF Evidence
  <2>2. record'[i].by = v /\ ~record'[i].ok
    BY <1>2, <2>1, WorkersAssumption DEF WorkersAssumption
  <2> QED
    BY <2>1, <2>2 DEF Evidence
<1>5. \A i \in 1..Items : i > upTo => record'[i].by = "none"
  <2>1. ASSUME NEW i \in 1..Items, i > upTo PROVE i # item[w]
    BY <1>1, <2>1
  <2> QED
    BY <1>1, <1>2, <2>1 DEF ClaimsInv
<1> QED
  BY <1>1, <1>2, <1>3, <1>4, <1>5

LEMMA ReportKeeps ==
  ASSUME RunInv, NEW w \in Workers, Batch!Report(w)
  PROVE  RunInv'
<1>1. /\ does[w] = "report" /\ does' = [does EXCEPT ![w] = "claim"] /\ UNCHANGED <<upTo, item, keeps, ledger, open, okay>>
      /\ record' = [record EXCEPT ![item[w]] = [by |-> w, ok |-> okay[w], gone |-> met[w]]]
  BY DEF Batch!Report, Batch!Goes, Batch!itemVars
<1>2. WorkerInv(w) /\ RunType /\ ClaimsInv
  BY DEF RunInv
<1>3. item[w] # 0 /\ record[item[w]].by = "none"
  BY <1>1, <1>2, ItemsAssumption DEF WorkerInv, Busy, RunType, ItemsAssumption
<1>4. /\ record' = [i \in 1..Items |-> [by |-> record'[i].by, ok |-> record'[i].ok, gone |-> record'[i].gone]]
      /\ item[w] \in 1..Items /\ record'[item[w]].by = w /\ record'[item[w]].ok = okay[w]
      /\ \A i \in 1..Items : i # item[w] => record'[i] = record[i]
      /\ \A v \in Workers : Evidence(v) => Evidence(v)'
      /\ \A i \in 1..Items : i > upTo => record'[i].by = "none"
  BY <1>1, <1>3, RecordKeeps
<1>5. does'[w] = "claim" /\ \A v \in Workers \ {w} : does'[v] = does[v]
  BY <1>1, <1>2 DEF RunType
<1>6. RunType'
  BY <1>1, <1>2, <1>4 DEF RunType
<1>7. ClaimsInv'
  BY <1>1, <1>2, <1>4 DEF ClaimsInv
<1>8. ~okay[w] => Evidence(w)'
  BY <1>4 DEF Evidence
<1>9. WorkerInv(w)'
  <2>1. \A x \in open[w] : x \in ledger[w] \/ Evidence(w)'
    BY <1>1, <1>2, <1>4, <1>8 DEF WorkerInv
  <2> QED
    BY <1>1, <1>3, <1>4, <1>5, <2>1 DEF WorkerInv, Busy
<1>10. upTo \in Nat /\ upTo' \in Nat /\ upTo <= upTo'
  BY <1>1, <1>2, ItemsAssumption DEF RunType, ItemsAssumption
<1>11. ASSUME NEW v \in Workers \ {w} PROVE WorkerInv(v)'
  BY <1>1, <1>4, <1>5, <1>10, OthersStay
<1> QED
  BY <1>6, <1>7, <1>9, <1>11 DEF RunInv

\* A worker that is over has nothing open, or a failed item on record.
LEMMA CleanupKeeps ==
  ASSUME RunInv, NEW w \in Workers, Batch!Cleanup(w)
  PROVE  RunInv'
<1>1. /\ does[w] = "cleanup" /\ does' = [does EXCEPT ![w] = "end"] /\ Batch!Releases(w, ledger[w])
      /\ ledger' = [ledger EXCEPT ![w] = {}] /\ keeps' = [keeps EXCEPT ![w] = {}] /\ UNCHANGED <<upTo, item>>
      /\ record' = IF item[w] = 0 THEN record ELSE [record EXCEPT ![item[w]].ok = @ /\ okay'[w]]
  BY DEF Batch!Cleanup, Batch!Ends, Batch!Goes, Batch!Sets
<1>2. WorkerInv(w) /\ RunType /\ ClaimsInv
  BY DEF RunInv
<1>3. ledger[w] \in SUBSET Ways
  BY <1>2 DEF RunType
<1>4. /\ open' \in [Workers -> SUBSET Ways] /\ okay' \in [Workers -> BOOLEAN]
      /\ open'[w] \subseteq open[w] /\ (okay'[w] => okay[w])
      /\ \A r \in ledger[w] : r \in open'[w] => ~okay'[w]
      /\ \A v \in Workers \ {w} : open'[v] = open[v] /\ okay'[v] = okay[v]
  BY <1>1, <1>2, <1>3, ReleasesWhat
<1>5. /\ does'[w] = "end" /\ ledger'[w] = {}
      /\ \A v \in Workers \ {w} : does'[v] = does[v] /\ keeps'[v] = keeps[v] /\ ledger'[v] = ledger[v]
  BY <1>1, <1>2 DEF RunType
<1>6. \A x \in open[w] : x \in ledger[w] \/ Evidence(w)
  BY <1>1, <1>2 DEF WorkerInv, Busy
<1>7. upTo \in Nat /\ upTo' \in Nat /\ upTo <= upTo'
  BY <1>1, <1>2, ItemsAssumption DEF RunType, ItemsAssumption
<1>8. CASE item[w] = 0
  <2>1. record' = record /\ open[w] = {} /\ open'[w] = {}
    BY <1>1, <1>2, <1>4, <1>8 DEF WorkerInv
  <2>2. \A v \in Workers : Evidence(v) => Evidence(v)'
    BY <2>1 DEF Evidence
  <2>3. RunType'
    BY <1>1, <1>2, <1>4, <2>1 DEF RunType, Busy
  <2>4. ClaimsInv'
    BY <1>1, <1>2, <2>1 DEF ClaimsInv
  <2>5. WorkerInv(w)'
    BY <1>1, <1>5, <1>8, <2>1 DEF WorkerInv, Busy
  <2>6. ASSUME NEW v \in Workers \ {w} PROVE WorkerInv(v)'
    BY <1>1, <1>4, <1>5, <1>7, <2>1, <2>2, OthersStay
  <2> QED
    BY <2>3, <2>4, <2>5, <2>6 DEF RunInv
<1>9. CASE item[w] # 0
  <2> DEFINE old == record[item[w]]
             ok == old.ok /\ okay'[w]
  <2>1. old.by = w /\ item[w] \in 1..Items
    BY <1>1, <1>2, <1>9, ItemsAssumption DEF WorkerInv, RunType, ItemsAssumption
  <2>2. record' = [record EXCEPT ![item[w]] = [by |-> w, ok |-> ok, gone |-> old.gone]]
    <3>1. old = [by |-> old.by, ok |-> old.ok, gone |-> old.gone]
      BY <1>2, <2>1 DEF RunType
    <3>2. [old EXCEPT !.ok = @ /\ okay'[w]] = [by |-> w, ok |-> ok, gone |-> old.gone]
      BY <2>1, <3>1
    <3>3. record' = [record EXCEPT ![item[w]] = [old EXCEPT !.ok = @ /\ okay'[w]]]
      BY <1>1, <1>9
    <3> HIDE DEF old, ok
    <3> QED
      BY <3>2, <3>3
  <2>3. ok => old.ok
    OBVIOUS
  <2> HIDE DEF ok
  <2>4. /\ record' = [i \in 1..Items |-> [by |-> record'[i].by, ok |-> record'[i].ok, gone |-> record'[i].gone]]
        /\ item[w] \in 1..Items /\ record'[item[w]].by = w /\ record'[item[w]].ok = ok
        /\ \A i \in 1..Items : i # item[w] => record'[i] = record[i]
        /\ \A v \in Workers : Evidence(v) => Evidence(v)'
        /\ \A i \in 1..Items : i > upTo => record'[i].by = "none"
    BY <1>9, <2>1, <2>2, <2>3, RecordKeeps
  <2>5. RunType'
    BY <1>1, <1>2, <1>4, <2>4 DEF RunType, Busy
  <2>6. ClaimsInv'
    BY <1>1, <1>2, <2>4 DEF ClaimsInv
  <2>7. ~okay'[w] => Evidence(w)'
    BY <2>4 DEF Evidence, ok
  <2>8. \A x \in open'[w] : Evidence(w)'
    BY <1>4, <1>6, <2>4, <2>7
  <2>9. WorkerInv(w)'
    BY <1>1, <1>5, <1>9, <2>8 DEF WorkerInv, Busy
  <2>10. ASSUME NEW v \in Workers \ {w} PROVE WorkerInv(v)'
    BY <1>1, <1>4, <1>5, <1>7, <2>4, OthersStay
  <2> QED
    BY <2>5, <2>6, <2>9, <2>10 DEF RunInv
<1> QED
  BY <1>8, <1>9

LEMMA LosesKeeps ==
  ASSUME RunInv, Batch!Loses \/ Batch!Cancels \/ UNCHANGED Batch!runVars
  PROVE  RunInv'
<1>1. /\ UNCHANGED <<upTo, does, item, keeps, ledger, okay, record>>
      /\ open' = open \/ open' = [w \in Workers |-> {}]
  BY DEF Batch!Loses, Batch!Cancels, Batch!runVars, Batch!itemVars
<1>2. RunType' /\ ClaimsInv'
  BY <1>1 DEF RunInv, RunType, ClaimsInv
<1>3. ASSUME NEW w \in Workers PROVE WorkerInv(w)'
  <2>1. Evidence(w)' = Evidence(w)
    BY <1>1 DEF Evidence
  <2>2. open'[w] \subseteq open[w]
    BY <1>1
  <2> QED
    BY <1>1, <2>1, <2>2 DEF RunInv, WorkerInv
<1> QED
  BY <1>2, <1>3 DEF RunInv

LEMMA RunStep ==
  ASSUME RunInv, [Batch!Next]_(Batch!runVars)
  PROVE  RunInv'
BY ClaimKeeps, TakesKeep, RunKeeps, ObserveKeeps, CloseKeeps, ReleaseKeeps, ReportKeeps, CleanupKeeps, LosesKeeps DEF Batch!Next

\* Cleanup leaves evidence instead of swallowing failures: when the run is over,
\* a worker that left something open has the record of a failed item, wherever
\* its requests failed and whenever the run was called off.
THEOREM LeavesEvidence == Batch!Spec => []EvidenceIsLeft
<1>1. RunInv => EvidenceIsLeft
  BY DEF RunInv, WorkerInv, Evidence, EvidenceIsLeft, Batch!EvidenceIsLeft, Batch!Over
<1> QED
  BY <1>1, RunStarts, RunStep, PTL DEF Batch!Spec

\* A run that gives each item a tab of its own differs in two steps only.
LEMMA SameSteps ==
  ASSUME NEW w \in Workers
  PROVE  /\ OneShot!Claim(w) => Batch!Claim(w)
         /\ OneShot!Context(w) => Batch!Context(w)
         /\ OneShot!TakeTab(w) => Batch!TakeTab(w)
         /\ OneShot!Run(w) => Batch!Run(w)
         /\ OneShot!Observe(w) => Batch!Observe(w)
         /\ OneShot!Cursor(w) => Batch!Cursor(w)
         /\ OneShot!Report(w) => Batch!Report(w)
<1> USE DEF OneShot!Goes, Batch!Goes, OneShot!Sets, Batch!Sets, OneShot!itemVars, Batch!itemVars,
            OneShot!Fails, Batch!Fails, OneShot!Takes, Batch!Takes
<1>1. OneShot!Claim(w) => Batch!Claim(w)
  BY Zenon DEF OneShot!Claim, Batch!Claim
<1>2. OneShot!Context(w) => Batch!Context(w)
  BY Zenon DEF OneShot!Context, Batch!Context
<1>3. OneShot!TakeTab(w) => Batch!TakeTab(w)
  BY Zenon DEF OneShot!TakeTab, Batch!TakeTab
<1>4. OneShot!Run(w) => Batch!Run(w)
  BY Zenon DEF OneShot!Run, Batch!Run
<1>5. OneShot!Observe(w) => Batch!Observe(w)
  BY Zenon DEF OneShot!Observe, Batch!Observe
<1>6. OneShot!Cursor(w) => Batch!Cursor(w)
  BY Zenon DEF OneShot!Cursor, Batch!Cursor
<1>7. OneShot!Report(w) => Batch!Report(w)
  BY Zenon DEF OneShot!Report, Batch!Report
<1> QED
  BY <1>1, <1>2, <1>3, <1>4, <1>5, <1>6, <1>7

LEMMA OneShotStep ==
  ASSUME RunInv, [OneShot!Next]_(OneShot!runVars)
  PROVE  RunInv'
<1>1. ASSUME NEW w \in Workers, OneShot!Cleanup(w) PROVE Batch!Cleanup(w)
  BY <1>1, SameReleases DEF OneShot!Cleanup, OneShot!Ends, OneShot!Goes, OneShot!Sets,
     Batch!Cleanup, Batch!Ends, Batch!Goes, Batch!Sets
<1>2. /\ OneShot!Cancels => Batch!Cancels
      /\ OneShot!Loses => Batch!Loses
      /\ UNCHANGED OneShot!runVars => UNCHANGED Batch!runVars
  BY DEF OneShot!Cancels, OneShot!Loses, Batch!Cancels, Batch!Loses, OneShot!itemVars, Batch!itemVars,
     OneShot!runVars, Batch!runVars
<1> QED
  BY <1>1, <1>2, SameSteps, ClaimKeeps, TakesKeep, RunKeeps, ObserveKeeps, CloseKeeps, ReleaseKeeps, ReportKeeps,
     CleanupKeeps, LosesKeeps DEF OneShot!Next

\* The same of a run that gives each item a tab of its own.
THEOREM OneShotLeavesEvidence == OneShot!Spec => []EvidenceIsLeft
<1>1. RunInv => EvidenceIsLeft
  BY DEF RunInv, WorkerInv, Evidence, EvidenceIsLeft, Batch!EvidenceIsLeft, Batch!Over
<1>2. OneShot!Init => Batch!Init
  BY DEF OneShot!Init, Batch!Init, OneShot!None, Batch!None
<1> QED
  BY <1>1, <1>2, RunStarts, OneShotStep, PTL DEF OneShot!Spec

-----------------------------------------------------------------------------
(* The combobox.                                                           *)

\* Where the option of another widget is about to be clicked, the listbox the widget names
\* was not open when it was chosen, and has not opened since.
HitInv == pick = "click" /\ hit # "own" /\ Declares => "own" \notin popups

LEMMA HitKeeps ==
  ASSUME HitInv, [Box!Next]_(Box!pickVars)
  PROVE  HitInv'
<1>1. CASE Box!Choose
  BY <1>1 DEF HitInv, Box!Choose, Box!Scope, Box!widgetVars
<1>2. CASE Box!Begin \/ Box!Probe \/ Box!Open \/ Box!Options \/ Box!Filter \/ Box!Click \/ Box!Verify \/ Box!Dismiss
  BY <1>2 DEF HitInv, Box!Begin, Box!Probe, Box!Open, Box!Options, Box!Filter, Box!Click, Box!Verify, Box!Dismiss, Box!Ends
<1>3. CASE UNCHANGED Box!pickVars
  BY <1>3 DEF HitInv, Box!pickVars, Box!widgetVars
<1> QED
  BY <1>1, <1>2, <1>3 DEF Box!Next

\* select_option(): a widget that names its listbox never picks from another one's while its
\* own is open.
THEOREM OwnListComesFirst == Box!Spec => OwnListFirst
<1>1. Box!Init => HitInv
  BY DEF Box!Init, HitInv
<1>2. HitInv /\ [Box!Next]_(Box!pickVars) => [other' # other /\ Declares => "own" \notin popups]_(Box!pickVars)
  <2> SUFFICES ASSUME HitInv, Box!Next, other' # other, Declares
               PROVE  "own" \notin popups
    BY DEF Box!pickVars, Box!widgetVars
  <2>1. Box!Click
    BY DEF Box!Next, Box!Begin, Box!Probe, Box!Open, Box!Options, Box!Filter, Box!Choose, Box!Verify, Box!Dismiss,
           Box!Ends, Box!widgetVars
  <2> QED
    BY <2>1 DEF Box!Click, Box!widgetVars, HitInv
<1> QED
  BY <1>1, <1>2, HitKeeps, PTL DEF Box!Spec, OwnListFirst, Box!OwnListFirst

-----------------------------------------------------------------------------
(* The run of an application.                                              *)

\* A page is only followed once the posting has been visited: the view a rule derived is looked
\* at in the first round, and either it is an application or the run goes to the posting.
VisitInv ==
  /\ hop \in Nat
  /\ at \in {"land", "probe"} => hop = 0 /\ ~onLanding
  /\ at = "fallback" => ~onLanding
  /\ at = "inspect" /\ onLanding => hop = 0
  /\ (at = "inspect" /\ ~onLanding) \/ at = "follow" => Posting \in went
  /\ at \in {"follow"} => ~onLanding
  /\ at \in {"plan", "fill", "upload"} => prepared # <<>> /\ prepared[1].app
  /\ at = "done" /\ ends # "raised" /\ (prepared = <<>> \/ ~prepared[1].app) => Posting \in went

LEMMA InspectKeeps ==
  ASSUME VisitInv, Application!Inspect
  PROVE  VisitInv'
<1>1. /\ at = "inspect" /\ hop' = hop + 1 /\ went' = went
      /\ onLanding \/ Posting \in went
  BY DEF Application!Inspect, VisitInv
<1>2. PICK t \in Application!Panes : prepared' = <<Application!Prepared(t, shows'[t])>>
                                    /\ \/ Application!IsApplication(shows'[t]) /\ at' = "plan"
                                       \/ ~Application!IsApplication(shows'[t]) /\ onLanding /\ at' = "fallback" /\ ~onLanding'
                                       \/ ~onLanding /\ ~onLanding' /\ at' \in {"done", "follow"}
  BY DEF Application!Inspect, Application!Goes, Application!RejectsLanding
<1>3. prepared' # <<>> /\ prepared'[1].app = Application!IsApplication(shows'[t])
  BY <1>2 DEF Application!Prepared
<1> QED
  BY <1>1, <1>2, <1>3 DEF VisitInv

LEMMA VisitKeeps ==
  ASSUME VisitInv, [Application!Next]_(Application!runVars), HopsAssumption
  PROVE  VisitInv'
<1> USE DEF VisitInv, Application!Goes, Application!locateVars, Application!resultVars
<1>1. CASE Application!Inspect
  BY <1>1, InspectKeeps
<1>2. CASE Application!PageMoves \/ Application!Raises \/ Application!LandFails \/ Application!ProbeLanding
  BY <1>2 DEF Application!PageMoves, Application!Raises, Application!LandFails, Application!ProbeLanding
<1>3. CASE Application!Land \/ Application!Fallback
  BY <1>3 DEF Application!Land, Application!Fallback, Application!Navigates
<1>4. CASE Application!OutOfHops
  BY <1>4 DEF Application!OutOfHops, HopsAssumption
<1>5. CASE Application!ClickMoves \/ Application!ClickOpens \/ Application!FollowsLink \/ Application!StaysThere
  BY <1>5 DEF Application!ClickMoves, Application!ClickOpens, Application!FollowsLink, Application!StaysThere,
              Application!Navigates
<1>6. CASE Application!Plan \/ Application!Fill \/ Application!Upload
  BY <1>6 DEF Application!Plan, Application!Fill, Application!Upload
<1>7. CASE UNCHANGED Application!runVars
  BY <1>7 DEF Application!runVars
<1> QED
  BY <1>1, <1>2, <1>3, <1>4, <1>5, <1>6, <1>7 DEF Application!Next

\* locate_application(): a run that ends without an application has been to the posting, whichever
\* way the view derived from it was wrong.
THEOREM ThePostingIsVisited == Application!Spec => []PostingIsVisited
<1>1. Application!Init => VisitInv
  BY DEF Application!Init, VisitInv
<1>2. VisitInv => PostingIsVisited
  BY DEF VisitInv, PostingIsVisited, Application!PostingIsVisited
<1> QED
  BY <1>1, <1>2, VisitKeeps, HopsAssumption, PTL DEF Application!Spec

-----------------------------------------------------------------------------
(* Filling a form.                                                         *)

\* A step of the plan that asks for a number.
Numeric(i) == plan[i].want = "number"

\* What the batch reports of a number, and what stands for it in the report, was read.
FormInv ==
  /\ fill \in {"idle", "batch", "settle"} => DOMAIN entries = {}
  /\ fill \in {"settle", "typed"} => DOMAIN written = DOMAIN Form!Batched
  /\ fill \in {"settle", "typed"} =>
       \A j \in DOMAIN written : written[j].is = "ok" /\ Numeric(Form!Batched[j]) => Form!Batched[j] \in earned
  /\ fill \in {"escalate", "done"} => DOMAIN entries = Form!Indices
  /\ \A i \in DOMAIN entries : entries[i].is = "ok" /\ Numeric(i) => i \in earned

\* The batch is the plan's.
LEMMA SameBatch ==
  ASSUME plan' = plan
  PROVE  Form!Batched' = Form!Batched /\ Form!Indices' = Form!Indices /\ \A i : Numeric(i)' = Numeric(i)
BY DEF Form!Batched, Form!Indices, Numeric

\* Of a number only its digits matter.
LEMMA DigitsWillDo ==
  ASSUME NEW v, Form!Digits(v) = Form!Digits("number")
  PROVE  Form!Acceptable(v, "number")
BY DEF Form!Acceptable, Form!Digits

LEMMA BatchKeeps ==
  ASSUME FormInv, Form!Batch
  PROVE  FormInv'
<1> USE DEF FormInv
<1>1. Form!Batched' = Form!Batched /\ Form!Indices' = Form!Indices /\ (\A i : Numeric(i)' = Numeric(i))
      /\ fill' = "settle" /\ entries' = entries /\ fill = "batch"
  BY SameBatch DEF Form!Batch
<1>2. PICK now : /\ written' = [j \in DOMAIN Form!Batched |-> Form!Entry(Form!Batched[j], Form!Result(Form!Batched[j], now[Form!Ref(Form!Batched[j])]))]
                 /\ earned' = {i \in Form!Range(Form!Batched) : Form!Result(i, now[Form!Ref(i)]) = "ok"}
  BY DEF Form!Batch
<1>3. ASSUME NEW j \in DOMAIN written', written'[j].is = "ok"
      PROVE  Form!Batched[j] \in earned'
  BY <1>2, <1>3 DEF Form!Entry, Form!Range
<1>4. DOMAIN written' = DOMAIN Form!Batched
  BY <1>2
<1> QED
  BY <1>1, <1>3, <1>4

LEMMA RecheckKeeps ==
  ASSUME FormInv, Form!Recheck
  PROVE  FormInv'
<1> USE DEF FormInv
<1> DEFINE Shown(j) == holds[Form!Ref(Form!Batched[j])]
           Want(j) == plan[Form!Batched[j]].want
<1>1. Form!Batched' = Form!Batched /\ Form!Indices' = Form!Indices /\ (\A i : Numeric(i)' = Numeric(i))
      /\ fill' = "typed" /\ entries' = entries /\ fill = "settle"
  BY SameBatch DEF Form!Recheck
<1>2. /\ DOMAIN written' = DOMAIN written
      /\ \A j \in DOMAIN written : written'[j] = written[j] \/ Form!Digits(Shown(j)) = Form!Digits(Want(j))
  BY DEF Form!Recheck
<1>3. earned' = earned \cup {Form!Batched[j] : j \in {l \in DOMAIN written : Form!Acceptable(Shown(l), Want(l))}}
  BY DEF Form!Recheck
<1>4. ASSUME NEW j \in DOMAIN written', written'[j].is = "ok", Numeric(Form!Batched[j])
      PROVE  Form!Batched[j] \in earned'
  <2>1. CASE written'[j] = written[j]
    BY <1>1, <1>2, <1>3, <1>4, <2>1
  <2>2. CASE Form!Digits(Shown(j)) = Form!Digits(Want(j))
    <3>1. Form!Acceptable(Shown(j), Want(j))
      BY <1>4, <2>2, DigitsWillDo DEF Numeric
    <3> QED
      BY <1>2, <1>3, <1>4, <3>1
  <2> QED
    BY <1>2, <1>4, <2>1, <2>2
<1>5. earned \subseteq earned'
  BY <1>3
<1> QED
  BY <1>1, <1>2, <1>4, <1>5

\* One control, typed or operated: what is reported as done was read.
LEMMA WriteEarns ==
  ASSUME NEW i, NEW how, Form!TypedWrite(i, how) \/ Form!SelectOption(i, how)
  PROVE  earned \subseteq earned' /\ (how = "ok" => i \in earned')
BY DEF Form!TypedWrite, Form!SelectOption

LEMMA PutKeeps ==
  ASSUME FormInv, NEW i, NEW e, Form!Put(i, e), plan' = plan, earned \subseteq earned', e.is = "ok" => i \in earned'
  PROVE  /\ DOMAIN entries' = DOMAIN entries \cup {i}
         /\ \A j \in DOMAIN entries' : entries'[j].is = "ok" /\ Numeric(j)' => j \in earned'
<1>1. /\ DOMAIN entries' = DOMAIN entries \cup {i}
      /\ \A j \in DOMAIN entries' : entries'[j] = IF j = i THEN e ELSE entries[j]
  BY DEF Form!Put
<1> QED
  BY <1>1, SameBatch DEF FormInv

LEMMA OneByOneKeeps ==
  ASSUME FormInv, Form!OneByOne
  PROVE  FormInv'
<1>1. PICK i \in Form!Pending, how \in {"ok", "refused", "element_gone", "needs_interaction", "no_option_match"} :
        (Form!TypedWrite(i, how) \/ Form!SelectOption(i, how)) /\ Form!Put(i, Form!Entry(i, how))
  BY DEF Form!OneByOne
<1>2. fill = "typed" /\ fill' = "typed" /\ plan' = plan /\ written' = written
  BY DEF Form!OneByOne
<1>3. earned \subseteq earned' /\ (Form!Entry(i, how).is = "ok" => i \in earned')
  BY <1>1, WriteEarns DEF Form!Entry
<1>4. \A j \in DOMAIN entries' : entries'[j].is = "ok" /\ Numeric(j)' => j \in earned'
  BY <1>1, <1>2, <1>3, PutKeeps
<1> QED
  BY <1>2, <1>3, <1>4, SameBatch DEF FormInv

LEMMA MergeKeeps ==
  ASSUME FormInv, Form!Merge
  PROVE  FormInv'
<1>1. fill = "typed" /\ fill' = "escalate" /\ plan' = plan /\ earned' = earned
  BY DEF Form!Merge
<1>2. Form!Indices' = Form!Indices /\ \A i : Numeric(i)' = Numeric(i)
  BY <1>1, SameBatch
<1>3. /\ DOMAIN entries' = Form!Indices
      /\ \A i \in Form!Indices : entries'[i] = IF i \in DOMAIN entries THEN entries[i]
                                               ELSE IF Form!Places(i) # {} THEN written[CHOOSE j \in Form!Places(i) : TRUE]
                                               ELSE [ref |-> Form!Ref(i), is |-> "no_report_entry"]
  BY DEF Form!Merge
<1>4. ASSUME NEW i \in Form!Indices, entries'[i].is = "ok", Numeric(i)
      PROVE  i \in earned
  <2>1. CASE i \in DOMAIN entries
    BY <1>3, <1>4, <2>1 DEF FormInv
  <2>2. CASE i \notin DOMAIN entries /\ Form!Places(i) # {}
    <3>1. PICK j \in Form!Places(i) : entries'[i] = written[j]
      BY <1>3, <2>2
    <3>2. j \in DOMAIN written /\ Form!Batched[j] = i
      BY DEF Form!Places
    <3> QED
      BY <1>1, <1>4, <3>1, <3>2 DEF FormInv
  <2>3. CASE i \notin DOMAIN entries /\ ~(Form!Places(i) # {})
    <3>1. entries'[i] = [ref |-> Form!Ref(i), is |-> "no_report_entry"]
      BY <1>3, <2>3
    <3>2. entries'[i].is = "no_report_entry"
      BY <3>1
    <3> QED
      BY <1>4, <3>2
  <2> QED
    BY <2>1, <2>2, <2>3
<1> QED
  BY <1>1, <1>2, <1>3, <1>4 DEF FormInv

LEMMA RetryKeeps ==
  ASSUME FormInv, Form!Retry
  PROVE  FormInv'
<1>1. PICK i \in Form!Indices, how \in {"ok", "refused", "element_gone"} :
        /\ Form!TypedWrite(i, how)
        /\ Form!Put(i, Form!Entry(i, IF how # "refused" THEN how
                                     ELSE IF entries[i].is = "refused" THEN "refused again" ELSE "refused for good"))
  BY DEF Form!Retry
<1> DEFINE e == Form!Entry(i, IF how # "refused" THEN how
                              ELSE IF entries[i].is = "refused" THEN "refused again" ELSE "refused for good")
<1>2. fill = "escalate" /\ fill' = "escalate" /\ plan' = plan
  BY DEF Form!Retry
<1>3. earned \subseteq earned' /\ (e.is = "ok" => i \in earned')
  BY <1>1, WriteEarns DEF Form!Entry
<1>4. /\ DOMAIN entries' = DOMAIN entries \cup {i}
      /\ \A j \in DOMAIN entries' : entries'[j].is = "ok" /\ Numeric(j)' => j \in earned'
  <2> HIDE DEF e
  <2> QED
    BY <1>1, <1>2, <1>3, PutKeeps DEF e
<1>5. Form!Indices' = Form!Indices
  BY <1>2, SameBatch
<1> QED
  BY <1>2, <1>4, <1>5 DEF FormInv

LEMMA FormStep ==
  ASSUME FormInv, [Form!Next]_(Form!formVars)
  PROVE  FormInv'
<1>1. CASE Form!Batch
  BY <1>1, BatchKeeps
<1>2. CASE Form!Recheck
  BY <1>2, RecheckKeeps
<1>3. CASE Form!OneByOne
  BY <1>3, OneByOneKeeps
<1>4. CASE Form!Merge
  BY <1>4, MergeKeeps
<1>5. CASE Form!Retry
  BY <1>5, RetryKeeps
<1>6. ASSUME UNCHANGED <<plan, entries, earned, written>>, fill' = fill \/ (fill = "escalate" /\ fill' = "done")
      PROVE  FormInv'
  BY <1>6, SameBatch DEF FormInv
<1>7. CASE Form!Finish \/ (\E c \in Form!Controls : Form!Removes(c) \/ Form!Rewrites(c)) \/ UNCHANGED Form!formVars
  BY <1>6, <1>7 DEF Form!Finish, Form!Removes, Form!Rewrites, Form!formVars
<1>8. CASE Form!Begin
  BY <1>8 DEF Form!Begin, FormInv
<1>9. CASE Form!StepByStep \/ Form!Again
  <2>1. entries' = <<>> /\ fill' \in {"batch", "idle"}
    BY <1>9 DEF Form!StepByStep, Form!Again, Form!Cleared
  <2> QED
    BY <2>1 DEF FormInv
<1> QED
  BY <1>1, <1>2, <1>3, <1>4, <1>5, <1>7, <1>8, <1>9 DEF Form!Next

\* fill_form(): a number is reported as filled only if the control was read with it, whatever the
\* page makes of the write and whichever of the three ways wrote it.
THEOREM NumbersWereRead == Form!Spec => []NumbersAreEarned
<1>1. Form!Init => FormInv
  BY DEF Form!Init, FormInv
<1>2. FormInv => NumbersAreEarned
  BY DEF FormInv, NumbersAreEarned, Form!NumbersAreEarned, Numeric
<1> QED
  BY <1>1, <1>2, FormStep, PTL DEF Form!Spec

-----------------------------------------------------------------------------
(* The popups of an item.                                                  *)

Announcement == [what : {"created"}, tab : Popups] \cup [what : {"destroyed"}, tab : Popups \cup {"root"}]
Creates(i, p) == told[i].what = "created" /\ told[i].tab = p
\* Its announcement is under way to the observer.
Coming(p) == \E i \in 1..Len(told) : Creates(i, p)

PopupType ==
  /\ popupTabs \subseteq Popups \cup {"root"} /\ opener \in [Popups -> Popups \cup {"root", "stranger", "nobody"}]
  /\ told \in Seq(Announcement) /\ seed \subseteq Popups /\ announced \subseteq Popups
  /\ moved \in BOOLEAN

\* A tab that is there, or was announced, or has opened another has been opened itself.
OpenedInv ==
  /\ \A p \in Popups : p \in popupTabs \/ p \in announced \/ Coming(p) => opener[p] # "nobody"
  /\ \A p \in Popups : opener[p] \in Popups => opener[opener[p]] # "nobody"

\* Announcements come once and in the order of the openings.
OrderInv ==
  /\ \A i, j \in 1..Len(told), p \in Popups : Creates(i, p) /\ Creates(j, p) => i = j
  /\ \A p \in Popups : Coming(p) => p \notin announced
  /\ \A i \in 1..Len(told), p, q \in Popups :
       Creates(i, p) /\ opener[q] = p => \E j \in 1..Len(told) : i < j /\ Creates(j, q)

\* A tab of the tree that the first list does not name was opened after the list, and the observer is told.
ListedInv ==
  watch \in {"fold", "wait"} =>
    \A p \in Popups \cap popupTabs :
      opener[p] \in seed \cup {"root"} => p \in seed \/ p \in announced \/ Coming(p)

\* As long as nothing has moved, the observer was told of no tab of the tree.
StillInv ==
  ~moved =>
    /\ watch \in {"ask", "fold"} => owned = {"root"} /\ announced = {}
    /\ watch = "wait" => owned = seed \cup {"root"} /\ \A p \in announced : opener[p] \notin owned

PopupInv ==
  /\ PopupType /\ ListedInv /\ StillInv
  /\ Popup!Watching => OpenedInv /\ OrderInv
  /\ \A p \in Popups : p \in popupTabs => opener[p] # "nobody"
  /\ \A p \in Popups : opener[p] \in Popups => opener[opener[p]] # "nobody"

LEMMA ToldMore ==
  ASSUME PopupType, NEW m \in Announcement, told' = Append(told, m)
  PROVE  /\ told' \in Seq(Announcement) /\ Len(told') = Len(told) + 1 /\ Len(told) \in Nat
         /\ \A i \in 1..Len(told) : i \in 1..Len(told') /\ \A p : Creates(i, p)' <=> Creates(i, p)
         /\ Len(told') \in 1..Len(told') /\ told'[Len(told')] = m
<1>1. told \in Seq(Announcement) /\ Len(told) \in Nat
  BY DEF PopupType
<1>2. told' \in Seq(Announcement) /\ Len(told') = Len(told) + 1
  BY <1>1
<1>3. \A i \in 1..Len(told) : i \in 1..Len(told') /\ told'[i] = told[i]
  BY <1>1, <1>2
<1>4. told'[Len(told')] = m /\ Len(told') \in 1..Len(told')
  BY <1>1, <1>2
<1> QED
  BY <1>1, <1>2, <1>3, <1>4 DEF Creates

LEMMA ToldOne ==
  ASSUME PopupType, told # <<>>, told' = Tail(told)
  PROVE  /\ told' \in Seq(Announcement) /\ Len(told') = Len(told) - 1 /\ Len(told) \in Nat
         /\ Head(told) = told[1] /\ Head(told) \in Announcement /\ 1 \in 1..Len(told)
         /\ \A i \in 1..Len(told') : i + 1 \in 1..Len(told) /\ \A p : Creates(i, p)' <=> Creates(i + 1, p)
<1>1. told \in Seq(Announcement) /\ Len(told) \in Nat \ {0}
  BY DEF PopupType
<1>2. told' \in Seq(Announcement) /\ Len(told') = Len(told) - 1 /\ Head(told) = told[1] /\ Head(told) \in Announcement
  BY <1>1
<1>3. \A i \in 1..Len(told') : i + 1 \in 1..Len(told) /\ told'[i] = told[i + 1]
  BY <1>1, <1>2
<1> QED
  BY <1>1, <1>2, <1>3 DEF Creates

\* Nothing is announced of what was never opened.
LEMMA OpensKeeps ==
  ASSUME PopupInv, NEW p \in Popups, NEW by \in Popup!Openers, Popup!Opens(p, by)
  PROVE  PopupInv'
<1> USE PopupsAssumption DEF PopupInv
<1>1. /\ opener[p] = "nobody" /\ by \in (popupTabs \ {p}) \cup {"stranger"}
      /\ opener' = [opener EXCEPT ![p] = by] /\ popupTabs' = popupTabs \cup {p}
      /\ UNCHANGED <<watch, owned, moved, seed, answer, announced>>
  BY DEF Popup!Opens, Popup!Stranger
<1>2. /\ opener \in [Popups -> Popups \cup {"root", "stranger", "nobody"}]
      /\ by \in Popups \cup {"root", "stranger"} /\ by # "nobody"
  BY <1>1 DEF PopupType
<1>3. opener'[p] = by /\ \A q \in Popups : q # p => opener'[q] = opener[q]
  BY <1>1, <1>2
<1>4. p \notin popupTabs
  BY <1>1
<1>5. \A q \in Popups : opener[q] # p
  BY <1>1
<1>6. (\A q \in Popups : q \in popupTabs' => opener'[q] # "nobody")
      /\ \A q \in Popups : opener'[q] \in Popups => opener'[opener'[q]] # "nobody"
  <2>1. by \in Popups => opener[by] # "nobody" /\ by # p
    BY <1>1
  <2>2. \A q \in Popups : q # p => opener'[q] = opener[q]
    BY <1>3
  <2> QED
    BY <1>1, <1>2, <1>3, <2>1, <2>2
<1>7. opener' \in [Popups -> Popups \cup {"root", "stranger", "nobody"}] /\ popupTabs' \subseteq Popups \cup {"root"}
  BY <1>1, <1>2 DEF PopupType
<1>8. CASE Popup!Watching
  <2> DEFINE m == [what |-> "created", tab |-> p]
  <2>1. told' = Append(told, m) /\ m \in Announcement
    BY <1>8 DEF Popup!Opens, Popup!Tell, Announcement
  <2>2. /\ told' \in Seq(Announcement) /\ Len(told') = Len(told) + 1 /\ Len(told) \in Nat
        /\ \A i \in 1..Len(told) : i \in 1..Len(told') /\ \A q : Creates(i, q)' <=> Creates(i, q)
        /\ Len(told') \in 1..Len(told') /\ told'[Len(told')] = m
    BY <2>1, ToldMore
  <2>4. \A i \in 1..Len(told') : i \in 1..Len(told) \/ i = Len(told')
    BY <2>2
  <2>5. \A i \in 1..Len(told') : i = Len(told') => \A q : Creates(i, q)' <=> q = p
    BY <2>2 DEF Creates
  <2>6. OpenedInv /\ OrderInv /\ p \notin announced /\ ~Coming(p)
    BY <1>1, <1>8 DEF OpenedInv
  <2>7. \A q \in Popups : Coming(q)' <=> (Coming(q) \/ q = p)
    BY <2>2, <2>4, <2>5 DEF Coming
  <2>8. OpenedInv'
    BY <1>1, <1>2, <1>3, <1>6, <2>6, <2>7 DEF OpenedInv
  <2>9. OrderInv'
    <3>1. ASSUME NEW i \in 1..Len(told'), NEW j \in 1..Len(told'), NEW q \in Popups, Creates(i, q)', Creates(j, q)'
          PROVE  i = j
      <4>1. q = p => i \notin 1..Len(told) /\ j \notin 1..Len(told)
        BY <2>2, <2>6, <3>1 DEF Coming
      <4>2. q # p => i \in 1..Len(told) /\ j \in 1..Len(told)
        BY <2>4, <2>5, <3>1
      <4> QED
        BY <2>2, <2>4, <2>6, <3>1, <4>1, <4>2 DEF OrderInv
    <3>2. \A q \in Popups : Coming(q)' => q \notin announced'
      BY <1>1, <2>6, <2>7 DEF OrderInv
    <3>3. ASSUME NEW i \in 1..Len(told'), NEW q \in Popups, NEW r \in Popups, Creates(i, q)', opener'[r] = q
          PROVE  \E j \in 1..Len(told') : i < j /\ Creates(j, r)'
      <4>1. q # p
        BY <1>1, <1>2, <1>3, <1>5, <3>3
      <4>2. i \in 1..Len(told) /\ Creates(i, q)
        BY <2>2, <2>4, <2>5, <3>3, <4>1
      <4>3. CASE r = p
        BY <2>2, <2>5, <4>2, <4>3
      <4>4. CASE r # p
        <5>1. opener[r] = q
          BY <1>3, <3>3, <4>4
        <5>2. PICK j \in 1..Len(told) : i < j /\ Creates(j, r)
          BY <2>6, <4>2, <5>1 DEF OrderInv
        <5> QED
          BY <2>2, <5>2
      <4> QED
        BY <4>3, <4>4
    <3> QED
      BY <3>1, <3>2, <3>3 DEF OrderInv
  <2>10. ListedInv'
    <3> SUFFICES ASSUME watch' \in {"fold", "wait"}, NEW q \in Popups \cap popupTabs', opener'[q] \in seed' \cup {"root"}
                 PROVE  q \in seed' \/ q \in announced' \/ Coming(q)'
      BY DEF ListedInv
    <3>1. CASE q = p
      BY <2>7, <3>1
    <3>2. CASE q # p
      BY <1>1, <1>3, <2>7, <3>2 DEF ListedInv
    <3> QED
      BY <3>1, <3>2
  <2>11. StillInv'
    <3>1. \A q \in announced : q # p /\ q \in Popups
      BY <2>6 DEF PopupType
    <3>2. \A q \in announced : opener'[q] = opener[q]
      BY <1>3, <3>1
    <3> QED
      BY <1>1, <3>2 DEF StillInv
  <2>12. PopupType'
    BY <1>1, <1>7, <2>2 DEF PopupType
  <2> QED
    BY <1>6, <2>8, <2>9, <2>10, <2>11, <2>12
<1>9. CASE ~Popup!Watching
  <2>1. told' = told /\ watch \in {"idle", "done"}
    BY <1>9 DEF Popup!Opens, Popup!Tell, Popup!Watching
  <2>2. ListedInv' /\ StillInv' /\ ~Popup!Watching'
    BY <1>1, <2>1 DEF ListedInv, StillInv, Popup!Watching
  <2> QED
    BY <1>1, <1>6, <1>7, <2>1, <2>2 DEF PopupType
<1> QED
  BY <1>8, <1>9

LEMMA ClosesKeeps ==
  ASSUME PopupInv, NEW p \in Popups \cup {"root"}, Popup!Closes(p)
  PROVE  PopupInv'
<1> USE DEF PopupInv
<1>1. popupTabs' = popupTabs \ {p} /\ UNCHANGED <<opener, watch, owned, moved, seed, answer, announced>>
  BY DEF Popup!Closes
<1>2. CASE Popup!Watching
  <2> DEFINE m == [what |-> "destroyed", tab |-> p]
  <2>1. told' = Append(told, m) /\ m \in Announcement
    BY <1>2 DEF Popup!Closes, Popup!Tell, Announcement
  <2>2. /\ told' \in Seq(Announcement) /\ Len(told') = Len(told) + 1 /\ Len(told) \in Nat
        /\ \A i \in 1..Len(told) : i \in 1..Len(told') /\ \A q : Creates(i, q)' <=> Creates(i, q)
        /\ Len(told') \in 1..Len(told') /\ told'[Len(told')] = m
    BY <2>1, ToldMore
  <2>3. \A i \in 1..Len(told') : \A q : Creates(i, q)' => i \in 1..Len(told) /\ Creates(i, q)
    <3>1. \A i \in 1..Len(told') : i \in 1..Len(told) \/ i = Len(told')
      BY <2>2
    <3>2. \A i \in 1..Len(told') : i = Len(told') => \A q : ~Creates(i, q)'
      BY <2>2 DEF Creates
    <3> QED
      BY <2>2, <3>1, <3>2
  <2>4. \A q \in Popups : Coming(q)' <=> Coming(q)
    BY <2>2, <2>3 DEF Coming
  <2>5. OpenedInv /\ OrderInv
    BY <1>2
  <2>6. OpenedInv'
    BY <1>1, <2>4, <2>5 DEF OpenedInv
  <2>7. OrderInv'
    <3>1. \A i, j \in 1..Len(told'), q \in Popups : Creates(i, q)' /\ Creates(j, q)' => i = j
      BY <2>3, <2>5 DEF OrderInv
    <3>2. ASSUME NEW i \in 1..Len(told'), NEW q \in Popups, NEW r \in Popups, Creates(i, q)', opener'[r] = q
          PROVE  \E j \in 1..Len(told') : i < j /\ Creates(j, r)'
      <4>1. PICK j \in 1..Len(told) : i < j /\ Creates(j, r)
        BY <1>1, <2>3, <2>5, <3>2 DEF OrderInv
      <4> QED
        BY <2>2, <4>1
    <3> QED
      BY <1>1, <2>4, <2>5, <3>1, <3>2 DEF OrderInv
  <2>8. ListedInv' /\ StillInv'
    BY <1>1, <2>4 DEF ListedInv, StillInv
  <2> QED
    BY <1>1, <2>2, <2>6, <2>7, <2>8 DEF PopupType
<1>3. CASE ~Popup!Watching
  <2>1. told' = told /\ watch \in {"idle", "done"}
    BY <1>3 DEF Popup!Closes, Popup!Tell, Popup!Watching
  <2>2. ListedInv' /\ StillInv' /\ ~Popup!Watching'
    BY <1>1, <2>1 DEF ListedInv, StillInv, Popup!Watching
  <2> QED
    BY <1>1, <2>1, <2>2 DEF PopupType
<1> QED
  BY <1>2, <1>3

\* What the observer is told of first moves something, unless it is none of the tree's and the
\* first list is there.
LEMMA TopicKeeps ==
  ASSUME PopupInv, Popup!Observe
  PROVE  PopupInv'
<1> USE DEF PopupInv
<1> DEFINE m == Head(told)
<1>1. /\ Popup!Watching /\ Popup!Watching' /\ told # <<>> /\ told' = Tail(told)
      /\ UNCHANGED <<popupTabs, opener, watch, seed, answer>>
  BY DEF Popup!Observe, Popup!browserVars, Popup!Watching
<1>2. /\ told' \in Seq(Announcement) /\ Len(told') = Len(told) - 1 /\ Len(told) \in Nat
      /\ m = told[1] /\ m \in Announcement /\ 1 \in 1..Len(told)
      /\ \A i \in 1..Len(told') : i + 1 \in 1..Len(told) /\ \A p : Creates(i, p)' <=> Creates(i + 1, p)
  BY <1>1, ToldOne
<1>3. OpenedInv /\ OrderInv
  BY <1>1
<1>4. \A p : (m.what = "created" /\ m.tab = p) <=> Creates(1, p)
  BY <1>2 DEF Creates
<1>5. m.what \in {"created", "destroyed"} /\ (m.what = "created" => m.tab \in Popups)
  BY <1>2 DEF Announcement
<1>6. /\ announced' = IF m.what = "created" THEN announced \cup {m.tab} ELSE announced
      /\ ~moved' => ~moved /\ owned' = owned /\ watch \notin {"ask", "fold"}
      /\ ~moved' /\ m.what = "created" => opener[m.tab] \notin owned
      /\ moved' \in BOOLEAN
  BY <1>5 DEF Popup!Observe, Popup!Seeding, PopupType
<1> HIDE DEF m
<1>7. \A p \in Popups : Coming(p)' => Coming(p)
  BY <1>2 DEF Coming
<1>8. \A p \in Popups : Coming(p) => Coming(p)' \/ (m.what = "created" /\ m.tab = p)
  <2> SUFFICES ASSUME NEW p \in Popups, NEW i \in 1..Len(told), Creates(i, p), i # 1
               PROVE  Coming(p)'
    BY <1>4 DEF Coming
  <2>1. i - 1 \in 1..Len(told') /\ i = (i - 1) + 1
    BY <1>2
  <2> QED
    BY <1>2, <2>1 DEF Coming
<1>9. ASSUME NEW p \in Popups, m.what = "created", m.tab = p
      PROVE  Coming(p) /\ ~Coming(p)'
  <2>1. ASSUME NEW i \in 1..Len(told'), Creates(i, p)'
        PROVE  FALSE
    <3>1. i + 1 \in 1..Len(told) /\ Creates(i + 1, p) /\ Creates(1, p)
      BY <1>2, <1>4, <1>9, <2>1
    <3>2. i + 1 = 1
      BY <1>2, <1>3, <3>1 DEF OrderInv
    <3> QED
      BY <1>2, <3>2
  <2> QED
    BY <1>2, <1>4, <1>9, <2>1 DEF Coming
<1>10. OpenedInv'
  BY <1>1, <1>3, <1>5, <1>6, <1>7, <1>9 DEF OpenedInv
<1>11. OrderInv'
  <2>1. ASSUME NEW i \in 1..Len(told'), NEW j \in 1..Len(told'), NEW p \in Popups, Creates(i, p)', Creates(j, p)'
        PROVE  i = j
    <3>1. i + 1 = j + 1
      BY <1>2, <1>3, <2>1 DEF OrderInv
    <3> QED
      BY <3>1
  <2>2. \A p \in Popups : Coming(p)' => p \notin announced'
    BY <1>3, <1>5, <1>6, <1>7, <1>9 DEF OrderInv
  <2>3. ASSUME NEW i \in 1..Len(told'), NEW p \in Popups, NEW q \in Popups, Creates(i, p)', opener'[q] = p
        PROVE  \E j \in 1..Len(told') : i < j /\ Creates(j, q)'
    <3>1. PICK j \in 1..Len(told) : i + 1 < j /\ Creates(j, q)
      <4>1. i + 1 \in 1..Len(told) /\ Creates(i + 1, p) /\ opener[q] = p
        BY <1>1, <1>2, <2>3
      <4> QED
        BY <1>3, <4>1 DEF OrderInv
    <3>2. j - 1 \in 1..Len(told') /\ i < j - 1 /\ j = (j - 1) + 1
      BY <1>2, <3>1
    <3> QED
      BY <1>2, <3>1, <3>2
  <2> QED
    BY <2>1, <2>2, <2>3 DEF OrderInv
<1>12. ListedInv'
  BY <1>1, <1>6, <1>8 DEF ListedInv
<1>13. StillInv'
  BY <1>1, <1>6 DEF StillInv
<1> QED
  BY <1>1, <1>2, <1>5, <1>6, <1>10, <1>11, <1>12, <1>13 DEF PopupType

\* What the first list does not name, of the tabs that are there, is nobody's of the tree's.
LEMMA DescendantsClose ==
  ASSUME NEW p \in Popups \cap popupTabs, opener[p] \in Popup!Descendants(popupTabs) \cup {"root"}
  PROVE  p \in Popup!Descendants(popupTabs)
BY DEF Popup!Descendants, Popup!ClosedIn, Popup!Root

LEMMA ObserverKeeps ==
  ASSUME PopupInv, \/ Popup!Begin \/ Popup!ListsSeed \/ Popup!Fold \/ Popup!Settles \/ Popup!ListsAgain \/ Popup!Leaves
  PROVE  PopupInv'
<1> USE DEF PopupInv, Popup!List, Popup!browserVars, Popup!Watching
<1>1. UNCHANGED <<popupTabs, opener>>
  BY DEF Popup!Begin, Popup!ListsSeed, Popup!Fold, Popup!Settles, Popup!ListsAgain, Popup!Leaves
<1>2. CASE Popup!Begin
  <2>1. /\ watch' = "ask" /\ owned' = {"root"} /\ moved' = FALSE /\ announced' = {} /\ told' = <<>> /\ seed' = seed
    BY <1>2 DEF Popup!Begin, Popup!Root
  <2>2. 1..Len(told') = {} /\ told' \in Seq(Announcement)
    BY <2>1
  <2>3. \A p \in Popups : ~Coming(p)'
    BY <2>2 DEF Coming
  <2> QED
    BY <1>1, <2>1, <2>2, <2>3 DEF PopupType, OpenedInv, OrderInv, ListedInv, StillInv
<1>3. CASE Popup!ListsSeed
  <2>1. /\ watch = "ask" /\ watch' = "fold" /\ seed' = Popup!Descendants(popupTabs)
        /\ UNCHANGED <<told, owned, moved, announced>>
    BY <1>3 DEF Popup!ListsSeed
  <2>2. ListedInv'
    BY <1>1, <2>1, DescendantsClose DEF ListedInv
  <2>3. seed' \subseteq Popups
    BY <2>1 DEF Popup!Descendants
  <2>4. OpenedInv' /\ OrderInv'
    BY <1>1, <2>1 DEF OpenedInv, OrderInv, Coming, Creates
  <2> QED
    BY <1>1, <2>1, <2>2, <2>3, <2>4 DEF PopupType, StillInv
<1>4. CASE Popup!Fold
  <2>1. /\ watch = "fold" /\ watch' = "wait" /\ owned' = owned \cup seed
        /\ UNCHANGED <<told, moved, seed, announced>>
    BY <1>4 DEF Popup!Fold
  <2>2. OpenedInv' /\ OrderInv' /\ ListedInv'
    BY <1>1, <2>1 DEF OpenedInv, OrderInv, ListedInv, Coming, Creates
  <2> QED
    BY <1>1, <2>1, <2>2 DEF PopupType, StillInv
<1>5. CASE Popup!Settles \/ Popup!ListsAgain
  <2>1. /\ watch \in {"wait", "again"} /\ watch' \in {"again", "done"}
        /\ UNCHANGED <<told, moved, seed, announced, owned>>
    BY <1>5 DEF Popup!Settles, Popup!ListsAgain
  <2>2. OpenedInv' /\ OrderInv'
    BY <1>1, <2>1 DEF OpenedInv, OrderInv, Coming, Creates
  <2> QED
    BY <1>1, <2>1, <2>2 DEF PopupType, StillInv, ListedInv
<1>6. CASE Popup!Leaves
  <2>1. watch' = "idle" /\ told' = <<>> /\ UNCHANGED <<moved, seed, announced, owned>>
    BY <1>6 DEF Popup!Leaves
  <2>2. told' \in Seq(Announcement)
    BY <2>1
  <2> QED
    BY <1>1, <2>1, <2>2 DEF PopupType, StillInv, ListedInv
<1> QED
  BY <1>2, <1>3, <1>4, <1>5, <1>6

LEMMA PopupStep ==
  ASSUME PopupInv, [Popup!Next]_(Popup!popupVars)
  PROVE  PopupInv'
<1>1. CASE UNCHANGED Popup!popupVars
  BY <1>1 DEF PopupInv, PopupType, OpenedInv, OrderInv, ListedInv, StillInv, Coming, Creates, Popup!popupVars, Popup!Watching
<1> QED
  BY <1>1, OpensKeeps, ClosesKeeps, TopicKeeps, ObserverKeeps DEF Popup!Next, Popup!Root

\* Where nothing has moved, the first list names every tab of the tree that was announced: those
\* it does not name are still to be announced, and so are those they have opened.
LEMMA NoneBehind ==
  ASSUME PopupInv, watch = "wait", ~moved, NEW p \in announced, p \in Popup!Descendants(popupTabs)
  PROVE  p \in seed
<1> USE DEF PopupInv
<1>1. OrderInv /\ owned = seed \cup {"root"} /\ \A q \in announced : opener[q] \notin owned
  BY DEF StillInv, Popup!Watching
<1> DEFINE S == {"root"} \cup seed \cup {q \in Popups : Coming(q)}
<1>2. ASSUME NEW q \in popupTabs \cap Popups, opener[q] \in S
      PROVE  q \in S
  <2>1. CASE opener[q] \in seed \cup {"root"}
    BY <1>1, <2>1 DEF ListedInv
  <2>2. CASE opener[q] \in Popups /\ Coming(opener[q])
    BY <1>1, <2>2 DEF OrderInv, Coming
  <2> QED
    BY <1>2, <2>1, <2>2
<1>3. Popup!ClosedIn(S, popupTabs) /\ S \subseteq Popups \cup {"root"}
  BY <1>2 DEF Popup!ClosedIn, Popup!Root, PopupType
<1>4. p \in S /\ p \in Popups
  BY <1>3 DEF Popup!Descendants, Popup!Root
<1> QED
  BY <1>1, <1>4, PopupsAssumption DEF OrderInv

\* _owned_tab_descendants_after_quiet(): a tab it was told of while it watched, opened along a
\* chain of tabs that are still there, is among those it names, whatever the browser opened,
\* closed and announced before the first list, between it and the answer, and after.
THEOREM NoPopupEscapes == Popup!Spec => NoneEscapes
<1>1. Popup!Init => PopupInv
  <2> SUFFICES ASSUME Popup!Init PROVE PopupInv
    OBVIOUS
  <2>1. told = <<>> /\ watch = "idle" /\ popupTabs = {"root"} /\ opener = [p \in Popups |-> "nobody"]
        /\ moved = FALSE /\ seed = {} /\ announced = {} /\ owned = {"root"}
    BY DEF Popup!Init, Popup!Root
  <2>2. told \in Seq(Announcement)
    BY <2>1
  <2> QED
    BY <2>1, <2>2, PopupsAssumption DEF PopupInv, PopupType, ListedInv, StillInv, Popup!Watching
<1>2. PopupInv /\ [Popup!Next]_(Popup!popupVars)
        => [watch # "done" /\ watch' = "done" =>
              \A p \in announced : Popup!Reached(p) => p \in answer']_(Popup!popupVars)
  <2> SUFFICES ASSUME PopupInv, Popup!Next, watch # "done", watch' = "done", NEW p \in announced, Popup!Reached(p)
               PROVE  p \in answer'
    OBVIOUS
  <2>1. Popup!Settles \/ Popup!ListsAgain
    BY DEF Popup!Next, Popup!Opens, Popup!Closes, Popup!Observe, Popup!Begin, Popup!ListsSeed, Popup!Fold,
           Popup!Leaves, Popup!List
  <2>2. CASE Popup!Settles
    <3>1. watch = "wait" /\ ~moved /\ answer' = seed
      BY <2>2 DEF Popup!Settles, PopupInv, PopupType
    <3> QED
      BY <3>1, NoneBehind DEF Popup!Reached
  <2>3. CASE Popup!ListsAgain
    BY <2>3 DEF Popup!ListsAgain, Popup!Reached
  <2> QED
    BY <2>1, <2>2, <2>3
<1> QED
  BY <1>1, <1>2, PopupStep, PTL DEF Popup!Spec, NoneEscapes, Popup!NoneEscapes

-----------------------------------------------------------------------------
(* A page read in versions.                                                *)

RawOK(raw) == raw.blocks \in Seq([path : STRING, text : Seq(STRING)])
\* Numbers of blocks, each once.
RowsOf(raw, rows) ==
  rows \in Seq(1..Len(raw.blocks)) /\ \A j, m \in 1..Len(rows) : rows[j] = rows[m] => j = m
KeyOf(raw, rows, j) == Semantic!KeyAt(raw.blocks, rows[j])
TextAt(raw, rows, j) == raw.blocks[rows[j]].text

DocOK(doc) == RawOK(doc.raw) /\ RowsOf(doc.raw, doc.emits)
CursorOK(c) ==
  /\ RawOK(c.raw) /\ RowsOf(c.raw, c.of) /\ c.pos \in 1..Len(c.of)
  /\ c.off \in Nat /\ c.off < Len(TextAt(c.raw, c.of, c.pos))

PageType ==
  /\ shown \in Documents
  /\ latest # <<>> => latest = <<latest[1]>> /\ DocOK(latest[1])
  /\ reading # <<>> => /\ reading = <<reading[1]>> /\ RawOK(reading[1].raw) /\ reading[1].limit \in Nat
                       /\ reading[1].how = "cursor" => cursor # <<>>
  /\ cursor # <<>> => cursor = <<cursor[1]>> /\ CursorOK(cursor[1]) /\ latest # <<>>
  /\ latest = <<>> => mirror = <<>>

\* Two versions have the key, with the same text, or neither has it.
Agree(one, two, key) ==
  /\ key \in Semantic!KeysOf(one) <=> key \in Semantic!KeysOf(two)
  /\ key \in Semantic!KeysOf(one) => Semantic!TextOf(one, key) = Semantic!TextOf(two, key)

\* The mirror has the key as the version does.
Mirrored(m, raw, key) ==
  key \in DOMAIN m /\ key \in Semantic!KeysOf(raw) /\ m[key] = Semantic!TextOf(raw, key)

\* What the caller has left to read is what its cursor has before it; the rest of the version it has,
\* but for what it has dropped, and it has the block at its cursor as far as the cursor is.
MirrorInv ==
  latest # <<>> =>
    /\ \A key \in (Semantic!KeysOf(latest[1].raw) \cup DOMAIN mirror) \ (lost \cup Semantic!Rest) :
         Mirrored(mirror, latest[1].raw, key)
    /\ cursor # <<>> =>
         LET c == cursor[1]
             here == KeyOf(c.raw, c.of, c.pos)
         IN  /\ \A key \in (Semantic!KeysOf(c.raw) \cup Semantic!KeysOf(latest[1].raw)) \ lost : Agree(c.raw, latest[1].raw, key)
             /\ c.off > 0 /\ here \notin lost =>
                  here \in DOMAIN mirror /\ mirror[here] = SubSeq(TextAt(c.raw, c.of, c.pos), 1, c.off)

ReadInv == ~strayed => PageType /\ MirrorInv

\* Every set of numbers that has a member has a least one: what an induction needs.
LEMMA LeastOf ==
  ASSUME NEW T, T \subseteq Nat, T # {}
  PROVE  \E x \in T : \A y \in T : x <= y
<1> DEFINE R == OpToRel(<, Nat)
<1>1. IsWellFoundedOn(R, Nat)
  BY NatLessThanWellFounded, Zenon
<1>2. PICK x \in T : \A y \in T : ~(<<y, x>> \in R)
  <2> HIDE DEF R
  <2> QED BY <1>1, WFMin, Zenon
<1>3. \A y \in T : ~(y < x)
  BY <1>2 DEF OpToRel
<1> QED
  BY <1>3

LEMMA LeastIs ==
  ASSUME NEW S, S \subseteq Nat, S # {}
  PROVE  Semantic!Least(S) \in S /\ \A j \in S : Semantic!Least(S) <= j
<1>1. \E x \in S : \A y \in S : x <= y
  BY LeastOf
<1> QED
  BY <1>1 DEF Semantic!Least

\* The numbers of a set in order: each of them, once.
LEMMA InOrderIs ==
  ASSUME NEW n \in Nat, NEW S, S \subseteq 1..n
  PROVE  LET r == Semantic!InOrder(S, n) IN
           /\ r \in Seq(1..n) /\ \A i \in 1..n : i \in S <=> \E j \in 1..Len(r) : r[j] = i
           /\ \A j, m \in 1..Len(r) : r[j] = r[m] => j = m
<1> DEFINE Is(f, m) == f = [i \in 0..m |-> IF i = 0 THEN <<>> ELSE IF i \in S THEN Append(f[i - 1], i) ELSE f[i - 1]]
           Nope == {m \in Nat : ~\E f : Is(f, m)}
<1>1. Nope = {}
  <2> SUFFICES ASSUME Nope # {} PROVE FALSE
    OBVIOUS
  <2>1. PICK m \in Nope : \A y \in Nope : m <= y
    <3>1. Nope \subseteq Nat
      OBVIOUS
    <3> HIDE DEF Nope
    <3> QED
      BY <3>1, LeastOf
  <2>2. CASE m = 0
    <3>1. Is([i \in 0..m |-> <<>>], m)
      BY <2>2
    <3> QED
      BY <3>1, <2>1
  <2>3. CASE m > 0
    <3>0. m - 1 \in Nat /\ m - 1 \notin Nope
      <4>1. ~(m <= m - 1) /\ m \in Nat /\ m - 1 \in Nat
        BY <2>1, <2>3
      <4> HIDE DEF Nope
      <4> QED
        BY <4>1, <2>1
    <3>1. PICK f : Is(f, m - 1)
      BY <3>0
    <3> DEFINE g == [i \in 0..m |-> IF i = m THEN IF i \in S THEN Append(f[i - 1], i) ELSE f[i - 1] ELSE f[i]]
    <3>2. \A i \in 0..m : g[i] = IF i = 0 THEN <<>> ELSE IF i \in S THEN Append(g[i - 1], i) ELSE g[i - 1]
      <4> SUFFICES ASSUME NEW i \in 0..m
                   PROVE  g[i] = IF i = 0 THEN <<>> ELSE IF i \in S THEN Append(g[i - 1], i) ELSE g[i - 1]
        OBVIOUS
      <4>1. m \in Nat /\ m > 0 /\ \A q \in 0..(m - 1) : q \in 0..m /\ q # m /\ g[q] = f[q]
        BY <2>1, <2>3
      <4>2. CASE i = m
        <5>1. g[i] = (IF i \in S THEN Append(f[i - 1], i) ELSE f[i - 1]) /\ m - 1 \in 0..(m - 1) /\ i # 0
          BY <4>1, <4>2
        <5> HIDE DEF g
        <5> QED
          BY <4>1, <4>2, <5>1
      <4>3. CASE i # m
        <5>1. i \in 0..(m - 1) /\ (i # 0 => i - 1 \in 0..(m - 1))
          BY <4>1, <4>3
        <5>2. f[i] = IF i = 0 THEN <<>> ELSE IF i \in S THEN Append(f[i - 1], i) ELSE f[i - 1]
          BY <3>1, <5>1
        <5> HIDE DEF g
        <5> QED
          BY <4>1, <5>1, <5>2
      <4> QED
        BY <4>2, <4>3
    <3>3. Is(g, m)
      <4> HIDE DEF g
      <4>1. g = [i \in 0..m |-> g[i]]
        BY DEF g
      <4> QED
        BY <4>1, <3>2
    <3> QED
      BY <3>3, <2>1
  <2> QED
    BY <2>1, <2>2, <2>3
<1> DEFINE Of == CHOOSE f : Is(f, n)
<1>2. Semantic!InOrder(S, n) = Of[n]
  BY DEF Semantic!InOrder
<1>3. \E f : Is(f, n)
  BY <1>1
<1>4. Is(Of, n)
  BY <1>3, Zenon
<1>5. \A i \in 0..n : Of[i] = IF i = 0 THEN <<>> ELSE IF i \in S THEN Append(Of[i - 1], i) ELSE Of[i - 1]
  <2> HIDE DEF Of
  <2> QED
    BY <1>4
<1> HIDE DEF Of
<1> DEFINE Good(r, m) == /\ r \in Seq(1..m) /\ \A i \in 1..m : i \in S <=> \E j \in 1..Len(r) : r[j] = i
                         /\ \A j, q \in 1..Len(r) : r[j] = r[q] => j = q
           Bad == {m \in Nat : m <= n /\ ~Good(Of[m], m)}
<1>6. Bad = {}
  <2> SUFFICES ASSUME Bad # {} PROVE FALSE
    OBVIOUS
  <2>1. PICK m \in Bad : \A y \in Bad : m <= y
    <3>1. Bad \subseteq Nat
      OBVIOUS
    <3> HIDE DEF Bad
    <3> QED
      BY <3>1, LeastOf
  <2>2. m \in Nat /\ m <= n /\ ~Good(Of[m], m)
    BY <2>1
  <2>3. CASE m = 0
    <3>1. Of[m] = <<>>
      BY <1>5, <2>2, <2>3
    <3> QED
      BY <2>2, <2>3, <3>1
  <2>4. CASE m > 0
    <3>1. m - 1 \in Nat /\ m - 1 \notin Bad /\ m \in 1..n
      <4>1. ~(m <= m - 1) /\ m \in Nat /\ m - 1 \in Nat /\ m \in 1..n
        BY <2>2, <2>4
      <4> HIDE DEF Bad
      <4> QED
        BY <4>1, <2>1
    <3>2. Good(Of[m - 1], m - 1)
      <4> HIDE DEF Good
      <4> QED
        BY <3>1
    <3> DEFINE r == Of[m - 1]
    <3>3. Of[m] = IF m \in S THEN Append(r, m) ELSE r
      BY <1>5, <2>2, <2>4
    <3>4. /\ r \in Seq(1..(m - 1)) /\ \A i \in 1..(m - 1) : i \in S <=> \E j \in 1..Len(r) : r[j] = i
          /\ \A j, q \in 1..Len(r) : r[j] = r[q] => j = q
      BY <3>2
    <3> HIDE DEF r
    <3>5. /\ r \in Seq(1..m) /\ Len(r) \in Nat /\ \A j \in 1..Len(r) : r[j] \in 1..(m - 1) /\ r[j] # m
      BY <3>1, <3>4
    <3>6. \A i : i \in 1..m <=> i \in 1..(m - 1) \/ i = m
      BY <2>2, <2>4
    <3>7. CASE m \notin S
      <4>1. \A i \in 1..m : i \in S <=> \E j \in 1..Len(r) : r[j] = i
        BY <3>4, <3>5, <3>6, <3>7
      <4>2. Of[m] = r
        BY <3>3, <3>7
      <4>3. Good(r, m)
        BY <3>4, <3>5, <4>1
      <4> QED
        BY <2>2, <4>2, <4>3
    <3>8. CASE m \in S
      <4> DEFINE u == Append(r, m)
      <4>1. /\ u \in Seq(1..m) /\ Len(u) = Len(r) + 1 /\ u[Len(r) + 1] = m /\ \A j \in 1..Len(r) : u[j] = r[j]
        BY <3>5, <2>2, <2>4
      <4>2. \A j : j \in 1..Len(u) <=> j \in 1..Len(r) \/ j = Len(r) + 1
        BY <3>5, <4>1
      <4>3. Of[m] = u
        BY <3>3, <3>8
      <4> HIDE DEF u
      <4>4. \A i \in 1..m : i \in S <=> \E j \in 1..Len(u) : u[j] = i
        <5> TAKE i \in 1..m
        <5>1. (\E j \in 1..Len(u) : u[j] = i) <=> i = m \/ \E j \in 1..Len(r) : r[j] = i
          <6>1. ASSUME NEW j \in 1..Len(u), u[j] = i PROVE i = m \/ \E q \in 1..Len(r) : r[q] = i
            BY <4>1, <4>2, <6>1
          <6>2. ASSUME NEW q \in 1..Len(r), r[q] = i PROVE \E j \in 1..Len(u) : u[j] = i
            BY <4>1, <4>2, <6>2
          <6>3. Len(r) + 1 \in 1..Len(u) /\ u[Len(r) + 1] = m
            BY <3>5, <4>1
          <6> QED
            BY <6>1, <6>2, <6>3
        <5>2. CASE i = m
          BY <3>8, <5>1, <5>2
        <5>3. CASE i \in 1..(m - 1)
          BY <3>4, <3>5, <5>1, <5>3
        <5> QED
          BY <3>6, <5>2, <5>3
      <4>5. \A j, q \in 1..Len(u) : u[j] = u[q] => j = q
        <5> TAKE j, q \in 1..Len(u)
        <5>1. CASE j \in 1..Len(r) /\ q \in 1..Len(r)
          BY <3>4, <4>1, <5>1
        <5>2. CASE j \in 1..Len(r) /\ q = Len(r) + 1
          BY <3>5, <4>1, <5>2
        <5>3. CASE j = Len(r) + 1 /\ q \in 1..Len(r)
          BY <3>5, <4>1, <5>3
        <5>4. CASE j = Len(r) + 1 /\ q = Len(r) + 1
          BY <5>4
        <5> QED
          BY <4>2, <5>1, <5>2, <5>3, <5>4
      <4>6. Good(u, m)
        BY <4>1, <4>4, <4>5
      <4> QED
        BY <2>2, <4>3, <4>6
    <3> QED
      BY <3>7, <3>8
  <2> QED
    BY <2>2, <2>3, <2>4
<1>7. Good(Of[n], n)
  <2> HIDE DEF Good
  <2> QED
    BY <1>6
<1> QED
  BY <1>2, <1>7

\* The key of a block is its own.
LEMMA KeysDiffer ==
  ASSUME NEW blocks, NEW n \in Nat, NEW i \in 1..n, NEW j \in 1..n,
         Semantic!KeyAt(blocks, i) = Semantic!KeyAt(blocks, j)
  PROVE  i = j
<1>1. \A S : Semantic!Cardinality(S) = Cardinality(S)
  BY DEF Semantic!Cardinality, Cardinality
<1> DEFINE Twins(m) == {q \in 1..(m - 1) : blocks[q].path = blocks[m].path}
<1>2. blocks[i].path = blocks[j].path /\ Cardinality(Twins(i)) = Cardinality(Twins(j))
  BY <1>1 DEF Semantic!KeyAt
<1>3. ASSUME NEW a \in 1..n, NEW b \in 1..n, a < b, blocks[a].path = blocks[b].path,
             Cardinality(Twins(a)) = Cardinality(Twins(b))
      PROVE  FALSE
  <2>1. IsFiniteSet(Twins(b))
    <3>1. IsFiniteSet(1..(b - 1))
      BY FS_Interval
    <3> QED
      BY <3>1, FS_Subset
  <2>2. Twins(a) \subseteq Twins(b) /\ a \in Twins(b) /\ a \notin Twins(a)
    BY <1>3
  <2> HIDE DEF Twins
  <2> QED
    BY <1>3, <2>1, <2>2, FS_Subset
<1> HIDE DEF Twins
<1> QED
  BY <1>2, <1>3

LEMMA SeqIs ==
  ASSUME NEW S, NEW s \in Seq(S)
  PROVE  DOMAIN s = 1..Len(s) /\ Len(s) \in Nat /\ \A i \in 1..Len(s) : s[i] \in S
OBVIOUS

LEMMA TextOfIs ==
  ASSUME NEW raw, RawOK(raw), NEW i \in 1..Len(raw.blocks)
  PROVE  /\ Semantic!TextOf(raw, Semantic!KeyAt(raw.blocks, i)) = raw.blocks[i].text
         /\ Semantic!KeyAt(raw.blocks, i) \in Semantic!KeysOf(raw)
         /\ raw.blocks[i].text \in Seq(STRING) /\ Len(raw.blocks) \in Nat
<1>1. DOMAIN raw.blocks = 1..Len(raw.blocks) /\ Len(raw.blocks) \in Nat /\ raw.blocks[i] \in [path : STRING, text : Seq(STRING)]
  BY SeqIs DEF RawOK
<1> DEFINE j == CHOOSE q \in DOMAIN raw.blocks : Semantic!KeyAt(raw.blocks, q) = Semantic!KeyAt(raw.blocks, i)
<1>2. j \in 1..Len(raw.blocks) /\ Semantic!KeyAt(raw.blocks, j) = Semantic!KeyAt(raw.blocks, i)
  BY <1>1
<1> HIDE DEF j
<1>3. j = i
  BY <1>1, <1>2, KeysDiffer
<1> QED
  BY <1>1, <1>3 DEF Semantic!TextOf, Semantic!KeysOf, j

LEMMA KeysAre ==
  ASSUME NEW raw, RawOK(raw), NEW key
  PROVE  key \in Semantic!KeysOf(raw) <=> \E i \in 1..Len(raw.blocks) : key = Semantic!KeyAt(raw.blocks, i)
<1>1. DOMAIN raw.blocks = 1..Len(raw.blocks)
  BY DEF RawOK
<1> QED
  BY <1>1 DEF Semantic!KeysOf

\* The script answers with a sequence of blocks.
LEMMA ExtractIs == ASSUME NEW d \in Documents, NEW b PROVE RawOK(Semantic!Extract(d, b))
<1> DEFINE scope == Semantic!Scope(d, b)
           rows == Semantic!InOrder(Semantic!Kept(d, scope), Len(d))
           blocks == [j \in DOMAIN rows |-> [path |-> d[rows[j]].path, text |-> d[rows[j]].text]]
<1>1. /\ DOMAIN d = 1..Len(d) /\ Len(d) \in Nat
      /\ \A i \in 1..Len(d) : d[i].path \in STRING /\ d[i].text \in Seq(STRING)
  <2> DEFINE B == [path : STRING, kind : {"text", "control", "region", "links"}, main : BOOLEAN, text : Seq(STRING)]
  <2>1. d \in Seq(B)
    BY DocumentsAssumption
  <2>2. \A x \in B : x.path \in STRING /\ x.text \in Seq(STRING)
    OBVIOUS
  <2> HIDE DEF B
  <2> QED
    BY <2>1, <2>2, SeqIs
<1>2. Semantic!Kept(d, scope) \subseteq 1..Len(d)
  BY <1>1 DEF Semantic!Kept, Semantic!Scope
<1>3. rows \in Seq(1..Len(d))
  BY <1>1, <1>2, InOrderIs
<1>4. Semantic!Extract(d, b).blocks = blocks
  BY DEF Semantic!Extract
<1> HIDE DEF rows
<1>5. DOMAIN rows = 1..Len(rows) /\ Len(rows) \in Nat /\ \A j \in 1..Len(rows) : rows[j] \in 1..Len(d)
  BY <1>3
<1>6. blocks \in [1..Len(rows) -> [path : STRING, text : Seq(STRING)]]
  BY <1>1, <1>5
<1>7. blocks \in Seq([path : STRING, text : Seq(STRING)])
  BY <1>5, <1>6
<1> QED
  BY <1>4, <1>7 DEF RawOK

\* What a new version has to tell: every block that the version before has not, or not so.
LEMMA MakeIs ==
  ASSUME NEW old, NEW raw, RawOK(raw), old # <<>> => RawOK(old[1].raw)
  PROVE  LET doc == Semantic!MakeDocument(old, raw) IN
           /\ DocOK(doc) /\ doc.raw = raw
           /\ \A key \in Semantic!KeysOf(raw) :
                key \notin Semantic!EmitsAll(doc) =>
                  old # <<>> /\ key \in Semantic!KeysOf(old[1].raw) /\ Semantic!TextOf(old[1].raw, key) = Semantic!TextOf(raw, key)
           /\ doc.removed = IF old = <<>> THEN {} ELSE Semantic!KeysOf(old[1].raw) \ Semantic!KeysOf(raw)
<1> DEFINE doc == Semantic!MakeDocument(old, raw)
           News == {i \in DOMAIN raw.blocks :
                      \/ old = <<>>
                      \/ Semantic!KeyAt(raw.blocks, i) \notin Semantic!KeysOf(old[1].raw)
                      \/ Semantic!TextOf(old[1].raw, Semantic!KeyAt(raw.blocks, i)) # raw.blocks[i].text}
<1>1. doc.raw = raw /\ doc.emits = Semantic!Changed(old, raw) /\ doc.removed = Semantic!Gone(old, raw)
  BY DEF Semantic!MakeDocument
<1>2. DOMAIN raw.blocks = 1..Len(raw.blocks) /\ Len(raw.blocks) \in Nat
  BY DEF RawOK
<1>3. doc.emits = Semantic!InOrder(News, Len(raw.blocks)) /\ News \subseteq 1..Len(raw.blocks)
  BY <1>1, <1>2 DEF Semantic!Changed
<1> HIDE DEF News, doc
<1>4. /\ doc.emits \in Seq(1..Len(raw.blocks))
      /\ \A i \in 1..Len(raw.blocks) : i \in News <=> \E j \in 1..Len(doc.emits) : doc.emits[j] = i
      /\ \A j, m \in 1..Len(doc.emits) : doc.emits[j] = doc.emits[m] => j = m
  BY <1>2, <1>3, InOrderIs
<1>5. DocOK(doc)
  BY <1>1, <1>4 DEF DocOK, RowsOf
<1>6. ASSUME NEW key \in Semantic!KeysOf(raw), key \notin Semantic!EmitsAll(doc)
      PROVE  old # <<>> /\ key \in Semantic!KeysOf(old[1].raw) /\ Semantic!TextOf(old[1].raw, key) = Semantic!TextOf(raw, key)
  <2>1. PICK i \in 1..Len(raw.blocks) : key = Semantic!KeyAt(raw.blocks, i)
    BY <1>6, KeysAre
  <2>2. i \notin News
    <3> SUFFICES ASSUME i \in News PROVE FALSE
      OBVIOUS
    <3>1. PICK j \in 1..Len(doc.emits) : doc.emits[j] = i
      BY <1>4
    <3>2. j \in DOMAIN doc.emits /\ Semantic!Emitted(doc, j) = key
      BY <1>1, <1>4, <2>1, <3>1 DEF Semantic!Emitted
    <3> QED
      BY <1>6, <3>2 DEF Semantic!EmitsAll
  <2>3. Semantic!TextOf(raw, key) = raw.blocks[i].text
    BY <2>1, TextOfIs
  <2> QED
    BY <1>2, <2>1, <2>2, <2>3 DEF News
<1> QED
  BY <1>1, <1>5, <1>6 DEF doc, Semantic!Gone

\* The characters before a block of those to tell.
LEMMA BeforeIs ==
  ASSUME NEW doc, DocOK(doc)
  PROVE  /\ Len(doc.emits) \in Nat /\ Semantic!Before(doc, 1) = 0
         /\ \A p \in 1..(Len(doc.emits) + 1) : Semantic!Before(doc, p) \in Nat
         /\ \A p \in 1..Len(doc.emits) : /\ Semantic!Text(doc, p) \in Seq(STRING) /\ Len(Semantic!Text(doc, p)) \in Nat
                                         /\ Semantic!Before(doc, p + 1) = Semantic!Before(doc, p) + Len(Semantic!Text(doc, p))
<1> DEFINE N == Len(doc.emits)
           L(p) == Len(Semantic!Text(doc, p))
           Is(f, m) == f = [n \in 0..m |-> IF n = 0 THEN 0 ELSE f[n - 1] + L(n)]
           Nope == {m \in Nat : ~\E f : Is(f, m)}
<1>0. N \in Nat
  BY DEF DocOK, RowsOf
<1>a. \A p \in 1..N : Semantic!Text(doc, p) \in Seq(STRING) /\ L(p) \in Nat
  <2> TAKE p \in 1..N
  <2>1. doc.emits[p] \in 1..Len(doc.raw.blocks)
    BY DEF DocOK, RowsOf
  <2>2. Semantic!Text(doc, p) \in Seq(STRING)
    BY <2>1, TextOfIs DEF Semantic!Text, DocOK
  <2> QED
    BY <2>2
<1> HIDE DEF N, L
<1>1. Nope = {}
  <2> SUFFICES ASSUME Nope # {} PROVE FALSE
    OBVIOUS
  <2>1. PICK m \in Nope : \A y \in Nope : m <= y
    <3>1. Nope \subseteq Nat
      OBVIOUS
    <3> HIDE DEF Nope
    <3> QED
      BY <3>1, LeastOf
  <2>2. CASE m = 0
    <3>1. Is([n \in 0..m |-> 0], m)
      BY <2>2
    <3> QED
      BY <3>1, <2>1
  <2>3. CASE m > 0
    <3>0. m - 1 \in Nat /\ m - 1 \notin Nope
      <4>1. ~(m <= m - 1) /\ m \in Nat /\ m - 1 \in Nat
        BY <2>1, <2>3
      <4> HIDE DEF Nope
      <4> QED
        BY <4>1, <2>1
    <3>1. PICK f : Is(f, m - 1)
      BY <3>0
    <3> DEFINE g == [n \in 0..m |-> IF n = m THEN f[n - 1] + L(n) ELSE f[n]]
    <3>2. \A n \in 0..m : g[n] = IF n = 0 THEN 0 ELSE g[n - 1] + L(n)
      BY <3>1, <2>1, <2>3
    <3>3. Is(g, m)
      <4> HIDE DEF g
      <4>1. g = [n \in 0..m |-> g[n]]
        BY DEF g
      <4> QED
        BY <4>1, <3>2
    <3> QED
      BY <3>3, <2>1
  <2> QED
    BY <2>1, <2>2, <2>3
<1> DEFINE Sum == CHOOSE f : Is(f, N)
<1>2. \A p : Semantic!Before(doc, p) = Sum[p - 1]
  BY DEF Semantic!Before, N, L
<1>3. \E f : Is(f, N)
  BY <1>0, <1>1
<1>4. Is(Sum, N)
  BY <1>3, Zenon
<1>5. \A n \in 0..N : Sum[n] = IF n = 0 THEN 0 ELSE Sum[n - 1] + L(n)
  <2> HIDE DEF Sum
  <2> QED
    BY <1>4
<1> HIDE DEF Sum
<1> DEFINE Bad == {n \in Nat : n <= N /\ Sum[n] \notin Nat}
<1>6. Bad = {}
  <2> SUFFICES ASSUME Bad # {} PROVE FALSE
    OBVIOUS
  <2>1. PICK n \in Bad : \A y \in Bad : n <= y
    <3>1. Bad \subseteq Nat
      OBVIOUS
    <3> HIDE DEF Bad
    <3> QED
      BY <3>1, LeastOf
  <2>2. n \in Nat /\ n <= N /\ Sum[n] \notin Nat /\ n # 0
    BY <1>0, <1>5, <2>1
  <2>3. n - 1 \notin Bad /\ n - 1 \in Nat /\ n \in 1..N
    <3>1. ~(n <= n - 1) /\ n - 1 \in Nat /\ n \in 1..N
      BY <1>0, <2>2
    <3> HIDE DEF Bad
    <3> QED
      BY <2>1, <3>1
  <2> QED
    BY <1>0, <1>a, <1>5, <2>2, <2>3
<1>7. \A p \in 1..(N + 1) : Semantic!Before(doc, p) \in Nat
  BY <1>0, <1>2, <1>6
<1>8. \A p \in 1..N : Semantic!Before(doc, p + 1) = Semantic!Before(doc, p) + L(p)
  BY <1>0, <1>2, <1>5
<1>9. Semantic!Before(doc, 1) = 0
  BY <1>0, <1>2, <1>5
<1> QED
  BY <1>0, <1>a, <1>7, <1>8, <1>9 DEF N, L

\* A place to read on from.
PlaceOK(doc, pos, off) ==
  /\ pos \in 1..(Len(doc.emits) + 1) /\ off \in Nat
  /\ pos \in 1..Len(doc.emits) => off = 0 \/ off < Len(Semantic!Text(doc, pos))
  /\ pos = Len(doc.emits) + 1 => off = 0

\* A window ends at the end, or in a block that it does not go through: the next cursor is there.
LEMMA WindowIs ==
  ASSUME NEW doc, DocOK(doc), NEW pos, NEW off, PlaceOK(doc, pos, off), NEW limit \in Nat,
         NEW end, end = Semantic!Upto(doc, pos, off, limit)
  PROVE  LET nc == Semantic!NextCursor(doc, pos, end)
             c == nc[1]
         IN  /\ end \in Nat /\ end = Semantic!Before(doc, pos) + off + limit
             /\ nc = <<>> => \A j \in pos..Len(doc.emits) : Semantic!Through(doc, j, end)
             /\ nc # <<>> =>
                  /\ nc = <<c>> /\ c.raw = doc.raw /\ c.of = doc.emits /\ c.pos \in pos..Len(doc.emits)
                  /\ CursorOK(c) /\ c.off = end - Semantic!Before(doc, c.pos) /\ ~Semantic!Through(doc, c.pos, end)
                  /\ \A j \in pos..(c.pos - 1) : Semantic!Through(doc, j, end)
                  /\ c.pos = pos => c.off = off + limit
<1> DEFINE N == Len(doc.emits)
           B(p) == Semantic!Before(doc, p)
           L(p) == Len(Semantic!Text(doc, p))
           U == Semantic!Unread(doc, pos, end)
           nc == Semantic!NextCursor(doc, pos, end)
<1>1. /\ N \in Nat /\ pos \in 1..(N + 1) /\ off \in Nat /\ (pos \in 1..N => off = 0 \/ off < L(pos))
      /\ \A p \in 1..(N + 1) : B(p) \in Nat
      /\ \A p \in 1..N : L(p) \in Nat /\ B(p + 1) = B(p) + L(p)
  BY BeforeIs DEF PlaceOK
<1>2. end = B(pos) + off + limit /\ end \in Nat
  BY <1>1 DEF Semantic!Upto
<1>3. \A j : j \in U <=> j \in pos..N /\ ~Semantic!Through(doc, j, end)
  BY DEF Semantic!Unread
<1>4. \A j \in pos..N : Semantic!Through(doc, j, end) <=> B(j) + L(j) <= end
  BY DEF Semantic!Through
<1> HIDE DEF U
<1>5. CASE U = {}
  <2>1. nc = <<>>
    BY <1>5 DEF Semantic!NextCursor, U
  <2> QED
    BY <1>2, <1>3, <1>5, <2>1
<1>6. CASE U # {}
  <2> DEFINE p == Semantic!Least(U)
             c == [raw |-> doc.raw, pos |-> p, off |-> end - B(p), of |-> doc.emits]
  <2>1. nc = <<c>>
    BY <1>6 DEF Semantic!NextCursor, U
  <2>2. U \subseteq Nat
    BY <1>1, <1>3
  <2>3. p \in U /\ \A j \in U : p <= j
    BY <1>6, <2>2, LeastIs
  <2> HIDE DEF p
  <2>4. p \in pos..N /\ p \in 1..N /\ ~Semantic!Through(doc, p, end) /\ B(p) + L(p) > end
    <3>1. p \in pos..N /\ p \in 1..N /\ ~Semantic!Through(doc, p, end)
      BY <1>1, <1>3, <2>3
    <3>2. B(p) \in Nat /\ L(p) \in Nat /\ ~(B(p) + L(p) <= end)
      BY <1>1, <1>4, <3>1
    <3> QED
      BY <1>2, <3>1, <3>2
  <2>5. \A j \in pos..(p - 1) : Semantic!Through(doc, j, end)
    <3> TAKE j \in pos..(p - 1)
    <3>1. j \in pos..N /\ ~(p <= j)
      BY <1>1, <2>4
    <3> QED
      BY <1>3, <2>3, <3>1
  <2>6. B(p) <= end
    <3>1. CASE p = pos
      BY <1>1, <1>2, <3>1
    <3>2. CASE p > pos
      <4>1. p - 1 \in pos..(p - 1) /\ p - 1 \in pos..N /\ p - 1 \in 1..N /\ (p - 1) + 1 = p
        BY <1>1, <2>4, <3>2
      <4>2. B(p - 1) + L(p - 1) <= end
        BY <1>4, <2>5, <4>1
      <4>3. B(p) = B(p - 1) + L(p - 1)
        BY <1>1, <4>1
      <4> QED
        BY <4>2, <4>3
    <3> QED
      BY <1>1, <2>4, <3>1, <3>2
  <2>7. c.off \in Nat /\ c.off < L(p) /\ (p = pos => c.off = off + limit)
    <3>1. B(p) \in Nat /\ L(p) \in Nat
      BY <1>1, <2>4
    <3>2. c.off = end - B(p)
      OBVIOUS
    <3>3. p = pos => end - B(p) = off + limit
      BY <1>1, <1>2, <3>1
    <3>4. end - B(p) \in Nat /\ end - B(p) < L(p)
      <4> HIDE DEF B, L
      <4> QED
        BY <1>2, <2>4, <2>6, <3>1
    <3> HIDE DEF B, L, c
    <3> QED
      BY <3>2, <3>3, <3>4
  <2>8. CursorOK(c)
    BY <2>4, <2>7 DEF CursorOK, DocOK, TextAt, Semantic!Text
  <2>9. c.raw = doc.raw /\ c.of = doc.emits /\ c.pos = p /\ c.off = end - B(p)
    OBVIOUS
  <2>10. nc # <<>> /\ nc[1] = c
    <3> HIDE DEF c, nc
    <3> QED
      BY <2>1
  <2> HIDE DEF c, nc
  <2> QED
    BY <1>2, <2>1, <2>4, <2>5, <2>7, <2>8, <2>9, <2>10 DEF nc
<1> QED
  BY <1>5, <1>6

LEMMA Pieces ==
  ASSUME NEW S, NEW t \in Seq(S), NEW a \in Nat, NEW b \in Nat, a <= b, b <= Len(t)
  PROVE  SubSeq(t, 1, a) \o SubSeq(t, a + 1, b) = SubSeq(t, 1, b) /\ SubSeq(t, 1, Len(t)) = t
OBVIOUS

\* What the caller makes of a window: the blocks that are through it has, the block at the cursor as far
\* as the cursor is, and it has all others as before, but for those that are gone.
LEMMA Merged ==
  ASSUME NEW doc, DocOK(doc), NEW pos, NEW off, PlaceOK(doc, pos, off), NEW limit \in Nat,
         NEW removed, Semantic!Merges(doc, pos, off, Semantic!Upto(doc, pos, off, limit), removed),
         off > 0 => removed = {},
         off > 0 /\ Semantic!Emitted(doc, pos) \notin lost' =>
           /\ Semantic!Emitted(doc, pos) \in DOMAIN mirror
           /\ mirror[Semantic!Emitted(doc, pos)] = SubSeq(Semantic!Text(doc, pos), 1, off)
  PROVE  /\ \A j \in pos..Len(doc.emits) :
              /\ cursor' = <<>> \/ j < cursor'[1].pos
              /\ Semantic!Emitted(doc, j) \notin lost'
              => /\ Semantic!Emitted(doc, j) \in DOMAIN mirror'
                 /\ mirror'[Semantic!Emitted(doc, j)] = Semantic!Text(doc, j)
         /\ cursor' # <<>> =>
              LET c == cursor'[1] IN
              /\ cursor' = <<c>> /\ CursorOK(c) /\ c.raw = doc.raw /\ c.of = doc.emits /\ c.pos \in pos..Len(doc.emits)
              /\ c.off > 0 /\ Semantic!Emitted(doc, c.pos) \notin lost' =>
                   /\ Semantic!Emitted(doc, c.pos) \in DOMAIN mirror'
                   /\ mirror'[Semantic!Emitted(doc, c.pos)] = SubSeq(Semantic!Text(doc, c.pos), 1, c.off)
         /\ \A key : (\A j \in pos..Len(doc.emits) : key # Semantic!Emitted(doc, j)) =>
              /\ key \in DOMAIN mirror' <=> key \in DOMAIN mirror \ removed
              /\ key \in DOMAIN mirror' => mirror'[key] = mirror[key]
<1>a. PICK end : end = Semantic!Upto(doc, pos, off, limit)
  OBVIOUS
<1>b. PICK dropped : dropped = lost'
  OBVIOUS
<1> DEFINE N == Len(doc.emits)
           nc == Semantic!NextCursor(doc, pos, end)
           c == nc[1]
           Tx(j) == Semantic!Text(doc, j)
           Key(j) == Semantic!Emitted(doc, j)
           Thru(j) == Semantic!Through(doc, j, end)
           last == IF nc = <<>> THEN N ELSE nc[1].pos
           Upper(j) == IF Thru(j) THEN Len(Tx(j)) ELSE end - Semantic!Before(doc, j)
           From(j) == IF j = pos THEN off ELSE 0
           Got(key) == {j \in pos..last : Key(j) = key /\ (Upper(j) > From(j) \/ Tx(j) = <<>>)}
           Told == {Key(j) : j \in {i \in pos..last : Got(Key(i)) # {}}}
           Piece(j) == SubSeq(Tx(j), From(j) + 1, Upper(j))
           Have(key) == IF key \in DOMAIN mirror THEN mirror[key] ELSE <<>>
<1>1. /\ mirror' = [key \in (DOMAIN mirror \ removed) \cup Told |->
                      IF key \notin Told THEN mirror[key]
                      ELSE LET j == Semantic!Least(Got(key)) IN
                           IF From(j) = 0 THEN Piece(j) ELSE Have(key) \o Piece(j)]
      /\ cursor' = nc
  BY <1>a DEF Semantic!Merges
<1>2. /\ end \in Nat /\ end = Semantic!Before(doc, pos) + off + limit
      /\ nc = <<>> => \A j \in pos..N : Thru(j)
      /\ nc # <<>> => /\ nc = <<c>> /\ c.raw = doc.raw /\ c.of = doc.emits /\ c.pos \in pos..N
                      /\ CursorOK(c) /\ c.off = end - Semantic!Before(doc, c.pos) /\ ~Thru(c.pos)
                      /\ \A j \in pos..(c.pos - 1) : Thru(j)
                      /\ c.pos = pos => c.off = off + limit
  BY <1>a, WindowIs
<1>3. /\ N \in Nat /\ pos \in 1..(N + 1) /\ off \in Nat /\ (pos \in 1..N => off = 0 \/ off < Len(Tx(pos)))
      /\ \A j \in 1..N : Tx(j) \in Seq(STRING) /\ Len(Tx(j)) \in Nat
  BY BeforeIs DEF PlaceOK
<1>4. \A j, m \in 1..N : Key(j) = Key(m) => j = m
  <2> TAKE j, m \in 1..N
  <2>1. doc.emits[j] \in 1..Len(doc.raw.blocks) /\ doc.emits[m] \in 1..Len(doc.raw.blocks) /\ Len(doc.raw.blocks) \in Nat
    BY <1>3, SeqIs DEF DocOK, RowsOf, RawOK, N
  <2>2. doc.emits[j] = doc.emits[m] => j = m
    BY DEF DocOK, RowsOf
  <2> QED
    BY <2>1, <2>2, KeysDiffer DEF Semantic!Emitted
<1> HIDE DEF N, nc, c, Tx, Key, Thru
<1>5. /\ last \in Nat /\ \A j \in pos..last : j \in pos..N /\ j \in 1..N
      /\ nc = <<>> => last = N
      /\ nc # <<>> => last = c.pos
  BY <1>2, <1>3 DEF c
<1> HIDE DEF last
<1>6. \A j \in pos..last : Got(Key(j)) = IF Upper(j) > From(j) \/ Tx(j) = <<>> THEN {j} ELSE {}
  <2> HIDE DEF Upper, From
  <2> QED
    BY <1>4, <1>5
<1> HIDE DEF Got, Upper, From, Piece, Have
<1>7. \A j \in pos..last : Key(j) \in Told <=> Upper(j) > From(j) \/ Tx(j) = <<>>
  <2> TAKE j \in pos..last
  <2>1. Got(Key(j)) # {} <=> Upper(j) > From(j) \/ Tx(j) = <<>>
    BY <1>6
  <2>2. Key(j) \in Told <=> Got(Key(j)) # {}
    BY <1>4, <1>5
  <2> QED
    BY <2>1, <2>2
<1>8. \A key \in Told : \E j \in pos..last : key = Key(j)
  OBVIOUS
<1> HIDE DEF Told
<1>9. \A j \in pos..last : Upper(j) > From(j) \/ Tx(j) = <<>> =>
        /\ Key(j) \in DOMAIN mirror'
        /\ mirror'[Key(j)] = IF From(j) = 0 THEN Piece(j) ELSE Have(Key(j)) \o Piece(j)
  <2> SUFFICES ASSUME NEW j \in pos..last, Upper(j) > From(j) \/ Tx(j) = <<>>
               PROVE  /\ Key(j) \in DOMAIN mirror'
                      /\ mirror'[Key(j)] = IF From(j) = 0 THEN Piece(j) ELSE Have(Key(j)) \o Piece(j)
    OBVIOUS
  <2>1. Key(j) \in Told /\ Got(Key(j)) = {j}
    BY <1>6, <1>7
  <2>2. Semantic!Least(Got(Key(j))) = j
    <3>1. j \in Nat
      BY <1>3, <1>5
    <3>2. {j} \subseteq Nat /\ {j} # {}
      BY <3>1
    <3>3. Semantic!Least({j}) \in {j}
      BY <3>2, LeastIs, Zenon
    <3> QED
      BY <2>1, <3>3
  <2> QED
    BY <1>1, <2>1, <2>2
<1>10. \A j \in pos..last : /\ From(j) = (IF j = pos THEN off ELSE 0) /\ From(j) \in Nat
                            /\ From(j) = 0 \/ From(j) < Len(Tx(j))
  BY <1>3, <1>5 DEF From
\* As far as a block has come it is in the mirror.
<1>11. ASSUME NEW j \in pos..last, Upper(j) \in Nat, Upper(j) <= Len(Tx(j)), Upper(j) > From(j) \/ Tx(j) = <<>>,
              Key(j) \notin dropped
       PROVE  Key(j) \in DOMAIN mirror' /\ mirror'[Key(j)] = SubSeq(Tx(j), 1, Upper(j))
  <2>1. Key(j) \in DOMAIN mirror' /\ mirror'[Key(j)] = IF From(j) = 0 THEN Piece(j) ELSE Have(Key(j)) \o Piece(j)
    BY <1>9, <1>11
  <2>2. Piece(j) = SubSeq(Tx(j), From(j) + 1, Upper(j))
    BY DEF Piece
  <2>3. CASE From(j) = 0
    BY <2>1, <2>2, <2>3
  <2>4. CASE From(j) # 0
    <3>1. j = pos /\ off > 0 /\ From(j) = off /\ From(j) <= Upper(j)
      <4>1. j = pos /\ From(j) = off /\ off > 0 /\ From(j) < Len(Tx(j))
        BY <1>3, <1>10, <2>4
      <4>2. Tx(j) # <<>>
        BY <1>3, <1>5, <4>1
      <4> QED
        BY <1>3, <1>11, <4>1, <4>2
    <3>2. Have(Key(j)) = SubSeq(Tx(j), 1, From(j))
      BY <1>b, <1>11, <3>1 DEF Have, Key, Tx
    <3>3. Tx(j) \in Seq(STRING)
      BY <1>3, <1>5
    <3>4. From(j) \in Nat /\ Upper(j) \in Nat
      BY <1>10, <1>11
    <3>5. SubSeq(Tx(j), 1, From(j)) \o SubSeq(Tx(j), From(j) + 1, Upper(j)) = SubSeq(Tx(j), 1, Upper(j))
      <4>1. From(j) <= Upper(j) /\ Upper(j) <= Len(Tx(j))
        BY <1>11, <3>1
      <4> QED
        BY <3>3, <3>4, <4>1, Pieces, Zenon
    <3> QED
      BY <2>1, <2>2, <2>4, <3>2, <3>5
  <2> QED
    BY <2>3, <2>4
<1>12. ASSUME NEW j \in pos..N, nc = <<>> \/ j < c.pos, Key(j) \notin dropped
       PROVE  Key(j) \in DOMAIN mirror' /\ mirror'[Key(j)] = Tx(j)
  <2>1. j \in pos..last /\ Thru(j)
    BY <1>2, <1>3, <1>5, <1>12
  <2>2. Upper(j) = Len(Tx(j)) /\ Tx(j) \in Seq(STRING) /\ Len(Tx(j)) \in Nat
    BY <1>3, <1>5, <2>1 DEF Upper
  <2>3. Upper(j) > From(j) \/ Tx(j) = <<>>
    <3>1. Len(Tx(j)) = 0 => Tx(j) = <<>>
      BY <2>2
    <3> QED
      BY <1>10, <2>1, <2>2, <3>1
  <2>4. SubSeq(Tx(j), 1, Len(Tx(j))) = Tx(j)
    BY <2>2, Pieces
  <2> QED
    BY <1>11, <1>12, <2>1, <2>2, <2>3, <2>4
<1>13. ASSUME nc # <<>>, c.off > 0, Key(c.pos) \notin dropped
       PROVE  Key(c.pos) \in DOMAIN mirror' /\ mirror'[Key(c.pos)] = SubSeq(Tx(c.pos), 1, c.off)
  <2>1. c.pos \in pos..last /\ c.pos \in 1..N /\ ~Thru(c.pos) /\ Upper(c.pos) = c.off
    BY <1>2, <1>3, <1>5, <1>13 DEF Upper
  <2>2. c.off \in Nat /\ c.off < Len(Tx(c.pos)) /\ Len(Tx(c.pos)) \in Nat
    BY <1>2, <1>3, <1>13, <2>1 DEF CursorOK, TextAt, Tx, Semantic!Text
  <2>3. CASE c.off > From(c.pos)
    <3> HIDE DEF CursorOK
    <3> QED
      BY <1>11, <1>13, <2>1, <2>2, <2>3
  <2>4. CASE ~(c.off > From(c.pos))
    <3>1. c.pos = pos /\ c.off = off + limit /\ From(c.pos) = off /\ c.off = off
      BY SMTT(30), <1>2, <1>3, <1>10, <1>13, <2>1, <2>2, <2>4
    <3>2. Key(pos) \notin Told
      <4>1. Tx(pos) # <<>>
        BY <2>2, <3>1
      <4> QED
        BY <1>7, <2>1, <2>4, <3>1, <4>1
    <3>3. /\ Key(pos) \in DOMAIN mirror /\ mirror[Key(pos)] = SubSeq(Tx(pos), 1, off)
          /\ removed = {}
      BY <1>b, <1>13, <3>1 DEF Key, Tx
    <3> QED
      BY <1>1, <3>1, <3>2, <3>3
  <2> QED
    BY <2>3, <2>4
<1>14. ASSUME NEW key, \A j \in pos..N : key # Key(j)
       PROVE  /\ key \in DOMAIN mirror' <=> key \in DOMAIN mirror \ removed
              /\ key \in DOMAIN mirror' => mirror'[key] = mirror[key]
  <2>1. key \notin Told
    BY <1>5, <1>8, <1>14
  <2> QED
    BY <1>1, <2>1
<1>15. nc # <<>> => nc = <<c>> /\ CursorOK(c) /\ c.raw = doc.raw /\ c.of = doc.emits /\ c.pos \in pos..N
  BY <1>2
<1> QED
  BY <1>b, <1>1, <1>12, <1>13, <1>14, <1>15 DEF N, Key, Tx, c

LEMMA RestIs ==
  /\ cursor = <<>> => Semantic!Rest = {}
  /\ cursor # <<>> => Semantic!Rest = {KeyOf(cursor[1].raw, cursor[1].of, j) : j \in cursor[1].pos..Len(cursor[1].of)}
BY DEF Semantic!Rest, KeyOf

\* A window merged by a caller that has what its cursor is past.
LEMMA MergesKeeps ==
  ASSUME NEW doc, DocOK(doc), latest' = <<doc>>, NEW pos, NEW off, PlaceOK(doc, pos, off), NEW limit \in Nat,
         NEW removed, Semantic!Merges(doc, pos, off, Semantic!Upto(doc, pos, off, limit), removed), off > 0 => removed = {},
         off > 0 /\ Semantic!Emitted(doc, pos) \notin lost' =>
           /\ Semantic!Emitted(doc, pos) \in DOMAIN mirror
           /\ mirror[Semantic!Emitted(doc, pos)] = SubSeq(Semantic!Text(doc, pos), 1, off),
         \A key \in (Semantic!KeysOf(doc.raw) \cup (DOMAIN mirror \ removed)) \ lost' :
           (\A j \in pos..Len(doc.emits) : key # Semantic!Emitted(doc, j)) => Mirrored(mirror, doc.raw, key) /\ key \notin removed,
         shown' = shown, shown \in Documents, reading' = <<>>
  PROVE  PageType' /\ MirrorInv'
<1> DEFINE Key(j) == Semantic!Emitted(doc, j)
           c == cursor'[1]
           N == Len(doc.emits)
<1>1. /\ \A j \in pos..N :
           (cursor' = <<>> \/ j < c.pos) /\ Key(j) \notin lost' =>
             Key(j) \in DOMAIN mirror' /\ mirror'[Key(j)] = Semantic!Text(doc, j)
      /\ cursor' # <<>> =>
           /\ cursor' = <<c>> /\ CursorOK(c) /\ c.raw = doc.raw /\ c.of = doc.emits /\ c.pos \in pos..N
           /\ c.off > 0 /\ Key(c.pos) \notin lost' =>
                Key(c.pos) \in DOMAIN mirror' /\ mirror'[Key(c.pos)] = SubSeq(Semantic!Text(doc, c.pos), 1, c.off)
      /\ \A key : (\A j \in pos..N : key # Key(j)) =>
           /\ key \in DOMAIN mirror' <=> key \in DOMAIN mirror \ removed
           /\ key \in DOMAIN mirror' => mirror'[key] = mirror[key]
  BY Merged
<1>2. N \in Nat /\ pos \in 1..(N + 1)
  BY BeforeIs DEF PlaceOK
<1>3. \A j \in 1..N : /\ Key(j) \in Semantic!KeysOf(doc.raw)
                       /\ Semantic!TextOf(doc.raw, Key(j)) = Semantic!Text(doc, j)
                       /\ KeyOf(doc.raw, doc.emits, j) = Key(j) /\ TextAt(doc.raw, doc.emits, j) = Semantic!Text(doc, j)
  <2> TAKE j \in 1..N
  <2>1. doc.emits[j] \in 1..Len(doc.raw.blocks)
    BY <1>2, SeqIs DEF DocOK, RowsOf
  <2> QED
    BY <2>1, TextOfIs DEF DocOK, Semantic!Emitted, Semantic!Text, KeyOf, TextAt
<1>4. /\ cursor' = <<>> => Semantic!Rest' = {}
      /\ cursor' # <<>> => Semantic!Rest' = {KeyOf(c.raw, c.of, j) : j \in c.pos..Len(c.of)}
  BY DEF Semantic!Rest, KeyOf
<1> HIDE DEF Key, c, N
<1>5. ASSUME NEW key \in (Semantic!KeysOf(doc.raw) \cup DOMAIN mirror') \ (lost' \cup Semantic!Rest')
      PROVE  Mirrored(mirror', doc.raw, key)
  <2>1. CASE \E j \in pos..N : key = Key(j)
    <3>1. PICK j \in pos..N : key = Key(j)
      BY <2>1
    <3>2. j \in 1..N
      BY <1>2
    <3>3. cursor' = <<>> \/ j < c.pos
      <4> SUFFICES ASSUME cursor' # <<>>, ~(j < c.pos) PROVE FALSE
        OBVIOUS
      <4>1. c.pos \in pos..N /\ c.raw = doc.raw /\ c.of = doc.emits
        BY <1>1
      <4>2. j \in c.pos..Len(c.of)
        BY <1>2, <3>2, <4>1 DEF N
      <4>3. key = KeyOf(c.raw, c.of, j)
        BY <1>3, <3>1, <3>2, <4>1
      <4> QED
        BY <1>4, <1>5, <4>2, <4>3
    <3> QED
      BY <1>1, <1>3, <1>5, <3>1, <3>2, <3>3 DEF Mirrored
  <2>2. CASE \A j \in pos..N : key # Key(j)
    <3>1. key \in (Semantic!KeysOf(doc.raw) \cup (DOMAIN mirror \ removed)) \ lost'
      BY <1>1, <1>5, <2>2
    <3>2. Mirrored(mirror, doc.raw, key) /\ key \notin removed
      BY <2>2, <3>1 DEF Key, N
    <3> QED
      BY <1>1, <2>2, <3>2 DEF Mirrored
  <2> QED
    BY <2>1, <2>2
<1>6. latest' # <<>> /\ latest'[1] = doc /\ latest' = <<latest'[1]>>
  OBVIOUS
<1>7. PageType'
  BY <1>1, <1>6 DEF PageType, c
<1>8. cursor' # <<>> =>
        /\ c.raw = doc.raw
        /\ c.off > 0 /\ KeyOf(c.raw, c.of, c.pos) \notin lost' =>
             /\ KeyOf(c.raw, c.of, c.pos) \in DOMAIN mirror'
             /\ mirror'[KeyOf(c.raw, c.of, c.pos)] = SubSeq(TextAt(c.raw, c.of, c.pos), 1, c.off)
  <2> SUFFICES ASSUME cursor' # <<>> PROVE <1>8!2
    OBVIOUS
  <2>1. c.raw = doc.raw /\ c.of = doc.emits /\ c.pos \in 1..N
    BY <1>1, <1>2
  <2> QED
    BY <1>1, <1>3, <2>1
<1>9. MirrorInv'
  BY <1>5, <1>6, <1>8 DEF MirrorInv, Agree, c
<1> QED
  BY <1>7, <1>9

\* The entry a read goes on with is well formed, and is of the version that was evaluated.
LEMMA CurrentIs ==
  ASSUME PageType, reading # <<>>
  PROVE  LET raw == reading[1].raw
             doc == Semantic!Current(raw)
         IN  DocOK(doc) /\ doc.raw = raw
<1> DEFINE raw == reading[1].raw
<1>1. RawOK(raw) /\ (latest # <<>> => DocOK(latest[1]))
  BY DEF PageType
<1>2. CASE Semantic!Same(raw)
  BY <1>1, <1>2 DEF Semantic!Current, Semantic!Same
<1>3. CASE ~Semantic!Same(raw)
  <2>1. Semantic!Current(raw) = Semantic!MakeDocument(latest, raw)
    BY <1>3 DEF Semantic!Current
  <2>2. latest # <<>> => RawOK(latest[1].raw)
    BY <1>1 DEF DocOK
  <2>3. DocOK(Semantic!MakeDocument(latest, raw)) /\ Semantic!MakeDocument(latest, raw).raw = raw
    <3> HIDE DEF raw
    <3> QED
      BY <1>1, <2>2, MakeIs
  <2> QED
    BY <2>1, <2>3
<1> QED
  BY <1>2, <1>3

LEMMA ContinuesKeeps ==
  ASSUME PageType, MirrorInv, Semantic!Continues, ~strayed'
  PROVE  PageType' /\ MirrorInv'
<1> DEFINE c == cursor[1]
           raw == reading[1].raw
           doc == Semantic!Current(raw)
<1>1. /\ reading # <<>> /\ reading[1].how = "cursor" /\ c.raw = raw /\ latest' = <<doc>>
      /\ Semantic!Merges(doc, c.pos, c.off, Semantic!Upto(doc, c.pos, c.off, reading[1].limit), {})
      /\ doc.emits = c.of /\ reading' = <<>> /\ UNCHANGED <<shown, lost>>
  BY DEF Semantic!Continues
<1>2. DocOK(doc) /\ doc.raw = raw
  BY <1>1, CurrentIs
<1>3. /\ cursor # <<>> /\ CursorOK(c) /\ latest # <<>> /\ DocOK(latest[1]) /\ reading[1].limit \in Nat
      /\ shown \in Documents
  BY <1>1 DEF PageType
<1> HIDE DEF c, raw, doc
<1>4. /\ Len(c.of) \in Nat /\ c.pos \in 1..Len(c.of) /\ c.off \in Nat /\ c.off < Len(TextAt(c.raw, c.of, c.pos))
  BY <1>3, SeqIs DEF CursorOK, RowsOf
<1>5. /\ Semantic!Text(doc, c.pos) = TextAt(c.raw, c.of, c.pos)
      /\ \A j : Semantic!Emitted(doc, j) = KeyOf(c.raw, c.of, j)
  BY <1>1, <1>2 DEF Semantic!Text, TextAt, Semantic!Emitted, KeyOf
<1>6. PlaceOK(doc, c.pos, c.off)
  <2>1. c.pos \in 1..(Len(doc.emits) + 1) /\ c.pos # Len(doc.emits) + 1
    BY <1>1, <1>4
  <2> QED
    BY <1>4, <1>5, <2>1 DEF PlaceOK
<1>7. c.off > 0 /\ Semantic!Emitted(doc, c.pos) \notin lost' =>
           /\ Semantic!Emitted(doc, c.pos) \in DOMAIN mirror
           /\ mirror[Semantic!Emitted(doc, c.pos)] = SubSeq(Semantic!Text(doc, c.pos), 1, c.off)
  BY <1>1, <1>3, <1>5 DEF MirrorInv, c
<1>8. ASSUME NEW key \in (Semantic!KeysOf(doc.raw) \cup (DOMAIN mirror \ {})) \ lost',
             \A j \in c.pos..Len(doc.emits) : key # Semantic!Emitted(doc, j)
      PROVE  Mirrored(mirror, doc.raw, key) /\ key \notin {}
  <2>1. key \notin lost /\ key \notin Semantic!Rest
    BY <1>1, <1>3, <1>5, <1>8, RestIs DEF c
  <2>2. key \in Semantic!KeysOf(c.raw) \cup Semantic!KeysOf(latest[1].raw) => Agree(c.raw, latest[1].raw, key)
    BY <1>3, <2>1 DEF MirrorInv, c
  <2>3. key \in Semantic!KeysOf(c.raw) \/ key \in DOMAIN mirror
    BY <1>1, <1>2, <1>8
  <2>4. key \in Semantic!KeysOf(latest[1].raw) \cup DOMAIN mirror
    BY <2>2, <2>3 DEF Agree
  <2>5. Mirrored(mirror, latest[1].raw, key)
    BY <1>3, <2>1, <2>4 DEF MirrorInv
  <2> QED
    BY <1>1, <1>2, <2>2, <2>5 DEF Mirrored, Agree
<1> QED
  BY <1>1, <1>2, <1>3, <1>6, <1>7, <1>8, MergesKeeps

\* What a new version does not tell is as it was.
LEMMA OldNews ==
  ASSUME PageType, MirrorInv, reading # <<>>, NEW key, ~Semantic!Same(reading[1].raw),
         key \notin lost, key \notin Semantic!Rest,
         key \notin Semantic!EmitsAll(Semantic!Current(reading[1].raw)),
         key \notin Semantic!Current(reading[1].raw).removed,
         key \in Semantic!KeysOf(reading[1].raw) \cup DOMAIN mirror
  PROVE  Mirrored(mirror, reading[1].raw, key)
<1> DEFINE raw == reading[1].raw
           doc == Semantic!Current(raw)
<1>1. RawOK(raw) /\ (latest # <<>> => RawOK(latest[1].raw)) /\ (latest = <<>> => mirror = <<>>)
  BY DEF PageType, DocOK
<1>2. doc = Semantic!MakeDocument(latest, raw)
  BY DEF Semantic!Current
<1>3. /\ \A q \in Semantic!KeysOf(raw) :
           q \notin Semantic!EmitsAll(doc) =>
             /\ latest # <<>> /\ q \in Semantic!KeysOf(latest[1].raw)
             /\ Semantic!TextOf(latest[1].raw, q) = Semantic!TextOf(raw, q)
      /\ doc.removed = IF latest = <<>> THEN {} ELSE Semantic!KeysOf(latest[1].raw) \ Semantic!KeysOf(raw)
  <2> HIDE DEF raw, doc
  <2> QED
    BY <1>1, <1>2, MakeIs
<1> HIDE DEF raw, doc
<1>4. key \in Semantic!KeysOf(raw) \cup DOMAIN mirror /\ key \notin Semantic!EmitsAll(doc) /\ key \notin doc.removed
  BY DEF raw, doc
<1>5. latest # <<>>
  <2>1. mirror = <<>> => DOMAIN mirror = {}
    OBVIOUS
  <2> QED
    BY <1>1, <1>3, <1>4, <2>1
<1>6. key \in Semantic!KeysOf(latest[1].raw) \cup DOMAIN mirror
  BY <1>3, <1>4
<1>7. Mirrored(mirror, latest[1].raw, key)
  BY <1>5, <1>6 DEF MirrorInv
<1>8. key \in Semantic!KeysOf(raw)
  BY <1>3, <1>4, <1>5, <1>7 DEF Mirrored
<1> QED
  BY <1>3, <1>4, <1>7, <1>8 DEF Mirrored, raw

LEMMA ReadsKeeps ==
  ASSUME PageType, MirrorInv, Semantic!Reads
  PROVE  PageType' /\ MirrorInv'
<1> DEFINE raw == reading[1].raw
           doc == Semantic!Current(raw)
<1>1. /\ reading # <<>> /\ ~Semantic!Same(raw) /\ latest' = <<doc>>
      /\ Semantic!Merges(doc, 1, 0, reading[1].limit, doc.removed)
      /\ lost' = (lost \cup Semantic!Rest) \ (Semantic!EmitsAll(doc) \cup doc.removed)
      /\ reading' = <<>> /\ UNCHANGED <<shown, strayed>>
  BY DEF Semantic!Reads
<1>2. DocOK(doc) /\ doc.raw = raw
  BY <1>1, CurrentIs
<1>3. reading[1].limit \in Nat /\ shown \in Documents
  BY <1>1 DEF PageType
<1>4. Len(doc.emits) \in Nat /\ Semantic!Upto(doc, 1, 0, reading[1].limit) = reading[1].limit
  <2>1. Len(doc.emits) \in Nat /\ Semantic!Before(doc, 1) = 0
    BY <1>2, BeforeIs
  <2> QED
    BY <1>3, <2>1 DEF Semantic!Upto
<1>5. PlaceOK(doc, 1, 0)
  BY <1>4 DEF PlaceOK
<1>6. ASSUME NEW key \in (Semantic!KeysOf(doc.raw) \cup (DOMAIN mirror \ doc.removed)) \ lost',
             \A j \in 1..Len(doc.emits) : key # Semantic!Emitted(doc, j)
      PROVE  Mirrored(mirror, doc.raw, key) /\ key \notin doc.removed
  <2>1. DOMAIN doc.emits = 1..Len(doc.emits)
    BY <1>2 DEF DocOK, RowsOf
  <2>2. key \notin Semantic!EmitsAll(doc)
    BY <1>6, <2>1 DEF Semantic!EmitsAll
  <2>3. key \notin doc.removed
    <3>1. CASE key \in DOMAIN mirror \ doc.removed
      BY <3>1
    <3>2. CASE key \in Semantic!KeysOf(raw)
      <4>1. doc.removed = IF latest = <<>> THEN {} ELSE Semantic!KeysOf(latest[1].raw) \ Semantic!KeysOf(raw)
        BY <1>1 DEF Semantic!Current, Semantic!MakeDocument, Semantic!Gone
      <4> HIDE DEF doc
      <4> QED
        BY <3>2, <4>1
    <3> QED
      BY <1>2, <1>6, <3>1, <3>2
  <2>4. key \notin lost /\ key \notin Semantic!Rest
    <3> HIDE DEF doc
    <3> QED
      BY <1>1, <1>6, <2>2, <2>3
  <2>5. key \in Semantic!KeysOf(raw) \cup DOMAIN mirror
    BY <1>2, <1>6
  <2> QED
    BY <1>1, <1>2, <2>2, <2>3, <2>4, <2>5, OldNews
<1> HIDE DEF doc
<1> QED
  BY <1>1, <1>2, <1>3, <1>4, <1>5, <1>6, MergesKeeps

LEMMA ReadsTextKeeps ==
  ASSUME PageType, MirrorInv, Semantic!ReadsText
  PROVE  PageType' /\ MirrorInv'
<1> DEFINE raw == reading[1].raw
           doc == Semantic!Current(raw)
<1>1. /\ reading # <<>> /\ latest' = <<doc>>
      /\ lost' = (IF Semantic!Same(raw) THEN lost ELSE lost \cup Semantic!EmitsAll(doc) \cup doc.removed)
      /\ reading' = <<>> /\ UNCHANGED <<shown, cursor, mirror, strayed>>
  BY DEF Semantic!ReadsText
<1>2. DocOK(doc) /\ doc.raw = raw
  BY <1>1, CurrentIs
<1>3. PageType'
  BY <1>1, <1>2 DEF PageType
<1>4. Semantic!Rest' = Semantic!Rest
  BY <1>1 DEF Semantic!Rest
<1>5. CASE Semantic!Same(raw)
  <2>1. latest # <<>> /\ doc.raw = latest[1].raw /\ lost' = lost /\ latest' # <<>> /\ latest'[1].raw = latest[1].raw
    BY <1>1, <1>5 DEF Semantic!Same, Semantic!Current
  <2> HIDE DEF doc
  <2>2. MirrorInv'
    BY <1>1, <1>4, <2>1 DEF MirrorInv, Agree
  <2> QED
    BY <1>3, <2>2
<1>6. CASE ~Semantic!Same(raw)
  <2>1. /\ lost \subseteq lost' /\ Semantic!EmitsAll(doc) \subseteq lost' /\ doc.removed \subseteq lost'
        /\ latest' # <<>> /\ latest'[1] = doc
    BY <1>1, <1>6
  <2>2. ASSUME NEW key \in Semantic!KeysOf(raw) \cup DOMAIN mirror, key \notin lost', key \notin Semantic!Rest
        PROVE  Mirrored(mirror, raw, key)
    <3>1. key \notin lost /\ key \notin Semantic!EmitsAll(doc) /\ key \notin doc.removed
      BY <2>1, <2>2
    <3> QED
      BY <1>1, <1>6, <2>2, <3>1, OldNews
  <2>3. /\ \A q \in Semantic!KeysOf(raw) :
             q \notin Semantic!EmitsAll(doc) =>
               /\ latest # <<>> /\ q \in Semantic!KeysOf(latest[1].raw)
               /\ Semantic!TextOf(latest[1].raw, q) = Semantic!TextOf(raw, q)
        /\ doc.removed = IF latest = <<>> THEN {} ELSE Semantic!KeysOf(latest[1].raw) \ Semantic!KeysOf(raw)
    <3>1. RawOK(raw) /\ (latest # <<>> => RawOK(latest[1].raw))
      BY <1>1 DEF PageType, DocOK
    <3>2. doc = Semantic!MakeDocument(latest, raw)
      BY <1>6 DEF Semantic!Current
    <3> HIDE DEF raw, doc
    <3> QED
      BY <3>1, <3>2, MakeIs
  <2> HIDE DEF doc, raw
  <2>4. ASSUME cursor # <<>>, NEW key \in Semantic!KeysOf(cursor[1].raw) \cup Semantic!KeysOf(raw), key \notin lost'
        PROVE  Agree(cursor[1].raw, raw, key)
    <3>1. latest # <<>> /\ key \notin lost /\ key \notin Semantic!EmitsAll(doc) /\ key \notin doc.removed
      BY <2>1, <2>4 DEF PageType
    <3>2. key \in Semantic!KeysOf(cursor[1].raw) \cup Semantic!KeysOf(latest[1].raw)
            => Agree(cursor[1].raw, latest[1].raw, key)
      BY <2>4, <3>1 DEF MirrorInv
    <3> QED
      BY <2>3, <2>4, <3>1, <3>2 DEF Agree
  <2>5. MirrorInv'
    <3>1. \A key \in (Semantic!KeysOf(latest'[1].raw) \cup DOMAIN mirror') \ (lost' \cup Semantic!Rest') :
            Mirrored(mirror', latest'[1].raw, key)
      BY <1>1, <1>2, <1>4, <2>1, <2>2
    <3>2. cursor' # <<>> =>
            \A key \in (Semantic!KeysOf(cursor'[1].raw) \cup Semantic!KeysOf(latest'[1].raw)) \ lost' :
              Agree(cursor'[1].raw, latest'[1].raw, key)
      BY <1>1, <1>2, <2>1, <2>4
    <3>3. cursor # <<>> => latest # <<>>
      BY DEF PageType
    <3>4. cursor' # <<>> =>
            LET c == cursor'[1]
                here == KeyOf(c.raw, c.of, c.pos)
            IN  c.off > 0 /\ here \notin lost' =>
                  here \in DOMAIN mirror' /\ mirror'[here] = SubSeq(TextAt(c.raw, c.of, c.pos), 1, c.off)
      BY <1>1, <2>1, <3>3 DEF MirrorInv
    <3> QED
      BY <3>1, <3>2, <3>4 DEF MirrorInv
  <2> QED
    BY <1>3, <2>5
<1> QED
  BY <1>5, <1>6

LEMMA OthersKeep ==
  ASSUME PageType, MirrorInv,
         \/ Semantic!PageChanges \/ Semantic!Evaluate \/ Semantic!Refused \/ Semantic!Unchanged
         \/ UNCHANGED Semantic!readVars
  PROVE  PageType' /\ MirrorInv'
<1>1. CASE /\ UNCHANGED <<latest, cursor, mirror, lost>> /\ shown' \in Documents
           /\ reading' \in {reading, <<>>}
  <2>1. Semantic!Rest' = Semantic!Rest
    BY <1>1 DEF Semantic!Rest
  <2>2. PageType'
    BY <1>1 DEF PageType
  <2>3. MirrorInv'
    BY <1>1, <2>1 DEF MirrorInv, Agree
  <2> QED
    BY <2>2, <2>3
<1>2. CASE Semantic!Evaluate
  <2>1. PICK how \in {"cursor", "new", "offset"}, contentOnly \in BOOLEAN, n \in Budgets :
          /\ how = "cursor" => cursor # <<>>
          /\ reading' = <<[how |-> how, limit |-> n, raw |-> Semantic!Extract(shown, contentOnly)]>>
    BY <1>2 DEF Semantic!Evaluate
  <2>2. UNCHANGED <<shown, latest, cursor, mirror, lost>>
    BY <1>2 DEF Semantic!Evaluate
  <2>3. shown \in Documents
    BY DEF PageType
  <2>4. RawOK(Semantic!Extract(shown, contentOnly)) /\ n \in Nat
    BY <2>3, ExtractIs, BudgetsAssumption
  <2>5. Semantic!Rest' = Semantic!Rest
    BY <2>2 DEF Semantic!Rest
  <2>6. PageType'
    BY <2>1, <2>2, <2>4 DEF PageType
  <2>7. MirrorInv'
    BY <2>2, <2>5 DEF MirrorInv, Agree
  <2> QED
    BY <2>6, <2>7
<1>3. CASE Semantic!Refused
  <2>1. cursor' = <<>> /\ lost' = lost \cup Semantic!Rest /\ reading' = <<>> /\ UNCHANGED <<shown, latest, mirror>>
    BY <1>3 DEF Semantic!Refused
  <2>2. Semantic!Rest' = {}
    BY <2>1 DEF Semantic!Rest
  <2>3. PageType'
    BY <2>1 DEF PageType
  <2>4. MirrorInv'
    BY <2>1, <2>2 DEF MirrorInv
  <2> QED
    BY <2>3, <2>4
<1>4. shown \in Documents
  BY DEF PageType
<1> QED
  BY <1>1, <1>2, <1>3, <1>4 DEF Semantic!PageChanges, Semantic!Unchanged, Semantic!readVars

LEMMA ReadStep == ReadInv /\ [Semantic!Next]_(Semantic!readVars) => ReadInv'
<1> SUFFICES ASSUME ReadInv, [Semantic!Next]_(Semantic!readVars), ~strayed' PROVE PageType' /\ MirrorInv'
  BY DEF ReadInv
<1>1. ~strayed
  BY DEF Semantic!Next, Semantic!PageChanges, Semantic!Evaluate, Semantic!Refused, Semantic!Continues,
         Semantic!Unchanged, Semantic!Reads, Semantic!ReadsText, Semantic!readVars
<1>2. PageType /\ MirrorInv
  BY <1>1 DEF ReadInv
<1> QED
  BY <1>2, ContinuesKeeps, ReadsKeeps, ReadsTextKeeps, OthersKeep DEF Semantic!Next

\* A caller that follows its cursors to their end has the version of the document the cache has,
\* block for block, but for the blocks whose news it has dropped itself.
THEOREM TheMirrorIsThePage == Semantic!Spec => []MirrorIsThePage
<1>1. Semantic!Init => ReadInv
  BY DEF Semantic!Init, ReadInv, PageType, MirrorInv
<1>2. ReadInv => MirrorIsThePage
  BY RestIs DEF ReadInv, MirrorInv, MirrorIsThePage, Semantic!MirrorIsThePage, Mirrored
<1> QED
  BY <1>1, <1>2, ReadStep, PTL DEF Semantic!Spec

-----------------------------------------------------------------------------
(* The parts side by side.                                                 *)

\* A step of one part is a stutter of each other part.
LEMMA PartsStep ==
  ASSUME [WorkNext]_<<part, below, above>>
  PROVE  /\ [Form!Next]_(Form!formVars) /\ [Box!Next]_(Box!pickVars)
         /\ [Session!Next]_(Session!sessVars) /\ [Application!Next]_(Application!runVars)
         /\ [Recorder!Next]_(Recorder!recVars) /\ [Dash!Next]_(Dash!dashVars) /\ [Store!Next]_(Store!storeVars)
         /\ [Popup!Next]_(Popup!popupVars) /\ [Semantic!Next]_(Semantic!readVars)
         /\ [Batch!Next]_(Batch!runVars) \/ [OneShot!Next]_(OneShot!runVars)
<1> USE DEF below, above, form, box, popup, batch, semantic, session, application, recording, dashboard, store,
            Form!formVars, Box!pickVars, Batch!runVars, OneShot!runVars, Session!sessVars, Application!runVars,
            Recorder!recVars, Dash!dashVars, Store!storeVars, Popup!popupVars, Semantic!readVars
<1>1. CASE Fills
  BY <1>1 DEF Fills
<1>2. CASE Picks
  BY <1>2 DEF Picks
<1>3. CASE Cleans
  BY <1>3 DEF Cleans
<1>4. CASE Runs
  BY <1>4 DEF Runs
<1>5. CASE Drives
  BY <1>5 DEF Drives
<1>6. CASE Reads
  BY <1>6 DEF Reads
<1>7. CASE Applies
  BY <1>7 DEF Applies
<1>8. CASE Records
  BY <1>8 DEF Records
<1>9. CASE Serves
  BY <1>9 DEF Serves
<1>10. CASE Keeps
  BY <1>10 DEF Keeps
<1>11. CASE UNCHANGED <<part, below, above>>
  BY <1>11
<1> QED
  BY <1>1, <1>2, <1>3, <1>4, <1>5, <1>6, <1>7, <1>8, <1>9, <1>10, <1>11 DEF WorkNext

\* Whatever is said above of a part holds of it where the parts are put side by side, as the run
\* work checks them: the step of a part is its own, and it moves in no other's.
THEOREM SideBySide ==
  WorkSpec => /\ []NumbersAreEarned /\ []EvidenceIsLeft /\ []NoTabForgotten /\ []PostingIsVisited
              /\ []LineIsItsCalls /\ []AmberIsLive /\ []RefIsGood /\ []MirrorIsThePage
              /\ OwnListFirst /\ NoneEscapes
<1>1. WorkInit => /\ Form!Init /\ Box!Init /\ Session!Init /\ Application!Init /\ Recorder!Init
                  /\ Dash!Init /\ Store!Init /\ Batch!Init /\ Popup!Init
                  /\ Semantic!Init
  BY DEF WorkInit
<1>2. [WorkNext]_<<part, below, above>> => [Form!Next]_(Form!formVars)
  BY PartsStep
<1>3. [WorkNext]_<<part, below, above>> => [Box!Next]_(Box!pickVars)
  BY PartsStep
<1>4. [WorkNext]_<<part, below, above>> => [Session!Next]_(Session!sessVars)
  BY PartsStep
<1>5. [WorkNext]_<<part, below, above>> => [Application!Next]_(Application!runVars)
  BY PartsStep
<1>6. [WorkNext]_<<part, below, above>> => [Recorder!Next]_(Recorder!recVars)
  BY PartsStep
<1>7. [WorkNext]_<<part, below, above>> => [Dash!Next]_(Dash!dashVars)
  BY PartsStep
<1>8. [WorkNext]_<<part, below, above>> => [Store!Next]_(Store!storeVars)
  BY PartsStep
<1>9. RunInv /\ [WorkNext]_<<part, below, above>> => RunInv'
  BY PartsStep, RunStep, OneShotStep
<1>10. RunInv => EvidenceIsLeft
  BY DEF RunInv, WorkerInv, Evidence, EvidenceIsLeft, Batch!EvidenceIsLeft, Batch!Over
<1>11. WorkSpec => []NumbersAreEarned
  BY <1>1, <1>2, NumbersWereRead, PTL DEF WorkSpec, Form!Spec
<1>12. WorkSpec => OwnListFirst
  BY <1>1, <1>3, OwnListComesFirst, PTL DEF WorkSpec, Box!Spec
<1>13. WorkSpec => []NoTabForgotten
  BY <1>1, <1>4, NoTabIsForgotten, PTL DEF WorkSpec, Session!Spec
<1>14. WorkSpec => []PostingIsVisited
  BY <1>1, <1>5, ThePostingIsVisited, PTL DEF WorkSpec, Application!Spec
<1>15. WorkSpec => []LineIsItsCalls
  BY <1>1, <1>6, LinesAreTheirCalls, PTL DEF WorkSpec, Recorder!Spec
<1>16. WorkSpec => []AmberIsLive
  BY <1>1, <1>7, AmberIsFilled, PTL DEF WorkSpec
<1>17. WorkSpec => []RefIsGood
  BY <1>1, <1>8, ReferencesAreGood, PTL DEF WorkSpec, Store!Spec
<1>18. WorkSpec => []EvidenceIsLeft
  BY <1>1, <1>9, <1>10, RunStarts, PTL DEF WorkSpec
<1>19. [WorkNext]_<<part, below, above>> => [Popup!Next]_(Popup!popupVars)
  BY PartsStep
<1>20. WorkSpec => NoneEscapes
  BY <1>1, <1>19, NoPopupEscapes, PTL DEF WorkSpec, Popup!Spec
<1>21. [WorkNext]_<<part, below, above>> => [Semantic!Next]_(Semantic!readVars)
  BY PartsStep
<1>22. WorkSpec => []MirrorIsThePage
  BY <1>1, <1>21, TheMirrorIsThePage, PTL DEF WorkSpec, Semantic!Spec
<1> QED
  BY <1>11, <1>12, <1>13, <1>14, <1>15, <1>16, <1>17, <1>18, <1>20, <1>22

=============================================================================
