---------------------------- MODULE ActionRecorder ----------------------------
(***************************************************************************)
(* The journal of a session (harness/core/journal.py) with the recorder    *)
(* that hangs on it (evidence/record.py, evidence/recording.py): threads   *)
(* run calls, nested in each other; when one ends it is journalled, and    *)
(* the recorder, if there is one, has taken a picture of its tab.          *)
(*                                                                         *)
(* The guard `busy` is not modelled: the only call made during a capture   *)
(* is `screenshot`, which gets no frame anyway.                            *)
(***************************************************************************)
EXTENDS Naturals, Sequences, FiniteSets

CONSTANTS
  Actors,        \* threads that drive the browser
  Views,         \* tabs
  MaxSpans,      \* calls (a bound)
  MaxRecordings  \* recordings (a bound)

VARIABLES
  stack,     \* per thread: the spans that are open
  chosen,    \* per thread: its current tab, or NoView
  closing,   \* per thread: where the end of its call is, with the payload so far
  spans,     \* _n
  owner,     \* history: the thread of each span
  journal,   \* the recording that journal.path is in, 0 for none
  hook,      \* the recording whose recorder is on_call, 0 for none
  profile,   \* of each recording there has been
  allocated, \* per recording: _allocated
  disk,      \* the frames: [dir, name, span, view]
  lines      \* of all the journals

recVars == <<stack, chosen, closing, spans, owner, journal, hook, profile, allocated, disk, lines>>
threadVars == <<stack, chosen, closing>>
recorderVars == <<journal, hook, profile, allocated>>

NoView == "no view"
NoSpan == [id |-> 0, fn |-> "none"]
Helpers == {"click", "select", "read"}
Actions == {"click"}                       \* ACTIONS
ConsequenceActions == {"click", "select"}  \* CONSEQUENCE_ACTIONS
Recordings == 1..MaxRecordings

Idle == [at |-> "no", span |-> 0, parent |-> 0, by |-> 0, view |-> NoView, frame |-> 0]

TypeOK ==
  /\ \A t \in Actors : Len(stack[t]) <= 2 /\ chosen[t] \in Views \cup {NoView}
  /\ spans \in 0..MaxSpans /\ DOMAIN owner = 1..spans
  /\ journal \in Len(profile)..MaxRecordings /\ hook \in {0, Len(profile)}
  /\ \A t \in Actors : closing[t].at \in {"no", "settle", "shoot", "write"}

Init ==
  /\ stack = [t \in Actors |-> <<>>] /\ closing = [t \in Actors |-> Idle]
  /\ chosen = [t \in Actors |-> NoView]
  /\ spans = 0 /\ owner = <<>>
  /\ journal = 0 /\ hook = 0 /\ profile = <<>> /\ allocated = [r \in Recordings |-> 0]
  /\ disk = {} /\ lines = {}

-----------------------------------------------------------------------------
(* start_recording() and stop_recording(): one recording at a time.        *)

\* The journal is moved first, then the recorder takes the hook.
Move ==
  /\ hook = 0 /\ journal = Len(profile) /\ journal < MaxRecordings
  /\ journal' = journal + 1
  /\ UNCHANGED <<threadVars, spans, owner, hook, profile, allocated, disk, lines>>
Install ==
  /\ journal > Len(profile) /\ hook' = journal
  /\ \E p \in {"evidence", "review", "cinematic"} : profile' = Append(profile, p)
  /\ UNCHANGED <<threadVars, spans, owner, journal, allocated, disk, lines>>

\* The journal stays where it is.
StopRecording ==
  /\ hook # 0 /\ hook' = 0
  /\ UNCHANGED <<threadVars, spans, owner, journal, profile, allocated, disk, lines>>

-----------------------------------------------------------------------------
(* Journal.call()                                                          *)

\* next_id() and a span on the stack of the thread.
Begin(t) ==
  /\ closing[t].at = "no" /\ Len(stack[t]) < 2 /\ spans < MaxSpans
  /\ \E fn \in Helpers :
       stack' = [stack EXCEPT ![t] = Append(@, [id |-> spans + 1, fn |-> fn])]
  /\ spans' = spans + 1 /\ owner' = Append(owner, t)
  /\ UNCHANGED <<chosen, closing, recorderVars, disk, lines>>

\* _on_call(): whether this call gets a picture.
Pictured(fn, parent, view) ==
  /\ hook # 0 /\ fn \in ConsequenceActions
  /\ profile[hook] = "review" => fn \in Actions
  /\ profile[hook] = "evidence" => parent.fn \notin ConsequenceActions
  /\ view # NoView

Top(s) == IF s = <<>> THEN NoSpan ELSE s[Len(s)]
Popped(s) == SubSeq(s, 1, Len(s) - 1)

\* The span is popped, its parent is what is innermost then; the tab is bound before the wait.
End(t) ==
  /\ closing[t].at = "no" /\ stack[t] # <<>>
  /\ LET span == Top(stack[t])
         parent == Top(Popped(stack[t]))
         pictured == Pictured(span.fn, parent, chosen[t])
     IN closing' = [closing EXCEPT ![t] =
                      [at |-> IF pictured THEN "settle" ELSE "write", span |-> span.id, parent |-> parent.id,
                       by |-> IF pictured THEN hook ELSE 0, view |-> chosen[t], frame |-> 0]]
  /\ stack' = [stack EXCEPT ![t] = Popped(@)]
  /\ UNCHANGED <<chosen, spans, owner, recorderVars, disk, lines>>

\* _capture(): the name is given under the lock.
AllocateLate(t) ==          \* mutant: it is the number of frames there are, and one
  /\ closing[t].at = "settle"
  /\ closing' = [closing EXCEPT ![t].at = "shoot",
                   ![t].frame = 1 + Cardinality({f \in disk : f.dir = closing[t].by})]
  /\ UNCHANGED <<stack, chosen, spans, owner, recorderVars, disk, lines>>
Allocate(t) ==
  /\ closing[t].at = "settle"
  /\ LET r == closing[t].by
     IN /\ allocated' = [allocated EXCEPT ![r] = @ + 1]
        /\ closing' = [closing EXCEPT ![t].at = "shoot", ![t].frame = allocated[r] + 1]
  /\ UNCHANGED <<stack, chosen, spans, owner, journal, hook, profile, disk, lines>>

\* The screenshot of the tab is written, or it fails and the call is left without a frame.
Shoot(t) ==
  /\ closing[t].at = "shoot"
  /\ LET c == closing[t]
     IN \/ /\ disk' = {f \in disk : f.dir # c.by \/ f.name # c.frame}
                      \cup {[dir |-> c.by, name |-> c.frame, span |-> c.span, view |-> c.view]}
           /\ closing' = [closing EXCEPT ![t].at = "write"]
        \/ closing' = [closing EXCEPT ![t].at = "write", ![t].frame = 0] /\ UNCHANGED disk
  /\ UNCHANGED <<stack, chosen, spans, owner, recorderVars, lines>>

\* write(): a line in the journal that there is by now.
Write(t) ==
  /\ closing[t].at = "write"
  /\ LET c == closing[t]
     IN lines' = lines \cup {[dir |-> journal, thread |-> t, id |-> c.span, parent |-> c.parent,
                              by |-> c.by, frame |-> c.frame, view |-> c.view]}
  /\ closing' = [closing EXCEPT ![t] = Idle]
  /\ UNCHANGED <<stack, chosen, spans, owner, recorderVars, disk>>

\* Between its calls a thread may turn to another tab.
Turn(t) ==
  /\ closing[t].at = "no" /\ stack[t] = <<>>
  /\ \E v \in Views \ {chosen[t]} : chosen' = [chosen EXCEPT ![t] = v]
  /\ UNCHANGED <<stack, closing, spans, owner, recorderVars, disk, lines>>

Next ==
  \/ Move \/ Install \/ StopRecording
  \/ \E t \in Actors : Begin(t) \/ End(t) \/ Allocate(t) \/ Shoot(t) \/ Write(t) \/ Turn(t)
Spec == Init /\ [][Next]_recVars

-----------------------------------------------------------------------------
(* Properties.                                                             *)

FrameIsItsCalls ==
  \A l \in lines : l.frame # 0 =>
    \E f \in disk : f.dir = l.by /\ f.name = l.frame /\ f.span = l.id /\ f.view = l.view

ParentIsOwn ==
  \A l \in lines : l.parent # 0 => owner[l.parent] = l.thread /\ l.parent < l.id

\* What a line says is about its call, whoever else was calling and taking pictures: the frame
\* it names was taken for that call, of the tab its thread was driving, by the recorder that
\* gave it its number; and its parent is an earlier call of its own thread ("a shared stack
\* would record thread A's js() as a child of thread B's goto()", journal.py:110-111).
LineIsItsCalls == FrameIsItsCalls /\ ParentIsOwn

-----------------------------------------------------------------------------
(* What the source says and the code does not do.                          *)

\* "The journal is *moved* into the recording directory, so the frames and the calls that
\* produced them are one artifact" (record.py:269-270).
FrameIsBeside == \A l \in lines : l.frame # 0 => l.dir = l.by
=============================================================================
