---------------------------- MODULE PageNavigation ----------------------------
(***************************************************************************)
(* One Tab.goto(): harness/ops/page.py.                                    *)
(*                                                                         *)
(* The reader thread appends what the browser announces to the waiter's    *)
(* `hits`, with the time; the caller consumes them in order, decides       *)
(* whether the document may be read before its load event, probes it, and  *)
(* consumes again what raced the probe.  An answer follows on the wire     *)
(* whatever was announced before it, so an event has been buffered by the  *)
(* time a later answer is seen.  Time is counted in ticks of               *)
(* NAVIGATION_QUIET, and passes only while the caller waits for something. *)
(***************************************************************************)
EXTENDS Naturals, Sequences, FiniteSets

CONSTANTS
  Deadline,    \* timeout
  GraceMax,    \* usable_after
  Quiet, Stable, ReprobeMax,   \* the NAVIGATION_ constants
  Requests,    \* requests of the page
  MaxHits,     \* events (a bound)
  MaxRenders,  \* times the document changes by itself (a bound)
  Patience     \* how many ticks of stillness are counted (0: none are)

VARIABLES
  stage,       \* where the call is
  clock,
  mode,        \* what the caller asked for: [strict, until, grace]
  loader,      \* the loader the answer to Page.navigate named, 0 if none
  hits,        \* _Waiter.hits
  cursor,      \* how many of them are consumed
  k,           \* the local variables of goto()
  page,        \* the browser: its document, the navigations it was given, its renders
  flying,      \* the browser: the data requests in flight, with their loaders
  seenAt,      \* history: `flying` and the document when the last probe was answered, and before that
  still,       \* history: ticks since the document or the network changed, or a probe failed
  lifecycle    \* what goto() returned or raised

navVars == <<stage, clock, mode, loader, hits, cursor, k, page, flying, seenAt, still, lifecycle>>

Docs == {"unready", "shell", "full"}   \* still parsed, or empty; usable; changed since
Usable(d) == d \in {"shell", "full"}
MinOf(S) == CHOOSE x \in S : \A y \in S : x <= y
MaxOf(S) == CHOOSE x \in S : \A y \in S : x >= y

\* _adaptive_navigation_grace(): earlier exact navigations may shorten the grace, within
\* [1, 3] ticks; one alone may not.
AdaptiveGrace(ceiling, milestones) ==
  IF Len(milestones) < 2 THEN ceiling
  ELSE MinOf({ceiling, 3, MaxOf({1, MaxOf({milestones[i] : i \in DOMAIN milestones}) + 1})})

Fresh ==
  [exact |-> FALSE, seen |-> {}, requests |-> {}, critical |-> {}, activity |-> 0, epoch |-> 0,
   settled |-> FALSE, first |-> {}, lastEpoch |-> {}, reprobe |-> {}, pause |-> 1,
   before |-> 0, wake |-> 0, early |-> "no"]

TypeOK ==
  /\ stage \in {"idle", "navigate", "revive", "again", "loop", "sleep", "probe", "judge",
                "conclude", "lastprobe", "lastjudge", "landing", "done"}
  /\ clock \in 0..(Deadline + 1)
  /\ loader \in 0..2 /\ cursor \in 0..Len(hits)
  /\ k.critical \subseteq k.requests
  /\ page.doc \in Docs /\ page.issued \in 0..2
  /\ lifecycle \in {"none", "load", "settled", "usable", "timeout", "Timeout", "Failed"}

Init ==
  /\ stage = "idle" /\ clock = 0 /\ loader = 0
  /\ mode = [strict |-> FALSE, until |-> "load", grace |-> 0]
  /\ hits = <<>> /\ cursor = 0 /\ k = Fresh
  /\ page = [doc |-> "unready", issued |-> 0, renders |-> 0] /\ flying = {}
  /\ seenAt = [flying |-> {}, doc |-> "unready", prior |-> "unready"]
  /\ still = 0 /\ lifecycle = "none"

browserVars == <<page, flying, seenAt, still>>

-----------------------------------------------------------------------------
(* What the caller makes of the events.                                    *)

FallbackEnabled == loader # 0 /\ mode.until = "load" /\ ~mode.strict

\* consume(): new activity, from which every pending judgement starts over.
Active(s, at) ==
  [s EXCEPT !.activity = at, !.epoch = @ + 1, !.first = {}, !.reprobe = {}, !.pause = 1]

OnLifecycle(s, e) ==
  LET seen == s.seen \cup {e.name}
      noted == [s EXCEPT !.seen = seen,
                         !.exact = @ \/ e.name = mode.until,
                         !.settled = @ \/ (FallbackEnabled /\ {"parsed", "idle"} \subseteq seen)]
  IN IF e.name = "idle" THEN Active(noted, e.at) ELSE noted

Consume(s, e) ==
  CASE e.kind = "lifecycle" /\ (IF loader # 0 THEN e.loader = loader ELSE e.name = mode.until) ->
         OnLifecycle(s, e)
    [] e.kind = "sent" /\ loader # 0 /\ e.loader = loader ->
         Active([s EXCEPT !.requests = @ \cup {e.id},
                          !.critical = IF e.data THEN @ \cup {e.id} ELSE @ \ {e.id}], e.at)
    [] e.kind = "ended" /\ e.id \in s.requests ->
         Active([s EXCEPT !.requests = @ \ {e.id}, !.critical = @ \ {e.id}], e.at)
    [] OTHER -> s

\* take_event(0.0): everything that is buffered, one event after the other.
Consumed[n \in cursor..Len(hits)] == IF n = cursor THEN k ELSE Consume(Consumed[n - 1], hits[n])
Taken == Consumed[Len(hits)]

MayProbe(s) == FallbackEnabled /\ (s.settled \/ clock >= mode.grace)
IsQuiet(s)  == clock - s.activity >= Quiet

DueProbe(s) ==
  /\ MayProbe(s) /\ s.critical = {} /\ IsQuiet(s)
  /\ \/ \E f \in s.first : clock - f.at >= Stable
     \/ s.first = {} /\ (s.lastEpoch # {s.epoch} \/ \E t \in s.reprobe : clock >= t)

WakeAt(s) ==
  MinOf({Deadline} \cup
        IF ~FallbackEnabled THEN {}
        ELSE IF ~(s.settled \/ clock >= mode.grace) THEN {mode.grace}
        ELSE IF s.critical # {} THEN {}
        ELSE IF ~IsQuiet(s) THEN {s.activity + Quiet}
        ELSE IF s.first # {} THEN {f.at + Stable : f \in s.first}
        ELSE s.reprobe)

-----------------------------------------------------------------------------
(* goto()                                                                  *)

\* The waiter is armed before Page.navigate is sent.
Begin ==
  /\ stage = "idle"
  /\ \/ \E past \in {<<1>>, <<0, 0>>} :
          mode' = [strict |-> FALSE, until |-> "load", grace |-> AdaptiveGrace(GraceMax, past)]
     \/ mode' = [strict |-> TRUE, until |-> "load", grace |-> Deadline]
     \/ mode' = [strict |-> FALSE, until |-> "parsed", grace |-> GraceMax]
  /\ stage' = "navigate"
  /\ UNCHANGED <<clock, loader, hits, cursor, k, browserVars, lifecycle>>

\* The waiter and the local variables go with the call.
End(how) == stage' = "done" /\ lifecycle' = how /\ hits' = <<>> /\ cursor' = 0 /\ k' = Fresh
Stay(s) == stage' = s /\ UNCHANGED <<lifecycle, hits, cursor, k>>

\* The browser starts over with an empty document; its answer names the loader, or none
\* when the document stays (a fragment), or an error.
Navigate ==
  /\ stage \in {"navigate", "again"}
  /\ \/ /\ page' = [page EXCEPT !.doc = "unready", !.issued = @ + 1]
        /\ loader' = page.issued + 1 /\ still' = 0
        /\ Stay("loop")
     \/ loader' = 0 /\ Stay("loop") /\ UNCHANGED <<page, still>>
     \/ End("Failed") /\ UNCHANGED <<loader, page, still>>
  /\ UNCHANGED <<clock, mode, flying, seenAt>>

\* No answer: the navigation may have been carried out all the same.
NavigateUnanswered ==
  /\ stage \in {"navigate", "again"}
  /\ \/ page' = [page EXCEPT !.doc = "unready", !.issued = @ + 1] /\ still' = 0
     \/ UNCHANGED <<page, still>>
  /\ IF stage = "navigate" THEN Stay("revive") ELSE End("Timeout")
  /\ UNCHANGED <<clock, mode, loader, flying, seenAt>>

\* ensure_renderer()
Revive ==
  /\ stage = "revive"
  /\ Stay("again") \/ End("Timeout")
  /\ UNCHANGED <<clock, mode, loader, browserVars>>

\* The loop: whatever is buffered is consumed, and then the document is probed, or the
\* caller sleeps until the next event or the next thing it has to do.
Look ==
  /\ stage = "loop" \/ (stage = "sleep" /\ (cursor < Len(hits) \/ clock >= k.wake))
  /\ LET s == [Taken EXCEPT !.wake = 0]
     IN IF clock >= Deadline \/ s.exact THEN stage' = "conclude" /\ k' = s
        ELSE IF DueProbe(s) THEN stage' = "probe" /\ k' = [s EXCEPT !.before = s.epoch]
        ELSE stage' = "sleep" /\ k' = [s EXCEPT !.wake = WakeAt(s)]
  /\ cursor' = Len(hits)
  /\ UNCHANGED <<clock, mode, loader, hits, browserVars, lifecycle>>

\* _document_readiness(): the page answers, or it fails, which reads as unusable.
Probe ==
  /\ stage \in {"probe", "lastprobe"}
  /\ \E answered \in BOOLEAN :
       /\ seenAt' = [flying |-> {f \in flying : f.loader = loader},
                     doc |-> IF answered THEN page.doc ELSE "unready", prior |-> seenAt.doc]
       /\ still' = IF answered THEN still ELSE 0
  /\ stage' = IF stage = "probe" THEN "judge" ELSE "lastjudge"
  /\ UNCHANGED <<clock, mode, loader, hits, cursor, k, page, flying, lifecycle>>

\* What raced the probe is consumed before the answer is believed.
Weigh(s) ==
  LET p == [s EXCEPT !.lastEpoch = {s.epoch}]
  IN IF s.critical # {} \/ s.epoch # s.before \/ ~IsQuiet(s) THEN [p EXCEPT !.first = {}]
     ELSE IF ~Usable(seenAt.doc)
     THEN [p EXCEPT !.first = {}, !.reprobe = {clock + s.pause},
                    !.pause = MinOf({ReprobeMax, 2 * @})]
     ELSE IF \E f \in s.first : f.doc = seenAt.doc /\ f.epoch = s.epoch
     THEN [p EXCEPT !.early = IF s.settled THEN "settled" ELSE "usable"]
     ELSE [p EXCEPT !.first = {[at |-> clock, doc |-> seenAt.doc, epoch |-> s.epoch]}]

JudgeBlindly ==   \* mutant: what raced the probe is not consumed
  /\ stage = "judge"
  /\ k' = Weigh(k)
  /\ stage' = IF k'.early # "no" THEN "conclude" ELSE "loop"
  /\ UNCHANGED <<clock, mode, loader, hits, cursor, browserVars, lifecycle>>

Judge ==
  /\ stage = "judge"
  /\ LET s == Taken
     IN /\ k' = IF s.exact THEN s ELSE Weigh(s)
        /\ stage' = IF s.exact \/ k'.early # "no" THEN "conclude" ELSE "loop"
  /\ cursor' = Len(hits)
  /\ UNCHANGED <<clock, mode, loader, hits, browserVars, lifecycle>>

Lands(how) ==
  /\ stage' = "landing" /\ lifecycle' = how
  /\ hits' = <<>> /\ cursor' = 0 /\ k' = Fresh

\* Out of the loop: an exact event that has come meanwhile wins.
Conclude ==
  /\ stage = "conclude"
  /\ IF Taken.exact THEN Lands("load")
     ELSE IF k.early # "no" THEN Lands(k.early)
     ELSE k' = Taken /\ cursor' = Len(hits) /\ stage' = "lastprobe" /\ UNCHANGED <<hits, lifecycle>>
  /\ UNCHANGED <<clock, mode, loader, browserVars>>

LastJudge ==
  /\ stage = "lastjudge"
  /\ IF Taken.exact THEN Lands("load")
     ELSE IF Usable(seenAt.doc) THEN Lands("timeout")
     ELSE End("Timeout")
  /\ UNCHANGED <<clock, mode, loader, browserVars>>

\* The page may turn out to be the browser's error page.
Landing ==
  /\ stage = "landing"
  /\ stage' = "done"
  /\ lifecycle' \in {lifecycle, "Failed"}
  /\ UNCHANGED <<clock, mode, loader, hits, cursor, k, browserVars>>

Goto ==
  \/ Begin \/ Navigate \/ NavigateUnanswered \/ Revive \/ Look \/ Probe \/ Judge
  \/ Conclude \/ LastJudge \/ Landing

-----------------------------------------------------------------------------
(* The browser, through the reader thread: _Waiter.offer().                *)

\* (Between two waits of the caller nothing needs to arrive: it may have arrived before.)
Armed == stage \notin {"idle", "loop", "landing", "done"} /\ Len(hits) < MaxHits

Offer(e) == hits' = Append(hits, e)

Lifecycle ==
  /\ Armed
  /\ \E n \in {"parsed", "idle", "load"}, l \in 1..page.issued :
       /\ n \notin {hits[i].name : i \in {j \in DOMAIN hits : hits[j].kind = "lifecycle" /\ hits[j].loader = l}}
       /\ Offer([kind |-> "lifecycle", name |-> n, loader |-> l, at |-> clock])
       /\ still' = IF n = "idle" THEN 0 ELSE still
  /\ UNCHANGED <<stage, clock, mode, loader, cursor, k, page, flying, seenAt, lifecycle>>

\* A redirect announces the same request again, of another kind perhaps.
RequestSent ==
  /\ Armed
  /\ \E id \in Requests, l \in 1..page.issued, data \in BOOLEAN :
       /\ \A f \in flying : f.id = id => f.loader = l
       /\ Offer([kind |-> "sent", id |-> id, loader |-> l, data |-> data, at |-> clock])
       /\ flying' = {f \in flying : f.id # id} \cup (IF data THEN {[id |-> id, loader |-> l]} ELSE {})
  /\ still' = 0
  /\ UNCHANGED <<stage, clock, mode, loader, cursor, k, page, seenAt, lifecycle>>

RequestEnded ==
  /\ Armed
  /\ \E i \in DOMAIN hits :
       /\ hits[i].kind = "sent"
       /\ Offer([kind |-> "ended", id |-> hits[i].id, at |-> clock])
       /\ flying' = {f \in flying : f.id # hits[i].id}
  /\ still' = 0
  /\ UNCHANGED <<stage, clock, mode, loader, cursor, k, page, seenAt, lifecycle>>

Renders ==
  /\ stage \notin {"loop", "conclude", "landing", "done"} /\ page.issued > 0 /\ page.renders < MaxRenders
  /\ \E d \in Docs \ {"unready", page.doc} :
       page' = [page EXCEPT !.doc = d, !.renders = @ + 1]
  /\ still' = 0
  /\ UNCHANGED <<stage, clock, mode, loader, hits, cursor, k, flying, seenAt, lifecycle>>

\* Time passes only while the caller waits.
Tick ==
  /\ clock <= Deadline
  /\ stage = "sleep" /\ cursor = Len(hits) /\ clock < k.wake
  /\ clock' = clock + 1
  /\ still' = MinOf({Patience, still + 1})
  /\ UNCHANGED <<stage, mode, loader, hits, cursor, k, page, flying, seenAt, lifecycle>>

Browser == Lifecycle \/ RequestSent \/ RequestEnded \/ Renders
Next == Goto \/ Browser \/ Tick

Spec == Init /\ [][Next]_navVars

-----------------------------------------------------------------------------
(* Properties.                                                             *)

\* A goto() that returns before the load event has looked twice at the same usable
\* document, and no data request of this navigation that had been announced by the second
\* look was under way.
EarlyIsEarned ==
  lifecycle \in {"settled", "usable"} =>
    /\ ~mode.strict
    /\ seenAt.flying = {}
    /\ Usable(seenAt.doc) /\ seenAt.doc = seenAt.prior

\* The load event of this navigation, once delivered, is never overruled: not by an early
\* return decided on an older view, not by the deadline.
ExactWins ==
  [][lifecycle = "none" /\ lifecycle' \notin {"none", "load", "Failed"} /\ stage \notin {"again", "revive"} =>
       \A i \in DOMAIN hits :
         ~(hits[i].kind = "lifecycle" /\ hits[i].name = mode.until /\ loader \in {0, hits[i].loader})]_navVars

-----------------------------------------------------------------------------
(* What the source says and the code does not do.                          *)

\* A document that has been usable, and the network still, for longer than the longest pause
\* between two looks and the two looks take, is not waited for until the deadline
\* (page.py:2102 "Ask again on a timer as well as on new traffic, so a document that renders
\* from script it already holds is not judged once and dropped").
SteadyIsSeen ==
  lifecycle = "timeout" /\ FallbackEnabled /\ flying = {} =>
    still < Patience \/ Deadline - mode.grace < Patience
=============================================================================
