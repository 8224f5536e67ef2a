------------------------------- MODULE PageWatch -------------------------------
(***************************************************************************)
(* Waiting for a condition in the page: wait_for(), wait_for_form(),       *)
(* watch_document() and _unwatch() of harness/ops/page.py with the scripts *)
(* they run.  A probe that finds the condition false leaves an observer in *)
(* the document; its callback reports through a binding and ends it.       *)
(*                                                                         *)
(* Events and answers come in the order the browser sent them.             *)
(***************************************************************************)
EXTENDS Naturals, Sequences

CONSTANTS
  MaxDocs,   \* documents the tab ever shows (a bound)
  MaxCalls,  \* waits, one after the other (a bound)
  MaxEvents  \* events under way or held (a bound)

VARIABLES
  shown,     \* the document shown
  holds,     \* the condition holds in it
  changed,   \* it has changed, and the callbacks have not run
  running,   \* wait -> its observers that run in the document
  stream,    \* events and answers under way
  wait,      \* the call: its number, kind and what it is about to do
  flagged,   \* its `armed`: there is an observer to take down
  hits       \* events its waiter holds and has not consumed

watchVars == <<shown, holds, changed, running, stream, wait, flagged, hits>>
pageVars == <<shown, holds, changed, running>>

Calls == 1..MaxCalls
\* wait_for(); wait_for_form(), which a binding ends; the state of the application, where a
\* binding is one more reason to look.
Kinds == {"selector", "form", "state"}
Goes(p) == wait' = [wait EXCEPT !.pc = p]
In(p) == wait.pc = p
Emits(e) == Len(stream) + Len(hits) + Len(e) <= MaxEvents /\ stream' = stream \o e

TypeOK ==
  /\ shown \in 1..MaxDocs
  /\ {holds, changed, flagged} \subseteq BOOLEAN
  /\ running \in [Calls -> Nat]
  /\ wait \in [n : 0..MaxCalls, kind : Kinds, pc : {"idle", "probe", "asked", "wait", "unwatch"},
               result : {"none", "terminal", "binding", "stable", "timeout", "raised"}]

Init ==
  /\ shown = 1 /\ holds \in BOOLEAN /\ changed = FALSE
  /\ running = [c \in Calls |-> 0]
  /\ stream = <<>> /\ hits = <<>> /\ flagged = FALSE
  /\ wait = [n |-> 0, kind |-> "form", pc |-> "idle", result |-> "none"]

-----------------------------------------------------------------------------
(* The page.                                                               *)

Changes ==
  /\ holds' \in BOOLEAN
  /\ changed' = TRUE
  /\ UNCHANGED <<shown, running, stream, wait, flagged, hits>>

\* The callbacks run once for what has changed.
Callbacks ==
  /\ changed /\ changed' = FALSE
  /\ IF holds
     THEN /\ Emits([i \in 1..(IF In("idle") THEN 0 ELSE running[wait.n]) |-> "binding"])
          /\ running' = [c \in Calls |-> 0]
     ELSE UNCHANGED <<running, stream>>
  /\ UNCHANGED <<shown, holds, wait, flagged, hits>>

Replaces ==
  /\ shown < MaxDocs /\ shown' = shown + 1
  /\ holds' \in BOOLEAN /\ changed' = FALSE
  /\ running' = [c \in Calls |-> 0]
  /\ Emits(<<"cleared", "navigated">>)
  /\ UNCHANGED <<wait, flagged, hits>>

\* Subframes announce themselves with the same event.
SubframeNavigates ==
  /\ ~In("idle") /\ Emits(<<"navigated">>)
  /\ UNCHANGED <<pageVars, wait, flagged, hits>>

-----------------------------------------------------------------------------
(* The reader.                                                             *)

\* A waiter of wait_for() is armed for bindings, one of watch_document() for the events that
\* replace a document too.
Heard(e) == ~In("idle") /\ (e = "binding" \/ wait.kind # "selector")

\* An answer ends the evaluation; an event is held for the waiter.
Dispatch ==
  /\ stream # <<>> /\ stream' = Tail(stream)
  /\ \/ /\ Head(stream) = "matched"
        /\ wait' = [wait EXCEPT !.pc = IF flagged THEN "unwatch" ELSE "idle", !.result = "terminal"]
        /\ UNCHANGED <<flagged, hits>>
     \/ /\ Head(stream) = "watching"
        /\ Goes("wait") /\ flagged' = TRUE /\ UNCHANGED hits
     \/ /\ Head(stream) \notin {"matched", "watching"}
        /\ hits' = IF Heard(Head(stream)) THEN Append(hits, Head(stream)) ELSE hits
        /\ UNCHANGED <<wait, flagged>>
  /\ UNCHANGED pageVars

-----------------------------------------------------------------------------
(* The call.                                                               *)

Begin ==
  /\ In("idle") /\ wait.n < MaxCalls /\ stream = <<>>
  /\ \E k \in Kinds : wait' = [n |-> wait.n + 1, kind |-> k, pc |-> "probe", result |-> "none"]
  /\ flagged' = FALSE /\ hits' = <<>>
  /\ UNCHANGED <<pageVars, stream>>

\* WATCH_JS and WATCH_FORM_JS.  A probe starts by taking down the observer of the one before.
Looks(before) ==
  /\ In("probe")
  /\ Goes("asked")
  /\ IF holds
     THEN Emits(<<"matched">>) /\ running' = [running EXCEPT ![wait.n] = before]
     ELSE Emits(<<"watching">>) /\ running' = [running EXCEPT ![wait.n] = before + 1]
  /\ UNCHANGED <<shown, holds, changed, flagged, hits>>

Probe == Looks(0)

\* A hit ends the observer: its callback has run, or the document has gone.
WakeDeaf ==   \* mutant: a document that is replaced is no reason to look again
  /\ In("wait") /\ hits # <<>>
  /\ hits' = Tail(hits) /\ flagged' = FALSE
  /\ IF Head(hits) = "binding" /\ wait.kind # "state"
     THEN wait' = [wait EXCEPT !.pc = "idle", !.result = "binding"]
     ELSE UNCHANGED wait
  /\ UNCHANGED <<pageVars, stream>>

Wake ==
  /\ In("wait") /\ hits # <<>>
  /\ hits' = Tail(hits) /\ flagged' = FALSE
  /\ IF Head(hits) = "binding" /\ wait.kind # "state"
     THEN wait' = [wait EXCEPT !.pc = "idle", !.result = "binding"]
     ELSE Goes("probe")
  /\ UNCHANGED <<pageVars, stream>>

\* Nothing for as long as the page must be quiet, or until the deadline.
FallsQuiet ==
  /\ In("wait") /\ hits = <<>>
  /\ \E r \in {"stable", "timeout"} :
       /\ r = "stable" => wait.kind = "state"
       /\ wait' = [wait EXCEPT !.pc = "unwatch", !.result = r]
  /\ UNCHANGED <<pageVars, stream, flagged, hits>>

\* The deadline before the next probe; the probe raises.
OutOfTime ==
  /\ In("probe") /\ wait.kind # "selector"
  /\ \E r \in {"timeout", "raised"} :
       wait' = [wait EXCEPT !.pc = IF flagged THEN "unwatch" ELSE "idle", !.result = r]
  /\ UNCHANGED <<pageVars, stream, flagged, hits>>

Unwatch ==
  /\ In("unwatch")
  /\ Goes("idle") /\ flagged' = FALSE
  /\ running' = [running EXCEPT ![wait.n] = 0]
  /\ UNCHANGED <<shown, holds, changed, stream, hits>>

-----------------------------------------------------------------------------
Next ==
  \/ Changes \/ Callbacks \/ Replaces \/ SubframeNavigates
  \/ Dispatch \/ Begin \/ Probe \/ Wake \/ FallsQuiet \/ OutOfTime \/ Unwatch
Spec == Init /\ [][Next]_watchVars

\* No wait sleeps over the moment it waits for: while the condition holds, a callback, an event
\* or a hit is on its way to a wait of watch_document().
NothingMissed ==
  In("wait") /\ wait.kind # "selector" /\ holds => changed \/ stream # <<>> \/ hits # <<>>

\* However often a wait wakes and looks again, it has one observer.
OneObserver == \A c \in Calls : running[c] <= 1

\* What the source says: an observer that is still running is taken down (page.py:2965-2972).
NoneLeft == In("idle") => \A c \in Calls : running[c] = 0

\* What the source says: wait_for() waits for the selector "to be present / visible / gone",
\* "event-driven, never polled" (page.py:2870).
SelectorNotMissed == In("wait") /\ wait.kind = "selector" /\ holds => changed \/ stream # <<>> \/ hits # <<>>
=============================================================================
