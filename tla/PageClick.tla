------------------------------- MODULE PageClick -------------------------------
(***************************************************************************)
(* A click and the dialogs it may meet: harness/ops/page.py, Tab._click(), *)
(* _activate_click(), _resolve_dialog() and what _on_event() books.        *)
(*                                                                         *)
(* A dialog blocks the renderer: nothing it serves is answered while one   *)
(* is open.  Three parties settle a dialog: the page, the click that finds *)
(* it in `_dialog` when its wait is over, and a thread of its own.  The    *)
(* reader dispatches events in order; an answer is seen after them.        *)
(***************************************************************************)
EXTENDS Naturals, Sequences, FiniteSets

CONSTANTS
  MaxDialogs,  \* dialogs the page ever opens (a bound)
  MaxEvents    \* events under way (a bound)

VARIABLES
  step,        \* the click: where it is
  done,        \* what the clicks since the last Begin saw: [dialog, effect, modality, retry]
  runs,        \* how often the page has run the handler of the control for this click
  effect,      \* what that did
  opened,      \* history: dialogs the handler opened
  pendingDlg,  \* _dialog, 0 if None
  autoDlg,     \* _auto_dialog: the dialogs a thread dismissed since the dispatch began
  taken,       \* the dialog the click has popped
  resolver,    \* dialog -> its thread: "none", "grace", "handle", "clear", "ended"
  screen,      \* the browser: the dialog that is open, 0 if none
  kinds,       \* dialog -> "alert" or "beforeunload"
  verdict,     \* dialog -> "none", "accepted", "dismissed" or "closed" by the page
  events,      \* announced and not dispatched
  newTargets   \* _created_seq: targets this tab opened

clickVars == <<step, done, runs, effect, opened, pendingDlg, autoDlg, taken, resolver, screen, kinds,
               verdict, events, newTargets>>
browserVars == <<screen, kinds, verdict>>
handlerVars == <<runs, effect, opened>>

Dialogs == 1..MaxDialogs
Asked == {d \in Dialogs : kinds[d] # "none"}
Blank == [dialog |-> 0, seen |-> "nothing", modality |-> "compositor", retry |-> TRUE]

TypeOK ==
  /\ step \in {"idle", "dispatch", "settle", "pop", "handle", "observe", "activate", "activated", "report"}
  /\ runs \in 0..2
  /\ pendingDlg \in 0..MaxDialogs /\ screen \in 0..MaxDialogs /\ taken \in 0..MaxDialogs
  /\ autoDlg \subseteq Dialogs /\ opened \subseteq Dialogs
  /\ resolver \in [Dialogs -> {"none", "grace", "handle", "clear", "ended"}]
  /\ kinds \in [Dialogs -> {"none", "alert", "beforeunload"}]
  /\ verdict \in [Dialogs -> {"none", "accepted", "dismissed", "closed"}]
  /\ newTargets \in 0..1

Init ==
  /\ step = "idle" /\ done = Blank /\ runs = 0 /\ effect = "nothing" /\ opened = {}
  /\ pendingDlg = 0 /\ autoDlg = {} /\ taken = 0
  /\ resolver = [d \in Dialogs |-> "none"]
  /\ screen = 0
  /\ kinds = [d \in Dialogs |-> "none"] /\ verdict = [d \in Dialogs |-> "none"]
  /\ events = <<>> /\ newTargets = 0

-----------------------------------------------------------------------------
(* The page.                                                               *)

Next1 == Cardinality(Asked) + 1

\* One dialog at a time.
Opens(kind) ==
  /\ screen = 0 /\ Next1 <= MaxDialogs /\ Len(events) < MaxEvents
  /\ screen' = Next1
  /\ kinds' = [kinds EXCEPT ![Next1] = kind]
  /\ events' = Append(events, [kind |-> "opening", dialog |-> Next1])
  /\ UNCHANGED verdict

Closes(how) ==
  /\ verdict' = [verdict EXCEPT ![screen] = how]
  /\ screen' = 0
  /\ UNCHANGED kinds

\* What the handler does when the event reaches it; it may be dropped on the way.
Handler ==
  /\ runs' = runs + 1
  /\ \/ /\ effect' \in {"state", "mutation", "internal"}
        /\ UNCHANGED <<browserVars, events, opened>>
     \/ /\ effect' = "target" /\ Len(events) < MaxEvents
        /\ events' = Append(events, [kind |-> "target", dialog |-> 0])
        /\ UNCHANGED <<browserVars, opened>>
     \/ /\ effect' = "dialog" /\ Opens("alert")
        /\ opened' = opened \cup {Next1}
     \/ /\ effect' = "navigation" /\ UNCHANGED <<browserVars, events, opened>>
     \/ /\ effect' = "navigation" /\ Opens("beforeunload") /\ UNCHANGED opened

\* A timer of the page, with no click.
PageOpens ==
  /\ Opens("alert")
  /\ UNCHANGED <<step, done, handlerVars, pendingDlg, autoDlg, taken, resolver, newTargets>>

PageCloses ==
  /\ screen # 0 /\ Closes("closed")
  /\ UNCHANGED <<step, done, handlerVars, pendingDlg, autoDlg, taken, resolver, events, newTargets>>

-----------------------------------------------------------------------------
(* The reader: _on_event().                                                *)

OnEvent ==
  /\ events # <<>>
  /\ events' = Tail(events)
  /\ IF Head(events).kind = "opening"
     THEN /\ pendingDlg' = Head(events).dialog
          /\ resolver' = [resolver EXCEPT ![Head(events).dialog] =
                            IF kinds[Head(events).dialog] = "beforeunload" THEN "handle" ELSE "grace"]
          /\ UNCHANGED newTargets
     ELSE newTargets' = 1 /\ UNCHANGED <<pendingDlg, resolver>>
  /\ UNCHANGED <<step, done, handlerVars, autoDlg, taken, browserVars>>

-----------------------------------------------------------------------------
(* The thread of a dialog: _resolve_dialog().                              *)

\* After the grace: a dialog somebody else has taken is his.
GraceOver(d) ==
  /\ resolver[d] = "grace"
  /\ resolver' = [resolver EXCEPT ![d] = IF pendingDlg = d THEN "handle" ELSE "ended"]
  /\ UNCHANGED <<step, done, handlerVars, pendingDlg, autoDlg, taken, browserVars, events, newTargets>>

\* Page.handleJavaScriptDialog settles whatever dialog is open.
Resolve(d) ==
  /\ resolver[d] = "handle"
  /\ resolver' = [resolver EXCEPT ![d] = "clear"]
  /\ IF screen = 0 THEN UNCHANGED browserVars
     ELSE Closes(IF kinds[d] = "beforeunload" THEN "accepted" ELSE "dismissed")
  /\ UNCHANGED <<step, done, handlerVars, pendingDlg, autoDlg, taken, events, newTargets>>

Clear(d) ==
  /\ resolver[d] = "clear"
  /\ resolver' = [resolver EXCEPT ![d] = "ended"]
  /\ IF pendingDlg = d THEN pendingDlg' = 0 /\ autoDlg' = autoDlg \cup {d}
     ELSE UNCHANGED <<pendingDlg, autoDlg>>
  /\ UNCHANGED <<step, done, handlerVars, taken, browserVars, events, newTargets>>

-----------------------------------------------------------------------------
(* click_ref(), click_at(), click_auth_ref() and _click().                 *)

Goes(s) == step' = s /\ UNCHANGED <<done, taken>>

\* The caller's look at the control precedes the dispatch; a submit control is refused, and
\* a blocked renderer does not answer.  An account action is not retried.
Begin ==
  /\ step = "idle" /\ runs = 0 /\ screen = 0 /\ events = <<>>
  /\ step' = "dispatch"
  /\ \E retry \in BOOLEAN : done' = [Blank EXCEPT !.retry = retry]
  /\ autoDlg' = {} /\ newTargets' = 0
  /\ UNCHANGED <<handlerVars, pendingDlg, taken, resolver, browserVars, events>>

\* Input.dispatchMouseEvent reaches the handler, or is dropped with no error anywhere.
Dispatch ==
  /\ step = "dispatch" /\ screen = 0
  /\ Goes("settle")
  /\ Handler \/ (effect' = "nothing" /\ UNCHANGED <<browserVars, events, opened, runs>>)
  /\ UNCHANGED <<pendingDlg, autoDlg, resolver, newTargets>>

\* The dispatch is acknowledged once no dialog is open, or times out under one the reader
\* knows of; a hang that nobody knows a reason for is raised.
Dispatched ==
  /\ step = "settle"
  /\ \/ screen = 0 /\ events = <<>> /\ Goes("pop")
     \/ screen # 0 /\ (pendingDlg # 0 \/ autoDlg # {}) /\ Goes("pop")
     \/ screen # 0 /\ pendingDlg = 0 /\ autoDlg = {} /\ Goes("idle")
  /\ UNCHANGED <<handlerVars, pendingDlg, autoDlg, resolver, browserVars, events, newTargets>>

\* The first consequence has come, or the settle time is over: the click takes the dialog.
Pop ==
  /\ step = "pop"
  /\ taken' = pendingDlg /\ pendingDlg' = 0
  /\ done' = [done EXCEPT !.dialog = IF pendingDlg # 0 THEN pendingDlg
                                     ELSE IF autoDlg # {} THEN CHOOSE d \in autoDlg : TRUE ELSE 0]
  /\ step' = IF pendingDlg # 0 THEN "handle" ELSE "observe"
  /\ UNCHANGED <<handlerVars, autoDlg, resolver, browserVars, events, newTargets>>

\* "No dialog is showing" is harmless.
Handle ==
  /\ step = "handle"
  /\ IF screen = 0 THEN UNCHANGED browserVars ELSE Closes("dismissed")
  /\ Goes("observe")
  /\ UNCHANGED <<handlerVars, pendingDlg, autoDlg, resolver, events, newTargets>>

\* What the page shows now.  A navigation under way shows nothing yet, or nothing readable.
Visible ==
  CASE effect = "navigation" -> {"navigation", "nothing"}
    [] effect \in {"mutation", "state"} -> {effect}
    [] OTHER -> {"nothing"}

ObserveBlind ==   \* mutant: the tab it opened is no consequence
  /\ step = "observe" /\ screen = 0 /\ events = <<>>
  /\ \E v \in Visible : done' = [done EXCEPT !.seen = v]
  /\ step' = IF done.retry /\ done'.seen = "nothing" /\ done.dialog = 0 THEN "activate" ELSE "report"
  /\ UNCHANGED <<handlerVars, pendingDlg, autoDlg, taken, resolver, browserVars, events, newTargets>>

\* The sequence numbers of the targets say which of them this click has opened.
TargetsSince == newTargets

Observe ==
  /\ step = "observe" /\ screen = 0 /\ events = <<>>
  /\ \E v \in Visible : done' = [done EXCEPT !.seen = v]
  /\ step' = IF done.retry /\ done'.seen = "nothing" /\ done.dialog = 0 /\ TargetsSince = 0
             THEN "activate" ELSE "report"
  /\ UNCHANGED <<handlerVars, pendingDlg, autoDlg, taken, resolver, browserVars, events, newTargets>>

\* _activate_click(): the same gesture through the DOM.
Activate ==
  /\ step = "activate" /\ screen = 0 /\ runs < 2
  /\ done' = [done EXCEPT !.modality = "dom"] /\ step' = "activated" /\ UNCHANGED taken
  /\ Handler
  /\ UNCHANGED <<pendingDlg, autoDlg, resolver, newTargets>>

\* It fails while a dialog is open: the click reports what it saw.
ActivateFails ==
  /\ step = "activate" /\ screen # 0
  /\ Goes("report")
  /\ UNCHANGED <<handlerVars, pendingDlg, autoDlg, resolver, browserVars, events, newTargets>>

ActivatedPopping ==   \* mutant: the click takes a dialog it does not handle
  /\ step = "activated" /\ events = <<>>
  /\ done' = [done EXCEPT !.dialog = pendingDlg]
  /\ pendingDlg' = 0
  /\ step' = "report" /\ UNCHANGED taken
  /\ UNCHANGED <<handlerVars, autoDlg, resolver, browserVars, events, newTargets>>

\* A dialog of the second try is read, and left to its thread.
Activated ==
  /\ step = "activated" /\ events = <<>>
  /\ screen \notin opened
  /\ done' = [done EXCEPT !.dialog = IF pendingDlg # 0 THEN pendingDlg
                                     ELSE IF autoDlg # {} THEN CHOOSE d \in autoDlg : TRUE ELSE 0]
  /\ step' = "report" /\ UNCHANGED taken
  /\ UNCHANGED <<handlerVars, pendingDlg, autoDlg, resolver, browserVars, events, newTargets>>

Report ==
  /\ step = "report"
  /\ step' = "idle" /\ UNCHANGED <<done, taken>>
  /\ UNCHANGED <<handlerVars, pendingDlg, autoDlg, resolver, browserVars, events, newTargets>>

-----------------------------------------------------------------------------
Reader == OnEvent
Resolver(d) == GraceOver(d) \/ Resolve(d) \/ Clear(d)
Click == Begin \/ Dispatch \/ Dispatched \/ Pop \/ Handle \/ Observe \/ Activate \/ ActivateFails \/ Activated
         \/ Report

Next == PageOpens \/ PageCloses \/ Reader \/ (\E d \in Dialogs : Resolver(d)) \/ Click
Spec == Init /\ [][Next]_clickVars
\* The reader and the resolver threads never wait; a click under way goes on.
Fairness == WF_clickVars(Reader) /\ (\A d \in Dialogs : WF_clickVars(Resolver(d)))
            /\ WF_clickVars(Click /\ step # "idle")
FairSpec == Spec /\ Fairness

\* No dialog stays open: it blocks the tab for every caller.
DialogsEnd == \A d \in Dialogs : (screen = d) ~> (screen # d)

\* A click whose handler opened a dialog says that there was one, whoever settled it.
DialogReported == step = "report" /\ opened # {} => done.dialog # 0

\* What a click has done to the page, a dialog or a tab it opened, is not done again.
NeverRepeated == [][runs = 1 /\ runs' = 2 => effect \in {"internal", "navigation"}]_clickVars

\* What the source says: the accept policy is not for beforeunload, which "is accepted
\* immediately" (page.py:1622-1623).
BeforeunloadAccepted == \A d \in Dialogs : kinds[d] = "beforeunload" => verdict[d] # "dismissed"

\* What the source says: "A click that did something is never repeated", up to a handler
\* that "changes only internal JavaScript state" (page.py:2800-2801).
OnlyInertRepeated == [][runs = 1 /\ runs' = 2 => effect = "internal"]_clickVars
=============================================================================
