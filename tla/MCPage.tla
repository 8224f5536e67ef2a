-------------------------------- MODULE MCPage --------------------------------
(***************************************************************************)
(* The operations of a page, side by side and each by itself: `part` says  *)
(* which one a behaviour is about.                                         *)
(***************************************************************************)
EXTENDS Naturals, Sequences, FiniteSets

CONSTANTS
  Deadline, GraceMax, Quiet, Stable, ReprobeMax, Requests, MaxHits, MaxRenders, Patience, \* PageNavigation
  MaxDoc, MaxSession, MaxOps,               \* PageWorld
  MaxDialogs, MaxDialogEvents,              \* PageClick
  MaxGuardDoc, MaxRequests, Guarded,        \* DryRunGuard
  MaxDocs, MaxCalls, MaxWatchEvents,        \* PageWatch
  Frames, MaxFrameEvents,                   \* PageFrames
  Length, MaxShown, MaxOther,               \* PageInput
  MaxQueue, Window, MaxFrames,              \* Screencast
  Urls, Concurrency, Retries                \* FetchAll

ASSUME LengthAssumption == Length \in Nat
ASSUME UrlsAssumption   == Urls \in Nat
ASSUME CallsAssumption  == MaxCalls \in Nat
ASSUME DialogsAssumption == MaxDialogs \in Nat
\* A frame is none of the names an answer goes by.
ASSUME FramesAssumption == IsFiniteSet(Frames) /\ Frames \cap {"on", "off", "observe", "quiet"} = {}

VARIABLES
  part,
  stage, clock, mode, loader, hits, cursor, k, page, flying, seenAt, still, lifecycle,
  tab, op, begun, ops, live, armedOn, failedOn, doc, withRuntime, guarded, announcements, handled,
  step, done, runs, effect, opened, pendingDlg, autoDlg, taken, resolver, screen, kinds, verdict, events, newTargets,
  guardPage, armed, marked, hasFile, budget, signIn, guardOpened, entered, writer, helper, consents, passed,
  shown, holds, changed, running, stream, wait, flagged, watchHits,
  there, attaching, sent, ask, count, found, counted, settled,
  docNo, input, counter, pre, left, landed, origin, others, modality,
  caller, listening, casting, framesSent, handing, acks, asked, acker, frameQueue, recorder, recorded, rows,
  next, busy, tries, answers, out, tally, reach

navigation == <<stage, clock, mode, loader, hits, cursor, k, page, flying, seenAt, still, lifecycle>>
world == <<tab, op, begun, ops, live, armedOn, failedOn, doc, withRuntime, guarded, announcements, handled>>
click == <<step, done, runs, effect, opened, pendingDlg, autoDlg, taken, resolver, screen, kinds, verdict, events, newTargets>>
guard == <<guardPage, armed, marked, hasFile, budget, signIn, guardOpened, entered, writer, helper, consents, passed>>
watch == <<shown, holds, changed, running, stream, wait, flagged, watchHits>>
frames == <<there, attaching, sent, ask, count, found, counted, settled>>
keys == <<docNo, input, counter, pre, left, landed, origin, others, modality>>
cast == <<caller, listening, casting, framesSent, handing, acks, asked, acker, frameQueue, recorder, recorded, rows>>
fetch == <<next, busy, tries, answers, out, tally, reach>>

Navigation == INSTANCE PageNavigation
World == INSTANCE PageWorld
Click == INSTANCE PageClick WITH MaxEvents <- MaxDialogEvents
Guard == INSTANCE DryRunGuard WITH MaxDoc <- MaxGuardDoc, page <- guardPage, opened <- guardOpened
Watch == INSTANCE PageWatch WITH MaxEvents <- MaxWatchEvents, hits <- watchHits
FrameList == INSTANCE PageFrames WITH MaxEvents <- MaxFrameEvents
Keys == INSTANCE PageInput
Cast == INSTANCE Screencast WITH stage <- caller, sent <- framesSent, writer <- recorder, frames <- recorded
Fetch == INSTANCE FetchAll WITH taken <- next

In(p) == part = p
Parts == {"navigation", "world", "click", "guard", "watch", "frames", "keys", "cast", "fetch"}

\* What is not in the picture starts in one of its initial states.
PageInit ==
  /\ part \in Parts
  /\ Navigation!Init /\ World!Init /\ Click!Init /\ Guard!Init /\ Watch!Init /\ FrameList!Init /\ Keys!Init
  /\ Cast!Init /\ Fetch!Init
  /\ ~In("world") => withRuntime = {}
  /\ ~In("watch") => ~holds
  /\ ~In("frames") => there = {} /\ ~attaching

Navigates == In("navigation") /\ Navigation!Next /\ UNCHANGED <<part, world, click, guard, watch, frames, keys, cast, fetch>>
Evaluates == In("world") /\ World!Next /\ UNCHANGED <<part, navigation, click, guard, watch, frames, keys, cast, fetch>>
Clicks == In("click") /\ Click!Next /\ UNCHANGED <<part, navigation, world, guard, watch, frames, keys, cast, fetch>>
Guards == In("guard") /\ Guard!Next /\ UNCHANGED <<part, navigation, world, click, watch, frames, keys, cast, fetch>>
Watches == In("watch") /\ Watch!Next /\ UNCHANGED <<part, navigation, world, click, guard, frames, keys, cast, fetch>>
Lists == In("frames") /\ FrameList!Next /\ UNCHANGED <<part, navigation, world, click, guard, watch, keys, cast, fetch>>
Types == In("keys") /\ Keys!Next /\ UNCHANGED <<part, navigation, world, click, guard, watch, frames, cast, fetch>>
Records == In("cast") /\ Cast!Next /\ UNCHANGED <<part, navigation, world, click, guard, watch, frames, keys, fetch>>
Fetches == In("fetch") /\ Fetch!Next /\ UNCHANGED <<part, navigation, world, click, guard, watch, frames, keys, cast>>
PageNext == Navigates \/ Evaluates \/ Clicks \/ Guards \/ Watches \/ Lists \/ Types \/ Records \/ Fetches

\* The fairness of PageClick and of Screencast, each while a behaviour is about it.
PageSpec ==
  /\ PageInit /\ [][PageNext]_<<part, navigation, world, click, guard, watch, frames, keys, cast, fetch>>
  /\ WF_click(In("click") /\ Click!Reader)
  /\ \A d \in 1..MaxDialogs : WF_click(In("click") /\ Click!Resolver(d))
  /\ WF_click(In("click") /\ Click!Click /\ step # "idle")
  /\ WF_cast(In("cast") /\ Cast!Hand) /\ WF_cast(In("cast") /\ Cast!Ack) /\ WF_cast(In("cast") /\ Cast!Take)
  /\ WF_cast(In("cast") /\ (Cast!Write \/ Cast!WriteFails)) /\ WF_cast(In("cast") /\ Cast!Stops)

EarlyIsEarned == Navigation!EarlyIsEarned
NavigatesGuarded == World!NavigatesGuarded
NeverRepeated == Click!NeverRepeated
DialogsEnd == Click!DialogsEnd
OneRequestEach == Guard!OneRequestEach
NothingMissed == Watch!NothingMissed
NoneLeftOut == FrameList!NoneLeftOut
NeverTwice == Keys!NeverTwice
AllAsked == Cast!AllAsked
NoSilentGap == Fetch!NoSilentGap
=============================================================================
