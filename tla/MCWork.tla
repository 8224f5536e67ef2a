-------------------------------- MODULE MCWork --------------------------------
(***************************************************************************)
(* What is built on the operations of a page, side by side and each by     *)
(* itself: `part` says which one a behaviour is about.                     *)
(***************************************************************************)
EXTENDS Naturals, Sequences, FiniteSets

CONSTANTS
  Traits, Plans,                              \* Forms
  Declares, HasInput, MaxPicks,               \* Combobox
  Popups, MaxEvents,                          \* PopupCleanup
  Workers, Items, Isolated,                   \* ParallelRun
  Threads, Targets, Contexts, MaxTries, MaxCalls, \* ClientSession
  Documents, MaxBlocks, Budgets,              \* SemanticPages
  Pages, Shows, Posting, Routes, HopBudget,   \* ApplicationRun
  Actors, Views, MaxSpans, MaxRecordings,     \* ActionRecorder
  MaxParallel, Found, MaxPosts, MaxResets,    \* Dashboard
  Writers, Values, MaxPuts                    \* ContentStore

\* ParallelRun: its workers, and a name that is none of them
ASSUME WorkersAssumption == "none" \notin Workers
ASSUME ItemsAssumption == Items \in Nat
\* PopupCleanup: a tab is none of the names an opener may have besides
ASSUME PopupsAssumption == Popups \cap {"root", "stranger", "nobody"} = {}
\* ClientSession: its threads, and a name that is none of them
ASSUME ThreadsAssumption == IsFiniteSet(Threads) /\ "none" \notin Threads
\* SemanticPages: a document is a sequence of blocks, and so many characters are asked for
ASSUME DocumentsAssumption ==
  Documents \subseteq Seq([path : STRING, kind : {"text", "control", "region", "links"}, main : BOOLEAN, text : Seq(STRING)])
ASSUME BudgetsAssumption == Budgets \subseteq Nat
ASSUME FoundAssumption == Found \in Nat              \* Dashboard
ASSUME RecordingsAssumption == MaxRecordings \in Nat \* ActionRecorder
ASSUME HopsAssumption == HopBudget \in Nat \ {0}     \* ApplicationRun

VARIABLES
  part,
  fill, plan, rest, holds, gone, written, entries, earned, clock, evidence, retried,
  pick, picks, popups, lists, widget, other, before, hit, outcome,
  popupTabs, opener, told, watch, owned, moved, seed, answer, announced,
  upTo, cancelled, reason, browserLost, does, item, keeps, ledger, open, okay, met, record,
  pages, worlds, housed, tabs, tabContext, contexts, current, listening, attaching, call, arg, popped, creating, adopting, exclude, listed, closer,
  left, calls,
  shown, latest, reading, cursor, mirror, lost, strayed,
  at, shows, driven, candidates, onLanding, pending, prepared, seen, hop, ends, went, filledIn, files, stage,
  stack, chosen, closing, spans, owner, journal, hook, profile, allocated, disk, lines,
  phase, jobs, status, filled, thread, list, filling, ended, resets,
  blobs, doing, value, digest, given, puts

form == <<fill, plan, rest, holds, gone, written, entries, earned, clock, evidence, retried>>
box == <<pick, picks, popups, lists, widget, other, before, hit, outcome>>
popup == <<popupTabs, opener, told, watch, owned, moved, seed, answer, announced>>
batch == <<upTo, cancelled, reason, browserLost, does, item, keeps, ledger, open, okay, met, record>>
session == <<pages, worlds, housed, tabs, tabContext, contexts, current, listening, attaching,
             call, arg, popped, creating, adopting, exclude, listed, closer, left, calls>>
semantic == <<shown, latest, reading, cursor, mirror, lost, strayed>>
application == <<at, shows, driven, candidates, onLanding, pending, prepared, seen, hop, ends, went, filledIn, files, stage>>
recording == <<stack, chosen, closing, spans, owner, journal, hook, profile, allocated, disk, lines>>
dashboard == <<phase, jobs, status, filled, thread, list, filling, ended, resets>>
store == <<blobs, doing, value, digest, given, puts>>
below == <<form, box, popup, batch, session, semantic, application>>
above == <<recording, dashboard, store>>

Form == INSTANCE Forms
Box == INSTANCE Combobox WITH calls <- picks, shows <- widget
Popup == INSTANCE PopupCleanup WITH tabs <- popupTabs
Batch == INSTANCE ParallelRun WITH Reuse <- TRUE, lost <- browserLost, at <- does
OneShot == INSTANCE ParallelRun WITH Reuse <- FALSE, lost <- browserLost, at <- does
Session == INSTANCE ClientSession
Semantic == INSTANCE SemanticPages
Application == INSTANCE ApplicationRun WITH current <- driven
Recorder == INSTANCE ActionRecorder
Dash == INSTANCE Dashboard WITH listed <- jobs
Store == INSTANCE ContentStore

In(p) == part = p
Parts == {"form", "box", "popup", "batch", "one shot", "session", "semantic", "application",
          "recording", "dashboard", "store"}

\* What is not in the picture starts in one of its initial states.
WorkInit ==
  /\ part \in Parts
  /\ Form!Init /\ Box!Init /\ Popup!Init /\ Batch!Init /\ Session!Init /\ Semantic!Init /\ Application!Init
  /\ Recorder!Init /\ Dash!Init /\ Store!Init
  /\ ~In("box") => popups = {} /\ lists = {}
  /\ ~In("semantic") => shown = CHOOSE d \in Documents : TRUE
  /\ ~In("store") => \A w \in Writers : value[w] = CHOOSE v \in Values : TRUE

Fills == In("form") /\ Form!Next /\ UNCHANGED <<part, box, popup, batch, session, semantic, application, above>>
Picks == In("box") /\ Box!Next /\ UNCHANGED <<part, form, popup, batch, session, semantic, application, above>>
Cleans == In("popup") /\ Popup!Next /\ UNCHANGED <<part, form, box, batch, session, semantic, application, above>>
Runs ==
  /\ \/ In("batch") /\ Batch!Next
     \/ In("one shot") /\ OneShot!Next
  /\ UNCHANGED <<part, form, box, popup, session, semantic, application, above>>
Drives == In("session") /\ Session!Next /\ UNCHANGED <<part, form, box, popup, batch, semantic, application, above>>
Reads == In("semantic") /\ Semantic!Next /\ UNCHANGED <<part, form, box, popup, batch, session, application, above>>
Applies == In("application") /\ Application!Next /\ UNCHANGED <<part, form, box, popup, batch, session, semantic, above>>
Records == In("recording") /\ Recorder!Next /\ UNCHANGED <<part, below, dashboard, store>>
Serves == In("dashboard") /\ Dash!Next /\ UNCHANGED <<part, below, recording, store>>
Keeps == In("store") /\ Store!Next /\ UNCHANGED <<part, below, recording, dashboard>>
WorkNext == Fills \/ Picks \/ Cleans \/ Runs \/ Drives \/ Reads \/ Applies \/ Records \/ Serves \/ Keeps
WorkSpec == WorkInit /\ [][WorkNext]_<<part, below, above>>

NumbersAreEarned == Form!NumbersAreEarned
OkIsHeld == Form!OkIsHeld
OwnListFirst == Box!OwnListFirst
NoneEscapes == Popup!NoneEscapes
EvidenceIsLeft == Batch!EvidenceIsLeft
NoTabForgotten == Session!NoTabForgotten
MirrorIsThePage == Semantic!MirrorIsThePage
CursorIsStable == Semantic!CursorIsStable
PostingIsVisited == Application!PostingIsVisited
LineIsItsCalls == Recorder!LineIsItsCalls
AmberIsLive == Dash!AmberIsLive
RefIsGood == Store!RefIsGood

-----------------------------------------------------------------------------
(* The form, its batches, the documents and the pages of the instance.       *)

Control(kind, place, texts) ==
  [kind |-> kind, box |-> place, furniture |-> FALSE, texts |-> texts, required |-> FALSE]
MCTraits ==
  [name |-> Control("text", "shown", {"markup"}), phone |-> Control("text", "shown", {"near"}),
   agree |-> Control("checkbox", "shown", {"option", "group"}), land |-> Control("select", "tiny", {"prompt"}),
   city |-> Control("combobox", "shown", {"markup"}), trap |-> Control("text", "tiny", {"near"}),
   cookie |-> [Control("checkbox", "shown", {"near"}) EXCEPT !.furniture = TRUE], send |-> Control("button", "shown", {})]
Write(ref, mode, want) == [ref |-> ref, mode |-> mode, want |-> want]
MCPlans ==
  {<<Write("city", "select", "word"), Write("name", "value", "word"), Write("phone", "value", "number")>>,
   <<Write("phone", "type", "number"), Write("agree", "value", "on"), Write("land", "value", "word")>>,
   <<Write("name", "value", "word"), Write("city", "value", "word"), Write("trap", "value", "word")>>,
   <<Write("phone", "value", "number"), Write("name", "insert", "word")>>,
   <<Write("phone", "value", "number")>>}

Block(path, kind, main, text) == [path |-> path, kind |-> kind, main |-> main, text |-> text]
MCDocuments ==
  {<<Block("h", "text", TRUE, <<"a", "b">>), Block("c", "control", TRUE, <<>>), Block("n", "text", FALSE, <<"z">>)>>,
   <<Block("h", "text", TRUE, <<"a", "b">>), Block("h", "region", TRUE, <<"c">>), Block("c", "control", TRUE, <<"x">>)>>,
   <<Block("r", "region", TRUE, <<"c">>), Block("h", "text", TRUE, <<"a", "d">>), Block("c", "control", TRUE, <<>>)>>}

Bare ==
  [url |-> "about", forms |-> {}, words |-> {}, text |-> FALSE, controls |-> FALSE, hidden |-> FALSE, link |-> "none",
   control |-> FALSE, routes |-> <<>>, frames |-> {}, clicks |-> {}, opens |-> {}, turns |-> {}, inputs |-> <<>>]
Page == [Bare EXCEPT !.url = "apply", !.text = TRUE, !.controls = TRUE]
FormOf(fields, attached, words) ==
  [fields |-> fields, files |-> attached, visibleFiles |-> FALSE, submit |-> TRUE, element |-> TRUE, identity |-> TRUE,
   password |-> FALSE, words |-> words]
Login == [FormOf(2, 0, {"auth"}) EXCEPT !.password = TRUE]
MCPages ==
  [blank |-> Bare,
   post |-> [Page EXCEPT !.url = "posting", !.control = TRUE, !.link = "posting", !.routes = <<"apply">>, !.frames = {"widget"},
               !.clicks = {"form", "view"}, !.opens = {"form", "wall"}, !.turns = {"wall"}],
   view |-> [Page EXCEPT !.forms = {FormOf(2, 0, {})}, !.frames = {"widget", "form"}, !.turns = {"form"}],
   form |-> [Page EXCEPT !.forms = {FormOf(3, 1, {"apply", "account"}), Login}, !.words = {"apply"}, !.inputs = <<TRUE, FALSE>>,
               !.turns = {"wall"}],
   wall |-> [Page EXCEPT !.forms = {Login}, !.words = {"auth"}, !.link = "posting"],
   widget |-> [Page EXCEPT !.url = "widget", !.forms = {FormOf(3, 0, {})}, !.link = "apply"],
   empty |-> [Bare EXCEPT !.url = "posting", !.hidden = TRUE, !.turns = {"view"}]]
MCShows == [posting |-> {"post", "wall", "empty"}, apply |-> {"view", "form", "wall"}]
MCRoutes == <<"apply">>
MCValues == {<<"text", "a">>, <<"bytes", "a">>, <<"text", "b">>}
=============================================================================
