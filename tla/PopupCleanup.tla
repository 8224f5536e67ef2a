----------------------------- MODULE PopupCleanup -----------------------------
(***************************************************************************)
(* _owned_tab_descendants_after_quiet() of harness/ops/parallel.py: after  *)
(* an item, which tabs of the browser its worker's tab has opened.  A list *)
(* of targets is asked for while the browser announces others, and a       *)
(* second list only if the announcements say the first does not suffice.   *)
(***************************************************************************)
EXTENDS Naturals, Sequences

CONSTANTS
  Popups,    \* tabs that may be opened, by the worker's tab, by another or by a stranger
  MaxEvents  \* announcements under way (a bound)

VARIABLES
  tabs,      \* tabs there are
  opener,    \* who opened each; "nobody": it was never opened
  told,      \* announcements under way to the observer, oldest first
  watch,     \* the observer: what it is about to do
  owned,     \* tabs it knows to be the worker's
  moved,     \* something happened that the first list may not say
  seed,      \* the first list
  answer,    \* the tabs it names in the end
  announced  \* history: tabs it was told of as long as it watched

popupVars == <<tabs, opener, told, watch, owned, moved, seed, answer, announced>>
browserVars == <<tabs, opener>>

Root == "root"
Stranger == "stranger"
Openers == Popups \cup {Root, Stranger}

TypeOK ==
  /\ tabs \subseteq Popups \cup {Root} /\ opener \in [Popups -> Openers \cup {"nobody"}]
  /\ owned \subseteq Popups \cup {Root} /\ seed \subseteq Popups /\ answer \subseteq Popups
  /\ watch \in {"idle", "ask", "fold", "wait", "again", "done"}
  /\ moved \in BOOLEAN /\ announced \subseteq Popups

Init ==
  /\ tabs = {Root} /\ opener = [p \in Popups |-> "nobody"]
  /\ told = <<>> /\ watch = "idle" /\ owned = {Root} /\ moved = FALSE
  /\ seed = {} /\ answer = {} /\ announced = {}

\* _owned_tab_descendants(): the closure of the opener over the tabs that are listed.
ClosedIn(S, listed) == Root \in S /\ \A p \in listed \cap Popups : opener[p] \in S => p \in S
Descendants(listed) ==
  {p \in listed \cap Popups : \A S \in SUBSET (Popups \cup {Root}) : ClosedIn(S, listed) => p \in S}

Watching == watch \notin {"idle", "done"}
Tell(what, p) ==
  IF Watching
  THEN Len(told) < MaxEvents /\ told' = Append(told, [what |-> what, tab |-> p])
  ELSE UNCHANGED told

\* A page opens a tab; it keeps its opener's name when that is gone.
Opens(p, by) ==
  /\ opener[p] = "nobody" /\ by \in (tabs \ {p}) \cup {Stranger}
  /\ opener' = [opener EXCEPT ![p] = by] /\ tabs' = tabs \cup {p}
  /\ Tell("created", p)
  /\ UNCHANGED <<watch, owned, moved, seed, answer, announced>>

Closes(p) ==
  /\ p \in tabs /\ tabs' = tabs \ {p} /\ Tell("destroyed", p)
  /\ UNCHANGED <<opener, watch, owned, moved, seed, answer, announced>>

\* Until the first list is folded in, any announcement may concern the worker's tab.
NeverSeeding == FALSE      \* mutant: judged by what is known so far
Seeding == watch \in {"ask", "fold"}

Observe ==
  /\ Watching /\ told # <<>> /\ told' = Tail(told)
  /\ LET m == Head(told) IN
       IF m.what = "destroyed"
       THEN /\ moved' = (moved \/ Seeding \/ m.tab \in owned) /\ UNCHANGED <<owned, announced>>
       ELSE IF opener[m.tab] \in owned
       THEN /\ owned' = owned \cup {m.tab} /\ moved' = TRUE
            /\ announced' = announced \cup {m.tab}
       ELSE /\ moved' = (moved \/ Seeding)
            /\ announced' = announced \cup {m.tab} /\ UNCHANGED owned
  /\ UNCHANGED <<browserVars, watch, seed, answer>>

\* The observer subscribes, then asks.
Begin ==
  /\ watch = "idle" /\ watch' = "ask"
  /\ owned' = {Root} /\ moved' = FALSE /\ announced' = {} /\ told' = <<>>
  /\ UNCHANGED <<browserVars, seed, answer>>

List(from, to) == watch = from /\ watch' = to

\* The browser answers; announcements sent before or after may arrive before the answer does.
ListsSeed ==
  /\ List("ask", "fold") /\ seed' = Descendants(tabs)
  /\ UNCHANGED <<browserVars, told, owned, moved, answer, announced>>

\* Announcements older than the answer are in front of it.
Fold ==
  /\ List("fold", "wait")
  /\ \A i \in DOMAIN told : told[i].what = "created" => told[i].tab \notin seed
  /\ owned' = owned \cup seed
  /\ UNCHANGED <<browserVars, told, moved, seed, answer, announced>>

\* The quiet window, or the longest wait, is over.
Settles ==
  /\ watch = "wait"
  /\ IF moved THEN watch' = "again" /\ UNCHANGED answer
     ELSE watch' = "done" /\ answer' = seed
  /\ UNCHANGED <<browserVars, told, owned, moved, seed, announced>>

ListsAgain ==
  /\ List("again", "done") /\ answer' = Descendants(tabs)
  /\ UNCHANGED <<browserVars, told, owned, moved, seed, announced>>

\* What is not answered for was asked for too late.
Leaves ==
  /\ watch = "done" /\ watch' = "idle" /\ told' = <<>>
  /\ UNCHANGED <<browserVars, owned, moved, seed, answer, announced>>

Next ==
  \/ \E p \in Popups, by \in Openers : Opens(p, by)
  \/ \E p \in Popups \cup {Root} : Closes(p)
  \/ Observe \/ Begin \/ ListsSeed \/ Fold \/ Settles \/ ListsAgain \/ Leaves
Spec == Init /\ [][Next]_popupVars

\* Whether a chain of tabs that are still there leads from the worker's tab to p.
Reached(p) == p \in Descendants(tabs)

\* A tab it was told of while it watched, opened along a chain of tabs that are all still there, is
\* among those it names: also one announced before the first list was folded in, when nobody could
\* yet say whose it was.
NoneEscapes == [][watch # "done" /\ watch' = "done" =>
                    \A p \in announced : Reached(p) => p \in answer']_popupVars

\* What a comment says of the second list: "a target announced during the wait is either present in
\* it or has already disappeared and no longer needs cleanup" (parallel.py:203).
PresentOrGone == [][watch # "done" /\ watch' = "done" =>
                      \A p \in announced \cap owned : p \in tabs => p \in answer']_popupVars
=============================================================================
