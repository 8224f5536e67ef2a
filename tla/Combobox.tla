------------------------------- MODULE Combobox -------------------------------
(***************************************************************************)
(* select_option() and _dismiss() of harness/ops/forms.py: open a combobox,*)
(* find the option among those of the popups that are open, click it, and  *)
(* look at what the widget shows.  Another combobox of the page may have   *)
(* its popup open, with an option of the same name.                        *)
(***************************************************************************)
EXTENDS Naturals, FiniteSets

CONSTANTS
  Declares, \* whether the widget names its listbox (aria-controls)
  HasInput, \* whether it has an input to filter by
  MaxPicks  \* calls, one after the other (a bound)

VARIABLES
  pick,    \* the call: what it is about to do
  calls,   \* how many there have been
  popups,  \* whose popups are open
  lists,   \* whose have the option asked for
  shows,   \* what the widget shows: "old", "typed", "chosen"
  other,   \* what the other one shows
  before,  \* what the widget showed when the call began
  hit,     \* whose option was picked
  outcome  \* of the call

pickVars == <<pick, calls, popups, lists, shows, other, before, hit, outcome>>
widgetVars == <<popups, lists, shows, other>>

Widgets == {"own", "other"}

TypeOK ==
  /\ pick \in {"idle", "probe", "open", "options", "filter", "choose", "click", "verify", "dismiss"}
  /\ popups \subseteq Widgets /\ lists \subseteq Widgets
  /\ shows \in {"old", "typed", "chosen"} /\ before \in {"old", "typed", "chosen"}
  /\ other \in {"old", "chosen"} /\ hit \in Widgets \cup {"none"}
  /\ outcome \in {"none", "ok", "element_gone", "needs_interaction", "no_option_match"}

Init ==
  /\ pick = "idle" /\ calls = 0
  /\ popups \in SUBSET {"other"} /\ lists \in SUBSET Widgets
  /\ shows = "old" /\ other = "old" /\ before = "old" /\ hit = "none" /\ outcome = "none"

Begin ==
  /\ pick = "idle" /\ calls < MaxPicks /\ calls' = calls + 1
  /\ pick' = "probe" /\ before' = shows /\ hit' = "none" /\ outcome' = "none"
  /\ UNCHANGED widgetVars

Ends(o) == pick' = "idle" /\ outcome' = o

\* A native select goes to fill_form().
Probe ==
  /\ pick = "probe"
  /\ \/ pick' = "open" /\ UNCHANGED outcome
     \/ Ends("element_gone")
  /\ UNCHANGED <<calls, widgetVars, before, hit>>

\* The click opens the popup, or closes one that is open, or misses.
Open ==
  /\ pick = "open" /\ pick' = "options"
  /\ popups' \in {popups, IF "own" \in popups THEN popups \ {"own"} ELSE popups \cup {"own"}}
  /\ UNCHANGED <<calls, lists, shows, other, before, hit, outcome>>

\* The listbox it names, if it is in the document; the only one that is open; everything.
ScopeAll == popups   \* mutant: the options of the whole document
Scope == IF Declares /\ "own" \in popups THEN {"own"} ELSE popups

Options ==
  /\ pick = "options"
  /\ pick' = IF Scope = {} /\ HasInput THEN "filter" ELSE "choose"
  /\ UNCHANGED <<calls, widgetVars, before, hit, outcome>>

\* The label is typed into the input: its popup opens with what matches, or stays shut.
Filter ==
  /\ pick = "filter" /\ pick' = "choose"
  /\ shows' = "typed"
  /\ popups' \in {popups, popups \cup {"own"}}
  /\ UNCHANGED <<calls, lists, other, before, hit, outcome>>

\* Nothing to choose from, nothing that matches, or an option by its name.
Choose ==
  /\ pick = "choose"
  /\ \/ /\ Scope \cap lists # {}
        /\ hit' \in Scope \cap lists
        /\ pick' = "click" /\ UNCHANGED outcome
     \/ /\ Scope \cap lists = {}
        /\ pick' = "dismiss" /\ UNCHANGED hit
        /\ outcome' = IF Scope = {} THEN "needs_interaction" ELSE "no_option_match"
  /\ UNCHANGED <<calls, widgetVars, before>>

\* The click lands on the option, or misses.
Click ==
  /\ pick = "click" /\ pick' = "verify"
  /\ \/ UNCHANGED widgetVars
     \/ /\ popups' = popups \ {hit}
        /\ IF hit = "own" THEN shows' = "chosen" /\ UNCHANGED other
           ELSE other' = "chosen" /\ UNCHANGED shows
        /\ UNCHANGED lists
  /\ UNCHANGED <<calls, before, hit, outcome>>

\* It shows something else than before, or the option.
Verify ==
  /\ pick = "verify"
  /\ Ends(IF shows # before \/ shows \in {"chosen", "typed"} THEN "ok" ELSE "needs_interaction")
  /\ UNCHANGED <<calls, widgetVars, before, hit>>

\* Escape closes them.
Dismiss ==
  /\ pick = "dismiss" /\ pick' = "idle"
  /\ popups' = {}
  /\ UNCHANGED <<calls, lists, shows, other, before, hit, outcome>>

Next == Begin \/ Probe \/ Open \/ Options \/ Filter \/ Choose \/ Click \/ Verify \/ Dismiss
Spec == Init /\ [][Next]_pickVars

\* While its own listbox is open, a widget that names it is never given another one's option.
OwnListFirst == [][other' # other /\ Declares => "own" \notin popups]_pickVars

\* A call that finds nothing to choose leaves no popup over the page.
NothingLeftOpen == pick = "idle" /\ outcome \in {"needs_interaction", "no_option_match"} /\ hit = "none" => popups = {}

\* What the source says: "verify the WIDGET changed ... a click that missed and a click that
\* landed look identical without this" (forms.py:1001-1002).
OkIsChosen == pick = "idle" /\ outcome = "ok" => shows = "chosen"

\* What the source says: "a listbox left open covers the page ... so failing to select must
\* not also break whatever is attempted afterwards" (forms.py:1020-1021).
NoneOpenAfterFailure == pick = "idle" /\ outcome \in {"needs_interaction", "no_option_match"} => "own" \notin popups
=============================================================================
