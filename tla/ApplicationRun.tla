---------------------------- MODULE ApplicationRun ----------------------------
(***************************************************************************)
(* Finding an application and filling it: applications/workflow.py, with   *)
(* the verdict on a document (document.py) and the state of a page         *)
(* (state.py).  A run lands on the view a rule derives from the posting or *)
(* on the posting, looks at the document and follows its control or links  *)
(* until there is an application, at most HopBudget times.                 *)
(*                                                                         *)
(* A page is what the scripts can tell of it; it may turn into another one *)
(* between two looks.                                                      *)
(***************************************************************************)
EXTENDS Naturals, Sequences, FiniteSets, SequencesExt

CONSTANTS
  Pages,     \* page -> what the scripts find in it and what it leads to
  Shows,     \* url -> pages a navigation to it may end on
  Posting,   \* the url the run is for
  Routes,    \* the urls the caller or the rules of document.py derive from it
  HopBudget

VARIABLES
  at,         \* what the run is about to do
  shows,      \* target -> the page in it; "popup" and "frame" may hold none
  current,    \* the target session.tab() answers with
  candidates, \* route_candidates
  onLanding,  \* on_route_landing
  pending,    \* pending_state, of the last transition or landing
  prepared,   \* what prepare_application() answered with last
  seen,       \* fingerprints
  hop,        \* rounds of the loop
  ends,       \* the terminal state
  went,       \* history: urls navigated to
  filledIn,   \* history: the target the form was filled in
  files,      \* rows of the attachments
  stage       \* the stage of the result

runVars == <<at, shows, current, candidates, onLanding, pending, prepared, seen, hop, ends, went, filledIn, files, stage>>
locateVars == <<candidates, onLanding, pending, prepared, seen, hop, ends>>
resultVars == <<filledIn, files, stage>>

-----------------------------------------------------------------------------
(* The verdict of document.py, for each form in the page, the strongest    *)
(* one counts; and the state of state.py, which looks at the page only.    *)

Structured(f) ==
  \/ f.files > 0 /\ (f.fields >= 1 \/ f.visibleFiles)
  \/ f.fields >= 3 /\ "apply" \in f.words
Kind(f) ==
  IF Structured(f) THEN
    IF f.identity /\ (f.password \/ "account" \in f.words) THEN "application_form_with_account_fields" ELSE "application_form"
  ELSE IF f.fields <= 3 /\ f.identity /\ f.password /\ f.submit THEN "login_email_password"
  ELSE IF f.fields <= 2 /\ f.identity /\ "auth" \in f.words /\ "newsletter" \notin f.words THEN "login_email_first"
  ELSE IF f.fields >= 2 /\ f.submit THEN "generic_form"
  ELSE "not_form"
Priority == <<"application_form_with_account_fields", "application_form", "login_email_password",
              "login_email_first", "generic_form", "not_form">>
Classification(p) ==
  LET kinds == {Kind(f) : f \in Pages[p].forms}
  IN  IF kinds = {} THEN "not_form" ELSE SelectSeq(Priority, LAMBDA k : k \in kinds)[1]
IsApplication(p) == Classification(p) \in {"application_form", "application_form_with_account_fields"}
Fields(p) == FoldLeft(LAMBDA n, f : n + f.fields, 0, SetToSeq(Pages[p].forms))

AccountWall(p) ==
  /\ \A f \in Pages[p].forms : f.files = 0
  /\ ~(Fields(p) >= 3 /\ "apply" \in Pages[p].words)
  /\ (\E f \in Pages[p].forms : f.password) \/ ("auth" \in Pages[p].words /\ Fields(p) < 2 /\ Pages[p].controls)
StateOf(p) ==
  IF "bot" \in Pages[p].words THEN "bot_wall"
  ELSE IF AccountWall(p) THEN "account_wall"
  ELSE IF Fields(p) >= 2 /\ (\E f \in Pages[p].forms : f.submit \/ f.element) THEN "form"
  ELSE IF Pages[p].text \/ Pages[p].controls THEN "usable_ui"
  ELSE IF Pages[p].hidden THEN "hidden_blank"
  ELSE "stable_failure"

-----------------------------------------------------------------------------
None == "none"
Panes == {"tab", "popup", "frame"}
NoFiles == <<>>
Goes(p) == at' = p

TypeOK ==
  /\ shows \in [Panes -> DOMAIN Pages \cup {None}] /\ current \in Panes
  /\ hop \in 0..HopBudget /\ onLanding \in BOOLEAN
  /\ went \subseteq DOMAIN Shows

Init ==
  /\ at = "land" /\ current = "tab"
  /\ shows = [t \in Panes |-> IF t = "tab" THEN "blank" ELSE None]
  /\ candidates = Routes /\ onLanding = FALSE /\ pending = None /\ prepared = <<>>
  /\ seen = {} /\ hop = 0 /\ ends = "budget_exhausted"
  /\ went = {} /\ filledIn = None /\ files = NoFiles /\ stage = None

\* The pages render, redirect, put up a wall.
PageMoves ==
  /\ at # "done"
  /\ \E t \in Panes : shows[t] # None /\ \E p \in Pages[shows[t]].turns : shows' = [shows EXCEPT ![t] = p]
  /\ UNCHANGED <<at, current, candidates, onLanding, pending, prepared, seen, hop, ends, went, resultVars>>

\* goto() of session.tab(), whichever target that is.
Navigates(url) ==
  /\ \E p \in Shows[url] : shows' = [shows EXCEPT ![current] = p]
  /\ went' = went \cup {url}

-----------------------------------------------------------------------------
(* locate_application().                                                   *)

\* What is raised on the way ends the run: a navigation to the posting that fails, a control
\* that cannot be clicked, a planner, a document that is no form after all.
Raises ==
  /\ at \in {"land", "probe", "fallback", "inspect", "follow", "plan", "fill"} /\ Goes("done") /\ ends' = "raised"
  /\ UNCHANGED <<shows, current, candidates, onLanding, pending, prepared, seen, hop, went, resultVars>>

\* The routes first, if there are any and the environment allows it.
Land ==
  /\ at = "land"
  /\ \/ Routes # <<>> /\ Navigates(Routes[1]) /\ Goes("probe")
     \/ Navigates(Posting) /\ Goes("inspect")
  /\ UNCHANGED <<current, locateVars, resultVars>>

\* One that fails on the view of a rule: the posting instead.
LandFails ==
  /\ at = "land" /\ Routes # <<>>
  /\ Goes("fallback")
  /\ UNCHANGED <<shows, current, locateVars, went, resultVars>>

\* wait_for_application_state(): only a form keeps the run there.
ProbeLanding ==
  /\ at = "probe"
  /\ IF StateOf(shows[current]) = "form"
     THEN Goes("inspect") /\ pending' = "form" /\ onLanding' = TRUE
     ELSE Goes("fallback") /\ UNCHANGED <<pending, onLanding>>
  /\ UNCHANGED <<shows, current, candidates, prepared, seen, hop, ends, went, resultVars>>

Fallback ==
  /\ at = "fallback"
  /\ Navigates(Posting) /\ Goes("inspect")
  /\ UNCHANGED <<current, locateVars, resultVars>>

\* prepare_application(): the document, or the best of it and its frames, which becomes the
\* current target.  A frame that cannot be read is passed over.
Better(p, q) == (IsApplication(p) /\ ~IsApplication(q)) \/ (IsApplication(p) = IsApplication(q) /\ Fields(p) > Fields(q))
Selects(t) ==
  IF IsApplication(shows[current]) THEN t = current /\ UNCHANGED shows
  ELSE \E framed \in SUBSET Pages[shows[current]].frames :
         IF \E f \in framed : Better(f, shows[current])
         THEN /\ t = "frame"
              /\ \E f \in framed : (\A g \in framed : ~Better(g, f)) /\ shows' = [shows EXCEPT !["frame"] = f]
         ELSE t = current /\ UNCHANGED shows
Prepared(t, p) ==
  [target |-> t, page |-> p, app |-> IsApplication(p), link |-> Pages[p].link, control |-> Pages[p].control]
Fingerprint(state) ==
  <<prepared'[1].target, Pages[prepared'[1].page].url, state, Fields(prepared'[1].page), prepared'[1].link, prepared'[1].control>>

Uses(t) == current' = t

StaysOnLanding == FALSE   \* mutant: the view of the rule is followed like any page
RejectsLanding == onLanding

\* A round of the loop up to its transition.
Inspect ==
  /\ at = "inspect" /\ hop < HopBudget /\ hop' = hop + 1
  /\ pending' = None
  /\ \E t \in Panes, observed \in {IF pending # None THEN pending ELSE StateOf(shows[current])} :
       /\ Selects(t) /\ Uses(t)
       /\ prepared' = <<Prepared(t, shows'[t])>>
       /\ LET page == shows'[t]
              state == IF IsApplication(page) THEN "form" ELSE observed
              found == SelectSeq(Pages[page].routes, LAMBDA u : u # Pages[page].url /\ ~Contains(candidates, u))
          IN  IF IsApplication(page) THEN
                Goes("plan") /\ ends' = "form" /\ UNCHANGED <<candidates, onLanding, seen>>
              ELSE IF RejectsLanding THEN
                Goes("fallback") /\ onLanding' = FALSE /\ UNCHANGED <<candidates, seen, ends>>
              ELSE IF Fingerprint(state) \in seen THEN
                Goes("done") /\ ends' = "cycle" /\ UNCHANGED <<candidates, onLanding, seen>>
              ELSE
                /\ seen' = seen \cup {Fingerprint(state)} /\ candidates' = candidates \o found
                /\ IF Pages[page].control \/ Pages[page].link # None \/ candidates' # <<>>
                   THEN Goes("follow") /\ UNCHANGED ends
                   ELSE Goes("done") /\ ends' = state
                /\ UNCHANGED onLanding
  /\ UNCHANGED <<went, resultVars>>

OutOfHops ==
  /\ at = "inspect" /\ hop = HopBudget
  /\ Goes("done")
  /\ UNCHANGED <<shows, current, locateVars, went, resultVars>>

\* follow_application(): the control, which may open a target or change the page; a control
\* without effect, or none, gives way to the link, and that to the first other candidate.
Url(p) == Pages[p].url
Other == SelectSeq(candidates, LAMBDA u : u # Url(prepared[1].page))
Destination == IF prepared[1].link # None THEN prepared[1].link ELSE IF Other # <<>> THEN Other[1] ELSE None
Leads == prepared[1].link \notin {None, Url(prepared[1].page)} \/ Other # <<>>
Awaits == pending' = StateOf(shows'[current'])

ClickMoves ==
  /\ at = "follow" /\ prepared[1].control
  /\ \E p \in Pages[shows[current]].clicks : shows' = [shows EXCEPT ![current] = p]
  /\ Goes("inspect") /\ UNCHANGED <<current, candidates, went>> /\ Awaits
  /\ UNCHANGED <<onLanding, prepared, seen, hop, ends, resultVars>>

ClickOpens ==
  /\ at = "follow" /\ prepared[1].control /\ shows["popup"] = None
  /\ \E p \in Pages[shows[current]].opens : shows' = [shows EXCEPT !["popup"] = p]
  /\ current' = "popup" /\ Goes("inspect") /\ UNCHANGED <<candidates, went>> /\ Awaits
  /\ UNCHANGED <<onLanding, prepared, seen, hop, ends, resultVars>>

\* A candidate that was clicked for first is kept; one that was the only way is used up, and
\* the others with it.
FollowsLink ==
  /\ at = "follow" /\ Leads
  /\ LET byLink == prepared[1].link \notin {None, Url(prepared[1].page)}
         to == IF prepared[1].control THEN Destination ELSE IF byLink THEN prepared[1].link ELSE Other[1]
         candidate == IF prepared[1].control THEN prepared[1].link = None ELSE ~byLink
     IN  /\ Navigates(to)
         /\ candidates' = IF candidate THEN <<>> ELSE candidates
  /\ Goes("inspect") /\ UNCHANGED current /\ Awaits
  /\ UNCHANGED <<onLanding, prepared, seen, hop, ends, resultVars>>

\* Nothing leads anywhere: the state is awaited all the same, and the next round sees a cycle.
StaysThere ==
  /\ at = "follow" /\ ~Leads
  /\ Goes("inspect") /\ UNCHANGED <<shows, current, candidates, went>> /\ Awaits
  /\ UNCHANGED <<onLanding, prepared, seen, hop, ends, resultVars>>

-----------------------------------------------------------------------------
(* run_application(), for a form: the plan, the filling, the files.        *)

\* Without a planner the files alone, if there is a resolver for them.
Plan ==
  /\ at = "plan"
  /\ stage' = ends
  /\ \E to \in {"fill", "upload", "done"} : Goes(to)
  /\ UNCHANGED <<shows, current, locateVars, went, filledIn, files>>

Fill ==
  /\ at = "fill"
  /\ filledIn' = current
  /\ stage' \in {"filled", "partial"}
  /\ \E to \in {"upload", "done"} : Goes(to)
  /\ UNCHANGED <<shows, current, locateVars, went, files>>

\* _attach_files(): each input is resolved to files, or to none, or the resolver raises; then
\* the upload is accepted, rejected or fails.  One row each.
Rows(required) == {"attached", "rejected", "failed", "resolver_failed",
                   IF required THEN "required_unmapped" ELSE "unmapped"}
Count(rows, what) == Cardinality({i \in DOMAIN rows : rows[i] \in what})
Attached(rows) ==
  /\ Count(rows, {"attached", "rejected", "failed"}) = Count(rows, {"attached"})
  /\ Count(rows, {"required_unmapped"}) = 0
  /\ Count(rows, {"failed", "resolver_failed"}) = 0

Upload ==
  /\ at = "upload" /\ Goes("done")
  /\ LET inputs == Pages[prepared[1].page].inputs IN
       \E rows \in [DOMAIN inputs -> UNION {Rows(r) : r \in BOOLEAN}] :
         /\ \A i \in DOMAIN inputs : rows[i] \in Rows(inputs[i])
         /\ files' = rows
         /\ stage' = IF Attached(rows) THEN stage ELSE "partial"
  /\ UNCHANGED <<shows, current, locateVars, went, filledIn>>

Next ==
  \/ PageMoves \/ Raises \/ Land \/ LandFails \/ ProbeLanding \/ Fallback \/ Inspect \/ OutOfHops
  \/ ClickMoves \/ ClickOpens \/ FollowsLink \/ StaysThere \/ Plan \/ Fill \/ Upload
Spec == Init /\ [][Next]_runVars

\* A run that ends without an application has been to the posting: the view a rule derives from
\* it is a guess, whichever way the guess turns out to be wrong, and as long as the budget lasts.
PostingIsVisited ==
  at = "done" /\ ends # "raised" /\ (prepared = <<>> \/ ~prepared[1].app) => Posting \in went

\* What is filled is the document that was found to be an application: in its target.
FillsWherePrepared == filledIn # None => prepared[1].app /\ filledIn = prepared[1].target

\* A form is reported as filled only with every file it requires.
FilledIsComplete ==
  at = "done" /\ stage = "filled" /\ files # NoFiles =>
    \A i \in DOMAIN files : Pages[prepared[1].page].inputs[i] => files[i] = "attached"

\* What the source says: "the probe is a readiness check, the inspect is the verdict"
\* (workflow.py:264-265); a run that says form has one.
FormIsApplication == at = "done" /\ ends = "form" => prepared[1].app

\* What the source says: a fallback is "one `goto` back to the posting" (workflow.py:319); it
\* is a page that goes there, not a frame in it.
PagesNavigate == [][went' # went => current # "frame"]_runVars
=============================================================================
