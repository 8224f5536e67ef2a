------------------------------ MODULE DryRunGuard ------------------------------
(***************************************************************************)
(* The dry-run guard: the script harness/ops/page.py puts into the main    *)
(* world of every document (SAFETY_JS), the helpers that write an          *)
(* applicant's data, and click_auth_ref(), which lets one request pass.    *)
(*                                                                         *)
(* A script runs to its end: while the batch writer fires the events of a  *)
(* field, only the handlers of the page run.                               *)
(***************************************************************************)
EXTENDS Naturals

CONSTANTS
  MaxDoc,       \* documents the tab ever shows (a bound)
  MaxRequests,  \* requests that ever leave, and calls of click_auth_ref() (a bound)
  Guarded       \* the documents that have the guard

VARIABLES
  page,      \* the document: its number
  armed,     \* state.armed
  marked,    \* the attribute data-bh-entered
  hasFile,   \* a file input holds a file
  budget,    \* state.authBudget
  signIn,    \* authContext(): it is a sign-in page, with no application in it
  opened,    \* an XMLHttpRequest has been opened with a mutating method
  entered,   \* history: data of the applicant's has been written into the document
  writer,    \* the helper that writes: "none", "batch" (events under way), "typed"
  helper,    \* click_auth_ref(): "none", "checked", "armed", "clicked"
  consents,  \* history: how often it has armed the budget
  passed     \* history: mutating fetch and XHR let through in a document that is dirty

guardVars == <<page, armed, marked, hasFile, budget, signIn, opened, entered, writer, helper, consents, passed>>
stateVars == <<armed, marked, hasFile>>
helperVars == <<helper, consents>>

TypeOK ==
  /\ page \in 1..MaxDoc /\ budget \in {0, 1}
  /\ {armed, marked, hasFile, signIn, opened, entered} \subseteq BOOLEAN
  /\ writer \in {"none", "batch", "typed"}
  /\ helper \in {"none", "checked", "armed", "clicked"}
  /\ consents \in 0..MaxRequests /\ passed \in 0..MaxRequests

Init ==
  /\ page = 1 /\ signIn = FALSE
  /\ armed = FALSE /\ marked = FALSE /\ hasFile = FALSE
  /\ budget = 0 /\ opened = FALSE /\ entered = FALSE
  /\ writer = "none" /\ helper = "none" /\ consents = 0 /\ passed = 0

-----------------------------------------------------------------------------
(* SAFETY_JS.                                                              *)

Dirty == armed \/ marked \/ hasFile

ConsumeForgetful ==   \* mutant: the budget is not spent
  budget = 1 /\ signIn /\ UNCHANGED budget

ConsumeAuth == budget = 1 /\ signIn /\ budget' = 0

\* A mutating request is let through, before any data is there or against the budget; the
\* rest are refused.  A document without the guard refuses nothing.
Passes ==
  \/ page \notin Guarded /\ UNCHANGED <<budget, passed>>
  \/ page \in Guarded /\ ~Dirty /\ UNCHANGED <<budget, passed>>
  \/ /\ page \in Guarded /\ Dirty /\ passed < MaxRequests
     /\ ConsumeAuth
     /\ passed' = passed + 1

Fetch ==
  /\ Passes
  /\ UNCHANGED <<page, stateVars, signIn, opened, entered, writer, helperVars>>

\* What open() is given is judged when it is sent.
XhrOpen ==
  /\ ~opened /\ opened' = TRUE
  /\ UNCHANGED <<page, stateVars, budget, signIn, entered, writer, helperVars, passed>>

XhrSend ==
  /\ opened /\ opened' = FALSE
  /\ Passes
  /\ UNCHANGED <<page, stateVars, signIn, entered, writer, helperVars>>

\* A new document starts with a guard of its own.  form.submit(), requestSubmit() and
\* sendBeacon() do nothing, and a submit event is stopped; but the form of a sign-in that
\* holds the budget navigates, before or after its handler's request.
Navigates ==
  /\ page < MaxDoc /\ writer # "batch"
  /\ page' = page + 1 /\ signIn' \in BOOLEAN
  /\ armed' = FALSE /\ marked' = FALSE /\ hasFile' = FALSE
  /\ budget' = 0 /\ opened' = FALSE /\ entered' = FALSE
  /\ writer' = "none"
  /\ UNCHANGED <<helperVars, passed>>

\* The page shows other fields, or takes a file out of its input.
PageChanges ==
  /\ signIn' \in BOOLEAN /\ hasFile' \in {FALSE, hasFile}
  /\ UNCHANGED <<page, armed, marked, budget, opened, entered, writer, helperVars, passed>>

-----------------------------------------------------------------------------
(* The helpers that write.                                                 *)

Idle == writer = "none"

ArmDryRun ==
  /\ Idle /\ page \in Guarded
  /\ armed' = TRUE
  /\ UNCHANGED <<page, marked, hasFile, budget, signIn, opened, entered, writer, helperVars, passed>>

\* fill_form() and set_secret_from_keychain(): values and events, then the mark.
BatchWrite ==
  /\ Idle
  /\ writer' = "batch" /\ entered' = TRUE
  /\ UNCHANGED <<page, stateVars, budget, signIn, opened, helperVars, passed>>

BatchMark ==
  /\ writer = "batch"
  /\ writer' = "none" /\ marked' = TRUE
  /\ UNCHANGED <<page, armed, hasFile, budget, signIn, opened, entered, helperVars, passed>>

\* _typed_write(): the mark, then the keys.
TypedMark ==
  /\ Idle
  /\ writer' = "typed" /\ marked' = TRUE
  /\ UNCHANGED <<page, armed, hasFile, budget, signIn, opened, entered, helperVars, passed>>

TypedWrite ==
  /\ writer = "typed"
  /\ writer' = "none" /\ entered' = TRUE
  /\ UNCHANGED <<page, stateVars, budget, signIn, opened, helperVars, passed>>

\* select_option() types into a combobox, and marks nothing.
SelectOption ==
  /\ Idle
  /\ entered' = TRUE
  /\ UNCHANGED <<page, stateVars, budget, signIn, opened, writer, helperVars, passed>>

UploadFile ==
  /\ Idle
  /\ hasFile' = TRUE /\ entered' = TRUE
  /\ UNCHANGED <<page, armed, marked, budget, signIn, opened, writer, helperVars, passed>>

-----------------------------------------------------------------------------
(* click_auth_ref().                                                       *)

\* Only on a page that is a sign-in, by its own look; bringToFront follows.
Check ==
  /\ helper = "none" /\ Idle /\ signIn
  /\ helper' = "checked"
  /\ UNCHANGED <<page, stateVars, budget, signIn, opened, entered, writer, consents, passed>>

\* The document shown by now gets the budget; one without a guard is refused.
ArmBudget ==
  /\ helper = "checked"
  /\ IF page \in Guarded
     THEN /\ consents < MaxRequests
          /\ budget' = 1 /\ consents' = consents + 1 /\ helper' = "armed"
     ELSE helper' = "none" /\ UNCHANGED <<budget, consents>>
  /\ UNCHANGED <<page, stateVars, signIn, opened, entered, writer, passed>>

\* One physical click, never repeated; it may fail.
ClickOnce ==
  /\ helper = "armed"
  /\ helper' = "clicked"
  /\ UNCHANGED <<page, stateVars, budget, signIn, opened, entered, writer, consents, passed>>

\* What is left of the budget is cleared, unless the evaluation fails.
ClearBudget ==
  /\ helper = "clicked"
  /\ helper' = "none"
  /\ budget' \in {0, budget}
  /\ UNCHANGED <<page, stateVars, signIn, opened, entered, writer, consents, passed>>

-----------------------------------------------------------------------------
Next ==
  \/ Fetch \/ XhrOpen \/ XhrSend \/ Navigates \/ PageChanges
  \/ ArmDryRun \/ BatchWrite \/ BatchMark \/ TypedMark \/ TypedWrite \/ SelectOption \/ UploadFile
  \/ Check \/ ArmBudget \/ ClickOnce \/ ClearBudget
Spec == Init /\ [][Next]_guardVars

\* One consent, one request: whatever documents follow each other and even if the budget is
\* not cleared, a document that is dirty sends no more than the calls that allowed it.
OneRequestEach == passed <= consents /\ (budget = 1 => passed < consents)
=============================================================================
