--------------------------------- MODULE Forms ---------------------------------
(***************************************************************************)
(* Reading a form and filling it: harness/ops/forms.py.  form_schema()     *)
(* says which controls can be filled, fill_form() writes a plan in one     *)
(* evaluation, reads it back after a settle, types what cannot be set,     *)
(* operates the comboboxes and retries what the page refused.              *)
(*                                                                         *)
(* A value is what the code can tell of it: a word, another word, a number *)
(* and the same number reformatted, or nothing.                            *)
(***************************************************************************)
EXTENDS Naturals, Sequences, FiniteSets, SequencesExt

CONSTANTS
  Traits,  \* control -> [kind, box, furniture, texts, required], as the document has it
  Plans    \* the plans a caller may bring: sequences of [ref, mode, want]

Controls == DOMAIN Traits

VARIABLES
  fill,     \* the call: what it is about to do
  plan,     \* its plan
  rest,     \* the steps after it, for a recording
  holds,    \* control -> the value it holds
  gone,     \* controls the page has removed
  written,  \* the batch's report: entries in the order of the batch
  entries,  \* index of the plan -> its entry, once there is one
  earned,   \* history: indices whose control was read with a value that will do
  clock,    \* the writes so far
  evidence, \* how many of them the evidence of the outcome has seen
  retried   \* history: how many there were when a retry last succeeded

formVars == <<fill, plan, rest, holds, gone, written, entries, earned, clock, evidence, retried>>

-----------------------------------------------------------------------------
(* form_schema(): _SCHEMA_BODY_JS and its verdict.                         *)

Toggle(c) == Traits[c].kind \in {"checkbox", "radio"}
Has(c, source) == source \in Traits[c].texts

\* Nobody sees a control without a box; a select without one is the data of a painted widget.
Decoy(c) == Traits[c].box # "shown" /\ Traits[c].kind # "select"
IsField(c) == ~Decoy(c) /\ ~Traits[c].furniture /\ Traits[c].kind \notin {"file", "button", "search"}
Fields == {c \in Controls : IsField(c)}

\* Markup the author wrote, the text of the option, the prompt in a select, the text nearby.
LabelSource(c) ==
  IF Has(c, "markup") THEN "markup"
  ELSE IF Toggle(c) /\ Has(c, "option") THEN "option_text"
  ELSE IF Traits[c].kind = "select" /\ Has(c, "prompt") THEN "placeholder_option"
  ELSE IF Has(c, "near") THEN "proximity" ELSE "none"

\* The question of a group goes with each of its options.
Question(c) == IF Toggle(c) /\ Has(c, "group") THEN "group" ELSE LabelSource(c)

Files == {c \in Controls : Traits[c].kind = "file" /\ ~Traits[c].furniture}
Submits == {c \in Controls : Traits[c].kind = "button" /\ ~Traits[c].furniture}
IsForm == (Cardinality(Fields) >= 2 /\ Submits # {}) \/ Files # {}

-----------------------------------------------------------------------------
(* Values.                                                                 *)

FieldValues == {"blank", "word", "other", "number", "spaced", "on", "off"}
DigitsBlind(v) == "none"   \* mutant: a number is no number
Digits(v) == IF v \in {"number", "spaced"} THEN "digits" ELSE "none"
NotBlank(v) == v # "blank"

\* What may come of a control of the page's choice when v is written to it.
Takes(c, v) ==
  IF Toggle(c) THEN {"on", "off"}
  ELSE IF Traits[c].kind = "select" THEN {v, holds[c]}
  ELSE {v, "blank", "other"} \cup (IF v = "number" THEN {"spaced"} ELSE {})

Acceptable(v, want) == v = want \/ (Digits(v) = Digits(want) /\ Digits(v) # "none")

Settable(c) == Traits[c].kind # "combobox"
Indices == DOMAIN plan
Ref(i) == plan[i].ref
BatchOf(steps) == SelectSeq([i \in DOMAIN steps |-> i], LAMBDA i : steps[i].mode = "value")
Batched == BatchOf(plan)
Typed == {i \in Indices : plan[i].mode \in {"insert", "type"}}
Interactive == {i \in Indices : plan[i].mode = "select"}
Fused == Typed \cup Interactive = {}
Entry(i, r) == [ref |-> Ref(i), is |-> r]

TypeOK ==
  /\ fill \in {"idle", "batch", "settle", "typed", "escalate", "done"}
  /\ holds \in [Controls -> FieldValues]
  /\ gone \subseteq Controls
  /\ earned \subseteq Indices
  /\ evidence <= clock /\ retried <= clock

Init ==
  /\ fill = "idle" /\ plan = <<>> /\ rest = <<>>
  /\ holds = [c \in Controls |-> IF Toggle(c) THEN "off" ELSE "blank"]
  /\ gone = {} /\ written = <<>> /\ entries = <<>> /\ earned = {}
  /\ clock = 0 /\ evidence = 0 /\ retried = 0

-----------------------------------------------------------------------------
(* The page: a control disappears, or a value is put back or reformatted.  *)

Removes(c) ==
  /\ fill # "done" /\ gone = {} /\ gone' = {c}
  /\ UNCHANGED <<fill, plan, rest, holds, written, entries, earned, clock, evidence, retried>>

Rewrites(c) ==
  /\ fill = "settle" /\ c \notin gone
  /\ holds' = [holds EXCEPT ![c] = IF @ = "number" THEN "spaced" ELSE IF Toggle(c) THEN "off" ELSE "blank"]
  /\ UNCHANGED <<fill, plan, rest, gone, written, entries, earned, clock, evidence, retried>>

-----------------------------------------------------------------------------
(* fill_form().                                                            *)

Begin ==
  /\ fill = "idle" /\ IsForm
  /\ \E p \in Plans, human_readable \in BOOLEAN :
       /\ \A i \in DOMAIN p : p[i].ref \in Fields /\ Question(p[i].ref) # "none"
       /\ plan' = IF human_readable THEN <<Head(p)>> ELSE p
       /\ rest' = IF human_readable THEN Tail(p) ELSE <<>>
  /\ fill' = "batch"
  /\ UNCHANGED <<holds, gone, written, entries, earned, clock, evidence, retried>>

\* What the writer reports of a step, given what the control holds afterwards.
Result(i, now) ==
  IF Ref(i) \in gone THEN "element_gone"
  ELSE IF ~Settable(Ref(i)) THEN "needs_interaction"
  ELSE IF now = plan[i].want THEN "ok"
  ELSE IF Traits[Ref(i)].kind = "select" THEN "no_option_match" ELSE "refused"

Writes(i) == Ref(i) \notin gone /\ Settable(Ref(i))
BatchRefs == {Ref(i) : i \in {j \in Range(Batched) : Writes(j)}}

\* _FILL_JS: one evaluation for all of them, with the handlers of the page.
Batch ==
  /\ fill = "batch" /\ fill' = "settle"
  /\ \E took \in [BatchRefs -> FieldValues] : LET now == took @@ holds IN
       /\ \A i \in Range(Batched) : Writes(i) => took[Ref(i)] \in Takes(Ref(i), plan[i].want)
       /\ holds' = now
       /\ written' = [k \in DOMAIN Batched |-> Entry(Batched[k], Result(Batched[k], now[Ref(Batched[k])]))]
       /\ earned' = {i \in Range(Batched) : Result(i, now[Ref(i)]) = "ok"}
  /\ clock' = clock + 1
  /\ UNCHANGED <<plan, rest, gone, entries, evidence, retried>>

\* _RECHECK_JS: a step refused without an error is done after all if what the control shows
\* has the digits of what was wanted.  The evidence of the call is taken along, unless keys
\* are still to be typed.
Recheck ==
  /\ fill = "settle" /\ fill' = "typed"
  /\ LET Shown(k) == holds[Ref(Batched[k])]
         Done(k) == /\ written[k].is = "refused" /\ Ref(Batched[k]) \notin gone
                    /\ NotBlank(Shown(k)) /\ Digits(Shown(k)) = Digits(plan[Batched[k]].want)
     IN  /\ written' = [k \in DOMAIN written |-> IF Done(k) THEN [written[k] EXCEPT !.is = "ok"] ELSE written[k]]
         /\ earned' = earned \cup
              {Batched[k] : k \in {j \in DOMAIN written : Acceptable(Shown(j), plan[Batched[j]].want)}}
  /\ evidence' = IF Fused THEN clock ELSE evidence
  /\ UNCHANGED <<plan, rest, holds, gone, entries, clock, retried>>

\* One control, by Input.insertText or by keys: what it holds then is compared by its digits,
\* if it has any.  Text does not turn a toggle.
TypedWrite(i, how) ==
  IF Ref(i) \in gone
  THEN how = "element_gone" /\ UNCHANGED <<holds, clock, earned>>
  ELSE /\ clock' = clock + 1
       /\ \E v \in IF Toggle(Ref(i)) THEN {holds[Ref(i)]} ELSE Takes(Ref(i), plan[i].want) :
            /\ holds' = [holds EXCEPT ![Ref(i)] = v]
            /\ how = IF Acceptable(v, plan[i].want) /\ ~Toggle(Ref(i)) THEN "ok" ELSE "refused"
            /\ earned' = IF how = "ok" THEN earned \cup {i} ELSE earned

\* select_option() for one of the comboboxes: never another option than the one wanted.
SelectOption(i, how) ==
  IF Ref(i) \in gone
  THEN how = "element_gone" /\ UNCHANGED <<holds, clock, earned>>
  ELSE \/ how \in {"needs_interaction", "no_option_match"} /\ UNCHANGED <<holds, clock, earned>>
       \/ /\ how = "ok" /\ clock' = clock + 1
          /\ holds' = [holds EXCEPT ![Ref(i)] = plan[i].want]
          /\ earned' = earned \cup {i}

Pending == {i \in Typed \cup Interactive : i \notin DOMAIN entries}
Put(i, e) == entries' = [j \in DOMAIN entries \cup {i} |-> IF j = i THEN e ELSE entries[j]]

\* After the batch, the others in turn: the typed ones, then the comboboxes.
OneByOne ==
  /\ fill = "typed" /\ Pending # {}
  /\ \E i \in Pending, how \in {"ok", "refused", "element_gone", "needs_interaction", "no_option_match"} :
       /\ i \in Interactive => Typed \cap Pending = {}
       /\ IF i \in Typed THEN TypedWrite(i, how) ELSE SelectOption(i, how)
       /\ Put(i, Entry(i, how))
  /\ UNCHANGED <<fill, plan, rest, gone, written, evidence, retried>>

\* The batch's report is in the order of the batch, the plan's in the order of the plan.
Places(i) == {k \in DOMAIN written : Batched[k] = i}

Merge ==
  /\ fill = "typed" /\ Pending = {}
  /\ fill' = "escalate"
  /\ entries' = [i \in Indices |->
       IF i \in DOMAIN entries THEN entries[i]
       ELSE IF Places(i) # {} THEN written[CHOOSE k \in Places(i) : TRUE]
       ELSE [ref |-> Ref(i), is |-> "no_report_entry"]]
  /\ UNCHANGED <<plan, rest, holds, gone, written, earned, clock, evidence, retried>>

\* _escalate_rejected(): a refusal without an error, of a step whose mode nobody chose, is
\* tried again with Input.insertText and then with keys.
Retryable(i) == entries[i].is \in {"refused", "refused again"} /\ plan[i].mode = "value"

Retry ==
  /\ fill = "escalate"
  /\ \E i \in Indices, how \in {"ok", "refused", "element_gone"} :
       /\ Retryable(i)
       /\ TypedWrite(i, how)
       /\ Put(i, Entry(i, IF how # "refused" THEN how
                          ELSE IF entries[i].is = "refused" THEN "refused again" ELSE "refused for good"))
       /\ retried' = IF how = "ok" THEN clock' ELSE retried
  /\ UNCHANGED <<fill, plan, rest, gone, written, evidence>>

\* The evidence is taken anew after a retry that succeeded, and now if keys were typed.
Finish ==
  /\ fill = "escalate" /\ \A i \in Indices : ~Retryable(i)
  /\ fill' = "done"
  /\ evidence' = IF Fused /\ retried = 0 THEN evidence ELSE clock
  /\ UNCHANGED <<plan, rest, holds, gone, written, entries, earned, clock, retried>>

Cleared == written' = <<>> /\ entries' = <<>> /\ earned' = {} /\ clock' = 0 /\ evidence' = 0 /\ retried' = 0

\* For a recording, a plan of one step at a time; what was reported of the others is kept.
StepByStep ==
  /\ fill = "done" /\ rest # <<>>
  /\ fill' = "batch" /\ plan' = <<Head(rest)>> /\ rest' = Tail(rest)
  /\ Cleared
  /\ UNCHANGED <<holds, gone>>

\* The next call.
Again ==
  /\ fill = "done" /\ rest = <<>> /\ fill' = "idle" /\ plan' = <<>>
  /\ Cleared
  /\ UNCHANGED <<rest, holds, gone>>

Next ==
  \/ (\E c \in Controls : Removes(c) \/ Rewrites(c))
  \/ Begin \/ Batch \/ Recheck \/ OneByOne \/ Merge \/ Retry \/ Finish \/ StepByStep \/ Again
Spec == Init /\ [][Next]_formVars

\* The report has one entry for each step, in its place, whichever of the three ways it went.
OwnEntries == fill \in {"escalate", "done"} =>
  /\ DOMAIN entries = Indices
  /\ \A i \in Indices : entries[i].ref = Ref(i)

\* A number is reported as filled only if the control was read with it: whatever the page
\* makes of the write, and whichever mode wrote it.
NumbersAreEarned == fill = "done" =>
  \A i \in Indices : entries[i].is = "ok" /\ plan[i].want = "number" => i \in earned

\* The evidence of the outcome is not older than the last retry that filled a control.
EvidenceIsFresh == fill = "done" => evidence >= retried

\* What the source says: success is "the field now holds a value the page accepted"
\* (forms.py:823-824).
OkIsHeld == fill = "done" => \A i \in Indices : entries[i].is = "ok" => i \in earned
=============================================================================
