----------------------------- MODULE ParallelRun -----------------------------
(***************************************************************************)
(* parallel() of harness/ops/parallel.py: workers claim items one by one,  *)
(* each in a tab and perhaps a context of its own, close what they and the *)
(* page opened, and leave a record of every item.  A worker's ledger is    *)
(* the ResourceLedger of harness/core/resources.py.                        *)
(***************************************************************************)
EXTENDS Naturals, FiniteSets

CONSTANTS
  Workers,   \* threads of the pool
  Items,     \* how many items there are
  Reuse,     \* reuse_tabs
  Isolated   \* isolated: every worker, or item, has a context of its own

VARIABLES
  upTo,      \* items claimed
  cancelled, \* the token is set, or its deadline has passed
  reason,    \* the reason it was given
  lost,      \* the browser is gone
  at,        \* a worker: what it is about to do
  item,      \* the item it has claimed last
  keeps,     \* resources its locals name: worker_tab, worker_context or the item's own
  ledger,    \* resources its ledger owns
  open,      \* resources of its own that exist in the browser
  okay,      \* its item has not failed
  met,       \* its item failed because the browser is gone
  record     \* the record of each item

runVars == <<upTo, cancelled, reason, lost, at, item, keeps, ledger, open, okay, met, record>>
itemVars == <<okay, met>>

None == [by |-> "none", ok |-> FALSE, gone |-> FALSE]

TypeOK ==
  /\ upTo \in 0..Items /\ cancelled \in BOOLEAN /\ lost \in BOOLEAN
  /\ reason \in {"none", "asked", "browser_disconnected"}
  /\ at \in [Workers -> {"claim", "context", "tab", "run", "observe", "close", "cursor", "release",
                         "report", "cleanup", "end"}]
  /\ item \in [Workers -> 0..Items]
  /\ keeps \in [Workers -> SUBSET {"context", "tab"}] /\ ledger \in [Workers -> SUBSET {"context", "tab"}]
  /\ open \in [Workers -> SUBSET {"context", "tab", "popup", "orphan"}]
  /\ okay \in [Workers -> BOOLEAN] /\ met \in [Workers -> BOOLEAN]
  /\ record \in [1..Items -> [by : Workers \cup {"none"}, ok : BOOLEAN, gone : BOOLEAN]]

Init ==
  /\ upTo = 0 /\ cancelled = FALSE /\ reason = "none" /\ lost = FALSE
  /\ at = [w \in Workers |-> "claim"] /\ item = [w \in Workers |-> 0]
  /\ keeps = [w \in Workers |-> {}] /\ ledger = keeps /\ open = keeps
  /\ okay = [w \in Workers |-> TRUE] /\ met = [w \in Workers |-> FALSE]
  /\ record = [i \in 1..Items |-> None]

Goes(w, to) == at' = [at EXCEPT ![w] = to]
Sets(f, w, v) == [f EXCEPT ![w] = v]

\* CancelToken: a caller, or the deadline, may set it at any time; the first reason stays.
Cancels ==
  /\ cancelled' = TRUE
  /\ reason' \in {reason, IF reason = "none" THEN "asked" ELSE reason}
  /\ UNCHANGED <<upTo, lost, at, item, keeps, ledger, open, itemVars, record>>

\* Every tab and context of every worker goes with the browser.
Loses ==
  /\ lost' = TRUE /\ open' = [w \in Workers |-> {}]
  /\ UNCHANGED <<upTo, cancelled, reason, at, item, keeps, ledger, itemVars, record>>

\* claim(), under its lock; "context" may have nothing to do.
Claim(w) ==
  /\ at[w] = "claim"
  /\ IF cancelled \/ upTo = Items
     THEN Goes(w, "cleanup") /\ UNCHANGED <<upTo, item, itemVars>>
     ELSE /\ upTo' = upTo + 1 /\ item' = Sets(item, w, upTo') /\ Goes(w, "context")
          /\ okay' = Sets(okay, w, TRUE) /\ met' = Sets(met, w, FALSE)
  /\ UNCHANGED <<cancelled, reason, lost, keeps, ledger, open, record>>

\* The item fails; when it is for want of a browser, the run is called off.
Fails(w) ==
  \E gone \in {FALSE, lost} :
    /\ okay' = Sets(okay, w, FALSE) /\ met' = Sets(met, w, gone) /\ Goes(w, "observe")
    /\ cancelled' = (cancelled \/ gone)
    /\ reason' = IF gone /\ reason = "none" THEN "browser_disconnected" ELSE reason

Takes(w, r) ==
  /\ ~lost /\ keeps' = Sets(keeps, w, keeps[w] \cup {r}) /\ ledger' = Sets(ledger, w, ledger[w] \cup {r})
  /\ open' = Sets(open, w, open[w] \cup {r})

\* session.new_context(), unless the worker keeps one.
Context(w) ==
  /\ at[w] = "context"
  /\ IF ~Isolated \/ "context" \in keeps[w]
     THEN Goes(w, "tab") /\ UNCHANGED <<keeps, ledger, open, itemVars, cancelled, reason>>
     ELSE \/ Takes(w, "context") /\ Goes(w, "tab") /\ UNCHANGED <<itemVars, cancelled, reason>>
          \/ Fails(w) /\ UNCHANGED <<keeps, ledger, open>>
  /\ UNCHANGED <<upTo, lost, item, record>>

\* session.new_tab(), whose rollback may leave the tab behind; or use_tab() of the one it keeps.
TakeTab(w) ==
  /\ at[w] = "tab"
  /\ \/ /\ IF "tab" \in keeps[w] THEN "tab" \in open[w] /\ UNCHANGED <<keeps, ledger, open>>
                                 ELSE Takes(w, "tab")
        /\ Goes(w, "run") /\ UNCHANGED <<itemVars, cancelled, reason>>
     \/ /\ Fails(w) /\ UNCHANGED <<keeps, ledger>>
        /\ open' \in {open, IF lost \/ "tab" \in keeps[w] THEN open
                            ELSE Sets(open, w, open[w] \cup {"orphan"})}
  /\ UNCHANGED <<upTo, lost, item, record>>

\* fn(item): the page may open popups, or close its own tab; the call may fail in any state.
Run(w) ==
  /\ at[w] = "run"
  /\ open' \in {open} \cup (IF lost THEN {} ELSE
                            {Sets(open, w, open[w] \cup {"popup"}), Sets(open, w, open[w] \ {"tab"}),
                             Sets(open, w, (open[w] \cup {"popup"}) \ {"tab"})})
  /\ \/ Goes(w, "observe") /\ UNCHANGED <<itemVars, cancelled, reason>>
     \/ Fails(w)
  /\ UNCHANGED <<upTo, lost, item, keeps, ledger, record>>

\* The list of the tab's popups, or the failure to get it; without a tab there is nothing to list.
Observe(w) ==
  /\ at[w] = "observe"
  /\ IF "tab" \notin keeps[w] THEN Goes(w, "release") /\ UNCHANGED okay
     ELSE \/ ~lost /\ Goes(w, "close") /\ UNCHANGED okay
          \/ Goes(w, "release") /\ okay' = Sets(okay, w, FALSE)
  /\ UNCHANGED <<upTo, cancelled, reason, lost, item, keeps, ledger, open, met, record>>

\* A request that closes r closes it, or fails: and r may be closed all the same.
Releases(w, rs) ==
  \E failed \in SUBSET (rs \cap (open[w] \cup IF lost THEN {"tab", "context", "popup"} ELSE {})) :
    LET gone == (rs \ failed) \cup (IF "context" \in rs \ failed THEN {"tab", "popup", "orphan"} ELSE {})
    IN /\ open' \in {Sets(open, w, open[w] \ (gone \cup also)) : also \in SUBSET failed}
       /\ okay' = Sets(okay, w, okay[w] /\ failed = {})

\* Deepest first; then the cursor goes back to the worker's tab, when it still has one.
Close(w) ==
  /\ at[w] = "close" /\ Releases(w, {"popup"})
  /\ IF Reuse /\ "tab" \notin open[w]
     THEN keeps' = Sets(keeps, w, keeps[w] \ {"tab"}) /\ Goes(w, "report")
     ELSE Goes(w, IF Reuse THEN "cursor" ELSE "release") /\ UNCHANGED keeps
  /\ UNCHANGED <<upTo, cancelled, reason, lost, item, ledger, met, record>>
Cursor(w) ==
  /\ at[w] = "cursor" /\ Goes(w, "report")
  /\ okay' \in {okay, Sets(okay, w, FALSE)}
  /\ UNCHANGED <<upTo, cancelled, reason, lost, item, keeps, ledger, open, met, record>>

\* With reuse_tabs off the item's tab and context go with it.
Release(w) ==
  /\ at[w] = "release" /\ Goes(w, "report")
  /\ IF Reuse THEN UNCHANGED <<keeps, ledger, open, okay>>
     ELSE Releases(w, ledger[w]) /\ keeps' = Sets(keeps, w, {}) /\ ledger' = Sets(ledger, w, {})
  /\ UNCHANGED <<upTo, cancelled, reason, lost, item, met, record>>

Report(w) ==
  /\ at[w] = "report" /\ Goes(w, "claim")
  /\ record' = [record EXCEPT ![item[w]] = [by |-> w, ok |-> okay[w], gone |-> met[w]]]
  /\ UNCHANGED <<upTo, cancelled, reason, lost, item, keeps, ledger, open, itemVars>>

\* What the ledger still owns; a failure is put on the record of the worker's last item.
Ends(w) ==
  /\ at[w] = "cleanup" /\ Goes(w, "end") /\ Releases(w, ledger[w])
  /\ ledger' = Sets(ledger, w, {}) /\ keeps' = Sets(keeps, w, {})
  /\ UNCHANGED <<upTo, cancelled, reason, lost, item, met>>
CleanupSilent(w) ==         \* mutant: nobody looks at what cleanup() returns
  /\ Ends(w) /\ UNCHANGED record
Cleanup(w) ==
  /\ Ends(w)
  /\ record' = IF item[w] = 0 THEN record
               ELSE [record EXCEPT ![item[w]].ok = @ /\ okay'[w]]

Next ==
  \/ Cancels \/ Loses
  \/ \E w \in Workers :
       \/ Claim(w) \/ Context(w) \/ TakeTab(w) \/ Run(w) \/ Observe(w) \/ Close(w) \/ Cursor(w)
       \/ Release(w) \/ Report(w) \/ Cleanup(w)
Spec == Init /\ [][Next]_runVars

Over == \A w \in Workers : at[w] = "end"

\* Cleanup must leave evidence instead of swallowing failures: when the run is over, a worker that
\* left something open in the browser has the record of a failed item.
EvidenceIsLeft ==
  Over => \A w \in Workers :
            open[w] # {} => \E i \in 1..Items : record[i].by = w /\ ~record[i].ok

\* A lost browser is the run's failure, not the items': each worker meets it with one item at most,
\* however many there are.
LossStopsTheRun ==
  \A w \in Workers : Cardinality({i \in 1..Items : record[i].by = w /\ record[i].gone}) <= 1
=============================================================================
