---------------------------- MODULE ClientSession ----------------------------
(***************************************************************************)
(* Session of harness/session.py: the table of Tabs, of contexts and of    *)
(* which tab is in which context, and the tab each thread drives.  Threads *)
(* attach, adopt, create and close tabs and contexts at the same time, and *)
(* one of them may close the session meanwhile; a request to the browser   *)
(* may fail, having done its work or not.                                  *)
(***************************************************************************)
EXTENDS Naturals, FiniteSets

CONSTANTS
  Threads,  \* of the client
  Targets,  \* tabs there may be
  Contexts, \* contexts there may be
  MaxTries, \* of an adoption (4 in the code)
  MaxCalls  \* calls on the session (a bound)

VARIABLES
  pages,      \* targets that exist
  worlds,     \* contexts that exist
  housed,     \* the context each target was created in, or "none"
  tabs,       \* _tabs: targets with a Tab
  tabContext, \* _tab_context, as a function; "none": no entry
  contexts,   \* _contexts
  current,    \* the tab each thread drives, or "none"
  listening,  \* Tabs of each target subscribed to events
  attaching,  \* the thread that holds the attach lock of each target
  call,       \* each thread: what it is about to do
  arg,        \* the target or context it does it to
  popped,     \* whether its teardown took a Tab out of the table
  creating,   \* threads whose call is new_tab()
  adopting,   \* threads whose call is tab(), with no tab to drive
  exclude,    \* the targets each has failed to attach to
  listed,     \* the tabs each found in the context it disposes of
  closer,     \* the thread that closes the session, or "none"
  left,       \* the contexts, and then the Tabs, it has yet to close
  calls       \* how many calls there have been

sessVars == <<pages, worlds, housed, tabs, tabContext, contexts, current, listening, attaching,
              call, arg, popped, creating, adopting, exclude, listed, closer, left, calls>>
tries == <<creating, adopting, exclude>>
closing == <<closer, left>>
notes == <<popped, tries, listed, closing>>
worldOf == <<pages, worlds, housed>>
tables == <<tabs, tabContext, contexts>>

None == "none"

TypeOK ==
  /\ pages \subseteq Targets /\ worlds \subseteq Contexts
  /\ housed \in [Targets -> Contexts \cup {None}] /\ tabContext \in [Targets -> Contexts \cup {None}]
  /\ tabs \subseteq Targets /\ contexts \subseteq Contexts
  /\ current \in [Threads -> Targets \cup {None}]
  /\ listening \in [Targets -> 0..(Cardinality(Threads) + 1)]
  /\ attaching \in [Targets -> Threads \cup {None}]
  /\ call \in [Threads -> {"idle", "attach", "build", "store", "rollback", "close", "teardown",
                           "unsubscribe", "dispose", "forget", "adopt", "contexts", "tabs", "closed"}]
  /\ popped \in [Threads -> BOOLEAN] /\ creating \cup adopting \subseteq Threads
  /\ exclude \in [Threads -> SUBSET Targets] /\ closer \in Threads \cup {None}
  /\ left \subseteq Targets \cup Contexts
  /\ listed \in [Threads -> SUBSET Targets] /\ calls \in 0..MaxCalls

Init ==
  /\ pages = {} /\ worlds = {} /\ housed = [t \in Targets |-> None]
  /\ tabs = {} /\ tabContext = housed /\ contexts = {}
  /\ current = [p \in Threads |-> None] /\ listening = [t \in Targets |-> 0]
  /\ attaching = [t \in Targets |-> None]
  /\ call = [p \in Threads |-> "idle"] /\ arg = [p \in Threads |-> None]
  /\ popped = [p \in Threads |-> FALSE] /\ creating = {} /\ adopting = {}
  /\ exclude = [p \in Threads |-> {}] /\ closer = None /\ left = {}
  /\ listed = [p \in Threads |-> {}] /\ calls = 0

\* Once close() is over every request is refused.
Online == closer # None => call[closer] # "closed"
Goes(p, to) == call' = [call EXCEPT ![p] = to]
Starts(p, to, x) ==
  /\ call[p] = "idle" /\ calls < MaxCalls /\ calls' = calls + 1 /\ Online
  /\ Goes(p, to) /\ arg' = [arg EXCEPT ![p] = x]
As(p, made, adopted) ==
  /\ creating' = (creating \ {p}) \cup made /\ adopting' = (adopting \ {p}) \cup adopted
  /\ exclude' = [exclude EXCEPT ![p] = {}]

\* A page closes itself.
Vanishes(t) ==
  /\ t \in pages /\ pages' = pages \ {t}
  /\ UNCHANGED <<worlds, housed, tables, current, listening, attaching, call, arg, notes, calls>>

\* new_context(): known as soon as the browser has answered.
NewContext(p, c) ==
  /\ Starts(p, "idle", None) /\ c \notin worlds \cup contexts
  /\ worlds' = worlds \cup {c} /\ contexts' = contexts \cup {c}
  /\ UNCHANGED <<pages, housed, tabs, tabContext, current, listening, attaching, notes>>

\* new_tab(): create the target, note its context, attach; a failure rolls it back.
NewTab(p, t, c) ==
  /\ Starts(p, "attach", t) /\ housed[t] = None /\ t \notin pages /\ t \notin tabs
  /\ c \in (contexts \cap worlds) \cup {None}
  /\ pages' = pages \cup {t} /\ housed' = [housed EXCEPT ![t] = c]
  /\ tabContext' = [tabContext EXCEPT ![t] = c] /\ As(p, {p}, {})
  /\ UNCHANGED <<worlds, tabs, contexts, current, listening, attaching, popped, listed, closing>>

\* tab(target_id), tab() with a current one, or resume_lease().
UseTab(p, t) ==
  /\ Starts(p, "attach", t) /\ As(p, {}, {})
  /\ UNCHANGED <<worldOf, tables, current, listening, attaching, popped, listed, closing>>

\* tab() with none: the daemon names a page that is none of those tried, or makes a fresh one.
AdoptTab(p) ==
  /\ Starts(p, "adopt", None) /\ current[p] = None /\ As(p, {}, {p})
  /\ UNCHANGED <<worldOf, tables, current, listening, attaching, popped, listed, closing>>
Adopted(p) ==
  /\ call[p] = "adopt"
  /\ \/ Online /\ \E t \in Targets \ exclude[p] :
          /\ t \in pages \/ (housed[t] = None /\ t \notin tabs)
          /\ Goes(p, "attach") /\ arg' = [arg EXCEPT ![p] = t] /\ pages' = pages \cup {t}
     \/ Goes(p, "idle") /\ UNCHANGED <<arg, pages>>
  /\ UNCHANGED <<worlds, housed, tables, current, listening, attaching, notes, calls>>

\* _attach(): the lock of the target, then the table.
AttachUnlocked(p) ==           \* mutant: two threads may build the same Tab
  /\ call[p] = "attach"
  /\ IF arg[p] \in tabs
     THEN Goes(p, "idle") /\ current' = [current EXCEPT ![p] = arg[p]]
     ELSE Goes(p, "build") /\ UNCHANGED current
  /\ UNCHANGED <<worldOf, tables, listening, attaching, arg, notes, calls>>
Attach(p) ==
  /\ call[p] = "attach" /\ attaching[arg[p]] = None
  /\ IF arg[p] \in tabs
     THEN Goes(p, "idle") /\ current' = [current EXCEPT ![p] = arg[p]] /\ UNCHANGED attaching
     ELSE Goes(p, "build") /\ attaching' = [attaching EXCEPT ![arg[p]] = p] /\ UNCHANGED current
  /\ UNCHANGED <<worldOf, tables, listening, arg, notes, calls>>

\* Tab(): it subscribes, then installs its runtime; the failure of that unsubscribes it.
Build(p) ==
  /\ call[p] = "build" /\ Goes(p, "store")
  /\ listening' = [listening EXCEPT ![arg[p]] = @ + 1]
  /\ UNCHANGED <<worldOf, tables, current, attaching, arg, notes, calls>>
Built(p) ==
  /\ call[p] = "store" /\ attaching' = [attaching EXCEPT ![arg[p]] = None]
  /\ \/ /\ arg[p] \in pages /\ Online /\ Goes(p, "idle")
        /\ tabs' = tabs \cup {arg[p]} /\ current' = [current EXCEPT ![p] = arg[p]]
        /\ UNCHANGED <<listening, exclude>>
     \/ /\ listening' = [listening EXCEPT ![arg[p]] = @ - 1]
        /\ exclude' = [exclude EXCEPT ![p] = IF p \in adopting THEN @ \cup {arg[p]} ELSE @]
        /\ Goes(p, IF p \in creating THEN "close"
                   ELSE IF p \in adopting /\ Cardinality(exclude[p]) + 1 < MaxTries THEN "adopt" ELSE "idle")
        /\ UNCHANGED <<tabs, current>>
  /\ UNCHANGED <<worldOf, tabContext, contexts, arg, popped, creating, adopting, listed, closing, calls>>

\* close_tab(): the request first, while the Tab still listens; then the teardown, whatever came of it.
CloseTab(p, t) ==
  /\ Starts(p, "close", t) /\ t \in tabs
  /\ UNCHANGED <<worldOf, tables, current, listening, attaching, notes>>
Closed(p) ==
  /\ call[p] = "close" /\ Goes(p, "teardown")
  /\ pages' \in {pages, IF Online THEN pages \ {arg[p]} ELSE pages}
  /\ UNCHANGED <<worlds, housed, tables, current, listening, attaching, arg, notes, calls>>
Teardown(p) ==
  /\ call[p] = "teardown" /\ Goes(p, "unsubscribe")
  /\ popped' = [popped EXCEPT ![p] = arg[p] \in tabs]
  /\ tabs' = tabs \ {arg[p]} /\ tabContext' = [tabContext EXCEPT ![arg[p]] = None]
  /\ UNCHANGED <<worldOf, contexts, current, listening, attaching, arg, tries, listed, closing, calls>>
Unsubscribe(p) ==
  /\ call[p] = "unsubscribe" /\ Goes(p, "idle")
  /\ listening' = [listening EXCEPT ![arg[p]] = IF popped[p] THEN @ - 1 ELSE @]
  /\ popped' = [popped EXCEPT ![p] = FALSE]
  /\ current' = [current EXCEPT ![p] = IF @ = arg[p] THEN None ELSE @]
  /\ UNCHANGED <<worldOf, tables, attaching, arg, tries, listed, closing, calls>>

\* close_context(): the browser disposes of it and of its tabs, and then the tables follow.
Forgets(p, c) ==
  LET its == listed[p] IN
    /\ contexts' = contexts \ {c} /\ tabs' = tabs \ its
    /\ tabContext' = [t \in Targets |-> IF t \in its THEN None ELSE tabContext[t]]
    /\ listening' = [t \in Targets |-> IF t \in its \cap tabs THEN listening[t] - 1 ELSE listening[t]]
    /\ current' = [current EXCEPT ![p] = IF @ \in its THEN None ELSE @]
CloseContext(p, c) ==
  /\ Starts(p, "dispose", c) /\ c \in contexts
  /\ listed' = [listed EXCEPT ![p] = {t \in Targets : tabContext[t] = c}]
  /\ UNCHANGED <<worldOf, tables, current, listening, attaching, popped, tries, closing>>
Returns(p) == Goes(p, IF closer = p THEN "contexts" ELSE "idle")
Dispose(p) ==
  /\ call[p] = "dispose"
  /\ \/ /\ arg[p] \in worlds /\ Online /\ Goes(p, "forget")
        /\ worlds' = worlds \ {arg[p]} /\ pages' = {t \in pages : housed[t] # arg[p]}
     \/ /\ Returns(p) /\ worlds' \in {worlds, IF Online THEN worlds \ {arg[p]} ELSE worlds}
        /\ pages' = {t \in pages : housed[t] \in worlds' \cup {None}}
  /\ UNCHANGED <<housed, tables, current, listening, attaching, arg, notes, calls>>
Forget(p) ==
  /\ call[p] = "forget" /\ Returns(p) /\ Forgets(p, arg[p])
  /\ UNCHANGED <<worldOf, attaching, arg, notes, calls>>

\* close(): each context by itself, whatever came of the one before (an unknown one is refused),
\* then the whole table of Tabs at once, and the connection.
CloseSession(p) ==
  /\ closer = None /\ Starts(p, "contexts", None) /\ closer' = p /\ left' = contexts
  /\ UNCHANGED <<worldOf, tables, current, listening, attaching, popped, tries, listed>>
CloseNext(p) ==
  /\ call[p] = "contexts"
  /\ \E c \in left :
       /\ left' = left \ {c} /\ arg' = [arg EXCEPT ![p] = c]
       /\ listed' = [listed EXCEPT ![p] = {t \in Targets : tabContext[t] = c}]
       /\ Goes(p, IF c \in contexts THEN "dispose" ELSE "contexts")
  /\ UNCHANGED <<worldOf, tables, current, listening, attaching, popped, tries, closer, calls>>
TakeTabs(p) ==
  /\ call[p] = "contexts" /\ left = {} /\ Goes(p, "tabs") /\ left' = tabs /\ tabs' = {}
  /\ UNCHANGED <<worldOf, tabContext, contexts, current, listening, attaching, arg, popped, tries, listed, closer, calls>>
CloseTabs(p) ==
  /\ call[p] = "tabs"
  /\ IF left = {} THEN Goes(p, "closed") /\ UNCHANGED <<left, listening>>
     ELSE \E t \in left : left' = left \ {t} /\ listening' = [listening EXCEPT ![t] = @ - 1] /\ UNCHANGED call
  /\ UNCHANGED <<worldOf, tables, current, attaching, arg, popped, tries, listed, closer, calls>>

Next ==
  \/ \E t \in Targets : Vanishes(t)
  \/ \E p \in Threads :
       \/ \E c \in Contexts : NewContext(p, c) \/ CloseContext(p, c)
       \/ \E t \in Targets : UseTab(p, t) \/ CloseTab(p, t) \/ \E c \in Contexts \cup {None} : NewTab(p, t, c)
       \/ Attach(p) \/ Build(p) \/ Built(p) \/ Closed(p) \/ Teardown(p) \/ Unsubscribe(p)
       \/ Dispose(p) \/ Forget(p) \/ AdoptTab(p) \/ Adopted(p)
       \/ CloseSession(p) \/ CloseNext(p) \/ TakeTabs(p) \/ CloseTabs(p)
Spec == Init /\ [][Next]_sessVars

\* No Tab is forgotten: one that listens to the browser is in the table, where close() finds it, or in
\* the hands of a thread that builds it or takes it down, close() included.
NoTabForgotten ==
  \A t \in Targets :
    listening[t] = (IF t \in tabs THEN 1 ELSE 0)
                   + Cardinality({p \in Threads : arg[p] = t /\ call[p] = "store"})
                   + Cardinality({p \in Threads : arg[p] = t /\ call[p] = "unsubscribe" /\ popped[p]})
                   + Cardinality({p \in Threads : call[p] = "tabs" /\ t \in left})

\* A context of this session that still exists is in the table, so that close() disposes of it: also
\* after a call that was to dispose of it has failed.
ContextIsKnown == worlds \subseteq contexts
=============================================================================
