------------------------------- MODULE PageWorld -------------------------------
(***************************************************************************)
(* What a Tab (harness/ops/page.py) remembers of its browser side: the     *)
(* session it was prepared on (_session_id) and the isolated world of the  *)
(* current document (_world_ctx).  The reader thread (_on_event) forgets   *)
(* the world when the document is replaced; the caller (_sid,              *)
(* _ensure_world, _world_js, cdp) fills it and notices a replaced session. *)
(*                                                                         *)
(* Documents and sessions are numbered.  A world is named by its document. *)
(* `announced` counts the events on the wire, `handled` those the reader   *)
(* has dispatched; an answer is seen after what was announced before it.   *)
(***************************************************************************)
EXTENDS Naturals, Sequences, FiniteSets

CONSTANTS
  MaxDoc,      \* documents the tab ever shows (a bound)
  MaxSession,  \* sessions the registry ever gives it (a bound)
  MaxOps       \* calls (a bound)

VARIABLES
  tab,         \* the Tab: [sid, world, frame, healed]; 0 is None
  op,          \* the call under way: [kind, at, via, ctx, tries, made, stamp, result]
  begun,       \* history: the document and the session when the call began
  ops,         \* how many calls were made
  live,        \* the registry: the live session of the target
  armedOn,     \* sessions that have the safety and runtime scripts
  failedOn,    \* history: sessions on which installing them failed
  doc,         \* the browser: the current document
  withRuntime, \* documents whose world has the runtime
  guarded,     \* documents loaded under the dry-run guard
  announcements, handled

worldVars == <<tab, op, begun, ops, live, armedOn, failedOn, doc, withRuntime, guarded,
               announcements, handled>>
callVars    == <<begun, ops>>
sessionVars == <<live, armedOn, failedOn>>
docVars     == <<doc, withRuntime, guarded>>
wireVars    == <<announcements, handled>>

Docs == 1..MaxDoc
Sessions == 1..MaxSession
Idle == [kind |-> "none", at |-> "idle", via |-> 0, ctx |-> 0, tries |-> 0, made |-> 0, stamp |-> 0,
         result |-> "none"]

TypeOK ==
  /\ tab \in [sid : Sessions, world : 0..MaxDoc, frame : BOOLEAN, healed : SUBSET Docs]
  /\ op.kind \in {"none", "eval", "navigate"}
  /\ op.at \in {"idle", "ensure", "sid", "rearm", "create", "created", "send", "heal", "repeat"}
  /\ op.ctx \in 0..MaxDoc /\ op.via \in 0..MaxSession
  /\ live \in Sessions /\ armedOn \subseteq Sessions
  /\ doc \in Docs /\ withRuntime \subseteq Docs /\ guarded \subseteq Docs
  /\ handled <= Len(announcements)

\* Tab.__init__ and _install_runtime(): the session is prepared, no world exists yet.
Init ==
  /\ tab = [sid |-> 1, world |-> 0, frame |-> FALSE, healed |-> {}]
  /\ op = Idle /\ begun = [doc |-> 1, live |-> 1] /\ ops = 0
  /\ live = 1 /\ armedOn = {1} /\ failedOn = {}
  /\ doc = 1 /\ withRuntime \in {{}, {1}} /\ guarded = {1}
  /\ announcements = <<>> /\ handled = 0

Ends(result) == op' = [Idle EXCEPT !.result = result]
Goes(at) == op' = [op EXCEPT !.at = at]

-----------------------------------------------------------------------------
(* The calls: _world_js(), and a navigation through cdp().                 *)

Begin ==
  /\ op.at = "idle" /\ ops < MaxOps
  /\ ops' = ops + 1 /\ begun' = [doc |-> doc, live |-> live]
  /\ \E kind \in {"eval", "navigate"} :
       op' = [Idle EXCEPT !.kind = kind, !.at = IF kind = "eval" THEN "ensure" ELSE "sid"]
  /\ UNCHANGED <<tab, sessionVars, docVars, wireVars>>

\* _ensure_world(): a world that is remembered is used without asking.
EnsureWorld ==
  /\ op.at = "ensure"
  /\ op' = IF tab.world # 0 THEN [op EXCEPT !.ctx = tab.world, !.at = "sid"]
           ELSE [op EXCEPT !.ctx = 0, !.at = "sid"]
  /\ UNCHANGED <<tab, callVars, sessionVars, docVars, wireVars>>

\* What follows _sid(): a world is created, or the request is sent.
AfterSid == IF op.kind = "eval" /\ op.ctx = 0 THEN "create" ELSE "send"

SidPlain ==   \* mutant: a changed session is only noted
  /\ op.at = "sid"
  /\ op' = [op EXCEPT !.via = live, !.at = AfterSid]
  /\ tab' = [tab EXCEPT !.sid = live, !.world = IF live # tab.sid THEN 0 ELSE @]
  /\ UNCHANGED <<callVars, sessionVars, docVars, wireVars>>

\* _sid(): the registry's live session; one that is new is armed before the call proceeds.
Sid ==
  /\ op.at = "sid"
  /\ op' = [op EXCEPT !.via = live, !.at = IF live = tab.sid THEN AfterSid ELSE "rearm"]
  /\ tab' = IF live = tab.sid THEN tab ELSE [tab EXCEPT !.sid = live, !.world = 0]
  /\ UNCHANGED <<callVars, sessionVars, docVars, wireVars>>

\* _rearm_session(): prepare_runtime() installs the scripts, in the current document too, on
\* what is the live session by then; or it fails, and the call with it.
Rearm ==
  /\ op.at = "rearm"
  /\ \/ /\ armedOn' = armedOn \cup {live}
        /\ withRuntime' = withRuntime \cup {doc} /\ guarded' = guarded \cup {doc}
        /\ tab' = [tab EXCEPT !.sid = live]
        /\ Goes(AfterSid)
        /\ UNCHANGED <<live, failedOn, doc>>
     \/ /\ live \notin armedOn
        /\ failedOn' = failedOn \cup {live}
        /\ Ends("failed")
        /\ UNCHANGED <<tab, live, armedOn, docVars>>
  /\ UNCHANGED <<callVars, wireVars>>

\* Page.getFrameTree unless the frame is known, then Page.createIsolatedWorld.
CreateWorld ==
  /\ op.at = "create" /\ op.via = live
  /\ op' = [op EXCEPT !.at = "created", !.made = doc, !.stamp = Len(announcements)]
  /\ tab' = [tab EXCEPT !.frame = TRUE]
  /\ UNCHANGED <<callVars, sessionVars, docVars, wireVars>>

\* Without a world the expression is evaluated in the main world.
CreateWorldFails ==
  /\ op.at = "create"
  /\ op.via # live \/ tab.frame
  /\ tab' = [tab EXCEPT !.frame = FALSE]
  /\ Ends("main")
  /\ UNCHANGED <<callVars, sessionVars, docVars, wireVars>>

\* The reader may have forgotten a world, and another document come, meanwhile.
WorldCreated ==
  /\ op.at = "created" /\ handled >= op.stamp
  /\ tab' = [tab EXCEPT !.world = op.made]
  /\ op' = [op EXCEPT !.ctx = op.made, !.at = "sid", !.made = 0, !.stamp = 0]
  /\ UNCHANGED <<callVars, sessionVars, docVars, wireVars>>

\* Runtime.evaluate in the world `ctx`.  A world without the runtime makes the expression
\* throw.
Evaluate ==
  /\ op.at = "send" /\ op.kind = "eval" /\ op.via = live /\ op.ctx = doc
  /\ IF doc \in withRuntime THEN Ends("ok")
     ELSE IF doc \in tab.healed THEN Ends("exception")
     ELSE Goes("heal")
  /\ tab' = IF doc \in withRuntime THEN tab ELSE [tab EXCEPT !.healed = @ \cup {doc}]
  /\ UNCHANGED <<callVars, sessionVars, docVars, wireVars>>

\* The runtime is installed once more, and the expression tried again.
Heal ==
  /\ op.at = "heal"
  /\ IF op.ctx = doc THEN withRuntime' = withRuntime \cup {doc} /\ Ends("ok")
     ELSE Ends("exception") /\ UNCHANGED withRuntime
  /\ UNCHANGED <<tab, callVars, sessionVars, doc, guarded, wireVars>>

\* The context died: it is rebuilt once.
EvaluateFails ==
  /\ op.at = "send" /\ op.kind = "eval" /\ op.via = live /\ op.ctx # doc
  /\ IF op.tries = 0
     THEN tab' = [tab EXCEPT !.world = 0] /\ op' = [op EXCEPT !.tries = 1, !.at = "ensure"]
     ELSE Ends("context") /\ UNCHANGED tab
  /\ UNCHANGED <<callVars, sessionVars, docVars, wireVars>>

\* The session died between _sid() and the request.
SessionGone ==
  /\ op.at = "send" /\ op.via # live
  /\ Ends("stale")
  /\ UNCHANGED <<tab, callVars, sessionVars, docVars, wireVars>>

\* Page.navigate: the scripts registered on the session run in the new document.
Navigate ==
  /\ op.at = "send" /\ op.kind = "navigate" /\ op.via = live /\ doc < MaxDoc
  /\ doc' = doc + 1
  /\ IF live \in armedOn
     THEN withRuntime' = withRuntime \cup {doc'} /\ guarded' = guarded \cup {doc'}
     ELSE UNCHANGED <<withRuntime, guarded>>
  /\ announcements' = Append(announcements, live)
  /\ Ends("navigated")
  /\ UNCHANGED <<tab, callVars, sessionVars, handled>>

Caller ==
  \/ Begin \/ EnsureWorld \/ Sid \/ Rearm \/ CreateWorld \/ CreateWorldFails \/ WorldCreated
  \/ Evaluate \/ Heal \/ EvaluateFails \/ SessionGone \/ Navigate

-----------------------------------------------------------------------------
(* The reader, the browser and the registry.                               *)

\* _on_event() of Page.frameNavigated or Runtime.executionContextsCleared; an event of a
\* session that is not the Tab's is another tab's.
OnReplaced ==
  /\ handled < Len(announcements)
  /\ handled' = handled + 1
  /\ tab' = IF announcements[handled'] = tab.sid THEN [tab EXCEPT !.world = 0, !.frame = TRUE] ELSE tab
  /\ UNCHANGED <<op, callVars, sessionVars, docVars, announcements>>

\* The page navigates by itself.
PageNavigates ==
  /\ doc < MaxDoc
  /\ doc' = doc + 1
  /\ IF live \in armedOn
     THEN withRuntime' = withRuntime \cup {doc'} /\ guarded' = guarded \cup {doc'}
     ELSE UNCHANGED <<withRuntime, guarded>>
  /\ announcements' = Append(announcements, live)
  /\ UNCHANGED <<tab, op, callVars, sessionVars, handled>>

\* The session was detached, and the next who asks is given a new one.
SessionReplaced ==
  /\ live < MaxSession
  /\ live' = live + 1
  /\ UNCHANGED <<tab, op, callVars, armedOn, failedOn, docVars, wireVars>>

Next == Caller \/ OnReplaced \/ PageNavigates \/ SessionReplaced

Spec == Init /\ [][Next]_worldVars

-----------------------------------------------------------------------------
(* Properties.                                                             *)

\* However the reader's forgetting raced the caller's remembering in this call or an
\* earlier one, an evaluation fails for its context only if the document was replaced while
\* it was under way.
FailsOnlyIfReplaced == op.result = "context" => doc # begun.doc

\* A navigation the program asks for loads a document under the dry-run guard, whatever
\* became of the session before, as long as the scripts could be installed on it.
NavigatesGuarded ==
  [][op.kind = "navigate" /\ op'.result = "navigated" => doc' \in guarded' \/ live \in failedOn]_worldVars

-----------------------------------------------------------------------------
(* What the source says and the code does not do.                          *)

\* page.py:1438 "the next navigation would simply load without the dry-run guard": a session
\* on which the installation failed is noted as the Tab's all the same, and not armed again.
AlwaysGuarded ==
  [][op.kind = "navigate" /\ op'.result = "navigated" => doc' \in guarded']_worldVars
=============================================================================
