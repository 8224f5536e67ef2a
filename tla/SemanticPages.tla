----------------------------- MODULE SemanticPages -----------------------------
(***************************************************************************)
(* Reading a page in versions: read_page() of harness/ops/page.py with the *)
(* script that extracts the blocks, and SemanticPageCache of               *)
(* harness/ops/semantic.py.  A read answers with the blocks that changed   *)
(* since the last one, a window of them with a cursor to go on with; a     *)
(* cursor belongs to one version of the document.                          *)
(*                                                                         *)
(* A digest stands for what it is taken of: it is that text or version     *)
(* itself.  The caller keeps a mirror of the page from what it is told.    *)
(***************************************************************************)
EXTENDS Naturals, Sequences, FiniteSets

CONSTANTS
  Documents, \* what the tab may show: sequences of [path, kind, main, text]
  MaxBlocks, \* blocks an extraction returns at most (500 in the code)
  Budgets    \* the max_chars a caller asks for

VARIABLES
  shown,     \* the document in the tab
  latest,    \* the last entry of _documents, a sequence of none or one
  reading,   \* the evaluation under way: what it was asked and what it has found
  cursor,    \* the caller's cursor, a sequence of none or one
  mirror,    \* what it has put together: key -> text
  lost,      \* history: keys it was never told the news of
  strayed    \* history: a cursor went on with other blocks than it was issued for

readVars == <<shown, latest, reading, cursor, mirror, lost, strayed>>

-----------------------------------------------------------------------------
(* The script: the cap takes text first, then controls, regions and link   *)
(* groups, and what is left is put in the order of the document.           *)

KindOrder == <<"text", "control", "region", "links">>
\* The numbers of a set, up to the n-th, in order.
InOrder(S, n) ==
  LET Of[i \in 0..n] == IF i = 0 THEN <<>> ELSE IF i \in S THEN Append(Of[i - 1], i) ELSE Of[i - 1]
  IN  Of[n]
Rank(d, i) == CHOOSE k \in DOMAIN KindOrder : KindOrder[k] = d[i].kind
Scope(d, contentOnly) == {i \in DOMAIN d : contentOnly => d[i].main}
Kept(d, scope) ==
  {i \in scope : Cardinality({j \in scope : Rank(d, j) < Rank(d, i) \/ (Rank(d, j) = Rank(d, i) /\ j < i)}) < MaxBlocks}
Extract(d, contentOnly) ==
  LET scope == Scope(d, contentOnly)
      rows == InOrder(Kept(d, scope), Len(d))
  IN  [blocks |-> [k \in DOMAIN rows |-> [path |-> d[rows[k]].path, text |-> d[rows[k]].text]],
       candidates |-> Cardinality(scope), cut |-> Kept(d, scope) # scope]

-----------------------------------------------------------------------------
(* _make_document(): keys, the version and what changed.                   *)

\* Blocks of one path are told apart by their order.
KeyAt(blocks, i) == <<blocks[i].path, Cardinality({j \in 1..(i - 1) : blocks[j].path = blocks[i].path})>>
KeysOf(raw) == {KeyAt(raw.blocks, i) : i \in DOMAIN raw.blocks}
TextOf(raw, key) == raw.blocks[CHOOSE i \in DOMAIN raw.blocks : KeyAt(raw.blocks, i) = key].text

Changed(old, raw) ==
  InOrder({i \in DOMAIN raw.blocks :
             \/ old = <<>>
             \/ KeyAt(raw.blocks, i) \notin KeysOf(old[1].raw)
             \/ TextOf(old[1].raw, KeyAt(raw.blocks, i)) # raw.blocks[i].text}, Len(raw.blocks))
Gone(old, raw) == IF old = <<>> THEN {} ELSE KeysOf(old[1].raw) \ KeysOf(raw)
MakeDocument(old, raw) == [raw |-> raw, emits |-> Changed(old, raw), removed |-> Gone(old, raw)]

\* The entry a read goes on with: the one it has, when the version is the same, whose blocks to
\* emit are those of the read that found it.
Same(raw) == latest # <<>> /\ latest[1].raw = raw
Current(raw) == IF Same(raw) THEN latest[1] ELSE MakeDocument(latest, raw)

Emitted(doc, k) == KeyAt(doc.raw.blocks, doc.emits[k])
Text(doc, k) == doc.raw.blocks[doc.emits[k]].text
Before(doc, k) ==
  LET Sum[n \in 0..Len(doc.emits)] == IF n = 0 THEN 0 ELSE Sum[n - 1] + Len(Text(doc, n))
  IN  Sum[k - 1]
EmitsAll(doc) == {Emitted(doc, k) : k \in DOMAIN doc.emits}

\* _window(): from the cursor on, as many characters as asked for; a block without text costs
\* nothing.  The next cursor is at the first block that is not through.
Upto(doc, pos, off, limit) == Before(doc, pos) + off + limit
Through(doc, k, end) == Before(doc, k) + Len(Text(doc, k)) <= end
Unread(doc, pos, end) == {k \in pos..Len(doc.emits) : ~Through(doc, k, end)}
Least(S) == CHOOSE k \in S : \A j \in S : k <= j
NextCursor(doc, pos, end) ==
  IF Unread(doc, pos, end) = {} THEN <<>>
  ELSE LET k == Least(Unread(doc, pos, end)) IN
       <<[raw |-> doc.raw, pos |-> k, off |-> end - Before(doc, k), of |-> doc.emits]>>

-----------------------------------------------------------------------------
TypeOK ==
  /\ shown \in Documents
  /\ Len(latest) <= 1 /\ Len(reading) <= 1 /\ Len(cursor) <= 1
  /\ strayed \in BOOLEAN

Init ==
  /\ shown \in Documents /\ latest = <<>> /\ reading = <<>> /\ cursor = <<>>
  /\ mirror = <<>> /\ lost = {} /\ strayed = FALSE

PageChanges ==
  /\ shown' \in Documents \ {shown}
  /\ UNCHANGED <<latest, reading, cursor, mirror, lost, strayed>>

\* _page_digest(): the evaluation, before the lock is taken.  A caller goes on with its cursor,
\* reads anew, or reads the text from an offset, the way without versions.
Evaluate ==
  /\ reading = <<>>
  /\ \E how \in {"cursor", "new", "offset"}, contentOnly \in BOOLEAN, n \in Budgets :
       /\ how = "cursor" => cursor # <<>>
       /\ reading' = <<[how |-> how, limit |-> n, raw |-> Extract(shown, contentOnly)]>>
  /\ UNCHANGED <<shown, latest, cursor, mirror, lost, strayed>>

\* The caller merges the window into its mirror.
Merges(doc, pos, off, end, removed) ==
  LET last == IF NextCursor(doc, pos, end) = <<>> THEN Len(doc.emits) ELSE NextCursor(doc, pos, end)[1].pos
      Upper(k) == IF Through(doc, k, end) THEN Len(Text(doc, k)) ELSE end - Before(doc, k)
      From(k) == IF k = pos THEN off ELSE 0
      Got(key) == {k \in pos..last : Emitted(doc, k) = key /\ (Upper(k) > From(k) \/ Text(doc, k) = <<>>)}
      told == {Emitted(doc, k) : k \in {i \in pos..last : Got(Emitted(doc, i)) # {}}}
      Piece(k) == SubSeq(Text(doc, k), From(k) + 1, Upper(k))
      Have(key) == IF key \in DOMAIN mirror THEN mirror[key] ELSE <<>>
  IN  /\ mirror' = [key \in (DOMAIN mirror \ removed) \cup told |->
                      IF key \notin told THEN mirror[key]
                      ELSE LET k == Least(Got(key)) IN
                           IF From(k) = 0 THEN Piece(k) ELSE Have(key) \o Piece(k)]
      /\ cursor' = NextCursor(doc, pos, end)

\* The blocks a caller leaves behind when it drops its cursor.
Rest == IF cursor = <<>> THEN {}
        ELSE {KeyAt(cursor[1].raw.blocks, cursor[1].of[k]) : k \in cursor[1].pos..Len(cursor[1].of)}

RefusedLate ==   \* mutant: the new version is kept before the cursor is refused
  /\ reading # <<>> /\ reading[1].how = "cursor" /\ cursor[1].raw # reading[1].raw
  /\ latest' = <<Current(reading[1].raw)>>
  /\ cursor' = <<>> /\ lost' = lost \cup Rest /\ reading' = <<>>
  /\ UNCHANGED <<shown, mirror, strayed>>

\* A cursor of another version: DocumentVersionStale, and the new version is not recorded.
Refused ==
  /\ reading # <<>> /\ reading[1].how = "cursor" /\ cursor[1].raw # reading[1].raw
  /\ cursor' = <<>> /\ lost' = lost \cup Rest /\ reading' = <<>>
  /\ UNCHANGED <<shown, latest, mirror, strayed>>

Continues ==
  /\ reading # <<>> /\ reading[1].how = "cursor" /\ cursor[1].raw = reading[1].raw
  /\ LET doc == Current(reading[1].raw)
         pos == cursor[1].pos
         off == cursor[1].off
     IN  /\ latest' = <<doc>>
         /\ Merges(doc, pos, off, Upto(doc, pos, off, reading[1].limit), {})
         /\ strayed' = (strayed \/ doc.emits # cursor[1].of)
  /\ reading' = <<>>
  /\ UNCHANGED <<shown, lost>>

\* A read that finds the version it had names the blocks and repeats none: a cursor stays good.
Unchanged ==
  /\ reading # <<>> /\ reading[1].how = "new" /\ Same(reading[1].raw)
  /\ reading' = <<>>
  /\ UNCHANGED <<shown, latest, cursor, mirror, lost, strayed>>

Reads ==
  /\ reading # <<>> /\ reading[1].how = "new" /\ ~Same(reading[1].raw)
  /\ LET doc == Current(reading[1].raw) IN
       /\ latest' = <<doc>>
       /\ Merges(doc, 1, 0, reading[1].limit, doc.removed)
       /\ lost' = (lost \cup Rest) \ (EmitsAll(doc) \cup doc.removed)
  /\ reading' = <<>>
  /\ UNCHANGED <<shown, strayed>>

\* Text from an offset: no blocks, and the version is recorded all the same.
ReadsText ==
  /\ reading # <<>> /\ reading[1].how = "offset"
  /\ LET doc == Current(reading[1].raw) IN
       /\ latest' = <<doc>>
       /\ lost' = IF Same(reading[1].raw) THEN lost ELSE lost \cup EmitsAll(doc) \cup doc.removed
  /\ reading' = <<>>
  /\ UNCHANGED <<shown, cursor, mirror, strayed>>

Next == PageChanges \/ Evaluate \/ Refused \/ Continues \/ Unchanged \/ Reads \/ ReadsText
Spec == Init /\ [][Next]_readVars

\* A caller that follows its cursors to their end has the version of the document the cache has,
\* block for block, but for the blocks whose news it has dropped itself: a window ends anywhere,
\* a stale cursor is refused and does not use up what it would have brought.
MirrorIsThePage ==
  ~strayed /\ cursor = <<>> /\ latest # <<>> =>
    \A key \in (KeysOf(latest[1].raw) \cup DOMAIN mirror) \ lost :
      /\ key \in DOMAIN mirror /\ key \in KeysOf(latest[1].raw)
      /\ mirror[key] = TextOf(latest[1].raw, key)

\* What the documentation says: a cursor "belongs to one exact document generation; if the page
\* changes, `read_page(cursor=...)` raises typed `DocumentVersionStale`" (SKILL.md:102-103), and
\* the source: "an already-issued cursor remains stable" (semantic.py:210-211).
CursorIsStable == ~strayed
=============================================================================
