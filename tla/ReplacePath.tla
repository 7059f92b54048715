----------------------------- MODULE ReplacePath -----------------------------
(***************************************************************************)
(* Typing without underline in an application that has surrounding text    *)
(* (PinaKeyState, fcitx5/src/pinakey.cpp): the addon asks the application  *)
(* to delete what the word looked like and commits what it looks like now. *)
(* It decides from a cache: what the application last reported of its      *)
(* text.  Reports come late, come empty, or never come; the cursor moves   *)
(* and selections appear.  When the cache is no ground to stand on, the    *)
(* word is composed in a preedit instead.                                  *)
(***************************************************************************)
EXTENDS KeyEngine

CONSTANTS
  Keys,           \* the keys the user types
  MaxKeys,        \* bound: how many keys are typed
  Apps,           \* the applications focus may go to
  HoldsText,      \* an application holds some text already when focus comes to it
  StaleReports,   \* a report may arrive that is older than the last write
  ReportFirst,    \* the gaps after which the next key waits for a report
  Happenings,     \* what the user does besides typing, a subset of Happening
  ClientPreedit   \* CapabilityFlag::Preedit of the application

\* An editor reports its text whenever it changes.  A lazy one (fcitx5-gtk)
\* reports the addon's writes when it is idle.  A shy one may also report an
\* empty text or withdraw its report.  A terminal reports nothing and ignores
\* deletions.
App == {"editor", "lazy", "shy", "terminal"}

Happening == {"move", "select", "reset", "focus", "switch"}

\* What the addon cannot infer of its own write: see Gap below.
GapKind == {"erase", "empty", "repeat"}

ASSUME ReplaceAssumption ==
  /\ Keys \subseteq Key /\ MaxKeys \in Nat
  /\ Apps \subseteq App /\ HoldsText \in BOOLEAN
  /\ StaleReports \in BOOLEAN
  /\ ReportFirst \subseteq GapKind /\ Happenings \subseteq Happening
  /\ ClientPreedit \in BOOLEAN

VARIABLES
  doc,        \* the application's text before the cursor
  rest,       \* and after it
  selected,   \* some text is selected, beside doc and rest
  app,        \* the application that has the focus
  focused,    \* some application has it
  cache,      \* SurroundingText: valid, text before the cursor, more text, selection
  report,     \* a report on its way
  panel,      \* the preedit shown
  core,       \* the PkEngine behind core_
  latch,      \* surroundingUnbacked_
  wire,       \* keys typed and not yet handled
  gap,        \* history: what the last write left out of the cache
  swallowed,  \* history: a deletion did not delete before the cursor
  typed       \* history: how many keys were typed

textVars == <<doc, rest, selected, swallowed>>
stateVars == <<core, panel, latch>>
focusVars == <<app, focused>>
vars == <<doc, rest, selected, app, focused, cache, report, panel, core, latch, wire, gap,
          swallowed, typed>>

Existing == IF HoldsText THEN <<"a">> ELSE <<>>

Cache == [valid : BOOLEAN, before : Text, more : BOOLEAN, selected : BOOLEAN]

Invalid  == [valid |-> FALSE, before |-> <<>>, more |-> FALSE, selected |-> FALSE]
Blank    == [Invalid EXCEPT !.valid = TRUE]
NoReport == [kind |-> "none"]

EndsWith(t, s) == Len(s) <= Len(t) /\ SubSeq(t, Len(t) - Len(s) + 1, Len(t)) = s

StartsWith(t, s) == Len(s) <= Len(t) /\ SubSeq(t, 1, Len(s)) = s

-----------------------------------------------------------------------------
(***************************************************************************)
(* The application.                                                        *)
(***************************************************************************)
Snapshot(d, r, s) ==
  [valid |-> TRUE, before |-> d, more |-> r # <<>> \/ s, selected |-> s]

\* What it may report of a text; a terminal leaves the cache as it is.
Reports(a, d, r, s) ==
  CASE a \in {"editor", "lazy"} -> {Snapshot(d, r, s)}
    [] a = "shy" -> {Snapshot(d, r, s), Blank, Invalid}
    [] a = "terminal" -> {cache}

\* deleteSurroundingText: applied to the selection where there is one (#60).
Lands == app # "terminal" /\ ~selected

Written(n, ins) == (IF n > 0 /\ Lands THEN DropLast(doc, n) ELSE doc) \o ins

StillSelected(n, ins) == selected /\ n = 0 /\ ins = <<>>

\* A key that reaches the application; a Backspace removes a selection first.
Received(d, s, k) == IF s /\ k = Backspace THEN d ELSE Deliver(d, k)

-----------------------------------------------------------------------------
(***************************************************************************)
(* What the addon makes of the cache.                                      *)
(***************************************************************************)
\* surroundingUsable() and not surroundingHasSelection().
Usable == cache.valid /\ ~cache.selected

\* The client reports some text, be it after the cursor.
Reported == cache.valid /\ (cache.before # <<>> \/ cache.more)

\* surroundingBacksSegment(): an empty report is a lie when the core has a
\* segment in the text; the verdict stays until the client reports text.
Unbacked == ~Reported /\ (latch \/ core.prev # <<>>)

Latch == IF Usable THEN Unbacked ELSE latch

ReplaceMode == Usable /\ ~Unbacked

\* Mutant: the cursor is never checked (#7).
NeverDiverged == FALSE

\* resetIfDocumentDiverged(): the segment does not stand before the cursor.
Diverged == core.prev # <<>> /\ ~EndsWith(cache.before, core.prev)

CoreAtCursor == IF Diverged THEN FreshCore ELSE core

\* Mutant: the cache is left as the client last reported it (#181).
NotSynced(n, ins) == cache

\* syncSurroundingAfterOwnWrite(): the write is repeated in the cache, unless
\* there is no trace of it to recognise, nothing to build on, or the text
\* before the cursor already ends as if the client had reported it.
Synced(n, ins) ==
  IF ins = <<>> \/ ~Reported \/ EndsWith(cache.before, ins)
  THEN cache
  ELSE [cache EXCEPT !.before = DropLast(@, n) \o ins, !.selected = FALSE]

\* Which of the three it was.
Gap(n, ins) ==
  CASE n = 0 /\ ins = <<>> -> gap
    [] app = "editor" -> "none"
    [] ins = <<>> -> "erase"
    [] ins # <<>> /\ ~Reported -> "empty"
    [] ins # <<>> /\ Reported /\ EndsWith(cache.before, ins) -> "repeat"
    [] OTHER -> gap

-----------------------------------------------------------------------------
(***************************************************************************)
(* keyEvent().                                                             *)
(***************************************************************************)
\* What the application does by itself it reports at once, behind any report
\* on its way; the addon's writes it may report later.
Tell(toApp, touched, synced) ==
  \/ /\ toApp \/ (touched /\ app \in {"editor", "shy"})
     /\ cache' \in Reports(app, doc', rest, selected')
     /\ report' = NoReport
  \/ /\ ~toApp /\ (touched => app # "editor")
     /\ cache' = IF touched THEN synced ELSE cache
     /\ report' = report

\* The replace branch, with applyReplaceResult().
ReplaceKey(k) ==
  LET r == ProcessKeyReplace(CoreAtCursor, k)
      toApp == ~r.handled /\ k # Shift
      text == Written(r.delete, r.insert)
      sel == StillSelected(r.delete, r.insert)
  IN  /\ doc' = IF toApp THEN Received(text, sel, k) ELSE text
      /\ selected' = (sel /\ ~toApp)
      /\ swallowed' = (swallowed \/ (r.delete > 0 /\ ~Lands))
      /\ core' = r.core
      /\ panel' = <<>>
      /\ gap' = IF toApp THEN "none" ELSE Gap(r.delete, r.insert)
      /\ Tell(toApp, r.delete > 0 \/ r.insert # <<>>, Synced(r.delete, r.insert))

\* Mutant: the core keeps the segment it has in the document.
KeepsSegment == core

\* In mid-word the core forgets the segment before a preedit begins.
CoreForPreedit == IF core.prev # <<>> THEN FreshCore ELSE core

\* The preedit branch, with applyResult().
PreeditKey(k) ==
  LET r == ProcessKey(CoreForPreedit, k)
      toApp == ~r.handled /\ k # Shift
      sel == StillSelected(0, r.commit)
  IN  /\ doc' = IF toApp THEN Received(doc \o r.commit, sel, k) ELSE doc \o r.commit
      /\ selected' = (sel /\ ~toApp)
      /\ core' = r.core
      /\ panel' = r.core.preedit
      /\ gap' = IF toApp THEN "none" ELSE gap
      /\ Tell(toApp, r.commit # <<>>, cache)
      /\ UNCHANGED swallowed

KeyEvent ==
  /\ focused /\ wire # <<>>
  /\ gap \notin ReportFirst
  /\ wire' = Tail(wire)
  /\ latch' = Latch
  /\ \/ ReplaceMode /\ ReplaceKey(Head(wire))
     \/ ~ReplaceMode /\ PreeditKey(Head(wire))
  /\ UNCHANGED <<rest, focusVars, typed>>

-----------------------------------------------------------------------------
(***************************************************************************)
(* reset(), deactivate() and a change of focus.  Input events come in      *)
(* order: keys typed before are handled before.                            *)
(***************************************************************************)
Reset ==
  /\ "reset" \in Happenings
  /\ focused /\ wire = <<>>
  /\ core' = FreshCore
  /\ panel' = <<>>
  /\ latch' = FALSE
  /\ UNCHANGED <<textVars, focusVars, cache, report, wire, gap, typed>>

\* Mutant: the text of the application that was left stays in the cache.
CacheSurvives(imSwitch) == cache

\* All applications may share one input context: what the last one reported
\* says nothing of the next.
CacheAfterLeaving(imSwitch) == IF imSwitch THEN cache ELSE Invalid

\* deactivate(): who keeps the preedit.
Deactivate(imSwitch) ==
  /\ IF imSwitch THEN "switch" \in Happenings ELSE "focus" \in Happenings
  /\ focused /\ wire = <<>>
  /\ LET mustCommit == imSwitch \/ ~ClientPreedit
         kept == CASE ~mustCommit -> panel
                   [] mustCommit /\ ReplaceMode -> <<>>
                   [] mustCommit /\ ~ReplaceMode -> core.preedit
     IN  /\ doc' = doc \o kept
         /\ selected' = StillSelected(0, kept)
  /\ core' = FreshCore
  /\ panel' = <<>>
  /\ latch' = (imSwitch /\ Latch)
  /\ cache' = CacheAfterLeaving(imSwitch)
  /\ focused' = imSwitch
  /\ report' = IF imSwitch THEN report ELSE NoReport
  /\ UNCHANGED <<rest, swallowed, app, wire, gap, typed>>

\* The next application may report its text when focus comes to it.
FocusIn(a) ==
  /\ ~focused
  /\ focused' = TRUE
  /\ app' = a
  /\ doc' = Existing /\ rest' = <<>> /\ selected' = FALSE
  /\ cache' \in {cache} \cup Reports(a, Existing, <<>>, FALSE)
  /\ gap' = "none"
  /\ UNCHANGED <<stateVars, report, wire, swallowed, typed>>

-----------------------------------------------------------------------------
(***************************************************************************)
(* The user and the application.                                           *)
(***************************************************************************)
Type(k) ==
  /\ focused /\ typed < MaxKeys
  /\ wire' = Append(wire, k)
  /\ typed' = typed + 1
  /\ UNCHANGED <<textVars, focusVars, stateVars, cache, report, gap>>

\* The user clicks elsewhere in the text; no reset need come with it.
Move ==
  /\ "move" \in Happenings
  /\ focused /\ wire = <<>> /\ panel = <<>>
  /\ \E i \in 0 .. Len(doc \o rest) :
       /\ doc' = SubSeq(doc \o rest, 1, i)
       /\ rest' = SubSeq(doc \o rest, i + 1, Len(doc \o rest))
  /\ selected' = FALSE
  /\ cache' \in Reports(app, doc', rest', FALSE)
  /\ report' = NoReport
  /\ gap' = "none"
  /\ UNCHANGED <<focusVars, stateVars, wire, swallowed, typed>>

\* A selection appears (the user's, or a completion) or goes.
Select ==
  /\ "select" \in Happenings
  /\ focused
  /\ selected' = ~selected
  /\ cache' \in Reports(app, doc, rest, ~selected)
  /\ report' = NoReport
  /\ gap' = "none"
  /\ UNCHANGED <<doc, rest, swallowed, focusVars, stateVars, wire, typed>>

SendReport ==
  /\ focused /\ app # "terminal" /\ report = NoReport
  /\ report' \in Reports(app, doc, rest, selected)
  /\ UNCHANGED <<textVars, focusVars, stateVars, cache, wire, gap, typed>>

ReceiveReport ==
  /\ focused /\ report # NoReport
  /\ StaleReports \/ report \in Reports(app, doc, rest, selected)
  /\ cache' = report
  /\ report' = NoReport
  /\ gap' = "none"
  /\ UNCHANGED <<textVars, focusVars, stateVars, wire, typed>>

\* A report that is out of date is followed by a newer one.
DropReport ==
  /\ focused /\ report # NoReport
  /\ ~StaleReports /\ report \notin Reports(app, doc, rest, selected)
  /\ report' = NoReport
  /\ UNCHANGED <<textVars, focusVars, stateVars, cache, wire, gap, typed>>

Init ==
  /\ doc = Existing /\ rest = <<>> /\ selected = FALSE
  /\ app \in Apps /\ focused = TRUE
  /\ cache = Invalid /\ report = NoReport
  /\ panel = <<>> /\ core = FreshCore /\ latch = FALSE
  /\ wire = <<>> /\ gap = "none" /\ swallowed = FALSE /\ typed = 0

Next ==
  \/ KeyEvent
  \/ Reset
  \/ \E imSwitch \in BOOLEAN : Deactivate(imSwitch)
  \/ \E a \in Apps : FocusIn(a)
  \/ \E k \in Keys : Type(k)
  \/ Move
  \/ Select
  \/ SendReport
  \/ ReceiveReport
  \/ DropReport

Spec == Init /\ [][Next]_vars

-----------------------------------------------------------------------------
(***************************************************************************)
(* What the addon promises.                                                *)
(***************************************************************************)
\* Every variable has its type.
TypeOK ==
  /\ doc \in Text /\ rest \in Text /\ selected \in BOOLEAN
  /\ app \in App /\ focused \in BOOLEAN
  /\ cache \in Cache /\ report \in Cache \cup {NoReport}
  /\ panel \in Text /\ core \in Core /\ latch \in BOOLEAN
  /\ wire \in Seq(Key) /\ gap \in GapKind \cup {"none"}
  /\ swallowed \in BOOLEAN /\ typed \in Nat

\* A key takes nothing from the document but the segment the core has put
\* there, and that only where it stands before the cursor (#7, #180), however
\* old the report was; a Backspace the core leaves to the application is the
\* user's own.
OwnTextOnly ==
  [][KeyEvent =>
       \/ Head(wire) = Backspace /\ doc' = DropLast(doc, 1)
       \/ StartsWith(doc', IF EndsWith(doc, core.prev) THEN DropLast(doc, Len(core.prev))
                                                       ELSE doc)]_vars

\* A deletion is only asked of an application that deletes before the cursor:
\* never of a terminal that was mistaken for the editor that had the focus
\* before, never with text selected (#60, #179).
EveryDeletionLands == ~swallowed

\* The word is in the document or in the preedit, never in both: changing
\* paths in mid-word doubles nothing.
ShownOnce == panel = <<>> \/ core.prev = <<>>

\* Once a client was caught, the core has nothing in its text (#180): the
\* whole word goes through the preedit.
LatchedTracksNothing == latch => core.prev = <<>>

\* A client that is merely late is not taken for a cursor that moved: where
\* the segment does stand before the cursor, the cache says so too, so that
\* the next key finds the word it continues (#181).
NoFalseDivergence ==
  Reported /\ EndsWith(doc, core.prev) /\ gap \notin ReportFirst
    => EndsWith(cache.before, core.prev)

\* Leaving commits what nobody has committed, and nothing twice (#6): with no
\* preedit on the screen there is nothing to commit.
NothingTwice ==
  [][\A imSwitch \in BOOLEAN : Deactivate(imSwitch) /\ panel = <<>> => doc' = doc]_vars
==============================================================================
