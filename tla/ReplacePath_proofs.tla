--------------------------- MODULE ReplacePath_proofs ---------------------------
(***************************************************************************)
(* The safety of editing in place, for every value of the constants: every *)
(* deletion lands, the word is in one place, a client that was caught is   *)
(* left alone.                                                             *)
(***************************************************************************)
EXTENDS ReplacePathRefines, KeyEngine_proofs

\* A terminal never has a report in the cache, nor has anyone between two
\* applications.
NobodyReports ==
  app = "terminal" \/ ~focused => cache = Invalid /\ report = NoReport

\* A report of some text does not conceal a selection.
Tells(c) == c # NoReport /\ c.valid /\ (c.before # <<>> \/ c.more) => c.selected

SelectionTold == selected => Tells(cache) /\ Tells(report)

\* The inductive invariant.
IInv ==
  /\ TypeOK
  /\ EveryDeletionLands
  /\ ShownOnce
  /\ LatchedTracksNothing
  /\ NobodyReports
  /\ SelectionTold

-----------------------------------------------------------------------------
LEMMA FreshCoreType ==
  /\ FreshCore \in Core
  /\ FreshCore.word = <<>> /\ FreshCore.prev = <<>> /\ FreshCore.preedit = <<>>
  BY EmptyText DEF FreshCore, Core

LEMMA CacheConstants ==
  /\ Invalid \in Cache /\ Blank \in Cache /\ ~Invalid.valid
  /\ Tells(Invalid) /\ Tells(Blank) /\ Tells(NoReport)
<1>1. /\ Invalid \in Cache /\ Invalid.valid = FALSE
      /\ Blank \in Cache /\ Blank.before = <<>> /\ Blank.more = FALSE
  BY EmptyText DEF Invalid, Blank, Cache
<1>. QED  BY <1>1 DEF Tells

LEMMA ExistingText == Existing \in Text
  BY EmptyText, SingletonText DEF Existing, Char

\* What an application may report of its text.
LEMMA ReportedText ==
  ASSUME TypeOK, NEW a \in App, a = "terminal" => cache = Invalid,
         NEW d \in Text, NEW r \in Text, NEW s \in BOOLEAN,
         NEW c \in Reports(a, d, r, s)
  PROVE  /\ c \in Cache
         /\ s => Tells(c)
         /\ a = "terminal" => c = Invalid
<1>1. CASE c = Snapshot(d, r, s) /\ a # "terminal"
  <2>1. Snapshot(d, r, s) \in Cache /\ Snapshot(d, r, s).selected = s
    BY DEF Snapshot, Cache
  <2>. QED  BY <1>1, <2>1 DEF Tells
<1>2. CASE c \in {Blank, Invalid} /\ a # "terminal"
  BY <1>2, CacheConstants
<1>3. CASE c = cache /\ a = "terminal"
  BY <1>3, CacheConstants
<1>4. \/ c = Snapshot(d, r, s) /\ a # "terminal"
      \/ c \in {Blank, Invalid} /\ a # "terminal"
      \/ c = cache /\ a = "terminal"
  BY DEF Reports, App
<1>. QED  BY <1>1, <1>2, <1>3, <1>4

LEMMA SyncedCache ==
  ASSUME TypeOK, NEW n \in Nat, NEW ins \in Text
  PROVE  /\ Synced(n, ins) \in Cache
         /\ cache = Invalid => Synced(n, ins) = Invalid
         /\ ins = <<>> => Synced(n, ins) = cache
<1>. DEFINE b == DropLast(cache.before, n) \o ins
<1>1. cache \in Cache /\ cache.before \in Text
  BY DEF TypeOK, Cache
<1>2. b \in Text
  BY <1>1, DropLastText, ConcatText
<1>3. Synced(n, ins) \in {cache, [cache EXCEPT !.before = b, !.selected = FALSE]}
  BY DEF Synced
<1>. HIDE DEF b
<1>4. [cache EXCEPT !.before = b, !.selected = FALSE] \in Cache
  BY <1>1, <1>2 DEF Cache
<1>5. cache = Invalid => ~Reported
  BY CacheConstants DEF Reported
<1>. QED  BY <1>1, <1>3, <1>4, <1>5 DEF Synced

LEMMA WrittenText ==
  ASSUME TypeOK, NEW n \in Nat, NEW ins \in Text
  PROVE  Written(n, ins) \in Text
<1>1. doc \in Text /\ DropLast(doc, n) \in Text
  BY DropLastText DEF TypeOK
<1>. QED  BY <1>1, ConcatText DEF Written

\* What is written is what the addon asked for, where deletions land.
LEMMA WrittenWhole ==
  ASSUME doc \in Text, NEW n \in Nat, NEW ins \in Text, n > 0 => Lands
  PROVE  Written(n, ins) = DropLast(doc, n) \o ins
<1>1. CASE n = 0
  <2>1. DropLast(doc, n) = doc
    BY <1>1, DropNothing
  <2>2. ~(n > 0)
    BY <1>1
  <2>. QED  BY <2>1, <2>2 DEF Written
<1>2. CASE n > 0
  BY <1>2 DEF Written
<1>. QED  BY <1>1, <1>2

LEMMA ReceivedText ==
  ASSUME NEW d \in Text, NEW s \in BOOLEAN, NEW k \in Key
  PROVE  Received(d, s, k) \in Text
  BY DeliverText DEF Received

\* A deletion is never longer than the segment.
LEMMA DeletesOfTheSegment ==
  ASSUME NEW c \in Core, NEW k \in Key, ProcessKeyReplace(c, k).delete > 0
  PROVE  c.prev # <<>>
<1>. DEFINE r == EngineStep(c.word, k)
            d == DiffReplace(c.prev, r.commit \o r.word)
<1>1. c.word \in Text /\ c.prev \in Text
  BY DEF Core
<1>2. r.commit \o r.word \in Text
  BY <1>1, EngineStepType, ConcatText
<1>3. d.delete \in Nat /\ d.delete <= Len(c.prev)
  BY <1>1, <1>2, DiffReplaceType
<1>4. ProcessKeyReplace(c, k).delete \in {0, d.delete}
  BY DEF ProcessKeyReplace
<1>. HIDE DEF d, r
<1>5. c.prev = <<>> => Len(c.prev) = 0
  OBVIOUS
<1>. QED  BY <1>3, <1>4, <1>5

\* A deletion is asked for only with the client's word for where it will land.
LEMMA DeletionLands ==
  ASSUME IInv, NEW k \in Key, ReplaceMode, ProcessKeyReplace(CoreAtCursor, k).delete > 0
  PROVE  Lands
<1>1. core \in Core /\ cache \in Cache
  BY DEF IInv, TypeOK
<1>2. /\ CoreAtCursor \in Core
      /\ CoreAtCursor.prev # <<>> => core.prev # <<>>
  BY <1>1, FreshCoreType DEF CoreAtCursor
<1>3. core.prev # <<>>
  BY <1>2, DeletesOfTheSegment
<1>4. Reported /\ cache.valid /\ ~cache.selected
  BY <1>3 DEF ReplaceMode, Usable, Unbacked
<1>5. app # "terminal"
  BY <1>4, CacheConstants DEF IInv, NobodyReports
<1>6. cache # NoReport
  BY <1>1, <1>4, CacheConstants DEF Cache, NoReport
<1>7. ~selected
  BY <1>4, <1>6 DEF IInv, SelectionTold, Tells, Reported
<1>. QED  BY <1>5, <1>7 DEF Lands

LEMMA GapType ==
  ASSUME TypeOK, NEW n, NEW ins
  PROVE  Gap(n, ins) \in GapKind \cup {"none"}
  BY DEF Gap, GapKind, TypeOK

\* The cache after a key.
LEMMA ToldCache ==
  ASSUME IInv, NEW toApp \in BOOLEAN, NEW touched \in BOOLEAN, NEW synced \in Cache,
         cache = Invalid => synced = Invalid,
         touched => ~selected', focused, UNCHANGED <<rest, focusVars>>,
         doc' \in Text, selected' \in BOOLEAN, selected' => selected,
         Tell(toApp, touched, synced)
  PROVE  /\ cache' \in Cache /\ report' \in Cache \cup {NoReport}
         /\ NobodyReports' /\ SelectionTold'
<1>1. /\ TypeOK /\ app \in App /\ rest \in Text /\ cache \in Cache
      /\ report \in Cache \cup {NoReport}
      /\ app = "terminal" => cache = Invalid /\ report = NoReport
      /\ selected => Tells(cache) /\ Tells(report)
      /\ app' = app /\ focused' = focused
  BY DEF IInv, TypeOK, NobodyReports, SelectionTold, focusVars
<1>2. CASE cache' \in Reports(app, doc', rest, selected') /\ report' = NoReport
  <2>1. /\ cache' \in Cache /\ (selected' => Tells(cache'))
        /\ app = "terminal" => cache' = Invalid
    BY <1>1, <1>2, ReportedText
  <2>. QED  BY <1>1, <1>2, <2>1, CacheConstants DEF NobodyReports, SelectionTold, Tells
<1>3. CASE cache' = (IF touched THEN synced ELSE cache) /\ report' = report
  BY <1>1, <1>3 DEF NobodyReports, SelectionTold, Tells
<1>. QED  BY <1>2, <1>3 DEF Tell

LEMMA ReplaceStep ==
  ASSUME IInv, focused, NEW k \in Key, ReplaceMode, ReplaceKey(k), UNCHANGED <<rest, focusVars>>
  PROVE  /\ doc' \in Text /\ selected' \in BOOLEAN /\ core' \in Core /\ panel' = <<>>
         /\ gap' \in GapKind \cup {"none"} /\ swallowed' = FALSE
         /\ cache' \in Cache /\ report' \in Cache \cup {NoReport}
         /\ NobodyReports' /\ SelectionTold'
<1>. DEFINE c == CoreAtCursor
            r == ProcessKeyReplace(c, k)
            toApp == ~r.handled /\ k # Shift
            text == Written(r.delete, r.insert)
            sel == StillSelected(r.delete, r.insert)
            touched == r.delete > 0 \/ r.insert # <<>>
<1>1. /\ TypeOK /\ core \in Core /\ cache \in Cache /\ selected \in BOOLEAN /\ app \in App
      /\ swallowed = FALSE
  BY DEF IInv, TypeOK, EveryDeletionLands
<1>2. c \in Core /\ (c.prev # <<>> => core.prev # <<>>)
  BY <1>1, FreshCoreType DEF CoreAtCursor
<1>3. r.handled \in BOOLEAN /\ r.delete \in Nat /\ r.insert \in Text /\ r.core \in Core
  BY <1>2, ProcessKeyReplaceType
<1>4. r.delete > 0 => Lands
  BY DeletionLands
<1>5. /\ doc' = IF toApp THEN Received(text, sel, k) ELSE text
      /\ selected' = (sel /\ ~toApp)
      /\ swallowed' = (swallowed \/ (r.delete > 0 /\ ~Lands))
      /\ core' = r.core
      /\ panel' = <<>>
      /\ gap' = IF toApp THEN "none" ELSE Gap(r.delete, r.insert)
      /\ Tell(toApp, touched, Synced(r.delete, r.insert))
  BY Zenon DEF ReplaceKey
<1>6. text \in Text /\ Synced(r.delete, r.insert) \in Cache
      /\ (cache = Invalid => Synced(r.delete, r.insert) = Invalid)
  BY <1>1, <1>3, WrittenText, SyncedCache
<1>7. sel \in BOOLEAN /\ (sel => selected) /\ (touched => ~sel)
  BY <1>1, <1>3 DEF StillSelected
<1>8. Gap(r.delete, r.insert) \in GapKind \cup {"none"}
  BY <1>1, GapType
<1>. HIDE DEF r, text, sel
<1>9. Received(text, sel, k) \in Text
  BY <1>6, <1>7, ReceivedText
<1>10. /\ doc' \in Text /\ selected' \in BOOLEAN /\ (selected' => selected)
       /\ (touched => ~selected') /\ gap' \in GapKind \cup {"none"}
       /\ toApp \in BOOLEAN /\ touched \in BOOLEAN
  BY <1>5, <1>6, <1>7, <1>8, <1>9
<1>11. swallowed' = FALSE
  BY <1>1, <1>4, <1>5
<1>. HIDE DEF toApp, touched
<1>12. /\ cache' \in Cache /\ report' \in Cache \cup {NoReport}
       /\ NobodyReports' /\ SelectionTold'
  BY <1>5, <1>6, <1>10, ToldCache
<1>. QED  BY <1>3, <1>5, <1>10, <1>11, <1>12

LEMMA PreeditStep ==
  ASSUME IInv, focused, NEW k \in Key, PreeditKey(k), UNCHANGED <<rest, focusVars>>
  PROVE  /\ doc' \in Text /\ selected' \in BOOLEAN /\ core' \in Core /\ panel' \in Text
         /\ core'.prev = <<>>
         /\ gap' \in GapKind \cup {"none"} /\ swallowed' = FALSE
         /\ cache' \in Cache /\ report' \in Cache \cup {NoReport}
         /\ NobodyReports' /\ SelectionTold'
<1>. DEFINE c == CoreForPreedit
            r == ProcessKey(c, k)
            toApp == ~r.handled /\ k # Shift
            text == doc \o r.commit
            sel == StillSelected(0, r.commit)
            touched == r.commit # <<>>
<1>1. /\ TypeOK /\ core \in Core /\ cache \in Cache /\ selected \in BOOLEAN /\ app \in App
      /\ doc \in Text /\ swallowed = FALSE /\ gap \in GapKind \cup {"none"}
  BY DEF IInv, TypeOK, EveryDeletionLands
<1>2. c \in Core /\ c.prev = <<>>
  BY <1>1, FreshCoreType DEF CoreForPreedit
<1>3. /\ r.handled \in BOOLEAN /\ r.commit \in Text /\ r.core \in Core /\ r.core.prev = <<>>
      /\ r.core.preedit \in Text
  BY <1>2, ProcessKeyType DEF Core
<1>4. /\ doc' = IF toApp THEN Received(text, sel, k) ELSE text
      /\ selected' = (sel /\ ~toApp)
      /\ core' = r.core
      /\ panel' = r.core.preedit
      /\ gap' = IF toApp THEN "none" ELSE gap
      /\ Tell(toApp, touched, cache)
      /\ swallowed' = swallowed
  BY Zenon DEF PreeditKey
<1>5. text \in Text
  BY <1>1, <1>3, ConcatText
<1>6. sel \in BOOLEAN /\ (sel => selected) /\ (touched => ~sel)
  BY <1>1, <1>3 DEF StillSelected
<1>. HIDE DEF r, text, sel
<1>7. Received(text, sel, k) \in Text
  BY <1>5, <1>6, ReceivedText
<1>8. /\ doc' \in Text /\ selected' \in BOOLEAN /\ (selected' => selected)
      /\ (touched => ~selected') /\ gap' \in GapKind \cup {"none"}
      /\ toApp \in BOOLEAN /\ touched \in BOOLEAN
  BY <1>1, <1>4, <1>5, <1>6, <1>7
<1>. HIDE DEF toApp, touched
<1>9. /\ cache' \in Cache /\ report' \in Cache \cup {NoReport}
      /\ NobodyReports' /\ SelectionTold'
  BY <1>1, <1>4, <1>8, ToldCache
<1>. QED  BY <1>1, <1>3, <1>4, <1>8, <1>9

-----------------------------------------------------------------------------
LEMMA InitHolds == Init => IInv
<1>1. SUFFICES ASSUME Init
               PROVE  IInv
  OBVIOUS
<1>2. TypeOK
  BY <1>1, ReplaceAssumption, EmptyText, ExistingText, FreshCoreType, CacheConstants, EmptySeq
  DEF Init, TypeOK
<1>3. EveryDeletionLands /\ ShownOnce /\ LatchedTracksNothing
  BY <1>1 DEF Init, EveryDeletionLands, ShownOnce, LatchedTracksNothing
<1>4. NobodyReports /\ SelectionTold
  BY <1>1 DEF Init, NobodyReports, SelectionTold
<1>. QED  BY <1>2, <1>3, <1>4 DEF IInv

LEMMA KeyEventStep ==
  ASSUME IInv, KeyEvent
  PROVE  IInv'
<1>. DEFINE k == Head(wire)
<1>1. /\ focused /\ wire # <<>> /\ wire' = Tail(wire) /\ latch' = Latch
      /\ UNCHANGED <<rest, focusVars>> /\ typed' = typed
      /\ TypeOK /\ wire \in Seq(Key)
  BY DEF KeyEvent, IInv, TypeOK, focusVars
<1>2. k \in Key /\ wire' \in Seq(Key)
  BY <1>1, HeadTailProperties
<1>3. latch' \in BOOLEAN
  BY <1>1, Zenon DEF TypeOK, Latch, Unbacked
<1>. HIDE DEF k
<1>4. CASE ReplaceMode /\ ReplaceKey(k)
  <2>1. /\ doc' \in Text /\ selected' \in BOOLEAN /\ core' \in Core /\ panel' = <<>>
        /\ gap' \in GapKind \cup {"none"} /\ swallowed' = FALSE
        /\ cache' \in Cache /\ report' \in Cache \cup {NoReport}
        /\ NobodyReports' /\ SelectionTold'
    BY <1>1, <1>2, <1>4, ReplaceStep
  <2>2. TypeOK'
    BY <1>1, <1>2, <1>3, <2>1, EmptyText DEF TypeOK, focusVars
  <2>3. latch' = FALSE
    BY <1>1, <1>4 DEF Latch, ReplaceMode, Unbacked, TypeOK
  <2>. QED  BY <2>1, <2>2, <2>3
            DEF IInv, EveryDeletionLands, ShownOnce, LatchedTracksNothing
<1>5. CASE ~ReplaceMode /\ PreeditKey(k)
  <2>1. /\ doc' \in Text /\ selected' \in BOOLEAN /\ core' \in Core /\ panel' \in Text
        /\ core'.prev = <<>>
        /\ gap' \in GapKind \cup {"none"} /\ swallowed' = FALSE
        /\ cache' \in Cache /\ report' \in Cache \cup {NoReport}
        /\ NobodyReports' /\ SelectionTold'
    BY <1>1, <1>2, <1>5, PreeditStep
  <2>2. TypeOK'
    BY <1>1, <1>2, <1>3, <2>1 DEF TypeOK, focusVars
  <2>. QED  BY <2>1, <2>2 DEF IInv, EveryDeletionLands, ShownOnce, LatchedTracksNothing
<1>. QED  BY <1>4, <1>5 DEF KeyEvent, k

\* reset(), deactivate() and the next application.
LEMMA LeavingStep ==
  ASSUME IInv,
         Reset \/ (\E imSwitch \in BOOLEAN : Deactivate(imSwitch)) \/ (\E a \in Apps : FocusIn(a))
  PROVE  IInv'
<1>1. CASE Reset
  <2>1. TypeOK'
    BY <1>1, FreshCoreType, EmptyText DEF IInv, TypeOK, Reset, textVars, focusVars
  <2>. QED  BY <1>1, <2>1
            DEF IInv, Reset, textVars, focusVars, EveryDeletionLands, ShownOnce,
                LatchedTracksNothing, NobodyReports, SelectionTold, Tells, FreshCore
<1>2. ASSUME NEW imSwitch \in BOOLEAN, Deactivate(imSwitch)
      PROVE  IInv'
  <2>1. PICK kept \in {panel, <<>>, core.preedit} :
               doc' = doc \o kept /\ selected' = StillSelected(0, kept)
    BY <1>2 DEF Deactivate
  <2>2. kept \in Text /\ doc \in Text
    BY <2>1, EmptyText DEF IInv, TypeOK, Core
  <2>3. doc' \in Text /\ selected' \in BOOLEAN /\ (selected' => selected)
    BY <2>1, <2>2, ConcatText DEF StillSelected, IInv, TypeOK
  <2>4. /\ core' = FreshCore /\ panel' = <<>> /\ latch' = (imSwitch /\ Latch)
        /\ cache' = CacheAfterLeaving(imSwitch)
        /\ focused' = imSwitch /\ report' = IF imSwitch THEN report ELSE NoReport
        /\ UNCHANGED <<rest, swallowed, app, wire, gap, typed>>
        /\ focused
    BY <1>2 DEF Deactivate
  <2>5. cache' = (IF imSwitch THEN cache ELSE Invalid)
    BY <2>4 DEF CacheAfterLeaving
  <2>6. latch' \in BOOLEAN
    BY <2>4, Zenon DEF IInv, TypeOK, Latch, Unbacked
  <2>7. TypeOK'
    BY <2>3, <2>4, <2>5, <2>6, FreshCoreType, CacheConstants, EmptyText DEF IInv, TypeOK
  <2>8. NobodyReports' /\ SelectionTold'
    BY <2>3, <2>4, <2>5, CacheConstants DEF IInv, NobodyReports, SelectionTold, Tells
  <2>. QED  BY <2>4, <2>7, <2>8, FreshCoreType
            DEF IInv, EveryDeletionLands, ShownOnce, LatchedTracksNothing
<1>3. ASSUME NEW a \in Apps, FocusIn(a)
      PROVE  IInv'
  <2>1. /\ TypeOK /\ a \in App /\ cache = Invalid /\ report = NoReport
    BY <1>3, ReplaceAssumption DEF IInv, FocusIn, NobodyReports
  <2>2. cache' \in Cache /\ (a = "terminal" => cache' = Invalid)
    BY <1>3, <2>1, ReportedText, ExistingText, EmptyText, CacheConstants DEF FocusIn
  <2>3. TypeOK'
    BY <1>3, <2>1, <2>2, ExistingText, EmptyText DEF FocusIn, TypeOK, stateVars
  <2>4. NobodyReports' /\ SelectionTold'
    BY <1>3, <2>1, <2>2 DEF FocusIn, NobodyReports, SelectionTold
  <2>. QED  BY <1>3, <2>3, <2>4
            DEF IInv, FocusIn, stateVars, EveryDeletionLands, ShownOnce, LatchedTracksNothing
<1>. QED  BY <1>1, <1>2, <1>3

\* The user and the application.
LEMMA EnvironmentStep ==
  ASSUME IInv,
         (\E k \in Keys : Type(k)) \/ Move \/ Select \/ SendReport \/ ReceiveReport \/ DropReport
  PROVE  IInv'
<1>0. /\ TypeOK /\ app \in App /\ doc \in Text /\ rest \in Text /\ selected \in BOOLEAN
      /\ app = "terminal" => cache = Invalid
  BY DEF IInv, TypeOK, NobodyReports
<1>1. ASSUME NEW k \in Keys, Type(k)
      PROVE  IInv'
  <2>1. wire' \in Seq(Key) /\ typed' \in Nat
    BY <1>0, <1>1, ReplaceAssumption, AppendProperties DEF Type, TypeOK
  <2>2. TypeOK'
    BY <1>0, <1>1, <2>1 DEF Type, TypeOK, textVars, focusVars, stateVars
  <2>. QED  BY <1>1, <2>2
            DEF IInv, Type, textVars, focusVars, stateVars, EveryDeletionLands, ShownOnce,
                LatchedTracksNothing, NobodyReports, SelectionTold, Tells
<1>2. CASE Move
  <2>. DEFINE t == doc \o rest
  <2>1. PICK i \in 0 .. Len(t) : doc' = SubSeq(t, 1, i) /\ rest' = SubSeq(t, i + 1, Len(t))
    BY <1>2 DEF Move
  <2>2. t \in Text
    BY <1>0, ConcatText
  <2>. HIDE DEF t
  <2>3. Len(t) \in Nat /\ \A j \in 1 .. Len(t) : t[j] \in Char
    BY <2>2, LenProperties, ElementOfSeq DEF Text
  <2>4. doc' \in Text /\ rest' \in Text
    <3>1. doc' \in Text
      BY <2>1, <2>2, <2>3, PrefixText
    <3>2. \A j \in i + 1 .. Len(t) : t[j] \in Char
      BY <2>3
    <3>3. SubSeq(t, i + 1, Len(t)) \in Seq(Char)
      BY <2>3, <3>2, SubSeqProperties
    <3>. QED  BY <2>1, <3>1, <3>3 DEF Text
  <2>5. cache' \in Cache /\ (app = "terminal" => cache' = Invalid)
    BY <1>0, <1>2, <2>4, ReportedText DEF Move
  <2>6. TypeOK'
    BY <1>0, <1>2, <2>4, <2>5 DEF Move, TypeOK, focusVars, stateVars
  <2>7. NobodyReports' /\ SelectionTold'
    BY <1>2, <2>5 DEF Move, NobodyReports, SelectionTold, focusVars
  <2>. QED  BY <1>2, <2>6, <2>7
            DEF IInv, Move, stateVars, EveryDeletionLands, ShownOnce, LatchedTracksNothing
<1>3. CASE Select
  <2>1. selected' = ~selected /\ selected' \in BOOLEAN
    BY <1>0, <1>3 DEF Select
  <2>2. /\ cache' \in Cache /\ (app = "terminal" => cache' = Invalid)
        /\ selected' => Tells(cache')
    BY <1>0, <1>3, <2>1, ReportedText DEF Select
  <2>3. TypeOK'
    BY <1>0, <1>3, <2>1, <2>2 DEF Select, TypeOK, focusVars, stateVars
  <2>4. NobodyReports' /\ SelectionTold'
    BY <1>3, <2>2, CacheConstants DEF Select, NobodyReports, SelectionTold, Tells, focusVars
  <2>. QED  BY <1>3, <2>3, <2>4
            DEF IInv, Select, stateVars, EveryDeletionLands, ShownOnce, LatchedTracksNothing
<1>4. CASE SendReport
  <2>1. report' \in Cache /\ (selected => Tells(report'))
    BY <1>0, <1>4, ReportedText DEF SendReport
  <2>2. TypeOK'
    BY <1>0, <1>4, <2>1 DEF SendReport, TypeOK, textVars, focusVars, stateVars
  <2>3. NobodyReports' /\ SelectionTold'
    BY <1>4, <2>1
    DEF IInv, SendReport, NobodyReports, SelectionTold, Tells, textVars, focusVars
  <2>. QED  BY <1>4, <2>2, <2>3
            DEF IInv, SendReport, textVars, stateVars, EveryDeletionLands, ShownOnce,
                LatchedTracksNothing
<1>5. CASE ReceiveReport \/ DropReport
  <2>1. /\ focused /\ report # NoReport /\ cache' \in {report, cache} /\ report' = NoReport
        /\ gap' \in {"none", gap}
        /\ UNCHANGED <<textVars, focusVars, stateVars, wire, typed>>
    BY <1>5 DEF ReceiveReport, DropReport
  <2>2. TypeOK'
    BY <1>0, <2>1 DEF TypeOK, textVars, focusVars, stateVars
  <2>3. NobodyReports' /\ SelectionTold'
    BY <2>1, CacheConstants
    DEF IInv, NobodyReports, SelectionTold, Tells, textVars, focusVars
  <2>. QED  BY <2>1, <2>2, <2>3
            DEF IInv, textVars, stateVars, EveryDeletionLands, ShownOnce, LatchedTracksNothing
<1>. QED  BY <1>1, <1>2, <1>3, <1>4, <1>5

-----------------------------------------------------------------------------
\* The invariant holds of every behaviour, whatever the application reports
\* and when, and whatever the user does besides typing.
THEOREM Invariance == Spec => []IInv
<1>1. Init => IInv
  BY InitHolds
<1>2. IInv /\ [Next]_vars => IInv'
  <2>1. SUFFICES ASSUME IInv, [Next]_vars
                 PROVE  IInv'
    OBVIOUS
  <2>2. CASE Next
    BY <2>1, <2>2, KeyEventStep, LeavingStep, EnvironmentStep, Zenon DEF Next
  <2>3. CASE UNCHANGED vars
    <3>1. TypeOK'
      BY <2>1, <2>3 DEF IInv, TypeOK, vars
    <3>. QED  BY <2>1, <2>3, <3>1
              DEF IInv, vars, EveryDeletionLands, ShownOnce, LatchedTracksNothing,
                  NobodyReports, SelectionTold, Tells
  <2>. QED  BY <2>1, <2>2, <2>3
<1>. QED  BY <1>1, <1>2, PTL DEF Spec

\* Every variable keeps its type.
THEOREM TypeCorrect == Spec => []TypeOK
<1>1. IInv => TypeOK
  BY DEF IInv
<1>. QED  BY <1>1, Invariance, PTL

\* A deletion is only asked of an application that deletes before the cursor
\* (#60, #179): not of a terminal, not with a selection.
THEOREM DeletionsLand == Spec => []EveryDeletionLands
<1>1. IInv => EveryDeletionLands
  BY DEF IInv
<1>. QED  BY <1>1, Invariance, PTL

\* The word is in the document or in the preedit, never in both.
THEOREM WordIsShownOnce == Spec => []ShownOnce
<1>1. IInv => ShownOnce
  BY DEF IInv
<1>. QED  BY <1>1, Invariance, PTL

\* While a client is distrusted the core has nothing in its text (#180).
THEOREM LatchHoldsNoSegment == Spec => []LatchedTracksNothing
<1>1. IInv => LatchedTracksNothing
  BY DEF IInv
<1>. QED  BY <1>1, Invariance, PTL

-----------------------------------------------------------------------------
(***************************************************************************)
(* Why a stale report cannot make the addon delete the user's text: the    *)
(* segment stands before the cursor, or no report says that it does.       *)
(***************************************************************************)
Shows(c, t) == c # NoReport /\ c.valid /\ (c.before # <<>> \/ c.more) /\ EndsWith(c.before, t)

SegmentSeenOrGone ==
  \/ EndsWith(doc, core.prev)
  \/ ~Shows(cache, core.prev) /\ ~Shows(report, core.prev)

LEMMA SuffixOfConcat ==
  ASSUME NEW b \in Text, NEW s \in Text
  PROVE  EndsWith(b \o s, s)
<1>1. b \o s \in Seq(Char) /\ Len(b \o s) = Len(b) + Len(s) /\ Len(b) \in Nat /\ Len(s) \in Nat
  BY ConcatProperties, LenProperties DEF Text
<1>2. SubSeq(b \o s, Len(b) + 1, Len(b) + Len(s)) = s
  BY SubSeqOfConcat2, SubSeqFull, <1>1 DEF Text
<1>3. Len(b \o s) - Len(s) + 1 = Len(b) + 1
  BY <1>1
<1>. QED  BY <1>1, <1>2, <1>3 DEF EndsWith

LEMMA PrefixOfConcat ==
  ASSUME NEW b \in Text, NEW s \in Text
  PROVE  StartsWith(b \o s, b)
<1>1. b \o s \in Seq(Char) /\ Len(b \o s) = Len(b) + Len(s) /\ Len(b) \in Nat /\ Len(s) \in Nat
  BY ConcatProperties, LenProperties DEF Text
<1>2. SubSeq(b \o s, 1, Len(b)) = b
  BY SubSeqOfConcat1, SubSeqFull, <1>1 DEF Text
<1>. QED  BY <1>1, <1>2 DEF StartsWith

\* A text that ends with s is something followed by s.
LEMMA SplitAtSuffix ==
  ASSUME NEW t \in Text, NEW s \in Text, EndsWith(t, s)
  PROVE  /\ DropLast(t, Len(s)) \in Text
         /\ t = DropLast(t, Len(s)) \o s
<1>. DEFINE n == Len(t) - Len(s)
<1>1. Len(t) \in Nat /\ Len(s) \in Nat /\ n \in Nat /\ n <= Len(t)
  BY LenProperties DEF Text, EndsWith
<1>2. DropLast(t, Len(s)) = SubSeq(t, 1, n)
  <2>1. CASE Len(s) < Len(t)
    BY <2>1 DEF DropLast
  <2>2. CASE ~(Len(s) < Len(t))
    <3>1. n = 0
      BY <1>1, <2>2
    <3>. QED  BY <3>1, <2>2 DEF DropLast
  <2>. QED  BY <2>1, <2>2
<1>3. s = SubSeq(t, n + 1, Len(t))
  BY DEF EndsWith
<1>4. SubSeq(t, 1, n) \o SubSeq(t, n + 1, Len(t)) = SubSeq(t, 1, Len(t))
  <2>1. /\ t \in Seq(Char) /\ 1 \in 1 .. Len(t) + 1
        /\ n \in 1 - 1 .. Len(t) /\ Len(t) \in n .. Len(t)
    BY <1>1 DEF Text
  <2>. HIDE DEF n
  <2>. QED  BY <2>1, ConcatAdjacentSubSeq
<1>5. SubSeq(t, 1, Len(t)) = t
  BY SubSeqFull DEF Text
<1>6. DropLast(t, Len(s)) \in Text
  BY <1>1, DropLastText
<1>. QED  BY <1>2, <1>3, <1>4, <1>5, <1>6

LEMMA PrefixIsTransitive ==
  ASSUME NEW a \in Text, NEW b \in Text, NEW c \in Text, StartsWith(b, a), StartsWith(c, b)
  PROVE  StartsWith(c, a)
<1>1. /\ Len(a) \in Nat /\ Len(b) \in Nat /\ Len(c) \in Nat
      /\ Len(a) <= Len(b) /\ Len(b) <= Len(c)
      /\ a = SubSeq(b, 1, Len(a)) /\ b = SubSeq(c, 1, Len(b))
  BY LenProperties DEF Text, StartsWith
<1>2. /\ SubSeq(c, 1, Len(a)) \in Seq(Char) /\ Len(SubSeq(c, 1, Len(a))) = Len(a)
      /\ \A i \in 1 .. Len(a) : SubSeq(c, 1, Len(a))[i] = c[i]
  <2>1. \A i \in 1 .. Len(a) : c[i] \in Char
    BY <1>1, ElementOfSeq DEF Text
  <2>. QED  BY <1>1, <2>1, SubSeqProperties
<1>3. ASSUME NEW i \in 1 .. Len(a)
      PROVE  a[i] = c[i]
  <2>1. a[i] = b[i]
    <3>1. \A j \in 1 .. Len(a) : b[j] \in Char
      BY <1>1, ElementOfSeq DEF Text
    <3>2. \A j \in 1 .. Len(a) - 1 + 1 : SubSeq(b, 1, Len(a))[j] = b[1 + j - 1]
      BY <1>1, <3>1, SubSeqProperties
    <3>. QED  BY <1>1, <3>2
  <2>2. b[i] = c[i]
    <3>1. \A j \in 1 .. Len(b) : c[j] \in Char
      BY <1>1, ElementOfSeq DEF Text
    <3>2. \A j \in 1 .. Len(b) - 1 + 1 : SubSeq(c, 1, Len(b))[j] = c[1 + j - 1]
      BY <1>1, <3>1, SubSeqProperties
    <3>3. i \in 1 .. Len(b)
      BY <1>1
    <3>. QED  BY <1>1, <3>2, <3>3
  <2>. QED  BY <2>1, <2>2
<1>4. SubSeq(c, 1, Len(a)) = a
  BY <1>1, <1>2, <1>3, SeqEqual DEF Text
<1>. QED  BY <1>1, <1>4 DEF StartsWith

\* What stands when the segment is taken away.
Base == IF EndsWith(doc, core.prev) THEN DropLast(doc, Len(core.prev)) ELSE doc

LEMMA BaseStands ==
  ASSUME TypeOK
  PROVE  Base \in Text /\ StartsWith(doc, Base)
<1>1. doc \in Text /\ core.prev \in Text
  BY DEF TypeOK, Core
<1>2. CASE EndsWith(doc, core.prev)
  <2>1. Base \in Text /\ doc = Base \o core.prev
    BY <1>1, <1>2, SplitAtSuffix DEF Base
  <2>. QED  BY <1>1, <2>1, PrefixOfConcat
<1>3. CASE ~EndsWith(doc, core.prev)
  <2>1. Base = doc /\ doc \o <<>> = doc
    BY <1>1, <1>3, ConcatEmptySeq DEF Base, Text
  <2>. QED  BY <1>1, <2>1, PrefixOfConcat, EmptyText
<1>. QED  BY <1>2, <1>3

\* A Backspace the core does not consume is one it does nothing for.
LEMMA UnhandledBackspace ==
  ASSUME NEW w, ~EngineStep(w, Backspace).handled
  PROVE  EngineStep(w, Backspace) = Ignored(w)
  BY DEF EngineStep, Letter, Backspace, Space, Tab, Enter

\* A key that reaches the application adds to the text, unless it is Backspace.
LEMMA ReceivedAdds ==
  ASSUME NEW t \in Text, NEW s \in BOOLEAN, NEW k \in Key
  PROVE  \/ k = Backspace /\ ~s /\ Received(t, s, k) = DropLast(t, 1)
         \/ Received(t, s, k) \in Text /\ StartsWith(Received(t, s, k), t)
<1>1. t \o <<>> = t /\ StartsWith(t, t)
  <2>1. t \o <<>> = t
    BY ConcatEmptySeq DEF Text
  <2>. QED  BY <2>1, PrefixOfConcat, EmptyText
<1>2. CASE k = Backspace
  BY <1>1, <1>2 DEF Received, Deliver, Backspace, Paste, Shift
<1>3. CASE k = Shift
  BY <1>1, <1>3 DEF Received, Deliver, Shift, Backspace, Paste
<1>4. CASE k \notin {Backspace, Shift}
  <2>1. PICK c \in Char : Received(t, s, k) = Append(t, c)
    BY <1>4 DEF Received, Deliver, Key, Letter, Space, Backspace, Enter, Tab, Paste, Shift, Char
  <2>2. Append(t, c) = t \o <<c>>
    BY AppendIsConcat DEF Text
  <2>. QED  BY <2>1, <2>2, PrefixOfConcat, SingletonText, ConcatText
<1>. QED  BY <1>2, <1>3, <1>4

\* The report of a text shows what the text ends with.
LEMMA ReportShows ==
  ASSUME TypeOK, NEW a \in App, a = "terminal" => cache = Invalid,
         NEW d, NEW r, NEW s, NEW c \in Reports(a, d, r, s), NEW t, Shows(c, t)
  PROVE  EndsWith(d, t)
<1>1. /\ Snapshot(d, r, s).before = d
      /\ ~Shows(Blank, t) /\ ~Shows(Invalid, t)
  <2>1. Blank.before = <<>> /\ Blank.more = FALSE /\ Invalid.valid = FALSE
    BY DEF Blank, Invalid
  <2>. QED  BY <2>1 DEF Snapshot, Shows
<1>2. c \in {Snapshot(d, r, s), Blank, Invalid}
  <2>1. CASE a \in {"editor", "lazy"}
    BY <2>1 DEF Reports
  <2>2. CASE a = "shy"
    BY <2>2 DEF Reports
  <2>3. CASE a = "terminal"
    BY <2>3 DEF Reports
  <2>. QED  BY <2>1, <2>2, <2>3 DEF App
<1>. QED  BY <1>1, <1>2 DEF Shows

LEMMA SuffixNothing ==
  ASSUME NEW t \in Text
  PROVE  EndsWith(t, <<>>)
<1>1. t \o <<>> = t
  BY ConcatEmptySeq DEF Text
<1>. QED  BY <1>1, SuffixOfConcat, EmptyText

\* The edit of a key handled in place: the text becomes what stood before the
\* segment, which is at least the base, and what the core says comes after it.
LEMMA ReplaceEdit ==
  ASSUME IInv, SegmentSeenOrGone, NEW k \in Key, ReplaceMode,
         NEW r, r = ProcessKeyReplace(CoreAtCursor, k),
         NEW text, text = Written(r.delete, r.insert)
  PROVE  /\ text \in Text
         /\ StartsWith(text, Base)
         /\ EndsWith(text, r.core.prev)
         /\ k = Backspace /\ ~r.handled => text = doc
<1>. DEFINE c == CoreAtCursor
            e == EngineStep(c.word, k)
            new == e.commit \o e.word
            d == DiffReplace(c.prev, new)
<1>1. /\ TypeOK /\ core \in Core /\ cache \in Cache /\ doc \in Text
      /\ core.prev \in Text
      /\ c \in Core /\ c.word \in Text /\ c.prev \in Text
  BY FreshCoreType DEF IInv, TypeOK, CoreAtCursor, Core
<1>2. Base \in Text /\ StartsWith(doc, Base)
  BY <1>1, BaseStands
<1>3. \E b \in Text : doc = b \o c.prev /\ StartsWith(b, Base)
  <2>1. CASE c.prev = <<>>
    <3>1. doc = doc \o c.prev
      BY <1>1, <2>1, ConcatEmptySeq DEF Text
    <3>. QED  BY <1>1, <1>2, <3>1
  <2>2. CASE c.prev # <<>>
    <3>1. c = core /\ EndsWith(cache.before, core.prev)
      BY <2>2, FreshCoreType DEF CoreAtCursor, Diverged
    <3>2. Reported
      BY <2>2, <3>1 DEF ReplaceMode, Unbacked
    <3>3. cache # NoReport
      BY <1>1, <3>2, CacheConstants DEF Cache, NoReport, Reported
    <3>4. EndsWith(doc, core.prev)
      BY <3>1, <3>2, <3>3 DEF SegmentSeenOrGone, Shows, Reported
    <3>5. doc = Base \o core.prev
      BY <1>1, <3>4, SplitAtSuffix DEF Base
    <3>6. Base \o <<>> = Base
      BY <1>2, ConcatEmptySeq DEF Text
    <3>7. StartsWith(Base, Base)
      BY <1>2, <3>6, PrefixOfConcat, EmptyText
    <3>. QED  BY <1>2, <3>1, <3>5, <3>7
  <2>. QED  BY <2>1, <2>2
<1>4. PICK b \in Text : doc = b \o c.prev /\ StartsWith(b, Base)
  BY <1>3
<1>5. /\ e.handled \in BOOLEAN /\ e.acted \in BOOLEAN /\ e.commit \in Text /\ e.word \in Text
      /\ new \in Text
  BY <1>1, EngineStepType, ConcatText
<1>6. /\ r.delete \in Nat /\ r.insert \in Text
      /\ (r.delete > 0 => Lands)
  BY <1>1, ProcessKeyReplaceType, DeletionLands
<1>7. text = DropLast(doc, r.delete) \o r.insert
  BY <1>1, <1>6, WrittenWhole
<1>8. CASE e.acted
  <2>1. r = [handled |-> e.handled, delete |-> d.delete, insert |-> d.insert,
             core |-> [word |-> e.word, prev |-> e.word, preedit |-> c.preedit]]
    BY <1>8 DEF ProcessKeyReplace
  <2>2. text = b \o new
    <3>1. DropLast(b \o c.prev, d.delete) \o d.insert = b \o new
      <4>. HIDE DEF new, e, c
      <4>1. c.prev \in Text /\ new \in Text
        BY <1>1, <1>5
      <4>2. DropLast(b \o c.prev, DiffReplace(c.prev, new).delete)
              \o DiffReplace(c.prev, new).insert = b \o new
        BY <4>1, <1>4, DiffReplaceIsExact, Zenon
      <4>. QED  BY <4>2 DEF d
    <3>2. r.delete = d.delete /\ r.insert = d.insert
      <4>. HIDE DEF d, e, new
      <4>. QED  BY <2>1
    <3>. HIDE DEF d, e, new, c
    <3>. QED  BY <1>4, <1>7, <3>1, <3>2
  <2>3. text = (b \o e.commit) \o e.word /\ b \o e.commit \in Text
    <3>. HIDE DEF e
    <3>1. (b \o e.commit) \o e.word = b \o (e.commit \o e.word)
      <4>. HIDE DEF new, d, c
      <4>. QED  BY <1>4, <1>5, ConcatTextAssociative
    <3>. QED  BY <1>4, <1>5, <2>2, <3>1, ConcatText DEF new
  <2>4. text \in Text /\ StartsWith(text, b)
    BY <1>5, <2>2, PrefixOfConcat, ConcatText
  <2>5. StartsWith(text, Base)
    BY <1>2, <1>4, <2>4, PrefixIsTransitive
  <2>6. EndsWith(text, r.core.prev)
    <3>. HIDE DEF e, d, c
    <3>1. r.core.prev = e.word
      BY <2>1
    <3>2. EndsWith((b \o e.commit) \o e.word, e.word)
      BY <1>5, <2>3, SuffixOfConcat
    <3>. QED  BY <2>3, <3>1, <3>2
  <2>7. ~(k = Backspace /\ ~r.handled)
    BY <1>8, <2>1, UnhandledBackspace DEF Ignored
  <2>. QED  BY <2>4, <2>5, <2>6, <2>7
<1>9. CASE ~e.acted
  <2>1. r = [handled |-> e.handled, delete |-> 0, insert |-> <<>>, core |-> c]
    BY <1>9 DEF ProcessKeyReplace
  <2>2. text = doc
    <3>1. DropLast(doc, 0) = doc /\ doc \o <<>> = doc
      BY <1>1, DropNothing, ConcatEmptySeq DEF Text
    <3>. QED  BY <1>7, <2>1, <3>1
  <2>3. EndsWith(doc, c.prev)
    BY <1>1, <1>4, SuffixOfConcat
  <2>. QED  BY <1>1, <1>2, <2>1, <2>2, <2>3
<1>. QED  BY <1>5, <1>8, <1>9

\* What a key does to the document, and to what the reports say of it.
LEMMA OwnTextStep ==
  ASSUME IInv, SegmentSeenOrGone, KeyEvent
  PROVE  /\ \/ Head(wire) = Backspace /\ doc' = DropLast(doc, 1)
            \/ StartsWith(doc', Base)
         /\ SegmentSeenOrGone'
<1>. DEFINE k == Head(wire)
<1>1. /\ TypeOK /\ k \in Key /\ doc \in Text /\ app \in App /\ core \in Core
      /\ app = "terminal" => cache = Invalid
      /\ Base \in Text /\ StartsWith(doc, Base)
      /\ selected \in BOOLEAN
  BY HeadTailProperties, BaseStands DEF IInv, KeyEvent, TypeOK, NobodyReports
<1>2. /\ TypeOK' /\ rest' = rest
      /\ \/ ReplaceMode /\ ReplaceKey(k)
         \/ ~ReplaceMode /\ PreeditKey(k)
  BY KeyEventStep, Zenon DEF IInv, KeyEvent
<1>3. doc' \in Text /\ core' \in Core
  BY <1>2 DEF TypeOK
<1>4. ASSUME cache' \in Reports(app, doc', rest, selected'), report' = NoReport
      PROVE  SegmentSeenOrGone'
  <2>1. Shows(cache', core'.prev) => EndsWith(doc', core'.prev)
    BY <1>1, <1>4, ReportShows
  <2>2. ~Shows(report', core'.prev)
    BY <1>4 DEF Shows
  <2>. QED  BY <2>1, <2>2, Zenon DEF SegmentSeenOrGone, Shows
<1>5. CASE ReplaceMode /\ ReplaceKey(k)
  <2>. DEFINE r == ProcessKeyReplace(CoreAtCursor, k)
              toApp == ~r.handled /\ k # Shift
              text == Written(r.delete, r.insert)
              sel == StillSelected(r.delete, r.insert)
              touched == r.delete > 0 \/ r.insert # <<>>
  <2>1. /\ doc' = IF toApp THEN Received(text, sel, k) ELSE text
        /\ core' = r.core
        /\ Tell(toApp, touched, Synced(r.delete, r.insert))
    BY <1>5, Zenon DEF ReplaceKey
  <2>2. /\ text \in Text /\ StartsWith(text, Base) /\ EndsWith(text, r.core.prev)
        /\ k = Backspace /\ ~r.handled => text = doc
    BY <1>1, <1>5, ReplaceEdit
  <2>3. sel \in BOOLEAN
    BY <1>1 DEF StillSelected
  <2>. HIDE DEF r, text, sel, touched, k
  <2>4. CASE toApp
    <3>1. \/ k = Backspace /\ ~sel /\ doc' = DropLast(text, 1)
          \/ doc' \in Text /\ StartsWith(doc', text)
      BY <1>1, <2>1, <2>2, <2>3, <2>4, ReceivedAdds
    <3>2. \/ k = Backspace /\ doc' = DropLast(doc, 1)
          \/ StartsWith(doc', Base)
      BY <1>1, <2>2, <2>4, <3>1, PrefixIsTransitive
    <3>3. SegmentSeenOrGone'
      BY <1>4, <2>1, <2>4 DEF Tell
    <3>. QED  BY <3>2, <3>3 DEF k
  <2>5. CASE ~toApp
    <3>1. StartsWith(doc', Base) /\ EndsWith(doc', core'.prev)
      BY <2>1, <2>2, <2>5
    <3>. QED  BY <3>1 DEF SegmentSeenOrGone
  <2>. QED  BY <2>4, <2>5
<1>6. CASE ~ReplaceMode /\ PreeditKey(k)
  <2>. DEFINE c == CoreForPreedit
              r == ProcessKey(c, k)
              toApp == ~r.handled /\ k # Shift
              text == doc \o r.commit
              sel == StillSelected(0, r.commit)
  <2>1. doc' = (IF toApp THEN Received(text, sel, k) ELSE text) /\ core' = r.core
    BY <1>6, Zenon DEF PreeditKey
  <2>2. c \in Core /\ c.prev = <<>>
    BY <1>1, FreshCoreType DEF CoreForPreedit
  <2>3. r.commit \in Text /\ r.core.prev = <<>>
    BY <1>1, <2>2, ProcessKeyType
  <2>4. SegmentSeenOrGone'
    <3>1. core'.prev = <<>>
      BY <2>1, <2>3
    <3>. QED  BY <1>3, <3>1, SuffixNothing DEF SegmentSeenOrGone
  <2>5. text \in Text /\ StartsWith(text, Base)
    <3>. HIDE DEF r, c, k
    <3>1. text \in Text /\ StartsWith(text, doc)
      BY <1>1, <2>3, ConcatText, PrefixOfConcat
    <3>. QED  BY <1>1, <3>1, PrefixIsTransitive
  <2>6. k = Backspace /\ ~r.handled => text = doc
    <3>1. k = Backspace /\ ~r.handled => r.commit = <<>>
      BY UnhandledBackspace DEF ProcessKey, Ignored
    <3>. QED  BY <1>1, <3>1, ConcatEmptySeq DEF Text
  <2>7. sel \in BOOLEAN
    BY <1>1 DEF StillSelected
  <2>. HIDE DEF r, text, sel, c, k
  <2>8. CASE toApp
    <3>1. \/ k = Backspace /\ ~sel /\ doc' = DropLast(text, 1)
          \/ doc' \in Text /\ StartsWith(doc', text)
      BY <1>1, <2>1, <2>5, <2>7, <2>8, ReceivedAdds
    <3>2. \/ k = Backspace /\ doc' = DropLast(doc, 1)
          \/ StartsWith(doc', Base)
      BY <1>1, <2>5, <2>6, <2>8, <3>1, PrefixIsTransitive
    <3>. QED  BY <2>4, <3>2 DEF k
  <2>9. CASE ~toApp
    BY <2>1, <2>4, <2>5, <2>9
  <2>. QED  BY <2>8, <2>9
<1>. QED  BY <1>2, <1>5, <1>6

LEMMA OtherSeenStep ==
  ASSUME IInv, SegmentSeenOrGone, Next, ~KeyEvent
  PROVE  SegmentSeenOrGone'
<1>1. /\ TypeOK /\ app \in App /\ doc \in Text /\ TypeOK'
      /\ app = "terminal" => cache = Invalid
      /\ doc' \in Text
  BY LeavingStep, EnvironmentStep, Zenon DEF IInv, TypeOK, NobodyReports, Next
<1>2. CASE core' = FreshCore
  BY <1>1, <1>2, FreshCoreType, SuffixNothing DEF SegmentSeenOrGone
<1>3. ASSUME NEW a \in Apps, FocusIn(a)
      PROVE  SegmentSeenOrGone'
  <2>1. /\ cache = Invalid /\ report = NoReport /\ a \in App
        /\ core' = core /\ report' = report /\ doc' = Existing
        /\ cache' \in {cache} \cup Reports(a, Existing, <<>>, FALSE)
    BY <1>3, ReplaceAssumption DEF FocusIn, IInv, NobodyReports, stateVars
  <2>2. ~Shows(report', core'.prev) /\ ~Shows(Invalid, core'.prev)
    BY <2>1, CacheConstants DEF Shows
  <2>3. Shows(cache', core'.prev) => EndsWith(doc', core'.prev)
    BY <1>1, <2>1, <2>2, ReportShows
  <2>. QED  BY <2>2, <2>3, Zenon DEF SegmentSeenOrGone, Shows
<1>4. CASE Move \/ Select
  <2>1. /\ core' = core /\ report' = NoReport
        /\ cache' \in Reports(app, doc', rest', selected')
    BY <1>4 DEF Move, Select, stateVars
  <2>2. ~Shows(report', core'.prev)
    BY <2>1 DEF Shows
  <2>3. Shows(cache', core'.prev) => EndsWith(doc', core'.prev)
    BY <1>1, <2>1, ReportShows
  <2>. QED  BY <2>2, <2>3, Zenon DEF SegmentSeenOrGone, Shows
<1>5. CASE SendReport
  <2>1. /\ core' = core /\ doc' = doc /\ cache' = cache
        /\ report' \in Reports(app, doc, rest, selected)
    BY <1>5 DEF SendReport, stateVars, textVars
  <2>2. Shows(report', core.prev) => EndsWith(doc, core.prev)
    BY <1>1, <2>1, ReportShows
  <2>. QED  BY <2>1, <2>2 DEF SegmentSeenOrGone
<1>6. CASE ReceiveReport \/ DropReport \/ \E k \in Keys : Type(k)
  <2>1. /\ core' = core /\ doc' = doc
        /\ cache' \in {cache, report} /\ report' \in {report, NoReport}
    BY <1>6 DEF ReceiveReport, DropReport, Type, stateVars, textVars
  <2>2. ~Shows(NoReport, core.prev)
    BY DEF Shows
  <2>. QED  BY <2>1, <2>2 DEF SegmentSeenOrGone
<1>7. ASSUME Reset \/ \E imSwitch \in BOOLEAN : Deactivate(imSwitch)
      PROVE  core' = FreshCore
  BY <1>7 DEF Reset, Deactivate
<1>. QED  BY <1>2, <1>3, <1>4, <1>5, <1>6, <1>7, Zenon DEF Next

\* A key takes nothing from the document but the segment the core has put
\* there, and that only where it stands before the cursor (#7, #180), however
\* old the reports are.
THEOREM OnlyOwnTextIsDeleted == Spec => OwnTextOnly
<1>1. Init => SegmentSeenOrGone
  <2>1. SUFFICES ASSUME Init
                 PROVE  SegmentSeenOrGone
    OBVIOUS
  <2>2. core.prev = <<>> /\ doc \in Text
    BY <2>1, FreshCoreType, ExistingText DEF Init
  <2>. QED  BY <2>2, SuffixNothing DEF SegmentSeenOrGone
<1>2. IInv /\ SegmentSeenOrGone /\ [Next]_vars => SegmentSeenOrGone'
  <2>1. SUFFICES ASSUME IInv, SegmentSeenOrGone, [Next]_vars
                 PROVE  SegmentSeenOrGone'
    OBVIOUS
  <2>2. CASE UNCHANGED vars
    BY <2>1, <2>2 DEF SegmentSeenOrGone, Shows, vars
  <2>. QED  BY <2>1, <2>2, OwnTextStep, OtherSeenStep, Zenon
<1>3. IInv /\ SegmentSeenOrGone /\ [Next]_vars
        => [KeyEvent => \/ Head(wire) = Backspace /\ doc' = DropLast(doc, 1)
                        \/ StartsWith(doc', IF EndsWith(doc, core.prev)
                                            THEN DropLast(doc, Len(core.prev))
                                            ELSE doc)]_vars
  BY OwnTextStep, Zenon DEF Base
<1>4. Spec => []IInv
  BY Invariance
<1>. QED  BY <1>1, <1>2, <1>3, <1>4, PTL DEF Spec, OwnTextOnly

-----------------------------------------------------------------------------
(***************************************************************************)
(* When the cache can be trusted: every report is of the text as it is,    *)
(* and the user waits for one where the addon cannot know its own write.   *)
(***************************************************************************)
ReportsInTime == ~StaleReports /\ GapKind \subseteq ReportFirst

\* What the client has reported, or the addon has written there itself, is
\* what stands before the cursor, but for text that replaced a selection.
CacheIsTrue ==
  gap = "none" /\ Reported => cache.before = doc \/ (cache.selected /\ core.prev = <<>>)

LEMMA ReportIsTrue ==
  ASSUME TypeOK, NEW a \in App, a = "terminal" => cache = Invalid,
         NEW d, NEW r, NEW s, NEW c \in Reports(a, d, r, s),
         c.valid, c.before # <<>> \/ c.more
  PROVE  c.before = d
<1>1. /\ Snapshot(d, r, s).before = d
      /\ ~Invalid.valid /\ Blank.before = <<>> /\ ~Blank.more
  BY DEF Snapshot, Blank, Invalid
<1>2. c \in {Snapshot(d, r, s), Blank, Invalid}
  <2>1. CASE a \in {"editor", "lazy"}
    BY <2>1 DEF Reports
  <2>2. CASE a = "shy"
    BY <2>2 DEF Reports
  <2>3. CASE a = "terminal"
    BY <2>3 DEF Reports
  <2>. QED  BY <2>1, <2>2, <2>3 DEF App
<1>. QED  BY <1>1, <1>2

\* A write the addon repeats in its cache, or one the client must report.
LEMMA ReplaceKeepsCacheTrue ==
  ASSUME IInv, CacheIsTrue, gap = "none", focused, NEW k \in Key, ReplaceMode, ReplaceKey(k),
         UNCHANGED <<rest, focusVars>>
  PROVE  CacheIsTrue'
<1>. DEFINE c == CoreAtCursor
            r == ProcessKeyReplace(c, k)
            toApp == ~r.handled /\ k # Shift
            text == Written(r.delete, r.insert)
            sel == StillSelected(r.delete, r.insert)
            touched == r.delete > 0 \/ r.insert # <<>>
            synced == Synced(r.delete, r.insert)
<1>1. /\ TypeOK /\ app \in App /\ cache \in Cache /\ doc \in Text /\ core \in Core
      /\ app = "terminal" => cache = Invalid
      /\ cache.valid /\ ~cache.selected
      /\ app' = app /\ rest' = rest
      /\ Reported => cache.before = doc
  BY DEF IInv, TypeOK, NobodyReports, ReplaceMode, Usable, CacheIsTrue, focusVars
<1>2. c \in Core
  BY <1>1, FreshCoreType DEF CoreAtCursor
<1>3. r.delete \in Nat /\ r.insert \in Text /\ (r.delete > 0 => Lands)
  BY <1>2, ProcessKeyReplaceType, DeletionLands
<1>4. /\ doc' = IF toApp THEN Received(text, sel, k) ELSE text
      /\ gap' = IF toApp THEN "none" ELSE Gap(r.delete, r.insert)
      /\ Tell(toApp, touched, synced)
  BY Zenon DEF ReplaceKey
<1>. HIDE DEF c, r
<1>5. text = DropLast(doc, r.delete) \o r.insert
  BY <1>1, <1>3, WrittenWhole
<1>. HIDE DEF text, sel
<1>6. CASE cache' \in Reports(app, doc', rest, selected')
  <2>1. ASSUME cache'.valid, cache'.before # <<>> \/ cache'.more
        PROVE  cache'.before = doc'
    BY <1>1, <1>6, <2>1, ReportIsTrue
  <2>. QED  BY <2>1 DEF CacheIsTrue, Reported
<1>7. CASE ~toApp /\ cache' = (IF touched THEN synced ELSE cache)
  <2>1. doc' = text /\ gap' = Gap(r.delete, r.insert)
    BY <1>4, <1>7
  <2>2. CASE ~touched
    <3>1. r.delete = 0 /\ r.insert = <<>>
      BY <1>3, <2>2
    <3>2. doc' = doc
      BY <1>1, <1>5, <2>1, <3>1, DropNothing, ConcatEmptySeq DEF Text
    <3>. QED  BY <1>1, <1>7, <2>2, <3>2 DEF CacheIsTrue, Reported
  <2>3. CASE touched /\ (r.insert = <<>> \/ ~Reported \/ EndsWith(cache.before, r.insert))
    <3>1. cache' = cache
      BY <1>7, <2>3 DEF Synced
    <3>2. ASSUME gap' = "none", Reported
          PROVE  app = "editor"
      BY <1>3, <2>1, <2>3, <3>2 DEF Gap
    <3>3. ~(touched /\ app = "editor") \/ cache' \in Reports(app, doc', rest, selected')
      BY <1>1, <1>4 DEF Tell
    <3>. QED  BY <1>6, <2>3, <3>1, <3>2, <3>3 DEF CacheIsTrue, Reported
  <2>4. CASE touched /\ r.insert # <<>> /\ Reported /\ ~EndsWith(cache.before, r.insert)
    <3>1. cache' = [cache EXCEPT !.before = DropLast(cache.before, r.delete) \o r.insert,
                                 !.selected = FALSE]
      BY <1>7, <2>4 DEF Synced
    <3>2. cache'.before = text
      BY <1>1, <1>5, <2>4, <3>1 DEF Cache
    <3>. QED  BY <2>1, <3>2 DEF CacheIsTrue
  <2>. QED  BY <2>2, <2>3, <2>4
<1>8. \/ cache' \in Reports(app, doc', rest, selected')
      \/ ~toApp /\ cache' = (IF touched THEN synced ELSE cache)
  BY <1>1, <1>4 DEF Tell
<1>. QED  BY <1>6, <1>7, <1>8

\* Composing in the preedit, the addon does not look at the text, or sees a
\* selection in it.
LEMMA PreeditKeepsCacheTrue ==
  ASSUME IInv, CacheIsTrue, focused, NEW k \in Key, ~ReplaceMode, PreeditKey(k),
         UNCHANGED <<rest, focusVars>>
  PROVE  CacheIsTrue'
<1>. DEFINE toApp == ~ProcessKey(CoreForPreedit, k).handled /\ k # Shift
            touched == ProcessKey(CoreForPreedit, k).commit # <<>>
<1>1. /\ TypeOK /\ app \in App /\ cache \in Cache
      /\ app = "terminal" => cache = Invalid
      /\ app' = app /\ rest' = rest
      /\ Tell(toApp, touched, cache)
  BY DEF IInv, TypeOK, NobodyReports, PreeditKey, focusVars
<1>2. core'.prev = <<>>
  BY PreeditStep
<1>3. Reported => cache.selected
  BY <1>1 DEF ReplaceMode, Usable, Unbacked, Reported, Cache
<1>4. CASE cache' \in Reports(app, doc', rest, selected')
  <2>1. ASSUME cache'.valid, cache'.before # <<>> \/ cache'.more
        PROVE  cache'.before = doc'
    BY <1>1, <1>4, <2>1, ReportIsTrue
  <2>. QED  BY <2>1 DEF CacheIsTrue, Reported
<1>5. CASE cache' = cache
  BY <1>2, <1>3, <1>5 DEF CacheIsTrue, Reported
<1>. QED  BY <1>1, <1>4, <1>5 DEF Tell

LEMMA OtherKeepsCacheTrue ==
  ASSUME ReportsInTime, IInv, CacheIsTrue, Next, ~KeyEvent
  PROVE  CacheIsTrue'
<1>1. /\ TypeOK /\ app \in App /\ cache \in Cache /\ doc \in Text
      /\ app = "terminal" => cache = Invalid
      /\ app = "terminal" \/ ~focused => cache = Invalid /\ report = NoReport
  BY DEF IInv, TypeOK, NobodyReports
<1>2. ASSUME cache' = cache, gap' = gap, doc' = doc, core' = core
      PROVE  CacheIsTrue'
  BY <1>2 DEF CacheIsTrue, Reported
<1>3. ASSUME NEW a \in App, a = "terminal" => cache = Invalid, NEW r, NEW s,
             cache' \in Reports(a, doc', r, s)
      PROVE  CacheIsTrue'
  <2>1. ASSUME cache'.valid, cache'.before # <<>> \/ cache'.more
        PROVE  cache'.before = doc'
    BY <1>1, <1>3, <2>1, ReportIsTrue
  <2>. QED  BY <2>1 DEF CacheIsTrue, Reported
<1>4. ASSUME cache' = Invalid
      PROVE  CacheIsTrue'
  BY <1>4 DEF CacheIsTrue, Reported, Invalid
<1>5. CASE Reset
  <2>1. cache' = cache /\ gap' = gap /\ doc' = doc /\ core'.prev = <<>>
    BY <1>5, FreshCoreType DEF Reset, textVars
  <2>. QED  BY <2>1 DEF CacheIsTrue, Reported
<1>6. ASSUME NEW imSwitch \in BOOLEAN, Deactivate(imSwitch)
      PROVE  CacheIsTrue'
  <2>1. /\ cache' = (IF imSwitch THEN cache ELSE Invalid) /\ gap' = gap
        /\ core'.prev = <<>>
    BY <1>6, FreshCoreType DEF Deactivate, CacheAfterLeaving
  <2>2. CASE imSwitch /\ ReplaceMode
    <3>1. doc' = doc \o <<>>
      BY <1>6, <2>2 DEF Deactivate
    <3>2. doc' = doc
      BY <1>1, <3>1, ConcatEmptySeq DEF Text
    <3>. QED  BY <2>1, <2>2, <3>2 DEF CacheIsTrue, Reported
  <2>3. CASE imSwitch /\ ~ReplaceMode
    <3>1. Reported => cache.selected
      BY <1>1, <2>3 DEF ReplaceMode, Usable, Unbacked, Reported, Cache
    <3>. QED  BY <2>1, <2>3, <3>1 DEF CacheIsTrue, Reported
  <2>. QED  BY <1>4, <2>1, <2>2, <2>3
<1>7. ASSUME NEW a \in Apps, FocusIn(a)
      PROVE  CacheIsTrue'
  <2>1. /\ a \in App /\ cache = Invalid /\ doc' = Existing
        /\ cache' = cache \/ cache' \in Reports(a, Existing, <<>>, FALSE)
    BY <1>1, <1>7, ReplaceAssumption DEF FocusIn
  <2>. QED  BY <1>3, <1>4, <2>1
<1>8. CASE Move \/ Select
  <2>1. CASE Move
    BY <1>1, <1>3, <2>1 DEF Move
  <2>2. CASE Select
    BY <1>1, <1>3, <2>2 DEF Select
  <2>. QED  BY <1>8, <2>1, <2>2
<1>9. CASE ReceiveReport
  <2>1. cache' = report /\ report \in Reports(app, doc, rest, selected) /\ doc' = doc
    BY <1>9 DEF ReportsInTime, ReceiveReport, textVars
  <2>. QED  BY <1>1, <1>3, <2>1
<1>10. CASE SendReport \/ DropReport \/ \E k \in Keys : Type(k)
  BY <1>2, <1>10 DEF SendReport, DropReport, Type, textVars, stateVars
<1>. QED  BY <1>5, <1>6, <1>7, <1>8, <1>9, <1>10, Zenon DEF Next

LEMMA CacheStaysTrue ==
  ASSUME ReportsInTime
  PROVE  Spec => []CacheIsTrue
<1>1. Init => CacheIsTrue
  BY DEF Init, CacheIsTrue, Reported, Invalid
<1>2. IInv /\ CacheIsTrue /\ [Next]_vars => CacheIsTrue'
  <2>1. SUFFICES ASSUME IInv, CacheIsTrue, [Next]_vars
                 PROVE  CacheIsTrue'
    OBVIOUS
  <2>2. CASE UNCHANGED vars
    BY <2>1, <2>2 DEF CacheIsTrue, Reported, vars
  <2>3. CASE KeyEvent
    <3>1. /\ focused /\ gap \notin ReportFirst /\ Head(wire) \in Key
          /\ UNCHANGED <<rest, focusVars>>
          /\ \/ ReplaceMode /\ ReplaceKey(Head(wire))
             \/ ~ReplaceMode /\ PreeditKey(Head(wire))
      BY <2>1, <2>3, HeadTailProperties DEF KeyEvent, IInv, TypeOK
    <3>2. gap = "none"
      BY <2>1, <3>1 DEF IInv, TypeOK, ReportsInTime
    <3>. QED  BY <2>1, <3>1, <3>2, ReplaceKeepsCacheTrue, PreeditKeepsCacheTrue
  <2>. QED  BY <2>1, <2>2, <2>3, OtherKeepsCacheTrue
<1>. QED  BY <1>1, <1>2, Invariance, PTL DEF Spec

\* A client that is merely late is not taken for a cursor that moved, whatever
\* applications there are and whatever the user does besides typing: where
\* the segment stands before the cursor, the cache says so too (#181).
THEOREM SegmentIsFound ==
  ASSUME ReportsInTime
  PROVE  Spec => []NoFalseDivergence
<1>1. IInv /\ CacheIsTrue => NoFalseDivergence
  <2>1. SUFFICES ASSUME IInv, CacheIsTrue, Reported, EndsWith(doc, core.prev), gap \notin ReportFirst
                 PROVE  EndsWith(cache.before, core.prev)
    BY DEF NoFalseDivergence
  <2>2. gap = "none" /\ cache.before \in Text
    BY <2>1 DEF IInv, TypeOK, ReportsInTime, Cache
  <2>. QED  BY <2>1, <2>2, SuffixNothing DEF CacheIsTrue
<1>. QED  BY <1>1, Invariance, CacheStaysTrue, PTL

-----------------------------------------------------------------------------
(***************************************************************************)
(* Editing in place implements the editor in which every key is atomic,    *)
(* for every number of keys.                                               *)
(***************************************************************************)

(***************************************************************************)
(* The steps of the atomic editor.                                         *)
(***************************************************************************)
\* The editor's copy of KeyEngine is KeyEngine.
LEMMA EditorOperators ==
  /\ \A w, k : Editor!EngineStep(w, k) = EngineStep(w, k)
  /\ \A s, t : Editor!DiffReplace(s, t) = DiffReplace(s, t)
  /\ \A d, n : Editor!DropLast(d, n) = DropLast(d, n)
  /\ \A d, k : Editor!Deliver(d, k) = Deliver(d, k)
<1>1. \A w, k : Editor!EngineStep(w, k) = EngineStep(w, k)
  BY Zenon DEF Editor!EngineStep, EngineStep, Editor!Compose, Compose, Editor!Mark, Mark,
         Editor!WordAtBreak, WordAtBreak, Editor!Composed, Composed, Editor!NotVietnamese,
         NotVietnamese, Editor!RawKeys, RawKeys, Editor!IsMacro, IsMacro, Editor!Breaks, Breaks,
         Editor!Ignored, Ignored, Editor!Letter, Letter, Editor!Space, Space, Editor!Backspace,
         Backspace, Editor!Tab, Tab, Editor!Enter, Enter
<1>2. \A s, t : Editor!DiffReplace(s, t) = DiffReplace(s, t)
  BY DEF Editor!DiffReplace, DiffReplace, Editor!CommonPrefix, CommonPrefix, Editor!ScanStops,
         ScanStops, Editor!MinLen, MinLen
<1>3. \A d, n : Editor!DropLast(d, n) = DropLast(d, n)
  BY DEF Editor!DropLast, DropLast
<1>4. \A d, k : Editor!Deliver(d, k) = Deliver(d, k)
  BY DEF Editor!Deliver, Deliver, Editor!DropLast, DropLast, Editor!Backspace, Backspace,
         Editor!Paste, Paste, Editor!Shift, Shift
<1>. QED  BY <1>1, <1>2, <1>3, <1>4

\* The key the editor takes up next is handled whole.
Handles(k) ==
  /\ Visible' = AtomicText(Visible, core.word, k)
  /\ core'.word = EngineStep(core.word, k).word

LEMMA EditorProcesses ==
  ASSUME wire # <<>>, wire' = Tail(wire), Handles(Head(wire))
  PROVE  Editor!Next
<1>1. Editor!Process
  BY EditorOperators DEF Editor!Process, AtomicText, Handles
<1>. QED  BY <1>1 DEF Editor!Next

LEMMA EditorTypes ==
  ASSUME NEW k \in Keys, wire' = Append(wire, k), Visible' = Visible, core' = core
  PROVE  Editor!Next
<1>1. Editor!Type(k)
  BY DEF Editor!Type
<1>. QED  BY <1>1 DEF Editor!Next

-----------------------------------------------------------------------------
(***************************************************************************)
(* Where the refinement holds.                                             *)
(*                                                                         *)
(* The application starts empty, keeps the focus, deletes and commits what *)
(* it is told, and what it reports is true; the user only types, and waits *)
(* for a report where the addon cannot know its own write.  Ctrl+V and a   *)
(* lone modifier leave the word behind in the core: they are excluded.     *)
(***************************************************************************)
Calm ==
  /\ ReportsInTime
  /\ Keys \subseteq Key \ {Paste, Shift}
  /\ Apps \subseteq {"editor", "lazy"}
  /\ ~HoldsText /\ Happenings = {}

\* The client has nothing to tell but its text, and the addon does not
\* distrust it.
PlainClient ==
  /\ app \in {"editor", "lazy"} /\ focused /\ ~selected /\ rest = <<>> /\ ~latch
  /\ cache.valid => ~cache.selected /\ ~cache.more
  /\ gap = "none" /\ cache.valid /\ cache.before = <<>> => doc = <<>>
  /\ wire \in Seq(Keys)

\* The word being composed is the end of what is shown, and in the preedit
\* until the first report.
WordShown ==
  /\ ShownAt(core, panel) /\ EndsIn(Visible, core.word)
  /\ ~cache.valid => core.prev = <<>> /\ core.preedit = core.word

RInv == IInv /\ CacheIsTrue /\ PlainClient /\ WordShown

Advances ==
  /\ PlainClient' /\ WordShown'
  /\ Editor!Next \/ UNCHANGED Editor!vars

LEMMA SuffixSeen ==
  ASSUME NEW t \in Text, NEW s \in Text, EndsIn(t, s)
  PROVE  EndsWith(t, s) /\ (t = <<>> => s = <<>>)
<1>1. PICK b \in Text : t = b \o s
  BY DEF EndsIn
<1>2. EndsWith(b \o s, s)
  BY SuffixOfConcat
<1>3. ASSUME b \o s = <<>>
      PROVE  s = <<>>
  <2>1. Len(b \o s) = Len(b) + Len(s) /\ Len(b) \in Nat /\ Len(s) \in Nat
    BY ConcatProperties, LenProperties DEF Text
  <2>2. Len(b \o s) = 0
    BY <1>3
  <2>3. Len(s) = 0
    BY <2>1, <2>2
  <2>. QED  BY <2>3, EmptySeq DEF Text
<1>. QED  BY <1>1, <1>2, <1>3

\* With the word at the end of what is shown and a cache that is true, the
\* addon edits in place as soon as there was a report, and finds the segment.
LEMMA ClientTrusted ==
  ASSUME RInv, gap = "none"
  PROVE  /\ ReplaceMode <=> cache.valid
         /\ Latch = FALSE
         /\ cache.valid => CoreAtCursor = core
<1>1. /\ doc \in Text /\ panel \in Text /\ core.word \in Text /\ core.prev \in Text
      /\ core \in Core /\ cache.valid \in BOOLEAN /\ latch = FALSE
      /\ doc \o <<>> = doc
  BY ConcatEmptySeq DEF RInv, IInv, TypeOK, Core, Cache, PlainClient, Text
<1>2. core.prev = <<>> \/ (core.prev = core.word /\ EndsIn(doc, core.prev))
  BY <1>1 DEF RInv, WordShown, ShownAt, Visible
<1>3. EndsWith(doc, core.prev) /\ (doc = <<>> => core.prev = <<>>)
  BY <1>1, <1>2, SuffixSeen, SuffixNothing
<1>4. cache.valid => ~cache.selected /\ ~cache.more /\ (cache.before = <<>> => doc = <<>>)
  BY DEF RInv, PlainClient
<1>5. cache.valid => ~Unbacked
  BY <1>1, <1>3, <1>4 DEF Unbacked, Reported
<1>6. cache.valid => ~Diverged
  <2>1. SUFFICES ASSUME cache.valid, core.prev # <<>>
                 PROVE  EndsWith(cache.before, core.prev)
    BY DEF Diverged
  <2>2. Reported
    BY <1>3, <1>4, <2>1 DEF RInv, CacheIsTrue, Reported
  <2>3. cache.before = doc
    BY <1>4, <2>1, <2>2 DEF RInv, CacheIsTrue
  <2>. QED  BY <1>3, <2>3
<1>. QED  BY <1>1, <1>4, <1>5, <1>6 DEF ReplaceMode, Usable, Latch, CoreAtCursor

-----------------------------------------------------------------------------
(***************************************************************************)
(* Every step keeps the invariant and is a step of the editor.             *)
(***************************************************************************)
\* The edit of process_key_replace, wherever the word was shown before.
LEMMA ReplaceShows ==
  ASSUME NEW k \in Key \ {Paste, Shift}, NEW c \in Core, NEW d \in Text, NEW p,
         ShownAt(c, p), EndsIn(d \o p, c.word),
         NEW r, r = ProcessKeyReplace(c, k)
  PROVE  LET text == DropLast(d, r.delete) \o r.insert
             shown == IF r.handled THEN text ELSE Deliver(text, k)
         IN  /\ shown = AtomicText(d \o p, c.word, k)
             /\ shown \in Text /\ EndsIn(shown, r.core.word)
             /\ r.core.word = EngineStep(c.word, k).word
             /\ r.core.prev = r.core.word
<1>. DEFINE w == c.word
            e == EngineStep(w, k)
            n == e.commit \o e.word
            x == DiffReplace(c.prev, n)
            text == DropLast(d, r.delete) \o r.insert
            shown == IF r.handled THEN text ELSE Deliver(text, k)
<1>1. w \in Text /\ c.prev \in Text /\ p \in Text /\ d \o <<>> = d
  BY EmptyText, ConcatEmptySeq DEF Core, ShownAt, Text
<1>2. PICK before \in Text : d \o p = before \o w /\ d = before \o c.prev
  <2>1. PICK b \in Text : d \o p = b \o w
    BY DEF EndsIn
  <2>2. CASE p = <<>> /\ c.prev = w
    BY <1>1, <2>1, <2>2
  <2>3. CASE p = w /\ c.prev = <<>>
    BY <1>1, <2>3
  <2>. QED  BY <2>2, <2>3 DEF ShownAt
<1>3. /\ e.handled \in BOOLEAN /\ e.acted \in BOOLEAN /\ e.commit \in Text /\ e.word \in Text
      /\ n \in Text
  BY <1>1, EngineStepType, ConcatText
<1>4. /\ ~e.acted => w = <<>> /\ e.commit = <<>> /\ e.word = <<>> /\ ~e.handled
      /\ ~e.handled => e.word = <<>>
      /\ AtomicText(before \o w, w, k) = IF e.handled THEN before \o n ELSE Deliver(before \o n, k)
  BY <1>1, KeyTakesEffect
<1>5. /\ e.acted => r = [handled |-> e.handled, delete |-> x.delete, insert |-> x.insert,
                         core |-> [word |-> e.word, prev |-> e.word, preedit |-> c.preedit]]
      /\ ~e.acted => r = [handled |-> e.handled, delete |-> 0, insert |-> <<>>, core |-> c]
  BY DEF ProcessKeyReplace
<1>. HIDE DEF e, n, x
<1>6. /\ r.handled = e.handled /\ r.core.word = e.word /\ r.core.prev = e.word
      /\ text = before \o n
  <2>1. CASE e.acted
    <3>1. DropLast(before \o c.prev, DiffReplace(c.prev, n).delete) \o DiffReplace(c.prev, n).insert
            = before \o n
      BY <1>1, <1>3, DiffReplaceIsExact, ZenonT(30)
    <3>2. r.delete = x.delete /\ r.insert = x.insert
      BY <1>5, <2>1
    <3>3. text = before \o n
      BY <1>2, <3>1, <3>2 DEF x
    <3>. QED  BY <1>5, <2>1, <3>3
  <2>2. CASE ~e.acted
    <3>1. r.handled = e.handled /\ r.core = c /\ r.delete = 0 /\ r.insert = <<>>
      BY <1>5, <2>2
    <3>2. w = <<>> /\ e.word = <<>> /\ c.prev = <<>> /\ n = <<>>
      BY <1>1, <1>4, <2>2, ConcatEmptySeq DEF n, ShownAt, Text
    <3>3. text = d
      BY <1>1, <3>1, DropNothing
    <3>. QED  BY <1>2, <3>1, <3>2, <3>3
  <2>. QED  BY <1>3, <2>1, <2>2
<1>7. shown = AtomicText(d \o p, w, k)
  BY <1>2, <1>4, <1>6
<1>8. shown \in Text /\ EndsIn(shown, e.word)
  <2>1. before \o n \in Text /\ Deliver(before \o n, k) \in Text
    BY <1>3, ConcatText, DeliverText
  <2>2. before \o e.commit \in Text /\ before \o n = (before \o e.commit) \o e.word
    BY <1>3, ConcatText, ConcatTextAssociative DEF n
  <2>3. Deliver(before \o n, k) \o <<>> = Deliver(before \o n, k)
    BY <2>1, ConcatEmptySeq DEF Text
  <2>4. CASE e.handled
    BY <1>6, <2>1, <2>2, <2>4 DEF EndsIn
  <2>5. CASE ~e.handled
    BY <1>4, <1>6, <2>1, <2>3, <2>5 DEF EndsIn
  <2>. QED  BY <1>3, <2>4, <2>5
<1>. QED  BY <1>6, <1>7, <1>8 DEF e

\* The same of process_key and the preedit behind the document.
LEMMA PreeditShows ==
  ASSUME NEW k \in Key \ {Paste, Shift}, NEW c \in Core, NEW d \in Text, c.preedit = c.word,
         NEW r, r = ProcessKey(c, k)
  PROVE  LET text == d \o r.commit
             shown == (IF r.handled THEN text ELSE Deliver(text, k)) \o r.core.preedit
         IN  /\ shown = AtomicText(d \o c.word, c.word, k)
             /\ EndsIn(shown, r.core.word)
             /\ r.core.word = EngineStep(c.word, k).word
             /\ r.core.preedit = r.core.word
<1>. DEFINE w == c.word
            e == EngineStep(w, k)
            n == e.commit \o e.word
            x == [c EXCEPT !.word = e.word, !.preedit = e.word]
            text == d \o r.commit
            received == IF r.handled THEN text ELSE Deliver(text, k)
<1>1. w \in Text
  BY DEF Core
<1>2. e.handled \in BOOLEAN /\ e.acted \in BOOLEAN /\ e.commit \in Text /\ e.word \in Text
  BY <1>1, EngineStepType
<1>3. /\ ~e.acted => w = <<>> /\ e.commit = <<>> /\ e.word = <<>> /\ ~e.handled
      /\ ~e.handled => e.word = <<>>
      /\ AtomicText(d \o w, w, k) = IF e.handled THEN d \o n ELSE Deliver(d \o n, k)
  BY <1>1, KeyTakesEffect
<1>4. r = [handled |-> e.handled, commit |-> e.commit, core |-> IF e.acted THEN x ELSE c]
  BY DEF ProcessKey
<1>. HIDE DEF e
<1>5. x.word = e.word /\ x.preedit = e.word
  BY DEF Core
<1>. HIDE DEF x
<1>6. /\ r.handled = e.handled /\ r.commit = e.commit
      /\ r.core.word = e.word /\ r.core.preedit = e.word
  <2>1. CASE e.acted
    BY <1>4, <1>5, <2>1
  <2>2. CASE ~e.acted
    BY <1>3, <1>4, <2>2
  <2>. QED  BY <1>2, <2>1, <2>2
<1>7. text \in Text /\ Deliver(text, k) \in Text /\ received \in Text
  BY <1>2, <1>6, ConcatText, DeliverText
<1>8. received \o e.word = IF e.handled THEN d \o n ELSE Deliver(d \o n, k)
  <2>1. CASE e.handled
    <3>1. (d \o e.commit) \o e.word = d \o (e.commit \o e.word)
      BY <1>2, ConcatTextAssociative
    <3>2. received = d \o e.commit
      BY <1>6, <2>1
    <3>. QED  BY <2>1, <3>1, <3>2
  <2>2. CASE ~e.handled
    <3>1. n = e.commit /\ received = Deliver(d \o n, k)
      BY <1>2, <1>3, <1>6, <2>2, ConcatEmptySeq DEF Text
    <3>. QED  BY <1>3, <1>7, <2>2, <3>1, ConcatEmptySeq DEF Text
  <2>. QED  BY <1>2, <2>1, <2>2
<1>. HIDE DEF received, n
<1>. QED  BY <1>3, <1>6, <1>7, <1>8 DEF EndsIn, e, received

LEMMA PlainReport ==
  ASSUME NEW d, NEW a \in {"editor", "lazy"}, NEW c \in Reports(a, d, <<>>, FALSE)
  PROVE  c.valid /\ ~c.selected /\ ~c.more /\ c.before = d
<1>1. c = Snapshot(d, <<>>, FALSE)
  BY DEF Reports
<1>. QED  BY <1>1 DEF Snapshot

\* What the client or the addon makes of the cache when a key was handled.
LEMMA PlainTell ==
  ASSUME RInv, gap = "none", NEW toApp \in BOOLEAN, NEW touched \in BOOLEAN,
         NEW n \in Nat, NEW ins \in Text, NEW synced \in {cache, Synced(n, ins)},
         cache.valid => touched = (n > 0 \/ ins # <<>>) /\ synced = Synced(n, ins),
         cache.valid => gap' = IF toApp THEN "none" ELSE Gap(n, ins),
         ~touched /\ ~toApp => doc' = doc,
         rest' = <<>>, selected' = FALSE, Tell(toApp, touched, synced)
  PROVE  /\ cache'.valid => ~cache'.selected /\ ~cache'.more
         /\ gap' = "none" /\ cache'.valid /\ cache'.before = <<>> => doc' = <<>>
         /\ cache.valid => cache'.valid
<1>1. /\ app \in {"editor", "lazy"} /\ rest = <<>>
      /\ cache \in Cache /\ cache.before \in Text
      /\ cache.valid => ~cache.selected /\ ~cache.more /\ (cache.before = <<>> => doc = <<>>)
  BY DEF RInv, IInv, TypeOK, PlainClient, Cache
<1>2. CASE cache' \in Reports(app, doc', rest, selected')
  BY <1>1, <1>2, PlainReport
<1>3. CASE ~toApp /\ cache' = (IF touched THEN synced ELSE cache) /\ (touched => app # "editor")
  <2>1. CASE ~cache.valid
    <3>1. cache' = cache
      BY <1>3, <2>1 DEF Synced, Reported
    <3>. QED  BY <2>1, <3>1
  <2>2. CASE cache.valid /\ ~touched
    BY <1>1, <1>3, <2>2
  <2>3. CASE cache.valid /\ touched /\ (ins = <<>> \/ ~Reported \/ EndsWith(cache.before, ins))
    <3>1. cache' = cache
      BY <1>3, <2>3 DEF Synced
    <3>2. gap' # "none"
      BY <1>1, <1>3, <2>3 DEF Gap
    <3>. QED  BY <1>1, <2>3, <3>1, <3>2
  <2>4. CASE cache.valid /\ touched /\ ins # <<>> /\ Reported /\ ~EndsWith(cache.before, ins)
    <3>. DEFINE b == DropLast(cache.before, n)
    <3>1. cache' = [cache EXCEPT !.before = b \o ins, !.selected = FALSE]
      BY <1>3, <2>4 DEF Synced
    <3>2. b \in Text
      BY <1>1, DropLastText
    <3>. HIDE DEF b
    <3>3. /\ cache'.valid = cache.valid /\ cache'.more = cache.more /\ cache'.selected = FALSE
          /\ cache'.before = b \o ins
      BY <1>1, <3>1 DEF Cache
    <3>4. b \o ins # <<>>
      <4>1. EndsIn(b \o ins, ins) /\ b \o ins \in Text
        BY <3>2, ConcatText DEF EndsIn
      <4>. QED  BY <2>4, <4>1, SuffixSeen
    <3>. QED  BY <1>1, <2>4, <3>3, <3>4
  <2>. QED  BY <2>1, <2>2, <2>3, <2>4
<1>. QED  BY <1>1, <1>2, <1>3 DEF Tell

LEMMA ReplaceKeyAdvances ==
  ASSUME Calm, RInv, gap = "none", NEW k \in Keys, ReplaceMode, ReplaceKey(k), rest' = rest
  PROVE  /\ Handles(k) /\ ~selected'
         /\ cache'.valid /\ ~cache'.selected /\ ~cache'.more
         /\ gap' = "none" /\ cache'.before = <<>> => doc' = <<>>
         /\ ShownAt(core', panel') /\ EndsIn(Visible', core'.word)
<1>. DEFINE r == ProcessKeyReplace(core, k)
            text == DropLast(doc, r.delete) \o r.insert
            shown == IF r.handled THEN text ELSE Deliver(text, k)
            touched == r.delete > 0 \/ r.insert # <<>>
<1>1. /\ TypeOK /\ core \in Core /\ doc \in Text /\ k \in Key \ {Paste, Shift}
      /\ selected = FALSE /\ rest' = <<>>
      /\ cache.valid /\ CoreAtCursor = core
      /\ ShownAt(core, panel) /\ EndsIn(doc \o panel, core.word)
  BY ClientTrusted DEF Calm, RInv, IInv, TypeOK, PlainClient, WordShown, Visible
<1>2. r.handled \in BOOLEAN /\ r.delete \in Nat /\ r.insert \in Text
  BY <1>1, ProcessKeyReplaceType
<1>3. Written(r.delete, r.insert) = text
  <2>1. r.delete > 0 => Lands
    BY <1>1, DeletionLands DEF RInv
  <2>. QED  BY <1>1, <1>2, <2>1, WrittenWhole
<1>4. /\ doc' = shown /\ selected' = FALSE /\ core' = r.core /\ panel' = <<>>
      /\ gap' = IF ~r.handled THEN "none" ELSE Gap(r.delete, r.insert)
      /\ Tell(~r.handled, touched, Synced(r.delete, r.insert))
  <2>1. /\ doc' = IF ~r.handled /\ k # Shift
                  THEN Received(Written(r.delete, r.insert), StillSelected(r.delete, r.insert), k)
                  ELSE Written(r.delete, r.insert)
        /\ selected' = (StillSelected(r.delete, r.insert) /\ ~(~r.handled /\ k # Shift))
        /\ core' = r.core /\ panel' = <<>>
        /\ gap' = IF ~r.handled /\ k # Shift THEN "none" ELSE Gap(r.delete, r.insert)
        /\ Tell(~r.handled /\ k # Shift, touched, Synced(r.delete, r.insert))
    BY <1>1, Zenon DEF ReplaceKey
  <2>2. StillSelected(r.delete, r.insert) = FALSE
    BY <1>1 DEF StillSelected
  <2>3. (~r.handled /\ k # Shift) = ~r.handled
    BY <1>1
  <2>. HIDE DEF r, touched
  <2>4. Received(Written(r.delete, r.insert), FALSE, k) = Deliver(text, k)
    BY <1>3 DEF Received
  <2>5. selected' = FALSE
    BY <2>1, <2>2
  <2>6. doc' = shown
    BY <1>2, <1>3, <2>1, <2>2, <2>3, <2>4
  <2>. QED  BY <2>1, <2>3, <2>5, <2>6
<1>5. /\ shown = AtomicText(doc \o panel, core.word, k)
      /\ shown \in Text /\ EndsIn(shown, r.core.word)
      /\ r.core.word = EngineStep(core.word, k).word
      /\ r.core.prev = r.core.word
  BY <1>1, ReplaceShows
<1>. HIDE DEF r
<1>6. ~touched /\ r.handled => doc' = doc
  <2>1. SUFFICES ASSUME ~touched, r.handled
                 PROVE  doc' = doc
    OBVIOUS
  <2>2. r.delete = 0 /\ r.insert = <<>>
    BY <1>2, <2>1
  <2>3. DropLast(doc, 0) \o <<>> = doc
    BY <1>1, DropNothing, ConcatEmptySeq DEF Text
  <2>. QED  BY <1>4, <2>1, <2>2, <2>3
<1>. HIDE DEF shown
<1>7. Visible' = shown
  <2>1. shown \o <<>> = shown
    BY <1>5, ConcatEmptySeq DEF Text
  <2>. QED  BY <1>4, <2>1 DEF Visible
<1>8. /\ cache'.valid => ~cache'.selected /\ ~cache'.more
      /\ gap' = "none" /\ cache'.valid /\ cache'.before = <<>> => doc' = <<>>
      /\ cache.valid => cache'.valid
  BY <1>1, <1>2, <1>4, <1>6, PlainTell
<1>. QED  BY <1>1, <1>4, <1>5, <1>7, <1>8 DEF Handles, ShownAt, Visible

LEMMA PreeditKeyAdvances ==
  ASSUME Calm, RInv, gap = "none", NEW k \in Keys, ~ReplaceMode, PreeditKey(k), rest' = rest
  PROVE  /\ Handles(k) /\ ~selected'
         /\ cache'.valid => ~cache'.selected /\ ~cache'.more
         /\ gap' = "none" /\ cache'.valid /\ cache'.before = <<>> => doc' = <<>>
         /\ ShownAt(core', panel') /\ EndsIn(Visible', core'.word)
         /\ core'.prev = <<>> /\ core'.preedit = core'.word
<1>. DEFINE r == ProcessKey(core, k)
            text == doc \o r.commit
            received == IF r.handled THEN text ELSE Deliver(text, k)
<1>1. /\ TypeOK /\ core \in Core /\ doc \in Text /\ k \in Key \ {Paste, Shift}
      /\ selected = FALSE /\ rest' = <<>> /\ ~cache.valid
      /\ core.prev = <<>> /\ core.preedit = core.word /\ panel = core.word
      /\ CoreForPreedit = core
  BY ClientTrusted DEF Calm, RInv, IInv, TypeOK, PlainClient, WordShown, ShownAt, CoreForPreedit
<1>2. r.handled \in BOOLEAN /\ r.commit \in Text /\ r.core.prev = <<>>
  BY <1>1, ProcessKeyType
<1>3. /\ doc' = received /\ selected' = FALSE /\ core' = r.core /\ panel' = r.core.preedit
      /\ Tell(~r.handled, r.commit # <<>>, cache)
  <2>1. /\ doc' = IF ~r.handled /\ k # Shift
                  THEN Received(text, StillSelected(0, r.commit), k)
                  ELSE text
        /\ selected' = (StillSelected(0, r.commit) /\ ~(~r.handled /\ k # Shift))
        /\ core' = r.core /\ panel' = r.core.preedit
        /\ Tell(~r.handled /\ k # Shift, r.commit # <<>>, cache)
    BY <1>1, Zenon DEF PreeditKey
  <2>2. StillSelected(0, r.commit) = FALSE
    BY <1>1 DEF StillSelected
  <2>3. (~r.handled /\ k # Shift) = ~r.handled
    BY <1>1
  <2>. HIDE DEF r, text
  <2>4. Received(text, FALSE, k) = Deliver(text, k)
    BY DEF Received
  <2>5. selected' = FALSE
    BY <2>1, <2>2
  <2>6. doc' = received
    BY <1>2, <2>1, <2>2, <2>3, <2>4
  <2>. QED  BY <2>1, <2>3, <2>5, <2>6
<1>4. /\ received \o r.core.preedit = AtomicText(doc \o core.word, core.word, k)
      /\ EndsIn(received \o r.core.preedit, r.core.word)
      /\ r.core.word = EngineStep(core.word, k).word
      /\ r.core.preedit = r.core.word
  BY <1>1, PreeditShows
<1>. HIDE DEF r, received
<1>5. Visible' = received \o r.core.preedit
  BY <1>3 DEF Visible
<1>6. /\ cache'.valid => ~cache'.selected /\ ~cache'.more
      /\ cache'.valid /\ cache'.before = <<>> => doc' = <<>>
  <2>1. CASE cache' \in Reports(app, doc', rest, selected')
    <3>1. app \in {"editor", "lazy"} /\ rest = <<>>
      BY DEF RInv, PlainClient
    <3>. QED  BY <1>3, <2>1, <3>1, PlainReport
  <2>2. CASE cache' = cache
    BY <1>1, <2>2
  <2>. QED  BY <1>3, <2>1, <2>2 DEF Tell
<1>. QED  BY <1>1, <1>2, <1>3, <1>4, <1>5, <1>6 DEF Handles, ShownAt, Visible

\* A key is handled whole, in place or in the preedit.
LEMMA KeyEventAdvances ==
  ASSUME Calm, RInv, KeyEvent
  PROVE  Advances
<1>. DEFINE k == Head(wire)
<1>1. /\ wire # <<>> /\ wire' = Tail(wire) /\ latch' = Latch /\ rest' = rest
      /\ app' = app /\ focused' = focused
      /\ \/ ReplaceMode /\ ReplaceKey(k)
         \/ ~ReplaceMode /\ PreeditKey(k)
  BY DEF KeyEvent, focusVars
<1>2. gap = "none"
  BY DEF KeyEvent, RInv, IInv, TypeOK, Calm, ReportsInTime
<1>3. PlainClient /\ wire \in Seq(Keys) /\ k \in Keys /\ wire' \in Seq(Keys)
  BY <1>1, HeadTailProperties DEF RInv, PlainClient
<1>4. /\ Handles(k) /\ ~selected'
      /\ cache'.valid => ~cache'.selected /\ ~cache'.more
      /\ gap' = "none" /\ cache'.valid /\ cache'.before = <<>> => doc' = <<>>
      /\ ShownAt(core', panel') /\ EndsIn(Visible', core'.word)
      /\ ~cache'.valid => core'.prev = <<>> /\ core'.preedit = core'.word
  <2>. HIDE DEF k
  <2>1. CASE ReplaceMode /\ ReplaceKey(k)
    BY <1>1, <1>2, <1>3, <2>1, ReplaceKeyAdvances
  <2>2. CASE ~ReplaceMode /\ PreeditKey(k)
    BY <1>1, <1>2, <1>3, <2>2, PreeditKeyAdvances
  <2>. QED  BY <1>1, <2>1, <2>2
<1>5. latch' = FALSE
  BY <1>1, <1>2, ClientTrusted
<1>6. PlainClient'
  BY <1>1, <1>3, <1>4, <1>5 DEF PlainClient
<1>7. WordShown'
  BY <1>4 DEF WordShown
<1>. QED  BY <1>1, <1>4, <1>6, <1>7, EditorProcesses DEF Advances

LEMMA OtherAdvances ==
  ASSUME Calm, RInv, [Next]_vars, ~KeyEvent
  PROVE  Advances
<1>1. /\ PlainClient /\ WordShown /\ focused
      /\ ~Reset /\ ~(\E imSwitch \in BOOLEAN : Deactivate(imSwitch))
      /\ ~(\E a \in Apps : FocusIn(a)) /\ ~Move /\ ~Select
  BY DEF Calm, RInv, PlainClient, Reset, Deactivate, FocusIn, Move, Select
<1>2. ASSUME NEW k \in Keys, Type(k)
      PROVE  Advances
  <2>1. /\ wire' = Append(wire, k) /\ Visible' = Visible
        /\ UNCHANGED <<doc, rest, selected, app, focused, cache, panel, core, latch, gap>>
    BY <1>2 DEF Type, Visible, textVars, focusVars, stateVars
  <2>2. wire' \in Seq(Keys)
    BY <1>1, <2>1, AppendProperties DEF PlainClient
  <2>3. PlainClient' /\ WordShown'
    BY <1>1, <2>1, <2>2 DEF PlainClient, WordShown
  <2>. QED  BY <2>1, <2>3, EditorTypes DEF Advances
<1>3. CASE ReceiveReport
  <2>1. /\ cache' = report /\ report \in Reports(app, doc, rest, selected)
        /\ UNCHANGED <<doc, rest, selected, app, focused, panel, core, latch, wire>>
    BY <1>3 DEF Calm, ReportsInTime, ReceiveReport, textVars, focusVars, stateVars
  <2>2. cache'.valid /\ ~cache'.selected /\ ~cache'.more /\ cache'.before = doc
    <3>1. app \in {"editor", "lazy"} /\ rest = <<>> /\ selected = FALSE
      BY <1>1 DEF PlainClient, RInv, IInv, TypeOK
    <3>. QED  BY <2>1, <3>1, PlainReport
  <2>3. Visible' = Visible
    BY <2>1 DEF Visible
  <2>4. PlainClient' /\ WordShown'
    BY <1>1, <2>1, <2>2, <2>3 DEF PlainClient, WordShown
  <2>. QED  BY <2>1, <2>3, <2>4 DEF Advances, Editor!vars
<1>4. CASE SendReport \/ DropReport \/ UNCHANGED vars
  <2>1. UNCHANGED <<doc, rest, selected, app, focused, cache, panel, core, latch, wire, gap>>
    BY <1>4 DEF SendReport, DropReport, vars, textVars, focusVars, stateVars
  <2>2. Visible' = Visible
    BY <2>1 DEF Visible
  <2>3. PlainClient' /\ WordShown'
    BY <1>1, <2>1, <2>2 DEF PlainClient, WordShown
  <2>. QED  BY <2>1, <2>2, <2>3 DEF Advances, Editor!vars
<1>. QED  BY <1>1, <1>2, <1>3, <1>4 DEF Next

LEMMA InitAtomic ==
  ASSUME Calm, Init
  PROVE  PlainClient /\ WordShown /\ Editor!Init
<1>1. doc = <<>> /\ panel = <<>> /\ core = FreshCore /\ core.word = <<>> /\ core.prev = <<>>
      /\ core.preedit = <<>> /\ wire = <<>> /\ cache.valid = FALSE
  BY FreshCoreType DEF Calm, Init, Existing, Invalid
<1>2. Visible = <<>> /\ <<>> \o <<>> = <<>>
  BY <1>1, EmptyText, ConcatEmptySeq DEF Visible, Text
<1>3. PlainClient
  BY <1>1, EmptySeq DEF Calm, Init, PlainClient
<1>4. WordShown
  BY <1>1, <1>2, EmptyText DEF WordShown, ShownAt, EndsIn
<1>5. Editor!Init
  BY <1>1, <1>2 DEF Editor!Init
<1>. QED  BY <1>3, <1>4, <1>5

\* Typing without underline, what the user sees goes through exactly the
\* states of the editor that handles one key at a time, however late the
\* client reports, and also when its first report comes in mid-word and the
\* word moves from the preedit to the document.
THEOREM Refinement ==
  ASSUME Calm
  PROVE  Spec => AtomicEdits
<1>1. ASSUME Init
      PROVE  PlainClient /\ WordShown /\ Editor!Init
  BY <1>1, InitAtomic
<1>2. ASSUME IInv, CacheIsTrue, PlainClient, WordShown, [Next]_vars
      PROVE  Advances
  <2>1. RInv
    BY <1>2 DEF RInv
  <2>. QED  BY <1>2, <2>1, KeyEventAdvances, OtherAdvances
<1>3. ASSUME IInv, CacheIsTrue, PlainClient, WordShown, [Next]_vars
      PROVE  PlainClient' /\ WordShown' /\ [Editor!Next]_(Editor!vars)
  BY <1>2, <1>3 DEF Advances
<1>4. ReportsInTime
  BY DEF Calm
<1>. QED  BY <1>1, <1>3, <1>4, Invariance, CacheStaysTrue, PTL DEF Spec, AtomicEdits, Editor!Spec
==============================================================================
