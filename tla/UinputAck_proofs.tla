--------------------------- MODULE UinputAck_proofs ---------------------------
(***************************************************************************)
(* The safety of the acknowledgement protocol, for every value of the      *)
(* constants: types, chains that leave nothing behind, no key stranded, no *)
(* segment tracked without a daemon to delete it.                          *)
(***************************************************************************)
EXTENDS UinputAck, KeyEngine_proofs, FiniteSetTheorems

\* A chain is only open, and keys are only replayed, over a socket that was
\* reachable when the chain began: it may have lost its peer since, but it
\* has not been closed.
ChainHoldsLink ==
  deleting \/ (pc = "replay" /\ buffered # <<>>) => link \in {"up", "broken"}

\* The inductive invariant.
IInv ==
  /\ TypeOK
  /\ ChainWellFormed
  /\ NothingStranded
  /\ SegmentNeedsLink
  /\ ChainHoldsLink

-----------------------------------------------------------------------------
LEMMA KeyIsEvent ==
  /\ NoKey \notin Event
  /\ \A e \in Event : Sym(e) \in Key
  /\ \A e \in Event : ~IsBackspaceSym(e) => e \in Key
  BY DEF Event, Sym, IsBackspaceSym, Key, Letter, Space, Backspace, Enter, Tab, Paste, Shift,
         Injected, NoKey

\* The socket after available(), and after a send.
LEMMA LinkOutcomes ==
  ASSUME NEW l \in Link
  PROVE  /\ UsableLinks(l) \subseteq {"up", "broken"}
         /\ "throttled" \in AvailableOutcomes(l) => l \in {"closed", "throttled"}
         /\ \A o \in SendOutcomes(l) :
              /\ o.sent \in BOOLEAN
              /\ o.link = IF o.sent THEN "up" ELSE "throttled"
<1>1. /\ l = "up" => AvailableOutcomes(l) = {"up"}
      /\ l = "broken" => AvailableOutcomes(l) = {"broken"}
      /\ l = "closed" => AvailableOutcomes(l) \subseteq {"up", "throttled"}
      /\ l = "throttled" => AvailableOutcomes(l) = {"throttled"}
  BY DEF AvailableOutcomes
<1>2. /\ UsableLinks(l) \subseteq {"up", "broken"}
      /\ "throttled" \in AvailableOutcomes(l) => l \in {"closed", "throttled"}
  BY <1>1 DEF UsableLinks, Link
<1>3. ASSUME NEW o \in SendOutcomes(l)
      PROVE  \/ o = [sent |-> TRUE, link |-> "up"]
             \/ o = [sent |-> FALSE, link |-> "throttled"]
  BY <1>3, Zenon DEF SendOutcomes
<1>4. ASSUME NEW o \in SendOutcomes(l)
      PROVE  o.sent \in BOOLEAN /\ o.link = IF o.sent THEN "up" ELSE "throttled"
  <2>1. CASE o = [sent |-> TRUE, link |-> "up"]
    BY <2>1
  <2>2. CASE o = [sent |-> FALSE, link |-> "throttled"]
    BY <2>2
  <2>. QED  BY <1>3, <2>1, <2>2
<1>. QED  BY <1>2, <1>4

LEMMA StartOutcomes ==
  ASSUME NEW l \in Link, NEW r, r.delete \in Nat, NEW o \in StartUinputReplace(r, l)
  PROVE  /\ o.sent \in BOOLEAN /\ o.link \in Link
         /\ Opens(r, o) => o.sent /\ o.link = "up"
         /\ ~o.sent => ~Opens(r, o)
         /\ o.sent /\ ~Opens(r, o) => o.link = l
<1>1. CASE r.delete = 0
  <2>1. o = [sent |-> TRUE, link |-> l]
    BY <1>1 DEF StartUinputReplace
  <2>. QED  BY <1>1, <2>1 DEF Opens
<1>2. CASE r.delete # 0
  <2>1. o \in SendOutcomes(l)
    BY <1>2 DEF StartUinputReplace
  <2>2. o.sent \in BOOLEAN /\ o.link = IF o.sent THEN "up" ELSE "throttled"
    BY <2>1, LinkOutcomes
  <2>. QED  BY <1>2, <2>2 DEF Opens, Link
<1>. QED  BY <1>1, <1>2

\* The text that goes into the document.
LEMMA CommittedText ==
  ASSUME TypeOK
  PROVE  /\ \A t \in Text : Completed(t) \in Text
         /\ \A r : r.insert \in Text => Inserted(r) \in Text
<1>1. doc \in Text /\ pendingCommit \in Text /\ pendingForward \in Key \cup {NoKey}
  BY DEF TypeOK
<1>. QED  BY <1>1, ConcatText, DeliverText DEF Completed, Inserted

\* buffered takes keys.
LEMMA BufferedKeys ==
  ASSUME TypeOK, NEW k \in Key
  PROVE  Buffer(k) \in Seq(Key)
  BY AppendProperties DEF TypeOK, Buffer

\* A chain that opens is well formed; one that does not leaves all as it was.
LEMMA TrackedChain ==
  ASSUME TypeOK, ChainWellFormed, ~deleting,
         NEW r, r.delete \in Nat, r.insert \in Text,
         NEW o, o.sent \in BOOLEAN,
         TrackChain(r, o)
  PROVE  /\ deleting' \in BOOLEAN /\ (deleting' <=> Opens(r, o)) /\ stale' \in BOOLEAN /\ owed' \in Nat
         /\ expected' \in Nat /\ current' \in Nat /\ pendingCommit' \in Text
         /\ ChainWellFormed'
<1>1. CASE Opens(r, o)
  <2>1. /\ deleting' = TRUE /\ stale' = FALSE /\ expected' = r.delete + 1 /\ current' = 0
        /\ pendingCommit' = r.insert /\ owed' = owed + r.delete + 1
    BY <1>1 DEF TrackChain
  <2>2. deleting' \in BOOLEAN /\ (deleting' <=> Opens(r, o)) /\ stale' \in BOOLEAN
    BY <1>1, <2>1, Zenon
  <2>3. owed' \in Nat /\ expected' \in Nat /\ current' \in Nat /\ pendingCommit' \in Text
    BY <2>1 DEF TypeOK
  <2>4. ChainWellFormed'
    BY <2>1 DEF ChainWellFormed
  <2>. QED  BY <2>2, <2>3, <2>4
<1>2. CASE ~Opens(r, o)
  <2>1. UNCHANGED <<deleting, stale, expected, current, pendingCommit, owed>>
    BY <1>2 DEF TrackChain, chainVars
  <2>. QED  BY <1>2, <2>1 DEF TypeOK, ChainWellFormed
<1>. QED  BY <1>1, <1>2

\* What a key does to the document, the core and the chain when no chain is open.
LEMMA DispatchedKey ==
  ASSUME IInv, ~deleting, NEW e \in Event, Dispatch(e)
  PROVE  /\ doc' \in Text /\ panel' \in Text /\ core' \in Core /\ link' \in Link
         /\ deleting' \in BOOLEAN /\ stale' \in BOOLEAN /\ owed' \in Nat
         /\ expected' \in Nat /\ current' \in Nat /\ pendingCommit' \in Text
         /\ credit' \in Int
         /\ ChainWellFormed' /\ SegmentNeedsLink'
         /\ deleting' => link' \in {"up", "broken"}
<1>. DEFINE k == Sym(e)
<1>1. k \in Key /\ core \in Core /\ link \in Link /\ doc \in Text /\ TypeOK /\ ChainWellFormed
  BY KeyIsEvent DEF IInv, TypeOK
<1>2. credit' \in Int
  BY DEF Dispatch, IInv, TypeOK
<1>3. CASE DispatchUinput(k)
  <2>. DEFINE r == ProcessKeyReplace(core, k)
  <2>0. PICK l \in UsableLinks(link) : \E o \in StartUinputReplace(r, l) :
               /\ doc' = IF r.handled /\ o.sent THEN Inserted(r) ELSE Deliver(Inserted(r), k)
               /\ panel' = <<>>
               /\ core' = CoreAfterSend(r, o)
               /\ link' = o.link
               /\ TrackChain(r, o)
    BY <1>3 DEF DispatchUinput
  <2>1. PICK o \in StartUinputReplace(r, l) :
               /\ doc' = IF r.handled /\ o.sent THEN Inserted(r) ELSE Deliver(Inserted(r), k)
               /\ panel' = <<>>
               /\ core' = CoreAfterSend(r, o)
               /\ link' = o.link
               /\ TrackChain(r, o)
    BY <2>0
  <2>2. /\ r.handled \in BOOLEAN /\ r.delete \in Nat /\ r.insert \in Text /\ r.core \in Core
    BY <1>1, ProcessKeyReplaceType
  <2>. HIDE DEF r
  <2>3. l \in {"up", "broken"} /\ l \in Link
    BY <1>1, LinkOutcomes DEF Link
  <2>4. /\ o.sent \in BOOLEAN /\ o.link \in Link
        /\ Opens(r, o) => o.sent /\ o.link = "up"
        /\ o.sent /\ ~Opens(r, o) => o.link = l
    BY <2>2, <2>3, StartOutcomes
  <2>5. /\ deleting' \in BOOLEAN /\ (deleting' <=> Opens(r, o)) /\ stale' \in BOOLEAN /\ owed' \in Nat
        /\ expected' \in Nat /\ current' \in Nat /\ pendingCommit' \in Text
        /\ ChainWellFormed'
    BY <1>1, <2>1, <2>2, <2>4, TrackedChain
  <2>6. doc' \in Text /\ panel' \in Text
    BY <1>1, <2>1, <2>2, CommittedText, DeliverText, EmptyText
  <2>7. core' \in Core /\ SegmentNeedsLink'
    <3>1. CASE o.sent
      BY <2>1, <2>2, <2>3, <2>4, <3>1 DEF CoreAfterSend, SegmentNeedsLink
    <3>2. CASE ~o.sent
      BY <2>1, <2>4, <3>2, EmptyText DEF CoreAfterSend, SegmentNeedsLink, FreshCore, Core
    <3>. QED  BY <3>1, <3>2
  <2>. QED  BY <1>2, <2>1, <2>4, <2>5, <2>6, <2>7 DEF Opens
<1>4. CASE DispatchPreedit(k)
  <2>. DEFINE r == ProcessKey(core, k)
  <2>1. /\ doc' = IF r.handled THEN doc \o r.commit ELSE Deliver(doc \o r.commit, k)
        /\ panel' = r.core.preedit
        /\ core' = r.core
        /\ link' = "throttled" /\ "throttled" \in AvailableOutcomes(link)
        /\ UNCHANGED <<chainVars, owed>>
    BY <1>4 DEF DispatchPreedit
  <2>2. /\ r.handled \in BOOLEAN /\ r.commit \in Text /\ r.core \in Core
        /\ r.core.prev = core.prev
    BY <1>1, ProcessKeyType
  <2>. HIDE DEF r
  <2>3. doc' \in Text /\ panel' \in Text /\ core' \in Core
    BY <1>1, <2>1, <2>2, ConcatText, DeliverText DEF Core
  <2>4. SegmentNeedsLink'
    BY <1>1, <2>1, <2>2, LinkOutcomes DEF IInv, SegmentNeedsLink
  <2>. QED  BY <1>1, <1>2, <2>1, <2>3, <2>4 DEF chainVars, TypeOK, ChainWellFormed, Link
<1>. QED  BY <1>3, <1>4 DEF Dispatch

-----------------------------------------------------------------------------
LEMMA InitHolds == Init => IInv
<1>. SUFFICES ASSUME Init PROVE IInv
  OBVIOUS
<1>1. TypeOK
  <2>1. <<>> \in Text /\ <<>> \in Seq(Event) /\ <<>> \in Seq(Key) /\ FreshCore \in Core
    BY EmptySeq, EmptyText DEF Core, FreshCore
  <2>2. deleting \in BOOLEAN /\ stale \in BOOLEAN /\ orphansStale \in BOOLEAN
    BY Zenon DEF Init
  <2>3. /\ owed \in Nat /\ expected \in Nat /\ current \in Nat /\ orphans \in Nat
        /\ typed \in Nat /\ lost \in Nat /\ credit \in Int
        /\ link \in Link /\ pc \in {"idle", "replay", "flush"}
    BY DEF Init, Link
  <2>4. /\ doc \in Text /\ panel \in Text /\ core \in Core /\ wire \in Seq(Event)
        /\ pendingCommit \in Text /\ buffered \in Seq(Key)
        /\ pendingForward \in Key \cup {NoKey} /\ held \in Key \cup {NoKey}
    BY <2>1, Zenon DEF Init
  <2>. QED  BY <2>2, <2>3, <2>4 DEF TypeOK
<1>. QED  BY <1>1 DEF Init, IInv, ChainWellFormed, NothingStranded, SegmentNeedsLink, ChainHoldsLink,
                      FreshCore

\* The event at the head of the stream.
LEMMA Arrival ==
  ASSUME TypeOK, NEW e, Arrives(e)
  PROVE  /\ pc = "idle" /\ e \in Event /\ wire' \in Seq(Event)
         /\ wire # <<>> /\ e = Head(wire) /\ wire' = Tail(wire)
  BY HeadTailProperties DEF TypeOK, Arrives

\* Closing the chain makes its five fields what they are at the start.
LEMMA EndedChain ==
  ASSUME EndChain
  PROVE  /\ deleting' = FALSE /\ stale' = FALSE /\ expected' = 0 /\ current' = 0
         /\ pendingCommit' = <<>> /\ pendingCommit' \in Text
         /\ ChainWellFormed'
  BY EmptyText DEF EndChain, ChainWellFormed

LEMMA KeyEventStep ==
  ASSUME IInv, KeyEvent
  PROVE  IInv'
<1>. USE DEF IInv
<1>1. PICK e \in Event : \/ SwallowOrphan(e) \/ AckPasses(e) \/ AckCompletes(e)
                         \/ ChainTimesOut(e) \/ BufferKey(e) \/ HandleKey(e)
  BY DEF KeyEvent
<1>2. Arrives(e) /\ pc = "idle" /\ wire' \in Seq(Event)
  <2>1. Arrives(e)
    BY <1>1 DEF SwallowOrphan, AckPasses, AckCompletes, ChainTimesOut, BufferKey, HandleKey,
                PastOrphans
  <2>. QED  BY <2>1, Arrival
<1>3. CASE SwallowOrphan(e)
  <2>1. orphans' \in Nat
    BY <1>3 DEF SwallowOrphan, OrphansLeft, TypeOK
  <2>. QED  BY <1>2, <1>3, <2>1 DEF SwallowOrphan, TypeOK, ChainWellFormed, NothingStranded,
              SegmentNeedsLink, ChainHoldsLink, daemonVars, chainVars, handlerVars
<1>4. OrphansLeft \in Nat
  BY DEF OrphansLeft, TypeOK
<1>5. CASE AckPasses(e)
  <2>0. /\ doc' = DropLast(doc, 1) /\ current' = current + 1 /\ current + 1 < expected
        /\ orphans' = OrphansLeft /\ orphansStale' = FALSE
    BY <1>5 DEF AckPasses, SettleOrphans
  <2>1. doc' \in Text /\ orphans' \in Nat /\ current' \in Nat /\ current' < expected
    BY <1>4, <2>0, DropLastText DEF TypeOK
  <2>. QED  BY <1>2, <1>5, <2>0, <2>1 DEF AckPasses, TypeOK, ChainWellFormed, NothingStranded,
              SegmentNeedsLink, ChainHoldsLink, daemonVars, handlerVars
<1>6. CASE AckCompletes(e)
  <2>1. EndChain /\ doc' = Completed(doc) /\ orphans' = OrphansLeft /\ orphansStale' = FALSE
    BY <1>6 DEF AckCompletes, SettleOrphans
  <2>2. doc' \in Text
    BY <2>1, CommittedText DEF TypeOK
  <2>3. /\ deleting /\ pc' = "replay" /\ pendingForward' = NoKey
        /\ UNCHANGED <<panel, core, link, owed, lost, buffered, held, typed, credit>>
    BY <1>6 DEF AckCompletes, daemonVars
  <2>4. /\ deleting' = FALSE /\ stale' = FALSE /\ expected' = 0 /\ current' = 0
        /\ pendingCommit' \in Text /\ ChainWellFormed'
    BY <2>1, EndedChain
  <2>5. TypeOK'
    BY <1>2, <1>4, <2>1, <2>2, <2>3, <2>4 DEF TypeOK
  <2>6. NothingStranded' /\ SegmentNeedsLink' /\ ChainHoldsLink'
    BY <2>3, <2>4 DEF NothingStranded, SegmentNeedsLink, ChainHoldsLink
  <2>. QED  BY <2>4, <2>5, <2>6
<1>7. CASE ChainTimesOut(e)
  <2>1. /\ EndChain /\ doc' = Completed(doc) /\ held' = e /\ pc' = "replay" /\ deleting
        /\ pendingForward' = NoKey /\ orphansStale' = FALSE
        /\ orphans' = OrphansLeft + MissingAcks /\ ~IsBackspaceSym(e)
        /\ UNCHANGED <<panel, core, link, owed, lost, buffered, typed, credit>>
    BY <1>7 DEF ChainTimesOut, daemonVars
  <2>2. doc' \in Text
    BY <2>1, CommittedText DEF TypeOK
  <2>3. held' \in Key
    BY <2>1, KeyIsEvent
  <2>4. orphans' \in Nat
    BY <1>4, <2>1 DEF MissingAcks, ChainWellFormed, TypeOK
  <2>5. /\ deleting' = FALSE /\ stale' = FALSE /\ expected' = 0 /\ current' = 0
        /\ pendingCommit' \in Text /\ ChainWellFormed'
    BY <2>1, EndedChain
  <2>6. TypeOK'
    BY <1>2, <2>1, <2>2, <2>3, <2>4, <2>5 DEF TypeOK
  <2>7. NothingStranded' /\ SegmentNeedsLink' /\ ChainHoldsLink'
    BY <2>1, <2>5 DEF NothingStranded, SegmentNeedsLink, ChainHoldsLink
  <2>. QED  BY <2>5, <2>6, <2>7
<1>8. CASE BufferKey(e)
  <2>1. buffered' \in Seq(Key)
    BY <1>8, KeyIsEvent, BufferedKeys DEF BufferKey
  <2>. QED  BY <1>2, <1>4, <1>8, <2>1
            DEF BufferKey, SettleOrphans, TypeOK, ChainWellFormed, NothingStranded,
                SegmentNeedsLink, ChainHoldsLink, daemonVars, chainVars, handlerVars
<1>9. CASE HandleKey(e)
  <2>1. /\ ~deleting /\ Dispatch(e) /\ orphans' = OrphansLeft /\ orphansStale' = FALSE
        /\ UNCHANGED <<lost, buffered, pendingForward, pc, held, typed>>
    BY <1>9 DEF HandleKey, SettleOrphans, handlerVars
  <2>2. /\ doc' \in Text /\ panel' \in Text /\ core' \in Core /\ link' \in Link
        /\ deleting' \in BOOLEAN /\ stale' \in BOOLEAN /\ owed' \in Nat
        /\ expected' \in Nat /\ current' \in Nat /\ pendingCommit' \in Text
        /\ credit' \in Int
        /\ ChainWellFormed' /\ SegmentNeedsLink'
        /\ deleting' => link' \in {"up", "broken"}
    BY <2>1, DispatchedKey
  <2>. QED  BY <1>2, <1>4, <2>1, <2>2 DEF TypeOK, NothingStranded, ChainHoldsLink
<1>. QED  BY <1>1, <1>3, <1>5, <1>6, <1>7, <1>8, <1>9

LEMMA ReplayStep ==
  ASSUME IInv, Replay
  PROVE  IInv'
<1>. USE DEF IInv
<1>1. CASE ReplayTurn
  <2>. DEFINE k == Head(buffered)
              r == ProcessKeyReplace(core, k)
              literal(o) == IsText(k) /\ ~(r.handled /\ o.sent)
              forward(o) == ~IsText(k) /\ ~(r.handled /\ o.sent)
  <2>1. PICK o \in StartUinputReplace(r, link) :
          /\ doc' = IF literal(o) \/ (forward(o) /\ ForwardsNow(r, o))
                    THEN Deliver(Inserted(r), k) ELSE Inserted(r)
          /\ pendingForward' = IF forward(o) /\ ~ForwardsNow(r, o) THEN k ELSE pendingForward
          /\ core' = CoreAfterSend(r, o)
          /\ link' = o.link
          /\ TrackChain(r, o)
          /\ pc' = IF o.sent THEN "replay" ELSE "flush"
    BY <1>1 DEF ReplayTurn
  <2>2. /\ pc = "replay" /\ buffered # <<>> /\ ~deleting /\ buffered' = Tail(buffered)
        /\ panel' = <<>> /\ UNCHANGED <<lost, wire, orphans, orphansStale, held, typed, credit>>
    BY <1>1 DEF ReplayTurn, orphanVars
  <2>3. k \in Key /\ buffered' \in Seq(Key)
    BY <2>2, HeadTailProperties DEF TypeOK
  <2>4. /\ r.handled \in BOOLEAN /\ r.delete \in Nat /\ r.insert \in Text /\ r.core \in Core
    BY <2>3, ProcessKeyReplaceType DEF TypeOK
  <2>. HIDE DEF r, k
  <2>5. link \in {"up", "broken"} /\ link \in Link
    BY <2>2 DEF ChainHoldsLink, TypeOK
  <2>6. /\ o.sent \in BOOLEAN /\ o.link \in Link
        /\ Opens(r, o) => o.sent /\ o.link = "up"
        /\ ~o.sent => ~Opens(r, o)
        /\ o.sent /\ ~Opens(r, o) => o.link = link
    BY <2>4, <2>5, StartOutcomes
  <2>7. /\ deleting' \in BOOLEAN /\ (deleting' <=> Opens(r, o)) /\ stale' \in BOOLEAN
        /\ owed' \in Nat /\ expected' \in Nat /\ current' \in Nat /\ pendingCommit' \in Text
        /\ ChainWellFormed'
    BY <2>1, <2>2, <2>4, <2>6, TrackedChain
  <2>8. doc' \in Text /\ panel' \in Text
    BY <2>1, <2>2, <2>3, <2>4, CommittedText, DeliverText, EmptyText
  <2>9. core' \in Core /\ SegmentNeedsLink'
    <3>1. CASE o.sent
      BY <2>1, <2>4, <2>5, <2>6, <3>1 DEF CoreAfterSend, SegmentNeedsLink
    <3>2. CASE ~o.sent
      BY <2>1, <2>6, <3>2, EmptyText DEF CoreAfterSend, SegmentNeedsLink, FreshCore, Core
    <3>. QED  BY <3>1, <3>2
  <2>10. pendingForward' \in Key \cup {NoKey} /\ (pendingForward' # NoKey => deleting')
    <3>1. pendingForward = NoKey
      BY <2>2 DEF NothingStranded
    <3>. QED  BY <2>1, <2>3, <2>7, <3>1 DEF ForwardsNow
  <2>11. TypeOK'
    BY <2>1, <2>2, <2>3, <2>6, <2>7, <2>8, <2>9, <2>10 DEF TypeOK
  <2>12. NothingStranded' /\ ChainHoldsLink'
    BY <2>1, <2>5, <2>6, <2>7, <2>10 DEF NothingStranded, ChainHoldsLink
  <2>. QED  BY <2>7, <2>9, <2>11, <2>12
<1>2. CASE FlushTurn
  <2>1. doc' \in Text /\ buffered' \in Seq(Key)
    BY <1>2, HeadTailProperties, DeliverText DEF FlushTurn, TypeOK
  <2>. QED  BY <1>2, <2>1
            DEF FlushTurn, TypeOK, ChainWellFormed, NothingStranded, SegmentNeedsLink,
                ChainHoldsLink, daemonVars, chainVars, orphanVars, handlerVars
<1>3. CASE FlushEnds
  <2>1. core' \in Core /\ core'.prev = <<>>
    BY <1>3, EmptyText DEF FlushEnds, FreshCore, Core
  <2>. QED  BY <1>3, <2>1
            DEF FlushEnds, TypeOK, ChainWellFormed, NothingStranded, SegmentNeedsLink,
                ChainHoldsLink, daemonVars, chainVars, orphanVars
<1>4. CASE ReplayEnds
  <2>1. /\ pc = "replay" /\ (buffered = <<>> \/ deleting) /\ pc' = "idle" /\ held' = NoKey
        /\ UNCHANGED <<lost, wire, pendingForward, orphans, orphansStale, typed>>
    BY <1>4 DEF ReplayEnds, orphanVars
  <2>2. CASE held # NoKey /\ ~deleting
    <3>1. Dispatch(held) /\ buffered' = buffered /\ buffered = <<>>
      BY <1>4, <2>1, <2>2 DEF ReplayEnds
    <3>2. held \in Event
      BY <2>2 DEF TypeOK, Event
    <3>3. /\ doc' \in Text /\ panel' \in Text /\ core' \in Core /\ link' \in Link
          /\ deleting' \in BOOLEAN /\ stale' \in BOOLEAN /\ owed' \in Nat
          /\ expected' \in Nat /\ current' \in Nat /\ pendingCommit' \in Text
          /\ credit' \in Int
          /\ ChainWellFormed' /\ SegmentNeedsLink'
          /\ deleting' => link' \in {"up", "broken"}
      BY <2>2, <3>1, <3>2, DispatchedKey
    <3>. QED  BY <2>1, <2>2, <3>1, <3>3 DEF TypeOK, NothingStranded, ChainHoldsLink
  <2>3. CASE ~(held # NoKey /\ ~deleting)
    <3>1. /\ buffered' = IF held = NoKey THEN buffered ELSE Buffer(held)
          /\ UNCHANGED <<doc, panel, core, link, owed, chainVars, credit>>
      BY <1>4, <2>3 DEF ReplayEnds
    <3>2. buffered' \in Seq(Key) /\ (buffered' # <<>> => deleting)
      BY <2>1, <2>3, <3>1, BufferedKeys DEF TypeOK
    <3>. QED  BY <2>1, <2>3, <3>1, <3>2
              DEF TypeOK, ChainWellFormed, NothingStranded, SegmentNeedsLink, ChainHoldsLink,
                  chainVars
  <2>. QED  BY <2>2, <2>3
<1>. QED  BY <1>1, <1>2, <1>3, <1>4 DEF Replay

LEMMA ClearedState ==
  ASSUME ClearUinputAckState
  PROVE  /\ deleting' = FALSE /\ stale' = FALSE /\ expected' = 0 /\ current' = 0
         /\ pendingCommit' = <<>> /\ pendingCommit' \in Text /\ ChainWellFormed'
         /\ buffered' = <<>> /\ buffered' \in Seq(Key)
         /\ pendingForward' = NoKey /\ orphans' = 0 /\ orphansStale' = FALSE
  BY EndedChain, EmptySeq DEF ClearUinputAckState

LEMMA LeavingStep ==
  ASSUME IInv, Reset \/ \E imSwitch \in BOOLEAN : Deactivate(imSwitch)
  PROVE  IInv'
<1>. USE DEF IInv
<1>1. <<>> \in Text /\ FreshCore \in Core /\ FreshCore.prev = <<>>
  BY EmptyText DEF FreshCore, Core
<1>2. CASE Reset
  <2>1. ClearUinputAckState
    BY <1>2 DEF Reset
  <2>. QED  BY <1>1, <1>2, <2>1, ClearedState
            DEF Reset, TypeOK, NothingStranded, SegmentNeedsLink, ChainHoldsLink, daemonVars,
                handlerVars
<1>3. ASSUME NEW imSwitch \in BOOLEAN, Deactivate(imSwitch)
      PROVE  IInv'
  <2>1. /\ ClearUinputAckState /\ core' = FreshCore /\ panel' = <<>> /\ pc = "idle"
        /\ UNCHANGED <<owed, lost, wire, pc, held, typed, credit>>
    BY <1>3 DEF Deactivate, handlerVars
  <2>2. link' \in Link /\ doc' \in Text
    <3>1. link' \in UsableLinks(link) \/ link' = "throttled"
      BY <1>3 DEF Deactivate
    <3>2. doc' = doc \/ doc' = doc \o panel \/ doc' = doc \o core.preedit
      BY <1>3 DEF Deactivate
    <3>. QED  BY <3>1, <3>2, LinkOutcomes, ConcatText, ZenonT(30) DEF TypeOK, Core, Link
  <2>. QED  BY <1>1, <2>1, <2>2, ClearedState
            DEF TypeOK, NothingStranded, SegmentNeedsLink, ChainHoldsLink
<1>. QED  BY <1>2, <1>3

LEMMA EnvironmentStep ==
  ASSUME IInv, Environment
  PROVE  IInv'
<1>. USE DEF IInv, TypeOK, ChainWellFormed, NothingStranded, SegmentNeedsLink, ChainHoldsLink,
             chainVars, orphanVars, daemonVars, handlerVars
<1>1. ASSUME NEW k \in Keys, Type(k)
      PROVE  IInv'
  <2>1. k \in Event
    BY ParameterAssumption DEF Event
  <2>2. wire' \in Seq(Event) /\ credit' \in Int /\ typed' \in Nat
    BY <1>1, <2>1, AppendProperties DEF Type
  <2>. QED  BY <1>1, <2>2 DEF Type
<1>2. CASE Inject
  <2>1. wire' \in Seq(Event) /\ owed' \in Nat
    BY <1>2, AppendProperties DEF Inject, Event
  <2>. QED  BY <1>2, <2>1 DEF Inject
<1>3. CASE LoseBackspace
  BY <1>3 DEF LoseBackspace
<1>4. CASE DaemonStops
  BY <1>4 DEF DaemonStops, Link
<1>5. CASE RetryIntervalPasses
  BY <1>5 DEF RetryIntervalPasses, Link
<1>6. CASE ChainGrowsOld
  BY <1>6 DEF ChainGrowsOld
<1>7. CASE OrphansGrowOld
  BY <1>7 DEF OrphansGrowOld
<1>. QED  BY <1>1, <1>2, <1>3, <1>4, <1>5, <1>6, <1>7 DEF Environment

\* The invariant holds in every state of every behaviour.
THEOREM Invariance == Spec => []IInv
<1>1. ASSUME IInv, [Next]_vars
      PROVE  IInv'
  <2>1. CASE KeyEvent
    BY <1>1, <2>1, KeyEventStep
  <2>2. CASE Replay
    BY <1>1, <2>2, ReplayStep
  <2>3. CASE Reset \/ \E imSwitch \in BOOLEAN : Deactivate(imSwitch)
    BY <1>1, <2>3, LeavingStep
  <2>4. CASE Environment
    BY <1>1, <2>4, EnvironmentStep
  <2>5. CASE UNCHANGED vars
    BY <1>1, <2>5 DEF IInv, TypeOK, ChainWellFormed, NothingStranded, SegmentNeedsLink,
                      ChainHoldsLink, vars
  <2>. QED  BY <1>1, <2>1, <2>2, <2>3, <2>4, <2>5 DEF Next
<1>. QED  BY <1>1, InitHolds, PTL DEF Spec

\* Every variable has its type: no counter is ever negative, no injected
\* Backspace is ever buffered or held as if the user had pressed it.
THEOREM TypeCorrect == Spec => []TypeOK
  BY Invariance, PTL DEF IInv

\* An open chain still expects a Backspace, and a closed one leaves nothing
\* to be committed later (#156).
THEOREM ChainsLeaveNothing == Spec => []ChainWellFormed
  BY Invariance, PTL DEF IInv

\* No key is kept back without a chain or a replay that will bring it out
\* (#96, #118).
THEOREM NoKeyStranded == Spec => []NothingStranded
  BY Invariance, PTL DEF IInv

\* The core never tracks a segment that no daemon could delete (#116).
THEOREM SegmentsHaveALink == Spec => []SegmentNeedsLink
  BY Invariance, PTL DEF IInv

-----------------------------------------------------------------------------
(***************************************************************************)
(* What a step does to the buffer and to the function keys.                *)
(***************************************************************************)
\* The three ways bufferedKeys_ may change while no reset throws it away.
FifoChange ==
  \/ buffered' = buffered
  \/ \E k \in Key : buffered' = Append(buffered, k)
  \/ buffered # <<>> /\ buffered' = Tail(buffered)

LEMMA BufferedAtEnd ==
  ASSUME NEW k \in Key, buffered' = Buffer(k)
  PROVE  FifoChange
  BY DEF Buffer, FifoChange

LEMMA KeyEventFifo ==
  ASSUME KeyEvent
  PROVE  FifoChange
<1>1. PICK e \in Event : \/ SwallowOrphan(e) \/ AckPasses(e) \/ AckCompletes(e)
                         \/ ChainTimesOut(e) \/ BufferKey(e) \/ HandleKey(e)
  BY DEF KeyEvent
<1>2. CASE BufferKey(e)
  BY <1>2, KeyIsEvent, BufferedAtEnd DEF BufferKey
<1>3. CASE ~BufferKey(e)
  BY <1>1, <1>3 DEF SwallowOrphan, AckPasses, AckCompletes, ChainTimesOut, HandleKey, FifoChange
<1>. QED  BY <1>2, <1>3

LEMMA ReplayFifo ==
  ASSUME TypeOK, Replay
  PROVE  FifoChange
<1>1. CASE ReplayTurn \/ FlushTurn
  BY <1>1 DEF ReplayTurn, FlushTurn, FifoChange
<1>2. CASE FlushEnds
  BY <1>2 DEF FlushEnds, FifoChange
<1>3. CASE ReplayEnds
  <2>1. buffered' = buffered \/ (held # NoKey /\ buffered' = Buffer(held))
    BY <1>3 DEF ReplayEnds
  <2>2. held # NoKey => held \in Key
    BY DEF TypeOK
  <2>. QED  BY <2>1, <2>2, BufferedAtEnd DEF FifoChange
<1>. QED  BY <1>1, <1>2, <1>3 DEF Replay

\* Keys are buffered in the order they arrive and leave from the front; only
\* a reset or a change of focus throws them away, together with the core's
\* word and the chain (#96).
THEOREM BufferKeepsOrder == Spec => BufferIsFifo
<1>. DEFINE ThrownAway == buffered' = <<>> /\ core' = FreshCore /\ ~deleting'
<1>1. ASSUME TypeOK, [Next]_vars
      PROVE  FifoChange \/ ThrownAway
  <2>1. CASE KeyEvent
    BY <2>1, KeyEventFifo
  <2>2. CASE Replay
    BY <1>1, <2>2, ReplayFifo
  <2>3. CASE Reset \/ \E imSwitch \in BOOLEAN : Deactivate(imSwitch)
    <3>1. ClearUinputAckState /\ core' = FreshCore
      BY <2>3 DEF Reset, Deactivate
    <3>. QED  BY <3>1, ClearedState
  <2>4. CASE Environment \/ UNCHANGED vars
    BY <2>4 DEF Environment, Type, Inject, LoseBackspace, DaemonStops, RetryIntervalPasses,
                ChainGrowsOld, OrphansGrowOld, vars, FifoChange
  <2>. QED  BY <1>1, <2>1, <2>2, <2>3, <2>4 DEF Next
<1>2. TypeOK /\ [Next]_vars =>
        [\/ buffered' = buffered
         \/ \E k \in Key : buffered' = Append(buffered, k)
         \/ buffered # <<>> /\ buffered' = Tail(buffered)
         \/ buffered' = <<>> /\ core' = FreshCore /\ ~deleting']_vars
  BY <1>1 DEF FifoChange
<1>. QED  BY <1>2, TypeCorrect, PTL DEF Spec, BufferIsFifo

\* While what is left of a failed replay goes out, no chain is open.
FlushHasNoChain == pc = "flush" => ~deleting

LEMMA FlushIsAlone == Spec => []FlushHasNoChain
<1>1. Init => FlushHasNoChain
  BY DEF Init, FlushHasNoChain
<1>2. ASSUME IInv, FlushHasNoChain, [Next]_vars
      PROVE  FlushHasNoChain'
  <2>1. CASE KeyEvent
    <3>1. PICK e \in Event : \/ SwallowOrphan(e) \/ AckPasses(e) \/ AckCompletes(e)
                             \/ ChainTimesOut(e) \/ BufferKey(e) \/ HandleKey(e)
      BY <2>1 DEF KeyEvent
    <3>2. pc = "idle" /\ pc' \in {"idle", "replay"}
      BY <3>1 DEF SwallowOrphan, AckPasses, AckCompletes, ChainTimesOut, BufferKey, HandleKey,
                  PastOrphans, Arrives, handlerVars
    <3>. QED  BY <3>2 DEF FlushHasNoChain
  <2>2. CASE ReplayTurn
    <3>. DEFINE r == ProcessKeyReplace(core, Head(buffered))
    <3>1. PICK o \in StartUinputReplace(r, link) :
             TrackChain(r, o) /\ pc' = IF o.sent THEN "replay" ELSE "flush"
      BY <2>2 DEF ReplayTurn
    <3>2. ~deleting
      BY <2>2 DEF ReplayTurn
    <3>. HIDE DEF r
    <3>3. CASE o.sent
      BY <3>1, <3>3 DEF FlushHasNoChain
    <3>4. CASE ~o.sent
      BY <3>1, <3>2, <3>4 DEF TrackChain, Opens, chainVars, FlushHasNoChain
    <3>. QED  BY <3>3, <3>4
  <2>3. CASE FlushTurn \/ FlushEnds \/ ReplayEnds
    BY <1>2, <2>3 DEF FlushTurn, FlushEnds, ReplayEnds, FlushHasNoChain, chainVars, handlerVars
  <2>4. CASE Reset \/ \E imSwitch \in BOOLEAN : Deactivate(imSwitch)
    <3>1. ClearUinputAckState
      BY <2>4 DEF Reset, Deactivate
    <3>. QED  BY <3>1, ClearedState DEF FlushHasNoChain
  <2>5. CASE Environment \/ UNCHANGED vars
    BY <1>2, <2>5 DEF Environment, Type, Inject, LoseBackspace, DaemonStops,
                RetryIntervalPasses, ChainGrowsOld, OrphansGrowOld, vars, FlushHasNoChain,
                chainVars, handlerVars
  <2>. QED  BY <1>2, <2>1, <2>2, <2>3, <2>4, <2>5 DEF Next, Replay
<1>. QED  BY <1>1, <1>2, Invariance, PTL DEF Spec

\* A text key or an unfinished chain hands no function key over.
LEMMA NoFunctionKey ==
  ASSUME TypeOK
  PROVE  /\ doc' = DropLast(doc, 1) => ~FunctionKeyOut
         /\ \A k \in Key : IsText(k) /\ doc' = Deliver(doc, k) => ~FunctionKeyOut
<1>1. Len(doc) \in Nat /\ doc \in Seq(Char)
  BY LenProperties DEF TypeOK, Text
<1>2. ASSUME doc' = DropLast(doc, 1)
      PROVE  ~FunctionKeyOut
  <2>1. CASE 1 < Len(doc)
    <3>1. doc' = SubSeq(doc, 1, Len(doc) - 1) /\ \A i \in 1 .. Len(doc) - 1 : doc[i] \in Char
      BY <1>1, <1>2, <2>1, ElementOfSeq DEF DropLast
    <3>2. Len(doc') = Len(doc) - 1
      BY <1>1, <2>1, <3>1, SubSeqProperties
    <3>. QED  BY <1>1, <3>2 DEF FunctionKeyOut
  <2>2. CASE ~(1 < Len(doc))
    <3>1. doc' = SubSeq(doc, 1, 0)
      BY <1>2, <2>2 DEF DropLast
    <3>2. Len(doc') = 0
      BY <1>1, <3>1, SubSeqProperties
    <3>. QED  BY <1>1, <3>2 DEF FunctionKeyOut
  <2>. QED  BY <2>1, <2>2
<1>3. ASSUME NEW k \in Key, IsText(k), doc' = Deliver(doc, k)
      PROVE  ~FunctionKeyOut
  <2>1. /\ k \notin {Backspace, Paste, Shift, Enter, Tab} /\ k \in Char
    BY <1>3 DEF IsText, Letter, Space, Backspace, Paste, Shift, Enter, Tab, Char
  <2>2. doc' = Append(doc, k)
    BY <1>3, <2>1 DEF Deliver
  <2>3. doc'[Len(doc')] = k
    BY <1>1, <2>1, <2>2, AppendProperties
  <2>. QED  BY <2>1, <2>3 DEF FunctionKeyOut
<1>. QED  BY <1>2, <1>3

LEMMA ReplayedFunctionKey ==
  ASSUME IInv, ReplayTurn, FunctionKeyOut
  PROVE  ~deleting'
<1>. DEFINE k == Head(buffered)
            r == ProcessKeyReplace(core, k)
            literal(o) == IsText(k) /\ ~(r.handled /\ o.sent)
            forward(o) == ~IsText(k) /\ ~(r.handled /\ o.sent)
<1>1. PICK o \in StartUinputReplace(r, link) :
        /\ doc' = IF literal(o) \/ (forward(o) /\ ForwardsNow(r, o))
                  THEN Deliver(Inserted(r), k) ELSE Inserted(r)
        /\ TrackChain(r, o)
  BY DEF ReplayTurn
<1>2. ~deleting /\ k \in Key /\ TypeOK
  BY HeadTailProperties DEF ReplayTurn, IInv, TypeOK
<1>3. r.delete \in Nat
  BY <1>2, ProcessKeyReplaceType DEF TypeOK
<1>. HIDE DEF r, k
<1>4. CASE Opens(r, o)
  <2>1. Inserted(r) = doc
    BY <1>3, <1>4 DEF Opens, Inserted
  <2>2. doc' = doc \/ (IsText(k) /\ doc' = Deliver(doc, k))
    BY <1>1, <1>4, <2>1 DEF ForwardsNow
  <2>3. doc' # doc
    BY <1>2, LenProperties DEF FunctionKeyOut, TypeOK, Text
  <2>. QED  BY <1>2, <2>2, <2>3, NoFunctionKey
<1>5. CASE ~Opens(r, o)
  BY <1>1, <1>2, <1>5 DEF TrackChain, chainVars
<1>. QED  BY <1>4, <1>5

\* "Text first, then the function key" (#118): a function key that was
\* buffered reaches the application with no chain open.
THEOREM TextBeforeFunctionKey == Spec => ForwardAfterText
<1>. DEFINE Held == (deleting \/ pc # "idle") /\ held = NoKey
<1>1. ASSUME IInv, FlushHasNoChain, [Next]_vars, FunctionKeyOut, Held
      PROVE  ~deleting'
  <2>0. TypeOK /\ Len(doc) \in Nat /\ doc' # doc
    BY <1>1, LenProperties DEF IInv, TypeOK, Text, FunctionKeyOut
  <2>1. CASE KeyEvent
    <3>1. PICK e \in Event : \/ SwallowOrphan(e) \/ AckPasses(e) \/ AckCompletes(e)
                             \/ ChainTimesOut(e) \/ BufferKey(e) \/ HandleKey(e)
      BY <2>1 DEF KeyEvent
    <3>2. CASE AckCompletes(e) \/ ChainTimesOut(e)
      BY <3>2, EndedChain DEF AckCompletes, ChainTimesOut
    <3>3. ~AckPasses(e)
      BY <1>1, <2>0, NoFunctionKey DEF AckPasses
    <3>4. ~SwallowOrphan(e) /\ ~BufferKey(e)
      BY <2>0 DEF SwallowOrphan, BufferKey
    <3>5. ~HandleKey(e)
      BY <1>1 DEF HandleKey, PastOrphans, Arrives
    <3>. QED  BY <3>1, <3>2, <3>3, <3>4, <3>5
  <2>2. CASE ReplayTurn
    BY <1>1, <2>2, ReplayedFunctionKey
  <2>3. CASE FlushTurn
    BY <1>1, <2>3 DEF FlushTurn, FlushHasNoChain, chainVars
  <2>4. ~FlushEnds /\ ~ReplayEnds
    BY <1>1, <2>0 DEF FlushEnds, ReplayEnds
  <2>5. CASE Reset \/ \E imSwitch \in BOOLEAN : Deactivate(imSwitch)
    <3>1. ClearUinputAckState
      BY <2>5 DEF Reset, Deactivate
    <3>. QED  BY <3>1, ClearedState
  <2>6. ~Environment /\ ~UNCHANGED vars
    BY <2>0 DEF Environment, Type, Inject, LoseBackspace, DaemonStops, RetryIntervalPasses,
                ChainGrowsOld, OrphansGrowOld, vars
  <2>. QED  BY <1>1, <2>1, <2>2, <2>3, <2>4, <2>5, <2>6 DEF Next, Replay
<1>2. IInv /\ FlushHasNoChain /\ [Next]_vars =>
        [FunctionKeyOut /\ (deleting \/ pc # "idle") /\ held = NoKey => ~deleting']_vars
  BY <1>1
<1>. QED  BY <1>2, Invariance, FlushIsAlone, PTL DEF Spec, ForwardAfterText

-----------------------------------------------------------------------------
(***************************************************************************)
(* The debt of the chains is covered: counting the daemon's Backspaces.    *)
(***************************************************************************)
\* Where an event stands in an input stream.
PlacesOf(w, x) == {i \in DOMAIN w : w[i] = x}

LEMMA PlacesFinite ==
  ASSUME NEW x, NEW w \in Seq(Event)
  PROVE  IsFiniteSet(PlacesOf(w, x)) /\ Cardinality(PlacesOf(w, x)) \in Nat
<1>1. Len(w) \in Nat /\ DOMAIN w = 1 .. Len(w)
  BY LenProperties
<1>2. PlacesOf(w, x) \in SUBSET (1 .. Len(w))
  BY <1>1 DEF PlacesOf
<1>3. IsFiniteSet(1 .. Len(w))
  BY <1>1, FS_Interval
<1>. QED  BY <1>2, <1>3, FS_Subset, FS_CardinalityType

LEMMA PlacesAppend ==
  ASSUME NEW x, NEW w \in Seq(Event), NEW e \in Event
  PROVE  Cardinality(PlacesOf(Append(w, e), x))
           = Cardinality(PlacesOf(w, x)) + (IF e = x THEN 1 ELSE 0)
<1>1. /\ Len(w) \in Nat /\ DOMAIN w = 1 .. Len(w)
      /\ DOMAIN Append(w, e) = 1 .. Len(w) + 1
      /\ \A i \in 1 .. Len(w) : Append(w, e)[i] = w[i]
      /\ Append(w, e)[Len(w) + 1] = e
  BY LenProperties, AppendProperties
<1>2. PlacesOf(Append(w, e), x) = PlacesOf(w, x) \cup (IF e = x THEN {Len(w) + 1} ELSE {})
  BY <1>1 DEF PlacesOf
<1>3. Len(w) + 1 \notin PlacesOf(w, x)
  BY <1>1 DEF PlacesOf
<1>4. CASE e = x
  BY <1>2, <1>3, <1>4, PlacesFinite, FS_AddElement
<1>5. CASE e # x
  <2>1. PlacesOf(Append(w, e), x) = PlacesOf(w, x)
    BY <1>2, <1>5
  <2>. QED  BY <1>5, <2>1, PlacesFinite
<1>. QED  BY <1>4, <1>5

LEMMA PlacesTail ==
  ASSUME NEW x, NEW w \in Seq(Event), w # <<>>
  PROVE  Cardinality(PlacesOf(w, x))
           = Cardinality(PlacesOf(Tail(w), x)) + (IF Head(w) = x THEN 1 ELSE 0)
<1>. DEFINE S == PlacesOf(Tail(w), x)
            T == PlacesOf(w, x) \ {1}
            f == [i \in S |-> i + 1]
<1>1. /\ Len(w) \in Nat /\ Len(w) >= 1 /\ DOMAIN w = 1 .. Len(w) /\ Head(w) = w[1]
      /\ Tail(w) \in Seq(Event) /\ DOMAIN Tail(w) = 1 .. Len(w) - 1
      /\ \A i \in 1 .. Len(w) - 1 : Tail(w)[i] = w[i + 1]
  BY LenProperties, EmptySeq, HeadTailProperties
<1>2. /\ S \in SUBSET (1 .. Len(w) - 1)
      /\ \A i \in 1 .. Len(w) - 1 : i \in S <=> i + 1 \in T
  BY <1>1 DEF PlacesOf
<1>3. T \in SUBSET (2 .. Len(w))
  BY <1>1 DEF PlacesOf
<1>. HIDE DEF S, T
<1>4. f \in Bijection(S, T)
  <2>1. f \in [S -> T]
    BY <1>2
  <2>2. \A i, j \in S : f[i] = f[j] => i = j
    BY <1>1, <1>2
  <2>3. \A t \in T : \E i \in S : f[i] = t
    <3>1. SUFFICES ASSUME NEW t \in T PROVE \E i \in S : f[i] = t
      OBVIOUS
    <3>2. t - 1 \in 1 .. Len(w) - 1 /\ (t - 1) + 1 = t
      BY <1>1, <1>3
    <3>3. t - 1 \in S
      BY <1>2, <3>2
    <3>. QED  BY <3>2, <3>3
  <2>. QED  BY <2>1, <2>2, <2>3 DEF Bijection, Injection, Surjection, IsInjective
<1>5. IsFiniteSet(S)
  BY <1>1, PlacesFinite DEF S
<1>6. Cardinality(T) = Cardinality(S)
  BY <1>4, <1>5, FS_Bijection DEF ExistsBijection
<1>7. Cardinality(T) = IF 1 \in PlacesOf(w, x) THEN Cardinality(PlacesOf(w, x)) - 1
                       ELSE Cardinality(PlacesOf(w, x))
  BY PlacesFinite, FS_RemoveElement DEF T
<1>8. 1 \in PlacesOf(w, x) <=> Head(w) = x
  BY <1>1 DEF PlacesOf
<1>9. Cardinality(PlacesOf(w, x)) \in Nat /\ Cardinality(S) \in Nat
  BY <1>1, PlacesFinite DEF S
<1>. QED  BY <1>6, <1>7, <1>8, <1>9 DEF S

\* The same of the daemon's Backspaces.
LEMMA InjectedFinite ==
  ASSUME NEW w \in Seq(Event)
  PROVE  IsFiniteSet(InjectedIn(w)) /\ Cardinality(InjectedIn(w)) \in Nat
<1>1. InjectedIn(w) = PlacesOf(w, Injected)
  BY DEF InjectedIn, PlacesOf
<1>. QED  BY <1>1, PlacesFinite

LEMMA InjectedAppend ==
  ASSUME NEW w \in Seq(Event), NEW e \in Event
  PROVE  Cardinality(InjectedIn(Append(w, e)))
           = Cardinality(InjectedIn(w)) + (IF e = Injected THEN 1 ELSE 0)
<1>1. \A v : InjectedIn(v) = PlacesOf(v, Injected)
  BY DEF InjectedIn, PlacesOf
<1>. QED  BY <1>1, PlacesAppend

LEMMA InjectedTail ==
  ASSUME NEW w \in Seq(Event), w # <<>>
  PROVE  Cardinality(InjectedIn(w))
           = Cardinality(InjectedIn(Tail(w))) + (IF Head(w) = Injected THEN 1 ELSE 0)
<1>1. \A v : InjectedIn(v) = PlacesOf(v, Injected)
  BY DEF InjectedIn, PlacesOf
<1>. QED  BY <1>1, PlacesTail

\* What a step does to the debt, in numbers.
Debt == expected - current + orphans

InjectedCount(w) == Cardinality(InjectedIn(w))

LEMMA DebtNumbers ==
  ASSUME TypeOK
  PROVE  /\ owed \in Nat /\ lost \in Nat /\ orphans \in Nat /\ OrphansLeft \in 0 .. orphans
         /\ expected \in Nat /\ current \in Nat /\ InjectedCount(wire) \in Nat
         /\ DebtIsCovered <=> Debt <= owed + InjectedCount(wire) + lost
  BY InjectedFinite DEF TypeOK, OrphansLeft, InjectedCount, Debt, DebtIsCovered, InFlight

LEMMA ReceivedEvent ==
  ASSUME TypeOK, TypeOK', NEW e, Arrives(e)
  PROVE  /\ InjectedCount(wire) \in Nat /\ InjectedCount(wire') \in Nat
         /\ e = Injected => InjectedCount(wire') = InjectedCount(wire) - 1
         /\ e # Injected => InjectedCount(wire') = InjectedCount(wire)
<1>1. wire \in Seq(Event) /\ wire # <<>> /\ e = Head(wire) /\ wire' = Tail(wire)
  BY Arrival DEF TypeOK
<1>2. /\ InjectedCount(wire) \in Nat /\ InjectedCount(wire') \in Nat
      /\ InjectedCount(wire) = InjectedCount(wire') + (IF e = Injected THEN 1 ELSE 0)
  BY <1>1, HeadTailProperties, InjectedFinite, InjectedTail DEF InjectedCount
<1>. QED  BY <1>2

\* A chain that opens expects exactly what the daemon has been asked for.
AsksAndExpects ==
  \E n \in Nat : expected' = expected + n /\ owed' = owed + n /\ current' = current

LEMMA TrackedDebt ==
  ASSUME TypeOK, ChainWellFormed, ~deleting,
         NEW r, r.delete \in Nat, NEW o, TrackChain(r, o)
  PROVE  AsksAndExpects
<1>1. expected = 0 /\ current = 0 /\ owed \in Nat
  BY DEF TypeOK, ChainWellFormed
<1>2. CASE Opens(r, o)
  <2>1. expected' = r.delete + 1 /\ current' = 0 /\ owed' = owed + (r.delete + 1)
    BY <1>1, <1>2 DEF TrackChain
  <2>. QED  BY <1>1, <2>1 DEF AsksAndExpects
<1>3. CASE ~Opens(r, o)
  <2>1. expected' = expected + 0 /\ owed' = owed + 0 /\ current' = current
    BY <1>1, <1>3 DEF TrackChain, chainVars
  <2>. QED  BY <2>1 DEF AsksAndExpects
<1>. QED  BY <1>2, <1>3

LEMMA DispatchedDebt ==
  ASSUME IInv, ~deleting, NEW e \in Event, Dispatch(e)
  PROVE  AsksAndExpects
<1>. DEFINE k == Sym(e)
            r == ProcessKeyReplace(core, k)
<1>1. TypeOK /\ ChainWellFormed /\ r.delete \in Nat
  BY KeyIsEvent, ProcessKeyReplaceType DEF IInv, TypeOK
<1>2. CASE DispatchUinput(k)
  <2>1. PICK l \in UsableLinks(link) : \E o \in StartUinputReplace(r, l) : TrackChain(r, o)
    BY <1>2 DEF DispatchUinput
  <2>2. PICK o \in StartUinputReplace(r, l) : TrackChain(r, o)
    BY <2>1
  <2>. HIDE DEF r
  <2>. QED  BY <1>1, <2>2, TrackedDebt
<1>3. CASE DispatchPreedit(k)
  <2>1. expected' = expected + 0 /\ owed' = owed + 0 /\ current' = current
    BY <1>1, <1>3 DEF DispatchPreedit, chainVars, TypeOK
  <2>. QED  BY <2>1 DEF AsksAndExpects
<1>. QED  BY <1>2, <1>3 DEF Dispatch

LEMMA KeyEventDebt ==
  ASSUME IInv, IInv', DebtIsCovered, KeyEvent
  PROVE  DebtIsCovered'
<1>1. PICK e \in Event : \/ SwallowOrphan(e) \/ AckPasses(e) \/ AckCompletes(e)
                         \/ ChainTimesOut(e) \/ BufferKey(e) \/ HandleKey(e)
  BY DEF KeyEvent
<1>2. Arrives(e)
  BY <1>1 DEF SwallowOrphan, AckPasses, AckCompletes, ChainTimesOut, BufferKey, HandleKey,
              PastOrphans
<1>3. /\ owed \in Nat /\ lost \in Nat /\ orphans \in Nat /\ OrphansLeft \in 0 .. orphans
      /\ expected \in Nat /\ current \in Nat /\ InjectedCount(wire) \in Nat
      /\ Debt <= owed + InjectedCount(wire) + lost
      /\ owed' \in Nat /\ lost' \in Nat /\ orphans' \in Nat
      /\ expected' \in Nat /\ current' \in Nat /\ InjectedCount(wire') \in Nat
  BY DebtNumbers, InjectedFinite DEF IInv, TypeOK, InjectedCount
<1>4. /\ e = Injected => InjectedCount(wire') = InjectedCount(wire) - 1
      /\ e # Injected => InjectedCount(wire') = InjectedCount(wire)
  BY <1>2, ReceivedEvent DEF IInv
<1>5. ~IsBackspaceSym(e) => e # Injected
  BY DEF IsBackspaceSym
<1>. SUFFICES Debt' <= owed' + InjectedCount(wire') + lost'
  BY DEF Debt, InjectedCount, DebtIsCovered, InFlight
<1>6. CASE SwallowOrphan(e)
  <2>1. orphans' = OrphansLeft - 1 /\ UNCHANGED <<owed, lost, expected, current>>
    BY <1>6 DEF SwallowOrphan, daemonVars, chainVars
  <2>. QED  BY <1>3, <1>4, <2>1 DEF Debt
<1>7. CASE AckPasses(e)
  <2>1. current' = current + 1 /\ orphans' = OrphansLeft /\ UNCHANGED <<owed, lost, expected>>
    BY <1>7 DEF AckPasses, SettleOrphans, daemonVars
  <2>. QED  BY <1>3, <1>4, <2>1 DEF Debt
<1>8. CASE AckCompletes(e)
  <2>1. /\ expected' = 0 /\ current' = 0 /\ orphans' = OrphansLeft /\ current < expected
        /\ UNCHANGED <<owed, lost>>
    BY <1>8 DEF AckCompletes, EndChain, SettleOrphans, daemonVars, IInv, ChainWellFormed
  <2>. QED  BY <1>3, <1>4, <2>1 DEF Debt
<1>9. CASE ChainTimesOut(e)
  <2>1. /\ expected' = 0 /\ current' = 0 /\ orphans' = OrphansLeft + (expected - current)
        /\ e # Injected /\ UNCHANGED <<owed, lost>>
    BY <1>5, <1>9 DEF ChainTimesOut, EndChain, MissingAcks, daemonVars
  <2>. QED  BY <1>3, <1>4, <2>1 DEF Debt
<1>10. CASE BufferKey(e)
  <2>1. orphans' = OrphansLeft /\ e # Injected /\ UNCHANGED <<owed, lost, expected, current>>
    BY <1>5, <1>10 DEF BufferKey, SettleOrphans, daemonVars, chainVars
  <2>. QED  BY <1>3, <1>4, <2>1 DEF Debt
<1>11. CASE HandleKey(e)
  <2>1. /\ ~deleting /\ Dispatch(e) /\ orphans' = OrphansLeft /\ lost' = lost
        /\ ~(OrphansLeft > 0 /\ IsBackspaceSym(e))
    BY <1>11 DEF HandleKey, PastOrphans, SettleOrphans
  <2>2. PICK n \in Nat : expected' = expected + n /\ owed' = owed + n /\ current' = current
    BY <2>1, DispatchedDebt DEF AsksAndExpects
  <2>3. expected = 0 /\ current = 0 /\ orphans' = OrphansLeft /\ lost' = lost
    BY <2>1 DEF IInv, ChainWellFormed
  <2>4. CASE e = Injected
    <3>1. OrphansLeft = 0
      BY <1>3, <2>1, <2>4 DEF IsBackspaceSym
    <3>2. InjectedCount(wire') = InjectedCount(wire) - 1
      BY <1>4, <2>4
    <3>. QED  BY <1>3, <2>2, <2>3, <3>1, <3>2 DEF Debt
  <2>5. CASE e # Injected
    <3>1. InjectedCount(wire') = InjectedCount(wire)
      BY <1>4, <2>5
    <3>. QED  BY <1>3, <2>2, <2>3, <3>1 DEF Debt
  <2>. QED  BY <2>4, <2>5
<1>. QED  BY <1>1, <1>6, <1>7, <1>8, <1>9, <1>10, <1>11

\* A turn of the replay asks for what its chain expects.
LEMMA ReplayAsks ==
  ASSUME IInv, IInv', Replay
  PROVE  AsksAndExpects
<1>0. owed \in Nat /\ expected \in Nat /\ owed' \in Nat /\ expected' \in Nat
  BY DEF IInv, TypeOK
<1>1. CASE ReplayTurn
  <2>. DEFINE r == ProcessKeyReplace(core, Head(buffered))
  <2>1. PICK o \in StartUinputReplace(r, link) : TrackChain(r, o)
    BY <1>1 DEF ReplayTurn
  <2>2. ~deleting /\ buffered # <<>>
    BY <1>1 DEF ReplayTurn
  <2>3. r.delete \in Nat
    BY <2>2, HeadTailProperties, ProcessKeyReplaceType DEF IInv, TypeOK
  <2>. HIDE DEF r
  <2>. QED  BY <2>1, <2>2, <2>3, TrackedDebt DEF IInv
<1>2. ASSUME UNCHANGED <<owed, expected, current>> PROVE AsksAndExpects
  <2>1. expected' = expected + 0 /\ owed' = owed + 0 /\ current' = current
    BY <1>0, <1>2
  <2>. QED  BY <2>1 DEF AsksAndExpects
<1>3. CASE FlushTurn \/ FlushEnds
  BY <1>2, <1>3 DEF FlushTurn, FlushEnds, daemonVars, chainVars
<1>4. CASE ReplayEnds
  <2>1. CASE held # NoKey /\ ~deleting
    <3>1. Dispatch(held) /\ held \in Event
      BY <1>4, <2>1 DEF ReplayEnds, IInv, TypeOK, Event
    <3>. QED  BY <2>1, <3>1, DispatchedDebt
  <2>2. CASE ~(held # NoKey /\ ~deleting)
    BY <1>2, <1>4, <2>2 DEF ReplayEnds, chainVars
  <2>. QED  BY <2>1, <2>2
<1>. QED  BY <1>1, <1>3, <1>4 DEF Replay

LEMMA ReplayDebt ==
  ASSUME IInv, IInv', DebtIsCovered, Replay
  PROVE  DebtIsCovered'
<1>1. /\ owed \in Nat /\ lost \in Nat /\ orphans \in Nat
      /\ expected \in Nat /\ current \in Nat /\ InjectedCount(wire) \in Nat
      /\ Debt <= owed + InjectedCount(wire) + lost
      /\ owed' \in Nat /\ expected' \in Nat /\ current' \in Nat
      /\ lost' \in Nat /\ orphans' \in Nat /\ InjectedCount(wire') \in Nat
  BY DebtNumbers, InjectedFinite DEF IInv, TypeOK, InjectedCount
<1>2. wire' = wire /\ orphans' = orphans /\ lost' = lost
  BY DEF Replay, ReplayTurn, FlushTurn, FlushEnds, ReplayEnds, orphanVars, daemonVars
<1>3. AsksAndExpects
  BY ReplayAsks
<1>4. PICK n \in Nat : expected' = expected + n /\ owed' = owed + n /\ current' = current
  BY <1>3 DEF AsksAndExpects
<1>5. InjectedCount(wire') = InjectedCount(wire)
  BY <1>2 DEF InjectedCount
<1>6. Debt' <= owed' + InjectedCount(wire') + lost'
  BY <1>1, <1>2, <1>4, <1>5 DEF Debt
<1>. QED  BY <1>6 DEF Debt, InjectedCount, DebtIsCovered, InFlight

LEMMA OtherDebt ==
  ASSUME IInv, IInv', DebtIsCovered,
         \/ Reset \/ \E imSwitch \in BOOLEAN : Deactivate(imSwitch)
         \/ Environment \/ UNCHANGED vars
  PROVE  DebtIsCovered'
<1>1. /\ owed \in Nat /\ lost \in Nat /\ orphans \in Nat
      /\ expected \in Nat /\ current \in Nat /\ InjectedCount(wire) \in Nat
      /\ Debt <= owed + InjectedCount(wire) + lost
      /\ owed' \in Nat /\ lost' \in Nat /\ InjectedCount(wire') \in Nat /\ wire \in Seq(Event)
  BY DebtNumbers, InjectedFinite DEF IInv, TypeOK, InjectedCount
<1>. SUFFICES Debt' <= owed' + InjectedCount(wire') + lost'
  BY DEF Debt, InjectedCount, DebtIsCovered, InFlight
<1>2. CASE Reset \/ \E imSwitch \in BOOLEAN : Deactivate(imSwitch)
  <2>1. ClearUinputAckState
    BY <1>2 DEF Reset, Deactivate
  <2>2. expected' = 0 /\ current' = 0 /\ orphans' = 0
    BY <2>1, ClearedState
  <2>. QED  BY <1>1, <2>2 DEF Debt
<1>3. ASSUME NEW k \in Keys, Type(k)
      PROVE  Debt' <= owed' + InjectedCount(wire') + lost'
  <2>1. k \in Event
    BY ParameterAssumption DEF Event
  <2>2. wire' = Append(wire, k) /\ UNCHANGED <<owed, lost, expected, current, orphans>>
    BY <1>3 DEF Type, daemonVars, chainVars, orphanVars
  <2>3. InjectedCount(wire') >= InjectedCount(wire)
    BY <1>1, <2>1, <2>2, InjectedAppend DEF InjectedCount
  <2>. QED  BY <1>1, <2>2, <2>3 DEF Debt
<1>4. CASE Inject
  <2>1. /\ owed' = owed - 1 /\ wire' = Append(wire, Injected)
        /\ UNCHANGED <<lost, expected, current, orphans>>
    BY <1>4 DEF Inject, chainVars, orphanVars
  <2>2. InjectedCount(wire') = InjectedCount(wire) + 1
    BY <1>1, <2>1, InjectedAppend DEF InjectedCount, Event
  <2>. QED  BY <1>1, <2>1, <2>2 DEF Debt
<1>5. ASSUME \/ LoseBackspace \/ DaemonStops \/ RetryIntervalPasses \/ ChainGrowsOld
             \/ OrphansGrowOld \/ UNCHANGED vars
      PROVE  Debt' <= owed' + InjectedCount(wire') + lost'
  <2>1. UNCHANGED <<wire, expected, current, orphans>>
    BY <1>5 DEF LoseBackspace, DaemonStops, RetryIntervalPasses, ChainGrowsOld, OrphansGrowOld,
                vars, chainVars, orphanVars
  <2>2. \E n \in Nat : owed = owed' + n /\ lost' = lost + n
    <3>1. CASE LoseBackspace
      <4>1. owed = owed' + 1 /\ lost' = lost + 1
        BY <1>1, <3>1 DEF LoseBackspace
      <4>. QED  BY <4>1
    <3>2. CASE DaemonStops
      <4>1. owed = owed' + owed /\ lost' = lost + owed
        BY <1>1, <3>2 DEF DaemonStops
      <4>. QED  BY <1>1, <4>1
    <3>3. CASE RetryIntervalPasses \/ ChainGrowsOld \/ OrphansGrowOld \/ UNCHANGED vars
      <4>1. owed' = owed /\ lost' = lost
        BY <3>3 DEF RetryIntervalPasses, ChainGrowsOld, OrphansGrowOld, vars, daemonVars
      <4>2. owed = owed' + 0 /\ lost' = lost + 0
        BY <1>1, <4>1
      <4>. QED  BY <4>2
    <3>. QED  BY <1>5, <3>1, <3>2, <3>3
  <2>3. PICK n \in Nat : owed = owed' + n /\ lost' = lost + n
    BY <2>2
  <2>4. InjectedCount(wire') = InjectedCount(wire)
    BY <2>1 DEF InjectedCount
  <2>. QED  BY <1>1, <2>1, <2>3, <2>4 DEF Debt
<1>. QED  BY <1>2, <1>3, <1>4, <1>5 DEF Environment

\* What the addon waits for, or means to swallow, is on its way or was lost:
\* it never waits for an acknowledgement nobody was asked for, and never
\* swallows a Backspace on account of a chain that is paid up.
THEOREM DebtsAreCovered == Spec => []DebtIsCovered
<1>1. Init => DebtIsCovered
  <2>1. Cardinality(InjectedIn(<<>>)) = 0
    BY FS_EmptySet DEF InjectedIn
  <2>. QED  BY <2>1 DEF Init, DebtIsCovered, InFlight
<1>2. ASSUME IInv, IInv', DebtIsCovered, [Next]_vars
      PROVE  DebtIsCovered'
  BY <1>2, KeyEventDebt, ReplayDebt, OtherDebt DEF Next
<1>. QED  BY <1>1, <1>2, Invariance, PTL DEF Spec

-----------------------------------------------------------------------------
(***************************************************************************)
(* No Backspace reaches the application that the user did not press.       *)
(*                                                                         *)
(* What a reset throws away is no longer swallowed when it comes back, and *)
(* a Backspace later than the orphan window is taken for the user's: the   *)
(* theorem is about the protocol between resets, with a daemon that is not *)
(* later than that.                                                        *)
(***************************************************************************)
NothingForgotten == TimelyDelivery /\ Faults \cap {"reset", "deactivate"} = {}

UserCount(w) == Cardinality(PlacesOf(w, Backspace))

\* The Backspaces the user pressed that are still in the stream have not been
\* spent; and every Backspace still to arrive will be counted by the open
\* chain, or swallowed, or paid for by one of the user's that was.
Accounted ==
  /\ credit >= UserCount(wire)
  /\ credit + (expected - current) + OrphansLeft
       >= owed + InjectedCount(wire) + UserCount(wire)
  /\ held # Backspace

LEMMA AccountNumbers ==
  ASSUME TypeOK
  PROVE  /\ owed \in Nat /\ orphans \in Nat /\ OrphansLeft \in Nat
         /\ expected \in Nat /\ current \in Nat /\ credit \in Int
         /\ InjectedCount(wire) \in Nat /\ UserCount(wire) \in Nat
  BY InjectedFinite, PlacesFinite DEF TypeOK, OrphansLeft, InjectedCount, UserCount

\* What the head of the stream takes with it.
LEMMA ReceivedCounts ==
  ASSUME TypeOK, NEW e, Arrives(e)
  PROVE  /\ InjectedCount(wire') = InjectedCount(wire) - (IF e = Injected THEN 1 ELSE 0)
         /\ UserCount(wire') = UserCount(wire) - (IF e = Backspace THEN 1 ELSE 0)
<1>1. /\ wire \in Seq(Event) /\ wire # <<>> /\ e = Head(wire) /\ wire' = Tail(wire)
      /\ wire' \in Seq(Event)
  BY Arrival DEF TypeOK
<1>2. /\ InjectedCount(wire) \in Nat /\ InjectedCount(wire') \in Nat
      /\ UserCount(wire) \in Nat /\ UserCount(wire') \in Nat
  BY <1>1, InjectedFinite, PlacesFinite DEF InjectedCount, UserCount
<1>3. InjectedCount(wire) = InjectedCount(wire') + (IF e = Injected THEN 1 ELSE 0)
  BY <1>1, InjectedTail DEF InjectedCount
<1>4. UserCount(wire) = UserCount(wire') + (IF e = Backspace THEN 1 ELSE 0)
  BY <1>1, PlacesTail DEF UserCount
<1>. QED  BY <1>2, <1>3, <1>4

LEMMA KeyEventAccount ==
  ASSUME IInv, IInv', Accounted, KeyEvent
  PROVE  Accounted'
<1>1. PICK e \in Event : \/ SwallowOrphan(e) \/ AckPasses(e) \/ AckCompletes(e)
                         \/ ChainTimesOut(e) \/ BufferKey(e) \/ HandleKey(e)
  BY DEF KeyEvent
<1>2. Arrives(e)
  BY <1>1 DEF SwallowOrphan, AckPasses, AckCompletes, ChainTimesOut, BufferKey, HandleKey,
              PastOrphans
<1>3. /\ owed \in Nat /\ orphans \in Nat /\ OrphansLeft \in Nat
      /\ expected \in Nat /\ current \in Nat /\ credit \in Int
      /\ InjectedCount(wire) \in Nat /\ UserCount(wire) \in Nat
      /\ InjectedCount(wire') \in Nat /\ UserCount(wire') \in Nat
  <2>1. wire' \in Seq(Event)
    BY DEF IInv, TypeOK
  <2>2. InjectedCount(wire') \in Nat /\ UserCount(wire') \in Nat
    BY <2>1, InjectedFinite, PlacesFinite DEF InjectedCount, UserCount
  <2>. QED  BY <2>2, AccountNumbers DEF IInv
<1>4. /\ credit >= UserCount(wire)
      /\ credit + (expected - current) + OrphansLeft
           >= owed + InjectedCount(wire) + UserCount(wire)
      /\ held # Backspace
  BY DEF Accounted
<1>5. /\ InjectedCount(wire') = InjectedCount(wire) - (IF e = Injected THEN 1 ELSE 0)
      /\ UserCount(wire') = UserCount(wire) - (IF e = Backspace THEN 1 ELSE 0)
  BY <1>2, ReceivedCounts DEF IInv
<1>6. Injected # Backspace /\ (IsBackspaceSym(e) <=> e = Injected \/ e = Backspace)
  BY DEF Injected, Backspace, IsBackspaceSym
<1>7. CASE SwallowOrphan(e)
  <2>1. /\ OrphansLeft > 0 /\ IsBackspaceSym(e) /\ orphans' = OrphansLeft - 1
        /\ UNCHANGED <<owed, expected, current, orphansStale, credit, held>>
    BY <1>7 DEF SwallowOrphan, daemonVars, chainVars, handlerVars
  <2>2. OrphansLeft' = OrphansLeft - 1
    BY <2>1 DEF OrphansLeft
  <2>. QED  BY <1>3, <1>4, <1>5, <1>6, <2>1, <2>2 DEF Accounted, InjectedCount, UserCount
<1>8. ASSUME SettleOrphans
      PROVE  OrphansLeft' = OrphansLeft
  BY <1>8 DEF SettleOrphans, OrphansLeft
<1>9. CASE AckPasses(e)
  <2>1. /\ SettleOrphans /\ IsBackspaceSym(e) /\ current' = current + 1
        /\ UNCHANGED <<owed, expected, credit, held>>
    BY <1>9 DEF AckPasses, daemonVars, handlerVars
  <2>. QED  BY <1>3, <1>4, <1>5, <1>6, <1>8, <2>1 DEF Accounted, InjectedCount, UserCount
<1>10. CASE AckCompletes(e)
  <2>1. /\ SettleOrphans /\ IsBackspaceSym(e) /\ current + 1 >= expected
        /\ expected' = 0 /\ current' = 0
        /\ UNCHANGED <<owed, credit, held>>
    BY <1>10 DEF AckCompletes, EndChain, daemonVars
  <2>. QED  BY <1>3, <1>4, <1>5, <1>6, <1>8, <2>1 DEF Accounted, InjectedCount, UserCount
<1>11. CASE ChainTimesOut(e)
  <2>1. /\ ~IsBackspaceSym(e) /\ expected' = 0 /\ current' = 0 /\ held' = e
        /\ orphans' = OrphansLeft + (expected - current) /\ orphansStale' = FALSE
        /\ UNCHANGED <<owed, credit>>
    BY <1>11 DEF ChainTimesOut, EndChain, MissingAcks, daemonVars
  <2>2. OrphansLeft' = OrphansLeft + (expected - current)
    BY <2>1 DEF OrphansLeft
  <2>. QED  BY <1>3, <1>4, <1>5, <1>6, <2>1, <2>2 DEF Accounted, InjectedCount, UserCount
<1>12. CASE BufferKey(e)
  <2>1. /\ SettleOrphans /\ ~IsBackspaceSym(e)
        /\ UNCHANGED <<owed, expected, current, credit, held>>
    BY <1>12 DEF BufferKey, daemonVars, chainVars, handlerVars
  <2>. QED  BY <1>3, <1>4, <1>5, <1>6, <1>8, <2>1 DEF Accounted, InjectedCount, UserCount
<1>13. CASE HandleKey(e)
  <2>1. /\ SettleOrphans /\ ~deleting /\ Dispatch(e) /\ held' = held
        /\ ~(OrphansLeft > 0 /\ IsBackspaceSym(e))
    BY <1>13 DEF HandleKey, PastOrphans, handlerVars
  <2>2. PICK n \in Nat : expected' = expected + n /\ owed' = owed + n /\ current' = current
    BY <2>1, DispatchedDebt DEF AsksAndExpects
  <2>3. credit' = credit - (IF IsBackspaceSym(e) THEN 1 ELSE 0)
    BY <1>3, <2>1 DEF Dispatch
  <2>4. OrphansLeft' = OrphansLeft /\ expected = 0 /\ current = 0
    BY <1>8, <2>1 DEF IInv, ChainWellFormed
  <2>5. IsBackspaceSym(e) => OrphansLeft = 0
    BY <1>3, <2>1
  <2>6. credit' >= UserCount(wire')
    BY <1>3, <1>4, <1>5, <1>6, <2>3, <2>4, <2>5
  <2>7. credit' + (expected' - current') + OrphansLeft'
          >= owed' + InjectedCount(wire') + UserCount(wire')
    BY <1>3, <1>4, <1>5, <1>6, <2>2, <2>3, <2>4
  <2>. QED  BY <1>4, <2>1, <2>6, <2>7 DEF Accounted, InjectedCount, UserCount
<1>. QED  BY <1>1, <1>7, <1>9, <1>10, <1>11, <1>12, <1>13

LEMMA ReplayAccount ==
  ASSUME IInv, IInv', Accounted, Replay
  PROVE  Accounted'
<1>1. /\ owed \in Nat /\ orphans \in Nat /\ OrphansLeft \in Nat
      /\ expected \in Nat /\ current \in Nat /\ credit \in Int
      /\ InjectedCount(wire) \in Nat /\ UserCount(wire) \in Nat
      /\ credit >= UserCount(wire)
      /\ credit + (expected - current) + OrphansLeft
           >= owed + InjectedCount(wire) + UserCount(wire)
      /\ held # Backspace
  BY AccountNumbers DEF IInv, Accounted
<1>2. /\ wire' = wire /\ OrphansLeft' = OrphansLeft
      /\ held' = held \/ held' = NoKey
  BY DEF Replay, ReplayTurn, FlushTurn, FlushEnds, ReplayEnds, orphanVars, handlerVars,
         OrphansLeft
<1>3. credit' = credit
  <2>1. CASE ReplayEnds /\ held # NoKey /\ ~deleting
    <3>1. Dispatch(held) /\ held \in Key
      BY <2>1 DEF ReplayEnds, IInv, TypeOK
    <3>2. ~IsBackspaceSym(held)
      BY <1>1, <3>1 DEF IsBackspaceSym, Key, Letter, Space, Backspace, Enter, Tab, Paste, Shift,
                        Injected
    <3>. QED  BY <3>1, <3>2 DEF Dispatch
  <2>2. CASE ~(ReplayEnds /\ held # NoKey /\ ~deleting)
    BY <2>2 DEF Replay, ReplayTurn, FlushTurn, FlushEnds, ReplayEnds
  <2>. QED  BY <2>1, <2>2
<1>4. AsksAndExpects
  BY ReplayAsks
<1>5. PICK n \in Nat : expected' = expected + n /\ owed' = owed + n /\ current' = current
  BY <1>4 DEF AsksAndExpects
<1>6. held' # Backspace
  BY <1>1, <1>2 DEF NoKey, Backspace
<1>7. InjectedCount(wire') = InjectedCount(wire) /\ UserCount(wire') = UserCount(wire)
  BY <1>2 DEF InjectedCount, UserCount
<1>8. credit' + (expected' - current') + OrphansLeft'
        >= owed' + InjectedCount(wire') + UserCount(wire')
  BY <1>1, <1>2, <1>3, <1>5, <1>7
<1>. QED  BY <1>1, <1>3, <1>6, <1>7, <1>8 DEF Accounted, InjectedCount, UserCount

LEMMA OtherAccount ==
  ASSUME NothingForgotten, IInv, IInv', Accounted,
         \/ Reset \/ \E imSwitch \in BOOLEAN : Deactivate(imSwitch)
         \/ Environment \/ UNCHANGED vars
  PROVE  Accounted'
<1>1. /\ owed \in Nat /\ orphans \in Nat /\ OrphansLeft \in Nat
      /\ expected \in Nat /\ current \in Nat /\ credit \in Int /\ wire \in Seq(Event)
      /\ InjectedCount(wire) \in Nat /\ UserCount(wire) \in Nat
      /\ credit >= UserCount(wire)
      /\ credit + (expected - current) + OrphansLeft
           >= owed + InjectedCount(wire) + UserCount(wire)
      /\ held # Backspace
  BY AccountNumbers DEF IInv, Accounted, TypeOK
<1>2. ~Reset /\ ~\E imSwitch \in BOOLEAN : Deactivate(imSwitch)
  BY DEF NothingForgotten, Reset, Deactivate
<1>3. ASSUME NEW k \in Keys, Type(k)
      PROVE  Accounted'
  <2>1. k \in Event /\ k # Injected
    BY ParameterAssumption DEF Event, Key, Letter, Space, Backspace, Enter, Tab, Paste, Shift,
                               Injected
  <2>2. /\ wire' = Append(wire, k)
        /\ credit' = IF k = Backspace THEN credit + 1 ELSE credit
        /\ UNCHANGED <<owed, expected, current, orphans, orphansStale, held>>
    BY <1>3 DEF Type, daemonVars, chainVars, orphanVars, handlerVars
  <2>3. InjectedCount(wire') = InjectedCount(wire)
    BY <1>1, <2>1, <2>2, InjectedAppend DEF InjectedCount
  <2>4. UserCount(wire') = UserCount(wire) + (IF k = Backspace THEN 1 ELSE 0)
    BY <1>1, <2>1, <2>2, PlacesAppend DEF UserCount
  <2>5. OrphansLeft' = OrphansLeft
    BY <2>2 DEF OrphansLeft
  <2>. QED  BY <1>1, <2>2, <2>3, <2>4, <2>5 DEF Accounted, InjectedCount, UserCount
<1>4. CASE Inject
  <2>1. /\ owed' = owed - 1 /\ wire' = Append(wire, Injected)
        /\ UNCHANGED <<expected, current, orphans, orphansStale, held, credit>>
    BY <1>4 DEF Inject, chainVars, orphanVars, handlerVars
  <2>2. InjectedCount(wire') = InjectedCount(wire) + 1
    BY <1>1, <2>1, InjectedAppend DEF InjectedCount, Event
  <2>3. UserCount(wire') = UserCount(wire)
    BY <1>1, <2>1, PlacesAppend, SMTT(30) DEF UserCount, Event, Injected, Backspace
  <2>4. OrphansLeft' = OrphansLeft
    BY <2>1 DEF OrphansLeft
  <2>. QED  BY <1>1, <2>1, <2>2, <2>3, <2>4 DEF Accounted, InjectedCount, UserCount
<1>5. CASE OrphansGrowOld
  <2>1. owed + InjectedCount(wire) = 0
    BY <1>5 DEF OrphansGrowOld, NothingForgotten, InFlight, InjectedCount
  <2>2. /\ UNCHANGED <<wire, owed, expected, current, credit, held>> /\ orphansStale' = TRUE
    BY <1>5 DEF OrphansGrowOld, daemonVars, chainVars, handlerVars
  <2>3. OrphansLeft' = 0
    BY <2>2 DEF OrphansLeft
  <2>4. expected >= current
    BY <1>1 DEF IInv, ChainWellFormed
  <2>. QED  BY <1>1, <2>1, <2>2, <2>3, <2>4 DEF Accounted, InjectedCount, UserCount
<1>6. ASSUME \/ LoseBackspace \/ DaemonStops \/ RetryIntervalPasses \/ ChainGrowsOld
             \/ UNCHANGED vars
      PROVE  Accounted'
  <2>1. /\ UNCHANGED <<wire, expected, current, orphans, orphansStale, held, credit>>
    BY <1>6 DEF LoseBackspace, DaemonStops, RetryIntervalPasses, ChainGrowsOld, vars,
                chainVars, orphanVars, handlerVars
  <2>2. owed' \in Nat /\ owed' <= owed
    BY <1>1, <1>6 DEF LoseBackspace, DaemonStops, RetryIntervalPasses, ChainGrowsOld, vars,
                      daemonVars
  <2>3. OrphansLeft' = OrphansLeft
    BY <2>1 DEF OrphansLeft
  <2>. QED  BY <1>1, <2>1, <2>2, <2>3 DEF Accounted, InjectedCount, UserCount
<1>. QED  BY <1>2, <1>3, <1>4, <1>5, <1>6 DEF Environment

LEMMA BackspacesAreAccounted ==
  ASSUME NothingForgotten
  PROVE  Spec => []Accounted
<1>1. Init => Accounted
  <2>1. InjectedCount(<<>>) = 0 /\ UserCount(<<>>) = 0
    BY FS_EmptySet DEF InjectedCount, UserCount, InjectedIn, PlacesOf
  <2>. QED  BY <2>1 DEF Init, Accounted, OrphansLeft, NoKey, Backspace
<1>2. ASSUME IInv, IInv', Accounted, [Next]_vars
      PROVE  Accounted'
  BY <1>2, KeyEventAccount, ReplayAccount, OtherAccount DEF Next
<1>. QED  BY <1>1, <1>2, Invariance, PTL DEF Spec

\* However late within its window a Backspace of the daemon comes back, of a
\* chain that is open, done or given up, the application and the core never
\* see more of them than the user pressed (#125).
THEOREM NoBackspaceIsExtra ==
  ASSUME NothingForgotten
  PROVE  Spec => []NoExtraBackspace
<1>1. IInv /\ Accounted => NoExtraBackspace
  BY AccountNumbers DEF IInv, Accounted, NoExtraBackspace
<1>. QED  BY <1>1, Invariance, BackspacesAreAccounted, PTL
==============================================================================
