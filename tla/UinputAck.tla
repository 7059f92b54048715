------------------------------ MODULE UinputAck ------------------------------
(***************************************************************************)
(* Typing without underline in an application that has no surrounding      *)
(* text (PinaKeyState, fcitx5/src/pinakey.cpp).  To rewrite the word on    *)
(* the screen the addon asks a daemon to press Backspace n + 1 times on a  *)
(* virtual keyboard.  The presses come back through the same input stream  *)
(* as the user's keys and carry no mark: the first n are let through and   *)
(* delete, the last one acknowledges and only then is the new text         *)
(* committed.  Keys typed meanwhile are buffered and replayed.             *)
(*                                                                         *)
(* fcitx5 runs every handler on one thread.  A handler that loops over the *)
(* buffered keys takes one step per turn; pc keeps the other handlers out  *)
(* until the loop is over.                                                 *)
(***************************************************************************)
EXTENDS KeyEngine, FiniteSets

CONSTANTS
  Keys,            \* the keys the user types
  MaxKeys,         \* bound: how many keys are typed
  BufferCap,       \* bufferedKeys_.size() < 32
  Faults,          \* what may go wrong, a subset of Fault
  MaxLost,         \* bound: how many injected Backspaces are lost
  TimelyDelivery,  \* no injected Backspace is later than the 1000 ms orphan window
  QuietBackspace,  \* the user presses Backspace only when nothing is pending
  ClientPreedit    \* CapabilityFlag::Preedit of the application

Fault == {"timeout", "loss", "reset", "deactivate", "unreachable", "restart"}

ASSUME ParameterAssumption ==
  /\ Keys \subseteq Key
  /\ MaxKeys \in Nat /\ MaxLost \in Nat
  /\ BufferCap \in Nat \ {0}
  /\ Faults \subseteq Fault
  /\ TimelyDelivery \in BOOLEAN /\ QuietBackspace \in BOOLEAN /\ ClientPreedit \in BOOLEAN

Injected == "inj"    \* a Backspace press of the daemon's virtual keyboard
NoKey    == "none"

Event == Key \cup {Injected}

IsBackspaceSym(e) == e \in {Backspace, Injected}

\* The addon cannot tell the daemon's Backspace from the user's.
Sym(e) == IF e = Injected THEN Backspace ELSE e

\* isPrintableText, and no real modifier.
IsText(k) == k \in Letter \cup {Space}

VARIABLES
  doc,             \* the application's text before the cursor
  panel,           \* the preedit shown in the input panel
  core,            \* the PkEngine behind core_
  link,            \* UinputClient: fd_ open, its peer gone, closed, or throttled
  owed,            \* Backspaces the daemon has been sent and has not injected
  wire,            \* the input stream towards fcitx5
  deleting,        \* deleting_
  stale,           \* more than 500 ms since deletingSince_
  expected,        \* expectedBackspaces_
  current,         \* currentBackspaceCount_
  pendingCommit,   \* pendingCommit_
  buffered,        \* bufferedKeys_
  pendingForward,  \* pendingForwardKey_
  orphans,         \* orphanBackspaces_
  orphansStale,    \* more than 1000 ms since orphanSince_
  pc,              \* where the running handler is
  held,            \* the key keyEvent goes on with after the replay
  typed,           \* history: how many keys were typed
  lost,            \* history: how many injected Backspaces were lost
  credit           \* history: Backspaces pressed by the user, less those handled as the user's

chainVars == <<deleting, stale, expected, current, pendingCommit>>
orphanVars == <<orphans, orphansStale>>
daemonVars == <<link, owed, lost>>
handlerVars == <<pc, held>>
vars == <<doc, panel, core, link, owed, wire, deleting, stale, expected, current, pendingCommit,
          buffered, pendingForward, orphans, orphansStale, pc, held, typed, lost, credit>>

Link == {"up", "broken", "closed", "throttled"}

Init ==
  /\ doc = <<>> /\ panel = <<>> /\ core = FreshCore
  /\ link = "closed" /\ owed = 0 /\ wire = <<>>
  /\ deleting = FALSE /\ stale = FALSE
  /\ expected = 0 /\ current = 0 /\ pendingCommit = <<>>
  /\ buffered = <<>> /\ pendingForward = NoKey
  /\ orphans = 0 /\ orphansStale = FALSE
  /\ pc = "idle" /\ held = NoKey
  /\ typed = 0 /\ lost = 0 /\ credit = 0

-----------------------------------------------------------------------------
(***************************************************************************)
(* UinputClient.                                                           *)
(***************************************************************************)
\* available(): a closed socket is connected again; a failed attempt is not
\* repeated for five seconds.
AvailableOutcomes(l) ==
  CASE l \in {"up", "broken"} -> {l}
    [] l = "closed" -> {"up"} \cup (IF "unreachable" \in Faults THEN {"throttled"} ELSE {})
    [] l = "throttled" -> {"throttled"}

\* sendBackspaces(): a failed send closes the socket and starts the throttle.
SendOutcomes(l) ==
  LET reached == AvailableOutcomes(l)
      fails   == reached # {"up"} \/ "unreachable" \in Faults
  IN  {[sent |-> TRUE, link |-> "up"] : x \in reached \cap {"up"}}
        \cup (IF fails THEN {[sent |-> FALSE, link |-> "throttled"]} ELSE {})

\* useUinput(): what link is when it says yes.
UsableLinks(l) == AvailableOutcomes(l) \ {"throttled"}

-----------------------------------------------------------------------------
(***************************************************************************)
(* startUinputReplace().                                                   *)
(***************************************************************************)
StartUinputReplace(r, l) ==
  IF r.delete = 0 THEN {[sent |-> TRUE, link |-> l]} ELSE SendOutcomes(l)

\* A message that went out with something to delete opens a chain.
Opens(r, o) == o.sent /\ r.delete > 0

\* Mutant: the text is committed without waiting for the deletion (#28).
CommitsAtOnce(r) == doc \o r.insert

\* Nothing to delete: the text is committed at once.
Inserted(r) == IF r.delete = 0 THEN doc \o r.insert ELSE doc

\* Mutant: the core keeps its word whatever became of the deletion (#116).
KeepsWord(r, o) == r.core

\* The core forgets its word when its deletion could not be sent.
CoreAfterSend(r, o) == IF o.sent THEN r.core ELSE FreshCore

\* Mutant: one Backspace more is expected than was asked for.
ExpectsOneMore(r, o) ==
  IF Opens(r, o)
  THEN /\ deleting' = TRUE
       /\ stale' = FALSE
       /\ expected' = r.delete + 2
       /\ current' = 0
       /\ pendingCommit' = r.insert
       /\ owed' = owed + r.delete + 1
  ELSE UNCHANGED <<chainVars, owed>>

TrackChain(r, o) ==
  IF Opens(r, o)
  THEN /\ deleting' = TRUE
       /\ stale' = FALSE
       /\ expected' = r.delete + 1
       /\ current' = 0
       /\ pendingCommit' = r.insert
       /\ owed' = owed + r.delete + 1
  ELSE UNCHANGED <<chainVars, owed>>

\* Mutant: the text of the chain survives it (#156).
EndsButKeepsText ==
  /\ deleting' = FALSE
  /\ stale' = FALSE
  /\ expected' = 0
  /\ current' = 0
  /\ UNCHANGED pendingCommit

\* The chain is over; a reset of its five fields.
EndChain ==
  /\ deleting' = FALSE
  /\ stale' = FALSE
  /\ expected' = 0
  /\ current' = 0
  /\ pendingCommit' = <<>>

\* commitString(pendingCommit_), then flushPendingForward().
Completed(text) ==
  IF pendingForward = NoKey
  THEN text \o pendingCommit
  ELSE Deliver(text \o pendingCommit, pendingForward)

-----------------------------------------------------------------------------
(***************************************************************************)
(* keyEvent(): one key at the head of the input stream.                    *)
(***************************************************************************)
\* Mutant: the age of the chain is never looked at.
NeverExpires == FALSE

\* The safety net's test: the chain is older than 500 ms.
Expired == stale

\* Mutants: the debt with its operands swapped, with what has already come
\* back counted again, and forgotten (#125).
SwappedDebt == current - expected
WholeChain  == expected
NoDebt      == 0

\* What a chain that is given up still owes.
MissingAcks == expected - current

\* orphanBackspaces_ once those older than 1000 ms are written off.
OrphansLeft == IF orphansStale THEN 0 ELSE orphans

Arrives(e) ==
  /\ pc = "idle"
  /\ wire # <<>>
  /\ e = Head(wire)
  /\ wire' = Tail(wire)

\* A Backspace of a chain that timed out comes back late: swallowed.
SwallowOrphan(e) ==
  /\ Arrives(e)
  /\ OrphansLeft > 0 /\ IsBackspaceSym(e)
  /\ orphans' = OrphansLeft - 1
  /\ UNCHANGED <<doc, panel, core, daemonVars, chainVars, buffered, pendingForward,
                 orphansStale, handlerVars, typed, credit>>

\* The key is no orphan; a debt that is too old is written off.
PastOrphans(e) ==
  /\ Arrives(e)
  /\ ~(OrphansLeft > 0 /\ IsBackspaceSym(e))

SettleOrphans == orphans' = OrphansLeft /\ orphansStale' = FALSE

\* handleUinputAck(), before the last Backspace: let through, it deletes.
AckPasses(e) ==
  /\ PastOrphans(e) /\ SettleOrphans
  /\ deleting /\ IsBackspaceSym(e)
  /\ current + 1 < expected
  /\ current' = current + 1
  /\ doc' = DropLast(doc, 1)
  /\ UNCHANGED <<panel, core, daemonVars, deleting, stale, expected, pendingCommit, buffered,
                 pendingForward, handlerVars, typed, credit>>

\* Mutant: the buffered keys are not replayed.
CompletesWithoutReplay(e) ==
  /\ PastOrphans(e) /\ SettleOrphans
  /\ deleting /\ IsBackspaceSym(e)
  /\ current + 1 >= expected
  /\ doc' = Completed(doc)
  /\ EndChain
  /\ pendingForward' = NoKey
  /\ UNCHANGED <<panel, core, daemonVars, buffered, handlerVars, typed, credit>>

\* handleUinputAck(), the last Backspace: swallowed; commit, then replay.
AckCompletes(e) ==
  /\ PastOrphans(e) /\ SettleOrphans
  /\ deleting /\ IsBackspaceSym(e)
  /\ current + 1 >= expected
  /\ doc' = Completed(doc)
  /\ EndChain
  /\ pendingForward' = NoKey
  /\ pc' = "replay"
  /\ UNCHANGED <<panel, core, daemonVars, buffered, held, typed, credit>>

\* The 500 ms safety net: what is missing becomes orphans, the buffered keys
\* are replayed, and only then is this key handled.
ChainTimesOut(e) ==
  /\ PastOrphans(e)
  /\ deleting /\ ~IsBackspaceSym(e) /\ Expired
  /\ doc' = Completed(doc)
  /\ EndChain
  /\ orphans' = OrphansLeft + MissingAcks
  /\ orphansStale' = FALSE
  /\ pendingForward' = NoKey
  /\ pc' = "replay"
  /\ held' = e
  /\ UNCHANGED <<panel, core, daemonVars, buffered, typed, credit>>

\* Mutant: the newest key is replayed first.
BufferFirst(k) == IF k # Shift /\ Len(buffered) < BufferCap THEN <<k>> \o buffered ELSE buffered

\* bufferedKeys_ takes every key but a lone modifier, up to its cap.
Buffer(k) == IF k # Shift /\ Len(buffered) < BufferCap THEN Append(buffered, k) ELSE buffered

BufferKey(e) ==
  /\ PastOrphans(e) /\ SettleOrphans
  /\ deleting /\ ~IsBackspaceSym(e) /\ ~Expired
  /\ buffered' = Buffer(e)
  /\ UNCHANGED <<doc, panel, core, daemonVars, chainVars, pendingForward, handlerVars, typed,
                 credit>>

\* The uinput branch of keyEvent: the key is consumed only if the core wants
\* it and its deletion, if any, went out.
DispatchUinput(k) ==
  \E l \in UsableLinks(link) :
    LET r == ProcessKeyReplace(core, k)
    IN  \E o \in StartUinputReplace(r, l) :
          /\ doc' = IF r.handled /\ o.sent THEN Inserted(r) ELSE Deliver(Inserted(r), k)
          /\ panel' = <<>>
          /\ core' = CoreAfterSend(r, o)
          /\ link' = o.link
          /\ TrackChain(r, o)

\* The preedit branch, and applyResult().
DispatchPreedit(k) ==
  /\ "throttled" \in AvailableOutcomes(link)
  /\ LET r == ProcessKey(core, k)
     IN  /\ doc' = IF r.handled THEN doc \o r.commit ELSE Deliver(doc \o r.commit, k)
         /\ panel' = r.core.preedit
         /\ core' = r.core
  /\ link' = "throttled"
  /\ UNCHANGED <<chainVars, owed>>

Dispatch(e) ==
  /\ credit' = IF IsBackspaceSym(e) THEN credit - 1 ELSE credit
  /\ DispatchUinput(Sym(e)) \/ DispatchPreedit(Sym(e))

\* No chain is open: the key goes to the core.
HandleKey(e) ==
  /\ PastOrphans(e) /\ SettleOrphans
  /\ ~deleting
  /\ Dispatch(e)
  /\ UNCHANGED <<lost, buffered, pendingForward, handlerVars, typed>>

KeyEvent ==
  \E e \in Event :
    \/ SwallowOrphan(e)
    \/ AckPasses(e)
    \/ AckCompletes(e)
    \/ ChainTimesOut(e)
    \/ BufferKey(e)
    \/ HandleKey(e)

-----------------------------------------------------------------------------
(***************************************************************************)
(* replayBufferedKeys().                                                   *)
(***************************************************************************)
\* Mutant: a function key is forwarded at once (#118).
NeverWaits(r, o) == TRUE

\* A key to be forwarded waits only for a chain that it has opened itself.
ForwardsNow(r, o) == ~Opens(r, o)

\* One turn of the loop.  A text key the core does not consume, or whose
\* deletion failed, is committed literally; another key is forwarded, after
\* the chain it has opened if it has opened one.
ReplayTurn ==
  /\ pc = "replay"
  /\ buffered # <<>> /\ ~deleting
  /\ LET k == Head(buffered)
         r == ProcessKeyReplace(core, k)
     IN  \E o \in StartUinputReplace(r, link) :
           LET literal == IsText(k) /\ ~(r.handled /\ o.sent)
               forward == ~IsText(k) /\ ~(r.handled /\ o.sent)
           IN  /\ doc' = IF literal \/ (forward /\ ForwardsNow(r, o))
                         THEN Deliver(Inserted(r), k) ELSE Inserted(r)
               /\ pendingForward' = IF forward /\ ~ForwardsNow(r, o) THEN k ELSE pendingForward
               /\ core' = CoreAfterSend(r, o)
               /\ link' = o.link
               /\ TrackChain(r, o)
               /\ pc' = IF o.sent THEN "replay" ELSE "flush"
  /\ buffered' = Tail(buffered)
  /\ panel' = <<>>
  /\ UNCHANGED <<lost, wire, orphanVars, held, typed, credit>>

\* The daemon failed: every remaining key goes out as it is.
FlushTurn ==
  /\ pc = "flush"
  /\ buffered # <<>>
  /\ doc' = Deliver(doc, Head(buffered))
  /\ buffered' = Tail(buffered)
  /\ UNCHANGED <<panel, core, daemonVars, wire, chainVars, pendingForward, orphanVars,
                 handlerVars, typed, credit>>

FlushEnds ==
  /\ pc = "flush"
  /\ buffered = <<>>
  /\ core' = FreshCore
  /\ pc' = "replay"
  /\ UNCHANGED <<doc, panel, daemonVars, wire, chainVars, buffered, pendingForward, orphanVars,
                 held, typed, credit>>

\* The loop is over; keyEvent goes on with the key that found the timeout,
\* which waits for the chain the replay may have opened.
ReplayEnds ==
  /\ pc = "replay"
  /\ buffered = <<>> \/ deleting
  /\ pc' = "idle"
  /\ held' = NoKey
  /\ IF held # NoKey /\ ~deleting
     THEN Dispatch(held) /\ UNCHANGED buffered
     ELSE /\ buffered' = IF held = NoKey THEN buffered ELSE Buffer(held)
          /\ UNCHANGED <<doc, panel, core, link, owed, chainVars, credit>>
  /\ UNCHANGED <<lost, wire, pendingForward, orphanVars, typed>>

Replay == ReplayTurn \/ FlushTurn \/ FlushEnds \/ ReplayEnds

-----------------------------------------------------------------------------
(***************************************************************************)
(* reset() and deactivate().                                               *)
(***************************************************************************)
\* Mutant: the buffered keys survive a reset.
ClearsChainOnly ==
  /\ EndChain
  /\ pendingForward' = NoKey
  /\ orphans' = 0
  /\ orphansStale' = FALSE
  /\ UNCHANGED buffered

ClearUinputAckState ==
  /\ EndChain
  /\ buffered' = <<>>
  /\ pendingForward' = NoKey
  /\ orphans' = 0
  /\ orphansStale' = FALSE

Reset ==
  /\ "reset" \in Faults
  /\ pc = "idle"
  /\ ClearUinputAckState
  /\ core' = FreshCore
  /\ panel' = <<>>
  /\ UNCHANGED <<doc, daemonVars, wire, handlerVars, typed, credit>>

\* Who keeps the preedit: the addon commits it unless fcitx5 itself does, as
\* it does when an application with a client preedit loses focus.
Deactivate(imSwitch) ==
  /\ "deactivate" \in Faults
  /\ pc = "idle"
  /\ LET mustCommit == imSwitch \/ ~ClientPreedit
     IN  \/ /\ link' \in UsableLinks(link)
            /\ doc' = IF mustCommit THEN doc ELSE doc \o panel
         \/ /\ link' = "throttled" /\ "throttled" \in AvailableOutcomes(link)
            /\ doc' = doc \o (IF mustCommit THEN core.preedit ELSE panel)
  /\ core' = FreshCore
  /\ ClearUinputAckState
  /\ panel' = <<>>
  /\ UNCHANGED <<owed, lost, wire, handlerVars, typed, credit>>

-----------------------------------------------------------------------------
(***************************************************************************)
(* The user, the daemon and the clock.                                     *)
(***************************************************************************)
\* The daemon's Backspaces in an input stream, and all that are still to arrive.
InjectedIn(w) == {i \in DOMAIN w : w[i] = Injected}

InFlight == owed + Cardinality(InjectedIn(wire))

Quiet == wire = <<>> /\ owed = 0 /\ ~deleting /\ orphans = 0 /\ pc = "idle"

Type(k) ==
  /\ typed < MaxKeys
  /\ k = Backspace /\ QuietBackspace => Quiet
  /\ typed' = typed + 1
  /\ wire' = Append(wire, k)
  /\ credit' = IF k = Backspace THEN credit + 1 ELSE credit
  /\ UNCHANGED <<doc, panel, core, daemonVars, chainVars, buffered, pendingForward, orphanVars,
                 handlerVars>>

Inject ==
  /\ owed > 0
  /\ owed' = owed - 1
  /\ wire' = Append(wire, Injected)
  /\ UNCHANGED <<doc, panel, core, link, lost, chainVars, buffered, pendingForward, orphanVars,
                 handlerVars, typed, credit>>

\* The daemon ignores the result of its write to /dev/uinput.
LoseBackspace ==
  /\ "loss" \in Faults
  /\ owed > 0 /\ lost < MaxLost
  /\ owed' = owed - 1
  /\ lost' = lost + 1
  /\ UNCHANGED <<doc, panel, core, link, wire, chainVars, buffered, pendingForward, orphanVars,
                 handlerVars, typed, credit>>

\* The daemon stops; what it had not yet injected is gone.
DaemonStops ==
  /\ "restart" \in Faults
  /\ link = "up" /\ lost + owed <= MaxLost
  /\ link' = "broken"
  /\ owed' = 0
  /\ lost' = lost + owed
  /\ UNCHANGED <<doc, panel, core, wire, chainVars, buffered, pendingForward, orphanVars,
                 handlerVars, typed, credit>>

RetryIntervalPasses ==
  /\ link = "throttled"
  /\ link' = "closed"
  /\ UNCHANGED <<doc, panel, core, owed, lost, wire, chainVars, buffered, pendingForward,
                 orphanVars, handlerVars, typed, credit>>

ChainGrowsOld ==
  /\ "timeout" \in Faults
  /\ deleting /\ ~stale
  /\ stale' = TRUE
  /\ UNCHANGED <<doc, panel, core, daemonVars, wire, deleting, expected, current, pendingCommit,
                 buffered, pendingForward, orphanVars, handlerVars, typed, credit>>

OrphansGrowOld ==
  /\ orphans > 0 /\ ~orphansStale
  /\ TimelyDelivery => InFlight = 0
  /\ orphansStale' = TRUE
  /\ UNCHANGED <<doc, panel, core, daemonVars, wire, chainVars, buffered, pendingForward,
                 orphans, handlerVars, typed, credit>>

Environment ==
  \/ \E k \in Keys : Type(k)
  \/ Inject
  \/ LoseBackspace
  \/ DaemonStops
  \/ RetryIntervalPasses
  \/ ChainGrowsOld
  \/ OrphansGrowOld

Next ==
  \/ KeyEvent
  \/ Replay
  \/ Reset
  \/ \E imSwitch \in BOOLEAN : Deactivate(imSwitch)
  \/ Environment

Spec == Init /\ [][Next]_vars

\* fcitx5's event loop and the daemon keep running; the user and the clock owe nothing.
Fairness == WF_vars(KeyEvent) /\ WF_vars(Replay) /\ WF_vars(Inject)

FairSpec == Spec /\ Fairness

-----------------------------------------------------------------------------
(***************************************************************************)
(* What the addon promises.                                                *)
(***************************************************************************)
\* Every variable has its type; in particular no counter is ever negative.
TypeOK ==
  /\ doc \in Text /\ panel \in Text /\ core \in Core
  /\ link \in Link /\ owed \in Nat /\ wire \in Seq(Event)
  /\ deleting \in BOOLEAN /\ stale \in BOOLEAN
  /\ expected \in Nat /\ current \in Nat /\ pendingCommit \in Text
  /\ buffered \in Seq(Key) /\ pendingForward \in Key \cup {NoKey}
  /\ orphans \in Nat /\ orphansStale \in BOOLEAN
  /\ pc \in {"idle", "replay", "flush"} /\ held \in Key \cup {NoKey}
  /\ typed \in Nat /\ lost \in Nat /\ credit \in Int

\* The acknowledgement of an open chain is still to come, so keyEvent cannot
\* miss it; a closed chain leaves no count and no text behind, so nothing of
\* it can be committed later, at another place (#156).
ChainWellFormed ==
  IF deleting THEN current < expected
              ELSE expected = 0 /\ current = 0 /\ pendingCommit = <<>>

\* Keys are kept back only while there is something that will bring them out
\* (#96, #118): a function key that waits, waits for an open chain; buffered
\* keys wait for an open chain or for the replay that is running.
NothingStranded ==
  /\ pendingForward # NoKey => deleting
  /\ buffered # <<>> => deleting \/ pc # "idle"

\* The core tracks text in the document only while the daemon is reachable.
\* Otherwise the next key would compose a preedit beside a word that is
\* already there (#116).
SegmentNeedsLink == core.prev # <<>> => link \in {"up", "broken"}

\* This step hands a function key to the application.
FunctionKeyOut == Len(doc') > Len(doc) /\ doc'[Len(doc')] \in {Enter, Tab}

\* "Text first, then the function key" (#118): a function key that was
\* buffered reaches the application with no chain open, be it one the key
\* opened itself.
ForwardAfterText ==
  [][FunctionKeyOut /\ (deleting \/ pc # "idle") /\ held = NoKey => ~deleting']_vars

\* The same of every function key, those that no chain held back included.
FunctionKeyAfterText == [][FunctionKeyOut => ~deleting']_vars

\* Leaving the input method keeps what is being composed (#6): the preedit
\* ends up in the document, whoever commits it.
DeactivateKeepsText ==
  [][\A imSwitch \in BOOLEAN : Deactivate(imSwitch) => doc' = doc \o panel]_vars

\* Keys are buffered in the order they arrive and leave from the front; only
\* a reset or a change of focus throws them away (#96).
BufferIsFifo ==
  [][\/ buffered' = buffered
     \/ \E k \in Key : buffered' = Append(buffered, k)
     \/ buffered # <<>> /\ buffered' = Tail(buffered)
     \/ buffered' = <<>> /\ core' = FreshCore /\ ~deleting']_vars

\* The application and the core never see more Backspaces than the user
\* pressed: however late the daemon's come back, they are counted as
\* acknowledgements or swallowed (#125).
NoExtraBackspace == credit >= 0

\* The chain's Backspaces are all accounted for: what keyEvent still waits
\* for or means to swallow is on its way or was lost.
DebtIsCovered == expected - current + orphans <= InFlight + lost

\* An open chain is always closed, by its acknowledgements or by the safety
\* net, unless the daemon lost some of its Backspaces: no timer closes it then.
ChainEnds == deleting ~> (~deleting \/ lost > 0)

\* A key that was buffered does come out, on the same condition.
BufferDrains == buffered # <<>> ~> (buffered = <<>> \/ lost > 0)

\* The safety net: once a chain is 500 ms old, a key that reaches keyEvent
\* ends it, whatever became of the daemon.
TimeoutFreesKeyboard ==
  (deleting /\ stale /\ \E i \in DOMAIN wire : ~IsBackspaceSym(wire[i])) ~> ~deleting
==============================================================================
