# PinaKey in TLA+

PinaKey is a Vietnamese input method for fcitx5: a Rust core that composes words,
a C++ addon that brings the result into the application, and a small daemon that
presses Backspace on a virtual keyboard for applications that offer no other way
to delete. This directory holds the TLA+ model of it, the TLC runs and the proofs.

## 1. The system

| Component | State | Operations | Hard because |
|---|---|---|---|
| **uinput acknowledgement protocol**, `PinaKeyState` in `fcitx5/src/pinakey.cpp` | the open deletion chain, buffered keys, a forwarded key that waits, orphan Backspaces | `keyEvent`, `handleUinputAck`, `startUinputReplace`, `replayBufferedKeys`, `reset`, `deactivate` | the daemon's presses carry no mark, arrive among the user's keys, late or never |
| **daemon client**, `fcitx5/src/uinputclient.h` | socket, time of the last attempt | `available`, `sendBackspaces` | called on the input method's only thread; fails, is throttled, comes back |
| **daemon**, `fcitx5/server/` | one socket, one client, the virtual keyboard | start-up under a lock, accept, inject, stop | signals, replaced connections, writes that fail unnoticed |
| **key interface of the core**, `crates/pinakey-ffi`, `EngineCore` | word, displayed segment, preedit | `process_key`, `process_key_replace`, `reset`, `flush_preedit` | two ways to hand out the same word, which must agree when one takes over from the other |
| **surrounding text replacement**, `PinaKeyState` | what the client last reported, the latch of #180 | the replace branch of `keyEvent`, `applyReplaceResult`, `syncSurroundingAfterOwnWrite` | the report is cached, late, shared between applications, sometimes wrong |
| **sentence and double space**, `EngineCore` | two small state machines | fed by every commit and key | must be disarmed by everything that moves the text |
| **session configuration**, `PinaKeyEngine`, `filewatch.h` | configuration, overrides, fingerprints | reload, D-Bus switches, settings window | three writers of one file and no lock |
| **configuration file**, `crates/pinakey-config` | the file and its temporary copy | durable write, load with fallback | a crash between any two system calls |
| **emoji mode**, `PinaKeyState`, `crates/pinakey-emoji` | query, candidates, page, recent list | `startEmoji`, `handleEmojiKey`, `cancelEmoji` | a mode that swallows keys must never be entered or left unseen |
| **composition**, `crates/pinakey-core` | the transformations of a word | `process_key`, `remove_last_char`, `restore_last_word` | a word is a list of transformations that later keys move, undo and restore; any key must leave a list that can still be taken back |

How they interact: fcitx5 calls the addon's handlers one at a time on one thread.
A handler calls the core through C functions and reads the result back, then
commits text, asks the client to delete, or lets the key pass. Through the socket
the addon asks the daemon for *n* + 1 Backspaces; the kernel delivers them to the
compositor and so back into `keyEvent`, behind whatever the user typed before.
The daemon tells the addon nothing else. The configuration is shared through a
file that is watched.

What makes each part correct:

* *protocol*: text replaces text as if in one step; no key is lost, reordered or
  stranded; nothing of a chain outlives it; a late Backspace is never the user's;
  the keyboard is never stuck.
* *core interface*: the edit turns what is shown into what should be shown,
  exactly; nothing is tracked that is not in the document.
* *surrounding text*: nothing is deleted that the addon did not write.
* *composition*: what is shown is what is committed; no key of a word is forgotten;
  the tone is on the vowel that carries it, after any key and any Backspace.
* *configuration*: no torn file, no lost choice, nothing changed unnoticed.
* *daemon*: one owner of the socket, stops when told, serves the connection that
  the addon relies on, and is found again when it comes late.
* *emoji, sentences, double space*: no key swallowed by a mode nobody sees; a
  window that is open only where it is meant to be.

Every hazard met while reading is in `PROJECT.json` under `hazards`, at its line,
with the properties that cover it or the reason why none does.

## 2. The modules

| Module | What it is |
|---|---|
| `KeyEngine` | the core as the addon sees it: which keys it consumes, what it commits, what stays open, and the two ways of handing it over (`ProcessKey`, `ProcessKeyReplace`, `DiffReplace`); also what an application does with a key or an edit |
| `AtomicEditor` | the abstract specification: keys take effect one at a time, in order, each edit whole |
| `UinputAck` | the protocol: addon, client, daemon and input stream |
| `UinputAckRefines` | the refinement mapping from `UinputAck` to `AtomicEditor` |
| `ReplacePath` | editing in place through surrounding text, with the preedit it falls back to: addon, the cache of reports, several kinds of application, the user |
| `ReplacePathRefines` | the refinement mapping from `ReplacePath` to `AtomicEditor` |
| `Selection` | what a filter over a sequence returns, in a form that can be reasoned about |
| `Letters`, `InputMethods`, `Spelling`, `Composition` | `pinakey-core`: the alphabet, the built-in input methods and the parser of their rules, the spelling tables, transformations and what they flatten to |
| `WordFiles` | the macro file and the dictionary: lines, keys, the `$DATE` and `$TIME` of a macro's text |
| `EmojiSearch` | the emoji index and the ranking of a query (`fuzzy.rs`) |
| `CompositionVectors`, `WordVectors` | what the repository's tests expect of `Composition`, of `WordFiles` and of `EmojiSearch`, and what the search means over small words, as assumptions that TLC evaluates |
| `EngineCore` | what `EngineCore` makes of a key: compose, show, commit at a break, macros, sentence capitals, the double space window |
| `EmojiMode` | the emoji lookup and the recent list |
| `Typing` | `PinaKeyState` in the preedit over `EngineCore` and `EmojiMode`, with an application that may report late |
| `AtomicFile` | the abstract specification of a file that is written whole |
| `DurableFile` | how the configuration file is written, by several processes, with kills and power failures; it implements `AtomicFile` |
| `Session` | the addon's contexts, the watcher, the menu, the settings windows and the editor around that file |
| `UinputDaemon` | the daemons of one user from start to end, and the addon's connection to them |
| `MCTyping`, `MCSession`, `MCUinputDaemon` | instances for TLC |
| `KeyEngine_proofs`, `UinputAck_proofs`, `UinputAckRefines_proofs`, `ReplacePath_proofs`, `Session_proofs`, `UinputDaemon_proofs`, `Composition_proofs`, `Typing_proofs` | theorems and proofs; `ReplacePath_proofs` holds those about `ReplacePathRefines` too, `Session_proofs` those about `DurableFile`, `Typing_proofs` those about `EngineCore` and `EmojiMode` |

Two modules stand for the core at two levels. `KeyEngine` is as small as a core can
be that asks for every kind of edit; the protocols around it (`UinputAck`,
`ReplacePath`) interleave it with everything else and are proved. `EngineCore` is
the core as it is, sequential and large; `Typing` runs it where nothing but the
application's reports is concurrent.

### KeyEngine

The Vietnamese tables are reduced to one vowel `a`, one tone key `s` that turns a
leading `a` into `A`, one shape of word that is not Vietnamese (an accented vowel
with something after it) and one macro. These give every kind of edit that
`process_key_event` asks for: append, rewrite of one or of several characters,
deletion by Backspace, restoration of the raw keys at a break, expansion. The
control is kept: a key that is consumed, a key that produces an action but is not
consumed (Enter and Tab), a key that is ignored. `DiffReplace` is `diff_replace`
itself, over any characters.

### UinputAck

Its variables are the fields of `PinaKeyState` (`deleting`, `expected`, `current`,
`pendingCommit`, `buffered`, `pendingForward`, `orphans`), the ages that the code
compares (`stale`: more than 500 ms, `orphansStale`: more than 1000 ms), the
`PkEngine` behind it (`core`), the client (`link`: open, open with its peer gone,
closed, throttled), the daemon (`owed`, what it still has to inject), the input
stream (`wire`), the application (`doc`, `panel`) and three histories (`typed`,
`lost`, `credit`).

`KeyEvent` takes the head of the stream and is split by the early returns of
`keyEvent`: `SwallowOrphan`, `AckPasses`, `AckCompletes`, `ChainTimesOut`,
`BufferKey`, `HandleKey`. `HandleKey` dispatches to the uinput branch or, with no
daemon to be had, to the preedit branch. `replayBufferedKeys` is a loop; it takes
one step per turn (`ReplayTurn`, `FlushTurn`, `FlushEnds`, `ReplayEnds`) and `pc`
keeps the other handlers out until it is over, which is what one thread means; the
daemon, the user and the clock go on meanwhile. `Reset` and `Deactivate` are the
handlers of the same names. The environment types, injects, loses a Backspace,
stops the daemon, and lets time pass.

The context modelled is an application without surrounding text, with the
no-underline mode on and `PINAKEY_UINPUT=1`; that fixes the pass-through, double
space and surrounding text branches of `keyEvent` as not taken. Emoji mode is left
out.

Two things are assumed of the frontend: committed text and passed-through keys
reach the application in the order the addon sent them, and a Backspace deletes
one character. The code waits 5 ms before the commit to help the first one;
`docs/BENCHMARK.md` says there is no sleep, and the model has none either.

### ReplacePath

The other way to type without underline: the application has surrounding text, so
the addon asks it to delete and commits. What it decides from is fcitx5's copy of
the application's last report (`cache`: valid, text before the cursor, whether
there is more, selection), never the text itself (`doc`, `rest`, `selected`).
`report` is a report on its way. `latch` is `surroundingUnbacked_`, `core` and
`panel` are as in `UinputAck`; `gap`, `swallowed` and `typed` are histories.

`KeyEvent` is `keyEvent` from line 255 on: `ReplaceMode` is the condition at 268
(with the latch it sets, `Latch`), `ReplaceKey` the branch with
`resetIfDocumentDiverged` (`CoreAtCursor`), `applyReplaceResult` and
`syncSurroundingAfterOwnWrite` (`Synced`), `PreeditKey` the fall to the preedit
with the reset at 276 (`CoreForPreedit`) and `applyResult`. `Reset`, `Deactivate`
and `FocusIn` are the handlers; all applications share one input context, as under
GNOME. Focus-in clears nothing, so what `CacheAfterLeaving` leaves is what the
next application starts from.

Applications are of four kinds, all met in the code's comments and tests: an
*editor* reports each change at once; a *lazy* one (fcitx5-gtk) reports the addon's
writes when it is idle; a *shy* one may also report an empty text or none; a
*terminal* reports nothing and ignores deletions. A deletion with text selected
does not delete before the cursor either (`Lands`).

Assumed of applications: what they do by themselves (a key they handle, a cursor
move, a selection) is reported, behind what is on its way, before the next key is
handled; only the addon's own writes may be reported late. No program on this side
of the wire can do without that. Where the code says that it does not guess
(`Gap`: a deletion with no insertion, a text it never saw a character of) and where
it guesses wrong (a repeated character, see section 5), `ReportFirst` says
whether the next key waits for the report. Left out: the double space rule, the
list of applications whose surrounding text is unreliable, uinput as second choice
(this context has no daemon).

### Composition and what it is built from

A composition is the list of `Transformation`s that the keys of a text caused, and
the text is what `Flatten` makes of it; `Rc` pointers become numbers (`id`,
`target`). `Letters` writes a letter as VIQR does (`a^`, `o+`, `d-`) beside its tone,
so that the tables of `utils.rs` (five columns of marks, six tones) become two
functions, and the rules that `parse_toneless_rule` makes for each tone become one.
`InputMethods` keeps the definitions and the parser, `Spelling` the tables and their
lookup.

`NewComposition` is `new_composition` with all it calls: the last syllable is cut off
(`SyllableStart`), the key's rules are tried (`FindTarget`, tones before marks), a
key typed twice undoes itself (`UndoTransformations`), the hat takes the place of two
horns (`TakeHat`), else the key is appended (`Fallback`, with the missing horn of
"uo"), and the tone moves to the vowel that should carry it (`RefreshTone`, which
changes a transformation in place, as the code does through its `RefCell`).
`RemoveLastChar` and `RestoreKeys` are the other two operations of the engine.

`EngineCore` adds the decisions of `pinakey-engine`: `ShouldFallback` and
`MustFallback` (will this become Vietnamese, is it), `ComposeKey` and `BreakKey` (the
two halves of `get_commit_text`), `ProcessPreedit` and `ProcessKeyEvent` (the two key
handlers), the sentence state and the double space window. `Typing` is
`PinaKeyState::keyEvent` in the preedit: the emoji branch first, then the double
space, then the engine, with the panel (`shown`) folded from the engine's actions as
`fold_actions` does, `reset` and `deactivate`, and an application whose text fcitx5
sees at once or late. No report arrives inside a handler: the double space is decided
from the text as it was reported before the key, also when the same key has just
committed something.

`WordFiles` reads the two files of the user's own words line by line, as `mactab.rs`
and `dict.rs` do, and expands a macro's text when it is used; `EngineCore` runs on what
the files come to, so a macro without text is none. `EmojiSearch` builds the index and
ranks it: the greedy scan that scores a name, the order by score, name and emoji, each
emoji once. `LoadRecent` is what the recent list becomes at start-up, whatever
stands in its file.

Left out: upper case in comparisons (the user types small letters; capitals come from
the sentence state and from macros), shifted marks, the French keyboard, charsets
other than Unicode, and keypad keys.

### DurableFile and Session

`DurableFile` takes `write_file_durable` call by call: create, write, sync, rename,
sync of the directory. `file` is what stands at the path, `disk` what may stand there
after a power failure: from the rename on the new name may be on the disk, and with
it a torn file, unless the data was synced. A writer may be killed at any point.
A fingerprint is a number that no two versions share, and 0 for no file, which is
what the code's modification time, inode and size come to.

`Session` puts `PinaKeyEngine` around it. `NewContext` and `CloseContext` are the
state's constructor and destructor; `CheckReload` is the timer's callback,
`StartReload` and `LoadNext` are `reloadConfig`, one step per context, since another
process may write the file between two of them; `ReloadData` is the reload of macros
and dictionary alone; `Choose` is a click in the menu, which goes to all contexts and
is remembered for those to come (`over`). A window loads the file into a draft,
changes it, saves it (`DurableFile`) and calls fcitx5 over D-Bus, where nobody may
listen. A file that is not JSON is moved away by whoever reads it, in a step of its
own. fcitx5 is restarted, and the power fails.

Assumed: the configuration directory can be written; the macro file and `dict.txt`
are one file that is changed in one step.

### UinputDaemon

Each daemon is a program counter through `main` and `bindUinputServerSocket`: open
the lock file, `flock`, unlink the socket, bind and listen, set up the keyboard and
the signals, then the loop `test`, `wait`, `accept`, `read`, `inject`. Lock files are
inodes, since `flock` holds on to one that has been removed. SIGTERM kills before
`sigaction`, runs the handler up to `sigprocmask`, and later only inside `ppoll`;
SIGKILL comes at any time. A connection has a client's end, a hello and requests; the
loop goes on with the poll result it has, also when `accept` has just replaced the
connection. `UinputClient` tries to connect (`TryConnect`), waits for the hello
(`Connected`, `HelloFails`), sends, gives a connection up (`SendFails`) and waits
`Retry` ticks.

Assumed: the hello comes within its 200 ms unless the daemon is gone, sets itself up
(it sleeps a second) or injects; fcitx5 is the only program that connects, so the
check of the peer's executable (`peerauth.h`) never refuses.

## 3. The runs

| Run | Asks | Bounds |
|---|---|---|
| `safety` | with every fault at once, is the bookkeeping right? types, closed chains leave nothing, no key stranded, no segment without a connection, debts covered, a replayed function key after its text, the buffer a queue | keys `a s R B`, 5 typed, buffer of 2, 2 lost Backspaces |
| `refine` | is every edit atomic for the user? | keys `a s _ B T` with the macro, 6 typed; the daemon may be unreachable, nothing is late |
| `late` | is a late Backspace ever taken for the user's? do chains end, buffers drain, does the 500 ms net work? | keys `a s R B`, 4 typed, one lost Backspace, timeouts, a failing connection; fairness |
| `overtake` (violated) | is a function key always behind its text? | keys `a s R`, 4 typed, no fault |
| `leave` (violated) | does leaving the input method keep the preedit? | keys `a s`, 3 typed, daemon unreachable |
| `replace` | with reports late, out of date, empty or missing: does it delete only its own text, only where a deletion lands, and show a word once? | keys `a s B V _`, 3 typed, lazy, shy and terminal applications that hold text; moves, selections, resets, focus changes, switches |
| `replace_refine` | is every edit atomic for the user, and is a late report never taken for a moved cursor? | keys `a s _ B R`, 5 typed, editor and lazy; waits for the report after the three gaps |
| `twice` (violated) | does leaving commit nothing twice? | keys `a s`, 3 typed, editor; selections and switches |
| `typing` | is what is shown what is committed, is no key forgotten, does the tone stay in place, does nothing but the word change? | ten configurations of 4 to 6 events each, with 3 to 8 keys; a page of 2 emoji, 3 recent ones at most |
| `colon` (violated) | do a colon and a space in plain text stay? | keys `a 1 _ :`, 5 events, double space on, an application that reports at once |
| `session` | are files whole, does the watcher miss nothing, does a choice in the menu hold, is what is saved used in the end? | 2 contexts, 1 window, 1 menu field of 2 values, 3 files written, 2 versions of the macro file; fairness |
| `daemon` | one owner of the socket, an end on SIGTERM, the right connection served, a late daemon found? | 2 daemons, 2 connections, backlog 1; either the lock file removed once, or 2 requests and 1 restart of fcitx5; fairness |

Why the bounds are enough. A chain needs two keys (`a`, `s`), a key that opens a
chain on replay needs one more, and a function key that restores the raw word
needs a fourth; five keys leave one to find the chain timed out, or the next chain
open while orphans return. `BufferCap` stands for the 32 of the code and is small
so that a full buffer happens. Two losses make a chain that is short of more than
its trigger. `refine` needs six keys for a word, a break and another word on top
of a chain.

`replace` needs few keys, since what goes wrong there goes wrong between keys: one
key to put a segment into the text, any number of happenings and reports, one key
to act on what they left, and one more. An application that holds text already
(`HoldsText`) makes its text end like the segment by accident, which is the case
that matters for `OwnTextOnly`. `replace_refine` needs five for a word, a break and
the word after it.

`typing` is ten small worlds rather than a large one, since what a key does depends on
the configuration: each has the keys that make its rules meet (the horn on two vowels,
a tone on a closed syllable, a letter that a key appends on its own, a full stop that
is a tone, a word only the dictionary knows, a macro, the lookup by name and by code
point) and as many events as the longest of these cases needs. `CompositionVectors`
adds the words of the repository's tests, which are longer. `session` needs two
contexts for a reload that is half done, three files written for one that is
overtaken, and both kinds of writer. `daemon` needs two instances for every race at
the lock; a third can only repeat what two do, since one of any two has the lock.

`late` assumes `TimelyDelivery`: no injected Backspace is later than the 1000 ms
after which the addon writes the debt off. Without it the property is false, as
the comment at `pinakey.cpp:153-156` says. In `refine` the user presses
Backspace only when nothing is pending (`QuietBackspace`), for the same reason: a
Backspace of the user's in mid-chain is counted as an acknowledgement. `safety`
assumes neither.

`CHECK_DEADLOCK` is off: the user stops typing after `MaxKeys` keys (`conf.budget`
events in `Typing`), files are written `MaxWrites` times, a daemon is started once;
then the system rightly comes to rest.

*Fairness.* `KeyEvent` and `Replay` are weakly fair: fcitx5's event loop hands
over input that is there, and a loop in a handler runs to its end. `Inject` is
weakly fair: the daemon's loop over `count` does not wait for anything. Nothing
else is: the user need not type, and time need not pass. Therefore a chain that
lost a Backspace need not end, `ChainEnds` and `BufferDrains` say so
(`\/ lost > 0`), and `TimeoutFreesKeyboard` says what the code does promise then.

`Session`: `CheckReload` is weakly fair, since the timer re-arms itself whatever the
callback found; so are the steps of a reload and of moving a bad file away, which
are parts of one handler. No window need save and no D-Bus call need arrive.
`UinputDaemon`: each daemon's steps and the delivery of a signal that is not blocked
are weakly fair, and so are the addon's attempts to connect, since every key makes
one. Daemons need not be started, requests need not be sent.

*What the violated runs show.* `overtake`: when Enter or Tab ends a word that
has to be restored to its raw keys, the direct path passes the key on as soon as
the request to the daemon is out, so the newline stands in the document before the
Backspaces arrive and they delete from it. The replay path keeps such a key back
(#118), the direct path does not. `leave`: `deactivate` asks whether the daemon
can be reached *now*; a word composed in the preedit while it could not is dropped
when it can again, and no one commits it. `twice`: `pk_engine_flush_preedit`
returns the preedit of the last key that was composed in a preedit, even when the
word has moved into the document since; a switch of input methods at a moment when
the preedit is again the path (a selection) commits it once more. `colon`: with the double space on,
`a`, space, `:`, space gives "a . " where the comment (`pinakey.cpp:1166-1167`) says
that a ":" and a space in plain text stay as they are. The second space ends the lookup,
which commits the ":", and goes on to the double space in the same handler; that looks
at the text as the application had reported it before the key, where "a " still ends
it, and takes one character back: the ":". The rule is to leave a text alone that does
not end in a word and a space (`pinakey.cpp:241`). `LookupLeavesText` says, in the
passing run, that nothing else a lookup ends in loses text.

## 4. The proofs

`tlapm` checks, for all values of the constants allowed by `ConfigAssumption`,
`ParameterAssumption`, `ReplaceAssumption`, `FileAssumption`, `SessionAssumption`,
`DaemonAssumption`, `ConfigsAssumption`, `EmojiAssumption` and `DictionaryAssumption`:

* `DiffReplaceIsExact`: deleting and inserting what `diff_replace` says turns
  `before \o old` into `before \o new`, for all texts. It rests on
  `CommonPrefixIsCommon`, which rests on `LeastNatural`: the place where the scan
  stops exists and is unique.
* `Invariance`: `Spec => []IInv`, one lemma per handler (`KeyEventStep`,
  `ReplayStep`, `LeavingStep`, `EnvironmentStep`) and one step per action under it.
  `IInv` is `TypeOK`, `ChainWellFormed`, `NothingStranded`, `SegmentNeedsLink` and
  `ChainHoldsLink`. The last is what makes it inductive: `SegmentNeedsLink` is kept
  by a turn of the replay only because the socket that was open when the chain
  began has not been closed since, and a replay runs only behind such a chain.
  TLC has checked `IInv` too.
* `TypeCorrect`, `ChainsLeaveNothing`, `NoKeyStranded`, `SegmentsHaveALink`: its
  parts.
* `OnlyOwnTextIsDeleted` (`ReplacePath`): the action property `OwnTextOnly`. It
  rests on `SegmentSeenOrGone`: the segment stands before the cursor, or neither the
  cache nor a report on its way says so. A key that trusts the cache therefore finds
  its segment, `DiffReplaceIsExact` gives the text after the edit, and that text ends
  with the new segment again; whatever else moves the text replaces the cache.
* `DeletionsLand`, `WordIsShownOnce`, `LatchHoldsNoSegment`, `TypeCorrect` of
  `ReplacePath`: parts of its inductive invariant `IInv`. The parts that make it
  inductive are `NobodyReports` (a terminal, or nobody in focus, has no report in
  the cache) and `SelectionTold` (no report of some text conceals a selection).
* `DebtsAreCovered`: `expected - current + orphans <= InFlight + lost`. Not part of
  `IInv`, but proved from it: each lemma counts the Backspaces in the stream before
  and after (`InjectedAppend`, `InjectedTail`), and both sides change by the same
  amount, or the left one shrinks.

* `SavesAreAtomic` (`DurableFile`): saving implements `AtomicFile`, for any writers
  and configurations. Its inductive invariant `FileInv` adds `Complete` to the types:
  a file that is about to be renamed holds all of its data, and the data is synced;
  so a rename puts nothing torn at the path or on the disk (`RenamesWhole`).
* `WatcherMissesNothing`, `MenuChoicesHold`, `SegmentsOfThisConfig`, `TypeCorrect` and
  `SessionSavesAtomically` (`Session`). `NothingMissed` is not inductive: in the middle
  of a reload contexts differ from the file. `IInv` says of them what is true
  throughout: `Stamps` (no file that is still to be renamed has a fingerprint that the
  watcher has seen or that any other file has), `CfgInStep` and `MacrosInStep`
  (while the fingerprint is the one that was noted, contexts that the reload has
  passed run the file), `NoChoiceInReload` (a reload begins by forgetting the choices,
  and no handler makes one before it ends) and `Drafted` (what is being saved is a
  configuration). At rest the contexts still to be reached are none, and
  `NothingMissed` follows.
* `PathLeadsToNewest` and `OneDaemon` (`UinputDaemon`), for any number of daemons. The
  inductive invariant adds to `NewestServes` that two daemons past `flock` hold
  different inodes (`Apart`, kept because one that opens the lock file either takes the
  inode at the path or makes a new one) and that a daemon has an inode from `flock` on
  (`HasOpened`). As long as nobody removes the lock file there is one inode, so one
  daemon.

* `BufferKeepsOrder` and `TextBeforeFunctionKey` (`UinputAck`): the action properties
  `BufferIsFifo` and `ForwardAfterText`, for every fault and every size of the buffer.
  The first is one lemma per handler over what each does to the queue; the second
  says that a turn of the replay that hands a function key on leaves no chain open
  behind it.
* `NoBackspaceIsExtra`: `NoExtraBackspace`, from `NothingForgotten`. That hypothesis is
  what the code's own comment asks for (`pinakey.cpp:153-156`): no Backspace is later than
  the window in which debts are remembered (`TimelyDelivery`), and no reset or
  deactivation falls in between, since both throw the debt away (`:122`, a hazard
  without a property). Timeouts, losses, a failing connection and the user's own
  Backspaces in mid-chain are all allowed. The inductive invariant is `Accounted`: the
  user's Backspaces in the stream have not been spent, and every Backspace still to
  arrive will be counted by the open chain, or swallowed, or is paid for by one of the
  user's that was taken for an acknowledgement. The run `late` is an instance.
* `SegmentIsFound` (`ReplacePath`): `NoFalseDivergence`, from `ReportsInTime`: no report is
  older than the last write, and the user waits for one after the three gaps (a
  deletion that inserts nothing, an empty field, a repeated character). Each of these
  is needed, as section 5 tells. Moves, selections, resets, switches and terminals are
  allowed. It rests on `CacheIsTrue`: what the cache says is what stands before the
  cursor, except while it says that something is selected and nothing is tracked.
* `Refinement` of `UinputAckRefines_proofs`: `Spec => AtomicEdits`, so that a request to
  a daemon, its Backspaces among the user's keys, the text at the end of the chain and
  the replay of what was typed meanwhile come to one edit for each key, in order.
  It assumes `Calm`: nothing times out or is lost; the daemon may be out of reach, and
  come back, at any time; keys are those that the core never half-handles
  (`WholeKeys`: `overtake` shows what Enter and Tab do otherwise); the user's Backspace
  is not pressed in mid-chain; the buffer holds what is typed. The invariant adds to
  `IInv`: `NothingLate` (what is waited for is exactly what is on its way), `KeysTyped`
  and `WordShown` (the word being composed is the end of what is bound to be seen, and a
  daemon out of reach leaves nothing tracked). The mapping counts places in the
  stream, so lemmas say what an event at either end adds or takes (`UserKeysAtRank`).
* `Refinement` of `ReplacePath_proofs`: the same for editing in place, in editors
  and lazy applications, under its own `Calm`: `ReportsInTime`, an application that
  starts empty and stays in focus, no Ctrl+V and no lone modifier (which leave the word
  behind in the core). The invariant adds `CacheIsTrue`, `PlainClient` and `WordShown` to
  `IInv`. Both refinements rest on the lemmas of `KeyEngine_proofs` (`EditIsAtomic`,
  `ReplaceIsAtomic`, `PreeditIsAtomic`): either way of handing out a word shows what the
  atomic editor shows, and the word stays at its end.
* `HelloKept` (`UinputDaemon`): `HelloIsKept`, for any number of daemons, connections,
  signals and restarts. The invariant is `Linked`: the two ends of each connection agree
  (`EndsAgree`), a daemon that does not listen has none (`OnlyListenersHave`), the addon
  has one open at most (`OneOpen`), and the one that got the hello is the one served
  (`GreetedIsServed`).

*Composing and typing.* These are theorems about the composition as it is, for every
input method that is `MethodOK`, every configuration, text, dictionary, macro table and
sequence of events; that the built-in methods are `MethodOK` TLC evaluates
(`BuiltInMethods`). What folds over a word compute is proved for words of any length by
induction over the places of a sequence: `LeastNumber` (every set of numbers that is not
empty has a least one) gives `Induction` and `Recursion`, and `FoldKeeps` says what a fold
preserves. `Filtered`, `Ranked` and `ExpandPlaceholders` are written as recursive functions
or by counting: `SelectSeq` and `SortSeq` have no definition that the prover can unfold.

* `KeyIsAdded`, `LetterIsTaken`, `AnyWordIsSound` (`Composition_proofs`): from nothing on,
  keys and Backspaces in any order leave a word that is `Sound`: every mark and tone is on
  a letter that is still there, no two transformations have one number, every key can be
  composed. A key takes no letter away and is remembered behind the others; a Backspace
  takes one letter and all that was on it. One lemma says of each helper of the engine
  that its result is a `Batch` (marks on letters of the composition, fresh numbers, the
  one key): `UndoBatch`, `FallbackBatch`, `TakeHatBatch`, `RepeatBatch`, `ExtendedBatch`.
  `RefreshedIs` says that a tone that moves keeps its number and stays on a letter.
* `FreshIdIsFresh`, `HornsHaveVowels`, `ValidHasToneTarget`: no transformation is taken for
  another; the letter the code takes from the vowel part by its index is there; the tone of
  a possible syllable has a vowel to go to. The last is a walk through the tables of
  `spelling.rs`: an empty vowel part is in none of them, and a single letter among them is
  a vowel.
* `Invariant` (`Typing_proofs`): `IInv` says that the composition is `WordOK` (the above,
  with what macros and appended letters allow), that the panel shows what is composed or,
  with restoring on, its raw keys (`Display`), and that an open lookup is over nothing
  (`LookupOK`). One lemma for each action of `Next`. `TypeCorrect`, `PanelIsCurrent` and
  `LookupAlone` are its parts.
* `KeysAreKept`, `CommitIsShown`, `MarksAreOfWords`, `LookupIsLeft`: action properties from
  `IInv`. They rest on what the two handlers do to a word that is shown
  (`WordCommitted`: behind a break stands `KeptWord`, then the key) and on `WordGrows`.
* `SpaceKeeps`: `SpaceKeepsText`. The invariant that it needs (`SpaceInv`) relates the open
  window to the text: an application that reports at once has reported the text as it is
  or nothing; behind one that reports late, the window is open only where the report is
  not late or the text ends in the space whose commit opened the window.
* `CapitalIsEarned`: `CapitalStartsSentence`. Its invariant `CapitalInv` says that the
  sentence state is told of the text: `Stands` means that a state that is not "idle" has
  the end of a sentence before the cursor, and "ready" a blank behind it too.
* `PickShown`: `PickIsShown`. Its invariant `PickInv` says that the candidates are a
  sequence (an answer of `FuzzyQuery` or the recent list), so that the page is a part of
  it; that the query of an open lookup was typed on the keyboard, so that what is committed
  of it is never taken for an emoji; and that the recent list has none twice, if it had
  none at the start.
* `BackspacePlacesTone`, `KeyPlacesTone` (`Composition_proofs`): the tone of the word
  after a Backspace, and of the syllable being typed after any key, is on the vowel that
  `find_tone_target` names (`TonePlaced`). Both rest on `RefreshPlaces`: a tone that has
  been moved is not moved by a second look, because a change of tone alters no letter that
  the cut into syllables reads (`SameVowel`), and only the last tone is looked at.
  `BackspaceLeavesToneInPlace` says so of every Backspace in a behaviour of `Typing`
  without macros: `LastToneInPlace` holds after it, whether or not it held before. As the
  property, they are about free tone marking (`im.free`): the code refreshes tones only then.
* `BackspaceTakesLetter` and, of `Typing`, `BackspaceTakesOneLetter`: seen without tones, a
  word after a Backspace is what it was but for its last letter. The letter that is seen
  is what the marks on it make of it, in their order, and no tone (`LetterOfMarks`, by
  induction over the effects on one letter); the marks of the other letters are all still
  there (`WithoutText`), and a tone that moves is no mark (`RefreshKeepsText`).

*Only model-checked*: of `LastToneInPlace`, the step in which a key is typed, and of
`BackspaceTakesLastLetter`, words that macros or restored raw keys are part of. After a key
the theorem speaks of the syllable from `SyllableStart` on, the property of the whole word:
where a word has fallen back to English, or is cut in two, the proof would have to compare
two scans of the tables of spelling. That what is shown gets shorter where the panel goes
from letters to raw keys is a fact about which prefixes of a syllable the tables admit.
Liveness (`ChainEnds`, `BufferDrains`, `TimeoutFreesKeyboard`,
`SavedIsUsed`, `TermExits`, `PickedUp`) and anything with `ENABLED` the prover does not do.
Every other property of a passing run is stated by a theorem.

## 5. What was seen and is not a run

A run that is violated says one thing that a document and the code disagree on. These
were met while modelling and are in the modules as the code has them:

* A tone that `z` has removed comes back when the next letter is typed (Telex `osaz`
  then `n`): `refresh_last_tone_target` takes the last tone that has a target, and the
  removed one still has. `USAGE.md:81` says of `z` that it removes the tone.
* With a key that appends a letter of its own (Telex 2, `w_shortcut`), the panel may
  show the old text and the key where the word has fallen back to English (`didw`
  shows "điw"); the comparison in `get_commit_text` is with the key's last character.
  `ShownIsComposed` is stated for the other methods, and nothing else is: what is shown
  there is the text or its raw keys, and a break commits one of the two.
* With an application that reports late, the run `colon` happens to emoji too: a space
  after a picked emoji deletes it, when the report still shows the word and the space
  that came before. `MCTyping` keeps lookups and late reports in separate
  configurations; elsewhere `SpaceKeepsText` holds, late or not, since it is the space
  just committed that is taken back.
* A repeated character makes a late report look as if it had arrived.
  `syncSurroundingAfterOwnWrite` takes a text that ends with the inserted characters
  for one that has been reported already; with a doubled letter it ends so by accident,
  and the next key takes the cursor for moved and splits the word. The comment says that
  the test is the one that `resetIfDocumentDiverged` will make; it compares another
  string. Hence the gap `repeat`, which `NoFalseDivergence` and its theorem exclude.
* A macro whose key contains a space: once such a key is begun (engine.rs 577-589), the
  preedit shows only what follows the space, and while that is nothing, a ":" opens a
  lookup over the hidden word. `ShownIsComposed` and `LookupIsAlone` are stated for macro
  tables that have no space in their keys (`OneWordMacros`).
* "Capitals stand behind the end of a sentence" is not true of every composed word, only of
  the moment at which one begins. A mouse click or Ctrl+V moves the cursor into another
  place; Backspace brings the cursor to the end of a capitalised word that had been
  committed; the text that a lookup commits (":x" and Escape) leaves the state at "ready"
  (`Unmoved`). Hence `CapitalStartsSentence` is about the step that composes a capital.
* An emoji that is picked while the double space window is open and the application reports
  late is deleted by the next space, and so is the newline behind a macro whose text ends in
  a space. `SpaceKeepsText` says when this cannot be (`Settled`).
* The list of recent emoji is read as it stands in its file: `load` drops nothing that is
  there twice, so `PickIsShown` promises a list without doubles only if the file has none.
* Words are looked up in small letters: `OnlyWordsKeepMarks` allows a word whose small form
  is in the dictionary. `BackspaceTakesLastLetter` is about words: a macro key with a
  separator in it is several.
* A reader that finds a bad configuration renames the path, which by then may hold a
  good file: it becomes the `.corrupt` one (`MoveCorrupt`). Two windows overwrite each
  other's saves. A choice in the menu that falls between a save and the next tick of
  the watcher is dropped by the reload, as `MenuChoiceHolds` words it.
* `connect` has no timeout: with a daemon that is stopped (SIGSTOP) and a backlog that
  is full, fcitx5 waits. `TryConnect` is not enabled there.

## 6. Not modelled, and why

* Key releases; the waits inside `sendBackspaces` (they only delay); the log of failed
  windows; the pass-through branch (`shouldPassThrough`: the key goes to
  the application untouched).
* The list of applications with unreliable surrounding text and the transport rules
  (`transport.rs`): lookups in tables, without state, which choose one of the paths
  that are modelled one by one.
* Charsets (`charset_def.rs`, tables generated from another program's) and packaging:
  no state; the output here is Unicode.
* The prefix tree of emoji names (`trie.rs`, `emoji.rs`): the addon asks `fuzzy.rs` only.
* The settings window's widgets (GTK), `peerauth.h` (one syscall and a comparison of
  paths), and a rename of a bad file that fails for lack of rights.
* The composition with surrounding text or the daemon: `UinputAck` and `ReplacePath`
  run over `KeyEngine`, `Typing` over the real core in the preedit only. The product
  of both is out of reach of TLC at a size where words still make sense.
* Components are called *partly* modelled in `PROJECT.json` wherever one of these
  cuts touches them.

## 7. The plan

Done: the core protocols (`UinputAck`, `ReplacePath`) with their refinements and
proofs; the composition and everything typed in the preedit; the emoji lookup; the
session's configuration down to the file; the daemon from start to end; a theorem for
every safety property but two, both refinements included; of those two, what a
Backspace does to a word.

Left:

1. **`LastToneInPlace` after a key**: lemmas on how the cut of a word into syllables
   changes when a letter is added at its end; then **`BackspaceTakesLastLetter`** with
   macros and restored keys.
2. **The double space rule in `ReplacePath`**, with reports that come late.
3. **Charsets** other than Unicode, of which the core converts what is committed.

## 8. Running it

    tlc -workers 2 -config UinputAck_safety.cfg UinputAck.tla
    tlc -workers 2 -config UinputAck_refine.cfg UinputAckRefines.tla
    tlc -workers 2 -config UinputAck_late.cfg   UinputAck.tla
    tlc -workers 2 -config ReplacePath_safety.cfg ReplacePath.tla
    tlc -workers 2 -config ReplacePath_refine.cfg ReplacePathRefines.tla
    tlc -workers 2 -config MCTyping.cfg         MCTyping.tla
    tlc -workers 2 -config MCTyping_colon.cfg   MCTyping.tla     (violated)
    tlc -workers 2 -config MCSession.cfg        MCSession.tla
    tlc -workers 2 -config MCUinputDaemon.cfg   MCUinputDaemon.tla
    tlapm KeyEngine_proofs.tla
    tlapm UinputAck_proofs.tla
    tlapm UinputAckRefines_proofs.tla
    tlapm ReplacePath_proofs.tla
    tlapm Session_proofs.tla
    tlapm UinputDaemon_proofs.tla
    tlapm Composition_proofs.tla     (eight minutes)
    tlapm Typing_proofs.tla          (ten minutes)

Mutated definitions (`\* Mutant:` in the modules) are not used by any
specification; each shows that a property fails when the code is changed in a way
that is plausible.
