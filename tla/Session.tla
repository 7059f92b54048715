------------------------------- MODULE Session -------------------------------
(***************************************************************************)
(* Configuration while people type: the addon (PinaKeyEngine) with its     *)
(* input contexts, the watcher that compares fingerprints every two        *)
(* seconds, the choices of the tray menu, which last for the session, and  *)
(* the settings windows, processes of their own that save the file         *)
(* (DurableFile) and tell fcitx5 over D-Bus.                               *)
(*                                                                         *)
(* fcitx5 has one thread: while a reload goes through the contexts no      *)
(* other handler runs, but the file may change between two of them. The    *)
(* macro file and dict.txt are one file here, changed in one step; no two  *)
(* of its versions have one fingerprint.                                   *)
(***************************************************************************)
EXTENDS DurableFile

CONSTANTS
  Contexts,     \* input contexts that may exist
  Fields,       \* what the menu can change: input method, charset
  Default,      \* default_cfg()
  Edits,        \* what the user's own editor may leave in the file
  NoValue,      \* no choice made in the menu
  MaxData       \* bound: versions of the macro file

ValuesOf(f) == {v[f] : v \in Configs}
UsesMacros(v) == v.macros   \* IB_MACRO_ENABLED

\* What may have been chosen in the menu, and a configuration under it.
Choices == {o \in [Fields -> (UNION {ValuesOf(f) : f \in Fields}) \cup {NoValue}] :
              \A f \in Fields : o[f] \in ValuesOf(f) \cup {NoValue}}
With(v, o) == [f \in DOMAIN v |-> IF f \in Fields /\ o[f] # NoValue THEN o[f] ELSE v[f]]

ASSUME SessionAssumption ==
  /\ Default \in Configs /\ Edits \subseteq Configs \cup {Bad}
  /\ "macros" \notin Fields
  /\ \A v \in Configs : /\ v = [f \in DOMAIN v |-> v[f]]
                        /\ Fields \cup {"macros"} \subseteq DOMAIN v
  /\ \A v \in Configs, o \in Choices : With(v, o) \in Configs
  /\ \A f \in Fields : NoValue \notin ValuesOf(f)
  /\ MaxData \in Nat \ {0}

VARIABLES
  live,      \* the contexts that exist
  cfg,       \* EngineCore.config of each context
  macros,    \* the version of the macro file each context has loaded
  word,      \* the configuration under which the word being typed began
  over,      \* sessionInputMethod_, sessionCharset_
  seen,      \* configFingerprint_
  data,      \* the version of the macro file on the disk
  dataSeen,  \* reloadFingerprints_
  todo,      \* the contexts that the reload under way has still to reach
  moving,    \* who has read a bad file and is about to move it away
  draft      \* SettingsController.config of each window

addonVars == <<live, cfg, macros, word, over, seen, dataSeen, todo>>
vars == <<fileVars, addonVars, data, moving, draft>>

NoWord == Missing
Closed == Missing
NoTable == 0
NoChoice == [f \in Fields |-> NoValue]

\* A new fcitx5: nobody types yet, the watcher has just looked.
Fresh ==
  /\ live' = {} /\ todo' = {}
  /\ cfg' = [c \in Contexts |-> Default] /\ macros' = [c \in Contexts |-> NoTable]
  /\ word' = [c \in Contexts |-> NoWord]
  /\ over' = NoChoice
  /\ seen' = Fingerprint(file') /\ dataSeen' = data'

Init ==
  /\ FileInit
  /\ live = {} /\ todo = {} /\ moving = {}
  /\ cfg = [c \in Contexts |-> Default] /\ macros = [c \in Contexts |-> NoTable]
  /\ word = [c \in Contexts |-> NoWord]
  /\ over = NoChoice
  /\ seen = Fingerprint(file)
  /\ data = 1 /\ dataSeen = 1
  /\ draft = [w \in Writers |-> Closed]

(***************************************************************************)
(* Reading the file.                                                       *)
(***************************************************************************)
\* load_config_from: a missing file and a bad one give the default.
Loaded(f) == IF f.data \in Configs THEN f.data ELSE Default
\* A bad one is moved away as well, in a step of its own, which fails only if
\* somebody else has moved it (the directory can be written).
MovingAfter(who) == IF file.data = Bad THEN moving \cup {who} ELSE moving

MoveCorrupt(who) ==
  /\ who \in moving /\ moving' = moving \ {who}
  /\ \/ file # NoFile /\ MoveAway
     \/ file = NoFile /\ UNCHANGED fileVars
  /\ UNCHANGED <<addonVars, data, draft>>

(***************************************************************************)
(* The addon.                                                              *)
(***************************************************************************)
AddonIdle == todo = {} /\ moving \cap Contexts = {}

\* Mutant: the menu's choice is forgotten by a new context (#111).
FileOnly(v) == v

\* applySessionOverrides
Override(v) == With(v, over)

\* build_macro_table
MacroTable(v) == IF UsesMacros(v) THEN data ELSE NoTable

\* PinaKeyState's constructor
NewContext(c) ==
  /\ AddonIdle /\ c \notin live
  /\ live' = live \cup {c}
  /\ cfg' = [cfg EXCEPT ![c] = Override(Loaded(file))]
  /\ macros' = [macros EXCEPT ![c] = MacroTable(Loaded(file))]
  /\ word' = [word EXCEPT ![c] = NoWord]
  /\ moving' = MovingAfter(c)
  /\ UNCHANGED <<fileVars, over, seen, data, dataSeen, todo, draft>>

\* ~PinaKeyState: what it held goes with it.
CloseContext(c) ==
  /\ AddonIdle /\ c \in live
  /\ live' = live \ {c}
  /\ cfg' = [cfg EXCEPT ![c] = Default] /\ macros' = [macros EXCEPT ![c] = NoTable]
  /\ word' = [word EXCEPT ![c] = NoWord]
  /\ UNCHANGED <<fileVars, over, seen, data, dataSeen, todo, moving, draft>>

\* A key begins a word, or ends it.
Type(c) ==
  /\ AddonIdle /\ c \in live
  /\ word' = [word EXCEPT ![c] = IF @ = NoWord THEN cfg[c] ELSE NoWord]
  /\ UNCHANGED <<fileVars, live, cfg, macros, over, seen, data, dataSeen, todo, moving, draft>>

\* reloadConfig up to its loop: the fingerprints first, and the file is the
\* source again.
StartReload ==
  /\ seen' = Fingerprint(file) /\ dataSeen' = data
  /\ over' = NoChoice
  /\ todo' = live
  /\ UNCHANGED <<live, cfg, macros, word>>

\* Mutant: the segment is still tracked.
Tracked(c) == word

Forgotten(c) == [word EXCEPT ![c] = NoWord]

\* pk_engine_reload_config for one context: the word being typed is dropped.
Load(c) ==
  /\ c \in todo /\ moving \cap Contexts = {}
  /\ todo' = todo \ {c}
  /\ cfg' = [cfg EXCEPT ![c] = Loaded(file)]
  /\ macros' = [macros EXCEPT ![c] = MacroTable(Loaded(file))]
  /\ word' = Forgotten(c)
  /\ moving' = MovingAfter(c)
  /\ UNCHANGED <<fileVars, live, over, data, dataSeen, draft>>

\* Mutant: the fingerprint is taken behind the load.
LoadThenLook(c) == Load(c) /\ seen' = Fingerprint(file)

LoadNext(c) == Load(c) /\ UNCHANGED seen

\* pk_engine_reload for every context: macros and dictionary, nothing else.
ReloadData ==
  /\ dataSeen' = data
  /\ macros' = [c \in Contexts |-> IF c \in live THEN MacroTable(cfg[c]) ELSE macros[c]]
  /\ UNCHANGED <<live, cfg, word, over, seen, todo>>

\* checkReload: the configuration first; it brings the rest along.
CheckReload ==
  /\ AddonIdle
  /\ \/ Fingerprint(file) # seen /\ StartReload
     \/ Fingerprint(file) = seen /\ data # dataSeen /\ ReloadData
  /\ UNCHANGED <<fileVars, data, moving, draft>>

\* applyInputMethod, applyCharset: every context, those to come included.
Choose(f, v) ==
  /\ AddonIdle
  /\ over' = [over EXCEPT ![f] = v]
  /\ cfg' = [c \in Contexts |-> IF c \in live THEN [cfg[c] EXCEPT ![f] = v] ELSE cfg[c]]
  /\ word' = [c \in Contexts |-> IF c \in live THEN NoWord ELSE word[c]]
  /\ UNCHANGED <<fileVars, live, macros, seen, data, dataSeen, todo, moving, draft>>

\* fcitx5 is started again.
Restart ==
  /\ UNCHANGED <<fileVars, data, draft>>
  /\ Fresh
  /\ moving' = moving \ Contexts

(***************************************************************************)
(* The settings windows and everybody else.                                *)
(***************************************************************************)
\* SettingsController::load
OpenWindow(w) ==
  /\ draft[w] = Closed /\ pc[w] = "idle" /\ w \notin moving
  /\ draft' = [draft EXCEPT ![w] = Loaded(file)]
  /\ moving' = MovingAfter(w)
  /\ UNCHANGED <<fileVars, addonVars, data>>

InWindow(w) == draft[w] # Closed /\ pc[w] = "idle" /\ w \notin moving

\* The setters, reset_to_default.
Change(w, v) ==
  /\ InWindow(w) /\ v # draft[w]
  /\ draft' = [draft EXCEPT ![w] = v]
  /\ UNCHANGED <<fileVars, addonVars, data, moving>>

CloseWindow(w) ==
  /\ InWindow(w)
  /\ draft' = [draft EXCEPT ![w] = Closed]
  /\ UNCHANGED <<fileVars, addonVars, data, moving>>

\* SettingsController::save
Save(w) ==
  /\ \/ InWindow(w) /\ Create(w)
     \/ WriteAll(w, draft[w]) \/ SyncAll(w) \/ Rename(w) \/ SyncDir(w) \/ GiveUp(w)
  /\ UNCHANGED <<addonVars, data, moving, draft>>

\* notify_fcitx_reload: fcitx5 reloads, or nobody hears it.
Notify(w) ==
  /\ Enter(w, "saved", "idle")
  /\ \/ AddonIdle /\ StartReload
     \/ UNCHANGED addonVars
  /\ UNCHANGED <<file, disk, tmp, writes, data, moving, draft>>

EditConfig(v) == Edit(v) /\ UNCHANGED <<addonVars, data, moving, draft>>

EditMacros ==
  /\ data < MaxData /\ data' = data + 1
  /\ UNCHANGED <<fileVars, addonVars, moving, draft>>

PowerFails ==
  /\ PowerLoss
  /\ UNCHANGED data /\ Fresh
  /\ moving' = {} /\ draft' = [w \in Writers |-> Closed]

Next ==
  \/ \E c \in Contexts : NewContext(c) \/ CloseContext(c) \/ Type(c) \/ LoadNext(c)
  \/ CheckReload
  \/ \E f \in Fields : \E v \in ValuesOf(f) : Choose(f, v)
  \/ \E who \in Contexts \cup Writers : MoveCorrupt(who)
  \/ \E w \in Writers : OpenWindow(w) \/ CloseWindow(w) \/ Save(w) \/ Notify(w)
  \/ \E w \in Writers, v \in Configs : Change(w, v)
  \/ \E v \in Edits : EditConfig(v)
  \/ EditMacros
  \/ Restart
  \/ PowerFails

\* The timer fires again and again, and a handler that has begun ends.
Fairness ==
  /\ WF_vars(CheckReload)
  /\ \A c \in Contexts : WF_vars(LoadNext(c)) /\ WF_vars(MoveCorrupt(c))

Spec == Init /\ [][Next]_vars
FairSpec == Spec /\ Fairness

-----------------------------------------------------------------------------
TypeOK ==
  /\ FileTypeOK
  /\ live \subseteq Contexts /\ todo \subseteq live /\ moving \subseteq Contexts \cup Writers
  /\ cfg \in [Contexts -> Configs]
  /\ macros \in [Contexts -> 0 .. MaxData]
  /\ word \in [Contexts -> Configs \cup {NoWord}]
  /\ over \in Choices
  /\ seen \in 0 .. MaxWrites /\ data \in 1 .. MaxData /\ dataSeen \in 1 .. MaxData
  /\ draft \in [Writers -> Configs \cup {Closed}]

\* A context runs the configuration of the file, but for the menu's choices,
\* and the macros as they are.
Current(c) == cfg[c] = Override(Loaded(file)) /\ macros[c] = MacroTable(Loaded(file))

\* While the watcher sees nothing new, there is nothing new: every context runs
\* what the files say, whatever was saved, edited, moved away or chosen while
\* contexts were being created or reloaded one after the other (#20, #69, #90).
\* Only a file that is gone may have been read: all missing files look alike.
NothingMissed ==
  AddonIdle /\ Fingerprint(file) = seen /\ data = dataSeen /\ file # NoFile
    => \A c \in live : Current(c)

\* A choice made in the menu holds in every context, one created later
\* included, until a reload makes the file the source again (#111).
MenuChoiceHolds ==
  \A c \in live \ todo, f \in Fields : over[f] # NoValue => cfg[c][f] = over[f]

\* No key is ever compared with a segment that was composed under another
\* configuration (lib.rs: what was shown is forgotten).
SegmentOfThisConfig == \A c \in live : word[c] \in {NoWord, cfg[c]}

\* Files change finitely often here, and D-Bus may always fail: in the end all
\* contexts run what is in the files (USAGE.md 243: within about two seconds).
SavedIsUsed == <>[](file # NoFile => \A c \in live : Current(c))
==============================================================================
