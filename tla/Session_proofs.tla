---------------------------- MODULE Session_proofs ----------------------------
(***************************************************************************)
(* What Session promises for any contexts, writers, configurations and     *)
(* choices. The watcher misses nothing because a fingerprint that it has   *)
(* seen is never given to another file (Stamps), because a context that    *)
(* the reload has passed has read the file behind the fingerprint          *)
(* (CfgInStep), and because there are no choices of the menu while a       *)
(* reload is under way (NoChoiceInReload).                                 *)
(***************************************************************************)
EXTENDS Session, TLAPS

-----------------------------------------------------------------------------
(***************************************************************************)
(* Saving (DurableFile) implements AtomicFile for any number of writers and *)
(* any configurations. What makes it so is Complete: a temporary file is   *)
(* renamed only when all of it has been written and synced.                *)
(***************************************************************************)

Complete ==
  \A w \in Writers :
    /\ pc[w] \in {"created", "written", "synced"} => tmp[w].stamp \in 1 .. MaxWrites
    /\ pc[w] \in {"written", "synced"} => tmp[w].data \in Configs
    /\ pc[w] = "synced" => tmp[w].synced

FileInv == FileTypeOK /\ Complete

LEMMA NoFileIsFile == NoFile \in Files
BY DEF NoFile, Files

LEMMA WholeIsFile ==
  ASSUME NEW v \in Configs \cup {Bad}, NEW s \in 1 .. MaxWrites
  PROVE [data |-> v, stamp |-> s] \in Files
BY DEF Files

\* What a rename puts at the path, and may put on the disk, is a whole file.
LEMMA RenamesWhole ==
  ASSUME FileInv, NEW w \in Writers, pc[w] = "synced"
  PROVE Named(tmp[w]) \in Files /\ OnDisk(tmp[w]) = {Named(tmp[w])}
<1>1. tmp[w].data \in Configs /\ tmp[w].stamp \in 1 .. MaxWrites /\ tmp[w].synced
  BY DEF FileInv, Complete
<1>2. Named(tmp[w]) \in Files
  BY <1>1, WholeIsFile DEF Named
<1> QED BY <1>1, <1>2 DEF OnDisk

LEMMA FileInitInv == ASSUME FileInit PROVE FileInv
<1>1. file \in Files
  BY FileAssumption DEF FileInit, Files, NoFile
<1>2. NoTmp \in [data : Configs \cup {Torn, Missing}, stamp : 0 .. MaxWrites, synced : BOOLEAN]
  BY FileAssumption DEF NoTmp
<1>3. FileTypeOK
  BY <1>1, <1>2, FileAssumption DEF FileInit, FileTypeOK
<1>4. Complete BY DEF FileInit, Complete
<1> QED BY <1>3, <1>4 DEF FileInv

\* Every step keeps FileInv.
LEMMA FileStepInv ==
  ASSUME FileInv, [FileNext]_fileVars
  PROVE FileInv'
<1> USE DEF FileInv, FileTypeOK, Complete
<1>1. ASSUME NEW w \in Writers, Create(w) PROVE FileInv'
  <2>1. writes' \in 1 .. MaxWrites /\ writes + 1 \in 1 .. MaxWrites
    BY <1>1, FileAssumption DEF Create
  <2> QED BY <1>1, <2>1 DEF Create, Enter
<1>2. ASSUME NEW w \in Writers, NEW v \in Configs, WriteAll(w, v) PROVE FileInv'
  BY <1>2 DEF WriteAll, Enter
<1>3. ASSUME NEW w \in Writers, SyncAll(w) PROVE FileInv'
  BY <1>3 DEF SyncAll, Enter
<1>4. ASSUME NEW w \in Writers, Rename(w) PROVE FileInv'
  <2>1. Named(tmp[w]) \in Files /\ OnDisk(tmp[w]) = {Named(tmp[w])}
    BY <1>4, RenamesWhole DEF Rename, Enter
  <2>2. NoTmp \in [data : Configs \cup {Torn, Missing}, stamp : 0 .. MaxWrites, synced : BOOLEAN]
    BY FileAssumption DEF NoTmp
  <2>3. FileTypeOK' BY <1>4, <2>1, <2>2 DEF Rename, Enter
  <2>4. Complete' BY <1>4 DEF Rename, Enter
  <2> QED BY <2>3, <2>4
<1>5. ASSUME NEW w \in Writers, SyncDir(w) PROVE FileInv'
  BY <1>5 DEF SyncDir, Enter
<1>6. ASSUME NEW w \in Writers, GiveUp(w) PROVE FileInv'
  <2>1. NoTmp \in [data : Configs \cup {Torn, Missing}, stamp : 0 .. MaxWrites, synced : BOOLEAN]
    BY FileAssumption DEF NoTmp
  <2> QED BY <1>6, <2>1 DEF GiveUp
<1>7. ASSUME NEW w \in Writers, Finish(w) PROVE FileInv'
  BY <1>7 DEF Finish, Enter
<1>8. ASSUME NEW v \in Configs \cup {Bad}, Edit(v) PROVE FileInv'
  <2>1. writes' \in 1 .. MaxWrites /\ writes + 1 \in 1 .. MaxWrites
    BY <1>8, FileAssumption DEF Edit
  <2>2. file' \in Files BY <1>8, <2>1, WholeIsFile DEF Edit
  <2> QED BY <1>8, <2>1, <2>2 DEF Edit
<1>9. CASE MoveAway
  BY <1>9, NoFileIsFile DEF MoveAway
<1>10. CASE PowerLoss
  <2>1. NoTmp \in [data : Configs \cup {Torn, Missing}, stamp : 0 .. MaxWrites, synced : BOOLEAN]
    BY FileAssumption DEF NoTmp
  <2> QED BY <1>10, <2>1 DEF PowerLoss
<1>11. CASE UNCHANGED fileVars
  BY <1>11 DEF fileVars
<1> QED BY <1>1, <1>2, <1>3, <1>4, <1>5, <1>6, <1>7, <1>8, <1>9, <1>10, <1>11 DEF FileNext

\* The file is always whole, and a temporary one is complete before its rename.
THEOREM FileInvariance == FileSpec => []FileInv
<1>1. FileInit => FileInv BY FileInitInv
<1>2. FileInv /\ [FileNext]_fileVars => FileInv' BY FileStepInv
<1> QED BY <1>1, <1>2, PTL DEF FileSpec

\* A step of saving is a step of AtomicFile, or none that readers could see.
LEMMA StepIsAtomic ==
  ASSUME FileInv, [FileNext]_fileVars
  PROVE [Register!Next]_<<file, disk>>
<1>1. ASSUME NEW w \in Writers, Rename(w) PROVE Register!Next
  <2>1. Named(tmp[w]) \in Files /\ OnDisk(tmp[w]) = {Named(tmp[w])}
    BY <1>1, RenamesWhole DEF Rename, Enter
  <2>2. Register!Put(Named(tmp[w]))
    BY <1>1, <2>1 DEF Rename, Register!Put
  <2> QED BY <2>1, <2>2 DEF Register!Next
<1>2. ASSUME NEW w \in Writers, SyncDir(w) PROVE [Register!Next]_<<file, disk>>
  BY <1>2 DEF SyncDir, Register!Next, Register!Flush
<1>3. ASSUME NEW v \in Configs \cup {Bad}, Edit(v) PROVE Register!Next
  <2>1. writes + 1 \in 1 .. MaxWrites
    BY <1>3, FileAssumption DEF Edit, FileInv, FileTypeOK
  <2>2. file' \in Files BY <1>3, <2>1, WholeIsFile DEF Edit
  <2>3. Register!Put(file') BY <1>3 DEF Edit, Register!Put
  <2> QED BY <2>2, <2>3 DEF Register!Next
<1>4. CASE MoveAway
  <2>1. Register!Put(NoFile) BY <1>4 DEF MoveAway, Register!Put
  <2> QED BY <2>1, NoFileIsFile DEF Register!Next
<1>5. CASE PowerLoss
  BY <1>5 DEF PowerLoss, Register!Next, Register!PowerFails
<1>6. ASSUME NEW w \in Writers, Create(w) \/ SyncAll(w) \/ GiveUp(w) \/ Finish(w)
      PROVE UNCHANGED <<file, disk>>
  BY <1>6 DEF Create, SyncAll, GiveUp, Finish
<1>7. ASSUME NEW w \in Writers, NEW v \in Configs, WriteAll(w, v)
      PROVE UNCHANGED <<file, disk>>
  BY <1>7 DEF WriteAll
<1>8. CASE UNCHANGED fileVars
  BY <1>8 DEF fileVars
<1> QED BY <1>1, <1>2, <1>3, <1>4, <1>5, <1>6, <1>7, <1>8 DEF FileNext

\* Saving is atomic for readers and across power failures, for any number of
\* processes that write, are killed or fail half-way.
THEOREM SavesAreAtomic == FileSpec => SavesAtomically
<1>1. FileInit => Register!Init
  <2>1. FileInit => file \in Files
    BY FileInitInv DEF FileInv, FileTypeOK
  <2> QED BY <2>1 DEF FileInit, Register!Init
<1>2. FileInv /\ [FileNext]_fileVars => [Register!Next]_<<file, disk>>
  BY StepIsAtomic
<1> QED BY <1>1, <1>2, FileInvariance, PTL DEF FileSpec, SavesAtomically, Register!Spec

-----------------------------------------------------------------------------
(***************************************************************************)
(* The session.                                                            *)
(***************************************************************************)

Active(w) == pc[w] \in {"created", "written", "synced"}

Stamps ==
  /\ file.stamp <= writes /\ seen <= writes
  /\ \A f \in disk : f.stamp <= writes
  /\ \A w \in Writers : Active(w) =>
       /\ tmp[w].stamp <= writes /\ tmp[w].stamp # file.stamp /\ tmp[w].stamp # seen
       /\ \A x \in Writers : Active(x) /\ tmp[x].stamp = tmp[w].stamp => x = w

Drafted == \A w \in Writers : pc[w] # "idle" => draft[w] \in Configs

NoChoiceInReload == todo # {} => over = NoChoice

CfgInStep ==
  file.stamp = seen /\ file # NoFile => \A c \in live \ todo : cfg[c] = With(Loaded(file), over)

MacrosInStep ==
  /\ dataSeen <= data
  /\ data = dataSeen => \A c \in live \ todo : macros[c] = MacroTable(cfg[c])

AddonTypes ==
  /\ live \subseteq Contexts /\ todo \subseteq live /\ moving \subseteq Contexts \cup Writers
  /\ cfg \in [Contexts -> Configs]
  /\ macros \in [Contexts -> 0 .. MaxData]
  /\ word \in [Contexts -> Configs \cup {NoWord}]
  /\ over \in Choices
  /\ seen \in 0 .. MaxWrites /\ data \in 1 .. MaxData /\ dataSeen \in 1 .. MaxData
  /\ draft \in [Writers -> Configs \cup {Closed}]

IInv ==
  /\ FileInv /\ AddonTypes /\ Drafted /\ Stamps /\ NoChoiceInReload
  /\ CfgInStep /\ MacrosInStep /\ MenuChoiceHolds /\ SegmentOfThisConfig

-----------------------------------------------------------------------------
(* Configurations and choices.                                             *)

LEMMA NoChoiceIsChoice == NoChoice \in Choices
BY DEF NoChoice, Choices

LEMMA NothingChosen == \A v \in Configs : With(v, NoChoice) = v
BY SessionAssumption DEF With, NoChoice

LEMMA KeepsMacros == \A v \in Configs, o \in Choices : With(v, o).macros = v.macros
BY SessionAssumption DEF With

LEMMA LoadedIsConfig == Loaded(file) \in Configs
BY SessionAssumption DEF Loaded

\* Choosing x for f is one more choice.
LEMMA ChoiceAdded ==
  ASSUME NEW v \in Configs, NEW o \in Choices, NEW f \in Fields, NEW x \in ValuesOf(f)
  PROVE /\ [o EXCEPT ![f] = x] \in Choices
        /\ [v EXCEPT ![f] = x] \in Configs
        /\ [v EXCEPT ![f] = x].macros = v.macros
<1>1. x # NoValue BY SessionAssumption
<1>2. [o EXCEPT ![f] = x] \in Choices BY DEF Choices
<1>4. Fields \cup {"macros"} \subseteq DOMAIN v /\ v = [g \in DOMAIN v |-> v[g]] BY SessionAssumption
<1>6. [v EXCEPT ![f] = x] = With(v, [NoChoice EXCEPT ![f] = x])
  BY <1>1, <1>4 DEF With, NoChoice
<1>7. [NoChoice EXCEPT ![f] = x] \in Choices BY DEF NoChoice, Choices
<1>8. [v EXCEPT ![f] = x] \in Configs BY <1>6, <1>7, SessionAssumption
<1>9. [v EXCEPT ![f] = x].macros = v.macros BY <1>4, SessionAssumption
<1> QED BY <1>2, <1>8, <1>9

-----------------------------------------------------------------------------
(* What a step does to the file.                                           *)

LEMMA Projects ==
  ASSUME Drafted, [Next]_vars
  PROVE [FileNext]_fileVars
<1>1. ASSUME NEW w \in Writers, Notify(w) PROVE FileNext
  <2>1. Finish(w) BY <1>1 DEF Notify, Finish
  <2> QED BY <2>1 DEF FileNext
<1>2. ASSUME NEW w \in Writers, Save(w) PROVE FileNext
  <2>1. CASE WriteAll(w, draft[w])
    <3>1. draft[w] \in Configs BY <2>1 DEF WriteAll, Enter, Drafted
    <3> QED BY <2>1, <3>1 DEF FileNext
  <2>2. CASE Create(w) \/ SyncAll(w) \/ Rename(w) \/ SyncDir(w) \/ GiveUp(w)
    BY <2>2 DEF FileNext
  <2> QED BY <1>2, <2>1, <2>2 DEF Save
<1>3. ASSUME NEW who \in Contexts \cup Writers, MoveCorrupt(who) PROVE [FileNext]_fileVars
  BY <1>3 DEF MoveCorrupt, FileNext
<1>4. ASSUME NEW v \in Edits, EditConfig(v) PROVE FileNext
  BY <1>4, SessionAssumption DEF EditConfig, FileNext
<1>5. CASE PowerFails
  BY <1>5 DEF PowerFails, FileNext
<1>6. CASE CheckReload \/ EditMacros \/ Restart
  BY <1>6 DEF CheckReload, EditMacros, Restart
<1>7. ASSUME NEW c \in Contexts, NewContext(c) \/ CloseContext(c) \/ Type(c) \/ LoadNext(c)
      PROVE UNCHANGED fileVars
  BY <1>7 DEF NewContext, CloseContext, Type, LoadNext, Load
<1>8. ASSUME NEW f \in Fields, NEW v \in ValuesOf(f), Choose(f, v) PROVE UNCHANGED fileVars
  BY <1>8 DEF Choose
<1>9. ASSUME NEW w \in Writers, OpenWindow(w) \/ CloseWindow(w) PROVE UNCHANGED fileVars
  BY <1>9 DEF OpenWindow, CloseWindow
<1>10. ASSUME NEW w \in Writers, NEW v \in Configs, Change(w, v) PROVE UNCHANGED fileVars
  BY <1>10 DEF Change
<1>11. CASE UNCHANGED vars
  BY <1>11 DEF vars
<1> QED
  BY <1>1, <1>2, <1>3, <1>4, <1>5, <1>6, <1>7, <1>8, <1>9, <1>10, <1>11 DEF Next

-----------------------------------------------------------------------------
(* The invariant is kept.                                                  *)

LEMMA InitInv == ASSUME Init PROVE IInv
<1>1. FileInv BY FileInitInv DEF Init
<1>2. AddonTypes
  <2>1. Fingerprint(file) \in 0 .. MaxWrites
    BY FileAssumption DEF Init, FileInit, Fingerprint, NoFile
  <2> QED
    BY <2>1, NoChoiceIsChoice, SessionAssumption, FileAssumption
    DEF Init, AddonTypes, NoWord, Closed, NoTable
<1>3. Stamps
  BY FileAssumption DEF Init, FileInit, Stamps, Active, Fingerprint, NoFile
<1>4. Drafted BY DEF Init, FileInit, Drafted
<1> QED
  BY <1>1, <1>2, <1>3, <1>4
  DEF Init, IInv, NoChoiceInReload, CfgInStep, MacrosInStep, MenuChoiceHolds, SegmentOfThisConfig

LEMMA TypeStep == ASSUME IInv, Next PROVE AddonTypes'
<1> USE SessionAssumption, NoChoiceIsChoice, LoadedIsConfig DEF IInv, AddonTypes
<1>0. MacroTable(Loaded(file)) \in 0 .. MaxData
  BY DEF MacroTable, NoTable
<1>1. ASSUME NEW c \in Contexts, NewContext(c) PROVE AddonTypes'
  <2>1. Override(Loaded(file)) \in Configs BY DEF Override
  <2> QED BY <1>0, <1>1, <2>1 DEF NewContext, addonVars, MovingAfter
<1>2. ASSUME NEW c \in Contexts, CloseContext(c) PROVE AddonTypes'
  BY <1>2 DEF CloseContext, NoTable, AddonIdle
<1>3. ASSUME NEW c \in Contexts, Type(c) PROVE AddonTypes'
  BY <1>3 DEF Type, NoWord
<1>4. ASSUME NEW c \in Contexts, LoadNext(c) PROVE AddonTypes'
  BY <1>0, <1>4 DEF LoadNext, Load, Forgotten, MovingAfter
<1>5. CASE CheckReload
  <2>1. Fingerprint(file) \in 0 .. MaxWrites
    BY FileAssumption DEF FileInv, FileTypeOK, Files, NoFile, Fingerprint
  <2>2. CASE StartReload
    BY <1>5, <2>1, <2>2 DEF CheckReload, StartReload
  <2>3. CASE ReloadData
    <3>1. \A c \in Contexts : MacroTable(cfg[c]) \in 0 .. MaxData
      BY DEF MacroTable, NoTable
    <3> QED BY <1>5, <2>3, <3>1 DEF CheckReload, ReloadData
  <2> QED BY <1>5, <2>2, <2>3 DEF CheckReload
<1>6. ASSUME NEW f \in Fields, NEW v \in ValuesOf(f), Choose(f, v) PROVE AddonTypes'
  <2>1. \A c \in Contexts : [cfg[c] EXCEPT ![f] = v] \in Configs
    BY ChoiceAdded
  <2>2. over' \in Choices BY <1>6, ChoiceAdded DEF Choose
  <2> QED BY <1>6, <2>1, <2>2 DEF Choose
<1>7. ASSUME NEW who \in Contexts \cup Writers, MoveCorrupt(who) PROVE AddonTypes'
  BY <1>7 DEF MoveCorrupt, addonVars
<1>8. ASSUME NEW w \in Writers, OpenWindow(w) PROVE AddonTypes'
  BY <1>8 DEF OpenWindow, addonVars, MovingAfter
<1>9. ASSUME NEW w \in Writers, CloseWindow(w) PROVE AddonTypes'
  BY <1>9 DEF CloseWindow, addonVars
<1>10. ASSUME NEW w \in Writers, Save(w) PROVE AddonTypes'
  BY <1>10 DEF Save, addonVars
<1>11. ASSUME NEW w \in Writers, Notify(w) PROVE AddonTypes'
  <2>1. Fingerprint(file) \in 0 .. MaxWrites
    BY FileAssumption DEF FileInv, FileTypeOK, Files, NoFile, Fingerprint
  <2> QED BY <1>11, <2>1 DEF Notify, StartReload, addonVars
<1>12. ASSUME NEW w \in Writers, NEW v \in Configs, Change(w, v) PROVE AddonTypes'
  BY <1>12 DEF Change, addonVars
<1>13. ASSUME NEW v \in Edits, EditConfig(v) PROVE AddonTypes'
  BY <1>13 DEF EditConfig, addonVars
<1>14. CASE EditMacros
  BY <1>14 DEF EditMacros, addonVars
<1>15. CASE Restart \/ PowerFails
  <2>1. FileInv' BY <1>15, Projects, FileStepInv
  <2>2. seen' \in 0 .. MaxWrites
    BY <1>15, <2>1, FileAssumption
    DEF Restart, PowerFails, Fresh, FileInv, FileTypeOK, Files, NoFile, Fingerprint
  <2>3. data' = data /\ over' = NoChoice /\ dataSeen' = data'
    BY <1>15 DEF Restart, PowerFails, Fresh
  <2>4. moving' \subseteq Contexts \cup Writers /\ draft' \in [Writers -> Configs \cup {Closed}]
    BY <1>15 DEF Restart, PowerFails
  <2> QED BY <1>15, <2>2, <2>3, <2>4 DEF Restart, PowerFails, Fresh, NoTable, NoWord
<1> QED
  BY <1>1, <1>2, <1>3, <1>4, <1>5, <1>6, <1>7, <1>8, <1>9, <1>10, <1>11, <1>12, <1>13, <1>14, <1>15
  DEF Next

\* What the addon has seen is as old as what stands at the path, or older.
LEMMA StampsStep == ASSUME IInv, Next PROVE Stamps'
<1> USE DEF IInv, FileInv, FileTypeOK, Complete, Stamps, Active
<1>0. writes \in Nat /\ seen \in Nat /\ MaxWrites \in Nat /\ file.stamp \in Nat /\ NoFile.stamp = 0
      /\ \A w \in Writers : tmp[w].stamp \in Nat
  BY FileAssumption DEF AddonTypes, Files, NoFile
<1>1. ASSUME seen' = seen, NEW w \in Writers, Create(w) PROVE Stamps'
  <2>1. writes' = writes + 1 /\ writes' \in Nat /\ file' = file /\ disk' = disk
        /\ tmp'[w].stamp = writes + 1 /\ \A x \in Writers \ {w} : tmp'[x] = tmp[x] /\ pc'[x] = pc[x]
    BY <1>0, <1>1 DEF Create, Enter
  <2>2. \A f \in disk : f.stamp \in Nat /\ f.stamp <= writes
    BY FileAssumption DEF Files, NoFile
  <2>3. file.stamp <= writes' /\ seen <= writes' /\ \A f \in disk : f.stamp <= writes'
    BY <1>0, <2>1, <2>2
  <2>4. \A x \in Writers \ {w} : Active(x)' => Active(x) /\ tmp'[x].stamp = tmp[x].stamp
    BY <2>1
  <2>5. \A x \in Writers \ {w} : Active(x)' => tmp'[x].stamp <= writes /\ tmp'[x].stamp # writes + 1
    BY <1>0, <2>4
  <2>6. tmp'[w].stamp # file.stamp /\ tmp'[w].stamp # seen
    BY <1>0, <2>1
  <2> QED BY <1>0, <1>1, <2>1, <2>3, <2>4, <2>5, <2>6
<1>2. ASSUME seen' = seen, NEW w \in Writers,
             (\E v \in Configs : WriteAll(w, v)) \/ SyncAll(w)
      PROVE Stamps'
  <2>1. file' = file /\ disk' = disk /\ writes' = writes
        /\ \A x \in Writers : tmp'[x].stamp = tmp[x].stamp /\ (Active(x)' => Active(x))
    BY <1>2 DEF WriteAll, SyncAll, Enter
  <2> QED BY <1>2, <2>1
<1>3. ASSUME seen' = seen, NEW w \in Writers, Rename(w) PROVE Stamps'
  <2>1. /\ file'.stamp = tmp[w].stamp /\ writes' = writes
        /\ \A x \in Writers : Active(x)' => x # w /\ Active(x) /\ tmp'[x].stamp = tmp[x].stamp
    BY <1>3 DEF Rename, Enter, Named
  <2>2. \A f \in disk' : f.stamp <= writes
    BY <1>3, RenamesWhole DEF Rename, Enter, Named
  <2>3. Active(w) BY <1>3 DEF Rename, Enter
  <2> QED BY <1>3, <2>1, <2>2, <2>3
<1>4. ASSUME seen' = seen, NEW w \in Writers, SyncDir(w) \/ Finish(w) PROVE Stamps'
  <2>1. file' = file /\ disk' \subseteq disk \cup {file} /\ writes' = writes /\ tmp' = tmp
        /\ \A x \in Writers : Active(x)' => Active(x)
    BY <1>4 DEF SyncDir, Finish, Enter
  <2> QED BY <1>4, <2>1
<1>5. ASSUME seen' = seen, NEW w \in Writers, GiveUp(w) PROVE Stamps'
  <2>1. file' = file /\ disk' = disk /\ writes' = writes
        /\ \A x \in Writers : Active(x)' => Active(x) /\ tmp'[x] = tmp[x]
    BY <1>5 DEF GiveUp
  <2> QED BY <1>5, <2>1
<1>6. ASSUME seen' = seen, NEW v \in Configs \cup {Bad}, Edit(v) PROVE Stamps'
  <2>1. file'.stamp = writes + 1 /\ writes' = writes + 1 /\ tmp' = tmp /\ pc' = pc
        /\ disk' = disk \cup {file'}
    BY <1>6 DEF Edit
  <2>2. \A f \in disk : f.stamp \in Nat /\ f.stamp <= writes
    BY FileAssumption DEF Files, NoFile
  <2>3. \A f \in disk' : f.stamp <= writes'
    BY <1>0, <2>1, <2>2
  <2>4. \A x \in Writers : Active(x) => tmp[x].stamp <= writes' /\ tmp[x].stamp # writes'
    BY <1>0, <2>1
  <2> QED BY <1>0, <1>6, <2>1, <2>3, <2>4
<1>7. ASSUME seen' = seen, MoveAway PROVE Stamps'
  <2>1. file'.stamp = 0 /\ writes' = writes /\ tmp' = tmp /\ pc' = pc
        /\ \A f \in disk' : f \in disk \/ f.stamp = 0
    BY <1>0, <1>7 DEF MoveAway
  <2>2. \A x \in Writers : Active(x) => tmp[x].stamp # 0
    OBVIOUS
  <2> QED BY <1>0, <1>7, <2>1, <2>2
<1>8. ASSUME UNCHANGED fileVars, seen' \in {seen, file.stamp} PROVE Stamps'
  <2>1. file' = file /\ disk' = disk /\ writes' = writes /\ tmp' = tmp /\ pc' = pc
    BY <1>8 DEF fileVars
  <2> QED BY <1>8, <2>1
<1>9. CASE PowerFails
  <2>1. file' \in disk /\ disk' = {file'} /\ writes' = writes
        /\ \A x \in Writers : ~Active(x)'
    BY <1>9 DEF PowerFails, PowerLoss
  <2>2. seen' = file'.stamp BY <1>9 DEF PowerFails, Fresh, Fingerprint
  <2> QED BY <2>1, <2>2
<1>10. CASE CheckReload
  BY <1>8, <1>10 DEF CheckReload, StartReload, ReloadData, Fingerprint
<1>11. CASE Restart
  <2>1. UNCHANGED fileVars /\ seen' = file'.stamp BY <1>11 DEF Restart, Fresh, Fingerprint
  <2>2. file' = file BY <2>1 DEF fileVars
  <2> QED BY <1>8, <2>1, <2>2
<1>12. ASSUME NEW w \in Writers, Notify(w) PROVE Stamps'
  <2>1. file' = file /\ disk' = disk /\ writes' = writes /\ tmp' = tmp
        /\ \A x \in Writers : Active(x)' => Active(x)
    BY <1>12 DEF Notify, Enter
  <2>2. seen' \in {seen, file.stamp}
    BY <1>12 DEF Notify, StartReload, Fingerprint, addonVars
  <2> QED BY <2>1, <2>2
<1>13. ASSUME NEW w \in Writers, Save(w) PROVE Stamps'
  <2>1. seen' = seen BY <1>13 DEF Save, addonVars
  <2>2. CASE WriteAll(w, draft[w])
    <3>1. draft[w] \in Configs BY <2>2 DEF WriteAll, Enter, Drafted
    <3> QED BY <1>2, <2>1, <2>2, <3>1
  <2> QED BY <1>1, <1>2, <1>3, <1>4, <1>5, <1>13, <2>1, <2>2 DEF Save
<1>14. ASSUME NEW who \in Contexts \cup Writers, MoveCorrupt(who) PROVE Stamps'
  BY <1>7, <1>8, <1>14 DEF MoveCorrupt, addonVars
<1>15. ASSUME NEW v \in Edits, EditConfig(v) PROVE Stamps'
  <2>1. v \in Configs \cup {Bad} BY SessionAssumption
  <2> QED BY <1>6, <1>15, <2>1 DEF EditConfig, addonVars
<1>16. CASE EditMacros
  BY <1>8, <1>16 DEF EditMacros, addonVars
<1>17. ASSUME NEW c \in Contexts, NewContext(c) \/ CloseContext(c) \/ Type(c) \/ LoadNext(c)
       PROVE Stamps'
  BY <1>8, <1>17 DEF NewContext, CloseContext, Type, LoadNext, Load
<1>18. ASSUME NEW f \in Fields, NEW v \in ValuesOf(f), Choose(f, v) PROVE Stamps'
  BY <1>8, <1>18 DEF Choose
<1>19. ASSUME NEW w \in Writers, OpenWindow(w) \/ CloseWindow(w) PROVE Stamps'
  BY <1>8, <1>19 DEF OpenWindow, CloseWindow, addonVars
<1>20. ASSUME NEW w \in Writers, NEW v \in Configs, Change(w, v) PROVE Stamps'
  BY <1>8, <1>20 DEF Change, addonVars
<1> HIDE DEF IInv, FileInv, FileTypeOK, Complete, Stamps, Active
<1> QED
  BY <1>9, <1>10, <1>11, <1>12, <1>13, <1>14, <1>15, <1>16, <1>17, <1>18, <1>19, <1>20 DEF Next

LEMMA DraftedStep == ASSUME IInv, Next PROVE Drafted'
<1> USE DEF Drafted
<1>1. ASSUME NEW w \in Writers, Save(w) PROVE Drafted'
  <2>1. draft' = draft BY <1>1 DEF Save
  <2>2. \A x \in Writers \ {w} : pc'[x] = pc[x] \/ pc'[x] = "idle"
    BY <1>1 DEF Save, Create, WriteAll, SyncAll, Rename, SyncDir, GiveUp, Enter, IInv, FileInv, FileTypeOK
  <2>3. pc'[w] # "idle" => draft[w] \in Configs
    BY <1>1 DEF Save, Create, WriteAll, SyncAll, Rename, SyncDir, GiveUp, Enter, InWindow,
                IInv, FileInv, FileTypeOK, AddonTypes
  <2> QED BY <2>1, <2>2, <2>3 DEF IInv
<1>2. ASSUME NEW w \in Writers, Notify(w) PROVE Drafted'
  BY <1>2 DEF Notify, Enter, IInv, FileInv, FileTypeOK
<1>3. ASSUME NEW w \in Writers, OpenWindow(w) \/ CloseWindow(w) PROVE Drafted'
  BY <1>3 DEF OpenWindow, CloseWindow, InWindow, IInv, AddonTypes, fileVars
<1>4. ASSUME NEW w \in Writers, NEW v \in Configs, Change(w, v) PROVE Drafted'
  BY <1>4 DEF Change, InWindow, IInv, fileVars
<1>5. CASE PowerFails
  BY <1>5 DEF PowerFails, PowerLoss
<1>6. ASSUME UNCHANGED <<pc, draft>> PROVE Drafted'
  BY <1>6 DEF IInv
<1>7. CASE CheckReload \/ EditMacros \/ Restart
  BY <1>6, <1>7 DEF CheckReload, EditMacros, Restart, fileVars
<1>8. ASSUME NEW c \in Contexts, NewContext(c) \/ CloseContext(c) \/ Type(c) \/ LoadNext(c)
      PROVE Drafted'
  BY <1>6, <1>8 DEF NewContext, CloseContext, Type, LoadNext, Load, fileVars
<1>9. ASSUME NEW f \in Fields, NEW v \in ValuesOf(f), Choose(f, v) PROVE Drafted'
  BY <1>6, <1>9 DEF Choose, fileVars
<1>10. ASSUME NEW who \in Contexts \cup Writers, MoveCorrupt(who) PROVE Drafted'
  BY <1>6, <1>10 DEF MoveCorrupt, MoveAway, fileVars
<1>11. ASSUME NEW v \in Edits, EditConfig(v) PROVE Drafted'
  BY <1>6, <1>11 DEF EditConfig, Edit
<1> QED
  BY <1>1, <1>2, <1>3, <1>4, <1>5, <1>7, <1>8, <1>9, <1>10, <1>11 DEF Next

\* The steps of windows, readers and editors, which leave the addon alone.
FileWork ==
  \/ \E w \in Writers : Save(w)
  \/ \E who \in Contexts \cup Writers : MoveCorrupt(who)
  \/ \E v \in Edits : EditConfig(v)

\* What they put at the path the watcher has not seen.
LEMMA NewOrGone ==
  ASSUME IInv, FileWork
  PROVE /\ file' = file \/ file' = NoFile \/ file'.stamp # seen
        /\ UNCHANGED <<addonVars, data>>
<1>1. UNCHANGED <<addonVars, data>>
  BY DEF FileWork, Save, MoveCorrupt, EditConfig
<1>2. ASSUME NEW w \in Writers, Save(w) PROVE file' = file \/ file'.stamp # seen
  <2>1. CASE Rename(w)
    <3>1. pc[w] = "synced" /\ file'.stamp = tmp[w].stamp
      BY <2>1 DEF Rename, Enter, Named
    <3> QED BY <3>1 DEF IInv, Stamps, Active
  <2> QED BY <1>2, <2>1 DEF Save, Create, WriteAll, SyncAll, SyncDir, GiveUp
<1>3. ASSUME NEW who \in Contexts \cup Writers, MoveCorrupt(who) PROVE file' = file \/ file' = NoFile
  BY <1>3 DEF MoveCorrupt, MoveAway, fileVars
<1>4. ASSUME NEW v \in Edits, EditConfig(v) PROVE file'.stamp # seen
  <2>1. file'.stamp = writes + 1 BY <1>4 DEF EditConfig, Edit
  <2>2. writes \in Nat /\ seen \in Nat /\ seen <= writes
    BY FileAssumption DEF IInv, FileInv, FileTypeOK, AddonTypes, Stamps
  <2> QED BY <2>1, <2>2
<1> QED BY <1>1, <1>2, <1>3, <1>4 DEF FileWork

\* The steps of the addon and of the user, sorted by what they do.
OtherWork ==
  \/ \E w \in Writers : OpenWindow(w) \/ CloseWindow(w) \/ \E v \in Configs : Change(w, v)
  \/ EditMacros

LEMMA OtherWorkRests ==
  ASSUME OtherWork
  PROVE UNCHANGED <<fileVars, addonVars>>
BY DEF OtherWork, OpenWindow, CloseWindow, Change, EditMacros

LEMMA NextCases ==
  ASSUME Next
  PROVE \/ FileWork \/ OtherWork
        \/ CheckReload \/ Restart \/ PowerFails
        \/ \E c \in Contexts : NewContext(c) \/ CloseContext(c) \/ Type(c) \/ LoadNext(c)
        \/ \E f \in Fields : \E v \in ValuesOf(f) : Choose(f, v)
        \/ \E w \in Writers : Notify(w)
BY DEF Next, FileWork, OtherWork

\* A reload begins: on the watcher's timer or when a window tells.
LEMMA NotifyCases ==
  ASSUME NEW w \in Writers, Notify(w)
  PROVE file' = file /\ data' = data /\ ((AddonIdle /\ StartReload) \/ UNCHANGED addonVars)
BY DEF Notify

LEMMA CheckCases ==
  ASSUME CheckReload
  PROVE /\ file' = file /\ data' = data /\ AddonIdle
        /\ (StartReload \/ (ReloadData /\ data # dataSeen))
BY DEF CheckReload, fileVars

LEMMA NoChoiceStep == ASSUME IInv, Next PROVE NoChoiceInReload'
<1> USE DEF NoChoiceInReload, IInv
<1>1. CASE FileWork \/ OtherWork
  BY <1>1, NewOrGone, OtherWorkRests DEF addonVars
<1>2. ASSUME StartReload PROVE NoChoiceInReload'
  BY <1>2 DEF StartReload
<1>3. CASE CheckReload
  BY <1>2, <1>3, CheckCases DEF ReloadData
<1>4. CASE Restart \/ PowerFails
  BY <1>4 DEF Restart, PowerFails, Fresh
<1>5. ASSUME NEW c \in Contexts, NewContext(c) \/ CloseContext(c) \/ Type(c) \/ LoadNext(c)
      PROVE NoChoiceInReload'
  BY <1>5 DEF NewContext, CloseContext, Type, LoadNext, Load
<1>6. ASSUME NEW f \in Fields, NEW v \in ValuesOf(f), Choose(f, v) PROVE NoChoiceInReload'
  BY <1>6 DEF Choose, AddonIdle
<1>7. ASSUME NEW w \in Writers, Notify(w) PROVE NoChoiceInReload'
  BY <1>2, <1>7, NotifyCases DEF addonVars
<1> QED BY <1>1, <1>3, <1>4, <1>5, <1>6, <1>7, NextCases

LEMMA CfgStep == ASSUME IInv, Next PROVE CfgInStep'
<1> USE DEF CfgInStep
<1>0. /\ CfgInStep /\ AddonTypes /\ NoChoiceInReload
      /\ todo \subseteq live /\ live \subseteq Contexts
      /\ cfg \in [Contexts -> Configs] /\ over \in Choices
  BY DEF IInv, AddonTypes
<1>1. CASE FileWork
  <2>1. /\ file' = file \/ file' = NoFile \/ file'.stamp # seen
        /\ seen' = seen /\ live' = live /\ todo' = todo /\ cfg' = cfg /\ over' = over
    BY <1>1, NewOrGone DEF addonVars
  <2> QED BY <1>0, <2>1 DEF With
<1>2. CASE OtherWork
  BY <1>0, <1>2, OtherWorkRests DEF addonVars, fileVars
<1>3. ASSUME StartReload PROVE CfgInStep'
  BY <1>0, <1>3 DEF StartReload
<1>4. CASE CheckReload
  BY <1>0, <1>3, <1>4, CheckCases DEF ReloadData
<1>5. CASE Restart \/ PowerFails
  BY <1>5 DEF Restart, PowerFails, Fresh
<1>6. ASSUME NEW c \in Contexts, NewContext(c) PROVE CfgInStep'
  BY <1>0, <1>6 DEF NewContext, AddonIdle, Override, fileVars
<1>7. ASSUME NEW c \in Contexts, CloseContext(c) PROVE CfgInStep'
  BY <1>0, <1>7 DEF CloseContext, fileVars
<1>8. ASSUME NEW c \in Contexts, Type(c) PROVE CfgInStep'
  BY <1>0, <1>8 DEF Type, fileVars
<1>9. ASSUME NEW c \in Contexts, LoadNext(c) PROVE CfgInStep'
  <2>1. over = NoChoice BY <1>0, <1>9 DEF LoadNext, Load, NoChoiceInReload
  <2>2. Loaded(file) = With(Loaded(file), over)
    BY <2>1, NothingChosen, LoadedIsConfig
  <2> QED BY <1>0, <1>9, <2>2 DEF LoadNext, Load, fileVars
<1>10. ASSUME NEW f \in Fields, NEW v \in ValuesOf(f), Choose(f, v) PROVE CfgInStep'
  <2>1. file' = file /\ seen' = seen /\ live' = live /\ todo' = {} /\ todo = {}
        /\ \A c \in live : cfg'[c] = [cfg[c] EXCEPT ![f] = v]
    BY <1>0, <1>10 DEF Choose, fileVars, AddonIdle
  <2>2. With(Loaded(file), over)' = With(Loaded(file), [over EXCEPT ![f] = v])
    BY <1>10, <2>1 DEF Choose, With, Loaded
  <2>3. [With(Loaded(file), over) EXCEPT ![f] = v] = With(Loaded(file), [over EXCEPT ![f] = v])
    <3> DEFINE loaded == Loaded(file)
    <3>1. loaded \in Configs /\ over \in Choices BY <1>0, LoadedIsConfig
    <3> HIDE DEF loaded
    <3>2. [With(loaded, over) EXCEPT ![f] = v] = With(loaded, [over EXCEPT ![f] = v])
      <4>1. v # NoValue BY SessionAssumption
      <4>2. over \in [Fields -> (UNION {ValuesOf(g) : g \in Fields}) \cup {NoValue}]
        BY <3>1 DEF Choices
      <4>3. Fields \cup {"macros"} \subseteq DOMAIN loaded /\ loaded = [g \in DOMAIN loaded |-> loaded[g]]
        BY <3>1, SessionAssumption
      <4> QED BY <4>1, <4>2, <4>3 DEF With
    <3> QED BY <3>2 DEF loaded
  <2> QED BY <1>0, <2>1, <2>2, <2>3
<1>11. ASSUME NEW w \in Writers, Notify(w) PROVE CfgInStep'
  BY <1>0, <1>3, <1>11, NotifyCases DEF addonVars
<1> QED
  BY <1>1, <1>2, <1>4, <1>5, <1>6, <1>7, <1>8, <1>9, <1>10, <1>11, NextCases

LEMMA MacrosStep == ASSUME IInv, Next PROVE MacrosInStep'
<1> USE DEF MacrosInStep
<1>0. /\ MacrosInStep /\ AddonTypes /\ todo \subseteq live /\ live \subseteq Contexts
      /\ cfg \in [Contexts -> Configs] /\ over \in Choices /\ data \in Nat /\ dataSeen \in Nat
      /\ macros \in [Contexts -> 0 .. MaxData]
  BY SessionAssumption DEF IInv, AddonTypes
<1>1. CASE FileWork
  BY <1>0, <1>1, NewOrGone DEF addonVars, MacroTable
<1>2. CASE OtherWork
  <2>1. UNCHANGED addonVars /\ (data' = data \/ data' = data + 1)
    BY <1>2, OtherWorkRests DEF OtherWork, OpenWindow, CloseWindow, Change, EditMacros
  <2>2. CASE data' = data
    BY <1>0, <2>1, <2>2 DEF addonVars, MacroTable
  <2>3. CASE data' = data + 1
    BY <1>0, <2>1, <2>3 DEF addonVars
  <2> QED BY <2>1, <2>2, <2>3
<1>3. ASSUME StartReload, data' = data PROVE MacrosInStep'
  BY <1>0, <1>3 DEF StartReload
<1>4. CASE CheckReload
  <2>1. CASE ReloadData
    BY <1>0, <1>4, <2>1, CheckCases DEF ReloadData, MacroTable
  <2> QED BY <1>3, <1>4, <2>1, CheckCases
<1>5. CASE Restart \/ PowerFails
  BY <1>0, <1>5 DEF Restart, PowerFails, Fresh
<1>6. ASSUME NEW c \in Contexts, NewContext(c) PROVE MacrosInStep'
  <2>1. UsesMacros(Override(Loaded(file))) = UsesMacros(Loaded(file))
    BY <1>0, KeepsMacros, LoadedIsConfig DEF Override, UsesMacros
  <2> QED BY <1>0, <1>6, <2>1 DEF NewContext, MacroTable, AddonIdle
<1>7. ASSUME NEW c \in Contexts, CloseContext(c) PROVE MacrosInStep'
  BY <1>0, <1>7 DEF CloseContext, MacroTable
<1>8. ASSUME NEW c \in Contexts, Type(c) PROVE MacrosInStep'
  BY <1>0, <1>8 DEF Type, MacroTable
<1>9. ASSUME NEW c \in Contexts, LoadNext(c) PROVE MacrosInStep'
  BY <1>0, <1>9 DEF LoadNext, Load, MacroTable
<1>10. ASSUME NEW f \in Fields, NEW v \in ValuesOf(f), Choose(f, v) PROVE MacrosInStep'
  <2>1. ASSUME NEW c \in Contexts
        PROVE UsesMacros([cfg[c] EXCEPT ![f] = v]) = UsesMacros(cfg[c])
    <3> DEFINE old == cfg[c]
    <3>1. old \in Configs BY <1>0
    <3> HIDE DEF old
    <3>2. [old EXCEPT ![f] = v].macros = old.macros BY <3>1, NoChoiceIsChoice, ChoiceAdded
    <3> QED BY <3>2 DEF old, UsesMacros
  <2> QED BY <1>0, <1>10, <2>1 DEF Choose, MacroTable
<1>11. ASSUME NEW w \in Writers, Notify(w) PROVE MacrosInStep'
  BY <1>0, <1>3, <1>11, NotifyCases DEF addonVars, MacroTable
<1> QED
  BY <1>1, <1>2, <1>4, <1>5, <1>6, <1>7, <1>8, <1>9, <1>10, <1>11, NextCases

LEMMA ChoiceHoldsStep == ASSUME IInv, Next PROVE MenuChoiceHolds'
<1> USE DEF MenuChoiceHolds
<1>0. /\ MenuChoiceHolds /\ todo \subseteq live /\ live \subseteq Contexts
      /\ cfg \in [Contexts -> Configs] /\ over \in Choices
  BY DEF IInv, AddonTypes
<1>1. CASE FileWork \/ OtherWork
  BY <1>0, <1>1, NewOrGone, OtherWorkRests DEF addonVars
<1>2. ASSUME StartReload PROVE MenuChoiceHolds'
  BY <1>2 DEF StartReload, NoChoice
<1>3. CASE CheckReload
  BY <1>0, <1>2, <1>3, CheckCases DEF ReloadData
<1>4. CASE Restart \/ PowerFails
  BY <1>4 DEF Restart, PowerFails, Fresh
<1>5. ASSUME NEW c \in Contexts, NewContext(c) PROVE MenuChoiceHolds'
  <2>1. Fields \subseteq DOMAIN Loaded(file) BY SessionAssumption, LoadedIsConfig
  <2>2. \A f \in Fields : over[f] # NoValue => Override(Loaded(file))[f] = over[f]
    BY <2>1 DEF Override, With
  <2> QED BY <1>0, <1>5, <2>2 DEF NewContext
<1>6. ASSUME NEW c \in Contexts, CloseContext(c) \/ Type(c) PROVE MenuChoiceHolds'
  BY <1>0, <1>6 DEF CloseContext, Type
<1>7. ASSUME NEW c \in Contexts, LoadNext(c) PROVE MenuChoiceHolds'
  <2>1. over = NoChoice BY <1>7 DEF LoadNext, Load, NoChoiceInReload, IInv
  <2> QED BY <1>0, <1>7, <2>1 DEF LoadNext, Load, NoChoice
<1>8. ASSUME NEW f \in Fields, NEW v \in ValuesOf(f), Choose(f, v) PROVE MenuChoiceHolds'
  <2>1. \A c \in live : Fields \subseteq DOMAIN cfg[c] BY <1>0, SessionAssumption
  <2>2. \A g \in Fields : over'[g] = IF g = f THEN v ELSE over[g]
    BY <1>0, <1>8 DEF Choose, Choices
  <2>3. \A c \in live, g \in Fields : cfg'[c][g] = IF g = f THEN v ELSE cfg[c][g]
    BY <1>0, <1>8, <2>1 DEF Choose
  <2>4. live' = live /\ todo' = todo BY <1>8 DEF Choose
  <2> QED BY <1>0, <2>2, <2>3, <2>4
<1>9. ASSUME NEW w \in Writers, Notify(w) PROVE MenuChoiceHolds'
  BY <1>0, <1>2, <1>9, NotifyCases DEF addonVars
<1> QED BY <1>1, <1>3, <1>4, <1>5, <1>6, <1>7, <1>8, <1>9, NextCases

LEMMA SegmentStep == ASSUME IInv, Next PROVE SegmentOfThisConfig'
<1> USE DEF SegmentOfThisConfig
<1>0. /\ SegmentOfThisConfig /\ live \subseteq Contexts
      /\ cfg \in [Contexts -> Configs] /\ word \in [Contexts -> Configs \cup {NoWord}]
  BY DEF IInv, AddonTypes
<1>1. CASE FileWork \/ OtherWork
  BY <1>0, <1>1, NewOrGone, OtherWorkRests DEF addonVars
<1>2. ASSUME StartReload PROVE SegmentOfThisConfig'
  BY <1>0, <1>2 DEF StartReload
<1>3. CASE CheckReload
  BY <1>0, <1>2, <1>3, CheckCases DEF ReloadData
<1>4. CASE Restart \/ PowerFails
  BY <1>4 DEF Restart, PowerFails, Fresh
<1>5. ASSUME NEW c \in Contexts, NewContext(c) \/ CloseContext(c) \/ Type(c)
      PROVE SegmentOfThisConfig'
  BY <1>0, <1>5 DEF NewContext, CloseContext, Type
<1>6. ASSUME NEW c \in Contexts, LoadNext(c) PROVE SegmentOfThisConfig'
  BY <1>0, <1>6 DEF LoadNext, Load, Forgotten
<1>7. ASSUME NEW f \in Fields, NEW v \in ValuesOf(f), Choose(f, v) PROVE SegmentOfThisConfig'
  BY <1>0, <1>7 DEF Choose
<1>8. ASSUME NEW w \in Writers, Notify(w) PROVE SegmentOfThisConfig'
  BY <1>0, <1>2, <1>8, NotifyCases DEF addonVars
<1> QED BY <1>1, <1>3, <1>4, <1>5, <1>6, <1>7, <1>8, NextCases

LEMMA StepInv == ASSUME IInv, [Next]_vars PROVE IInv'
<1>1. FileInv' BY Projects, FileStepInv DEF IInv
<1>2. CASE Next
  BY <1>1, <1>2, TypeStep, StampsStep, DraftedStep, NoChoiceStep, CfgStep, MacrosStep,
     ChoiceHoldsStep, SegmentStep DEF IInv
<1>3. CASE UNCHANGED vars
  <2>1. /\ UNCHANGED <<file, disk, tmp, pc, writes>>
        /\ UNCHANGED <<live, cfg, macros, word, over, seen, dataSeen, todo, data, moving, draft>>
    BY <1>3 DEF vars, addonVars, fileVars
  <2>2. AddonTypes' BY <2>1 DEF IInv, AddonTypes
  <2>3. Stamps' BY <2>1 DEF IInv, Stamps, Active
  <2>4. (Drafted /\ NoChoiceInReload)' BY <2>1 DEF IInv, Drafted, NoChoiceInReload
  <2>5. CfgInStep' BY <2>1 DEF IInv, CfgInStep, With, Loaded
  <2>6. MacrosInStep' BY <2>1 DEF IInv, MacrosInStep, MacroTable
  <2>7. (MenuChoiceHolds /\ SegmentOfThisConfig)'
    BY <2>1 DEF IInv, MenuChoiceHolds, SegmentOfThisConfig
  <2> QED BY <1>1, <2>2, <2>3, <2>4, <2>5, <2>6, <2>7 DEF IInv
<1> QED BY <1>2, <1>3

-----------------------------------------------------------------------------
(* What follows.                                                           *)

\* The inductive invariant: fingerprints are never used again, and a context
\* that no reload has still to reach runs what the addon has seen.
THEOREM Invariance == Spec => []IInv
BY InitInv, StepInv, PTL DEF Spec

\* Every variable of the file and of the addon stays within its type, and the
\* file at the path is always one that was written whole.
THEOREM TypeCorrect == Spec => []TypeOK
<1>1. IInv => TypeOK BY DEF IInv, FileInv, AddonTypes, TypeOK
<1> QED BY <1>1, Invariance, PTL

\* While the watcher sees nothing new, every context runs what the files say
\* (checkReload, reloadConfig): for any contexts, writers and choices.
THEOREM WatcherMissesNothing == Spec => []NothingMissed
<1>1. ASSUME IInv PROVE NothingMissed
  <2>1. SUFFICES ASSUME AddonIdle, Fingerprint(file) = seen, data = dataSeen, file # NoFile,
                        NEW c \in live
                 PROVE Current(c)
    BY DEF NothingMissed
  <2>2. todo = {} /\ over \in Choices BY <1>1, <2>1 DEF AddonIdle, IInv, AddonTypes
  <2>3. cfg[c] = With(Loaded(file), over)
    BY <1>1, <2>1, <2>2 DEF IInv, CfgInStep, Fingerprint
  <2>4. macros[c] = MacroTable(cfg[c]) BY <1>1, <2>1, <2>2 DEF IInv, MacrosInStep
  <2>5. UsesMacros(cfg[c]) = UsesMacros(Loaded(file))
    BY <2>2, <2>3, KeepsMacros, LoadedIsConfig DEF UsesMacros
  <2> QED BY <2>3, <2>4, <2>5 DEF Current, Override, MacroTable
<1> QED BY <1>1, Invariance, PTL

\* What was chosen in the tray menu holds in every context, one created later
\* included, until a reload makes the file the source again (#111).
THEOREM MenuChoicesHold == Spec => []MenuChoiceHolds
<1>1. IInv => MenuChoiceHolds BY DEF IInv
<1> QED BY <1>1, Invariance, PTL

\* A reload or a choice of the menu in the middle of a word leaves no segment
\* composed under the old configuration (clear_display).
THEOREM SegmentsOfThisConfig == Spec => []SegmentOfThisConfig
<1>1. IInv => SegmentOfThisConfig BY DEF IInv
<1> QED BY <1>1, Invariance, PTL

\* Settings windows that save side by side and are killed anywhere, editors and
\* the power implement one register that is written at one moment (#163).
THEOREM SessionSavesAtomically == Spec => SavesAtomically
<1>1. Init => Register!Init
  <2>1. Init => file \in Files BY FileInitInv DEF Init, FileInv, FileTypeOK
  <2> QED BY <2>1 DEF Init, FileInit, Register!Init
<1>2. IInv /\ [Next]_vars => [Register!Next]_<<file, disk>>
  BY Projects, StepIsAtomic DEF IInv
<1> QED BY <1>1, <1>2, Invariance, PTL DEF Spec, SavesAtomically, Register!Spec
==============================================================================
