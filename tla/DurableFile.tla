----------------------------- MODULE DurableFile -----------------------------
(***************************************************************************)
(* How the configuration file is written (pinakey-config: save_config_to,  *)
(* write_file_durable; pinakey-emoji's RecentEmoji::save does the same),   *)
(* by several processes, any of which may be killed, and the power may     *)
(* fail; and how a reader moves a file it cannot parse out of the way      *)
(* (load_config_from).                                                     *)
(***************************************************************************)
EXTENDS Naturals, FiniteSets

CONSTANTS
  Writers,      \* processes that save, each with a PID of its own
  Configs,      \* configurations
  Missing,      \* no file
  Bad,          \* a file that is not the JSON of a configuration
  Torn,         \* a file with a part of what was written, or nothing
  MaxWrites     \* bound: files written in a behaviour

ASSUME FileAssumption ==
  /\ Configs \cap {Missing, Bad, Torn} = {}
  /\ Cardinality({Missing, Bad, Torn}) = 3
  /\ MaxWrites \in Nat \ {0}

VARIABLES
  file,      \* what stands at the path: contents and fingerprint
  disk,      \* what may stand there after a power failure
  tmp,       \* each writer's temporary file
  pc,        \* each writer's place in save_config_to
  writes     \* history: files written, bounded by MaxWrites

fileVars == <<file, disk, tmp, pc, writes>>

\* FileFingerprint: no two files written have the same modification time (in
\* nanoseconds), inode and size; a missing one has zeros.
NoFile == [data |-> Missing, stamp |-> 0]
Files == [data : Configs \cup {Bad}, stamp : 1 .. MaxWrites] \cup {NoFile}
\* Mutant: seconds only; of two files written in one second (#90) one is missed.
WholeSeconds(f) == f.stamp \div 2

Fingerprint(f) == f.stamp

NoTmp == [data |-> Missing, stamp |-> 0, synced |-> FALSE]

FileInit ==
  /\ file \in {NoFile} \cup [data : Configs, stamp : {1}]
  /\ disk = {file}
  /\ tmp = [w \in Writers |-> NoTmp]
  /\ pc = [w \in Writers |-> "idle"]
  /\ writes = 1

Enter(w, from, to) == pc[w] = from /\ pc' = [pc EXCEPT ![w] = to]

\* File::create: the PID in its name keeps writers apart.
Create(w) ==
  /\ Enter(w, "idle", "created")
  /\ writes < MaxWrites /\ writes' = writes + 1
  /\ tmp' = [tmp EXCEPT ![w] = [data |-> Torn, stamp |-> writes + 1, synced |-> FALSE]]
  /\ UNCHANGED <<file, disk>>

\* Mutant: write instead of write_all, which may stop half-way.
ShortWrite(w, v) ==
  /\ Enter(w, "created", "written")
  /\ UNCHANGED <<file, disk, tmp, writes>>

WriteAll(w, v) ==
  /\ Enter(w, "created", "written")
  /\ tmp' = [tmp EXCEPT ![w].data = v]
  /\ UNCHANGED <<file, disk, writes>>

\* Mutant: renamed while its data is still in memory (#163).
NotSynced(w) ==
  /\ Enter(w, "written", "synced")
  /\ UNCHANGED <<file, disk, tmp, writes>>

SyncAll(w) ==
  /\ Enter(w, "written", "synced")
  /\ tmp' = [tmp EXCEPT ![w].synced = TRUE]
  /\ UNCHANGED <<file, disk, writes>>

\* rename: readers find the new file from now on. The entry may reach the disk
\* at any time, before the data it names unless that was synced.
Named(t) == [data |-> t.data, stamp |-> t.stamp]
OnDisk(t) == {Named(t)} \cup IF t.synced THEN {} ELSE {[Named(t) EXCEPT !.data = Torn]}
Rename(w) ==
  /\ Enter(w, "synced", "renamed")
  /\ file' = Named(tmp[w])
  /\ disk' = disk \cup OnDisk(tmp[w])
  /\ tmp' = [tmp EXCEPT ![w] = NoTmp]
  /\ UNCHANGED writes

\* The directory is synced if it can be; save returns Ok either way.
SyncDir(w) ==
  /\ Enter(w, "renamed", "saved")
  /\ disk' \in {disk, {file}}
  /\ UNCHANGED <<file, tmp, writes>>

\* A step fails: the temporary file is removed. Or the process is killed: the
\* file stays, but nobody has that name any more.
GiveUp(w) ==
  /\ pc[w] \in {"created", "written", "synced"}
  /\ pc' = [pc EXCEPT ![w] = "idle"]
  /\ tmp' = [tmp EXCEPT ![w] = NoTmp]
  /\ UNCHANGED <<file, disk, writes>>

\* Somebody edits the file with a program of his own, and may get it wrong.
\* The editor replaces the file as a whole and syncs it.
Edit(v) ==
  /\ writes < MaxWrites /\ writes' = writes + 1
  /\ file' = [data |-> v, stamp |-> writes + 1]
  /\ disk' = disk \cup {file'}
  /\ UNCHANGED <<tmp, pc>>

\* load_config_from: what now stands at the path becomes the .corrupt file.
MoveAway ==
  /\ file' = NoFile
  /\ disk' = disk \cup {NoFile}
  /\ UNCHANGED <<tmp, pc, writes>>

PowerLoss ==
  /\ file' \in disk
  /\ disk' = {file'}
  /\ tmp' = [w \in Writers |-> NoTmp]
  /\ pc' = [w \in Writers |-> "idle"]
  /\ UNCHANGED writes

Finish(w) == Enter(w, "saved", "idle") /\ UNCHANGED <<file, disk, tmp, writes>>

FileNext ==
  \/ \E w \in Writers, v \in Configs : WriteAll(w, v)
  \/ \E w \in Writers : Create(w) \/ SyncAll(w) \/ Rename(w) \/ SyncDir(w) \/ GiveUp(w) \/ Finish(w)
  \/ \E v \in Configs \cup {Bad} : Edit(v)
  \/ MoveAway
  \/ PowerLoss

FileSpec == FileInit /\ [][FileNext]_fileVars

FileTypeOK ==
  /\ file \in Files /\ disk \subseteq Files /\ file \in disk
  /\ tmp \in [Writers -> [data : Configs \cup {Torn, Missing}, stamp : 0 .. MaxWrites, synced : BOOLEAN]]
  /\ pc \in [Writers -> {"idle", "created", "written", "synced", "renamed", "saved"}]
  /\ writes \in 1 .. MaxWrites

Register == INSTANCE AtomicFile WITH Values <- Files, now <- file, kept <- disk

\* Whatever processes are killed, whenever the power fails and whoever else
\* writes, readers see whole files only (#163): a save replaces the file at
\* one moment, and a power failure brings back a file that stood there.
SavesAtomically == Register!Spec
==============================================================================
