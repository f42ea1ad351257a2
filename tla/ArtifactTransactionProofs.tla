---------------------- MODULE ArtifactTransactionProofs ----------------------
(***************************************************************************)
(* Proofs about ArtifactTransaction, for every number of artifacts, every  *)
(* layout of directories, and any number of commits, faults and stops.     *)
(***************************************************************************)
EXTENDS ArtifactTransaction, TLAPS

-----------------------------------------------------------------------------
(* Control: where the index is, and which backups a rename relies on. *)

Recovering == {"recover", "restore", "recoverSync"}
Finding    == {"find", "dropSync", "leftovers"} \cup Recovering
Journaling == {"stage", "journal", "journalRename", "journalSync"}
Prepared   == {"backup", "backupSync", "publish", "publishSync", "unmark"}
Undoing    == {"rollback", "rollbackRename"}

Committing == Journaling \cup Prepared \cup Deciding \cup Undoing \cup {"finish"}

IndexInv ==
  /\ pc \in {"recover", "rollback"} => i \in 0 .. N
  /\ pc \in {"restore", "recoverSync", "backupSync", "publishSync",
             "rollbackRename"} => i \in Artifact
  /\ pc \in {"stage", "backup", "publish"} => i \in 1 .. N + 1

ControlInv ==
  /\ IndexInv
  /\ pc \in Recovering => marker # Absent
  /\ pc = "restore" => Live(file[i], marker)
  /\ pc \in Committing => mode = "commit"
  /\ mode = "commit" /\ pc \in Finding => existed = {}
  /\ mode = "commit" /\ pc \in Finding \cup Journaling =>
       backedUp = {} /\ committed = {}
  /\ pc \in Prepared \cup Deciding => \A a \in backedUp : file[a].bak # Absent
  /\ pc \in Undoing => \A a \in backedUp : a <= i => file[a].bak # Absent
  /\ pc = "rollbackRename" => i \in backedUp

-----------------------------------------------------------------------------
(* What the system calls do to one artifact *)

\* Put changes the entries of one artifact and adds them to its images.
LEMMA PutEffect ==
  ASSUME FilesOK, NEW a \in Artifact, NEW f \in File, Put(a, f)
  PROVE  /\ FilesOK'
         /\ file'[a] = f /\ images'[a] = images[a] \cup {f}
         /\ \A b \in Artifact : b # a =>
              file'[b] = file[b] /\ images'[b] = images[b]
BY DEF FilesOK, Put

\* SyncDirectory leaves one image of whatever is in the directory, and
\* touches no other.
LEMMA SyncEffect ==
  ASSUME FilesOK, MarkersOK, NEW d, SyncDirectory(d)
  PROVE  /\ images' \in [Artifact -> SUBSET File]
         /\ markerImages' \in SUBSET (Journal \cup {Absent})
         /\ \A b \in Artifact : images'[b] \in {images[b], {file[b]}}
         /\ \A b \in Artifact : dirOf[b] = d => images'[b] = {file[b]}
         /\ markerImages' \in {markerImages, {marker}}
         /\ d = Root => markerImages' = {marker}
BY DEF FilesOK, MarkersOK, SyncDirectory

\* DeleteBackups (RemoveTransactionLeftovers) never changes a canonical file.
LEMMA DeleteEffect ==
  ASSUME FilesOK, NEW kept, DeleteBackups(kept)
  PROVE  /\ FilesOK'
         /\ \A b \in Artifact :
              /\ file'[b] \in {file[b], [path |-> file[b].path, bak |-> Absent]}
              /\ images'[b] = images[b] \cup {file'[b]}
<1>1. ASSUME NEW b \in Artifact
      PROVE  /\ file[b] \in File
             /\ [path |-> file[b].path, bak |-> Absent] \in File
  BY DEF FilesOK, File
<1>2. \A b \in Artifact :
        /\ file'[b] \in {file[b], [path |-> file[b].path, bak |-> Absent]}
        /\ images'[b] = images[b] \cup {file'[b]}
  BY DEF DeleteBackups
<1>3. FilesOK'
  <2>1. file' \in [Artifact -> File]
    BY <1>1 DEF DeleteBackups
  <2>2. images' \in [Artifact -> SUBSET File]
    BY <1>1 DEF DeleteBackups, FilesOK
  <2> QED BY <2>1, <2>2 DEF FilesOK
<1> QED BY <1>2, <1>3

\* The parts of a directory entry, and the entries built from them.
LEMMA FileFields ==
  ASSUME NEW f \in File
  PROVE  /\ f.path \in Content
         /\ f.bak \in Backup \cup {Absent}
         /\ f.bak # Absent => f.bak.nonce \in Nat /\ f.bak.content \in Content
         /\ \A c \in Content : [path |-> c, bak |-> f.bak] \in File
         /\ \A c \in Content : [path |-> c, bak |-> Absent] \in File
BY DEF File, Backup

\* One artifact changes at a time: the entries of artifact i become those of
\* the definition below, or nothing happens.
Becomes(f) ==
  /\ i \in Artifact /\ f \in File
  /\ file'[i] = f /\ images'[i] = images[i] \cup {f}
  /\ \A b \in Artifact : b # i => file'[b] = file[b] /\ images'[b] = images[b]

\* A Put of artifact i is a Becomes.
LEMMA PutBecomes ==
  ASSUME FilesOK, i \in Artifact, NEW f \in File, Put(i, f)
  PROVE  FilesOK' /\ Becomes(f)
BY PutEffect DEF Becomes

\* RecoverRemove removes the canonical file of artifact i, or fails to.
LEMMA RecoverRemoveEffect ==
  ASSUME TypeOK, ControlInv, RecoverRemove
  PROVE  /\ FilesOK'
         /\ \/ UNCHANGED <<file, images>>
            \/ Becomes([path |-> Absent, bak |-> file[i].bak])
<1>1. i \in Artifact /\ file[i] \in File
  BY ConstantsAssumption DEF RecoverRemove, TypeOK, CallOK, ControlInv, IndexInv, FilesOK, Live, Artifact, Undoing, Recovering
<1>2. [path |-> Absent, bak |-> file[i].bak] \in File
  BY <1>1, FileFields DEF TypeOK, CallOK, Content
<1> QED BY <1>1, <1>2, PutBecomes DEF RecoverRemove, TypeOK, FilesOK

\* RecoverRestore puts the backup of artifact i in its place, or fails to.
LEMMA RecoverRestoreEffect ==
  ASSUME TypeOK, ControlInv, RecoverRestore
  PROVE  /\ FilesOK'
         /\ \/ UNCHANGED <<file, images>>
            \/ Becomes([path |-> file[i].bak.content, bak |-> Absent])
<1>1. i \in Artifact /\ file[i] \in File /\ file[i].bak # Absent
  BY ConstantsAssumption DEF RecoverRestore, TypeOK, CallOK, ControlInv, IndexInv, FilesOK, Live, Artifact, Undoing, Recovering
<1>2. [path |-> file[i].bak.content, bak |-> Absent] \in File
  BY <1>1, FileFields DEF TypeOK, CallOK, Content
<1> QED BY <1>1, <1>2, PutBecomes DEF RecoverRestore, TypeOK, FilesOK

\* MoveToBackup moves artifact i to its backup, or changes no entry.
LEMMA MoveToBackupEffect ==
  ASSUME TypeOK, ControlInv, MoveToBackup
  PROVE  /\ FilesOK'
         /\ \/ UNCHANGED <<file, images>>
            \/ i \in existed /\ Becomes([path |-> Absent, bak |-> [nonce |-> txn, content |-> file[i].path]])
<1>1. i \in existed => i \in Artifact /\ file[i] \in File
  BY ConstantsAssumption DEF MoveToBackup, TypeOK, CallOK, ControlInv, IndexInv, FilesOK, Live, Artifact, Undoing, Recovering
<1>2. i \in existed => [path |-> Absent, bak |-> [nonce |-> txn, content |-> file[i].path]] \in File
  BY <1>1, FileFields DEF TypeOK, CallOK, Content, Backup, File
<1> QED BY <1>1, <1>2, PutBecomes DEF MoveToBackup, TypeOK, FilesOK, BeginRollback

\* Publish gives artifact i its new content, or changes no entry.
LEMMA PublishEffect ==
  ASSUME TypeOK, ControlInv, Publish
  PROVE  /\ FilesOK'
         /\ \/ UNCHANGED <<file, images>>
            \/ i <= N /\ Becomes([path |-> target[i], bak |-> file[i].bak])
<1>1. i <= N => i \in Artifact /\ file[i] \in File /\ target[i] \in Content
  BY ConstantsAssumption DEF Publish, TypeOK, CallOK, ControlInv, IndexInv, FilesOK, Live, Artifact, Undoing, Recovering
<1>2. i <= N => [path |-> target[i], bak |-> file[i].bak] \in File
  BY <1>1, FileFields DEF TypeOK, CallOK, Content
<1> QED BY <1>1, <1>2, PutBecomes DEF Publish, TypeOK, FilesOK, BeginRollback

\* Rollback removes the canonical file of artifact i, or changes no entry.
LEMMA RollbackEffect ==
  ASSUME TypeOK, ControlInv, Rollback
  PROVE  /\ FilesOK'
         /\ \/ UNCHANGED <<file, images>>
            \/ Becomes([path |-> Absent, bak |-> file[i].bak])
<1>1. i \in Artifact /\ file[i] \in File
  BY ConstantsAssumption DEF Rollback, TypeOK, CallOK, ControlInv, IndexInv, FilesOK, Live, Artifact, Undoing, Recovering
<1>2. [path |-> Absent, bak |-> file[i].bak] \in File
  BY <1>1, FileFields DEF TypeOK, CallOK, Content
<1> QED BY <1>1, <1>2, PutBecomes DEF Rollback, TypeOK, FilesOK

\* RollbackRename puts the backup of artifact i in its place, or fails to.
LEMMA RollbackRenameEffect ==
  ASSUME TypeOK, ControlInv, RollbackRename
  PROVE  /\ FilesOK'
         /\ \/ UNCHANGED <<file, images>>
            \/ Becomes([path |-> file[i].bak.content, bak |-> Absent])
<1>1. i \in Artifact /\ file[i] \in File /\ file[i].bak # Absent
  BY ConstantsAssumption DEF RollbackRename, TypeOK, CallOK, ControlInv, IndexInv, FilesOK, Live, Artifact, Undoing, Recovering
<1>2. [path |-> file[i].bak.content, bak |-> Absent] \in File
  BY <1>1, FileFields DEF TypeOK, CallOK, Content
<1> QED BY <1>1, <1>2, PutBecomes DEF RollbackRename, TypeOK, FilesOK

-----------------------------------------------------------------------------
(* Type correctness *)

\* Every system call keeps TypeOK: a rename of a backup always finds the
\* backup it expects, and the index stays within the vector of artifacts.
LEMMA StepKeepsType ==
  ASSUME TypeOK, ControlInv, Step
  PROVE  TypeOK'
<1> USE ConstantsAssumption DEF TypeOK, disk, flags, history, Works, Fails, Goto, Return
<1>1. CASE FindMarker
  <2>1. FilesOK'
    BY <1>1 DEF FindMarker, FilesOK
  <2>2. MarkersOK'
    BY <1>1 DEF FindMarker, MarkersOK, PutMarker
  <2>3. CallOK'
    BY <1>1 DEF FindMarker, CallOK, PC, ControlInv, IndexInv, Artifact
  <2>4. HistoryOK'
    BY <1>1 DEF FindMarker, HistoryOK
  <2> QED BY <2>1, <2>2, <2>3, <2>4
<1>2. CASE RecoverRemove
  <2>1. FilesOK'
    BY <1>2, RecoverRemoveEffect
  <2>2. MarkersOK'
    BY <1>2 DEF RecoverRemove, MarkersOK, PutMarker
  <2>3. CallOK'
    BY <1>2 DEF RecoverRemove, CallOK, PC, ControlInv, IndexInv, Artifact
  <2>4. HistoryOK'
    <3>1. ignored' \in {ignored, ignored \cup {"unlink"}} /\ current' = current
          /\ crashes' = crashes /\ faults' \in {faults, faults + 1}
      BY <1>2 DEF RecoverRemove
    <3> QED BY <3>1 DEF HistoryOK
  <2> QED BY <2>1, <2>2, <2>3, <2>4
<1>3. CASE RecoverRestore
  <2>1. FilesOK'
    BY <1>3, RecoverRestoreEffect
  <2>2. MarkersOK'
    BY <1>3 DEF RecoverRestore, MarkersOK, PutMarker
  <2>3. CallOK'
    BY <1>3 DEF RecoverRestore, CallOK, PC, ControlInv, IndexInv, Artifact
  <2>4. HistoryOK'
    BY <1>3 DEF RecoverRestore, HistoryOK
  <2> QED BY <2>1, <2>2, <2>3, <2>4
<1>4. CASE RecoverSync
  <2>1. FilesOK' /\ MarkersOK'
    BY <1>4, SyncEffect DEF RecoverSync, FilesOK, MarkersOK, PutMarker
  <2>2. CallOK'
    BY <1>4 DEF RecoverSync, CallOK, PC, ControlInv, IndexInv, Artifact
  <2>3. HistoryOK'
    BY <1>4 DEF RecoverSync, HistoryOK
  <2> QED BY <2>1, <2>2, <2>3
<1>5. CASE DropMarker
  <2>1. FilesOK'
    BY <1>5 DEF DropMarker, FilesOK
  <2>2. MarkersOK'
    BY <1>5 DEF DropMarker, MarkersOK, PutMarker
  <2>3. CallOK'
    BY <1>5 DEF DropMarker, CallOK, PC, ControlInv, IndexInv, Artifact
  <2>4. HistoryOK'
    BY <1>5 DEF DropMarker, HistoryOK
  <2> QED BY <2>1, <2>2, <2>3, <2>4
<1>6. CASE DropSync
  <2>1. FilesOK' /\ MarkersOK'
    BY <1>6, SyncEffect DEF DropSync, FilesOK, MarkersOK, PutMarker
  <2>2. CallOK'
    BY <1>6 DEF DropSync, CallOK, PC, ControlInv, IndexInv, Artifact
  <2>3. HistoryOK'
    BY <1>6 DEF DropSync, HistoryOK
  <2> QED BY <2>1, <2>2, <2>3
<1>7. CASE RemoveLeftovers
  <2>1. FilesOK'
    BY <1>7, DeleteEffect DEF RemoveLeftovers
  <2>2. MarkersOK'
    BY <1>7 DEF RemoveLeftovers, MarkersOK, PutMarker
  <2>3. CallOK'
    BY <1>7 DEF RemoveLeftovers, CallOK, PC, ControlInv, IndexInv, Artifact
  <2>4. HistoryOK'
    BY <1>7 DEF RemoveLeftovers, HistoryOK
  <2> QED BY <2>1, <2>2, <2>3, <2>4
<1>8. CASE Stage
  <2>1. FilesOK'
    BY <1>8 DEF Stage, FilesOK
  <2>2. MarkersOK'
    BY <1>8 DEF Stage, MarkersOK, PutMarker
  <2>3. CallOK'
    <3>1. i' \in 0 .. N + 1
      BY <1>8 DEF Stage, CallOK, ControlInv, IndexInv
    <3>0. ~(i > N) => i \in Artifact
      BY <1>8 DEF Stage, CallOK, ControlInv, IndexInv, Artifact
    <3>2. tmp' \in SUBSET Artifact /\ existed' \in SUBSET Artifact
          /\ backedUp' \in SUBSET Artifact /\ committed' \in SUBSET Artifact
      BY <1>8, <3>0 DEF Stage, CallOK
    <3>3. pc' \in PC
      BY <1>8 DEF Stage, PC, CallOK
    <3> QED BY <1>8, <3>1, <3>2, <3>3 DEF Stage, CallOK
  <2>4. HistoryOK'
    BY <1>8 DEF Stage, HistoryOK
  <2> QED BY <2>1, <2>2, <2>3, <2>4
<1>9. CASE WriteJournal
  <2>1. FilesOK'
    BY <1>9 DEF WriteJournal, AbandonJournal, FilesOK
  <2>2. MarkersOK'
    BY <1>9 DEF WriteJournal, AbandonJournal, MarkersOK, PutMarker
  <2>3. CallOK'
    BY <1>9 DEF WriteJournal, AbandonJournal, CallOK, PC, ControlInv, IndexInv, Artifact
  <2>4. HistoryOK'
    BY <1>9 DEF WriteJournal, AbandonJournal, HistoryOK
  <2> QED BY <2>1, <2>2, <2>3, <2>4
<1>10. CASE RenameJournal
  <2>1. FilesOK'
    BY <1>10 DEF RenameJournal, AbandonJournal, FilesOK
  <2>2. MarkersOK'
    BY <1>10 DEF RenameJournal, AbandonJournal, MarkersOK, PutMarker, Entries, Journal, CallOK
  <2>3. CallOK'
    BY <1>10 DEF RenameJournal, AbandonJournal, CallOK, PC, ControlInv, IndexInv, Artifact
  <2>4. HistoryOK'
    BY <1>10 DEF RenameJournal, AbandonJournal, HistoryOK
  <2> QED BY <2>1, <2>2, <2>3, <2>4
<1>11. CASE SyncJournal
  <2>1. FilesOK' /\ MarkersOK'
    BY <1>11, SyncEffect DEF SyncJournal, AbandonJournal, FilesOK, MarkersOK, PutMarker
  <2>2. CallOK'
    <3>1. i' \in 0 .. N + 1
      BY <1>11 DEF SyncJournal, AbandonJournal, CallOK, ControlInv, IndexInv
    <3>2. tmp' \in SUBSET Artifact /\ existed' \in SUBSET Artifact
          /\ backedUp' \in SUBSET Artifact /\ committed' \in SUBSET Artifact
      BY <1>11 DEF SyncJournal, AbandonJournal, CallOK
    <3>3. pc' \in PC
      BY <1>11 DEF SyncJournal, AbandonJournal, PC, CallOK
    <3> QED BY <1>11, <3>1, <3>2, <3>3 DEF SyncJournal, AbandonJournal, CallOK
  <2>3. HistoryOK'
    BY <1>11 DEF SyncJournal, AbandonJournal, HistoryOK
  <2> QED BY <2>1, <2>2, <2>3
<1>12. CASE MoveToBackup
  <2>1. FilesOK'
    BY <1>12, MoveToBackupEffect
  <2>2. MarkersOK'
    BY <1>12 DEF MoveToBackup, BeginRollback, MarkersOK, PutMarker
  <2>3. CallOK'
    <3>1. i' \in 0 .. N + 1
      BY <1>12 DEF MoveToBackup, BeginRollback, CallOK, ControlInv, IndexInv
    <3>0. ~(i > N) => i \in Artifact
      BY <1>12 DEF MoveToBackup, BeginRollback, CallOK, ControlInv, IndexInv, Artifact
    <3>2. tmp' \in SUBSET Artifact /\ existed' \in SUBSET Artifact
          /\ backedUp' \in SUBSET Artifact /\ committed' \in SUBSET Artifact
      BY <1>12, <3>0 DEF MoveToBackup, BeginRollback, CallOK
    <3>3. pc' \in PC
      BY <1>12 DEF MoveToBackup, BeginRollback, PC, CallOK
    <3> QED BY <1>12, <3>1, <3>2, <3>3 DEF MoveToBackup, BeginRollback, CallOK
  <2>4. HistoryOK'
    BY <1>12 DEF MoveToBackup, BeginRollback, HistoryOK
  <2> QED BY <2>1, <2>2, <2>3, <2>4
<1>13. CASE SyncBackup
  <2>1. FilesOK' /\ MarkersOK'
    BY <1>13, SyncEffect DEF SyncBackup, BeginRollback, FilesOK, MarkersOK, PutMarker
  <2>2. CallOK'
    BY <1>13 DEF SyncBackup, BeginRollback, CallOK, PC, ControlInv, IndexInv, Artifact
  <2>3. HistoryOK'
    BY <1>13 DEF SyncBackup, BeginRollback, HistoryOK
  <2> QED BY <2>1, <2>2, <2>3
<1>14. CASE Publish
  <2>1. FilesOK'
    BY <1>14, PublishEffect
  <2>2. MarkersOK'
    BY <1>14 DEF Publish, BeginRollback, MarkersOK, PutMarker
  <2>3. CallOK'
    <3>1. i' \in 0 .. N + 1
      BY <1>14 DEF Publish, BeginRollback, CallOK, ControlInv, IndexInv
    <3>0. ~(i > N) => i \in Artifact
      BY <1>14 DEF Publish, BeginRollback, CallOK, ControlInv, IndexInv, Artifact
    <3>2. tmp' \in SUBSET Artifact /\ existed' \in SUBSET Artifact
          /\ backedUp' \in SUBSET Artifact /\ committed' \in SUBSET Artifact
      BY <1>14, <3>0 DEF Publish, BeginRollback, CallOK
    <3>3. pc' \in PC
      BY <1>14 DEF Publish, BeginRollback, PC, CallOK
    <3> QED BY <1>14, <3>1, <3>2, <3>3 DEF Publish, BeginRollback, CallOK
  <2>4. HistoryOK'
    BY <1>14 DEF Publish, BeginRollback, HistoryOK
  <2> QED BY <2>1, <2>2, <2>3, <2>4
<1>15. CASE SyncPublish
  <2>1. FilesOK' /\ MarkersOK'
    BY <1>15, SyncEffect DEF SyncPublish, BeginRollback, FilesOK, MarkersOK, PutMarker
  <2>2. CallOK'
    BY <1>15 DEF SyncPublish, BeginRollback, CallOK, PC, ControlInv, IndexInv, Artifact
  <2>3. HistoryOK'
    BY <1>15 DEF SyncPublish, BeginRollback, HistoryOK
  <2> QED BY <2>1, <2>2, <2>3
<1>16. CASE Unmark
  <2>1. FilesOK'
    BY <1>16 DEF Unmark, BeginRollback, FilesOK
  <2>2. MarkersOK'
    BY <1>16 DEF Unmark, BeginRollback, MarkersOK, PutMarker
  <2>3. CallOK'
    BY <1>16 DEF Unmark, BeginRollback, CallOK, PC, ControlInv, IndexInv, Artifact
  <2>4. HistoryOK'
    BY <1>16 DEF Unmark, BeginRollback, HistoryOK
  <2> QED BY <2>1, <2>2, <2>3, <2>4
<1>17. CASE SyncUnmark
  <2>1. FilesOK' /\ MarkersOK'
    BY <1>17, SyncEffect DEF SyncUnmark, FilesOK, MarkersOK, PutMarker
  <2>2. CallOK'
    BY <1>17 DEF SyncUnmark, CallOK, PC, ControlInv, IndexInv, Artifact
  <2>3. HistoryOK'
    BY <1>17 DEF SyncUnmark, HistoryOK, CallOK
  <2> QED BY <2>1, <2>2, <2>3
<1>18. CASE RewriteJournal
  <2>1. FilesOK' /\ MarkersOK'
    BY <1>18, SyncEffect DEF RewriteJournal, BeginRollback, FilesOK, MarkersOK, PutMarker, Entries, Journal, CallOK
  <2>2. CallOK'
    BY <1>18 DEF RewriteJournal, BeginRollback, CallOK, PC, ControlInv, IndexInv, Artifact
  <2>3. HistoryOK'
    <3>1. ignored' \in {ignored, ignored \cup {"journal"}} /\ current' = current
          /\ crashes' = crashes /\ faults' \in {faults, faults + 1}
      BY <1>18 DEF RewriteJournal, BeginRollback
    <3> QED BY <3>1 DEF HistoryOK
  <2> QED BY <2>1, <2>2, <2>3
<1>19. CASE Rollback
  <2>1. FilesOK'
    BY <1>19, RollbackEffect
  <2>2. MarkersOK'
    BY <1>19 DEF Rollback, MarkersOK, PutMarker
  <2>3. CallOK'
    BY <1>19 DEF Rollback, CallOK, PC, ControlInv, IndexInv, Artifact
  <2>4. HistoryOK'
    BY <1>19 DEF Rollback, HistoryOK
  <2> QED BY <2>1, <2>2, <2>3, <2>4
<1>20. CASE RollbackRename
  <2>1. FilesOK'
    BY <1>20, RollbackRenameEffect
  <2>2. MarkersOK'
    BY <1>20 DEF RollbackRename, MarkersOK, PutMarker
  <2>3. CallOK'
    BY <1>20 DEF RollbackRename, CallOK, PC, ControlInv, IndexInv, Artifact
  <2>4. HistoryOK'
    BY <1>20 DEF RollbackRename, HistoryOK
  <2> QED BY <2>1, <2>2, <2>3, <2>4
<1>21. CASE EndRollback
  <2>1. FilesOK'
    BY <1>21 DEF EndRollback, FilesOK
  <2>2. MarkersOK'
    BY <1>21 DEF EndRollback, MarkersOK, PutMarker
  <2>3. CallOK'
    BY <1>21 DEF EndRollback, CallOK, PC, ControlInv, IndexInv, Artifact
  <2>4. HistoryOK'
    BY <1>21 DEF EndRollback, HistoryOK
  <2> QED BY <2>1, <2>2, <2>3, <2>4
<1>22. CASE Finish
  <2>1. FilesOK'
    BY <1>22, DeleteEffect DEF Finish
  <2>2. MarkersOK'
    BY <1>22 DEF Finish, MarkersOK, PutMarker
  <2>3. CallOK'
    BY <1>22 DEF Finish, CallOK, PC, ControlInv, IndexInv, Artifact
  <2>4. HistoryOK'
    BY <1>22 DEF Finish, HistoryOK
  <2> QED BY <2>1, <2>2, <2>3, <2>4
<1> QED BY <1>1, <1>2, <1>3, <1>4, <1>5, <1>6, <1>7, <1>8, <1>9, <1>10, <1>11, <1>12, <1>13, <1>14, <1>15, <1>16, <1>17, <1>18, <1>19, <1>20, <1>21, <1>22 DEF Step

\* Every system call keeps ControlInv.
LEMMA StepKeepsControl ==
  ASSUME TypeOK, ControlInv, Step
  PROVE  ControlInv'
<1> USE ConstantsAssumption DEF disk, flags, history, Works, Fails, Goto, Return,
      ControlInv, IndexInv, Recovering, Finding, Journaling, Prepared, Deciding,
      Undoing, Committing
<1>1. CASE FindMarker
  BY <1>1 DEF FindMarker, TypeOK, CallOK, Artifact
<1>2. CASE RecoverRemove
  <2>1. \A b \in Artifact : file'[b].bak = file[b].bak
    BY <1>2, RecoverRemoveEffect DEF Becomes
  <2> QED BY <1>2, <2>1, RecoverRemoveEffect DEF RecoverRemove, TypeOK, CallOK, Artifact, Live, Becomes
<1>3. CASE RecoverRestore
  <2>1. \A b \in Artifact : b # i => file'[b].bak = file[b].bak
    BY <1>3, RecoverRestoreEffect DEF Becomes
  <2> QED BY <1>3, <2>1, RecoverRestoreEffect DEF RecoverRestore, TypeOK, CallOK, Artifact, Live, Becomes
<1>4. CASE RecoverSync
  BY <1>4 DEF RecoverSync, TypeOK, CallOK, Artifact
<1>5. CASE DropMarker
  BY <1>5 DEF DropMarker, TypeOK, CallOK, Artifact
<1>6. CASE DropSync
  BY <1>6 DEF DropSync, TypeOK, CallOK, Artifact
<1>7. CASE RemoveLeftovers
  BY <1>7 DEF RemoveLeftovers, TypeOK, CallOK, Artifact
<1>8. CASE Stage
  BY <1>8 DEF Stage, TypeOK, CallOK, Artifact
<1>9. CASE WriteJournal
  BY <1>9 DEF WriteJournal, AbandonJournal, TypeOK, CallOK, Artifact
<1>10. CASE RenameJournal
  BY <1>10 DEF RenameJournal, AbandonJournal, TypeOK, CallOK, Artifact
<1>11. CASE SyncJournal
  BY <1>11 DEF SyncJournal, AbandonJournal, TypeOK, CallOK, Artifact
<1>12. CASE MoveToBackup
  <2>0. i \in existed => [nonce |-> txn, content |-> file[i].path] # Absent
    BY FileFields, AbsentAssumption DEF TypeOK, CallOK, FilesOK, Backup
  <2>1. /\ \A b \in Artifact : file[b].bak # Absent => file'[b].bak # Absent
        /\ pc' = "backupSync" => file'[i].bak # Absent
    BY <1>12, <2>0, MoveToBackupEffect DEF Becomes, MoveToBackup, TypeOK, CallOK, Put, FilesOK, BeginRollback
  <2>2. backedUp' = backedUp \/ (backedUp' = backedUp \cup {i} /\ pc' = "backupSync")
    BY <1>12 DEF MoveToBackup
  <2>3. backedUp' \subseteq Artifact
    BY <1>12, StepKeepsType DEF Step, TypeOK, CallOK
  <2>4. pc' \in Prepared => \A a \in backedUp' : file'[a].bak # Absent
    BY <1>12, <2>1, <2>2, <2>3 DEF MoveToBackup, ControlInv, Prepared
  <2> QED BY <1>12, <2>1, <2>3, <2>4 DEF MoveToBackup, BeginRollback, TypeOK, CallOK, Artifact
<1>13. CASE SyncBackup
  BY <1>13 DEF SyncBackup, BeginRollback, TypeOK, CallOK, Artifact
<1>14. CASE Publish
  <2>1. \A b \in Artifact : file'[b].bak = file[b].bak
    BY <1>14, PublishEffect DEF Becomes
  <2> QED BY <1>14, <2>1, PublishEffect DEF Publish, BeginRollback, TypeOK, CallOK, Artifact, Live, Becomes
<1>15. CASE SyncPublish
  BY <1>15 DEF SyncPublish, BeginRollback, TypeOK, CallOK, Artifact
<1>16. CASE Unmark
  BY <1>16 DEF Unmark, BeginRollback, TypeOK, CallOK, Artifact
<1>17. CASE SyncUnmark
  BY <1>17 DEF SyncUnmark, TypeOK, CallOK, Artifact
<1>18. CASE RewriteJournal
  BY <1>18 DEF RewriteJournal, BeginRollback, TypeOK, CallOK, Artifact
<1>19. CASE Rollback
  <2>1. \A b \in Artifact : file'[b].bak = file[b].bak
    BY <1>19, RollbackEffect DEF Becomes
  <2> QED BY <1>19, <2>1, RollbackEffect DEF Rollback, TypeOK, CallOK, Artifact, Live, Becomes
<1>20. CASE RollbackRename
  <2>1. \A b \in Artifact : b # i => file'[b].bak = file[b].bak
    BY <1>20, RollbackRenameEffect DEF Becomes
  <2> QED BY <1>20, <2>1, RollbackRenameEffect DEF RollbackRename, TypeOK, CallOK, Artifact, Live, Becomes
<1>21. CASE EndRollback
  BY <1>21 DEF EndRollback, TypeOK, CallOK, Artifact
<1>22. CASE Finish
  BY <1>22 DEF Finish, TypeOK, CallOK, Artifact
<1> QED BY <1>1, <1>2, <1>3, <1>4, <1>5, <1>6, <1>7, <1>8, <1>9, <1>10, <1>11, <1>12, <1>13, <1>14, <1>15, <1>16, <1>17, <1>18, <1>19, <1>20, <1>21, <1>22 DEF Step

\* The invariants of types and control hold initially.
LEMMA InitControl == Init => TypeOK /\ ControlInv
<1> SUFFICES ASSUME Init PROVE TypeOK /\ ControlInv
  OBVIOUS
<1> USE ConstantsAssumption DEF Init
<1>1. current \in [Artifact -> Content]
  BY DEF Content
<1>2. FilesOK
  BY <1>1 DEF FilesOK, File
<1>3. MarkersOK /\ CallOK /\ HistoryOK
  BY <1>1 DEF MarkersOK, CallOK, HistoryOK, PC
<1>4. ControlInv
  BY DEF ControlInv, IndexInv, Recovering, Finding, Journaling, Prepared, Deciding,
     Undoing, Committing
<1> QED BY <1>2, <1>3, <1>4 DEF TypeOK

\* A stop leaves, for each artifact, one of its images.
LEMMA CrashEffect ==
  ASSUME TypeOK, Crash
  PROVE  /\ FilesOK' /\ MarkersOK'
         /\ \A a \in Artifact : file'[a] \in images[a] /\ images'[a] = {file'[a]}
         /\ marker' \in markerImages /\ markerImages' = {marker'}
<1>1. PICK m \in markerImages, f \in Durable :
        /\ marker' = m /\ markerImages' = {m}
        /\ file' = f /\ images' = [a \in Artifact |-> {f[a]}]
  BY DEF Crash
<1>2. \A a \in Artifact : f[a] \in images[a] /\ f[a] \in File
  BY DEF Durable, TypeOK, FilesOK
<1>3. f \in [Artifact -> File]
  BY <1>2 DEF Durable
<1>4. FilesOK' /\ MarkersOK'
  BY <1>1, <1>2, <1>3 DEF FilesOK, MarkersOK, TypeOK
<1> QED BY <1>1, <1>2, <1>4

\* Every action, a stop included, keeps the invariants of types and control.
LEMMA NextKeepsControl ==
  ASSUME TypeOK, ControlInv, [Next]_vars
  PROVE  TypeOK' /\ ControlInv'
<1> USE DEF disk, flags, history, Goto
<1>1. CASE Step
  BY <1>1, StepKeepsType, StepKeepsControl
<1>2. CASE BeginLoad
  <2>1. TypeOK'
    BY <1>2 DEF BeginLoad, TypeOK, FilesOK, MarkersOK, CallOK, HistoryOK, PC
  <2> QED BY <1>2, <2>1 DEF BeginLoad, ControlInv, IndexInv, Recovering, Finding,
             Journaling, Prepared, Deciding, Undoing, Committing
<1>3. CASE BeginCommit
  <2>1. txn + 1 \in Content /\ target' \in [Artifact -> Content]
    BY <1>3 DEF BeginCommit, TypeOK, CallOK, Content
  <2>2. TypeOK'
    BY <1>3, <2>1 DEF BeginCommit, TypeOK, FilesOK, MarkersOK, CallOK, HistoryOK, PC
  <2> QED BY <1>3, <2>2 DEF BeginCommit, ControlInv, IndexInv, Recovering, Finding,
             Journaling, Prepared, Deciding, Undoing, Committing
<1>4. CASE Crash
  <2>1. CallOK' /\ HistoryOK'
    BY <1>4, ConstantsAssumption DEF Crash, TypeOK, CallOK, HistoryOK, PC
  <2>2. ControlInv'
    BY <1>4 DEF Crash, ControlInv, IndexInv, Recovering, Finding, Journaling,
       Prepared, Deciding, Undoing, Committing
  <2> QED BY <1>4, <2>1, <2>2, CrashEffect DEF TypeOK
<1>5. CASE UNCHANGED vars
  BY <1>5 DEF vars, TypeOK, FilesOK, MarkersOK, CallOK, HistoryOK, ControlInv,
     IndexInv, Live
<1> QED BY <1>1, <1>2, <1>3, <1>4, <1>5 DEF Next

\* TypeOK is an invariant, for every number of artifacts, faults and stops.
THEOREM TypeCorrect == Spec => []TypeOK
<1>1. Init => TypeOK /\ ControlInv
  BY InitControl
<1>2. TypeOK /\ ControlInv /\ [Next]_vars => (TypeOK /\ ControlInv)'
  BY NextKeepsControl
<1> QED BY <1>1, <1>2, PTL DEF Spec

=============================================================================
