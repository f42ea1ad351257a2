------------------------- MODULE ArtifactTransaction -------------------------
(***************************************************************************)
(* The multi-file transaction every save of a CUTMACHINE project goes      *)
(* through: CommitArtifacts, RecoverTransaction and their helpers          *)
(* (Cli.cc).  A save replaces N artifacts (project.cutmachine.json,        *)
(* manifest.json, Timelines/<ULID>.json, the edit logs) spread over        *)
(* several directories; no file system call replaces them all at once, so  *)
(* the code stages <file>.<nonce>.tmp, writes the journal                  *)
(* .cutmachine-transaction, moves every canonical file to                  *)
(* <file>.<nonce>.bak, publishes the temporaries, and drops the journal.   *)
(*                                                                         *)
(* One action per system call that can fail or after which the machine     *)
(* can stop.  Every call may fail (at most MaxFaults times), and a stop    *)
(* (power loss, kill) may come between any two calls.  A stop keeps, for   *)
(* every artifact and for the journal, ANY state it had since the last     *)
(* successful SyncDirectory of its directory: nothing is assumed about     *)
(* the order in which a file system writes back the entries of different   *)
(* files.  File contents are durable once WriteFile returned, it syncs     *)
(* the descriptor before it closes it.                                     *)
(*                                                                         *)
(* A content is abstracted to the number of the transaction that wrote     *)
(* it.  The nonce of a transaction is its number (ULIDs are unique).       *)
(* Temporaries and backups of other nonces than the journal's are never    *)
(* read, so one backup slot per artifact, tagged with its nonce, is kept.  *)
(***************************************************************************)
EXTENDS Naturals

CONSTANTS
  N,            \* number of artifacts of a commit
  Directory,    \* the directories they are in
  Root,         \* CommonDirectory: the one that holds the journal
  dirOf,        \* parent_path of each artifact
  Absent,       \* "no file of that name"
  MaxCommits,   \* bound: calls of CommitArtifacts
  MaxFaults,    \* bound: system calls that fail
  MaxCrashes    \* bound: stops of the machine

Artifact == 1 .. N

ASSUME ConstantsAssumption ==
  /\ N \in Nat
  /\ Root \in Directory
  /\ dirOf \in [Artifact -> Directory]
  /\ MaxCommits \in Nat /\ MaxFaults \in Nat /\ MaxCrashes \in Nat

Content == Nat \cup {Absent}
Backup  == [nonce : Nat, content : Content]
File    == [path : Content, bak : Backup \cup {Absent}]
Journal == [nonce : Nat, existed : SUBSET Artifact]

ASSUME AbsentAssumption ==
  Absent \notin Nat /\ Absent \notin Backup /\ Absent \notin Journal

VARIABLES
  \* What a running process sees of the package, and what a stop may leave.
  file,           \* canonical file and backup of each artifact
  images,         \* the states of it that may be the durable one
  marker,         \* .cutmachine-transaction, or Absent
  markerImages,   \* the states of it that may be the durable one
  \* The running call.
  pc,             \* the next system call
  mode,           \* "commit" for CommitArtifacts, "load" for a reader
  i,              \* position in the vector of artifacts
  tmp,            \* artifacts whose .tmp of this transaction exists
  existed, backedUp, committed,   \* the flags of struct CommitArtifact
  target,         \* the contents to commit; Absent is artifact.remove
  txn,            \* number of the current, or last, transaction
  outcome,        \* what the last call returned
  \* History.
  current,        \* the generation a correct reader must get
  ignored,        \* faults whose failure the protocol ignores and that happened
  faults, crashes

disk    == <<file, images, marker, markerImages>>
flags   == <<existed, backedUp, committed>>
history == <<current, ignored, crashes>>
vars    == <<disk, pc, mode, i, tmp, flags, target, txn, outcome, history,
             faults>>

PC == { "idle", "find", "recover", "restore", "recoverSync", "dropSync",
         "leftovers", "stage", "journal", "journalRename",
        "journalSync", "backup", "backupSync", "publish", "publishSync",
        "unmark", "unmarkSync", "rewrite", "rewriteRename", "rewriteSync",
        "rollback", "rollbackRename", "finish" }

FilesOK == file \in [Artifact -> File] /\ images \in [Artifact -> SUBSET File]

MarkersOK ==
  /\ marker \in Journal \cup {Absent}
  /\ markerImages \in SUBSET (Journal \cup {Absent})

CallOK ==
  /\ pc \in PC /\ mode \in {"load", "commit"} /\ i \in 0 .. N + 1
  /\ tmp \in SUBSET Artifact
  /\ existed \in SUBSET Artifact
  /\ backedUp \in SUBSET Artifact
  /\ committed \in SUBSET Artifact
  /\ target \in [Artifact -> Content]
  /\ txn \in Nat
  /\ outcome \in {"none", "ok", "failed", "loaded", "stopped"}

HistoryOK ==
  /\ current \in [Artifact -> Content]
  /\ ignored \in SUBSET {"unlink", "journal"}
  /\ faults \in Nat /\ crashes \in Nat

TypeOK == FilesOK /\ MarkersOK /\ CallOK /\ HistoryOK

-----------------------------------------------------------------------------
(* System calls *)

\* A change of an artifact's directory entries: seen at once by every
\* process, durable only after the next SyncDirectory.
Put(a, f) ==
  /\ file' = [file EXCEPT ![a] = f]
  /\ images' = [images EXCEPT ![a] = @ \cup {f}]

\* Every backup but those of kept is deleted, in one pass over the
\* directories: no later call depends on how far a stopped pass got.
DeleteBackups(kept) ==
  LET clean == [a \in Artifact |-> IF a \in kept THEN file[a]
                                  ELSE [path |-> file[a].path, bak |-> Absent]]
  IN /\ file' = clean
     /\ images' = [a \in Artifact |-> images[a] \cup {clean[a]}]

PutMarker(m) ==
  /\ marker' = m
  /\ markerImages' = markerImages \cup {m}

\* Mutant: the directory is not synchronized.
SyncDirectoryOmitted(d) == UNCHANGED <<images, markerImages>>

SyncDirectory(d) ==
  /\ images' = [a \in Artifact |->
                  IF dirOf[a] = d THEN {file[a]} ELSE images[a]]
  /\ markerImages' = IF d = Root THEN {marker} ELSE markerImages

\* The next call works, or it fails (EIO, ENOSPC, EPERM, ...).
Works == UNCHANGED faults
Fails == faults < MaxFaults /\ faults' = faults + 1

Goto(label) == pc' = label
Return(result) == pc' = "idle" /\ outcome' = result

\* The backup the journal m would restore.
Live(f, m) == f.bak # Absent /\ f.bak.nonce = m.nonce

\* What RecoverTransaction makes of artifact a from the journal m and the
\* directory entries f.
Recovered(m, f, a) ==
  IF m = Absent THEN f.path
  ELSE IF Live(f, m) THEN f.bak.content
  ELSE IF a \in m.existed THEN f.path
  ELSE Absent

-----------------------------------------------------------------------------
Init ==
  /\ current \in [Artifact -> {0, Absent}]
  /\ file = [a \in Artifact |-> [path |-> current[a], bak |-> Absent]]
  /\ images = [a \in Artifact |-> {file[a]}]
  /\ marker = Absent
  /\ markerImages = {Absent}
  /\ pc = "idle" /\ mode = "load" /\ i = 0
  /\ tmp = {} /\ existed = {} /\ backedUp = {} /\ committed = {}
  /\ target = current
  /\ txn = 0
  /\ outcome = "none"
  /\ ignored = {}
  /\ faults = 0 /\ crashes = 0

\* RecoverTextArtifactTransaction, called by every reader of a package.
BeginLoad ==
  /\ pc = "idle"
  /\ Goto("find")
  /\ mode' = "load"
  /\ outcome' = "none"
  /\ UNCHANGED <<disk, i, tmp, flags, target, txn, history, faults>>

\* CommitArtifacts: every artifact is written, or removed.
BeginCommit ==
  /\ pc = "idle"
  /\ txn < MaxCommits
  /\ Goto("find")
  /\ mode' = "commit"
  /\ txn' = txn + 1
  /\ target' \in [Artifact -> {txn + 1, Absent}]
  /\ existed' = {} /\ backedUp' = {} /\ committed' = {}
  /\ tmp' = {}
  /\ outcome' = "none"
  /\ UNCHANGED <<disk, i, history, faults>>

-----------------------------------------------------------------------------
(* RecoverTransaction *)

\* exists(marker), then read the journal.
FindMarker ==
  /\ pc = "find"
  /\ UNCHANGED <<disk, mode, tmp, flags, target, txn, history>>
  /\ \/ /\ Works
        /\ IF marker = Absent
           THEN Goto("leftovers") /\ UNCHANGED i
           ELSE Goto("recover") /\ i' = N
        /\ UNCHANGED outcome
     \/ Fails /\ Return("failed") /\ UNCHANGED i

\* Mutant: a file that did not exist before the transaction is not removed.
RecoverRemoveKeepsNew ==
  /\ pc = "recover" /\ i # 0
  /\ Works
  /\ IF Live(file[i], marker)
     THEN Put(i, [path |-> Absent, bak |-> file[i].bak]) /\ Goto("restore")
     ELSE Goto("recoverSync") /\ UNCHANGED <<file, images>>
  /\ UNCHANGED <<marker, markerImages, mode, i, tmp, flags, target, txn,
                 outcome, history>>

\* One entry of the journal, the last one first: remove the canonical file
\* if a backup will replace it or if it did not exist before.  The result of
\* RemoveIfPresent is ignored, so a file that did not exist before and cannot
\* be removed stays while the journal that names it will be dropped.
RecoverRemove ==
  /\ pc = "recover" /\ i # 0
  /\ LET live   == Live(file[i], marker)
         remove == live \/ i \notin marker.existed
     IN \/ /\ Works
           /\ IF remove
              THEN Put(i, [path |-> Absent, bak |-> file[i].bak])
              ELSE UNCHANGED <<file, images>>
           /\ Goto(IF live THEN "restore" ELSE "recoverSync")
           /\ UNCHANGED <<outcome, ignored>>
        \/ /\ Fails                                \* RemoveIfPresent(path)
           /\ remove /\ file[i].path # Absent
           /\ ignored' = IF live THEN ignored ELSE ignored \cup {"unlink"}
           /\ Goto(IF live THEN "restore" ELSE "recoverSync")
           /\ UNCHANGED <<file, images, outcome>>
        \/ /\ Fails                                \* exists(backup)
           /\ Return("failed")
           /\ UNCHANGED <<file, images, ignored>>
  /\ UNCHANGED <<marker, markerImages, mode, i, tmp, flags, target, txn,
                 current, crashes>>

\* Rename(backup, path), which replaces the canonical file if it is there.
RecoverRestore ==
  /\ pc = "restore"
  /\ \/ /\ Works
        /\ Put(i, [path |-> file[i].bak.content, bak |-> Absent])
        /\ Goto("recoverSync")
        /\ UNCHANGED outcome
     \/ Fails /\ Return("failed") /\ UNCHANGED <<file, images>>
  /\ UNCHANGED <<marker, markerImages, mode, i, tmp, flags, target, txn, history>>

RecoverSync ==
  /\ pc = "recoverSync"
  /\ \/ /\ Works
        /\ SyncDirectory(dirOf[i])
        /\ i' = i - 1
        /\ Goto("recover")
        /\ UNCHANGED outcome
     \/ Fails /\ Return("failed") /\ UNCHANGED <<images, markerImages, i>>
  /\ UNCHANGED <<file, marker, mode, tmp, flags, target, txn, history>>

\* Mutant: the journal of a recovered transaction is left behind.
DropMarkerForgotten ==
  /\ pc = "recover" /\ i = 0
  /\ Works /\ Goto("dropSync")
  /\ UNCHANGED <<disk, mode, i, tmp, flags, target, txn, outcome, history>>

DropMarker ==
  /\ pc = "recover" /\ i = 0
  /\ \/ Works /\ PutMarker(Absent) /\ Goto("dropSync") /\ UNCHANGED outcome
     \/ Fails /\ Return("failed") /\ UNCHANGED <<marker, markerImages>>
  /\ UNCHANGED <<file, images, mode, i, tmp, flags, target, txn, history>>

DropSync ==
  /\ pc = "dropSync"
  /\ \/ Works /\ SyncDirectory(Root) /\ Goto("leftovers") /\ UNCHANGED outcome
     \/ Fails /\ Return("failed") /\ UNCHANGED <<images, markerImages>>
  /\ UNCHANGED <<file, marker, mode, i, tmp, flags, target, txn, history>>

\* RemoveTransactionLeftovers deletes every backup and temporary it can; the
\* ones it cannot (kept) stay.  A reader then reads the canonical files, a
\* commit starts to stage its own.
RemoveLeftovers ==
  /\ pc = "leftovers"
  /\ \E kept \in SUBSET {a \in Artifact : file[a].bak # Absent} :
       /\ IF kept = {} THEN Works ELSE Fails
       /\ DeleteBackups(kept)
  /\ IF mode = "load"
     THEN Return("loaded") /\ UNCHANGED i
     ELSE Goto("stage") /\ i' = 1 /\ UNCHANGED outcome
  /\ UNCHANGED <<marker, markerImages, mode, tmp, flags, target, txn, history>>

-----------------------------------------------------------------------------
(* CommitArtifacts, after the recovery *)

\* For each artifact: exists(path), then WriteFile(temporary) unless it is to
\* be removed.  cleanupTemporary removes what was written if either fails.
Stage ==
  /\ pc = "stage"
  /\ IF i > N
     THEN Goto("journal") /\ Works /\ UNCHANGED <<i, tmp, existed, outcome>>
     ELSE \/ /\ Works
             /\ existed' = IF file[i].path # Absent THEN existed \cup {i}
                           ELSE existed
             /\ tmp' = IF target[i] # Absent THEN tmp \cup {i} ELSE tmp
             /\ i' = i + 1
             /\ UNCHANGED <<pc, outcome>>
          \/ Fails /\ Return("failed") /\ tmp' = {} /\ UNCHANGED <<i, existed>>
  /\ UNCHANGED <<disk, mode, backedUp, committed, target, txn, history>>

\* The journal cannot be written, published or synchronized: remove the
\* temporaries, the journal's own temporary and the journal.
AbandonJournal ==
  /\ Return("failed")
  /\ tmp' = {}

\* WriteFile(markerTemporary, journal)
WriteJournal ==
  /\ pc = "journal"
  /\ \/ Works /\ Goto("journalRename") /\ UNCHANGED <<tmp, outcome>>
     \/ Fails /\ AbandonJournal
  /\ UNCHANGED <<disk, mode, i, flags, target, txn, history>>

\* The journal of the running transaction.
Entries == [nonce |-> txn, existed |-> existed]

RenameJournal ==
  /\ pc = "journalRename"
  /\ \/ Works /\ PutMarker(Entries) /\ Goto("journalSync")
        /\ UNCHANGED <<tmp, outcome>>
     \/ Fails /\ AbandonJournal /\ UNCHANGED <<marker, markerImages>>
  /\ UNCHANGED <<file, images, mode, i, flags, target, txn, history>>

\* The second failure is RemoveIfPresent(marker): the journal stays.
SyncJournal ==
  /\ pc = "journalSync"
  /\ \/ /\ Works
        /\ SyncDirectory(Root)
        /\ Goto("backup") /\ i' = 1
        /\ UNCHANGED <<marker, tmp, outcome>>
     \/ /\ Fails
        /\ AbandonJournal
        /\ PutMarker(Absent)
        /\ UNCHANGED <<images, i>>
     \/ /\ faults + 1 < MaxFaults /\ faults' = faults + 2
        /\ AbandonJournal
        /\ UNCHANGED <<images, marker, markerImages, i>>
  /\ UNCHANGED <<file, mode, flags, target, txn, history>>

BeginRollback == Goto("rollback") /\ i' = N

\* First loop: Rename(path, backup) for every artifact that existed.
MoveToBackup ==
  /\ pc = "backup"
  /\ \/ /\ i > N
        /\ Goto("publish") /\ i' = 1
        /\ Works /\ UNCHANGED <<file, images, backedUp>>
     \/ /\ i <= N /\ i \notin existed
        /\ i' = i + 1
        /\ Works /\ UNCHANGED <<pc, file, images, backedUp>>
     \/ /\ i <= N /\ i \in existed
        /\ Works
        /\ Put(i, [path |-> Absent,
                   bak  |-> [nonce |-> txn, content |-> file[i].path]])
        /\ backedUp' = backedUp \cup {i}
        /\ Goto("backupSync") /\ UNCHANGED i
     \/ /\ i <= N /\ i \in existed
        /\ Fails /\ BeginRollback /\ UNCHANGED <<file, images, backedUp>>
  /\ UNCHANGED <<marker, markerImages, mode, tmp, existed, committed, target,
                 txn, outcome, history>>

SyncBackup ==
  /\ pc = "backupSync"
  /\ \/ Works /\ SyncDirectory(dirOf[i]) /\ Goto("backup") /\ i' = i + 1
     \/ Fails /\ BeginRollback /\ UNCHANGED <<images, markerImages>>
  /\ UNCHANGED <<file, marker, mode, tmp, flags, target, txn, outcome, history>>

\* Second loop: Rename(temporary, path) for every artifact that stays.
Publish ==
  /\ pc = "publish"
  /\ \/ /\ i > N
        /\ Goto("unmark")
        /\ Works /\ UNCHANGED <<i, file, images, tmp, committed>>
     \/ /\ i <= N /\ target[i] = Absent
        /\ i' = i + 1
        /\ Works /\ UNCHANGED <<pc, file, images, tmp, committed>>
     \/ /\ i <= N /\ target[i] # Absent
        /\ Works
        /\ Put(i, [path |-> target[i], bak |-> file[i].bak])
        /\ tmp' = tmp \ {i}
        /\ committed' = committed \cup {i}
        /\ Goto("publishSync") /\ UNCHANGED i
     \/ /\ i <= N /\ target[i] # Absent
        /\ Fails /\ BeginRollback
        /\ UNCHANGED <<file, images, tmp, committed>>
  /\ UNCHANGED <<marker, markerImages, mode, existed, backedUp, target, txn,
                 outcome, history>>

SyncPublish ==
  /\ pc = "publishSync"
  /\ \/ Works /\ SyncDirectory(dirOf[i]) /\ Goto("publish") /\ i' = i + 1
     \/ Fails /\ BeginRollback /\ UNCHANGED <<images, markerImages>>
  /\ UNCHANGED <<file, marker, mode, tmp, flags, target, txn, outcome, history>>

\* remove(marker): from here the new generation is what a reader gets.
Unmark ==
  /\ pc = "unmark"
  /\ \/ Works /\ PutMarker(Absent) /\ Goto("unmarkSync") /\ UNCHANGED i
     \/ Fails /\ BeginRollback /\ UNCHANGED <<marker, markerImages>>
  /\ UNCHANGED <<file, images, mode, tmp, flags, target, txn, outcome, history>>

\* Mutant: the commit fails without a rollback when the last call fails.
SyncUnmarkGivesUp ==
  /\ pc = "unmarkSync"
  /\ \/ /\ Works /\ SyncDirectory(Root) /\ Goto("finish")
        /\ current' = target /\ UNCHANGED outcome
     \/ /\ Fails /\ Return("failed")
        /\ UNCHANGED <<images, markerImages, current>>
  /\ UNCHANGED <<file, marker, mode, i, tmp, flags, target, txn, ignored, crashes>>

\* SyncDirectory(directory): from here it is also what a stop leaves.
SyncUnmark ==
  /\ pc = "unmarkSync"
  /\ \/ /\ Works
        /\ SyncDirectory(Root)
        /\ Goto("finish")
        /\ current' = target
     \/ /\ Fails
        /\ Goto("rewrite")
        /\ UNCHANGED <<images, markerImages, current>>
  /\ UNCHANGED <<file, marker, mode, i, tmp, flags, target, txn, outcome,
                 ignored, crashes>>

\* The removal of the journal may or may not be durable: write the journal
\* again, ignoring every failure, then roll back.  If the journal does not
\* become durable the rollback runs without one.
RewriteJournal ==
  /\ pc \in {"rewrite", "rewriteRename", "rewriteSync"}
  /\ \/ /\ Works /\ UNCHANGED <<images, marker, markerImages, i, ignored>>
        /\ pc = "rewrite" /\ Goto("rewriteRename")
     \/ /\ Works /\ UNCHANGED <<images, i, ignored>>
        /\ pc = "rewriteRename" /\ PutMarker(Entries) /\ Goto("rewriteSync")
     \/ /\ Works /\ UNCHANGED <<marker, ignored>>
        /\ pc = "rewriteSync" /\ SyncDirectory(Root) /\ BeginRollback
     \/ /\ Fails /\ BeginRollback
        /\ ignored' = ignored \cup {"journal"}
        /\ UNCHANGED <<images, marker, markerImages>>
  /\ UNCHANGED <<file, mode, tmp, flags, target, txn, outcome, current, crashes>>

\* Mutant: the loop of the rollback does not stop at the first artifact.
RollbackUnderrun ==
  /\ pc = "rollback"
  /\ Works
  /\ IF i \in committed
     THEN Put(i, [path |-> Absent, bak |-> file[i].bak])
     ELSE UNCHANGED <<file, images>>
  /\ IF i \in backedUp THEN Goto("rollbackRename") /\ UNCHANGED i
     ELSE i' = i - 1 /\ UNCHANGED pc
  /\ UNCHANGED <<marker, markerImages, mode, tmp, flags, target, txn, outcome,
                 history>>

\* rollback, the last artifact first: remove what was published (the result
\* is ignored) ...
Rollback ==
  /\ pc = "rollback" /\ i # 0
  /\ \/ /\ Works
        /\ IF i \in committed
           THEN Put(i, [path |-> Absent, bak |-> file[i].bak])
           ELSE UNCHANGED <<file, images>>
     \/ /\ Fails
        /\ i \in committed
        /\ UNCHANGED <<file, images>>
  /\ IF i \in backedUp
     THEN Goto("rollbackRename") /\ UNCHANGED i
     ELSE i' = i - 1 /\ UNCHANGED pc
  /\ UNCHANGED <<marker, markerImages, mode, tmp, flags, target, txn, outcome,
                 history>>

\* ... and move the backup back (the result is ignored too).
RollbackRename ==
  /\ pc = "rollbackRename"
  /\ \/ /\ Works
        /\ Put(i, [path |-> file[i].bak.content, bak |-> Absent])
     \/ Fails /\ UNCHANGED <<file, images>>
  /\ Goto("rollback") /\ i' = i - 1
  /\ UNCHANGED <<marker, markerImages, mode, tmp, flags, target, txn, outcome,
                 history>>

\* cleanupTemporary; the call fails, and the journal stays for the next
\* RecoverTransaction.
EndRollback ==
  /\ pc = "rollback" /\ i = 0
  /\ tmp' = {}
  /\ Return("failed")
  /\ UNCHANGED <<disk, mode, i, flags, target, txn, history, faults>>

\* The backups and every leftover are removed (what cannot be stays).
Finish ==
  /\ pc = "finish"
  /\ \E kept \in SUBSET {a \in Artifact : file[a].bak # Absent} :
       /\ IF kept = {} THEN Works ELSE Fails
       /\ DeleteBackups(kept)
  /\ Return("ok")
  /\ UNCHANGED <<marker, markerImages, mode, i, tmp, flags, target, txn, history>>

-----------------------------------------------------------------------------
(* The machine stops at any point; the next process starts from what is
   durable.  A stop between the removal of the journal and its
   synchronization decides the generation: the new one iff the removal was
   durable. *)
Deciding == {"unmarkSync", "rewrite", "rewriteRename", "rewriteSync"}

\* What a stop may leave of the artifacts.
Durable == { f \in [Artifact -> UNION {images[a] : a \in Artifact}] :
               \A a \in Artifact : f[a] \in images[a] }

Crash ==
  /\ crashes < MaxCrashes /\ crashes' = crashes + 1
  /\ \E m \in markerImages, f \in Durable :
       /\ marker' = m /\ markerImages' = {m}
       /\ file' = f /\ images' = [a \in Artifact |-> {f[a]}]
  /\ current' = IF pc \in Deciding /\ marker' = Absent THEN target ELSE current
  /\ pc' = "idle" /\ outcome' = "stopped"
  /\ mode' = "load" /\ i' = 0 /\ tmp' = {}
  /\ existed' = {} /\ backedUp' = {} /\ committed' = {}
  /\ UNCHANGED <<target, txn, ignored, faults>>

Step ==
  \/ FindMarker \/ RecoverRemove \/ RecoverRestore \/ RecoverSync
  \/ DropMarker \/ DropSync \/ RemoveLeftovers
  \/ Stage \/ WriteJournal \/ RenameJournal \/ SyncJournal
  \/ MoveToBackup \/ SyncBackup \/ Publish \/ SyncPublish
  \/ Unmark \/ SyncUnmark \/ RewriteJournal
  \/ Rollback \/ RollbackRename \/ EndRollback \/ Finish

Next == BeginLoad \/ BeginCommit \/ Step \/ Crash

Spec == Init /\ [][Next]_vars

\* The call in progress goes on, and the project is opened again and again.
FairSpec == Spec /\ WF_vars(Step) /\ WF_vars(BeginLoad)

-----------------------------------------------------------------------------
(* Properties *)

\* The generation that must be found if the durable journal is m.
Expected(m) == IF pc \in Deciding /\ m = Absent THEN target ELSE current

\* If the machine stopped now, then whatever the file system kept of the
\* unsynchronized calls, RecoverTransaction would give every artifact of one
\* and the same generation: never a mixture of the old and the new one.
OldOrNew ==
  \A m \in markerImages : \A a \in Artifact : \A f \in images[a] :
    Recovered(m, f, a) = Expected(m)[a]

\* CommitArtifacts and RecoverTransaction keep OldOrNew through any number of
\* failing calls and stops, as long as no failure they ignore happened.
Recoverable == ignored = {} => OldOrNew

\* A reader whose RecoverTextArtifactTransaction returned true reads exactly
\* the committed generation, and no backup of it is needed any more.
LoadedIsCommitted ==
  outcome = "loaded" /\ ignored = {} =>
    /\ marker = Absent
    /\ \A a \in Artifact : file[a].path = current[a]

\* What RecoverTransaction would give the next reader, without a stop.
NextReader == [a \in Artifact |-> Recovered(marker, file[a], a)]

Atomic == INSTANCE AtomicGeneration WITH
            store <- NextReader, base <- current, want <- target,
            busy  <- mode = "commit" /\ pc \notin {"idle", "finish"}

\* CommitArtifacts and RecoverTransaction implement AtomicGeneration, as long
\* as no failure they ignore has happened: what the next reader would get
\* changes for all the artifacts in one step, and only as Switch, Acknowledge
\* and Stop allow.
ImplementsAtomicGeneration ==
    Atomic!Init /\ [][ignored' = {} => [Atomic!Next]_(Atomic!vars)]_vars

\* An interrupted transaction does not stay: once the faults and the stops are
\* over, opening the project gets rid of the journal.
JournalResolved == marker # Absent ~> marker = Absent

=============================================================================
