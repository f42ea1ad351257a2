---------------------------- MODULE RecoveryProofs ----------------------------
(***************************************************************************)
(* Recoverable and LoadedIsCommitted, for every number of artifacts, every *)
(* layout of directories, and any number of commits, faults and stops.     *)
(*                                                                         *)
(* The inductive invariant says, for every position in CommitArtifacts and *)
(* RecoverTransaction, which of three situations the disk is in: Quiet (no *)
(* durable journal is needed), Journaled (one durable journal, which       *)
(* undoes everything) or deciding (the new generation is complete and the  *)
(* journal may or may not be durable).                                     *)
(***************************************************************************)
EXTENDS ArtifactTransactionProofs

-----------------------------------------------------------------------------
(* Data: how the durable states relate to the committed generation. *)

\* The state a process sees is one of the states a stop may leave.
Visible == marker \in markerImages /\ \A a \in Artifact : file[a] \in images[a]

\* Nonces are handed out in order; before its journal is published, nothing
\* bears the nonce of the running commit.
BeforeJournal ==
  Finding \cup {"stage", "journal", "journalRename"}

NonceBound == IF mode = "commit" /\ pc \in BeforeJournal THEN txn ELSE txn + 1

NonceInv ==
  /\ \A m \in markerImages : m # Absent => m.nonce < NonceBound
  /\ \A a \in Artifact : \A f \in images[a] :
       f.bak # Absent => f.bak.nonce < NonceBound

\* No journal is needed: every state that may be found has the canonical
\* files of the committed generation, and no journal would undo that.
Quiet ==
  /\ \A a \in Artifact : \A f \in images[a] : f.path = current[a]
  /\ \A m \in markerImages : m # Absent =>
       \A a \in Artifact :
         /\ a \notin m.existed => current[a] = Absent
         /\ \A f \in images[a] : ~Live(f, m)

\* The journal m undoes whatever was done to artifact a.
Undoes(m, f, a) ==
  /\ Recovered(m, f, a) = current[a]
  /\ Live(f, m) => a \in m.existed

\* The journal is durable, and undoes whatever was done to the files.
Journaled ==
  /\ marker # Absent
  /\ markerImages = {marker}
  /\ \A a \in Artifact : \A f \in images[a] : Undoes(marker, f, a)

\* Artifact a needs nothing more from the journal.
Settled(a) ==
  /\ a \notin marker.existed => current[a] = Absent
  /\ \A f \in images[a] : f.path = current[a] /\ ~Live(f, marker)

\* The files that can be found are those of the new generation.
Published(a) == \A f \in images[a] : f.path = target[a]
Cleared(a)   == \A f \in images[a] : f.path = Absent

Existing == {a \in Artifact : current[a] # Absent}
Saved(a) == file[a].bak = [nonce |-> txn, content |-> current[a]]

Idle == pc = "idle" => Quiet \/ Journaled

RecoverInv ==
  /\ pc \in {"find"} \cup Recovering => Quiet \/ Journaled
  /\ pc \in Recovering => \A a \in Artifact : a > i => Settled(a)
  /\ pc = "recoverSync" =>
       /\ i \notin marker.existed => current[i] = Absent
       /\ file[i].path = current[i] /\ ~Live(file[i], marker)
  /\ pc \in {"dropSync", "leftovers"} => Quiet /\ marker = Absent

JournalInv ==
  /\ pc \in {"stage", "journal", "journalRename", "journalSync"} => Quiet
  /\ pc \in {"stage", "journal", "journalRename"} => marker = Absent
  /\ pc = "stage" => existed = {a \in Existing : a < i}
  /\ pc \in {"journal", "journalRename", "journalSync"} => existed = Existing
  /\ pc = "journalSync" => marker = Entries

PreparedInv ==
  /\ pc \in Prepared => Journaled /\ marker = Entries
  /\ pc \in Prepared \cup Deciding =>
       existed = Existing /\ \A a \in backedUp : Saved(a)
  /\ pc = "backup" => backedUp = {a \in existed : a < i}
  /\ pc = "backupSync" => backedUp = {a \in existed : a <= i} /\ i \in existed
  /\ pc \in {"backup", "backupSync"} =>
       \A a \in existed \ backedUp : file[a].path = current[a]
  /\ pc \in {"backup", "backupSync"} =>
       \A a \in Artifact : a < i \/ a \notin existed => Cleared(a)
  /\ pc = "backupSync" => file[i].path = Absent
  /\ pc \in {"publish", "publishSync", "unmark"} \cup Deciding => backedUp = existed
  /\ pc \in {"publish", "publishSync"} =>
       \A a \in Artifact : (a < i => Published(a)) /\ (a > i => Cleared(a))
  /\ pc = "publish" => \A a \in Artifact : a = i => Cleared(a)
  /\ pc = "publishSync" => file[i].path = target[i]
  /\ pc \in {"unmark"} \cup Deciding => \A a \in Artifact : Published(a)

DecidingInv ==
  pc \in Deciding =>
    /\ markerImages \subseteq {Entries, Absent}
    /\ marker = IF pc = "rewriteSync" THEN Entries ELSE Absent
    /\ \A a \in Artifact : \A f \in images[a] : Undoes(Entries, f, a)

UndoInv ==
  pc \in Undoing =>
    /\ Journaled /\ marker = Entries
    /\ backedUp \subseteq existed
    /\ committed \cap existed \subseteq backedUp
    /\ \A a \in backedUp : a <= i => Saved(a)

CommittedInv ==
  /\ pc \in {"backup", "backupSync"} => committed = {}
  /\ pc = "finish" => Quiet /\ marker = Absent
  /\ outcome = "loaded" => pc = "idle" /\ Quiet /\ marker = Absent

PhaseInv ==
  /\ Idle /\ RecoverInv /\ JournalInv /\ PreparedInv /\ DecidingInv
  /\ UndoInv /\ CommittedInv

DataInv == Visible /\ NonceInv /\ PhaseInv

IInv == TypeOK /\ ControlInv /\ (ignored = {} => DataInv)

-----------------------------------------------------------------------------
(* How the three situations survive a change of the images *)

\* Fewer images: a SyncDirectory.
Narrower ==
  /\ \A b \in Artifact : images'[b] \subseteq images[b]
  /\ markerImages' \subseteq markerImages
  /\ Visible'
  /\ UNCHANGED <<file, marker, txn, mode>>

\* A SyncDirectory only removes images, and never the visible state.
LEMMA SyncNarrows ==
  ASSUME TypeOK, Visible, NEW d, SyncDirectory(d), UNCHANGED <<file, marker, txn, mode>>
  PROVE  Narrower
<1>1. \A b \in Artifact : images'[b] \subseteq images[b] /\ file'[b] \in images'[b]
  BY SyncEffect DEF TypeOK, Visible
<1>2. markerImages' \subseteq markerImages /\ marker' \in markerImages'
  BY SyncEffect DEF TypeOK, Visible
<1> QED BY <1>1, <1>2 DEF Narrower, Visible

\* Each of the three situations survives the loss of images.
LEMMA NarrowKeeps ==
  ASSUME Narrower, current' = current
  PROVE  /\ Quiet => Quiet'
         /\ Journaled => Journaled'
         /\ target' = target =>
              \A a \in Artifact : (Published(a) => Published(a)') /\ (Cleared(a) => Cleared(a)')
         /\ \A a \in Artifact : Settled(a) => Settled(a)'
<1>1. Quiet => Quiet'
  BY DEF Narrower, Quiet, Live
<1>2. Journaled => Journaled'
  BY DEF Narrower, Journaled, Visible, Undoes, Recovered, Live
<1>3. \A a \in Artifact : Settled(a) => Settled(a)'
  BY DEF Narrower, Settled, Live
<1>4. target' = target =>
        \A a \in Artifact : (Published(a) => Published(a)') /\ (Cleared(a) => Cleared(a)')
  BY DEF Narrower, Published, Cleared
<1> QED BY <1>1, <1>2, <1>3, <1>4

\* The nonces stay below the bound when nothing with a larger one appears.
LEMMA NonceKeeps ==
  ASSUME TypeOK, TypeOK', NonceInv, NonceBound' >= NonceBound,
         \A m \in markerImages' \ markerImages : m # Absent => m.nonce < NonceBound',
         \A b \in Artifact : \A f \in images'[b] \ images[b] :
           f.bak # Absent => f.bak.nonce < NonceBound'
  PROVE  NonceInv'
<1>1. NonceBound \in Nat /\ NonceBound' \in Nat
  <2>1. NonceBound \in {txn, txn + 1}
    BY DEF NonceBound
  <2>2. NonceBound' \in {txn', txn' + 1}
    BY DEF NonceBound
  <2>3. txn \in Nat /\ txn' \in Nat
    BY DEF TypeOK, CallOK
  <2> QED BY <2>1, <2>2, <2>3
<1>2. ASSUME NEW m \in markerImages', m # Absent PROVE m.nonce < NonceBound'
  <2>1. m.nonce \in Nat
    BY <1>2 DEF TypeOK, MarkersOK, Journal
  <2> QED BY <1>1, <1>2, <2>1 DEF NonceInv
<1>3. ASSUME NEW b \in Artifact, NEW f \in images'[b], f.bak # Absent
      PROVE  f.bak.nonce < NonceBound'
  <2>1. f.bak.nonce \in Nat
    BY <1>3, FileFields DEF TypeOK, FilesOK
  <2> QED BY <1>1, <1>3, <2>1 DEF NonceInv
<1> QED BY <1>2, <1>3 DEF NonceInv

\* One more image of one artifact, which the journal undoes as well.
LEMMA JournaledGrows ==
  ASSUME Journaled, NEW f, Becomes(f), Undoes(marker, f, i),
         UNCHANGED <<marker, markerImages, current>>
  PROVE  Journaled'
BY DEF Journaled, Becomes, Undoes, Recovered, Live

\* The visible state stays one of the images when one artifact changes.
LEMMA BecomesVisible ==
  ASSUME Visible, NEW f, Becomes(f), UNCHANGED <<marker, markerImages>>
  PROVE  Visible'
BY DEF Visible, Becomes

-----------------------------------------------------------------------------
(* RecoverTransaction *)

\* The start of a reader or of a commit changes nothing on disk.
LEMMA BeginData ==
  ASSUME TypeOK, TypeOK', DataInv, BeginLoad \/ BeginCommit
  PROVE  DataInv'
<1> USE DEF disk, flags, history, Goto
<1>1. UNCHANGED <<disk, current>> /\ pc = "idle" /\ pc' = "find" /\ outcome' = "none"
  BY DEF BeginLoad, BeginCommit
<1>2. Visible' /\ (Quiet => Quiet') /\ (Journaled => Journaled')
  BY <1>1 DEF DataInv, Visible, Quiet, Journaled, Undoes, Recovered, Live
<1>3. NonceInv'
  <2>1. txn \in Nat
    BY DEF TypeOK, CallOK
  <2>2. NonceBound = txn + 1 /\ NonceBound' = txn + 1
    BY <2>1 DEF NonceBound, BeforeJournal, Finding, Recovering, BeginLoad, BeginCommit
  <2>3. NonceBound' >= NonceBound
    BY <2>1, <2>2
  <2> QED BY <1>1, <2>3, NonceKeeps DEF DataInv
<1> QED BY <1>1, <1>2, <1>3 DEF DataInv, PhaseInv, Idle, RecoverInv, JournalInv,
      PreparedInv, DecidingInv, UndoInv, CommittedInv, Prepared, Deciding, Undoing,
      Recovering

\* A step of RecoverTransaction or before the journal keeps the bound.
LEMMA BoundKeeps ==
  ASSUME TypeOK, UNCHANGED <<txn, mode>>, pc' \in BeforeJournal => pc \in BeforeJournal
  PROVE  NonceBound' >= NonceBound /\ NonceBound' \in {txn, txn + 1}
         /\ NonceBound \in {txn, txn + 1}
<1>1. txn \in Nat
  BY DEF TypeOK, CallOK
<1>2. NonceBound' = NonceBound \/ (NonceBound = txn /\ NonceBound' = txn + 1)
  BY DEF NonceBound
<1>3. NonceBound \in {txn, txn + 1}
  BY DEF NonceBound
<1> QED BY <1>1, <1>2, <1>3

\* Nor does a step whose new entries keep the backup or have none.
LEMMA OldBackup ==
  ASSUME TypeOK, TypeOK', Visible, NonceInv, UNCHANGED <<txn, mode, markerImages>>,
         pc' \in BeforeJournal => pc \in BeforeJournal,
         \A b \in Artifact : \A g \in images'[b] \ images[b] :
           g.bak = Absent \/ \E c \in Artifact : g.bak = file[c].bak
  PROVE  NonceInv'
<1>1. /\ NonceBound' >= NonceBound
      /\ NonceBound' \in Nat /\ NonceBound \in Nat
  BY BoundKeeps DEF TypeOK, CallOK
<1>2. ASSUME NEW c \in Artifact, file[c].bak # Absent
      PROVE  file[c].bak.nonce < NonceBound'
  <2>1. file[c].bak.nonce \in Nat
    BY <1>2, FileFields DEF TypeOK, FilesOK
  <2>2. file[c].bak.nonce < NonceBound
    BY <1>2 DEF NonceInv, Visible
  <2> QED BY <1>1, <2>1, <2>2
<1>3. \A b \in Artifact : \A g \in images'[b] \ images[b] :
        g.bak # Absent => g.bak.nonce < NonceBound'
  BY <1>2
<1> QED BY <1>1, <1>3, NonceKeeps

\* Finding no journal means Quiet; finding one starts the recovery.
LEMMA FindMarkerData ==
  ASSUME TypeOK, TypeOK', DataInv, FindMarker
  PROVE  DataInv'
<1> USE DEF disk, flags, history, Goto, Return, Works, Fails
<1>1. /\ UNCHANGED <<disk, current, txn, mode, target>> /\ pc = "find"
      /\ pc' \in {"leftovers", "recover", "idle"}
      /\ pc' = "leftovers" => marker = Absent
      /\ pc' = "recover" => i' = N
      /\ outcome' # "loaded"
  BY DEF FindMarker, DataInv, PhaseInv, CommittedInv
<1>2. Visible' /\ (Quiet => Quiet') /\ (Journaled => Journaled')
  BY <1>1 DEF DataInv, Visible, Quiet, Journaled, Undoes, Recovered, Live
<1>3. NonceInv'
  BY <1>1, NonceKeeps, BoundKeeps DEF DataInv, BeforeJournal, Finding, Recovering
<1>4. Quiet' \/ Journaled'
  BY <1>1, <1>2 DEF DataInv, PhaseInv, RecoverInv
<1>5. pc' = "recover" => \A a \in Artifact : ~(a > i')
  BY <1>1, ConstantsAssumption DEF Artifact
<1>6. pc' = "leftovers" => Quiet' /\ marker' = Absent
  BY <1>1, <1>4 DEF Journaled
<1> QED BY <1>1, <1>2, <1>3, <1>4, <1>5, <1>6 DEF DataInv, PhaseInv, Idle,
      RecoverInv, JournalInv, PreparedInv, DecidingInv, UndoInv, CommittedInv,
      Prepared, Deciding, Undoing, Recovering

\* Removing a canonical file keeps what the journal undoes.
LEMMA RecoverRemoveData ==
  ASSUME TypeOK, ControlInv, TypeOK', DataInv, RecoverRemove, ignored = {}, ignored' = {}
  PROVE  DataInv'
<1> USE DEF disk, flags, history, Goto, Return, Works, Fails
<1>1. /\ UNCHANGED <<marker, markerImages, current, txn, mode, target, i>>
      /\ pc = "recover" /\ pc' \in {"restore", "recoverSync", "idle"}
      /\ outcome' # "loaded"
      /\ i \in Artifact /\ file[i] \in images[i] /\ file[i] \in File
      /\ marker # Absent /\ marker \in markerImages
  BY ConstantsAssumption DEF RecoverRemove, DataInv, PhaseInv, CommittedInv, ControlInv, IndexInv,
     Recovering, Artifact, Visible, TypeOK, FilesOK
<1> DEFINE f == [path |-> Absent, bak |-> file[i].bak]
<1>2. Quiet \/ Journaled
  BY <1>1 DEF DataInv, PhaseInv, RecoverInv, Recovering
<1>3. Live(f, marker) = Live(file[i], marker)
  BY DEF Live
<1>4. \/ UNCHANGED <<file, images>>
      \/ Becomes(f) /\ (Live(file[i], marker) \/ i \notin marker.existed)
  <2>1. Put(i, f) => Becomes(f)
    BY <1>1, PutBecomes, FileFields DEF TypeOK, Content
  <2> QED BY <2>1 DEF RecoverRemove
<1>5. Quiet => UNCHANGED <<file, images>>
  <2> SUFFICES ASSUME Quiet, Becomes(f), Live(file[i], marker) \/ i \notin marker.existed
               PROVE  UNCHANGED <<file, images>>
    BY <1>4
  <2>1. current[i] = Absent /\ file[i].path = Absent
    BY <1>1 DEF Quiet
  <2>2. f = file[i]
    BY <1>1, <2>1 DEF File
  <2>3. \A b \in Artifact : file'[b] = file[b] /\ images'[b] = images[b]
    BY <1>1, <2>2 DEF Becomes
  <2> QED BY <2>3 DEF TypeOK, FilesOK
<1>6. Visible'
  BY <1>1, <1>4, BecomesVisible DEF DataInv, Visible
<1>7. NonceInv'
  <2>1. \A b \in Artifact : \A g \in images'[b] \ images[b] : g.bak = file[i].bak
    BY <1>4 DEF Becomes
  <2> QED BY <1>1, <2>1, OldBackup DEF DataInv, BeforeJournal, Finding, Recovering
<1>8. Quiet' \/ Journaled'
  <2>1. CASE Quiet
    BY <1>1, <1>5, <2>1 DEF Quiet, Live
  <2>2. CASE Journaled
    <3>1. Undoes(marker, file[i], i)
      BY <1>1, <2>2 DEF Journaled
    <3>2. Live(file[i], marker) \/ i \notin marker.existed => Undoes(marker, f, i)
      BY <1>1, <1>3, <3>1 DEF Undoes, Recovered
    <3>3. UNCHANGED <<file, images>> => Journaled'
      BY <1>1, <2>2 DEF Journaled, Undoes, Recovered, Live
    <3> QED BY <1>1, <1>4, <2>2, <3>2, <3>3, JournaledGrows
  <2> QED BY <1>2, <2>1, <2>2
<1>9. \A a \in Artifact : a > i => Settled(a)'
  <2>1. \A a \in Artifact : a > i => Settled(a) /\ images'[a] = images[a]
    BY <1>1, <1>4, ConstantsAssumption DEF Becomes, DataInv, PhaseInv, RecoverInv, Recovering, Artifact
  <2> QED BY <1>1, <2>1 DEF Settled, Live
<1>10. pc' = "recoverSync" =>
         /\ i \notin marker.existed => current[i] = Absent
         /\ file'[i].path = current[i] /\ ~Live(file'[i], marker)
  <2> SUFFICES ASSUME pc' = "recoverSync"
               PROVE  /\ i \notin marker.existed => current[i] = Absent
                      /\ file'[i].path = current[i] /\ ~Live(file'[i], marker)
    OBVIOUS
  <2>1. ~Live(file[i], marker)
    BY DEF RecoverRemove
  <2>2. /\ i \notin marker.existed => current[i] = Absent
        /\ i \in marker.existed => file[i].path = current[i]
    BY <1>1, <1>2, <2>1 DEF Quiet, Journaled, Undoes, Recovered
  <2>3. i \notin marker.existed => file'[i].path = Absent
    BY <1>1, <2>1 DEF RecoverRemove, Put, TypeOK, FilesOK
  <2>4. i \in marker.existed => file' = file
    BY <1>4, <2>1
  <2>5. ~Live(file'[i], marker)
    BY <1>3, <1>4, <2>1 DEF Becomes
  <2> QED BY <2>2, <2>3, <2>4, <2>5
<1> QED BY <1>1, <1>6, <1>7, <1>8, <1>9, <1>10 DEF DataInv, PhaseInv, Idle,
      RecoverInv, JournalInv, PreparedInv, DecidingInv, UndoInv, CommittedInv,
      Prepared, Deciding, Undoing, Recovering

\* Restoring a backup gives the committed content.
LEMMA RecoverRestoreData ==
  ASSUME TypeOK, ControlInv, TypeOK', DataInv, RecoverRestore
  PROVE  DataInv'
<1> USE DEF disk, flags, history, Goto, Return, Works, Fails
<1>1. /\ UNCHANGED <<marker, markerImages, current, txn, mode, target, i>>
      /\ pc = "restore" /\ pc' \in {"recoverSync", "idle"}
      /\ outcome' # "loaded"
      /\ i \in Artifact /\ file[i] \in images[i] /\ file[i] \in File
      /\ marker # Absent /\ marker \in markerImages /\ Live(file[i], marker)
  BY DEF RecoverRestore, DataInv, PhaseInv, CommittedInv, ControlInv, IndexInv,
     Recovering, Visible, TypeOK, FilesOK
<1> DEFINE f == [path |-> file[i].bak.content, bak |-> Absent]
<1>2. Journaled /\ file[i].bak.content = current[i]
  <2>1. ~Quiet
    BY <1>1 DEF Quiet
  <2>2. Journaled
    BY <1>1, <2>1 DEF DataInv, PhaseInv, RecoverInv, Recovering
  <2> QED BY <1>1, <2>2 DEF Journaled, Undoes, Recovered
<1>3. \/ UNCHANGED <<file, images>> /\ pc' = "idle"
      \/ Becomes(f) /\ pc' = "recoverSync"
  <2>1. Put(i, f) => Becomes(f)
    BY <1>1, PutBecomes, FileFields DEF TypeOK, Live
  <2> QED BY <2>1 DEF RecoverRestore
<1>4. Visible'
  BY <1>1, <1>3, BecomesVisible DEF DataInv, Visible
<1>5. NonceInv'
  <2>1. \A b \in Artifact : \A g \in images'[b] \ images[b] : g.bak = Absent
    BY <1>3 DEF Becomes
  <2> QED BY <1>1, <2>1, OldBackup DEF DataInv, BeforeJournal, Finding, Recovering
<1>6. ~Live(f, marker) /\ f.path = current[i]
  BY <1>2 DEF Live
<1>7. i \in marker.existed
  BY <1>1, <1>2 DEF Journaled, Undoes
<1>8. Undoes(marker, f, i)
  BY <1>1, <1>6, <1>7 DEF Undoes, Recovered
<1>9. Journaled'
  <2>1. UNCHANGED <<file, images>> => Journaled'
    BY <1>1, <1>2 DEF Journaled, Undoes, Recovered, Live
  <2> QED BY <1>1, <1>2, <1>3, <1>8, <2>1, JournaledGrows
<1>10. \A a \in Artifact : a > i => Settled(a)'
  <2>1. \A a \in Artifact : a > i => Settled(a) /\ images'[a] = images[a]
    BY <1>1, <1>3, ConstantsAssumption DEF Becomes, DataInv, PhaseInv, RecoverInv,
       Recovering, Artifact
  <2> QED BY <1>1, <2>1 DEF Settled, Live
<1>11. pc' = "recoverSync" => file'[i] = f
  BY <1>3 DEF Becomes
<1>12. pc' = "recoverSync" => file'[i].path = current[i] /\ ~Live(file'[i], marker)
  BY <1>6, <1>11
<1> QED BY <1>1, <1>4, <1>5, <1>7, <1>9, <1>10, <1>12 DEF DataInv, PhaseInv, Idle,
      RecoverInv, JournalInv, PreparedInv, DecidingInv, UndoInv, CommittedInv,
      Prepared, Deciding, Undoing, Recovering

\* Once its directory is synchronized, artifact i needs no journal.
LEMMA RecoverSyncData ==
  ASSUME TypeOK, ControlInv, TypeOK', DataInv, RecoverSync
  PROVE  DataInv'
<1> USE DEF disk, flags, history, Goto, Return, Works, Fails
<1>1. /\ UNCHANGED <<file, marker, current, txn, mode, target>>
      /\ pc = "recoverSync" /\ pc' \in {"recover", "idle"}
      /\ outcome' # "loaded" /\ i \in Artifact /\ marker # Absent
  BY DEF RecoverSync, DataInv, PhaseInv, CommittedInv, ControlInv, IndexInv, Recovering
<1>2. Narrower
  <2>1. UNCHANGED <<images, markerImages>> => Narrower
    BY <1>1 DEF Narrower, DataInv, Visible
  <2> QED BY <1>1, <2>1, SyncNarrows DEF RecoverSync, DataInv
<1>3. Visible' /\ (Quiet' \/ Journaled')
  BY <1>1, <1>2, NarrowKeeps DEF Narrower, DataInv, PhaseInv, RecoverInv, Recovering
<1>4. NonceInv'
  BY <1>1, <1>2, NonceKeeps, BoundKeeps DEF Narrower, DataInv, BeforeJournal, Finding,
     Recovering
<1>5. pc' = "recover" => \A a \in Artifact : a > i' => Settled(a)'
  <2> SUFFICES ASSUME pc' = "recover", NEW a \in Artifact, a > i' PROVE Settled(a)'
    OBVIOUS
  <2>1. i' = i - 1 /\ SyncDirectory(dirOf[i])
    BY DEF RecoverSync
  <2>2. CASE a = i
    <3>1. images'[i] = {file[i]}
      BY <1>1, <2>1, SyncEffect DEF TypeOK
    <3> QED BY <1>1, <2>2, <3>1 DEF Settled, DataInv, PhaseInv, RecoverInv, Live
  <2>3. CASE a > i
    BY <1>1, <1>2, <2>3, NarrowKeeps DEF DataInv, PhaseInv, RecoverInv, Recovering
  <2> QED BY <1>1, <2>1, <2>2, <2>3, ConstantsAssumption DEF Artifact
<1> QED BY <1>1, <1>3, <1>4, <1>5 DEF DataInv, PhaseInv, Idle,
      RecoverInv, JournalInv, PreparedInv, DecidingInv, UndoInv, CommittedInv,
      Prepared, Deciding, Undoing, Recovering

\* When every artifact is settled the journal may go.
LEMMA DropMarkerData ==
  ASSUME TypeOK, ControlInv, TypeOK', DataInv, DropMarker
  PROVE  DataInv'
<1> USE DEF disk, flags, history, Goto, Return, Works, Fails
<1>1. /\ UNCHANGED <<file, images, current, txn, mode, target>>
      /\ pc = "recover" /\ i = 0 /\ pc' \in {"dropSync", "idle"}
      /\ outcome' # "loaded" /\ marker # Absent
      /\ pc' = "idle" => UNCHANGED <<marker, markerImages>>
      /\ pc' = "dropSync" => marker' = Absent /\ markerImages' = markerImages \cup {Absent}
  BY DEF DropMarker, DataInv, PhaseInv, CommittedInv, ControlInv, Recovering, PutMarker
<1>2. \A a \in Artifact : Settled(a)
  BY <1>1 DEF DataInv, PhaseInv, RecoverInv, Recovering, Artifact
<1>3. Quiet
  <2>1. CASE Journaled
    BY <1>2, <2>1 DEF Quiet, Journaled, Settled
  <2> QED BY <1>1, <2>1 DEF DataInv, PhaseInv, RecoverInv, Recovering
<1>4. Visible' /\ Quiet'
  BY <1>1, <1>3 DEF Visible, Quiet, DataInv, Live
<1>5. NonceInv'
  BY <1>1, NonceKeeps, BoundKeeps DEF DataInv, BeforeJournal, Finding, Recovering
<1> QED BY <1>1, <1>4, <1>5 DEF DataInv, PhaseInv, Idle,
      RecoverInv, JournalInv, PreparedInv, DecidingInv, UndoInv, CommittedInv,
      Prepared, Deciding, Undoing, Recovering

\* The synchronized removal of the journal leaves a quiet package.
LEMMA DropSyncData ==
  ASSUME TypeOK, ControlInv, TypeOK', DataInv, DropSync
  PROVE  DataInv'
<1> USE DEF disk, flags, history, Goto, Return, Works, Fails
<1>1. /\ UNCHANGED <<file, marker, current, txn, mode, target>>
      /\ pc = "dropSync" /\ pc' \in {"leftovers", "idle"}
      /\ outcome' # "loaded"
  BY DEF DropSync, DataInv, PhaseInv, CommittedInv
<1>2. Narrower
  <2>1. UNCHANGED <<images, markerImages>> => Narrower
    BY <1>1 DEF Narrower, DataInv, Visible
  <2> QED BY <1>1, <2>1, SyncNarrows DEF DropSync, DataInv
<1>3. Visible' /\ Quiet' /\ marker' = Absent
  BY <1>1, <1>2, NarrowKeeps DEF Narrower, DataInv, PhaseInv, RecoverInv
<1>4. NonceInv'
  BY <1>1, <1>2, NonceKeeps, BoundKeeps DEF Narrower, DataInv, BeforeJournal, Finding,
     Recovering
<1> QED BY <1>1, <1>3, <1>4 DEF DataInv, PhaseInv, Idle,
      RecoverInv, JournalInv, PreparedInv, DecidingInv, UndoInv, CommittedInv,
      Prepared, Deciding, Undoing, Recovering

\* Deleting backups while no journal needs them changes nothing.
LEMMA QuietDeletes ==
  ASSUME TypeOK, TypeOK', Visible, NonceInv, Quiet, NEW kept, DeleteBackups(kept),
         UNCHANGED <<marker, markerImages, current, txn, mode>>,
         pc' \in BeforeJournal => pc \in BeforeJournal
  PROVE  Visible' /\ NonceInv' /\ Quiet'
<1>1. \A b \in Artifact :
        /\ file'[b] \in {file[b], [path |-> file[b].path, bak |-> Absent]}
        /\ images'[b] = images[b] \cup {file'[b]}
  BY DeleteEffect DEF TypeOK
<1>2. Visible'
  BY <1>1 DEF Visible
<1>3. \A b \in Artifact : \A g \in images'[b] \ images[b] : g.bak = Absent /\ g.path = file[b].path
  BY <1>1 DEF Visible
<1>4. NonceInv'
  BY <1>3, OldBackup
<1>5. Quiet'
  <2>1. \A a \in Artifact : \A f \in images'[a] : f.path = current[a]
    BY <1>1, <1>3 DEF Quiet, Visible
  <2>2. ASSUME NEW m \in markerImages, m # Absent, NEW a \in Artifact, NEW f \in images'[a]
        PROVE  ~Live(f, m)
    BY <1>1, <1>3, <2>2 DEF Quiet, Live
  <2> QED BY <2>1, <2>2 DEF Quiet, Live
<1> QED BY <1>2, <1>4, <1>5

\* Deleting leftovers keeps the package quiet.
LEMMA RemoveLeftoversData ==
  ASSUME TypeOK, ControlInv, TypeOK', DataInv, RemoveLeftovers
  PROVE  DataInv'
<1> USE DEF disk, flags, history, Goto, Return, Works, Fails
<1>1. /\ UNCHANGED <<marker, markerImages, current, txn, mode, target, existed>>
      /\ pc = "leftovers" /\ pc' \in {"stage", "idle"}
      /\ outcome' = "loaded" => pc' = "idle"
      /\ pc' = "stage" => i' = 1 /\ mode = "commit"
  BY DEF RemoveLeftovers, DataInv, PhaseInv, CommittedInv, TypeOK, CallOK
<1>2. Quiet /\ marker = Absent
  BY <1>1 DEF DataInv, PhaseInv, RecoverInv
<1>3. Visible' /\ NonceInv' /\ Quiet'
  BY <1>1, <1>2, QuietDeletes DEF RemoveLeftovers, DataInv, BeforeJournal, Finding
<1>4. pc' = "stage" => existed' = {a \in Existing' : a < i'}
  <2>1. pc' = "stage" => existed' = {}
    BY <1>1 DEF ControlInv, Finding
  <2>2. \A a \in Artifact : ~(a < 1)
    BY ConstantsAssumption DEF Artifact
  <2> QED BY <1>1, <2>1, <2>2 DEF Existing
<1> QED BY <1>1, <1>2, <1>3, <1>4 DEF DataInv, PhaseInv, Idle,
      RecoverInv, JournalInv, PreparedInv, DecidingInv, UndoInv, CommittedInv,
      Prepared, Deciding, Undoing, Recovering

\* Deleting the backups of a finished commit keeps the package quiet.
LEMMA FinishData ==
  ASSUME TypeOK, ControlInv, TypeOK', DataInv, Finish
  PROVE  DataInv'
<1> USE DEF disk, flags, history, Goto, Return, Works, Fails
<1>1. /\ UNCHANGED <<marker, markerImages, current, txn, mode, target>>
      /\ pc = "finish" /\ pc' = "idle" /\ outcome' = "ok"
  BY DEF Finish
<1>2. Visible' /\ NonceInv' /\ Quiet'
  BY <1>1, QuietDeletes DEF Finish, DataInv, PhaseInv, CommittedInv, BeforeJournal,
     Finding, Recovering
<1> QED BY <1>1, <1>2 DEF DataInv, PhaseInv, Idle,
      RecoverInv, JournalInv, PreparedInv, DecidingInv, UndoInv, CommittedInv,
      Prepared, Deciding, Undoing, Recovering

-----------------------------------------------------------------------------
(* CommitArtifacts up to the journal *)

\* The disk does not change.
LEMMA SameDisk ==
  ASSUME TypeOK, TypeOK', Visible, NonceInv, UNCHANGED <<disk, current, txn, mode>>,
         pc' \in BeforeJournal => pc \in BeforeJournal
  PROVE  /\ Visible' /\ NonceInv'
         /\ Quiet => Quiet'
         /\ Journaled => Journaled'
<1> USE DEF disk
<1>1. NonceInv'
  BY NonceKeeps, BoundKeeps
<1>2. Visible' /\ (Quiet => Quiet') /\ (Journaled => Journaled')
  BY DEF Visible, Quiet, Journaled, Undoes, Recovered, Live
<1> QED BY <1>1, <1>2

\* Staging changes no artifact and notes which ones exist.
LEMMA StageData ==
  ASSUME TypeOK, ControlInv, TypeOK', DataInv, Stage
  PROVE  DataInv'
<1> USE DEF disk, flags, history, Goto, Return, Works, Fails
<1>1. /\ UNCHANGED <<disk, current, txn, mode, target>>
      /\ pc = "stage" /\ pc' \in {"stage", "journal", "idle"}
      /\ outcome' # "loaded"
      /\ Quiet /\ marker = Absent /\ existed = {a \in Existing : a < i}
  BY DEF Stage, DataInv, PhaseInv, CommittedInv, JournalInv
<1>2. Visible' /\ NonceInv' /\ Quiet'
  BY <1>1, SameDisk DEF DataInv, BeforeJournal
<1>3. Existing' = Existing
  BY <1>1 DEF Existing
<1>4. pc' = "stage" => existed' = {a \in Existing' : a < i'}
  <2> SUFFICES ASSUME pc' = "stage" PROVE existed' = {a \in Existing : a < i'}
    BY <1>3
  <2>1. /\ i' = i + 1 /\ i \in Artifact
        /\ existed' = IF file[i].path # Absent THEN existed \cup {i} ELSE existed
    BY <1>1, ConstantsAssumption DEF Stage, ControlInv, IndexInv, Artifact
  <2>2. file[i].path = current[i]
    BY <1>1, <2>1 DEF Quiet, DataInv, Visible
  <2>3. \A a \in Artifact : a < i + 1 <=> a < i \/ a = i
    BY <2>1, ConstantsAssumption DEF Artifact
  <2> QED BY <1>1, <2>1, <2>2, <2>3 DEF Existing
<1>5. pc' = "journal" => existed' = Existing'
  <2>1. pc' = "journal" => i > N /\ existed' = existed
    BY <1>1 DEF Stage
  <2>2. i > N => \A a \in Artifact : a < i
    BY ConstantsAssumption DEF Artifact, TypeOK, CallOK
  <2> QED BY <1>1, <1>3, <2>1, <2>2 DEF Existing
<1> QED BY <1>1, <1>2, <1>4, <1>5 DEF disk, DataInv, PhaseInv, Idle,
      RecoverInv, JournalInv, PreparedInv, DecidingInv, UndoInv, CommittedInv,
      Prepared, Deciding, Undoing, Recovering

\* Writing the journal's temporary changes no artifact.
LEMMA WriteJournalData ==
  ASSUME TypeOK, ControlInv, TypeOK', DataInv, WriteJournal
  PROVE  DataInv'
<1> USE DEF disk, flags, history, Goto, Return, Works, Fails
<1>1. /\ UNCHANGED <<disk, current, txn, mode, target, existed>>
      /\ pc = "journal" /\ pc' \in {"journalRename", "idle"}
      /\ outcome' # "loaded"
      /\ Quiet /\ marker = Absent /\ existed = Existing
  BY DEF WriteJournal, AbandonJournal, DataInv, PhaseInv, CommittedInv, JournalInv
<1>2. Visible' /\ NonceInv' /\ Quiet'
  BY <1>1, SameDisk DEF DataInv, BeforeJournal
<1>3. Existing' = Existing
  BY <1>1 DEF Existing
<1> QED BY <1>1, <1>2, <1>3 DEF DataInv, PhaseInv, Idle,
      RecoverInv, JournalInv, PreparedInv, DecidingInv, UndoInv, CommittedInv,
      Prepared, Deciding, Undoing, Recovering

\* A journal that is published but not synchronized undoes nothing yet.
LEMMA RenameJournalData ==
  ASSUME TypeOK, ControlInv, TypeOK', DataInv, RenameJournal
  PROVE  DataInv'
<1> USE DEF disk, flags, history, Goto, Return, Works, Fails
<1>1. /\ UNCHANGED <<file, images, current, txn, mode, target, existed>>
      /\ pc = "journalRename" /\ mode = "commit" /\ outcome' # "loaded"
      /\ Quiet /\ marker = Absent /\ existed = Existing /\ txn \in Nat
      /\ \/ pc' = "idle" /\ UNCHANGED <<marker, markerImages>>
         \/ /\ pc' = "journalSync" /\ marker' = Entries
            /\ markerImages' = markerImages \cup {Entries}
  BY DEF RenameJournal, PutMarker, AbandonJournal, DataInv, PhaseInv, CommittedInv,
     JournalInv, ControlInv, Committing, Journaling, TypeOK, CallOK
<1>2. NonceBound = txn /\ NonceBound' = txn + 1
  BY <1>1 DEF NonceBound, BeforeJournal, Finding, Recovering
<1>3. Visible'
  BY <1>1 DEF Visible, DataInv
<1>4. NonceInv'
  BY <1>1, <1>2, NonceKeeps DEF DataInv, Entries
<1>5. ASSUME NEW a \in Artifact, NEW f \in images[a] PROVE ~Live(f, Entries)
  <2>1. f.bak # Absent => f.bak.nonce < txn /\ f.bak.nonce \in Nat
    BY <1>2, FileFields DEF DataInv, NonceInv, TypeOK, FilesOK
  <2> QED BY <1>1, <2>1 DEF Live, Entries
<1>6. Quiet'
  BY <1>1, <1>5 DEF Quiet, Live, Entries, Existing
<1>7. Existing' = Existing /\ Entries' = Entries
  BY <1>1 DEF Existing, Entries
<1> QED BY <1>1, <1>3, <1>4, <1>6, <1>7 DEF DataInv, PhaseInv, Idle,
      RecoverInv, JournalInv, PreparedInv, DecidingInv, UndoInv, CommittedInv,
      Prepared, Deciding, Undoing, Recovering

-----------------------------------------------------------------------------
(* From the journal to the commit point *)

\* When the journal is synchronized, it undoes everything.
LEMMA QuietJournaled ==
  ASSUME Quiet, marker # Absent, markerImages = {marker}
  PROVE  Journaled
BY DEF Quiet, Journaled, Undoes, Recovered, Live

\* The synchronized journal undoes whatever the loops will do.
LEMMA SyncJournalData ==
  ASSUME TypeOK, ControlInv, TypeOK', DataInv, SyncJournal
  PROVE  DataInv'
<1> USE DEF disk, flags, history, Goto, Return, Works, Fails
<1>1. /\ UNCHANGED <<file, current, txn, mode, target, existed, backedUp, committed>>
      /\ pc = "journalSync" /\ mode = "commit" /\ outcome' # "loaded"
      /\ Quiet /\ marker = Entries /\ existed = Existing
      /\ backedUp = {} /\ committed = {}
      /\ pc' \in {"idle", "backup"}
  BY DEF SyncJournal, AbandonJournal, DataInv, PhaseInv, CommittedInv,
     JournalInv, ControlInv, Committing, Journaling
<1>2. Entries # Absent /\ Entries' = Entries /\ Existing' = Existing
  <2>1. Entries \in Journal
    BY DEF Entries, Journal, TypeOK, CallOK
  <2> QED BY <1>1, <2>1, AbsentAssumption DEF Entries, Existing
<1>3. CASE pc' = "backup"
  <2>1. SyncDirectory(Root) /\ i' = 1 /\ marker' = marker
    BY <1>3 DEF SyncJournal, AbandonJournal
  <2>2. Narrower
    BY <1>1, <2>1, SyncNarrows DEF DataInv
  <2>3. Visible' /\ Quiet'
    BY <1>1, <2>2, NarrowKeeps DEF Narrower
  <2>4. NonceInv'
    BY <1>1, <1>3, <2>2, NonceKeeps, BoundKeeps DEF Narrower, DataInv, BeforeJournal, Finding,
       Recovering
  <2>5. Journaled'
    <3>1. markerImages' = {marker'}
      BY <2>1, SyncEffect DEF TypeOK
    <3>2. marker' # Absent
      BY <1>1, <1>2, <2>1
    <3> QED BY <2>3, <3>1, <3>2 DEF Quiet, Journaled, Undoes, Recovered, Live
  <2>6. \A a \in Artifact : a \notin existed => Cleared(a)'
    BY <1>1, <2>3 DEF Quiet, Cleared, Existing
  <2>7. \A a \in Artifact : file'[a].path = current'[a] /\ ~(a < i')
    BY <2>1, <2>3, ConstantsAssumption DEF Quiet, Visible, Artifact
  <2>8. existed \subseteq Artifact
    BY DEF TypeOK, CallOK
  <2> QED BY <1>1, <1>2, <1>3, <2>1, <2>3, <2>4, <2>5, <2>6, <2>7, <2>8 DEF DataInv, PhaseInv, Idle,
      RecoverInv, JournalInv, PreparedInv, DecidingInv, UndoInv, CommittedInv,
      Prepared, Deciding, Undoing, Recovering
<1>4. CASE pc' = "idle"
  <2>1. /\ images' = images
        /\ \/ marker' = Absent /\ markerImages' = markerImages \cup {Absent}
           \/ UNCHANGED <<marker, markerImages>>
    BY <1>4 DEF SyncJournal, PutMarker
  <2>2. Visible' /\ Quiet'
    BY <1>1, <2>1 DEF Visible, Quiet, DataInv, Live
  <2>3. NonceInv'
    BY <1>1, <1>4, <2>1, NonceKeeps, BoundKeeps DEF DataInv, BeforeJournal, Finding, Recovering
  <2> QED BY <1>1, <1>4, <2>2, <2>3 DEF DataInv, PhaseInv, Idle,
      RecoverInv, JournalInv, PreparedInv, DecidingInv, UndoInv, CommittedInv,
      Prepared, Deciding, Undoing, Recovering
<1> QED BY <1>1, <1>3, <1>4

\* What the two loops know while the journal is durable.
LEMMA PreparedFacts ==
  ASSUME TypeOK, DataInv, pc \in Prepared
  PROVE  /\ Journaled /\ marker = Entries /\ existed = Existing
         /\ existed \subseteq Artifact /\ backedUp \subseteq existed
         /\ \A a \in backedUp : Saved(a)
         /\ txn \in Nat /\ NonceBound = txn + 1
<1>1. txn \in Nat /\ existed \subseteq Artifact
  BY DEF TypeOK, CallOK
<1>2. NonceBound = txn + 1
  BY DEF NonceBound, BeforeJournal, Finding, Recovering, Prepared
<1>3. backedUp \subseteq existed
  BY DEF DataInv, PhaseInv, PreparedInv, Prepared
<1> QED BY <1>1, <1>2, <1>3 DEF DataInv, PhaseInv, PreparedInv

\* A failure in one of the loops, or in the removal of the journal, that left
\* the disk as it was.
LEMMA RollbackStarts ==
  ASSUME TypeOK, TypeOK', DataInv, pc \in Prepared, pc' = "rollback",
         UNCHANGED <<disk, current, txn, mode, target, existed, backedUp, committed, outcome>>
  PROVE  DataInv'
<1> USE DEF disk, flags, history, Goto, Return, Works, Fails
<1>1. Visible' /\ NonceInv' /\ Journaled'
  BY SameDisk, PreparedFacts DEF DataInv, BeforeJournal, Finding, Recovering, Prepared
<1>2. Entries' = Entries /\ marker' = Entries
  BY PreparedFacts DEF Entries
<1>3. backedUp \subseteq existed /\ \A a \in backedUp : Saved(a)'
  BY PreparedFacts DEF Saved
<1>4. committed \cap existed \subseteq backedUp
  BY DEF DataInv, PhaseInv, PreparedInv, CommittedInv, Prepared
<1>5. outcome' # "loaded"
  BY DEF DataInv, PhaseInv, CommittedInv, Prepared
<1> QED BY <1>1, <1>2, <1>3, <1>4, <1>5 DEF DataInv, PhaseInv, Idle,
      RecoverInv, JournalInv, PreparedInv, DecidingInv, UndoInv, CommittedInv,
      Prepared, Deciding, Undoing, Recovering

\* Moving an artifact to its backup is undone by the durable journal.
LEMMA MoveToBackupData ==
  ASSUME TypeOK, ControlInv, TypeOK', DataInv, MoveToBackup
  PROVE  DataInv'
<1> USE DEF disk, flags, history, Goto, Return, Works, Fails
<1>1. /\ UNCHANGED <<marker, markerImages, current, txn, mode, target, existed, committed, outcome>>
      /\ pc = "backup" /\ outcome # "loaded" /\ committed = {}
      /\ i \in 1 .. N + 1 /\ i \in Nat
  BY ConstantsAssumption DEF MoveToBackup, DataInv, PhaseInv, CommittedInv, ControlInv, IndexInv
<1>2. /\ Journaled /\ marker = Entries /\ existed = Existing
      /\ existed \subseteq Artifact /\ backedUp \subseteq existed
      /\ \A a \in backedUp : Saved(a)
      /\ txn \in Nat /\ NonceBound = txn + 1
  BY <1>1, PreparedFacts DEF Prepared
<1>3. /\ backedUp = {a \in existed : a < i}
      /\ \A a \in existed \ backedUp : file[a].path = current[a]
      /\ \A a \in Artifact : a < i \/ a \notin existed => Cleared(a)
  BY <1>1 DEF DataInv, PhaseInv, PreparedInv
<1>4. Entries' = Entries /\ Existing' = Existing
  BY <1>1 DEF Entries, Existing
<1>5. \A a \in Artifact : a \in Nat /\ a <= N
  BY ConstantsAssumption DEF Artifact
<1>6. CASE i > N
  <2>1. UNCHANGED <<file, images, backedUp>> /\ pc' = "publish" /\ i' = 1
    BY <1>6, <1>1, ConstantsAssumption DEF MoveToBackup, BeginRollback
  <2>2. Visible' /\ NonceInv' /\ Journaled'
    BY <1>1, <1>2, <2>1, SameDisk DEF DataInv, BeforeJournal, Finding, Recovering
  <2>3. \A a \in Artifact : a < i /\ Cleared(a)' /\ ~(a < 1)
    BY <1>1, <1>3, <1>5, <1>6, <2>1, ConstantsAssumption DEF Cleared, Artifact
  <2>4. backedUp' = existed'
    BY <1>1, <1>2, <1>3, <2>1, <2>3
  <2>5. \A a \in backedUp' : Saved(a)'
    BY <1>1, <1>2, <2>1 DEF Saved
  <2> QED BY <1>1, <1>2, <1>4, <2>1, <2>2, <2>3, <2>4, <2>5 DEF DataInv, PhaseInv, Idle,
      RecoverInv, JournalInv, PreparedInv, DecidingInv, UndoInv, CommittedInv,
      Prepared, Deciding, Undoing, Recovering
<1>7. CASE ~(i > N) /\ i \notin existed
  <2>1. UNCHANGED <<file, images, backedUp, pc>> /\ i' = i + 1
    BY <1>7, <1>1, ConstantsAssumption DEF MoveToBackup
  <2>2. Visible' /\ NonceInv' /\ Journaled'
    BY <1>1, <1>2, <2>1, SameDisk DEF DataInv, BeforeJournal, Finding, Recovering
  <2>3. \A a \in Artifact : a < i + 1 <=> a < i \/ a = i
    BY <1>1, <1>5
  <2>4. \A a \in Artifact : a < i' \/ a \notin existed' => Cleared(a)'
    BY <1>1, <1>3, <1>7, <2>1, <2>3 DEF Cleared
  <2>5. backedUp' = {a \in existed' : a < i'}
    BY <1>1, <1>2, <1>3, <1>7, <2>1, <2>3
  <2>6. \A a \in backedUp' : Saved(a)'
    BY <1>1, <1>2, <2>1 DEF Saved
  <2> QED BY <1>1, <1>2, <1>3, <1>4, <2>1, <2>2, <2>4, <2>5, <2>6 DEF DataInv, PhaseInv, Idle,
      RecoverInv, JournalInv, PreparedInv, DecidingInv, UndoInv, CommittedInv,
      Prepared, Deciding, Undoing, Recovering
<1>8. CASE ~(i > N) /\ i \in existed /\ pc' # "rollback"
  <2> DEFINE f == [path |-> Absent, bak |-> [nonce |-> txn, content |-> file[i].path]]
  <2>1. Put(i, f) /\ backedUp' = backedUp \cup {i} /\ pc' = "backupSync" /\ i' = i
    BY <1>8, <1>1, ConstantsAssumption DEF MoveToBackup, BeginRollback
  <2>2. i \in Artifact /\ file[i] \in File /\ file[i].path = current[i]
    BY <1>1, <1>2, <1>3, <1>8 DEF TypeOK, FilesOK
  <2>3. [nonce |-> txn, content |-> file[i].path] \in Backup
    BY <1>2, <2>2, FileFields DEF Backup
  <2>4. Becomes(f)
    <3>1. f \in File
      BY <2>3 DEF File, Content
    <3> QED BY <2>1, <2>2, <3>1, PutBecomes DEF TypeOK
  <2>5. Live(f, Entries) /\ Undoes(Entries, f, i)
    BY <1>2, <1>8, <2>2, <2>3, AbsentAssumption DEF Live, Undoes, Recovered, Entries, Journaled
  <2>6. Visible' /\ Journaled'
    BY <1>1, <1>2, <2>4, <2>5, BecomesVisible, JournaledGrows DEF DataInv
  <2>7. NonceInv'
    <3>1. NonceBound' = txn + 1
      BY <1>1, <2>1 DEF NonceBound, BeforeJournal, Finding, Recovering
    <3>2. \A b \in Artifact : \A g \in images'[b] \ images[b] : g = f
      BY <2>4 DEF Becomes
    <3> QED BY <1>1, <1>2, <3>1, <3>2, NonceKeeps DEF DataInv
  <2>8. \A b \in Artifact : b # i => file'[b] = file[b] /\ images'[b] = images[b]
    BY <2>4 DEF Becomes
  <2>9. file'[i] = f
    BY <2>4 DEF Becomes
  <2>10. i \notin backedUp /\ \A a \in Artifact : a <= i <=> a < i \/ a = i
    BY <1>1, <1>3, <1>5
  <2>11. \A a \in backedUp' : Saved(a)'
    <3>1. f.bak = [nonce |-> txn, content |-> current[i]]
      BY <2>2
    <3>2. Saved(i)'
      BY <1>1, <2>1, <2>9, <3>1 DEF Saved
    <3>3. ASSUME NEW a \in backedUp PROVE Saved(a)'
      <4>1. a \in Artifact /\ a # i /\ Saved(a)
        BY <1>2, <2>10
      <4>2. file'[a] = file[a]
        BY <2>8, <4>1
      <4> QED BY <1>1, <4>1, <4>2 DEF Saved
    <3> QED BY <2>1, <3>2, <3>3
  <2>12. backedUp' = {a \in existed' : a <= i'}
    BY <1>1, <1>2, <1>3, <1>8, <2>1, <2>10
  <2>13. \A a \in existed' \ backedUp' : file'[a].path = current'[a]
    BY <1>1, <1>2, <1>3, <2>1, <2>8
  <2>14. \A a \in Artifact : a < i' \/ a \notin existed' => Cleared(a)'
    BY <1>1, <1>3, <1>8, <2>1, <2>8 DEF Cleared
  <2> QED BY <1>1, <1>2, <1>4, <1>8, <2>1, <2>6, <2>7, <2>9, <2>11, <2>12, <2>13, <2>14
        DEF DataInv, PhaseInv, Idle,
      RecoverInv, JournalInv, PreparedInv, DecidingInv, UndoInv, CommittedInv,
      Prepared, Deciding, Undoing, Recovering
<1>9. CASE pc' = "rollback"
  <2>1. UNCHANGED <<file, images, backedUp>>
    BY <1>9, <1>1 DEF MoveToBackup
  <2> QED BY <1>1, <1>9, <2>1, RollbackStarts DEF Prepared
<1> QED BY <1>6, <1>7, <1>8, <1>9

\* Synchronizing a backup keeps the journal able to undo it.
LEMMA SyncBackupData ==
  ASSUME TypeOK, ControlInv, TypeOK', DataInv, SyncBackup
  PROVE  DataInv'
<1> USE DEF disk, flags, history, Goto, Return, Works, Fails
<1>1. /\ UNCHANGED <<file, marker, current, txn, mode, target, existed, backedUp, committed, outcome>>
      /\ pc = "backupSync" /\ outcome # "loaded" /\ i \in Artifact /\ committed = {}
  BY DEF SyncBackup, DataInv, PhaseInv, CommittedInv, ControlInv, IndexInv
<1>2. /\ Journaled /\ marker = Entries /\ existed = Existing
      /\ existed \subseteq Artifact /\ backedUp \subseteq existed
      /\ \A a \in backedUp : Saved(a)
      /\ txn \in Nat /\ NonceBound = txn + 1
  BY <1>1, PreparedFacts DEF Prepared
<1>3. /\ backedUp = {a \in existed : a <= i} /\ file[i].path = Absent
      /\ \A a \in existed \ backedUp : file[a].path = current[a]
      /\ \A a \in Artifact : a < i \/ a \notin existed => Cleared(a)
  BY <1>1 DEF DataInv, PhaseInv, PreparedInv
<1>4. CASE pc' = "backup"
  <2>1. SyncDirectory(dirOf[i]) /\ i' = i + 1
    BY <1>4 DEF SyncBackup, BeginRollback
  <2>2. Narrower
    BY <1>1, <2>1, SyncNarrows DEF DataInv
  <2>3. Visible' /\ Journaled'
    BY <1>1, <1>2, <2>2, NarrowKeeps DEF Narrower
  <2>4. NonceInv'
    BY <1>1, <1>4, <2>2, NonceKeeps, BoundKeeps DEF Narrower, DataInv, BeforeJournal, Finding,
       Recovering
  <2>5. images'[i] = {file[i]}
    BY <1>1, <2>1, SyncEffect DEF TypeOK
  <2>6. \A a \in Artifact : a < i + 1 <=> a <= i
    BY <1>1, ConstantsAssumption DEF Artifact
  <2>7. \A a \in Artifact : a <= i => a = i \/ a < i
    BY <1>1, ConstantsAssumption DEF Artifact
  <2>8. ASSUME NEW a \in Artifact, a < i' \/ a \notin existed' PROVE Cleared(a)'
    <3>1. CASE a = i
      BY <1>3, <2>5, <3>1 DEF Cleared
    <3>2. CASE a # i
      BY <1>1, <1>3, <2>1, <2>2, <2>6, <2>7, <2>8, <3>2, NarrowKeeps
    <3> QED BY <3>1, <3>2
  <2>9. backedUp' = {a \in existed' : a < i'}
    BY <1>1, <1>2, <1>3, <2>1, <2>6
  <2>10. /\ Entries' = Entries /\ Existing' = Existing
         /\ \A a \in backedUp' : Saved(a)'
    BY <1>1, <1>2 DEF Entries, Existing, Saved
  <2> QED BY <1>1, <1>2, <1>3, <1>4, <2>3, <2>4, <2>8, <2>9, <2>10
        DEF DataInv, PhaseInv, Idle,
      RecoverInv, JournalInv, PreparedInv, DecidingInv, UndoInv, CommittedInv,
      Prepared, Deciding, Undoing, Recovering
<1>5. CASE pc' = "rollback"
  BY <1>1, <1>5, RollbackStarts DEF SyncBackup, Prepared
<1> QED BY <1>4, <1>5 DEF SyncBackup, BeginRollback

\* Publishing an artifact is undone by the durable journal.
LEMMA PublishData ==
  ASSUME TypeOK, ControlInv, TypeOK', DataInv, Publish
  PROVE  DataInv'
<1> USE DEF disk, flags, history, Goto, Return, Works, Fails
<1>1. /\ UNCHANGED <<marker, markerImages, current, txn, mode, target, existed, backedUp, outcome>>
      /\ pc = "publish" /\ outcome # "loaded"
      /\ i \in 1 .. N + 1 /\ i \in Nat
  BY ConstantsAssumption DEF Publish, DataInv, PhaseInv, CommittedInv, ControlInv, IndexInv
<1>2. /\ Journaled /\ marker = Entries /\ existed = Existing
      /\ existed \subseteq Artifact /\ backedUp \subseteq existed
      /\ \A a \in backedUp : Saved(a)
      /\ txn \in Nat /\ NonceBound = txn + 1
  BY <1>1, PreparedFacts DEF Prepared
<1>3. /\ backedUp = existed
      /\ \A a \in Artifact : (a < i => Published(a)) /\ (a >= i => Cleared(a))
  <2>1. \A a \in Artifact : a >= i => a > i \/ a = i
    BY <1>1, ConstantsAssumption DEF Artifact
  <2> QED BY <1>1, <2>1 DEF DataInv, PhaseInv, PreparedInv
<1>4. /\ Entries' = Entries /\ Existing' = Existing
  BY <1>1 DEF Entries, Existing
<1>5. \A a \in Artifact : a \in Nat /\ a <= N
  BY ConstantsAssumption DEF Artifact
<1>6. CASE i > N
  <2>1. UNCHANGED <<file, images, i>> /\ pc' = "unmark"
    BY <1>6, <1>1, ConstantsAssumption DEF Publish
  <2>2. Visible' /\ NonceInv' /\ Journaled'
    BY <1>1, <1>2, <2>1, SameDisk DEF DataInv, BeforeJournal, Finding, Recovering
  <2>3. \A a \in Artifact : a < i
    BY <1>1, <1>5, <1>6, ConstantsAssumption
  <2>4. \A a \in Artifact : Published(a)'
    BY <1>1, <1>3, <2>1, <2>3 DEF Published
  <2>5. \A a \in backedUp' : Saved(a)'
    BY <1>1, <1>2, <2>1 DEF Saved
  <2> QED BY <1>1, <1>2, <1>3, <1>4, <2>1, <2>2, <2>4, <2>5 DEF DataInv, PhaseInv, Idle,
      RecoverInv, JournalInv, PreparedInv, DecidingInv, UndoInv, CommittedInv,
      Prepared, Deciding, Undoing, Recovering
<1>7. CASE ~(i > N) /\ target[i] = Absent
  <2>1. UNCHANGED <<file, images, pc>> /\ i' = i + 1
    BY <1>7, <1>1, ConstantsAssumption DEF Publish
  <2>2. Visible' /\ NonceInv' /\ Journaled'
    BY <1>1, <1>2, <2>1, SameDisk DEF DataInv, BeforeJournal, Finding, Recovering
  <2>3. \A a \in Artifact : (a < i + 1 => a < i \/ a = i) /\ (a >= i + 1 => a >= i)
                           /\ (a = i => a >= i)
    BY <1>1, <1>5
  <2>4. \A a \in Artifact : (a < i' => Published(a)') /\ (a >= i' => Cleared(a)')
    BY <1>1, <1>3, <1>7, <2>1, <2>3 DEF Published, Cleared
  <2>5. \A a \in Artifact : (a > i' => a >= i') /\ (a = i' => a >= i')
    BY <1>1, <1>5, <2>1
  <2>6. \A a \in backedUp' : Saved(a)'
    BY <1>1, <1>2, <2>1 DEF Saved
  <2> QED BY <1>1, <1>2, <1>3, <1>4, <2>1, <2>2, <2>4, <2>5, <2>6 DEF DataInv, PhaseInv, Idle,
      RecoverInv, JournalInv, PreparedInv, DecidingInv, UndoInv, CommittedInv,
      Prepared, Deciding, Undoing, Recovering
<1>8. CASE ~(i > N) /\ target[i] # Absent /\ pc' # "rollback"
  <2> DEFINE f == [path |-> target[i], bak |-> file[i].bak]
  <2>1. Put(i, f) /\ pc' = "publishSync" /\ i' = i
    BY <1>8, <1>1, ConstantsAssumption DEF Publish, BeginRollback
  <2>2. i \in Artifact /\ file[i] \in File /\ file[i] \in images[i] /\ target[i] \in Content
    BY <1>1, <1>8, ConstantsAssumption DEF TypeOK, FilesOK, CallOK, Artifact, DataInv, Visible
  <2>3. Becomes(f)
    BY <2>1, <2>2, PutBecomes, FileFields DEF TypeOK
  <2>4. Undoes(Entries, f, i)
    <3>1. Live(f, Entries) = Live(file[i], Entries) /\ Entries # Absent
      BY <1>2 DEF Live, Journaled
    <3>2. Undoes(Entries, file[i], i)
      BY <1>2, <2>2 DEF Journaled
    <3>3. CASE i \in existed
      <4>1. file[i].bak = [nonce |-> txn, content |-> current[i]]
        BY <1>2, <1>3, <3>3 DEF Saved
      <4>2. [nonce |-> txn, content |-> current[i]] \in Backup
        BY <1>2, <2>2 DEF Backup, TypeOK, HistoryOK
      <4> QED BY <3>1, <3>3, <4>1, <4>2, AbsentAssumption DEF Undoes, Recovered, Live, Entries
    <3>4. CASE i \notin existed
      BY <3>1, <3>2, <3>4 DEF Undoes, Recovered, Entries
    <3> QED BY <3>3, <3>4
  <2>5. Visible' /\ Journaled'
    BY <1>1, <1>2, <2>3, <2>4, BecomesVisible, JournaledGrows DEF DataInv
  <2>6. NonceInv'
    <3>1. \A b \in Artifact : \A g \in images'[b] \ images[b] : g.bak = file[i].bak
      BY <2>3 DEF Becomes
    <3> QED BY <1>1, <2>1, <2>2, <3>1, OldBackup DEF DataInv, BeforeJournal, Finding, Recovering
  <2>7. \A b \in Artifact : b # i => file'[b] = file[b] /\ images'[b] = images[b]
    BY <2>3 DEF Becomes
  <2>8. file'[i] = f
    BY <2>3 DEF Becomes
  <2>9. \A a \in backedUp' : Saved(a)'
    <3> SUFFICES ASSUME NEW a \in backedUp PROVE Saved(a)'
      BY <1>1
    <3>1. file'[a].bak = file[a].bak
      BY <1>2, <2>7, <2>8
    <3> QED BY <1>1, <1>2, <3>1 DEF Saved
  <2>10. \A a \in Artifact : (a > i' => a >= i /\ a # i) /\ (a < i' => a < i /\ a # i)
    BY <1>1, <1>5, <2>1
  <2>11. \A a \in Artifact : (a < i' => Published(a)') /\ (a > i' => Cleared(a)')
    BY <1>1, <1>3, <2>1, <2>7, <2>10 DEF Published, Cleared
  <2> QED BY <1>1, <1>2, <1>3, <1>4, <1>8, <2>1, <2>5, <2>6, <2>8, <2>9, <2>11
        DEF DataInv, PhaseInv, Idle,
      RecoverInv, JournalInv, PreparedInv, DecidingInv, UndoInv, CommittedInv,
      Prepared, Deciding, Undoing, Recovering
<1>9. CASE pc' = "rollback"
  <2>1. UNCHANGED <<file, images, committed>>
    BY <1>9, <1>1 DEF Publish
  <2> QED BY <1>1, <1>9, <2>1, RollbackStarts DEF Prepared
<1> QED BY <1>6, <1>7, <1>8, <1>9

\* Synchronizing a published artifact makes it the only image.
LEMMA SyncPublishData ==
  ASSUME TypeOK, ControlInv, TypeOK', DataInv, SyncPublish
  PROVE  DataInv'
<1> USE DEF disk, flags, history, Goto, Return, Works, Fails
<1>1. /\ UNCHANGED <<file, marker, current, txn, mode, target, existed, backedUp, committed, outcome>>
      /\ pc = "publishSync" /\ outcome # "loaded" /\ i \in Artifact
  BY DEF SyncPublish, DataInv, PhaseInv, CommittedInv, ControlInv, IndexInv
<1>2. /\ Journaled /\ marker = Entries /\ existed = Existing
      /\ existed \subseteq Artifact /\ backedUp \subseteq existed
      /\ \A a \in backedUp : Saved(a)
      /\ txn \in Nat /\ NonceBound = txn + 1
  BY <1>1, PreparedFacts DEF Prepared
<1>3. /\ backedUp = existed /\ file[i].path = target[i]
      /\ \A a \in Artifact : (a < i => Published(a)) /\ (a > i => Cleared(a))
  BY <1>1 DEF DataInv, PhaseInv, PreparedInv
<1>4. CASE pc' = "publish"
  <2>1. SyncDirectory(dirOf[i]) /\ i' = i + 1
    BY <1>4 DEF SyncPublish, BeginRollback
  <2>2. Narrower
    BY <1>1, <2>1, SyncNarrows DEF DataInv
  <2>3. Visible' /\ Journaled'
    BY <1>1, <1>2, <2>2, NarrowKeeps DEF Narrower
  <2>4. NonceInv'
    BY <1>1, <1>4, <2>2, NonceKeeps, BoundKeeps DEF Narrower, DataInv, BeforeJournal, Finding,
       Recovering
  <2>5. images'[i] = {file[i]}
    BY <1>1, <2>1, SyncEffect DEF TypeOK
  <2>7. \A f \in images'[i] : f.path = target'[i]
    BY <1>1, <1>3, <2>5
  <2>8. \A a \in Artifact : (a < i' => a < i \/ a = i) /\ (a > i' => a > i) /\ (a = i' => a > i)
    BY <1>1, <2>1, ConstantsAssumption DEF Artifact
  <2>9. \A a \in Artifact : (a < i => Published(a)') /\ (a > i => Cleared(a)')
    BY <1>1, <1>3, <2>2, NarrowKeeps
  <2>10. \A a \in Artifact : a = i => Published(a)'
    BY <2>7 DEF Published
  <2>11. /\ Entries' = Entries /\ Existing' = Existing
         /\ \A a \in backedUp' : Saved(a)'
    BY <1>1, <1>2 DEF Entries, Existing, Saved
  <2> QED BY <1>1, <1>2, <1>3, <1>4, <2>3, <2>4, <2>8, <2>9, <2>10, <2>11
        DEF DataInv, PhaseInv, Idle,
      RecoverInv, JournalInv, PreparedInv, DecidingInv, UndoInv, CommittedInv,
      Prepared, Deciding, Undoing, Recovering
<1>5. CASE pc' = "rollback"
  BY <1>1, <1>5, RollbackStarts DEF SyncPublish, Prepared
<1> QED BY <1>4, <1>5 DEF SyncPublish, BeginRollback

\* Removing the journal starts the deciding positions.
LEMMA UnmarkData ==
  ASSUME TypeOK, ControlInv, TypeOK', DataInv, Unmark
  PROVE  DataInv'
<1> USE DEF disk, flags, history, Goto, Return, Works, Fails
<1>1. /\ UNCHANGED <<file, images, current, txn, mode, target, existed, backedUp, committed, outcome>>
      /\ pc = "unmark" /\ outcome # "loaded"
  BY DEF Unmark, DataInv, PhaseInv, CommittedInv
<1>2. /\ Journaled /\ marker = Entries /\ existed = Existing
      /\ \A a \in backedUp : Saved(a)
      /\ backedUp = existed /\ \A a \in Artifact : Published(a)
  BY <1>1 DEF DataInv, PhaseInv, PreparedInv, Prepared
<1>3. CASE pc' = "unmarkSync"
  <2>1. marker' = Absent /\ markerImages' = markerImages \cup {Absent}
    BY <1>3 DEF Unmark, PutMarker, BeginRollback
  <2>2. Visible'
    BY <1>1, <2>1 DEF Visible, DataInv
  <2>3. NonceInv'
    BY <1>1, <1>3, <2>1, NonceKeeps, BoundKeeps DEF DataInv, BeforeJournal, Finding, Recovering
  <2>4. /\ Entries' = Entries /\ Existing' = Existing
        /\ \A a \in backedUp' : Saved(a)'
        /\ \A a \in Artifact : Published(a)'
    BY <1>1, <1>2 DEF Entries, Existing, Saved, Published
  <2>5. markerImages' \subseteq {Entries, Absent}
    BY <1>2, <2>1 DEF Journaled
  <2>6. \A a \in Artifact : \A f \in images'[a] : Undoes(Entries, f, a)'
    BY <1>1, <1>2 DEF Journaled, Undoes, Recovered, Live, Entries
  <2> QED BY <1>1, <1>2, <1>3, <2>1, <2>2, <2>3, <2>4, <2>5, <2>6
        DEF DataInv, PhaseInv, Idle,
      RecoverInv, JournalInv, PreparedInv, DecidingInv, UndoInv, CommittedInv,
      Prepared, Deciding, Undoing, Recovering
<1>4. CASE pc' = "rollback"
  BY <1>1, <1>4, RollbackStarts DEF Unmark, Prepared
<1> QED BY <1>3, <1>4 DEF Unmark, BeginRollback

\* What is known while the removal of the journal is not synchronized.
LEMMA DecidingFacts ==
  ASSUME TypeOK, DataInv, pc \in Deciding
  PROVE  /\ existed = Existing /\ backedUp = existed /\ existed \subseteq Artifact
         /\ \A a \in backedUp : Saved(a)
         /\ \A a \in Artifact : Published(a)
         /\ markerImages \subseteq {Entries, Absent}
         /\ marker = IF pc = "rewriteSync" THEN Entries ELSE Absent
         /\ \A a \in Artifact : \A f \in images[a] : Undoes(Entries, f, a)
         /\ Entries # Absent /\ outcome # "loaded"
<1>1. Entries \in Journal /\ existed \subseteq Artifact
  BY DEF Entries, Journal, TypeOK, CallOK
<1>2. outcome # "loaded"
  BY DEF DataInv, PhaseInv, CommittedInv, Deciding
<1> QED BY <1>1, <1>2, AbsentAssumption DEF DataInv, PhaseInv, PreparedInv, DecidingInv

\* Another of these positions, the artifacts and their images as they were.
LEMMA StillDeciding ==
  ASSUME TypeOK, TypeOK', DataInv, pc \in Deciding, pc' \in Deciding,
         UNCHANGED <<file, images, current, txn, mode, target, existed, backedUp, outcome>>,
         markerImages' \subseteq {Entries, Absent},
         marker' = IF pc' = "rewriteSync" THEN Entries ELSE Absent,
         marker' \in markerImages'
  PROVE  DataInv'
<1> USE DEF disk, flags, history, Goto, Return, Works, Fails
<1>1. Visible'
  BY DEF Visible, DataInv
<1>2. NonceInv'
  <2>1. \A m \in markerImages' : m # Absent => m.nonce < txn + 1
    BY DEF Entries, TypeOK, CallOK
  <2>2. NonceBound' = txn + 1 /\ NonceBound = txn + 1
    BY DEF NonceBound, BeforeJournal, Finding, Recovering, Deciding
  <2> QED BY <2>1, <2>2 DEF NonceInv, DataInv
<1>3. /\ Entries' = Entries /\ Existing' = Existing
      /\ \A a \in backedUp' : Saved(a)'
      /\ \A a \in Artifact : Published(a)'
  BY DecidingFacts DEF Entries, Existing, Saved, Published
<1>4. \A a \in Artifact : \A f \in images'[a] : Undoes(Entries, f, a)'
  BY DecidingFacts DEF Undoes, Recovered, Live, Entries
<1> QED BY <1>1, <1>2, <1>3, <1>4, DecidingFacts DEF DataInv, PhaseInv, Idle,
      RecoverInv, JournalInv, PreparedInv, DecidingInv, UndoInv, CommittedInv,
      Prepared, Deciding, Undoing, Recovering

\* The synchronized removal of the journal commits the new generation.
LEMMA SyncUnmarkData ==
  ASSUME TypeOK, ControlInv, TypeOK', DataInv, SyncUnmark
  PROVE  DataInv'
<1> USE DEF disk, flags, history, Goto, Return, Works, Fails
<1>1. /\ UNCHANGED <<file, marker, txn, mode, target, existed, backedUp, outcome>>
      /\ pc = "unmarkSync" /\ marker = Absent
  BY DecidingFacts DEF SyncUnmark, Deciding
<1>2. CASE pc' = "finish"
  <2>1. SyncDirectory(Root) /\ current' = target
    BY <1>2 DEF SyncUnmark
  <2>2. Narrower
    BY <1>1, <2>1, SyncNarrows DEF DataInv
  <2>3. markerImages' = {Absent}
    BY <1>1, <2>1, SyncEffect DEF TypeOK
  <2>4. NonceInv'
    BY <1>1, <1>2, <2>2, NonceKeeps, BoundKeeps DEF Narrower, DataInv, BeforeJournal, Finding,
       Recovering
  <2>5. Quiet'
    BY <1>1, <2>1, <2>2, <2>3, DecidingFacts DEF Quiet, Narrower, Published, Deciding
  <2> QED BY <1>1, <1>2, <2>2, <2>4, <2>5, DecidingFacts DEF Narrower, DataInv, PhaseInv, Idle,
      RecoverInv, JournalInv, PreparedInv, DecidingInv, UndoInv, CommittedInv,
      Prepared, Deciding, Undoing, Recovering
<1>3. CASE pc' = "rewrite"
  <2>1. UNCHANGED <<images, markerImages, current>>
    BY <1>3 DEF SyncUnmark
  <2> QED BY <1>1, <1>3, <2>1, StillDeciding, DecidingFacts DEF Deciding, DataInv, Visible
<1> QED BY <1>2, <1>3 DEF SyncUnmark

\* A journal that is written again and synchronized undoes everything.
LEMMA RewriteJournalData ==
  ASSUME TypeOK, ControlInv, TypeOK', DataInv, RewriteJournal, ignored = {}, ignored' = {}
  PROVE  DataInv'
<1> USE DEF disk, flags, history, Goto, Return, Works, Fails
<1>1. /\ UNCHANGED <<file, current, txn, mode, target, existed, backedUp, committed, outcome>>
      /\ pc \in Deciding
  BY DEF RewriteJournal, Deciding
<1>2. CASE pc' \in Deciding
  <2>1. \/ pc = "rewrite" /\ pc' = "rewriteRename" /\ UNCHANGED <<images, marker, markerImages>>
        \/ /\ pc = "rewriteRename" /\ pc' = "rewriteSync" /\ images' = images
           /\ marker' = Entries /\ markerImages' = markerImages \cup {Entries}
    BY <1>2 DEF RewriteJournal, BeginRollback, PutMarker, Deciding
  <2>2. images' = images /\ marker' = IF pc' = "rewriteSync" THEN Entries ELSE Absent
    BY <1>1, <2>1, DecidingFacts
  <2>3. marker' \in markerImages' /\ markerImages' \subseteq {Entries, Absent}
    BY <1>1, <2>1, DecidingFacts DEF DataInv, Visible
  <2> QED BY <1>1, <1>2, <2>2, <2>3, StillDeciding
<1>3. CASE pc' = "rollback"
  <2>1. pc = "rewriteSync" /\ SyncDirectory(Root) /\ marker' = marker /\ marker = Entries
    BY <1>1, <1>3, DecidingFacts DEF RewriteJournal, BeginRollback
  <2>2. Narrower
    BY <1>1, <2>1, SyncNarrows DEF DataInv
  <2>3. markerImages' = {marker'}
    BY <2>1, SyncEffect DEF TypeOK
  <2>4. NonceInv'
    BY <1>1, <1>3, <2>1, <2>2, NonceKeeps, BoundKeeps DEF Narrower, DataInv, BeforeJournal,
       Finding, Recovering
  <2>5. Journaled'
    BY <1>1, <2>1, <2>2, <2>3, DecidingFacts DEF Narrower, Journaled, Undoes, Recovered, Live
  <2>6. Entries' = Entries /\ \A a \in backedUp : Saved(a)'
    BY <1>1, DecidingFacts DEF Entries, Saved
  <2> QED BY <1>1, <1>3, <2>1, <2>2, <2>4, <2>5, <2>6, DecidingFacts DEF Narrower, DataInv,
      PhaseInv, Idle, RecoverInv, JournalInv, PreparedInv, DecidingInv, UndoInv,
      CommittedInv, Prepared, Deciding, Undoing, Recovering
<1> QED BY <1>2, <1>3 DEF RewriteJournal, BeginRollback, Deciding

-----------------------------------------------------------------------------
(* rollback *)

\* What is known during the rollback.
LEMMA UndoFacts ==
  ASSUME TypeOK, ControlInv, DataInv, pc \in Undoing
  PROVE  /\ Journaled /\ marker = Entries
         /\ backedUp \subseteq existed /\ existed \subseteq Artifact
         /\ committed \cap existed \subseteq backedUp
         /\ \A a \in backedUp : a <= i => Saved(a)
         /\ outcome # "loaded" /\ i \in 0 .. N
<1>1. existed \subseteq Artifact
  BY DEF TypeOK, CallOK
<1>2. outcome # "loaded" /\ i \in 0 .. N
  BY ConstantsAssumption DEF DataInv, PhaseInv, CommittedInv, Undoing, ControlInv, IndexInv, Artifact
<1> QED BY <1>1, <1>2 DEF DataInv, PhaseInv, UndoInv

\* The backup of the running commit is the one its journal restores.
LEMMA SavedUndoes ==
  ASSUME TypeOK, NEW a \in Artifact, Saved(a)
  PROVE  /\ Live(file[a], Entries) /\ file[a].bak.content = current[a]
<1>1. [nonce |-> txn, content |-> current[a]] \in Backup
  BY DEF Backup, TypeOK, CallOK, HistoryOK
<1> QED BY <1>1, AbsentAssumption DEF Saved, Live, Entries

\* Removing a published file is undone by the journal.
LEMMA RollbackData ==
  ASSUME TypeOK, ControlInv, TypeOK', DataInv, Rollback
  PROVE  DataInv'
<1> USE DEF disk, flags, history, Goto, Return, Works, Fails
<1>1. /\ UNCHANGED <<marker, markerImages, current, txn, mode, target, existed, backedUp, committed, outcome>>
      /\ pc = "rollback" /\ pc' \in Undoing /\ i' \in {i, i - 1}
      /\ i \in Artifact /\ file[i] \in File /\ file[i] \in images[i]
      /\ i' = i - 1 => i \notin backedUp
  BY ConstantsAssumption DEF Rollback, Undoing, ControlInv, IndexInv, Artifact, TypeOK, FilesOK,
     DataInv, Visible
<1> DEFINE f == [path |-> Absent, bak |-> file[i].bak]
<1>2. Live(f, Entries) = Live(file[i], Entries) /\ Entries # Absent
  BY <1>1, UndoFacts DEF Live, Journaled, Undoing
<1>3. \/ UNCHANGED <<file, images>>
      \/ Becomes(f) /\ i \in committed
  <2>1. Put(i, f) => Becomes(f)
    BY <1>1, PutBecomes, FileFields DEF TypeOK, Content
  <2> QED BY <2>1 DEF Rollback
<1>4. i \in committed => Undoes(Entries, f, i)
  <2>1. Undoes(Entries, file[i], i)
    BY <1>1, UndoFacts DEF Journaled, Undoing
  <2>2. CASE i \in committed /\ i \in existed
    <3>1. Saved(i)
      BY <1>1, <2>2, UndoFacts, ConstantsAssumption DEF Undoing, Artifact
    <3> QED BY <1>1, <1>2, <2>2, <3>1, SavedUndoes DEF Undoes, Recovered, Entries
  <2>3. CASE i \notin existed
    BY <1>2, <2>1, <2>3 DEF Undoes, Recovered, Entries
  <2> QED BY <2>2, <2>3
<1>5. Visible' /\ Journaled'
  <2>1. UNCHANGED <<file, images>> => Visible' /\ Journaled'
    BY <1>1, UndoFacts DEF Journaled, Undoes, Recovered, Live, Undoing, DataInv, Visible
  <2>2. Journaled /\ Visible /\ marker = Entries
    BY <1>1, UndoFacts DEF Undoing, DataInv
  <2> QED BY <1>1, <1>3, <1>4, <2>1, <2>2, BecomesVisible, JournaledGrows
<1>6. NonceInv'
  <2>1. \A b \in Artifact : \A g \in images'[b] \ images[b] : g.bak = file[i].bak
    BY <1>3 DEF Becomes
  <2> QED BY <1>1, <2>1, OldBackup DEF DataInv, BeforeJournal, Finding, Recovering, Undoing
<1>7. \A b \in Artifact : file'[b].bak = file[b].bak
  BY <1>3 DEF Becomes
<1>8. \A a \in backedUp' : a <= i' => Saved(a)'
  <2>1. \A a \in Artifact : a <= i' => a <= i
    BY <1>1, ConstantsAssumption DEF Artifact
  <2>2. \A a \in backedUp : a \in Artifact /\ (a <= i => Saved(a))
    BY <1>1, UndoFacts DEF Undoing
  <2> QED BY <1>1, <1>7, <2>1, <2>2 DEF Saved
<1>9. Entries' = Entries
  BY <1>1 DEF Entries
<1> QED BY <1>1, <1>5, <1>6, <1>8, <1>9, UndoFacts DEF DataInv, PhaseInv, Idle,
      RecoverInv, JournalInv, PreparedInv, DecidingInv, UndoInv, CommittedInv,
      Prepared, Deciding, Undoing, Recovering

\* Moving a backup back gives the committed content.
LEMMA RollbackRenameData ==
  ASSUME TypeOK, ControlInv, TypeOK', DataInv, RollbackRename
  PROVE  DataInv'
<1> USE DEF disk, flags, history, Goto, Return, Works, Fails
<1>1. /\ UNCHANGED <<marker, markerImages, current, txn, mode, target, existed, backedUp, committed, outcome>>
      /\ pc = "rollbackRename" /\ pc' = "rollback" /\ i' = i - 1
      /\ i \in Artifact /\ file[i] \in File /\ file[i] \in images[i]
      /\ i \in backedUp
  BY DEF RollbackRename, ControlInv, IndexInv, TypeOK, FilesOK, DataInv, Visible
<1> DEFINE f == [path |-> file[i].bak.content, bak |-> Absent]
<1>2. Saved(i)
  BY <1>1, UndoFacts, ConstantsAssumption DEF Undoing, Artifact
<1>3. Live(file[i], Entries) /\ file[i].bak.content = current[i]
  BY <1>1, <1>2, SavedUndoes
<1>4. UNCHANGED <<file, images>> \/ Becomes(f)
  <2>1. Put(i, f) => Becomes(f)
    BY <1>1, <1>3, PutBecomes, FileFields DEF TypeOK, Live
  <2> QED BY <2>1 DEF RollbackRename
<1>5. Undoes(Entries, f, i)
  <2>1. i \in existed /\ Entries # Absent
    BY <1>1, UndoFacts DEF Undoing, Journaled
  <2>2. ~Live(f, Entries)
    BY DEF Live
  <2> QED BY <1>3, <2>1, <2>2 DEF Undoes, Recovered, Entries
<1>6. Visible' /\ Journaled'
  <2>1. UNCHANGED <<file, images>> => Visible' /\ Journaled'
    BY <1>1, UndoFacts DEF Journaled, Undoes, Recovered, Live, Undoing, DataInv, Visible
  <2>2. Journaled /\ Visible /\ marker = Entries
    BY <1>1, UndoFacts DEF Undoing, DataInv
  <2> QED BY <1>1, <1>4, <1>5, <2>1, <2>2, BecomesVisible, JournaledGrows
<1>7. NonceInv'
  <2>1. \A b \in Artifact : \A g \in images'[b] \ images[b] : g.bak = Absent
    BY <1>4 DEF Becomes
  <2> QED BY <1>1, <2>1, OldBackup DEF DataInv, BeforeJournal, Finding, Recovering, Undoing
<1>8. \A b \in Artifact : b # i => file'[b] = file[b]
  BY <1>4 DEF Becomes
<1>9. \A a \in backedUp' : a <= i' => Saved(a)'
  <2>1. \A a \in Artifact : a <= i' => a <= i /\ a # i
    BY <1>1, ConstantsAssumption DEF Artifact
  <2>2. \A a \in backedUp : a \in Artifact /\ (a <= i => Saved(a))
    BY <1>1, UndoFacts DEF Undoing
  <2> QED BY <1>1, <1>8, <2>1, <2>2 DEF Saved
<1>10. Entries' = Entries
  BY <1>1 DEF Entries
<1> QED BY <1>1, <1>6, <1>7, <1>9, <1>10, UndoFacts DEF DataInv, PhaseInv, Idle,
      RecoverInv, JournalInv, PreparedInv, DecidingInv, UndoInv, CommittedInv,
      Prepared, Deciding, Undoing, Recovering

\* The end of the rollback leaves the journal to the next recovery.
LEMMA EndRollbackData ==
  ASSUME TypeOK, ControlInv, TypeOK', DataInv, EndRollback
  PROVE  DataInv'
<1> USE DEF disk, flags, history, Goto, Return, Works, Fails
<1>1. /\ UNCHANGED <<disk, current, txn, mode, target>>
      /\ pc = "rollback" /\ pc' = "idle" /\ outcome' = "failed"
  BY DEF EndRollback
<1>2. Visible' /\ NonceInv' /\ Journaled'
  BY <1>1, SameDisk, UndoFacts DEF DataInv, BeforeJournal, Finding, Recovering, Undoing
<1> QED BY <1>1, <1>2 DEF DataInv, PhaseInv, Idle,
      RecoverInv, JournalInv, PreparedInv, DecidingInv, UndoInv, CommittedInv,
      Prepared, Deciding, Undoing, Recovering

-----------------------------------------------------------------------------
(* A stop, and the theorems *)

\* A stop leaves a quiet package or a durable journal that undoes everything.
LEMMA CrashData ==
  ASSUME TypeOK, ControlInv, TypeOK', DataInv, Crash
  PROVE  DataInv'
<1>1. /\ \A a \in Artifact : file'[a] \in images[a] /\ images'[a] = {file'[a]}
      /\ marker' \in markerImages /\ markerImages' = {marker'}
      /\ UNCHANGED <<target, txn>> /\ pc' = "idle" /\ outcome' = "stopped"
      /\ mode' = "load"
      /\ current' = IF pc \in Deciding /\ marker' = Absent THEN target ELSE current
  BY CrashEffect DEF Crash
<1>2. Visible'
  BY <1>1 DEF Visible
<1>3. NonceInv'
  <2>1. NonceBound' = txn + 1 /\ NonceBound \in {txn, txn + 1} /\ txn \in Nat
    BY <1>1 DEF NonceBound, TypeOK, CallOK
  <2>2. NonceBound' >= NonceBound
    BY <2>1
  <2> QED BY <1>1, <2>2, NonceKeeps DEF DataInv
<1>4. CASE pc \in Deciding
  <2>1. CASE marker' = Absent
    <3>1. current' = target /\ \A a \in Artifact : Published(a)
      BY <1>1, <1>4, <2>1, DecidingFacts
    <3>2. Quiet'
      BY <1>1, <2>1, <3>1 DEF Quiet, Published
    <3> QED BY <1>1, <1>2, <1>3, <3>2 DEF DataInv, PhaseInv, Idle,
      RecoverInv, JournalInv, PreparedInv, DecidingInv, UndoInv, CommittedInv,
      Prepared, Deciding, Undoing, Recovering
  <2>2. CASE marker' # Absent
    <3>1. marker' = Entries /\ current' = current
      BY <1>1, <1>4, <2>2, DecidingFacts
    <3>2. Journaled'
      BY <1>1, <1>4, <2>2, <3>1, DecidingFacts DEF Journaled, Undoes, Recovered, Live
    <3> QED BY <1>1, <1>2, <1>3, <3>2 DEF DataInv, PhaseInv, Idle,
      RecoverInv, JournalInv, PreparedInv, DecidingInv, UndoInv, CommittedInv,
      Prepared, Deciding, Undoing, Recovering
  <2> QED BY <1>1, <1>2, <1>3, <2>1, <2>2
<1>5. CASE pc \notin Deciding
  <2>1. current' = current
    BY <1>1, <1>5
  <2>2. CASE Quiet
    <3>1. Quiet'
      BY <1>1, <2>1, <2>2 DEF Quiet, Live
    <3> QED BY <1>1, <1>2, <1>3, <3>1 DEF DataInv, PhaseInv, Idle,
      RecoverInv, JournalInv, PreparedInv, DecidingInv, UndoInv, CommittedInv,
      Prepared, Deciding, Undoing, Recovering
  <2>3. CASE Journaled
    <3>1. Journaled'
      BY <1>1, <2>1, <2>3 DEF Journaled, Undoes, Recovered, Live
    <3> QED BY <1>1, <1>2, <1>3, <3>1 DEF DataInv, PhaseInv, Idle,
      RecoverInv, JournalInv, PreparedInv, DecidingInv, UndoInv, CommittedInv,
      Prepared, Deciding, Undoing, Recovering
  <2>4. Quiet \/ Journaled
    BY <1>5 DEF TypeOK, CallOK, PC, DataInv, PhaseInv, Idle, RecoverInv, JournalInv,
       PreparedInv, UndoInv, CommittedInv, Prepared, Deciding, Undoing, Recovering
  <2> QED BY <2>2, <2>3, <2>4
<1> QED BY <1>4, <1>5

\* A package with no journal is Quiet.
LEMMA InitData == Init => DataInv
<1> SUFFICES ASSUME Init PROVE DataInv
  OBVIOUS
<1> USE DEF Init
<1>1. \A a \in Artifact : images[a] = {[path |-> current[a], bak |-> Absent]}
  OBVIOUS
<1>2. Visible
  BY DEF Visible
<1>3. NonceInv
  BY <1>1 DEF NonceInv
<1>4. Quiet
  BY <1>1 DEF Quiet
<1> QED BY <1>2, <1>3, <1>4 DEF DataInv, PhaseInv, Idle,
      RecoverInv, JournalInv, PreparedInv, DecidingInv, UndoInv, CommittedInv,
      Prepared, Deciding, Undoing, Recovering

\* An ignored failure is never forgotten.
LEMMA IgnoredGrows ==
  ASSUME [Next]_vars
  PROVE  ignored \subseteq ignored'
BY DEF Next, Step, vars, disk, flags, history, BeginLoad, BeginCommit, FindMarker,
   RecoverRemove, RecoverRestore, RecoverSync, DropMarker, DropSync,
   RemoveLeftovers, Stage, WriteJournal, RenameJournal, SyncJournal, MoveToBackup,
   SyncBackup, Publish, SyncPublish, Unmark, SyncUnmark, RewriteJournal, Rollback,
   RollbackRename, EndRollback, Finish, Crash

\* Every action keeps the data invariant while no failure was ignored.
LEMMA NextKeepsData ==
  ASSUME TypeOK, ControlInv, TypeOK', DataInv, [Next]_vars,
         ignored = {}, ignored' = {}
  PROVE  DataInv'
<1>1. CASE BeginLoad \/ BeginCommit
  BY <1>1, BeginData
<1>2. CASE Crash
  BY <1>2, CrashData
<1>3. CASE FindMarker \/ RecoverRemove \/ RecoverRestore \/ RecoverSync
  BY <1>3, FindMarkerData, RecoverRemoveData, RecoverRestoreData, RecoverSyncData
<1>4. CASE DropMarker \/ DropSync \/ RemoveLeftovers \/ Finish
  BY <1>4, DropMarkerData, DropSyncData, RemoveLeftoversData, FinishData
<1>5. CASE Stage \/ WriteJournal \/ RenameJournal \/ SyncJournal
  BY <1>5, StageData, WriteJournalData, RenameJournalData, SyncJournalData
<1>6. CASE MoveToBackup \/ SyncBackup \/ Publish \/ SyncPublish
  BY <1>6, MoveToBackupData, SyncBackupData, PublishData, SyncPublishData
<1>7. CASE Unmark \/ SyncUnmark \/ RewriteJournal
  BY <1>7, UnmarkData, SyncUnmarkData, RewriteJournalData
<1>8. CASE Rollback \/ RollbackRename \/ EndRollback
  BY <1>8, RollbackData, RollbackRenameData, EndRollbackData
<1>9. CASE UNCHANGED vars
  <2>1. UNCHANGED <<file, images, marker, markerImages, pc, mode, i, existed,
                    backedUp, committed, target, txn, outcome, current>>
    BY <1>9 DEF vars, disk, flags, history
  <2>2. Visible' = Visible /\ NonceInv' = NonceInv /\ Quiet' = Quiet
    BY <2>1 DEF Visible, NonceInv, NonceBound, Quiet, Live
  <2>3. Journaled' = Journaled /\ Entries' = Entries
    BY <2>1 DEF Journaled, Undoes, Recovered, Live, Entries
  <2>4. /\ \A a \in Artifact : /\ Settled(a)' = Settled(a)
                               /\ Published(a)' = Published(a)
                               /\ Cleared(a)' = Cleared(a)
                               /\ Saved(a)' = Saved(a)
        /\ Existing' = Existing
    BY <2>1 DEF Settled, Published, Cleared, Saved, Existing, Live
  <2>5. backedUp \subseteq Artifact
    BY DEF TypeOK, CallOK
  <2>6. RecoverInv'
    BY <2>1, <2>2, <2>3, <2>4 DEF DataInv, PhaseInv, RecoverInv, Recovering, Live
  <2>7. PreparedInv'
    BY <2>1, <2>3, <2>4, <2>5 DEF DataInv, PhaseInv, PreparedInv, Prepared, Deciding
  <2>8. DecidingInv' /\ UndoInv'
    BY <2>1, <2>3, <2>4, <2>5 DEF DataInv, PhaseInv, DecidingInv, UndoInv, Undoing,
       Deciding, Undoes, Recovered, Live
  <2>9. Idle' /\ JournalInv' /\ CommittedInv'
    BY <2>1, <2>2, <2>3, <2>4 DEF DataInv, PhaseInv, Idle, JournalInv, CommittedInv
  <2> QED BY <2>2, <2>6, <2>7, <2>8, <2>9 DEF DataInv, PhaseInv
<1> QED BY <1>1, <1>2, <1>3, <1>4, <1>5, <1>6, <1>7, <1>8, <1>9 DEF Next, Step

\* The invariant of the transaction is inductive.
LEMMA Inductive == Spec => []IInv
<1>1. Init => IInv
  BY InitControl, InitData DEF IInv
<1>2. IInv /\ [Next]_vars => IInv'
  <2> SUFFICES ASSUME IInv, [Next]_vars PROVE IInv'
    OBVIOUS
  <2>1. TypeOK' /\ ControlInv'
    BY NextKeepsControl DEF IInv
  <2>2. ignored' = {} => DataInv'
    BY <2>1, IgnoredGrows, NextKeepsData DEF IInv
  <2> QED BY <2>1, <2>2 DEF IInv
<1> QED BY <1>1, <1>2, PTL DEF Spec

\* In each of the three situations, a stop leaves one generation.
LEMMA DataIsRecoverable ==
  ASSUME TypeOK, DataInv
  PROVE  OldOrNew
<1> SUFFICES ASSUME NEW m \in markerImages, NEW a \in Artifact, NEW f \in images[a]
             PROVE  Recovered(m, f, a) = Expected(m)[a]
  BY DEF OldOrNew
<1>1. CASE pc \in Deciding
  <2>1. m \in {Entries, Absent} /\ f.path = target[a] /\ Undoes(Entries, f, a)
    BY <1>1, DecidingFacts DEF Published
  <2>2. Entries # Absent
    BY AbsentAssumption DEF Entries, Journal, TypeOK, CallOK
  <2> QED BY <1>1, <2>1, <2>2 DEF Recovered, Expected, Undoes
<1>2. CASE pc \notin Deciding
  <2>1. Quiet \/ Journaled
    BY <1>2 DEF TypeOK, CallOK, PC, DataInv, PhaseInv, Idle, RecoverInv, JournalInv,
       PreparedInv, UndoInv, CommittedInv, Prepared, Deciding, Undoing, Recovering
  <2>2. Quiet => Recovered(m, f, a) = current[a]
    BY DEF Quiet, Recovered
  <2>3. Journaled => Recovered(m, f, a) = current[a]
    BY DEF Journaled, Undoes
  <2> QED BY <1>2, <2>1, <2>2, <2>3 DEF Expected
<1> QED BY <1>1, <1>2

\* Recoverable is an invariant: if the machine stops at any step of a commit or
\* of a recovery, then whatever the file system kept of the calls that were not
\* synchronized, RecoverTransaction gives every artifact of one generation.
THEOREM RecoverableHolds == Spec => []Recoverable
<1>1. IInv => Recoverable
  BY DataIsRecoverable DEF IInv, Recoverable
<1> QED BY <1>1, Inductive, PTL

\* LoadedIsCommitted is an invariant: a reader whose recovery succeeded reads
\* the committed generation.
THEOREM LoadedIsCommittedHolds == Spec => []LoadedIsCommitted
<1>1. IInv => LoadedIsCommitted
  BY DEF IInv, LoadedIsCommitted, DataInv, PhaseInv, CommittedInv, Quiet, Visible
<1> QED BY <1>1, Inductive, PTL

-----------------------------------------------------------------------------
(* The refinement: what the next reader gets, and how a step changes it *)

\* What the next reader gets is the committed generation, or the new one once
\* the journal was removed.
LEMMA ReaderIs ==
  ASSUME TypeOK, DataInv
  PROVE  NextReader = IF pc \in Deciding /\ marker = Absent THEN target ELSE current
<1>1. target \in [Artifact -> Content] /\ current \in [Artifact -> Content]
  BY DEF TypeOK, CallOK, HistoryOK
<1>2. \A a \in Artifact : Recovered(marker, file[a], a) = Expected(marker)[a]
  BY DataIsRecoverable DEF OldOrNew, DataInv, Visible
<1>3. NextReader = [a \in Artifact |-> Expected(marker)[a]]
  BY <1>2 DEF NextReader
<1>4. Expected(marker) \in [Artifact -> Content]
  BY <1>1 DEF Expected
<1>5. NextReader = Expected(marker)
  BY <1>3, <1>4
<1> QED BY <1>5 DEF Expected

\* Of the calls in progress, only the one that synchronizes the removal of the
\* journal commits; the only call that is not refused when it returns is one
\* that committed, or a load.
LEMMA StepShape ==
  ASSUME Step
  PROVE  /\ pc # "idle" /\ target' = target /\ mode' = mode
         /\ \/ pc = "unmarkSync" /\ pc' = "finish" /\ current' = target
            \/ pc' # "finish" /\ current' = current
         /\ pc' = "idle" => pc \notin Deciding
         /\ pc = "finish" => pc' = "idle"
<1>1. CASE FindMarker \/ RecoverRemove \/ RecoverRestore \/ RecoverSync
  BY <1>1 DEF FindMarker, RecoverRemove, RecoverRestore, RecoverSync, Goto, Return,
     history, Deciding
<1>2. CASE DropMarker \/ DropSync \/ RemoveLeftovers \/ Finish
  BY <1>2 DEF DropMarker, DropSync, RemoveLeftovers, Finish, Goto, Return, history,
     Deciding
<1>3. CASE Stage \/ WriteJournal \/ RenameJournal \/ SyncJournal
  BY <1>3 DEF Stage, WriteJournal, RenameJournal, SyncJournal, AbandonJournal, Goto,
     Return, history, Deciding
<1>4. CASE MoveToBackup \/ SyncBackup \/ Publish \/ SyncPublish
  BY <1>4 DEF MoveToBackup, SyncBackup, Publish, SyncPublish, BeginRollback, Goto,
     history, Deciding
<1>5. CASE Unmark \/ SyncUnmark \/ RewriteJournal
  BY <1>5 DEF Unmark, SyncUnmark, RewriteJournal, BeginRollback, Goto, history,
     Deciding
<1>6. CASE Rollback \/ RollbackRename \/ EndRollback
  BY <1>6 DEF Rollback, RollbackRename, EndRollback, Goto, Return, history, Deciding
<1> QED BY <1>1, <1>2, <1>3, <1>4, <1>5, <1>6 DEF Step

\* A step of the transaction is a step of AtomicGeneration, or leaves all of
\* its state alone.
LEMMA StepRefines ==
  ASSUME TypeOK, ControlInv, DataInv, TypeOK', ControlInv', DataInv', [Next]_vars
  PROVE  [Atomic!Next]_(Atomic!vars)
<1> DEFINE Busy == mode = "commit" /\ pc \notin {"idle", "finish"}
<1>1. /\ NextReader = IF pc \in Deciding /\ marker = Absent THEN target ELSE current
      /\ NextReader' = IF pc' \in Deciding /\ marker' = Absent THEN target'
                       ELSE current'
  <2>1. NextReader = IF pc \in Deciding /\ marker = Absent THEN target ELSE current
    BY ReaderIs
  <2>2. (NextReader = IF pc \in Deciding /\ marker = Absent THEN target ELSE current)'
    BY ReaderIs, PTL
  <2> QED BY <2>1, <2>2
<1>2. /\ pc \in Deciding => mode = "commit" /\ Busy
      /\ pc' \in Deciding => mode' = "commit" /\ Busy'
  BY DEF ControlInv, Committing, Deciding
<1>3. pc = "unmarkSync" => marker = Absent
  BY DEF DataInv, PhaseInv, DecidingInv, Deciding
<1>4. CASE BeginLoad
  <2>1. UNCHANGED <<NextReader, current, target>> /\ Busy = FALSE /\ Busy' = FALSE
    BY <1>4 DEF BeginLoad, NextReader, disk, history, Goto
  <2> QED BY <2>1 DEF Atomic!vars
<1>5. CASE BeginCommit
  <2>1. UNCHANGED <<NextReader, current>>
    BY <1>5 DEF BeginCommit, NextReader, disk, history, Goto
  <2>2. ~Busy /\ Busy' = TRUE
    BY <1>5 DEF BeginCommit, Goto
  <2>3. target' \in [Artifact -> Content]
    BY DEF TypeOK, CallOK
  <2> QED BY <2>1, <2>2, <2>3 DEF Atomic!Next, Atomic!Start
<1>6. CASE Step
  <2> USE <1>6, StepShape
  <2>1. CASE ~Busy
    <3>1. mode' = mode /\ target' = target /\ current' = current
      BY <1>2, <2>1 DEF Deciding
    <3>2. Busy = FALSE /\ Busy' = FALSE
      BY <2>1
    <3>3. NextReader = current /\ NextReader' = current
      BY <1>1, <1>2, <2>1, <3>1, <3>2 DEF Deciding
    <3> QED BY <3>1, <3>2, <3>3 DEF Atomic!vars
  <2>2. CASE Busy /\ pc' = "finish"
    <3>1. NextReader = target /\ NextReader' = current' /\ current' = target
      BY <1>1, <1>3, <2>2 DEF Deciding
    <3>2. target' = target /\ Busy' = FALSE
      BY <2>2
    <3> QED BY <2>2, <3>1, <3>2 DEF Atomic!Next, Atomic!Acknowledge
  <2>3. CASE Busy /\ pc' = "idle"
    <3>1. current' = current /\ NextReader = current /\ NextReader' = current'
      BY <1>1, <2>3 DEF Deciding
    <3>2. target' = target /\ Busy' = FALSE
      BY <2>3
    <3> QED BY <2>3, <3>1, <3>2 DEF Atomic!Next, Atomic!Refuse
  <2>4. CASE Busy /\ pc' \notin {"idle", "finish"}
    <3>1. current' = current /\ target' = target /\ Busy' = TRUE /\ Busy = TRUE
      BY <2>4
    <3>2. NextReader' \in {current, target}
      BY <1>1, <3>1
    <3> QED BY <3>1, <3>2 DEF Atomic!Next, Atomic!Switch
  <2> QED BY <2>1, <2>2, <2>3, <2>4
<1>7. CASE Crash
  <2>1. /\ pc' = "idle" /\ target' = target /\ Busy' = FALSE
        /\ current' \in {current, target}
    BY <1>7 DEF Crash
  <2>2. NextReader' = current'
    BY <1>1, <2>1 DEF Deciding
  <2>3. CASE Busy
    BY <2>1, <2>2, <2>3 DEF Atomic!Next, Atomic!Stop
  <2>4. CASE ~Busy
    <3>1. pc \notin Deciding
      BY <1>2, <2>4
    <3>2. current' = current
      BY <1>7, <3>1 DEF Crash
    <3>3. NextReader = current
      BY <1>1, <3>1
    <3>4. Busy = FALSE
      BY <2>4
    <3> QED BY <2>1, <2>2, <3>2, <3>3, <3>4 DEF Atomic!vars
  <2> QED BY <2>3, <2>4
<1>8. CASE UNCHANGED vars
  BY <1>8 DEF vars, disk, history, Atomic!vars, NextReader
<1> QED BY <1>4, <1>5, <1>6, <1>7, <1>8 DEF Next

\* ImplementsAtomicGeneration: CommitArtifacts and RecoverTransaction, call by
\* call, with any number of failing calls and of stops, behave as one atomic
\* change of all the artifacts, as long as no failure they ignore happened.
THEOREM RefinesAtomicGeneration == Spec => ImplementsAtomicGeneration
<1>1. Init => Atomic!Init
  <2> SUFFICES ASSUME Init PROVE Atomic!Init
    OBVIOUS
  <2>1. TypeOK /\ DataInv
    BY InitControl, InitData
  <2>2. NextReader = current
    BY <2>1, ReaderIs DEF Init, Deciding
  <2>3. current \in [Artifact -> Content]
    BY <2>1 DEF TypeOK, HistoryOK
  <2>4. (mode = "commit" /\ pc \notin {"idle", "finish"}) = FALSE
    BY DEF Init
  <2> QED BY <2>2, <2>3, <2>4 DEF Atomic!Init, Init
<1>2. IInv /\ IInv' /\ [Next]_vars => [ignored' = {} => [Atomic!Next]_(Atomic!vars)]_vars
  BY IgnoredGrows, StepRefines DEF IInv
<1> QED BY <1>1, <1>2, Inductive, PTL DEF Spec, ImplementsAtomicGeneration

=============================================================================
