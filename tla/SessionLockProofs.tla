--------------------------- MODULE SessionLockProofs ---------------------------
(***************************************************************************)
(* Exclusive and StaleOnly, for any set of processes on any hosts, any     *)
(* number of locks created and of failing calls.                           *)
(*                                                                         *)
(* The inductive invariant ties the directory to the one process that may  *)
(* still change it: its creator, from mkdir until its own remove_all, or   *)
(* nobody but the processes that saw its creator dead.                     *)
(***************************************************************************)
EXTENDS SessionLock, TLAPS

\* p created the directory and has not removed it.
Owns(p) ==
  \/ pc[p] \in {"open", "close", "held"}
  \/ pc[p] \in {"unlink", "rmdir"} /\ then[p] # "retry"

Reclaims(p) == pc[p] \in {"unlink", "rmdir"} /\ then[p] = "retry"

DirectoryInv ==
  lock # None => /\ lock.number <= created
                 /\ lock.owner \in {NoFile, Empty, lock.creator}

SeenInv ==
  \A p \in Process : seen[p] # None =>
    /\ seen[p].number <= created
    /\ seen[p].owner = seen[p].creator
    /\ lock # None /\ lock.number = seen[p].number =>
         lock.creator = seen[p].creator

OwnerInv ==
  \A p \in Process :
    /\ Owns(p) => lock # None /\ lock.creator = p
    /\ pc[p] = "open" => lock.owner = NoFile
    /\ pc[p] = "close" => lock.owner = Empty /\ lock.number = opened[p]
    /\ pc[p] = "held" => lock.owner = p

ReclaimInv ==
  \A p \in Process :
    /\ pc[p] = "kill" => seen[p] # None
    /\ Reclaims(p) => /\ seen[p] # None
                      /\ pc[seen[p].creator] = "gone"
                      /\ host[seen[p].creator] = host[p]

LockInv == DirectoryInv /\ SeenInv /\ OwnerInv /\ ReclaimInv
IInv == TypeOK /\ (~misfired => LockInv)

-----------------------------------------------------------------------------
\* The lock's variables keep their types.
LEMMA NextKeepsType ==
  ASSUME TypeOK, [Next]_vars
  PROVE  TypeOK'
<1> USE DEF TypeOK, Lock, Owner, PC, Goto, Return, Works, Fails, RemoveAll, RemoveFails
<1>1. CASE UNCHANGED vars
  BY <1>1 DEF vars
<1>2. ASSUME NEW p \in Process, ProcessStep(p) PROVE TypeOK'
  <2>1. CASE Acquire(p)
    BY <2>1 DEF Acquire
  <2>2. CASE MakeDirectory(p)
    BY <2>2 DEF MakeDirectory
  <2>3. CASE OpenOwner(p)
    BY <2>3 DEF OpenOwner
  <2>4. CASE CloseOwner(p)
    BY <2>4 DEF CloseOwner
  <2>5. CASE ReadOwner(p)
    BY <2>5 DEF ReadOwner
  <2>6. CASE CheckOwner(p)
    BY <2>6 DEF CheckOwner
  <2>7. CASE UnlinkOwner(p)
    <3>1. misfired' \in BOOLEAN
      BY <2>7 DEF UnlinkOwner, Misfires
    <3>2. lock' \in Lock \cup {None}
      BY <2>7 DEF UnlinkOwner
    <3> QED BY <2>7, <3>1, <3>2 DEF UnlinkOwner
  <2>8. CASE RemoveDirectory(p)
    <3>1. misfired' \in BOOLEAN
      BY <2>8 DEF RemoveDirectory, Misfires
    <3>2. lock' \in Lock \cup {None}
      BY <2>8 DEF RemoveDirectory
    <3>3. /\ attempt' \in [Process -> {0, 1}] /\ pc' \in [Process -> PC]
          /\ outcome' \in [Process -> {"none", "held", "invalid", "busy", "error"}]
      BY <2>8 DEF RemoveDirectory, AfterRemove
    <3> QED BY <2>8, <3>1, <3>2, <3>3 DEF RemoveDirectory
  <2>9. CASE Release(p)
    BY <2>9 DEF Release
  <2>10. CASE Exit(p)
    BY <2>10 DEF Exit
  <2> QED BY <1>2, <2>1, <2>2, <2>3, <2>4, <2>5, <2>6, <2>7, <2>8, <2>9, <2>10
          DEF ProcessStep
<1> QED BY <1>1, <1>2 DEF Next

\* A process that stopped stays stopped, and only p moves.
LEMMA OnlyOneMoves ==
  ASSUME TypeOK, NEW p \in Process, ProcessStep(p)
  PROVE  /\ pc[p] # "gone"
         /\ \A q \in Process : q # p => /\ pc'[q] = pc[q] /\ then'[q] = then[q]
                                        /\ opened'[q] = opened[q] /\ seen'[q] = seen[q]
BY DEF ProcessStep, TypeOK, Goto, Return, RemoveAll, RemoveFails, AfterRemove,
   Acquire, MakeDirectory, OpenOwner, CloseOwner, ReadOwner, CheckOwner, UnlinkOwner,
   RemoveDirectory, Release, Exit

\* Only p's own part of ReclaimInv can be disturbed by its step.
LEMMA ReclaimKeeps ==
  ASSUME TypeOK, TypeOK', LockInv, NEW p \in Process, ProcessStep(p),
         pc'[p] = "kill" => seen'[p] # None,
         Reclaims(p)' => /\ seen'[p] # None /\ seen'[p].creator \in Process \ {p}
                         /\ pc[seen'[p].creator] = "gone"
                         /\ host[seen'[p].creator] = host[p]
  PROVE  ReclaimInv'
<1> SUFFICES ASSUME NEW q \in Process
             PROVE  /\ pc'[q] = "kill" => seen'[q] # None
                    /\ Reclaims(q)' => /\ seen'[q] # None
                                       /\ pc'[seen'[q].creator] = "gone"
                                       /\ host[seen'[q].creator] = host[q]
  BY DEF ReclaimInv
<1>1. \A r \in Process : pc[r] = "gone" => r # p /\ pc'[r] = "gone"
  BY OnlyOneMoves
<1>2. CASE q = p
  BY <1>1, <1>2
<1>3. CASE q # p
  <2>1. pc'[q] = pc[q] /\ then'[q] = then[q] /\ seen'[q] = seen[q]
    BY <1>3, OnlyOneMoves
  <2>2. seen[q] # None => seen[q].creator \in Process
    BY DEF TypeOK, Lock
  <2> QED BY <1>1, <2>1, <2>2 DEF LockInv, ReclaimInv, Reclaims
<1> QED BY <1>2, <1>3

\* Every step that does not misfire keeps the invariant of the lock.
LEMMA StepKeepsLock ==
  ASSUME TypeOK, TypeOK', LockInv, ~misfired', NEW p \in Process, ProcessStep(p)
  PROVE  LockInv'
<1> USE LockConstants DEF Goto, Return, Works, Fails, RemoveAll
<1>1. /\ \A q \in Process : q # p => /\ pc'[q] = pc[q] /\ then'[q] = then[q]
                                     /\ opened'[q] = opened[q] /\ seen'[q] = seen[q]
      /\ pc \in [Process -> PC] /\ then \in [Process -> {"retry", "fail", "released"}]
      /\ seen \in [Process -> Lock \cup {None}] /\ lock \in Lock \cup {None}
      /\ lock' \in Lock \cup {None} /\ opened \in [Process -> Nat] /\ created \in Nat
  BY OnlyOneMoves DEF TypeOK
<1>2. \A q \in Process : Owns(q) => lock # None /\ lock.creator = q
  BY DEF LockInv, OwnerInv
<1>3. \A q \in Process : Owns(p) /\ q # p => ~Owns(q)
  BY <1>2
<1>4. \A q \in Process : seen[q] # None => seen[q].creator \in Process
  BY <1>1 DEF Lock
\* The steps that leave the directory alone.
<1>5. ASSUME UNCHANGED <<lock, created, seen, opened>>, Owns(p)' => Owns(p),
             pc'[p] \in {"open", "close", "held"} => pc'[p] = pc[p]
      PROVE  DirectoryInv' /\ SeenInv' /\ OwnerInv'
  <2>1. DirectoryInv' /\ SeenInv'
    BY <1>5 DEF LockInv, DirectoryInv, SeenInv
  <2>2. OwnerInv'
    BY <1>1, <1>5 DEF LockInv, OwnerInv, Owns
  <2> QED BY <2>1, <2>2
<1>6. CASE Acquire(p)
  <2>1. /\ UNCHANGED <<lock, created>> /\ pc'[p] = "mkdir"
        /\ \A q \in Process : seen'[q] \in {None, seen[q]}
    BY <1>1, <1>6 DEF Acquire
  <2>2. DirectoryInv' /\ SeenInv'
    BY <2>1 DEF LockInv, DirectoryInv, SeenInv
  <2>3. OwnerInv'
    BY <1>1, <2>1 DEF LockInv, OwnerInv, Owns
  <2>4. ReclaimInv'
    BY <2>1, ReclaimKeeps DEF Reclaims
  <2> QED BY <2>2, <2>3, <2>4 DEF LockInv
<1>7. CASE MakeDirectory(p)
  <2>1. UNCHANGED <<seen, then, opened>> /\ pc'[p] \in {"open", "read", "idle"}
    BY <1>1, <1>7 DEF MakeDirectory
  <2>2. ReclaimInv'
    BY <2>1, ReclaimKeeps DEF Reclaims
  <2>3. CASE pc'[p] = "open"
    <3>1. /\ lock' = [number |-> created + 1, creator |-> p, owner |-> NoFile]
          /\ created' = created + 1 /\ lock = None
      BY <1>1, <1>7, <2>3 DEF MakeDirectory
    <3>2. DirectoryInv'
      BY <1>1, <3>1 DEF DirectoryInv
    <3>3. SeenInv'
      BY <1>1, <2>1, <3>1 DEF LockInv, SeenInv, Lock
    <3>4. \A q \in Process : ~Owns(q)
      BY <1>2, <3>1
    <3>5. OwnerInv'
      <4>1. lock' # None /\ lock'.creator = p /\ lock'.owner = NoFile
        BY <1>1, <3>1 DEF Lock, Owner
      <4> QED BY <1>1, <2>3, <3>4, <4>1 DEF OwnerInv, Owns
    <3> QED BY <2>2, <3>2, <3>3, <3>5 DEF LockInv
  <2>4. CASE pc'[p] # "open"
    <3>1. UNCHANGED <<lock, created>>
      BY <1>1, <1>7, <2>4 DEF MakeDirectory
    <3> QED BY <1>5, <2>1, <2>2, <2>4, <3>1 DEF LockInv, Owns
  <2> QED BY <2>3, <2>4
<1>8. CASE OpenOwner(p)
  <2>1. pc[p] = "open" /\ Owns(p) /\ lock # None /\ lock.owner = NoFile
        /\ UNCHANGED <<seen, created>>
    BY <1>2, <1>8 DEF OpenOwner, Owns, LockInv, OwnerInv
  <2>2. pc'[p] \in {"close", "unlink"} /\ (pc'[p] = "unlink" => then'[p] = "fail")
    BY <1>1, <1>8 DEF OpenOwner
  <2>3. ReclaimInv'
    BY <2>2, ReclaimKeeps DEF Reclaims
  <2>4. CASE pc'[p] = "close"
    <3>1. lock' = [lock EXCEPT !.owner = Empty] /\ opened'[p] = lock.number
      BY <1>1, <1>8, <2>4 DEF OpenOwner
    <3>2. /\ lock' # None /\ lock'.number = lock.number
          /\ lock'.creator = lock.creator /\ lock'.owner = Empty
      BY <1>1, <2>1, <3>1 DEF Lock, Owner
    <3>3. DirectoryInv' /\ SeenInv'
      BY <2>1, <3>2 DEF LockInv, DirectoryInv, SeenInv
    <3>4. OwnerInv'
      BY <1>1, <1>2, <1>3, <2>1, <2>4, <3>1, <3>2 DEF OwnerInv, Owns
    <3> QED BY <2>3, <3>3, <3>4 DEF LockInv
  <2>5. CASE pc'[p] = "unlink"
    <3>1. UNCHANGED <<lock, opened>>
      BY <1>1, <1>8, <2>5 DEF OpenOwner
    <3> QED BY <1>5, <2>1, <2>3, <2>5, <3>1 DEF LockInv
  <2> QED BY <2>2, <2>4, <2>5
<1>9. CASE CloseOwner(p)
  <2>1. /\ pc[p] = "close" /\ Owns(p) /\ lock # None /\ lock.owner = Empty
        /\ lock.number = opened[p] /\ UNCHANGED <<seen, created, opened>>
    BY <1>2, <1>9 DEF CloseOwner, Owns, LockInv, OwnerInv
  <2>2. pc'[p] \in {"held", "unlink"} /\ (pc'[p] = "unlink" => then'[p] = "fail")
    BY <1>1, <1>9 DEF CloseOwner
  <2>3. ReclaimInv'
    BY <2>2, ReclaimKeeps DEF Reclaims
  <2>4. CASE pc'[p] = "held"
    <3>1. lock' = [lock EXCEPT !.owner = p]
      BY <1>1, <1>9, <2>1, <2>4 DEF CloseOwner, NoFile, Empty
    <3>2. /\ lock' # None /\ lock'.number = lock.number
          /\ lock'.creator = lock.creator /\ lock'.owner = p /\ lock.creator = p
      BY <1>1, <1>2, <2>1, <3>1 DEF Lock, Owner
    <3>3. DirectoryInv' /\ SeenInv'
      BY <2>1, <3>2 DEF LockInv, DirectoryInv, SeenInv
    <3>4. OwnerInv'
      BY <1>1, <1>2, <1>3, <2>1, <2>4, <3>1, <3>2 DEF OwnerInv, Owns
    <3> QED BY <2>3, <3>3, <3>4 DEF LockInv
  <2>5. CASE pc'[p] = "unlink"
    <3>1. UNCHANGED lock
      BY <1>1, <1>9, <2>5 DEF CloseOwner
    <3> QED BY <1>5, <2>1, <2>3, <2>5, <3>1 DEF LockInv
  <2> QED BY <2>2, <2>4, <2>5
<1>10. CASE ReadOwner(p)
  <2>1. /\ UNCHANGED <<lock, created, then>> /\ pc'[p] \in {"kill", "idle"}
        /\ seen'[p] \in {lock, seen[p]}
        /\ pc'[p] = "kill" => seen'[p] = lock /\ lock # None
        /\ seen'[p] # seen[p] => lock.owner \in Process
    BY <1>1, <1>10 DEF ReadOwner
  <2>2. ReclaimInv'
    BY <2>1, ReclaimKeeps DEF Reclaims
  <2>3. DirectoryInv'
    BY <2>1 DEF LockInv, DirectoryInv
  <2>4. SeenInv'
    BY <1>1, <2>1 DEF LockInv, SeenInv, DirectoryInv
  <2>5. OwnerInv'
    BY <1>1, <2>1 DEF LockInv, OwnerInv, Owns
  <2> QED BY <2>2, <2>3, <2>4, <2>5 DEF LockInv
<1>11. CASE CheckOwner(p)
  <2>1. /\ UNCHANGED <<lock, created, seen, opened>> /\ pc'[p] \in {"unlink", "idle"}
        /\ seen[p] # None /\ seen[p].owner = seen[p].creator
        /\ pc'[p] = "unlink" => /\ then'[p] = "retry" /\ pc[seen[p].owner] = "gone"
                                /\ host[seen[p].owner] = host[p]
        /\ pc[p] # "gone"
    BY <1>1, <1>11 DEF CheckOwner, LockInv, ReclaimInv, SeenInv
  <2>2. ReclaimInv'
    BY <1>4, <2>1, ReclaimKeeps DEF Reclaims
  <2> QED BY <1>5, <2>1, <2>2 DEF LockInv, Owns
<1>12. CASE UnlinkOwner(p) \/ RemoveDirectory(p)
  <2>1. /\ pc[p] \in {"unlink", "rmdir"} /\ UNCHANGED <<created, seen, opened, then>>
        /\ pc'[p] \in {"rmdir", "mkdir", "idle"}
        /\ pc'[p] = "rmdir" => pc[p] = "unlink"
    BY <1>1, <1>12 DEF UnlinkOwner, RemoveDirectory, AfterRemove, RemoveFails
  <2>2. UNCHANGED lock \/ (lock' = None /\ pc'[p] # "rmdir") \/ lock' = [lock EXCEPT !.owner = NoFile]
    BY <1>1, <1>12 DEF UnlinkOwner, RemoveDirectory, AfterRemove, RemoveFails
  <2>3. Reclaims(p) => seen[p] # None /\ pc[seen[p].creator] = "gone"
                       /\ host[seen[p].creator] = host[p] /\ seen[p].creator # p
    BY <1>4, <2>1 DEF LockInv, ReclaimInv
  <2>4. ReclaimInv'
    BY <1>4, <2>1, <2>3, ReclaimKeeps DEF Reclaims
  <2>5. lock # None /\ lock' # lock /\ Reclaims(p) => lock.number = seen[p].number
    BY <1>12 DEF UnlinkOwner, RemoveDirectory, Misfires, Reclaims
  <2>6. \A q \in Process : q # p /\ lock' # lock => ~Owns(q)
    <3>1. CASE Reclaims(p) /\ lock # None /\ lock' # lock
      <4>1. pc[lock.creator] = "gone"
        BY <2>3, <2>5, <3>1 DEF LockInv, SeenInv
      <4> QED BY <1>2, <4>1 DEF Owns
    <3>2. CASE ~Reclaims(p)
      BY <1>3, <2>1, <3>2 DEF Owns, Reclaims
    <3> QED BY <1>2, <3>1, <3>2
  <2>7. Owns(p)' => Owns(p) /\ pc'[p] = "rmdir"
    BY <2>1 DEF Owns
  <2>8. lock' # None => lock # None /\ lock'.number = lock.number
                        /\ lock'.creator = lock.creator
                        /\ lock'.owner \in {lock.owner, NoFile}
    <3>1. lock = None => lock' = None
      BY <1>12 DEF UnlinkOwner, RemoveDirectory
    <3> QED BY <1>1, <2>2, <3>1 DEF Lock
  <2>9. DirectoryInv' /\ SeenInv'
    BY <2>1, <2>8 DEF LockInv, DirectoryInv, SeenInv
  <2>10. OwnerInv'
    <3>1. CASE UNCHANGED lock
      BY <1>5, <2>1, <2>7, <3>1
    <3>2. CASE lock' # lock
      <4>1. \A q \in Process : q # p => ~Owns(q)'
        BY <1>1, <2>6, <3>2 DEF Owns
      <4>2. Owns(p)' => lock' # None /\ lock'.creator = p
        <5>1. lock # None => [lock EXCEPT !.owner = NoFile] # None
          BY <1>1 DEF Lock, Owner
        <5> QED BY <1>2, <2>2, <2>7, <2>8, <3>2, <5>1
      <4> QED BY <2>1, <4>1, <4>2 DEF OwnerInv, Owns
    <3> QED BY <3>1, <3>2
  <2> QED BY <2>4, <2>9, <2>10 DEF LockInv
<1>13. CASE Release(p)
  <2>1. /\ UNCHANGED <<lock, created, seen, opened>> /\ pc[p] = "held"
        /\ pc'[p] \in {"unlink", "idle"} /\ (pc'[p] = "unlink" => then'[p] = "released")
    BY <1>1, <1>13 DEF Release
  <2>2. ReclaimInv'
    BY <2>1, ReclaimKeeps DEF Reclaims
  <2> QED BY <1>5, <2>1, <2>2 DEF LockInv, Owns
<1>14. CASE Exit(p)
  <2>1. UNCHANGED <<lock, created, seen, opened, then>> /\ pc'[p] = "gone"
    BY <1>1, <1>14 DEF Exit
  <2>2. ReclaimInv'
    BY <2>1, ReclaimKeeps DEF Reclaims
  <2> QED BY <1>5, <2>1, <2>2 DEF LockInv, Owns
<1> QED BY <1>6, <1>7, <1>8, <1>9, <1>10, <1>11, <1>12, <1>13, <1>14 DEF ProcessStep

\* The lock's inductive invariant: types, and LockInv until a removal misfires.
LEMMA LockInductive == Spec => []IInv
<1>1. Init => IInv
  <2> SUFFICES ASSUME Init PROVE IInv
    OBVIOUS
  <2>1. TypeOK
    BY LockConstants DEF Init, TypeOK, PC
  <2>2. LockInv
    BY DEF Init, LockInv, DirectoryInv, SeenInv, OwnerInv, ReclaimInv, Owns, Reclaims
  <2> QED BY <2>1, <2>2 DEF IInv
<1>2. IInv /\ [Next]_vars => IInv'
  <2> SUFFICES ASSUME IInv, [Next]_vars PROVE IInv'
    OBVIOUS
  <2>1. TypeOK'
    BY NextKeepsType DEF IInv
  <2>2. ASSUME NEW p \in Process, ProcessStep(p), ~misfired' PROVE LockInv'
    <3>1. ~misfired
      BY <2>2 DEF ProcessStep, Acquire, MakeDirectory, OpenOwner, CloseOwner,
         ReadOwner, CheckOwner, UnlinkOwner, RemoveDirectory, Release, Exit
    <3> QED BY <2>1, <2>2, <3>1, StepKeepsLock DEF IInv
  <2>3. CASE UNCHANGED vars
    <3>1. misfired' = misfired
      BY <2>3 DEF vars
    <3>2. LockInv => LockInv'
      BY <2>3 DEF vars, LockInv, DirectoryInv, SeenInv, OwnerInv, ReclaimInv, Owns,
         Reclaims
    <3> QED BY <2>1, <3>1, <3>2 DEF IInv
  <2> QED BY <2>1, <2>2, <2>3 DEF Next, IInv
<1> QED BY <1>1, <1>2, PTL DEF Spec

\* Exclusive is an invariant: unless the removal of a stale lock hits a lock
\* taken since it was read, Acquire gives the project to one process at a time.
THEOREM ExclusiveHolds == Spec => []Exclusive
<1>1. IInv => Exclusive
  BY DEF IInv, LockInv, OwnerInv, Owns, Exclusive, SingleHolder, Holders
<1> QED BY <1>1, LockInductive, PTL

\* StaleOnly is a property of every step: a lock that names its owner goes away
\* only by its owner's Release, or by a process of the same host that found the
\* owner stopped.
THEOREM StaleOnlyHolds == Spec => StaleOnly
<1>1. IInv /\ IInv' /\ [Next]_vars =>
        [\A q \in Process :
           /\ lock # None /\ lock.owner = q
           /\ lock' = None \/ lock'.owner # q
           /\ ~misfired'
           => \/ pc[q] = "unlink"
              \/ pc[q] = "gone" /\ \E p \in Process : /\ pc[p] = "unlink"
                                                      /\ host[p] = host[q]
        ]_vars
  <2> SUFFICES ASSUME IInv, IInv', Next, NEW q \in Process, lock # None, lock.owner = q,
                      lock' = None \/ lock'.owner # q, ~misfired'
               PROVE  \/ pc[q] = "unlink"
                      \/ pc[q] = "gone" /\ \E p \in Process : /\ pc[p] = "unlink"
                                                              /\ host[p] = host[q]
    BY DEF vars
  <2>1. PICK p \in Process : ProcessStep(p)
    BY DEF Next
  <2>2. ~misfired
    BY <2>1 DEF ProcessStep, Acquire, MakeDirectory, OpenOwner, CloseOwner,
       ReadOwner, CheckOwner, UnlinkOwner, RemoveDirectory, Release, Exit
  <2>3. LockInv /\ q \notin {NoFile, Empty} /\ lock \in Lock /\ lock.creator = q
    BY <2>2, LockConstants DEF IInv, TypeOK, LockInv, DirectoryInv
  <2>4. lock' # lock
    OBVIOUS
  <2>5. CASE OpenOwner(p) \/ CloseOwner(p)
    <3>1. lock.owner \in {NoFile, Empty}
      BY <2>3, <2>5 DEF LockInv, OwnerInv, OpenOwner, CloseOwner
    <3> QED BY <2>3, <3>1
  <2>6. CASE UnlinkOwner(p)
    <3>1. pc[p] = "unlink" /\ (then[p] = "retry" => lock.number = seen[p].number)
      BY <2>4, <2>6 DEF UnlinkOwner, Misfires
    <3>2. CASE Reclaims(p)
      <4>1. seen[p] # None /\ pc[seen[p].creator] = "gone"
            /\ host[seen[p].creator] = host[p]
        BY <2>3, <3>2 DEF LockInv, ReclaimInv
      <4>2. seen[p].creator = q
        BY <2>3, <3>1, <3>2, <4>1 DEF LockInv, SeenInv, Reclaims
      <4> QED BY <3>1, <4>1, <4>2
    <3>3. CASE ~Reclaims(p)
      BY <2>3, <3>1, <3>3 DEF LockInv, OwnerInv, Owns, Reclaims
    <3> QED BY <3>2, <3>3
  <2>7. CASE RemoveDirectory(p)
    BY <2>3, <2>4, <2>7 DEF RemoveDirectory
  <2>8. CASE MakeDirectory(p)
    BY <2>4, <2>8 DEF MakeDirectory
  <2> QED BY <2>1, <2>4, <2>5, <2>6, <2>7, <2>8 DEF ProcessStep, Acquire, ReadOwner,
          CheckOwner, Release, Exit
<1> QED BY <1>1, LockInductive, PTL DEF Spec, StaleOnly

=============================================================================
