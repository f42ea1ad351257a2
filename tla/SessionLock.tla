----------------------------- MODULE SessionLock -----------------------------
(***************************************************************************)
(* ProjectSessionLock (ProjectStorage.cc): the directory                   *)
(* <project>.lock with its file "owner" (token, host, PID, user), taken by *)
(* the application and by --mcp-serve before they open a project.          *)
(*                                                                         *)
(* One action per system call, for any number of processes on any number   *)
(* of hosts.  A process may stop at any point; its PID is not used again.  *)
(* remove_all is its two calls: unlink(owner), then rmdir.  The writes to  *)
(* owner become visible when the stream is closed; until then the file is  *)
(* empty, which ReadLockOwner rejects.  A token is drawn once for every    *)
(* directory created, so the number of the directory stands for it.        *)
(***************************************************************************)
EXTENDS Naturals, FiniteSets

CONSTANTS
  Process,    \* processes that use the lock, one PID each
  host,       \* Hostname() of each
  None,       \* "no directory", "no file", "nothing seen"
  MaxLocks,   \* bound: directories created
  MaxFaults   \* bound: system calls that fail

Host == {host[p] : p \in Process}

\* Contents of the file owner: there is none, or it is empty, or it names p.
NoFile  == "no file"
Empty   == "empty"
Owner   == Process \cup {NoFile, Empty}
Lock    == [number : Nat, creator : Process, owner : Owner]

ASSUME LockConstants ==
  /\ MaxLocks \in Nat /\ MaxFaults \in Nat
  /\ NoFile \notin Process /\ Empty \notin Process
  /\ None \notin Process /\ None \notin Lock

VARIABLES
  lock,       \* the directory, or None
  pc,         \* the next system call of each process
  attempt,    \* the loop counter of Acquire
  seen,       \* what ReadLockOwner found, or None
  opened,     \* the directory whose owner file was opened (its token)
  then,       \* what follows remove_all: "retry", "fail" or "released"
  outcome,    \* what the last Acquire of each process returned
  created,    \* number of directories created
  misfired,   \* a stale lock's removal hit another directory than the one seen
  faults

vars == <<lock, pc, attempt, seen, opened, then, outcome, created, misfired,
          faults>>

PC == { "idle", "mkdir", "open", "close", "read", "kill", "unlink", "rmdir",
        "held", "release", "gone" }

TypeOK ==
  /\ lock \in Lock \cup {None}
  /\ pc \in [Process -> PC]
  /\ attempt \in [Process -> {0, 1}]
  /\ seen \in [Process -> Lock \cup {None}]
  /\ opened \in [Process -> Nat]
  /\ then \in [Process -> {"retry", "fail", "released"}]
  /\ outcome \in [Process -> {"none", "held", "invalid", "busy", "error"}]
  /\ created \in Nat /\ misfired \in BOOLEAN /\ faults \in Nat

Init ==
  /\ lock = None
  /\ pc = [p \in Process |-> "idle"]
  /\ attempt = [p \in Process |-> 0]
  /\ seen = [p \in Process |-> None]
  /\ opened = [p \in Process |-> 0]
  /\ then = [p \in Process |-> "fail"]
  /\ outcome = [p \in Process |-> "none"]
  /\ created = 0
  /\ misfired = FALSE
  /\ faults = 0

-----------------------------------------------------------------------------
Goto(p, label) == pc' = [pc EXCEPT ![p] = label]
Return(p, result) ==
  Goto(p, "idle") /\ outcome' = [outcome EXCEPT ![p] = result]

Works == UNCHANGED faults
Fails == faults < MaxFaults /\ faults' = faults + 1

RemoveAll(p, next) ==
  Goto(p, "unlink") /\ then' = [then EXCEPT ![p] = next]

\* What Acquire or Release does once its remove_all has ended.
AfterRemove(p) ==
  CASE then[p] = "retry" ->
         IF attempt[p] = 0
         THEN /\ attempt' = [attempt EXCEPT ![p] = 1]
              /\ Goto(p, "mkdir") /\ UNCHANGED outcome
         ELSE Return(p, "error") /\ UNCHANGED attempt
    [] then[p] = "fail" -> Return(p, "error") /\ UNCHANGED attempt
    [] then[p] = "released" ->
         Goto(p, "idle") /\ UNCHANGED <<attempt, outcome>>

\* A system call of remove_all fails: Acquire reports it when it removes a
\* stale lock, and it is ignored otherwise.
RemoveFails(p) ==
  /\ IF then[p] = "released" THEN Goto(p, "idle") /\ UNCHANGED outcome
     ELSE Return(p, "error")
  /\ UNCHANGED attempt

-----------------------------------------------------------------------------
(* Acquire *)

Acquire(p) ==
  /\ pc[p] = "idle"
  /\ created < MaxLocks
  /\ Goto(p, "mkdir")
  /\ attempt' = [attempt EXCEPT ![p] = 0]
  /\ outcome' = [outcome EXCEPT ![p] = "none"]
  /\ seen' = [seen EXCEPT ![p] = None]
  /\ opened' = [opened EXCEPT ![p] = 0]
  /\ UNCHANGED <<lock, then, created, misfired, faults>>

\* create_directory
MakeDirectory(p) ==
  /\ pc[p] = "mkdir"
  /\ \/ /\ Works
        /\ lock = None
        /\ created < MaxLocks
        /\ created' = created + 1
        /\ lock' = [number |-> created + 1, creator |-> p, owner |-> NoFile]
        /\ Goto(p, "open") /\ UNCHANGED outcome
     \/ /\ Works
        /\ lock # None
        /\ Goto(p, "read") /\ UNCHANGED <<lock, created, outcome>>
     \/ Fails /\ Return(p, "error") /\ UNCHANGED <<lock, created>>
  /\ UNCHANGED <<attempt, seen, opened, then, misfired>>

\* ofstream(directory / "owner", trunc): by name, so it fails if the directory
\* is gone, and creates or truncates the file of whatever directory is there.
OpenOwner(p) ==
  /\ pc[p] = "open"
  /\ \/ /\ Works
        /\ lock # None
        /\ lock' = [lock EXCEPT !.owner = Empty]
        /\ opened' = [opened EXCEPT ![p] = lock.number]
        /\ Goto(p, "close") /\ UNCHANGED then
     \/ /\ IF lock = None THEN Works ELSE Fails
        /\ RemoveAll(p, "fail") /\ UNCHANGED <<lock, opened>>
  /\ UNCHANGED <<attempt, seen, outcome, created, misfired>>

\* output.close(): the text reaches the file that was opened, if it is still
\* there under its name; the stream does not notice when it is not.
CloseOwner(p) ==
  /\ pc[p] = "close"
  /\ \/ /\ Works
        /\ lock' = IF lock # None /\ lock.number = opened[p] /\ lock.owner # NoFile
                   THEN [lock EXCEPT !.owner = p] ELSE lock
        /\ Goto(p, "held")
        /\ outcome' = [outcome EXCEPT ![p] = "held"] /\ UNCHANGED then
     \/ Fails /\ RemoveAll(p, "fail") /\ UNCHANGED <<lock, outcome>>
  /\ UNCHANGED <<attempt, seen, opened, created, misfired>>

\* Mutant: only the PID of the owner is kept, neither its host nor its token.
ReadOwnerPidOnly(p) ==
  /\ pc[p] = "read"
  /\ IF lock # None /\ lock.owner \in Process
     THEN /\ seen' = [seen EXCEPT ![p] = lock.owner]
          /\ Goto(p, "kill") /\ UNCHANGED outcome
     ELSE Return(p, "invalid") /\ UNCHANGED seen
  /\ UNCHANGED <<lock, attempt, opened, then, created, misfired, faults>>

\* ReadLockOwner of a lock that exists.
ReadOwner(p) ==
  /\ pc[p] = "read"
  /\ IF lock # None /\ lock.owner \in Process
     THEN /\ seen' = [seen EXCEPT ![p] = lock]
          /\ Goto(p, "kill") /\ UNCHANGED outcome
     ELSE Return(p, "invalid") /\ UNCHANGED seen
  /\ UNCHANGED <<lock, attempt, opened, then, created, misfired, faults>>

\* Mutants: the owner's process is not looked for; its host is not compared,
\* and no PID of another machine is found on this one.
CheckOwnerNoKill(p) ==
  /\ pc[p] = "kill"
  /\ IF host[seen[p].owner] = host[p]
     THEN RemoveAll(p, "retry") /\ UNCHANGED outcome
     ELSE Return(p, "busy") /\ UNCHANGED then
  /\ UNCHANGED <<lock, attempt, seen, opened, created, misfired, faults>>

CheckOwnerAnyHost(p) ==
  /\ pc[p] = "kill"
  /\ LET q == seen[p].owner
     IN IF host[q] # host[p] \/ pc[q] = "gone"
        THEN RemoveAll(p, "retry") /\ UNCHANGED outcome
        ELSE Return(p, "busy") /\ UNCHANGED then
  /\ UNCHANGED <<lock, attempt, seen, opened, created, misfired, faults>>

\* host == Hostname() && kill(pid, 0) != 0 && errno == ESRCH
CheckOwner(p) ==
  /\ pc[p] = "kill"
  /\ LET q == seen[p].owner
     IN IF host[q] = host[p] /\ pc[q] = "gone"
        THEN RemoveAll(p, "retry") /\ UNCHANGED outcome
        ELSE Return(p, "busy") /\ UNCHANGED then
  /\ UNCHANGED <<lock, attempt, seen, opened, created, misfired, faults>>

-----------------------------------------------------------------------------
(* remove_all(directory) *)

\* The removal of a stale lock meets another directory than the one it saw.
Misfires(p) ==
  then[p] = "retry" /\ lock # None /\ lock.number # seen[p].number

UnlinkOwner(p) ==
  /\ pc[p] = "unlink"
  /\ \/ /\ Works
        /\ lock' = IF lock = None THEN None ELSE [lock EXCEPT !.owner = NoFile]
        /\ misfired' = (misfired \/ Misfires(p))
        /\ Goto(p, "rmdir") /\ UNCHANGED <<attempt, outcome>>
     \/ /\ lock # None /\ Fails
        /\ RemoveFails(p) /\ UNCHANGED <<lock, misfired>>
  /\ UNCHANGED <<seen, opened, then, created>>

\* rmdir refuses a directory whose owner file is back.
RemoveDirectory(p) ==
  /\ pc[p] = "rmdir"
  /\ \/ /\ Works
        /\ lock # None => lock.owner = NoFile
        /\ lock' = None
        /\ misfired' = (misfired \/ Misfires(p))
        /\ AfterRemove(p)
     \/ /\ lock # None
        /\ IF lock.owner = NoFile THEN Fails ELSE Works
        /\ RemoveFails(p) /\ UNCHANGED <<lock, misfired>>
  /\ UNCHANGED <<seen, opened, then, created>>

-----------------------------------------------------------------------------
(* Release: the lock is removed if the token in it is still our own. *)

Release(p) ==
  /\ pc[p] = "held"
  /\ IF lock # None /\ lock.owner = p /\ lock.number = opened[p]
     THEN RemoveAll(p, "released")
     ELSE Goto(p, "idle") /\ UNCHANGED then
  /\ UNCHANGED <<lock, attempt, seen, opened, outcome, created, misfired, faults>>

\* The process ends, cleanly (idle) or not.
Exit(p) ==
  /\ pc[p] # "gone"
  /\ Goto(p, "gone")
  /\ UNCHANGED <<lock, attempt, seen, opened, then, outcome, created, misfired,
                 faults>>

ProcessStep(p) ==
  \/ Acquire(p) \/ MakeDirectory(p) \/ OpenOwner(p) \/ CloseOwner(p)
  \/ ReadOwner(p) \/ CheckOwner(p) \/ UnlinkOwner(p) \/ RemoveDirectory(p)
  \/ Release(p) \/ Exit(p)

Next == \E p \in Process : ProcessStep(p)

Spec == Init /\ [][Next]_vars

-----------------------------------------------------------------------------
(* Properties *)

Holders == {p \in Process : pc[p] = "held"}

\* PROJECT_STORAGE_SPEC.md, "Une seconde ecriture est refusee": no two
\* processes hold the lock of one project.
SingleHolder == \A p, q \in Holders : p = q

\* As long as no removal of a stale lock hits a lock taken since it was read,
\* at most one process holds the lock, and the directory says who: in spite of
\* failing calls, of processes that stop anywhere, and of any number of
\* processes that reclaim the same stale lock.
Exclusive ==
  ~misfired => /\ SingleHolder
               /\ \A p \in Holders : lock # None /\ lock.owner = p

\* A lock with a valid owner is taken away only by that owner, or when its
\* owner is a stopped process of the same host ("un verrou d'une autre machine
\* n'est jamais casse automatiquement").
StaleOnly ==
  [][ \A q \in Process :
        /\ lock # None /\ lock.owner = q
        /\ lock' = None \/ lock'.owner # q
        /\ ~misfired'
        => \/ pc[q] = "unlink"
           \/ pc[q] = "gone" /\ \E p \in Process : /\ pc[p] = "unlink"
                                                   /\ host[p] = host[q]
    ]_vars

\* main.mm, loadDocumentAndSources: "Acquire() does reclaim a lock whose owning
\* pid is gone": an Acquire is refused only while another process is there to
\* refuse it for.
NeverWedged ==
  [][ \A p \in Process :
        outcome[p] # "invalid" /\ outcome'[p] = "invalid" =>
          \E q \in Process \ {p} : pc[q] \notin {"idle", "gone"} ]_vars

=============================================================================
