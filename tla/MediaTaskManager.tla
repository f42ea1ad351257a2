--------------------------- MODULE MediaTaskManager ---------------------------
(***************************************************************************)
(* MediaTaskManager (MediaTaskManager.cc): a pool of worker threads that   *)
(* runs probes, proxies, waveforms, transcriptions... outside the main     *)
(* thread.  One action per critical section of mutex_, one per call made   *)
(* outside it: the notifications, the work and the completion callbacks.   *)
(*                                                                         *)
(* A thread blocked in condition_.wait or idleCondition_.wait_for is       *)
(* asleep until it is notified, so a lost notification shows.  Progress    *)
(* and the texts of a snapshot are left out: they change under the mutex   *)
(* and nothing reads them but the interface.                               *)
(***************************************************************************)
EXTENDS Naturals, Sequences

CONSTANTS
  Task,     \* the tasks that may be enqueued
  Worker,   \* workers_
  Client,   \* threads that call the manager
  None

ASSUME ManagerConstants ==
  None \notin Task /\ Worker \cap Client = {}

VARIABLES
  state,        \* snapshot.state of each task, "new" before Enqueue
  cancelled,    \* the tasks whose cancelled flag is set
  queue,        \* queue_
  stopping,     \* stopping_
  asleep,       \* threads blocked on a condition variable
  wpc, wtask, succeeded,    \* position, task and result of each worker
  cpc, ctask, todo,         \* position, task and ids of CancelAll of each client
  completions,  \* the states given to the completion of each task, in order
  started,      \* tasks whose work was called
  accepted      \* tasks whose Cancel returned true

manager == <<state, cancelled, queue, stopping>>
workers == <<wpc, wtask, succeeded>>
clients == <<cpc, ctask, todo>>
vars    == <<manager, asleep, workers, clients, completions, started, accepted>>

Settled == {"Succeeded", "Failed", "Cancelled"}
Tasks   == {t \in Task : state[t] # "new"}    \* tasks_

TypeOK ==
  /\ state \in [Task -> {"new", "Queued", "Running"} \cup Settled]
  /\ cancelled \subseteq Task /\ started \subseteq Task /\ accepted \subseteq Task
  /\ queue \in Seq(Task)
  /\ stopping \in BOOLEAN
  /\ asleep \subseteq Worker \cup Client
  /\ wpc \in [Worker -> {"wait", "work", "settle", "complete", "exited"}]
  /\ wtask \in [Worker -> Task \cup {None}]
  /\ succeeded \in [Worker -> BOOLEAN]
  /\ cpc \in [Client -> {"idle", "notifyOne", "notifyAll", "complete", "waiting",
                         "stopNotify", "join", "destroyed"}]
  /\ ctask \in [Client -> Task \cup {None}]
  /\ todo \in [Client -> SUBSET Task]
  /\ completions \in [Task -> Seq(Settled)]

Init ==
  /\ state = [t \in Task |-> "new"]
  /\ cancelled = {} /\ queue = <<>> /\ stopping = FALSE
  /\ asleep = {}
  /\ wpc = [w \in Worker |-> "wait"]
  /\ wtask = [w \in Worker |-> None]
  /\ succeeded = [w \in Worker |-> FALSE]
  /\ cpc = [c \in Client |-> "idle"]
  /\ ctask = [c \in Client |-> None]
  /\ todo = [c \in Client |-> {}]
  /\ completions = [t \in Task |-> <<>>]
  /\ started = {} /\ accepted = {}

-----------------------------------------------------------------------------
(* Condition variables and small steps shared by the operations *)

\* Mutant: a notification that is forgotten.
NotifyNobody == UNCHANGED asleep

NotifyIdle == asleep' = asleep \ Client            \* idleCondition_.notify_all
NotifyWorkers == asleep' = asleep \ Worker         \* condition_.notify_all

\* condition_.notify_one
NotifyOneWorker ==
  IF asleep \cap Worker = {} THEN UNCHANGED asleep
  ELSE \E w \in asleep \cap Worker : asleep' = asleep \ {w}

Settle(t, s) == state' = [state EXCEPT ![t] = s]
Call(t) == completions' = [completions EXCEPT ![t] = Append(@, state[t])]
WorkerAt(w, label) == wpc' = [wpc EXCEPT ![w] = label]
ClientAt(c, label) == cpc' = [cpc EXCEPT ![c] = label]

IdleLocked == \A t \in Tasks : state[t] \in Settled

\* c may start a call: it is in none, and the manager is not being destroyed.
Free(c) == cpc[c] = "idle" /\ todo[c] = {} /\ ~stopping

-----------------------------------------------------------------------------
(* Calls of the clients *)

Enqueue(c, t) ==
  /\ Free(c)
  /\ state[t] = "new"
  /\ state' = [state EXCEPT ![t] = "Queued"]
  /\ queue' = Append(queue, t)
  /\ ClientAt(c, "notifyOne")
  /\ UNCHANGED <<cancelled, stopping, asleep, workers, ctask, todo, completions,
                 started, accepted>>

NotifyOne(c) ==
  /\ cpc[c] = "notifyOne"
  /\ NotifyOneWorker
  /\ ClientAt(c, "idle")
  /\ UNCHANGED <<manager, workers, ctask, todo, completions, started,
                 accepted>>

\* Mutants: the completion of a running task is called by Cancel; a queued
\* task that is cancelled stays in the queue.
CancelCompletes(c, t) ==
  /\ cpc[c] = "idle" /\ todo[c] = {} /\ ~stopping
  /\ state[t] \in {"Queued", "Running"}
  /\ cancelled' = cancelled \cup {t} /\ accepted' = accepted \cup {t}
  /\ ctask' = [ctask EXCEPT ![c] = t]
  /\ ClientAt(c, "notifyAll")
  /\ UNCHANGED <<state, queue, stopping, asleep, workers, todo,
                 completions, started>>

CancelKeepsQueue(c, t) ==
  /\ cpc[c] = "idle" /\ todo[c] = {} /\ ~stopping
  /\ state[t] = "Queued"
  /\ cancelled' = cancelled \cup {t} /\ accepted' = accepted \cup {t}
  /\ Settle(t, "Cancelled") /\ NotifyIdle
  /\ ctask' = [ctask EXCEPT ![c] = t]
  /\ ClientAt(c, "notifyAll")
  /\ UNCHANGED <<queue, stopping, workers, todo, completions, started>>

\* erase(remove): the ids after t move down by one.
Without(q, t) ==
  LET k == CHOOSE k \in 1 .. Len(q) : q[k] = t
  IN  SubSeq(q, 1, k - 1) \o SubSeq(q, k + 1, Len(q))

\* Cancel: a task that is over refuses, a queued one ends here, a running one
\* is told.
Cancel(c, t) ==
  /\ cpc[c] = "idle" /\ ~stopping
  /\ t \in Tasks
  /\ IF todo[c] = {} THEN UNCHANGED todo
     ELSE t \in todo[c] /\ todo' = [todo EXCEPT ![c] = @ \ {t}]
  /\ IF state[t] \in Settled
     THEN UNCHANGED <<manager, asleep, cpc, ctask, accepted>>
     ELSE /\ cancelled' = cancelled \cup {t}
          /\ accepted' = accepted \cup {t}
          /\ IF state[t] = "Queued"
             THEN /\ Settle(t, "Cancelled")
                  /\ queue' = Without(queue, t)
                  /\ NotifyIdle
                  /\ ctask' = [ctask EXCEPT ![c] = t]
             ELSE UNCHANGED <<state, queue, asleep, ctask>>
          /\ ClientAt(c, "notifyAll")
          /\ UNCHANGED stopping
  /\ UNCHANGED <<workers, completions, started>>

NotifyAll(c) ==
  /\ cpc[c] = "notifyAll"
  /\ NotifyWorkers
  /\ ClientAt(c, IF ctask[c] = None THEN "idle" ELSE "complete")
  /\ UNCHANGED <<manager, workers, ctask, todo, completions, started,
                 accepted>>

\* completion(completed), called by Cancel.
CancelCompletion(c) ==
  /\ cpc[c] = "complete"
  /\ Call(ctask[c])
  /\ ctask' = [ctask EXCEPT ![c] = None]
  /\ ClientAt(c, "idle")
  /\ UNCHANGED <<manager, asleep, workers, todo, started, accepted>>

\* CancelAll copies the ids under the mutex, then cancels one after the other.
CancelAll(c) ==
  /\ Free(c)
  /\ todo' = [todo EXCEPT ![c] = Tasks]
  /\ UNCHANGED <<manager, asleep, workers, cpc, ctask, completions, started,
                 accepted>>

WaitForIdle(c) ==
  /\ Free(c)
  /\ IF IdleLocked
     THEN UNCHANGED <<asleep, cpc>>
     ELSE asleep' = asleep \cup {c} /\ ClientAt(c, "waiting")
  /\ UNCHANGED <<manager, workers, ctask, todo, completions, started, accepted>>

\* A notified waiter evaluates the predicate again.
Awake(c) ==
  /\ cpc[c] = "waiting" /\ c \notin asleep
  /\ IF IdleLocked
     THEN ClientAt(c, "idle") /\ UNCHANGED asleep
     ELSE asleep' = asleep \cup {c} /\ UNCHANGED cpc
  /\ UNCHANGED <<manager, workers, ctask, todo, completions, started, accepted>>

\* The timeout of wait_for: it returns what the predicate says.
Timeout(c) ==
  /\ cpc[c] = "waiting"
  /\ asleep' = asleep \ {c}
  /\ ClientAt(c, "idle")
  /\ UNCHANGED <<manager, workers, ctask, todo, completions, started, accepted>>

\* The destructor, in three parts; no other call may be running.
Destroy(c) ==
  /\ \A d \in Client : Free(d)
  /\ stopping' = TRUE
  /\ cancelled' = cancelled \cup Tasks
  /\ ClientAt(c, "stopNotify")
  /\ UNCHANGED <<state, queue, asleep, workers, ctask, todo, completions, started,
                 accepted>>

DestroyNotify(c) ==
  /\ cpc[c] = "stopNotify"
  /\ NotifyWorkers
  /\ ClientAt(c, "join")
  /\ UNCHANGED <<manager, workers, ctask, todo, completions, started,
                 accepted>>

Join(c) ==
  /\ cpc[c] = "join"
  /\ \A w \in Worker : wpc[w] = "exited"
  /\ ClientAt(c, "destroyed")
  /\ UNCHANGED <<manager, asleep, workers, ctask, todo, completions,
                 started, accepted>>

-----------------------------------------------------------------------------
(* WorkerLoop *)

\* The first critical section, from the evaluation of the predicate: sleep,
\* leave, or take the first task of the queue.  A task cancelled by the
\* destructor ends without its completion being called.
TakeTask(w) ==
  /\ wpc[w] = "wait" /\ w \notin asleep
  /\ \/ /\ queue = <<>> /\ ~stopping
        /\ asleep' = asleep \cup {w}
        /\ UNCHANGED <<state, queue, wpc, wtask>>
     \/ /\ queue = <<>> /\ stopping
        /\ WorkerAt(w, "exited")
        /\ UNCHANGED <<state, queue, asleep, wtask>>
     \/ /\ queue # <<>>
        /\ queue' = Tail(queue)
        /\ IF Head(queue) \in cancelled
           THEN /\ Settle(Head(queue), "Cancelled")
                /\ NotifyIdle
                /\ UNCHANGED <<wpc, wtask>>
           ELSE /\ state' = [state EXCEPT ![Head(queue)] = "Running"]
                /\ WorkerAt(w, "work")
                /\ wtask' = [wtask EXCEPT ![w] = Head(queue)]
                /\ UNCHANGED asleep
  /\ UNCHANGED <<cancelled, stopping, succeeded, clients, completions, started,
                 accepted>>

\* task->work(context, error): returns true or false, or throws.
Work(w) ==
  /\ wpc[w] = "work"
  /\ started' = started \cup {wtask[w]}
  /\ \E ok \in BOOLEAN : succeeded' = [succeeded EXCEPT ![w] = ok]
  /\ WorkerAt(w, "settle")
  /\ UNCHANGED <<manager, asleep, wtask, clients, completions, accepted>>

\* Mutant: the state is decided by the result of the work alone.
SettleTaskIgnoresCancel(w) ==
  /\ wpc[w] = "settle"
  /\ Settle(wtask[w], IF succeeded[w] THEN "Succeeded" ELSE "Failed")
  /\ NotifyIdle
  /\ WorkerAt(w, "complete")
  /\ UNCHANGED <<cancelled, queue, stopping, wtask, succeeded, clients,
                 completions, started, accepted>>

SettleTask(w) ==
  /\ wpc[w] = "settle"
  /\ Settle(wtask[w], IF wtask[w] \in cancelled THEN "Cancelled"
                      ELSE IF succeeded[w] THEN "Succeeded" ELSE "Failed")
  /\ NotifyIdle
  /\ WorkerAt(w, "complete")
  /\ UNCHANGED <<cancelled, queue, stopping, wtask, succeeded, clients,
                 completions, started, accepted>>

\* completion(completed), called by the worker.
WorkCompletion(w) ==
  /\ wpc[w] = "complete"
  /\ Call(wtask[w])
  /\ wtask' = [wtask EXCEPT ![w] = None]
  /\ WorkerAt(w, "wait")
  /\ UNCHANGED <<manager, asleep, succeeded, clients, started, accepted>>

-----------------------------------------------------------------------------
ClientStep(c) ==
  \/ NotifyOne(c) \/ NotifyAll(c) \/ CancelCompletion(c) \/ Awake(c)
  \/ DestroyNotify(c) \/ Join(c)
  \/ \E t \in todo[c] : Cancel(c, t)

ClientCall(c) ==
  \/ \E t \in Task : Enqueue(c, t) \/ Cancel(c, t)
  \/ CancelAll(c) \/ WaitForIdle(c) \/ Timeout(c) \/ Destroy(c)

WorkerStep(w) == TakeTask(w) \/ Work(w) \/ SettleTask(w) \/ WorkCompletion(w)

Next ==
  \/ \E c \in Client : ClientStep(c) \/ ClientCall(c)
  \/ \E w \in Worker : WorkerStep(w)

Spec == Init /\ [][Next]_vars

\* Every thread runs on, and every work ends; no client has to call anything,
\* and no timeout has to expire.
FairSpec ==
  /\ Spec
  /\ \A c \in Client : WF_vars(ClientStep(c))
  /\ \A w \in Worker : WF_vars(WorkerStep(w))

-----------------------------------------------------------------------------
(* Properties *)

\* Nobody completes a task twice, or with another state than its last one; a
\* task that Cancel caught in the queue never runs its work; and a task whose
\* Cancel returned true never ends as Succeeded or Failed, however the worker
\* that runs it races with it.
CancelHonoured ==
  \A t \in Task :
    /\ completions[t] \in {<<>>, <<state[t]>>}
    /\ t \in accepted => state[t] \in {"Running", "Cancelled"}
    /\ state[t] = "Queued" => t \notin started

\* The queue holds each Queued task once and nothing else, and a Running task
\* is the task of exactly one worker: no task is lost or run twice.
QueueConsistent ==
  /\ \A t \in Task : state[t] = "Queued" <=> \E k \in 1 .. Len(queue) : queue[k] = t
  /\ \A k, l \in 1 .. Len(queue) : queue[k] = queue[l] => k = l
  /\ \A t \in Task :
       state[t] = "Running" <=>
         \E w \in Worker : wtask[w] = t /\ wpc[w] \in {"work", "settle"}
  /\ \A v, w \in Worker : wtask[v] = wtask[w] /\ wtask[v] # None => v = w

\* No notification is lost: every task that is enqueued ends, and unless the
\* destructor dropped it from the queue its completion is called.
EveryTaskEnds ==
  \A t \in Task :
    state[t] = "Queued" ~> (state[t] \in Settled /\ (completions[t] # <<>> \/ stopping))

\* WaitForIdle returns once the tasks are over, without its timeout, and the
\* destructor joins every worker.
NobodyWaitsForever ==
  \A c \in Client :
    /\ (cpc[c] = "waiting" /\ IdleLocked) ~> (cpc[c] # "waiting" \/ ~IdleLocked)
    /\ stopping ~> \E d \in Client : cpc[d] = "destroyed"
=============================================================================
