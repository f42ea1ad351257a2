------------------------ MODULE MediaTaskManagerProofs ------------------------
(***************************************************************************)
(* QueueConsistent and CancelHonoured, for any number of tasks, of workers *)
(* and of threads that call the manager.                                   *)
(*                                                                         *)
(* Neither is inductive: that a completion is called once rests on who may *)
(* still call it.  The invariant says that at most one thread owes the     *)
(* completion of a task: the worker that took it from the queue, or the    *)
(* client whose Cancel did.                                                *)
(***************************************************************************)
EXTENDS MediaTaskManager, SequenceTheorems, TLAPS

\* q holds each member of S once, and no other task.
Lists(q, S) ==
  /\ \A t \in Task : t \in S <=> \E k \in 1 .. Len(q) : q[k] = t
  /\ \A k, l \in 1 .. Len(q) : q[k] = q[l] => k = l

Queued == {t \in Task : state[t] = "Queued"}

\* A worker holds a task from the queue to its completion, which it calls once.
WorkerInv ==
  /\ \A w \in Worker :
       /\ wtask[w] = None <=> wpc[w] \in {"wait", "exited"}
       /\ wpc[w] \in {"work", "settle"} => state[wtask[w]] = "Running"
       /\ wpc[w] = "complete" => /\ state[wtask[w]] \in Settled
                                 /\ completions[wtask[w]] = <<>>
  /\ \A t \in Task : state[t] = "Running" =>
       \E w \in Worker : wtask[w] = t /\ wpc[w] \in {"work", "settle"}
  /\ \A v, w \in Worker : wtask[v] = wtask[w] /\ wtask[v] # None => v = w

\* A client holds a task that its Cancel took from the queue; nobody else does.
ClientInv ==
  /\ \A c \in Client :
       /\ cpc[c] = "complete" => ctask[c] # None
       /\ ctask[c] # None => /\ cpc[c] \in {"notifyAll", "complete"}
                             /\ state[ctask[c]] = "Cancelled"
                             /\ completions[ctask[c]] = <<>>
  /\ \A c, d \in Client : ctask[c] = ctask[d] /\ ctask[c] # None => c = d
  /\ \A c \in Client, w \in Worker : ctask[c] = wtask[w] => ctask[c] = None

TaskInv ==
  \A t \in Task :
    /\ completions[t] = <<>> \/ (state[t] \in Settled /\ completions[t] = <<state[t]>>)
    /\ t \in accepted => t \in cancelled /\ state[t] \in {"Running", "Cancelled"}
    /\ t \in started => state[t] \notin {"new", "Queued"}

IInv == TypeOK /\ Lists(queue, Queued) /\ WorkerInv /\ ClientInv /\ TaskInv

-----------------------------------------------------------------------------
(* The queue *)

\* push_back of a task that is not in the queue.
LEMMA ListsAppend ==
  ASSUME NEW q \in Seq(Task), NEW S, NEW t \in Task, t \notin S, Lists(q, S)
  PROVE  Append(q, t) \in Seq(Task) /\ Lists(Append(q, t), S \cup {t})
  BY DEF Lists

\* The first task of the queue is taken.
LEMMA ListsTail ==
  ASSUME NEW q \in Seq(Task), NEW S, q # <<>>, Lists(q, S)
  PROVE  /\ Head(q) \in Task /\ Head(q) \in S
         /\ Tail(q) \in Seq(Task) /\ Lists(Tail(q), S \ {Head(q)})
  BY DEF Lists

\* A task is taken out of the middle of the queue.
LEMMA ListsWithout ==
  ASSUME NEW q \in Seq(Task), NEW S, NEW t \in Task, t \in S, Lists(q, S)
  PROVE  Without(q, t) \in Seq(Task) /\ Lists(Without(q, t), S \ {t})
<1> DEFINE k == CHOOSE k \in 1 .. Len(q) : q[k] = t
           n == Len(q)
<1>1. k \in 1 .. n /\ q[k] = t
  BY DEF Lists
<1> HIDE DEF k
<1>2. /\ Without(q, t) \in Seq(Task)
      /\ Len(Without(q, t)) = n - 1
      /\ \A i \in 1 .. n - 1 : Without(q, t)[i] = IF i < k THEN q[i] ELSE q[i + 1]
  <2>1. Without(q, t) = SubSeq(q, 1, k - 1) \o SubSeq(q, k + 1, n)
    BY DEF Without, k
  <2> DEFINE a == SubSeq(q, 1, k - 1)
             b == SubSeq(q, k + 1, n)
  <2>2. /\ a \in Seq(Task) /\ Len(a) = k - 1
        /\ \A i \in 1 .. k - 1 : a[i] = q[i]
    BY <1>1
  <2>3. /\ b \in Seq(Task) /\ Len(b) = n - k
        /\ \A i \in 1 .. n - k : b[i] = q[k + i]
    BY <1>1
  <2> HIDE DEF a, b
  <2>4. a \o b \in Seq(Task) /\ Len(a \o b) = n - 1
    <3>1. Len(a \o b) = Len(a) + Len(b) /\ a \o b \in Seq(Task)
      BY <2>2, <2>3
    <3> QED BY <1>1, <2>2, <2>3, <3>1
  <2>5. ASSUME NEW i \in 1 .. n - 1 PROVE (a \o b)[i] = IF i < k THEN q[i] ELSE q[i + 1]
    <3>1. CASE i < k
      BY <1>1, <2>2, <2>3, <3>1
    <3>2. CASE i >= k
      <4>1. (a \o b)[i] = b[i - (k - 1)]
        BY <1>1, <2>2, <2>3, <3>2
      <4>2. i - (k - 1) \in 1 .. n - k /\ k + (i - (k - 1)) = i + 1 /\ ~(i < k)
        BY <1>1, <3>2
      <4> QED BY <2>3, <4>1, <4>2
    <3>3. i < k \/ i >= k
      BY <1>1
    <3> QED BY <3>1, <3>2, <3>3
  <2> QED BY <2>1, <2>4, <2>5 DEF a, b
<1>3. ASSUME NEW u \in Task
      PROVE  u \in S \ {t} <=> \E i \in 1 .. n - 1 : Without(q, t)[i] = u
  <2>1. ASSUME u \in S \ {t} PROVE \E i \in 1 .. n - 1 : Without(q, t)[i] = u
    <3>1. PICK j \in 1 .. n : q[j] = u
      BY <2>1 DEF Lists
    <3>2. CASE j < k
      BY <1>1, <1>2, <3>1, <3>2
    <3>3. CASE j > k
      <4>1. j - 1 \in 1 .. n - 1 /\ ~(j - 1 < k) /\ (j - 1) + 1 = j
        BY <1>1, <3>3
      <4> QED BY <1>2, <3>1, <4>1
    <3> QED BY <1>1, <2>1, <3>1, <3>2, <3>3
  <2>2. ASSUME NEW i \in 1 .. n - 1, Without(q, t)[i] = u PROVE u \in S \ {t}
    BY <1>1, <1>2, <2>2 DEF Lists
  <2> QED BY <2>1, <2>2
<1>4. ASSUME NEW i \in 1 .. n - 1, NEW j \in 1 .. n - 1, Without(q, t)[i] = Without(q, t)[j]
      PROVE  i = j
  BY <1>1, <1>2, <1>4 DEF Lists
<1> QED BY <1>2, <1>3, <1>4 DEF Lists

-----------------------------------------------------------------------------
(* The steps *)

\* A task somebody holds is out of the queue.
LEMMA HeldTask ==
  ASSUME IInv, NEW t \in Task, state[t] \in {"new", "Queued"}
  PROVE  /\ \A w \in Worker : wtask[w] # t
         /\ \A c \in Client : ctask[c] # t
<1>1. ASSUME NEW w \in Worker PROVE wtask[w] # t
  <2>1. CASE wpc[w] \in {"wait", "exited"}
    BY <2>1, ManagerConstants DEF IInv, WorkerInv
  <2>2. CASE wpc[w] \in {"work", "settle"}
    BY <2>2 DEF IInv, WorkerInv
  <2>3. CASE wpc[w] = "complete"
    BY <2>3 DEF IInv, WorkerInv, Settled
  <2> QED BY <2>1, <2>2, <2>3 DEF IInv, TypeOK
<1>2. ASSUME NEW c \in Client PROVE ctask[c] # t
  BY ManagerConstants DEF IInv, ClientInv
<1> QED BY <1>1, <1>2

\* A worker past the wait holds a task, which runs until it is settled.
LEMMA WorkerHolds ==
  ASSUME IInv, NEW w \in Worker, wpc[w] \in {"work", "settle"}
  PROVE  wtask[w] \in Task /\ state[wtask[w]] = "Running"
<1>1. wtask[w] \in Task \cup {None}
  BY DEF IInv, TypeOK
<1>2. wtask[w] # None /\ state[wtask[w]] = "Running"
  BY DEF IInv, WorkerInv
<1> QED BY <1>1, <1>2

\* A step of a client that changes neither a task nor what anybody holds.
LEMMA QuietClient ==
  ASSUME IInv, NEW c \in Client,
         \/ NotifyOne(c) \/ NotifyAll(c) \/ CancelAll(c) \/ WaitForIdle(c) \/ Awake(c)
         \/ Timeout(c) \/ Destroy(c) \/ DestroyNotify(c) \/ Join(c)
  PROVE  IInv'
<1> USE DEF IInv, TypeOK, manager, workers, ClientAt, Tasks
<1>1. /\ state' = state /\ queue' = queue /\ accepted' = accepted /\ started' = started
      /\ completions' = completions /\ wpc' = wpc /\ wtask' = wtask /\ ctask' = ctask
      /\ cancelled \subseteq cancelled' /\ succeeded' = succeeded
  BY DEF NotifyOne, NotifyAll, CancelAll, WaitForIdle, Awake, Timeout, Destroy,
         DestroyNotify, Join
<1>2. TypeOK'
  <2>1. cancelled' \subseteq Task /\ stopping' \in BOOLEAN /\ todo' \in [Client -> SUBSET Task]
    BY DEF NotifyOne, NotifyAll, CancelAll, WaitForIdle, Awake, Timeout, Destroy,
           DestroyNotify, Join
  <2>2. asleep' \subseteq Worker \cup Client
    BY DEF NotifyOne, NotifyAll, CancelAll, WaitForIdle, Awake, Timeout, Destroy,
           DestroyNotify, Join, NotifyOneWorker, NotifyWorkers
  <2>3. cpc' \in [Client -> {"idle", "notifyOne", "notifyAll", "complete", "waiting",
                             "stopNotify", "join", "destroyed"}]
    BY DEF NotifyOne, NotifyAll, CancelAll, WaitForIdle, Awake, Timeout, Destroy,
           DestroyNotify, Join
  <2> QED BY <1>1, <2>1, <2>2, <2>3
<1>3. Lists(queue, Queued)'
  BY <1>1 DEF Lists, Queued
<1>4. WorkerInv'
  BY <1>1 DEF WorkerInv
<1>5. ClientInv'
  <2>1. /\ \A d \in Client \ {c} : cpc'[d] = cpc[d]
        /\ ctask[c] = None => cpc'[c] # "complete"
        /\ ctask[c] # None => cpc'[c] \in {"notifyAll", "complete"}
    BY DEF NotifyOne, NotifyAll, CancelAll, WaitForIdle, Awake, Timeout, Destroy,
           DestroyNotify, Join, ClientInv, Free
  <2> QED BY <1>1, <2>1 DEF ClientInv
<1>6. TaskInv'
  BY <1>1 DEF TaskInv
<1> QED BY <1>2, <1>3, <1>4, <1>5, <1>6

\* A task enters the queue and the manager together.
LEMMA EnqueueStep ==
  ASSUME IInv, NEW c \in Client, NEW t \in Task, Enqueue(c, t)
  PROVE  IInv'
<1> USE DEF IInv, TypeOK, workers, ClientAt, Enqueue
<1>1. queue' \in Seq(Task) /\ Lists(queue', Queued \cup {t})
  BY ListsAppend DEF Queued
<1>2. Queued' = Queued \cup {t}
  BY DEF Queued
<1>3. TypeOK'
  BY <1>1
<1>4. WorkerInv'
  BY HeldTask DEF WorkerInv
<1>5. ClientInv'
  BY HeldTask DEF ClientInv, Free
<1>6. TaskInv'
  BY DEF TaskInv, Settled
<1> QED BY <1>1, <1>2, <1>3, <1>4, <1>5, <1>6 DEF Lists

\* Cancel: of a task that is over, that runs, and that is in the queue.
LEMMA CancelStep ==
  ASSUME IInv, NEW c \in Client, NEW t \in Task, Cancel(c, t)
  PROVE  IInv'
<1> USE DEF IInv, TypeOK, workers, manager, ClientAt, Settle, NotifyIdle
<1>0. todo' \in [Client -> SUBSET Task]
  <2>1. todo' = todo \/ todo' = [todo EXCEPT ![c] = @ \ {t}]
    BY DEF Cancel
  <2> QED BY <2>1
<1>1. CASE state[t] \in Settled
  BY <1>0, <1>1 DEF Cancel, Lists, Queued, WorkerInv, ClientInv, TaskInv
<1>2. CASE state[t] \notin Settled /\ state[t] # "Queued"
  <2>1. state[t] = "Running"
    BY <1>2 DEF Cancel, Tasks
  <2>2. /\ state' = state /\ queue' = queue /\ started' = started
        /\ accepted' = accepted \cup {t} /\ cancelled' = cancelled \cup {t}
        /\ completions' = completions /\ wpc' = wpc /\ wtask' = wtask /\ ctask' = ctask
        /\ succeeded' = succeeded /\ asleep' = asleep /\ stopping' = stopping
        /\ cpc[c] = "idle" /\ cpc' = [cpc EXCEPT ![c] = "notifyAll"]
    BY <1>2 DEF Cancel
  <2>3. TypeOK'
    BY <1>0, <2>2
  <2>4. Lists(queue, Queued)' /\ WorkerInv'
    BY <2>2 DEF Lists, Queued, WorkerInv
  <2>5. ClientInv'
    BY <2>2 DEF ClientInv
  <2>6. TaskInv'
    BY <2>1, <2>2 DEF TaskInv
  <2> QED BY <2>3, <2>4, <2>5, <2>6
<1>3. CASE state[t] = "Queued"
  <2>1. /\ state' = [state EXCEPT ![t] = "Cancelled"] /\ queue' = Without(queue, t)
        /\ started' = started /\ accepted' = accepted \cup {t}
        /\ cancelled' = cancelled \cup {t} /\ completions' = completions /\ wpc' = wpc
        /\ wtask' = wtask /\ ctask' = [ctask EXCEPT ![c] = t]
        /\ succeeded' = succeeded /\ asleep' = asleep \ Client /\ stopping' = stopping
        /\ cpc[c] = "idle" /\ cpc' = [cpc EXCEPT ![c] = "notifyAll"]
    BY <1>3 DEF Cancel, Settled
  <2>2. queue' \in Seq(Task) /\ Lists(queue', Queued \ {t})
    BY <1>3, <2>1, ListsWithout DEF Queued
  <2>3. Queued' = Queued \ {t}
    BY <2>1 DEF Queued
  <2>4. TypeOK'
    BY <1>0, <2>1, <2>2 DEF Settled
  <2>5. completions[t] = <<>>
    BY <1>3 DEF TaskInv, Settled
  <2>6. \A w \in Worker : wtask[w] # t
    BY <1>3, HeldTask
  <2>7. \A d \in Client : ctask[d] # t
    BY <1>3, HeldTask
  <2>8. WorkerInv'
    BY <2>1, <2>6, <1>3 DEF WorkerInv
  <2>9. ClientInv'
    BY <2>1, <2>5, <2>6, <2>7, ManagerConstants DEF ClientInv
  <2>10. TaskInv'
    BY <1>3, <2>1, <2>5 DEF TaskInv
  <2> QED BY <2>2, <2>3, <2>4, <2>8, <2>9, <2>10 DEF Lists
<1> QED BY <1>1, <1>2, <1>3

\* The client that cancelled a queued task calls its completion.
LEMMA CancelCompletionStep ==
  ASSUME IInv, NEW c \in Client, CancelCompletion(c)
  PROVE  IInv'
<1> USE DEF IInv, TypeOK, workers, manager, ClientAt, CancelCompletion, Call
<1> DEFINE t == ctask[c]
<1>1. t \in Task /\ state[t] = "Cancelled" /\ completions[t] = <<>>
  BY DEF ClientInv
<1>2. completions' = [completions EXCEPT ![t] = <<"Cancelled">>]
  BY <1>1
<1> HIDE DEF t
<1>3. TypeOK'
  <2>1. "Cancelled" \in Settled
    BY DEF Settled
  <2>2. <<"Cancelled">> \in Seq(Settled)
    BY <2>1
  <2>3. completions' \in [Task -> Seq(Settled)]
    BY <1>2, <2>2
  <2> QED BY <2>3
<1>4. Lists(queue, Queued)'
  BY DEF Lists, Queued
<1>5. \A w \in Worker : wtask[w] # t
  BY <1>1, ManagerConstants DEF ClientInv, t
<1>6. \A d \in Client \ {c} : ctask[d] # t
  BY <1>1, ManagerConstants DEF ClientInv, t
<1>7. WorkerInv'
  BY <1>2, <1>5 DEF WorkerInv
<1>8. ClientInv'
  BY <1>2, <1>6, ManagerConstants DEF ClientInv
<1>9. TaskInv'
  <2>1. completions'[t] = <<state[t]>> /\ state[t] \in Settled
    BY <1>1, <1>2 DEF Settled
  <2>2. \A u \in Task \ {t} : completions'[u] = completions[u]
    BY <1>2
  <2> QED BY <2>1, <2>2 DEF TaskInv
<1> QED BY <1>3, <1>4, <1>7, <1>8, <1>9

\* A worker sleeps, leaves, drops the first task of the queue, or takes it.
LEMMA TakeTaskStep ==
  ASSUME IInv, NEW w \in Worker, TakeTask(w)
  PROVE  IInv'
<1> USE DEF IInv, TypeOK, clients, WorkerAt, Settle, NotifyIdle
<1>0. /\ wpc[w] = "wait" /\ wtask[w] = None
      /\ UNCHANGED <<cancelled, stopping, succeeded, clients, completions, started, accepted>>
  BY DEF TakeTask, WorkerInv
<1>1. CASE queue = <<>>
  <2>1. /\ state' = state /\ queue' = queue /\ wtask' = wtask
        /\ wpc' = wpc \/ wpc' = [wpc EXCEPT ![w] = "exited"]
        /\ asleep' = asleep \/ asleep' = asleep \cup {w}
    BY <1>1 DEF TakeTask
  <2>2. TypeOK'
    BY <1>0, <2>1
  <2>3. Lists(queue, Queued)' /\ TaskInv' /\ ClientInv'
    BY <1>0, <2>1 DEF Lists, Queued, TaskInv, ClientInv
  <2>4. WorkerInv'
    <3>1. CASE wpc' = wpc
      BY <1>0, <2>1, <3>1 DEF WorkerInv
    <3>2. CASE wpc' = [wpc EXCEPT ![w] = "exited"]
      <4>1. /\ \A v \in Worker \ {w} : wpc'[v] = wpc[v]
            /\ wpc'[w] = "exited" /\ wtask[w] = None
        BY <1>0, <3>2
      <4>2. state' = state /\ wtask' = wtask /\ completions' = completions
        BY <1>0, <2>1
      <4> QED BY <1>0, <4>1, <4>2 DEF WorkerInv
    <3> QED BY <2>1, <3>1, <3>2
  <2> QED BY <2>2, <2>3, <2>4
<1>2. CASE queue # <<>>
  <2> DEFINE t == Head(queue)
  <2>1. t \in Task /\ t \in Queued /\ queue' \in Seq(Task) /\ Lists(queue', Queued \ {t})
    <3>1. queue' = Tail(queue)
      BY <1>2 DEF TakeTask
    <3> QED BY <1>2, <3>1, ListsTail
  <2>2. /\ \A v \in Worker : wtask[v] # t
        /\ \A c \in Client : ctask[c] # t
    BY <2>1, HeldTask DEF Queued
  <2>3. completions[t] = <<>> /\ t \notin accepted /\ t \notin started /\ state[t] = "Queued"
    BY <2>1 DEF Queued, TaskInv, Settled
  <2>4. \/ /\ state' = [state EXCEPT ![t] = "Cancelled"]
           /\ asleep' = asleep \ Client /\ wpc' = wpc /\ wtask' = wtask
        \/ /\ state' = [state EXCEPT ![t] = "Running"] /\ wpc' = [wpc EXCEPT ![w] = "work"]
           /\ wtask' = [wtask EXCEPT ![w] = t] /\ asleep' = asleep
    BY <1>2 DEF TakeTask
  <2> HIDE DEF t
  <2>5. Queued' = Queued \ {t}
    BY <2>1, <2>4 DEF Queued
  <2>6. Lists(queue, Queued)'
    BY <2>1, <2>5 DEF Lists
  <2>7. TypeOK'
    <3>1. state' \in [Task -> {"new", "Queued", "Running"} \cup Settled]
      BY <2>1, <2>4 DEF Settled
    <3>2. /\ asleep' \subseteq Worker \cup Client
          /\ wpc' \in [Worker -> {"wait", "work", "settle", "complete", "exited"}]
          /\ wtask' \in [Worker -> Task \cup {None}]
      <4>1. CASE asleep' = asleep \ Client /\ wpc' = wpc /\ wtask' = wtask
        BY <4>1
      <4>2. CASE /\ wpc' = [wpc EXCEPT ![w] = "work"] /\ wtask' = [wtask EXCEPT ![w] = t]
                 /\ asleep' = asleep
        BY <2>1, <4>2
      <4> QED BY <2>4, <4>1, <4>2
    <3> QED BY <1>0, <2>1, <3>1, <3>2
  <2>8. ClientInv'
    BY <1>0, <2>2, <2>4 DEF ClientInv
  <2>9. TaskInv'
    BY <1>0, <2>3, <2>4 DEF TaskInv
  <2>10. WorkerInv'
    <3>1. CASE state' = [state EXCEPT ![t] = "Cancelled"] /\ wpc' = wpc /\ wtask' = wtask
      <4>1. \A v \in Worker : wtask[v] \in Task => state'[wtask[v]] = state[wtask[v]]
        BY <2>2, <3>1
      <4>2. \A u \in Task : state'[u] = "Running" => state[u] = "Running"
        BY <2>1, <3>1
      <4> QED BY <1>0, <3>1, <4>1, <4>2 DEF WorkerInv
    <3>2. CASE /\ state' = [state EXCEPT ![t] = "Running"] /\ wpc' = [wpc EXCEPT ![w] = "work"]
               /\ wtask' = [wtask EXCEPT ![w] = t]
      BY <1>0, <2>1, <2>2, <3>2, ManagerConstants DEF WorkerInv
    <3> QED BY <2>4, <3>1, <3>2
  <2> QED BY <2>6, <2>7, <2>8, <2>9, <2>10
<1> QED BY <1>1, <1>2

\* The work of a task, outside the mutex.
LEMMA WorkStep ==
  ASSUME IInv, NEW w \in Worker, Work(w)
  PROVE  IInv'
<1> USE DEF IInv, TypeOK, clients, manager, WorkerAt, Work
<1>1. wtask[w] \in Task /\ state[wtask[w]] = "Running"
  BY WorkerHolds
<1>2. TypeOK'
  BY <1>1
<1>3. Lists(queue, Queued)' /\ ClientInv'
  BY DEF Lists, Queued, ClientInv
<1>4. TaskInv'
  BY <1>1 DEF TaskInv
<1>5. WorkerInv'
  BY <1>1 DEF WorkerInv
<1> QED BY <1>2, <1>3, <1>4, <1>5

\* The task ends with the result of the work, unless it was cancelled.
LEMMA SettleTaskStep ==
  ASSUME IInv, NEW w \in Worker, SettleTask(w)
  PROVE  IInv'
<1> USE DEF IInv, TypeOK, clients, WorkerAt, NotifyIdle
<1> DEFINE t == wtask[w]
           s == state'[t]
<1>1. t \in Task /\ state[t] = "Running" /\ completions[t] = <<>>
  <2>1. wpc[w] = "settle"
    BY DEF SettleTask
  <2>2. t \in Task /\ state[t] = "Running"
    BY <2>1, WorkerHolds
  <2> QED BY <2>2 DEF TaskInv, Settled
<1>2. state' = [state EXCEPT ![t] = s] /\ s \in Settled /\ (t \in cancelled => s = "Cancelled")
  BY <1>1 DEF SettleTask, Settle, Settled
<1>3. /\ wpc' = [wpc EXCEPT ![w] = "complete"] /\ wpc[w] = "settle" /\ asleep' = asleep \ Client
      /\ UNCHANGED <<cancelled, queue, stopping, wtask, succeeded, clients, completions,
                     started, accepted>>
  BY DEF SettleTask
<1>4. /\ \A v \in Worker \ {w} : wtask[v] # t
      /\ \A c \in Client : ctask[c] # t
  BY <1>1, ManagerConstants DEF WorkerInv, ClientInv
<1> HIDE DEF s, t
<1>5. TypeOK'
  BY <1>1, <1>2, <1>3 DEF Settled
<1>6. Queued' = Queued
  BY <1>1, <1>2 DEF Queued, Settled
<1>7. Lists(queue, Queued)'
  BY <1>3, <1>6 DEF Lists
<1>8. ClientInv'
  BY <1>2, <1>3, <1>4 DEF ClientInv
<1>9. TaskInv'
  BY <1>1, <1>2, <1>3 DEF TaskInv, Settled
<1>10. WorkerInv'
  <2>1. \A v \in Worker \ {w} : wpc'[v] = wpc[v] /\
          (wtask[v] \in Task => state'[wtask[v]] = state[wtask[v]])
    BY <1>2, <1>3, <1>4
  <2>2. wtask[w] = t /\ t # None /\ state'[t] \in Settled /\ wpc'[w] = "complete"
    BY <1>1, <1>2, <1>3, ManagerConstants DEF t, s
  <2>3. ASSUME NEW v \in Worker
        PROVE  /\ wtask'[v] = None <=> wpc'[v] \in {"wait", "exited"}
               /\ wpc'[v] \in {"work", "settle"} => state'[wtask'[v]] = "Running"
               /\ wpc'[v] = "complete" => /\ state'[wtask'[v]] \in Settled
                                          /\ completions'[wtask'[v]] = <<>>
    <3>1. CASE v = w
      BY <1>1, <1>3, <2>2, <3>1
    <3>2. CASE v # w
      BY <1>3, <2>1, <3>2 DEF WorkerInv
    <3> QED BY <3>1, <3>2
  <2>4. ASSUME NEW u \in Task, state'[u] = "Running"
        PROVE  \E v \in Worker : wtask'[v] = u /\ wpc'[v] \in {"work", "settle"}
    <3>1. u # t /\ state[u] = "Running"
      BY <1>1, <1>2, <2>4 DEF Settled
    <3> QED BY <1>3, <2>1, <2>2, <3>1 DEF WorkerInv
  <2> QED BY <1>3, <2>3, <2>4 DEF WorkerInv
<1> QED BY <1>5, <1>7, <1>8, <1>9, <1>10

\* The worker calls the completion with the state the task ended in.
LEMMA WorkCompletionStep ==
  ASSUME IInv, NEW w \in Worker, WorkCompletion(w)
  PROVE  IInv'
<1> USE DEF IInv, TypeOK, clients, manager, WorkerAt, WorkCompletion, Call
<1> DEFINE t == wtask[w]
<1>1. t \in Task /\ state[t] \in Settled /\ completions[t] = <<>>
  BY DEF WorkerInv
<1>2. completions' = [completions EXCEPT ![t] = <<state[t]>>]
  BY <1>1
<1>3. /\ \A v \in Worker \ {w} : wtask[v] # t
      /\ \A c \in Client : ctask[c] # t
  BY <1>1, ManagerConstants DEF WorkerInv, ClientInv
<1> HIDE DEF t
<1>4. TypeOK'
  <2>1. <<state[t]>> \in Seq(Settled)
    BY <1>1
  <2>2. completions' \in [Task -> Seq(Settled)]
    BY <1>2, <2>1
  <2>3. wtask' \in [Worker -> Task \cup {None}]
    OBVIOUS
  <2>4. wpc' \in [Worker -> {"wait", "work", "settle", "complete", "exited"}]
    OBVIOUS
  <2> QED BY <2>2, <2>3, <2>4
<1>5. Lists(queue, Queued)'
  BY DEF Lists, Queued
<1>6. ClientInv'
  BY <1>2, <1>3 DEF ClientInv
<1>7. TaskInv'
  <2>1. completions'[t] = <<state[t]>> /\ \A u \in Task \ {t} : completions'[u] = completions[u]
    BY <1>1, <1>2
  <2> QED BY <1>1, <2>1 DEF TaskInv
<1>8. WorkerInv'
  BY <1>1, <1>2, <1>3 DEF WorkerInv, Settled, t
<1> QED BY <1>4, <1>5, <1>6, <1>7, <1>8

-----------------------------------------------------------------------------
\* The manager starts with nothing to do.
LEMMA InitInv == Init => IInv
<1> SUFFICES ASSUME Init PROVE IInv
  OBVIOUS
<1> USE DEF Init
<1>1. TypeOK
  <2>1. <<>> \in Seq(Settled) /\ <<>> \in Seq(Task)
    OBVIOUS
  <2>2. completions \in [Task -> Seq(Settled)]
    BY <2>1
  <2> QED BY <2>1, <2>2 DEF TypeOK
<1>2. Lists(queue, Queued)
  BY DEF Lists, Queued
<1>3. WorkerInv /\ ClientInv /\ TaskInv
  BY DEF WorkerInv, ClientInv, TaskInv
<1> QED BY <1>1, <1>2, <1>3 DEF IInv

\* Every critical section and every call outside the mutex keeps the invariant.
LEMMA NextInv == IInv /\ [Next]_vars => IInv'
<1> SUFFICES ASSUME IInv, [Next]_vars PROVE IInv'
  OBVIOUS
<1>1. CASE UNCHANGED vars
  BY <1>1 DEF vars, manager, workers, clients, IInv, TypeOK, Lists, Queued, WorkerInv,
              ClientInv, TaskInv
<1>2. ASSUME NEW c \in Client, ClientStep(c) \/ ClientCall(c) PROVE IInv'
  <2>1. todo[c] \subseteq Task
    BY DEF IInv, TypeOK
  <2> QED BY <1>2, <2>1, QuietClient, EnqueueStep, CancelStep, CancelCompletionStep
          DEF ClientStep, ClientCall
<1>3. ASSUME NEW w \in Worker, WorkerStep(w) PROVE IInv'
  BY <1>3, TakeTaskStep, WorkStep, SettleTaskStep, WorkCompletionStep DEF WorkerStep
<1> QED BY <1>1, <1>2, <1>3 DEF Next

\* The invariant gives the two properties of the run.
LEMMA InvGives == IInv => TypeOK /\ QueueConsistent /\ CancelHonoured
<1> SUFFICES ASSUME IInv PROVE TypeOK /\ QueueConsistent /\ CancelHonoured
  OBVIOUS
<1>1. \A t \in Task : state[t] = "Queued" <=> \E k \in 1 .. Len(queue) : queue[k] = t
  BY DEF IInv, Lists, Queued
<1>2. QueueConsistent
  BY <1>1 DEF IInv, QueueConsistent, WorkerInv, Lists
<1>3. CancelHonoured
  BY DEF IInv, CancelHonoured, TaskInv
<1> QED BY <1>2, <1>3 DEF IInv

\* MediaTaskManager: whatever the interleaving, a running task has exactly one
\* worker, and a worker or a client about to call a completion is the only one
\* that holds the task: the task has ended, and no completion of it was called.
THEOREM OneHolderOfATask == Spec => [](TypeOK /\ WorkerInv /\ ClientInv)
<1>1. IInv => TypeOK /\ WorkerInv /\ ClientInv
  BY DEF IInv
<1> QED BY <1>1, InitInv, NextInv, PTL DEF Spec

\* MediaTaskManager: no task is lost, queued twice or run by two workers,
\* whatever calls race with them.
THEOREM QueueIsConsistent == Spec => []QueueConsistent
  BY InitInv, NextInv, InvGives, PTL DEF Spec

\* MediaTaskManager::Cancel: a completion is called once at most, with the state
\* the task ended in, and a task whose cancellation was accepted never ends as
\* if it had not been.
THEOREM CancelIsHonoured == Spec => []CancelHonoured
  BY InitInv, NextInv, InvGives, PTL DEF Spec
=============================================================================
