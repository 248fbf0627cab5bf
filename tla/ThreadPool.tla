----------------------------- MODULE ThreadPool -----------------------------
(***************************************************************************)
(* The worker pool of backend_cpp/server/thread_pool.h.  Every critical    *)
(* section of mutex_ is one step, except the one a worker is inside while  *)
(* it goes to sleep: cv_.wait evaluates its predicate, and only later      *)
(* blocks and releases mutex_.  shutdown() writes stop_ and notifies       *)
(* without taking mutex_, so it can fall between the two.                  *)
(***************************************************************************)
EXTENDS Naturals, Sequences, FiniteSets

CONSTANTS Workers,          \* the threads created by the constructor
          Clients,          \* threads that call submit or try_submit
          Tasks,            \* the callables they submit, each at most once
          Depths,           \* arguments of set_max_queue_depth
          ShutdownModes,    \* subset of {"graceful", "now"}
          PendingModulus,   \* pending_ is a size_t: arithmetic modulo this
          NoTask, Nobody

ASSUME WorkersAssumption == IsFiniteSet(Workers) /\ Workers # {} /\ Nobody \notin Workers
ASSUME TasksAssumption == NoTask \notin Tasks
ASSUME DepthsAssumption == Depths \subseteq Nat
ASSUME ModesAssumption == ShutdownModes \subseteq {"graceful", "now"}
ASSUME ModulusAssumption == PendingModulus \in Nat \ {0}

VARIABLES stop,       \* stop_
          maxDepth,   \* max_queue_depth_, 0 is no limit
          tasks,      \* tasks_
          pending,    \* pending_
          mutex,      \* the worker that holds mutex_ on its way to sleep, or Nobody
          wpc,        \* wpc[w]: where worker_loop stands
          job,        \* job[w]: the local variable task
          cpc,        \* cpc[c]: where submit stands
          item,       \* item[c]: the task being submitted
          status,     \* status[t]: what became of the task and of its future
          ctl,        \* where shutdown() or shutdown_now() stands
          owed        \* tasks accepted when a graceful shutdown stored stop_

clientVars == <<cpc, item>>
workerVars == <<wpc, job, mutex>>
ctlVars == <<stop, ctl, owed>>
vars == <<stop, maxDepth, tasks, pending, mutex, wpc, job, cpc, item, status, ctl, owed>>

Status == {"new", "submitting", "refused", "queued", "running", "done", "dropped"}
Accepted == {"queued", "running", "done"}
Sleeping == {w \in Workers : wpc[w] = "waiting"}
Busy == {w \in Workers : job[w] # NoTask}

TypeOK == /\ stop \in BOOLEAN
          /\ maxDepth \in Nat
          /\ tasks \in Seq(Tasks)
          /\ pending \in 0 .. PendingModulus - 1
          /\ mutex \in Workers \cup {Nobody}
          /\ wpc \in [Workers -> {"enter", "blocking", "waiting", "running",
                                  "counting", "exited"}]
          /\ job \in [Workers -> Tasks \cup {NoTask}]
          /\ cpc \in [Clients -> {"idle", "passed", "notify"}]
          /\ item \in [Clients -> Tasks \cup {NoTask}]
          /\ status \in [Tasks -> Status]
          /\ ctl \in {"open", "clear", "notify", "join", "closed"}
          /\ owed \in SUBSET Tasks

Init == /\ stop = FALSE
        /\ maxDepth = 0
        /\ tasks = <<>>
        /\ pending = 0
        /\ mutex = Nobody
        /\ wpc = [w \in Workers |-> "enter"]
        /\ job = [w \in Workers |-> NoTask]
        /\ cpc = [c \in Clients |-> "idle"]
        /\ item = [c \in Clients |-> NoTask]
        /\ status = [t \in Tasks |-> "new"]
        /\ ctl = "open"
        /\ owed = {}

-----------------------------------------------------------------------------
(* submit and try_submit: they differ only in how a refusal is reported     *)
(* (an exception, or FALSE).                                               *)

\* stop_ is read before mutex_ is taken and never read again.
CheckStop(c, t) ==
    /\ cpc[c] = "idle"
    /\ status[t] = "new"
    /\ \/ /\ stop
          /\ status' = [status EXCEPT ![t] = "refused"]
          /\ UNCHANGED clientVars
       \/ /\ ~stop
          /\ status' = [status EXCEPT ![t] = "submitting"]
          /\ cpc' = [cpc EXCEPT ![c] = "passed"]
          /\ item' = [item EXCEPT ![c] = t]
    /\ UNCHANGED <<maxDepth, tasks, pending, workerVars, ctlVars>>

QueueFull == maxDepth > 0 /\ Len(tasks) >= maxDepth

\* Mutant: the moved-from task is enqueued instead of the submitted one.
EnqueueMovedFrom(c) ==
    /\ cpc[c] = "passed" /\ mutex = Nobody /\ ~QueueFull
    /\ status' = [status EXCEPT ![item[c]] = "queued"]
    /\ tasks' = Append(tasks, NoTask)
    /\ pending' = (pending + 1) % PendingModulus
    /\ cpc' = [cpc EXCEPT ![c] = "notify"]
    /\ UNCHANGED <<item, maxDepth, workerVars, ctlVars>>

\* The locked section: refuse when the queue is full, else enqueue and count.
Enqueue(c) ==
    /\ cpc[c] = "passed"
    /\ mutex = Nobody
    /\ \/ /\ QueueFull
          /\ status' = [status EXCEPT ![item[c]] = "refused"]
          /\ cpc' = [cpc EXCEPT ![c] = "idle"]
          /\ item' = [item EXCEPT ![c] = NoTask]
          /\ UNCHANGED <<tasks, pending>>
       \/ /\ ~QueueFull
          /\ status' = [status EXCEPT ![item[c]] = "queued"]
          /\ tasks' = Append(tasks, item[c])
          /\ pending' = (pending + 1) % PendingModulus
          /\ cpc' = [cpc EXCEPT ![c] = "notify"]
          /\ UNCHANGED item
    /\ UNCHANGED <<maxDepth, workerVars, ctlVars>>

\* Mutant: the notification is forgotten.
NotifyNobody(c) ==
    /\ cpc[c] = "notify"
    /\ cpc' = [cpc EXCEPT ![c] = "idle"]
    /\ item' = [item EXCEPT ![c] = NoTask]
    /\ UNCHANGED <<maxDepth, tasks, pending, workerVars, status, ctlVars>>

\* cv_.notify_one() after mutex_ was released: wakes some sleeper, if any.
NotifyOne(c) ==
    /\ cpc[c] = "notify"
    /\ cpc' = [cpc EXCEPT ![c] = "idle"]
    /\ item' = [item EXCEPT ![c] = NoTask]
    /\ \/ Sleeping = {} /\ UNCHANGED wpc
       \/ \E w \in Sleeping : wpc' = [wpc EXCEPT ![w] = "enter"]
    /\ UNCHANGED <<maxDepth, tasks, pending, mutex, job, status, ctlVars>>

SetMaxQueueDepth(d) ==
    /\ maxDepth # d
    /\ maxDepth' = d
    /\ UNCHANGED <<tasks, pending, workerVars, clientVars, status, ctlVars>>

-----------------------------------------------------------------------------
(* worker_loop                                                             *)

\* mutex_ taken, predicate true because of a task: pop it and release mutex_.
TakeTask(w) ==
    /\ wpc[w] = "enter"
    /\ mutex = Nobody
    /\ tasks # <<>>
    /\ job' = [job EXCEPT ![w] = Head(tasks)]
    /\ status' = [status EXCEPT ![Head(tasks)] = "running"]
    /\ tasks' = Tail(tasks)
    /\ wpc' = [wpc EXCEPT ![w] = "running"]
    /\ UNCHANGED <<maxDepth, pending, mutex, clientVars, ctlVars>>

\* Predicate true because of stop_, nothing queued: the loop returns.
ExitLoop(w) ==
    /\ wpc[w] = "enter"
    /\ mutex = Nobody
    /\ stop
    /\ tasks = <<>>
    /\ wpc' = [wpc EXCEPT ![w] = "exited"]
    /\ UNCHANGED <<maxDepth, tasks, pending, mutex, job, clientVars, status, ctlVars>>

\* Predicate false: the worker still holds mutex_, but is not yet in the
\* condition variable's wait set.
DecideToSleep(w) ==
    /\ wpc[w] = "enter"
    /\ mutex = Nobody
    /\ ~stop
    /\ tasks = <<>>
    /\ mutex' = w
    /\ wpc' = [wpc EXCEPT ![w] = "blocking"]
    /\ UNCHANGED <<maxDepth, tasks, pending, job, clientVars, status, ctlVars>>

\* The atomic release-and-block of cv_.wait.
Block(w) ==
    /\ wpc[w] = "blocking"
    /\ mutex' = Nobody
    /\ wpc' = [wpc EXCEPT ![w] = "waiting"]
    /\ UNCHANGED <<maxDepth, tasks, pending, job, clientVars, status, ctlVars>>

\* The C++ standard lets a wait return without a notification.
SpuriousWake(w) ==
    /\ wpc[w] = "waiting"
    /\ wpc' = [wpc EXCEPT ![w] = "enter"]
    /\ UNCHANGED <<maxDepth, tasks, pending, mutex, job, clientVars, status, ctlVars>>

\* task(): the packaged_task makes its future ready, whatever the callable does.
RunTask(w) ==
    /\ wpc[w] = "running"
    /\ status' = [status EXCEPT ![job[w]] = "done"]
    /\ wpc' = [wpc EXCEPT ![w] = "counting"]
    /\ UNCHANGED <<maxDepth, tasks, pending, mutex, job, clientVars, ctlVars>>

\* Mutant: pending_ is not decremented.
ForgetCountDown(w) ==
    /\ wpc[w] = "counting"
    /\ job' = [job EXCEPT ![w] = NoTask]
    /\ wpc' = [wpc EXCEPT ![w] = "enter"]
    /\ UNCHANGED <<maxDepth, tasks, pending, mutex, clientVars, status, ctlVars>>

\* pending_.fetch_sub(1) wraps below zero; nobody waits on cv_done_.
CountDown(w) ==
    /\ wpc[w] = "counting"
    /\ pending' = (pending + PendingModulus - 1) % PendingModulus
    /\ job' = [job EXCEPT ![w] = NoTask]
    /\ wpc' = [wpc EXCEPT ![w] = "enter"]
    /\ UNCHANGED <<maxDepth, tasks, mutex, clientVars, status, ctlVars>>

-----------------------------------------------------------------------------
(* shutdown() (also the destructor) and shutdown_now(), called by the owner *)

\* Mutant: shutdown() does what shutdown_now() does, and drops the tasks it owes.
StoreStopAlwaysClears(m) ==
    /\ ctl = "open"
    /\ stop' = TRUE
    /\ ctl' = "clear"
    /\ owed' = {t \in Tasks : status[t] \in Accepted}
    /\ UNCHANGED <<maxDepth, tasks, pending, workerVars, clientVars, status>>

\* stop_.store(true), without mutex_.
StoreStop(m) ==
    /\ ctl = "open"
    /\ stop' = TRUE
    /\ \/ /\ m = "graceful"
          /\ ctl' = "notify"
          /\ owed' = {t \in Tasks : status[t] \in Accepted}
       \/ /\ m = "now"
          /\ ctl' = "clear"
          /\ owed' = {}
    /\ UNCHANGED <<maxDepth, tasks, pending, workerVars, clientVars, status>>

\* Mutant: the queue is cleared without taking mutex_.
ClearWithoutLock ==
    /\ ctl = "clear"
    /\ tasks' = <<>>
    /\ pending' = 0
    /\ status' = [t \in Tasks |-> IF status[t] = "queued" THEN "dropped" ELSE status[t]]
    /\ ctl' = "notify"
    /\ UNCHANGED <<stop, maxDepth, workerVars, clientVars, owed>>

\* shutdown_now only: under mutex_, drop the queue and zero the counter.
ClearQueue ==
    /\ ctl = "clear"
    /\ mutex = Nobody
    /\ tasks' = <<>>
    /\ pending' = 0
    /\ status' = [t \in Tasks |-> IF status[t] = "queued" THEN "dropped" ELSE status[t]]
    /\ ctl' = "notify"
    /\ UNCHANGED <<stop, maxDepth, workerVars, clientVars, owed>>

NotifyAll ==
    /\ ctl = "notify"
    /\ wpc' = [w \in Workers |-> IF wpc[w] = "waiting" THEN "enter" ELSE wpc[w]]
    /\ ctl' = "join"
    /\ UNCHANGED <<stop, maxDepth, tasks, pending, mutex, job, clientVars, status, owed>>

\* worker.join() for each worker, one after the other.
JoinAll ==
    /\ ctl = "join"
    /\ \A w \in Workers : wpc[w] = "exited"
    /\ ctl' = "closed"
    /\ UNCHANGED <<stop, maxDepth, tasks, pending, workerVars, clientVars, status, owed>>

-----------------------------------------------------------------------------
Client(c) == (\E t \in Tasks : CheckStop(c, t)) \/ Enqueue(c) \/ NotifyOne(c)

Lock(w) == TakeTask(w) \/ ExitLoop(w) \/ DecideToSleep(w)

Work(w) == Block(w) \/ RunTask(w) \/ CountDown(w)

Shutdown == ClearQueue \/ NotifyAll \/ JoinAll

Next == \/ \E c \in Clients : Client(c)
        \/ \E w \in Workers : Lock(w) \/ Work(w) \/ SpuriousWake(w)
        \/ \E d \in Depths : SetMaxQueueDepth(d)
        \/ \E m \in ShutdownModes : StoreStop(m)
        \/ Shutdown

Spec == Init /\ [][Next]_vars

(* The scheduler runs every thread that can run, tasks terminate, and a    *)
(* thread that keeps finding mutex_ free now and then gets it.  Nobody has *)
(* to submit, to shut down or to wake up for no reason.                    *)
Fairness == /\ \A w \in Workers : SF_vars(Lock(w)) /\ WF_vars(Work(w))
            /\ \A c \in Clients : SF_vars(Enqueue(c)) /\ WF_vars(NotifyOne(c))
            /\ WF_vars(NotifyAll) /\ WF_vars(JoinAll) /\ SF_vars(ClearQueue)

FairSpec == Spec /\ Fairness

-----------------------------------------------------------------------------
(* Safety                                                                  *)

\* Every task sits in exactly the place its status names: one slot of the
\* queue, one worker, or one submitting client, never two of them.
OnePlace ==
    /\ \A i, j \in DOMAIN tasks : tasks[i] = tasks[j] => i = j
    /\ \A t \in Tasks : (status[t] = "queued") <=> (\E i \in DOMAIN tasks : tasks[i] = t)
    /\ \A w \in Workers : wpc[w] = "running" => status[job[w]] = "running"
    /\ \A v, w \in Workers :
          wpc[v] = "running" /\ wpc[w] = "running" /\ job[v] = job[w] => v = w
    /\ \A t \in Tasks : status[t] = "running" =>
          \E w \in Workers : wpc[w] = "running" /\ job[w] = t

\* shutdown() returns only when every task accepted before it stored stop_
\* has finished, although workers stop one by one while others still run.
GracefulDrain == ctl = "closed" => \A t \in owed : status[t] = "done"

\* No task is running once shutdown() or shutdown_now() has returned.
QuietAfterClose == ctl = "closed" => \A t \in Tasks : status[t] # "running"

\* Before a shutdown begins, and until shutdown_now zeroes it, pending_ is the number
\* of tasks that are queued or held by a worker, although it is decremented outside
\* mutex_.  (Nothing is said of it once the workers are notified to stop.)
PendingExact ==
    ctl \in {"open", "clear"} =>
        pending = (Len(tasks) + Cardinality(Busy)) % PendingModulus

-----------------------------------------------------------------------------
(* Liveness                                                                *)

\* An accepted task is run unless the pool is stopped first: no notify_one is
\* ever missed by all the workers.
AcceptedIsRun == \A t \in Tasks : status[t] = "queued" ~> status[t] = "done" \/ stop

\* shutdown_now returns: between storing stop_ and notifying it takes mutex_, so
\* no worker can be caught between its predicate and its wait.
ImmediateShutdownReturns == ctl = "clear" ~> ctl = "closed"

\* "Graceful shutdown: wait until all tasks are done, then exit": a shutdown that
\* has begun returns.  shutdown() does not take mutex_ before it notifies.
ShutdownReturns == ctl = "notify" ~> ctl = "closed"

-----------------------------------------------------------------------------
(* The pool implements the service its callers see.                        *)
Phase == CASE ctl = "open" -> "open" [] ctl = "closed" -> "closed" [] OTHER -> "closing"

Service == INSTANCE TaskService WITH phase <- Phase, line <- tasks

ImplementsService == Service!Spec
=============================================================================
