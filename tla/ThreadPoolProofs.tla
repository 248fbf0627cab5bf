-------------------------- MODULE ThreadPoolProofs --------------------------
(***************************************************************************)
(* Theorems about ThreadPool, for any number of workers, clients and tasks *)
(* and any queue depth.                                                    *)
(***************************************************************************)
EXTENDS ThreadPool, FiniteSetTheorems, TLAPS

\* stop_ is set by the first step of a shutdown and by nothing else.
StopMatchesCtl == stop <=> ctl # "open"

\* A client past the stop check owns the task it is about to enqueue.
ClientOwnsItem ==
    /\ \A c \in Clients : cpc[c] # "idle" => item[c] \in Tasks
    /\ \A c \in Clients : cpc[c] = "passed" => status[item[c]] = "submitting"
    /\ \A c, d \in Clients :
          cpc[c] = "passed" /\ cpc[d] = "passed" /\ item[c] = item[d] => c = d

WorkerHasJob == \A w \in Workers : wpc[w] \in {"running", "counting"} => job[w] \in Tasks

\* Why a graceful shutdown drains: a worker leaves only when the queue is
\* empty, so from the first exit on no owed task is queued.
ExitAfterDrain == \A w \in Workers : wpc[w] = "exited" =>
                      stop /\ \A t \in owed : status[t] # "queued"

OwedAccepted == /\ \A t \in owed : status[t] \in Accepted
                /\ ctl \in {"open", "clear"} => owed = {}

ClosedAfterJoin == ctl = "closed" => \A w \in Workers : wpc[w] = "exited"

IInv == /\ TypeOK
        /\ StopMatchesCtl
        /\ ClientOwnsItem
        /\ WorkerHasJob
        /\ OnePlace
        /\ ExitAfterDrain
        /\ OwedAccepted
        /\ ClosedAfterJoin

-----------------------------------------------------------------------------
(* Every variable keeps its type.                                          *)
LEMMA InitType == Init => TypeOK
<1> SUFFICES ASSUME Init PROVE TypeOK
  OBVIOUS
<1>1. tasks \in Seq(Tasks)
  BY DEF Init
<1>2. pending \in 0 .. PendingModulus - 1
  BY ModulusAssumption DEF Init
<1>3. QED
  BY <1>1, <1>2 DEF Init, TypeOK, Status

LEMMA NextType == TypeOK /\ ClientOwnsItem /\ WorkerHasJob /\ [Next]_vars => TypeOK'
<1> SUFFICES ASSUME TypeOK, ClientOwnsItem, WorkerHasJob, [Next]_vars
             PROVE  TypeOK'
  OBVIOUS
<1> USE DEF TypeOK, Status, vars, clientVars, workerVars, ctlVars
<1>1. ASSUME NEW c \in Clients, NEW t \in Tasks, CheckStop(c, t) PROVE TypeOK'
  BY <1>1 DEF CheckStop
<1>2. ASSUME NEW c \in Clients, Enqueue(c) PROVE TypeOK'
  <2>1. item[c] \in Tasks
    BY <1>2 DEF Enqueue, ClientOwnsItem
  <2>2. (pending + 1) % PendingModulus \in 0 .. PendingModulus - 1
    BY ModulusAssumption
  <2>3. CASE QueueFull
    BY <1>2, <2>1, <2>3 DEF Enqueue
  <2>4. CASE ~QueueFull
    <3>1. Append(tasks, item[c]) \in Seq(Tasks)
      BY <2>1
    <3>2. tasks' \in Seq(Tasks) /\ pending' \in 0 .. PendingModulus - 1
      BY <1>2, <2>2, <2>4, <3>1 DEF Enqueue
    <3>3. QED
      BY <1>2, <2>4, <3>2 DEF Enqueue
  <2>5. QED BY <2>3, <2>4
<1>3. ASSUME NEW c \in Clients, NotifyOne(c) PROVE TypeOK'
  BY <1>3 DEF NotifyOne, Sleeping
<1>4. ASSUME NEW w \in Workers, TakeTask(w) PROVE TypeOK'
  <2>1. Head(tasks) \in Tasks /\ Tail(tasks) \in Seq(Tasks)
    BY <1>4 DEF TakeTask
  <2>2. QED BY <1>4, <2>1 DEF TakeTask
<1>5. ASSUME NEW w \in Workers, ExitLoop(w) \/ DecideToSleep(w) \/ Block(w) \/ SpuriousWake(w)
      PROVE  TypeOK'
  BY <1>5 DEF ExitLoop, DecideToSleep, Block, SpuriousWake
<1>6. ASSUME NEW w \in Workers, RunTask(w) PROVE TypeOK'
  BY <1>6 DEF RunTask
<1>7. ASSUME NEW w \in Workers, CountDown(w) PROVE TypeOK'
  <2>1. (pending + PendingModulus - 1) % PendingModulus \in 0 .. PendingModulus - 1
    BY ModulusAssumption
  <2>2. QED BY <1>7, <2>1 DEF CountDown
<1>8. ASSUME NEW d \in Depths, SetMaxQueueDepth(d) PROVE TypeOK'
  BY <1>8, DepthsAssumption DEF SetMaxQueueDepth
<1>9. ASSUME NEW m \in ShutdownModes, StoreStop(m) PROVE TypeOK'
  BY <1>9 DEF StoreStop, Accepted
<1>10. CASE Shutdown
  <2>1. ClearQueue => TypeOK'
    BY ModulusAssumption DEF ClearQueue
  <2>2. NotifyAll => TypeOK'
    BY DEF NotifyAll
  <2>3. JoinAll => TypeOK'
    BY DEF JoinAll
  <2>4. QED BY <1>10, <2>1, <2>2, <2>3 DEF Shutdown
<1>11. CASE UNCHANGED vars
  BY <1>11
<1>12. QED
  BY <1>1, <1>2, <1>3, <1>4, <1>5, <1>6, <1>7, <1>8, <1>9, <1>10, <1>11
  DEF Next, Client, Lock, Work

-----------------------------------------------------------------------------
(* The inductive invariant.                                                *)
LEMMA InitIInv == Init => IInv
<1> SUFFICES ASSUME Init PROVE IInv
  OBVIOUS
<1>1. TypeOK
  BY InitType
<1>2. OnePlace
  BY DEF Init, OnePlace
<1>3. QED
  BY <1>1, <1>2 DEF Init, IInv, StopMatchesCtl, ClientOwnsItem, WorkerHasJob,
     ExitAfterDrain, OwedAccepted, ClosedAfterJoin

LEMMA NextIInv == IInv /\ [Next]_vars => IInv'
<1> SUFFICES ASSUME IInv, [Next]_vars
             PROVE  IInv'
  OBVIOUS
<1> USE DEF vars, clientVars, workerVars, ctlVars
<1> DEFINE Rest == /\ StopMatchesCtl /\ ClientOwnsItem /\ WorkerHasJob
                   /\ ExitAfterDrain /\ OwedAccepted /\ ClosedAfterJoin
<1>t. TypeOK'
  BY NextType DEF IInv
<1>0. TypeOK /\ Rest /\ OnePlace
  BY DEF IInv
<1>1. ASSUME NEW c \in Clients, NEW t \in Tasks, CheckStop(c, t) PROVE Rest' /\ OnePlace'
  <2>a. ClientOwnsItem'
    BY <1>1, <1>0 DEF CheckStop, TypeOK, ClientOwnsItem
  <2>b. t \notin owed
    BY <1>1, <1>0 DEF CheckStop, OwedAccepted, Accepted
  <2>c. ExitAfterDrain' /\ OwedAccepted'
    BY <2>b, <1>1, <1>0 DEF CheckStop, TypeOK, Accepted, ExitAfterDrain, OwedAccepted
  <2>1. Rest'
    BY <2>a, <2>c, <1>1, <1>0 DEF CheckStop, StopMatchesCtl, WorkerHasJob, ClosedAfterJoin
  <2>2. OnePlace'
    BY <1>1, <1>0 DEF CheckStop, TypeOK, Status, OnePlace, ClientOwnsItem, WorkerHasJob
  <2>3. QED BY <2>1, <2>2
<1>2. ASSUME NEW c \in Clients, Enqueue(c) PROVE Rest' /\ OnePlace'
  <2>1. item[c] \in Tasks /\ status[item[c]] = "submitting"
    BY <1>2, <1>0 DEF Enqueue, ClientOwnsItem
  <2>2. CASE QueueFull
    <3>0. /\ status' = [status EXCEPT ![item[c]] = "refused"]
          /\ cpc' = [cpc EXCEPT ![c] = "idle"]
          /\ item' = [item EXCEPT ![c] = NoTask]
          /\ cpc[c] = "passed"
          /\ UNCHANGED <<tasks, workerVars, ctlVars>>
      BY <1>2, <2>2 DEF Enqueue
    <3>a. ClientOwnsItem'
      BY <3>0, <2>1, <1>0 DEF TypeOK, ClientOwnsItem
    <3>b. ExitAfterDrain' /\ OwedAccepted'
      BY <3>0, <2>1, <1>0 DEF TypeOK, Accepted, ExitAfterDrain, OwedAccepted
    <3>1. Rest'
      BY <3>0, <3>a, <3>b, <1>0 DEF StopMatchesCtl, WorkerHasJob, ClosedAfterJoin
    <3>2. OnePlace'
      BY <1>2, <1>0, <2>1, <2>2 DEF Enqueue, TypeOK, OnePlace, WorkerHasJob
    <3>3. QED BY <3>1, <3>2
  <2>3. CASE ~QueueFull
    <3>1. /\ status' = [status EXCEPT ![item[c]] = "queued"]
          /\ tasks' = Append(tasks, item[c])
          /\ cpc' = [cpc EXCEPT ![c] = "notify"]
          /\ UNCHANGED <<item, workerVars, ctlVars>>
      BY <1>2, <2>3 DEF Enqueue
    <3>2. item[c] \notin owed
      BY <2>1, <1>0 DEF OwedAccepted, Accepted
    <3>a. ClientOwnsItem'
      BY <3>1, <2>1, <1>0, <1>2 DEF Enqueue, TypeOK, ClientOwnsItem
    <3>b. ExitAfterDrain' /\ OwedAccepted'
      BY <3>1, <3>2, <2>1, <1>0 DEF TypeOK, Accepted, ExitAfterDrain, OwedAccepted
    <3>3. Rest'
      BY <3>1, <3>a, <3>b, <1>0 DEF StopMatchesCtl, WorkerHasJob, ClosedAfterJoin
    <3>4. /\ DOMAIN tasks = 1 .. Len(tasks)
          /\ DOMAIN tasks' = 1 .. Len(tasks) + 1
          /\ \A i \in 1 .. Len(tasks) : tasks'[i] = tasks[i]
          /\ tasks'[Len(tasks) + 1] = item[c]
          /\ Len(tasks) \in Nat
      BY <3>1, <2>1, <1>0 DEF TypeOK
    <3>5. \A i \in 1 .. Len(tasks) : tasks[i] # item[c]
      BY <2>1, <3>4, <1>0 DEF OnePlace
    <3>6. \A i, j \in DOMAIN tasks' : tasks'[i] = tasks'[j] => i = j
      BY <3>4, <3>5, <1>0 DEF OnePlace
    <3>7. \A t \in Tasks : (status'[t] = "queued") <=> (\E i \in DOMAIN tasks' : tasks'[i] = t)
      BY <3>1, <3>4, <2>1, <1>0 DEF OnePlace, TypeOK
    <3>8. OnePlace'
      BY <3>1, <3>6, <3>7, <2>1, <1>0 DEF OnePlace, TypeOK, WorkerHasJob
    <3>9. QED BY <3>3, <3>8
  <2>4. QED BY <2>2, <2>3
<1>3. ASSUME NEW c \in Clients, NotifyOne(c) PROVE Rest' /\ OnePlace'
  <2>1. Rest'
    BY <1>3, <1>0 DEF NotifyOne, Sleeping, TypeOK, Status, Accepted, StopMatchesCtl,
       ClientOwnsItem, WorkerHasJob, OnePlace, ExitAfterDrain, OwedAccepted, ClosedAfterJoin
  <2>2. OnePlace'
    BY <1>3, <1>0 DEF NotifyOne, Sleeping, TypeOK, Status, OnePlace, ClientOwnsItem, WorkerHasJob
  <2>3. QED BY <2>1, <2>2
<1>4. ASSUME NEW w \in Workers, TakeTask(w) PROVE Rest' /\ OnePlace'
  <2>1. Rest'
    BY <1>4, <1>0 DEF TakeTask, TypeOK, Status, Accepted, StopMatchesCtl,
       ClientOwnsItem, WorkerHasJob, OnePlace, ExitAfterDrain, OwedAccepted, ClosedAfterJoin
  <2>2. /\ Len(tasks) \in Nat \ {0}
        /\ DOMAIN tasks = 1 .. Len(tasks)
        /\ DOMAIN tasks' = 1 .. Len(tasks) - 1
        /\ \A i \in 1 .. Len(tasks) - 1 : tasks'[i] = tasks[i + 1]
        /\ Head(tasks) = tasks[1]
        /\ Head(tasks) \in Tasks
    BY <1>4, <1>0 DEF TakeTask, TypeOK
  <2>3. status[Head(tasks)] = "queued"
    BY <2>2, <1>0 DEF OnePlace
  <2>4. \A i, j \in DOMAIN tasks' : tasks'[i] = tasks'[j] => i = j
    BY <2>2, <1>0 DEF OnePlace
  <2>5. ASSUME NEW t \in Tasks
        PROVE  (status'[t] = "queued") <=> (\E i \in DOMAIN tasks' : tasks'[i] = t)
    <3>1. CASE t = Head(tasks)
      <4>1. status'[t] # "queued"
        BY <3>1, <1>4, <1>0 DEF TakeTask, TypeOK
      <4>2. \A i \in DOMAIN tasks' : tasks'[i] # t
        BY <3>1, <2>2, <1>0 DEF OnePlace
      <4>3. QED BY <4>1, <4>2
    <3>2. CASE t # Head(tasks)
      <4>1. status'[t] = status[t]
        BY <3>2, <1>4, <1>0 DEF TakeTask, TypeOK
      <4>2. ASSUME NEW i \in DOMAIN tasks, tasks[i] = t
            PROVE  i - 1 \in DOMAIN tasks' /\ tasks'[i - 1] = t
        BY <3>2, <2>2, <4>2
      <4>3. ASSUME NEW i \in DOMAIN tasks', tasks'[i] = t
            PROVE  i + 1 \in DOMAIN tasks /\ tasks[i + 1] = t
        BY <2>2, <4>3
      <4>4. QED
        BY <4>1, <4>2, <4>3, <1>0 DEF OnePlace
    <3>3. QED BY <3>1, <3>2
  <2>6. /\ \A v \in Workers : wpc'[v] = "running" => status'[job'[v]] = "running"
        /\ \A u, v \in Workers :
              wpc'[u] = "running" /\ wpc'[v] = "running" /\ job'[u] = job'[v] => u = v
        /\ \A t \in Tasks : status'[t] = "running" =>
              \E v \in Workers : wpc'[v] = "running" /\ job'[v] = t
    BY <2>2, <2>3, <1>4, <1>0 DEF TakeTask, TypeOK, OnePlace, WorkerHasJob
  <2>7. OnePlace'
    BY <2>4, <2>5, <2>6 DEF OnePlace
  <2>8. QED BY <2>1, <2>7
<1>5. ASSUME NEW w \in Workers, ExitLoop(w) PROVE Rest' /\ OnePlace'
  <2>1. Rest'
    BY <1>5, <1>0 DEF ExitLoop, TypeOK, Status, Accepted, StopMatchesCtl,
       ClientOwnsItem, WorkerHasJob, OnePlace, ExitAfterDrain, OwedAccepted, ClosedAfterJoin
  <2>2. OnePlace'
    BY <1>5, <1>0 DEF ExitLoop, TypeOK, Status, OnePlace, ClientOwnsItem, WorkerHasJob
  <2>3. QED BY <2>1, <2>2
<1>6. ASSUME NEW w \in Workers, DecideToSleep(w) \/ Block(w) \/ SpuriousWake(w) PROVE Rest' /\ OnePlace'
  <2>1. Rest'
    BY <1>6, <1>0 DEF DecideToSleep, Block, SpuriousWake, TypeOK, Status, Accepted, StopMatchesCtl,
       ClientOwnsItem, WorkerHasJob, OnePlace, ExitAfterDrain, OwedAccepted, ClosedAfterJoin
  <2>2. OnePlace'
    BY <1>6, <1>0 DEF DecideToSleep, Block, SpuriousWake, TypeOK, Status, OnePlace, ClientOwnsItem, WorkerHasJob
  <2>3. QED BY <2>1, <2>2
<1>7. ASSUME NEW w \in Workers, RunTask(w) PROVE Rest' /\ OnePlace'
  <2>1. Rest'
    BY <1>7, <1>0 DEF RunTask, TypeOK, Status, Accepted, StopMatchesCtl,
       ClientOwnsItem, WorkerHasJob, OnePlace, ExitAfterDrain, OwedAccepted, ClosedAfterJoin
  <2>2. OnePlace'
    BY <1>7, <1>0 DEF RunTask, TypeOK, Status, OnePlace, ClientOwnsItem, WorkerHasJob
  <2>3. QED BY <2>1, <2>2
<1>8. ASSUME NEW w \in Workers, CountDown(w) PROVE Rest' /\ OnePlace'
  <2>1. Rest'
    BY <1>8, <1>0 DEF CountDown, TypeOK, Status, Accepted, StopMatchesCtl,
       ClientOwnsItem, WorkerHasJob, OnePlace, ExitAfterDrain, OwedAccepted, ClosedAfterJoin
  <2>2. OnePlace'
    BY <1>8, <1>0 DEF CountDown, TypeOK, Status, OnePlace, ClientOwnsItem, WorkerHasJob
  <2>3. QED BY <2>1, <2>2
<1>9. ASSUME NEW d \in Depths, SetMaxQueueDepth(d) PROVE Rest' /\ OnePlace'
  <2>1. Rest'
    BY <1>9, <1>0 DEF SetMaxQueueDepth, TypeOK, Status, Accepted, StopMatchesCtl,
       ClientOwnsItem, WorkerHasJob, OnePlace, ExitAfterDrain, OwedAccepted, ClosedAfterJoin
  <2>2. OnePlace'
    BY <1>9, <1>0 DEF SetMaxQueueDepth, TypeOK, Status, OnePlace, ClientOwnsItem, WorkerHasJob
  <2>3. QED BY <2>1, <2>2
<1>10. ASSUME NEW m \in ShutdownModes, StoreStop(m) PROVE Rest' /\ OnePlace'
  <2>1. Rest'
    BY <1>10, <1>0 DEF StoreStop, TypeOK, Status, Accepted, StopMatchesCtl,
       ClientOwnsItem, WorkerHasJob, OnePlace, ExitAfterDrain, OwedAccepted, ClosedAfterJoin
  <2>2. OnePlace'
    BY <1>10, <1>0 DEF StoreStop, TypeOK, Status, OnePlace, ClientOwnsItem, WorkerHasJob
  <2>3. QED BY <2>1, <2>2
<1>11. ASSUME ClearQueue PROVE Rest' /\ OnePlace'
  <2>1. Rest'
    BY <1>11, <1>0 DEF ClearQueue, TypeOK, Status, Accepted, StopMatchesCtl,
       ClientOwnsItem, WorkerHasJob, OnePlace, ExitAfterDrain, OwedAccepted, ClosedAfterJoin
  <2>2. OnePlace'
    BY <1>11, <1>0 DEF ClearQueue, TypeOK, Status, OnePlace, ClientOwnsItem, WorkerHasJob
  <2>3. QED BY <2>1, <2>2
<1>12. ASSUME NotifyAll PROVE Rest' /\ OnePlace'
  <2>1. Rest'
    BY <1>12, <1>0 DEF NotifyAll, TypeOK, Status, Accepted, StopMatchesCtl,
       ClientOwnsItem, WorkerHasJob, OnePlace, ExitAfterDrain, OwedAccepted, ClosedAfterJoin
  <2>2. OnePlace'
    BY <1>12, <1>0 DEF NotifyAll, TypeOK, Status, OnePlace, ClientOwnsItem, WorkerHasJob
  <2>3. QED BY <2>1, <2>2
<1>13. ASSUME JoinAll PROVE Rest' /\ OnePlace'
  <2>1. Rest'
    BY <1>13, <1>0 DEF JoinAll, TypeOK, Status, Accepted, StopMatchesCtl,
       ClientOwnsItem, WorkerHasJob, OnePlace, ExitAfterDrain, OwedAccepted, ClosedAfterJoin
  <2>2. OnePlace'
    BY <1>13, <1>0 DEF JoinAll, TypeOK, Status, OnePlace, ClientOwnsItem, WorkerHasJob
  <2>3. QED BY <2>1, <2>2
<1>14. ASSUME UNCHANGED vars PROVE Rest' /\ OnePlace'
  BY <1>14, <1>0 DEF StopMatchesCtl, ClientOwnsItem, WorkerHasJob, OnePlace,
     ExitAfterDrain, OwedAccepted, ClosedAfterJoin
<1>15. Rest' /\ OnePlace'
  BY <1>1, <1>2, <1>3, <1>4, <1>5, <1>6, <1>7, <1>8, <1>9, <1>10, <1>11, <1>12,
     <1>13, <1>14 DEF Next, Client, Lock, Work, Shutdown
<1>16. QED
  BY <1>t, <1>15 DEF IInv

-----------------------------------------------------------------------------
LEMMA IInvIsInvariant == Spec => []IInv
<1>1. QED
  BY InitIInv, NextIInv, PTL DEF Spec

\* Type correctness of the pool, whatever its size.
THEOREM TypeCorrect == Spec => []TypeOK
<1>1. IInv => TypeOK
  BY DEF IInv
<1>2. QED
  BY <1>1, IInvIsInvariant, PTL

\* No task is ever lost, duplicated or run by two workers.
THEOREM TasksHaveOnePlace == Spec => []OnePlace
<1>1. IInv => OnePlace
  BY DEF IInv
<1>2. QED
  BY <1>1, IInvIsInvariant, PTL

\* A graceful shutdown that returns has run every task accepted before it:
\* all workers have left, so none of the owed tasks is queued or running.
THEOREM ShutdownDrains == Spec => []GracefulDrain
<1>1. ASSUME IInv, ctl = "closed", NEW t \in owed
      PROVE  status[t] = "done"
  <2>1. \A w \in Workers : wpc[w] = "exited"
    BY <1>1 DEF IInv, ClosedAfterJoin
  <2>2. t \in Tasks /\ status[t] \in Accepted
    BY <1>1 DEF IInv, TypeOK, OwedAccepted
  <2>3. status[t] # "queued"
    BY <1>1, <2>1, WorkersAssumption DEF IInv, ExitAfterDrain
  <2>4. status[t] # "running"
    BY <1>1, <2>1, <2>2 DEF IInv, OnePlace
  <2>5. QED
    BY <2>2, <2>3, <2>4 DEF Accepted
<1>2. IInv => GracefulDrain
  BY <1>1 DEF GracefulDrain
<1>3. QED
  BY <1>2, IInvIsInvariant, PTL

\* After either shutdown has returned no task is still running.
THEOREM ClosedIsQuiet == Spec => []QuietAfterClose
<1>1. IInv => QuietAfterClose
  BY DEF IInv, QuietAfterClose, OnePlace, ClosedAfterJoin
<1>2. QED
  BY <1>1, IInvIsInvariant, PTL

-----------------------------------------------------------------------------
(* The pool implements TaskService: each step is a step of the service or  *)
(* leaves the callers' view unchanged.                                     *)
LEMMA InitRefines == Init => Service!Init
  BY DEF Init, Service!Init, Phase

LEMMA NextRefines == IInv /\ [Next]_vars => [Service!Next]_(Service!vars)
<1> SUFFICES ASSUME IInv, [Next]_vars
             PROVE  [Service!Next]_(Service!vars)
  OBVIOUS
<1> USE DEF vars, clientVars, workerVars, ctlVars, Service!vars
<1> DEFINE Goal == [Service!Next]_(Service!vars)
<1>0. TypeOK /\ StopMatchesCtl /\ ClientOwnsItem /\ WorkerHasJob /\ OnePlace
      /\ ExitAfterDrain /\ OwedAccepted /\ ClosedAfterJoin
  BY DEF IInv
<1>p. UNCHANGED ctl => UNCHANGED Phase
  BY DEF Phase
<1>1. ASSUME NEW c \in Clients, NEW t \in Tasks, CheckStop(c, t) PROVE Goal
  <2>1. CASE stop
    <3>1. Service!Refuse(t)
      BY <1>1, <2>1, <1>p DEF CheckStop, Service!Refuse, Service!Move
    <3>2. QED BY <3>1 DEF Service!Next
  <2>2. CASE ~stop
    <3>1. Phase = "open"
      BY <2>2, <1>0 DEF StopMatchesCtl, Phase
    <3>2. Service!Offer(t)
      BY <1>1, <2>2, <3>1, <1>p DEF CheckStop, Service!Offer, Service!Move
    <3>3. QED BY <3>2 DEF Service!Next
  <2>3. QED BY <2>1, <2>2
<1>2. ASSUME NEW c \in Clients, Enqueue(c) PROVE Goal
  <2>1. item[c] \in Tasks /\ status[item[c]] = "submitting"
    BY <1>2, <1>0 DEF Enqueue, ClientOwnsItem
  <2>2. Service!Refuse(item[c]) \/ Service!Accept(item[c])
    BY <1>2, <2>1, <1>p DEF Enqueue, Service!Refuse, Service!Accept, Service!Move
  <2>3. QED BY <2>1, <2>2 DEF Service!Next
<1>3. ASSUME NEW w \in Workers, TakeTask(w) PROVE Goal
  <2>1. Head(tasks) \in Tasks /\ Head(tasks) = tasks[1] /\ 1 \in DOMAIN tasks
    BY <1>3, <1>0 DEF TakeTask, TypeOK
  <2>2. status[Head(tasks)] = "queued"
    BY <2>1, <1>0 DEF OnePlace
  <2>3. Phase # "closed"
    BY <1>3, <1>0 DEF TakeTask, ClosedAfterJoin, Phase
  <2>4. Service!Start(Head(tasks))
    BY <1>3, <2>2, <2>3, <1>p DEF TakeTask, Service!Start, Service!Move
  <2>5. QED BY <2>1, <2>4 DEF Service!Next
<1>4. ASSUME NEW w \in Workers, RunTask(w) PROVE Goal
  <2>1. job[w] \in Tasks /\ status[job[w]] = "running"
    BY <1>4, <1>0 DEF RunTask, WorkerHasJob, OnePlace
  <2>2. Service!Finish(job[w])
    BY <1>4, <2>1, <1>p DEF RunTask, Service!Finish, Service!Move
  <2>3. QED BY <2>1, <2>2 DEF Service!Next
<1>5. ASSUME NEW m \in ShutdownModes, StoreStop(m) PROVE Goal
  <2>1. Phase = "open" /\ Phase' = "closing"
    BY <1>5 DEF StoreStop, Phase
  <2>2. owed' \in {{}, {t \in Tasks : status[t] \in Service!Accepted}}
    BY <1>5 DEF StoreStop, Accepted, Service!Accepted
  <2>3. Service!StartClose
    BY <1>5, <2>1, <2>2 DEF StoreStop, Service!StartClose
  <2>4. QED BY <2>3 DEF Service!Next
<1>6. ASSUME ClearQueue PROVE Goal
  <2>1. Phase = "closing" /\ Phase' = "closing" /\ owed = {}
    BY <1>6, <1>0 DEF ClearQueue, Phase, OwedAccepted
  <2>2. Service!Drop
    BY <1>6, <2>1 DEF ClearQueue, Service!Drop
  <2>3. QED BY <2>2 DEF Service!Next
<1>7. ASSUME NotifyAll PROVE Goal
  BY <1>7 DEF NotifyAll, Phase
<1>8. ASSUME JoinAll PROVE Goal
  <2>1. Phase = "closing" /\ Phase' = "closed" /\ UNCHANGED <<status, tasks, owed>>
    BY <1>8 DEF JoinAll, Phase
  <2>2. \A t \in Tasks : status[t] # "running"
    BY <1>8, <1>0 DEF JoinAll, OnePlace
  <2>3. \A t \in owed : status[t] = "done"
    BY <1>8, <2>2, <1>0, WorkersAssumption
    DEF JoinAll, TypeOK, ExitAfterDrain, OwedAccepted, Accepted
  <2>4. Service!FinishClose
    BY <2>1, <2>2, <2>3 DEF Service!FinishClose
  <2>5. QED BY <2>4 DEF Service!Next
<1>9. ASSUME UNCHANGED <<status, tasks, ctl, owed>> PROVE Goal
  BY <1>9, <1>p
<1>10. QED
  BY <1>1, <1>2, <1>3, <1>4, <1>5, <1>6, <1>7, <1>8, <1>9
  DEF Next, Client, Lock, Work, Shutdown, NotifyOne, SetMaxQueueDepth, ExitLoop,
      DecideToSleep, Block, SpuriousWake, CountDown

\* The refinement, for every instance: callers cannot tell the pool with its
\* queue, mutex and sleeping workers from the abstract service.
THEOREM PoolImplementsService == Spec => ImplementsService
<1>1. Spec => Service!Init /\ [][Service!Next]_(Service!vars)
  BY InitRefines, NextRefines, IInvIsInvariant, PTL DEF Spec
<1>2. QED
  BY <1>1 DEF ImplementsService, Service!Spec

-----------------------------------------------------------------------------
(* pending_ wraps like the size_t it is: the facts about % that its proof   *)
(* needs.                                                                  *)
LEMMA Remainder ==
  ASSUME NEW M \in Nat \ {0}, NEW q \in Nat, NEW r \in 0 .. M - 1
  PROVE  (M * q + r) % M = r
  BY SMTT(30)

LEMMA Divide ==
  ASSUME NEW M \in Nat \ {0}, NEW n \in Nat
  PROVE  \E q \in Nat, r \in 0 .. M - 1 : n = M * q + r /\ n % M = r
<1>1. n % M \in 0 .. M - 1
  BY SMTT(30)
<1>2. n = M * (n \div M) + (n % M)
  BY SMTT(30)
<1>3. n \div M \in Nat
  BY SMTT(30)
<1>4. QED
  BY <1>1, <1>2, <1>3, Zenon

LEMMA NextMultiple ==
  ASSUME NEW M \in Nat \ {0}, NEW q \in Nat
  PROVE  M * q + M = M * (q + 1) /\ M * q \in Nat
  OBVIOUS

\* Counting up and down modulo M follows counting in Nat.
LEMMA UpAndDown ==
  ASSUME NEW M \in Nat \ {0}, NEW n \in Nat
  PROVE  /\ ((n % M) + 1) % M = (n + 1) % M
         /\ (((n + 1) % M) + M - 1) % M = n % M
<1>1. PICK q \in Nat, r \in 0 .. M - 1 : n = M * q + r /\ n % M = r
  BY Divide, Zenon
<1>2. CASE r + 1 < M
  <2>1. n + 1 = M * q + (r + 1) /\ r + 1 \in 0 .. M - 1
    BY <1>1, <1>2, NextMultiple
  <2>2. (n + 1) % M = r + 1
    BY <2>1, Remainder
  <2>3. (r + 1) % M = r + 1
    BY <2>1
  <2>4. ((n + 1) % M) + M - 1 = M * 1 + r
    BY <2>2
  <2>5. (M * 1 + r) % M = r
    BY Remainder
  <2>6. QED BY <2>2, <2>3, <2>4, <2>5, <1>1
<1>3. CASE r + 1 = M
  <2>1. n + 1 = M * q + M
    BY <1>1, <1>3, NextMultiple
  <2>2. n + 1 = M * (q + 1) + 0 /\ 0 \in 0 .. M - 1 /\ q + 1 \in Nat
    BY <2>1, NextMultiple
  <2>3. (n + 1) % M = 0
    BY <2>2, Remainder
  <2>4. M % M = 0 /\ (M - 1) % M = M - 1
    OBVIOUS
  <2>5. QED BY <2>3, <2>4, <1>3, <1>1
<1>4. QED BY <1>2, <1>3

-----------------------------------------------------------------------------
(* What pending_ counts.                                                   *)

\* A worker forgets its task before it looks for the next one.
IdleHasNoJob == \A w \in Workers : wpc[w] \notin {"running", "counting"} => job[w] = NoTask

CountInv == IInv /\ IdleHasNoJob /\ PendingExact

LEMMA BusyIsFinite == IsFiniteSet(Busy) /\ Cardinality(Busy) \in Nat
<1>1. IsFiniteSet(Busy)
  BY WorkersAssumption, FS_Subset DEF Busy
<1>2. QED
  BY <1>1, FS_CardinalityType

LEMMA InitCount == Init => CountInv
<1> SUFFICES ASSUME Init PROVE CountInv
  OBVIOUS
<1>1. Busy = {}
  BY DEF Init, Busy
<1>2. Len(tasks) = 0 /\ Cardinality(Busy) = 0 /\ pending = 0
  BY <1>1, FS_EmptySet DEF Init
<1>3. PendingExact
  BY <1>2, ModulusAssumption DEF PendingExact
<1>4. IdleHasNoJob
  BY DEF Init, IdleHasNoJob
<1>5. QED
  BY <1>3, <1>4, InitIInv DEF CountInv

LEMMA NextIdle == IInv /\ IdleHasNoJob /\ [Next]_vars => IdleHasNoJob'
<1> SUFFICES ASSUME IInv, IdleHasNoJob, [Next]_vars PROVE IdleHasNoJob'
  OBVIOUS
<1> USE DEF IdleHasNoJob, vars, clientVars, workerVars, ctlVars
<1>0. TypeOK
  BY DEF IInv
<1>1. ASSUME NEW w \in Workers, TakeTask(w) \/ RunTask(w) \/ CountDown(w)
      PROVE  IdleHasNoJob'
  BY <1>0, <1>1 DEF TypeOK, TakeTask, RunTask, CountDown
<1>2. ASSUME NEW w \in Workers, ExitLoop(w) \/ DecideToSleep(w) \/ Block(w) \/ SpuriousWake(w)
      PROVE  IdleHasNoJob'
  BY <1>0, <1>2 DEF TypeOK, ExitLoop, DecideToSleep, Block, SpuriousWake
<1>3. ASSUME NEW c \in Clients, NotifyOne(c) PROVE IdleHasNoJob'
  BY <1>0, <1>3 DEF TypeOK, NotifyOne, Sleeping
<1>4. ASSUME NotifyAll PROVE IdleHasNoJob'
  BY <1>0, <1>4 DEF TypeOK, NotifyAll
<1>5. ASSUME UNCHANGED workerVars PROVE IdleHasNoJob'
  BY <1>5
<1>6. QED
  BY <1>1, <1>2, <1>3, <1>4, <1>5
  DEF Next, Client, Lock, Work, Shutdown, CheckStop, Enqueue, SetMaxQueueDepth,
      StoreStop, ClearQueue, JoinAll

LEMMA NextPending == CountInv /\ [Next]_vars => PendingExact'
<1> SUFFICES ASSUME CountInv, [Next]_vars, ctl' \in {"open", "clear"}
             PROVE  pending' = (Len(tasks') + Cardinality(Busy')) % PendingModulus
  BY DEF PendingExact
<1> USE DEF vars, clientVars, workerVars, ctlVars
<1>0. TypeOK /\ ClientOwnsItem /\ WorkerHasJob
  BY DEF CountInv, IInv
<1>a. /\ Len(tasks) \in Nat
      /\ Cardinality(Busy) \in Nat
      /\ PendingModulus \in Nat \ {0}
  BY <1>0, BusyIsFinite, ModulusAssumption DEF TypeOK
<1>b. ctl \in {"open", "clear"}
  BY DEF Next, Client, Lock, Work, Shutdown, CheckStop, Enqueue, NotifyOne,
     SetMaxQueueDepth, TakeTask, ExitLoop, DecideToSleep, Block, SpuriousWake, RunTask,
     CountDown, StoreStop, ClearQueue, NotifyAll, JoinAll
<1>c. pending = (Len(tasks) + Cardinality(Busy)) % PendingModulus
  BY <1>b DEF CountInv, PendingExact
<1> DEFINE Goal == pending' = (Len(tasks') + Cardinality(Busy')) % PendingModulus
<1>1. ASSUME UNCHANGED <<pending, tasks, job>> PROVE Goal
  <2>1. Busy' = Busy
    BY <1>1 DEF Busy
  <2>2. QED BY <1>1, <1>c, <2>1
<1>2. ASSUME NEW c \in Clients, Enqueue(c), ~QueueFull PROVE Goal
  <2>1. item[c] \in Tasks
    BY <1>0, <1>2 DEF Enqueue, ClientOwnsItem
  <2>2. Len(tasks') = Len(tasks) + 1
    BY <1>0, <1>2, <2>1 DEF TypeOK, Enqueue
  <2>3. Busy' = Busy /\ pending' = (pending + 1) % PendingModulus
    BY <1>2 DEF Busy, Enqueue
  <2>4. Len(tasks) + Cardinality(Busy) \in Nat
    BY <1>a
  <2>5. pending' = (Len(tasks) + Cardinality(Busy) + 1) % PendingModulus
    BY <1>a, <1>c, <2>3, <2>4, UpAndDown
  <2>6. Len(tasks') + Cardinality(Busy') = Len(tasks) + Cardinality(Busy) + 1
    BY <1>a, <2>2, <2>3
  <2>7. QED BY <2>5, <2>6
<1>3. ASSUME NEW w \in Workers, TakeTask(w) PROVE Goal
  <2>1. Len(tasks') = Len(tasks) - 1 /\ Head(tasks) \in Tasks
    BY <1>0, <1>3 DEF TypeOK, TakeTask
  <2>2. w \notin Busy
    BY <1>3 DEF CountInv, IdleHasNoJob, TakeTask, Busy
  <2>3. Busy' = Busy \cup {w}
    BY <1>0, <1>3, <2>1, TasksAssumption DEF TypeOK, TakeTask, Busy
  <2>4. Cardinality(Busy') = Cardinality(Busy) + 1
    BY <2>2, <2>3, BusyIsFinite, FS_AddElement
  <2>5. Len(tasks') + Cardinality(Busy') = Len(tasks) + Cardinality(Busy)
    BY <1>a, <2>1, <2>4
  <2>6. pending' = pending
    BY <1>3 DEF TakeTask
  <2>7. QED BY <1>c, <2>5, <2>6
<1>4. ASSUME NEW w \in Workers, CountDown(w) PROVE Goal
  <2>1. w \in Busy
    BY <1>0, <1>4, TasksAssumption DEF WorkerHasJob, CountDown, Busy
  <2>2. Busy' = Busy \ {w}
    BY <1>0, <1>4 DEF TypeOK, CountDown, Busy
  <2>3. Cardinality(Busy') = Cardinality(Busy) - 1
    BY <2>1, <2>2, BusyIsFinite, FS_RemoveElement
  <2>4. Cardinality(Busy') \in Nat
    BY BusyIsFinite, FS_Subset, FS_CardinalityType, <2>2
  <2> DEFINE n == Len(tasks) + Cardinality(Busy')
  <2>5. n \in Nat /\ Len(tasks) + Cardinality(Busy) = n + 1
    BY <1>a, <2>3, <2>4
  <2>6. pending' = (pending + PendingModulus - 1) % PendingModulus /\ tasks' = tasks
    BY <1>4 DEF CountDown
  <2>7. pending = (n + 1) % PendingModulus
    BY <1>c, <2>5
  <2> HIDE DEF n
  <2>8. pending' = n % PendingModulus
    BY <1>a, <2>5, <2>6, <2>7, UpAndDown
  <2>9. QED BY <2>6, <2>8 DEF n
<1>5. QED
  BY <1>1, <1>2, <1>3, <1>4
  DEF Next, Client, Lock, Work, Shutdown, CheckStop, Enqueue, NotifyOne,
      SetMaxQueueDepth, ExitLoop, DecideToSleep, Block, SpuriousWake, RunTask,
      StoreStop, ClearQueue, NotifyAll, JoinAll

\* Until shutdown_now zeroes it, pending_ counts the tasks that are queued or
\* held by a worker, however the unlocked decrements fall.
THEOREM PendingCounts == Spec => []PendingExact
<1>1. CountInv /\ [Next]_vars => CountInv'
  BY NextIInv, NextIdle, NextPending DEF CountInv
<1>2. CountInv => PendingExact
  BY DEF CountInv
<1>3. QED
  BY InitCount, <1>1, <1>2, PTL DEF Spec
=============================================================================
