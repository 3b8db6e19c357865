------------------------------- MODULE Poller -------------------------------
(***************************************************************************)
(* Poller (src/src/runner/Poller.cpp): the poll thread that fetches tasks  *)
(* from the server, the pool of worker threads that execute them, and the  *)
(* main thread of the daemon that stops and joins them. The threads share  *)
(* the work queue and its condition variable, the capacity semaphore, the  *)
(* count of active tasks, shutdown_ and tasks_version_; work_mutex_ is the *)
(* only lock held across a wait, and the atomics are outside of it.        *)
(*                                                                         *)
(* The server (external) keeps a version that it increases when it has new *)
(* tasks; it looks for a task only when the version in the request differs *)
(* from its own, which is why the code resets tasks_version_ to 0.         *)
(***************************************************************************)
EXTENDS Integers, Sequences, FiniteSets

CONSTANTS Task,        \* the tasks the server will ever have for this runner
          Capacity,    \* cfg.capacity
          NoTask,      \* the absence of a task
          FetchFaults  \* what may go wrong with a FetchTask call

ASSUME CapacityAssumption == Capacity \in Int
ASSUME TaskAssumption == NoTask \notin Task
ASSUME FetchFaultsAssumption == FetchFaults \subseteq {"error", "timeout"}

\* The constructor and start(): semaphore count and pool size.
Slots == IF Capacity > 0 /\ Capacity <= 16 THEN Capacity ELSE 1
Worker == 1..Slots

VARIABLES
  shutdown,       \* shutdown_
  tasks_version,  \* tasks_version_
  permits,        \* capacity_sem_
  queue,          \* work_queue_
  active,         \* active_tasks_
  ppc, held, reply, slot,   \* poll thread: place, task, version, has a slot
  ping,           \* ping thread
  wpc, wtask,     \* worker threads: place and task of each
  mpc,            \* main thread, in stop() and join()
  pending, sversion,        \* server: tasks to give out, its tasks version
  outcome,        \* history: what became of each task given out
  drained         \* history: slots of tasks that join() took off the queue

poll == <<ppc, held, reply, slot>>
work == <<wpc, wtask>>
server == <<pending, sversion>>
vars == <<shutdown, tasks_version, permits, queue, active, poll, ping, work,
          mpc, server, outcome, drained>>

\* The state start() leaves: all threads running, nothing fetched.
Init ==
  /\ shutdown = FALSE /\ tasks_version = 0 /\ permits = Slots
  /\ queue = <<>> /\ active = 0
  /\ ppc = "check" /\ held = NoTask /\ reply = 0 /\ slot = FALSE
  /\ ping = "looping"
  /\ wpc = [w \in Worker |-> "top"] /\ wtask = [w \in Worker |-> NoTask]
  /\ mpc = "running"
  /\ pending = {} /\ sversion = 1
  /\ outcome = [t \in Task |-> "none"] /\ drained = 0

-----------------------------------------------------------------------------
(* The server *)

\* A job becomes ready to run.
Offer(t) ==
  /\ outcome[t] = "none"
  /\ outcome' = [outcome EXCEPT ![t] = "offered"]
  /\ pending' = pending \cup {t}
  /\ sversion' = sversion + 1
  /\ UNCHANGED <<shutdown, tasks_version, permits, queue, active, poll, ping,
                 work, mpc, drained>>

\* What the server may answer to FetchTask(v): one of its tasks, or none.
Assignable(v) == IF v # sversion /\ pending # {} THEN pending ELSE {NoTask}

-----------------------------------------------------------------------------
(* The poll thread *)

\* while (!shutdown_.load())
PollCheck ==
  /\ ppc = "check"
  /\ ppc' = IF shutdown THEN "exited" ELSE "fetch"
  /\ UNCHANGED <<shutdown, tasks_version, permits, queue, active, held, reply,
                 slot, ping, work, mpc, server, outcome, drained>>

\* fetchTask(tasks_version_) is answered; the answer is not yet looked at.
Fetch ==
  /\ ppc = "fetch"
  /\ \E t \in Assignable(tasks_version) :
       /\ held' = t
       /\ pending' = pending \ {t}
       /\ outcome' = [s \in Task |-> IF s = t THEN "fetched" ELSE outcome[s]]
  /\ reply' = sversion
  /\ ppc' = "got"
  /\ UNCHANGED <<shutdown, tasks_version, permits, queue, active, slot, ping,
                 work, mpc, sversion, drained>>

\* fetchTask fails, with or without the server having assigned a task: an
\* exception goes back to the top of the loop, a timeout is an empty answer,
\* which decodes to "no task" and version 0.
FetchFails ==
  /\ ppc = "fetch"
  /\ \/ UNCHANGED <<pending, outcome>>
     \/ \E t \in Assignable(tasks_version) \ {NoTask} :
          /\ pending' = pending \ {t}
          /\ outcome' = [outcome EXCEPT ![t] = "lost"]
  /\ \/ "error" \in FetchFaults /\ ppc' = "check" /\ UNCHANGED reply
     \/ "timeout" \in FetchFaults /\ ppc' = "got" /\ reply' = 0
  /\ UNCHANGED <<shutdown, tasks_version, permits, queue, active, held, slot,
                 ping, work, mpc, sversion, drained>>

\* tasks_version_ = result.tasks_version; without a task, sleep and go on.
StoreVersion ==
  /\ ppc = "got"
  /\ tasks_version' = reply
  /\ ppc' = IF held = NoTask THEN "check" ELSE "acquire"
  /\ UNCHANGED <<shutdown, permits, queue, active, held, reply, slot, ping,
                 work, mpc, server, outcome, drained>>

\* while (!shutdown_.load()), before each attempt to get a slot
AcquireCheck ==
  /\ ppc = "acquire"
  /\ ppc' = IF shutdown THEN "recheck" ELSE "try"
  /\ UNCHANGED <<shutdown, tasks_version, permits, queue, active, held, reply,
                 slot, ping, work, mpc, server, outcome, drained>>

\* capacity_sem_.try_acquire_for(1 s)
TryAcquire ==
  /\ ppc = "try"
  /\ \/ permits > 0 /\ permits' = permits - 1 /\ slot' = TRUE /\ ppc' = "recheck"
     \/ permits = 0 /\ ppc' = "acquire" /\ UNCHANGED <<permits, slot>>
  /\ UNCHANGED <<shutdown, tasks_version, queue, active, held, reply, ping,
                 work, mpc, server, outcome, drained>>

\* if (shutdown_.load()) break: the fetched task goes with the loop, and so
\* does the slot, if it got one.
Recheck ==
  /\ ppc = "recheck"
  /\ IF shutdown
     THEN /\ ppc' = "exited" /\ held' = NoTask
          /\ outcome' = [outcome EXCEPT ![held] = "dropped"]
     ELSE ppc' = "dispatch" /\ UNCHANGED <<held, outcome>>
  /\ UNCHANGED <<shutdown, tasks_version, permits, queue, active, reply, slot,
                 ping, work, mpc, server, drained>>

\* work_mutex_ is free unless a worker has seen its wait predicate false and
\* is about to block.
MutexFree == \A w \in Worker : wpc[w] # "blocking"

\* Faulty variant: dispatchTask does not notify.
WakeNone == UNCHANGED wpc

\* notify_one on work_cv_
WakeOne ==
  IF \E w \in Worker : wpc[w] = "waiting"
  THEN \E w \in Worker : wpc[w] = "waiting" /\ wpc' = [wpc EXCEPT ![w] = "top"]
  ELSE UNCHANGED wpc

\* notify_all on work_cv_
WakeAll == wpc' = [w \in Worker |-> IF wpc[w] = "waiting" THEN "top" ELSE wpc[w]]

\* dispatchTask: push and notify under the lock.
DispatchTask ==
  /\ ppc = "dispatch" /\ MutexFree
  /\ queue' = Append(queue, held)
  /\ held' = NoTask /\ slot' = FALSE
  /\ ppc' = "check"
  /\ WakeOne
  /\ UNCHANGED <<shutdown, tasks_version, permits, active, reply, ping, wtask,
                 mpc, server, outcome, drained>>

PollStep == PollCheck \/ Fetch \/ FetchFails \/ StoreVersion \/ AcquireCheck
            \/ TryAcquire \/ Recheck \/ DispatchTask

\* pingLoop: pings until it sees shutdown_; the answer changes nothing.
PingExit ==
  /\ ping = "looping" /\ shutdown
  /\ ping' = "exited"
  /\ UNCHANGED <<shutdown, tasks_version, permits, queue, active, poll, work,
                 mpc, server, outcome, drained>>

-----------------------------------------------------------------------------
(* The worker threads *)

\* Faulty variant: the task is read from the queue and not popped.
EnterWithoutPop(w) ==
  /\ wpc[w] = "top" /\ MutexFree
  /\ \/ queue = <<>> /\ wpc' = [wpc EXCEPT ![w] = IF shutdown THEN "exited" ELSE "blocking"]
        /\ UNCHANGED wtask
     \/ queue # <<>> /\ wpc' = [wpc EXCEPT ![w] = "popped"]
        /\ wtask' = [wtask EXCEPT ![w] = Head(queue)]
  /\ UNCHANGED <<shutdown, tasks_version, permits, queue, active, poll, ping, mpc,
                 server, outcome, drained>>

\* Lock, and: leave when shutting down with an empty queue; take the first
\* task; or find the predicate of the wait false.
Enter(w) ==
  /\ wpc[w] = "top" /\ MutexFree
  /\ \/ /\ queue = <<>> /\ shutdown
        /\ wpc' = [wpc EXCEPT ![w] = "exited"]
        /\ UNCHANGED <<queue, wtask>>
     \/ /\ queue # <<>>
        /\ wtask' = [wtask EXCEPT ![w] = Head(queue)]
        /\ queue' = Tail(queue)
        /\ wpc' = [wpc EXCEPT ![w] = "popped"]
     \/ /\ queue = <<>> /\ ~shutdown
        /\ wpc' = [wpc EXCEPT ![w] = "blocking"]
        /\ UNCHANGED <<queue, wtask>>
  /\ UNCHANGED <<shutdown, tasks_version, permits, active, poll, ping, mpc,
                 server, outcome, drained>>

\* The wait releases the lock and blocks: a notification sent before this is
\* not seen.
Block(w) ==
  /\ wpc[w] = "blocking"
  /\ wpc' = [wpc EXCEPT ![w] = "waiting"]
  /\ UNCHANGED <<shutdown, tasks_version, permits, queue, active, poll, ping,
                 wtask, mpc, server, outcome, drained>>

\* A wait may end for no reason; the predicate is then evaluated again.
SpuriousWakeup(w) ==
  /\ wpc[w] = "waiting"
  /\ wpc' = [wpc EXCEPT ![w] = "top"]
  /\ UNCHANGED <<shutdown, tasks_version, permits, queue, active, poll, ping,
                 wtask, mpc, server, outcome, drained>>

\* active_tasks_.fetch_add(1), then the executor runs.
Begin(w) ==
  /\ wpc[w] = "popped"
  /\ active' = active + 1
  /\ wpc' = [wpc EXCEPT ![w] = "executing"]
  /\ UNCHANGED <<shutdown, tasks_version, permits, queue, poll, ping, wtask,
                 mpc, server, outcome, drained>>

\* execute() returns, having reported the result; or it throws, or SIGSEGV
\* or SIGBUS jumps out of it, and the worker only writes a log message.
Execute(w) ==
  /\ wpc[w] = "executing"
  /\ \E o \in {"reported", "aborted"} :
       outcome' = [outcome EXCEPT ![wtask[w]] = o]
  /\ wtask' = [wtask EXCEPT ![w] = NoTask]
  /\ wpc' = [wpc EXCEPT ![w] = "executed"]
  /\ UNCHANGED <<shutdown, tasks_version, permits, queue, active, poll, ping,
                 mpc, server, drained>>

\* tasks_version_.store(0)
ResetVersion(w) ==
  /\ wpc[w] = "executed"
  /\ tasks_version' = 0
  /\ wpc' = [wpc EXCEPT ![w] = "reset"]
  /\ UNCHANGED <<shutdown, permits, queue, active, poll, ping, wtask, mpc,
                 server, outcome, drained>>

\* Faulty variant: the slot is not given back.
ReleaseForgotten(w) ==
  /\ wpc[w] = "reset"
  /\ wpc' = [wpc EXCEPT ![w] = "released"]
  /\ UNCHANGED <<shutdown, tasks_version, permits, queue, active, poll, ping, wtask,
                 mpc, server, outcome, drained>>

\* capacity_sem_.release()
Release(w) ==
  /\ wpc[w] = "reset"
  /\ permits' = permits + 1
  /\ wpc' = [wpc EXCEPT ![w] = "released"]
  /\ UNCHANGED <<shutdown, tasks_version, queue, active, poll, ping, wtask,
                 mpc, server, outcome, drained>>

\* active_tasks_.fetch_sub(1), and the notification when it reaches 0.
Decrement(w) ==
  /\ wpc[w] = "released"
  /\ active' = active - 1
  /\ wpc' = [wpc EXCEPT ![w] = "top"]
  /\ UNCHANGED <<shutdown, tasks_version, permits, queue, poll, ping, wtask,
                 mpc, server, outcome, drained>>

WorkerStep(w) == Enter(w) \/ Block(w) \/ Begin(w) \/ Execute(w)
                 \/ ResetVersion(w) \/ Release(w) \/ Decrement(w)

-----------------------------------------------------------------------------
(* The main thread *)

\* stop(): the store, and the notification, which is outside the lock.
Stop ==
  /\ mpc = "running"
  /\ shutdown' = TRUE
  /\ mpc' = "stopping"
  /\ UNCHANGED <<tasks_version, permits, queue, active, poll, ping, work,
                 server, outcome, drained>>

StopNotify ==
  /\ mpc = "stopping"
  /\ WakeAll
  /\ mpc' = "joinPoll"
  /\ UNCHANGED <<shutdown, tasks_version, permits, queue, active, poll, ping,
                 wtask, server, outcome, drained>>

\* Faulty variant: join() joins only the ping thread.
JoinPingOnly ==
  /\ mpc = "joinPoll" /\ ping = "exited"
  /\ mpc' = "waitActive"
  /\ UNCHANGED <<shutdown, tasks_version, permits, queue, active, poll, ping,
                 work, server, outcome, drained>>

\* join(): first the poll and the ping thread,
JoinPoll ==
  /\ mpc = "joinPoll" /\ ppc = "exited" /\ ping = "exited"
  /\ mpc' = "waitActive"
  /\ UNCHANGED <<shutdown, tasks_version, permits, queue, active, poll, ping,
                 work, server, outcome, drained>>

\* then up to 60 s for active_tasks_ to be 0: the wait ends either way,
WaitActive ==
  /\ mpc = "waitActive"
  /\ \/ active = 0
     \/ active # 0   \* timed out: "proceeding"
  /\ mpc' = "drain"
  /\ UNCHANGED <<shutdown, tasks_version, permits, queue, active, poll, ping,
                 work, server, outcome, drained>>

Queued == {queue[i] : i \in DOMAIN queue}

\* then what is left on the queue is thrown away,
DrainQueue ==
  /\ mpc = "drain" /\ MutexFree
  /\ shutdown' = TRUE
  /\ outcome' = [t \in Task |-> IF t \in Queued THEN "dropped" ELSE outcome[t]]
  /\ drained' = drained + Len(queue)
  /\ queue' = <<>>
  /\ mpc' = "notify"
  /\ UNCHANGED <<tasks_version, permits, active, poll, ping, work, server>>

\* Faulty variant: join() relies on the notification of stop().
JoinWithoutNotify ==
  /\ mpc = "notify"
  /\ mpc' = "joinWorkers"
  /\ UNCHANGED <<shutdown, tasks_version, permits, queue, active, poll, ping,
                 work, server, outcome, drained>>

\* the workers are woken a second time,
JoinNotify ==
  /\ mpc = "notify"
  /\ WakeAll
  /\ mpc' = "joinWorkers"
  /\ UNCHANGED <<shutdown, tasks_version, permits, queue, active, poll, ping,
                 wtask, server, outcome, drained>>

\* and joined.
JoinWorkers ==
  /\ mpc = "joinWorkers"
  /\ \A w \in Worker : wpc[w] = "exited"
  /\ mpc' = "joined"
  /\ UNCHANGED <<shutdown, tasks_version, permits, queue, active, poll, ping,
                 work, server, outcome, drained>>

JoinStep == StopNotify \/ JoinPoll \/ WaitActive \/ DrainQueue \/ JoinNotify
            \/ JoinWorkers

\* Nothing is left to do.
Joined == mpc = "joined" /\ UNCHANGED vars

Next ==
  \/ \E t \in Task : Offer(t)
  \/ PollStep
  \/ PingExit
  \/ \E w \in Worker : WorkerStep(w) \/ SpuriousWakeup(w)
  \/ Stop
  \/ JoinStep
  \/ Joined

Spec == Init /\ [][Next]_vars

\* Every thread is scheduled, every RPC and every task ends (RPCs by their
\* timeout, tasks by the job timeout); a mutex is eventually obtained by a
\* thread that keeps asking for it. Nothing is assumed of the server, of
\* spurious wakeups or of the moment stop() is called.
FairSpec ==
  /\ Spec
  /\ WF_vars(PollStep) /\ SF_vars(DispatchTask) /\ WF_vars(PingExit)
  /\ \A w \in Worker : WF_vars(WorkerStep(w)) /\ SF_vars(Enter(w))
  /\ WF_vars(JoinStep) /\ SF_vars(DrainQueue)

-----------------------------------------------------------------------------
(* Properties *)

Places == {"top", "blocking", "waiting", "popped", "executing", "executed",
           "reset", "released", "exited"}
Outcomes == {"none", "offered", "fetched", "lost", "dropped", "reported",
             "aborted"}

\* The types: the semaphore is never below 0, and only tasks of the server are
\* queued or held by the threads of the pool.
TypeOK ==
  /\ shutdown \in BOOLEAN /\ slot \in BOOLEAN
  /\ tasks_version \in Nat /\ reply \in Nat /\ sversion \in Nat
  /\ permits \in Nat /\ active \in Int /\ drained \in Nat
  /\ queue \in Seq(Task)
  /\ ppc \in {"check", "fetch", "got", "acquire", "try", "recheck", "dispatch",
              "exited"}
  /\ held \in Task \cup {NoTask}
  /\ ping \in {"looping", "exited"}
  /\ wpc \in [Worker -> Places]
  /\ wtask \in [Worker -> Task \cup {NoTask}]
  /\ mpc \in {"running", "stopping", "joinPoll", "waitActive", "drain",
              "notify", "joinWorkers", "joined"}
  /\ pending \in SUBSET Task
  /\ outcome \in [Task -> Outcomes]

\* Workers that hold a slot, workers that will look at the queue by
\* themselves, workers that active_tasks_ counts.
At(pc, P) == {w \in Worker : pc[w] \in P}
BusyAt == {"popped", "executing", "executed", "reset"}
AwakeAt == {"top", "released"}
CountedAt == {"executing", "executed", "reset", "released"}
Busy == At(wpc, BusyAt)
Awake == At(wpc, AwakeAt)
Counted == At(wpc, CountedAt)

PollSlot == IF slot THEN 1 ELSE 0

\* No slot of the semaphore is ever created or lost: each one is free, or
\* with the poll thread, a queued task or a worker, or went with a task that
\* join() threw away.
SlotAccounting ==
  permits + PollSlot + Len(queue) + Cardinality(Busy) + drained = Slots

\* A dispatched task never waits for another task to end, and no wakeup is
\* lost: as long as the daemon is not stopped there are at least as many
\* workers about to look at the queue as there are tasks on it.
NoLostWakeup == ~shutdown => Len(queue) <= Cardinality(Awake)

\* Nothing of the pool is left running when join() has returned, and nothing
\* can be queued any more.
JoinedIsQuiet ==
  mpc = "joined" =>
    /\ ppc = "exited" /\ queue = <<>> /\ active = 0
    /\ \A w \in Worker : wtask[w] = NoTask

\* A task is in one place: with the poll thread, once on the queue or with
\* one worker; and it is there exactly if it was fetched and nothing has
\* become of it yet. So no task is executed twice, and none is lost unseen.
OneOwner ==
  /\ \A i, j \in DOMAIN queue : queue[i] = queue[j] => i = j
  /\ \A v, w \in Worker : wtask[v] = wtask[w] /\ wtask[v] # NoTask => v = w
  /\ \A w \in Worker : wtask[w] # NoTask => wtask[w] \notin Queued \cup {held}
  /\ held \notin Queued
  /\ \A t \in Task : outcome[t] = "fetched"
                     <=> t \in Queued \cup {held} \cup {wtask[w] : w \in Worker}

\* The task the poll thread holds is behind those it has dispatched.
Waiting == IF held = NoTask THEN queue ELSE Append(queue, held)

Dispatch == INSTANCE TaskDispatch WITH
  status <- outcome, waiting <- Waiting, running <- wtask, stopped <- shutdown

\* pollLoop, workerLoop and join() together: tasks are executed in the order in
\* which they were fetched, each by one worker and once, and one that was not
\* begun is thrown away only after stop().
DispatchSpec == Dispatch!Spec

\* stop() leads to the end of join(): no worker sleeps through the shutdown,
\* although stop() notifies without holding work_mutex_.
ShutdownEnds == shutdown ~> mpc = "joined"

\* A fetched task does not stay with the runner for ever.
FetchedIsSettled == \A t \in Task : outcome[t] = "fetched" ~> outcome[t] # "fetched"

-----------------------------------------------------------------------------
(* The inductive invariant behind the safety properties *)

\* The poll thread has a slot exactly when it is about to dispatch; it can
\* only reach the last check without one when it has seen the shutdown.
SlotInv ==
  /\ ppc \in {"check", "fetch", "got", "acquire", "try"} => ~slot
  /\ ppc = "dispatch" => slot
  /\ ppc = "recheck" /\ ~slot => shutdown

\* Who has seen the shutdown, and how far join() has come.
ShutdownInv ==
  /\ mpc # "running" => shutdown
  /\ \A w \in Worker : wpc[w] = "exited" => shutdown
  /\ mpc \in {"waitActive", "drain", "notify", "joinWorkers", "joined"}
       => ppc = "exited"
  /\ mpc \in {"notify", "joinWorkers", "joined"} => queue = <<>>
  /\ mpc = "joined" => \A w \in Worker : wpc[w] = "exited"

\* What workers have, and that active_tasks_ counts them.
WorkInv ==
  /\ \A w \in Worker : wtask[w] # NoTask <=> wpc[w] \in {"popped", "executing"}
  /\ active = Cardinality(Counted)

\* The poll thread holds a task from the answer until it has dispatched it.
HeldInv ==
  /\ ppc \in {"acquire", "try", "recheck", "dispatch"} => held # NoTask
  /\ ppc \in {"check", "fetch", "exited"} => held = NoTask

IInv == TypeOK /\ SlotInv /\ ShutdownInv /\ WorkInv /\ HeldInv
        /\ SlotAccounting /\ NoLostWakeup

\* With it, the invariant behind OneOwner: what the server still offers has
\* been given to nobody.
OwnerInv == OneOwner /\ \A t \in pending : outcome[t] = "offered"

-----------------------------------------------------------------------------
(* What the comments of the code claim and the code does not keep *)

\* Poller.cpp, workerLoop: the reset of tasks_version_ "ensures dependent jobs
\* (needs:) are picked up immediately after the upstream job completes": with
\* every task ending, no pending task waits for ever.
PendingIsFetched == \A t \in Task : t \in pending ~> t \notin pending \/ shutdown
=============================================================================
