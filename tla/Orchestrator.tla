---------------------------- MODULE Orchestrator ----------------------------
(***************************************************************************)
(* `act_runner run`: the retry loop and the cancel thread of cmdRun        *)
(* (src/src/main.cpp), the orchestrator that executes a workflow wave by   *)
(* wave (src/src/runner/WorkflowOrchestrator.cpp) and the ordering of jobs *)
(* it relies on (src/src/runner/JobGraph.cpp).                             *)
(*                                                                         *)
(* A job is a number; 0 is a name that no job has. What execute() does is  *)
(* the subject of TaskExecutor.tla: here it returns true or false, or      *)
(* throws. An executor is the pair of its job and the attempt it belongs   *)
(* to, so that one of an earlier attempt is not taken for a new one.       *)
(***************************************************************************)
EXTENDS Integers, Sequences, FiniteSets, FiniteSetsExt, SequencesExt

CONSTANTS NumJobs,     \* jobs of the workflow
          Workflow,    \* the workflows: [needs, fail_fast, max_parallel]
          MaxAttempts  \* 1 + retry_count

JobId == 1..NumJobs

ASSUME NumJobsAssumption == NumJobs \in Nat \ {0}
ASSUME AttemptsAssumption == MaxAttempts \in Nat \ {0}

WorkflowType == [needs : [JobId -> SUBSET (0..NumJobs)],
                 fail_fast : [JobId -> BOOLEAN],
                 max_parallel : [JobId -> Nat]]

ASSUME WorkflowAssumption == Workflow \subseteq WorkflowType

VARIABLES
  wf,             \* the workflow
  shutdown,       \* g_shutdown
  mpc, attempt,   \* main thread: place, attempt
  success,        \* result.success
  ready, in_degree, order,   \* topologicalJobOrder
  wave, waves,    \* waveSchedule: the wave of each job, -1 before it is known,
                  \* and the jobs of each wave
  cur,            \* wave_idx
  launched,       \* jobs of the current wave whose thread was started
  batch_end,      \* end of the current batch in the wave
  jpc,            \* the thread of each job
  verdict,        \* wave_results and job_results: result of each job
  completed,      \* completed_jobs
  cancelled,      \* cancelled_
  executors,      \* active_executors_
  told,           \* executors that have been cancelled
  cpc,            \* the cancel thread of cmdRun
  thrown,         \* history: executors whose execute() threw
  dead_use        \* history: cancel() used an executor that is gone

graph == <<ready, in_degree, order, wave, waves>>
jobs == <<jpc, verdict, executors, told, thrown>>
progress == <<cur, launched, batch_end, completed>>
vars == <<wf, shutdown, mpc, attempt, success, graph, progress, jobs,
          cancelled, cpc, dead_use>>

Init ==
  /\ wf \in Workflow /\ shutdown = FALSE
  /\ mpc = "attempt" /\ attempt = 0 /\ success = TRUE
  /\ ready = <<>> /\ in_degree = [j \in JobId |-> 0] /\ order = <<>>
  /\ wave = [j \in JobId |-> -1] /\ waves = [w \in 0..(NumJobs - 1) |-> <<>>]
  /\ cur = 0 /\ launched = 0 /\ batch_end = 0 /\ completed = {}
  /\ jpc = [j \in JobId |-> "none"] /\ verdict = [j \in JobId |-> "none"]
  /\ executors = {} /\ told = {} /\ thrown = {}
  /\ cancelled = FALSE /\ cpc = "watch" /\ dead_use = FALSE

-----------------------------------------------------------------------------
(* cmdRun *)

\* The loop's condition: another attempt, or the end.
NextAttempt ==
  /\ mpc = "attempt"
  /\ IF attempt < MaxAttempts /\ ~shutdown
     THEN mpc' = "sort" /\ attempt' = attempt + 1 /\ success' = TRUE
     ELSE mpc' = "stop" /\ UNCHANGED <<attempt, success>>
  /\ UNCHANGED <<wf, shutdown, graph, progress, jobs, cancelled, cpc, dead_use>>

\* orchestrator.run has returned.
RunReturned ==
  /\ mpc = "returned"
  /\ mpc' = IF success THEN "stop" ELSE "attempt"
  /\ UNCHANGED <<wf, shutdown, attempt, success, graph, progress, jobs,
                 cancelled, cpc, dead_use>>

\* Faulty variant: the cancel thread is joined without being told to stop.
StopForgotten ==
  /\ mpc = "stop"
  /\ mpc' = "join"
  /\ UNCHANGED <<wf, shutdown, attempt, success, graph, progress, jobs,
                 cancelled, cpc, dead_use>>

\* g_shutdown is set to stop the cancel thread, which is then joined.
StopCancelThread ==
  /\ mpc = "stop"
  /\ shutdown' = TRUE /\ mpc' = "join"
  /\ UNCHANGED <<wf, attempt, success, graph, progress, jobs, cancelled, cpc,
                 dead_use>>

JoinCancelThread ==
  /\ mpc = "join" /\ cpc = "done"
  /\ mpc' = "exit"
  /\ UNCHANGED <<wf, shutdown, attempt, success, graph, progress, jobs,
                 cancelled, cpc, dead_use>>

\* SIGINT or SIGTERM: signal_handler.
Signal ==
  /\ mpc # "exit" /\ ~shutdown
  /\ shutdown' = TRUE
  /\ UNCHANGED <<wf, mpc, attempt, success, graph, progress, jobs, cancelled,
                 cpc, dead_use>>

-----------------------------------------------------------------------------
(* topologicalJobOrder and waveSchedule *)

Needs(j) == wf.needs[j]

\* needs: is checked, in-degrees are counted, and the jobs without needs are
\* ready, in the order of an unordered map; an unknown name throws, which
\* fails the run.
StartSort ==
  /\ mpc = "sort"
  /\ IF \E j \in JobId : 0 \in Needs(j)
     THEN mpc' = "returned" /\ success' = FALSE /\ UNCHANGED graph
     ELSE /\ mpc' = "visit" /\ order' = <<>>
          /\ in_degree' = [j \in JobId |-> Cardinality(Needs(j))]
          /\ ready' \in SetToSeqs({j \in JobId : Needs(j) = {}})
          /\ wave' = [j \in JobId |-> -1]
          /\ waves' = [w \in 0..(NumJobs - 1) |-> <<>>]
          /\ UNCHANGED success
  /\ UNCHANGED <<wf, shutdown, attempt, progress, jobs, cancelled, cpc,
                 dead_use>>

\* The jobs of S in the order of the map they are kept in.
InMapOrder(S) == {s \in SetToSeqs(S) : \A k \in 1..(Len(s) - 1) : s[k] < s[k + 1]}

\* Faulty variant: a job is ready when any of its needs is done.
VisitEager ==
  /\ mpc = "visit" /\ ready # <<>>
  /\ LET id == Head(ready)
         waiting == {j \in JobId : id \in Needs(j)}
     IN /\ order' = Append(order, id)
        /\ in_degree' = [j \in JobId |-> IF j \in waiting THEN 0 ELSE in_degree[j]]
        /\ \E s \in InMapOrder({j \in waiting : in_degree[j] > 0}) :
             ready' = Tail(ready) \o s
  /\ UNCHANGED <<wf, shutdown, mpc, attempt, success, wave, waves, progress, jobs,
                 cancelled, cpc, dead_use>>

\* The first ready job is put in order; its dependents lose one need.
Visit ==
  /\ mpc = "visit" /\ ready # <<>>
  /\ LET id == Head(ready)
         waiting == {j \in JobId : id \in Needs(j)}
     IN /\ order' = Append(order, id)
        /\ in_degree' = [j \in JobId |-> IF j \in waiting THEN in_degree[j] - 1
                                                          ELSE in_degree[j]]
        /\ \E s \in InMapOrder({j \in waiting : in_degree[j] = 1}) :
             ready' = Tail(ready) \o s
  /\ UNCHANGED <<wf, shutdown, mpc, attempt, success, wave, waves, progress, jobs,
                 cancelled, cpc, dead_use>>

\* Not every job was reached: a cycle, which fails the run.
EndSort ==
  /\ mpc = "visit" /\ ready = <<>>
  /\ IF Len(order) # NumJobs THEN mpc' = "returned" /\ success' = FALSE
                             ELSE mpc' = "assign" /\ UNCHANGED success
  /\ UNCHANGED <<wf, shutdown, attempt, graph, progress, jobs, cancelled, cpc,
                 dead_use>>

\* waveSchedule: in this order, a job is one wave after the last of its needs
\* that have a wave, and comes last in it so far; then the waves are run from
\* the first.
AssignWave ==
  /\ mpc = "assign"
  /\ LET id == order[Cardinality({j \in JobId : wave[j] # -1}) + 1]
         w == 1 + Max({-1} \cup {wave[n] : n \in Needs(id)})
     IN wave' = [wave EXCEPT ![id] = w] /\ waves' = [waves EXCEPT ![w] = Append(@, id)]
  /\ IF Cardinality({j \in JobId : wave[j] = -1}) = 1
     THEN /\ mpc' = "wave" /\ cur' = 0 /\ completed' = {}
          /\ jpc' = [j \in JobId |-> "none"]
          /\ verdict' = [j \in JobId |-> "none"]
     ELSE UNCHANGED <<mpc, cur, completed, jpc, verdict>>
  /\ UNCHANGED <<wf, shutdown, attempt, success, ready, in_degree, order,
                 launched, batch_end, executors, told, thrown, cancelled, cpc,
                 dead_use>>

-----------------------------------------------------------------------------
(* WorkflowOrchestrator::run *)

\* The jobs of the current wave, in topological order.
WaveSeq == waves[cur]
Wave == {j \in JobId : wave[j] = cur}
LastWave == Max({wave[j] : j \in JobId})

\* wave_max_parallel: the least positive limit of a job of the wave.
Limits == {wf.max_parallel[j] : j \in Wave} \ {0}
BatchSize == IF Limits = {} THEN Len(WaveSeq) ELSE Min(Limits)

BatchEnd(from) == Min({from + BatchSize, Len(WaveSeq)})

\* The top of the loop over the waves.
WaveTop ==
  /\ mpc = "wave"
  /\ \/ /\ cur > LastWave   \* allSucceeded()
        /\ success' = (success /\ \A j \in completed : verdict[j] = "success")
        /\ mpc' = "returned" /\ UNCHANGED <<launched, batch_end>>
     \/ /\ cur <= LastWave /\ cancelled
        /\ success' = FALSE
        /\ mpc' = "returned" /\ UNCHANGED <<launched, batch_end>>
     \/ /\ cur <= LastWave /\ ~cancelled
        /\ launched' = 0 /\ batch_end' = BatchEnd(0)
        /\ mpc' = "launch" /\ UNCHANGED success
  /\ UNCHANGED <<wf, shutdown, attempt, graph, cur, completed, jobs, cancelled,
                 cpc, dead_use>>

\* The thread of the next job of the batch is started, after a short sleep.
Launch ==
  /\ mpc = "launch" /\ launched < batch_end
  /\ launched' = launched + 1
  /\ jpc' = [jpc EXCEPT ![WaveSeq[launched + 1]] = "created"]
  /\ UNCHANGED <<wf, shutdown, mpc, attempt, success, graph, cur, batch_end,
                 completed, verdict, executors, told, thrown, cancelled, cpc,
                 dead_use>>

\* Faulty variant: the batch is not waited for before the next one.
JoinNothing ==
  /\ mpc = "launch" /\ launched = batch_end
  /\ \/ launched < Len(WaveSeq) /\ batch_end' = BatchEnd(launched) /\ UNCHANGED mpc
     \/ launched = Len(WaveSeq) /\ (\A j \in Wave : jpc[j] = "ended")
        /\ mpc' = "collect" /\ UNCHANGED batch_end
  /\ UNCHANGED <<wf, shutdown, attempt, success, graph, cur, launched,
                 completed, jobs, cancelled, cpc, dead_use>>

\* All threads of the batch are joined, then the next batch is started.
JoinBatch ==
  /\ mpc = "launch" /\ launched = batch_end
  /\ \A k \in 1..launched : jpc[WaveSeq[k]] = "ended"
  /\ \/ launched < Len(WaveSeq) /\ batch_end' = BatchEnd(launched) /\ UNCHANGED mpc
     \/ launched = Len(WaveSeq) /\ mpc' = "collect" /\ UNCHANGED batch_end
  /\ UNCHANGED <<wf, shutdown, attempt, success, graph, cur, launched,
                 completed, jobs, cancelled, cpc, dead_use>>

WaveFailFast == \A j \in Wave : wf.fail_fast[j]

\* Faulty variant: only the results of the last wave are kept, and a failure
\* without fail-fast is forgotten.
CollectForgets ==
  /\ mpc = "collect"
  /\ completed' = Wave
  /\ IF (\E j \in Wave : verdict[j] = "failure") /\ WaveFailFast
     THEN mpc' = "returned" /\ success' = FALSE /\ UNCHANGED cur
     ELSE mpc' = "wave" /\ cur' = cur + 1 /\ UNCHANGED success
  /\ UNCHANGED <<wf, shutdown, attempt, graph, launched, batch_end, jobs,
                 cancelled, cpc, dead_use>>

\* The results of the wave are recorded; a failure ends the run, unless a job
\* of the wave has fail-fast: false.
Collect ==
  /\ mpc = "collect"
  /\ completed' = completed \cup Wave
  /\ IF \E j \in Wave : verdict[j] = "failure"
     THEN /\ success' = FALSE
          /\ mpc' = IF WaveFailFast THEN "returned" ELSE "wave"
          /\ cur' = IF WaveFailFast THEN cur ELSE cur + 1
     ELSE mpc' = "wave" /\ cur' = cur + 1 /\ UNCHANGED success
  /\ UNCHANGED <<wf, shutdown, attempt, graph, launched, batch_end, jobs,
                 cancelled, cpc, dead_use>>

MainStep ==
  \/ NextAttempt \/ RunReturned \/ StopCancelThread \/ JoinCancelThread
  \/ StartSort \/ Visit \/ EndSort \/ AssignWave
  \/ WaveTop \/ Launch \/ JoinBatch \/ Collect

-----------------------------------------------------------------------------
(* The threads of the jobs *)

Executor(j) == <<j, attempt>>

\* Faulty variant: registerExecutor does not look at cancelled_.
RegisterOnly(j) ==
  /\ jpc[j] = "created"
  /\ executors' = executors \cup {Executor(j)}
  /\ jpc' = [jpc EXCEPT ![j] = "executing"]
  /\ UNCHANGED <<wf, shutdown, mpc, attempt, success, graph, progress, verdict,
                 told, thrown, cancelled, cpc, dead_use>>

\* registerExecutor, under the lock: if cancel() has been called already, it
\* may have missed this executor, which is then cancelled here.
Register(j) ==
  /\ jpc[j] = "created"
  /\ executors' = executors \cup {Executor(j)}
  /\ told' = IF cancelled THEN told \cup {Executor(j)} ELSE told
  /\ jpc' = [jpc EXCEPT ![j] = "executing"]
  /\ UNCHANGED <<wf, shutdown, mpc, attempt, success, graph, progress, verdict,
                 thrown, cancelled, cpc, dead_use>>

\* execute() returns; or it throws, and the catch clause is reached past
\* unregisterExecutor with the executor destroyed.
Execute(j) ==
  /\ jpc[j] = "executing"
  /\ \/ /\ \E v \in {"success", "failure"} : verdict' = [verdict EXCEPT ![j] = v]
        /\ jpc' = [jpc EXCEPT ![j] = "unregister"]
        /\ UNCHANGED thrown
     \/ /\ verdict' = [verdict EXCEPT ![j] = "failure"]
        /\ jpc' = [jpc EXCEPT ![j] = "ended"]
        /\ thrown' = thrown \cup {Executor(j)}
  /\ UNCHANGED <<wf, shutdown, mpc, attempt, success, graph, progress,
                 executors, told, cancelled, cpc, dead_use>>

\* unregisterExecutor, the result is stored, the executor is destroyed.
Unregister(j) ==
  /\ jpc[j] = "unregister"
  /\ executors' = executors \ {Executor(j)}
  /\ jpc' = [jpc EXCEPT ![j] = "ended"]
  /\ UNCHANGED <<wf, shutdown, mpc, attempt, success, graph, progress, verdict,
                 told, thrown, cancelled, cpc, dead_use>>

JobStep(j) == Register(j) \/ Execute(j) \/ Unregister(j)

-----------------------------------------------------------------------------
(* The cancel thread: it waits for g_shutdown and calls cancel() *)

SetCancelled ==
  /\ cpc = "watch" /\ shutdown
  /\ cancelled' = TRUE /\ cpc' = "cancel"
  /\ UNCHANGED <<wf, shutdown, mpc, attempt, success, graph, progress, jobs,
                 dead_use>>

\* The executors that exist: their threads are between construction and the
\* end of the try block.
Alive == {Executor(j) : j \in {k \in JobId : jpc[k] \in {"executing", "unregister"}}}

\* Under the lock, every registered executor is cancelled.
CancelAll ==
  /\ cpc = "cancel"
  /\ told' = told \cup executors
  /\ dead_use' = (executors \ Alive # {})
  /\ cpc' = "done"
  /\ UNCHANGED <<wf, shutdown, mpc, attempt, success, graph, progress, jpc,
                 verdict, executors, thrown, cancelled>>

CancelStep == SetCancelled \/ CancelAll

-----------------------------------------------------------------------------

Exited == mpc = "exit" /\ UNCHANGED vars

Next == MainStep \/ (\E j \in JobId : JobStep(j)) \/ CancelStep \/ Signal
        \/ Exited

Spec == Init /\ [][Next]_vars

\* The threads run, and execute() ends (JobEnds of TaskExecutor.tla).
FairSpec == Spec /\ WF_vars(MainStep) /\ WF_vars(CancelStep)
                 /\ \A j \in JobId : WF_vars(JobStep(j))

-----------------------------------------------------------------------------
(* Properties *)

\* The types: indices stay within the wave and the attempts, in-degrees are
\* never negative, and only executors of this command are registered.
TypeOK ==
  /\ wf \in WorkflowType /\ shutdown \in BOOLEAN /\ success \in BOOLEAN
  /\ mpc \in {"attempt", "sort", "visit", "assign", "wave", "launch",
              "collect", "returned", "stop", "join", "exit"}
  /\ attempt \in 0..MaxAttempts
  /\ ready \in Seq(JobId) /\ order \in Seq(JobId)
  /\ in_degree \in [JobId -> 0..NumJobs]
  /\ wave \in [JobId -> -1..(NumJobs - 1)]
  /\ waves \in [0..(NumJobs - 1) -> Seq(JobId)]
  /\ cur \in 0..NumJobs /\ launched \in 0..NumJobs /\ batch_end \in 0..NumJobs
  /\ completed \subseteq JobId
  /\ jpc \in [JobId -> {"none", "created", "executing", "unregister", "ended"}]
  /\ verdict \in [JobId -> {"none", "success", "failure"}]
  /\ executors \subseteq JobId \X (1..MaxAttempts)
  /\ told \subseteq JobId \X (1..MaxAttempts)
  /\ thrown \subseteq JobId \X (1..MaxAttempts)
  /\ cancelled \in BOOLEAN /\ dead_use \in BOOLEAN
  /\ cpc \in {"watch", "cancel", "done"}

\* Reference: a graph has no cycle iff every set of jobs has one that needs
\* none of the others.
Acyclic == \A S \in SUBSET JobId : S # {} => \E j \in S : Needs(j) \cap S = {}

\* Kahn's algorithm orders exactly the graphs without a cycle, each job once
\* and after its needs, and waveSchedule gives each job the wave after the
\* last wave of its needs.
ScheduleCorrect ==
  /\ mpc = "visit" /\ ready = <<>> => (Len(order) = NumJobs <=> Acyclic)
  /\ mpc \in {"assign", "wave", "launch", "collect"} =>
       /\ Acyclic /\ ToSet(order) = JobId /\ Len(order) = NumJobs
       /\ \A k, l \in DOMAIN order : order[k] \in Needs(order[l]) => k < l
  /\ mpc \in {"wave", "launch", "collect"} =>
       \A j \in JobId : wave[j] = 1 + Max({-1} \cup {wave[n] : n \in Needs(j)})

\* A job runs only when it may: the results of all its needs are recorded, so
\* that needs_context has them, a failed one is among them only if a job of
\* that one's wave has fail-fast: false, and no more jobs run at once than any
\* max-parallel of their wave allows.
StartsAllowed ==
  LET running == {j \in JobId : jpc[j] \in {"created", "executing", "unregister"}} IN
  /\ \A j \in JobId : jpc[j] # "none" /\ mpc \in {"launch", "collect"} =>
       \A n \in Needs(j) :
         /\ n \in completed /\ jpc[n] = "ended"
         /\ verdict[n] = "success" \/ \E k \in JobId : wave[k] = wave[n] /\ ~wf.fail_fast[k]
  /\ \A j \in running : wf.max_parallel[j] > 0 =>
       Cardinality(running) <= wf.max_parallel[j]

\* A run that reports success has run every job, and every job succeeded; so
\* has a command that exits with code 0, whatever signals it got and after
\* whatever retries. (The exception is a signal before the first attempt: no
\* job runs, and the default result, success, is the exit code.)
SuccessIsTrue ==
  mpc \in {"returned", "stop", "join", "exit"} /\ success /\ attempt > 0 =>
    \A j \in JobId : verdict[j] = "success"

\* cancel() races with jobs that are starting or ending: once it has returned,
\* every executor that executes has been cancelled, and it used an executor
\* that was gone only if one's execute() threw.
CancelReachesAll ==
  /\ cpc = "done" => \A j \in JobId : jpc[j] = "executing" => Executor(j) \in told
  /\ dead_use => thrown # {}

\* The command ends: the cancel thread is stopped and joined.
CommandEnds == <>(mpc = "exit")
=============================================================================
