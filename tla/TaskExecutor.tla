---------------------------- MODULE TaskExecutor ----------------------------
(***************************************************************************)
(* One job from start to end: TaskExecutor::execute with StepRunner and    *)
(* the output file of EnvManager (src/src/runner/TaskExecutor.cpp,         *)
(* StepRunner.cpp, src/src/process/EnvManager.cpp), the processes it runs  *)
(* one after the other (ProcessSpawner.tla), and the thread that calls     *)
(* TaskExecutor::cancel.                                                   *)
(*                                                                         *)
(* A job is its list of steps and its continue-on-error. A step is a       *)
(* script ("run:"), a JavaScript action ("js", which may register a post   *)
(* script), or "empty" (neither run: nor uses:). Conditions (if:), parse   *)
(* results and the job's clock are nondeterministic: execute reads them    *)
(* and never decides them. An UpdateTask call that fails is ignored by the *)
(* code: reports are the calls made, in their order. Evaluating an         *)
(* expression may never end (ExprEvaluator.tla), and the commands that     *)
(* fetch an action run as long as they like.                               *)
(***************************************************************************)
EXTENDS ProcessSpawner, Sequences, SequencesExt

CONSTANT Job   \* the jobs: [steps, continue_on_error]

StepKind == [kind : {"script", "js", "empty"}, post : BOOLEAN,
             limited : BOOLEAN, continue_on_error : BOOLEAN,
             leaves : BOOLEAN]   \* its program starts background processes

ASSUME JobAssumption ==
  Job \subseteq [steps : Seq(StepKind), continue_on_error : BOOLEAN]

VARIABLES
  job,              \* the job found in the workflow
  epc,              \* where execute() is
  i,                \* the loop's index, from 1
  overall_success,
  step_result,      \* step_result.success of the step under way
  active,           \* active_step_runner_ # nullptr
  user,             \* whose spawner runs: the step runner's, an action's, a post script's
  post_queue,       \* registered post scripts (the step each belongs to)
  output_file,      \* $GITHUB_OUTPUT: the steps whose processes have written to it
  step_outputs,     \* result.outputs of the step under way, as runAction gave them
  lingering,        \* the steps that left a process in the background that
                    \* does not hold the pipes: run() does not wait for it
  results,          \* step_states: the results recorded so far
  outputs,          \* per recorded step: whose outputs were attributed to it
  workspace,        \* the workspace directory exists
  log,              \* the log forwarder: none, open, finished
  reports,          \* the UpdateTask calls made
  cancelled,        \* cancelled_
  cpc, kpid,        \* the cancelling thread, and the pid it has loaded
  posts_run         \* history: post scripts started, in order

files == <<output_file, step_outputs, lingering>>
books == <<results, outputs, post_queue, files>>
canceller == <<cancelled, cpc, kpid>>
execution == <<job, epc, i, overall_success, step_result, active, user, books,
               workspace, log, reports, posts_run>>
vars == <<spawner, execution, canceller>>

Init ==
  /\ SpawnerInit
  /\ job \in Job
  /\ epc = "parse" /\ i = 0 /\ overall_success = TRUE /\ step_result = TRUE
  /\ active = FALSE /\ user = "none" /\ post_queue = <<>> /\ output_file = {}
  /\ step_outputs = {} /\ lingering = {}
  /\ results = <<>> /\ outputs = <<>> /\ workspace = FALSE /\ log = "none"
  /\ reports = <<>> /\ cancelled = FALSE /\ cpc = "idle" /\ kpid = 0
  /\ posts_run = <<>>

\* client_.updateTask: an exception of it is caught and ignored.
Report(r) == reports' = Append(reports, r)

Start == [kind |-> "start", steps |-> 0, result |-> "unspecified"]
Progress(n) == [kind |-> "step", steps |-> n, result |-> "unspecified"]
\* reportEnd: a cancelled task is reported as cancelled whatever happened.
EndReport(success, n) ==
  [kind |-> "end", steps |-> n,
   result |-> IF cancelled THEN "cancelled"
              ELSE IF success THEN "success" ELSE "failure"]

-----------------------------------------------------------------------------
(* execute(): before the steps *)

\* The workflow does not parse, or has no such job: start and end are
\* reported and nothing else happens.
ParseFails ==
  /\ epc = "parse"
  /\ reports' = <<Start, EndReport(FALSE, 0)>>
  /\ overall_success' = FALSE
  /\ epc' = "returned"
  /\ UNCHANGED <<spawner, job, i, step_result, active, user, books, workspace,
                 log, posts_run, canceller>>

\* Workspace, protocol files, log forwarder, reportStart.
Setup ==
  /\ epc = "parse"
  /\ workspace' = TRUE /\ log' = "open" /\ output_file' = {}
  /\ Report(Start)
  /\ epc' = "jobIf"
  /\ UNCHANGED <<spawner, job, i, overall_success, step_result, active, user,
                 results, outputs, post_queue, step_outputs, lingering,
                 posts_run, canceller>>

\* The workspace cannot be created: the exception leaves execute() before
\* anything is reported.
SetupThrows ==
  /\ epc = "parse"
  /\ epc' = "threw"
  /\ UNCHANGED <<spawner, job, i, overall_success, step_result, active, user,
                 books, workspace, log, reports, posts_run, canceller>>

\* The job's if: condition. A skipped job goes straight to its end.
JobIf ==
  /\ epc = "jobIf"
  /\ \/ epc' = "finish" /\ UNCHANGED <<active, i>>
     \/ epc' = "loop" /\ active' = TRUE /\ i' = 1
  /\ UNCHANGED <<spawner, job, overall_success, step_result, user, books,
                 workspace, log, reports, posts_run, canceller>>

-----------------------------------------------------------------------------
(* execute(): the loop over the steps, with StepRunner::run *)

Step == job.steps[i]

\* The top of the loop: no step left, cancelled, out of time (the step
\* runner has no process to cancel at this point), or a step to run.
LoopTop ==
  /\ epc = "loop"
  /\ \/ i > Len(job.steps) /\ epc' = "post" /\ UNCHANGED overall_success
     \/ i <= Len(job.steps) /\ cancelled
        /\ epc' = "post" /\ overall_success' = FALSE
     \/ i <= Len(job.steps) /\ ~cancelled   \* the job's time is up
        /\ epc' = "post" /\ overall_success' = FALSE
     \/ i <= Len(job.steps) /\ ~cancelled
        /\ epc' = "dispatch" /\ UNCHANGED overall_success
  /\ UNCHANGED <<spawner, job, i, step_result, active, user, books, workspace,
                 log, reports, posts_run, canceller>>

\* StepRunner::run, the if: condition is false: a success that touches no
\* file.
StepSkipped ==
  /\ epc = "dispatch"
  /\ step_result' = TRUE
  /\ outputs' = Append(outputs, {})
  /\ epc' = "record"
  /\ UNCHANGED <<spawner, job, i, overall_success, active, user, results,
                 post_queue, files, workspace, log, reports, posts_run,
                 canceller>>

\* Neither run: nor uses:.
StepEmpty ==
  /\ epc = "dispatch" /\ Step.kind = "empty"
  /\ step_result' = FALSE /\ step_outputs' = {}
  /\ epc' = "collect"
  /\ UNCHANGED <<spawner, job, i, overall_success, active, user, results,
                 outputs, post_queue, output_file, lingering, workspace, log,
                 reports, posts_run, canceller>>

\* runAction: a local action is there, any other is looked for in the cache
\* and fetched by git, curl and unzip, which nothing limits in time.
CallAction ==
  /\ epc = "dispatch" /\ Step.kind = "js"
  /\ epc' \in {"fetch", "action"}
  /\ UNCHANGED <<spawner, job, i, overall_success, step_result, active, user,
                 books, workspace, log, reports, posts_run, canceller>>

\* The commands have ended (external: nothing says that they do).
FetchEnds ==
  /\ epc = "fetch"
  /\ epc' = "action"
  /\ UNCHANGED <<spawner, job, i, overall_success, step_result, active, user,
                 books, workspace, log, reports, posts_run, canceller>>

\* Expressions are evaluated in the job's if: and env:, in the step's if:,
\* name and env:, in an action's inputs and in the job's outputs: the
\* evaluation may not come back.
EvaluationHangs ==
  /\ \/ epc \in {"jobIf", "dispatch", "action"}
     \/ epc = "post" /\ post_queue = <<>>
  /\ epc' = "looping"
  /\ UNCHANGED <<spawner, job, i, overall_success, step_result, active, user,
                 books, workspace, log, reports, posts_run, canceller>>

\* ActionRunner::run without a process: the action cannot be fetched or
\* parsed, or is of a kind that is refused or skipped; without node, the
\* result is continue-on-error and the post script is registered all the
\* same.
ActionWithoutProcess ==
  /\ epc = "action"
  /\ \/ step_result' \in BOOLEAN /\ UNCHANGED post_queue
     \/ /\ Step.post /\ step_result' = Step.continue_on_error
        /\ post_queue' = Append(post_queue, i)
  /\ step_outputs' = {}
  /\ epc' = "collect"
  /\ UNCHANGED <<spawner, job, i, overall_success, active, user, results,
                 outputs, output_file, lingering, workspace, log, reports,
                 posts_run, canceller>>

\* The working directory cannot be created: the exception leaves execute().
DispatchThrows ==
  /\ epc = "dispatch"
  /\ epc' = "unwind"
  /\ UNCHANGED <<spawner, job, i, overall_success, step_result, active, user,
                 books, workspace, log, reports, posts_run, canceller>>

\* runScript: run() of the step runner's own spawner, always with a timeout,
\* for the job's remaining seconds are positive.
StartScript ==
  /\ epc = "dispatch" /\ Step.kind = "script"
  /\ user' = "step" /\ CallRun(TRUE)
  /\ epc' = "step"
  /\ UNCHANGED <<job, i, overall_success, step_result, active, books,
                 workspace, log, reports, posts_run, canceller>>

\* runJavaScript: run() of a spawner of its own, with the step's timeout only.
StartAction ==
  /\ epc = "action"
  /\ user' = "action" /\ CallRun(Step.limited)
  /\ epc' = "step"
  /\ UNCHANGED <<job, i, overall_success, step_result, active, books,
                 workspace, log, reports, posts_run, canceller>>

\* A process of the step under way can still write files: the child, or one
\* in the background that holds the pipes.
StepAlive == epc = "step" /\ (child = "running" \/ holders \ {"parent"} # {})

\* A process of the step leaves one in the background that has closed the
\* pipes or never had them, and may have left the group (external). Of the
\* last step's nobody takes notice: no step is collected after it.
LeaveBehind ==
  /\ StepAlive /\ Step.leaves /\ i < Len(job.steps)
  /\ lingering' = lingering \cup {i}
  /\ UNCHANGED <<spawner, job, epc, i, overall_success, step_result, active,
                 user, results, outputs, post_queue, output_file, step_outputs,
                 workspace, log, reports, posts_run, canceller>>

\* $GITHUB_OUTPUT is one file for all steps: a process of the step under way
\* writes to it, or one that an earlier step left behind, at any time. The
\* file is read when an action's run() has returned and at the step's end: what
\* an earlier step's process has written since the last reading is taken to
\* be written just before.
WriteOutput(k) ==
  /\ \/ StepAlive /\ k = i
     \/ /\ epc = "collect" \/ (epc = "step" /\ rpc = "returned")
        /\ k \in lingering
  /\ output_file' = output_file \cup {k}
  /\ UNCHANGED <<spawner, job, epc, i, overall_success, step_result, active,
                 user, results, outputs, post_queue, step_outputs, lingering,
                 workspace, log, reports, posts_run, canceller>>

\* run() is left: the spawner can be used again.
LeaveRun == /\ rpc' = "idle"
            /\ UNCHANGED <<timeout, pid, child_pid, process, pipes, timer>>

\* run() returned: the step succeeded if the child exited with 0.
ScriptReturned ==
  /\ epc = "step" /\ user = "step" /\ rpc = "returned" /\ LeaveRun
  /\ step_result' = (wstatus = "ok") /\ step_outputs' = {}
  /\ user' = "none" /\ epc' = "collect"
  /\ UNCHANGED <<job, i, overall_success, active, results, outputs,
                 post_queue, output_file, lingering, workspace, log, reports,
                 posts_run, canceller>>

\* runJavaScript reads and resets the protocol files itself, and registers
\* the post script whatever the exit code. (What a process writes between
\* the reading and the resetting, here and in Collect, is in nobody's
\* outputs, as if it had not been written.)
ActionReturned ==
  /\ epc = "step" /\ user = "action" /\ rpc = "returned" /\ LeaveRun
  /\ step_result' = (wstatus = "ok")
  /\ step_outputs' = output_file /\ output_file' = {}
  /\ post_queue' = IF Step.post THEN Append(post_queue, i) ELSE post_queue
  /\ user' = "none" /\ epc' = "collect"
  /\ UNCHANGED <<job, i, overall_success, active, results, outputs, lingering,
                 workspace, log, reports, posts_run, canceller>>

\* run() threw: runScript does not catch it, the exception leaves execute();
ScriptThrew ==
  /\ epc = "step" /\ user = "step" /\ rpc = "threw" /\ LeaveRun
  /\ user' = "none" /\ epc' = "unwind"
  /\ UNCHANGED <<job, i, overall_success, step_result, active, books,
                 workspace, log, reports, posts_run, canceller>>

\* runAction catches it, and the step counts as continue-on-error says.
ActionThrew ==
  /\ epc = "step" /\ user = "action" /\ rpc = "threw" /\ LeaveRun
  /\ step_result' = Step.continue_on_error /\ step_outputs' = {}
  /\ user' = "none" /\ epc' = "collect"
  /\ UNCHANGED <<job, i, overall_success, active, results, outputs,
                 post_queue, output_file, lingering, workspace, log, reports,
                 posts_run, canceller>>

\* Faulty variant: resetBetweenSteps is not called.
CollectNoReset ==
  /\ epc = "collect"
  /\ outputs' = Append(outputs, step_outputs \cup output_file)
  /\ step_outputs' = {}
  /\ epc' = "record"
  /\ UNCHANGED <<spawner, job, i, overall_success, step_result, active, user,
                 results, post_queue, output_file, lingering, workspace, log,
                 reports, posts_run, canceller>>

\* The end of StepRunner::run, whatever kind of step it was: what the output
\* file holds is merged into the step's outputs, and the file is emptied
\* (resetBetweenSteps).
Collect ==
  /\ epc = "collect"
  /\ outputs' = Append(outputs, step_outputs \cup output_file)
  /\ output_file' = {} /\ step_outputs' = {}
  /\ epc' = "record"
  /\ UNCHANGED <<spawner, job, i, overall_success, step_result, active, user,
                 results, post_queue, lingering, workspace, log,
                 reports, posts_run, canceller>>

\* Faulty variant: the loop is left and overall_success stays as it is.
RecordForgets ==
  /\ epc = "record"
  /\ results' = Append(results, step_result)
  /\ Report(Progress(Len(results) + 1))
  /\ IF ~step_result /\ ~Step.continue_on_error
     THEN epc' = "post" /\ UNCHANGED i
     ELSE epc' = "loop" /\ i' = i + 1
  /\ UNCHANGED <<spawner, job, overall_success, step_result, active, user,
                 outputs, post_queue, files, workspace, log, posts_run,
                 canceller>>

\* The step's state is recorded and reported; a failure that is not
\* tolerated ends the loop.
Record ==
  /\ epc = "record"
  /\ results' = Append(results, step_result)
  /\ Report(Progress(Len(results) + 1))
  /\ IF ~step_result /\ ~Step.continue_on_error
     THEN epc' = "post" /\ overall_success' = FALSE /\ UNCHANGED i
     ELSE epc' = "loop" /\ i' = i + 1 /\ UNCHANGED overall_success
  /\ UNCHANGED <<spawner, job, step_result, active, user, outputs, post_queue,
                 files, workspace, log, posts_run, canceller>>

StepOperation ==
  \/ LoopTop \/ StepSkipped \/ StepEmpty \/ DispatchThrows
  \/ StartScript \/ ScriptReturned \/ ScriptThrew
  \/ CallAction \/ ActionWithoutProcess \/ StartAction \/ ActionReturned \/ ActionThrew
  \/ Collect \/ Record

-----------------------------------------------------------------------------
(* execute(): after the steps *)

\* Faulty variant: post scripts run in the order of their registration.
StartPostForward ==
  /\ epc = "post" /\ post_queue # <<>>
  /\ CallRun(TRUE) /\ user' = "post"
  /\ posts_run' = Append(posts_run, Head(post_queue))
  /\ post_queue' = Tail(post_queue)
  /\ epc' = "postRun"
  /\ UNCHANGED <<job, i, overall_success, step_result, active, results,
                 outputs, files, workspace, log, reports, canceller>>

\* The post scripts, last registered first, each with 300 s.
StartPost ==
  /\ epc = "post" /\ post_queue # <<>>
  /\ CallRun(TRUE) /\ user' = "post"
  /\ posts_run' = Append(posts_run, Last(post_queue))
  /\ post_queue' = Front(post_queue)
  /\ epc' = "postRun"
  /\ UNCHANGED <<job, i, overall_success, step_result, active, results,
                 outputs, files, workspace, log, reports, canceller>>

\* A failed post script is only logged; an exception of run() is not caught.
PostEnds ==
  /\ epc = "postRun" /\ rpc \in {"returned", "threw"} /\ LeaveRun
  /\ epc' = IF rpc = "returned" THEN "post" ELSE "unwind"
  /\ user' = "none"
  /\ UNCHANGED <<job, i, overall_success, step_result, active, books,
                 workspace, log, reports, posts_run, canceller>>

\* The job's continue-on-error.
JobOutcome ==
  /\ epc = "post" /\ post_queue = <<>>
  /\ overall_success' = (overall_success \/ job.continue_on_error)
  /\ epc' = "finish"
  /\ UNCHANGED <<spawner, job, i, step_result, active, user, books, workspace,
                 log, reports, posts_run, canceller>>

\* Faulty variant: the log is not finished before the result is reported.
FinishJobNoLog ==
  /\ epc = "finish"
  /\ workspace' = FALSE
  /\ epc' = "clear"
  /\ UNCHANGED <<spawner, job, i, overall_success, step_result, active, user,
                 books, log, reports, posts_run, canceller>>

\* The protocol files go, the log is flushed and closed, the workspace goes.
FinishJob ==
  /\ epc = "finish"
  /\ log' = "finished" /\ workspace' = FALSE
  /\ epc' = "clear"
  /\ UNCHANGED <<spawner, job, i, overall_success, step_result, active, user,
                 books, reports, posts_run, canceller>>

\* active_step_runner_.store(nullptr); a skipped job has never set it.
ClearRunner ==
  /\ epc = "clear"
  /\ active' = FALSE
  /\ epc' = "report"
  /\ UNCHANGED <<spawner, job, i, overall_success, step_result, user, books,
                 workspace, log, reports, posts_run, canceller>>

\* reportEnd, and execute() returns overall_success.
ReportEnd ==
  /\ epc = "report"
  /\ Report(EndReport(overall_success, Len(results)))
  /\ epc' = "returned"
  /\ UNCHANGED <<spawner, job, i, overall_success, step_result, active, user,
                 books, workspace, log, posts_run, canceller>>

\* An exception leaves execute(): the log forwarder is destroyed, which
\* finishes it; the workspace stays, the pointer stays, nothing is reported.
Unwind ==
  /\ epc = "unwind"
  /\ log' = "finished"
  /\ epc' = "threw"
  /\ UNCHANGED <<spawner, job, i, overall_success, step_result, active, user,
                 books, workspace, reports, posts_run, canceller>>

ExecuteStep == ParseFails \/ SetupThrows \/ Setup \/ JobIf \/ EvaluationHangs
               \/ StepOperation \/ StartPost \/ PostEnds \/ JobOutcome \/ FinishJob \/ ClearRunner
               \/ ReportEnd \/ Unwind

-----------------------------------------------------------------------------
(* cancel(), called by another thread *)

SetCancelled ==
  /\ cpc = "idle"
  /\ cancelled' = TRUE /\ cpc' = "load"
  /\ UNCHANGED <<spawner, execution, kpid>>

\* active_step_runner_.load(): without one there is nothing to kill.
LoadRunner ==
  /\ cpc = "load"
  /\ cpc' = IF active THEN "kill" ELSE "done"
  /\ UNCHANGED <<spawner, execution, cancelled, kpid>>

\* child_pid_.load() of the step runner's spawner, which is -1 while the
\* process under way belongs to an action or is a post script.
LoadPid ==
  /\ cpc = "kill"
  /\ kpid' = IF user = "step" THEN child_pid ELSE 0
  /\ cpc' = "signal"
  /\ UNCHANGED <<spawner, execution, cancelled>>

SignalGroup ==
  /\ cpc = "signal"
  /\ SendTerm(kpid)
  /\ cpc' = "done"
  /\ UNCHANGED <<execution, cancelled, kpid>>

CancelStep == LoadRunner \/ LoadPid \/ SignalGroup

-----------------------------------------------------------------------------

ProcessStep ==
  /\ \/ \E s \in Stream : Write(s)
     \/ \E k \in {"stray", "detached"} : Fork(k)
     \/ \E k \in {"child", "stray", "detached"} : CloseOutput(k)
     \/ \E how \in {"ok", "error", "signal"} : ChildEnds(how)
  /\ UNCHANGED <<execution, canceller>>

RunnerStep ==
  /\ RunStep \/ TimerStep \/ \E s \in Stream : DrainStep(s)
  /\ UNCHANGED <<execution, canceller>>

\* What processes the step has left behind, and its fetches, may do.
Outside == FetchEnds \/ LeaveBehind \/ \E k \in lingering \cup {i} : WriteOutput(k)

\* execute() is over or does not come back, and cancel() is over if it was
\* called.
Ended ==
  /\ epc \in {"returned", "threw", "looping"} /\ cpc \in {"idle", "done"}
  /\ UNCHANGED vars

Next == ExecuteStep \/ Outside \/ SetCancelled \/ CancelStep
        \/ ProcessStep \/ RunnerStep \/ Ended

Spec == Init /\ [][Next]_vars

\* The executor's thread and the threads of run() are scheduled. Nothing is
\* assumed of the processes: a child may ignore SIGTERM and run for ever, and
\* so may a command that fetches an action.
FairSpec ==
  /\ Spec
  /\ WF_vars(ExecuteStep)
  /\ WF_vars(RunStep /\ UNCHANGED <<execution, canceller>>)
  /\ WF_vars(TimerStep /\ UNCHANGED <<execution, canceller>>)
  /\ \A s \in Stream : WF_vars(DrainStep(s) /\ UNCHANGED <<execution, canceller>>)

-----------------------------------------------------------------------------
(* Properties *)

Reports == [kind : {"start", "step", "end"}, steps : Nat,
            result : {"unspecified", "success", "failure", "cancelled"}]

\* The types: the loop's index stays within the steps, and cancel() only loads
\* pids that run() has stored.
TypeOK ==
  /\ SpawnerTypeOK
  /\ job \in Job /\ i \in 0..(Len(job.steps) + 1)
  /\ epc \in {"parse", "jobIf", "loop", "dispatch", "fetch", "action", "step",
              "collect", "record", "looping", "post", "postRun", "finish", "clear", "report",
              "unwind", "returned", "threw"}
  /\ overall_success \in BOOLEAN /\ step_result \in BOOLEAN
  /\ active \in BOOLEAN /\ workspace \in BOOLEAN
  /\ user \in {"none", "step", "action", "post"}
  /\ log \in {"none", "open", "finished"}
  /\ post_queue \in Seq(Nat) /\ posts_run \in Seq(Nat)
  /\ results \in Seq(BOOLEAN) /\ reports \in Seq(Reports)
  /\ outputs \in Seq(SUBSET Nat) /\ output_file \subseteq Nat
  /\ step_outputs \subseteq Nat /\ lingering \subseteq Nat
  /\ cancelled \in BOOLEAN /\ kpid \in 0..pid
  /\ cpc \in {"idle", "load", "kill", "signal", "done"}

\* The sequence at the top of TaskExecutor.h: the start is reported first,
\* the result last and once, and not before the log is closed, the post
\* scripts have run and the workspace is gone; an execute() that returns has
\* reported a result, one that throws has not.
ReportProtocol ==
  /\ \A k \in DOMAIN reports :
       /\ reports[k].kind = "start" <=> k = 1
       /\ reports[k].kind = "end" =>
            /\ k = Len(reports)
            /\ log # "open" /\ post_queue = <<>> /\ ~workspace /\ ~active
            /\ epc = "returned"
  /\ epc = "returned" => Last(reports).kind = "end"

Tolerated(k) == results[k] \/ job.steps[k].continue_on_error

\* The result is what the steps say: a job reported as a success ran all of
\* its steps, each of which succeeded or may fail (unless the job itself may
\* fail, or was skipped), and one reported as a failure has a reason.
ResultIsTrue ==
  epc = "returned" /\ workspace = FALSE /\ log = "finished" =>
    LET whole == Len(results) = Len(job.steps)
                 /\ \A k \in DOMAIN results : Tolerated(k)
    IN  /\ Last(reports).result = "success" => whole \/ job.continue_on_error \/ i = 0
        /\ Last(reports).result = "failure" => ~whole

\* Post scripts run in the reverse order of their steps, none twice, and
\* before execute() returns all of them have run, whether the job succeeded,
\* failed or was cancelled.
PostsReversed ==
  /\ LET all == posts_run \o Reverse(post_queue) IN
       \A k, l \in DOMAIN all : k < l => all[k] > all[l]
  /\ epc = "returned" => post_queue = <<>>

\* $GITHUB_OUTPUT is one file for all steps. What the processes of a step
\* wrote to it is attributed to that step, or to a later one if the step left
\* a process in the background that does not hold the pipes: run() does not
\* wait for it, and StepRunner.cpp:130 credits what it writes to the step
\* that is collected next.
OutputsAttributed ==
  \A k \in DOMAIN outputs : \A l \in outputs[k] :
    l = k \/ (l < k /\ l \in lingering)

\* Every job ends, though its processes may ignore SIGTERM and run for ever:
\* the exceptions are an action without a timeout, which nothing ends, a
\* process that left the group and holds the pipe, a command that fetches an
\* action, for which there is no limit either (ActionRunner.cpp:60,64,114),
\* and an expression whose evaluation loops (ExprEvaluator.cpp:428).
JobEnds ==
  \/ <>(epc \in {"returned", "threw"})
  \/ <>[](rpc \in {"join", "wait"} /\ ~timeout)
  \/ <>[]("detached" \in holders)
  \/ <>[](epc = "fetch")
  \/ <>[](epc = "looping")

-----------------------------------------------------------------------------
(* What the comments and the README claim and the code does not keep *)

\* TaskExecutor.h, cancel(): "Also kills the currently-running step's child
\* process": once cancel() has returned, a running child of a step has been
\* sent SIGTERM.
CancelKillsStep ==
  cpc = "done" /\ user = "step" /\ child = "running" => termed
=============================================================================
