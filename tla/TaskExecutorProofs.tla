-------------------------- MODULE TaskExecutorProofs -------------------------
(***************************************************************************)
(* Proofs about TaskExecutor and the ProcessSpawner it calls: what is      *)
(* reported of a job, in which order and with which result, which outputs  *)
(* belong to which step, which post scripts run, and what is left of a     *)
(* process when run() has returned; for any jobs with any number of steps, *)
(* whatever the processes do and whenever cancel() is called.              *)
(***************************************************************************)
EXTENDS TaskExecutor, SequenceTheorems, TLAPS

-----------------------------------------------------------------------------
(* The inductive invariant *)

\* The drain thread of a pipe only ends when nobody can write to it any more
\* and all of it was delivered.
Drained ==
  \A s \in Stream : drain[s] = "ended" => holders = {} /\ delivered[s] = written[s]

\* What is over at each place of run().
RunStages ==
  /\ rpc \in {"spawn", "close", "store"} => \A s \in Stream : drain[s] = "none"
  /\ rpc \in {"wait", "reaped", "joinTimer", "returned"} =>
       \A s \in Stream : drain[s] = "ended"
  /\ rpc \in {"reaped", "joinTimer", "returned"} => child = "reaped"
  /\ rpc = "returned" => child_pid = 0 /\ wd \in {"none", "ended"}

InLoop == epc \in {"loop", "dispatch", "fetch", "action", "step", "collect", "record"}

\* The start is reported first, the end last and when execute() returns.
Reported ==
  /\ \A k \in 1..Len(reports) : reports[k].kind = "start" <=> k = 1
  /\ \A k \in 1..Len(reports) :
       reports[k].kind = "end" => k = Len(reports) /\ epc = "returned"
  /\ epc = "parse" => reports = <<>>
  /\ epc \notin {"parse", "threw"} => reports # <<>>
  /\ epc = "returned" => reports[Len(reports)].kind = "end"

\* What is not there yet, or not any more.
Cleared ==
  /\ epc \in {"parse", "jobIf"} => ~active /\ post_queue = <<>>
  /\ epc = "parse" => ~workspace /\ log = "none"
  /\ epc \in {"finish", "clear", "report", "returned"} => post_queue = <<>>
  /\ epc \in {"clear", "report", "returned"} => ~workspace /\ log # "open"
  /\ epc \in {"report", "returned"} => ~active

WholeJob ==
  Len(results) = Len(job.steps) /\ \A k \in 1..Len(results) : Tolerated(k)

\* The loop goes on only while every step so far succeeded or may fail; when
\* it is left, overall_success says whether all the steps were run like that.
Counted ==
  /\ epc \in {"parse", "jobIf"} => i = 0 /\ results = <<>> /\ overall_success
  /\ InLoop =>
       /\ i >= 1 /\ Len(results) = i - 1 /\ overall_success
       /\ \A k \in 1..Len(results) : Tolerated(k)
  /\ InLoop /\ epc # "loop" => i <= Len(job.steps)
  /\ epc \in {"post", "postRun"} => i # 0 /\ (overall_success <=> WholeJob)
  /\ epc \in {"finish", "clear", "report"} =>
       (overall_success <=> i = 0 \/ WholeJob \/ job.continue_on_error)

\* What step k may be credited with.
Owed(k, l) == l = k \/ (l < k /\ l \in lingering)

\* The output file is empty between the steps, and no process was left behind
\* by a step that has not started.
Attributed ==
  /\ \A k \in 1..Len(outputs) : \A l \in outputs[k] : Owed(k, l)
  /\ epc \in {"parse", "jobIf"} => outputs = <<>> /\ output_file = {} /\ lingering = {}
  /\ InLoop => \A l \in lingering : l <= i
  /\ epc \in {"loop", "dispatch", "fetch", "action", "record"} => output_file = {}
  /\ epc \in {"step", "collect"} => \A l \in output_file : Owed(i, l)
  /\ epc = "collect" => \A l \in step_outputs : Owed(i, l)
  /\ InLoop /\ epc # "record" => Len(outputs) = i - 1
  /\ epc = "record" => Len(outputs) = i

\* Post scripts are queued in the order of their steps and taken from the end.
Queued ==
  /\ \A k, l \in 1..Len(post_queue) : k < l => post_queue[k] < post_queue[l]
  /\ \A k, l \in 1..Len(posts_run) : k < l => posts_run[k] > posts_run[l]
  /\ \A k \in 1..Len(posts_run) : \A l \in 1..Len(post_queue) :
       posts_run[k] > post_queue[l]
  /\ epc \in {"parse", "jobIf"} \/ InLoop => posts_run = <<>>
  /\ epc \in {"loop", "dispatch", "fetch", "action", "step"} =>
       \A k \in 1..Len(post_queue) : post_queue[k] < i
  /\ epc \in {"collect", "record"} =>
       \A k \in 1..Len(post_queue) : post_queue[k] <= i

IndInv ==
  /\ TypeOK /\ Drained /\ RunStages
  /\ Reported /\ Cleared /\ Counted /\ Attributed /\ Queued /\ ResultIsTrue

-----------------------------------------------------------------------------
(* Steps *)

\* Whose step it is: the executor's thread, which may call or leave run(), the
\* canceller's, or one of run() and of the processes.
LEMMA NextCases ==
  ASSUME [Next]_vars
  PROVE  \/ ExecuteStep
         \/ FetchEnds \/ LeaveBehind \/ \E k \in lingering \cup {i} : WriteOutput(k)
         \/ SetCancelled \/ LoadRunner \/ LoadPid \/ SignalGroup
         \/ ProcessStep
         \/ RunnerStep
         \/ UNCHANGED vars
  BY DEF Next, CancelStep, Ended, Outside

\* The step under way is one of the job's.
LEMMA StepUnderWay ==
  ASSUME TypeOK, Counted, InLoop, epc # "loop"
  PROVE  /\ i \in 1..Len(job.steps) /\ Step \in StepKind
         /\ Step.limited \in BOOLEAN /\ Step.continue_on_error \in BOOLEAN
         /\ Step.post \in BOOLEAN
  <1>1. job \in [steps : Seq(StepKind), continue_on_error : BOOLEAN]
    BY JobAssumption DEF TypeOK
  <1>2. job.steps \in Seq(StepKind)
    BY <1>1
  <1>3. Len(job.steps) \in Nat /\ i \in 0..(Len(job.steps) + 1)
    BY <1>2, LenProperties DEF TypeOK
  <1>4. i \in 1..Len(job.steps)
    BY <1>3 DEF Counted
  <1>5. Step \in StepKind
    BY <1>2, <1>4, ElementOfSeq DEF Step
  <1> QED BY <1>4, <1>5 DEF StepKind

\* What the executor's steps do to the spawner.
LEMMA ExecuteSpawner ==
  ASSUME IndInv, ExecuteStep
  PROVE  \/ UNCHANGED spawner
         \/ \E limited \in BOOLEAN : CallRun(limited)
         \/ rpc \in {"returned", "threw"} /\ LeaveRun
  <1>1. CASE StepOperation
    <2>1. CASE LoopTop \/ StepSkipped \/ StepEmpty \/ DispatchThrows
      BY <2>1 DEF LoopTop, StepSkipped, StepEmpty, DispatchThrows
    <2>2. CASE StartScript
      BY <2>2 DEF StartScript
    <2>5. CASE StartAction
      <3>1. Step.limited \in BOOLEAN
        BY <2>5, StepUnderWay DEF StartAction, IndInv, InLoop
      <3> QED BY <2>5, <3>1 DEF StartAction
    <2>3. CASE ScriptReturned \/ ScriptThrew \/ ActionReturned \/ ActionThrew
      BY <2>3 DEF ScriptReturned, ScriptThrew, ActionReturned, ActionThrew
    <2>4. CASE CallAction \/ ActionWithoutProcess \/ Collect \/ Record
      BY <2>4 DEF CallAction, ActionWithoutProcess, Collect, Record
    <2> QED BY <1>1, <2>1, <2>2, <2>3, <2>4, <2>5 DEF StepOperation
  <1>2. CASE ParseFails \/ SetupThrows \/ Setup \/ JobIf \/ EvaluationHangs
    BY <1>2 DEF ParseFails, SetupThrows, Setup, JobIf, EvaluationHangs
  <1>3. CASE StartPost
    BY <1>3 DEF StartPost
  <1>4. CASE PostEnds
    BY <1>4 DEF PostEnds
  <1>5. CASE JobOutcome \/ FinishJob \/ ClearRunner \/ ReportEnd \/ Unwind
    BY <1>5 DEF JobOutcome, FinishJob, ClearRunner, ReportEnd, Unwind
  <1> QED BY <1>1, <1>2, <1>3, <1>4, <1>5 DEF ExecuteStep

\* What any step does to the spawner.
LEMMA SpawnerCases ==
  ASSUME IndInv, [Next]_vars
  PROVE  \/ UNCHANGED spawner
         \/ \E limited \in BOOLEAN : CallRun(limited)
         \/ rpc \in {"returned", "threw"} /\ LeaveRun
         \/ Spawn \/ CloseWriteEnds \/ StorePid \/ JoinDrains \/ WaitPid
         \/ SetDone \/ Return
         \/ TimerTick \/ TimerTerm \/ TimerGrace \/ TimerKill
         \/ SendTerm(kpid)
         \/ \E s \in Stream : DrainLine(s) \/ DrainEof(s) \/ Write(s)
         \/ \E k \in {"stray", "detached"} : Fork(k)
         \/ \E k \in {"child", "stray", "detached"} : CloseOutput(k)
         \/ \E how \in {"ok", "error", "signal"} : ChildEnds(how)
  <1>1. CASE ExecuteStep
    BY <1>1, ExecuteSpawner
  <1>7. CASE FetchEnds \/ LeaveBehind \/ \E k \in lingering \cup {i} : WriteOutput(k)
    BY <1>7 DEF FetchEnds, LeaveBehind, WriteOutput
  <1>2. CASE SetCancelled \/ LoadRunner \/ LoadPid
    BY <1>2 DEF SetCancelled, LoadRunner, LoadPid
  <1>3. CASE SignalGroup
    BY <1>3 DEF SignalGroup
  <1>4. CASE ProcessStep
    BY <1>4 DEF ProcessStep
  <1>5. CASE RunnerStep
    BY <1>5 DEF RunnerStep, RunStep, TimerStep, DrainStep
  <1>6. CASE UNCHANGED vars
    BY <1>6 DEF vars
  <1> QED BY <1>1, <1>2, <1>3, <1>4, <1>5, <1>6, <1>7, NextCases

-----------------------------------------------------------------------------
(* The spawner *)

\* The spawner's types.
LEMMA SpawnerTypes ==
  ASSUME IndInv, [Next]_vars PROVE SpawnerTypeOK' /\ pid' >= pid
  <1> USE DEF process, pipes, timer
  <1>0. SpawnerTypeOK /\ pid \in Nat
    BY DEF IndInv, TypeOK, SpawnerTypeOK
  <1> USE <1>0 DEF SpawnerTypeOK
  <1> DEFINE Goal == SpawnerTypeOK' /\ pid' >= pid
  <1>1. CASE UNCHANGED spawner
    BY <1>1 DEF spawner
  <1>2. ASSUME NEW limited \in BOOLEAN, CallRun(limited) PROVE Goal
    <2>1. written' \in [Stream -> 0..MaxOut] /\ delivered' \in [Stream -> 0..MaxOut]
      BY <1>2, OutAssumption DEF CallRun
    <2>2. drain' \in [Stream -> {"none", "reading", "ended"}]
      BY <1>2 DEF CallRun
    <2>3. timeout' \in BOOLEAN
      BY <1>2, Zenon DEF CallRun
    <2>4. termed' \in BOOLEAN /\ done' \in BOOLEAN
      BY <1>2 DEF CallRun
    <2>5. child_pid' \in 0..pid' /\ pid' \in Nat /\ pid' >= pid
      <3>1. child_pid' = child_pid /\ pid' = pid
        BY <1>2 DEF CallRun
      <3> QED BY <3>1
    <2>6. holders' \subseteq {"parent", "child", "stray", "detached"}
      BY <1>2 DEF CallRun
    <2> QED BY <1>2, <2>1, <2>2, <2>3, <2>4, <2>5, <2>6 DEF CallRun
  <1>3. CASE rpc \in {"returned", "threw"} /\ LeaveRun
    BY <1>3 DEF LeaveRun
  <1>4. CASE Spawn
    <2>1. pid' \in Nat /\ pid' >= pid /\ child_pid' \in 0..pid'
      BY <1>4 DEF Spawn
    <2> QED BY <1>4, <2>1 DEF Spawn
  <1>5. CASE CloseWriteEnds
    BY <1>5 DEF CloseWriteEnds
  <1>6. CASE StorePid
    BY <1>6 DEF StorePid
  <1>7. CASE JoinDrains \/ SetDone
    <2>1. CASE JoinDrains
      BY <2>1 DEF JoinDrains
    <2>2. CASE SetDone
      BY <2>2 DEF SetDone
    <2> QED BY <1>7, <2>1, <2>2
  <1>8. CASE WaitPid
    BY <1>8 DEF WaitPid
  <1>9. CASE Return
    BY <1>9 DEF Return
  <1>10. CASE TimerTick \/ TimerGrace
    <2>1. CASE TimerTick
      BY <2>1 DEF TimerTick, TimerMoves
    <2>2. CASE TimerGrace
      BY <2>2 DEF TimerGrace, TimerMoves
    <2> QED BY <1>10, <2>1, <2>2
  <1>11. CASE TimerTerm
    <2>1. termed' \in BOOLEAN
      BY <1>11, Zenon DEF TimerTerm
    <2> QED BY <1>11, <2>1 DEF TimerTerm, TimerMoves
  <1>12. CASE TimerKill
    BY <1>12 DEF TimerKill
  <1>13. CASE SendTerm(kpid)
    <2>1. termed' \in BOOLEAN
      BY <1>13, Zenon DEF SendTerm
    <2> QED BY <1>13, <2>1 DEF SendTerm
  <1>14. ASSUME NEW s \in Stream, DrainLine(s) PROVE Goal
    <2>1. delivered[s] + 1 \in 0..MaxOut
      BY <1>14, OutAssumption DEF DrainLine
    <2>2. delivered' \in [Stream -> 0..MaxOut]
      BY <1>14, <2>1 DEF DrainLine
    <2> QED BY <1>14, <2>2 DEF DrainLine
  <1>15. ASSUME NEW s \in Stream, DrainEof(s) PROVE Goal
    BY <1>15 DEF DrainEof
  <1>16. ASSUME NEW s \in Stream, Write(s) PROVE Goal
    <2>1. written[s] + 1 \in 0..MaxOut
      BY <1>16, OutAssumption DEF Write
    <2>2. written' \in [Stream -> 0..MaxOut]
      BY <1>16, <2>1 DEF Write
    <2> QED BY <1>16, <2>2 DEF Write
  <1>17. ASSUME NEW k \in {"stray", "detached"}, Fork(k) PROVE Goal
    BY <1>17 DEF Fork
  <1>18. ASSUME NEW k \in {"child", "stray", "detached"}, CloseOutput(k) PROVE Goal
    BY <1>18 DEF CloseOutput
  <1>19. ASSUME NEW how \in {"ok", "error", "signal"}, ChildEnds(how) PROVE Goal
    BY <1>19 DEF ChildEnds
  <1> HIDE DEF Goal
  <1>20. Goal
    BY <1>1, <1>2, <1>3, <1>4, <1>5, <1>6, <1>7, <1>8, <1>9, <1>10, <1>11, <1>12, <1>13,
       <1>14, <1>15, <1>16, <1>17, <1>18, <1>19, SpawnerCases DEF Goal
  <1> QED BY <1>20 DEF Goal

\* run() joins its drain threads before it waits for the child and its timeout
\* thread before it returns, and while somebody may still write no drain
\* thread has ended.
LEMMA SpawnerStep == ASSUME IndInv, [Next]_vars PROVE Drained' /\ RunStages'
  <1> USE DEF process, pipes, timer
  <1>0. SpawnerTypeOK /\ Drained /\ RunStages
    BY DEF IndInv, TypeOK
  <1> USE <1>0 DEF SpawnerTypeOK, Drained, RunStages
  <1> DEFINE Goal == Drained' /\ RunStages'
  <1>1. CASE UNCHANGED spawner
    BY <1>1 DEF spawner
  <1>2. ASSUME NEW limited \in BOOLEAN, CallRun(limited) PROVE Goal
    BY <1>2 DEF CallRun
  <1>3. CASE rpc \in {"returned", "threw"} /\ LeaveRun
    BY <1>3 DEF LeaveRun
  <1>4. CASE Spawn
    BY <1>4 DEF Spawn
  <1>5. CASE CloseWriteEnds
    BY <1>5 DEF CloseWriteEnds
  <1>6. CASE StorePid
    BY <1>6 DEF StorePid
  <1>7. CASE JoinDrains
    BY <1>7 DEF JoinDrains
  <1>8. CASE WaitPid
    BY <1>8 DEF WaitPid
  <1>9. CASE SetDone
    BY <1>9 DEF SetDone
  <1>10. CASE Return
    BY <1>10 DEF Return
  <1>11. CASE TimerTick \/ TimerGrace
    BY <1>11 DEF TimerTick, TimerGrace, TimerMoves
  <1>12. CASE TimerTerm
    BY <1>12 DEF TimerTerm, TimerMoves
  <1>13. CASE TimerKill
    BY <1>13 DEF TimerKill
  <1>14. CASE SendTerm(kpid)
    BY <1>14 DEF SendTerm
  <1>15. ASSUME NEW s \in Stream, DrainLine(s) PROVE Goal
    BY <1>15 DEF DrainLine
  <1>16. ASSUME NEW s \in Stream, DrainEof(s) PROVE Goal
    BY <1>16 DEF DrainEof
  <1>17. ASSUME NEW s \in Stream, Write(s) PROVE Goal
    BY <1>17 DEF Write
  <1>18. ASSUME NEW k \in {"stray", "detached"}, Fork(k) PROVE Goal
    BY <1>18 DEF Fork
  <1>19. ASSUME NEW k \in {"child", "stray", "detached"}, CloseOutput(k) PROVE Goal
    BY <1>19 DEF CloseOutput
  <1>20. ASSUME NEW how \in {"ok", "error", "signal"}, ChildEnds(how) PROVE Goal
    BY <1>20 DEF ChildEnds
  <1> HIDE DEF Goal
  <1>21. Goal
    <2>1. UNCHANGED spawner => Goal
      BY <1>1 DEF Goal
    <2> QED
    BY <2>1, <1>2, <1>3, <1>4, <1>5, <1>6, <1>7, <1>8, <1>9, <1>10, <1>11, <1>12, <1>13,
       <1>14, <1>15, <1>16, <1>17, <1>18, <1>19, <1>20, SpawnerCases DEF Goal
  <1> QED BY <1>21 DEF Goal

\* run() has returned.
LEMMA ReturnsClean == ASSUME IndInv PROVE RunReturnsClean
  <1> SUFFICES ASSUME rpc = "returned"
               PROVE  /\ delivered = written /\ holders = {}
                      /\ child = "reaped" /\ child_pid = 0
                      /\ wd \in {"none", "ended"} /\ \A s \in Stream : drain[s] = "ended"
    BY DEF RunReturnsClean
  <1>1. /\ \A s \in Stream : drain[s] = "ended"
        /\ child = "reaped" /\ child_pid = 0 /\ wd \in {"none", "ended"}
    BY DEF IndInv, RunStages
  <1>2. holders = {} /\ \A s \in Stream : delivered[s] = written[s]
    BY <1>1, StreamAssumption DEF IndInv, Drained
  <1>3. delivered = written
    BY <1>2 DEF IndInv, TypeOK, SpawnerTypeOK
  <1> QED BY <1>1, <1>2, <1>3

-----------------------------------------------------------------------------
(* The executor's types *)

\* The executor's steps, one by one.
LEMMA ExecutionCases ==
  ASSUME [Next]_vars
  PROVE  \/ ParseFails \/ SetupThrows \/ Setup \/ JobIf
         \/ LoopTop \/ StepSkipped \/ StepEmpty \/ DispatchThrows
         \/ StartScript \/ ScriptReturned \/ ScriptThrew
         \/ CallAction \/ FetchEnds \/ EvaluationHangs
         \/ ActionWithoutProcess \/ StartAction \/ ActionReturned \/ ActionThrew
         \/ Collect \/ Record
         \/ StartPost \/ PostEnds \/ JobOutcome \/ FinishJob \/ ClearRunner
         \/ ReportEnd \/ Unwind
         \/ LeaveBehind \/ \E k \in lingering \cup {i} : WriteOutput(k)
         \/ UNCHANGED execution
  <1>1. CASE ExecuteStep
    BY <1>1 DEF ExecuteStep, StepOperation
  <1>2. CASE SetCancelled \/ LoadRunner \/ LoadPid \/ SignalGroup
    BY <1>2 DEF SetCancelled, LoadRunner, LoadPid, SignalGroup
  <1>3. CASE ProcessStep \/ RunnerStep
    BY <1>3 DEF ProcessStep, RunnerStep
  <1>4. CASE UNCHANGED vars
    BY <1>4 DEF vars
  <1> QED BY <1>1, <1>2, <1>3, <1>4, NextCases

\* The canceller's variables.
LEMMA CancellerTypes ==
  ASSUME IndInv, [Next]_vars
  PROVE  /\ cancelled' \in BOOLEAN /\ kpid' \in 0..pid'
         /\ cpc' \in {"idle", "load", "kill", "signal", "done"}
  <1>0. /\ cancelled \in BOOLEAN /\ kpid \in 0..pid /\ child_pid \in 0..pid
        /\ cpc \in {"idle", "load", "kill", "signal", "done"} /\ pid \in Nat
    BY DEF IndInv, TypeOK, SpawnerTypeOK
  <1>1. pid' \in Nat /\ pid' >= pid
    BY SpawnerTypes DEF SpawnerTypeOK
  <1>2. CASE UNCHANGED canceller
    BY <1>0, <1>1, <1>2 DEF canceller
  <1>3. CASE SetCancelled \/ LoadRunner \/ SignalGroup
    <2>1. kpid' = kpid
      BY <1>3 DEF SetCancelled, LoadRunner, SignalGroup
    <2>2. kpid' \in 0..pid'
      BY <1>0, <1>1, <2>1
    <2>3. CASE SetCancelled
      BY <1>0, <2>2, <2>3 DEF SetCancelled
    <2>4. CASE LoadRunner \/ SignalGroup
      BY <1>0, <2>2, <2>4 DEF LoadRunner, SignalGroup
    <2> QED BY <1>3, <2>3, <2>4
  <1>4. CASE LoadPid
    <2>1. kpid' = IF user = "step" THEN child_pid ELSE 0
      BY <1>4 DEF LoadPid
    <2>2. kpid' \in 0..pid'
      BY <1>0, <1>1, <2>1
    <2> QED BY <1>0, <1>4, <2>2 DEF LoadPid
  <1>5. CASE ExecuteStep
    <2>1. CASE ParseFails \/ SetupThrows \/ Setup \/ JobIf \/ EvaluationHangs \/ CallAction
      BY <1>2, <2>1 DEF ParseFails, SetupThrows, Setup, JobIf, EvaluationHangs, CallAction
    <2>2. CASE LoopTop \/ StepSkipped \/ StepEmpty \/ DispatchThrows
      BY <1>2, <2>2 DEF LoopTop, StepSkipped, StepEmpty, DispatchThrows
    <2>3. CASE StartScript \/ StartAction \/ ScriptReturned \/ ScriptThrew
      BY <1>2, <2>3 DEF StartScript, StartAction, ScriptReturned, ScriptThrew
    <2>4. CASE ActionWithoutProcess \/ ActionReturned \/ ActionThrew \/ Collect \/ Record
      BY <1>2, <2>4 DEF ActionWithoutProcess, ActionReturned, ActionThrew, Collect, Record
    <2>5. CASE StartPost \/ PostEnds \/ JobOutcome
      BY <1>2, <2>5 DEF StartPost, PostEnds, JobOutcome
    <2>6. CASE FinishJob \/ ClearRunner \/ ReportEnd \/ Unwind
      BY <1>2, <2>6 DEF FinishJob, ClearRunner, ReportEnd, Unwind
    <2> QED BY <1>5, <2>1, <2>2, <2>3, <2>4, <2>5, <2>6 DEF ExecuteStep, StepOperation
  <1>6. CASE FetchEnds \/ LeaveBehind \/ \E k \in lingering \cup {i} : WriteOutput(k)
    BY <1>2, <1>6 DEF FetchEnds, LeaveBehind, WriteOutput
  <1>7. CASE ProcessStep \/ RunnerStep
    BY <1>2, <1>7 DEF ProcessStep, RunnerStep
  <1>8. CASE UNCHANGED vars
    BY <1>2, <1>8 DEF vars
  <1> QED BY <1>3, <1>4, <1>5, <1>6, <1>7, <1>8, NextCases

\* What the executor's own variables are.
ExecutorTypes ==
  /\ job \in Job /\ i \in 0..(Len(job.steps) + 1)
  /\ epc \in {"parse", "jobIf", "loop", "dispatch", "fetch", "action", "step",
              "collect", "record", "looping", "post", "postRun", "finish", "clear", "report",
              "unwind", "returned", "threw"}
  /\ overall_success \in BOOLEAN /\ step_result \in BOOLEAN
  /\ active \in BOOLEAN /\ workspace \in BOOLEAN
  /\ user \in {"none", "step", "action", "post"}
  /\ log \in {"none", "open", "finished"}
  /\ post_queue \in Seq(Nat) /\ posts_run \in Seq(Nat)
  /\ results \in Seq(BOOLEAN) /\ reports \in Seq(Reports)
  /\ outputs \in Seq(SUBSET Nat) /\ output_file \subseteq Nat
  /\ step_outputs \subseteq Nat /\ lingering \subseteq Nat

\* The job's steps and what is reported.
LEMMA JobIs ==
  ASSUME TypeOK
  PROVE  /\ job.steps \in Seq(StepKind) /\ Len(job.steps) \in Nat
         /\ job.continue_on_error \in BOOLEAN
         /\ i \in Nat /\ i <= Len(job.steps) + 1
  <1>1. job \in [steps : Seq(StepKind), continue_on_error : BOOLEAN]
    BY JobAssumption DEF TypeOK
  <1>2. job.steps \in Seq(StepKind)
    BY <1>1
  <1>3. Len(job.steps) \in Nat /\ i \in 0..(Len(job.steps) + 1)
    BY <1>2, LenProperties DEF TypeOK
  <1> QED BY <1>1, <1>2, <1>3

LEMMA ReportsAre ==
  ASSUME NEW n \in Nat, NEW b
  PROVE  /\ Start \in Reports /\ Progress(n) \in Reports /\ EndReport(b, n) \in Reports
         /\ Start.kind = "start" /\ Progress(n).kind = "step" /\ EndReport(b, n).kind = "end"
  BY DEF Start, Progress, EndReport, Reports

\* A sequence of two.
LEMMA PairIs == ASSUME NEW S, NEW a \in S, NEW b \in S PROVE <<a, b>> \in Seq(S)
  OBVIOUS

\* The executor's steps keep the types of its variables.
LEMMA ExecutorTypesStep == ASSUME IndInv, [Next]_vars PROVE ExecutorTypes'
  <1>0. ExecutorTypes
    BY DEF IndInv, TypeOK, ExecutorTypes
  <1>j. /\ Len(job.steps) \in Nat /\ job.continue_on_error \in BOOLEAN
        /\ i \in Nat /\ i <= Len(job.steps) + 1
    BY JobIs DEF IndInv
  <1>l. Len(results) \in Nat
    BY <1>0, LenProperties DEF ExecutorTypes
  <1>s. InLoop /\ epc # "loop" =>
          /\ i \in 1..Len(job.steps)
          /\ Step.continue_on_error \in BOOLEAN /\ Step.post \in BOOLEAN
    BY StepUnderWay DEF IndInv
  <1> USE DEF books, files, Report
  <1>1. CASE ParseFails
    <2>1. Start \in Reports /\ EndReport(FALSE, 0) \in Reports
      BY ReportsAre
    <2>2. reports' \in Seq(Reports)
      BY <1>1, <2>1, PairIs DEF ParseFails
    <2> QED BY <1>0, <1>1, <2>2 DEF ParseFails, ExecutorTypes
  <1>2. CASE SetupThrows
    BY <1>0, <1>2 DEF SetupThrows, ExecutorTypes
  <1>3. CASE Setup
    <2>1. reports' \in Seq(Reports)
      <3>1. Start \in Reports /\ reports \in Seq(Reports)
        BY <1>0, ReportsAre DEF ExecutorTypes
      <3> QED BY <1>3, <3>1, AppendProperties DEF Setup
    <2> QED BY <1>0, <1>3, <2>1 DEF Setup, ExecutorTypes
  <1>4. CASE JobIf
    <2>1. i' \in 0..(Len(job.steps) + 1)
      BY <1>0, <1>4, <1>j DEF JobIf
    <2> QED BY <1>0, <1>4, <2>1 DEF JobIf, ExecutorTypes
  <1>5. CASE LoopTop
    BY <1>0, <1>5 DEF LoopTop, ExecutorTypes
  <1>6. CASE StepSkipped
    <2>1. outputs' \in Seq(SUBSET Nat)
      BY <1>0, <1>6 DEF StepSkipped, ExecutorTypes
    <2> QED BY <1>0, <1>6, <2>1 DEF StepSkipped, ExecutorTypes
  <1>7. CASE StepEmpty
    BY <1>0, <1>7 DEF StepEmpty, ExecutorTypes
  <1>8. CASE DispatchThrows
    BY <1>0, <1>8 DEF DispatchThrows, ExecutorTypes
  <1>9. CASE StartScript
    BY <1>0, <1>9 DEF StartScript, ExecutorTypes
  <1>10. CASE ScriptReturned
    <2>1. step_result' \in BOOLEAN
      BY <1>10 DEF ScriptReturned
    <2> QED BY <1>0, <1>10, <2>1 DEF ScriptReturned, ExecutorTypes
  <1>11. CASE ScriptThrew
    BY <1>0, <1>11 DEF ScriptThrew, ExecutorTypes
  <1>12. CASE ActionWithoutProcess
    <2>2. post_queue' \in Seq(Nat)
      <3>1. post_queue' = post_queue \/ post_queue' = Append(post_queue, i)
        BY <1>12 DEF ActionWithoutProcess
      <3>2. post_queue \in Seq(Nat) /\ Append(post_queue, i) \in Seq(Nat)
        BY <1>0, <1>j, AppendProperties DEF ExecutorTypes
      <3> QED BY <3>1, <3>2
    <2>3. step_result' \in BOOLEAN
      BY <1>12, <1>s DEF ActionWithoutProcess, InLoop
    <2> QED BY <1>0, <1>12, <2>2, <2>3 DEF ActionWithoutProcess, ExecutorTypes
  <1>13. CASE StartAction
    BY <1>0, <1>13 DEF StartAction, ExecutorTypes
  <1>14. CASE ActionReturned
    <2>1. step_result' \in BOOLEAN
      BY <1>14 DEF ActionReturned
    <2>2. post_queue' \in Seq(Nat)
      BY <1>0, <1>14, <1>j DEF ActionReturned, ExecutorTypes
    <2> QED BY <1>0, <1>14, <2>1, <2>2 DEF ActionReturned, ExecutorTypes
  <1>15. CASE ActionThrew
    <2>2. step_result' \in BOOLEAN
      BY <1>15, <1>s DEF ActionThrew, InLoop
    <2> QED BY <1>0, <1>15, <2>2 DEF ActionThrew, ExecutorTypes
  <1>16. CASE Collect
    <2>1. step_outputs \cup output_file \in SUBSET Nat
      BY <1>0 DEF ExecutorTypes
    <2>2. outputs' \in Seq(SUBSET Nat)
      BY <1>0, <1>16, <2>1, AppendProperties DEF Collect, ExecutorTypes
    <2> QED BY <1>0, <1>16, <2>2 DEF Collect, ExecutorTypes
  <1>17. CASE Record
    <2>1. results' \in Seq(BOOLEAN)
      BY <1>0, <1>17 DEF Record, ExecutorTypes
    <2>2. reports' \in Seq(Reports)
      <3>1. Progress(Len(results) + 1) \in Reports
        BY <1>l, ReportsAre
      <3> QED BY <1>0, <1>17, <3>1 DEF Record, ExecutorTypes
    <2>3. i' \in 0..(Len(job.steps) + 1)
      BY <1>17, <1>j, <1>s DEF Record, InLoop
    <2> QED BY <1>0, <1>17, <2>1, <2>2, <2>3 DEF Record, ExecutorTypes
  <1>18. CASE StartPost
    <2>1. post_queue \in Seq(Nat) /\ post_queue # <<>> /\ posts_run \in Seq(Nat)
      BY <1>0, <1>18 DEF StartPost, ExecutorTypes
    <2>2. Front(post_queue) \in Seq(Nat) /\ Last(post_queue) \in Nat
      <3>1. Len(post_queue) \in Nat /\ Len(post_queue) # 0
        BY <2>1, LenProperties, EmptySeq
      <3>2. Len(post_queue) \in 1..Len(post_queue)
        BY <3>1
      <3>3. Last(post_queue) \in Nat
        BY <2>1, <3>2, ElementOfSeq DEF Last
      <3>4. SubSeq(post_queue, 1, Len(post_queue) - 1) \in Seq(Nat)
        BY <2>1, <3>1
      <3> QED BY <3>3, <3>4 DEF Front
    <2>3. posts_run' \in Seq(Nat) /\ post_queue' \in Seq(Nat)
      BY <1>18, <2>1, <2>2 DEF StartPost
    <2> QED BY <1>0, <1>18, <2>3 DEF StartPost, ExecutorTypes
  <1>19. CASE PostEnds
    BY <1>0, <1>19 DEF PostEnds, ExecutorTypes
  <1>20. CASE JobOutcome
    <2>1. overall_success' \in BOOLEAN
      BY <1>20, Zenon DEF JobOutcome
    <2> QED BY <1>0, <1>20, <2>1 DEF JobOutcome, ExecutorTypes
  <1>21. CASE FinishJob \/ ClearRunner
    BY <1>0, <1>21 DEF FinishJob, ClearRunner, ExecutorTypes
  <1>22. CASE ReportEnd
    <2>1. reports' \in Seq(Reports)
      <3>1. EndReport(overall_success, Len(results)) \in Reports
        BY <1>l, ReportsAre
      <3> QED BY <1>0, <1>22, <3>1 DEF ReportEnd, ExecutorTypes
    <2> QED BY <1>0, <1>22, <2>1 DEF ReportEnd, ExecutorTypes
  <1>23. CASE Unwind
    BY <1>0, <1>23 DEF Unwind, ExecutorTypes
  <1>24. ASSUME NEW k \in lingering \cup {i}, WriteOutput(k) PROVE ExecutorTypes'
    <2>1. output_file' \subseteq Nat
      BY <1>0, <1>24, <1>j DEF WriteOutput, ExecutorTypes
    <2> QED BY <1>0, <1>24, <2>1 DEF WriteOutput, ExecutorTypes
  <1>26. CASE LeaveBehind
    <2>1. lingering' \subseteq Nat
      BY <1>0, <1>26, <1>j DEF LeaveBehind, ExecutorTypes
    <2> QED BY <1>0, <1>26, <2>1 DEF LeaveBehind, ExecutorTypes
  <1>27. CASE CallAction \/ FetchEnds \/ EvaluationHangs
    BY <1>0, <1>27 DEF CallAction, FetchEnds, EvaluationHangs, ExecutorTypes
  <1>25. CASE UNCHANGED execution
    BY <1>0, <1>25 DEF execution, ExecutorTypes
  <1> QED
    BY <1>1, <1>2, <1>3, <1>4, <1>5, <1>6, <1>7, <1>8, <1>9, <1>10, <1>11, <1>12, <1>13,
       <1>14, <1>15, <1>16, <1>17, <1>18, <1>19, <1>20, <1>21, <1>22, <1>23, <1>24,
       <1>25, <1>26, <1>27, ExecutionCases

\* Every step keeps the types.
LEMMA TypeStep == ASSUME IndInv, [Next]_vars PROVE TypeOK'
  BY SpawnerTypes, CancellerTypes, ExecutorTypesStep DEF TypeOK, ExecutorTypes

-----------------------------------------------------------------------------
(* Reports and cleaning up *)

\* A sequence with one more element.
LEMMA AppendIs ==
  ASSUME NEW S, NEW q \in Seq(S), NEW e \in S
  PROVE  /\ Append(q, e) \in Seq(S) /\ Len(Append(q, e)) = Len(q) + 1 /\ Len(q) \in Nat
         /\ \A k \in 1..Len(q) : Append(q, e)[k] = q[k]
         /\ Append(q, e)[Len(q) + 1] = e
         /\ 1..Len(Append(q, e)) = 1..Len(q) \cup {Len(q) + 1}
  <1>1. Append(q, e) \in Seq(S) /\ Len(Append(q, e)) = Len(q) + 1 /\ Len(q) \in Nat
    BY AppendProperties, LenProperties
  <1>2. /\ \A k \in 1..Len(q) : Append(q, e)[k] = q[k]
        /\ Append(q, e)[Len(q) + 1] = e
    BY AppendProperties
  <1>3. 1..(Len(q) + 1) = 1..Len(q) \cup {Len(q) + 1}
    BY <1>1
  <1> QED BY <1>1, <1>2, <1>3

\* The reports are in their order.
LEMMA ReportedStep == ASSUME IndInv, [Next]_vars PROVE Reported'
  <1> USE DEF Report
  <1>0. Reported /\ reports \in Seq(Reports) /\ Len(results) \in Nat /\ Len(reports) \in Nat
    BY LenProperties DEF IndInv, TypeOK
  <1> DEFINE Quiet == /\ UNCHANGED reports
                      /\ epc \notin {"parse", "threw", "returned"}
                      /\ epc' \notin {"parse", "returned"}
  <1>1. ASSUME Quiet PROVE Reported'
    BY <1>0, <1>1 DEF Reported
  <1>2. CASE ParseFails
    <2>1. Start.kind = "start" /\ EndReport(FALSE, 0).kind = "end"
      BY ReportsAre
    <2>2. reports' = <<Start, EndReport(FALSE, 0)>> /\ epc' = "returned"
      BY <1>2 DEF ParseFails
    <2>3. /\ Len(reports') = 2 /\ reports' # <<>>
          /\ reports'[1].kind = "start" /\ reports'[2].kind = "end"
      BY <2>1, <2>2
    <2>4. \A k \in 1..Len(reports') : k = 1 \/ k = 2
      BY <2>3
    <2> QED BY <2>2, <2>3, <2>4 DEF Reported
  <1>3. CASE SetupThrows
    BY <1>0, <1>3 DEF SetupThrows, Reported
  <1>4. CASE Setup
    <2>1. Start \in Reports /\ Start.kind = "start"
      BY ReportsAre
    <2>2. reports' = Append(reports, Start) /\ reports = <<>> /\ epc' = "jobIf"
      BY <1>0, <1>4 DEF Setup, Reported
    <2>3. Len(reports') = 1 /\ reports'[1].kind = "start" /\ reports' # <<>>
      BY <2>1, <2>2
    <2>4. \A k \in 1..Len(reports') : k = 1
      BY <2>3
    <2> QED BY <2>2, <2>3, <2>4 DEF Reported
  <1>5. ASSUME NEW r \in Reports, r.kind # "start", reports' = Append(reports, r),
               epc \notin {"parse", "threw", "returned"},
               \/ r.kind # "end" /\ epc' \notin {"parse", "returned"}
               \/ r.kind = "end" /\ epc' = "returned"
        PROVE  Reported'
    <2>1. /\ Len(reports') = Len(reports) + 1 /\ reports'[Len(reports) + 1] = r
          /\ \A k \in 1..Len(reports) : reports'[k] = reports[k]
          /\ 1..Len(reports') = 1..Len(reports) \cup {Len(reports) + 1}
      BY <1>0, <1>5, AppendIs
    <2>2. reports # <<>> /\ Len(reports) >= 1
      BY <1>0, <1>5, EmptySeq DEF Reported
    <2>3. Len(reports) + 1 # 1 /\ reports' # <<>>
      BY <1>0, <2>1, <2>2
    <2>4. \A k \in 1..Len(reports) : reports[k].kind # "end"
      BY <1>0, <1>5 DEF Reported
    <2>5. \A k \in 1..Len(reports') : reports'[k].kind = "start" <=> k = 1
      BY <1>0, <1>5, <2>1, <2>3 DEF Reported
    <2>6. \A k \in 1..Len(reports') :
            reports'[k].kind = "end" => k = Len(reports') /\ epc' = "returned"
      BY <1>5, <2>1, <2>4
    <2> QED BY <1>5, <2>1, <2>3, <2>5, <2>6 DEF Reported
  <1>6. CASE Record
    <2>1. /\ reports' = Append(reports, Progress(Len(results) + 1))
          /\ epc = "record" /\ epc' \in {"post", "loop"}
      BY <1>6 DEF Record
    <2>2. Progress(Len(results) + 1) \in Reports /\ Progress(Len(results) + 1).kind = "step"
      BY <1>0, ReportsAre
    <2> QED BY <1>5, <2>1, <2>2
  <1>7. CASE ReportEnd
    <2>1. /\ reports' = Append(reports, EndReport(overall_success, Len(results)))
          /\ epc = "report" /\ epc' = "returned"
      BY <1>7 DEF ReportEnd
    <2>2. /\ EndReport(overall_success, Len(results)) \in Reports
          /\ EndReport(overall_success, Len(results)).kind = "end"
      BY <1>0, ReportsAre
    <2> QED BY <1>5, <2>1, <2>2
  <1>8. ASSUME JobIf \/ LoopTop \/ StepSkipped \/ StepEmpty \/ DispatchThrows PROVE Quiet
    BY <1>8 DEF JobIf, LoopTop, StepSkipped, StepEmpty, DispatchThrows
  <1>9. ASSUME StartScript \/ ScriptReturned \/ ScriptThrew \/ ActionWithoutProcess PROVE Quiet
    BY <1>9 DEF StartScript, ScriptReturned, ScriptThrew, ActionWithoutProcess
  <1>10. ASSUME StartAction \/ ActionReturned \/ ActionThrew \/ Collect PROVE Quiet
    BY <1>10 DEF StartAction, ActionReturned, ActionThrew, Collect
  <1>11. ASSUME StartPost \/ PostEnds \/ JobOutcome PROVE Quiet
    BY <1>11 DEF StartPost, PostEnds, JobOutcome
  <1>14. ASSUME CallAction \/ FetchEnds \/ EvaluationHangs \/ LeaveBehind
         PROVE  Quiet
    BY <1>14 DEF CallAction, FetchEnds, EvaluationHangs, LeaveBehind, StepAlive
  <1>15. ASSUME NEW k \in lingering \cup {i}, WriteOutput(k) PROVE Quiet
    BY <1>15 DEF WriteOutput, StepAlive
  <1>12. ASSUME FinishJob \/ ClearRunner \/ Unwind PROVE Quiet
    BY <1>12 DEF FinishJob, ClearRunner, Unwind
  <1>13. CASE UNCHANGED execution
    BY <1>0, <1>13 DEF execution, Reported
  <1> HIDE DEF Quiet
  <1> QED
    BY <1>1, <1>2, <1>3, <1>4, <1>6, <1>7, <1>8, <1>9, <1>10, <1>11, <1>12, <1>13,
       <1>14, <1>15, ExecutionCases

\* What is set up is cleared before the end is reported.
LEMMA ClearedStep == ASSUME IndInv, [Next]_vars PROVE Cleared'
  <1> USE DEF books, files
  <1>0. Cleared
    BY DEF IndInv
  <1>1. CASE ParseFails
    BY <1>0, <1>1 DEF ParseFails, Cleared
  <1>13. CASE SetupThrows \/ Setup
    BY <1>0, <1>13 DEF SetupThrows, Setup, Cleared
  <1>2. CASE JobIf
    BY <1>0, <1>2 DEF JobIf, Cleared
  <1>3. ASSUME epc' \in {"loop", "dispatch", "fetch", "action", "step", "collect", "record",
                         "looping", "post", "postRun", "unwind", "threw"}
        PROVE  Cleared'
    BY <1>3 DEF Cleared
  <1>4. CASE LoopTop \/ StepSkipped \/ StepEmpty \/ DispatchThrows
    BY <1>3, <1>4 DEF LoopTop, StepSkipped, StepEmpty, DispatchThrows
  <1>5. CASE StartScript \/ ScriptReturned \/ ScriptThrew \/ ActionWithoutProcess
    BY <1>3, <1>5 DEF StartScript, ScriptReturned, ScriptThrew, ActionWithoutProcess
  <1>6. CASE StartAction \/ ActionReturned \/ ActionThrew \/ Collect \/ Record
    BY <1>3, <1>6 DEF StartAction, ActionReturned, ActionThrew, Collect, Record
  <1>7. CASE StartPost \/ PostEnds \/ Unwind
    BY <1>3, <1>7 DEF StartPost, PostEnds, Unwind
  <1>14. CASE CallAction \/ FetchEnds \/ EvaluationHangs \/ LeaveBehind
    BY <1>3, <1>14 DEF CallAction, FetchEnds, EvaluationHangs, LeaveBehind, StepAlive
  <1>15. ASSUME NEW k \in lingering \cup {i}, WriteOutput(k) PROVE Cleared'
    BY <1>3, <1>15 DEF WriteOutput, StepAlive
  <1>8. CASE JobOutcome
    BY <1>8 DEF JobOutcome, Cleared
  <1>9. CASE FinishJob
    BY <1>0, <1>9 DEF FinishJob, Cleared
  <1>10. CASE ClearRunner
    BY <1>0, <1>10 DEF ClearRunner, Cleared
  <1>11. CASE ReportEnd
    BY <1>0, <1>11 DEF ReportEnd, Cleared
  <1>12. CASE UNCHANGED execution
    BY <1>0, <1>12 DEF execution, Cleared
  <1> QED
    BY <1>1, <1>2, <1>4, <1>5, <1>6, <1>7, <1>8, <1>9, <1>10, <1>11, <1>12, <1>13,
       <1>14, <1>15, ExecutionCases

-----------------------------------------------------------------------------
(* Outputs *)

\* The file holds what the step under way is owed when it is collected, and is
\* empty before the next one starts.
LEMMA AttributedStep == ASSUME IndInv, [Next]_vars PROVE Attributed'
  <1> USE DEF books, files
  <1>0. /\ Attributed /\ outputs \in Seq(SUBSET Nat) /\ Len(outputs) \in Nat
        /\ output_file \subseteq Nat /\ step_outputs \subseteq Nat /\ lingering \subseteq Nat
    BY LenProperties DEF IndInv, TypeOK
  <1>j. i \in Nat /\ (InLoop => i >= 1)
    BY JobIs DEF IndInv, Counted
  <1>a. ASSUME epc = "dispatch" \/ epc = "collect", epc' = "record",
               NEW w \in SUBSET Nat, \A l \in w : Owed(i, l),
               outputs' = Append(outputs, w), i' = i, lingering' = lingering,
               output_file' = {}
        PROVE  Attributed'
    <2>1. /\ Len(outputs') = Len(outputs) + 1 /\ outputs'[Len(outputs) + 1] = w
          /\ \A k \in 1..Len(outputs) : outputs'[k] = outputs[k]
          /\ 1..Len(outputs') = 1..Len(outputs) \cup {Len(outputs) + 1}
      BY <1>0, <1>a, AppendIs
    <2>2. Len(outputs) = i - 1 /\ \A l \in lingering : l <= i
      BY <1>0, <1>a DEF Attributed, InLoop
    <2>3. Len(outputs) + 1 = i /\ Len(outputs') = i'
      BY <1>a, <1>j, <2>1, <2>2
    <2>4. \A k \in 1..Len(outputs) : \A l \in outputs[k] : Owed(k, l)
      BY <1>0 DEF Attributed
    <2>5. \A k \in 1..Len(outputs') : \A l \in outputs'[k] : Owed(k, l)
      BY <1>a, <2>1, <2>3, <2>4
    <2>6. \A k \in 1..Len(outputs') : \A l \in outputs'[k] : Owed(k, l)'
      BY <1>a, <2>5 DEF Owed
    <2> QED BY <1>a, <2>2, <2>3, <2>6 DEF Attributed, InLoop
  <1>b. ASSUME UNCHANGED <<outputs, lingering>>,
               epc' \in {"post", "postRun", "finish", "clear", "report", "unwind", "returned",
                         "threw", "looping"}
        PROVE  Attributed'
    BY <1>0, <1>b DEF Attributed, InLoop, Owed
  <1>c. ASSUME UNCHANGED <<outputs, output_file, step_outputs, lingering, i>>,
               epc \in {"loop", "dispatch", "fetch", "action"},
               epc' \in {"dispatch", "fetch", "action", "step"}
        PROVE  Attributed'
    BY <1>0, <1>c DEF Attributed, InLoop, Owed
  <1>d. ASSUME UNCHANGED <<outputs, lingering, i>>, epc \in {"dispatch", "action", "step"},
               epc' = "collect", output_file' \subseteq output_file,
               step_outputs' \subseteq output_file
        PROVE  Attributed'
    BY <1>0, <1>d DEF Attributed, InLoop, Owed
  <1>1. CASE ParseFails \/ SetupThrows
    BY <1>b, <1>1 DEF ParseFails, SetupThrows
  <1>2. CASE Setup
    BY <1>0, <1>2 DEF Setup, Attributed, InLoop
  <1>3. CASE JobIf
    <2>1. outputs' = <<>> /\ output_file' = {} /\ Len(outputs') = 0 /\ lingering' = {}
      BY <1>0, <1>3 DEF JobIf, Attributed
    <2>2. \A k \in 1..0 : FALSE
      OBVIOUS
    <2>3. epc' = "finish" \/ (epc' = "loop" /\ i' = 1)
      BY <1>3 DEF JobIf
    <2> QED BY <2>1, <2>2, <2>3 DEF Attributed, InLoop
  <1>4. CASE LoopTop
    <2>1. /\ epc = "loop" /\ epc' \in {"post", "dispatch"}
          /\ UNCHANGED <<outputs, output_file, step_outputs, lingering, i>>
      BY <1>4 DEF LoopTop
    <2> QED BY <1>b, <1>c, <2>1
  <1>5. CASE StepSkipped
    <2>1. /\ outputs' = Append(outputs, {}) /\ epc = "dispatch" /\ epc' = "record" /\ i' = i
          /\ output_file' = {} /\ lingering' = lingering
      BY <1>0, <1>5 DEF StepSkipped, Attributed
    <2>2. {} \in SUBSET Nat /\ \A l \in {} : Owed(i, l)
      OBVIOUS
    <2> QED BY <1>a, <2>1, <2>2
  <1>6. CASE CallAction \/ FetchEnds \/ StartScript \/ StartAction
    BY <1>c, <1>6 DEF CallAction, FetchEnds, StartScript, StartAction
  <1>7. CASE StepEmpty \/ ActionWithoutProcess
    BY <1>d, <1>7 DEF StepEmpty, ActionWithoutProcess
  <1>8. CASE ScriptReturned \/ ActionReturned \/ ActionThrew
    BY <1>d, <1>8 DEF ScriptReturned, ActionReturned, ActionThrew
  <1>9. CASE LeaveBehind
    <2>1. /\ epc = "step" /\ epc' = "step" /\ lingering' = lingering \cup {i}
          /\ UNCHANGED <<outputs, output_file, step_outputs, i>>
      BY <1>9 DEF LeaveBehind, StepAlive
    <2> QED BY <1>0, <1>j, <2>1 DEF Attributed, InLoop, Owed
  <1>10. ASSUME NEW k \in lingering \cup {i}, WriteOutput(k) PROVE Attributed'
    <2>1. /\ epc \in {"step", "collect"} /\ epc' = epc /\ output_file' = output_file \cup {k}
          /\ UNCHANGED <<outputs, lingering, step_outputs, i>>
      BY <1>10 DEF WriteOutput, StepAlive
    <2>2. k \in Nat /\ k <= i
      BY <1>0, <1>j, <2>1 DEF Attributed, InLoop
    <2>3. Owed(i, k)
      BY <1>j, <2>2 DEF Owed
    <2> QED BY <1>0, <2>1, <2>3 DEF Attributed, InLoop, Owed
  <1>11. CASE Collect
    <2>1. /\ outputs' = Append(outputs, step_outputs \cup output_file)
          /\ epc = "collect" /\ epc' = "record" /\ i' = i
          /\ output_file' = {} /\ lingering' = lingering
      BY <1>11 DEF Collect
    <2>2. \A l \in step_outputs \cup output_file : Owed(i, l)
      BY <1>0, <2>1 DEF Attributed
    <2>3. step_outputs \cup output_file \in SUBSET Nat
      BY <1>0
    <2> QED BY <1>a, <2>1, <2>2, <2>3
  <1>12. CASE Record
    <2>1. /\ UNCHANGED <<outputs, lingering>> /\ output_file' = {} /\ Len(outputs) = i
          /\ epc = "record" /\ (epc' = "post" \/ (epc' = "loop" /\ i' = i + 1))
      BY <1>0, <1>12 DEF Record, Attributed
    <2>2. i + 1 - 1 = i /\ \A l \in lingering : l <= i + 1
      BY <1>0, <1>j, <2>1 DEF Attributed, InLoop
    <2> QED BY <1>0, <2>1, <2>2 DEF Attributed, InLoop, Owed
  <1>13. CASE DispatchThrows \/ ScriptThrew \/ EvaluationHangs
    BY <1>b, <1>13 DEF DispatchThrows, ScriptThrew, EvaluationHangs
  <1>14. CASE StartPost \/ PostEnds \/ JobOutcome
    BY <1>b, <1>14 DEF StartPost, PostEnds, JobOutcome
  <1>15. CASE FinishJob \/ ClearRunner \/ ReportEnd \/ Unwind
    BY <1>b, <1>15 DEF FinishJob, ClearRunner, ReportEnd, Unwind
  <1>16. CASE UNCHANGED execution
    BY <1>0, <1>16 DEF execution, Attributed, InLoop, Owed
  <1> QED
    BY <1>1, <1>2, <1>3, <1>4, <1>5, <1>6, <1>7, <1>8, <1>9, <1>10, <1>11, <1>12, <1>13,
       <1>14, <1>15, <1>16, ExecutionCases

\* An output is its step's, or that of a step that left a process behind.
LEMMA OutputsAreTheirs == ASSUME IndInv PROVE OutputsAttributed
  <1>1. DOMAIN outputs = 1..Len(outputs)
    BY LenProperties DEF IndInv, TypeOK
  <1> QED BY <1>1 DEF IndInv, Attributed, OutputsAttributed, Owed

-----------------------------------------------------------------------------
(* The result *)

\* The steps that are recorded count.
LEMMA CountedStep == ASSUME IndInv, [Next]_vars PROVE Counted'
  <1> USE DEF books, files
  <1>0. Counted /\ results \in Seq(BOOLEAN) /\ Len(results) \in Nat
    BY LenProperties DEF IndInv, TypeOK
  <1>j. /\ Len(job.steps) \in Nat /\ job.continue_on_error \in BOOLEAN
        /\ i \in Nat /\ i <= Len(job.steps) + 1
        /\ step_result \in BOOLEAN /\ overall_success \in BOOLEAN
    BY JobIs DEF IndInv, TypeOK
  <1>a. ASSUME UNCHANGED <<job, i, results, overall_success>>,
               InLoop /\ epc # "loop", epc' \in {"fetch", "action", "step", "collect", "record"}
        PROVE  Counted'
    BY <1>0, <1>a DEF Counted, InLoop, Tolerated
  <1>b. ASSUME epc' \in {"unwind", "threw", "returned", "looping"} PROVE Counted'
    BY <1>b DEF Counted, InLoop
  <1>1. CASE ParseFails \/ SetupThrows
    BY <1>b, <1>1 DEF ParseFails, SetupThrows
  <1>2. CASE Setup
    BY <1>0, <1>2 DEF Setup, Counted, InLoop
  <1>3. CASE JobIf
    <2>1. results' = <<>> /\ Len(results') = 0 /\ overall_success' = TRUE /\ job' = job
      BY <1>0, <1>3, <1>j DEF JobIf, Counted
    <2>2. CASE epc' = "finish" /\ UNCHANGED <<active, i>>
      <3>1. i' = 0
        BY <1>0, <1>3, <2>2 DEF JobIf, Counted
      <3> QED BY <2>1, <2>2, <3>1 DEF Counted, InLoop
    <2>3. CASE epc' = "loop" /\ active' = TRUE /\ i' = 1
      BY <2>1, <2>3 DEF Counted, InLoop
    <2> QED BY <1>3, <2>2, <2>3 DEF JobIf
  <1>4. CASE LoopTop
    <2>1. /\ i >= 1 /\ Len(results) = i - 1 /\ overall_success
          /\ \A k \in 1..Len(results) : Tolerated(k)
          /\ UNCHANGED <<job, i, results>>
      BY <1>0, <1>4 DEF LoopTop, Counted, InLoop
    <2>2. WholeJob' <=> WholeJob
      BY <2>1 DEF WholeJob, Tolerated
    <2>3. CASE i > Len(job.steps) /\ epc' = "post" /\ UNCHANGED overall_success
      <3>1. Len(results) = Len(job.steps) /\ i # 0
        BY <1>j, <2>1, <2>3
      <3>2. WholeJob'
        BY <2>1, <2>2, <3>1 DEF WholeJob
      <3> QED BY <2>1, <2>3, <3>1, <3>2 DEF Counted, InLoop
    <2>4. CASE i <= Len(job.steps) /\ epc' = "post" /\ overall_success' = FALSE
      <3>1. Len(results) # Len(job.steps) /\ i # 0
        BY <1>j, <2>1, <2>4
      <3>2. ~WholeJob'
        BY <2>2, <3>1 DEF WholeJob
      <3> QED BY <2>1, <2>4, <3>1, <3>2 DEF Counted, InLoop
    <2>5. CASE i <= Len(job.steps) /\ epc' = "dispatch" /\ UNCHANGED overall_success
      BY <2>1, <2>5 DEF Counted, InLoop, Tolerated
    <2> QED BY <1>4, <2>3, <2>4, <2>5 DEF LoopTop
  <1>5. CASE StepSkipped \/ StepEmpty \/ ActionWithoutProcess
    BY <1>a, <1>5 DEF StepSkipped, StepEmpty, ActionWithoutProcess, InLoop
  <1>6. CASE StartScript \/ CallAction \/ FetchEnds \/ StartAction \/ LeaveBehind
    BY <1>a, <1>6 DEF StartScript, CallAction, FetchEnds, StartAction, LeaveBehind, StepAlive,
                      InLoop
  <1>15. ASSUME NEW k \in lingering \cup {i}, WriteOutput(k) PROVE Counted'
    BY <1>a, <1>15 DEF WriteOutput, StepAlive, InLoop
  <1>7. CASE ScriptReturned \/ ActionReturned \/ ActionThrew \/ Collect
    BY <1>a, <1>7 DEF ScriptReturned, ActionReturned, ActionThrew, Collect, InLoop
  <1>8. CASE DispatchThrows \/ ScriptThrew \/ ReportEnd \/ Unwind \/ EvaluationHangs
    BY <1>b, <1>8 DEF DispatchThrows, ScriptThrew, ReportEnd, Unwind, EvaluationHangs
  <1>9. CASE Record
    <2>1. /\ i >= 1 /\ Len(results) = i - 1 /\ overall_success /\ i <= Len(job.steps)
          /\ \A k \in 1..Len(results) : Tolerated(k)
          /\ results' = Append(results, step_result) /\ job' = job
      BY <1>0, <1>9 DEF Record, Counted, InLoop
    <2>2. /\ Len(results') = Len(results) + 1 /\ results'[Len(results) + 1] = step_result
          /\ \A k \in 1..Len(results) : results'[k] = results[k]
          /\ 1..Len(results') = 1..Len(results) \cup {Len(results) + 1}
      BY <1>0, <1>j, <2>1, AppendIs
    <2>3. Len(results) + 1 = i
      BY <1>0, <1>j, <2>1
    <2>4. \A k \in {Len(results) + 1} :
            Tolerated(k)' <=> (step_result \/ Step.continue_on_error)
      BY <2>1, <2>2, <2>3 DEF Tolerated, Step
    <2>5. \A k \in 1..Len(results) : Tolerated(k)'
      BY <2>1, <2>2 DEF Tolerated
    <2>6. CASE ~step_result /\ ~Step.continue_on_error
      <3>1. epc' = "post" /\ overall_success' = FALSE /\ i' = i
        BY <1>9, <2>6 DEF Record
      <3>2. ~WholeJob'
        BY <2>2, <2>3, <2>4, <2>6 DEF WholeJob
      <3>3. i # 0
        BY <2>1, <1>j
      <3> QED BY <3>1, <3>2, <3>3 DEF Counted, InLoop
    <2>7. CASE step_result \/ Step.continue_on_error
      <3>1. epc' = "loop" /\ overall_success' = overall_success /\ i' = i + 1
        BY <1>9, <2>7 DEF Record
      <3>2. \A k \in 1..Len(results') : Tolerated(k)'
        BY <2>2, <2>3, <2>4, <2>5, <2>7
      <3>3. Len(results') = i' - 1 /\ i' >= 1
        BY <1>j, <2>2, <2>3, <3>1
      <3> QED BY <2>1, <3>1, <3>2, <3>3 DEF Counted, InLoop
    <2> QED BY <2>6, <2>7
  <1>10. CASE StartPost
    <2>1. epc = "post" /\ epc' = "postRun" /\ UNCHANGED <<job, i, results, overall_success>>
      BY <1>10 DEF StartPost
    <2> QED BY <1>0, <2>1 DEF Counted, InLoop, WholeJob, Tolerated
  <1>11. CASE PostEnds
    <2>1. /\ epc = "postRun" /\ epc' \in {"post", "unwind"}
          /\ UNCHANGED <<job, i, results, overall_success>>
      BY <1>11 DEF PostEnds
    <2> QED BY <1>0, <2>1 DEF Counted, InLoop, WholeJob, Tolerated
  <1>12. CASE JobOutcome
    <2>1. /\ epc = "post" /\ epc' = "finish" /\ UNCHANGED <<job, i, results>>
          /\ overall_success' = (overall_success \/ job.continue_on_error)
      BY <1>12 DEF JobOutcome
    <2>2. i # 0 /\ (overall_success <=> WholeJob)
      BY <1>0, <2>1 DEF Counted
    <2>3. WholeJob' <=> WholeJob
      BY <2>1 DEF WholeJob, Tolerated
    <2>4. overall_success' <=> (i = 0 \/ WholeJob \/ job.continue_on_error)'
      BY <2>1, <2>2, <2>3
    <2> QED BY <2>1, <2>4 DEF Counted, InLoop
  <1>13. CASE FinishJob \/ ClearRunner
    <2>1. /\ epc \in {"finish", "clear"} /\ epc' \in {"clear", "report"}
          /\ UNCHANGED <<job, i, results, overall_success>>
      BY <1>13 DEF FinishJob, ClearRunner
    <2> QED BY <1>0, <2>1 DEF Counted, InLoop, WholeJob, Tolerated
  <1>14. CASE UNCHANGED execution
    BY <1>0, <1>14 DEF execution, Counted, InLoop, WholeJob, Tolerated
  <1> QED
    BY <1>1, <1>2, <1>3, <1>4, <1>5, <1>6, <1>7, <1>8, <1>9, <1>10, <1>11, <1>12, <1>13,
       <1>14, <1>15, ExecutionCases

\* The result that is reported follows from overall_success, unless the task
\* was cancelled.
LEMMA ResultStep == ASSUME IndInv, [Next]_vars PROVE ResultIsTrue'
  <1> USE DEF books, files, Report
  <1>a. ASSUME epc' # "returned" PROVE ResultIsTrue'
    BY <1>a DEF ResultIsTrue
  <1>1. CASE ParseFails
    <2>1. log' = "none"
      BY <1>1 DEF ParseFails, IndInv, Cleared
    <2> QED BY <2>1 DEF ResultIsTrue
  <1>2. CASE ReportEnd
    <2>1. /\ reports' = Append(reports, EndReport(overall_success, Len(results)))
          /\ UNCHANGED <<job, i, results>>
      BY <1>2 DEF ReportEnd
    <2>2. reports \in Seq(Reports) /\ Len(results) \in Nat /\ DOMAIN results = 1..Len(results)
      BY LenProperties DEF IndInv, TypeOK
    <2>3. EndReport(overall_success, Len(results)) \in Reports
      BY <2>2, ReportsAre
    <2>4. Last(reports') = EndReport(overall_success, Len(results))
      BY <2>1, <2>2, <2>3, AppendIs DEF Last
    <2>5. /\ Last(reports').result = "success" => overall_success
          /\ Last(reports').result = "failure" => ~overall_success
      BY <2>4 DEF EndReport
    <2>6. overall_success <=> (i = 0 \/ WholeJob \/ job.continue_on_error)
      BY <1>2 DEF ReportEnd, IndInv, Counted
    <2>7. (Len(results) = Len(job.steps) /\ \A k \in DOMAIN results : Tolerated(k))' <=> WholeJob
      BY <2>1, <2>2 DEF WholeJob, Tolerated
    <2> QED BY <2>1, <2>5, <2>6, <2>7 DEF ResultIsTrue
  <1>3. CASE SetupThrows \/ Setup \/ JobIf \/ LoopTop \/ StepSkipped \/ StepEmpty
    BY <1>a, <1>3 DEF SetupThrows, Setup, JobIf, LoopTop, StepSkipped, StepEmpty
  <1>4. CASE DispatchThrows \/ StartScript \/ ScriptReturned \/ ScriptThrew
    BY <1>a, <1>4 DEF DispatchThrows, StartScript, ScriptReturned, ScriptThrew
  <1>5. CASE ActionWithoutProcess \/ StartAction \/ ActionReturned \/ ActionThrew
    BY <1>a, <1>5 DEF ActionWithoutProcess, StartAction, ActionReturned, ActionThrew
  <1>6. CASE Collect \/ Record \/ StartPost \/ PostEnds \/ JobOutcome
    BY <1>a, <1>6 DEF Collect, Record, StartPost, PostEnds, JobOutcome
  <1>7. CASE FinishJob \/ ClearRunner \/ Unwind
    BY <1>a, <1>7 DEF FinishJob, ClearRunner, Unwind
  <1>9. CASE CallAction \/ FetchEnds \/ EvaluationHangs \/ LeaveBehind
    BY <1>a, <1>9 DEF CallAction, FetchEnds, EvaluationHangs, LeaveBehind, StepAlive
  <1>10. ASSUME NEW k \in lingering \cup {i}, WriteOutput(k) PROVE ResultIsTrue'
    BY <1>a, <1>10 DEF WriteOutput, StepAlive
  <1>8. CASE UNCHANGED execution
    BY <1>8 DEF execution, IndInv, ResultIsTrue, Tolerated
  <1> QED BY <1>1, <1>2, <1>3, <1>4, <1>5, <1>6, <1>7, <1>8, <1>9, <1>10, ExecutionCases

-----------------------------------------------------------------------------
(* Post scripts *)

\* Queueing the post script of the step under way.
LEMMA QueuedBy ==
  ASSUME IndInv, epc \in {"action", "step"}, epc' = "collect",
         post_queue' = Append(post_queue, i), UNCHANGED <<i, posts_run>>
  PROVE  Queued'
  <1>0. Queued /\ post_queue \in Seq(Nat) /\ posts_run = <<>>
    BY DEF IndInv, TypeOK, Queued, InLoop
  <1>j. i \in Nat
    BY JobIs DEF IndInv
  <1>1. /\ Len(post_queue) \in Nat
        /\ Len(post_queue') = Len(post_queue) + 1 /\ post_queue'[Len(post_queue) + 1] = i
        /\ \A k \in 1..Len(post_queue) : post_queue'[k] = post_queue[k]
        /\ 1..Len(post_queue') = 1..Len(post_queue) \cup {Len(post_queue) + 1}
    BY <1>0, <1>j, AppendIs
  <1>2. \A k \in 1..Len(post_queue) : post_queue[k] < i /\ post_queue[k] \in Nat
    BY <1>0, ElementOfSeq DEF Queued
  <1>3. \A k \in 1..Len(post_queue') : post_queue'[k] <= i
    BY <1>1, <1>2, <1>j
  <1>4. ASSUME NEW k \in 1..Len(post_queue'), NEW l \in 1..Len(post_queue'), k < l
        PROVE  post_queue'[k] < post_queue'[l]
    <2>1. k \in 1..Len(post_queue)
      BY <1>1, <1>4
    <2>2. CASE l = Len(post_queue) + 1
      BY <1>1, <1>2, <2>1, <2>2
    <2>3. CASE l \in 1..Len(post_queue)
      BY <1>0, <1>1, <1>4, <2>1, <2>3 DEF Queued
    <2> QED BY <1>1, <2>2, <2>3
  <1>5. Len(posts_run') = 0 /\ posts_run' = <<>>
    BY <1>0
  <1>6. \A k \in 1..Len(posts_run') : FALSE
    BY <1>5
  <1> QED BY <1>3, <1>4, <1>5, <1>6 DEF Queued, InLoop

\* A sequence without its last element.
LEMMA FrontIs ==
  ASSUME NEW S, NEW q \in Seq(S), NEW n \in Nat, n = Len(q), n >= 1
  PROVE  /\ Len(SubSeq(q, 1, n - 1)) = n - 1
         /\ \A k \in 1..(n - 1) : SubSeq(q, 1, n - 1)[k] = q[k]
  <1>1. \A k \in 1..(n - 1) : q[k] \in S
    <2>1. \A k \in 1..(n - 1) : k \in 1..Len(q)
      OBVIOUS
    <2> QED BY <2>1, ElementOfSeq
  <1>2. 1 \in Int /\ n - 1 \in Int /\ (n - 1) - 1 + 1 = n - 1
    OBVIOUS
  <1>3. /\ Len(SubSeq(q, 1, n - 1)) = IF 1 <= n - 1 THEN (n - 1) - 1 + 1 ELSE 0
        /\ \A k \in 1..((n - 1) - 1 + 1) : SubSeq(q, 1, n - 1)[k] = q[1 + k - 1]
    BY <1>1, <1>2, SubSeqProperties
  <1>4. \A k \in 1..(n - 1) : 1 + k - 1 = k
    OBVIOUS
  <1> QED BY <1>2, <1>3, <1>4

\* Taking the last post script from the queue.
LEMMA QueueTaken == ASSUME IndInv, StartPost PROVE Queued'
  <1>0. /\ Queued /\ post_queue \in Seq(Nat) /\ posts_run \in Seq(Nat) /\ post_queue # <<>>
        /\ post_queue' = SubSeq(post_queue, 1, Len(post_queue) - 1)
        /\ posts_run' = Append(posts_run, post_queue[Len(post_queue)])
        /\ epc' = "postRun"
    BY DEF IndInv, TypeOK, StartPost, Front, Last
  <1> DEFINE n == Len(post_queue)
             m == Len(posts_run)
  <1>1. n \in Nat /\ n >= 1 /\ m \in Nat
    BY <1>0, LenProperties, EmptySeq
  <1>2. \A k \in 1..n : post_queue[k] \in Nat
    BY <1>0, ElementOfSeq
  <1>2a. \A k \in 1..m : posts_run[k] \in Nat
    BY <1>0, ElementOfSeq
  <1>3. n \in 1..n /\ \A k \in 1..(n - 1) : k \in 1..n /\ k < n
    BY <1>1
  <1>4. Len(post_queue') = n - 1 /\ \A k \in 1..(n - 1) : post_queue'[k] = post_queue[k]
    BY <1>0, <1>1, FrontIs
  <1>5. /\ Len(posts_run') = m + 1 /\ posts_run'[m + 1] = post_queue[n]
        /\ \A k \in 1..m : posts_run'[k] = posts_run[k]
        /\ 1..Len(posts_run') = 1..m \cup {m + 1}
    BY <1>0, <1>2, <1>3, AppendIs
  <1>6. /\ \A k, l \in 1..n : k < l => post_queue[k] < post_queue[l]
        /\ \A k, l \in 1..m : k < l => posts_run[k] > posts_run[l]
        /\ \A k \in 1..m : \A l \in 1..n : posts_run[k] > post_queue[l]
    BY <1>0 DEF Queued
  <1> HIDE DEF n, m
  <1>7. \A k, l \in 1..Len(post_queue') : k < l => post_queue'[k] < post_queue'[l]
    BY <1>3, <1>4, <1>6
  <1>8. ASSUME NEW k \in 1..Len(posts_run'), NEW l \in 1..Len(posts_run'), k < l
        PROVE  posts_run'[k] > posts_run'[l]
    <2>1. k \in 1..m
      BY <1>1, <1>5, <1>8
    <2>2. CASE l = m + 1
      BY <1>3, <1>5, <1>6, <2>1, <2>2
    <2>3. CASE l \in 1..m
      BY <1>5, <1>6, <1>8, <2>1, <2>3
    <2> QED BY <1>5, <2>2, <2>3
  <1>9. ASSUME NEW k \in 1..Len(posts_run'), NEW l \in 1..Len(post_queue')
        PROVE  posts_run'[k] > post_queue'[l]
    <2>1. l \in 1..n /\ l < n /\ post_queue'[l] = post_queue[l]
      BY <1>3, <1>4
    <2>2. CASE k = m + 1
      <3>1. post_queue[l] < post_queue[n]
        BY <1>3, <1>6, <2>1
      <3> QED BY <1>2, <1>3, <1>5, <2>1, <2>2, <3>1
    <2>3. CASE k \in 1..m
      BY <1>5, <1>6, <2>1, <2>3
    <2> QED BY <1>5, <2>2, <2>3
  <1> QED BY <1>0, <1>7, <1>8, <1>9 DEF Queued, InLoop

\* The queue stays in the order of the steps.
LEMMA QueuedStep == ASSUME IndInv, [Next]_vars PROVE Queued'
  <1> USE DEF books, files
  <1>0. /\ Queued /\ post_queue \in Seq(Nat)
        /\ \A k \in 1..Len(post_queue) : post_queue[k] \in Nat
    BY ElementOfSeq DEF IndInv, TypeOK
  <1>j. i \in Nat
    BY JobIs DEF IndInv
  <1>a. ASSUME UNCHANGED <<post_queue, posts_run>>,
               epc' \in {"post", "postRun", "finish", "clear", "report", "unwind", "returned",
                         "threw", "looping"}
        PROVE  Queued'
    BY <1>0, <1>a DEF Queued, InLoop
  <1>b. ASSUME UNCHANGED <<post_queue, posts_run, i>>,
               epc \in {"dispatch", "fetch", "action", "step"},
               epc' \in {"fetch", "action", "step", "collect", "record"}
        PROVE  Queued'
    <2>1. \A k \in 1..Len(post_queue) : post_queue[k] < i /\ post_queue[k] <= i
      BY <1>0, <1>b, <1>j DEF Queued
    <2>2. posts_run = <<>>
      BY <1>0, <1>b DEF Queued, InLoop
    <2> QED BY <1>0, <1>b, <2>1, <2>2 DEF Queued
  <1>1. CASE ParseFails \/ SetupThrows
    BY <1>a, <1>1 DEF ParseFails, SetupThrows
  <1>2. CASE Setup
    BY <1>0, <1>2 DEF Setup, Queued, InLoop
  <1>3. CASE JobIf
    <2>1. post_queue = <<>> /\ Len(post_queue) = 0 /\ posts_run = <<>>
          /\ UNCHANGED <<post_queue, posts_run>>
      BY <1>0, <1>3 DEF JobIf, Queued, IndInv, Cleared
    <2>2. Len(posts_run') = 0 /\ Len(post_queue') = 0 /\ posts_run' = <<>>
      BY <2>1
    <2>3. \A k \in 1..0 : FALSE
      OBVIOUS
    <2> QED BY <2>2, <2>3 DEF Queued
  <1>4. CASE LoopTop
    BY <1>0, <1>4 DEF LoopTop, Queued, InLoop
  <1>5. CASE StepSkipped \/ StepEmpty
    BY <1>b, <1>5 DEF StepSkipped, StepEmpty
  <1>6. CASE ActionWithoutProcess
    <2>1. /\ epc = "action" /\ epc' = "collect" /\ UNCHANGED <<i, posts_run>>
          /\ (post_queue' = post_queue \/ post_queue' = Append(post_queue, i))
      BY <1>6 DEF ActionWithoutProcess
    <2>2. CASE post_queue' = post_queue
      BY <1>b, <2>1, <2>2
    <2>3. CASE post_queue' = Append(post_queue, i)
      BY <2>1, <2>3, QueuedBy
    <2> QED BY <2>1, <2>2, <2>3
  <1>7. CASE ActionReturned
    <2>1. /\ epc = "step" /\ epc' = "collect" /\ UNCHANGED <<i, posts_run>>
          /\ (post_queue' = post_queue \/ post_queue' = Append(post_queue, i))
      BY <1>7 DEF ActionReturned
    <2>2. CASE post_queue' = post_queue
      BY <1>b, <2>1, <2>2
    <2>3. CASE post_queue' = Append(post_queue, i)
      BY <2>1, <2>3, QueuedBy
    <2> QED BY <2>1, <2>2, <2>3
  <1>8. CASE StartScript \/ CallAction \/ FetchEnds \/ StartAction
    BY <1>b, <1>8 DEF StartScript, CallAction, FetchEnds, StartAction
  <1>9. CASE ScriptReturned \/ ActionThrew \/ LeaveBehind
    BY <1>b, <1>9 DEF ScriptReturned, ActionThrew, LeaveBehind, StepAlive
  <1>17. ASSUME NEW k \in lingering \cup {i}, WriteOutput(k) PROVE Queued'
    BY <1>0, <1>17 DEF WriteOutput, StepAlive, Queued, InLoop
  <1>10. CASE Collect
    BY <1>0, <1>10 DEF Collect, Queued, InLoop
  <1>11. CASE Record
    <2>1. /\ epc = "record" /\ UNCHANGED <<post_queue, posts_run>>
          /\ (epc' = "post" \/ (epc' = "loop" /\ i' = i + 1))
      BY <1>11 DEF Record
    <2>2. \A k \in 1..Len(post_queue) : post_queue[k] <= i
      BY <1>0, <2>1 DEF Queued
    <2>3. \A k \in 1..Len(post_queue) : post_queue[k] < i + 1
      BY <1>0, <1>j, <2>2
    <2> QED BY <1>0, <2>1, <2>3 DEF Queued, InLoop
  <1>12. CASE DispatchThrows \/ ScriptThrew \/ EvaluationHangs
    BY <1>a, <1>12 DEF DispatchThrows, ScriptThrew, EvaluationHangs
  <1>13. CASE StartPost
    BY <1>13, QueueTaken
  <1>14. CASE PostEnds \/ JobOutcome \/ FinishJob
    BY <1>a, <1>14 DEF PostEnds, JobOutcome, FinishJob
  <1>15. CASE ClearRunner \/ ReportEnd \/ Unwind
    BY <1>a, <1>15 DEF ClearRunner, ReportEnd, Unwind
  <1>16. CASE UNCHANGED execution
    BY <1>0, <1>16 DEF execution, Queued, InLoop
  <1> QED
    BY <1>1, <1>2, <1>3, <1>4, <1>5, <1>6, <1>7, <1>8, <1>9, <1>10, <1>11, <1>12, <1>13,
       <1>14, <1>15, <1>16, <1>17, ExecutionCases

\* One sequence after another.
LEMMA ConcatIs ==
  ASSUME NEW p \in Seq(Nat), NEW r \in Seq(Nat)
  PROVE  /\ DOMAIN (p \o r) = 1..(Len(p) + Len(r))
         /\ \A k \in 1..(Len(p) + Len(r)) :
              (p \o r)[k] = IF k <= Len(p) THEN p[k] ELSE r[k - Len(p)]
  <1>1. /\ p \o r \in Seq(Nat) /\ Len(p \o r) = Len(p) + Len(r)
        /\ \A k \in 1..(Len(p) + Len(r)) :
             (p \o r)[k] = IF k <= Len(p) THEN p[k] ELSE r[k - Len(p)]
    BY ConcatProperties
  <1>2. DOMAIN (p \o r) = 1..Len(p \o r)
    BY <1>1, LenProperties
  <1> QED BY <1>1, <1>2

\* The post scripts that ran, and then the queue backwards.
LEMMA RunThenQueue ==
  ASSUME NEW p \in Seq(Nat), NEW q \in Seq(Nat),
         \A k, l \in 1..Len(q) : k < l => q[k] < q[l],
         \A k, l \in 1..Len(p) : k < l => p[k] > p[l],
         \A k \in 1..Len(p) : \A l \in 1..Len(q) : p[k] > q[l]
  PROVE  \A k, l \in DOMAIN (p \o Reverse(q)) :
           k < l => (p \o Reverse(q))[k] > (p \o Reverse(q))[l]
  <1> DEFINE n == Len(p)
             m == Len(q)
             r == Reverse(q)
             all == p \o r
  <1>1. n \in Nat /\ m \in Nat
    BY LenProperties
  <1>2. \A k \in 1..m : (m - k) + 1 \in 1..m
    BY <1>1
  <1>3. \A k \in 1..m : q[(m - k) + 1] \in Nat
    BY <1>2, ElementOfSeq
  <1>4. r = [k \in 1..m |-> q[(m - k) + 1]]
    BY DEF Reverse
  <1>5. r \in [1..m -> Nat]
    BY <1>3, <1>4
  <1>6. r \in Seq(Nat) /\ Len(r) = m
    <2>1. r \in Seq(Nat)
      BY <1>1, <1>5, SeqDef
    <2>2. DOMAIN r = 1..m
      BY <1>5
    <2> QED BY <1>1, <2>1, <2>2
  <1>7. /\ DOMAIN all = 1..(n + m)
        /\ \A k \in 1..(n + m) : all[k] = IF k <= n THEN p[k] ELSE r[k - n]
    <2> HIDE DEF r
    <2> QED BY <1>6, ConcatIs
  <1> SUFFICES ASSUME NEW k \in 1..(n + m), NEW l \in 1..(n + m), k < l
               PROVE  all[k] > all[l]
    BY <1>7
  <1>8. CASE l <= n
    <2>1. k \in 1..n /\ l \in 1..n /\ k <= n
      BY <1>1, <1>8
    <2> QED BY <1>7, <1>8, <2>1
  <1>9. CASE k <= n /\ ~(l <= n)
    <2>1. k \in 1..n /\ l - n \in 1..m
      BY <1>1, <1>9
    <2>2. r[l - n] = q[(m - (l - n)) + 1] /\ (m - (l - n)) + 1 \in 1..m
      BY <1>2, <1>4, <2>1
    <2>3. all[k] = p[k] /\ all[l] = r[l - n]
      BY <1>7, <1>9
    <2> QED BY <2>1, <2>2, <2>3
  <1>10. CASE ~(k <= n)
    <2>1. ~(l <= n) /\ k - n \in 1..m /\ l - n \in 1..m
      BY <1>1, <1>10
    <2>2. /\ r[l - n] = q[(m - (l - n)) + 1] /\ (m - (l - n)) + 1 \in 1..m
          /\ r[k - n] = q[(m - (k - n)) + 1] /\ (m - (k - n)) + 1 \in 1..m
      BY <1>2, <1>4, <2>1
    <2>3. (m - (l - n)) + 1 < (m - (k - n)) + 1
      BY <1>1
    <2>4. all[k] = r[k - n] /\ all[l] = r[l - n]
      BY <1>7, <1>10, <2>1
    <2>5. q[(m - (l - n)) + 1] < q[(m - (k - n)) + 1]
      BY <2>2, <2>3
    <2>6. q[(m - (l - n)) + 1] \in Nat /\ q[(m - (k - n)) + 1] \in Nat
      BY <2>2, ElementOfSeq
    <2> QED BY <2>2, <2>4, <2>5, <2>6
  <1> QED BY <1>8, <1>9, <1>10

\* Post scripts run backwards, and all of them.
LEMMA PostsAreReversed == ASSUME IndInv PROVE PostsReversed
  <1>1. posts_run \in Seq(Nat) /\ post_queue \in Seq(Nat)
    BY DEF IndInv, TypeOK
  <1>2. /\ \A k, l \in 1..Len(post_queue) : k < l => post_queue[k] < post_queue[l]
        /\ \A k, l \in 1..Len(posts_run) : k < l => posts_run[k] > posts_run[l]
        /\ \A k \in 1..Len(posts_run) : \A l \in 1..Len(post_queue) :
             posts_run[k] > post_queue[l]
    BY DEF IndInv, Queued
  <1>3. \A k, l \in DOMAIN (posts_run \o Reverse(post_queue)) :
          k < l => (posts_run \o Reverse(post_queue))[k] > (posts_run \o Reverse(post_queue))[l]
    BY <1>1, <1>2, RunThenQueue
  <1>4. epc = "returned" => post_queue = <<>>
    BY DEF IndInv, Cleared
  <1> QED BY <1>3, <1>4 DEF PostsReversed

\* The order of the reports, and what is over before the last one.
LEMMA ReportsAreInOrder == ASSUME IndInv PROVE ReportProtocol
  <1>1. DOMAIN reports = 1..Len(reports)
    BY LenProperties DEF IndInv, TypeOK
  <1>2. epc = "returned" => log # "open" /\ post_queue = <<>> /\ ~workspace /\ ~active
    BY DEF IndInv, Cleared
  <1> QED BY <1>1, <1>2 DEF IndInv, Reported, ReportProtocol, Last

-----------------------------------------------------------------------------
(* Theorems *)

\* It holds at the start,
LEMMA InitInv == ASSUME Init PROVE IndInv
  <1> USE DEF Init, SpawnerInit
  <1>1. job \in Job /\ job.steps \in Seq(StepKind) /\ Len(job.steps) \in Nat
    <2>1. job \in [steps : Seq(StepKind), continue_on_error : BOOLEAN]
      BY JobAssumption
    <2>2. job.steps \in Seq(StepKind)
      BY <2>1
    <2> QED BY <2>2, LenProperties
  <1>2. SpawnerTypeOK
    <2>1. 0 \in 0..MaxOut /\ child_pid \in 0..pid /\ pid \in Nat
      BY OutAssumption
    <2>2. written \in [Stream -> 0..MaxOut] /\ delivered \in [Stream -> 0..MaxOut]
      BY <2>1
    <2> QED BY <2>1, <2>2 DEF SpawnerTypeOK
  <1>3. TypeOK
    <2>1. i \in 0..(Len(job.steps) + 1) /\ kpid \in 0..pid
      BY <1>1
    <2>2. /\ post_queue \in Seq(Nat) /\ posts_run \in Seq(Nat) /\ results \in Seq(BOOLEAN)
          /\ reports \in Seq(Reports) /\ outputs \in Seq(SUBSET Nat)
      BY EmptySeq
    <2> QED BY <1>1, <1>2, <2>1, <2>2 DEF TypeOK
  <1>4. Drained /\ RunStages
    BY DEF Drained, RunStages
  <1>5. \A k \in 1..Len(<<>>) : FALSE
    OBVIOUS
  <1>6. Reported
    BY <1>5 DEF Reported
  <1>7. Cleared
    BY DEF Cleared
  <1>8. Counted
    BY DEF Counted, InLoop
  <1>9. Attributed
    BY <1>5 DEF Attributed, InLoop
  <1>10. Queued
    BY <1>5 DEF Queued, InLoop
  <1>11. ResultIsTrue
    BY DEF ResultIsTrue
  <1> QED BY <1>3, <1>4, <1>6, <1>7, <1>8, <1>9, <1>10, <1>11 DEF IndInv

\* and every step keeps it.
LEMMA IndInvStep == ASSUME IndInv, [Next]_vars PROVE IndInv'
  BY TypeStep, SpawnerStep, ReportedStep, ClearedStep, CountedStep, AttributedStep,
     QueuedStep, ResultStep DEF IndInv

\* The inductive invariant holds of every execution of a job, whatever its
\* processes do and whenever cancel() is called.
THEOREM ExecutorInvariant == Spec => []IndInv
  BY InitInv, IndInvStep, PTL DEF Spec

\* Every variable of execute(), run() and cancel() keeps its type.
THEOREM TypeCorrect == Spec => []TypeOK
  <1>1. IndInv => TypeOK
    BY DEF IndInv
  <1> QED BY <1>1, ExecutorInvariant, PTL

\* A run() that returns has delivered every line, reaped its child and left no
\* thread behind.
THEOREM RunsReturnClean == Spec => []RunReturnsClean
  BY ReturnsClean, ExecutorInvariant, PTL

\* Start first, result last and once, after everything is closed, run and
\* removed.
THEOREM ReportsInOrder == Spec => []ReportProtocol
  BY ReportsAreInOrder, ExecutorInvariant, PTL

\* The reported result is what the recorded steps say.
THEOREM ResultsTrue == Spec => []ResultIsTrue
  <1>1. IndInv => ResultIsTrue
    BY DEF IndInv
  <1> QED BY <1>1, ExecutorInvariant, PTL

\* Post scripts run in the reverse order of their steps, each once, and all
\* before execute() returns.
THEOREM PostsInReverse == Spec => []PostsReversed
  BY PostsAreReversed, ExecutorInvariant, PTL

\* What a step is credited with was written to $GITHUB_OUTPUT by its own
\* processes, or by one that an earlier step left behind in the background.
THEOREM OutputsBelong == Spec => []OutputsAttributed
  BY OutputsAreTheirs, ExecutorInvariant, PTL
=============================================================================
