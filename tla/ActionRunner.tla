---------------------------- MODULE ActionRunner ----------------------------
(***************************************************************************)
(* `uses:` steps (src/src/action/ActionRunner.cpp) of jobs that run at the *)
(* same time over one cache of actions (ActionCache.tla), with the part of *)
(* StepRunner that calls them and the protocol files of EnvManager.        *)
(*                                                                         *)
(* Each job runs one such step. runComposite and runRecursive call each    *)
(* other: stack[j] holds a frame per action under way. Of the protocol     *)
(* files one output and one variable are kept, whose value is the number   *)
(* of the process that wrote it (0: not set); the files' format is in      *)
(* EnvFiles.tla. Conditions (if:), what a process writes and how it ends   *)
(* are nondeterministic, and so is whether the evaluation of an expression *)
(* comes back (ExprEvaluator.tla). What a process that was left in the     *)
(* background writes is TaskExecutor.tla's subject.                        *)
(***************************************************************************)
EXTENDS ActionCache, Sequences, SequencesExt

CONSTANTS
  Def,        \* the definition behind every reference, see Definition
  Writer,     \* the references whose processes write to the protocol files
  Scenario,   \* the jobs' steps, and what is installed on the host
  MaxDepth,   \* kMaxRecursionDepth, 10 in the code
  MaxCrashes  \* bound: how often the runner dies

Ref == DOMAIN Def
SubStep == [kind : {"run", "none"}, uses : {None}, coe : BOOLEAN]
           \cup [kind : {"uses"}, uses : Ref, coe : BOOLEAN]
Definition == [type : {"composite", "js", "docker", "unknown", "invalid"},
               builtin : {"no", "checkout", "node"},
               steps : Seq(SubStep), post : BOOLEAN]

ASSUME RunnerAssumption ==
  /\ Action \subseteq Ref /\ Writer \subseteq Ref
  /\ \A r \in Ref : Def[r] \in Definition
  /\ Scenario \subseteq
       [steps : [Job -> [uses : Ref, coe : BOOLEAN,
                         path : {"workspace", "existing", "missing"}]],
        host : SUBSET {"git", "node"}]
  /\ MaxDepth \in Nat /\ MaxCrashes \in Nat

VARIABLES
  step,           \* the step of each job
  host,           \* what is installed: git, node
  pc,             \* where ActionRunner::run is
  stack,          \* the actions under way, innermost last
  ret,            \* what the innermost call has returned
  procs,          \* the processes run so far
  seen,           \* the variable as the process under way was given it
  out_file,       \* $GITHUB_OUTPUT
  env_file,       \* $GITHUB_ENV
  env_overrides,  \* EnvManager::env_overrides_
  post_queue,     \* registered post scripts
  first,          \* history: the first process of the step to set the output
  recent,         \* history: the last one to set it, unless a JavaScript
                  \* action has emptied the output file since then
  fatal,          \* history: a failure that no continue-on-error covers
  threw,          \* history: an exception has left ActionRunner::run
  crashes

files == <<out_file, env_file, env_overrides>>
history == <<first, recent, fatal, threw>>
running == <<pc, stack, ret, procs, seen, files, post_queue, history>>
vars == <<cache, step, host, running, crashes>>

NoResult == [ok |-> TRUE, outs |-> 0]
Frame(r, c, d) == [ref |-> r, def |-> r, coe |-> c, depth |-> d, ix |-> 1, outs |-> 0]
Each(v) == [j \in Job |-> v]

Init ==
  /\ CacheInit
  /\ \E s \in Scenario : step = s.steps /\ host = s.host
  /\ pc = Each("start") /\ stack = Each(<<>>) /\ ret = Each(NoResult)
  /\ procs = Each(0) /\ seen = Each(0)
  /\ out_file = Each(0) /\ env_file = Each(0) /\ env_overrides = Each(0)
  /\ post_queue = Each(<<>>)
  /\ first = Each(0) /\ recent = Each(0) /\ fatal = Each(FALSE) /\ threw = Each(FALSE)
  /\ crashes = 0

Top(j) == Last(stack[j])
ADef(j) == Def[Top(j).def]
PcTo(j, place) == pc' = [pc EXCEPT ![j] = place]
SetTop(j, frame) == stack' = [stack EXCEPT ![j] = Append(Front(@), frame)]
\* The directory that was fetched is not used any more.
Release(j) == /\ Goto(j, "idle") /\ target' = [target EXCEPT ![j] = None]
              /\ UNCHANGED <<base, try, wrote, dest, zip, suspect>>

\* The innermost call returns. A failure is fatal unless one of the calls on
\* the stack is a sub-step that may fail.
Return(j, ok, outs) ==
  /\ PcTo(j, "ret")
  /\ ret' = [ret EXCEPT ![j] = [ok |-> ok, outs |-> outs]]
  /\ fatal' = [fatal EXCEPT ![j] =
       @ \/ (~ok /\ \A k \in 2..Len(stack[j]) : ~stack[j][k].coe)]

-----------------------------------------------------------------------------
(* run(), the built-in actions *)

\* actions/checkout is built in; actions/cache and the artifact actions are
\* skipped without node.
Start(j) ==
  LET d == Def[step[j].uses] IN
  /\ pc[j] = "start"
  /\ stack' = [stack EXCEPT ![j] = <<Frame(step[j].uses, step[j].coe, 0)>>]
  /\ PcTo(j, CASE d.builtin = "checkout" -> "checkGit"
               [] d.builtin = "node" /\ "node" \notin host -> "ret"
               [] OTHER -> "resolve")
  /\ UNCHANGED <<cache, step, host, ret, procs, seen, files, post_queue,
                 history, crashes>>

\* `git --version` is run in the destination, within 5 s. It fails without
\* git, but also when the destination does not exist yet or the time is up:
\* the checkout is then skipped and counts as a success.
CheckGit(j) ==
  /\ pc[j] = "checkGit"
  /\ \/ /\ "git" \in host /\ step[j].path # "missing"
        /\ PcTo(j, "checkout") /\ UNCHANGED <<ret, fatal>>
     \/ Return(j, TRUE, 0)
  /\ UNCHANGED <<cache, step, host, stack, procs, seen, files, post_queue,
                 first, recent, threw, crashes>>

\* The clone, within 300 s; the submodules' result is ignored.
CheckoutEnds(j) ==
  /\ pc[j] = "checkout"
  /\ \/ Return(j, TRUE, 0)
     \/ Return(j, step[j].coe, 0)
  /\ UNCHANGED <<cache, step, host, stack, procs, seen, files, post_queue,
                 first, recent, threw, crashes>>

-----------------------------------------------------------------------------
(* resolveActionDir, parseActionYaml and the dispatch, the same in run() and in *)
(* runRecursive()                                                               *)

\* A local action is there or not, a docker:// or malformed reference throws,
\* a remote one is fetched.
Resolve(j) ==
  LET r == Top(j).ref IN
  /\ pc[j] = "resolve"
  /\ \/ /\ r \in Action
        /\ PcTo(j, "fetch")
        /\ target' = [target EXCEPT ![j] = r] /\ Goto(j, "lookup")
        /\ UNCHANGED <<base, try, wrote, dest, zip, suspect, ret, fatal>>
     \/ /\ r \notin Action /\ Def[r].type # "invalid"
        /\ PcTo(j, "load") /\ UNCHANGED <<cache, ret, fatal>>
     \/ /\ r \notin Action
        /\ Return(j, FALSE, 0) /\ UNCHANGED cache
  /\ UNCHANGED <<step, host, stack, procs, seen, files, post_queue, first,
                 recent, threw, crashes>>

\* The action.yml files a directory offers: for an action in a subdirectory
\* only its own counts.
Manifests(a) == {e \in dest[a].files :
                   e.at = "top" /\ e.file = "yml" /\ (a \in Rooted \/ e.of = a)}

\* fetchAction has returned a directory or thrown.
FetchEnds(j) ==
  /\ pc[j] = "fetch"
  /\ \/ /\ fpc[j] = "fetched" /\ Manifests(target[j]) # {}
        /\ PcTo(j, "load") /\ UNCHANGED <<cache, ret, fatal>>
     \/ /\ fpc[j] = "failed" \/ (fpc[j] = "fetched" /\ Manifests(target[j]) = {})
        /\ Return(j, FALSE, 0) /\ Release(j)
  /\ UNCHANGED <<step, host, stack, procs, seen, files, post_queue, first,
                 recent, threw, crashes>>

\* The definition that is found is parsed; it may be malformed, or gone.
Load(j) ==
  LET r == Top(j).ref
      found == IF r \in Action THEN {e.of : e \in Manifests(r)} ELSE {r}
  IN
  /\ pc[j] = "load"
  /\ \/ \E d \in found :
          /\ SetTop(j, [Top(j) EXCEPT !.def = d])
          /\ PcTo(j, "dispatch") /\ UNCHANGED <<cache, ret, fatal>>
     \/ Return(j, FALSE, 0) /\ Release(j) /\ UNCHANGED stack
  /\ UNCHANGED <<step, host, procs, seen, files, post_queue, first, recent,
                 threw, crashes>>

\* The rest of the action's directory: its main and post scripts.
HasScripts(j) ==
  Top(j).ref \in Action => TopFile(Top(j).def, "rest") \in dest[Top(j).ref].files

\* run() passes its queue on, runRecursive() passes none: a post script is
\* registered for an action of the workflow only.
WithPost(j) ==
  IF Top(j).depth = 0 /\ ADef(j).post /\ HasScripts(j)
  THEN [post_queue EXCEPT ![j] = Append(@, Top(j).def)] ELSE post_queue

\* runComposite, up to its loop: too deep a recursion is an error.
StartComposite(j) ==
  /\ pc[j] = "dispatch" /\ ADef(j).type = "composite"
  /\ IF Top(j).depth > MaxDepth
     THEN Return(j, FALSE, 0)
     ELSE PcTo(j, "loop") /\ UNCHANGED <<ret, fatal>>
  /\ Release(j)
  /\ UNCHANGED <<step, host, stack, procs, seen, files, post_queue, first,
                 recent, threw, crashes>>

\* An expression is evaluated (the inputs of an action and of the checkout,
\* if:, env:, with: and run: of a sub-step) and the evaluation does not come
\* back.
EvaluationHangs(j) ==
  /\ \/ pc[j] = "start" /\ Def[step[j].uses].builtin = "checkout"
     \/ pc[j] \in {"dispatch", "loop"}
  /\ PcTo(j, "looping")
  /\ Release(j)
  /\ UNCHANGED <<step, host, stack, ret, procs, seen, files, post_queue,
                 history, crashes>>

\* Docker actions, and what is neither composite nor JavaScript nor docker:
\* the step fails, unless a docker action may. (ActionRunner.h:15 says "emit
\* warning, skip", README.md:354 "logged as an error and skipped".)
Refuse(j) ==
  /\ pc[j] = "dispatch" /\ ADef(j).type \in {"docker", "unknown", "invalid"}
  /\ Return(j, ADef(j).type = "docker" /\ Top(j).coe, 0)
  /\ Release(j)
  /\ UNCHANGED <<step, host, stack, procs, seen, files, post_queue, first,
                 recent, threw, crashes>>

\* runJavaScript without node, or without the main script.
JavaScriptMissing(j) ==
  /\ pc[j] = "dispatch" /\ ADef(j).type = "js"
  /\ \/ "node" \notin host /\ Return(j, Top(j).coe, 0) /\ post_queue' = WithPost(j)
     \/ "node" \in host /\ ~HasScripts(j) /\ Return(j, FALSE, 0) /\ UNCHANGED post_queue
  /\ Release(j)
  /\ UNCHANGED <<step, host, stack, procs, seen, files, first, recent, threw,
                 crashes>>

\* A process is given the variables of EnvManager::currentEnv(), after
\* (and so over) the ones its caller passed.
StartProcess(j) == /\ seen' = [seen EXCEPT ![j] = env_overrides[j]]
                   /\ PcTo(j, "proc")

StartJavaScript(j) ==
  /\ pc[j] = "dispatch" /\ ADef(j).type = "js"
  /\ "node" \in host /\ HasScripts(j)
  /\ StartProcess(j)
  /\ UNCHANGED <<cache, step, host, stack, ret, procs, files, post_queue,
                 history, crashes>>

-----------------------------------------------------------------------------
(* runComposite, the loop *)

Sub(j) == ADef(j).steps[Top(j).ix]
AtSub(j) == pc[j] = "loop" /\ Top(j).ix <= Len(ADef(j).steps)

\* if: is false, or the sub-step has neither run: nor uses:.
SkipSub(j) ==
  /\ AtSub(j)
  /\ SetTop(j, [Top(j) EXCEPT !.ix = @ + 1])
  /\ UNCHANGED <<cache, step, host, pc, ret, procs, seen, files, post_queue,
                 history, crashes>>

RunSub(j) ==
  /\ AtSub(j) /\ Sub(j).kind = "run"
  /\ StartProcess(j)
  /\ UNCHANGED <<cache, step, host, stack, ret, procs, files, post_queue,
                 history, crashes>>

CallSub(j) ==
  /\ AtSub(j) /\ Sub(j).kind = "uses"
  /\ stack' = [stack EXCEPT ![j] =
                 Append(@, Frame(Sub(j).uses, Sub(j).coe, Top(j).depth + 1))]
  /\ PcTo(j, "resolve")
  /\ UNCHANGED <<cache, step, host, ret, procs, seen, files, post_queue,
                 history, crashes>>

LoopEnds(j) ==
  /\ pc[j] = "loop" /\ Top(j).ix > Len(ADef(j).steps)
  /\ Return(j, TRUE, Top(j).outs)
  /\ UNCHANGED <<cache, step, host, stack, procs, seen, files, post_queue,
                 first, recent, threw, crashes>>

\* map::insert: an output that is already there keeps its value, though the
\* other one was written later.
Merge(outs, more) == IF outs # 0 THEN outs ELSE more

\* A process writes to the protocol files or not, and ends. The files are
\* then read: the value last written counts.
Wrote(j, out, env) ==
  /\ out \/ env => Top(j).def \in Writer
  /\ seen' = [seen EXCEPT ![j] = 0]
  /\ procs' = [procs EXCEPT ![j] = @ + 1]
  /\ first' = [first EXCEPT ![j] = IF out /\ @ = 0 THEN procs'[j] ELSE @]
  /\ env_file' = [env_file EXCEPT ![j] = IF env THEN procs'[j] ELSE @]
Out(j, out) == IF out THEN procs'[j] ELSE out_file[j]

\* Faulty variant: $GITHUB_ENV is read when the whole step has ended only.
SubEndsNoEnv(j) ==
  /\ pc[j] = "proc" /\ ADef(j).type = "composite"
  /\ \E out, env, ok \in BOOLEAN :
       LET outs == Merge(Top(j).outs, out_file'[j]) IN
       /\ Wrote(j, out, env)
       /\ out_file' = [out_file EXCEPT ![j] = Out(j, out)]
       /\ recent' = [recent EXCEPT ![j] = IF out THEN procs'[j] ELSE @]
       /\ SetTop(j, [Top(j) EXCEPT !.ix = @ + 1, !.outs = outs])
       /\ IF ok \/ Sub(j).coe THEN PcTo(j, "loop") /\ UNCHANGED <<ret, fatal>>
                              ELSE Return(j, FALSE, outs)
  /\ UNCHANGED <<cache, step, host, env_overrides, post_queue, threw,
                 crashes>>

\* A run: sub-step ends: its outputs are collected and its variables applied
\* even when it failed; a failure that is not tolerated ends the action.
SubEnds(j) ==
  /\ pc[j] = "proc" /\ ADef(j).type = "composite"
  /\ \E out, env, ok \in BOOLEAN :
       LET outs == Merge(Top(j).outs, out_file'[j]) IN
       /\ Wrote(j, out, env)
       /\ out_file' = [out_file EXCEPT ![j] = Out(j, out)]
       /\ recent' = [recent EXCEPT ![j] = IF out THEN procs'[j] ELSE @]
       /\ SetTop(j, [Top(j) EXCEPT !.ix = @ + 1, !.outs = outs])
       /\ IF ok \/ Sub(j).coe THEN PcTo(j, "loop") /\ UNCHANGED <<ret, fatal>>
                              ELSE Return(j, FALSE, outs)
  /\ env_overrides' = env_file'
  /\ UNCHANGED <<cache, step, host, post_queue, threw, crashes>>

\* Faulty variant: the output file is emptied before it is read.
JavaScriptEndsEmpty(j) ==
  /\ pc[j] = "proc" /\ ADef(j).type = "js"
  /\ \E out, env, ok \in BOOLEAN : Wrote(j, out, env) /\ Return(j, ok, 0)
  /\ out_file' = [out_file EXCEPT ![j] = 0] /\ recent' = [recent EXCEPT ![j] = 0]
  /\ env_overrides' = env_file'
  /\ post_queue' = WithPost(j)
  /\ Release(j)
  /\ UNCHANGED <<step, host, stack, threw, crashes>>

\* The main script ends: outputs and variables are read, the output file is
\* emptied (also for a nested action), the post script is registered.
JavaScriptEnds(j) ==
  /\ pc[j] = "proc" /\ ADef(j).type = "js"
  /\ \E out, env, ok \in BOOLEAN :
       Wrote(j, out, env) /\ Return(j, ok, Out(j, out))
  /\ out_file' = [out_file EXCEPT ![j] = 0] /\ recent' = [recent EXCEPT ![j] = 0]
  /\ env_overrides' = env_file'
  /\ post_queue' = WithPost(j)
  /\ Release(j)
  /\ UNCHANGED <<step, host, stack, threw, crashes>>

\* A process cannot be started: the exception leaves all the calls, and
\* runAction makes of it what the step's own continue-on-error says.
SpawnThrows(j) ==
  /\ \/ pc[j] \in {"proc", "checkGit", "checkout"}
     \/ pc[j] = "start" /\ Def[step[j].uses].builtin = "node"
  /\ ret' = [ret EXCEPT ![j] = [ok |-> step[j].coe, outs |-> 0]]
  /\ threw' = [threw EXCEPT ![j] = TRUE]
  /\ stack' = [stack EXCEPT ![j] = <<>>] /\ seen' = [seen EXCEPT ![j] = 0]
  /\ PcTo(j, "collect")
  /\ Release(j)
  /\ UNCHANGED <<step, host, procs, files, post_queue, first, recent,
                 fatal, crashes>>

\* Faulty variant: the failure of a nested action is lost.
ReturnedForgets(j) ==
  /\ pc[j] = "ret" /\ Len(stack[j]) > 1
  /\ LET parent == Last(Front(stack[j]))
         merged == Merge(parent.outs, ret[j].outs)
     IN stack' = [stack EXCEPT ![j] = Append(Front(Front(@)),
                    [parent EXCEPT !.ix = @ + 1, !.outs = merged])]
  /\ PcTo(j, "loop")
  /\ UNCHANGED <<cache, step, host, ret, procs, seen, files, post_queue,
                 history, crashes>>

\* A nested action has returned: its outputs are merged, a failure that is
\* not tolerated ends the caller as well.
Returned(j) ==
  /\ pc[j] = "ret" /\ Len(stack[j]) > 1
  /\ LET parent == Last(Front(stack[j]))
         merged == Merge(parent.outs, ret[j].outs)
         fails == ~ret[j].ok /\ ~Top(j).coe
     IN /\ stack' = [stack EXCEPT ![j] = Append(Front(Front(@)),
                       [parent EXCEPT !.ix = @ + 1, !.outs = merged])]
        /\ PcTo(j, IF fails THEN "ret" ELSE "loop")
        /\ ret' = [ret EXCEPT ![j].outs = merged]
  /\ UNCHANGED <<cache, step, host, procs, seen, files, post_queue, history,
                 crashes>>

\* ActionRunner::run has returned.
StepReturned(j) ==
  /\ pc[j] = "ret" /\ Len(stack[j]) = 1
  /\ PcTo(j, "collect")
  /\ stack' = [stack EXCEPT ![j] = <<>>]
  /\ UNCHANGED <<cache, step, host, ret, procs, seen, files, post_queue,
                 history, crashes>>

\* The end of StepRunner::run: what the output file still holds wins over
\* what the action returned, the variables are applied, the file is emptied.
CollectStep(j) ==
  /\ pc[j] = "collect"
  /\ ret' = [ret EXCEPT ![j].outs = Merge(out_file[j], @)]
  /\ env_overrides' = [env_overrides EXCEPT ![j] = env_file[j]]
  /\ out_file' = [out_file EXCEPT ![j] = 0]
  /\ PcTo(j, "done")
  /\ UNCHANGED <<cache, step, host, stack, procs, seen, env_file, post_queue,
                 history, crashes>>

-----------------------------------------------------------------------------

RunnerStep(j) ==
  \/ Start(j) \/ Resolve(j) \/ FetchEnds(j) \/ Load(j) \/ StartComposite(j)
  \/ Refuse(j) \/ JavaScriptMissing(j) \/ StartJavaScript(j) \/ SkipSub(j)
  \/ RunSub(j) \/ CallSub(j) \/ LoopEnds(j) \/ Returned(j) \/ StepReturned(j)
  \/ CollectStep(j) \/ EvaluationHangs(j)

CacheStep(j) == FetchStep(j) /\ UNCHANGED <<step, host, running, crashes>>

ExternalStep(j) ==
  \/ (CommandStep(j) /\ UNCHANGED <<step, host, running, crashes>>)
  \/ SubEnds(j) \/ JavaScriptEnds(j) \/ SpawnThrows(j)
  \/ CheckGit(j) \/ CheckoutEnds(j)

\* The runner dies and is started again: its jobs are run anew, the cache
\* stays as it was.
Crash ==
  /\ crashes < MaxCrashes
  /\ crashes' = crashes + 1
  /\ CacheCrash
  /\ pc' = Each("start") /\ stack' = Each(<<>>) /\ ret' = Each(NoResult)
  /\ procs' = Each(0) /\ seen' = Each(0)
  /\ out_file' = Each(0) /\ env_file' = Each(0) /\ env_overrides' = Each(0)
  /\ post_queue' = Each(<<>>)
  /\ first' = Each(0) /\ recent' = Each(0) /\ fatal' = Each(FALSE) /\ threw' = Each(FALSE)
  /\ UNCHANGED <<step, host>>

AllDone == (\A j \in Job : pc[j] \in {"done", "looping"}) /\ UNCHANGED vars

Next == \/ \E j \in Job : RunnerStep(j) \/ CacheStep(j) \/ ExternalStep(j)
        \/ Crash \/ AllDone

Spec == Init /\ [][Next]_vars

\* The jobs' threads are scheduled. Nothing is assumed of the commands and
\* processes they wait for.
FairSpec == Spec /\ \A j \in Job : WF_vars(RunnerStep(j) \/ CacheStep(j))

-----------------------------------------------------------------------------
(* Properties *)

\* The types. The frames on the stack never exceed the depth limit by more
\* than the call that is refused.
TypeOK ==
  /\ CacheTypeOK
  /\ [steps |-> step, host |-> host] \in Scenario
  /\ pc \in [Job -> {"start", "checkGit", "checkout", "resolve", "fetch", "load",
                     "dispatch", "loop", "proc", "ret", "collect", "done", "looping"}]
  /\ \A j \in Job :
       /\ Len(stack[j]) <= MaxDepth + 2
       /\ \A k \in DOMAIN stack[j] :
            stack[j][k] \in [ref : Ref, def : Ref, coe : BOOLEAN, depth : Nat,
                             ix : Nat \ {0}, outs : Nat]
  /\ ret \in [Job -> [ok : BOOLEAN, outs : Nat]]
  /\ {procs, seen, out_file, env_file, env_overrides, first, recent}
       \subseteq [Job -> Nat]
  /\ post_queue \in [Job -> Seq(Ref)]
  /\ {fatal, threw} \subseteq [Job -> BOOLEAN]
  /\ crashes \in 0..MaxCrashes

\* What becomes of an output that processes of the step wrote to
\* $GITHUB_OUTPUT, though nested actions read and empty the file in between
\* and sub-steps fail or are tolerated. It is never lost but by an exception.
\* Of several values the step ends with the last one, if no JavaScript action
\* has ended since it was written; otherwise with the FIRST one, for the
\* results are merged by map::insert (ActionRunner.cpp:770, 781, 808).
OutputsKept ==
  \A j \in Job : pc[j] = "done" /\ ~threw[j] =>
    ret[j].outs = IF recent[j] # 0 THEN recent[j] ELSE first[j]

\* Every process of an action, however deeply nested, is given the variables
\* as the processes before it left them in $GITHUB_ENV.
EnvVisible == \A j \in Job : pc[j] = "proc" => seen[j] = env_file[j]

\* A step that uses an action succeeds exactly if nothing in it has failed
\* that was not allowed to, at whatever depth and for whatever reason; after
\* such a failure nothing more is started. An action of a kind that is not
\* supported is such a failure (ActionRunner.cpp:619, 693), though
\* ActionRunner.h:15 and README.md:354 have it skipped.
ActionResultIsTrue ==
  \A j \in Job :
    /\ pc[j] = "done" /\ ~threw[j] => (ret[j].ok <=> ~fatal[j])
    /\ fatal[j] => pc[j] \in {"ret", "collect", "done"}

\* A job waits for a command or a process.
Waiting(j) == \/ pc[j] \in {"proc", "checkGit", "checkout"}
              \/ pc[j] = "fetch" /\ fpc[j] \in {"cloning", "curling", "unzip"}

\* Every step that uses an action ends, also when composite actions call each
\* other in a circle and jobs get into each other's way in the cache. The
\* exceptions are a command or a process that does not end, which has no
\* timeout here, and an expression whose evaluation loops
\* (ExprEvaluator.cpp:428).
ActionEnds ==
  \A j \in Job : \/ <>(pc[j] = "done")
                \/ <>[]Waiting(j)
                \/ <>[](pc[j] = "looping")
=============================================================================
