--------------------------- MODULE ProcessSpawner ---------------------------
(***************************************************************************)
(* ProcessSpawner (src/src/process/ProcessSpawner.cpp): run() starts a     *)
(* child in a process group of its own, reads its two output pipes in two  *)
(* threads, kills the group from a third one when the time is up, and      *)
(* reaps the child; kill() sends SIGTERM to the group from any thread.     *)
(*                                                                         *)
(* The processes of the group are the child and, together, the processes   *)
(* it leaves in the background ("stray"); "detached" stands for those that *)
(* moved to a group of their own. A pipe ends when nobody holds its write  *)
(* end. A line of output is its number in its stream. The module has no    *)
(* Init or Next of its own: TaskExecutor.tla calls run() and kill().       *)
(***************************************************************************)
EXTENDS Integers, FiniteSets

CONSTANTS Stream,     \* the pipes: standard output and standard error
          MaxOut,     \* bound: lines a process group writes to each pipe
          WaitOk      \* what waitpid may do: {TRUE}, or with FALSE: ECHILD

ASSUME StreamAssumption == Stream # {}
ASSUME OutAssumption == MaxOut \in Nat
ASSUME WaitAssumption == WaitOk \subseteq BOOLEAN /\ WaitOk # {}

VARIABLES
  rpc,          \* where run() is
  timeout,      \* timeout_s > 0
  pid,          \* pid of this run's child: pids are numbered as they are used
  child_pid,    \* child_pid_ (0 for -1)
  child,        \* the child: none, running, ended (a zombie), reaped
  wstatus,      \* how the child ended, or that waitpid failed
  termed,       \* the group has been sent SIGTERM
  holders,      \* who holds the write ends of the pipes
  written,      \* lines written to each pipe
  delivered,    \* lines of each pipe that on_output was called with
  drain,        \* the two drain threads
  wd, done      \* the timeout thread, and the flag that stops it

pipes == <<holders, written, delivered, drain>>
timer == <<wd, done>>
process == <<child, wstatus, termed>>
spawner == <<rpc, timeout, pid, child_pid, process, pipes, timer>>

SpawnerInit ==
  /\ rpc = "idle" /\ timeout = FALSE /\ pid = 0 /\ child_pid = 0
  /\ child = "none" /\ wstatus = "none" /\ termed = FALSE
  /\ holders = {} /\ drain = [s \in Stream |-> "none"]
  /\ written = [s \in Stream |-> 0] /\ delivered = [s \in Stream |-> 0]
  /\ wd = "none" /\ done = FALSE

-----------------------------------------------------------------------------
(* run() *)

\* run(..., timeout_s) is called: the pipes are created.
CallRun(limited) ==
  /\ rpc = "idle"
  /\ rpc' = "spawn" /\ timeout' = limited
  /\ child' = "none" /\ wstatus' = "none" /\ termed' = FALSE
  /\ holders' = {"parent"} /\ drain' = [s \in Stream |-> "none"]
  /\ written' = [s \in Stream |-> 0] /\ delivered' = [s \in Stream |-> 0]
  /\ wd' = "none" /\ done' = FALSE
  /\ UNCHANGED <<pid, child_pid>>

\* load_image() or posix_spawn(): the child runs; or it fails and throws.
Spawn ==
  /\ rpc = "spawn"
  /\ \/ /\ rpc' = "close" /\ pid' = pid + 1 /\ child' = "running"
        /\ holders' = holders \cup {"child"}
     \/ /\ rpc' = "threw" /\ holders' = {}
        /\ UNCHANGED <<pid, child>>
  /\ UNCHANGED <<timeout, child_pid, wstatus, termed, written, delivered,
                 drain, timer>>

\* The parent closes its copies of the write ends,
CloseWriteEnds ==
  /\ rpc = "close"
  /\ holders' = holders \ {"parent"}
  /\ rpc' = "store"
  /\ UNCHANGED <<timeout, pid, child_pid, process, written, delivered, drain,
                 timer>>

\* publishes the pid and starts the drain threads and the timeout thread.
StorePid ==
  /\ rpc = "store"
  /\ child_pid' = pid
  /\ drain' = [s \in Stream |-> "reading"]
  /\ wd' = IF timeout THEN "ticking" ELSE "none"
  /\ rpc' = "join"
  /\ UNCHANGED <<timeout, pid, process, holders, written, delivered, done>>

\* Faulty variant: run() does not wait for the drain threads.
JoinNoDrain ==
  /\ rpc = "join"
  /\ rpc' = "wait"
  /\ UNCHANGED <<timeout, pid, child_pid, process, pipes, timer>>

\* Both drain threads are joined,
JoinDrains ==
  /\ rpc = "join" /\ \A s \in Stream : drain[s] = "ended"
  /\ rpc' = "wait"
  /\ UNCHANGED <<timeout, pid, child_pid, process, pipes, timer>>

\* the child is waited for; where SIGCHLD is ignored (the daemon) the system
\* may have reaped it, and waitpid fails once it has ended,
WaitPid ==
  /\ rpc = "wait" /\ child = "ended"
  /\ child' = "reaped"
  /\ \E ok \in WaitOk : wstatus' = IF ok THEN wstatus ELSE "lost"
  /\ rpc' = "reaped"
  /\ UNCHANGED <<timeout, pid, child_pid, termed, pipes, timer>>

\* the timeout thread is told,
SetDone ==
  /\ rpc = "reaped"
  /\ done' = TRUE
  /\ rpc' = "joinTimer"
  /\ UNCHANGED <<timeout, pid, child_pid, process, pipes, wd>>

\* and joined; child_pid_ is cleared and run() returns or throws.
Return ==
  /\ rpc = "joinTimer" /\ wd \in {"none", "ended"}
  /\ child_pid' = 0
  /\ rpc' = IF wstatus = "lost" THEN "threw" ELSE "returned"
  /\ UNCHANGED <<timeout, pid, process, pipes, timer>>

RunStep == Spawn \/ CloseWriteEnds \/ StorePid \/ JoinDrains \/ WaitPid
           \/ SetDone \/ Return

-----------------------------------------------------------------------------
(* The processes of the group, as the code meets them (external) *)

\* Somebody of the job writes a line.
Write(s) ==
  /\ holders \ {"parent"} # {}
  /\ written[s] < MaxOut
  /\ written' = [written EXCEPT ![s] = @ + 1]
  /\ UNCHANGED <<rpc, timeout, pid, child_pid, process, holders, delivered,
                 drain, timer>>

\* The child leaves a process in the background, in its group or not.
Fork(kind) ==
  /\ child = "running" /\ "child" \in holders
  /\ holders' = holders \cup {kind}
  /\ UNCHANGED <<rpc, timeout, pid, child_pid, process, written, delivered,
                 drain, timer>>

\* A process closes its output, by ending or without ending.
CloseOutput(kind) ==
  /\ kind \in holders \ {"parent"}
  /\ holders' = holders \ {kind}
  /\ UNCHANGED <<rpc, timeout, pid, child_pid, process, written, delivered,
                 drain, timer>>

\* The child ends by itself, or dies of the SIGTERM it was sent.
ChildEnds(how) ==
  /\ child = "running"
  /\ how = "signal" => termed
  /\ child' = "ended" /\ wstatus' = how
  /\ holders' = holders \ {"child"}
  /\ UNCHANGED <<rpc, timeout, pid, child_pid, termed, written, delivered,
                 drain, timer>>

-----------------------------------------------------------------------------
(* The drain threads *)

\* drainOutput: a line is read and handed to the callback,
DrainLine(s) ==
  /\ drain[s] = "reading" /\ delivered[s] < written[s]
  /\ delivered' = [delivered EXCEPT ![s] = @ + 1]
  /\ UNCHANGED <<rpc, timeout, pid, child_pid, process, holders, written,
                 drain, timer>>

\* until the pipe is empty and nobody can write to it any more.
DrainEof(s) ==
  /\ drain[s] = "reading" /\ delivered[s] = written[s] /\ holders = {}
  /\ drain' = [drain EXCEPT ![s] = "ended"]
  /\ UNCHANGED <<rpc, timeout, pid, child_pid, process, holders, written,
                 delivered, timer>>

DrainStep(s) == DrainLine(s) \/ DrainEof(s)

-----------------------------------------------------------------------------
(* The timeout thread *)

TimerMoves(next) ==
  /\ wd' = next
  /\ UNCHANGED <<rpc, timeout, pid, child_pid, pipes, done>>

\* for (...) { sleep; if (done) return; } if (!done) ...
TimerTick ==
  /\ wd = "ticking"
  /\ TimerMoves(IF done THEN "ended" ELSE "expired")
  /\ UNCHANGED process

\* kill(-child_pid_, SIGTERM): the group may react to it or not. Once the
\* child is reaped the number is nobody's, or somebody else's.
TimerTerm ==
  /\ wd = "expired"
  /\ TimerMoves("grace")
  /\ termed' = (termed \/ child \in {"running", "ended"})
  /\ UNCHANGED <<child, wstatus>>

\* The grace period ends, by done or after 5 s.
TimerGrace ==
  /\ wd = "grace"
  /\ TimerMoves(IF done THEN "ended" ELSE "kill")
  /\ UNCHANGED process

\* Faulty variant: no escalation.
TimerNoKill ==
  /\ wd = "kill"
  /\ TimerMoves("ended")
  /\ UNCHANGED process

\* kill(-child_pid_, SIGKILL): the whole group dies at once.
TimerKill ==
  /\ wd = "kill"
  /\ wd' = "ended"
  /\ IF child = "running"
     THEN child' = "ended" /\ wstatus' = "signal"
     ELSE UNCHANGED <<child, wstatus>>
  /\ holders' = IF child \in {"running", "ended"} THEN holders \ {"child", "stray"}
                                                  ELSE holders
  /\ UNCHANGED <<rpc, timeout, pid, child_pid, termed, written, delivered,
                 drain, done>>

TimerStep == TimerTick \/ TimerTerm \/ TimerGrace \/ TimerKill

-----------------------------------------------------------------------------

\* kill() with the pid p it has loaded: SIGTERM to p's group, if p > 0. A pid
\* of an earlier run, or one that is reaped, is not of this group any more.
SendTerm(p) ==
  /\ termed' = (termed \/ (p # 0 /\ p = pid /\ child \in {"running", "ended"}))
  /\ UNCHANGED <<rpc, timeout, pid, child_pid, child, wstatus, pipes, timer>>

-----------------------------------------------------------------------------
(* Properties *)

\* The types: no more lines are delivered than a pipe can have carried, and
\* child_pid_ is only ever the pid of a child that run() has started.
SpawnerTypeOK ==
  /\ rpc \in {"idle", "spawn", "close", "store", "join", "wait", "reaped",
              "joinTimer", "returned", "threw"}
  /\ timeout \in BOOLEAN /\ termed \in BOOLEAN /\ done \in BOOLEAN
  /\ pid \in Nat /\ child_pid \in 0..pid
  /\ child \in {"none", "running", "ended", "reaped"}
  /\ wstatus \in {"none", "ok", "error", "signal", "lost"}
  /\ holders \subseteq {"parent", "child", "stray", "detached"}
  /\ written \in [Stream -> 0..MaxOut] /\ delivered \in [Stream -> 0..MaxOut]
  /\ drain \in [Stream -> {"none", "reading", "ended"}]
  /\ wd \in {"none", "ticking", "expired", "grace", "kill", "ended"}

\* When run() has returned a result, every line any process of the job wrote
\* has been handed to on_output, nobody can write one any more, the child is
\* reaped and no thread of run() is left to signal anything.
RunReturnsClean ==
  rpc = "returned" =>
    /\ delivered = written /\ holders = {}
    /\ child = "reaped" /\ child_pid = 0
    /\ wd \in {"none", "ended"} /\ \A s \in Stream : drain[s] = "ended"
=============================================================================
