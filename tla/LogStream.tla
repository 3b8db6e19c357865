------------------------------ MODULE LogStream ------------------------------
(***************************************************************************)
(* What the log forwarder promises to the reader of a job's log, with none *)
(* of its queues, batches, retries or indices: the server's copy of the    *)
(* log only ever grows, by lines of the job, in the order the job wrote    *)
(* them and never twice; and once the log is closed it stays as it is.     *)
(* Lines may be missing: UpdateLog is retried a bounded number of times.   *)
(* A line is its number in the order the job appended it.                  *)
(***************************************************************************)
EXTENDS Integers, Sequences

VARIABLES produced,   \* how many lines the job has written
          log,        \* the lines the server holds, in its order
          closed      \* the server has been told that no more lines follow

vars == <<produced, log, closed>>

Increasing(s) == \A i, j \in DOMAIN s : i < j => s[i] < s[j]

Extends(s, t) == Len(s) <= Len(t) /\ \A i \in 1..Len(s) : t[i] = s[i]

Init == produced = 0 /\ log = <<>> /\ closed = FALSE

Produce == produced' = produced + 1 /\ UNCHANGED <<log, closed>>

\* The server takes over some lines the job has written, and may be told at
\* the same time that they are the last ones.
Deliver ==
  /\ ~closed
  /\ Extends(log, log')
  /\ Increasing(log')
  /\ \A i \in DOMAIN log' : log'[i] \in 1..produced
  /\ closed' \in BOOLEAN
  /\ UNCHANGED produced

Next == Produce \/ Deliver

Spec == Init /\ [][Next]_vars
==============================================================================
