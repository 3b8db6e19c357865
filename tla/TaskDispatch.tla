---------------------------- MODULE TaskDispatch -----------------------------
(***************************************************************************)
(* What the poller promises for the tasks of a runner, with no threads,    *)
(* semaphore, wakeups or versions: tasks that the server gives out are     *)
(* started in the order in which they were given out, each at most once    *)
(* and at most as many at a time as there are places; and one that was not *)
(* started is given up only after the runner was told to stop. The call    *)
(* that fetches a task may lose it.                                        *)
(***************************************************************************)
EXTENDS Integers, Sequences

CONSTANTS Task, Worker, NoTask

VARIABLES status,    \* what has become of each task
          waiting,   \* tasks that were given out and not started, in order
          running,   \* the task at each place
          stopped    \* the runner was told to stop

vars == <<status, waiting, running, stopped>>

Init ==
  /\ status = [t \in Task |-> "none"] /\ waiting = <<>>
  /\ running = [w \in Worker |-> NoTask] /\ stopped = FALSE

Becomes(t, o) == status' = [status EXCEPT ![t] = o]

Offer(t) ==
  /\ status[t] = "none" /\ Becomes(t, "offered")
  /\ UNCHANGED <<waiting, running, stopped>>

GiveOut(t) ==
  /\ status[t] = "offered" /\ Becomes(t, "fetched")
  /\ waiting' = Append(waiting, t)
  /\ UNCHANGED <<running, stopped>>

Lose(t) ==
  /\ status[t] = "offered" /\ Becomes(t, "lost")
  /\ UNCHANGED <<waiting, running, stopped>>

\* The task that has waited longest is started.
Start(w) ==
  /\ waiting # <<>> /\ running[w] = NoTask
  /\ running' = [running EXCEPT ![w] = Head(waiting)]
  /\ waiting' = Tail(waiting)
  /\ UNCHANGED <<status, stopped>>

\* It ends with a report to the server, or is aborted without one.
End(w) ==
  /\ running[w] # NoTask
  /\ \E o \in {"reported", "aborted"} : Becomes(running[w], o)
  /\ running' = [running EXCEPT ![w] = NoTask]
  /\ UNCHANGED <<waiting, stopped>>

Stop == stopped' = TRUE /\ UNCHANGED <<status, waiting, running>>

\* After the stop, those that were given out last are not started any more.
Drop(n) ==
  /\ stopped /\ n < Len(waiting)
  /\ waiting' = SubSeq(waiting, 1, n)
  /\ status' = [t \in Task |->
                  IF \E i \in (n + 1)..Len(waiting) : waiting[i] = t THEN "dropped"
                                                                     ELSE status[t]]
  /\ UNCHANGED <<running, stopped>>

Next ==
  \/ \E t \in Task : Offer(t) \/ GiveOut(t) \/ Lose(t)
  \/ \E w \in Worker : Start(w) \/ End(w)
  \/ Stop
  \/ \E n \in 0..Len(waiting) : Drop(n)

Spec == Init /\ [][Next]_vars
==============================================================================
