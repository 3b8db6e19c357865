--------------------------- MODULE MCTaskExecutor ---------------------------
(* TaskExecutor for TLC: a few jobs that between them have every kind of   *)
(* step, a tolerated and a fatal failure, two post scripts, an action with *)
(* and one without a timeout, a job that may fail, and each way a step can *)
(* meet what an earlier one left in the background: in the file an action  *)
(* reads itself, and in the one read after a step without a process.       *)
EXTENDS TaskExecutor

Script(c) == [kind |-> "script", post |-> FALSE, limited |-> FALSE,
              continue_on_error |-> c, leaves |-> TRUE]
Action(p, l) == [kind |-> "js", post |-> p, limited |-> l,
                 continue_on_error |-> FALSE, leaves |-> ~p]
Empty == [kind |-> "empty", post |-> FALSE, limited |-> FALSE,
          continue_on_error |-> TRUE, leaves |-> FALSE]

AJob(s, c) == [steps |-> s, continue_on_error |-> c]

Jobs == {AJob(<<Script(TRUE), Action(FALSE, TRUE)>>, FALSE),
         AJob(<<Action(TRUE, TRUE), Action(TRUE, FALSE)>>, FALSE),
         AJob(<<Action(FALSE, TRUE), Empty>>, FALSE),
         AJob(<<Empty, Script(FALSE)>>, TRUE)}
ScriptJob == {AJob(<<Script(FALSE)>>, FALSE)}

TwoStreams == {"out", "err"}
EitherWay == {TRUE, FALSE}
Reaps == {TRUE}
=============================================================================
