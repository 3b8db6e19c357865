------------------------------ MODULE MCPoller ------------------------------
(* Poller for TLC: more tasks than slots, so that the poll thread holds a  *)
(* task while it waits for a slot and another task is on the queue.        *)
EXTENDS Poller

AllFaults == {"error", "timeout"}
NoFaults == {}
=============================================================================
