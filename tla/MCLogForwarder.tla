-------------------------- MODULE MCLogForwarder --------------------------
(* LogForwarder for TLC: a batch smaller than the number of lines, so that *)
(* a batch can be full, and lines left over when finish() is called.       *)
EXTENDS LogForwarder

AllFaults == {"partial", "refused", "lost", "timeout"}
NoFaults == {}
===========================================================================
