--------------------------- MODULE MCOrchestrator ---------------------------
(* Orchestrator for TLC: the needs graphs over three jobs with a cycle,    *)
(* those without one up to renaming of the jobs, the reverse of a chain,   *)
(* a job that needs itself and an unknown name; with and without a job     *)
(* that has fail-fast: false and max-parallel: 2.                          *)
EXTENDS Orchestrator

NoSelfNeeds == {n \in [JobId -> SUBSET JobId] : \A j \in JobId : j \notin n[j]}
SelfNeed == [j \in JobId |-> {j}]
Unknown == [j \in JobId |-> IF j = 1 THEN {0} ELSE {}]

Patient == [j \in JobId |-> j # 1]
Eager == [j \in JobId |-> TRUE]
Unlimited == [j \in JobId |-> 0]
TwoAtATime == [j \in JobId |-> IF j = 2 THEN 2 ELSE 0]

W(n, f, m) == [needs |-> n, fail_fast |-> f, max_parallel |-> m]

Forward == {n \in NoSelfNeeds : \A j \in JobId : n[j] \subseteq 1..(j - 1)}
Backward == [j \in JobId |-> IF j < NumJobs THEN {j + 1} ELSE {}]
Cyclic == {n \in NoSelfNeeds : \E S \in SUBSET JobId :
             S # {} /\ \A j \in S : n[j] \cap S # {}}

Workflows ==
  {W(n, Eager, Unlimited) : n \in Forward \cup Cyclic \cup {Backward, SelfNeed, Unknown}}
  \cup {W(n, Patient, Unlimited) : n \in Forward}
  \cup {W(n, Patient, TwoAtATime) : n \in Forward}
=============================================================================
