-------------------------- MODULE MCArtifactServer --------------------------
(* ArtifactServer for TLC: three runs, of which two or three use one name. *)
EXTENDS ArtifactServer

CONSTANTS r1, r2, r3, n1, n2

Shared == {[r \in Run |-> n1], [r \in Run |-> IF r = r3 THEN n2 ELSE n1]}
=============================================================================
