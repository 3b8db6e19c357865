----------------------------- MODULE MCLifecycle -----------------------------
(* Lifecycle for TLC: enough commands for a registration after an          *)
(* unregistration after a registration.                                    *)
EXTENDS Lifecycle
=============================================================================
