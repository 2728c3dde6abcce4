----------------------------- MODULE MCLifecycle -----------------------------
(* Lifecycle for TLC: the instance is MCLifecycle.cfg.                     *)
EXTENDS Lifecycle
=============================================================================
