----------------------------- MODULE MCLifecycle -----------------------------
(* Small instances of the lifecycle for TLC: their constants are plain sets,  *)
(* given in the configuration.                                                *)
EXTENDS Lifecycle
=============================================================================
