----------------------------- MODULE MCLifecycle -----------------------------
(* Lifecycle with constants for TLC. *)
EXTENDS Lifecycle

CONSTANTS c1, c2
=============================================================================
