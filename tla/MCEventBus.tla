----------------------------- MODULE MCEventBus -----------------------------
(* A small instance of EventBus.                                           *)
EXTENDS EventBus, TLC

CONSTANTS x   \* a console
=============================================================================
