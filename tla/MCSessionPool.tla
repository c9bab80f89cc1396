---------------------------- MODULE MCSessionPool ----------------------------
(* A small instance of SessionPool.                                        *)
EXTENDS SessionPool, TLC

CONSTANTS a, b   \* calls
=============================================================================
