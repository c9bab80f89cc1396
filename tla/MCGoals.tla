------------------------------ MODULE MCGoals ------------------------------
(* A small instance of Goals: a streaming drive and a plain one.           *)
EXTENDS Goals, TLC

CONSTANTS s1, p1, x, y, z
OneOfEach == {s1, p1}
=============================================================================
