---------------------------- MODULE MCBackground ----------------------------
(* Small instances of Background: which jobs fan out, and from where.      *)
EXTENDS Background

CONSTANTS a1, a2, t, w,     \* the jobs runs choose from
          fan,           \* the one fan-out
          s1, s2,        \* chat sessions
          FanoutJobs,    \* jobs of the one fan-out, emitted by a turn of s1
          OtherJobs      \* jobs whose origin is s2, or nothing if s2 is no session

MCBatchOf     == [j \in Jobs |-> IF j \in FanoutJobs THEN fan ELSE NoBatch]
MCOriginOf    == [j \in Jobs |-> IF j \in OtherJobs THEN (IF s2 \in Sessions THEN s2 ELSE NoSession)
                                 ELSE s1]
MCBatchOrigin == [c \in Batches |-> s1]
=============================================================================
