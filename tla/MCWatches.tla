----------------------------- MODULE MCWatches -----------------------------
(* Small instances of Watches: the watches that are created, and the edits. *)
EXTENDS Watches

CONSTANTS x, v, e1, e2, why, d,  \* a watch id, a verifier, its values, a deadline
          Triggers, Repeats,   \* the dispositions of the watches a run creates
          EditedFields         \* the fields its updates pass, one at a time

\* With an interval and a deadline; a check without a change is a stall.
MCSpecs == {[verifier |-> v, trigger |-> p[1], repeat |-> p[2], paced |-> TRUE,
             deadline |-> d, stallAfter |-> 1] : p \in Triggers \X Repeats}

MCEdits == {[fields |-> {f}, to |-> [verifier |-> v, trigger |-> "met", repeat |-> FALSE,
                                     paced |-> FALSE, deadline |-> NoDeadline, stallAfter |-> 1]]
              : f \in EditedFields}

\* The value and the condition move separately.
MCFindings == {[met |-> FALSE, evidence |-> e1, reason |-> why],
               [met |-> TRUE, evidence |-> e1, reason |-> why],
               [met |-> FALSE, evidence |-> e2, reason |-> why]}
=============================================================================
