------------------------- MODULE BackgroundDelivery -------------------------
(***************************************************************************)
(* What the background-job registry promises its callers: an accepted job  *)
(* settles once, with one final status, and that status is handed to the   *)
(* chat session that asked for it exactly once.  How a job settles (its    *)
(* turn's terminal hook, a delivery error, an operator's cancel, a restart)*)
(* and which turn does the handing over is left to module Background.      *)
(***************************************************************************)
CONSTANTS Jobs, OriginOf

VARIABLES status,   \* the status of every job
          told      \* the jobs whose outcome a turn of their session has read

Terminal == {"completed", "failed", "canceled"}

TypeOK == /\ status \in [Jobs -> {"none", "running"} \cup Terminal]
          /\ told \subseteq Jobs

Init == /\ status = [j \in Jobs |-> "none"]
        /\ told = {}

\* A job is accepted: it is running from the moment the caller has its id.
Accept(j) == /\ status[j] = "none"
             /\ status' = [status EXCEPT ![j] = "running"]
             /\ UNCHANGED told

\* Running jobs settle, several at once only because a restart settles all.
Settle(S) == /\ S # {} /\ \A j \in S : status[j] = "running"
             /\ \E f \in [S -> Terminal] :
                  status' = [j \in Jobs |-> IF j \in S THEN f[j] ELSE status[j]]
             /\ UNCHANGED told

\* A turn of a session is handed every settled job of it not handed over yet.
Pending(s) == {j \in Jobs \ told : OriginOf[j] = s /\ status[j] \in Terminal}

Announce(s) == /\ Pending(s) # {}
               /\ told' = told \cup Pending(s)
               /\ UNCHANGED status

Next == \/ \E j \in Jobs : Accept(j)
        \/ \E S \in SUBSET Jobs : Settle(S)
        \/ \E s \in {OriginOf[j] : j \in Jobs} : Announce(s)

Spec == Init /\ [][Next]_<<status, told>>
=============================================================================
