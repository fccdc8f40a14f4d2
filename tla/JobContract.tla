---------------------------- MODULE JobContract ----------------------------
(***************************************************************************)
(* What a client of a delegated job is promised, with no process, task or  *)
(* table in sight: the job is created once, moves along                    *)
(* queued -> running -> settled (or is cancelled from either), and at most *)
(* one assistant message answers it, after it settled and with the status  *)
(* it settled on.  The state machine is the table of JobManager.transition *)
(* (virtizai_core/jobs.py); the answer is the session message              *)
(* DelegationService adds for the job (virtizai_core/orchestration.py).    *)
(***************************************************************************)
CONSTANT Jobs              \* the job identifiers

VARIABLES
  row,                     \* row[j]: the status column of job j's row
  reply                    \* reply[j]: status in the assistant message of j

Outcomes == {"succeeded", "failed", "cancelled"}

Init ==
  /\ row = [j \in Jobs |-> "absent"]
  /\ reply = [j \in Jobs |-> "none"]

(* POST /v1/jobs or a delegation inserts the row.                          *)
Create(j) ==
  /\ row[j] = "absent"
  /\ row' = [row EXCEPT ![j] = "queued"]
  /\ UNCHANGED reply

Start(j) ==
  /\ row[j] = "queued"
  /\ row' = [row EXCEPT ![j] = "running"]
  /\ UNCHANGED reply

(* The job settles; a queued job can only be cancelled.                    *)
Settle(j, s) ==
  /\ \/ row[j] = "running" /\ s \in Outcomes
     \/ row[j] = "queued" /\ s = "cancelled"
  /\ row' = [row EXCEPT ![j] = s]
  /\ UNCHANGED reply

Answer(j) ==
  /\ row[j] \in Outcomes
  /\ reply[j] = "none"
  /\ reply' = [reply EXCEPT ![j] = row[j]]
  /\ UNCHANGED row

Next == \E j \in Jobs : \/ Create(j) \/ Start(j) \/ Answer(j)
                        \/ \E s \in Outcomes : Settle(j, s)

vars == <<row, reply>>

Spec == Init /\ [][Next]_vars
=============================================================================
