------------------------------- MODULE MCJobs -------------------------------
(***************************************************************************)
(* Jobs on a small instance: two jobs of any mixture of the five kinds     *)
(* and a semaphore of one slot.                                            *)
(***************************************************************************)
EXTENDS Jobs

CONSTANTS j1, j2

AllKinds == {"codex", "tool", "delegate", "managed", "created"}
=============================================================================
