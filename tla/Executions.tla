----------------------------- MODULE Executions -----------------------------
(***************************************************************************)
(* The vocabulary the database and the queue share: which executions there *)
(* can be and the values of ExecutionStatus.                               *)
(***************************************************************************)
CONSTANT Execution      \* the ids (UUIDs) executions may get

TerminalStatus == {"COMPLETED", "FAILED", "TIMEOUT"}

Status == {"QUEUED", "RUNNING"} \cup TerminalStatus
=============================================================================
