------------------------------ MODULE RunQueue ------------------------------
(***************************************************************************)
(* The BullMQ queue "code-execution-runs" as the two applications use it:  *)
(* the API adds one job per execution with jobId = executionId and         *)
(* attempts = queueAttempts (run-queue.service.ts); a worker slot takes a  *)
(* job under a lock, and the job completes when the processor resolves or  *)
(* is retried after a backoff when it throws (run-queue.worker.ts).  A job *)
(* whose lock is no longer renewed is put back, at most MaxStalledCount    *)
(* times (BullMQ's maxStalledCount, which the worker leaves at its         *)
(* default).  BullMQ and Redis are external: only what the code relies on  *)
(* is here.  Jobs are taken in any order; nothing in src/ depends on it.   *)
(***************************************************************************)
EXTENDS Executions, Naturals

CONSTANTS
    Slot,               \* concurrent processor calls, over all processes
    NoSlot,             \* no lock holder
    QueueAttempts,      \* AppConfigService.queueAttempts
    MaxStalledCount     \* BullMQ's maxStalledCount

ASSUME QueueAssumption ==
    /\ NoSlot \notin Slot
    /\ QueueAttempts \in Nat \ {0}
    /\ MaxStalledCount \in Nat

VARIABLES
    job,                \* state of the job of each execution
    attemptsMade,       \* failed attempts of the job
    stalledCount,       \* times the job was found stalled
    lock                \* slot that holds the lock of the job

queueVars == <<job, attemptsMade, stalledCount, lock>>

JobState == {"none", "wait", "active", "delayed", "completed", "failed"}

\* States from which BullMQ will still deliver, or is delivering, the job.
LiveJob == {"wait", "active", "delayed"}

QueueTypeOK ==
    /\ job \in [Execution -> JobState]
    /\ attemptsMade \in [Execution -> 0..QueueAttempts]
    /\ stalledCount \in [Execution -> 0..(MaxStalledCount + 1)]
    /\ lock \in [Execution -> Slot \cup {NoSlot}]

QueueInit ==
    /\ job = [e \in Execution |-> "none"]
    /\ attemptsMade = [e \in Execution |-> 0]
    /\ stalledCount = [e \in Execution |-> 0]
    /\ lock = [e \in Execution |-> NoSlot]

-----------------------------------------------------------------------------
\* RunQueueService.enqueueExecution: queue.add with jobId = executionId.
AddJob(e) ==
    /\ job[e] = "none"
    /\ job' = [job EXCEPT ![e] = "wait"]
    /\ UNCHANGED <<attemptsMade, stalledCount, lock>>

\* A slot takes a waiting job and its lock.
TakeJob(s, e) ==
    /\ job[e] = "wait"
    /\ job' = [job EXCEPT ![e] = "active"]
    /\ lock' = [lock EXCEPT ![e] = s]
    /\ UNCHANGED <<attemptsMade, stalledCount>>

\* The processor resolved.  Without the lock BullMQ refuses the move.
CompleteJob(s, e) ==
    \/ /\ lock[e] = s
       /\ job' = [job EXCEPT ![e] = "completed"]
       /\ lock' = [lock EXCEPT ![e] = NoSlot]
       /\ UNCHANGED <<attemptsMade, stalledCount>>
    \/ /\ lock[e] # s
       /\ UNCHANGED queueVars

\* The processor threw: retry after the backoff while attempts remain.
FailJob(s, e) ==
    \/ /\ lock[e] = s
       /\ attemptsMade' = [attemptsMade EXCEPT ![e] = @ + 1]
       /\ job' = [job EXCEPT ![e] =
                     IF attemptsMade[e] + 1 < QueueAttempts
                     THEN "delayed" ELSE "failed"]
       /\ lock' = [lock EXCEPT ![e] = NoSlot]
       /\ UNCHANGED stalledCount
    \/ /\ lock[e] # s
       /\ UNCHANGED queueVars

\* The exponential backoff (500 ms, 1 s, ...) is over.
BackoffElapses(e) ==
    /\ job[e] = "delayed"
    /\ job' = [job EXCEPT ![e] = "wait"]
    /\ UNCHANGED <<attemptsMade, stalledCount, lock>>

\* The stalled-job check finds an active job whose lock has expired.
StallJob(e) ==
    /\ job[e] = "active"
    /\ stalledCount' = [stalledCount EXCEPT ![e] = @ + 1]
    /\ job' = [job EXCEPT ![e] =
                  IF stalledCount[e] + 1 > MaxStalledCount
                  THEN "failed" ELSE "wait"]
    /\ lock' = [lock EXCEPT ![e] = NoSlot]
    /\ UNCHANGED attemptsMade
=============================================================================
