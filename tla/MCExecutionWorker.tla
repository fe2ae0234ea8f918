-------------------------- MODULE MCExecutionWorker --------------------------
(***************************************************************************)
(* Instances of ExecutionWorker for TLC.  The .cfg files choose the sets,  *)
(* how often each kind of fault may happen, and what executors return.     *)
(***************************************************************************)
EXTENDS ExecutionWorker, TLC

CONSTANTS p1, p2, s1, s2, s3, e1, e2

\* Two processes with one slot each (WORKER_CONCURRENCY = 1).
OneSlotEach == s1 :> p1 @@ s2 :> p2

\* One process with three slots, which nothing tells apart.
ThreeInOne == s1 :> p1 @@ s2 :> p1 @@ s3 :> p1

SlotSymmetry == Permutations({s1, s2, s3})

Result(timedOut, memory, output, exitCode) ==
    [ timedOut |-> timedOut,
      memoryLimitExceeded |-> memory,
      outputLimitExceeded |-> output,
      exitCode |-> exitCode ]

\* The code ends well, or the kill at the time limit races its exit.
OkOrTimeout == {Result(FALSE, FALSE, FALSE, "zero"),
                Result(TRUE, FALSE, FALSE, "zero")}

\* One result for each line of mapFinalizePayload.
EveryKind == OkOrTimeout \cup
    { Result(FALSE, TRUE, FALSE, "null"), Result(FALSE, FALSE, TRUE, "null"),
      Result(FALSE, FALSE, FALSE, "nonzero") }

Faults(crash, dbError, lockLoss, publishLost, restart, hang) ==
    [ crash |-> crash, dbError |-> dbError, lockLoss |-> lockLoss,
      publishLost |-> publishLost, restart |-> restart, hang |-> hang ]

\* Everything but a live slot losing its lock.
AllButLockLoss == Faults(1, 1, 0, 1, 1, 0)

\* Live slots lose their locks, and a database call fails.
LockLosses == Faults(0, 1, 2, 0, 0, 0)

\* What BullMQ's recovery is for: a crash, a restart and a run that hangs.
CrashAndRestart == Faults(1, 0, 0, 0, 1, 1)

OneLockLoss == Faults(0, 0, 1, 0, 0, 0)
OneCrash == Faults(1, 0, 0, 0, 0, 0)
OneDbError == Faults(0, 1, 0, 0, 0, 0)
=============================================================================
