--------------------------- MODULE ExecutionStore ---------------------------
(***************************************************************************)
(* The Execution and ExecutionEvent tables and the repository methods both *)
(* applications use on them (prisma-execution.repository.ts).  PostgreSQL  *)
(* runs Prisma's transactions at READ COMMITTED: a method whose guard is   *)
(* part of its UPDATE is one step, and finalize, which reads the row and   *)
(* then updates it by id alone, is the pair CanFinalize / Finalize with a  *)
(* point between them where another transaction may commit.                *)
(*                                                                         *)
(* startedAt is kept as the only thing the code asks of it: whether it is  *)
(* more than workerStaleExecutionMs ago.  markRunning sets startedAt once  *)
(* and nothing resets it, so "stale" only ever goes from FALSE to TRUE.    *)
(***************************************************************************)
EXTENDS Executions, Naturals, Sequences

VARIABLES
    status,             \* Execution.status, "ABSENT" before the row exists
    errorType,          \* Execution.errorType, "NONE" for SQL null
    attemptCount,       \* Execution.attemptCount
    stale,              \* Date.now() - startedAt > workerStaleExecutionMs
    trail               \* the ExecutionEvent rows, in commit order

storeVars == <<status, errorType, attemptCount, stale, trail>>

ErrorType == {"NONE", "TIMEOUT", "MEMORY_LIMIT_EXCEEDED",
              "OUTPUT_LIMIT_EXCEEDED", "RUNTIME_ERROR",
              "INTERNAL_EXECUTION_ERROR"}

\* FinalizeExecutionInput, without the output text.
Payload == [status : TerminalStatus, errorType : ErrorType]

ExecutionEvent == [fromStatus : Status \cup {"NONE"}, toStatus : Status]

Record(e, from, to) ==
    trail' = [trail EXCEPT ![e] =
                 Append(@, [fromStatus |-> from, toStatus |-> to])]

StoreTypeOK ==
    /\ status \in [Execution -> Status \cup {"ABSENT"}]
    /\ errorType \in [Execution -> ErrorType]
    /\ attemptCount \in [Execution -> Nat]
    /\ stale \in [Execution -> BOOLEAN]
    /\ trail \in [Execution -> Seq(ExecutionEvent)]

StoreInit ==
    /\ status = [e \in Execution |-> "ABSENT"]
    /\ errorType = [e \in Execution |-> "NONE"]
    /\ attemptCount = [e \in Execution |-> 0]
    /\ stale = [e \in Execution |-> FALSE]
    /\ trail = [e \in Execution |-> << >>]

-----------------------------------------------------------------------------
\* createQueued: the row and its first event in one transaction.
CreateQueued(e) ==
    /\ status[e] = "ABSENT"
    /\ status' = [status EXCEPT ![e] = "QUEUED"]
    /\ Record(e, "NONE", "QUEUED")
    /\ UNCHANGED <<errorType, attemptCount, stale>>

\* Mutant of MarkRunning: the updateMany filters by id only.
MarkRunningUnguarded(e) ==
    /\ status' = [status EXCEPT ![e] = "RUNNING"]
    /\ attemptCount' = [attemptCount EXCEPT ![e] = @ + 1]
    /\ Record(e, "QUEUED", "RUNNING")
    /\ UNCHANGED <<errorType, stale>>

\* markRunning, when its guarded updateMany hits the row.
MarkRunning(e) ==
    /\ status[e] = "QUEUED"
    /\ status' = [status EXCEPT ![e] = "RUNNING"]
    /\ attemptCount' = [attemptCount EXCEPT ![e] = @ + 1]
    /\ Record(e, "QUEUED", "RUNNING")
    /\ UNCHANGED <<errorType, stale>>

\* Mutant of IncrementAttempt: the takeover is not counted.
IncrementAttemptForgotten(e) == UNCHANGED storeVars

\* incrementAttempt.
IncrementAttempt(e) ==
    /\ attemptCount' = [attemptCount EXCEPT ![e] = @ + 1]
    /\ UNCHANGED <<status, errorType, stale, trail>>

\* Mutant of CanFinalize: only the absence of the row is tested.
CanFinalizeUnguarded(e) == status[e] # "ABSENT"

\* Mutant of CanFinalize: only the first attempt may finalize.
CanFinalizeFirstAttempt(e) == status[e] = "RUNNING" /\ attemptCount[e] = 1

\* The findUnique of finalize and the test on what it returned.
CanFinalize(e) == status[e] = "RUNNING"

\* Mutant of Finalize: the row is updated, the event is not created.
FinalizeWithoutEvent(e, payload) ==
    /\ status' = [status EXCEPT ![e] = payload.status]
    /\ errorType' = [errorType EXCEPT ![e] = payload.errorType]
    /\ UNCHANGED <<attemptCount, stale, trail>>

\* Mutant of Finalize: an execution that will be retried is queued again.
FinalizeForRetry(e, payload) ==
    /\ status' = [status EXCEPT ![e] =
                     IF payload.errorType = "INTERNAL_EXECUTION_ERROR"
                     THEN "QUEUED" ELSE payload.status]
    /\ errorType' = [errorType EXCEPT ![e] = payload.errorType]
    /\ Record(e, "RUNNING", payload.status)
    /\ UNCHANGED <<attemptCount, stale>>

\* Mutant of Finalize: Prisma skips the undefined errorType of a success.
FinalizeKeepingErrorType(e, payload) ==
    /\ status' = [status EXCEPT ![e] = payload.status]
    /\ errorType' = [errorType EXCEPT ![e] =
                        IF payload.errorType = "NONE" THEN @ ELSE payload.errorType]
    /\ Record(e, "RUNNING", payload.status)
    /\ UNCHANGED <<attemptCount, stale>>

\* The update by id and the event of finalize, committed together.
Finalize(e, payload) ==
    /\ status' = [status EXCEPT ![e] = payload.status]
    /\ errorType' = [errorType EXCEPT ![e] = payload.errorType]
    /\ Record(e, "RUNNING", payload.status)
    /\ UNCHANGED <<attemptCount, stale>>

\* Time moves startedAt of a running row past workerStaleExecutionMs.
BecomeStale(e) ==
    /\ status[e] = "RUNNING"
    /\ ~stale[e]
    /\ stale' = [stale EXCEPT ![e] = TRUE]
    /\ UNCHANGED <<status, errorType, attemptCount, trail>>
=============================================================================
