--------------------------- MODULE ExecutionWorker ---------------------------
(***************************************************************************)
(* The path of an execution from the API's enqueueExecution to its final   *)
(* status: ExecutionProcessorService.processExecution, run by every slot   *)
(* of every worker process on the jobs of the RunQueue, against the tables *)
(* of the ExecutionStore.                                                  *)
(*                                                                         *)
(* A step of a slot is what the handler does between two awaits, so the    *)
(* value of pc names the call the handler is about to make: two slots      *)
(* interleave at every await, and a fault can hit each of them.            *)
(***************************************************************************)
EXTENDS ExecutionStore, RunQueue

CONSTANTS
    Process,            \* worker processes
    ProcessOf,          \* the process each slot belongs to
    NoExecution,        \* what an idle slot is handling
    Results,            \* what executors may return
    FaultBound,         \* how often each kind of fault happens
    StallOutlivesStale  \* locks expire only after workerStaleExecutionMs

\* ExecuteCodeResult: how the code ended, and which limits were hit.
ExecuteCodeResult ==
    [ timedOut : BOOLEAN,
      memoryLimitExceeded : BOOLEAN,
      outputLimitExceeded : BOOLEAN,
      exitCode : {"zero", "nonzero", "null"} ]

FaultKind == {"crash", "dbError", "lockLoss", "publishLost", "restart", "hang"}

ASSUME WorkerAssumption ==
    /\ ProcessOf \in [Slot -> Process]
    /\ NoExecution \notin Execution
    /\ Results \subseteq ExecuteCodeResult
    /\ FaultBound \in [FaultKind -> Nat]
    /\ StallOutlivesStale \in BOOLEAN

VARIABLES
    pc,                 \* the call each slot makes next
    cur,                \* the execution each slot handles
    pending,            \* what each slot wants to finalize with
    publishing,         \* rows created whose queue.add has not been called
    runs,               \* history: how often each execution's code was run
    closing,            \* processes that were asked to stop
    faults              \* how many faults of each kind happened

slotVars == <<pc, cur, pending>>
vars == <<storeVars, queueVars, slotVars, publishing, runs, closing, faults>>

Label == {"idle", "find", "mark", "refind", "bump", "load", "run", "hung",
          "finalize", "commit", "returned", "threw"}

NoPayload == [status |-> "NONE", errorType |-> "NONE"]

\* What the catch block of processExecution finalizes with.
InternalError ==
    [status |-> "FAILED", errorType |-> "INTERNAL_EXECUTION_ERROR"]

Init ==
    /\ StoreInit
    /\ QueueInit
    /\ pc = [s \in Slot |-> "idle"]
    /\ cur = [s \in Slot |-> NoExecution]
    /\ pending = [s \in Slot |-> NoPayload]
    /\ publishing = {}
    /\ runs = [e \in Execution |-> 0]
    /\ closing = {}
    /\ faults = [k \in FaultKind |-> 0]

Spend(k) ==
    /\ faults[k] < FaultBound[k]
    /\ faults' = [faults EXCEPT ![k] = @ + 1]

GoTo(s, label) ==
    /\ pc' = [pc EXCEPT ![s] = label]
    /\ UNCHANGED <<cur, pending>>

-----------------------------------------------------------------------------
(* The API: the row first, the job second, nothing that ties them.         *)

\* ExecutionsService.enqueueExecution up to the commit of createQueued.
Submit(e) ==
    /\ CreateQueued(e)
    /\ publishing' = publishing \cup {e}
    /\ UNCHANGED <<queueVars, slotVars, runs, closing, faults>>

\* ... and its queue.add.
Publish(e) ==
    /\ e \in publishing
    /\ AddJob(e)
    /\ publishing' = publishing \ {e}
    /\ UNCHANGED <<storeVars, slotVars, runs, closing, faults>>

\* The API process dies, or Redis rejects the add, between the two.
PublishLost(e) ==
    /\ e \in publishing
    /\ Spend("publishLost")
    /\ publishing' = publishing \ {e}
    /\ UNCHANGED <<storeVars, queueVars, slotVars, runs, closing>>

-----------------------------------------------------------------------------
(* The handler.                                                            *)

\* BullMQ hands a job to a free slot of a process that is not closing.
Deliver(s, e) ==
    /\ pc[s] = "idle"
    /\ ProcessOf[s] \notin closing
    /\ TakeJob(s, e)
    /\ pc' = [pc EXCEPT ![s] = "find"]
    /\ cur' = [cur EXCEPT ![s] = e]
    /\ UNCHANGED <<storeVars, pending, publishing, runs, closing, faults>>

HandlerFrame == UNCHANGED <<queueVars, publishing, closing, faults>>

\* Mutant of AfterFind: a final status is not looked at.
AfterFindIgnoringTerminal(e) ==
    CASE status[e] = "QUEUED" -> "mark"
      [] status[e] = "RUNNING" /\ stale[e] -> "bump"
      [] status[e] = "RUNNING" /\ ~stale[e] -> "returned"
      [] OTHER -> "load"

\* Mutant of AfterFind: a running execution is never taken over.
AfterFindNoTakeover(e) ==
    IF status[e] = "QUEUED" THEN "mark" ELSE "returned"

\* What the handler does with the row of its first findById.
AfterFind(e) ==
    CASE status[e] = "QUEUED" -> "mark"
      [] status[e] = "RUNNING" /\ stale[e] -> "bump"
      [] OTHER -> "returned"

FindExecution(s) ==
    /\ pc[s] = "find"
    /\ GoTo(s, AfterFind(cur[s]))
    /\ UNCHANGED <<storeVars, runs>>
    /\ HandlerFrame

\* markRunning hits the row, or returns null.
ClaimExecution(s) ==
    /\ pc[s] = "mark"
    /\ \/ MarkRunning(cur[s]) /\ GoTo(s, "load")
       \/ /\ status[cur[s]] # "QUEUED"
          /\ GoTo(s, "refind")
          /\ UNCHANGED storeVars
    /\ UNCHANGED runs
    /\ HandlerFrame

\* The findById after a lost claim: only a final status stops the handler.
RefindExecution(s) ==
    /\ pc[s] = "refind"
    /\ GoTo(s, IF status[cur[s]] \in TerminalStatus THEN "returned" ELSE "load")
    /\ UNCHANGED <<storeVars, runs>>
    /\ HandlerFrame

\* A stale running execution is taken over.
TakeOver(s) ==
    /\ pc[s] = "bump"
    /\ IncrementAttempt(cur[s])
    /\ GoTo(s, "load")
    /\ UNCHANGED runs
    /\ HandlerFrame

\* The session is read and executor.execute is called.  Sessions are never
\* deleted, so the branch that finds none is not reachable.
LoadSession(s) ==
    /\ pc[s] = "load"
    /\ GoTo(s, "run")
    /\ runs' = [runs EXCEPT ![cur[s]] = @ + 1]
    /\ UNCHANGED storeVars
    /\ HandlerFrame

FailedWith(type) == [status |-> "FAILED", errorType |-> type]

\* mapFinalizePayload: a limit that was hit outranks the exit code.
MapFinalizePayload(r) ==
    IF r.timedOut THEN [status |-> "TIMEOUT", errorType |-> "TIMEOUT"]
    ELSE IF r.memoryLimitExceeded THEN FailedWith("MEMORY_LIMIT_EXCEEDED")
    ELSE IF r.outputLimitExceeded THEN FailedWith("OUTPUT_LIMIT_EXCEEDED")
    ELSE IF r.exitCode = "zero"
         THEN [status |-> "COMPLETED", errorType |-> "NONE"]
         ELSE FailedWith("RUNTIME_ERROR")

\* Mutant of StartFinalize: the payload is not kept.
StartFinalizeEmpty(s, payload) == GoTo(s, "finalize")

StartFinalize(s, payload) ==
    /\ pc' = [pc EXCEPT ![s] = "finalize"]
    /\ pending' = [pending EXCEPT ![s] = payload]
    /\ UNCHANGED cur

\* executor.execute resolves, or rejects into the catch block.
ExecuteEnds(s) ==
    /\ pc[s] = "run"
    /\ \E payload \in {MapFinalizePayload(r) : r \in Results}
                        \cup {InternalError} : StartFinalize(s, payload)
    /\ UNCHANGED <<storeVars, runs>>
    /\ HandlerFrame

\* The promise of executor.execute never settles: a program that outlives
\* its kill holds its output open.  The slot waits, and its lock is renewed,
\* for as long as the process lives.
Hang(s) ==
    /\ pc[s] = "run"
    /\ Spend("hang")
    /\ GoTo(s, "hung")
    /\ UNCHANGED <<storeVars, queueVars, publishing, runs, closing>>

\* How processExecution ends after safeFinalize: the catch block rethrows,
\* and it is the only one that finalizes with INTERNAL_EXECUTION_ERROR.
Outcome(s) == IF pending[s] = InternalError THEN "threw" ELSE "returned"

\* The read and the test at the head of finalize's transaction.
CheckFinalize(s) ==
    /\ pc[s] = "finalize"
    /\ GoTo(s, IF CanFinalize(cur[s]) THEN "commit" ELSE Outcome(s))
    /\ UNCHANGED <<storeVars, runs>>
    /\ HandlerFrame

\* Its update and its event.
CommitFinalize(s) ==
    /\ pc[s] = "commit"
    /\ Finalize(cur[s], pending[s])
    /\ GoTo(s, Outcome(s))
    /\ UNCHANGED runs
    /\ HandlerFrame

HandlerStep(s) ==
    \/ FindExecution(s) \/ ClaimExecution(s) \/ RefindExecution(s)
    \/ TakeOver(s) \/ LoadSession(s) \/ ExecuteEnds(s)
    \/ CheckFinalize(s) \/ CommitFinalize(s)

FreeSlot(s) ==
    /\ pc' = [pc EXCEPT ![s] = "idle"]
    /\ cur' = [cur EXCEPT ![s] = NoExecution]
    /\ pending' = [pending EXCEPT ![s] = NoPayload]

\* The promise BullMQ's Worker awaits is settled.
Settle(s) ==
    /\ \/ pc[s] = "returned" /\ CompleteJob(s, cur[s])
       \/ pc[s] = "threw" /\ FailJob(s, cur[s])
    /\ FreeSlot(s)
    /\ UNCHANGED <<storeVars, publishing, runs, closing, faults>>

-----------------------------------------------------------------------------
(* Failing database calls.                                                 *)

\* A call outside the try block rejects without effect.
DbCallFails(s) ==
    /\ pc[s] \in {"find", "mark", "refind", "bump", "load"}
    /\ Spend("dbError")
    /\ GoTo(s, "threw")
    /\ UNCHANGED <<storeVars, queueVars, publishing, runs, closing>>

\* Where the rejection of a finalize leads: into the catch block, which
\* finalizes once more, or out of it.
AfterFinalizeRejected(s) ==
    IF pending[s] = InternalError
    THEN GoTo(s, "threw")
    ELSE StartFinalize(s, InternalError)

\* finalize rejects and its transaction is rolled back.
FinalizeFails(s) ==
    /\ pc[s] \in {"finalize", "commit"}
    /\ Spend("dbError")
    /\ AfterFinalizeRejected(s)
    /\ UNCHANGED <<storeVars, queueVars, publishing, runs, closing>>

\* A write commits, but the connection is lost before its reply arrives.
CommitUnacked(s) ==
    /\ Spend("dbError")
    /\ \/ pc[s] = "mark" /\ MarkRunning(cur[s]) /\ GoTo(s, "threw")
       \/ pc[s] = "bump" /\ IncrementAttempt(cur[s]) /\ GoTo(s, "threw")
       \/ /\ pc[s] = "commit"
          /\ Finalize(cur[s], pending[s])
          /\ AfterFinalizeRejected(s)
    /\ UNCHANGED <<queueVars, publishing, runs, closing>>

-----------------------------------------------------------------------------
(* Processes and locks.                                                    *)

SlotsOf(p) == {s \in Slot : ProcessOf[s] = p}

\* A process is killed: its slots forget what they were doing.
Crash(p) ==
    /\ Spend("crash")
    /\ pc' = [s \in Slot |-> IF s \in SlotsOf(p) THEN "idle" ELSE pc[s]]
    /\ cur' = [s \in Slot |-> IF s \in SlotsOf(p) THEN NoExecution ELSE cur[s]]
    /\ pending' = [s \in Slot |->
                      IF s \in SlotsOf(p) THEN NoPayload ELSE pending[s]]
    /\ closing' = closing \ {p}
    /\ UNCHANGED <<storeVars, queueVars, publishing, runs>>

\* The slot that holds the lock of an active job works on it.
Held(e) == lock[e] \in Slot /\ cur[lock[e]] = e

LockMayExpire(e) ==
    StallOutlivesStale => (status[e] = "RUNNING" => stale[e])

\* The lock of a job whose process died expires.
StalledAfterCrash(e) ==
    /\ ~Held(e)
    /\ LockMayExpire(e)
    /\ StallJob(e)
    /\ UNCHANGED <<storeVars, slotVars, publishing, runs, closing, faults>>

\* A live slot loses its lock: its event loop or Redis was held up for
\* longer than the lock lives.  The handler does not notice.
LockLost(e) ==
    /\ Held(e)
    /\ LockMayExpire(e)
    /\ Spend("lockLoss")
    /\ StallJob(e)
    /\ UNCHANGED <<storeVars, slotVars, publishing, runs, closing>>

\* SIGTERM: onModuleDestroy closes the worker, which takes no new job and
\* waits for the ones it has.
Shutdown(p) ==
    /\ p \notin closing
    /\ Spend("restart")
    /\ closing' = closing \cup {p}
    /\ UNCHANGED <<storeVars, queueVars, slotVars, publishing, runs>>

\* worker.close() resolves, the process exits and is started again.
Restart(p) ==
    /\ p \in closing
    /\ \A s \in SlotsOf(p) : pc[s] = "idle"
    /\ closing' = closing \ {p}
    /\ UNCHANGED <<storeVars, queueVars, slotVars, publishing, runs, faults>>

-----------------------------------------------------------------------------
Retry(e) ==
    /\ BackoffElapses(e)
    /\ UNCHANGED <<storeVars, slotVars, publishing, runs, closing, faults>>

Age(e) ==
    /\ BecomeStale(e)
    /\ UNCHANGED <<queueVars, slotVars, publishing, runs, closing, faults>>

SlotStep(s) ==
    \/ HandlerStep(s) \/ Settle(s) \/ Hang(s)
    \/ DbCallFails(s) \/ FinalizeFails(s) \/ CommitUnacked(s)
    \/ \E e \in Execution : Deliver(s, e)

ExecutionStep(e) ==
    \/ Submit(e) \/ Publish(e) \/ PublishLost(e)
    \/ StalledAfterCrash(e) \/ LockLost(e) \/ Retry(e) \/ Age(e)

ProcessStep(p) == Crash(p) \/ Shutdown(p) \/ Restart(p)

Next ==
    \/ \E s \in Slot : SlotStep(s)
    \/ \E e \in Execution : ExecutionStep(e)
    \/ \E p \in Process : ProcessStep(p)

Spec == Init /\ [][Next]_vars

\* Running processes make progress, BullMQ delivers, retries and recovers
\* jobs, and time passes.  No fault has to happen.
WorkerFairness ==
    /\ \A s \in Slot : WF_vars(HandlerStep(s) \/ Settle(s))
    /\ \A e \in Execution :
          /\ WF_vars((\E s \in Slot : Deliver(s, e)) \/ StalledAfterCrash(e) \/ Retry(e))
          /\ WF_vars(Age(e))
    /\ \A p \in Process : WF_vars(Restart(p))

\* The API makes progress as well.  Nobody has to submit anything.
Fairness == WorkerFairness /\ \A e \in Execution : WF_vars(Publish(e))

FairSpec == Spec /\ Fairness

-----------------------------------------------------------------------------
(* Properties.                                                             *)

SlotTypeOK ==
    /\ pc \in [Slot -> Label]
    /\ cur \in [Slot -> Execution \cup {NoExecution}]
    /\ pending \in [Slot -> Payload \cup {NoPayload}]
    /\ \A s \in Slot : pc[s] # "idle" => cur[s] \in Execution
    /\ \A s \in Slot : pc[s] \in {"finalize", "commit"} => pending[s] \in Payload

\* Every variable has its type; a slot that works has an execution, and one
\* that finalizes has a payload.
TypeOK ==
    /\ StoreTypeOK
    /\ QueueTypeOK
    /\ SlotTypeOK
    /\ publishing \subseteq Execution
    /\ runs \in [Execution -> Nat]
    /\ closing \subseteq Process
    /\ faults \in [FaultKind -> Nat]

Lifecycle == INSTANCE ExecutionLifecycle

\* While no live slot loses its lock, what the worker does to an execution
\* is what ExecutionStateMachine allows, whatever crashes, database calls
\* and restarts do in between: in particular a final status is final.
ImplementsLifecycle == Lifecycle!Spec

\* While no live slot loses its lock, code is started for running
\* executions only: a redelivered job whose result was already committed
\* does not run it again.
TerminalNeverRerun ==
    [][\A s \in Slot :
          pc[s] # "run" /\ pc'[s] = "run" => status[cur[s]] = "RUNNING"]_vars

\* While no live slot loses its lock, attemptCount counts every run: code
\* is never started without a markRunning or incrementAttempt of its own.
AttemptsCoverRuns == \A e \in Execution : runs[e] <= attemptCount[e]

\* The ExecutionEvent rows are an audit trail even when several slots work
\* on one execution: they start with its creation, and the last one ends in
\* the status the row has.
AuditTrailMatchesRow ==
    \A e \in Execution :
        IF status[e] = "ABSENT"
        THEN trail[e] = << >>
        ELSE /\ trail[e] # << >>
             /\ trail[e][1] = [fromStatus |-> "NONE", toStatus |-> "QUEUED"]
             /\ trail[e][Len(trail[e])].toStatus = status[e]

\* An execution is claimed once, however often its job is delivered and
\* however many slots try: at most one of its events leaves QUEUED.
SingleClaim ==
    \A e \in Execution : \A i, j \in 1..Len(trail[e]) :
        /\ trail[e][i].fromStatus = "QUEUED"
        /\ trail[e][j].fromStatus = "QUEUED"
        => i = j

\* An execution that a poller saw finished is never seen queued or running
\* again, even when a slot that lost its lock finalizes it once more.
TerminalStaysTerminal ==
    [][\A e \in Execution :
          status[e] \in TerminalStatus => status'[e] \in TerminalStatus]_vars

\* The error types that explain a status.
Explains(type, st) ==
    /\ st = "TIMEOUT" <=> type = "TIMEOUT"
    /\ st \in {"TIMEOUT", "FAILED"} <=> type # "NONE"

\* The error type a poller reads belongs to the status it reads, also when
\* one finalize overwrote another.
ErrorTypeMatchesStatus ==
    \A e \in Execution : Explains(errorType[e], status[e])

\* With no failing database call and no more crashes than BullMQ forgives,
\* the queue never drops an execution it was given before it is finished.
NothingForgotten ==
    \A e \in Execution :
        job[e] # "none" /\ status[e] \notin TerminalStatus => job[e] \in LiveJob

Hung(e) == \E s \in Slot : pc[s] = "hung" /\ cur[s] = e

\* Under the same conditions every execution finishes, unless its own code
\* hangs: a hung run stops no other one while a slot is left.
EveryRunTerminates ==
    \A e \in Execution :
        status[e] = "QUEUED" ~> status[e] \in TerminalStatus \/ Hung(e)

\* finalize succeeds once: at most one event ends in a final status.
FinalizedOnce ==
    \A e \in Execution : \A i, j \in 1..Len(trail[e]) :
        /\ trail[e][i].toStatus \in TerminalStatus
        /\ trail[e][j].toStatus \in TerminalStatus
        => i = j

\* Two slots run the code of an execution at once only after it was stale.
FreshRunIsExclusive ==
    \A r, s \in Slot :
        /\ pc[r] = "run" /\ pc[s] = "run"
        /\ cur[r] = cur[s]
        /\ ~stale[cur[s]]
        => r = s
=============================================================================
