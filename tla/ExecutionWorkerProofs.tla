------------------------ MODULE ExecutionWorkerProofs ------------------------
(***************************************************************************)
(* What ExecutionWorker guarantees for every number of executions, slots   *)
(* and processes, every queue setting and every fault bound.               *)
(*                                                                         *)
(* The argument is built in three layers.  QueueInv, with the types, says  *)
(* what BullMQ's counters and lock owner mean for the state of a job.      *)
(* HistoryInv adds the shape of the event rows to it; it does not need     *)
(* locks to be exclusive.  OwnerInv, for deployments whose live slots keep *)
(* their locks, says what the holder of a lock may conclude about the row. *)
(***************************************************************************)
EXTENDS ExecutionWorker, TLAPS

\* A job that can still be delivered has attempts left, and only an active
\* job has a lock.
QueueInv ==
    \A e \in Execution :
        /\ job[e] \in LiveJob \cup {"none"} =>
              attemptsMade[e] < QueueAttempts /\ stalledCount[e] <= MaxStalledCount
        /\ lock[e] # NoSlot <=> job[e] = "active"

TypeInv == TypeOK /\ QueueInv

-----------------------------------------------------------------------------
(* The operations of the store and of the queue keep their types.          *)

\* What any table write leaves well typed, one lemma per write.
LEMMA RecordType ==
    ASSUME StoreTypeOK, NEW e \in Execution,
           NEW from \in Status \cup {"NONE"}, NEW to \in Status,
           Record(e, from, to)
    PROVE  trail' \in [Execution -> Seq(ExecutionEvent)]
<1> DEFINE event == [fromStatus |-> from, toStatus |-> to]
<1>1. event \in ExecutionEvent
  BY DEF ExecutionEvent
<1>2. trail[e] \in Seq(ExecutionEvent)
  BY DEF StoreTypeOK
<1>3. Append(trail[e], event) \in Seq(ExecutionEvent)
  BY <1>1, <1>2
<1>4. trail' = [trail EXCEPT ![e] = Append(trail[e], event)]
  BY DEF Record
<1> QED
  BY <1>3, <1>4 DEF StoreTypeOK

\* createQueued keeps the tables well typed.
LEMMA CreateQueuedType ==
    ASSUME StoreTypeOK, NEW e \in Execution, CreateQueued(e)
    PROVE  StoreTypeOK'
<1>1. trail' \in [Execution -> Seq(ExecutionEvent)]
  BY RecordType DEF CreateQueued, Status
<1> QED
  BY <1>1 DEF CreateQueued, StoreTypeOK, Status

\* markRunning keeps the tables well typed.
LEMMA MarkRunningType ==
    ASSUME StoreTypeOK, NEW e \in Execution, MarkRunning(e)
    PROVE  StoreTypeOK'
<1>1. trail' \in [Execution -> Seq(ExecutionEvent)]
  BY RecordType DEF MarkRunning, Status
<1>2. status' \in [Execution -> Status \cup {"ABSENT"}]
  BY DEF MarkRunning, StoreTypeOK, Status
<1>3. attemptCount' \in [Execution -> Nat]
  BY DEF MarkRunning, StoreTypeOK
<1> QED
  BY <1>1, <1>2, <1>3 DEF MarkRunning, StoreTypeOK

\* incrementAttempt keeps the tables well typed.
LEMMA IncrementAttemptType ==
    ASSUME StoreTypeOK, NEW e \in Execution, IncrementAttempt(e)
    PROVE  StoreTypeOK'
BY DEF IncrementAttempt, StoreTypeOK

\* finalize keeps the tables well typed.
LEMMA FinalizeType ==
    ASSUME StoreTypeOK, NEW e \in Execution, NEW payload \in Payload,
           Finalize(e, payload)
    PROVE  StoreTypeOK'
<1>1. payload.status \in TerminalStatus /\ payload.errorType \in ErrorType
  BY DEF Payload
<1>2. trail' \in [Execution -> Seq(ExecutionEvent)]
  BY <1>1, RecordType DEF Finalize, Status
<1> QED
  BY <1>1, <1>2 DEF Finalize, StoreTypeOK, Status

\* BecomeStale keeps the tables well typed.
LEMMA BecomeStaleType ==
    ASSUME StoreTypeOK, NEW e \in Execution, BecomeStale(e)
    PROVE  StoreTypeOK'
BY DEF BecomeStale, StoreTypeOK

\* A new job starts with all its attempts.
LEMMA AddJobQueue ==
    ASSUME QueueTypeOK, QueueInv, NEW e \in Execution, AddJob(e)
    PROVE  QueueTypeOK' /\ QueueInv'
<1>1. QueueTypeOK'
  BY DEF AddJob, QueueTypeOK, JobState
<1>2. QueueInv'
  BY <1>1, QueueAssumption DEF AddJob, QueueTypeOK, QueueInv, LiveJob, JobState
<1> QED
  BY <1>1, <1>2

\* Taking a job makes the taker its only lock holder.
LEMMA TakeJobQueue ==
    ASSUME QueueTypeOK, QueueInv, NEW s \in Slot, NEW e \in Execution,
           TakeJob(s, e)
    PROVE  QueueTypeOK' /\ QueueInv'
<1>1. QueueTypeOK'
  BY DEF TakeJob, QueueTypeOK, JobState
<1>2. QueueInv'
  BY QueueAssumption DEF TakeJob, QueueTypeOK, QueueInv, LiveJob, JobState
<1> QED
  BY <1>1, <1>2

\* Completing a job releases its lock, or is refused.
LEMMA CompleteJobQueue ==
    ASSUME QueueTypeOK, QueueInv, NEW s \in Slot, NEW e \in Execution,
           CompleteJob(s, e)
    PROVE  QueueTypeOK' /\ QueueInv'
<1>1. CASE UNCHANGED queueVars
  BY <1>1 DEF queueVars, QueueTypeOK, QueueInv
<1>2. CASE ~ UNCHANGED queueVars
  <2>1. QueueTypeOK'
    BY <1>2 DEF CompleteJob, QueueTypeOK, JobState
  <2>2. QueueInv'
    BY <1>2 DEF CompleteJob, QueueTypeOK, QueueInv, LiveJob, JobState
  <2> QED
    BY <2>1, <2>2
<1> QED
  BY <1>1, <1>2

\* Failing a job consumes an attempt it still had, or is refused.
LEMMA FailJobQueue ==
    ASSUME QueueTypeOK, QueueInv, NEW s \in Slot, NEW e \in Execution,
           FailJob(s, e)
    PROVE  QueueTypeOK' /\ QueueInv'
<1>1. CASE UNCHANGED queueVars
  BY <1>1 DEF queueVars, QueueTypeOK, QueueInv
<1>2. CASE ~ UNCHANGED queueVars
  <2>1. lock[e] = s /\ job[e] = "active" /\ attemptsMade[e] < QueueAttempts
    BY <1>2, QueueAssumption DEF FailJob, QueueTypeOK, QueueInv, LiveJob
  <2>2. attemptsMade[e] + 1 \in 0..QueueAttempts
    BY <2>1, QueueAssumption DEF QueueTypeOK
  <2>3. QueueTypeOK'
    BY <1>2, <2>2 DEF FailJob, QueueTypeOK, JobState
  <2>4. QueueInv'
    BY <1>2, <2>1 DEF FailJob, QueueTypeOK, QueueInv, LiveJob, JobState
  <2> QED
    BY <2>3, <2>4
<1> QED
  BY <1>1, <1>2

\* The backoff does not change what is left of a job's attempts.
LEMMA BackoffElapsesQueue ==
    ASSUME QueueTypeOK, QueueInv, NEW e \in Execution, BackoffElapses(e)
    PROVE  QueueTypeOK' /\ QueueInv'
BY DEF BackoffElapses, QueueTypeOK, QueueInv, LiveJob, JobState

\* A stalled job is put back only while BullMQ forgives it.
LEMMA StallJobQueue ==
    ASSUME QueueTypeOK, QueueInv, NEW e \in Execution, StallJob(e)
    PROVE  QueueTypeOK' /\ QueueInv'
<1>1. stalledCount[e] <= MaxStalledCount
  BY DEF StallJob, QueueInv, LiveJob
<1>2. stalledCount[e] + 1 \in 0..(MaxStalledCount + 1)
  BY <1>1, QueueAssumption DEF QueueTypeOK
<1>3. QueueTypeOK'
  BY <1>2 DEF StallJob, QueueTypeOK, JobState
<1>4. QueueInv'
  BY <1>1, QueueAssumption
  DEF StallJob, QueueTypeOK, QueueInv, LiveJob, JobState
<1> QED
  BY <1>3, <1>4

-----------------------------------------------------------------------------
(* The moves of a slot keep its types.                                     *)

\* A slot that has an execution may go to any label; to the labels of
\* finalize only with a payload in hand.
LEMMA GoToType ==
    ASSUME SlotTypeOK, NEW s \in Slot, NEW label \in Label,
           pc[s] # "idle",
           label \in {"finalize", "commit"} => pending[s] \in Payload,
           GoTo(s, label)
    PROVE  SlotTypeOK'
BY DEF GoTo, SlotTypeOK

\* StartFinalize stores the payload it goes to finalize with.
LEMMA StartFinalizeType ==
    ASSUME SlotTypeOK, NEW s \in Slot, NEW payload \in Payload,
           pc[s] # "idle",
           StartFinalize(s, payload)
    PROVE  SlotTypeOK'
BY DEF StartFinalize, SlotTypeOK, Label

\* A freed slot is idle.
LEMMA FreeSlotType ==
    ASSUME SlotTypeOK, NEW s \in Slot, FreeSlot(s)
    PROVE  SlotTypeOK'
BY DEF FreeSlot, SlotTypeOK, Label

\* mapFinalizePayload and the catch block produce well-formed payloads.
LEMMA PayloadType ==
    /\ \A r \in Results : MapFinalizePayload(r) \in Payload
    /\ InternalError \in Payload
BY DEF MapFinalizePayload, FailedWith, InternalError, Payload, TerminalStatus,
       ErrorType

\* A rejected finalize leads on with a payload or out of the handler.
LEMMA AfterFinalizeRejectedType ==
    ASSUME SlotTypeOK, NEW s \in Slot, pc[s] # "idle", AfterFinalizeRejected(s)
    PROVE  SlotTypeOK'
<1>1. CASE pending[s] = InternalError
  BY <1>1, GoToType DEF AfterFinalizeRejected, Label
<1>2. CASE pending[s] # InternalError
  BY <1>2, StartFinalizeType, PayloadType DEF AfterFinalizeRejected
<1> QED
  BY <1>1, <1>2

\* Outcome is one of the two ways processExecution ends.
LEMMA OutcomeType == \A s \in Slot : Outcome(s) \in {"returned", "threw"}
BY DEF Outcome

\* A fault is counted.
LEMMA SpendType ==
    ASSUME faults \in [FaultKind -> Nat], NEW k \in FaultKind, Spend(k)
    PROVE  faults' \in [FaultKind -> Nat]
BY DEF Spend

-----------------------------------------------------------------------------
(* TypeInv is inductive.                                                   *)

\* The initial state is well typed.
LEMMA TypeInvInit == Init => TypeInv
<1> SUFFICES ASSUME Init PROVE TypeInv
  OBVIOUS
<1> USE DEF Init
<1>1. StoreTypeOK
  BY DEF StoreInit, StoreTypeOK, ErrorType
<1>2. QueueTypeOK /\ QueueInv
  BY QueueAssumption DEF QueueInit, QueueTypeOK, QueueInv, LiveJob, JobState
<1>3. SlotTypeOK
  BY DEF SlotTypeOK, Label
<1> QED
  BY <1>1, <1>2, <1>3 DEF TypeInv, TypeOK

\* A step of the handler changes the tables by well-typed writes only and
\* leaves the queue alone.
LEMMA HandlerStepType ==
    ASSUME TypeInv, NEW s \in Slot, HandlerStep(s)
    PROVE  TypeInv'
<1> USE DEF TypeInv, TypeOK
<1> DEFINE e == cur[s]
<1>1. pc[s] # "idle" /\ e \in Execution
  BY DEF HandlerStep, FindExecution, ClaimExecution, RefindExecution, TakeOver,
         LoadSession, ExecuteEnds, CheckFinalize, CommitFinalize, SlotTypeOK
<1>2. HandlerFrame
  BY DEF HandlerStep, FindExecution, ClaimExecution, RefindExecution, TakeOver,
         LoadSession, ExecuteEnds, CheckFinalize, CommitFinalize
<1>3. QueueTypeOK' /\ QueueInv' /\ (publishing \subseteq Execution)'
        /\ (closing \subseteq Process)' /\ (faults \in [FaultKind -> Nat])'
  BY <1>2 DEF HandlerFrame, queueVars, QueueTypeOK, QueueInv
<1>4. (runs \in [Execution -> Nat])'
  BY <1>1 DEF HandlerStep, FindExecution, ClaimExecution, RefindExecution,
              TakeOver, LoadSession, ExecuteEnds, CheckFinalize, CommitFinalize
<1>5. StoreTypeOK' /\ SlotTypeOK'
  <2>1. CASE FindExecution(s)
    <3>1. AfterFind(e) \in Label \ {"finalize", "commit"}
      BY DEF AfterFind, Label
    <3> QED
      BY <1>1, <2>1, <3>1, GoToType
      DEF FindExecution, storeVars, StoreTypeOK
  <2>2. CASE ClaimExecution(s)
    <3>1. CASE MarkRunning(e) /\ GoTo(s, "load")
      BY <1>1, <3>1, MarkRunningType, GoToType DEF Label
    <3>2. CASE GoTo(s, "refind") /\ UNCHANGED storeVars
      BY <1>1, <3>2, GoToType DEF Label, storeVars, StoreTypeOK
    <3> QED
      BY <2>2, <3>1, <3>2 DEF ClaimExecution
  <2>3. CASE RefindExecution(s)
    BY <1>1, <2>3, GoToType DEF RefindExecution, storeVars, StoreTypeOK, Label
  <2>4. CASE TakeOver(s)
    BY <1>1, <2>4, IncrementAttemptType, GoToType DEF TakeOver, Label
  <2>5. CASE LoadSession(s)
    BY <1>1, <2>5, GoToType DEF LoadSession, storeVars, StoreTypeOK, Label
  <2>6. CASE ExecuteEnds(s)
    BY <1>1, <2>6, StartFinalizeType, PayloadType
    DEF ExecuteEnds, storeVars, StoreTypeOK
  <2>7. CASE CheckFinalize(s)
    <3>1. pending[s] \in Payload
      BY <2>7 DEF CheckFinalize, SlotTypeOK
    <3> QED
      BY <1>1, <2>7, <3>1, GoToType, OutcomeType
      DEF CheckFinalize, storeVars, StoreTypeOK, Label
  <2>8. CASE CommitFinalize(s)
    <3>1. pending[s] \in Payload
      BY <2>8 DEF CommitFinalize, SlotTypeOK
    <3> QED
      BY <1>1, <2>8, <3>1, FinalizeType, GoToType, OutcomeType
      DEF CommitFinalize, Label
  <2> QED
    BY <2>1, <2>2, <2>3, <2>4, <2>5, <2>6, <2>7, <2>8 DEF HandlerStep
<1> QED
  BY <1>3, <1>4, <1>5

\* The database faults write what the handler would have written, or
\* nothing.
LEMMA DbFaultType ==
    ASSUME TypeInv, NEW s \in Slot,
           DbCallFails(s) \/ FinalizeFails(s) \/ CommitUnacked(s)
    PROVE  TypeInv'
<1> USE DEF TypeInv, TypeOK
<1> DEFINE e == cur[s]
<1>1. pc[s] # "idle" /\ e \in Execution
  BY DEF DbCallFails, FinalizeFails, CommitUnacked, SlotTypeOK
<1>2. UNCHANGED <<queueVars, publishing, runs, closing>> /\ Spend("dbError")
  BY DEF DbCallFails, FinalizeFails, CommitUnacked
<1>3. QueueTypeOK' /\ QueueInv' /\ (publishing \subseteq Execution)'
        /\ (closing \subseteq Process)' /\ (runs \in [Execution -> Nat])'
        /\ (faults \in [FaultKind -> Nat])'
  <2>1. (faults \in [FaultKind -> Nat])'
    BY <1>2, SpendType DEF FaultKind
  <2> QED
    BY <1>2, <2>1 DEF queueVars, QueueTypeOK, QueueInv
<1>4. StoreTypeOK' /\ SlotTypeOK'
  <2>1. CASE DbCallFails(s)
    BY <1>1, <2>1, GoToType DEF DbCallFails, storeVars, StoreTypeOK, Label
  <2>2. CASE FinalizeFails(s)
    BY <1>1, <2>2, AfterFinalizeRejectedType
    DEF FinalizeFails, storeVars, StoreTypeOK
  <2>3. CASE CommitUnacked(s)
    <3>1. CASE MarkRunning(e) /\ GoTo(s, "threw")
      BY <1>1, <3>1, MarkRunningType, GoToType DEF Label
    <3>2. CASE IncrementAttempt(e) /\ GoTo(s, "threw")
      BY <1>1, <3>2, IncrementAttemptType, GoToType DEF Label
    <3>3. CASE /\ pc[s] = "commit"
               /\ Finalize(e, pending[s]) /\ AfterFinalizeRejected(s)
      <4>1. pending[s] \in Payload
        BY <3>3 DEF SlotTypeOK
      <4> QED
        BY <1>1, <3>3, <4>1, FinalizeType, AfterFinalizeRejectedType
    <3> QED
      BY <2>3, <3>1, <3>2, <3>3 DEF CommitUnacked
  <2> QED
    BY <2>1, <2>2, <2>3
<1> QED
  BY <1>3, <1>4

\* Every step keeps TypeInv.
LEMMA TypeInvStep ==
    ASSUME TypeInv, [Next]_vars
    PROVE  TypeInv'
<1> USE DEF TypeInv, TypeOK
<1>1. ASSUME NEW s \in Slot, HandlerStep(s) PROVE TypeInv'
  BY <1>1, HandlerStepType
<1>2. ASSUME NEW s \in Slot, Settle(s) PROVE TypeInv'
  <2>1. cur[s] \in Execution
    BY <1>2 DEF Settle, SlotTypeOK
  <2>2. QueueTypeOK' /\ QueueInv'
    BY <1>2, <2>1, CompleteJobQueue, FailJobQueue DEF Settle
  <2>3. SlotTypeOK'
    BY <1>2, FreeSlotType DEF Settle
  <2> QED
    BY <1>2, <2>2, <2>3 DEF Settle, storeVars, StoreTypeOK
<1>14. ASSUME NEW s \in Slot, Hang(s) PROVE TypeInv'
  <2>1. (faults \in [FaultKind -> Nat])'
    BY <1>14, SpendType DEF Hang, FaultKind
  <2>2. SlotTypeOK'
    BY <1>14, GoToType DEF Hang, SlotTypeOK, Label
  <2> QED
    BY <1>14, <2>1, <2>2 DEF Hang, storeVars, StoreTypeOK, queueVars,
                             QueueTypeOK, QueueInv
<1>3. ASSUME NEW s \in Slot,
             DbCallFails(s) \/ FinalizeFails(s) \/ CommitUnacked(s)
      PROVE  TypeInv'
  BY <1>3, DbFaultType
<1>4. ASSUME NEW s \in Slot, NEW e \in Execution, Deliver(s, e) PROVE TypeInv'
  <2>1. QueueTypeOK' /\ QueueInv'
    BY <1>4, TakeJobQueue DEF Deliver
  <2>2. SlotTypeOK'
    BY <1>4 DEF Deliver, SlotTypeOK, Label
  <2> QED
    BY <1>4, <2>1, <2>2 DEF Deliver, storeVars, StoreTypeOK
<1>5. ASSUME NEW e \in Execution, Submit(e) PROVE TypeInv'
  BY <1>5, CreateQueuedType
  DEF Submit, queueVars, QueueTypeOK, QueueInv, slotVars, SlotTypeOK
<1>6. ASSUME NEW e \in Execution, Publish(e) PROVE TypeInv'
  <2>1. QueueTypeOK' /\ QueueInv'
    BY <1>6, AddJobQueue DEF Publish
  <2> QED
    BY <1>6, <2>1 DEF Publish, storeVars, StoreTypeOK, slotVars, SlotTypeOK
<1>7. ASSUME NEW e \in Execution, PublishLost(e) PROVE TypeInv'
  <2>1. (faults \in [FaultKind -> Nat])'
    BY <1>7, SpendType DEF PublishLost, FaultKind
  <2> QED
    BY <1>7, <2>1 DEF PublishLost, storeVars, StoreTypeOK, queueVars,
                      QueueTypeOK, QueueInv, slotVars, SlotTypeOK
<1>8. ASSUME NEW e \in Execution, StalledAfterCrash(e) \/ LockLost(e)
      PROVE  TypeInv'
  <2>1. QueueTypeOK' /\ QueueInv'
    BY <1>8, StallJobQueue DEF StalledAfterCrash, LockLost
  <2>2. (faults \in [FaultKind -> Nat])'
    BY <1>8, SpendType DEF StalledAfterCrash, LockLost, FaultKind
  <2> QED
    BY <1>8, <2>1, <2>2
    DEF StalledAfterCrash, LockLost, storeVars, StoreTypeOK, slotVars, SlotTypeOK
<1>9. ASSUME NEW e \in Execution, Retry(e) PROVE TypeInv'
  <2>1. QueueTypeOK' /\ QueueInv'
    BY <1>9, BackoffElapsesQueue DEF Retry
  <2> QED
    BY <1>9, <2>1 DEF Retry, storeVars, StoreTypeOK, slotVars, SlotTypeOK
<1>10. ASSUME NEW e \in Execution, Age(e) PROVE TypeInv'
  BY <1>10, BecomeStaleType
  DEF Age, queueVars, QueueTypeOK, QueueInv, slotVars, SlotTypeOK
<1>11. ASSUME NEW p \in Process, Crash(p) PROVE TypeInv'
  <2>1. SlotTypeOK'
    BY <1>11 DEF Crash, SlotTypeOK, Label
  <2>2. (faults \in [FaultKind -> Nat])'
    BY <1>11, SpendType DEF Crash, FaultKind
  <2>3. StoreTypeOK' /\ QueueTypeOK' /\ QueueInv'
    BY <1>11 DEF Crash, storeVars, StoreTypeOK, queueVars, QueueTypeOK, QueueInv
  <2> QED
    BY <1>11, <2>1, <2>2, <2>3 DEF Crash
<1>12. ASSUME NEW p \in Process, Shutdown(p) \/ Restart(p) PROVE TypeInv'
  <2>1. (faults \in [FaultKind -> Nat])'
    BY <1>12, SpendType DEF Shutdown, Restart, FaultKind
  <2> QED
    BY <1>12, <2>1 DEF Shutdown, Restart, storeVars, StoreTypeOK, queueVars,
                       QueueTypeOK, QueueInv, slotVars, SlotTypeOK
<1>13. CASE UNCHANGED vars
  BY <1>13 DEF vars, storeVars, StoreTypeOK, queueVars, QueueTypeOK, QueueInv,
               slotVars, SlotTypeOK
<1> QED
  BY <1>1, <1>2, <1>3, <1>4, <1>5, <1>6, <1>7, <1>8, <1>9, <1>10, <1>11,
     <1>12, <1>13, <1>14
  DEF Next, SlotStep, ExecutionStep, ProcessStep

\* The variables of the worker, the store and the queue always have their
\* types: in particular a job never uses more than queueAttempts attempts.
THEOREM TypeCorrect == Spec => []TypeOK
<1>1. TypeInv => TypeOK
  BY DEF TypeInv
<1> QED
  BY <1>1, TypeInvInit, TypeInvStep, PTL DEF Spec

-----------------------------------------------------------------------------
(* What one step may do to the tables and to a slot that finalizes.        *)

\* A slot changes the status, the error type or the events by markRunning
\* and by finalize only.
LEMMA SlotTableSteps ==
    ASSUME NEW s \in Slot, SlotStep(s)
    PROVE  \/ UNCHANGED <<status, errorType, trail>>
           \/ pc[s] = "mark" /\ MarkRunning(cur[s])
           \/ pc[s] = "commit" /\ Finalize(cur[s], pending[s])
<1>1. CASE HandlerStep(s)
  BY <1>1 DEF HandlerStep, FindExecution, ClaimExecution, RefindExecution,
              TakeOver, LoadSession, ExecuteEnds, CheckFinalize, CommitFinalize,
              IncrementAttempt, storeVars
<1>2. CASE DbCallFails(s) \/ FinalizeFails(s) \/ CommitUnacked(s)
  BY <1>2 DEF DbCallFails, FinalizeFails, CommitUnacked, IncrementAttempt,
              storeVars
<1>3. CASE Settle(s) \/ Hang(s) \/ \E e \in Execution : Deliver(s, e)
  BY <1>3 DEF Settle, Hang, Deliver, storeVars
<1> QED
  BY <1>1, <1>2, <1>3 DEF SlotStep

\* Only three operations change the status, the error type or the events.
LEMMA TableSteps ==
    ASSUME [Next]_vars
    PROVE  \/ UNCHANGED <<status, errorType, trail>>
           \/ \E e \in Execution : CreateQueued(e)
           \/ \E s \in Slot : pc[s] = "mark" /\ MarkRunning(cur[s])
           \/ \E s \in Slot : pc[s] = "commit" /\ Finalize(cur[s], pending[s])
<1>1. ASSUME NEW e \in Execution, ExecutionStep(e)
      PROVE  CreateQueued(e) \/ UNCHANGED <<status, errorType, trail>>
  BY <1>1 DEF ExecutionStep, Submit, Publish, PublishLost, StalledAfterCrash,
              LockLost, Retry, Age, BecomeStale, storeVars
<1>2. ASSUME NEW p \in Process, ProcessStep(p)
      PROVE  UNCHANGED <<status, errorType, trail>>
  BY <1>2 DEF ProcessStep, Crash, Shutdown, Restart, storeVars
<1>3. CASE UNCHANGED vars
  BY <1>3 DEF vars, storeVars
<1> QED
  BY <1>1, <1>2, <1>3, SlotTableSteps DEF Next

\* A step of one slot leaves the other slots alone.
LEMMA OtherSlots ==
    ASSUME TypeInv, NEW s \in Slot, NEW r \in Slot, SlotStep(r), r # s
    PROVE  pc'[s] = pc[s] /\ cur'[s] = cur[s] /\ pending'[s] = pending[s]
<1> USE DEF TypeInv, TypeOK, SlotTypeOK, GoTo, StartFinalize
<1>1. CASE HandlerStep(r)
  BY <1>1 DEF HandlerStep, FindExecution, ClaimExecution, RefindExecution,
              TakeOver, LoadSession, ExecuteEnds, CheckFinalize, CommitFinalize
<1>2. CASE DbCallFails(r) \/ FinalizeFails(r) \/ CommitUnacked(r)
  BY <1>2 DEF DbCallFails, FinalizeFails, CommitUnacked, AfterFinalizeRejected
<1>3. CASE Settle(r) \/ Hang(r) \/ \E e \in Execution : Deliver(r, e)
  BY <1>3 DEF Settle, Hang, FreeSlot, Deliver
<1> QED
  BY <1>1, <1>2, <1>3 DEF SlotStep

\* How a slot gets to the labels of finalize: with the result of the code or
\* with the internal error, and to its write only past a RUNNING row.
LEMMA ToFinalize ==
    ASSUME TypeInv, [Next]_vars, NEW s \in Slot, pc'[s] \in {"finalize", "commit"}
    PROVE  /\ cur'[s] = cur[s]
           /\ \/ pc[s] \in {"finalize", "commit"} /\ pending'[s] = pending[s]
              \/ pending'[s] = InternalError
              \/ \E r \in Results : pending'[s] = MapFinalizePayload(r)
           /\ pc'[s] = "commit" /\ pc[s] # "commit" =>
                 status[cur[s]] = "RUNNING" /\ UNCHANGED status
<1> USE DEF TypeInv, TypeOK, SlotTypeOK, GoTo
<1>1. CASE HandlerStep(s)
  BY <1>1, OutcomeType
  DEF HandlerStep, FindExecution, AfterFind, ClaimExecution, RefindExecution,
      TakeOver, LoadSession, ExecuteEnds, StartFinalize, CheckFinalize,
      CommitFinalize, CanFinalize, storeVars
<1>2. CASE DbCallFails(s) \/ FinalizeFails(s) \/ CommitUnacked(s)
  BY <1>2
  DEF DbCallFails, FinalizeFails, CommitUnacked, AfterFinalizeRejected,
      StartFinalize
<1>3. CASE Settle(s) \/ Hang(s) \/ \E e \in Execution : Deliver(s, e)
  BY <1>3 DEF Settle, Hang, FreeSlot, Deliver
<1>4. ASSUME NEW r \in Slot, r # s, SlotStep(r)
      PROVE  pc'[s] = pc[s] /\ cur'[s] = cur[s] /\ pending'[s] = pending[s]
  BY <1>4, OtherSlots
<1>5. ASSUME NEW e \in Execution, ExecutionStep(e)
      PROVE  UNCHANGED slotVars
  BY <1>5 DEF ExecutionStep, Submit, Publish, PublishLost, StalledAfterCrash,
              LockLost, Retry, Age
<1>6. ASSUME NEW p \in Process, ProcessStep(p)
      PROVE  pc'[s] = pc[s] /\ cur'[s] = cur[s] /\ pending'[s] = pending[s]
  BY <1>6 DEF ProcessStep, Crash, Shutdown, Restart, slotVars
<1>7. CASE UNCHANGED vars
  BY <1>7 DEF vars, slotVars
<1> QED
  BY <1>1, <1>2, <1>3, <1>4, <1>5, <1>6, <1>7 DEF Next, SlotStep, slotVars

-----------------------------------------------------------------------------
(* The event rows.                                                         *)

\* The number of events tells the status: creation is the first, the claim
\* the second, and every later one leaves RUNNING.
TrailShape(e) ==
    LET t == trail[e] IN
    /\ status[e] = "ABSENT" <=> Len(t) = 0
    /\ status[e] = "QUEUED" <=> Len(t) = 1
    /\ Len(t) >= 1 => /\ t[1] = [fromStatus |-> "NONE", toStatus |-> "QUEUED"]
                      /\ t[Len(t)].toStatus = status[e]
    /\ \A i \in 2..Len(t) :
          t[i].fromStatus = IF i = 2 THEN "QUEUED" ELSE "RUNNING"

\* A slot between the read and the write of finalize has seen RUNNING.
CommitReady ==
    \A s \in Slot : pc[s] = "commit" => status[cur[s]] \notin {"ABSENT", "QUEUED"}

HistoryInv ==
    /\ TypeInv
    /\ \A e \in Execution : TrailShape(e)
    /\ CommitReady

\* One more event keeps the shape when it is the creation, the claim, or
\* leaves a row that was claimed.
LEMMA RecordShape ==
    ASSUME StoreTypeOK, StoreTypeOK', \A e \in Execution : TrailShape(e),
           NEW e \in Execution,
           NEW from \in Status \cup {"NONE"}, NEW to \in Status,
           Record(e, from, to), status' = [status EXCEPT ![e] = to],
           \/ status[e] = "ABSENT" /\ from = "NONE" /\ to = "QUEUED"
           \/ status[e] = "QUEUED" /\ from = "QUEUED" /\ to = "RUNNING"
           \/ /\ status[e] \notin {"ABSENT", "QUEUED"}
              /\ from = "RUNNING" /\ to \in TerminalStatus
    PROVE  \A d \in Execution : TrailShape(d)'
<1> DEFINE t == trail[e]
           event == [fromStatus |-> from, toStatus |-> to]
<1> SUFFICES ASSUME NEW d \in Execution PROVE TrailShape(d)'
  OBVIOUS
<1>1. CASE d # e
  <2>1. trail'[d] = trail[d] /\ status'[d] = status[d]
    BY <1>1 DEF Record, StoreTypeOK
  <2> QED
    BY <2>1 DEF TrailShape
<1>2. CASE d = e
  <2>1. t \in Seq(ExecutionEvent) /\ event \in ExecutionEvent
    BY DEF StoreTypeOK, ExecutionEvent
  <2>2. trail'[e] = Append(t, event) /\ status'[e] = to
    BY DEF Record, StoreTypeOK
  <2>3. /\ Len(t) \in Nat
        /\ Len(Append(t, event)) = Len(t) + 1
        /\ Append(t, event)[Len(t) + 1] = event
        /\ \A i \in 1..Len(t) : Append(t, event)[i] = t[i]
    BY <2>1
  <2>4. CASE status[e] = "ABSENT"
    <3>1. Len(t) = 0
      BY <2>4 DEF TrailShape
    <3> QED
      BY <1>2, <2>2, <2>3, <2>4, <3>1 DEF TrailShape
  <2>5. CASE status[e] = "QUEUED"
    <3>1. Len(t) = 1 /\ t[1] = [fromStatus |-> "NONE", toStatus |-> "QUEUED"]
      BY <2>5 DEF TrailShape
    <3> QED
      BY <1>2, <2>2, <2>3, <2>5, <3>1 DEF TrailShape
  <2>6. CASE status[e] \notin {"ABSENT", "QUEUED"}
    <3>1. Len(t) >= 2 /\ from = "RUNNING" /\ to \in TerminalStatus
      BY <2>3, <2>6 DEF TrailShape
    <3>2. to \notin {"ABSENT", "QUEUED"}
      BY <3>1 DEF TerminalStatus
    <3> DEFINE u == Append(t, event)
    <3>3. u[1] = t[1] /\ Len(u) >= 3 /\ u[Len(u)].toStatus = to
      BY <2>3, <3>1
    <3>4. ASSUME NEW i \in 2..Len(u)
          PROVE  u[i].fromStatus = IF i = 2 THEN "QUEUED" ELSE "RUNNING"
      <4>1. CASE i \in 2..Len(t)
        BY <2>3, <4>1 DEF TrailShape
      <4>2. CASE i = Len(t) + 1
        BY <2>3, <3>1, <4>2
      <4> QED
        BY <2>3, <4>1, <4>2
    <3> HIDE DEF u
    <3> QED
      BY <1>2, <2>2, <2>3, <3>1, <3>2, <3>3, <3>4 DEF TrailShape, u
  <2> QED
    BY <2>4, <2>5, <2>6
<1> QED
  BY <1>1, <1>2

\* Whoever is past the read of finalize stays entitled to it: no step takes
\* a row back to QUEUED.
LEMMA CommitReadyStep ==
    ASSUME TypeInv, CommitReady, [Next]_vars
    PROVE  CommitReady'
<1> USE DEF TypeInv, TypeOK
<1> DEFINE Kept == \A e \in Execution :
                      status[e] \notin {"ABSENT", "QUEUED"} =>
                          status'[e] \notin {"ABSENT", "QUEUED"}
<1> SUFFICES ASSUME NEW s \in Slot, pc'[s] = "commit"
             PROVE  status'[cur'[s]] \notin {"ABSENT", "QUEUED"}
  BY DEF CommitReady
<1>1. cur'[s] = cur[s] /\ cur[s] \in Execution
  BY ToFinalize, TypeInvStep DEF SlotTypeOK
<1>2. status[cur[s]] \notin {"ABSENT", "QUEUED"}
  BY ToFinalize DEF CommitReady
<1>3. Kept
  <2>1. CASE UNCHANGED <<status, errorType, trail>>
    BY <2>1
  <2>2. ASSUME NEW e \in Execution, CreateQueued(e) PROVE Kept
    BY <2>2 DEF CreateQueued, StoreTypeOK
  <2>3. ASSUME NEW r \in Slot, pc[r] = "mark" /\ MarkRunning(cur[r]) PROVE Kept
    BY <2>3 DEF MarkRunning, StoreTypeOK
  <2>4. ASSUME NEW r \in Slot, pc[r] = "commit" /\ Finalize(cur[r], pending[r])
        PROVE  Kept
    BY <2>4 DEF Finalize, StoreTypeOK, SlotTypeOK, Payload, TerminalStatus
  <2> QED
    BY <2>1, <2>2, <2>3, <2>4, TableSteps
<1> QED
  BY <1>1, <1>2, <1>3

\* Every step keeps HistoryInv.
LEMMA HistoryInvStep ==
    ASSUME HistoryInv, [Next]_vars
    PROVE  HistoryInv'
<1> USE DEF HistoryInv
<1>1. TypeInv' /\ CommitReady'
  BY TypeInvStep, CommitReadyStep
<1>2. StoreTypeOK /\ StoreTypeOK' /\ SlotTypeOK
  BY <1>1 DEF TypeInv, TypeOK
<1>3. \A e \in Execution : TrailShape(e)'
  <2>1. CASE UNCHANGED <<status, errorType, trail>>
    BY <2>1 DEF TrailShape
  <2>2. ASSUME NEW e \in Execution, CreateQueued(e)
        PROVE  \A d \in Execution : TrailShape(d)'
    BY <1>2, <2>2, RecordShape DEF CreateQueued, Status
  <2>3. ASSUME NEW s \in Slot, pc[s] = "mark" /\ MarkRunning(cur[s])
        PROVE  \A d \in Execution : TrailShape(d)'
    <3>1. cur[s] \in Execution
      BY <1>2, <2>3 DEF SlotTypeOK
    <3> QED
      BY <1>2, <2>3, <3>1, RecordShape DEF MarkRunning, Status
  <2>4. ASSUME NEW s \in Slot, pc[s] = "commit" /\ Finalize(cur[s], pending[s])
        PROVE  \A d \in Execution : TrailShape(d)'
    <3>1. cur[s] \in Execution /\ pending[s].status \in TerminalStatus
      BY <1>2, <2>4 DEF SlotTypeOK, Payload
    <3>2. status[cur[s]] \notin {"ABSENT", "QUEUED"}
      BY <2>4 DEF CommitReady
    <3> QED
      BY <1>2, <2>4, <3>1, <3>2, RecordShape DEF Finalize, Status
  <2> QED
    BY <2>1, <2>2, <2>3, <2>4, TableSteps
<1> QED
  BY <1>1, <1>3

\* HistoryInv holds in every reachable state.
LEMMA HistoryInvariant == Spec => []HistoryInv
<1>1. Init => HistoryInv
  BY TypeInvInit
  DEF Init, StoreInit, HistoryInv, TrailShape, CommitReady
<1> QED
  BY <1>1, HistoryInvStep, PTL DEF Spec

\* Whatever fails, and however many slots work on one execution, the event
\* rows start with its creation and end in the status the row has.
THEOREM AuditTrail == Spec => []AuditTrailMatchesRow
<1>1. HistoryInv => AuditTrailMatchesRow
  <2> SUFFICES ASSUME HistoryInv, NEW e \in Execution
               PROVE  IF status[e] = "ABSENT"
                      THEN trail[e] = << >>
                      ELSE /\ trail[e] # << >>
                           /\ trail[e][1] =
                                 [fromStatus |-> "NONE", toStatus |-> "QUEUED"]
                           /\ trail[e][Len(trail[e])].toStatus = status[e]
    BY DEF AuditTrailMatchesRow
  <2>1. TrailShape(e) /\ trail[e] \in Seq(ExecutionEvent)
    BY DEF HistoryInv, TypeInv, TypeOK, StoreTypeOK
  <2>2. CASE status[e] = "ABSENT"
    BY <2>1, <2>2 DEF TrailShape
  <2>3. CASE status[e] # "ABSENT"
    <3>1. Len(trail[e]) \in Nat /\ Len(trail[e]) # 0
      BY <2>1, <2>3 DEF TrailShape
    <3> QED
      BY <2>1, <2>3, <3>1 DEF TrailShape
  <2> QED
    BY <2>2, <2>3
<1> QED
  BY <1>1, HistoryInvariant, PTL

\* Whatever fails, an execution is claimed at most once.
THEOREM ClaimedOnce == Spec => []SingleClaim
<1>1. HistoryInv => SingleClaim
  <2> SUFFICES ASSUME HistoryInv, NEW e \in Execution, NEW i \in 1..Len(trail[e]),
                      trail[e][i].fromStatus = "QUEUED"
               PROVE  i = 2
    BY DEF SingleClaim
  <2>1. TrailShape(e) /\ trail[e] \in Seq(ExecutionEvent)
    BY DEF HistoryInv, TypeInv, TypeOK, StoreTypeOK
  <2>2. Len(trail[e]) \in Nat
    BY <2>1
  <2>3. i # 1
    BY <2>1, <2>2 DEF TrailShape
  <2> QED
    BY <2>1, <2>2, <2>3 DEF TrailShape
<1> QED
  BY <1>1, HistoryInvariant, PTL

\* Whatever fails, a status that is final stays final for every poller.
THEOREM FinalForPollers == Spec => TerminalStaysTerminal
<1>1. ASSUME TypeInv, [Next]_vars
      PROVE  [\A e \in Execution :
                 status[e] \in TerminalStatus => status'[e] \in TerminalStatus]_vars
  <2> DEFINE Kept == \A e \in Execution :
                 status[e] \in TerminalStatus => status'[e] \in TerminalStatus
  <2>1. CASE UNCHANGED <<status, errorType, trail>>
    BY <2>1
  <2>2. ASSUME NEW e \in Execution, CreateQueued(e) PROVE Kept
    BY <1>1, <2>2 DEF CreateQueued, TypeInv, TypeOK, StoreTypeOK, TerminalStatus
  <2>3. ASSUME NEW s \in Slot, pc[s] = "mark" /\ MarkRunning(cur[s]) PROVE Kept
    BY <1>1, <2>3 DEF MarkRunning, TypeInv, TypeOK, StoreTypeOK, TerminalStatus
  <2>4. ASSUME NEW s \in Slot, pc[s] = "commit" /\ Finalize(cur[s], pending[s])
        PROVE  Kept
    BY <1>1, <2>4
    DEF Finalize, TypeInv, TypeOK, StoreTypeOK, SlotTypeOK, Payload
  <2> QED
    BY <1>1, <2>1, <2>2, <2>3, <2>4, TableSteps
<1> QED
  BY <1>1, TypeInvInit, TypeInvStep, PTL DEF Spec, TerminalStaysTerminal

-----------------------------------------------------------------------------
(* The error type.                                                         *)

\* Whatever a slot may finalize with explains itself.
ErrorInv ==
    /\ TypeInv
    /\ \A e \in Execution : Explains(errorType[e], status[e])
    /\ \A s \in Slot : pc[s] \in {"finalize", "commit"} =>
          Explains(pending[s].errorType, pending[s].status)

\* mapFinalizePayload and the catch block pair status and error type.
LEMMA PayloadExplained ==
    /\ \A r \in Results :
          Explains(MapFinalizePayload(r).errorType, MapFinalizePayload(r).status)
    /\ Explains(InternalError.errorType, InternalError.status)
BY DEF Explains, MapFinalizePayload, FailedWith, InternalError

\* Whatever fails, a poller never reads an error type that belongs to
\* another status, not even after one finalize overwrote another.
THEOREM ErrorTypes == Spec => []ErrorTypeMatchesStatus
<1>1. Init => ErrorInv
  BY TypeInvInit DEF Init, StoreInit, ErrorInv, Explains
<1>2. ASSUME ErrorInv, [Next]_vars PROVE ErrorInv'
  <2> USE <1>2 DEF ErrorInv
  <2>1. TypeInv' /\ StoreTypeOK /\ SlotTypeOK /\ SlotTypeOK'
    BY TypeInvStep DEF TypeInv, TypeOK
  <2>2. \A e \in Execution : Explains(errorType[e], status[e])'
    <3> DEFINE Explained == \A e \in Execution : Explains(errorType[e], status[e])'
    <3>1. CASE UNCHANGED <<status, errorType, trail>>
      BY <3>1 DEF Explains
    <3>2. ASSUME NEW e \in Execution, CreateQueued(e) PROVE Explained
      BY <2>1, <3>2 DEF CreateQueued, StoreTypeOK, Explains
    <3>3. ASSUME NEW s \in Slot, pc[s] = "mark" /\ MarkRunning(cur[s])
          PROVE  Explained
      BY <2>1, <3>3 DEF MarkRunning, StoreTypeOK, Explains
    <3>4. ASSUME NEW s \in Slot, pc[s] = "commit" /\ Finalize(cur[s], pending[s])
          PROVE  Explained
      BY <2>1, <3>4 DEF Finalize, StoreTypeOK, SlotTypeOK, Explains
    <3> QED
      BY <3>1, <3>2, <3>3, <3>4, TableSteps
  <2>3. ASSUME NEW s \in Slot, pc'[s] \in {"finalize", "commit"}
        PROVE  Explains(pending'[s].errorType, pending'[s].status)
    BY <2>3, ToFinalize, PayloadExplained
  <2> QED
    BY <2>1, <2>2, <2>3
<1>3. ErrorInv => ErrorTypeMatchesStatus
  BY DEF ErrorInv, ErrorTypeMatchesStatus
<1> QED
  BY <1>1, <1>2, <1>3, PTL DEF Spec

-----------------------------------------------------------------------------
(* Deployments whose live slots keep their locks.                          *)

\* A slot that works on an execution holds the lock of its job, and its label
\* says what it may rely on: nobody else touches the row.
Owns(s) ==
    /\ pc[s] # "idle" => lock[cur[s]] = s
    /\ pc[s] # "refind"
    /\ pc[s] = "mark" => status[cur[s]] = "QUEUED"
    /\ pc[s] \in {"bump", "load", "run", "commit"} =>
          status[cur[s]] = "RUNNING"
    /\ pc[s] = "load" => runs[cur[s]] < attemptCount[cur[s]]

OwnerInv ==
    /\ TypeInv
    /\ \A s \in Slot : Owns(s)
    /\ AttemptsCoverRuns

\* The writes of the handler touch one row.
LEMMA OneRow ==
    ASSUME StoreTypeOK, NEW d \in Execution, NEW e \in Execution, d # e,
           \/ MarkRunning(d) \/ IncrementAttempt(d)
           \/ \E payload \in Payload : Finalize(d, payload)
    PROVE  status'[e] = status[e] /\ attemptCount'[e] = attemptCount[e]
<1>1. CASE MarkRunning(d)
  BY <1>1 DEF MarkRunning, StoreTypeOK
<1>2. CASE IncrementAttempt(d)
  BY <1>2 DEF IncrementAttempt, StoreTypeOK
<1>3. CASE \E payload \in Payload : Finalize(d, payload)
  BY <1>3 DEF Finalize, StoreTypeOK
<1> QED
  BY <1>1, <1>2, <1>3

\* Settling a job releases no lock but its own.
LEMMA OneLock ==
    ASSUME QueueTypeOK, NEW s \in Slot, NEW d \in Execution, NEW e \in Execution,
           d # e, CompleteJob(s, d) \/ FailJob(s, d)
    PROVE  lock'[e] = lock[e]
<1>1. CASE UNCHANGED queueVars
  BY <1>1 DEF queueVars
<1>2. CASE ~ UNCHANGED queueVars
  BY <1>2 DEF CompleteJob, FailJob, QueueTypeOK
<1> QED
  BY <1>1, <1>2

\* What a working slot relies on is not touched by the step of another slot.
LEMMA OthersKeep ==
    ASSUME OwnerInv, NEW s \in Slot, pc[s] # "idle",
           NEW r \in Slot, r # s, SlotStep(r)
    PROVE  Owns(s)'
<1> DEFINE e == cur[s]
           Untouched == /\ status'[e] = status[e]
                        /\ runs'[e] = runs[e]
                        /\ attemptCount'[e] = attemptCount[e]
                        /\ lock'[e] = lock[e]
<1> USE DEF OwnerInv, TypeInv, TypeOK
<1>1. pc'[s] = pc[s] /\ cur'[s] = e /\ e \in Execution /\ Owns(s)
  BY OtherSlots DEF SlotTypeOK
<1>2. pc[r] # "idle" => cur[r] # e /\ cur[r] \in Execution
  BY <1>1 DEF Owns, SlotTypeOK
<1>3. pc[r] = "commit" => pending[r] \in Payload
  BY DEF SlotTypeOK
<1>4. Untouched
  <2>1. CASE HandlerStep(r)
    <3>1. HandlerFrame /\ pc[r] # "idle"
      BY <2>1 DEF HandlerStep, FindExecution, ClaimExecution, RefindExecution,
                  TakeOver, LoadSession, ExecuteEnds, CheckFinalize,
                  CommitFinalize
    <3>2. lock'[e] = lock[e]
      BY <3>1 DEF HandlerFrame, queueVars
    <3>3. runs'[e] = runs[e]
      BY <1>1, <1>2, <2>1, <3>1
      DEF HandlerStep, FindExecution, ClaimExecution, RefindExecution, TakeOver,
          LoadSession, ExecuteEnds, CheckFinalize, CommitFinalize
    <3>4. \/ UNCHANGED storeVars
          \/ MarkRunning(cur[r]) \/ IncrementAttempt(cur[r])
          \/ pc[r] = "commit" /\ Finalize(cur[r], pending[r])
      BY <2>1
      DEF HandlerStep, FindExecution, ClaimExecution, RefindExecution, TakeOver,
          LoadSession, ExecuteEnds, CheckFinalize, CommitFinalize
    <3> QED
      BY <1>1, <1>2, <1>3, <3>1, <3>2, <3>3, <3>4, OneRow DEF storeVars
  <2>2. CASE DbCallFails(r) \/ FinalizeFails(r) \/ CommitUnacked(r)
    <3>1. pc[r] # "idle" /\ UNCHANGED <<queueVars, runs>>
      BY <2>2 DEF DbCallFails, FinalizeFails, CommitUnacked
    <3>2. \/ UNCHANGED storeVars
          \/ MarkRunning(cur[r]) \/ IncrementAttempt(cur[r])
          \/ pc[r] = "commit" /\ Finalize(cur[r], pending[r])
      BY <2>2 DEF DbCallFails, FinalizeFails, CommitUnacked
    <3> QED
      BY <1>1, <1>2, <1>3, <3>1, <3>2, OneRow DEF storeVars, queueVars
  <2>3. CASE Settle(r) \/ Hang(r)
    BY <1>1, <1>2, <2>3, OneLock DEF Settle, Hang, storeVars, queueVars
  <2>4. ASSUME NEW d \in Execution, Deliver(r, d)
        PROVE  Untouched
    <3>1. d # e
      BY <1>1, <2>4, QueueAssumption DEF Owns, Deliver, TakeJob, QueueInv
    <3> QED
      BY <1>1, <2>4, <3>1 DEF Deliver, TakeJob, storeVars, QueueTypeOK
  <2> QED
    BY <2>1, <2>2, <2>3, <2>4 DEF SlotStep
<1> QED
  BY <1>1, <1>4 DEF Owns

\* The step of a slot keeps what the slot itself relies on, and counts an
\* attempt before it counts a run.
LEMMA OwnKeep ==
    ASSUME OwnerInv, NEW s \in Slot, SlotStep(s)
    PROVE  Owns(s)' /\ AttemptsCoverRuns'
<1> DEFINE e == cur[s]
<1> USE DEF OwnerInv, TypeInv, TypeOK
<1>1. Owns(s) /\ AttemptsCoverRuns
  OBVIOUS
<1>2. CASE HandlerStep(s)
  <2>1. /\ pc[s] # "idle" /\ e \in Execution /\ lock[e] = s
        /\ cur'[s] = e /\ lock' = lock
    BY <1>1, <1>2
    DEF HandlerStep, FindExecution, ClaimExecution, RefindExecution, TakeOver,
        LoadSession, ExecuteEnds, StartFinalize, CheckFinalize, CommitFinalize,
        GoTo, HandlerFrame, queueVars, Owns, SlotTypeOK
  <2>2. CASE FindExecution(s)
    BY <1>1, <2>1, <2>2
    DEF FindExecution, AfterFind, GoTo, storeVars, Owns, AttemptsCoverRuns,
        SlotTypeOK
  <2>3. CASE ClaimExecution(s)
    <3>1. MarkRunning(e) /\ GoTo(s, "load") /\ UNCHANGED runs
      BY <1>1, <2>3 DEF ClaimExecution, Owns
    <3>2. /\ pc'[s] = "load" /\ status'[e] = "RUNNING"
          /\ attemptCount' = [attemptCount EXCEPT ![e] = @ + 1]
      BY <2>1, <3>1 DEF MarkRunning, GoTo, StoreTypeOK, SlotTypeOK
    <3>3. AttemptsCoverRuns' /\ runs'[e] < attemptCount'[e]
      BY <1>1, <2>1, <3>1, <3>2 DEF AttemptsCoverRuns, StoreTypeOK
    <3> QED
      BY <2>1, <3>2, <3>3 DEF Owns
  <2>4. CASE RefindExecution(s)
    BY <1>1, <2>4 DEF RefindExecution, Owns
  <2>5. CASE TakeOver(s)
    <3>1. IncrementAttempt(e) /\ GoTo(s, "load") /\ UNCHANGED runs
      BY <2>5 DEF TakeOver
    <3>2. /\ pc'[s] = "load" /\ status'[e] = "RUNNING"
          /\ attemptCount' = [attemptCount EXCEPT ![e] = @ + 1]
      BY <1>1, <2>1, <2>5, <3>1
      DEF TakeOver, IncrementAttempt, GoTo, SlotTypeOK, Owns
    <3>3. AttemptsCoverRuns' /\ runs'[e] < attemptCount'[e]
      BY <1>1, <2>1, <3>1, <3>2 DEF AttemptsCoverRuns, StoreTypeOK
    <3> QED
      BY <2>1, <3>2, <3>3 DEF Owns
  <2>6. CASE LoadSession(s)
    <3>1. /\ pc'[s] = "run" /\ UNCHANGED <<status, attemptCount>>
          /\ status[e] = "RUNNING" /\ runs[e] < attemptCount[e]
          /\ runs' = [runs EXCEPT ![e] = @ + 1]
      BY <1>1, <2>6 DEF LoadSession, GoTo, storeVars, Owns, SlotTypeOK
    <3>2. AttemptsCoverRuns'
      BY <1>1, <2>1, <3>1 DEF AttemptsCoverRuns, StoreTypeOK
    <3> QED
      BY <2>1, <3>1, <3>2 DEF Owns
  <2>7. CASE ExecuteEnds(s)
    BY <1>1, <2>1, <2>7
    DEF ExecuteEnds, StartFinalize, storeVars, Owns, AttemptsCoverRuns, SlotTypeOK
  <2>8. CASE CheckFinalize(s)
    BY <1>1, <2>1, <2>8, OutcomeType
    DEF CheckFinalize, CanFinalize, GoTo, storeVars, Owns, AttemptsCoverRuns,
        SlotTypeOK
  <2>9. CASE CommitFinalize(s)
    BY <1>1, <2>1, <2>9, OutcomeType
    DEF CommitFinalize, Finalize, GoTo, Owns, AttemptsCoverRuns, SlotTypeOK
  <2> QED
    BY <1>2, <2>2, <2>3, <2>4, <2>5, <2>6, <2>7, <2>8, <2>9 DEF HandlerStep
<1>3. CASE DbCallFails(s) \/ FinalizeFails(s) \/ CommitUnacked(s)
  <2>1. /\ pc[s] # "idle" /\ e \in Execution /\ lock[e] = s
        /\ cur'[s] = e /\ lock' = lock /\ runs' = runs
        /\ pc'[s] \in {"threw", "finalize"}
    BY <1>1, <1>3
    DEF DbCallFails, FinalizeFails, CommitUnacked, AfterFinalizeRejected,
        StartFinalize, GoTo, queueVars, Owns, SlotTypeOK
  <2>2. \A d \in Execution : attemptCount'[d] >= attemptCount[d]
    <3>1. \/ attemptCount' = attemptCount
          \/ attemptCount' = [attemptCount EXCEPT ![e] = @ + 1]
      BY <1>3
      DEF DbCallFails, FinalizeFails, CommitUnacked, MarkRunning,
          IncrementAttempt, Finalize, storeVars
    <3>2. attemptCount \in [Execution -> Nat]
      BY DEF StoreTypeOK
    <3> QED
      BY <3>1, <3>2
  <2>3. attemptCount' \in [Execution -> Nat]
    BY TypeInvStep DEF Next, StoreTypeOK
  <2>4. AttemptsCoverRuns'
    BY <1>1, <2>1, <2>2, <2>3 DEF AttemptsCoverRuns, StoreTypeOK
  <2> QED
    BY <2>1, <2>4 DEF Owns
<1>4. CASE Settle(s) \/ Hang(s)
  BY <1>1, <1>4
  DEF Settle, Hang, FreeSlot, GoTo, storeVars, queueVars, Owns, AttemptsCoverRuns,
      SlotTypeOK
<1>5. ASSUME NEW d \in Execution, Deliver(s, d)
      PROVE  Owns(s)' /\ AttemptsCoverRuns'
  BY <1>1, <1>5
  DEF Deliver, TakeJob, storeVars, QueueTypeOK, Owns, AttemptsCoverRuns, SlotTypeOK
<1> QED
  BY <1>2, <1>3, <1>4, <1>5 DEF SlotStep

\* The steps of the API, of BullMQ and of time keep what slots rely on when
\* the lock of a working slot does not expire.
LEMMA EnvironmentKeeps ==
    ASSUME OwnerInv, FaultBound["lockLoss"] = 0,
           NEW d \in Execution, ExecutionStep(d),
           NEW s \in Slot
    PROVE  Owns(s)'
<1> DEFINE e == cur[s]
<1> USE DEF OwnerInv, TypeInv, TypeOK
<1>1. Owns(s) /\ UNCHANGED <<slotVars, runs>>
  BY DEF ExecutionStep, Submit, Publish, PublishLost, StalledAfterCrash,
         LockLost, Retry, Age
<1>2. ~LockLost(d)
  BY DEF LockLost, Spend, FaultKind
<1>3. CASE pc[s] = "idle"
  BY <1>1, <1>3 DEF slotVars, Owns
<1>4. CASE pc[s] # "idle"
  <2>1. e \in Execution /\ Held(e) /\ lock[e] = s
    BY <1>1, <1>4 DEF Owns, Held, SlotTypeOK
  <2>2. lock'[e] = lock[e]
    BY <1>2, <2>1
    DEF ExecutionStep, Submit, Publish, PublishLost, StalledAfterCrash, Retry,
        Age, AddJob, StallJob, BackoffElapses, queueVars, QueueTypeOK
  <2>3. /\ attemptCount'[e] = attemptCount[e]
        /\ status[e] # "ABSENT" => status'[e] = status[e]
    BY <1>2, <2>1
    DEF ExecutionStep, Submit, Publish, PublishLost, StalledAfterCrash, Retry,
        Age, CreateQueued, BecomeStale, storeVars, StoreTypeOK
  <2> QED
    BY <1>1, <1>4, <2>1, <2>2, <2>3 DEF Owns, slotVars
<1> QED
  BY <1>3, <1>4

\* Every step keeps OwnerInv when no live slot loses its lock.
LEMMA OwnerInvStep ==
    ASSUME OwnerInv, FaultBound["lockLoss"] = 0, [Next]_vars
    PROVE  OwnerInv'
<1> USE DEF OwnerInv
<1>1. TypeInv'
  BY TypeInvStep
<1>2. ASSUME NEW r \in Slot, SlotStep(r)
      PROVE  (\A s \in Slot : Owns(s)') /\ AttemptsCoverRuns'
  <2>1. Owns(r)' /\ AttemptsCoverRuns'
    BY <1>2, OwnKeep
  <2>2. ASSUME NEW s \in Slot, s # r, pc[s] # "idle" PROVE Owns(s)'
    BY <1>2, <2>2, OthersKeep
  <2>3. ASSUME NEW s \in Slot, s # r, pc[s] = "idle" PROVE Owns(s)'
    BY <1>2, <2>3, OtherSlots DEF Owns
  <2> QED
    BY <2>1, <2>2, <2>3
<1>3. ASSUME NEW d \in Execution, ExecutionStep(d)
      PROVE  (\A s \in Slot : Owns(s)') /\ AttemptsCoverRuns'
  <2>1. UNCHANGED <<runs, attemptCount>>
    BY <1>3 DEF ExecutionStep, Submit, Publish, PublishLost, StalledAfterCrash,
                LockLost, Retry, Age, CreateQueued, BecomeStale, storeVars
  <2> QED
    BY <1>3, <2>1, EnvironmentKeeps DEF AttemptsCoverRuns
<1>4. ASSUME NEW p \in Process, ProcessStep(p)
      PROVE  (\A s \in Slot : Owns(s)') /\ AttemptsCoverRuns'
  <2>1. UNCHANGED <<storeVars, queueVars, runs>>
    BY <1>4 DEF ProcessStep, Crash, Shutdown, Restart
  <2>2. ASSUME NEW s \in Slot
        PROVE  pc'[s] = "idle" \/ (pc'[s] = pc[s] /\ cur'[s] = cur[s])
    <3>1. CASE Crash(p)
      BY <3>1 DEF Crash
    <3>2. CASE Shutdown(p) \/ Restart(p)
      BY <3>2 DEF Shutdown, Restart, slotVars
    <3> QED
      BY <1>4, <3>1, <3>2 DEF ProcessStep
  <2>3. UNCHANGED <<status, attemptCount, lock, runs>>
    BY <2>1 DEF storeVars, queueVars
  <2>4. ASSUME NEW s \in Slot PROVE Owns(s)'
    <3>1. CASE pc'[s] = "idle"
      BY <3>1 DEF Owns
    <3>2. CASE pc'[s] = pc[s] /\ cur'[s] = cur[s]
      <4>1. Owns(s)
        OBVIOUS
      <4> QED
        BY <2>3, <3>2, <4>1 DEF Owns
    <3> QED
      BY <2>2, <3>1, <3>2
  <2> QED
    BY <2>3, <2>4 DEF AttemptsCoverRuns
<1>5. ASSUME UNCHANGED vars
      PROVE  (\A s \in Slot : Owns(s)') /\ AttemptsCoverRuns'
  BY <1>5 DEF vars, storeVars, queueVars, slotVars, Owns, AttemptsCoverRuns
<1>6. (\A s \in Slot : Owns(s)') /\ AttemptsCoverRuns'
  BY <1>2, <1>3, <1>4, <1>5 DEF Next
<1> QED
  BY <1>1, <1>6

\* The initial state satisfies OwnerInv.
LEMMA OwnerInvInit == Init => OwnerInv
BY TypeInvInit
DEF Init, StoreInit, OwnerInv, Owns, AttemptsCoverRuns

\* When no live slot loses its lock, no run of the code goes uncounted,
\* whatever crashes and database failures happen.
THEOREM RunsAreCounted ==
    ASSUME FaultBound["lockLoss"] = 0
    PROVE  Spec => []AttemptsCoverRuns
<1>1. OwnerInv => AttemptsCoverRuns
  BY DEF OwnerInv
<1>2. OwnerInv /\ [Next]_vars => OwnerInv'
  BY OwnerInvStep
<1> QED
  BY <1>1, <1>2, OwnerInvInit, PTL DEF Spec

\* When no live slot loses its lock, code is started for running executions
\* only.
THEOREM NoRerun ==
    ASSUME FaultBound["lockLoss"] = 0
    PROVE  Spec => TerminalNeverRerun
<1>1. ASSUME OwnerInv, [Next]_vars
      PROVE  [\A s \in Slot : pc[s] # "run" /\ pc'[s] = "run" =>
                                 status[cur[s]] = "RUNNING"]_vars
  <2> USE <1>1 DEF OwnerInv, TypeInv, TypeOK, SlotTypeOK
  <2> SUFFICES ASSUME NEW s \in Slot, pc[s] # "run", pc'[s] = "run"
               PROVE  pc[s] = "load"
    BY DEF Owns
  <2>1. CASE SlotStep(s)
    BY <2>1, OutcomeType
    DEF SlotStep, HandlerStep, FindExecution, AfterFind, ClaimExecution,
        RefindExecution, TakeOver, LoadSession, ExecuteEnds, StartFinalize,
        CheckFinalize, CommitFinalize, GoTo, Settle, Hang, FreeSlot, DbCallFails,
        FinalizeFails, CommitUnacked, AfterFinalizeRejected, Deliver
  <2>2. ASSUME NEW r \in Slot, r # s, SlotStep(r) PROVE FALSE
    BY <2>2, OtherSlots
  <2>3. ASSUME NEW e \in Execution, ExecutionStep(e) PROVE FALSE
    BY <2>3 DEF ExecutionStep, Submit, Publish, PublishLost, StalledAfterCrash,
                LockLost, Retry, Age, slotVars
  <2>4. ASSUME NEW p \in Process, ProcessStep(p) PROVE FALSE
    BY <2>4 DEF ProcessStep, Crash, Shutdown, Restart, slotVars
  <2>5. CASE UNCHANGED vars
    BY <2>5 DEF vars, slotVars
  <2> QED
    BY <2>1, <2>2, <2>3, <2>4, <2>5 DEF Next
<1>2. OwnerInv /\ [Next]_vars => OwnerInv'
  BY OwnerInvStep
<1> QED
  BY <1>1, <1>2, OwnerInvInit, PTL DEF Spec, TerminalNeverRerun

\* When no live slot loses its lock, no two slots run the code of a fresh
\* execution at once: each holds the lock of its job.
THEOREM RunsAreExclusive ==
    ASSUME FaultBound["lockLoss"] = 0
    PROVE  Spec => []FreshRunIsExclusive
<1>1. OwnerInv => FreshRunIsExclusive
  BY DEF OwnerInv, Owns, FreshRunIsExclusive
<1>2. OwnerInv /\ [Next]_vars => OwnerInv'
  BY OwnerInvStep
<1> QED
  BY <1>1, <1>2, OwnerInvInit, PTL DEF Spec

\* An event that ends in a final status is the last one.
FinalIsLast(e) ==
    \A i \in 1..Len(trail[e]) :
        trail[e][i].toStatus \in TerminalStatus => i = Len(trail[e])

\* An event for a row that is not final comes after no final one.
LEMMA RecordKeepsFinalLast ==
    ASSUME StoreTypeOK, \A d \in Execution : TrailShape(d) /\ FinalIsLast(d),
           NEW e \in Execution, status[e] \notin TerminalStatus,
           NEW from \in Status \cup {"NONE"}, NEW to \in Status,
           Record(e, from, to)
    PROVE  \A d \in Execution : FinalIsLast(d)'
<1> DEFINE t == trail[e]
           event == [fromStatus |-> from, toStatus |-> to]
<1>1. ASSUME NEW d \in Execution, d # e PROVE FinalIsLast(d)'
  BY <1>1 DEF Record, StoreTypeOK, FinalIsLast
<1>2. FinalIsLast(e)'
  <2>1. /\ t \in Seq(ExecutionEvent) /\ event \in ExecutionEvent
        /\ trail'[e] = Append(t, event)
    BY DEF Record, StoreTypeOK, ExecutionEvent
  <2>2. /\ Len(t) \in Nat
        /\ Len(trail'[e]) = Len(t) + 1
        /\ \A i \in 1..Len(t) : trail'[e][i] = t[i]
    BY <2>1
  <2>3. \A i \in 1..Len(t) : t[i].toStatus \notin TerminalStatus
    BY <2>2 DEF TrailShape, FinalIsLast
  <2> QED
    BY <2>2, <2>3 DEF FinalIsLast
<1> QED
  BY <1>1, <1>2

\* When no live slot loses its lock, finalize succeeds once: what it read
\* still holds when it writes.
THEOREM FinalizesOnce ==
    ASSUME FaultBound["lockLoss"] = 0
    PROVE  Spec => []FinalizedOnce
<1> DEFINE FinalInv == \A e \in Execution : FinalIsLast(e)
<1>1. Init => FinalInv
  BY DEF Init, StoreInit, FinalIsLast
<1>2. ASSUME HistoryInv, OwnerInv, FinalInv, [Next]_vars PROVE FinalInv'
  <2> USE <1>2 DEF HistoryInv, TypeInv, TypeOK, SlotTypeOK
  <2>1. CASE UNCHANGED <<status, errorType, trail>>
    BY <2>1 DEF FinalIsLast
  <2>2. ASSUME NEW e \in Execution, CreateQueued(e) PROVE FinalInv'
    BY <2>2, RecordKeepsFinalLast DEF CreateQueued, Status, TerminalStatus
  <2>3. ASSUME NEW s \in Slot, pc[s] = "mark" /\ MarkRunning(cur[s])
        PROVE  FinalInv'
    BY <2>3, RecordKeepsFinalLast DEF MarkRunning, Status, TerminalStatus
  <2>4. ASSUME NEW s \in Slot, pc[s] = "commit" /\ Finalize(cur[s], pending[s])
        PROVE  FinalInv'
    <3>1. cur[s] \in Execution /\ status[cur[s]] = "RUNNING"
      BY <2>4 DEF OwnerInv, Owns
    <3>2. pending[s].status \in Status
      BY <2>4 DEF Payload, Status, TerminalStatus
    <3> QED
      BY <2>4, <3>1, <3>2, RecordKeepsFinalLast
      DEF Finalize, Status, TerminalStatus
  <2> QED
    BY <2>1, <2>2, <2>3, <2>4, TableSteps
<1>3. FinalInv => FinalizedOnce
  BY DEF FinalIsLast, FinalizedOnce
<1>4. OwnerInv /\ [Next]_vars => OwnerInv'
  BY OwnerInvStep
<1> QED
  BY <1>1, <1>2, <1>3, <1>4, OwnerInvInit, HistoryInvariant, PTL DEF Spec

\* When no live slot loses its lock, the worker implements the state machine
\* the repository declares: a row only moves from QUEUED to RUNNING to one
\* final status and then never again.
THEOREM RefinesLifecycle ==
    ASSUME FaultBound["lockLoss"] = 0
    PROVE  Spec => ImplementsLifecycle
<1>1. Init => Lifecycle!Init
  BY DEF Init, StoreInit, Lifecycle!Init
<1>2. ASSUME OwnerInv, [Next]_vars
      PROVE  [Lifecycle!Next]_status
  <2> USE <1>2 DEF OwnerInv, TypeInv, TypeOK, SlotTypeOK
  <2>1. CASE UNCHANGED <<status, errorType, trail>>
    BY <2>1
  <2>2. ASSUME NEW e \in Execution, CreateQueued(e) PROVE Lifecycle!Next
    BY <2>2 DEF CreateQueued, Lifecycle!Next, Lifecycle!Create
  <2>3. ASSUME NEW s \in Slot, pc[s] = "mark" /\ MarkRunning(cur[s])
        PROVE  Lifecycle!Next
    <3>1. Lifecycle!CanTransition("QUEUED", "RUNNING")
      BY DEF Lifecycle!CanTransition, Lifecycle!AllowedTransitions
    <3>2. Lifecycle!Transition(cur[s])
      BY <2>3, <3>1 DEF MarkRunning, Lifecycle!Transition
    <3> QED
      BY <2>3, <3>2 DEF Lifecycle!Next
  <2>4. ASSUME NEW s \in Slot, pc[s] = "commit" /\ Finalize(cur[s], pending[s])
        PROVE  Lifecycle!Next
    <3>1. status[cur[s]] = "RUNNING" /\ pending[s].status \in TerminalStatus
      BY <2>4 DEF Owns, Payload
    <3>2. Lifecycle!CanTransition("RUNNING", pending[s].status)
      BY <3>1
      DEF Lifecycle!CanTransition, Lifecycle!AllowedTransitions, TerminalStatus
    <3>3. Lifecycle!Transition(cur[s])
      BY <2>4, <3>1, <3>2
      DEF Finalize, Lifecycle!Transition, Lifecycle!TerminalStatus, TerminalStatus
    <3> QED
      BY <2>4, <3>3 DEF Lifecycle!Next
  <2> QED
    BY <2>1, <2>2, <2>3, <2>4, TableSteps
<1>3. OwnerInv /\ [Next]_vars => OwnerInv'
  BY OwnerInvStep
<1> QED
  BY <1>1, <1>2, <1>3, OwnerInvInit, PTL
  DEF Spec, ImplementsLifecycle, Lifecycle!Spec

=============================================================================
