----------------------- MODULE ExecutionRecoveryProofs -----------------------
(***************************************************************************)
(* BullMQ's recovery gives every execution back to a worker that finishes  *)
(* it (NothingForgotten), for every number of executions, slots and        *)
(* processes, in the deployments described by Recoverable.                 *)
(*                                                                         *)
(* Two things can drop a job too early: a handler that returns on a row    *)
(* that is not final, and a crash too many.  The first does not happen     *)
(* because a running row whose job is waiting is stale (Redelivered), so   *)
(* that the next handler takes it over; the second because every entry in  *)
(* stalledCount was paid for by a crash (Paid).                            *)
(***************************************************************************)
EXTENDS ExecutionWorkerProofs

\* Live slots keep their locks and their database calls succeed, BullMQ
\* forgives as many stalls as there are crashes, and a lock outlives what
\* workerStaleExecutionMs takes for a dead run.
Recoverable ==
    /\ FaultBound["dbError"] = 0
    /\ FaultBound["lockLoss"] = 0
    /\ FaultBound["crash"] <= MaxStalledCount
    /\ StallOutlivesStale

\* The row of an execution may be taken by whoever gets its job.
Redelivered(e) == status[e] = "RUNNING" => stale[e]

\* What the label of a slot tells of the row it works on.
SlotKnows(s) ==
    /\ pc[s] = "idle" => cur[s] = NoExecution
    /\ pc[s] = "find" => Redelivered(cur[s])
    /\ pc[s] \in {"finalize", "hung"} => status[cur[s]] = "RUNNING"
    /\ pc[s] \in {"returned", "threw"} => status[cur[s]] \in TerminalStatus

\* A job that is active but not worked on has a crash to answer for.
Paid(e) ==
    stalledCount[e] + (IF job[e] = "active" /\ ~Held(e) THEN 1 ELSE 0) <= faults["crash"]

\* What the state of a job tells of its row.
JobKnows(e) ==
    /\ job[e] # "none" \/ e \in publishing => status[e] # "ABSENT"
    /\ job[e] = "none" => status[e] \in {"ABSENT", "QUEUED"}
    /\ job[e] \in {"wait", "delayed"} => Redelivered(e)
    /\ job[e] \in {"completed", "failed"} => status[e] \in TerminalStatus
    /\ Paid(e)

RecoveryInv ==
    /\ OwnerInv
    /\ \A s \in Slot : SlotKnows(s)
    /\ \A e \in Execution : JobKnows(e)
    /\ faults["crash"] <= FaultBound["crash"]

-----------------------------------------------------------------------------
(* One lemma per kind of step.                                             *)

\* Nobody has anything to do yet.
LEMMA RecoveryInvInit == Recoverable /\ Init => RecoveryInv
<1> SUFFICES ASSUME Recoverable, Init PROVE RecoveryInv
  OBVIOUS
<1>1. OwnerInv
  BY OwnerInvInit
<1>2. \A s \in Slot : SlotKnows(s)
  BY DEF Init, SlotKnows
<1>3. \A e \in Execution : JobKnows(e)
  <2> TAKE e \in Execution
  <2>1. /\ status[e] = "ABSENT" /\ job[e] = "none" /\ stalledCount[e] = 0
        /\ publishing = {} /\ faults["crash"] = 0
    BY DEF Init, StoreInit, QueueInit, FaultKind
  <2> QED
    BY <2>1 DEF JobKnows, Paid
<1>4. faults["crash"] <= FaultBound["crash"]
  BY WorkerAssumption DEF Init, FaultKind
<1> QED
  BY <1>1, <1>2, <1>3, <1>4 DEF RecoveryInv

\* A step of the handler writes the row it works on and leaves the queue and
\* all other rows alone.
LEMMA HandlerEffect ==
    ASSUME OwnerInv, NEW r \in Slot, HandlerStep(r)
    PROVE  /\ pc[r] # "idle" /\ cur[r] \in Execution
           /\ lock[cur[r]] = r /\ job[cur[r]] = "active"
           /\ UNCHANGED <<queueVars, publishing, faults, cur, stale>>
           /\ status[cur[r]] # "ABSENT" => status'[cur[r]] # "ABSENT"
           /\ \A d \in Execution : d # cur[r] => status'[d] = status[d]
<1> USE DEF OwnerInv, TypeInv, TypeOK
<1> DEFINE e == cur[r]
<1>1. /\ pc[r] # "idle" /\ e \in Execution
      /\ UNCHANGED <<queueVars, publishing, faults, cur>>
  BY DEF HandlerStep, FindExecution, ClaimExecution, RefindExecution, TakeOver,
         LoadSession, ExecuteEnds, StartFinalize, CheckFinalize, CommitFinalize,
         GoTo, HandlerFrame, SlotTypeOK
<1>2. lock[e] = r /\ job[e] = "active"
  BY <1>1, QueueAssumption DEF Owns, QueueInv
<1>3. \/ UNCHANGED storeVars
      \/ MarkRunning(e) \/ IncrementAttempt(e)
      \/ pc[r] = "commit" /\ Finalize(e, pending[r])
  BY DEF HandlerStep, FindExecution, ClaimExecution, RefindExecution, TakeOver,
         LoadSession, ExecuteEnds, CheckFinalize, CommitFinalize
<1>4. pc[r] = "commit" => pending[r] \in Payload
  BY DEF SlotTypeOK
<1>5. stale' = stale
  BY <1>3 DEF storeVars, MarkRunning, IncrementAttempt, Finalize
<1>6. \A d \in Execution : d # e => status'[d] = status[d]
  BY <1>1, <1>3, <1>4, OneRow DEF storeVars
<1>7. status[e] # "ABSENT" => status'[e] # "ABSENT"
  BY <1>1, <1>3, <1>4
  DEF storeVars, MarkRunning, IncrementAttempt, Finalize, StoreTypeOK, Payload,
      TerminalStatus
<1> QED
  BY <1>1, <1>2, <1>5, <1>6, <1>7

\* The handler resolves or throws only when the row is final: it takes over
\* every running row it is handed, because that row is stale.
LEMMA HandlerKnows ==
    ASSUME RecoveryInv, NEW r \in Slot, HandlerStep(r)
    PROVE  SlotKnows(r)'
<1> USE DEF RecoveryInv, OwnerInv, TypeInv, TypeOK
<1> DEFINE e == cur[r]
<1>1. /\ e \in Execution /\ cur'[r] = e /\ pc[r] # "idle"
      /\ status[e] # "ABSENT"
      /\ Owns(r) /\ SlotKnows(r)
  BY HandlerEffect DEF JobKnows
<1>2. CASE FindExecution(r)
  <2>1. status[e] \in {"QUEUED", "RUNNING"} \cup TerminalStatus
    BY <1>1 DEF StoreTypeOK, Status
  <2>2. /\ pc'[r] \in {"mark", "bump", "returned"}
        /\ pc'[r] = "returned" => status[e] \in TerminalStatus
    BY <1>1, <1>2, <2>1
    DEF FindExecution, AfterFind, GoTo, SlotKnows, Redelivered, SlotTypeOK
  <2> QED
    BY <1>1, <1>2, <2>2 DEF FindExecution, SlotKnows, storeVars
<1>3. CASE ClaimExecution(r)
  BY <1>1, <1>3 DEF ClaimExecution, GoTo, Owns, SlotKnows, SlotTypeOK
<1>4. CASE RefindExecution(r)
  BY <1>1, <1>4 DEF RefindExecution, Owns
<1>5. CASE TakeOver(r)
  BY <1>1, <1>5 DEF TakeOver, GoTo, SlotKnows, SlotTypeOK
<1>6. CASE LoadSession(r)
  BY <1>1, <1>6 DEF LoadSession, GoTo, SlotKnows, SlotTypeOK
<1>7. CASE ExecuteEnds(r)
  BY <1>1, <1>7
  DEF ExecuteEnds, StartFinalize, storeVars, Owns, SlotKnows, SlotTypeOK
<1>8. CASE CheckFinalize(r)
  BY <1>1, <1>8
  DEF CheckFinalize, CanFinalize, GoTo, SlotKnows, SlotTypeOK
<1>9. CASE CommitFinalize(r)
  <2>1. status'[e] \in TerminalStatus
    BY <1>1, <1>9
    DEF CommitFinalize, Finalize, StoreTypeOK, SlotTypeOK, Payload
  <2>2. pc'[r] \in {"returned", "threw"}
    BY <1>9, OutcomeType DEF CommitFinalize, GoTo, SlotTypeOK
  <2> QED
    BY <1>1, <2>1, <2>2 DEF SlotKnows
<1> QED
  BY <1>2, <1>3, <1>4, <1>5, <1>6, <1>7, <1>8, <1>9 DEF HandlerStep

\* What a slot knows survives a step that leaves the slot and its row alone.
LEMMA SlotUntouched ==
    ASSUME NEW s \in Slot, SlotKnows(s),
           pc'[s] = pc[s], cur'[s] = cur[s],
           pc[s] # "idle" => /\ status'[cur[s]] = status[cur[s]]
                             /\ stale[cur[s]] => stale'[cur[s]]
    PROVE  SlotKnows(s)'
BY DEF SlotKnows, Redelivered

\* A step of the handler keeps what every slot and every job knows.
LEMMA HandlerStepRecovers ==
    ASSUME RecoveryInv, NEW r \in Slot, HandlerStep(r)
    PROVE  /\ \A s \in Slot : SlotKnows(s)'
           /\ \A e \in Execution : JobKnows(e)'
<1> USE DEF RecoveryInv, OwnerInv, TypeInv, TypeOK
<1> DEFINE e == cur[r]
<1>1. /\ pc[r] # "idle" /\ e \in Execution
      /\ lock[e] = r /\ job[e] = "active"
      /\ UNCHANGED <<queueVars, publishing, faults, cur, stale>>
      /\ status[e] # "ABSENT" => status'[e] # "ABSENT"
      /\ \A d \in Execution : d # e => status'[d] = status[d]
  BY HandlerEffect
<1>2. SlotKnows(r)'
  BY HandlerKnows
<1>3. ASSUME NEW s \in Slot, s # r PROVE SlotKnows(s)'
  <2>1. pc'[s] = pc[s] /\ cur'[s] = cur[s]
    BY <1>3, OtherSlots DEF SlotStep
  <2>2. pc[s] # "idle" => cur[s] \in Execution /\ cur[s] # e
    BY <1>1, <1>3 DEF Owns, SlotTypeOK
  <2> QED
    BY <1>1, <2>1, <2>2, SlotUntouched
<1>4. ASSUME NEW d \in Execution PROVE JobKnows(d)'
  <2>1. JobKnows(d)
    OBVIOUS
  <2>2. Paid(d)'
    BY <1>1, <2>1 DEF JobKnows, Paid, Held, queueVars
  <2>3. /\ job'[d] # "none" \/ d \in publishing' => status'[d] # "ABSENT"
        /\ job'[d] = "none" => status'[d] \in {"ABSENT", "QUEUED"}
        /\ job'[d] \in {"wait", "delayed"} => Redelivered(d)'
        /\ job'[d] \in {"completed", "failed"} => status'[d] \in TerminalStatus
    BY <1>1, <2>1 DEF JobKnows, queueVars, Redelivered
  <2> QED
    BY <2>2, <2>3 DEF JobKnows
<1> QED
  BY <1>2, <1>3, <1>4

\* A handler that resolved leaves a completed job, one that threw a job to
\* retry: its row is final in both cases.
LEMMA SettleRecovers ==
    ASSUME RecoveryInv, NEW r \in Slot, Settle(r)
    PROVE  /\ \A s \in Slot : SlotKnows(s)'
           /\ \A e \in Execution : JobKnows(e)'
<1> USE DEF RecoveryInv, OwnerInv, TypeInv, TypeOK
<1> DEFINE e == cur[r]
<1>1. /\ pc[r] \in {"returned", "threw"} /\ e \in Execution /\ lock[e] = r
      /\ status[e] \in TerminalStatus
      /\ UNCHANGED <<storeVars, publishing, faults>>
  BY DEF Settle, Owns, SlotKnows, SlotTypeOK
<1>2. /\ job' = [job EXCEPT ![e] = job'[e]]
      /\ job'[e] \in {"completed", "delayed", "failed"}
      /\ lock' = [lock EXCEPT ![e] = NoSlot]
      /\ stalledCount' = stalledCount
  <2>1. CASE CompleteJob(r, e)
    BY <1>1, <2>1 DEF CompleteJob, QueueTypeOK
  <2>2. CASE FailJob(r, e)
    BY <1>1, <2>2 DEF FailJob, QueueTypeOK
  <2> QED
    BY <2>1, <2>2 DEF Settle
<1>3. /\ pc' = [pc EXCEPT ![r] = "idle"]
      /\ cur' = [cur EXCEPT ![r] = NoExecution]
  BY DEF Settle, FreeSlot
<1>4. ASSUME NEW s \in Slot PROVE SlotKnows(s)'
  <2>1. CASE s = r
    BY <1>3, <2>1 DEF SlotKnows, SlotTypeOK
  <2>2. CASE s # r
    BY <1>1, <1>3, <2>2, SlotUntouched DEF storeVars, SlotTypeOK
  <2> QED
    BY <2>1, <2>2
<1>5. ASSUME NEW d \in Execution PROVE JobKnows(d)'
  <2>1. JobKnows(d) /\ status' = status /\ stale' = stale
    BY <1>1 DEF storeVars
  <2>2. CASE d = e
    <3>1. Paid(d)'
      <4>1. job'[d] # "active" /\ stalledCount'[d] <= faults'["crash"]
        BY <1>1, <1>2, <2>1, <2>2 DEF JobKnows, Paid, QueueTypeOK, FaultKind
      <4> QED
        BY <1>2, <4>1 DEF Paid, QueueTypeOK
    <3> QED
      BY <1>1, <1>2, <2>1, <2>2, <3>1
      DEF JobKnows, Redelivered, QueueTypeOK, TerminalStatus
  <2>3. CASE d # e
    <3>1. job'[d] = job[d] /\ lock'[d] = lock[d] /\ stalledCount'[d] = stalledCount[d]
      BY <1>2, <2>3 DEF QueueTypeOK
    <3>2. Held(d) => Held(d)'
      BY <1>1, <1>3, <2>3, <3>1 DEF Held, SlotTypeOK
    <3>3. Paid(d)'
      BY <1>1, <2>1, <3>1, <3>2 DEF JobKnows, Paid, QueueTypeOK, FaultKind
    <3> QED
      BY <1>1, <2>1, <3>1, <3>3 DEF JobKnows, Redelivered
  <2> QED
    BY <2>2, <2>3
<1> QED
  BY <1>4, <1>5

\* A job is delivered with a row that may be taken.
LEMMA DeliverRecovers ==
    ASSUME RecoveryInv, NEW r \in Slot, NEW e \in Execution, Deliver(r, e)
    PROVE  /\ \A s \in Slot : SlotKnows(s)'
           /\ \A d \in Execution : JobKnows(d)'
<1> USE DEF RecoveryInv, OwnerInv, TypeInv, TypeOK
<1>1. /\ pc[r] = "idle" /\ job[e] = "wait" /\ Redelivered(e)
      /\ UNCHANGED <<storeVars, publishing, faults, stalledCount>>
      /\ pc' = [pc EXCEPT ![r] = "find"] /\ cur' = [cur EXCEPT ![r] = e]
      /\ job' = [job EXCEPT ![e] = "active"] /\ lock' = [lock EXCEPT ![e] = r]
  BY DEF Deliver, TakeJob, JobKnows
<1>2. UNCHANGED <<status, stale>>
  BY <1>1 DEF storeVars
<1>3. ASSUME NEW s \in Slot PROVE SlotKnows(s)'
  <2>1. CASE s = r
    BY <1>1, <1>2, <2>1 DEF SlotKnows, Redelivered, SlotTypeOK
  <2>2. CASE s # r
    BY <1>1, <1>2, <2>2, SlotUntouched DEF SlotTypeOK
  <2> QED
    BY <2>1, <2>2
<1>4. ASSUME NEW d \in Execution PROVE JobKnows(d)'
  <2>1. JobKnows(d)
    OBVIOUS
  <2>2. CASE d = e
    <3>1. job'[d] = "active" /\ Held(d)' /\ job[d] = "wait"
      BY <1>1, <2>2 DEF Held, QueueTypeOK, SlotTypeOK
    <3>2. Paid(d)'
      BY <1>1, <2>1, <3>1 DEF JobKnows, Paid, QueueTypeOK, FaultKind
    <3> QED
      BY <1>1, <1>2, <2>1, <3>1, <3>2 DEF JobKnows
  <2>3. CASE d # e
    <3>1. job'[d] = job[d] /\ lock'[d] = lock[d]
      BY <1>1, <2>3 DEF QueueTypeOK
    <3>2. Held(d) => Held(d)'
      BY <1>1, <2>3, <3>1, WorkerAssumption DEF Held, SlotTypeOK, SlotKnows
    <3>3. Paid(d)'
      BY <1>1, <2>1, <3>1, <3>2 DEF JobKnows, Paid, QueueTypeOK, FaultKind
    <3> QED
      BY <1>1, <1>2, <2>1, <3>1, <3>3 DEF JobKnows, Redelivered
  <2> QED
    BY <2>2, <2>3
<1> QED
  BY <1>3, <1>4

\* A crash frees the slots of a process; it pays for each job they held.
LEMMA CrashRecovers ==
    ASSUME RecoveryInv, NEW p \in Process, Crash(p)
    PROVE  /\ \A s \in Slot : SlotKnows(s)'
           /\ \A e \in Execution : JobKnows(e)'
<1> USE DEF RecoveryInv, OwnerInv, TypeInv, TypeOK
<1>1. /\ UNCHANGED <<status, stale, job, lock, stalledCount, publishing>>
      /\ faults'["crash"] = faults["crash"] + 1
  BY DEF Crash, Spend, FaultKind, storeVars, queueVars
<1>2. ASSUME NEW s \in Slot
      PROVE  \/ pc'[s] = "idle" /\ cur'[s] = NoExecution
             \/ pc'[s] = pc[s] /\ cur'[s] = cur[s]
  BY DEF Crash
<1>3. ASSUME NEW s \in Slot PROVE SlotKnows(s)'
  BY <1>1, <1>2, SlotUntouched DEF SlotKnows
<1>4. ASSUME NEW e \in Execution PROVE JobKnows(e)'
  <2>1. JobKnows(e)
    OBVIOUS
  <2>2. Paid(e)'
    BY <1>1, <2>1 DEF JobKnows, Paid, QueueTypeOK, FaultKind
  <2> QED
    BY <1>1, <2>1, <2>2 DEF JobKnows, Redelivered
<1> QED
  BY <1>3, <1>4

\* The stalled-job check puts a job back, as its crash is forgiven and the
\* run it interrupted is stale.
LEMMA StallRecovers ==
    ASSUME RecoveryInv, Recoverable,
           NEW e \in Execution, StalledAfterCrash(e)
    PROVE  /\ \A s \in Slot : SlotKnows(s)'
           /\ \A d \in Execution : JobKnows(d)'
<1> USE DEF RecoveryInv, OwnerInv, TypeInv, TypeOK
<1>1. /\ ~Held(e) /\ job[e] = "active" /\ Redelivered(e)
      /\ UNCHANGED <<storeVars, slotVars, publishing, faults>>
  BY DEF StalledAfterCrash, StallJob, LockMayExpire, Redelivered, Recoverable
<1>2. stalledCount[e] + 1 <= faults["crash"]
  BY <1>1 DEF JobKnows, Paid
<1>3. stalledCount[e] + 1 <= MaxStalledCount
  <2>1. /\ stalledCount[e] \in Nat /\ faults["crash"] \in Nat
        /\ FaultBound["crash"] \in Nat /\ MaxStalledCount \in Nat
        /\ FaultBound["crash"] <= MaxStalledCount
        /\ faults["crash"] <= FaultBound["crash"]
    BY WorkerAssumption, QueueAssumption DEF QueueTypeOK, FaultKind, Recoverable
  <2> QED
    BY <1>2, <2>1
<1>4. /\ job' = [job EXCEPT ![e] = "wait"] /\ lock' = [lock EXCEPT ![e] = NoSlot]
      /\ stalledCount' = [stalledCount EXCEPT ![e] = @ + 1]
  <2>1. ~(stalledCount[e] + 1 > MaxStalledCount)
    BY <1>3, QueueAssumption DEF QueueTypeOK
  <2> QED
    BY <2>1 DEF StalledAfterCrash, StallJob
<1>5. UNCHANGED <<status, stale, pc, cur>>
  BY <1>1 DEF storeVars, slotVars
<1>6. ASSUME NEW s \in Slot PROVE SlotKnows(s)'
  BY <1>5, SlotUntouched
<1>7. ASSUME NEW d \in Execution PROVE JobKnows(d)'
  <2>1. JobKnows(d)
    OBVIOUS
  <2>2. CASE d = e
    <3>1. job'[d] = "wait" /\ stalledCount'[d] = stalledCount[e] + 1
      BY <1>4, <2>2 DEF QueueTypeOK
    <3>2. Paid(d)'
      BY <1>1, <1>2, <3>1 DEF Paid, QueueTypeOK
    <3> QED
      BY <1>1, <1>5, <2>1, <2>2, <3>1, <3>2 DEF JobKnows, Redelivered
  <2>3. CASE d # e
    <3>1. job'[d] = job[d] /\ lock'[d] = lock[d] /\ stalledCount'[d] = stalledCount[d]
      BY <1>4, <2>3 DEF QueueTypeOK
    <3>2. Paid(d)'
      BY <1>1, <1>5, <2>1, <3>1 DEF JobKnows, Paid, Held
    <3> QED
      BY <1>1, <1>5, <2>1, <3>1, <3>2 DEF JobKnows, Redelivered
  <2> QED
    BY <2>2, <2>3
<1> QED
  BY <1>6, <1>7

\* The steps of the API, the backoff and time concern one execution.
LEMMA ApiAndTimeRecover ==
    ASSUME RecoveryInv, NEW e \in Execution,
           Submit(e) \/ Publish(e) \/ PublishLost(e) \/ Retry(e) \/ Age(e)
    PROVE  /\ \A s \in Slot : SlotKnows(s)'
           /\ \A d \in Execution : JobKnows(d)'
<1> USE DEF RecoveryInv, OwnerInv, TypeInv, TypeOK
<1>1. /\ UNCHANGED <<pc, cur, lock, stalledCount>>
      /\ faults'["crash"] = faults["crash"]
  BY DEF Submit, Publish, PublishLost, Retry, Age, AddJob, BackoffElapses, Spend,
         FaultKind, slotVars, queueVars
<1>2. \A d \in Execution :
         /\ status[d] # "ABSENT" => status'[d] = status[d]
         /\ stale[d] => stale'[d]
         /\ status[d] = "ABSENT" => status'[d] \in {"ABSENT", "QUEUED"}
  BY DEF Submit, Publish, PublishLost, Retry, Age, CreateQueued, BecomeStale,
         storeVars, StoreTypeOK
<1>3. \A d \in Execution :
         \/ job'[d] = job[d] 
         \/ job[d] = "none" /\ d \in publishing /\ job'[d] = "wait"
         \/ job[d] = "delayed" /\ job'[d] = "wait"
  BY DEF Submit, Publish, PublishLost, Retry, Age, AddJob, BackoffElapses,
         queueVars, QueueTypeOK
<1>4. \A d \in publishing' : d \in publishing \/ status'[d] = "QUEUED"
  BY DEF Submit, Publish, PublishLost, Retry, Age, CreateQueued, StoreTypeOK
<1>5. ASSUME NEW s \in Slot PROVE SlotKnows(s)'
  <2>1. pc[s] # "idle" => /\ cur[s] \in Execution /\ job[cur[s]] = "active"
                          /\ status[cur[s]] # "ABSENT"
    BY QueueAssumption DEF Owns, SlotTypeOK, QueueInv, JobKnows
  <2> QED
    BY <1>1, <1>2, <2>1, SlotUntouched
<1>6. ASSUME NEW d \in Execution PROVE JobKnows(d)'
  <2>1. JobKnows(d)
    OBVIOUS
  <2>2. Paid(d)'
    BY <1>1, <1>3, <2>1 DEF JobKnows, Paid, Held
  <2>3. job'[d] # "none" \/ d \in publishing' => status'[d] # "ABSENT"
    BY <1>2, <1>3, <1>4, <2>1 DEF JobKnows
  <2>4. job'[d] = "none" => status'[d] \in {"ABSENT", "QUEUED"}
    BY <1>2, <1>3, <2>1 DEF JobKnows
  <2>5. job'[d] \in {"wait", "delayed"} => Redelivered(d)'
    BY <1>2, <1>3, <2>1 DEF JobKnows, Redelivered
  <2>6. job'[d] \in {"completed", "failed"} => status'[d] \in TerminalStatus
    BY <1>2, <1>3, <2>1 DEF JobKnows, TerminalStatus
  <2> QED
    BY <2>2, <2>3, <2>4, <2>5, <2>6 DEF JobKnows
<1> QED
  BY <1>5, <1>6

\* Steps that change neither the rows nor the queue.
LEMMA QuietStepRecovers ==
    ASSUME RecoveryInv, UNCHANGED <<storeVars, queueVars, publishing, cur>>,
           faults'["crash"] = faults["crash"],
           \A s \in Slot : pc'[s] = pc[s] \/ (pc[s] = "run" /\ pc'[s] = "hung")
    PROVE  /\ \A s \in Slot : SlotKnows(s)'
           /\ \A e \in Execution : JobKnows(e)'
<1> USE DEF RecoveryInv, OwnerInv
<1>1. UNCHANGED <<status, stale, job, lock, stalledCount>>
  BY DEF storeVars, queueVars
<1>2. ASSUME NEW s \in Slot PROVE SlotKnows(s)'
  <2>1. CASE pc'[s] = pc[s]
    BY <1>1, <2>1, SlotUntouched
  <2>2. CASE pc[s] = "run" /\ pc'[s] = "hung"
    BY <1>1, <2>2 DEF Owns, SlotKnows
  <2> QED
    BY <2>1, <2>2
<1>3. ASSUME NEW e \in Execution PROVE JobKnows(e)'
  <2>1. JobKnows(e)
    OBVIOUS
  <2>2. Paid(e)'
    BY <1>1, <2>1 DEF JobKnows, Paid, Held
  <2> QED
    BY <1>1, <2>1, <2>2 DEF JobKnows, Redelivered
<1> QED
  BY <1>2, <1>3

-----------------------------------------------------------------------------
(* RecoveryInv is inductive.                                               *)

\* Every step keeps RecoveryInv.
LEMMA RecoveryInvStep ==
    ASSUME RecoveryInv, Recoverable, [Next]_vars
    PROVE  RecoveryInv'
<1> DEFINE Known == /\ \A s \in Slot : SlotKnows(s)'
                    /\ \A e \in Execution : JobKnows(e)'
<1>1. OwnerInv'
  BY OwnerInvStep DEF RecoveryInv, Recoverable
<1>2. faults'["crash"] <= FaultBound["crash"]
  <2>1. faults \in [FaultKind -> Nat] /\ faults["crash"] <= FaultBound["crash"]
    BY DEF RecoveryInv, OwnerInv, TypeInv, TypeOK
  <2>2. \/ faults' = faults
        \/ \E k \in FaultKind : Spend(k)
    BY DEF Next, SlotStep, HandlerStep, FindExecution, ClaimExecution,
           RefindExecution, TakeOver, LoadSession, ExecuteEnds, CheckFinalize,
           CommitFinalize, HandlerFrame, Settle, Hang, DbCallFails, FinalizeFails,
           CommitUnacked, Deliver, ExecutionStep, Submit, Publish, PublishLost,
           StalledAfterCrash, LockLost, Retry, Age, ProcessStep, Crash, Shutdown,
           Restart, vars, FaultKind
  <2>3. ASSUME NEW k \in FaultKind, Spend(k)
        PROVE  faults'["crash"] <= FaultBound["crash"]
    <3>1. FaultBound \in [FaultKind -> Nat] /\ "crash" \in FaultKind
      BY WorkerAssumption DEF FaultKind
    <3>2. CASE k = "crash"
      <4>1. /\ faults["crash"] < FaultBound["crash"]
            /\ faults'["crash"] = faults["crash"] + 1
        BY <2>1, <2>3, <3>1, <3>2 DEF Spend
      <4>2. faults["crash"] \in Nat /\ FaultBound["crash"] \in Nat
        BY <2>1, <3>1
      <4> QED
        BY <4>1, <4>2
    <3>3. CASE k # "crash"
      BY <2>1, <2>3, <3>1, <3>3 DEF Spend
    <3> QED
      BY <3>2, <3>3
  <2> QED
    BY <2>1, <2>2, <2>3
<1>3. ASSUME NEW r \in Slot, SlotStep(r) PROVE Known
  <2>1. ~DbCallFails(r) /\ ~FinalizeFails(r) /\ ~CommitUnacked(r)
    BY DEF DbCallFails, FinalizeFails, CommitUnacked, Spend, Recoverable,
           RecoveryInv, OwnerInv, TypeInv, TypeOK, FaultKind
  <2>2. CASE Hang(r)
    BY <2>2, QuietStepRecovers
    DEF Hang, GoTo, Spend, FaultKind, RecoveryInv, OwnerInv, TypeInv, TypeOK,
        SlotTypeOK
  <2> QED
    BY <1>3, <2>1, <2>2, HandlerStepRecovers, SettleRecovers, DeliverRecovers
    DEF SlotStep
<1>4. ASSUME NEW e \in Execution, ExecutionStep(e) PROVE Known
  <2>1. ~LockLost(e)
    BY DEF LockLost, Spend, Recoverable, RecoveryInv, OwnerInv, TypeInv, TypeOK,
           FaultKind
  <2> QED
    BY <1>4, <2>1, StallRecovers, ApiAndTimeRecover DEF ExecutionStep
<1>5. ASSUME NEW p \in Process, ProcessStep(p) PROVE Known
  <2>1. CASE Crash(p)
    BY <2>1, CrashRecovers
  <2>2. CASE Shutdown(p) \/ Restart(p)
    BY <2>2, QuietStepRecovers
    DEF Shutdown, Restart, Spend, slotVars, FaultKind, RecoveryInv, OwnerInv,
        TypeInv, TypeOK
  <2> QED
    BY <1>5, <2>1, <2>2 DEF ProcessStep
<1>6. ASSUME UNCHANGED vars PROVE Known
  BY <1>6, QuietStepRecovers DEF vars, slotVars
<1>7. Known
  BY <1>3, <1>4, <1>5, <1>6 DEF Next
<1> QED
  BY <1>1, <1>2, <1>7 DEF RecoveryInv

\* In these deployments the queue never drops an execution it was given
\* before it is finished: a job ends only when its row is final.
THEOREM NothingIsForgotten ==
    ASSUME Recoverable
    PROVE  Spec => []NothingForgotten
<1>1. RecoveryInv => NothingForgotten
  BY DEF RecoveryInv, OwnerInv, TypeInv, TypeOK, QueueTypeOK, JobState, LiveJob,
         JobKnows, NothingForgotten
<1>2. RecoveryInv /\ [Next]_vars => RecoveryInv'
  BY RecoveryInvStep
<1>3. Init => RecoveryInv
  BY RecoveryInvInit
<1> QED
  BY <1>1, <1>2, <1>3, PTL DEF Spec
=============================================================================
