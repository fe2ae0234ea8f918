--------------------------- MODULE PlatformProofs ---------------------------
(***************************************************************************)
(* The platform as a whole implements RunAdmission, for every number of    *)
(* requests, slots and processes and every fault bound; and so the bounds  *)
(* proved of RunAdmission alone hold while workers crash, lose their locks *)
(* and finalize twice.                                                     *)
(*                                                                         *)
(* The steps of the API are RunAdmission's by definition.  What has to be  *)
(* shown is that a step of the workers changes a row only as StartRun and  *)
(* FinishRun do: it claims rows whose job is queued (SlotsHaveJobs), and   *)
(* finalizes rows that run or are final already (HistoryInv).              *)
(***************************************************************************)
EXTENDS Platform, ExecutionRecoveryProofs

Api == INSTANCE RunAdmissionProofs WITH
    Request <- Execution, pc <- apiPc, row <- Row, queued <- Queued

\* A slot works on jobs that are in the queue.
SlotsHaveJobs == \A s \in Slot : pc[s] # "idle" => job[cur[s]] # "none"

\* The request that creates an execution, its row and its job agree.
RequestKnows(e) ==
    /\ e \in publishing <=> apiPc[e] = "add"
    /\ job[e] # "none" \/ apiPc[e] = "add" => status[e] # "ABSENT"
    /\ answer[e] = "202" => job[e] # "none"

PlatformInv ==
    /\ HistoryInv
    /\ Api!TypeOK /\ Api!RequestInv
    /\ seen \in [Execution -> Payload \cup {NoAnswer}]
    /\ SlotsHaveJobs
    /\ \A e \in Execution : RequestKnows(e)

-----------------------------------------------------------------------------
(* The instance that Platform states its property with and the one that    *)
(* brings the lemmas are the same module with the same substitution.       *)

\* They have the same steps.
LEMMA SameStep == Admission!Next <=> Api!Next
<1>1. \A r \in Execution, s \in Session :
        Admission!Arrive(r, s) <=> Api!Arrive(r, s)
  BY DEF Admission!Arrive, Api!Arrive, Admission!InProgress, Api!InProgress,
         Admission!Cardinality, Api!Cardinality
<1>2. \A r \in Execution : Admission!FindSession(r) <=> Api!FindSession(r)
  BY DEF Admission!FindSession, Api!FindSession, Admission!GoTo, Api!GoTo,
         Admission!AnswerWith, Api!AnswerWith
<1>3. \A r \in Execution : Admission!CheckInFlight(r) <=> Api!CheckInFlight(r)
  BY DEF Admission!CheckInFlight, Api!CheckInFlight, Admission!GoTo, Api!GoTo,
         Admission!AnswerWith, Api!AnswerWith, Admission!InFlight,
         Api!InFlight, Admission!Rows, Api!Rows
<1>4. \A r \in Execution : Admission!CheckRate(r) <=> Api!CheckRate(r)
  BY DEF Admission!CheckRate, Api!CheckRate, Admission!GoTo, Api!GoTo,
         Admission!AnswerWith, Api!AnswerWith, Admission!QueuedSince,
         Api!QueuedSince, Admission!Rows, Api!Rows, Admission!RowStatus,
         Api!RowStatus, Admission!RateAllows, Api!RateAllows,
         Admission!Cardinality, Api!Cardinality
<1>5. \A r \in Execution : Admission!CreateRow(r) <=> Api!CreateRow(r)
  BY DEF Admission!CreateRow, Api!CreateRow, Admission!NewRow, Api!NewRow,
         Admission!GoTo, Api!GoTo
<1>6. \A r \in Execution : Admission!AddJob(r) <=> Api!AddJob(r)
  BY DEF Admission!AddJob, Api!AddJob, Admission!AnswerWith, Api!AnswerWith
<1>7. \A r \in Execution : Admission!CallFails(r) <=> Api!CallFails(r)
  BY DEF Admission!CallFails, Api!CallFails, Admission!AnswerWith,
         Api!AnswerWith, Admission!NewRow, Api!NewRow
<1>8. \A r \in Execution : Admission!StartRun(r) <=> Api!StartRun(r)
  BY DEF Admission!StartRun, Api!StartRun
<1>9. \A r \in Execution : Admission!FinishRun(r) <=> Api!FinishRun(r)
  BY DEF Admission!FinishRun, Api!FinishRun
<1>10. Admission!Tick <=> Api!Tick
  BY DEF Admission!Tick, Api!Tick, Admission!Old, Api!Old
<1> QED
  BY <1>1, <1>2, <1>3, <1>4, <1>5, <1>6, <1>7, <1>8, <1>9, <1>10
  DEF Admission!Next, Api!Next, Admission!Handle, Api!Handle

\* They have the same initial states, variables and types.
LEMMA SameState ==
    /\ Admission!Init <=> Api!Init
    /\ Admission!vars = Api!vars
    /\ Admission!TypeOK <=> Api!TypeOK
<1>1. Admission!Init <=> Api!Init
  BY DEF Admission!Init, Api!Init, Admission!NoSession, Api!NoSession
<1>2. Admission!vars = Api!vars
  BY DEF Admission!vars, Api!vars
<1>3. Admission!TypeOK <=> Api!TypeOK
  BY DEF Admission!TypeOK, Api!TypeOK, Admission!Label, Api!Label,
         Admission!Answer, Api!Answer, Admission!RowStatus, Api!RowStatus,
         Admission!Old, Api!Old, Admission!NoSession, Api!NoSession
<1> QED
  BY <1>1, <1>2, <1>3

\* What RunAdmission assumes of its constants.
LEMMA AdmissionConstants == Api!AdmissionAssumption
BY PlatformAssumption DEF Admission!AdmissionAssumption, Api!AdmissionAssumption,
                          Admission!IsFiniteSet, Api!IsFiniteSet

-----------------------------------------------------------------------------
(* What a step of the platform is to the worker, and to the queue.         *)

\* Every step of the platform is one of ExecutionWorker or none.
LEMMA PlatformStepIsStep ==
    ASSUME [PlatformNext]_platformVars
    PROVE  [Next]_vars
<1>1. ASSUME NEW e \in Execution, EnqueueExecution(e) PROVE Next
  BY <1>1 DEF EnqueueExecution, Next, ExecutionStep
<1>2. ASSUME NEW e \in Execution, ApiFails(e) PROVE [Next]_vars
  BY <1>2 DEF ApiFails, Next, ExecutionStep
<1>3. ASSUME WorkerStep PROVE Next
  BY <1>3 DEF WorkerStep, Next, ExecutionStep
<1>4. ASSUME NEW e \in Execution, Arrive(e) \/ AssertCanRun(e) \/ Poll(e)
      PROVE  UNCHANGED vars
  BY <1>4 DEF Arrive, AssertCanRun, Poll
<1>5. CASE Tick \/ UNCHANGED platformVars
  BY <1>5 DEF Tick, platformVars
<1> QED
  BY <1>1, <1>2, <1>3, <1>4, <1>5 DEF PlatformNext

\* Workers and BullMQ neither add jobs nor remove them.
LEMMA WorkersKeepJobs ==
    ASSUME TypeInv, WorkerStep
    PROVE  /\ \A d \in Execution : job'[d] = "none" <=> job[d] = "none"
           /\ publishing' = publishing
<1> USE DEF TypeInv, TypeOK, QueueTypeOK
<1> DEFINE Kept == /\ \A d \in Execution : job'[d] = "none" <=> job[d] = "none"
                   /\ publishing' = publishing
<1>1. ASSUME NEW s \in Slot, HandlerStep(s) PROVE Kept
  BY <1>1 DEF HandlerStep, FindExecution, ClaimExecution, RefindExecution,
              TakeOver, LoadSession, ExecuteEnds, CheckFinalize, CommitFinalize,
              HandlerFrame, queueVars
<1>2. ASSUME NEW s \in Slot,
             \/ Hang(s) \/ DbCallFails(s) \/ FinalizeFails(s) \/ CommitUnacked(s)
      PROVE  Kept
  BY <1>2 DEF Hang, DbCallFails, FinalizeFails, CommitUnacked, queueVars
<1>3. ASSUME NEW s \in Slot, Settle(s) PROVE Kept
  <2>1. cur[s] \in Execution /\ (lock[cur[s]] = s => job[cur[s]] = "active")
    BY <1>3, QueueAssumption DEF Settle, SlotTypeOK, QueueInv
  <2>2. CASE CompleteJob(s, cur[s])
    BY <1>3, <2>1, <2>2 DEF CompleteJob, Settle, queueVars
  <2>3. CASE FailJob(s, cur[s])
    BY <1>3, <2>1, <2>3 DEF FailJob, Settle, queueVars
  <2> QED
    BY <1>3, <2>2, <2>3 DEF Settle
<1>4. ASSUME NEW s \in Slot, NEW e \in Execution, Deliver(s, e) PROVE Kept
  BY <1>4 DEF Deliver, TakeJob
<1>5. ASSUME NEW e \in Execution, StalledAfterCrash(e) \/ LockLost(e) PROVE Kept
  BY <1>5 DEF StalledAfterCrash, LockLost, StallJob
<1>6. ASSUME NEW e \in Execution, Retry(e) \/ Age(e) PROVE Kept
  BY <1>6 DEF Retry, BackoffElapses, Age, queueVars
<1>7. ASSUME NEW p \in Process, ProcessStep(p) PROVE Kept
  BY <1>7 DEF ProcessStep, Crash, Shutdown, Restart, queueVars
<1> QED
  BY <1>1, <1>2, <1>3, <1>4, <1>5, <1>6, <1>7 DEF WorkerStep, SlotStep

\* A slot gets its execution with a job, and jobs stay.
LEMMA SlotsHaveJobsStep ==
    ASSUME TypeInv, SlotsHaveJobs, [Next]_vars,
           \A d \in Execution : job[d] # "none" => job'[d] # "none"
    PROVE  SlotsHaveJobs'
<1> USE DEF TypeInv, TypeOK, SlotTypeOK
<1> SUFFICES ASSUME NEW s \in Slot, pc'[s] # "idle"
             PROVE  job'[cur'[s]] # "none"
  BY DEF SlotsHaveJobs
<1> DEFINE Same == pc[s] # "idle" /\ cur'[s] = cur[s]
<1>1. CASE HandlerStep(s)
  BY <1>1 DEF HandlerStep, FindExecution, ClaimExecution, RefindExecution,
              TakeOver, LoadSession, ExecuteEnds, StartFinalize, CheckFinalize,
              CommitFinalize, GoTo, SlotsHaveJobs
<1>2. CASE Hang(s) \/ DbCallFails(s) \/ FinalizeFails(s) \/ CommitUnacked(s)
  BY <1>2 DEF Hang, DbCallFails, FinalizeFails, CommitUnacked, StartFinalize,
              AfterFinalizeRejected, GoTo, SlotsHaveJobs
<1>3. CASE Settle(s)
  BY <1>3 DEF Settle, FreeSlot
<1>4. ASSUME NEW e \in Execution, Deliver(s, e) PROVE job'[cur'[s]] # "none"
  BY <1>4 DEF Deliver, TakeJob, QueueTypeOK
<1>5. ASSUME NEW r \in Slot, r # s, SlotStep(r) PROVE job'[cur'[s]] # "none"
  BY <1>5, OtherSlots DEF SlotsHaveJobs
<1>6. ASSUME NEW e \in Execution, ExecutionStep(e) PROVE job'[cur'[s]] # "none"
  BY <1>6 DEF ExecutionStep, Submit, Publish, PublishLost, StalledAfterCrash,
              LockLost, Retry, Age, slotVars, SlotsHaveJobs
<1>7. ASSUME NEW p \in Process, ProcessStep(p) PROVE job'[cur'[s]] # "none"
  BY <1>7 DEF ProcessStep, Crash, Shutdown, Restart, slotVars, SlotsHaveJobs
<1>8. CASE UNCHANGED vars
  BY <1>8 DEF vars, slotVars, SlotsHaveJobs
<1> QED
  BY <1>1, <1>2, <1>3, <1>4, <1>5, <1>6, <1>7, <1>8 DEF Next, SlotStep

-----------------------------------------------------------------------------
(* Every step of the platform is one of RunAdmission or none.              *)

\* A worker claims rows whose job is queued and finishes rows that run; a
\* second finalize, after a lock was lost, leaves a finished row finished.
LEMMA WorkerStepIsRun ==
    ASSUME PlatformInv, WorkerStep
    PROVE  Api!Next \/ UNCHANGED Api!vars
<1> USE DEF PlatformInv, HistoryInv, TypeInv, TypeOK
<1>1. Queued' = Queued /\ UNCHANGED apiVars
  BY WorkersKeepJobs DEF Queued, WorkerStep
<1>2. CASE UNCHANGED status
  BY <1>1, <1>2 DEF Row, Api!vars, apiVars
<1>3. ASSUME NEW s \in Slot, pc[s] = "mark", MarkRunning(cur[s])
      PROVE  Api!Next
  <2> DEFINE e == cur[s]
  <2>1. e \in Execution /\ e \in Queued /\ status[e] = "QUEUED"
    BY <1>3 DEF SlotTypeOK, SlotsHaveJobs, Queued, MarkRunning
  <2>2. status' = [status EXCEPT ![e] = "RUNNING"]
    BY <1>3 DEF MarkRunning
  <2>3. Row[e] = "QUEUED" /\ Row' = [Row EXCEPT ![e] = "RUNNING"]
    BY <2>1, <2>2 DEF Row, StoreTypeOK, TerminalStatus
  <2>4. Api!StartRun(e)
    BY <1>1, <2>1, <2>3 DEF Api!StartRun, apiVars
  <2> QED
    BY <2>1, <2>4 DEF Api!Next
<1>4. ASSUME NEW s \in Slot, pc[s] = "commit", Finalize(cur[s], pending[s])
      PROVE  Api!Next \/ UNCHANGED Api!vars
  <2> DEFINE e == cur[s]
  <2>1. /\ e \in Execution /\ pending[s].status \in TerminalStatus
        /\ status[e] = "RUNNING" \/ status[e] \in TerminalStatus
    BY <1>4 DEF SlotTypeOK, Payload, CommitReady, StoreTypeOK, Status
  <2>2. status' = [status EXCEPT ![e] = pending[s].status]
    BY <1>4 DEF Finalize
  <2>3. Row' = [Row EXCEPT ![e] = "FINISHED"]
    BY <2>1, <2>2 DEF Row, StoreTypeOK
  <2>4. CASE status[e] = "RUNNING"
    <3>1. Row[e] = "RUNNING"
      BY <2>1, <2>4 DEF Row, TerminalStatus
    <3>2. Api!FinishRun(e)
      BY <1>1, <2>3, <3>1 DEF Api!FinishRun, apiVars
    <3> QED
      BY <2>1, <3>2 DEF Api!Next
  <2>5. CASE status[e] \in TerminalStatus
    <3>1. Row' = Row
      BY <2>1, <2>3, <2>5 DEF Row
    <3> QED
      BY <1>1, <3>1 DEF Api!vars, apiVars
  <2> QED
    BY <2>1, <2>4, <2>5
<1>5. ASSUME NEW e \in Execution,
             StalledAfterCrash(e) \/ LockLost(e) \/ Retry(e) \/ Age(e)
      PROVE  UNCHANGED status
  BY <1>5 DEF StalledAfterCrash, LockLost, Retry, Age, BecomeStale, storeVars
<1>6. ASSUME NEW p \in Process, ProcessStep(p) PROVE UNCHANGED status
  BY <1>6 DEF ProcessStep, Crash, Shutdown, Restart, storeVars
<1> QED
  BY <1>2, <1>3, <1>4, <1>5, <1>6, SlotTableSteps DEF WorkerStep

\* The steps of the API are those of RunAdmission, and polling changes
\* nothing it knows of.
LEMMA AdmissionStep ==
    ASSUME PlatformInv, [PlatformNext]_platformVars
    PROVE  [Api!Next]_(Api!vars)
<1>1. ASSUME NEW e \in Execution,
             \/ Arrive(e) \/ AssertCanRun(e) \/ EnqueueExecution(e) \/ ApiFails(e)
      PROVE  Api!Next
  <2>1. \/ \E s \in Session : Admission!Arrive(e, s)
        \/ Admission!Handle(e) \/ Admission!CallFails(e)
    BY <1>1 DEF Arrive, AssertCanRun, EnqueueExecution, ApiFails, Admission!Handle
  <2>2. Admission!Next
    BY <2>1 DEF Admission!Next
  <2> QED
    BY <2>2, SameStep
<1>2. CASE Tick
  <2>1. Admission!Next
    BY <1>2 DEF Tick, Admission!Next
  <2> QED
    BY <2>1, SameStep
<1>3. ASSUME NEW e \in Execution, Poll(e) PROVE UNCHANGED Api!vars
  BY <1>3 DEF Poll, vars, storeVars, queueVars, apiVars, Api!vars, Row, Queued
<1>4. CASE UNCHANGED platformVars
  BY <1>4 DEF platformVars, vars, storeVars, queueVars, apiVars, Api!vars, Row,
              Queued
<1> QED
  BY <1>1, <1>2, <1>3, <1>4, WorkerStepIsRun DEF PlatformNext

-----------------------------------------------------------------------------
(* PlatformInv is inductive.                                               *)

\* Nobody has asked for anything.
LEMMA PlatformInvInit == PlatformInit => PlatformInv
<1> SUFFICES ASSUME PlatformInit PROVE PlatformInv
  OBVIOUS
<1> USE DEF PlatformInit
<1>1. HistoryInv
  BY TypeInvInit DEF Init, StoreInit, HistoryInv, TrailShape, CommitReady
<1>2. /\ Row = [e \in Execution |-> "ABSENT"]
      /\ Queued = {}
  BY DEF Init, StoreInit, QueueInit, Row, Queued, TerminalStatus
<1>3. Api!Init
  BY <1>2 DEF Api!Init, Admission!NoSession, Api!NoSession
<1>4. Api!AdmissionInv
  BY <1>3, AdmissionConstants, Api!AdmissionInvInit
<1>5. SlotsHaveJobs /\ \A e \in Execution : RequestKnows(e)
  BY DEF Init, QueueInit, SlotsHaveJobs, RequestKnows
<1> QED
  BY <1>1, <1>4, <1>5 DEF PlatformInv, Api!AdmissionInv

\* A row stays, and a job does, until they are looked for.
LEMMA RowsAndJobsStay ==
    ASSUME PlatformInv, [PlatformNext]_platformVars, NEW e \in Execution
    PROVE  /\ status[e] # "ABSENT" => status'[e] # "ABSENT"
           /\ job[e] # "none" => job'[e] # "none"
<1> USE DEF PlatformInv, HistoryInv, TypeInv, TypeOK
<1>1. ASSUME status[e] # "ABSENT" PROVE status'[e] # "ABSENT"
  <2>1. [Next]_vars
    BY PlatformStepIsStep
  <2>2. CASE UNCHANGED <<status, errorType, trail>>
    BY <1>1, <2>2
  <2>3. ASSUME NEW d \in Execution, CreateQueued(d) PROVE status'[e] # "ABSENT"
    BY <1>1, <2>3 DEF CreateQueued, StoreTypeOK
  <2>4. ASSUME NEW s \in Slot, pc[s] = "mark" /\ MarkRunning(cur[s])
        PROVE  status'[e] # "ABSENT"
    BY <1>1, <2>4 DEF MarkRunning, StoreTypeOK
  <2>5. ASSUME NEW s \in Slot, pc[s] = "commit" /\ Finalize(cur[s], pending[s])
        PROVE  status'[e] # "ABSENT"
    BY <1>1, <2>5 DEF Finalize, StoreTypeOK, SlotTypeOK, Payload, TerminalStatus
  <2> QED
    BY <2>1, <2>2, <2>3, <2>4, <2>5, TableSteps
<1>2. job[e] # "none" => job'[e] # "none"
  <2>1. CASE WorkerStep
    BY <2>1, WorkersKeepJobs
  <2>2. ASSUME NEW d \in Execution, EnqueueExecution(d) \/ ApiFails(d)
        PROVE  job[e] # "none" => job'[e] # "none"
    BY <2>2 DEF EnqueueExecution, ApiFails, Submit, Publish, PublishLost, AddJob,
                vars, queueVars, QueueTypeOK
  <2>3. ASSUME NEW d \in Execution, Arrive(d) \/ AssertCanRun(d) \/ Poll(d)
        PROVE  job[e] # "none" => job'[e] # "none"
    BY <2>3 DEF Arrive, AssertCanRun, Poll, vars, queueVars
  <2>4. CASE Tick \/ UNCHANGED platformVars
    BY <2>4 DEF Tick, platformVars, vars, queueVars
  <2> QED
    BY <2>1, <2>2, <2>3, <2>4 DEF PlatformNext
<1> QED
  BY <1>1, <1>2

\* The row comes before the job, and the job before the 202.
LEMMA RequestKnowsStep ==
    ASSUME PlatformInv, [PlatformNext]_platformVars, NEW d \in Execution
    PROVE  RequestKnows(d)'
<1> USE DEF PlatformInv, HistoryInv, TypeInv, TypeOK, Api!TypeOK
<1>1. /\ RequestKnows(d)
      /\ status[d] # "ABSENT" => status'[d] # "ABSENT"
      /\ job[d] # "none" => job'[d] # "none"
  BY RowsAndJobsStay
<1>2. CASE WorkerStep
  BY <1>1, <1>2, WorkersKeepJobs DEF WorkerStep, apiVars, RequestKnows
<1>3. ASSUME NEW e \in Execution, Arrive(e) PROVE RequestKnows(d)'
  BY <1>1, <1>3
  DEF Arrive, Admission!Arrive, vars, storeVars, queueVars, RequestKnows
<1>4. ASSUME NEW e \in Execution, AssertCanRun(e) PROVE RequestKnows(d)'
  BY <1>1, <1>4
  DEF AssertCanRun, Admission!FindSession, Admission!CheckInFlight,
      Admission!CheckRate, Admission!GoTo, Admission!AnswerWith, vars, storeVars,
      queueVars, RequestKnows
<1>5. ASSUME NEW e \in Execution, Submit(e), Admission!CreateRow(e)
      PROVE  RequestKnows(d)'
  <2>1. /\ UNCHANGED <<job, answer>> /\ publishing' = publishing \cup {e}
        /\ apiPc' = [apiPc EXCEPT ![e] = "add"] /\ status'[e] = "QUEUED"
    BY <1>5 DEF Submit, CreateQueued, Admission!CreateRow, Admission!GoTo,
                queueVars, StoreTypeOK
  <2> QED
    BY <1>1, <2>1 DEF RequestKnows
<1>6. ASSUME NEW e \in Execution, Publish(e) \/ PublishLost(e),
             (Admission!AddJob(e) /\ Publish(e)) \/ Admission!CallFails(e)
      PROVE  RequestKnows(d)'
  <2>1. /\ status' = status /\ e \in publishing /\ publishing' = publishing \ {e}
        /\ job' = job \/ (job' = [job EXCEPT ![e] = "wait"])
    BY <1>6 DEF Publish, PublishLost, AddJob, storeVars, queueVars
  <2>2. /\ apiPc' = [apiPc EXCEPT ![e] = "done"]
        /\ \/ answer' = [answer EXCEPT ![e] = "500"]
           \/ answer' = [answer EXCEPT ![e] = "202"] /\ job'[e] # "none"
    BY <1>6 DEF Admission!AddJob, Admission!CallFails, Admission!AnswerWith,
                Publish, AddJob, QueueTypeOK
  <2> QED
    BY <1>1, <2>1, <2>2 DEF RequestKnows, QueueTypeOK
<1>7. ASSUME NEW e \in Execution, apiPc[e] # "add", UNCHANGED vars,
             Admission!CallFails(e)
      PROVE  RequestKnows(d)'
  BY <1>1, <1>7
  DEF Admission!CallFails, Admission!AnswerWith, vars, storeVars, queueVars,
      RequestKnows
<1>8. ASSUME NEW e \in Execution, EnqueueExecution(e) PROVE RequestKnows(d)'
  BY <1>5, <1>6, <1>8 DEF EnqueueExecution
<1>9. ASSUME NEW e \in Execution, ApiFails(e) PROVE RequestKnows(d)'
  BY <1>6, <1>7, <1>9 DEF ApiFails
<1>10. ASSUME NEW e \in Execution, Poll(e) PROVE RequestKnows(d)'
  BY <1>1, <1>10 DEF Poll, vars, storeVars, queueVars, apiVars, RequestKnows
<1>11. CASE Tick
  BY <1>1, <1>11 DEF Tick, Admission!Tick, vars, storeVars, queueVars, RequestKnows
<1>12. CASE UNCHANGED platformVars
  BY <1>1, <1>12 DEF platformVars, vars, storeVars, queueVars, apiVars, RequestKnows
<1> QED
  BY <1>2, <1>3, <1>4, <1>8, <1>9, <1>10, <1>11, <1>12 DEF PlatformNext

\* Every step of the platform keeps PlatformInv.
LEMMA PlatformInvStep ==
    ASSUME PlatformInv, [PlatformNext]_platformVars
    PROVE  PlatformInv'
<1> USE DEF PlatformInv
<1>1. HistoryInv'
  BY PlatformStepIsStep, HistoryInvStep
<1>2. Api!TypeOK' /\ Api!RequestInv'
  BY AdmissionStep, AdmissionConstants, Api!RequestInvStep
<1>3. (seen \in [Execution -> Payload \cup {NoAnswer}])'
  <2>1. ASSUME NEW e \in Execution, Poll(e)
        PROVE  (seen \in [Execution -> Payload \cup {NoAnswer}])'
    <3>1. [status |-> status[e], errorType |-> errorType[e]] \in Payload
      BY <2>1 DEF Poll, HistoryInv, TypeInv, TypeOK, StoreTypeOK, Payload
    <3> QED
      BY <2>1, <3>1 DEF Poll
  <2>2. \/ \E e \in Execution : Poll(e)
        \/ UNCHANGED seen
    BY DEF PlatformNext, Arrive, AssertCanRun, EnqueueExecution, ApiFails,
           WorkerStep, Tick, platformVars
  <2> QED
    BY <2>1, <2>2
<1>4. SlotsHaveJobs'
  BY PlatformStepIsStep, SlotsHaveJobsStep, RowsAndJobsStay DEF HistoryInv
<1>5. \A e \in Execution : RequestKnows(e)'
  BY RequestKnowsStep
<1> QED
  BY <1>1, <1>2, <1>3, <1>4, <1>5

\* PlatformInv holds in every reachable state of the platform.
LEMMA PlatformInvariant == PlatformSpec => []PlatformInv
BY PlatformInvInit, PlatformInvStep, PTL DEF PlatformSpec

-----------------------------------------------------------------------------
(* The theorems.                                                           *)

\* Every behaviour of the platform is one of its workers and their queue, so
\* what is proved of ExecutionWorker holds of the platform.
THEOREM PlatformRunsWorkers == PlatformSpec => Spec
BY PlatformStepIsStep, PTL DEF PlatformSpec, PlatformInit, Spec

\* The components of the platform agree on what they share, for every fault:
\* no job without a row, no 202 without a job, and a queue.add is under way
\* exactly for the requests that are at it.
THEOREM ComponentsAgree == PlatformSpec => []PlatformTypeOK
<1>1. PlatformInv => PlatformTypeOK
  BY SameState
  DEF PlatformInv, HistoryInv, TypeInv, TypeOK, RequestKnows, PlatformTypeOK
<1> QED
  BY <1>1, PlatformInvariant, PTL

\* The platform implements RunAdmission: workers do to the rows what the
\* admission checks assume, whatever fails and whoever loses a lock.
THEOREM RefinesAdmission == PlatformSpec => ImplementsAdmission
<1>1. PlatformInit => Admission!Init
  <2> SUFFICES ASSUME PlatformInit PROVE Admission!Init
    OBVIOUS
  <2>1. /\ Row = [e \in Execution |-> "ABSENT"]
        /\ Queued = {}
    BY DEF PlatformInit, Init, StoreInit, QueueInit, Row, Queued, TerminalStatus
  <2> QED
    BY <2>1 DEF PlatformInit, Admission!Init
<1>2. ASSUME PlatformInv, [PlatformNext]_platformVars
      PROVE  [Admission!Next]_(Admission!vars)
  <2>1. Api!Next \/ UNCHANGED Api!vars
    BY <1>2, AdmissionStep
  <2>2. CASE Api!Next
    BY <2>2, SameStep
  <2>3. CASE UNCHANGED Api!vars
    BY <2>3 DEF Api!vars, Admission!vars
  <2> QED
    BY <2>1, <2>2, <2>3
<1> QED
  BY <1>1, <1>2, PlatformInvariant, PTL
  DEF PlatformSpec, ImplementsAdmission, Admission!Spec

\* The bounds proved of RunAdmission are available for the platform.
LEMMA SameSpec == Admission!Spec => Api!Spec
<1>1. Admission!Init => Api!Init
  BY SameState
<1>2. [Admission!Next]_(Admission!vars) => [Api!Next]_(Api!vars)
  BY SameStep DEF Admission!vars, Api!vars
<1> QED
  BY <1>1, <1>2, PTL DEF Admission!Spec, Api!Spec

\* While workers crash and finalize, a session of the platform never has more
\* executions in flight than it had run requests in progress at once.
THEOREM PlatformInFlightBounded == PlatformSpec => []Admission!InFlightBounded
<1>1. Api!Spec => []Api!InFlightBounded
  BY AdmissionConstants, Api!InFlightIsBounded
<1>2. Api!InFlightBounded => Admission!InFlightBounded
  BY DEF Api!InFlightBounded, Admission!InFlightBounded, Api!Waiting,
         Admission!Waiting, Api!Cardinality, Admission!Cardinality
<1> QED
  BY <1>1, <1>2, SameSpec, RefinesAdmission, PTL DEF ImplementsAdmission

\* Likewise for the runs a session starts in any window.
THEOREM PlatformRateBounded == PlatformSpec => []Admission!RateBounded
<1>1. Api!Spec => []Api!RateBounded
  BY AdmissionConstants, Api!RateIsBounded
<1>2. Api!RateBounded => Admission!RateBounded
  BY DEF Api!RateBounded, Admission!RateBounded, Api!Recent,
         Admission!Recent, Api!Cardinality, Admission!Cardinality
<1> QED
  BY <1>1, <1>2, SameSpec, RefinesAdmission, PTL DEF ImplementsAdmission

\* In the deployments that Recoverable describes, whoever was answered 202 has
\* a final row or a job that will still be handed out: neither requests that
\* overlap nor calls of the API that fail disturb the recovery by the queue.
THEOREM AcceptedRunsAreKept ==
    ASSUME Recoverable
    PROVE  PlatformSpec => []AcceptedRunIsKept
<1>1. PlatformInv /\ NothingForgotten => AcceptedRunIsKept
  BY DEF PlatformInv, RequestKnows, NothingForgotten, AcceptedRunIsKept
<1>2. Spec => []NothingForgotten
  BY NothingIsForgotten
<1> QED
  BY <1>1, <1>2, PlatformRunsWorkers, PlatformInvariant, PTL

\* A row that is final is left as it is while live slots keep their locks.
LEMMA FinalRowStays ==
    ASSUME OwnerInv, [Next]_vars, NEW e \in Execution,
           status[e] \in TerminalStatus
    PROVE  status'[e] = status[e] /\ errorType'[e] = errorType[e]
<1> USE DEF OwnerInv, TypeInv, TypeOK, StoreTypeOK, SlotTypeOK, TerminalStatus
<1>1. CASE UNCHANGED <<status, errorType, trail>>
  BY <1>1
<1>2. ASSUME NEW d \in Execution, CreateQueued(d)
      PROVE  status'[e] = status[e] /\ errorType'[e] = errorType[e]
  BY <1>2 DEF CreateQueued
<1>3. ASSUME NEW s \in Slot, pc[s] = "mark" /\ MarkRunning(cur[s])
      PROVE  status'[e] = status[e] /\ errorType'[e] = errorType[e]
  BY <1>3 DEF MarkRunning
<1>4. ASSUME NEW s \in Slot, pc[s] = "commit" /\ Finalize(cur[s], pending[s])
      PROVE  status'[e] = status[e] /\ errorType'[e] = errorType[e]
  <2>1. cur[s] # e
    BY <1>4 DEF Owns
  <2> QED
    BY <1>4, <2>1 DEF Finalize
<1> QED
  BY <1>1, <1>2, <1>3, <1>4, TableSteps

\* While live slots keep their locks, the final answer a client got is the
\* one it gets ever after.
THEOREM FinalAnswersStand ==
    ASSUME FaultBound["lockLoss"] = 0
    PROVE  PlatformSpec => FinalAnswerStands
<1> DEFINE Answered == \A e \in Execution : seen[e] # NoAnswer =>
              /\ status[e] \in TerminalStatus
              /\ seen[e] = [status |-> status[e], errorType |-> errorType[e]]
           Inv == PlatformInv /\ OwnerInv /\ Answered
<1>1. PlatformInit => Inv
  BY PlatformInvInit, OwnerInvInit DEF PlatformInit
<1>2. ASSUME Inv, [PlatformNext]_platformVars
      PROVE  /\ Inv'
             /\ [\A e \in Execution : seen[e] # NoAnswer => seen'[e] = seen[e]]_seen
  <2>1. PlatformInv' /\ [Next]_vars
    BY <1>2, PlatformInvStep, PlatformStepIsStep
  <2>2. OwnerInv'
    BY <1>2, <2>1, OwnerInvStep
  <2>3. ASSUME NEW e \in Execution, status[e] \in TerminalStatus
        PROVE  status'[e] = status[e] /\ errorType'[e] = errorType[e]
    BY <1>2, <2>1, <2>3, FinalRowStays
  <2>4. CASE UNCHANGED seen
    BY <1>2, <2>1, <2>2, <2>3, <2>4
  <2>5. ASSUME NEW d \in Execution, Poll(d)
        PROVE  /\ Answered'
               /\ \A e \in Execution : seen[e] # NoAnswer => seen'[e] = seen[e]
    <3>1. /\ status[d] \in TerminalStatus
          /\ seen' = [seen EXCEPT ![d] =
                         [status |-> status[d], errorType |-> errorType[d]]]
          /\ UNCHANGED <<status, errorType>>
      BY <2>5 DEF Poll, vars, storeVars
    <3> QED
      BY <1>2, <3>1 DEF PlatformInv
  <2>6. \/ \E e \in Execution : Poll(e)
        \/ UNCHANGED seen
    BY <1>2 DEF PlatformNext, Arrive, AssertCanRun, EnqueueExecution, ApiFails,
                WorkerStep, Tick, platformVars
  <2> QED
    BY <2>1, <2>2, <2>4, <2>5, <2>6
<1> QED
  BY <1>1, <1>2, PTL DEF PlatformSpec, FinalAnswerStands
=============================================================================
