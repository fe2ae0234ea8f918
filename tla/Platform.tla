------------------------------ MODULE Platform ------------------------------
(***************************************************************************)
(* The path of a run through the whole platform, as a client sees it: its  *)
(* requests are admitted and enqueued (RunAdmission), workers run them     *)
(* (ExecutionWorker), and the client polls the execution it was given      *)
(* until the answer is final.                                              *)
(*                                                                         *)
(* The components share state: RunAdmission's rows and queued jobs are the *)
(* tables and the queue of ExecutionWorker, and a request names the        *)
(* execution it is going to create.  The steps in which the two meet are   *)
(* joint steps of both, and what RunAdmission assumes of the workers is    *)
(* checked instead of assumed: see ImplementsAdmission.                    *)
(***************************************************************************)
EXTENDS ExecutionWorker, FiniteSets

CONSTANTS
    Session, Known, RunRateLimitCount, RunRateLimitWindow, MaxConcurrent,
    MaxDelay, FailureBound

VARIABLES
    apiPc, session, since, answer, age, failures,   \* those of RunAdmission
    seen                \* the final answer the client of an execution got last

apiVars == <<apiPc, session, since, answer, age, failures>>
platformVars == <<vars, apiVars, seen>>

\* RunAdmission's view of the tables and of the queue.
Row == [e \in Execution |->
           IF status[e] \in TerminalStatus THEN "FINISHED" ELSE status[e]]
Queued == {e \in Execution : job[e] # "none"}

Admission == INSTANCE RunAdmission WITH
    Request <- Execution, pc <- apiPc, row <- Row, queued <- Queued

\* What RunAdmission assumes of its constants.
ASSUME PlatformAssumption == Admission!AdmissionAssumption

NoAnswer == NoPayload

PlatformInit ==
    /\ Init
    /\ apiPc = [e \in Execution |-> "new"]
    /\ session = [e \in Execution |-> Admission!NoSession]
    /\ since = [e \in Execution |-> 0]
    /\ answer = [e \in Execution |-> "none"]
    /\ age = [e \in Execution |-> 0]
    /\ failures = 0
    /\ seen = [e \in Execution |-> NoAnswer]

-----------------------------------------------------------------------------
(* The API.                                                                *)

Arrive(e) ==
    /\ UNCHANGED vars
    /\ \E s \in Session : Admission!Arrive(e, s)
    /\ UNCHANGED seen

AssertCanRun(e) ==
    /\ UNCHANGED vars
    /\ Admission!FindSession(e) \/ Admission!CheckInFlight(e) \/ Admission!CheckRate(e)
    /\ UNCHANGED seen

\* Mutant of EnqueueExecution: the job first, the row second.
EnqueueJobFirst(e) ==
    /\ \/ /\ apiPc[e] = "create"
          /\ AddJob(e)
          /\ UNCHANGED <<storeVars, slotVars, publishing, runs, closing, faults>>
          /\ Admission!GoTo(e, "add")
       \/ /\ apiPc[e] = "add"
          /\ CreateQueued(e)
          /\ UNCHANGED <<queueVars, slotVars, publishing, runs, closing, faults>>
          /\ Admission!AnswerWith(e, "202")
    /\ UNCHANGED <<session, since, age, failures, seen>>

\* Mutant of EnqueueExecution: queue.add is not awaited.
EnqueueUnawaited(e) ==
    /\ \/ /\ Submit(e)
          /\ apiPc[e] = "create"
          /\ Admission!NewRow(e)
          /\ Admission!AnswerWith(e, "202")
       \/ Publish(e) /\ UNCHANGED <<apiPc, answer, age>>
    /\ UNCHANGED <<session, since, failures, seen>>

\* enqueueExecution: the row, then the job.
EnqueueExecution(e) ==
    /\ \/ Submit(e) /\ Admission!CreateRow(e)
       \/ Publish(e) /\ Admission!AddJob(e)
    /\ UNCHANGED seen

\* A call of the API fails.  A createQueued that commits unheard leaves what
\* a lost queue.add leaves: a row without a job.
ApiFails(e) ==
    /\ \/ apiPc[e] # "add" /\ UNCHANGED vars
       \/ PublishLost(e)
       \/ Publish(e)
    /\ Admission!CallFails(e)
    /\ UNCHANGED seen

\* Mutant of Poll: a running execution is taken for finished.
PollEarly(e) ==
    /\ answer[e] = "202"
    /\ status[e] # "QUEUED"
    /\ seen' = [seen EXCEPT ![e] = [status |-> status[e], errorType |-> errorType[e]]]
    /\ UNCHANGED <<vars, apiVars>>

\* getExecution for the client that was answered 202, when it finds the
\* execution finished; the client makes nothing of other answers.
Poll(e) ==
    /\ answer[e] = "202"
    /\ status[e] \in TerminalStatus
    /\ seen' = [seen EXCEPT ![e] = [status |-> status[e], errorType |-> errorType[e]]]
    /\ UNCHANGED <<vars, apiVars>>

-----------------------------------------------------------------------------
(* The workers, the queue and time.                                        *)

WorkerStep ==
    /\ \/ \E s \in Slot : SlotStep(s)
       \/ \E e \in Execution :
             StalledAfterCrash(e) \/ LockLost(e) \/ Retry(e) \/ Age(e)
       \/ \E p \in Process : ProcessStep(p)
    /\ UNCHANGED <<apiVars, seen>>

Tick ==
    /\ UNCHANGED vars
    /\ Admission!Tick
    /\ UNCHANGED seen

PlatformNext ==
    \/ \E e \in Execution :
          \/ Arrive(e) \/ AssertCanRun(e) \/ EnqueueExecution(e)
          \/ ApiFails(e) \/ Poll(e)
    \/ WorkerStep
    \/ Tick

PlatformSpec == PlatformInit /\ [][PlatformNext]_platformVars

\* As for the worker; the API answers, and clients poll.
PlatformFairSpec ==
    /\ PlatformSpec
    /\ WorkerFairness
    /\ \A e \in Execution :
          WF_platformVars(AssertCanRun(e) \/ EnqueueExecution(e) \/ Poll(e))

-----------------------------------------------------------------------------
(* Properties.                                                             *)

\* The components agree on the state they share: a job never comes before its
\* row, and whoever was answered 202 has both.
PlatformTypeOK ==
    /\ TypeOK
    /\ Admission!TypeOK
    /\ seen \in [Execution -> Payload \cup {NoAnswer}]
    /\ publishing = {e \in Execution : apiPc[e] = "add"}
    /\ \A e \in Execution :
          /\ job[e] # "none" => status[e] # "ABSENT"
          /\ answer[e] = "202" => job[e] # "none"

\* Between the worker, its faults and the queue, requests are admitted as
\* RunAdmission says: what it assumes of rows and jobs is what workers do.
ImplementsAdmission == Admission!Spec

\* The final answer a client got is the one it gets ever after.
FinalAnswerStands ==
    [][\A e \in Execution : seen[e] # NoAnswer => seen'[e] = seen[e]]_seen

\* What was answered 202 is never dropped: until its row is final its job is
\* in the queue, while the workers that have it crash and others take it over.
AcceptedRunIsKept ==
    \A e \in Execution :
        answer[e] = "202" => status[e] \in TerminalStatus \/ job[e] \in LiveJob

\* Whoever was answered 202 gets a final answer by polling, although workers
\* crash and other requests fail and leave executions that no worker gets.
AcceptedRunIsAnswered ==
    \A e \in Execution : answer[e] = "202" ~> seen[e] # NoAnswer
=============================================================================
