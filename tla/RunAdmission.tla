---------------------------- MODULE RunAdmission ----------------------------
(***************************************************************************)
(* POST /code-sessions/:sessionId/run: CodeSessionsController.runCode,     *)
(* which asks CodeSessionsService.assertCanRun whether the session may run *)
(* and then has ExecutionsService.enqueueExecution create the row and the  *)
(* job.  Every await is a step of its own, so requests for one session     *)
(* interleave between the checks and the row they guard.                   *)
(*                                                                         *)
(* A request creates at most one row, which is named by the request.  Time *)
(* is kept as the age of each row, in units small enough to tell the rate  *)
(* window apart, up to the age from which no query can find the row.       *)
(***************************************************************************)
EXTENDS Naturals, FiniteSets

CONSTANTS
    Session,            \* code sessions
    Known,              \* the ones that exist; sessions are never deleted
    Request,            \* run requests, and the rows they create
    RunRateLimitCount,  \* AppConfigService.runRateLimitCount
    RunRateLimitWindow, \* AppConfigService.runRateLimitWindowMs
    MaxConcurrent,      \* run requests of one session in progress at once
    MaxDelay,           \* time a request waits for its count query
    FailureBound        \* database and Redis calls that fail

\* Assumed of the constants by the modules that give them values.
AdmissionAssumption ==
    /\ Known \subseteq Session
    /\ IsFiniteSet(Request)
    /\ RunRateLimitCount \in Nat \ {0}
    /\ RunRateLimitWindow \in Nat
    /\ MaxConcurrent \in Nat \ {0}
    /\ MaxDelay \in Nat
    /\ FailureBound \in Nat

VARIABLES
    pc,                 \* the await each request is at
    session,            \* the session each request names
    since,              \* how long ago the window of a rate check starts
    answer,             \* HTTP status each request was answered with
    row,                \* status of the row each request created
    age,                \* time since the row's queuedAt
    queued,             \* rows whose job is in the queue
    failures            \* calls that failed so far

vars == <<pc, session, since, answer, row, age, queued, failures>>

Label == {"new", "find", "inFlight", "rate", "create", "add", "done"}
Answer == {"none", "202", "404", "429", "500"}
RowStatus == {"ABSENT", "QUEUED", "RUNNING", "FINISHED"}

\* Older than any window that is still being asked about.
Old == RunRateLimitWindow + MaxDelay + 1

NoSession == "no session"

TypeOK ==
    /\ pc \in [Request -> Label]
    /\ session \in [Request -> Session \cup {NoSession}]
    /\ since \in [Request -> 0..Old]
    /\ answer \in [Request -> Answer]
    /\ row \in [Request -> RowStatus]
    /\ age \in [Request -> 0..Old]
    /\ queued \subseteq Request
    /\ failures \in 0..FailureBound

Init ==
    /\ pc = [r \in Request |-> "new"]
    /\ session = [r \in Request |-> NoSession]
    /\ since = [r \in Request |-> 0]
    /\ answer = [r \in Request |-> "none"]
    /\ row = [r \in Request |-> "ABSENT"]
    /\ age = [r \in Request |-> 0]
    /\ queued = {}
    /\ failures = 0

\* The rows of a session that satisfy the status filter of a query.
Rows(s, filter) == {r \in Request : session[r] = s /\ row[r] \in filter}

\* Mutant of InFlight: a running execution does not count.
InFlightQueuedOnly(s) == Rows(s, {"QUEUED"})

\* Mutant of InFlight: a finished execution counts.
InFlightForever(s) == Rows(s, {"QUEUED", "RUNNING", "FINISHED"})

\* The rows hasInFlightExecution looks for.
InFlight(s) == Rows(s, {"QUEUED", "RUNNING"})

\* The rows countQueuedSince counts, for a window that starts so long ago.
QueuedSince(s, long) ==
    {r \in Rows(s, RowStatus \ {"ABSENT"}) : age[r] <= long}

InProgress(s) ==
    {r \in Request : session[r] = s /\ pc[r] \notin {"new", "done"}}

\* Mutant of RateAllows: the limit itself is let through.
RateAllowsOneMore(count) == count <= RunRateLimitCount

\* The test of assertCanRun that does not throw.
RateAllows(count) == count < RunRateLimitCount

-----------------------------------------------------------------------------
(* A request.                                                              *)

Arrive(r, s) ==
    /\ pc[r] = "new"
    /\ Cardinality(InProgress(s)) < MaxConcurrent
    /\ pc' = [pc EXCEPT ![r] = "find"]
    /\ session' = [session EXCEPT ![r] = s]
    /\ UNCHANGED <<since, answer, row, age, queued, failures>>

GoTo(r, label) ==
    /\ pc' = [pc EXCEPT ![r] = label]
    /\ UNCHANGED answer

AnswerWith(r, code) ==
    /\ pc' = [pc EXCEPT ![r] = "done"]
    /\ answer' = [answer EXCEPT ![r] = code]

\* assertCanRun, findById.  The source was checked against the same limit
\* when it was stored, so assertSourceLength does not reject it.
FindSession(r) ==
    /\ pc[r] = "find"
    /\ IF session[r] \in Known THEN GoTo(r, "inFlight") ELSE AnswerWith(r, "404")
    /\ UNCHANGED <<session, since, row, age, queued, failures>>

\* assertCanRun, hasInFlightExecution; then "since" is computed.
CheckInFlight(r) ==
    /\ pc[r] = "inFlight"
    /\ IF InFlight(session[r]) = {}
       THEN /\ GoTo(r, "rate")
            /\ since' = [since EXCEPT ![r] = RunRateLimitWindow]
       ELSE /\ AnswerWith(r, "429")
            /\ UNCHANGED since
    /\ UNCHANGED <<session, row, age, queued, failures>>

\* assertCanRun, countQueuedSince.
CheckRate(r) ==
    /\ pc[r] = "rate"
    /\ IF RateAllows(Cardinality(QueuedSince(session[r], since[r])))
       THEN GoTo(r, "create")
       ELSE AnswerWith(r, "429")
    /\ since' = [since EXCEPT ![r] = 0]
    /\ UNCHANGED <<session, row, age, queued, failures>>

\* Mutant of NewRow: queuedAt is left at the epoch.
NewRowUndated(r) ==
    /\ row' = [row EXCEPT ![r] = "QUEUED"]
    /\ age' = [age EXCEPT ![r] = Old + 1]

\* createQueued.
NewRow(r) ==
    /\ row' = [row EXCEPT ![r] = "QUEUED"]
    /\ age' = [age EXCEPT ![r] = 0]

\* enqueueExecution: the session is found again and createQueued commits.
CreateRow(r) ==
    /\ pc[r] = "create"
    /\ NewRow(r)
    /\ GoTo(r, "add")
    /\ UNCHANGED <<session, since, queued, failures>>

\* enqueueExecution, queue.add; the controller answers.
AddJob(r) ==
    /\ pc[r] = "add"
    /\ queued' = queued \cup {r}
    /\ AnswerWith(r, "202")
    /\ UNCHANGED <<session, since, row, age, failures>>

Handle(r) ==
    FindSession(r) \/ CheckInFlight(r) \/ CheckRate(r) \/ CreateRow(r) \/ AddJob(r)

\* A call rejects, or the API process dies: what is committed stays.  A
\* createQueued may commit, and a queue.add may reach Redis, without the API
\* learning of it.
CallFails(r) ==
    /\ pc[r] \notin {"new", "done"}
    /\ failures < FailureBound
    /\ failures' = failures + 1
    /\ AnswerWith(r, "500")
    /\ since' = [since EXCEPT ![r] = 0]
    /\ \/ UNCHANGED <<row, age, queued>>
       \/ pc[r] = "create" /\ NewRow(r) /\ UNCHANGED queued
       \/ pc[r] = "add" /\ queued' = queued \cup {r} /\ UNCHANGED <<row, age>>
    /\ UNCHANGED session

-----------------------------------------------------------------------------
(* Around it.                                                              *)

\* A worker claims the execution of a job, and finishes it.
StartRun(r) ==
    /\ r \in queued
    /\ row[r] = "QUEUED"
    /\ row' = [row EXCEPT ![r] = "RUNNING"]
    /\ UNCHANGED <<pc, session, since, answer, age, queued, failures>>

FinishRun(r) ==
    /\ row[r] = "RUNNING"
    /\ row' = [row EXCEPT ![r] = "FINISHED"]
    /\ UNCHANGED <<pc, session, since, answer, age, queued, failures>>

\* Time passes; count queries are answered within MaxDelay.
Tick ==
    /\ \A r \in Request :
          pc[r] = "rate" => since[r] < RunRateLimitWindow + MaxDelay
    /\ since' = [r \in Request |->
                    IF pc[r] = "rate" THEN since[r] + 1 ELSE since[r]]
    /\ age' = [r \in Request |->
                  IF row[r] # "ABSENT" /\ age[r] < Old THEN age[r] + 1 ELSE age[r]]
    /\ UNCHANGED <<pc, session, answer, row, queued, failures>>

Next ==
    \/ \E r \in Request :
          \/ \E s \in Session : Arrive(r, s)
          \/ Handle(r) \/ CallFails(r) \/ StartRun(r) \/ FinishRun(r)
    \/ Tick

Spec == Init /\ [][Next]_vars

\* The API and the workers make progress, and time passes.
Fairness ==
    /\ \A r \in Request :
          WF_vars(Handle(r)) /\ WF_vars(StartRun(r)) /\ WF_vars(FinishRun(r))
    /\ WF_vars(Tick)

FairSpec == Spec /\ Fairness

-----------------------------------------------------------------------------
(* Properties.                                                             *)

Waiting(s) == {r \in Request : session[r] = s /\ row[r] \in {"QUEUED", "RUNNING"}}

Recent(s) ==
    {r \in Request : /\ session[r] = s
                     /\ row[r] # "ABSENT"
                     /\ age[r] <= RunRateLimitWindow}

\* What the checks guarantee when requests for a session overlap: no more
\* executions are in flight than requests were ever handled at once.
InFlightBounded ==
    \A s \in Session : Cardinality(Waiting(s)) <= MaxConcurrent

\* Likewise, no window holds more runs than the limit and the overlap allow.
RateBounded ==
    \A s \in Session :
        Cardinality(Recent(s)) <= RunRateLimitCount + MaxConcurrent - 1

\* A session that cannot run now can run again: as long as every call succeeds
\* nothing it did in the past blocks it for ever.
SessionReopens ==
    [](failures = 0) =>
      \A s \in Known :
        []<>(/\ InFlight(s) = {}
             /\ RateAllows(Cardinality(QueuedSince(s, RunRateLimitWindow))))

\* At most one execution of a session is queued or running.
OneAtATime == \A s \in Session : Cardinality(Waiting(s)) <= 1
=============================================================================
