# Live code platform: TLA+ models, checks and proofs

The repository is a two-process NestJS backend. The API (`apps/code-platform`)
keeps code sessions, admits run requests and answers polls; the worker
(`apps/worker`) takes jobs from a BullMQ queue, runs the code and writes the
result. PostgreSQL (through Prisma) holds all durable state, Redis holds the
queue. This directory models what those parts do to shared state, checks it with
TLC on small instances and proves with TLAPS, for all instances, every safety
property that a passing run checks.

## 1. Inventory

| Component | State | Operations | Talks to | What is hard about it |
|---|---|---|---|---|
| Execution tables (`schema.prisma`, both `prisma-execution.repository.ts`) | one row per execution: status, errorType, attemptCount, startedAt; one event row per transition | createQueued, markRunning, incrementAttempt, finalize, findById, hasInFlightExecution, countQueuedSince | called by API and worker | conditional updates against check-then-update; transactions at READ COMMITTED; writes that commit without a reply |
| Run queue (`run-queue.service.ts`, `run-queue.worker.ts`, BullMQ) | job state, attempts, lock, stalled count | add, take, complete, fail and back off, recover stalled jobs, close | API adds, worker slots take | at-least-once delivery, expired locks, retries, shutdown |
| Execution processor (`execution-processor.service.ts`) | per slot: the await it is at, the job, what it will finalize with | processExecution, safeFinalize, mapFinalizePayload | tables, queue, executors | every await is an interleaving point; crash, failure or redelivery at each |
| Execution submission (`executions.service.ts`) | none of its own | row, then job | tables, queue | two systems, no transaction across them |
| Run admission (`code-sessions.controller.ts` runCode, `assertCanRun`) | none of its own | three checks, then submission | tables | check-then-act under overlapping requests, a time window |
| Code sessions (`code-sessions.service.ts`, both session repositories) | language, source, version, updatedAt per session | create, autosave (update, then read), read for a run | worker reads the source | overlapping saves, retried saves, saves between request and run |
| Python executor (`python.executor.ts`) | temp directory, child, timers, flags, output | execute | processor | callbacks in any order, kill racing exit, streams outliving the child, cleanup |
| JavaScript executor (`javascript.executor.ts`) | isolate, flags, output | execute | processor | an isolate disposed under its own script, three ways a limit ends a run |
| Polling (`executions.controller.ts`) | none | read one row | tables | what a poller sees over time |
| State machine (`execution-state-machine.ts`) | none | canTransition, assertTransition | nobody: the class is exported but unused | whether the worker keeps to it |
| Executor registry (`code-executor.registry.ts`, `runner.module.ts`) | a map filled at start-up | register, get | processor | two executors behind one interface that end a run in different ways |
| Configuration, validation, health, logging, wiring | none that changes | | | |

What makes each part correct:

- *Lifecycle*: QUEUED, RUNNING, then one final status, by declared transitions
  only; one claim; a final status is final; the audit trail matches the row;
  attemptCount counts every run; nothing finished runs again; everything
  submitted finishes.
- *Admission*: one execution per session in flight, no more runs per window than
  the limit, and a session that is turned away can run again.
- *Sessions*: the row is the last committed save, whole; the version counts
  saves; the time a client is answered is that of its own save or of a later one; a
  run gets a source no older than the one it was requested for.
- *Executors*: the result says why the run ended, nothing written is lost,
  output is bounded, timers and directories do not outlive the run, and a call
  of `execute` settles once, whichever language it is for.
- *Platform*: whoever was answered 202 gets a final answer, and it stands.

The hazards behind these are listed, each at its line, in `PROJECT.json`.

## 2. Modules

```
Executions                      identifiers and statuses
  ExecutionLifecycle            abstract: the declared state machine
  ExecutionStore                the tables and the repository methods
  RunQueue                      the queue as the code uses it (external)
    ExecutionWorker             ExecutionStore + RunQueue + API + slots + faults
      MCExecutionWorker         instances
      ExecutionWorkerProofs     theorems that need no assumption on faults but locks
        ExecutionRecoveryProofs theorems about the recovery by the queue
RunAdmission                    run requests against the tables
  MCRunAdmission, RunAdmissionProofs
Platform                        EXTENDS ExecutionWorker, INSTANCE RunAdmission,
                                and a client that polls
  MCPlatform
  PlatformProofs                EXTENDS ExecutionRecoveryProofs, INSTANCE RunAdmissionProofs
CodeSessions                    the session rows, saves and runs
  MCCodeSessions, CodeSessionsProofs
CodeExecutor                    abstract: what execute promises
  PythonExecutor                one run in a child process
    PythonExecutorProofs
  JavaScriptExecutor            one run in an isolate
    MCJavaScriptExecutor, JavaScriptExecutorProofs
  CodeExecutorRegistry          EXTENDS the first, INSTANCE the second
    MCCodeExecutorRegistry
    CodeExecutorRegistryProofs  EXTENDS the first's proofs, INSTANCE the second's
```

**ExecutionWorker** is the core. `pc[s]` names the call slot `s` is about to
make, so the code between two awaits of `processExecution` is one step:

| Code | Action |
|---|---|
| first `findById` and what follows from it | `FindExecution` (`AfterFind`) |
| `markRunning` hits, or misses | `ClaimExecution` |
| `findById` after a lost claim | `RefindExecution` |
| `incrementAttempt` of a stale execution | `TakeOver` |
| session lookup, call of `execute` | `LoadSession` |
| `execute` resolves or rejects, `mapFinalizePayload` | `ExecuteEnds` |
| `finalize`: read and test, then update by id and event | `CheckFinalize`, `CommitFinalize` |
| the handler's promise settles | `Settle` |
| `createQueued`, `queue.add` | `Submit`, `Publish`, `PublishLost` |

`finalize` is two steps because at PostgreSQL's default isolation level, which
nothing in the repository changes, its `findUnique` takes no lock. `markRunning`
and `createQueued` are one step: the first statement of `markRunning` is a
conditional update, which does lock the row. Faults are actions of their own:
`Crash`, `DbCallFails`, `FinalizeFails`, `CommitUnacked`, `LockLost`, `Shutdown`,
`Restart` and `Hang` (an `execute` that never settles, so that the slot is gone
until its process is), each but `Restart` spent from `FaultBound`. `stale[e]` stands for
`now - startedAt > workerStaleExecutionMs`; it becomes true some time after the
claim (`Age`) and stays true, because `incrementAttempt` does not renew
`startedAt`.

**RunAdmission** gives every await of `runCode` a step, except that the second
look for the session in `enqueueExecution`, which finds what the first found, is
part of `CreateRow`. A request creates at most one row, which is named by
the request; time is the age of each row, cut off where no query can see it any
more. `CallFails` covers a call that has no effect, one that has and is not
acknowledged, and the row without its job in between.

**Platform** is the path of a run as its client sees it. It extends
ExecutionWorker and instantiates RunAdmission on the same tables and queue: the
`row` of a request is the status of an execution, `queued` the executions that
have a job. `EnqueueExecution` is the joint step of both, the other actions of
one leave the variables of the other alone, and `Poll` is
`GET /executions/:executionId`, of which a client remembers final answers. So what RunAdmission
alone assumes of the workers (`StartRun`, `FinishRun`) is not assumed but checked
and proved, by `ImplementsAdmission == Admission!Spec`: a worker that put a row back
to QUEUED, say, would break it.

**CodeSessions** has the two statements of autosave as two steps. Version 0
stands for a row that does not exist yet. `stored` and `requested` are history:
the version a save made, the version a run request saw. The controller answers
`updated_at` and no version. Prisma fills `@updatedAt` in when it builds the
statement (`sentAt`, from the clock `now`) and the row has it once the update commits, so
that `updatedAt` need not grow with the version.

**PythonExecutor** is the event loop during `execute`: one action per await and
per callback (`OnTimeout`, `OnMonitor`, `OnStatus`, `OnData`, `OnClose`), and the
program and the kernel as environment. Output is counted in bytes and consists of
characters of `CharSize` bytes; `Decoded` is what `buffer.toString('utf8')` makes of
a chunk that begins or ends inside of one. `peaked` says whether the resident set has
been over the limit: a read answered after that may show it or not, since it may have
gone down. `elapsed` says whether maxRuntimeMs have passed (`TimePasses`), which may
happen at any moment of the run and comes before `OnTimeout`. So what the flags
report is compared with what happened and not with the flags themselves.

**JavaScriptExecutor** has one action per synchronous stretch of `execute` and
per console callback. `timedOut` and `outputLimitExceeded` are constants FALSE
because the code declares them and never assigns them. `stdout` is in UTF-16 code
units, which is what `stdout.length` counts; `bytes` is what they take as UTF-8.
`stderr` is in bytes, since no code counts its length. The limit a script may go over
(`Exceeded`) is the documented one, maxOutputBytes for each stream, and not the test
of `isolatedLog` (`TooLong`).

**CodeExecutor** is the contract the processor relies on: the promise of `execute`
settles once; `COMPLETED` is a program that ended well by itself and `RUNTIME_ERROR`
one that did not; a limit is reported only of a program that went over it. The
converse, that a program over a limit is never completed, is not promised by the
interface and not kept by both executors. `Enforced` names the limits for which it
is claimed: the output limit for Python (a program may end before its timeout fires
or its memory is read), the limits of time and memory for JavaScript (whose output is
not capped in bytes, and its stderr not at all). A result may also be lost, and the
promise rejected. That the promise does settle is `ExecuteSettles`.
**CodeExecutorRegistry** picks an executor by the session's language. Each executor
maps its variables to the contract (`Contract`, with `Exceeded`, `Succeeded`, `Reported`,
`Promise`); the one that is not called stays in its initial state.

## 3. Runs

Every run that must pass:

| Run | Instance | Shows |
|---|---|---|
| `exclusive_faults` | 2 processes, 2 slots, 2 executions; 1 crash, 1 failing or unacknowledged call, 1 lost publication, 1 restart | the worker implements `ExecutionLifecycle`, finalizes once, runs nothing finished again, counts every run |
| `zombies` | 3 slots in 1 process, 1 execution; 2 lost locks, 1 failing call, every kind of result | trail and row agree, one claim, final stays final, error type explains status |
| `recovery` | 2 processes, 2 slots, 2 executions, 1 crash, 1 restart, 1 hang, fair | no unfinished execution drops out of the queue, and all finish but the one that hangs |
| `admission` | 4 requests, 2 at a time, limit 2, at most 1 failing call, fair | in-flight and rate bounds under overlap; a session opens again when no call fails |
| `sessions` | 3 saves, 2 languages, 3 sources (1 too long), a run with a retry, failing at any statement | the last save wins whole, the version counts saves, the time answered is that of the save or a later one, only runnable sources, a run never gets an older source |
| `executors` | Python: limit 3, pipe 2, characters of 2 bytes, 4 bytes per stream, 2 overlapping reads, 1 failing file call. JavaScript: limit 3, calls of up to 2 units of up to 3 bytes, 6 units per stream. Fair | the contract for both languages (`ImplementsCodeExecutor`) and that `execute` settles (`ExecuteSettles`); nothing lost, verdict fits, output bounded, no timer, directory or isolate left |
| `platform` | 1 slot, 2 requests of one session, 1 crash, 1 failing API call, fair | `RunAdmission` is implemented on top of the workers; what was answered 202 is kept by the queue until its row is final, whoever was answered 202 is answered, and the answer stands |

Every run that must find a violation, each a finding in `PROJECT.json` with the
sentence it contradicts:

| Run | Violated | In short |
|---|---|---|
| `overwritten_result` | `FinalizedOnce` | two finalize transactions both pass their check |
| `double_run` | `FreshRunIsExclusive` | a slot that lost the claim runs the code anyway |
| `unsafe_retry` | `EveryRunTerminates` | a retry after a failed call finds RUNNING, not stale, and gives up |
| `two_in_flight` | `OneAtATime` | overlapping requests both find nothing in flight |
| `limits_unreported` | `LimitsReported` | a script that went over a limit, memory in the shortest trace, is reported as something else |

Some further observations follow from the modules without a run of their own:

- With `StallOutlivesStale = FALSE` `EveryRunTerminates` fails after one crash: a
  redelivery that comes before the row is stale completes the job
  (`execution-processor.service.ts:66`).
- The limit itself, instead of the bound of `RateBounded`, is exceeded by
  overlapping requests (`code-sessions.service.ts:81`).
- A second run request is refused while the first execution is in flight
  (`code-sessions.service.ts:73`), where `DESIGN.md:344` says two executions are
  created, and the limit refuses the run that reaches it (`:86`), where
  `DESIGN.md:101` says "above".
- Without `WF_vars(HelperEnds)` `execute` need not settle: close waits for streams that a
  process started by the killed child still holds (`python.executor.ts:105`).
- With a failing file call `workDir` may stay: `writeFile` is outside of the try
  statement that cleans up (`python.executor.ts:25`).
- The shortest trace of `limits_unreported` is of a script stopped at its
  memory limit. The same property also fails for one stopped at maxRuntimeMs
  (`RUNTIME_ERROR`), for one whose isolate `isolatedLog` disposed (rejected), and for one that is
  `COMPLETED` although it wrote more than maxOutputBytes: on stderr, which is not tested
  (`javascript.executor.ts:50`), or on stdout in no more than maxOutputBytes code units
  (`:45`). The repository's `README.md:650` says "stdout/stderr size is capped" and `:316`
  that the limit is one of bytes per stream.
- A Python run whose characters are split between data events may be stopped for
  its output although it wrote no more than the limit: the limit is tested against the
  replacement characters (`python.executor.ts:80`, `Decoded`). `Exceeded` therefore counts
  what was kept as well as what was written.
- A client may be answered an `updated_at` that is older than the time of its own
  save, and the `updatedAt` of a row may go back: two overlapping saves may commit
  in the other order than they were built in
  (`prisma-code-session.repository.ts:36`). `ReadBackNotOlder` therefore speaks of whose
  time is answered and in which order the saves committed, not of times.
- A Python program that goes over its time or memory just before it ends by itself
  may be completed (`python.executor.ts:51`, a reading every 100 ms), which is why
  `Enforced` has neither limit for Python.
- With a lost lock `FinalAnswerStands` is not to be had: `overwritten_result`
  is how a client's final answer changes.
- `AcceptedRunIsAnswered` depends on no database call of the worker failing, as
  `unsafe_retry` shows.

Every property of a passing run has a mutant in `PROJECT.json`: a change to the
model that a plausible bug would make, under which the same run finds the
property violated.

### Bounds

Two slots are enough for two handlers to meet at every await, three for a zombie,
its successor and a third taker; with `queueAttempts` = 3 and one or two faults
of a kind every retry path is taken, and two executions share slots. For one
execution with two lost locks the queue delivers up to three times at once, which
`MaxStalledCount = 2` allows (BullMQ's default of 1 allows one; two is the
harder case). In RunAdmission two overlapping requests with a limit of 2 reach
both bounds exactly, and a fourth request exceeds them if a check is off by one.
In PythonExecutor a pipe of two bytes lets a data event hand over a part of what
was written and so split a character of two bytes; four bytes per stream cross a
limit of three, with one stream or both, and one split character (two
replacements, six bytes) does so on its own. In JavaScriptExecutor six units of three
bytes make 18, so that both halves of `StdoutBounded` (15 bytes, 3 units and the
script over) can fail, and both streams can go over the limit. In CodeSessions three
saves are enough for one to be overtaken twice. In Platform one slot makes the second
execution wait for the first, and the crash come before, between or after them;
two slots are `recovery`, which has the same worker without the API. With a
window of length 0 the rate check sees only rows of the same instant; the rate
bounds are the subject of `admission`.

`CHECK_DEADLOCK FALSE` is set where the system really stops: when the last
execution is finished, every save is answered, or the run is over. RunAdmission
never stops, because time goes on.

Symmetry is used in `sessions`, over saves, and in `zombies`, over the slots of one
process, which the specifications do not tell apart; the properties of both runs
are safety properties.

### Fairness

- `ExecutionWorker!WorkerFairness`: a running process takes its next step, BullMQ
  hands out waiting jobs, ends backoffs and finds stalled jobs, time makes
  executions stale, a process that was closed and is idle is started again. These
  are what Node's event loop, BullMQ's schedulers and the process manager do.
  `Fairness` adds that the API goes on to `Publish`. No fairness on `Submit`, on any
  fault or on `PublishLost`. A run that does not hang ends (`ExecuteEnds` is
  part of `HandlerStep`), which is what `executors` shows of programs whose helpers
  end; for the others there is `Hang`.
- `PlatformFairSpec`: as for the worker, and the API answers and clients poll.
  Requests need not arrive.
- The recovery run also assumes `StallOutlivesStale`: a job is recovered only
  once its execution is stale. With the shipped defaults both are 30 s, so the
  order is not guaranteed.
- `RunAdmission!Fairness`: requests, runs and time go on; requests need not come.
- `PythonExecutor!Fairness`: the event loop runs what is due and reads are
  answered. Nothing is assumed of the program, which may run and write for ever,
  but processes it starts end (`HelperEnds`): nothing in the executor ends them. Time
  passes (`TimePasses`).
- `JavaScriptExecutor!Fairness`: the event loop goes on, and a script ends, at the
  latest by the `timeout` option of isolated-vm.

## 4. Proofs

Theorems hold for every value of the constants that meets the named assumptions
of the modules; what else a theorem assumes is written in its statement. Each
module proves its inductive invariants component by component and action by
action, and its theorems follow from those.

| Module | Invariant | Theorems | Assumed besides the constants' types |
|---|---|---|---|
| `ExecutionWorkerProofs` | `TypeInv`, `HistoryInv` | `TypeCorrect`, `AuditTrail`, `ClaimedOnce`, `FinalForPollers`, `ErrorTypes` | nothing: all faults |
| | `OwnerInv` | `RunsAreCounted`, `NoRerun`, `RunsAreExclusive`, `FinalizesOnce`, `RefinesLifecycle` | no live slot loses its lock |
| `ExecutionRecoveryProofs` | `RecoveryInv` | `NothingIsForgotten` | `Recoverable` |
| `RunAdmissionProofs` | `AdmissionInv` | `AdmissionTypes`, `InFlightIsBounded`, `RateIsBounded` | `AdmissionAssumption` |
| `PlatformProofs` | `PlatformInv` | `PlatformRunsWorkers`, `ComponentsAgree`, `RefinesAdmission`, `PlatformInFlightBounded`, `PlatformRateBounded` | nothing: all faults |
| | and the above | `AcceptedRunsAreKept` | `Recoverable` |
| | and `OwnerInv` | `FinalAnswersStand` | no live slot loses its lock |
| `CodeSessionsProofs` | `SessionsInv` | `TypesHold`, `LastSaveAlwaysWins`, `VersionAlwaysCounts`, `ReadBackIsNotOlder`, `StoredAlwaysFits`, `NoOlderSourceRuns` | nothing |
| `PythonExecutorProofs` | `PythonInv` | `PythonInvHolds`, `PythonKeepsContract` | nothing |
| `CodeExecutorRegistryProofs` | `RegistryInv` | one for each invariant of `executors`, and `ContractIsKept` | nothing |

`JavaScriptExecutorProofs` has the invariant of its executor as lemmas, which
`CodeExecutorRegistryProofs` uses through an instance.

**The worker.**

1. `TypeInv` is `TypeOK` with `QueueInv`: a deliverable job has attempts and
   stalls left, and exactly the active jobs are locked. `TypeOK` is not inductive
   alone, since the counters of the queue are bounded only through the job state.
2. `HistoryInv` adds the shape of the event rows (`TrailShape`: they begin with
   the creation, only the second may leave QUEUED, the last ends in the row's
   status) and `CommitReady`: a slot about to commit a finalize works on an
   execution that has left QUEUED and will not go back, although it may not be
   RUNNING any more. Locks play no part, so the theorems hold under every fault;
   `ErrorTypes` needs `ErrorInv` as well.
3. `OwnerInv` is for deployments whose live slots keep their locks
   (`FaultBound["lockLoss"] = 0`): a working slot holds the lock of its job, so
   what it learned about the row at its last await still holds at the next
   (`Owns`). From it follow the refinement of `ExecutionLifecycle` and the two
   properties that `overwritten_result` and `double_run` find violated, each with one
   lost lock and no other fault: `FinalizesOnce` (finalize writes only over RUNNING, so
   that a final event is the last one, `FinalIsLast`) and `RunsAreExclusive`. So those
   findings are about lost locks and nothing else.

**Recovery.** `NothingForgotten` is about a job that ends too early. Two things
could end it: a handler that returns on a row that is not final, and one crash
more than BullMQ forgives. `RecoveryInv` excludes the first by `Redelivered` (a
RUNNING row whose job is waiting, delayed or just taken is stale, so that the
handler that gets it takes it over instead of returning) and the second by
`Paid` (what `stalledCount` shows, and an active job that nobody holds, never
exceed the crashes there have been). Each part of `Recoverable` is needed:

- `FaultBound["dbError"] = 0`: a retry after a failed call finds its own RUNNING row,
  not stale, and returns (`unsafe_retry`).
- `FaultBound["lockLoss"] = 0`: a slot claims after its lock was lost; the next handler
  finds a fresh RUNNING row and returns, and its job is completed.
- `FaultBound["crash"] <= MaxStalledCount`: one crash more and BullMQ fails the job.
- `StallOutlivesStale`: otherwise the redelivery after a crash may come before the row
  is stale (`execution-processor.service.ts:66`).

With any one of them dropped, the instance of `recovery` violates `NothingForgotten`.
Hangs, restarts, lost publications and the number of slots are not restricted.

**Admission.** The invariant counts with the rows also the requests that have
passed a check and not yet written their row: when a request passes the
in-flight check no row waits, so all that press on the bound are requests in
progress, at most `MaxConcurrent`; the rate bound is the same argument on top of
a count below the limit. `AdmissionAssumption` is assumed by the modules that give
the constants values, `MCRunAdmission` and, for its instance, `Platform`; the theorems
take it as a hypothesis, so that they can be used through an instance.

**Platform.** The steps of the API are RunAdmission's by definition. What has to be
shown is that every step of the workers is `StartRun`, `FinishRun` or a stutter of
RunAdmission: a row that is claimed has a job (`SlotsHaveJobs`: slots work on
jobs that are in the queue, and jobs stay there), and a row that is finalized
runs or is final already (`CommitReady` of the worker's invariant), so that even
a second finalize, which rewrites a final row, is a stutter. `RequestKnows` ties
each request to its row and its job. The bounds of RunAdmission then hold of the
platform by its own theorems, and so do the theorems of the worker, since every
behaviour of the platform is one of ExecutionWorker (`PlatformRunsWorkers`).
`AcceptedRunsAreKept` is an example: it is `NothingIsForgotten` with `RequestKnows`.
`FinalAnswersStand` adds that a client's answer is the row's, and that no row
changes once it is final; the second part is where locks must be kept.

**Sessions.** A save has stored nothing before its update and nothing newer than
the row (`SaveInv`); the time in a row that was saved is that of the save that made its
version (`TimeInv`); a run has seen nothing newer than the row and got nothing older
than it saw (`RunInv`). `VersionCountsSaves` is a statement about a cardinality: the
update adds exactly its own save to the saves that committed, also when it is not
acknowledged and answered with an error. The proofs use that saves and runs are
different requests and that `None` is neither a session nor a source, which
`SessionsAssumption` says.

**Executors.** `PythonInv` has what each phase of `execute` leaves behind (`PhaseInv`),
that whoever kills the child sets a flag (`KillInv`), that a flag, or a reading about
to set one, has its cause in the program (`CauseInv`), and the balance of the bytes
(`OutputInv`): until a stream goes over the limit, every byte written is in the pipe
or was kept. A lemma on `Decoded` carries the last part: decoding a chunk never makes
it shorter, and at most three times as long, wherever characters of one to four
bytes are split. With it no output is lost and the limit is exceeded by no more than
one chunk. `JavaScriptInv` relates the tested length to the bytes kept
(`StdoutInv`): the console call that goes over the limit disposes the isolate and is
the last one. `RegistryInv` says that only the executor of the session's language
has been called (`OneRuns`), so each step of the registry is a step of one executor
and a stutter of the other. `ContractIsKept` maps every such step to a step or a
stutter of each executor's contract: success and failure are the program's own, only
a limit that it went over is reported, what is completed stayed within `Enforced`, and
the promise settles at most once. It does not say that the output of a completed
script is within maxOutputBytes, nor that a limit is reported whenever one was gone
over; neither holds, as `limits_unreported` shows and section 3 says.

Only model-checked: liveness (`EveryRunTerminates`, `SessionReopens`,
`AcceptedRunIsAnswered`, `ExecuteSettles`). It rests on fairness, and so on `ENABLED`,
which the prover does not treat. Of the properties that the other runs find violated
`OneAtATime` and `LimitsReported` are false without any fault.

## 5. Not modelled

- Configuration: getters over the environment (`getNumber` falls back to a default
  for what is not a number), no state and no steps; the numbers that matter are
  constants of the modules.
- Request validation, Swagger, health, logging, module wiring: no state that
  changes after start-up. A poll for an id that has no row is answered 404.
- Contents: source text, output text and error messages are sizes or members of
  small sets.
- A `MAX_RUNTIME_MS` above 2^31-1: `setTimeout` takes such a delay as 1 ms
  (`python.executor.ts:49`), so that a run of a millisecond is reported as `TIMEOUT`. In
  the model the timer fires after maxRuntimeMs.
- Reuse of a process id between a child's end and the last read of its
  `/proc` entry, and clocks that differ between API instances.
- The session lookup of the worker always succeeds: nothing deletes sessions.

## 6. Plan

1. *The lifecycle of the platform*: what `ImplementsLifecycle`, `FinalizedOnce` and the
   audit trail say of a client's view, by way of `PlatformRunsWorkers`.
2. *The safety parts of the liveness properties*: what an execution that is not
   finished is waiting for, in terms of its row, its job and its slot, as far as
   `RecoveryInv` does not say it yet.
3. *Under failing calls*: how far `NothingForgotten` holds with `dbError`, that is, which
   retries find a row they can take.
