--------------------------- MODULE PythonExecutor ---------------------------
(***************************************************************************)
(* PythonExecutor.execute: one run of a program in a child process, under  *)
(* a timeout, a memory monitor and a cap on each output stream.  Between   *)
(* the awaits of execute the event loop runs the callbacks that spawn, the *)
(* two timers and the two streams registered, in any order.                *)
(*                                                                         *)
(* The program and the operating system are the environment.  A program    *)
(* may start a helper, a process that shares its stdout and stderr; kill   *)
(* reaches the child alone.  Output is counted in bytes and consists of    *)
(* characters of CharSize bytes.  Of memory it is known whether it has     *)
(* been over the limit, of time whether maxRuntimeMs have passed; both may *)
(* happen at any moment of the run.                                        *)
(***************************************************************************)
EXTENDS Naturals

CONSTANTS
    MaxOutput,   \* maxOutputBytes
    PipeSize,    \* bytes a pipe holds
    CharSize,    \* bytes of a character in UTF-8
    WriteBound,  \* bytes a program writes to a stream
    Read,        \* reads of /proc/<pid>/status that may be under way at once
    FaultBound   \* file system calls that fail

ASSUME PythonAssumption ==
    /\ MaxOutput \in Nat
    /\ PipeSize \in Nat \ {0}
    /\ CharSize \in 1..4
    /\ WriteBound \in Nat
    /\ FaultBound \in Nat

VARIABLES
    pc,          \* where execute is
    workDir,     \* the temporary directory exists
    program,     \* the child process
    helper,      \* a process that shares the child's pipes is alive
    peaked,      \* the child's resident set has been over maxMemoryBytes
    elapsed,     \* maxRuntimeMs have passed since the child was spawned
    written,     \* bytes written to each stream
    pipe,        \* bytes of them still in the pipe
    kept,        \* Buffer.byteLength of stdout and stderr
    timeout,     \* the timeout is armed
    monitor,     \* the interval is armed
    read,        \* reads of the child's status
    timedOut, memoryLimitExceeded, outputLimitExceeded,
    result,      \* what the processor makes of the result
    faults       \* file system calls that failed

environment == <<helper, peaked, elapsed, written>>
timers == <<timeout, monitor>>
flags == <<timedOut, memoryLimitExceeded, outputLimitExceeded>>
vars == <<pc, workDir, program, environment, pipe, kept, timers, read, flags,
          result, faults>>

Stream == {"stdout", "stderr"}

\* Bytes of U+FFFD, which toString('utf8') puts in the place of broken input.
Replacement == 3

Label == {"new", "mkdtemp", "writeFile", "spawn", "await", "rm", "done"}
Ending == {"exit 0", "exit 1", "killed"}
Verdict == {"COMPLETED", "TIMEOUT", "MEMORY_LIMIT_EXCEEDED",
            "OUTPUT_LIMIT_EXCEEDED", "RUNTIME_ERROR"}

TypeOK ==
    /\ pc \in Label
    /\ workDir \in BOOLEAN
    /\ program \in {"none", "running"} \cup Ending
    /\ helper \in BOOLEAN
    /\ peaked \in BOOLEAN
    /\ elapsed \in BOOLEAN
    /\ written \in [Stream -> 0..WriteBound]
    /\ pipe \in [Stream -> 0..PipeSize]
    /\ kept \in [Stream -> 0..MaxOutput + Replacement * PipeSize]
    /\ timeout \in BOOLEAN
    /\ monitor \in BOOLEAN
    /\ read \in [Read -> {"idle", "asked", "high"}]
    /\ timedOut \in BOOLEAN
    /\ memoryLimitExceeded \in BOOLEAN
    /\ outputLimitExceeded \in BOOLEAN
    /\ result \in {"none", "threw"} \cup Verdict
    /\ faults \in 0..FaultBound

Init ==
    /\ pc = "new"
    /\ workDir = FALSE
    /\ program = "none"
    /\ helper = FALSE
    /\ peaked = FALSE
    /\ elapsed = FALSE
    /\ written = [s \in Stream |-> 0]
    /\ pipe = [s \in Stream |-> 0]
    /\ kept = [s \in Stream |-> 0]
    /\ timeout = FALSE
    /\ monitor = FALSE
    /\ read = [r \in Read |-> "idle"]
    /\ timedOut = FALSE
    /\ memoryLimitExceeded = FALSE
    /\ outputLimitExceeded = FALSE
    /\ result = "none"
    /\ faults = 0

-----------------------------------------------------------------------------
(* execute.                                                                *)

\* The processor calls execute.
Call ==
    /\ pc = "new"
    /\ pc' = "mkdtemp"
    /\ UNCHANGED <<workDir, program, environment, pipe, kept, timers, read, flags,
                   result, faults>>

MakeWorkDir ==
    /\ pc = "mkdtemp"
    /\ pc' = "writeFile"
    /\ workDir' = TRUE
    /\ UNCHANGED <<program, environment, pipe, kept, timers, read, flags,
                   result, faults>>

WriteSource ==
    /\ pc = "writeFile"
    /\ pc' = "spawn"
    /\ UNCHANGED <<workDir, program, environment, pipe, kept, timers, read,
                   flags, result, faults>>

Spawn ==
    /\ pc = "spawn"
    /\ pc' = "await"
    /\ program' = "running"
    /\ timeout' = TRUE
    /\ monitor' = TRUE
    /\ UNCHANGED <<workDir, environment, pipe, kept, read, flags, result, faults>>

\* Mutant of Settle: clearInterval is forgotten.
SettleKeepingMonitor(outcome) ==
    /\ pc' = "rm"
    /\ timeout' = FALSE
    /\ UNCHANGED monitor
    /\ result' = outcome

\* Mutant of Settle: the finally block is not reached.
SettleWithoutCleanup(outcome) ==
    /\ pc' = "done"
    /\ timeout' = FALSE
    /\ monitor' = FALSE
    /\ result' = outcome

\* The promise is settled and execute continues with its finally block.
Settle(outcome) ==
    /\ pc' = "rm"
    /\ timeout' = FALSE
    /\ monitor' = FALSE
    /\ result' = outcome

\* The interpreter cannot be started: the error event comes before any other
\* callback.
SpawnFails ==
    /\ pc = "spawn"
    /\ Settle("threw")
    /\ UNCHANGED <<workDir, program, environment, pipe, kept, read, flags, faults>>

\* Mutant of Closable: the exit event instead of the close event.
ClosableOnExit == program \in Ending

\* The close event comes when the child is gone and both its streams have
\* ended, that is when no process holds their other ends.
Closable ==
    /\ program \in Ending
    /\ ~helper
    /\ \A s \in Stream : pipe[s] = 0

\* The status and errorType mapFinalizePayload derives from the result.
MapFinalizePayload ==
    IF timedOut THEN "TIMEOUT"
    ELSE IF memoryLimitExceeded THEN "MEMORY_LIMIT_EXCEEDED"
    ELSE IF outputLimitExceeded THEN "OUTPUT_LIMIT_EXCEEDED"
    ELSE IF program = "exit 0" THEN "COMPLETED" ELSE "RUNTIME_ERROR"

OnClose ==
    /\ pc = "await"
    /\ Closable
    /\ Settle(MapFinalizePayload)
    /\ UNCHANGED <<workDir, program, environment, pipe, kept, read, flags, faults>>

RemoveWorkDir ==
    /\ pc = "rm"
    /\ pc' = "done"
    /\ workDir' = FALSE
    /\ UNCHANGED <<program, environment, pipe, kept, timers, read, flags,
                   result, faults>>

\* mkdtemp, writeFile or rm rejects, and execute with it.
FileSystemFails ==
    /\ pc \in {"mkdtemp", "writeFile", "rm"}
    /\ faults < FaultBound
    /\ faults' = faults + 1
    /\ pc' = "done"
    /\ result' = "threw"
    /\ UNCHANGED <<workDir, program, environment, pipe, kept, timers, read, flags>>

-----------------------------------------------------------------------------
(* Callbacks.                                                              *)

\* child.kill('SIGKILL'): without effect on a child that is gone.
Kill == program' = IF program = "running" THEN "killed" ELSE program

\* Mutant of OnTimeout: the child is not killed.
OnTimeoutNoKill ==
    /\ timeout /\ elapsed
    /\ timeout' = FALSE
    /\ timedOut' = TRUE
    /\ UNCHANGED <<pc, workDir, program, environment, pipe, kept, monitor, read,
                   memoryLimitExceeded, outputLimitExceeded, result, faults>>

\* Mutant of OnTimeout: the flag is not set.
OnTimeoutNoFlag ==
    /\ timeout /\ elapsed
    /\ timeout' = FALSE
    /\ Kill
    /\ UNCHANGED <<pc, workDir, environment, pipe, kept, monitor, read, flags,
                   result, faults>>

OnTimeout ==
    /\ timeout /\ elapsed
    /\ timeout' = FALSE
    /\ timedOut' = TRUE
    /\ Kill
    /\ UNCHANGED <<pc, workDir, environment, pipe, kept, monitor, read,
                   memoryLimitExceeded, outputLimitExceeded, result, faults>>

\* The interval starts a read; a slow one overlaps the next.
OnMonitor(r) ==
    /\ monitor
    /\ read[r] = "idle"
    /\ read' = [read EXCEPT ![r] = "asked"]
    /\ UNCHANGED <<pc, workDir, program, environment, pipe, kept, timers, flags,
                   result, faults>>

\* The kernel answers a read.  A resident set that has been over the limit may
\* be below it again.  The status of a child that is gone has no VmRSS line, or
\* is not found.
ReadStatus(r) ==
    /\ read[r] = "asked"
    /\ \/ read' = [read EXCEPT ![r] = "idle"]
       \/ program = "running" /\ peaked /\ read' = [read EXCEPT ![r] = "high"]
    /\ UNCHANGED <<pc, workDir, program, environment, pipe, kept, timers, flags,
                   result, faults>>

\* The continuation of a read, which nothing cancels.
OnStatus(r) ==
    /\ read[r] = "high"
    /\ read' = [read EXCEPT ![r] = "idle"]
    /\ memoryLimitExceeded' = TRUE
    /\ Kill
    /\ UNCHANGED <<pc, workDir, environment, pipe, kept, timers, timedOut,
                   outputLimitExceeded, result, faults>>

\* Mutant of Keeps: data is kept after the limit was exceeded.
KeepsAlways == TRUE

\* The guard of the data callbacks.
Keeps == ~outputLimitExceeded

\* Mutant of Decoded: what is cut off a character is dropped.
DecodedDropping(from, n) ==
    LET end == from + n
    IN  CharSize * ((end \div CharSize) - ((from + CharSize - 1) \div CharSize))

\* buffer.toString('utf8') of n bytes that follow the first "from" of a stream:
\* each byte left over from the character before it is replaced on its own, and
\* the beginning of a character that is cut off as a whole.
Decoded(from, n) ==
    LET rest == (CharSize - (from % CharSize)) % CharSize
        tail == IF n < rest THEN n ELSE rest
        head == (n - tail) % CharSize
    IN  Replacement * tail + (n - tail - head) + (IF head > 0 THEN Replacement ELSE 0)

\* A data event hands over what has arrived, all of it or a part.
OnData(s) ==
    /\ pc = "await"
    /\ \E n \in 1..pipe[s] :
          /\ pipe' = [pipe EXCEPT ![s] = @ - n]
          /\ IF Keeps
             THEN /\ kept' = [kept EXCEPT ![s] = @ + Decoded(written[s] - pipe[s], n)]
                  /\ IF kept'[s] > MaxOutput
                     THEN outputLimitExceeded' = TRUE /\ Kill
                     ELSE UNCHANGED <<outputLimitExceeded, program>>
             ELSE UNCHANGED <<kept, outputLimitExceeded, program>>
    /\ UNCHANGED <<pc, workDir, environment, timers, read, timedOut,
                   memoryLimitExceeded, result, faults>>

-----------------------------------------------------------------------------
(* The program.                                                            *)

Write(s) ==
    /\ program = "running" \/ helper
    /\ written[s] < WriteBound
    /\ pipe[s] < PipeSize
    /\ written' = [written EXCEPT ![s] = @ + 1]
    /\ pipe' = [pipe EXCEPT ![s] = @ + 1]
    /\ UNCHANGED <<pc, workDir, program, helper, peaked, elapsed, kept,
                   timers, read, flags, result, faults>>

\* The resident set grows past the limit, for however long.
UseMemory ==
    /\ program = "running"
    /\ ~peaked
    /\ peaked' = TRUE
    /\ UNCHANGED <<pc, workDir, program, helper, elapsed, written, pipe, kept,
                   timers, read, flags, result, faults>>

StartHelper ==
    /\ program = "running"
    /\ helper' = TRUE
    /\ UNCHANGED <<pc, workDir, program, peaked, elapsed, written, pipe, kept,
                   timers, read, flags, result, faults>>

HelperEnds ==
    /\ helper
    /\ helper' = FALSE
    /\ UNCHANGED <<pc, workDir, program, peaked, elapsed, written, pipe, kept,
                   timers, read, flags, result, faults>>

Exit ==
    /\ program = "running"
    /\ program' \in {"exit 0", "exit 1"}
    /\ UNCHANGED <<pc, workDir, environment, pipe, kept, timers, read, flags,
                   result, faults>>

\* maxRuntimeMs pass before execute has settled.
TimePasses ==
    /\ timeout
    /\ ~elapsed
    /\ elapsed' = TRUE
    /\ UNCHANGED <<pc, workDir, program, helper, peaked, written, pipe, kept,
                   timers, read, flags, result, faults>>

-----------------------------------------------------------------------------

Execute == MakeWorkDir \/ WriteSource \/ Spawn \/ SpawnFails \/ OnClose \/ RemoveWorkDir

Next ==
    \/ Call \/ Execute \/ FileSystemFails \/ OnTimeout
    \/ \E r \in Read : OnMonitor(r) \/ ReadStatus(r) \/ OnStatus(r)
    \/ \E s \in Stream : OnData(s) \/ Write(s)
    \/ UseMemory \/ StartHelper \/ HelperEnds \/ Exit \/ TimePasses

Spec == Init /\ [][Next]_vars

\* Time passes, the event loop runs what is due, and reads are answered.  Of the program
\* nothing is assumed, not even that it ever ends, but helpers do end: kill
\* does not reach them and close waits for them, so that execute need not
\* settle without this assumption.
Fairness ==
    /\ WF_vars(Execute)
    /\ WF_vars(TimePasses)
    /\ WF_vars(OnTimeout)
    /\ \A r \in Read : WF_vars(ReadStatus(r)) /\ WF_vars(OnStatus(r))
    /\ \A s \in Stream : WF_vars(OnData(s))
    /\ WF_vars(HelperEnds)

-----------------------------------------------------------------------------
(* The run as CodeExecutor sees it.                                        *)

Went(limit, hit) == IF hit THEN {limit} ELSE {}

\* What the program and its helpers did, not what execute noticed of it.
\* Output counts as written and as kept: they differ when characters are split.
Exceeded ==
        Went("TIMEOUT", elapsed)
    \cup Went("MEMORY_LIMIT_EXCEEDED", peaked)
    \cup Went("OUTPUT_LIMIT_EXCEEDED",
              \E s \in Stream : written[s] > MaxOutput \/ kept[s] > MaxOutput)

Succeeded == program = "exit 0"

Reported == IF result \in Verdict THEN result ELSE "none"

Promise ==
    IF pc # "done" THEN "pending"
    ELSE IF result = "threw" THEN "rejected" ELSE "resolved"

\* A completed program stayed within the output limit.  It may have run a moment
\* longer than maxRuntimeMs, when its end came before the timeout was served,
\* and used too much memory between two readings.
Contract == INSTANCE CodeExecutor WITH
    Enforced <- {"OUTPUT_LIMIT_EXCEEDED"},
    exceeded <- Exceeded, succeeded <- Succeeded, verdict <- Reported, promise <- Promise

-----------------------------------------------------------------------------
(* Properties.                                                             *)

Settled == pc \in {"rm", "done"}

\* A result that is not cut off by the output limit stands for every byte the
\* program and its helpers wrote, although they are gone before the streams
\* are read to their end: execute waits for close, not for exit.  A character
\* that was split between two data events makes it longer, never shorter.
NothingLost ==
    Settled /\ result \in Verdict /\ ~outputLimitExceeded =>
        \A s \in Stream : kept[s] >= written[s]

\* Whatever races at the end of a run, each of the five verdicts is about what
\* happened: a program that is reported completed or failed ended like that by
\* itself and was not killed, a completed one stayed within the output limit,
\* and a limit is reported of a run that went over it, even when the child had
\* gone by the time the executor would have killed it.
VerdictFits ==
    /\ result = "COMPLETED" =>
          program = "exit 0" /\ \A s \in Stream : kept[s] <= MaxOutput
    /\ result = "RUNTIME_ERROR" => program = "exit 1"
    /\ result = "TIMEOUT" => elapsed
    /\ result = "MEMORY_LIMIT_EXCEEDED" => peaked
    /\ result = "OUTPUT_LIMIT_EXCEEDED" => \E s \in Stream : kept[s] > MaxOutput

\* Both streams share one flag: at most one of them goes over the limit, by no
\* more than one data event of broken characters, however much helpers go on to
\* write.
OutputBounded ==
    kept["stdout"] + kept["stderr"] <= 2 * MaxOutput + Replacement * PipeSize

\* No timer outlives the run it belongs to, whichever event settled it.
NoTimerLeft == pc # "await" => ~timeout /\ ~monitor

\* A run that had no trouble with the file system leaves no directory behind,
\* however it ended.
DirRemovedAfterRun == pc = "done" /\ faults = 0 => ~workDir
=============================================================================
