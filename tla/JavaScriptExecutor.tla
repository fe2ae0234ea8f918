------------------------- MODULE JavaScriptExecutor -------------------------
(***************************************************************************)
(* JavaScriptExecutor.execute: one run of a script in an isolate of its    *)
(* own.  The script runs in a thread of the isolate and calls isolatedLog  *)
(* and isolatedError, which run in the event loop, until it ends or        *)
(* isolated-vm ends it at maxRuntimeMs or at the isolate's memory limit.   *)
(*                                                                         *)
(* isolated-vm is modelled from its use: a disposed isolate ends its       *)
(* script with an error and throws at any further use.  Whether an isolate *)
(* that ran out of memory is disposed when run rejects is left open.       *)
(***************************************************************************)
EXTENDS Naturals

CONSTANTS
    MaxOutput,  \* maxOutputBytes
    MaxText,    \* longest text of one console call
    MaxBytes,   \* bytes the UTF-8 of a UTF-16 code unit takes
    WriteBound  \* text a script writes to a stream

\* Assumed of the constants by CodeExecutorRegistry, which instantiates them.
JavaScriptAssumption ==
    /\ MaxOutput \in Nat
    /\ MaxText \in Nat \ {0}
    /\ MaxBytes \in 1..3
    /\ WriteBound \in Nat

VARIABLES
    pc,         \* where execute is
    isolate,    \* the isolate
    ended,      \* why the script ended
    heapOver,   \* used_heap_size is over maxMemoryBytes
    stdout,     \* its length, in UTF-16 code units
    bytes,      \* Buffer.byteLength of stdout
    stderr,     \* Buffer.byteLength of stderr
    memoryLimitExceeded,
    result      \* what the processor makes of the result

\* timedOut and outputLimitExceeded are declared and read, never assigned.
timedOut == FALSE
outputLimitExceeded == FALSE

output == <<stdout, bytes, stderr>>
vars == <<pc, isolate, ended, heapOver, output, memoryLimitExceeded, result>>

Label == {"new", "compile", "run", "finish", "done"}
Ended == {"no", "value", "error", "timeout", "memory", "disposed"}
Verdict == {"COMPLETED", "TIMEOUT", "MEMORY_LIMIT_EXCEEDED",
            "OUTPUT_LIMIT_EXCEEDED", "RUNTIME_ERROR"}

TypeOK ==
    /\ pc \in Label
    /\ isolate \in {"none", "live", "disposed"}
    /\ ended \in Ended
    /\ heapOver \in BOOLEAN
    /\ stdout \in 0..WriteBound
    /\ bytes \in 0..MaxBytes * WriteBound
    /\ stderr \in 0..MaxBytes * WriteBound
    /\ memoryLimitExceeded \in BOOLEAN
    /\ result \in {"none", "threw"} \cup Verdict

Init ==
    /\ pc = "new"
    /\ isolate = "none"
    /\ ended = "no"
    /\ heapOver = FALSE
    /\ stdout = 0
    /\ bytes = 0
    /\ stderr = 0
    /\ memoryLimitExceeded = FALSE
    /\ result = "none"

-----------------------------------------------------------------------------
(* Up to the run: isolate, context, console and compilation, in one step.  *)

\* The processor calls execute.
Call ==
    /\ pc = "new"
    /\ pc' = "compile"
    /\ UNCHANGED <<isolate, ended, heapOver, output, memoryLimitExceeded, result>>

Compile ==
    /\ pc = "compile"
    /\ isolate' = "live"
    /\ pc' = "run"
    /\ UNCHANGED <<ended, heapOver, output, memoryLimitExceeded, result>>

\* compileScriptSync throws outside of the try statement.
CompileFails ==
    /\ pc = "compile"
    /\ isolate' = "live"
    /\ pc' = "done"
    /\ result' = "threw"
    /\ UNCHANGED <<ended, heapOver, output, memoryLimitExceeded>>

-----------------------------------------------------------------------------
(* The script.                                                             *)

Running == pc = "run" /\ isolate = "live" /\ ended = "no"

\* Mutant of TooLong: the limit is not enforced before a call goes over twice
\* the limit.
TooLongLate(length) == length > 2 * MaxOutput

\* The test of isolatedLog.
TooLong(length) == length > MaxOutput

\* isolatedLog, which disposes the isolate under the script.
Log ==
    /\ Running
    /\ \E n \in 1..MaxText :
          /\ stdout + n <= WriteBound
          /\ stdout' = stdout + n
          /\ \E b \in n..MaxBytes * n : bytes' = bytes + b
          /\ IF TooLong(stdout + n)
             THEN /\ memoryLimitExceeded' = TRUE
                  /\ isolate' = "disposed"
                  /\ ended' = "disposed"
             ELSE UNCHANGED <<memoryLimitExceeded, isolate, ended>>
    /\ UNCHANGED <<pc, heapOver, stderr, result>>

\* isolatedError, which tests nothing.
Error ==
    /\ Running
    /\ \E b \in 1..MaxBytes * MaxText :
          /\ stderr + b <= MaxBytes * WriteBound
          /\ stderr' = stderr + b
    /\ UNCHANGED <<pc, isolate, ended, heapOver, stdout, bytes,
                   memoryLimitExceeded, result>>

ScriptEnds ==
    /\ Running
    /\ ended' \in {"value", "error", "timeout", "memory"}
    /\ isolate' \in {isolate} \cup IF ended' = "memory" THEN {"disposed"} ELSE {}
    /\ heapOver' \in BOOLEAN
    /\ UNCHANGED <<pc, output, memoryLimitExceeded, result>>

-----------------------------------------------------------------------------
(* The rest of execute, when the promise of run settles.                   *)

\* The status and errorType mapFinalizePayload derives from a result.
MapFinalizePayload(memory, exitCode) ==
    IF timedOut THEN "TIMEOUT"
    ELSE IF memory THEN "MEMORY_LIMIT_EXCEEDED"
    ELSE IF outputLimitExceeded THEN "OUTPUT_LIMIT_EXCEEDED"
    ELSE IF exitCode = 0 THEN "COMPLETED" ELSE "RUNTIME_ERROR"

\* Mutant of Resolved: the heap is not looked at.
ResolvedIgnoringHeap ==
    /\ pc = "run"
    /\ ended = "value"
    /\ memoryLimitExceeded' = FALSE
    /\ result' = MapFinalizePayload(FALSE, 0)
    /\ pc' = "finish"
    /\ UNCHANGED <<isolate, ended, heapOver, output>>

\* run resolves: the statistics replace memoryLimitExceeded.
Resolved ==
    /\ pc = "run"
    /\ ended = "value"
    /\ memoryLimitExceeded' = heapOver
    /\ result' = MapFinalizePayload(heapOver, 0)
    /\ pc' = "finish"
    /\ UNCHANGED <<isolate, ended, heapOver, output>>

\* Mutant of Rejected: the catch block returns the exit code of a success.
RejectedAsSuccess ==
    /\ pc = "run"
    /\ ended \in Ended \ {"no", "value"}
    /\ IF isolate = "live"
       THEN result' = MapFinalizePayload(memoryLimitExceeded, 0) /\ pc' = "finish"
       ELSE result' = "threw" /\ pc' = "done"
    /\ UNCHANGED <<isolate, ended, heapOver, output, memoryLimitExceeded>>

\* run rejects: the catch block reads wallTime, which throws once more when
\* the isolate is disposed.
Rejected ==
    /\ pc = "run"
    /\ ended \in Ended \ {"no", "value"}
    /\ IF isolate = "live"
       THEN result' = MapFinalizePayload(memoryLimitExceeded, 1) /\ pc' = "finish"
       ELSE result' = "threw" /\ pc' = "done"
    /\ UNCHANGED <<isolate, ended, heapOver, output, memoryLimitExceeded>>

\* Mutant of CleanUp: the isolate is kept.
CleanUpForgotten ==
    /\ pc = "finish"
    /\ pc' = "done"
    /\ UNCHANGED <<isolate, ended, heapOver, output, memoryLimitExceeded, result>>

CleanUp ==
    /\ pc = "finish"
    /\ isolate' = "disposed"
    /\ pc' = "done"
    /\ UNCHANGED <<ended, heapOver, output, memoryLimitExceeded, result>>

Next ==
    \/ Call \/ Compile \/ CompileFails
    \/ Log \/ Error \/ ScriptEnds
    \/ Resolved \/ Rejected \/ CleanUp

Spec == Init /\ [][Next]_vars

\* The event loop goes on, and a script ends at the latest by the timeout of
\* isolated-vm.
Fairness ==
    /\ WF_vars(Compile \/ CompileFails)
    /\ WF_vars(ScriptEnds)
    /\ WF_vars(Resolved \/ Rejected \/ CleanUp)

-----------------------------------------------------------------------------
(* The run as CodeExecutor sees it.                                        *)

Went(limit, hit) == IF hit THEN {limit} ELSE {}

\* maxOutputBytes is a limit of bytes, for each stream; the test of isolatedLog,
\* of code units and of stdout alone, is not the limit.
Exceeded ==
        Went("TIMEOUT", ended = "timeout")
    \cup Went("MEMORY_LIMIT_EXCEEDED", heapOver \/ ended = "memory")
    \cup Went("OUTPUT_LIMIT_EXCEEDED", bytes > MaxOutput \/ stderr > MaxOutput)

Succeeded == ended = "value"

Reported == IF result \in Verdict THEN result ELSE "none"

Promise ==
    IF pc # "done" THEN "pending"
    ELSE IF result = "threw" THEN "rejected" ELSE "resolved"

\* isolated-vm ends a script that runs too long, and the heap is looked at when
\* it has ended.  The output of a completed script may be over the limit.
Contract == INSTANCE CodeExecutor WITH
    Enforced <- {"TIMEOUT", "MEMORY_LIMIT_EXCEEDED"},
    exceeded <- Exceeded, succeeded <- Succeeded, verdict <- Reported, promise <- Promise

-----------------------------------------------------------------------------
(* Properties.                                                             *)

\* stdout goes over the limit by at most one call, and then the script is
\* over: no console call of it is served any more.  The limit is one of bytes
\* and the test one of code units, so what is kept may be three times as long.
StdoutBounded ==
    /\ bytes <= MaxBytes * (MaxOutput + MaxText)
    /\ stdout > MaxOutput => ~Running /\ result # "COMPLETED"

\* What is reported as completed ended by itself with its heap within the
\* limit, and what is reported as a memory problem was one.
VerdictFits ==
    /\ result = "COMPLETED" => ended = "value" /\ ~heapOver
    /\ result = "MEMORY_LIMIT_EXCEEDED" => heapOver \/ ended = "memory"

\* A run that returns a result leaves no isolate behind.
NoIsolateLeft == pc = "done" /\ result \in Verdict => isolate = "disposed"

\* A script that went over a limit is reported with a limit it went over, be it
\* stopped for it or not: the converse of what the contract says of reports.
LimitsReported == pc = "done" /\ Exceeded # {} => result \in Exceeded
=============================================================================
