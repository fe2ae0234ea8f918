------------------------ MODULE CodeExecutorRegistry ------------------------
(***************************************************************************)
(* A call of execute as the processor makes it: CodeExecutorRegistry.get   *)
(* hands out the executor of the session's language, and that one runs the *)
(* code.  RunnerModule registers an executor for every SupportedLanguage   *)
(* before the worker takes its first job, so get does not throw.           *)
(***************************************************************************)
EXTENDS PythonExecutor

CONSTANTS
    MaxText, MaxBytes,  \* of JavaScriptExecutor
    TextBound           \* text a script writes to a stream

VARIABLES
    language,           \* of the session
    scriptPc, isolate, ended, heapOver, stdout, stderr, bytes, scriptMemory,
    scriptResult        \* the variables of JavaScriptExecutor

scriptVars == <<scriptPc, isolate, ended, heapOver, stdout, stderr, bytes,
                scriptMemory, scriptResult>>
registryVars == <<language, vars, scriptVars>>

JavaScript == INSTANCE JavaScriptExecutor WITH
    WriteBound <- TextBound,
    pc <- scriptPc, memoryLimitExceeded <- scriptMemory, result <- scriptResult

ASSUME RegistryAssumption == JavaScript!JavaScriptAssumption

SupportedLanguage == {"PYTHON", "JAVASCRIPT"}

RegistryInit ==
    /\ language \in SupportedLanguage
    /\ Init
    /\ JavaScript!Init

\* Mutant of Get: whatever the language, the executor registered last.
GetLast == JavaScript!Call /\ UNCHANGED <<language, vars>>

\* get, and the call of execute on what it returned.
Get ==
    /\ \/ language = "PYTHON" /\ Call /\ UNCHANGED scriptVars
       \/ language = "JAVASCRIPT" /\ JavaScript!Call /\ UNCHANGED vars
    /\ UNCHANGED language

\* The executor that was called goes on.
Run ==
    /\ \/ pc # "new" /\ Next /\ UNCHANGED scriptVars
       \/ scriptPc # "new" /\ JavaScript!Next /\ UNCHANGED vars
    /\ UNCHANGED language

RegistryNext == Get \/ Run

RegistrySpec ==
    /\ RegistryInit
    /\ [][RegistryNext]_registryVars
    /\ WF_registryVars(Get)
    /\ Fairness
    /\ JavaScript!Fairness

-----------------------------------------------------------------------------
(* Properties.                                                             *)

\* The variables have their types, and only the executor of the language runs.
RegistryTypeOK ==
    /\ language \in SupportedLanguage
    /\ TypeOK
    /\ JavaScript!TypeOK
    /\ language # "PYTHON" => Init
    /\ language # "JAVASCRIPT" => JavaScript!Init

StdoutBounded == JavaScript!StdoutBounded
ScriptVerdictFits == JavaScript!VerdictFits
NoIsolateLeft == JavaScript!NoIsolateLeft

\* Whichever executor the registry hands out keeps the contract of CodeExecutor:
\* its promise settles at most once, and however the output was cut into data
\* events and whatever raced the end of the program, success and failure are
\* those of the program itself, and a limit is reported only of a program that
\* went over it.  Completed programs stayed within the output limit if they
\* were written in Python, and within those of time and memory if they were
\* written in JavaScript.  That every limit is reported is LimitsReported.
ImplementsCodeExecutor == Contract!Spec /\ JavaScript!Contract!Spec

\* The await of the processor ends: the promise of the executor that was called
\* settles, even for a program that never stops and writes as much as it can.
ExecuteSettles ==
    /\ language = "PYTHON" ~> Promise # "pending"
    /\ language = "JAVASCRIPT" ~> JavaScript!Promise # "pending"
=============================================================================
