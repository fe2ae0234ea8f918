--------------------- MODULE CodeExecutorRegistryProofs ---------------------
(***************************************************************************)
(* What a call of execute guarantees, whichever executor the registry hands *)
(* out.  The work is done in the proofs about the two executors; here it   *)
(* is shown that one of them runs and the other stays as it was (OneRuns), *)
(* so that the invariants of both hold together.                           *)
(***************************************************************************)
EXTENDS CodeExecutorRegistry, PythonExecutorProofs

JS == INSTANCE JavaScriptExecutorProofs WITH
    WriteBound <- TextBound,
    pc <- scriptPc, memoryLimitExceeded <- scriptMemory, result <- scriptResult

RegistryInv ==
    /\ language \in SupportedLanguage
    /\ PythonInv
    /\ JS!JavaScriptInv
    /\ language # "PYTHON" => Init
    /\ language # "JAVASCRIPT" => JavaScript!Init

\* The proofs about the executor speak of the executor the registry calls.
LEMMA SameScript == JavaScript!Next => JS!Next
<1> SUFFICES ASSUME JavaScript!Next PROVE JS!Next
  OBVIOUS
<1>1. JavaScript!Call => JS!Call
  BY DEF JavaScript!Call, JS!Call, JavaScript!output, JS!output
<1>2. JavaScript!Compile => JS!Compile
  BY DEF JavaScript!Compile, JS!Compile, JavaScript!output, JS!output
<1>3. JavaScript!CompileFails => JS!CompileFails
  BY DEF JavaScript!CompileFails, JS!CompileFails, JavaScript!output, JS!output
<1>4. JavaScript!Log => JS!Log
  BY DEF JavaScript!Log, JS!Log, JavaScript!Running, JS!Running, JavaScript!TooLong,
         JS!TooLong
<1>5. JavaScript!Error => JS!Error
  BY DEF JavaScript!Error, JS!Error, JavaScript!Running, JS!Running
<1>6. JavaScript!ScriptEnds => JS!ScriptEnds
  BY DEF JavaScript!ScriptEnds, JS!ScriptEnds, JavaScript!Running, JS!Running,
         JavaScript!output, JS!output
<1>7. JavaScript!Resolved => JS!Resolved
  BY DEF JavaScript!Resolved, JS!Resolved, JavaScript!MapFinalizePayload,
         JS!MapFinalizePayload, JavaScript!timedOut, JS!timedOut,
         JavaScript!outputLimitExceeded, JS!outputLimitExceeded, JavaScript!output,
         JS!output
<1>8. JavaScript!Rejected => JS!Rejected
  BY DEF JavaScript!Rejected, JS!Rejected, JavaScript!MapFinalizePayload,
         JS!MapFinalizePayload, JavaScript!timedOut, JS!timedOut,
         JavaScript!outputLimitExceeded, JS!outputLimitExceeded, JavaScript!output,
         JS!output, JavaScript!Ended, JS!Ended
<1>9. JavaScript!CleanUp => JS!CleanUp
  BY DEF JavaScript!CleanUp, JS!CleanUp, JavaScript!output, JS!output
<1> QED
  BY <1>1, <1>2, <1>3, <1>4, <1>5, <1>6, <1>7, <1>8, <1>9 DEF JavaScript!Next, JS!Next

\* The executor that was not asked for has not been called.
LEMMA OneRuns ==
    ASSUME RegistryInv, [RegistryNext]_registryVars
    PROVE  /\ language' = language
           /\ language = "PYTHON" => [Next]_vars /\ UNCHANGED scriptVars
           /\ language = "JAVASCRIPT" => [JS!Next]_(JS!vars) /\ UNCHANGED vars
<1>1. CASE Get
  <2>1. CASE language = "PYTHON" /\ Call /\ UNCHANGED scriptVars
    BY <1>1, <2>1 DEF Get, Next
  <2>2. CASE language = "JAVASCRIPT" /\ JavaScript!Call /\ UNCHANGED vars
    <3>1. JS!Next
      BY <2>2 DEF JavaScript!Call, JS!Call, JS!Next, JavaScript!output, JS!output
    <3> QED
      BY <1>1, <2>2, <3>1 DEF Get
  <2> QED
    BY <1>1, <2>1, <2>2 DEF Get
<1>2. CASE Run
  <2>1. CASE pc # "new" /\ Next /\ UNCHANGED scriptVars
    <3>1. language = "PYTHON"
      BY <2>1 DEF RegistryInv, Init
    <3> QED
      BY <1>2, <2>1, <3>1 DEF Run
  <2>2. CASE scriptPc # "new" /\ JavaScript!Next /\ UNCHANGED vars
    <3>1. language = "JAVASCRIPT"
      BY <2>2 DEF RegistryInv, JavaScript!Init
    <3>2. JS!Next
      BY <2>2, SameScript
    <3> QED
      BY <1>2, <2>2, <3>1, <3>2 DEF Run
  <2> QED
    BY <1>2, <2>1, <2>2 DEF Run
<1>3. CASE UNCHANGED registryVars
  BY <1>3 DEF registryVars, scriptVars, JS!vars, JS!output
<1> QED
  BY <1>1, <1>2, <1>3 DEF RegistryNext

\* Before get nothing has happened in either executor.
LEMMA RegistryInvInit == RegistryInit => RegistryInv
<1> SUFFICES ASSUME RegistryInit PROVE RegistryInv
  OBVIOUS
<1>1. JS!JavaScriptInv
  <2>1. JS!JavaScriptAssumption
    BY RegistryAssumption DEF JavaScript!JavaScriptAssumption, JS!JavaScriptAssumption
  <2>2. JS!Init
    BY DEF RegistryInit, JavaScript!Init, JS!Init
  <2> QED
    BY <2>1, <2>2, JS!InvInit
<1> QED
  BY <1>1, InvInit DEF RegistryInit, RegistryInv

\* Every step preserves the invariants of both executors.
LEMMA RegistryInvStep ==
    ASSUME RegistryInv, [RegistryNext]_registryVars
    PROVE  RegistryInv'
<1>1. CASE language = "PYTHON"
  <2>1. language' = language /\ [Next]_vars /\ UNCHANGED scriptVars
    BY <1>1, OneRuns
  <2>2. PythonInv'
    BY <2>1, InvStep DEF RegistryInv
  <2>3. JS!JavaScriptInv'
    <3>1. UNCHANGED JS!vars
      BY <2>1 DEF scriptVars, JS!vars, JS!output
    <3>2. JS!JavaScriptAssumption
      BY RegistryAssumption DEF JavaScript!JavaScriptAssumption, JS!JavaScriptAssumption
    <3> QED
      BY <3>1, <3>2, JS!InvStep DEF RegistryInv
  <2>4. JavaScript!Init'
    BY <1>1, <2>1 DEF RegistryInv, scriptVars, JavaScript!Init
  <2> QED
    BY <1>1, <2>1, <2>2, <2>3, <2>4 DEF RegistryInv
<1>2. CASE language = "JAVASCRIPT"
  <2>1. language' = language /\ [JS!Next]_(JS!vars) /\ UNCHANGED vars
    BY <1>2, OneRuns
  <2>2. PythonInv'
    BY <2>1, InvStep DEF RegistryInv
  <2>3. JS!JavaScriptInv'
    <3>1. JS!JavaScriptAssumption
      BY RegistryAssumption DEF JavaScript!JavaScriptAssumption, JS!JavaScriptAssumption
    <3> QED
      BY <2>1, <3>1, JS!InvStep DEF RegistryInv
  <2>4. Init'
    BY <1>2, <2>1 DEF RegistryInv, vars, environment, timers, flags, Init
  <2> QED
    BY <1>2, <2>1, <2>2, <2>3, <2>4 DEF RegistryInv
<1> QED
  BY <1>1, <1>2 DEF RegistryInv, SupportedLanguage

\* What the invariant says of each of the properties.
LEMMA RegistryInvImplies ==
    ASSUME RegistryInv
    PROVE  /\ RegistryTypeOK
           /\ StdoutBounded /\ ScriptVerdictFits /\ NoIsolateLeft
<1>1. JS!JavaScriptAssumption
  BY RegistryAssumption DEF JavaScript!JavaScriptAssumption, JS!JavaScriptAssumption
<1>2. RegistryTypeOK
  <2>1. TypeOK
    BY InvImplies DEF RegistryInv
  <2>2. JavaScript!TypeOK
    BY DEF RegistryInv, JS!JavaScriptInv, JS!TypeOK, JavaScript!TypeOK, JS!Label,
           JavaScript!Label, JS!Ended, JavaScript!Ended, JS!Verdict, JavaScript!Verdict
  <2> QED
    BY <2>1, <2>2 DEF RegistryInv, RegistryTypeOK
<1>3. StdoutBounded
  <2>1. JS!StdoutBounded
    BY <1>1, JS!StdoutFits DEF RegistryInv
  <2> QED
    BY <2>1 DEF StdoutBounded, JS!StdoutBounded, JavaScript!StdoutBounded, JS!Running,
                JavaScript!Running
<1>4. ScriptVerdictFits
  BY DEF RegistryInv, JS!JavaScriptInv, ScriptVerdictFits, JavaScript!VerdictFits,
         JS!VerdictFits
<1>5. NoIsolateLeft
  BY DEF RegistryInv, JS!JavaScriptInv, NoIsolateLeft, JavaScript!NoIsolateLeft,
         JS!NoIsolateLeft, JavaScript!Verdict, JS!Verdict
<1> QED
  BY <1>2, <1>3, <1>4, <1>5

-----------------------------------------------------------------------------
(* The contract.                                                           *)

\* The two instances of JavaScriptExecutor look the same from outside.
LEMMA SameView ==
    /\ JavaScript!Exceeded = JS!Exceeded /\ JavaScript!Exceeded' = JS!Exceeded'
    /\ JavaScript!Succeeded = JS!Succeeded /\ JavaScript!Succeeded' = JS!Succeeded'
    /\ JavaScript!Reported = JS!Reported /\ JavaScript!Reported' = JS!Reported'
    /\ JavaScript!Promise = JS!Promise /\ JavaScript!Promise' = JS!Promise'
BY DEF JavaScript!Exceeded, JS!Exceeded, JavaScript!Succeeded, JS!Succeeded, JavaScript!Went,
       JS!Went, JavaScript!Reported, JS!Reported, JavaScript!Verdict, JS!Verdict,
       JavaScript!Promise, JS!Promise

\* A call begins as the contract does, for the executor that is called and for
\* the one that never is.
LEMMA ContractInit == RegistryInit => Contract!Init /\ JavaScript!Contract!Init
<1> SUFFICES ASSUME RegistryInit PROVE Contract!Init /\ JavaScript!Contract!Init
  OBVIOUS
<1>1. Contract!Init
  BY PythonContractInit DEF RegistryInit
<1>2. JavaScript!Contract!Init
  <2>1. JS!JavaScriptAssumption
    BY RegistryAssumption DEF JavaScript!JavaScriptAssumption, JS!JavaScriptAssumption
  <2>2. JS!Init
    BY DEF RegistryInit, JavaScript!Init, JS!Init
  <2>3. JS!Contract!Init
    BY <2>1, <2>2, JS!JavaScriptContractInit
  <2> QED
    BY <2>3, SameView DEF JS!Contract!Init, JavaScript!Contract!Init
<1> QED
  BY <1>1, <1>2

\* Every step of the executor that runs is one the contract allows, and none of
\* its steps is seen by the other one's.
LEMMA ContractStep ==
    ASSUME RegistryInv, [RegistryNext]_registryVars
    PROVE  /\ [Contract!Next]_(Contract!vars)
           /\ [JavaScript!Contract!Next]_(JavaScript!Contract!vars)
<1>1. [Next]_vars /\ [JS!Next]_(JS!vars)
  BY OneRuns DEF RegistryInv, SupportedLanguage, scriptVars, JS!vars, JS!output
<1>2. [Contract!Next]_(Contract!vars)
  BY <1>1, PythonContractStep DEF RegistryInv
<1>3. [JavaScript!Contract!Next]_(JavaScript!Contract!vars)
  <2>1. JS!JavaScriptAssumption
    BY RegistryAssumption DEF JavaScript!JavaScriptAssumption, JS!JavaScriptAssumption
  <2>2. [JS!Contract!Next]_(JS!Contract!vars)
    BY <1>1, <2>1, JS!JavaScriptContractStep DEF RegistryInv
  <2> QED
    BY <2>2, SameView
    DEF JS!Contract!Next, JS!Contract!vars, JS!Contract!Program, JS!Contract!Decide,
        JS!Contract!OwnEnd, JS!Contract!Resolve, JS!Contract!Reject, JS!Contract!Limit,
        JavaScript!Contract!Next, JavaScript!Contract!vars, JavaScript!Contract!Program,
        JavaScript!Contract!Decide, JavaScript!Contract!OwnEnd, JavaScript!Contract!Resolve,
        JavaScript!Contract!Reject, JavaScript!Contract!Limit
<1> QED
  BY <1>2, <1>3

-----------------------------------------------------------------------------
(* The theorems.                                                           *)

\* Every call of execute satisfies the invariant.
LEMMA RegistryInvHolds == RegistrySpec => []RegistryInv
BY RegistryInvInit, RegistryInvStep, PTL DEF RegistrySpec

\* A call of execute keeps the types of its variables, and the executor of the
\* other language is left alone.
THEOREM TypesHold == RegistrySpec => []RegistryTypeOK
BY RegistryInvHolds, RegistryInvImplies, PTL

\* Python: a result that was not cut off stands for every byte written, although
\* the program is gone before its streams are read to their end.
THEOREM NothingIsLost == RegistrySpec => []NothingLost
<1>1. RegistryInv => NothingLost
  BY InvImplies DEF RegistryInv
<1> QED
  BY <1>1, RegistryInvHolds, PTL

\* Python: through every race at the end of a run, a limit is reported only of a
\* run that went over it, and what is reported completed or failed ended like
\* that by itself, a completed one with its output within the limit.
THEOREM VerdictAlwaysFits == RegistrySpec => []VerdictFits
<1>1. RegistryInv => VerdictFits
  BY InvImplies DEF RegistryInv
<1> QED
  BY <1>1, RegistryInvHolds, PTL

\* Python: what is kept of both streams goes over the limit by one data event at
\* most, decoded at its worst.
THEOREM OutputIsBounded == RegistrySpec => []OutputBounded
<1>1. RegistryInv => OutputBounded
  BY InvImplies DEF RegistryInv
<1> QED
  BY <1>1, RegistryInvHolds, PTL

\* Python: no timer outlives the run it belongs to.
THEOREM TimersAreCleared == RegistrySpec => []NoTimerLeft
<1>1. RegistryInv => NoTimerLeft
  BY InvImplies DEF RegistryInv
<1> QED
  BY <1>1, RegistryInvHolds, PTL

\* Python: a run without a failing file call leaves no directory behind.
THEOREM DirIsRemoved == RegistrySpec => []DirRemovedAfterRun
<1>1. RegistryInv => DirRemovedAfterRun
  BY InvImplies DEF RegistryInv
<1> QED
  BY <1>1, RegistryInvHolds, PTL

\* JavaScript: the console call that takes stdout over the limit is the last one
\* served, and its script is not reported as completed.
THEOREM StdoutIsBounded == RegistrySpec => []StdoutBounded
BY RegistryInvHolds, RegistryInvImplies, PTL

\* JavaScript: what is reported as completed ended by itself within its limit of
\* memory, and what is reported as a memory problem was one.
THEOREM ScriptVerdictAlwaysFits == RegistrySpec => []ScriptVerdictFits
BY RegistryInvHolds, RegistryInvImplies, PTL

\* JavaScript: a run that returns a result has disposed of its isolate.
THEOREM IsolateIsDisposed == RegistrySpec => []NoIsolateLeft
BY RegistryInvHolds, RegistryInvImplies, PTL

\* Whichever executor was handed out keeps the contract of CodeExecutor, with the
\* limits each of them enforces: output for Python, time and memory for JavaScript.
THEOREM ContractIsKept == RegistrySpec => ImplementsCodeExecutor
BY RegistryInvHolds, ContractInit, ContractStep, PTL
DEF RegistrySpec, ImplementsCodeExecutor, Contract!Spec, JavaScript!Contract!Spec
=============================================================================
