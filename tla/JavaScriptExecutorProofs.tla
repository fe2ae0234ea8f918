---------------------- MODULE JavaScriptExecutorProofs ----------------------
(***************************************************************************)
(* What JavaScriptExecutor guarantees for every limit, length of a console *)
(* call and amount of output.                                              *)
(*                                                                         *)
(* JavaScriptInv says what each phase of execute knows of the script and   *)
(* its isolate (PhaseInv), and how the length that is tested relates to    *)
(* the bytes that are kept (StdoutInv).                                    *)
(***************************************************************************)
EXTENDS JavaScriptExecutor, TLAPS

\* There is a result once the script is over, and a script that isolatedLog
\* stopped has lost its isolate; only then is memoryLimitExceeded set by the
\* time run settles.
PhaseInv ==
    /\ pc \in {"new", "compile", "run"} => result = "none"
    /\ pc = "finish" => result \in Verdict
    /\ pc = "done" => result # "none"
    /\ pc \in {"new", "compile"} => ended = "no" /\ ~memoryLimitExceeded
    /\ ended = "no" => ~heapOver
    /\ ended = "disposed" => isolate = "disposed"
    /\ pc = "run" /\ memoryLimitExceeded => isolate = "disposed"

\* The call that goes over the limit is the last one.
StdoutInv ==
    /\ stdout <= MaxOutput + MaxText
    /\ stdout > MaxOutput => ended = "disposed"
    /\ bytes <= MaxBytes * stdout

JavaScriptInv ==
    /\ TypeOK
    /\ PhaseInv
    /\ StdoutInv
    /\ VerdictFits
    /\ NoIsolateLeft

\* The bytes of a text are bounded by its length.
LEMMA BytesBound ==
    ASSUME JavaScriptAssumption,
           NEW length \in Nat, NEW n \in Nat, NEW bound \in Nat,
           NEW old \in 0..MaxBytes * length, NEW b \in n..MaxBytes * n,
           length + n <= bound
    PROVE  /\ old + b \in Nat
           /\ old + b <= MaxBytes * (length + n)
           /\ MaxBytes * (length + n) <= MaxBytes * bound
<1>1. MaxBytes \in {1, 2, 3}
  BY DEF JavaScriptAssumption
<1>2. CASE MaxBytes = 1
  BY <1>2
<1>3. CASE MaxBytes = 2
  BY <1>3
<1>4. CASE MaxBytes = 3
  BY <1>4
<1> QED
  BY <1>1, <1>2, <1>3, <1>4

\* No run has begun.
LEMMA InvInit == JavaScriptAssumption /\ Init => JavaScriptInv
<1> SUFFICES ASSUME JavaScriptAssumption, Init PROVE JavaScriptInv
  OBVIOUS
<1>1. MaxBytes * WriteBound \in Nat /\ MaxBytes * 0 = 0
  BY DEF JavaScriptAssumption
<1>2. TypeOK
  <2>1. 0 \in 0..WriteBound /\ 0 \in 0..MaxBytes * WriteBound
    BY <1>1 DEF JavaScriptAssumption
  <2> QED
    BY <2>1 DEF Init, TypeOK, Label, Ended
<1>3. PhaseInv /\ VerdictFits /\ NoIsolateLeft
  BY DEF Init, PhaseInv, VerdictFits, NoIsolateLeft, Verdict
<1>4. StdoutInv
  BY <1>1 DEF JavaScriptAssumption, Init, StdoutInv
<1> QED
  BY <1>2, <1>3, <1>4 DEF JavaScriptInv

\* A call of console.log.
LEMMA LogStep ==
    ASSUME JavaScriptAssumption, JavaScriptInv, Log
    PROVE  JavaScriptInv'
<1> USE DEF JavaScriptInv
<1>1. PICK n \in 1..MaxText :
         /\ stdout + n <= WriteBound
         /\ stdout' = stdout + n
         /\ \E b \in n..MaxBytes * n : bytes' = bytes + b
         /\ IF TooLong(stdout + n)
            THEN /\ memoryLimitExceeded' = TRUE
                 /\ isolate' = "disposed"
                 /\ ended' = "disposed"
            ELSE UNCHANGED <<memoryLimitExceeded, isolate, ended>>
  BY DEF Log
<1>2. PICK b \in n..MaxBytes * n : bytes' = bytes + b
  BY <1>1
<1>3. pc = "run" /\ isolate = "live" /\ ended = "no" /\ result = "none"
  BY DEF Log, Running, PhaseInv
<1>4. UNCHANGED <<pc, heapOver, stderr, result>>
  BY DEF Log
<1>5. n \in Nat /\ stdout \in Nat /\ WriteBound \in Nat /\ bytes \in 0..MaxBytes * stdout
  BY DEF JavaScriptAssumption, TypeOK, StdoutInv
<1>6. /\ bytes' \in Nat
      /\ bytes' <= MaxBytes * stdout'
      /\ bytes' <= MaxBytes * WriteBound
  <2>1. /\ bytes + b \in Nat
        /\ bytes + b <= MaxBytes * (stdout + n)
        /\ MaxBytes * (stdout + n) <= MaxBytes * WriteBound
    BY <1>1, <1>5, BytesBound
  <2>2. MaxBytes * (stdout + n) \in Nat /\ MaxBytes * WriteBound \in Nat
    BY <1>5 DEF JavaScriptAssumption
  <2> QED
    BY <1>1, <1>2, <2>1, <2>2
<1>7. TypeOK'
  <2>1. stdout' \in 0..WriteBound /\ bytes' \in 0..MaxBytes * WriteBound
    BY <1>1, <1>5, <1>6 DEF JavaScriptAssumption
  <2>2. memoryLimitExceeded' \in BOOLEAN /\ isolate' \in {"none", "live", "disposed"}
        /\ ended' \in Ended
    BY <1>1 DEF TypeOK, Ended
  <2> QED
    BY <1>4, <2>1, <2>2 DEF TypeOK
<1>8. PhaseInv' /\ VerdictFits' /\ NoIsolateLeft'
  BY <1>1, <1>3, <1>4 DEF PhaseInv, VerdictFits, NoIsolateLeft, Verdict
<1>9. StdoutInv'
  <2>1. stdout <= MaxOutput
    BY <1>3, <1>5 DEF StdoutInv, JavaScriptAssumption
  <2>2. stdout' <= MaxOutput + MaxText
    BY <1>1, <1>5, <2>1 DEF JavaScriptAssumption
  <2>3. stdout' > MaxOutput => ended' = "disposed"
    BY <1>1 DEF TooLong
  <2> QED
    BY <1>6, <2>2, <2>3 DEF StdoutInv
<1> QED
  BY <1>7, <1>8, <1>9

\* A call of console.error.
LEMMA StderrGrows ==
    ASSUME JavaScriptAssumption, JavaScriptInv, Error
    PROVE  stderr' \in 0..MaxBytes * WriteBound /\ stderr <= stderr'
<1>1. PICK b \in 1..MaxBytes * MaxText :
         stderr + b <= MaxBytes * WriteBound /\ stderr' = stderr + b
  BY DEF Error
<1>2. MaxBytes * WriteBound \in Nat /\ MaxBytes * MaxText \in Nat
  BY DEF JavaScriptAssumption
<1>3. stderr \in Nat
  BY <1>2 DEF JavaScriptInv, TypeOK
<1> QED
  BY <1>1, <1>2, <1>3

\* Every step preserves the invariant.
LEMMA InvStep ==
    ASSUME JavaScriptAssumption, JavaScriptInv, [Next]_vars
    PROVE  JavaScriptInv'
<1> USE DEF JavaScriptInv
<1>1. CASE Call \/ Compile \/ CompileFails
  <2>1. UNCHANGED <<ended, heapOver, stdout, stderr, bytes, memoryLimitExceeded>>
    BY <1>1 DEF Call, Compile, CompileFails, output
  <2>2. /\ pc \in {"new", "compile"}
        /\ \/ pc' \in {"compile", "run"} /\ result' = result
           \/ pc' = "done" /\ result' = "threw"
        /\ \/ isolate' = isolate
           \/ pc = "compile" /\ isolate' = "live"
    BY <1>1 DEF Call, Compile, CompileFails
  <2>3. ended' = "disposed" => isolate' = "disposed"
    BY <2>1, <2>2 DEF PhaseInv
  <2>4. TypeOK' /\ StdoutInv'
    BY <2>1, <2>2 DEF TypeOK, Label, StdoutInv
  <2>5. PhaseInv' /\ VerdictFits' /\ NoIsolateLeft'
    BY <2>1, <2>2, <2>3 DEF PhaseInv, VerdictFits, NoIsolateLeft, Verdict
  <2> QED
    BY <2>4, <2>5
<1>2. CASE Log
  BY <1>2, LogStep
<1>3. CASE Error
  <2>1. UNCHANGED <<pc, isolate, ended, heapOver, stdout, bytes, memoryLimitExceeded, result>>
    BY <1>3 DEF Error
  <2>2. stderr' \in 0..MaxBytes * WriteBound
    BY <1>3, StderrGrows
  <2> QED
    BY <2>1, <2>2 DEF TypeOK, PhaseInv, StdoutInv, VerdictFits, NoIsolateLeft
<1>4. CASE ScriptEnds
  <2>1. /\ pc = "run" /\ isolate = "live" /\ ended = "no" /\ result = "none"
        /\ ~memoryLimitExceeded
    BY <1>4 DEF ScriptEnds, Running, PhaseInv
  <2>2. UNCHANGED <<pc, stdout, stderr, bytes, memoryLimitExceeded, result>>
    BY <1>4 DEF ScriptEnds, output
  <2>3. /\ ended' \in {"value", "error", "timeout", "memory"}
        /\ isolate' \in {"live", "disposed"}
        /\ heapOver' \in BOOLEAN
    BY <1>4, <2>1 DEF ScriptEnds
  <2> QED
    BY <2>1, <2>2, <2>3 DEF TypeOK, Ended, PhaseInv, StdoutInv, VerdictFits, NoIsolateLeft, Verdict
<1>5. CASE Resolved
  <2>1. /\ pc = "run" /\ ended = "value" /\ pc' = "finish"
        /\ memoryLimitExceeded' = heapOver
        /\ UNCHANGED <<isolate, ended, heapOver, stdout, stderr, bytes>>
    BY <1>5 DEF Resolved, output
  <2>2. result' = IF heapOver THEN "MEMORY_LIMIT_EXCEEDED" ELSE "COMPLETED"
    BY <1>5 DEF Resolved, MapFinalizePayload, timedOut, outputLimitExceeded
  <2> QED
    BY <2>1, <2>2 DEF TypeOK, Label, PhaseInv, StdoutInv, VerdictFits, NoIsolateLeft, Verdict
<1>6. CASE Rejected
  <2>1. pc = "run" /\ UNCHANGED <<isolate, ended, heapOver, stdout, stderr, bytes, memoryLimitExceeded>>
    BY <1>6 DEF Rejected, output
  <2>2. \/ pc' = "finish" /\ result' = "RUNTIME_ERROR"
        \/ pc' = "done" /\ result' = "threw"
    BY <1>6 DEF Rejected, MapFinalizePayload, timedOut, outputLimitExceeded, PhaseInv
  <2> QED
    BY <2>1, <2>2 DEF TypeOK, Label, PhaseInv, StdoutInv, VerdictFits, NoIsolateLeft, Verdict
<1>7. CASE CleanUp
  BY <1>7 DEF CleanUp, output, TypeOK, Label, PhaseInv, StdoutInv, VerdictFits, NoIsolateLeft,
              Verdict
<1>8. CASE UNCHANGED vars
  BY <1>8 DEF vars, output, TypeOK, PhaseInv, StdoutInv, VerdictFits, NoIsolateLeft
<1> QED
  BY <1>1, <1>2, <1>3, <1>4, <1>5, <1>6, <1>7, <1>8 DEF Next

\* What the invariant says of stdout.
LEMMA StdoutFits ==
    ASSUME JavaScriptAssumption, JavaScriptInv
    PROVE  StdoutBounded
<1>1. /\ stdout \in Nat /\ bytes \in Nat /\ MaxOutput \in Nat /\ MaxText \in Nat
      /\ MaxBytes \in {1, 2, 3}
  BY DEF JavaScriptAssumption, JavaScriptInv, TypeOK
<1>2. bytes <= MaxBytes * stdout /\ stdout <= MaxOutput + MaxText
  BY DEF JavaScriptInv, StdoutInv
<1>3. bytes <= MaxBytes * (MaxOutput + MaxText)
  <2>1. CASE MaxBytes = 1
    BY <1>1, <1>2, <2>1
  <2>2. CASE MaxBytes = 2
    BY <1>1, <1>2, <2>2
  <2>3. CASE MaxBytes = 3
    BY <1>1, <1>2, <2>3
  <2> QED
    BY <1>1, <2>1, <2>2, <2>3
<1>4. stdout > MaxOutput => ~Running /\ result # "COMPLETED"
  BY DEF JavaScriptInv, StdoutInv, VerdictFits, Running
<1> QED
  BY <1>3, <1>4 DEF StdoutBounded

-----------------------------------------------------------------------------
(* The contract.                                                           *)

\* A run begins as the contract does.
LEMMA JavaScriptContractInit ==
    ASSUME JavaScriptAssumption, Init
    PROVE  Contract!Init
<1>1. ~(bytes > MaxOutput) /\ ~(stderr > MaxOutput)
  BY DEF Init, JavaScriptAssumption
<1> QED
  BY <1>1 DEF Init, Contract!Init, Exceeded, Succeeded, Went, Reported, Promise, Verdict

\* Until the script has ended, its output and its end are all there is to see.
LEMMA ScriptRuns ==
    ASSUME JavaScriptAssumption, JavaScriptInv, Log \/ Error \/ ScriptEnds
    PROVE  Contract!Program
<1> USE DEF JavaScriptInv
<1>1. ended = "no" /\ ~heapOver /\ pc = "run" /\ result = "none"
  BY DEF Log, Error, ScriptEnds, Running, PhaseInv
<1>2. Exceeded \subseteq {"OUTPUT_LIMIT_EXCEEDED"}
      /\ (Exceeded # {} => bytes > MaxOutput \/ stderr > MaxOutput)
  BY <1>1 DEF Exceeded, Went
<1>3. bytes > MaxOutput \/ stderr > MaxOutput => bytes' > MaxOutput \/ stderr' > MaxOutput
  <2>1. /\ bytes \in Nat /\ stderr \in Nat /\ MaxOutput \in Nat
        /\ MaxBytes * WriteBound \in Nat
    BY DEF TypeOK, JavaScriptAssumption
  <2>2. CASE Log
    <3>1. PICK n \in 1..MaxText : \E b \in n..MaxBytes * n : bytes' = bytes + b
      BY <2>2 DEF Log
    <3>2. bytes' \in Nat /\ bytes <= bytes'
      BY <2>1, <3>1 DEF JavaScriptAssumption
    <3>3. stderr' = stderr
      BY <2>2 DEF Log
    <3> QED
      BY <2>1, <3>2, <3>3
  <2>3. CASE Error
    <3>1. stderr' \in Nat /\ stderr <= stderr'
      BY <2>1, <2>3, StderrGrows
    <3>2. bytes' = bytes
      BY <2>3 DEF Error
    <3> QED
      BY <2>1, <3>1, <3>2
  <2>4. CASE ScriptEnds
    BY <2>4 DEF ScriptEnds, output
  <2> QED
    BY <2>2, <2>3, <2>4
<1>4. Exceeded' = Exceeded \cup Exceeded' /\ Exceeded' \in SUBSET Contract!Limit
  BY <1>2, <1>3 DEF Exceeded, Went, Contract!Limit
<1>5. Succeeded' \in {Succeeded, TRUE}
  BY <1>1 DEF Succeeded
<1>6. UNCHANGED <<pc, result>>
  BY DEF Log, Error, ScriptEnds
<1>7. Reported = "none" /\ UNCHANGED <<Reported, Promise>>
  BY <1>1, <1>6 DEF Reported, Promise, Verdict
<1> QED
  BY <1>4, <1>5, <1>7 DEF Contract!Program

\* What is made of a script that ended is what the contract allows.
LEMMA VerdictIsAllowed ==
    ASSUME JavaScriptAssumption, JavaScriptInv, Resolved \/ Rejected
    PROVE  Contract!Decide \/ Contract!Reject
<1> USE DEF JavaScriptInv
<1>1. pc = "run" /\ result = "none" /\ UNCHANGED <<ended, heapOver, bytes, stderr>>
  BY DEF Resolved, Rejected, output, PhaseInv
<1>2. Exceeded' = Exceeded /\ Succeeded' = Succeeded
  BY <1>1 DEF Exceeded, Succeeded, Went
<1>3. Reported = "none" /\ Promise = "pending"
  BY <1>1 DEF Reported, Promise, Verdict
<1>4. CASE Resolved
  <2>1. /\ ended = "value" /\ pc' = "finish"
        /\ result' = IF heapOver THEN "MEMORY_LIMIT_EXCEEDED" ELSE "COMPLETED"
    BY <1>4 DEF Resolved, MapFinalizePayload, timedOut, outputLimitExceeded
  <2>2. /\ Succeeded
        /\ heapOver => "MEMORY_LIMIT_EXCEEDED" \in Exceeded
        /\ ~heapOver => Exceeded \cap {"TIMEOUT", "MEMORY_LIMIT_EXCEEDED"} = {}
    BY <2>1 DEF Exceeded, Succeeded, Went
  <2>3. Reported' = result' /\ Promise' = "pending"
    BY <2>1 DEF Reported, Promise, Verdict
  <2>4. result' \in Contract!OwnEnd \cup Exceeded
    BY <2>1, <2>2 DEF Contract!OwnEnd
  <2> QED
    BY <1>2, <1>3, <2>3, <2>4 DEF Contract!Decide
<1>5. CASE Rejected
  <2>1. /\ ended # "value"
        /\ \/ pc' = "finish" /\ result' = "RUNTIME_ERROR"
           \/ pc' = "done" /\ result' = "threw"
    BY <1>5 DEF Rejected, MapFinalizePayload, timedOut, outputLimitExceeded, PhaseInv
  <2>2. CASE pc' = "finish" /\ result' = "RUNTIME_ERROR"
    <3>1. Reported' = "RUNTIME_ERROR" /\ Promise' = "pending"
      BY <2>2 DEF Reported, Promise, Verdict
    <3>2. "RUNTIME_ERROR" \in Contract!OwnEnd
      BY <2>1 DEF Contract!OwnEnd, Succeeded
    <3> QED
      BY <1>2, <1>3, <3>1, <3>2 DEF Contract!Decide
  <2>3. CASE pc' = "done" /\ result' = "threw"
    <3>1. Reported' = "none" /\ Promise' = "rejected"
      BY <2>3 DEF Reported, Promise, Verdict
    <3> QED
      BY <1>2, <1>3, <3>1 DEF Contract!Reject
  <2> QED
    BY <2>1, <2>2, <2>3
<1> QED
  BY <1>4, <1>5

\* Every step of the executor is one the contract allows, or invisible to it.
LEMMA JavaScriptContractStep ==
    ASSUME JavaScriptAssumption, JavaScriptInv, [Next]_vars
    PROVE  [Contract!Next]_(Contract!vars)
<1> USE DEF JavaScriptInv
<1>1. CASE Log \/ Error \/ ScriptEnds
  BY <1>1, ScriptRuns DEF Contract!Next
<1>2. CASE Resolved \/ Rejected
  BY <1>2, VerdictIsAllowed DEF Contract!Next
<1>3. CASE Call \/ Compile \/ UNCHANGED vars
  <2>1. UNCHANGED <<ended, heapOver, bytes, stderr, result>> /\ (pc' = "done" <=> pc = "done")
    BY <1>3 DEF Call, Compile, vars, output
  <2>2. UNCHANGED <<Exceeded, Succeeded, Reported, Promise>>
    BY <2>1 DEF Exceeded, Succeeded, Went, Reported, Promise
  <2> QED
    BY <2>2 DEF Contract!vars
<1>4. CASE CompileFails
  <2>1. /\ UNCHANGED <<ended, heapOver, bytes, stderr>>
        /\ pc = "compile" /\ pc' = "done" /\ result' = "threw"
    BY <1>4 DEF CompileFails, output
  <2>2. Exceeded' = Exceeded /\ Succeeded' = Succeeded
    BY <2>1 DEF Exceeded, Succeeded, Went
  <2> QED
    BY <2>1, <2>2 DEF Contract!Next, Contract!Reject, Reported, Promise, Verdict
<1>5. CASE CleanUp
  <2>1. /\ UNCHANGED <<ended, heapOver, bytes, stderr, result>>
        /\ pc = "finish" /\ pc' = "done" /\ result \in Verdict
    BY <1>5 DEF CleanUp, output, PhaseInv
  <2>2. Exceeded' = Exceeded /\ Succeeded' = Succeeded
    BY <2>1 DEF Exceeded, Succeeded, Went
  <2> QED
    BY <2>1, <2>2 DEF Contract!Next, Contract!Resolve, Reported, Promise, Verdict
<1> QED
  BY <1>1, <1>2, <1>3, <1>4, <1>5 DEF Next
=============================================================================
