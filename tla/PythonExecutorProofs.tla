------------------------ MODULE PythonExecutorProofs ------------------------
(***************************************************************************)
(* What PythonExecutor guarantees for every limit, pipe size, width of a   *)
(* character, amount of output, number of overlapping reads and number of  *)
(* failing file calls.                                                     *)
(*                                                                         *)
(* PythonInv says what each phase of execute leaves behind (PhaseInv), why *)
(* a child can have been killed (KillInv), that a flag of time or memory   *)
(* has a cause (CauseInv), and what became of the bytes that were written  *)
(* (OutputInv).  The operations of the event loop come first, each with    *)
(* the lemma about the variables it changes.                               *)
(***************************************************************************)
EXTENDS PythonExecutor, TLAPS

\* Before the child is started nothing has happened, and once the promise has
\* settled nothing is armed.  A result was made from streams that had ended.
PhaseInv ==
    /\ pc \in {"new", "mkdtemp", "writeFile", "spawn"} => program = "none"
    /\ pc = "await" => program # "none"
    /\ pc \in {"new", "mkdtemp", "writeFile", "spawn", "await"} => result = "none"
    /\ pc \in {"rm", "done"} => result # "none"
    /\ pc # "await" => ~timeout /\ ~monitor
    /\ program = "none" =>
          ~helper /\ ~timedOut /\ ~memoryLimitExceeded /\ \A r \in Read : read[r] = "idle"
    /\ Settled => program # "running"
    /\ result \in Verdict =>
          /\ program \in Ending
          /\ ~helper
          /\ \A s \in Stream : pipe[s] = 0

\* Whoever kills the child sets a flag.
KillInv == program = "killed" => timedOut \/ memoryLimitExceeded \/ outputLimitExceeded

\* The timeout is not served early, and a high reading was of high memory.
CauseInv ==
    /\ timedOut => elapsed
    /\ memoryLimitExceeded => peaked
    /\ \A r \in Read : read[r] = "high" => peaked

\* Until a stream went over the limit every byte written is in the pipe or
\* kept, and afterwards nothing is kept any more.
OutputInv ==
    /\ \A s \in Stream : pipe[s] <= written[s]
    /\ ~outputLimitExceeded =>
          \A s \in Stream : kept[s] <= MaxOutput /\ written[s] <= kept[s] + pipe[s]
    /\ outputLimitExceeded => \E s \in Stream : kept[s] > MaxOutput
    /\ OutputBounded

\* What the result was made from does not change any more.
ResultInv ==
    /\ VerdictFits
    /\ NothingLost
    /\ DirRemovedAfterRun

PythonInv ==
    /\ TypeOK
    /\ PhaseInv
    /\ KillInv
    /\ CauseInv
    /\ OutputInv
    /\ ResultInv

-----------------------------------------------------------------------------
(* Decoding.                                                               *)

\* What % and \div are for the few widths a character of UTF-8 may have.
LEMMA Remainder ==
    ASSUME NEW n \in Nat
    PROVE  n % CharSize \in 0..CharSize - 1 /\ n % CharSize <= n
<1>1. CharSize \in {1, 2, 3, 4}
  BY PythonAssumption
<1>2. CASE CharSize = 1
  BY <1>2
<1>3. CASE CharSize = 2
  BY <1>3
<1>4. CASE CharSize = 3
  BY <1>4
<1>5. CASE CharSize = 4
  BY <1>5
<1> QED
  BY <1>1, <1>2, <1>3, <1>4, <1>5

\* A chunk is never shorter decoded than it was, and at most as long as if all
\* its bytes had been replaced.
LEMMA DecodedBounds ==
    ASSUME NEW from \in Nat, NEW n \in Nat
    PROVE  /\ Decoded(from, n) \in Nat
           /\ n <= Decoded(from, n)
           /\ Decoded(from, n) <= Replacement * n
<1> DEFINE rest == (CharSize - (from % CharSize)) % CharSize
           tail == IF n < rest THEN n ELSE rest
           head == (n - tail) % CharSize
<1>1. rest \in Nat
  <2> DEFINE m == CharSize - (from % CharSize)
  <2>1. m \in Nat
    BY Remainder, PythonAssumption
  <2> HIDE DEF m
  <2>2. m % CharSize \in 0..CharSize - 1
    BY <2>1, Remainder
  <2>3. m % CharSize \in Nat
    BY <2>2, PythonAssumption
  <2> QED
    BY <2>3 DEF m
<1>2. tail \in Nat /\ tail <= n
  BY <1>1
<1>3. head \in 0..3 /\ head <= n - tail
  <2> HIDE DEF rest, tail
  <2>1. n - tail \in Nat
    BY <1>2
  <2>2. 0..CharSize - 1 \subseteq 0..3
    BY PythonAssumption
  <2>3. head \in 0..CharSize - 1 /\ head <= n - tail
    <3> DEFINE m == n - tail
    <3> HIDE DEF m
    <3>1. m \in Nat
      BY <2>1 DEF m
    <3>2. m % CharSize \in 0..CharSize - 1 /\ m % CharSize <= m
      BY <3>1, Remainder
    <3> QED
      BY <3>2 DEF m
  <2> QED
    BY <2>2, <2>3
<1>4. Decoded(from, n) =
          3 * tail + (n - tail - head) + (IF head > 0 THEN 3 ELSE 0)
  BY DEF Decoded, Replacement
<1> HIDE DEF tail, head
<1> QED
  BY <1>2, <1>3, <1>4 DEF Replacement

-----------------------------------------------------------------------------
(* The invariant.                                                          *)

\* No run has begun.
LEMMA InvInit == Init => PythonInv
<1> SUFFICES ASSUME Init PROVE PythonInv
  OBVIOUS
<1> USE DEF Init
<1>1. TypeOK
  <2>1. /\ written \in [Stream -> 0..WriteBound]
        /\ pipe \in [Stream -> 0..PipeSize]
        /\ kept \in [Stream -> 0..MaxOutput + Replacement * PipeSize]
    BY PythonAssumption DEF Replacement
  <2>2. faults \in 0..FaultBound
    BY PythonAssumption
  <2> QED
    BY <2>1, <2>2 DEF TypeOK, Label
<1>2. PhaseInv
  BY DEF PhaseInv, Settled, Verdict, Ending
<1>3. KillInv /\ CauseInv
  BY DEF KillInv, CauseInv
<1>4. OutputInv
  BY PythonAssumption DEF OutputInv, OutputBounded, Stream, Replacement
<1>5. ResultInv
  BY DEF ResultInv, VerdictFits, NothingLost, DirRemovedAfterRun, Settled
<1> QED
  BY <1>1, <1>2, <1>3, <1>4, <1>5 DEF PythonInv

\* What a data event takes from its pipe and adds to what is kept.
LEMMA DataArrives ==
    ASSUME PythonInv, NEW s \in Stream, OnData(s)
    PROVE  \E n \in 1..pipe[s], d \in Nat :
              /\ n <= d /\ d <= Replacement * n
              /\ pipe' = [pipe EXCEPT ![s] = @ - n]
              /\ IF outputLimitExceeded
                 THEN UNCHANGED <<kept, outputLimitExceeded, program>>
                 ELSE /\ kept' = [kept EXCEPT ![s] = @ + d]
                      /\ IF kept[s] + d > MaxOutput
                         THEN outputLimitExceeded' = TRUE /\ Kill
                         ELSE UNCHANGED <<outputLimitExceeded, program>>
<1>1. written[s] - pipe[s] \in Nat
  BY DEF PythonInv, TypeOK, OutputInv
<1>2. PICK n \in 1..pipe[s] :
         /\ pipe' = [pipe EXCEPT ![s] = @ - n]
         /\ IF Keeps
            THEN /\ kept' = [kept EXCEPT ![s] = @ + Decoded(written[s] - pipe[s], n)]
                 /\ IF kept'[s] > MaxOutput
                    THEN outputLimitExceeded' = TRUE /\ Kill
                    ELSE UNCHANGED <<outputLimitExceeded, program>>
            ELSE UNCHANGED <<kept, outputLimitExceeded, program>>
  BY DEF OnData
<1> DEFINE d == Decoded(written[s] - pipe[s], n)
<1>3. n \in Nat
  BY DEF PythonInv, TypeOK
<1>4. d \in Nat /\ n <= d /\ d <= Replacement * n
  BY <1>1, <1>3, DecodedBounds
<1>5. kept' = [kept EXCEPT ![s] = @ + d] => kept'[s] = kept[s] + d
  BY DEF PythonInv, TypeOK
<1> HIDE DEF d
<1>6. /\ n <= d /\ d <= Replacement * n
      /\ pipe' = [pipe EXCEPT ![s] = @ - n]
      /\ IF outputLimitExceeded
         THEN UNCHANGED <<kept, outputLimitExceeded, program>>
         ELSE /\ kept' = [kept EXCEPT ![s] = @ + d]
              /\ IF kept[s] + d > MaxOutput
                 THEN outputLimitExceeded' = TRUE /\ Kill
                 ELSE UNCHANGED <<outputLimitExceeded, program>>
  BY <1>2, <1>4, <1>5 DEF Keeps, d
<1> QED
  BY <1>4, <1>6

\* Every step keeps the types.
LEMMA TypeOKStep ==
    ASSUME PythonInv, [Next]_vars
    PROVE  TypeOK'
<1> USE DEF PythonInv
<1>1. CASE Call \/ MakeWorkDir \/ WriteSource \/ Spawn \/ RemoveWorkDir
  <2>1. UNCHANGED <<helper, peaked, elapsed, written, pipe, kept, read, timedOut,
                    memoryLimitExceeded, outputLimitExceeded, result, faults>>
    BY <1>1 DEF Call, MakeWorkDir, WriteSource, Spawn, RemoveWorkDir, environment, flags
  <2>2. /\ pc' \in Label
        /\ workDir' \in BOOLEAN /\ timeout' \in BOOLEAN /\ monitor' \in BOOLEAN
        /\ program' \in {"none", "running"} \cup Ending
    BY <1>1 DEF Call, MakeWorkDir, WriteSource, Spawn, RemoveWorkDir, timers, TypeOK, Label
  <2> QED
    BY <2>1, <2>2 DEF TypeOK
<1>2. CASE SpawnFails \/ FileSystemFails
  <2>1. CASE SpawnFails
    BY <2>1 DEF SpawnFails, Settle, TypeOK, Label, environment, timers, flags
  <2>2. CASE FileSystemFails
    <3>1. faults' \in 0..FaultBound
      BY <2>2, PythonAssumption DEF FileSystemFails, TypeOK
    <3> QED
      BY <2>2, <3>1 DEF FileSystemFails, TypeOK, Label, environment, timers, flags
  <2> QED
    BY <1>2, <2>1, <2>2
<1>3. CASE OnClose
  <2>1. MapFinalizePayload \in Verdict
    BY DEF MapFinalizePayload, Verdict
  <2> QED
    BY <1>3, <2>1 DEF OnClose, Settle, TypeOK, Label, environment, timers, flags
<1>4. CASE OnTimeout
  BY <1>4 DEF OnTimeout, Kill, TypeOK, Ending, environment, timers, flags
<1>5. ASSUME NEW r \in Read, OnMonitor(r) \/ ReadStatus(r) \/ OnStatus(r)
      PROVE  TypeOK'
  <2>1. read' \in [Read -> {"idle", "asked", "high"}]
    BY <1>5 DEF OnMonitor, ReadStatus, OnStatus, TypeOK
  <2>2. program' \in {"none", "running"} \cup Ending /\ memoryLimitExceeded' \in BOOLEAN
    BY <1>5 DEF OnMonitor, ReadStatus, OnStatus, Kill, TypeOK, Ending, flags
  <2> QED
    BY <1>5, <2>1, <2>2 DEF OnMonitor, ReadStatus, OnStatus, TypeOK,
                            environment, timers, flags
<1>6. ASSUME NEW s \in Stream, OnData(s)
      PROVE  TypeOK'
  <2>1. PICK n \in 1..pipe[s], d \in Nat :
           /\ n <= d /\ d <= Replacement * n
           /\ pipe' = [pipe EXCEPT ![s] = @ - n]
           /\ IF outputLimitExceeded
              THEN UNCHANGED <<kept, outputLimitExceeded, program>>
              ELSE /\ kept' = [kept EXCEPT ![s] = @ + d]
                   /\ IF kept[s] + d > MaxOutput
                      THEN outputLimitExceeded' = TRUE /\ Kill
                      ELSE UNCHANGED <<outputLimitExceeded, program>>
    BY <1>6, DataArrives
  <2>2. pipe' \in [Stream -> 0..PipeSize]
    BY <2>1, PythonAssumption DEF TypeOK
  <2>3. kept' \in [Stream -> 0..MaxOutput + Replacement * PipeSize]
    BY <2>1, PythonAssumption DEF TypeOK, OutputInv, Replacement
  <2>4. /\ program' \in {"none", "running"} \cup Ending
        /\ outputLimitExceeded' \in BOOLEAN
    BY <2>1 DEF TypeOK, Kill, Ending
  <2> QED
    BY <1>6, <2>2, <2>3, <2>4 DEF OnData, TypeOK, environment, timers
<1>7. ASSUME NEW s \in Stream, Write(s)
      PROVE  TypeOK'
  BY <1>7, PythonAssumption DEF Write, TypeOK, timers, flags
<1>8. CASE UseMemory \/ StartHelper \/ HelperEnds \/ Exit \/ TimePasses
  <2>1. UNCHANGED <<pc, workDir, written, pipe, kept, timeout, monitor, read, timedOut,
                    memoryLimitExceeded, outputLimitExceeded, result, faults>>
    BY <1>8 DEF UseMemory, StartHelper, HelperEnds, Exit, TimePasses, environment, timers, flags
  <2>2. /\ program' \in {"none", "running"} \cup Ending
        /\ helper' \in BOOLEAN /\ peaked' \in BOOLEAN /\ elapsed' \in BOOLEAN
    BY <1>8 DEF UseMemory, StartHelper, HelperEnds, Exit, TimePasses, environment, TypeOK, Ending
  <2> QED
    BY <2>1, <2>2 DEF TypeOK
<1>9. CASE UNCHANGED vars
  BY <1>9 DEF vars, TypeOK, environment, timers, flags
<1> QED
  BY <1>1, <1>2, <1>3, <1>4, <1>5, <1>6, <1>7, <1>8, <1>9 DEF Next, Execute

\* Every step leads from one phase of execute to the next or stays in it.
LEMMA PhaseStep ==
    ASSUME PythonInv, [Next]_vars
    PROVE  PhaseInv'
<1> USE DEF PythonInv, PhaseInv, Settled
<1>1. CASE Call \/ MakeWorkDir \/ WriteSource \/ Spawn
  BY <1>1 DEF Call, MakeWorkDir, WriteSource, Spawn, Verdict, environment, timers, flags
<1>2. CASE SpawnFails \/ FileSystemFails
  BY <1>2 DEF SpawnFails, FileSystemFails, Settle, Verdict, environment, timers, flags
<1>3. CASE OnClose
  <2>1. MapFinalizePayload # "none"
    BY DEF MapFinalizePayload
  <2> QED
    BY <1>3, <2>1 DEF OnClose, Closable, Settle, Ending, environment, flags
<1>4. CASE RemoveWorkDir
  BY <1>4 DEF RemoveWorkDir, environment, timers, flags
<1>5. CASE OnTimeout
  BY <1>5 DEF OnTimeout, Kill, Verdict, Ending, environment
<1>6. ASSUME NEW r \in Read, OnMonitor(r) \/ ReadStatus(r) \/ OnStatus(r)
      PROVE  PhaseInv'
  <2>1. program # "none"
    BY <1>6 DEF OnMonitor, ReadStatus, OnStatus
  <2>2. program' # "none" /\ (program # "running" => program' = program)
    BY <1>6, <2>1 DEF OnMonitor, ReadStatus, OnStatus, Kill
  <2>3. UNCHANGED <<pc, helper, pipe, timeout, monitor, result>>
    BY <1>6 DEF OnMonitor, ReadStatus, OnStatus, environment, timers
  <2> QED
    BY <2>1, <2>2, <2>3 DEF Ending
<1>7. ASSUME NEW s \in Stream, OnData(s)
      PROVE  PhaseInv'
  <2>1. program # "none" /\ result = "none"
    BY <1>7 DEF OnData
  <2>2. program' # "none"
    BY <1>7, <2>1 DEF OnData, Kill
  <2> QED
    BY <1>7, <2>1, <2>2 DEF OnData, Verdict, environment, timers
<1>8. ASSUME NEW s \in Stream, Write(s)
      PROVE  PhaseInv'
  BY <1>8 DEF Write, Ending, timers, flags
<1>9. CASE UseMemory \/ StartHelper \/ HelperEnds \/ Exit
  <2>1. UNCHANGED <<pc, pipe, timeout, monitor, read, timedOut, memoryLimitExceeded, result>>
    BY <1>9 DEF UseMemory, StartHelper, HelperEnds, Exit, environment, timers, flags
  <2>2. \/ program = "running" /\ program' \in {"running", "exit 0", "exit 1"}
        \/ UNCHANGED program /\ helper /\ ~helper'
    BY <1>9 DEF UseMemory, StartHelper, HelperEnds, Exit
  <2> QED
    BY <2>1, <2>2 DEF Ending
<1>10. CASE TimePasses \/ UNCHANGED vars
  <2>1. UNCHANGED <<pc, program, helper, pipe, timeout, monitor, read, timedOut,
                    memoryLimitExceeded, result>>
    BY <1>10 DEF TimePasses, vars, environment, timers, flags
  <2> QED
    BY <2>1
<1> QED
  BY <1>1, <1>2, <1>3, <1>4, <1>5, <1>6, <1>7, <1>8, <1>9, <1>10 DEF Next, Execute

\* Three callbacks kill, and each has set its flag.
LEMMA KillStep ==
    ASSUME PythonInv, [Next]_vars
    PROVE  KillInv'
<1> USE DEF PythonInv, KillInv
<1>1. CASE Call \/ Execute \/ FileSystemFails
  BY <1>1 DEF Call, Execute, MakeWorkDir, WriteSource, Spawn, SpawnFails, OnClose,
              RemoveWorkDir, FileSystemFails, Settle, flags
<1>2. CASE OnTimeout
  BY <1>2 DEF OnTimeout
<1>3. ASSUME NEW r \in Read, OnMonitor(r) \/ ReadStatus(r) \/ OnStatus(r)
      PROVE  KillInv'
  BY <1>3 DEF OnMonitor, ReadStatus, OnStatus, flags
<1>4. ASSUME NEW s \in Stream, OnData(s)
      PROVE  KillInv'
  BY <1>4 DEF OnData
<1>5. ASSUME NEW s \in Stream, Write(s)
      PROVE  KillInv'
  BY <1>5 DEF Write, flags
<1>6. CASE UseMemory \/ StartHelper \/ HelperEnds \/ Exit \/ TimePasses
  BY <1>6 DEF UseMemory, StartHelper, HelperEnds, Exit, TimePasses, flags
<1>7. CASE UNCHANGED vars
  BY <1>7 DEF vars, flags
<1> QED
  BY <1>1, <1>2, <1>3, <1>4, <1>5, <1>6, <1>7 DEF Next

\* Neither time nor the most memory a program used goes back.
LEMMA EnvironmentGrows ==
    ASSUME PythonInv, [Next]_vars
    PROVE  (peaked => peaked') /\ (elapsed => elapsed')
<1>1. CASE UNCHANGED environment
  BY <1>1 DEF environment
<1>2. CASE ~(UNCHANGED environment)
  <2>1. \/ \E s \in Stream : Write(s)
        \/ UseMemory \/ StartHelper \/ HelperEnds \/ TimePasses
    BY <1>2 DEF Next, Execute, Call, MakeWorkDir, WriteSource, Spawn, SpawnFails, OnClose,
                RemoveWorkDir, FileSystemFails, OnTimeout, OnMonitor, ReadStatus, OnStatus,
                OnData, Exit, vars
  <2> QED
    BY <2>1 DEF Write, UseMemory, StartHelper, HelperEnds, TimePasses
<1> QED
  BY <1>1, <1>2

\* A flag of time or memory is set when its cause is there, and causes stay.
LEMMA CauseStep ==
    ASSUME PythonInv, [Next]_vars
    PROVE  CauseInv'
<1> USE DEF PythonInv, CauseInv
<1>1. (peaked => peaked') /\ (elapsed => elapsed')
  BY EnvironmentGrows
<1>2. CASE OnTimeout
  BY <1>1, <1>2 DEF OnTimeout
<1>3. ASSUME NEW r \in Read, OnMonitor(r) \/ ReadStatus(r) \/ OnStatus(r)
      PROVE  CauseInv'
  <2>1. timedOut' = timedOut
    BY <1>3 DEF OnMonitor, ReadStatus, OnStatus, flags
  <2>2. \A q \in Read : read'[q] = "high" => peaked
    BY <1>3 DEF OnMonitor, ReadStatus, OnStatus, TypeOK
  <2>3. memoryLimitExceeded' => peaked
    BY <1>3 DEF OnMonitor, ReadStatus, OnStatus, flags
  <2> QED
    BY <1>1, <2>1, <2>2, <2>3
<1>4. CASE UNCHANGED <<timedOut, memoryLimitExceeded, read>>
  BY <1>1, <1>4
<1> QED
  BY <1>2, <1>3, <1>4
  DEF Next, Execute, Call, MakeWorkDir, WriteSource, Spawn, SpawnFails, OnClose, RemoveWorkDir,
      FileSystemFails, OnData, Write, UseMemory, StartHelper, HelperEnds, Exit, TimePasses,
      vars, flags

\* The steps that do not touch the streams.
LEMMA StreamsUntouched ==
    ASSUME [Next]_vars
    PROVE  \/ \E s \in Stream : OnData(s) \/ Write(s)
           \/ UNCHANGED <<written, pipe, kept, outputLimitExceeded>>
BY DEF Next, Execute, Call, MakeWorkDir, WriteSource, Spawn, SpawnFails, OnClose,
       RemoveWorkDir, FileSystemFails, OnTimeout, OnMonitor, ReadStatus, OnStatus,
       UseMemory, StartHelper, HelperEnds, Exit, TimePasses, vars, environment, flags

\* Bytes are written, handed over and kept, or dropped once the limit is
\* exceeded; the event that exceeds it adds one chunk at most.
LEMMA OutputStep ==
    ASSUME PythonInv, [Next]_vars
    PROVE  OutputInv'
<1> USE DEF PythonInv
<1>1. ASSUME NEW s \in Stream, OnData(s)
      PROVE  OutputInv'
  <2>1. PICK n \in 1..pipe[s], d \in Nat :
           /\ n <= d /\ d <= Replacement * n
           /\ pipe' = [pipe EXCEPT ![s] = @ - n]
           /\ IF outputLimitExceeded
              THEN UNCHANGED <<kept, outputLimitExceeded, program>>
              ELSE /\ kept' = [kept EXCEPT ![s] = @ + d]
                   /\ IF kept[s] + d > MaxOutput
                      THEN outputLimitExceeded' = TRUE /\ Kill
                      ELSE UNCHANGED <<outputLimitExceeded, program>>
    BY <1>1, DataArrives
  <2>2. written' = written
    BY <1>1 DEF OnData, environment
  <2>3. \A t \in Stream : pipe'[t] \in Nat /\ pipe'[t] <= pipe[t]
    BY <2>1 DEF TypeOK
  <2>4. \A t \in Stream : pipe'[t] <= written'[t]
    BY <2>2, <2>3 DEF TypeOK, OutputInv
  <2>5. CASE outputLimitExceeded
    BY <2>1, <2>4, <2>5 DEF OutputInv, OutputBounded
  <2>6. CASE ~outputLimitExceeded
    <3>1. d <= 3 * PipeSize
      BY <2>1, PythonAssumption DEF TypeOK, Replacement
    <3>2. kept' = [kept EXCEPT ![s] = @ + d]
      BY <2>1, <2>6
    <3>3. OutputBounded'
      BY <2>1, <2>6, <3>1, <3>2, PythonAssumption
      DEF TypeOK, OutputInv, OutputBounded, Stream, Replacement
    <3>4. \A t \in Stream : written'[t] <= kept'[t] + pipe'[t]
      BY <2>1, <2>2, <2>6, <3>2 DEF TypeOK, OutputInv
    <3>5. CASE kept[s] + d > MaxOutput
      <4>1. kept'[s] > MaxOutput /\ outputLimitExceeded'
        BY <2>1, <2>6, <3>2, <3>5 DEF TypeOK
      <4> QED
        BY <2>4, <3>3, <4>1 DEF OutputInv
    <3>6. CASE ~(kept[s] + d > MaxOutput)
      <4>1. ~outputLimitExceeded'
        BY <2>1, <2>6, <3>6
      <4>2. \A t \in Stream : kept'[t] <= MaxOutput
        BY <2>6, <3>2, <3>6, PythonAssumption DEF TypeOK, OutputInv
      <4> QED
        BY <2>4, <3>3, <3>4, <4>1, <4>2 DEF OutputInv
    <3> QED
      BY <3>5, <3>6
  <2> QED
    BY <2>5, <2>6
<1>2. ASSUME NEW s \in Stream, Write(s)
      PROVE  OutputInv'
  <2>1. /\ kept' = kept /\ outputLimitExceeded' = outputLimitExceeded
        /\ written' = [written EXCEPT ![s] = @ + 1]
        /\ pipe' = [pipe EXCEPT ![s] = @ + 1]
    BY <1>2 DEF Write, flags
  <2> QED
    BY <2>1 DEF TypeOK, OutputInv, OutputBounded
<1>3. CASE UNCHANGED <<written, pipe, kept, outputLimitExceeded>>
  BY <1>3 DEF OutputInv, OutputBounded
<1> QED
  BY <1>1, <1>2, <1>3, StreamsUntouched

\* Once there is a result, neither the end of the child nor what it was made of
\* changes.
LEMMA ResultIsStable ==
    ASSUME PythonInv, [Next]_vars, result \in Verdict
    PROVE  /\ UNCHANGED <<program, peaked, elapsed, written, kept, outputLimitExceeded>>
           /\ result' \in {result, "threw"}
<1> USE DEF PythonInv
<1>1. /\ pc \in {"rm", "done"}
      /\ program \in Ending
      /\ ~helper
      /\ ~timeout
  BY DEF TypeOK, PhaseInv, Label, Verdict
<1>2. program # "running" /\ program # "none"
  BY <1>1 DEF Ending
<1>3. CASE RemoveWorkDir \/ FileSystemFails
  BY <1>3 DEF RemoveWorkDir, FileSystemFails, environment, flags
<1>4. ASSUME NEW r \in Read, OnMonitor(r) \/ ReadStatus(r) \/ OnStatus(r)
      PROVE  UNCHANGED <<program, peaked, elapsed, written, kept, outputLimitExceeded, result>>
  BY <1>2, <1>4 DEF OnMonitor, ReadStatus, OnStatus, Kill, environment, flags
<1>5. CASE UNCHANGED vars
  BY <1>5 DEF vars, environment, flags
<1>6. /\ ~Call /\ ~MakeWorkDir /\ ~WriteSource /\ ~Spawn /\ ~SpawnFails /\ ~OnClose
      /\ ~OnTimeout
      /\ \A s \in Stream : ~OnData(s) /\ ~Write(s)
      /\ ~UseMemory /\ ~StartHelper /\ ~HelperEnds /\ ~Exit /\ ~TimePasses
  BY <1>1, <1>2
  DEF Call, MakeWorkDir, WriteSource, Spawn, SpawnFails, OnClose, OnTimeout, OnData,
      Write, UseMemory, StartHelper, HelperEnds, Exit, TimePasses
<1> QED
  BY <1>3, <1>4, <1>5, <1>6 DEF Next, Execute

\* A result other than an error is made by OnClose alone.
LEMMA ResultAppears ==
    ASSUME PythonInv, [Next]_vars, result \notin Verdict, result' \in Verdict
    PROVE  OnClose
BY DEF PythonInv, Next, Execute, Call, MakeWorkDir, WriteSource, Spawn, SpawnFails, Settle,
       RemoveWorkDir, FileSystemFails, OnTimeout, OnMonitor, ReadStatus, OnStatus, OnData,
       Write, UseMemory, StartHelper, HelperEnds, Exit, TimePasses, vars, Verdict

\* What OnClose makes of the flags, when both streams have ended.
LEMMA CloseFits ==
    ASSUME PythonInv, OnClose
    PROVE  /\ result' = MapFinalizePayload
           /\ result' \in Verdict
           /\ UNCHANGED <<program, peaked, elapsed, written, kept, timedOut,
                          memoryLimitExceeded, outputLimitExceeded>>
           /\ ~outputLimitExceeded => \A s \in Stream :
                 kept[s] \in Nat /\ kept[s] <= MaxOutput /\ written[s] <= kept[s]
           /\ result' = "COMPLETED" => program = "exit 0" /\ ~outputLimitExceeded
           /\ result' = "RUNTIME_ERROR" => program = "exit 1"
           /\ result' = "TIMEOUT" => elapsed
           /\ result' = "MEMORY_LIMIT_EXCEEDED" => peaked
           /\ result' = "OUTPUT_LIMIT_EXCEEDED" => \E s \in Stream : kept[s] > MaxOutput
<1> USE DEF PythonInv
<1>1. result' = MapFinalizePayload /\ program \in Ending /\ \A s \in Stream : pipe[s] = 0
  BY DEF OnClose, Closable, Settle
<1>2. UNCHANGED <<program, peaked, elapsed, written, kept, timedOut, memoryLimitExceeded,
                  outputLimitExceeded>>
  BY DEF OnClose, environment, flags
<1>3. ~outputLimitExceeded => \A s \in Stream :
         kept[s] \in Nat /\ kept[s] <= MaxOutput /\ written[s] <= kept[s]
  BY <1>1, PythonAssumption DEF TypeOK, OutputInv, Replacement
<1>4. result' \in Verdict
  BY <1>1 DEF MapFinalizePayload, Verdict
<1>5. /\ result' = "COMPLETED" => program = "exit 0" /\ ~outputLimitExceeded
      /\ result' = "RUNTIME_ERROR" => program = "exit 1"
  BY <1>1 DEF MapFinalizePayload, KillInv, Ending
<1>6. /\ result' = "TIMEOUT" => elapsed
      /\ result' = "MEMORY_LIMIT_EXCEEDED" => peaked
      /\ result' = "OUTPUT_LIMIT_EXCEEDED" => outputLimitExceeded
  BY <1>1 DEF MapFinalizePayload, CauseInv
<1>7. outputLimitExceeded => \E s \in Stream : kept[s] > MaxOutput
  BY DEF OutputInv
<1> QED
  BY <1>1, <1>2, <1>3, <1>4, <1>5, <1>6, <1>7

\* A result fits when it is made, and goes on to fit.
LEMMA ResultStep ==
    ASSUME PythonInv, [Next]_vars
    PROVE  ResultInv'
<1> USE DEF PythonInv
<1>1. VerdictFits' /\ NothingLost'
  <2>1. CASE result \in Verdict
    <3>1. Settled
      BY <2>1 DEF Settled, PhaseInv, TypeOK, Label, Verdict
    <3>2. /\ UNCHANGED <<program, peaked, elapsed, written, kept, outputLimitExceeded>>
          /\ result' \in {result, "threw"}
      BY <2>1, ResultIsStable
    <3>3. VerdictFits'
      BY <3>2 DEF ResultInv, VerdictFits
    <3>4. NothingLost'
      BY <2>1, <3>1, <3>2 DEF ResultInv, NothingLost
    <3> QED
      BY <3>3, <3>4
  <2>2. CASE result' \in Verdict /\ result \notin Verdict
    <3>1. OnClose
      BY <2>2, ResultAppears
    <3> QED
      BY <3>1, CloseFits DEF TypeOK, VerdictFits, NothingLost
  <2>3. CASE result' \notin Verdict
    BY <2>3 DEF VerdictFits, NothingLost, Verdict
  <2> QED
    BY <2>1, <2>2, <2>3
<1>2. DirRemovedAfterRun'
  <2>1. CASE MakeWorkDir
    BY <2>1 DEF MakeWorkDir, DirRemovedAfterRun
  <2>2. CASE RemoveWorkDir
    BY <2>2 DEF RemoveWorkDir, DirRemovedAfterRun
  <2>3. CASE FileSystemFails
    BY <2>3, PythonAssumption DEF FileSystemFails, DirRemovedAfterRun, TypeOK
  <2>4. CASE ~MakeWorkDir /\ ~RemoveWorkDir /\ ~FileSystemFails
    <3>1. workDir' = workDir /\ faults' = faults
      BY <2>4 DEF Next, Execute, Call, WriteSource, Spawn, SpawnFails, OnClose, OnTimeout,
                  OnMonitor, ReadStatus, OnStatus, OnData, Write, UseMemory,
                  StartHelper, HelperEnds, Exit, TimePasses, vars
    <3>2. pc' = "done" => pc = "done"
      BY <2>4 DEF Next, Execute, Call, WriteSource, Spawn, SpawnFails, OnClose, OnTimeout,
                  OnMonitor, ReadStatus, OnStatus, OnData, Write, UseMemory,
                  StartHelper, HelperEnds, Exit, TimePasses, Settle, vars
    <3> QED
      BY <3>1, <3>2 DEF ResultInv, DirRemovedAfterRun
  <2> QED
    BY <2>1, <2>2, <2>3, <2>4
<1> QED
  BY <1>1, <1>2 DEF ResultInv

\* Every step preserves the invariant.
LEMMA InvStep ==
    ASSUME PythonInv, [Next]_vars
    PROVE  PythonInv'
BY TypeOKStep, PhaseStep, KillStep, CauseStep, OutputStep, ResultStep DEF PythonInv

\* What the invariant says of each of the properties.
LEMMA InvImplies ==
    ASSUME PythonInv
    PROVE  TypeOK /\ NothingLost /\ VerdictFits /\ OutputBounded /\ NoTimerLeft
           /\ DirRemovedAfterRun
BY DEF PythonInv, ResultInv, OutputInv, PhaseInv, NoTimerLeft

-----------------------------------------------------------------------------
(* The contract.                                                           *)

\* A limit that was exceeded stays exceeded: time does not go back, and output
\* is not taken back.
LEMMA ExceededGrows ==
    ASSUME PythonInv, [Next]_vars
    PROVE  Exceeded \subseteq Exceeded' /\ Exceeded' \subseteq Contract!Limit
<1> USE DEF PythonInv
<1>1. (peaked => peaked') /\ (elapsed => elapsed')
  BY EnvironmentGrows
<1>2. \A s \in Stream : kept[s] <= kept'[s] /\ written[s] <= written'[s]
  <2>1. ASSUME NEW s \in Stream, OnData(s)
        PROVE  \A t \in Stream : kept[t] <= kept'[t] /\ written[t] <= written'[t]
    <3>1. written' = written
      BY <2>1 DEF OnData, environment
    <3>2. \/ kept' = kept
          \/ \E d \in Nat : kept' = [kept EXCEPT ![s] = @ + d]
      BY <2>1, DataArrives
    <3> QED
      BY <3>1, <3>2, PythonAssumption DEF TypeOK, Replacement
  <2>2. ASSUME NEW s \in Stream, Write(s)
        PROVE  \A t \in Stream : kept[t] <= kept'[t] /\ written[t] <= written'[t]
    BY <2>2, PythonAssumption DEF Write, TypeOK, Replacement
  <2>3. CASE UNCHANGED <<written, pipe, kept, outputLimitExceeded>>
    BY <2>3, PythonAssumption DEF TypeOK, Replacement
  <2> QED
    BY <2>1, <2>2, <2>3, StreamsUntouched
<1>3. TypeOK'
  BY TypeOKStep
<1>4. (\E s \in Stream : written[s] > MaxOutput \/ kept[s] > MaxOutput) =>
          (\E s \in Stream : written'[s] > MaxOutput \/ kept'[s] > MaxOutput)
  BY <1>2, <1>3, PythonAssumption DEF TypeOK, Replacement
<1> QED
  BY <1>1, <1>4 DEF Exceeded, Went, Contract!Limit

\* A program that ended well is not killed any more.
LEMMA SuccessStays ==
    ASSUME PythonInv, [Next]_vars
    PROVE  Succeeded => Succeeded'
BY DEF PythonInv, PhaseInv, Succeeded, Next, Execute, Call, MakeWorkDir, WriteSource, Spawn, SpawnFails, OnClose,
       RemoveWorkDir, FileSystemFails, OnTimeout, OnMonitor, ReadStatus, OnStatus, OnData, Kill,
       Write, UseMemory, StartHelper, HelperEnds, Exit, TimePasses, vars

\* The verdict OnClose decides on is one the contract allows.
LEMMA CloseDecides ==
    ASSUME PythonInv, OnClose
    PROVE  Contract!Decide
<1> USE DEF PythonInv
<1>1. /\ result' \in Verdict
      /\ UNCHANGED <<program, peaked, elapsed, written, kept>>
      /\ ~outputLimitExceeded => \A s \in Stream :
            kept[s] \in Nat /\ kept[s] <= MaxOutput /\ written[s] <= kept[s]
      /\ result' = "COMPLETED" => program = "exit 0" /\ ~outputLimitExceeded
      /\ result' = "RUNTIME_ERROR" => program = "exit 1"
  BY CloseFits
<1>2. pc = "await" /\ pc' = "rm" /\ result = "none"
  BY DEF OnClose, Settle, PhaseInv
<1>3. Exceeded' = Exceeded /\ Succeeded' = Succeeded
  BY <1>1 DEF Exceeded, Succeeded, Went
<1>4. Reported = "none" /\ Reported' = result' /\ Promise' = Promise
  BY <1>1, <1>2 DEF Reported, Promise, Verdict
<1>5. result' = "COMPLETED" => Succeeded /\ "OUTPUT_LIMIT_EXCEEDED" \notin Exceeded
  <2>1. ASSUME ~outputLimitExceeded
        PROVE  \A s \in Stream : ~(written[s] > MaxOutput) /\ ~(kept[s] > MaxOutput)
    <3>1. \A s \in Stream : written[s] \in Nat
      BY PythonAssumption DEF TypeOK
    <3>2. \A s \in Stream : kept[s] \in Nat /\ kept[s] <= MaxOutput /\ written[s] <= kept[s]
      BY <1>1, <2>1
    <3>3. MaxOutput \in Nat
      BY PythonAssumption
    <3> QED
      BY <3>1, <3>2, <3>3
  <2> QED
    BY <1>1, <2>1 DEF Exceeded, Succeeded, Went
<1>6. result' = "RUNTIME_ERROR" => ~Succeeded
  BY <1>1 DEF Succeeded
<1>7. result' \notin {"COMPLETED", "RUNTIME_ERROR"} => result' \in Exceeded
  <2>1. /\ result' = "TIMEOUT" => elapsed
        /\ result' = "MEMORY_LIMIT_EXCEEDED" => peaked
        /\ result' = "OUTPUT_LIMIT_EXCEEDED" => \E s \in Stream : kept[s] > MaxOutput
    BY CloseFits
  <2> QED
    BY <1>1, <2>1 DEF Exceeded, Went, Verdict
<1>8. result' \in Contract!OwnEnd \cup Exceeded
  BY <1>5, <1>6, <1>7 DEF Contract!OwnEnd
<1> QED
  BY <1>3, <1>4, <1>8 DEF Contract!Decide

\* A run begins as the contract does.
LEMMA PythonContractInit == Init => Contract!Init
<1> SUFFICES ASSUME Init PROVE Contract!Init
  OBVIOUS
<1>1. \A s \in Stream : ~(written[s] > MaxOutput) /\ ~(kept[s] > MaxOutput)
  BY PythonAssumption DEF Init
<1> QED
  BY <1>1 DEF Init, Contract!Init, Exceeded, Succeeded, Went, Reported, Promise, Verdict

\* Every step of the executor is one the contract allows, or invisible to it.
LEMMA PythonContractStep ==
    ASSUME PythonInv, [Next]_vars
    PROVE  [Contract!Next]_(Contract!vars)
<1> USE DEF PythonInv, Reported, Promise
<1>1. CASE OnClose
  BY <1>1, CloseDecides DEF Contract!Next
<1>2. CASE RemoveWorkDir
  <2>1. Exceeded' = Exceeded /\ Succeeded' = Succeeded
    BY <1>2 DEF RemoveWorkDir, environment, flags, Exceeded, Succeeded, Went
  <2>2. pc = "rm" /\ pc' = "done" /\ result' = result /\ result \in {"threw"} \cup Verdict
    BY <1>2 DEF RemoveWorkDir, TypeOK, PhaseInv
  <2>3. CASE result = "threw"
    BY <2>1, <2>2, <2>3 DEF Contract!Next, Contract!Reject, Verdict
  <2>4. CASE result \in Verdict
    BY <2>1, <2>2, <2>4 DEF Contract!Next, Contract!Resolve, Verdict
  <2> QED
    BY <2>2, <2>3, <2>4
<1>3. CASE FileSystemFails
  <2>1. Exceeded' = Exceeded /\ Succeeded' = Succeeded
    BY <1>3 DEF FileSystemFails, environment, flags, Exceeded, Succeeded, Went
  <2>2. pc # "done" /\ pc' = "done" /\ result' = "threw"
    BY <1>3 DEF FileSystemFails
  <2> QED
    BY <2>1, <2>2 DEF Contract!Next, Contract!Reject, Verdict
<1>4. CASE SpawnFails
  <2>1. Exceeded' = Exceeded /\ Succeeded' = Succeeded
    BY <1>4 DEF SpawnFails, environment, flags, Exceeded, Succeeded, Went
  <2>2. pc = "spawn" /\ pc' = "rm" /\ result = "none" /\ result' = "threw"
    BY <1>4 DEF SpawnFails, Settle, PhaseInv
  <2> QED
    BY <2>1, <2>2 DEF Contract!vars, Verdict
<1>5. CASE ~OnClose /\ ~RemoveWorkDir /\ ~FileSystemFails /\ ~SpawnFails
  <2>1. result' = result
    BY <1>5 DEF Next, Execute, Call, MakeWorkDir, WriteSource, Spawn, OnTimeout, OnMonitor,
                ReadStatus, OnStatus, OnData, Write, UseMemory, StartHelper, HelperEnds,
                Exit, TimePasses, vars
  <2>2. pc' = "done" <=> pc = "done"
    BY <1>5 DEF Next, Execute, Call, MakeWorkDir, WriteSource, Spawn, OnTimeout, OnMonitor,
                ReadStatus, OnStatus, OnData, Write, UseMemory, StartHelper, HelperEnds,
                Exit, TimePasses, vars
  <2>3. CASE result \in Verdict
    <3>1. UNCHANGED <<program, peaked, elapsed, written, kept>>
      BY <2>3, ResultIsStable
    <3>2. Exceeded' = Exceeded /\ Succeeded' = Succeeded
      BY <3>1 DEF Exceeded, Succeeded, Went
    <3> QED
      BY <2>1, <2>2, <3>2 DEF Contract!vars
  <2>4. CASE result \notin Verdict
    <3>1. Exceeded' = Exceeded \cup Exceeded' /\ Exceeded' \in SUBSET Contract!Limit
      BY ExceededGrows
    <3>2. Succeeded' \in {Succeeded, TRUE}
      BY SuccessStays DEF Succeeded
    <3> QED
      BY <2>1, <2>2, <2>4, <3>1, <3>2 DEF Contract!Next, Contract!Program
  <2> QED
    BY <2>3, <2>4
<1> QED
  BY <1>1, <1>2, <1>3, <1>4, <1>5

-----------------------------------------------------------------------------
(* The theorems about an executor on its own.                              *)

\* Every run of the executor satisfies the invariant.
THEOREM PythonInvHolds == Spec => []PythonInv
BY InvInit, InvStep, PTL DEF Spec

\* Every run of the executor keeps the contract of CodeExecutor.
THEOREM PythonKeepsContract == Spec => Contract!Spec
BY PythonInvHolds, PythonContractInit, PythonContractStep, PTL DEF Spec, Contract!Spec
=============================================================================
