------------------------- MODULE CodeSessionsProofs -------------------------
(***************************************************************************)
(* What autosave guarantees for any number of sessions, overlapping saves, *)
(* run requests and retries.                                               *)
(*                                                                         *)
(* SaveInv says what a save has done to the row by the await it is at,     *)
(* RunInv that the version of a row a run looked at is behind it, TimeInv  *)
(* that the row has its updatedAt from the save that committed last.  The  *)
(* statement that changes a row, in Update or in a save that fails after   *)
(* it committed, has a lemma of its own (CommitStep).                      *)
(***************************************************************************)
EXTENDS CodeSessions, FiniteSetTheorems, TLAPS

\* A save has stored nothing before its update, and nothing newer than the row.
SaveInv ==
    \A a \in Save :
        /\ pc[a] \in {"new", "update"} => stored[a] = 0
        /\ pc[a] # "new" => session[a] \in Session
        /\ pc[a] = "update" => newSource[a] \notin TooLong
        /\ pc[a] # "done" => answer[a] = NoAnswer
        /\ pc[a] = "read" => stored[a] # 0
        /\ stored[a] # 0 => stored[a] > 1 /\ stored[a] <= version[session[a]]

\* A run has seen nothing newer than the row.
RunInv ==
    \A r \in Run :
        /\ session[r] = None => requested[r] = 0 /\ ran[r] = 0
        /\ session[r] # None =>
              requested[r] <= version[session[r]] /\ ran[r] <= version[session[r]]
        /\ ran[r] # 0 => ran[r] >= requested[r]

\* The time of a row that was saved is that of the save that made its version.
TimeInv ==
    \A s \in Session :
        version[s] > 1 =>
            \E b \in Save :
                /\ session[b] = s
                /\ stored[b] = version[s]
                /\ updatedAt[s] = sentAt[b]

SessionsInv ==
    /\ TypeOK
    /\ SaveInv
    /\ RunInv
    /\ TimeInv
    /\ LastSaveWins
    /\ VersionCountsSaves
    /\ ReadBackNotOlder
    /\ StoredFits

\* The saves of a session that committed.
Stored(s) == {a \in Save : stored[a] # 0 /\ session[a] = s}

-----------------------------------------------------------------------------
(* The invariant.                                                          *)

\* There are finitely many saves.
LEMMA SaveCount == Cardinality(Save) \in Nat
BY SessionsAssumption, FS_CardinalityType

\* Nothing is stored.
LEMMA InvInit == Init => SessionsInv
<1> SUFFICES ASSUME Init PROVE SessionsInv
  OBVIOUS
<1> USE DEF Init
<1>1. TypeOK
  <2>1. 0 \in 0..Cardinality(Save) + 1 /\ 0 \in 0..AttemptBound
    BY SaveCount, SessionsAssumption
  <2>2. NoAnswer \in Answer
    BY <2>1 DEF NoAnswer, Answer
  <2> QED
    BY <2>1, <2>2 DEF TypeOK
<1>2. SaveInv /\ RunInv /\ TimeInv
  BY SessionsAssumption DEF SaveInv, RunInv, TimeInv
<1>3. LastSaveWins /\ VersionCountsSaves /\ ReadBackNotOlder
  BY DEF LastSaveWins, VersionCountsSaves, ReadBackNotOlder, NoAnswer, None
<1>4. StoredFits
  BY SessionsAssumption DEF StoredFits
<1> QED
  BY <1>1, <1>2, <1>3, <1>4 DEF SessionsInv

\* A session that was not there has no saves.
LEMMA CreateStep ==
    ASSUME SessionsInv, NEW s \in Session, NEW lang \in Language, NEW source \in Source,
           CreateSession(s, lang, source)
    PROVE  SessionsInv'
<1> USE DEF SessionsInv
<1>1. /\ version[s] = 0 /\ source \notin TooLong
      /\ language' = [language EXCEPT ![s] = lang]
      /\ sourceCode' = [sourceCode EXCEPT ![s] = source]
      /\ version' = [version EXCEPT ![s] = 1]
      /\ updatedAt' = [updatedAt EXCEPT ![s] = now]
  BY DEF CreateSession, FitsLimit
<1>2. UNCHANGED <<pc, session, newLanguage, newSource, now, sentAt, stored, answer, requested,
                  ran, attempts>>
  BY DEF CreateSession, request, time, runs
<1>3. \A a \in Save : stored[a] # 0 => session[a] \in Session \ {s}
  BY <1>1 DEF TypeOK, SaveInv
<1>4. TypeOK'
  <2>1. 1 \in 0..Cardinality(Save) + 1
    BY SaveCount
  <2>2. /\ language' \in [Session -> Language \cup {None}]
        /\ sourceCode' \in [Session -> Source \cup {None}]
        /\ version' \in [Session -> 0..Cardinality(Save) + 1]
        /\ updatedAt' \in [Session -> Nat]
    BY <1>1, <2>1 DEF TypeOK
  <2> QED
    BY <1>2, <2>2 DEF TypeOK
<1>5. SaveInv'
  BY <1>1, <1>2, <1>3 DEF TypeOK, SaveInv
<1>6. RunInv'
  <2>1. \A t \in Session : version[t] \in Nat /\ version'[t] \in Nat /\ version[t] <= version'[t]
    BY <1>1, SaveCount DEF TypeOK
  <2>2. ASSUME NEW r \in Run, session[r] # None
        PROVE  requested[r] <= version'[session[r]] /\ ran[r] <= version'[session[r]]
    <3>1. session[r] \in Session /\ requested[r] \in Nat /\ ran[r] \in Nat
      BY <2>2 DEF TypeOK
    <3> QED
      BY <2>1, <2>2, <3>1 DEF RunInv
  <2> QED
    BY <1>2, <2>2 DEF RunInv
<1>7. LastSaveWins'
  BY <1>1, <1>2, <1>3 DEF TypeOK, LastSaveWins
<1>8. VersionCountsSaves'
  <2>1. \A t \in Session : Stored(t)' = Stored(t)
    BY <1>2 DEF Stored
  <2>2. Stored(s) = {}
    BY <1>3 DEF Stored
  <2>3. version'[s] = 1 + Cardinality(Stored(s))
    BY <1>1, <2>2, FS_EmptySet DEF TypeOK
  <2>4. ASSUME NEW t \in Session \ {s}, version'[t] # 0
        PROVE  version'[t] = 1 + Cardinality(Stored(t))
    BY <1>1, <2>4 DEF TypeOK, VersionCountsSaves, Stored
  <2> QED
    BY <2>1, <2>3, <2>4 DEF VersionCountsSaves, Stored
<1>9. ReadBackNotOlder' /\ StoredFits'
  BY <1>1, <1>2 DEF TypeOK, ReadBackNotOlder, StoredFits
<1>10. TimeInv'
  <2>1. \A t \in Session \ {s} : version'[t] = version[t] /\ updatedAt'[t] = updatedAt[t]
    BY <1>1 DEF TypeOK
  <2>2. version'[s] = 1
    BY <1>1 DEF TypeOK
  <2> QED
    BY <1>2, <2>1, <2>2 DEF TimeInv
<1> QED
  BY <1>4, <1>5, <1>6, <1>7, <1>8, <1>9, <1>10

\* A request that arrives is either too long or goes on to its update.
LEMMA StartStep ==
    ASSUME SessionsInv, NEW a \in Save, NEW s \in Session, NEW lang \in Language,
           NEW source \in Source, StartSave(a, s, lang, source)
    PROVE  SessionsInv'
<1> USE DEF SessionsInv
<1>1. /\ pc[a] = "new"
      /\ session' = [session EXCEPT ![a] = s]
      /\ newLanguage' = [newLanguage EXCEPT ![a] = lang]
      /\ newSource' = [newSource EXCEPT ![a] = source]
  BY DEF StartSave
<1>2. UNCHANGED <<language, sourceCode, version, updatedAt, stored, requested, ran, attempts>>
  BY DEF StartSave, row, runs
<1>3. \/ /\ source \notin TooLong
         /\ pc' = [pc EXCEPT ![a] = "update"] /\ answer' = answer
      \/ /\ pc' = [pc EXCEPT ![a] = "done"]
         /\ answer' = [answer EXCEPT ![a] = [code |-> "413", updatedAt |-> 0]]
  BY DEF StartSave, AnswerWith, FitsLimit
<1>4. stored[a] = 0 /\ a \notin Run
  BY <1>1, SessionsAssumption DEF SaveInv
<1>5. now' \in Nat /\ sentAt' \in [Save -> Nat] /\ \A b \in Save \ {a} : sentAt'[b] = sentAt[b]
  BY DEF StartSave, time, TypeOK
<1>6. TypeOK'
  <2>1. [code |-> "413", updatedAt |-> 0] \in Answer
    BY DEF Answer
  <2>2. answer' \in [Save -> Answer] /\ pc' \in [Save -> {"new", "update", "read", "done"}]
    BY <1>3, <2>1 DEF TypeOK
  <2>3. /\ session' \in [Save \cup Run -> Session \cup {None}]
        /\ newLanguage' \in [Save -> Language \cup {None}]
        /\ newSource' \in [Save -> Source \cup {None}]
    BY <1>1 DEF TypeOK
  <2> QED
    BY <1>2, <1>5, <2>2, <2>3 DEF TypeOK
<1>7. SaveInv'
  BY <1>1, <1>2, <1>3, <1>4 DEF TypeOK, SaveInv
<1>8. RunInv'
  BY <1>1, <1>2, <1>4 DEF TypeOK, RunInv
<1>9. LastSaveWins'
  BY <1>1, <1>2, <1>4 DEF TypeOK, LastSaveWins
<1>10. VersionCountsSaves'
  <2>1. \A t \in Session : Stored(t)' = Stored(t)
    BY <1>1, <1>2, <1>4 DEF TypeOK, Stored
  <2> QED
    BY <1>2, <2>1 DEF VersionCountsSaves, Stored
<1>11. ReadBackNotOlder' /\ TimeInv'
  <2>1. \A b \in Save : stored[b] # 0 =>
           b # a /\ session'[b] = session[b] /\ sentAt'[b] = sentAt[b]
    BY <1>1, <1>4, <1>5 DEF TypeOK
  <2>2. \A b \in Save : answer'[b].code = "200" => answer'[b] = answer[b]
    BY <1>3 DEF TypeOK
  <2>3. \A b \in Save : stored[b] \in Nat
    BY SaveCount DEF TypeOK
  <2>4. ReadBackNotOlder'
    <3>1. SUFFICES ASSUME NEW c \in Save, answer'[c].code = "200"
                   PROVE  \E b \in Save : /\ session'[b] = session'[c]
                                         /\ stored'[c] \in 1..stored'[b]
                                         /\ answer'[c].updatedAt = sentAt'[b]
      BY DEF ReadBackNotOlder
    <3>2. PICK b \in Save : /\ session[b] = session[c]
                            /\ stored[c] \in 1..stored[b]
                            /\ answer[c].updatedAt = sentAt[b]
      BY <2>2, <3>1 DEF ReadBackNotOlder
    <3>3. stored[b] # 0 /\ stored[c] # 0
      BY <2>3, <3>2
    <3> QED
      BY <1>2, <2>1, <2>2, <3>1, <3>2, <3>3
  <2>5. TimeInv'
    <3>1. ASSUME NEW t \in Session, version[t] > 1
          PROVE  \E b \in Save : /\ session'[b] = t
                                /\ stored[b] = version[t]
                                /\ updatedAt[t] = sentAt'[b]
      <4>1. PICK b \in Save : session[b] = t /\ stored[b] = version[t] /\ updatedAt[t] = sentAt[b]
        BY <3>1 DEF TimeInv
      <4>2. stored[b] # 0
        BY <3>1, <4>1
      <4> QED
        BY <2>1, <4>1, <4>2
    <3> QED
      BY <1>2, <3>1 DEF TimeInv
  <2> QED
    BY <2>4, <2>5
<1>12. StoredFits'
  BY <1>2 DEF StoredFits
<1> QED
  BY <1>6, <1>7, <1>8, <1>9, <1>10, <1>11, <1>12

\* A save that commits becomes the newest version of its row, and counts.
LEMMA CommitStep ==
    ASSUME SessionsInv, NEW a \in Save, pc[a] = "update", version[session[a]] # 0,
           UpdateRow(a, session[a]), UNCHANGED <<request, time, runs>>,
           \/ pc' = [pc EXCEPT ![a] = "read"] /\ answer' = answer
           \/ AnswerWith(a, "500", 0)
    PROVE  SessionsInv'
<1> USE DEF SessionsInv
<1>0. PICK s \in Session : s = session[a]
  BY DEF SaveInv
<1>1. /\ language' = [language EXCEPT ![s] = newLanguage[a]]
      /\ sourceCode' = [sourceCode EXCEPT ![s] = newSource[a]]
      /\ version' = [version EXCEPT ![s] = version[s] + 1]
      /\ updatedAt' = [updatedAt EXCEPT ![s] = sentAt[a]]
      /\ stored' = [stored EXCEPT ![a] = version[s] + 1]
  BY <1>0 DEF UpdateRow
<1>2. UNCHANGED <<session, newLanguage, newSource, now, sentAt, requested, ran, attempts>>
  BY DEF request, time, runs
<1>3. \/ pc' = [pc EXCEPT ![a] = "read"] /\ answer' = answer
      \/ /\ pc' = [pc EXCEPT ![a] = "done"]
         /\ answer' = [answer EXCEPT ![a] = [code |-> "500", updatedAt |-> 0]]
  BY DEF AnswerWith
<1>4. stored[a] = 0 /\ newSource[a] \notin TooLong
  BY DEF SaveInv
<1>5. \A t \in Session : version[t] \in Nat
  BY SaveCount DEF TypeOK
<1>6. \A t \in Session : version'[t] # 0 => version'[t] = 1 + Cardinality(Stored(t)')
  <2>1. \A t \in Session \ {s} : Stored(t)' = Stored(t)
    BY <1>0, <1>1, <1>2 DEF TypeOK, Stored
  <2>2. Stored(s)' = Stored(s) \cup {a}
    BY <1>0, <1>1, <1>2, <1>4, <1>5 DEF TypeOK, Stored
  <2>3. a \notin Stored(s) /\ IsFiniteSet(Stored(s))
    BY <1>4, SessionsAssumption, FS_Subset DEF Stored
  <2>4. Cardinality(Stored(s)') = Cardinality(Stored(s)) + 1
    BY <2>2, <2>3, FS_AddElement
  <2>5. version'[s] = version[s] + 1 /\ version[s] = 1 + Cardinality(Stored(s))
    BY <1>0, <1>1, <1>4 DEF TypeOK, VersionCountsSaves, Stored
  <2>6. Cardinality(Stored(s)) \in Nat
    BY <2>3, FS_CardinalityType
  <2>7. version'[s] = 1 + Cardinality(Stored(s)')
    BY <2>4, <2>5, <2>6
  <2>8. \A t \in Session \ {s} : version'[t] = version[t]
    BY <1>1 DEF TypeOK
  <2>9. ASSUME NEW t \in Session \ {s}, version'[t] # 0
        PROVE  version'[t] = 1 + Cardinality(Stored(t)')
    BY <2>1, <2>8, <2>9 DEF VersionCountsSaves, Stored
  <2> QED
    BY <2>7, <2>9
<1>7. version[s] + 1 \in 0..Cardinality(Save) + 1
  <2>1. Cardinality(Stored(s)') \in Nat /\ Cardinality(Stored(s)') <= Cardinality(Save)
    BY SessionsAssumption, FS_Subset, FS_CardinalityType DEF Stored
  <2>2. version'[s] = version[s] + 1
    BY <1>1, <1>4 DEF TypeOK
  <2>3. version'[s] = 1 + Cardinality(Stored(s)')
    BY <1>5, <1>6, <2>2
  <2> QED
    BY <1>4, <1>5, <2>1, <2>2, <2>3, SaveCount
<1>8. TypeOK'
  <2>1. /\ language' \in [Session -> Language \cup {None}]
        /\ sourceCode' \in [Session -> Source \cup {None}]
        /\ updatedAt' \in [Session -> Nat]
    BY <1>1 DEF TypeOK
  <2>2. /\ version' \in [Session -> 0..Cardinality(Save) + 1]
        /\ stored' \in [Save -> 0..Cardinality(Save) + 1]
    BY <1>1, <1>7 DEF TypeOK
  <2>3. [code |-> "500", updatedAt |-> 0] \in Answer
    BY DEF Answer
  <2>4. answer' \in [Save -> Answer] /\ pc' \in [Save -> {"new", "update", "read", "done"}]
    BY <1>3, <2>3 DEF TypeOK
  <2> QED
    BY <1>2, <2>1, <2>2, <2>4 DEF TypeOK
<1>9. \A t \in Session : version'[t] \in Nat /\ version[t] <= version'[t]
  BY <1>1, <1>5 DEF TypeOK
<1>10. stored'[a] = version[s] + 1 /\ version'[s] = version[s] + 1
  BY <1>1, <1>4 DEF TypeOK
<1>11. \A b \in Save \ {a} : stored'[b] = stored[b] /\ stored[b] \in Nat
  BY <1>1, SaveCount DEF TypeOK
<1>12. SaveInv'
  <2>1. ASSUME NEW b \in Save \ {a}, stored'[b] # 0
        PROVE  /\ session[b] \in Session /\ stored'[b] > 1
               /\ stored'[b] <= version'[session[b]] /\ stored'[b] <= version[session[b]]
    <3>1. session[b] \in Session /\ stored[b] > 1 /\ stored[b] <= version[session[b]]
      BY <1>11, <2>1 DEF SaveInv
    <3> QED
      BY <1>5, <1>9, <1>11, <2>1, <3>1
  <2>2. stored'[a] > 1 /\ stored'[a] <= version'[session[a]]
    BY <1>0, <1>5, <1>9, <1>10
  <2>3. \A b \in Save :
          /\ b # a => pc'[b] = pc[b] /\ answer'[b] = answer[b]
          /\ pc'[a] \in {"read", "done"} /\ (pc'[a] # "done" => answer'[a] = NoAnswer)
    BY <1>3 DEF TypeOK, SaveInv
  <2>4. ASSUME NEW b \in Save \ {a}
        PROVE  /\ pc'[b] \in {"new", "update"} => stored'[b] = 0
               /\ pc'[b] # "new" => session'[b] \in Session
               /\ pc'[b] = "update" => newSource'[b] \notin TooLong
               /\ pc'[b] # "done" => answer'[b] = NoAnswer
               /\ pc'[b] = "read" => stored'[b] # 0
               /\ stored'[b] # 0 => stored'[b] > 1 /\ stored'[b] <= version'[session'[b]]
    BY <1>2, <1>11, <2>1, <2>3 DEF SaveInv
  <2>5. /\ session'[a] \in Session /\ stored'[a] # 0
        /\ stored'[a] > 1 /\ stored'[a] <= version'[session'[a]]
        /\ pc'[a] \notin {"new", "update"} /\ (pc'[a] # "done" => answer'[a] = NoAnswer)
    BY <1>0, <1>2, <1>4, <2>2, <2>3
  <2> QED
    BY <2>4, <2>5 DEF SaveInv
<1>13. RunInv'
  <2>1. ASSUME NEW r \in Run, session[r] # None
        PROVE  requested[r] <= version'[session[r]] /\ ran[r] <= version'[session[r]]
    <3>1. session[r] \in Session /\ requested[r] \in Nat /\ ran[r] \in Nat
      BY <2>1, SaveCount DEF TypeOK
    <3> QED
      BY <1>5, <1>9, <2>1, <3>1 DEF RunInv
  <2> QED
    BY <1>2, <2>1 DEF RunInv
<1>14. LastSaveWins'
  <2>1. ASSUME NEW b \in Save \ {a}, stored'[b] # 0, stored'[b] = version'[session[b]]
        PROVE  /\ language'[session[b]] = newLanguage[b]
               /\ sourceCode'[session[b]] = newSource[b]
    <3>1. session[b] \in Session /\ stored[b] <= version[session[b]]
      BY <1>11, <2>1 DEF SaveInv
    <3>2. session[b] # s
      BY <1>5, <1>10, <1>11, <2>1, <3>1
    <3> QED
      BY <1>1, <1>11, <2>1, <3>1, <3>2 DEF TypeOK, LastSaveWins
  <2>2. language'[s] = newLanguage[a] /\ sourceCode'[s] = newSource[a]
    BY <1>1, <1>4 DEF TypeOK
  <2> QED
    BY <1>0, <1>2, <2>1, <2>2 DEF LastSaveWins
<1>15. ReadBackNotOlder'
  <2>1. \A b \in Save : answer'[b].code = "200" => b # a /\ answer'[b] = answer[b]
    BY <1>3 DEF TypeOK, SaveInv, NoAnswer, None
  <2>2. SUFFICES ASSUME NEW c \in Save, answer'[c].code = "200"
                 PROVE  \E b \in Save : /\ session'[b] = session'[c]
                                       /\ stored'[c] \in 1..stored'[b]
                                       /\ answer'[c].updatedAt = sentAt'[b]
    BY DEF ReadBackNotOlder
  <2>3. PICK b \in Save : /\ session[b] = session[c]
                          /\ stored[c] \in 1..stored[b]
                          /\ answer[c].updatedAt = sentAt[b]
    BY <2>1, <2>2 DEF ReadBackNotOlder
  <2>4. b # a /\ c # a
    BY <1>4, <1>11, <2>1, <2>2, <2>3
  <2> QED
    BY <1>2, <1>11, <2>1, <2>2, <2>3, <2>4
<1>16. StoredFits'
  BY <1>1, <1>4 DEF TypeOK, StoredFits
<1>17. VersionCountsSaves'
  BY <1>6 DEF VersionCountsSaves, Stored
<1>18. TimeInv'
  <2>1. updatedAt'[s] = sentAt'[a] /\ session'[a] = s /\ stored'[a] = version'[s]
    BY <1>0, <1>1, <1>2, <1>10 DEF TypeOK
  <2>2. ASSUME NEW t \in Session \ {s}, version'[t] > 1
        PROVE  \E b \in Save : session'[b] = t /\ stored'[b] = version'[t] /\ updatedAt'[t] = sentAt'[b]
    <3>1. version'[t] = version[t] /\ updatedAt'[t] = updatedAt[t]
      BY <1>1 DEF TypeOK
    <3>2. PICK b \in Save : session[b] = t /\ stored[b] = version[t] /\ updatedAt[t] = sentAt[b]
      BY <2>2, <3>1 DEF TimeInv
    <3>3. b # a
      BY <1>0, <3>2
    <3> QED
      BY <1>2, <1>11, <3>1, <3>2, <3>3
  <2> QED
    BY <2>1, <2>2 DEF TimeInv
<1> QED
  BY <1>17, <1>18, <1>8, <1>12, <1>13, <1>14, <1>15, <1>16

\* An answer that leaves the row alone.
LEMMA AnswerStep ==
    ASSUME SessionsInv, NEW a \in Save, pc[a] \in {"update", "read"},
           UNCHANGED <<row, stored, request, time, runs>>,
           NEW code \in {"200", "404", "500"}, NEW at \in Nat,
           code = "200" => \E b \in Save : /\ session[b] = session[a]
                                          /\ stored[a] \in 1..stored[b]
                                          /\ at = sentAt[b],
           AnswerWith(a, code, at)
    PROVE  SessionsInv'
<1> USE DEF SessionsInv
<1>1. /\ pc' = [pc EXCEPT ![a] = "done"]
      /\ answer' = [answer EXCEPT ![a] = [code |-> code, updatedAt |-> at]]
  BY DEF AnswerWith
<1>2. UNCHANGED <<language, sourceCode, version, updatedAt, session, newLanguage, newSource, now,
                  sentAt, stored, requested, ran, attempts>>
  BY DEF row, request, time, runs
<1>3. TypeOK'
  <2>1. [code |-> code, updatedAt |-> at] \in Answer
    BY DEF Answer
  <2>2. answer' \in [Save -> Answer] /\ pc' \in [Save -> {"new", "update", "read", "done"}]
    BY <1>1, <2>1 DEF TypeOK
  <2> QED
    BY <1>2, <2>2 DEF TypeOK
<1>4. SaveInv'
  BY <1>1, <1>2 DEF TypeOK, SaveInv
<1>5. ReadBackNotOlder'
  BY <1>1, <1>2 DEF TypeOK, ReadBackNotOlder
<1>6. RunInv' /\ TimeInv' /\ LastSaveWins' /\ VersionCountsSaves' /\ StoredFits'
  BY <1>2 DEF RunInv, TimeInv, LastSaveWins, VersionCountsSaves, StoredFits
<1> QED
  BY <1>3, <1>4, <1>5, <1>6

\* The four ways a save goes on.
LEMMA SaveStep ==
    ASSUME SessionsInv, NEW a \in Save, Update(a) \/ ReadBack(a) \/ SaveFails(a)
    PROVE  SessionsInv'
<1>1. CASE Update(a)
  <2>1. CASE version[session[a]] = 0
    BY <1>1, <2>1, AnswerStep, SaveCount DEF Update
  <2>2. CASE version[session[a]] # 0
    BY <1>1, <2>2, CommitStep DEF Update
  <2> QED
    BY <2>1, <2>2
<1>2. CASE ReadBack(a)
  <2>1. pc[a] = "read" /\ session[a] \in Session
    BY <1>2 DEF ReadBack, SessionsInv, SaveInv
  <2>2. /\ \A b \in Save : stored[b] \in Nat
        /\ version[session[a]] \in Nat /\ updatedAt[session[a]] \in Nat
    BY <2>1, SaveCount DEF SessionsInv, TypeOK
  <2>3. stored[a] > 1 /\ stored[a] <= version[session[a]]
    BY <2>1 DEF SessionsInv, SaveInv
  <2>4. PICK b \in Save : /\ session[b] = session[a]
                          /\ stored[b] = version[session[a]]
                          /\ updatedAt[session[a]] = sentAt[b]
    BY <2>1, <2>2, <2>3 DEF SessionsInv, TimeInv
  <2>5. stored[a] \in 1..stored[b]
    BY <2>2, <2>3, <2>4
  <2>6. AnswerWith(a, "200", updatedAt[session[a]]) /\ UNCHANGED <<row, request, time, stored, runs>>
    BY <1>2 DEF ReadBack
  <2> QED
    BY <2>1, <2>2, <2>4, <2>5, <2>6, AnswerStep
<1>3. CASE SaveFails(a)
  <2>1. CASE UNCHANGED <<row, stored>>
    BY <1>3, <2>1, AnswerStep, SaveCount DEF SaveFails
  <2>2. CASE pc[a] = "update" /\ version[session[a]] # 0 /\ UpdateRow(a, session[a])
    BY <1>3, <2>2, CommitStep DEF SaveFails
  <2> QED
    BY <1>3, <2>1, <2>2 DEF SaveFails
<1> QED
  BY <1>1, <1>2, <1>3

\* A run that was asked for, or is started, has looked at the row as it is.
LEMMA RunStep ==
    ASSUME SessionsInv, NEW r \in Run,
           LoadSession(r) \/ \E s \in Session : RequestRun(r, s)
    PROVE  SessionsInv' /\ \A q \in Run : ran'[q] >= ran[q]
<1> USE DEF SessionsInv
<1>1. UNCHANGED <<language, sourceCode, version, updatedAt, pc, newLanguage, newSource, now, sentAt,
                  stored, answer>>
  BY DEF LoadSession, RequestRun, row, request, time
<1>2. \A q \in Save \cup Run : session'[q] # session[q] => q = r
  BY DEF LoadSession, RequestRun, TypeOK, request
<1>3. r \notin Save
  BY SessionsAssumption
<1>4. \A a \in Save : session'[a] = session[a]
  BY <1>2, <1>3
<1>5. \A s \in Session : Stored(s)' = Stored(s)
  BY <1>1, <1>4 DEF Stored
<1>6. SaveInv' /\ TimeInv' /\ LastSaveWins' /\ ReadBackNotOlder' /\ StoredFits'
  BY <1>1, <1>4 DEF SaveInv, TimeInv, LastSaveWins, ReadBackNotOlder, StoredFits
<1>7. VersionCountsSaves'
  BY <1>1, <1>5 DEF VersionCountsSaves, Stored
<1>8. CASE LoadSession(r)
  <2>1. /\ session[r] \in Session
        /\ session' = session /\ requested' = requested
        /\ ran' = [ran EXCEPT ![r] = version[session[r]]]
    BY <1>8 DEF LoadSession, TypeOK, request
  <2>2. version[session[r]] \in 0..Cardinality(Save) + 1 /\ version[session[r]] >= ran[r]
    BY <1>8, <2>1, SaveCount DEF LoadSession, TypeOK, RunInv
  <2>3. attempts' \in [Run -> 0..AttemptBound]
    BY <1>8, SessionsAssumption DEF LoadSession, TypeOK
  <2>4. ran' \in [Run -> 0..Cardinality(Save) + 1]
    BY <2>1, <2>2 DEF TypeOK
  <2>5. TypeOK'
    BY <1>1, <2>1, <2>3, <2>4 DEF TypeOK
  <2>6. \A q \in Run : ran'[q] >= ran[q]
    BY <2>1, <2>2, SaveCount DEF TypeOK
  <2>7. requested[r] <= version[session[r]] /\ version[session[r]] \in Nat /\ requested[r] \in Nat
    BY <1>8, <2>2, SaveCount DEF LoadSession, RunInv, TypeOK
  <2>8. ran'[r] = version[session[r]] /\ \A q \in Run \ {r} : ran'[q] = ran[q]
    BY <2>1 DEF TypeOK
  <2>9. RunInv'
    <3>1. ASSUME NEW q \in Run \ {r}
          PROVE  /\ session'[q] = None => requested'[q] = 0 /\ ran'[q] = 0
                 /\ session'[q] # None =>
                       requested'[q] <= version'[session'[q]] /\ ran'[q] <= version'[session'[q]]
                 /\ ran'[q] # 0 => ran'[q] >= requested'[q]
      BY <1>1, <2>1, <2>8 DEF RunInv
    <3>2. /\ session'[r] # None
          /\ requested'[r] <= version'[session'[r]] /\ ran'[r] <= version'[session'[r]]
          /\ ran'[r] >= requested'[r]
      BY <1>1, <1>8, <2>1, <2>7, <2>8 DEF LoadSession
    <3> QED
      BY <3>1, <3>2 DEF RunInv
  <2> QED
    BY <1>6, <1>7, <2>5, <2>6, <2>9
<1>9. ASSUME NEW s \in Session, RequestRun(r, s)
      PROVE  SessionsInv' /\ \A q \in Run : ran'[q] >= ran[q]
  <2>1. /\ session[r] = None /\ s # None
        /\ session' = [session EXCEPT ![r] = s]
        /\ requested' = [requested EXCEPT ![r] = version[s]]
        /\ ran' = ran /\ attempts' = attempts
    BY <1>9, SessionsAssumption DEF RequestRun
  <2>2. TypeOK'
    BY <1>1, <2>1 DEF TypeOK
  <2>3. ran[r] = 0
    BY <2>1 DEF RunInv
  <2>4. version[s] \in Nat /\ \A q \in Run : ran[q] \in Nat
    BY SaveCount DEF TypeOK
  <2>5. RunInv'
    BY <1>1, <2>1, <2>3, <2>4 DEF TypeOK, RunInv
  <2> QED
    BY <1>6, <1>7, <2>1, <2>2, <2>4, <2>5
<1> QED
  BY <1>8, <1>9

\* A version that was run is not run again from an older row.
NoOlderRun == \A r \in Run : ran'[r] >= ran[r]

\* Every step preserves the invariant, and no run goes back.
LEMMA InvStep ==
    ASSUME SessionsInv, [Next]_vars
    PROVE  SessionsInv' /\ [NoOlderRun]_ran
<1>1. ASSUME NEW s \in Session, NEW lang \in Language, NEW source \in Source,
             CreateSession(s, lang, source)
      PROVE  SessionsInv' /\ UNCHANGED ran
  BY <1>1, CreateStep DEF CreateSession, runs
<1>2. ASSUME NEW a \in Save, NEW s \in Session, NEW lang \in Language, NEW source \in Source,
             StartSave(a, s, lang, source)
      PROVE  SessionsInv' /\ UNCHANGED ran
  BY <1>2, StartStep DEF StartSave, runs
<1>3. ASSUME NEW a \in Save, Update(a) \/ ReadBack(a) \/ SaveFails(a)
      PROVE  SessionsInv' /\ UNCHANGED ran
  BY <1>3, SaveStep DEF Update, ReadBack, SaveFails, runs
<1>4. ASSUME NEW r \in Run, LoadSession(r) \/ \E s \in Session : RequestRun(r, s)
      PROVE  SessionsInv' /\ NoOlderRun
  BY <1>4, RunStep DEF NoOlderRun
<1>5. CASE UNCHANGED vars
  <2>1. UNCHANGED <<language, sourceCode, version, updatedAt, pc, session, newLanguage, newSource,
                    now, sentAt, stored, answer, requested, ran, attempts>>
    BY <1>5 DEF vars, row, request, time, runs
  <2> QED
    BY <2>1 DEF SessionsInv, TypeOK, SaveInv, RunInv, TimeInv, LastSaveWins, VersionCountsSaves,
                ReadBackNotOlder, StoredFits
<1> QED
  BY <1>1, <1>2, <1>3, <1>4, <1>5 DEF Next

-----------------------------------------------------------------------------
(* The theorems.                                                           *)

\* Every behaviour satisfies the invariant.
LEMMA SessionsInvHolds == Spec => []SessionsInv
BY InvInit, InvStep, PTL DEF Spec

\* The rows and what requests know of them keep their types; in particular no
\* version runs ahead of the number of saves.
THEOREM TypesHold == Spec => []TypeOK
BY SessionsInvHolds, PTL DEF SessionsInv

\* However many saves overlap, fail or are retried, a row is the last save that
\* committed, language and source of the same request.
THEOREM LastSaveAlwaysWins == Spec => []LastSaveWins
BY SessionsInvHolds, PTL DEF SessionsInv

\* A version counts the saves that committed, those answered 500 included.
THEOREM VersionAlwaysCounts == Spec => []VersionCountsSaves
BY SessionsInvHolds, PTL DEF SessionsInv

\* The updated_at a client is answered is that of its own save or of one that
\* committed after it.
THEOREM ReadBackIsNotOlder == Spec => []ReadBackNotOlder
BY SessionsInvHolds, PTL DEF SessionsInv

\* No run is refused for the length of what its session holds.
THEOREM StoredAlwaysFits == Spec => []StoredFits
BY SessionsInvHolds, PTL DEF SessionsInv

\* A run gets a source no older than what the client asked to run, and a retry
\* none older than the attempt before.
THEOREM NoOlderSourceRuns == Spec => RunsNoOlderSource
<1>1. SessionsInv => \A r \in Run : ran[r] # 0 => ran[r] >= requested[r]
  BY DEF SessionsInv, RunInv
<1>2. SessionsInv /\ [Next]_vars => [\A r \in Run : ran'[r] >= ran[r]]_ran
  BY InvStep DEF NoOlderRun
<1> QED
  BY <1>1, <1>2, SessionsInvHolds, PTL DEF Spec, RunsNoOlderSource
=============================================================================
