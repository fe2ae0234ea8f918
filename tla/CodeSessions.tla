---------------------------- MODULE CodeSessions ----------------------------
(***************************************************************************)
(* The sessions table: POST /code-sessions creates a row, PATCH autosaves  *)
(* into it, run requests check it and the worker reads the program to run  *)
(* from it.  Autosave is two statements, an update and a read, and any     *)
(* number of clients save into one session.                                *)
(*                                                                         *)
(* Rows are never deleted and ACTIVE is the only session status, so the    *)
(* row of a session exists from its creation on; version 0 stands for no   *)
(* row.  Prisma fills in updatedAt when it builds a statement, so that the *)
(* order of these times need not be the one in which updates commit.       *)
(***************************************************************************)
EXTENDS Naturals, FiniteSets

CONSTANTS
    Session,
    Save,        \* PATCH requests, retries of a client included
    Run,         \* run requests
    Language,
    Source,
    TooLong,     \* the sources longer than maxSourceBytes
    AttemptBound \* times the worker starts the program of a run

\* What stands for no session and no source.
None == "none"

\* Requests are told apart, and None is neither a session nor a source.
ASSUME SessionsAssumption ==
    /\ TooLong \subseteq Source
    /\ IsFiniteSet(Save)
    /\ Save \cap Run = {}
    /\ None \notin Session \cup Source
    /\ AttemptBound \in Nat

VARIABLES
    language, sourceCode, version, updatedAt, \* the rows
    pc,                               \* the await each save is at
    session, newLanguage, newSource,  \* what each request names and sends
    now,                              \* the clock of the API
    sentAt,                           \* the time in each save's statement
    stored,                           \* the version each save made
    answer,                           \* what each save was answered
    requested,                        \* the version each run request saw
    ran,                              \* the version the worker last ran
    attempts                          \* how often it did

row == <<language, sourceCode, version, updatedAt>>
time == <<now, sentAt>>
request == <<session, newLanguage, newSource>>
runs == <<requested, ran, attempts>>
vars == <<row, pc, request, time, stored, answer, runs>>

\* The updated_at of the session, or the status of an error.
Answer == [code : {None, "200", "404", "413", "500"}, updatedAt : Nat]

NoAnswer == [code |-> None, updatedAt |-> 0]

TypeOK ==
    /\ language \in [Session -> Language \cup {None}]
    /\ sourceCode \in [Session -> Source \cup {None}]
    /\ version \in [Session -> 0..Cardinality(Save) + 1]
    /\ updatedAt \in [Session -> Nat]
    /\ pc \in [Save -> {"new", "update", "read", "done"}]
    /\ session \in [Save \cup Run -> Session \cup {None}]
    /\ newLanguage \in [Save -> Language \cup {None}]
    /\ newSource \in [Save -> Source \cup {None}]
    /\ now \in Nat
    /\ sentAt \in [Save -> Nat]
    /\ stored \in [Save -> 0..Cardinality(Save) + 1]
    /\ answer \in [Save -> Answer]
    /\ requested \in [Run -> 0..Cardinality(Save) + 1]
    /\ ran \in [Run -> 0..Cardinality(Save) + 1]
    /\ attempts \in [Run -> 0..AttemptBound]

Init ==
    /\ language = [s \in Session |-> None]
    /\ sourceCode = [s \in Session |-> None]
    /\ version = [s \in Session |-> 0]
    /\ updatedAt = [s \in Session |-> 0]
    /\ pc = [a \in Save |-> "new"]
    /\ session = [q \in Save \cup Run |-> None]
    /\ newLanguage = [a \in Save |-> None]
    /\ newSource = [a \in Save |-> None]
    /\ now = 0
    /\ sentAt = [a \in Save |-> 0]
    /\ stored = [a \in Save |-> 0]
    /\ answer = [a \in Save |-> NoAnswer]
    /\ requested = [r \in Run |-> 0]
    /\ ran = [r \in Run |-> 0]
    /\ attempts = [r \in Run |-> 0]

\* Mutant of FitsLimit: nothing is too long.
FitsAlways(source) == TRUE

\* assertSourceLength does not throw.
FitsLimit(source) == source \notin TooLong

-----------------------------------------------------------------------------
(* createSession.                                                          *)

\* A source that is too long is answered 413 and changes nothing.
CreateSession(s, lang, source) ==
    /\ version[s] = 0
    /\ FitsLimit(source)
    /\ language' = [language EXCEPT ![s] = lang]
    /\ sourceCode' = [sourceCode EXCEPT ![s] = source]
    /\ version' = [version EXCEPT ![s] = 1]
    /\ updatedAt' = [updatedAt EXCEPT ![s] = now]
    /\ UNCHANGED <<pc, request, time, stored, answer, runs>>

-----------------------------------------------------------------------------
(* autosaveSession.                                                        *)

AnswerWith(a, code, at) ==
    /\ pc' = [pc EXCEPT ![a] = "done"]
    /\ answer' = [answer EXCEPT ![a] = [code |-> code, updatedAt |-> at]]

\* The statement of a save is built, with the time it is, and sent.
StartSave(a, s, lang, source) ==
    /\ pc[a] = "new"
    /\ session' = [session EXCEPT ![a] = s]
    /\ newLanguage' = [newLanguage EXCEPT ![a] = lang]
    /\ newSource' = [newSource EXCEPT ![a] = source]
    /\ IF FitsLimit(source)
       THEN /\ pc' = [pc EXCEPT ![a] = "update"]
            /\ now' \in {now, now + 1}
            /\ sentAt' = [sentAt EXCEPT ![a] = now']
            /\ UNCHANGED answer
       ELSE AnswerWith(a, "413", 0) /\ UNCHANGED time
    /\ UNCHANGED <<row, stored, runs>>

\* Mutant of UpdateRow: the language is not saved.
UpdateRowWithoutLanguage(a, s) ==
    /\ sourceCode' = [sourceCode EXCEPT ![s] = newSource[a]]
    /\ version' = [version EXCEPT ![s] = @ + 1]
    /\ updatedAt' = [updatedAt EXCEPT ![s] = sentAt[a]]
    /\ stored' = [stored EXCEPT ![a] = version[s] + 1]
    /\ UNCHANGED language

\* Mutant of UpdateRow: an identical save does not count.
UpdateRowIfChanged(a, s) ==
    /\ language' = [language EXCEPT ![s] = newLanguage[a]]
    /\ sourceCode' = [sourceCode EXCEPT ![s] = newSource[a]]
    /\ version' = [version EXCEPT ![s] = IF newSource[a] = sourceCode[s] THEN @ ELSE @ + 1]
    /\ updatedAt' = [updatedAt EXCEPT ![s] = sentAt[a]]
    /\ stored' = [stored EXCEPT ![a] = version'[s]]

\* Mutant of UpdateRow: a change of the language starts the version again.
UpdateRowFromOne(a, s) ==
    /\ language' = [language EXCEPT ![s] = newLanguage[a]]
    /\ sourceCode' = [sourceCode EXCEPT ![s] = newSource[a]]
    /\ version' = [version EXCEPT ![s] = IF newLanguage[a] # language[s] THEN 1 ELSE @ + 1]
    /\ updatedAt' = [updatedAt EXCEPT ![s] = sentAt[a]]
    /\ stored' = [stored EXCEPT ![a] = version'[s]]

\* Mutant of UpdateRow: a save counts twice.
UpdateRowByTwo(a, s) ==
    /\ language' = [language EXCEPT ![s] = newLanguage[a]]
    /\ sourceCode' = [sourceCode EXCEPT ![s] = newSource[a]]
    /\ version' = [version EXCEPT ![s] = @ + 2]
    /\ updatedAt' = [updatedAt EXCEPT ![s] = sentAt[a]]
    /\ stored' = [stored EXCEPT ![a] = version[s] + 2]

\* Mutant of UpdateRow: updatedAt is not refreshed.
UpdateRowWithoutTime(a, s) ==
    /\ language' = [language EXCEPT ![s] = newLanguage[a]]
    /\ sourceCode' = [sourceCode EXCEPT ![s] = newSource[a]]
    /\ version' = [version EXCEPT ![s] = @ + 1]
    /\ stored' = [stored EXCEPT ![a] = version[s] + 1]
    /\ UNCHANGED updatedAt

\* updateMany's data, with the @updatedAt Prisma adds to it.
UpdateRow(a, s) ==
    /\ language' = [language EXCEPT ![s] = newLanguage[a]]
    /\ sourceCode' = [sourceCode EXCEPT ![s] = newSource[a]]
    /\ version' = [version EXCEPT ![s] = @ + 1]
    /\ updatedAt' = [updatedAt EXCEPT ![s] = sentAt[a]]
    /\ stored' = [stored EXCEPT ![a] = version[s] + 1]

\* updateMany; no row is a count of 0.
Update(a) ==
    /\ pc[a] = "update"
    /\ IF version[session[a]] = 0
       THEN AnswerWith(a, "404", 0) /\ UNCHANGED <<row, stored>>
       ELSE /\ UpdateRow(a, session[a])
            /\ pc' = [pc EXCEPT ![a] = "read"]
            /\ UNCHANGED answer
    /\ UNCHANGED <<request, time, runs>>

\* findById, and the answer the controller makes of the row.
ReadBack(a) ==
    /\ pc[a] = "read"
    /\ AnswerWith(a, "200", updatedAt[session[a]])
    /\ UNCHANGED <<row, request, time, stored, runs>>

\* A statement fails, the update possibly after it committed.
SaveFails(a) ==
    /\ pc[a] \in {"update", "read"}
    /\ AnswerWith(a, "500", 0)
    /\ \/ UNCHANGED <<row, stored>>
       \/ pc[a] = "update" /\ version[session[a]] # 0 /\ UpdateRow(a, session[a])
    /\ UNCHANGED <<request, time, runs>>

-----------------------------------------------------------------------------
(* Runs.                                                                   *)

\* runCode finds the session and its source fits; the other checks and the
\* way to the worker are those of RunAdmission and ExecutionWorker.
RequestRun(r, s) ==
    /\ session[r] = None
    /\ version[s] # 0
    /\ FitsLimit(sourceCode[s])
    /\ session' = [session EXCEPT ![r] = s]
    /\ requested' = [requested EXCEPT ![r] = version[s]]
    /\ UNCHANGED <<row, pc, newLanguage, newSource, time, stored, answer, ran, attempts>>

\* The worker loads the session, anew with each attempt.
LoadSession(r) ==
    /\ session[r] # None
    /\ attempts[r] < AttemptBound
    /\ attempts' = [attempts EXCEPT ![r] = @ + 1]
    /\ ran' = [ran EXCEPT ![r] = version[session[r]]]
    /\ UNCHANGED <<row, pc, request, time, stored, answer, requested>>

Next ==
    \/ \E s \in Session, lang \in Language, source \in Source :
          CreateSession(s, lang, source)
    \/ \E a \in Save :
          \/ \E s \in Session, lang \in Language, source \in Source :
                StartSave(a, s, lang, source)
          \/ Update(a) \/ ReadBack(a) \/ SaveFails(a)
    \/ \E r \in Run : LoadSession(r) \/ \E s \in Session : RequestRun(r, s)

Spec == Init /\ [][Next]_vars

-----------------------------------------------------------------------------
(* Properties.                                                             *)

\* However saves overlap, fail or are retried, the row is the last one that
\* committed, whole: never the language of one and the source of another.
LastSaveWins ==
    \A a \in Save :
        stored[a] # 0 /\ stored[a] = version[session[a]] =>
            /\ language[session[a]] = newLanguage[a]
            /\ sourceCode[session[a]] = newSource[a]

\* The version of a session counts its saves, those that were answered with
\* an error after they committed included.
VersionCountsSaves ==
    \A s \in Session :
        version[s] # 0 =>
            version[s] = 1 + Cardinality({a \in Save : stored[a] # 0 /\ session[a] = s})

\* The read that answers a save is a statement of its own, and other saves may
\* have come in between: the updated_at a client is answered is that of its own
\* save or of a save of the same session that committed after it, never the one
\* the row had before.
ReadBackNotOlder ==
    \A a \in Save :
        answer[a].code = "200" =>
            \E b \in Save :
                /\ session[b] = session[a]
                /\ stored[a] \in 1..stored[b]
                /\ answer[a].updatedAt = sentAt[b]

\* What a session holds can be run: no run request is refused for its length.
StoredFits == \A s \in Session : sourceCode[s] \notin TooLong

\* A run, and each retry of it, gets a source no older than the one the client
\* asked to run and no older than the attempt before.
RunsNoOlderSource ==
    /\ [][\A r \in Run : ran'[r] >= ran[r]]_ran
    /\ [](\A r \in Run : ran[r] # 0 => ran[r] >= requested[r])
=============================================================================
