------------------------- MODULE RunAdmissionProofs -------------------------
(***************************************************************************)
(* The bounds of RunAdmission for every number of sessions and requests,   *)
(* every limit and window and every degree of overlap.                     *)
(*                                                                         *)
(* A request that has passed a check presses on the bound as much as a row *)
(* does.  When a request passes the in-flight check no row of its session  *)
(* is waiting, so those that press are in progress, and no step but such a *)
(* pass adds to them; the rate check is the same with a non-zero count.    *)
(***************************************************************************)
EXTENDS RunAdmission, FiniteSetTheorems, TLAPS

\* Requests past the in-flight check, and past both checks, without a row.
Admitted(s) == {r \in Request : session[r] = s /\ pc[r] \in {"rate", "create"}}
Creating(s) == {r \in Request : session[r] = s /\ pc[r] = "create"}

\* What presses on the in-flight bound and on the rate limit.
Pressing(s) == Waiting(s) \cup Admitted(s)
Crowding(s) == Recent(s) \cup Creating(s)

\* A row is created by the last but one step of its request, and a window is
\* never shorter than the limit's.
RequestInv ==
    \A r \in Request :
        /\ pc[r] \in {"new", "find", "inFlight", "rate", "create"} =>
              row[r] = "ABSENT"
        /\ pc[r] = "rate" => since[r] >= RunRateLimitWindow

CountInv(s) ==
    /\ Cardinality(InProgress(s)) <= MaxConcurrent
    /\ Cardinality(Pressing(s)) <= MaxConcurrent
    /\ Cardinality(Crowding(s)) <= RunRateLimitCount + MaxConcurrent - 1

AdmissionInv ==
    /\ TypeOK
    /\ RequestInv
    /\ \A s \in Session : CountInv(s)

\* Every set of requests is finite, and a subset is not larger.
LEMMA Subsets ==
    ASSUME AdmissionAssumption, NEW T \in SUBSET Request
    PROVE  /\ IsFiniteSet(T)
           /\ Cardinality(T) \in Nat
           /\ \A U \in SUBSET T : Cardinality(U) <= Cardinality(T)
<1>1. IsFiniteSet(T)
  BY FS_Subset DEF AdmissionAssumption
<1> QED
  BY <1>1, FS_Subset, FS_CardinalityType

\* The sets the invariant counts are sets of requests.
LEMMA SetTypes ==
    ASSUME NEW s \in Session
    PROVE  /\ InProgress(s) \in SUBSET Request
           /\ Pressing(s) \in SUBSET Request
           /\ Crowding(s) \in SUBSET Request
           /\ Waiting(s) \in SUBSET Pressing(s)
           /\ Recent(s) \in SUBSET Crowding(s)
BY DEF InProgress, Pressing, Crowding, Waiting, Admitted, Recent, Creating

-----------------------------------------------------------------------------
(* TypeOK and RequestInv.                                                  *)

\* The types are inductive together with what a request's label says of its
\* row and its window.
LEMMA RequestInvStep ==
    ASSUME AdmissionAssumption, TypeOK, RequestInv, [Next]_vars
    PROVE  TypeOK' /\ RequestInv'
<1> USE DEF AdmissionAssumption, TypeOK, RequestInv, Label, Answer, RowStatus, Old
<1>1. ASSUME NEW r \in Request, NEW s \in Session, Arrive(r, s)
      PROVE  TypeOK' /\ RequestInv'
  BY <1>1 DEF Arrive
<1>2. ASSUME NEW r \in Request, FindSession(r) PROVE TypeOK' /\ RequestInv'
  BY <1>2 DEF FindSession, GoTo, AnswerWith
<1>3. ASSUME NEW r \in Request, CheckInFlight(r) PROVE TypeOK' /\ RequestInv'
  BY <1>3 DEF CheckInFlight, GoTo, AnswerWith
<1>4. ASSUME NEW r \in Request, CheckRate(r) PROVE TypeOK' /\ RequestInv'
  BY <1>4 DEF CheckRate, GoTo, AnswerWith
<1>5. ASSUME NEW r \in Request, CreateRow(r) PROVE TypeOK' /\ RequestInv'
  BY <1>5 DEF CreateRow, NewRow, GoTo
<1>6. ASSUME NEW r \in Request, AddJob(r) PROVE TypeOK' /\ RequestInv'
  BY <1>6 DEF AddJob, AnswerWith
<1>7. ASSUME NEW r \in Request, CallFails(r) PROVE TypeOK' /\ RequestInv'
  <2>1. failures' \in 0..FailureBound
    BY <1>7 DEF CallFails
  <2>2. CASE UNCHANGED <<row, age>>
    BY <1>7, <2>1, <2>2 DEF CallFails, AnswerWith
  <2>3. CASE NewRow(r)
    BY <1>7, <2>1, <2>3 DEF CallFails, AnswerWith, NewRow
  <2> QED
    BY <1>7, <2>2, <2>3 DEF CallFails
<1>8. ASSUME NEW r \in Request, StartRun(r) \/ FinishRun(r)
      PROVE  TypeOK' /\ RequestInv'
  BY <1>8 DEF StartRun, FinishRun
<1>9. CASE Tick
  BY <1>9 DEF Tick
<1>10. CASE UNCHANGED vars
  BY <1>10 DEF vars
<1> QED
  BY <1>1, <1>2, <1>3, <1>4, <1>5, <1>6, <1>7, <1>8, <1>9, <1>10
  DEF Next, Handle

-----------------------------------------------------------------------------
(* The counts.                                                             *)

\* Only an arrival adds to the requests in progress.
LEMMA InProgressStep ==
    ASSUME AdmissionAssumption, TypeOK, [Next]_vars, NEW s \in Session,
           Cardinality(InProgress(s)) <= MaxConcurrent
    PROVE  Cardinality(InProgress(s)') <= MaxConcurrent
<1>1. CASE \E r \in Request, t \in Session : Arrive(r, t)
  <2>1. PICK r \in Request, t \in Session : Arrive(r, t)
    BY <1>1
  <2>2. CASE t = s
    <3>1. InProgress(s)' \subseteq InProgress(s) \cup {r}
      BY <2>1, <2>2 DEF Arrive, InProgress, TypeOK
    <3>2. /\ Cardinality(InProgress(s) \cup {r}) <= MaxConcurrent
          /\ InProgress(s) \cup {r} \in SUBSET Request
      BY <2>1, <2>2, Subsets, SetTypes, FS_AddElement
      DEF AdmissionAssumption, Arrive
    <3>3. InProgress(s)' \in SUBSET Request
      BY DEF InProgress
    <3> QED
      BY <3>1, <3>2, <3>3, Subsets DEF AdmissionAssumption
  <2>3. CASE t # s
    <3>1. InProgress(s)' \subseteq InProgress(s)
      BY <2>1, <2>3 DEF Arrive, InProgress, TypeOK
    <3> QED
      BY <3>1, Subsets, SetTypes DEF AdmissionAssumption
  <2> QED
    BY <2>2, <2>3
<1>2. CASE ~ \E r \in Request, t \in Session : Arrive(r, t)
  <2>1. InProgress(s)' \subseteq InProgress(s)
    BY <1>2
    DEF Next, Handle, FindSession, CheckInFlight, CheckRate, CreateRow, AddJob,
        CallFails, StartRun, FinishRun, Tick, GoTo, AnswerWith, vars, InProgress,
        TypeOK
  <2> QED
    BY <2>1, Subsets, SetTypes DEF AdmissionAssumption
<1> QED
  BY <1>1, <1>2

\* A request that passes the in-flight check finds nothing waiting, so all
\* that presses then is in progress; no other step adds to what presses.
LEMMA PressingStep ==
    ASSUME AdmissionAssumption, TypeOK, RequestInv, [Next]_vars, NEW s \in Session,
           Cardinality(InProgress(s)) <= MaxConcurrent,
           Cardinality(Pressing(s)) <= MaxConcurrent
    PROVE  Cardinality(Pressing(s)') <= MaxConcurrent
<1> USE DEF TypeOK, RequestInv, Pressing, Waiting, Admitted
<1>1. \/ Pressing(s)' \subseteq Pressing(s)
      \/ Pressing(s)' \subseteq InProgress(s)
  <2>1. ASSUME NEW r \in Request, CheckInFlight(r)
        PROVE  \/ Pressing(s)' \subseteq Pressing(s)
               \/ Pressing(s)' \subseteq InProgress(s)
    <3>1. CASE session[r] = s /\ InFlight(s) = {}
      BY <2>1, <3>1
      DEF CheckInFlight, GoTo, InFlight, Rows, InProgress
    <3>2. CASE session[r] # s \/ InFlight(s) # {}
      BY <2>1, <3>2 DEF CheckInFlight, GoTo, AnswerWith
    <3> QED
      BY <3>1, <3>2
  <2>2. ASSUME NEW r \in Request, NEW t \in Session, Arrive(r, t)
        PROVE  Pressing(s)' \subseteq Pressing(s)
    BY <2>2 DEF Arrive
  <2>3. ASSUME NEW r \in Request, FindSession(r) \/ CheckRate(r)
        PROVE  Pressing(s)' \subseteq Pressing(s)
    BY <2>3 DEF FindSession, CheckRate, GoTo, AnswerWith
  <2>4. ASSUME NEW r \in Request, CreateRow(r) \/ AddJob(r)
        PROVE  Pressing(s)' \subseteq Pressing(s)
    BY <2>4 DEF CreateRow, AddJob, NewRow, GoTo, AnswerWith
  <2>5. ASSUME NEW r \in Request, CallFails(r)
        PROVE  Pressing(s)' \subseteq Pressing(s)
    BY <2>5 DEF CallFails, NewRow, AnswerWith
  <2>6. ASSUME NEW r \in Request, StartRun(r) \/ FinishRun(r)
        PROVE  Pressing(s)' \subseteq Pressing(s)
    BY <2>6 DEF StartRun, FinishRun
  <2>7. CASE Tick
    BY <2>7 DEF Tick
  <2>8. CASE UNCHANGED vars
    BY <2>8 DEF vars
  <2> QED
    BY <2>1, <2>2, <2>3, <2>4, <2>5, <2>6, <2>7, <2>8 DEF Next, Handle
<1>2. CASE Pressing(s)' \subseteq Pressing(s)
  BY <1>2, Subsets, SetTypes DEF AdmissionAssumption
<1>3. CASE Pressing(s)' \subseteq InProgress(s)
  BY <1>3, Subsets, SetTypes DEF AdmissionAssumption
<1> QED
  BY <1>1, <1>2, <1>3

\* A request that passes the rate check finds fewer rows than the limit;
\* besides them only requests in progress crowd the window then.
LEMMA CrowdingStep ==
    ASSUME AdmissionAssumption, TypeOK, RequestInv, [Next]_vars, NEW s \in Session,
           Cardinality(InProgress(s)) <= MaxConcurrent,
           Cardinality(Crowding(s)) <= RunRateLimitCount + MaxConcurrent - 1
    PROVE  Cardinality(Crowding(s)') <= RunRateLimitCount + MaxConcurrent - 1
<1> USE DEF TypeOK, RequestInv, Crowding, Recent, Creating
<1>1. \/ Crowding(s)' \subseteq Crowding(s)
      \/ \E T \in SUBSET Request :
            /\ Cardinality(T) < RunRateLimitCount
            /\ Crowding(s)' \subseteq T \cup InProgress(s)
  <2>1. ASSUME NEW r \in Request, CheckRate(r)
        PROVE  \/ Crowding(s)' \subseteq Crowding(s)
               \/ \E T \in SUBSET Request :
                     /\ Cardinality(T) < RunRateLimitCount
                     /\ Crowding(s)' \subseteq T \cup InProgress(s)
    <3> DEFINE T == QueuedSince(s, since[r])
    <3>1. CASE session[r] = s /\ RateAllows(Cardinality(T))
      <4>1. T \in SUBSET Request /\ Cardinality(T) < RunRateLimitCount
        BY <3>1 DEF RateAllows, QueuedSince, Rows
      <4>2. Recent(s)' \subseteq T
        BY <2>1, <3>1
        DEF AdmissionAssumption, CheckRate, GoTo, QueuedSince, Rows, RowStatus,
            Old
      <4>3. Creating(s)' \subseteq InProgress(s)
        BY <2>1, <3>1 DEF CheckRate, GoTo, InProgress
      <4> QED
        BY <4>1, <4>2, <4>3
    <3>2. CASE session[r] # s \/ ~ RateAllows(Cardinality(T))
      BY <2>1, <3>2 DEF CheckRate, GoTo, AnswerWith
    <3> QED
      BY <3>1, <3>2
  <2>2. ASSUME NEW r \in Request, NEW t \in Session, Arrive(r, t)
        PROVE  Crowding(s)' \subseteq Crowding(s)
    BY <2>2 DEF Arrive
  <2>3. ASSUME NEW r \in Request, FindSession(r) \/ CheckInFlight(r)
        PROVE  Crowding(s)' \subseteq Crowding(s)
    BY <2>3 DEF FindSession, CheckInFlight, GoTo, AnswerWith
  <2>4. ASSUME NEW r \in Request, CreateRow(r) \/ AddJob(r)
        PROVE  Crowding(s)' \subseteq Crowding(s)
    BY <2>4 DEF CreateRow, AddJob, NewRow, GoTo, AnswerWith
  <2>5. ASSUME NEW r \in Request, CallFails(r)
        PROVE  Crowding(s)' \subseteq Crowding(s)
    BY <2>5 DEF CallFails, NewRow, AnswerWith
  <2>6. ASSUME NEW r \in Request, StartRun(r) \/ FinishRun(r)
        PROVE  Crowding(s)' \subseteq Crowding(s)
    BY <2>6 DEF StartRun, FinishRun
  <2>7. CASE Tick
    BY <2>7 DEF AdmissionAssumption, Tick, Old
  <2>8. CASE UNCHANGED vars
    BY <2>8 DEF vars
  <2> QED
    BY <2>1, <2>2, <2>3, <2>4, <2>5, <2>6, <2>7, <2>8 DEF Next, Handle
<1>2. Crowding(s)' \in SUBSET Request
  OBVIOUS
<1>3. CASE Crowding(s)' \subseteq Crowding(s)
  BY <1>2, <1>3, Subsets, SetTypes DEF AdmissionAssumption
<1>4. ASSUME NEW T \in SUBSET Request, Cardinality(T) < RunRateLimitCount,
             Crowding(s)' \subseteq T \cup InProgress(s)
      PROVE  Cardinality(Crowding(s)') <= RunRateLimitCount + MaxConcurrent - 1
  <2> DEFINE U == T \cup InProgress(s)
             C == Crowding(s)'
             I == InProgress(s)
  <2>1. /\ I \in SUBSET Request /\ U \in SUBSET Request
        /\ T \cap I \in SUBSET Request
    BY SetTypes
  <2>2. /\ IsFiniteSet(T) /\ Cardinality(T) \in Nat
        /\ IsFiniteSet(I) /\ Cardinality(I) \in Nat
        /\ Cardinality(T \cap I) \in Nat /\ Cardinality(U) \in Nat
    BY <2>1, Subsets
  <2>3. Cardinality(U) = Cardinality(T) + Cardinality(I) - Cardinality(T \cap I)
    BY <2>2, FS_Union
  <2>4. Cardinality(C) <= Cardinality(U) /\ Cardinality(C) \in Nat
    BY <1>2, <1>4, <2>1, Subsets
  <2> HIDE DEF U, C, I
  <2>5. Cardinality(I) <= MaxConcurrent
    BY DEF I
  <2>6. Cardinality(C) <= RunRateLimitCount + MaxConcurrent - 1
    BY <1>4, <2>2, <2>3, <2>4, <2>5 DEF AdmissionAssumption
  <2> QED
    BY <2>6 DEF C
<1> QED
  BY <1>1, <1>3, <1>4

-----------------------------------------------------------------------------
\* Nothing is counted in the initial state.
LEMMA AdmissionInvInit == AdmissionAssumption /\ Init => AdmissionInv
<1> SUFFICES ASSUME AdmissionAssumption, Init PROVE AdmissionInv
  OBVIOUS
<1>1. TypeOK /\ RequestInv
  BY DEF AdmissionAssumption, Init, TypeOK, RequestInv, Label, Answer,
         RowStatus, Old
<1>2. ASSUME NEW s \in Session PROVE CountInv(s)
  <2>1. InProgress(s) = {} /\ Pressing(s) = {} /\ Crowding(s) = {}
    BY DEF Init, InProgress, Pressing, Waiting, Admitted, Crowding, Recent,
           Creating
  <2> QED
    BY <2>1, FS_EmptySet DEF AdmissionAssumption, CountInv
<1> QED
  BY <1>1, <1>2 DEF AdmissionInv

\* AdmissionInv holds in every reachable state.
LEMMA AdmissionInvariant ==
    ASSUME AdmissionAssumption
    PROVE  Spec => []AdmissionInv
<1>1. ASSUME AdmissionInv, [Next]_vars PROVE AdmissionInv'
  <2>1. TypeOK' /\ RequestInv'
    BY <1>1, RequestInvStep DEF AdmissionInv
  <2>2. ASSUME NEW s \in Session PROVE CountInv(s)'
    BY <1>1, InProgressStep, PressingStep, CrowdingStep DEF AdmissionInv, CountInv
  <2> QED
    BY <2>1, <2>2 DEF AdmissionInv
<1> QED
  BY <1>1, AdmissionInvInit, PTL DEF Spec

\* However requests overlap and calls fail, every variable of the admission
\* model keeps its type.
THEOREM AdmissionTypes ==
    ASSUME AdmissionAssumption
    PROVE  Spec => []TypeOK
<1>1. AdmissionInv => TypeOK
  BY DEF AdmissionInv
<1> QED
  BY <1>1, AdmissionInvariant, PTL

\* For every overlap of requests, a session never has more executions in
\* flight than it had requests in progress at once: a client that waits for
\* its answers has at most one.
THEOREM InFlightIsBounded ==
    ASSUME AdmissionAssumption
    PROVE  Spec => []InFlightBounded
<1>1. AdmissionInv => InFlightBounded
  BY Subsets, SetTypes
  DEF AdmissionAssumption, AdmissionInv, CountInv, InFlightBounded
<1> QED
  BY <1>1, AdmissionInvariant, PTL

\* For every overlap of requests, no window holds more runs of a session than
\* the limit and one for each further request in progress at once.
THEOREM RateIsBounded ==
    ASSUME AdmissionAssumption
    PROVE  Spec => []RateBounded
<1>1. AdmissionInv => RateBounded
  BY Subsets, SetTypes
  DEF AdmissionAssumption, AdmissionInv, CountInv, RateBounded
<1> QED
  BY <1>1, AdmissionInvariant, PTL

=============================================================================
