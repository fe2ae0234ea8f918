------------------------- MODULE ExecutionLifecycle -------------------------
(***************************************************************************)
(* What an execution record promises to whoever polls it: the state        *)
(* machine that apps/code-platform/src/common/state declares.  The class   *)
(* is not called by the services; it is the specification the repository   *)
(* methods are meant to implement, and ExecutionWorker is checked against  *)
(* it.                                                                     *)
(***************************************************************************)
EXTENDS Executions

VARIABLE status         \* status of each record, "ABSENT" before it exists

\* ALLOWED_TRANSITIONS.
AllowedTransitions ==
    [ QUEUED    |-> {"RUNNING"},
      RUNNING   |-> {"COMPLETED", "FAILED", "TIMEOUT"},
      COMPLETED |-> {},
      FAILED    |-> {},
      TIMEOUT   |-> {} ]

\* ExecutionStateMachine.canTransition.
CanTransition(from, to) == to \in AllowedTransitions[from]

Init == status = [e \in Execution |-> "ABSENT"]

\* A record is born QUEUED.
Create(e) ==
    /\ status[e] = "ABSENT"
    /\ status' = [status EXCEPT ![e] = "QUEUED"]

\* assertTransition lets exactly these changes through.
Transition(e) ==
    /\ status[e] # "ABSENT"
    /\ \E to \in {"RUNNING"} \cup TerminalStatus :
          /\ CanTransition(status[e], to)
          /\ status' = [status EXCEPT ![e] = to]

Next == \E e \in Execution : Create(e) \/ Transition(e)

Spec == Init /\ [][Next]_status

\* The promise with progress: a record that exists reaches a final status.
FairSpec == Spec /\ \A e \in Execution : WF_status(Transition(e))
=============================================================================
