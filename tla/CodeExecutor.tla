---------------------------- MODULE CodeExecutor ----------------------------
(***************************************************************************)
(* The contract of the CodeExecutor interface (code-executor.interface.ts) *)
(* as the processor relies on it: a call of execute settles once, what it  *)
(* reports as completed ended well by itself, what it reports as a runtime *)
(* error did not, and a limit of its input is reported only of a program   *)
(* that went over it.                                                      *)
(*                                                                         *)
(* The converse, that a program that went over a limit is not completed,   *)
(* is no part of the interface and differs from one executor and one limit *)
(* to the next: Enforced names the limits for which it is claimed.         *)
(***************************************************************************)

CONSTANT Enforced   \* limits a completed program stayed within

VARIABLES
    exceeded,   \* the limits the program went over
    succeeded,  \* the program came to an end of its own, without an error
    verdict,    \* what mapFinalizePayload will make of the result
    promise     \* the promise execute returned

vars == <<exceeded, succeeded, verdict, promise>>

Limit == {"TIMEOUT", "MEMORY_LIMIT_EXCEEDED", "OUTPUT_LIMIT_EXCEEDED"}
Verdict == Limit \cup {"COMPLETED", "RUNTIME_ERROR"}

Init ==
    /\ exceeded = {}
    /\ succeeded = FALSE
    /\ verdict = "none"
    /\ promise = "pending"

\* The program goes over limits or ends, as long as there is no result.
Program ==
    /\ verdict = "none"
    /\ \E more \in SUBSET Limit : exceeded' = exceeded \cup more
    /\ succeeded' \in {succeeded, TRUE}
    /\ UNCHANGED <<verdict, promise>>

\* What the end of the program amounts to, limits apart.
OwnEnd ==
    IF ~succeeded THEN {"RUNTIME_ERROR"}
    ELSE IF exceeded \cap Enforced = {} THEN {"COMPLETED"} ELSE {}

\* The result is made, of what the program did or of a limit it went over.
Decide ==
    /\ verdict = "none"
    /\ verdict' \in OwnEnd \cup exceeded
    /\ UNCHANGED <<exceeded, succeeded, promise>>

Resolve ==
    /\ promise = "pending"
    /\ verdict # "none"
    /\ promise' = "resolved"
    /\ UNCHANGED <<exceeded, succeeded, verdict>>

\* A result that was made may still be lost.
Reject ==
    /\ promise = "pending"
    /\ promise' = "rejected"
    /\ verdict' = "none"
    /\ UNCHANGED <<exceeded, succeeded>>

Next == Program \/ Decide \/ Resolve \/ Reject

Spec == Init /\ [][Next]_vars
=============================================================================
