----------------------------- MODULE MCPlatform -----------------------------
(***************************************************************************)
(* An instance of Platform for TLC: overlapping requests for one session   *)
(* and one worker, which is killed once.                                   *)
(***************************************************************************)
EXTENDS Platform, TLC

CONSTANTS p1, s1

OneSlot == s1 :> p1

\* The code ends well; the other outcome is that the executor throws.
OneResult == {[ timedOut |-> FALSE, memoryLimitExceeded |-> FALSE,
                outputLimitExceeded |-> FALSE, exitCode |-> "zero" ]}

\* A crash of the worker, and a queue.add that does not get through.
CrashAndLoss == [ crash |-> 1, dbError |-> 0, lockLoss |-> 0,
                  publishLost |-> 1, restart |-> 0, hang |-> 0 ]
=============================================================================
