--------------------------- MODULE MCCodeSessions ---------------------------
(***************************************************************************)
(* Instances of CodeSessions for TLC.  Saves are interchangeable.          *)
(***************************************************************************)
EXTENDS CodeSessions, TLC

SaveSymmetry == Permutations(Save)
=============================================================================
