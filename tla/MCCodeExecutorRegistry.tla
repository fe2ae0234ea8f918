----------------------- MODULE MCCodeExecutorRegistry -----------------------
(***************************************************************************)
(* An instance of CodeExecutorRegistry for TLC; the .cfg gives its bounds. *)
(***************************************************************************)
EXTENDS CodeExecutorRegistry
=============================================================================
