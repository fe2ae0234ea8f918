------------------------ MODULE MCJavaScriptExecutor ------------------------
(***************************************************************************)
(* Instances of JavaScriptExecutor for TLC.                                *)
(***************************************************************************)
EXTENDS JavaScriptExecutor
=============================================================================
