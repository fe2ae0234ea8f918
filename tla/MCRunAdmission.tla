--------------------------- MODULE MCRunAdmission ---------------------------
(***************************************************************************)
(* Instances of RunAdmission for TLC; the .cfg files give their bounds.    *)
(***************************************************************************)
EXTENDS RunAdmission

ASSUME MCAdmissionAssumption == AdmissionAssumption
=============================================================================
