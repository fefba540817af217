---------------------------- MODULE MCAdmission ----------------------------
(* The instance on which TLC checks Admission; a and b are the keys. *)
EXTENDS Admission
=============================================================================
