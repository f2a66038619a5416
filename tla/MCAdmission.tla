---------------------------- MODULE MCAdmission -----------------------------
(* Small instances of Admission for TLC. *)
EXTENDS Admission, TLC

(* The requests are interchangeable: no action or property names one. *)
RequestSymmetry == Permutations(Requests)
=============================================================================
