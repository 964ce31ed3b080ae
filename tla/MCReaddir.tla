------------------------------ MODULE MCReaddir ------------------------------
(* Values for checking Readdir with TLC. *)
EXTENDS Readdir, TLC

NameSymmetry == Permutations(Name)
==============================================================================
