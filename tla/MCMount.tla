------------------------------- MODULE MCMount -------------------------------
(* Constants of the TLC runs of Mount. *)
EXTENDS Mount

CONSTANTS x, y   \* files

MCFile == {x, y}
==============================================================================
