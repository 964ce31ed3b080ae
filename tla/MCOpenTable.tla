----------------------------- MODULE MCOpenTable -----------------------------
(* Constants of the TLC runs of OpenTable. *)
EXTENDS OpenTable, TLC

CONSTANTS n1, n2, n3, h1, h2, h3, f1, f2, f3

MCName   == {n1, n2, n3}
MCFh     == {h1, h2, h3}
MCFileId == {f1, f2, f3}

\* Names are interchangeable, and so are handle numbers.  File identities are
\* not: NewFile chooses one of them.
MCSymmetry == Permutations(MCName) \cup Permutations(MCFh)
==============================================================================
