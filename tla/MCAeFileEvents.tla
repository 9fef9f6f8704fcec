--------------------------- MODULE MCAeFileEvents ---------------------------
(***************************************************************************)
(* Instance of AeFileEvents for TLC: more descriptors than the table has   *)
(* entries, and two clients.                                               *)
(***************************************************************************)
EXTENDS AeFileEvents, TLC

CONSTANTS c1, c2

MCClient == {c1, c2}

\* The clients are interchangeable, and so may be permuted in a safety run.
MCSymmetry == Permutations(MCClient)
=============================================================================
