----------------------------- MODULE MCAeTimers -----------------------------
(***************************************************************************)
(* Instances of AeTimers for TLC: a second of two ticks, as in usleep.     *)
(***************************************************************************)
EXTENDS AeTimers

\* Set back by more than a second, so that the skew shows, or forward by a second.
BackAndForth == {-3, 2}
=============================================================================
