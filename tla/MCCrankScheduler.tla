--------------------------- MODULE MCCrankScheduler ---------------------------
(* Instances of CrankScheduler for TLC.                                     *)
EXTENDS CrankScheduler, TLC

\* Passes are interchangeable.
TickSymmetry == Permutations(Ticks)
=============================================================================
