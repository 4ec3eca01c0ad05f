------------------------------ MODULE MCCrankOps ------------------------------
(* Instances of CrankOps for TLC.                                           *)
EXTENDS CrankOps, TLC

CONSTANTS r1, r2, r3, r4, r5, r6, v1, v2

\* Rows listed by falling stake: r2 and r4 are inserted later, r2 ahead of rows
\* a page may already have passed; r5 is malformed.
MCRank == r1 :> 60 @@ r2 :> 50 @@ r3 :> 40 @@ r4 :> 30 @@ r5 :> 20 @@ r6 :> 10
            @@ v1 :> 0 @@ v2 :> -1

=============================================================================
