----------------------------- MODULE MCJobOutput -----------------------------
(* Values for the constants of JobOutput. *)
EXTENDS JobOutput

UpToThreeBlocks == 0 .. 13
NowhereOrInTwoBlocks == {{}, {2, 9}}
=============================================================================
