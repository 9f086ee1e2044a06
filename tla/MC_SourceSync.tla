---------------------------- MODULE MC_SourceSync ----------------------------
(***************************************************************************)
(* Instances of SourceSync for TLC.  Two items are the fewest with a second*)
(* page, a second chunk and a targeted run that leaves an item out; two    *)
(* attempts the fewest with a retry that succeeds and one that gives up.   *)
(***************************************************************************)
EXTENDS SourceSync, TLC

\* A zero is what set_interval has to clamp.
MCMinutes == {0}

Symmetry == Permutations(Item)
==============================================================================
