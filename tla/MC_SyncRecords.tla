--------------------------- MODULE MC_SyncRecords ---------------------------
(***************************************************************************)
(* Instances of SyncRecords for TLC.  Three keys, one of which the         *)
(* destination filters; batches long enough for a keyless record or a key  *)
(* that occurs twice; three rows, so that a key can get a second one; two  *)
(* attempts, so that one can die under way or linger beside the next.      *)
(***************************************************************************)
EXTENDS SyncRecords, TLC

Symmetry == Permutations(Row)
=============================================================================
