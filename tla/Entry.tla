-------------------------------- MODULE Entry --------------------------------
(***************************************************************************)
(* What optimistic locking promises about one entry: nobody writes over an  *)
(* edition he has not seen, and what goes live is what the entry holds.     *)
(***************************************************************************)
EXTENDS Naturals

VARIABLES edition,   \* how often the entry was written, 0 if there is none
          basis,     \* the edition the last writer had seen
          live       \* the edition that is published, 0 if none is

entryVars == <<edition, basis, live>>

Init == edition = 0 /\ basis = 0 /\ live = 0

Write ==
    /\ edition' = edition + 1 /\ basis' = edition
    /\ UNCHANGED live

Publish ==
    /\ live' = edition
    /\ UNCHANGED <<edition, basis>>

Next == Write \/ Publish

Spec == Init /\ [][Next]_entryVars
=============================================================================
