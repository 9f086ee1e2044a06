------------------------------- MODULE Mirror -------------------------------
(***************************************************************************)
(* What durable-sync promises about one source and one destination: the    *)
(* destination is a copy that may lag behind the source but never shows    *)
(* something the source did not have.  It moves forward, except that a     *)
(* writer that was given up may still make the writes it was left with,    *)
(* each of them once.                                                      *)
(*                                                                         *)
(* Each item has a version in the source; version 0 stands for an item     *)
(* that does not exist yet.  dest[i] is the version the destination row    *)
(* of item i was last written from, 0 if there is no row.                  *)
(***************************************************************************)
EXTENDS Naturals

CONSTANT Item

VARIABLES source,   \* the version of each item in the system of record
          dest,     \* the version of each item the destination shows
          late      \* the writes that writers given up may still make

mirrorVars == <<source, dest, late>>

Versions == [Item -> Nat]

InBounds == \A i \in Item : dest[i] <= source[i]

Late == [item : Item, version : Nat]

LateInBounds == \A w \in late : w.version <= source[w.item]

Init ==
    /\ source \in Versions
    /\ dest \in Versions
    /\ late \in SUBSET Late
    /\ InBounds /\ LateInBounds

\* Somebody creates or edits item i in the system of record.
Edit(i) ==
    /\ source' = [source EXCEPT ![i] = @ + 1]
    /\ UNCHANGED <<dest, late>>

\* Some rows move forward, each to a version its item has had since.  A writer
\* may be given up with writes to make, of versions the source had.
Copy ==
    /\ dest' \in Versions
    /\ \A i \in Item : dest[i] <= dest'[i] /\ dest'[i] <= source[i]
    /\ late \subseteq late' /\ late' \in SUBSET Late /\ LateInBounds'
    /\ UNCHANGED source

\* A writer that was given up makes one of its writes, newer or older than what
\* the row shows, or comes to its end.
LateWrite(w) ==
    /\ dest' \in {dest, [dest EXCEPT ![w.item] = w.version]}
    /\ late' = late \ {w}
    /\ UNCHANGED source

Next == Copy \/ (\E w \in late : LateWrite(w)) \/ (\E i \in Item : Edit(i))

Spec == Init /\ [][Next]_mirrorVars
=============================================================================
