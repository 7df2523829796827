------------------------- MODULE MCOwnershipStore --------------------------
(* The store with the shortest record graph that has every kind of edge:   *)
(* a setup checkpoint, the cleanup of either, a removal committed on top   *)
(* of an installed record, and one committed where none is installed.      *)
EXTENDS OwnershipStore, TLC

CONSTANTS p1, p2

MCRecords == {"recorded", "installed", "cleaned", "removal", "bare removal"}

MCSuccessor ==
    {<<r, r>> : r \in MCRecords}
        \cup {<<"recorded", "installed">>}
        \cup {<<r, "cleaned">> : r \in {"recorded", "installed"}}
        \cup {<<r, "removal">> : r \in {"recorded", "installed", "cleaned"}}

MCFirst == {"recorded", "bare removal"}

MCCleaned == {"cleaned"}

MCSymmetry == Permutations({p1, p2})
=============================================================================
