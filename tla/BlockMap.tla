------------------------------- MODULE BlockMap -------------------------------
(***************************************************************************)
(* What an index of the LSMT format promises, with no segments in sight:    *)
(* every logical block has a place of its own, and inserting a mapping      *)
(* redirects exactly the blocks it covers.                                  *)
(***************************************************************************)
EXTENDS Segments

CONSTANTS LogicalBlocks,    \* the logical blocks of the device
          Inputs            \* the mappings that may be inserted

VARIABLE place              \* place[b]: where block b is stored

Init == place = [b \in LogicalBlocks |-> Hole]

Put(m) ==
    place' = [b \in LogicalBlocks |-> IF Covers(m, b) THEN Place(m, b) ELSE place[b]]

Next == \E m \in Inputs : Put(m)

Spec == Init /\ [][Next]_place
===============================================================================
