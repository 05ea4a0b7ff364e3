------------------------------- MODULE Segments -------------------------------
(***************************************************************************)
(* Segment mappings of the LSMT index and the operations on sets of them    *)
(* (src/overlaybd/lsmt/index.h, index.cpp).                                 *)
(*                                                                          *)
(* A SegmentMapping sends the logical blocks [offset, offset+length) to     *)
(* the blocks of data file number `tag' that start at moffset, or, when it  *)
(* is zeroed, to zeroes.  The code keeps the mappings of a layer in a       *)
(* std::set ordered by "a < b iff a ends at or before b's offset"; because  *)
(* no two members overlap, the set of mappings determines that order and    *)
(* an index is modelled as a set.                                           *)
(***************************************************************************)
EXTENDS Integers

Mappings == [offset : Nat, length : Nat, moffset : Nat, zeroed : BOOLEAN, tag : Nat]

End(m) == m.offset + m.length

Mend(m) == IF m.zeroed THEN m.moffset ELSE m.moffset + m.length

\* A plausible bug: the mapped offset moves the wrong way.
ForwardOffsetToBack(m, x) ==
    [m EXCEPT !.offset = x,
              !.length = @ - (x - m.offset),
              !.moffset = IF m.zeroed THEN @ ELSE @ - (x - m.offset)]

ForwardOffsetTo(m, x) ==
    [offset |-> x, length |-> m.length - (x - m.offset),
     moffset |-> IF m.zeroed THEN m.moffset ELSE m.moffset + (x - m.offset),
     zeroed |-> m.zeroed, tag |-> m.tag]

BackwardEndTo(m, x) == [m EXCEPT !.length = x - m.offset]

\* operator<: a lies entirely before b.
Before(a, b) == End(a) <= b.offset

Blocks(m) == m.offset .. End(m) - 1

-------------------------------------------------------------------------------
(***************************************************************************)
(* What is left of mapping p once [offset, end) is taken from it.           *)
(***************************************************************************)

\* A plausible bug: the tail keeps the mapped offset of the whole mapping.
RemovePartialOverlapStaleMoffset(p, offset, end) ==
    CASE p.offset < offset                    ->
            IF End(p) <= end THEN {BackwardEndTo(p, offset)}
            ELSE {BackwardEndTo(p, offset), [p EXCEPT !.offset = end, !.length = End(p) - end]}
      [] p.offset >= offset /\ p.offset < end ->
            IF End(p) <= end THEN {} ELSE {ForwardOffsetTo(p, end)}
      [] OTHER                                -> {p}

\* A plausible bug: a mapping that ends with the range leaves an empty tail behind.
RemovePartialOverlapEmptyTail(p, offset, end) ==
    CASE p.offset < offset                    ->
            IF End(p) < end THEN {BackwardEndTo(p, offset)}
            ELSE {BackwardEndTo(p, offset), ForwardOffsetTo(p, end)}
      [] p.offset >= offset /\ p.offset < end ->
            IF End(p) < end THEN {} ELSE {ForwardOffsetTo(p, end)}
      [] OTHER                                -> {p}

\* remove_partial_overlap.
RemovePartialOverlap(p, offset, end) ==
    CASE p.offset < offset                    ->
            IF End(p) <= end THEN {BackwardEndTo(p, offset)}
            ELSE {BackwardEndTo(p, offset), ForwardOffsetTo(p, end)}
      [] p.offset >= offset /\ p.offset < end ->
            IF End(p) <= end THEN {} ELSE {ForwardOffsetTo(p, end)}
      [] OTHER                                -> {p}

\* The members of M that Index0::insert visits: from lower_bound(m) up to the
\* last one that starts before m's end.
Overlapped(M, m) == {p \in M : ~Before(p, m) /\ p.offset < End(m)}

\* The pieces of the visited mappings that stay in the index.
Remainders(M, m) ==
    UNION {RemovePartialOverlap(p, m.offset, End(m)) : p \in Overlapped(M, m)}

\* Index0::insert on the set of mappings.
Insert(M, m) ==
    IF m.length = 0 THEN M
    ELSE (M \ Overlapped(M, m)) \cup Remainders(M, m) \cup {m}

-------------------------------------------------------------------------------
(***************************************************************************)
(* The meaning of an index: where each logical block is stored.            *)
(***************************************************************************)

\* No two members share a block, and none is empty.
WellFormed(M) ==
    /\ \A p \in M : p.length > 0
    /\ \A p, q \in M : p # q => Before(p, q) \/ Before(q, p)

Hole == [kind |-> "hole"]
Zeroes == [kind |-> "zero"]
At(tag, moffset) == [kind |-> "data", tag |-> tag, moffset |-> moffset]

\* Where mapping m puts block b of its range.
Place(m, b) == IF m.zeroed THEN Zeroes ELSE At(m.tag, m.moffset + (b - m.offset))

Covers(m, b) == m.offset <= b /\ b < End(m)

\* Where index M puts block b.
Locate(M, b) ==
    IF \E p \in M : Covers(p, b) THEN Place(CHOOSE p \in M : Covers(p, b), b) ELSE Hole
===============================================================================
