----------------------------- MODULE Index0Proofs -----------------------------
(***************************************************************************)
(* Index0 keeps its mappings disjoint and implements a plain block map, for *)
(* every set of logical blocks and every set of inserted mappings.          *)
(***************************************************************************)
EXTENDS Index0, TLAPS

(***************************************************************************)
(* Cutting a mapping at its end or at its start keeps it a mapping and       *)
(* keeps the place of the blocks it still covers.                           *)
(***************************************************************************)
LEMMA BackwardEndToFacts ==
    ASSUME NEW p \in Mappings, NEW x \in Nat, p.offset < x, x <= End(p)
    PROVE  /\ BackwardEndTo(p, x) \in Mappings
           /\ BackwardEndTo(p, x).length > 0
           /\ BackwardEndTo(p, x).offset = p.offset
           /\ End(BackwardEndTo(p, x)) = x
           /\ \A b \in Nat : Place(BackwardEndTo(p, x), b) = Place(p, b)
<1> DEFINE q == BackwardEndTo(p, x)
<1>1. /\ q = [offset |-> p.offset, length |-> x - p.offset, moffset |-> p.moffset,
              zeroed |-> p.zeroed, tag |-> p.tag]
      /\ p.offset \in Nat /\ p.length \in Nat
  BY DEF BackwardEndTo, Mappings
<1>2. q \in Mappings /\ q.length > 0 /\ q.offset = p.offset /\ End(q) = x
  BY <1>1 DEF End, Mappings
<1>3. \A b \in Nat : Place(q, b) = Place(p, b)
  BY <1>1 DEF Place
<1> QED BY <1>2, <1>3

LEMMA ForwardOffsetToFacts ==
    ASSUME NEW p \in Mappings, NEW x \in Nat, p.offset <= x, x < End(p)
    PROVE  /\ ForwardOffsetTo(p, x) \in Mappings
           /\ ForwardOffsetTo(p, x).length > 0
           /\ ForwardOffsetTo(p, x).offset = x
           /\ End(ForwardOffsetTo(p, x)) = End(p)
           /\ \A b \in Nat : Place(ForwardOffsetTo(p, x), b) = Place(p, b)
<1> DEFINE q == ForwardOffsetTo(p, x)
           mo == IF p.zeroed THEN p.moffset ELSE p.moffset + (x - p.offset)
<1>1. q = [offset |-> x, length |-> p.length - (x - p.offset), moffset |-> mo,
           zeroed |-> p.zeroed, tag |-> p.tag]
  BY DEF ForwardOffsetTo, Mappings
<1>2. /\ p.offset \in Nat /\ p.length \in Nat /\ p.moffset \in Nat
      /\ p.zeroed \in BOOLEAN /\ p.tag \in Nat /\ mo \in Nat
  BY DEF Mappings
<1>3. q \in Mappings /\ q.length > 0 /\ q.offset = x /\ End(q) = End(p)
  BY <1>1, <1>2 DEF End, Mappings
<1>4. ASSUME NEW b \in Nat PROVE Place(q, b) = Place(p, b)
  <2>1. CASE p.zeroed
    BY <1>1, <2>1 DEF Place
  <2>2. CASE ~p.zeroed
    <3>1. q.moffset + (b - q.offset) = p.moffset + (b - p.offset)
      BY <1>1, <1>2, <2>2
    <3> QED BY <1>1, <2>2, <3>1 DEF Place
  <2> QED BY <2>1, <2>2
<1> QED BY <1>3, <1>4

(***************************************************************************)
(* What remove_partial_overlap leaves of a mapping p that [o, e) cuts: the   *)
(* pieces are mappings inside p and outside [o, e), they do not overlap,     *)
(* they keep the place of every block, and no block outside [o, e) is lost.  *)
(***************************************************************************)
LEMMA PieceFacts ==
    ASSUME NEW p \in Mappings, NEW o \in Nat, NEW e \in Nat,
           o < e, o < End(p), p.offset < e
    PROVE  /\ \A q \in RemovePartialOverlap(p, o, e) :
                 /\ q \in Mappings /\ q.length > 0
                 /\ p.offset <= q.offset /\ End(q) <= End(p)
                 /\ End(q) <= o \/ e <= q.offset
                 /\ \A b \in Nat : Place(q, b) = Place(p, b)
           /\ \A q, r \in RemovePartialOverlap(p, o, e) : q # r => Before(q, r) \/ Before(r, q)
           /\ \A b \in Nat : Covers(p, b) /\ ~(o <= b /\ b < e) =>
                 \E q \in RemovePartialOverlap(p, o, e) : Covers(q, b)
<1> USE DEF Covers, Before
<1>0. /\ p.offset \in Nat /\ p.length \in Nat /\ End(p) \in Nat
  BY DEF Mappings, End
<1> DEFINE h == BackwardEndTo(p, o)
           t == ForwardOffsetTo(p, e)
<1>1. CASE p.offset < o /\ End(p) <= e
  <2>1. RemovePartialOverlap(p, o, e) = {h}
    BY <1>0, <1>1 DEF RemovePartialOverlap
  <2>2. /\ h \in Mappings /\ h.length > 0 /\ h.offset = p.offset /\ End(h) = o
        /\ \A b \in Nat : Place(h, b) = Place(p, b)
    BY <1>0, <1>1, BackwardEndToFacts
  <2> HIDE DEF h
  <2> QED BY <1>0, <1>1, <2>1, <2>2
<1>2. CASE p.offset < o /\ e < End(p)
  <2>1. RemovePartialOverlap(p, o, e) = {h, t}
    BY <1>0, <1>2 DEF RemovePartialOverlap
  <2>2. /\ h \in Mappings /\ h.length > 0 /\ h.offset = p.offset /\ End(h) = o
        /\ \A b \in Nat : Place(h, b) = Place(p, b)
    BY <1>0, <1>2, BackwardEndToFacts
  <2>3. /\ t \in Mappings /\ t.length > 0 /\ t.offset = e /\ End(t) = End(p)
        /\ \A b \in Nat : Place(t, b) = Place(p, b)
    BY <1>0, <1>2, ForwardOffsetToFacts
  <2> HIDE DEF h, t
  <2> QED BY <1>0, <1>2, <2>1, <2>2, <2>3
<1>3. CASE o <= p.offset /\ End(p) <= e
  <2>1. RemovePartialOverlap(p, o, e) = {}
    BY <1>0, <1>3 DEF RemovePartialOverlap
  <2> QED BY <1>0, <1>3, <2>1
<1>4. CASE o <= p.offset /\ e < End(p)
  <2>1. RemovePartialOverlap(p, o, e) = {t}
    BY <1>0, <1>4 DEF RemovePartialOverlap
  <2>2. /\ t \in Mappings /\ t.length > 0 /\ t.offset = e /\ End(t) = End(p)
        /\ \A b \in Nat : Place(t, b) = Place(p, b)
    BY <1>0, <1>4, ForwardOffsetToFacts
  <2> HIDE DEF t
  <2> QED BY <1>0, <1>4, <2>1, <2>2
<1> QED BY <1>0, <1>1, <1>2, <1>3, <1>4

(***************************************************************************)
(* In a well-formed index the place of a block is the one its only covering  *)
(* mapping gives it.                                                         *)
(***************************************************************************)
LEMMA LocateUnique ==
    ASSUME NEW M \in SUBSET Mappings, WellFormed(M), NEW p \in M, NEW b \in Nat, Covers(p, b)
    PROVE  Locate(M, b) = Place(p, b)
<1>1. ASSUME NEW q \in M, Covers(q, b) PROVE q = p
  BY <1>1 DEF WellFormed, Before, Covers, End, Mappings
<1>2. (CHOOSE q \in M : Covers(q, b)) = p
  BY <1>1
<1> QED BY <1>2, ZenonT(60) DEF Locate

(***************************************************************************)
(* Every member of the index after an insertion is the new mapping, an      *)
(* untouched old one, or a piece of a cut one.                               *)
(***************************************************************************)
LEMMA InsertOrigin ==
    ASSUME NEW M \in SUBSET Mappings, WellFormed(M),
           NEW m \in Mappings, m.length > 0,
           NEW q \in Insert(M, m), q # m
    PROVE  \E p \in M :
              /\ q \in Mappings /\ q.length > 0
              /\ p.offset <= q.offset /\ End(q) <= End(p)
              /\ End(q) <= m.offset \/ End(m) <= q.offset
              /\ \A b \in Nat : Place(q, b) = Place(p, b)
              /\ q = p \/ q \in RemovePartialOverlap(p, m.offset, End(m))
              /\ q # p => p \in Overlapped(M, m)
<1>0. m.offset \in Nat /\ m.length \in Nat /\ End(m) \in Nat /\ m.offset < End(m)
  BY DEF Mappings, End
<1>1. CASE q \in M \ Overlapped(M, m)
  <2>1. q.offset \in Nat /\ End(q) \in Nat /\ q.length > 0 /\ q \in Mappings
    BY <1>1 DEF Mappings, End, WellFormed
  <2>2. End(q) <= m.offset \/ End(m) <= q.offset
    BY <1>0, <1>1, <2>1 DEF Overlapped, Before
  <2> QED BY <1>1, <2>1, <2>2
<1>2. CASE q \in Remainders(M, m)
  <2>1. PICK p \in Overlapped(M, m) : q \in RemovePartialOverlap(p, m.offset, End(m))
    BY <1>2 DEF Remainders
  <2>2. p \in M /\ p \in Mappings /\ p.offset < End(m) /\ m.offset < End(p)
    BY <1>0 DEF Overlapped, Before, Mappings, End
  <2> QED BY <1>0, <2>1, <2>2, PieceFacts
<1> QED BY <1>0, <1>1, <1>2 DEF Insert

(***************************************************************************)
(* Index0::insert keeps the index well formed.                              *)
(***************************************************************************)
LEMMA InsertWellFormed ==
    ASSUME NEW M \in SUBSET Mappings, WellFormed(M), NEW m \in Mappings
    PROVE  Insert(M, m) \in SUBSET Mappings /\ WellFormed(Insert(M, m))
<1>1. CASE m.length = 0
  BY <1>1 DEF Insert
<1>2. CASE m.length # 0
  <2>0. m.length > 0 /\ m.offset \in Nat /\ End(m) \in Nat /\ m.offset < End(m)
    BY <1>2 DEF Mappings, End
  <2>1. \A q \in Insert(M, m) : q \in Mappings /\ q.length > 0
    BY <2>0, InsertOrigin
  <2>2. ASSUME NEW q \in Insert(M, m), NEW r \in Insert(M, m), q # r
        PROVE  Before(q, r) \/ Before(r, q)
    <3>1. CASE q = m \/ r = m
      BY <2>0, <2>2, <3>1, InsertOrigin DEF Before
    <3>2. CASE q # m /\ r # m
      <4>1. PICK p \in M :
              /\ q \in Mappings /\ p.offset <= q.offset /\ End(q) <= End(p)
              /\ q = p \/ q \in RemovePartialOverlap(p, m.offset, End(m))
              /\ q # p => p \in Overlapped(M, m)
        BY <2>0, <3>2, InsertOrigin
      <4>2. PICK s \in M :
              /\ r \in Mappings /\ s.offset <= r.offset /\ End(r) <= End(s)
              /\ r = s \/ r \in RemovePartialOverlap(s, m.offset, End(m))
              /\ r # s => s \in Overlapped(M, m)
        BY <2>0, <3>2, InsertOrigin
      <4>3. /\ p.offset \in Nat /\ End(p) \in Nat /\ s.offset \in Nat /\ End(s) \in Nat
            /\ q.offset \in Nat /\ End(q) \in Nat /\ r.offset \in Nat /\ End(r) \in Nat
        BY <4>1, <4>2 DEF Mappings, End
      <4>4. CASE p # s
        BY <4>1, <4>2, <4>3, <4>4 DEF WellFormed, Before
      <4>5. CASE p = s
        <5>1. p \in Overlapped(M, m) /\ p.offset < End(m) /\ m.offset < End(p)
          BY <2>0, <2>2, <4>1, <4>2, <4>3, <4>5 DEF Overlapped, Before
        <5>2. q # p /\ r # p
          <6>1. ~(End(p) <= m.offset \/ End(m) <= p.offset)
            BY <2>0, <4>3, <5>1
          <6>2. \A u \in Insert(M, m) : u # m => End(u) <= m.offset \/ End(m) <= u.offset
            BY <2>0, InsertOrigin
          <6> QED BY <3>2, <6>1, <6>2
        <5> QED BY <2>0, <2>2, <4>1, <4>2, <4>5, <5>1, <5>2, PieceFacts
      <4> QED BY <4>4, <4>5
    <3> QED BY <3>1, <3>2
  <2> QED BY <2>1, <2>2 DEF WellFormed
<1> QED BY <1>1, <1>2

(***************************************************************************)
(* Index0::insert redirects the blocks of the new mapping and no others.     *)
(***************************************************************************)
LEMMA InsertLocate ==
    ASSUME NEW M \in SUBSET Mappings, WellFormed(M), NEW m \in Mappings, NEW b \in Nat
    PROVE  Locate(Insert(M, m), b) = IF Covers(m, b) THEN Place(m, b) ELSE Locate(M, b)
<1>0. m.offset \in Nat /\ m.length \in Nat /\ End(m) \in Nat
  BY DEF Mappings, End
<1>1. CASE m.length = 0
  BY <1>0, <1>1 DEF Insert, Covers, End
<1>2. CASE m.length # 0
  <2> DEFINE I == Insert(M, m)
  <2>1. I \in SUBSET Mappings /\ WellFormed(I) /\ m \in I /\ m.length > 0
    <3>1. m.length > 0
      BY <1>0, <1>2
    <3>2. I \in SUBSET Mappings /\ WellFormed(I)
      BY InsertWellFormed
    <3>3. m \in I
      BY <1>2 DEF Insert
    <3> QED BY <3>1, <3>2, <3>3
  <2>2. CASE Covers(m, b)
    BY <2>1, <2>2, LocateUnique
  <2>3. CASE ~Covers(m, b) /\ \E p \in M : Covers(p, b)
    <3>1. PICK p \in M : Covers(p, b)
      BY <2>3
    <3>2. /\ p \in Mappings /\ p.offset \in Nat /\ End(p) \in Nat
          /\ ~(m.offset <= b /\ b < End(m))
      BY <2>3 DEF Mappings, End, Covers
    <3>3. \E q \in I : Covers(q, b) /\ Place(q, b) = Place(p, b)
      <4>1. CASE p \in Overlapped(M, m)
        <5>1. p.offset < End(m) /\ m.offset < End(p) /\ m.offset < End(m)
          BY <1>0, <1>2, <3>2, <4>1 DEF Overlapped, Before, End
        <5>2. PICK q \in RemovePartialOverlap(p, m.offset, End(m)) :
                 Covers(q, b) /\ Place(q, b) = Place(p, b)
          BY <1>0, <3>1, <3>2, <5>1, PieceFacts
        <5>3. q \in I
          BY <1>2, <4>1, <5>2 DEF Insert, Remainders
        <5> QED BY <5>2, <5>3
      <4>2. CASE p \notin Overlapped(M, m)
        BY <1>2, <3>1, <4>2 DEF Insert
      <4> QED BY <4>1, <4>2
    <3>4. Locate(M, b) = Place(p, b)
      BY <3>1, LocateUnique
    <3>5. Locate(I, b) = Place(p, b)
      BY <2>1, <3>3, LocateUnique
    <3> QED BY <2>3, <3>4, <3>5
  <2>4. CASE ~Covers(m, b) /\ ~\E p \in M : Covers(p, b)
    <3>1. ASSUME NEW q \in I PROVE ~Covers(q, b)
      <4>1. CASE q = m
        BY <2>4, <4>1
      <4>2. CASE q # m
        <5>1. PICK p \in M : q \in Mappings /\ p.offset <= q.offset /\ End(q) <= End(p)
          BY <2>1, <4>2, InsertOrigin
        <5> QED BY <2>4, <5>1 DEF Covers, Mappings, End
      <4> QED BY <4>1, <4>2
    <3> QED BY <2>4, <3>1 DEF Locate
  <2> QED BY <2>2, <2>3, <2>4
<1> QED BY <1>1, <1>2

-------------------------------------------------------------------------------
\* The inductive invariant: a set of disjoint mappings.
IndexInv == mapping \in SUBSET Mappings /\ Sorted

LEMMA IndexInvariance == Spec => []IndexInv
<1>1. Init => IndexInv
  BY DEF Init, IndexInv, Sorted, WellFormed
<1>2. IndexInv /\ [Next]_vars => IndexInv'
  <2> SUFFICES ASSUME IndexInv, [Next]_vars PROVE IndexInv'
    OBVIOUS
  <2>1. ASSUME NEW m \in Inputs, insert(m) PROVE IndexInv'
    BY <2>1, InsertWellFormed, InputsAssumption DEF insert, IndexInv, Sorted
  <2>2. CASE UNCHANGED vars
    BY <2>2 DEF vars, IndexInv, Sorted
  <2> QED BY <2>1, <2>2 DEF Next
<1> QED BY <1>1, <1>2, PTL DEF Spec

(***************************************************************************)
(* The std::set of Index0 never holds two overlapping or empty mappings,     *)
(* whatever sequence of insert() calls is made.                              *)
(***************************************************************************)
THEOREM SortedAlways == Spec => []Sorted
<1>1. IndexInv => Sorted
  BY DEF IndexInv
<1> QED BY <1>1, IndexInvariance, PTL

(***************************************************************************)
(* Index0 implements the block map: each insert() is one Put, for any        *)
(* inputs and any number of blocks.                                          *)
(***************************************************************************)
THEOREM Index0Implements == Spec => ImplementsBlockMap
<1> DEFINE view == [b \in LogicalBlocks |-> Locate(mapping, b)]
<1>1. Init => BM!Init
  BY DEF Init, BM!Init, Locate, Hole, BM!Hole
<1>2. IndexInv /\ [Next]_vars => [BM!Next]_view
  <2> SUFFICES ASSUME IndexInv, [Next]_vars PROVE [BM!Next]_view
    OBVIOUS
  <2>1. ASSUME NEW m \in Inputs, insert(m) PROVE BM!Put(m)
    <3>1. m \in Mappings /\ mapping' = Insert(mapping, m) /\ LogicalBlocks \subseteq Nat
      BY <2>1, InputsAssumption DEF insert
    <3>2. \A b \in LogicalBlocks :
             Locate(mapping', b) = IF Covers(m, b) THEN Place(m, b) ELSE Locate(mapping, b)
      BY <3>1, InsertLocate DEF IndexInv, Sorted
    <3> QED BY <3>2 DEF BM!Put, BM!Covers, BM!Place, BM!End, BM!At, BM!Zeroes,
                        Covers, Place, End, At, Zeroes
  <2>2. CASE UNCHANGED vars
    BY <2>2 DEF vars
  <2> QED BY <2>1, <2>2 DEF Next, BM!Next
<1> QED BY <1>1, <1>2, IndexInvariance, PTL DEF Spec, ImplementsBlockMap, BM!Spec
===============================================================================
