-------------------------------- MODULE Index0 --------------------------------
(***************************************************************************)
(* The writable in-memory index of one layer (class Index0, index.cpp): a   *)
(* set of mappings and the count of 512-byte blocks they allocate.          *)
(***************************************************************************)
EXTENDS Segments, FiniteSetsExt

CONSTANTS LogicalBlocks,    \* the logical blocks of the device
          Inputs,           \* the mappings insert() is called with
          Word              \* 2^64 in the code: block counts wrap at Word

ASSUME InputsAssumption == LogicalBlocks \subseteq Nat /\ Inputs \subseteq Mappings

VARIABLES mapping,          \* Index0::mapping
          alloc             \* Index0::alloc_blk

vars == <<mapping, alloc>>

\* block_usage: zeroed mappings allocate nothing.
AllocOf(m) == IF m.zeroed THEN 0 ELSE m.length

AllocOfAll(M) == MapThenSumSet(AllocOf, M)

Init == mapping = {} /\ alloc = 0

\* A plausible bug: a mapping that insert() splits is not counted again.
AllocAfterInsertNoReAdd(a, M, m) ==
    IF m.length = 0 THEN a
    ELSE (a + AllocOf(m) - AllocOfAll(Overlapped(M, m))) % Word

\* insert() adds m, subtracts every mapping it visits and adds back what is left of it.
AllocAfterInsert(a, M, m) ==
    IF m.length = 0 THEN a
    ELSE (a + AllocOf(m) - AllocOfAll(Overlapped(M, m)) + AllocOfAll(Remainders(M, m))) % Word

insert(m) ==
    /\ mapping' = Insert(mapping, m)
    /\ alloc' = AllocAfterInsert(alloc, mapping, m)

Next == \E m \in Inputs : insert(m)

Spec == Init /\ [][Next]_vars

-------------------------------------------------------------------------------
\* Every member of the std::set is a mapping; the count is a machine word.
TypeOK == mapping \subseteq Mappings /\ alloc \in 0 .. Word - 1

(***************************************************************************)
(* The std::set stays sorted and free of overlaps under its own comparator, *)
(* although insert() shrinks members in place through a const-cast.         *)
(***************************************************************************)
Sorted == WellFormed(mapping)

(***************************************************************************)
(* block_count() is the number of blocks that hold data, after any mix of   *)
(* overwrites, splits and discards.                                         *)
(***************************************************************************)
BlockCountExact ==
    alloc = Cardinality({b \in LogicalBlocks : Locate(mapping, b).kind = "data"})

BM == INSTANCE BlockMap WITH place <- [b \in LogicalBlocks |-> Locate(mapping, b)]

(***************************************************************************)
(* insert() redirects exactly the blocks of the new mapping and keeps the   *)
(* place of every other block, whatever it has to cut.                      *)
(***************************************************************************)
ImplementsBlockMap == BM!Spec
===============================================================================
