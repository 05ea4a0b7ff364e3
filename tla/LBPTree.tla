------------------------------- MODULE LBPTree --------------------------------
(***************************************************************************)
(* The search tree over a read-only index (LinearizedBptree and IndexLBPT,  *)
(* index.cpp): the offsets of the mappings are the leaves of a complete      *)
(* tree of (KEYS_PER_NODE + 1)-way nodes, laid out level by level in one     *)
(* array.  merge_memory_indexes builds one for the merged lower layers.      *)
(***************************************************************************)
EXTENDS IndexOps

CONSTANTS KEYS_PER_NODE,    \* keys of a node: 8 or 16 in the code
          MAX_LEVEL,        \* levels of the largest tree: 10 or 7 in the code
          KeySpace          \* 2^32 in the code: a uint32_t key wraps at KeySpace

\* The tables NODES_PER_LEVEL and LEVEL_START_ID.
NodesPerLevel(i) == KEYS_PER_NODE * (KEYS_PER_NODE + 1) ^ i
LevelStart(i) == (KEYS_PER_NODE + 1) ^ i - 1

\* The virtual size merge_memory_indexes sees: do_parallel_load_index creates the
\* index of a layer without one, and it is 0.
LoadedVsize == 0

\* Offsets are stored in 32 bits when the device is known to be small enough.
Narrow == LoadedVsize < KeySpace - 1

Key(offset) == IF Narrow THEN offset % KeySpace ELSE offset

\* -1 in the type of the keys; no offset is that large when keys are wide.
MaxKey == IF Narrow THEN KeySpace - 1 ELSE KeySpace * KeySpace

Depth(n) ==
    CHOOSE d \in 1 .. MAX_LEVEL :
        NodesPerLevel(d - 1) >= n /\ \A e \in 1 .. d - 1 : NodesPerLevel(e - 1) < n

\* build(): refuses an index that is empty, does not start at 0 or is too large.
Buildable(arr) ==
    /\ arr # <<>> /\ arr[1].offset = 0
    /\ Len(arr) <= NodesPerLevel(MAX_LEVEL - 1)

\* The length of the node array, a multiple of the node size.
NodeCount(n) ==
    LET used == LevelStart(Depth(n) - 1) + n
    IN ((used + KEYS_PER_NODE - 1) \div KEYS_PER_NODE) * KEYS_PER_NODE

\* What the leaf part of the array holds at position p.
LeafKey(arr, p) ==
    LET i == p - LevelStart(Depth(Len(arr)) - 1)
    IN IF i < Len(arr) THEN Key(arr[i + 1].offset) ELSE MaxKey

\* The q-th key of level number `level': the first leaf right of its subtree.
InnerKey(arr, level, q) ==
    LET depth == Depth(Len(arr))
        G == KEYS_PER_NODE * (KEYS_PER_NODE + 1) ^ (depth - 1 - level)
        lower_id == LevelStart(depth - 1) + (q \div KEYS_PER_NODE) * G * (KEYS_PER_NODE + 1)
                      + G * ((q % KEYS_PER_NODE) + 1)
    IN IF lower_id < NodeCount(Len(arr)) THEN LeafKey(arr, lower_id) ELSE MaxKey

\* build(): the node array.
Build(arr) ==
    LET depth == Depth(Len(arr))
        level(p) == CHOOSE l \in 1 .. depth : LevelStart(l - 1) <= p /\ p < LevelStart(l)
    IN [p \in 0 .. NodeCount(Len(arr)) - 1 |->
          IF p >= LevelStart(depth - 1) THEN LeafKey(arr, p)
          ELSE InnerKey(arr, level(p), p - LevelStart(level(p) - 1))]

\* inner_search: the number of keys of a node that are at most x.
InnerSearch(node, base, x) ==
    Cardinality({i \in 0 .. KEYS_PER_NODE - 1 : node[base + i] <= x})

\* search(): descend from the root; the result counts from 0.
Search(node, depth, x) ==
    LET at[i \in 0 .. depth - 1] ==      \* where the search is after i levels
            IF i = 0 THEN 0
            ELSE LET c == InnerSearch(node, at[i - 1], x)
                 IN (KEYS_PER_NODE + 1) * at[i - 1] + (c + 1) * KEYS_PER_NODE
        res == at[depth - 1]
    IN res + InnerSearch(node, res, x) - 1 - LevelStart(depth - 1)

\* A plausible bug: a mapping that starts at the end of the range is taken too.
CopyFromInclusive(arr, lb, end, n) ==
    Take(SelectSeq(SubSeq(arr, lb, Len(arr)), LAMBDA m : m.offset <= end), n)

\* copy_n from position lb of the array on.
CopyFrom(arr, lb, end, n) ==
    Take(SelectSeq(SubSeq(arr, lb, Len(arr)), LAMBDA m : m.offset < end), n)

\* IndexLBPT::lookup; without a tree, Index::lookup.
LBPTLookup(M, s, n) ==
    LET arr == InOrder(M)
        hit == Search(Build(arr), Depth(Len(arr)), Key(s.offset)) + 1
        lb == IF End(arr[hit]) <= s.offset THEN hit + 1 ELSE hit
    IN IF s.length = 0 THEN <<>>
       ELSE IF ~Buildable(arr) THEN Lookup(M, s, n)
       ELSE TrimEdges(CopyFrom(arr, lb, End(s), n), s)
===============================================================================
