------------------------------- MODULE MCIndex0 -------------------------------
(***************************************************************************)
(* A layer of four blocks and a data file of six: mappings can cut each    *)
(* other on either side, in the middle, and span several at once.  Search     *)
(* trees with one key per node have up to three levels over four mappings,   *)
(* and trees with two keys per node up to two.                               *)
(***************************************************************************)
EXTENDS Index0, IndexOps

CONSTANT KeySpace

Tree(keysPerNode) == INSTANCE LBPTree WITH KEYS_PER_NODE <- keysPerNode, MAX_LEVEL <- 4

MCBlocks == 0 .. 3

MCInputs ==
    {m \in [offset : MCBlocks, length : 0 .. 3, moffset : {0, 3}, zeroed : BOOLEAN, tag : {1}] :
        End(m) <= 4 /\ (m.zeroed => m.moffset = 0)}

-------------------------------------------------------------------------------
(***************************************************************************)
(* IMemoryIndex::lookup promises "mappings within the segment `s' in          *)
(* logical space": a lookup through the search tree built over an index finds *)
(* what a search of the sorted array does, for every range and every limit on *)
(* the results.  (A search for the padding key would leave the array: no      *)
(* device that fits the narrow keys has that block.)                          *)
(***************************************************************************)
LookupExact ==
    \A k \in {1, 2} : \A begin \in MCBlocks : \A end \in begin + 1 .. 4 : \A n \in {1, 4} :
        Tree(k)!Key(begin) # Tree(k)!MaxKey =>
            Tree(k)!LBPTLookup(mapping, Seg(begin, end), n) = Lookup(mapping, Seg(begin, end), n)
===============================================================================
