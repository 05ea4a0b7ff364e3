------------------------------- MODULE IndexOps -------------------------------
(***************************************************************************)
(* The read side of the LSMT index (index.cpp, index.h): lookups in one     *)
(* index and in a front index over a backing one, the walk of a range by    *)
(* foreach_segments, the merge of the layers' indexes, and the compression  *)
(* of a raw index.  Results are sequences of mappings, as in the code.      *)
(***************************************************************************)
EXTENDS Segments, SequencesExt

CONSTANTS MaxLength,        \* SegmentMapping::MAX_LENGTH
          NMAPPING          \* mappings fetched by one round of foreach_segments

Seg(offset, end) == [offset |-> offset, length |-> end - offset]

\* The iteration order of the std::set / sorted array.
InOrder(M) ==
    [i \in 1 .. Cardinality(M) |-> CHOOSE p \in M : Cardinality({q \in M : Before(q, p)}) = i - 1]

Take(seq, n) == SubSeq(seq, 1, IF Len(seq) < n THEN Len(seq) ELSE n)

\* trim_edge_mappings.
TrimEdges(pm, s) ==
    IF pm = <<>> THEN pm
    ELSE LET f == IF pm[1].offset < s.offset
                  THEN ReplaceAt(pm, 1, ForwardOffsetTo(pm[1], s.offset)) ELSE pm
             n == Len(f)
         IN IF End(f[n]) > End(s) THEN ReplaceAt(f, n, BackwardEndTo(f[n], End(s))) ELSE f

\* Index0::lookup and Index::lookup: lower_bound, copy_n, trim.
Lookup(M, s, n) ==
    IF s.length = 0 THEN <<>>
    ELSE TrimEdges(Take(InOrder(Overlapped(M, s)), n), s)

\* Where the gap before the i-th of the mappings pm begins, in a walk from `begin'.
GapStart(pm, i, begin) == IF i = 1 THEN begin ELSE End(pm[i - 1])

\* The walk both ComboIndex::lookup and merge_indexes make over [begin, end):
\* each mapping of pm, preceded by what fill has in the gap before it, and what
\* it has for the gap after the last one.
Walk(pm, begin, end, fill) ==
    LET gap(i) == IF pm[i].offset > GapStart(pm, i, begin)
                  THEN fill[GapStart(pm, i, begin), pm[i].offset] ELSE <<>>
        last == GapStart(pm, Len(pm) + 1, begin)
    IN FlattenSeq([i \in 1 .. Len(pm) |-> gap(i) \o <<pm[i]>>])
         \o (IF last < end THEN fill[last, end] ELSE <<>>)

\* ComboIndex::lookup.
ComboLookup(front, backing, s, n) ==
    LET fill == [b, e \in 0 .. End(s) |-> Lookup(backing, Seg(b, e), n)]
    IN IF s.length = 0 THEN <<>>
       ELSE TrimEdges(Take(Walk(InOrder(Overlapped(front, s)), s.offset, End(s), fill), n), s)

-------------------------------------------------------------------------------
(***************************************************************************)
(* foreach_segments: a range is visited in rounds of at most NMAPPING       *)
(* mappings.  A visited segment is a record of its blocks and place; holes   *)
(* and zeroed mappings both reach cb_zero.                                   *)
(***************************************************************************)
Visit(m) == [offset |-> m.offset, length |-> m.length, zero |-> m.zeroed,
             tag |-> IF m.zeroed THEN 0 ELSE m.tag, moffset |-> IF m.zeroed THEN 0 ELSE m.moffset]

VisitHole(b, e) == [offset |-> b, length |-> e - b, zero |-> TRUE, tag |-> 0, moffset |-> 0]

\* One round over the mappings pm found from `begin' on.
VisitRound(pm, begin) ==
    FlattenSeq([i \in 1 .. Len(pm) |->
        (IF GapStart(pm, i, begin) < pm[i].offset
         THEN <<VisitHole(GapStart(pm, i, begin), pm[i].offset)>> ELSE <<>>) \o <<Visit(pm[i])>>])

\* A plausible bug: one round only, the rest of the range is taken for a hole.
ForeachOneRound(front, backing, s) ==
    LET pm == ComboLookup(front, backing, s, NMAPPING)
        rest == GapStart(pm, Len(pm) + 1, s.offset)
    IN VisitRound(pm, s.offset) \o (IF rest < End(s) THEN <<VisitHole(rest, End(s))>> ELSE <<>>)

Foreach(front, backing, s) ==
    LET from[left \in 0 .. s.length] ==   \* visits of the last `left' blocks of s
            LET begin == End(s) - left
                pm == ComboLookup(front, backing, Seg(begin, End(s)), NMAPPING)
                rest == GapStart(pm, Len(pm) + 1, begin)
                tail == IF rest < End(s) THEN <<VisitHole(rest, End(s))>> ELSE <<>>
            IN VisitRound(pm, begin) \o
               (IF Len(pm) < NMAPPING THEN tail ELSE from[End(s) - rest])
    IN from[s.length]

-------------------------------------------------------------------------------
(***************************************************************************)
(* merge_indexes(level, ..., [begin, end)) over layers[1] (topmost) to      *)
(* layers[n].  With change_tag the mappings are tagged with their level.     *)
(***************************************************************************)

\* A plausible bug: a mapping found below a gap is not cut to the gap.
MergeIndexesNoTrim(layers, span, changeTag) ==
    LET merge[level \in 0 .. Len(layers), begin \in 0 .. span, end \in 0 .. span] ==
            IF level = Len(layers) \/ begin >= end THEN <<>>
            ELSE LET below == [b, e \in 0 .. span |-> merge[level + 1, b, e]]
                     own == InOrder(Overlapped(layers[level + 1], Seg(begin, end)))
                     tagged == [i \in DOMAIN own |->
                                  IF changeTag THEN [own[i] EXCEPT !.tag = level] ELSE own[i]]
                 IN Walk(tagged, begin, end, below)
    IN ToSet(merge[0, 0, span])

MergeIndexes(layers, span, changeTag) ==
    LET merge[level \in 0 .. Len(layers), begin \in 0 .. span, end \in 0 .. span] ==
            IF level = Len(layers) \/ begin >= end THEN <<>>
            ELSE LET below == [b, e \in 0 .. span |-> merge[level + 1, b, e]]
                     own == InOrder(Overlapped(layers[level + 1], Seg(begin, end)))
                     tagged == [i \in DOMAIN own |->
                                  IF changeTag THEN [own[i] EXCEPT !.tag = level] ELSE own[i]]
                 IN TrimEdges(Walk(tagged, begin, end, below), Seg(begin, end))
    IN ToSet(merge[0, 0, span])

-------------------------------------------------------------------------------
\* A plausible bug: adjacent mappings are fused without comparing their mapped offsets.
FusableAnyMoffset(a, b) ==
    End(a) = b.offset /\ a.zeroed = b.zeroed /\ a.tag = b.tag /\ a.length + b.length < MaxLength

\* The condition on which compress_raw_index extends mapping a by mapping b.
Fusable(a, b) ==
    /\ End(a) = b.offset
    /\ Mend(a) = b.moffset
    /\ a.zeroed = b.zeroed
    /\ a.tag = b.tag
    /\ a.length + b.length < MaxLength

\* compress_raw_index on the array of the mappings of M.
CompressRawIndex(M) ==
    LET step(acc, m) ==
            IF acc # <<>> /\ Fusable(Last(acc), m)
            THEN Append(Front(acc), [Last(acc) EXCEPT !.length = @ + m.length])
            ELSE Append(acc, m)
    IN ToSet(FoldLeft(step, <<>>, InOrder(M)))
===============================================================================
