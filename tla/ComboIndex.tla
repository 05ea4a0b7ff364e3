------------------------------ MODULE ComboIndex ------------------------------
(***************************************************************************)
(* The index of a stack of layers: a writable front (ComboIndex::mapping)   *)
(* over a read-only backing index, tagged with positions in m_files, and    *)
(* the three things that rewrite tags and mappings wholesale: a restack     *)
(* (LSMTFile::reserve_top_layer and ComboIndex::commit_index0), a flatten    *)
(* (make_read_only_index) and a reopening of the image from its layers       *)
(* (merge_memory_indexes, stack_files and the ComboIndex constructor).       *)
(***************************************************************************)
EXTENDS IndexOps

CONSTANTS Span,             \* the device has logical blocks 0 .. Span - 1
          Writes,           \* the mappings a write or discard inserts, tag left 0
          MaxFiles          \* bound: data files 0 .. MaxFiles - 1 exist

ASSUME ComboAssumption ==
    /\ Writes \subseteq Mappings
    /\ \A m \in Writes : End(m) <= Span /\ m.tag = 0

VARIABLES mapping,          \* the front index: the writable layer's mappings
          backing,          \* m_backing_index: the merged lower layers
          m_files,          \* m_files[tag + 1] is the data file of that tag
          m_rw_tag,         \* the tag of the writable layer
          own,              \* own[f]: the index stored with file f, tag 0
          discarding        \* a discard that has taken its tag and waits for m_rw_mtx

vars == <<mapping, backing, m_files, m_rw_tag, own, discarding>>

NoDiscard == [waiting |-> FALSE]

LogicalBlocks == 0 .. Span - 1

Files == 0 .. MaxFiles - 1

\* An image of one empty sealed layer, file 0, under an empty writable one, file 1.
Init ==
    /\ mapping = {} /\ backing = {}
    /\ m_files = <<0, 1>> /\ m_rw_tag = 1
    /\ own = [f \in Files |-> {}]
    /\ discarding = NoDiscard

\* index_insert and append_index: m goes to the front index with the tag it has,
\* and its record to the log of the file that is writable now; load_index reads
\* every record back with tag 0.
InsertAndLog(m) ==
    /\ mapping' = Insert(mapping, m)
    /\ own' = [own EXCEPT ![m_files[m_rw_tag + 1]] = Insert(@, [m EXCEPT !.tag = 0])]
    /\ UNCHANGED <<backing, m_files, m_rw_tag>>

\* LSMTFile::pwrite: the mapping is tagged under m_rw_mtx.
Insert0(w) ==
    /\ ~w.zeroed
    /\ InsertAndLog([w EXCEPT !.tag = m_rw_tag])
    /\ UNCHANGED discarding

\* LSMTFile::discard takes the tag before it takes m_rw_mtx ...
Discard(w) ==
    /\ w.zeroed /\ discarding = NoDiscard
    /\ discarding' = [waiting |-> TRUE, m |-> [w EXCEPT !.tag = m_rw_tag]]
    /\ UNCHANGED <<mapping, backing, m_files, m_rw_tag, own>>

\* ... and inserts the mapping once it holds it, perhaps after a restack.
Discarded ==
    /\ discarding.waiting
    /\ InsertAndLog(discarding.m)
    /\ discarding' = NoDiscard

\* A plausible bug: the backing index keeps the tags it had before the new layer.
CommitIndex0NoShift(front, back) ==
    LET step(acc, m) == Insert(acc, [m EXCEPT !.tag = 0])
    IN FoldLeft(step, back, InOrder(CompressRawIndex(front)))

\* ComboIndex::commit_index0: shift the tags of the backing index, then insert
\* the compressed front into it with tag 0.
CommitIndex0(front, back) ==
    LET shifted == {[m EXCEPT !.tag = @ + 1] : m \in back}
        step(acc, m) == Insert(acc, [m EXCEPT !.tag = 0])
    IN FoldLeft(step, shifted, InOrder(CompressRawIndex(front)))

\* LSMTFile::reserve_top_layer with the empty new layer of file f.
Restack(f) ==
    LET sealed == m_files[m_rw_tag + 1]
    IN /\ f = Len(m_files) /\ own[f] = {}
       /\ m_files' = [<<sealed>> \o m_files EXCEPT ![m_rw_tag + 2] = f]
       /\ m_rw_tag' = m_rw_tag + 1
       /\ backing' = CommitIndex0(mapping, backing)
       /\ mapping' = {}
       /\ UNCHANGED <<own, discarding>>

\* A plausible bug: the constructor leaves the writable layer's tags at 0.
StackFrontUntagged(u, nro) == u

\* The ComboIndex constructor: tags of the writable layer move past the lower ones.
StackFront(u, nro) == {[m EXCEPT !.tag = @ + nro] : m \in u}

\* The image is closed and opened again from its layers: open_files_ro merges the
\* lower ones, stack_files puts the writable one on top.
Reopen ==
    LET lowers == SubSeq(m_files, 1, m_rw_tag)
    IN /\ discarding = NoDiscard
       /\ backing' = MergeIndexes([i \in DOMAIN lowers |-> own[lowers[i]]], Span, TRUE)
       /\ mapping' = StackFront(own[m_files[m_rw_tag + 1]], Len(lowers))
       /\ UNCHANGED <<m_files, m_rw_tag, own, discarding>>

Next ==
    \/ \E w \in Writes : Insert0(w)
    \/ \E w \in Writes : Discard(w)
    \/ Discarded
    \/ \E f \in Files : Restack(f)
    \/ Reopen

Spec == Init /\ [][Next]_vars

-------------------------------------------------------------------------------
\* Mappings on either side of the combo index keep the field ranges of SegmentMapping.
TypeOK ==
    /\ mapping \subseteq Mappings /\ backing \subseteq Mappings
    /\ m_files \in Seq(Files) /\ m_rw_tag \in 0 .. MaxFiles
    /\ own \in [Files -> SUBSET Mappings]
    /\ discarding = NoDiscard \/ discarding.m \in Mappings

\* The place of block b seen through the two indexes, as a tag and a mapped offset.
Seen(b) == LET front == Locate(mapping, b) IN IF front # Hole THEN front ELSE Locate(backing, b)

\* The mapping that decides about block b, if there is one, as a set.
Deciding(b) ==
    LET front == {m \in mapping : Covers(m, b)}
    IN IF front # {} THEN front ELSE {m \in backing : Covers(m, b)}

\* The place of block b with the tag resolved to a data file.
Stored(b) ==
    LET ms == Deciding(b)
    IN IF ms = {} THEN Hole
       ELSE Place([(CHOOSE m \in ms : TRUE) EXCEPT !.tag = m_files[@ + 1]], b)

\* What a call may do to the block map: zero its blocks, or send them to a file
\* that is writable at some time (file 0 is sealed from the start).
Redirections ==
    {w \in Writes : w.zeroed} \cup
    {[w EXCEPT !.tag = f] : w \in {v \in Writes : ~v.zeroed}, f \in Files \ {0}}

BM == INSTANCE BlockMap
        WITH place <- [b \in LogicalBlocks |-> Stored(b)],
             Inputs <- Redirections

(***************************************************************************)
(* The stack behaves as one block map: a write redirects its own blocks to   *)
(* the writable file, and neither a restack, which renumbers every tag, nor  *)
(* a reopening, which rebuilds both indexes, moves any block.                *)
(***************************************************************************)
ImplementsBlockMap == BM!Spec

(***************************************************************************)
(* A rewrite in place trusts the tag of a front mapping that holds data, so  *)
(* it is the writable layer's: no rewrite can land in a sealed layer.  A     *)
(* discard that lost a race with a restack leaves a zeroed mapping with an   *)
(* older tag, never a newer one.  The backing index names sealed layers      *)
(* only, and every tag is a position of m_files.                             *)
(***************************************************************************)
TagsMatchLayers ==
    /\ m_rw_tag + 1 = Len(m_files)
    /\ \A m \in mapping : IF m.zeroed THEN m.tag <= m_rw_tag ELSE m.tag = m_rw_tag
    /\ \A m \in backing : m.tag < m_rw_tag

\* A visit of foreach_segments reports the place of each of its blocks.
VisitRight(v) ==
    \A b \in v.offset .. v.offset + v.length - 1 :
        LET l == Seen(b)
        IN IF v.zero THEN l.kind # "data" ELSE l = At(v.tag, v.moffset + (b - v.offset))

(***************************************************************************)
(* A read walks a range in rounds of bounded lookups through both indexes:   *)
(* whatever the rounds cut, the visited segments tile the range in order and *)
(* each reports the true place of its blocks.                                *)
(***************************************************************************)
ForeachExact ==
    \A begin \in LogicalBlocks : \A end \in begin + 1 .. Span :
        LET vs == Foreach(mapping, backing, Seg(begin, end))
        IN /\ \A i \in DOMAIN vs : vs[i].length > 0 /\ VisitRight(vs[i])
           /\ \A i \in DOMAIN vs : vs[i].offset = GapStart(vs, i, begin)
           /\ End(vs[Len(vs)]) = end

(***************************************************************************)
(* make_read_only_index, used to flatten a device, merges the two indexes    *)
(* into one well-formed index with the same place for every block.           *)
(***************************************************************************)
FlattenExact ==
    LET flat == MergeIndexes(<<mapping, backing>>, Span, FALSE)
    IN WellFormed(flat) /\ \A b \in LogicalBlocks : Locate(flat, b) = Seen(b)

(***************************************************************************)
(* compress_raw_index, run before an index is written, moves no block.       *)
(***************************************************************************)
CompressExact ==
    LET c == CompressRawIndex(mapping)
    IN WellFormed(c) /\ \A b \in LogicalBlocks : Locate(c, b) = Locate(mapping, b)
===============================================================================
