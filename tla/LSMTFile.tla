------------------------------- MODULE LSMTFile -------------------------------
(***************************************************************************)
(* A writable LSMT file over a stack of layers (class LSMTFile, file.cpp),   *)
(* used by concurrent threads: pwrite in append and hybrid mode, discard,    *)
(* pread, fsync with the group commit of index records, and restack, which   *)
(* seals the writable layer and puts a new one on top (live snapshot).       *)
(*                                                                          *)
(* Each index is the block map that Index0 is proved to implement and that   *)
(* ComboIndex is checked to implement: block |-> place.  Offsets in a data   *)
(* file are counted in blocks after the header.                              *)
(***************************************************************************)
EXTENDS Integers, Sequences

CONSTANTS Threads,          \* photon threads using the file
          NBlocks,          \* the device has blocks 0 .. NBlocks - 1
          Values,           \* what callers write
          Hybrid,           \* m_rw_type = Hybrid (TRUE) or Append (FALSE)
          BufSize,          \* m_stacked_mappings.size(); 0: no group commit
          MayFail,          \* what may fail: writes to "data" or "index" files, the
                            \* "sync" of either, the rename of the "config"
          Ops,              \* the kinds of calls the threads make
          MaxCalls,         \* bound on the number of calls
          MaxLayers         \* bound: layers 0 .. MaxLayers - 1 exist

Blocks == 0 .. NBlocks - 1

Layers == 0 .. MaxLayers - 1

None == "none"

ASSUME FileAssumption ==
    /\ NBlocks \in Nat /\ BufSize \in Nat /\ MaxCalls \in Nat
    /\ MaxLayers \in Nat /\ MaxLayers >= 2
    /\ Hybrid \in BOOLEAN /\ MayFail \subseteq {"data", "index", "sync", "config"}
    /\ Ops \subseteq {"pwrite", "discard", "pread", "fsync", "restack"}
    /\ None \notin Threads

\* What value v, written by a call, leaves in block b: the bytes of a buffer
\* differ from block to block.
Payload(v, b) == <<v, b>>

Zero == <<"zero", 0>>

\* Bytes no reader should see: a failed write, or the index and trailer of a seal.
Junk == <<"junk", 0>>

\* What the lowest layer holds.
Base == "base"

Content == ((Values \cup {Base}) \X Blocks) \cup {Zero, Junk}

Places == [kind : {"hole", "zero", "data"}, tag : Nat, moffset : Nat]

Hole == [kind |-> "hole", tag |-> 0, moffset |-> 0]
ZeroPlace == [kind |-> "zero", tag |-> 0, moffset |-> 0]
At(tag, moffset) == [kind |-> "data", tag |-> tag, moffset |-> moffset]

\* An index log record: a SegmentMapping; its tag is reset when it is loaded.
Records == [moffset : Nat, offset : Nat, length : Nat, zeroed : BOOLEAN]

Covers(r, b) == r.offset <= b /\ b < r.offset + r.length

\* A plausible bug: every block of a mapping is sent to its first block.
PutNoDelta(map, r, tag) ==
    [b \in Blocks |-> IF ~Covers(r, b) THEN map[b]
                      ELSE IF r.zeroed THEN ZeroPlace ELSE At(tag, r.moffset)]

Put(map, r, tag) ==
    [b \in Blocks |-> IF ~Covers(r, b) THEN map[b]
                      ELSE IF r.zeroed THEN ZeroPlace
                      ELSE At(tag, r.moffset + (b - r.offset))]

VARIABLES
    data,       \* data[l]: the blocks of the data file of layer l
    idx,        \* idx[l]: the records of the index file of layer l
    sealed,     \* sealed[l]: <<the index stored in data file l>>, or <<>>
    config,     \* the config file: the layers it names, as in m_files
    m_files,    \* m_files[tag]: the layer of the data file of that tag
    m_rw_tag,   \* the tag of the writable layer
    mapping,    \* the front index, the writable layer's own
    backing,    \* the backing index, the lower layers merged
    buffer,     \* m_stacked_mappings[0 .. nmapping-1]
    mtx,        \* the holder of m_rw_mtx, or None
    th,         \* th[t]: the call thread t is in
    calls,      \* calls made so far
    ddata,      \* ddata[l]: the data file of layer l as of its last fsync
    didx        \* didx[l]: the index file of layer l as of its last fsync

disk == <<data, idx, sealed, config, ddata, didx>>
stack == <<m_files, m_rw_tag, backing>>
vars == <<data, idx, sealed, config, m_files, m_rw_tag, mapping, backing, buffer, mtx, th,
          calls, ddata, didx>>

\* A call just begun: pc is where the thread is, off .. end - 1 its range, cur the
\* first block not yet done, val what it writes; pos, n and tag are locals of the
\* handlers; snap holds the mappings a read has looked up; ret is the last result.
CallOn(pc, off, end) ==
    [tag |-> 0, pc |-> pc, off |-> off, end |-> end, cur |-> off, val |-> None, pos |-> 0,
     n |-> 0, snap |-> [b \in Blocks |-> Hole], ret |-> "busy"]

\* A thread outside any call.
Idle == [CallOn("idle", 0, 0) EXCEPT !.ret = "ok"]

rw == m_files[m_rw_tag]

Goto(t, pc) == th' = [th EXCEPT ![t].pc = pc]

Return(t, ret) == th' = [th EXCEPT ![t] = [Idle EXCEPT !.ret = ret]]

\* A plausible bug: the index is changed under its readers.
NoReaderIgnored == TRUE

\* No reader holds m_index_rwlock: what a WLOCK waits for.
NoReader == \A t \in Threads : th[t].pc # "r_data"

-------------------------------------------------------------------------------
(***************************************************************************)
(* Index files.  Loading one replays its records in order: the last record   *)
(* that covers a block gives its place.                                      *)
(***************************************************************************)
\* The last record of log that covers b, if any does: no or one position.
LastCover(log, b) ==
    {i \in DOMAIN log :
        Covers(log[i], b) /\ \A j \in DOMAIN log : j > i => ~Covers(log[j], b)}

PlaceBy(r, tag, b) ==
    IF r.zeroed THEN ZeroPlace ELSE At(tag, r.moffset + (b - r.offset))

Replay(log, tag) ==
    [b \in Blocks |->
        IF LastCover(log, b) = {} THEN Hole
        ELSE PlaceBy(log[CHOOSE i \in LastCover(log, b) : TRUE], tag, b)]

\* A plausible bug: a record that ends at the end of the file is refused.
LoadableStrict(log, size) ==
    \A i \in DOMAIN log : log[i].length > 0 =>
        IF log[i].zeroed THEN log[i].moffset <= size
        ELSE log[i].moffset < size /\ log[i].moffset + log[i].length < size

\* create_memory_index0 refuses an index with a record outside its data file.
Loadable(log, size) ==
    \A i \in DOMAIN log : log[i].length > 0 =>
        IF log[i].zeroed THEN log[i].moffset <= size
        ELSE log[i].moffset < size /\ log[i].moffset + log[i].length <= size

Invalid == [moffset |-> 0, offset |-> NBlocks, length |-> 0, zeroed |-> FALSE]

\* A plausible bug: the last buffered record is overwritten by the padding.
PaddedDropsLast(buf) ==
    SubSeq(buf, 1, Len(buf) - 1) \o [i \in 1 .. BufSize - Len(buf) + 1 |-> Invalid]

\* m_stacked_mappings filled up with invalid mappings before it is written.
Padded(buf) == buf \o [i \in 1 .. BufSize - Len(buf) |-> Invalid]

\* do_group_commit_mappings: the padded buffer reaches the index file of layer rw
\* and is emptied, or the write fails and the padding stays in the buffer.
GroupCommit(buf) ==
    \/ /\ buf = <<>> /\ buffer' = buf /\ UNCHANGED idx
    \/ /\ buf # <<>> /\ buffer' = <<>> /\ idx' = [idx EXCEPT ![rw] = @ \o Padded(buf)]
    \/ /\ buf # <<>> /\ "index" \in MayFail /\ buffer' = Padded(buf) /\ UNCHANGED idx

\* A record stored past the end of m_stacked_mappings: what a later commit copies
\* from there is undefined.
Undefined == [Invalid EXCEPT !.offset = NBlocks + 1]

\* What m_stacked_mappings[nmapping++] = r adds to the buffer: it is not checked
\* against the size, which a failed commit leaves nmapping at.
Buffered(r) == Append(buffer, IF Len(buffer) < BufSize THEN r ELSE Undefined)

\* append_index: write the record, or buffer it and commit the buffer when it is
\* full.  A failed write goes unnoticed.
AppendIndex(r) ==
    \/ /\ BufSize = 0
       /\ \/ idx' = [idx EXCEPT ![rw] = Append(@, r)]
          \/ "index" \in MayFail /\ UNCHANGED idx
       /\ UNCHANGED buffer
    \/ /\ BufSize > 0
       /\ IF Len(buffer) + 1 = BufSize THEN GroupCommit(Buffered(r))
          ELSE buffer' = Buffered(r) /\ UNCHANGED idx

-------------------------------------------------------------------------------
\* A layer 0 with content of its own, sealed, under an empty layer 1.
Init ==
    /\ data = [l \in Layers |-> IF l = 0 THEN [i \in 1 .. NBlocks |-> Payload(Base, i - 1)]
                                ELSE <<>>]
    /\ idx = [l \in Layers |-> <<>>]
    /\ sealed = [l \in Layers |-> IF l = 0 THEN <<[b \in Blocks |-> At(0, b)]>> ELSE <<>>]
    /\ m_files = [i \in 0 .. 1 |-> i]
    /\ m_rw_tag = 1
    /\ config = m_files
    /\ mapping = [b \in Blocks |-> Hole]
    /\ backing = [b \in Blocks |-> At(0, b)]
    /\ buffer = <<>>
    /\ mtx = None
    /\ th = [t \in Threads |-> Idle]
    /\ calls = 0
    /\ ddata = data
    /\ didx = idx

-------------------------------------------------------------------------------
(***************************************************************************)
(* Calls.  Each takes its arguments and goes to its first step.              *)
(***************************************************************************)
Begin(t, op, call) ==
    /\ op \in Ops /\ th[t].pc = "idle" /\ calls < MaxCalls
    /\ calls' = calls + 1
    /\ th' = [th EXCEPT ![t] = call]
    /\ UNCHANGED <<disk, stack, mapping, buffer, mtx>>

\* A range of at most MAX_IO_SIZE: a longer one is written by calls of pwrite on its
\* pieces, each with a critical section of its own.
CallPwrite(t) ==
    \E off \in Blocks : \E end \in off + 1 .. NBlocks : \E v \in Values :
        Begin(t, "pwrite", [CallOn("w_lock", off, end) EXCEPT !.val = v])

CallPread(t) ==
    \E off \in Blocks : \E end \in off + 1 .. NBlocks :
        Begin(t, "pread", CallOn("r_lock", off, end))

\* discard reads the end of the data file and the tag before it takes the lock.
CallDiscard(t) ==
    \E off \in Blocks : \E end \in off + 1 .. NBlocks :
        Begin(t, "discard", [CallOn("d_lock", off, end)
                                EXCEPT !.pos = Len(data[rw]), !.tag = m_rw_tag])

\* The tag only records which layer is writable when the call begins.
CallFsync(t) == Begin(t, "fsync", [CallOn("s_flush", 0, 0) EXCEPT !.tag = m_rw_tag])

\* A layer just created, to be the next upper one.
Fresh(l) == data[l] = <<>> /\ idx[l] = <<>> /\ sealed[l] = <<>> /\ l # rw

\* Snapshots of a device are taken one at a time: the config of the next names the
\* upper layer that the previous one installed.
CallRestack(t) ==
    /\ \E l \in Layers : Fresh(l)
    /\ \A u \in Threads : th[u].pc \notin {"k_lock", "k_rename"}
    /\ Begin(t, "restack", CallOn("k_lock", 0, 0))

Lock(t, from, to) ==
    /\ th[t].pc = from /\ mtx = None
    /\ mtx' = t
    /\ Goto(t, to)
    /\ UNCHANGED <<disk, stack, mapping, buffer, calls>>

-------------------------------------------------------------------------------
(***************************************************************************)
(* pwrite.  Under m_rw_mtx, the range is walked in runs: a run already       *)
(* mapped to data of the writable layer is rewritten in place in hybrid      *)
(* mode, any other run is appended, inserted and logged.                     *)
(***************************************************************************)
WLock(t) == Lock(t, "w_lock", "w_loop")

\* A plausible bug: a discarded block is taken for a stored one.
OwnedZeroed(b) == Hybrid /\ mapping[b].kind # "hole"

\* The writable layer already stores block b.
Owned(b) == Hybrid /\ mapping[b].kind = "data" /\ mapping[b].tag = m_rw_tag

\* The next n blocks of t's range form a run that one update_mapping call may take:
\* the mappings of the front index cut the range, so a run may be shorter than it
\* could be; without hybrid mode the whole range is one run.
Run(t, n, owned) ==
    /\ th[t].pc = "w_loop"
    /\ n \in 1 .. th[t].end - th[t].cur
    /\ ~Hybrid => n = th[t].end - th[t].cur
    /\ \A b \in th[t].cur .. th[t].cur + n - 1 : Owned(b) = owned
    /\ owned => \A b \in th[t].cur .. th[t].cur + n - 1 :
                    mapping[b].moffset = mapping[th[t].cur].moffset + (b - th[t].cur)

Buf(t, n) == [i \in 1 .. n |-> Payload(th[t].val, th[t].cur + i - 1)]

\* append(): lseek to the end, write.
WAppend(t) ==
    \E n \in 1 .. NBlocks :
        /\ Run(t, n, FALSE)
        /\ data' = [data EXCEPT ![rw] = @ \o Buf(t, n)]
        /\ th' = [th EXCEPT ![t].pc = "w_insert", ![t].pos = Len(data[rw]), ![t].n = n]
        /\ UNCHANGED <<idx, sealed, config, ddata, didx, stack, mapping, buffer, mtx, calls>>

\* A short write: the file grows by less than the run and the call fails.
WAppendFail(t) ==
    \E n \in 1 .. NBlocks : \E k \in 0 .. n - 1 :
        /\ "data" \in MayFail
        /\ Run(t, n, FALSE)
        /\ data' = [data EXCEPT ![rw] = @ \o [i \in 1 .. k |-> Junk]]
        /\ mtx' = None
        /\ Return(t, "err")
        /\ UNCHANGED <<idx, sealed, config, ddata, didx, stack, mapping, buffer, calls>>

Rec(t, zeroed) == [moffset |-> th[t].pos, offset |-> th[t].cur, length |-> th[t].n,
                   zeroed |-> zeroed]

\* A plausible bug: the lock is released between the insert and its log record.
WInsertUnlocks(t) ==
    /\ th[t].pc = "w_insert" /\ NoReader
    /\ mapping' = Put(mapping, Rec(t, FALSE), m_rw_tag)
    /\ mtx' = None
    /\ th' = [th EXCEPT ![t].pc = "w_log", ![t].cur = @ + th[t].n]
    /\ UNCHANGED <<disk, stack, buffer, calls>>

\* index_insert(): waits for the readers of the index to leave.
WInsert(t) ==
    /\ th[t].pc = "w_insert" /\ NoReader
    /\ mapping' = Put(mapping, Rec(t, FALSE), m_rw_tag)
    /\ th' = [th EXCEPT ![t].pc = "w_log", ![t].cur = @ + th[t].n]
    /\ UNCHANGED <<disk, stack, buffer, mtx, calls>>

\* append_index() of the record just inserted.
WLog(t) ==
    /\ th[t].pc = "w_log"
    /\ AppendIndex([Rec(t, FALSE) EXCEPT !.offset = th[t].cur - th[t].n])
    /\ th' = [th EXCEPT ![t].pc = "w_loop", ![t].pos = 0, ![t].n = 0]
    /\ UNCHANGED <<data, sealed, config, ddata, didx, stack, mapping, mtx, calls>>

\* The content of the data file once the first n blocks at moffset m are rewritten.
Rewritten(t, m, n) ==
    [i \in DOMAIN data[rw] |->
        IF m < i /\ i <= m + n THEN Payload(th[t].val, th[t].cur + (i - 1 - m)) ELSE data[rw][i]]

WRewrite(t) ==
    \E n \in 1 .. NBlocks :
        /\ Run(t, n, TRUE)
        /\ data' = [data EXCEPT ![rw] = Rewritten(t, mapping[th[t].cur].moffset, n)]
        /\ th' = [th EXCEPT ![t].cur = @ + n]
        /\ UNCHANGED <<idx, sealed, config, ddata, didx, stack, mapping, buffer, mtx, calls>>

\* A rewrite that stops after k of its n blocks.
WRewriteFail(t) ==
    \E n \in 1 .. NBlocks : \E k \in 0 .. n - 1 :
        /\ "data" \in MayFail
        /\ Run(t, n, TRUE)
        /\ data' = [data EXCEPT ![rw] = Rewritten(t, mapping[th[t].cur].moffset, k)]
        /\ mtx' = None
        /\ Return(t, "err")
        /\ UNCHANGED <<idx, sealed, config, ddata, didx, stack, mapping, buffer, calls>>

WReturn(t) ==
    /\ th[t].pc = "w_loop" /\ th[t].cur = th[t].end
    /\ mtx' = None
    /\ Return(t, "ok")
    /\ UNCHANGED <<disk, stack, mapping, buffer, calls>>

-------------------------------------------------------------------------------
(***************************************************************************)
(* discard: insert a zeroed mapping and log it, in one critical section.      *)
(***************************************************************************)
DLock(t) == Lock(t, "d_lock", "d_insert")

DRec(t) == [moffset |-> th[t].pos, offset |-> th[t].off, length |-> th[t].end - th[t].off,
            zeroed |-> TRUE]

DInsert(t) ==
    /\ th[t].pc = "d_insert" /\ NoReader
    /\ mapping' = Put(mapping, DRec(t), th[t].tag)
    /\ th' = [th EXCEPT ![t].pc = "d_log", ![t].cur = th[t].end]
    /\ UNCHANGED <<disk, stack, buffer, mtx, calls>>

DLog(t) ==
    /\ th[t].pc = "d_log"
    /\ AppendIndex(DRec(t))
    /\ mtx' = None
    /\ Return(t, "ok")
    /\ UNCHANGED <<data, sealed, config, ddata, didx, stack, mapping, calls>>

-------------------------------------------------------------------------------
(***************************************************************************)
(* pread.  The read lock of the index is held from the lookup until the       *)
(* last segment has been read from its data file.                             *)
(***************************************************************************)
Seen(b) == IF mapping[b].kind # "hole" THEN mapping[b] ELSE backing[b]

\* The content at a place; do_pread fills what lies past the end with zeroes.
Fetch(place) ==
    IF place.kind = "data" /\ place.moffset < Len(data[m_files[place.tag]])
    THEN data[m_files[place.tag]][place.moffset + 1]
    ELSE Zero

\* No thread is between the steps of a call that needs WLOCK: those are single steps
\* here, so a reader can always enter.
RLock(t) ==
    /\ th[t].pc = "r_lock"
    /\ th' = [th EXCEPT ![t].pc = "r_data", ![t].snap = [b \in Blocks |-> Seen(b)]]
    /\ UNCHANGED <<disk, stack, mapping, buffer, mtx, calls>>

\* A plausible bug: the walk visits the same segment again and again.
RDataStuck(t) ==
    /\ th[t].pc = "r_data" /\ th[t].cur < th[t].end
    /\ UNCHANGED vars

\* Read one segment.
RData(t) ==
    /\ th[t].pc = "r_data"
    /\ \E n \in 1 .. th[t].end - th[t].cur : th' = [th EXCEPT ![t].cur = @ + n]
    /\ UNCHANGED <<disk, stack, mapping, buffer, mtx, calls>>

RReturn(t) ==
    /\ th[t].pc = "r_data" /\ th[t].cur = th[t].end
    /\ Return(t, "ok")
    /\ UNCHANGED <<disk, stack, mapping, buffer, mtx, calls>>

-------------------------------------------------------------------------------
(***************************************************************************)
(* fsync.  Buffered records are committed under m_rw_mtx; the two files are   *)
(* synced after it is released, each looked up at that moment.  The results    *)
(* of the two syncs are ignored: the call returns 0 when one fails.            *)
(***************************************************************************)
SFlush(t) ==
    /\ th[t].pc = "s_flush" /\ mtx = None
    /\ GroupCommit(buffer)
    /\ IF buffer' = <<>> THEN Goto(t, "s_data") ELSE Return(t, "err")
    /\ UNCHANGED <<data, sealed, config, ddata, didx, stack, mapping, mtx, calls>>

\* The data file is synced.
SyncData == ddata' = [ddata EXCEPT ![rw] = data[rw]]

SData(t) ==
    /\ th[t].pc = "s_data"
    /\ \/ SyncData
       \/ "sync" \in MayFail /\ UNCHANGED ddata
    /\ Goto(t, "s_index")
    /\ UNCHANGED <<data, idx, sealed, config, didx, stack, mapping, buffer, mtx, calls>>

\* A plausible bug: fsync forgets the index file.
SyncIndexNone == UNCHANGED didx

\* The index file is synced.
SyncIndex == didx' = [didx EXCEPT ![rw] = idx[rw]]

SIndex(t) ==
    /\ th[t].pc = "s_index"
    /\ \/ SyncIndex
       \/ "sync" \in MayFail /\ UNCHANGED didx
    /\ Return(t, "ok")
    /\ UNCHANGED <<data, idx, sealed, config, ddata, stack, mapping, buffer, mtx, calls>>

-------------------------------------------------------------------------------
(***************************************************************************)
(* restack, called by ImageFile::create_snapshot.  With both locks held the   *)
(* writable layer is loaded from its files and sealed: the index is written   *)
(* behind the data.  The new layer l goes on top and the front index moves    *)
(* into the backing one.  The new config replaces the old one afterwards.     *)
(***************************************************************************)
\* A plausible bug: the tags of the backing index move down.
CommittedShiftDown(b) ==
    CASE mapping[b].kind = "data" -> [mapping[b] EXCEPT !.tag = 0]
      [] mapping[b].kind = "zero" -> mapping[b]
      [] backing[b].kind = "data" -> [backing[b] EXCEPT !.tag = @ - 1]
      [] OTHER                    -> backing[b]

\* commit_index0, block by block: the front, now tag 0, over the renumbered backing.
Committed(b) ==
    CASE mapping[b].kind = "data" -> [mapping[b] EXCEPT !.tag = 0]
      [] mapping[b].kind = "zero" -> mapping[b]
      [] backing[b].kind = "data" -> [backing[b] EXCEPT !.tag = @ + 1]
      [] OTHER                    -> backing[b]

\* A plausible bug: the sealed file stays the writable one.
StackedNoSwitch(l) ==
    [tag \in 0 .. m_rw_tag + 1 |-> IF tag = 0 THEN rw ELSE m_files[tag - 1]]

\* m_files once the sealed layer has moved to the front and l is on top.
Stacked(l) ==
    [tag \in 0 .. m_rw_tag + 1 |->
        CASE tag = 0 -> rw [] tag = m_rw_tag + 1 -> l [] OTHER -> m_files[tag - 1]]

Restack(t) ==
    \E l \in Layers :
        /\ th[t].pc = "k_lock" /\ mtx = None /\ NoReader
        /\ Fresh(l) /\ Loadable(idx[rw], Len(data[rw]))
        /\ sealed' = [sealed EXCEPT ![rw] = <<Replay(idx[rw], 0)>>]
        /\ data' = [data EXCEPT ![rw] = Append(@, Junk)]
        /\ m_files' = Stacked(l)
        /\ m_rw_tag' = m_rw_tag + 1
        /\ backing' = [b \in Blocks |-> Committed(b)]
        /\ mapping' = [b \in Blocks |-> Hole]
        /\ Goto(t, "k_rename")
        /\ UNCHANGED <<idx, config, ddata, didx, buffer, mtx, calls>>

\* The layer cannot be loaded, or writing its index or trailer fails.
RestackFail(t) ==
    /\ th[t].pc = "k_lock" /\ mtx = None /\ NoReader
    /\ \/ ~Loadable(idx[rw], Len(data[rw])) /\ UNCHANGED data
       \/ /\ "data" \in MayFail /\ Loadable(idx[rw], Len(data[rw]))
          /\ data' = [data EXCEPT ![rw] = Append(@, Junk)]
    /\ Return(t, "err")
    /\ UNCHANGED <<idx, sealed, config, ddata, didx, stack, mapping, buffer, mtx, calls>>

\* rename() of the new config file over the one in use; if it fails the call fails,
\* and the new stack stays in use.
Rename(t) ==
    /\ th[t].pc = "k_rename"
    /\ \/ config' = m_files /\ Return(t, "ok")
       \/ "config" \in MayFail /\ UNCHANGED config /\ Return(t, "err")
    /\ UNCHANGED <<data, idx, sealed, ddata, didx, stack, mapping, buffer, mtx, calls>>

-------------------------------------------------------------------------------
Call(t) ==
    \/ CallPwrite(t) \/ CallPread(t) \/ CallDiscard(t) \/ CallFsync(t) \/ CallRestack(t)

Step(t) ==
    \/ WLock(t) \/ WAppend(t) \/ WAppendFail(t) \/ WInsert(t) \/ WLog(t)
    \/ WRewrite(t) \/ WRewriteFail(t) \/ WReturn(t)
    \/ DLock(t) \/ DInsert(t) \/ DLog(t)
    \/ RLock(t) \/ RData(t) \/ RReturn(t)
    \/ SFlush(t) \/ SData(t) \/ SIndex(t)
    \/ Restack(t) \/ RestackFail(t) \/ Rename(t)

\* The bound on calls is reached and all have returned.
Quiescent ==
    /\ calls = MaxCalls /\ \A t \in Threads : th[t].pc = "idle"
    /\ UNCHANGED vars

Next == (\E t \in Threads : Call(t) \/ Step(t)) \/ Quiescent

Spec == Init /\ [][Next]_vars

\* Every thread keeps running its call; photon schedules a runnable thread.
FairSpec == Spec /\ \A t \in Threads : WF_vars(Step(t))

-------------------------------------------------------------------------------
(***************************************************************************)
(* Properties.                                                              *)
(***************************************************************************)
PCs == {"idle", "w_lock", "w_loop", "w_insert", "w_log", "d_lock", "d_insert", "d_log",
        "r_lock", "r_data", "s_flush", "s_data", "s_index", "k_lock", "k_rename"}

Places1 == [Blocks -> Places]

CallStates == [tag : Nat, pc : PCs, off : 0 .. NBlocks, end : 0 .. NBlocks, cur : 0 .. NBlocks,
               val : Values \cup {None}, pos : Nat, n : 0 .. NBlocks,
               snap : Places1, ret : {"ok", "err", "busy"}]

\* Files hold blocks and records, m_files names a layer for each tag up to m_rw_tag, the
\* indexes give every block a place, and every thread is at a step of a handler.
TypeOK ==
    /\ data \in [Layers -> Seq(Content)] /\ ddata \in [Layers -> Seq(Content)]
    /\ idx \in [Layers -> Seq(Records)] /\ didx \in [Layers -> Seq(Records)]
    /\ sealed \in [Layers -> Seq(Places1)]
    /\ m_rw_tag \in Nat /\ m_files \in [0 .. m_rw_tag -> Layers]
    /\ DOMAIN config \subseteq Nat /\ \A i \in DOMAIN config : config[i] \in Layers
    /\ mapping \in Places1 /\ backing \in Places1
    /\ buffer \in Seq(Records)
    /\ mtx \in Threads \cup {None}
    /\ th \in [Threads -> CallStates]
    /\ calls \in 0 .. MaxCalls

\* The content of the device as its users see it.
View(b) == Fetch(Seen(b))

Writing(t) == th[t].pc \in {"w_lock", "w_loop", "w_insert", "w_log", "d_lock", "d_insert", "d_log"}

Dev == INSTANCE BlockDevice
         WITH dev <- [b \in Blocks |-> View(b)],
              todo <- [t \in Threads |->
                          [b \in (IF Writing(t) THEN th[t].cur .. th[t].end - 1 ELSE {}) |->
                              IF th[t].val = None THEN Zero ELSE Payload(th[t].val, b)]],
              ret <- [t \in Threads |-> th[t].ret]

(***************************************************************************)
(* The layers, the log-structured data files, rewrites in place, buffered     *)
(* records, failed writes and restacks together still look like an array of   *)
(* blocks: pwrite and discard change the blocks of their own range to their   *)
(* own content, all of them before they report success; no other step of any  *)
(* handler, a restack in particular, changes what a reader sees.              *)
(***************************************************************************)
ImplementsBlockDevice == Dev!Spec

(***************************************************************************)
(* A read uses the places it looked up until its last segment is read: as     *)
(* long as it holds the read lock, each still leads to the block's current    *)
(* content, and its tag still names the same file.                            *)
(***************************************************************************)
ReadersSeeView ==
    \A t \in Threads : th[t].pc = "r_data" =>
        \A b \in th[t].cur .. th[t].end - 1 :
            /\ th[t].snap[b].kind = "data" => th[t].snap[b].tag \in DOMAIN m_files
            /\ Fetch(th[t].snap[b]) = View(b)

(***************************************************************************)
(* No two blocks of the device share a block of the writable data file, so a  *)
(* rewrite in place never changes another block; and every mapped block lies  *)
(* inside its file, so a read never falls back on filling zeroes.             *)
(***************************************************************************)
NoAliasing ==
    /\ \A a, b \in Blocks :
          a # b /\ mapping[a].kind = "data" /\ mapping[b].kind = "data"
            => mapping[a].moffset # mapping[b].moffset
    /\ \A b \in Blocks : mapping[b].kind = "data" =>
          mapping[b].tag = m_rw_tag /\ mapping[b].moffset < Len(data[rw])

\* Blocks whose mapping is inserted and whose record is about to be logged.
Unlogged ==
    UNION {IF th[t].pc = "w_log" THEN th[t].cur - th[t].n .. th[t].cur - 1
           ELSE IF th[t].pc = "d_log" THEN th[t].off .. th[t].end - 1 ELSE {} : t \in Threads}

(***************************************************************************)
(* The records written and buffered, replayed in order, give the in-memory    *)
(* front index except for the blocks the lock holder is about to log.         *)
(***************************************************************************)
LogReplays ==
    \A b \in Blocks \ Unlogged : Replay(idx[rw] \o buffer, m_rw_tag)[b] = mapping[b]

\* A record was stored past the end of the buffer.
Overrun == \E i \in DOMAIN (idx[rw] \o buffer) : (idx[rw] \o buffer)[i] = Undefined

(***************************************************************************)
(* The insert and its index log record are one critical section: no other     *)
(* writer, discard, sync or restack comes in between, so log and buffer       *)
(* together always replay to the index.  A failed group commit keeps its      *)
(* records for the next one; if a write comes before that, it overruns the    *)
(* buffer, and nothing is claimed of the log from there on.                   *)
(***************************************************************************)
LogMatchesIndex == Overrun \/ LogReplays

(***************************************************************************)
(* A sealed layer is never written again through the file that sealed it.     *)
(***************************************************************************)
SealedImmutable ==
    [][\A l \in Layers : sealed[l] # <<>> => data'[l] = data[l] /\ idx'[l] = idx[l]]_vars

(***************************************************************************)
(* Every call returns: the walks of pwrite and pread over their ranges come   *)
(* to an end, and writers, who hold m_rw_mtx while they wait for the readers  *)
(* of the index, readers, syncs and a restack, which needs both locks, do not *)
(* keep each other waiting for ever.                                          *)
(***************************************************************************)
CallsReturn == \A t \in Threads : th[t].ret = "busy" ~> th[t].ret # "busy"
===============================================================================
