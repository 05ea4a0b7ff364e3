---------------------------- MODULE LSMTFileSafety ----------------------------
(***************************************************************************)
(* What the inductive invariant of LSMTFileProofs implies: readers, sealed     *)
(* layers and the index log.                                                  *)
(***************************************************************************)
EXTENDS LSMTFileProofs

(***************************************************************************)
(* The places a pread has looked up lead to the current content of their       *)
(* blocks until its last segment is read: index changes and restacks wait for  *)
(* the read lock, and rewrites in place leave places alone.                    *)
(***************************************************************************)
THEOREM ReadersSeeViewAlways == Spec => []ReadersSeeView
<1>1. ASSUME IInv PROVE ReadersSeeView
  <2> SUFFICES ASSUME NEW t \in Threads, th[t].pc = "r_data", NEW b \in th[t].cur .. th[t].end - 1
               PROVE  /\ th[t].snap[b].kind = "data" => th[t].snap[b].tag \in DOMAIN m_files
                      /\ Fetch(th[t].snap[b]) = View(b)
    BY DEF ReadersSeeView
  <2>1. TypeOK /\ th[t] \in CallStates /\ ReaderOK(t)
    BY <1>1, TypeFacts DEF IInv
  <2>2. b \in Blocks
    BY <2>1, FileAssumption DEF CallStates, Blocks
  <2>3. th[t].snap[b] = Seen(b)
    BY <2>1, <2>2 DEF ReaderOK
  <2>4. DOMAIN m_files = 0 .. m_rw_tag /\ m_rw_tag \in Nat /\ backing[b].tag \in Nat
    BY <2>1, <2>2, TypeFacts
  <2>5. Seen(b).kind = "data" => Seen(b).tag \in 0 .. m_rw_tag
    <3>1. CASE mapping[b].kind # "hole"
      BY <1>1, <2>2, <2>4, <3>1 DEF IInv, NoAliasing, Seen
    <3>2. CASE mapping[b].kind = "hole"
      BY <1>1, <2>2, <2>4, <3>2 DEF IInv, StackInv, Seen
    <3> QED BY <3>1, <3>2
  <2> QED BY <2>3, <2>4, <2>5 DEF View
<1> QED BY <1>1, Invariance, PTL

\* Only the files of the writable layer are ever written.
LEMMA OnlyTop ==
    ASSUME IInv, [Next]_vars, NEW l \in Layers, l # rw
    PROVE  data'[l] = data[l] /\ idx'[l] = idx[l]
<1>1. data \in [Layers -> Seq(Content)] /\ idx \in [Layers -> Seq(Records)]
  BY ZenonT(60) DEF IInv, TypeOK
<1>2. \A r : AppendIndex(r) => idx'[l] = idx[l]
  BY <1>1 DEF AppendIndex, GroupCommit
<1>3. \A buf : GroupCommit(buf) => idx'[l] = idx[l]
  BY <1>1 DEF GroupCommit
<1>4. ASSUME NEW t \in Threads, Step(t) PROVE data'[l] = data[l] /\ idx'[l] = idx[l]
  <2>1. CASE WLog(t) \/ DLog(t)
    BY <1>2, <2>1 DEF WLog, DLog
  <2>2. CASE SFlush(t)
    BY <1>3, <2>2 DEF SFlush
  <2>3. CASE WAppend(t) \/ WAppendFail(t) \/ WRewrite(t) \/ WRewriteFail(t)
    BY <1>1, <2>3, ZenonT(60) DEF WAppend, WAppendFail, WRewrite, WRewriteFail
  <2>4. CASE Restack(t) \/ RestackFail(t)
    BY <1>1, <2>4 DEF Restack, RestackFail
  <2>5. CASE WLock(t) \/ WInsert(t) \/ WReturn(t) \/ DLock(t) \/ DInsert(t)
               \/ RLock(t) \/ RData(t) \/ RReturn(t)
    BY <2>5, ZenonT(60) DEF WLock, WInsert, WReturn, DLock, DInsert, RLock, RData, RReturn, Lock, disk
  <2>6. CASE SData(t) \/ SIndex(t) \/ Rename(t)
    BY <2>6 DEF SData, SIndex, Rename
  <2> QED BY <1>4, <2>1, <2>2, <2>3, <2>4, <2>5, <2>6 DEF Step
<1>5. ASSUME NEW t \in Threads, Call(t) PROVE data'[l] = data[l] /\ idx'[l] = idx[l]
  BY <1>5, ZenonT(60) DEF Call, CallPwrite, CallPread, CallDiscard, CallFsync, CallRestack, Begin, disk
<1>6. CASE UNCHANGED vars
  BY <1>6 DEF vars
<1> QED BY <1>4, <1>5, <1>6 DEF Next, Quiescent

(***************************************************************************)
(* Once a restack has sealed a layer (close_seal writes its index and trailer   *)
(* behind the data) no step of any handler writes its files again.             *)
(***************************************************************************)
THEOREM SealedImmutableAlways == Spec => SealedImmutable
<1>1. ASSUME IInv, [Next]_vars
      PROVE  [\A l \in Layers : sealed[l] # <<>> => data'[l] = data[l] /\ idx'[l] = idx[l]]_vars
  <2>1. sealed[rw] = <<>>
    BY <1>1 DEF IInv, StackInv
  <2> QED BY <1>1, <2>1, OnlyTop
<1> QED BY <1>1, Invariance, PTL DEF Spec, SealedImmutable

-------------------------------------------------------------------------------
(***************************************************************************)
(* The index log.  Replaying one more record is an insert.                    *)
(***************************************************************************)
LEMMA ReplayAppend ==
    ASSUME NEW log \in Seq(Records), NEW r \in Records, NEW tag
    PROVE  Replay(Append(log, r), tag) = Put(Replay(log, tag), r, tag)
<1> DEFINE longer == Append(log, r)
<1>1. /\ longer \in Seq(Records) /\ DOMAIN longer = 1 .. Len(log) + 1 /\ DOMAIN log = 1 .. Len(log)
      /\ longer[Len(log) + 1] = r /\ \A i \in DOMAIN log : longer[i] = log[i]
      /\ Len(log) \in Nat
  OBVIOUS
<1> HIDE DEF longer
<1>2. ASSUME NEW b \in Blocks PROVE Replay(longer, tag)[b] = Put(Replay(log, tag), r, tag)[b]
  <2>1. CASE Covers(r, b)
    <3>1. LastCover(longer, b) = {Len(log) + 1}
      BY <1>1, <2>1 DEF LastCover
    <3>2. Replay(longer, tag)[b] = PlaceBy(r, tag, b)
      BY <1>1, <3>1, ZenonT(60) DEF Replay
    <3> QED BY <2>1, <3>2 DEF Put, PlaceBy
  <2>2. CASE ~Covers(r, b)
    <3>1. LastCover(longer, b) = LastCover(log, b)
      BY <1>1, <2>2 DEF LastCover
    <3>2. LastCover(log, b) \subseteq DOMAIN log
      BY DEF LastCover
    <3>3. Replay(longer, tag)[b] = Replay(log, tag)[b]
      BY <1>1, <3>1, <3>2 DEF Replay
    <3> QED BY <2>2, <3>3 DEF Put, Replay
  <2> QED BY <2>1, <2>2
<1> QED BY <1>2, ZenonT(60) DEF longer, Replay, Put

\* The mapping inserted for a block and not yet logged is the one that will be.
PendingOK(t) ==
    /\ th[t].pc = "w_log" => \A b \in th[t].cur - th[t].n .. th[t].cur - 1 :
          mapping[b] = At(m_rw_tag, th[t].pos + (b - (th[t].cur - th[t].n)))
    /\ th[t].pc = "d_log" => \A b \in th[t].off .. th[t].end - 1 : mapping[b] = ZeroPlace

LInv ==
    /\ IInv
    /\ buffer = <<>>
    /\ \A t \in Threads : PendingOK(t)
    /\ \A b \in Blocks \ Unlogged : Replay(idx[rw], m_rw_tag)[b] = mapping[b]

\* The blocks between insert and log are those of the holder of m_rw_mtx.
LEMMA UnloggedHolder ==
    ASSUME IInv, NEW t \in Threads, mtx = t
    PROVE  Unlogged = IF th[t].pc = "w_log" THEN th[t].cur - th[t].n .. th[t].cur - 1
                      ELSE IF th[t].pc = "d_log" THEN th[t].off .. th[t].end - 1 ELSE {}
<1>1. \A u \in Threads \ {t} : th[u].pc # "w_log" /\ th[u].pc # "d_log"
  BY DEF IInv, HolderOK, Locked
<1> QED BY <1>1 DEF Unlogged

\* A step that changes neither the index nor its log, and no thread about to log.
LEMMA QuietLog ==
    ASSUME LInv, IInv', UNCHANGED <<idx, m_files, m_rw_tag, mapping, buffer>>,
           \A u \in Threads : th[u].pc \in {"w_log", "d_log"} \/ th'[u].pc \in {"w_log", "d_log"}
                                => th'[u] = th[u]
    PROVE  LInv'
<1>1. Unlogged' = Unlogged
  BY DEF Unlogged
<1>2. \A u \in Threads : PendingOK(u)'
  BY DEF LInv, PendingOK
<1> QED BY <1>1, <1>2 DEF LInv, rw

LEMMA InsertLog ==
    ASSUME LInv, IInv', NEW t \in Threads, WInsert(t) \/ DInsert(t)
    PROVE  LInv'
<1>1. /\ IInv /\ TypeOK /\ th[t] \in CallStates /\ th \in [Threads -> CallStates] /\ mtx = t
      /\ CallOK(t)
  BY TypeFacts, ZenonT(60) DEF LInv, IInv, TypeOK, HolderOK, Locked, WInsert, DInsert
<1>2. UNCHANGED <<idx, m_files, m_rw_tag, buffer, mtx>> /\ rw' = rw
  BY ZenonT(60) DEF WInsert, DInsert, disk, stack, rw
<1>3. \A u \in Threads \ {t} : th'[u] = th[u] /\ th[u].pc \notin Locked
  BY <1>1, ZenonT(60) DEF IInv, HolderOK, WInsert, DInsert
<1>4. Unlogged = {}
  BY <1>1, UnloggedHolder, ZenonT(60) DEF WInsert, DInsert
<1>5. \A b \in Blocks : Replay(idx[rw], m_rw_tag)[b] = mapping[b]
  BY <1>4 DEF LInv
<1>6. ASSUME NEW u \in Threads \ {t} PROVE PendingOK(u)'
  BY <1>3 DEF PendingOK, Locked
<1>7. CASE WInsert(t)
  <2>1. /\ th'[t].pc = "w_log" /\ th'[t].cur = th[t].cur + th[t].n /\ th'[t].n = th[t].n
        /\ th'[t].pos = th[t].pos /\ th[t].cur \in Nat /\ th[t].n \in Nat /\ th[t].pos \in Nat
        /\ th[t].cur + th[t].n <= NBlocks
    BY <1>1, <1>7, FileAssumption DEF WInsert, CallStates, CallOK
  <2>2. th'[t].cur - th'[t].n = th[t].cur
    BY <2>1
  <2>3. \A b \in Blocks : mapping'[b] =
            IF Covers(Rec(t, FALSE), b) THEN At(m_rw_tag, th[t].pos + (b - th[t].cur)) ELSE mapping[b]
    BY <1>7 DEF WInsert, Put, Rec
  <2>4. \A b : b \in th[t].cur .. th[t].cur + th[t].n - 1 <=> b \in Blocks /\ Covers(Rec(t, FALSE), b)
    BY <2>1, FileAssumption DEF Covers, Rec, Blocks
  <2>5. PendingOK(t)'
    <3>1. \A b \in th[t].cur .. th[t].cur + th[t].n - 1 :
              mapping'[b] = At(m_rw_tag, th[t].pos + (b - th[t].cur))
      BY <2>3, <2>4, ZenonT(60)
    <3> QED BY <1>2, <2>1, <2>2, <3>1 DEF PendingOK
  <2>6. Unlogged' = th[t].cur .. th[t].cur + th[t].n - 1
    <3>1. \A u \in Threads \ {t} : th'[u].pc # "w_log" /\ th'[u].pc # "d_log"
      BY <1>3 DEF Locked
    <3> QED BY <2>1, <2>2, <3>1 DEF Unlogged
  <2> QED BY <1>2, <1>5, <1>6, <2>3, <2>4, <2>5, <2>6, ZenonT(60) DEF LInv
<1>8. CASE DInsert(t)
  <2>1. /\ th'[t].pc = "d_log" /\ th'[t].off = th[t].off /\ th'[t].end = th[t].end
        /\ th[t].off \in Nat /\ th[t].end \in 0 .. NBlocks
    BY <1>1, <1>8, FileAssumption DEF DInsert, CallStates
  <2>2. \A b \in Blocks : mapping'[b] = IF Covers(DRec(t), b) THEN ZeroPlace ELSE mapping[b]
    BY <1>8 DEF DInsert, Put, DRec
  <2>3. \A b : b \in th[t].off .. th[t].end - 1 <=> b \in Blocks /\ Covers(DRec(t), b)
    BY <2>1, FileAssumption DEF Covers, DRec, Blocks
  <2>4. PendingOK(t)'
    BY <2>1, <2>2, <2>3 DEF PendingOK
  <2>5. Unlogged' = th[t].off .. th[t].end - 1
    <3>1. \A u \in Threads \ {t} : th'[u].pc # "w_log" /\ th'[u].pc # "d_log"
      BY <1>3 DEF Locked
    <3> QED BY <2>1, <3>1 DEF Unlogged
  <2> QED BY <1>2, <1>5, <1>6, <2>2, <2>3, <2>4, <2>5 DEF LInv
<1> QED BY <1>7, <1>8

LEMMA LogLog ==
    ASSUME LInv, IInv', NEW t \in Threads, WLog(t) \/ DLog(t), BufSize = 0, "index" \notin MayFail
    PROVE  LInv'
<1>1. /\ IInv /\ TypeOK /\ th[t] \in CallStates /\ th \in [Threads -> CallStates] /\ mtx = t
      /\ CallOK(t) /\ PendingOK(t) /\ rw \in Layers /\ idx \in [Layers -> Seq(Records)]
      /\ idx[rw] \in Seq(Records)
  BY TypeFacts, ZenonT(60) DEF LInv, IInv, TypeOK, HolderOK, Locked, WLog, DLog
<1>2. UNCHANGED <<m_files, m_rw_tag, mapping>> /\ rw' = rw
  BY DEF WLog, DLog, stack, rw
<1>3. \A u \in Threads : th'[u].pc # "w_log" /\ th'[u].pc # "d_log"
  <2>1. \A u \in Threads \ {t} : th'[u] = th[u] /\ th[u].pc \notin Locked
    BY <1>1 DEF IInv, HolderOK, WLog, DLog, Return
  <2>2. th'[t].pc # "w_log" /\ th'[t].pc # "d_log"
    <3>1. CASE WLog(t)
      BY <1>1, <3>1 DEF WLog, CallStates
    <3>2. CASE DLog(t)
      BY <1>1, <3>2, IdleType DEF DLog, Return
    <3> QED BY <3>1, <3>2
  <2> QED BY <2>1, <2>2 DEF Locked
<1>4. Unlogged' = {} /\ \A u \in Threads : PendingOK(u)'
  BY <1>3 DEF Unlogged, PendingOK
<1>5. ASSUME NEW STATE r, r \in Records, AppendIndex(r),
             \A b \in Blocks : Covers(r, b) =>
                mapping[b] = IF r.zeroed THEN ZeroPlace ELSE At(m_rw_tag, r.moffset + (b - r.offset)),
             \A b \in Blocks : ~Covers(r, b) => b \notin Unlogged
      PROVE  LInv'
  <2>1. idx'[rw] = Append(idx[rw], r) /\ buffer' = buffer
    BY <1>1, <1>5, FileAssumption DEF AppendIndex
  <2>2. Replay(idx'[rw], m_rw_tag) = Put(Replay(idx[rw], m_rw_tag), r, m_rw_tag)
    BY <1>1, <1>5, <2>1, ReplayAppend
  <2>3. \A b \in Blocks : Replay(idx'[rw], m_rw_tag)[b] = mapping[b]
    BY <1>5, <2>2 DEF Put, LInv
  <2> QED BY <1>2, <1>4, <2>1, <2>3 DEF LInv
<1>6. CASE WLog(t)
  <2> DEFINE r == [Rec(t, FALSE) EXCEPT !.offset = th[t].cur - th[t].n]
  <2>1. /\ th[t].cur - th[t].n \in Nat /\ th[t].n \in Nat /\ th[t].pos \in Nat /\ th[t].cur \in Nat
        /\ th[t].pc = "w_log"
    BY <1>1, <1>6, FileAssumption DEF WLog, CallOK, CallStates
  <2>2. /\ r \in Records /\ r.offset = th[t].cur - th[t].n /\ r.length = th[t].n
        /\ r.moffset = th[t].pos /\ ~r.zeroed
    BY <2>1, ZenonT(60) DEF Rec, Records
  <2>3. AppendIndex(r)
    BY <1>6 DEF WLog
  <2> HIDE DEF r
  <2>4. \A b \in Blocks : Covers(r, b) <=> b \in th[t].cur - th[t].n .. th[t].cur - 1
    BY <2>1, <2>2 DEF Covers, Blocks
  <2>5. Unlogged = th[t].cur - th[t].n .. th[t].cur - 1
    BY <1>1, <2>1, UnloggedHolder
  <2>6. \A b \in Blocks : Covers(r, b) => mapping[b] = At(m_rw_tag, r.moffset + (b - r.offset))
    BY <1>1, <2>1, <2>2, <2>4, ZenonT(60) DEF PendingOK
  <2> QED BY <1>5, <2>2, <2>3, <2>4, <2>5, <2>6
<1>7. CASE DLog(t)
  <2>1. th[t].off \in Nat /\ th[t].end \in Nat /\ th[t].off < th[t].end /\ th[t].pos \in Nat
        /\ th[t].pc = "d_log"
    BY <1>1, <1>7, FileAssumption DEF DLog, CallOK, CallStates
  <2>2. DRec(t) \in Records /\ DRec(t).zeroed
    BY <2>1 DEF DRec, Records
  <2>3. \A b \in Blocks : Covers(DRec(t), b) <=> b \in th[t].off .. th[t].end - 1
    BY SMTT(20), <2>1 DEF Covers, DRec, Blocks
  <2>4. Unlogged = th[t].off .. th[t].end - 1
    BY <1>1, <2>1, UnloggedHolder
  <2>5. \A b \in Blocks : Covers(DRec(t), b) => mapping[b] = ZeroPlace
    BY <1>1, <2>1, <2>3 DEF PendingOK
  <2> QED BY <1>5, <1>7, <2>2, <2>3, <2>4, <2>5 DEF DLog
<1> QED BY <1>6, <1>7

LEMMA RestackLog ==
    ASSUME LInv, IInv', NEW t \in Threads, Restack(t)
    PROVE  LInv'
<1>1. IInv /\ TypeOK /\ rw \in Layers /\ idx \in [Layers -> Seq(Records)]
  BY TypeFacts, ZenonT(60) DEF LInv, IInv, TypeOK
<1>2. PICK l \in Layers :
          /\ mtx = None /\ Fresh(l) /\ m_files' = Stacked(l) /\ m_rw_tag' = m_rw_tag + 1
          /\ mapping' = [b \in Blocks |-> Hole] /\ Goto(t, "k_rename")
          /\ UNCHANGED <<idx, buffer>>
  BY ZenonT(60) DEF Restack
<1>3. rw' = l
  <2>1. m_rw_tag \in Nat
    BY <1>1, TypeFacts
  <2>2. m_rw_tag + 1 \in 0 .. m_rw_tag + 1 /\ m_rw_tag + 1 # 0
    BY <2>1
  <2> QED BY <1>2, <2>2 DEF Stacked, rw
<1>4. \A b \in Blocks : Replay(<<>>, m_rw_tag')[b] = Hole
  BY DEF Replay, LastCover
<1>5. \A u \in Threads : th'[u].pc # "w_log" /\ th'[u].pc # "d_log"
  <2>1. "k_rename" \in PCs
    BY DEF PCs
  <2>2. th'[t].pc = "k_rename" /\ \A u \in Threads \ {t} : th'[u] = th[u]
    BY <1>1, <1>2, <2>1, GotoFacts, ZenonT(60)
  <2>3. \A u \in Threads : th[u].pc \notin Locked
    BY <1>1, <1>2, FileAssumption DEF IInv, HolderOK
  <2> QED BY <2>2, <2>3 DEF Locked
<1>6. \A u \in Threads : PendingOK(u)'
  BY <1>5 DEF PendingOK
<1> QED BY <1>2, <1>3, <1>4, <1>6 DEF LInv, Fresh

LEMMA OtherLog ==
    ASSUME LInv, IInv', NEW t \in Threads,
           \/ Call(t) \/ WLock(t) \/ WAppend(t) \/ WAppendFail(t) \/ WRewrite(t) \/ WRewriteFail(t)
           \/ WReturn(t) \/ DLock(t) \/ RLock(t) \/ RData(t) \/ RReturn(t)
           \/ SFlush(t) \/ SData(t) \/ SIndex(t) \/ RestackFail(t) \/ Rename(t)
    PROVE  LInv'
<1>1. TypeOK /\ th \in [Threads -> CallStates] /\ th[t] \in CallStates /\ buffer = <<>>
  BY ZenonT(60) DEF LInv, IInv, TypeOK
<1>2. UNCHANGED <<idx, m_files, m_rw_tag, mapping, buffer>>
  <2>1. CASE Call(t)
    BY <2>1, ZenonT(60) DEF Call, CallPwrite, CallPread, CallDiscard, CallFsync, CallRestack, Begin, disk, stack
  <2>2. CASE WLock(t) \/ WAppend(t) \/ WAppendFail(t) \/ WRewrite(t) \/ WRewriteFail(t)
               \/ WReturn(t) \/ DLock(t) \/ RLock(t) \/ RData(t) \/ RReturn(t)
    BY <2>2, ZenonT(60) DEF WLock, WAppend, WAppendFail, WRewrite, WRewriteFail, WReturn, DLock, RLock, RData,
                RReturn, Lock, disk, stack
  <2>3. CASE SFlush(t)
    BY <1>1, <2>3 DEF SFlush, GroupCommit, stack
  <2>4. CASE SData(t) \/ SIndex(t) \/ RestackFail(t) \/ Rename(t)
    BY <2>4, ZenonT(60) DEF SData, SIndex, RestackFail, Rename, stack
  <2> QED BY <2>1, <2>2, <2>3, <2>4
<1>3. \A u \in Threads \ {t} : th'[u] = th[u]
  <2>1. CASE Call(t)
    BY <1>1, <2>1, ZenonT(60) DEF Call, CallPwrite, CallPread, CallDiscard, CallFsync, CallRestack, Begin
  <2>2. CASE WLock(t) \/ WAppend(t) \/ WAppendFail(t) \/ WRewrite(t) \/ WRewriteFail(t)
               \/ WReturn(t) \/ DLock(t) \/ RLock(t) \/ RData(t) \/ RReturn(t)
    BY <1>1, <2>2, ZenonT(60) DEF WLock, WAppend, WAppendFail, WRewrite, WRewriteFail, WReturn, DLock, RLock,
                      RData, RReturn, Lock, Goto, Return
  <2>3. CASE SFlush(t) \/ SData(t) \/ SIndex(t) \/ RestackFail(t) \/ Rename(t)
    BY <1>1, <2>3 DEF SFlush, SData, SIndex, RestackFail, Rename, Goto, Return
  <2> QED BY <2>1, <2>2, <2>3, ZenonT(60)
<1>4. th[t].pc \notin {"w_log", "d_log"}
  BY ZenonT(60) DEF Call, CallPwrite, CallPread, CallDiscard, CallFsync, CallRestack, Begin, WLock, WAppend,
         WAppendFail, WRewrite, WRewriteFail, WReturn, DLock, RLock, RData, RReturn, Lock, Run,
         SFlush, SData, SIndex, RestackFail, Rename
<1>5. th'[t].pc \notin {"w_log", "d_log"}
  <2>1. ASSUME NEW r \in {"ok", "err"}, Return(t, r) PROVE th'[t].pc \notin {"w_log", "d_log"}
    BY <1>1, <2>1, IdleType DEF Return
  <2>2. ASSUME NEW pc \in PCs \ {"w_log", "d_log"}, Goto(t, pc) PROVE th'[t].pc \notin {"w_log", "d_log"}
    BY <1>1, <2>2, GotoFacts, ZenonT(60)
  <2>3. {"w_loop", "d_insert", "s_data", "s_index"} \subseteq PCs \ {"w_log", "d_log"}
    BY DEF PCs
  <2>4. CASE Call(t)
    <3>1. \A pc, off, end : CallOn(pc, off, end).pc = pc
      BY DEF CallOn
    <3>2. CASE CallPwrite(t)
      BY <1>1, <3>2 DEF CallPwrite, Begin, CallOn
    <3>3. CASE CallDiscard(t)
      BY <1>1, <3>3 DEF CallDiscard, Begin, CallOn
    <3>5. CASE CallFsync(t)
      BY <1>1, <3>5 DEF CallFsync, Begin, CallOn
    <3>4. CASE CallPread(t) \/ CallRestack(t)
      BY <1>1, <3>1, <3>4 DEF CallPread, CallRestack, Begin
    <3> QED BY <2>4, <3>2, <3>3, <3>4, <3>5 DEF Call
  <2>5. CASE WLock(t) \/ DLock(t) \/ SData(t)
    BY <2>2, <2>3, <2>5, ZenonT(60) DEF WLock, DLock, SData, Lock
  <2>6. CASE WAppend(t) \/ RLock(t)
    <3>1. CASE WAppend(t)
      <4>1. PICK p, n : th' = [th EXCEPT ![t].pc = "w_insert", ![t].pos = p, ![t].n = n]
        BY <3>1, ZenonT(60) DEF WAppend
      <4> QED BY <1>1, <4>1 DEF CallStates
    <3>2. CASE RLock(t)
      <4>1. PICK s : th' = [th EXCEPT ![t].pc = "r_data", ![t].snap = s]
        BY <3>2 DEF RLock
      <4> QED BY <1>1, <4>1 DEF CallStates
    <3> QED BY <2>6, <3>1, <3>2, ZenonT(60)
  <2>9. CASE WRewrite(t) \/ RData(t)
    <3>1. PICK n : th' = [th EXCEPT ![t].cur = @ + n]
      BY <2>9, ZenonT(60) DEF WRewrite, RData
    <3> QED BY <1>1, <1>4, <3>1 DEF CallStates
  <2>7. CASE WAppendFail(t) \/ WRewriteFail(t) \/ WReturn(t) \/ RReturn(t) \/ SIndex(t)
               \/ RestackFail(t) \/ Rename(t)
    BY <2>1, <2>7, ZenonT(60) DEF WAppendFail, WRewriteFail, WReturn, RReturn, SIndex, RestackFail, Rename
  <2>8. CASE SFlush(t)
    BY <2>1, <2>2, <2>3, <2>8, ZenonT(60) DEF SFlush
  <2> QED BY <2>4, <2>5, <2>6, <2>7, <2>8, <2>9, ZenonT(60)
<1> QED BY <1>2, <1>3, <1>4, <1>5, QuietLog

(***************************************************************************)
(* Without group commit, and as long as writes to the index file succeed, the   *)
(* records of the index file replayed in order give the in-memory index, but    *)
(* for the blocks the holder of m_rw_mtx is about to log: index_insert and      *)
(* append_index never come apart, across discards, failed data writes, failed   *)
(* syncs and restacks.  LogMatchesIndex then holds by its second alternative.   *)
(***************************************************************************)
THEOREM LogMatchesIndexAlways ==
    ASSUME BufSize = 0, "index" \notin MayFail
    PROVE  Spec => [](LogMatchesIndex /\ LogReplays)
<1>1. Init => LInv
  <2> SUFFICES ASSUME Init PROVE LInv
    OBVIOUS
  <2>1. \A b \in Blocks : Replay(idx[rw], m_rw_tag)[b] = mapping[b]
    BY FileAssumption DEF Init, rw, Replay, LastCover, Layers
  <2>2. \A t \in Threads : PendingOK(t)
    BY ZenonT(60) DEF Init, PendingOK, Idle, CallOn
  <2> QED BY <2>1, <2>2, InitInv DEF LInv, Init
<1>2. ASSUME LInv, [Next]_vars PROVE LInv'
  <2>1. IInv'
    BY <1>2, NextInv DEF LInv
  <2>2. CASE UNCHANGED vars
    BY <1>2, <2>1, <2>2, QuietLog DEF vars
  <2>3. ASSUME NEW t \in Threads, Call(t) \/ Step(t) PROVE LInv'
    BY <1>2, <2>1, <2>3, InsertLog, LogLog, RestackLog, OtherLog DEF Step
  <2> QED BY <1>2, <2>2, <2>3 DEF Next, Quiescent
<1>3. ASSUME LInv PROVE LogMatchesIndex /\ LogReplays
  <2>1. idx[rw] \o buffer = idx[rw]
    <3>1. idx[rw] \in Seq(Records) /\ buffer = <<>>
      BY <1>3, TypeFacts, ZenonT(60) DEF LInv, IInv, TypeOK
    <3> QED BY <3>1, SMTT(60)
  <2> QED BY <1>3, <2>1 DEF LInv, LogMatchesIndex, LogReplays
<1> QED BY <1>1, <1>2, <1>3, PTL DEF Spec
===============================================================================
