---------------------------- MODULE LSMTFileProofs ----------------------------
(***************************************************************************)
(* Proofs about LSMTFile for any number of threads, blocks, values, calls    *)
(* and layers, in both write modes, with and without group commit and disk   *)
(* failures.                                                                 *)
(***************************************************************************)
EXTENDS LSMTFile, TLAPS

(***************************************************************************)
(* Writing a buffer of n equal-typed blocks at the end of a file.             *)
(***************************************************************************)
LEMMA RunIsSeq ==
    ASSUME NEW S, NEW n \in Int, NEW f \in [1 .. n -> S]
    PROVE  f \in Seq(S) /\ Len(f) = IF n >= 0 THEN n ELSE 0
<1>1. CASE n >= 0
  BY <1>1
<1>2. CASE n < 0
  <2>1. 1 .. n = 1 .. 0
    BY <1>2
  <2> QED BY <1>2, <2>1
<1> QED BY <1>1, <1>2

LEMMA AppendRun ==
    ASSUME NEW S, NEW s \in Seq(S), NEW n \in Int, NEW f \in [1 .. n -> S]
    PROVE  /\ s \o f \in Seq(S)
           /\ Len(s \o f) = Len(s) + (IF n >= 0 THEN n ELSE 0)
           /\ \A i \in 1 .. Len(s) : (s \o f)[i] = s[i]
BY RunIsSeq

-------------------------------------------------------------------------------
(***************************************************************************)
(* The inductive invariant.  NoAliasing needs to know that the holder of       *)
(* m_rw_mtx is the only thread between append and index_insert, that the run   *)
(* it has appended lies behind every mapped block, and that the file it        *)
(* appends to is not one of the sealed files the backing index points into.    *)
(***************************************************************************)
Locked == {"w_loop", "w_insert", "w_log", "d_insert", "d_log"}

HolderOK(t) == th[t].pc \in Locked => mtx = t

CallOK(t) ==
    /\ th[t].pc \in {"w_lock", "w_loop", "w_insert", "w_log"} =>
          th[t].off <= th[t].cur /\ th[t].cur <= th[t].end /\ th[t].val \in Values
    /\ th[t].pc \in {"d_lock", "d_insert", "d_log"} => th[t].off < th[t].end
    /\ th[t].pc = "w_insert" =>
          /\ th[t].cur + th[t].n <= th[t].end
          /\ th[t].pos + th[t].n <= Len(data[rw])
          /\ \A b \in Blocks : mapping[b].kind = "data" => mapping[b].moffset < th[t].pos
    /\ th[t].pc = "w_log" => th[t].n <= th[t].cur

ReaderOK(t) == th[t].pc = "r_data" => \A b \in Blocks : th[t].snap[b] = Seen(b)

\* The writable layer is the only unsealed one of the stack, and the backing index
\* only points inside the files below it.
StackInv ==
    /\ sealed[rw] = <<>>
    /\ \A tag \in 0 .. m_rw_tag - 1 : sealed[m_files[tag]] # <<>>
    /\ \A b \in Blocks : backing[b].kind = "data" =>
          backing[b].tag < m_rw_tag /\ backing[b].moffset < Len(data[m_files[backing[b].tag]])

IInv ==
    /\ TypeOK
    /\ \A t \in Threads : HolderOK(t) /\ CallOK(t) /\ ReaderOK(t)
    /\ NoAliasing
    /\ StackInv

LEMMA StackFacts ==
    ASSUME StackInv
    PROVE  /\ \A tag \in 0 .. m_rw_tag - 1 : sealed[m_files[tag]] # <<>>
           /\ \A b \in Blocks : backing[b].kind = "data" =>
                 backing[b].tag < m_rw_tag /\ backing[b].moffset < Len(data[m_files[backing[b].tag]])
BY DEF StackInv

LEMMA LessTrans == \A x, y, z \in Nat : x < y /\ z >= y => x < z
OBVIOUS

LEMMA InRange == \A x, y \in Nat : x < y => x \in 0 .. y - 1 /\ x \in 0 .. y /\ x + 1 < y + 1
OBVIOUS

LEMMA TypeFacts ==
    ASSUME TypeOK
    PROVE  /\ m_rw_tag \in Nat /\ m_files \in [0 .. m_rw_tag -> Layers] /\ rw \in Layers
           /\ \A l \in Layers : data[l] \in Seq(Content) /\ Len(data[l]) \in Nat
           /\ \A b \in Blocks : /\ mapping[b] \in Places /\ mapping[b].moffset \in Nat
                                /\ mapping[b].tag \in Nat
           /\ \A b \in Blocks : /\ backing[b] \in Places /\ backing[b].moffset \in Nat
                                /\ backing[b].tag \in Nat
           /\ \A t \in Threads : th[t] \in CallStates
<1>1. m_rw_tag \in Nat /\ m_files \in [0 .. m_rw_tag -> Layers]
  BY DEF TypeOK
<1>2. rw \in Layers
  BY <1>1 DEF rw
<1>3. \A l \in Layers : data[l] \in Seq(Content) /\ Len(data[l]) \in Nat
  BY DEF TypeOK
<1>4. \A b \in Blocks : mapping[b] \in Places /\ backing[b] \in Places
  BY DEF TypeOK, Places1
<1>5. \A p \in Places : p.moffset \in Nat /\ p.tag \in Nat
  BY DEF Places
<1>6. \A t \in Threads : th[t] \in CallStates
  BY DEF TypeOK
<1> QED BY <1>1, <1>2, <1>3, <1>4, <1>5, <1>6

LEMMA TypeFactsPrime ==
    ASSUME TypeOK'
    PROVE  \A l \in Layers : data'[l] \in Seq(Content) /\ Len(data'[l]) \in Nat
BY DEF TypeOK

\* A step of one thread that changes neither index nor stack, and at most grows files,
\* keeps the invariant if it keeps what concerns that thread.
LEMMA OneCall ==
    ASSUME IInv, TypeOK', NEW t \in Threads,
           \A u \in Threads \ {t} : th'[u] = th[u],
           UNCHANGED <<sealed, m_files, m_rw_tag, backing, mapping>>,
           \A l \in Layers : Len(data'[l]) >= Len(data[l]),
           mtx' = mtx \/ mtx = None \/ mtx = t,
           HolderOK(t)', CallOK(t)', ReaderOK(t)'
    PROVE  IInv'
<1> USE FileAssumption DEF IInv
<1>1. rw' = rw /\ rw \in Layers
  BY TypeFacts DEF rw
<1>a. \A l \in Layers : Len(data[l]) \in Nat /\ Len(data'[l]) \in Nat
  BY TypeFacts, TypeFactsPrime
<1>2. ASSUME NEW u \in Threads PROVE HolderOK(u)' /\ CallOK(u)' /\ ReaderOK(u)'
  <2>1. CASE u = t
    BY <2>1
  <2>2. CASE u # t
    <3>1. th'[u] = th[u] /\ th[u] \in CallStates
      BY <2>2 DEF TypeOK
    <3>2. HolderOK(u)'
      BY <3>1, <2>2, SMTT(60) DEF HolderOK, Locked
    <3>3. CallOK(u)'
      <4>1. th[u].pos \in Nat /\ th[u].n \in 0 .. NBlocks
        BY <3>1, ZenonT(60) DEF CallStates
      <4> QED BY <1>1, <1>a, <3>1, <4>1, SMTT(60) DEF CallOK
    <3>4. ReaderOK(u)'
      BY <3>1 DEF ReaderOK, Seen
    <3> QED BY <3>2, <3>3, <3>4
  <2> QED BY <2>1, <2>2
<1>3. NoAliasing'
  BY <1>1, <1>a, TypeFacts DEF NoAliasing
<1>4. StackInv'
  <2>1. \A b \in Blocks : backing[b].kind = "data" =>
            m_files[backing[b].tag] \in Layers /\ backing[b].moffset \in Nat
    BY TypeFacts DEF StackInv
  <2> QED BY <1>1, <1>a, <2>1 DEF StackInv, rw
<1> QED BY <1>2, <1>3, <1>4

-------------------------------------------------------------------------------
LEMMA IdleType ==
    ASSUME NEW r \in {"ok", "err"}
    PROVE  [Idle EXCEPT !.ret = r] \in CallStates /\ [Idle EXCEPT !.ret = r].pc = "idle"
<1>1. [b \in Blocks |-> Hole] \in Places1
  BY DEF Places1, Places, Hole
<1>2. Idle \in CallStates /\ Idle.pc = "idle"
  BY <1>1, FileAssumption DEF Idle, CallOn, CallStates, PCs
<1> QED BY <1>2 DEF CallStates

LEMMA InitInv == Init => IInv
<1> SUFFICES ASSUME Init PROVE IInv
  OBVIOUS
<1> USE FileAssumption DEF Init
<1>1. 0 \in Layers /\ 1 \in Layers /\ rw = 1
  BY DEF Layers, rw
<1>2. [i \in 1 .. NBlocks |-> Payload(Base, i - 1)] \in Seq(Content)
  <2>1. \A i \in 1 .. NBlocks : Payload(Base, i - 1) \in Content
    BY DEF Payload, Content, Blocks
  <2> QED BY <2>1
<1>3. data \in [Layers -> Seq(Content)] /\ Len(data[0]) = NBlocks
  BY <1>1, <1>2
<1>4. [b \in Blocks |-> At(0, b)] \in Places1 /\ [b \in Blocks |-> Hole] \in Places1
  BY DEF Places1, Places, At, Hole, Blocks
<1>5. Idle \in CallStates
  BY <1>4 DEF Idle, CallOn, CallStates, PCs
<1>6. TypeOK
  <2>1. m_rw_tag \in Nat /\ m_files \in [0 .. m_rw_tag -> Layers]
    BY <1>1
  <2>2. sealed \in [Layers -> Seq(Places1)]
    BY <1>4
  <2> QED BY <1>3, <1>4, <1>5, <2>1, <2>2 DEF TypeOK
<1>7. ASSUME NEW t \in Threads PROVE HolderOK(t) /\ CallOK(t) /\ ReaderOK(t)
  BY DEF HolderOK, CallOK, ReaderOK, Idle, CallOn, Locked
<1>8. NoAliasing
  BY DEF NoAliasing, Hole
<1>9. StackInv
  <2>1. sealed[rw] = <<>> /\ sealed[0] # <<>>
    BY <1>1
  <2>2. \A b \in Blocks : backing[b].tag = 0 /\ backing[b].moffset = b /\ m_files[0] = 0
    BY DEF At
  <2> QED BY <1>3, <2>1, <2>2 DEF StackInv, Blocks
<1> QED BY <1>6, <1>7, <1>8, <1>9 DEF IInv

(***************************************************************************)
(* A step of one thread that leaves the files, the stack, the index and the    *)
(* buffer alone.                                                              *)
(***************************************************************************)
LEMMA QuietStep ==
    ASSUME IInv, NEW t \in Threads,
           th' \in [Threads -> CallStates], \A u \in Threads \ {t} : th'[u] = th[u],
           UNCHANGED <<disk, stack, mapping, buffer>>, calls' \in 0 .. MaxCalls,
           mtx' = mtx \/ (mtx = None /\ mtx' = t) \/ (mtx = t /\ mtx' = None),
           HolderOK(t)', CallOK(t)', ReaderOK(t)'
    PROVE  IInv'
<1>1. TypeOK'
  BY ZenonT(60) DEF IInv, TypeOK, disk, stack
<1>2. \A l \in Layers : Len(data'[l]) >= Len(data[l])
  BY TypeFacts DEF IInv, disk
<1> QED BY <1>1, <1>2, OneCall DEF disk, stack

LEMMA BeginInv ==
    ASSUME IInv, NEW t \in Threads, NEW STATE c, NEW op, Begin(t, op, c), c \in CallStates,
           c.pc \notin Locked \cup {"r_data"},
           c.pc = "w_lock" => c.off <= c.cur /\ c.cur <= c.end /\ c.val \in Values,
           c.pc = "d_lock" => c.off < c.end
    PROVE  IInv'
<1>1. th' \in [Threads -> CallStates] /\ th'[t] = c /\ \A u \in Threads \ {t} : th'[u] = th[u]
  BY DEF Begin, IInv, TypeOK
<1>2. calls' \in 0 .. MaxCalls
  BY FileAssumption DEF Begin, IInv, TypeOK
<1>3. HolderOK(t)' /\ CallOK(t)' /\ ReaderOK(t)'
  BY <1>1 DEF HolderOK, CallOK, ReaderOK, Locked
<1> QED BY <1>1, <1>2, <1>3, QuietStep DEF Begin

LEMMA CallInv ==
    ASSUME IInv, NEW t \in Threads, Call(t)
    PROVE  IInv'
<1> USE FileAssumption
<1>1. ASSUME NEW off \in 0 .. NBlocks, NEW end \in 0 .. NBlocks, NEW pc \in PCs
      PROVE  /\ CallOn(pc, off, end) \in CallStates
             /\ CallOn(pc, off, end).pc = pc
             /\ CallOn(pc, off, end).off = off
             /\ CallOn(pc, off, end).cur = off
             /\ CallOn(pc, off, end).end = end
  <2>1. [b \in Blocks |-> Hole] \in Places1
    BY DEF Places1, Places, Hole
  <2> QED BY <2>1 DEF CallOn, CallStates
<1>2. CASE CallPwrite(t)
  <2>1. PICK off \in Blocks : \E end \in off + 1 .. NBlocks : \E v \in Values :
            Begin(t, "pwrite", [CallOn("w_lock", off, end) EXCEPT !.val = v])
    BY <1>2 DEF CallPwrite
  <2>2. PICK end \in off + 1 .. NBlocks : \E v \in Values :
            Begin(t, "pwrite", [CallOn("w_lock", off, end) EXCEPT !.val = v])
    BY <2>1
  <2>3. PICK v \in Values : Begin(t, "pwrite", [CallOn("w_lock", off, end) EXCEPT !.val = v])
    BY <2>2
  <2> DEFINE c == [CallOn("w_lock", off, end) EXCEPT !.val = v]
  <2>4. off \in 0 .. NBlocks /\ end \in 0 .. NBlocks /\ off < end /\ "w_lock" \in PCs
    BY DEF Blocks, PCs
  <2>5. c \in CallStates
    BY <1>1, <2>4 DEF CallStates
  <2>6. c.pc = "w_lock" /\ c.off = off /\ c.cur = off /\ c.end = end /\ c.val = v
    BY DEF CallOn
  <2>7. Begin(t, "pwrite", c)
    BY <2>3
  <2> HIDE DEF c
  <2> QED BY <2>4, <2>5, <2>6, <2>7, BeginInv DEF Locked
<1>3. CASE CallPread(t)
  <2>1. PICK off \in Blocks : \E end \in off + 1 .. NBlocks :
            Begin(t, "pread", CallOn("r_lock", off, end))
    BY <1>3 DEF CallPread
  <2>2. PICK end \in off + 1 .. NBlocks : Begin(t, "pread", CallOn("r_lock", off, end))
    BY <2>1
  <2>3. off \in 0 .. NBlocks /\ end \in 0 .. NBlocks /\ "r_lock" \in PCs
    BY DEF Blocks, PCs
  <2> QED BY <1>1, <2>2, <2>3, BeginInv DEF Locked
<1>4. CASE CallDiscard(t)
  <2>1. PICK off \in Blocks : \E end \in off + 1 .. NBlocks :
            Begin(t, "discard", [CallOn("d_lock", off, end)
                                    EXCEPT !.pos = Len(data[rw]), !.tag = m_rw_tag])
    BY <1>4, ZenonT(60) DEF CallDiscard
  <2>2. PICK end \in off + 1 .. NBlocks :
            Begin(t, "discard", [CallOn("d_lock", off, end)
                                    EXCEPT !.pos = Len(data[rw]), !.tag = m_rw_tag])
    BY <2>1, ZenonT(60)
  <2> DEFINE c == [CallOn("d_lock", off, end) EXCEPT !.pos = Len(data[rw]), !.tag = m_rw_tag]
  <2>3. off \in 0 .. NBlocks /\ end \in 0 .. NBlocks /\ off < end /\ "d_lock" \in PCs
    BY DEF Blocks, PCs
  <2>4. Len(data[rw]) \in Nat /\ m_rw_tag \in Nat
    BY TypeFacts DEF IInv
  <2>5. c \in CallStates
    <3>1. CallOn("d_lock", off, end) \in CallStates
      BY <1>1, <2>3
    <3> QED BY <2>4, <3>1, ZenonT(60) DEF CallStates
  <2>6. c.pc = "d_lock" /\ c.off = off /\ c.end = end
    BY DEF CallOn
  <2>7. Begin(t, "discard", c)
    BY <2>2
  <2> HIDE DEF c
  <2> QED BY <2>3, <2>5, <2>6, <2>7, BeginInv DEF Locked
<1>5. CASE CallFsync(t)
  <2> DEFINE c == [CallOn("s_flush", 0, 0) EXCEPT !.tag = m_rw_tag]
  <2>1. m_rw_tag \in Nat /\ "s_flush" \in PCs
    BY TypeFacts DEF IInv, PCs
  <2>2. c \in CallStates
    BY <1>1, <2>1 DEF CallStates
  <2>3. c.pc = "s_flush"
    BY DEF CallOn
  <2>4. Begin(t, "fsync", c)
    BY <1>5 DEF CallFsync
  <2> HIDE DEF c
  <2> QED BY <2>2, <2>3, <2>4, BeginInv DEF Locked
<1>6. CASE CallRestack(t)
  <2>1. "k_lock" \in PCs /\ 0 \in 0 .. NBlocks
    BY DEF PCs
  <2> QED BY <1>1, <1>6, <2>1, BeginInv DEF CallRestack, Locked
<1> QED BY <1>2, <1>3, <1>4, <1>5, <1>6 DEF Call

-------------------------------------------------------------------------------
LEMMA ReturnFacts ==
    ASSUME TypeOK, NEW t \in Threads, NEW r \in {"ok", "err"}, Return(t, r)
    PROVE  /\ th' \in [Threads -> CallStates]
           /\ \A u \in Threads \ {t} : th'[u] = th[u]
           /\ HolderOK(t)' /\ CallOK(t)' /\ ReaderOK(t)'
<1>1. th' \in [Threads -> CallStates] /\ th'[t].pc = "idle" /\ \A u \in Threads \ {t} : th'[u] = th[u]
  BY IdleType, ZenonT(60) DEF TypeOK, Return
<1>2. HolderOK(t)' /\ CallOK(t)' /\ ReaderOK(t)'
  BY <1>1 DEF HolderOK, CallOK, ReaderOK, Locked
<1> QED BY <1>1, <1>2

LEMMA GotoFacts ==
    ASSUME TypeOK, NEW t \in Threads, NEW pc \in PCs, Goto(t, pc)
    PROVE  /\ th' \in [Threads -> CallStates]
           /\ \A u \in Threads \ {t} : th'[u] = th[u]
           /\ th'[t] = [th[t] EXCEPT !.pc = pc] /\ th[t] \in CallStates
           /\ th'[t].pc = pc
<1>1. th \in [Threads -> CallStates] /\ th[t] \in CallStates
  BY DEF TypeOK
<1>2. [th[t] EXCEPT !.pc = pc] \in CallStates /\ [th[t] EXCEPT !.pc = pc].pc = pc
  BY <1>1 DEF CallStates
<1> QED BY <1>1, <1>2 DEF Goto

\* Taking and releasing m_rw_mtx, and the steps of pread.
LEMMA LockInv ==
    ASSUME IInv, NEW t \in Threads, WLock(t) \/ DLock(t)
    PROVE  IInv'
<1>1. PICK from \in {"w_lock", "d_lock"}, to \in {"w_loop", "d_insert"} :
          Lock(t, from, to) /\ (from = "w_lock" <=> to = "w_loop")
  BY DEF WLock, DLock
<1>2. to \in PCs /\ TypeOK
  BY DEF PCs, IInv
<1>3. /\ th' \in [Threads -> CallStates] /\ \A u \in Threads \ {t} : th'[u] = th[u]
      /\ th'[t] = [th[t] EXCEPT !.pc = to] /\ th[t] \in CallStates
  BY <1>1, <1>2, GotoFacts DEF Lock
<1>4. HolderOK(t)' /\ CallOK(t)' /\ ReaderOK(t)'
  BY <1>1, <1>3, ZenonT(60) DEF Lock, IInv, HolderOK, CallOK, ReaderOK, Locked, CallStates
<1>5. calls' \in 0 .. MaxCalls
  BY <1>1 DEF Lock, IInv, TypeOK
<1> QED BY <1>1, <1>3, <1>4, <1>5, QuietStep DEF Lock

LEMMA WReturnInv ==
    ASSUME IInv, NEW t \in Threads, WReturn(t)
    PROVE  IInv'
<1>1. mtx = t
  BY DEF WReturn, IInv, HolderOK, Locked
<1>2. calls' \in 0 .. MaxCalls /\ TypeOK
  BY ZenonT(60) DEF WReturn, IInv, TypeOK
<1> QED BY <1>1, <1>2, ReturnFacts, QuietStep DEF WReturn

LEMMA ReadInv ==
    ASSUME IInv, NEW t \in Threads, RLock(t) \/ RData(t) \/ RReturn(t)
    PROVE  IInv'
<1>1. TypeOK /\ th[t] \in CallStates /\ th \in [Threads -> CallStates]
  BY ZenonT(60) DEF IInv, TypeOK
<1>2. calls' \in 0 .. MaxCalls
  BY DEF RLock, RData, RReturn, IInv, TypeOK
<1>3. CASE RLock(t)
  <2>1. [b \in Blocks |-> Seen(b)] \in Places1
    BY <1>1 DEF TypeOK, Places1, Seen
  <2>2. "r_data" \in PCs
    BY DEF PCs
  <2>3. th' \in [Threads -> CallStates] /\ \A u \in Threads \ {t} : th'[u] = th[u]
    BY <1>1, <1>3, <2>1, <2>2, ZenonT(60) DEF RLock, CallStates
  <2>4. th'[t].pc = "r_data" /\ th'[t].snap = [b \in Blocks |-> Seen(b)]
    BY <1>1, <1>3 DEF RLock, CallStates
  <2>5. HolderOK(t)' /\ CallOK(t)'
    BY <2>4, ZenonT(60) DEF HolderOK, CallOK, Locked
  <2>6. ReaderOK(t)'
    BY <1>3, <2>4 DEF RLock, ReaderOK, Seen, stack
  <2> QED BY <1>2, <1>3, <2>3, <2>5, <2>6, QuietStep, ZenonT(60) DEF RLock
<1>4. CASE RData(t)
  <2>1. PICK n \in 1 .. th[t].end - th[t].cur : th' = [th EXCEPT ![t].cur = @ + n]
    BY <1>4, ZenonT(60) DEF RData
  <2>2. th[t].cur + n \in 0 .. NBlocks
    BY <1>1, FileAssumption DEF CallStates
  <2>3. /\ th' \in [Threads -> CallStates] /\ \A u \in Threads \ {t} : th'[u] = th[u]
        /\ th'[t].pc = "r_data" /\ th'[t].snap = th[t].snap
    BY <1>1, <1>4, <2>1, <2>2 DEF RData, CallStates
  <2>4. HolderOK(t)' /\ CallOK(t)'
    BY <2>3, ZenonT(60) DEF HolderOK, CallOK, Locked
  <2>5. ReaderOK(t)'
    BY <1>4, <2>3, SMTT(60) DEF RData, ReaderOK, Seen, IInv, stack
  <2> QED BY <1>2, <1>4, <2>3, <2>4, <2>5, QuietStep DEF RData
<1>5. CASE RReturn(t)
  BY <1>1, <1>2, <1>5, ReturnFacts, QuietStep, ZenonT(60) DEF RReturn
<1> QED BY <1>3, <1>4, <1>5

-------------------------------------------------------------------------------
(***************************************************************************)
(* The index log.                                                             *)
(***************************************************************************)
LEMMA GroupCommitType ==
    ASSUME TypeOK, NEW STATE buf, buf \in Seq(Records), GroupCommit(buf)
    PROVE  idx' \in [Layers -> Seq(Records)] /\ buffer' \in Seq(Records)
<1>1. rw \in Layers /\ idx \in [Layers -> Seq(Records)]
  BY TypeFacts, ZenonT(60) DEF TypeOK
<1>2. Invalid \in Records
  BY FileAssumption DEF Invalid, Records
<1>3. BufSize - Len(buf) \in Int
  BY FileAssumption
<1>4. Padded(buf) \in Seq(Records)
  <2>1. [i \in 1 .. BufSize - Len(buf) |-> Invalid] \in [1 .. BufSize - Len(buf) -> Records]
    BY <1>2
  <2>2. [i \in 1 .. BufSize - Len(buf) |-> Invalid] \in Seq(Records)
    BY <1>3, <2>1, RunIsSeq
  <2> QED BY <2>2 DEF Padded
<1>5. idx[rw] \o Padded(buf) \in Seq(Records)
  BY <1>1, <1>4
<1>6. CASE UNCHANGED idx /\ buffer' \in {buf, Padded(buf)}
  BY <1>1, <1>4, <1>6
<1>7. CASE buffer' = <<>> /\ idx' = [idx EXCEPT ![rw] = @ \o Padded(buf)]
  BY <1>1, <1>5, <1>7
<1> QED BY <1>6, <1>7, SMTT(60) DEF GroupCommit

LEMMA AppendIndexType ==
    ASSUME TypeOK, NEW STATE r, r \in Records, AppendIndex(r)
    PROVE  idx' \in [Layers -> Seq(Records)] /\ buffer' \in Seq(Records)
<1>1. rw \in Layers /\ idx \in [Layers -> Seq(Records)] /\ buffer \in Seq(Records)
  BY TypeFacts, ZenonT(60) DEF TypeOK
<1>2. Append(idx[rw], r) \in Seq(Records) /\ Buffered(r) \in Seq(Records)
  <2>1. Undefined \in Records
    <3>1. Invalid \in Records /\ NBlocks + 1 \in Nat
      BY FileAssumption DEF Invalid, Records
    <3> QED BY <3>1, Zenon DEF Undefined, Records
  <2> QED BY <1>1, <2>1 DEF Buffered
<1>3. CASE GroupCommit(Buffered(r))
  BY <1>2, <1>3, GroupCommitType, ZenonT(60)
<1> QED BY <1>1, <1>2, <1>3, ZenonT(60) DEF AppendIndex

LEMMA LogInv ==
    ASSUME IInv, NEW t \in Threads, WLog(t) \/ DLog(t)
    PROVE  IInv'
<1>1. /\ TypeOK /\ th[t] \in CallStates /\ th \in [Threads -> CallStates] /\ mtx = t
      /\ HolderOK(t) /\ CallOK(t)
  BY DEF IInv, TypeOK, WLog, DLog, HolderOK, Locked
<1>2. \A l \in Layers : Len(data'[l]) >= Len(data[l])
  BY <1>1, TypeFacts DEF WLog, DLog
<1>3. CASE WLog(t)
  <2> DEFINE r == [Rec(t, FALSE) EXCEPT !.offset = th[t].cur - th[t].n]
  <2>1. r \in Records
    <3>1. th[t].cur - th[t].n \in Nat /\ th[t].n \in Nat /\ th[t].pos \in Nat
      BY <1>1, <1>3, FileAssumption DEF WLog, CallOK, CallStates
    <3> QED BY <3>1, ZenonT(60) DEF Rec, Records
  <2>2. AppendIndex(r)
    BY <1>3 DEF WLog
  <2> HIDE DEF r
  <2>3. idx' \in [Layers -> Seq(Records)] /\ buffer' \in Seq(Records)
    BY <1>1, <2>1, <2>2, AppendIndexType
  <2>4. "w_loop" \in PCs /\ 0 \in 0 .. NBlocks
    BY FileAssumption DEF PCs
  <2>5. /\ th' \in [Threads -> CallStates] /\ \A u \in Threads \ {t} : th'[u] = th[u]
        /\ th'[t] = [th[t] EXCEPT !.pc = "w_loop", !.pos = 0, !.n = 0]
    BY <1>1, <1>3, <2>4, ZenonT(60) DEF WLog, CallStates
  <2>6. HolderOK(t)' /\ CallOK(t)' /\ ReaderOK(t)'
    <3>1. /\ th'[t].pc = "w_loop" /\ th'[t].off = th[t].off /\ th'[t].cur = th[t].cur
          /\ th'[t].end = th[t].end /\ th'[t].val = th[t].val
      BY <1>1, <2>5 DEF CallStates
    <3> QED BY <1>1, <1>3, <3>1 DEF WLog, HolderOK, CallOK, ReaderOK, Locked
  <2>7. TypeOK'
    BY <1>1, <1>3, <2>3, <2>5 DEF WLog, TypeOK, stack
  <2> QED BY <1>1, <1>2, <1>3, <2>5, <2>6, <2>7, OneCall DEF WLog, stack
<1>4. CASE DLog(t)
  <2>1. DRec(t) \in Records
    BY SMTT(20), <1>1, <1>4, FileAssumption DEF DLog, CallOK, DRec, Records, CallStates
  <2>2. idx' \in [Layers -> Seq(Records)] /\ buffer' \in Seq(Records)
    BY <1>1, <1>4, <2>1, AppendIndexType DEF DLog
  <2>3. /\ th' \in [Threads -> CallStates] /\ \A u \in Threads \ {t} : th'[u] = th[u]
        /\ HolderOK(t)' /\ CallOK(t)' /\ ReaderOK(t)'
    BY <1>1, <1>4, ReturnFacts DEF DLog
  <2>4. TypeOK'
    BY <1>1, <1>4, <2>2, <2>3, ZenonT(60) DEF DLog, TypeOK, stack
  <2> QED BY <1>1, <1>2, <1>4, <2>3, <2>4, OneCall, SMTT(60) DEF DLog, stack
<1> QED BY <1>3, <1>4

LEMMA SyncInv ==
    ASSUME IInv, NEW t \in Threads, SFlush(t) \/ SData(t) \/ SIndex(t)
    PROVE  IInv'
<1>1. TypeOK /\ rw \in Layers
  BY TypeFacts DEF IInv
<1>2. \A l \in Layers : Len(data'[l]) >= Len(data[l])
  BY <1>1, TypeFacts, SMTT(60) DEF SFlush, SData, SIndex
<1>3. /\ th' \in [Threads -> CallStates] /\ \A u \in Threads \ {t} : th'[u] = th[u]
      /\ HolderOK(t)' /\ CallOK(t)' /\ ReaderOK(t)'
  <2>1. ASSUME NEW pc \in {"s_data", "s_index"}, Goto(t, pc)
        PROVE  /\ th' \in [Threads -> CallStates] /\ \A u \in Threads \ {t} : th'[u] = th[u]
               /\ HolderOK(t)' /\ CallOK(t)' /\ ReaderOK(t)'
    <3>1. pc \in PCs
      BY DEF PCs
    <3>2. th' \in [Threads -> CallStates] /\ \A u \in Threads \ {t} : th'[u] = th[u]
      BY <1>1, <2>1, <3>1, GotoFacts, ZenonT(60)
    <3>3. th'[t].pc = pc
      BY <1>1, <2>1, <3>1, GotoFacts, ZenonT(60)
    <3> QED BY <3>2, <3>3 DEF HolderOK, CallOK, ReaderOK, Locked
  <2> QED BY <1>1, <2>1, ReturnFacts, SMTT(60) DEF SFlush, SData, SIndex
<1>4. TypeOK'
  <2>1. CASE SFlush(t)
    BY <1>1, <1>3, <2>1, GroupCommitType, ZenonT(60) DEF SFlush, TypeOK, stack
  <2>2. CASE SData(t)
    BY <1>1, <1>3, <2>2, ZenonT(60) DEF SData, SyncData, TypeOK, stack
  <2>3. CASE SIndex(t)
    BY <1>1, <1>3, <2>3, ZenonT(60) DEF SIndex, SyncIndex, TypeOK, stack
  <2> QED BY <2>1, <2>2, <2>3
<1>5. UNCHANGED <<sealed, m_files, m_rw_tag, backing, mapping, mtx>>
  BY ZenonT(60) DEF SFlush, SData, SIndex, stack
<1> QED BY <1>2, <1>3, <1>4, <1>5, OneCall

LEMMA RenameInv ==
    ASSUME IInv, NEW t \in Threads, Rename(t)
    PROVE  IInv'
<1>1. TypeOK
  BY SMTT(60) DEF IInv
<1>2. \A l \in Layers : Len(data'[l]) >= Len(data[l])
  BY <1>1, TypeFacts DEF Rename
<1>3. /\ th' \in [Threads -> CallStates] /\ \A u \in Threads \ {t} : th'[u] = th[u]
      /\ HolderOK(t)' /\ CallOK(t)' /\ ReaderOK(t)'
  BY <1>1, ReturnFacts DEF Rename
<1>4. DOMAIN config' \subseteq Nat /\ \A i \in DOMAIN config' : config'[i] \in Layers
  <2>1. DOMAIN m_files \subseteq Nat /\ \A i \in DOMAIN m_files : m_files[i] \in Layers
    BY <1>1, TypeFacts
  <2> QED BY <1>1, <2>1, ZenonT(60) DEF Rename, TypeOK
<1>5. TypeOK'
  BY <1>1, <1>3, <1>4 DEF Rename, TypeOK, stack
<1> QED BY <1>2, <1>3, <1>5, OneCall DEF Rename, stack

-------------------------------------------------------------------------------
(***************************************************************************)
(* Writes to the data file.                                                   *)
(***************************************************************************)
LEMMA DataGrows ==
    ASSUME TypeOK, NEW STATE s, s \in Seq(Content), Len(s) >= Len(data[rw]),
           data' = [data EXCEPT ![rw] = s]
    PROVE  /\ data' \in [Layers -> Seq(Content)]
           /\ data'[rw] = s
           /\ \A l \in Layers : Len(data'[l]) >= Len(data[l])
<1>1. rw \in Layers /\ data \in [Layers -> Seq(Content)] /\ \A l \in Layers : Len(data[l]) \in Nat
  BY TypeFacts, ZenonT(60) DEF TypeOK
<1> QED BY <1>1

LEMMA RunFacts ==
    ASSUME IInv, NEW t \in Threads, NEW n \in 1 .. NBlocks,
           th[t].pc = "w_loop", n \in 1 .. th[t].end - th[t].cur
    PROVE  /\ th[t] \in CallStates /\ th[t].pc = "w_loop" /\ mtx = t
           /\ th[t].cur \in Nat /\ th[t].cur + n <= th[t].end /\ th[t].end <= NBlocks
           /\ th[t].off <= th[t].cur /\ th[t].end \in Nat /\ th[t].off \in Nat
           /\ th[t].val \in Values
           /\ \A b \in th[t].cur .. th[t].cur + n - 1 : b \in Blocks
           /\ \A b \in Blocks : Payload(th[t].val, b) \in Content
<1>1. th[t] \in CallStates /\ th[t].pc = "w_loop"
  BY TypeFacts, SMTT(60) DEF IInv
<1>2. mtx = t /\ th[t].val \in Values /\ th[t].off <= th[t].cur
  BY <1>1, SMTT(60) DEF IInv, HolderOK, CallOK, Locked
<1>3. /\ th[t].cur \in Nat /\ th[t].end \in Nat /\ th[t].end <= NBlocks /\ th[t].off \in Nat
      /\ th[t].cur + n <= th[t].end
  BY <1>1, FileAssumption, SMTT(60) DEF CallStates
<1>4. \A b \in th[t].cur .. th[t].cur + n - 1 : b \in Blocks
  BY <1>3, FileAssumption DEF Blocks
<1>5. \A b \in Blocks : Payload(th[t].val, b) \in Content
  BY <1>2 DEF Payload, Content
<1> QED BY <1>1, <1>2, <1>3, <1>4, <1>5

LEMMA BufFacts ==
    ASSUME IInv, NEW t \in Threads, NEW n \in 1 .. NBlocks,
           th[t].pc = "w_loop", n \in 1 .. th[t].end - th[t].cur
    PROVE  /\ data[rw] \o Buf(t, n) \in Seq(Content)
           /\ Len(data[rw] \o Buf(t, n)) = Len(data[rw]) + n
<1>1. \A i \in 1 .. n : th[t].cur + i - 1 \in th[t].cur .. th[t].cur + n - 1
  BY RunFacts, FileAssumption, SMTT(60)
<1>2. Buf(t, n) \in [1 .. n -> Content]
  BY <1>1, RunFacts, SMTT(60) DEF Buf
<1>3. data[rw] \in Seq(Content) /\ n \in Int
  BY SMTT(20), TypeFacts DEF IInv
<1>4. n >= 0
  OBVIOUS
<1> QED BY <1>2, <1>3, <1>4, AppendRun, SMTT(60)

LEMMA WAppendInv ==
    ASSUME IInv, NEW t \in Threads, WAppend(t)
    PROVE  IInv'
<1>1. PICK n \in 1 .. NBlocks :
          /\ th[t].pc = "w_loop" /\ n \in 1 .. th[t].end - th[t].cur
          /\ data' = [data EXCEPT ![rw] = @ \o Buf(t, n)]
          /\ th' = [th EXCEPT ![t].pc = "w_insert", ![t].pos = Len(data[rw]), ![t].n = n]
  BY ZenonT(60) DEF WAppend, Run
<1>2. TypeOK /\ th \in [Threads -> CallStates] /\ rw \in Layers /\ Len(data[rw]) \in Nat
  BY TypeFacts, ZenonT(60) DEF IInv, TypeOK
<1>3. /\ data' \in [Layers -> Seq(Content)] /\ Len(data'[rw]) = Len(data[rw]) + n
      /\ \A l \in Layers : Len(data'[l]) >= Len(data[l])
  <2>1. data[rw] \o Buf(t, n) \in Seq(Content) /\ Len(data[rw] \o Buf(t, n)) = Len(data[rw]) + n
    BY <1>1, BufFacts
  <2>2. Len(data[rw] \o Buf(t, n)) >= Len(data[rw])
    BY <1>2, <2>1
  <2>3. data' = [data EXCEPT ![rw] = data[rw] \o Buf(t, n)]
    BY <1>1
  <2> QED BY <1>2, <2>1, <2>2, <2>3, DataGrows, ZenonT(60)
<1>4. /\ th' \in [Threads -> CallStates] /\ \A u \in Threads \ {t} : th'[u] = th[u]
      /\ th'[t].pc = "w_insert" /\ th'[t].pos = Len(data[rw]) /\ th'[t].n = n
      /\ th'[t].off = th[t].off /\ th'[t].cur = th[t].cur /\ th'[t].end = th[t].end
      /\ th'[t].val = th[t].val
  <2>1. "w_insert" \in PCs /\ n \in 0 .. NBlocks /\ th[t] \in CallStates
    BY <1>1, RunFacts, FileAssumption DEF PCs
  <2> QED BY <1>1, <1>2, <2>1, ZenonT(60) DEF CallStates
<1>5. UNCHANGED <<idx, sealed, config, ddata, didx, m_files, m_rw_tag, backing, mapping, buffer, mtx, calls>>
  BY DEF WAppend, stack
<1>6. TypeOK'
  BY <1>2, <1>3, <1>4, <1>5, ZenonT(60) DEF TypeOK
<1>7. HolderOK(t)' /\ ReaderOK(t)'
  BY <1>1, <1>4, <1>5, RunFacts DEF HolderOK, ReaderOK, Locked
<1>8. CallOK(t)'
  <2>1. \A b \in Blocks : mapping'[b].kind = "data" => mapping'[b].moffset < th'[t].pos
    BY <1>4, <1>5, ZenonT(60) DEF IInv, NoAliasing
  <2>2. th'[t].pos + th'[t].n <= Len(data'[rw']) /\ th'[t].cur + th'[t].n <= th'[t].end
    BY <1>1, <1>2, <1>3, <1>4, <1>5, RunFacts DEF rw
  <2>3. th'[t].off <= th'[t].cur /\ th'[t].cur <= th'[t].end /\ th'[t].val \in Values
    BY <1>1, <1>4, RunFacts
  <2> QED BY <1>4, <2>1, <2>2, <2>3 DEF CallOK
<1> QED BY <1>3, <1>4, <1>5, <1>6, <1>7, <1>8, OneCall, ZenonT(60)

LEMMA WAppendFailInv ==
    ASSUME IInv, NEW t \in Threads, WAppendFail(t)
    PROVE  IInv'
<1>1. PICK n \in 1 .. NBlocks :
          /\ th[t].pc = "w_loop" /\ n \in 1 .. th[t].end - th[t].cur
          /\ \E k \in 0 .. n - 1 : data' = [data EXCEPT ![rw] = @ \o [i \in 1 .. k |-> Junk]]
  BY ZenonT(60) DEF WAppendFail, Run
<1>2. PICK k \in 0 .. n - 1 : data' = [data EXCEPT ![rw] = @ \o [i \in 1 .. k |-> Junk]]
  BY <1>1, ZenonT(60)
<1>3. TypeOK /\ mtx = t /\ data[rw] \in Seq(Content) /\ Len(data[rw]) \in Nat
  BY <1>1, TypeFacts, RunFacts DEF IInv
<1>4. /\ data' \in [Layers -> Seq(Content)] /\ \A l \in Layers : Len(data'[l]) >= Len(data[l])
  <2>1. [i \in 1 .. k |-> Junk] \in [1 .. k -> Content] /\ k \in Int /\ k >= 0
    BY DEF Content
  <2> DEFINE s == data[rw] \o [i \in 1 .. k |-> Junk]
  <2>2. s \in Seq(Content) /\ Len(s) = Len(data[rw]) + k
    BY <1>3, <2>1, AppendRun
  <2>3. data' = [data EXCEPT ![rw] = s]
    BY <1>2
  <2> HIDE DEF s
  <2>4. Len(s) >= Len(data[rw])
    BY <1>3, <2>1, <2>2
  <2> QED BY <1>3, <2>2, <2>3, <2>4, DataGrows, ZenonT(60)
<1>5. UNCHANGED <<idx, sealed, config, ddata, didx, m_files, m_rw_tag, backing, mapping, buffer, calls>>
  BY DEF WAppendFail, stack
<1>6. /\ th' \in [Threads -> CallStates] /\ \A u \in Threads \ {t} : th'[u] = th[u]
      /\ HolderOK(t)' /\ CallOK(t)' /\ ReaderOK(t)' /\ mtx' = None
  BY <1>3, ReturnFacts, SMTT(60) DEF WAppendFail
<1>7. TypeOK'
  BY <1>3, <1>4, <1>5, <1>6, ZenonT(60) DEF TypeOK
<1> QED BY <1>3, <1>4, <1>5, <1>6, <1>7, OneCall, SMTT(60)

LEMMA RewriteFacts ==
    ASSUME IInv, NEW t \in Threads, NEW n \in 1 .. NBlocks, NEW k \in 0 .. n, NEW m \in Nat,
           th[t].pc = "w_loop", n \in 1 .. th[t].end - th[t].cur,
           data' = [data EXCEPT ![rw] = Rewritten(t, m, k)]
    PROVE  data' \in [Layers -> Seq(Content)] /\ \A l \in Layers : Len(data'[l]) >= Len(data[l])
<1>1. TypeOK /\ data[rw] \in Seq(Content) /\ Len(data[rw]) \in Nat
  BY TypeFacts, SMTT(60) DEF IInv
<1>2. DOMAIN data[rw] = 1 .. Len(data[rw]) /\ \A i \in 1 .. Len(data[rw]) : data[rw][i] \in Content
  BY <1>1, SMTT(60)
<1>3. ASSUME NEW i \in 1 .. Len(data[rw]), m < i, i <= m + k
      PROVE  Payload(th[t].val, th[t].cur + (i - 1 - m)) \in Content
  <2>1. th[t].cur + (i - 1 - m) \in th[t].cur .. th[t].cur + n - 1
    <3>1. th[t].cur \in Nat /\ Len(data[rw]) \in Nat
      BY <1>1, RunFacts, ZenonT(60)
    <3> QED BY <1>3, <3>1, SMTT(60)
  <2> QED BY <2>1, RunFacts, ZenonT(60)
<1>4. Rewritten(t, m, k) \in [1 .. Len(data[rw]) -> Content]
  BY <1>2, <1>3 DEF Rewritten
<1>5. Rewritten(t, m, k) \in Seq(Content) /\ Len(Rewritten(t, m, k)) = Len(data[rw])
  BY <1>1, <1>4, RunIsSeq
<1>6. Len(Rewritten(t, m, k)) >= Len(data[rw])
  BY <1>1, <1>5, SMTT(60)
<1> QED BY <1>1, <1>5, <1>6, DataGrows, ZenonT(60)

LEMMA WRewriteInv ==
    ASSUME IInv, NEW t \in Threads, WRewrite(t)
    PROVE  IInv'
<1>1. PICK n \in 1 .. NBlocks :
          /\ th[t].pc = "w_loop" /\ n \in 1 .. th[t].end - th[t].cur
          /\ data' = [data EXCEPT ![rw] = Rewritten(t, mapping[th[t].cur].moffset, n)]
          /\ th' = [th EXCEPT ![t].cur = @ + n]
  BY ZenonT(60) DEF WRewrite, Run
<1>2. /\ TypeOK /\ th \in [Threads -> CallStates] /\ th[t] \in CallStates /\ mtx = t
      /\ th[t].cur \in Blocks /\ mapping[th[t].cur].moffset \in Nat
  <2>1. th[t].cur \in th[t].cur .. th[t].cur + n - 1
    BY <1>1, RunFacts
  <2>2. th[t].cur \in Blocks
    BY <1>1, <2>1, RunFacts
  <2> QED BY <1>1, <2>2, TypeFacts, RunFacts, ZenonT(60) DEF IInv, TypeOK
<1>3. data' \in [Layers -> Seq(Content)] /\ \A l \in Layers : Len(data'[l]) >= Len(data[l])
  <2>1. n \in 0 .. n
    OBVIOUS
  <2> QED BY <1>1, <1>2, <2>1, RewriteFacts, ZenonT(60)
<1>4. /\ th' \in [Threads -> CallStates] /\ \A u \in Threads \ {t} : th'[u] = th[u]
      /\ th'[t].pc = "w_loop" /\ th'[t].off = th[t].off /\ th'[t].cur = th[t].cur + n
      /\ th'[t].end = th[t].end /\ th'[t].val = th[t].val
  <2>1. th[t].cur + n \in 0 .. NBlocks
    BY <1>1, RunFacts, FileAssumption
  <2> QED BY <1>1, <1>2, <2>1 DEF CallStates
<1>5. UNCHANGED <<idx, sealed, config, ddata, didx, m_files, m_rw_tag, backing, mapping, buffer, mtx, calls>>
  BY SMTT(60) DEF WRewrite, stack
<1>6. TypeOK'
  BY <1>2, <1>3, <1>4, <1>5, ZenonT(60) DEF TypeOK
<1>7. HolderOK(t)' /\ ReaderOK(t)'
  BY <1>2, <1>4, <1>5 DEF HolderOK, ReaderOK, Locked
<1>8. CallOK(t)'
  <2>1. th'[t].off <= th'[t].cur /\ th'[t].cur <= th'[t].end /\ th'[t].val \in Values
    BY <1>1, <1>4, RunFacts, SMTT(60)
  <2> QED BY <1>4, <2>1 DEF CallOK
<1> QED BY <1>3, <1>4, <1>5, <1>6, <1>7, <1>8, OneCall

LEMMA WRewriteFailInv ==
    ASSUME IInv, NEW t \in Threads, WRewriteFail(t)
    PROVE  IInv'
<1>1. PICK n \in 1 .. NBlocks :
          /\ th[t].pc = "w_loop" /\ n \in 1 .. th[t].end - th[t].cur
          /\ \E k \in 0 .. n - 1 :
                data' = [data EXCEPT ![rw] = Rewritten(t, mapping[th[t].cur].moffset, k)]
  BY ZenonT(60) DEF WRewriteFail, Run
<1>2. PICK k \in 0 .. n - 1 :
          data' = [data EXCEPT ![rw] = Rewritten(t, mapping[th[t].cur].moffset, k)]
  BY <1>1, ZenonT(60)
<1>3. TypeOK /\ mtx = t /\ mapping[th[t].cur].moffset \in Nat
  <2>1. th[t].cur \in th[t].cur .. th[t].cur + n - 1
    BY <1>1, RunFacts, SMTT(60)
  <2>2. th[t].cur \in Blocks
    BY <1>1, <2>1, RunFacts, ZenonT(60)
  <2> QED BY <1>1, <2>2, TypeFacts, RunFacts, ZenonT(60) DEF IInv
<1>4. data' \in [Layers -> Seq(Content)] /\ \A l \in Layers : Len(data'[l]) >= Len(data[l])
  <2>1. k \in 0 .. n
    OBVIOUS
  <2> QED BY <1>1, <1>2, <1>3, <2>1, RewriteFacts, ZenonT(60)
<1>5. UNCHANGED <<idx, sealed, config, ddata, didx, m_files, m_rw_tag, backing, mapping, buffer, calls>>
  BY DEF WRewriteFail, stack
<1>6. /\ th' \in [Threads -> CallStates] /\ \A u \in Threads \ {t} : th'[u] = th[u]
      /\ HolderOK(t)' /\ CallOK(t)' /\ ReaderOK(t)' /\ mtx' = None
  BY <1>3, ReturnFacts, ZenonT(60) DEF WRewriteFail
<1>7. TypeOK'
  BY <1>3, <1>4, <1>5, <1>6, ZenonT(60) DEF TypeOK
<1> QED BY <1>3, <1>4, <1>5, <1>6, <1>7, OneCall, ZenonT(60)

LEMMA RestackFailInv ==
    ASSUME IInv, NEW t \in Threads, RestackFail(t)
    PROVE  IInv'
<1>1. TypeOK /\ data[rw] \in Seq(Content) /\ Len(data[rw]) \in Nat
  BY TypeFacts DEF IInv
<1>2. data' \in [Layers -> Seq(Content)] /\ \A l \in Layers : Len(data'[l]) >= Len(data[l])
  <2>1. Append(data[rw], Junk) \in Seq(Content) /\ Len(Append(data[rw], Junk)) = Len(data[rw]) + 1
    BY <1>1 DEF Content
  <2>2. CASE data' = [data EXCEPT ![rw] = Append(@, Junk)]
    <3>1. Len(Append(data[rw], Junk)) >= Len(data[rw])
      BY <1>1, <2>1
    <3>2. data' = [data EXCEPT ![rw] = Append(data[rw], Junk)]
      BY <2>2
    <3> QED BY <1>1, <2>1, <3>1, <3>2, DataGrows, ZenonT(60)
  <2>3. CASE UNCHANGED data
    <3>1. data \in [Layers -> Seq(Content)] /\ \A l \in Layers : Len(data[l]) \in Nat
      BY <1>1, TypeFacts, ZenonT(60) DEF TypeOK
    <3> QED BY <2>3, <3>1
  <2> QED BY <2>2, <2>3, ZenonT(60) DEF RestackFail
<1>3. UNCHANGED <<idx, sealed, config, ddata, didx, m_files, m_rw_tag, backing, mapping, buffer, mtx, calls>>
  BY SMTT(60) DEF RestackFail, stack
<1>4. /\ th' \in [Threads -> CallStates] /\ \A u \in Threads \ {t} : th'[u] = th[u]
      /\ HolderOK(t)' /\ CallOK(t)' /\ ReaderOK(t)'
  BY <1>1, ReturnFacts, SMTT(60) DEF RestackFail
<1>5. TypeOK'
  BY <1>1, <1>2, <1>3, <1>4, ZenonT(60) DEF TypeOK
<1> QED BY <1>2, <1>3, <1>4, <1>5, OneCall

-------------------------------------------------------------------------------
(***************************************************************************)
(* Changes to the index: they wait for the readers, and their thread is the    *)
(* only one inside a critical section.                                        *)
(***************************************************************************)
LEMMA PutFacts ==
    ASSUME mapping \in Places1, NEW STATE r, r \in Records, NEW STATE tag, tag \in Nat,
           mapping' = Put(mapping, r, tag)
    PROVE  /\ mapping' \in Places1
           /\ \A b \in Blocks : ~Covers(r, b) => mapping'[b] = mapping[b]
           /\ \A b \in Blocks : Covers(r, b) /\ r.zeroed => mapping'[b].kind = "zero"
           /\ \A b \in Blocks : Covers(r, b) /\ ~r.zeroed =>
                 /\ mapping'[b].kind = "data" /\ mapping'[b].tag = tag
                 /\ mapping'[b].moffset = r.moffset + (b - r.offset)
<1>1. ASSUME NEW b \in Blocks, Covers(r, b), ~r.zeroed
      PROVE  mapping'[b] = At(tag, r.moffset + (b - r.offset)) /\ r.moffset + (b - r.offset) \in Nat
  BY <1>1 DEF Put, Covers, Records, Blocks
<1>2. ASSUME NEW b \in Blocks, Covers(r, b), r.zeroed
      PROVE  mapping'[b] = ZeroPlace
  BY <1>2 DEF Put
<1>3. ASSUME NEW b \in Blocks, ~Covers(r, b)
      PROVE  mapping'[b] = mapping[b]
  BY <1>3 DEF Put
<1>4. ASSUME NEW b \in Blocks PROVE mapping'[b] \in Places
  <2>1. CASE ~Covers(r, b)
    BY <1>3, <2>1, SMTT(60) DEF Places1
  <2>2. CASE Covers(r, b) /\ r.zeroed
    BY <1>2, <2>2, SMTT(60) DEF ZeroPlace, Places
  <2>3. CASE Covers(r, b) /\ ~r.zeroed
    <3> DEFINE m == r.moffset + (b - r.offset)
    <3>1. m \in Nat /\ mapping'[b] = At(tag, m)
      BY <1>1, <2>3
    <3> HIDE DEF m
    <3> QED BY <3>1 DEF At, Places
  <2> QED BY <2>1, <2>2, <2>3
<1>5. mapping' \in Places1
  BY <1>4, SMTT(60) DEF Put, Places1
<1>6. \A b \in Blocks : Covers(r, b) /\ r.zeroed => mapping'[b].kind = "zero"
  BY <1>2, SMTT(60) DEF ZeroPlace
<1>7. \A b \in Blocks : Covers(r, b) /\ ~r.zeroed =>
          /\ mapping'[b].kind = "data" /\ mapping'[b].tag = tag
          /\ mapping'[b].moffset = r.moffset + (b - r.offset)
  <2>1. \A x : At(tag, x).kind = "data" /\ At(tag, x).tag = tag /\ At(tag, x).moffset = x
    BY SMTT(60) DEF At
  <2> QED BY <1>1, <2>1
<1> QED BY <1>3, <1>5, <1>6, <1>7

\* The only thread in a critical section changes the index, with no reader about.
LEMMA InsertStep ==
    ASSUME IInv, TypeOK', NEW t \in Threads, mtx = t, NoReader,
           UNCHANGED <<data, sealed, m_files, m_rw_tag, backing, mtx>>,
           \A u \in Threads \ {t} : th'[u] = th[u],
           th'[t].pc \in {"w_log", "d_log"}, CallOK(t)', NoAliasing'
    PROVE  IInv'
<1>1. ASSUME NEW u \in Threads PROVE HolderOK(u)' /\ CallOK(u)' /\ ReaderOK(u)'
  <2>1. CASE u = t
    BY <2>1 DEF HolderOK, ReaderOK
  <2>2. CASE u # t
    <3>1. th'[u] = th[u] /\ th[u].pc \notin Locked /\ th[u].pc # "r_data"
      BY <2>2, ZenonT(60) DEF IInv, HolderOK, NoReader
    <3> QED BY <3>1, ZenonT(60) DEF IInv, HolderOK, CallOK, ReaderOK, Locked
  <2> QED BY <2>1, <2>2, SMTT(60)
<1>2. StackInv'
  BY ZenonT(60) DEF IInv, StackInv, rw
<1> QED BY <1>1, <1>2, SMTT(60) DEF IInv

LEMMA WInsertInv ==
    ASSUME IInv, NEW t \in Threads, WInsert(t)
    PROVE  IInv'
<1>1. /\ TypeOK /\ th[t] \in CallStates /\ th \in [Threads -> CallStates] /\ mtx = t
      /\ CallOK(t) /\ th[t].pc = "w_insert" /\ mapping \in Places1 /\ m_rw_tag \in Nat
      /\ Len(data[rw]) \in Nat
  BY TypeFacts DEF IInv, TypeOK, WInsert, HolderOK, Locked
<1>2. /\ th[t].cur \in Nat /\ th[t].n \in Nat /\ th[t].pos \in Nat /\ th[t].end \in 0 .. NBlocks
      /\ th[t].off \in Nat /\ th[t].cur + th[t].n <= th[t].end
      /\ th[t].off <= th[t].cur /\ th[t].val \in Values
      /\ th[t].pos + th[t].n <= Len(data[rw])
      /\ \A b \in Blocks : mapping[b].kind = "data" => mapping[b].moffset < th[t].pos
  BY SMTT(60), <1>1, FileAssumption DEF CallOK, CallStates
<1>n. /\ th[t].cur \in Nat /\ th[t].n \in Nat /\ th[t].pos \in Nat /\ th[t].end \in 0 .. NBlocks
      /\ th[t].off \in Nat /\ th[t].cur + th[t].n <= th[t].end /\ th[t].off <= th[t].cur
  BY <1>2, ZenonT(60)
<1> DEFINE r == Rec(t, FALSE)
<1>3. /\ r \in Records /\ ~r.zeroed /\ r.moffset = th[t].pos
      /\ r.offset = th[t].cur /\ r.length = th[t].n
  BY <1>2, ZenonT(60) DEF Rec, Records
<1>4. mapping' = Put(mapping, r, m_rw_tag)
  BY SMTT(60) DEF WInsert
<1> HIDE DEF r
<1>5. /\ mapping' \in Places1
      /\ \A b \in Blocks : ~Covers(r, b) => mapping'[b] = mapping[b]
      /\ \A b \in Blocks : Covers(r, b) =>
            /\ mapping'[b].kind = "data" /\ mapping'[b].tag = m_rw_tag
            /\ mapping'[b].moffset = th[t].pos + (b - th[t].cur)
  <2>1. mapping \in Places1 /\ m_rw_tag \in Nat
    BY <1>1, ZenonT(60)
  <2>2. r \in Records /\ ~r.zeroed
    BY <1>3, ZenonT(60)
  <2>3. /\ mapping' \in Places1
        /\ \A b \in Blocks : ~Covers(r, b) => mapping'[b] = mapping[b]
        /\ \A b \in Blocks : Covers(r, b) =>
              /\ mapping'[b].kind = "data" /\ mapping'[b].tag = m_rw_tag
              /\ mapping'[b].moffset = r.moffset + (b - r.offset)
    BY <1>4, <2>1, <2>2, PutFacts, ZenonT(60)
  <2>4. r.moffset = th[t].pos /\ r.offset = th[t].cur
    BY <1>3, ZenonT(60)
  <2> QED BY <2>3, <2>4, ZenonT(60)
<1>6. /\ th' \in [Threads -> CallStates] /\ \A u \in Threads \ {t} : th'[u] = th[u]
      /\ th'[t].pc = "w_log" /\ th'[t].off = th[t].off /\ th'[t].cur = th[t].cur + th[t].n
      /\ th'[t].end = th[t].end /\ th'[t].val = th[t].val /\ th'[t].n = th[t].n
  <2>1. th[t].cur + th[t].n \in 0 .. NBlocks
    BY <1>n, FileAssumption
  <2>2. "w_log" \in PCs
    BY DEF PCs
  <2> QED BY <1>1, <2>1, <2>2, ZenonT(60) DEF WInsert, CallStates
<1>7. UNCHANGED <<data, idx, sealed, config, ddata, didx, m_files, m_rw_tag, backing, buffer, mtx, calls>>
  BY DEF WInsert, disk, stack
<1>8. TypeOK'
  BY <1>1, <1>5, <1>6, <1>7, ZenonT(60) DEF TypeOK
<1>9. CallOK(t)'
  <2>1. th'[t].off <= th'[t].cur /\ th'[t].cur <= th'[t].end /\ th'[t].n <= th'[t].cur
    <3>1. /\ th'[t].off = th[t].off /\ th'[t].cur = th[t].cur + th[t].n
          /\ th'[t].end = th[t].end /\ th'[t].n = th[t].n
      BY <1>6, ZenonT(60)
    <3> QED BY <1>n, <3>1
  <2> QED BY <1>2, <1>6, <2>1, ZenonT(60) DEF CallOK
<1>10. NoAliasing'
  <2>1. \A b \in Blocks : Covers(r, b) => b \in Nat /\ th[t].cur <= b /\ b < th[t].cur + th[t].n
    BY <1>2, <1>3 DEF Covers, Blocks
  <2>2. \A b \in Blocks : Covers(r, b) =>
            mapping'[b].moffset \in Nat /\ th[t].pos <= mapping'[b].moffset
              /\ mapping'[b].moffset < Len(data[rw])
    <3> SUFFICES ASSUME NEW b \in Blocks, Covers(r, b)
                 PROVE  mapping'[b].moffset \in Nat /\ th[t].pos <= mapping'[b].moffset
                          /\ mapping'[b].moffset < Len(data[rw])
      OBVIOUS
    <3>1. mapping'[b].moffset = th[t].pos + (b - th[t].cur)
      BY <1>5
    <3>2. b \in Nat /\ th[t].cur <= b /\ b < th[t].cur + th[t].n
      BY <2>1, SMTT(60)
    <3>3. /\ th[t].cur \in Nat /\ th[t].n \in Nat /\ th[t].pos \in Nat
          /\ th[t].pos + th[t].n <= Len(data[rw]) /\ Len(data[rw]) \in Nat
      BY <1>1, <1>2
    <3>4. ASSUME NEW p \in Nat, NEW n \in Nat, NEW c \in Nat, NEW len \in Nat, NEW x \in Nat,
                 c <= x, x < c + n, p + n <= len
          PROVE  p + (x - c) \in Nat /\ p <= p + (x - c) /\ p + (x - c) < len
      BY <3>4, SMTT(60)
    <3> DEFINE m == th[t].pos + (b - th[t].cur)
    <3>5. m \in Nat /\ th[t].pos <= m /\ m < Len(data[rw])
      BY <3>2, <3>3, <3>4, ZenonT(60)
    <3>6. mapping'[b].moffset = m
      BY <3>1, SMTT(60)
    <3> HIDE DEF m
    <3> QED BY <3>5, <3>6, SMTT(60)
  <2>3. \A b \in Blocks : ~Covers(r, b) /\ mapping'[b].kind = "data" =>
            mapping'[b].moffset \in Nat /\ mapping'[b].moffset < th[t].pos
    BY <1>1, <1>2, <1>5, TypeFacts, ZenonT(60)
  <2>4. \A a, b \in Blocks : Covers(r, a) /\ Covers(r, b) /\ a # b =>
            mapping'[a].moffset # mapping'[b].moffset
    <3>1. \A b \in Blocks : Covers(r, b) => mapping'[b].moffset = th[t].pos + (b - th[t].cur)
      BY <1>5, ZenonT(60)
    <3>2. \A b \in Blocks : Covers(r, b) => b \in Nat
      BY <2>1, ZenonT(60)
    <3>3. th[t].pos \in Nat /\ th[t].cur \in Nat
      BY <1>n, ZenonT(60)
    <3> QED BY <3>1, <3>2, <3>3, SMTT(60)
  <2>5. \A a, b \in Blocks : ~Covers(r, a) /\ ~Covers(r, b) /\ a # b
            /\ mapping'[a].kind = "data" /\ mapping'[b].kind = "data" =>
            mapping'[a].moffset # mapping'[b].moffset
    BY <1>5, ZenonT(60) DEF IInv, NoAliasing
  <2>6. \A a, b \in Blocks :
            a # b /\ mapping'[a].kind = "data" /\ mapping'[b].kind = "data"
              => mapping'[a].moffset # mapping'[b].moffset
    <3>1. ASSUME NEW p \in Nat, NEW x \in Nat, NEW y \in Nat, p <= x, y < p PROVE x # y
      BY <3>1
    <3> QED BY <1>n, <2>2, <2>3, <2>4, <2>5, <3>1, ZenonT(60)
  <2>7. \A b \in Blocks : mapping'[b].kind = "data" =>
            mapping'[b].tag = m_rw_tag' /\ mapping'[b].moffset < Len(data'[rw'])
    BY <1>1, <1>5, <1>7, <2>2, ZenonT(60) DEF IInv, NoAliasing, rw
  <2> QED BY <2>6, <2>7, ZenonT(60) DEF NoAliasing
<1> QED BY <1>1, <1>6, <1>7, <1>8, <1>9, <1>10, InsertStep DEF WInsert

LEMMA DInsertInv ==
    ASSUME IInv, NEW t \in Threads, DInsert(t)
    PROVE  IInv'
<1>1. /\ TypeOK /\ th[t] \in CallStates /\ th \in [Threads -> CallStates] /\ mtx = t
      /\ CallOK(t) /\ th[t].pc = "d_insert" /\ mapping \in Places1 /\ th[t].tag \in Nat
  BY TypeFacts, ZenonT(60) DEF IInv, TypeOK, DInsert, HolderOK, Locked, CallStates
<1>2. DRec(t) \in Records /\ DRec(t).zeroed
  <2>1. th[t].off \in 0 .. NBlocks /\ th[t].end \in 0 .. NBlocks /\ th[t].pos \in Nat
    BY <1>1, ZenonT(60) DEF CallStates
  <2>2. th[t].off < th[t].end
    BY <1>1, ZenonT(60) DEF CallOK
  <2>3. th[t].off \in Nat /\ th[t].end - th[t].off \in Nat
    BY <2>1, <2>2, FileAssumption
  <2> QED BY <2>1, <2>3, ZenonT(60) DEF DRec, Records
<1>3. /\ mapping' \in Places1
      /\ \A b \in Blocks : ~Covers(DRec(t), b) => mapping'[b] = mapping[b]
      /\ \A b \in Blocks : Covers(DRec(t), b) => mapping'[b].kind = "zero"
  BY <1>1, <1>2, PutFacts DEF DInsert
<1>4. /\ th' \in [Threads -> CallStates] /\ \A u \in Threads \ {t} : th'[u] = th[u]
      /\ th'[t].pc = "d_log" /\ th'[t].off = th[t].off /\ th'[t].end = th[t].end
  <2>1. "d_log" \in PCs
    BY DEF PCs
  <2> QED BY <1>1, <2>1, ZenonT(60) DEF DInsert, CallStates
<1>5. UNCHANGED <<data, idx, sealed, config, ddata, didx, m_files, m_rw_tag, backing, buffer, mtx, calls>>
  BY DEF DInsert, disk, stack
<1>6. TypeOK'
  BY <1>1, <1>3, <1>4, <1>5, ZenonT(60) DEF TypeOK
<1>7. CallOK(t)'
  BY <1>1, <1>4, ZenonT(60) DEF CallOK
<1>8. NoAliasing'
  <2>1. \A b \in Blocks : mapping'[b].kind = "data" => mapping'[b] = mapping[b]
    BY <1>3, ZenonT(60)
  <2> QED BY <1>5, <2>1, ZenonT(60) DEF IInv, NoAliasing, rw
<1> QED BY <1>1, <1>4, <1>5, <1>6, <1>7, <1>8, InsertStep DEF DInsert

-------------------------------------------------------------------------------
(***************************************************************************)
(* Restack.  Replaying a log gives a place for every block.                   *)
(***************************************************************************)
LEMMA ReplayType ==
    ASSUME NEW log \in Seq(Records), NEW tag \in Nat
    PROVE  Replay(log, tag) \in Places1
<1>1. ASSUME NEW b \in Blocks PROVE Replay(log, tag)[b] \in Places
  <2>1. CASE LastCover(log, b) # {}
    <3> DEFINE i == CHOOSE i \in LastCover(log, b) : TRUE
               r == log[i]
    <3>1. i \in LastCover(log, b)
      BY <2>1
    <3>2. r \in Records /\ Covers(r, b)
      BY <3>1 DEF LastCover
    <3>3. Replay(log, tag)[b] = PlaceBy(r, tag, b)
      BY <2>1 DEF Replay
    <3> HIDE DEF r
    <3> DEFINE m == r.moffset + (b - r.offset)
    <3>4. m \in Nat
      BY <3>2 DEF Records, Covers, Blocks
    <3>5. PlaceBy(r, tag, b) = IF r.zeroed THEN ZeroPlace ELSE At(tag, m)
      BY DEF PlaceBy
    <3> HIDE DEF m
    <3> QED BY <3>3, <3>4, <3>5 DEF ZeroPlace, At, Places
  <2>2. CASE LastCover(log, b) = {}
    BY <2>2 DEF Replay, Hole, Places
  <2> QED BY <2>1, <2>2
<1> QED BY <1>1 DEF Replay, Places1

LEMMA RestackInv ==
    ASSUME IInv, NEW t \in Threads, Restack(t)
    PROVE  IInv'
<1>1. PICK l \in Layers :
          /\ th[t].pc = "k_lock" /\ mtx = None /\ NoReader /\ Fresh(l)
          /\ sealed' = [sealed EXCEPT ![rw] = <<Replay(idx[rw], 0)>>]
          /\ data' = [data EXCEPT ![rw] = Append(@, Junk)]
          /\ m_files' = Stacked(l)
          /\ m_rw_tag' = m_rw_tag + 1
          /\ backing' = [b \in Blocks |-> Committed(b)]
          /\ mapping' = [b \in Blocks |-> Hole]
          /\ Goto(t, "k_rename")
          /\ UNCHANGED <<idx, config, ddata, didx, buffer, mtx, calls>>
  BY ZenonT(60) DEF Restack
<1>2. /\ TypeOK /\ rw \in Layers /\ m_rw_tag \in Nat /\ m_files \in [0 .. m_rw_tag -> Layers]
      /\ data[rw] \in Seq(Content) /\ Len(data[rw]) \in Nat
      /\ idx \in [Layers -> Seq(Records)] /\ sealed \in [Layers -> Seq(Places1)]
      /\ data \in [Layers -> Seq(Content)]
  BY TypeFacts, ZenonT(60) DEF IInv, TypeOK
<1>e. StackInv
  BY ZenonT(60) DEF IInv
<1>a. m_rw_tag' = m_rw_tag + 1
  BY <1>1, ZenonT(60)
<1>b. m_rw_tag \in Nat
  BY <1>2, SMTT(60)
<1>c. data' = [data EXCEPT ![rw] = Append(@, Junk)]
  BY <1>1, ZenonT(60)
<1>d. sealed' = [sealed EXCEPT ![rw] = <<Replay(idx[rw], 0)>>]
  BY <1>1, ZenonT(60)
<1>3. /\ data' \in [Layers -> Seq(Content)]
      /\ \A k \in Layers : Len(data'[k]) >= Len(data[k]) /\ Len(data[k]) \in Nat /\ Len(data'[k]) \in Nat
  <2>1. Append(data[rw], Junk) \in Seq(Content) /\ Len(Append(data[rw], Junk)) = Len(data[rw]) + 1
    BY <1>2 DEF Content
  <2>2. TypeOK /\ data' = [data EXCEPT ![rw] = Append(data[rw], Junk)]
    BY <1>2, <1>c, ZenonT(60)
  <2>3. Len(data[rw]) \in Nat
    BY <1>2, ZenonT(60)
  <2>4. Len(Append(data[rw], Junk)) >= Len(data[rw])
    BY <2>1, <2>3
  <2>5. data' \in [Layers -> Seq(Content)] /\ \A k \in Layers : Len(data'[k]) >= Len(data[k])
    BY <2>1, <2>2, <2>4, DataGrows, ZenonT(60)
  <2>6. \A k \in Layers : Len(data[k]) \in Nat
    BY <2>2, TypeFacts, ZenonT(60)
  <2>7. \A k \in Layers : Len(data'[k]) \in Nat
    BY <2>5
  <2> QED BY <2>5, <2>6, <2>7, ZenonT(60)
<1>4. sealed' \in [Layers -> Seq(Places1)] /\ sealed'[rw] # <<>>
      /\ \A k \in Layers \ {rw} : sealed'[k] = sealed[k]
  <2>1. Replay(idx[rw], 0) \in Places1
    BY <1>2, ReplayType, SMTT(60)
  <2> QED BY <1>2, <1>d, <2>1
<1>5. /\ m_files' \in [0 .. m_rw_tag' -> Layers] /\ m_files'[0] = rw /\ rw' = l
      /\ \A tag \in 0 .. m_rw_tag - 1 : m_files'[tag + 1] = m_files[tag]
  <2>1. \A tag \in 0 .. m_rw_tag + 1 :
            m_files'[tag] = IF tag = 0 THEN rw ELSE IF tag = m_rw_tag + 1 THEN l ELSE m_files[tag - 1]
    BY <1>1, <1>2 DEF Stacked
  <2>2. ASSUME NEW tag \in 0 .. m_rw_tag + 1 PROVE m_files'[tag] \in Layers
    <3>1. CASE tag = 0 \/ tag = m_rw_tag + 1
      BY <1>2, <2>1, <3>1, ZenonT(60)
    <3>2. CASE tag # 0 /\ tag # m_rw_tag + 1
      <4>1. tag - 1 \in 0 .. m_rw_tag
        BY <1>2, <3>2
      <4> QED BY <1>2, <2>1, <3>2, <4>1, ZenonT(60)
    <3> QED BY <3>1, <3>2
  <2>3. m_files' \in [0 .. m_rw_tag + 1 -> Layers]
    BY <1>1, <2>2 DEF Stacked
  <2>4. ASSUME NEW tag \in 0 .. m_rw_tag - 1 PROVE m_files'[tag + 1] = m_files[tag]
    <3>1. tag + 1 \in 0 .. m_rw_tag + 1 /\ tag + 1 # 0 /\ tag + 1 # m_rw_tag + 1 /\ tag + 1 - 1 = tag
      BY <1>2
    <3> QED BY <2>1, <3>1
  <2>5. m_files'[0] = rw /\ m_files'[m_rw_tag + 1] = l
    <3>1. 0 \in 0 .. m_rw_tag + 1 /\ m_rw_tag + 1 \in 0 .. m_rw_tag + 1 /\ m_rw_tag + 1 # 0
      BY <1>2
    <3> QED BY <2>1, <3>1
  <2> QED BY <1>1, <2>3, <2>4, <2>5, ZenonT(60) DEF rw
<1>6. ASSUME NEW b \in Blocks
      PROVE  /\ backing'[b] \in Places
             /\ backing'[b].kind = "data" =>
                  \/ /\ mapping[b].kind = "data" /\ backing'[b].tag = 0
                     /\ backing'[b].moffset = mapping[b].moffset
                  \/ /\ backing[b].kind = "data" /\ backing'[b].tag = backing[b].tag + 1
                     /\ backing'[b].moffset = backing[b].moffset
  <2>1. mapping[b] \in Places /\ backing[b] \in Places /\ backing'[b] = Committed(b)
    BY <1>1, <1>2, TypeFacts, ZenonT(60)
  <2> QED BY <2>1, SMTT(60) DEF Committed, Places
<1>7. TypeOK'
  <2>1. th' \in [Threads -> CallStates]
    <3>1. "k_rename" \in PCs
      BY DEF PCs
    <3> QED BY <1>1, <1>2, <3>1, GotoFacts, ZenonT(60)
  <2>2. backing' \in Places1 /\ mapping' \in Places1
    BY <1>1, <1>6, ZenonT(60) DEF Places1, Places, Hole
  <2>3. m_rw_tag' \in Nat
    BY <1>a, <1>b
  <2> QED BY <1>1, <1>2, <1>3, <1>4, <1>5, <2>1, <2>2, <2>3, ZenonT(60) DEF TypeOK
<1>8. ASSUME NEW u \in Threads PROVE HolderOK(u)' /\ CallOK(u)' /\ ReaderOK(u)'
  <2>1. th[u].pc \notin Locked /\ th[u].pc # "r_data"
    BY <1>1, FileAssumption, ZenonT(60) DEF IInv, HolderOK, NoReader
  <2>2. CASE u = t
    <3>1. "k_rename" \in PCs
      BY DEF PCs
    <3>2. th'[u].pc = "k_rename"
      BY <1>1, <1>2, <2>2, <3>1, GotoFacts, ZenonT(60)
    <3> QED BY <3>2, ZenonT(60) DEF HolderOK, CallOK, ReaderOK, Locked
  <2>3. CASE u # t
    <3>1. th'[u] = th[u]
      BY <1>1, <2>3 DEF Goto
    <3> QED BY <2>1, <3>1, ZenonT(60) DEF IInv, HolderOK, CallOK, ReaderOK, Locked
  <2> QED BY <2>2, <2>3, ZenonT(60)
<1>9. NoAliasing'
  BY <1>1, ZenonT(60) DEF NoAliasing, Hole
<1>10. StackInv'
  <2>1. sealed'[rw'] = <<>>
    BY <1>1, <1>4, <1>5, ZenonT(60) DEF Fresh
  <2>2. ASSUME NEW tag \in 0 .. m_rw_tag' - 1 PROVE sealed'[m_files'[tag]] # <<>>
    <3>1. CASE tag = 0
      BY <1>4, <1>5, <3>1
    <3>2. CASE tag # 0
      <4>1. tag - 1 \in 0 .. m_rw_tag - 1 /\ tag - 1 + 1 = tag
        BY <1>a, <1>b, <3>2
      <4>2. m_files'[tag] = m_files[tag - 1] /\ m_files[tag - 1] \in Layers
        <5>1. m_files'[tag - 1 + 1] = m_files[tag - 1]
          BY <1>5, <4>1
        <5>2. tag - 1 \in 0 .. m_rw_tag
          BY <1>2, <4>1, SMTT(60)
        <5> QED BY <1>2, <4>1, <5>1, <5>2
      <4>3. sealed[m_files[tag - 1]] # <<>>
        BY <1>e, <4>1, StackFacts, ZenonT(60)
      <4> QED BY <1>4, <4>2, <4>3, ZenonT(60)
    <3> QED BY <3>1, <3>2, ZenonT(60)
  <2>3. ASSUME NEW b \in Blocks, backing'[b].kind = "data"
        PROVE  backing'[b].tag < m_rw_tag' /\ backing'[b].moffset < Len(data'[m_files'[backing'[b].tag]])
    <3>1. /\ mapping[b].moffset \in Nat /\ backing[b].moffset \in Nat /\ backing[b].tag \in Nat
      BY <1>2, TypeFacts, ZenonT(60)
    <3>2. CASE mapping[b].kind = "data" /\ backing'[b].tag = 0 /\ backing'[b].moffset = mapping[b].moffset
      <4>1. mapping[b].moffset < Len(data[rw])
        BY <3>2, ZenonT(60) DEF IInv, NoAliasing
      <4>2. backing'[b].moffset < Len(data'[rw])
        BY <1>2, <1>3, LessTrans, <3>1, <3>2, <4>1, ZenonT(60)
      <4>3. 0 < m_rw_tag'
        BY <1>a, <1>b
      <4> QED BY <1>5, <3>2, <4>2, <4>3, ZenonT(60)
    <3>3. CASE backing[b].kind = "data" /\ backing'[b].tag = backing[b].tag + 1
                 /\ backing'[b].moffset = backing[b].moffset
      <4>1. backing[b].tag < m_rw_tag /\ backing[b].moffset < Len(data[m_files[backing[b].tag]])
        BY <1>e, <3>3, StackFacts, ZenonT(60)
      <4>3. /\ backing[b].tag \in 0 .. m_rw_tag - 1 /\ backing[b].tag \in 0 .. m_rw_tag
            /\ backing[b].tag + 1 < m_rw_tag + 1
        BY <1>2, <3>1, <4>1, InRange, ZenonT(60)
      <4>4. m_files'[backing'[b].tag] = m_files[backing[b].tag] /\ m_files[backing[b].tag] \in Layers
        BY <1>2, <1>5, <3>3, <4>3, ZenonT(60)
      <4>6. backing'[b].moffset < Len(data'[m_files'[backing'[b].tag]])
        BY <1>3, <3>1, <3>3, <4>1, <4>4, LessTrans, ZenonT(60)
      <4> QED BY <1>1, <3>3, <4>3, <4>6, ZenonT(60)
    <3> QED BY <1>6, <2>3, <3>2, <3>3, ZenonT(60)
  <2> QED BY <2>1, <2>2, <2>3, ZenonT(60) DEF StackInv
<1> QED BY <1>7, <1>8, <1>9, <1>10, SMTT(60) DEF IInv

-------------------------------------------------------------------------------
LEMMA NextInv ==
    ASSUME IInv, [Next]_vars
    PROVE  IInv'
<1>1. CASE UNCHANGED vars
  <2>1. TypeOK'
    BY <1>1, ZenonT(60) DEF vars, IInv, TypeOK
  <2>2. ASSUME NEW t \in Threads PROVE HolderOK(t)' /\ CallOK(t)' /\ ReaderOK(t)'
    BY <1>1, ZenonT(60) DEF vars, IInv, HolderOK, CallOK, ReaderOK, Seen, rw
  <2>3. NoAliasing'
    BY <1>1, ZenonT(60) DEF vars, IInv, NoAliasing, rw
  <2>4. StackInv'
    BY <1>1, ZenonT(60) DEF vars, IInv, StackInv, rw
  <2> QED BY <2>1, <2>2, <2>3, <2>4, ZenonT(60) DEF IInv
<1>2. ASSUME NEW t \in Threads, Step(t) PROVE IInv'
  BY <1>2, LockInv, WAppendInv, WAppendFailInv, WInsertInv, LogInv, WRewriteInv,
     WRewriteFailInv, WReturnInv, DInsertInv, ReadInv, SyncInv, RestackInv, RestackFailInv,
     RenameInv DEF Step
<1> QED BY <1>1, <1>2, CallInv DEF Next, Quiescent

(***************************************************************************)
(* The inductive invariant holds in every reachable state.                    *)
(***************************************************************************)
THEOREM Invariance == Spec => []IInv
BY InitInv, NextInv, PTL DEF Spec

(***************************************************************************)
(* In every reachable state the state variables have the types the code gives  *)
(* them: in particular m_files[m_rw_tag] is a layer, whatever restacks and      *)
(* failures have happened.                                                     *)
(***************************************************************************)
THEOREM TypeCorrect == Spec => []TypeOK
<1>1. IInv => TypeOK
  BY DEF IInv
<1> QED BY <1>1, Invariance, PTL

(***************************************************************************)
(* No two blocks share a block of the writable data file, and every mapped     *)
(* block lies inside it: what LSMTFile::pwrite's rewrite in place relies on.    *)
(***************************************************************************)
THEOREM NoAliasingAlways == Spec => []NoAliasing
<1>1. IInv => NoAliasing
  BY DEF IInv
<1> QED BY <1>1, Invariance, PTL
===============================================================================
