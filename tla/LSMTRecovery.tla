----------------------------- MODULE LSMTRecovery -----------------------------
(***************************************************************************)
(* Restarts of the process that serves an LSMTFile.  A crash of the process  *)
(* loses its memory; a power cut also loses what was not synced of each      *)
(* file.  The image is then opened again from the layers the config names    *)
(* (open_files_ro, open_file_rw, stack_files), or refused.                   *)
(***************************************************************************)
EXTENDS LSMTFile, FiniteSets

CONSTANTS MaxRestarts,      \* bound on restarts
          PowerCuts         \* whether a restart may follow a power cut

VARIABLES restarts,         \* restarts so far
          down,             \* the image was refused after a power cut: the rest of the
                            \* state is as it was before the cut and is not used again
          ok,               \* ok[b]: contents block b may have after a power cut
          since,            \* since[t][b]: contents of b since t's fsync began
          unsynced          \* the threads in an fsync whose sync of the data file failed

rvars == <<vars, restarts, down, ok, since, unsynced>>

history == <<ok, since, unsynced>>

\* config names layers config[0 .. Top - 1], topmost first, and the upper config[Top].
Top == Cardinality(DOMAIN config) - 1

Upper == config[Top]

\* open_file_ro needs the trailer of each lower layer; open_file_rw needs every
\* record of the upper layer's index file to lie inside its data file.
CanReopen ==
    /\ \A i \in 0 .. Top - 1 : sealed[config[i]] # <<>>
    /\ Loadable(idx[Upper], Len(data[Upper]))

\* A plausible bug: lower layers win over the ones above them.
MergedBottomFirst(b) ==
    LET has == {i \in 0 .. Top - 1 : sealed[config[i]][1][b].kind # "hole"}
        i == CHOOSE i \in has : \A j \in has : i >= j
        p == sealed[config[i]][1][b]
    IN IF has = {} THEN Hole ELSE IF p.kind = "data" THEN [p EXCEPT !.tag = i] ELSE p

\* A plausible bug: levels are numbered one too low.
MergedOffByOne(b) ==
    LET has == {i \in 0 .. Top - 1 : sealed[config[i]][1][b].kind # "hole"}
        i == CHOOSE i \in has : \A j \in has : i <= j
        p == sealed[config[i]][1][b]
    IN IF has = {} THEN Hole ELSE IF p.kind = "data" THEN [p EXCEPT !.tag = i - 1] ELSE p

\* The merged index of the lower layers (merge_memory_indexes): the topmost layer
\* that has block b, tagged with its position.
Merged(b) ==
    LET has == {i \in 0 .. Top - 1 : sealed[config[i]][1][b].kind # "hole"}
        i == CHOOSE i \in has : \A j \in has : i <= j
        p == sealed[config[i]][1][b]
    IN IF has = {} THEN Hole ELSE IF p.kind = "data" THEN [p EXCEPT !.tag = i] ELSE p

RInit ==
    /\ Init
    /\ restarts = 0
    /\ down = FALSE
    /\ ok = [b \in Blocks |-> {View(b)}]
    /\ since = [t \in Threads |-> [b \in Blocks |-> {}]]
    /\ unsynced = {}

\* The new process: nothing in memory but what the files say.
Reload ==
    /\ m_files' = config /\ m_rw_tag' = Top
    /\ mapping' = Replay(idx'[Upper], Top)
    /\ backing' = [b \in Blocks |-> Merged(b)]
    /\ buffer' = <<>> /\ mtx' = None
    /\ th' = [t \in Threads |-> Idle]
    /\ UNCHANGED <<config, calls>>

\* The process dies and is started again.  A layer sealed by a restack whose config
\* was not yet in place is opened for writing again.
Restart ==
    /\ restarts < MaxRestarts /\ restarts' = restarts + 1
    /\ CanReopen
    /\ UNCHANGED <<data, idx, ddata, didx>>
    /\ Reload
    /\ sealed' = [sealed EXCEPT ![Upper] = <<>>]
    /\ UNCHANGED <<down, history>>

\* What a power cut may leave of a file whose last synced content is dur: each
\* synced block old or rewritten, and any prefix of what was appended since.
Survivors(cur, dur) ==
    {[i \in 1 .. n |-> IF i \in lost THEN dur[i] ELSE cur[i]] :
        n \in Len(dur) .. Len(cur), lost \in SUBSET DOMAIN dur}

Named == {config[i] : i \in 0 .. Top}

\* What it may leave of the data files of layers 0 .. n - 1, in order.
DataFiles[n \in 0 .. MaxLayers] ==
    IF n = 0 THEN {<<>>}
    ELSE LET l == n - 1
         IN {Append(below, d) : below \in DataFiles[l],
                d \in (IF l \in Named THEN Survivors(data[l], ddata[l]) ELSE {data[l]})}

\* The layers can be opened: the trailer, at the very end of each lower one, is there,
\* and the records of the upper one lie inside its data file.
Opens(files, log) ==
    /\ \A i \in 0 .. Top - 1 :
          sealed[config[i]] # <<>> /\ Len(files[config[i] + 1]) = Len(data[config[i]])
    /\ Loadable(log, Len(files[Upper + 1]))

\* Power is lost.  The image is opened from what is left of the files, or refused.
PowerCut ==
    /\ PowerCuts /\ restarts < MaxRestarts /\ restarts' = restarts + 1
    /\ \E files \in DataFiles[MaxLayers] : \E log \in Survivors(idx[Upper], didx[Upper]) :
          \/ /\ Opens(files, log)
             /\ data' = [l \in Layers |-> files[l + 1]] /\ ddata' = data'
             /\ idx' = [idx EXCEPT ![Upper] = log] /\ didx' = idx'
             /\ Reload
             /\ sealed' = [sealed EXCEPT ![Upper] = <<>>]
             /\ since' = [t \in Threads |-> [b \in Blocks |-> {}]] /\ unsynced' = {}
             /\ UNCHANGED <<down, ok>>
          \/ ~Opens(files, log) /\ down' = TRUE /\ UNCHANGED <<vars, history>>

-------------------------------------------------------------------------------
(***************************************************************************)
(* History of what a power cut may do.  When an fsync returns 0 and its two   *)
(* syncs succeeded, only the contents a block had since that fsync began       *)
(* remain acceptable; a write still in progress when it began may be lost or   *)
(* kept.  A block that a sealed layer stores, an fsync during which a restack  *)
(* happened, and one of a stack whose config is not yet in place are promised  *)
(* nothing here: FsyncCoversStack and CrashNeverLoses are about them.          *)
(***************************************************************************)
InFlight(b) == \E t \in Threads : Writing(t) /\ b \in th[t].off .. th[t].end - 1

Syncing(t) == th[t].pc \in {"s_flush", "s_data", "s_index"}

Synced(t) == th[t].pc = "s_index" /\ th'[t].pc = "idle"

Covering(t) ==
    /\ Synced(t) /\ th[t].tag = m_rw_tag /\ config = m_files
    /\ t \notin unsynced /\ SyncIndex

SyncFails(t) == th[t].pc = "s_data" /\ th'[t].pc = "s_index" /\ ~SyncData

History ==
    /\ since' = [t \in Threads |-> [b \in Blocks |->
                    IF ~PowerCuts \/ ~Syncing(t)' THEN {}
                    ELSE IF Syncing(t) THEN since[t][b] \cup {View(b)'}
                    ELSE {View(b)} \cup
                         (IF InFlight(b) \/ mapping[b].kind = "hole" THEN ok[b] ELSE {})]]
    /\ unsynced' = {t \in Threads : PowerCuts /\ Syncing(t)' /\ (t \in unsynced \/ SyncFails(t))}
    /\ ok' = [b \in Blocks |->
                IF ~PowerCuts THEN ok[b]
                ELSE (IF \E t \in Threads : Covering(t)
                      THEN since[CHOOSE t \in Threads : Covering(t)][b] ELSE ok[b]) \cup {View(b)'}]

RNext ==
    \/ ~down /\ Next /\ History /\ UNCHANGED <<restarts, down>>
    \/ ~down /\ Restart
    \/ ~down /\ PowerCut
    \/ down /\ UNCHANGED rvars

RSpec == RInit /\ [][RNext]_rvars

-------------------------------------------------------------------------------
\* The same after any restart: what open_files_ro and open_file_rw build is well-typed.
RTypeOK == TypeOK /\ restarts \in 0 .. MaxRestarts /\ down \in BOOLEAN /\ unsynced \subseteq Threads

(***************************************************************************)
(* At every moment the files on disk and the config in place describe an      *)
(* image that can be opened.                                                  *)
(***************************************************************************)
Reopenable == CanReopen

\* The content of block b if the process were restarted now.
Recovered(b) ==
    LET up == Replay(idx[Upper], Top)[b]
        place == IF up.kind # "hole" THEN up ELSE Merged(b)
    IN IF place.kind = "data" /\ place.moffset < Len(data[config[place.tag]])
       THEN data[config[place.tag]][place.moffset + 1] ELSE Zero

\* Blocks written since a restack whose config is not yet in place.
SinceRestack ==
    IF config # m_files THEN {b \in Blocks : mapping[b].kind # "hole"} ELSE {}

(***************************************************************************)
(* A process crash at any moment loses nothing that was acknowledged, with    *)
(* one window: between a restack and the rename of the config that names it.  *)
(***************************************************************************)
CrashLosesNothing ==
    CanReopen => \A b \in Blocks \ (Unlogged \cup SinceRestack) : Recovered(b) = View(b)

(***************************************************************************)
(* The same without the window: what a live snapshot would need so that the   *)
(* service can recover from a process crash at any time.                      *)
(***************************************************************************)
CrashNeverLoses ==
    CanReopen => \A b \in Blocks : ~InFlight(b) => Recovered(b) = View(b)

(***************************************************************************)
(* After a power cut, if the image is not refused, every block of the          *)
(* writable layer holds what it held when the last covering fsync that         *)
(* returned 0 began, or something written later; a block of a sealed layer     *)
(* what an fsync covered before the layer was sealed, or something later.      *)
(* Covering means that both files were synced and config and stack agreed.     *)
(***************************************************************************)
SyncedSurvives == ~down => \A b \in Blocks : View(b) \in ok[b]

(***************************************************************************)
(* When an fsync during which no restack happened returns 0, the blocks that   *)
(* sealed layers store are on disk too: they were acknowledged before it.      *)
(***************************************************************************)
OnDisk(place) ==
    LET l == m_files[place.tag]
    IN place.moffset < Len(ddata[l]) /\ ddata[l][place.moffset + 1] = data[l][place.moffset + 1]

FsyncCoversStack ==
    [][\A t \in Threads : Synced(t) /\ th[t].tag = m_rw_tag =>
          \A b \in Blocks : backing[b].kind = "data" => OnDisk(backing[b])]_rvars
===============================================================================
