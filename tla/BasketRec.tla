----------------------------- MODULE BasketRec ------------------------------
(***************************************************************************)
(* The recorder of src/basket_rec.c on one hard disk.  Frames of all       *)
(* channels go to one open basket (a stream file and its index file); a    *)
(* full basket is closed and the next one opened: an empty one while there *)
(* are any, then the oldest.  Day files (rdb) map a channel and a minute to*)
(* an index entry: they are what playback searches.                        *)
(*                                                                         *)
(* A step of an operation is one write to one file, so that a power cut    *)
(* (Crash) falls between any two of them.  Calls come one at a time.       *)
(*                                                                         *)
(* Left out: the basket header, which the recorder writes and never reads, *)
(* and hddmgr.udf, whose current disk never changes here.                  *)
(***************************************************************************)
EXTENDS BasketFormat, FiniteSets

CONSTANTS
  NBaskets,                  \* baskets on the disk
  Channels, Kinds,           \* the channels recorded; key, other video, audio frames
  Capacity,                  \* BASKET_SIZE, in frames
  BufSize, IBufSize,         \* BKT_BBUF_SIZE in frames, BKT_IBUF_SIZE in entries
  RecycleModes,              \* the values BKT_SetRecycleMode is called with
  FirstTick, LastTick,       \* bounds of the clock
  MaxFrames,                 \* bound on the frames written
  MaxStops, MaxCrashes, MaxErrors  \* bounds on closings, power cuts, failed calls

Baskets == 1 .. NBaskets

ASSUME RecorderAssumption ==
  /\ NBaskets \in Nat \ {0, 1} /\ IsFiniteSet(Channels)
  /\ {Capacity, BufSize, IBufSize} \subseteq Nat \ {0} /\ BufSize <= Capacity
  /\ RecycleModes # {} /\ RecycleModes \subseteq {"on", "once"}
  /\ {FirstTick, LastTick, MaxFrames, MaxStops, MaxCrashes, MaxErrors}
       \subseteq Nat
  /\ Kinds \subseteq {"I", "P", "A"} /\ Sec(FirstTick) >= 1

VARIABLES
  \* the disk
  mgr,       \* bktmgr.udf: basket -> save_flag and last times
  recinfo,   \* bkt_rec_info.udf
  bkt,       \* the stream files
  idx,       \* the index files: count in the header, and the entries
  rdb,       \* the day files: the rows in use
  \* the memory
  ctrl,      \* gBKTREC_Ctrl
  status,    \* g_bkt_rec_status
  space,     \* g_bkt_rec_space
  recycle,   \* g_bkt_recycle
  fdOpen,    \* g_handle_rec_bkt and g_handle_rec_idx are open
  op,        \* the call under way
  pc,        \* its next write
  cur,       \* the frame being written
  target,    \* the basket the search found, and its save flag
  \* history
  flushed,   \* basket -> slots and entries written to it since it was begun;
             \* slots no entry leads to are forgotten when it is reopened
  saving,    \* the channels whose frames are being written (prerec.c)
  now, frames, stops, crashes, errors

disk == <<mgr, recinfo, bkt, idx, rdb>>
memory == <<ctrl, status, space, recycle, fdOpen>>
call == <<op, pc, cur, target>>
env == <<recycle, saving, now, frames, stops, crashes, errors>>
vars == <<mgr, recinfo, bkt, idx, rdb, ctrl, status, space, recycle, fdOpen,
          op, pc, cur, target, flushed, saving, now, frames, stops, crashes, errors>>

NoTimes == [c \in Channels |-> 0]
NoFrame == [ch |-> 0, ts |-> 0, kind |-> "none"]
NoTarget == [bid |-> 0, flag |-> "none"]

\* memset(&gBKTREC_Ctrl, 0) and prev_min = -1.  idx_secs.t1 is set with the first
\* idx_secs.t2 and cleared with it, so only t2 is kept; bkt_secs.t1 is only shown.
ZeroCtrl == [bid |-> 0, fposB |-> 0, fposI |-> 0, bbuf |-> <<>>, ibuf |-> <<>>,
             rbuf |-> <<>>, rskip |-> FALSE, prevDay |-> 0,
             prevMin |-> [c \in Channels |-> -1], idxPos |-> NoTimes,
             bktT2 |-> NoTimes, idxT2 |-> NoTimes]

\* A disk formatted by BKTREC_CreateBasket: every basket empty.
Init ==
  /\ mgr = [b \in Baskets |-> [flag |-> "empty", t2 |-> NoTimes]]
  /\ recinfo = [bid |-> 0, flag |-> "empty"]
  /\ bkt = [b \in Baskets |-> <<>>]
  /\ idx = [b \in Baskets |-> [count |-> 0, ents |-> <<>>]]
  /\ rdb = {}
  /\ ctrl = ZeroCtrl
  /\ status = "closed" /\ space = "remain" /\ fdOpen = FALSE
  /\ recycle \in RecycleModes
  /\ op = "none" /\ pc = "idle" /\ cur = NoFrame /\ target = NoTarget
  /\ flushed = [b \in Baskets |-> [slots |-> 0, ents |-> 0]]
  /\ saving = {}
  /\ now = FirstTick /\ frames = 0 /\ stops = 0 /\ crashes = 0 /\ errors = 0

Return == op' = "none" /\ pc' = "idle" /\ cur' = NoFrame /\ target' = NoTarget
\* PRELIST_check_time stops saving the channel whose frame was not written.
GiveUp == Return /\ saving' = saving \ {cur.ch}
Goto(l) == pc' = l /\ UNCHANGED <<op, cur, target>>

---------------------------------------------------------------------------
(* BKTREC_open up to the search *)

\* WRITER_enableChSave opens only what WRITER_fileSaveExit has closed.
RequestOpen ==
  /\ pc = "idle" /\ status = "closed"
  /\ ctrl' = ZeroCtrl
  /\ op' = "open" /\ pc' = "search"
  /\ UNCHANGED <<disk, status, space, fdOpen, cur, target, flushed, env>>

---------------------------------------------------------------------------
(* BKTREC_searchBasket: which basket next *)

\* A mistaken form (a mutant of PROJECT.json): the search keeps the newest.
OldestNewest ==
  LET candidates == {1} \cup {b \in Baskets : mgr[b].flag = "full"}
  IN  {b \in candidates : \A c \in candidates : MinTS(mgr[b].t2) >= MinTS(mgr[c].t2)}

\* BKTREC_searchOldestBasket starts from the first basket whatever its flag, and
\* takes a full one only if it is strictly older.  (A set with one member.)
Oldest ==
  LET candidates == {1} \cup {b \in Baskets : mgr[b].flag = "full"}
      age(b) == MinTS(mgr[b].t2)
  IN  {b \in candidates : \A c \in candidates :
         age(b) < age(c) \/ (age(b) = age(c) /\ b <= c)}

Empty == {b \in Baskets : mgr[b].flag = "empty"}

\* Only BKTREC_open looks for a basket to go on with.
Resumable == op = "open" /\ recinfo.flag \in {"using", "stop"}

SearchResumable ==
  /\ pc = "search" /\ Resumable
  /\ ctrl' = [ctrl EXCEPT !.bid = recinfo.bid]
  /\ target' = recinfo
  /\ pc' = "resume"
  /\ UNCHANGED <<disk, status, space, fdOpen, op, cur, flushed, env>>

\* BKTREC_OpenFullBasket clears the control block before it searches.
Cleared == [ctrl EXCEPT !.fposB = 0, !.fposI = 0, !.bid = 0,
              !.idxPos = NoTimes, !.bktT2 = NoTimes, !.idxT2 = NoTimes]

SearchCtrl(b) == IF op = "open" THEN [ctrl EXCEPT !.bid = b] ELSE Cleared

SearchEmpty ==
  /\ pc = "search" /\ ~Resumable
  /\ space = "remain"
  /\ \E b \in Empty :
       /\ \A c \in Empty : b <= c
       /\ target' = [bid |-> b, flag |-> "empty"]
       /\ ctrl' = SearchCtrl(b)
  /\ pc' = "header"
  /\ UNCHANGED <<disk, status, space, fdOpen, op, cur, flushed, env>>

\* A mistaken form: the recycle mode is not asked.
SearchOldestAlways ==
  /\ pc = "search" /\ ~Resumable
  /\ space = "full" \/ Empty = {}
  /\ space' = "full"
  /\ \E b \in Oldest :
       /\ rdb' = RemoveRDB(rdb, b, MinTS(mgr[b].t2))
       /\ ctrl' = SearchCtrl(b)
       /\ target' = [bid |-> b, flag |-> "full"]
  /\ pc' = "header"
  /\ UNCHANGED <<mgr, recinfo, bkt, idx, status, fdOpen, op, cur, flushed, env>>

\* The rows of the oldest basket are removed before the recycle mode is asked.
SearchOldest ==
  /\ pc = "search" /\ ~Resumable
  /\ space = "full" \/ Empty = {}
  /\ space' = "full"
  /\ \E b \in Oldest :
       /\ rdb' = RemoveRDB(rdb, b, MinTS(mgr[b].t2))
       /\ ctrl' = SearchCtrl(b)
       /\ \/ /\ recycle = "on"
             /\ target' = [bid |-> b, flag |-> "full"]
             /\ pc' = "header"
             /\ UNCHANGED <<status, op, cur, saving>>
          \/ /\ recycle = "once"                       \* BKT_FULL is returned
             /\ status' = IF op = "open" THEN status ELSE "full"
             /\ GiveUp
  /\ UNCHANGED <<mgr, recinfo, bkt, idx, fdOpen, flushed, recycle, now, frames,
                 stops, crashes, errors>>

---------------------------------------------------------------------------
(* Opening the basket found *)

\* A mistaken form: the index is written from its last entry on.
OpenedCtrlBack(b, p, k) ==
  [ctrl EXCEPT !.bid = b, !.fposB = p, !.fposI = k - 1,
               !.prevDay = IF op = "open" THEN Day(now) ELSE @]

\* BKTREC_open remembers the day it is called on, not that of the first frame.
OpenedCtrl(b, p, k) ==
  [ctrl EXCEPT !.bid = b, !.fposB = p, !.fposI = k,
               !.prevDay = IF op = "open" THEN Day(now) ELSE @]

\* A new file starts with an index header that counts no entries; what the files
\* held stays behind it.
WriteHeaders ==
  /\ pc = "header"
  /\ idx' = [idx EXCEPT ![target.bid].count = 0]
  /\ ctrl' = OpenedCtrl(target.bid, 0, 0)
  /\ flushed' = [flushed EXCEPT ![target.bid] = [slots |-> 0, ents |-> 0]]
  /\ status' = "opened" /\ fdOpen' = TRUE
  /\ Goto("markMgr")
  /\ UNCHANGED <<mgr, recinfo, bkt, rdb, space, env>>

\* A basket left open or stopped: the index header's count, or a scan if it is
\* zero, gives the last entry, and the stream is scanned from its frame on.
IndexStops(ix) == IF ix.count > 0 THEN {ix.count} ELSE IndexEnds(ix.ents)

ResumeBasket ==
  /\ pc = "resume"
  /\ LET b == target.bid IN
       \E k \in IndexStops(idx[b]) :
       \E p \in IF k = 0 THEN {0} ELSE ResumeEnds(bkt[b], idx[b].ents[k]) :
         /\ ctrl' = OpenedCtrl(b, p, k)
         /\ flushed' = IF flushed[b].ents > 0 THEN flushed
                       ELSE [flushed EXCEPT ![b].slots = 0]
  /\ status' = "opened" /\ fdOpen' = TRUE
  /\ Goto("markMgr")
  /\ UNCHANGED <<disk, space, env>>

\* An open, read or write of these files that fails.
OpenError ==
  /\ pc \in {"header", "resume"}
  /\ errors < MaxErrors /\ errors' = errors + 1
  /\ GiveUp
  /\ UNCHANGED <<disk, ctrl, status, space, fdOpen, flushed, recycle,
                 now, frames, stops, crashes>>

\* BKTREC_setBasketStatus(bid, SF_USING): the manager file, then the record info.
MarkManager ==
  /\ pc = "markMgr"
  /\ mgr' = [mgr EXCEPT ![ctrl.bid].flag = "using"]
  /\ Goto("markRecinfo")
  /\ UNCHANGED <<recinfo, bkt, idx, rdb, ctrl, status, space, fdOpen, flushed, env>>

\* A mistaken form: the record info is left as it was.
MarkRecinfoNot ==
  /\ pc = "markRecinfo"
  /\ IF op = "open" THEN Return ELSE Goto("append")
  /\ UNCHANGED <<disk, ctrl, status, space, fdOpen, flushed, env>>

MarkRecinfo ==
  /\ pc = "markRecinfo"
  /\ recinfo' = [bid |-> ctrl.bid, flag |-> "using"]
  /\ IF op = "open" THEN Return ELSE Goto("append")
  /\ UNCHANGED <<mgr, bkt, idx, rdb, ctrl, status, space, fdOpen, flushed, env>>

---------------------------------------------------------------------------
(* BKTREC_WriteVideoStream and BKTREC_WriteAudioStream *)

Fits == ctrl.fposB + Len(ctrl.bbuf) < Capacity
BufferFull(k) == \/ Len(ctrl.bbuf) >= BufSize
                 \/ k # "A" /\ Len(ctrl.ibuf) >= IBufSize

\* The frame goes to the stream buffer; a key frame also puts an entry in the
\* index buffer, and the first one of a minute a row in the rdb buffer.
WithAudio(c, f) == [c EXCEPT !.bbuf = Append(@, f)]

\* A mistaken form: a channel's last time is that of its last key frame.
WithVideoKeyTimes(c, f) ==
  LET key == f.kind = "I" IN
    [c EXCEPT !.bbuf = Append(@, f),
              !.ibuf = IF key THEN Append(@, [ch |-> f.ch, ts |-> f.ts,
                                              fpos |-> c.fposB + Len(c.bbuf)]) ELSE @,
              !.bktT2[f.ch] = IF key THEN f.ts ELSE @,
              !.prevDay = Day(f.ts)]

WithVideo(c, f) ==
  LET key == f.kind = "I"
      entry == [ch |-> f.ch, ts |-> f.ts, fpos |-> c.fposB + Len(c.bbuf)]
      pos == IF key THEN [c.idxPos EXCEPT ![f.ch] = c.fposI + Len(c.ibuf)] ELSE c.idxPos
      last == IF key THEN [c.idxT2 EXCEPT ![f.ch] = f.ts] ELSE c.idxT2
      row == [ch |-> f.ch, min |-> Minute(f.ts), bid |-> c.bid, pos |-> pos[f.ch]]
      newRow == /\ last[f.ch] # 0
                /\ c.prevMin[f.ch] # MinuteOfHour(f.ts)
                /\ Sec(last[f.ch]) >= Sec(f.ts)
  IN  [c EXCEPT !.bbuf = Append(@, f),
                !.ibuf = IF key THEN Append(@, entry) ELSE @,
                !.idxPos = pos,
                !.idxT2 = last,
                !.rbuf = IF newRow THEN Append(@, row) ELSE @,
                !.prevMin[f.ch] = IF newRow THEN MinuteOfHour(f.ts) ELSE @,
                !.bktT2[f.ch] = f.ts,
                !.prevDay = Day(f.ts)]

With(c, f) == IF f.kind = "A" THEN WithAudio(c, f) ELSE WithVideo(c, f)

\* The next basket is due when the frame does not fit or, for video, is of another
\* day than the last one; video also ends the stream and keeps the rdb rows back.
MustRoll(f) == ~Fits \/ (f.kind # "A" /\ ctrl.prevDay # Day(f.ts))
RollCtrl(f) == IF f.kind = "A" THEN ctrl
               ELSE [ctrl EXCEPT !.rskip = FALSE,
                                 !.bbuf = Append(@, [f EXCEPT !.kind = "END"])]

\* A mistaken form: the rows are never due.
FlushCtrlKeeps(f) == ctrl

FlushCtrl(f) == IF f.kind = "A" THEN ctrl ELSE [ctrl EXCEPT !.rskip = TRUE]

\* A channel's first frame is a key frame.
RequestWrite ==
  /\ pc = "idle" /\ status # "closed"
  /\ frames < MaxFrames /\ frames' = frames + 1
  /\ \E c \in Channels, k \in Kinds :
       LET f == Frame(c, now, k) IN
         /\ k = "I" \/ c \in saving
         /\ saving' = saving \cup {c}
         /\ \/ /\ MustRoll(f)
               /\ ctrl' = RollCtrl(f)
               /\ op' = "roll" /\ pc' = "data" /\ cur' = f
            \/ /\ ~MustRoll(f) /\ BufferFull(k)
               /\ ctrl' = FlushCtrl(f)
               /\ op' = "flush" /\ pc' = "data" /\ cur' = f
            \/ /\ ~MustRoll(f) /\ ~BufferFull(k)
               /\ ctrl' = With(ctrl, f)
               /\ UNCHANGED <<op, pc, cur>>
  /\ UNCHANGED <<disk, status, space, fdOpen, target, flushed, recycle,
                 now, stops, crashes, errors>>

AppendFrame ==
  /\ pc = "append"
  /\ ctrl' = With(ctrl, cur)
  /\ Return
  /\ UNCHANGED <<disk, status, space, fdOpen, flushed, env>>

---------------------------------------------------------------------------
(* BKTREC_FlushWriteBuffer: the stream, then the index, then the day file *)

AtLeast(a, b) == IF a < b THEN b ELSE a
FirstFrames(s) == Cardinality({i \in 1 .. Len(s) : \A j \in 1 .. i : IsFrame(s[j])})

FlushData ==
  /\ pc = "data"
  /\ \/ /\ ctrl.bbuf = <<>>
        /\ UNCHANGED <<bkt, ctrl, flushed>>
     \/ /\ ctrl.bbuf # <<>> /\ fdOpen
        /\ \E aligned \in BOOLEAN :
             bkt' = [bkt EXCEPT ![ctrl.bid] =
                       Overwrite(@, ctrl.fposB, ctrl.bbuf, aligned)]
        /\ flushed' = [flushed EXCEPT ![ctrl.bid].slots =
                         IF IsFrame(ctrl.bbuf[1])
                         THEN AtLeast(@, ctrl.fposB + FirstFrames(ctrl.bbuf)) ELSE @]
        /\ ctrl' = [ctrl EXCEPT !.fposB = @ + Len(ctrl.bbuf), !.bbuf = <<>>]
  /\ Goto("index")
  /\ UNCHANGED <<mgr, recinfo, idx, rdb, status, space, fdOpen, env>>

FlushIndex ==
  /\ pc = "index"
  /\ \/ /\ ctrl.ibuf = <<>>
        /\ UNCHANGED <<idx, ctrl, flushed>>
     \/ /\ ctrl.ibuf # <<>> /\ fdOpen
        /\ idx' = [idx EXCEPT ![ctrl.bid].ents =
                     Overwrite(@, ctrl.fposI, ctrl.ibuf, TRUE)]
        /\ flushed' = [flushed EXCEPT ![ctrl.bid].ents =
                         AtLeast(@, ctrl.fposI + Len(ctrl.ibuf))]
        /\ ctrl' = [ctrl EXCEPT !.fposI = @ + Len(ctrl.ibuf), !.ibuf = <<>>]
  /\ Goto("rdb")
  /\ UNCHANGED <<mgr, recinfo, bkt, rdb, status, space, fdOpen, env>>

AfterFlush == Goto(IF op = "flush" THEN "append" ELSE "closeIndex")

\* BKTREC_Flush_RDBDATA: the rows of the first one's day; a row whose minute is
\* taken is dropped.  The rows of a later day wait in the buffer.
RowDay(i) == DayOfMinute(ctrl.rbuf[i].min)
SameMinute(r, s) == r.ch = s.ch /\ r.min = s.min
Due == ctrl.rbuf # <<>> /\ ctrl.rskip

FlushRdb ==
  /\ pc = "rdb"
  /\ \/ /\ ~Due
        /\ UNCHANGED <<rdb, ctrl>>
     \/ /\ Due
        /\ \E n \in 1 .. Len(ctrl.rbuf) :
             /\ \A i \in 1 .. n : RowDay(i) = RowDay(1)
             /\ n < Len(ctrl.rbuf) => RowDay(n + 1) # RowDay(1)
             /\ rdb' = rdb \cup
                  {ctrl.rbuf[i] : i \in {j \in 1 .. n :
                     /\ \A r \in rdb : ~SameMinute(r, ctrl.rbuf[j])
                     /\ \A h \in 1 .. j - 1 : ~SameMinute(ctrl.rbuf[h], ctrl.rbuf[j])}}
             /\ ctrl' = [ctrl EXCEPT !.rbuf = SubSeq(@, n + 1, Len(@))]
  /\ AfterFlush
  /\ UNCHANGED <<mgr, recinfo, bkt, idx, status, space, fdOpen, flushed, env>>

HasData == \/ pc = "data" /\ ctrl.bbuf # <<>>
           \/ pc = "index" /\ ctrl.ibuf # <<>>

\* A mistaken form: the index is written although the stream was not.
FlushErrorGoesOn ==
  /\ HasData
  /\ errors < MaxErrors /\ errors' = errors + 1
  /\ Goto(IF pc = "data" THEN "index" ELSE "rdb")
  /\ UNCHANGED <<disk, memory, flushed, saving, now, frames, stops, crashes>>

\* A write that fails, as every write to a closed file does: the call returns
\* BKT_ERR and nothing is closed.
FlushError ==
  /\ \/ HasData /\ ~fdOpen /\ UNCHANGED errors
     \/ /\ HasData \/ (pc = "rdb" /\ Due)
        /\ errors < MaxErrors /\ errors' = errors + 1
  /\ ctrl' = IF pc = "rdb" THEN [ctrl EXCEPT !.rbuf = <<>>] ELSE ctrl
  /\ GiveUp
  /\ UNCHANGED <<disk, status, space, fdOpen, flushed, recycle, now, frames,
                 stops, crashes>>

---------------------------------------------------------------------------
(* BKTREC_SaveFull and BKTREC_exit *)

RequestExit ==
  /\ pc = "idle" /\ status # "closed"
  /\ stops < MaxStops /\ stops' = stops + 1
  /\ op' = "exit" /\ pc' = "data"
  /\ saving' = {}
  /\ UNCHANGED <<disk, ctrl, status, space, fdOpen, cur, target, flushed, recycle,
                 now, frames, crashes, errors>>

CloseIndex ==
  /\ pc = "closeIndex"
  /\ idx' = IF fdOpen THEN [idx EXCEPT ![ctrl.bid].count = ctrl.fposI] ELSE idx
  /\ fdOpen' = FALSE
  /\ Goto("closeMgr")
  /\ UNCHANGED <<mgr, recinfo, bkt, rdb, ctrl, status, space, flushed, env>>

ClosedFlag == IF op = "exit" THEN "stop" ELSE "full"

\* exit also leaves prev_day and r_skip; BKTREC_open clears them before any use.
Closed ==
  IF op = "exit"
    THEN /\ ctrl' = ZeroCtrl /\ status' = "closed"
         /\ Return
    ELSE /\ ctrl' = [ctrl EXCEPT !.fposB = 0, !.fposI = 0,
                       !.bktT2 = NoTimes, !.idxT2 = NoTimes]
         /\ UNCHANGED status
         /\ Goto("search")

\* A mistaken form: the save flag is not written.
CloseMgrTimes ==
  /\ pc = "closeMgr"
  /\ \/ /\ ctrl.bid # 0
        /\ mgr' = [mgr EXCEPT ![ctrl.bid].t2 = ctrl.bktT2]
        /\ Goto("closeRecinfo")
        /\ UNCHANGED <<ctrl, status>>
     \/ /\ ctrl.bid = 0
        /\ Closed
        /\ UNCHANGED mgr
  /\ UNCHANGED <<recinfo, bkt, idx, rdb, space, fdOpen, flushed, env>>

\* BKTREC_updateBasketManager: no basket has the number 0 of a failed opening,
\* and its error is ignored.
CloseMgr ==
  /\ pc = "closeMgr"
  /\ \/ /\ ctrl.bid # 0
        /\ mgr' = [mgr EXCEPT ![ctrl.bid] = [flag |-> ClosedFlag, t2 |-> ctrl.bktT2]]
        /\ Goto("closeRecinfo")
        /\ UNCHANGED <<ctrl, status>>
     \/ /\ ctrl.bid = 0
        /\ Closed
        /\ UNCHANGED mgr
  /\ UNCHANGED <<recinfo, bkt, idx, rdb, space, fdOpen, flushed, env>>

CloseRecinfo ==
  /\ pc = "closeRecinfo"
  /\ recinfo' = [bid |-> ctrl.bid, flag |-> ClosedFlag]
  /\ Closed
  /\ UNCHANGED <<mgr, bkt, idx, rdb, space, fdOpen, flushed, env>>

---------------------------------------------------------------------------

\* A power cut: the disk is all that is left.
Crash ==
  /\ crashes < MaxCrashes /\ crashes' = crashes + 1
  /\ ctrl' = ZeroCtrl /\ status' = "closed" /\ space' = "remain" /\ fdOpen' = FALSE
  /\ saving' = {}
  /\ Return
  /\ UNCHANGED <<disk, flushed, recycle, now, frames, stops, errors>>

SetRecycleMode ==
  /\ pc = "idle"
  /\ recycle' \in RecycleModes \ {recycle}
  /\ UNCHANGED <<disk, ctrl, status, space, fdOpen, call, flushed, saving,
                 now, frames, stops, crashes, errors>>

Tick ==
  /\ pc = "idle"
  /\ now < LastTick /\ now' = now + 1
  /\ UNCHANGED <<disk, memory, call, flushed, saving, frames, stops, crashes, errors>>

Next ==
  \/ RequestOpen \/ SearchResumable \/ SearchEmpty \/ SearchOldest
  \/ WriteHeaders \/ ResumeBasket \/ OpenError \/ MarkManager \/ MarkRecinfo
  \/ RequestWrite \/ AppendFrame
  \/ FlushData \/ FlushIndex \/ FlushRdb \/ FlushError
  \/ RequestExit \/ CloseIndex \/ CloseMgr \/ CloseRecinfo
  \/ Crash \/ SetRecycleMode \/ Tick

Spec == Init /\ [][Next]_vars

---------------------------------------------------------------------------
(* Properties *)

Flags == {"empty", "using", "stop", "full"}
PCs == {"idle", "search", "header", "resume", "markMgr", "markRecinfo", "append",
        "data", "index", "rdb", "closeIndex", "closeMgr", "closeRecinfo"}
Times == [Channels -> Nat]
Slots == [ch : Channels, ts : Nat, kind : {"I", "P", "A", "END", "gap"}]
Entries == [ch : Channels, ts : Nat, fpos : Nat]
Rows == [ch : Channels, min : Nat, bid : 0 .. NBaskets, pos : Nat]
Ctrls == [bid : 0 .. NBaskets, fposB : Nat, fposI : Nat, bbuf : Seq(Slots),
          ibuf : Seq(Entries), rbuf : Seq(Rows), rskip : BOOLEAN, prevDay : Nat,
          prevMin : [Channels -> Nat \cup {-1}], idxPos : Times,
          bktT2 : Times, idxT2 : Times]

\* The type invariant: the shape of the disk and of the recorder's memory, and
\* that a call works on a basket of the disk whenever it writes to one.
TypeOK ==
  /\ mgr \in [Baskets -> [flag : Flags, t2 : Times]]
  /\ recinfo \in [bid : 0 .. NBaskets, flag : Flags]
  /\ bkt \in [Baskets -> Seq(Slots)]
  /\ idx \in [Baskets -> [count : Nat, ents : Seq(Entries)]]
  /\ rdb \subseteq Rows
  /\ ctrl \in Ctrls
  /\ status \in {"closed", "opened", "full"} /\ space \in {"remain", "full"}
  /\ recycle \in RecycleModes /\ fdOpen \in BOOLEAN
  /\ op \in {"none", "open", "exit", "roll", "flush"} /\ pc \in PCs
  /\ cur = NoFrame \/ cur \in Slots
  /\ target \in [bid : 0 .. NBaskets, flag : Flags \cup {"none"}]
  /\ saving \subseteq Channels
  /\ flushed \in [Baskets -> [slots : Nat, ents : Nat]]
  /\ {now, frames, stops, crashes, errors} \subseteq Nat

\* A search by minute never lands elsewhere: every row of the day files leads,
\* through the index, to a key frame of its channel recorded in its minute.
SearchSound ==
  \A r \in rdb :
    /\ r.bid # 0
    /\ r.pos < Len(idx[r.bid].ents)
    /\ LET e == idx[r.bid].ents[r.pos + 1] IN
         /\ e.ch = r.ch /\ Minute(e.ts) = r.min
         /\ Finds(bkt[r.bid], e)

\* What that takes: no row still waits in memory when its basket is begun anew.
\* BKTREC_FlushWriteBuffer keeps rows back and does not look at their baskets; it is
\* the flushes of the video in between that write them.
RowsPrompt ==
  pc = "header" => \A i \in DOMAIN ctrl.rbuf : ctrl.rbuf[i].bid # target.bid

\* The stream is written before its index: whatever fails, no entry of an index
\* file points behind the end of its stream file, and no header counts entries
\* that are not there.
EntriesInside ==
  \A b \in Baskets :
    /\ idx[b].count <= Len(idx[b].ents)
    /\ \A i \in 1 .. Len(idx[b].ents) : idx[b].ents[i].fpos < Len(bkt[b])

\* While a basket is recorded to, the record info names it and the manager file
\* has it in use, so that the next start after a power cut goes on with it.
Recording == status = "opened" /\ fdOpen /\ pc \in {"idle", "append", "data", "index", "rdb"}
LiveBasketNamed ==
  Recording => /\ recinfo = [bid |-> ctrl.bid, flag |-> "using"]
               /\ mgr[ctrl.bid].flag = "using"

\* A basket in use that the record info does not name is lost to the search for
\* an empty or a full one: each power cut strands at most one.
Stranded == {b \in Baskets : mgr[b].flag = "using" /\ recinfo.bid # b}
StrandedBound ==
  Cardinality(Stranded) <= crashes + (IF pc = "markRecinfo" THEN 1 ELSE 0)

\* Recording goes on behind what was recorded: the write positions of an open
\* basket are never before the frames, or the index entries, already in its files.
FramesKept == fdOpen => ctrl.fposB >= flushed[ctrl.bid].slots
IndexKept == fdOpen => ctrl.fposI >= flushed[ctrl.bid].ents

\* The times by which baskets are recycled are those of the frames: for a closed
\* basket, a channel's last time is the time of its last video frame there.
VideoTimes(b, c) ==
  {bkt[b][i].ts : i \in {j \in 1 .. flushed[b].slots :
                           bkt[b][j].ch = c /\ bkt[b][j].kind \in {"I", "P"}}}
RecordedTimesTrue ==
  \A b \in Baskets, c \in Channels :
    ~(fdOpen /\ b = ctrl.bid) /\ mgr[b].flag \in {"full", "stop"} /\ mgr[b].t2[c] # 0 =>
      /\ mgr[b].t2[c] \in VideoTimes(b, c)
      /\ \A t \in VideoTimes(b, c) : t <= mgr[b].t2[c]

\* "searching oldest file": the basket recycled holds no video newer than the
\* newest of another full basket with video.  After a stop the times of a
\* resumed basket may be unknown, and it is kept too long (see BKTREC_open).
Newest(b) == Max({0} \cup UNION {VideoTimes(b, c) : c \in Channels})
RecyclesOldest ==
  [][stops = 0 /\ target.flag # "full" /\ target'.flag = "full" =>
       \A b \in Baskets : mgr[b].flag = "full" /\ Newest(b) # 0 =>
         Newest(target'.bid) <= Newest(b)]_vars

\* BKT_RECYCLE_ONCE, "not recycle": what was recorded stays searchable.
OnceKeepsRows == [][recycle = "once" => rdb \subseteq rdb']_vars

\* ... and stays in place: while the mode is BKT_RECYCLE_ONCE, no basket with an
\* index entry is started anew, and no frame of it is written over.
OnceKeepsFrames ==
  [][recycle = "once" =>
       \A b \in Baskets : flushed[b].ents > 0 =>
         /\ flushed'[b].ents >= flushed[b].ents
         /\ flushed'[b].slots >= flushed[b].slots
         /\ \A i \in 1 .. flushed[b].slots : bkt'[b][i] = bkt[b][i]]_vars
=============================================================================
