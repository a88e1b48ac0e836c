----------------------------- MODULE BasketRead -----------------------------
(***************************************************************************)
(* The reader of src/basket_muldec.c, which playback and the AVI backup    *)
(* use, on the disk that src/basket_rec.c is recording to in another       *)
(* thread.  The two share no lock: the reader asks the recorder which      *)
(* basket it writes and how far its index has come, and reads the rest     *)
(* from the files.                                                         *)
(*                                                                         *)
(* A call is taken one frame header at a time: a turn of the loop of       *)
(* ReadNextFrame or ReadPrevIFrame, or one invocation of the recursive     *)
(* ReadNextFirstFrame and ReadNextIFrame, is a step, and the recorder may  *)
(* run between any two.  The search for a basket and its opening are one.  *)
(*                                                                         *)
(* Both callers decode all channels (a_fix_ch_enable), so decflags is left *)
(* out; so are the basket header's other fields and a second hard disk.    *)
(***************************************************************************)
EXTENDS BasketRec

CONSTANTS
  MaxGap,    \* seconds without a frame after which ReadNextFrame seeks (4)
  Focus,     \* focusChannel: the channel whose sound is played
  MaxReads   \* bound on the calls

ASSUME ReaderAssumption == {MaxGap, MaxReads} \subseteq Nat /\ Channels \subseteq Nat

VARIABLES
  hdr,       \* ts of the basket headers: earliest first and latest last second
  began,     \* bkt_secs.t1 of the recorder: second of its first key frame, or 0
  rd,        \* gBKTMD_CtrlV, with the offset of hbkt
  rpc,       \* the function under way
  shown,     \* the last frame returned since BKTMD_Open
  reads

recorder == <<vars, hdr, began>>
allvars == <<vars, hdr, began, rd, rpc, shown, reads>>

\* moved: the recorder has written before the offset, which then may point into
\* a frame; lost: it has begun the basket anew since the reader opened it;
\* oldSound: the reader has played sound from behind what the recorder has written.
NotOpen == [open |-> FALSE, bid |-> 0, sec |-> 0, pos |-> 0, fpos |-> 0,
            cnt |-> 0, cur |-> 0, moved |-> FALSE, lost |-> FALSE,
            oldSound |-> FALSE]
NoHeaderTimes == [t1 |-> MaxTS, t2 |-> 0]
NothingShown == [ts |-> 0, kind |-> "none", bid |-> 0, pos |-> 0, by |-> "none"]

ReadInit ==
  /\ Init
  /\ hdr = [b \in Baskets |-> NoHeaderTimes] /\ began = 0
  /\ rd = NotOpen /\ rpc = "idle" /\ shown = NothingShown /\ reads = 0

---------------------------------------------------------------------------
(* What the recorder's steps leave for the reader *)

BegunAnew == pc = "header" /\ fdOpen'

KeyFrameAdded ==
  /\ Len(ctrl'.bbuf) = Len(ctrl.bbuf) + 1
  /\ ctrl'.bbuf[Len(ctrl'.bbuf)].kind = "I"

\* bkt_secs.t1 is set with a channel's first key frame and cleared with bkt_secs.t2.
Began == IF ctrl'.bktT2 = NoTimes THEN 0
         ELSE IF began = 0 /\ KeyFrameAdded THEN Sec(ctrl'.bbuf[Len(ctrl'.bbuf)].ts)
         ELSE began

\* The header times: none in a basket begun anew, those of the frames written
\* since it was opened in one that is closed.
HeaderTimes ==
  [b \in Baskets |->
     IF BegunAnew /\ b = target.bid THEN NoHeaderTimes
     ELSE IF pc = "closeIndex" /\ pc' = "closeMgr" /\ fdOpen /\ b = ctrl.bid
       THEN [t1 |-> IF began = 0 THEN MaxTS ELSE began,
             t2 |-> Max({0} \cup {Sec(ctrl.bktT2[c]) : c \in Channels})]
     ELSE hdr[b]]

RecorderStep ==
  /\ Next
  /\ began' = Began /\ hdr' = HeaderTimes
  /\ rd' = [rd EXCEPT !.moved = \/ @
                                \/ /\ rd.open /\ bkt'[rd.bid] # bkt[rd.bid]
                                   /\ ctrl.fposB < rd.pos,
                      !.lost = @ \/ (BegunAnew /\ target.bid = rd.bid)]
  /\ UNCHANGED <<rpc, shown, reads>>

\* BKT_isRecordingBasket
IsRecording(b) == b = ctrl.bid

\* BKT_GetRecordingIndexCount.  fpos_idx counts the file header in; SaveFull and
\* open set it to 0, and then the count is that of a negative size.
NoFileOpen == ~fdOpen /\ ctrl.fposI = 0 /\ pc \notin {"closeMgr", "closeRecinfo"}
RecordingCount == IF NoFileOpen THEN MaxTS ELSE ctrl.fposI

---------------------------------------------------------------------------
(* The day files *)

MinutesPerDay == TicksPerDay \div TicksPerMin
MinuteOfDay(m) == m % MinutesPerDay
MinuteOfSec(s) == s \div (TicksPerMin \div TicksPerSec)

RowDays == {DayOfMinute(r.min) : r \in rdb}

\* The day file a search by name starts with: that of the day, or, if there is
\* none, its neighbour.  A day file without rows may be there or not.
FirstDays(d, neighbours) ==
  {d} \cup (IF d \in RowDays THEN {} ELSE neighbours)
NextDays(d) == FirstDays(d, {e \in RowDays : e > d /\ \A f \in RowDays : f > d => e <= f})
PrevDays(d) == FirstDays(d, {e \in RowDays : e < d /\ \A f \in RowDays : f < d => e >= f})

Before(r, s) == r.min < s.min \/ (r.min = s.min /\ r.ch <= s.ch)
After(r, s) == r.min > s.min \/ (r.min = s.min /\ r.ch <= s.ch)

\* BKTMD_SearchNextBID: the basket, other than b, of the first row behind the
\* minute of s, which is the last time the basket's header knows or the frame's.
\* (A set with at most one member.)
NextBaskets(b, s) ==
  LET seed == IF s < hdr[b].t2 THEN hdr[b].t2 ELSE s
  IN  IF IsRecording(b) THEN {} ELSE
      UNION {LET rows == {r \in rdb : /\ r.bid # b
                                      /\ \/ DayOfMinute(r.min) > d
                                         \/ /\ DayOfMinute(r.min) = d
                                            /\ MinuteOfDay(r.min) > MinuteOfDay(MinuteOfSec(seed))}
             IN  {r.bid : r \in {q \in rows : \A o \in rows : Before(q, o)}}
             : d \in NextDays(DayOfSec(seed))}

\* A mistaken form: the minutes are still searched upwards.
PrevBasketsUpwards(b, s) ==
  LET seed == IF hdr[b].t1 < s THEN hdr[b].t1 ELSE s
      rows == {r \in rdb : r.bid # b /\ r.min > MinuteOfSec(seed)}
  IN  {r.bid : r \in {q \in rows : \A o \in rows : Before(q, o)}}

\* BKTMD_SearchPrevBID: the same backwards.
PrevBaskets(b, s) ==
  LET seed == IF hdr[b].t1 < s THEN hdr[b].t1 ELSE s
  IN  UNION {LET rows == {r \in rdb : /\ r.bid # b
                                      /\ \/ DayOfMinute(r.min) < d
                                         \/ /\ DayOfMinute(r.min) = d
                                            /\ MinuteOfDay(r.min) < MinuteOfDay(MinuteOfSec(seed))}
             IN  {r.bid : r \in {q \in rows : \A o \in rows : After(q, o)}}
             : d \in PrevDays(DayOfSec(seed))}

---------------------------------------------------------------------------
(* Opening *)

IndexCount(b) == IF IsRecording(b) THEN RecordingCount ELSE idx[b].count

\* BKTMD_Open: the rows of the first minute with one, from the one asked for to
\* the end of its day; of these, the lowest entry of the basket they begin with.
MinuteRows(m) ==
  LET rows == {r \in rdb : DayOfMinute(r.min) = DayOfMinute(m) /\ r.min >= m}
  IN  {r \in rows : \A o \in rows : r.min <= o.min}

OpenAt(m) ==
  LET rows == MinuteRows(m)
      lowest == {r \in rows : \A o \in rows : r.ch <= o.ch}
  IN  {[bid |-> r.bid,
        pos |-> Min({q.pos : q \in {p \in rows :
                  \A o \in rows : o.ch <= p.ch => o.bid = r.bid}})] : r \in lowest}

EntryAt(b, k) == {idx[b].ents[i] : i \in {k + 1} \cap 1 .. Len(idx[b].ents)}

\* The stream header at offset p: none behind the end, and none that is known
\* when p may lie within a frame.
NoHeader == [ch |-> 0, ts |-> 0, kind |-> "gap"]
Headers(b, p, sure) ==
  {bkt[b][i] : i \in {p + 1} \cap 1 .. Len(bkt[b])}
    \cup (IF sure /\ p < Len(bkt[b]) THEN {} ELSE {NoHeader})

IsVideo(h) == h.kind \in {"I", "P"}

\* A mistaken form: the player does not notice the error.
CloseUnnoticed == rd' = NotOpen /\ UNCHANGED <<rpc, shown>>

Close == rd' = NotOpen /\ rpc' = "idle" /\ UNCHANGED shown

\* BKTMD_close and BKTMD_Open
ReadOpen ==
  /\ rpc = "idle" /\ reads < MaxReads /\ reads' = reads + 1
  /\ \E m \in Minute(FirstTick) .. Minute(LastTick) :
       \/ /\ MinuteRows(m) = {}
          /\ rd' = NotOpen
       \/ \E row \in OpenAt(m) :
            \/ /\ EntryAt(row.bid, row.pos) = {}
               /\ rd' = NotOpen
            \/ \E e \in EntryAt(row.bid, row.pos) :
               \E h \in Headers(row.bid, e.fpos, Finds(bkt[row.bid], e)) :
                 rd' = IF IsVideo(h)
                       THEN [NotOpen EXCEPT !.open = TRUE, !.bid = row.bid,
                               !.sec = Sec(e.ts), !.pos = e.fpos, !.fpos = e.fpos,
                               !.cnt = IndexCount(row.bid), !.cur = row.pos]
                       ELSE NotOpen
  /\ shown' = NothingShown
  /\ UNCHANGED <<recorder, rpc>>

\* BKTMD_OpenNext: from the first frame of the basket.
OpenNext(b) == [NotOpen EXCEPT !.open = TRUE, !.bid = b, !.sec = hdr[b].t1,
                               !.cnt = IndexCount(b)]

\* BKTMD_OpenPrev: from its last key frame.  The index header's times, taken when
\* these are zero, are zero too.
OpenPrev(b) == [NotOpen EXCEPT !.open = TRUE, !.bid = b, !.sec = hdr[b].t2,
                               !.cnt = IndexCount(b), !.cur = IndexCount(b) - 1]

---------------------------------------------------------------------------
(* Reading on *)

Call(p) ==
  /\ rpc = "idle" /\ rd.open /\ reads < MaxReads
  /\ rpc' = p /\ reads' = reads + 1
  /\ UNCHANGED <<recorder, rd, shown>>

ReadNextFrame == Call("scan")
ReadNextIFrame == Call("nextI")
ReadPrevIFrame == Call("prevI")

Deliver(r, h, p, by) ==
  /\ rd' = [r EXCEPT !.sec = Sec(h.ts), !.pos = p + 1, !.fpos = p + 1]
  /\ shown' = [ts |-> h.ts, kind |-> h.kind, bid |-> r.bid, pos |-> p, by |-> by]
  /\ rpc' = "idle"

\* A mistaken form (a mutant of PROJECT.json): only the length of a pause counts.
LongAfter(h) == Sec(h.ts) - rd.sec > MaxGap

TooFar(h) == Sec(h.ts) - rd.sec > MaxGap \/ Sec(h.ts) < rd.sec

Counted(r) == IF IsRecording(r.bid) THEN [r EXCEPT !.cnt = RecordingCount] ELSE r

\* One header of ReadNextFrame's loop.  A header that cannot be read leaves shd
\* as it was: uninitialised if it is the first of the call.
Scan ==
  /\ rpc \in {"scan", "skipped"}
  /\ \E h \in Headers(rd.bid, rd.pos, ~rd.moved) :
       \/ /\ IsVideo(h) /\ ~TooFar(h)
          /\ Deliver(IF h.kind = "I"
                       THEN Counted([rd EXCEPT !.cur = @ + 1]) ELSE rd, h, rd.pos, "next")
       \/ /\ h.kind = "A" /\ h.ch = Focus
          /\ Deliver([rd EXCEPT !.oldSound = @ \/ rd.pos >= flushed[rd.bid].slots],
                     h, rd.pos, "next")
       \/ /\ h.kind = "A" /\ h.ch # Focus
          /\ rd' = [rd EXCEPT !.pos = @ + 1, !.fpos = rd.pos + 1]
          /\ rpc' = "skipped" /\ UNCHANGED shown
       \/ /\ \/ h.kind = "END"
             \/ rpc = "scan" /\ rd.pos >= Len(bkt[rd.bid])
          /\ rd' = [rd EXCEPT !.pos = IF h.kind = "END" THEN @ + 1 ELSE @]
          /\ rpc' = "first" /\ UNCHANGED shown
       \/ /\ h.kind = "gap" \/ (IsVideo(h) /\ TooFar(h))
          /\ rpc' = "onward" /\ UNCHANGED <<rd, shown>>
  /\ UNCHANGED <<recorder, reads>>

\* Mistaken forms: the count is taken for the last entry; the entry is not stepped.
OnwardToCount ==
  LET r == Counted(rd)
  IN  IF r.cur < r.cnt
        THEN {[r EXCEPT !.cur = Min({@, MaxFrames}) + 1]}
        ELSE {OpenNext(b) : b \in NextBaskets(r.bid, r.sec)}
OnwardSameEntry ==
  LET r == Counted(rd)
  IN  IF r.cur + 1 < r.cnt THEN {r}
      ELSE {OpenNext(b) : b \in NextBaskets(r.bid, r.sec)}

\* The basket and entry that ReadNextFirstFrame and ReadNextIFrame go on with;
\* none if there is no next basket.  No index of the model has MaxFrames + 1
\* entries, so iframe_cur is not counted further.
Onward ==
  LET r == Counted(rd)
  IN  IF r.cur + 1 < r.cnt
        THEN {[r EXCEPT !.cur = Min({@, MaxFrames}) + 1]}
        ELSE {OpenNext(b) : b \in NextBaskets(r.bid, r.sec)}

\* ReadNextFirstFrame: the frame at the offset, whatever the entry says.
NextFirst ==
  /\ rpc = "first"
  /\ \/ Onward = {} /\ Close
     \/ \E r \in Onward :
          \/ /\ EntryAt(r.bid, r.cur) # {}
             /\ \E h \in Headers(r.bid, r.pos, ~r.moved) :
                  \/ IsVideo(h) /\ Deliver(r, h, r.pos, "next")
                  \/ ~IsVideo(h) /\ rd' = r /\ rpc' = "onward" /\ UNCHANGED shown
          \/ /\ EntryAt(r.bid, r.cur) = {}
             /\ rd' = r /\ rpc' = "onward" /\ UNCHANGED shown
  /\ UNCHANGED <<recorder, reads>>

\* The key frame an entry leads to; through it the offset is in step again.
KeyFrames(r) ==
  UNION {{[pos |-> e.fpos, frame |-> h] :
            h \in {g \in Headers(r.bid, e.fpos, Finds(bkt[r.bid], e)) : IsVideo(g)}}
         : e \in EntryAt(r.bid, r.cur)}

\* No frame there: the entry or what it points to is missing, or may be.
MayMiss(r) == \/ EntryAt(r.bid, r.cur) = {}
              \/ \E e \in EntryAt(r.bid, r.cur) : ~Finds(bkt[r.bid], e)

InStep(r) == [r EXCEPT !.moved = FALSE]

\* One invocation of ReadNextIFrame, which calls itself until it finds a frame.
\* It is called for fast forward, and by ReadNextFrame.
NextI ==
  /\ rpc \in {"nextI", "onward"}
  /\ \/ Onward = {} /\ Close
     \/ \E r \in Onward :
          \/ \E k \in KeyFrames(r) :
               /\ k.pos >= r.fpos
               /\ Deliver(InStep(r), k.frame, k.pos, IF rpc = "onward" THEN "next" ELSE "fast")
          \/ /\ \/ MayMiss(r)
                \/ \E k \in KeyFrames(r) : k.pos < r.fpos
             /\ rd' = r /\ UNCHANGED <<rpc, shown>>
  /\ UNCHANGED <<recorder, reads>>

\* One turn of ReadPrevIFrame's loop.  Before the first entry lie the times of the
\* index header, which lead behind the end of any basket.
Backward ==
  IF rd.cur - 1 < 0 THEN {OpenPrev(b) : b \in PrevBaskets(rd.bid, rd.sec)}
  ELSE {[rd EXCEPT !.cur = @ - 1]}

PrevI ==
  /\ rpc = "prevI"
  /\ \/ Backward = {} /\ Close
     \/ \E r \in Backward :
          \/ \E k \in KeyFrames(r) : Deliver(InStep(r), k.frame, k.pos, "prev")
          \/ MayMiss(r) /\ rd' = r /\ UNCHANGED <<rpc, shown>>
  /\ UNCHANGED <<recorder, reads>>

ReadStep == Scan \/ NextFirst \/ NextI \/ PrevI

ReadNext == \/ RecorderStep \/ ReadOpen
            \/ ReadNextFrame \/ ReadNextIFrame \/ ReadPrevIFrame \/ ReadStep

\* The threads are scheduled: a call that has begun, of the reader or of the
\* recorder, goes on.  Nobody has to call.
ReadSpec == /\ ReadInit /\ [][ReadNext]_allvars
            /\ WF_allvars(ReadStep)
            /\ WF_allvars(RecorderStep /\ pc # "idle")

---------------------------------------------------------------------------
(* Properties *)

ReadTypeOK ==
  /\ hdr \in [Baskets -> [t1 : Nat, t2 : Nat]] /\ began \in Nat
  /\ rd \in [open : BOOLEAN, bid : 0 .. NBaskets, sec : Nat, pos : Nat, fpos : Nat,
             cnt : Nat, cur : Nat \cup {-1}, moved : BOOLEAN, lost : BOOLEAN,
             oldSound : BOOLEAN]
  /\ rpc \in {"idle", "scan", "skipped", "first", "nextI", "onward", "prevI"}
  /\ rpc # "idle" => rd.open
  /\ rd.open => rd.bid \in Baskets

\* Playback never turns round by itself: read forward, frames come in the order
\* they were recorded, across pauses, ends of baskets, the place where the
\* recorder is writing, and a basket written over while it is being read.
PlaybackForward ==
  [][shown'.by \in {"next", "fast"} /\ shown.by # "none" /\ ~rd'.oldSound
       => Sec(shown'.ts) >= Sec(shown.ts)]_allvars

\* ... and read backward they never get newer, as long as the day files lead where
\* they say and the recorder has not begun the basket anew: the key frames before
\* are then frames it has just written.
PlaybackBackward ==
  [][shown'.by = "prev" /\ shown.by # "none" /\ SearchSound /\ ~rd.lost /\ ~rd.oldSound
       => Sec(shown'.ts) <= Sec(shown.ts)]_allvars

\* A frame of what a recycled basket held before is never shown as part of the
\* new recording, except for one of the second being shown.
NothingStale ==
  [][shown' # shown /\ shown'.by # "none" /\ ~rd'.lost /\ ~rd'.oldSound
       => \/ shown'.pos < flushed[shown'.bid].slots
          \/ Sec(shown'.ts) = rd.sec]_allvars

\* "time interval is too long. So search next frame": after a pause playback goes
\* on with the next key frame of the basket.
KeyFramesBetween(b, p, q) ==
  {i \in 1 .. flushed[b].slots : p < i - 1 /\ i - 1 < q /\ bkt[b][i].kind = "I"}
PauseSkipsNothing ==
  [][/\ shown' # shown /\ {shown.by, shown'.by} = {"next"}
     /\ shown'.bid = shown.bid /\ ~rd'.lost /\ ~rd'.oldSound
     /\ shown.pos + 1 < shown'.pos
     /\ Sec(bkt[shown.bid][shown.pos + 2].ts) - Sec(shown.ts) > MaxGap
     => KeyFramesBetween(shown.bid, shown.pos, shown'.pos) = {}]_allvars

\* Every call returns a frame or an error.  One exception: between SaveFull and
\* the search for the next basket the recorder's index has no length, and a
\* reader that asks for it then reads on behind the end of the index.
ReadReturns ==
  rpc # "idle" ~> \/ rpc = "idle"
                  \/ rd.cnt = MaxTS /\ ~IsRecording(rd.bid)
=============================================================================
