------------------------- MODULE BasketSearchProof -------------------------
(***************************************************************************)
(* The two searches on the disk (module BasketRec), for any number of      *)
(* baskets, channels and frames: every row of the day files leads, through *)
(* the index, to a key frame of its channel and minute; and the search for *)
(* the basket to recycle finds the oldest.                                 *)
(*                                                                         *)
(* Three things make the first true.  A row is put into memory with the    *)
(* entry of a key frame of its second, and is written when both are in     *)
(* their files; nothing is written over what an entry leads to, except in  *)
(* a basket that is begun anew; and by then the rows of that basket are    *)
(* gone, because the day by which they are removed is no earlier than      *)
(* theirs.  The last does not see the rows in memory: that none of those   *)
(* is of the basket begun anew (RowsPrompt) is a hypothesis.               *)
(*                                                                         *)
(* The second is true because baskets are filled one after the other, and  *)
(* up to a second: among baskets of the same one the lowest number is taken*)
(* (TiesInOrder).                                                          *)
(***************************************************************************)
EXTENDS BasketFramesProof, WellFoundedInduction

-----------------------------------------------------------------------------
(* The inductive invariant.                                                *)

\* The rows in memory.
Held == {ctrl.rbuf[i] : i \in DOMAIN ctrl.rbuf}

\* A row names a basket.  One that was made when no basket was open never gets
\* behind the flush of the frame it was made for, which fails.
RowsNamed ==
  /\ \A r \in rdb : r.bid # 0
  /\ \A r \in Held : r.bid = 0 => ~fdOpen /\ ctrl.bbuf # <<>> /\ pc \in {"idle", "data"}

\* The entry at a position of a basket's index file leads to the key frame of
\* channel c at time t; or it still waits in the index buffer.
Indexed(b, pos, c, t) ==
  /\ pos < flushed[b].ents
  /\ LET e == idx[b].ents[pos + 1] IN
       /\ e.ch = c /\ e.ts = t /\ e.fpos < flushed[b].slots
       /\ bkt[b][e.fpos + 1] = Frame(c, t, "I")

Waiting(pos, c, t) ==
  /\ fdOpen /\ ctrl.fposI <= pos /\ pos < ctrl.fposI + Len(ctrl.ibuf)
  /\ LET e == ctrl.ibuf[pos - ctrl.fposI + 1] IN e.ch = c /\ e.ts = t

\* A row leads to a key frame of its minute, through an index file or through the
\* index buffer.
RowLeads(r) ==
  \E t \in 0 .. now : Minute(t) = r.min /\ Indexed(r.bid, r.pos, r.ch, t)
RowWaits(r) ==
  \E t \in 0 .. now : Minute(t) = r.min /\ r.bid = ctrl.bid /\ Waiting(r.pos, r.ch, t)
RowsLead == /\ \A r \in rdb : RowLeads(r)
            /\ \A r \in Held : r.bid # 0 => RowLeads(r) \/ RowWaits(r)

\* The entry of a channel's last key frame in the open basket.
LastKeyed ==
  /\ fdOpen => \A c \in Channels : ctrl.idxT2[c] # 0 =>
       \/ Indexed(ctrl.bid, ctrl.idxPos[c], c, ctrl.idxT2[c])
       \/ Waiting(ctrl.idxPos[c], c, ctrl.idxT2[c])
  /\ pc \in Opening => ctrl.idxT2 = NoTimes

\* The entries in the index buffer are those of key frames in the stream, and
\* what the stream file holds of them counts as written.
KeysStreamed ==
  fdOpen => \A i \in DOMAIN ctrl.ibuf :
    /\ Streamed[ctrl.ibuf[i].fpos + 1] = Frame(ctrl.ibuf[i].ch, ctrl.ibuf[i].ts, "I")
    /\ ctrl.ibuf[i].fpos < ctrl.fposB => ctrl.ibuf[i].fpos < flushed[ctrl.bid].slots

\* A basket holds the video of one day: video of another one rolls over.
DaysFit ==
  /\ ctrl.prevDay <= Day(now)
  /\ op = "flush" => cur.kind = "A" \/ ctrl.prevDay = Day(cur.ts)
  /\ pc \in Marking \/ (pc = "append" /\ op = "roll") => ctrl.bktT2 = NoTimes
  /\ Timed => \A c \in Channels : ctrl.bktT2[c] # 0 => Day(ctrl.bktT2[c]) = ctrl.prevDay

\* A time stamp is a 32-bit number of seconds.
ClockFits == Sec(now) <= MaxTS

\* No row is of a later day than the one its basket is recycled by.
LastDay(b) == IF Timed /\ b = ctrl.bid THEN ctrl.prevDay ELSE DayOfSec(MinTS(mgr[b].t2))
RowDaysFit == \A r \in rdb \cup Held : r.bid # 0 => DayOfMinute(r.min) <= LastDay(r.bid)

\* So none is left of a basket that is begun anew, in the day files.
HeaderFresh ==
  pc = "header" /\ mgr[target.bid].flag # "empty" => \A r \in rdb : r.bid # target.bid

SearchInv ==
  /\ RowsLead /\ LastKeyed /\ KeysStreamed /\ DaysFit /\ ClockFits /\ RowDaysFit
  /\ HeaderFresh

-----------------------------------------------------------------------------
(* Lemmas about the calendar.                                              *)

\* A unit of time counted in two steps.
LEMMA NestedDiv ==
  ASSUME NEW t \in Nat, NEW m \in Nat \ {0}, NEW k \in Nat \ {0}
  PROVE  (t \div m) \div k = t \div (m * k)
<1> DEFINE q == t \div m
           s == q \div k
           d == m * k
<1>1. q \in Nat /\ s \in Nat /\ d \in Nat \ {0}
  OBVIOUS
<1> QED OBVIOUS

\* A unit that is a whole number of smaller ones.
LEMMA WholeUnits ==
  ASSUME NEW d \in Nat \ {0}, NEW m \in Nat \ {0}, d % m = 0
  PROVE  d \div m \in Nat \ {0} /\ m * (d \div m) = d
<1> DEFINE q == d \div m
<1>1. q \in Nat /\ d = m * q + (d % m)
  OBVIOUS
<1>2. d = m * q
  BY <1>1
<1>3. q # 0
  BY <1>2
<1> QED BY <1>1, <1>2, <1>3

\* A later time is of no earlier unit.
LEMMA DivMonotone ==
  ASSUME NEW t \in Nat, NEW u \in Nat, t <= u, NEW m \in Nat \ {0}
  PROVE  t \div m <= u \div m /\ t \div m \in Nat
OBVIOUS

\* The units of the clock fit into one another.
LEMMA UnitsFit ==
  /\ {TicksPerSec, TicksPerMin, TicksPerDay} \subseteq Nat \ {0}
  /\ TicksPerMin \div TicksPerSec \in Nat \ {0}
  /\ TicksPerSec * (TicksPerMin \div TicksPerSec) = TicksPerMin
  /\ TicksPerDay \div TicksPerMin \in Nat \ {0}
  /\ TicksPerMin * (TicksPerDay \div TicksPerMin) = TicksPerDay
  /\ TicksPerDay \div TicksPerSec \in Nat \ {0}
  /\ TicksPerSec * (TicksPerDay \div TicksPerSec) = TicksPerDay
<1> DEFINE a == TicksPerDay \div TicksPerMin
           b == TicksPerMin \div TicksPerSec
           s == TicksPerSec
           d == TicksPerDay
<1>1. /\ s \in Nat \ {0} /\ TicksPerMin \in Nat \ {0} /\ d \in Nat \ {0}
      /\ a \in Nat \ {0} /\ TicksPerMin * a = d
      /\ b \in Nat \ {0} /\ s * b = TicksPerMin
  BY ClockAssumption, WholeUnits
<1> HIDE DEF a, b, s, d
<1>2. b * a \in Nat \ {0} /\ s * (b * a) = d
  BY <1>1
<1>3. d \div s = b * a
  BY <1>1, <1>2
<1> QED BY <1>1, <1>2, <1>3 DEF a, b, s, d

\* A minute, and a second, lie in the day of the times in them.
LEMMA Calendar ==
  ASSUME NEW t \in Nat
  PROVE  DayOfMinute(Minute(t)) = Day(t) /\ DayOfSec(Sec(t)) = Day(t)
<1> DEFINE a == TicksPerDay \div TicksPerMin
           b == TicksPerDay \div TicksPerSec
           s == TicksPerSec
           m == TicksPerMin
           d == TicksPerDay
<1>1. /\ s \in Nat \ {0} /\ m \in Nat \ {0} /\ d \in Nat
      /\ a \in Nat \ {0} /\ m * a = d /\ b \in Nat \ {0} /\ s * b = d
  BY UnitsFit
<1> HIDE DEF a, b, s, m, d
<1>2. (t \div m) \div a = t \div d
  <2>1. (t \div m) \div a = t \div (m * a)
    BY ONLY <1>1, t \in Nat, NestedDiv, Zenon
  <2> QED BY ONLY <1>1, <2>1, Zenon
<1>3. (t \div s) \div b = t \div d
  <2>1. (t \div s) \div b = t \div (s * b)
    BY ONLY <1>1, t \in Nat, NestedDiv, Zenon
  <2> QED BY ONLY <1>1, <2>1, Zenon
<1> QED BY <1>2, <1>3 DEF DayOfMinute, Minute, Day, DayOfSec, Sec, a, b, s, m, d

\* A later tick is of no earlier second or day.
LEMMA LaterDay ==
  ASSUME NEW t \in Nat, NEW u \in Nat, t <= u
  PROVE  Day(t) <= Day(u) /\ DayOfSec(t) <= DayOfSec(u) /\ Sec(t) <= Sec(u)
BY UnitsFit, DivMonotone DEF Day, DayOfSec, Sec

\* Two times of the same second are of the same minute.
LEMMA SameSecond ==
  ASSUME NEW t \in Nat, NEW u \in Nat, t <= u, Sec(t) >= Sec(u)
  PROVE  Minute(t) = Minute(u)
<1> DEFINE b == TicksPerMin \div TicksPerSec
           s == TicksPerSec
           m == TicksPerMin
<1>1. s \in Nat \ {0} /\ m \in Nat /\ b \in Nat \ {0} /\ s * b = m
  BY UnitsFit
<1>2. Sec(t) = t \div s /\ Sec(u) = u \div s
  BY DEF Sec
<1> HIDE DEF b, s, m
<1>3. (t \div s) \div b = t \div m
  <2>1. (t \div s) \div b = t \div (s * b)
    BY ONLY <1>1, t \in Nat, NestedDiv, Zenon
  <2> QED BY ONLY <1>1, <2>1, Zenon
<1>4. (u \div s) \div b = u \div m
  <2>1. (u \div s) \div b = u \div (s * b)
    BY ONLY <1>1, u \in Nat, NestedDiv, Zenon
  <2> QED BY ONLY <1>1, <2>1, Zenon
<1>5. t \div s = u \div s
  <2>1. t \div s <= u \div s
    BY <1>1, DivMonotone
  <2>2. t \div s \in Nat /\ u \div s \in Nat
    BY <1>1, DivMonotone
  <2> QED BY <1>2, <2>1, <2>2
<1> QED BY <1>3, <1>4, <1>5 DEF Minute, m

\* A set of numbers has a least member.
LEMMA LeastOf ==
  ASSUME NEW T, T \subseteq Nat, T # {}
  PROVE  \E x \in T : \A y \in T : x <= y
<1> DEFINE R == {ss \in Nat \X Nat : ss[1] < ss[2]}
<1>1. IsWellFoundedOn(R, Nat)
  BY NatLessThanWellFounded DEF OpToRel
<1>2. \A x, y \in Nat : <<y, x>> \in R <=> y < x
  OBVIOUS
<1> HIDE DEF R
<1>3. PICK x \in T : \A y \in T : ~ (<<y, x>> \in R)
  BY <1>1, WFMin
<1>4. ASSUME NEW y \in T
      PROVE  x <= y
  <2>1. x \in Nat /\ y \in Nat /\ ~(<<y, x>> \in R)
    BY <1>3
  <2>2. ~(y < x)
    BY <1>2, <2>1
  <2> QED BY <2>1, <2>2
<1> QED BY <1>4

\* A bounded set of numbers has a greatest member.
LEMMA GreatestOf ==
  ASSUME NEW T, T \subseteq Nat, T # {}, NEW n \in Nat, \A x \in T : x <= n
  PROVE  Max(T) \in T /\ \A y \in T : y <= Max(T)
<1> DEFINE U == {u \in Nat : \A x \in T : x <= u}
<1>1. U \subseteq Nat /\ U # {}
  OBVIOUS
<1> HIDE DEF U
<1>2. PICK u \in U : \A v \in U : u <= v
  BY <1>1, LeastOf
<1>3. u \in Nat /\ \A x \in T : x <= u
  BY <1>2 DEF U
<1>4. u \in T
  <2> SUFFICES ASSUME u \notin T
               PROVE  FALSE
    OBVIOUS
  <2>1. PICK x \in T : TRUE
    OBVIOUS
  <2>2. u - 1 \in Nat
    BY <1>3, <2>1
  <2>3. \A y \in T : y <= u - 1
    BY <1>3
  <2>4. u - 1 \in U
    BY <2>2, <2>3 DEF U
  <2> QED BY <1>2, <1>3, <2>4
<1>5. \E x \in T : \A y \in T : x >= y
  BY <1>3, <1>4
<1>6. Max(T) \in T /\ \A y \in T : Max(T) >= y
  BY <1>5 DEF Max
<1> QED BY <1>6

\* The time by which a basket is recycled is a last time of its channels, or the
\* end of time.
LEMMA MinTSOf ==
  ASSUME NEW t2 \in Times
  PROVE  /\ MinTS(t2) \in Nat
         /\ \/ MinTS(t2) = MaxTS
            \/ \E c \in Channels : MinTS(t2) = Sec(t2[c]) /\ t2[c] # 0
<1> DEFINE S == {Sec(t2[c]) : c \in {e \in DOMAIN t2 : Sec(t2[e]) # 0}}
           T == {MaxTS} \cup S
<1>1. DOMAIN t2 = Channels /\ \A c \in Channels : t2[c] \in Nat
  BY DEF Times
<1>2. \A t \in Nat : Sec(t) \in Nat /\ (t = 0 => Sec(t) = 0)
  <2>1. TicksPerSec \in Nat \ {0}
    BY ClockAssumption
  <2> QED BY <2>1, DivMonotone DEF Sec
<1>3. T \subseteq Nat /\ T # {}
  BY <1>1, <1>2 DEF MaxTS
<1>4. MinTS(t2) = Min(T)
  BY DEF MinTS
<1>5. \A x \in S : \E c \in Channels : x = Sec(t2[c]) /\ t2[c] # 0
  BY <1>1, <1>2
<1>6. \A x \in T : x = MaxTS \/ x \in S
  OBVIOUS
<1> HIDE DEF T, S
<1>7. PICK x \in T : \A y \in T : x <= y
  BY <1>3, LeastOf
<1>8. Min(T) \in T
  BY <1>7 DEF Min
<1> QED BY <1>3, <1>4, <1>5, <1>6, <1>8

\* If they are all of one day, it is of no earlier one.
LEMMA MinDay ==
  ASSUME NEW t2 \in Times, NEW d \in Nat, d <= DayOfSec(MaxTS),
         \A c \in Channels : t2[c] # 0 => Day(t2[c]) = d
  PROVE  d <= DayOfSec(MinTS(t2))
<1>1. CASE MinTS(t2) = MaxTS
  BY <1>1
<1>2. CASE MinTS(t2) # MaxTS
  <2>1. PICK c \in Channels : MinTS(t2) = Sec(t2[c]) /\ t2[c] # 0
    BY <1>2, MinTSOf
  <2>2. Day(t2[c]) = d /\ t2[c] \in Nat
    BY <2>1 DEF Times
  <2>3. DayOfSec(Sec(t2[c])) = Day(t2[c])
    BY <2>2, Calendar
  <2>4. DayOfSec(MinTS(t2)) = d
    BY <2>1, <2>2, <2>3
  <2> QED BY <2>4
<1> QED BY <1>1, <1>2

-----------------------------------------------------------------------------
(* What the calls do to the rows in memory and to the last key frames.      *)

\* Buffering a key frame remembers its entry; the first video of a minute adds a
\* row that names the entry of its channel's last key frame, one of its second.
RowOf(c, f) == [ch |-> f.ch, min |-> Minute(f.ts), bid |-> c.bid,
                pos |-> With(c, f).idxPos[f.ch]]

\* What a buffered frame does to the rows, the last keys and the day.
LEMMA WithKeys ==
  ASSUME NEW c \in Ctrls, NEW f \in Slots
  PROVE  /\ With(c, f).prevDay = IF f.kind = "A" THEN c.prevDay ELSE Day(f.ts)
         /\ With(c, f).idxPos = IF f.kind = "I"
                                THEN [c.idxPos EXCEPT ![f.ch] = c.fposI + Len(c.ibuf)]
                                ELSE c.idxPos
         /\ With(c, f).idxT2 = IF f.kind = "I" THEN [c.idxT2 EXCEPT ![f.ch] = f.ts]
                               ELSE c.idxT2
         /\ \/ With(c, f).rbuf = c.rbuf
            \/ /\ f.kind # "A"
               /\ With(c, f).idxT2[f.ch] # 0 /\ Sec(With(c, f).idxT2[f.ch]) >= Sec(f.ts)
               /\ With(c, f).rbuf = Append(c.rbuf, RowOf(c, f))
<1>1. CASE f.kind = "A"
  BY <1>1 DEF With, WithAudio, Ctrls
<1>2. CASE f.kind # "A"
  <2> DEFINE place == c.fposI + Len(c.ibuf)
             pos == IF f.kind = "I" THEN [c.idxPos EXCEPT ![f.ch] = place] ELSE c.idxPos
             last == IF f.kind = "I" THEN [c.idxT2 EXCEPT ![f.ch] = f.ts] ELSE c.idxT2
             row == [ch |-> f.ch, min |-> Minute(f.ts), bid |-> c.bid, pos |-> pos[f.ch]]
             newRow == /\ last[f.ch] # 0
                       /\ c.prevMin[f.ch] # MinuteOfHour(f.ts)
                       /\ Sec(last[f.ch]) >= Sec(f.ts)
             rb == IF newRow THEN Append(c.rbuf, row) ELSE c.rbuf
             pm == [c.prevMin EXCEPT ![f.ch] = IF newRow THEN MinuteOfHour(f.ts)
                                               ELSE c.prevMin[f.ch]]
             ib == IF f.kind = "I"
                   THEN Append(c.ibuf, [ch |-> f.ch, ts |-> f.ts,
                                        fpos |-> c.fposB + Len(c.bbuf)])
                   ELSE c.ibuf
             bt == [c.bktT2 EXCEPT ![f.ch] = f.ts]
             bb == Append(c.bbuf, f)
             dd == Day(f.ts)
  <2>1. With(c, f) = [c EXCEPT !.bbuf = bb, !.ibuf = ib, !.idxPos = pos, !.idxT2 = last,
                               !.rbuf = rb, !.prevMin = pm, !.bktT2 = bt,
                               !.prevDay = dd]
    BY <1>2 DEF With, WithVideo
  <2>2. rb = c.rbuf \/ (last[f.ch] # 0 /\ Sec(last[f.ch]) >= Sec(f.ts) /\ rb = Append(c.rbuf, row))
    OBVIOUS
  <2> HIDE DEF ib, bt, rb, pm, bb, last, pos, newRow, dd
  <2>3. /\ With(c, f).rbuf = rb /\ With(c, f).idxPos = pos /\ With(c, f).idxT2 = last
        /\ With(c, f).prevDay = dd
    BY <2>1 DEF Ctrls
  <2>4. row = RowOf(c, f)
    BY <2>3 DEF RowOf
  <2> HIDE DEF row
  <2>5. \/ With(c, f).rbuf = c.rbuf
        \/ /\ f.kind # "A"
           /\ With(c, f).idxT2[f.ch] # 0 /\ Sec(With(c, f).idxT2[f.ch]) >= Sec(f.ts)
           /\ With(c, f).rbuf = Append(c.rbuf, RowOf(c, f))
    BY <1>2, <2>2, <2>3, <2>4
  <2> QED BY <1>2, <2>3, <2>5 DEF pos, last, dd
<1> QED BY <1>1, <1>2

\* A rollover and a flush leave them.
SameKeys(c, d) == /\ c.rbuf = d.rbuf /\ c.idxPos = d.idxPos /\ c.idxT2 = d.idxT2
                  /\ c.prevDay = d.prevDay

\* A flush and a rollover leave them.
LEMMA RollKeys ==
  ASSUME ctrl \in Ctrls, NEW f \in Slots
  PROVE  SameKeys(RollCtrl(f), ctrl) /\ SameKeys(FlushCtrl(f), ctrl)
BY DEF SameKeys, RollCtrl, FlushCtrl, Ctrls

\* BKTREC_searchBasket forgets the key frames of the basket before, and keeps its
\* rows; BKTREC_open has neither.
LEMMA SearchKeys ==
  ASSUME ctrl \in Ctrls, NEW b
  PROVE  /\ SearchCtrl(b).rbuf = ctrl.rbuf /\ SearchCtrl(b).prevDay = ctrl.prevDay
         /\ SearchCtrl(b).idxT2 \in {ctrl.idxT2, NoTimes}
BY DEF SearchCtrl, Cleared, Ctrls

\* An opening leaves the rows; BKTREC_open takes the day of the clock.
LEMMA OpenedKeys ==
  ASSUME ctrl \in Ctrls, NEW b, NEW p, NEW k
  PROVE  /\ OpenedCtrl(b, p, k).bid = b
         /\ OpenedCtrl(b, p, k).rbuf = ctrl.rbuf /\ OpenedCtrl(b, p, k).idxT2 = ctrl.idxT2
         /\ OpenedCtrl(b, p, k).prevDay = IF op = "open" THEN Day(now) ELSE ctrl.prevDay
BY DEF OpenedCtrl, Ctrls

\* A closing forgets the last keys.
LEMMA ClosedKeys ==
  ASSUME ctrl \in Ctrls, Closed
  PROVE  /\ ctrl'.rbuf \in {ctrl.rbuf, <<>>} /\ ctrl'.idxT2 = NoTimes
         /\ ctrl'.prevDay \in {ctrl.prevDay, 0}
<1>1. CASE op = "exit"
  BY <1>1 DEF Closed, ZeroCtrl
<1>2. CASE op # "exit"
  BY <1>2 DEF Closed, Ctrls
<1> QED BY <1>1, <1>2

\* The flushes of the stream and of the index leave them.
LEMMA FlushKeys ==
  ASSUME IInv, FlushData \/ FlushIndex
  PROVE  SameKeys(ctrl', ctrl)
BY DEF IInv, TypeOK, SameKeys, FlushData, FlushIndex, Ctrls

\* The flush of the day file writes rows from memory.
LEMMA FlushRows ==
  ASSUME IInv, FlushRdb
  PROVE  /\ rdb' \subseteq rdb \cup Held /\ Held' \subseteq Held
         /\ ctrl'.idxPos = ctrl.idxPos /\ ctrl'.idxT2 = ctrl.idxT2
         /\ ctrl'.prevDay = ctrl.prevDay
<1>1. ctrl \in Ctrls /\ ctrl.rbuf \in Seq(Rows)
  BY DEF IInv, TypeOK, Ctrls
<1>2. CASE UNCHANGED <<rdb, ctrl>>
  BY <1>2 DEF Held
<1>3. CASE Due
  <2>1. PICK n \in 1 .. Len(ctrl.rbuf) :
          /\ rdb' = rdb \cup
               {ctrl.rbuf[i] : i \in {j \in 1 .. n :
                  /\ \A r \in rdb : ~SameMinute(r, ctrl.rbuf[j])
                  /\ \A h \in 1 .. j - 1 : ~SameMinute(ctrl.rbuf[h], ctrl.rbuf[j])}}
          /\ ctrl' = [ctrl EXCEPT !.rbuf = SubSeq(ctrl.rbuf, n + 1, Len(ctrl.rbuf))]
    BY <1>3 DEF FlushRdb
  <2>2. DOMAIN ctrl.rbuf = 1 .. Len(ctrl.rbuf) /\ Len(ctrl.rbuf) \in Nat
    BY <1>1
  <2>3. rdb' \subseteq rdb \cup Held
    BY <2>1, <2>2 DEF Held
  <2>4. /\ ctrl'.rbuf = SubSeq(ctrl.rbuf, n + 1, Len(ctrl.rbuf))
        /\ ctrl'.idxPos = ctrl.idxPos /\ ctrl'.idxT2 = ctrl.idxT2
        /\ ctrl'.prevDay = ctrl.prevDay
    BY <1>1, <2>1 DEF Ctrls
  <2>5. Held' \subseteq Held
    <3>1. ASSUME NEW i \in DOMAIN ctrl'.rbuf
          PROVE  \E j \in DOMAIN ctrl.rbuf : ctrl'.rbuf[i] = ctrl.rbuf[j]
      <4>1. i \in 1 .. Len(ctrl.rbuf) - n /\ ctrl'.rbuf[i] = ctrl.rbuf[n + i]
        BY <1>1, <2>2, <2>4, <3>1
      <4>2. n + i \in DOMAIN ctrl.rbuf
        BY <2>2, <4>1
      <4> QED BY <4>1, <4>2
    <3> QED BY <3>1 DEF Held
  <2> QED BY <2>3, <2>4, <2>5
<1> QED BY <1>2, <1>3 DEF FlushRdb

-----------------------------------------------------------------------------
(* The steps that buffer a frame, and the others.                          *)

\* Frame f of now goes to the buffers.
Buffered(f) ==
  /\ f \in Slots /\ f.ts = now /\ f.kind \in {"I", "P", "A"}
  /\ pc \in {"idle", "append"} /\ status # "closed" /\ pc' = "idle" /\ op' = "none"
  /\ ctrl' = With(ctrl, f)
  /\ UNCHANGED <<mgr, bkt, idx, rdb, fdOpen, flushed, now>>

\* It is of the day of the video before it, or of none.
OfDay(f) == f.kind = "A" \/ ctrl.prevDay = Day(f.ts)

\* A write of a frame rolls over, flushes or buffers it.
LEMMA RequestedDays ==
  ASSUME IInv, KeptInv, RequestWrite
  PROVE  \E f \in Slots :
           /\ f.ts = now /\ f.kind \in {"I", "P", "A"}
           /\ \/ op' = "roll" /\ pc' = "data" /\ cur' = f /\ ctrl' = RollCtrl(f)
              \/ op' = "flush" /\ pc' = "data" /\ cur' = f /\ OfDay(f) /\ ctrl' = FlushCtrl(f)
              \/ Buffered(f) /\ OfDay(f)
<1>1. pc = "idle" /\ op = "none" /\ status # "closed" /\ now \in Nat
  BY DEF RequestWrite, KeptInv, SessionFits, IInv, TypeOK
<1>2. UNCHANGED <<mgr, bkt, idx, rdb, fdOpen, flushed, now>>
  BY DEF RequestWrite, disk
<1>3. PICK c \in Channels, k \in Kinds :
        LET f == Frame(c, now, k) IN
          \/ op' = "roll" /\ pc' = "data" /\ cur' = f /\ ctrl' = RollCtrl(f)
          \/ op' = "flush" /\ pc' = "data" /\ cur' = f /\ ~MustRoll(f) /\ ctrl' = FlushCtrl(f)
          \/ UNCHANGED <<op, pc, cur>> /\ ~MustRoll(f) /\ ctrl' = With(ctrl, f)
  BY DEF RequestWrite
<1> DEFINE f == Frame(c, now, k)
<1>4. f \in Slots /\ f.ts = now /\ f.kind \in {"I", "P", "A"}
  BY <1>1, FrameType, RecorderAssumption DEF Frame
<1>5. ~MustRoll(f) => OfDay(f)
  BY DEF MustRoll, OfDay
<1> HIDE DEF f
<1> QED BY <1>1, <1>2, <1>3, <1>4, <1>5 DEF Buffered, f

\* The frame a call went on with after the flush, or after the rollover.
LEMMA AppendedNow ==
  ASSUME IInv, KeptInv, FramesInv, AppendFrame
  PROVE  Buffered(cur)
<1>1. cur \in Slots /\ cur.ts = now /\ IsFrame(cur) /\ status # "closed"
  BY DEF AppendFrame, IInv, CallsFit, KeptInv, TimesFit, FramesInv, UnderWay
<1> QED BY <1>1 DEF AppendFrame, Return, Buffered, IsFrame, disk, env

\* Every other step writes rows from memory, or removes some, and adds none.
LEMMA RowsStep ==
  ASSUME IInv, KeptInv, FramesInv, Next
  PROVE  \/ \E f : Buffered(f)
         \/ /\ Held' \subseteq Held
            /\ rdb' \subseteq rdb \/ (pc = "rdb" /\ rdb' \subseteq rdb \cup Held)
<1>0. ctrl \in Ctrls /\ now \in Nat
  BY DEF IInv, TypeOK
<1>s. ASSUME ctrl'.rbuf \in {ctrl.rbuf, <<>>}
      PROVE  Held' \subseteq Held
  BY <1>s, Places DEF Held
<1>1. CASE RequestOpen \/ Crash
  BY <1>1, <1>s DEF RequestOpen, Crash, ZeroCtrl, disk
<1>2. CASE SearchEmpty \/ SearchOldest
  <2>1. PICK b : ctrl' = SearchCtrl(b)
    BY <1>2 DEF SearchEmpty, SearchOldest
  <2>2. rdb' \subseteq rdb
    BY <1>2 DEF SearchEmpty, SearchOldest, RemoveRDB, disk
  <2> QED BY <1>0, <1>s, <2>1, <2>2, SearchKeys
<1>3. CASE WriteHeaders
  BY <1>0, <1>3, <1>s, OpenedKeys DEF WriteHeaders
<1>4. CASE ResumeBasket
  <2>1. PICK k \in Nat, p \in Nat : ctrl' = OpenedCtrl(target.bid, p, k)
    BY <1>4, ResumedAt
  <2>2. rdb' = rdb
    BY <1>4 DEF ResumeBasket, disk
  <2> QED BY <1>0, <1>s, <2>1, <2>2, OpenedKeys
<1>5. CASE RequestWrite
  <2>1. rdb' = rdb
    BY <1>5 DEF RequestWrite, disk
  <2>2. PICK f \in Slots : \/ Buffered(f)
                           \/ ctrl' = RollCtrl(f) \/ ctrl' = FlushCtrl(f)
    BY <1>5, RequestedDays
  <2> QED BY <1>0, <1>s, <2>1, <2>2, RollKeys DEF SameKeys
<1>6. CASE AppendFrame
  BY <1>6, AppendedNow
<1>7. CASE FlushData \/ FlushIndex
  <2>1. rdb' = rdb
    BY <1>7 DEF FlushData, FlushIndex
  <2> QED BY <1>7, <2>1, <1>s, FlushKeys DEF SameKeys
<1>8. CASE FlushRdb
  BY <1>8, FlushRows DEF FlushRdb
<1>9. CASE FlushError
  <2>1. rdb' = rdb /\ ctrl'.rbuf \in {ctrl.rbuf, <<>>}
    BY <1>0, <1>9 DEF FlushError, disk, Ctrls
  <2> QED BY <2>1, <1>s
<1>10. CASE CloseMgr \/ CloseRecinfo
  <2>1. rdb' = rdb /\ (ctrl' = ctrl \/ Closed)
    BY <1>10 DEF CloseMgr, CloseRecinfo
  <2> QED BY <1>0, <1>s, <2>1, ClosedKeys
<1>11. CASE SearchResumable
  BY <1>0, <1>11, <1>s DEF SearchResumable, disk, Ctrls
<1>12. CASE OpenError \/ MarkManager \/ MarkRecinfo \/ RequestExit \/ CloseIndex
            \/ SetRecycleMode \/ Tick
  <2>1. rdb' = rdb /\ ctrl' = ctrl
    BY <1>12 DEF OpenError, MarkManager, MarkRecinfo, RequestExit, CloseIndex,
                 SetRecycleMode, Tick, disk, memory
  <2> QED BY <2>1, <1>s
<1> QED BY <1>1, <1>2, <1>3, <1>4, <1>5, <1>6, <1>7, <1>8, <1>9, <1>10, <1>11, <1>12 DEF Next

\* What buffering a frame adds to the rows in memory.
LEMMA HeldBuffered ==
  ASSUME IInv, NEW f, Buffered(f)
  PROVE  \A r \in Held' : \/ r \in Held
                          \/ /\ r = RowOf(ctrl, f) /\ f.kind # "A"
                             /\ ctrl'.idxT2[f.ch] # 0
                             /\ Sec(ctrl'.idxT2[f.ch]) >= Sec(f.ts)
<1>1. ctrl \in Ctrls /\ ctrl.rbuf \in Seq(Rows) /\ f \in Slots /\ ctrl' = With(ctrl, f)
  BY DEF IInv, TypeOK, Ctrls, Buffered
<1>2. CASE ctrl'.rbuf = ctrl.rbuf
  BY <1>2 DEF Held
<1>3. CASE ctrl'.rbuf # ctrl.rbuf
  <2>1. /\ f.kind # "A" /\ ctrl'.idxT2[f.ch] # 0 /\ Sec(ctrl'.idxT2[f.ch]) >= Sec(f.ts)
        /\ ctrl'.rbuf = Append(ctrl.rbuf, RowOf(ctrl, f))
    BY <1>1, <1>3, WithKeys
  <2>2. \A i \in DOMAIN ctrl'.rbuf : \/ ctrl'.rbuf[i] = RowOf(ctrl, f)
                                     \/ i \in DOMAIN ctrl.rbuf /\ ctrl'.rbuf[i] = ctrl.rbuf[i]
    BY <1>1, <2>1
  <2> QED BY <2>1, <2>2 DEF Held
<1> QED BY <1>2, <1>3

-----------------------------------------------------------------------------
(* Every row names a basket.                                               *)

\* A row is made while a basket is open, or is dropped by the flush that fails.
LEMMA NamedStep ==
  ASSUME IInv, KeptInv, FramesInv, RowsNamed, Next
  PROVE  RowsNamed'
<1>0. ctrl \in Ctrls /\ (fdOpen => ctrl.bid \in Baskets) /\ 0 \notin Baskets
  BY DEF IInv, TypeOK, BasketsFit, Baskets
<1>1. CASE \E f : Buffered(f)
  <2>1. PICK f : Buffered(f)
    BY <1>1
  <2>2. ctrl'.bbuf = Append(ctrl.bbuf, f) /\ ctrl.bbuf \in Seq(Slots) /\ f \in Slots
    BY <1>0, <2>1, WithType, Basics DEF Buffered
  <2>3. ctrl'.bbuf # <<>>
    BY <2>2, AppendSeq, Places
  <2>4. rdb' = rdb /\ fdOpen' = fdOpen /\ pc' = "idle"
    BY <2>1 DEF Buffered
  <2>5. ASSUME NEW r \in Held', r.bid = 0
        PROVE  ~fdOpen
    <3>1. CASE r \in Held
      BY <2>5, <3>1 DEF RowsNamed
    <3>2. CASE r = RowOf(ctrl, f)
      BY <1>0, <2>5, <3>2 DEF RowOf
    <3> QED BY <2>1, <2>5, <3>1, <3>2, HeldBuffered
  <2> QED BY <2>3, <2>4, <2>5 DEF RowsNamed
<1>2. CASE ~\E f : Buffered(f)
  <2>1. Held' \subseteq Held /\ (rdb' \subseteq rdb \/ (pc = "rdb" /\ rdb' \subseteq rdb \cup Held))
    BY <1>2, RowsStep
  <2>2. \A r \in rdb' : r.bid # 0
    BY <2>1 DEF RowsNamed
  <2>3. ASSUME NEW r \in Held', r.bid = 0
        PROVE  ~fdOpen' /\ ctrl'.bbuf # <<>> /\ pc' \in {"idle", "data"}
    <3>1. ~fdOpen /\ ctrl.bbuf # <<>> /\ pc \in {"idle", "data"} /\ r \in Held
      BY <2>1, <2>3 DEF RowsNamed
    <3>2. CASE RequestOpen \/ Crash
      <4>1. ctrl'.rbuf = <<>>
        BY <3>2 DEF RequestOpen, Crash, ZeroCtrl
      <4> QED BY <2>3, <4>1, Places DEF Held
    <3>3. CASE RequestWrite
      <4>1. pc' = "data" /\ fdOpen' = fdOpen
        BY <1>2, <3>3, RequestedDays DEF RequestWrite
      <4>2. PICK f \in Slots : ctrl' = RollCtrl(f) \/ ctrl' = FlushCtrl(f)
        BY <1>2, <3>3, RequestedDays
      <4>3. ctrl'.bbuf = ctrl.bbuf \/ ctrl'.bbuf = Append(ctrl.bbuf, [f EXCEPT !.kind = "END"])
        BY <1>0, <4>2, RollFields, RollType
      <4>4. ctrl.bbuf \in Seq(Slots) /\ [f EXCEPT !.kind = "END"] \in Slots
        BY Basics DEF Slots
      <4>5. ctrl'.bbuf # <<>>
        BY <3>1, <4>3, <4>4, AppendSeq, Places
      <4> QED BY <3>1, <4>1, <4>5
    <3>4. CASE FlushError
      BY <3>1, <3>4 DEF FlushError, GiveUp, Return
    <3>5. CASE RequestExit \/ SetRecycleMode \/ Tick
      BY <3>1, <3>5 DEF RequestExit, SetRecycleMode, Tick, memory, call
    <3>6. CASE FlushData
      BY <3>1, <3>6 DEF FlushData
    <3> QED BY <3>1, <3>2, <3>3, <3>4, <3>5, <3>6 DEF Next, SearchResumable, SearchEmpty,
              SearchOldest, WriteHeaders, ResumeBasket, OpenError, MarkManager, MarkRecinfo,
              AppendFrame, FlushIndex, FlushRdb, CloseIndex, CloseMgr, CloseRecinfo
  <2> QED BY <2>2, <2>3 DEF RowsNamed
<1> QED BY <1>1, <1>2

-----------------------------------------------------------------------------
(* The steps while a basket is open, and while none is.                    *)

SoFar == IInv /\ KeptInv /\ FramesInv /\ NoFailure

\* What holds without failures.
LEMMA BeforeFacts ==
  ASSUME SoFar
  PROVE  /\ OneCut /\ IndexFits /\ IndexKept /\ TimesFit /\ SessionFits /\ OpenFits
         /\ SlotsInside /\ UnderWay /\ \A b \in Baskets : flushed[b].ents <= Len(idx[b].ents)
         /\ ctrl \in Ctrls /\ now \in Nat
BY DEF SoFar, NoFailure, OneCut, KeptInv, IndexFits, FramesInv, FramesFit, CountFits,
       IInv, TypeOK

\* The open basket stays as it is, but for a slot at the end of the buffer.
SameOpen ==
  /\ UNCHANGED <<bkt, idx, flushed, fdOpen>>
  /\ ctrl'.bid = ctrl.bid /\ ctrl'.fposB = ctrl.fposB /\ ctrl'.fposI = ctrl.fposI
  /\ ctrl'.ibuf = ctrl.ibuf /\ ctrl'.idxPos = ctrl.idxPos /\ ctrl'.idxT2 = ctrl.idxT2
  /\ ctrl'.bbuf = ctrl.bbuf \/ \E g \in Slots : ctrl'.bbuf = Append(ctrl.bbuf, g)

\* What a step may do to an open basket.
LEMMA OpenedSteps ==
  ASSUME SoFar, Next, NoFailure', fdOpen
  PROVE  (\E f : Buffered(f)) \/ FlushData \/ FlushIndex \/ CloseIndex \/ SameOpen
<1>0. /\ IInv /\ KeptInv /\ FramesInv /\ ctrl \in Ctrls /\ BasketsFit
      /\ errors' = errors /\ errors \in Nat /\ crashes' = 0 /\ crashes = 0
  BY NoFailureBefore, Basics DEF SoFar, NoFailure, IInv
<1>1. ~(\/ RequestOpen \/ SearchResumable \/ SearchEmpty \/ SearchOldest \/ WriteHeaders
         \/ ResumeBasket \/ OpenError \/ CloseMgr \/ CloseRecinfo)
  <2>1. /\ pc \notin {"search", "header", "resume", "closeMgr", "closeRecinfo"}
        /\ status # "closed"
    BY <1>0 DEF BasketsFit, Opening
  <2> QED BY <2>1 DEF RequestOpen, SearchResumable, SearchEmpty, SearchOldest, WriteHeaders,
              ResumeBasket, OpenError, CloseMgr, CloseRecinfo
<1>6. ~Crash /\ ~FlushError
  <2>1. ASSUME Crash
        PROVE  FALSE
    BY <1>0, <2>1 DEF Crash
  <2>2. ASSUME FlushError
        PROVE  FALSE
    <3>1. errors' = errors + 1
      BY <2>2 DEF FlushError
    <3> QED BY <1>0, <3>1
  <2> QED BY <2>1, <2>2
<1>2. CASE MarkManager \/ MarkRecinfo \/ RequestExit \/ SetRecycleMode \/ Tick
  BY <1>2 DEF MarkManager, MarkRecinfo, RequestExit, SetRecycleMode, Tick, SameOpen, disk,
              memory
<1>3. CASE RequestWrite
  <2>1. UNCHANGED <<bkt, idx, flushed, fdOpen>>
    BY <1>3 DEF RequestWrite, disk
  <2>2. PICK f \in Slots : Buffered(f) \/ ctrl' = RollCtrl(f) \/ ctrl' = FlushCtrl(f)
    BY <1>0, <1>3, RequestedDays
  <2>3. ASSUME ctrl' = RollCtrl(f) \/ ctrl' = FlushCtrl(f)
        PROVE  /\ ctrl'.bid = ctrl.bid /\ ctrl'.fposB = ctrl.fposB
               /\ ctrl'.fposI = ctrl.fposI /\ ctrl'.ibuf = ctrl.ibuf
               /\ ctrl'.bbuf \in {ctrl.bbuf, Append(ctrl.bbuf, [f EXCEPT !.kind = "END"])}
               /\ SameKeys(ctrl', ctrl)
    BY <1>0, <2>3, RollType, RollFields, RollKeys
  <2>4. [f EXCEPT !.kind = "END"] \in Slots
    BY DEF Slots
  <2> QED BY <2>1, <2>2, <2>3, <2>4 DEF SameOpen, SameKeys
<1>4. CASE AppendFrame
  BY <1>0, <1>4, AppendedNow
<1>5. CASE FlushRdb
  <2>1. /\ ctrl'.bid = ctrl.bid /\ ctrl'.fposI = ctrl.fposI /\ ctrl'.ibuf = ctrl.ibuf
        /\ ctrl'.bbuf = ctrl.bbuf /\ ctrl'.fposB = ctrl.fposB
        /\ ctrl'.idxPos = ctrl.idxPos /\ ctrl'.idxT2 = ctrl.idxT2
    BY <1>0, <1>5, FlushedRows, FlushRows
  <2> QED BY <1>5, <2>1 DEF FlushRdb, SameOpen
<1> QED BY <1>1, <1>2, <1>3, <1>4, <1>5, <1>6 DEF Next

\* A basket is opened with empty buffers, or none is.
LEMMA ClosedSteps ==
  ASSUME IInv, Next, ~fdOpen, fdOpen'
  PROVE  /\ WriteHeaders \/ ResumeBasket
         /\ ctrl'.ibuf = <<>> /\ ctrl'.idxT2 = ctrl.idxT2
         /\ ctrl'.bid = target.bid /\ target.bid \in Baskets /\ pc \in Opening
<1>0. ctrl \in Ctrls /\ now \in Nat
  BY DEF IInv, TypeOK
<1>1. WriteHeaders \/ ResumeBasket
  BY DEF Next, RequestOpen, SearchResumable, SearchEmpty, SearchOldest, OpenError,
         MarkManager, MarkRecinfo, RequestWrite, AppendFrame, FlushData, FlushIndex,
         FlushRdb, FlushError, RequestExit, CloseIndex, CloseMgr, CloseRecinfo, Crash,
         SetRecycleMode, Tick, memory
<1>2. target.bid \in Baskets /\ pc \in Opening /\ ctrl.ibuf = <<>>
  BY <1>1 DEF WriteHeaders, ResumeBasket, IInv, BasketsFit, PositionsFit, Opening
<1>3. CASE WriteHeaders
  <2>1. ctrl'.ibuf = ctrl.ibuf /\ ctrl'.bid = target.bid
    BY <1>3, BegunAt
  <2>2. ctrl'.idxT2 = ctrl.idxT2
    BY <1>0, <1>3, OpenedKeys DEF WriteHeaders
  <2> QED BY <1>1, <1>2, <2>1, <2>2
<1>4. CASE ResumeBasket
  <2>1. PICK k \in Nat, p \in Nat : ctrl' = OpenedCtrl(target.bid, p, k)
    BY <1>4, ResumedAt
  <2>2. ctrl'.ibuf = ctrl.ibuf /\ ctrl'.bid = target.bid
    BY ONLY <1>0, <1>2, <2>1, OpenedType
  <2>3. ctrl'.idxT2 = ctrl.idxT2
    BY <1>0, <2>1, OpenedKeys
  <2> QED BY <1>1, <1>2, <2>2, <2>3
<1> QED BY <1>1, <1>3, <1>4

-----------------------------------------------------------------------------
(* What an entry leads to.                                                 *)

\* The entries that count as written stay: those in the buffer go behind them.
LEMMA EntriesStay ==
  ASSUME SoFar, Next, NEW b \in Baskets, NEW pos \in Nat, pos < flushed[b].ents
  PROVE  idx'[b].ents[pos + 1] = idx[b].ents[pos + 1]
<1>0. IInv /\ IndexKept /\ flushed[b].ents \in Nat
  BY BeforeFacts, Basics DEF SoFar
<1>1. CASE FlushIndex
  <2>1. CASE UNCHANGED <<idx, ctrl, flushed>>
    BY <2>1
  <2>2. CASE ctrl.ibuf # <<>> /\ fdOpen
    <3>1. CASE b # ctrl.bid
      BY <1>0, <1>1, <2>2, <3>1, IndexWritten
    <3>2. CASE b = ctrl.bid
      <4> DEFINE old == idx[b].ents
                 new == idx'[b].ents
                 p == ctrl.fposI
      <4>1. /\ old \in Seq(Entries) /\ p \in 0 .. Len(old) /\ ctrl.ibuf \in Seq(Entries)
        BY <1>0, <2>2, <3>2, Basics DEF IInv, PositionsFit
      <4>2. new = Aligned(old, p, ctrl.ibuf)
        BY <1>0, <1>1, <2>2, <3>2, IndexWritten DEF Aligned
      <4>3. pos + 1 \in 1 .. p
        BY <1>0, <2>2, <3>2, <4>1 DEF IndexKept
      <4> HIDE DEF old, new, p
      <4>4. \A i \in 1 .. p : new[i] = old[i]
        BY <4>1, <4>2, AlignedPlaces
      <4> QED BY <4>3, <4>4 DEF old, new
    <3> QED BY <3>1, <3>2
  <2> QED BY <1>0, <1>1, <2>1, <2>2, IndexWritten
<1>2. CASE WriteHeaders \/ CloseIndex
  <2>1. idx \in [Baskets -> [count : Nat, ents : Seq(Entries)]]
    BY <1>0, Basics
  <2>2. PICK d, n : idx' = idx \/ idx' = [idx EXCEPT ![d].count = n]
    BY <1>2 DEF WriteHeaders, CloseIndex
  <2>3. idx'[b].ents = idx[b].ents
    BY <2>1, <2>2
  <2> QED BY <2>3
<1>3. CASE ~FlushIndex /\ ~WriteHeaders /\ ~CloseIndex
  <2>1. idx' = idx
    BY <1>3 DEF Next, RequestOpen, SearchResumable, SearchEmpty, SearchOldest,
       ResumeBasket, OpenError, MarkManager, MarkRecinfo, RequestWrite, AppendFrame,
       FlushData, FlushRdb, FlushError, RequestExit, CloseMgr, CloseRecinfo, Crash,
       SetRecycleMode, Tick, disk
  <2> QED BY <2>1
<1> QED BY <1>1, <1>2, <1>3

\* So does what they lead to, unless the basket is begun anew.
LEMMA IndexedStep ==
  ASSUME SoFar, Next, NEW b \in Baskets, NEW pos \in Nat, NEW c, NEW t,
         Indexed(b, pos, c, t), ~(WriteHeaders /\ target.bid = b)
  PROVE  Indexed(b, pos, c, t)'
<1> DEFINE e == idx[b].ents[pos + 1]
<1>1. /\ IInv /\ FramesInv /\ NoFailure /\ flushed[b].ents \in Nat /\ flushed[b].slots \in Nat
      /\ pos < flushed[b].ents /\ flushed[b].ents <= Len(idx[b].ents)
      /\ idx[b].ents \in Seq(Entries)
  BY BeforeFacts, Basics DEF SoFar, Indexed
<1>2. e \in Entries
  BY <1>1, ElementOfSeq
<1>3. e.fpos < flushed[b].slots
  BY DEF Indexed
<1>4. StaysInPlace(b) /\ idx'[b].ents[pos + 1] = e
  BY <1>1, BasketStays, EntriesStay
<1> HIDE DEF e
<1>5. flushed'[b].ents \in Nat /\ flushed'[b].slots \in Nat /\ e.fpos \in Nat
  BY <1>1, <1>2, TypeStep DEF TypeOK, Entries
<1>6. pos < flushed'[b].ents /\ e.fpos < flushed'[b].slots
  BY <1>1, <1>3, <1>4, <1>5 DEF StaysInPlace
<1>7. bkt'[b][e.fpos + 1] = bkt[b][e.fpos + 1]
  <2>1. e.fpos + 1 \in 1 .. flushed[b].slots
    BY <1>1, <1>3, <1>5
  <2> QED BY <1>4, <2>1 DEF StaysInPlace
<1> QED BY <1>4, <1>6, <1>7 DEF Indexed, e

-----------------------------------------------------------------------------
(* The entries in memory.                                                  *)

\* A slot that is put at the end of the stream.
LEMMA StreamedAppend ==
  ASSUME IInv, fdOpen, NEW g \in Slots, bkt' = bkt, ctrl'.bid = ctrl.bid,
         ctrl'.fposB = ctrl.fposB, ctrl'.bbuf = Append(ctrl.bbuf, g)
  PROVE  /\ \A i \in 1 .. StreamEnd : Streamed'[i] = Streamed[i]
         /\ Streamed'[StreamEnd + 1] = g
<1> DEFINE file == bkt[ctrl.bid]
           p == ctrl.fposB
           buf == ctrl.bbuf
<1>1. file \in Seq(Slots) /\ p \in 0 .. Len(file) /\ buf \in Seq(Slots)
  BY EntryTypes, Basics
<1>2. /\ Streamed' = Stream(file, p, Append(buf, g)) /\ Streamed = Stream(file, p, buf)
      /\ StreamEnd = p + Len(buf)
  BY DEF Streamed, StreamEnd
<1> HIDE DEF file, p, buf
<1>3. Stream(file, p, Append(buf, g))[p + Len(buf) + 1] = g
  BY ONLY <1>1, g \in Slots, StreamAdds, Zenon
<1>4. \A i \in 1 .. p + Len(buf) : Stream(file, p, Append(buf, g))[i] = Stream(file, p, buf)[i]
  BY ONLY <1>1, g \in Slots, StreamStays, Zenon
<1> QED BY <1>2, <1>3, <1>4

\* The frames of the entries in memory that a flush of the stream writes count as
\* written: nothing before them in the buffer ends the frames.
LEMMA KeysFlushed ==
  ASSUME SoFar, KeysStreamed, FlushData, fdOpen, NEW i \in DOMAIN ctrl.ibuf
  PROVE  /\ Streamed'[ctrl.ibuf[i].fpos + 1] = Streamed[ctrl.ibuf[i].fpos + 1]
         /\ ctrl'.bbuf # ctrl.bbuf => ctrl.ibuf[i].fpos < flushed'[ctrl.bid].slots
<1> DEFINE file == bkt[ctrl.bid]
           p == ctrl.fposB
           buf == ctrl.bbuf
           z == ctrl.ibuf[i].fpos
           b == ctrl.bid
<1>0. /\ IInv /\ OpenFits /\ z \in Nat /\ z < StreamEnd
      /\ file \in Seq(Slots) /\ p \in 0 .. Len(file) /\ buf \in Seq(Slots) /\ p \in Nat
      /\ Len(buf) \in Nat /\ b \in Baskets /\ flushed[b].slots \in Nat
  BY BeforeFacts, EntryTypes, Basics DEF SoFar, Entries
<1>1. CASE UNCHANGED <<bkt, ctrl, flushed>>
  BY <1>1 DEF Streamed
<1>2. CASE ctrl.bbuf # <<>>
  <2>1. PICK aligned \in BOOLEAN : bkt'[b] = Overwrite(file, p, buf, aligned)
    BY <1>0, <1>2, DataWritten
  <2>2. /\ ctrl'.bid = b /\ ctrl'.bbuf = <<>> /\ ctrl'.fposB = p + Len(buf)
    BY <1>0, FlushedData
  <2>3. /\ Streamed' = Stream(Overwrite(file, p, buf, aligned), p + Len(buf), <<>>)
        /\ Streamed = Stream(file, p, buf)
    BY <2>1, <2>2 DEF Streamed
  <2>4. flushed'[b].slots = IF IsFrame(buf[1])
                            THEN AtLeast(flushed[b].slots, p + FirstFrames(buf))
                            ELSE flushed[b].slots
    BY <1>0, <1>2, DataWritten
  <2>5. /\ Streamed[z + 1] = Frame(ctrl.ibuf[i].ch, ctrl.ibuf[i].ts, "I")
        /\ z < p => z < flushed[b].slots
    BY DEF KeysStreamed
  <2>6. z + 1 \in 1 .. p + Len(buf)
    BY <1>0 DEF StreamEnd
  <2>7. BufferFits
    BY <1>0 DEF OpenFits
  <2> HIDE DEF file, p, buf, z, b
  <2>8. \A j \in 1 .. p + Len(buf) :
          Stream(Overwrite(file, p, buf, aligned), p + Len(buf), <<>>)[j]
            = Stream(file, p, buf)[j]
    BY ONLY <1>0, aligned \in BOOLEAN, FlushKeepsStream, Zenon
  <2>9. Streamed'[z + 1] = Streamed[z + 1]
    BY <2>3, <2>6, <2>8
  <2>10. FirstFrames(buf) \in Nat
    BY <1>0, FirstFramesBound
  <2>11. CASE z < p
    BY <1>0, <2>4, <2>5, <2>9, <2>10, <2>11 DEF AtLeast, z, b
  <2>12. CASE z >= p
    <3> DEFINE j == z - p + 1
    <3>1. j \in 1 .. Len(buf) /\ p + j = z + 1 /\ j \in Nat
      BY <1>0, <2>6, <2>12
    <3> HIDE DEF j
    <3>2. buf[j] = Streamed[z + 1]
      <4>1. \A k \in 1 .. Len(buf) : Stream(file, p, buf)[p + k] = buf[k]
        BY <1>0, StreamPlaces
      <4> QED BY <2>3, <3>1, <4>1
    <3>3. IsFrame(buf[j])
      BY <2>5, <3>2 DEF IsFrame, Frame
    <3>4. \A k \in 1 .. j : IsFrame(buf[k])
      <4>1. ASSUME NEW k \in 1 .. j
            PROVE  IsFrame(buf[k])
        <5>1. k \in DOMAIN buf /\ (k = Len(buf) => k = j)
          BY <1>0, <3>1, Places
        <5> QED BY <2>7, <3>3, <5>1 DEF BufferFits, buf
      <4> QED BY <4>1
    <3>5. j <= FirstFrames(buf)
      BY <1>0, <3>1, <3>4, FirstFramesBound
    <3>6. IsFrame(buf[1])
      BY <3>1, <3>4
    <3>7. flushed'[b].slots = AtLeast(flushed[b].slots, p + FirstFrames(buf))
      BY <2>4, <3>6
    <3>8. z < p + FirstFrames(buf)
      BY <1>0, <2>10, <3>1, <3>5
    <3>9. z < flushed'[b].slots
      BY <1>0, <2>10, <3>7, <3>8 DEF AtLeast
    <3> QED BY <2>9, <3>9 DEF z, b
  <2> QED BY <1>0, <2>11, <2>12
<1> QED BY <1>0, <1>1, <1>2, DataWritten

\* What buffering a frame of now does to the entries in memory.
LEMMA EntryBuffered ==
  ASSUME IInv, NEW f, Buffered(f)
  PROVE  /\ ctrl'.bid = ctrl.bid /\ ctrl'.fposB = ctrl.fposB /\ ctrl'.fposI = ctrl.fposI
         /\ ctrl'.bbuf = Append(ctrl.bbuf, f) /\ f \in Slots
         /\ Len(ctrl'.ibuf) >= Len(ctrl.ibuf) /\ Len(ctrl'.ibuf) \in Nat
         /\ \A i \in DOMAIN ctrl.ibuf : i \in DOMAIN ctrl'.ibuf /\ ctrl'.ibuf[i] = ctrl.ibuf[i]
         /\ f.kind = "I" =>
              /\ Len(ctrl'.ibuf) = Len(ctrl.ibuf) + 1
              /\ ctrl'.ibuf[Len(ctrl.ibuf) + 1] = [ch |-> f.ch, ts |-> f.ts, fpos |-> StreamEnd]
              /\ f = Frame(f.ch, f.ts, "I")
         /\ \A i \in DOMAIN ctrl'.ibuf :
              i \in DOMAIN ctrl.ibuf \/ (f.kind = "I" /\ i = Len(ctrl.ibuf) + 1)
<1> DEFINE entry == [ch |-> f.ch, ts |-> f.ts, fpos |-> ctrl.fposB + Len(ctrl.bbuf)]
<1>1. ctrl \in Ctrls /\ f \in Slots /\ ctrl' = With(ctrl, f) /\ ctrl.ibuf \in Seq(Entries)
  BY Basics DEF Buffered
<1>2. /\ ctrl'.bid = ctrl.bid /\ ctrl'.fposB = ctrl.fposB /\ ctrl'.fposI = ctrl.fposI
      /\ ctrl'.bbuf = Append(ctrl.bbuf, f)
      /\ ctrl'.ibuf = IF f.kind = "I" THEN Append(ctrl.ibuf, entry) ELSE ctrl.ibuf
  BY <1>1, WithType, WithFields
<1>3. entry \in Entries /\ entry = [ch |-> f.ch, ts |-> f.ts, fpos |-> StreamEnd]
  BY <1>1, Basics DEF Entries, Slots, StreamEnd
<1>4. f.kind = "I" => f = Frame(f.ch, f.ts, "I")
  BY <1>1 DEF Slots, Frame
<1> HIDE DEF entry
<1>5. CASE f.kind = "I"
  BY <1>1, <1>2, <1>3, <1>4, <1>5, AppendSeq, Places
<1>6. CASE f.kind # "I"
  BY <1>1, <1>2, <1>6, Places
<1> QED BY <1>5, <1>6

\* The entries in the index buffer keep leading to their key frames.
LEMMA KeysStep ==
  ASSUME SoFar, Next, NoFailure', KeysStreamed
  PROVE  KeysStreamed'
<1>0. IInv /\ OpenFits /\ ctrl \in Ctrls
  BY BeforeFacts DEF SoFar
<1>1. CASE ctrl'.ibuf = <<>> \/ ~fdOpen'
  BY <1>1, Places DEF KeysStreamed
<1>2. CASE ~fdOpen /\ fdOpen'
  BY <1>0, <1>1, <1>2, ClosedSteps
<1> DEFINE e(i) == ctrl.ibuf[i]
<1>3. ASSUME fdOpen, NEW i \in DOMAIN ctrl.ibuf
      PROVE  /\ Streamed[e(i).fpos + 1] = Frame(e(i).ch, e(i).ts, "I")
             /\ e(i).fpos < ctrl.fposB => e(i).fpos < flushed[ctrl.bid].slots
             /\ e(i).fpos + 1 \in 1 .. StreamEnd
  <2>1. e(i) \in Entries /\ e(i).fpos < StreamEnd /\ StreamEnd \in Nat
    BY <1>0, <1>3, EntryTypes
  <2>2. e(i).fpos + 1 \in 1 .. StreamEnd
    BY <2>1 DEF Entries
  <2> QED BY <1>3, <2>2 DEF KeysStreamed
<1>4. CASE fdOpen /\ \E f : Buffered(f)
  <2>1. PICK f : Buffered(f)
    BY <1>4
  <2>2. /\ \A i \in 1 .. StreamEnd : Streamed'[i] = Streamed[i]
        /\ Streamed'[StreamEnd + 1] = f
    BY <1>0, <1>4, <2>1, EntryBuffered, StreamedAppend DEF Buffered
  <2>3. StreamEnd \in Nat /\ StreamEnd >= ctrl.fposB
    BY <1>0, Basics DEF StreamEnd
  <2>4. UNCHANGED flushed /\ ctrl'.fposB = ctrl.fposB /\ ctrl'.bid = ctrl.bid
    BY <1>0, <2>1, EntryBuffered DEF Buffered
  <2>5. ASSUME NEW i \in DOMAIN ctrl'.ibuf
        PROVE  /\ Streamed'[ctrl'.ibuf[i].fpos + 1] = Frame(ctrl'.ibuf[i].ch, ctrl'.ibuf[i].ts, "I")
               /\ ctrl'.ibuf[i].fpos < ctrl'.fposB => ctrl'.ibuf[i].fpos < flushed'[ctrl'.bid].slots
    <3>1. CASE i \in DOMAIN ctrl.ibuf
      <4>1. ctrl'.ibuf[i] = e(i)
        BY <1>0, <2>1, <3>1, EntryBuffered
      <4> QED BY <1>3, <1>4, <2>2, <2>4, <3>1, <4>1
    <3>2. CASE f.kind = "I" /\ i = Len(ctrl.ibuf) + 1
      <4>1. /\ ctrl'.ibuf[i] = [ch |-> f.ch, ts |-> f.ts, fpos |-> StreamEnd]
            /\ f = Frame(f.ch, f.ts, "I")
        BY <1>0, <2>1, <3>2, EntryBuffered
      <4>2. ~(StreamEnd < ctrl.fposB)
        BY <1>0, <2>3, Basics
      <4> QED BY <2>2, <2>4, <4>1, <4>2
    <3> QED BY <1>0, <2>1, <3>1, <3>2, EntryBuffered
  <2> QED BY <2>5 DEF KeysStreamed
<1>5. CASE fdOpen /\ SameOpen
  <2>1. \A i \in 1 .. StreamEnd : Streamed'[i] = Streamed[i]
    <3>1. CASE ctrl'.bbuf = ctrl.bbuf
      BY <1>5, <3>1 DEF Streamed, SameOpen
    <3>2. CASE \E g \in Slots : ctrl'.bbuf = Append(ctrl.bbuf, g)
      BY <1>0, <1>5, <3>2, StreamedAppend DEF SameOpen
    <3> QED BY <1>5, <3>1, <3>2 DEF SameOpen
  <2> QED BY <1>3, <1>5, <2>1 DEF SameOpen, KeysStreamed
<1>6. CASE fdOpen /\ FlushData
  <2>1. ctrl'.ibuf = ctrl.ibuf /\ ctrl'.bid = ctrl.bid
    BY <1>0, <1>6, FlushedData
  <2>2. ctrl'.bbuf = ctrl.bbuf => ctrl'.fposB = ctrl.fposB /\ flushed' = flushed
    <3>1. CASE ctrl.bbuf = <<>>
      BY <1>0, <1>6, <3>1, DataWritten
    <3>2. CASE ctrl.bbuf # <<>>
      BY <1>0, <1>6, <3>2, FlushedData
    <3> QED BY <3>1, <3>2
  <2> QED BY <1>3, <1>6, <2>1, <2>2, KeysFlushed DEF KeysStreamed
<1>7. CASE FlushIndex \/ CloseIndex
  BY <1>0, <1>1, <1>7, FlushedIndex DEF CloseIndex
<1> QED BY <1>1, <1>2, <1>4, <1>5, <1>6, <1>7, OpenedSteps

\* An entry in memory waits on, or is written with its key frame before it.
LEMMA WaitingStep ==
  ASSUME SoFar, Next, NoFailure', KeysStreamed, NEW pos \in Nat, NEW c, NEW t,
         Waiting(pos, c, t)
  PROVE  /\ ctrl'.bid = ctrl.bid /\ ctrl.bid \in Baskets
         /\ Waiting(pos, c, t)' \/ Indexed(ctrl.bid, pos, c, t)'
<1> DEFINE p == ctrl.fposI
           n == Len(ctrl.ibuf)
           b == ctrl.bid
           i == pos - p + 1
<1>0. /\ IInv /\ fdOpen /\ p \in Nat /\ n \in Nat /\ p <= pos /\ pos < p + n
      /\ ctrl.ibuf[i].ch = c /\ ctrl.ibuf[i].ts = t
      /\ b \in Baskets /\ ctrl.ibuf \in Seq(Entries)
  BY EntryTypes, Basics DEF SoFar, Waiting
<1>1. i \in DOMAIN ctrl.ibuf /\ i \in 1 .. n /\ p + i = pos + 1 /\ n > 0
  BY <1>0, Places
<1>2. CASE \E f : Buffered(f)
  <2>1. PICK f : Buffered(f)
    BY <1>2
  <2>2. /\ ctrl'.bid = b /\ ctrl'.fposI = p /\ fdOpen' = fdOpen
        /\ Len(ctrl'.ibuf) >= n /\ Len(ctrl'.ibuf) \in Nat /\ ctrl'.ibuf[i] = ctrl.ibuf[i]
    BY <1>0, <1>1, <2>1, EntryBuffered DEF Buffered
  <2> QED BY <1>0, <2>2 DEF Waiting
<1>3. CASE SameOpen
  BY <1>0, <1>3 DEF Waiting, SameOpen
<1>4. CASE FlushData
  <2>1. ctrl'.bid = b /\ ctrl'.fposI = p /\ ctrl'.ibuf = ctrl.ibuf /\ fdOpen' = fdOpen
    BY <1>0, <1>4, FlushedData DEF FlushData
  <2> QED BY <1>0, <2>1 DEF Waiting
<1>5. CASE CloseIndex
  <2>1. ctrl.ibuf = <<>>
    BY <1>0, <1>5 DEF CloseIndex, IInv, PositionsFit
  <2> QED BY <1>1, <2>1, Places
<1>6. CASE FlushIndex
  <2> DEFINE e == ctrl.ibuf[i]
             old == idx[b].ents
             new == idx'[b].ents
  <2>1. /\ ctrl.ibuf # <<>> /\ new = Aligned(old, p, ctrl.ibuf)
        /\ flushed'[b].slots = flushed[b].slots /\ flushed'[b].ents = AtLeast(flushed[b].ents, p + n)
    BY <1>0, <1>1, <1>6, IndexWritten, Places DEF Aligned
  <2>2. ctrl'.bid = b /\ bkt' = bkt /\ ctrl.bbuf = <<>>
    BY <1>0, <1>6, FlushedIndex DEF FlushIndex, IInv, PositionsFit
  <2>3. old \in Seq(Entries) /\ p \in 0 .. Len(old) /\ flushed[b].ents \in Nat
    BY <1>0, Basics DEF IInv, PositionsFit
  <2>4. e \in Entries /\ e.fpos < ctrl.fposB /\ bkt[b] \in Seq(Slots) /\ ctrl.fposB \in Nat
        /\ Streamed = Stream(bkt[b], ctrl.fposB, <<>>)
    <3>1. e \in Entries /\ e.fpos < StreamEnd /\ ctrl.fposB \in Nat /\ bkt[b] \in Seq(Slots)
      BY <1>0, <1>1, EntryTypes, Basics
    <3>2. StreamEnd = ctrl.fposB
      BY <2>2, <3>1, Places DEF StreamEnd
    <3> QED BY <2>2, <3>1, <3>2 DEF Streamed
  <2>5. /\ Streamed[e.fpos + 1] = Frame(e.ch, e.ts, "I")
        /\ e.fpos < flushed[b].slots
    BY <1>0, <1>1, <2>4 DEF KeysStreamed
  <2> HIDE DEF e, old, new, i, p, n, b
  <2>6. \A j \in 1 .. Len(ctrl.ibuf) : new[p + j] = ctrl.ibuf[j]
    BY <1>0, <2>1, <2>3, AlignedPlaces
  <2>7. new[pos + 1] = e
    BY <1>1, <2>6 DEF n, e
  <2>8. bkt[b][e.fpos + 1] = Streamed[e.fpos + 1]
    <3>1. e.fpos + 1 \in 1 .. ctrl.fposB
      BY <2>4 DEF Entries
    <3>2. \A j \in 1 .. ctrl.fposB : Stream(bkt[b], ctrl.fposB, <<>>)[j] = bkt[b][j]
      BY <2>4, StreamFile
    <3> QED BY <2>4, <3>1, <3>2
  <2>9. pos < flushed'[b].ents
    BY <1>0, <2>1, <2>3 DEF AtLeast
  <2>10. e.ch = c /\ e.ts = t
    BY <1>0 DEF e
  <2>11. Indexed(b, pos, c, t)'
    BY <2>1, <2>2, <2>5, <2>7, <2>8, <2>9, <2>10 DEF Indexed, new, b
  <2> QED BY <1>0, <2>2, <2>11 DEF b
<1> QED BY <1>0, <1>2, <1>3, <1>4, <1>5, <1>6, OpenedSteps

\* The last key frames of the open basket can be found.
LEMMA LastKeyedStep ==
  ASSUME SoFar, Next, NoFailure', KeysStreamed, LastKeyed
  PROVE  LastKeyed'
<1>0. IInv /\ ctrl \in Ctrls /\ BasketsFit
  BY BeforeFacts DEF SoFar, IInv
<1>1. pc' \in Opening => ctrl'.idxT2 = NoTimes
  <2>1. CASE RequestOpen
    BY <2>1 DEF RequestOpen, ZeroCtrl
  <2>2. CASE SearchResumable
    <3>1. ctrl'.idxT2 = ctrl.idxT2 /\ pc \in Opening
      BY <1>0, <2>2 DEF SearchResumable, Opening, Ctrls
    <3> QED BY <3>1 DEF LastKeyed
  <2>3. CASE SearchEmpty \/ SearchOldest
    <3>1. PICK b : ctrl' = SearchCtrl(b)
      BY <2>3 DEF SearchEmpty, SearchOldest
    <3>2. ctrl.idxT2 = NoTimes
      BY <2>3 DEF LastKeyed, SearchEmpty, SearchOldest, Opening
    <3> QED BY <1>0, <3>1, <3>2, SearchKeys
  <2>4. CASE CloseMgr \/ CloseRecinfo
    <3>1. pc' \in Opening => Closed
      BY <2>4 DEF CloseMgr, CloseRecinfo, Goto, Opening
    <3> QED BY <1>0, <3>1, ClosedKeys
  <2>5. CASE RequestWrite
    <3>1. PICK f \in Slots : pc' = "data" \/ Buffered(f)
      BY <2>5, RequestedDays DEF SoFar
    <3> QED BY <3>1 DEF Opening, Buffered
  <2>6. CASE SetRecycleMode \/ Tick
    BY <2>6 DEF SetRecycleMode, Tick, call, Opening
  <2>7. CASE ~(\/ RequestOpen \/ SearchResumable \/ SearchEmpty \/ SearchOldest \/ CloseMgr
               \/ CloseRecinfo \/ RequestWrite \/ SetRecycleMode \/ Tick)
    <3>1. pc' \notin Opening
      BY <2>7 DEF Next, WriteHeaders, ResumeBasket, OpenError, MarkManager,
         MarkRecinfo, AppendFrame, FlushData, FlushIndex, FlushRdb, AfterFlush, FlushError,
         RequestExit, CloseIndex, Crash, GiveUp, Return, Goto, Opening
    <3> QED BY <3>1
  <2> QED BY <2>1, <2>2, <2>3, <2>4, <2>5, <2>6, <2>7
<1>2. ASSUME fdOpen', NEW c \in Channels, ctrl'.idxT2[c] # 0
      PROVE  \/ Indexed(ctrl.bid, ctrl.idxPos[c], c, ctrl.idxT2[c])'
             \/ Waiting(ctrl.idxPos[c], c, ctrl.idxT2[c])'
  <2>1. fdOpen
    <3>1. CASE ~fdOpen
      <4>1. ctrl'.idxT2 = NoTimes
        BY <1>0, <1>2, <3>1, ClosedSteps DEF LastKeyed
      <4> QED BY <1>2, <4>1 DEF NoTimes
    <3> QED BY <3>1
  <2>2. ctrl.bid \in Baskets /\ ctrl.idxPos[c] \in Nat /\ ctrl.fposI \in Nat
        /\ Len(ctrl.ibuf) \in Nat /\ ctrl.idxPos \in Times /\ ctrl.idxT2 \in Times
    BY <1>0, <2>1, Basics DEF BasketsFit, Ctrls, Times
  <2>3. ASSUME ctrl'.idxT2[c] = ctrl.idxT2[c], ctrl'.idxPos[c] = ctrl.idxPos[c],
               ctrl'.bid = ctrl.bid
        PROVE  \/ Indexed(ctrl.bid, ctrl.idxPos[c], c, ctrl.idxT2[c])'
               \/ Waiting(ctrl.idxPos[c], c, ctrl.idxT2[c])'
    <3>1. PICK d \in Baskets, k \in Nat, u \in Nat :
            d = ctrl.bid /\ k = ctrl.idxPos[c] /\ u = ctrl.idxT2[c]
      BY <2>2 DEF Times
    <3>2. Indexed(d, k, c, u) \/ Waiting(k, c, u)
      BY <1>2, <2>1, <2>3, <3>1 DEF LastKeyed
    <3>3. ~(WriteHeaders /\ target.bid = d)
      BY <1>0, <2>1 DEF WriteHeaders, BasketsFit, Opening
    <3>4. k = ctrl'.idxPos[c] /\ u = ctrl'.idxT2[c] /\ d = ctrl'.bid
      BY <2>3, <3>1
    <3>5. CASE Indexed(d, k, c, u)
      <4>1. Indexed(d, k, c, u)'
        BY <3>3, <3>5, IndexedStep
      <4> QED BY <3>4, <4>1 DEF Indexed
    <3>6. CASE Waiting(k, c, u)
      <4>1. Waiting(k, c, u)' \/ Indexed(ctrl.bid, k, c, u)'
        BY <3>6, WaitingStep
      <4> QED BY <3>4, <4>1 DEF Indexed, Waiting
    <3> QED BY <3>2, <3>5, <3>6
  <2>4. CASE \E f : Buffered(f)
    <3>1. PICK f : Buffered(f)
      BY <2>4
    <3>2. /\ ctrl'.bid = ctrl.bid /\ f \in Slots /\ ctrl' = With(ctrl, f) /\ fdOpen'
          /\ ctrl'.fposI = ctrl.fposI
      BY <1>0, <1>2, <3>1, EntryBuffered DEF Buffered
    <3>3. CASE f.kind = "I" /\ f.ch = c
      <4>1. /\ ctrl'.idxPos[c] = ctrl.fposI + Len(ctrl.ibuf) /\ ctrl'.idxT2[c] = f.ts
        BY <1>0, <2>2, <3>2, <3>3, WithKeys DEF Times
      <4>2. /\ Len(ctrl'.ibuf) = Len(ctrl.ibuf) + 1
            /\ ctrl'.ibuf[Len(ctrl.ibuf) + 1] = [ch |-> f.ch, ts |-> f.ts, fpos |-> StreamEnd]
        BY <1>0, <3>1, <3>3, EntryBuffered
      <4> DEFINE k == ctrl.fposI + Len(ctrl.ibuf)
                 e == ctrl'.ibuf[Len(ctrl.ibuf) + 1]
      <4>3. e.ch = c /\ e.ts = f.ts
        BY <3>3, <4>2
      <4> HIDE DEF e
      <4>4. /\ ctrl.fposI <= k /\ k < ctrl.fposI + Len(ctrl'.ibuf)
            /\ k - ctrl.fposI + 1 = Len(ctrl.ibuf) + 1
        BY <2>2, <4>2
      <4>5. ctrl'.ibuf[k - ctrl'.fposI + 1] = e
        BY <3>2, <4>4 DEF e
      <4>6. ctrl'.idxPos[c] = k /\ ctrl'.idxT2[c] = f.ts
        BY <4>1
      <4> HIDE DEF k
      <4>7. Waiting(ctrl.idxPos[c], c, ctrl.idxT2[c])'
        BY <3>2, <4>3, <4>4, <4>5, <4>6 DEF Waiting
      <4> QED BY <4>7
    <3>4. CASE ~(f.kind = "I" /\ f.ch = c)
      <4>1. ctrl'.idxPos[c] = ctrl.idxPos[c] /\ ctrl'.idxT2[c] = ctrl.idxT2[c]
        BY <1>0, <2>2, <3>2, <3>4, WithKeys DEF Times
      <4> QED BY <2>3, <3>2, <4>1
    <3> QED BY <3>3, <3>4
  <2>5. CASE FlushData \/ FlushIndex
    BY <1>0, <2>3, <2>5, FlushKeys, FlushedData, FlushedIndex DEF SameKeys
  <2>6. CASE SameOpen
    BY <2>3, <2>6 DEF SameOpen
  <2>7. ~CloseIndex
    BY <1>2 DEF CloseIndex
  <2> QED BY <2>1, <2>4, <2>5, <2>6, <2>7, OpenedSteps
<1> QED BY <1>1, <1>2 DEF LastKeyed

-----------------------------------------------------------------------------
(* The rows.                                                               *)

\* Rows, on the disk and in memory, are rows.
LEMMA HeldRows ==
  ASSUME IInv
  PROVE  rdb \subseteq Rows /\ Held \subseteq Rows
<1>1. rdb \subseteq Rows /\ ctrl.rbuf \in Seq(Rows)
  BY DEF IInv, TypeOK, Ctrls
<1> QED BY <1>1, Places DEF Held

\* The clock does not go back.
LEMMA Onwards ==
  ASSUME IInv, Next
  PROVE  now \in Nat /\ now' \in Nat /\ now <= now'
<1>1. now \in Nat
  BY Basics
<1>2. now' \in {now, now + 1}
  BY DEF Next, RequestOpen, SearchResumable, SearchEmpty, SearchOldest, WriteHeaders,
     ResumeBasket, OpenError, MarkManager, MarkRecinfo, RequestWrite, AppendFrame,
     FlushData, FlushIndex, FlushRdb, FlushError, RequestExit, CloseIndex, CloseMgr,
     CloseRecinfo, Crash, SetRecycleMode, Tick, env
<1> QED BY <1>1, <1>2

\* The entries found are those of times gone by.
LEMMA KeyPast ==
  ASSUME SoFar, fdOpen, LastKeyed, NEW c \in Channels, ctrl.idxT2[c] # 0
  PROVE  ctrl.idxT2[c] \in 0 .. now
<1>0. /\ IInv /\ TimesFit /\ ctrl.bid \in Baskets /\ ctrl.idxPos[c] \in Nat
      /\ ctrl.idxT2[c] \in Nat /\ now \in Nat /\ ctrl.fposI \in Nat
      /\ idx[ctrl.bid].ents \in Seq(Entries) /\ ctrl.ibuf \in Seq(Entries)
      /\ flushed[ctrl.bid].ents \in Nat /\ flushed[ctrl.bid].ents <= Len(idx[ctrl.bid].ents)
  BY BeforeFacts, EntryTypes, Basics DEF SoFar, Ctrls, Times
<1> DEFINE pos == ctrl.idxPos[c]
           ents == idx[ctrl.bid].ents
<1>1. CASE Indexed(ctrl.bid, pos, c, ctrl.idxT2[c])
  <2>1. pos + 1 \in DOMAIN ents
    <3>1. pos < flushed[ctrl.bid].ents
      BY <1>1 DEF Indexed
    <3>2. Len(ents) \in Nat /\ DOMAIN ents = 1 .. Len(ents)
      BY <1>0, LenProperties
    <3> HIDE DEF ents
    <3> QED BY <1>0, <3>1, <3>2 DEF ents
  <2>2. ents[pos + 1].ts = ctrl.idxT2[c]
    BY <1>1 DEF Indexed
  <2>3. ents[pos + 1].ts <= now
    BY <1>0, <2>1 DEF TimesFit, UpTo
  <2> QED BY <1>0, <2>2, <2>3
<1>2. CASE Waiting(pos, c, ctrl.idxT2[c])
  <2>1. pos - ctrl.fposI + 1 \in DOMAIN ctrl.ibuf
    BY <1>0, <1>2 DEF Waiting
  <2>2. ctrl.ibuf[pos - ctrl.fposI + 1].ts = ctrl.idxT2[c]
    BY <1>2 DEF Waiting
  <2>3. ctrl.ibuf[pos - ctrl.fposI + 1].ts <= now
    BY <1>0, <2>1 DEF TimesFit, UpTo
  <2> QED BY <1>0, <2>2, <2>3
<1> QED BY <1>1, <1>2 DEF LastKeyed

\* Nothing waits in an empty buffer.
LEMMA NoneWaits ==
  ASSUME IInv, ctrl.ibuf = <<>> \/ ~fdOpen, NEW r \in Rows
  PROVE  ~RowWaits(r)
<1>1. ctrl.fposI \in Nat /\ r.pos \in Nat
  BY Basics DEF Rows
<1>2. ASSUME NEW t, Waiting(r.pos, r.ch, t)
      PROVE  FALSE
  <2>1. ctrl.fposI <= r.pos /\ r.pos < ctrl.fposI + 0 /\ ctrl.fposI + 0 = ctrl.fposI
    BY <1>1, <1>2, Places DEF Waiting
  <2>2. ctrl.fposI <= r.pos /\ r.pos < ctrl.fposI
    BY <2>1
  <2> QED BY <1>1, <2>2
<1> QED BY <1>2 DEF RowWaits

\* No row is of the basket that is begun anew: it was empty, or its rows have been
\* removed.
LEMMA BegunFresh ==
  ASSUME IInv, FreshFits, RowsLead, HeaderFresh, RowsPrompt, WriteHeaders,
         NEW r \in rdb \cup Held
  PROVE  r.bid # target.bid
<1>1. pc = "header" /\ target.bid \in Baskets
  BY DEF WriteHeaders, IInv, BasketsFit
<1>2. CASE r \in Held
  BY <1>1, <1>2 DEF RowsPrompt, Held
<1>3. CASE r \in rdb
  <2>1. CASE mgr[target.bid].flag # "empty"
    BY <1>1, <1>3, <2>1 DEF HeaderFresh
  <2>2. CASE mgr[target.bid].flag = "empty"
    <3>1. flushed[target.bid].ents = 0
      BY <1>1, <2>2 DEF FreshFits
    <3>2. r.pos < flushed[r.bid].ents /\ r.pos \in Nat
      BY <1>3, HeldRows DEF RowsLead, RowLeads, Indexed, Rows
    <3> QED BY <3>1, <3>2
  <2> QED BY <2>1, <2>2
<1> QED BY <1>2, <1>3

\* A row that leads to its key frame goes on to.
LEMMA LeadingStep ==
  ASSUME SoFar, Next, NEW r \in Rows, r.bid # 0, RowLeads(r),
         ~(WriteHeaders /\ target.bid = r.bid)
  PROVE  RowLeads(r)'
<1>1. r.bid \in Baskets /\ r.pos \in Nat /\ now \in Nat /\ now' \in Nat /\ now <= now'
  BY Onwards DEF SoFar, Rows, Baskets
<1>2. PICK t \in 0 .. now : Minute(t) = r.min /\ Indexed(r.bid, r.pos, r.ch, t)
  BY DEF RowLeads
<1>3. Indexed(r.bid, r.pos, r.ch, t)'
  BY <1>1, <1>2, IndexedStep
<1>4. t \in 0 .. now'
  BY <1>1
<1> QED BY <1>2, <1>3, <1>4 DEF RowLeads

\* One whose entry waits in memory waits on, or leads to it.
LEMMA WaitingRowStep ==
  ASSUME SoFar, Next, NoFailure', KeysStreamed, NEW r \in Rows, RowWaits(r)
  PROVE  RowLeads(r)' \/ RowWaits(r)'
<1>1. r.pos \in Nat /\ now \in Nat /\ now' \in Nat /\ now <= now'
  BY Onwards DEF SoFar, Rows
<1>2. PICK t \in 0 .. now :
        Minute(t) = r.min /\ r.bid = ctrl.bid /\ Waiting(r.pos, r.ch, t)
  BY DEF RowWaits
<1>3. /\ ctrl'.bid = ctrl.bid
      /\ Waiting(r.pos, r.ch, t)' \/ Indexed(ctrl.bid, r.pos, r.ch, t)'
  BY <1>1, <1>2, WaitingStep
<1>4. t \in 0 .. now'
  BY <1>1
<1>5. CASE Waiting(r.pos, r.ch, t)'
  BY <1>2, <1>3, <1>4, <1>5 DEF RowWaits
<1>6. CASE Indexed(ctrl.bid, r.pos, r.ch, t)'
  <2>1. Indexed(r.bid, r.pos, r.ch, t)'
    BY <1>2, <1>3, <1>6 DEF Indexed
  <2> QED BY <1>2, <1>4, <2>1 DEF RowLeads
<1> QED BY <1>3, <1>5, <1>6

\* Every row leads to a key frame of its minute.
LEMMA LeadStep ==
  ASSUME SoFar, Next, NoFailure', KeysStreamed, LastKeyed, LastKeyed', RowsNamed,
         RowsLead, HeaderFresh, FreshFits, RowsPrompt
  PROVE  RowsLead'
<1>0. /\ IInv /\ KeptInv /\ FramesInv /\ ctrl \in Ctrls /\ rdb \subseteq Rows
      /\ Held \subseteq Rows /\ BasketsFit
  BY BeforeFacts, HeldRows DEF SoFar, IInv
<1>1. ASSUME NEW r \in rdb \cup Held, r.bid # 0, RowLeads(r)
      PROVE  RowLeads(r)'
  <2>1. ~(WriteHeaders /\ target.bid = r.bid)
    BY <1>0, BegunFresh
  <2> QED BY <1>0, <1>1, <2>1, LeadingStep
<1>2. ASSUME NEW r \in Held, r.bid # 0
      PROVE  RowLeads(r)' \/ RowWaits(r)'
  BY <1>0, <1>1, <1>2, WaitingRowStep DEF RowsLead
<1>3. ASSUME NEW r \in rdb
      PROVE  RowLeads(r)'
  BY <1>1 DEF RowsLead, RowsNamed
<1>4. CASE ~\E f : Buffered(f)
  <2>1. Held' \subseteq Held /\ (rdb' \subseteq rdb \/ (pc = "rdb" /\ rdb' \subseteq rdb \cup Held))
    BY <1>0, <1>4, RowsStep
  <2>2. ASSUME pc = "rdb", NEW r \in Held
        PROVE  RowLeads(r)'
    <3>1. r.bid # 0
      BY <2>2 DEF RowsNamed
    <3>2. ctrl.ibuf = <<>> /\ r \in Rows
      BY <1>0, <2>2 DEF IInv, PositionsFit
    <3>3. RowLeads(r)
      BY <1>0, <3>1, <3>2, NoneWaits DEF RowsLead
    <3> QED BY <1>1, <3>1, <3>3
  <2> QED BY <1>2, <1>3, <2>1, <2>2 DEF RowsLead
<1>5. CASE \E f : Buffered(f)
  <2>1. PICK f : Buffered(f)
    BY <1>5
  <2>2. /\ rdb' = rdb /\ fdOpen' = fdOpen /\ now' = now /\ f \in Slots /\ f.ts = now
        /\ ctrl'.bid = ctrl.bid /\ ctrl' = With(ctrl, f) /\ now \in Nat
    BY <1>0, <2>1, EntryBuffered, Basics DEF Buffered
  <2>3. ASSUME NEW r \in Held', r.bid # 0, r \notin Held
        PROVE  RowLeads(r)' \/ RowWaits(r)'
    <3>1. /\ r = RowOf(ctrl, f) /\ ctrl'.idxT2[f.ch] # 0
          /\ Sec(ctrl'.idxT2[f.ch]) >= Sec(f.ts)
      BY <1>0, <2>1, <2>3, HeldBuffered
    <3>2. /\ r.ch = f.ch /\ r.min = Minute(now) /\ r.bid = ctrl'.bid
          /\ r.pos = ctrl'.idxPos[f.ch] /\ f.ch \in Channels
      BY <2>2, <3>1 DEF RowOf, Slots
    <3>3. fdOpen
      BY <1>0, <2>1, <2>2, <2>3, <3>2 DEF KeptInv, SessionFits, Buffered
    <3> DEFINE u == ctrl'.idxT2[f.ch]
    <3>4. u \in 0 .. now
      <4>1. CASE f.kind = "I"
        <5>1. ctrl'.idxT2 = [ctrl.idxT2 EXCEPT ![f.ch] = f.ts]
          BY <1>0, <2>2, <4>1, WithKeys
        <5>2. f.ch \in DOMAIN ctrl.idxT2
          BY <1>0, <3>2 DEF Ctrls, Times
        <5>3. u = now
          BY <2>2, <5>1, <5>2
        <5> QED BY <2>2, <5>3
      <4>2. CASE f.kind # "I"
        <5>1. ctrl'.idxT2 = ctrl.idxT2
          BY <1>0, <2>2, <4>2, WithKeys
        <5> QED BY <3>1, <3>2, <3>3, <5>1, KeyPast
      <4> QED BY <4>1, <4>2
    <3>5. PICK t \in 0 .. now : t = u
      BY <3>4
    <3>6. Minute(t) = r.min
      BY <2>2, <3>1, <3>2, <3>5, SameSecond
    <3>7. Indexed(ctrl.bid, ctrl.idxPos[f.ch], f.ch, ctrl.idxT2[f.ch])'
            \/ Waiting(ctrl.idxPos[f.ch], f.ch, ctrl.idxT2[f.ch])'
      BY <2>2, <3>1, <3>2, <3>3 DEF LastKeyed
    <3>8. Indexed(r.bid, r.pos, r.ch, t)' \/ Waiting(r.pos, r.ch, t)'
      BY <3>2, <3>5, <3>7 DEF Indexed, Waiting
    <3> QED BY <2>2, <3>2, <3>5, <3>6, <3>8 DEF RowLeads, RowWaits
  <2> QED BY <1>2, <1>3, <2>2, <2>3 DEF RowsLead
<1> QED BY <1>4, <1>5

-----------------------------------------------------------------------------
(* The days of a basket.                                                   *)

\* A step that sets no day and no last time.
BeginsEmpty == pc \in Marking \/ (pc = "append" /\ op = "roll")

\* A step that leaves the days and the last times.
LEMMA DaysFrame ==
  ASSUME IInv, Next, DaysFit, ctrl'.prevDay \in {ctrl.prevDay, 0},
         op' = "flush" => op = "flush" /\ cur' = cur /\ ctrl'.prevDay = ctrl.prevDay,
         BeginsEmpty' => ctrl'.bktT2 = NoTimes \/ (BeginsEmpty /\ ctrl'.bktT2 = ctrl.bktT2),
         Timed' => \/ ctrl'.bktT2 = NoTimes
                   \/ Timed /\ ctrl'.bktT2 = ctrl.bktT2 /\ ctrl'.prevDay = ctrl.prevDay
  PROVE  DaysFit'
<1>1. Day(now) <= Day(now') /\ Day(now) \in Nat /\ Day(now') \in Nat /\ ctrl.prevDay \in Nat
  BY Onwards, LaterDay, ClockType DEF IInv, TypeOK, Ctrls
<1>2. ctrl'.prevDay <= Day(now')
  BY <1>1 DEF DaysFit
<1>3. op' = "flush" => cur'.kind = "A" \/ ctrl'.prevDay = Day(cur'.ts)
  BY DEF DaysFit
<1>4. BeginsEmpty' => ctrl'.bktT2 = NoTimes
  BY DEF DaysFit, BeginsEmpty
<1>5. Timed' => \A c \in Channels : ctrl'.bktT2[c] # 0 => Day(ctrl'.bktT2[c]) = ctrl'.prevDay
  <2>1. \A c \in Channels : NoTimes[c] = 0
    BY DEF NoTimes
  <2> QED BY <2>1 DEF DaysFit
<1> QED BY <1>2, <1>3, <1>4, <1>5 DEF DaysFit, BeginsEmpty

\* A frame of now: it is of the day of the basket, or begins one.
LEMMA DaysBuffered ==
  ASSUME SoFar, DaysFit, NEW f, Buffered(f), OfDay(f) \/ ctrl.bktT2 = NoTimes
  PROVE  DaysFit'
<1>0. /\ ctrl \in Ctrls /\ f \in Slots /\ f.ts = now /\ ctrl' = With(ctrl, f) /\ now' = now
      /\ now \in Nat /\ Day(now) \in Nat /\ f.ch \in Channels /\ ctrl.bktT2 \in Times
  BY BeforeFacts, ClockType DEF Buffered, Slots, Ctrls
<1>1. pc' = "idle" /\ op' = "none" /\ fdOpen' = fdOpen
  BY DEF Buffered
<1>2. Timed' => Timed
  BY <1>1 DEF Timed
<1>3. CASE f.kind = "A"
  <2>1. ctrl'.prevDay = ctrl.prevDay /\ ctrl'.bktT2 = ctrl.bktT2
    BY <1>0, <1>3, WithKeys, WithFields
  <2> QED BY <1>0, <1>1, <1>2, <2>1 DEF DaysFit, Marking
<1>4. CASE f.kind # "A"
  <2>1. ctrl'.prevDay = Day(now) /\ ctrl'.bktT2 = [ctrl.bktT2 EXCEPT ![f.ch] = now]
    BY <1>0, <1>4, WithKeys, WithFields
  <2>2. ASSUME Timed', NEW c \in Channels, ctrl'.bktT2[c] # 0
        PROVE  Day(ctrl'.bktT2[c]) = ctrl'.prevDay
    <3>1. CASE c = f.ch
      BY <1>0, <2>1, <3>1 DEF Times
    <3>2. CASE c # f.ch
      <4>1. ctrl'.bktT2[c] = ctrl.bktT2[c]
        BY <1>0, <2>1, <3>2 DEF Times
      <4>2. ctrl.bktT2 # NoTimes
        BY <2>2, <4>1 DEF NoTimes
      <4> QED BY <1>0, <1>2, <1>4, <2>1, <2>2, <4>1, <4>2 DEF DaysFit, OfDay
    <3> QED BY <3>1, <3>2
  <2> QED BY <1>0, <1>1, <2>1, <2>2 DEF DaysFit, Marking
<1> QED BY <1>3, <1>4

\* The video of a basket stays that of one day.
LEMMA DaysStep ==
  ASSUME SoFar, Next, DaysFit
  PROVE  DaysFit'
<1>0. /\ IInv /\ KeptInv /\ FramesInv /\ ctrl \in Ctrls /\ BasketsFit /\ SessionFits
      /\ CallsFit /\ now \in Nat
  BY BeforeFacts DEF SoFar, IInv
<1>t. ASSUME pc' # "closeMgr", ~fdOpen'
      PROVE  ~Timed'
  BY <1>t DEF Timed
<1>1. CASE RequestOpen \/ Crash
  <2>1. /\ ctrl'.prevDay = 0 /\ ctrl'.bktT2 = NoTimes /\ op' \in {"open", "none"}
    BY <1>1 DEF RequestOpen, Crash, ZeroCtrl, Return
  <2> QED BY <1>0, <2>1, DaysFrame
<1>2. CASE SearchResumable \/ SearchEmpty \/ SearchOldest
  <2>1. /\ ~fdOpen /\ fdOpen' = fdOpen /\ op \in {"open", "roll"} /\ op' \in {op, "none"}
        /\ pc' \in {"resume", "header", "idle"}
    BY <1>0, <1>2 DEF SearchResumable, SearchEmpty, SearchOldest, BasketsFit, CallsFit,
       Opening, GiveUp, Return
  <2>2. ctrl'.prevDay = ctrl.prevDay
    <3>1. CASE SearchResumable
      BY <1>0, <3>1 DEF SearchResumable, Ctrls
    <3>2. CASE SearchEmpty \/ SearchOldest
      BY <1>0, <3>2, SearchKeys DEF SearchEmpty, SearchOldest
    <3> QED BY <1>2, <3>1, <3>2
  <2>3. ~BeginsEmpty' /\ op' # "flush"
    BY <2>1 DEF BeginsEmpty, Marking
  <2> QED BY <1>0, <1>t, <2>1, <2>2, <2>3, DaysFrame
<1>3. CASE WriteHeaders \/ ResumeBasket
  <2>1. PICK p \in Nat, k \in Nat : ctrl' = OpenedCtrl(target.bid, p, k)
    BY <1>0, <1>3, ResumedAt DEF WriteHeaders
  <2>2. /\ ctrl.bktT2 = NoTimes /\ op \in {"open", "roll"} /\ op' = op /\ now' = now
        /\ pc' = "markMgr"
    BY <1>0, <1>3 DEF WriteHeaders, ResumeBasket, SessionFits, CallsFit, Opening, Goto, env
  <2>3. ctrl'.bktT2 = NoTimes /\ ctrl'.prevDay \in {ctrl.prevDay, Day(now)}
    BY <1>0, <2>1, <2>2, OpenedFields, OpenedKeys
  <2>4. Day(now) \in Nat /\ \A c \in Channels : NoTimes[c] = 0
    BY <1>0, ClockType DEF NoTimes
  <2> QED BY <2>2, <2>3, <2>4 DEF DaysFit
<1>4. CASE OpenError \/ FlushError
  <2>1. /\ ctrl'.prevDay = ctrl.prevDay /\ ctrl'.bktT2 = ctrl.bktT2 /\ fdOpen' = fdOpen
        /\ op' = "none" /\ pc' = "idle"
    BY <1>0, <1>4 DEF OpenError, FlushError, GiveUp, Return, Ctrls
  <2>2. ~BeginsEmpty' /\ (Timed' => Timed)
    BY <2>1 DEF BeginsEmpty, Marking, Timed
  <2> QED BY <1>0, <2>1, <2>2, DaysFrame
<1>5. CASE MarkManager \/ MarkRecinfo
  <2>1. /\ ctrl' = ctrl /\ fdOpen' = fdOpen /\ pc \in Marking /\ op' \in {op, "none"}
        /\ op # "flush" /\ pc' # "closeMgr"
    BY <1>0, <1>5 DEF MarkManager, MarkRecinfo, Marking, CallsFit, Goto, Return
  <2>2. BeginsEmpty /\ (Timed' => Timed)
    BY <2>1 DEF BeginsEmpty, Timed
  <2> QED BY <1>0, <2>1, <2>2, DaysFrame
<1>6. CASE RequestWrite
  <2>1. PICK f \in Slots :
           /\ f.ts = now
           /\ \/ op' = "roll" /\ pc' = "data" /\ cur' = f /\ ctrl' = RollCtrl(f)
              \/ op' = "flush" /\ pc' = "data" /\ cur' = f /\ OfDay(f) /\ ctrl' = FlushCtrl(f)
              \/ Buffered(f) /\ OfDay(f)
    BY <1>0, <1>6, RequestedDays
  <2>2. fdOpen' = fdOpen /\ now' = now
    BY <1>6 DEF RequestWrite
  <2>3. CASE Buffered(f) /\ OfDay(f)
    BY <2>3, DaysBuffered
  <2>4. CASE op' = "roll" /\ pc' = "data" /\ ctrl' = RollCtrl(f)
    <3>1. ctrl'.prevDay = ctrl.prevDay /\ ctrl'.bktT2 = ctrl.bktT2
      BY <1>0, <2>4, RollKeys, RollFields DEF SameKeys
    <3>2. ~BeginsEmpty' /\ (Timed' => Timed)
      BY <2>2, <2>4 DEF BeginsEmpty, Marking, Timed
    <3> QED BY <1>0, <2>4, <3>1, <3>2, DaysFrame
  <2>5. CASE op' = "flush" /\ pc' = "data" /\ cur' = f /\ OfDay(f) /\ ctrl' = FlushCtrl(f)
    <3>1. ctrl'.prevDay = ctrl.prevDay /\ ctrl'.bktT2 = ctrl.bktT2
      BY <1>0, <2>5, RollKeys, RollFields DEF SameKeys
    <3>2. Timed' => Timed
      BY <2>2, <2>5 DEF Timed
    <3> QED BY <2>1, <2>2, <2>5, <3>1, <3>2 DEF DaysFit, OfDay, Marking
  <2> QED BY <2>1, <2>3, <2>4, <2>5
<1>7. CASE AppendFrame
  <2>1. Buffered(cur) /\ cur.ts = now
    BY <1>0, <1>7, AppendedNow DEF Buffered
  <2>2. OfDay(cur) \/ ctrl.bktT2 = NoTimes
    BY <1>0, <1>7 DEF AppendFrame, DaysFit, OfDay, CallsFit
  <2> QED BY <2>1, <2>2, DaysBuffered
<1>8. CASE FlushData \/ FlushIndex \/ FlushRdb
  <2>1. ctrl'.prevDay = ctrl.prevDay
    BY <1>0, <1>8, FlushKeys, FlushRows DEF SameKeys
  <2>2. ctrl'.bktT2 = ctrl.bktT2
    BY <1>0, <1>8, DataWritten, IndexWritten, RowsFields
  <2>3. /\ fdOpen' = fdOpen /\ op' = op /\ cur' = cur
        /\ pc' \in {"index", "rdb", "append", "closeIndex"}
        /\ pc' = "append" => op = "flush"
    BY <1>8 DEF FlushData, FlushIndex, FlushRdb, AfterFlush, Goto
  <2>4. ~BeginsEmpty' /\ (Timed' => Timed)
    BY <2>3 DEF BeginsEmpty, Marking, Timed
  <2> QED BY <1>0, <2>1, <2>2, <2>3, <2>4, DaysFrame
<1>9. CASE RequestExit
  <2>1. ctrl' = ctrl /\ fdOpen' = fdOpen /\ op' = "exit" /\ pc' = "data"
    BY <1>9 DEF RequestExit
  <2>2. ~BeginsEmpty' /\ (Timed' => Timed)
    BY <2>1 DEF BeginsEmpty, Marking, Timed
  <2> QED BY <1>0, <2>1, <2>2, DaysFrame
<1>10. CASE CloseIndex
  <2>1. /\ ctrl' = ctrl /\ op' = op /\ op \in {"exit", "roll"} /\ pc' = "closeMgr"
        /\ (~fdOpen => ctrl.bid = 0) /\ ~fdOpen'
    BY <1>0, <1>10 DEF CloseIndex, Goto, CallsFit, SessionFits, Closing
  <2>2. ~BeginsEmpty' /\ (Timed' => Timed)
    BY <2>1 DEF BeginsEmpty, Marking, Timed
  <2> QED BY <1>0, <2>1, <2>2, DaysFrame
<1>11. CASE CloseMgr \/ CloseRecinfo
  <2>1. /\ ~fdOpen /\ fdOpen' = fdOpen /\ op \in {"exit", "roll"} /\ op' \in {op, "none"}
        /\ pc' \in {"closeRecinfo", "idle", "search"}
    BY <1>0, <1>11 DEF CloseMgr, CloseRecinfo, Closed, Goto, Return, BasketsFit, CallsFit,
       Closing
  <2>2. ctrl'.prevDay \in {ctrl.prevDay, 0}
    BY <1>0, <1>11, ClosedKeys DEF CloseMgr, CloseRecinfo
  <2>3. ~BeginsEmpty' /\ ~Timed' /\ op' # "flush"
    BY <2>1, <1>t DEF BeginsEmpty, Marking
  <2> QED BY <1>0, <2>2, <2>3, DaysFrame
<1>12. CASE SetRecycleMode \/ Tick
  <2>1. ctrl' = ctrl /\ fdOpen' = fdOpen /\ op' = op /\ pc' = pc /\ cur' = cur
    BY <1>12 DEF SetRecycleMode, Tick, memory, call
  <2>2. (BeginsEmpty' => BeginsEmpty) /\ (Timed' => Timed)
    BY <2>1 DEF BeginsEmpty, Timed
  <2> QED BY <1>0, <2>1, <2>2, DaysFrame
<1> QED BY <1>1, <1>2, <1>3, <1>4, <1>5, <1>6, <1>7, <1>8, <1>9, <1>10, <1>11, <1>12 DEF Next

-----------------------------------------------------------------------------
(* The days of the rows.                                                   *)

\* Rows are of days gone by.
LEMMA RowPast ==
  ASSUME IInv, RowsLead, NEW r \in rdb \cup Held, r.bid # 0
  PROVE  /\ DayOfMinute(r.min) \in Nat /\ Day(now) \in Nat
         /\ DayOfMinute(r.min) <= Day(now)
<1>1. now \in Nat
  BY Basics
<1>2. PICK t \in 0 .. now : Minute(t) = r.min
  BY DEF RowsLead, RowLeads, RowWaits
<1>3. t \in Nat /\ t <= now
  BY <1>1, <1>2
<1>4. DayOfMinute(r.min) = Day(t) /\ Day(t) <= Day(now) /\ Day(t) \in Nat /\ Day(now) \in Nat
  BY <1>1, <1>2, <1>3, Calendar, LaterDay, ClockType
<1> QED BY <1>4

\* A step that leaves the day by which basket b is recycled.
LEMMA LastDaySame ==
  ASSUME NEW b, mgr'[b].t2 = mgr[b].t2,
         \/ ~Timed /\ ~Timed'
         \/ (Timed' <=> Timed) /\ ctrl'.bid = ctrl.bid /\ ctrl'.prevDay = ctrl.prevDay
  PROVE  LastDay(b)' = LastDay(b)
BY DEF LastDay

\* A new row is of the day of the basket.
LEMMA RowDaysBuffered ==
  ASSUME SoFar, RowsLead, RowDaysFit, NEW f, Buffered(f)
  PROVE  RowDaysFit'
<1>0. /\ IInv /\ ctrl \in Ctrls /\ BasketsFit /\ SessionFits /\ f \in Slots /\ f.ts = now
      /\ now' = now /\ ctrl' = With(ctrl, f) /\ mgr' = mgr /\ rdb' = rdb /\ now \in Nat
      /\ ctrl'.bid = ctrl.bid
  BY BeforeFacts, EntryBuffered DEF SoFar, IInv, Buffered
<1>1. (Timed' <=> Timed) /\ (Timed <=> fdOpen) /\ (~fdOpen => ctrl.bid = 0)
  BY <1>0 DEF Buffered, Timed, SessionFits
<1>2. ctrl'.prevDay = IF f.kind = "A" THEN ctrl.prevDay ELSE Day(now)
  BY <1>0, WithKeys
<1>3. ASSUME NEW r \in rdb \cup Held, r.bid # 0
      PROVE  DayOfMinute(r.min) <= LastDay(r.bid)'
  <2>1. DayOfMinute(r.min) <= LastDay(r.bid) /\ DayOfMinute(r.min) <= Day(now)
    BY <1>0, <1>3, RowPast DEF RowDaysFit
  <2> QED BY <1>0, <1>1, <1>2, <2>1 DEF LastDay
<1>4. ASSUME NEW r \in Held', r \notin Held, r.bid # 0
      PROVE  DayOfMinute(r.min) <= LastDay(r.bid)'
  <2>1. r = RowOf(ctrl, f) /\ f.kind # "A"
    BY <1>0, <1>4, HeldBuffered
  <2>2. r.min = Minute(now) /\ r.bid = ctrl.bid
    BY <1>0, <2>1 DEF RowOf
  <2>3. LastDay(r.bid)' = Day(now)
    BY <1>0, <1>1, <1>2, <1>4, <2>1, <2>2 DEF LastDay
  <2>4. DayOfMinute(r.min) = Day(now) /\ Day(now) \in Nat
    BY <1>0, <2>2, Calendar, ClockType
  <2> QED BY <2>3, <2>4
<1> QED BY <1>0, <1>3, <1>4 DEF RowDaysFit

\* A basket is closed with last times of its day, and no row of it is later.
LEMMA RowDaysClosed ==
  ASSUME SoFar, ClockFits, DaysFit, RowDaysFit, CloseMgr, ctrl.bid # 0,
         NEW r \in rdb \cup Held, r.bid # 0
  PROVE  DayOfMinute(r.min) <= LastDay(r.bid)'
<1>0. /\ IInv /\ ctrl \in Ctrls /\ now \in Nat /\ r.bid \in Baskets /\ ~fdOpen /\ Timed
      /\ pc = "closeMgr" /\ mgr \in [Baskets -> [flag : Flags, t2 : Times]]
      /\ ctrl.bktT2 \in Times /\ ctrl.prevDay \in Nat
  <2>1. IInv /\ ctrl \in Ctrls /\ now \in Nat /\ pc = "closeMgr"
    BY BeforeFacts DEF SoFar, CloseMgr
  <2>2. r \in Rows
    BY <2>1, HeldRows
  <2>3. ~fdOpen /\ mgr \in [Baskets -> [flag : Flags, t2 : Times]]
    BY <2>1 DEF IInv, TypeOK, BasketsFit
  <2> QED BY <2>1, <2>2, <2>3 DEF Timed, Rows, Baskets, Ctrls
<1>1. /\ mgr' = [mgr EXCEPT ![ctrl.bid] = [flag |-> ClosedFlag, t2 |-> ctrl.bktT2]]
      /\ pc' = "closeRecinfo" /\ fdOpen' = fdOpen
  BY DEF CloseMgr, Goto
<1>2. ~Timed'
  BY <1>0, <1>1 DEF Timed
<1>3. DayOfMinute(r.min) <= LastDay(r.bid)
  BY DEF RowDaysFit
<1>4. CASE r.bid # ctrl.bid
  <2>1. mgr'[r.bid] = mgr[r.bid]
    BY <1>0, <1>1, <1>4
  <2> QED BY <1>2, <1>3, <1>4, <2>1 DEF LastDay
<1>5. CASE r.bid = ctrl.bid
  <2>1. mgr'[r.bid].t2 = ctrl.bktT2
    BY <1>0, <1>1, <1>5
  <2>2. ctrl.prevDay <= DayOfSec(MaxTS)
    <3>1. Sec(now) \in Nat /\ MaxTS \in Nat
      <4>1. TicksPerSec \in Nat \ {0}
        BY ClockAssumption
      <4> QED BY <1>0, <4>1, DivMonotone DEF Sec, MaxTS
    <3>2. DayOfSec(Sec(now)) <= DayOfSec(MaxTS)
      BY <3>1, LaterDay DEF ClockFits
    <3>3. ctrl.prevDay <= Day(now) /\ DayOfSec(Sec(now)) = Day(now) /\ Day(now) \in Nat
      BY <1>0, Calendar, ClockType DEF DaysFit
    <3>4. DayOfSec(MaxTS) \in Nat
      <4>1. TicksPerDay \div TicksPerSec \in Nat \ {0}
        BY UnitsFit
      <4> QED BY <3>1, <4>1, DivMonotone DEF DayOfSec
    <3> QED BY <1>0, <3>2, <3>3, <3>4
  <2>3. ctrl.prevDay <= DayOfSec(MinTS(ctrl.bktT2))
    BY <1>0, <2>2, MinDay DEF DaysFit
  <2>4. DayOfMinute(r.min) <= ctrl.prevDay
    BY <1>0, <1>3, <1>5 DEF LastDay
  <2>5. DayOfSec(MinTS(ctrl.bktT2)) \in Nat
    <3>1. MinTS(ctrl.bktT2) \in Nat
      BY <1>0, MinTSOf
    <3>2. TicksPerDay \div TicksPerSec \in Nat \ {0}
      BY UnitsFit
    <3> QED BY <3>1, <3>2, DivMonotone DEF DayOfSec
  <2>6. DayOfMinute(r.min) \in Int
    <3>1. r.min \in Nat
      BY HeldRows, <1>0 DEF Rows
    <3>2. TicksPerDay \div TicksPerMin \in Nat \ {0}
      BY UnitsFit
    <3> QED BY <3>1, <3>2, DivMonotone DEF DayOfMinute
  <2>7. LastDay(r.bid)' = DayOfSec(MinTS(ctrl.bktT2))
    BY <1>2, <2>1 DEF LastDay
  <2> QED BY <1>0, <2>3, <2>4, <2>5, <2>6, <2>7
<1> QED BY <1>4, <1>5

\* When a basket is opened: begun anew it has no rows, and one that is gone on with
\* is taken to be of today.
LEMMA RowDaysOpened ==
  ASSUME SoFar, FreshFits, RowsLead, HeaderFresh, RowsPrompt, RowDaysFit,
         WriteHeaders \/ ResumeBasket, NEW r \in rdb \cup Held, r.bid # 0
  PROVE  DayOfMinute(r.min) <= LastDay(r.bid)'
<1>0. /\ IInv /\ ctrl \in Ctrls /\ now \in Nat /\ BasketsFit /\ CallsFit
      /\ target.bid \in Baskets /\ ~fdOpen /\ pc # "closeMgr"
  BY BeforeFacts DEF SoFar, IInv, BasketsFit, Opening, WriteHeaders, ResumeBasket
<1>1. mgr' = mgr /\ now' = now /\ ~Timed
  BY <1>0 DEF Timed, WriteHeaders, ResumeBasket, disk, env
<1>2. DayOfMinute(r.min) <= LastDay(r.bid)
  BY DEF RowDaysFit
<1>3. CASE WriteHeaders
  <2>1. ctrl'.bid = target.bid /\ r.bid # target.bid
    BY <1>0, <1>3, BegunAt, BegunFresh
  <2> QED BY <1>1, <1>2, <2>1 DEF LastDay
<1>4. CASE ResumeBasket
  <2>1. PICK k \in Nat, p \in Nat : ctrl' = OpenedCtrl(target.bid, p, k)
    BY <1>0, <1>4, ResumedAt
  <2>2. ctrl'.bid = target.bid
    BY ONLY <1>0, <2>1, OpenedKeys
  <2>3. ctrl'.prevDay = Day(now)
    BY <1>0, <1>4, <2>1, OpenedKeys DEF CallsFit, ResumeBasket
  <2>4. Timed'
    BY <1>4 DEF ResumeBasket, Timed
  <2>5. DayOfMinute(r.min) <= Day(now)
    BY <1>0, RowPast
  <2> QED BY <1>1, <1>2, <2>2, <2>3, <2>4, <2>5 DEF LastDay
<1> QED BY <1>3, <1>4

\* No row is of a later day than the one its basket is recycled by.
LEMMA RowDaysStep ==
  ASSUME SoFar, Next, NoFailure', DaysFit, ClockFits, RowsLead, RowDaysFit, HeaderFresh,
         FreshFits, RowsPrompt
  PROVE  RowDaysFit'
<1>0. /\ IInv /\ KeptInv /\ FramesInv /\ ctrl \in Ctrls /\ BasketsFit /\ SessionFits /\ CallsFit
      /\ mgr \in [Baskets -> [flag : Flags, t2 : Times]]
      /\ errors' = errors /\ errors \in Nat /\ crashes' = 0 /\ crashes = 0
  BY BeforeFacts, NoFailureBefore, Basics DEF SoFar, NoFailure, IInv, TypeOK
<1>1. CASE \E f : Buffered(f)
  BY <1>1, RowDaysBuffered
<1>2. CASE ~\E f : Buffered(f)
  <2>1. rdb' \cup Held' \subseteq rdb \cup Held
    BY <1>0, <1>2, RowsStep
  <2> SUFFICES ASSUME NEW r \in rdb \cup Held, r.bid # 0
               PROVE  DayOfMinute(r.min) <= LastDay(r.bid)'
    BY <2>1 DEF RowDaysFit
  <2>2. DayOfMinute(r.min) <= LastDay(r.bid)
    BY DEF RowDaysFit
  <2>3. SUFFICES ASSUME ~(WriteHeaders \/ ResumeBasket \/ (CloseMgr /\ ctrl.bid # 0))
                 PROVE  LastDay(r.bid)' = LastDay(r.bid)
    BY <2>2, RowDaysOpened, RowDaysClosed
  <2>b. r.bid \in Baskets
    BY <1>0, HeldRows DEF Rows, Baskets
  <2>4. mgr'[r.bid].t2 = mgr[r.bid].t2
    <3>1. CASE MarkManager
      BY <1>0, <2>b, <3>1 DEF MarkManager
    <3>2. CASE ~MarkManager
      BY <2>3, <3>2 DEF Next, RequestOpen, SearchResumable, SearchEmpty, SearchOldest,
         OpenError, MarkRecinfo, RequestWrite, AppendFrame, FlushData, FlushIndex, FlushRdb,
         FlushError, RequestExit, CloseIndex, CloseMgr, CloseRecinfo, Crash, SetRecycleMode,
         Tick, disk
    <3> QED BY <3>1, <3>2
  <2>5. CASE \/ RequestOpen \/ SearchResumable \/ SearchEmpty \/ SearchOldest \/ OpenError
             \/ CloseMgr \/ CloseRecinfo
    <3>1. ~fdOpen /\ fdOpen' = fdOpen
      BY <1>0, <2>5 DEF BasketsFit, Opening, RequestOpen, SearchResumable, SearchEmpty,
         SearchOldest, OpenError, CloseMgr, CloseRecinfo
    <3>2. pc = "closeMgr" => ctrl.bid = 0
      BY <2>3, <2>5 DEF RequestOpen, SearchResumable, SearchEmpty, SearchOldest, OpenError,
         CloseMgr, CloseRecinfo
    <3>3. pc' # "closeMgr"
      BY <2>3, <2>5 DEF RequestOpen, SearchResumable, SearchEmpty, SearchOldest, OpenError,
         CloseMgr, CloseRecinfo, Closed, GiveUp, Return, Goto
    <3>4. ~Timed /\ ~Timed'
      BY <3>1, <3>2, <3>3 DEF Timed
    <3> QED BY <2>4, <3>4, LastDaySame
  <2>6. CASE CloseIndex
    <3>1. /\ ctrl' = ctrl /\ pc' = "closeMgr" /\ ~fdOpen' /\ pc = "closeIndex"
          /\ (~fdOpen => ctrl.bid = 0) /\ (fdOpen => ctrl.bid # 0)
      BY <1>0, <2>6 DEF CloseIndex, Goto, CallsFit, SessionFits, BasketsFit, Closing, Baskets
    <3>2. Timed' <=> Timed
      BY <3>1 DEF Timed
    <3> QED BY <2>4, <3>1, <3>2, LastDaySame
  <2>7. CASE MarkManager \/ MarkRecinfo \/ RequestExit \/ SetRecycleMode \/ Tick
    <3>1. ctrl' = ctrl /\ fdOpen' = fdOpen
      BY <2>7 DEF MarkManager, MarkRecinfo, RequestExit, SetRecycleMode, Tick, memory
    <3>2. pc # "closeMgr" /\ pc' # "closeMgr"
      BY <2>7 DEF MarkManager, MarkRecinfo, RequestExit, SetRecycleMode, Tick, Goto, Return,
         call
    <3> QED BY <2>4, <3>1, <3>2, LastDaySame DEF Timed
  <2>8. CASE RequestWrite
    <3>1. PICK f \in Slots : ctrl' = RollCtrl(f) \/ ctrl' = FlushCtrl(f)
      BY <1>0, <1>2, <2>8, RequestedDays
    <3>2. ctrl'.bid = ctrl.bid /\ ctrl'.prevDay = ctrl.prevDay
      BY <1>0, <3>1, RollType, RollKeys DEF SameKeys
    <3>3. fdOpen' = fdOpen /\ pc = "idle" /\ pc' = "data"
      BY <1>0, <1>2, <2>8, RequestedDays DEF RequestWrite
    <3> QED BY <2>4, <3>2, <3>3, LastDaySame DEF Timed
  <2>9. CASE FlushData \/ FlushIndex \/ FlushRdb
    <3>1. ctrl'.prevDay = ctrl.prevDay
      BY <1>0, <2>9, FlushKeys, FlushRows DEF SameKeys
    <3>3. ctrl'.bid = ctrl.bid
      BY <1>0, <2>9, FlushedRows DEF FlushData, FlushIndex, Ctrls
    <3>2. fdOpen' = fdOpen /\ pc # "closeMgr" /\ pc' # "closeMgr"
      BY <2>9 DEF FlushData, FlushIndex, FlushRdb, AfterFlush, Goto
    <3> QED BY <2>4, <3>1, <3>2, <3>3, LastDaySame DEF Timed
  <2>10. CASE FlushError
    <3>1. fdOpen' = fdOpen /\ pc # "closeMgr" /\ pc' # "closeMgr"
      BY <2>10 DEF FlushError, HasData, GiveUp, Return
    <3>2. ctrl'.bid = ctrl.bid /\ ctrl'.prevDay = ctrl.prevDay
      BY <1>0, <2>10 DEF FlushError, Ctrls
    <3> QED BY <2>4, <3>1, <3>2, LastDaySame DEF Timed
  <2>11. ~Crash /\ ~AppendFrame
    BY <1>0, <1>2, AppendedNow DEF Crash
  <2> QED BY <2>3, <2>5, <2>6, <2>7, <2>8, <2>9, <2>10, <2>11 DEF Next
<1> QED BY <1>1, <1>2

-----------------------------------------------------------------------------
(* The basket that is begun anew, and the clock.                           *)

\* Its rows are gone from the day files: none is later than its last day.
LEMMA HeaderFreshStep ==
  ASSUME SoFar, Next, RowDaysFit, RowsNamed, HeaderFresh
  PROVE  HeaderFresh'
<1>0. /\ IInv /\ rdb \subseteq Rows /\ 0 \notin Baskets
      /\ mgr \in [Baskets -> [flag : Flags, t2 : Times]]
  BY HeldRows DEF SoFar, IInv, TypeOK, Baskets
<1>1. CASE SearchEmpty
  BY <1>1 DEF SearchEmpty, Empty, disk, HeaderFresh
<1>2. CASE SearchOldest
  <2>1. ~Timed /\ mgr' = mgr
    BY <1>0, <1>2 DEF SearchOldest, Timed, IInv, BasketsFit, Opening
  <2>2. CASE pc' # "header"
    BY <2>2 DEF HeaderFresh
  <2>3. CASE pc' = "header"
    <3>1. PICK b \in Oldest : rdb' = RemoveRDB(rdb, b, MinTS(mgr[b].t2)) /\ target'.bid = b
      BY <1>2, <2>3 DEF SearchOldest, GiveUp, Return
    <3>2. b \in Baskets
      BY OldestInside
    <3>3. DayOfSec(MinTS(mgr[b].t2)) \in Nat
      <4>1. MinTS(mgr[b].t2) \in Nat
        BY <1>0, <3>2, MinTSOf
      <4>2. TicksPerDay \div TicksPerSec \in Nat \ {0}
        BY UnitsFit
      <4> QED BY <4>1, <4>2, DivMonotone DEF DayOfSec
    <3>4. ASSUME NEW r \in rdb', r.bid = b
          PROVE  FALSE
      <4>1. r \in rdb /\ DayOfMinute(r.min) > DayOfSec(MinTS(mgr[b].t2))
        BY <3>1, <3>4 DEF RemoveRDB
      <4>2. DayOfMinute(r.min) <= DayOfSec(MinTS(mgr[b].t2))
        BY <2>1, <3>2, <3>4, <4>1, <1>0 DEF RowDaysFit, LastDay
      <4>3. DayOfMinute(r.min) \in Nat
        <5>1. r.min \in Nat
          BY <1>0, <4>1 DEF Rows
        <5>2. TicksPerDay \div TicksPerMin \in Nat \ {0}
          BY UnitsFit
        <5> QED BY <5>1, <5>2, DivMonotone DEF DayOfMinute
      <4> QED BY <3>3, <4>1, <4>2, <4>3
    <3> QED BY <3>1, <3>4 DEF HeaderFresh
  <2> QED BY <2>2, <2>3
<1>3. CASE ~SearchEmpty /\ ~SearchOldest
  <2>1. pc' # "header"
    BY <1>3 DEF Next, RequestOpen, SearchResumable, WriteHeaders, ResumeBasket, OpenError,
       MarkManager, MarkRecinfo, RequestWrite, AppendFrame, FlushData, FlushIndex,
       FlushRdb, AfterFlush, FlushError, RequestExit, CloseIndex, CloseMgr, CloseRecinfo,
       Closed, Crash, SetRecycleMode, Tick, GiveUp, Return, Goto, call
  <2> QED BY <2>1 DEF HeaderFresh
<1> QED BY <1>1, <1>2, <1>3

\* What is assumed of the clock: its seconds are a 32-bit number.
ClockBounded == Sec(FirstTick) <= MaxTS /\ Sec(LastTick) <= MaxTS

\* The clock stops at LastTick.
LEMMA ClockStep ==
  ASSUME IInv, Next, ClockBounded, ClockFits
  PROVE  ClockFits'
<1>1. now \in Nat /\ now' \in Nat /\ now <= now' /\ LastTick \in Nat
  BY Onwards, RecorderAssumption
<1>2. CASE now' = now
  BY <1>2 DEF ClockFits
<1>3. CASE now' # now
  <2>1. now < LastTick /\ now' = now + 1
    BY <1>3 DEF Next, RequestOpen, SearchResumable, SearchEmpty, SearchOldest, WriteHeaders,
       ResumeBasket, OpenError, MarkManager, MarkRecinfo, RequestWrite, AppendFrame,
       FlushData, FlushIndex, FlushRdb, FlushError, RequestExit, CloseIndex, CloseMgr,
       CloseRecinfo, Crash, SetRecycleMode, Tick, env
  <2>2. Sec(now') <= Sec(LastTick) /\ Sec(now') \in Nat /\ Sec(LastTick) \in Nat
    <3>1. TicksPerSec \in Nat \ {0}
      BY ClockAssumption
    <3> QED BY <1>1, <2>1, <3>1, DivMonotone DEF Sec
  <2> QED BY <2>2 DEF ClockFits, ClockBounded, MaxTS
<1> QED BY <1>2, <1>3

-----------------------------------------------------------------------------
(* The theorems.                                                           *)

\* A formatted disk has no rows, and nothing is in memory.
LEMMA SearchBegins ==
  ASSUME Init, ClockBounded
  PROVE  RowsNamed /\ SearchInv
<1>1. /\ rdb = {} /\ ctrl = ZeroCtrl /\ ~fdOpen /\ pc = "idle" /\ op = "none"
      /\ now = FirstTick
  BY DEF Init
<1>2. ctrl.rbuf = <<>> /\ ctrl.idxT2 = NoTimes /\ ctrl.bktT2 = NoTimes /\ ctrl.prevDay = 0
  BY <1>1 DEF ZeroCtrl
<1>3. Held = {}
  BY <1>2, Places DEF Held
<1>4. Day(now) \in Nat
  BY <1>1, RecorderAssumption, ClockType
<1>5. DaysFit
  BY <1>1, <1>2, <1>4 DEF DaysFit, Marking, Timed
<1>6. LastKeyed /\ KeysStreamed /\ HeaderFresh
  BY <1>1 DEF LastKeyed, KeysStreamed, HeaderFresh, Opening
<1>7. RowsNamed /\ RowsLead /\ RowDaysFit
  BY <1>1, <1>3 DEF RowsNamed, RowsLead, RowDaysFit
<1>8. ClockFits
  BY <1>1 DEF ClockFits, ClockBounded
<1> QED BY <1>5, <1>6, <1>7, <1>8 DEF SearchInv

\* A stutter changes none of it.
LEMMA SearchStutters ==
  ASSUME UNCHANGED vars
  PROVE  (RowsNamed => RowsNamed') /\ (SearchInv => SearchInv')
<1>1. UNCHANGED <<mgr, bkt, idx, rdb, ctrl, fdOpen, op, pc, cur, target, flushed, now>>
  BY DEF vars
<1>2. RowsNamed' = RowsNamed
  BY <1>1 DEF RowsNamed, Held
<1>3. RowsLead' = RowsLead
  BY <1>1 DEF RowsLead, RowLeads, RowWaits, Held, Indexed, Waiting
<1>4. LastKeyed' = LastKeyed
  BY <1>1 DEF LastKeyed, Indexed, Waiting
<1>5. KeysStreamed' = KeysStreamed
  BY <1>1 DEF KeysStreamed, Streamed
<1>6. DaysFit' = DaysFit
  BY <1>1 DEF DaysFit, Timed
<1>7. RowDaysFit' = RowDaysFit
  BY <1>1 DEF RowDaysFit, LastDay, Held, Timed
<1>8. HeaderFresh' = HeaderFresh /\ ClockFits' = ClockFits
  BY <1>1 DEF HeaderFresh, ClockFits
<1> QED BY <1>2, <1>3, <1>4, <1>5, <1>6, <1>7, <1>8 DEF SearchInv

\* Every step keeps it, while nothing fails and no row waits too long.
LEMMA SearchStep ==
  ASSUME SoFar, Next, NoFailure', SearchInv, RowsNamed, FreshFits, RowsPrompt, ClockBounded
  PROVE  SearchInv'
<1>1. KeysStreamed'
  BY KeysStep DEF SearchInv
<1>2. LastKeyed'
  BY LastKeyedStep DEF SearchInv
<1>3. RowsLead'
  BY <1>2, LeadStep DEF SearchInv
<1>4. DaysFit'
  BY DaysStep DEF SearchInv
<1>5. RowDaysFit'
  BY RowDaysStep DEF SearchInv
<1>6. HeaderFresh'
  BY HeaderFreshStep DEF SearchInv
<1>7. ClockFits'
  BY ClockStep DEF SearchInv, SoFar
<1> QED BY <1>1, <1>2, <1>3, <1>4, <1>5, <1>6, <1>7 DEF SearchInv

\* Every row of the day files names a basket, whatever fails: a row that is made
\* while no basket is open is dropped with the flush that fails.
THEOREM RowsAlwaysNamed == Spec => []RowsNamed
<1>1. Init => RowsNamed
  <2> SUFFICES ASSUME Init
               PROVE  RowsNamed
    OBVIOUS
  <2>1. rdb = {} /\ ctrl.rbuf = <<>>
    BY DEF Init, ZeroCtrl
  <2> QED BY <2>1, Places DEF RowsNamed, Held
<1>2. IInv /\ KeptInv /\ FramesInv /\ RowsNamed /\ [Next]_vars => RowsNamed'
  BY NamedStep, SearchStutters
<1> QED BY <1>1, <1>2, Invariance, KeptInvariance, FramesInvariance, PTL DEF Spec

\* The invariant, for any number of baskets, channels and frames.
LEMMA SearchInvariance ==
  ASSUME ClockBounded
  PROVE  Spec /\ []RowsPrompt => [](NoFailure => SearchInv)
<1>1. Init => (NoFailure => SearchInv)
  BY SearchBegins
<1>2. IInv /\ KeptInv /\ FramesInv /\ FreshFits /\ RowsNamed /\ RowsPrompt
        /\ (NoFailure => SearchInv) /\ [Next]_vars => (NoFailure => SearchInv)'
  <2> SUFFICES ASSUME IInv, KeptInv, FramesInv, FreshFits, RowsNamed, RowsPrompt,
                      NoFailure => SearchInv, [Next]_vars, NoFailure'
               PROVE  SearchInv'
    OBVIOUS
  <2>1. CASE Next
    <3>1. NoFailure
      BY <2>1, NoFailureBefore
    <3> QED BY <2>1, <3>1, SearchStep DEF SoFar
  <2>2. CASE UNCHANGED vars
    <3>1. NoFailure
      BY <2>2 DEF vars, NoFailure
    <3> QED BY <2>2, <3>1, SearchStutters
  <2> QED BY <2>1, <2>2
<1> QED BY <1>1, <1>2, Invariance, KeptInvariance, FramesInvariance, FreshInvariance,
           RowsAlwaysNamed, PTL DEF Spec

\* A search by minute never lands elsewhere: as long as the power stays, no call
\* fails and no row waits in memory until its basket is begun anew, every row of
\* the day files leads, through the index, to a key frame of its channel recorded
\* in its minute.
THEOREM SearchAlwaysSound ==
  ASSUME ClockBounded
  PROVE  Spec /\ []RowsPrompt => [](NoFailure => SearchSound)
<1>1. IInv /\ KeptInv /\ FramesInv /\ RowsNamed /\ (NoFailure => SearchInv)
        => (NoFailure => SearchSound)
  <2> SUFFICES ASSUME IInv, KeptInv, FramesInv, RowsNamed, NoFailure, SearchInv, NEW r \in rdb
               PROVE  /\ r.bid # 0
                      /\ r.pos < Len(idx[r.bid].ents)
                      /\ LET e == idx[r.bid].ents[r.pos + 1] IN
                           /\ e.ch = r.ch /\ Minute(e.ts) = r.min
                           /\ Finds(bkt[r.bid], e)
    BY DEF SearchSound
  <2>1. r.bid # 0 /\ r \in Rows
    BY HeldRows DEF RowsNamed
  <2>2. r.bid \in Baskets /\ r.pos \in Nat
    BY <2>1 DEF Rows, Baskets
  <2>3. PICK t \in 0 .. now : Minute(t) = r.min /\ Indexed(r.bid, r.pos, r.ch, t)
    BY DEF SearchInv, RowsLead, RowLeads
  <2>4. /\ flushed[r.bid].ents \in Nat /\ flushed[r.bid].ents <= Len(idx[r.bid].ents)
        /\ flushed[r.bid].slots \in Nat /\ flushed[r.bid].slots <= Len(bkt[r.bid])
        /\ Len(idx[r.bid].ents) \in Nat /\ Len(bkt[r.bid]) \in Nat
    <3>1. /\ \A b \in Baskets : flushed[b].ents <= Len(idx[b].ents)
          /\ \A b \in Baskets : flushed[b].slots <= Len(bkt[b])
      BY BeforeFacts DEF SoFar, SlotsInside
    <3>2. flushed[r.bid].ents \in Nat /\ flushed[r.bid].slots \in Nat
      BY <2>2, Basics
    <3>3. Len(idx[r.bid].ents) \in Nat /\ Len(bkt[r.bid]) \in Nat
      BY <2>2, Basics, LenProperties
    <3> QED BY <2>2, <3>1, <3>2, <3>3
  <2>5. r.pos < Len(idx[r.bid].ents)
    BY <2>2, <2>3, <2>4 DEF Indexed
  <2> DEFINE e == idx[r.bid].ents[r.pos + 1]
  <2>6. e.fpos \in Nat
    <3>1. idx[r.bid].ents \in Seq(Entries)
      BY <2>2, Basics
    <3>2. r.pos + 1 \in 1 .. Len(idx[r.bid].ents)
      BY ONLY <2>2, <2>4, <2>5
    <3>3. idx[r.bid].ents[r.pos + 1] \in Entries
      BY ONLY <3>1, <3>2, ElementOfSeq
    <3> QED BY <3>3 DEF Entries
  <2>7. /\ e.ch = r.ch /\ e.ts = t /\ e.fpos < flushed[r.bid].slots
        /\ bkt[r.bid][e.fpos + 1] = Frame(r.ch, t, "I")
    BY ONLY <2>3 DEF Indexed
  <2> HIDE DEF e
  <2>8. e.fpos < Len(bkt[r.bid]) /\ bkt[r.bid][e.fpos + 1] = Frame(e.ch, e.ts, "I")
    BY ONLY <2>4, <2>6, <2>7
  <2> QED BY <2>1, <2>3, <2>5, <2>7, <2>8 DEF Finds, e
<1> QED BY <1>1, Invariance, KeptInvariance, FramesInvariance, RowsAlwaysNamed,
           SearchInvariance, PTL
-----------------------------------------------------------------------------
(* The search for the basket to recycle (BKTREC_searchOldestBasket).       *)

\* No last time of one basket is later than one of another.
Sooner(s, t) == \A c, d \in Channels : s[c] # 0 /\ t[d] # 0 => s[c] <= t[d]

\* Baskets are recorded one after the other, and the open one is the last.
AgesOrdered ==
  /\ \A a, b \in Baskets :
       a # b => Sooner(mgr[a].t2, mgr[b].t2) \/ Sooner(mgr[b].t2, mgr[a].t2)
  /\ Timed => \A b \in Baskets \ {ctrl.bid} : Sooner(mgr[b].t2, ctrl.bktT2)

\* A last time is one the clock has shown.
Stamped(t2) == \A c \in Channels : t2[c] # 0 => t2[c] <= now /\ Sec(t2[c]) # 0
AgesStamped == /\ FirstTick <= now /\ Stamped(ctrl.bktT2)
               /\ \A b \in Baskets : Stamped(mgr[b].t2)

\* What a step does to the last times of the open basket.
LEMMA OpenAges ==
  ASSUME IInv, KeptInv, Next
  PROVE  \/ ctrl'.bktT2 = NoTimes
         \/ /\ Timed' => Timed /\ ctrl'.bid = ctrl.bid
            /\ \/ ctrl'.bktT2 = ctrl.bktT2
               \/ \E c \in Channels : ctrl'.bktT2 = [ctrl.bktT2 EXCEPT ![c] = now]
<1>0. /\ TimesFit /\ SessionFits /\ CallsFit /\ BasketsFit /\ ctrl \in Ctrls
      /\ now \in Nat
  BY Basics DEF KeptInv, IInv
<1> DEFINE Goal == \/ ctrl'.bktT2 = NoTimes
                   \/ /\ Timed' => Timed /\ ctrl'.bid = ctrl.bid
                      /\ \/ ctrl'.bktT2 = ctrl.bktT2
                         \/ \E c \in Channels : ctrl'.bktT2 = [ctrl.bktT2 EXCEPT ![c] = now]
<1> SUFFICES Goal
  OBVIOUS
<1>f. ASSUME ctrl'.bid = ctrl.bid, ctrl'.bktT2 = ctrl.bktT2, fdOpen' = fdOpen, pc' # "closeMgr"
      PROVE  Goal
  BY <1>f DEF Timed
<1>w. ASSUME NEW f \in Slots, f.ts = now, ctrl' = With(ctrl, f), fdOpen' = fdOpen,
             pc' # "closeMgr"
      PROVE  Goal
  <2>1. ctrl'.bid = ctrl.bid
    BY <1>0, <1>w, WithType
  <2>2. ctrl'.bktT2 = IF f.kind = "A" THEN ctrl.bktT2 ELSE [ctrl.bktT2 EXCEPT ![f.ch] = now]
    BY <1>0, <1>w, WithFields
  <2>3. f.ch \in Channels
    BY DEF Slots
  <2>4. Timed' => Timed
    BY <1>w DEF Timed
  <2> QED BY <2>1, <2>2, <2>3, <2>4
<1> HIDE DEF Goal
<1>1. CASE RequestOpen \/ Crash
  <2>1. ctrl' = ZeroCtrl
    BY <1>1 DEF RequestOpen, Crash
  <2> QED BY <2>1 DEF ZeroCtrl, Goal
<1>2. CASE SearchResumable
  <2>1. ctrl'.bktT2 = ctrl.bktT2 /\ pc = "search"
    BY <1>0, <1>2 DEF SearchResumable, Ctrls
  <2> QED BY <1>0, <2>1 DEF SessionFits, Opening, Goal
<1>3. CASE SearchEmpty \/ SearchOldest
  <2>1. PICK b \in Baskets : ctrl' = SearchCtrl(b)
    BY <1>3, OldestInside DEF SearchEmpty, SearchOldest, Empty
  <2>2. ctrl.bktT2 = NoTimes
    BY <1>0, <1>3 DEF SearchEmpty, SearchOldest, SessionFits, Opening
  <2> QED BY <1>0, <2>1, <2>2, SearchFields DEF Goal
<1>4. CASE WriteHeaders \/ ResumeBasket
  <2>1. ctrl'.bktT2 = ctrl.bktT2
    BY <1>0, <1>4, OpenedFields DEF WriteHeaders, ResumeBasket
  <2>2. ctrl.bktT2 = NoTimes
    BY <1>0, <1>4 DEF WriteHeaders, ResumeBasket, SessionFits, Opening
  <2> QED BY <2>1, <2>2 DEF Goal
<1>5. CASE OpenError \/ MarkManager \/ MarkRecinfo \/ RequestExit \/ SetRecycleMode \/ Tick
  <2>1. UNCHANGED <<ctrl, fdOpen>>
    BY <1>5 DEF OpenError, MarkManager, MarkRecinfo, RequestExit, SetRecycleMode, Tick, memory
  <2>2. pc' # "closeMgr"
    BY <1>5 DEF OpenError, MarkManager, MarkRecinfo, RequestExit, SetRecycleMode, Tick,
                GiveUp, Goto, Return, call
  <2> QED BY <2>1, <2>2, <1>f
<1>6. CASE RequestWrite
  <2>1. PICK f \in Slots : f.ts = now /\ f.kind \in {"I", "P", "A"} /\ Wrote(f)
    BY <1>6, RequestedNow
  <2>2. fdOpen' = fdOpen /\ pc' # "closeMgr"
    BY <1>6, <2>1 DEF RequestWrite, Wrote
  <2>3. CASE ctrl' = With(ctrl, f)
    BY <2>1, <2>2, <2>3, <1>w
  <2>4. CASE ctrl' = FlushCtrl(f) \/ ctrl' = RollCtrl(f)
    BY <1>0, <2>2, <2>4, RollType, RollFields, <1>f
  <2> QED BY <2>1, <2>3, <2>4 DEF Wrote
<1>7. CASE AppendFrame
  <2>1. cur \in Slots /\ cur.ts = now
    BY <1>0, <1>7 DEF AppendFrame, CallsFit, TimesFit
  <2>2. ctrl' = With(ctrl, cur) /\ fdOpen' = fdOpen /\ pc' = "idle"
    BY <1>7 DEF AppendFrame, Return
  <2> QED BY <2>1, <2>2, <1>w
<1>8. CASE FlushData \/ FlushIndex \/ FlushRdb \/ FlushError
  <2>1. fdOpen' = fdOpen /\ pc' # "closeMgr"
    BY <1>8 DEF FlushData, FlushIndex, FlushRdb, FlushError, AfterFlush, Goto, GiveUp, Return
  <2>2. ctrl'.bid = ctrl.bid /\ ctrl'.bktT2 = ctrl.bktT2
    BY <1>0, <1>8 DEF FlushData, FlushIndex, FlushRdb, FlushError, Ctrls
  <2> QED BY <2>1, <2>2, <1>f
<1>9. CASE CloseIndex
  <2>1. ctrl' = ctrl /\ pc = "closeIndex"
    BY <1>9 DEF CloseIndex
  <2>2. ~fdOpen => ctrl.bid = 0
    BY <1>0, <1>9, <2>1 DEF SessionFits, CallsFit, Closing
  <2>3. Timed' => Timed
    BY <1>9, <2>1, <2>2 DEF Timed, CloseIndex
  <2> QED BY <2>1, <2>3 DEF Goal
<1>10. CASE CloseMgr
  <2>1. CASE Closed
    BY <1>0, <2>1, ClosedFields DEF Goal
  <2>2. CASE ctrl' = ctrl /\ pc' = "closeRecinfo"
    BY <1>10, <2>2, <1>f DEF CloseMgr
  <2> QED BY <1>10, <2>1, <2>2 DEF CloseMgr, Goto
<1>11. CASE CloseRecinfo
  BY <1>0, <1>11, ClosedFields DEF CloseRecinfo, Goal
<1> QED
  BY <1>1, <1>2, <1>3, <1>4, <1>5, <1>6, <1>7, <1>8, <1>9, <1>10, <1>11 DEF Next, Goal

\* ... and to those in the manager file.
LEMMA ManagerAges ==
  ASSUME IInv, KeptInv, Next
  PROVE  \/ \A b \in Baskets : mgr'[b].t2 = mgr[b].t2
         \/ /\ Timed /\ ~Timed' /\ ctrl.bid \in Baskets
            /\ mgr'[ctrl.bid].t2 = ctrl.bktT2
            /\ \A b \in Baskets \ {ctrl.bid} : mgr'[b].t2 = mgr[b].t2
<1>0. /\ CallsFit /\ BasketsFit /\ ctrl \in Ctrls
      /\ mgr \in [Baskets -> [flag : Flags, t2 : Times]]
  BY Basics DEF IInv, TypeOK
<1>1. CASE mgr' = mgr
  BY <1>1
<1>2. CASE MarkManager
  <2>1. mgr' = [mgr EXCEPT ![ctrl.bid].flag = "using"] /\ ctrl.bid \in Baskets
    BY <1>0, <1>2 DEF MarkManager, BasketsFit, Marking
  <2> QED BY <1>0, <2>1
<1>3. CASE CloseMgr /\ mgr' # mgr
  <2>1. /\ pc = "closeMgr" /\ ctrl.bid # 0 /\ pc' = "closeRecinfo" /\ fdOpen' = fdOpen
        /\ mgr' = [mgr EXCEPT ![ctrl.bid] = [flag |-> ClosedFlag, t2 |-> ctrl.bktT2]]
    BY <1>3 DEF CloseMgr, Goto
  <2>2. ctrl.bid \in Baskets /\ ~fdOpen
    BY <1>0, <2>1 DEF Ctrls, Baskets, BasketsFit
  <2> QED BY <1>0, <2>1, <2>2 DEF Timed
<1> QED
  BY <1>1, <1>2, <1>3 DEF Next, RequestOpen, SearchResumable, SearchEmpty, SearchOldest,
     WriteHeaders, ResumeBasket, OpenError, MarkRecinfo, RequestWrite, AppendFrame,
     FlushData, FlushIndex, FlushRdb, FlushError, RequestExit, CloseIndex, CloseRecinfo,
     Crash, SetRecycleMode, Tick, disk

\* The clock stamps the frames, and never goes back.
LEMMA StampedStep ==
  ASSUME IInv, KeptInv, Next, AgesStamped
  PROVE  AgesStamped'
<1>1. now \in Nat /\ now' \in Nat /\ now <= now' /\ FirstTick \in Nat /\ FirstTick <= now
  BY Onwards, RecorderAssumption DEF AgesStamped
<1>2. Sec(now) # 0
  <2>1. Sec(FirstTick) >= 1 /\ TicksPerSec \in Nat \ {0}
    BY RecorderAssumption, ClockAssumption
  <2>2. Sec(FirstTick) \in Nat /\ Sec(now) \in Nat /\ Sec(FirstTick) <= Sec(now)
    BY <1>1, <2>1, DivMonotone DEF Sec
  <2> QED BY <2>1, <2>2
<1>3. /\ ctrl.bktT2 \in Times /\ \A b \in Baskets : mgr[b].t2 \in Times
      /\ Stamped(ctrl.bktT2) /\ \A b \in Baskets : Stamped(mgr[b].t2)
  BY Basics DEF AgesStamped, IInv, TypeOK, Ctrls
<1>4. ASSUME NEW c \in Channels, ctrl'.bktT2[c] # 0
      PROVE  ctrl'.bktT2[c] <= now' /\ Sec(ctrl'.bktT2[c]) # 0
  <2>1. CASE ctrl'.bktT2 = NoTimes
    BY <1>4, <2>1 DEF NoTimes
  <2>2. CASE ctrl'.bktT2[c] = ctrl.bktT2[c]
    BY <1>1, <1>3, <1>4, <2>2 DEF Stamped, Times
  <2>3. CASE ctrl'.bktT2[c] = now
    BY <1>1, <1>2, <2>3
  <2> QED BY <1>3, <2>1, <2>2, <2>3, OpenAges DEF Times
<1>5. ASSUME NEW b \in Baskets, NEW c \in Channels, mgr'[b].t2[c] # 0
      PROVE  mgr'[b].t2[c] <= now' /\ Sec(mgr'[b].t2[c]) # 0
  <2>1. mgr'[b].t2 = mgr[b].t2 \/ mgr'[b].t2 = ctrl.bktT2
    BY ManagerAges
  <2> QED BY <1>1, <1>3, <1>5, <2>1 DEF Stamped, Times
<1> QED BY <1>1, <1>4, <1>5 DEF AgesStamped, Stamped

\* A frame goes to the open basket only, which is the last.
LEMMA OrderedStep ==
  ASSUME IInv, KeptInv, Next, AgesStamped, AgesOrdered
  PROVE  AgesOrdered'
<1>1. ASSUME Timed', NEW b \in Baskets \ {ctrl'.bid}
      PROVE  Sooner(mgr'[b].t2, ctrl'.bktT2)
  <2>1. mgr'[b].t2 = mgr[b].t2
    BY <1>1, ManagerAges
  <2>2. CASE ctrl'.bktT2 = NoTimes
    BY <2>2 DEF Sooner, NoTimes
  <2>3. CASE Timed /\ ctrl'.bid = ctrl.bid /\ ctrl'.bktT2 = ctrl.bktT2
    BY <1>1, <2>1, <2>3 DEF AgesOrdered
  <2>4. CASE /\ Timed /\ ctrl'.bid = ctrl.bid
             /\ \E c \in Channels : ctrl'.bktT2 = [ctrl.bktT2 EXCEPT ![c] = now]
    <3>1. PICK c \in Channels : ctrl'.bktT2 = [ctrl.bktT2 EXCEPT ![c] = now]
      BY <2>4
    <3>2. \A d \in Channels : ctrl'.bktT2[d] = now \/ ctrl'.bktT2[d] = ctrl.bktT2[d]
      BY <3>1, Basics DEF Times
    <3>3. Sooner(mgr[b].t2, ctrl.bktT2) /\ Stamped(mgr[b].t2)
      BY <1>1, <2>4 DEF AgesOrdered, AgesStamped
    <3> QED BY <2>1, <3>2, <3>3 DEF Sooner, Stamped
  <2> QED BY <1>1, <2>2, <2>3, <2>4, OpenAges
<1>2. ASSUME NEW a \in Baskets, NEW b \in Baskets, a # b
      PROVE  Sooner(mgr'[a].t2, mgr'[b].t2) \/ Sooner(mgr'[b].t2, mgr'[a].t2)
  <2>1. CASE mgr'[a].t2 = mgr[a].t2 /\ mgr'[b].t2 = mgr[b].t2
    BY <1>2, <2>1 DEF AgesOrdered
  <2>2. CASE /\ Timed /\ ctrl.bid \in Baskets /\ mgr'[ctrl.bid].t2 = ctrl.bktT2
             /\ \A e \in Baskets \ {ctrl.bid} : mgr'[e].t2 = mgr[e].t2
    BY <1>2, <2>2 DEF AgesOrdered
  <2> QED BY <2>1, <2>2, ManagerAges
<1> QED BY <1>1, <1>2 DEF AgesOrdered, Sooner
\* Both from the start: a formatted disk has no times.
LEMMA AgesInvariance == Spec => [](AgesStamped /\ AgesOrdered)
<1>1. Init => AgesStamped /\ AgesOrdered
  <2> SUFFICES ASSUME Init
               PROVE  AgesStamped /\ AgesOrdered
    OBVIOUS
  <2>1. /\ ctrl.bktT2 = NoTimes /\ now = FirstTick /\ FirstTick \in Nat /\ ~fdOpen /\ pc = "idle"
        /\ \A b \in Baskets : mgr[b].t2 = NoTimes
    BY RecorderAssumption DEF Init, ZeroCtrl
  <2> QED BY <2>1 DEF AgesStamped, AgesOrdered, Stamped, Sooner, NoTimes, Timed
<1>2. IInv /\ KeptInv /\ AgesStamped /\ AgesOrdered /\ [Next]_vars
        => (AgesStamped /\ AgesOrdered)'
  <2> SUFFICES ASSUME IInv, KeptInv, AgesStamped, AgesOrdered, [Next]_vars
               PROVE  AgesStamped' /\ AgesOrdered'
    OBVIOUS
  <2>1. CASE Next
    BY <2>1, StampedStep, OrderedStep
  <2>2. CASE UNCHANGED vars
    BY <2>2 DEF vars, AgesStamped, AgesOrdered, Stamped, Sooner, Timed
  <2> QED BY <2>1, <2>2
<1> QED BY <1>1, <1>2, Invariance, KeptInvariance, PTL DEF Spec

\* As long as nothing fails and the recorder was never stopped, every channel with
\* a video frame in a basket has a last time there.
FirstRun == NoFailure /\ stops = 0
OpenNamed == Timed => \A c \in Channels, i \in 1 .. StreamEnd :
                        VideoOf(Streamed[i], c) => ctrl.bktT2[c] # 0
NamedIn(b) == \A c \in Channels : \A t \in VideoTimes(b, c) :
                mgr[b].t2[c] # 0 /\ t <= mgr[b].t2[c]
RestNamed == \A b \in Baskets : ~(Timed /\ b = ctrl.bid) => NamedIn(b)

\* A step that leaves the frames and the last times of the open basket.
LEMMA NamedFrame ==
  ASSUME OpenNamed, bkt' = bkt,
         Timed' => /\ Timed /\ ctrl'.bid = ctrl.bid /\ ctrl'.fposB = ctrl.fposB
                   /\ ctrl'.bbuf = ctrl.bbuf /\ ctrl'.bktT2 = ctrl.bktT2
  PROVE  OpenNamed'
<1> SUFFICES ASSUME Timed'
             PROVE  OpenNamed'
  BY DEF OpenNamed
<1>1. Streamed' = Streamed /\ StreamEnd' = StreamEnd
  BY DEF Streamed, StreamEnd
<1> QED BY <1>1 DEF OpenNamed

\* A slot at the end of the buffer: if it is video, it has set the last time.
LEMMA NamedAppend ==
  ASSUME IInv, OpenNamed, fdOpen, NEW f \in Slots, bkt' = bkt,
         ctrl'.bid = ctrl.bid, ctrl'.fposB = ctrl.fposB, ctrl'.bbuf = Append(ctrl.bbuf, f),
         \A c \in Channels : ctrl.bktT2[c] # 0 \/ VideoOf(f, c) => ctrl'.bktT2[c] # 0
  PROVE  OpenNamed'
<1> DEFINE b == ctrl.bid
           p == ctrl.fposB
           buf == ctrl.bbuf
           z == p + Len(buf)
<1>1. /\ buf \in Seq(Slots) /\ Len(buf) \in Nat /\ z \in Nat
      /\ bkt[b] \in Seq(Slots) /\ p \in 0 .. Len(bkt[b]) /\ p \in Nat
  BY EntryTypes, Basics
<1>2. Len(Append(buf, f)) = Len(buf) + 1
  BY <1>1, AppendSeq
<1>3. /\ StreamEnd = z /\ StreamEnd' = z + 1
      /\ Streamed = Stream(bkt[b], p, buf) /\ Streamed' = Stream(bkt[b], p, Append(buf, f))
  BY <1>1, <1>2 DEF StreamEnd, Streamed
<1>4. /\ \A i \in 1 .. z : Streamed'[i] = Streamed[i]
      /\ Streamed'[z + 1] = f
  <2> HIDE DEF b, p, buf
  <2>1. \A i \in 1 .. p + Len(buf) :
            Stream(bkt[b], p, Append(buf, f))[i] = Stream(bkt[b], p, buf)[i]
    BY ONLY <1>1, f \in Slots, StreamStays, Zenon
  <2>2. Stream(bkt[b], p, Append(buf, f))[p + Len(buf) + 1] = f
    BY ONLY <1>1, f \in Slots, StreamAdds, Zenon
  <2> QED BY ONLY <1>3, <2>1, <2>2, Zenon DEF z
<1>5. ASSUME NEW c \in Channels, NEW i \in 1 .. z + 1, VideoOf(Streamed'[i], c)
      PROVE  ctrl'.bktT2[c] # 0
  <2>1. CASE i \in 1 .. z
    BY <1>3, <1>4, <1>5, <2>1 DEF OpenNamed, Timed
  <2>2. CASE i = z + 1
    BY <1>4, <1>5, <2>2
  <2> QED BY <1>1, <2>1, <2>2
<1> QED BY <1>3, <1>5 DEF OpenNamed

\* The buffer that goes to the file.
LEMMA NamedFlushed ==
  ASSUME IInv, OpenNamed, fdOpen, FlushData
  PROVE  OpenNamed'
<1>1. /\ ctrl'.bid = ctrl.bid /\ ctrl'.bbuf = <<>> /\ ctrl'.bktT2 = ctrl.bktT2
      /\ ctrl'.fposB = ctrl.fposB + Len(ctrl.bbuf)
  BY FlushedData, DataWritten, Basics DEF FlushData
<1>2. CASE UNCHANGED <<bkt, ctrl, flushed>>
  BY <1>2, NamedFrame DEF Timed
<1>3. CASE ctrl.bbuf # <<>>
  <2> DEFINE b == ctrl.bid
             p == ctrl.fposB
             buf == ctrl.bbuf
             n == Len(buf)
  <2>1. /\ bkt[b] \in Seq(Slots) /\ buf \in Seq(Slots)
        /\ p \in 0 .. Len(bkt[b]) /\ p \in Nat /\ n \in Nat
    BY EntryTypes, Basics
  <2>2. PICK aligned \in BOOLEAN : bkt'[b] = Overwrite(bkt[b], p, buf, aligned)
    BY <1>3, DataWritten
  <2>3. /\ Streamed' = Stream(Overwrite(bkt[b], p, buf, aligned), p + n, <<>>)
        /\ Streamed = Stream(bkt[b], p, buf)
    BY <1>1, <2>2 DEF Streamed
  <2>4. \A i \in 1 .. p + n :
           Stream(Overwrite(bkt[b], p, buf, aligned), p + n, <<>>)[i] = Stream(bkt[b], p, buf)[i]
    BY ONLY <2>1, aligned \in BOOLEAN, FlushKeepsStream, Zenon DEF n
  <2>5. \A i \in 1 .. p + n : Streamed'[i] = Streamed[i]
    BY ONLY <2>3, <2>4
  <2>6. StreamEnd' = p + n /\ StreamEnd = p + n
    BY <1>1, <2>1, Places DEF StreamEnd
  <2> HIDE DEF p, n
  <2> QED BY <1>1, <2>5, <2>6 DEF OpenNamed, Timed
<1> QED BY <1>2, <1>3, DataWritten

\* A video frame sets the last time of its channel.
LEMMA OpenNamedStep ==
  ASSUME IInv, KeptInv, FramesInv, AgesStamped, FirstRun, FirstRun', OpenNamed, Next
  PROVE  OpenNamed'
<1>0. /\ TimesFit /\ SessionFits /\ UnderWay /\ ctrl \in Ctrls /\ CallsFit /\ BasketsFit
      /\ errors' = errors /\ errors \in Nat /\ crashes \in Nat /\ crashes' = crashes
      /\ pc # "resume" /\ now \in Nat
  BY Basics DEF FramesInv, FirstRun, NoFailure, KeptInv, FirstSession, IInv
<1>n. now # 0
  <2>1. FirstTick \in Nat /\ FirstTick # 0
    <3>1. FirstTick \in Nat /\ Sec(FirstTick) >= 1 /\ TicksPerSec \in Nat \ {0}
      BY RecorderAssumption, ClockAssumption
    <3>2. 0 \div TicksPerSec = 0
      BY <3>1
    <3> QED BY <3>1, <3>2 DEF Sec
  <2> QED BY <1>0, <2>1 DEF AgesStamped
<1>c. ASSUME ~fdOpen', pc' # "closeMgr"
      PROVE  OpenNamed'
  BY <1>c DEF OpenNamed, Timed
<1>f. ASSUME UNCHANGED <<bkt, fdOpen, ctrl>>, pc' # "closeMgr"
      PROVE  OpenNamed'
  BY <1>f, NamedFrame DEF Timed
<1>w. ASSUME NEW f \in Slots, f.ts = now, f.kind \in {"I", "P", "A"}, ctrl' = With(ctrl, f),
             UNCHANGED <<bkt, fdOpen>>, fdOpen
      PROVE  OpenNamed'
  <2>1. /\ ctrl'.bid = ctrl.bid /\ ctrl'.fposB = ctrl.fposB
        /\ ctrl'.bbuf = Append(ctrl.bbuf, f)
        /\ ctrl'.bktT2 = IF f.kind = "A" THEN ctrl.bktT2 ELSE [ctrl.bktT2 EXCEPT ![f.ch] = now]
        /\ ctrl.bktT2 \in [Channels -> Nat]
    BY <1>w, <1>0, Basics, WithType, WithFields DEF Times
  <2>2. \A c \in Channels : ctrl.bktT2[c] # 0 \/ VideoOf(f, c) => ctrl'.bktT2[c] # 0
    BY <1>n, <2>1 DEF VideoOf
  <2> QED BY <1>w, <2>1, <2>2, NamedAppend
<1>1. CASE RequestOpen \/ SearchResumable \/ SearchEmpty \/ SearchOldest \/ OpenError
  <2>1. ~fdOpen /\ fdOpen' = fdOpen
    BY <1>0, <1>1 DEF RequestOpen, SearchResumable, SearchEmpty, SearchOldest, OpenError,
                      BasketsFit, Opening
  <2>2. pc' # "closeMgr"
    BY <1>1 DEF RequestOpen, SearchResumable, SearchEmpty, SearchOldest, OpenError, GiveUp, Return
  <2> QED BY <2>1, <2>2, <1>c
<1>2. CASE WriteHeaders
  <2>1. ctrl'.fposB = 0 /\ ctrl'.bbuf = <<>>
    BY <1>2, BegunAt
  <2>2. StreamEnd' = 0
    BY <2>1, Places DEF StreamEnd
  <2> QED BY <2>2 DEF OpenNamed
<1>3. CASE ResumeBasket
  BY <1>0, <1>3 DEF ResumeBasket
<1>4. CASE MarkManager \/ MarkRecinfo
  BY <1>4, <1>f DEF MarkManager, MarkRecinfo, Goto, Return
<1>5. CASE RequestWrite
  <2>1. PICK f \in Slots : f.ts = now /\ f.kind \in {"I", "P", "A"} /\ Wrote(f)
    BY <1>5, RequestedNow
  <2>2. UNCHANGED <<bkt, fdOpen>> /\ pc = "idle"
    BY <1>5 DEF RequestWrite, disk
  <2>3. pc' # "closeMgr"
    BY <2>1, <2>2 DEF Wrote
  <2>4. CASE ~fdOpen
    BY <2>2, <2>3, <2>4, <1>c
  <2>5. CASE fdOpen /\ ctrl' = With(ctrl, f)
    BY <2>1, <2>2, <2>5, <1>w
  <2>6. CASE fdOpen /\ ctrl' = FlushCtrl(f)
    BY <1>0, <2>2, <2>3, <2>6, RollType, RollFields, NamedFrame DEF Timed
  <2>7. CASE fdOpen /\ ctrl' = RollCtrl(f)
    <3> DEFINE g == [f EXCEPT !.kind = "END"]
    <3>1. /\ ctrl'.bid = ctrl.bid /\ ctrl'.fposB = ctrl.fposB /\ ctrl'.bktT2 = ctrl.bktT2
          /\ ctrl'.bbuf = IF f.kind = "A" THEN ctrl.bbuf ELSE Append(ctrl.bbuf, g)
      BY <1>0, <2>7, RollType, RollFields
    <3>2. g \in Slots /\ \A c : ~VideoOf(g, c)
      BY <2>1 DEF Slots, VideoOf
    <3> HIDE DEF g
    <3>3. CASE f.kind = "A"
      BY <2>2, <2>3, <2>7, <3>1, <3>3, NamedFrame DEF Timed
    <3>4. CASE f.kind # "A"
      BY <2>2, <2>7, <3>1, <3>2, <3>4, NamedAppend
    <3> QED BY <3>3, <3>4
  <2> QED BY <2>1, <2>4, <2>5, <2>6, <2>7 DEF Wrote
<1>6. CASE AppendFrame
  <2>1. PICK f \in Slots : f = cur /\ f.ts = now /\ IsFrame(f)
    BY <1>0, <1>6 DEF AppendFrame, CallsFit, TimesFit, UnderWay
  <2>2. ctrl' = With(ctrl, f) /\ UNCHANGED <<bkt, fdOpen>> /\ pc' = "idle"
    BY <1>6, <2>1 DEF AppendFrame, disk, Return
  <2>3. CASE ~fdOpen
    BY <2>2, <2>3, <1>c
  <2>4. CASE fdOpen
    BY <2>1, <2>2, <2>4, <1>w DEF IsFrame
  <2> QED BY <2>3, <2>4
<1>7. CASE FlushData
  <2>1. fdOpen' = fdOpen /\ pc' = "index"
    BY <1>7 DEF FlushData, Goto
  <2>2. CASE ~fdOpen
    BY <2>1, <2>2, <1>c
  <2>3. CASE fdOpen
    BY <1>7, <2>3, NamedFlushed
  <2> QED BY <2>2, <2>3
<1>8. CASE FlushIndex
  <2>1. bkt' = bkt /\ fdOpen' = fdOpen /\ pc' = "rdb"
    BY <1>8 DEF FlushIndex, Goto
  <2>2. /\ ctrl'.bid = ctrl.bid /\ ctrl'.fposB = ctrl.fposB /\ ctrl'.bbuf = ctrl.bbuf
        /\ ctrl'.bktT2 = ctrl.bktT2
    BY <1>0, <1>8, FlushedIndex DEF FlushIndex, Ctrls
  <2> QED BY <2>1, <2>2, NamedFrame DEF Timed
<1>9. CASE FlushRdb
  <2>1. UNCHANGED <<bkt, fdOpen>> /\ pc' # "closeMgr"
    BY <1>9 DEF FlushRdb, AfterFlush, Goto
  <2> QED BY <1>9, <2>1, FlushedRows, RowsFields, NamedFrame DEF Timed
<1>10. CASE FlushError
  <2>1. ~fdOpen /\ fdOpen' = fdOpen /\ pc' # "closeMgr"
    BY <1>0, <1>10 DEF FlushError, GiveUp, Return
  <2> QED BY <1>c, <2>1
<1>11. CASE RequestExit
  BY <1>11, <1>f DEF RequestExit, disk
<1>12. CASE CloseIndex
  <2>1. UNCHANGED <<bkt, ctrl, status>> /\ pc = "closeIndex"
    BY <1>12 DEF CloseIndex, Goto
  <2>2. ~fdOpen => ctrl.bid = 0
    BY <1>0, <2>1 DEF SessionFits, CallsFit, Closing
  <2>3. Timed' => Timed
    BY <1>12, <2>1, <2>2 DEF Timed, CloseIndex
  <2> QED BY <2>1, <2>3, NamedFrame
<1>13. CASE CloseMgr \/ CloseRecinfo
  <2>1. ~fdOpen /\ fdOpen' = fdOpen /\ pc' # "closeMgr"
    BY <1>0, <1>13 DEF CloseMgr, CloseRecinfo, BasketsFit, Closed, Goto, Return
  <2> QED BY <1>c, <2>1
<1>14. CASE Crash
  BY <1>0, <1>14 DEF Crash
<1>15. CASE SetRecycleMode \/ Tick
  BY <1>15, <1>f DEF SetRecycleMode, Tick, disk, memory, call
<1> QED
  BY <1>1, <1>2, <1>3, <1>4, <1>5, <1>6, <1>7, <1>8, <1>9, <1>10, <1>11, <1>12, <1>13,
     <1>14, <1>15 DEF Next

\* An open basket stays open until its last times are in the manager file.
LEMMA TimedUntilClosed ==
  ASSUME IInv, KeptInv, FirstRun, FirstRun', Next, Timed
  PROVE  \/ Timed' /\ ctrl'.bid = ctrl.bid
         \/ CloseMgr /\ pc = "closeMgr" /\ ctrl.bid # 0
<1>0. /\ SessionFits /\ ctrl \in Ctrls /\ CallsFit /\ BasketsFit
      /\ errors' = errors /\ errors \in Nat /\ crashes \in Nat /\ crashes' = crashes
  BY Basics DEF FirstRun, NoFailure, KeptInv, IInv
<1>1. ~Crash
  BY <1>0 DEF Crash
<1>2. CASE fdOpen
  <2>1. pc \notin Opening \cup {"closeMgr", "closeRecinfo"} /\ status # "closed"
        /\ ctrl.bid \in Baskets
    BY <1>0, <1>2 DEF BasketsFit
  <2>2. CASE RequestWrite \/ AppendFrame \/ FlushData \/ FlushIndex \/ FlushRdb
    <3>1. fdOpen' = fdOpen
      BY <2>2 DEF RequestWrite, AppendFrame, FlushData, FlushIndex, FlushRdb
    <3> QED BY <1>2, <2>2, <3>1, BidKept DEF Timed
  <2>3. CASE CloseIndex
    <3>1. ctrl' = ctrl /\ pc' = "closeMgr"
      BY <2>3 DEF CloseIndex, Goto
    <3>2. ctrl.bid # 0
      BY <2>1 DEF Baskets
    <3> QED BY <3>1, <3>2 DEF Timed
  <2>4. CASE FlushError
    <3>1. errors' = errors + 1
      BY <1>2, <2>4 DEF FlushError
    <3> QED BY <1>0, <3>1
  <2>5. CASE MarkManager \/ MarkRecinfo \/ RequestExit \/ SetRecycleMode \/ Tick
    <3>1. UNCHANGED <<ctrl, fdOpen>>
      BY <2>5 DEF MarkManager, MarkRecinfo, RequestExit, SetRecycleMode, Tick, memory
    <3> QED BY <1>2, <3>1 DEF Timed
  <2> QED BY <1>1, <2>1, <2>2, <2>3, <2>4, <2>5
          DEF Next, RequestOpen, SearchResumable, SearchEmpty, SearchOldest, WriteHeaders,
              ResumeBasket, OpenError, CloseMgr, CloseRecinfo, Opening
<1>3. CASE ~fdOpen
  <2>1. pc = "closeMgr" /\ ctrl.bid # 0
    BY <1>3 DEF Timed
  <2> QED BY <1>1, <2>1
          DEF Next, RequestOpen, SearchResumable, SearchEmpty, SearchOldest, WriteHeaders,
              ResumeBasket, OpenError, MarkManager, MarkRecinfo, RequestWrite, AppendFrame,
              FlushData, FlushIndex, FlushRdb, FlushError, HasData, RequestExit, CloseIndex,
              CloseRecinfo, SetRecycleMode, Tick
<1> QED BY <1>2, <1>3

\* The last times of a basket that is closed are those of all its video.
LEMMA ClosedNamed ==
  ASSUME IInv, SessionTimes, OpenNamed, pc = "closeMgr", ctrl.bid # 0, NEW c \in Channels,
         NEW t \in VideoTimes(ctrl.bid, c)
  PROVE  ctrl.bktT2[c] # 0 /\ t <= ctrl.bktT2[c]
<1> DEFINE b == ctrl.bid
           p == ctrl.fposB
<1>1. /\ b \in Baskets /\ bkt[b] \in Seq(Slots) /\ p \in Nat /\ flushed[b].slots \in Nat
      /\ ctrl.bbuf = <<>>
  <2>1. b \in Baskets
    BY Basics DEF Ctrls, Baskets
  <2> QED BY <2>1, Basics DEF IInv, PositionsFit
<1>2. flushed[b].slots <= p
  BY DEF SessionTimes, Timed
<1>3. StreamEnd = p /\ Streamed = Stream(bkt[b], p, <<>>)
  BY <1>1, Places DEF StreamEnd, Streamed
<1>4. \A i \in 1 .. p : Streamed[i] = bkt[b][i]
  BY <1>1, <1>3, StreamFile
<1>5. PICK i \in 1 .. flushed[b].slots : VideoOf(bkt[b][i], c) /\ bkt[b][i].ts = t
  BY VideoTimesOf
<1>6. i \in 1 .. p
  BY <1>1, <1>2
<1>7. ctrl.bktT2[c] # 0
  BY <1>3, <1>4, <1>5, <1>6 DEF OpenNamed, Timed
<1> QED BY <1>7, ClosedTimes

\* Only a basket that is open or being opened gets other frames.
LEMMA FramesOf ==
  ASSUME IInv, Next, NEW b \in Baskets
  PROVE  \/ bkt'[b] = bkt[b] /\ flushed'[b].slots = flushed[b].slots
         \/ fdOpen /\ b = ctrl.bid
         \/ (WriteHeaders \/ ResumeBasket) /\ fdOpen' /\ b = ctrl'.bid
<1>1. CASE WriteHeaders \/ ResumeBasket
  <2>1. /\ fdOpen' = TRUE /\ ~fdOpen /\ bkt' = bkt /\ target.bid \in Baskets
    BY <1>1 DEF WriteHeaders, ResumeBasket, IInv, BasketsFit, Opening, disk
  <2>2. ctrl'.bid = target.bid
    BY <2>1, ClosedSteps
  <2>3. \A d \in Baskets \ {target.bid} : flushed'[d] = flushed[d]
    BY <1>1, <2>1, Basics DEF WriteHeaders, ResumeBasket
  <2> QED BY <1>1, <2>1, <2>2, <2>3
<1>2. CASE FlushData
  BY <1>2, DataWritten
<1>3. CASE FlushIndex
  BY <1>3, IndexWritten DEF FlushIndex
<1>4. CASE ~WriteHeaders /\ ~ResumeBasket /\ ~FlushData /\ ~FlushIndex
  <2>1. UNCHANGED <<bkt, flushed>>
    BY <1>4 DEF Next, RequestOpen, SearchResumable, SearchEmpty, SearchOldest, OpenError,
                MarkManager, MarkRecinfo, RequestWrite, AppendFrame, FlushRdb, FlushError,
                RequestExit, CloseIndex, CloseMgr, CloseRecinfo, Crash, SetRecycleMode,
                Tick, disk, memory
  <2> QED BY <2>1
<1> QED BY <1>1, <1>2, <1>3, <1>4

\* A basket at rest keeps its frames and times.
LEMMA RestNamedStep ==
  ASSUME IInv, KeptInv, FirstRun, FirstRun', SessionTimes, OpenNamed, RestNamed, Next
  PROVE  RestNamed'
<1> SUFFICES ASSUME NEW b \in Baskets, ~(Timed' /\ b = ctrl'.bid),
                    NEW c \in Channels, NEW t \in VideoTimes(b, c)'
             PROVE  mgr'[b].t2[c] # 0 /\ t <= mgr'[b].t2[c]
  BY DEF RestNamed, NamedIn
<1>1. CASE ~(Timed /\ b = ctrl.bid)
  <2>1. bkt'[b] = bkt[b] /\ flushed'[b].slots = flushed[b].slots
    BY <1>1, FramesOf DEF Timed
  <2>2. t \in VideoTimes(b, c)
    BY <2>1, VideoTimesSame
  <2>3. mgr'[b].t2 = mgr[b].t2
    BY <1>1, ManagerAges
  <2> QED BY <1>1, <2>2, <2>3 DEF RestNamed, NamedIn
<1>2. CASE Timed /\ b = ctrl.bid
  <2>1. CloseMgr /\ pc = "closeMgr" /\ ctrl.bid # 0
    BY <1>2, TimedUntilClosed
  <2>2. UNCHANGED <<bkt, flushed>>
    BY <2>1 DEF CloseMgr
  <2>3. t \in VideoTimes(ctrl.bid, c)
    BY <1>2, <2>2, VideoTimesSame
  <2>4. mgr'[b].t2 = ctrl.bktT2
    <3>1. mgr' = [mgr EXCEPT ![ctrl.bid] = [flag |-> ClosedFlag, t2 |-> ctrl.bktT2]]
      BY <2>1 DEF CloseMgr
    <3>2. mgr \in [Baskets -> [flag : Flags, t2 : Times]]
      BY DEF IInv, TypeOK
    <3> QED BY <1>2, <3>1, <3>2
  <2> QED BY <2>1, <2>3, <2>4, ClosedNamed
<1> QED BY <1>1, <1>2

NamedFit == FirstRun => OpenNamed /\ RestNamed

\* A formatted disk has no frames.
LEMMA NamedInvariance == Spec => []NamedFit
<1>1. Init => NamedFit
  <2> SUFFICES ASSUME Init
               PROVE  OpenNamed /\ RestNamed
    BY DEF NamedFit
  <2>1. ~fdOpen /\ pc = "idle" /\ \A b \in Baskets : flushed[b].slots = 0
    BY DEF Init
  <2>2. \A b \in Baskets, c \in Channels : VideoTimes(b, c) = {}
    BY <2>1, VideoTimesOf
  <2> QED BY <2>1, <2>2 DEF OpenNamed, RestNamed, NamedIn, Timed
<1>2. IInv /\ KeptInv /\ FramesInv /\ RecordedFit /\ AgesStamped /\ NamedFit /\ [Next]_vars
        => NamedFit'
  <2> SUFFICES ASSUME IInv, KeptInv, FramesInv, RecordedFit, AgesStamped, NamedFit,
                      [Next]_vars, FirstRun'
               PROVE  OpenNamed' /\ RestNamed'
    BY DEF NamedFit
  <2>1. CASE Next
    <3>1. FirstRun
      <4>1. NoFailure
        BY <2>1, NoFailureBefore DEF FirstRun
      <4>2. stops \in Nat /\ stops' \in {stops, stops + 1}
        BY <2>1, Basics DEF Next, RequestOpen, SearchResumable, SearchEmpty, SearchOldest,
           WriteHeaders, ResumeBasket, OpenError, MarkManager, MarkRecinfo, RequestWrite,
           AppendFrame, FlushData, FlushIndex, FlushRdb, FlushError, RequestExit, CloseIndex,
           CloseMgr, CloseRecinfo, Crash, SetRecycleMode, Tick, env
      <4> QED BY <4>1, <4>2 DEF FirstRun
    <3>2. OpenNamed /\ RestNamed /\ SessionTimes
      BY <3>1 DEF NamedFit, FirstRun, RecordedFit
    <3> QED BY <2>1, <3>1, <3>2, OpenNamedStep, RestNamedStep
  <2>2. CASE UNCHANGED vars
    <3>1. UNCHANGED <<mgr, bkt, ctrl, fdOpen, pc, flushed, stops, crashes, errors>>
      BY <2>2 DEF vars
    <3>2. OpenNamed /\ RestNamed
      BY <3>1 DEF NamedFit, FirstRun, NoFailure
    <3>3. OpenNamed'
      BY <3>1, <3>2, NamedFrame DEF Timed
    <3>4. RestNamed'
      BY <3>1, <3>2 DEF RestNamed, NamedIn, VideoTimes, Timed
    <3> QED BY <3>3, <3>4
  <2> QED BY <2>1, <2>2
<1> QED BY <1>1, <1>2, Invariance, KeptInvariance, FramesInvariance, RecordedInvariance,
           AgesInvariance, PTL DEF Spec

\* The time by which a basket is recycled is none of its channels' later ones.
LEMMA MinTSLeast ==
  ASSUME NEW t2 \in Times
  PROVE  /\ MinTS(t2) <= MaxTS
         /\ \A c \in Channels : Sec(t2[c]) # 0 => MinTS(t2) <= Sec(t2[c])
<1> DEFINE S == {Sec(t2[c]) : c \in {e \in DOMAIN t2 : Sec(t2[e]) # 0}}
           T == {MaxTS} \cup S
<1>1. DOMAIN t2 = Channels /\ \A c \in Channels : t2[c] \in Nat
  BY DEF Times
<1>2. \A t \in Nat : Sec(t) \in Nat
  <2>1. TicksPerSec \in Nat \ {0}
    BY ClockAssumption
  <2> QED BY <2>1, DivMonotone DEF Sec
<1>m. MaxTS \in Nat
  BY ONLY SMTT(30) DEF MaxTS
<1> HIDE DEF MaxTS
<1>3. T \subseteq Nat /\ T # {}
  BY <1>1, <1>2, <1>m
<1>4. MinTS(t2) = Min(T)
  BY DEF MinTS
<1>5. MaxTS \in T /\ \A c \in Channels : Sec(t2[c]) # 0 => Sec(t2[c]) \in T
  BY <1>1
<1> HIDE DEF T, S
<1>6. PICK x \in T : \A y \in T : x <= y
  BY <1>3, LeastOf
<1>7. \A y \in T : Min(T) <= y
  BY <1>6 DEF Min
<1> QED BY <1>4, <1>5, <1>7

\* Baskets whose earliest last times are of the same second are numbered in the
\* order in which they were filled: the search takes the first of them, and the
\* second is all it looks at.
TiesInOrder ==
  stops = 0 =>
    \A a, b \in Baskets :
      a < b /\ MinTS(mgr[a].t2) = MinTS(mgr[b].t2) => Sooner(mgr[a].t2, mgr[b].t2)

\* The basket found was filled no later than any other with a last time.
LEMMA OldestSoonest ==
  ASSUME IInv, AgesStamped, AgesOrdered, TiesInOrder, stops = 0,
         NEW a \in Oldest, NEW b \in Baskets, a # b, mgr[b].flag = "full",
         NEW d \in Channels, mgr[b].t2[d] # 0
  PROVE  Sooner(mgr[a].t2, mgr[b].t2)
<1> DEFINE age(e) == MinTS(mgr[e].t2)
<1>1. /\ a \in Baskets /\ a \in Nat /\ b \in Nat /\ age(a) \in Nat /\ age(b) \in Nat
      /\ mgr[a].t2 \in Times /\ mgr[b].t2 \in Times
  <2>1. a \in Baskets
    BY OldestInside
  <2>2. mgr[a].t2 \in Times /\ mgr[b].t2 \in Times
    BY <2>1 DEF IInv, TypeOK
  <2> QED BY <2>1, <2>2, MinTSOf DEF Baskets
<1>2. age(a) < age(b) \/ (age(a) = age(b) /\ a <= b)
  BY DEF Oldest
<1>3. ASSUME Sooner(mgr[b].t2, mgr[a].t2)
      PROVE  age(b) <= age(a)
  <2>1. age(b) <= Sec(mgr[b].t2[d]) /\ age(b) <= MaxTS
    BY <1>1, MinTSLeast DEF AgesStamped, Stamped
  <2>2. CASE age(a) = MaxTS
    BY <2>1, <2>2
  <2>3. CASE \E c \in Channels : age(a) = Sec(mgr[a].t2[c]) /\ mgr[a].t2[c] # 0
    <3>1. PICK c \in Channels : age(a) = Sec(mgr[a].t2[c]) /\ mgr[a].t2[c] # 0
      BY <2>3
    <3>2. mgr[b].t2[d] <= mgr[a].t2[c]
      BY <1>3, <3>1 DEF Sooner
    <3>3. mgr[b].t2[d] \in Nat /\ mgr[a].t2[c] \in Nat /\ TicksPerSec \in Nat \ {0}
      BY <1>1, ClockAssumption DEF Times
    <3>4. Sec(mgr[b].t2[d]) \in Nat /\ Sec(mgr[b].t2[d]) <= Sec(mgr[a].t2[c])
      BY <3>2, <3>3, DivMonotone DEF Sec
    <3> HIDE DEF age
    <3> QED BY ONLY <1>1, <2>1, <3>1, <3>4
  <2> QED BY <1>1, <2>2, <2>3, MinTSOf
<1>4. Sooner(mgr[a].t2, mgr[b].t2) \/ Sooner(mgr[b].t2, mgr[a].t2)
  BY <1>1 DEF AgesOrdered
<1>5. CASE Sooner(mgr[b].t2, mgr[a].t2)
  <2>1. age(a) = age(b) /\ a < b
    <3> HIDE DEF age
    <3> QED BY ONLY <1>1, <1>2, <1>3, <1>5, a # b
  <2> QED BY <1>1, <2>1 DEF TiesInOrder
<1> QED BY <1>4, <1>5

\* What a basket's newest video is, once its frames have times.
LEMMA NewestOf ==
  ASSUME IInv, SlotsInside, AgesStamped, NEW b \in Baskets, NamedIn(b)
  PROVE  /\ Newest(b) \in Nat
         /\ Newest(b) # 0 => \E c \in Channels : Newest(b) \in VideoTimes(b, c)
         /\ \A c \in Channels : \A t \in VideoTimes(b, c) : t \in Nat /\ t <= Newest(b)
<1> DEFINE V == UNION {VideoTimes(b, c) : c \in Channels}
<1>1. /\ now \in Nat /\ bkt[b] \in Seq(Slots) /\ flushed[b].slots \in Nat
      /\ flushed[b].slots <= Len(bkt[b]) /\ mgr[b].t2 \in Times
  BY Basics DEF IInv, TypeOK, SlotsInside
<1>2. ASSUME NEW c \in Channels, NEW t \in VideoTimes(b, c)
      PROVE  t \in Nat /\ t <= now
  <2>1. PICK i \in 1 .. flushed[b].slots : VideoOf(bkt[b][i], c) /\ bkt[b][i].ts = t
    BY VideoTimesOf
  <2>2. i \in 1 .. Len(bkt[b])
    BY <1>1, <2>1, LenProperties
  <2>3. bkt[b][i] \in Slots
    BY ONLY <1>1, <2>2, ElementOfSeq
  <2>4. mgr[b].t2[c] # 0 /\ t <= mgr[b].t2[c]
    BY DEF NamedIn
  <2>5. t \in Nat /\ mgr[b].t2[c] \in Nat
    BY <1>1, <2>1, <2>3 DEF Slots, Times
  <2>6. mgr[b].t2[c] <= now
    BY <2>4 DEF AgesStamped, Stamped
  <2> QED BY <1>1, <2>4, <2>5, <2>6
<1>3. {0} \cup V \subseteq Nat /\ {0} \cup V # {} /\ \A x \in {0} \cup V : x <= now
  BY <1>1, <1>2
<1>4. Newest(b) \in {0} \cup V /\ \A y \in {0} \cup V : y <= Newest(b)
  <2>1. Newest(b) = Max({0} \cup V)
    BY DEF Newest
  <2> HIDE DEF V
  <2> QED BY <1>1, <1>3, <2>1, GreatestOf
<1> QED BY <1>2, <1>3, <1>4

\* What a search that turns to the full baskets takes.
TakesOldest ==
  stops = 0 /\ target.flag # "full" /\ target'.flag = "full" =>
    \A b \in Baskets : mgr[b].flag = "full" /\ Newest(b) # 0 =>
      Newest(target'.bid) <= Newest(b)

\* It finds a basket whose video is no newer than that of another.
LEMMA OldestStep ==
  ASSUME IInv, SlotsInside, AgesStamped, AgesOrdered, TiesInOrder, RecordedTimesTrue,
         RestNamed, stops = 0, Next, target.flag # "full", target'.flag = "full",
         NEW b \in Baskets, mgr[b].flag = "full", Newest(b) # 0
  PROVE  Newest(target'.bid) <= Newest(b)
<1>1. pc = "search" /\ ~fdOpen /\ target'.bid \in Oldest
  <2>1. SearchOldest
    <3>1. ~(target' = target) /\ ~(target' = NoTarget)
      BY DEF NoTarget
    <3>2. ~SearchResumable /\ ~SearchEmpty
      <4>1. ASSUME SearchResumable
            PROVE  FALSE
        <5>1. target' = recinfo /\ recinfo.flag \in {"using", "stop"}
          BY <4>1 DEF SearchResumable, Resumable
        <5> QED BY <5>1
      <4>2. ASSUME SearchEmpty
            PROVE  FALSE
        <5>1. PICK e : target' = [bid |-> e, flag |-> "empty"]
          BY <4>2 DEF SearchEmpty
        <5> QED BY <5>1
      <4> QED BY <4>1, <4>2
    <3>3. ~(RequestOpen \/ OpenError \/ AppendFrame \/ FlushError \/ MarkRecinfo \/ CloseMgr
            \/ CloseRecinfo \/ Crash)
      BY <3>1 DEF RequestOpen, OpenError, AppendFrame, FlushError, MarkRecinfo, CloseMgr,
                  CloseRecinfo, Closed, Crash, Return, GiveUp, Goto
    <3>4. ~(\/ WriteHeaders \/ ResumeBasket \/ MarkManager \/ RequestWrite \/ FlushData
            \/ FlushIndex \/ FlushRdb \/ RequestExit \/ CloseIndex \/ SetRecycleMode \/ Tick)
      BY <3>1 DEF WriteHeaders, ResumeBasket, MarkManager, RequestWrite, FlushData,
                  FlushIndex, FlushRdb, AfterFlush, RequestExit, CloseIndex, SetRecycleMode,
                  Tick, Goto, call
    <3> QED BY <3>2, <3>3, <3>4 DEF Next
  <2>2. pc = "search" /\ target'.bid \in Oldest
    <3>1. PICK e \in Oldest : \/ target' = [bid |-> e, flag |-> "full"]
                              \/ target' = NoTarget
      BY <2>1 DEF SearchOldest, GiveUp, Return
    <3>2. target' = [bid |-> e, flag |-> "full"]
      BY <3>1 DEF NoTarget
    <3> QED BY <2>1, <3>1, <3>2 DEF SearchOldest
  <2> QED BY <2>2 DEF IInv, BasketsFit, Opening
<1> DEFINE a == target'.bid
<1> SUFFICES Newest(a) <= Newest(b)
  OBVIOUS
<1>2. a \in Oldest /\ a \in Baskets
  BY <1>1, OldestInside
<1> HIDE DEF a
<1>3. NamedIn(a) /\ NamedIn(b)
  BY <1>1, <1>2 DEF RestNamed, Timed
<1>4. PICK d \in Channels : Newest(b) \in VideoTimes(b, d)
  BY <1>3, NewestOf
<1>5. mgr[b].t2[d] # 0 /\ mgr[b].t2[d] \in VideoTimes(b, d)
  BY <1>1, <1>3, <1>4 DEF NamedIn, RecordedTimesTrue
<1>6. Newest(a) \in Nat /\ Newest(b) \in Nat /\ mgr[b].t2[d] \in Nat /\ mgr[b].t2[d] <= Newest(b)
  BY <1>2, <1>3, <1>5, NewestOf
<1>7. CASE a = b \/ Newest(a) = 0
  BY <1>6, <1>7
<1>8. CASE a # b /\ Newest(a) # 0
  <2>1. PICK c \in Channels : Newest(a) \in VideoTimes(a, c)
    BY <1>2, <1>3, <1>8, NewestOf
  <2>2. mgr[a].t2[c] # 0 /\ Newest(a) <= mgr[a].t2[c]
    BY <1>3, <2>1 DEF NamedIn
  <2>3. Sooner(mgr[a].t2, mgr[b].t2)
    BY <1>2, <1>5, <1>8, OldestSoonest
  <2>4. mgr[a].t2[c] <= mgr[b].t2[d]
    BY <1>5, <2>2, <2>3 DEF Sooner
  <2>5. mgr[a].t2[c] \in Nat
    BY <1>2 DEF IInv, TypeOK, Times
  <2> QED BY <1>6, <2>2, <2>4, <2>5
<1> QED BY <1>7, <1>8

\* "searching oldest file": without power cuts, failed calls and stops, the basket
\* BKTREC_searchOldestBasket takes holds no video newer than the newest of another
\* full one, provided that those it cannot tell apart are numbered in their order.
THEOREM OldestGoesFirst ==
  ASSUME MaxCrashes = 0, MaxErrors = 0
  PROVE  Spec /\ []TiesInOrder => RecyclesOldest
<1> DEFINE Inv == /\ IInv /\ FramesInv /\ NoFailure /\ RecordedFit /\ AgesStamped
                  /\ AgesOrdered /\ NamedFit /\ TiesInOrder
<1>1. Inv /\ Next => TakesOldest
  <2> SUFFICES ASSUME Inv, Next, stops = 0, target.flag # "full", target'.flag = "full",
                      NEW b \in Baskets, mgr[b].flag = "full", Newest(b) # 0
               PROVE  Newest(target'.bid) <= Newest(b)
    BY DEF TakesOldest
  <2> QED BY OldestStep DEF FramesInv, RecordedFit, NamedFit, FirstRun
<1>2. Inv /\ [Next]_vars => [TakesOldest]_vars
  <2> HIDE DEF Inv
  <2> QED BY ONLY <1>1
<1> QED BY <1>2, Invariance, FailuresBounded, FramesInvariance, RecordedInvariance,
           AgesInvariance, NamedInvariance, PTL DEF Spec, RecyclesOldest, TakesOldest

=============================================================================
