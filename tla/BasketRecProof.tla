--------------------------- MODULE BasketRecProof ---------------------------
(***************************************************************************)
(* Proofs about BasketRec for any number of baskets, channels, power cuts  *)
(* and failed calls: its types, that no index entry points outside its     *)
(* stream file, that the basket recorded to is the one the next start goes *)
(* on with, that a power cut strands at most one basket, and that a start  *)
(* goes on behind the entries in a basket's index.                         *)
(***************************************************************************)
EXTENDS BasketRec, SequenceTheorems, FiniteSetTheorems, TLAPS

-----------------------------------------------------------------------------
(* The inductive invariant.                                                *)

Opening == {"search", "header", "resume"}
Marking == {"markMgr", "markRecinfo"}
Flushing == {"data", "index", "rdb"}
Closing == {"closeIndex", "closeMgr", "closeRecinfo"}

\* Which call is under way where.
CallsFit ==
  /\ pc \in Opening \cup Marking => op \in {"open", "roll"}
  /\ pc = "resume" => op = "open"
  /\ pc = "append" => op \in {"roll", "flush"}
  /\ pc \in Flushing => op \in {"exit", "roll", "flush"}
  /\ pc \in Closing => op \in {"exit", "roll"}
  /\ op \in {"roll", "flush"} => cur \in Slots
  /\ op = "open" /\ pc \in {"search", "resume"} => status = "closed"
  /\ pc \in {"append"} \cup Marking \cup Flushing \cup Closing => status # "closed"

\* A call works on a basket of the disk, and the files are open when it writes.
BasketsFit ==
  /\ fdOpen => ctrl.bid \in Baskets
  /\ pc \in Opening \cup {"closeMgr", "closeRecinfo"} \/ status = "closed" => ~fdOpen
  /\ pc \in Marking => fdOpen
  /\ pc \in {"header", "resume"} => target.bid \in Baskets
  /\ pc = "closeRecinfo" => ctrl.bid \in Baskets
  /\ recinfo.flag \in {"using", "stop"} => recinfo.bid \in Baskets

\* The write positions, and the entries still in memory, are inside the files.
PositionsFit ==
  /\ EntriesInside
  /\ fdOpen => /\ ctrl.fposB <= Len(bkt[ctrl.bid])
               /\ ctrl.fposI <= Len(idx[ctrl.bid].ents)
  /\ \A i \in 1 .. Len(ctrl.ibuf) : ctrl.ibuf[i].fpos < ctrl.fposB + Len(ctrl.bbuf)
  /\ pc \notin {"idle", "data"} => ctrl.bbuf = <<>>
  /\ pc \notin {"idle", "data", "index"} => ctrl.ibuf = <<>>

\* Where the record info stands at each step of an opening or a closing.
InUse(b) == recinfo = [bid |-> b, flag |-> "using"]
RecinfoFits ==
  /\ pc = "markRecinfo" => mgr[ctrl.bid].flag = "using"
  /\ fdOpen /\ pc \notin Marking => InUse(ctrl.bid) /\ mgr[ctrl.bid].flag = "using"
  /\ pc \in Marking \cup {"resume", "closeMgr", "closeRecinfo"} /\ recinfo.flag = "using"
       => recinfo.bid = ctrl.bid
  /\ pc = "resume" => target = recinfo
  /\ pc = "closeRecinfo" => mgr[ctrl.bid].flag # "using"
  /\ pc = "header" \/ (pc = "search" /\ op = "roll") => recinfo.flag # "using"
  /\ status # "closed" /\ ~fdOpen /\ pc \in {"idle", "append", "closeIndex"} \cup Flushing
       => recinfo.flag # "using"

\* The baskets only a power cut can have left: in use, and not about to be named.
Lost == {b \in Baskets : /\ mgr[b].flag = "using" /\ ~InUse(b)
                         /\ ~(pc = "markRecinfo" /\ b = ctrl.bid)}
LostBound == Cardinality(Lost) <= crashes

IInv == /\ TypeOK /\ CallsFit /\ BasketsFit /\ PositionsFit /\ RecinfoFits /\ LostBound

-----------------------------------------------------------------------------
(* Lemmas about the operators of BasketFormat.                             *)

\* What an overwriting of n slots at position p leaves of a file of f slots.
LEMMA TailLength ==
  ASSUME NEW f \in Nat, NEW p \in 0 .. f, NEW n \in Nat, NEW t,
         t = IF p + n + 1 <= f THEN f - p - n ELSE 0
  PROVE  t \in Nat /\ p + n + t >= f /\ p + n + t >= p + n
OBVIOUS

\* Overwriting at a position inside the file yields a file of the same kind,
\* never shorter than it was, that reaches behind what was written.
LEMMA OverwriteSeq ==
  ASSUME NEW S, NEW file \in Seq(S), NEW p \in 0 .. Len(file), NEW s \in Seq(S),
         NEW aligned \in BOOLEAN, \A x \in S : aligned \/ Gap(x) \in S
  PROVE  /\ Overwrite(file, p, s, aligned) \in Seq(S)
         /\ Len(Overwrite(file, p, s, aligned)) >= Len(file)
         /\ Len(Overwrite(file, p, s, aligned)) >= p + Len(s)
<1> DEFINE rest == SubSeq(file, p + Len(s) + 1, Len(file))
           tail == IF aligned \/ rest = <<>> THEN rest ELSE [rest EXCEPT ![1] = Gap(@)]
           head == SubSeq(file, 1, p)
<1>1. /\ Len(file) \in Nat /\ Len(s) \in Nat
      /\ \A i \in 1 .. Len(file) : file[i] \in S
  BY LenProperties, ElementOfSeq
<1>2. head \in Seq(S) /\ Len(head) = p
  <2>1. p \in Int /\ \A i \in 1 .. p : file[i] \in S
    BY <1>1
  <2> QED BY <2>1, <1>1, SubSeqProperties
<1>3. /\ rest \in Seq(S)
      /\ Len(rest) = IF p + Len(s) + 1 <= Len(file) THEN Len(file) - p - Len(s) ELSE 0
  <2>1. /\ p + Len(s) + 1 \in Int /\ Len(file) \in Int
        /\ \A i \in p + Len(s) + 1 .. Len(file) : file[i] \in S
    BY <1>1
  <2> QED BY <2>1, <1>1, SubSeqProperties
<1>4. tail \in Seq(S) /\ Len(tail) = Len(rest)
  <2>1. CASE aligned \/ rest = <<>>
    BY <2>1, <1>3
  <2>2. CASE ~aligned /\ rest # <<>>
    <3>1. Len(rest) >= 1 /\ rest[1] \in S /\ Gap(rest[1]) \in S
      BY <2>2, <1>3, EmptySeq, ElementOfSeq, LenProperties
    <3>2. [rest EXCEPT ![1] = Gap(rest[1])] \in Seq(S)
          /\ Len([rest EXCEPT ![1] = Gap(rest[1])]) = Len(rest)
      BY <3>1, <1>3, ExceptSeq
    <3> QED BY <3>2, <2>2
  <2> QED BY <2>1, <2>2
<1>5. head \o s \in Seq(S) /\ Len(head \o s) = p + Len(s)
  BY <1>2, ConcatProperties
<1> HIDE DEF rest, tail, head
<1>6. (head \o s) \o tail \in Seq(S) /\ Len((head \o s) \o tail) = p + Len(s) + Len(tail)
  BY <1>4, <1>5, ConcatProperties
<1>7. Overwrite(file, p, s, aligned) = (head \o s) \o tail
  BY DEF Overwrite, rest, tail, head
<1>8. /\ p + Len(s) + Len(tail) >= Len(file)
      /\ p + Len(s) + Len(tail) >= p + Len(s)
  <2> DEFINE f == Len(file)
             n == Len(s)
             t == Len(tail)
  <2>1. /\ f \in Nat /\ p \in 0 .. f /\ n \in Nat
        /\ t = IF p + n + 1 <= f THEN f - p - n ELSE 0
    BY <1>1, <1>3, <1>4, Zenon
  <2> HIDE DEF f, n, t
  <2>2. p + n + t >= f /\ p + n + t >= p + n
    BY <2>1, TailLength
  <2> QED BY <2>2 DEF f, n, t
<1> QED BY <1>6, <1>7, <1>8, Zenon

\* A sequence whose members lie in a subset is a sequence of that subset.
LEMMA SeqOfSubset ==
  ASSUME NEW S, NEW T, NEW seq \in Seq(S), \A i \in 1 .. Len(seq) : seq[i] \in T
  PROVE  seq \in Seq(T)
BY LenProperties

\* A resumed basket is written on from positions inside its files.
LEMMA ResumeInside ==
  ASSUME NEW file, Len(file) \in Nat, NEW e, e.fpos \in Nat, e.fpos < Len(file),
         NEW p \in ResumeEnds(file, e)
  PROVE  p \in 0 .. Len(file)
BY DEF ResumeEnds, StreamEnds

-----------------------------------------------------------------------------
(* Lemmas about the operators of BasketRec.                                *)

\* Conversions of a time are times.
LEMMA ClockType ==
  ASSUME NEW t \in Nat
  PROVE  Day(t) \in Nat /\ Minute(t) \in Nat /\ MinuteOfHour(t) \in Nat
<1>1. /\ TicksPerMin \in Nat \ {0} /\ TicksPerDay \in Nat \ {0}
      /\ MinutesPerHour \in Nat \ {0}
  BY ClockAssumption
<1>2. t \div TicksPerDay \in Nat /\ t \div TicksPerMin \in Nat
  BY <1>1
<1>3. (t \div TicksPerMin) % MinutesPerHour \in Nat
  BY <1>1, <1>2
<1> QED BY <1>2, <1>3 DEF Day, Minute, MinuteOfHour

\* A frame of the encoder is one a stream file holds.
LEMMA FrameType ==
  ASSUME NEW t \in Nat, NEW c \in Channels, NEW k \in Kinds
  PROVE  Frame(c, t, k) \in Slots
BY RecorderAssumption DEF Frame, Slots

\* Buffering a frame keeps the control block's types and the open basket, adds
\* the frame, and adds at most an entry that points to it.
LEMMA WithType ==
  ASSUME NEW c \in Ctrls, NEW f \in Slots
  PROVE  /\ With(c, f) \in Ctrls
         /\ With(c, f).bid = c.bid /\ With(c, f).fposB = c.fposB
         /\ With(c, f).fposI = c.fposI
         /\ With(c, f).bbuf = Append(c.bbuf, f)
         /\ \/ With(c, f).ibuf = c.ibuf
            \/ With(c, f).ibuf = Append(c.ibuf, [ch |-> f.ch, ts |-> f.ts,
                                                fpos |-> c.fposB + Len(c.bbuf)])
<1> DEFINE entry == [ch |-> f.ch, ts |-> f.ts, fpos |-> c.fposB + Len(c.bbuf)]
           place == c.fposI + Len(c.ibuf)
<1>1. /\ f.ch \in Channels /\ f.ts \in Nat
      /\ Day(f.ts) \in Nat /\ Minute(f.ts) \in Nat /\ MinuteOfHour(f.ts) \in Nat
  BY ClockType DEF Slots
<1>2. /\ Append(c.bbuf, f) \in Seq(Slots)
      /\ Len(c.bbuf) \in Nat /\ Len(c.ibuf) \in Nat
  BY AppendProperties, LenProperties DEF Ctrls
<1>3. entry \in Entries /\ place \in Nat
  BY <1>1, <1>2 DEF Entries, Ctrls
<1>4. Append(c.ibuf, entry) \in Seq(Entries)
  BY <1>3, AppendProperties DEF Ctrls
<1>5. \A q \in Nat : Append(c.rbuf, [ch |-> f.ch, min |-> Minute(f.ts), bid |-> c.bid,
                                     pos |-> q]) \in Seq(Rows)
  <2> SUFFICES ASSUME NEW q \in Nat
               PROVE  Append(c.rbuf, [ch |-> f.ch, min |-> Minute(f.ts), bid |-> c.bid,
                                      pos |-> q]) \in Seq(Rows)
    OBVIOUS
  <2>1. [ch |-> f.ch, min |-> Minute(f.ts), bid |-> c.bid, pos |-> q] \in Rows
    BY <1>1 DEF Rows, Ctrls
  <2> QED BY <2>1, AppendProperties DEF Ctrls
<1>6. CASE f.kind = "A"
  BY <1>6, <1>2 DEF With, WithAudio, Ctrls
<1>7. CASE f.kind # "A"
  <2> DEFINE key == f.kind = "I"
             pos == IF key THEN [c.idxPos EXCEPT ![f.ch] = place] ELSE c.idxPos
             last == IF key THEN [c.idxT2 EXCEPT ![f.ch] = f.ts] ELSE c.idxT2
             row == [ch |-> f.ch, min |-> Minute(f.ts), bid |-> c.bid, pos |-> pos[f.ch]]
             newRow == /\ last[f.ch] # 0
                       /\ c.prevMin[f.ch] # MinuteOfHour(f.ts)
                       /\ Sec(last[f.ch]) >= Sec(f.ts)
             ib == IF key THEN Append(c.ibuf, entry) ELSE c.ibuf
             rb == IF newRow THEN Append(c.rbuf, row) ELSE c.rbuf
             pm == [c.prevMin EXCEPT ![f.ch] = IF newRow THEN MinuteOfHour(f.ts)
                                               ELSE c.prevMin[f.ch]]
             bt == [c.bktT2 EXCEPT ![f.ch] = f.ts]
             bb == Append(c.bbuf, f)
  <2>1. pos \in Times /\ last \in Times /\ bt \in Times
    BY <1>1, <1>3 DEF Times, Ctrls
  <2>2. pos[f.ch] \in Nat
    BY <2>1, <1>1 DEF Times
  <2>3. rb \in Seq(Rows)
    BY <2>2, <1>5 DEF Ctrls
  <2>4. pm \in [Channels -> Nat \cup {-1}]
    BY <1>1 DEF Ctrls
  <2>5. ib \in Seq(Entries) /\ bb \in Seq(Slots)
    BY <1>2, <1>4 DEF Ctrls
  <2>6. With(c, f) = [c EXCEPT !.bbuf = bb, !.ibuf = ib, !.idxPos = pos, !.idxT2 = last,
                               !.rbuf = rb, !.prevMin = pm, !.bktT2 = bt,
                               !.prevDay = Day(f.ts)]
    BY <1>7 DEF With, WithVideo
  <2>7. ib = c.ibuf \/ ib = Append(c.ibuf, entry)
    OBVIOUS
  <2>8. bb = Append(c.bbuf, f)
    OBVIOUS
  <2> HIDE DEF ib, rb, pm, bt, bb, last, pos, entry, key, newRow, row
  <2>9. [c EXCEPT !.bbuf = bb, !.ibuf = ib, !.idxPos = pos, !.idxT2 = last,
                  !.rbuf = rb, !.prevMin = pm, !.bktT2 = bt, !.prevDay = Day(f.ts)] \in Ctrls
    BY <1>1, <2>1, <2>3, <2>4, <2>5 DEF Ctrls
  <2>10. /\ With(c, f).bid = c.bid /\ With(c, f).fposB = c.fposB
         /\ With(c, f).fposI = c.fposI
         /\ With(c, f).bbuf = bb /\ With(c, f).ibuf = ib
    BY <2>6 DEF Ctrls
  <2> QED BY <2>6, <2>7, <2>8, <2>9, <2>10 DEF entry
<1> QED BY <1>6, <1>7

-----------------------------------------------------------------------------
(* Types.                                                                  *)

Targets == [bid : 0 .. NBaskets, flag : Flags \cup {"none"}]

\* What a memset leaves.
LEMMA ZeroType ==
  /\ ZeroCtrl \in Ctrls /\ NoTimes \in Times /\ NoTarget \in Targets
  /\ ZeroCtrl.bbuf = <<>> /\ ZeroCtrl.ibuf = <<>>
<1>1. /\ <<>> \in Seq(Slots) /\ <<>> \in Seq(Entries) /\ <<>> \in Seq(Rows)
      /\ 0 \in 0 .. NBaskets
  BY RecorderAssumption, EmptySeq
<1>2. NoTimes \in Times /\ [c \in Channels |-> -1] \in [Channels -> Nat \cup {-1}]
  BY DEF NoTimes, Times
<1> QED BY <1>1, <1>2 DEF ZeroCtrl, Ctrls, NoTarget, Targets

\* The calls' steps keep the control block's types where they change it.
LEMMA ClearedType ==
  ASSUME ctrl \in Ctrls
  PROVE  Cleared \in Ctrls /\ \A b \in Baskets : SearchCtrl(b) \in Ctrls
<1>0. 0 \in 0 .. NBaskets
  BY RecorderAssumption
<1>1. Cleared \in Ctrls
  BY <1>0, ZeroType DEF Cleared, Ctrls
<1>2. ASSUME NEW b \in Baskets
      PROVE  [ctrl EXCEPT !.bid = b] \in Ctrls
  <2>1. b \in 0 .. NBaskets
    BY RecorderAssumption DEF Baskets
  <2> QED BY <2>1, SMTT(60) DEF Ctrls
<1> QED BY <1>1, <1>2 DEF SearchCtrl

\* BKTREC_exit clears the control block; BKTREC_SaveFull leaves its buffers.
LEMMA ClosedType ==
  ASSUME ctrl \in Ctrls, Closed
  PROVE  /\ ctrl' \in Ctrls
         /\ op = "exit" => ctrl' = ZeroCtrl
         /\ op # "exit" => ctrl'.bbuf = ctrl.bbuf /\ ctrl'.ibuf = ctrl.ibuf
<1>1. CASE op = "exit"
  BY <1>1, ZeroType DEF Closed
<1>2. CASE op # "exit"
  <2>1. ctrl' = [ctrl EXCEPT !.fposB = 0, !.fposI = 0, !.bktT2 = NoTimes, !.idxT2 = NoTimes]
    BY <1>2 DEF Closed
  <2>2. ctrl' \in Ctrls
    BY <2>1, ZeroType DEF Ctrls
  <2>3. ctrl'.bbuf = ctrl.bbuf /\ ctrl'.ibuf = ctrl.ibuf
    BY <2>1 DEF Ctrls
  <2> QED BY <1>2, <2>2, <2>3
<1> QED BY <1>1, <1>2

\* A basket is opened at the positions given, with the buffers as they were.
LEMMA OpenedType ==
  ASSUME ctrl \in Ctrls, now \in Nat, NEW b \in Baskets, NEW p \in Nat, NEW k \in Nat
  PROVE  /\ OpenedCtrl(b, p, k) \in Ctrls
         /\ OpenedCtrl(b, p, k).bid = b /\ OpenedCtrl(b, p, k).fposB = p
         /\ OpenedCtrl(b, p, k).fposI = k
         /\ OpenedCtrl(b, p, k).bbuf = ctrl.bbuf /\ OpenedCtrl(b, p, k).ibuf = ctrl.ibuf
<1> DEFINE d == IF op = "open" THEN Day(now) ELSE ctrl.prevDay
<1>1. d \in Nat
  BY ClockType DEF Ctrls
<1>2. OpenedCtrl(b, p, k) = [ctrl EXCEPT !.bid = b, !.fposB = p, !.fposI = k, !.prevDay = d]
  BY DEF OpenedCtrl
<1> HIDE DEF d
<1>3. b \in 0 .. NBaskets
  BY DEF Baskets
<1>4. [ctrl EXCEPT !.bid = b, !.fposB = p, !.fposI = k, !.prevDay = d] \in Ctrls
  BY <1>1, <1>3 DEF Ctrls
<1> QED BY <1>2, <1>4 DEF Ctrls

\* The end of stream record is a slot, so a rollover keeps the types.
LEMMA RollType ==
  ASSUME ctrl \in Ctrls, NEW f \in Slots
  PROVE  /\ RollCtrl(f) \in Ctrls /\ FlushCtrl(f) \in Ctrls
         /\ RollCtrl(f).bid = ctrl.bid /\ FlushCtrl(f).bid = ctrl.bid
         /\ RollCtrl(f).fposB = ctrl.fposB /\ FlushCtrl(f).fposB = ctrl.fposB
         /\ RollCtrl(f).fposI = ctrl.fposI /\ FlushCtrl(f).fposI = ctrl.fposI
         /\ RollCtrl(f).ibuf = ctrl.ibuf /\ FlushCtrl(f).ibuf = ctrl.ibuf
         /\ Len(RollCtrl(f).bbuf) >= Len(ctrl.bbuf) /\ FlushCtrl(f).bbuf = ctrl.bbuf
<1> DEFINE end == [f EXCEPT !.kind = "END"]
           bb == Append(ctrl.bbuf, end)
<1>1. bb \in Seq(Slots) /\ Len(bb) = Len(ctrl.bbuf) + 1 /\ Len(ctrl.bbuf) \in Nat
  <2>1. end \in Slots
    BY DEF Slots
  <2> QED BY <2>1, AppendProperties, LenProperties DEF Ctrls
<1>2. RollCtrl(f) = IF f.kind = "A" THEN ctrl ELSE [ctrl EXCEPT !.rskip = FALSE, !.bbuf = bb]
  BY DEF RollCtrl
<1> HIDE DEF bb
<1>3. RollCtrl(f) \in Ctrls /\ FlushCtrl(f) \in Ctrls
  BY <1>1, <1>2 DEF FlushCtrl, Ctrls
<1>4. /\ RollCtrl(f).bid = ctrl.bid /\ RollCtrl(f).fposB = ctrl.fposB
      /\ RollCtrl(f).fposI = ctrl.fposI /\ RollCtrl(f).ibuf = ctrl.ibuf
      /\ RollCtrl(f).bbuf = ctrl.bbuf \/ RollCtrl(f).bbuf = bb
  BY <1>2 DEF Ctrls
<1>5. Len(RollCtrl(f).bbuf) >= Len(ctrl.bbuf)
  BY <1>1, <1>4
<1> QED BY <1>3, <1>4, <1>5 DEF FlushCtrl, Ctrls

\* Where a resumed basket is written on.
LEMMA ResumeStops ==
  ASSUME TypeOK, EntriesInside, NEW b \in Baskets, NEW k \in IndexStops(idx[b]),
         NEW p \in IF k = 0 THEN {0} ELSE ResumeEnds(bkt[b], idx[b].ents[k])
  PROVE  k \in 0 .. Len(idx[b].ents) /\ p \in 0 .. Len(bkt[b])
<1>1. /\ idx[b].ents \in Seq(Entries) /\ bkt[b] \in Seq(Slots) /\ idx[b].count \in Nat
      /\ idx[b].count <= Len(idx[b].ents)
      /\ \A i \in 1 .. Len(idx[b].ents) : idx[b].ents[i].fpos < Len(bkt[b])
  BY DEF TypeOK, EntriesInside
<1>2. Len(idx[b].ents) \in Nat /\ Len(bkt[b]) \in Nat
  BY <1>1, LenProperties
<1>3. k \in 0 .. Len(idx[b].ents)
  BY <1>1, <1>2 DEF IndexStops, IndexEnds
<1>4. CASE k = 0
  BY <1>2, <1>3, <1>4
<1>5. CASE k # 0
  <2>1. k \in 1 .. Len(idx[b].ents)
    BY <1>2, <1>3, <1>5
  <2>2. idx[b].ents[k] \in Entries /\ idx[b].ents[k].fpos < Len(bkt[b])
    BY <1>1, <2>1, ElementOfSeq
  <2>3. p \in 0 .. Len(bkt[b])
    BY <1>2, <1>5, <2>2, ResumeInside DEF Entries
  <2> QED BY <1>3, <2>3
<1> QED BY <1>4, <1>5

\* A resumed basket is opened at positions inside its files.
LEMMA ResumedAt ==
  ASSUME IInv, ResumeBasket
  PROVE  \E k \in Nat, p \in Nat :
           /\ ctrl' = OpenedCtrl(target.bid, p, k)
           /\ k <= Len(idx[target.bid].ents) /\ p <= Len(bkt[target.bid])
<1>1. TypeOK /\ EntriesInside /\ target.bid \in Baskets
  BY DEF IInv, PositionsFit, BasketsFit, ResumeBasket
<1>2. PICK k \in IndexStops(idx[target.bid]) :
        \E p \in IF k = 0 THEN {0} ELSE ResumeEnds(bkt[target.bid], idx[target.bid].ents[k]) :
          ctrl' = OpenedCtrl(target.bid, p, k)
  BY DEF ResumeBasket
<1>3. PICK p \in IF k = 0 THEN {0} ELSE ResumeEnds(bkt[target.bid], idx[target.bid].ents[k]) :
        ctrl' = OpenedCtrl(target.bid, p, k)
  BY <1>2
<1>4. k \in 0 .. Len(idx[target.bid].ents) /\ p \in 0 .. Len(bkt[target.bid])
  BY <1>1, ResumeStops
<1>5. /\ k \in Nat /\ p \in Nat
      /\ k <= Len(idx[target.bid].ents) /\ p <= Len(bkt[target.bid])
  BY <1>4
<1> QED BY <1>3, <1>5, Zenon

\* What each part of a flush does to its file and to the control block.
LEMMA FlushedData ==
  ASSUME IInv, FlushData
  PROVE  /\ bkt' \in [Baskets -> Seq(Slots)]
         /\ \A b \in Baskets : Len(bkt'[b]) >= Len(bkt[b])
         /\ fdOpen => ctrl'.fposB <= Len(bkt'[ctrl.bid])
         /\ ctrl' \in Ctrls /\ ctrl'.bid = ctrl.bid
         /\ ctrl'.fposI = ctrl.fposI /\ ctrl'.ibuf = ctrl.ibuf
         /\ ctrl'.bbuf = <<>> /\ ctrl'.fposB = ctrl.fposB + Len(ctrl.bbuf)
         /\ flushed' \in [Baskets -> [slots : Nat, ents : Nat]]
<1>1. /\ ctrl \in Ctrls /\ bkt \in [Baskets -> Seq(Slots)]
      /\ flushed \in [Baskets -> [slots : Nat, ents : Nat]]
      /\ ctrl.fposB \in Nat /\ ctrl.bbuf \in Seq(Slots)
      /\ \A b \in Baskets : Len(bkt[b]) \in Nat
      /\ Len(ctrl.bbuf) \in Nat
  BY LenProperties DEF IInv, TypeOK, Ctrls
<1>2. CASE ctrl.bbuf = <<>>
  <2>1. bkt' = bkt /\ ctrl' = ctrl /\ flushed' = flushed /\ Len(ctrl.bbuf) = 0
    BY <1>2, EmptySeq DEF FlushData
  <2> QED BY <1>1, <1>2, <2>1 DEF IInv, PositionsFit, BasketsFit
<1>3. CASE ctrl.bbuf # <<>>
  <2> DEFINE old == bkt[ctrl.bid]
             n == ctrl.fposB + Len(ctrl.bbuf)
  <2>1. /\ fdOpen /\ ctrl.bid \in Baskets
        /\ old \in Seq(Slots) /\ ctrl.fposB \in 0 .. Len(old)
    BY <1>1, <1>3 DEF FlushData, IInv, BasketsFit, PositionsFit
  <2>2. PICK aligned \in BOOLEAN :
          bkt' = [bkt EXCEPT ![ctrl.bid] = Overwrite(old, ctrl.fposB, ctrl.bbuf, aligned)]
    BY <1>3 DEF FlushData
  <2> DEFINE new == Overwrite(old, ctrl.fposB, ctrl.bbuf, aligned)
  <2>3. \A x \in Slots : Gap(x) \in Slots
    BY DEF Gap, Slots
  <2>4. new \in Seq(Slots) /\ Len(new) >= Len(old) /\ Len(new) >= n
    BY <1>1, <2>1, <2>3, OverwriteSeq
  <2> HIDE DEF new
  <2>5. /\ bkt' \in [Baskets -> Seq(Slots)] /\ bkt'[ctrl.bid] = new
        /\ \A b \in Baskets : Len(bkt'[b]) >= Len(bkt[b])
    BY <1>1, <2>1, <2>2, <2>4 DEF new
  <2>6. ctrl' = [ctrl EXCEPT !.fposB = n, !.bbuf = <<>>]
    BY <1>3 DEF FlushData
  <2>7. n \in Nat /\ <<>> \in Seq(Slots)
    BY <1>1, EmptySeq
  <2> HIDE DEF n
  <2>8. /\ ctrl' \in Ctrls /\ ctrl'.bid = ctrl.bid
        /\ ctrl'.fposI = ctrl.fposI /\ ctrl'.ibuf = ctrl.ibuf
        /\ ctrl'.bbuf = <<>> /\ ctrl'.fposB = n
    BY <1>1, <2>6, <2>7 DEF Ctrls
  <2>9. flushed' \in [Baskets -> [slots : Nat, ents : Nat]]
    <3>1. FirstFrames(ctrl.bbuf) \in Nat
      <4> DEFINE I == 1 .. Len(ctrl.bbuf)
                 T == {i \in I : \A j \in 1 .. i : IsFrame(ctrl.bbuf[j])}
      <4>1. IsFiniteSet(I)
        BY <1>1, FS_Interval
      <4>2. T \in SUBSET I
        OBVIOUS
      <4> HIDE DEF I, T
      <4> QED BY <4>1, <4>2, FS_Subset, FS_CardinalityType DEF FirstFrames, T, I
    <3>2. ctrl.fposB + FirstFrames(ctrl.bbuf) \in Nat
      BY <3>1, <1>1
    <3>3. flushed[ctrl.bid].slots \in Nat
      BY <1>1, <2>1
    <3>4. PICK v \in Nat : flushed' = [flushed EXCEPT ![ctrl.bid].slots = v]
      BY <1>3, <3>2, <3>3 DEF FlushData, AtLeast
    <3> QED BY <1>1, <3>4
  <2> QED BY <2>4, <2>5, <2>8, <2>9 DEF n
<1> QED BY <1>2, <1>3

\* What a flush of the index leaves on the disk and in memory.
LEMMA FlushedIndex ==
  ASSUME IInv, FlushIndex
  PROVE  /\ idx' \in [Baskets -> [count : Nat, ents : Seq(Entries)]]
         /\ EntriesInside'
         /\ fdOpen => ctrl'.fposI <= Len(idx'[ctrl.bid].ents)
         /\ ctrl' \in Ctrls /\ ctrl'.bid = ctrl.bid
         /\ ctrl'.fposB = ctrl.fposB /\ ctrl'.bbuf = ctrl.bbuf /\ ctrl'.ibuf = <<>>
         /\ flushed' \in [Baskets -> [slots : Nat, ents : Nat]]
<1>1. /\ ctrl \in Ctrls /\ idx \in [Baskets -> [count : Nat, ents : Seq(Entries)]]
      /\ flushed \in [Baskets -> [slots : Nat, ents : Nat]]
      /\ bkt \in [Baskets -> Seq(Slots)] /\ bkt' = bkt
      /\ ctrl.fposI \in Nat /\ ctrl.fposB \in Nat /\ ctrl.ibuf \in Seq(Entries)
      /\ \A b \in Baskets : Len(bkt[b]) \in Nat /\ Len(idx[b].ents) \in Nat
      /\ Len(ctrl.ibuf) \in Nat
  BY LenProperties DEF IInv, TypeOK, Ctrls, FlushIndex
<1>2. CASE ctrl.ibuf = <<>>
  <2>1. idx' = idx /\ ctrl' = ctrl /\ flushed' = flushed
    BY <1>2 DEF FlushIndex
  <2>2. EntriesInside'
    BY <1>1, <2>1 DEF IInv, PositionsFit, EntriesInside
  <2> QED BY <1>1, <1>2, <2>1, <2>2 DEF IInv, PositionsFit, BasketsFit
<1>3. CASE ctrl.ibuf # <<>>
  <2> DEFINE B == ctrl.bid
             Inner == {e \in Entries : e.fpos < Len(bkt[B])}
             n == ctrl.fposI + Len(ctrl.ibuf)
             new == Overwrite(idx[B].ents, ctrl.fposI, ctrl.ibuf, TRUE)
  <2>1. fdOpen /\ B \in Baskets /\ ctrl.fposI \in 0 .. Len(idx[B].ents)
    BY <1>1, <1>3 DEF FlushIndex, IInv, BasketsFit, PositionsFit
  <2>2. idx[B].ents \in Seq(Inner)
    <3>1. \A i \in 1 .. Len(idx[B].ents) : idx[B].ents[i] \in Inner
      BY <1>1, <2>1, ElementOfSeq DEF IInv, PositionsFit, EntriesInside
    <3>2. idx[B].ents \in Seq(Entries)
      BY <1>1, <2>1
    <3> HIDE DEF Inner, B
    <3> QED BY <3>1, <3>2, SeqOfSubset
  <2>3. ctrl.ibuf \in Seq(Inner)
    <3>1. /\ ctrl.fposB <= Len(bkt[B]) /\ Len(ctrl.bbuf) = 0
          /\ \A i \in 1 .. Len(ctrl.ibuf) : ctrl.ibuf[i].fpos < ctrl.fposB + Len(ctrl.bbuf)
      BY <2>1, EmptySeq DEF FlushIndex, IInv, PositionsFit
    <3>2. \A i \in 1 .. Len(ctrl.ibuf) : ctrl.ibuf[i] \in Inner
      <4> SUFFICES ASSUME NEW i \in 1 .. Len(ctrl.ibuf)
                   PROVE  ctrl.ibuf[i] \in Inner
        OBVIOUS
      <4>1. ctrl.ibuf[i] \in Entries /\ ctrl.ibuf[i].fpos \in Nat
        <5>1. ctrl.ibuf[i] \in Entries
          BY <1>1, ElementOfSeq
        <5> QED BY <5>1 DEF Entries
      <4>2. ctrl.ibuf[i].fpos < ctrl.fposB /\ Len(bkt[B]) \in Nat
        BY <1>1, <2>1, <3>1
      <4> QED BY <1>1, <3>1, <4>1, <4>2
    <3> QED BY <1>1, <3>2, SeqOfSubset
  <2>4. new \in Seq(Inner) /\ Len(new) >= Len(idx[B].ents) /\ Len(new) >= n
    BY <2>1, <2>2, <2>3, OverwriteSeq
  <2>5. idx' = [idx EXCEPT ![B].ents = new]
    BY <1>3 DEF FlushIndex
  <2>6. new \in Seq(Entries) /\ Len(new) \in Nat
        /\ \A i \in 1 .. Len(new) : new[i].fpos < Len(bkt[B])
    <3>1. Inner \subseteq Entries
      OBVIOUS
    <3>2. new \in Seq(Entries)
      BY <2>4, <3>1, SeqMonotonic
    <3> HIDE DEF new
    <3>3. Len(new) \in Nat /\ \A i \in 1 .. Len(new) : new[i] \in Inner
      BY <2>4, LenProperties, ElementOfSeq
    <3> QED BY <3>2, <3>3
  <2> HIDE DEF new
  <2>7. /\ idx' \in [Baskets -> [count : Nat, ents : Seq(Entries)]]
        /\ idx'[B].ents = new /\ idx'[B].count = idx[B].count
        /\ \A b \in Baskets : b # B => idx'[b] = idx[b]
    BY <1>1, <2>1, <2>5, <2>6
  <2>8. EntriesInside'
    <3> SUFFICES ASSUME NEW b \in Baskets
                 PROVE  /\ idx'[b].count <= Len(idx'[b].ents)
                        /\ \A i \in 1 .. Len(idx'[b].ents) :
                             idx'[b].ents[i].fpos < Len(bkt'[b])
      BY DEF EntriesInside
    <3>1. CASE b # B
      BY <3>1, <1>1, <2>7 DEF IInv, PositionsFit, EntriesInside
    <3>2. CASE b = B
      <4>1. idx[B].count \in Nat /\ idx[B].count <= Len(idx[B].ents)
        BY <1>1, <2>1 DEF IInv, PositionsFit, EntriesInside
      <4>2. idx[B].count <= Len(new)
        BY <4>1, <1>1, <2>1, <2>4, <2>6
      <4> QED BY <3>2, <4>2, <1>1, <2>6, <2>7
    <3> QED BY <3>1, <3>2
  <2>9. ctrl' = [ctrl EXCEPT !.fposI = n, !.ibuf = <<>>]
    BY <1>3 DEF FlushIndex
  <2>10. n \in Nat /\ <<>> \in Seq(Entries)
    BY <1>1, EmptySeq
  <2>11. flushed' \in [Baskets -> [slots : Nat, ents : Nat]]
    <3>1. flushed[B].ents \in Nat
      BY <1>1, <2>1
    <3>2. PICK v \in Nat : flushed' = [flushed EXCEPT ![B].ents = v]
      BY <1>3, <2>10, <3>1 DEF FlushIndex, AtLeast
    <3> QED BY <1>1, <3>2
  <2> HIDE DEF n
  <2>12. /\ ctrl' \in Ctrls /\ ctrl'.bid = ctrl.bid /\ ctrl'.fposI = n
         /\ ctrl'.fposB = ctrl.fposB /\ ctrl'.bbuf = ctrl.bbuf /\ ctrl'.ibuf = <<>>
    BY <1>1, <2>9, <2>10 DEF Ctrls
  <2> QED BY <2>4, <2>7, <2>8, <2>11, <2>12
<1> QED BY <1>2, <1>3

\* What a flush of the day file leaves on the disk and in memory.
LEMMA FlushedRows ==
  ASSUME IInv, FlushRdb
  PROVE  /\ rdb' \subseteq Rows /\ ctrl' \in Ctrls
         /\ ctrl'.bid = ctrl.bid /\ ctrl'.fposB = ctrl.fposB /\ ctrl'.fposI = ctrl.fposI
         /\ ctrl'.bbuf = ctrl.bbuf /\ ctrl'.ibuf = ctrl.ibuf
<1>1. ctrl \in Ctrls /\ rdb \subseteq Rows /\ ctrl.rbuf \in Seq(Rows)
      /\ Len(ctrl.rbuf) \in Nat /\ \A i \in 1 .. Len(ctrl.rbuf) : ctrl.rbuf[i] \in Rows
  BY LenProperties, ElementOfSeq DEF IInv, TypeOK, Ctrls
<1>2. CASE ~Due
  BY <1>1, <1>2 DEF FlushRdb
<1>3. CASE Due
  <2>1. PICK n \in 1 .. Len(ctrl.rbuf) :
          /\ rdb' \subseteq rdb \cup {ctrl.rbuf[i] : i \in 1 .. n}
          /\ ctrl' = [ctrl EXCEPT !.rbuf = SubSeq(ctrl.rbuf, n + 1, Len(ctrl.rbuf))]
    BY <1>3 DEF FlushRdb
  <2> DEFINE rest == SubSeq(ctrl.rbuf, n + 1, Len(ctrl.rbuf))
  <2>2. rest \in Seq(Rows)
    <3>1. /\ n + 1 \in Int /\ Len(ctrl.rbuf) \in Int
          /\ \A i \in n + 1 .. Len(ctrl.rbuf) : ctrl.rbuf[i] \in Rows
      BY <1>1
    <3> QED BY <3>1, SubSeqProperties
  <2>3. rdb' \subseteq Rows
    BY <1>1, <2>1
  <2> HIDE DEF rest
  <2>4. /\ ctrl' = [ctrl EXCEPT !.rbuf = rest]
    BY <2>1 DEF rest
  <2> QED BY <1>1, <2>2, <2>3, <2>4 DEF Ctrls
<1> QED BY <1>2, <1>3

\* A write of frame f rolls over, flushes or buffers it.
Wrote(f) ==
  \/ op' = "roll" /\ pc' = "data" /\ cur' = f /\ ctrl' = RollCtrl(f)
  \/ op' = "flush" /\ pc' = "data" /\ cur' = f /\ ctrl' = FlushCtrl(f)
  \/ UNCHANGED <<op, pc, cur>> /\ ctrl' = With(ctrl, f)

\* A call with a frame has one of the three outcomes.
LEMMA Requested ==
  ASSUME IInv, RequestWrite
  PROVE  \E f \in Slots : Wrote(f)
<1>1. PICK c \in Channels, k \in Kinds : Wrote(Frame(c, now, k))
  BY DEF RequestWrite, Wrote
<1>2. now \in Nat
  BY DEF IInv, TypeOK
<1>3. Frame(c, now, k) \in Slots
  BY <1>2, FrameType
<1> QED BY <1>1, <1>3

\* The basket recycled is one of the disk.
LEMMA OldestInside == Oldest \subseteq Baskets
<1>1. 1 \in Baskets
  BY RecorderAssumption DEF Baskets
<1>2. ({1} \cup {b \in Baskets : mgr[b].flag = "full"}) \subseteq Baskets
  BY <1>1
<1> QED BY <1>2, Zenon DEF Oldest

\* A step that writes the manager file and nothing else.
LEMMA MgrKeepsTypes ==
  ASSUME TypeOK, mgr' \in [Baskets -> [flag : Flags, t2 : Times]], pc' \in PCs,
         UNCHANGED <<recinfo, bkt, idx, rdb, ctrl, status, space, fdOpen, flushed, env>>,
         UNCHANGED <<op, cur, target>>
  PROVE  TypeOK'
<1>1. /\ UNCHANGED <<recinfo, bkt, idx, rdb, ctrl>>
      /\ UNCHANGED <<status, space, fdOpen, flushed>>
      /\ UNCHANGED env
  OBVIOUS
<1>2. UNCHANGED <<recycle, saving, now, frames, stops, crashes, errors>>
  BY DEF env
<1> QED BY <1>1, <1>2 DEF TypeOK

\* Every step keeps the types.
LEMMA TypeStep ==
  ASSUME IInv, Next
  PROVE  TypeOK'
<1>0. TypeOK
  BY DEF IInv
<1> USE <1>0 DEF TypeOK, PCs
<1>1. CASE RequestOpen
  BY <1>1, ZeroType DEF RequestOpen, disk, env
<1>2. CASE SearchResumable
  <2>1. ctrl' \in Ctrls
    BY <1>2, ZenonT(60) DEF SearchResumable, Ctrls
  <2> QED BY <1>2, <2>1 DEF SearchResumable, disk, env, Flags
<1>3. CASE SearchEmpty
  BY <1>3, ClearedType DEF SearchEmpty, Empty, disk, env, Flags, Baskets
<1>4. CASE SearchOldest
  <2>1. Oldest \subseteq Baskets
    BY OldestInside
  <2>2. PICK b \in Oldest :
           /\ rdb' = RemoveRDB(rdb, b, MinTS(mgr[b].t2))
           /\ ctrl' = SearchCtrl(b)
           /\ target' \in {[bid |-> b, flag |-> "full"], NoTarget}
           /\ status' \in {status, "full"}
           /\ op' \in {op, "none"} /\ pc' \in {"header", "idle"}
           /\ cur' \in {cur, NoFrame} /\ saving' \subseteq saving
    BY <1>4 DEF SearchOldest, GiveUp, Return
  <2>3. rdb' \subseteq Rows
    BY <2>2 DEF RemoveRDB
  <2>4. ctrl' \in Ctrls
    BY <2>1, <2>2, ClearedType
  <2>5. target' \in Targets
    BY <2>1, <2>2, ZeroType DEF Targets, Flags, Baskets
  <2> QED BY <1>4, <2>2, <2>3, <2>4, <2>5 DEF SearchOldest, Targets
<1>5. CASE WriteHeaders
  <2>1. ctrl' \in Ctrls
    BY <1>5, OpenedType, ZenonT(60) DEF WriteHeaders, IInv, BasketsFit
  <2> QED BY <1>5, <2>1, ZenonT(60) DEF WriteHeaders, Goto, env
<1>6. CASE ResumeBasket
  <2>1. PICK k, p : /\ k \in Nat /\ p \in Nat
                    /\ ctrl' = OpenedCtrl(target.bid, p, k)
    BY <1>6, ResumedAt
  <2>2. ctrl' \in Ctrls
    BY <1>6, <2>1, OpenedType DEF ResumeBasket, IInv, BasketsFit
  <2>3. flushed' \in [Baskets -> [slots : Nat, ents : Nat]]
    <3>1. flushed' \in {flushed, [flushed EXCEPT ![target.bid].slots = 0]}
      BY <1>6 DEF ResumeBasket
    <3>2. flushed \in [Baskets -> [slots : Nat, ents : Nat]]
      OBVIOUS
    <3>3. [flushed EXCEPT ![target.bid].slots = 0] \in [Baskets -> [slots : Nat, ents : Nat]]
      BY ONLY <3>2
    <3> QED BY ONLY <3>1, <3>2, <3>3
  <2> QED BY <1>6, <2>2, <2>3 DEF ResumeBasket, Goto, disk, env
<1>7. CASE OpenError
  BY <1>7, ZeroType DEF OpenError, GiveUp, Return, disk, Targets
<1>8. CASE MarkManager
  <2>1. mgr' \in [Baskets -> [flag : Flags, t2 : Times]]
    <3>1. mgr' = [mgr EXCEPT ![ctrl.bid].flag = "using"] /\ "using" \in Flags
      BY <1>8 DEF MarkManager, Flags
    <3>2. mgr \in [Baskets -> [flag : Flags, t2 : Times]]
      OBVIOUS
    <3> QED BY ONLY <3>1, <3>2
  <2>2. pc' \in PCs
    BY <1>8 DEF MarkManager, Goto, PCs
  <2>3. /\ UNCHANGED <<recinfo, bkt, idx, rdb, ctrl, status, space, fdOpen, flushed, env>>
        /\ UNCHANGED <<op, cur, target>>
    BY <1>8 DEF MarkManager, Goto
  <2> QED BY ONLY <1>0, <2>1, <2>2, <2>3, MgrKeepsTypes
<1>9. CASE MarkRecinfo
  BY <1>9, ZeroType DEF MarkRecinfo, Goto, Return, env, Flags, Ctrls, Targets
<1>10. CASE RequestWrite
  <2>1. PICK f \in Slots : Wrote(f)
    BY <1>10, Requested
  <2>2. saving' \subseteq Channels
    BY <1>10 DEF RequestWrite
  <2>3. ctrl' \in Ctrls /\ (cur' = NoFrame \/ cur' \in Slots)
    BY <2>1, WithType, RollType, ZenonT(120) DEF Wrote
  <2>4. op' \in {op, "roll", "flush"} /\ pc' \in {pc, "data"}
    BY <2>1 DEF Wrote
  <2> QED BY <1>10, <2>2, <2>3, <2>4 DEF RequestWrite, disk
<1>11. CASE AppendFrame
  <2>1. ctrl' \in Ctrls
    BY <1>11, WithType, ZenonT(60) DEF AppendFrame, IInv, CallsFit
  <2> QED BY <1>11, <2>1, ZeroType DEF AppendFrame, Return, disk, env, Targets
<1>12. CASE FlushData
  <2>1. bkt' \in [Baskets -> Seq(Slots)]
    BY <1>12, FlushedData DEF FlushData
  <2>2. ctrl' \in Ctrls
    BY <1>12, FlushedData
  <2>3. flushed' \in [Baskets -> [slots : Nat, ents : Nat]]
    BY <1>12, FlushedData
  <2> QED BY <1>12, <2>1, <2>2, <2>3 DEF FlushData, Goto, env
<1>13. CASE FlushIndex
  <2> QED BY <1>13, FlushedIndex, ZenonT(60) DEF FlushIndex, Goto, env
<1>14. CASE FlushRdb
  <2>1. rdb' \subseteq Rows /\ ctrl' \in Ctrls
    BY <1>14, FlushedRows
  <2> QED BY <1>14, <2>1 DEF FlushRdb, AfterFlush, Goto, env
<1>15. CASE FlushError
  <2>1. ctrl' \in Ctrls
    BY <1>15, EmptySeq, ZenonT(60) DEF FlushError, Ctrls
  <2>2. errors' \in Nat
    BY <1>15 DEF FlushError
  <2> QED BY <1>15, <2>1, <2>2, ZeroType DEF FlushError, GiveUp, Return, disk, Targets
<1>16. CASE RequestExit
  BY <1>16 DEF RequestExit, disk
<1>17. CASE CloseIndex
  <2>1. idx' \in [Baskets -> [count : Nat, ents : Seq(Entries)]]
    BY <1>17, ZenonT(60) DEF CloseIndex, Ctrls
  <2> QED BY <1>17, <2>1, ZenonT(60) DEF CloseIndex, Goto, env
<1>18. CASE CloseMgr
  <2>1. mgr' \in [Baskets -> [flag : Flags, t2 : Times]]
    <3>1. /\ ctrl.bktT2 \in Times /\ ClosedFlag \in Flags
      BY DEF Ctrls, ClosedFlag, Flags
    <3>2. [flag |-> ClosedFlag, t2 |-> ctrl.bktT2] \in [flag : Flags, t2 : Times]
      BY <3>1
    <3> QED BY <1>18, <3>2, ZenonT(60) DEF CloseMgr
  <2>2. ctrl' \in Ctrls
    BY <1>18, ClosedType DEF CloseMgr
  <2> QED BY <1>18, <2>1, <2>2, ZeroType DEF CloseMgr, Closed, Goto, Return, env, Targets
<1>19. CASE CloseRecinfo
  <2>1. recinfo' \in [bid : 0 .. NBaskets, flag : Flags]
    BY <1>19 DEF CloseRecinfo, Ctrls, ClosedFlag, Flags
  <2>2. ctrl' \in Ctrls
    BY <1>19, ClosedType DEF CloseRecinfo
  <2> QED BY <1>19, <2>1, <2>2, ZeroType DEF CloseRecinfo, Closed, Goto, Return, env, Targets
<1>20. CASE Crash
  <2>1. {now, frames, stops, crashes, errors}' \subseteq Nat
    BY <1>20 DEF Crash
  <2>2. ctrl' \in Ctrls /\ target' \in Targets
    BY <1>20, ZeroType DEF Crash, Return
  <2>3. fdOpen' \in BOOLEAN
    BY <1>20, ZenonT(60) DEF Crash
  <2> QED BY <1>20, <2>1, <2>2, <2>3 DEF Crash, Return, disk, Targets
<1>21. CASE SetRecycleMode
  BY <1>21 DEF SetRecycleMode, disk, call
<1>22. CASE Tick
  BY <1>22 DEF Tick, disk, memory, call
<1> QED
  BY <1>1, <1>2, <1>3, <1>4, <1>5, <1>6, <1>7, <1>8, <1>9, <1>10, <1>11,
     <1>12, <1>13, <1>14, <1>15, <1>16, <1>17, <1>18, <1>19, <1>20, <1>21, <1>22 DEF Next

-----------------------------------------------------------------------------
(* The parts of the inductive invariant.                                   *)

\* Each call's steps lead where that call goes on.
LEMMA CallsStep ==
  ASSUME IInv, Next
  PROVE  CallsFit'
<1>0. /\ CallsFit
      /\ op \in {"none", "open", "exit", "roll", "flush"} /\ (cur = NoFrame \/ cur \in Slots)
  BY RecorderAssumption DEF IInv, TypeOK
<1> USE <1>0 DEF CallsFit, Opening, Marking, Flushing, Closing
<1>1. CASE RequestOpen
  BY <1>1 DEF RequestOpen, disk, env
<1>2. CASE SearchResumable
  BY <1>2 DEF SearchResumable, Resumable, disk, env
<1>3. CASE SearchEmpty
  BY <1>3 DEF SearchEmpty, disk, env
<1>4. CASE SearchOldest
  BY <1>4 DEF SearchOldest, GiveUp, Return
<1>5. CASE WriteHeaders
  BY <1>5 DEF WriteHeaders, Goto, env
<1>6. CASE ResumeBasket
  BY <1>6 DEF ResumeBasket, Goto, disk, env
<1>7. CASE OpenError
  BY <1>7 DEF OpenError, GiveUp, Return, disk
<1>8. CASE MarkManager
  BY <1>8 DEF MarkManager, Goto, env
<1>9. CASE MarkRecinfo
  BY <1>9 DEF MarkRecinfo, Goto, Return, env
<1>10. CASE RequestWrite
  <2>1. PICK f \in Slots : Wrote(f)
    BY <1>10, Requested
  <2> QED BY <1>10, <2>1 DEF RequestWrite, Wrote, disk
<1>11. CASE AppendFrame
  BY <1>11 DEF AppendFrame, Return, disk, env
<1>12. CASE FlushData
  BY <1>12 DEF FlushData, Goto, env
<1>13. CASE FlushIndex
  BY <1>13 DEF FlushIndex, Goto, env
<1>14. CASE FlushRdb
  BY <1>14 DEF FlushRdb, AfterFlush, Goto, env
<1>15. CASE FlushError
  BY <1>15 DEF FlushError, GiveUp, Return, disk, HasData
<1>16. CASE RequestExit
  BY <1>16 DEF RequestExit, disk
<1>17. CASE CloseIndex
  BY <1>17 DEF CloseIndex, Goto, env
<1>18. CASE CloseMgr
  BY <1>18 DEF CloseMgr, Closed, ClosedFlag, Goto, Return, env
<1>19. CASE CloseRecinfo
  BY <1>19 DEF CloseRecinfo, Closed, ClosedFlag, Goto, Return, env
<1>20. CASE Crash
  BY <1>20 DEF Crash, Return, disk
<1>21. CASE SetRecycleMode
  BY <1>21 DEF SetRecycleMode, disk, call
<1>22. CASE Tick
  BY <1>22 DEF Tick, disk, memory, call
<1> QED
  BY <1>1, <1>2, <1>3, <1>4, <1>5, <1>6, <1>7, <1>8, <1>9, <1>10, <1>11,
     <1>12, <1>13, <1>14, <1>15, <1>16, <1>17, <1>18, <1>19, <1>20, <1>21, <1>22 DEF Next

\* A call works on a basket of the disk, and the files are open when it writes.
LEMMA BasketsStep ==
  ASSUME IInv, Next
  PROVE  BasketsFit'
<1>0. /\ BasketsFit /\ CallsFit /\ ctrl.bid \in 0 .. NBaskets
      /\ status \in {"closed", "opened", "full"} /\ fdOpen \in BOOLEAN
      /\ recinfo \in [bid : 0 .. NBaskets, flag : Flags]
  BY DEF IInv, TypeOK, Ctrls
<1> USE <1>0 DEF BasketsFit, CallsFit, Opening, Marking, Flushing, Closing
<1>1. CASE RequestOpen
  BY <1>1 DEF RequestOpen, disk, env
<1>2. CASE SearchResumable
  BY <1>2 DEF SearchResumable, Resumable, disk, env
<1>3. CASE SearchEmpty
  BY <1>3 DEF SearchEmpty, disk, env, Empty
<1>4. CASE SearchOldest
  <2>1. Oldest \subseteq Baskets
    BY OldestInside
  <2>2. PICK b \in Oldest :
           \/ pc' = "header" /\ target' = [bid |-> b, flag |-> "full"] /\ status' = status
           \/ pc' = "idle"
    BY <1>4 DEF SearchOldest, GiveUp, Return
  <2> QED BY <1>4, <2>1, <2>2 DEF SearchOldest
<1>5. CASE WriteHeaders
  <2>1. ctrl'.bid = target.bid
    <3>1. ctrl \in Ctrls /\ now \in Nat /\ target.bid \in Baskets
      BY <1>5 DEF WriteHeaders, IInv, TypeOK
    <3>2. ctrl' = OpenedCtrl(target.bid, 0, 0)
      BY <1>5 DEF WriteHeaders
    <3> QED BY <3>1, <3>2, OpenedType
  <2> QED BY <1>5, <2>1 DEF WriteHeaders, Goto, env
<1>6. CASE ResumeBasket
  <2>1. ctrl'.bid = target.bid
    BY <1>6, ResumedAt, OpenedType, SMTT(40) DEF ResumeBasket, IInv, TypeOK
  <2> QED BY <1>6, <2>1 DEF ResumeBasket, Goto, disk, env
<1>7. CASE OpenError
  BY <1>7 DEF OpenError, GiveUp, Return, disk
<1>8. CASE MarkManager
  BY <1>8 DEF MarkManager, Goto, env
<1>9. CASE MarkRecinfo
  BY <1>9 DEF MarkRecinfo, Goto, Return, env
<1>10. CASE RequestWrite
  <2>1. ctrl \in Ctrls
    BY DEF IInv, TypeOK
  <2>2. PICK f \in Slots : Wrote(f)
    BY <1>10, Requested
  <2>3. ctrl'.bid = ctrl.bid
    <3>1. CASE ctrl' = With(ctrl, f)
      BY <2>1, <3>1, WithType
    <3>2. CASE ctrl' \in {RollCtrl(f), FlushCtrl(f)}
      BY <2>1, <3>2, RollType
    <3> QED BY <2>2, <3>1, <3>2 DEF Wrote
  <2>4. pc' \in {pc, "data"}
    BY <2>2 DEF Wrote
  <2> QED BY <2>4, <1>10, <2>3 DEF RequestWrite, disk
<1>11. CASE AppendFrame
  <2>1. ctrl'.bid = ctrl.bid
    BY <1>11, WithType DEF AppendFrame, IInv, TypeOK
  <2> QED BY <1>11, <2>1 DEF AppendFrame, Return, disk, env
<1>12. CASE FlushData
  BY <1>12, FlushedData DEF FlushData, Goto, env
<1>13. CASE FlushIndex
  BY <1>13, FlushedIndex DEF FlushIndex, Goto, env
<1>14. CASE FlushRdb
  <2>1. ctrl'.bid = ctrl.bid /\ pc' \in {"append", "closeIndex"}
    BY <1>14, FlushedRows DEF FlushRdb, AfterFlush, Goto
  <2> QED BY <1>14, <2>1 DEF FlushRdb, env
<1>15. CASE FlushError
  BY <1>15 DEF FlushError, GiveUp, Return, disk, HasData
<1>16. CASE RequestExit
  BY <1>16 DEF RequestExit, disk
<1>17. CASE CloseIndex
  BY <1>17 DEF CloseIndex, Goto, env
<1>18. CASE CloseMgr
  <2>1. CASE ctrl.bid # 0
    BY <1>18, <2>1 DEF CloseMgr, Goto, Baskets
  <2>2. CASE ctrl.bid = 0
    BY <1>18, <2>2 DEF CloseMgr, Closed, Goto, Return
  <2> QED BY <2>1, <2>2
<1>19. CASE CloseRecinfo
  BY <1>19 DEF CloseRecinfo, Closed, ClosedFlag, Goto, Return, env
<1>20. CASE Crash
  BY <1>20 DEF Crash, Return, disk
<1>21. CASE SetRecycleMode
  BY <1>21 DEF SetRecycleMode, disk, call
<1>22. CASE Tick
  BY <1>22 DEF Tick, disk, memory, call
<1> QED
  BY <1>1, <1>2, <1>3, <1>4, <1>5, <1>6, <1>7, <1>8, <1>9, <1>10, <1>11,
     <1>12, <1>13, <1>14, <1>15, <1>16, <1>17, <1>18, <1>19, <1>20, <1>21, <1>22 DEF Next

\* A step that writes neither file, and moves no position of an open one, keeps
\* the positions inside if what it leaves in the buffers is accounted for.
LEMMA PositionsFrame ==
  ASSUME PositionsFit, UNCHANGED <<bkt, idx>>,
         fdOpen' => /\ fdOpen /\ ctrl'.bid = ctrl.bid
                    /\ ctrl'.fposB = ctrl.fposB /\ ctrl'.fposI = ctrl.fposI,
         \/ ctrl'.ibuf = <<>>
         \/ ctrl'.ibuf = ctrl.ibuf /\ ctrl'.bbuf = ctrl.bbuf /\ ctrl'.fposB = ctrl.fposB,
         pc' \notin {"idle", "data"} => ctrl'.bbuf = <<>>,
         pc' \notin {"idle", "data", "index"} => ctrl'.ibuf = <<>>
  PROVE  PositionsFit'
<1>1. EntriesInside'
  BY DEF PositionsFit, EntriesInside
<1>2. fdOpen' => /\ ctrl'.fposB <= Len(bkt'[ctrl'.bid])
                 /\ ctrl'.fposI <= Len(idx'[ctrl'.bid].ents)
  BY DEF PositionsFit
<1>3. \A n \in 1 .. Len(ctrl'.ibuf) : ctrl'.ibuf[n].fpos < ctrl'.fposB + Len(ctrl'.bbuf)
  <2>1. CASE ctrl'.ibuf = <<>>
    BY <2>1, EmptySeq
  <2>2. CASE /\ ctrl'.ibuf = ctrl.ibuf /\ ctrl'.bbuf = ctrl.bbuf
             /\ ctrl'.fposB = ctrl.fposB
    BY <2>2 DEF PositionsFit
  <2> QED BY <2>1, <2>2
<1> QED BY <1>1, <1>2, <1>3 DEF PositionsFit

\* Buffering a frame: its entry points to the frame itself.
LEMMA PositionsWith ==
  ASSUME IInv, NEW f \in Slots, ctrl' = With(ctrl, f), UNCHANGED <<bkt, idx, fdOpen>>,
         pc' = "idle"
  PROVE  PositionsFit'
<1>1. /\ PositionsFit /\ ctrl \in Ctrls /\ f.ch \in Channels /\ f.ts \in Nat
      /\ ctrl.bbuf \in Seq(Slots) /\ ctrl.ibuf \in Seq(Entries) /\ ctrl.fposB \in Nat
  BY DEF IInv, TypeOK, Ctrls, Slots
<1>2. Len(ctrl.bbuf) \in Nat /\ Len(ctrl.ibuf) \in Nat
  BY <1>1, LenProperties
<1> DEFINE e == [ch |-> f.ch, ts |-> f.ts, fpos |-> ctrl.fposB + Len(ctrl.bbuf)]
<1>3. /\ ctrl'.bid = ctrl.bid /\ ctrl'.fposB = ctrl.fposB /\ ctrl'.fposI = ctrl.fposI
      /\ ctrl'.bbuf = Append(ctrl.bbuf, f)
      /\ ctrl'.ibuf = ctrl.ibuf \/ ctrl'.ibuf = Append(ctrl.ibuf, e)
  BY <1>1, WithType
<1>4. Len(ctrl'.bbuf) = Len(ctrl.bbuf) + 1
  BY <1>1, <1>3, AppendProperties
<1>5. EntriesInside'
  BY <1>1 DEF PositionsFit, EntriesInside
<1>6. fdOpen' => /\ ctrl'.fposB <= Len(bkt'[ctrl'.bid])
                 /\ ctrl'.fposI <= Len(idx'[ctrl'.bid].ents)
  BY <1>1, <1>3 DEF PositionsFit
<1>7. \A n \in 1 .. Len(ctrl.ibuf) : /\ ctrl.ibuf[n].fpos \in Nat
                                     /\ ctrl.ibuf[n].fpos < ctrl.fposB + Len(ctrl.bbuf)
  <2>1. \A n \in 1 .. Len(ctrl.ibuf) : ctrl.ibuf[n] \in Entries
    BY <1>1, ElementOfSeq
  <2> QED BY <1>1, <2>1 DEF PositionsFit, Entries
<1>8. \A n \in 1 .. Len(ctrl'.ibuf) : ctrl'.ibuf[n].fpos < ctrl'.fposB + Len(ctrl'.bbuf)
  <2>1. CASE ctrl'.ibuf = ctrl.ibuf
    BY <2>1, <1>1, <1>2, <1>3, <1>4, <1>7
  <2>2. CASE ctrl'.ibuf = Append(ctrl.ibuf, e)
    <3>1. e \in Entries /\ e.fpos = ctrl.fposB + Len(ctrl.bbuf)
      BY <1>1, <1>2 DEF Entries
    <3> HIDE DEF e
    <3>2. /\ Len(ctrl'.ibuf) = Len(ctrl.ibuf) + 1
          /\ \A n \in 1 .. Len(ctrl.ibuf) : ctrl'.ibuf[n] = ctrl.ibuf[n]
          /\ ctrl'.ibuf[Len(ctrl.ibuf) + 1] = e
      BY <2>2, <3>1, <1>1, AppendProperties
    <3> DEFINE X == ctrl.fposB + Len(ctrl.bbuf)
    <3>3. X \in Nat /\ ctrl'.fposB + Len(ctrl'.bbuf) = X + 1
      BY <1>1, <1>2, <1>3, <1>4
    <3>4. \A n \in 1 .. Len(ctrl.ibuf) : ctrl'.ibuf[n].fpos \in Nat /\ ctrl'.ibuf[n].fpos < X
      BY <1>7, <3>2
    <3>5. ctrl'.ibuf[Len(ctrl.ibuf) + 1].fpos = X
      BY <3>1, <3>2
    <3> HIDE DEF X
    <3> DEFINE m == Len(ctrl.ibuf)
    <3>6. m \in Nat /\ Len(ctrl'.ibuf) = m + 1
      BY <1>2, <3>2
    <3>7. \A n \in 1 .. m : ctrl'.ibuf[n].fpos \in Nat /\ ctrl'.ibuf[n].fpos < X
      BY <3>4
    <3>8. ctrl'.ibuf[m + 1].fpos = X
      BY <3>5
    <3> HIDE DEF m
    <3>9. \A n \in 1 .. m + 1 : ctrl'.ibuf[n].fpos < X + 1
      BY ONLY <3>3, <3>6, <3>7, <3>8
    <3> QED BY <3>3, <3>6, <3>9
  <2> QED BY <1>3, <2>1, <2>2
<1> QED BY <1>5, <1>6, <1>8 DEF PositionsFit

\* The write positions stay inside the files, and every entry inside its stream.
LEMMA PositionsStep ==
  ASSUME IInv, Next
  PROVE  PositionsFit'
<1>0. /\ PositionsFit /\ BasketsFit /\ CallsFit /\ ctrl \in Ctrls /\ now \in Nat
      /\ pc \in PCs
      /\ pc \notin {"idle", "data"} => ctrl.bbuf = <<>>
      /\ pc \notin {"idle", "data", "index"} => ctrl.ibuf = <<>>
      /\ pc \in Opening \cup {"closeMgr", "closeRecinfo"} => ~fdOpen
  BY DEF IInv, TypeOK, PositionsFit, BasketsFit
<1> USE <1>0
<1>1. CASE RequestOpen
  BY <1>1, ZeroType, PositionsFrame DEF RequestOpen, disk, env, BasketsFit
<1>2. CASE SearchResumable
  <2>1. ctrl'.bbuf = ctrl.bbuf /\ ctrl'.ibuf = ctrl.ibuf /\ ~fdOpen'
    BY <1>2 DEF SearchResumable, Ctrls, Opening
  <2> QED BY <1>2, <2>1, PositionsFrame DEF SearchResumable, disk, env
<1>3. CASE SearchEmpty
  <2>1. ctrl'.bbuf = ctrl.bbuf /\ ctrl'.ibuf = ctrl.ibuf /\ ~fdOpen'
    BY <1>3 DEF SearchEmpty, SearchCtrl, Cleared, Ctrls, Opening
  <2> QED BY <1>3, <2>1, PositionsFrame DEF SearchEmpty, disk, env
<1>4. CASE SearchOldest
  <2>1. ctrl'.bbuf = ctrl.bbuf /\ ctrl'.ibuf = ctrl.ibuf /\ ~fdOpen'
    BY <1>4 DEF SearchOldest, SearchCtrl, Cleared, Ctrls, Opening
  <2> QED BY <1>4, <2>1, PositionsFrame DEF SearchOldest
<1>5. CASE WriteHeaders
  <2>1. target.bid \in Baskets
    BY <1>5 DEF WriteHeaders, BasketsFit
  <2>2. /\ ctrl'.bid = target.bid /\ ctrl'.fposB = 0 /\ ctrl'.fposI = 0
        /\ ctrl'.bbuf = <<>> /\ ctrl'.ibuf = <<>>
    <3>1. ctrl' = OpenedCtrl(target.bid, 0, 0) /\ ctrl.bbuf = <<>> /\ ctrl.ibuf = <<>>
      BY <1>5 DEF WriteHeaders
    <3> QED BY <2>1, <3>1, OpenedType
  <2>3. /\ bkt' = bkt /\ idx' = [idx EXCEPT ![target.bid].count = 0]
    BY <1>5 DEF WriteHeaders
  <2>4. /\ bkt \in [Baskets -> Seq(Slots)]
        /\ idx \in [Baskets -> [count : Nat, ents : Seq(Entries)]]
    BY DEF IInv, TypeOK
  <2>5. \A b \in Baskets : Len(bkt[b]) \in Nat /\ Len(idx[b].ents) \in Nat
    BY <2>4, LenProperties
  <2>6. \A b \in Baskets : idx'[b].ents = idx[b].ents /\ idx'[b].count \in {0, idx[b].count}
    BY <2>3, <2>4
  <2>7. EntriesInside'
    BY <2>3, <2>5, <2>6 DEF PositionsFit, EntriesInside
  <2> QED BY <2>1, <2>2, <2>3, <2>5, <2>6, <2>7, EmptySeq DEF PositionsFit
<1>6. CASE ResumeBasket
  <2>1. PICK k \in Nat, p \in Nat :
          /\ ctrl' = OpenedCtrl(target.bid, p, k)
          /\ k <= Len(idx[target.bid].ents) /\ p <= Len(bkt[target.bid])
    BY <1>6, ResumedAt
  <2>2. target.bid \in Baskets /\ UNCHANGED <<bkt, idx>>
    BY <1>6 DEF ResumeBasket, BasketsFit, disk
  <2>3. /\ ctrl'.bid = target.bid /\ ctrl'.fposB = p /\ ctrl'.fposI = k
        /\ ctrl'.bbuf = <<>> /\ ctrl'.ibuf = <<>>
    BY <1>6, <2>1, <2>2, OpenedType DEF ResumeBasket
  <2>4. EntriesInside'
    BY <2>2 DEF PositionsFit, EntriesInside
  <2> QED BY <2>1, <2>2, <2>3, <2>4, EmptySeq DEF PositionsFit
<1>7. CASE OpenError
  BY <1>7, PositionsFrame DEF OpenError, GiveUp, Return, disk
<1>8. CASE MarkManager
  BY <1>8, PositionsFrame DEF MarkManager, Goto, env
<1>9. CASE MarkRecinfo
  BY <1>9, PositionsFrame DEF MarkRecinfo, Goto, Return, env
<1>10. CASE RequestWrite
  <2>1. PICK f \in Slots : Wrote(f)
    BY <1>10, Requested
  <2>2. pc = "idle" /\ UNCHANGED <<bkt, idx, fdOpen>>
    BY <1>10 DEF RequestWrite, disk
  <2>3. CASE ctrl' = With(ctrl, f) /\ pc' = pc
    BY <2>2, <2>3, PositionsWith
  <2>4. CASE pc' = "data" /\ ctrl' \in {RollCtrl(f), FlushCtrl(f)}
    <3>1. /\ ctrl'.bid = ctrl.bid /\ ctrl'.fposB = ctrl.fposB /\ ctrl'.fposI = ctrl.fposI
          /\ ctrl'.ibuf = ctrl.ibuf /\ Len(ctrl'.bbuf) >= Len(ctrl.bbuf)
      <4>1. Len(ctrl.bbuf) \in Nat
        BY LenProperties DEF Ctrls
      <4> QED BY <2>4, <4>1, RollType
    <3>2. EntriesInside'
      BY <2>2 DEF PositionsFit, EntriesInside
    <3>3. \A n \in 1 .. Len(ctrl.ibuf) : ctrl.ibuf[n].fpos < ctrl.fposB + Len(ctrl'.bbuf)
      <4>1. /\ ctrl.fposB \in Nat /\ Len(ctrl.bbuf) \in Nat /\ Len(ctrl'.bbuf) \in Nat
            /\ \A n \in 1 .. Len(ctrl.ibuf) : ctrl.ibuf[n].fpos \in Nat
        <5>1. ctrl' \in Ctrls
          BY <2>4, RollType
        <5>2. /\ ctrl.bbuf \in Seq(Slots) /\ ctrl'.bbuf \in Seq(Slots)
              /\ ctrl.ibuf \in Seq(Entries) /\ ctrl.fposB \in Nat
          BY <5>1 DEF Ctrls
        <5>3. \A n \in 1 .. Len(ctrl.ibuf) : ctrl.ibuf[n] \in Entries
          BY <5>2, ElementOfSeq
        <5> QED BY <5>2, <5>3, LenProperties DEF Entries
      <4> QED BY <4>1, <3>1 DEF PositionsFit
    <3> QED BY <2>2, <2>4, <3>1, <3>2, <3>3 DEF PositionsFit
  <2> QED BY <2>1, <2>3, <2>4 DEF Wrote
<1>11. CASE AppendFrame
  BY <1>11, PositionsWith DEF AppendFrame, Return, disk, env, CallsFit
<1>12. CASE FlushData
  <2>1. /\ \A b \in Baskets : Len(bkt'[b]) >= Len(bkt[b])
        /\ fdOpen => ctrl'.fposB <= Len(bkt'[ctrl.bid])
        /\ ctrl'.bid = ctrl.bid /\ ctrl'.fposI = ctrl.fposI /\ ctrl'.ibuf = ctrl.ibuf
        /\ ctrl'.bbuf = <<>> /\ ctrl'.fposB = ctrl.fposB + Len(ctrl.bbuf)
        /\ bkt' \in [Baskets -> Seq(Slots)]
    BY <1>12, FlushedData
  <2>2. idx' = idx /\ fdOpen' = fdOpen /\ pc' = "index"
    BY <1>12 DEF FlushData, Goto
  <2>3. EntriesInside'
    <3>1. /\ bkt \in [Baskets -> Seq(Slots)]
          /\ idx \in [Baskets -> [count : Nat, ents : Seq(Entries)]]
      BY DEF IInv, TypeOK
    <3>2. \A b \in Baskets : Len(bkt[b]) \in Nat /\ Len(bkt'[b]) \in Nat
      BY <2>1, <3>1, LenProperties
    <3>3. \A b \in Baskets : \A n \in 1 .. Len(idx[b].ents) : idx[b].ents[n].fpos \in Nat
      <4>1. \A b \in Baskets : \A n \in 1 .. Len(idx[b].ents) : idx[b].ents[n] \in Entries
        BY <3>1, ElementOfSeq
      <4> QED BY <4>1 DEF Entries
    <3> QED BY <2>1, <2>2, <3>2, <3>3 DEF PositionsFit, EntriesInside
  <2>4. \A n \in 1 .. Len(ctrl'.ibuf) : ctrl'.ibuf[n].fpos < ctrl'.fposB + Len(ctrl'.bbuf)
    <3>1. ctrl.fposB + Len(ctrl.bbuf) \in Nat
      BY LenProperties DEF Ctrls
    <3>2. Len(ctrl'.bbuf) = 0 /\ ctrl'.fposB + Len(ctrl'.bbuf) = ctrl.fposB + Len(ctrl.bbuf)
      BY <2>1, <3>1, EmptySeq
    <3> QED BY <2>1, <3>2 DEF PositionsFit
  <2> QED BY <2>1, <2>2, <2>3, <2>4 DEF PositionsFit
<1>13. CASE FlushIndex
  <2>1. /\ EntriesInside'
        /\ fdOpen => ctrl'.fposI <= Len(idx'[ctrl.bid].ents)
        /\ ctrl'.bid = ctrl.bid /\ ctrl'.fposB = ctrl.fposB /\ ctrl'.bbuf = ctrl.bbuf
        /\ ctrl'.ibuf = <<>>
    BY <1>13, FlushedIndex
  <2>2. bkt' = bkt /\ fdOpen' = fdOpen /\ pc' = "rdb" /\ pc = "index"
    BY <1>13 DEF FlushIndex, Goto
  <2>3. ctrl'.bbuf = <<>>
    BY <2>1, <2>2
  <2>4. \A n \in 1 .. Len(ctrl'.ibuf) : ctrl'.ibuf[n].fpos < ctrl'.fposB + Len(ctrl'.bbuf)
    BY <2>1, EmptySeq
  <2> QED BY <2>1, <2>2, <2>3, <2>4 DEF PositionsFit
<1>14. CASE FlushRdb
  BY <1>14, FlushedRows, PositionsFrame DEF FlushRdb, AfterFlush, Goto, env
<1>15. CASE FlushError
  <2>1. /\ ctrl'.bid = ctrl.bid /\ ctrl'.fposB = ctrl.fposB /\ ctrl'.fposI = ctrl.fposI
        /\ ctrl'.bbuf = ctrl.bbuf /\ ctrl'.ibuf = ctrl.ibuf
    BY <1>15 DEF FlushError, Ctrls
  <2> QED BY <1>15, <2>1, PositionsFrame DEF FlushError, GiveUp, Return, disk
<1>16. CASE RequestExit
  BY <1>16, PositionsFrame DEF RequestExit, disk
<1>17. CASE CloseIndex
  <2>1. /\ bkt' = bkt /\ ctrl' = ctrl /\ ~fdOpen' /\ pc' = "closeMgr" /\ pc = "closeIndex"
        /\ idx' \in {idx, [idx EXCEPT ![ctrl.bid].count = ctrl.fposI]}
        /\ ~fdOpen => idx' = idx
    BY <1>17 DEF CloseIndex, Goto
  <2>2. EntriesInside'
    <3>1. CASE idx' = idx
      BY <2>1, <3>1 DEF PositionsFit, EntriesInside
    <3>2. CASE fdOpen /\ idx' = [idx EXCEPT ![ctrl.bid].count = ctrl.fposI]
      <4>1. ctrl.fposI <= Len(idx[ctrl.bid].ents)
        BY <3>2 DEF PositionsFit
      <4>2. idx \in [Baskets -> [count : Nat, ents : Seq(Entries)]]
        BY DEF IInv, TypeOK
      <4>3. \A b \in Baskets :
              /\ idx'[b].ents = idx[b].ents
              /\ idx'[b].count = IF b = ctrl.bid THEN ctrl.fposI ELSE idx[b].count
        BY <3>2, <4>2
      <4> QED BY <2>1, <4>1, <4>3 DEF PositionsFit, EntriesInside
    <3> QED BY <2>1, <3>1, <3>2
  <2>3. ctrl'.bbuf = <<>> /\ ctrl'.ibuf = <<>>
    BY <2>1
  <2>4. \A n \in 1 .. Len(ctrl'.ibuf) : ctrl'.ibuf[n].fpos < ctrl'.fposB + Len(ctrl'.bbuf)
    BY <2>3, EmptySeq
  <2> QED BY <2>1, <2>2, <2>3, <2>4 DEF PositionsFit
<1>18. CASE CloseMgr
  <2>1. /\ UNCHANGED <<bkt, idx>> /\ ~fdOpen' /\ pc = "closeMgr"
        /\ ctrl' = ctrl \/ Closed
    BY <1>18 DEF CloseMgr, Opening, env
  <2>2. ctrl'.bbuf = <<>> /\ ctrl'.ibuf = <<>>
    BY <2>1, ClosedType, ZeroType
  <2> QED BY <2>1, <2>2, PositionsFrame
<1>19. CASE CloseRecinfo
  <2>1. UNCHANGED <<bkt, idx>> /\ ~fdOpen' /\ pc = "closeRecinfo" /\ Closed
    BY <1>19 DEF CloseRecinfo, Opening, env
  <2>2. ctrl'.bbuf = <<>> /\ ctrl'.ibuf = <<>>
    BY <2>1, ClosedType, ZeroType
  <2> QED BY <2>1, <2>2, PositionsFrame
<1>20. CASE Crash
  BY <1>20, ZeroType, PositionsFrame DEF Crash, Return, disk
<1>21. CASE SetRecycleMode
  BY <1>21, PositionsFrame DEF SetRecycleMode, disk, call
<1>22. CASE Tick
  BY <1>22, PositionsFrame DEF Tick, disk, memory, call
<1> QED
  BY <1>1, <1>2, <1>3, <1>4, <1>5, <1>6, <1>7, <1>8, <1>9, <1>10, <1>11,
     <1>12, <1>13, <1>14, <1>15, <1>16, <1>17, <1>18, <1>19, <1>20, <1>21, <1>22 DEF Next

\* Writing and flushing go on with the basket that is open.
LEMMA BidKept ==
  ASSUME IInv,
         RequestWrite \/ AppendFrame \/ FlushData \/ FlushIndex \/ FlushRdb
  PROVE  ctrl'.bid = ctrl.bid
<1>0. ctrl \in Ctrls
  BY DEF IInv, TypeOK
<1>1. CASE RequestWrite
  <2>1. PICK f \in Slots : Wrote(f)
    BY <1>1, Requested
  <2>2. CASE ctrl' = With(ctrl, f)
    BY <1>0, <2>2, WithType
  <2>3. CASE ctrl' \in {RollCtrl(f), FlushCtrl(f)}
    BY <1>0, <2>3, RollType
  <2> QED BY <2>1, <2>2, <2>3 DEF Wrote
<1>2. CASE AppendFrame
  BY <1>0, <1>2, WithType DEF AppendFrame, IInv, CallsFit
<1>3. CASE FlushData \/ FlushIndex \/ FlushRdb
  BY <1>3, FlushedData, FlushedIndex, FlushedRows
<1> QED BY <1>1, <1>2, <1>3

\* The record info keeps naming the basket that is recorded to.
LEMMA RecinfoStep ==
  ASSUME IInv, Next
  PROVE  RecinfoFits'
<1>0. /\ RecinfoFits /\ BasketsFit /\ CallsFit
      /\ mgr \in [Baskets -> [flag : Flags, t2 : Times]]
      /\ recinfo \in [bid : 0 .. NBaskets, flag : Flags]
      /\ status \in {"closed", "opened", "full"} /\ fdOpen \in BOOLEAN
      /\ pc \in PCs
  BY DEF IInv, TypeOK
<1> USE <1>0 DEF RecinfoFits, BasketsFit, CallsFit, InUse, Opening, Marking, Flushing, Closing, PCs
<1>1. CASE RequestOpen
  BY <1>1 DEF RequestOpen, disk, env
<1>2. CASE SearchResumable
  BY <1>2 DEF SearchResumable, Resumable, disk, env
<1>3. CASE SearchEmpty
  <2>1. pc' = "header" /\ recinfo.flag # "using" /\ status' = status /\ ~fdOpen'
    BY <1>3 DEF SearchEmpty, Resumable
  <2> QED BY <1>3, <2>1 DEF SearchEmpty, disk
<1>4. CASE SearchOldest
  <2>1. /\ pc' \in {"header", "idle"} /\ recinfo.flag # "using" /\ ~fdOpen'
        /\ UNCHANGED <<mgr, recinfo>>
    BY <1>4 DEF SearchOldest, Resumable, GiveUp, Return
  <2> QED BY <2>1
<1>5. CASE WriteHeaders
  BY <1>5 DEF WriteHeaders, Goto, env
<1>6. CASE ResumeBasket
  <2>1. ctrl'.bid = target.bid
    BY <1>6, ResumedAt, OpenedType DEF ResumeBasket, IInv, TypeOK
  <2> QED BY <1>6, <2>1 DEF ResumeBasket, Goto, disk
<1>7. CASE OpenError
  BY <1>7 DEF OpenError, GiveUp, Return, disk
<1>8. CASE MarkManager
  BY <1>8 DEF MarkManager, Goto, env
<1>9. CASE MarkRecinfo
  BY <1>9 DEF MarkRecinfo, Goto, Return, env
<1>10. CASE RequestWrite
  <2>1. ctrl'.bid = ctrl.bid /\ pc' \in {"idle", "data"}
    BY <1>10, BidKept DEF RequestWrite
  <2> QED BY <1>10, <2>1 DEF RequestWrite, disk
<1>11. CASE AppendFrame
  <2>1. ctrl'.bid = ctrl.bid
    BY <1>11, BidKept
  <2> QED BY <1>11, <2>1 DEF AppendFrame, Return, disk, env
<1>12. CASE FlushData
  <2>1. ctrl'.bid = ctrl.bid
    BY <1>12, BidKept
  <2> QED BY <1>12, <2>1 DEF FlushData, Goto, env
<1>13. CASE FlushIndex
  <2>1. ctrl'.bid = ctrl.bid
    BY <1>13, BidKept
  <2> QED BY <1>13, <2>1 DEF FlushIndex, Goto, env
<1>14. CASE FlushRdb
  <2>1. ctrl'.bid = ctrl.bid
    BY <1>14, BidKept
  <2> QED BY <1>14, <2>1 DEF FlushRdb, AfterFlush, Goto, env
<1>15. CASE FlushError
  BY <1>15 DEF FlushError, GiveUp, Return, disk, HasData
<1>16. CASE RequestExit
  BY <1>16 DEF RequestExit, disk
<1>17. CASE CloseIndex
  <2>1. /\ pc' = "closeMgr" /\ pc = "closeIndex" /\ ~fdOpen' /\ ctrl' = ctrl
        /\ UNCHANGED <<mgr, recinfo, status>>
    BY <1>17 DEF CloseIndex, Goto
  <2>2. recinfo.flag = "using" => recinfo.bid = ctrl.bid
    <3>1. CASE fdOpen
      BY <2>1, <3>1
    <3>2. CASE ~fdOpen
      BY <2>1, <3>2
    <3> QED BY <3>1, <3>2
  <2> QED BY <2>1, <2>2
<1>18. CASE CloseMgr
  <2>1. CASE ctrl.bid # 0
    <3>1. /\ ctrl' = ctrl /\ recinfo' = recinfo /\ pc' = "closeRecinfo" /\ ~fdOpen'
          /\ mgr' = [mgr EXCEPT ![ctrl.bid] = [flag |-> ClosedFlag, t2 |-> ctrl.bktT2]]
          /\ ctrl.bid \in Baskets
      BY <1>18, <2>1 DEF CloseMgr, Goto, Baskets, IInv, TypeOK, Ctrls
    <3>2. mgr'[ctrl.bid].flag # "using"
      BY <3>1 DEF ClosedFlag
    <3> QED BY <1>18, <3>1, <3>2 DEF CloseMgr
  <2>2. CASE ctrl.bid = 0
    <3>1. /\ recinfo' = recinfo /\ mgr' = mgr /\ ~fdOpen' /\ Closed
          /\ pc = "closeMgr" /\ 0 \notin Baskets
      BY <1>18, <2>2 DEF CloseMgr, Baskets
    <3>2. recinfo.flag # "using"
      BY <2>2, <3>1
    <3> QED BY <3>1, <3>2 DEF Closed, Return, Goto
  <2> QED BY <2>1, <2>2
<1>19. CASE CloseRecinfo
  BY <1>19 DEF CloseRecinfo, Closed, ClosedFlag, Goto, Return, env
<1>20. CASE Crash
  BY <1>20 DEF Crash, Return, disk
<1>21. CASE SetRecycleMode
  BY <1>21 DEF SetRecycleMode, disk, call
<1>22. CASE Tick
  BY <1>22 DEF Tick, disk, memory, call
<1> QED
  BY <1>1, <1>2, <1>3, <1>4, <1>5, <1>6, <1>7, <1>8, <1>9, <1>10, <1>11,
     <1>12, <1>13, <1>14, <1>15, <1>16, <1>17, <1>18, <1>19, <1>20, <1>21, <1>22 DEF Next

\* There are finitely many lost baskets.
LEMMA LostFinite == IsFiniteSet(Lost) /\ Cardinality(Lost) \in Nat
<1>1. IsFiniteSet(Baskets)
  BY FS_Interval, RecorderAssumption DEF Baskets
<1>2. IsFiniteSet(Lost)
  BY <1>1, FS_Subset DEF Lost
<1> QED BY <1>2, FS_CardinalityType

\* One more makes the number of them at most one higher.
LEMMA OneMoreLost ==
  ASSUME NEW x
  PROVE  /\ IsFiniteSet(Lost \cup {x}) /\ Cardinality(Lost \cup {x}) \in Nat
         /\ Cardinality(Lost \cup {x}) <= Cardinality(Lost) + 1
<1>1. /\ IsFiniteSet(Lost \cup {x})
      /\ Cardinality(Lost \cup {x}) = IF x \in Lost THEN Cardinality(Lost)
                                                    ELSE Cardinality(Lost) + 1
  BY LostFinite, FS_AddElement
<1> QED BY <1>1, LostFinite

\* A subset of the lost baskets is counted no higher.
LEMMA FewerLost ==
  ASSUME IInv, Lost' \subseteq Lost, crashes' = crashes
  PROVE  LostBound'
<1>1. Cardinality(Lost') <= Cardinality(Lost) /\ IsFiniteSet(Lost')
  BY LostFinite, FS_Subset
<1>2. Cardinality(Lost) \in Nat /\ Cardinality(Lost') \in Nat /\ crashes \in Nat
  BY <1>1, LostFinite, FS_CardinalityType DEF IInv, TypeOK
<1>3. Cardinality(Lost) <= crashes
  BY DEF IInv, LostBound
<1>4. Cardinality(Lost') <= crashes'
  BY <1>1, <1>2, <1>3
<1> QED BY <1>4 DEF LostBound

\* Each power cut, and nothing else, adds a basket to the lost ones.
LEMMA LostStep ==
  ASSUME IInv, Next
  PROVE  LostBound'
<1>0. /\ RecinfoFits /\ LostBound /\ crashes \in Nat
      /\ mgr \in [Baskets -> [flag : Flags, t2 : Times]]
      /\ recinfo \in [bid : 0 .. NBaskets, flag : Flags]
  BY DEF IInv, TypeOK
<1>1. CASE UNCHANGED <<mgr, recinfo, crashes>> /\ "markRecinfo" \notin {pc, pc'}
  <2>1. Lost' \subseteq Lost
    BY <1>1 DEF Lost, InUse
  <2> QED BY <1>1, <2>1, FewerLost
<1>2. CASE MarkManager
  <2>1. /\ pc = "markMgr" /\ pc' = "markRecinfo" /\ UNCHANGED <<recinfo, ctrl, crashes>>
        /\ \A b \in Baskets \ {ctrl.bid} : mgr'[b] = mgr[b]
    BY <1>0, <1>2 DEF MarkManager, Goto, env
  <2>2. Lost' \subseteq Lost
    BY <2>1 DEF Lost, InUse
  <2> QED BY <2>1, <2>2, FewerLost
<1>3. CASE MarkRecinfo
  <2>1. /\ pc = "markRecinfo" /\ pc' # "markRecinfo" /\ UNCHANGED <<mgr, crashes>>
        /\ recinfo' = [bid |-> ctrl.bid, flag |-> "using"]
    BY <1>3 DEF MarkRecinfo, Goto, Return, env
  <2>2. recinfo.flag = "using" => recinfo.bid = ctrl.bid
    BY <1>0, <2>1 DEF RecinfoFits, Marking
  <2>3. Lost' \subseteq Lost
    BY <2>1, <2>2 DEF Lost, InUse
  <2> QED BY <2>1, <2>3, FewerLost
<1>4. CASE CloseMgr /\ ctrl.bid # 0
  <2>1. /\ pc = "closeMgr" /\ pc' = "closeRecinfo" /\ UNCHANGED <<recinfo, crashes>>
        /\ mgr' = [mgr EXCEPT ![ctrl.bid] = [flag |-> ClosedFlag, t2 |-> ctrl.bktT2]]
    BY <1>4 DEF CloseMgr, Goto, env
  <2>2. \A b \in Baskets : mgr'[b].flag = "using" => mgr'[b] = mgr[b]
    BY <1>0, <2>1 DEF ClosedFlag
  <2>3. Lost' \subseteq Lost
    BY <2>1, <2>2 DEF Lost, InUse
  <2> QED BY <2>1, <2>3, FewerLost
<1>5. CASE CloseRecinfo
  <2>1. /\ pc = "closeRecinfo" /\ pc' # "markRecinfo" /\ UNCHANGED <<mgr, crashes>>
    BY <1>5 DEF CloseRecinfo, Closed, Return, Goto, env
  <2>2. /\ recinfo.flag = "using" => recinfo.bid = ctrl.bid
        /\ mgr[ctrl.bid].flag # "using"
    BY <1>0, <2>1 DEF RecinfoFits, Marking
  <2>3. Lost' \subseteq Lost
    BY <2>1, <2>2 DEF Lost, InUse
  <2> QED BY <2>1, <2>3, FewerLost
<1>6. CASE Crash
  <2>1. UNCHANGED <<mgr, recinfo>> /\ crashes' = crashes + 1 /\ pc' = "idle"
    BY <1>6 DEF Crash, disk, Return
  <2>2. Lost' \subseteq Lost \cup {ctrl.bid}
    BY <2>1 DEF Lost, InUse
  <2>3. Cardinality(Lost) \in Nat
    BY LostFinite
  <2> DEFINE more == Lost \cup {ctrl.bid}
  <2>4. IsFiniteSet(more) /\ Cardinality(more) <= Cardinality(Lost) + 1
    BY OneMoreLost
  <2>5. Cardinality(Lost') <= Cardinality(more) /\ IsFiniteSet(Lost')
    BY <2>2, <2>4, FS_Subset
  <2>6. {Cardinality(Lost), Cardinality(more), Cardinality(Lost')} \subseteq Nat
    BY <2>3, <2>4, <2>5, FS_CardinalityType
  <2>7. Cardinality(Lost) <= crashes
    BY <1>0 DEF LostBound
  <2> HIDE DEF more
  <2>8. Cardinality(Lost') <= crashes'
    BY <1>0, <2>1, <2>4, <2>5, <2>6, <2>7
  <2> QED BY <2>8 DEF LostBound
<1>7. ASSUME RequestOpen \/ SearchResumable \/ SearchEmpty \/ SearchOldest
             \/ WriteHeaders \/ ResumeBasket \/ OpenError
      PROVE  UNCHANGED <<mgr, recinfo, crashes>> /\ "markRecinfo" \notin {pc, pc'}
  BY <1>7 DEF RequestOpen, SearchResumable, SearchEmpty, SearchOldest, WriteHeaders,
              ResumeBasket, OpenError, GiveUp, Return, Goto, disk, env
<1>8. ASSUME RequestWrite \/ AppendFrame \/ FlushData \/ FlushIndex \/ FlushRdb
      PROVE  UNCHANGED <<mgr, recinfo, crashes>> /\ "markRecinfo" \notin {pc, pc'}
  BY <1>8 DEF RequestWrite, AppendFrame, FlushData, FlushIndex, FlushRdb, AfterFlush,
              Return, Goto, disk, env
<1>9. ASSUME FlushError \/ RequestExit \/ CloseIndex \/ SetRecycleMode \/ Tick
      PROVE  UNCHANGED <<mgr, recinfo, crashes>> /\ "markRecinfo" \notin {pc, pc'}
  BY <1>9 DEF FlushError, HasData, RequestExit, CloseIndex, SetRecycleMode, Tick,
              GiveUp, Return, Goto, disk, memory, call, env
<1>10. ASSUME CloseMgr, ctrl.bid = 0
       PROVE  UNCHANGED <<mgr, recinfo, crashes>> /\ "markRecinfo" \notin {pc, pc'}
  BY <1>10 DEF CloseMgr, Closed, Return, Goto, env
<1> QED
  BY <1>1, <1>2, <1>3, <1>4, <1>5, <1>6, <1>7, <1>8, <1>9, <1>10 DEF Next

-----------------------------------------------------------------------------
(* The theorems.                                                           *)

\* A formatted disk and a recorder that is not open satisfy the invariant.
LEMMA InitIInv ==
  ASSUME Init
  PROVE  IInv
<1> USE DEF Init
<1>1. TypeOK
  <2>1. FirstTick \in Nat /\ ctrl \in Ctrls /\ NoTimes \in Times
    BY RecorderAssumption, ZeroType DEF NoTimes, Times
  <2>2. mgr \in [Baskets -> [flag : Flags, t2 : Times]]
    BY <2>1 DEF Flags
  <2>3. recinfo \in [bid : 0 .. NBaskets, flag : Flags]
    BY RecorderAssumption DEF Flags
  <2>4. /\ bkt \in [Baskets -> Seq(Slots)]
        /\ idx \in [Baskets -> [count : Nat, ents : Seq(Entries)]]
    BY EmptySeq
  <2>5. target \in [bid : 0 .. NBaskets, flag : Flags \cup {"none"}]
    BY RecorderAssumption DEF NoTarget
  <2>6. /\ flushed \in [Baskets -> [slots : Nat, ents : Nat]]
        /\ {now, frames, stops, crashes, errors} \subseteq Nat
    BY <2>1
  <2>7. /\ rdb \subseteq Rows /\ saving \subseteq Channels /\ recycle \in RecycleModes
        /\ status \in {"closed", "opened", "full"} /\ space \in {"remain", "full"}
        /\ op \in {"none", "open", "exit", "roll", "flush"} /\ pc \in PCs
        /\ fdOpen \in BOOLEAN /\ cur = NoFrame
    BY DEF PCs
  <2> QED BY <2>1, <2>2, <2>3, <2>4, <2>5, <2>6, <2>7, Zenon DEF TypeOK
<1>3. CallsFit
  BY DEF CallsFit, Opening, Marking, Flushing, Closing
<1>4. BasketsFit
  BY DEF BasketsFit, Opening, Marking
<1>5. PositionsFit
  BY EmptySeq, ZeroType DEF PositionsFit, EntriesInside
<1>6. RecinfoFits
  BY DEF RecinfoFits, Marking, Flushing
<1>7. LostBound
  <2>1. Lost = {}
    BY DEF Lost
  <2> QED BY <2>1, FS_EmptySet DEF LostBound
<1> QED BY <1>1, <1>3, <1>4, <1>5, <1>6, <1>7 DEF IInv

\* A step that changes nothing keeps it.
LEMMA StutterIInv ==
  ASSUME IInv, UNCHANGED vars
  PROVE  IInv'
BY DEF IInv, vars, TypeOK, CallsFit, BasketsFit, PositionsFit, EntriesInside,
       RecinfoFits, InUse, LostBound, Lost

\* The inductive invariant holds throughout.
LEMMA Invariance == Spec => []IInv
<1>1. Init => IInv
  BY InitIInv
<1>2. IInv /\ [Next]_vars => IInv'
  <2> SUFFICES ASSUME IInv, [Next]_vars
               PROVE  IInv'
    OBVIOUS
  <2>1. CASE Next
    BY <2>1, TypeStep, CallsStep, BasketsStep, PositionsStep, RecinfoStep, LostStep
       DEF IInv
  <2>2. CASE UNCHANGED vars
    BY <2>2, StutterIInv
  <2> QED BY <2>1, <2>2
<1> QED BY <1>1, <1>2, PTL DEF Spec

\* Every file, buffer and position of the recorder has its type, whatever stops,
\* power cuts and failed calls the steps of basket_rec.c run into.
THEOREM TypeCorrect == Spec => []TypeOK
<1>1. IInv => TypeOK
  BY DEF IInv
<1> QED BY <1>1, Invariance, PTL

\* BKTREC_FlushWriteBuffer writes the stream before the index: no entry of an
\* index file ever points behind the end of its stream file, and no index header
\* counts entries that are not there.
THEOREM EntriesAlwaysInside == Spec => []EntriesInside
<1>1. IInv => EntriesInside
  BY DEF IInv, PositionsFit
<1> QED BY <1>1, Invariance, PTL

\* While frames are recorded to a basket, the manager file has it in use and the
\* record info names it: the next start finds it whenever the power goes.
THEOREM LiveBasketAlwaysNamed == Spec => []LiveBasketNamed
<1>1. IInv => LiveBasketNamed
  BY DEF IInv, RecinfoFits, InUse, LiveBasketNamed, Recording, Marking
<1> QED BY <1>1, Invariance, PTL

\* The baskets in use that the record info does not name, which no search finds
\* again, are at most as many as there were power cuts, and one more between the
\* two writes of BKTREC_setBasketStatus.
THEOREM StrandedBounded == Spec => []StrandedBound
<1>1. ASSUME IInv PROVE StrandedBound
  <2> DEFINE about == IF pc = "markRecinfo" THEN {ctrl.bid} ELSE {}
             most == IF pc = "markRecinfo" THEN 1 ELSE 0
  <2>1. /\ IsFiniteSet(Lost) /\ Cardinality(Lost) \in Nat
        /\ Cardinality(Lost) <= crashes /\ crashes \in Nat
    BY <1>1, LostFinite DEF IInv, LostBound, TypeOK
  <2>2. Stranded \subseteq Lost \cup about
    BY DEF Stranded, Lost, InUse
  <2>3. IsFiniteSet(Lost \cup about) /\ Cardinality(Lost \cup about) <= Cardinality(Lost) + most
    <3>1. CASE pc = "markRecinfo"
      BY <3>1, OneMoreLost
    <3>2. CASE pc # "markRecinfo"
      <4>1. Lost \cup about = Lost
        BY <3>2
      <4> QED BY <3>2, <4>1, <2>1
    <3> QED BY <3>1, <3>2
  <2>4. IsFiniteSet(Stranded) /\ Cardinality(Stranded) <= Cardinality(Lost \cup about)
    BY <2>2, <2>3, FS_Subset
  <2>5. {Cardinality(Stranded), Cardinality(Lost \cup about), Cardinality(Lost)} \subseteq Nat
    BY <2>1, <2>3, <2>4, FS_CardinalityType
  <2>6. Cardinality(Stranded) <= crashes + most
    BY <2>1, <2>3, <2>4, <2>5
  <2> QED BY <2>6 DEF StrandedBound
<1>2. IInv => StrandedBound
  BY <1>1
<1> QED BY <1>2, Invariance, PTL

-----------------------------------------------------------------------------
(* The index of a basket: BKTREC_open goes on behind the entries in an     *)
(* index file, closed or cut off.  That fails after a second mishap, so    *)
(* the invariant says after which histories it holds (OneCut).             *)

\* At most one power cut, and none beside a stop: a second one finds the entry
\* count of the closing before.
OneCut == crashes = 0 \/ (crashes = 1 /\ stops = 0)

-----------------------------------------------------------------------------
(* The inductive invariant of the index.                                   *)

\* Nothing is stamped later than now.
UpTo(seq, t) == \A i \in DOMAIN seq : seq[i].ts <= t
TimesFit ==
  /\ \A b \in Baskets : UpTo(idx[b].ents, now) /\ UpTo(bkt[b], now)
  /\ UpTo(ctrl.ibuf, now) /\ UpTo(ctrl.bbuf, now)
  /\ op \in {"roll", "flush"} => cur.ts = now

\* Where a call stands, and what the memory holds while no basket is open.
SessionFits ==
  /\ pc = "idle" => op = "none"
  /\ op = "exit" => stops > 0
  /\ pc = "header" /\ op = "open" => status = "closed"
  /\ pc = "header" /\ op = "roll" => ctrl.bid = 0
  /\ status # "closed" /\ ~fdOpen /\ pc \in {"idle", "append", "closeIndex"} \cup Flushing
       => ctrl.bid = 0
  /\ pc \in Opening => ctrl.bktT2 = NoTimes

\* Before the first power cut and the first stop no basket is resumed.
FirstSession ==
  crashes = 0 /\ stops = 0 =>
    /\ status = "closed" => recinfo.flag = "empty"
    /\ pc # "resume"
    /\ fdOpen => idx[ctrl.bid].count = 0

\* The entries in the index buffer, and those a scan of the index file must pass,
\* go forward in time and in position.
Grows(ents, n) == \A i \in 1 .. n : EntryFollows(ents, i)
Precedes(e, ibuf, end) ==
  /\ e.fpos <= end
  /\ \A i \in DOMAIN ibuf : e.ts <= ibuf[i].ts /\ e.fpos <= ibuf[i].fpos
EntriesGrow == Grows(ctrl.ibuf, Len(ctrl.ibuf))

\* The entries of an open basket without a count.
LastFits ==
  fdOpen /\ idx[ctrl.bid].count = 0 =>
    /\ Grows(idx[ctrl.bid].ents, ctrl.fposI)
    /\ ctrl.fposI > 0 => Precedes(idx[ctrl.bid].ents[ctrl.fposI], ctrl.ibuf,
                                  ctrl.fposB + Len(ctrl.bbuf))

\* The count of a closed basket, or the scan where there is none, reaches the
\* entries written.
CountFits(b) ==
  /\ flushed[b].ents <= Len(idx[b].ents)
  /\ idx[b].count = 0 => Grows(idx[b].ents, flushed[b].ents)
  /\ idx[b].count > 0 /\ ~(fdOpen /\ b = ctrl.bid) => idx[b].count >= flushed[b].ents

IndexFits == OneCut => IndexKept /\ LastFits /\ \A b \in Baskets : CountFits(b)

KeptInv == TimesFit /\ SessionFits /\ FirstSession /\ EntriesGrow /\ IndexFits

-----------------------------------------------------------------------------
(* Lemmas about sequences and the operators of the model.                  *)

\* The types of the disk, the memory and the counters.
LEMMA Basics ==
  ASSUME IInv
  PROVE  /\ ctrl \in Ctrls /\ ctrl.bbuf \in Seq(Slots) /\ ctrl.ibuf \in Seq(Entries)
         /\ ctrl.fposB \in Nat /\ ctrl.fposI \in Nat /\ ctrl.bktT2 \in Times
         /\ Len(ctrl.bbuf) \in Nat /\ Len(ctrl.ibuf) \in Nat
         /\ bkt \in [Baskets -> Seq(Slots)]
         /\ idx \in [Baskets -> [count : Nat, ents : Seq(Entries)]]
         /\ \A b \in Baskets : /\ bkt[b] \in Seq(Slots) /\ Len(bkt[b]) \in Nat
                               /\ idx[b].ents \in Seq(Entries) /\ Len(idx[b].ents) \in Nat
                               /\ idx[b].count \in Nat
         /\ flushed \in [Baskets -> [slots : Nat, ents : Nat]]
         /\ \A b \in Baskets : flushed[b].slots \in Nat /\ flushed[b].ents \in Nat
         /\ {now, stops, crashes, errors} \subseteq Nat
         /\ op \in {"none", "open", "exit", "roll", "flush"} /\ pc \in PCs
         /\ status \in {"closed", "opened", "full"} /\ fdOpen \in BOOLEAN
<1>1. ctrl \in Ctrls /\ bkt \in [Baskets -> Seq(Slots)]
      /\ idx \in [Baskets -> [count : Nat, ents : Seq(Entries)]]
      /\ flushed \in [Baskets -> [slots : Nat, ents : Nat]]
  BY DEF IInv, TypeOK
<1>2. /\ ctrl.bbuf \in Seq(Slots) /\ ctrl.ibuf \in Seq(Entries)
      /\ ctrl.fposB \in Nat /\ ctrl.fposI \in Nat /\ ctrl.bktT2 \in Times
  BY <1>1 DEF Ctrls
<1>3. \A b \in Baskets : bkt[b] \in Seq(Slots) /\ idx[b].ents \in Seq(Entries)
                         /\ idx[b].count \in Nat
  BY <1>1
<1> QED BY <1>1, <1>2, <1>3, LenProperties DEF IInv, TypeOK

\* The places of a sequence, its members, and an empty one.
LEMMA Places ==
  /\ DOMAIN <<>> = {} /\ Len(<<>>) = 0
  /\ \A S : \A s \in Seq(S) :
       DOMAIN s = 1 .. Len(s) /\ Len(s) \in Nat /\ \A i \in DOMAIN s : s[i] \in S
  OBVIOUS

\* One more at the end.
LEMMA AppendSeq ==
  ASSUME NEW S, NEW s \in Seq(S), NEW e \in S
  PROVE  /\ Append(s, e) \in Seq(S) /\ Len(Append(s, e)) = Len(s) + 1
         /\ DOMAIN Append(s, e) = 1 .. Len(s) + 1
         /\ \A i \in 1 .. Len(s) : Append(s, e)[i] = s[i]
         /\ Append(s, e)[Len(s) + 1] = e
  OBVIOUS

\* What an overwriting leaves before and puts at its position.
LEMMA OverwritePlaces ==
  ASSUME NEW S, NEW file \in Seq(S), NEW p \in 0 .. Len(file), NEW s \in Seq(S),
         NEW aligned \in BOOLEAN, \A x \in S : aligned \/ Gap(x) \in S
  PROVE  /\ \A i \in 1 .. p : Overwrite(file, p, s, aligned)[i] = file[i]
         /\ \A i \in 1 .. Len(s) : Overwrite(file, p, s, aligned)[p + i] = s[i]
<1> DEFINE rest == SubSeq(file, p + Len(s) + 1, Len(file))
           tail == IF aligned \/ rest = <<>> THEN rest ELSE [rest EXCEPT ![1] = Gap(@)]
           head == SubSeq(file, 1, p)
<1>1. /\ Len(file) \in Nat /\ Len(s) \in Nat
      /\ \A i \in 1 .. Len(file) : file[i] \in S
  BY LenProperties, ElementOfSeq
<1>2. head \in Seq(S) /\ Len(head) = p /\ \A i \in 1 .. p : head[i] = file[i]
  <2>1. p \in Int /\ 1 \in Int /\ \A i \in 1 .. p : file[i] \in S
    BY <1>1
  <2>2. /\ head \in Seq(S)
        /\ Len(head) = IF 1 <= p THEN p - 1 + 1 ELSE 0
        /\ \A i \in 1 .. (p - 1 + 1) : head[i] = file[1 + i - 1]
    BY <2>1, SubSeqProperties
  <2> QED BY <2>2
<1>3. rest \in Seq(S)
  <2>1. /\ p + Len(s) + 1 \in Int /\ Len(file) \in Int
        /\ \A i \in p + Len(s) + 1 .. Len(file) : file[i] \in S
    BY <1>1
  <2> QED BY <2>1, SubSeqProperties
<1>4. tail \in Seq(S)
  <2>1. CASE aligned \/ rest = <<>>
    BY <2>1, <1>3
  <2>2. CASE ~aligned /\ rest # <<>>
    <3>1. Len(rest) >= 1 /\ rest[1] \in S /\ Gap(rest[1]) \in S
      BY <2>2, <1>3, EmptySeq, ElementOfSeq, LenProperties
    <3>2. [rest EXCEPT ![1] = Gap(rest[1])] \in Seq(S)
      BY <3>1, <1>3, ExceptSeq
    <3> QED BY <3>2, <2>2
  <2> QED BY <2>1, <2>2
<1> HIDE DEF rest, tail, head
<1>5. /\ head \o s \in Seq(S) /\ Len(head \o s) = p + Len(s)
      /\ \A i \in 1 .. p : (head \o s)[i] = head[i]
      /\ \A i \in 1 .. Len(s) : (head \o s)[p + i] = s[i]
  <2>1. /\ head \o s \in Seq(S) /\ Len(head \o s) = Len(head) + Len(s)
        /\ \A i \in 1 .. Len(head) + Len(s) :
             (head \o s)[i] = IF i <= Len(head) THEN head[i] ELSE s[i - Len(head)]
    BY <1>2, ConcatProperties
  <2> QED BY <2>1, <1>1, <1>2
<1>6. \A i \in 1 .. p + Len(s) : ((head \o s) \o tail)[i] = (head \o s)[i]
  <2>1. \A i \in 1 .. Len(head \o s) + Len(tail) :
          ((head \o s) \o tail)[i] =
             IF i <= Len(head \o s) THEN (head \o s)[i] ELSE tail[i - Len(head \o s)]
    BY <1>4, <1>5, ConcatProperties
  <2>2. Len(tail) \in Nat
    BY <1>4, LenProperties
  <2> QED BY <1>1, <1>5, <2>1, <2>2
<1>7. Overwrite(file, p, s, aligned) = (head \o s) \o tail
  BY DEF Overwrite, rest, tail, head
<1>8. ASSUME NEW i \in 1 .. p
      PROVE  Overwrite(file, p, s, aligned)[i] = file[i]
  BY <1>1, <1>2, <1>5, <1>6, <1>7
<1>9. ASSUME NEW i \in 1 .. Len(s)
      PROVE  Overwrite(file, p, s, aligned)[p + i] = s[i]
  <2>1. p + i \in 1 .. p + Len(s)
    BY <1>1
  <2> QED BY <2>1, <1>5, <1>6, <1>7
<1> QED BY <1>8, <1>9
-----------------------------------------------------------------------------
(* What the calls do to the buffers and times of the control block.        *)

\* Buffering a frame adds an entry for a key frame, and video sets its
\* channel's last time.
LEMMA WithFields ==
  ASSUME NEW c \in Ctrls, NEW f \in Slots
  PROVE  /\ With(c, f).ibuf = IF f.kind = "I"
                              THEN Append(c.ibuf, [ch |-> f.ch, ts |-> f.ts,
                                                   fpos |-> c.fposB + Len(c.bbuf)])
                              ELSE c.ibuf
         /\ With(c, f).bktT2 = IF f.kind = "A" THEN c.bktT2
                               ELSE [c.bktT2 EXCEPT ![f.ch] = f.ts]
<1>1. CASE f.kind = "A"
  BY <1>1 DEF With, WithAudio, Ctrls
<1>2. CASE f.kind # "A"
  <2> DEFINE place == c.fposI + Len(c.ibuf)
             pos == IF f.kind = "I" THEN [c.idxPos EXCEPT ![f.ch] = place] ELSE c.idxPos
             last == IF f.kind = "I" THEN [c.idxT2 EXCEPT ![f.ch] = f.ts] ELSE c.idxT2
             row == [ch |-> f.ch, min |-> Minute(f.ts), bid |-> c.bid, pos |-> pos[f.ch]]
             newRow == /\ last[f.ch] # 0
                       /\ c.prevMin[f.ch] # MinuteOfHour(f.ts)
                       /\ Sec(last[f.ch]) >= Sec(f.ts)
             rb == IF newRow THEN Append(c.rbuf, row) ELSE c.rbuf
             pm == [c.prevMin EXCEPT ![f.ch] = IF newRow THEN MinuteOfHour(f.ts)
                                               ELSE c.prevMin[f.ch]]
             ib == IF f.kind = "I"
                   THEN Append(c.ibuf, [ch |-> f.ch, ts |-> f.ts,
                                        fpos |-> c.fposB + Len(c.bbuf)])
                   ELSE c.ibuf
             bt == [c.bktT2 EXCEPT ![f.ch] = f.ts]
             bb == Append(c.bbuf, f)
  <2>1. With(c, f) = [c EXCEPT !.bbuf = bb, !.ibuf = ib, !.idxPos = pos, !.idxT2 = last,
                               !.rbuf = rb, !.prevMin = pm, !.bktT2 = bt,
                               !.prevDay = Day(f.ts)]
    BY <1>2 DEF With, WithVideo
  <2> HIDE DEF ib, bt, rb, pm, bb, last, pos, newRow, row
  <2>2. With(c, f).ibuf = ib /\ With(c, f).bktT2 = bt
    BY <2>1 DEF Ctrls
  <2> QED BY <1>2, <2>2 DEF ib, bt
<1> QED BY <1>1, <1>2

\* A video frame that rolls over leaves the end of stream record in the buffer.
LEMMA RollFields ==
  ASSUME ctrl \in Ctrls, NEW f \in Slots
  PROVE  /\ RollCtrl(f).bbuf = IF f.kind = "A" THEN ctrl.bbuf
                               ELSE Append(ctrl.bbuf, [f EXCEPT !.kind = "END"])
         /\ RollCtrl(f).bktT2 = ctrl.bktT2 /\ FlushCtrl(f).bktT2 = ctrl.bktT2
<1> DEFINE bb == Append(ctrl.bbuf, [f EXCEPT !.kind = "END"])
<1>1. RollCtrl(f) = IF f.kind = "A" THEN ctrl ELSE [ctrl EXCEPT !.rskip = FALSE, !.bbuf = bb]
  BY DEF RollCtrl
<1> HIDE DEF bb
<1>2. /\ RollCtrl(f).bbuf = IF f.kind = "A" THEN ctrl.bbuf ELSE bb
      /\ RollCtrl(f).bktT2 = ctrl.bktT2 /\ FlushCtrl(f).bktT2 = ctrl.bktT2
  BY <1>1 DEF FlushCtrl, Ctrls
<1> QED BY <1>2 DEF bb

\* The search names the basket for BKTREC_open; for a rollover it clears the
\* control block instead.
LEMMA SearchFields ==
  ASSUME ctrl \in Ctrls, NEW b
  PROVE  /\ SearchCtrl(b).ibuf = ctrl.ibuf /\ SearchCtrl(b).bbuf = ctrl.bbuf
         /\ op = "open" => SearchCtrl(b).bid = b /\ SearchCtrl(b).bktT2 = ctrl.bktT2
         /\ op # "open" => SearchCtrl(b).bid = 0 /\ SearchCtrl(b).bktT2 = NoTimes
BY DEF SearchCtrl, Cleared, Ctrls

\* Opening a basket leaves its times.
LEMMA OpenedFields ==
  ASSUME ctrl \in Ctrls, NEW b, NEW p, NEW k
  PROVE  OpenedCtrl(b, p, k).bktT2 = ctrl.bktT2
BY DEF OpenedCtrl, Ctrls

\* BKTREC_exit clears the control block, BKTREC_SaveFull its times.
LEMMA ClosedFields ==
  ASSUME ctrl \in Ctrls, Closed
  PROVE  ctrl'.bktT2 = NoTimes /\ (op = "exit" => ctrl' = ZeroCtrl /\ status' = "closed")
<1>1. ZeroCtrl.bktT2 = NoTimes
  BY DEF ZeroCtrl
<1>2. CASE op = "exit"
  BY <1>1, <1>2 DEF Closed
<1>3. CASE op # "exit"
  BY <1>3 DEF Closed, Ctrls
<1> QED BY <1>2, <1>3

\* A frame that is written is stamped by the clock.
LEMMA RequestedNow ==
  ASSUME IInv, RequestWrite
  PROVE  \E f \in Slots : /\ f.ts = now /\ f.kind \in {"I", "P", "A"}
                          /\ Wrote(f)
<1>1. PICK c \in Channels, k \in Kinds : Wrote(Frame(c, now, k))
  BY DEF RequestWrite, Wrote
<1>2. now \in Nat
  BY DEF IInv, TypeOK
<1>3. Frame(c, now, k) \in Slots
  BY <1>2, FrameType
<1>4. Frame(c, now, k).ts = now /\ Frame(c, now, k).kind = k /\ k \in {"I", "P", "A"}
  BY RecorderAssumption DEF Frame
<1> QED BY <1>1, <1>3, <1>4

\* A basket begun anew is written from its start.
LEMMA BegunAt ==
  ASSUME IInv, WriteHeaders
  PROVE  /\ target.bid \in Baskets /\ ctrl'.bid = target.bid
         /\ ctrl'.fposB = 0 /\ ctrl'.fposI = 0 /\ ctrl'.bktT2 = ctrl.bktT2
         /\ ctrl'.ibuf = ctrl.ibuf /\ ctrl'.bbuf = ctrl.bbuf
         /\ ctrl.ibuf = <<>> /\ ctrl.bbuf = <<>>
<1>1. target.bid \in Baskets /\ ctrl' = OpenedCtrl(target.bid, 0, 0)
  BY DEF WriteHeaders, IInv, BasketsFit
<1>2. ctrl \in Ctrls /\ now \in Nat /\ 0 \in Nat
  BY Basics
<1>3. ctrl.ibuf = <<>> /\ ctrl.bbuf = <<>>
  BY DEF WriteHeaders, IInv, PositionsFit
<1> QED BY <1>1, <1>2, <1>3, OpenedType, OpenedFields

\* A flush of the data writes the buffer behind the write position.
LEMMA DataWritten ==
  ASSUME IInv, FlushData
  PROVE  \/ /\ ctrl.bbuf = <<>>
            /\ UNCHANGED <<bkt, ctrl, flushed>>
         \/ /\ ctrl.bbuf # <<>> /\ fdOpen /\ ctrl.bid \in Baskets
            /\ \E aligned \in BOOLEAN :
                 bkt'[ctrl.bid] = Overwrite(bkt[ctrl.bid], ctrl.fposB, ctrl.bbuf, aligned)
            /\ \A b \in Baskets \ {ctrl.bid} : bkt'[b] = bkt[b]
            /\ \A b \in Baskets : flushed'[b].ents = flushed[b].ents
            /\ \A b \in Baskets \ {ctrl.bid} : flushed'[b] = flushed[b]
            /\ flushed'[ctrl.bid].slots =
                 IF IsFrame(ctrl.bbuf[1])
                 THEN AtLeast(flushed[ctrl.bid].slots,
                              ctrl.fposB + FirstFrames(ctrl.bbuf))
                 ELSE flushed[ctrl.bid].slots
            /\ ctrl'.bktT2 = ctrl.bktT2
<1>1. CASE ctrl.bbuf = <<>>
  BY <1>1 DEF FlushData
<1>2. CASE ctrl.bbuf # <<>>
  <2>1. fdOpen /\ ctrl.bid \in Baskets
    BY <1>2 DEF FlushData, IInv, BasketsFit
  <2>2. /\ bkt \in [Baskets -> Seq(Slots)] /\ ctrl \in Ctrls
        /\ flushed \in [Baskets -> [slots : Nat, ents : Nat]]
    BY Basics
  <2>3. PICK aligned \in BOOLEAN :
          bkt' = [bkt EXCEPT ![ctrl.bid] =
                    Overwrite(bkt[ctrl.bid], ctrl.fposB, ctrl.bbuf, aligned)]
    BY <1>2 DEF FlushData
  <2> DEFINE v == IF IsFrame(ctrl.bbuf[1])
                  THEN AtLeast(flushed[ctrl.bid].slots,
                               ctrl.fposB + FirstFrames(ctrl.bbuf))
                  ELSE flushed[ctrl.bid].slots
             p == ctrl.fposB + Len(ctrl.bbuf)
  <2>4. /\ flushed' = [flushed EXCEPT ![ctrl.bid].slots = v]
        /\ ctrl' = [ctrl EXCEPT !.fposB = p, !.bbuf = <<>>]
    BY <1>2 DEF FlushData
  <2> HIDE DEF v, p
  <2>5. /\ \A b \in Baskets : flushed'[b].ents = flushed[b].ents
        /\ \A b \in Baskets \ {ctrl.bid} : flushed'[b] = flushed[b]
        /\ flushed'[ctrl.bid].slots = v
    BY <2>1, <2>2, <2>4
  <2>6. ctrl'.bktT2 = ctrl.bktT2
    BY <2>2, <2>4 DEF Ctrls
  <2>7. /\ bkt'[ctrl.bid] = Overwrite(bkt[ctrl.bid], ctrl.fposB, ctrl.bbuf, aligned)
        /\ \A b \in Baskets \ {ctrl.bid} : bkt'[b] = bkt[b]
    BY <2>1, <2>2, <2>3
  <2> QED BY <1>2, <2>1, <2>5, <2>6, <2>7 DEF v
<1> QED BY <1>1, <1>2

\* A flush of the index writes the entries behind the last one.
LEMMA IndexWritten ==
  ASSUME IInv, FlushIndex
  PROVE  \/ /\ ctrl.ibuf = <<>>
            /\ UNCHANGED <<idx, ctrl, flushed>>
         \/ /\ ctrl.ibuf # <<>> /\ fdOpen /\ ctrl.bid \in Baskets
            /\ idx'[ctrl.bid].ents =
                 Overwrite(idx[ctrl.bid].ents, ctrl.fposI, ctrl.ibuf, TRUE)
            /\ \A b \in Baskets \ {ctrl.bid} : idx'[b] = idx[b]
            /\ \A b \in Baskets : idx'[b].count = idx[b].count
            /\ \A b \in Baskets : flushed'[b].slots = flushed[b].slots
            /\ \A b \in Baskets \ {ctrl.bid} : flushed'[b] = flushed[b]
            /\ flushed'[ctrl.bid].ents =
                 AtLeast(flushed[ctrl.bid].ents, ctrl.fposI + Len(ctrl.ibuf))
            /\ ctrl'.fposI = ctrl.fposI + Len(ctrl.ibuf)
            /\ ctrl'.bktT2 = ctrl.bktT2
<1>1. CASE ctrl.ibuf = <<>>
  BY <1>1 DEF FlushIndex
<1>2. CASE ctrl.ibuf # <<>>
  <2>1. fdOpen /\ ctrl.bid \in Baskets
    BY <1>2 DEF FlushIndex, IInv, BasketsFit
  <2>2. /\ idx \in [Baskets -> [count : Nat, ents : Seq(Entries)]] /\ ctrl \in Ctrls
        /\ flushed \in [Baskets -> [slots : Nat, ents : Nat]]
    BY Basics
  <2> DEFINE new == Overwrite(idx[ctrl.bid].ents, ctrl.fposI, ctrl.ibuf, TRUE)
             p == ctrl.fposI + Len(ctrl.ibuf)
             v == AtLeast(flushed[ctrl.bid].ents, p)
  <2>3. /\ idx' = [idx EXCEPT ![ctrl.bid].ents = new]
        /\ flushed' = [flushed EXCEPT ![ctrl.bid].ents = v]
        /\ ctrl' = [ctrl EXCEPT !.fposI = p, !.ibuf = <<>>]
    BY <1>2 DEF FlushIndex
  <2> HIDE DEF new, v, p
  <2>4. /\ idx'[ctrl.bid].ents = new
        /\ \A b \in Baskets \ {ctrl.bid} : idx'[b] = idx[b]
        /\ \A b \in Baskets : idx'[b].count = idx[b].count
    BY <2>1, <2>2, <2>3
  <2>5. /\ \A b \in Baskets : flushed'[b].slots = flushed[b].slots
        /\ \A b \in Baskets \ {ctrl.bid} : flushed'[b] = flushed[b]
        /\ flushed'[ctrl.bid].ents = v
    BY <2>1, <2>2, <2>3
  <2>6. ctrl'.fposI = p /\ ctrl'.bktT2 = ctrl.bktT2
    BY <2>2, <2>3 DEF Ctrls
  <2> QED BY <1>2, <2>1, <2>4, <2>5, <2>6 DEF new, v, p
<1> QED BY <1>1, <1>2

\* The flush of the day file leaves everything but its rows.
LEMMA RowsFields ==
  ASSUME IInv, FlushRdb
  PROVE  ctrl'.bktT2 = ctrl.bktT2
<1>1. ctrl' = ctrl \/ \E n \in 1 .. Len(ctrl.rbuf) :
                         ctrl' = [ctrl EXCEPT !.rbuf = SubSeq(@, n + 1, Len(@))]
  BY DEF FlushRdb
<1> QED BY <1>1 DEF IInv, TypeOK, Ctrls

-----------------------------------------------------------------------------
(* Times.                                                                  *)

\* A sequence whose members are stamped up to t, written over with another.
LEMMA OverwriteUpTo ==
  ASSUME NEW S, NEW file \in Seq(S), NEW p \in 0 .. Len(file), NEW s \in Seq(S),
         NEW aligned \in BOOLEAN, \A x \in S : aligned \/ (Gap(x) \in S /\ Gap(x).ts = x.ts),
         NEW t, UpTo(file, t), UpTo(s, t)
  PROVE  UpTo(Overwrite(file, p, s, aligned), t)
<1> DEFINE T == {x \in S : x.ts <= t}
<1>1. file \in Seq(T) /\ s \in Seq(T)
  <2>1. /\ \A i \in 1 .. Len(file) : file[i] \in T
        /\ \A i \in 1 .. Len(s) : s[i] \in T
    BY Places DEF UpTo
  <2> HIDE DEF T
  <2> QED BY <2>1, SeqOfSubset
<1>2. \A x \in T : aligned \/ Gap(x) \in T
  OBVIOUS
<1> HIDE DEF T
<1>3. Overwrite(file, p, s, aligned) \in Seq(T)
  BY <1>1, <1>2, OverwriteSeq
<1>4. \A i \in DOMAIN Overwrite(file, p, s, aligned) : Overwrite(file, p, s, aligned)[i] \in T
  BY <1>3, Places
<1> QED BY <1>4 DEF UpTo, T

\* A step that leaves the files and lets the buffers be, or clears them.
LEMMA TimesFrame ==
  ASSUME TimesFit, now' = now,
         \A b \in Baskets : idx'[b].ents = idx[b].ents, bkt' = bkt,
         ctrl'.ibuf = ctrl.ibuf \/ ctrl'.ibuf = <<>>,
         ctrl'.bbuf = ctrl.bbuf \/ ctrl'.bbuf = <<>>,
         op' \in {"roll", "flush"} => op' = op /\ cur' = cur
  PROVE  TimesFit'
<1>1. \A t : UpTo(<<>>, t)
  BY Places DEF UpTo
<1>2. /\ \A b \in Baskets : UpTo(idx'[b].ents, now') /\ UpTo(bkt'[b], now')
      /\ op' \in {"roll", "flush"} => cur'.ts = now'
  BY DEF TimesFit
<1>3. UpTo(ctrl'.ibuf, now') /\ UpTo(ctrl'.bbuf, now')
  BY <1>1 DEF TimesFit
<1> QED BY <1>2, <1>3 DEF TimesFit

\* Appending a member stamped up to t.
LEMMA AppendUpTo ==
  ASSUME NEW S, NEW s \in Seq(S), NEW e \in S, NEW t, UpTo(s, t), e.ts <= t
  PROVE  UpTo(Append(s, e), t)
<1>1. /\ DOMAIN Append(s, e) = 1 .. Len(s) + 1 /\ Len(s) \in Nat /\ DOMAIN s = 1 .. Len(s)
      /\ \A i \in 1 .. Len(s) : Append(s, e)[i] = s[i]
      /\ Append(s, e)[Len(s) + 1] = e
  BY AppendSeq, Places
<1>2. ASSUME NEW i \in 1 .. Len(s) + 1
      PROVE  Append(s, e)[i].ts <= t
  <2>1. CASE i \in 1 .. Len(s)
    BY <1>1, <2>1 DEF UpTo
  <2>2. CASE i = Len(s) + 1
    BY <1>1, <2>2
  <2> QED BY <1>1, <2>1, <2>2
<1> QED BY <1>1, <1>2 DEF UpTo

\* The buffers after a frame of now has been put in.
LEMMA WithUpTo ==
  ASSUME IInv, TimesFit, NEW f \in Slots, f.ts = now
  PROVE  UpTo(With(ctrl, f).ibuf, now) /\ UpTo(With(ctrl, f).bbuf, now)
<1> DEFINE entry == [ch |-> f.ch, ts |-> f.ts, fpos |-> ctrl.fposB + Len(ctrl.bbuf)]
<1>1. /\ ctrl \in Ctrls /\ ctrl.bbuf \in Seq(Slots) /\ ctrl.ibuf \in Seq(Entries)
      /\ entry \in Entries /\ entry.ts = now /\ now \in Nat
  BY Basics DEF Entries, Slots
<1>2. /\ With(ctrl, f).bbuf = Append(ctrl.bbuf, f)
      /\ With(ctrl, f).ibuf \in {ctrl.ibuf, Append(ctrl.ibuf, entry)}
  BY <1>1, WithType
<1> HIDE DEF entry
<1>3. UpTo(Append(ctrl.bbuf, f), now) /\ UpTo(Append(ctrl.ibuf, entry), now)
  BY <1>1, AppendUpTo DEF TimesFit
<1> QED BY <1>2, <1>3 DEF TimesFit

\* The times go no further than the clock.
LEMMA TimesStep ==
  ASSUME IInv, SessionFits, TimesFit, Next
  PROVE  TimesFit'
<1>0. /\ ctrl \in Ctrls /\ now \in Nat /\ pc \in PCs
      /\ idx \in [Baskets -> [count : Nat, ents : Seq(Entries)]]
      /\ ctrl.bbuf \in Seq(Slots) /\ ctrl.ibuf \in Seq(Entries)
  BY Basics
<1>1. CASE RequestOpen
  BY <1>1, ZeroType, TimesFrame DEF RequestOpen, disk, env
<1>2. CASE SearchResumable
  <2>1. ctrl'.ibuf = ctrl.ibuf /\ ctrl'.bbuf = ctrl.bbuf
    BY <1>0, <1>2 DEF SearchResumable, Ctrls
  <2> QED BY <1>2, <2>1, TimesFrame DEF SearchResumable, disk, env
<1>3. CASE SearchEmpty
  <2>1. ctrl'.ibuf = ctrl.ibuf /\ ctrl'.bbuf = ctrl.bbuf
    BY <1>0, <1>3, SearchFields DEF SearchEmpty
  <2> QED BY <1>3, <2>1, TimesFrame DEF SearchEmpty, disk, env
<1>4. CASE SearchOldest
  <2>1. ctrl'.ibuf = ctrl.ibuf /\ ctrl'.bbuf = ctrl.bbuf
    BY <1>0, <1>4, SearchFields DEF SearchOldest
  <2>2. op' \in {"roll", "flush"} => op' = op /\ cur' = cur
    BY <1>4 DEF SearchOldest, GiveUp, Return
  <2> QED BY <1>4, <2>1, <2>2, TimesFrame DEF SearchOldest
<1>5. CASE WriteHeaders
  <2>1. ctrl'.ibuf = ctrl.ibuf /\ ctrl'.bbuf = ctrl.bbuf
    BY <1>5, BegunAt
  <2>2. \A b \in Baskets : idx'[b].ents = idx[b].ents
    BY <1>0, <1>5 DEF WriteHeaders
  <2> QED BY <1>5, <2>1, <2>2, TimesFrame DEF WriteHeaders, Goto, env
<1>6. CASE ResumeBasket
  <2>1. ctrl'.ibuf = ctrl.ibuf /\ ctrl'.bbuf = ctrl.bbuf
    BY <1>0, <1>6, ResumedAt, OpenedType DEF ResumeBasket, IInv, BasketsFit
  <2> QED BY <1>6, <2>1, TimesFrame DEF ResumeBasket, Goto, disk, env
<1>7. CASE OpenError
  BY <1>7, TimesFrame DEF OpenError, GiveUp, Return, disk
<1>8. CASE MarkManager
  BY <1>8, TimesFrame DEF MarkManager, Goto, env
<1>9. CASE MarkRecinfo
  BY <1>9, TimesFrame DEF MarkRecinfo, Goto, Return, env
<1>10. CASE RequestWrite
  <2>1. PICK f \in Slots : f.ts = now /\ Wrote(f)
    BY <1>10, RequestedNow
  <2>2. UpTo(ctrl'.ibuf, now) /\ UpTo(ctrl'.bbuf, now)
    <3>1. CASE ctrl' = With(ctrl, f)
      BY <2>1, <3>1, WithUpTo
    <3>2. CASE ctrl' = FlushCtrl(f)
      BY <1>0, <3>2, RollType DEF TimesFit
    <3>3. CASE ctrl' = RollCtrl(f)
      <4>1. [f EXCEPT !.kind = "END"] \in Slots /\ [f EXCEPT !.kind = "END"].ts = now
        BY <2>1 DEF Slots
      <4>2. UpTo(Append(ctrl.bbuf, [f EXCEPT !.kind = "END"]), now)
        <5> DEFINE g == [f EXCEPT !.kind = "END"]
        <5>1. g \in Slots /\ g.ts <= now /\ UpTo(ctrl.bbuf, now)
          BY <1>0, <4>1 DEF TimesFit
        <5> HIDE DEF g
        <5>2. UpTo(Append(ctrl.bbuf, g), now)
          BY <1>0, <5>1, AppendUpTo
        <5> QED BY <5>2 DEF g
      <4> QED BY <1>0, <3>3, <4>2, RollType, RollFields DEF TimesFit
    <3> QED BY <2>1, <3>1, <3>2, <3>3 DEF Wrote
  <2>3. op' \in {"roll", "flush"} => cur'.ts = now
    BY <1>10, <2>1 DEF Wrote, TimesFit
  <2> QED BY <1>10, <2>2, <2>3 DEF RequestWrite, disk, TimesFit
<1>11. CASE AppendFrame
  <2>1. cur \in Slots /\ cur.ts = now
    BY <1>11 DEF AppendFrame, IInv, CallsFit, TimesFit
  <2>2. UpTo(ctrl'.ibuf, now) /\ UpTo(ctrl'.bbuf, now)
    BY <1>11, <2>1, WithUpTo DEF AppendFrame
  <2> QED BY <1>11, <2>2 DEF AppendFrame, Return, disk, env, TimesFit
<1>12. CASE FlushData
  <2>1. ctrl'.ibuf = ctrl.ibuf /\ ctrl'.bbuf = <<>>
    BY <1>12, FlushedData
  <2>2. ASSUME NEW b \in Baskets
        PROVE  UpTo(bkt'[b], now)
    <3>1. CASE bkt'[b] = bkt[b]
      BY <3>1 DEF TimesFit
    <3>2. CASE bkt'[b] # bkt[b]
      <4>1. /\ b = ctrl.bid /\ fdOpen
            /\ \E aligned \in BOOLEAN :
                 bkt'[b] = Overwrite(bkt[b], ctrl.fposB, ctrl.bbuf, aligned)
        BY <1>12, <3>2, DataWritten
      <4>2. PICK aligned \in BOOLEAN :
              bkt'[b] = Overwrite(bkt[b], ctrl.fposB, ctrl.bbuf, aligned)
        BY <4>1
      <4>3. \A x \in Slots : aligned \/ (Gap(x) \in Slots /\ Gap(x).ts = x.ts)
        BY DEF Gap, Slots
      <4>4. bkt[b] \in Seq(Slots) /\ ctrl.fposB \in 0 .. Len(bkt[b])
        BY <4>1, Basics DEF IInv, PositionsFit
      <4>5. UpTo(bkt[b], now) /\ UpTo(ctrl.bbuf, now)
        BY DEF TimesFit
      <4>6. UpTo(Overwrite(bkt[b], ctrl.fposB, ctrl.bbuf, aligned), now)
        BY <1>0, <4>3, <4>4, <4>5, OverwriteUpTo
      <4> QED BY <4>2, <4>6
    <3> QED BY <3>1, <3>2
  <2>3. UpTo(ctrl'.ibuf, now) /\ UpTo(ctrl'.bbuf, now)
    BY <2>1, Places DEF TimesFit, UpTo
  <2>4. UNCHANGED <<idx, now, op, cur>>
    BY <1>12 DEF FlushData, Goto, env
  <2> QED BY <2>2, <2>3, <2>4 DEF TimesFit
<1>13. CASE FlushIndex
  <2>1. ctrl'.ibuf = <<>> /\ ctrl'.bbuf = ctrl.bbuf
    BY <1>13, FlushedIndex
  <2>2. ASSUME NEW b \in Baskets
        PROVE  UpTo(idx'[b].ents, now)
    <3>1. CASE idx'[b].ents = idx[b].ents
      BY <3>1 DEF TimesFit
    <3>2. CASE idx'[b].ents # idx[b].ents
      <4>1. /\ b = ctrl.bid /\ fdOpen
            /\ idx'[b].ents = Overwrite(idx[b].ents, ctrl.fposI, ctrl.ibuf, TRUE)
        BY <1>13, <3>2, IndexWritten
      <4>2. idx[b].ents \in Seq(Entries) /\ ctrl.fposI \in 0 .. Len(idx[b].ents)
        BY <4>1, Basics DEF IInv, PositionsFit
      <4>3. UpTo(idx[b].ents, now) /\ UpTo(ctrl.ibuf, now)
        BY DEF TimesFit
      <4> QED BY <1>0, <4>1, <4>2, <4>3, OverwriteUpTo
    <3> QED BY <3>1, <3>2
  <2>3. UpTo(ctrl'.ibuf, now) /\ UpTo(ctrl'.bbuf, now)
    BY <2>1, Places DEF TimesFit, UpTo
  <2>4. UNCHANGED <<bkt, now, op, cur>>
    BY <1>13 DEF FlushIndex, Goto, env
  <2> QED BY <2>2, <2>3, <2>4 DEF TimesFit
<1>14. CASE FlushRdb
  <2>1. ctrl'.ibuf = ctrl.ibuf /\ ctrl'.bbuf = ctrl.bbuf
    BY <1>14, FlushedRows
  <2> QED BY <1>14, <2>1, TimesFrame DEF FlushRdb, AfterFlush, Goto, env
<1>15. CASE FlushError
  <2>1. ctrl'.ibuf = ctrl.ibuf /\ ctrl'.bbuf = ctrl.bbuf
    BY <1>0, <1>15 DEF FlushError, Ctrls
  <2> QED BY <1>15, <2>1, TimesFrame DEF FlushError, GiveUp, Return, disk
<1>16. CASE RequestExit
  BY <1>16, TimesFrame DEF RequestExit, disk
<1>17. CASE CloseIndex
  <2>1. \A b \in Baskets : idx'[b].ents = idx[b].ents
    BY <1>0, <1>17 DEF CloseIndex
  <2> QED BY <1>17, <2>1, TimesFrame DEF CloseIndex, Goto, env
<1>18. CASE CloseMgr
  <2>1. (ctrl'.ibuf = ctrl.ibuf /\ ctrl'.bbuf = ctrl.bbuf) \/ ctrl' = ZeroCtrl
    BY <1>0, <1>18, ClosedType DEF CloseMgr
  <2>2. op' \in {"roll", "flush"} => op' = op /\ cur' = cur
    BY <1>18 DEF CloseMgr, Closed, Return, Goto
  <2> QED BY <1>18, <2>1, <2>2, ZeroType, TimesFrame DEF CloseMgr, env
<1>19. CASE CloseRecinfo
  <2>1. (ctrl'.ibuf = ctrl.ibuf /\ ctrl'.bbuf = ctrl.bbuf) \/ ctrl' = ZeroCtrl
    BY <1>0, <1>19, ClosedType DEF CloseRecinfo
  <2>2. op' \in {"roll", "flush"} => op' = op /\ cur' = cur
    BY <1>19 DEF CloseRecinfo, Closed, Return, Goto
  <2> QED BY <1>19, <2>1, <2>2, ZeroType, TimesFrame DEF CloseRecinfo, env
<1>20. CASE Crash
  BY <1>20, ZeroType, TimesFrame DEF Crash, Return, disk
<1>21. CASE SetRecycleMode
  BY <1>21, TimesFrame DEF SetRecycleMode, disk, call
<1>22. CASE Tick
  <2>1. /\ UNCHANGED <<bkt, idx, ctrl, op, cur>> /\ now' = now + 1 /\ op = "none"
    BY <1>22 DEF Tick, disk, memory, call, SessionFits
  <2>2. ASSUME NEW S, NEW s \in Seq(S), UpTo(s, now), \A x \in S : x.ts \in Nat
        PROVE  UpTo(s, now + 1)
    <3>1. \A i \in DOMAIN s : s[i].ts \in Nat
      BY <2>2, Places
    <3> QED BY <1>0, <2>2, <3>1 DEF UpTo
  <2>3. (\A x \in Slots : x.ts \in Nat) /\ \A x \in Entries : x.ts \in Nat
    BY DEF Slots, Entries
  <2>4. \A b \in Baskets : UpTo(idx[b].ents, now + 1) /\ UpTo(bkt[b], now + 1)
    BY <2>2, <2>3, Basics DEF TimesFit
  <2>5. UpTo(ctrl.ibuf, now + 1) /\ UpTo(ctrl.bbuf, now + 1)
    BY <1>0, <2>2, <2>3 DEF TimesFit
  <2> QED BY <2>1, <2>4, <2>5 DEF TimesFit
<1> QED
  BY <1>1, <1>2, <1>3, <1>4, <1>5, <1>6, <1>7, <1>8, <1>9, <1>10, <1>11,
     <1>12, <1>13, <1>14, <1>15, <1>16, <1>17, <1>18, <1>19, <1>20, <1>21, <1>22 DEF Next

-----------------------------------------------------------------------------
(* Where the calls stand.                                                  *)

\* Each step of a call leaves the memory as the next expects it.
LEMMA SessionStep ==
  ASSUME IInv, SessionFits, Next
  PROVE  SessionFits'
<1>0. /\ ctrl \in Ctrls /\ stops \in Nat /\ CallsFit /\ BasketsFit
      /\ op \in {"none", "open", "exit", "roll", "flush"} /\ pc \in PCs
      /\ status \in {"closed", "opened", "full"} /\ fdOpen \in BOOLEAN
  BY Basics DEF IInv
<1>z. ZeroCtrl.bktT2 = NoTimes /\ ZeroCtrl.bid = 0
  BY DEF ZeroCtrl
<1> USE <1>0, <1>z DEF SessionFits, CallsFit, BasketsFit, Opening, Marking, Flushing, Closing
<1>1. CASE RequestOpen
  BY <1>1 DEF RequestOpen, disk, env
<1>2. CASE SearchResumable
  <2>1. ctrl'.bktT2 = ctrl.bktT2
    BY <1>2 DEF SearchResumable, Ctrls
  <2> QED BY <1>2, <2>1 DEF SearchResumable, Resumable, disk, env
<1>3. CASE SearchEmpty
  <2>1. PICK b \in Empty : ctrl' = SearchCtrl(b)
    BY <1>3 DEF SearchEmpty
  <2>2. ctrl'.bktT2 = NoTimes /\ (op # "open" => ctrl'.bid = 0)
    BY <1>3, <2>1, SearchFields DEF SearchEmpty
  <2>3. pc' = "header" /\ UNCHANGED <<op, status, fdOpen, stops>> /\ pc = "search"
    BY <1>3 DEF SearchEmpty, env
  <2> QED BY <2>2, <2>3
<1>4. CASE SearchOldest
  <2>1. PICK b \in Oldest : ctrl' = SearchCtrl(b)
    BY <1>4 DEF SearchOldest
  <2>2. ctrl'.bktT2 = NoTimes /\ (op # "open" => ctrl'.bid = 0)
    BY <1>4, <2>1, SearchFields DEF SearchOldest
  <2>3. /\ UNCHANGED <<fdOpen, stops>> /\ pc = "search"
        /\ \/ pc' = "header" /\ UNCHANGED <<op, status>>
           \/ pc' = "idle" /\ op' = "none" /\ (op = "open" => status' = status)
    BY <1>4 DEF SearchOldest, GiveUp, Return
  <2> QED BY <2>2, <2>3
<1>5. CASE WriteHeaders
  BY <1>5, BegunAt DEF WriteHeaders, Goto, env
<1>6. CASE ResumeBasket
  BY <1>6 DEF ResumeBasket, Goto, disk, env
<1>7. CASE OpenError
  BY <1>7 DEF OpenError, GiveUp, Return, disk
<1>8. CASE MarkManager
  BY <1>8 DEF MarkManager, Goto, env
<1>9. CASE MarkRecinfo
  BY <1>9 DEF MarkRecinfo, Goto, Return, env
<1>10. CASE RequestWrite
  <2>1. ctrl'.bid = ctrl.bid
    BY <1>10, BidKept
  <2>2. PICK f \in Slots : Wrote(f)
    BY <1>10, Requested
  <2>3. \/ op' = "roll" /\ pc' = "data"
        \/ op' = "flush" /\ pc' = "data"
        \/ UNCHANGED <<op, pc>>
    BY <2>2 DEF Wrote
  <2> QED BY <1>10, <2>1, <2>3 DEF RequestWrite, disk
<1>11. CASE AppendFrame
  <2>1. ctrl'.bid = ctrl.bid
    BY <1>11, BidKept
  <2> QED BY <1>11, <2>1 DEF AppendFrame, Return, disk, env
<1>12. CASE FlushData
  <2>1. ctrl'.bid = ctrl.bid
    BY <1>12, BidKept
  <2> QED BY <1>12, <2>1 DEF FlushData, Goto, env
<1>13. CASE FlushIndex
  <2>1. ctrl'.bid = ctrl.bid
    BY <1>13, BidKept
  <2> QED BY <1>13, <2>1 DEF FlushIndex, Goto, env
<1>14. CASE FlushRdb
  <2>1. ctrl'.bid = ctrl.bid
    BY <1>14, BidKept
  <2> QED BY <1>14, <2>1 DEF FlushRdb, AfterFlush, Goto, env
<1>15. CASE FlushError
  <2>1. ctrl'.bid = ctrl.bid
    BY <1>15 DEF FlushError, Ctrls
  <2> QED BY <1>15, <2>1 DEF FlushError, GiveUp, Return, disk, HasData
<1>16. CASE RequestExit
  BY <1>16 DEF RequestExit, disk
<1>17. CASE CloseIndex
  BY <1>17 DEF CloseIndex, Goto, env
<1>18. CASE CloseMgr
  <2>1. CASE ctrl.bid # 0
    BY <1>18, <2>1 DEF CloseMgr, Goto, env
  <2>2. CASE ctrl.bid = 0
    <3>1. Closed /\ pc = "closeMgr" /\ UNCHANGED <<fdOpen, stops>>
      BY <1>18, <2>2 DEF CloseMgr, env
    <3>2. ctrl'.bktT2 = NoTimes
      BY <3>1, ClosedFields
    <3> QED BY <3>1, <3>2 DEF Closed, Return, Goto
  <2> QED BY <2>1, <2>2
<1>19. CASE CloseRecinfo
  <2>1. Closed /\ pc = "closeRecinfo" /\ UNCHANGED <<fdOpen, stops>>
    BY <1>19 DEF CloseRecinfo, env
  <2>2. ctrl'.bktT2 = NoTimes
    BY <2>1, ClosedFields
  <2> QED BY <2>1, <2>2 DEF Closed, Return, Goto
<1>20. CASE Crash
  BY <1>20 DEF Crash, Return, disk
<1>21. CASE SetRecycleMode
  BY <1>21 DEF SetRecycleMode, disk, call
<1>22. CASE Tick
  BY <1>22 DEF Tick, disk, memory, call
<1> QED
  BY <1>1, <1>2, <1>3, <1>4, <1>5, <1>6, <1>7, <1>8, <1>9, <1>10, <1>11,
     <1>12, <1>13, <1>14, <1>15, <1>16, <1>17, <1>18, <1>19, <1>20, <1>21, <1>22 DEF Next

\* Only a stop or a power cut leaves a basket to go on with.
LEMMA FirstSessionStep ==
  ASSUME IInv, SessionFits, FirstSession, Next
  PROVE  FirstSession'
<1> SUFFICES ASSUME crashes' = 0, stops' = 0
             PROVE  /\ status' = "closed" => recinfo'.flag = "empty"
                    /\ pc' # "resume"
                    /\ fdOpen' => idx'[ctrl'.bid].count = 0
  BY DEF FirstSession
<1>0. /\ stops \in Nat /\ crashes \in Nat /\ CallsFit /\ BasketsFit
      /\ idx \in [Baskets -> [count : Nat, ents : Seq(Entries)]]
      /\ op \in {"none", "open", "exit", "roll", "flush"} /\ pc \in PCs
  BY Basics DEF IInv
<1> USE <1>0 DEF FirstSession, CallsFit, BasketsFit, Opening, Marking, Flushing, Closing
<1>a. CASE UNCHANGED <<crashes, stops, status, recinfo, idx>> /\ ctrl'.bid = ctrl.bid
           /\ fdOpen' = fdOpen /\ (pc' = pc \/ pc' # "resume")
  BY <1>a
<1>1. CASE RequestOpen
  BY <1>1 DEF RequestOpen, disk, env
<1>2. CASE SearchResumable
  BY <1>2 DEF SearchResumable, Resumable, disk, env
<1>3. CASE SearchEmpty
  BY <1>3 DEF SearchEmpty, disk, env
<1>4. CASE SearchOldest
  BY <1>4 DEF SearchOldest, GiveUp, Return
<1>5. CASE WriteHeaders
  <2>1. idx'[target.bid].count = 0
    BY <1>5, BegunAt DEF WriteHeaders
  <2> QED BY <1>5, <2>1, BegunAt DEF WriteHeaders, Goto, env
<1>6. CASE ResumeBasket
  BY <1>6 DEF ResumeBasket, Goto, disk, env
<1>7. CASE OpenError
  BY <1>7 DEF OpenError, GiveUp, Return, disk
<1>8. CASE MarkManager
  BY <1>8 DEF MarkManager, Goto, env
<1>9. CASE MarkRecinfo
  BY <1>9 DEF MarkRecinfo, Goto, Return, env
<1>10. CASE RequestWrite
  <2>1. pc' \in {pc, "data"}
    BY <1>10, Requested DEF Wrote
  <2>2. UNCHANGED <<crashes, stops, status, recinfo, idx, fdOpen>>
    BY <1>10 DEF RequestWrite, disk
  <2> QED BY <1>10, <2>1, <2>2, <1>a, BidKept
<1>11. CASE AppendFrame
  BY <1>11, <1>a, BidKept DEF AppendFrame, Return, disk, env
<1>12. CASE FlushData
  BY <1>12, <1>a, BidKept DEF FlushData, Goto, env
<1>13. CASE FlushIndex
  <2>1. UNCHANGED <<crashes, stops, status, recinfo, fdOpen>> /\ pc' = "rdb"
    BY <1>13 DEF FlushIndex, Goto, env
  <2>2. fdOpen => idx'[ctrl.bid].count = idx[ctrl.bid].count
    BY <1>13, IndexWritten
  <2> QED BY <1>13, <2>1, <2>2, BidKept
<1>14. CASE FlushRdb
  BY <1>14, <1>a, BidKept DEF FlushRdb, AfterFlush, Goto, env
<1>15. CASE FlushError
  <2>1. ctrl'.bid = ctrl.bid
    BY <1>15, Basics DEF FlushError, Ctrls
  <2> QED BY <1>15, <2>1, <1>a DEF FlushError, GiveUp, Return, disk
<1>16. CASE RequestExit
  BY <1>16 DEF RequestExit, disk
<1>17. CASE CloseIndex
  BY <1>17 DEF CloseIndex, Goto, env
<1>18. CASE CloseMgr
  <2>1. UNCHANGED <<crashes, stops, recinfo, fdOpen>> /\ pc = "closeMgr" /\ op = "roll"
    BY <1>18 DEF CloseMgr, env, SessionFits
  <2>2. status' = status /\ pc' # "resume"
    BY <1>18, <2>1 DEF CloseMgr, Closed, Goto
  <2> QED BY <2>1, <2>2
<1>19. CASE CloseRecinfo
  <2>1. UNCHANGED <<crashes, stops, fdOpen>> /\ pc = "closeRecinfo" /\ op = "roll"
    BY <1>19 DEF CloseRecinfo, env, SessionFits
  <2>2. status' = status /\ pc' # "resume"
    BY <1>19, <2>1 DEF CloseRecinfo, Closed, Goto
  <2> QED BY <2>1, <2>2
<1>20. CASE Crash
  BY <1>20 DEF Crash
<1>21. CASE SetRecycleMode
  BY <1>21 DEF SetRecycleMode, disk, call
<1>22. CASE Tick
  BY <1>22 DEF Tick, disk, memory, call
<1> QED
  BY <1>1, <1>2, <1>3, <1>4, <1>5, <1>6, <1>7, <1>8, <1>9, <1>10, <1>11,
     <1>12, <1>13, <1>14, <1>15, <1>16, <1>17, <1>18, <1>19, <1>20, <1>21, <1>22 DEF Next

-----------------------------------------------------------------------------
(* The index.                                                              *)

\* An entry behind all of them in time and position.
LEMMA GrowsAppend ==
  ASSUME NEW s \in Seq(Entries), NEW e \in Entries, Grows(s, Len(s)),
         \A i \in DOMAIN s : s[i].ts <= e.ts /\ s[i].fpos <= e.fpos
  PROVE  Grows(Append(s, e), Len(Append(s, e)))
<1> DEFINE a == Append(s, e)
<1>1. /\ Len(a) = Len(s) + 1 /\ Len(s) \in Nat /\ DOMAIN s = 1 .. Len(s)
      /\ \A i \in 1 .. Len(s) : a[i] = s[i]
      /\ a[Len(s) + 1] = e
  BY AppendSeq, Places
<1> HIDE DEF a
<1>2. ASSUME NEW i \in 1 .. Len(s) + 1, i > 1
      PROVE  /\ a[i].ts >= a[i - 1].ts
             /\ a[i].fpos >= a[i - 1].fpos
  <2>1. i - 1 \in 1 .. Len(s) /\ a[i - 1] = s[i - 1]
    BY <1>1, <1>2
  <2>2. CASE i \in 1 .. Len(s)
    <3>1. EntryFollows(s, i)
      BY <2>2 DEF Grows
    <3>2. s[i].ts >= s[i - 1].ts /\ s[i].fpos >= s[i - 1].fpos
      BY <1>2, <3>1 DEF EntryFollows
    <3>3. a[i] = s[i] /\ a[i - 1] = s[i - 1]
      BY <1>1, <2>1, <2>2
    <3> QED BY <3>2, <3>3
  <2>3. CASE i = Len(s) + 1
    <3>1. s[i - 1] \in Entries /\ s[i - 1].ts <= e.ts /\ s[i - 1].fpos <= e.fpos
      BY <1>1, <2>1, Places
    <3> QED BY <1>1, <2>1, <2>3, <3>1 DEF Entries
  <2> QED BY <1>1, <2>2, <2>3
<1>3. Grows(a, Len(a))
  BY <1>1, <1>2 DEF Grows, EntryFollows
<1> QED BY <1>3 DEF a

\* The entry of a frame of now comes behind those in the buffer.
LEMMA WithGrows ==
  ASSUME IInv, TimesFit, EntriesGrow, NEW f \in Slots, f.ts = now
  PROVE  Grows(With(ctrl, f).ibuf, Len(With(ctrl, f).ibuf))
<1> DEFINE entry == [ch |-> f.ch, ts |-> f.ts, fpos |-> ctrl.fposB + Len(ctrl.bbuf)]
<1>1. /\ ctrl \in Ctrls /\ ctrl.ibuf \in Seq(Entries) /\ Len(ctrl.bbuf) \in Nat
      /\ ctrl.fposB \in Nat /\ entry \in Entries /\ entry.ts = now
      /\ entry.fpos = ctrl.fposB + Len(ctrl.bbuf)
  BY Basics DEF Entries, Slots
<1>2. With(ctrl, f).ibuf \in {ctrl.ibuf, Append(ctrl.ibuf, entry)}
  BY <1>1, WithType
<1> HIDE DEF entry
<1>3. \A i \in DOMAIN ctrl.ibuf : ctrl.ibuf[i].ts <= entry.ts /\ ctrl.ibuf[i].fpos <= entry.fpos
  <2> SUFFICES ASSUME NEW i \in DOMAIN ctrl.ibuf
               PROVE  ctrl.ibuf[i].ts <= entry.ts /\ ctrl.ibuf[i].fpos <= entry.fpos
    OBVIOUS
  <2>1. ctrl.ibuf[i].ts <= now
    BY DEF TimesFit, UpTo
  <2>2. ctrl.ibuf[i].fpos < ctrl.fposB + Len(ctrl.bbuf) /\ ctrl.ibuf[i].fpos \in Nat
    <3>1. i \in 1 .. Len(ctrl.ibuf) /\ ctrl.ibuf[i] \in Entries
      BY <1>1, Places
    <3> QED BY <3>1 DEF IInv, PositionsFit, Entries
  <2>3. ctrl.ibuf[i].fpos <= ctrl.fposB + Len(ctrl.bbuf)
    BY <1>1, <2>2
  <2> QED BY <1>1, <2>1, <2>3
<1>4. Grows(Append(ctrl.ibuf, entry), Len(Append(ctrl.ibuf, entry)))
  BY <1>1, <1>3, GrowsAppend DEF EntriesGrow
<1> QED BY <1>2, <1>4 DEF EntriesGrow

\* What a step does to the index buffer.
LEMMA IbufStep ==
  ASSUME IInv, SessionFits, TimesFit, Next
  PROVE  \/ ctrl'.ibuf \in {ctrl.ibuf, <<>>}
         \/ \E f \in Slots : f.ts = now /\ ctrl' = With(ctrl, f)
<1>0. ctrl \in Ctrls
  BY Basics
<1>z. ZeroCtrl.ibuf = <<>>
  BY DEF ZeroCtrl
<1>1. CASE RequestOpen \/ Crash
  BY <1>1, <1>z DEF RequestOpen, Crash
<1>2. CASE SearchResumable
  BY <1>0, <1>2 DEF SearchResumable, Ctrls
<1>3. CASE SearchEmpty \/ SearchOldest
  BY <1>0, <1>3, SearchFields DEF SearchEmpty, SearchOldest
<1>4. CASE WriteHeaders
  BY <1>4, BegunAt
<1>5. CASE ResumeBasket
  <2>1. target.bid \in Baskets
    BY <1>5 DEF ResumeBasket, IInv, BasketsFit
  <2>2. PICK k \in Nat, p \in Nat : ctrl' = OpenedCtrl(target.bid, p, k)
    BY <1>5, ResumedAt
  <2>3. now \in Nat
    BY Basics
  <2>4. OpenedCtrl(target.bid, p, k).ibuf = ctrl.ibuf
    BY ONLY <1>0, <2>1, <2>3, k \in Nat, p \in Nat, OpenedType
  <2> QED BY ONLY <2>2, <2>4
<1>6. CASE OpenError \/ MarkManager \/ MarkRecinfo \/ RequestExit \/ CloseIndex
           \/ SetRecycleMode \/ Tick
  BY <1>6 DEF OpenError, MarkManager, MarkRecinfo, RequestExit, CloseIndex,
              SetRecycleMode, Tick, memory
<1>7. CASE RequestWrite
  <2>1. PICK f \in Slots : f.ts = now /\ Wrote(f)
    BY <1>7, RequestedNow
  <2>2. RollCtrl(f).ibuf = ctrl.ibuf /\ FlushCtrl(f).ibuf = ctrl.ibuf
    BY <1>0, RollType
  <2> QED BY <2>1, <2>2 DEF Wrote
<1>8. CASE AppendFrame
  <2>1. cur \in Slots /\ cur.ts = now
    BY <1>8 DEF AppendFrame, IInv, CallsFit, TimesFit
  <2> QED BY <1>8, <2>1 DEF AppendFrame
<1>9. CASE FlushData \/ FlushIndex \/ FlushRdb
  BY <1>9, FlushedData, FlushedIndex, FlushedRows
<1>10. CASE FlushError
  BY <1>0, <1>10 DEF FlushError, Ctrls
<1>11. CASE CloseMgr \/ CloseRecinfo
  BY <1>0, <1>11, <1>z, ClosedType DEF CloseMgr, CloseRecinfo
<1> QED
  BY <1>1, <1>2, <1>3, <1>4, <1>5, <1>6, <1>7, <1>8, <1>9, <1>10, <1>11 DEF Next

\* Entries are buffered in the order of time and position.
LEMMA EntriesStep ==
  ASSUME IInv, SessionFits, TimesFit, EntriesGrow, Next
  PROVE  EntriesGrow'
<1>1. Grows(<<>>, Len(<<>>))
  BY Places DEF Grows
<1>2. CASE ctrl'.ibuf \in {ctrl.ibuf, <<>>}
  BY <1>1, <1>2 DEF EntriesGrow
<1>3. CASE \E f \in Slots : f.ts = now /\ ctrl' = With(ctrl, f)
  BY <1>3, WithGrows DEF EntriesGrow
<1> QED BY <1>2, <1>3, IbufStep

\* The past has no more power cuts and stops than the present.
LEMMA OneCutBefore ==
  ASSUME IInv, Next, OneCut'
  PROVE  OneCut
<1>0. crashes \in Nat /\ stops \in Nat
  BY Basics
<1>1. CASE Crash
  BY <1>0, <1>1 DEF Crash, OneCut
<1>2. CASE RequestExit
  BY <1>0, <1>2 DEF RequestExit, OneCut
<1>3. CASE ~Crash /\ ~RequestExit
  <2>1. UNCHANGED <<crashes, stops>>
    BY <1>3 DEF Next, RequestOpen, SearchResumable, SearchEmpty, SearchOldest,
                WriteHeaders, ResumeBasket, OpenError, MarkManager, MarkRecinfo,
                RequestWrite, AppendFrame, FlushData, FlushIndex, FlushRdb, FlushError,
                CloseIndex, CloseMgr, CloseRecinfo, SetRecycleMode, Tick, env
  <2> QED BY <2>1 DEF OneCut
<1> QED BY <1>1, <1>2, <1>3

\* A step that leaves the index and the positions in it.
LEMMA IndexFrame ==
  ASSUME IInv, IndexFits, OneCut,
         idx' = idx, \A b \in Baskets : flushed'[b].ents = flushed[b].ents,
         \/ ~fdOpen /\ ~fdOpen'
         \/ /\ fdOpen' = fdOpen /\ ctrl'.bid = ctrl.bid /\ ctrl'.fposI = ctrl.fposI
            /\ ctrl'.ibuf = ctrl.ibuf
            /\ ctrl'.fposB + Len(ctrl'.bbuf) >= ctrl.fposB + Len(ctrl.bbuf)
            /\ ctrl'.fposB + Len(ctrl'.bbuf) \in Nat
  PROVE  IndexFits'
<1>1. IndexKept /\ LastFits /\ \A b \in Baskets : CountFits(b)
  BY DEF IndexFits
<1>2. IndexKept' /\ \A b \in Baskets : CountFits(b)'
  BY <1>1 DEF IndexKept, CountFits, IInv, BasketsFit
<1>3. LastFits'
  <2>1. CASE ~fdOpen'
    BY <2>1 DEF LastFits
  <2>2. CASE fdOpen'
    <3>1. /\ fdOpen /\ ctrl'.bid = ctrl.bid /\ ctrl'.fposI = ctrl.fposI
          /\ ctrl'.ibuf = ctrl.ibuf
          /\ ctrl'.fposB + Len(ctrl'.bbuf) >= ctrl.fposB + Len(ctrl.bbuf)
          /\ ctrl'.fposB + Len(ctrl'.bbuf) \in Nat
      BY <2>2
    <3> DEFINE e == idx[ctrl.bid].ents[ctrl.fposI]
               z == ctrl.fposB + Len(ctrl.bbuf)
               zz == ctrl'.fposB + Len(ctrl'.bbuf)
    <3>2. ASSUME ctrl.fposI > 0, Precedes(e, ctrl.ibuf, z)
          PROVE  Precedes(e, ctrl.ibuf, zz)
      <4>1. e.fpos \in Nat /\ z \in Nat
        <5>1. /\ ctrl.fposI \in 1 .. Len(idx[ctrl.bid].ents)
              /\ idx[ctrl.bid].ents \in Seq(Entries)
          BY <3>1, <3>2, Basics DEF IInv, PositionsFit, BasketsFit
        <5>2. e \in Entries
          BY <5>1, ElementOfSeq
        <5>3. z \in Nat
          BY Basics
        <5> HIDE DEF e, z
        <5> QED BY <5>2, <5>3 DEF Entries
      <4> HIDE DEF e, z, zz
      <4>2. e.fpos <= zz
        BY <3>1, <3>2, <4>1 DEF Precedes, z, zz
      <4> QED BY <3>2, <4>2 DEF Precedes
    <3> QED BY <1>1, <3>1, <3>2 DEF LastFits
  <2> QED BY <2>1, <2>2
<1> QED BY <1>2, <1>3 DEF IndexFits

\* A frame of now that is put into the buffers of an open basket.
LEMMA IndexWith ==
  ASSUME IInv, TimesFit, IndexFits, OneCut, NEW f \in Slots, f.ts = now,
         ctrl' = With(ctrl, f), UNCHANGED <<idx, flushed, fdOpen>>
  PROVE  IndexFits'
<1> DEFINE entry == [ch |-> f.ch, ts |-> f.ts, fpos |-> ctrl.fposB + Len(ctrl.bbuf)]
<1>1. /\ ctrl'.bid = ctrl.bid /\ ctrl'.fposB = ctrl.fposB /\ ctrl'.fposI = ctrl.fposI
      /\ ctrl'.bbuf = Append(ctrl.bbuf, f)
      /\ ctrl'.ibuf = ctrl.ibuf \/ ctrl'.ibuf = Append(ctrl.ibuf, entry)
  BY Basics, WithType
<1>2. /\ Len(ctrl'.bbuf) = Len(ctrl.bbuf) + 1 /\ Len(ctrl.bbuf) \in Nat
      /\ ctrl.fposB \in Nat /\ ctrl.ibuf \in Seq(Entries) /\ now \in Nat
  BY <1>1, Basics, AppendSeq
<1>3. entry \in Entries /\ entry.ts = now /\ entry.fpos = ctrl.fposB + Len(ctrl.bbuf)
  BY <1>2 DEF Entries, Slots
<1> HIDE DEF entry
<1>4. CASE ctrl'.ibuf = ctrl.ibuf \/ ~fdOpen
  BY <1>1, <1>2, <1>4, IndexFrame
<1>5. CASE ctrl'.ibuf = Append(ctrl.ibuf, entry) /\ fdOpen
  <2>1. IndexKept' /\ \A b \in Baskets : CountFits(b)'
    BY <1>1 DEF IndexFits, IndexKept, CountFits
  <2>2. ASSUME idx[ctrl.bid].count = 0, ctrl.fposI > 0
        PROVE  Precedes(idx[ctrl.bid].ents[ctrl.fposI], ctrl'.ibuf,
                        ctrl'.fposB + Len(ctrl'.bbuf))
    <3> DEFINE e == idx[ctrl.bid].ents[ctrl.fposI]
               z == ctrl.fposB + Len(ctrl.bbuf)
    <3>1. Precedes(e, ctrl.ibuf, z)
      BY <1>5, <2>2 DEF IndexFits, LastFits
    <3>2. e \in Entries /\ e.ts <= now
      <4>1. /\ ctrl.fposI \in 1 .. Len(idx[ctrl.bid].ents)
            /\ idx[ctrl.bid].ents \in Seq(Entries) /\ ctrl.bid \in Baskets
        BY <1>5, <2>2, Basics DEF IInv, PositionsFit, BasketsFit
      <4>2. ctrl.fposI \in DOMAIN idx[ctrl.bid].ents
        BY <4>1, Places
      <4> QED BY <4>1, <4>2, Places DEF TimesFit, UpTo
    <3>3. e.fpos <= z /\ z \in Nat /\ e.fpos \in Nat
      BY <1>2, <3>1, <3>2, SMTT(30) DEF Precedes, Entries
    <3>4. /\ DOMAIN ctrl'.ibuf = 1 .. Len(ctrl.ibuf) + 1
          /\ DOMAIN ctrl.ibuf = 1 .. Len(ctrl.ibuf) /\ Len(ctrl.ibuf) \in Nat
          /\ \A i \in 1 .. Len(ctrl.ibuf) : ctrl'.ibuf[i] = ctrl.ibuf[i]
          /\ ctrl'.ibuf[Len(ctrl.ibuf) + 1] = entry
      BY <1>2, <1>3, <1>5, AppendSeq, Places
    <3>5. ctrl'.fposB + Len(ctrl'.bbuf) = z + 1
      BY ONLY <1>1, <1>2 DEF z
    <3> HIDE DEF e, z
    <3>6. e.fpos <= z + 1
      BY <3>3
    <3>7. ASSUME NEW i \in 1 .. Len(ctrl.ibuf) + 1
          PROVE  e.ts <= ctrl'.ibuf[i].ts /\ e.fpos <= ctrl'.ibuf[i].fpos
      <4>1. CASE i \in 1 .. Len(ctrl.ibuf)
        BY <3>1, <3>4, <4>1 DEF Precedes
      <4>2. CASE i = Len(ctrl.ibuf) + 1
        BY <1>3, <3>2, <3>3, <3>4, <4>2 DEF z
      <4> QED BY <3>4, <4>1, <4>2
    <3> QED BY <3>4, <3>5, <3>6, <3>7 DEF Precedes, e
  <2>3. LastFits'
    BY <1>1, <1>5, <2>2 DEF LastFits, IndexFits
  <2> QED BY <2>1, <2>3 DEF IndexFits
<1> QED BY <1>1, <1>4, <1>5

\* A scan goes past the entry whose frame it starts from.
LEMMA ResumeBehind ==
  ASSUME NEW file, Len(file) \in Nat, NEW e, e.fpos \in Nat,
         NEW p \in ResumeEnds(file, e)
  PROVE  p >= e.fpos
BY DEF ResumeEnds, StreamEnds

\* A resumed basket is written on behind the entries written before.
LEMMA IndexResumed ==
  ASSUME IInv, IndexFits, OneCut, ResumeBasket
  PROVE  IndexFits'
<1> DEFINE b == target.bid
           ents == idx[b].ents
<1>1. /\ b \in Baskets /\ ~fdOpen /\ ctrl.ibuf = <<>> /\ ctrl.bbuf = <<>>
      /\ ctrl \in Ctrls /\ now \in Nat
      /\ TypeOK /\ EntriesInside
  BY Basics DEF ResumeBasket, IInv, BasketsFit, PositionsFit, Opening
<1>a. PICK k \in IndexStops(idx[b]) :
        \E p \in IF k = 0 THEN {0} ELSE ResumeEnds(bkt[b], ents[k]) :
          ctrl' = OpenedCtrl(b, p, k)
  BY DEF ResumeBasket
<1>2. PICK p \in IF k = 0 THEN {0} ELSE ResumeEnds(bkt[b], ents[k]) :
        ctrl' = OpenedCtrl(b, p, k)
  BY <1>a
<1>3. k \in 0 .. Len(ents) /\ p \in 0 .. Len(bkt[b])
  BY <1>1, <1>2, ResumeStops
<1>4. k \in Nat /\ p \in Nat
  BY <1>3
<1>5. /\ ctrl'.bid = b /\ ctrl'.fposB = p /\ ctrl'.fposI = k
      /\ ctrl'.bbuf = <<>> /\ ctrl'.ibuf = <<>>
  BY <1>1, <1>2, <1>4, OpenedType
<1>6. /\ idx' = idx /\ fdOpen'
      /\ \A c \in Baskets : flushed'[c].ents = flushed[c].ents
  BY <1>1, Basics DEF ResumeBasket, disk
<1>7. /\ Len(ents) \in Nat /\ ents \in Seq(Entries) /\ idx[b].count \in Nat
      /\ flushed[b].ents \in Nat /\ Len(bkt[b]) \in Nat
  BY <1>1, Basics
<1>8. CountFits(b)
  BY <1>1 DEF IndexFits
<1>9. idx[b].count = 0 => k \in IndexEnds(ents)
  BY <1>2, <1>7 DEF IndexStops
<1>10. k >= flushed[b].ents
  <2>1. CASE idx[b].count > 0
    BY <1>1, <1>2, <1>8, <2>1 DEF IndexStops, CountFits
  <2>2. CASE idx[b].count = 0
    <3>1. ASSUME k < flushed[b].ents
          PROVE  FALSE
      <4>1. k + 1 \in 1 .. flushed[b].ents /\ k < Len(ents)
        BY <1>4, <1>7, <1>8, <3>1 DEF CountFits
      <4>2. EntryFollows(ents, k + 1)
        BY <1>8, <2>2, <4>1 DEF CountFits, Grows
      <4> QED BY <1>9, <2>2, <4>1, <4>2 DEF IndexEnds
    <3> QED BY <1>4, <1>7, <3>1
  <2> QED BY <1>7, <2>1, <2>2
<1>11. IndexKept'
  BY <1>1, <1>5, <1>6, <1>10 DEF IndexKept
<1>12. \A c \in Baskets : CountFits(c)'
  <2> SUFFICES ASSUME NEW c \in Baskets
               PROVE  CountFits(c)'
    OBVIOUS
  <2>1. CountFits(c) /\ ~(fdOpen /\ c = ctrl.bid)
    BY <1>1 DEF IndexFits
  <2> QED BY <1>6, <2>1 DEF CountFits
<1>13. ASSUME idx[b].count = 0
       PROVE  /\ Grows(ents, k)
              /\ k > 0 => Precedes(ents[k], <<>>, p + Len(<<>>))
  <2>1. Grows(ents, k)
    BY <1>9, <1>13 DEF IndexEnds, Grows
  <2>2. ASSUME k > 0
        PROVE  Precedes(ents[k], <<>>, p)
    <3>1. k \in 1 .. Len(ents) /\ ents[k] \in Entries
      BY <1>3, <1>7, <2>2, ElementOfSeq
    <3>2. ents[k].fpos <= p
      <4>1. ents[k].fpos \in Nat /\ p \in ResumeEnds(bkt[b], ents[k])
        BY <1>2, <2>2, <3>1 DEF Entries
      <4>2. p >= ents[k].fpos
        BY <1>7, <4>1, ResumeBehind
      <4> QED BY <1>4, <4>1, <4>2
    <3> QED BY <3>2, Places DEF Precedes
  <2>3. p + Len(<<>>) = p
    BY <1>4, Places
  <2> QED BY <2>1, <2>2, <2>3
<1>14. LastFits'
  BY <1>5, <1>6, <1>13 DEF LastFits
<1> QED BY <1>11, <1>12, <1>14 DEF IndexFits

\* What is written to an index file lies where it was meant to.
Aligned(file, p, s) == Overwrite(file, p, s, TRUE)
\* An aligned write leaves what is before it, and puts what it writes.
LEMMA AlignedPlaces ==
  ASSUME NEW S, NEW file \in Seq(S), NEW p \in 0 .. Len(file), NEW s \in Seq(S)
  PROVE  /\ \A i \in 1 .. p : Aligned(file, p, s)[i] = file[i]
         /\ \A i \in 1 .. Len(s) : Aligned(file, p, s)[p + i] = s[i]
<1>1. PICK al \in BOOLEAN : al = TRUE
  OBVIOUS
<1>2. \A x \in S : al \/ Gap(x) \in S
  BY <1>1
<1>3. /\ \A i \in 1 .. p : Overwrite(file, p, s, al)[i] = file[i]
      /\ \A i \in 1 .. Len(s) : Overwrite(file, p, s, al)[p + i] = s[i]
  <2>1. \A i \in 1 .. p : Overwrite(file, p, s, al)[i] = file[i]
    BY <1>2, OverwritePlaces, SMTT(60)
  <2>2. \A i \in 1 .. Len(s) : Overwrite(file, p, s, al)[p + i] = s[i]
    BY <1>2, OverwritePlaces, SMTT(60)
  <2> QED BY <2>1, <2>2
<1> QED BY <1>1, <1>3, Zenon DEF Aligned

\* The buffered entries are written behind the last one, in order.
LEMMA IndexFlushed ==
  ASSUME IInv, EntriesGrow, IndexFits, OneCut, FlushIndex
  PROVE  IndexFits'
<1>0. /\ UNCHANGED fdOpen /\ ctrl'.bid = ctrl.bid /\ ctrl'.fposB = ctrl.fposB
      /\ ctrl'.bbuf = ctrl.bbuf /\ ctrl.bbuf = <<>> /\ ctrl'.ibuf = <<>>
      /\ fdOpen => ctrl'.fposI <= Len(idx'[ctrl.bid].ents)
  BY FlushedIndex DEF FlushIndex, Goto, env, IInv, PositionsFit
<1>1. CASE UNCHANGED <<idx, ctrl, flushed>>
  BY <1>0, <1>1 DEF IndexFits, IndexKept, LastFits, CountFits
<1>2. CASE ctrl.ibuf # <<>> /\ fdOpen
  <2> DEFINE b == ctrl.bid
             old == idx[b].ents
             new == idx'[b].ents
             p == ctrl.fposI
             n == Len(ctrl.ibuf)
  <2>1. /\ b \in Baskets
        /\ new = Overwrite(old, p, ctrl.ibuf, TRUE)
        /\ \A c \in Baskets \ {b} : idx'[c] = idx[c] /\ flushed'[c] = flushed[c]
        /\ \A c \in Baskets : idx'[c].count = idx[c].count
        /\ flushed'[b].ents = AtLeast(flushed[b].ents, p + n)
        /\ ctrl'.fposI = p + n
    BY <1>2, IndexWritten DEF IInv, BasketsFit
  <2>2. /\ old \in Seq(Entries) /\ ctrl.ibuf \in Seq(Entries)
        /\ p \in 0 .. Len(old) /\ n \in Nat /\ Len(old) \in Nat /\ p \in Nat
        /\ flushed[b].ents \in Nat /\ ctrl.fposB \in Nat
    BY <1>2, <2>1, Basics DEF IInv, PositionsFit
  <2>3. n > 0
    BY <1>2, <2>2, EmptySeq
  <2>4. IndexKept /\ LastFits
    BY DEF IndexFits
  <2>5. flushed'[b].ents = p + n
    <3>1. flushed[b].ents <= p
      BY <1>2, <2>4 DEF IndexKept
    <3>2. flushed[b].ents < p + n \/ flushed[b].ents = p + n
      BY <2>2, <3>1
    <3> QED BY <2>1, <3>2 DEF AtLeast
  <2>6. IndexKept'
    BY <1>0, <1>2, <2>1, <2>2, <2>5 DEF IndexKept
  <2>7. /\ \A i \in 1 .. p : new[i] = old[i]
        /\ \A i \in 1 .. n : new[p + i] = ctrl.ibuf[i]
    <3> HIDE DEF new, old, p, n
    <3>1. /\ old \in Seq(Entries) /\ p \in 0 .. Len(old) /\ ctrl.ibuf \in Seq(Entries)
      BY <2>2
    <3>2. new = Aligned(old, p, ctrl.ibuf)
      BY <2>1 DEF Aligned
    <3>3. /\ \A i \in 1 .. p : new[i] = old[i]
          /\ \A i \in 1 .. Len(ctrl.ibuf) : new[p + i] = ctrl.ibuf[i]
      BY <3>1, <3>2, AlignedPlaces
    <3> QED BY <3>3 DEF n
  <2>8. ASSUME idx[b].count = 0
        PROVE  Grows(new, p + n) /\ Precedes(new[p + n], <<>>, ctrl.fposB + Len(<<>>))
    <3> HIDE DEF new, old, p, n
    <3>0. /\ Grows(old, p) /\ Grows(ctrl.ibuf, n)
          /\ p > 0 => Precedes(old[p], ctrl.ibuf, ctrl.fposB + Len(ctrl.bbuf))
      BY <1>2, <2>4, <2>8 DEF LastFits, EntriesGrow, old, p, n
    <3>1. ASSUME NEW i \in 1 .. p + n, i > 1
          PROVE  new[i].ts >= new[i - 1].ts /\ new[i].fpos >= new[i - 1].fpos
      <4>1. CASE i \in 1 .. p
        <5>1. EntryFollows(old, i) /\ i - 1 \in 1 .. p
          BY <2>2, <3>0, <3>1, <4>1 DEF Grows
        <5>2. old[i].ts >= old[i - 1].ts /\ old[i].fpos >= old[i - 1].fpos
          BY <3>1, <5>1 DEF EntryFollows
        <5>3. new[i] = old[i] /\ new[i - 1] = old[i - 1]
          BY <2>7, <4>1, <5>1
        <5> QED BY <5>2, <5>3
      <4>2. CASE i = p + 1
        <5>1. p > 0 /\ i - 1 = p /\ p \in 1 .. p /\ 1 \in 1 .. n
          BY <2>2, <2>3, <3>1, <4>2
        <5>2. new[i] = ctrl.ibuf[1] /\ new[i - 1] = old[p]
          BY <2>7, <4>2, <5>1
        <5>3. 1 \in DOMAIN ctrl.ibuf /\ ctrl.ibuf[1] \in Entries
          BY <2>2, <5>1, Places DEF n
        <5>4. old[p].ts <= ctrl.ibuf[1].ts /\ old[p].fpos <= ctrl.ibuf[1].fpos
          BY <3>0, <5>1, <5>3 DEF Precedes
        <5>5. old[p] \in Entries
          BY <2>2, <5>1, ElementOfSeq
        <5> QED BY <5>2, <5>3, <5>4, <5>5 DEF Entries
      <4>3. CASE i > p + 1
        <5>1. i - p \in 1 .. n /\ i - p > 1 /\ i - p - 1 \in 1 .. n
          BY <2>2, <3>1, <4>3
        <5>2. new[p + (i - p)] = ctrl.ibuf[i - p]
              /\ new[p + (i - p - 1)] = ctrl.ibuf[i - p - 1]
          BY <2>7, <5>1
        <5>3. p + (i - p) = i /\ p + (i - p - 1) = i - 1
          BY <2>2
        <5>4. EntryFollows(ctrl.ibuf, i - p)
          BY <3>0, <5>1 DEF Grows
        <5>5. /\ ctrl.ibuf[i - p].ts >= ctrl.ibuf[i - p - 1].ts
              /\ ctrl.ibuf[i - p].fpos >= ctrl.ibuf[i - p - 1].fpos
          BY <5>1, <5>4 DEF EntryFollows
        <5> QED BY <5>2, <5>3, <5>5
      <4> QED BY <2>2, <4>1, <4>2, <4>3
    <3>2. Grows(new, p + n)
      BY <3>1 DEF Grows, EntryFollows
    <3>3. n \in 1 .. n /\ new[p + n] = ctrl.ibuf[n]
      BY <2>2, <2>3, <2>7
    <3>4. ctrl.ibuf[n].fpos <= ctrl.fposB
      <4>1. ctrl.ibuf[n].fpos < ctrl.fposB + Len(ctrl.bbuf) /\ Len(ctrl.bbuf) = 0
        BY <1>0, <3>3, Places DEF IInv, PositionsFit, n
      <4>2. ctrl.ibuf[n] \in Entries
        BY <2>2, <3>3, ElementOfSeq DEF n
      <4> QED BY <2>2, <4>1, <4>2 DEF Entries
    <3>5. ctrl.fposB + Len(<<>>) = ctrl.fposB
      BY <2>2, Places
    <3> QED BY <3>2, <3>3, <3>4, <3>5, Places DEF Precedes
  <2>9. LastFits'
    BY <1>0, <1>2, <2>1, <2>8 DEF LastFits
  <2>10. ASSUME NEW c \in Baskets
         PROVE  CountFits(c)'
    <3>1. CASE c # b
      <4>1. idx'[c] = idx[c] /\ flushed'[c] = flushed[c]
        BY <2>1, <3>1
      <4> QED BY <1>0, <4>1 DEF CountFits, IndexFits
    <3>2. CASE c = b
      BY <1>0, <1>2, <2>1, <2>5, <2>8, <3>2 DEF CountFits
    <3> QED BY <3>1, <3>2
  <2> QED BY <2>6, <2>9, <2>10 DEF IndexFits
<1> QED BY <1>1, <1>2, IndexWritten

\* Every step keeps the index.
LEMMA IndexStep ==
  ASSUME IInv, KeptInv, Next
  PROVE  IndexFits'
<1> SUFFICES ASSUME OneCut'
             PROVE  IndexFits'
  BY DEF IndexFits
<1>0. /\ OneCut /\ IndexFits /\ TimesFit /\ EntriesGrow /\ SessionFits /\ FirstSession
      /\ ctrl \in Ctrls /\ CallsFit /\ BasketsFit
      /\ idx \in [Baskets -> [count : Nat, ents : Seq(Entries)]]
      /\ flushed \in [Baskets -> [slots : Nat, ents : Nat]]
      /\ stops \in Nat /\ crashes \in Nat /\ ctrl.fposB + Len(ctrl.bbuf) \in Nat
  BY Basics, OneCutBefore DEF KeptInv, IInv
<1>f. ASSUME UNCHANGED <<idx, flushed, fdOpen>>, ctrl' = ctrl \/ ~fdOpen
      PROVE  IndexFits'
  BY <1>0, <1>f, IndexFrame
<1>1. CASE RequestOpen
  BY <1>1, <1>0, <1>f DEF RequestOpen, disk, BasketsFit
<1>2. CASE SearchResumable
  BY <1>2, <1>0, <1>f DEF SearchResumable, disk, BasketsFit, Opening
<1>3. CASE SearchEmpty
  BY <1>3, <1>0, <1>f DEF SearchEmpty, disk, BasketsFit, Opening
<1>4. CASE SearchOldest
  BY <1>4, <1>0, <1>f DEF SearchOldest, BasketsFit, Opening
<1>5. CASE WriteHeaders
  <2>1. /\ target.bid \in Baskets /\ ctrl'.bid = target.bid /\ ctrl'.fposI = 0
        /\ ~fdOpen /\ fdOpen'
    BY <1>0, <1>5, BegunAt DEF WriteHeaders, BasketsFit, Opening
  <2>2. /\ flushed'[target.bid].ents = 0 /\ idx'[target.bid].count = 0
        /\ \A b \in Baskets : idx'[b].ents = idx[b].ents
        /\ \A b \in Baskets \ {target.bid} : flushed'[b] = flushed[b] /\ idx'[b] = idx[b]
    BY <1>0, <1>5, <2>1 DEF WriteHeaders
  <2>3. IndexKept' /\ LastFits'
    BY <2>1, <2>2 DEF IndexKept, LastFits, Grows
  <2>4. ASSUME NEW b \in Baskets
        PROVE  CountFits(b)'
    <3>1. CASE b = target.bid
      BY <2>1, <2>2, <3>1, Basics DEF CountFits, Grows
    <3>2. CASE b # target.bid
      BY <1>0, <2>1, <2>2, <3>2 DEF CountFits, IndexFits
    <3> QED BY <3>1, <3>2
  <2> QED BY <2>3, <2>4 DEF IndexFits
<1>6. CASE ResumeBasket
  BY <1>0, <1>6, IndexResumed
<1>7. CASE OpenError
  BY <1>7, <1>f DEF OpenError, disk
<1>8. CASE MarkManager
  BY <1>8, <1>f DEF MarkManager
<1>9. CASE MarkRecinfo
  BY <1>9, <1>f DEF MarkRecinfo
<1>10. CASE RequestWrite
  <2>1. PICK f \in Slots : f.ts = now /\ Wrote(f)
    BY <1>10, RequestedNow
  <2>2. UNCHANGED <<idx, flushed, fdOpen>>
    BY <1>10 DEF RequestWrite, disk
  <2>3. CASE ctrl' = With(ctrl, f)
    BY <1>0, <2>1, <2>2, <2>3, IndexWith
  <2>4. CASE ctrl' \in {RollCtrl(f), FlushCtrl(f)}
    <3>1. /\ ctrl' \in Ctrls /\ ctrl'.bid = ctrl.bid /\ ctrl'.fposI = ctrl.fposI
          /\ ctrl'.fposB = ctrl.fposB /\ ctrl'.ibuf = ctrl.ibuf
          /\ Len(ctrl'.bbuf) >= Len(ctrl.bbuf) /\ Len(ctrl.bbuf) \in Nat
      BY <1>0, <2>4, RollType, Basics
    <3>2. /\ ctrl'.fposB + Len(ctrl'.bbuf) \in Nat
          /\ ctrl'.fposB + Len(ctrl'.bbuf) >= ctrl.fposB + Len(ctrl.bbuf)
      <4>1. ctrl.fposB \in Nat /\ Len(ctrl.bbuf) \in Nat /\ Len(ctrl'.bbuf) \in Nat
        BY <3>1, Basics, LenProperties DEF Ctrls
      <4> QED BY <3>1, <4>1
    <3> QED BY <1>0, <2>2, <3>1, <3>2, IndexFrame
  <2> QED BY <2>1, <2>3, <2>4 DEF Wrote
<1>11. CASE AppendFrame
  <2>1. PICK f \in Slots : f = cur /\ f.ts = now
    BY <1>0, <1>11 DEF AppendFrame, CallsFit, TimesFit
  <2>2. ctrl' = With(ctrl, f) /\ UNCHANGED <<idx, flushed, fdOpen>>
    BY <1>11, <2>1 DEF AppendFrame, disk
  <2> QED BY <1>0, <2>1, <2>2, IndexWith
<1>12. CASE FlushData
  <2>1. /\ ctrl'.bid = ctrl.bid /\ ctrl'.fposI = ctrl.fposI /\ ctrl'.ibuf = ctrl.ibuf
        /\ ctrl'.bbuf = <<>> /\ ctrl'.fposB = ctrl.fposB + Len(ctrl.bbuf)
    BY <1>12, FlushedData
  <2>2. ctrl'.fposB + Len(ctrl'.bbuf) = ctrl.fposB + Len(ctrl.bbuf)
    BY <1>0, <2>1, Places
  <2>3. \A b \in Baskets : flushed'[b].ents = flushed[b].ents
    BY <1>12, DataWritten
  <2>4. idx' = idx /\ fdOpen' = fdOpen
    BY <1>12 DEF FlushData
  <2> QED BY <1>0, <2>1, <2>2, <2>3, <2>4, IndexFrame
<1>13. CASE FlushIndex
  BY <1>0, <1>13, IndexFlushed
<1>14. CASE FlushRdb
  <2>1. /\ ctrl'.bid = ctrl.bid /\ ctrl'.fposI = ctrl.fposI /\ ctrl'.ibuf = ctrl.ibuf
        /\ ctrl'.bbuf = ctrl.bbuf /\ ctrl'.fposB = ctrl.fposB
    BY <1>14, FlushedRows
  <2>2. UNCHANGED <<idx, flushed, fdOpen>>
    BY <1>14 DEF FlushRdb
  <2> QED BY <1>0, <2>1, <2>2, IndexFrame
<1>15. CASE FlushError
  <2>1. /\ ctrl'.bid = ctrl.bid /\ ctrl'.fposB = ctrl.fposB /\ ctrl'.fposI = ctrl.fposI
        /\ ctrl'.bbuf = ctrl.bbuf /\ ctrl'.ibuf = ctrl.ibuf
    BY <1>0, <1>15 DEF FlushError, Ctrls
  <2>2. UNCHANGED <<idx, flushed, fdOpen>>
    BY <1>15 DEF FlushError, disk
  <2> QED BY <1>0, <2>1, <2>2, IndexFrame
<1>16. CASE RequestExit
  BY <1>16, <1>f DEF RequestExit, disk
<1>17. CASE CloseIndex
  <2>1. CASE ~fdOpen
    <3>1. UNCHANGED <<idx, ctrl, flushed>> /\ ~fdOpen'
      BY <1>17, <2>1 DEF CloseIndex
    <3> QED BY <1>0, <2>1, <3>1 DEF IndexFits, IndexKept, LastFits, CountFits
  <2>2. CASE fdOpen
    <3>1. /\ ~fdOpen' /\ ctrl' = ctrl /\ flushed' = flushed /\ ctrl.bid \in Baskets
          /\ idx' = [idx EXCEPT ![ctrl.bid].count = ctrl.fposI]
      BY <1>0, <1>17, <2>2 DEF CloseIndex, BasketsFit
    <3>2. /\ idx'[ctrl.bid].count = ctrl.fposI
          /\ \A b \in Baskets : idx'[b].ents = idx[b].ents
          /\ \A b \in Baskets \ {ctrl.bid} : idx'[b] = idx[b]
      BY <1>0, <3>1
    <3>3. ASSUME NEW b \in Baskets
          PROVE  CountFits(b)'
      <4>1. CASE b = ctrl.bid
        <5>1. ctrl.fposI >= flushed[b].ents /\ ctrl.fposI \in Nat /\ flushed[b].ents \in Nat
          BY <1>0, <2>2, <4>1, Basics DEF IndexFits, IndexKept
        <5>2. flushed[b].ents <= Len(idx[b].ents)
          BY <1>0 DEF IndexFits, CountFits
        <5>3. ctrl.fposI = 0 => Grows(idx[b].ents, flushed[b].ents)
          BY <5>1 DEF Grows
        <5> QED BY <3>1, <3>2, <4>1, <5>1, <5>2, <5>3 DEF CountFits
      <4>2. CASE b # ctrl.bid
        BY <1>0, <3>1, <3>2, <4>2 DEF CountFits, IndexFits
      <4> QED BY <4>1, <4>2
    <3> QED BY <3>1, <3>3 DEF IndexFits, IndexKept, LastFits
  <2> QED BY <2>1, <2>2
<1>18. CASE CloseMgr
  BY <1>18, <1>0, <1>f DEF CloseMgr, BasketsFit
<1>19. CASE CloseRecinfo
  BY <1>19, <1>0, <1>f DEF CloseRecinfo, BasketsFit
<1>20. CASE Crash
  <2>1. /\ ~fdOpen' /\ UNCHANGED <<idx, flushed>> /\ crashes' = crashes + 1 /\ stops' = stops
    BY <1>20 DEF Crash, disk
  <2>2. crashes = 0 /\ stops = 0
    BY <1>0, <2>1 DEF OneCut
  <2>3. fdOpen => idx[ctrl.bid].count = 0
    BY <1>0, <2>2 DEF FirstSession
  <2>4. \A b \in Baskets : CountFits(b)'
    BY <1>0, <2>1, <2>3 DEF IndexFits, CountFits
  <2> QED BY <2>1, <2>4 DEF IndexFits, IndexKept, LastFits
<1>21. CASE SetRecycleMode
  BY <1>21, <1>f DEF SetRecycleMode, disk
<1>22. CASE Tick
  BY <1>22, <1>f DEF Tick, disk, memory
<1> QED
  BY <1>1, <1>2, <1>3, <1>4, <1>5, <1>6, <1>7, <1>8, <1>9, <1>10, <1>11,
     <1>12, <1>13, <1>14, <1>15, <1>16, <1>17, <1>18, <1>19, <1>20, <1>21, <1>22 DEF Next

\* A formatted disk satisfies it.
LEMMA InitKept ==
  ASSUME Init
  PROVE  KeptInv
<1>1. /\ crashes = 0 /\ stops = 0 /\ fdOpen = FALSE /\ op = "none" /\ pc = "idle"
      /\ status = "closed" /\ recinfo.flag = "empty"
      /\ ctrl.ibuf = <<>> /\ ctrl.bbuf = <<>>
      /\ \A b \in Baskets : /\ idx[b].count = 0 /\ idx[b].ents = <<>> /\ bkt[b] = <<>>
                            /\ flushed[b].ents = 0
  BY DEF Init, ZeroCtrl
<1>2. TimesFit
  BY <1>1, Places DEF TimesFit, UpTo
<1>3. SessionFits
  BY <1>1 DEF SessionFits, Opening
<1>4. FirstSession
  BY <1>1 DEF FirstSession
<1>5. EntriesGrow
  BY <1>1, Places DEF EntriesGrow, Grows
<1>6. IndexFits
  BY <1>1, Places DEF IndexFits, IndexKept, LastFits, CountFits, Grows
<1> QED BY <1>2, <1>3, <1>4, <1>5, <1>6 DEF KeptInv

\* Every step keeps it.
LEMMA KeptStep ==
  ASSUME IInv, KeptInv, [Next]_vars
  PROVE  KeptInv'
<1>1. CASE Next
  BY <1>1, TimesStep, SessionStep, FirstSessionStep, EntriesStep, IndexStep DEF KeptInv
<1>2. CASE UNCHANGED vars
  BY <1>2 DEF vars, KeptInv, TimesFit, SessionFits, FirstSession, EntriesGrow, IndexFits,
              IndexKept, LastFits, CountFits, OneCut
<1> QED BY <1>1, <1>2

\* The invariant of the index, for any number of baskets, channels and frames.
LEMMA KeptInvariance == Spec => []KeptInv
<1>1. Init => KeptInv
  BY InitKept
<1>2. IInv /\ KeptInv /\ [Next]_vars => KeptInv'
  BY KeptStep
<1> QED BY <1>1, <1>2, Invariance, PTL DEF Spec

\* BKTREC_open goes on behind the last entry of an index file, whether it was
\* closed or cut off, in any history of stops without a power cut, or of one power
\* cut without a stop.
THEOREM IndexSurvives == Spec => [](OneCut => IndexKept)
<1>1. KeptInv => (OneCut => IndexKept)
  BY DEF KeptInv, IndexFits
<1> QED BY <1>1, KeptInvariance, PTL

=============================================================================
