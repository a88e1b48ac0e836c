-------------------------- MODULE BasketReadProof --------------------------
(***************************************************************************)
(* Proofs about BasketRead, the reader beside the recorder: the recorder   *)
(* does what it does without a reader, and the reader's position, its      *)
(* count of entries and the times it goes by keep their types, so that     *)
(* whatever the recorder is doing a read is of a basket of the disk.       *)
(***************************************************************************)
EXTENDS BasketSearchProof, BasketRead

-----------------------------------------------------------------------------
(* The reader leaves the recorder alone.                                   *)

\* Every step of the two threads is a step of the recorder or changes nothing of
\* it: all that is proved of BasketRec holds while its disk is read.
THEOREM RecorderUndisturbed == ReadSpec => Spec
<1>1. ReadInit => Init
  BY DEF ReadInit
<1>2. [ReadNext]_allvars => [Next]_vars
  BY DEF ReadNext, RecorderStep, ReadOpen, ReadNextFrame, ReadNextIFrame, ReadPrevIFrame,
         Call, ReadStep, Scan, NextFirst, NextI, PrevI, recorder, allvars
<1> QED BY <1>1, <1>2, PTL DEF ReadSpec, Spec

-----------------------------------------------------------------------------
(* Lemmas about sets of numbers.                                           *)

\* The values a finite set of channels has are bounded.
LEMMA BoundedValues ==
  ASSUME NEW S, IsFiniteSet(S), NEW g \in [S -> Nat]
  PROVE  \E n \in Nat : \A s \in S : g[s] <= n
<1>1. PICK k \in Nat : ExistsSurjection(1 .. k, S)
  BY FS_NatSurjection
<1>2. PICK f \in [1 .. k -> S] : \A s \in S : \E i \in 1 .. k : f[i] = s
  BY <1>1 DEF ExistsSurjection, Surjection
<1> DEFINE Covers(i, n) == \A j \in 1 .. i : g[f[j]] <= n
           T == {i \in 0 .. k : ~\E n \in Nat : Covers(i, n)}
<1>3. T = {}
  <2> SUFFICES ASSUME T # {}
               PROVE  FALSE
    OBVIOUS
  <2>1. T \subseteq Nat
    BY <1>1
  <2>2. PICK i \in T : \A j \in T : i <= j
    BY <2>1, LeastOf
  <2>3. i \in 0 .. k /\ ~\E n \in Nat : Covers(i, n)
    BY <2>2
  <2>4. i # 0
    BY <2>3
  <2>5. i - 1 \in 0 .. k /\ i - 1 \notin T
    <3>1. i \in Nat /\ i <= k /\ i > 0 /\ k \in Nat
      BY <1>1, <2>3, <2>4
    <3>2. i - 1 \in 0 .. k /\ ~(i <= i - 1)
      BY ONLY <3>1
    <3> HIDE DEF T
    <3> QED BY ONLY <2>2, <3>2
  <2>6. PICK n \in Nat : Covers(i - 1, n)
    BY <2>5
  <2>7. g[f[i]] \in Nat
    BY <1>1, <1>2, <2>3, <2>4
  <2>8. PICK m \in Nat : n <= m /\ g[f[i]] <= m
    <3>1. PICK v \in Nat : v = g[f[i]]
      BY <2>7
    <3>2. n <= n + v /\ v <= n + v /\ n + v \in Nat
      BY ONLY n \in Nat, v \in Nat
    <3> QED BY <3>1, <3>2
  <2>9. ASSUME NEW j \in 1 .. i
        PROVE  g[f[j]] <= m
    <3>1. g[f[j]] \in Nat
      BY <1>1, <1>2, <2>3
    <3>2. CASE j = i
      BY <2>8, <3>2
    <3>3. CASE j # i
      <4>1. j \in 1 .. i - 1
        BY <2>3, <3>3
      <4>2. g[f[j]] <= n
        BY <2>6, <4>1
      <4> QED BY ONLY <2>8, <3>1, <4>2, n \in Nat
    <3> QED BY <3>2, <3>3
  <2> QED BY <2>3, <2>8, <2>9
<1>4. k \in 0 .. k
  BY <1>1
<1>5. PICK n \in Nat : Covers(k, n)
  BY <1>3, <1>4
<1> QED BY <1>2, <1>5

\* The smaller of two numbers.
LEMMA LesserOf ==
  ASSUME NEW a \in Int, NEW b \in Int
  PROVE  Min({a, b}) \in {a, b}
<1>1. \E x \in {a, b} : \A y \in {a, b} : x <= y
  OBVIOUS
<1> QED BY <1>1 DEF Min
-----------------------------------------------------------------------------
(* The rows of the day files.                                              *)

\* A channel has one row a minute: a search that takes the rows of the lowest
\* channel number takes one.
RowsUnique == \A r, s \in rdb : SameMinute(r, s) => r = s

\* A row whose minute is taken is dropped.
LEMMA UniqueStep ==
  ASSUME IInv, RowsUnique, Next
  PROVE  RowsUnique'
<1>1. CASE rdb' \subseteq rdb
  BY <1>1 DEF RowsUnique
<1>2. CASE ~(rdb' \subseteq rdb)
  <2>1. FlushRdb
    BY <1>2 DEF Next, RequestOpen, SearchResumable, SearchEmpty, SearchOldest, RemoveRDB,
       WriteHeaders, ResumeBasket, OpenError, MarkManager, MarkRecinfo, RequestWrite,
       AppendFrame, FlushData, FlushIndex, FlushError, RequestExit, CloseIndex, CloseMgr,
       CloseRecinfo, Crash, SetRecycleMode, Tick, disk
  <2>2. PICK n \in 1 .. Len(ctrl.rbuf) :
          rdb' = rdb \cup {ctrl.rbuf[i] : i \in {j \in 1 .. n :
                     /\ \A r \in rdb : ~SameMinute(r, ctrl.rbuf[j])
                     /\ \A h \in 1 .. j - 1 : ~SameMinute(ctrl.rbuf[h], ctrl.rbuf[j])}}
    BY <1>2, <2>1 DEF FlushRdb
  <2> DEFINE new(j) == /\ \A r \in rdb : ~SameMinute(r, ctrl.rbuf[j])
                       /\ \A h \in 1 .. j - 1 : ~SameMinute(ctrl.rbuf[h], ctrl.rbuf[j])
  <2>3. \A r \in rdb' : r \in rdb \/ \E j \in 1 .. n : r = ctrl.rbuf[j] /\ new(j)
    BY <2>2
  <2>4. n \in Nat
    <3>1. Len(ctrl.rbuf) \in Nat
      BY LenProperties DEF IInv, TypeOK, Ctrls
    <3> QED BY <3>1
  <2>5. \A r, s : SameMinute(r, s) <=> SameMinute(s, r)
    BY DEF SameMinute
  <2>6. ASSUME NEW r \in rdb', NEW s \in rdb', SameMinute(r, s)
        PROVE  r = s
    <3>1. CASE r \in rdb /\ s \in rdb
      BY <2>6, <3>1 DEF RowsUnique
    <3>2. CASE r \in rdb /\ s \notin rdb
      BY <2>3, <2>6, <3>2
    <3>3. CASE r \notin rdb /\ s \in rdb
      BY <2>3, <2>5, <2>6, <3>3
    <3>4. CASE r \notin rdb /\ s \notin rdb
      <4>1. PICK i \in 1 .. n : r = ctrl.rbuf[i] /\ new(i)
        BY <2>3, <3>4
      <4>2. PICK j \in 1 .. n : s = ctrl.rbuf[j] /\ new(j)
        BY <2>3, <3>4
      <4>3. ~(i < j)
        <5>1. i < j => i \in 1 .. j - 1
          BY <2>4
        <5> QED BY <2>6, <4>1, <4>2, <5>1
      <4>4. ~(j < i)
        <5>1. j < i => j \in 1 .. i - 1
          BY <2>4
        <5> QED BY <2>5, <2>6, <4>1, <4>2, <5>1
      <4>5. i = j
        BY ONLY <2>4, <4>3, <4>4
      <4> QED BY <4>1, <4>2, <4>5
    <3> QED BY <3>1, <3>2, <3>3, <3>4
  <2> QED BY <2>6 DEF RowsUnique
<1> QED BY <1>1, <1>2

\* The day files name a minute of a channel once.
LEMMA UniqueInvariance == Spec => []RowsUnique
<1>1. Init => RowsUnique
  BY DEF Init, RowsUnique
<1>2. IInv /\ RowsUnique /\ [Next]_vars => RowsUnique'
  <2>1. RowsUnique /\ UNCHANGED vars => RowsUnique'
    BY DEF RowsUnique, vars
  <2> QED BY <2>1, UniqueStep
<1> QED BY <1>1, <1>2, Invariance, PTL DEF Spec

-----------------------------------------------------------------------------
(* The types of the reader.                                                *)

Readers == [open : BOOLEAN, bid : 0 .. NBaskets, sec : Nat, pos : Nat, fpos : Nat,
            cnt : Nat, cur : Nat \cup {-1}, moved : BOOLEAN, lost : BOOLEAN,
            oldSound : BOOLEAN]
HeaderTypes == hdr \in [Baskets -> [t1 : Nat, t2 : Nat]]

\* What the reader finds on the disk.
Disk == IInv /\ RowsNamed /\ RowsUnique

\* Seconds are numbers.
LEMMA SecType ==
  ASSUME NEW t \in Nat
  PROVE  Sec(t) \in Nat
<1>1. TicksPerSec \in Nat \ {0}
  BY ClockAssumption
<1> QED BY <1>1, DivMonotone DEF Sec

\* A closed reader is a reader.
LEMMA NotOpenType == NotOpen \in Readers /\ ~NotOpen.open /\ MaxTS \in Nat
<1>1. MaxTS \in Nat
  BY ONLY SMTT(30) DEF MaxTS
<1>2. 0 \in 0 .. NBaskets /\ 0 \in Nat /\ 0 \in Nat \cup {-1}
  BY RecorderAssumption
<1> QED BY ONLY <1>1, <1>2 DEF NotOpen, Readers

\* The entry a number leads to, and the stream header at an offset.
LEMMA EntryType ==
  ASSUME IInv, NEW b \in Baskets, NEW k \in Nat \cup {-1}, NEW e \in EntryAt(b, k)
  PROVE  e.fpos \in Nat /\ e.ts \in Nat
<1>1. idx[b].ents \in Seq(Entries) /\ Len(idx[b].ents) \in Nat
  BY Basics
<1>2. PICK i \in 1 .. Len(idx[b].ents) : e = idx[b].ents[i]
  BY DEF EntryAt
<1>3. idx[b].ents[i] \in Entries
  BY ONLY <1>1, i \in 1 .. Len(idx[b].ents), ElementOfSeq
<1> QED BY <1>2, <1>3 DEF Entries

\* What the reader takes for a header has a time.
LEMMA HeaderType ==
  ASSUME IInv, NEW b \in Baskets, NEW p \in Nat, NEW sure, NEW h \in Headers(b, p, sure)
  PROVE  h.ts \in Nat
<1>1. bkt[b] \in Seq(Slots) /\ Len(bkt[b]) \in Nat
  BY Basics
<1>2. CASE h = NoHeader
  BY <1>2 DEF NoHeader
<1>3. CASE h # NoHeader
  <2>1. PICK i \in 1 .. Len(bkt[b]) : h = bkt[b][i]
    BY <1>3 DEF Headers
  <2>2. bkt[b][i] \in Slots
    BY ONLY <1>1, i \in 1 .. Len(bkt[b]), ElementOfSeq
  <2> QED BY <2>1, <2>2 DEF Slots
<1> QED BY <1>2, <1>3

\* The number of entries the reader goes by.
LEMMA CountType ==
  ASSUME IInv, NEW b \in Baskets
  PROVE  IndexCount(b) \in Nat /\ RecordingCount \in Nat
BY Basics, NotOpenType DEF IndexCount, RecordingCount

\* The basket that follows, and the one before.
LEMMA FoundType ==
  ASSUME Disk, NEW b, NEW s
  PROVE  NextBaskets(b, s) \subseteq Baskets /\ PrevBaskets(b, s) \subseteq Baskets
<1>1. \A r \in rdb : r.bid \in Baskets
  BY HeldRows DEF Disk, RowsNamed, Rows, Baskets
<1>2. NextBaskets(b, s) \subseteq {r.bid : r \in rdb}
  BY DEF NextBaskets
<1>3. PrevBaskets(b, s) \subseteq {r.bid : r \in rdb}
  BY DEF PrevBaskets
<1> QED BY <1>1, <1>2, <1>3

\* A reader that steps to another basket is open there.
LEMMA OpenedTypes ==
  ASSUME Disk, HeaderTypes, NEW b \in Baskets
  PROVE  /\ OpenNext(b) \in Readers /\ OpenNext(b).open /\ OpenNext(b).bid = b
         /\ OpenPrev(b) \in Readers /\ OpenPrev(b).open /\ OpenPrev(b).bid = b
<1>1. IndexCount(b) \in Nat /\ IndexCount(b) - 1 \in Nat \cup {-1}
  BY CountType DEF Disk
<1>2. hdr[b].t1 \in Nat /\ hdr[b].t2 \in Nat /\ b \in 0 .. NBaskets
  BY DEF HeaderTypes, Baskets
<1> QED BY <1>1, <1>2 DEF OpenNext, OpenPrev, NotOpen, Readers

\* The entry BKTMD_Open begins with.
LEMMA OpenAtType ==
  ASSUME Disk, NEW m, NEW row \in OpenAt(m)
  PROVE  row.bid \in Baskets /\ row.pos \in Nat
<1> DEFINE rows == MinuteRows(m)
           of(r) == {p \in rows : \A o \in rows : o.ch <= p.ch => o.bid = r.bid}
<1>1. PICK r \in rows : /\ \A o \in rows : r.ch <= o.ch
                        /\ row = [bid |-> r.bid, pos |-> Min({q.pos : q \in of(r)})]
  BY DEF OpenAt
<1>2. rows \subseteq rdb /\ rdb \subseteq Rows /\ \A p, q \in rows : p.min <= q.min
  BY HeldRows DEF MinuteRows, Disk
<1> HIDE DEF rows
<1>3. \A p \in rows : p.pos \in Nat /\ p.min \in Nat /\ p.ch \in Nat /\ p.bid \in Baskets
  <2>1. \A p \in rows : p \in Rows /\ p.bid # 0
    BY <1>2 DEF Disk, RowsNamed
  <2>2. Channels \subseteq Nat /\ NBaskets \in Nat
    BY ReaderAssumption, RecorderAssumption
  <2>3. ASSUME NEW p \in rows
        PROVE  p.pos \in Nat /\ p.min \in Nat /\ p.ch \in Nat /\ p.bid \in Baskets
    <3>1. p.pos \in Nat /\ p.min \in Nat /\ p.ch \in Channels /\ p.bid \in 0 .. NBaskets
      BY <2>1 DEF Rows
    <3>2. p.bid # 0
      BY <2>1
    <3>3. p.bid \in Baskets
      BY ONLY <2>2, <3>1, <3>2 DEF Baskets
    <3> QED BY ONLY <2>2, <3>1, <3>3
  <2> QED BY <2>3
<1>4. r \in of(r)
  <2>1. ASSUME NEW o \in rows, o.ch <= r.ch
        PROVE  o = r
    <3>1. o.ch = r.ch /\ o.min = r.min
      <4>1. o.ch \in Nat /\ r.ch \in Nat /\ r.ch <= o.ch
        BY <1>1, <1>3
      <4>2. o.min \in Nat /\ r.min \in Nat /\ r.min <= o.min /\ o.min <= r.min
        BY <1>2, <1>3
      <4> QED BY <2>1, <4>1, <4>2
    <3> QED BY <1>2, <3>1 DEF SameMinute, Disk, RowsUnique
  <2> QED BY <2>1
<1> DEFINE T == {q.pos : q \in of(r)}
<1>5. T \subseteq Nat /\ T # {}
  BY <1>3, <1>4
<1>6. Min(T) \in T
  <2> HIDE DEF T
  <2>1. PICK x \in T : \A y \in T : x <= y
    BY <1>5, LeastOf
  <2> QED BY <2>1 DEF Min
<1>7. row.pos = Min(T)
  BY <1>1
<1>8. row.pos \in Nat
  BY ONLY <1>5, <1>6, <1>7
<1> QED BY <1>1, <1>3, <1>8

\* The basket and entry a read goes on with are of the disk.
LEMMA OnwardType ==
  ASSUME Disk, HeaderTypes, rd \in Readers, rd.open, rd.bid \in Baskets,
         NEW r \in Onward
  PROVE  r \in Readers /\ r.open /\ r.bid \in Baskets
<1> DEFINE q == Counted(rd)
<1>1. /\ q \in Readers /\ q.open /\ q.bid = rd.bid /\ q.cur \in Nat \cup {-1}
  <2>1. RecordingCount \in Nat
    BY CountType DEF Disk
  <2> QED BY <2>1 DEF Counted, Readers
<1> HIDE DEF q
<1>2. CASE r = [q EXCEPT !.cur = Min({@, MaxFrames}) + 1]
  <2>1. Min({q.cur, MaxFrames}) \in {q.cur, MaxFrames} /\ MaxFrames \in Nat
    BY <1>1, LesserOf, RecorderAssumption
  <2>2. Min({q.cur, MaxFrames}) + 1 \in Nat \cup {-1}
    BY <1>1, <2>1
  <2> QED BY <1>1, <1>2, <2>2 DEF Readers
<1>3. CASE r \in {OpenNext(b) : b \in NextBaskets(q.bid, q.sec)}
  BY <1>3, FoundType, OpenedTypes
<1>4. r = [q EXCEPT !.cur = Min({@, MaxFrames}) + 1]
        \/ r \in {OpenNext(b) : b \in NextBaskets(q.bid, q.sec)}
  BY DEF Onward, q
<1> QED BY <1>2, <1>3, <1>4

\* ... and one that steps back stays in a basket.
LEMMA BackwardType ==
  ASSUME Disk, HeaderTypes, rd \in Readers, rd.open, rd.bid \in Baskets,
         NEW r \in Backward
  PROVE  r \in Readers /\ r.open /\ r.bid \in Baskets
<1>1. CASE rd.cur - 1 < 0
  BY <1>1, FoundType, OpenedTypes DEF Backward
<1>2. CASE ~(rd.cur - 1 < 0)
  <2>1. r = [rd EXCEPT !.cur = @ - 1]
    BY <1>2 DEF Backward
  <2>2. rd.cur \in Nat \cup {-1}
    BY DEF Readers
  <2>3. rd.cur - 1 \in Nat \cup {-1}
    BY <1>2, <2>2
  <2> QED BY <2>1, <2>3 DEF Readers
<1> QED BY <1>1, <1>2

\* What a step of a read leaves.
ReaderFits == /\ rd \in Readers /\ (rd.open => rd.bid \in Baskets)
              /\ rpc \in {"idle", "scan", "skipped", "first", "nextI", "onward", "prevI"}
              /\ (rpc # "idle" => rd.open)

\* The fields of a reader one at a time.
LEMMA ReaderWith ==
  ASSUME NEW r \in Readers
  PROVE  /\ \A n \in Nat : /\ [r EXCEPT !.sec = n] \in Readers
                           /\ [r EXCEPT !.pos = n] \in Readers
                           /\ [r EXCEPT !.fpos = n] \in Readers
         /\ \A n \in Nat : /\ [r EXCEPT !.sec = n].bid = r.bid
                           /\ [r EXCEPT !.pos = n].bid = r.bid
                           /\ [r EXCEPT !.fpos = n].bid = r.bid
         /\ \A n \in Nat : /\ [r EXCEPT !.sec = n].open = r.open
                           /\ [r EXCEPT !.pos = n].open = r.open
                           /\ [r EXCEPT !.fpos = n].open = r.open
<1>1. ASSUME NEW n \in Nat
      PROVE  [r EXCEPT !.sec = n] \in Readers
  BY ONLY r \in Readers, n \in Nat DEF Readers
<1>2. ASSUME NEW n \in Nat
      PROVE  [r EXCEPT !.pos = n] \in Readers
  BY ONLY r \in Readers, n \in Nat DEF Readers
<1>3. ASSUME NEW n \in Nat
      PROVE  [r EXCEPT !.fpos = n] \in Readers
  BY ONLY r \in Readers, n \in Nat DEF Readers
<1>4. ASSUME NEW n \in Nat
      PROVE  /\ [r EXCEPT !.sec = n].bid = r.bid /\ [r EXCEPT !.sec = n].open = r.open
             /\ [r EXCEPT !.pos = n].bid = r.bid /\ [r EXCEPT !.pos = n].open = r.open
             /\ [r EXCEPT !.fpos = n].bid = r.bid /\ [r EXCEPT !.fpos = n].open = r.open
  BY ONLY r \in Readers, n \in Nat DEF Readers
<1> QED BY <1>1, <1>2, <1>3, <1>4

\* A frame shown gives the reader its time.
LEMMA DeliverType ==
  ASSUME NEW r \in Readers, r.open, r.bid \in Baskets, NEW h, h.ts \in Nat,
         NEW p \in Nat, NEW by, Deliver(r, h, p, by)
  PROVE  ReaderFits'
<1>1. Sec(h.ts) \in Nat
  BY SecType
<1>2. rd' = [r EXCEPT !.sec = Sec(h.ts), !.pos = p + 1, !.fpos = p + 1] /\ rpc' = "idle"
  BY DEF Deliver
<1>3. rd' \in Readers /\ rd'.bid = r.bid /\ rd'.open = r.open
  <2> DEFINE s == [r EXCEPT !.sec = Sec(h.ts)]
             t == [s EXCEPT !.pos = p + 1]
  <2>1. rd' = [t EXCEPT !.fpos = p + 1]
    BY ONLY <1>2, r \in Readers DEF Readers
  <2>2. s \in Readers /\ s.bid = r.bid /\ s.open = r.open
    BY <1>1, ReaderWith
  <2> HIDE DEF s
  <2>3. p + 1 \in Nat
    OBVIOUS
  <2>4. t \in Readers /\ t.bid = r.bid /\ t.open = r.open
    BY <2>2, <2>3, ReaderWith
  <2> HIDE DEF t
  <2> QED BY <2>1, <2>3, <2>4, ReaderWith
<1> QED BY ONLY <1>2, <1>3, r.open, r.bid \in Baskets DEF ReaderFits

\* Closing leaves a closed reader.
LEMMA CloseType ==
  ASSUME Close
  PROVE  ReaderFits'
BY NotOpenType DEF Close, ReaderFits

\* The key frames are those of the basket.
LEMMA KeyFrameType ==
  ASSUME IInv, NEW r \in Readers, r.bid \in Baskets, NEW k \in KeyFrames(r)
  PROVE  k.pos \in Nat /\ k.frame.ts \in Nat
<1>1. r.cur \in Nat \cup {-1}
  BY DEF Readers
<1>2. PICK e \in EntryAt(r.bid, r.cur) :
        k \in {[pos |-> e.fpos, frame |-> h] :
                 h \in {g \in Headers(r.bid, e.fpos, Finds(bkt[r.bid], e)) : IsVideo(g)}}
  BY DEF KeyFrames
<1>3. e.fpos \in Nat
  BY <1>1, EntryType
<1>4. PICK h \in Headers(r.bid, e.fpos, Finds(bkt[r.bid], e)) :
        k = [pos |-> e.fpos, frame |-> h]
  BY <1>2
<1>5. h.ts \in Nat
  BY <1>3, HeaderType
<1> QED BY <1>3, <1>4, <1>5

\* Forgetting that frames moved changes nothing else.
LEMMA InStepType ==
  ASSUME NEW r \in Readers
  PROVE  InStep(r) \in Readers /\ InStep(r).open = r.open /\ InStep(r).bid = r.bid
BY DEF InStep, Readers

\* Every step of the reader keeps its types.
LEMMA ReadStepType ==
  ASSUME Disk, HeaderTypes, ReaderFits, ReadStep
  PROVE  ReaderFits'
<1>0. rpc # "idle" /\ rd \in Readers /\ rd.open /\ rd.bid \in Baskets /\ rd.pos \in Nat /\ IInv
  BY DEF ReadStep, Scan, NextFirst, NextI, PrevI, ReaderFits, Readers, Disk
<1>1. CASE Scan
  <2>1. PICK h \in Headers(rd.bid, rd.pos, ~rd.moved) :
          \/ /\ IsVideo(h) /\ ~TooFar(h)
             /\ Deliver(IF h.kind = "I"
                          THEN Counted([rd EXCEPT !.cur = @ + 1]) ELSE rd, h, rd.pos, "next")
          \/ Deliver([rd EXCEPT !.oldSound = @ \/ rd.pos >= flushed[rd.bid].slots],
                     h, rd.pos, "next")
          \/ /\ rd' = [rd EXCEPT !.pos = @ + 1, !.fpos = rd.pos + 1]
             /\ rpc' = "skipped"
          \/ /\ rd' = [rd EXCEPT !.pos = IF h.kind = "END" THEN @ + 1 ELSE @]
             /\ rpc' = "first"
          \/ rpc' = "onward" /\ rd' = rd
    BY <1>1 DEF Scan
  <2>2. h.ts \in Nat
    BY <1>0, HeaderType
  <2>3. CASE Deliver(IF h.kind = "I"
                       THEN Counted([rd EXCEPT !.cur = @ + 1]) ELSE rd, h, rd.pos, "next")
    <3> DEFINE r == IF h.kind = "I" THEN Counted([rd EXCEPT !.cur = @ + 1]) ELSE rd
    <3>1. r \in Readers /\ r.open /\ r.bid = rd.bid
      <4>1. RecordingCount \in Nat
        BY <1>0, CountType
      <4>2. rd.cur + 1 \in Nat \cup {-1}
        BY <1>0 DEF Readers
      <4> QED BY <1>0, <4>1, <4>2 DEF Counted, Readers
    <3> HIDE DEF r
    <3>2. Deliver(r, h, rd.pos, "next")
      BY <2>3 DEF r
    <3> QED BY <1>0, <2>2, <3>1, <3>2, DeliverType
  <2>4. CASE Deliver([rd EXCEPT !.oldSound = @ \/ rd.pos >= flushed[rd.bid].slots],
                     h, rd.pos, "next")
    <3> DEFINE r == [rd EXCEPT !.oldSound = @ \/ rd.pos >= flushed[rd.bid].slots]
    <3>1. r \in Readers /\ r.open /\ r.bid = rd.bid
      <4>1. (rd.oldSound \/ rd.pos >= flushed[rd.bid].slots) \in BOOLEAN
        OBVIOUS
      <4> QED BY <1>0, <4>1 DEF Readers
    <3> HIDE DEF r
    <3>2. Deliver(r, h, rd.pos, "next")
      BY <2>4 DEF r
    <3> QED BY <1>0, <2>2, <3>1, <3>2, DeliverType
  <2>5. CASE \/ /\ rd' = [rd EXCEPT !.pos = @ + 1, !.fpos = rd.pos + 1]
                /\ rpc' = "skipped"
             \/ /\ rd' = [rd EXCEPT !.pos = IF h.kind = "END" THEN @ + 1 ELSE @]
                /\ rpc' = "first"
    <3> DEFINE s == [rd EXCEPT !.pos = rd.pos + 1]
    <3>0. s \in Readers /\ s.bid = rd.bid /\ s.open = rd.open /\ rd.pos + 1 \in Nat
      <4>1. rd.pos + 1 \in Nat
        BY ONLY <1>0 DEF Readers
      <4> QED BY <1>0, <4>1, ReaderWith
    <3>1. rd' \in Readers /\ rd'.bid = rd.bid /\ rd'.open = rd.open
      <4>1. rd' = [s EXCEPT !.fpos = rd.pos + 1] \/ rd' = s \/ rd' = [rd EXCEPT !.pos = rd.pos]
        BY ONLY <1>0, <2>5 DEF Readers
      <4>2. rd.pos \in Nat
        BY ONLY <1>0 DEF Readers
      <4> HIDE DEF s
      <4>3. CASE rd' = [s EXCEPT !.fpos = rd.pos + 1]
        BY <3>0, <4>3, ReaderWith
      <4>4. CASE rd' = [rd EXCEPT !.pos = rd.pos]
        BY <1>0, <4>2, <4>4, ReaderWith
      <4> QED BY ONLY <3>0, <4>1, <4>3, <4>4
    <3>2. rpc' \in {"skipped", "first"}
      BY ONLY <2>5
    <3> QED BY ONLY <1>0, <3>1, <3>2 DEF ReaderFits
  <2>6. CASE rpc' = "onward" /\ rd' = rd
    BY <1>0, <2>6 DEF ReaderFits
  <2> QED BY <2>1, <2>3, <2>4, <2>5, <2>6
<1>2. CASE NextFirst
  <2>1. CASE Close
    BY <2>1, CloseType
  <2>2. CASE ~Close
    <3>1. PICK r \in Onward :
            \/ \E h \in Headers(r.bid, r.pos, ~r.moved) :
                 \/ Deliver(r, h, r.pos, "next")
                 \/ rd' = r /\ rpc' = "onward"
            \/ rd' = r /\ rpc' = "onward"
      BY <1>2, <2>2 DEF NextFirst
    <3>2. r \in Readers /\ r.open /\ r.bid \in Baskets
      BY <1>0, OnwardType
    <3>3. r.pos \in Nat
      BY <3>2 DEF Readers
    <3>4. CASE rd' = r /\ rpc' = "onward"
      BY <3>2, <3>4 DEF ReaderFits
    <3>5. CASE ~(rd' = r /\ rpc' = "onward")
      <4>1. PICK h \in Headers(r.bid, r.pos, ~r.moved) : Deliver(r, h, r.pos, "next")
        BY <3>1, <3>5
      <4>2. h.ts \in Nat
        BY <1>0, <3>2, <3>3, HeaderType
      <4> QED BY <3>2, <3>3, <4>1, <4>2, DeliverType
    <3> QED BY <3>4, <3>5
  <2> QED BY <2>1, <2>2
<1>3. CASE NextI
  <2>1. CASE Close
    BY <2>1, CloseType
  <2>2. CASE ~Close
    <3>1. PICK r \in Onward :
            \/ \E k \in KeyFrames(r) :
                 Deliver(InStep(r), k.frame, k.pos, IF rpc = "onward" THEN "next" ELSE "fast")
            \/ rd' = r /\ rpc' = rpc
      BY <1>3, <2>2 DEF NextI
    <3>2. r \in Readers /\ r.open /\ r.bid \in Baskets
      BY <1>0, OnwardType
    <3>3. CASE rd' = r /\ rpc' = rpc
      BY <3>2, <3>3 DEF ReaderFits
    <3>4. CASE ~(rd' = r /\ rpc' = rpc)
      <4>1. PICK k \in KeyFrames(r) :
              Deliver(InStep(r), k.frame, k.pos, IF rpc = "onward" THEN "next" ELSE "fast")
        BY <3>1, <3>4
      <4>2. k.pos \in Nat /\ k.frame.ts \in Nat
        BY <1>0, <3>2, KeyFrameType
      <4> QED BY <3>2, <4>1, <4>2, InStepType, DeliverType
    <3> QED BY <3>3, <3>4
  <2> QED BY <2>1, <2>2
<1>4. CASE PrevI
  <2>1. CASE Close
    BY <2>1, CloseType
  <2>2. CASE ~Close
    <3>1. PICK r \in Backward :
            \/ \E k \in KeyFrames(r) : Deliver(InStep(r), k.frame, k.pos, "prev")
            \/ rd' = r /\ rpc' = rpc
      BY <1>4, <2>2 DEF PrevI
    <3>2. r \in Readers /\ r.open /\ r.bid \in Baskets
      BY <1>0, BackwardType
    <3>3. CASE rd' = r /\ rpc' = rpc
      BY <3>2, <3>3 DEF ReaderFits
    <3>4. CASE ~(rd' = r /\ rpc' = rpc)
      <4>1. PICK k \in KeyFrames(r) : Deliver(InStep(r), k.frame, k.pos, "prev")
        BY <3>1, <3>4
      <4>2. k.pos \in Nat /\ k.frame.ts \in Nat
        BY <1>0, <3>2, KeyFrameType
      <4> QED BY <3>2, <4>1, <4>2, InStepType, DeliverType
    <3> QED BY <3>3, <3>4
  <2> QED BY <2>1, <2>2
<1> QED BY <1>1, <1>2, <1>3, <1>4 DEF ReadStep

\* An opening finds a key frame of a basket, or leaves the reader closed.
LEMMA ReadOpenType ==
  ASSUME Disk, ReaderFits, ReadOpen
  PROVE  ReaderFits'
<1>0. rpc' = "idle" /\ IInv
  BY DEF ReadOpen, Disk
<1>1. CASE rd' = NotOpen
  BY <1>0, <1>1, NotOpenType DEF ReaderFits
<1>2. CASE rd' # NotOpen
  <2>1. PICK m : \E row \in OpenAt(m) : \E e \in EntryAt(row.bid, row.pos) :
          rd' = [NotOpen EXCEPT !.open = TRUE, !.bid = row.bid,
                   !.sec = Sec(e.ts), !.pos = e.fpos, !.fpos = e.fpos,
                   !.cnt = IndexCount(row.bid), !.cur = row.pos]
    BY <1>2 DEF ReadOpen
  <2>2. PICK row \in OpenAt(m) : \E e \in EntryAt(row.bid, row.pos) :
          rd' = [NotOpen EXCEPT !.open = TRUE, !.bid = row.bid,
                   !.sec = Sec(e.ts), !.pos = e.fpos, !.fpos = e.fpos,
                   !.cnt = IndexCount(row.bid), !.cur = row.pos]
    BY <2>1
  <2>3. PICK e \in EntryAt(row.bid, row.pos) :
          rd' = [NotOpen EXCEPT !.open = TRUE, !.bid = row.bid,
                   !.sec = Sec(e.ts), !.pos = e.fpos, !.fpos = e.fpos,
                   !.cnt = IndexCount(row.bid), !.cur = row.pos]
    BY <2>2
  <2>4. row.bid \in Baskets /\ row.pos \in Nat
    BY OpenAtType
  <2>5. e.fpos \in Nat /\ Sec(e.ts) \in Nat /\ IndexCount(row.bid) \in Nat
    BY <1>0, <2>4, EntryType, SecType, CountType
  <2>6. rd' \in Readers /\ rd'.bid = row.bid
    <3>1. rd' = [open |-> TRUE, bid |-> row.bid, sec |-> Sec(e.ts), pos |-> e.fpos,
                 fpos |-> e.fpos, cnt |-> IndexCount(row.bid), cur |-> row.pos,
                 moved |-> FALSE, lost |-> FALSE, oldSound |-> FALSE]
      BY ONLY <2>3 DEF NotOpen
    <3>2. row.bid \in 0 .. NBaskets
      BY <2>4, RecorderAssumption DEF Baskets
    <3> QED BY ONLY <2>4, <2>5, <3>1, <3>2 DEF Readers
  <2> QED BY <1>0, <2>4, <2>6 DEF ReaderFits
<1> QED BY <1>1, <1>2

\* The times the recorder leaves in the header of a basket.
LEMMA HeaderTimesType ==
  ASSUME IInv, IInv', HeaderTypes, began \in Nat, began' = Began, hdr' = HeaderTimes
  PROVE  HeaderTypes' /\ began' \in Nat
<1>1. began' \in Nat
  <2>1. CASE KeyFrameAdded
    <3>1. ctrl'.bbuf \in Seq(Slots) /\ Len(ctrl'.bbuf) \in Nat
      BY LenProperties DEF IInv, TypeOK, Ctrls
    <3>2. Len(ctrl.bbuf) \in Nat
      BY Basics
    <3>3. Len(ctrl'.bbuf) \in 1 .. Len(ctrl'.bbuf)
      BY <2>1, <3>1, <3>2 DEF KeyFrameAdded
    <3>4. ctrl'.bbuf[Len(ctrl'.bbuf)] \in Slots
      BY ONLY <3>1, <3>3, ElementOfSeq
    <3>5. Sec(ctrl'.bbuf[Len(ctrl'.bbuf)].ts) \in Nat
      BY <3>4, SecType DEF Slots
    <3> QED BY <3>5 DEF Began
  <2>2. CASE ~KeyFrameAdded
    BY <2>2 DEF Began
  <2> QED BY <2>1, <2>2
<1>2. Max({0} \cup {Sec(ctrl.bktT2[c]) : c \in Channels}) \in Nat
  <2> DEFINE g == [c \in Channels |-> Sec(ctrl.bktT2[c])]
             T == {0} \cup {Sec(ctrl.bktT2[c]) : c \in Channels}
  <2>1. \A c \in Channels : Sec(ctrl.bktT2[c]) \in Nat
    BY Basics, SecType DEF Times
  <2>2. g \in [Channels -> Nat]
    BY <2>1
  <2>3. PICK n \in Nat : \A c \in Channels : g[c] <= n
    <3> HIDE DEF g
    <3> QED BY <2>2, BoundedValues, RecorderAssumption
  <2>4. T \subseteq Nat /\ T # {} /\ \A x \in T : x <= n
    BY <2>1, <2>3
  <2>5. Max(T) \in T
    <3> HIDE DEF T
    <3> QED BY <2>4, GreatestOf
  <2> QED BY <2>4, <2>5
<1>3. \A b \in Baskets : hdr'[b] \in [t1 : Nat, t2 : Nat]
  <2> TAKE b \in Baskets
  <2>1. hdr'[b] \in {NoHeaderTimes, hdr[b],
                     [t1 |-> IF began = 0 THEN MaxTS ELSE began,
                      t2 |-> Max({0} \cup {Sec(ctrl.bktT2[c]) : c \in Channels})]}
    BY DEF HeaderTimes
  <2>2. NoHeaderTimes \in [t1 : Nat, t2 : Nat]
    BY NotOpenType DEF NoHeaderTimes
  <2>3. hdr[b] \in [t1 : Nat, t2 : Nat]
    BY DEF HeaderTypes
  <2> QED BY <1>2, <2>1, <2>2, <2>3, NotOpenType
<1>4. hdr' = [b \in Baskets |-> hdr'[b]]
  BY DEF HeaderTimes
<1> QED BY <1>1, <1>3, <1>4 DEF HeaderTypes

\* A step of the recorder leaves the reader in its place.
LEMMA RecorderStepType ==
  ASSUME ReaderFits, RecorderStep
  PROVE  ReaderFits'
<1>1. rd \in Readers
  BY DEF ReaderFits
<1>2. PICK x \in BOOLEAN, y \in BOOLEAN : rd' = [rd EXCEPT !.moved = x, !.lost = y]
  <2>1. \A z \in BOOLEAN : (rd.moved \/ z) \in BOOLEAN /\ (rd.lost \/ z) \in BOOLEAN
    OBVIOUS
  <2> QED BY <2>1 DEF RecorderStep
<1>3. rd' \in Readers /\ rd'.open = rd.open /\ rd'.bid = rd.bid
  BY <1>1, <1>2 DEF Readers
<1> QED BY <1>3 DEF ReaderFits, RecorderStep

\* The reader's record, its position and the times it goes by keep their types, and
\* a read under way is always of a basket of the disk, whatever the recorder does in
\* between: record, close, recycle the basket being read, or lose its power.
THEOREM ReadTypeCorrect == ReadSpec => []ReadTypeOK
<1> DEFINE Inv == ReaderFits /\ HeaderTypes /\ began \in Nat
<1>1. ReadInit => Inv
  <2> SUFFICES ASSUME ReadInit
               PROVE  Inv
    OBVIOUS
  <2>1. rd = NotOpen /\ rpc = "idle" /\ began = 0 /\ hdr = [b \in Baskets |-> NoHeaderTimes]
    BY DEF ReadInit
  <2> QED BY <2>1, NotOpenType DEF ReaderFits, HeaderTypes, NoHeaderTimes
<1>2. IInv /\ IInv' /\ RowsNamed /\ RowsUnique /\ Inv /\ [ReadNext]_allvars => Inv'
  <2> SUFFICES ASSUME IInv, IInv', RowsNamed, RowsUnique, Inv, [ReadNext]_allvars
               PROVE  Inv'
    OBVIOUS
  <2>0. Disk
    BY DEF Disk
  <2>1. CASE RecorderStep
    BY <2>1, RecorderStepType, HeaderTimesType DEF RecorderStep
  <2>2. CASE ReadOpen \/ ReadStep
    <3>1. UNCHANGED <<hdr, began>>
      BY <2>2 DEF ReadOpen, ReadStep, Scan, NextFirst, NextI, PrevI, recorder
    <3>2. HeaderTypes' /\ began' \in Nat
      BY <3>1 DEF HeaderTypes
    <3> QED BY <2>0, <2>2, <3>2, ReadOpenType, ReadStepType
  <2>3. CASE ReadNextFrame \/ ReadNextIFrame \/ ReadPrevIFrame
    BY <2>3 DEF ReadNextFrame, ReadNextIFrame, ReadPrevIFrame, Call, recorder, ReaderFits,
       HeaderTypes
  <2>4. CASE UNCHANGED allvars
    BY <2>4 DEF allvars, ReaderFits, HeaderTypes
  <2> QED BY <2>1, <2>2, <2>3, <2>4 DEF ReadNext
<1>3. Inv => ReadTypeOK
  BY DEF ReadTypeOK, ReaderFits, HeaderTypes, Readers
<1> QED BY <1>1, <1>2, <1>3, RecorderUndisturbed, Invariance, RowsAlwaysNamed,
           UniqueInvariance, PTL DEF ReadSpec

=============================================================================
