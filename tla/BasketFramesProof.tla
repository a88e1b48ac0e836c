------------------------- MODULE BasketFramesProof -------------------------
(***************************************************************************)
(* The frames of a basket (module BasketRec), for any number of baskets,   *)
(* channels and frames: recording goes on behind the frames in a stream    *)
(* file, the times baskets are recycled by are those of their frames, and  *)
(* nothing is written over while the mode is "not recycle".                *)
(*                                                                         *)
(* All of it as long as the power stays and every write succeeds: a failed *)
(* flush leaves the end of stream record in the middle of the buffer, and  *)
(* the next start goes on there.                                           *)
(***************************************************************************)
EXTENDS BasketRecProof

\* Neither power cuts nor failed calls.
NoFailure == crashes = 0 /\ errors = 0

-----------------------------------------------------------------------------
(* The inductive invariant: the frames.                                    *)

\* What counts as written is in the file.
SlotsInside == \A b \in Baskets : flushed[b].slots <= Len(bkt[b])

\* What the calls under way work on.
UnderWay ==
  /\ op \in {"roll", "flush"} => IsFrame(cur)
  /\ pc = "resume" => recinfo.flag \in {"using", "stop"}
  /\ pc \in {"closeMgr", "closeRecinfo"} /\ ctrl.bid # 0 => InUse(ctrl.bid)

\* The stream of the open basket: what its file holds before the write position,
\* and the buffer behind it.
Stream(file, p, buf) ==
  [i \in 1 .. p + Len(buf) |-> IF i <= p THEN file[i] ELSE buf[i - p]]
Streamed == Stream(bkt[ctrl.bid], ctrl.fposB, ctrl.bbuf)
StreamEnd == ctrl.fposB + Len(ctrl.bbuf)

\* A scan that starts at the frame of entry e gets to position z.
Leads(stream, e, z) ==
  /\ stream[e.fpos + 1] = Frame(e.ch, e.ts, "I")
  /\ \A i \in e.fpos + 1 .. z : Passes(stream, e.fpos, i)

\* The buffer holds frames, and the end of stream record when a basket is full.
EndsStream == pc = "data" /\ op = "roll"
BufferFits == \A i \in DOMAIN ctrl.bbuf :
                IsFrame(ctrl.bbuf[i]) \/ (i = Len(ctrl.bbuf) /\ EndsStream)

\* The entry in the index file that a start would scan from, and the entries in
\* the buffer, lead behind the last frame.
LastEntry == idx[ctrl.bid].ents[ctrl.fposI]
LastLeads == flushed[ctrl.bid].ents > 0 =>
               LastEntry.fpos < StreamEnd /\ Leads(Streamed, LastEntry, StreamEnd)
BufferLeads == \A i \in DOMAIN ctrl.ibuf : Leads(Streamed, ctrl.ibuf[i], StreamEnd)

\* The open basket is about to be closed as full: nothing goes on behind it.
Ending == op = "roll" /\ pc \in Flushing \cup {"closeIndex"}

OpenFits == fdOpen => /\ flushed[ctrl.bid].slots <= ctrl.fposB
                      /\ BufferFits
                      /\ ~Ending => LastLeads /\ BufferLeads

\* The basket the next start goes on with: the entry counted last leads to the
\* last frame written.
Resting == /\ recinfo.flag \in {"using", "stop"} /\ ~fdOpen
           /\ ~(op = "roll" /\ pc \in {"closeMgr", "closeRecinfo"} /\ ctrl.bid # 0)
RestFits ==
  Resting /\ flushed[recinfo.bid].ents > 0 =>
    /\ idx[recinfo.bid].count > 0
    /\ Leads(bkt[recinfo.bid], idx[recinfo.bid].ents[idx[recinfo.bid].count],
             flushed[recinfo.bid].slots)

FramesFit == NoFailure => OpenFits /\ RestFits

-----------------------------------------------------------------------------
(* The inductive invariant: the times.                                     *)

\* A video frame of channel c.
VideoOf(s, c) == s.ch = c /\ s.kind \in {"I", "P"}

\* A last time of the open basket is that of a frame in its file, or in the
\* buffer, and no frame of the channel is later.
Timed == fdOpen \/ (pc = "closeMgr" /\ ctrl.bid # 0)
LastTime(c) ==
  /\ \/ ctrl.bktT2[c] \in VideoTimes(ctrl.bid, c)
     \/ \E i \in DOMAIN ctrl.bbuf :
          VideoOf(ctrl.bbuf[i], c) /\ ctrl.bbuf[i].ts = ctrl.bktT2[c]
  /\ \A i \in 1 .. StreamEnd : VideoOf(Streamed[i], c) => Streamed[i].ts <= ctrl.bktT2[c]
SessionTimes ==
  Timed => /\ flushed[ctrl.bid].slots <= ctrl.fposB
           /\ \A c \in Channels : ctrl.bktT2[c] # 0 => LastTime(c)

RecordedFit == NoFailure => SessionTimes /\ RecordedTimesTrue

-----------------------------------------------------------------------------
(* The inductive invariant: the mode "not recycle".                        *)

\* A basket is begun anew when it is empty, and nothing was written to it, or
\* when the mode allows the oldest one.
FreshFits ==
  /\ \A b \in Baskets : mgr[b].flag = "empty" => flushed[b].ents = 0
  /\ pc = "header" => mgr[target.bid].flag = "empty" \/ recycle = "on"
-----------------------------------------------------------------------------
(* Lemmas about streams and scans.                                         *)

\* A frame stamped no earlier than the one before does not end a scan.
LEMMA NotBack ==
  ASSUME NEW t \in Nat, NEW prev \in Nat, prev <= t
  PROVE  ~GoesBack(t, prev)
<1> DEFINE k == TicksPerSec
           a == t \div k
           b == prev \div k
<1>1. k \in Nat /\ k > 0
  BY ClockAssumption
<1>2. /\ a \in Nat /\ b \in Nat /\ t % k \in Nat /\ prev % k \in Nat
      /\ t = k * a + (t % k) /\ prev = k * b + (prev % k)
  BY <1>1
<1>3. a <= b => k * a <= k * b
  <2> HIDE DEF a, b, k
  <2>1. k \in Nat /\ a \in Nat /\ b \in Nat
    BY <1>1, <1>2
  <2>2. ASSUME a <= b
        PROVE  k * a <= k * b
    <3>1. b - a \in Nat /\ b = a + (b - a)
      BY <2>1, <2>2
    <3>2. k * (b - a) \in Nat
      BY <2>1, <3>1
    <3>3. k * b = k * a + k * (b - a)
      BY <2>1, <3>1
    <3> QED BY <2>1, <3>2, <3>3
  <2> QED BY <2>2
<1>4. k * a \in Nat /\ k * b \in Nat
  BY <1>1, <1>2
<1>5. ASSUME a <= b, (t % k) < (prev % k)
      PROVE  FALSE
  <2> DEFINE ka == k * a
             kb == k * b
             u == t % k
             v == prev % k
  <2>1. /\ ka \in Nat /\ kb \in Nat /\ u \in Nat /\ v \in Nat
        /\ t = ka + u /\ prev = kb + v /\ ka <= kb /\ u < v
    BY <1>2, <1>3, <1>4, <1>5
  <2> HIDE DEF ka, kb, u, v
  <2> QED BY <2>1
<1> QED BY <1>5 DEF GoesBack, Sec, Usec

\* The places of a stream.
LEMMA StreamPlaces ==
  ASSUME NEW file \in Seq(Slots), NEW p \in Nat, NEW buf \in Seq(Slots)
  PROVE  /\ \A i \in 1 .. p : Stream(file, p, buf)[i] = file[i]
         /\ \A i \in 1 .. Len(buf) : Stream(file, p, buf)[p + i] = buf[i]
<1>1. Len(buf) \in Nat
  BY LenProperties
<1>2. ASSUME NEW i \in 1 .. Len(buf)
      PROVE  Stream(file, p, buf)[p + i] = buf[i]
  <2>1. p + i \in 1 .. p + Len(buf) /\ ~(p + i <= p) /\ p + i - p = i
    BY <1>1
  <2> QED BY <2>1 DEF Stream
<1>3. ASSUME NEW i \in 1 .. p
      PROVE  Stream(file, p, buf)[i] = file[i]
  <2>1. i \in 1 .. p + Len(buf) /\ i <= p
    BY <1>1
  <2> QED BY <2>1 DEF Stream
<1> QED BY <1>2, <1>3

\* With nothing in the buffer it is that of the file.
LEMMA StreamFile ==
  ASSUME NEW file \in Seq(Slots), NEW p \in Nat
  PROVE  \A i \in 1 .. p : Stream(file, p, <<>>)[i] = file[i]
<1> DEFINE none == <<>>
<1>1. none \in Seq(Slots)
  OBVIOUS
<1> HIDE DEF none
<1>2. \A i \in 1 .. p : Stream(file, p, none)[i] = file[i]
  BY <1>1, StreamPlaces
<1> QED BY <1>2 DEF none

\* A scan reads only the slots it passes.
LEMMA LeadsSame ==
  ASSUME NEW s, NEW t, NEW e \in Entries, NEW z \in Nat, e.fpos < z,
         \A i \in e.fpos + 1 .. z : t[i] = s[i], Leads(s, e, z)
  PROVE  Leads(t, e, z)
<1>1. e.fpos \in Nat /\ e.fpos + 1 \in e.fpos + 1 .. z
  BY DEF Entries
<1>2. t[e.fpos + 1] = Frame(e.ch, e.ts, "I")
  BY <1>1 DEF Leads
<1>3. ASSUME NEW i \in e.fpos + 1 .. z
      PROVE  Passes(t, e.fpos, i)
  <2>1. Passes(s, e.fpos, i)
    BY DEF Leads
  <2>2. t[i] = s[i]
    OBVIOUS
  <2>3. i > e.fpos + 1 => t[i - 1] = s[i - 1]
    <3>1. i > e.fpos + 1 => i - 1 \in e.fpos + 1 .. z
      BY <1>1
    <3> QED BY <3>1
  <2> QED BY <2>1, <2>2, <2>3 DEF Passes
<1> QED BY <1>2, <1>3 DEF Leads

\* It also passes one more frame that is no earlier than the last.
LEMMA LeadsOn ==
  ASSUME NEW s, NEW t, NEW e \in Entries, NEW z \in Nat, e.fpos < z,
         \A i \in e.fpos + 1 .. z : t[i] = s[i], Leads(s, e, z),
         IsFrame(t[z + 1]), ~GoesBack(t[z + 1].ts, t[z].ts)
  PROVE  Leads(t, e, z + 1)
<1>1. Leads(t, e, z) /\ e.fpos \in Nat
  BY LeadsSame DEF Entries
<1>2. ASSUME NEW i \in e.fpos + 1 .. z + 1
      PROVE  Passes(t, e.fpos, i)
  <2>1. CASE i \in e.fpos + 1 .. z
    BY <1>1, <2>1 DEF Leads
  <2>2. CASE i = z + 1
    <3>1. z + 1 - 1 = z
      OBVIOUS
    <3> QED BY <2>2, <3>1 DEF Passes
  <2> QED BY <1>1, <2>1, <2>2
<1> QED BY <1>1, <1>2 DEF Leads

\* A scan passes the key frame it starts from.
LEMMA LeadsNew ==
  ASSUME NEW t, NEW e \in Entries, t[e.fpos + 1] = Frame(e.ch, e.ts, "I")
  PROVE  Leads(t, e, e.fpos + 1)
<1>1. IsFrame(t[e.fpos + 1])
  BY DEF IsFrame, Frame
<1>2. ASSUME NEW i \in e.fpos + 1 .. e.fpos + 1
      PROVE  Passes(t, e.fpos, i)
  <2>1. i = e.fpos + 1 /\ ~(i > e.fpos + 1)
    BY DEF Entries
  <2> QED BY <1>1, <2>1 DEF Passes
<1> QED BY <1>2 DEF Leads

\* The members of a stream are those of the file and of the buffer.
LEMMA StreamUpTo ==
  ASSUME NEW file \in Seq(Slots), NEW p \in 0 .. Len(file), NEW buf \in Seq(Slots),
         NEW t, UpTo(file, t), UpTo(buf, t), NEW i \in 1 .. p + Len(buf)
  PROVE  Stream(file, p, buf)[i] \in Slots /\ Stream(file, p, buf)[i].ts <= t
<1> DEFINE n == Len(buf)
           s == Stream(file, p, buf)
<1>1. n \in Nat /\ p \in Nat
  BY LenProperties
<1>2. /\ \A j \in 1 .. p : s[j] = file[j]
      /\ \A j \in 1 .. n : s[p + j] = buf[j]
  BY <1>1, StreamPlaces
<1> HIDE DEF s
<1>3. CASE i \in 1 .. p
  <2>1. i \in DOMAIN file /\ file[i] \in Slots
    BY <1>3, Places
  <2> QED BY <1>2, <1>3, <2>1 DEF UpTo, s
<1>4. CASE i > p
  <2>1. i - p \in 1 .. n /\ p + (i - p) = i
    BY <1>1, <1>4
  <2>2. i - p \in DOMAIN buf /\ buf[i - p] \in Slots
    BY <2>1, Places
  <2>3. buf[i - p].ts <= t
    BY <2>2 DEF UpTo
  <2>4. s[p + (i - p)] = buf[i - p]
    BY <1>2, <2>1
  <2> QED BY <2>1, <2>2, <2>3, <2>4 DEF s
<1> QED BY <1>1, <1>3, <1>4

\* One more slot in the buffer is one more at the end of the stream.
LEMMA StreamAppend ==
  ASSUME NEW file \in Seq(Slots), NEW p \in Nat, NEW buf \in Seq(Slots), NEW f \in Slots
  PROVE  /\ \A i \in 1 .. p + Len(buf) :
              Stream(file, p, Append(buf, f))[i] = Stream(file, p, buf)[i]
         /\ Stream(file, p, Append(buf, f))[p + Len(buf) + 1] = f
<1> DEFINE n == Len(buf)
           old == Stream(file, p, buf)
           more == Append(buf, f)
           new == Stream(file, p, more)
<1>1. /\ n \in Nat /\ more \in Seq(Slots) /\ Len(more) = n + 1 /\ more[n + 1] = f
      /\ \A i \in 1 .. n : more[i] = buf[i]
  BY AppendSeq, LenProperties
<1>2. /\ \A i \in 1 .. p : old[i] = file[i]
      /\ \A i \in 1 .. n : old[p + i] = buf[i]
  BY <1>1, StreamPlaces
<1> HIDE DEF more
<1>3. /\ \A i \in 1 .. p : new[i] = file[i]
      /\ \A i \in 1 .. n + 1 : new[p + i] = more[i]
  <2>1. more \in Seq(Slots) /\ Len(more) = n + 1
    BY <1>1
  <2>2. /\ \A i \in 1 .. p : new[i] = file[i]
        /\ \A i \in 1 .. Len(more) : new[p + i] = more[i]
    BY <2>1, StreamPlaces
  <2> QED BY <2>1, <2>2
<1> HIDE DEF old, new
<1>4. ASSUME NEW i \in 1 .. p + n
      PROVE  new[i] = old[i]
  <2>1. CASE i \in 1 .. p
    BY <1>2, <1>3, <2>1
  <2>2. CASE i > p
    <3>1. i - p \in 1 .. n /\ i - p \in 1 .. n + 1 /\ p + (i - p) = i
      BY <1>1, <2>2
    <3>2. new[p + (i - p)] = old[p + (i - p)]
      BY <1>1, <1>2, <1>3, <3>1
    <3> QED BY <3>1, <3>2
  <2> QED BY <1>1, <2>1, <2>2
<1>5. new[p + n + 1] = f
  <2>1. n + 1 \in 1 .. n + 1 /\ p + (n + 1) = p + n + 1
    BY <1>1
  <2>2. new[p + (n + 1)] = f
    BY <1>1, <1>3, <2>1
  <2> QED BY <2>1, <2>2
<1> QED BY <1>4, <1>5 DEF old, new, more

\* The slot that was added.
LEMMA StreamAdds ==
  ASSUME NEW file \in Seq(Slots), NEW p \in 0 .. Len(file), NEW buf \in Seq(Slots),
         NEW f \in Slots
  PROVE  Stream(file, p, Append(buf, f))[p + Len(buf) + 1] = f
<1>1. p \in Nat
  BY LenProperties
<1> QED BY <1>1, StreamAppend

\* The slots that were there.
LEMMA StreamStays ==
  ASSUME NEW file \in Seq(Slots), NEW p \in 0 .. Len(file), NEW buf \in Seq(Slots),
         NEW f \in Slots
  PROVE  \A i \in 1 .. p + Len(buf) :
           Stream(file, p, Append(buf, f))[i] = Stream(file, p, buf)[i]
<1>1. p \in Nat
  BY LenProperties
<1> QED BY <1>1, StreamAppend

\* A frame of now in the buffer: scans get to the end of the stream.
LEMMA StreamGrows ==
  ASSUME NEW file \in Seq(Slots), NEW p \in 0 .. Len(file), NEW buf \in Seq(Slots),
         NEW f \in Slots, NEW t \in Nat, UpTo(file, t), UpTo(buf, t), f.ts = t, IsFrame(f)
  PROVE  \A e \in Entries :
           e.fpos < p + Len(buf) /\ Leads(Stream(file, p, buf), e, p + Len(buf))
             => Leads(Stream(file, p, Append(buf, f)), e, p + Len(buf) + 1)
<1> DEFINE z == p + Len(buf)
           old == Stream(file, p, buf)
           new == Stream(file, p, Append(buf, f))
<1>1. p \in Nat /\ z \in Nat
  BY LenProperties
<1>2. new[z + 1] = f /\ \A i \in 1 .. z : new[i] = old[i]
  BY ONLY StreamAdds, StreamStays, file \in Seq(Slots), p \in 0 .. Len(file),
          buf \in Seq(Slots), f \in Slots, Zenon
<1>3. \A i \in 1 .. z : old[i] \in Slots /\ old[i].ts <= t
  BY StreamUpTo
<1> HIDE DEF old, new, z
<1>4. ASSUME NEW e \in Entries, e.fpos < z, Leads(old, e, z)
      PROVE  Leads(new, e, z + 1)
  <2>1. e.fpos \in Nat /\ z \in 1 .. z
    BY <1>1, <1>4 DEF Entries
  <2>2. new[z].ts \in Nat /\ new[z].ts <= t
    BY <1>2, <1>3, <2>1 DEF Slots
  <2>3. ~GoesBack(t, new[z].ts)
    BY <2>2, NotBack
  <2>4. \A i \in e.fpos + 1 .. z : new[i] = old[i]
    <3>1. \A i \in e.fpos + 1 .. z : i \in 1 .. z
      BY <2>1
    <3> QED BY <1>2, <3>1
  <2>5. IsFrame(new[z + 1]) /\ ~GoesBack(new[z + 1].ts, new[z].ts)
    BY <1>2, <2>3
  <2> QED BY <1>1, <1>4, <2>4, <2>5, LeadsOn
<1> QED BY <1>4 DEF old, new, z

\* A step that leaves the open basket as it is.
LEMMA OpenFrame ==
  ASSUME OpenFits, UNCHANGED <<bkt, idx, flushed>>,
         fdOpen' => /\ fdOpen /\ ctrl'.bid = ctrl.bid
                    /\ ctrl'.fposB = ctrl.fposB /\ ctrl'.fposI = ctrl.fposI
                    /\ ctrl'.bbuf = ctrl.bbuf /\ ctrl'.ibuf = ctrl.ibuf
                    /\ Ending => Ending'
                    /\ EndsStream => ctrl.bbuf = <<>>
  PROVE  OpenFits'
<1> SUFFICES ASSUME fdOpen'
             PROVE  OpenFits'
  BY DEF OpenFits
<1>1. Streamed' = Streamed /\ StreamEnd' = StreamEnd /\ LastEntry' = LastEntry
  BY DEF Streamed, StreamEnd, LastEntry
<1>2. LastLeads => LastLeads'
  BY <1>1 DEF LastLeads
<1>3. BufferLeads => BufferLeads'
  BY <1>1 DEF BufferLeads
<1>4. BufferFits => BufferFits'
  BY Places DEF BufferFits
<1> QED BY <1>2, <1>3, <1>4 DEF OpenFits

\* The last entry of an open basket, and those in the buffer, are entries.
LEMMA EntryTypes ==
  ASSUME IInv, fdOpen
  PROVE  /\ ctrl.bid \in Baskets /\ bkt[ctrl.bid] \in Seq(Slots)
         /\ ctrl.fposB \in 0 .. Len(bkt[ctrl.bid])
         /\ ctrl.fposI > 0 => LastEntry \in Entries
         /\ StreamEnd \in Nat
         /\ \A i \in DOMAIN ctrl.ibuf :
              ctrl.ibuf[i] \in Entries /\ ctrl.ibuf[i].fpos < StreamEnd
<1>1. ctrl.bid \in Baskets
  BY DEF IInv, BasketsFit
<1>2. ctrl.fposB \in 0 .. Len(bkt[ctrl.bid])
  BY <1>1, Basics DEF IInv, PositionsFit
<1>3. ctrl.fposI > 0 => LastEntry \in Entries
  <2>1. /\ idx[ctrl.bid].ents \in Seq(Entries)
        /\ ctrl.fposI > 0 => ctrl.fposI \in 1 .. Len(idx[ctrl.bid].ents)
    BY <1>1, Basics DEF IInv, PositionsFit
  <2> QED BY <2>1, ElementOfSeq DEF LastEntry
<1>4. \A i \in DOMAIN ctrl.ibuf :
        ctrl.ibuf[i] \in Entries /\ ctrl.ibuf[i].fpos < ctrl.fposB + Len(ctrl.bbuf)
  <2>1. DOMAIN ctrl.ibuf = 1 .. Len(ctrl.ibuf)
        /\ \A i \in DOMAIN ctrl.ibuf : ctrl.ibuf[i] \in Entries
    BY Basics, Places
  <2> QED BY <2>1 DEF IInv, PositionsFit
<1> QED BY <1>1, <1>2, <1>3, <1>4, Basics DEF StreamEnd

\* A frame of now that is put into the buffers.
LEMMA OpenWith ==
  ASSUME IInv, TimesFit, IndexKept, OpenFits, ~Ending, ~EndsStream,
         NEW f \in Slots, f.ts = now, IsFrame(f), ctrl' = With(ctrl, f),
         UNCHANGED <<bkt, idx, flushed, fdOpen>>
  PROVE  OpenFits'
<1> SUFFICES ASSUME fdOpen
             PROVE  OpenFits'
  BY DEF OpenFits
<1> DEFINE entry == [ch |-> f.ch, ts |-> f.ts, fpos |-> ctrl.fposB + Len(ctrl.bbuf)]
<1>1. /\ ctrl'.bid = ctrl.bid /\ ctrl'.fposB = ctrl.fposB /\ ctrl'.fposI = ctrl.fposI
      /\ ctrl'.bbuf = Append(ctrl.bbuf, f)
      /\ ctrl'.ibuf = IF f.kind = "I" THEN Append(ctrl.ibuf, entry) ELSE ctrl.ibuf
  BY Basics, WithType, WithFields
<1>2. /\ entry \in Entries /\ entry.fpos = StreamEnd
      /\ f.kind = "I" => f = Frame(entry.ch, entry.ts, "I")
  BY Basics DEF Entries, Slots, Frame, StreamEnd
<1>3. /\ ctrl.bbuf \in Seq(Slots) /\ ctrl.ibuf \in Seq(Entries) /\ now \in Nat
      /\ Len(ctrl.bbuf) \in Nat /\ ctrl.fposB \in Nat /\ StreamEnd \in Nat
  BY Basics DEF StreamEnd
<1> HIDE DEF entry
<1>4. /\ StreamEnd' = StreamEnd + 1
      /\ Streamed' = Stream(bkt[ctrl.bid], ctrl.fposB, Append(ctrl.bbuf, f))
  BY <1>1, <1>3, AppendSeq DEF StreamEnd, Streamed
<1>5. /\ Streamed'[StreamEnd + 1] = f
      /\ \A e \in Entries : e.fpos < StreamEnd /\ Leads(Streamed, e, StreamEnd)
                              => Leads(Streamed', e, StreamEnd + 1)
  <2>1. UpTo(bkt[ctrl.bid], now) /\ UpTo(ctrl.bbuf, now)
    BY EntryTypes DEF TimesFit
  <2>2. bkt[ctrl.bid] \in Seq(Slots) /\ ctrl.fposB \in 0 .. Len(bkt[ctrl.bid])
    BY EntryTypes
  <2> DEFINE file == bkt[ctrl.bid]
             p == ctrl.fposB
             buf == ctrl.bbuf
  <2>3. /\ file \in Seq(Slots) /\ p \in 0 .. Len(file) /\ buf \in Seq(Slots)
        /\ UpTo(file, now) /\ UpTo(buf, now)
    BY <1>3, <2>1, <2>2
  <2> HIDE DEF file, p, buf
  <2>4. Stream(file, p, Append(buf, f))[p + Len(buf) + 1] = f
    BY ONLY <2>3, f \in Slots, StreamAdds, Zenon
  <2>5. \A e \in Entries :
              e.fpos < p + Len(buf) /\ Leads(Stream(file, p, buf), e, p + Len(buf))
                => Leads(Stream(file, p, Append(buf, f)), e, p + Len(buf) + 1)
    BY <1>3, <2>3, StreamGrows
  <2> QED BY <1>4, <2>4, <2>5 DEF StreamEnd, Streamed, file, p, buf
<1>6. LastLeads'
  <2>1. LastEntry' = LastEntry
    BY <1>1 DEF LastEntry
  <2>2. ASSUME flushed[ctrl.bid].ents > 0
        PROVE  LastEntry.fpos < StreamEnd + 1 /\ Leads(Streamed', LastEntry, StreamEnd + 1)
    <3>1. LastEntry \in Entries
      <4>1. ctrl.fposI > 0
        BY <2>2, EntryTypes, Basics DEF IndexKept
      <4> QED BY <4>1, EntryTypes
    <3>2. LastEntry.fpos < StreamEnd /\ Leads(Streamed, LastEntry, StreamEnd)
      BY <2>2 DEF OpenFits, LastLeads
    <3> QED BY <1>3, <1>5, <3>1, <3>2 DEF Entries
  <2> QED BY <1>1, <1>4, <2>1, <2>2 DEF LastLeads
<1>7. BufferLeads'
  <2>1. ASSUME NEW i \in DOMAIN ctrl.ibuf
        PROVE  Leads(Streamed', ctrl.ibuf[i], StreamEnd + 1)
    BY <1>5, EntryTypes DEF OpenFits, BufferLeads
  <2>2. CASE f.kind # "I"
    BY <1>1, <1>4, <2>1, <2>2 DEF BufferLeads
  <2>3. CASE f.kind = "I"
    <3>1. Leads(Streamed', entry, StreamEnd + 1)
      BY <1>2, <1>5, <2>3, LeadsNew
    <3>2. ASSUME NEW i \in DOMAIN Append(ctrl.ibuf, entry)
          PROVE  Leads(Streamed', Append(ctrl.ibuf, entry)[i], StreamEnd + 1)
      BY <1>2, <1>3, <2>1, <3>1, AppendSeq, Places
    <3> QED BY <1>1, <1>4, <2>3, <3>2 DEF BufferLeads
  <2> QED BY <2>2, <2>3
<1>8. BufferFits'
  <2>1. ASSUME NEW i \in DOMAIN Append(ctrl.bbuf, f)
        PROVE  IsFrame(Append(ctrl.bbuf, f)[i])
    BY <1>3, AppendSeq, Places DEF OpenFits, BufferFits
  <2> QED BY <1>1, <2>1 DEF BufferFits
<1> QED BY <1>1, <1>6, <1>7, <1>8 DEF OpenFits

\* The frames of a buffer up to the first slot that is none.
LEMMA FirstFramesBound ==
  ASSUME NEW s \in Seq(Slots)
  PROVE  /\ FirstFrames(s) \in 0 .. Len(s)
         /\ \A j \in 1 .. Len(s) : (\A i \in 1 .. j : IsFrame(s[i])) => j <= FirstFrames(s)
<1> DEFINE first == {i \in 1 .. Len(s) : \A j \in 1 .. i : IsFrame(s[j])}
<1>1. Len(s) \in Nat
  BY LenProperties
<1>2. IsFiniteSet(1 .. Len(s)) /\ Cardinality(1 .. Len(s)) = Len(s)
  BY <1>1, FS_Interval
<1>3. IsFiniteSet(first) /\ Cardinality(first) <= Len(s) /\ Cardinality(first) \in Nat
  <2>1. first \in SUBSET (1 .. Len(s))
    OBVIOUS
  <2> HIDE DEF first
  <2> QED BY <1>2, <2>1, FS_Subset, FS_CardinalityType
<1>4. ASSUME NEW j \in 1 .. Len(s), \A i \in 1 .. j : IsFrame(s[i])
      PROVE  j <= Cardinality(first)
  <2>1. 1 .. j \in SUBSET first
    BY <1>1, <1>4
  <2> HIDE DEF first
  <2>2. Cardinality(1 .. j) = j
    BY <1>1, FS_Interval
  <2> QED BY <1>3, <2>1, <2>2, FS_Subset
<1>5. FirstFrames(s) = Cardinality(first)
  BY DEF FirstFrames
<1> HIDE DEF first
<1> QED BY <1>1, <1>3, <1>4, <1>5

\* Flushing the buffer leaves the stream.
LEMMA StreamFlushed ==
  ASSUME NEW file \in Seq(Slots), NEW p \in 0 .. Len(file), NEW buf \in Seq(Slots),
         NEW aligned \in BOOLEAN
  PROVE  /\ Overwrite(file, p, buf, aligned) \in Seq(Slots)
         /\ \A i \in 1 .. p : Overwrite(file, p, buf, aligned)[i] = file[i]
         /\ \A i \in 1 .. Len(buf) : Overwrite(file, p, buf, aligned)[p + i] = buf[i]
         /\ \A i \in 1 .. p + Len(buf) :
              Stream(Overwrite(file, p, buf, aligned), p + Len(buf), <<>>)[i]
                = Stream(file, p, buf)[i]
<1> DEFINE over == Overwrite(file, p, buf, aligned)
           n == Len(buf)
<1>1. \A x \in Slots : aligned \/ Gap(x) \in Slots
  BY DEF Gap, Slots
<1>2. /\ over \in Seq(Slots)
      /\ \A i \in 1 .. p : over[i] = file[i]
      /\ \A i \in 1 .. n : over[p + i] = buf[i]
  <2>1. over \in Seq(Slots)
    BY <1>1, OverwriteSeq
  <2>2. /\ \A i \in 1 .. p : over[i] = file[i]
        /\ \A i \in 1 .. n : over[p + i] = buf[i]
    BY <1>1, OverwritePlaces
  <2> QED BY <2>1, <2>2
<1>3. n \in Nat /\ p \in Nat /\ <<>> \in Seq(Slots) /\ p + n \in Nat
  BY LenProperties
<1> HIDE DEF over
<1>4. /\ \A i \in 1 .. p : Stream(file, p, buf)[i] = file[i]
      /\ \A i \in 1 .. n : Stream(file, p, buf)[p + i] = buf[i]
  BY <1>3, StreamPlaces
<1>5. \A i \in 1 .. p + n : Stream(over, p + n, <<>>)[i] = over[i]
  BY <1>2, <1>3, StreamFile
<1>6. ASSUME NEW i \in 1 .. p + n
      PROVE  over[i] = Stream(file, p, buf)[i]
  <2>1. CASE i \in 1 .. p
    BY <1>2, <1>4, <2>1
  <2>2. CASE i > p
    <3>1. i - p \in 1 .. n /\ p + (i - p) = i
      BY <1>3, <2>2
    <3>2. over[p + (i - p)] = Stream(file, p, buf)[p + (i - p)]
      BY <1>2, <1>4, <3>1
    <3> QED BY <3>1, <3>2
  <2> QED BY <1>3, <2>1, <2>2
<1> QED BY <1>2, <1>5, <1>6 DEF over

\* The stream alone.
LEMMA FlushKeepsStream ==
  ASSUME NEW file \in Seq(Slots), NEW p \in 0 .. Len(file), NEW buf \in Seq(Slots),
         NEW aligned \in BOOLEAN
  PROVE  \A i \in 1 .. p + Len(buf) :
           Stream(Overwrite(file, p, buf, aligned), p + Len(buf), <<>>)[i]
             = Stream(file, p, buf)[i]
BY StreamFlushed

\* The slots of the file alone.
LEMMA FlushPlaces ==
  ASSUME NEW file \in Seq(Slots), NEW p \in 0 .. Len(file), NEW buf \in Seq(Slots),
         NEW aligned \in BOOLEAN
  PROVE  /\ \A i \in 1 .. p : Overwrite(file, p, buf, aligned)[i] = file[i]
         /\ \A i \in 1 .. Len(buf) : Overwrite(file, p, buf, aligned)[p + i] = buf[i]
BY StreamFlushed

\* The buffer goes behind the write position.
LEMMA OpenFlushed ==
  ASSUME IInv, IndexKept, OpenFits, FlushData
  PROVE  OpenFits'
<1>0. /\ fdOpen' = fdOpen /\ idx' = idx /\ pc = "data" /\ pc' = "index" /\ op' = op
  BY DEF FlushData, Goto, env
<1>1. /\ ctrl'.bid = ctrl.bid /\ ctrl'.fposI = ctrl.fposI /\ ctrl'.ibuf = ctrl.ibuf
      /\ ctrl'.bbuf = <<>> /\ ctrl'.fposB = ctrl.fposB + Len(ctrl.bbuf)
  BY FlushedData
<1>2. CASE UNCHANGED <<bkt, ctrl, flushed>>
  <2>1. Ending => Ending'
    BY <1>0 DEF Ending, Flushing
  <2>2. ctrl.bbuf = <<>>
    BY <1>1, <1>2
  <2> QED BY <1>0, <1>2, <2>1, <2>2, OpenFrame
<1>3. CASE fdOpen /\ ctrl.bbuf # <<>>
  <2> DEFINE b == ctrl.bid
             p == ctrl.fposB
             n == Len(ctrl.bbuf)
  <2>1. /\ b \in Baskets /\ bkt[b] \in Seq(Slots) /\ ctrl.bbuf \in Seq(Slots)
        /\ p \in 0 .. Len(bkt[b]) /\ p \in Nat /\ n \in Nat /\ flushed[b].slots \in Nat
    BY <1>3, EntryTypes, Basics
  <2>2. PICK aligned \in BOOLEAN : bkt'[b] = Overwrite(bkt[b], p, ctrl.bbuf, aligned)
    BY <1>3, DataWritten
  <2>3. /\ flushed'[b].ents = flushed[b].ents
        /\ flushed'[b].slots \in {flushed[b].slots,
                                  AtLeast(flushed[b].slots, p + FirstFrames(ctrl.bbuf))}
    BY <1>3, DataWritten
  <2>4. flushed'[b].slots <= p + n
    <3>1. FirstFrames(ctrl.bbuf) \in 0 .. n
      BY <2>1, FirstFramesBound
    <3>2. flushed[b].slots <= p
      BY <1>3 DEF OpenFits
    <3> DEFINE k == FirstFrames(ctrl.bbuf)
    <3> HIDE DEF k, n, p, b
    <3>3. k \in 0 .. n /\ flushed'[b].slots \in {flushed[b].slots, AtLeast(flushed[b].slots, p + k)}
      BY <2>3, <3>1 DEF k
    <3> QED BY <2>1, <3>2, <3>3 DEF AtLeast
  <2>5. StreamEnd' = StreamEnd /\ StreamEnd = p + n /\ p + n \in Nat
    BY <1>1, <2>1, Places DEF StreamEnd
  <2>6. \A i \in 1 .. p + n : Streamed'[i] = Streamed[i]
    <3>1. Streamed' = Stream(Overwrite(bkt[b], p, ctrl.bbuf, aligned), p + n, <<>>)
      BY <1>1, <2>2 DEF Streamed
    <3>2. Streamed = Stream(bkt[b], p, ctrl.bbuf)
      BY DEF Streamed
    <3>3. \A i \in 1 .. p + n :
             Stream(Overwrite(bkt[b], p, ctrl.bbuf, aligned), p + n, <<>>)[i]
               = Stream(bkt[b], p, ctrl.bbuf)[i]
      BY ONLY <2>1, aligned \in BOOLEAN, FlushKeepsStream, Zenon DEF n
    <3> QED BY ONLY <3>1, <3>2, <3>3
  <2>7. ASSUME NEW e \in Entries, e.fpos < StreamEnd, Leads(Streamed, e, StreamEnd)
        PROVE  Leads(Streamed', e, StreamEnd)
    <3>1. \A i \in e.fpos + 1 .. StreamEnd : Streamed'[i] = Streamed[i]
      BY <2>5, <2>6 DEF Entries
    <3> QED BY <2>5, <2>7, <3>1, LeadsSame
  <2>8. LastLeads => LastLeads'
    <3>1. LastEntry' = LastEntry
      BY <1>0, <1>1 DEF LastEntry
    <3>2. flushed[b].ents > 0 => LastEntry \in Entries
      BY <1>3, <2>1, EntryTypes, Basics DEF IndexKept
    <3> QED BY <1>1, <2>3, <2>5, <2>7, <3>1, <3>2 DEF LastLeads
  <2>9. BufferLeads => BufferLeads'
    BY <1>1, <1>3, <2>5, <2>7, EntryTypes DEF BufferLeads
  <2>10. BufferFits'
    BY <1>1, Places DEF BufferFits
  <2>11. Ending => Ending'
    BY <1>0 DEF Ending, Flushing
  <2> QED BY <1>1, <1>3, <2>4, <2>8, <2>9, <2>10, <2>11 DEF OpenFits
<1> QED BY <1>2, <1>3, DataWritten

\* The entries in the buffer go behind the last one.
LEMMA OpenIndexed ==
  ASSUME IInv, OpenFits, FlushIndex
  PROVE  OpenFits'
<1>0. /\ UNCHANGED <<bkt, fdOpen, op>> /\ pc = "index" /\ pc' = "rdb"
      /\ ctrl'.bid = ctrl.bid /\ ctrl'.fposB = ctrl.fposB
      /\ ctrl'.bbuf = ctrl.bbuf /\ ctrl'.ibuf = <<>> /\ ctrl.bbuf = <<>>
  BY FlushedIndex DEF FlushIndex, Goto, env, IInv, PositionsFit
<1>1. Ending => Ending'
  BY <1>0 DEF Ending, Flushing
<1>2. CASE UNCHANGED <<idx, ctrl, flushed>>
  BY <1>0, <1>1, <1>2, OpenFrame
<1>3. CASE ctrl.ibuf # <<>> /\ fdOpen
  <2> DEFINE b == ctrl.bid
             n == Len(ctrl.ibuf)
             e == ctrl.ibuf[n]
  <2>1. /\ b \in Baskets /\ flushed'[b].slots = flushed[b].slots
        /\ idx'[b].ents = Overwrite(idx[b].ents, ctrl.fposI, ctrl.ibuf, TRUE)
        /\ ctrl'.fposI = ctrl.fposI + n
    BY <1>3, IndexWritten
  <2>2. /\ idx[b].ents \in Seq(Entries) /\ ctrl.ibuf \in Seq(Entries)
        /\ ctrl.fposI \in 0 .. Len(idx[b].ents) /\ n \in Nat
    BY <1>3, <2>1, Basics DEF IInv, PositionsFit
  <2>3. n \in 1 .. n /\ n \in DOMAIN ctrl.ibuf
    <3>1. n # 0
      BY <1>3, <2>2, EmptySeq
    <3> QED BY <2>2, <3>1, Places
  <2>4. LastEntry' = e
    <3>1. idx'[b].ents = Aligned(idx[b].ents, ctrl.fposI, ctrl.ibuf)
      BY <2>1 DEF Aligned
    <3>2. Aligned(idx[b].ents, ctrl.fposI, ctrl.ibuf)[ctrl.fposI + n] = ctrl.ibuf[n]
      BY <2>2, <2>3, AlignedPlaces
    <3> QED BY <1>0, <2>1, <3>1, <3>2 DEF LastEntry
  <2>5. Streamed' = Streamed /\ StreamEnd' = StreamEnd
    BY <1>0 DEF Streamed, StreamEnd
  <2>6. e.fpos < StreamEnd
    BY <1>3, <2>3, EntryTypes
  <2>7. BufferLeads => Leads(Streamed, e, StreamEnd)
    BY <2>3 DEF BufferLeads
  <2>8. BufferLeads => LastLeads'
    BY <2>4, <2>5, <2>6, <2>7 DEF LastLeads
  <2>9. BufferLeads' /\ BufferFits'
    BY <1>0, Places DEF BufferLeads, BufferFits
  <2> QED BY <1>0, <1>1, <1>3, <2>1, <2>8, <2>9 DEF OpenFits
<1> QED BY <1>2, <1>3, IndexWritten

\* A basket begun anew holds nothing that counts.
LEMMA OpenBegun ==
  ASSUME IInv, WriteHeaders
  PROVE  OpenFits'
<1>1. /\ ctrl'.bid = target.bid /\ target.bid \in Baskets
      /\ ctrl'.fposB = 0 /\ ctrl'.ibuf = <<>> /\ ctrl'.bbuf = <<>>
  BY BegunAt
<1>2. flushed'[target.bid].slots = 0 /\ flushed'[target.bid].ents = 0
  BY <1>1, Basics DEF WriteHeaders
<1>3. BufferFits' /\ BufferLeads' /\ LastLeads'
  BY <1>1, <1>2, Places DEF BufferFits, BufferLeads, LastLeads
<1> QED BY <1>1, <1>2, <1>3 DEF OpenFits

\* A scan that starts at the entry counted last gets behind the frames written.
LEMMA ScanReaches ==
  ASSUME NEW file \in Seq(Slots), NEW e \in Entries, e.fpos < Len(file),
         NEW z \in 0 .. Len(file), Leads(file, e, z), NEW p \in ResumeEnds(file, e)
  PROVE  p \in Nat /\ p >= z /\ e.fpos < p /\ Leads(file, e, p)
<1>1. Len(file) \in Nat /\ e.fpos \in Nat
  BY LenProperties DEF Entries
<1>2. Finds(file, e)
  BY DEF Finds, Leads
<1>3. /\ p \in e.fpos .. Len(file)
      /\ \A i \in e.fpos + 1 .. p : Passes(file, e.fpos, i)
      /\ p < Len(file) => ~Passes(file, e.fpos, p + 1)
  BY <1>2 DEF ResumeEnds, StreamEnds
<1>4. ASSUME p < z
      PROVE  FALSE
  <2>1. p + 1 \in e.fpos + 1 .. z /\ p < Len(file)
    BY <1>1, <1>3, <1>4
  <2> QED BY <1>3, <2>1 DEF Leads
<1>5. p # e.fpos
  <2>1. Passes(file, e.fpos, e.fpos + 1)
    BY <1>1 DEF Passes, Leads, Frame, IsFrame
  <2> QED BY <1>3, <2>1
<1> QED BY <1>1, <1>3, <1>4, <1>5 DEF Leads

\* A resumed basket is gone on with behind its frames.
LEMMA OpenResumed ==
  ASSUME IInv, SlotsInside, UnderWay, RestFits, ResumeBasket
  PROVE  OpenFits'
<1> DEFINE b == target.bid
<1>1. /\ b \in Baskets /\ recinfo = target /\ recinfo.flag \in {"using", "stop"}
      /\ ~fdOpen /\ op = "open" /\ ctrl.ibuf = <<>> /\ ctrl.bbuf = <<>>
  BY DEF ResumeBasket, IInv, CallsFit, BasketsFit, RecinfoFits, PositionsFit, UnderWay, Opening
<1>2. PICK k \in IndexStops(idx[b]) :
        \E p \in IF k = 0 THEN {0} ELSE ResumeEnds(bkt[b], idx[b].ents[k]) :
          /\ ctrl' = OpenedCtrl(b, p, k)
          /\ flushed' = IF flushed[b].ents > 0 THEN flushed
                        ELSE [flushed EXCEPT ![b].slots = 0]
  BY DEF ResumeBasket
<1>3. PICK p \in IF k = 0 THEN {0} ELSE ResumeEnds(bkt[b], idx[b].ents[k]) :
          /\ ctrl' = OpenedCtrl(b, p, k)
          /\ flushed' = IF flushed[b].ents > 0 THEN flushed
                        ELSE [flushed EXCEPT ![b].slots = 0]
  BY <1>2
<1>4. /\ ctrl'.bid = b /\ ctrl'.fposB = p /\ ctrl'.fposI = k /\ p \in Nat
      /\ ctrl'.ibuf = <<>> /\ ctrl'.bbuf = <<>>
  <2>1. TypeOK /\ EntriesInside /\ ctrl \in Ctrls /\ now \in Nat
    BY Basics DEF IInv, PositionsFit
  <2>2. k \in 0 .. Len(idx[b].ents) /\ p \in 0 .. Len(bkt[b])
    BY <1>1, <2>1, ResumeStops
  <2>3. k \in Nat /\ p \in Nat
    BY <2>2
  <2> QED BY <1>1, <1>3, <2>1, <2>3, OpenedType
<1>5. bkt' = bkt /\ idx' = idx
  BY DEF ResumeBasket, disk
<1>6. BufferFits' /\ BufferLeads'
  BY <1>4, Places DEF BufferFits, BufferLeads
<1>7. CASE ~(flushed[b].ents > 0)
  <2>1. flushed'[b].slots = 0 /\ flushed'[b].ents = flushed[b].ents
    BY <1>1, <1>3, <1>7, Basics
  <2>2. LastLeads'
    BY <1>4, <1>7, <2>1 DEF LastLeads
  <2> QED BY <1>4, <1>6, <2>1, <2>2 DEF OpenFits
<1>8. CASE flushed[b].ents > 0
  <2> DEFINE e == idx[b].ents[k]
  <2>1. flushed' = flushed
    BY <1>3, <1>8
  <2>2. Resting
    BY <1>1 DEF Resting
  <2>3. k = idx[b].count /\ k > 0 /\ Leads(bkt[b], e, flushed[b].slots)
    BY <1>1, <1>2, <1>8, <2>2 DEF RestFits, IndexStops
  <2>4. /\ k \in 1 .. Len(idx[b].ents) /\ e \in Entries /\ e.fpos < Len(bkt[b])
        /\ bkt[b] \in Seq(Slots) /\ flushed[b].slots \in 0 .. Len(bkt[b])
    <3>1. k \in 1 .. Len(idx[b].ents)
      BY <1>1, <2>3, Basics DEF IInv, PositionsFit, EntriesInside
    <3>2. e.fpos < Len(bkt[b])
      BY <1>1, <3>1 DEF IInv, PositionsFit, EntriesInside
    <3>3. e \in Entries
      BY <1>1, <3>1, Basics, ElementOfSeq
    <3> QED BY <1>1, <3>1, <3>2, <3>3, Basics DEF SlotsInside
  <2>5. p \in ResumeEnds(bkt[b], e)
    BY <1>3, <2>3
  <2> HIDE DEF e
  <2>6. p >= flushed[b].slots /\ e.fpos < p /\ Leads(bkt[b], e, p)
    BY <2>3, <2>4, <2>5, ScanReaches
  <2>7. StreamEnd' = p /\ LastEntry' = e
    BY <1>4, <1>5, Places DEF StreamEnd, LastEntry, e
  <2>8. Leads(Streamed', e, p)
    <3>1. Streamed' = Stream(bkt[b], p, <<>>)
      BY <1>4, <1>5 DEF Streamed
    <3>2. \A i \in 1 .. p : Streamed'[i] = bkt[b][i]
      BY <1>4, <2>4, <3>1, StreamFile
    <3>3. \A i \in e.fpos + 1 .. p : i \in 1 .. p
      BY <1>4, <2>4 DEF Entries
    <3> QED BY <1>4, <2>4, <2>6, <3>2, <3>3, LeadsSame
  <2>9. LastLeads'
    BY <2>6, <2>7, <2>8 DEF LastLeads
  <2> QED BY <1>4, <1>6, <2>1, <2>6, <2>9 DEF OpenFits
<1> QED BY <1>7, <1>8

-----------------------------------------------------------------------------
(* The steps.                                                              *)

\* The past had no failure either.
LEMMA NoFailureBefore ==
  ASSUME IInv, Next, NoFailure'
  PROVE  NoFailure /\ errors' = errors
<1>0. crashes \in Nat /\ errors \in Nat
  BY Basics
<1>1. CASE Crash
  BY <1>0, <1>1 DEF Crash, NoFailure
<1>2. CASE OpenError \/ FlushError
  BY <1>0, <1>2 DEF OpenError, FlushError, NoFailure
<1>3. CASE ~Crash /\ ~OpenError /\ ~FlushError
  <2>1. UNCHANGED <<crashes, errors>>
    BY <1>3 DEF Next, RequestOpen, SearchResumable, SearchEmpty, SearchOldest,
                WriteHeaders, ResumeBasket, MarkManager, MarkRecinfo,
                RequestWrite, AppendFrame, FlushData, FlushIndex, FlushRdb, RequestExit,
                CloseIndex, CloseMgr, CloseRecinfo, SetRecycleMode, Tick, env
  <2> QED BY <2>1 DEF NoFailure
<1> QED BY <1>1, <1>2, <1>3

\* Only a flush writes to the stream files.
LEMMA SlotsStep ==
  ASSUME IInv, SlotsInside, Next
  PROVE  SlotsInside'
<1>1. CASE FlushData
  <2> SUFFICES ASSUME NEW b \in Baskets
               PROVE  flushed'[b].slots <= Len(bkt'[b])
    BY DEF SlotsInside
  <2>1. /\ Len(bkt'[b]) \in Nat /\ Len(bkt[b]) \in Nat /\ Len(bkt'[b]) >= Len(bkt[b])
        /\ flushed[b].slots \in Nat /\ flushed[b].slots <= Len(bkt[b])
    BY <1>1, FlushedData, Basics, LenProperties DEF SlotsInside
  <2>2. CASE flushed'[b].slots = flushed[b].slots
    BY <2>1, <2>2
  <2>3. CASE flushed'[b].slots # flushed[b].slots
    <3> DEFINE k == FirstFrames(ctrl.bbuf)
               n == Len(ctrl.bbuf)
               p == ctrl.fposB
    <3>1. /\ b = ctrl.bid /\ fdOpen
          /\ flushed'[b].slots = AtLeast(flushed[b].slots, p + k)
      BY <1>1, <2>3, DataWritten
    <3>2. k \in 0 .. n /\ n \in Nat /\ p \in Nat
      BY Basics, FirstFramesBound
    <3>3. p + n <= Len(bkt'[b])
      BY <1>1, <3>1, FlushedData
    <3> HIDE DEF k, n, p
    <3> QED BY <2>1, <3>1, <3>2, <3>3 DEF AtLeast
  <2> QED BY <2>2, <2>3
<1>2. CASE ~FlushData
  <2>1. bkt' = bkt
    BY <1>2 DEF Next, RequestOpen, SearchResumable, SearchEmpty, SearchOldest,
                WriteHeaders, ResumeBasket, OpenError, MarkManager, MarkRecinfo,
                RequestWrite, AppendFrame, FlushIndex, FlushRdb, FlushError, RequestExit,
                CloseIndex, CloseMgr, CloseRecinfo, Crash, SetRecycleMode, Tick, disk
  <2>2. ASSUME NEW b \in Baskets
        PROVE  flushed'[b].slots \in {flushed[b].slots, 0}
    <3>0. flushed \in [Baskets -> [slots : Nat, ents : Nat]]
      BY Basics
    <3>1. CASE WriteHeaders \/ ResumeBasket
      <4>1. flushed' = [flushed EXCEPT ![target.bid] = [slots |-> 0, ents |-> 0]]
            \/ flushed' = [flushed EXCEPT ![target.bid].slots = 0]
            \/ flushed' = flushed
        BY <3>1 DEF WriteHeaders, ResumeBasket
      <4> QED BY <3>0, <4>1
    <3>2. CASE FlushIndex
      BY <3>2, IndexWritten
    <3>3. CASE ~WriteHeaders /\ ~ResumeBasket /\ ~FlushIndex
      BY <1>2, <3>3
         DEF Next, RequestOpen, SearchResumable, SearchEmpty, SearchOldest,
             OpenError, MarkManager, MarkRecinfo, RequestWrite, AppendFrame,
             FlushRdb, FlushError, RequestExit, CloseIndex, CloseMgr, CloseRecinfo,
             Crash, SetRecycleMode, Tick
    <3> QED BY <3>1, <3>2, <3>3
  <2>3. ASSUME NEW b \in Baskets
        PROVE  flushed'[b].slots <= Len(bkt'[b])
    <3>1. flushed[b].slots <= Len(bkt[b]) /\ Len(bkt[b]) \in Nat
      BY Basics DEF SlotsInside
    <3> QED BY <2>1, <2>2, <3>1
  <2> QED BY <2>3 DEF SlotsInside
<1> QED BY <1>1, <1>2

\* A call goes on with the frame it was given and the basket it found.
LEMMA UnderWayStep ==
  ASSUME IInv, SessionFits, UnderWay, Next
  PROVE  UnderWay'
<1>0. ctrl \in Ctrls /\ CallsFit /\ BasketsFit /\ RecinfoFits
  BY Basics DEF IInv
<1> USE <1>0 DEF UnderWay
<1>a. CASE UNCHANGED <<op, cur, recinfo>> /\ pc' \notin {"resume", "closeMgr", "closeRecinfo"}
  BY <1>a
<1>b. CASE op' = "none" /\ pc' = "idle"
  BY <1>b
<1>1. CASE RequestOpen
  BY <1>1 DEF RequestOpen
<1>2. CASE SearchResumable
  BY <1>2 DEF SearchResumable, Resumable, disk
<1>3. CASE SearchEmpty
  BY <1>3, <1>a DEF SearchEmpty, disk
<1>4. CASE SearchOldest
  BY <1>4, <1>a, <1>b DEF SearchOldest, GiveUp, Return
<1>5. CASE WriteHeaders
  BY <1>5, <1>a DEF WriteHeaders, Goto
<1>6. CASE ResumeBasket
  BY <1>6, <1>a DEF ResumeBasket, Goto, disk
<1>7. CASE OpenError
  BY <1>7, <1>b DEF OpenError, GiveUp, Return
<1>8. CASE MarkManager
  BY <1>8, <1>a DEF MarkManager, Goto
<1>9. CASE MarkRecinfo
  BY <1>9, <1>b DEF MarkRecinfo, Goto, Return
<1>10. CASE RequestWrite
  <2>1. PICK f \in Slots : f.kind \in {"I", "P", "A"} /\ Wrote(f)
    BY <1>10, RequestedNow
  <2>2. IsFrame(f)
    BY <2>1 DEF IsFrame
  <2>3. pc = "idle" /\ UNCHANGED recinfo
    BY <1>10 DEF RequestWrite, disk
  <2> QED BY <2>1, <2>2, <2>3 DEF Wrote
<1>11. CASE AppendFrame
  BY <1>11, <1>b DEF AppendFrame, Return
<1>12. CASE FlushData
  BY <1>12, <1>a DEF FlushData, Goto
<1>13. CASE FlushIndex
  BY <1>13, <1>a DEF FlushIndex, Goto
<1>14. CASE FlushRdb
  BY <1>14, <1>a DEF FlushRdb, AfterFlush, Goto
<1>15. CASE FlushError
  BY <1>15, <1>b DEF FlushError, GiveUp, Return
<1>16. CASE RequestExit
  BY <1>16 DEF RequestExit, disk
<1>17. CASE CloseIndex
  <2>1. /\ UNCHANGED <<op, cur, recinfo, ctrl>> /\ pc' = "closeMgr" /\ pc = "closeIndex"
    BY <1>17 DEF CloseIndex, Goto
  <2>2. status # "closed"
    BY <2>1 DEF CallsFit, Closing
  <2>3. ctrl.bid # 0 => InUse(ctrl.bid)
    BY <2>1, <2>2 DEF SessionFits, RecinfoFits, Marking
  <2> QED BY <2>1, <2>3 DEF InUse
<1>18. CASE CloseMgr
  <2>1. CASE ctrl.bid # 0
    BY <1>18, <2>1 DEF CloseMgr, Goto, InUse
  <2>2. CASE ctrl.bid = 0
    BY <1>18, <2>2, <1>a, <1>b DEF CloseMgr, Closed, Goto, Return
  <2> QED BY <2>1, <2>2
<1>19. CASE CloseRecinfo
  BY <1>19, <1>b DEF CloseRecinfo, Closed, Goto, Return
<1>20. CASE Crash
  BY <1>20, <1>b DEF Crash, Return
<1>21. CASE SetRecycleMode
  BY <1>21 DEF SetRecycleMode, disk, call, InUse
<1>22. CASE Tick
  BY <1>22 DEF Tick, disk, call, memory, InUse
<1> QED
  BY <1>1, <1>2, <1>3, <1>4, <1>5, <1>6, <1>7, <1>8, <1>9, <1>10, <1>11,
     <1>12, <1>13, <1>14, <1>15, <1>16, <1>17, <1>18, <1>19, <1>20, <1>21, <1>22 DEF Next

\* Everything in the stream of an open basket can be found again.
LEMMA OpenStep ==
  ASSUME IInv, KeptInv, SlotsInside, UnderWay, FramesFit, NoFailure', Next
  PROVE  OpenFits'
<1>0. /\ NoFailure /\ OpenFits /\ RestFits /\ TimesFit /\ IndexKept /\ ctrl \in Ctrls
      /\ CallsFit /\ BasketsFit /\ errors' = errors /\ errors \in Nat /\ crashes \in Nat
      /\ crashes' = 0 /\ crashes = 0
  BY NoFailureBefore, Basics DEF FramesFit, NoFailure, KeptInv, IndexFits, OneCut, IInv
<1>c. ASSUME ~fdOpen'
      PROVE  OpenFits'
  BY <1>c DEF OpenFits
<1>1. CASE RequestOpen \/ SearchResumable \/ SearchEmpty \/ SearchOldest \/ OpenError
           \/ CloseMgr \/ CloseRecinfo
  <2>1. ~fdOpen
    BY <1>0, <1>1 DEF RequestOpen, SearchResumable, SearchEmpty, SearchOldest, OpenError,
                      CloseMgr, CloseRecinfo, BasketsFit, Opening
  <2>2. fdOpen' = fdOpen
    BY <1>1 DEF RequestOpen, SearchResumable, SearchEmpty, SearchOldest, OpenError,
                CloseMgr, CloseRecinfo
  <2> QED BY <2>1, <2>2, <1>c
<1>2. CASE CloseIndex \/ Crash
  BY <1>2, <1>c DEF CloseIndex, Crash
<1>5. CASE WriteHeaders
  BY <1>5, OpenBegun
<1>6. CASE ResumeBasket
  BY <1>0, <1>6, OpenResumed
<1>8. CASE MarkManager
  <2>1. /\ UNCHANGED <<bkt, idx, flushed, fdOpen, ctrl>> /\ ~Ending /\ ~EndsStream
    BY <1>8 DEF MarkManager, Ending, EndsStream, Flushing
  <2> QED BY <1>0, <2>1, OpenFrame
<1>9. CASE MarkRecinfo
  <2>1. /\ UNCHANGED <<bkt, idx, flushed, fdOpen, ctrl>> /\ ~Ending /\ ~EndsStream
    BY <1>9 DEF MarkRecinfo, Ending, EndsStream, Flushing
  <2> QED BY <1>0, <2>1, OpenFrame
<1>10. CASE RequestWrite
  <2>1. PICK f \in Slots : f.ts = now /\ f.kind \in {"I", "P", "A"} /\ Wrote(f)
    BY <1>10, RequestedNow
  <2>2. UNCHANGED <<bkt, idx, flushed, fdOpen>> /\ pc = "idle"
    BY <1>10 DEF RequestWrite, disk
  <2>3. ~Ending /\ ~EndsStream
    BY <2>2 DEF Ending, EndsStream, Flushing
  <2>4. CASE ctrl' = With(ctrl, f)
    <3>1. IsFrame(f)
      BY <2>1 DEF IsFrame
    <3> QED BY <1>0, <2>1, <2>2, <2>3, <2>4, <3>1, OpenWith
  <2>5. CASE ctrl' = FlushCtrl(f)
    BY <1>0, <2>2, <2>3, <2>5, RollType, OpenFrame
  <2>6. CASE ctrl' = RollCtrl(f) /\ op' = "roll" /\ pc' = "data"
    <3> SUFFICES ASSUME fdOpen
                 PROVE  OpenFits'
      BY <1>c, <2>2
    <3> DEFINE g == [f EXCEPT !.kind = "END"]
    <3>1. /\ ctrl'.bid = ctrl.bid /\ ctrl'.fposB = ctrl.fposB
          /\ ctrl'.bbuf \in {ctrl.bbuf, Append(ctrl.bbuf, g)}
      BY <1>0, <2>6, RollType, RollFields
    <3>2. g \in Slots /\ ctrl.bbuf \in Seq(Slots)
      BY Basics DEF Slots
    <3> HIDE DEF g
    <3>3. \A i \in DOMAIN ctrl.bbuf : IsFrame(ctrl.bbuf[i])
      BY <1>0, <2>3 DEF OpenFits, BufferFits
    <3>4. \A i \in DOMAIN Append(ctrl.bbuf, g) :
             IsFrame(Append(ctrl.bbuf, g)[i]) \/ i = Len(Append(ctrl.bbuf, g))
      BY <3>2, <3>3, AppendSeq, Places
    <3>5. BufferFits'
      BY <2>6, <3>1, <3>3, <3>4 DEF BufferFits, EndsStream
    <3>6. Ending'
      BY <2>6 DEF Ending, Flushing
    <3> QED BY <1>0, <2>2, <3>1, <3>5, <3>6 DEF OpenFits
  <2> QED BY <2>1, <2>4, <2>5, <2>6 DEF Wrote
<1>11. CASE AppendFrame
  <2>1. PICK f \in Slots : f = cur /\ f.ts = now /\ IsFrame(f)
    BY <1>0, <1>11 DEF AppendFrame, CallsFit, TimesFit, UnderWay
  <2>2. ctrl' = With(ctrl, f) /\ UNCHANGED <<bkt, idx, flushed, fdOpen>>
    BY <1>11, <2>1 DEF AppendFrame, disk
  <2>3. ~Ending /\ ~EndsStream
    BY <1>11 DEF AppendFrame, Ending, EndsStream, Flushing
  <2> QED BY <1>0, <2>1, <2>2, <2>3, OpenWith
<1>12. CASE FlushData
  BY <1>0, <1>12, OpenFlushed
<1>13. CASE FlushIndex
  BY <1>0, <1>13, OpenIndexed
<1>14. CASE FlushRdb
  <2>1. /\ ctrl'.bid = ctrl.bid /\ ctrl'.fposI = ctrl.fposI /\ ctrl'.ibuf = ctrl.ibuf
        /\ ctrl'.bbuf = ctrl.bbuf /\ ctrl'.fposB = ctrl.fposB
    BY <1>14, FlushedRows
  <2>2. UNCHANGED <<bkt, idx, flushed, fdOpen>> /\ ~EndsStream
    BY <1>14 DEF FlushRdb, EndsStream
  <2>3. Ending => Ending'
    BY <1>14 DEF FlushRdb, AfterFlush, Goto, Ending, Flushing
  <2> QED BY <1>0, <2>1, <2>2, <2>3, OpenFrame
<1>15. CASE FlushError
  <2>1. ~fdOpen /\ fdOpen' = fdOpen
    BY <1>0, <1>15 DEF FlushError
  <2> QED BY <1>c, <2>1
<1>16. CASE RequestExit
  <2>1. UNCHANGED <<bkt, idx, flushed, fdOpen, ctrl>> /\ ~Ending /\ ~EndsStream
    BY <1>16 DEF RequestExit, disk, Ending, EndsStream, Flushing
  <2> QED BY <1>0, <2>1, OpenFrame
<1>17. CASE SetRecycleMode \/ Tick
  <2>1. /\ UNCHANGED <<bkt, idx, flushed, fdOpen, ctrl>> /\ ~Ending /\ ~EndsStream
    BY <1>17 DEF SetRecycleMode, Tick, disk, memory, Ending, EndsStream, Flushing
  <2> QED BY <1>0, <2>1, OpenFrame
<1> QED
  BY <1>1, <1>2, <1>5, <1>6, <1>8, <1>9, <1>10, <1>11, <1>12, <1>13, <1>14, <1>15,
     <1>16, <1>17 DEF Next

\* The basket at rest does not change.
LEMMA RestFrame ==
  ASSUME RestFits, UNCHANGED <<bkt, idx, flushed, recinfo>>, Resting' => Resting
  PROVE  RestFits'
BY DEF RestFits

\* What the next start goes on with can be found again.
LEMMA RestStep ==
  ASSUME IInv, KeptInv, UnderWay, FramesFit, NoFailure', Next
  PROVE  RestFits'
<1>0. /\ NoFailure /\ OpenFits /\ RestFits /\ ctrl \in Ctrls
      /\ CallsFit /\ BasketsFit /\ PositionsFit /\ RecinfoFits /\ errors' = errors
      /\ errors \in Nat /\ crashes \in Nat /\ crashes' = 0 /\ crashes = 0
      /\ SessionFits /\ IndexKept
  BY NoFailureBefore, Basics DEF FramesFit, NoFailure, IInv, KeptInv, IndexFits, OneCut
<1>o. ASSUME fdOpen'
      PROVE  RestFits'
  BY <1>o DEF RestFits, Resting
<1>a. ASSUME UNCHANGED <<bkt, idx, flushed, recinfo, fdOpen>>,
             pc \notin {"closeMgr", "closeRecinfo"}
      PROVE  RestFits'
  BY <1>0, <1>a, RestFrame DEF Resting
<1>b. ASSUME UNCHANGED <<bkt, idx, flushed, recinfo, fdOpen>>, op = "exit"
      PROVE  RestFits'
  BY <1>0, <1>b, RestFrame DEF Resting
<1>1. CASE RequestOpen \/ SearchResumable \/ SearchEmpty \/ SearchOldest \/ OpenError
  BY <1>1, <1>a DEF RequestOpen, SearchResumable, SearchEmpty, SearchOldest, OpenError, disk
<1>2. CASE WriteHeaders \/ ResumeBasket
  BY <1>2, <1>o DEF WriteHeaders, ResumeBasket
<1>3. CASE MarkManager \/ MarkRecinfo
  <2>1. fdOpen'
    BY <1>0, <1>3 DEF MarkManager, MarkRecinfo, BasketsFit, Marking
  <2> QED BY <2>1, <1>o
<1>4. CASE RequestWrite \/ AppendFrame \/ FlushRdb \/ FlushError \/ RequestExit
           \/ SetRecycleMode \/ Tick
  BY <1>4, <1>a DEF RequestWrite, AppendFrame, FlushRdb, FlushError, RequestExit,
                    SetRecycleMode, Tick, HasData, disk, memory
<1>5. CASE FlushData
  <2>1. pc = "data" /\ UNCHANGED <<idx, recinfo, fdOpen>>
    BY <1>5 DEF FlushData
  <2>2. CASE fdOpen
    BY <2>1, <2>2, <1>o
  <2>3. CASE ~fdOpen
    <3>1. UNCHANGED <<bkt, flushed>>
      BY <1>5, <2>3, DataWritten
    <3> QED BY <2>1, <3>1, <1>a
  <2> QED BY <2>2, <2>3
<1>6. CASE FlushIndex
  <2>1. pc = "index" /\ UNCHANGED <<bkt, recinfo, fdOpen>>
    BY <1>6 DEF FlushIndex
  <2>2. CASE fdOpen
    BY <2>1, <2>2, <1>o
  <2>3. CASE ~fdOpen
    <3>1. UNCHANGED <<idx, flushed>>
      BY <1>6, <2>3, IndexWritten
    <3> QED BY <2>1, <3>1, <1>a
  <2> QED BY <2>2, <2>3
<1>7. CASE CloseIndex
  <2>1. /\ UNCHANGED <<bkt, flushed, recinfo, ctrl, op, target>> /\ ~fdOpen'
        /\ pc = "closeIndex" /\ pc' = "closeMgr"
    BY <1>7 DEF CloseIndex, Goto
  <2>2. CASE ~fdOpen
    <3>1. idx' = idx
      BY <1>7, <2>2 DEF CloseIndex
    <3> QED BY <1>0, <2>1, <2>2, <3>1, RestFrame DEF Resting
  <2>3. CASE fdOpen
    <3>1. ctrl.bid \in Baskets /\ InUse(ctrl.bid) /\ ctrl.bbuf = <<>>
      BY <1>0, <2>1, <2>3 DEF BasketsFit, RecinfoFits, PositionsFit, Marking
    <3>2. CASE op = "roll"
      <4>1. ctrl.bid # 0
        BY <3>1 DEF Baskets
      <4> QED BY <2>1, <3>2, <4>1 DEF RestFits, Resting
    <3>3. CASE op # "roll"
      <4> DEFINE b == ctrl.bid
                 k == ctrl.fposI
      <4>1. /\ idx'[b].count = k /\ idx'[b].ents = idx[b].ents
        BY <1>7, <2>3, <3>1, Basics DEF CloseIndex
      <4>2. SUFFICES ASSUME flushed[b].ents > 0
                     PROVE  k > 0 /\ Leads(bkt[b], LastEntry, flushed[b].slots)
        BY <2>1, <3>1, <4>1, <4>2 DEF RestFits, InUse, LastEntry
      <4>3. /\ flushed[b].slots <= ctrl.fposB
            /\ LastEntry.fpos < StreamEnd /\ Leads(Streamed, LastEntry, StreamEnd)
        BY <1>0, <2>3, <3>3, <4>2 DEF OpenFits, LastLeads, Ending
      <4>4. k > 0 /\ k \in Nat /\ flushed[b].slots \in Nat /\ ctrl.fposB \in Nat
        BY <1>0, <2>3, <3>1, <4>2, Basics DEF IndexKept
      <4>5. LastEntry \in Entries /\ bkt[b] \in Seq(Slots)
        BY <2>3, <4>4, EntryTypes
      <4>6. StreamEnd = ctrl.fposB /\ Streamed = Stream(bkt[b], ctrl.fposB, <<>>)
        BY <3>1, <4>4, Places DEF StreamEnd, Streamed
      <4>7. \A i \in 1 .. ctrl.fposB : Streamed[i] = bkt[b][i]
        BY <4>4, <4>5, <4>6, StreamFile
      <4>8. Leads(bkt[b], LastEntry, ctrl.fposB)
        <5>1. \A i \in LastEntry.fpos + 1 .. ctrl.fposB : i \in 1 .. ctrl.fposB
          BY <4>4, <4>5 DEF Entries
        <5> QED BY <4>3, <4>4, <4>5, <4>6, <4>7, <5>1, LeadsSame
      <4>9. \A i \in LastEntry.fpos + 1 .. flushed[b].slots :
              i \in LastEntry.fpos + 1 .. ctrl.fposB
        BY <4>3, <4>4, <4>5 DEF Entries
      <4> QED BY <4>4, <4>8, <4>9 DEF Leads
    <3> QED BY <3>2, <3>3
  <2> QED BY <2>2, <2>3
<1>8. CASE CloseMgr
  <2>1. /\ UNCHANGED <<bkt, idx, flushed, recinfo, fdOpen>> /\ pc = "closeMgr"
    BY <1>8 DEF CloseMgr
  <2>2. CASE ctrl.bid # 0
    <3>1. UNCHANGED <<ctrl, op>> /\ pc' = "closeRecinfo"
      BY <1>8, <2>2 DEF CloseMgr, Goto
    <3> QED BY <1>0, <2>1, <3>1, RestFrame DEF Resting
  <2>3. CASE ctrl.bid = 0
    BY <1>0, <2>1, <2>3, RestFrame DEF Resting
  <2> QED BY <2>2, <2>3
<1>9. CASE CloseRecinfo
  <2>1. /\ UNCHANGED <<bkt, idx, flushed, fdOpen>> /\ pc = "closeRecinfo"
        /\ recinfo' = [bid |-> ctrl.bid, flag |-> ClosedFlag]
    BY <1>9 DEF CloseRecinfo
  <2>2. ctrl.bid \in Baskets /\ ctrl.bid # 0 /\ op \in {"exit", "roll"}
    BY <1>0, <2>1 DEF BasketsFit, CallsFit, Closing, Baskets
  <2>3. recinfo = [bid |-> ctrl.bid, flag |-> "using"]
    BY <2>1, <2>2 DEF UnderWay, InUse
  <2>4. CASE op = "exit"
    BY <1>0, <2>1, <2>3, <2>4 DEF RestFits, Resting
  <2>5. CASE op = "roll"
    BY <2>1, <2>5 DEF RestFits, Resting, ClosedFlag
  <2> QED BY <2>2, <2>4, <2>5
<1>10. CASE Crash
  BY <1>0, <1>10 DEF Crash
<1> QED
  BY <1>1, <1>2, <1>3, <1>4, <1>5, <1>6, <1>7, <1>8, <1>9, <1>10 DEF Next

FramesInv == SlotsInside /\ UnderWay /\ FramesFit

\* A formatted disk holds no frames.
LEMMA InitFrames ==
  ASSUME Init
  PROVE  FramesInv
<1>1. /\ \A b \in Baskets : flushed[b].slots = 0 /\ bkt[b] = <<>>
      /\ fdOpen = FALSE /\ op = "none" /\ pc = "idle" /\ recinfo.flag = "empty"
  BY DEF Init
<1> QED BY <1>1, Places DEF FramesInv, SlotsInside, UnderWay, FramesFit, OpenFits, RestFits, Resting

\* A step that changes nothing keeps it.
LEMMA StutterFrames ==
  ASSUME FramesInv, UNCHANGED vars
  PROVE  FramesInv'
<1>1. /\ UNCHANGED <<mgr, recinfo, bkt, idx, ctrl, fdOpen, op, pc, cur, flushed, crashes, errors>>
  BY DEF vars
<1>2. SlotsInside' /\ UnderWay'
  BY <1>1 DEF FramesInv, SlotsInside, UnderWay, InUse
<1>3. OpenFits => OpenFits'
  <2>1. EndsStream' <=> EndsStream
    BY <1>1 DEF EndsStream
  <2>2. Ending' <=> Ending
    BY <1>1 DEF Ending
  <2>3. BufferFits => BufferFits'
    BY <1>1, <2>1 DEF BufferFits
  <2>4. LastLeads => LastLeads'
    BY <1>1 DEF LastLeads, LastEntry, Streamed, StreamEnd
  <2>5. BufferLeads => BufferLeads'
    BY <1>1 DEF BufferLeads, Streamed, StreamEnd
  <2> QED BY <1>1, <2>2, <2>3, <2>4, <2>5 DEF OpenFits
<1>4. RestFits => RestFits'
  BY <1>1 DEF RestFits, Resting
<1>5. NoFailure' => NoFailure
  BY <1>1 DEF NoFailure
<1> QED BY <1>2, <1>3, <1>4, <1>5 DEF FramesInv, FramesFit

\* The invariant of the frames, for any number of baskets, channels and frames.
LEMMA FramesInvariance == Spec => []FramesInv
<1>1. Init => FramesInv
  BY InitFrames
<1>2. IInv /\ KeptInv /\ FramesInv /\ [Next]_vars => FramesInv'
  <2> SUFFICES ASSUME IInv, KeptInv, FramesInv, [Next]_vars
               PROVE  FramesInv'
    OBVIOUS
  <2>1. CASE Next
    <3>1. SlotsInside' /\ UnderWay'
      BY <2>1, SlotsStep, UnderWayStep DEF FramesInv, KeptInv
    <3>2. FramesFit'
      BY <2>1, OpenStep, RestStep DEF FramesInv, FramesFit
    <3> QED BY <3>1, <3>2 DEF FramesInv
  <2>2. CASE UNCHANGED vars
    BY <2>2, StutterFrames
  <2> QED BY <2>1, <2>2
<1> QED BY <1>1, <1>2, Invariance, KeptInvariance, PTL DEF Spec

\* BKTREC_open goes on behind the frames in a stream file, and the writes of a
\* session behind one another, however often recording is stopped and started, as
\* long as the power stays and no call fails.
THEOREM FramesSurvive == Spec => [](NoFailure => FramesKept)
<1>1. FramesInv => (NoFailure => FramesKept)
  <2> SUFFICES ASSUME FramesInv, NoFailure, fdOpen
               PROVE  ctrl.fposB >= flushed[ctrl.bid].slots
    BY DEF FramesKept
  <2>1. flushed[ctrl.bid].slots <= ctrl.fposB
    BY DEF FramesInv, FramesFit, OpenFits
  <2> QED BY <2>1
<1> QED BY <1>1, FramesInvariance, PTL
-----------------------------------------------------------------------------
(* The times baskets are recycled by.                                      *)

\* A basket's video times are those of the video frames written to it.
LEMMA VideoTimesOf ==
  ASSUME NEW b, NEW c, NEW t
  PROVE  t \in VideoTimes(b, c) <=>
           \E i \in 1 .. flushed[b].slots : VideoOf(bkt[b][i], c) /\ bkt[b][i].ts = t
BY DEF VideoTimes, VideoOf

\* They are the same as long as the frames are.
LEMMA VideoTimesSame ==
  ASSUME NEW b, NEW c, flushed'[b].slots = flushed[b].slots, bkt'[b] = bkt[b]
  PROVE  VideoTimes(b, c)' = VideoTimes(b, c)
BY DEF VideoTimes

\* A step that leaves the times of the open basket as they are.
LEMMA TimedFrame ==
  ASSUME SessionTimes, bkt' = bkt,
         Timed' => /\ Timed /\ flushed'[ctrl.bid].slots = flushed[ctrl.bid].slots
                   /\ ctrl'.bid = ctrl.bid /\ ctrl'.fposB = ctrl.fposB
                   /\ ctrl'.bbuf = ctrl.bbuf /\ ctrl'.bktT2 = ctrl.bktT2
  PROVE  SessionTimes'
<1> SUFFICES ASSUME Timed'
             PROVE  SessionTimes'
  BY DEF SessionTimes
<1>1. Streamed' = Streamed /\ StreamEnd' = StreamEnd
  BY DEF Streamed, StreamEnd
<1>2. \A c \in Channels : VideoTimes(ctrl.bid, c)' = VideoTimes(ctrl.bid, c)
  BY VideoTimesSame DEF VideoTimes
<1>3. ASSUME NEW c \in Channels, LastTime(c)
      PROVE  LastTime(c)'
  BY <1>1, <1>2, <1>3 DEF LastTime, VideoTimes
<1> QED BY <1>3 DEF SessionTimes

\* The baskets at rest keep their times.
LEMMA RecordedFrame ==
  ASSUME RecordedTimesTrue, mgr' = mgr,
         \A b \in Baskets :
           \/ fdOpen' /\ b = ctrl'.bid
           \/ mgr[b].flag \notin {"full", "stop"}
           \/ /\ ~(fdOpen /\ b = ctrl.bid)
              /\ bkt'[b] = bkt[b] /\ flushed'[b].slots = flushed[b].slots
  PROVE  RecordedTimesTrue'
<1> SUFFICES ASSUME NEW b \in Baskets, NEW c \in Channels,
                    ~(fdOpen' /\ b = ctrl'.bid), mgr[b].flag \in {"full", "stop"},
                    mgr[b].t2[c] # 0
             PROVE  /\ mgr[b].t2[c] \in VideoTimes(b, c)'
                    /\ \A t \in VideoTimes(b, c)' : t <= mgr[b].t2[c]
  BY DEF RecordedTimesTrue
<1>1. /\ ~(fdOpen /\ b = ctrl.bid)
      /\ VideoTimes(b, c)' = VideoTimes(b, c)
  BY VideoTimesSame
<1> QED BY <1>1 DEF RecordedTimesTrue

\* A slot that is put at the end of the buffer.
LEMMA LastTimeAppend ==
  ASSUME IInv, TimesFit, fdOpen, NEW f \in Slots, f.ts = now, NEW c \in Channels,
         ctrl'.bid = ctrl.bid, ctrl'.fposB = ctrl.fposB,
         ctrl'.bbuf = Append(ctrl.bbuf, f), UNCHANGED <<bkt, flushed>>,
         \/ VideoOf(f, c) /\ ctrl'.bktT2[c] = now
         \/ ~VideoOf(f, c) /\ ctrl'.bktT2[c] = ctrl.bktT2[c] /\ LastTime(c)
  PROVE  LastTime(c)'
<1> DEFINE b == ctrl.bid
           p == ctrl.fposB
           buf == ctrl.bbuf
           z == p + Len(buf)
<1>1. /\ buf \in Seq(Slots) /\ Len(buf) \in Nat /\ now \in Nat /\ z \in Nat
      /\ bkt[b] \in Seq(Slots) /\ p \in 0 .. Len(bkt[b]) /\ p \in Nat
      /\ UpTo(bkt[b], now) /\ UpTo(buf, now)
  <2>1. /\ buf \in Seq(Slots) /\ Len(buf) \in Nat /\ now \in Nat
        /\ p \in Nat /\ z \in Nat
    BY Basics
  <2>2. bkt[b] \in Seq(Slots) /\ p \in 0 .. Len(bkt[b]) /\ b \in Baskets
    BY EntryTypes
  <2> QED BY <2>1, <2>2 DEF TimesFit
<1>2. /\ DOMAIN Append(buf, f) = 1 .. Len(buf) + 1 /\ Append(buf, f)[Len(buf) + 1] = f
      /\ \A i \in 1 .. Len(buf) : Append(buf, f)[i] = buf[i]
      /\ DOMAIN buf = 1 .. Len(buf) /\ Len(Append(buf, f)) = Len(buf) + 1
  BY <1>1, AppendSeq, Places
<1>3. /\ StreamEnd = z /\ StreamEnd' = z + 1
      /\ Streamed = Stream(bkt[b], p, buf) /\ Streamed' = Stream(bkt[b], p, Append(buf, f))
  BY <1>1, <1>2 DEF StreamEnd, Streamed
<1>4. /\ \A i \in 1 .. z : Streamed'[i] = Streamed[i]
      /\ Streamed'[z + 1] = f
  <2> HIDE DEF b, p, buf
  <2>1. \A i \in 1 .. p + Len(buf) :
            Stream(bkt[b], p, Append(buf, f))[i] = Stream(bkt[b], p, buf)[i]
    BY ONLY <1>1, f \in Slots, StreamStays, Zenon
  <2>2. Stream(bkt[b], p, Append(buf, f))[p + Len(buf) + 1] = f
    BY ONLY <1>1, f \in Slots, StreamAdds, Zenon
  <2> QED BY ONLY <1>3, <2>1, <2>2, Zenon DEF z
<1>5. \A i \in 1 .. z : Streamed[i].ts <= now
  BY <1>1, <1>3, StreamUpTo
<1>6. VideoTimes(b, c)' = VideoTimes(b, c)
  BY VideoTimesSame DEF VideoTimes
<1>7. CASE VideoOf(f, c) /\ ctrl'.bktT2[c] = now
  <2>1. \E i \in DOMAIN ctrl'.bbuf :
          VideoOf(ctrl'.bbuf[i], c) /\ ctrl'.bbuf[i].ts = ctrl'.bktT2[c]
    <3>1. Len(buf) + 1 \in 1 .. Len(buf) + 1
      BY ONLY <1>1
    <3>2. Len(buf) + 1 \in DOMAIN ctrl'.bbuf /\ ctrl'.bbuf[Len(buf) + 1] = f
      BY ONLY <1>2, <3>1, ctrl'.bbuf = Append(ctrl.bbuf, f)
    <3> QED BY ONLY <1>7, <3>2, f.ts = now
  <2>2. ASSUME NEW i \in 1 .. z + 1
        PROVE  Streamed'[i].ts <= now
    <3>1. CASE i \in 1 .. z
      BY <1>4, <1>5, <3>1
    <3>2. CASE i = z + 1
      BY <1>1, <1>4, <3>2
    <3> QED BY <1>1, <3>1, <3>2
  <2> QED BY <1>3, <1>7, <2>1, <2>2 DEF LastTime
<1>8. CASE ~VideoOf(f, c) /\ ctrl'.bktT2[c] = ctrl.bktT2[c] /\ LastTime(c)
  <2>1. \/ ctrl.bktT2[c] \in VideoTimes(b, c)
        \/ \E i \in DOMAIN ctrl'.bbuf :
             VideoOf(ctrl'.bbuf[i], c) /\ ctrl'.bbuf[i].ts = ctrl.bktT2[c]
    BY <1>1, <1>2, <1>8 DEF LastTime
  <2>2. ASSUME NEW i \in 1 .. z + 1, VideoOf(Streamed'[i], c)
        PROVE  Streamed'[i].ts <= ctrl.bktT2[c]
    <3>1. i # z + 1
      BY <1>4, <1>8, <2>2
    <3>2. i \in 1 .. z
      BY <1>1, <3>1
    <3> QED BY <1>3, <1>4, <1>8, <2>2, <3>2 DEF LastTime
  <2> QED BY <1>3, <1>6, <1>8, <2>1, <2>2 DEF LastTime
<1> QED BY <1>7, <1>8

\* The buffer that goes to the file.
LEMMA LastTimeFlushed ==
  ASSUME IInv, OpenFits, FlushData, fdOpen, NEW c \in Channels, LastTime(c)
  PROVE  LastTime(c)'
<1>1. /\ ctrl'.bid = ctrl.bid /\ ctrl'.bbuf = <<>> /\ ctrl'.bktT2 = ctrl.bktT2
      /\ ctrl'.fposB = ctrl.fposB + Len(ctrl.bbuf)
  BY FlushedData, DataWritten, Basics DEF FlushData
<1>2. CASE UNCHANGED <<bkt, ctrl, flushed>>
  <2>1. Streamed' = Streamed /\ StreamEnd' = StreamEnd
    BY <1>2 DEF Streamed, StreamEnd
  <2> QED BY <1>2, <2>1 DEF LastTime, VideoTimes
<1>3. CASE ctrl.bbuf # <<>>
  <2> DEFINE b == ctrl.bid
             p == ctrl.fposB
             buf == ctrl.bbuf
             n == Len(buf)
             k == FirstFrames(buf)
             s == flushed[b].slots
  <2>1. /\ b \in Baskets /\ bkt[b] \in Seq(Slots) /\ buf \in Seq(Slots)
        /\ p \in 0 .. Len(bkt[b]) /\ p \in Nat /\ n \in Nat /\ s \in Nat /\ s <= p
        /\ DOMAIN buf = 1 .. n
    BY EntryTypes, Basics, Places DEF OpenFits
  <2>2. PICK aligned \in BOOLEAN : bkt'[b] = Overwrite(bkt[b], p, buf, aligned)
    BY <1>3, DataWritten
  <2>3. flushed'[b].slots = IF IsFrame(buf[1]) THEN AtLeast(s, p + k) ELSE s
    BY <1>3, DataWritten
  <2>4. /\ \A i \in 1 .. p : bkt'[b][i] = bkt[b][i]
        /\ \A i \in 1 .. n : bkt'[b][p + i] = buf[i]
        /\ \A i \in 1 .. p + n : Streamed'[i] = Streamed[i]
    <3>1. /\ Streamed' = Stream(Overwrite(bkt[b], p, buf, aligned), p + n, <<>>)
          /\ Streamed = Stream(bkt[b], p, buf)
      BY <1>1, <2>2 DEF Streamed
    <3>2. /\ \A i \in 1 .. p : Overwrite(bkt[b], p, buf, aligned)[i] = bkt[b][i]
          /\ \A i \in 1 .. n : Overwrite(bkt[b], p, buf, aligned)[p + i] = buf[i]
      BY ONLY <2>1, aligned \in BOOLEAN, FlushPlaces, Zenon DEF n
    <3>f. \A i \in 1 .. p + n :
             Stream(Overwrite(bkt[b], p, buf, aligned), p + n, <<>>)[i] = Stream(bkt[b], p, buf)[i]
      BY ONLY <2>1, aligned \in BOOLEAN, FlushKeepsStream, Zenon DEF n
    <3>3. \A i \in 1 .. p + n : Streamed'[i] = Streamed[i]
      BY ONLY <3>1, <3>f
    <3> QED BY <2>2, <3>2, <3>3
  <2>5. StreamEnd' = p + n /\ StreamEnd = p + n
    BY <1>1, <2>1, Places DEF StreamEnd
  <2>6. k \in Nat /\ \A j \in 1 .. n : (\A i \in 1 .. j : IsFrame(buf[i])) => j <= k
    BY <2>1, FirstFramesBound
  <2>7. \A j \in 1 .. n : VideoOf(buf[j], c) => \A i \in 1 .. j : IsFrame(buf[i])
    BY <2>1 DEF OpenFits, BufferFits, VideoOf, IsFrame
  <2> HIDE DEF p, buf, n, k, s
  <2>8. ctrl.bktT2[c] \in VideoTimes(b, c)'
    <3>1. CASE ctrl.bktT2[c] \in VideoTimes(b, c)
      <4>1. PICK i \in 1 .. s : VideoOf(bkt[b][i], c) /\ bkt[b][i].ts = ctrl.bktT2[c]
        BY <3>1, VideoTimesOf DEF s
      <4>2. i \in 1 .. flushed'[b].slots /\ i \in 1 .. p
        BY <2>1, <2>3, <2>6 DEF AtLeast
      <4>3. bkt'[b][i] = bkt[b][i]
        BY <2>4, <4>2
      <4>4. VideoOf(bkt'[b][i], c) /\ bkt'[b][i].ts = ctrl.bktT2[c]
        BY <4>1, <4>3
      <4> QED BY <1>1, <4>2, <4>4 DEF VideoTimes, VideoOf
    <3>2. ASSUME NEW j \in 1 .. n, VideoOf(buf[j], c), buf[j].ts = ctrl.bktT2[c]
          PROVE  ctrl.bktT2[c] \in VideoTimes(b, c)'
      <4>1. j <= k /\ 1 \in 1 .. j /\ IsFrame(buf[1])
        BY <2>1, <2>6, <2>7, <3>2
      <4>2. p + j \in 1 .. flushed'[b].slots
        BY <2>1, <2>3, <2>6, <4>1 DEF AtLeast
      <4>3. bkt'[b][p + j] = buf[j]
        BY <2>4
      <4>4. VideoOf(bkt'[b][p + j], c) /\ bkt'[b][p + j].ts = ctrl.bktT2[c]
        BY <3>2, <4>3
      <4> QED BY <1>1, <4>2, <4>4 DEF VideoTimes, VideoOf
    <3> QED BY <2>1, <3>1, <3>2 DEF LastTime, buf
  <2>9. \A i \in 1 .. StreamEnd' : VideoOf(Streamed'[i], c) => Streamed'[i].ts <= ctrl.bktT2[c]
    BY <2>4, <2>5 DEF LastTime
  <2> QED BY <1>1, <2>8, <2>9 DEF LastTime, VideoTimes
<1> QED BY <1>2, <1>3, DataWritten

\* A frame of now in the buffer is the last of its channel.
LEMMA TimedWith ==
  ASSUME IInv, TimesFit, SessionTimes, NEW f \in Slots, f.ts = now,
         f.kind \in {"I", "P", "A"}, ctrl' = With(ctrl, f), fdOpen,
         UNCHANGED <<bkt, flushed>>
  PROVE  SessionTimes'
<1>1. /\ ctrl'.bid = ctrl.bid /\ ctrl'.fposB = ctrl.fposB
      /\ ctrl'.bbuf = Append(ctrl.bbuf, f)
      /\ ctrl'.bktT2 = IF f.kind = "A" THEN ctrl.bktT2 ELSE [ctrl.bktT2 EXCEPT ![f.ch] = now]
      /\ ctrl.bktT2 \in [Channels -> Nat]
  BY Basics, WithType, WithFields DEF Times
<1>2. /\ flushed[ctrl.bid].slots <= ctrl.fposB
      /\ \A c \in Channels : ctrl.bktT2[c] # 0 => LastTime(c)
  BY DEF SessionTimes, Timed
<1>3. ASSUME NEW c \in Channels, ctrl'.bktT2[c] # 0
      PROVE  LastTime(c)'
  <2>1. \/ VideoOf(f, c) /\ ctrl'.bktT2[c] = now
        \/ ~VideoOf(f, c) /\ ctrl'.bktT2[c] = ctrl.bktT2[c]
    BY <1>1 DEF VideoOf
  <2>2. ctrl'.bktT2[c] = ctrl.bktT2[c] => LastTime(c)
    BY <1>2, <1>3
  <2> QED BY <1>1, <2>1, <2>2, LastTimeAppend
<1> QED BY <1>1, <1>2, <1>3 DEF SessionTimes

\* Nothing is in the open basket that is later than its last times.
LEMMA SessionTimesStep ==
  ASSUME IInv, KeptInv, FramesInv, FramesInv', NoFailure', SessionTimes, Next
  PROVE  SessionTimes'
<1>0. /\ NoFailure /\ OpenFits /\ OpenFits' /\ TimesFit /\ SessionFits /\ UnderWay
      /\ ctrl \in Ctrls /\ CallsFit /\ BasketsFit /\ errors' = errors /\ errors \in Nat
      /\ crashes \in Nat /\ crashes' = 0 /\ crashes = 0
  BY NoFailureBefore, Basics DEF FramesInv, FramesFit, NoFailure, KeptInv, IInv
<1>c. ASSUME ~fdOpen', pc' # "closeMgr"
      PROVE  SessionTimes'
  BY <1>c DEF SessionTimes, Timed
<1>f. ASSUME UNCHANGED <<bkt, flushed, fdOpen, ctrl>>, pc' # "closeMgr"
      PROVE  SessionTimes'
  BY <1>f, TimedFrame DEF Timed
<1>1. CASE RequestOpen \/ SearchResumable \/ SearchEmpty \/ SearchOldest \/ OpenError
  <2>1. ~fdOpen /\ fdOpen' = fdOpen
    BY <1>0, <1>1 DEF RequestOpen, SearchResumable, SearchEmpty, SearchOldest, OpenError,
                      BasketsFit, Opening
  <2>2. pc' # "closeMgr"
    BY <1>1 DEF RequestOpen, SearchResumable, SearchEmpty, SearchOldest, OpenError, GiveUp, Return
  <2> QED BY <2>1, <2>2, <1>c
<1>2. CASE WriteHeaders \/ ResumeBasket
  <2>1. /\ fdOpen' = TRUE /\ pc \in Opening
    BY <1>2 DEF WriteHeaders, ResumeBasket, Opening
  <2>2. ctrl'.bktT2 = ctrl.bktT2
    BY <1>0, <1>2, OpenedFields DEF WriteHeaders, ResumeBasket
  <2>3. \A c \in Channels : ctrl'.bktT2[c] = 0
    BY <1>0, <2>1, <2>2 DEF SessionFits, NoTimes
  <2> QED BY <1>0, <2>1, <2>3 DEF SessionTimes, OpenFits
<1>3. CASE MarkManager \/ MarkRecinfo
  BY <1>3, <1>f DEF MarkManager, MarkRecinfo, Goto, Return
<1>4. CASE RequestWrite
  <2>1. PICK f \in Slots : f.ts = now /\ f.kind \in {"I", "P", "A"} /\ Wrote(f)
    BY <1>4, RequestedNow
  <2>2. UNCHANGED <<bkt, flushed, fdOpen>> /\ pc = "idle"
    BY <1>4 DEF RequestWrite, disk
  <2>3. pc' # "closeMgr"
    BY <2>1, <2>2 DEF Wrote
  <2>4. CASE ~fdOpen
    BY <2>2, <2>3, <2>4, <1>c
  <2>5. CASE fdOpen /\ ctrl' = With(ctrl, f)
    BY <1>0, <2>1, <2>2, <2>5, TimedWith
  <2>6. CASE fdOpen /\ ctrl' = FlushCtrl(f)
    BY <1>0, <2>2, <2>3, <2>6, RollType, RollFields, TimedFrame DEF Timed
  <2>7. CASE fdOpen /\ ctrl' = RollCtrl(f)
    <3> DEFINE g == [f EXCEPT !.kind = "END"]
    <3>1. /\ ctrl'.bid = ctrl.bid /\ ctrl'.fposB = ctrl.fposB /\ ctrl'.bktT2 = ctrl.bktT2
          /\ ctrl'.bbuf = IF f.kind = "A" THEN ctrl.bbuf ELSE Append(ctrl.bbuf, g)
      BY <1>0, <2>7, RollType, RollFields
    <3>2. g \in Slots /\ g.ts = now /\ \A c : ~VideoOf(g, c)
      BY <2>1 DEF Slots, VideoOf
    <3> HIDE DEF g
    <3>3. CASE f.kind = "A"
      BY <2>2, <2>3, <2>7, <3>1, <3>3, TimedFrame DEF Timed
    <3>4. CASE f.kind # "A"
      <4>1. \A c \in Channels : ctrl'.bktT2[c] # 0 => LastTime(c)'
        BY <1>0, <2>2, <2>7, <3>1, <3>2, <3>4, LastTimeAppend DEF SessionTimes, Timed
      <4> QED BY <2>2, <2>7, <3>1, <4>1 DEF SessionTimes, Timed
    <3> QED BY <3>3, <3>4
  <2> QED BY <2>1, <2>4, <2>5, <2>6, <2>7 DEF Wrote
<1>5. CASE AppendFrame
  <2>1. PICK f \in Slots : f = cur /\ f.ts = now /\ IsFrame(f)
    BY <1>0, <1>5 DEF AppendFrame, CallsFit, TimesFit, UnderWay
  <2>2. ctrl' = With(ctrl, f) /\ UNCHANGED <<bkt, flushed, fdOpen>> /\ pc' = "idle"
    BY <1>5, <2>1 DEF AppendFrame, disk, Return
  <2>3. CASE ~fdOpen
    BY <2>2, <2>3, <1>c
  <2>4. CASE fdOpen
    BY <1>0, <2>1, <2>2, <2>4, TimedWith DEF IsFrame
  <2> QED BY <2>3, <2>4
<1>6. CASE FlushData
  <2>1. fdOpen' = fdOpen /\ pc' = "index"
    BY <1>6 DEF FlushData, Goto
  <2>2. CASE ~fdOpen
    BY <2>1, <2>2, <1>c
  <2>3. CASE fdOpen
    <3>1. ctrl'.bktT2 = ctrl.bktT2
      BY <1>0, <1>6 DEF FlushData, Ctrls
    <3>2. \A c \in Channels : ctrl'.bktT2[c] # 0 => LastTime(c)'
      BY <1>0, <1>6, <2>3, <3>1, LastTimeFlushed DEF SessionTimes, Timed
    <3> QED BY <1>0, <2>1, <2>3, <3>2 DEF SessionTimes, OpenFits
  <2> QED BY <2>2, <2>3
<1>7. CASE FlushIndex
  <2>1. bkt' = bkt /\ fdOpen' = fdOpen /\ pc' = "rdb"
    BY <1>7 DEF FlushIndex, Goto
  <2>2. /\ ctrl'.bid = ctrl.bid /\ ctrl'.fposB = ctrl.fposB /\ ctrl'.bbuf = ctrl.bbuf
        /\ ctrl'.bktT2 = ctrl.bktT2
    BY <1>0, <1>7, FlushedIndex DEF FlushIndex, Ctrls
  <2>3. fdOpen => flushed'[ctrl.bid].slots = flushed[ctrl.bid].slots
    BY <1>0, <1>7, IndexWritten DEF BasketsFit
  <2> QED BY <2>1, <2>2, <2>3, TimedFrame DEF Timed
<1>8. CASE FlushRdb
  <2>1. UNCHANGED <<bkt, flushed, fdOpen>> /\ pc' # "closeMgr"
    BY <1>8 DEF FlushRdb, AfterFlush, Goto
  <2> QED BY <1>8, <2>1, FlushedRows, RowsFields, TimedFrame DEF Timed
<1>9. CASE FlushError
  <2>1. ~fdOpen /\ fdOpen' = fdOpen /\ pc' # "closeMgr"
    BY <1>0, <1>9 DEF FlushError, GiveUp, Return
  <2> QED BY <1>c, <2>1
<1>10. CASE RequestExit
  BY <1>10, <1>f DEF RequestExit, disk
<1>11. CASE CloseIndex
  <2>1. UNCHANGED <<bkt, flushed, ctrl, status>> /\ pc = "closeIndex"
    BY <1>11 DEF CloseIndex, Goto
  <2>2. ~fdOpen => ctrl.bid = 0
    BY <1>0, <2>1 DEF SessionFits, CallsFit, Closing
  <2>3. Timed' => Timed
    BY <1>11, <2>1, <2>2 DEF Timed, CloseIndex
  <2> QED BY <2>1, <2>3, TimedFrame
<1>12. CASE CloseMgr \/ CloseRecinfo
  <2>1. ~fdOpen /\ fdOpen' = fdOpen /\ pc' # "closeMgr"
    BY <1>0, <1>12 DEF CloseMgr, CloseRecinfo, BasketsFit, Closed, Goto, Return
  <2> QED BY <1>c, <2>1
<1>13. CASE Crash
  BY <1>0, <1>13 DEF Crash
<1>14. CASE SetRecycleMode \/ Tick
  BY <1>14, <1>f DEF SetRecycleMode, Tick, disk, memory, call
<1> QED
  BY <1>1, <1>2, <1>3, <1>4, <1>5, <1>6, <1>7, <1>8, <1>9, <1>10, <1>11, <1>12, <1>13,
     <1>14 DEF Next

\* The times of a basket that is closed are those of its frames.
LEMMA ClosedTimes ==
  ASSUME IInv, SessionTimes, pc = "closeMgr", ctrl.bid # 0, NEW c \in Channels,
         ctrl.bktT2[c] # 0
  PROVE  /\ ctrl.bktT2[c] \in VideoTimes(ctrl.bid, c)
         /\ \A t \in VideoTimes(ctrl.bid, c) : t <= ctrl.bktT2[c]
<1> DEFINE b == ctrl.bid
           p == ctrl.fposB
<1>1. /\ b \in Baskets /\ bkt[b] \in Seq(Slots) /\ p \in Nat /\ flushed[b].slots \in Nat
      /\ ctrl.bbuf = <<>>
  <2>1. b \in Baskets
    BY Basics DEF Ctrls, Baskets
  <2> QED BY <2>1, Basics DEF IInv, PositionsFit
<1>2. flushed[b].slots <= p /\ LastTime(c)
  BY DEF SessionTimes, Timed
<1>3. StreamEnd = p /\ Streamed = Stream(bkt[b], p, <<>>)
  BY <1>1, Places DEF StreamEnd, Streamed
<1>4. \A i \in 1 .. p : Streamed[i] = bkt[b][i]
  BY <1>1, <1>3, StreamFile
<1>5. ctrl.bktT2[c] \in VideoTimes(b, c)
  BY <1>1, <1>2, Places DEF LastTime
<1>6. ASSUME NEW t \in VideoTimes(b, c)
      PROVE  t <= ctrl.bktT2[c]
  <2>1. PICK i \in 1 .. flushed[b].slots : VideoOf(bkt[b][i], c) /\ bkt[b][i].ts = t
    BY VideoTimesOf
  <2>2. i \in 1 .. p
    BY <1>1, <1>2
  <2> QED BY <1>2, <1>3, <1>4, <2>1, <2>2 DEF LastTime
<1> QED BY <1>5, <1>6

\* The times in the manager file are those of the frames.
LEMMA RecordedStep ==
  ASSUME IInv, NoFailure, NoFailure', SessionTimes, RecordedTimesTrue, Next
  PROVE  RecordedTimesTrue'
<1>0. /\ ctrl \in Ctrls /\ CallsFit /\ BasketsFit /\ RecinfoFits
      /\ mgr \in [Baskets -> [flag : Flags, t2 : Times]]
      /\ crashes \in Nat /\ crashes' = 0 /\ crashes = 0
  BY Basics DEF NoFailure, IInv, TypeOK
<1>f. ASSUME UNCHANGED <<mgr, bkt, flushed, fdOpen>>, fdOpen => ctrl'.bid = ctrl.bid
      PROVE  RecordedTimesTrue'
  BY <1>f, RecordedFrame
<1>1. CASE RequestOpen \/ SearchResumable \/ SearchEmpty \/ SearchOldest \/ OpenError
  <2>1. ~fdOpen /\ UNCHANGED <<mgr, bkt, flushed, fdOpen>>
    BY <1>0, <1>1 DEF RequestOpen, SearchResumable, SearchEmpty, SearchOldest, OpenError,
                      BasketsFit, Opening, disk
  <2> QED BY <2>1, <1>f
<1>2. CASE WriteHeaders \/ ResumeBasket
  <2>1. /\ fdOpen' = TRUE /\ ~fdOpen /\ UNCHANGED <<mgr, bkt>> /\ target.bid \in Baskets
    BY <1>0, <1>2 DEF WriteHeaders, ResumeBasket, BasketsFit, Opening, disk
  <2>2. ctrl'.bid = target.bid
    <3>1. CASE WriteHeaders
      BY <3>1, BegunAt
    <3>2. CASE ResumeBasket
      <4>1. PICK k \in Nat, p \in Nat : ctrl' = OpenedCtrl(target.bid, p, k)
        BY <3>2, ResumedAt
      <4>2. ctrl \in Ctrls /\ now \in Nat
        BY Basics
      <4>3. OpenedCtrl(target.bid, p, k).bid = target.bid
        BY ONLY <2>1, <4>2, k \in Nat, p \in Nat, OpenedType
      <4> QED BY ONLY <4>1, <4>3
    <3> QED BY <1>2, <3>1, <3>2
  <2>3. \A b \in Baskets \ {target.bid} : flushed'[b] = flushed[b]
    BY <1>2, <2>1, Basics DEF WriteHeaders, ResumeBasket
  <2> QED BY <2>1, <2>2, <2>3, RecordedFrame
<1>3. CASE MarkManager
  <2>1. /\ fdOpen' /\ UNCHANGED <<bkt, flushed, ctrl, fdOpen>>
        /\ \A b \in Baskets \ {ctrl.bid} : mgr'[b] = mgr[b]
    BY <1>0, <1>3 DEF MarkManager, BasketsFit, Marking
  <2>2. ASSUME NEW b \in Baskets, NEW c \in Channels
        PROVE  VideoTimes(b, c)' = VideoTimes(b, c)
    BY <2>1, VideoTimesSame
  <2> QED BY <2>1, <2>2 DEF RecordedTimesTrue
<1>4. CASE MarkRecinfo \/ RequestExit \/ SetRecycleMode \/ Tick
  BY <1>4, <1>f DEF MarkRecinfo, RequestExit, SetRecycleMode, Tick, disk, memory
<1>5. CASE RequestWrite \/ AppendFrame \/ FlushRdb
  BY <1>5, <1>f, BidKept DEF RequestWrite, AppendFrame, FlushRdb, disk
<1>6. CASE FlushError
  BY <1>6, <1>f DEF FlushError, disk
<1>7. CASE FlushData
  <2>1. UNCHANGED <<mgr, fdOpen>> /\ ctrl'.bid = ctrl.bid
    BY <1>7, FlushedData DEF FlushData
  <2>2. \A b \in Baskets : \/ fdOpen /\ b = ctrl.bid
                           \/ bkt'[b] = bkt[b] /\ flushed'[b] = flushed[b]
    BY <1>7, DataWritten
  <2> QED BY <2>1, <2>2, RecordedFrame
<1>8. CASE FlushIndex
  <2>1. UNCHANGED <<mgr, bkt, fdOpen>> /\ ctrl'.bid = ctrl.bid
    BY <1>8, FlushedIndex DEF FlushIndex
  <2>2. \A b \in Baskets : flushed'[b].slots = flushed[b].slots
    BY <1>8, IndexWritten
  <2> QED BY <2>1, <2>2, RecordedFrame
<1>9. CASE CloseIndex
  <2>1. UNCHANGED <<mgr, bkt, flushed, ctrl>> /\ pc = "closeIndex"
    BY <1>9 DEF CloseIndex
  <2>2. fdOpen => mgr[ctrl.bid].flag = "using"
    BY <1>0, <2>1 DEF RecinfoFits, Marking
  <2>3. \A b \in Baskets : (fdOpen /\ b = ctrl.bid) => mgr[b].flag \notin {"full", "stop"}
    BY <2>2
  <2> QED BY <2>1, <2>3, RecordedFrame
<1>10. CASE CloseMgr
  <2>1. ~fdOpen /\ UNCHANGED <<bkt, flushed, fdOpen>> /\ pc = "closeMgr"
    BY <1>0, <1>10 DEF CloseMgr, BasketsFit
  <2>2. CASE ctrl.bid = 0
    <3>1. mgr' = mgr
      BY <1>10, <2>2 DEF CloseMgr
    <3> QED BY <2>1, <3>1, <1>f
  <2>3. CASE ctrl.bid # 0
    <3>1. mgr' = [mgr EXCEPT ![ctrl.bid] = [flag |-> ClosedFlag, t2 |-> ctrl.bktT2]]
      BY <1>10, <2>3 DEF CloseMgr
    <3>2. ctrl.bid \in Baskets
      BY <1>0, <2>3 DEF Ctrls, Baskets
    <3>3. SUFFICES ASSUME NEW b \in Baskets, NEW c \in Channels,
                          mgr'[b].flag \in {"full", "stop"}, mgr'[b].t2[c] # 0
                   PROVE  /\ mgr'[b].t2[c] \in VideoTimes(b, c)'
                          /\ \A t \in VideoTimes(b, c)' : t <= mgr'[b].t2[c]
      BY DEF RecordedTimesTrue
    <3>4. VideoTimes(b, c)' = VideoTimes(b, c)
      BY <2>1, VideoTimesSame
    <3>5. CASE b = ctrl.bid
      <4>1. mgr'[b].t2 = ctrl.bktT2
        BY <1>0, <3>1, <3>2, <3>5
      <4> QED BY <2>1, <2>3, <3>3, <3>4, <3>5, <4>1, ClosedTimes
    <3>6. CASE b # ctrl.bid
      <4>1. mgr'[b] = mgr[b]
        BY <1>0, <3>1, <3>6
      <4> QED BY <2>1, <3>3, <3>4, <4>1 DEF RecordedTimesTrue
    <3> QED BY <3>5, <3>6
  <2> QED BY <2>2, <2>3
<1>11. CASE CloseRecinfo
  <2>1. ~fdOpen /\ UNCHANGED <<mgr, bkt, flushed, fdOpen>>
    BY <1>0, <1>11 DEF CloseRecinfo, BasketsFit
  <2> QED BY <2>1, <1>f
<1>12. CASE Crash
  BY <1>0, <1>12 DEF Crash
<1> QED
  BY <1>1, <1>2, <1>3, <1>4, <1>5, <1>6, <1>7, <1>8, <1>9, <1>10, <1>11, <1>12 DEF Next

\* A formatted disk has no times.
LEMMA RecordedInvariance == Spec => []RecordedFit
<1>1. Init => RecordedFit
  BY DEF Init, RecordedFit, SessionTimes, Timed, RecordedTimesTrue
<1>2. ASSUME IInv, KeptInv, FramesInv, FramesInv', RecordedFit, [Next]_vars
      PROVE  RecordedFit'
  <2>1. CASE Next
    <3> SUFFICES ASSUME NoFailure'
                 PROVE  SessionTimes' /\ RecordedTimesTrue'
      BY DEF RecordedFit
    <3>1. NoFailure /\ SessionTimes /\ RecordedTimesTrue
      BY <1>2, <2>1, NoFailureBefore DEF RecordedFit
    <3> QED BY <1>2, <2>1, <3>1, SessionTimesStep, RecordedStep
  <2>2. CASE UNCHANGED vars
    <3>1. /\ UNCHANGED <<mgr, bkt, ctrl, fdOpen, pc, flushed, crashes, errors>>
      BY <2>2 DEF vars
    <3>2. SessionTimes => SessionTimes'
      BY <3>1, TimedFrame DEF Timed
    <3>3. RecordedTimesTrue => RecordedTimesTrue'
      BY <3>1, RecordedFrame
    <3>4. NoFailure' => NoFailure
      BY <3>1 DEF NoFailure
    <3> QED BY <1>2, <3>2, <3>3, <3>4 DEF RecordedFit
  <2> QED BY <1>2, <2>1, <2>2
<1> QED BY <1>1, <1>2, Invariance, KeptInvariance, FramesInvariance, PTL DEF Spec

\* The times baskets are recycled by are those of their frames: as long as the
\* power stays and no call fails, the last time BKTREC_SaveFull or BKTREC_exit
\* writes for a channel is that of its last video frame in the stream file.
THEOREM TimesAlwaysTrue == Spec => [](NoFailure => RecordedTimesTrue)
<1>1. RecordedFit => (NoFailure => RecordedTimesTrue)
  BY DEF RecordedFit
<1> QED BY <1>1, RecordedInvariance, PTL

-----------------------------------------------------------------------------
(* The mode "not recycle".                                                 *)

\* A basket that is begun anew is empty, or may be recycled.
LEMMA FreshStep ==
  ASSUME IInv, FreshFits, Next
  PROVE  FreshFits'
<1>0. /\ ctrl \in Ctrls /\ CallsFit /\ BasketsFit /\ RecinfoFits
      /\ mgr \in [Baskets -> [flag : Flags, t2 : Times]]
      /\ flushed \in [Baskets -> [slots : Nat, ents : Nat]]
  BY Basics DEF IInv, TypeOK
<1>f. ASSUME mgr' = mgr, \A b \in Baskets : flushed'[b].ents = flushed[b].ents, pc' # "header"
      PROVE  FreshFits'
  BY <1>f DEF FreshFits
<1>1. CASE RequestOpen \/ SearchResumable \/ OpenError \/ MarkRecinfo \/ RequestExit
           \/ SetRecycleMode \/ Tick \/ FlushError \/ AppendFrame \/ FlushRdb
           \/ CloseIndex \/ CloseRecinfo \/ Crash
  <2>1. mgr' = mgr /\ flushed' = flushed
    BY <1>1 DEF RequestOpen, SearchResumable, OpenError, MarkRecinfo, RequestExit,
                SetRecycleMode, Tick, FlushError, AppendFrame, FlushRdb, CloseIndex,
                CloseRecinfo, Crash, disk
  <2>2. pc' # "header"
    BY <1>1 DEF RequestOpen, SearchResumable, OpenError, MarkRecinfo, RequestExit,
                SetRecycleMode, Tick, FlushError, AppendFrame, FlushRdb, AfterFlush,
                CloseIndex, CloseRecinfo, Closed, Crash, GiveUp, Return, Goto, call
  <2> QED BY <2>1, <2>2, <1>f
<1>2. CASE SearchEmpty
  <2>1. UNCHANGED <<mgr, flushed>> /\ mgr[target'.bid].flag = "empty"
    BY <1>2 DEF SearchEmpty, Empty, disk
  <2> QED BY <2>1 DEF FreshFits
<1>3. CASE SearchOldest
  <2>1. UNCHANGED <<mgr, flushed, recycle>>
    BY <1>3 DEF SearchOldest
  <2>2. pc' = "header" => recycle = "on"
    BY <1>3 DEF SearchOldest, GiveUp, Return
  <2> QED BY <2>1, <2>2 DEF FreshFits
<1>4. CASE WriteHeaders
  <2>1. /\ mgr' = mgr /\ pc' # "header"
        /\ \A b \in Baskets : flushed'[b].ents = flushed[b].ents \/ flushed'[b].ents = 0
    BY <1>0, <1>4 DEF WriteHeaders, Goto
  <2> QED BY <2>1 DEF FreshFits
<1>5. CASE ResumeBasket
  <2>1. /\ mgr' = mgr /\ pc' # "header"
        /\ \A b \in Baskets : flushed'[b].ents = flushed[b].ents
    BY <1>0, <1>5 DEF ResumeBasket, Goto, disk
  <2> QED BY <2>1, <1>f
<1>6. CASE MarkManager
  <2>1. /\ flushed' = flushed /\ pc' # "header"
        /\ \A b \in Baskets : mgr'[b].flag = "empty" => mgr[b].flag = "empty"
    BY <1>0, <1>6 DEF MarkManager, Goto
  <2> QED BY <2>1 DEF FreshFits
<1>7. CASE RequestWrite
  <2>1. PICK f \in Slots : Wrote(f)
    BY <1>7, Requested
  <2>2. UNCHANGED <<mgr, flushed>> /\ pc = "idle"
    BY <1>7 DEF RequestWrite, disk
  <2>3. pc' # "header"
    BY <2>1, <2>2 DEF Wrote
  <2> QED BY <2>2, <2>3, <1>f
<1>8. CASE FlushData
  <2>1. mgr' = mgr /\ pc' # "header" /\ \A b \in Baskets : flushed'[b].ents = flushed[b].ents
    BY <1>8, DataWritten DEF FlushData, Goto
  <2> QED BY <2>1, <1>f
<1>9. CASE FlushIndex
  <2>1. mgr' = mgr /\ pc' # "header" /\ pc = "index"
    BY <1>9 DEF FlushIndex, Goto
  <2>2. \A b \in Baskets : mgr[b].flag = "empty" => flushed'[b] = flushed[b]
    <3>1. fdOpen => mgr[ctrl.bid].flag = "using"
      BY <1>0, <2>1 DEF RecinfoFits, Marking
    <3> QED BY <1>9, <3>1, IndexWritten
  <2> QED BY <2>1, <2>2 DEF FreshFits
<1>10. CASE CloseMgr
  <2>1. flushed' = flushed /\ pc' # "header"
    BY <1>10 DEF CloseMgr, Closed, Goto, Return
  <2>2. \A b \in Baskets : mgr'[b].flag = "empty" => mgr[b].flag = "empty"
    BY <1>0, <1>10 DEF CloseMgr, ClosedFlag
  <2> QED BY <2>1, <2>2 DEF FreshFits
<1> QED
  BY <1>1, <1>2, <1>3, <1>4, <1>5, <1>6, <1>7, <1>8, <1>9, <1>10 DEF Next

\* A basket begun anew is empty, or may be recycled.
LEMMA FreshInvariance == Spec => []FreshFits
<1>1. Init => FreshFits
  BY DEF Init, FreshFits
<1>2. IInv /\ FreshFits /\ [Next]_vars => FreshFits'
  <2>1. FreshFits /\ UNCHANGED vars => FreshFits'
    BY DEF FreshFits, vars
  <2> QED BY <2>1, FreshStep
<1> QED BY <1>1, <1>2, Invariance, PTL DEF Spec

\* What a basket holds stays in place, unless it is begun anew.
StaysInPlace(b) ==
  /\ flushed'[b].ents >= flushed[b].ents
  /\ flushed'[b].slots >= flushed[b].slots
  /\ \A i \in 1 .. flushed[b].slots : bkt'[b][i] = bkt[b][i]

\* Only the writing of a header takes the frames of a basket with an index.
LEMMA BasketStays ==
  ASSUME IInv, NoFailure, FramesInv, Next, NEW b \in Baskets, flushed[b].ents > 0,
         ~(WriteHeaders /\ target.bid = b)
  PROVE  StaysInPlace(b)
<1>0. /\ OpenFits /\ \A d \in Baskets : flushed[d].slots \in Nat /\ flushed[d].ents \in Nat
  BY Basics DEF FramesInv, FramesFit
<1>f. ASSUME UNCHANGED <<bkt, flushed>>
      PROVE  StaysInPlace(b)
  BY <1>0, <1>f DEF StaysInPlace
<1>1. CASE WriteHeaders \/ ResumeBasket
  <2>1. bkt'[b] = bkt[b] /\ flushed'[b] = flushed[b]
    BY <1>1, Basics DEF WriteHeaders, ResumeBasket, disk
  <2> QED BY <1>0, <2>1 DEF StaysInPlace
<1>3. CASE FlushData
  <2>1. CASE UNCHANGED <<bkt, ctrl, flushed>>
    BY <2>1, <1>f
  <2>2. CASE ctrl.bbuf # <<>> /\ fdOpen
    <3> DEFINE p == ctrl.fposB
               buf == ctrl.bbuf
               s == flushed[ctrl.bid].slots
    <3>1. /\ b # ctrl.bid => bkt'[b] = bkt[b] /\ flushed'[b] = flushed[b]
          /\ flushed'[b].ents = flushed[b].ents
      BY <1>3, <2>2, DataWritten
    <3>2. PICK aligned \in BOOLEAN : bkt'[ctrl.bid] = Overwrite(bkt[ctrl.bid], p, buf, aligned)
      BY <1>3, <2>2, DataWritten
    <3>3. /\ ctrl.bid \in Baskets /\ bkt[ctrl.bid] \in Seq(Slots)
          /\ p \in 0 .. Len(bkt[ctrl.bid]) /\ p \in Nat /\ buf \in Seq(Slots)
          /\ s \in Nat /\ s <= p
      BY <1>0, <2>2, EntryTypes, Basics DEF OpenFits
    <3>4. \A i \in 1 .. p : bkt'[ctrl.bid][i] = bkt[ctrl.bid][i]
      <4>1. /\ \A i \in 1 .. p : Overwrite(bkt[ctrl.bid], p, buf, aligned)[i]
                                  = bkt[ctrl.bid][i]
        BY ONLY <3>3, aligned \in BOOLEAN, FlushPlaces, Zenon
      <4> QED BY ONLY <3>2, <4>1
    <3>5. flushed'[ctrl.bid].slots >= s
      <4>1. FirstFrames(buf) \in Nat
        BY <3>3, FirstFramesBound
      <4>2. flushed'[ctrl.bid].slots =
              IF IsFrame(buf[1]) THEN AtLeast(s, p + FirstFrames(buf)) ELSE s
        BY <1>3, <2>2, DataWritten
      <4> QED BY <3>3, <4>1, <4>2 DEF AtLeast
    <3>6. \A i \in 1 .. s : i \in 1 .. p
      BY <3>3
    <3> QED BY <1>0, <3>1, <3>4, <3>5, <3>6 DEF StaysInPlace
  <2> QED BY <1>3, <2>1, <2>2, DataWritten
<1>4. CASE FlushIndex
  <2>1. CASE UNCHANGED <<idx, ctrl, flushed>>
    BY <1>4, <2>1, <1>f DEF FlushIndex
  <2>2. CASE ctrl.ibuf # <<>> /\ fdOpen
    <3>0. ctrl.ibuf # <<>> /\ bkt' = bkt
      BY <1>4, <2>2 DEF FlushIndex
    <3>1. /\ flushed'[b].slots = flushed[b].slots
          /\ b # ctrl.bid => flushed'[b] = flushed[b]
          /\ flushed'[ctrl.bid].ents = AtLeast(flushed[ctrl.bid].ents, ctrl.fposI + Len(ctrl.ibuf))
      <4>1. /\ \A d \in Baskets : flushed'[d].slots = flushed[d].slots
            /\ \A d \in Baskets \ {ctrl.bid} : flushed'[d] = flushed[d]
            /\ flushed'[ctrl.bid].ents =
                 AtLeast(flushed[ctrl.bid].ents, ctrl.fposI + Len(ctrl.ibuf))
        BY ONLY IInv, <1>4, <3>0, IndexWritten, Zenon
      <4> QED BY ONLY <4>1, b \in Baskets, Zenon
    <3>2. flushed[ctrl.bid].ents \in Nat /\ ctrl.fposI + Len(ctrl.ibuf) \in Nat
      <4>1. ctrl.bid \in Baskets
        BY <2>2, EntryTypes
      <4>2. ctrl.fposI \in Nat /\ Len(ctrl.ibuf) \in Nat
        BY Basics
      <4> QED BY <1>0, <4>1, <4>2
    <3>3. flushed'[ctrl.bid].ents >= flushed[ctrl.bid].ents
      BY ONLY <3>1, <3>2 DEF AtLeast
    <3> QED BY <1>0, <3>0, <3>1, <3>3 DEF StaysInPlace
  <2> QED BY <1>4, <2>1, <2>2, IndexWritten
<1>5. CASE ~WriteHeaders /\ ~ResumeBasket /\ ~FlushData /\ ~FlushIndex
  <2>1. UNCHANGED <<bkt, flushed>>
    BY <1>5 DEF Next, RequestOpen, SearchResumable, SearchEmpty, SearchOldest, OpenError,
                MarkManager, MarkRecinfo, RequestWrite, AppendFrame, FlushRdb, FlushError,
                RequestExit, CloseIndex, CloseMgr, CloseRecinfo, Crash, SetRecycleMode,
                Tick, disk, memory
  <2> QED BY <2>1, <1>f
<1> QED BY <1>1, <1>3, <1>4, <1>5

\* What a step in the mode "not recycle" keeps of the baskets with an index.
KeepsFrames ==
  recycle = "once" =>
    \A b \in Baskets : flushed[b].ents > 0 =>
      /\ flushed'[b].ents >= flushed[b].ents
      /\ flushed'[b].slots >= flushed[b].slots
      /\ \A i \in 1 .. flushed[b].slots : bkt'[b][i] = bkt[b][i]

\* ... which in the mode "not recycle" happens to empty baskets alone.
LEMMA KeepsStep ==
  ASSUME IInv, NoFailure, FramesInv, FreshFits, Next
  PROVE  KeepsFrames
<1> SUFFICES ASSUME recycle = "once", NEW b \in Baskets, flushed[b].ents > 0
             PROVE  StaysInPlace(b)
  BY DEF KeepsFrames, StaysInPlace
<1>1. ASSUME WriteHeaders
      PROVE  target.bid # b
  <2>1. target.bid \in Baskets /\ mgr[target.bid].flag = "empty"
    BY <1>1 DEF WriteHeaders, FreshFits, IInv, BasketsFit
  <2> QED BY <2>1 DEF FreshFits
<1> QED BY <1>1, BasketStays

\* There are no more failures than the bounds allow.
LEMMA FailuresBounded ==
  ASSUME MaxCrashes = 0, MaxErrors = 0
  PROVE  Spec => []NoFailure
<1>1. Init => NoFailure
  BY DEF Init, NoFailure
<1>2. NoFailure /\ IInv /\ [Next]_vars => NoFailure'
  <2> SUFFICES ASSUME NoFailure, IInv, [Next]_vars
               PROVE  NoFailure'
    OBVIOUS
  <2>1. CASE UNCHANGED vars
    BY <2>1 DEF NoFailure, vars
  <2>2. CASE Next /\ ~UNCHANGED <<crashes, errors>>
    <3>1. Crash \/ OpenError \/ FlushError
      BY <2>2 DEF Next, RequestOpen, SearchResumable, SearchEmpty, SearchOldest,
                  WriteHeaders, ResumeBasket, MarkManager, MarkRecinfo,
                  RequestWrite, AppendFrame, FlushData, FlushIndex, FlushRdb, RequestExit,
                  CloseIndex, CloseMgr, CloseRecinfo, SetRecycleMode, Tick, env
    <3>2. ~Crash /\ ~OpenError
      BY DEF NoFailure, Crash, OpenError
    <3>3. errors' = errors /\ crashes' = crashes
      BY <3>1, <3>2 DEF FlushError, NoFailure
    <3> QED BY <2>2, <3>3
  <2>3. CASE UNCHANGED <<crashes, errors>>
    BY <2>3 DEF NoFailure
  <2> QED BY <2>1, <2>2, <2>3
<1> QED BY <1>1, <1>2, Invariance, PTL DEF Spec

\* BKT_RECYCLE_ONCE, "not recycle": without power cuts and failed calls, nothing
\* that was recorded to a basket with an index entry is written over, whatever
\* stops, starts and rolls happen while the mode is set.
THEOREM OnceAlwaysKeeps ==
  ASSUME MaxCrashes = 0, MaxErrors = 0
  PROVE  Spec => OnceKeepsFrames
<1>1. IInv /\ NoFailure /\ FramesInv /\ FreshFits /\ [Next]_vars =>
        [recycle = "once" =>
           \A b \in Baskets : flushed[b].ents > 0 =>
             /\ flushed'[b].ents >= flushed[b].ents
             /\ flushed'[b].slots >= flushed[b].slots
             /\ \A i \in 1 .. flushed[b].slots : bkt'[b][i] = bkt[b][i]]_vars
  BY KeepsStep DEF KeepsFrames
<1> QED
  BY <1>1, Invariance, FailuresBounded, FramesInvariance, FreshInvariance, PTL
     DEF Spec, OnceKeepsFrames

=============================================================================
