---------------------------- MODULE BasketFormat ----------------------------
(***************************************************************************)
(* What the recorder of src/basket_rec.c reads back from its own files: the*)
(* calendar of a time stamp, the end of an index file and of a stream file *)
(* that were not closed, the time the manager file gives a basket, and the *)
(* rows of the day files (rdb) a recycled basket takes with it.            *)
(*                                                                         *)
(* A stream file (.bkt) is a sequence of slots, one per frame, and an index*)
(* file (.idx) a sequence of entries; a position is the number of slots or *)
(* entries before it.                                                      *)
(***************************************************************************)
EXTENDS Integers, Sequences, FiniteSetsExt

CONSTANTS TicksPerSec, TicksPerMin, TicksPerDay, \* the clock's units
          MinutesPerHour                         \* prev_min holds tm_min

ASSUME ClockAssumption ==
  /\ {TicksPerSec, TicksPerMin, TicksPerDay, MinutesPerHour} \subseteq Nat \ {0}
  /\ TicksPerMin % TicksPerSec = 0 /\ TicksPerDay % TicksPerMin = 0

Sec(t) == t \div TicksPerSec
Usec(t) == t % TicksPerSec
Day(t) == t \div TicksPerDay
DayOfMinute(m) == m \div (TicksPerDay \div TicksPerMin)
DayOfSec(s) == s \div (TicksPerDay \div TicksPerSec)
Minute(t) == t \div TicksPerMin                   \* names a row of a day file
MinuteOfHour(t) == Minute(t) % MinutesPerHour

\* The slots of a stream file: a frame, the BASKET_END record, and the remains
\* of a frame whose first bytes were overwritten.
Frame(c, t, k) == [ch |-> c, ts |-> t, kind |-> k]
IsFrame(s) == s.kind \in {"I", "P", "A"}
Gap(s) == [s EXCEPT !.kind = "gap"]

\* A write of s at position p.  What lay behind it stays; when the sizes differ
\* (aligned = FALSE), its first slot can no longer be read.
Overwrite(file, p, s, aligned) ==
  LET rest == SubSeq(file, p + Len(s) + 1, Len(file))
      tail == IF aligned \/ rest = <<>> THEN rest
              ELSE [rest EXCEPT ![1] = Gap(@)]
  IN  SubSeq(file, 1, p) \o s \o tail

\* Where the scan of an index file that was not closed stops: before the first
\* entry that goes back in time or in position.  (A set with one member.)
EntryFollows(ents, i) ==
  i > 1 => ents[i].ts >= ents[i-1].ts /\ ents[i].fpos >= ents[i-1].fpos

\* A mistaken form (a mutant of PROJECT.json): the last entry is written over.
IndexEndsShort(ents) ==
  IF ents = <<>> THEN {0}
  ELSE {k \in 0 .. Len(ents) - 1 :
          /\ \A i \in 1 .. k + 1 : EntryFollows(ents, i)
          /\ k + 1 < Len(ents) => ~EntryFollows(ents, k + 2)}

IndexEnds(ents) ==
  {k \in 0 .. Len(ents) : /\ \A i \in 1 .. k : EntryFollows(ents, i)
                          /\ k < Len(ents) => ~EntryFollows(ents, k + 1)}

\* Where the scan of a stream file stops when it starts at position p.  A frame
\* ends the scan when its seconds have not advanced and its microseconds are
\* smaller.
GoesBack(t, prev) == Sec(t) <= Sec(prev) /\ Usec(t) < Usec(prev)

Passes(file, p, i) == /\ IsFrame(file[i])
                      /\ i > p + 1 => ~GoesBack(file[i].ts, file[i-1].ts)

\* A mistaken form: the frames behind the last key frame are written over.
StreamEndsNoScan(file, p) == {p}

StreamEnds(file, p) ==
  {q \in p .. Len(file) : /\ \A i \in p + 1 .. q : Passes(file, p, i)
                          /\ q < Len(file) => ~Passes(file, p, q + 1)}

\* Where a scan that starts at the frame of entry e may stop.  If that frame was
\* overwritten the entry points into the middle of other bytes, and the scan may
\* find no header there.
Finds(file, e) == /\ e.fpos < Len(file)
                  /\ file[e.fpos + 1] = Frame(e.ch, e.ts, "I")

ResumeEnds(file, e) ==
  StreamEnds(file, e.fpos) \cup (IF Finds(file, e) THEN {} ELSE {e.fpos})

\* BKT_GetMinTS: the earliest of the channels' last times, MaxTS if there is none.
MaxTS == 2147483647

MinTS(t2) == Min({MaxTS} \cup {Sec(t2[c]) : c \in {d \in DOMAIN t2 : Sec(t2[d]) # 0}})

\* A mistaken form: the rows of the day itself stay.
RemoveRDBOldDays(rdb, b, s) == {r \in rdb : DayOfMinute(r.min) >= DayOfSec(s)}

\* The day files without the days before that of time stamp s (in seconds), and
\* without the rows of basket b on that day.
RemoveRDB(rdb, b, s) ==
  {r \in rdb : \/ DayOfMinute(r.min) > DayOfSec(s)
               \/ DayOfMinute(r.min) = DayOfSec(s) /\ r.bid # b}
=============================================================================
