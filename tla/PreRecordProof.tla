--------------------------- MODULE PreRecordProof ---------------------------
(***************************************************************************)
(* What is proved of the pre-record list (module PreRecord) for every set  *)
(* of channels and of pre-record times, and without bounds.                *)
(*                                                                         *)
(* Three inductive invariants, each on top of the one before.  OrderInv    *)
(* holds whatever the threads do: the mutex keeps the list whole while the *)
(* recording thread works on it, and a frame moves from the encoder        *)
(* through the list to the basket with every other of its channel either   *)
(* before or after it.  StartInv and ChainInv need the manager's calls not *)
(* to overlap the handling of a frame (~ Overlap): with an overlap the     *)
(* save state that is stored back may be out of date.                      *)
(***************************************************************************)
EXTENDS PreRecord, SequenceTheorems, FiniteSetTheorems, TLAPS

Entry == [f : FrameType, session : Nat, cut : BOOLEAN]
Waits == {0, DefaultPreSec} \cup PreSecs

Types ==
  /\ TypeOK
  /\ out \in Seq(Entry) /\ now \in Nat
  /\ missed \in [Channels -> BOOLEAN] /\ cut \in [Channels -> BOOLEAN]
  /\ maxPre \in Waits
  /\ rpc = "push" => frame \in FrameType
  /\ mpc = "presec" => call.arg \in PreSecs

\* The mutex is the recording thread's from its push to the last due frame.
LockFits == rpc \in {"check", "write", "store"} => lock = "recorder"

\* Between two frames nothing is left that is due.
WaitFits ==
  rpc \in {"idle", "push"} /\ list # <<>> =>
    \E s \in Waits : Last(list).t - Head(list).t <= s

\* The frames of the list that have not been handed on yet.
Waiting == (IF rpc = "store" THEN 2 ELSE 1) .. Len(list)

\* f is before g among the video frames of their channel.
Before(f, g) == f.ch = g.ch /\ IsVideo(f) /\ IsVideo(g) => f.n < g.n

\* The video of a channel, from the basket over the list to the frame that is
\* being put in, is in the order of its capture.
OrderFits ==
  /\ \A i, j \in DOMAIN out : i < j => Before(out[i].f, out[j].f)
  /\ \A i, j \in DOMAIN list : i < j => Before(list[i], list[j])
  /\ \A i \in DOMAIN out, j \in Waiting : Before(out[i].f, list[j])
  /\ rpc = "push" =>
       /\ \A i \in DOMAIN out : Before(out[i].f, frame)
       /\ \A j \in DOMAIN list : Before(list[j], frame)

\* No frame is numbered beyond the last one seen, and the one being put in is it.
NumbersFit ==
  /\ \A i \in DOMAIN out : out[i].f.n <= seen[out[i].f.ch]
  /\ \A j \in DOMAIN list : list[j].n <= seen[list[j].ch]
  /\ rpc = "push" => frame.n = seen[frame.ch]

OrderInv == Types /\ LockFits /\ HeadStays /\ WaitFits /\ OrderFits /\ NumbersFit

---------------------------------------------------------------------------
(* Calls that do not overlap a frame *)

\* One thread at a time, and frames are handled only while a basket is there.
OneAtATime ==
  /\ mpc # "idle" => rpc = "idle"
  /\ opened <=> basket # "closed"
  /\ rpc # "idle" => opened

\* When the basket is closed, every channel has been stopped.
StoppedFits == mpc = "exit" \/ ~opened => \A c \in Channels : saveState[c] # "write"

\* What the flags of the channels and of the calls say of the frames and the times.
KindsFit ==
  /\ \A j \in DOMAIN list : list[j].kind \in Kinds
  /\ rpc = "push" => frame.kind \in Kinds
  /\ mpc = "presec" => call.ch \in Channels /\ presec[call.ch] = call.arg
  /\ mpc = "flush" => 0 \in PreSecs

\* A frame is written because it starts its channel or because the channel goes on.
WriteFits ==
  rpc = "write" =>
    next = "write" /\ (Head(list).kind = "I" \/ saveState[Head(list).ch] = "write")

\* The save state of a channel, with the one that is about to be stored back.
StateOf(c) == IF rpc = "store" /\ Head(list).ch = c THEN next ELSE saveState[c]

\* A channel that goes on has been started in this opening of the basket.
Started(c) == \E i \in DOMAIN out : out[i].f.ch = c /\ out[i].session = session
StartFits ==
  \A c \in Channels : StateOf(c) = "write" /\ basket = "opened" => Started(c)

StartInv ==
  OneAtATime /\ StoppedFits /\ KindsFit /\ WriteFits /\ StartFits /\ KeyFrameFirst

---------------------------------------------------------------------------
(* The chain of the frames *)

\* The channels whose frames go to the basket, without a break since the last key
\* frame of each.
OnAir == {c \in Channels : StateOf(c) = "write" /\ basket = "opened" /\ ~cut[c]}

IsFrame(f, c) == f.ch = c /\ IsVideo(f)

\* A frame numbered n of channel c, behind the places below j: the one before it
\* has been recorded (o), or waits ahead of it (in the places W of the list l), or
\* none waits and the channel is not on the air (A).
Follows(o, l, W, A, c, n, j) ==
  \/ \E i \in DOMAIN o : IsFrame(o[i].f, c) /\ o[i].f.n = n - 1
  \/ \E i \in W : i < j /\ IsFrame(l[i], c) /\ l[i].n = n - 1
  \/ c \notin A /\ \A i \in W : i < j => ~IsFrame(l[i], c)

\* Frames captured without a gap follow each other: those that wait, the one that
\* is being put in, and the one to come.
ChainFits ==
  /\ \A j \in Waiting :
       IsVideo(list[j]) /\ ~list[j].gap =>
         Follows(out, list, Waiting, OnAir, list[j].ch, list[j].n, j)
  /\ rpc = "push" /\ IsVideo(frame) /\ ~frame.gap =>
       Follows(out, list, Waiting, OnAir, frame.ch, frame.n, Len(list) + 1)
  /\ \A c \in Channels :
       ~missed[c] /\ ~(rpc = "push" /\ IsFrame(frame, c)) =>
         Follows(out, list, Waiting, OnAir, c, seen[c] + 1, Len(list) + 1)

ChainInv == ChainFits /\ NothingLost

---------------------------------------------------------------------------
(* Sequences *)

LEMMA AppendSeq ==
  ASSUME NEW S, NEW s \in Seq(S), NEW e \in S
  PROVE  /\ Append(s, e) \in Seq(S) /\ Len(Append(s, e)) = Len(s) + 1
         /\ \A i \in 1 .. Len(s) : Append(s, e)[i] = s[i]
         /\ Append(s, e)[Len(s) + 1] = e
  OBVIOUS

LEMMA TailSeq ==
  ASSUME NEW S, NEW s \in Seq(S), s # <<>>
  PROVE  /\ Tail(s) \in Seq(S) /\ Len(Tail(s)) = Len(s) - 1 /\ Len(s) > 0
         /\ \A i \in 1 .. Len(s) - 1 : Tail(s)[i] = s[i + 1]
  OBVIOUS

LEMMA ConcatSeq ==
  ASSUME NEW S, NEW s \in Seq(S), NEW t \in Seq(S)
  PROVE  /\ s \o t \in Seq(S) /\ Len(s \o t) = Len(s) + Len(t)
         /\ \A i \in 1 .. Len(s) : (s \o t)[i] = s[i]
         /\ \A i \in 1 .. Len(t) : (s \o t)[Len(s) + i] = t[i]
  OBVIOUS

LEMMA SeqEnds ==
  ASSUME NEW S, NEW s \in Seq(S), s # <<>>
  PROVE  /\ Head(s) = s[1] /\ Last(s) = s[Len(s)] /\ Len(s) \in Nat /\ Len(s) > 0
         /\ Head(s) \in S /\ Last(s) \in S
  BY DEF Last

LEMMA SeqDomain ==
  ASSUME NEW S, NEW s \in Seq(S)
  PROVE  /\ DOMAIN s = 1 .. Len(s) /\ Len(s) \in Nat
         /\ \A i \in DOMAIN s : s[i] \in S
  OBVIOUS

\* The frames a flush takes from the list keep their order, and none is left out:
\* FramesAt(K) goes through the places K upwards (PRELIST_flush).
Place(K, k) == CHOOSE i \in K : Cardinality({j \in K : j <= i}) = k

LEMMA PlacesInOrder ==
  ASSUME NEW N \in Nat, NEW K \in SUBSET (1 .. N)
  PROVE  /\ Cardinality(K) \in Nat
         /\ \A k \in 1 .. Cardinality(K) : Place(K, k) \in K
         /\ \A k, m \in 1 .. Cardinality(K) : k < m => Place(K, k) < Place(K, m)
         /\ \A i \in K : \E k \in 1 .. Cardinality(K) : Place(K, k) = i
<1> DEFINE upTo(i) == {j \in K : j <= i}
           rank == [i \in K |-> Cardinality(upTo(i))]
<1>1. IsFiniteSet(K) /\ Cardinality(K) \in Nat
  <2>1. IsFiniteSet(1 .. N)
    BY FS_Interval
  <2> QED
    BY <2>1, FS_Subset, FS_CardinalityType
<1>2. \A i \in K : /\ IsFiniteSet(upTo(i)) /\ Cardinality(upTo(i)) \in Nat
                  /\ Cardinality(upTo(i)) <= Cardinality(K)
  <2> TAKE i \in K
  <2>1. upTo(i) \in SUBSET K
    OBVIOUS
  <2> QED
    BY <1>1, <2>1, FS_Subset, FS_CardinalityType
<1>3. \A i \in K : Cardinality(upTo(i)) > 0
  <2> TAKE i \in K
  <2>1. i \in upTo(i)
    OBVIOUS
  <2>2. Cardinality(upTo(i)) # 0
    BY <1>2, <2>1, FS_EmptySet
  <2> QED
    BY <1>2, <2>2
<1>4. \A i, j \in K : i < j => Cardinality(upTo(i)) < Cardinality(upTo(j))
  <2> SUFFICES ASSUME NEW i \in K, NEW j \in K, i < j
               PROVE  Cardinality(upTo(i)) < Cardinality(upTo(j))
    OBVIOUS
  <2>1. upTo(i) \in SUBSET upTo(j)
    <3>1. \A k \in K : k \in Int /\ (k <= i => k <= j)
      OBVIOUS
    <3> QED
      BY <3>1
  <2>2. j \in upTo(j) /\ j \notin upTo(i)
    OBVIOUS
  <2>3. Cardinality(upTo(i)) <= Cardinality(upTo(j))
    BY <1>2, <2>1, FS_Subset
  <2>4. Cardinality(upTo(i)) # Cardinality(upTo(j))
    <3>1. Cardinality(upTo(j)) = Cardinality(upTo(i)) => upTo(j) = upTo(i)
      BY <1>2, <2>1, FS_Subset
    <3> QED
      BY <2>2, <3>1
  <2> QED
    BY <1>2, <2>3, <2>4
<1>5. rank \in [K -> 1 .. Cardinality(K)]
  BY <1>1, <1>2, <1>3
<1>6. \A i, j \in K : rank[i] = rank[j] => i = j
  <2> SUFFICES ASSUME NEW i \in K, NEW j \in K, i # j
               PROVE  rank[i] # rank[j]
    OBVIOUS
  <2>1. i < j \/ j < i
    OBVIOUS
  <2>2. Cardinality(upTo(i)) # Cardinality(upTo(j))
    BY <1>2, <1>4, <2>1
  <2> QED
    BY <2>2
<1>7. rank \in Surjection(K, 1 .. Cardinality(K))
  <2>1. rank \in Injection(K, 1 .. Cardinality(K))
    BY <1>5, <1>6 DEF Injection, IsInjective
  <2>2. /\ IsFiniteSet(1 .. Cardinality(K))
        /\ Cardinality(1 .. Cardinality(K)) = Cardinality(K)
    BY <1>1, FS_Interval
  <2> QED
    BY <2>1, <2>2, FS_Injection
<1>8. \A k \in 1 .. Cardinality(K) : \E i \in K : Cardinality(upTo(i)) = k
  BY <1>7 DEF Surjection
<1>9. \A k \in 1 .. Cardinality(K) :
        Place(K, k) \in K /\ Cardinality(upTo(Place(K, k))) = k
  BY <1>8 DEF Place
<1>10. \A k, m \in 1 .. Cardinality(K) : k < m => Place(K, k) < Place(K, m)
  <2> SUFFICES ASSUME NEW k \in 1 .. Cardinality(K), NEW m \in 1 .. Cardinality(K), k < m
               PROVE  Place(K, k) < Place(K, m)
    OBVIOUS
  <2>1. Place(K, k) \in K /\ Place(K, m) \in K
    BY <1>9
  <2>2. CASE Place(K, m) < Place(K, k)
    <3>1. m < k
      BY <1>4, <1>9, <2>1, <2>2
    <3> QED
      BY <1>1, <3>1
  <2>3. CASE Place(K, m) = Place(K, k)
    <3>1. m = k
      BY <1>9, <2>3
    <3> QED
      BY <1>1, <3>1
  <2>4. Place(K, k) \in Int /\ Place(K, m) \in Int
    <3>1. \A i \in K : i \in Int
      OBVIOUS
    <3> QED
      BY <2>1, <3>1, Zenon
  <2> QED
    BY <2>2, <2>3, <2>4
<1>11. \A i \in K : \E k \in 1 .. Cardinality(K) : Place(K, k) = i
  <2> TAKE i \in K
  <2>1. rank[i] \in 1 .. Cardinality(K)
    BY <1>5
  <2>2. rank[Place(K, rank[i])] = rank[i] /\ Place(K, rank[i]) \in K
    BY <1>9, <2>1
  <2>3. Place(K, rank[i]) = i
    BY <1>6, <2>2
  <2> QED
    BY <2>1, <2>3
<1> QED
  BY <1>1, <1>9, <1>10, <1>11

\* The same of the frames, as a sequence.
LEMMA FramesInOrder ==
  ASSUME list \in Seq(FrameType), NEW K \in SUBSET (1 .. Len(list))
  PROVE  /\ FramesAt(K) \in Seq(FrameType) /\ Len(FramesAt(K)) = Cardinality(K)
         /\ Cardinality(K) \in Nat
         /\ \A k \in 1 .. Cardinality(K) :
              FramesAt(K)[k] = list[Place(K, k)] /\ Place(K, k) \in K
         /\ \A k, m \in 1 .. Cardinality(K) : k < m => Place(K, k) < Place(K, m)
         /\ \A i \in K : \E k \in 1 .. Cardinality(K) : Place(K, k) = i
<1>1. Len(list) \in Nat /\ \A i \in 1 .. Len(list) : list[i] \in FrameType
  OBVIOUS
<1>2. /\ Cardinality(K) \in Nat
      /\ \A k \in 1 .. Cardinality(K) : Place(K, k) \in K
      /\ \A k, m \in 1 .. Cardinality(K) : k < m => Place(K, k) < Place(K, m)
      /\ \A i \in K : \E k \in 1 .. Cardinality(K) : Place(K, k) = i
  BY <1>1, PlacesInOrder
<1>3. FramesAt(K) = [k \in 1 .. Cardinality(K) |-> list[Place(K, k)]]
  BY DEF FramesAt, Place
<1>4. \A k \in 1 .. Cardinality(K) : list[Place(K, k)] \in FrameType
  BY <1>1, <1>2
<1> QED
  BY <1>2, <1>3, <1>4
---------------------------------------------------------------------------
(* Types *)

LEMMA InitTypes == Init => Types
<1> SUFFICES ASSUME Init PROVE Types
  OBVIOUS
<1>1. TypeOK
  <2>1. maxPre \in Nat /\ session \in Nat
    BY PreRecordAssumption DEF Init
  <2>2. /\ list \in Seq(FrameType) /\ lock = "none" /\ basket = "closed"
        /\ rpc = "idle" /\ mpc = "idle" /\ next = "idle" /\ frame = NoFrame
    BY DEF Init
  <2>3. /\ enabled \in [Channels -> BOOLEAN] /\ opened \in BOOLEAN
        /\ presec \in [Channels -> Nat] /\ seen \in [Channels -> Nat]
        /\ saveState \in [Channels -> {"idle", "open", "write"}]
    BY DEF Init
  <2> QED
    BY <2>1, <2>2, <2>3 DEF TypeOK
<1>2. out \in Seq(Entry) /\ now \in Nat
  BY DEF Init
<1>3. missed \in [Channels -> BOOLEAN] /\ cut \in [Channels -> BOOLEAN]
  BY DEF Init
<1>4. maxPre \in Waits
  BY DEF Init, Waits
<1>5. rpc # "push" /\ mpc # "presec"
  BY DEF Init
<1> QED
  BY <1>1, <1>2, <1>3, <1>4, <1>5 DEF Types

LEMMA FrameFields ==
  \A f \in FrameType : /\ f.ch \in Channels /\ f.t \in Nat /\ f.n \in Nat
                      /\ f.kind \in {"I", "P", "A"} /\ f.gap \in BOOLEAN
  BY DEF FrameType

LEMMA Frames ==
  ASSUME Types
  PROVE  /\ DOMAIN list = 1 .. Len(list) /\ Len(list) \in Nat
         /\ \A i \in 1 .. Len(list) : list[i] \in FrameType
         /\ DOMAIN out = 1 .. Len(out) /\ Len(out) \in Nat
         /\ \A i \in 1 .. Len(out) : out[i] \in Entry /\ out[i].f \in FrameType
<1>1. list \in Seq(FrameType) /\ out \in Seq(Entry)
  BY DEF Types, TypeOK
<1>2. /\ DOMAIN list = 1 .. Len(list) /\ Len(list) \in Nat
      /\ \A i \in 1 .. Len(list) : list[i] \in FrameType
  BY <1>1
<1>3. DOMAIN out = 1 .. Len(out) /\ Len(out) \in Nat /\ \A i \in 1 .. Len(out) : out[i] \in Entry
  BY <1>1
<1>4. \A e \in Entry : e.f \in FrameType
  BY DEF Entry
<1> QED
  BY <1>2, <1>3, <1>4

\* What PRELIST_write_frame appends, for the frames fs.
LEMMA RecordedSeq ==
  ASSUME Types, NEW fs \in Seq(FrameType), Recorded(fs)
  PROVE  /\ out' \in Seq(Entry) /\ Len(out') = Len(out) + Len(fs)
         /\ cut' \in [Channels -> BOOLEAN]
         /\ \A i \in 1 .. Len(out) : out'[i] = out[i]
         /\ \A i \in 1 .. Len(fs) :
              out'[Len(out) + i] = [f |-> fs[i], session |-> session, cut |-> cut[fs[i].ch]]
         /\ \A c \in Channels : cut'[c] => cut[c]
<1> DEFINE e(i) == [f |-> fs[i], session |-> session, cut |-> cut[fs[i].ch]]
           es == [i \in 1 .. Len(fs) |-> e(i)]
<1>1. DOMAIN fs = 1 .. Len(fs) /\ Len(fs) \in Nat /\ \A i \in 1 .. Len(fs) : fs[i] \in FrameType
  OBVIOUS
<1>2. session \in Nat /\ cut \in [Channels -> BOOLEAN] /\ out \in Seq(Entry)
  BY DEF Types, TypeOK
<1>3. \A i \in 1 .. Len(fs) : fs[i].ch \in Channels
  BY <1>1 DEF FrameType
<1>4. \A i \in 1 .. Len(fs) : cut[fs[i].ch] \in BOOLEAN
  BY <1>2, <1>3
<1>5. \A i \in 1 .. Len(fs) : e(i) \in Entry
  BY <1>1, <1>2, <1>4 DEF Entry
<1>6. es \in Seq(Entry) /\ Len(es) = Len(fs)
  <2> HIDE DEF e
  <2> QED
    BY <1>1, <1>5
<1>7. out' = out \o es
  BY <1>1 DEF Recorded
<1>8. \A i \in 1 .. Len(fs) : es[i] = e(i)
  OBVIOUS
<1>9. /\ out' \in Seq(Entry) /\ Len(out') = Len(out) + Len(fs)
      /\ \A i \in 1 .. Len(out) : out'[i] = out[i]
      /\ \A i \in 1 .. Len(fs) : out'[Len(out) + i] = e(i)
  <2> HIDE DEF es, e
  <2>1. /\ out \o es \in Seq(Entry) /\ Len(out \o es) = Len(out) + Len(es)
        /\ \A i \in 1 .. Len(out) : (out \o es)[i] = out[i]
        /\ \A i \in 1 .. Len(es) : (out \o es)[Len(out) + i] = es[i]
    BY ONLY <1>2, <1>6, SMTT(60)
  <2>2. \A i \in 1 .. Len(fs) : (out \o es)[Len(out) + i] = e(i)
    BY <1>6, <1>8, <2>1
  <2> QED
    BY <1>6, <1>7, <2>1, <2>2
<1>10. cut' = [c \in Channels |->
                 cut[c] /\ \A i \in DOMAIN fs : ~(fs[i].ch = c /\ fs[i].kind = "I")]
  BY DEF Recorded
<1>11. \A c \in Channels :
         cut'[c] = (cut[c] /\ \A i \in DOMAIN fs : ~(fs[i].ch = c /\ fs[i].kind = "I"))
  BY <1>10, Zenon
<1>12. cut' \in [Channels -> BOOLEAN]
  BY <1>10, Zenon
<1>13. \A c \in Channels : cut'[c] => cut[c]
  BY <1>11, Zenon
<1> QED
  BY <1>9, <1>12, <1>13

\* The same of the frames at the places K of the list.
LEMMA PlacesRecorded ==
  ASSUME Types, NEW K \in SUBSET (1 .. Len(list)), Recorded(FramesAt(K))
  PROVE  /\ Cardinality(K) \in Nat
         /\ out' \in Seq(Entry) /\ Len(out') = Len(out) + Cardinality(K)
         /\ \A i \in 1 .. Len(out) : out'[i] = out[i]
         /\ \A k \in 1 .. Cardinality(K) :
              /\ Place(K, k) \in K
              /\ out'[Len(out) + k].f = list[Place(K, k)]
              /\ out'[Len(out) + k].session = session
         /\ \A k, m \in 1 .. Cardinality(K) : k < m => Place(K, k) < Place(K, m)
         /\ \A i \in K : \E k \in 1 .. Cardinality(K) : Place(K, k) = i
<1> DEFINE C == Cardinality(K)
           fs == FramesAt(K)
<1>1. list \in Seq(FrameType)
  BY DEF Types, TypeOK
<1>2. /\ fs \in Seq(FrameType) /\ Len(fs) = C /\ C \in Nat
      /\ \A k \in 1 .. C : fs[k] = list[Place(K, k)] /\ Place(K, k) \in K
      /\ \A k, m \in 1 .. C : k < m => Place(K, k) < Place(K, m)
      /\ \A i \in K : \E k \in 1 .. C : Place(K, k) = i
  BY <1>1, FramesInOrder
<1> HIDE DEF C, fs
<1>3. Recorded(fs)
  BY DEF fs
<1>4. /\ out' \in Seq(Entry) /\ Len(out') = Len(out) + Len(fs)
      /\ \A i \in 1 .. Len(out) : out'[i] = out[i]
      /\ \A i \in 1 .. Len(fs) :
           out'[Len(out) + i] = [f |-> fs[i], session |-> session, cut |-> cut[fs[i].ch]]
  BY <1>2, <1>3, RecordedSeq
<1>5. \A k \in 1 .. C : out'[Len(out) + k].f = fs[k] /\ out'[Len(out) + k].session = session
  <2> TAKE k \in 1 .. C
  <2>1. k \in 1 .. Len(fs)
    BY <1>2
  <2>2. out'[Len(out) + k] = [f |-> fs[k], session |-> session, cut |-> cut[fs[k].ch]]
    BY <1>4, <2>1
  <2> QED
    BY <2>2
<1> QED
  BY <1>2, <1>4, <1>5 DEF C

LEMMA OneRecorded ==
  ASSUME Types, NEW f \in FrameType, Recorded(<<f>>)
  PROVE  /\ out' \in Seq(Entry) /\ Len(out') = Len(out) + 1
         /\ cut' \in [Channels -> BOOLEAN]
         /\ \A i \in 1 .. Len(out) : out'[i] = out[i]
         /\ out'[Len(out) + 1] = [f |-> f, session |-> session, cut |-> cut[f.ch]]
         /\ \A c \in Channels : ~cut'[c] => ~cut[c] \/ (f.ch = c /\ f.kind = "I")
<1> DEFINE fs == <<f>>
<1>1. fs \in Seq(FrameType) /\ Len(fs) = 1 /\ fs[1] = f /\ 1 \in 1 .. Len(fs)
  OBVIOUS
<1>2. Recorded(fs)
  OBVIOUS
<1>3. cut' = [c \in Channels |->
                cut[c] /\ \A i \in DOMAIN fs : ~(fs[i].ch = c /\ fs[i].kind = "I")]
  BY <1>2 DEF Recorded
<1>4. \A i \in DOMAIN fs : fs[i] = f
  OBVIOUS
<1> HIDE DEF fs
<1>5. \A c \in Channels :
        cut'[c] = (cut[c] /\ \A i \in DOMAIN fs : ~(fs[i].ch = c /\ fs[i].kind = "I"))
  BY <1>3, Zenon
<1>6. \A c \in Channels : ~cut'[c] => ~cut[c] \/ (f.ch = c /\ f.kind = "I")
  BY <1>4, <1>5, Zenon
<1> QED
  BY <1>1, <1>2, <1>6, RecordedSeq

\* A flush records the kept frames in the order of the list.
LEMMA KeptPlaces ==
  ASSUME Types, NEW keep \in SUBSET (DOMAIN list)
  PROVE  /\ Kept(keep) \in SUBSET (1 .. Len(list))
         /\ FramesAt(Kept(keep)) \in Seq(FrameType)
<1>1. list \in Seq(FrameType) /\ DOMAIN list = 1 .. Len(list)
  BY DEF Types, TypeOK
<1>2. Kept(keep) \in SUBSET (1 .. Len(list))
  BY <1>1 DEF Kept
<1> QED
  BY <1>1, <1>2, FramesInOrder
LEMMA TypesNext == Types /\ HeadStays /\ [Next]_vars => Types'
<1> SUFFICES ASSUME Types, HeadStays, [Next]_vars PROVE Types'
  OBVIOUS
<1>0. /\ list \in Seq(FrameType) /\ out \in Seq(Entry) /\ \A c \in Channels : seen[c] \in Nat
      /\ Len(list) \in Nat
  BY DEF Types, TypeOK
<1> USE DEF Types, TypeOK
<1>1. CASE Capture
  <2> PICK c \in Channels, k \in Kinds :
        LET n == IF k = "A" THEN seen[c] ELSE seen[c] + 1
            taken == basket = "opened" /\ (enabled[c] \/ presec[c] > 0)
        IN  /\ seen' = [seen EXCEPT ![c] = n]
            /\ missed' = IF k = "A" THEN missed ELSE [missed EXCEPT ![c] = ~taken]
            /\ IF taken
                 THEN /\ rpc' = "push" /\ UNCHANGED next
                      /\ frame' = [ch |-> c, t |-> now, kind |-> k, n |-> n,
                                   gap |-> missed[c]]
                 ELSE Idle
    BY <1>1, Zenon DEF Capture
  <2> DEFINE n == IF k = "A" THEN seen[c] ELSE seen[c] + 1
             taken == basket = "opened" /\ (enabled[c] \/ presec[c] > 0)
             fr == [ch |-> c, t |-> now, kind |-> k, n |-> n, gap |-> missed[c]]
  <2>1. n \in Nat /\ k \in {"I", "P", "A"} /\ missed[c] \in BOOLEAN
    BY <1>0, PreRecordAssumption
  <2>2. fr \in FrameType
    BY <2>1 DEF FrameType
  <2>3. seen' \in [Channels -> Nat]
    BY <2>1
  <2>4. missed' \in [Channels -> BOOLEAN]
    BY Zenon
  <2>5. rpc' \in {"idle", "push"} /\ frame' \in FrameType \cup {NoFrame} /\ next' \in {"idle", "open", "write"}
    BY <2>2 DEF Idle
  <2>6. rpc' = "push" => frame' \in FrameType
    BY <2>2 DEF Idle
  <2>7. UNCHANGED <<list, maxPre, lock, chInfo, opened, basket, manager, out, session,
                 cut, now, calls, errors>>
    BY <1>1 DEF Capture
  <2> QED
    BY <2>3, <2>4, <2>5, <2>6, <2>7 DEF chInfo, manager
<1>2. CASE Push
  <2>1. list' \in Seq(FrameType)
    BY <1>2, AppendSeq DEF Push
  <2> QED
    BY <1>2, <2>1 DEF Push, chInfo, manager, history, bounds
<1>3. CASE PushFails
  <2>1. missed' \in [Channels -> BOOLEAN]
    BY <1>3, Zenon DEF PushFails
  <2> QED
    BY <1>3, <2>1 DEF PushFails, Idle, chInfo, manager
<1>4. CASE ReadState
  BY <1>4 DEF ReadState, NextState, chInfo, manager, history, bounds
<1>5. CASE CheckDone
  BY <1>5 DEF CheckDone, Idle, chInfo, manager, history, bounds
<1>6. CASE WriteHead
  <2>1. list # <<>>
    BY <1>6, <1>0 DEF WriteHead, HeadStays
  <2>2. Head(list) \in FrameType
    BY <1>0, <2>1, SeqEnds
  <2>3. out' \in Seq(Entry) /\ cut' \in [Channels -> BOOLEAN]
    BY <1>6, <2>2, OneRecorded DEF WriteHead
  <2> QED
    BY <1>6, <2>3 DEF WriteHead, chInfo, manager, bounds
<1>7. CASE WriteFails
  <2>1. cut' \in [Channels -> BOOLEAN] /\ enabled' \in [Channels -> BOOLEAN]
    BY <1>7, Zenon DEF WriteFails
  <2>2. basket' \in {"closed", "opened", "full"} /\ next' \in {"idle", "open", "write"}
    BY <1>7 DEF WriteFails
  <2> QED
    BY <1>7, <2>1, <2>2 DEF WriteFails, manager
<1>8. CASE StoreState
  <2>1. list # <<>>
    BY <1>8, <1>0 DEF StoreState, HeadStays
  <2>2. list' \in Seq(FrameType)
    BY <1>8, <1>0, <2>1, TailSeq DEF StoreState
  <2> QED
    BY <1>8, <2>2 DEF StoreState, manager, history, bounds
<1>9. CASE CallEnable
  BY <1>9 DEF CallEnable, Called, chInfo, recorder, history
<1>10. CASE OpenBasket
  BY <1>10 DEF OpenBasket, chInfo, recorder, manager, bounds
<1>11. CASE OpenFails
  BY <1>11 DEF OpenFails, Return, chInfo, recorder, history
<1>12. CASE Enable
  <2>1. enabled' \in [Channels -> BOOLEAN]
    BY <1>12, Zenon DEF Enable
  <2>2. cut' \in [Channels -> BOOLEAN]
    BY <1>12, Zenon DEF Enable
  <2> QED
    BY <1>12, <2>1, <2>2 DEF Enable, recorder, bounds
<1>13. CASE DisableClosed
  BY <1>13 DEF DisableClosed, Return, chInfo, recorder, history, bounds
<1>14. CASE EnableDuration
  <2>1. maxPre' \in Nat /\ maxPre' \in Waits /\ mpc' = "idle"
    BY <1>14 DEF EnableDuration, Return, Waits
  <2> QED
    BY <1>14, <2>1 DEF EnableDuration, chInfo, recorder, history, bounds
<1>15. CASE CallExit
  <2>1. cut' \in [Channels -> BOOLEAN] /\ saveState' \in [Channels -> {"idle", "open", "write"}]
    BY <1>15 DEF CallExit
  <2> QED
    BY <1>15, <2>1 DEF CallExit, Called, recorder
<1>16. CASE Exit
  BY <1>16 DEF Exit, Return, chInfo, recorder, history
<1>17. CASE CallPreRec
  <2> PICK c \in Channels, s \in PreSecs : Called("presec", c, s) /\ presec' = [presec EXCEPT ![c] = s]
    BY <1>17 DEF CallPreRec
  <2>1. presec' \in [Channels -> Nat] /\ call'.arg \in PreSecs /\ mpc' = "presec"
    BY PreRecordAssumption DEF Called
  <2> QED
    BY <1>17, <2>1 DEF CallPreRec, recorder, history
<1>18. CASE SetDuration
  <2>1. maxPre' \in Nat /\ maxPre' \in Waits /\ mpc' \in {"idle", "flush"}
    BY <1>18, PreRecordAssumption DEF SetDuration, Return, Waits
  <2> QED
    BY <1>18, <2>1 DEF SetDuration, chInfo, recorder, history, bounds
<1>19. CASE Flush
  <2>1. PICK keep \in SUBSET (DOMAIN list) :
          IF basket = "opened" THEN Recorded(FramesAt(Kept(keep))) ELSE UNCHANGED <<out, cut>>
    BY <1>19 DEF Flush
  <2>2. FramesAt(Kept(keep)) \in Seq(FrameType)
    BY KeptPlaces
  <2>3. out' \in Seq(Entry) /\ cut' \in [Channels -> BOOLEAN]
    BY <2>1, <2>2, RecordedSeq
  <2> QED
    BY <1>19, <2>3 DEF Flush, Return, chInfo, recorder, bounds
<1>20. CASE Tick
  BY <1>20 DEF Tick, chInfo, recorder, manager, history
<1>21. CASE UNCHANGED vars
  BY <1>21 DEF vars
<1> QED
  BY <1>1, <1>2, <1>3, <1>4, <1>5, <1>6, <1>7, <1>8, <1>9, <1>10, <1>11, <1>12, <1>13, <1>14, <1>15, <1>16, <1>17, <1>18, <1>19, <1>20, <1>21 DEF Next
---------------------------------------------------------------------------
(* The mutex and the shape of the list *)

LEMMA ShapeNext ==
  Types /\ LockFits /\ HeadStays /\ WaitFits /\ [Next]_vars => LockFits' /\ HeadStays' /\ WaitFits'
<1> SUFFICES ASSUME Types, LockFits, HeadStays, WaitFits, [Next]_vars
             PROVE  LockFits' /\ HeadStays' /\ WaitFits'
  OBVIOUS
<1>0. list \in Seq(FrameType) /\ Len(list) \in Nat /\ maxPre \in Waits
  BY DEF Types, TypeOK
<1> USE DEF LockFits, HeadStays, WaitFits
<1>1. CASE Capture
  BY <1>1 DEF Capture, Idle, chInfo, manager
<1>2. CASE Push
  BY <1>2 DEF Push, chInfo, recorder, manager, history, bounds
<1>3. CASE PushFails
  BY <1>3 DEF PushFails, Idle, chInfo, recorder, manager
<1>4. CASE ReadState
  <2>1. /\ rpc' \in {"write", "store"} /\ rpc = "check" /\ list' = list /\ lock' = lock
    BY <1>4 DEF ReadState
  <2>2. Len(list) > 1
    <3>1. list # <<>> /\ Last(list).t - Head(list).t > maxPre /\ maxPre \in Nat
      BY <1>4 DEF ReadState, Due, Types, TypeOK
    <3>2. Head(list) = list[1] /\ Last(list) = list[Len(list)] /\ Len(list) > 0
      BY <1>0, <3>1, SeqEnds
    <3>3. list[1].t \in Nat
      BY <1>0, <3>2, Frames, FrameFields
    <3>4. Len(list) # 1
      <4>1. ASSUME Len(list) = 1 PROVE list[1].t - list[1].t > maxPre
        BY <3>1, <3>2, <4>1
      <4> QED
        BY <3>1, <3>3, <4>1
    <3>5. Len(list) \in Nat /\ Len(list) > 0
      BY <1>0, <3>2
    <3>6. \A n \in Nat : n > 0 /\ n # 1 => n > 1
      OBVIOUS
    <3> QED
      BY <3>4, <3>5, <3>6, Zenon
  <2> QED
    BY <2>1, <2>2
<1>5. CASE CheckDone
  <2>1. rpc' = "idle" /\ list' = list /\ ~Due
    BY <1>5 DEF CheckDone, Idle
  <2>2. list # <<>> => Last(list).t - Head(list).t <= maxPre
    <3>1. SUFFICES ASSUME list # <<>> PROVE Last(list).t - Head(list).t <= maxPre
      OBVIOUS
    <3>2. Last(list).t \in Nat /\ Head(list).t \in Nat /\ maxPre \in Nat
      <4>1. Last(list) \in FrameType /\ Head(list) \in FrameType
        BY <1>0, <3>1, SeqEnds
      <4>2. maxPre \in Nat
        BY DEF Types, TypeOK
      <4> QED
        BY <4>1, <4>2, FrameFields
    <3> QED
      BY <2>1, <3>1, <3>2 DEF Due
  <2> QED
    BY <1>0, <2>1, <2>2
<1>6. CASE WriteHead
  BY <1>6 DEF WriteHead, chInfo, manager, bounds
<1>7. CASE WriteFails
  BY <1>7 DEF WriteFails, manager
<1>8. CASE StoreState
  BY <1>8 DEF StoreState, manager, history, bounds
<1>9. CASE CallEnable
  BY <1>9 DEF CallEnable, Called, chInfo, recorder, history
<1>10. CASE OpenBasket
  BY <1>10 DEF OpenBasket, chInfo, recorder, manager, bounds
<1>11. CASE OpenFails
  BY <1>11 DEF OpenFails, Return, chInfo, recorder, history
<1>12. CASE Enable
  BY <1>12 DEF Enable, recorder, bounds
<1>13. CASE DisableClosed
  BY <1>13 DEF DisableClosed, Return, chInfo, recorder, history, bounds
<1>14. CASE EnableDuration
  BY <1>14 DEF EnableDuration, Return, chInfo, recorder, history, bounds
<1>15. CASE CallExit
  BY <1>15 DEF CallExit, Called, recorder
<1>16. CASE Exit
  BY <1>16 DEF Exit, Return, chInfo, recorder, history
<1>17. CASE CallPreRec
  BY <1>17 DEF CallPreRec, Called, recorder, history
<1>18. CASE SetDuration
  BY <1>18 DEF SetDuration, Return, chInfo, recorder, history, bounds
<1>19. CASE Flush
  <2>1. lock = "none" /\ list' = <<>> /\ UNCHANGED <<rpc, lock>>
    BY <1>19 DEF Flush, recorder
  <2> QED
    BY <2>1
<1>20. CASE Tick
  BY <1>20 DEF Tick, chInfo, recorder, manager, history
<1>21. CASE UNCHANGED vars
  BY <1>21 DEF vars
<1> QED
  BY <1>1, <1>2, <1>3, <1>4, <1>5, <1>6, <1>7, <1>8, <1>9, <1>10, <1>11, <1>12, <1>13, <1>14, <1>15, <1>16, <1>17, <1>18, <1>19, <1>20, <1>21 DEF Next
---------------------------------------------------------------------------
(* The order of the frames *)

\* Nothing of it changes in most of the manager's steps.
LEMMA OrderKept ==
  ASSUME OrderFits, NumbersFit, UNCHANGED <<list, out, frame, seen>>,
         rpc' = "push" => rpc = "push", rpc = "store" => rpc' = "store"
  PROVE  OrderFits' /\ NumbersFit'
<1>1. Waiting' \subseteq Waiting
  BY DEF Waiting
<1>2. \A f, g : Before(f, g)' = Before(f, g)
  OBVIOUS
<1> QED
  BY <1>1 DEF OrderFits, NumbersFit

LEMMA OrderNext ==
  Types /\ LockFits /\ HeadStays /\ OrderFits /\ NumbersFit /\ [Next]_vars
    => OrderFits' /\ NumbersFit'
<1> SUFFICES ASSUME Types, LockFits, HeadStays, OrderFits, NumbersFit, [Next]_vars
             PROVE  OrderFits' /\ NumbersFit'
  OBVIOUS
<1> DEFINE L == Len(list)
           M == Len(out)
<1>0. /\ list \in Seq(FrameType) /\ out \in Seq(Entry) /\ L \in Nat /\ M \in Nat
      /\ DOMAIN list = 1 .. L /\ DOMAIN out = 1 .. M
      /\ seen \in [Channels -> Nat]
  BY Frames DEF Types, TypeOK
<1>90. /\ \A i, j \in 1 .. M : i < j => Before(out[i].f, out[j].f)
       /\ \A i, j \in 1 .. L : i < j => Before(list[i], list[j])
       /\ \A i \in 1 .. M, j \in Waiting : Before(out[i].f, list[j])
       /\ \A i \in 1 .. M : out[i].f.n <= seen[out[i].f.ch]
       /\ \A j \in 1 .. L : list[j].n <= seen[list[j].ch]
  BY <1>0 DEF OrderFits, NumbersFit
<1>1. CASE Capture
  <2>0. UNCHANGED <<list, out>> /\ rpc = "idle" /\ rpc' \in {"idle", "push"}
    BY <1>1 DEF Capture, Idle
  <2> PICK c \in Channels, k \in Kinds :
        LET n == IF k = "A" THEN seen[c] ELSE seen[c] + 1
            taken == basket = "opened" /\ (enabled[c] \/ presec[c] > 0)
        IN  /\ seen' = [seen EXCEPT ![c] = n]
            /\ missed' = IF k = "A" THEN missed ELSE [missed EXCEPT ![c] = ~taken]
            /\ IF taken
                 THEN /\ rpc' = "push" /\ UNCHANGED next
                      /\ frame' = [ch |-> c, t |-> now, kind |-> k, n |-> n,
                                   gap |-> missed[c]]
                 ELSE Idle
    BY <1>1, Zenon DEF Capture
  <2> DEFINE n == IF k = "A" THEN seen[c] ELSE seen[c] + 1
  <2>1. seen' = [seen EXCEPT ![c] = n] /\ n \in Nat /\ n >= seen[c] /\ seen[c] \in Nat
    BY <1>0
  <2>2. rpc' = "push" => frame'.ch = c /\ frame'.kind = k /\ frame'.n = n
    BY DEF Idle
  <2>3. seen'[c] = n /\ \A d \in Channels : seen[d] <= seen'[d] /\ seen[d] \in Nat /\ seen'[d] \in Nat
    BY <1>0, <2>1
  <2>4. \A f \in FrameType : f.n <= seen[f.ch] => f.n <= seen'[f.ch]
    BY <2>3, FrameFields
  <2>5. \A i \in 1 .. M : out[i].f.n <= seen'[out[i].f.ch]
    BY <1>90, <2>4, Frames
  <2>6. \A j \in 1 .. L : list[j].n <= seen'[list[j].ch]
    BY <1>90, <2>4, Frames
  <2>7. \A f \in FrameType : rpc' = "push" /\ f.n <= seen[f.ch] => Before(f, frame')
    <3> SUFFICES ASSUME NEW f \in FrameType, rpc' = "push", f.n <= seen[f.ch], f.ch = c, k # "A"
                 PROVE  f.n < frame'.n
      BY <2>2 DEF Before, IsVideo
    <3>1. frame'.n = seen[c] + 1 /\ f.n \in Nat
      BY <2>2, FrameFields
    <3> QED
      BY <2>1, <3>1
  <2>8. rpc' = "push" => /\ \A i \in 1 .. M : Before(out[i].f, frame')
                         /\ \A j \in 1 .. L : Before(list[j], frame')
    BY <1>90, <2>7, Frames
  <2>9. NumbersFit'
    BY <1>0, <2>0, <2>2, <2>3, <2>5, <2>6 DEF NumbersFit
  <2>10. Waiting' = Waiting
    BY <2>0 DEF Waiting
  <2>11. OrderFits'
    BY <1>0, <1>90, <2>0, <2>8, <2>10 DEF OrderFits
  <2> QED
    BY <2>9, <2>11
<1>2. CASE Push
  <2>0. /\ UNCHANGED <<out, seen>> /\ rpc = "push" /\ rpc' = "check" /\ list' = Append(list, frame)
        /\ frame \in FrameType
    BY <1>2 DEF Push, history, Types
  <2>1. /\ DOMAIN list' = 1 .. L + 1 /\ Len(list') = L + 1
        /\ \A i \in 1 .. L : list'[i] = list[i]
        /\ list'[L + 1] = frame
    BY <1>0, <2>0, AppendSeq
  <2>2. /\ \A i \in 1 .. M : Before(out[i].f, frame)
        /\ \A j \in 1 .. L : Before(list[j], frame)
        /\ frame.n = seen[frame.ch] /\ frame.n \in Nat
    BY <1>0, <2>0, FrameFields DEF OrderFits, NumbersFit
  <2>3. Waiting = 1 .. L /\ Waiting' = 1 .. L + 1
    BY <2>0, <2>1 DEF Waiting
  <2>4. \A i, j \in 1 .. L + 1 : i < j => Before(list'[i], list'[j])
    <3> SUFFICES ASSUME NEW i \in 1 .. L + 1, NEW j \in 1 .. L + 1, i < j
                 PROVE  Before(list'[i], list'[j])
      OBVIOUS
    <3>1. i \in 1 .. L
      BY <1>0
    <3>2. CASE j \in 1 .. L
      BY <1>90, <2>1, <3>1, <3>2
    <3>3. CASE j = L + 1
      BY <2>1, <2>2, <3>1, <3>3
    <3> QED
      BY <1>0, <3>2, <3>3
  <2>5. \A i \in 1 .. M, j \in 1 .. L + 1 : Before(out[i].f, list'[j])
    <3> SUFFICES ASSUME NEW i \in 1 .. M, NEW j \in 1 .. L + 1
                 PROVE  Before(out[i].f, list'[j])
      OBVIOUS
    <3>1. CASE j \in 1 .. L
      BY <1>90, <2>1, <2>3, <3>1
    <3>2. CASE j = L + 1
      BY <2>1, <2>2, <3>2
    <3> QED
      BY <1>0, <3>1, <3>2
  <2>6. OrderFits'
    BY <1>0, <1>90, <2>0, <2>1, <2>3, <2>4, <2>5 DEF OrderFits
  <2>7. \A j \in 1 .. L + 1 : list'[j].n <= seen[list'[j].ch]
    <3> SUFFICES ASSUME NEW j \in 1 .. L + 1
                 PROVE  list'[j].n <= seen[list'[j].ch]
      OBVIOUS
    <3>1. CASE j \in 1 .. L
      BY <1>90, <2>1, <3>1
    <3>2. CASE j = L + 1
      BY <2>1, <2>2, <3>2
    <3> QED
      BY <1>0, <3>1, <3>2
  <2>8. NumbersFit'
    BY <1>0, <1>90, <2>0, <2>1, <2>7 DEF NumbersFit
  <2> QED
    BY <2>6, <2>8
<1>3. CASE PushFails
  <2>1. UNCHANGED <<list, out, seen>> /\ rpc' = "idle" /\ rpc \in {"push", "check"}
    BY <1>3 DEF PushFails, Idle, chInfo, recorder, manager
  <2>2. Waiting' = Waiting
    BY <2>1 DEF Waiting
  <2> QED
    BY <2>1, <2>2 DEF OrderFits, NumbersFit
<1>4. CASE ReadState
  <2>1. /\ UNCHANGED <<list, out, frame, seen>>
        /\ rpc' = "push" => rpc = "push"
        /\ rpc = "store" => rpc' = "store"
    BY <1>4 DEF ReadState, chInfo, manager, history, bounds
  <2> QED
    BY <2>1, OrderKept
<1>5. CASE CheckDone
  <2>1. UNCHANGED <<list, out, seen>> /\ rpc' = "idle" /\ rpc \in {"push", "check"}
    BY <1>5 DEF CheckDone, Idle, chInfo, manager, history, bounds
  <2>2. Waiting' = Waiting
    BY <2>1 DEF Waiting
  <2> QED
    BY <2>1, <2>2 DEF OrderFits, NumbersFit
<1>6. CASE WriteHead
  <2>0. /\ UNCHANGED <<list, seen, frame>> /\ rpc = "write" /\ rpc' = "store"
        /\ Recorded(<<Head(list)>>)
    BY <1>6 DEF WriteHead
  <2>1. L > 1 /\ Head(list) = list[1] /\ list[1] \in FrameType
    <3>1. L > 1
      BY <2>0 DEF HeadStays
    <3>2. list # <<>>
      BY <3>1
    <3> QED
      BY <1>0, <3>1, <3>2, SeqEnds
  <2>2. /\ out' \in Seq(Entry) /\ Len(out') = M + 1 /\ DOMAIN out' = 1 .. M + 1
        /\ \A i \in 1 .. M : out'[i] = out[i]
        /\ out'[M + 1].f = list[1]
    <3>1. /\ out' \in Seq(Entry) /\ Len(out') = M + 1
          /\ \A i \in 1 .. M : out'[i] = out[i]
          /\ out'[M + 1] = [f |-> list[1], session |-> session, cut |-> cut[list[1].ch]]
      BY <2>0, <2>1, OneRecorded
    <3> QED
      BY <3>1
  <2>3. Waiting = 1 .. L /\ Waiting' = 2 .. L /\ 1 \in Waiting /\ Waiting' \subseteq Waiting
    BY <1>0, <2>0, <2>1 DEF Waiting
  <2>4. \A i, j \in 1 .. M + 1 : i < j => Before(out'[i].f, out'[j].f)
    <3> SUFFICES ASSUME NEW i \in 1 .. M + 1, NEW j \in 1 .. M + 1, i < j
                 PROVE  Before(out'[i].f, out'[j].f)
      OBVIOUS
    <3>1. i \in 1 .. M
      BY <1>0
    <3>2. CASE j \in 1 .. M
      BY <1>90, <2>2, <3>1, <3>2
    <3>3. CASE j = M + 1
      BY <1>90, <2>2, <2>3, <3>1, <3>3
    <3> QED
      BY <1>0, <3>2, <3>3
  <2>5. \A i \in 1 .. M + 1, j \in 2 .. L : Before(out'[i].f, list[j])
    <3> SUFFICES ASSUME NEW i \in 1 .. M + 1, NEW j \in 2 .. L
                 PROVE  Before(out'[i].f, list[j])
      OBVIOUS
    <3>1. CASE i \in 1 .. M
      BY <1>90, <2>2, <2>3, <3>1
    <3>2. CASE i = M + 1
      <4>1. 1 \in 1 .. L /\ j \in 1 .. L /\ 1 < j
        BY <1>0, <2>1
      <4>2. Before(list[1], list[j])
        BY <1>90, <4>1
      <4> QED
        BY <2>2, <3>2, <4>2
    <3> QED
      BY <1>0, <3>1, <3>2
  <2>6. OrderFits'
    BY <1>0, <1>90, <2>0, <2>2, <2>3, <2>4, <2>5 DEF OrderFits
  <2>7. \A i \in 1 .. M + 1 : out'[i].f.n <= seen[out'[i].f.ch]
    <3> SUFFICES ASSUME NEW i \in 1 .. M + 1
                 PROVE  out'[i].f.n <= seen[out'[i].f.ch]
      OBVIOUS
    <3>1. CASE i \in 1 .. M
      BY <1>90, <2>2, <3>1
    <3>2. CASE i = M + 1
      <4>1. 1 \in 1 .. L
        BY <2>1, <1>0
      <4> QED
        BY <1>90, <2>2, <3>2, <4>1
    <3> QED
      BY <1>0, <3>1, <3>2
  <2>8. NumbersFit'
    BY <1>0, <1>90, <2>0, <2>2, <2>7 DEF NumbersFit
  <2> QED
    BY <2>6, <2>8
<1>7. CASE WriteFails
  <2>1. /\ UNCHANGED <<list, out, frame, seen>>
        /\ rpc' = "push" => rpc = "push"
        /\ rpc = "store" => rpc' = "store"
    BY <1>7 DEF WriteFails, manager
  <2> QED
    BY <2>1, OrderKept
<1>8. CASE StoreState
  <2>0. UNCHANGED <<out, seen>> /\ rpc = "store" /\ rpc' = "check" /\ list' = Tail(list)
    BY <1>8 DEF StoreState, history
  <2>1. list # <<>> /\ L > 1
    BY <1>0, <2>0 DEF HeadStays
  <2>2. /\ DOMAIN list' = 1 .. L - 1 /\ Len(list') = L - 1
        /\ \A i \in 1 .. L - 1 : list'[i] = list[i + 1]
    BY <1>0, <2>0, <2>1, TailSeq
  <2>3. Waiting = 2 .. L /\ Waiting' = 1 .. L - 1
    BY <2>0, <2>2 DEF Waiting
  <2>4. \A i \in 1 .. L - 1 : i + 1 \in 1 .. L /\ i + 1 \in 2 .. L
    BY <1>0
  <2>5. \A i, j \in 1 .. L - 1 : i < j => Before(list'[i], list'[j])
    <3> SUFFICES ASSUME NEW i \in 1 .. L - 1, NEW j \in 1 .. L - 1, i < j
                 PROVE  Before(list'[i], list'[j])
      OBVIOUS
    <3>1. i + 1 < j + 1
      BY <1>0
    <3>2. Before(list[i + 1], list[j + 1])
      BY <1>90, <2>4, <3>1
    <3> QED
      BY <2>2, <3>2
  <2>6. \A i \in 1 .. M, j \in 1 .. L - 1 : Before(out[i].f, list'[j])
    BY <1>90, <2>2, <2>3, <2>4
  <2>7. OrderFits'
    BY <1>0, <1>90, <2>0, <2>2, <2>3, <2>5, <2>6 DEF OrderFits
  <2>8. \A j \in 1 .. L - 1 : list'[j].n <= seen[list'[j].ch]
    BY <1>90, <2>2, <2>4
  <2>9. NumbersFit'
    BY <1>0, <1>90, <2>0, <2>2, <2>8 DEF NumbersFit
  <2> QED
    BY <2>7, <2>9
<1>9. CASE CallEnable
  <2>1. /\ UNCHANGED <<list, out, frame, seen>>
        /\ rpc' = "push" => rpc = "push"
        /\ rpc = "store" => rpc' = "store"
    BY <1>9 DEF CallEnable, Called, chInfo, recorder, history
  <2> QED
    BY <2>1, OrderKept
<1>10. CASE OpenBasket
  <2>1. /\ UNCHANGED <<list, out, frame, seen>>
        /\ rpc' = "push" => rpc = "push"
        /\ rpc = "store" => rpc' = "store"
    BY <1>10 DEF OpenBasket, chInfo, recorder, manager, bounds
  <2> QED
    BY <2>1, OrderKept
<1>11. CASE OpenFails
  <2>1. /\ UNCHANGED <<list, out, frame, seen>>
        /\ rpc' = "push" => rpc = "push"
        /\ rpc = "store" => rpc' = "store"
    BY <1>11 DEF OpenFails, Return, chInfo, recorder, history
  <2> QED
    BY <2>1, OrderKept
<1>12. CASE Enable
  <2>1. /\ UNCHANGED <<list, out, frame, seen>>
        /\ rpc' = "push" => rpc = "push"
        /\ rpc = "store" => rpc' = "store"
    BY <1>12 DEF Enable, recorder, bounds
  <2> QED
    BY <2>1, OrderKept
<1>13. CASE DisableClosed
  <2>1. /\ UNCHANGED <<list, out, frame, seen>>
        /\ rpc' = "push" => rpc = "push"
        /\ rpc = "store" => rpc' = "store"
    BY <1>13 DEF DisableClosed, Return, chInfo, recorder, history, bounds
  <2> QED
    BY <2>1, OrderKept
<1>14. CASE EnableDuration
  <2>1. /\ UNCHANGED <<list, out, frame, seen>>
        /\ rpc' = "push" => rpc = "push"
        /\ rpc = "store" => rpc' = "store"
    BY <1>14 DEF EnableDuration, Return, chInfo, recorder, history, bounds
  <2> QED
    BY <2>1, OrderKept
<1>15. CASE CallExit
  <2>1. /\ UNCHANGED <<list, out, frame, seen>>
        /\ rpc' = "push" => rpc = "push"
        /\ rpc = "store" => rpc' = "store"
    BY <1>15 DEF CallExit, Called, recorder
  <2> QED
    BY <2>1, OrderKept
<1>16. CASE Exit
  <2>1. /\ UNCHANGED <<list, out, frame, seen>>
        /\ rpc' = "push" => rpc = "push"
        /\ rpc = "store" => rpc' = "store"
    BY <1>16 DEF Exit, Return, chInfo, recorder, history
  <2> QED
    BY <2>1, OrderKept
<1>17. CASE CallPreRec
  <2>1. /\ UNCHANGED <<list, out, frame, seen>>
        /\ rpc' = "push" => rpc = "push"
        /\ rpc = "store" => rpc' = "store"
    BY <1>17 DEF CallPreRec, Called, recorder, history
  <2> QED
    BY <2>1, OrderKept
<1>18. CASE SetDuration
  <2>1. /\ UNCHANGED <<list, out, frame, seen>>
        /\ rpc' = "push" => rpc = "push"
        /\ rpc = "store" => rpc' = "store"
    BY <1>18 DEF SetDuration, Return, chInfo, recorder, history, bounds
  <2> QED
    BY <2>1, OrderKept
<1>19. CASE Flush
  <2>0. /\ UNCHANGED <<seen, rpc, frame>> /\ list' = <<>> /\ rpc \in {"idle", "push"}
    BY <1>19 DEF Flush, recorder, LockFits, Types, TypeOK
  <2>1. PICK keep \in SUBSET (DOMAIN list) :
          IF basket = "opened" THEN Recorded(FramesAt(Kept(keep))) ELSE UNCHANGED <<out, cut>>
    BY <1>19 DEF Flush
  <2>2. Waiting = 1 .. L /\ Waiting' = {} /\ DOMAIN list' = {}
    BY <2>0 DEF Waiting
  <2>3. rpc = "push" => /\ \A i \in 1 .. M : Before(out[i].f, frame)
                        /\ \A j \in 1 .. L : Before(list[j], frame)
                        /\ frame.n = seen[frame.ch]
    BY <1>0 DEF OrderFits, NumbersFit
  <2>4. CASE basket = "opened"
    <3> DEFINE K == Kept(keep)
               C == Cardinality(K)
    <3>1. K \in SUBSET (1 .. L)
      BY KeptPlaces
    <3> HIDE DEF K
    <3>2. Recorded(FramesAt(K))
      BY <2>1, <2>4 DEF K
    <3>3. /\ C \in Nat /\ out' \in Seq(Entry) /\ Len(out') = M + C
          /\ \A i \in 1 .. M : out'[i] = out[i]
          /\ \A k \in 1 .. C : Place(K, k) \in K /\ out'[M + k].f = list[Place(K, k)]
          /\ \A k, m \in 1 .. C : k < m => Place(K, k) < Place(K, m)
      BY <3>1, <3>2, PlacesRecorded
    <3>4. \A k \in 1 .. C : Place(K, k) \in 1 .. L
      BY <3>1, <3>3
    <3>5. DOMAIN out' = 1 .. M + C
      BY <3>3
    <3>6. \A i \in 1 .. M + C : i \in 1 .. M \/ (i - M \in 1 .. C /\ i = M + (i - M))
      BY <1>0, <3>3
    <3>7. \A i \in 1 .. M + C :
            \/ i \in 1 .. M /\ out'[i].f = out[i].f
            \/ i - M \in 1 .. C /\ out'[i].f = list[Place(K, i - M)]
      BY <3>3, <3>6
    <3>8. \A i, j \in 1 .. M + C : i < j => Before(out'[i].f, out'[j].f)
      <4> SUFFICES ASSUME NEW i \in 1 .. M + C, NEW j \in 1 .. M + C, i < j
                   PROVE  Before(out'[i].f, out'[j].f)
        OBVIOUS
      <4>1. CASE j \in 1 .. M
        <5>1. i \in 1 .. M
          BY <1>0, <4>1
        <5> QED
          BY <1>90, <3>3, <4>1, <5>1
      <4>2. CASE i \in 1 .. M /\ j - M \in 1 .. C
        <5>1. out'[j].f = list[Place(K, j - M)] /\ Place(K, j - M) \in 1 .. L
          BY <1>0, <3>4, <3>7, <4>2
        <5> QED
          BY <1>90, <2>2, <3>3, <4>2, <5>1
      <4>3. CASE i - M \in 1 .. C /\ j - M \in 1 .. C
        <5>1. /\ out'[j].f = list[Place(K, j - M)] /\ Place(K, j - M) \in 1 .. L
              /\ out'[i].f = list[Place(K, i - M)] /\ Place(K, i - M) \in 1 .. L
          <6>1. i \notin 1 .. M /\ j \notin 1 .. M
            BY <1>0, <4>3
          <6>2. /\ out'[j].f = list[Place(K, j - M)]
                /\ out'[i].f = list[Place(K, i - M)]
            BY <3>7, <6>1
          <6> QED
            BY <3>4, <4>3, <6>2
        <5>2. i - M < j - M
          BY <1>0
        <5>3. Place(K, i - M) < Place(K, j - M)
          BY <3>3, <4>3, <5>2
        <5>4. Before(list[Place(K, i - M)], list[Place(K, j - M)])
          BY <1>90, <5>1, <5>3
        <5> QED
          BY <5>1, <5>4
      <4> QED
        BY <3>6, <4>1, <4>2, <4>3
    <3>9. \A i \in 1 .. M + C : out'[i].f.n <= seen[out'[i].f.ch]
      BY <1>90, <3>4, <3>7
    <3>10. rpc = "push" => \A i \in 1 .. M + C : Before(out'[i].f, frame)
      BY <2>3, <3>4, <3>7
    <3>11. OrderFits'
      BY <2>0, <2>2, <3>5, <3>8, <3>10 DEF OrderFits
    <3>12. NumbersFit'
      BY <2>0, <2>2, <2>3, <3>5, <3>9 DEF NumbersFit
    <3> QED
      BY <3>11, <3>12
  <2>5. CASE basket # "opened"
    <3>1. out' = out
      BY <2>1, <2>5
    <3> QED
      BY <1>0, <1>90, <2>0, <2>2, <2>3, <3>1 DEF OrderFits, NumbersFit
  <2> QED
    BY <2>4, <2>5
<1>20. CASE Tick
  <2>1. /\ UNCHANGED <<list, out, frame, seen>>
        /\ rpc' = "push" => rpc = "push"
        /\ rpc = "store" => rpc' = "store"
    BY <1>20 DEF Tick, chInfo, recorder, manager, history
  <2> QED
    BY <2>1, OrderKept
<1>21. CASE UNCHANGED vars
  BY <1>21, OrderKept DEF vars
<1> QED
  BY <1>1, <1>2, <1>3, <1>4, <1>5, <1>6, <1>7, <1>8, <1>9, <1>10, <1>11, <1>12, <1>13, <1>14, <1>15, <1>16, <1>17, <1>18, <1>19, <1>20, <1>21 DEF Next
LEMMA OrderInvInit == Init => OrderInv
<1> SUFFICES ASSUME Init PROVE OrderInv
  OBVIOUS
<1>1. list = <<>> /\ out = <<>> /\ rpc = "idle"
  BY DEF Init
<1>2. LockFits /\ HeadStays /\ WaitFits
  BY <1>1 DEF LockFits, HeadStays, WaitFits
<1>3. OrderFits /\ NumbersFit
  BY <1>1 DEF OrderFits, NumbersFit, Waiting
<1> QED
  BY <1>2, <1>3, InitTypes DEF OrderInv

LEMMA OrderInvNext == OrderInv /\ [Next]_vars => OrderInv'
  BY TypesNext, ShapeNext, OrderNext DEF OrderInv

LEMMA OrderInvariant == Spec => []OrderInv
  BY OrderInvInit, OrderInvNext, PTL DEF Spec

\* The list and the two threads' records keep their types, through failed writes and
\* allocations, flushes and calls in the middle of a frame.
THEOREM TypeCorrect == Spec => []TypeOK
<1>1. OrderInv => TypeOK
  BY DEF OrderInv, Types
<1> QED
  BY <1>1, OrderInvariant, PTL

\* A channel's video is recorded in the order of its capture and no frame twice,
\* whatever the manager calls meanwhile (PRELIST_add_tail_vdo, PRELIST_check_time,
\* PRELIST_flush).
THEOREM OrderOfCapture == Spec => []RecordedInOrder
<1>1. OrderInv => RecordedInOrder
  BY DEF OrderInv, OrderFits, Before, RecordedInOrder
<1> QED
  BY <1>1, OrderInvariant, PTL

\* The head that the recording thread writes and deletes, and a tail behind it, stay
\* in the list while it does: no flush frees them (PRELIST_delete_head).
THEOREM HeadIsKept == Spec => []HeadStays
<1>1. OrderInv => HeadStays
  BY DEF OrderInv
<1> QED
  BY <1>1, OrderInvariant, PTL

\* Between two frames the list spans no more than the longest pre-record time
\* (PRELIST_check_time).
THEOREM ListIsBounded == Spec => []WaitBounded
<1>1. OrderInv => WaitBounded
  BY DEF OrderInv, WaitFits, WaitBounded, Waits
<1> QED
  BY <1>1, OrderInvariant, PTL

---------------------------------------------------------------------------
(* Calls that do not overlap a frame *)

LEMMA OneAtATimeNext ==
  ASSUME ~Overlap, Types, OneAtATime, [Next]_vars
  PROVE  OneAtATime'
<1> USE DEF OneAtATime, Types, TypeOK
<1>1. CASE Capture
  BY <1>1 DEF Capture, Idle, chInfo, manager
<1>2. CASE Push
  BY <1>2 DEF Push, chInfo, recorder, manager, history, bounds
<1>3. CASE PushFails
  BY <1>3 DEF PushFails, Idle, chInfo, recorder, manager
<1>4. CASE ReadState
  BY <1>4 DEF ReadState, chInfo, manager, history, bounds
<1>5. CASE CheckDone
  BY <1>5 DEF CheckDone, Idle, chInfo, manager, history, bounds
<1>6. CASE WriteHead
  BY <1>6 DEF WriteHead, chInfo, manager, bounds
<1>7. CASE WriteFails
  BY <1>7 DEF WriteFails, manager
<1>8. CASE StoreState
  BY <1>8 DEF StoreState, manager, history, bounds
<1>9. CASE CallEnable
  BY <1>9 DEF CallEnable, Called, chInfo, recorder, history
<1>10. CASE OpenBasket
  BY <1>10 DEF OpenBasket, chInfo, recorder, manager, bounds
<1>11. CASE OpenFails
  BY <1>11 DEF OpenFails, Return, chInfo, recorder, history
<1>12. CASE Enable
  BY <1>12 DEF Enable, recorder, bounds
<1>13. CASE DisableClosed
  BY <1>13 DEF DisableClosed, Return, chInfo, recorder, history, bounds
<1>14. CASE EnableDuration
  BY <1>14 DEF EnableDuration, Return, chInfo, recorder, history, bounds
<1>15. CASE CallExit
  BY <1>15 DEF CallExit, Called, recorder
<1>16. CASE Exit
  BY <1>16 DEF Exit, Return, chInfo, recorder, history
<1>17. CASE CallPreRec
  BY <1>17 DEF CallPreRec, Called, recorder, history
<1>18. CASE SetDuration
  BY <1>18 DEF SetDuration, Return, chInfo, recorder, history, bounds
<1>19. CASE Flush
  BY <1>19 DEF Flush, Return, chInfo, recorder, bounds
<1>20. CASE Tick
  BY <1>20 DEF Tick, chInfo, recorder, manager, history
<1>21. CASE UNCHANGED vars
  BY <1>21 DEF vars
<1> QED
  BY <1>1, <1>2, <1>3, <1>4, <1>5, <1>6, <1>7, <1>8, <1>9, <1>10, <1>11, <1>12, <1>13, <1>14, <1>15, <1>16, <1>17, <1>18, <1>19, <1>20, <1>21 DEF Next

LEMMA StoppedNext ==
  ASSUME ~Overlap, Types, OneAtATime, StoppedFits, [Next]_vars
  PROVE  StoppedFits'
<1> USE DEF OneAtATime, StoppedFits, Types, TypeOK
<1>1. CASE Capture
  BY <1>1 DEF Capture, Idle, chInfo, manager
<1>2. CASE Push
  BY <1>2 DEF Push, chInfo, recorder, manager, history, bounds
<1>3. CASE PushFails
  BY <1>3 DEF PushFails, Idle, chInfo, recorder, manager
<1>4. CASE ReadState
  BY <1>4 DEF ReadState, chInfo, manager, history, bounds
<1>5. CASE CheckDone
  BY <1>5 DEF CheckDone, Idle, chInfo, manager, history, bounds
<1>6. CASE WriteHead
  BY <1>6 DEF WriteHead, chInfo, manager, bounds
<1>7. CASE WriteFails
  BY <1>7 DEF WriteFails, manager
<1>8. CASE StoreState
  <2>1. mpc = "idle" /\ opened /\ UNCHANGED <<mpc, opened>>
    BY <1>8 DEF StoreState, manager
  <2> QED
    BY <2>1
<1>9. CASE CallEnable
  BY <1>9 DEF CallEnable, Called, chInfo, recorder, history
<1>10. CASE OpenBasket
  BY <1>10 DEF OpenBasket, chInfo, recorder, manager, bounds
<1>11. CASE OpenFails
  BY <1>11 DEF OpenFails, Return, chInfo, recorder, history
<1>12. CASE Enable
  BY <1>12 DEF Enable, recorder, bounds
<1>13. CASE DisableClosed
  BY <1>13 DEF DisableClosed, Return, chInfo, recorder, history, bounds
<1>14. CASE EnableDuration
  BY <1>14 DEF EnableDuration, Return, chInfo, recorder, history, bounds
<1>15. CASE CallExit
  BY <1>15 DEF CallExit, Called, recorder
<1>16. CASE Exit
  BY <1>16 DEF Exit, Return, chInfo, recorder, history
<1>17. CASE CallPreRec
  BY <1>17 DEF CallPreRec, Called, recorder, history
<1>18. CASE SetDuration
  BY <1>18 DEF SetDuration, Return, chInfo, recorder, history, bounds
<1>19. CASE Flush
  BY <1>19 DEF Flush, Return, chInfo, recorder, bounds
<1>20. CASE Tick
  BY <1>20 DEF Tick, chInfo, recorder, manager, history
<1>21. CASE UNCHANGED vars
  BY <1>21 DEF vars
<1> QED
  BY <1>1, <1>2, <1>3, <1>4, <1>5, <1>6, <1>7, <1>8, <1>9, <1>10, <1>11, <1>12, <1>13, <1>14, <1>15, <1>16, <1>17, <1>18, <1>19, <1>20, <1>21 DEF Next

LEMMA WriteNext ==
  ASSUME ~Overlap, Types, OneAtATime, WriteFits, [Next]_vars
  PROVE  WriteFits'
<1> USE DEF OneAtATime, WriteFits
<1>1. CASE Capture
  BY <1>1 DEF Capture, Idle, chInfo, manager
<1>2. CASE Push
  BY <1>2 DEF Push, chInfo, recorder, manager, history, bounds
<1>3. CASE PushFails
  BY <1>3 DEF PushFails, Idle, chInfo, recorder, manager
<1>4. CASE ReadState
  BY <1>4 DEF ReadState, chInfo, manager, history, bounds, NextState
<1>5. CASE CheckDone
  BY <1>5 DEF CheckDone, Idle, chInfo, manager, history, bounds
<1>6. CASE WriteHead
  BY <1>6 DEF WriteHead, chInfo, manager, bounds
<1>7. CASE WriteFails
  BY <1>7 DEF WriteFails, manager
<1>8. CASE StoreState
  BY <1>8 DEF StoreState, manager, history, bounds
<1>9. CASE CallEnable
  BY <1>9 DEF CallEnable, Called, chInfo, recorder, history
<1>10. CASE OpenBasket
  BY <1>10 DEF OpenBasket, chInfo, recorder, manager, bounds
<1>11. CASE OpenFails
  BY <1>11 DEF OpenFails, Return, chInfo, recorder, history
<1>12. CASE Enable
  BY <1>12 DEF Enable, recorder, bounds
<1>13. CASE DisableClosed
  BY <1>13 DEF DisableClosed, Return, chInfo, recorder, history, bounds
<1>14. CASE EnableDuration
  BY <1>14 DEF EnableDuration, Return, chInfo, recorder, history, bounds
<1>15. CASE CallExit
  BY <1>15 DEF CallExit, Called, recorder
<1>16. CASE Exit
  BY <1>16 DEF Exit, Return, chInfo, recorder, history
<1>17. CASE CallPreRec
  BY <1>17 DEF CallPreRec, Called, recorder, history
<1>18. CASE SetDuration
  BY <1>18 DEF SetDuration, Return, chInfo, recorder, history, bounds
<1>19. CASE Flush
  BY <1>19 DEF Flush, Return, chInfo, recorder, bounds
<1>20. CASE Tick
  BY <1>20 DEF Tick, chInfo, recorder, manager, history
<1>21. CASE UNCHANGED vars
  BY <1>21 DEF vars
<1> QED
  BY <1>1, <1>2, <1>3, <1>4, <1>5, <1>6, <1>7, <1>8, <1>9, <1>10, <1>11, <1>12, <1>13, <1>14, <1>15, <1>16, <1>17, <1>18, <1>19, <1>20, <1>21 DEF Next

LEMMA KindsNext ==
  ASSUME Types, HeadStays, KindsFit, [Next]_vars
  PROVE  KindsFit'
<1>0. /\ list \in Seq(FrameType) /\ Len(list) \in Nat /\ DOMAIN list = 1 .. Len(list)
      /\ presec \in [Channels -> Nat]
  BY Frames DEF Types, TypeOK
<1> USE DEF KindsFit
<1>1. CASE Capture
  <2>1. PICK c \in Channels, k \in Kinds : rpc' = "push" => frame'.kind = k
    BY <1>1 DEF Capture, Idle
  <2>2. UNCHANGED <<list, mpc, call, presec>>
    BY <1>1 DEF Capture, manager, chInfo
  <2> QED
    BY <2>1, <2>2
<1>2. CASE Push
  <2>1. /\ UNCHANGED <<mpc, call, presec>> /\ rpc = "push" /\ rpc' = "check"
        /\ list' = Append(list, frame) /\ frame \in FrameType
    BY <1>2 DEF Push, manager, chInfo, Types
  <2>2. /\ DOMAIN list' = 1 .. Len(list) + 1 /\ list'[Len(list) + 1] = frame
        /\ \A i \in 1 .. Len(list) : list'[i] = list[i]
    BY <1>0, <2>1, AppendSeq
  <2>3. \A i \in 1 .. Len(list) + 1 : i \in 1 .. Len(list) \/ i = Len(list) + 1
    BY <1>0
  <2>4. \A i \in DOMAIN list' : list'[i].kind \in Kinds
    BY <1>0, <2>1, <2>2, <2>3
  <2> QED
    BY <2>1, <2>4
<1>3. CASE PushFails
  BY <1>3 DEF PushFails, Idle, chInfo, recorder, manager
<1>4. CASE ReadState
  BY <1>4 DEF ReadState, chInfo, manager, history, bounds
<1>5. CASE CheckDone
  BY <1>5 DEF CheckDone, Idle, chInfo, manager, history, bounds
<1>6. CASE WriteHead
  BY <1>6 DEF WriteHead, chInfo, manager, bounds
<1>7. CASE WriteFails
  BY <1>7 DEF WriteFails, manager
<1>8. CASE StoreState
  <2>1. /\ UNCHANGED <<mpc, call, presec>> /\ rpc = "store" /\ rpc' = "check"
        /\ list' = Tail(list)
    BY <1>8 DEF StoreState, manager
  <2>2. list # <<>>
    BY <1>0, <2>1 DEF HeadStays
  <2>3. /\ DOMAIN list' = 1 .. Len(list) - 1
        /\ \A i \in 1 .. Len(list) - 1 : list'[i] = list[i + 1]
    BY <1>0, <2>1, <2>2, TailSeq
  <2>4. \A i \in 1 .. Len(list) - 1 : i + 1 \in 1 .. Len(list)
    BY <1>0
  <2>5. \A i \in DOMAIN list' : list'[i].kind \in Kinds
    BY <1>0, <2>3, <2>4
  <2> QED
    BY <2>1, <2>5
<1>9. CASE CallEnable
  BY <1>9 DEF CallEnable, Called, chInfo, recorder, history
<1>10. CASE OpenBasket
  BY <1>10 DEF OpenBasket, chInfo, recorder, manager, bounds
<1>11. CASE OpenFails
  BY <1>11 DEF OpenFails, Return, chInfo, recorder, history
<1>12. CASE Enable
  BY <1>12 DEF Enable, recorder, bounds
<1>13. CASE DisableClosed
  BY <1>13 DEF DisableClosed, Return, chInfo, recorder, history, bounds
<1>14. CASE EnableDuration
  BY <1>14 DEF EnableDuration, Return, chInfo, recorder, history, bounds
<1>15. CASE CallExit
  BY <1>15 DEF CallExit, Called, recorder
<1>16. CASE Exit
  BY <1>16 DEF Exit, Return, chInfo, recorder, history
<1>17. CASE CallPreRec
  <2> PICK c \in Channels, s \in PreSecs : Called("presec", c, s) /\ presec' = [presec EXCEPT ![c] = s]
    BY <1>17 DEF CallPreRec
  <2>1. call'.ch = c /\ call'.arg = s /\ mpc' = "presec" /\ presec'[c] = s
    BY <1>0 DEF Called
  <2>2. UNCHANGED <<list, rpc, frame>>
    BY <1>17 DEF CallPreRec, recorder
  <2> QED
    BY <2>1, <2>2
<1>18. CASE SetDuration
  <2>1. /\ UNCHANGED <<list, rpc, frame>> /\ mpc = "presec" /\ mpc' \in {"flush", "idle"}
        /\ mpc' = "flush" => NoPreRecord
    BY <1>18 DEF SetDuration, Return, recorder
  <2>2. NoPreRecord => 0 \in PreSecs
    BY <2>1 DEF NoPreRecord, Types
  <2> QED
    BY <2>1, <2>2
<1>19. CASE Flush
  <2>1. UNCHANGED <<rpc, frame>> /\ mpc' = "idle" /\ list' = <<>>
    BY <1>19 DEF Flush, Return, recorder
  <2> QED
    BY <2>1
<1>20. CASE Tick
  BY <1>20 DEF Tick, chInfo, recorder, manager, history
<1>21. CASE UNCHANGED vars
  BY <1>21 DEF vars
<1> QED
  BY <1>1, <1>2, <1>3, <1>4, <1>5, <1>6, <1>7, <1>8, <1>9, <1>10, <1>11, <1>12, <1>13, <1>14, <1>15, <1>16, <1>17, <1>18, <1>19, <1>20, <1>21 DEF Next

LEMMA StartedStays ==
  ASSUME NEW c, Len(out) \in Nat, DOMAIN out = 1 .. Len(out), session' = session,
         DOMAIN out \subseteq DOMAIN out', \A i \in DOMAIN out : out'[i] = out[i],
         Started(c)
  PROVE  Started(c)'
  BY DEF Started

LEMMA StartNext ==
  ASSUME ~Overlap, Types, HeadStays, OneAtATime, StoppedFits, WriteFits, StartFits,
         [Next]_vars
  PROVE  StartFits'
<1>0. /\ list \in Seq(FrameType) /\ out \in Seq(Entry) /\ Len(list) \in Nat
      /\ Len(out) \in Nat /\ DOMAIN out = 1 .. Len(out)
      /\ saveState \in [Channels -> {"idle", "open", "write"}]
  BY Frames DEF Types, TypeOK
<1>90. ASSUME UNCHANGED <<out, session>>,
              \A c \in Channels : StateOf(c)' = "write" => StateOf(c) = "write",
              basket' = "opened" => basket = "opened"
       PROVE  StartFits'
  BY <1>90 DEF StartFits, Started
<1>1. CASE Capture
  <2>1. UNCHANGED <<out, session, saveState, basket>> /\ rpc # "store" /\ rpc' # "store"
    BY <1>1 DEF Capture, Idle, chInfo, manager
  <2>2. \A c \in Channels : StateOf(c)' = StateOf(c)
    BY <2>1 DEF StateOf
  <2> QED
    BY <1>90, <2>1, <2>2
<1>2. CASE Push
  <2>1. UNCHANGED <<out, session, saveState, basket>> /\ rpc # "store" /\ rpc' # "store"
    BY <1>2 DEF Push, chInfo, recorder, manager, history, bounds
  <2>2. \A c \in Channels : StateOf(c)' = StateOf(c)
    BY <2>1 DEF StateOf
  <2> QED
    BY <1>90, <2>1, <2>2
<1>3. CASE PushFails
  <2>1. UNCHANGED <<out, session, saveState, basket>> /\ rpc # "store" /\ rpc' # "store"
    BY <1>3 DEF PushFails, Idle, chInfo, recorder, manager
  <2>2. \A c \in Channels : StateOf(c)' = StateOf(c)
    BY <2>1 DEF StateOf
  <2> QED
    BY <1>90, <2>1, <2>2
<1>4. CASE ReadState
  <2>1. /\ UNCHANGED <<out, session, list, saveState, basket>> /\ rpc = "check"
        /\ rpc' = IF next' = "write" THEN "write" ELSE "store"
    BY <1>4 DEF ReadState, chInfo, history
  <2>2. \A c \in Channels : StateOf(c)' = "write" => StateOf(c) = "write"
    BY <2>1 DEF StateOf
  <2> QED
    BY <1>90, <2>1, <2>2
<1>5. CASE CheckDone
  <2>1. UNCHANGED <<out, session, saveState, basket>> /\ rpc # "store" /\ rpc' # "store"
    BY <1>5 DEF CheckDone, Idle, chInfo, manager, history, bounds
  <2>2. \A c \in Channels : StateOf(c)' = StateOf(c)
    BY <2>1 DEF StateOf
  <2> QED
    BY <1>90, <2>1, <2>2
<1>6. CASE WriteHead
  <2>1. /\ UNCHANGED <<session, list, saveState, basket, next>> /\ rpc = "write" /\ rpc' = "store"
        /\ Recorded(<<Head(list)>>)
    BY <1>6 DEF WriteHead, chInfo
  <2>2. list # <<>>
    BY <1>0, <2>1 DEF HeadStays
  <2>3. Head(list) \in FrameType
    BY <1>0, <2>2, SeqEnds
  <2>4. /\ out' \in Seq(Entry) /\ Len(out') = Len(out) + 1
        /\ \A i \in 1 .. Len(out) : out'[i] = out[i]
        /\ out'[Len(out) + 1] = [f |-> Head(list), session |-> session, cut |-> cut[Head(list).ch]]
    BY <2>1, <2>3, OneRecorded
  <2>5. DOMAIN out' = 1 .. Len(out) + 1
    BY <2>4
  <2>6. DOMAIN out \subseteq DOMAIN out' /\ Len(out) + 1 \in DOMAIN out'
    BY <1>0, <2>5
  <2>7. Started(Head(list).ch)'
    <3>1. /\ out'[Len(out) + 1].f.ch = Head(list).ch
          /\ out'[Len(out) + 1].session = session'
      BY <2>1, <2>4
    <3> QED
      BY <2>1, <2>6, <3>1 DEF Started
  <2>8. \A c \in Channels : c # Head(list).ch => StateOf(c)' = StateOf(c)
    BY <2>1 DEF StateOf
  <2>9. \A c \in Channels : Started(c) => Started(c)'
    BY <1>0, <2>1, <2>4, <2>6, StartedStays
  <2> QED
    BY <2>1, <2>7, <2>8, <2>9 DEF StartFits
<1>7. CASE WriteFails
  <2>1. /\ UNCHANGED <<out, session, list, saveState>> /\ rpc = "write" /\ rpc' = "store"
        /\ basket' = "opened" => basket = "opened" /\ next' = "idle"
    BY <1>7 DEF WriteFails
  <2>2. basket' = "opened" => \A c \in Channels : StateOf(c)' = "write" => StateOf(c) = "write"
    BY <2>1 DEF StateOf
  <2> QED
    BY <2>1, <2>2 DEF StartFits, Started
<1>8. CASE StoreState
  <2>1. /\ UNCHANGED <<out, session, basket>> /\ rpc = "store" /\ rpc' = "check"
        /\ saveState' = [saveState EXCEPT ![Head(list).ch] = next]
    BY <1>8 DEF StoreState, history
  <2>2. \A c \in Channels : StateOf(c)' = StateOf(c)
    BY <1>0, <2>1 DEF StateOf
  <2> QED
    BY <1>90, <2>1, <2>2
<1>9. CASE CallEnable
  <2>1. UNCHANGED <<out, session, list, next, rpc, saveState, basket>>
    BY <1>9 DEF CallEnable, Called, chInfo, recorder, history
  <2>2. \A c \in Channels : StateOf(c)' = StateOf(c)
    BY <2>1 DEF StateOf
  <2> QED
    BY <1>90, <2>1, <2>2
<1>10. CASE OpenBasket
  <2>1. UNCHANGED <<saveState, rpc>> /\ rpc = "idle" /\ ~opened
    BY <1>10 DEF OpenBasket, OneAtATime, chInfo, recorder
  <2>2. \A c \in Channels : StateOf(c)' # "write"
    BY <2>1 DEF StateOf, StoppedFits
  <2> QED
    BY <2>2 DEF StartFits
<1>11. CASE OpenFails
  <2>1. UNCHANGED <<out, session, list, next, rpc, saveState, basket>>
    BY <1>11 DEF OpenFails, Return, chInfo, recorder, history
  <2>2. \A c \in Channels : StateOf(c)' = StateOf(c)
    BY <2>1 DEF StateOf
  <2> QED
    BY <1>90, <2>1, <2>2
<1>12. CASE Enable
  <2>1. UNCHANGED <<out, session, list, next, rpc, saveState, basket>>
    BY <1>12 DEF Enable, recorder, bounds
  <2>2. \A c \in Channels : StateOf(c)' = StateOf(c)
    BY <2>1 DEF StateOf
  <2> QED
    BY <1>90, <2>1, <2>2
<1>13. CASE DisableClosed
  <2>1. UNCHANGED <<out, session, list, next, rpc, saveState, basket>>
    BY <1>13 DEF DisableClosed, Return, chInfo, recorder, history, bounds
  <2>2. \A c \in Channels : StateOf(c)' = StateOf(c)
    BY <2>1 DEF StateOf
  <2> QED
    BY <1>90, <2>1, <2>2
<1>14. CASE EnableDuration
  <2>1. UNCHANGED <<out, session, list, next, rpc, saveState, basket>>
    BY <1>14 DEF EnableDuration, Return, chInfo, recorder, history, bounds
  <2>2. \A c \in Channels : StateOf(c)' = StateOf(c)
    BY <2>1 DEF StateOf
  <2> QED
    BY <1>90, <2>1, <2>2
<1>15. CASE CallExit
  <2>1. UNCHANGED rpc /\ rpc = "idle" /\ saveState' = [c \in Channels |-> "idle"]
    BY <1>15 DEF CallExit, Called, recorder
  <2>2. \A c \in Channels : StateOf(c)' # "write"
    BY <2>1 DEF StateOf
  <2> QED
    BY <2>2 DEF StartFits
<1>16. CASE Exit
  <2>1. UNCHANGED <<out, session, list, saveState, rpc, next>> /\ (basket' = "opened" => basket = "opened")
    BY <1>16 DEF Exit, history, chInfo, recorder
  <2>2. \A c \in Channels : StateOf(c)' = StateOf(c)
    BY <2>1 DEF StateOf
  <2> QED
    BY <1>90, <2>1, <2>2
<1>17. CASE CallPreRec
  <2>1. UNCHANGED <<out, session, list, next, rpc, saveState, basket>>
    BY <1>17 DEF CallPreRec, Called, recorder, history
  <2>2. \A c \in Channels : StateOf(c)' = StateOf(c)
    BY <2>1 DEF StateOf
  <2> QED
    BY <1>90, <2>1, <2>2
<1>18. CASE SetDuration
  <2>1. UNCHANGED <<out, session, list, next, rpc, saveState, basket>>
    BY <1>18 DEF SetDuration, Return, chInfo, recorder, history, bounds
  <2>2. \A c \in Channels : StateOf(c)' = StateOf(c)
    BY <2>1 DEF StateOf
  <2> QED
    BY <1>90, <2>1, <2>2
<1>19. CASE Flush
  <2>1. UNCHANGED <<session, saveState, rpc, basket>> /\ rpc = "idle"
    BY <1>19 DEF Flush, OneAtATime, recorder, chInfo
  <2>2. \A c \in Channels : StateOf(c)' = StateOf(c)
    BY <2>1 DEF StateOf
  <2>3. \A c \in Channels : Started(c) => Started(c)'
    <3>1. PICK keep \in SUBSET (DOMAIN list) :
            IF basket = "opened" THEN Recorded(FramesAt(Kept(keep))) ELSE UNCHANGED <<out, cut>>
      BY <1>19 DEF Flush
    <3>2. CASE basket = "opened"
      <4>1. /\ out' \in Seq(Entry) /\ Len(out') = Len(out) + Len(FramesAt(Kept(keep)))
            /\ \A i \in 1 .. Len(out) : out'[i] = out[i]
        BY <3>1, <3>2, KeptPlaces, RecordedSeq
      <4>2. Len(FramesAt(Kept(keep))) \in Nat
        BY KeptPlaces
      <4>3. DOMAIN out \subseteq DOMAIN out'
        BY <1>0, <4>1, <4>2
      <4> QED
        BY <1>0, <2>1, <4>1, <4>3, StartedStays
    <3>3. CASE basket # "opened"
      BY <2>1, <3>1, <3>3 DEF Started
    <3> QED
      BY <3>2, <3>3
  <2> QED
    BY <2>1, <2>2, <2>3 DEF StartFits
<1>20. CASE Tick
  <2>1. UNCHANGED <<out, session, list, next, rpc, saveState, basket>>
    BY <1>20 DEF Tick, chInfo, recorder, manager, history
  <2>2. \A c \in Channels : StateOf(c)' = StateOf(c)
    BY <2>1 DEF StateOf
  <2> QED
    BY <1>90, <2>1, <2>2
<1>21. CASE UNCHANGED vars
  <2>1. UNCHANGED <<out, session, list, next, rpc, saveState, basket>>
    BY <1>21 DEF vars
  <2>2. \A c \in Channels : StateOf(c)' = StateOf(c)
    BY <2>1 DEF StateOf
  <2> QED
    BY <1>90, <2>1, <2>2
<1> QED
  BY <1>1, <1>2, <1>3, <1>4, <1>5, <1>6, <1>7, <1>8, <1>9, <1>10, <1>11, <1>12, <1>13, <1>14, <1>15, <1>16, <1>17, <1>18, <1>19, <1>20, <1>21 DEF Next

\* A step that records nothing.
LEMMA KeyFrameKept ==
  ASSUME KeyFrameFirst, UNCHANGED out
  PROVE  KeyFrameFirst'
  BY DEF KeyFrameFirst, Same

LEMMA KeyFrameWrite ==
  ASSUME Types, HeadStays, WriteFits, StartFits, KeyFrameFirst, WriteHead
  PROVE  KeyFrameFirst'
<1> DEFINE M == Len(out)
           h == Head(list)
<1>0. /\ list \in Seq(FrameType) /\ M \in Nat /\ DOMAIN out = 1 .. M
  BY Frames DEF Types, TypeOK
<1>1. /\ rpc = "write" /\ basket = "opened" /\ Recorded(<<h>>)
  BY DEF WriteHead
<1>2. list # <<>>
  BY <1>0, <1>1 DEF HeadStays
<1>3. h \in FrameType /\ h.ch \in Channels
  BY <1>0, <1>2, SeqEnds, FrameFields
<1>4. /\ out' \in Seq(Entry) /\ Len(out') = M + 1
      /\ \A i \in 1 .. M : out'[i] = out[i]
      /\ out'[M + 1] = [f |-> h, session |-> session, cut |-> cut[h.ch]]
  BY <1>1, <1>3, OneRecorded
<1>5. DOMAIN out' = 1 .. M + 1
  BY <1>4
<1>6. SUFFICES ASSUME NEW i \in 1 .. M + 1, \A j \in 1 .. i - 1 : ~Same(out'[i], out'[j])
               PROVE  out'[i].f.kind = "I"
  BY <1>5 DEF KeyFrameFirst, Same
<1>7. CASE i \in 1 .. M
  <2>1. \A j \in 1 .. i - 1 : j \in 1 .. M
    BY <1>0, <1>7
  <2>2. \A j \in 1 .. i - 1 : ~Same(out[i], out[j])
    BY <1>4, <1>6, <1>7, <2>1
  <2> QED
    BY <1>0, <1>4, <1>7, <2>2 DEF KeyFrameFirst
<1>8. CASE i = M + 1
  <2>1. ~Started(h.ch)
    <3> SUFFICES ASSUME NEW j \in 1 .. M, out[j].f.ch = h.ch, out[j].session = session
                 PROVE  FALSE
      BY <1>0 DEF Started
    <3>1. j \in 1 .. i - 1 /\ out'[j] = out[j]
      BY <1>0, <1>4, <1>8
    <3>2. out'[i].f = h /\ out'[i].session = session
      BY <1>4, <1>8
    <3> QED
      BY <1>6, <3>1, <3>2 DEF Same
  <2>2. saveState[h.ch] # "write"
    BY <1>1, <1>3, <2>1 DEF StartFits, StateOf
  <2>3. h.kind = "I"
    BY <1>1, <2>2 DEF WriteFits
  <2> QED
    BY <1>4, <1>8, <2>3
<1> QED
  BY <1>0, <1>7, <1>8

\* A flush of video alone: the kept frames of a channel start with its first key
\* frame in the list.
LEMMA KeyFrameFlush ==
  ASSUME "A" \notin Kinds, Types, KindsFit, KeyFrameFirst, Flush
  PROVE  KeyFrameFirst'
<1> DEFINE M == Len(out)
           L == Len(list)
<1>0. /\ L \in Nat /\ DOMAIN list = 1 .. L /\ M \in Nat /\ DOMAIN out = 1 .. M
      /\ \A j \in 1 .. L : IsVideo(list[j])
  BY Frames DEF KindsFit, IsVideo
<1>1. PICK keep \in SUBSET (DOMAIN list) :
        IF basket = "opened" THEN Recorded(FramesAt(Kept(keep))) ELSE UNCHANGED <<out, cut>>
  BY DEF Flush
<1>2. CASE basket # "opened"
  BY <1>1, <1>2, KeyFrameKept
<1>3. CASE basket = "opened"
  <2> DEFINE K == Kept(keep)
             C == Cardinality(K)
  <2>1. K \in SUBSET (1 .. L)
    BY KeptPlaces
  <2>2. \A p \in K : \E q \in K : q <= p /\ list[q].ch = list[p].ch /\ list[q].kind = "I"
    <3> TAKE p \in K
    <3>1. p \in 1 .. L /\ IsVideo(list[p])
      BY <1>0, <2>1
    <3>2. PICK q \in 1 .. p : list[q].ch = list[p].ch /\ list[q].kind = "I"
      BY <3>1 DEF Kept
    <3>3. q \in 1 .. L /\ q <= p /\ q \in 1 .. q
      BY <1>0, <3>1
    <3>4. q \in K
      BY <1>0, <3>2, <3>3 DEF Kept
    <3> QED
      BY <3>2, <3>3, <3>4
  <2> HIDE DEF K
  <2>3. Recorded(FramesAt(K))
    BY <1>1, <1>3 DEF K
  <2>4. /\ C \in Nat /\ out' \in Seq(Entry) /\ Len(out') = M + C
        /\ \A i \in 1 .. M : out'[i] = out[i]
        /\ \A k \in 1 .. C : /\ Place(K, k) \in K
                            /\ out'[M + k].f = list[Place(K, k)]
                            /\ out'[M + k].session = session
        /\ \A k, m \in 1 .. C : k < m => Place(K, k) < Place(K, m)
        /\ \A p \in K : \E k \in 1 .. C : Place(K, k) = p
    BY <2>1, <2>3, PlacesRecorded
  <2>5. DOMAIN out' = 1 .. M + C
    BY <2>4
  <2>6. SUFFICES ASSUME NEW i \in 1 .. M + C, \A j \in 1 .. i - 1 : ~Same(out'[i], out'[j])
                 PROVE  out'[i].f.kind = "I"
    BY <2>5 DEF KeyFrameFirst, Same
  <2>7. CASE i \in 1 .. M
    <3>1. \A j \in 1 .. i - 1 : j \in 1 .. M
      BY <1>0, <2>7
    <3>2. \A j \in 1 .. i - 1 : ~Same(out[i], out[j])
      BY <2>4, <2>6, <2>7, <3>1
    <3> QED
      BY <1>0, <2>4, <2>7, <3>2 DEF KeyFrameFirst
  <2>8. CASE i \notin 1 .. M
    <3>1. PICK k \in 1 .. C : i = M + k
      <4>1. i - M \in 1 .. C /\ i = M + (i - M)
        BY <1>0, <2>4, <2>8
      <4> QED
        BY <4>1
    <3>2. Place(K, k) \in K /\ out'[i].f = list[Place(K, k)] /\ out'[i].session = session
      BY <2>4, <3>1
    <3>3. PICK q \in K : /\ q <= Place(K, k) /\ list[q].ch = list[Place(K, k)].ch
                        /\ list[q].kind = "I"
      BY <2>2, <3>2
    <3>4. PICK m \in 1 .. C : Place(K, m) = q
      BY <2>4
    <3>5. q \in Int /\ Place(K, k) \in Int
      <4>1. \A p \in K : p \in Int
        BY <2>1
      <4> QED
        BY <3>2, <4>1
    <3>6. CASE m < k
      <4>1. M + m \in 1 .. i - 1
        BY <1>0, <2>4, <3>1, <3>6
      <4>2. out'[M + m].f = list[q] /\ out'[M + m].session = session
        BY <2>4, <3>4
      <4>3. Same(out'[i], out'[M + m])
        BY <3>2, <3>3, <4>2 DEF Same
      <4> QED
        BY <2>6, <4>1, <4>3
    <3>7. CASE m = k
      BY <3>2, <3>3, <3>4, <3>7
    <3>8. CASE k < m
      <4>1. Place(K, k) < q
        BY <2>4, <3>4, <3>8
      <4> QED
        BY <3>3, <3>5, <4>1
    <3> QED
      BY <2>4, <3>6, <3>7, <3>8
  <2> QED
    BY <2>7, <2>8
<1> QED
  BY <1>2, <1>3

LEMMA KeyFrameNext ==
  ASSUME "A" \notin Kinds \/ 0 \notin PreSecs, Types, HeadStays, KindsFit, WriteFits,
         StartFits, KeyFrameFirst, [Next]_vars
  PROVE  KeyFrameFirst'
<1>1. CASE Capture
  BY <1>1, KeyFrameKept DEF Capture
<1>2. CASE Push
  BY <1>2, KeyFrameKept DEF Push, history
<1>3. CASE PushFails
  BY <1>3, KeyFrameKept DEF PushFails
<1>4. CASE ReadState
  BY <1>4, KeyFrameKept DEF ReadState, history
<1>5. CASE CheckDone
  BY <1>5, KeyFrameKept DEF CheckDone, history
<1>6. CASE WriteHead
  BY <1>6, KeyFrameWrite
<1>7. CASE WriteFails
  BY <1>7, KeyFrameKept DEF WriteFails
<1>8. CASE StoreState
  BY <1>8, KeyFrameKept DEF StoreState, history
<1>9. CASE CallEnable
  BY <1>9, KeyFrameKept DEF CallEnable, history
<1>10. CASE OpenBasket
  BY <1>10, KeyFrameKept DEF OpenBasket
<1>11. CASE OpenFails
  BY <1>11, KeyFrameKept DEF OpenFails, history
<1>12. CASE Enable
  BY <1>12, KeyFrameKept DEF Enable
<1>13. CASE DisableClosed
  BY <1>13, KeyFrameKept DEF DisableClosed, history
<1>14. CASE EnableDuration
  BY <1>14, KeyFrameKept DEF EnableDuration, history
<1>15. CASE CallExit
  BY <1>15, KeyFrameKept DEF CallExit
<1>16. CASE Exit
  BY <1>16, KeyFrameKept DEF Exit, history
<1>17. CASE CallPreRec
  BY <1>17, KeyFrameKept DEF CallPreRec, history
<1>18. CASE SetDuration
  BY <1>18, KeyFrameKept DEF SetDuration, history
<1>19. CASE Flush
  <2>1. 0 \in PreSecs
    BY <1>19 DEF Flush, KindsFit
  <2> QED
    BY <1>19, <2>1, KeyFrameFlush
<1>20. CASE Tick
  BY <1>20, KeyFrameKept DEF Tick, history
<1>21. CASE UNCHANGED vars
  BY <1>21, KeyFrameKept DEF vars
<1> QED
  BY <1>1, <1>2, <1>3, <1>4, <1>5, <1>6, <1>7, <1>8, <1>9, <1>10, <1>11, <1>12, <1>13, <1>14, <1>15, <1>16, <1>17, <1>18, <1>19, <1>20, <1>21 DEF Next

LEMMA StartInvInit == Init => StartInv
<1> SUFFICES ASSUME Init PROVE StartInv
  OBVIOUS
<1>1. /\ list = <<>> /\ out = <<>> /\ rpc = "idle" /\ mpc = "idle" /\ ~opened
      /\ basket = "closed" /\ saveState = [c \in Channels |-> "idle"]
  BY DEF Init
<1>2. OneAtATime /\ StoppedFits
  BY <1>1 DEF OneAtATime, StoppedFits
<1>3. KindsFit /\ WriteFits
  BY <1>1 DEF KindsFit, WriteFits
<1>4. StartFits /\ KeyFrameFirst
  BY <1>1 DEF StartFits, KeyFrameFirst
<1> QED
  BY <1>2, <1>3, <1>4 DEF StartInv

LEMMA StartInvNext ==
  ASSUME ~Overlap, "A" \notin Kinds \/ 0 \notin PreSecs
  PROVE  OrderInv /\ StartInv /\ [Next]_vars => StartInv'
  BY OneAtATimeNext, StoppedNext, KindsNext, WriteNext, StartNext, KeyFrameNext
     DEF OrderInv, StartInv

\* In every opening of the basket a channel starts with a key frame, provided that no
\* call overlaps the handling of a frame and that no flush takes audio along
\* (PRELIST_flush judges an audio frame by a channel number that was never set).
THEOREM RecordingsStartWithKeyFrame ==
  ASSUME ~Overlap, "A" \notin Kinds \/ 0 \notin PreSecs
  PROVE  Spec => []KeyFrameFirst
<1>1. StartInv => KeyFrameFirst
  BY DEF StartInv
<1> QED
  BY <1>1, OrderInvariant, StartInvInit, StartInvNext, PTL DEF Spec

---------------------------------------------------------------------------
(* The chain of the frames *)

\* What is recorded besides, or stopped, breaks no chain.
LEMMA FollowsStays ==
  ASSUME NEW o, NEW o2, NEW l, NEW l2, NEW W, NEW W2, NEW A, NEW A2, NEW c, NEW n, NEW j,
         \A i \in DOMAIN o : i \in DOMAIN o2 /\ o2[i] = o[i],
         \A i \in W \cup W2 : i < j => i \in W /\ i \in W2 /\ l2[i] = l[i],
         A2 \subseteq A,
         Follows(o, l, W, A, c, n, j)
  PROVE  Follows(o2, l2, W2, A2, c, n, j)
<1>1. CASE \E i \in DOMAIN o : IsFrame(o[i].f, c) /\ o[i].f.n = n - 1
  BY <1>1 DEF Follows
<1>2. CASE \E i \in W : i < j /\ IsFrame(l[i], c) /\ l[i].n = n - 1
  <2> PICK i \in W : i < j /\ IsFrame(l[i], c) /\ l[i].n = n - 1
    BY <1>2
  <2>1. i \in W2 /\ l2[i] = l[i]
    OBVIOUS
  <2>2. IsFrame(l2[i], c) /\ l2[i].n = n - 1
    BY <2>1
  <2> QED
    BY <2>1, <2>2 DEF Follows
<1>3. CASE c \notin A /\ \A i \in W : i < j => ~IsFrame(l[i], c)
  BY <1>3 DEF Follows
<1> QED
  BY <1>1, <1>2, <1>3 DEF Follows

\* The head leaves the frames that wait: recorded, or with its channel stopped.
LEMMA HeadLeaves ==
  ASSUME NEW o, NEW o2, NEW l, NEW L \in Nat, L > 0, NEW A, NEW A2, NEW c, NEW n \in Int,
         NEW j \in 2 .. L + 1,
         \A i \in DOMAIN o : i \in DOMAIN o2 /\ o2[i] = o[i],
         \A d \in A2 : d \in A \/ d = l[1].ch,
         l[1].ch \in A2 => IsVideo(l[1]) \/ l[1].ch \in A,
         l[1].ch \in A2 => \E i \in DOMAIN o2 : o2[i].f = l[1],
         \A i \in 1 .. L : l[i].n \in Int,
         \A i \in 1 .. L : i < j /\ IsFrame(l[i], c) => l[i].n < n,
         \A i \in 2 .. L : IsFrame(l[1], c) /\ IsFrame(l[i], c) => l[1].n < l[i].n,
         Follows(o, l, 1 .. L, A, c, n, j)
  PROVE  Follows(o2, l, 2 .. L, A2, c, n, j)
<1>1. CASE \E i \in DOMAIN o : IsFrame(o[i].f, c) /\ o[i].f.n = n - 1
  BY <1>1 DEF Follows
<1>2. CASE \E i \in 1 .. L : i < j /\ IsFrame(l[i], c) /\ l[i].n = n - 1
  <2> PICK i \in 1 .. L : i < j /\ IsFrame(l[i], c) /\ l[i].n = n - 1
    BY <1>2
  <2>1. CASE i # 1
    <3>1. i \in 2 .. L
      BY <2>1
    <3> QED
      BY <3>1 DEF Follows
  <2>2. CASE i = 1 /\ l[1].ch \in A2
    <3>1. PICK k \in DOMAIN o2 : o2[k].f = l[1]
      BY <2>2
    <3>2. IsFrame(o2[k].f, c) /\ o2[k].f.n = n - 1
      BY <2>2, <3>1
    <3> QED
      BY <3>2 DEF Follows
  <2>3. CASE i = 1 /\ l[1].ch \notin A2
    <3>1. c \notin A2 /\ IsFrame(l[1], c) /\ l[1].n = n - 1
      BY <2>3 DEF IsFrame
    <3>2. \A k \in 2 .. L : k < j => ~IsFrame(l[k], c)
      <4> SUFFICES ASSUME NEW k \in 2 .. L, k < j, IsFrame(l[k], c) PROVE FALSE
        OBVIOUS
      <4>1. l[1].n < l[k].n /\ l[k].n < n /\ l[k].n \in Int
        BY <3>1
      <4> QED
        BY <3>1, <4>1
    <3> QED
      BY <3>1, <3>2 DEF Follows
  <2> QED
    BY <2>1, <2>2, <2>3
<1>3. CASE c \notin A /\ \A i \in 1 .. L : i < j => ~IsFrame(l[i], c)
  <2>1. \A i \in 2 .. L : i < j => ~IsFrame(l[i], c)
    BY <1>3
  <2>2. ~IsFrame(l[1], c)
    <3>1. 1 \in 1 .. L /\ 1 < j
      OBVIOUS
    <3> QED
      BY <1>3, <3>1
  <2>3. c \notin A2
    <3> SUFFICES ASSUME c \in A2 PROVE FALSE
      OBVIOUS
    <3>1. c = l[1].ch
      BY <1>3
    <3>2. IsVideo(l[1])
      BY <1>3, <3>1
    <3> QED
      BY <2>2, <3>1, <3>2 DEF IsFrame
  <2> QED
    BY <2>1, <2>3 DEF Follows
<1> QED
  BY <1>1, <1>2, <1>3 DEF Follows

\* The list moves up by one place when its head, long handled, is deleted.
LEMMA ListMovesUp ==
  ASSUME NEW o, NEW l, NEW l2, NEW L \in Nat, L > 0, NEW A, NEW c, NEW n, NEW j \in Nat,
         \A i \in 1 .. L - 1 : l2[i] = l[i + 1],
         Follows(o, l, 2 .. L, A, c, n, j + 1)
  PROVE  Follows(o, l2, 1 .. L - 1, A, c, n, j)
<1>1. CASE \E i \in DOMAIN o : IsFrame(o[i].f, c) /\ o[i].f.n = n - 1
  BY <1>1 DEF Follows
<1>2. CASE \E i \in 2 .. L : i < j + 1 /\ IsFrame(l[i], c) /\ l[i].n = n - 1
  <2> PICK i \in 2 .. L : i < j + 1 /\ IsFrame(l[i], c) /\ l[i].n = n - 1
    BY <1>2
  <2>1. i - 1 \in 1 .. L - 1 /\ i - 1 < j /\ (i - 1) + 1 = i
    OBVIOUS
  <2>2. l2[i - 1] = l[i]
    BY <2>1
  <2>3. IsFrame(l2[i - 1], c) /\ l2[i - 1].n = n - 1
    BY <2>2
  <2> QED
    BY <2>1, <2>3 DEF Follows
<1>3. CASE c \notin A /\ \A i \in 2 .. L : i < j + 1 => ~IsFrame(l[i], c)
  <2>1. \A i \in 1 .. L - 1 : i + 1 \in 2 .. L /\ (i < j => i + 1 < j + 1)
    OBVIOUS
  <2>2. \A i \in 1 .. L - 1 : i < j => ~IsFrame(l2[i], c)
    BY <1>3, <2>1
  <2> QED
    BY <1>3, <2>2 DEF Follows
<1> QED
  BY <1>1, <1>2, <1>3 DEF Follows

\* A step that leaves the frames where they are, and starts no channel.
LEMMA ChainStays ==
  ASSUME ChainFits, UNCHANGED <<out, list>>, Waiting' = Waiting, OnAir' \subseteq OnAir,
         rpc' = "push" => rpc = "push" /\ frame' = frame,
         seen' = seen,
         \A c \in Channels :
           ~missed'[c] /\ ~(rpc' = "push" /\ IsFrame(frame', c)) =>
             ~missed[c] /\ ~(rpc = "push" /\ IsFrame(frame, c))
  PROVE  ChainFits'
<1>1. \A c, n, j : Follows(out, list, Waiting, OnAir, c, n, j)
                     => Follows(out', list', Waiting', OnAir', c, n, j)
  BY FollowsStays
<1> QED
  BY <1>1 DEF ChainFits

\* The recording thread has done with the head.
LEMMA ChainHeadLeaves ==
  ASSUME Types, OrderFits, NumbersFit, ChainFits, list # <<>>,
         rpc \in {"check", "write"}, rpc' = "store", UNCHANGED <<list, seen, missed>>,
         \A i \in DOMAIN out : i \in DOMAIN out' /\ out'[i] = out[i],
         \A d \in OnAir' : d \in OnAir \/ d = list[1].ch,
         list[1].ch \in OnAir' => IsVideo(list[1]) \/ list[1].ch \in OnAir,
         list[1].ch \in OnAir' => \E i \in DOMAIN out' : out'[i].f = list[1]
  PROVE  ChainFits'
<1> DEFINE L == Len(list)
<1>0. /\ L \in Nat /\ DOMAIN list = 1 .. L /\ L > 0
      /\ list \in Seq(FrameType) /\ \A c \in Channels : seen[c] \in Nat
  BY Frames DEF Types, TypeOK
<1>1. Waiting = 1 .. L /\ Waiting' = 2 .. L
  BY DEF Waiting
<1>2. \A i \in 1 .. L : list[i].n \in Int /\ list[i].ch \in Channels
  BY <1>0, Frames, FrameFields
<1>3. \A i, j \in 1 .. L : i < j => Before(list[i], list[j])
  BY <1>0 DEF OrderFits
<1>4. \A i, j \in 1 .. L, c \in Channels :
        i < j /\ IsFrame(list[i], c) /\ IsFrame(list[j], c) => list[i].n < list[j].n
  BY <1>3 DEF Before, IsFrame
<1>5. \A i \in 2 .. L, c \in Channels :
        IsFrame(list[1], c) /\ IsFrame(list[i], c) => list[1].n < list[i].n
  <2>1. \A i \in 2 .. L : i \in 1 .. L /\ 1 \in 1 .. L /\ 1 < i
    BY <1>0
  <2> QED
    BY <1>4, <2>1
<1>6. \A c \in Channels, n \in Int, j \in 2 .. L + 1 :
        /\ \A i \in 1 .. L : i < j /\ IsFrame(list[i], c) => list[i].n < n
        /\ Follows(out, list, 1 .. L, OnAir, c, n, j)
        => Follows(out', list, 2 .. L, OnAir', c, n, j)
  <2> SUFFICES ASSUME NEW c \in Channels, NEW n \in Int, NEW j \in 2 .. L + 1,
                      \A i \in 1 .. L : i < j /\ IsFrame(list[i], c) => list[i].n < n,
                      Follows(out, list, 1 .. L, OnAir, c, n, j)
               PROVE  Follows(out', list, 2 .. L, OnAir', c, n, j)
    BY Zenon
  <2>1. \A i \in 2 .. L : IsFrame(list[1], c) /\ IsFrame(list[i], c) => list[1].n < list[i].n
    BY <1>5
  <2>2. \A i \in 1 .. L : list[i].n \in Int
    BY <1>2
  <2>3. L \in Nat /\ L > 0
    BY <1>0
  <2> HIDE DEF L
  <2> QED
    BY <2>1, <2>2, <2>3, HeadLeaves
<1>7. ASSUME NEW j \in 2 .. L, IsVideo(list[j]), ~list[j].gap
      PROVE  Follows(out', list, 2 .. L, OnAir', list[j].ch, list[j].n, j)
  <2>1. j \in 1 .. L /\ j \in 2 .. L + 1
    BY <1>0
  <2>2. Follows(out, list, 1 .. L, OnAir, list[j].ch, list[j].n, j)
    BY <1>1, <1>7, <2>1 DEF ChainFits
  <2>3. IsFrame(list[j], list[j].ch)
    BY <1>7 DEF IsFrame
  <2>4. \A i \in 1 .. L : i < j /\ IsFrame(list[i], list[j].ch) => list[i].n < list[j].n
    BY <1>2, <1>4, <2>1, <2>3
  <2> QED
    BY <1>2, <1>6, <2>1, <2>2, <2>4
<1>8. ASSUME NEW c \in Channels, ~missed[c]
      PROVE  Follows(out', list, 2 .. L, OnAir', c, seen[c] + 1, L + 1)
  <2>1. Follows(out, list, 1 .. L, OnAir, c, seen[c] + 1, L + 1)
    BY <1>1, <1>8 DEF ChainFits
  <2>2. seen[c] \in Nat /\ seen[c] + 1 \in Int /\ L + 1 \in 2 .. L + 1
    BY <1>0
  <2>3. \A i \in 1 .. L : IsFrame(list[i], c) => list[i].n < seen[c] + 1
    <3> SUFFICES ASSUME NEW i \in 1 .. L, list[i].ch = c PROVE list[i].n < seen[c] + 1
      BY DEF IsFrame
    <3>1. list[i].n <= seen[c]
      BY <1>0 DEF NumbersFit
    <3> QED
      BY <1>2, <2>2, <3>1
  <2> QED
    BY <1>6, <2>1, <2>2, <2>3
<1> QED
  BY <1>1, <1>7, <1>8 DEF ChainFits

\* Without the flush, nothing is recorded but a frame that continues its channel or
\* starts it.
LEMMA LostKept ==
  ASSUME NothingLost, UNCHANGED out
  PROVE  NothingLost'
  BY DEF NothingLost

LEMMA LostWrite ==
  ASSUME Types, HeadStays, WriteFits, ChainFits, NothingLost, WriteHead
  PROVE  NothingLost'
<1> DEFINE M == Len(out)
           h == Head(list)
<1>0. /\ list \in Seq(FrameType) /\ M \in Nat /\ DOMAIN out = 1 .. M /\ Len(list) \in Nat
  BY Frames DEF Types, TypeOK
<1>1. /\ rpc = "write" /\ basket = "opened" /\ Recorded(<<h>>)
  BY DEF WriteHead
<1>2. list # <<>> /\ Len(list) > 1
  BY <1>0, <1>1 DEF HeadStays
<1>3. h \in FrameType /\ h.ch \in Channels /\ h = list[1]
  BY <1>0, <1>2, SeqEnds, FrameFields
<1>4. /\ out' \in Seq(Entry) /\ Len(out') = M + 1
      /\ \A i \in 1 .. M : out'[i] = out[i]
      /\ out'[M + 1] = [f |-> h, session |-> session, cut |-> cut[h.ch]]
  BY <1>1, <1>3, OneRecorded
<1>5. DOMAIN out' = 1 .. M + 1
  BY <1>4
<1>6. SUFFICES ASSUME NEW i \in 1 .. M + 1,
                      out'[i].f.kind = "P", ~out'[i].f.gap, ~out'[i].cut
               PROVE  \E j \in 1 .. i - 1 : /\ out'[j].f.ch = out'[i].f.ch
                                            /\ IsVideo(out'[j].f)
                                            /\ out'[j].f.n = out'[i].f.n - 1
  BY <1>5 DEF NothingLost, IsVideo
<1>7. CASE i \in 1 .. M
  <2>1. PICK j \in 1 .. i - 1 : /\ out[j].f.ch = out[i].f.ch /\ IsVideo(out[j].f)
                               /\ out[j].f.n = out[i].f.n - 1
    BY <1>0, <1>4, <1>6, <1>7 DEF NothingLost
  <2>2. j \in 1 .. M
    BY <1>0, <1>7
  <2>3. out'[j] = out[j] /\ out'[i] = out[i]
    BY <1>4, <1>7, <2>2
  <2> QED
    BY <2>1, <2>3
<1>8. CASE i = M + 1
  <2>1. h.kind = "P" /\ ~h.gap /\ ~cut[h.ch] /\ out'[i].f = h
    BY <1>4, <1>6, <1>8
  <2>2. saveState[h.ch] = "write"
    BY <1>1, <2>1 DEF WriteFits
  <2>3. h.ch \in OnAir
    BY <1>1, <1>3, <2>1, <2>2 DEF OnAir, StateOf
  <2>4. 1 \in Waiting /\ Waiting = 1 .. Len(list)
    BY <1>0, <1>1, <1>2 DEF Waiting
  <2>5. Follows(out, list, Waiting, OnAir, h.ch, h.n, 1)
    BY <1>3, <2>1, <2>4 DEF ChainFits, IsVideo
  <2>6. \A k \in Waiting : ~(k < 1)
    BY <1>0, <2>4
  <2>7. PICK j \in DOMAIN out : IsFrame(out[j].f, h.ch) /\ out[j].f.n = h.n - 1
    BY <2>3, <2>5, <2>6 DEF Follows
  <2>8. j \in 1 .. i - 1 /\ out'[j] = out[j]
    BY <1>0, <1>4, <1>8
  <2> QED
    BY <2>1, <2>7, <2>8 DEF IsFrame
<1> QED
  BY <1>0, <1>7, <1>8

LEMMA LostNext ==
  ASSUME 0 \notin PreSecs, Types, HeadStays, KindsFit, WriteFits, ChainFits, NothingLost,
         [Next]_vars
  PROVE  NothingLost'
<1>1. CASE Capture
  BY <1>1, LostKept DEF Capture
<1>2. CASE Push
  BY <1>2, LostKept DEF Push, history
<1>3. CASE PushFails
  BY <1>3, LostKept DEF PushFails
<1>4. CASE ReadState
  BY <1>4, LostKept DEF ReadState, history
<1>5. CASE CheckDone
  BY <1>5, LostKept DEF CheckDone, history
<1>6. CASE WriteHead
  BY <1>6, LostWrite
<1>7. CASE WriteFails
  BY <1>7, LostKept DEF WriteFails
<1>8. CASE StoreState
  BY <1>8, LostKept DEF StoreState, history
<1>9. CASE CallEnable
  BY <1>9, LostKept DEF CallEnable, history
<1>10. CASE OpenBasket
  BY <1>10, LostKept DEF OpenBasket
<1>11. CASE OpenFails
  BY <1>11, LostKept DEF OpenFails, history
<1>12. CASE Enable
  BY <1>12, LostKept DEF Enable
<1>13. CASE DisableClosed
  BY <1>13, LostKept DEF DisableClosed, history
<1>14. CASE EnableDuration
  BY <1>14, LostKept DEF EnableDuration, history
<1>15. CASE CallExit
  BY <1>15, LostKept DEF CallExit
<1>16. CASE Exit
  BY <1>16, LostKept DEF Exit, history
<1>17. CASE CallPreRec
  BY <1>17, LostKept DEF CallPreRec, history
<1>18. CASE SetDuration
  BY <1>18, LostKept DEF SetDuration, history
<1>19. CASE Flush
  BY <1>19 DEF Flush, KindsFit
<1>20. CASE Tick
  BY <1>20, LostKept DEF Tick, history
<1>21. CASE UNCHANGED vars
  BY <1>21, LostKept DEF vars
<1> QED
  BY <1>1, <1>2, <1>3, <1>4, <1>5, <1>6, <1>7, <1>8, <1>9, <1>10, <1>11, <1>12, <1>13, <1>14, <1>15, <1>16, <1>17, <1>18, <1>19, <1>20, <1>21 DEF Next

LEMMA ChainNext ==
  ASSUME ~Overlap, 0 \notin PreSecs, Types, HeadStays, OrderFits, NumbersFit, OneAtATime,
         StoppedFits, KindsFit, WriteFits, ChainFits, [Next]_vars
  PROVE  ChainFits'
<1> DEFINE L == Len(list)
<1>0. /\ list \in Seq(FrameType) /\ L \in Nat /\ DOMAIN list = 1 .. L
      /\ Len(out) \in Nat /\ DOMAIN out = 1 .. Len(out)
      /\ seen \in [Channels -> Nat] /\ cut \in [Channels -> BOOLEAN]
      /\ missed \in [Channels -> BOOLEAN]
      /\ saveState \in [Channels -> {"idle", "open", "write"}]
  BY Frames DEF Types, TypeOK
<1>90. rpc \in {"write", "store"} => list # <<>> /\ Head(list) = list[1] /\ list[1] \in FrameType
  <2>1. rpc \in {"write", "store"} => list # <<>>
    BY <1>0 DEF HeadStays
  <2> QED
    BY <1>0, <2>1, SeqEnds
<1>1. CASE Capture
  <2>0. /\ UNCHANGED <<out, list, basket, saveState, cut>> /\ rpc = "idle"
        /\ rpc' \in {"idle", "push"}
    BY <1>1 DEF Capture, Idle, chInfo
  <2> PICK c \in Channels, k \in Kinds :
        LET n == IF k = "A" THEN seen[c] ELSE seen[c] + 1
            taken == basket = "opened" /\ (enabled[c] \/ presec[c] > 0)
        IN  /\ seen' = [seen EXCEPT ![c] = n]
            /\ missed' = IF k = "A" THEN missed ELSE [missed EXCEPT ![c] = ~taken]
            /\ IF taken
                 THEN /\ rpc' = "push" /\ UNCHANGED next
                      /\ frame' = [ch |-> c, t |-> now, kind |-> k, n |-> n,
                                   gap |-> missed[c]]
                 ELSE Idle
    BY <1>1, Zenon DEF Capture
  <2>1. Waiting' = Waiting
    BY <2>0 DEF Waiting
  <2>2. OnAir' = OnAir
    BY <2>0 DEF OnAir, StateOf
  <2>3. \A d \in Channels : ~missed[d] => Follows(out, list, Waiting, OnAir, d, seen[d] + 1, L + 1)
    BY <2>0 DEF ChainFits
  <2>4. CASE k = "A"
    <3>1. seen' = seen /\ missed' = missed
      BY <1>0, <2>4
    <3>2. rpc' = "push" => ~IsVideo(frame')
      BY <2>4 DEF Idle, IsVideo
    <3> QED
      BY <2>0, <2>1, <2>2, <2>3, <3>1, <3>2 DEF ChainFits
  <2>5. CASE k # "A"
    <3>1. /\ seen'[c] = seen[c] + 1 /\ \A d \in Channels \ {c} : seen'[d] = seen[d]
      BY <1>0, <2>5
    <3>2. \A d \in Channels \ {c} : missed'[d] = missed[d]
      BY <1>0, <2>5, Zenon
    <3>3. rpc' = "push" => /\ frame'.ch = c /\ frame'.n = seen[c] + 1
                           /\ frame'.gap = missed[c] /\ frame'.kind = k
      BY <2>5 DEF Idle
    <3>4. rpc' = "push" => IsFrame(frame', c)
      BY <2>5, <3>3 DEF IsFrame, IsVideo
    <3>5. rpc' # "push" => missed'[c]
      <4>1. rpc' # "push" => ~(basket = "opened" /\ (enabled[c] \/ presec[c] > 0))
        BY Zenon
      <4>2. missed'[c] = ~(basket = "opened" /\ (enabled[c] \/ presec[c] > 0))
        BY <1>0, <2>5, Zenon
      <4> QED
        BY <4>1, <4>2, Zenon
    <3>6. ASSUME rpc' = "push", ~frame'.gap
          PROVE  Follows(out, list, Waiting, OnAir, frame'.ch, frame'.n, L + 1)
      <4>1. ~missed[c]
        BY <3>3, <3>6, Zenon
      <4> QED
        BY <2>3, <3>3, <3>6, <4>1
    <3>7. ASSUME NEW d \in Channels, ~missed'[d], ~(rpc' = "push" /\ IsFrame(frame', d))
          PROVE  Follows(out, list, Waiting, OnAir, d, seen'[d] + 1, L + 1)
      <4>1. d # c
        BY <3>4, <3>5, <3>7, Zenon
      <4>2. ~missed[d] /\ seen'[d] = seen[d]
        BY <3>1, <3>2, <3>7, <4>1
      <4> QED
        BY <2>3, <4>2
    <3>8. \A j \in Waiting : IsVideo(list[j]) /\ ~list[j].gap =>
            Follows(out, list, Waiting, OnAir, list[j].ch, list[j].n, j)
      BY DEF ChainFits
    <3> QED
      BY <2>0, <2>1, <2>2, <3>6, <3>7, <3>8 DEF ChainFits
  <2> QED
    BY <2>4, <2>5
<1>2. CASE Push
  <2>0. /\ UNCHANGED <<out, seen, missed, cut, basket, saveState>> /\ rpc = "push"
        /\ rpc' = "check" /\ list' = Append(list, frame) /\ frame \in FrameType
    BY <1>2 DEF Push, history, chInfo, Types
  <2>1. /\ DOMAIN list' = 1 .. L + 1 /\ Len(list') = L + 1
        /\ \A i \in 1 .. L : list'[i] = list[i]
        /\ list'[L + 1] = frame
    BY <1>0, <2>0, AppendSeq
  <2>2. Waiting = 1 .. L /\ Waiting' = 1 .. L + 1
    BY <2>0, <2>1 DEF Waiting
  <2>3. OnAir' = OnAir
    BY <2>0 DEF OnAir, StateOf
  <2>4. frame.n = seen[frame.ch] /\ frame.ch \in Channels /\ seen[frame.ch] \in Nat
    BY <1>0, <2>0, FrameFields DEF NumbersFit
  <2>5. \A c, n : \A j \in 1 .. L + 1 :
          Follows(out, list, Waiting, OnAir, c, n, j) =>
            Follows(out', list', Waiting', OnAir', c, n, j)
    <3> SUFFICES ASSUME NEW c, NEW n, NEW j \in 1 .. L + 1,
                        Follows(out, list, Waiting, OnAir, c, n, j)
                 PROVE  Follows(out', list', Waiting', OnAir', c, n, j)
      BY Zenon
    <3>1. \A i \in Waiting \cup Waiting' : i < j => /\ i \in Waiting /\ i \in Waiting'
                                                 /\ list'[i] = list[i]
      BY <1>0, <2>1, <2>2
    <3>2. \A i \in DOMAIN out : i \in DOMAIN out' /\ out'[i] = out[i]
      BY <2>0
    <3>3. OnAir' \subseteq OnAir
      BY <2>3
    <3> QED
      BY <3>1, <3>2, <3>3, FollowsStays
  <2>6. ASSUME NEW j \in 1 .. L + 1, IsVideo(list'[j]), ~list'[j].gap
        PROVE  Follows(out', list', Waiting', OnAir', list'[j].ch, list'[j].n, j)
    <3>1. CASE j \in 1 .. L
      <4>1. list'[j] = list[j]
        BY <2>1, <3>1
      <4>2. Follows(out, list, Waiting, OnAir, list[j].ch, list[j].n, j)
        BY <2>2, <2>6, <3>1, <4>1 DEF ChainFits
      <4> QED
        BY <2>5, <4>1, <4>2
    <3>2. CASE j = L + 1
      <4>1. list'[j] = frame
        BY <2>1, <3>2
      <4>2. Follows(out, list, Waiting, OnAir, frame.ch, frame.n, j)
        BY <2>0, <2>6, <3>2, <4>1 DEF ChainFits
      <4> QED
        BY <2>5, <4>1, <4>2
    <3> QED
      BY <1>0, <3>1, <3>2
  <2>7. ASSUME NEW c \in Channels, ~missed[c]
        PROVE  Follows(out', list', Waiting', OnAir', c, seen[c] + 1, L + 2)
    <3>1. CASE IsFrame(frame, c)
      <4>1. L + 1 \in Waiting' /\ L + 1 < L + 2
        BY <1>0, <2>2
      <4>2. list'[L + 1].n = (seen[c] + 1) - 1
        BY <2>1, <2>4, <3>1 DEF IsFrame
      <4> QED
        BY <2>1, <3>1, <4>1, <4>2 DEF Follows
    <3>2. CASE ~IsFrame(frame, c)
      <4>1. Follows(out, list, Waiting, OnAir, c, seen[c] + 1, L + 1)
        BY <2>7, <3>2 DEF ChainFits
      <4>2. L + 1 \in 1 .. L + 1
        BY <1>0
      <4>3. Follows(out', list', Waiting', OnAir', c, seen[c] + 1, L + 1)
        BY <2>5, <4>1, <4>2
      <4>4. \A i \in Waiting' : i < L + 2 /\ IsFrame(list'[i], c) => i < L + 1
        <5> SUFFICES ASSUME NEW i \in 1 .. L + 1, IsFrame(list'[i], c) PROVE i < L + 1
          BY <2>2
        <5>1. i # L + 1
          BY <2>1, <3>2
        <5> QED
          BY <1>0, <5>1
      <4>5. \A i \in Waiting' : i < L + 1 => i < L + 2
        BY <1>0, <2>2
      <4> QED
        BY <4>3, <4>4, <4>5 DEF Follows
    <3> QED
      BY <3>1, <3>2
  <2>8. Len(list') + 1 = L + 2
    BY <1>0, <2>1
  <2> QED
    BY <2>0, <2>2, <2>6, <2>7, <2>8 DEF ChainFits
<1>3. CASE PushFails
  <2>1. /\ UNCHANGED <<out, list, seen, cut, basket, saveState>> /\ rpc = "push" /\ rpc' = "idle"
        /\ frame \in FrameType
    BY <1>3 DEF PushFails, Idle, chInfo, Types
  <2>2. Waiting' = Waiting /\ OnAir' = OnAir
    BY <2>1 DEF Waiting, OnAir, StateOf
  <2>3. missed' = IF IsVideo(frame) THEN [missed EXCEPT ![frame.ch] = TRUE] ELSE missed
    BY <1>3 DEF PushFails
  <2>4. \A c \in Channels : ~missed'[c] => ~missed[c] /\ ~IsFrame(frame, c)
    BY <1>0, <2>3, Zenon DEF IsFrame
  <2> QED
    BY <2>1, <2>2, <2>4, ChainStays
<1>4. CASE ReadState
  <2>1. /\ UNCHANGED <<out, list, seen, missed, cut, basket, saveState>> /\ rpc = "check"
        /\ rpc' = (IF next' = "write" THEN "write" ELSE "store") /\ list # <<>>
    BY <1>4 DEF ReadState, Due, history, chInfo
  <2>2. CASE rpc' = "write"
    <3>1. Waiting' = Waiting /\ OnAir' = OnAir
      BY <2>1, <2>2 DEF Waiting, OnAir, StateOf
    <3> QED
      BY <2>1, <2>2, <3>1, ChainStays
  <2>3. CASE rpc' = "store"
    <3>1. Head(list) = list[1]
      BY <1>0, <2>1, SeqEnds
    <3>2. OnAir' \subseteq OnAir /\ list[1].ch \notin OnAir'
      BY <2>1, <2>3, <3>1 DEF OnAir, StateOf
    <3>3. \A i \in DOMAIN out : i \in DOMAIN out' /\ out'[i] = out[i]
      BY <2>1
    <3> QED
      BY <2>1, <2>3, <3>2, <3>3, ChainHeadLeaves
  <2> QED
    BY <2>1, <2>2, <2>3
<1>5. CASE CheckDone
  <2>1. /\ UNCHANGED <<out, list, seen, missed, cut, basket, saveState>> /\ rpc = "check"
        /\ rpc' = "idle"
    BY <1>5 DEF CheckDone, Idle, history, chInfo
  <2>2. Waiting' = Waiting /\ OnAir' = OnAir
    BY <2>1 DEF Waiting, OnAir, StateOf
  <2> QED
    BY <2>1, <2>2, ChainStays
<1>6. CASE WriteHead
  <2>1. /\ UNCHANGED <<list, seen, missed, basket, saveState, next>> /\ rpc = "write"
        /\ rpc' = "store" /\ basket = "opened" /\ Recorded(<<Head(list)>>)
    BY <1>6 DEF WriteHead, chInfo
  <2>2. list # <<>> /\ Head(list) = list[1] /\ list[1] \in FrameType /\ list[1].ch \in Channels
    BY <1>90, <2>1, FrameFields
  <2>3. /\ out' \in Seq(Entry) /\ Len(out') = Len(out) + 1
        /\ \A i \in 1 .. Len(out) : out'[i] = out[i]
        /\ out'[Len(out) + 1] = [f |-> list[1], session |-> session, cut |-> cut[list[1].ch]]
        /\ \A c \in Channels : ~cut'[c] => ~cut[c] \/ (list[1].ch = c /\ list[1].kind = "I")
    BY <2>1, <2>2, OneRecorded
  <2>4. DOMAIN out' = 1 .. Len(out) + 1
    BY <2>3
  <2>5. \A i \in DOMAIN out : i \in DOMAIN out' /\ out'[i] = out[i]
    BY <1>0, <2>3, <2>4
  <2>6. \E i \in DOMAIN out' : out'[i].f = list[1]
    <3>1. Len(out) + 1 \in DOMAIN out' /\ out'[Len(out) + 1].f = list[1]
      BY <1>0, <2>3, <2>4
    <3> QED
      BY <3>1
  <2>7. \A d \in OnAir' : d \in OnAir \/ d = list[1].ch
    <3> SUFFICES ASSUME NEW d \in OnAir', d # list[1].ch PROVE d \in OnAir
      OBVIOUS
    <3>1. d \in Channels /\ StateOf(d)' = "write" /\ ~cut'[d]
      BY DEF OnAir
    <3>2. StateOf(d) = "write"
      BY <2>1, <2>2, <3>1 DEF StateOf
    <3>3. ~cut[d]
      BY <2>3, <3>1, Zenon
    <3> QED
      BY <2>1, <3>1, <3>2, <3>3 DEF OnAir
  <2>8. list[1].ch \in OnAir' => IsVideo(list[1]) \/ list[1].ch \in OnAir
    <3> SUFFICES ASSUME list[1].ch \in OnAir', list[1].kind = "A" PROVE list[1].ch \in OnAir
      BY DEF IsVideo
    <3>1. saveState[list[1].ch] = "write"
      BY <2>1, <2>2 DEF WriteFits
    <3>2. ~cut'[list[1].ch]
      BY DEF OnAir
    <3>3. ~cut[list[1].ch]
      BY <2>2, <2>3, <3>2
    <3> QED
      BY <2>1, <2>2, <3>1, <3>3 DEF OnAir, StateOf
  <2> QED
    BY <2>1, <2>2, <2>5, <2>6, <2>7, <2>8, ChainHeadLeaves
<1>7. CASE WriteFails
  <2>1. /\ UNCHANGED <<out, list, seen, missed, saveState>> /\ rpc = "write" /\ rpc' = "store"
        /\ basket' = "opened" => basket = "opened"
        /\ cut' = [cut EXCEPT ![Head(list).ch] = TRUE]
    BY <1>7 DEF WriteFails
  <2>2. list # <<>> /\ Head(list) = list[1] /\ list[1] \in FrameType /\ list[1].ch \in Channels
    BY <1>90, <2>1, FrameFields
  <2>3. cut'[list[1].ch] /\ \A c \in Channels : ~cut'[c] => ~cut[c]
    BY <1>0, <2>1, <2>2, Zenon
  <2>4. list[1].ch \notin OnAir'
    BY <2>3 DEF OnAir
  <2>5. \A d \in OnAir' : d \in OnAir
    <3> SUFFICES ASSUME NEW d \in OnAir' PROVE d \in OnAir
      OBVIOUS
    <3>1. d \in Channels /\ StateOf(d)' = "write" /\ ~cut'[d] /\ basket' = "opened"
      BY DEF OnAir
    <3>2. StateOf(d) = "write"
      BY <2>1, <2>2, <2>4, <3>1 DEF StateOf
    <3>3. ~cut[d]
      BY <2>3, <3>1, Zenon
    <3> QED
      BY <2>1, <3>1, <3>2, <3>3 DEF OnAir
  <2>6. \A i \in DOMAIN out : i \in DOMAIN out' /\ out'[i] = out[i]
    BY <2>1
  <2> QED
    BY <2>1, <2>2, <2>4, <2>5, <2>6, ChainHeadLeaves
<1>8. CASE StoreState
  <2>1. /\ UNCHANGED <<out, seen, missed, cut, basket>> /\ rpc = "store" /\ rpc' = "check"
        /\ list' = Tail(list) /\ saveState' = [saveState EXCEPT ![Head(list).ch] = next]
    BY <1>8 DEF StoreState, history
  <2>2. list # <<>> /\ L > 0
    BY <1>0, <1>90, <2>1
  <2>3. /\ DOMAIN list' = 1 .. L - 1 /\ Len(list') = L - 1
        /\ \A i \in 1 .. L - 1 : list'[i] = list[i + 1]
    BY <1>0, <2>1, <2>2, TailSeq
  <2>4. Waiting = 2 .. L /\ Waiting' = 1 .. L - 1
    BY <2>1, <2>3 DEF Waiting
  <2>5. OnAir' = OnAir
    <3>1. \A c \in Channels : StateOf(c)' = StateOf(c)
      BY <1>0, <2>1 DEF StateOf
    <3> QED
      BY <2>1, <3>1 DEF OnAir
  <2>6. \A c, n : \A j \in Nat :
          Follows(out, list, Waiting, OnAir, c, n, j + 1) =>
            Follows(out', list', Waiting', OnAir', c, n, j)
    <3> SUFFICES ASSUME NEW c, NEW n, NEW j \in Nat,
                        Follows(out, list, 2 .. L, OnAir, c, n, j + 1)
                 PROVE  Follows(out, list', 1 .. L - 1, OnAir, c, n, j)
      BY <2>1, <2>4, <2>5
    <3> HIDE DEF L
    <3> QED
      BY <1>0, <2>2, <2>3, ListMovesUp
  <2>7. ASSUME NEW j \in 1 .. L - 1, IsVideo(list'[j]), ~list'[j].gap
        PROVE  Follows(out', list', Waiting', OnAir', list'[j].ch, list'[j].n, j)
    <3>1. j + 1 \in 2 .. L /\ j \in Nat
      BY <1>0
    <3>2. list'[j] = list[j + 1]
      BY <2>3
    <3>3. Follows(out, list, Waiting, OnAir, list[j + 1].ch, list[j + 1].n, j + 1)
      BY <2>4, <2>7, <3>1, <3>2 DEF ChainFits
    <3> QED
      BY <2>6, <3>1, <3>2, <3>3
  <2>8. ASSUME NEW c \in Channels, ~missed[c]
        PROVE  Follows(out', list', Waiting', OnAir', c, seen[c] + 1, L)
    <3>1. Follows(out, list, Waiting, OnAir, c, seen[c] + 1, L + 1)
      BY <2>1, <2>8 DEF ChainFits
    <3> QED
      BY <1>0, <2>6, <3>1
  <2>9. Len(list') + 1 = L
    BY <1>0, <2>3
  <2> QED
    BY <2>1, <2>4, <2>7, <2>8, <2>9 DEF ChainFits
<1>9. CASE CallEnable
  <2>1. UNCHANGED <<out, list, seen, missed, cut, saveState, rpc, frame, basket, next>>
    BY <1>9 DEF CallEnable, Called, chInfo, recorder, history
  <2>2. Waiting' = Waiting /\ OnAir' = OnAir
    BY <2>1 DEF Waiting, OnAir, StateOf
  <2> QED
    BY <2>1, <2>2, ChainStays
<1>10. CASE OpenBasket
  <2>1. /\ UNCHANGED <<out, list, seen, missed, cut, saveState, rpc, frame>> /\ rpc = "idle"
        /\ ~opened
    BY <1>10 DEF OpenBasket, OneAtATime, chInfo, recorder
  <2>2. \A c \in Channels : StateOf(c)' # "write"
    BY <2>1 DEF StateOf, StoppedFits
  <2>3. Waiting' = Waiting /\ OnAir' \subseteq OnAir
    BY <2>1, <2>2 DEF Waiting, OnAir
  <2> QED
    BY <2>1, <2>3, ChainStays
<1>11. CASE OpenFails
  <2>1. UNCHANGED <<out, list, seen, missed, cut, saveState, rpc, frame, basket, next>>
    BY <1>11 DEF OpenFails, Return, chInfo, recorder, history
  <2>2. Waiting' = Waiting /\ OnAir' = OnAir
    BY <2>1 DEF Waiting, OnAir, StateOf
  <2> QED
    BY <2>1, <2>2, ChainStays
<1>12. CASE Enable
  <2>1. /\ UNCHANGED <<out, list, seen, missed, saveState, rpc, frame, basket, next>>
        /\ cut' = IF call.arg = 1 THEN cut ELSE [cut EXCEPT ![call.ch] = TRUE]
    BY <1>12 DEF Enable, recorder
  <2>2. \A c \in Channels : ~cut'[c] => ~cut[c]
    BY <1>0, <2>1, Zenon
  <2>3. \A c \in Channels : StateOf(c)' = StateOf(c)
    BY <2>1 DEF StateOf
  <2>4. Waiting' = Waiting /\ OnAir' \subseteq OnAir
    BY <2>1, <2>2, <2>3 DEF Waiting, OnAir
  <2> QED
    BY <2>1, <2>4, ChainStays
<1>13. CASE DisableClosed
  <2>1. UNCHANGED <<out, list, seen, missed, cut, saveState, rpc, frame, basket, next>>
    BY <1>13 DEF DisableClosed, Return, chInfo, recorder, history, bounds
  <2>2. Waiting' = Waiting /\ OnAir' = OnAir
    BY <2>1 DEF Waiting, OnAir, StateOf
  <2> QED
    BY <2>1, <2>2, ChainStays
<1>14. CASE EnableDuration
  <2>1. UNCHANGED <<out, list, seen, missed, cut, saveState, rpc, frame, basket, next>>
    BY <1>14 DEF EnableDuration, Return, chInfo, recorder, history, bounds
  <2>2. Waiting' = Waiting /\ OnAir' = OnAir
    BY <2>1 DEF Waiting, OnAir, StateOf
  <2> QED
    BY <2>1, <2>2, ChainStays
<1>15. CASE CallExit
  <2>1. /\ UNCHANGED <<out, list, seen, missed, rpc, frame>>
        /\ cut' = [c \in Channels |-> TRUE]
    BY <1>15 DEF CallExit, recorder
  <2>2. OnAir' = {}
    BY <2>1 DEF OnAir
  <2>3. Waiting' = Waiting
    BY <2>1 DEF Waiting
  <2> QED
    BY <2>1, <2>2, <2>3, ChainStays
<1>16. CASE Exit
  <2>1. /\ UNCHANGED <<out, list, seen, missed, cut, saveState, rpc, frame, next>>
        /\ basket' = "opened" => basket = "opened"
    BY <1>16 DEF Exit, history, chInfo, recorder
  <2>2. \A c \in Channels : StateOf(c)' = StateOf(c)
    BY <2>1 DEF StateOf
  <2>3. Waiting' = Waiting /\ OnAir' \subseteq OnAir
    BY <2>1, <2>2 DEF Waiting, OnAir
  <2> QED
    BY <2>1, <2>3, ChainStays
<1>17. CASE CallPreRec
  <2>1. UNCHANGED <<out, list, seen, missed, cut, saveState, rpc, frame, basket, next>>
    BY <1>17 DEF CallPreRec, Called, recorder, history
  <2>2. Waiting' = Waiting /\ OnAir' = OnAir
    BY <2>1 DEF Waiting, OnAir, StateOf
  <2> QED
    BY <2>1, <2>2, ChainStays
<1>18. CASE SetDuration
  <2>1. UNCHANGED <<out, list, seen, missed, cut, saveState, rpc, frame, basket, next>>
    BY <1>18 DEF SetDuration, Return, chInfo, recorder, history, bounds
  <2>2. Waiting' = Waiting /\ OnAir' = OnAir
    BY <2>1 DEF Waiting, OnAir, StateOf
  <2> QED
    BY <2>1, <2>2, ChainStays
<1>19. CASE Flush
  BY <1>19 DEF Flush, KindsFit
<1>20. CASE Tick
  <2>1. UNCHANGED <<out, list, seen, missed, cut, saveState, rpc, frame, basket, next>>
    BY <1>20 DEF Tick, chInfo, recorder, manager, history
  <2>2. Waiting' = Waiting /\ OnAir' = OnAir
    BY <2>1 DEF Waiting, OnAir, StateOf
  <2> QED
    BY <2>1, <2>2, ChainStays
<1>21. CASE UNCHANGED vars
  <2>1. UNCHANGED <<out, list, seen, missed, cut, saveState, rpc, frame, basket, next>>
    BY <1>21 DEF vars
  <2>2. Waiting' = Waiting /\ OnAir' = OnAir
    BY <2>1 DEF Waiting, OnAir, StateOf
  <2> QED
    BY <2>1, <2>2, ChainStays
<1> QED
  BY <1>1, <1>2, <1>3, <1>4, <1>5, <1>6, <1>7, <1>8, <1>9, <1>10, <1>11, <1>12, <1>13, <1>14, <1>15, <1>16, <1>17, <1>18, <1>19, <1>20, <1>21 DEF Next

LEMMA ChainInvInit == Init => ChainInv
<1> SUFFICES ASSUME Init PROVE ChainInv
  OBVIOUS
<1>1. /\ list = <<>> /\ out = <<>> /\ rpc = "idle" /\ basket = "closed"
  BY DEF Init
<1>2. Waiting = {} /\ OnAir = {}
  BY <1>1 DEF Waiting, OnAir
<1>3. ChainFits
  BY <1>1, <1>2 DEF ChainFits, Follows
<1>4. NothingLost
  BY <1>1 DEF NothingLost
<1> QED
  BY <1>3, <1>4 DEF ChainInv

LEMMA ChainInvNext ==
  ASSUME ~Overlap, 0 \notin PreSecs
  PROVE  OrderInv /\ StartInv /\ ChainInv /\ [Next]_vars => ChainInv'
  BY ChainNext, LostNext DEF OrderInv, StartInv, ChainInv

\* Of a channel that records, the list loses nothing: a frame captured without a gap
\* is recorded after the one before it, provided that no call overlaps the handling of
\* a frame and that the last pre-record time is never turned off (PRELIST_check_time).
THEOREM ListLosesNothing ==
  ASSUME ~Overlap, 0 \notin PreSecs
  PROVE  Spec => []NothingLost
<1>1. ChainInv => NothingLost
  BY DEF ChainInv
<1> QED
  BY <1>1, OrderInvariant, StartInvInit, StartInvNext, ChainInvInit, ChainInvNext, PTL DEF Spec


=============================================================================
