----------------------------- MODULE PreRecord ------------------------------
(***************************************************************************)
(* The pre-record list of src/prerec.c between the encoder and the basket  *)
(* recorder, and the two threads that meet there: the recording thread     *)
(* (WRITER_recordFxn), which appends each frame and hands on what has grown*)
(* older than the pre-record time, and the manager's (WRITER_enableChSave, *)
(* WRITER_fileSaveExit, WRITER_setPreRecSec).                              *)
(*                                                                         *)
(* The mutex guards the list alone.  The channels' enable flags and save   *)
(* states, the pre-record time and the basket are used without it, so the  *)
(* steps of the threads are the reads and writes of these.  The basket     *)
(* (module BasketRec) is open, full or closed here, and its calls are      *)
(* atomic.                                                                 *)
(***************************************************************************)
EXTENDS Integers, Sequences, FiniteSets, SequencesExt

CONSTANTS
  Channels,
  Kinds,          \* key, other video and audio frames
  DefaultPreSec,  \* PREVRECORDDURATION_SEC_DEFAULT, in ticks
  PreSecs,        \* the times WRITER_setPreRecSec is called with
  Overlap,        \* whether the manager's calls overlap the handling of a frame
  MaxFrames, MaxCalls, MaxErrors, LastTick     \* bounds

ASSUME PreRecordAssumption ==
  /\ IsFiniteSet(Channels) /\ Kinds \subseteq {"I", "P", "A"}
  /\ DefaultPreSec \in Nat /\ PreSecs \subseteq Nat /\ Overlap \in BOOLEAN
  /\ {MaxFrames, MaxCalls, MaxErrors, LastTick} \subseteq Nat

VARIABLES
  list,        \* gPREREC_ctrl: the frames, oldest first
  maxPre,      \* max_premsec
  lock,        \* its mutex: the thread that holds it
  enabled,     \* channel -> enableChSave
  presec,      \* channel -> presec
  saveState,   \* channel -> fileSaveState
  opened,      \* is_basket_opened
  basket,      \* g_bkt_rec_status
  rpc, frame, next,    \* the recording thread: step, new frame, next save state
  mpc, call,           \* the manager thread: step, its call
  out,         \* history: the frames recorded
  session,     \* history: how often the basket was opened
  seen,        \* history: channel -> video frames captured
  missed,      \* history: channel -> its last video frame was not put in the list
  cut,         \* history: channel -> stopped or failed since its last key frame
  now, frames, calls, errors

chInfo == <<enabled, presec, saveState>>
recorder == <<rpc, frame, next>>
manager == <<mpc, call>>
history == <<out, session, seen, missed, cut>>
bounds == <<now, frames, calls, errors>>
vars == <<list, maxPre, lock, enabled, presec, saveState, opened, basket, rpc, frame,
          next, mpc, call, out, session, seen, missed, cut, now, frames, calls, errors>>

NoFrame == [ch |-> 0, t |-> 0, kind |-> "none", n |-> 0, gap |-> FALSE]
NoCall == [name |-> "none", ch |-> 0, arg |-> 0]

Init ==
  /\ list = <<>> /\ maxPre = DefaultPreSec /\ lock = "none"
  /\ enabled = [c \in Channels |-> FALSE]
  /\ presec = [c \in Channels |-> 0]
  /\ saveState = [c \in Channels |-> "idle"]
  /\ opened = FALSE /\ basket = "closed"
  /\ rpc = "idle" /\ frame = NoFrame /\ next = "idle"
  /\ mpc = "idle" /\ call = NoCall
  /\ out = <<>> /\ session = 0
  /\ seen = [c \in Channels |-> 0]
  /\ missed = [c \in Channels |-> FALSE] /\ cut = [c \in Channels |-> FALSE]
  /\ now = 0 /\ frames = 0 /\ calls = 0 /\ errors = 0

Fails == errors < MaxErrors /\ errors' = errors + 1
IsVideo(f) == f.kind # "A"

---------------------------------------------------------------------------
(* The recording thread *)

Idle == rpc' = "idle" /\ frame' = NoFrame /\ next' = "idle"

\* WRITER_recordFxn and WRITER_prePushframe: a frame is put in the list if the
\* basket is open and its channel records, now or ahead of an event.
Capture ==
  /\ rpc = "idle" /\ (Overlap \/ mpc = "idle")
  /\ frames < MaxFrames /\ frames' = frames + 1
  /\ \E c \in Channels, k \in Kinds :
       LET n == IF k = "A" THEN seen[c] ELSE seen[c] + 1
           taken == basket = "opened" /\ (enabled[c] \/ presec[c] > 0)
       IN  /\ seen' = [seen EXCEPT ![c] = n]
           /\ missed' = IF k = "A" THEN missed ELSE [missed EXCEPT ![c] = ~taken]
           /\ IF taken
                THEN /\ rpc' = "push" /\ UNCHANGED next
                     /\ frame' = [ch |-> c, t |-> now, kind |-> k, n |-> n,
                                  gap |-> missed[c]]
                ELSE Idle
  /\ UNCHANGED <<list, maxPre, lock, chInfo, opened, basket, manager, out, session,
                 cut, now, calls, errors>>

\* A mistaken form (a mutant of PROJECT.json): the new frame goes to the head.
PushHead ==
  /\ rpc = "push" /\ lock = "none"
  /\ list' = <<frame>> \o list /\ lock' = "recorder"
  /\ rpc' = "check" /\ frame' = NoFrame /\ UNCHANGED next
  /\ UNCHANGED <<maxPre, chInfo, opened, basket, manager, history, bounds>>

\* PRELIST_add_tail_vdo, PRELIST_add_tail_ado
Push ==
  /\ rpc = "push" /\ lock = "none"
  /\ list' = Append(list, frame) /\ lock' = "recorder"
  /\ rpc' = "check" /\ frame' = NoFrame /\ UNCHANGED next
  /\ UNCHANGED <<maxPre, chInfo, opened, basket, manager, history, bounds>>

\* No memory for the frame: for audio the function returns without the unlock.
PushFails ==
  /\ rpc = "push" /\ lock = "none" /\ Fails
  /\ lock' = IF IsVideo(frame) THEN "none" ELSE "recorder"
  /\ missed' = IF IsVideo(frame) THEN [missed EXCEPT ![frame.ch] = TRUE] ELSE missed
  /\ Idle
  /\ UNCHANGED <<list, maxPre, chInfo, opened, basket, manager, out, session, seen,
                 cut, now, frames, calls>>

\* PRELIST_check_time: the head is due when the tail is more than the pre-record
\* time behind it.
Due == list # <<>> /\ Last(list).t - Head(list).t > maxPre

\* A mistaken form: CLOSE is not turned into IDLE.
NextStateClose(f) ==
  IF ~enabled[f.ch] THEN "close"
  ELSE IF saveState[f.ch] = "write" \/ f.kind = "I" THEN "write"
  ELSE "open"

\* A mistaken form: a channel starts with any frame.
NextStateAny(f) == IF ~enabled[f.ch] THEN "idle" ELSE "write"

\* The save state of the head's channel, from its enable flag.  (CLOSE, the state
\* that stops a channel, becomes IDLE in the same round.)
NextState(f) ==
  IF ~enabled[f.ch] THEN "idle"
  ELSE IF saveState[f.ch] = "write" \/ f.kind = "I" THEN "write"
  ELSE "open"

ReadState ==
  /\ rpc = "check" /\ Due
  /\ next' = NextState(Head(list))
  /\ rpc' = IF next' = "write" THEN "write" ELSE "store"
  /\ UNCHANGED <<list, maxPre, lock, chInfo, opened, basket, frame, manager, history,
                 bounds>>

CheckDone ==
  /\ rpc = "check" /\ ~Due
  /\ lock' = "none" /\ Idle
  /\ UNCHANGED <<list, maxPre, chInfo, opened, basket, manager, history, bounds>>

\* The frames fs reach the basket.
Recorded(fs) ==
  /\ out' = out \o [i \in DOMAIN fs |-> [f |-> fs[i], session |-> session,
                                        cut |-> cut[fs[i].ch]]]
  /\ cut' = [c \in Channels |->
               cut[c] /\ \A i \in DOMAIN fs : ~(fs[i].ch = c /\ fs[i].kind = "I")]

\* BKTREC_WriteVideoStream, BKTREC_WriteAudioStream
WriteHead ==
  /\ rpc = "write" /\ basket = "opened"
  /\ Recorded(<<Head(list)>>)
  /\ rpc' = "store"
  /\ UNCHANGED <<list, maxPre, lock, chInfo, opened, basket, frame, next, manager,
                 session, seen, missed, bounds>>

\* BKT_ERR or BKT_FULL: the channel is disabled.  A closed basket always refuses; a
\* full one takes what its buffer holds, and that is never written.
WriteFails ==
  /\ rpc = "write"
  /\ \/ basket = "closed" /\ UNCHANGED <<basket, errors>>
     \/ basket = "full" /\ UNCHANGED <<basket, errors>>
     \/ basket = "opened" /\ Fails /\ basket' \in {"opened", "full"}
  /\ LET c == Head(list).ch IN
       /\ \/ enabled' = [enabled EXCEPT ![c] = FALSE] /\ next' = "idle"
          \/ basket = "full" /\ UNCHANGED <<enabled, next>>
       /\ cut' = [cut EXCEPT ![c] = TRUE]
  /\ rpc' = "store"
  /\ UNCHANGED <<list, maxPre, lock, presec, saveState, opened, frame, manager, out,
                 session, seen, missed, now, frames, calls>>

\* A mistaken form: one frame is handled for each that comes.
StoreStateOnce ==
  /\ rpc = "store"
  /\ saveState' = [saveState EXCEPT ![Head(list).ch] = next]
  /\ list' = Tail(list) /\ lock' = "none"
  /\ Idle
  /\ UNCHANGED <<maxPre, enabled, presec, opened, basket, manager, history, bounds>>

\* The state is stored back, whatever the manager has written meanwhile, and the
\* head deleted (PRELIST_delete_head).
StoreState ==
  /\ rpc = "store"
  /\ saveState' = [saveState EXCEPT ![Head(list).ch] = next]
  /\ list' = Tail(list)
  /\ rpc' = "check" /\ next' = "idle" /\ UNCHANGED frame
  /\ UNCHANGED <<maxPre, lock, enabled, presec, opened, basket, manager, history, bounds>>

---------------------------------------------------------------------------
(* The manager *)

Called(name, c, arg) ==
  /\ mpc = "idle" /\ (Overlap \/ rpc = "idle")
  /\ calls < MaxCalls /\ calls' = calls + 1
  /\ mpc' = name /\ call' = [name |-> name, ch |-> c, arg |-> arg]
Return == mpc' = "idle" /\ call' = NoCall

CallEnable ==
  /\ \E c \in Channels, on \in {0, 1} : Called("enable", c, on)
  /\ UNCHANGED <<list, maxPre, lock, chInfo, opened, basket, recorder, history,
                 now, frames, errors>>

\* WRITER_enableChSave: the first channel enabled opens the basket.
OpenBasket ==
  /\ mpc = "enable" /\ call.arg = 1 /\ ~opened
  /\ opened' = TRUE /\ basket' = "opened" /\ session' = session + 1
  /\ UNCHANGED <<list, maxPre, lock, chInfo, recorder, manager, out, seen, missed, cut,
                 bounds>>

OpenFails ==
  /\ mpc = "enable" /\ call.arg = 1 /\ ~opened /\ Fails
  /\ Return
  /\ UNCHANGED <<list, maxPre, lock, chInfo, opened, basket, recorder, history,
                 now, frames, calls>>

Enable ==
  /\ mpc = "enable" /\ opened
  /\ enabled' = [enabled EXCEPT ![call.ch] = call.arg = 1]
  /\ cut' = IF call.arg = 1 THEN cut ELSE [cut EXCEPT ![call.ch] = TRUE]
  /\ mpc' = "duration" /\ UNCHANGED call
  /\ UNCHANGED <<list, maxPre, lock, presec, saveState, opened, basket, recorder, out,
                 session, seen, missed, bounds>>

\* Nothing is disabled while no basket is open.
DisableClosed ==
  /\ mpc = "enable" /\ ~opened /\ call.arg = 0
  /\ Return
  /\ UNCHANGED <<list, maxPre, lock, chInfo, opened, basket, recorder, history, bounds>>

NoPreRecord == \A c \in Channels : presec[c] = 0

EnableDuration ==
  /\ mpc = "duration"
  /\ maxPre' = IF NoPreRecord THEN 0 ELSE maxPre
  /\ Return
  /\ UNCHANGED <<list, lock, chInfo, opened, basket, recorder, history, bounds>>

\* WRITER_fileSaveExit: the save states, then the basket.
CallExit ==
  /\ Called("exit", 0, 0)
  /\ saveState' = [c \in Channels |-> "idle"]
  /\ cut' = [c \in Channels |-> TRUE]
  /\ UNCHANGED <<list, maxPre, lock, enabled, presec, opened, basket, recorder, out,
                 session, seen, missed, now, frames, errors>>

Exit ==
  /\ mpc = "exit"
  /\ \/ basket # "closed" /\ basket' = "closed" /\ opened' = FALSE /\ UNCHANGED errors
     \/ basket # "closed" /\ Fails /\ UNCHANGED <<basket, opened>>
     \/ basket = "closed" /\ UNCHANGED <<basket, opened, errors>>
  /\ Return
  /\ UNCHANGED <<list, maxPre, lock, chInfo, recorder, history, now, frames, calls>>

\* WRITER_setPreRecSec: one duration for all channels; PRELIST_check_enable flushes
\* the list when no channel pre-records any more.
CallPreRec ==
  /\ \E c \in Channels, s \in PreSecs :
       /\ Called("presec", c, s)
       /\ presec' = [presec EXCEPT ![c] = s]
  /\ UNCHANGED <<list, maxPre, lock, enabled, saveState, opened, basket, recorder,
                 history, now, frames, errors>>

SetDuration ==
  /\ mpc = "presec"
  /\ maxPre' = call.arg
  /\ IF NoPreRecord /\ list # <<>> THEN mpc' = "flush" /\ UNCHANGED call ELSE Return
  /\ UNCHANGED <<list, lock, chInfo, opened, basket, recorder, history, bounds>>

\* PRELIST_flush: all but the video before a channel's first key frame.  An audio
\* frame is judged by a channel number that was never set.
Kept(keep) ==
  {i \in DOMAIN list : IF IsVideo(list[i])
                         THEN \E j \in 1 .. i : /\ list[j].ch = list[i].ch
                                               /\ list[j].kind = "I"
                         ELSE i \in keep}

\* The frames at the places K of the list, in its order.
FramesAt(K) ==
  [k \in 1 .. Cardinality(K) |->
     list[CHOOSE i \in K : Cardinality({j \in K : j <= i}) = k]]

\* A mistaken form: the mutex is not taken.
FlushUnlocked ==
  /\ mpc = "flush"
  /\ list' = <<>>
  /\ Return
  /\ UNCHANGED <<maxPre, lock, chInfo, opened, basket, recorder, history, bounds>>

Flush ==
  /\ mpc = "flush" /\ lock = "none"
  /\ \E keep \in SUBSET {i \in DOMAIN list : ~IsVideo(list[i])} :
       IF basket = "opened" THEN Recorded(FramesAt(Kept(keep)))
                            ELSE UNCHANGED <<out, cut>>
  /\ list' = <<>>
  /\ Return
  /\ UNCHANGED <<maxPre, lock, chInfo, opened, basket, recorder, session, seen, missed,
                 bounds>>

---------------------------------------------------------------------------

\* The clock of the frames; a frame's time is taken when it is captured.
Tick ==
  /\ now < LastTick /\ now' = now + 1
  /\ rpc = "idle"
  /\ UNCHANGED <<list, maxPre, lock, chInfo, opened, basket, recorder, manager, history,
                 frames, calls, errors>>

Next ==
  \/ Capture \/ Push \/ PushFails \/ ReadState \/ CheckDone
  \/ WriteHead \/ WriteFails \/ StoreState
  \/ CallEnable \/ OpenBasket \/ OpenFails \/ Enable \/ DisableClosed \/ EnableDuration
  \/ CallExit \/ Exit \/ CallPreRec \/ SetDuration \/ Flush
  \/ Tick

Spec == Init /\ [][Next]_vars

---------------------------------------------------------------------------
(* Properties *)

FrameType == [ch : Channels, t : Nat, kind : {"I", "P", "A"}, n : Nat, gap : BOOLEAN]

\* The type invariant: the shape of the list, of the channels' records and of the
\* two threads' steps.
TypeOK ==
  /\ list \in Seq(FrameType) /\ maxPre \in Nat
  /\ lock \in {"none", "recorder"}
  /\ enabled \in [Channels -> BOOLEAN] /\ presec \in [Channels -> Nat]
  /\ saveState \in [Channels -> {"idle", "open", "write"}]
  /\ opened \in BOOLEAN /\ basket \in {"closed", "opened", "full"}
  /\ rpc \in {"idle", "push", "check", "write", "store"}
  /\ frame \in FrameType \cup {NoFrame} /\ next \in {"idle", "open", "write"}
  /\ mpc \in {"idle", "enable", "duration", "exit", "presec", "flush"}
  /\ seen \in [Channels -> Nat] /\ session \in Nat

\* The list is a queue: a channel's video is recorded in the order it was captured
\* and no frame twice, through every opening and closing of the basket.
RecordedInOrder ==
  \A i, j \in DOMAIN out :
    i < j /\ out[i].f.ch = out[j].f.ch /\ IsVideo(out[i].f) /\ IsVideo(out[j].f) =>
      out[i].f.n < out[j].f.n

\* While the recording thread handles the head, the manager's flush cannot take it
\* away, and a tail is left behind it: PRELIST_delete_head reads both.
HeadStays == rpc \in {"write", "store"} => Len(list) > 1

\* In every opening of the basket a channel starts with a key frame.
Same(e, g) == e.f.ch = g.f.ch /\ e.session = g.session
KeyFrameFirst ==
  \A i \in DOMAIN out :
    (\A j \in 1 .. i - 1 : ~Same(out[i], out[j])) => out[i].f.kind = "I"

\* Of a channel that records, the list loses nothing: a frame that builds on one
\* that was captured into the list is recorded after it.
NothingLost ==
  \A i \in DOMAIN out :
    out[i].f.kind = "P" /\ ~out[i].f.gap /\ ~out[i].cut =>
      \E j \in 1 .. i - 1 : /\ out[j].f.ch = out[i].f.ch /\ IsVideo(out[j].f)
                            /\ out[j].f.n = out[i].f.n - 1

\* Once a frame has been handled, no frame is further behind the newest than the
\* longest pre-record time: the list cannot grow without bound.
WaitBounded ==
  rpc = "idle" /\ list # <<>> =>
    \E s \in {0, DefaultPreSec} \cup PreSecs : Last(list).t - Head(list).t <= s
=============================================================================
