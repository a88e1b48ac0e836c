-------------------------- MODULE PlayControlProof --------------------------
(***************************************************************************)
(* Proofs about PlayControl for any number of commands and baskets that do *)
(* not open: its types, that the handshake keeps the user's thread off the *)
(* reader while the player reads, that the player reads from an open       *)
(* reader, and that it ends up in the state it was asked for.              *)
(***************************************************************************)
EXTENDS PlayControl, TLAPS

-----------------------------------------------------------------------------
(* The inductive invariant.                                                *)

\* READY is up only while the player waits, and the state says CHANGE as long as
\* it does: a command that has waited finds it waiting, until it says DONE.
Working == gui \in {"work", "open"}
HandshakeFits ==
  /\ "READY" \in flags => player = "wait"
  /\ player \in {"wait", "become"} => state = "CHANGE"
  /\ Working /\ ~skipped => player = "wait" /\ flags = {}

\* As long as no command overtook another, every command works on a player that
\* waits, and DONE is up only between two commands.
OrderFits ==
  ~overtook => /\ Working => Parked
               /\ "DONE" \in flags => player = "wait" /\ gui \in {"idle", "lock"}
               /\ gui \in {"await", "work", "open"} => player # "become"

\* What the player has been told to do and has not begun.
Pending == player = "become" \/ "DONE" \in flags

\* The player does what was asked, in each of its places.
StepPlaces == {"stepping", "stepread", "tread", "tlock", "stepped", "pausing"}
AskedFits ==
  ~overtook =>
    /\ Pending => nextState = asked
    /\ gui \in {"idle", "lock"} =>
         /\ player \notin {"wait", "become", "ended"} => state \in Outcomes(asked)
         /\ player \in {"frames", "reading", "tplay"} => asked \in Reading \cup {"TPLAY"}
         /\ player \in StepPlaces => asked \in Steps \cup TSteps

\* What a command has found out before it waits stays true while it does.
CommandsFit ==
  /\ first => cmd.op \in {"fast", "step"}
  /\ gui # "idle" /\ cmd.op = "fast" => opened
  /\ gui # "idle" /\ cmd.op = "step" => opened \/ tplay
  /\ gui \in {"await", "work"} => Op # "layout" /\ (Op = "speed" => opened)
  /\ gui = "open" => Op \in {"start", "jump"}
  /\ fails = 0 /\ opened /\ gui # "open" => reader

\* The states that read from the basket reader, or go on to one that does, and
\* the state to go back to: none of them is met while the reader is closed.
Playing == Reading \cup Steps \cup {"TPLAY"}
Resting == {"PAUSE"} \cup Steps \cup TSteps
BackFits == backState \in Playing => reader
ReaderFits ==
  fails = 0 /\ ~overtook =>
    /\ backState # "CHANGE"
    /\ Pending => nextState # "CHANGE"
    /\ gui \in {"idle", "lock"} /\ state = "CHANGE" => Pending
    /\ state \in Playing \/ (Pending /\ nextState \in Playing) => reader
    /\ player \in {"frames", "reading", "stepping", "stepread"} => reader
    /\ state \in Resting \/ player \in StepPlaces \/ (Pending /\ nextState \in Resting)
         => BackFits
    /\ gui \in {"lock", "await", "work"} /\ Op \in {"restart", "step"} => BackFits
    /\ gui \in {"await", "work"} /\ Op \in {"pause", "enable", "speed"} => BackFits

IInv == /\ TypeOK /\ HandshakeFits /\ OrderFits /\ AskedFits /\ CommandsFit /\ ReaderFits

-----------------------------------------------------------------------------
(* Types.                                                                  *)

\* The parts of TypeOK: values, flags of the threads' progress, counters.
ValueTypes == /\ {state, nextState, backState, asked} \subseteq States
              /\ flags \subseteq {"READY", "DONE"}
              /\ speed \in {"1x", "other"} /\ direction \in {"forward", "backward"}
              /\ player \in {"top", "frames", "reading", "stepping", "stepread", "stepped",
                             "tplay", "tread", "tlock", "pausing", "wait", "become", "ended"}
ThreadTypes == /\ lock \in {"free", "gui"} /\ cmd \in Commands
               /\ gui \in {"idle", "lock", "await", "work", "open"}
               /\ gui \in {"await", "work", "open"} => lock = "gui"
               /\ calls \in 0 .. MaxCalls /\ fails \in 0 .. MaxFails
TruthTypes == {tplay, opened, reader, first, skipped, overtook} \subseteq BOOLEAN

LEMMA TypeParts == TypeOK <=> ValueTypes /\ ThreadTypes /\ TruthTypes
BY DEF TypeOK, ValueTypes, ThreadTypes, TruthTypes

\* next_state is a state, whatever a command makes it.
LEMMA NextStateType ==
  ASSUME ValueTypes
  PROVE  NextStateOf \in States
BY DEF NextStateOf, ValueTypes, States, Reading, Steps, TSteps

\* A command's argument is one of its own.
LEMMA CommandArgs ==
  ASSUME NEW c \in Commands
  PROVE  /\ c.op = "fast" => c.arg \in {"forward", "backward"}
         /\ c.op = "speed" => c.arg \in {"1x", "other"}
BY DEF Commands, Command

LEMMA ValueStep ==
  ASSUME ValueTypes, ThreadTypes, Next
  PROVE  ValueTypes'
<1> USE DEF ValueTypes
<1>1. CASE Player
  BY <1>1 DEF Player, Look, EndFrames, StartRead, ReadFrame, ReadFails, TPlayFrames, TPlayRead,
              TPlayStep, StepDone, StepPauses, TakeDone, Become, settings, States, Steps
<1>2. CASE Request
  BY <1>2 DEF Request, States
<1>3. CASE Await \/ Close \/ SpeedNotAllowed \/ OpenFails
  BY <1>3 DEF Await, Close, SpeedNotAllowed, OpenFails, playerVars, settings
<1>4. CASE TPlaySpeed
  <2>1. speed' = cmd.arg /\ cmd.arg \in {"1x", "other"}
    BY <1>4, CommandArgs DEF TPlaySpeed, ThreadTypes, Op
  <2> QED BY <1>4, <2>1 DEF TPlaySpeed, playerVars
<1>5. CASE Adjust \/ Stop \/ Open
  <2>1. nextState' \in States /\ asked' = nextState'
    BY <1>5, NextStateType DEF Adjust, Stop, Open, Finish
  <2>2. UNCHANGED <<player, state, backState>> /\ flags' = flags \cup {"DONE"}
    BY <1>5 DEF Adjust, Stop, Open, Finish
  <2>3. /\ Op = "fast" => cmd.arg \in {"forward", "backward"}
        /\ Op = "speed" => cmd.arg \in {"1x", "other"}
    BY CommandArgs DEF ThreadTypes, Op
  <2>4. speed' \in {"1x", "other"}
    BY <1>5, <2>3 DEF Adjust, Stop, Open
  <2>5. direction' \in {"forward", "backward"}
    BY <1>5, <2>3 DEF Adjust, Stop, Open
  <2> QED BY <2>1, <2>2, <2>4, <2>5
<1>8. CASE Layout
  BY <1>8 DEF Layout, States, Reading
<1>9. ASSUME NEW c \in Commands, Call(c)
      PROVE  ValueTypes'
  BY <1>9 DEF Call, playerVars, settings
<1> QED BY <1>1, <1>2, <1>3, <1>4, <1>5, <1>8, <1>9 DEF Next, Gui

LEMMA ThreadStep ==
  ASSUME ThreadTypes, Next
  PROVE  ThreadTypes'
<1> USE PlayAssumption DEF ThreadTypes
<1>1. CASE Player
  BY <1>1 DEF Player
<1>2. CASE Gui
  BY <1>2 DEF Gui, Request, Await, Adjust, Stop, Close, Open, OpenFails, TPlaySpeed,
              SpeedNotAllowed, Layout, Finish
<1>3. ASSUME NEW c \in Commands, Call(c)
      PROVE  ThreadTypes'
  BY <1>3 DEF Call
<1> QED BY <1>1, <1>2, <1>3 DEF Next

LEMMA TruthStep ==
  ASSUME TruthTypes, Next
  PROVE  TruthTypes'
<1> USE DEF TruthTypes
<1>1. CASE Player
  BY <1>1 DEF Player, settings, history
<1>2. CASE Request
  BY <1>2 DEF Request
<1>3. CASE Await \/ Close \/ OpenFails \/ TPlaySpeed \/ SpeedNotAllowed
  BY <1>3 DEF Await, Close, OpenFails, TPlaySpeed, SpeedNotAllowed, settings, history
<1>4. CASE Adjust \/ Stop \/ Open
  BY <1>4 DEF Adjust, Stop, Open, Finish, history
<1>5. CASE Layout
  BY <1>5 DEF Layout, history
<1>6. ASSUME NEW c \in Commands, Call(c)
      PROVE  TruthTypes'
  BY <1>6 DEF Call, settings, history
<1> QED BY <1>1, <1>2, <1>3, <1>4, <1>5, <1>6 DEF Next, Gui

-----------------------------------------------------------------------------
(* The handshake.                                                          *)

\* READY stays up until the waiting player or the waiting user takes it.
LEMMA HandshakeStep ==
  ASSUME TypeOK, HandshakeFits, Next
  PROVE  HandshakeFits'
<1> USE DEF HandshakeFits, Working, TypeOK
<1>1. CASE Player
  BY <1>1 DEF Player, Look, EndFrames, StartRead, ReadFrame, ReadFails, TPlayFrames, TPlayRead,
              TPlayStep, StepDone, StepPauses, TakeDone, Become, settings, history
<1>2. CASE Request
  BY <1>2 DEF Request
<1>3. CASE Await \/ Close \/ TPlaySpeed \/ SpeedNotAllowed \/ OpenFails
  BY <1>3 DEF Await, Close, TPlaySpeed, SpeedNotAllowed, OpenFails, playerVars, settings, history
<1>4. CASE Adjust \/ Stop \/ Open
  BY <1>4 DEF Adjust, Stop, Open, Finish, history
<1>5. CASE Layout
  BY <1>5 DEF Layout, history, Reading
<1>6. ASSUME NEW c \in Commands, Call(c)
      PROVE  HandshakeFits'
  BY <1>6 DEF Call, playerVars, settings, history
<1> QED BY <1>1, <1>2, <1>3, <1>4, <1>5, <1>6 DEF Next, Gui

\* A command that finds the state CHANGE overtakes, unless the player is parked.
LEMMA OrderStep ==
  ASSUME TypeOK, HandshakeFits, OrderFits, Next
  PROVE  OrderFits'
<1> USE DEF HandshakeFits, OrderFits, Working, Parked, TypeOK
<1>1. CASE Player
  BY <1>1 DEF Player, Look, EndFrames, StartRead, ReadFrame, ReadFails, TPlayFrames, TPlayRead,
              TPlayStep, StepDone, StepPauses, TakeDone, Become, settings, history
<1>2. CASE Request
  BY <1>2 DEF Request
<1>3. CASE Await \/ Close \/ TPlaySpeed \/ SpeedNotAllowed \/ OpenFails
  BY <1>3 DEF Await, Close, TPlaySpeed, SpeedNotAllowed, OpenFails, playerVars, settings, history
<1>4. CASE Adjust \/ Stop \/ Open
  BY <1>4 DEF Adjust, Stop, Open, Finish, history
<1>5. CASE Layout
  BY <1>5 DEF Layout, history
<1>6. ASSUME NEW c \in Commands, Call(c)
      PROVE  OrderFits'
  BY <1>6 DEF Call, playerVars, settings, history
<1> QED BY <1>1, <1>2, <1>3, <1>4, <1>5, <1>6 DEF Next, Gui

-----------------------------------------------------------------------------
(* What was asked.                                                         *)

\* A state that reads tells which command it comes of.
LEMMA OutcomesOf ==
  ASSUME NEW s \in States, NEW t \in Outcomes(s)
  PROVE  /\ t \in Reading \cup {"TPLAY"} => s = t
         /\ t \in Steps \cup TSteps => s = t
         /\ t = "CHANGE" => s = "CHANGE"
BY DEF Outcomes, States, Reading, Steps, TSteps

\* A state is an outcome of itself; a step ends in PAUSE, a read may fail.
LEMMA OwnOutcomes ==
  ASSUME NEW s \in States
  PROVE  /\ s # "INVALID" => s \in Outcomes(s)
         /\ s = "INVALID" => "STOP" \in Outcomes(s)
         /\ s \in Reading \cup {"TPLAY"} \cup Steps \cup TSteps => "INVALID" \in Outcomes(s)
         /\ s \in Steps \cup TSteps => "PAUSE" \in Outcomes(s)
BY DEF Outcomes, States, Reading, Steps, TSteps

\* Whatever the player does, its state comes of what was asked.
LEMMA AskedStep ==
  ASSUME TypeOK, HandshakeFits, OrderFits, AskedFits, Next
  PROVE  AskedFits'
<1> USE DEF AskedFits, Pending
<1>0. asked \in States /\ state \in States /\ nextState \in States
  BY DEF TypeOK
<1>1. CASE Player
  <2>0. UNCHANGED <<overtook, nextState, asked, gui>>
    BY <1>1 DEF Player, history
  <2>1. CASE Look
    BY <1>0, <2>0, <2>1, OutcomesOf DEF Look, HandshakeFits, OrderFits, StepPlaces
  <2>2. CASE EndFrames \/ StartRead \/ ReadFrame \/ StepDone
    BY <1>0, <2>0, <2>2 DEF EndFrames, StartRead, ReadFrame, StepDone, StepPlaces
  <2>3. CASE ReadFails \/ TPlayFrames \/ TPlayRead
    BY <1>0, <2>0, <2>3, OwnOutcomes DEF ReadFails, TPlayFrames, TPlayRead, StepPlaces
  <2>4. CASE TPlayStep \/ StepPauses
    BY <1>0, <2>0, <2>4, OwnOutcomes DEF TPlayStep, StepPauses, StepPlaces
  <2>5. CASE TakeDone
    BY <1>0, <2>0, <2>5 DEF TakeDone, StepPlaces
  <2>6. CASE Become
    BY <1>0, <2>0, <2>6, OwnOutcomes DEF Become, OrderFits, HandshakeFits, StepPlaces
  <2> QED BY <1>1, <2>1, <2>2, <2>3, <2>4, <2>5, <2>6 DEF Player
<1>2. CASE Request \/ Await \/ Close
  BY <1>2 DEF Request, Await, Close, playerVars, history
<1>3. CASE OpenFails
  BY <1>3 DEF OpenFails, playerVars, history, OrderFits, Working, Parked, StepPlaces
<1>4. CASE Adjust \/ Stop \/ Open
  BY <1>4 DEF Adjust, Stop, Open, Finish, history, OrderFits, Working, Parked, StepPlaces
<1>5. CASE TPlaySpeed \/ SpeedNotAllowed
  BY <1>5 DEF TPlaySpeed, SpeedNotAllowed, playerVars, history
<1>6. CASE Layout
  BY <1>0, <1>6, OwnOutcomes, OutcomesOf DEF Layout, history, HandshakeFits, OrderFits, States, Reading, Steps, TSteps, StepPlaces
<1>7. ASSUME NEW c \in Commands, Call(c)
      PROVE  AskedFits'
  BY <1>7 DEF Call, playerVars, history
<1> QED BY <1>1, <1>2, <1>3, <1>4, <1>5, <1>6, <1>7 DEF Next, Gui

-----------------------------------------------------------------------------
(* The reader.                                                             *)

\* Only a command changes what a command has found out.
LEMMA CommandsStep ==
  ASSUME TypeOK, CommandsFit, Next
  PROVE  CommandsFit'
<1> USE DEF CommandsFit, TypeOK, Op
<1>1. CASE Player
  BY <1>1 DEF Player, settings
<1>2. CASE Request \/ Await \/ TPlaySpeed \/ SpeedNotAllowed
  BY <1>2 DEF Request, Await, TPlaySpeed, SpeedNotAllowed, settings
<1>3. CASE Adjust
  BY <1>3 DEF Adjust, Finish
<1>4. CASE Stop \/ Open \/ Close
  BY <1>4 DEF Stop, Open, Close, Finish, settings
<1>5. CASE OpenFails
  BY <1>5 DEF OpenFails, settings
<1>6. CASE Layout
  BY <1>6 DEF Layout
<1>7. ASSUME NEW c \in Commands, Call(c)
      PROVE  CommandsFit'
  BY <1>7 DEF Call, Refused, settings
<1> QED BY <1>1, <1>2, <1>3, <1>4, <1>5, <1>6, <1>7 DEF Next, Gui

\* The sets of states that the invariant tells apart.
LEMMA StateSets ==
  /\ {"CHANGE", "STOP", "INVALID"} \cap (Playing \cup Resting) = {}
  /\ "PAUSE" \notin Playing /\ {"START", "SPEED", "TPLAY"} \subseteq Playing
  /\ {"START", "SPEED", "TPLAY"} \cap Resting = {} /\ "PAUSE" \in Resting
  /\ Reading \cup Steps \cup {"TPLAY"} = Playing /\ {"PAUSE"} \cup Steps \cup TSteps = Resting
  /\ TSteps \cap Playing = {} /\ TSteps = {"TPLAY_STEP", "TPLAY_STEP_BACK"}
  /\ Steps = {"STEP", "STEP_BACK"} /\ Reading = {"START", "SPEED"}
BY DEF Playing, Resting, Reading, Steps, TSteps

\* The player's own steps lead to no place that reads but from one that may.
LEMMA ReaderPlayerStep ==
  ASSUME TypeOK, HandshakeFits, OrderFits, ReaderFits, Player
  PROVE  ReaderFits'
<1> USE StateSets DEF ReaderFits, Pending, BackFits, StepPlaces
<1>0. UNCHANGED <<overtook, nextState, backState, reader, gui, cmd, first, fails>>
  BY DEF Player, history, settings
<1>1. UNCHANGED <<BackFits, Op>>
  BY <1>0 DEF Op
<1>2. CASE Look
  BY <1>0, <1>1, <1>2 DEF Look
<1>3. CASE EndFrames \/ StartRead \/ ReadFrame \/ StepDone
  BY <1>0, <1>1, <1>3 DEF EndFrames, StartRead, ReadFrame, StepDone
<1>4. CASE ReadFails \/ TPlayFrames \/ TPlayRead
  BY <1>0, <1>1, <1>4 DEF ReadFails, TPlayFrames, TPlayRead
<1>5. CASE TPlayStep \/ StepPauses
  BY <1>0, <1>1, <1>5 DEF TPlayStep, StepPauses
<1>6. CASE TakeDone
  BY <1>0, <1>1, <1>6 DEF TakeDone
<1>7. CASE Become
  BY <1>0, <1>1, <1>7 DEF Become, OrderFits
<1> QED BY <1>2, <1>3, <1>4, <1>5, <1>6, <1>7 DEF Player

\* The end of a command: what it leads to may read, unless it is a stop.
LEMMA ReaderFinishStep ==
  ASSUME TypeOK, HandshakeFits, OrderFits, CommandsFit, ReaderFits, Adjust \/ Stop \/ Open
  PROVE  ReaderFits'
<1> USE StateSets DEF ReaderFits, Pending, BackFits, StepPlaces
<1> SUFFICES ASSUME fails = 0, ~overtook
             PROVE  ReaderFits'
  BY DEF Adjust, Stop, Open, Finish, history
<1>1. /\ player = "wait" /\ state = "CHANGE" /\ UNCHANGED <<player, state, backState, cmd, overtook>>
      /\ nextState' = NextStateOf /\ first' = FALSE /\ Working
      /\ gui' = IF first THEN "lock" ELSE "idle"
  BY DEF Adjust, Stop, Open, Finish, history, OrderFits, HandshakeFits, Working, Parked
<1>2. first => Op = "pause" /\ cmd.op \in {"fast", "step"}
  BY DEF Op, CommandsFit
<1>3. gui' = "lock" => Op' \in {"fast", "step"}
  BY <1>1, <1>2 DEF Op
<1>4. ASSUME nextState' # "CHANGE", nextState' \in Playing => reader',
             nextState' \in Resting => BackFits', first => BackFits'
      PROVE  ReaderFits'
  <2>1. flags' = flags \cup {"DONE"}
    BY DEF Adjust, Stop, Open, Finish
  <2>2. gui' \in {"idle", "lock"} /\ (gui' = "lock" => first)
    BY <1>1
  <2> QED BY <1>1, <1>3, <1>4, <2>1, <2>2
<1>5. CASE Adjust
  <2>1. UNCHANGED reader /\ gui = "work" /\ (opened => reader)
    BY <1>5 DEF Adjust, CommandsFit
  <2>2. Op \in {"pause", "restart", "enable", "fast", "speed", "step"}
    <3>1. cmd.op \in {"start", "stop", "jump", "pause", "restart", "enable", "fast",
                     "step", "speed", "layout"}
      BY DEF TypeOK, Commands, Command
    <3> QED BY <1>5, <2>1, <3>1 DEF Adjust, CommandsFit, Op
  <2>3. CASE Op = "pause"
    BY <1>1, <1>4, <2>1, <2>3 DEF NextStateOf
  <2>4. CASE Op \in {"restart", "enable"}
    BY <1>1, <1>2, <1>4, <2>1, <2>4 DEF NextStateOf
  <2>5. CASE Op \in {"fast", "speed"}
    BY <1>1, <1>2, <1>4, <2>1, <2>5 DEF NextStateOf, CommandsFit, Op
  <2>6. CASE Op = "step"
    BY <1>1, <1>2, <1>4, <2>1, <2>6 DEF NextStateOf, CommandsFit, Op
  <2> QED BY <2>2, <2>3, <2>4, <2>5, <2>6
<1>6. CASE Stop
  BY <1>1, <1>2, <1>4, <1>6 DEF Stop, NextStateOf
<1>7. CASE Open
  <2>1. Op \in {"start", "jump"} /\ reader'
    BY <1>7 DEF Open, CommandsFit
  <2> QED BY <1>1, <1>2, <1>4, <2>1 DEF NextStateOf
<1> QED BY <1>5, <1>6, <1>7

\* No state that reads is left behind a closed reader, in whatever order the
\* user pauses, steps, restarts and stops.
LEMMA ReaderStep ==
  ASSUME TypeOK, HandshakeFits, OrderFits, CommandsFit, ReaderFits, Next
  PROVE  ReaderFits'
<1> USE StateSets DEF ReaderFits, Pending, BackFits, StepPlaces
<1>1. CASE Request
  <2> SUFFICES ASSUME fails = 0, ~overtook'
               PROVE  ReaderFits'
    BY <1>1 DEF Request
  <2>1. state # "CHANGE" /\ ~overtook
    BY <1>1 DEF Request, HandshakeFits, OrderFits, Parked
  <2>2. ~Pending /\ ~Pending' /\ gui = "lock" /\ gui' = "await" /\ state' = "CHANGE"
    BY <1>1, <2>1 DEF Request, HandshakeFits, OrderFits
  <2>3. UNCHANGED <<player, reader, fails, cmd, first, Op>>
    BY <1>1 DEF Request, Op
  <2>4. \/ backState' = backState /\ Op \notin {"pause", "enable", "speed"}
        \/ backState' = state /\ Op \in {"pause", "enable", "speed"}
    BY <1>1, <2>1 DEF Request
  <2> QED BY <2>1, <2>2, <2>3, <2>4
<1>2. CASE Await
  BY <1>2 DEF Await, Op, settings, history, OrderFits, HandshakeFits
<1>3. CASE Close
  <2> SUFFICES ASSUME fails = 0, ~overtook
               PROVE  ReaderFits'
    BY <1>3 DEF Close, history
  <2>1. Parked /\ state = "CHANGE"
    BY <1>3 DEF Close, HandshakeFits, OrderFits, Working, Parked
  <2>2. /\ UNCHANGED <<player, state, flags, backState, nextState>>
        /\ gui' = "open"
    BY <1>3 DEF Close, playerVars, settings
  <2> QED BY <2>1, <2>2 DEF Parked
<1>4. CASE OpenFails
  BY <1>4 DEF OpenFails, TypeOK
<1>5. CASE Adjust \/ Stop \/ Open
  BY <1>5, ReaderFinishStep
<1>6. CASE TPlaySpeed \/ SpeedNotAllowed
  BY <1>6 DEF TPlaySpeed, SpeedNotAllowed, playerVars, settings, history
<1>7. CASE Layout
  <2> SUFFICES ASSUME fails = 0, ~overtook
               PROVE  ReaderFits'
    BY <1>7 DEF Layout, history
  <2>1. /\ UNCHANGED <<player, flags, backState, reader>> /\ gui = "lock" /\ gui' = "idle"
        /\ \/ state' = state
           \/ /\ state' \in {"TPLAY", "START", "SPEED"}
              /\ state \in Reading \cup {"TPLAY"} /\ nextState' = nextState
        /\ nextState' = nextState \/ state = "PAUSE"
    BY <1>7 DEF Layout, history
  <2>2. Pending => state = "CHANGE"
    BY DEF OrderFits, HandshakeFits
  <2> QED BY <2>1, <2>2
<1>8. ASSUME NEW c \in Commands, Call(c)
      PROVE  ReaderFits'
  <2>1. /\ UNCHANGED <<player, state, flags, backState, reader, nextState, fails, overtook>>
        /\ gui = "idle" /\ gui' = "lock" /\ cmd' = c /\ ~Refused(c)
        /\ first' = (c.op \in {"fast", "step"} /\ state # "PAUSE")
    BY <1>8 DEF Call, playerVars, settings, history
  <2>2. Op' \in {"restart", "step"} => state \in Resting
    BY <2>1 DEF Op, Refused
  <2> QED BY <2>1, <2>2
<1> QED
  BY <1>1, <1>2, <1>3, <1>4, <1>5, <1>6, <1>7, <1>8, ReaderPlayerStep DEF Next, Gui

-----------------------------------------------------------------------------
(* The theorems.                                                           *)

LEMMA InitIInv ==
  ASSUME Init
  PROVE  IInv
<1>0. 0 \in 0 .. MaxCalls /\ 0 \in 0 .. MaxFails
  BY PlayAssumption
<1> USE DEF Init
<1>1. ValueTypes /\ ThreadTypes /\ TruthTypes
  <2>1. calls \in 0 .. MaxCalls /\ fails \in 0 .. MaxFails
    BY <1>0, Zenon
  <2>2. cmd \in Commands
    BY DEF Commands, Command
  <2> QED BY <2>1, <2>2 DEF ValueTypes, ThreadTypes, TruthTypes, States
<1>2. HandshakeFits /\ OrderFits /\ CommandsFit
  BY DEF HandshakeFits, OrderFits, CommandsFit, Working
<1>3. AskedFits
  BY DEF AskedFits, Pending, Outcomes, StepPlaces, Reading, Steps, TSteps
<1>4. ReaderFits
  BY StateSets DEF ReaderFits, Pending, BackFits, StepPlaces
<1> QED BY <1>1, <1>2, <1>3, <1>4, TypeParts DEF IInv

\* The inductive invariant holds throughout.
LEMMA Invariance == Spec => []IInv
<1>1. Init => IInv
  BY InitIInv
<1>2. IInv /\ [Next]_vars => IInv'
  <2> SUFFICES ASSUME IInv, [Next]_vars
               PROVE  IInv'
    OBVIOUS
  <2>1. CASE Next
    <3>1. (ValueTypes /\ ThreadTypes /\ TruthTypes)'
      BY <2>1, TypeParts, ValueStep, ThreadStep, TruthStep DEF IInv
    <3>2. TypeOK'
      BY <3>1 DEF TypeOK, ValueTypes, ThreadTypes, TruthTypes
    <3> QED BY <2>1, <3>2, HandshakeStep, OrderStep, AskedStep, CommandsStep, ReaderStep DEF IInv
  <2>2. CASE UNCHANGED vars
    BY <2>2 DEF vars, playerVars, settings, history, IInv, TypeOK, HandshakeFits, OrderFits,
                AskedFits, CommandsFit, ReaderFits, BackFits, Pending, Working, Parked, Op
  <2> QED BY <2>1, <2>2
<1> QED BY <1>1, <1>2, PTL DEF Spec

\* Every state, flag and place of the two threads has its type, and whoever is
\* past the handshake holds the mutex.
THEOREM TypeCorrect == Spec => []TypeOK
<1>1. IInv => TypeOK
  BY DEF IInv
<1> QED BY <1>1, Invariance, PTL

\* A command that has waited for READY closes and opens the basket reader while
\* the player is in no read: the wait is all that keeps them apart.
THEOREM ReaderNeverShared == Spec => []ReaderExclusive
<1>1. IInv => ReaderExclusive
  BY DEF IInv, HandshakeFits, Working, ReaderExclusive, InRead
<1> QED BY <1>1, Invariance, PTL

\* While every basket opened and no command overtook another, the player reads
\* only from an open reader, whatever back_state and next_state remember.
THEOREM ReadsFindOpenReader == Spec => []ReadsOpenReader
<1>1. IInv => ReadsOpenReader
  BY DEF IInv, ReaderFits, ReadsOpenReader
<1> QED BY <1>1, Invariance, PTL

\* While no command overtook another, the player is in the state last asked for,
\* or in one that comes of it.
THEOREM PlaysAsAsked == Spec => []AsAsked
<1>1. IInv => AsAsked
  BY DEF IInv, AskedFits, AsAsked
<1> QED BY <1>1, Invariance, PTL
=============================================================================
