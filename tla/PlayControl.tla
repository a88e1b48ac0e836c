----------------------------- MODULE PlayControl ----------------------------
(***************************************************************************)
(* Playback control (app_playback.c): the player thread task_player_main,  *)
(* which reads frames in the manner its state asks for, and the user's     *)
(* thread, whose commands change that state.  A command takes the mutex,   *)
(* sets the state to CHANGE, waits until the player says it is READY,      *)
(* closes and opens the basket reader as it needs, writes next_state and   *)
(* sets DONE, whereupon the player goes on with next_state.                *)
(*                                                                         *)
(* The player writes the state too, without the mutex, and a command that  *)
(* finds the state CHANGE does not wait: the steps below are as fine as    *)
(* needed to see what comes of that.  Frames, times and channels are left  *)
(* out; speeds are "1x" and "other".                                       *)
(***************************************************************************)
EXTENDS Naturals

CONSTANTS MaxCalls,  \* bound: commands
          MaxFails   \* bound: baskets that do not open

ASSUME PlayAssumption == MaxCalls \in Nat /\ MaxFails \in Nat

VARIABLES
  state, nextState, backState,
  flags,      \* the event's flags: a subset of {"READY", "DONE"}
  lock,       \* the mutex: "free" or "gui"; the player's hold is one step
  tplay,      \* tplay_enable: one channel fills the screen
  speed, direction,
  opened,     \* bkt_opened
  reader,     \* the basket reader has its files open
  player,     \* where task_player_main stands
  gui,        \* where the user's thread stands in cmd
  cmd,        \* its command
  first,      \* it runs app_playback_pause within cmd
  skipped,    \* the command found the state CHANGE and did not wait
  overtook,   \* some command did so before the player had stopped
  asked,      \* the state last asked for
  calls, fails

playerVars == <<player, state, flags>>
settings == <<tplay, speed, direction, backState>>
history == <<skipped, overtook>>
vars == <<playerVars, settings, history, nextState, lock, opened, reader, gui,
          cmd, first, asked, calls, fails>>

Reading == {"START", "SPEED"}
Steps == {"STEP", "STEP_BACK"}
TSteps == {"TPLAY_STEP", "TPLAY_STEP_BACK"}
States == Reading \cup Steps \cup TSteps
          \cup {"INVALID", "STOP", "PAUSE", "CHANGE", "TPLAY"}

Command(ops, args) == [op : ops, arg : args]
Commands == Command({"start", "stop", "jump", "pause", "restart", "enable"}, {""})
            \cup Command({"fast"}, {"forward", "backward"})
            \cup Command({"step"}, {"next", "back"})
            \cup Command({"speed"}, {"1x", "other"})
            \cup Command({"layout"}, {"one", "many"})

Init == /\ state = "INVALID" /\ nextState = "INVALID" /\ backState = "INVALID"
        /\ flags = {} /\ lock = "free" /\ player = "top"
        /\ tplay = FALSE /\ speed = "other" /\ direction = "forward"
        /\ opened = FALSE /\ reader = FALSE
        /\ gui = "idle" /\ cmd = [op |-> "stop", arg |-> ""] /\ first = FALSE
        /\ skipped = FALSE /\ overtook = FALSE /\ asked = "INVALID"
        /\ calls = 0 /\ fails = 0
-----------------------------------------------------------------------------
(* The player thread. *)

\* A mistaken form of Look: the player announces the change and does not wait.
LookOnward == /\ player = "top" /\ state = "CHANGE"
              /\ player' = "become" /\ flags' = flags \cup {"READY"}
              /\ UNCHANGED state

\* One turn of the loop looks at the state; INVALID, STOP and PAUSE only sleep.
Look == /\ player = "top"
        /\ \/ /\ state \in Reading \cup Steps
              /\ player' = IF state \in Steps THEN "stepping" ELSE "frames"
              /\ UNCHANGED flags
           \/ /\ state = "TPLAY" /\ player' = "tplay" /\ UNCHANGED flags
           \/ /\ state \in TSteps /\ player' = "tread" /\ UNCHANGED flags
           \/ /\ state = "CHANGE" /\ player' = "wait"
              /\ flags' = flags \cup {"READY"}
        /\ UNCHANGED state

\* The decoder's buffers are used up, or the state is CHANGE.
EndFrames == /\ \/ player = "frames" /\ player' = "top"
                \/ player = "stepping" /\ player' = "stepped"
             /\ UNCHANGED <<state, flags>>

\* A mistaken form of StartRead: the loop does not look for a change.
StartReadAlways == /\ \/ player = "frames" /\ player' = "reading"
                      \/ player = "stepping" /\ player' = "stepread"
                   /\ UNCHANGED <<state, flags>>

StartRead == /\ state # "CHANGE"
             /\ \/ player = "frames" /\ player' = "reading"
                \/ player = "stepping" /\ player' = "stepread"
             /\ UNCHANGED <<state, flags>>

ReadFrame == /\ reader
             /\ \/ player = "reading" /\ player' = "frames"
                \/ player = "stepread" /\ player' = "stepping"
             /\ UNCHANGED <<state, flags>>

\* Nothing is left to read, or no reader is open: whatever the state is by now.
ReadFails == /\ \/ player = "reading" /\ player' = "top"
                \/ player = "stepread" /\ player' = "stepped"
             /\ state' = "INVALID"
             /\ UNCHANGED flags

\* app_tplay_read_frame does all its work under the mutex.
TPlayFrames == /\ player = "tplay" /\ lock = "free"
               /\ player' = "top"
               /\ state' \in {state} \cup IF state = "CHANGE" THEN {}
                                          ELSE {"INVALID"}
               /\ UNCHANGED flags

\* app_tplay_step reads before it takes the mutex.
TPlayRead == /\ player = "tread"
             /\ \/ player' = "tlock" /\ UNCHANGED state
                \/ player' = "stepped" /\ state' = "INVALID"
             /\ UNCHANGED flags

TPlayStep == /\ player = "tlock" /\ lock = "free"
             /\ player' = "stepped"
             /\ UNCHANGED <<state, flags>>

\* A step ends in PAUSE; the break meant for a change leaves the thread's loop.
StepDone == /\ player = "stepped"
            /\ player' = IF state = "CHANGE" THEN "ended" ELSE "pausing"
            /\ UNCHANGED <<state, flags>>

StepPauses == /\ player = "pausing"
              /\ player' = "top" /\ state' = "PAUSE"
              /\ UNCHANGED flags

\* Retrieving an event clears every flag, READY too.
TakeDone == /\ player = "wait" /\ "DONE" \in flags
            /\ player' = "become" /\ flags' = {}
            /\ UNCHANGED state

Become == /\ player = "become"
          /\ player' = "top"
          /\ state' = IF nextState = "INVALID" THEN "STOP" ELSE nextState
          /\ UNCHANGED flags

Player == /\ \/ Look \/ EndFrames \/ StartRead \/ ReadFrame \/ ReadFails
             \/ TPlayFrames \/ TPlayRead \/ TPlayStep
             \/ StepDone \/ StepPauses \/ TakeDone \/ Become
          /\ UNCHANGED <<settings, history, nextState, lock, opened, reader,
                         gui, cmd, first, asked, calls, fails>>
-----------------------------------------------------------------------------
(* The commands. *)

Op == IF first THEN "pause" ELSE cmd.op

\* A mistaken form of Refused: a restart needs no pause.
RefusedLess(c) == \/ c.op = "start" /\ state \in {"START", "TPLAY"}
                  \/ c.op = "fast" /\ ~opened
                  \/ c.op = "step" /\ ~opened /\ ~tplay
                  \/ c.op \in {"enable", "speed"} /\ state = "STOP"

\* What a command tests before it takes the mutex.
Refused(c) == \/ c.op = "start" /\ state \in {"START", "TPLAY"}
              \/ c.op = "restart" /\ state \notin {"PAUSE", "STEP"}
              \/ c.op = "fast" /\ ~opened
              \/ c.op = "step" /\ ~opened /\ ~tplay
              \/ c.op \in {"enable", "speed"} /\ state = "STOP"

Call(c) == /\ gui = "idle" /\ calls < MaxCalls
           /\ ~Refused(c)
           /\ gui' = "lock" /\ cmd' = c
           /\ first' = (c.op \in {"fast", "step"} /\ state # "PAUSE")
           /\ calls' = calls + 1
           /\ UNCHANGED <<playerVars, settings, history, nextState, lock, opened,
                          reader, asked, fails>>

\* The player waits for DONE and nobody has set it.
Parked == player = "wait" /\ "DONE" \notin flags

\* A mistaken form of Request: the state is changed without the mutex.
RequestUnlocked == /\ gui = "lock" /\ lock = "free" /\ Op # "layout"
                   /\ (Op = "speed" => state # "TPLAY" /\ opened)
                   /\ state' = "CHANGE" /\ skipped' = (state = "CHANGE")
                   /\ gui' = IF skipped' THEN "work" ELSE "await"
                   /\ UNCHANGED <<player, flags, settings, nextState, lock, opened,
                                  reader, cmd, first, overtook, asked, calls,
                                  fails>>

\* The mutex is taken, and the state set to CHANGE if it is not that already.
Request == /\ gui = "lock" /\ lock = "free" /\ Op # "layout"
           /\ (Op = "speed" => state # "TPLAY" /\ opened)
           /\ lock' = "gui"
           /\ backState' = IF \/ Op = "pause" /\ state # "CHANGE"
                              \/ Op \in {"enable", "speed"}
                           THEN state ELSE backState
           /\ state' = "CHANGE"
           /\ skipped' = (state = "CHANGE")
           /\ gui' = IF skipped' THEN "work" ELSE "await"
           /\ overtook' = (overtook \/ (skipped' /\ ~Parked))
           /\ UNCHANGED <<player, flags, tplay, speed, direction, nextState,
                          opened, reader, cmd, first, asked, calls, fails>>

\* A mistaken form of Await: the wait has a time limit.
AwaitBriefly == /\ gui = "await"
                /\ gui' = "work" /\ flags' = {}
                /\ UNCHANGED <<player, state, settings, history, nextState, lock,
                               opened, reader, cmd, first, asked, calls, fails>>

Await == /\ gui = "await" /\ "READY" \in flags
         /\ gui' = "work" /\ flags' = {}
         /\ UNCHANGED <<player, state, settings, history, nextState, lock, opened,
                        reader, cmd, first, asked, calls, fails>>

NextStateOf == CASE Op \in {"start", "jump"} -> IF tplay THEN "TPLAY" ELSE "START"
                 [] Op = "stop" -> "STOP"
                 [] Op = "pause" -> "PAUSE"
                 [] Op \in {"restart", "enable"} -> backState
                 [] Op = "fast" -> "SPEED"
                 [] Op = "speed" -> IF cmd.arg = "1x" /\ direction = "forward"
                                    THEN "START" ELSE "SPEED"
                 [] Op = "step" /\ tplay -> IF cmd.arg = "next" THEN "TPLAY_STEP"
                                            ELSE "TPLAY_STEP_BACK"
                 [] OTHER -> IF cmd.arg = "next" THEN "STEP" ELSE "STEP_BACK"

\* The end of every command that gets so far; after the pause, the command itself.
Finish == /\ nextState' = NextStateOf /\ asked' = nextState'
          /\ flags' = flags \cup {"DONE"}
          /\ lock' = "free"
          /\ first' = FALSE
          /\ gui' = IF first THEN "lock" ELSE "idle"
          /\ UNCHANGED <<player, state, tplay, backState, history, cmd, calls>>

\* pause, restart, fastforward and fastbackward, step, channels and speed.
Adjust == /\ gui = "work" /\ Op \notin {"start", "stop", "jump"}
          /\ Finish
          /\ speed' = CASE Op = "fast" -> "other" [] Op = "speed" -> cmd.arg
                        [] OTHER -> speed
          /\ direction' = IF Op = "fast" THEN cmd.arg ELSE direction
          /\ UNCHANGED <<opened, reader, fails>>

Stop == /\ gui = "work" /\ Op = "stop"
        /\ Finish
        /\ reader' = FALSE /\ opened' = FALSE /\ speed' = "1x"
        /\ UNCHANGED <<direction, fails>>

\* app_playback_start closes only what it has opened.
Close == /\ gui = "work" /\ Op \in {"start", "jump"}
         /\ gui' = "open"
         /\ reader' = (reader /\ Op = "start" /\ ~opened)
         /\ UNCHANGED <<playerVars, settings, history, nextState, lock, opened,
                        cmd, first, asked, calls, fails>>

Open == /\ gui = "open"
        /\ Finish
        /\ reader' = TRUE /\ opened' = TRUE
        /\ direction' = IF Op = "start" THEN "forward" ELSE direction
        /\ UNCHANGED <<speed, fails>>

\* No such recording: the command returns, and the player is left waiting.
OpenFails == /\ gui = "open" /\ fails < MaxFails
             /\ lock' = "free" /\ gui' = "idle" /\ fails' = fails + 1
             /\ UNCHANGED <<playerVars, settings, history, nextState, opened,
                            reader, cmd, first, asked, calls>>

\* The speed of one-channel playback is set without a handshake.
TPlaySpeed == /\ gui = "lock" /\ lock = "free" /\ Op = "speed" /\ state = "TPLAY"
              /\ gui' = "idle" /\ speed' = cmd.arg
              /\ UNCHANGED <<playerVars, tplay, direction, backState, history,
                             nextState, lock, opened, reader, cmd, first, asked,
                             calls, fails>>

\* Nothing is open: the command returns and keeps the mutex.
SpeedNotAllowed == /\ gui = "lock" /\ lock = "free" /\ Op = "speed"
                   /\ state # "TPLAY" /\ ~opened
                   /\ gui' = "idle" /\ lock' = "gui"
                   /\ UNCHANGED <<playerVars, settings, history, nextState, opened,
                                  reader, cmd, first, asked, calls, fails>>

\* app_tplay_save_layout moves a playing player without the handshake.  Its
\* test of the state and its write are one step here.
Layout == /\ gui = "lock" /\ lock = "free" /\ Op = "layout"
          /\ LET one == cmd.arg = "one"
                 plays == IF one THEN Reading ELSE {"TPLAY"}
                 other == IF one THEN "TPLAY"
                          ELSE IF speed = "1x" THEN "START" ELSE "SPEED"
                 moves == one # tplay
             IN /\ tplay' = one
                /\ state' = IF moves /\ state \in plays THEN other ELSE state
                /\ asked' = IF moves /\ state \in plays THEN other ELSE asked
                /\ nextState' = IF moves /\ state = "PAUSE"
                                THEN IF one THEN "TPLAY" ELSE "START"
                                ELSE nextState
          /\ gui' = "idle"
          /\ UNCHANGED <<player, flags, speed, direction, backState, history, lock,
                         opened, reader, cmd, first, calls, fails>>

Gui == \/ Request \/ Await \/ Adjust \/ Stop \/ Close \/ Open \/ OpenFails
       \/ TPlaySpeed \/ SpeedNotAllowed \/ Layout

Next == Player \/ Gui \/ \E c \in Commands : Call(c)

Spec == Init /\ [][Next]_vars

\* Both threads run; nothing makes the user call again, or a read fail.
FairSpec == Spec /\ WF_vars(Player) /\ WF_vars(Gui)
-----------------------------------------------------------------------------
\* Values, and that whoever is past the handshake holds the mutex.
TypeOK ==
  /\ state \in States /\ nextState \in States /\ backState \in States
  /\ flags \subseteq {"READY", "DONE"} /\ lock \in {"free", "gui"}
  /\ tplay \in BOOLEAN /\ opened \in BOOLEAN /\ reader \in BOOLEAN
  /\ speed \in {"1x", "other"} /\ direction \in {"forward", "backward"}
  /\ player \in {"top", "frames", "reading", "stepping", "stepread", "stepped",
                 "tplay", "tread", "tlock", "pausing", "wait", "become", "ended"}
  /\ gui \in {"idle", "lock", "await", "work", "open"} /\ cmd \in Commands
  /\ first \in BOOLEAN /\ skipped \in BOOLEAN /\ overtook \in BOOLEAN
  /\ asked \in States /\ calls \in 0..MaxCalls /\ fails \in 0..MaxFails
  /\ gui \in {"await", "work", "open"} => lock = "gui"

\* The player is inside a read of the basket reader or of the trick-play reader.
InRead == player \in {"reading", "stepread", "tread"}

\* A command that has waited for READY never closes or opens the reader while
\* the player reads a frame from it (app_playback.c:1042-1063, 1128-1137).
ReaderExclusive ==
  gui \in {"work", "open"} /\ Op \in {"start", "stop", "jump"} /\ ~skipped => ~InRead

\* As long as every basket opened and no command overtook another, the player
\* never reads from a closed basket reader, in whatever order commands were
\* given: states it may go back to survive a stop in back_state and next_state.
ReadsOpenReader ==
  player \in {"reading", "stepread"} /\ fails = 0 /\ ~overtook => reader

Outcomes(s) == CASE s \in Steps \cup TSteps -> {s, "PAUSE", "INVALID"}
                 [] s \in Reading \cup {"TPLAY"} -> {s, "INVALID"}
                 [] s = "INVALID" -> {"STOP", "INVALID"}
                 [] OTHER -> {s}

\* Once the player has taken a command's DONE, it is in the state that command
\* asked for or in one that comes of it, unless some command overtook another.
AsAsked == gui = "idle" /\ ~overtook /\ player \notin {"wait", "become", "ended"}
           => state \in Outcomes(asked)

\* The ways a command never returns.  It waits for READY from a player that has
\* left its loop (app_playback.c:756), that wants the mutex the command holds
\* (1780, 1914), or whose own write of the state has hidden the CHANGE (250,
\* 758) or that took the flag itself (841); or the mutex is gone (1488).
Hung == \/ /\ gui = "await" /\ "READY" \notin flags
           /\ \/ player = "ended" \/ player \in {"tplay", "tlock"}
              \/ state # "CHANGE"
        \/ gui = "lock" /\ lock = "gui"

\* A command returns, or the threads are stuck in one of the ways Hung names.
CallsReturn == (gui # "idle") ~> (gui = "idle" \/ Hung)
=============================================================================
