----------------------------- MODULE LiveStream -----------------------------
(***************************************************************************)
(* Live streaming beside recording: the capture threads of app_writer.c,   *)
(* which hand every frame to the recorder and then to the streaming        *)
(* thread; the streaming thread SEND_streamFxn; the AV server task         *)
(* (avServerMainThr.c) with its mailbox and buffer pools; the user         *)
(* interface that starts and stops the server (DVR_startRTSP,              *)
(* DVR_stopRTSP); and the network command thread.                          *)
(*                                                                         *)
(* A mailbox is the ring of OsaQueue over messages (osa_msgq.c), so it is  *)
(* the bounded FIFO that module implements.  A pool's two queues           *)
(* (osa_buf.c) are counted: which buffer is in which does not matter.      *)
(***************************************************************************)
EXTENDS Integers, Sequences, SequencesExt

CONSTANTS Lines,      \* capture threads, one pool and one queue pair for each
          NumBuf,     \* VIDEO_NUM_BUF: buffers of a pool
          StmBufs,    \* buffers between a capture thread and SEND_streamFxn
          MsgLen,     \* OSA_MSGQ_LEN_MAX
          MaxStarts,  \* bound: calls of DVR_startRTSP
          MaxFails    \* bound: starts in which a pool finds no memory

ASSUME StreamAssumption == /\ NumBuf \in Nat \ {0} /\ StmBufs \in Nat \ {0}
                           /\ MsgLen \in Nat \ {0}
                           /\ MaxStarts \in Nat /\ MaxFails \in Nat

VARIABLES
  gui,      \* where the user's thread stands in DVR_startRTSP or DVR_stopRTSP
  rtsp,     \* gRtspStatus
  net,      \* the network threads run (DVR_sock_startStream)
  mbx,      \* mainTsk.mbxHndl: "none", "live", or "deleted"
  rcv,      \* its receive ring
  answered, \* an ACK lies in uiMbx
  task,     \* the server thread: [at, line]
  curState, \* mainTsk.curState
  entered,  \* the argument curState of the running AVSERVER_tskMain
  heap,     \* the pools' memory: "none", "live" or "freed"
  empty,    \* line -> buffers in the pool's empty queue
  full,     \* line -> buffers in the pool's full queue
  send,     \* SEND_streamFxn: [at, line]
  src,      \* line -> "idle", or "wait": asks for a streaming buffer
  stm,      \* line -> frames queued for SEND_streamFxn
  starts, fails, failed  \* the bounds' counters; the last start failed

guiVars == <<gui, rtsp, net, starts>>
mbxVars == <<mbx, rcv, answered>>
taskVars == <<task, curState, entered>>
poolVars == <<heap, empty, full, fails, failed>>
feedVars == <<src, stm>>
vars == <<guiVars, mbxVars, taskVars, poolVars, send, feedVars>>

Start == [cmd |-> "START"]
Stop == [cmd |-> "STOP"]
NewData(p) == [cmd |-> "DATA", line |-> p]
Msgs == {Start, Stop} \cup {NewData(p) : p \in Lines}
None == [p \in Lines |-> 0]

Init == /\ gui = "idle" /\ rtsp = FALSE /\ net = FALSE /\ starts = 0
        /\ mbx = "none" /\ rcv = <<>> /\ answered = FALSE
        /\ task = [at |-> "none"] /\ curState = "IDLE" /\ entered = "IDLE"
        /\ heap = "none" /\ empty = None /\ full = None
        /\ fails = 0 /\ failed = FALSE
        /\ send = [at |-> "idle"]
        /\ src = [p \in Lines |-> "idle"] /\ stm = None

\* OSA_mbxSendMsg: the message goes into a live ring with room.  On a deleted
\* mailbox nobody returns: the task was cancelled inside pthread_cond_wait, so
\* the ring's mutex stays locked by a thread that is gone.
Post(m) == /\ mbx = "live" /\ Len(rcv) < MsgLen
           /\ rcv' = Append(rcv, m)
           /\ UNCHANGED <<mbx, answered>>

-----------------------------------------------------------------------------
\* The user's thread.

\* DVR_startRTSP up to the START: AVSERVER_init clears every control structure
\* and creates mailboxes and task.  The user does not start the server again
\* within the milliseconds the streaming thread needs for one frame.
StartRTSP == /\ gui = "idle" /\ ~rtsp /\ starts < MaxStarts
             /\ send.at \in {"idle", "stuck"}
             /\ gui' = "sendStart" /\ starts' = starts + 1
             /\ mbx' = "live" /\ rcv' = <<>> /\ answered' = FALSE
             /\ task' = [at |-> "wait"] /\ curState' = "IDLE"
             /\ heap' = "none" /\ empty' = None /\ full' = None
             /\ failed' = FALSE
             /\ UNCHANGED <<rtsp, net, entered, fails, send, feedVars>>

SendStart == /\ gui = "sendStart" /\ Post(Start)
             /\ gui' = "waitStart"
             /\ UNCHANGED <<rtsp, net, starts, taskVars, poolVars, send, feedVars>>

\* The wait for the ACK of a START or a STOP.
Answer == /\ gui \in {"waitStart", "waitStop"} /\ answered
          /\ answered' = FALSE
          /\ gui' = IF gui = "waitStart" THEN "publish" ELSE "exit"
          /\ UNCHANGED <<rtsp, net, starts, mbx, rcv, taskVars, poolVars, send, feedVars>>

\* set_rtsp_status(TRUE), then DVR_sock_startStream.
Publish == /\ gui = "publish"
           /\ gui' = "idle" /\ rtsp' = TRUE /\ net' = TRUE
           /\ UNCHANGED <<starts, mbxVars, taskVars, poolVars, send, feedVars>>

StopRTSP == /\ gui = "idle" /\ rtsp
            /\ gui' = "sendStop"
            /\ UNCHANGED <<rtsp, net, starts, mbxVars, taskVars, poolVars, send, feedVars>>

SendStop == /\ gui = "sendStop" /\ Post(Stop)
            /\ gui' = "waitStop"
            /\ UNCHANGED <<rtsp, net, starts, taskVars, poolVars, send, feedVars>>

\* AVSERVER_exit: the thread is cancelled at its cancellation point, the wait
\* for a message, and the mailbox deleted.
Exit == /\ gui = "exit" /\ task.at = "wait" /\ rcv = <<>>
        /\ gui' = "unpublish"
        /\ task' = [at |-> "none"] /\ curState' = "IDLE"
        /\ mbx' = "deleted"
        /\ UNCHANGED <<rtsp, net, starts, rcv, answered, entered, poolVars, send, feedVars>>

Unpublish == /\ gui = "unpublish"
             /\ gui' = "idle" /\ rtsp' = FALSE
             /\ UNCHANGED <<net, starts, mbxVars, taskVars, poolVars, send, feedVars>>

\* vstreamstart and astreamstart: a client asks for a stream.
StreamRequest == /\ net /\ ~rtsp
                 /\ rtsp' = TRUE
                 /\ UNCHANGED <<gui, net, starts, mbxVars, taskVars, poolVars, send, feedVars>>

-----------------------------------------------------------------------------
\* The server thread.

\* Forms the code could have taken by mistake (the mutants of PROJECT.json): a
\* server that starts without an answer, one that answers and stays idle, one
\* that acknowledges a data message, one that looks at its current state when
\* it stops, and one that keeps the buffer it has copied.
StartsSilently(ok) ==
  /\ task' = [at |-> IF ok THEN "inner" ELSE "wait"]
  /\ heap' = IF ok THEN "live" ELSE "freed"
  /\ curState' = IF ok THEN "RUNNING" ELSE "IDLE"
  /\ failed' = ~ok /\ fails' = IF ok THEN fails ELSE fails + 1
  /\ full' = None
  /\ empty' = [p \in Lines |-> IF ok THEN NumBuf ELSE 0]
  /\ UNCHANGED answered

AnswersIdle(ok) ==
  /\ task' = [at |-> "wait"]
  /\ answered' = TRUE
  /\ heap' = IF ok THEN "live" ELSE "freed"
  /\ curState' = IF ok THEN "RUNNING" ELSE "IDLE"
  /\ failed' = ~ok /\ fails' = IF ok THEN fails ELSE fails + 1
  /\ full' = None
  /\ empty' = [p \in Lines |-> IF ok THEN NumBuf ELSE 0]

AckOrFreeAlways(m) == answered' = TRUE

CleanupWhenRunning ==
  IF curState = "RUNNING" THEN heap' = "freed" /\ curState' = "IDLE"
                          ELSE UNCHANGED <<heap, curState>>

\* A buffer announced twice, and a streaming thread that keeps the capture
\* thread's buffer until the server has a free one.
PutFullTwice == /\ send.at = "fill"
                /\ full' = [full EXCEPT ![send.line] = @ + 2]
                /\ send' = [send EXCEPT !.at = "post"]
                /\ UNCHANGED <<guiVars, mbxVars, taskVars, heap, empty, fails, failed, feedVars>>

ReturnNever == /\ send.at = "return" /\ empty[send.line] > 0
               /\ send' = [at |-> "idle"]
               /\ UNCHANGED <<guiVars, mbxVars, taskVars, poolVars, feedVars>>

KeepBuffer == /\ task.at = "give"
              /\ task' = [at |-> "inner"]
              /\ UNCHANGED <<guiVars, mbxVars, curState, entered, poolVars, send, feedVars>>

\* OSA_tskAckOrFreeMsg: START and STOP ask for an ACK, data messages do not.
AckOrFree(m) == answered' = (answered \/ m \in {Start, Stop})

\* AVSERVER_tskStart and the ACK of the START.  If a pool finds no memory,
\* tskStop frees every pool, the thread leaves AVSERVER_tskMain, and the ACK
\* says OSA_SOK all the same.  The pools made before the failing one keep
\* their buffers in the queues.
StartTask(ok) ==
  /\ task' = [at |-> IF ok THEN "inner" ELSE "wait"]
  /\ AckOrFree(Start)
  /\ heap' = IF ok THEN "live" ELSE "freed"
  /\ curState' = IF ok THEN "RUNNING" ELSE "IDLE"
  /\ failed' = ~ok /\ fails' = IF ok THEN fails ELSE fails + 1
  /\ full' = None
  /\ IF ok THEN empty' = [p \in Lines |-> NumBuf]
           ELSE /\ empty' \in [Lines -> {0, NumBuf}]
                /\ \E p \in Lines : empty'[p] = 0

\* OSA_tskThrMain calls AVSERVER_tskMain with the message and the state.
Enter == /\ task.at = "wait" /\ rcv # <<>>
         /\ rcv' = Tail(rcv)
         /\ entered' = curState
         /\ IF Head(rcv) = Start
            THEN \E ok \in BOOLEAN : (ok \/ fails < MaxFails) /\ StartTask(ok)
            ELSE /\ AckOrFree(Head(rcv))
                 /\ UNCHANGED <<task, curState, poolVars>>
         /\ UNCHANGED <<guiVars, mbx, send, feedVars>>

\* After the loop: tskStop, if the state on entry was RUNNING.
Cleanup == IF entered = "RUNNING" THEN heap' = "freed" /\ curState' = "IDLE"
                                  ELSE UNCHANGED <<heap, curState>>

\* The loop of AVSERVER_tskMain.  It has no case for a START, and none comes:
\* DVR_startRTSP makes a new task for every START.
Serve == /\ task.at = "inner" /\ rcv # <<>>
         /\ rcv' = Tail(rcv)
         /\ AckOrFree(Head(rcv))
         /\ IF Head(rcv) = Stop
            THEN task' = [at |-> "wait"] /\ Cleanup
            ELSE /\ task' = [at |-> "take", line |-> Head(rcv).line]
                 /\ UNCHANGED <<heap, curState>>
         /\ UNCHANGED <<guiVars, mbx, entered, empty, full, fails, failed, send, feedVars>>

\* AVSERVER_tskRun: GetFull, copy into the shared stream memory, PutEmpty.
TakeFull == /\ task.at = "take" /\ full[task.line] > 0
            /\ task' = [task EXCEPT !.at = "give"]
            /\ full' = [full EXCEPT ![task.line] = @ - 1]
            /\ UNCHANGED <<guiVars, mbxVars, curState, entered, heap, empty, fails, failed, send, feedVars>>

GiveEmpty == /\ task.at = "give"
             /\ task' = [at |-> "inner"]
             /\ empty' = [empty EXCEPT ![task.line] = @ + 1]
             /\ UNCHANGED <<guiVars, mbxVars, curState, entered, heap, full, fails, failed, send, feedVars>>

Server == Enter \/ Serve \/ TakeFull \/ GiveEmpty

-----------------------------------------------------------------------------
\* The capture threads and SEND_streamFxn.

\* A frame of line p is recorded and copied for streaming: the capture thread
\* waits for a free streaming buffer without a timeout.
Capture(p) == /\ src[p] = "idle"
              /\ src' = [src EXCEPT ![p] = "wait"]
              /\ UNCHANGED <<guiVars, mbxVars, taskVars, poolVars, send, stm>>

Holds(p) == IF send.at # "idle" /\ send.line = p THEN 1 ELSE 0

HandOver(p) == /\ src[p] = "wait" /\ stm[p] + Holds(p) < StmBufs
               /\ src' = [src EXCEPT ![p] = "idle"]
               /\ stm' = [stm EXCEPT ![p] = @ + 1]
               /\ UNCHANGED <<guiVars, mbxVars, taskVars, poolVars, send>>

\* The next frame of line p, and the test of the streaming flag.
Pick(p) == /\ send.at = "idle" /\ stm[p] > 0
           /\ stm' = [stm EXCEPT ![p] = @ - 1]
           /\ send' = [at |-> IF rtsp THEN "get" ELSE "return", line |-> p]
           /\ UNCHANGED <<guiVars, mbxVars, taskVars, poolVars, src>>

\* AVSERVER_bufGetEmpty without waiting: no buffer, no streaming of this frame.
GetEmpty == /\ send.at = "get"
            /\ IF empty[send.line] > 0
               THEN /\ empty' = [empty EXCEPT ![send.line] = @ - 1]
                    /\ send' = [send EXCEPT !.at = "fill"]
               ELSE send' = [send EXCEPT !.at = "return"] /\ UNCHANGED empty
            /\ UNCHANGED <<guiVars, mbxVars, taskVars, heap, full, fails, failed, feedVars>>

\* The copy into the buffer and OSA_bufPutFull.
PutFull == /\ send.at = "fill"
           /\ full' = [full EXCEPT ![send.line] = @ + 1]
           /\ send' = [send EXCEPT !.at = "post"]
           /\ UNCHANGED <<guiVars, mbxVars, taskVars, heap, empty, fails, failed, feedVars>>

SendData == /\ send.at = "post"
            /\ \/ /\ Post(NewData(send.line))
                  /\ send' = [send EXCEPT !.at = "return"]
               \/ /\ mbx = "deleted"
                  /\ send' = [send EXCEPT !.at = "stuck"]
                  /\ UNCHANGED mbxVars
            /\ UNCHANGED <<guiVars, taskVars, poolVars, feedVars>>

\* WRITER_bufFreeStream, and the free buffer back to the capture thread.
ReturnBuf == /\ send.at = "return"
             /\ send' = [at |-> "idle"]
             /\ UNCHANGED <<guiVars, mbxVars, taskVars, poolVars, feedVars>>

\* AVSERVER_init clears the mutex the thread sleeps on: it may be woken by the
\* next contention for it, or by nothing.
Unstick == /\ send.at = "stuck" /\ Post(NewData(send.line))
           /\ send' = [send EXCEPT !.at = "return"]
           /\ UNCHANGED <<guiVars, taskVars, poolVars, feedVars>>

Sender == GetEmpty \/ PutFull \/ SendData \/ ReturnBuf

User == \/ StartRTSP \/ SendStart \/ Answer \/ Publish
        \/ StopRTSP \/ SendStop \/ Exit \/ Unpublish

Next == \/ User \/ StreamRequest \/ Server \/ Sender \/ Unstick
        \/ \E p \in Lines : Capture(p) \/ HandOver(p) \/ Pick(p)

\* Every thread that can run does.  The user calls when he likes, but a call
\* once begun runs; SEND_streamFxn looks at every line in each of its rounds.
\* A full ring has room again before the next frame is captured, and whoever
\* waits for room is signalled (osa_que.c, condWr): hence the strong fairness.
Fairness == /\ WF_vars(User /\ gui # "idle")
            /\ SF_vars(SendStart) /\ SF_vars(SendStop)
            /\ WF_vars(Server) /\ WF_vars(Sender)
            /\ \A p \in Lines : WF_vars(HandOver(p)) /\ SF_vars(Pick(p))

Spec == Init /\ [][Next]_vars /\ Fairness

-----------------------------------------------------------------------------
TypeOK ==
  /\ gui \in {"idle", "sendStart", "waitStart", "publish", "sendStop",
              "waitStop", "exit", "unpublish"}
  /\ rtsp \in BOOLEAN /\ net \in BOOLEAN /\ answered \in BOOLEAN /\ failed \in BOOLEAN
  /\ mbx \in {"none", "live", "deleted"}
  /\ rcv \in BoundedSeq(Msgs, MsgLen)
  /\ task \in [at : {"none", "wait", "inner"}] \cup [at : {"take", "give"}, line : Lines]
  /\ curState \in {"IDLE", "RUNNING"} /\ entered \in {"IDLE", "RUNNING"}
  /\ heap \in {"none", "live", "freed"}
  /\ empty \in [Lines -> 0 .. NumBuf] /\ full \in [Lines -> 0 .. NumBuf]
  /\ send \in [at : {"idle"}] \cup [at : {"get", "fill", "post", "return", "stuck"}, line : Lines]
  /\ src \in [Lines -> {"idle", "wait"}] /\ stm \in [Lines -> 0 .. StmBufs]
  /\ starts \in 0 .. MaxStarts /\ fails \in 0 .. MaxFails

InHand(p) == (IF send.at = "fill" /\ send.line = p THEN 1 ELSE 0)
             + (IF task.at = "give" /\ task.line = p THEN 1 ELSE 0)

\* No buffer of a running server is lost or doubled on its way between the
\* streaming thread and the server thread (avServer.c, avServerMainThr.c).
BuffersConserved ==
  heap = "live" => \A p \in Lines : empty[p] + full[p] + InHand(p) = NumBuf

\* The streaming thread never fills a buffer that was freed, although it tests
\* gRtspStatus long before it fills and DVR_stopRTSP takes no lock: the memory
\* outlives the STOP.  A start that ran out of memory is the exception.
NoFreedBufferFilled == send.at = "fill" => heap = "live" \/ failed

\* An ACK is in the user's mailbox only while the user waits for one: the next
\* command is never answered by the ACK of an earlier one (osa_mbx.c).
NoStaleAnswer == answered => gui \in {"waitStart", "waitStop"}

\* A START that was answered left a running server, or failed for lack of
\* memory; a STOP that was answered left the server out of its loop.
AnsweredAsAsked ==
  /\ gui = "publish" => task.at \notin {"none", "wait"} \/ failed
  /\ gui = "exit" => task.at = "wait"

\* The capture threads never wait for ever for a streaming buffer, so recording
\* goes on, unless the streaming thread met the deleted mailbox.
RecordingGoesOn ==
  <>(send.at = "stuck") \/ \A p \in Lines : (src[p] = "wait") ~> (src[p] = "idle")

\* A call of DVR_startRTSP or DVR_stopRTSP returns, unless it stops a server
\* that is gone (a client's request had set gRtspStatus again), or the
\* streaming thread met the deleted mailbox: woken under the next server, it
\* announces a frame that is no longer there, and the server waits for it.
CallsReturn ==
  \/ <>(gui = "sendStop" /\ mbx = "deleted")
  \/ <>(send.at = "stuck")
  \/ (gui # "idle") ~> (gui = "idle")
=============================================================================
