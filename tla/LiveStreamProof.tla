--------------------------- MODULE LiveStreamProof --------------------------
(***************************************************************************)
(* Proofs about LiveStream for any number of lines, buffers, mailbox slots *)
(* and starts: its types, that the pools lose and double no buffer, that   *)
(* no freed buffer is filled, and that every answer is that of the command *)
(* the user waits for.                                                     *)
(***************************************************************************)
EXTENDS LiveStream, SequenceTheorems, TLAPS

-----------------------------------------------------------------------------
(* The inductive invariant.                                                *)

\* All the buffers of a line's pool: none before the pools are made, all while
\* the server has memory, and either in a pool of a start that failed.
Buffers(p) == empty[p] + full[p] + InHand(p)
PoolsBalance ==
  \A p \in Lines : /\ Buffers(p) \in {0, NumBuf}
                   /\ heap = "none" => Buffers(p) = 0
                   /\ heap = "live" => Buffers(p) = NumBuf

\* Only a start that ran out of memory frees the pools: the loop of
\* AVSERVER_tskMain was entered from IDLE, so its end does not.
MemoryFits == /\ heap = "freed" => failed
              /\ task.at \in {"inner", "take", "give"} => entered = "IDLE"

\* At most one command is on its way to the server, and the user waits for it.
IsCommand(m) == m \in {Start, Stop}
CommandsFit ==
  /\ \A i \in DOMAIN rcv : /\ rcv[i] = Start => gui = "waitStart" /\ ~answered
                           /\ rcv[i] = Stop => gui = "waitStop" /\ ~answered
  /\ \A i, j \in DOMAIN rcv : IsCommand(rcv[i]) /\ IsCommand(rcv[j]) => i = j

\* What the server has done about the command the user is in.
Unstarted == gui = "sendStart" \/ (gui = "waitStart" /\ ~answered)
Started == gui = "publish" \/ (gui = "waitStart" /\ answered)
Stopped == gui = "exit" \/ (gui = "waitStop" /\ answered)
ServerFits ==
  /\ Unstarted => heap = "none" /\ task.at = "wait" /\ curState = "IDLE"
  /\ Started => task.at \notin {"none", "wait"} \/ failed
  /\ Stopped => task.at = "wait"
  /\ NoStaleAnswer

IInv == TypeOK /\ PoolsBalance /\ MemoryFits /\ CommandsFit /\ ServerFits

-----------------------------------------------------------------------------
(* Lemmas about mailboxes.                                                 *)

\* A bounded sequence is a sequence with a bounded length.
LEMMA BoundedSeqType ==
  ASSUME NEW S, NEW n \in Nat, NEW s
  PROVE  s \in BoundedSeq(S, n) <=> s \in Seq(S) /\ Len(s) <= n
<1>1. ASSUME s \in Seq(S), Len(s) <= n
      PROVE  s \in BoundedSeq(S, n)
  <2>1. Len(s) \in 0 .. n /\ s \in [1 .. Len(s) -> S]
    BY <1>1
  <2> QED BY <2>1 DEF BoundedSeq, SeqOf
<1>2. ASSUME s \in BoundedSeq(S, n)
      PROVE  s \in Seq(S) /\ Len(s) <= n
  <2>1. PICK m \in 0 .. n : s \in [1 .. m -> S]
    BY <1>2 DEF BoundedSeq, SeqOf
  <2>2. s \in Seq(S) /\ Len(s) = m
    BY <2>1
  <2> QED BY <2>1, <2>2
<1> QED BY <1>1, <1>2

\* What a ring holds after one more message.
LEMMA AppendRing ==
  ASSUME NEW S, NEW n \in Nat, NEW s \in BoundedSeq(S, n), NEW m \in S, Len(s) < n
  PROVE  /\ Append(s, m) \in BoundedSeq(S, n)
         /\ Len(s) \in Nat /\ DOMAIN s = 1 .. Len(s)
         /\ DOMAIN Append(s, m) = 1 .. Len(s) + 1
         /\ \A i \in DOMAIN Append(s, m) :
               Append(s, m)[i] = IF i = Len(s) + 1 THEN m ELSE s[i]
<1>1. s \in Seq(S) /\ Len(s) \in Nat
  BY BoundedSeqType
<1>2. Append(s, m) \in Seq(S) /\ Len(Append(s, m)) = Len(s) + 1 /\ Len(Append(s, m)) <= n
  BY <1>1
<1>3. Append(s, m) \in BoundedSeq(S, n)
  BY <1>2, BoundedSeqType, Zenon
<1> QED BY <1>1, <1>2, <1>3

\* What a ring holds after its first message was taken.
LEMMA TailRing ==
  ASSUME NEW S, NEW n \in Nat, NEW s \in BoundedSeq(S, n), s # <<>>
  PROVE  /\ Tail(s) \in BoundedSeq(S, n)
         /\ Len(s) \in Nat \ {0} /\ DOMAIN s = 1 .. Len(s)
         /\ DOMAIN Tail(s) = 1 .. Len(s) - 1
         /\ \A i \in DOMAIN Tail(s) : Tail(s)[i] = s[i + 1]
         /\ Head(s) \in S /\ Head(s) = s[1]
<1>1. s \in Seq(S) /\ Len(s) \in Nat \ {0} /\ Len(s) <= n
  BY BoundedSeqType
<1>2. Tail(s) \in Seq(S) /\ Len(Tail(s)) = Len(s) - 1 /\ Len(Tail(s)) <= n
  BY <1>1
<1>3. Tail(s) \in BoundedSeq(S, n)
  BY <1>2, BoundedSeqType, Zenon
<1> QED BY <1>1, <1>2, <1>3

\* Commands are told from each other and from data.
LEMMA MessagesDiffer ==
  /\ Start # Stop /\ {Start, Stop} \subseteq Msgs
  /\ \A p \in Lines : NewData(p) \in Msgs /\ NewData(p).line = p
  /\ \A p \in Lines : NewData(p) # Start /\ NewData(p) # Stop
  /\ \A m \in Msgs : IsCommand(m) \/ \E p \in Lines : m = NewData(p)
<1>1. /\ Start.cmd = "START" /\ Stop.cmd = "STOP"
      /\ \A p \in Lines : NewData(p).cmd = "DATA" /\ NewData(p).line = p
  BY DEF Start, Stop, NewData
<1>2. "START" # "STOP" /\ "START" # "DATA" /\ "STOP" # "DATA"
  OBVIOUS
<1> QED BY <1>1, <1>2, Zenon DEF IsCommand, Msgs

\* The threads that are in a line's round, and the buffers in their hands.
LEMMA RoundTypes ==
  ASSUME TypeOK
  PROVE  /\ send.at # "idle" => send.line \in Lines
         /\ task.at \in {"take", "give"} => task.line \in Lines
         /\ \A x \in {"fill", "post", "return", "stuck"} :
              send.at # "idle" => /\ [send EXCEPT !.at = x] = [at |-> x, line |-> send.line]
         /\ task.at = "take" => [task EXCEPT !.at = "give"] = [at |-> "give", line |-> task.line]
         /\ \A p \in Lines : /\ InHand(p) \in {0, 1, 2}
                            /\ empty[p] \in Nat /\ full[p] \in Nat
BY StreamAssumption DEF TypeOK, InHand

-----------------------------------------------------------------------------
(* The pools.                                                              *)

\* The steps that touch no buffer.
LEMMA NoBufferMoves ==
  ASSUME TypeOK,
         \/ SendStart \/ Answer \/ Publish \/ StopRTSP \/ SendStop \/ Exit \/ Unpublish
         \/ StreamRequest \/ SendData \/ ReturnBuf \/ Unstick
         \/ \E p \in Lines : Capture(p) \/ HandOver(p) \/ Pick(p)
  PROVE  /\ UNCHANGED <<heap, empty, full>>
         /\ \A p \in Lines : InHand(p)' = InHand(p)
<1> USE RoundTypes DEF InHand
<1>1. CASE SendStart \/ Answer \/ Publish \/ StopRTSP \/ SendStop \/ Unpublish \/ StreamRequest
  BY <1>1 DEF SendStart, Answer, Publish, StopRTSP, SendStop, Unpublish, StreamRequest,
              taskVars, poolVars
<1>2. CASE Exit
  BY <1>2 DEF Exit, poolVars
<1>3. CASE SendData \/ ReturnBuf \/ Unstick
  BY <1>3 DEF SendData, ReturnBuf, Unstick, taskVars, poolVars
<1>4. ASSUME NEW q \in Lines, Capture(q) \/ HandOver(q) \/ Pick(q)
      PROVE  /\ UNCHANGED <<heap, empty, full>>
             /\ \A p \in Lines : InHand(p)' = InHand(p)
  BY <1>4 DEF Capture, HandOver, Pick, taskVars, poolVars
<1> QED BY <1>1, <1>2, <1>3, <1>4

\* Between the queues of a pool and the hands of the threads no buffer is lost.
LEMMA PoolsStep ==
  ASSUME IInv, Next
  PROVE  /\ empty' \in [Lines -> 0 .. NumBuf] /\ full' \in [Lines -> 0 .. NumBuf]
         /\ heap' \in {"none", "live", "freed"} /\ PoolsBalance'
<1> USE StreamAssumption
<1> DEFINE Goal == /\ empty' \in [Lines -> 0 .. NumBuf] /\ full' \in [Lines -> 0 .. NumBuf]
                   /\ heap' \in {"none", "live", "freed"} /\ PoolsBalance'
<1>0. /\ TypeOK /\ PoolsBalance /\ MemoryFits /\ CommandsFit /\ ServerFits
      /\ \A p \in Lines : {empty[p], full[p], InHand(p)} \subseteq Nat
      /\ send.at # "idle" => send.line \in Lines
      /\ task.at \in {"take", "give"} => task.line \in Lines
  BY RoundTypes DEF IInv
<1>1. CASE StartRTSP
  BY <1>0, <1>1 DEF StartRTSP, None, PoolsBalance, Buffers, InHand
<1>2. ASSUME UNCHANGED <<heap, empty, full>>, \A p \in Lines : InHand(p)' = InHand(p)
      PROVE  Goal
  BY <1>0, <1>2 DEF TypeOK, PoolsBalance, Buffers
<1>3. CASE Enter
  <2>1. \A p \in Lines : InHand(p)' = InHand(p)
    BY <1>3 DEF Enter, StartTask, InHand
  <2>2. CASE Head(rcv) = Start
    <3>1. PICK ok \in BOOLEAN : StartTask(ok)
      BY <1>3, <2>2 DEF Enter
    <3>2. heap = "none"
      <4>1. 1 \in DOMAIN rcv /\ rcv[1] = Start
        BY <1>0, <1>3, <2>2, TailRing DEF Enter, TypeOK
      <4> QED BY <1>0, <4>1 DEF CommandsFit, ServerFits, Unstarted
    <3>3. \A p \in Lines : InHand(p) = 0
      BY <1>0, <3>2 DEF PoolsBalance, Buffers
    <3>4. /\ empty' \in [Lines -> {0, NumBuf}] /\ full' = None
          /\ heap' = "live" => empty' = [p \in Lines |-> NumBuf]
          /\ heap' \in {"live", "freed"}
      BY <3>1 DEF StartTask
    <3> QED BY <2>1, <3>3, <3>4 DEF PoolsBalance, Buffers, None
  <2>3. CASE Head(rcv) # Start
    BY <1>2, <1>3, <2>1, <2>3 DEF Enter, poolVars
  <2> QED BY <2>2, <2>3
<1>4. CASE Serve
  <2>1. UNCHANGED <<heap, empty, full>>
    BY <1>0, <1>4 DEF Serve, Cleanup, MemoryFits
  <2>2. \A p \in Lines : InHand(p)' = InHand(p)
    BY <1>4 DEF Serve, InHand
  <2> QED BY <1>2, <2>1, <2>2
<1>5. ASSUME empty' \in [Lines -> Nat], full' \in [Lines -> Nat], heap' = heap,
             \A p \in Lines : /\ InHand(p)' \in Nat
                            /\ \/ /\ empty'[p] = empty[p]
                                  /\ full'[p] - full[p] = InHand(p) - InHand(p)'
                               \/ /\ full'[p] = full[p]
                                  /\ empty'[p] - empty[p] = InHand(p) - InHand(p)'
      PROVE  Goal
  <2>1. ASSUME NEW p \in Lines
        PROVE  /\ Buffers(p)' = Buffers(p)
               /\ empty'[p] \in 0 .. NumBuf /\ full'[p] \in 0 .. NumBuf
    <3>1. /\ {empty[p], full[p], InHand(p), empty'[p], full'[p], InHand(p)'} \subseteq Nat
          /\ Buffers(p) \in {0, NumBuf}
      BY <1>0, <1>5 DEF PoolsBalance
    <3>2. \/ empty'[p] = empty[p] /\ full'[p] - full[p] = InHand(p) - InHand(p)'
          \/ full'[p] = full[p] /\ empty'[p] - empty[p] = InHand(p) - InHand(p)'
      BY <1>5
    <3>3. empty'[p] + full'[p] + InHand(p)' = empty[p] + full[p] + InHand(p)
      BY <3>1, <3>2
    <3> QED BY <3>1, <3>3 DEF Buffers
  <2> QED BY <1>0, <1>5, <2>1 DEF PoolsBalance, TypeOK
<1>6. CASE TakeFull
  <2>1. empty' \in [Lines -> Nat] /\ full' \in [Lines -> Nat]
    BY <1>0, <1>6 DEF TakeFull, TypeOK
  <2>2. send' = send /\ task.line \in Lines
    BY <1>0, <1>6 DEF TakeFull, taskVars
  <2>3. \A p \in Lines : /\ InHand(p)' \in Nat /\ empty'[p] = empty[p]
                       /\ full'[p] - full[p] = InHand(p) - InHand(p)'
    BY <1>0, <1>6, <2>2 DEF TakeFull, TypeOK, InHand
  <2> QED BY <1>5, <1>6, <2>1, <2>3 DEF TakeFull
<1>7. CASE GiveEmpty
  <2>1. empty' \in [Lines -> Nat] /\ full' \in [Lines -> Nat]
    BY <1>0, <1>7 DEF GiveEmpty, TypeOK
  <2>2. send' = send /\ task.line \in Lines
    BY <1>0, <1>7 DEF GiveEmpty, taskVars
  <2>3. \A p \in Lines : /\ InHand(p)' \in Nat /\ full'[p] = full[p]
                       /\ empty'[p] - empty[p] = InHand(p) - InHand(p)'
    BY <1>0, <1>7, <2>2 DEF GiveEmpty, TypeOK, InHand
  <2> QED BY <1>5, <1>7, <2>1, <2>3 DEF GiveEmpty
<1>8. CASE GetEmpty
  <2>1. empty' \in [Lines -> Nat] /\ full' \in [Lines -> Nat]
    BY <1>0, <1>8 DEF GetEmpty, TypeOK
  <2>2. task' = task /\ send.line \in Lines
    BY <1>0, <1>8 DEF GetEmpty, taskVars
  <2>3. \A p \in Lines : /\ InHand(p)' \in Nat /\ full'[p] = full[p]
                       /\ empty'[p] - empty[p] = InHand(p) - InHand(p)'
    BY <1>0, <1>8, <2>2 DEF GetEmpty, TypeOK, InHand
  <2> QED BY <1>5, <1>8, <2>1, <2>3 DEF GetEmpty
<1>9. CASE PutFull
  <2>1. empty' \in [Lines -> Nat] /\ full' \in [Lines -> Nat]
    BY <1>0, <1>9 DEF PutFull, TypeOK
  <2>2. task' = task /\ send.line \in Lines
    BY <1>0, <1>9 DEF PutFull, taskVars
  <2>3. \A p \in Lines : /\ InHand(p)' \in Nat /\ empty'[p] = empty[p]
                       /\ full'[p] - full[p] = InHand(p) - InHand(p)'
    BY <1>0, <1>9, <2>2 DEF PutFull, TypeOK, InHand
  <2> QED BY <1>5, <1>9, <2>1, <2>3 DEF PutFull
<1> QED
  BY <1>0, <1>1, <1>2, <1>3, <1>4, <1>6, <1>7, <1>8, <1>9, NoBufferMoves
     DEF Next, User, Server, Sender

-----------------------------------------------------------------------------
(* The mailbox and the commands in it.                                     *)

\* Where a command waits for the server, and where the server first finds it.
LEMMA HeadFits ==
  ASSUME IInv, rcv # <<>>
  PROVE  /\ Head(rcv) = Start => /\ gui = "waitStart" /\ ~answered
                                 /\ heap = "none" /\ task.at = "wait" /\ curState = "IDLE"
         /\ Head(rcv) = Stop => gui = "waitStop" /\ ~answered
         /\ ~IsCommand(Head(rcv)) => Head(rcv).line \in Lines
         /\ Head(rcv) \in Msgs
<1>1. 1 \in DOMAIN rcv /\ Head(rcv) = rcv[1] /\ Head(rcv) \in Msgs
  BY TailRing, StreamAssumption DEF IInv, TypeOK
<1>2. /\ rcv[1] = Start => gui = "waitStart" /\ ~answered
      /\ rcv[1] = Stop => gui = "waitStop" /\ ~answered
  BY <1>1 DEF IInv, CommandsFit
<1>3. gui = "waitStart" /\ ~answered =>
        heap = "none" /\ task.at = "wait" /\ curState = "IDLE"
  BY DEF IInv, ServerFits, Unstarted
<1> QED BY <1>1, <1>2, <1>3, MessagesDiffer

\* The server takes the first message, answers a command and no other message.
LEMMA TakeStep ==
  ASSUME IInv, rcv # <<>>, rcv' = Tail(rcv), AckOrFree(Head(rcv)), gui' = gui
  PROVE  CommandsFit'
<1> DEFINE h == Head(rcv)
<1>1. /\ DOMAIN rcv = 1 .. Len(rcv) /\ DOMAIN rcv' = 1 .. Len(rcv) - 1
      /\ Len(rcv) \in Nat \ {0} /\ h = rcv[1]
      /\ \A i \in DOMAIN rcv' : rcv'[i] = rcv[i + 1]
  BY TailRing, StreamAssumption DEF IInv, TypeOK
<1>2. \A i \in DOMAIN rcv' : i + 1 \in DOMAIN rcv /\ i + 1 # 1 /\ i \in Nat
  BY <1>1
<1>3. CommandsFit
  BY DEF IInv
<1>4. \A i, j \in DOMAIN rcv' : IsCommand(rcv'[i]) /\ IsCommand(rcv'[j]) => i = j
  <2>1. ASSUME NEW i \in DOMAIN rcv', NEW j \in DOMAIN rcv',
               IsCommand(rcv'[i]), IsCommand(rcv'[j])
        PROVE  i = j
    <3>1. i + 1 = j + 1
      BY <1>1, <1>2, <1>3, <2>1 DEF CommandsFit
    <3> QED BY <1>2, <3>1
  <2> QED BY <2>1
<1>5. CASE IsCommand(h)
  <2>1. \A i \in DOMAIN rcv' : ~IsCommand(rcv'[i])
    BY <1>1, <1>2, <1>3, <1>5 DEF CommandsFit
  <2> QED BY <1>4, <2>1 DEF CommandsFit, IsCommand
<1>6. CASE ~IsCommand(h)
  <2>1. answered' = answered
    BY <1>3, <1>6 DEF AckOrFree, IsCommand, IInv, TypeOK
  <2> QED BY <1>1, <1>2, <1>3, <1>4, <2>1 DEF CommandsFit
<1> QED BY <1>5, <1>6

\* A message joins the ring; a command does so when no other is there.
LEMMA PostStep ==
  ASSUME IInv, NEW m \in Msgs, Post(m),
         \/ ~IsCommand(m) /\ gui' = gui
         \/ m = Start /\ gui = "sendStart" /\ gui' = "waitStart"
         \/ m = Stop /\ gui = "sendStop" /\ gui' = "waitStop"
  PROVE  CommandsFit' /\ rcv' \in BoundedSeq(Msgs, MsgLen) /\ UNCHANGED <<mbx, answered>>
<1> DEFINE n == Len(rcv) + 1
<1>1. /\ CommandsFit /\ rcv' = Append(rcv, m) /\ UNCHANGED <<mbx, answered>>
      /\ answered => gui \in {"waitStart", "waitStop"}
  BY DEF IInv, Post, ServerFits, NoStaleAnswer
<1>2. /\ rcv' \in BoundedSeq(Msgs, MsgLen) /\ Len(rcv) \in Nat
      /\ DOMAIN rcv = 1 .. Len(rcv) /\ DOMAIN rcv' = 1 .. n
      /\ \A i \in DOMAIN rcv' : rcv'[i] = IF i = n THEN m ELSE rcv[i]
  BY <1>1, AppendRing, StreamAssumption DEF IInv, TypeOK, Post
<1>3. \A i \in DOMAIN rcv' : i # n => i \in DOMAIN rcv
  BY <1>2
<1>4. CASE ~IsCommand(m) /\ gui' = gui
  BY <1>1, <1>2, <1>3, <1>4 DEF CommandsFit, IsCommand
<1>5. CASE gui \notin {"waitStart", "waitStop"} /\ IsCommand(m)
  <2>1. \A i \in DOMAIN rcv : ~IsCommand(rcv[i])
    BY <1>1, <1>5 DEF CommandsFit, IsCommand
  <2>2. \A i \in DOMAIN rcv' : IsCommand(rcv'[i]) => i = n /\ rcv'[i] = m
    BY <1>2, <1>3, <2>1
  <2>3. /\ m = Start => gui' = "waitStart" /\ ~answered'
        /\ m = Stop => gui' = "waitStop" /\ ~answered'
    BY <1>1, <1>5, MessagesDiffer
  <2> QED BY <1>1, <1>2, <2>2, <2>3 DEF CommandsFit, IsCommand
<1> QED BY <1>4, <1>5 DEF IsCommand

\* Every message in the ring is still the user's only command, or data.
LEMMA CommandsStep ==
  ASSUME IInv, Next
  PROVE  CommandsFit' /\ rcv' \in BoundedSeq(Msgs, MsgLen)
<1> DEFINE Goal == CommandsFit' /\ rcv' \in BoundedSeq(Msgs, MsgLen)
<1>0. /\ CommandsFit /\ rcv \in BoundedSeq(Msgs, MsgLen)
      /\ send.at # "idle" => send.line \in Lines
  BY RoundTypes DEF IInv, TypeOK
<1>1. CASE StartRTSP
  <2>1. rcv' = <<>>
    BY <1>1 DEF StartRTSP
  <2>2. /\ rcv' \in Seq(Msgs) /\ Len(rcv') = 0 /\ DOMAIN rcv' = {}
        /\ MsgLen \in Nat /\ Len(rcv') <= MsgLen
    BY <2>1, StreamAssumption
  <2>3. rcv' \in BoundedSeq(Msgs, MsgLen)
    BY <2>2, BoundedSeqType
  <2> QED BY <2>2, <2>3 DEF CommandsFit
<1>2. CASE SendStart \/ SendStop
  BY <1>2, PostStep, MessagesDiffer DEF SendStart, SendStop
<1>3. CASE SendData \/ Unstick
  <2>1. CASE Post(NewData(send.line)) /\ send.at # "idle"
    <3>1. NewData(send.line) \in Msgs /\ ~IsCommand(NewData(send.line))
      BY <1>0, <2>1, MessagesDiffer DEF IsCommand
    <3> QED BY <1>3, <2>1, <3>1, PostStep DEF SendData, Unstick, guiVars
  <2>2. CASE UNCHANGED <<gui, rcv, answered>>
    BY <1>0, <2>2 DEF CommandsFit
  <2> QED BY <1>3, <2>1, <2>2 DEF SendData, Unstick, guiVars, mbxVars
<1>4. CASE Enter \/ Serve
  <2>1. rcv # <<>> /\ rcv' = Tail(rcv) /\ gui' = gui
    BY <1>4 DEF Enter, Serve, guiVars
  <2>2. AckOrFree(Head(rcv))
    BY <1>4, MessagesDiffer DEF Enter, Serve, StartTask
  <2> QED BY <2>1, <2>2, TakeStep, TailRing, <1>0, StreamAssumption
<1>5. CASE Answer
  <2>1. /\ answered /\ rcv' = rcv /\ gui \in {"waitStart", "waitStop"}
    BY <1>5 DEF Answer
  <2>2. \A i \in DOMAIN rcv : ~IsCommand(rcv[i])
    BY <1>0, <2>1 DEF CommandsFit, IsCommand
  <2> QED BY <1>0, <2>1, <2>2 DEF CommandsFit, IsCommand
<1>6. CASE Publish \/ StopRTSP \/ Exit \/ Unpublish
  <2>1. UNCHANGED <<rcv, answered>> /\ gui \notin {"waitStart", "waitStop"}
    BY <1>6 DEF Publish, StopRTSP, Exit, Unpublish, mbxVars
  <2>2. \A i \in DOMAIN rcv : ~IsCommand(rcv[i])
    BY <1>0, <2>1 DEF CommandsFit, IsCommand
  <2> QED BY <1>0, <2>1, <2>2 DEF CommandsFit, IsCommand
<1>7. ASSUME UNCHANGED <<gui, rcv, answered>>
      PROVE  Goal
  BY <1>0, <1>7 DEF CommandsFit
<1>8. CASE StreamRequest \/ TakeFull \/ GiveEmpty \/ GetEmpty \/ PutFull \/ ReturnBuf
  BY <1>7, <1>8 DEF StreamRequest, TakeFull, GiveEmpty, GetEmpty, PutFull, ReturnBuf,
                    guiVars, mbxVars
<1>9. CASE \E p \in Lines : Capture(p) \/ HandOver(p) \/ Pick(p)
  BY <1>7, <1>9 DEF Capture, HandOver, Pick, guiVars, mbxVars
<1> QED
  BY <1>1, <1>2, <1>3, <1>4, <1>5, <1>6, <1>8, <1>9 DEF Next, User, Server, Sender

-----------------------------------------------------------------------------
(* What the server has done about the user's command.                      *)

\* A step of the server finds the user waiting, or changes nothing he sees.
LEMMA ServerStep ==
  ASSUME IInv, Next
  PROVE  ServerFits' /\ MemoryFits'
<1> USE DEF ServerFits, MemoryFits, Unstarted, Started, Stopped, NoStaleAnswer
<1>0. ServerFits /\ MemoryFits
  BY DEF IInv
<1>1. CASE StartRTSP
  BY <1>0, <1>1 DEF StartRTSP
<1>2. CASE SendStart \/ SendStop
  BY <1>0, <1>2 DEF SendStart, SendStop, Post, taskVars, poolVars
<1>3. CASE Answer \/ Publish \/ StopRTSP \/ Unpublish
  BY <1>0, <1>3 DEF Answer, Publish, StopRTSP, Unpublish, mbxVars, taskVars, poolVars
<1>4. CASE Exit
  BY <1>0, <1>4 DEF Exit, poolVars
<1>5. CASE Enter
  <2>1. CASE Head(rcv) = Start
    <3>1. PICK ok \in BOOLEAN : StartTask(ok)
      BY <1>5, <2>1 DEF Enter
    <3>2. answered' = TRUE
      BY <3>1 DEF StartTask, AckOrFree
    <3>3. gui' = "waitStart" /\ entered' = "IDLE"
      BY <1>5, <2>1, HeadFits DEF Enter, guiVars
    <3>4. /\ heap' = "live" \/ failed'
          /\ task'.at \notin {"none", "wait"} \/ failed'
      BY <3>1 DEF StartTask
    <3>5. heap' # "none"
      BY <3>1 DEF StartTask
    <3> QED BY <3>2, <3>3, <3>4, <3>5
  <2>2. CASE Head(rcv) = Stop
    <3>1. answered' = TRUE /\ gui' = "waitStop"
      BY <1>5, <2>2, HeadFits, MessagesDiffer DEF Enter, AckOrFree, guiVars
    <3>2. UNCHANGED <<task, heap, failed>> /\ task.at = "wait"
      BY <1>5, <2>2, MessagesDiffer DEF Enter, poolVars
    <3> QED BY <1>0, <3>1, <3>2
  <2>3. CASE ~IsCommand(Head(rcv))
    <3>1. answered' = answered
      BY <1>5, <2>3 DEF Enter, AckOrFree, IsCommand, IInv, TypeOK
    <3>2. UNCHANGED <<gui, task, curState, heap, failed>> /\ task.at = "wait"
      BY <1>5, <2>3 DEF Enter, poolVars, guiVars, IsCommand
    <3> QED BY <1>0, <3>1, <3>2
  <2> QED BY <2>1, <2>2, <2>3 DEF IsCommand
<1>6. CASE Serve
  <2>1. UNCHANGED <<gui, entered, heap, curState, failed>> /\ task.at = "inner" /\ rcv # <<>>
    BY <1>0, <1>6 DEF Serve, Cleanup, guiVars
  <2>2. CASE Head(rcv) = Stop
    <3>1. gui = "waitStop" /\ task'.at = "wait"
      BY <1>6, <2>1, <2>2, HeadFits DEF Serve
    <3>2. answered' = TRUE
      BY <1>6, <2>2 DEF Serve, AckOrFree
    <3> QED BY <1>0, <2>1, <3>1, <3>2
  <2>3. CASE Head(rcv) # Stop
    <3>1. ~IsCommand(Head(rcv))
      BY <2>1, <2>3, HeadFits DEF IsCommand
    <3>2. answered' = answered /\ task'.at = "take"
      BY <1>6, <2>3, <3>1 DEF Serve, AckOrFree, IsCommand, IInv, TypeOK
    <3> QED BY <1>0, <2>1, <3>2
  <2> QED BY <2>2, <2>3
<1>7. CASE TakeFull \/ GiveEmpty
  BY <1>0, <1>7 DEF TakeFull, GiveEmpty, guiVars, mbxVars, IInv, TypeOK
<1>8. ASSUME UNCHANGED <<gui, answered, task, curState, entered, heap, failed>>
      PROVE  ServerFits' /\ MemoryFits'
  BY <1>0, <1>8
<1>9. CASE StreamRequest \/ GetEmpty \/ PutFull \/ SendData \/ ReturnBuf \/ Unstick
  BY <1>8, <1>9 DEF StreamRequest, GetEmpty, PutFull, SendData, ReturnBuf, Unstick, Post,
                    guiVars, mbxVars, taskVars, poolVars
<1>10. CASE \E p \in Lines : Capture(p) \/ HandOver(p) \/ Pick(p)
  BY <1>8, <1>10 DEF Capture, HandOver, Pick, guiVars, mbxVars, taskVars, poolVars
<1> QED
  BY <1>1, <1>2, <1>3, <1>4, <1>5, <1>6, <1>7, <1>9, <1>10 DEF Next, User, Server, Sender

-----------------------------------------------------------------------------
(* Types.                                                                  *)

\* What TypeOK says beside the ring and the pools.
Tasks == [at : {"none", "wait", "inner"}] \cup [at : {"take", "give"}, line : Lines]
Sends == [at : {"idle"}] \cup [at : {"get", "fill", "post", "return", "stuck"}, line : Lines]
UserTypes ==
  /\ gui \in {"idle", "sendStart", "waitStart", "publish", "sendStop",
              "waitStop", "exit", "unpublish"}
  /\ rtsp \in BOOLEAN /\ net \in BOOLEAN /\ starts \in 0 .. MaxStarts
ServerTypes ==
  /\ answered \in BOOLEAN /\ failed \in BOOLEAN
  /\ mbx \in {"none", "live", "deleted"} /\ task \in Tasks
  /\ curState \in {"IDLE", "RUNNING"} /\ entered \in {"IDLE", "RUNNING"}
  /\ fails \in 0 .. MaxFails
FeedTypes ==
  /\ send \in Sends
  /\ src \in [Lines -> {"idle", "wait"}] /\ stm \in [Lines -> 0 .. StmBufs]

LEMMA UserTypesStep ==
  ASSUME TypeOK, Next
  PROVE  UserTypes'
<1> USE StreamAssumption DEF UserTypes
<1>0. UserTypes
  BY DEF TypeOK
<1>1. CASE User
  <2>1. /\ rtsp' \in {rtsp, TRUE, FALSE} /\ net' \in {net, TRUE}
        /\ gui' \in {"idle", "sendStart", "waitStart", "publish", "sendStop",
                     "waitStop", "exit", "unpublish"}
    BY <1>0, <1>1 DEF User, StartRTSP, SendStart, Answer, Publish, StopRTSP, SendStop, Exit,
                      Unpublish
  <2>2. starts' = starts \/ (starts < MaxStarts /\ starts' = starts + 1)
    BY <1>1 DEF User, StartRTSP, SendStart, Answer, Publish, StopRTSP, SendStop, Exit,
                Unpublish
  <2>3. starts' \in 0 .. MaxStarts
    BY <1>0, <2>2
  <2> QED BY <1>0, <2>1, <2>3
<1>2. CASE StreamRequest
  BY <1>0, <1>2 DEF StreamRequest
<1>3. ASSUME UNCHANGED guiVars
      PROVE  UserTypes'
  BY <1>0, <1>3 DEF guiVars
<1>4. CASE Server \/ Sender \/ Unstick \/ \E p \in Lines : Capture(p) \/ HandOver(p) \/ Pick(p)
  BY <1>3, <1>4 DEF Server, Enter, Serve, TakeFull, GiveEmpty, Sender, GetEmpty, PutFull,
                    SendData, ReturnBuf, Unstick, Capture, HandOver, Pick
<1> QED BY <1>1, <1>2, <1>4 DEF Next

LEMMA ServerTypesStep ==
  ASSUME IInv, Next
  PROVE  ServerTypes'
<1> USE StreamAssumption DEF ServerTypes
<1>0. ServerTypes
  BY DEF IInv, TypeOK, Tasks
<1>1. CASE StartRTSP \/ Exit
  <2>1. task' \in Tasks
    BY <1>1 DEF StartRTSP, Exit, Tasks
  <2>2. /\ answered' \in {answered, FALSE} /\ failed' \in {failed, FALSE}
        /\ mbx' \in {"live", "deleted"} /\ curState' = "IDLE"
        /\ UNCHANGED <<entered, fails>>
    BY <1>1 DEF StartRTSP, Exit, poolVars
  <2> QED BY <1>0, <2>1, <2>2
<1>2. CASE Answer
  BY <1>0, <1>2 DEF Answer, taskVars, poolVars
<1>3. CASE SendStart \/ SendStop \/ SendData \/ Unstick
  BY <1>0, <1>3 DEF SendStart, SendStop, SendData, Unstick, Post, mbxVars, taskVars, poolVars
<1>4. CASE Enter
  <2>1. answered' \in BOOLEAN
    BY <1>4 DEF Enter, StartTask, AckOrFree
  <2>2. mbx' = mbx /\ entered' = curState
    BY <1>4 DEF Enter
  <2>3. CASE Head(rcv) = Start
    <3>1. PICK ok \in BOOLEAN : (ok \/ fails < MaxFails) /\ StartTask(ok)
      BY <1>4, <2>3 DEF Enter
    <3> QED BY <1>0, <2>1, <2>2, <3>1 DEF StartTask, Tasks
  <2>4. CASE Head(rcv) # Start
    BY <1>0, <1>4, <2>1, <2>2, <2>4 DEF Enter, poolVars
  <2> QED BY <2>3, <2>4
<1>5. CASE Serve
  <2>1. answered' \in BOOLEAN
    BY <1>5 DEF Serve, AckOrFree
  <2>2. UNCHANGED <<mbx, entered, fails, failed>> /\ curState' \in {"IDLE", "RUNNING"}
    BY <1>0, <1>5 DEF Serve, Cleanup
  <2>3. task' \in Tasks
    <3>1. rcv # <<>> /\ task.at = "inner"
      BY <1>5 DEF Serve
    <3>2. Head(rcv) # Stop => Head(rcv).line \in Lines
      BY <3>1, HeadFits DEF IsCommand
    <3> QED BY <1>5, <3>2 DEF Serve, Tasks
  <2> QED BY <1>0, <2>1, <2>2, <2>3
<1>6. CASE TakeFull \/ GiveEmpty
  <2>1. task' \in Tasks
    BY <1>6, RoundTypes DEF IInv, TakeFull, GiveEmpty, Tasks
  <2> QED BY <1>0, <1>6, <2>1 DEF TakeFull, GiveEmpty, mbxVars
<1>7. ASSUME UNCHANGED <<answered, failed, mbx, task, curState, entered, fails>>
      PROVE  ServerTypes'
  BY <1>0, <1>7
<1>8. CASE \/ Publish \/ StopRTSP \/ Unpublish \/ StreamRequest \/ GetEmpty \/ PutFull \/ ReturnBuf
           \/ \E p \in Lines : Capture(p) \/ HandOver(p) \/ Pick(p)
  BY <1>7, <1>8 DEF Publish, StopRTSP, Unpublish, StreamRequest, GetEmpty, PutFull, ReturnBuf,
                    Capture, HandOver, Pick, mbxVars, taskVars, poolVars
<1> QED
  BY <1>1, <1>2, <1>3, <1>4, <1>5, <1>6, <1>8 DEF Next, User, Server, Sender

LEMMA FeedTypesStep ==
  ASSUME TypeOK, Next
  PROVE  FeedTypes'
<1> USE StreamAssumption DEF FeedTypes
<1>0. FeedTypes
  BY DEF TypeOK, Sends
<1>1. ASSUME UNCHANGED <<send, feedVars>>
      PROVE  FeedTypes'
  BY <1>0, <1>1 DEF feedVars
<1>2. CASE User \/ StreamRequest \/ Server
  BY <1>1, <1>2 DEF User, StartRTSP, SendStart, Answer, Publish, StopRTSP, SendStop, Exit,
                    Unpublish, StreamRequest, Server, Enter, Serve, TakeFull, GiveEmpty
<1>3. CASE Sender \/ Unstick
  <2>1. send' \in Sends
    BY <1>0, <1>3, RoundTypes
       DEF Sender, Unstick, GetEmpty, PutFull, SendData, ReturnBuf, Sends
  <2>2. UNCHANGED feedVars
    BY <1>3 DEF Sender, Unstick, GetEmpty, PutFull, SendData, ReturnBuf
  <2> QED BY <1>0, <2>1, <2>2 DEF feedVars
<1>4. ASSUME NEW p \in Lines, Capture(p) \/ HandOver(p)
      PROVE  FeedTypes'
  BY <1>0, <1>4 DEF Capture, HandOver, Holds
<1>5. ASSUME NEW p \in Lines, Pick(p)
      PROVE  FeedTypes'
  BY <1>0, <1>5 DEF Pick, Sends
<1> QED BY <1>2, <1>3, <1>4, <1>5 DEF Next

-----------------------------------------------------------------------------
(* The theorems.                                                           *)

LEMMA InitIInv ==
  ASSUME Init
  PROVE  IInv
<1> USE StreamAssumption DEF Init
<1>1. rcv \in BoundedSeq(Msgs, MsgLen) /\ DOMAIN rcv = {}
  <2>1. rcv \in Seq(Msgs) /\ Len(rcv) = 0 /\ DOMAIN rcv = {} /\ Len(rcv) <= MsgLen
    OBVIOUS
  <2> QED BY <2>1, BoundedSeqType
<1>2. TypeOK
  <2>1. /\ empty \in [Lines -> 0 .. NumBuf] /\ full \in [Lines -> 0 .. NumBuf]
        /\ stm \in [Lines -> 0 .. StmBufs] /\ src \in [Lines -> {"idle", "wait"}]
    BY DEF None
  <2>2. starts \in 0 .. MaxStarts /\ fails \in 0 .. MaxFails
    OBVIOUS
  <2>3. task \in [at : {"none", "wait", "inner"}] /\ send \in [at : {"idle"}]
    OBVIOUS
  <2> QED BY <1>1, <2>1, <2>2, <2>3 DEF TypeOK
<1>3. PoolsBalance
  BY DEF PoolsBalance, Buffers, InHand, None
<1>4. CommandsFit
  BY <1>1 DEF CommandsFit
<1>5. MemoryFits /\ ServerFits
  BY DEF MemoryFits, ServerFits, Unstarted, Started, Stopped, NoStaleAnswer
<1> QED BY <1>2, <1>3, <1>4, <1>5 DEF IInv

\* The inductive invariant holds throughout.
LEMMA Invariance == Spec => []IInv
<1>1. Init => IInv
  BY InitIInv
<1>2. IInv /\ [Next]_vars => IInv'
  <2> SUFFICES ASSUME IInv, [Next]_vars
               PROVE  IInv'
    OBVIOUS
  <2>1. CASE Next
    <3>1. UserTypes' /\ ServerTypes' /\ FeedTypes'
      BY <2>1, UserTypesStep, ServerTypesStep, FeedTypesStep DEF IInv
    <3>2. TypeOK'
      BY <2>1, <3>1, CommandsStep, PoolsStep
         DEF TypeOK, UserTypes, ServerTypes, FeedTypes, Tasks, Sends
    <3> QED BY <2>1, <3>2, PoolsStep, CommandsStep, ServerStep DEF IInv
  <2>2. CASE UNCHANGED vars
    BY <2>2 DEF vars, guiVars, mbxVars, taskVars, poolVars, feedVars, IInv, TypeOK,
                PoolsBalance, Buffers, InHand, MemoryFits, CommandsFit, ServerFits, Unstarted,
                Started, Stopped, NoStaleAnswer
  <2> QED BY <2>1, <2>2
<1> QED BY <1>1, <1>2, PTL DEF Spec

\* Every flag, message and position of the four threads has its type, whatever
\* the users, the clients and the memory do.
THEOREM TypeCorrect == Spec => []TypeOK
<1>1. IInv => TypeOK
  BY DEF IInv
<1> QED BY <1>1, Invariance, PTL

\* A running server's pools keep all their buffers (AVSERVER_bufGetEmpty to
\* OSA_bufPutEmpty), through every interleaving of the streaming thread with
\* the server's.
THEOREM PoolsConserved == Spec => []BuffersConserved
<1>1. IInv => BuffersConserved
  BY DEF IInv, PoolsBalance, Buffers, BuffersConserved
<1> QED BY <1>1, Invariance, PTL

\* A buffer that SEND_streamFxn fills has not been freed, although DVR_stopRTSP
\* takes no lock, unless the last start ran out of memory.
THEOREM FilledBuffersLive == Spec => []NoFreedBufferFilled
<1>1. ASSUME IInv PROVE NoFreedBufferFilled
  <2> SUFFICES ASSUME send.at = "fill"
               PROVE  heap = "live" \/ failed
    BY DEF NoFreedBufferFilled
  <2>1. send.line \in Lines /\ InHand(send.line) # 0
    BY <1>1, RoundTypes DEF IInv, InHand
  <2>2. Buffers(send.line) # 0
    BY <1>1, <2>1, RoundTypes DEF IInv, Buffers
  <2> QED BY <1>1, <2>1, <2>2 DEF IInv, TypeOK, PoolsBalance, MemoryFits
<1>2. IInv => NoFreedBufferFilled
  BY <1>1
<1> QED BY <1>2, Invariance, PTL

\* The user's mailbox holds an ACK only while he waits for one.
THEOREM AnswersNeverStale == Spec => []NoStaleAnswer
<1>1. IInv => NoStaleAnswer
  BY DEF IInv, ServerFits
<1> QED BY <1>1, Invariance, PTL

\* The ACK that ends a DVR_startRTSP or DVR_stopRTSP is the answer to its own
\* command, with the server where that command leaves it.
THEOREM AnswersToTheCommand == Spec => []AnsweredAsAsked
<1>1. IInv => AnsweredAsAsked
  BY DEF IInv, ServerFits, Started, Stopped, AnsweredAsAsked
<1> QED BY <1>1, Invariance, PTL
=============================================================================
