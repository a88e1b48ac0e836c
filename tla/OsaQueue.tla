----------------------------- MODULE OsaQueue ------------------------------
(***************************************************************************)
(* The blocking queue of libs/libosa/src/osa_que.c: a ring of len slots    *)
(* with a read index, a write index and a count, a mutex, and the          *)
(* condition variables condRd (readers wait for data) and condWr (writers  *)
(* wait for room).  A put signals one reader, a get signals one writer.    *)
(* The ring of osa_msgq.c is the same code over message pointers.          *)
(*                                                                         *)
(* The mutex is held from the entry of a call to its return or to its      *)
(* pthread_cond_wait, so a step is one pass through the while loop.        *)
(***************************************************************************)
EXTENDS Integers, Sequences, FiniteSets

CONSTANTS Threads,  \* threads that share the queue
          Values,   \* values they put
          QLen,     \* hndl->len
          NoValue   \* no value received or to be put

ASSUME QueueAssumption == /\ QLen \in Nat \ {0}
                          /\ NoValue \notin Values
                          /\ IsFiniteSet(Threads)

VARIABLES
  queue,     \* hndl->queue: slot -> value
  curRd,     \* hndl->curRd
  curWr,     \* hndl->curWr
  count,     \* hndl->count
  pc,        \* where each thread stands in a call
  arg,       \* the value a thread is waiting to put
  received   \* *value of a thread's last OSA_queGet or OSA_quePeek

vars == <<queue, curRd, curWr, count, pc, arg, received>>

Slots == 0 .. QLen - 1

\* "getWait", "putWait": blocked in pthread_cond_wait; "getWoken", "putWoken":
\* woken, and about to take the mutex and test the count again.
PCs == {"idle", "getWait", "getWoken", "putWait", "putWoken"}

At(l) == {t \in Threads : pc[t] = l}

Init == /\ queue = [i \in Slots |-> NoValue]
        /\ curRd = 0 /\ curWr = 0 /\ count = 0
        /\ pc = [t \in Threads |-> "idle"]
        /\ arg = [t \in Threads |-> NoValue]
        /\ received = [t \in Threads |-> NoValue]

\* pthread_cond_signal: one thread blocked at wait moves to woken, if there is
\* one.  p is the program counter function after the signalling thread's step.
Signal(p, wait, woken) ==
  \/ /\ \E t \in Threads : p[t] = wait /\ pc' = [p EXCEPT ![t] = woken]
  \/ /\ \A t \in Threads : p[t] # wait
     /\ pc' = p

\* Forms the code could have taken by mistake (the mutants of PROJECT.json):
\* a put without the signal, one without the room test, a get that signals the
\* readers, and one that leaves the read index alone.
StoreNoSignal(t, v) ==
  /\ count < QLen
  /\ queue' = [queue EXCEPT ![curWr] = v]
  /\ curWr' = (curWr + 1) % QLen
  /\ count' = count + 1
  /\ pc' = [pc EXCEPT ![t] = "idle"]
  /\ arg' = [arg EXCEPT ![t] = NoValue]
  /\ UNCHANGED <<curRd, received>>

StoreOverwrites(t, v) ==
  /\ queue' = [queue EXCEPT ![curWr] = v]
  /\ curWr' = (curWr + 1) % QLen
  /\ count' = IF count < QLen THEN count + 1 ELSE count
  /\ Signal([pc EXCEPT ![t] = "idle"], "getWait", "getWoken")
  /\ arg' = [arg EXCEPT ![t] = NoValue]
  /\ UNCHANGED <<curRd, received>>

FetchSignalsReaders(t) ==
  /\ count > 0
  /\ received' = [received EXCEPT ![t] = queue[curRd]]
  /\ curRd' = (curRd + 1) % QLen
  /\ count' = count - 1
  /\ Signal([pc EXCEPT ![t] = "idle"], "getWait", "getWoken")
  /\ UNCHANGED <<queue, curWr, arg>>

FetchUnguarded(t) ==
  /\ received' = [received EXCEPT ![t] = queue[curRd]]
  /\ curRd' = (curRd + 1) % QLen
  /\ count' = count - 1
  /\ Signal([pc EXCEPT ![t] = "idle"], "putWait", "putWoken")
  /\ UNCHANGED <<queue, curWr, arg>>

FetchNewest(t) ==
  /\ count > 0
  /\ received' = [received EXCEPT ![t] = queue[curRd]]
  /\ curRd' = curRd
  /\ count' = count - 1
  /\ Signal([pc EXCEPT ![t] = "idle"], "putWait", "putWoken")
  /\ UNCHANGED <<queue, curWr, arg>>

\* OSA_quePut with room: store, advance, count, signal a reader.
Store(t, v) ==
  /\ count < QLen
  /\ queue' = [queue EXCEPT ![curWr] = v]
  /\ curWr' = (curWr + 1) % QLen
  /\ count' = count + 1
  /\ Signal([pc EXCEPT ![t] = "idle"], "getWait", "getWoken")
  /\ arg' = [arg EXCEPT ![t] = NoValue]
  /\ UNCHANGED <<curRd, received>>

\* OSA_queGet with data: read, advance, count, signal a writer.
Fetch(t) ==
  /\ count > 0
  /\ received' = [received EXCEPT ![t] = queue[curRd]]
  /\ curRd' = (curRd + 1) % QLen
  /\ count' = count - 1
  /\ Signal([pc EXCEPT ![t] = "idle"], "putWait", "putWoken")
  /\ UNCHANGED <<queue, curWr, arg>>

\* A call that finds room succeeds whatever its timeout; one that finds none
\* returns OSA_EFAIL with OSA_TIMEOUT_NONE (no state changes) and waits
\* otherwise: there is no timed wait in osa_que.c.
BlockPut(t, v) ==
  /\ count = QLen
  /\ pc' = [pc EXCEPT ![t] = "putWait"]
  /\ arg' = [arg EXCEPT ![t] = v]
  /\ UNCHANGED <<queue, curRd, curWr, count, received>>

BlockGet(t) ==
  /\ count = 0
  /\ pc' = [pc EXCEPT ![t] = "getWait"]
  /\ UNCHANGED <<queue, curRd, curWr, count, arg, received>>

Put(t) == /\ pc[t] = "idle"
          /\ \E v \in Values : Store(t, v) \/ BlockPut(t, v)

Get(t) == /\ pc[t] = "idle"
          /\ Fetch(t) \/ BlockGet(t)

PutResume(t) == /\ pc[t] = "putWoken"
                /\ Store(t, arg[t]) \/ BlockPut(t, arg[t])

GetResume(t) == /\ pc[t] = "getWoken"
                /\ Fetch(t) \/ BlockGet(t)

\* OSA_quePeek copies the oldest value and takes nothing (it returns OSA_EFAIL
\* even so: status is never set to OSA_SOK).
Peek(t) == /\ pc[t] = "idle"
           /\ count > 0
           /\ received' = [received EXCEPT ![t] = queue[curRd]]
           /\ UNCHANGED <<queue, curRd, curWr, count, pc, arg>>

\* POSIX lets pthread_cond_wait return without a signal.
SpuriousWakeup(t) ==
  /\ \/ pc[t] = "getWait" /\ pc' = [pc EXCEPT ![t] = "getWoken"]
     \/ pc[t] = "putWait" /\ pc' = [pc EXCEPT ![t] = "putWoken"]
  /\ UNCHANGED <<queue, curRd, curWr, count, arg, received>>

Step(t) == Put(t) \/ Get(t) \/ PutResume(t) \/ GetResume(t)

Next == \E t \in Threads : Step(t) \/ Peek(t) \/ SpuriousWakeup(t)

Spec == Init /\ [][Next]_vars

-----------------------------------------------------------------------------
TypeOK == /\ queue \in [Slots -> Values \cup {NoValue}]
          /\ curRd \in Slots /\ curWr \in Slots
          /\ count \in 0 .. QLen
          /\ pc \in [Threads -> PCs]
          /\ arg \in [Threads -> Values \cup {NoValue}]
          /\ received \in [Threads -> Values \cup {NoValue}]

\* The indices and the count describe the same ring, whatever the order of the
\* concurrent calls: the writer is count slots ahead of the reader.
RingConsistent == curWr = (curRd + count) % QLen

\* A slot the reader will reach holds a value that was put, and a thread waiting
\* to put still has its value.
SlotsFilled ==
  /\ \A i \in 0 .. count - 1 : queue[(curRd + i) % QLen] \in Values
  /\ \A t \in At("putWait") \cup At("putWoken") : arg[t] \in Values

\* No lost wakeup: while readers sleep, every queued value has a woken reader
\* on its way to it; while writers sleep, every free slot has a woken writer.
\* (One signal per operation is enough, although a thread that never slept may
\* overtake the woken one.)
NoLostWakeup ==
  /\ At("getWait") # {} => count <= Cardinality(At("getWoken"))
  /\ At("putWait") # {} => QLen - count <= Cardinality(At("putWoken"))

-----------------------------------------------------------------------------
\* The refinement of FifoQueue: the ring read from curRd on.
Contents == [i \in 1 .. count |-> queue[(curRd + i - 1) % QLen]]

Fifo == INSTANCE FifoQueue WITH contents <- Contents, Capacity <- QLen

\* The ring is a FIFO channel: no value is lost, duplicated or reordered.
FifoSpec == Fifo!Spec
=============================================================================
