----------------------------- MODULE FifoQueue -----------------------------
(***************************************************************************)
(* What OSA_que promises its callers (libs/libosa/src/osa_que.c): a        *)
(* bounded first-in first-out channel of Int32 values shared by threads.   *)
(* Nothing is lost, duplicated or reordered, and nothing exceeds the       *)
(* capacity.  How a full or an empty queue makes a caller wait is no part  *)
(* of the promise: OsaQueue adds it and implements this module.            *)
(***************************************************************************)
EXTENDS Naturals, Sequences

CONSTANTS Threads,   \* the threads that share the queue
          Values,    \* the values they exchange
          Capacity,  \* how many values fit (maxLen of OSA_queCreate)
          NoValue    \* what a thread has received before its first get

VARIABLES contents,  \* the values put and not yet taken, oldest first
          received   \* the last value each thread was handed

fifoVars == <<contents, received>>

Init == /\ contents = <<>>
        /\ received = [t \in Threads |-> NoValue]

Enqueue(v) == /\ Len(contents) < Capacity
              /\ contents' = Append(contents, v)
              /\ UNCHANGED received

Dequeue(t) == /\ contents # <<>>
              /\ received' = [received EXCEPT ![t] = Head(contents)]
              /\ contents' = Tail(contents)

Peek(t) == /\ contents # <<>>
           /\ received' = [received EXCEPT ![t] = Head(contents)]
           /\ UNCHANGED contents

Next == \/ \E v \in Values : Enqueue(v)
        \/ \E t \in Threads : Dequeue(t) \/ Peek(t)

Spec == Init /\ [][Next]_fifoVars
=============================================================================
