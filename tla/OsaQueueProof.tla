--------------------------- MODULE OsaQueueProof ---------------------------
(***************************************************************************)
(* Proofs about OsaQueue for every set of threads, every set of values and *)
(* every queue length: the ring is well typed and consistent, no wakeup is *)
(* lost, and the ring implements FifoQueue.                                *)
(***************************************************************************)
EXTENDS OsaQueue, FiniteSetTheorems, TLAPS

-----------------------------------------------------------------------------
(* Arithmetic of a ring index.                                             *)

\* An index below the length is its own remainder, and one lap too far is the
\* index less the length.
LEMMA ModWrap ==
  ASSUME NEW n \in Nat \ {0}, NEW x \in 0 .. 2 * n - 1
  PROVE  x % n = IF x < n THEN x ELSE x - n
PROOF OBVIOUS

\* Advancing an index keeps it in the ring.
LEMMA Advance ==
  ASSUME NEW i \in Slots
  PROVE  /\ (i + 1) % QLen \in Slots
         /\ (i + 1) % QLen = IF i + 1 < QLen THEN i + 1 ELSE 0
<1>1. QLen \in Nat \ {0} /\ i \in Int /\ 0 <= i /\ i < QLen
  BY QueueAssumption DEF Slots
<1>2. i + 1 \in 0 .. 2 * QLen - 1
  BY <1>1
<1>3. (i + 1) % QLen = IF i + 1 < QLen THEN i + 1 ELSE (i + 1) - QLen
  BY <1>1, <1>2, ModWrap
<1> QED BY <1>1, <1>3 DEF Slots

-----------------------------------------------------------------------------
(* Type correctness.                                                       *)

\* A signal only moves a thread between program counters.
LEMMA SignalType ==
  ASSUME NEW p \in [Threads -> PCs], NEW w \in PCs, NEW k \in PCs, Signal(p, w, k)
  PROVE  pc' \in [Threads -> PCs]
BY DEF Signal

\* An argument that is waiting to be put is a value: needed because a woken
\* thread stores it.
WaitingArgs == \A t \in Threads : pc[t] \in {"putWait", "putWoken"} => arg[t] \in Values

TypeInv == TypeOK /\ WaitingArgs

\* Storing a value keeps the types.
LEMMA StoreType ==
  ASSUME TypeInv, NEW t \in Threads, NEW v \in Values, Store(t, v)
  PROVE  TypeInv'
<1> USE QueueAssumption DEF TypeInv, TypeOK, Store
<1>1. curWr' \in Slots BY Advance
<1>2. count' \in 0 .. QLen OBVIOUS
<1>3. pc' \in [Threads -> PCs] BY SignalType DEF PCs
<1>4. \A s \in Threads : pc'[s] \in {"putWait", "putWoken"} =>
        pc[s] = pc'[s] /\ s # t
  BY DEF Signal, PCs
<1>5. WaitingArgs' BY <1>4 DEF WaitingArgs
<1> QED BY <1>1, <1>2, <1>3, <1>5

\* Fetching a value keeps the types.
LEMMA FetchType ==
  ASSUME TypeInv, NEW t \in Threads, Fetch(t)
  PROVE  TypeInv'
<1> USE QueueAssumption DEF TypeInv, TypeOK, Fetch
<1>1. curRd' \in Slots BY Advance
<1>2. count' \in 0 .. QLen OBVIOUS
<1>3. pc' \in [Threads -> PCs] BY SignalType DEF PCs
<1>4. \A s \in Threads : pc'[s] \in {"putWait", "putWoken"} =>
        pc[s] \in {"putWait", "putWoken"}
  BY DEF Signal, PCs
<1>5. WaitingArgs' BY <1>4 DEF WaitingArgs
<1> QED BY <1>1, <1>2, <1>3, <1>5

\* Going to sleep keeps the types.
LEMMA BlockType ==
  ASSUME TypeInv, NEW t \in Threads,
         (\E v \in Values : BlockPut(t, v)) \/ BlockGet(t)
  PROVE  TypeInv'
BY DEF TypeInv, TypeOK, WaitingArgs, BlockPut, BlockGet, PCs

\* The type invariant of every step.
LEMMA TypeStep == TypeInv /\ [Next]_vars => TypeInv'
<1> SUFFICES ASSUME TypeInv, [Next]_vars PROVE TypeInv'
  OBVIOUS
<1>1. CASE UNCHANGED vars
  BY <1>1 DEF vars, TypeInv, TypeOK, WaitingArgs
<1>2. ASSUME NEW t \in Threads, Put(t) PROVE TypeInv'
  BY <1>2, StoreType, BlockType DEF Put
<1>3. ASSUME NEW t \in Threads, Get(t) PROVE TypeInv'
  BY <1>3, FetchType, BlockType DEF Get
<1>4. ASSUME NEW t \in Threads, PutResume(t) PROVE TypeInv'
  <2>1. arg[t] \in Values BY <1>4 DEF PutResume, TypeInv, WaitingArgs
  <2> QED BY <1>4, <2>1, StoreType, BlockType DEF PutResume
<1>5. ASSUME NEW t \in Threads, GetResume(t) PROVE TypeInv'
  BY <1>5, FetchType, BlockType DEF GetResume
<1>6. ASSUME NEW t \in Threads, Peek(t) PROVE TypeInv'
  BY <1>6 DEF Peek, TypeInv, TypeOK, WaitingArgs
<1>7. ASSUME NEW t \in Threads, SpuriousWakeup(t) PROVE TypeInv'
  BY <1>7 DEF SpuriousWakeup, TypeInv, TypeOK, WaitingArgs, PCs
<1> QED BY <1>1, <1>2, <1>3, <1>4, <1>5, <1>6, <1>7 DEF Next, Step

\* The initial state is well typed.
LEMMA TypeInit == Init => TypeInv
BY QueueAssumption DEF Init, TypeInv, TypeOK, WaitingArgs, Slots, PCs

\* Every reachable state of the queue is well typed: indices stay inside the
\* ring and the count inside its capacity (osa_que.c).
THEOREM TypeCorrect == Spec => []TypeOK
<1>1. TypeInv => TypeOK BY DEF TypeInv
<1> QED BY <1>1, TypeInit, TypeStep, PTL DEF Spec

-----------------------------------------------------------------------------
(* The ring.                                                               *)

\* Shifting both ends of a distance: the index d slots after i, and one further.
LEMMA StepAlong ==
  ASSUME NEW i \in Slots, NEW d \in 0 .. QLen
  PROVE  /\ (((i + d) % QLen) + 1) % QLen = (i + (d + 1)) % QLen
         /\ (((i + 1) % QLen) + d) % QLen = (i + (d + 1)) % QLen
<1> QED BY QueueAssumption DEF Slots

\* What the steps do to the ring's indices: a store, a fetch, or nothing.
LEMMA StepKinds ==
  ASSUME [Next]_vars
  PROVE  \/ \E t \in Threads : \E v : Store(t, v)
         \/ \E t \in Threads : Fetch(t)
         \/ UNCHANGED <<queue, curRd, curWr, count>>
BY DEF Next, Step, Put, Get, PutResume, GetResume, Peek, SpuriousWakeup,
       BlockPut, BlockGet, vars

\* The initial ring is consistent.
LEMMA RingInit == Init => RingConsistent
BY QueueAssumption DEF Init, RingConsistent

\* A step keeps the write index count slots ahead of the read index.
LEMMA RingStep == TypeInv /\ RingConsistent /\ [Next]_vars => RingConsistent'
<1> SUFFICES ASSUME TypeInv, RingConsistent, [Next]_vars
             PROVE  RingConsistent'
  OBVIOUS
<1>1. curRd \in Slots /\ curWr \in Slots /\ count \in 0 .. QLen
  BY DEF TypeInv, TypeOK
<1>2. ASSUME NEW t \in Threads, NEW v, Store(t, v) PROVE RingConsistent'
  BY <1>1, <1>2, StepAlong DEF Store, RingConsistent
<1>3. ASSUME NEW t \in Threads, Fetch(t) PROVE RingConsistent'
  <2>1. count - 1 \in 0 .. QLen /\ (count - 1) + 1 = count
    BY <1>1, <1>3, QueueAssumption DEF Fetch
  <2>2. (((curRd + 1) % QLen) + (count - 1)) % QLen = (curRd + ((count - 1) + 1)) % QLen
    BY <1>1, <2>1, StepAlong
  <2> QED BY <2>1, <2>2, <1>3 DEF Fetch, RingConsistent
<1>4. CASE UNCHANGED <<queue, curRd, curWr, count>>
  BY <1>4 DEF RingConsistent
<1> QED BY <1>2, <1>3, <1>4, StepKinds

\* The write index is always count slots ahead of the read index (osa_que.c
\* keeps all three).
THEOREM RingAlwaysConsistent == Spec => []RingConsistent
<1>1. Init => TypeInv /\ RingConsistent BY TypeInit, RingInit
<1>2. TypeInv /\ RingConsistent /\ [Next]_vars => (TypeInv /\ RingConsistent)'
  BY TypeStep, RingStep
<1> QED BY <1>1, <1>2, PTL DEF Spec

-----------------------------------------------------------------------------
(* No wakeup is lost.                                                      *)

\* The threads at one program counter are finitely many.
LEMMA AtFinite ==
  ASSUME NEW l
  PROVE  /\ IsFiniteSet(At(l))
         /\ Cardinality(At(l)) \in Nat
BY QueueAssumption, FS_Subset, FS_CardinalityType DEF At

\* A thread that wakes adds one to the woken ones.
LEMMA AtGrows ==
  ASSUME NEW l, NEW t
  PROVE  /\ Cardinality(At(l) \cup {t}) \in Nat
         /\ Cardinality(At(l) \cup {t}) >= Cardinality(At(l))
         /\ t \notin At(l) => Cardinality(At(l) \cup {t}) = Cardinality(At(l)) + 1
<1>1. IsFiniteSet(At(l)) /\ Cardinality(At(l)) \in Nat BY AtFinite
<1>2. Cardinality(At(l) \cup {t}) = IF t \in At(l) THEN Cardinality(At(l))
                                    ELSE Cardinality(At(l)) + 1
  BY <1>1, FS_AddElement
<1> QED BY <1>1, <1>2

\* A thread that leaves takes at most one off.
LEMMA AtShrinks ==
  ASSUME NEW l, NEW t
  PROVE  /\ Cardinality(At(l) \ {t}) \in Nat
         /\ Cardinality(At(l) \ {t}) >= Cardinality(At(l)) - 1
         /\ t \notin At(l) => Cardinality(At(l) \ {t}) = Cardinality(At(l))
<1>1. IsFiniteSet(At(l)) /\ Cardinality(At(l)) \in Nat BY AtFinite
<1>2. Cardinality(At(l) \ {t}) = IF t \in At(l) THEN Cardinality(At(l)) - 1
                                 ELSE Cardinality(At(l))
  BY <1>1, FS_RemoveElement
<1>3. IsFiniteSet(At(l) \ {t}) BY <1>1, FS_RemoveElement
<1>4. Cardinality(At(l) \ {t}) \in Nat BY <1>3, FS_CardinalityType
<1>5. t \notin At(l) => At(l) \ {t} = At(l) OBVIOUS
<1> QED BY <1>1, <1>2, <1>4, <1>5

\* A store with its signal: readers asleep lose one to the woken ones, and the
\* writer that stored is no longer a woken writer.
LEMMA StoreWakes ==
  ASSUME TypeInv, NoLostWakeup, NEW t \in Threads, NEW v, Store(t, v),
         pc[t] \in {"idle", "putWoken"}
  PROVE  NoLostWakeup'
<1> DEFINE p == [pc EXCEPT ![t] = "idle"]
<1>0. count \in 0 .. QLen /\ pc \in [Threads -> PCs] /\ count' = count + 1
  BY DEF TypeInv, TypeOK, Store
<1>1. At("getWait")' # {} => count' <= Cardinality(At("getWoken")')
  <2>1. CASE \E s \in Threads : p[s] = "getWait" /\ pc' = [p EXCEPT ![s] = "getWoken"]
    <3>1. PICK s \in Threads : p[s] = "getWait" /\ pc' = [p EXCEPT ![s] = "getWoken"]
      BY <2>1
    <3>2. s \in At("getWait") /\ s \notin At("getWoken")
      BY <3>1, <1>0 DEF At
    <3>3. At("getWoken")' = At("getWoken") \cup {s}
      BY <3>1, <1>0 DEF At
    <3>4. Cardinality(At("getWoken")') = Cardinality(At("getWoken")) + 1
      BY <3>2, <3>3, AtGrows
    <3> QED BY <3>2, <3>4, <1>0, AtFinite, QueueAssumption DEF NoLostWakeup
  <2>2. CASE (\A s \in Threads : p[s] # "getWait") /\ pc' = p
    BY <2>2 DEF At
  <2> QED BY <2>1, <2>2 DEF Store, Signal
<1>2. At("putWait")' # {} => QLen - count' <= Cardinality(At("putWoken")')
  <2>1. At("putWait")' = At("putWait") /\ At("putWoken")' = At("putWoken") \ {t}
    BY <1>0 DEF Store, Signal, At
  <2>2. /\ Cardinality(At("putWoken")') \in Nat
        /\ Cardinality(At("putWoken")') >= Cardinality(At("putWoken")) - 1
        /\ t \notin At("putWoken") =>
             Cardinality(At("putWoken")') = Cardinality(At("putWoken"))
    BY <2>1, AtShrinks
  <2> QED BY <2>1, <2>2, <1>0, AtFinite, QueueAssumption DEF NoLostWakeup
<1> QED BY <1>1, <1>2 DEF NoLostWakeup

\* A fetch with its signal, the mirror image of a store.
LEMMA FetchWakes ==
  ASSUME TypeInv, NoLostWakeup, NEW t \in Threads, Fetch(t),
         pc[t] \in {"idle", "getWoken"}
  PROVE  NoLostWakeup'
<1> DEFINE p == [pc EXCEPT ![t] = "idle"]
<1>0. count \in 0 .. QLen /\ pc \in [Threads -> PCs] /\ count' = count - 1
  BY DEF TypeInv, TypeOK, Fetch
<1>1. At("putWait")' # {} => QLen - count' <= Cardinality(At("putWoken")')
  <2>1. CASE \E s \in Threads : p[s] = "putWait" /\ pc' = [p EXCEPT ![s] = "putWoken"]
    <3>1. PICK s \in Threads : p[s] = "putWait" /\ pc' = [p EXCEPT ![s] = "putWoken"]
      BY <2>1
    <3>2. s \in At("putWait") /\ s \notin At("putWoken")
      BY <3>1, <1>0 DEF At
    <3>3. At("putWoken")' = At("putWoken") \cup {s}
      BY <3>1, <1>0 DEF At
    <3>4. Cardinality(At("putWoken")') = Cardinality(At("putWoken")) + 1
      BY <3>2, <3>3, AtGrows
    <3> QED BY <3>2, <3>4, <1>0, AtFinite, QueueAssumption DEF NoLostWakeup
  <2>2. CASE (\A s \in Threads : p[s] # "putWait") /\ pc' = p
    BY <2>2 DEF At
  <2> QED BY <2>1, <2>2 DEF Fetch, Signal
<1>2. At("getWait")' # {} => count' <= Cardinality(At("getWoken")')
  <2>1. At("getWait")' = At("getWait") /\ At("getWoken")' = At("getWoken") \ {t}
    BY <1>0 DEF Fetch, Signal, At
  <2>2. /\ Cardinality(At("getWoken")') \in Nat
        /\ Cardinality(At("getWoken")') >= Cardinality(At("getWoken")) - 1
        /\ t \notin At("getWoken") =>
             Cardinality(At("getWoken")') = Cardinality(At("getWoken"))
    BY <2>1, AtShrinks
  <2> QED BY <2>1, <2>2, <1>0, AtFinite, QueueAssumption DEF NoLostWakeup
<1> QED BY <1>1, <1>2 DEF NoLostWakeup

\* A writer goes to sleep on a full ring, a reader on an empty one: there is
\* nothing they could have been woken for.
LEMMA BlockWakes ==
  ASSUME TypeInv, NoLostWakeup, NEW t \in Threads,
         \/ \E v : BlockPut(t, v) /\ pc[t] \in {"idle", "putWoken"}
         \/ BlockGet(t) /\ pc[t] \in {"idle", "getWoken"}
  PROVE  NoLostWakeup'
<1>0. pc \in [Threads -> PCs] /\ count \in 0 .. QLen
  BY DEF TypeInv, TypeOK
<1>1. ASSUME NEW v, BlockPut(t, v), pc[t] \in {"idle", "putWoken"}
      PROVE  NoLostWakeup'
  <2>1. At("getWait")' = At("getWait") /\ At("getWoken")' = At("getWoken")
    BY <1>1, <1>0 DEF BlockPut, At
  <2>2. At("putWoken")' = At("putWoken") \ {t}
    BY <1>1, <1>0 DEF BlockPut, At
  <2>3. Cardinality(At("putWoken")') \in Nat BY <2>2, AtShrinks
  <2>4. count' = QLen /\ count' = count BY <1>1 DEF BlockPut
  <2> QED BY <2>1, <2>3, <2>4, QueueAssumption DEF NoLostWakeup
<1>2. ASSUME BlockGet(t), pc[t] \in {"idle", "getWoken"}
      PROVE  NoLostWakeup'
  <2>1. At("putWait")' = At("putWait") /\ At("putWoken")' = At("putWoken")
    BY <1>2, <1>0 DEF BlockGet, At
  <2>2. At("getWoken")' = At("getWoken") \ {t}
    BY <1>2, <1>0 DEF BlockGet, At
  <2>3. Cardinality(At("getWoken")') \in Nat BY <2>2, AtShrinks
  <2>4. count' = 0 /\ count' = count BY <1>2 DEF BlockGet
  <2> QED BY <2>1, <2>3, <2>4, QueueAssumption DEF NoLostWakeup
<1> QED BY <1>1, <1>2

\* A wakeup without a signal only adds a woken thread.
LEMMA SpuriousWakes ==
  ASSUME TypeInv, NoLostWakeup, NEW t \in Threads, SpuriousWakeup(t)
  PROVE  NoLostWakeup'
<1>0. pc \in [Threads -> PCs] /\ count \in 0 .. QLen /\ count' = count
  BY DEF TypeInv, TypeOK, SpuriousWakeup
<1>1. CASE pc[t] = "getWait" /\ pc' = [pc EXCEPT ![t] = "getWoken"]
  <2>1. /\ At("putWait")' = At("putWait") /\ At("putWoken")' = At("putWoken")
        /\ At("getWoken")' = At("getWoken") \cup {t}
        /\ t \in At("getWait")
    BY <1>1, <1>0 DEF At
  <2>2. /\ Cardinality(At("getWoken")') \in Nat
        /\ Cardinality(At("getWoken")') >= Cardinality(At("getWoken"))
    BY <2>1, AtGrows
  <2>3. Cardinality(At("getWoken")) \in Nat BY AtFinite
  <2>4. At("getWait") # {} BY <2>1
  <2> QED BY <2>1, <2>2, <2>3, <2>4, <1>0, QueueAssumption DEF NoLostWakeup
<1>2. CASE pc[t] = "putWait" /\ pc' = [pc EXCEPT ![t] = "putWoken"]
  <2>1. /\ At("getWait")' = At("getWait") /\ At("getWoken")' = At("getWoken")
        /\ At("putWoken")' = At("putWoken") \cup {t}
        /\ t \in At("putWait")
    BY <1>2, <1>0 DEF At
  <2>2. /\ Cardinality(At("putWoken")') \in Nat
        /\ Cardinality(At("putWoken")') >= Cardinality(At("putWoken"))
    BY <2>1, AtGrows
  <2>3. Cardinality(At("putWoken")) \in Nat BY AtFinite
  <2>4. At("putWait") # {} BY <2>1
  <2> QED BY <2>1, <2>2, <2>3, <2>4, <1>0, QueueAssumption DEF NoLostWakeup
<1> QED BY <1>1, <1>2 DEF SpuriousWakeup

\* Every step keeps a woken thread for each value or slot a sleeper waits for.
LEMMA WakeupStep == TypeInv /\ NoLostWakeup /\ [Next]_vars => NoLostWakeup'
<1> SUFFICES ASSUME TypeInv, NoLostWakeup, [Next]_vars
             PROVE  NoLostWakeup'
  OBVIOUS
<1>1. CASE UNCHANGED vars
  BY <1>1 DEF vars, NoLostWakeup, At
<1>2. ASSUME NEW t \in Threads, Put(t) \/ PutResume(t) PROVE NoLostWakeup'
  BY <1>2, StoreWakes, BlockWakes DEF Put, PutResume
<1>3. ASSUME NEW t \in Threads, Get(t) \/ GetResume(t) PROVE NoLostWakeup'
  BY <1>3, FetchWakes, BlockWakes DEF Get, GetResume
<1>4. ASSUME NEW t \in Threads, Peek(t) PROVE NoLostWakeup'
  BY <1>4 DEF Peek, NoLostWakeup, At
<1>5. ASSUME NEW t \in Threads, SpuriousWakeup(t) PROVE NoLostWakeup'
  BY <1>5, SpuriousWakes
<1> QED BY <1>1, <1>2, <1>3, <1>4, <1>5 DEF Next, Step

\* One signal per operation is enough: no thread sleeps beside a value or a
\* slot nobody else is on the way to (OSA_quePut, OSA_queGet).
THEOREM WakeupsNeverLost == Spec => []NoLostWakeup
<1>1. Init => NoLostWakeup
  BY DEF Init, NoLostWakeup, At
<1>2. Init => TypeInv /\ NoLostWakeup BY <1>1, TypeInit
<1>3. TypeInv /\ NoLostWakeup /\ [Next]_vars => (TypeInv /\ NoLostWakeup)'
  BY TypeStep, WakeupStep
<1> QED BY <1>2, <1>3, PTL DEF Spec

-----------------------------------------------------------------------------
(* The ring implements the FIFO channel.                                   *)

\* Two different distances below the ring's length reach two different slots.
LEMMA DistinctSlots ==
  ASSUME NEW i \in Slots, NEW d \in Slots, NEW e \in Slots, d # e
  PROVE  (i + d) % QLen # (i + e) % QLen
<1>1. QLen \in Nat \ {0} /\ i \in 0 .. QLen - 1 /\ d \in 0 .. QLen - 1 /\ e \in 0 .. QLen - 1
  BY QueueAssumption DEF Slots
<1>2. i + d \in 0 .. 2 * QLen - 1 /\ i + e \in 0 .. 2 * QLen - 1
  BY <1>1
<1>3. (i + d) % QLen = IF i + d < QLen THEN i + d ELSE (i + d) - QLen
  BY <1>1, <1>2, ModWrap
<1>4. (i + e) % QLen = IF i + e < QLen THEN i + e ELSE (i + e) - QLen
  BY <1>1, <1>2, ModWrap
<1> QED BY <1>1, <1>3, <1>4

\* What a ring q holds when read from index r over c slots.
Lap(q, r, c) == [i \in 1 .. c |-> q[(r + i - 1) % QLen]]

\* It is a sequence of c values.
LEMMA LapSeq ==
  ASSUME NEW V, NEW q \in [Slots -> V], NEW r \in Slots, NEW c \in 0 .. QLen
  PROVE  Lap(q, r, c) \in Seq(V) /\ Len(Lap(q, r, c)) = c
<1>1. \A i \in 1 .. c : (r + i - 1) % QLen \in Slots
  BY QueueAssumption DEF Slots
<1> QED BY <1>1 DEF Lap

\* Filling the slot behind the last one appends to it.
LEMMA LapAppend ==
  ASSUME NEW V, NEW q \in [Slots -> V], NEW r \in Slots, NEW c \in Slots, NEW v \in V
  PROVE  Lap([q EXCEPT ![(r + c) % QLen] = v], r, c + 1) = Append(Lap(q, r, c), v)
<1> DEFINE n == [q EXCEPT ![(r + c) % QLen] = v]
<1>1. c \in Nat /\ c \in 0 .. QLen /\ c + 1 \in 0 .. QLen /\ (r + c) % QLen \in Slots
  BY QueueAssumption DEF Slots
<1>2. n \in [Slots -> V] BY <1>1
<1> HIDE DEF n
<1>3. Lap(q, r, c) \in Seq(V) /\ Len(Lap(q, r, c)) = c BY <1>1, LapSeq
<1>4. Lap(n, r, c + 1) \in Seq(V) /\ Len(Lap(n, r, c + 1)) = c + 1
  BY <1>1, <1>2, LapSeq
<1>5. Append(Lap(q, r, c), v) \in Seq(V) /\ Len(Append(Lap(q, r, c), v)) = c + 1
  BY <1>3
<1>6. ASSUME NEW i \in 1 .. c + 1 PROVE Lap(n, r, c + 1)[i] = Append(Lap(q, r, c), v)[i]
  <2>1. /\ i - 1 \in Slots /\ r + i - 1 = r + (i - 1)
        /\ (r + (i - 1)) % QLen \in Slots
    BY <1>1, QueueAssumption DEF Slots
  <2>2. Lap(n, r, c + 1)[i] = n[(r + (i - 1)) % QLen] BY <2>1 DEF Lap
  <2>3. CASE i = c + 1
    <3>1. i - 1 = c BY <2>3, <1>1
    <3>2. n[(r + c) % QLen] = v BY <1>1 DEF n
    <3>3. Append(Lap(q, r, c), v)[i] = v BY <2>3, <1>3
    <3> QED BY <3>1, <3>2, <3>3, <2>2
  <2>4. CASE i # c + 1
    <3>1. i \in 1 .. c /\ i - 1 # c BY <2>4, <1>1
    <3>2. (r + (i - 1)) % QLen # (r + c) % QLen BY <2>1, <3>1, DistinctSlots
    <3>3. n[(r + (i - 1)) % QLen] = q[(r + (i - 1)) % QLen] BY <2>1, <3>2, <1>1 DEF n
    <3>4. Append(Lap(q, r, c), v)[i] = Lap(q, r, c)[i] BY <3>1, <1>3
    <3>5. Lap(q, r, c)[i] = q[(r + (i - 1)) % QLen] BY <3>1, <2>1 DEF Lap
    <3> QED BY <2>2, <3>3, <3>4, <3>5
  <2> QED BY <2>3, <2>4
<1>7. Lap(n, r, c + 1) = Append(Lap(q, r, c), v)
  BY <1>4, <1>5, <1>6
<1> QED BY <1>7 DEF n

\* Reading on from the next slot drops the oldest value.
LEMMA LapTail ==
  ASSUME NEW V, NEW q \in [Slots -> V], NEW r \in Slots, NEW c \in 0 .. QLen, c > 0
  PROVE  /\ Lap(q, r, c) # <<>>
         /\ Head(Lap(q, r, c)) = q[r]
         /\ Lap(q, (r + 1) % QLen, c - 1) = Tail(Lap(q, r, c))
<1> DEFINE s == (r + 1) % QLen
<1>1. s \in Slots /\ c - 1 \in 0 .. QLen /\ c \in Nat /\ c - 1 \in Nat
  BY QueueAssumption, Advance
<1>2. Lap(q, r, c) \in Seq(V) /\ Len(Lap(q, r, c)) = c BY LapSeq
<1>3. Lap(q, s, c - 1) \in Seq(V) /\ Len(Lap(q, s, c - 1)) = c - 1 BY <1>1, LapSeq
<1>4. Lap(q, r, c) # <<>> BY <1>1, <1>2
<1>5. Tail(Lap(q, r, c)) \in Seq(V) /\ Len(Tail(Lap(q, r, c))) = c - 1
  BY <1>1, <1>2, <1>4
<1>6. Head(Lap(q, r, c)) = q[r]
  <2>1. (r + 1 - 1) % QLen = r BY QueueAssumption DEF Slots
  <2>2. Lap(q, r, c)[1] = q[(r + 1 - 1) % QLen] BY <1>1 DEF Lap
  <2> QED BY <2>1, <2>2, <1>2, <1>4
<1>7. ASSUME NEW i \in 1 .. c - 1 PROVE Lap(q, s, c - 1)[i] = Tail(Lap(q, r, c))[i]
  <2>1. i - 1 \in 0 .. QLen /\ i + 1 \in 1 .. c /\ (i - 1) + 1 = i /\ i \in Int
    BY <1>1, QueueAssumption
  <2>2. (s + (i - 1)) % QLen = (r + i) % QLen BY <2>1, StepAlong
  <2>3. s + i - 1 = s + (i - 1) /\ r + (i + 1) - 1 = r + i
    BY <2>1, <1>1, QueueAssumption DEF Slots
  <2>4. Lap(q, s, c - 1)[i] = q[(r + i) % QLen] BY <2>2, <2>3 DEF Lap
  <2>5. Lap(q, r, c)[i + 1] = q[(r + i) % QLen] BY <2>1, <2>3 DEF Lap
  <2>6. Tail(Lap(q, r, c))[i] = Lap(q, r, c)[i + 1] BY <1>1, <1>2, <1>4
  <2> QED BY <2>4, <2>5, <2>6
<1> HIDE DEF s
<1>8. Lap(q, s, c - 1) = Tail(Lap(q, r, c)) BY <1>3, <1>5, <1>7
<1> QED BY <1>4, <1>6, <1>8 DEF s

\* A store is an enqueue of the FIFO channel.
LEMMA StoreEnqueues ==
  ASSUME TypeInv, RingConsistent, NEW t \in Threads, NEW v \in Values, Store(t, v)
  PROVE  Fifo!Enqueue(v)
<1> DEFINE V == Values \cup {NoValue}
<1>1. queue \in [Slots -> V] /\ curRd \in Slots /\ count \in Slots /\ count \in 0 .. QLen
  BY QueueAssumption DEF TypeInv, TypeOK, Store, Slots
<1>2. Contents = Lap(queue, curRd, count) /\ Contents' = Lap(queue', curRd, count + 1)
  BY DEF Contents, Lap, Store
<1>3. queue' = [queue EXCEPT ![(curRd + count) % QLen] = v]
  BY DEF RingConsistent, Store
<1>4. Lap([queue EXCEPT ![(curRd + count) % QLen] = v], curRd, count + 1)
        = Append(Lap(queue, curRd, count), v)
  <2>1. v \in V OBVIOUS
  <2> HIDE DEF V
  <2> QED BY ONLY <1>1, <2>1, LapAppend, ZenonT(120)
<1>5. Len(Contents) < QLen BY <1>1, <1>2, LapSeq DEF Store
<1>6. Contents' = Append(Contents, v) BY <1>2, <1>3, <1>4
<1> QED BY <1>5, <1>6 DEF Fifo!Enqueue, Store

\* A fetch is a dequeue of the FIFO channel.
LEMMA FetchDequeues ==
  ASSUME TypeInv, NEW t \in Threads, Fetch(t)
  PROVE  Fifo!Dequeue(t)
<1> DEFINE V == Values \cup {NoValue}
<1>1. queue \in [Slots -> V] /\ curRd \in Slots /\ count \in 0 .. QLen /\ count > 0
  BY DEF TypeInv, TypeOK, Fetch
<1>2. Contents = Lap(queue, curRd, count)
      /\ Contents' = Lap(queue, (curRd + 1) % QLen, count - 1)
  BY DEF Contents, Lap, Fetch
<1>3. Contents # <<>> /\ Head(Contents) = queue[curRd] /\ Contents' = Tail(Contents)
  BY <1>1, <1>2, LapTail
<1> QED BY <1>3 DEF Fifo!Dequeue, Fetch

\* A peek is a peek of the FIFO channel.
LEMMA PeekPeeks ==
  ASSUME TypeInv, NEW t \in Threads, Peek(t)
  PROVE  Fifo!Peek(t)
<1> DEFINE V == Values \cup {NoValue}
<1>1. queue \in [Slots -> V] /\ curRd \in Slots /\ count \in 0 .. QLen /\ count > 0
  BY DEF TypeInv, TypeOK, Peek
<1>2. Contents = Lap(queue, curRd, count) /\ Contents' = Contents
  BY DEF Contents, Lap, Peek
<1>3. Contents # <<>> /\ Head(Contents) = queue[curRd]
  BY <1>1, <1>2, LapTail
<1> QED BY <1>2, <1>3 DEF Fifo!Peek, Peek

\* Every step of the ring is a step of the FIFO channel or leaves it alone.
LEMMA FifoStep ==
  TypeInv /\ RingConsistent /\ [Next]_vars => [Fifo!Next]_(Fifo!fifoVars)
<1> SUFFICES ASSUME TypeInv, RingConsistent, [Next]_vars
             PROVE  Fifo!Next \/ UNCHANGED Fifo!fifoVars
  OBVIOUS
<1>1. CASE UNCHANGED vars
  BY <1>1 DEF vars, Fifo!fifoVars, Contents
<1>2. ASSUME NEW t \in Threads, NEW v, BlockPut(t, v) PROVE UNCHANGED Fifo!fifoVars
  BY <1>2 DEF BlockPut, Fifo!fifoVars, Contents
<1>3. ASSUME NEW t \in Threads, BlockGet(t) PROVE UNCHANGED Fifo!fifoVars
  BY <1>3 DEF BlockGet, Fifo!fifoVars, Contents
<1>4. ASSUME NEW t \in Threads, Put(t) PROVE Fifo!Next \/ UNCHANGED Fifo!fifoVars
  BY <1>2, <1>4, StoreEnqueues DEF Put, Fifo!Next
<1>5. ASSUME NEW t \in Threads, PutResume(t) PROVE Fifo!Next \/ UNCHANGED Fifo!fifoVars
  <2>1. arg[t] \in Values BY <1>5 DEF PutResume, TypeInv, WaitingArgs
  <2> QED BY <1>2, <1>5, <2>1, StoreEnqueues DEF PutResume, Fifo!Next
<1>6. ASSUME NEW t \in Threads, Get(t) \/ GetResume(t)
      PROVE  Fifo!Next \/ UNCHANGED Fifo!fifoVars
  BY <1>3, <1>6, FetchDequeues DEF Get, GetResume, Fifo!Next
<1>7. ASSUME NEW t \in Threads, Peek(t) PROVE Fifo!Next
  BY <1>7, PeekPeeks DEF Fifo!Next
<1>8. ASSUME NEW t \in Threads, SpuriousWakeup(t) PROVE UNCHANGED Fifo!fifoVars
  BY <1>8 DEF SpuriousWakeup, Fifo!fifoVars, Contents
<1> QED BY <1>1, <1>4, <1>5, <1>6, <1>7, <1>8 DEF Next, Step

\* The empty ring is the empty channel.
LEMMA FifoInit == Init => Fifo!Init
<1> SUFFICES ASSUME Init PROVE Fifo!Init
  OBVIOUS
<1>1. Contents = <<>> BY DEF Init, Contents
<1> QED BY <1>1 DEF Init, Fifo!Init

\* The ring of osa_que.c is a bounded FIFO channel: nothing put is lost,
\* duplicated or reordered, whatever the threads and the length.
THEOREM ImplementsFifo == Spec => FifoSpec
<1>1. Init => TypeInv /\ RingConsistent BY TypeInit, RingInit
<1>2. TypeInv /\ RingConsistent /\ [Next]_vars => (TypeInv /\ RingConsistent)'
  BY TypeStep, RingStep
<1> QED BY <1>1, <1>2, FifoInit, FifoStep, PTL DEF Spec, FifoSpec, Fifo!Spec
=============================================================================
