-------------------------- MODULE EventQueueProofs --------------------------
(***************************************************************************)
(* Proofs about EventQueue for every ring size, every counter width and    *)
(* every set of events: the ring implements the bounded queue of EventFifo.*)
(***************************************************************************)
EXTENDS EventQueue, SequenceTheorems, TLAPS

(* The abstract queue the refinement mapping reads off the ring.           *)
Pending == [i \in 1 .. PendingCount |-> Queued[i].event]

-----------------------------------------------------------------------------
LEMMA NextSlot ==
  ASSUME NEW s \in Slots
  PROVE  /\ Next(s) \in Slots
         /\ Next(s) = IF s = QueueSize - 1 THEN 0 ELSE s + 1
  BY QueueAssumption DEF Slots, Next

LEMMA IncType == ASSUME NEW n \in Counter PROVE Inc(n) \in Counter
  BY QueueAssumption DEF Counter, Inc

(* The ring is full when all slots but one are used.                       *)
LEMMA PendingBounds ==
  ASSUME head \in Slots, tail \in Slots
  PROVE  /\ PendingCount \in 0 .. (QueueSize - 1)
         /\ head = (tail + PendingCount) % QueueSize
         /\ IsFull <=> PendingCount = QueueSize - 1
         /\ head = tail <=> PendingCount = 0
<1>1. /\ PendingCount \in 0 .. (QueueSize - 1)
      /\ head = (tail + PendingCount) % QueueSize
      /\ head = tail <=> PendingCount = 0
  BY QueueAssumption DEF Slots, PendingCount
<1>2. IsFull <=> PendingCount = QueueSize - 1
  BY NextSlot, QueueAssumption DEF Slots, PendingCount, IsFull
<1>3. QED
  BY <1>1, <1>2

LEMMA TypeInit == Init => TypeOK
<1> SUFFICES ASSUME Init PROVE TypeOK
  OBVIOUS
<1>1. 0 \in Slots /\ 0 \in Counter
  BY QueueAssumption DEF Slots, Counter
<1>2. QED
  BY <1>1 DEF Init, TypeOK

LEMMA TypeStep == TypeOK /\ [QueueNext]_queueVars => TypeOK'
<1> SUFFICES ASSUME TypeOK, [QueueNext]_queueVars PROVE TypeOK'
  OBVIOUS
<1>1. CASE UNCHANGED queueVars
  BY <1>1 DEF queueVars, TypeOK
<1>2. CASE Poll
  BY <1>2, NextSlot DEF Poll, TypeOK
<1>3. ASSUME NEW event \in Events, Push(event) PROVE TypeOK'
  BY <1>3, NextSlot, IncType DEF Push, TypeOK, Stamped
<1>4. QED
  BY <1>1, <1>2, <1>3 DEF QueueNext

(* Every variable of events.c keeps its type; head and tail stay slots.    *)
THEOREM TypeCorrect == Spec => []TypeOK
<1>1. QED
  BY TypeInit, TypeStep, PTL DEF Spec

-----------------------------------------------------------------------------
(* Append and Tail of a sequence given by its elements.                    *)
LEMMA FunctionIsSeq ==
  ASSUME NEW m \in Nat, NEW S, NEW f \in [1 .. m -> S]
  PROVE  f \in Seq(S) /\ Len(f) = m
  OBVIOUS

LEMMA AppendByElements ==
  ASSUME NEW n \in Nat, NEW p, NEW q, NEW e,
         p = [i \in 1 .. n |-> p[i]],
         q = [i \in 1 .. (n + 1) |-> IF i = n + 1 THEN e ELSE p[i]]
  PROVE  q = Append(p, e)
<1> DEFINE S == {p[i] : i \in 1 .. n} \cup {e}
<1>1. p \in Seq(S) /\ Len(p) = n
  OBVIOUS
<1>2. q \in Seq(S) /\ Len(q) = n + 1
  <2>1. \A i \in 1 .. (n + 1) : q[i] \in S
    OBVIOUS
  <2>2. q \in [1 .. (n + 1) -> S]
    BY <2>1
  <2>3. QED
    BY <2>2
<1>3. e \in S
  OBVIOUS
<1> HIDE DEF S
<1>4. /\ Append(p, e) \in Seq(S)
      /\ Len(Append(p, e)) = n + 1
      /\ \A i \in 1 .. n : Append(p, e)[i] = p[i]
      /\ Append(p, e)[n + 1] = e
  BY <1>1, <1>3, AppendProperties
<1>5. ASSUME NEW i \in 1 .. (n + 1) PROVE q[i] = Append(p, e)[i]
  <2>1. CASE i = n + 1
    BY <1>4, <2>1
  <2>2. CASE i # n + 1
    <3>1. i \in 1 .. n
      BY <2>2
    <3>2. q[i] = p[i]
      BY <2>2
    <3>3. QED
      BY <1>4, <3>1, <3>2
  <2>3. QED
    BY <2>1, <2>2
<1>6. QED
  BY <1>2, <1>4, <1>5, SeqEqual

LEMMA TailByElements ==
  ASSUME NEW n \in Nat, NEW p, NEW q,
         p = [i \in 1 .. (n + 1) |-> p[i]],
         q = [i \in 1 .. n |-> p[i + 1]]
  PROVE  p # <<>> /\ q = Tail(p)
<1> DEFINE S == {p[i] : i \in 1 .. (n + 1)}
<1>1. p \in Seq(S) /\ Len(p) = n + 1
  <2>1. p \in [1 .. (n + 1) -> S]
    OBVIOUS
  <2>2. n + 1 \in Nat
    OBVIOUS
  <2>3. QED
    BY ONLY <2>1, <2>2, FunctionIsSeq
<1>2. q \in Seq(S) /\ Len(q) = n
  <2>1. \A i \in 1 .. n : q[i] \in S
    OBVIOUS
  <2>2. q \in [1 .. n -> S]
    BY <2>1
  <2>3. n \in Nat
    OBVIOUS
  <2>4. QED
    BY ONLY <2>2, <2>3, FunctionIsSeq
<1> HIDE DEF S
<1>3. p # <<>>
  BY <1>1
<1>4. /\ Tail(p) \in Seq(S)
      /\ Len(Tail(p)) = n
      /\ \A i \in 1 .. n : Tail(p)[i] = p[i + 1]
  BY <1>1, <1>3, HeadTailProperties
<1>5. QED
  BY <1>2, <1>3, <1>4, SeqEqual

(* Slot arithmetic without the remainder.                                  *)
LEMMA SlotOf ==
  ASSUME NEW k \in 0 .. (2 * QueueSize - 1)
  PROVE  k % QueueSize = IF k < QueueSize THEN k ELSE k - QueueSize
  BY QueueAssumption

(* A push into a ring that is not full leaves the queued slots as they are *)
(* and fills the one after them.                                           *)
LEMMA PushSlots ==
  ASSUME TypeOK, NEW event \in Events, Push(event), ~IsFull
  PROVE  /\ PendingCount \in Nat
         /\ PendingCount' = PendingCount + 1
         /\ \A i \in 1 .. PendingCount : QueuedAt(i)' = QueuedAt(i)
         /\ \A i \in Nat : i = PendingCount + 1 =>
              QueuedAt(i)' = [event |-> event, sequence |-> sequence]
<1>t. head \in Slots /\ tail \in Slots /\ slots \in [Slots -> Stamped \cup {NoEvent}]
  BY DEF TypeOK
<1>1. /\ PendingCount \in Nat
      /\ PendingCount < QueueSize - 1
      /\ head = (tail + PendingCount) % QueueSize
  BY <1>t, PendingBounds, QueueAssumption
<1>2. tail' = tail /\ head' = Next(head)
  BY DEF Push
<1>3. PendingCount' = PendingCount + 1
  <2>1. head' = IF head = QueueSize - 1 THEN 0 ELSE head + 1
    BY <1>t, <1>2, NextSlot
  <2>2. head' # tail
    BY <1>2 DEF IsFull
  <2>3. QED
    BY <1>t, <1>2, <2>1, <2>2, QueueAssumption DEF PendingCount, Slots
<1>4. ASSUME NEW i \in 1 .. PendingCount
      PROVE  QueuedAt(i)' = QueuedAt(i)
  <2>1. (tail + i - 1) % QueueSize # head
    <3>1. head = IF tail + PendingCount < QueueSize THEN tail + PendingCount
                                         ELSE tail + PendingCount - QueueSize
      <4>1. tail + PendingCount \in 0 .. (2 * QueueSize - 1)
        BY <1>t, <1>1, QueueAssumption DEF Slots
      <4>2. QED
        BY <1>t, <1>1, <4>1, QueueAssumption DEF Slots
    <3>2. (tail + i - 1) % QueueSize = IF tail + i - 1 < QueueSize
                                       THEN tail + i - 1
                                       ELSE tail + i - 1 - QueueSize
      <4>1. tail + i - 1 \in 0 .. (2 * QueueSize - 1)
        BY <1>t, <1>1, QueueAssumption DEF Slots
      <4>2. QED
        BY <1>t, <1>1, <4>1, QueueAssumption DEF Slots
    <3>3. QED
      BY <1>t, <1>1, <3>1, <3>2, QueueAssumption DEF Slots
  <2>2. (tail + i - 1) % QueueSize \in Slots
    BY <1>t, <1>1, QueueAssumption DEF Slots
  <2>3. QED
    BY <1>t, <1>2, <2>1, <2>2 DEF QueuedAt, Push
<1>5. ASSUME NEW i \in Nat, i = PendingCount + 1
      PROVE  QueuedAt(i)' = [event |-> event, sequence |-> sequence]
  <2>1. (tail + i - 1) % QueueSize = head
    BY <1>t, <1>1, <1>5, QueueAssumption DEF Slots
  <2>2. slots'[head] = [event |-> event, sequence |-> sequence]
    BY <1>t DEF Push
  <2>3. QED
    BY <1>2, <2>1, <2>2 DEF QueuedAt
<1>6. QED
  BY <1>1, <1>3, <1>4, <1>5

(* So the queue is appended to. *)
LEMMA PushAppends ==
  ASSUME TypeOK, NEW event \in Events, Push(event), ~IsFull
  PROVE  Pending' = Append(Pending, event)
<1>1. PendingCount \in Nat
  BY PushSlots
<1>2. Pending' = [i \in 1 .. (PendingCount + 1) |->
                    IF i = PendingCount + 1 THEN event ELSE Pending[i]]
  BY <1>1, PushSlots DEF Pending, Queued
<1>3. Pending = [i \in 1 .. PendingCount |-> Pending[i]]
  BY DEF Pending
<1>4. QED
  BY <1>1, <1>2, <1>3, AppendByElements

(* A poll moves every queued event one place forward. *)
LEMMA PollSlots ==
  ASSUME TypeOK, Poll
  PROVE  /\ PendingCount \in Nat /\ PendingCount - 1 \in Nat
         /\ PendingCount' = PendingCount - 1
         /\ \A i \in 1 .. (PendingCount - 1) : QueuedAt(i)' = QueuedAt(i + 1)
<1>t. head \in Slots /\ tail \in Slots
  BY DEF TypeOK
<1>1. PendingCount \in Nat /\ PendingCount - 1 \in Nat /\ PendingCount < QueueSize
  BY <1>t, PendingBounds, QueueAssumption DEF Poll
<1>2. tail' = Next(tail) /\ head' = head /\ slots' = slots
  BY DEF Poll
<1>3. tail' = IF tail = QueueSize - 1 THEN 0 ELSE tail + 1
  BY <1>t, <1>2, NextSlot
<1>4. PendingCount' = PendingCount - 1
  BY <1>t, <1>2, <1>3, QueueAssumption DEF PendingCount, Slots, Poll
<1>5. ASSUME NEW i \in 1 .. (PendingCount - 1)
      PROVE  QueuedAt(i)' = QueuedAt(i + 1)
  <2>1. (tail + i) % QueueSize = IF tail + i < QueueSize
                                   THEN tail + i ELSE tail + i - QueueSize
    BY <1>t, <1>1, SlotOf, QueueAssumption DEF Slots
  <2>2. (tail' + i - 1) % QueueSize = IF tail' + i - 1 < QueueSize
                                      THEN tail' + i - 1
                                      ELSE tail' + i - 1 - QueueSize
    BY <1>t, <1>1, <1>3, SlotOf, QueueAssumption DEF Slots
  <2>3. (tail' + i - 1) % QueueSize = (tail + i) % QueueSize
    BY <1>t, <1>1, <1>3, <2>1, <2>2, QueueAssumption DEF Slots
  <2>4. tail + (i + 1) - 1 = tail + i
    BY <1>t, QueueAssumption DEF Slots
  <2>5. QED
    BY <1>2, <2>3, <2>4 DEF QueuedAt
<1>6. QED
  BY <1>1, <1>4, <1>5

(* So the oldest event is removed. *)
LEMMA PollTakesHead ==
  ASSUME TypeOK, Poll
  PROVE  Pending # <<>> /\ Pending' = Tail(Pending)
<1>1. PendingCount - 1 \in Nat /\ PendingCount \in Nat
  BY PollSlots
<1>2. Pending' = [i \in 1 .. (PendingCount - 1) |-> Pending[i + 1]]
  BY <1>1, PollSlots DEF Pending, Queued
<1>3. Pending = [i \in 1 .. ((PendingCount - 1) + 1) |-> Pending[i]]
  BY <1>1 DEF Pending
<1>4. QED
  BY <1>1, <1>2, <1>3, TailByElements

LEMMA PendingLength == ASSUME TypeOK PROVE Len(Pending) = PendingCount
<1>1. PendingCount \in Nat
  BY PendingBounds, QueueAssumption DEF TypeOK
<1>2. QED
  BY <1>1 DEF Pending

-----------------------------------------------------------------------------
(* The ring of events.c implements the bounded first-in first-out queue:   *)
(* an accepted event is polled exactly once and in push order, and the     *)
(* only events lost are the counted ones, pushed into a full queue.        *)
THEOREM RingImplementsFifo == Spec => ImplementsFifo
<1>1. Init => Fifo!FifoInit
  <2> SUFFICES ASSUME Init PROVE Fifo!FifoInit
    OBVIOUS
  <2>1. PendingCount = 0
    BY DEF Init, PendingCount
  <2>2. Pending = <<>>
    BY <2>1 DEF Pending
  <2>3. QED
    BY <2>2 DEF Init, Pending, Fifo!FifoInit
<1>2. TypeOK /\ [QueueNext]_queueVars => [Fifo!FifoNext]_(Fifo!fifoVars)
  <2> SUFFICES ASSUME TypeOK, [QueueNext]_queueVars
               PROVE  [Fifo!FifoNext]_(Fifo!fifoVars)
    OBVIOUS
  <2>1. CASE UNCHANGED queueVars
    BY <2>1 DEF queueVars, Fifo!fifoVars, PendingCount, Queued, QueuedAt
  <2>2. CASE Poll
    <3>1. dropped' = dropped
      BY <2>2 DEF Poll
    <3>2. Fifo!Poll
      BY <2>2, <3>1, PollTakesHead DEF Fifo!Poll, Pending
    <3>3. QED
      BY <3>2 DEF Fifo!FifoNext
  <2>3. ASSUME NEW event \in Events, Push(event) PROVE Fifo!Push(event)
    <3>1. Fifo!IsFull <=> IsFull
      BY PendingLength, PendingBounds DEF TypeOK, Fifo!IsFull, Pending
    <3>2. CASE IsFull
      <4>1. Pending' = Pending /\ dropped' = (dropped + 1) % CounterModulus
        BY <2>3, <3>2 DEF Push, Inc, Pending, PendingCount, Queued, QueuedAt
      <4>2. QED
        BY <3>1, <3>2, <4>1 DEF Fifo!Push, Pending
    <3>3. CASE ~IsFull
      <4>1. dropped' = dropped
        BY <2>3, <3>3 DEF Push
      <4>2. QED
        BY <2>3, <3>1, <3>3, <4>1, PushAppends DEF Fifo!Push, Pending
    <3>4. QED
      BY <3>2, <3>3
  <2>4. QED
    BY <2>1, <2>2, <2>3 DEF QueueNext, Fifo!FifoNext
<1>3. QED
  BY <1>1, <1>2, TypeCorrect, PTL DEF Spec, ImplementsFifo, Fifo!FifoSpec

-----------------------------------------------------------------------------
(* Remainders. *)
LEMMA DivMod ==
  ASSUME NEW m \in Nat \ {0}, NEW x \in Nat
  PROVE  \E q \in Nat, r \in 0 .. (m - 1) : x = m * q + r /\ x % m = r
<1>1. /\ x = m * (x \div m) + (x % m)
      /\ x % m \in 0 .. (m - 1)
      /\ x \div m \in Nat
  OBVIOUS
<1>2. QED
  BY <1>1

LEMMA ModOf ==
  ASSUME NEW m \in Nat \ {0}, NEW q \in Nat, NEW r \in 0 .. (m - 1)
  PROVE  (m * q + r) % m = r
  OBVIOUS

LEMMA ModSucc ==
  ASSUME NEW m \in Nat \ {0}, NEW x \in Nat
  PROVE  (x + 1) % m = ((x % m) + 1) % m
<1>1. PICK q \in Nat, r \in 0 .. (m - 1) : x = m * q + r /\ x % m = r
  BY DivMod
<1>2. CASE r < m - 1
  <2>1. r + 1 \in 0 .. (m - 1) /\ x + 1 = m * q + (r + 1)
    BY <1>1, <1>2
  <2>2. (x + 1) % m = r + 1
    BY <2>1, ModOf
  <2>3. (r + 1) % m = r + 1
    BY <2>1
  <2>4. QED
    BY <1>1, <2>2, <2>3
<1>3. CASE r = m - 1
  <2>1. x + 1 = m * (q + 1) + 0
    BY <1>1, <1>3
  <2>2. (x + 1) % m = 0
    <3>1. q + 1 \in Nat /\ 0 \in 0 .. (m - 1)
      OBVIOUS
    <3>2. QED
      BY ONLY <2>1, <3>1, ModOf, m \in Nat \ {0}
  <2>3. (r + 1) % m = 0
    BY <1>3
  <2>4. QED
    BY <1>1, <2>2, <2>3
<1>4. QED
  BY <1>2, <1>3

-----------------------------------------------------------------------------
(* hnm_ui_event_recent never lags behind the queue: it gives the event     *)
(* that was queued last, also after the ring has wrapped or dropped.       *)
THEOREM RecentNeverStale == Spec => []RecentIsNewest
<1>1. Init => RecentIsNewest
  BY DEF Init, RecentIsNewest, PendingCount
<1>2. TypeOK /\ RecentIsNewest /\ [QueueNext]_queueVars => RecentIsNewest'
  <2> SUFFICES ASSUME TypeOK, RecentIsNewest, [QueueNext]_queueVars
               PROVE  RecentIsNewest'
    OBVIOUS
  <2>1. CASE UNCHANGED queueVars
    BY <2>1 DEF queueVars, RecentIsNewest, PendingCount, Queued, QueuedAt
  <2>2. CASE Poll
    <3>1. ASSUME PendingCount' > 0 PROVE recent' = Queued[PendingCount]
      BY <2>2, <3>1, PollSlots DEF Poll, RecentIsNewest
    <3>2. ASSUME PendingCount' > 0
          PROVE  Queued'[PendingCount'] = Queued[PendingCount]
      BY <2>2, <3>2, PollSlots DEF Queued
    <3>3. QED
      BY <3>1, <3>2 DEF RecentIsNewest
  <2>3. ASSUME NEW event \in Events, Push(event) PROVE RecentIsNewest'
    <3>1. CASE IsFull
      BY <2>3, <3>1 DEF Push, RecentIsNewest, PendingCount, Queued, QueuedAt
    <3>2. CASE ~IsFull
      <4>1. recent' = [event |-> event, sequence |-> sequence]
        BY <2>3, <3>2 DEF Push
      <4>2. Queued'[PendingCount'] = [event |-> event, sequence |-> sequence]
        BY <2>3, <3>2, PushSlots DEF Queued
      <4>3. QED
        BY <4>1, <4>2 DEF RecentIsNewest
    <3>3. QED
      BY <3>1, <3>2
  <2>4. QED
    BY <2>1, <2>2, <2>3 DEF QueueNext
<1>3. QED
  BY <1>1, <1>2, TypeCorrect, PTL DEF Spec

(* Every queued event has a stamp of the counter's range. *)
StampsTyped == \A i \in 1 .. PendingCount : Queued[i].sequence \in Counter

StampsInv == StampsTyped /\ StampsConsecutive

LEMMA StampsStep ==
  TypeOK /\ StampsInv /\ [QueueNext]_queueVars => StampsInv'
<1> SUFFICES ASSUME TypeOK, StampsInv, [QueueNext]_queueVars PROVE StampsInv'
  OBVIOUS
<1> USE DEF StampsInv
<1>1. CASE UNCHANGED queueVars
  BY <1>1 DEF queueVars, StampsTyped, StampsConsecutive, PendingCount, Queued,
              QueuedAt
<1>2. CASE Poll
  <2>1. sequence' = sequence
    BY <1>2 DEF Poll
  <2>2. ASSUME NEW i \in 1 .. PendingCount'
        PROVE  /\ i + 1 \in 1 .. PendingCount
               /\ Queued'[i] = Queued[i + 1]
               /\ PendingCount' - i = PendingCount - (i + 1)
    BY <1>2, <2>2, PollSlots DEF Queued
  <2>3. QED
    BY <2>1, <2>2 DEF StampsTyped, StampsConsecutive
<1>3. ASSUME NEW event \in Events, Push(event) PROVE StampsInv'
  <2>1. CASE IsFull
    BY <1>3, <2>1 DEF Push, StampsTyped, StampsConsecutive, PendingCount,
                      Queued, QueuedAt
  <2>2. CASE ~IsFull
    <3>1. sequence' = (sequence + 1) % CounterModulus /\ sequence \in Counter
      BY <1>3, <2>2 DEF Push, Inc, TypeOK
    <3>2. PendingCount \in Nat /\ PendingCount' = PendingCount + 1
      BY <1>3, <2>2, PushSlots
    <3>3. ASSUME NEW i \in 1 .. PendingCount
          PROVE  /\ Queued'[i].sequence \in Counter
                 /\ (Queued'[i].sequence + (PendingCount' - i) + 1)
                      % CounterModulus = sequence'
      <4> DEFINE x == Queued[i].sequence + (PendingCount - i) + 1
      <4>1. Queued'[i] = Queued[i]
        BY <1>3, <2>2, <3>2, PushSlots DEF Queued
      <4>2. Queued[i].sequence \in Counter /\ x % CounterModulus = sequence
        BY DEF StampsTyped, StampsConsecutive
      <4>3. /\ x \in Nat
            /\ Queued'[i].sequence + (PendingCount' - i) + 1 = x + 1
        BY <3>2, <4>1, <4>2, QueueAssumption DEF Counter
      <4> HIDE DEF x
      <4>4. (x + 1) % CounterModulus = ((x % CounterModulus) + 1) % CounterModulus
        BY <4>3, ModSucc, QueueAssumption
      <4>5. QED
        BY <3>1, <4>1, <4>2, <4>3, <4>4
    <3>4. ASSUME NEW i \in Nat, i = PendingCount + 1
          PROVE  /\ Queued'[i].sequence \in Counter
                 /\ (Queued'[i].sequence + (PendingCount' - i) + 1)
                      % CounterModulus = sequence'
      <4>1. Queued'[i].sequence = sequence
        BY <1>3, <2>2, <3>2, <3>4, PushSlots DEF Queued
      <4>2. sequence + (PendingCount' - i) + 1 = sequence + 1
        BY <3>1, <3>2, <3>4, QueueAssumption DEF Counter
      <4>3. QED
        BY <3>1, <4>1, <4>2
    <3>5. \A i \in 1 .. PendingCount' : i \in 1 .. PendingCount \/ i = PendingCount + 1
      BY <3>2
    <3>6. QED
      BY <3>2, <3>3, <3>4, <3>5 DEF StampsTyped, StampsConsecutive
  <2>3. QED
    BY <2>1, <2>2
<1>4. QED
  BY <1>1, <1>2, <1>3 DEF QueueNext

(* The stamps of the queued events are consecutive across every wrap of    *)
(* the ring and of the 32-bit counter, and no drop leaves a gap in them.   *)
THEOREM StampsHaveNoGap == Spec => []StampsConsecutive
<1>1. Init => StampsInv
  BY DEF Init, StampsInv, StampsTyped, StampsConsecutive, PendingCount
<1>2. QED
  BY <1>1, StampsStep, TypeCorrect, PTL DEF Spec, StampsInv
=============================================================================
