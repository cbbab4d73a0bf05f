----------------------------- MODULE EventQueue -----------------------------
(***************************************************************************)
(* The UI event queue of kernel/interface/events.c: a ring of QueueSize    *)
(* slots, one of which stays empty so that head = tail means empty.        *)
(*                                                                         *)
(* Pushes come from the keyboard and mouse interrupt handlers, polls from  *)
(* the main loop with interrupts off, so each runs as one step.            *)
(***************************************************************************)
EXTENDS Integers, Sequences

CONSTANTS
  Events,          \* event payloads: type, key, button, position
  QueueSize,       \* HNM_UI_EVENT_QUEUE_SIZE, 128 in the kernel
  CounterModulus   \* sequence and dropped are u32: 2^32 in the kernel

ASSUME QueueAssumption ==
  /\ QueueSize \in Nat \ {0, 1}
  /\ CounterModulus \in Nat \ {0, 1}
  /\ Events # {}

VARIABLES
  slots,       \* hnm_ui_event_queue
  head,        \* hnm_ui_event_head: the slot the next push fills
  tail,        \* hnm_ui_event_tail: the slot the next poll reads
  sequence,    \* hnm_ui_event_sequence: the stamp of the next push
  dropped,     \* hnm_ui_event_dropped
  recent       \* hnm_ui_event_last, or NoEvent until hnm_ui_event_has_recent

queueVars == <<slots, head, tail, sequence, dropped, recent>>

-----------------------------------------------------------------------------
Slots == 0 .. (QueueSize - 1)

Counter == 0 .. (CounterModulus - 1)

Stamped == [event : Events, sequence : Counter]

NoEvent == [event |-> "none", sequence |-> 0]

(* Slips of the code, for the mutation runs, precede what they would replace. *)
NextUnwrapped(slot) == slot + 1

Next(slot) == (slot + 1) % QueueSize

Inc(n) == (n + 1) % CounterModulus

(* hnm_ui_event_pending_count *)
PendingCount ==
  IF head >= tail THEN head - tail ELSE (QueueSize - tail) + head

IsFullNever == FALSE

IsFull == Next(head) = tail

Init ==
  /\ slots = [s \in Slots |-> NoEvent]
  /\ head = 0
  /\ tail = 0
  /\ sequence = 0
  /\ dropped = 0
  /\ recent = NoEvent

PushStampingDropped(event) ==
  LET queued == [event |-> event, sequence |-> sequence]
  IN  /\ sequence' = Inc(sequence)
      /\ IF IsFull
           THEN /\ dropped' = Inc(dropped)
                /\ UNCHANGED <<slots, head, tail, recent>>
           ELSE /\ slots' = [slots EXCEPT ![head] = queued]
                /\ head' = Next(head)
                /\ recent' = queued
                /\ UNCHANGED <<tail, dropped>>

PushRecentDropped(event) ==
  LET queued == [event |-> event, sequence |-> sequence]
  IN  /\ recent' = queued
      /\ IF IsFull
           THEN /\ dropped' = Inc(dropped)
                /\ UNCHANGED <<slots, head, tail, sequence>>
           ELSE /\ sequence' = Inc(sequence)
                /\ slots' = [slots EXCEPT ![head] = queued]
                /\ head' = Next(head)
                /\ UNCHANGED <<tail, dropped>>

(* hnm_ui_event_push *)
Push(event) ==
  LET queued == [event |-> event, sequence |-> sequence]
  IN  IF IsFull
        THEN /\ dropped' = Inc(dropped)
             /\ UNCHANGED <<slots, head, tail, sequence, recent>>
        ELSE /\ sequence' = Inc(sequence)
             /\ slots' = [slots EXCEPT ![head] = queued]
             /\ head' = Next(head)
             /\ recent' = queued
             /\ UNCHANGED <<tail, dropped>>

(* hnm_ui_event_poll, which gives its caller slots[tail] *)
Poll ==
  /\ tail # head
  /\ tail' = Next(tail)
  /\ UNCHANGED <<slots, head, sequence, dropped, recent>>

QueueNext == Poll \/ \E event \in Events : Push(event)

Spec == Init /\ [][QueueNext]_queueVars

-----------------------------------------------------------------------------
TypeOK ==
  /\ slots \in [Slots -> Stamped \cup {NoEvent}]
  /\ head \in Slots
  /\ tail \in Slots
  /\ sequence \in Counter
  /\ dropped \in Counter
  /\ recent \in Stamped \cup {NoEvent}

(* The i-th oldest queued event, and all of them. *)
QueuedAt(i) == slots[(tail + i - 1) % QueueSize]

Queued == [i \in 1 .. PendingCount |-> QueuedAt(i)]

(* Stamps are given in queue order without gaps: a dropped event uses up   *)
(* no stamp, so the sequence numbers of the queued events are consecutive  *)
(* and end just before the next stamp, across the wrap of the ring and of  *)
(* the u32. (docs/UI_EVENTS.md: sequence is an increasing number.)         *)
StampsConsecutive ==
  \A i \in 1 .. PendingCount :
    (Queued[i].sequence + (PendingCount - i) + 1) % CounterModulus = sequence

(* hnm_ui_event_recent is the newest queued event as long as one is queued. *)
RecentIsNewest ==
  PendingCount > 0 => recent = Queued[PendingCount]

(* The ring implements the queue of EventFifo, whose capacity is one less  *)
(* than the number of slots; what is polled is the oldest event.           *)
Fifo == INSTANCE EventFifo WITH
          Capacity <- QueueSize - 1,
          pending  <- [i \in 1 .. PendingCount |-> Queued[i].event]

ImplementsFifo == Fifo!FifoSpec
=============================================================================
