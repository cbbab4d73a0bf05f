------------------------------ MODULE EventFifo ------------------------------
(***************************************************************************)
(* What kernel/interface/events.c promises (docs/UI_EVENTS.md): a bounded  *)
(* first-in first-out queue. An event pushed into a full queue is dropped  *)
(* and counted; every other event is polled exactly once, in push order.   *)
(***************************************************************************)
EXTENDS Integers, Sequences

CONSTANTS
  Events,          \* what may be pushed
  Capacity,        \* events the queue holds
  CounterModulus   \* the dropped counter is a u32

VARIABLES
  pending,   \* the queued events, oldest first
  dropped    \* hnm_ui_event_dropped

fifoVars == <<pending, dropped>>

FifoInit ==
  /\ pending = <<>>
  /\ dropped = 0

IsFull == Len(pending) = Capacity

Push(event) ==
  IF IsFull
    THEN /\ dropped' = (dropped + 1) % CounterModulus
         /\ UNCHANGED pending
    ELSE /\ pending' = Append(pending, event)
         /\ UNCHANGED dropped

(* The caller is given Head(pending). *)
Poll ==
  /\ pending # <<>>
  /\ pending' = Tail(pending)
  /\ UNCHANGED dropped

FifoNext == Poll \/ \E event \in Events : Push(event)

FifoSpec == FifoInit /\ [][FifoNext]_fifoVars
=============================================================================
