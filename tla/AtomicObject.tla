---------------------------- MODULE AtomicObject ----------------------------
(***************************************************************************)
(* What docs/SYSTEM_SYNC.md promises of a record that several processors   *)
(* update under one lock: an operation takes effect all at once, at some   *)
(* moment between its call and its return, and what it gives to the caller *)
(* is the record of that moment.                                           *)
(***************************************************************************)
CONSTANTS
  Callers,
  Ops,
  Reading,      \* the operations that return the record
  Zero,         \* the record at first, and a result that was not given
  After(_, _)   \* the record after an operation, from the record before

VARIABLES
  record,
  phase,    \* of each caller: "idle", "called" or "done"
  call,     \* the operation it is in
  result    \* the record that it is given

objectVars == <<record, phase, call, result>>

ObjectInit ==
  /\ record = Zero
  /\ phase = [c \in Callers |-> "idle"]
  /\ call = [c \in Callers |-> "none"]
  /\ result = [c \in Callers |-> Zero]

Begin(c) ==
  /\ phase[c] = "idle"
  /\ phase' = [phase EXCEPT ![c] = "called"]
  /\ \E o \in Ops : call' = [call EXCEPT ![c] = o]
  /\ UNCHANGED <<record, result>>

TakeEffect(c) ==
  /\ phase[c] = "called"
  /\ phase' = [phase EXCEPT ![c] = "done"]
  /\ record' = After(call[c], record)
  /\ result' = IF call[c] \in Reading THEN [result EXCEPT ![c] = record'] ELSE result
  /\ UNCHANGED call

Return(c) ==
  /\ phase[c] = "done"
  /\ phase' = [phase EXCEPT ![c] = "idle"]
  /\ call' = [call EXCEPT ![c] = "none"]
  /\ result' = [result EXCEPT ![c] = Zero]
  /\ UNCHANGED record

ObjectNext == \E c \in Callers : Begin(c) \/ TakeEffect(c) \/ Return(c)

ObjectSpec == ObjectInit /\ [][ObjectNext]_objectVars
=============================================================================
