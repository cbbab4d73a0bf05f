------------------------------ MODULE AiRequest ------------------------------
(***************************************************************************)
(* What kernel/ai/ai_bridge.c promises its callers: one slot that holds    *)
(* the last request. How an answer gets there is AiBridge's matter; the    *)
(* screens see a request that runs until it is answered, cancelled or      *)
(* replaced by the next one.                                               *)
(***************************************************************************)
EXTENDS Integers

CONSTANTS
  MaxTasks,      \* bound on the task ids given out
  AnswerLengths  \* how long the answers of the host may be

ASSUME RequestAssumption == MaxTasks \in Nat /\ AnswerLengths \subseteq Nat

VARIABLES
  request,       \* hnm_ai_last_task; answer: the length of the host's answer
  nextId         \* hnm_ai_next_task_id

requestVars == <<request, nextId>>

Request(id, type, status, answer) ==
  [id |-> id, type |-> type, status |-> status, answer |-> answer]

RequestInit ==
  /\ request = Request(0, "NONE", "EMPTY", 0)
  /\ nextId = 1

(* hnm_ai_task_prepare gives every request an id of its own. *)
Prepare(type, status) ==
  /\ nextId <= MaxTasks
  /\ request' = Request(nextId, type, status, 0)
  /\ nextId' = nextId + 1

(* hnm_ai_bridge_submit of a HNLANG task *)
SubmitRequest == Prepare("HNLANG", "RUNNING")

(* hnm_ai_bridge_request_help and its like: the stub provider answers at once. *)
RequestLocally == Prepare("LOCAL", "DONE")

(* hnm_ai_bridge_cancel *)
CancelRequest ==
  /\ request.status = "RUNNING"
  /\ request' = [request EXCEPT !.status = "CANCELLED"]
  /\ UNCHANGED nextId

(* hnm_ai_bridge_poll *)
AnswerRequest ==
  /\ request.status = "RUNNING"
  /\ \E status \in {"DONE", "ERROR"}, length \in AnswerLengths :
       request' = [request EXCEPT !.status = status, !.answer = length]
  /\ UNCHANGED nextId

RequestNext == SubmitRequest \/ RequestLocally \/ CancelRequest \/ AnswerRequest

RequestSpec == RequestInit /\ [][RequestNext]_requestVars

RequestTypeOK ==
  /\ request \in [id : 0 .. MaxTasks, type : {"NONE", "HNLANG", "LOCAL"},
                  status : {"EMPTY", "RUNNING", "DONE", "ERROR", "CANCELLED"},
                  answer : AnswerLengths \cup {0}]
  /\ nextId \in 1 .. (MaxTasks + 1)
=============================================================================
