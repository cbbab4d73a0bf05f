------------------------------ MODULE AiBridge ------------------------------
(***************************************************************************)
(* AI requests: kernel/ai/ai_bridge.c, its serial and stub providers, and   *)
(* the host bridge at the other end of COM2.                               *)
(*                                                                         *)
(* There is one task slot. The AI Studio submits HNLang requests to the    *)
(* serial provider; a terminal command takes the slot for a request that   *)
(* the stub provider answers at once. Cancelling is local: the host goes   *)
(* on and its answer arrives later. The main loop has interrupts off, so   *)
(* IRQ3 captures characters between its steps and never during a poll.     *)
(***************************************************************************)
EXTENDS SerialTransport

CONSTANTS
  MaxTasks,      \* bound on the task ids given out
  Prompts,       \* "text", and "blank" for a prompt of spaces
  Replies        \* what the host may answer: success, hexadecimal digits

ASSUME BridgeAssumption ==
  /\ MaxTasks \in Nat
  /\ Prompts \subseteq {"text", "blank"}
  /\ Replies \subseteq [ok : BOOLEAN, length : {n \in Nat : n % 2 = 0}]

VARIABLES
  task,          \* hnm_ai_last_task
  nextId,        \* hnm_ai_next_task_id
  provider,      \* hnm_ai_last_provider
  polling,       \* the loop of hnm_ai_serial_transport_poll runs
  outstanding,   \* frames the host has not handled, oldest first
  sent           \* history: the answer sent to the request in the task slot

bridgeVars == <<task, nextId, provider, polling, outstanding, sent>>
vars == <<transportVars, bridgeVars>>

Ids == 1 .. MaxTasks

Task(id, type, status, output) ==
  [id |-> id, type |-> type, status |-> status, output |-> output]

LocalText == <<>>    \* what the kernel itself writes into an output

Init ==
  /\ TransportInit
  /\ task = Task(0, "NONE", "EMPTY", LocalText)
  /\ nextId = 1
  /\ provider = "stub"
  /\ polling = FALSE
  /\ outstanding = <<>>
  /\ sent = <<>>

-----------------------------------------------------------------------------
(* hnm_ai_bridge_submit of a HNLANG task. No request is RUNNING then: see   *)
(* PromptIsAlone of Desktop.                                               *)
SubmitHnlang ==
  /\ ~polling
  /\ nextId \in Ids
  /\ task.status # "RUNNING"
  /\ task' = Task(nextId, "HNLANG", "RUNNING", LocalText)
  /\ nextId' = nextId + 1
  /\ provider' = "serial"
  /\ \E prompt \in Prompts :
       outstanding' = Append(outstanding, [id |-> nextId, prompt |-> prompt])
  /\ sent' = <<>>
  /\ UNCHANGED <<transportVars, polling>>

(* hnm_ai_bridge_request_*: submit, poll and result on the stub provider.  *)
RequestLocal ==
  /\ ~polling
  /\ nextId \in Ids
  /\ task' = Task(nextId, "LOCAL", "DONE", LocalText)
  /\ nextId' = nextId + 1
  /\ provider' = "stub"
  /\ sent' = <<>>
  /\ UNCHANGED <<transportVars, polling, outstanding>>

Cancel ==
  /\ ~polling
  /\ task.status \in {"RUNNING", "PENDING"}
  /\ task' = [task EXCEPT !.status = "CANCELLED", !.output = LocalText]
  /\ UNCHANGED <<transportVars, nextId, provider, polling, outstanding, sent>>

-----------------------------------------------------------------------------
(* handle_frame and serve of openai_bridge.py. A prompt of spaces is        *)
(* refused before the request id is known, so the frame names request 0.   *)
HostAnswer ==
  /\ outstanding # <<>>
  /\ LET request == Head(outstanding)
     IN  \E reply \in Replies :
           LET text == Text(request.id, reply.length)
           IN  /\ IF request.prompt = "blank"
                    THEN ~reply.ok /\ wire' = wire \o Frame(0, FALSE, text)
                    ELSE wire' = wire \o Frame(request.id, reply.ok, text)
               /\ sent' = IF request.id = task.id
                            THEN [id \in {request.id} |-> [ok |-> reply.ok, text |-> text]]
                            ELSE sent
  /\ outstanding' = Tail(outstanding)
  /\ UNCHANGED <<rx, rxDropped, line, lineLength, task, nextId, provider, polling>>

(* hnm_ai_serial_irq_handler *)
SerialIrq ==
  /\ ~polling
  /\ \E n \in 1 .. Len(wire) : CaptureRx(n)
  /\ UNCHANGED <<line, lineLength, bridgeVars>>

(* A slip of the code, for the mutation runs, precedes what it would replace. *)
PollBeginAnyStatus ==
  /\ ~polling
  /\ provider = "serial"
  /\ \E n \in 0 .. Len(wire) : CaptureRx(n)
  /\ polling' = TRUE
  /\ UNCHANGED <<line, lineLength, task, nextId, provider, outstanding, sent>>

(* hnm_ai_bridge_poll: only a RUNNING task on COM2 is polled. *)
PollBegin ==
  /\ ~polling
  /\ provider = "serial" /\ task.status = "RUNNING"
  /\ \E n \in 0 .. Len(wire) : CaptureRx(n)
  /\ polling' = TRUE
  /\ UNCHANGED <<line, lineLength, task, nextId, provider, outstanding, sent>>

PollChar ==
  /\ polling
  /\ TakeChar
  /\ UNCHANGED <<wire, rxDropped, bridgeVars>>

PollLine ==
  /\ polling
  /\ TakeNewline
  /\ ~Answers(EndedLine, task.id)
  /\ UNCHANGED <<wire, rxDropped, bridgeVars>>

(* The answer: the task is over and the rest of the ring is left unread. *)
PollAnswer ==
  /\ polling
  /\ TakeNewline
  /\ Answers(EndedLine, task.id)
  /\ task' = [task EXCEPT
       !.status = IF EndedLine[4] = Status(TRUE) THEN "DONE" ELSE "ERROR",
       !.output = LineText(EndedLine)]
  /\ polling' = FALSE
  /\ UNCHANGED <<wire, rxDropped, nextId, provider, outstanding, sent>>

PollEnd ==
  /\ polling
  /\ rx = <<>>
  /\ polling' = FALSE
  /\ UNCHANGED <<transportVars, task, nextId, provider, outstanding, sent>>

PollStep == PollBegin \/ PollChar \/ PollLine \/ PollAnswer \/ PollEnd

Next == SubmitHnlang \/ RequestLocal \/ Cancel \/ HostAnswer \/ SerialIrq \/ PollStep

Spec == Init /\ [][Next]_vars

(* The host answers every frame (call_openai has a timeout). COM2 raises    *)
(* IRQ3 while it has data, and every pass of the loop halts with interrupts *)
(* on, where a waiting IRQ3 is taken; each pass polls, and a poll ends.     *)
FairSpec ==
  Spec /\ WF_vars(HostAnswer) /\ SF_vars(SerialIrq) /\ WF_vars(PollStep)

-----------------------------------------------------------------------------
Running(id) == task.id = id /\ task.status = "RUNNING"

TypeOK ==
  /\ TransportTypeOK
  /\ task.id \in 0 .. MaxTasks
  /\ task.type \in {"NONE", "HNLANG", "LOCAL"}
  /\ task.status \in {"EMPTY", "PENDING", "RUNNING", "DONE", "ERROR", "CANCELLED"}
  /\ nextId \in 1 .. (MaxTasks + 1)
  /\ provider \in {"serial", "stub"}
  /\ polling \in BOOLEAN

(* Whatever was cancelled, dropped or came late: a request that is DONE     *)
(* over COM2 shows only text of the answer the host gave to that request,   *)
(* and the host called it a success.                                        *)
DoneIsOwnAnswer ==
  task.type = "HNLANG" /\ task.status = "DONE" =>
    /\ task.id \in DOMAIN sent
    /\ sent[task.id].ok
    /\ \A i \in 1 .. Len(task.output) : task.output[i].of = task.id
    /\ \A i, j \in 1 .. Len(task.output) :
         i < j => task.output[i].at < task.output[j].at

(* As long as the ring has dropped nothing, an answered request has exactly *)
(* the answer that the host sent to it, and its verdict.                    *)
AnswerIsExact ==
  ~rxDropped /\ task.type = "HNLANG" /\ task.status \in {"DONE", "ERROR"} =>
    /\ task.id \in DOMAIN sent
    /\ task.output = sent[task.id].text
    /\ sent[task.id].ok <=> task.status = "DONE"

(* What the screens rely on: the slot goes through AiRequest's steps only.  *)
(* So a request that is over stays as it is: no late answer revives it or   *)
(* replaces its output, and only a new request takes the slot.             *)
Slot == INSTANCE AiRequest WITH
  request <- [id |-> task.id, type |-> task.type, status |-> task.status,
              answer |-> Len(task.output)],
  AnswerLengths <- 0 .. LineCapacity

ImplementsRequest == Slot!RequestSpec

Awaiting == task.status = "RUNNING" /\ task.id \in DOMAIN sent

(* A request whose answer the host has sent does not stay RUNNING.          *)
AnswerCompletes == Awaiting ~> ~Awaiting

(* It does not unless the ring has dropped a character.                     *)
UndroppedAnswerCompletes == Awaiting ~> (~Awaiting \/ rxDropped)
=============================================================================
