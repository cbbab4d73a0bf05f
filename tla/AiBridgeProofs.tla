---------------------------- MODULE AiBridgeProofs ----------------------------
(***************************************************************************)
(* Proofs about AiBridge, for a ring and a line buffer of any size, any    *)
(* number of requests and answers of any length: the types, that the task  *)
(* slot behaves as AiRequest promises to the screens, that a request which *)
(* is DONE shows text of its own answer only, and that, while the ring has  *)
(* dropped nothing, it shows exactly that answer and no answer is lost.     *)
(***************************************************************************)
EXTENDS AiBridge, SequenceTheorems, WellFoundedInduction, TLAPS

LEMMA Sizes ==
  /\ RingCapacity \in Nat /\ RingCapacity > 1
  /\ LineCapacity \in Nat /\ LineCapacity > 6
  /\ MaxTasks \in Nat
  BY TransportAssumption, BridgeAssumption

(* A set of naturals that is not empty has a least element.                *)
LEMMA Least ==
  ASSUME NEW S \in SUBSET Nat, S # {}
  PROVE  \E n \in S : \A k \in S : n <= k
  <1> DEFINE R == {p \in Nat \X Nat : p[1] < p[2]}
  <1>1. IsWellFoundedOn(R, Nat)
    BY NatLessThanWellFounded DEF OpToRel
  <1>2. PICK n \in S : \A k \in S : <<k, n>> \notin R
    BY <1>1, WFMin
  <1>3. ASSUME NEW k \in S PROVE n <= k
    <2>1. ~(k < n)
      BY <1>2
    <2>. QED
      BY <2>1
  <1>. QED
    BY <1>3

-----------------------------------------------------------------------------
(* The line buffer                                                         *)

(* The kinds of characters that a line may hold.                           *)
Kinds == {"prefix", "id", "bar", "status", "hex", "newline", "nul"}
Chars == [kind : Kinds, of : Nat, at : Nat]

(* The host never sends NUL. *)
Sent == [kind : Kinds \ {"nul"}, of : Nat, at : Nat]

Buffers == {b \in [1 .. LineCapacity -> Chars] : b[LineCapacity] = Nul}

(* The text of a line ends at the buffer's last place at the latest.        *)
LEMMA LineTextFits ==
  ASSUME NEW buffer \in Buffers
  PROVE  LineText(buffer) \in Seq(Chars) /\ Len(LineText(buffer)) \in 0 .. LineCapacity
  <1> DEFINE S == {k \in 6 .. LineCapacity : buffer[k] = Nul}
  <1> DEFINE Ends(k) == buffer[k] = Nul /\ \A j \in 6 .. (k - 1) : buffer[j] # Nul
  <1>1. S \in SUBSET Nat /\ S # {}
    BY Sizes DEF Buffers
  <1>2. PICK n \in S : \A k \in S : n <= k
    <2> HIDE DEF S
    <2>. QED
      BY <1>1, Least
  <1>3. n \in 6 .. LineCapacity /\ Ends(n)
    <2>1. n \in 6 .. LineCapacity /\ buffer[n] = Nul
      OBVIOUS
    <2>2. ASSUME NEW j \in 6 .. (n - 1), buffer[j] = Nul PROVE FALSE
      <3>1. j \in S
        BY <2>1, <2>2, Sizes
      <3>2. n <= j
        BY <1>2, <3>1
      <3>. QED
        BY <2>1, <3>2, Sizes
    <2>. QED
      BY <2>1, <2>2
  <1> DEFINE end == CHOOSE k \in 6 .. LineCapacity : Ends(k)
  <1>4. end \in 6 .. LineCapacity
    BY <1>3
  <1>5. LineText(buffer) = SubSeq(buffer, 6, end - 1)
    BY DEF LineText
  <1> HIDE DEF end
  <1>6. buffer \in Seq(Chars) /\ Len(buffer) = LineCapacity
    BY Sizes DEF Buffers
  <1>7. end - 1 \in 5 .. (LineCapacity - 1) /\ end \in Nat
    BY <1>4, Sizes
  <1>8. SubSeq(buffer, 6, end - 1) \in Seq(Chars)
    BY <1>6, <1>7, Sizes, SubSeqProperties
  <1>9. Len(SubSeq(buffer, 6, end - 1)) \in 0 .. LineCapacity
    BY <1>6, <1>7, Sizes, SubSeqProperties
  <1>. QED
    BY <1>5, <1>8, <1>9

LEMMA CharKinds ==
  /\ Sent \subseteq Chars /\ Nul \in Chars /\ Nul \notin Sent
  /\ Prefix \in Sent /\ Bar \in Sent /\ Newline \in Sent
  /\ \A id \in Nat : Id(id) \in Sent
  /\ \A ok \in BOOLEAN : Status(ok) \in Sent
  /\ \A id, i \in Nat : Hex(id, i) \in Sent
  <1>1. Sent \subseteq Chars /\ Nul \in Chars /\ Nul \notin Sent
    BY DEF Sent, Chars, Kinds, Nul, Char
  <1>2. Prefix \in Sent /\ Bar \in Sent /\ Newline \in Sent
    BY DEF Sent, Kinds, Prefix, Bar, Newline, Char
  <1>3. \A id \in Nat : Id(id) \in Sent
    BY DEF Sent, Kinds, Id, Char
  <1>4. \A ok \in BOOLEAN : Status(ok) \in Sent
    BY DEF Sent, Kinds, Status, Char
  <1>5. \A id, i \in Nat : Hex(id, i) \in Sent
    BY DEF Sent, Kinds, Hex, Char
  <1>. QED
    BY <1>1, <1>2, <1>3, <1>4, <1>5

(* A frame is made of characters that are not NUL. *)
LEMMA FrameIsSent ==
  ASSUME NEW id \in Nat, NEW of \in Nat, NEW ok \in BOOLEAN, NEW length \in Nat
  PROVE  Frame(id, ok, Text(of, length)) \in Seq(Sent)
  <1> DEFINE head == <<Prefix, Id(id), Bar, Status(ok), Bar>>
  <1>1. head \in Seq(Sent)
    <2> HIDE DEF Sent
    <2>. QED
      BY CharKinds
  <1>2. Text(of, length) \in Seq(Sent)
    <2>1. \A i \in 1 .. length : Hex(of, i) \in Sent
      BY CharKinds
    <2>2. Text(of, length) \in [1 .. length -> Sent]
      BY <2>1 DEF Text
    <2>. QED
      BY <2>2
  <1>3. <<Newline>> \in Seq(Sent)
    BY CharKinds
  <1> HIDE DEF head
  <1>4. head \o Text(of, length) \in Seq(Sent)
    BY <1>1, <1>2
  <1>5. head \o Text(of, length) \o <<Newline>> \in Seq(Sent)
    BY <1>3, <1>4
  <1>. QED
    BY <1>5 DEF Frame, head

-----------------------------------------------------------------------------
(* The invariant: what the link holds, and that only a request without an   *)
(* output runs or is polled.                                               *)
LinkInv ==
  /\ wire \in Seq(Sent)
  /\ rx \in Seq(Sent) /\ Len(rx) < RingCapacity
  /\ rxDropped \in BOOLEAN

LineInv ==
  /\ line \in Buffers
  /\ lineLength \in 0 .. (LineCapacity - 1)
  /\ \A i \in 1 .. lineLength : line[i] \notin {Nul, Newline}

Tasks ==
  [id : 0 .. MaxTasks, type : {"NONE", "HNLANG", "LOCAL"},
   status : {"EMPTY", "RUNNING", "DONE", "ERROR", "CANCELLED"},
   output : Seq(Chars)]

SlotInv ==
  /\ task \in Tasks
  /\ Len(task.output) \in 0 .. LineCapacity
  /\ task.status = "RUNNING" => task.output = <<>>
  /\ nextId \in 1 .. (MaxTasks + 1)
  /\ provider \in {"serial", "stub"}
  /\ polling \in BOOLEAN
  /\ polling => task.status = "RUNNING"

HostInv == outstanding \in Seq([id : Nat, prompt : {"text", "blank"}])

IInv == LinkInv /\ LineInv /\ SlotInv /\ HostInv

LEMMA InitInv == Init => IInv
  <1> SUFFICES ASSUME Init PROVE IInv
    OBVIOUS
  <1>1. LinkInv
    <2>1. Len(rx) < RingCapacity
      BY Sizes DEF Init, TransportInit
    <2>2. wire \in Seq(Sent) /\ rx \in Seq(Sent) /\ rxDropped = FALSE
      BY DEF Init, TransportInit
    <2>. QED
      BY <2>1, <2>2 DEF LinkInv
  <1>2. LineInv
    <2>1. line \in [1 .. LineCapacity -> Chars] /\ line[LineCapacity] = Nul
      BY CharKinds, Sizes DEF Init, TransportInit
    <2>. QED
      BY <2>1, Sizes DEF Init, TransportInit, LineInv, Buffers
  <1>3. SlotInv
    <2>1. task \in Tasks /\ task.output = <<>> /\ task.status = "EMPTY"
      BY Sizes DEF Init, Task, LocalText, Tasks
    <2>2. Len(task.output) \in 0 .. LineCapacity
      BY <2>1, Sizes
    <2>3. nextId \in 1 .. (MaxTasks + 1)
      BY Sizes DEF Init
    <2>4. provider = "stub" /\ polling = FALSE
      BY DEF Init
    <2>. QED
      BY <2>1, <2>2, <2>3, <2>4 DEF SlotInv
  <1>4. HostInv
    BY DEF Init, HostInv
  <1>. QED
    BY <1>1, <1>2, <1>3, <1>4 DEF IInv

-----------------------------------------------------------------------------
(* Capturing, taking a character, and taking the newline                   *)

LEMMA CaptureKeepsLink ==
  ASSUME LinkInv, NEW n \in 0 .. Len(wire), CaptureRx(n)
  PROVE  LinkInv'
  <1>1. Kept(n) \in 0 .. n /\ Kept(n) <= RingCapacity - 1 - Len(rx)
    BY Sizes DEF Kept, Lesser, LinkInv
  <1>2. Kept(n) <= Len(wire) /\ Len(wire) \in Nat /\ n \in Nat
    BY <1>1 DEF LinkInv
  <1> DEFINE taken == SubSeq(wire, 1, Kept(n))
  <1>3. taken \in Seq(Sent) /\ Len(taken) = Kept(n)
    BY <1>1, <1>2, SubSeqProperties DEF LinkInv
  <1>4. SubSeq(wire, n + 1, Len(wire)) \in Seq(Sent)
    BY <1>2, SubSeqProperties DEF LinkInv
  <1>5. rx \o taken \in Seq(Sent) /\ Len(rx \o taken) = Len(rx) + Len(taken)
    <2> HIDE DEF taken
    <2>. QED
      BY <1>3, ConcatProperties DEF LinkInv
  <1>6. Len(rx \o taken) < RingCapacity
    <2> HIDE DEF taken
    <2>1. Len(rx) \in Nat
      BY DEF LinkInv
    <2>. QED
      BY <1>1, <1>3, <1>5, <2>1, Sizes
  <1>. QED
    BY <1>4, <1>5, <1>6 DEF LinkInv, CaptureRx

LEMMA PopKeepsLink ==
  ASSUME LinkInv, PopRx, UNCHANGED <<wire, rxDropped>>
  PROVE  LinkInv' /\ Head(rx) \in Sent
  <1>1. Head(rx) \in Sent /\ Tail(rx) \in Seq(Sent) /\ Len(Tail(rx)) = Len(rx) - 1
    BY HeadTailProperties DEF LinkInv, PopRx
  <1>2. Len(rx) \in Nat
    BY DEF LinkInv
  <1>. QED
    BY <1>1, <1>2, Sizes DEF LinkInv, PopRx

LEMMA EndedLineIsBuffer ==
  ASSUME LineInv
  PROVE  EndedLine \in Buffers
  BY CharKinds, Sizes DEF LineInv, EndedLine, Buffers

LEMMA CharKeepsLine ==
  ASSUME LineInv, TakeChar, Head(rx) \in Sent
  PROVE  LineInv'
  <1>1. Head(rx) \in Chars /\ Head(rx) # Nul /\ Head(rx) # Newline
    BY CharKinds DEF TakeChar
  <1>2. CASE lineLength + 1 < LineCapacity
    <2>1. line' = [line EXCEPT ![lineLength + 1] = Head(rx)] /\ lineLength' = lineLength + 1
      BY <1>2 DEF TakeChar
    <2>2. line' \in Buffers
      BY <1>1, <1>2, <2>1, Sizes DEF LineInv, Buffers
    <2>3. \A i \in 1 .. lineLength' : line'[i] \notin {Nul, Newline}
      BY <1>1, <1>2, <2>1, Sizes DEF LineInv, Buffers
    <2>. QED
      BY <1>2, <2>1, <2>2, <2>3, Sizes DEF LineInv
  <1>3. CASE ~(lineLength + 1 < LineCapacity)
    <2>1. line' = line /\ lineLength' = 0
      BY <1>3 DEF TakeChar
    <2>. QED
      BY <2>1, Sizes DEF LineInv
  <1>. QED
    BY <1>2, <1>3

LEMMA NewlineKeepsLine ==
  ASSUME LineInv, TakeNewline
  PROVE  LineInv'
  BY EndedLineIsBuffer, Sizes DEF LineInv, TakeNewline

-----------------------------------------------------------------------------
(* The actions                                                             *)

(* A request taken from nextId is typed. *)
LEMMA NewTask ==
  ASSUME SlotInv, nextId \in Ids,
         NEW type \in {"HNLANG", "LOCAL"}, NEW status \in {"RUNNING", "DONE"},
         task' = Task(nextId, type, status, LocalText), nextId' = nextId + 1
  PROVE  /\ task' \in Tasks /\ task'.output = <<>>
         /\ Len(task'.output) \in 0 .. LineCapacity
         /\ task'.status = status
         /\ nextId' \in 1 .. (MaxTasks + 1)
  <1>1. task' \in Tasks /\ task'.output = <<>> /\ task'.status = status
    BY Sizes DEF Task, LocalText, Tasks, Ids
  <1>2. Len(task'.output) \in 0 .. LineCapacity
    BY <1>1, Sizes
  <1>3. nextId' \in 1 .. (MaxTasks + 1)
    BY Sizes DEF Ids
  <1>. QED
    BY <1>1, <1>2, <1>3

LEMMA SubmitKeeps ==
  ASSUME IInv, SubmitHnlang
  PROVE  IInv'
  <1> USE DEF IInv
  <1>1. LinkInv' /\ LineInv'
    BY DEF SubmitHnlang, transportVars, LinkInv, LineInv
  <1>2. SlotInv'
    <2>1. /\ task' \in Tasks /\ task'.output = <<>>
          /\ Len(task'.output) \in 0 .. LineCapacity
          /\ nextId' \in 1 .. (MaxTasks + 1)
      BY NewTask DEF SubmitHnlang
    <2>. QED
      BY <2>1 DEF SlotInv, SubmitHnlang
  <1>3. HostInv'
    <2>1. PICK prompt \in Prompts :
            outstanding' = Append(outstanding, [id |-> nextId, prompt |-> prompt])
      BY DEF SubmitHnlang
    <2>2. prompt \in {"text", "blank"} /\ nextId \in Nat
      BY BridgeAssumption, Sizes DEF SlotInv
    <2>. QED
      BY <2>1, <2>2 DEF HostInv
  <1>. QED
    BY <1>1, <1>2, <1>3

LEMMA LocalKeeps ==
  ASSUME IInv, RequestLocal
  PROVE  IInv'
  <1> USE DEF IInv
  <1>1. LinkInv' /\ LineInv' /\ HostInv'
    BY DEF RequestLocal, transportVars, LinkInv, LineInv, HostInv
  <1>2. /\ task' \in Tasks /\ task'.output = <<>> /\ task'.status = "DONE"
        /\ Len(task'.output) \in 0 .. LineCapacity
        /\ nextId' \in 1 .. (MaxTasks + 1)
    BY NewTask DEF RequestLocal
  <1>. QED
    BY <1>1, <1>2 DEF SlotInv, RequestLocal

LEMMA CancelKeeps ==
  ASSUME IInv, Cancel
  PROVE  IInv'
  <1> USE DEF IInv
  <1>1. LinkInv' /\ LineInv' /\ HostInv'
    BY DEF Cancel, transportVars, LinkInv, LineInv, HostInv
  <1>2. task' \in Tasks /\ task'.output = <<>> /\ task'.status = "CANCELLED"
    BY DEF Cancel, LocalText, SlotInv, Tasks
  <1>3. Len(task'.output) \in 0 .. LineCapacity
    BY <1>2, Sizes
  <1>. QED
    BY <1>1, <1>2, <1>3 DEF SlotInv, Cancel

LEMMA HostKeeps ==
  ASSUME IInv, HostAnswer
  PROVE  IInv'
  <1> USE DEF IInv
  <1>1. LineInv' /\ SlotInv'
    BY DEF HostAnswer, LineInv, SlotInv
  <1>2. HostInv'
    BY HeadTailProperties DEF HostAnswer, HostInv
  <1>3. Head(outstanding).id \in Nat
    <2>1. outstanding # <<>>
      BY DEF HostAnswer
    <2>2. Head(outstanding) \in [id : Nat, prompt : {"text", "blank"}]
      BY <2>1, HeadTailProperties DEF HostInv
    <2>. QED
      BY <2>2
  <1>4. PICK reply \in Replies, id \in Nat, ok \in BOOLEAN :
          wire' = wire \o Frame(id, ok, Text(Head(outstanding).id, reply.length))
    <2>1. \A reply \in Replies : reply.ok \in BOOLEAN
      BY BridgeAssumption
    <2>. QED
      BY <1>3, <2>1 DEF HostAnswer
  <1>5. reply.length \in Nat
    BY BridgeAssumption
  <1>6. Frame(id, ok, Text(Head(outstanding).id, reply.length)) \in Seq(Sent)
    BY <1>3, <1>5, FrameIsSent
  <1>7. wire' \in Seq(Sent)
    BY <1>4, <1>6, ConcatProperties DEF LinkInv
  <1>8. LinkInv'
    BY <1>7 DEF LinkInv, HostAnswer
  <1>. QED
    BY <1>1, <1>2, <1>8

LEMMA IrqKeeps ==
  ASSUME IInv, SerialIrq
  PROVE  IInv'
  <1> USE DEF IInv
  <1>1. LineInv' /\ SlotInv' /\ HostInv'
    BY DEF SerialIrq, bridgeVars, LineInv, SlotInv, HostInv
  <1>2. PICK n \in 1 .. Len(wire) : CaptureRx(n)
    BY DEF SerialIrq
  <1>3. n \in 0 .. Len(wire)
    BY <1>2
  <1>. QED
    BY <1>1, <1>2, <1>3, CaptureKeepsLink

LEMMA BeginKeeps ==
  ASSUME IInv, PollBegin
  PROVE  IInv'
  <1> USE DEF IInv
  <1>1. LineInv' /\ SlotInv' /\ HostInv'
    BY DEF PollBegin, LineInv, SlotInv, HostInv
  <1>. QED
    BY <1>1, CaptureKeepsLink DEF PollBegin

LEMMA CharKeeps ==
  ASSUME IInv, PollChar
  PROVE  IInv'
  <1> USE DEF IInv
  <1>1. SlotInv' /\ HostInv'
    BY DEF PollChar, bridgeVars, SlotInv, HostInv
  <1>2. LinkInv' /\ Head(rx) \in Sent
    BY PopKeepsLink DEF PollChar, TakeChar
  <1>. QED
    BY <1>1, <1>2, CharKeepsLine DEF PollChar

LEMMA LineKeeps ==
  ASSUME IInv, PollLine
  PROVE  IInv'
  <1> USE DEF IInv
  <1>1. SlotInv' /\ HostInv'
    BY DEF PollLine, bridgeVars, SlotInv, HostInv
  <1>2. LinkInv'
    BY PopKeepsLink DEF PollLine, TakeNewline
  <1>. QED
    BY <1>1, <1>2, NewlineKeepsLine DEF PollLine

(* The task that an answer leaves in the slot. *)
LEMMA AnsweredTask ==
  ASSUME IInv, PollAnswer
  PROVE  /\ task' \in Tasks
         /\ task'.id = task.id /\ task'.type = task.type
         /\ task'.status \in {"DONE", "ERROR"}
         /\ Len(task'.output) \in 0 .. LineCapacity
  <1>1. LineText(EndedLine) \in Seq(Chars) /\ Len(LineText(EndedLine)) \in 0 .. LineCapacity
    BY EndedLineIsBuffer, LineTextFits DEF IInv
  <1> DEFINE text == LineText(EndedLine)
  <1> HIDE DEF text
  <1>2. PICK status \in {"DONE", "ERROR"} :
          task' = [task EXCEPT !.status = status, !.output = text]
    BY DEF PollAnswer, text
  <1>3. text \in Seq(Chars) /\ Len(text) \in 0 .. LineCapacity
    BY <1>1 DEF text
  <1>4. /\ task'.id = task.id /\ task'.type = task.type
        /\ task'.status = status /\ task'.output = text
        /\ task' \in Tasks
    BY <1>2, <1>3 DEF IInv, SlotInv, Tasks
  <1>. QED
    BY <1>3, <1>4

LEMMA AnswerKeeps ==
  ASSUME IInv, PollAnswer
  PROVE  IInv'
  <1>1. LinkInv'
    BY PopKeepsLink DEF IInv, PollAnswer, TakeNewline
  <1>2. LineInv'
    BY NewlineKeepsLine DEF IInv, PollAnswer
  <1>3. SlotInv'
    BY AnsweredTask DEF IInv, SlotInv, PollAnswer
  <1>4. HostInv'
    BY DEF IInv, HostInv, PollAnswer
  <1>. QED
    BY <1>1, <1>2, <1>3, <1>4 DEF IInv

LEMMA NextKeeps == IInv /\ [Next]_vars => IInv'
  <1> SUFFICES ASSUME IInv, [Next]_vars PROVE IInv'
    OBVIOUS
  <1>1. CASE SubmitHnlang
    BY <1>1, SubmitKeeps
  <1>2. CASE RequestLocal
    BY <1>2, LocalKeeps
  <1>3. CASE Cancel
    BY <1>3, CancelKeeps
  <1>4. CASE HostAnswer
    BY <1>4, HostKeeps
  <1>5. CASE SerialIrq
    BY <1>5, IrqKeeps
  <1>6. CASE PollBegin
    BY <1>6, BeginKeeps
  <1>7. CASE PollChar
    BY <1>7, CharKeeps
  <1>8. CASE PollLine
    BY <1>8, LineKeeps
  <1>9. CASE PollAnswer
    BY <1>9, AnswerKeeps
  <1>10. CASE PollEnd
    BY <1>10 DEF PollEnd, transportVars, IInv, LinkInv, LineInv, SlotInv, HostInv
  <1>11. CASE UNCHANGED vars
    BY <1>11 DEF vars, transportVars, bridgeVars, IInv, LinkInv, LineInv, SlotInv, HostInv
  <1>. QED
    BY <1>1, <1>2, <1>3, <1>4, <1>5, <1>6, <1>7, <1>8, <1>9, <1>10, <1>11
    DEF Next, PollStep

LEMMA InvHolds == Spec => []IInv
  BY InitInv, NextKeeps, PTL DEF Spec

-----------------------------------------------------------------------------
(* However long the answers and wherever the ring cuts them off, the parser *)
(* of COM2 stays within its ring and its line buffer, whose last place is   *)
(* always NUL, and the slot holds a task.                                   *)
THEOREM TypeCorrect == Spec => []TypeOK
  <1>1. IInv => TypeOK
    <2> SUFFICES ASSUME IInv PROVE TypeOK
      OBVIOUS
    <2>1. TransportTypeOK
      BY DEF IInv, LinkInv, LineInv, Buffers, TransportTypeOK
    <2>. QED
      BY <2>1 DEF IInv, SlotInv, Tasks, TypeOK
  <1>. QED
    BY InvHolds, <1>1, PTL

-----------------------------------------------------------------------------
(* Refinement                                                              *)

LEMMA SlotStarts == Init => Slot!RequestInit
  <1> SUFFICES ASSUME Init PROVE Slot!RequestInit
    OBVIOUS
  <1>1. Len(task.output) = 0 /\ task = Task(0, "NONE", "EMPTY", <<>>)
    BY DEF Init, Task, LocalText
  <1>. QED
    BY <1>1 DEF Init, Task, Slot!RequestInit, Slot!Request

Requests ==
  [id : 0 .. MaxTasks, type : {"NONE", "HNLANG", "LOCAL"},
   status : {"EMPTY", "RUNNING", "DONE", "ERROR", "CANCELLED"}, answer : Nat]

LEMMA AnsweredRequest ==
  ASSUME NEW r \in Requests, NEW status \in {"DONE", "ERROR"}, NEW length \in Nat
  PROVE  [r EXCEPT !.status = status, !.answer = length]
         = [id |-> r.id, type |-> r.type, status |-> status, answer |-> length]
  <1>1. PICK n : n = [r EXCEPT !.status = status, !.answer = length]
    OBVIOUS
  <1>2. /\ n \in Requests
        /\ n.id = r.id /\ n.type = r.type
        /\ n.status = status /\ n.answer = length
    BY <1>1 DEF Requests
  <1>3. n = [id |-> r.id, type |-> r.type, status |-> status, answer |-> length]
    BY <1>2 DEF Requests
  <1>. QED
    BY <1>1, <1>3

LEMMA SlotSteps == IInv /\ [Next]_vars => [Slot!RequestNext]_(Slot!requestVars)
  <1> SUFFICES ASSUME IInv, [Next]_vars PROVE [Slot!RequestNext]_(Slot!requestVars)
    OBVIOUS
  <1>1. CASE SubmitHnlang
    <2>1. task' = Task(nextId, "HNLANG", "RUNNING", <<>>) /\ Len(task'.output) = 0
      BY <1>1 DEF SubmitHnlang, Task, LocalText
    <2>2. nextId <= MaxTasks /\ nextId' = nextId + 1
      BY <1>1, Sizes DEF SubmitHnlang, Ids
    <2>3. Slot!SubmitRequest
      BY <2>1, <2>2 DEF Task, Slot!SubmitRequest, Slot!Prepare, Slot!Request
    <2>. QED
      BY <2>3 DEF Slot!RequestNext
  <1>2. CASE RequestLocal
    <2>1. task' = Task(nextId, "LOCAL", "DONE", <<>>) /\ Len(task'.output) = 0
      BY <1>2 DEF RequestLocal, Task, LocalText
    <2>2. nextId <= MaxTasks /\ nextId' = nextId + 1
      BY <1>2, Sizes DEF RequestLocal, Ids
    <2>3. Slot!RequestLocally
      BY <2>1, <2>2 DEF Task, Slot!RequestLocally, Slot!Prepare, Slot!Request
    <2>. QED
      BY <2>3 DEF Slot!RequestNext
  <1>3. CASE Cancel
    <2>1. task.status = "RUNNING" /\ task.output = <<>> /\ task \in Tasks
      BY <1>3 DEF Cancel, IInv, SlotInv, Tasks
    <2>2. /\ task'.id = task.id /\ task'.type = task.type
          /\ task'.status = "CANCELLED" /\ task'.output = <<>>
      BY <1>3, <2>1 DEF Cancel, LocalText, Tasks
    <2>3. Len(task.output) = 0 /\ Len(task'.output) = 0
      BY <2>1, <2>2
    <2>4. Slot!CancelRequest
      BY <1>3, <2>1, <2>2, <2>3 DEF Cancel, Slot!CancelRequest
    <2>. QED
      BY <2>4 DEF Slot!RequestNext
  <1>4. CASE PollAnswer
    <2>1. task.status = "RUNNING"
      BY <1>4 DEF PollAnswer, IInv, SlotInv
    <2>2. nextId' = nextId
      BY <1>4 DEF PollAnswer
    <2>3. /\ task'.id = task.id /\ task'.type = task.type
          /\ task'.status \in {"DONE", "ERROR"}
          /\ Len(task'.output) \in 0 .. LineCapacity
      BY <1>4, AnsweredTask
    <2>4. \E status \in {"DONE", "ERROR"}, length \in 0 .. LineCapacity :
            [id |-> task'.id, type |-> task'.type, status |-> task'.status,
             answer |-> Len(task'.output)]
            = [id |-> task.id, type |-> task.type, status |-> status, answer |-> length]
      BY <2>3
    <2> DEFINE r == [id |-> task.id, type |-> task.type, status |-> task.status,
                     answer |-> Len(task.output)]
    <2>5. r \in Requests /\ r.id = task.id /\ r.type = task.type /\ r.status = "RUNNING"
      <3>1. Len(task.output) \in Nat
        BY Sizes DEF IInv, SlotInv
      <3>. QED
        BY <2>1, <3>1 DEF IInv, SlotInv, Tasks, Requests
    <2>6. \A status \in {"DONE", "ERROR"}, length \in 0 .. LineCapacity :
            [r EXCEPT !.status = status, !.answer = length]
            = [id |-> task.id, type |-> task.type, status |-> status, answer |-> length]
      <3>1. TAKE status \in {"DONE", "ERROR"}, length \in 0 .. LineCapacity
      <3>2. length \in Nat
        BY Sizes
      <3> HIDE DEF r
      <3>3. [r EXCEPT !.status = status, !.answer = length]
            = [id |-> r.id, type |-> r.type, status |-> status, answer |-> length]
        BY <2>5, <3>2, AnsweredRequest, Zenon
      <3>. QED
        BY <2>5, <3>3, Zenon
    <2>7. \E status \in {"DONE", "ERROR"}, length \in 0 .. LineCapacity :
            [id |-> task'.id, type |-> task'.type, status |-> task'.status,
             answer |-> Len(task'.output)]
            = [r EXCEPT !.status = status, !.answer = length]
      <3>1. PICK status \in {"DONE", "ERROR"}, length \in 0 .. LineCapacity :
              [id |-> task'.id, type |-> task'.type, status |-> task'.status,
               answer |-> Len(task'.output)]
              = [id |-> task.id, type |-> task.type, status |-> status, answer |-> length]
        BY <2>4
      <3> HIDE DEF r
      <3>2. [r EXCEPT !.status = status, !.answer = length]
            = [id |-> task.id, type |-> task.type, status |-> status, answer |-> length]
        BY <2>6
      <3>. QED
        BY <3>1, <3>2, Zenon
    <2>8. Slot!AnswerRequest
      <3>1. r.status = "RUNNING"
        BY <2>5
      <3>. QED
        BY <2>2, <2>7, <3>1 DEF Slot!AnswerRequest
    <2>. QED
      BY <2>8 DEF Slot!RequestNext
  <1>5. CASE \/ HostAnswer \/ SerialIrq \/ PollBegin \/ PollChar
            \/ PollLine \/ PollEnd \/ UNCHANGED vars
    BY <1>5 DEF HostAnswer, SerialIrq, PollBegin, PollChar, PollLine, PollEnd,
                vars, bridgeVars, Slot!requestVars
  <1>. QED
    BY <1>1, <1>2, <1>3, <1>4, <1>5 DEF Next, PollStep

(* Whatever the host sends, when, and however much of it the ring drops,    *)
(* the task slot goes through AiRequest's steps only: hnm_ai_bridge_poll    *)
(* answers none but the running request, and an answer that comes after     *)
(* Cancel or after the next request changes nothing.                        *)
THEOREM SlotIsKept == Spec => ImplementsRequest
  <1>. QED
    BY InvHolds, SlotStarts, SlotSteps, PTL DEF Spec, ImplementsRequest, Slot!RequestSpec

-----------------------------------------------------------------------------
(* The stream: the characters of the unfinished line, then those in the     *)
(* ring, then those on the wire. The host puts whole frames at its end; all *)
(* that the kernel does to it is take characters out.                      *)
Count == lineLength + Len(rx) + Len(wire)

Stream == [i \in 1 .. Count |->
  IF i <= lineLength THEN line[i]
  ELSE IF i <= lineLength + Len(rx) THEN rx[i - lineLength]
  ELSE wire[i - (lineLength + Len(rx))]]

LEMMA StreamSizes ==
  ASSUME IInv
  PROVE  /\ lineLength \in Nat /\ Len(rx) \in Nat /\ Len(wire) \in Nat /\ Count \in Nat
         /\ Count = lineLength + Len(rx) + Len(wire)
  BY Sizes, LenProperties DEF IInv, LinkInv, LineInv, Count

LEMMA StreamTyped ==
  ASSUME IInv, NEW i \in 1 .. Count
  PROVE  Stream[i] \in Chars /\ Stream[i] # Nul
  <1>1. CASE i <= lineLength
    <2>1. i \in 1 .. lineLength /\ i \in 1 .. LineCapacity
      BY <1>1, StreamSizes, Sizes DEF IInv, LineInv
    <2>2. line[i] \in Chars /\ line[i] # Nul
      BY <2>1 DEF IInv, LineInv, Buffers
    <2>. QED
      BY <1>1, <2>2 DEF Stream
  <1>2. CASE ~(i <= lineLength) /\ i <= lineLength + Len(rx)
    <2>1. i - lineLength \in 1 .. Len(rx)
      BY <1>2, StreamSizes
    <2>2. rx[i - lineLength] \in Sent
      BY <2>1, ElementOfSeq DEF IInv, LinkInv
    <2>. QED
      BY <1>2, <2>2, CharKinds DEF Stream
  <1>3. CASE ~(i <= lineLength) /\ ~(i <= lineLength + Len(rx))
    <2>1. i - (lineLength + Len(rx)) \in 1 .. Len(wire)
      BY <1>3, StreamSizes
    <2>2. wire[i - (lineLength + Len(rx))] \in Sent
      BY <2>1, ElementOfSeq DEF IInv, LinkInv
    <2>. QED
      BY <1>3, <2>2, CharKinds DEF Stream
  <1>. QED
    BY <1>1, <1>2, <1>3

(* The step takes characters out of the stream. *)
Thins ==
  \E f \in [1 .. Count' -> 1 .. Count] :
    /\ \A i, j \in 1 .. Count' : i < j => f[i] < f[j]
    /\ \A i \in 1 .. Count' : Stream'[i] = Stream[f[i]]

(* It takes them from the front of the stream only. *)
Shifts ==
  \E d \in 0 .. Count :
    /\ Count' = Count - d
    /\ \A i \in 1 .. Count' : Stream'[i] = Stream[i + d]

LEMMA CaptureThins ==
  ASSUME IInv, NEW n \in 0 .. Len(wire), CaptureRx(n), UNCHANGED <<line, lineLength>>
  PROVE  Thins /\ (~rxDropped' => Shifts)
  <1> DEFINE l == lineLength
             r == Len(rx)
             w == Len(wire)
             k == Kept(n)
  <1>1. l \in Nat /\ r \in Nat /\ w \in Nat /\ Count = l + r + w /\ n \in 0 .. w
    BY StreamSizes
  <1>2. k \in 0 .. n
    BY Sizes, StreamSizes DEF Kept, Lesser, IInv, LinkInv
  <1>3. rx' = rx \o SubSeq(wire, 1, k) /\ wire' = SubSeq(wire, n + 1, w)
    BY DEF CaptureRx
  <1>4. wire \in Seq(Sent) /\ rx \in Seq(Sent)
    BY DEF IInv, LinkInv
  <1> HIDE DEF k, r, w, l
  <1>5. /\ SubSeq(wire, 1, k) \in Seq(Sent) /\ Len(SubSeq(wire, 1, k)) = k
        /\ \A i \in 1 .. k : SubSeq(wire, 1, k)[i] = wire[i]
    <2>1. \A i \in 1 .. k : wire[i] \in Sent
      BY <1>1, <1>2, <1>4 DEF w
    <2>2. k \in Int /\ 1 \in Int
      BY <1>1, <1>2
    <2>3. /\ SubSeq(wire, 1, k) \in Seq(Sent)
          /\ Len(SubSeq(wire, 1, k)) = IF 1 <= k THEN k - 1 + 1 ELSE 0
          /\ \A i \in 1 .. k - 1 + 1 : SubSeq(wire, 1, k)[i] = wire[1 + i - 1]
      BY <2>1, <2>2, SubSeqProperties
    <2>. QED
      BY <1>1, <1>2, <2>3
  <1>6. /\ Len(wire') = w - n
        /\ \A i \in 1 .. w - n : wire'[i] = wire[n + i]
    <2>1. \A i \in (n + 1) .. w : wire[i] \in Sent
      BY <1>1, <1>4 DEF w
    <2>2. n + 1 \in Int /\ w \in Int
      BY <1>1
    <2>3. LET rest == SubSeq(wire, n + 1, w)
          IN  /\ Len(rest) = IF n + 1 <= w THEN w - (n + 1) + 1 ELSE 0
              /\ \A i \in 1 .. w - (n + 1) + 1 : rest[i] = wire[(n + 1) + i - 1]
      BY <2>1, <2>2, SubSeqProperties
    <2>. QED
      BY <1>1, <1>3, <2>3
  <1>7. /\ Len(rx') = r + k
        /\ \A i \in 1 .. r + k : rx'[i] = IF i <= r THEN rx[i] ELSE wire[i - r]
    <2>1. /\ Len(rx') = r + k
          /\ \A i \in 1 .. r + k :
               rx'[i] = IF i <= r THEN rx[i] ELSE SubSeq(wire, 1, k)[i - r]
      BY <1>3, <1>4, <1>5, ConcatProperties DEF r
    <2>2. \A i \in 1 .. r + k : ~(i <= r) => i - r \in 1 .. k
      BY <1>1, <1>2
    <2>. QED
      BY <1>5, <2>1, <2>2
  <1>8. Count' = Count - (n - k)
    <2>1. Count' = l + (r + k) + (w - n)
      BY <1>6, <1>7 DEF Count, l
    <2>. QED
      BY <1>1, <1>2, <2>1
  <1> DEFINE f == [i \in 1 .. Count' |-> IF i <= l + r + k THEN i ELSE i + (n - k)]
  <1>9. f \in [1 .. Count' -> 1 .. Count]
    BY <1>1, <1>2, <1>8
  <1>10. \A i, j \in 1 .. Count' : i < j => f[i] < f[j]
    BY <1>1, <1>2, <1>8
  <1>11. ASSUME NEW i \in 1 .. Count' PROVE Stream'[i] = Stream[f[i]]
    <2>1. i \in 1 .. Count /\ lineLength' = l /\ line' = line
      BY <1>1, <1>2, <1>8 DEF l
    <2>2. CASE i <= l
      <3>1. f[i] = i
        BY <1>1, <1>2, <2>2
      <3>. QED
        BY <2>1, <2>2, <3>1 DEF Stream, l
    <2>3. CASE ~(i <= l) /\ i <= l + r
      <3>1. f[i] = i /\ i - l \in 1 .. r + k /\ i - l <= r /\ i <= l + (r + k)
        BY <1>1, <1>2, <2>3
      <3>2. Stream[i] = rx[i - l]
        BY <2>1, <2>3 DEF Stream, l, r
      <3>3. Stream'[i] = rx'[i - l]
        BY <1>7, <2>1, <2>3, <3>1 DEF Stream
      <3>. QED
        BY <1>7, <3>1, <3>2, <3>3
    <2>4. CASE ~(i <= l + r) /\ i <= l + r + k
      <3>1. /\ f[i] = i /\ i - l \in 1 .. r + k /\ ~(i - l <= r)
            /\ ~(i <= l) /\ i <= l + (r + k) /\ (i - l) - r = i - (l + r)
        BY <1>1, <1>2, <2>4
      <3>2. Stream[i] = wire[i - (l + r)]
        BY <2>1, <2>4, <3>1 DEF Stream, l, r
      <3>3. Stream'[i] = rx'[i - l]
        BY <1>7, <2>1, <3>1 DEF Stream
      <3>. QED
        BY <1>7, <3>1, <3>2, <3>3
    <2>5. CASE ~(i <= l + r + k)
      <3>1. /\ f[i] = i + (n - k) /\ f[i] \in 1 .. Count
            /\ ~(f[i] <= l) /\ ~(f[i] <= l + r)
            /\ i - (l + (r + k)) \in 1 .. w - n
            /\ n + (i - (l + (r + k))) = f[i] - (l + r)
            /\ ~(i <= l) /\ ~(i <= l + (r + k))
        BY <1>1, <1>2, <1>8, <2>5
      <3>2. Stream[f[i]] = wire[f[i] - (l + r)]
        <4> HIDE DEF f
        <4>. QED
          BY <3>1 DEF Stream, l, r
      <3>3. Stream'[i] = wire'[i - (l + (r + k))]
        BY <1>7, <2>1, <3>1 DEF Stream
      <3>4. wire'[i - (l + (r + k))] = wire[n + (i - (l + (r + k)))]
        BY <1>6, <3>1
      <3>. QED
        BY <3>1, <3>2, <3>3, <3>4
    <2>. QED
      BY <1>1, <1>2, <2>2, <2>3, <2>4, <2>5
  <1>12. ASSUME ~rxDropped' PROVE Shifts
    <2>1. n = k
      <3>1. ~(n > Kept(n))
        BY <1>12 DEF CaptureRx
      <3>. QED
        BY <1>1, <1>2, <3>1 DEF k
    <2>2. Count' = Count - 0 /\ 0 \in 0 .. Count
      BY <1>1, <1>8, <2>1
    <2>3. \A i \in 1 .. Count' : f[i] = i + 0
      BY <1>1, <2>1
    <2> HIDE DEF f
    <2>4. \A i \in 1 .. Count' : Stream'[i] = Stream[i + 0]
      BY <1>11, <2>3
    <2>. QED
      BY <2>2, <2>4 DEF Shifts
  <1> HIDE DEF f
  <1>. QED
    BY <1>9, <1>10, <1>11, <1>12 DEF Thins

(* A character that joins the line stays where it is in the stream. *)
LEMMA JoinThins ==
  ASSUME IInv, PopRx, UNCHANGED wire, lineLength + 1 < LineCapacity,
         line' = [line EXCEPT ![lineLength + 1] = Head(rx)], lineLength' = lineLength + 1
  PROVE  Thins /\ Shifts
  <1>1. /\ rx \in Seq(Sent) /\ rx # <<>> /\ Len(rx) \in Nat
        /\ Head(rx) = rx[1]
        /\ Len(rx') = Len(rx) - 1
        /\ \A i \in 1 .. Len(rx) - 1 : rx'[i] = rx[i + 1]
    BY HeadTailProperties, LenProperties DEF IInv, LinkInv, PopRx
  <1>2. Len(rx) > 0
    BY <1>1, EmptySeq
  <1> DEFINE l == lineLength
             r == Len(rx)
             w == Len(wire)
  <1>3. l \in Nat /\ r \in Nat /\ r > 0 /\ w \in Nat /\ Count = l + r + w
    BY <1>2, StreamSizes
  <1>4. Len(wire') = w /\ wire' = wire /\ lineLength' = l + 1
    OBVIOUS
  <1>5. Count' = l + 1 + (r - 1) + w
    BY <1>1, <1>4 DEF Count
  <1>6. Count' = Count
    BY <1>3, <1>5
  <1>7. \A i \in 1 .. l + 1 : line'[i] = IF i <= l THEN line[i] ELSE rx[1]
    <2>1. DOMAIN line = 1 .. LineCapacity
      BY DEF IInv, LineInv, Buffers
    <2>. QED
      BY <1>1, <1>3, <2>1, Sizes
  <1> HIDE DEF l, r, w
  <1>8. ASSUME NEW i \in 1 .. Count PROVE Stream'[i] = Stream[i]
    <2>1. i \in 1 .. Count'
      BY <1>6
    <2>2. CASE i <= l
      <3>1. i <= l + 1 /\ i \in 1 .. l + 1
        BY <1>3, <2>2
      <3>. QED
        BY <1>4, <1>7, <2>1, <2>2, <3>1 DEF Stream, l
    <2>3. CASE i = l + 1
      <3>1. i <= l + 1 /\ i \in 1 .. l + 1 /\ ~(i <= l) /\ i <= l + r /\ i - l = 1
        BY <1>3, <2>3
      <3>2. Stream[i] = rx[1]
        BY <3>1 DEF Stream, l, r
      <3>3. Stream'[i] = line'[i]
        BY <1>4, <2>1, <3>1 DEF Stream
      <3>. QED
        BY <1>7, <3>1, <3>2, <3>3
    <2>4. CASE ~(i <= l + 1) /\ i <= l + r
      <3>1. /\ ~(i <= l) /\ i - (l + 1) \in 1 .. r - 1 /\ (i - (l + 1)) + 1 = i - l
            /\ i <= (l + 1) + (r - 1)
        BY <1>3, <2>4
      <3>2. Stream[i] = rx[i - l]
        BY <2>4, <3>1 DEF Stream, l, r
      <3>3. Stream'[i] = rx'[i - (l + 1)]
        BY <1>1, <1>4, <2>1, <2>4, <3>1 DEF Stream, r
      <3>. QED
        BY <1>1, <3>1, <3>2, <3>3 DEF r
    <2>5. CASE ~(i <= l + r)
      <3>1. /\ ~(i <= l) /\ ~(i <= l + 1) /\ ~(i <= (l + 1) + (r - 1))
            /\ (l + 1) + (r - 1) = l + r
        BY <1>3, <2>5
      <3>2. Stream[i] = wire[i - (l + r)]
        BY <2>5, <3>1 DEF Stream, l, r
      <3>3. Stream'[i] = wire'[i - ((l + 1) + (r - 1))]
        BY <1>1, <1>4, <2>1, <3>1 DEF Stream, r
      <3>. QED
        BY <1>4, <3>1, <3>2, <3>3
    <2>. QED
      BY <1>3, <2>2, <2>3, <2>4, <2>5
  <1> DEFINE f == [i \in 1 .. Count |-> i]
  <1>9. /\ f \in [1 .. Count' -> 1 .. Count]
        /\ \A i, j \in 1 .. Count' : i < j => f[i] < f[j]
        /\ \A i \in 1 .. Count' : Stream'[i] = Stream[f[i]]
    BY <1>6, <1>8
  <1>10. Shifts
    <2>1. Count' = Count - 0 /\ 0 \in 0 .. Count /\ \A i \in 1 .. Count : i + 0 = i
      BY <1>3, <1>6
    <2>2. \A i \in 1 .. Count' : Stream'[i] = Stream[i + 0]
      BY <1>6, <1>8, <2>1
    <2>. QED
      BY <2>1, <2>2 DEF Shifts
  <1>. QED
    BY <1>9, <1>10 DEF Thins

(* A line that ends or is cleared leaves the stream. *)
LEMMA ClearThins ==
  ASSUME IInv, PopRx, UNCHANGED wire, lineLength' = 0
  PROVE  Thins /\ Shifts
  <1>1. /\ rx \in Seq(Sent) /\ rx # <<>> /\ Len(rx) \in Nat
        /\ Len(rx') = Len(rx) - 1
        /\ \A i \in 1 .. Len(rx) - 1 : rx'[i] = rx[i + 1]
    BY HeadTailProperties, LenProperties DEF IInv, LinkInv, PopRx
  <1>2. Len(rx) > 0
    BY <1>1, EmptySeq
  <1> DEFINE l == lineLength
             r == Len(rx)
             w == Len(wire)
  <1>3. l \in Nat /\ r \in Nat /\ r > 0 /\ w \in Nat /\ Count = l + r + w
    BY <1>2, StreamSizes
  <1>4. Len(wire') = w /\ wire' = wire
    OBVIOUS
  <1>5. Count' = 0 + (r - 1) + w
    BY <1>1, <1>4 DEF Count
  <1> HIDE DEF l, r, w
  <1> DEFINE f == [i \in 1 .. Count' |-> i + (l + 1)]
  <1>6. f \in [1 .. Count' -> 1 .. Count] /\ \A i, j \in 1 .. Count' : i < j => f[i] < f[j]
    BY <1>3, <1>5
  <1>7. ASSUME NEW i \in 1 .. Count' PROVE Stream'[i] = Stream[f[i]]
    <2>1. /\ f[i] = i + (l + 1) /\ f[i] \in 1 .. Count
          /\ ~(f[i] <= l) /\ ~(i <= 0)
      BY <1>3, <1>5
    <2> HIDE DEF f
    <2>2. CASE i <= r - 1
      <3>1. i \in 1 .. r - 1 /\ f[i] - l = i + 1 /\ f[i] <= l + r /\ i <= 0 + (r - 1) /\ i - 0 = i
        BY <1>3, <2>1, <2>2
      <3>2. Stream[f[i]] = rx[i + 1]
        BY <2>1, <3>1 DEF Stream, l, r
      <3>3. Stream'[i] = rx'[i]
        BY <1>1, <2>1, <3>1 DEF Stream, r
      <3>. QED
        BY <1>1, <3>1, <3>2, <3>3 DEF r
    <2>3. CASE ~(i <= r - 1)
      <3>1. /\ ~(f[i] <= l + r) /\ ~(i <= 0 + (r - 1))
            /\ f[i] - (l + r) = i - (0 + (r - 1))
        BY <1>3, <1>5, <2>1, <2>3
      <3>2. Stream[f[i]] = wire[f[i] - (l + r)]
        BY <2>1, <3>1 DEF Stream, l, r
      <3>3. Stream'[i] = wire'[i - (0 + (r - 1))]
        BY <1>1, <2>1, <3>1 DEF Stream, r
      <3>. QED
        BY <1>4, <3>1, <3>2, <3>3
    <2>. QED
      BY <2>2, <2>3
  <1>8. Shifts
    <2>1. Count' = Count - (l + 1) /\ l + 1 \in 0 .. Count
      BY <1>3, <1>5
    <2>2. \A i \in 1 .. Count' : f[i] = i + (l + 1)
      OBVIOUS
    <2> HIDE DEF f
    <2>3. \A i \in 1 .. Count' : Stream'[i] = Stream[i + (l + 1)]
      BY <1>7, <2>2
    <2>. QED
      BY <2>1, <2>3 DEF Shifts
  <1> HIDE DEF f
  <1>. QED
    BY <1>6, <1>7, <1>8 DEF Thins

LEMMA SameThins ==
  ASSUME IInv, UNCHANGED transportVars
  PROVE  Thins /\ Shifts
  <1>1. Count \in Nat /\ Count' = Count /\ Stream' = Stream
    BY StreamSizes DEF transportVars, Count, Stream
  <1> DEFINE f == [i \in 1 .. Count |-> i]
  <1>2. /\ f \in [1 .. Count' -> 1 .. Count]
        /\ \A i, j \in 1 .. Count' : i < j => f[i] < f[j]
        /\ \A i \in 1 .. Count' : Stream'[i] = Stream[f[i]]
    BY <1>1
  <1>3. Shifts
    <2>1. Count' = Count - 0 /\ 0 \in 0 .. Count /\ \A i \in 1 .. Count : i + 0 = i
      BY <1>1
    <2>2. \A i \in 1 .. Count' : Stream'[i] = Stream[i + 0]
      BY <1>1, <2>1
    <2>. QED
      BY <2>1, <2>2 DEF Shifts
  <1>. QED
    BY <1>2, <1>3 DEF Thins

(* What the host sends joins the stream at its end. *)
LEMMA FrameGrows ==
  ASSUME IInv, NEW F \in Seq(Sent), wire' = wire \o F, UNCHANGED <<rx, line, lineLength>>
  PROVE  /\ Count' = Count + Len(F) /\ Len(F) \in Nat
         /\ \A i \in 1 .. Count : Stream'[i] = Stream[i]
         /\ \A j \in 1 .. Len(F) : Stream'[Count + j] = F[j]
  <1> DEFINE l == lineLength
             r == Len(rx)
             w == Len(wire)
             n == Len(F)
  <1>1. /\ l \in Nat /\ r \in Nat /\ w \in Nat /\ n \in Nat /\ Count = l + r + w
    BY StreamSizes, LenProperties
  <1>2. /\ Len(wire') = w + n
        /\ \A i \in 1 .. w + n : wire'[i] = IF i <= w THEN wire[i] ELSE F[i - w]
    BY ConcatProperties DEF IInv, LinkInv
  <1>3. Count' = l + r + (w + n)
    BY <1>2 DEF Count
  <1>4. lineLength' = l /\ line' = line /\ rx' = rx
    OBVIOUS
  <1> HIDE DEF l, r, w, n
  <1>5. ASSUME NEW i \in 1 .. Count PROVE Stream'[i] = Stream[i]
    <2>1. i \in 1 .. Count'
      BY <1>1, <1>3
    <2>2. CASE i <= l + r
      <3>1. i <= l \/ (~(i <= l) /\ i <= l + r)
        BY <1>1, <2>2
      <3>. QED
        BY <1>4, <2>1, <3>1 DEF Stream, l, r
    <2>3. CASE ~(i <= l + r)
      <3>1. ~(i <= l) /\ i - (l + r) \in 1 .. w /\ i - (l + r) \in 1 .. w + n /\ i - (l + r) <= w
        BY <1>1, <2>3
      <3>2. Stream[i] = wire[i - (l + r)]
        BY <2>3, <3>1 DEF Stream, l, r
      <3>3. Stream'[i] = wire'[i - (l + r)]
        BY <1>4, <2>1, <2>3, <3>1 DEF Stream, l, r
      <3>. QED
        BY <1>2, <3>1, <3>2, <3>3
    <2>. QED
      BY <2>2, <2>3
  <1>6. ASSUME NEW j \in 1 .. n PROVE Stream'[Count + j] = F[j]
    <2>1. /\ Count + j \in 1 .. Count' /\ ~(Count + j <= l) /\ ~(Count + j <= l + r)
          /\ (Count + j) - (l + r) \in 1 .. w + n /\ ~((Count + j) - (l + r) <= w)
          /\ ((Count + j) - (l + r)) - w = j
      BY <1>1, <1>3
    <2>2. Stream'[Count + j] = wire'[(Count + j) - (l + r)]
      BY <1>4, <2>1 DEF Stream, l, r
    <2>. QED
      BY <1>2, <2>1, <2>2
  <1>7. Count' = Count + n
    BY <1>1, <1>3
  <1>. QED
    BY <1>1, <1>5, <1>6, <1>7 DEF n

LEMMA Joined ==
  ASSUME NEW s \in Seq(Sent), NEW t \in Seq(Sent)
  PROVE  /\ s \o t \in Seq(Sent)
         /\ Len(s \o t) = Len(s) + Len(t)
         /\ \A i \in 1 .. Len(s) + Len(t) :
              (s \o t)[i] = IF i <= Len(s) THEN s[i] ELSE t[i - Len(s)]
  BY ConcatProperties

LEMMA FrameIs ==
  ASSUME NEW id \in Nat, NEW of \in Nat, NEW ok \in BOOLEAN, NEW length \in Nat
  PROVE  LET F == Frame(id, ok, Text(of, length))
         IN  /\ F \in Seq(Sent) /\ Len(F) = length + 6
             /\ F[1] = Prefix /\ F[2] = Id(id) /\ F[3] = Bar /\ F[4] = Status(ok) /\ F[5] = Bar
             /\ \A i \in 6 .. length + 5 : F[i] = Hex(of, i - 5)
             /\ F[length + 6] = Newline
  <1> DEFINE head == <<Prefix, Id(id), Bar, Status(ok), Bar>>
             text == Text(of, length)
             end == <<Newline>>
  <1>1. /\ head \in Seq(Sent) /\ Len(head) = 5
        /\ head[1] = Prefix /\ head[2] = Id(id) /\ head[3] = Bar
        /\ head[4] = Status(ok) /\ head[5] = Bar
    <2> HIDE DEF Sent
    <2>. QED
      BY CharKinds
  <1>2. text \in Seq(Sent) /\ Len(text) = length /\ \A i \in 1 .. length : text[i] = Hex(of, i)
    <2>1. \A i \in 1 .. length : Hex(of, i) \in Sent
      BY CharKinds
    <2>2. text \in [1 .. length -> Sent] /\ DOMAIN text = 1 .. length
      BY <2>1 DEF Text
    <2>. QED
      BY <2>2, LenProperties DEF Text
  <1>3. end \in Seq(Sent) /\ Len(end) = 1 /\ end[1] = Newline
    BY CharKinds
  <1> HIDE DEF head, text, end
  <1>4. /\ head \o text \in Seq(Sent) /\ Len(head \o text) = 5 + length
        /\ \A i \in 1 .. 5 + length : (head \o text)[i] = IF i <= 5 THEN head[i] ELSE text[i - 5]
    <2>1. Len(head) + Len(text) = 5 + length /\ Len(head) = 5
      BY <1>1, <1>2
    <2>2. /\ head \o text \in Seq(Sent) /\ Len(head \o text) = Len(head) + Len(text)
          /\ \A i \in 1 .. Len(head) + Len(text) :
               (head \o text)[i] = IF i <= Len(head) THEN head[i] ELSE text[i - Len(head)]
      <3>1. head \in Seq(Sent) /\ text \in Seq(Sent)
        BY <1>1, <1>2
      <3>. QED
        BY <3>1, Joined
    <2>. QED
      BY <2>1, <2>2
  <1> DEFINE F == head \o text \o end
  <1>5. /\ F \in Seq(Sent) /\ Len(F) = (5 + length) + 1
        /\ \A i \in 1 .. (5 + length) + 1 :
             F[i] = IF i <= 5 + length THEN (head \o text)[i] ELSE end[i - (5 + length)]
    <2>1. Len(head \o text) + Len(end) = (5 + length) + 1 /\ Len(head \o text) = 5 + length
      BY <1>3, <1>4
    <2>2. /\ F \in Seq(Sent) /\ Len(F) = Len(head \o text) + Len(end)
          /\ \A i \in 1 .. Len(head \o text) + Len(end) :
               F[i] = IF i <= Len(head \o text) THEN (head \o text)[i]
                                                ELSE end[i - Len(head \o text)]
      <3>1. head \o text \in Seq(Sent) /\ end \in Seq(Sent)
        BY <1>3, <1>4
      <3>. QED
        BY <3>1, Joined
    <2>. QED
      BY <2>1, <2>2
  <1> HIDE DEF F
  <1>6. ASSUME NEW i \in 1 .. 5 + length
        PROVE  F[i] = IF i <= 5 THEN head[i] ELSE text[i - 5]
    <2>1. i \in 1 .. (5 + length) + 1 /\ i <= 5 + length
      OBVIOUS
    <2>2. F[i] = (head \o text)[i]
      BY <1>5, <2>1
    <2>3. (head \o text)[i] = IF i <= 5 THEN head[i] ELSE text[i - 5]
      BY <1>4
    <2>. QED
      BY <2>2, <2>3
  <1>7. F[1] = Prefix /\ F[2] = Id(id) /\ F[3] = Bar /\ F[4] = Status(ok) /\ F[5] = Bar
    BY <1>1, <1>6
  <1>8. \A i \in 6 .. length + 5 : F[i] = Hex(of, i - 5)
    <2>1. \A i \in 6 .. length + 5 : i \in 1 .. 5 + length /\ ~(i <= 5) /\ i - 5 \in 1 .. length
      OBVIOUS
    <2>. QED
      BY <1>2, <1>6, <2>1
  <1>9. F[length + 6] = Newline
    <2>1. /\ length + 6 \in 1 .. (5 + length) + 1 /\ ~(length + 6 <= 5 + length)
          /\ (length + 6) - (5 + length) = 1
      OBVIOUS
    <2>. QED
      BY <1>3, <1>5, <2>1
  <1>10. F = Frame(id, ok, Text(of, length))
    BY DEF F, head, text, end, Frame
  <1>11. Len(F) = length + 6
    BY <1>5
  <1>. QED
    BY <1>5, <1>7, <1>8, <1>9, <1>10, <1>11

-----------------------------------------------------------------------------
(* Which request a character is about. Once the id of the request in the    *)
(* slot has come, only characters of its answer follow: the host answers   *)
(* in order and the slot has the newest request.                           *)
Follows(c) ==
  /\ c.kind \notin {"prefix", "id"}
  /\ c.kind = "hex" => c.of = task.id
  /\ c.kind = "status" => c = Status(sent[task.id].ok)

Owned ==
  task.type = "HNLANG" =>
    \A i \in 1 .. Count : Stream[i] = Id(task.id) =>
      /\ task.id \in DOMAIN sent
      /\ \A j \in 1 .. Count : i < j => Follows(Stream[j])
      /\ \A j, k \in 1 .. Count :
           i < j /\ j < k /\ Stream[j].kind = "hex" /\ Stream[k].kind = "hex" =>
             Stream[j].at < Stream[k].at

(* Ids are given out once, and frames wait in their order. *)
Known == \A i \in 1 .. Count, m \in Nat : Stream[i] = Id(m) => m < nextId

Waiting ==
  /\ nextId = task.id + 1
  /\ \A i \in 1 .. Len(outstanding) : outstanding[i].id \in 1 .. task.id
  /\ \A i, j \in 1 .. Len(outstanding) : i < j => outstanding[i].id < outstanding[j].id
  /\ task.type = "HNLANG" /\ task.id \in DOMAIN sent =>
       outstanding = <<>> /\ sent[task.id].ok \in BOOLEAN

AnswerInv == Owned /\ Known /\ Waiting /\ DoneIsOwnAnswer

LEMMA IdsDiffer ==
  /\ \A m, n \in Nat : Id(m) = Id(n) => m = n
  /\ \A n \in Nat : Id(n) \notin {Prefix, Bar, Newline, Status(TRUE), Status(FALSE), Nul}
  /\ \A m, n, i \in Nat : Hex(m, i) # Id(n)
  BY DEF Id, Prefix, Bar, Newline, Status, Nul, Hex, Char

LEMMA ThinKeepsKnown ==
  ASSUME Thins, Known, nextId \in Nat, nextId' \in Nat, nextId <= nextId'
  PROVE  Known'
  <1>1. PICK f \in [1 .. Count' -> 1 .. Count] :
          \A i \in 1 .. Count' : Stream'[i] = Stream[f[i]]
    BY DEF Thins
  <1>2. ASSUME NEW i \in 1 .. Count', NEW m \in Nat, Stream'[i] = Id(m)
        PROVE  m < nextId'
    <2>1. f[i] \in 1 .. Count /\ Stream[f[i]] = Id(m)
      BY <1>1, <1>2
    <2>2. m < nextId
      BY <2>1 DEF Known
    <2>. QED
      BY <2>2
  <1>. QED
    BY <1>2 DEF Known

LEMMA ThinKeepsOwned ==
  ASSUME Thins, Owned, task'.type = task.type, task'.id = task.id, sent' = sent
  PROVE  Owned'
  <1>1. PICK f \in [1 .. Count' -> 1 .. Count] :
          /\ \A i, j \in 1 .. Count' : i < j => f[i] < f[j]
          /\ \A i \in 1 .. Count' : Stream'[i] = Stream[f[i]]
    BY DEF Thins
  <1>2. SUFFICES ASSUME task.type = "HNLANG", NEW i \in 1 .. Count', Stream'[i] = Id(task.id)
                 PROVE  /\ task.id \in DOMAIN sent
                        /\ \A j \in 1 .. Count' : i < j => Follows(Stream'[j])
                        /\ \A j, k \in 1 .. Count' :
                             i < j /\ j < k /\ Stream'[j].kind = "hex" /\ Stream'[k].kind = "hex" =>
                               Stream'[j].at < Stream'[k].at
    BY DEF Owned, Follows
  <1>3. /\ f[i] \in 1 .. Count /\ Stream[f[i]] = Id(task.id)
        /\ \A j \in 1 .. Count' : f[j] \in 1 .. Count /\ Stream'[j] = Stream[f[j]]
    BY <1>1, <1>2
  <1>. QED
    BY <1>1, <1>2, <1>3 DEF Owned

(* Where ids and the rest of the characters stand in a frame. *)
Parted(F, id, of, ok, length) ==
  /\ F \in Seq(Sent) /\ Len(F) = length + 6
  /\ \A j \in 1 .. length + 6, m \in Nat : F[j] = Id(m) => j = 2 /\ m = id
  /\ \A j \in 1 .. length + 6 : j > 2 =>
       /\ F[j].kind \notin {"prefix", "id"}
       /\ F[j].kind = "hex" => F[j].of = of /\ F[j].at = j - 5
       /\ F[j].kind = "status" => F[j] = Status(ok)

LEMMA FrameParts ==
  ASSUME NEW id \in Nat, NEW of \in Nat, NEW ok \in BOOLEAN, NEW length \in Nat
  PROVE  Parted(Frame(id, ok, Text(of, length)), id, of, ok, length)
  <1> DEFINE F == Frame(id, ok, Text(of, length))
  <1>1. /\ F \in Seq(Sent) /\ Len(F) = length + 6
        /\ F[1] = Prefix /\ F[2] = Id(id) /\ F[3] = Bar /\ F[4] = Status(ok) /\ F[5] = Bar
        /\ \A i \in 6 .. length + 5 : F[i] = Hex(of, i - 5)
        /\ F[length + 6] = Newline
    BY FrameIs
  <1> HIDE DEF F
  <1>2. ASSUME NEW j \in 1 .. length + 6
        PROVE  /\ \A m \in Nat : F[j] = Id(m) => j = 2 /\ m = id
               /\ j > 2 => /\ F[j].kind \notin {"prefix", "id"}
                           /\ F[j].kind = "hex" => F[j].of = of /\ F[j].at = j - 5
                           /\ F[j].kind = "status" => F[j] = Status(ok)
    <2>1. j \in {1, 2, 3, 4, 5} \/ j \in 6 .. length + 5 \/ j = length + 6
      OBVIOUS
    <2>2. CASE j = 1
      BY <1>1, <2>2 DEF Prefix, Id, Char
    <2>3. CASE j = 2
      BY <1>1, <2>3 DEF Id, Char
    <2>4. CASE j = 3 \/ j = 5
      BY <1>1, <2>4 DEF Bar, Id, Char
    <2>5. CASE j = 4
      BY <1>1, <2>5 DEF Status, Id, Char
    <2>6. CASE j \in 6 .. length + 5
      <3>1. F[j] = Hex(of, j - 5) /\ j # 2 /\ j - 5 \in Nat
        BY <1>1, <2>6
      <3>2. F[j] = [kind |-> "hex", of |-> of, at |-> j - 5]
        BY <3>1 DEF Hex, Char
      <3>. QED
        BY <3>1, <3>2 DEF Id, Char
    <2>7. CASE j = length + 6
      BY <1>1, <2>7 DEF Newline, Id, Char
    <2>. QED
      BY <2>1, <2>2, <2>3, <2>4, <2>5, <2>6, <2>7
  <1>3. /\ \A j \in 1 .. length + 6, m \in Nat : F[j] = Id(m) => j = 2 /\ m = id
        /\ \A j \in 1 .. length + 6 : j > 2 =>
             /\ F[j].kind \notin {"prefix", "id"}
             /\ F[j].kind = "hex" => F[j].of = of /\ F[j].at = j - 5
             /\ F[j].kind = "status" => F[j] = Status(ok)
    BY <1>2
  <1>. QED
    BY <1>1, <1>3 DEF F, Parted

(* A step that only thins the stream and leaves the requests as they are.   *)
LEMMA ThinKeeps ==
  ASSUME IInv, AnswerInv, Thins, UNCHANGED <<nextId, outstanding, sent>>,
         task'.type = task.type, task'.id = task.id, DoneIsOwnAnswer'
  PROVE  AnswerInv'
  <1>1. nextId \in Nat
    BY Sizes DEF IInv, SlotInv
  <1>2. Known'
    BY <1>1, ThinKeepsKnown DEF AnswerInv
  <1>3. Owned'
    BY ThinKeepsOwned DEF AnswerInv
  <1>4. Waiting'
    BY DEF AnswerInv, Waiting
  <1>. QED
    BY <1>2, <1>3, <1>4 DEF AnswerInv

LEMMA InitAnswers == Init => AnswerInv
  <1> SUFFICES ASSUME Init PROVE AnswerInv
    OBVIOUS
  <1>1. task.id = 0 /\ task.type = "NONE" /\ nextId = 1 /\ outstanding = <<>>
    BY DEF Init, Task
  <1>2. Count = 0
    BY DEF Init, TransportInit, Count
  <1>3. Owned /\ DoneIsOwnAnswer
    BY <1>1 DEF Owned, DoneIsOwnAnswer
  <1>4. Known
    BY <1>2 DEF Known
  <1>5. Waiting
    BY <1>1 DEF Waiting
  <1>. QED
    BY <1>3, <1>4, <1>5 DEF AnswerInv

LEMMA SubmitAnswers ==
  ASSUME IInv, AnswerInv, SubmitHnlang
  PROVE  AnswerInv'
  <1>1. /\ task.id \in Nat /\ nextId \in Nat /\ nextId = task.id + 1
    BY Sizes DEF IInv, SlotInv, Tasks, AnswerInv, Waiting
  <1>2. /\ task'.id = nextId /\ task'.type = "HNLANG" /\ task'.status = "RUNNING"
        /\ nextId' = nextId + 1 /\ sent' = <<>>
    BY DEF SubmitHnlang, Task
  <1>3. Count' = Count /\ Stream' = Stream /\ Count \in Nat
    BY StreamSizes DEF SubmitHnlang, transportVars, Count, Stream
  <1>4. Known'
    BY <1>1, <1>2, <1>3 DEF Known, AnswerInv
  <1>5. Owned'
    BY <1>1, <1>2, <1>3 DEF Owned, Known, AnswerInv
  <1>6. DoneIsOwnAnswer'
    BY <1>2 DEF DoneIsOwnAnswer
  <1>7. Waiting'
    <2>1. PICK prompt \in Prompts :
            outstanding' = Append(outstanding, [id |-> nextId, prompt |-> prompt])
      BY DEF SubmitHnlang
    <2> DEFINE n == Len(outstanding)
    <2>2. n \in Nat
      BY LenProperties DEF IInv, HostInv
    <2>3. /\ Len(outstanding') = n + 1
          /\ \A i \in 1 .. n : outstanding'[i] = outstanding[i]
          /\ outstanding'[n + 1].id = nextId
      BY <2>1, AppendProperties DEF IInv, HostInv
    <2>4. \A i \in 1 .. n : outstanding[i].id \in 1 .. task.id
      BY DEF AnswerInv, Waiting
    <2>5. \A i, j \in 1 .. n : i < j => outstanding[i].id < outstanding[j].id
      BY DEF AnswerInv, Waiting
    <2> HIDE DEF n
    <2>6. \A i \in 1 .. n + 1 : i \in 1 .. n \/ i = n + 1
      BY <2>2
    <2>7. \A i \in 1 .. n + 1 : outstanding'[i].id \in 1 .. nextId
      BY <1>1, <2>3, <2>4, <2>6
    <2>8. \A i, j \in 1 .. n + 1 : i < j => i \in 1 .. n /\ (j \in 1 .. n \/ j = n + 1)
      BY <2>2
    <2>9. \A i, j \in 1 .. n + 1 : i < j => outstanding'[i].id < outstanding'[j].id
      BY <1>1, <2>3, <2>4, <2>5, <2>8
    <2>10. task'.id \notin DOMAIN sent'
      BY <1>2
    <2>. QED
      BY <1>2, <2>3, <2>7, <2>9, <2>10 DEF Waiting
  <1>. QED
    BY <1>4, <1>5, <1>6, <1>7 DEF AnswerInv

LEMMA LocalAnswers ==
  ASSUME IInv, AnswerInv, RequestLocal
  PROVE  AnswerInv'
  <1>1. /\ task.id \in Nat /\ nextId \in Nat /\ nextId = task.id + 1
    BY Sizes DEF IInv, SlotInv, Tasks, AnswerInv, Waiting
  <1>2. /\ task'.id = nextId /\ task'.type = "LOCAL" /\ nextId' = nextId + 1
        /\ outstanding' = outstanding
    BY DEF RequestLocal, Task
  <1>3. Count' = Count /\ Stream' = Stream
    BY DEF RequestLocal, transportVars, Count, Stream
  <1>4. Known'
    BY <1>1, <1>2, <1>3 DEF Known, AnswerInv
  <1>5. Owned' /\ DoneIsOwnAnswer'
    BY <1>2 DEF Owned, DoneIsOwnAnswer
  <1>6. Waiting'
    <2>1. \A i \in 1 .. Len(outstanding) : outstanding[i].id \in 1 .. nextId
      BY <1>1 DEF AnswerInv, Waiting
    <2>. QED
      BY <1>2, <2>1 DEF AnswerInv, Waiting
  <1>. QED
    BY <1>4, <1>5, <1>6 DEF AnswerInv

LEMMA CancelAnswers ==
  ASSUME IInv, AnswerInv, Cancel
  PROVE  AnswerInv'
  <1>1. task'.id = task.id /\ task'.type = task.type /\ task'.status = "CANCELLED"
    BY DEF Cancel, IInv, SlotInv, Tasks
  <1>2. DoneIsOwnAnswer'
    BY <1>1 DEF DoneIsOwnAnswer
  <1>. QED
    BY <1>1, <1>2, SameThins, ThinKeeps DEF Cancel

(* What the host puts on the wire for a request, and what it notes of it. *)
HostSent(request, reply, id, ok) ==
  /\ request.id \in Nat /\ reply.length \in Nat
  /\ wire' = wire \o Frame(id, ok, Text(request.id, reply.length))
  /\ IF request.prompt = "blank" THEN id = 0 ELSE id = request.id /\ ok = reply.ok
  /\ ~reply.ok \/ request.prompt # "blank"
  /\ sent' = IF request.id = task.id
               THEN [i \in {request.id} |->
                      [ok |-> reply.ok, text |-> Text(request.id, reply.length)]]
               ELSE sent

LEMMA HostSends ==
  ASSUME IInv, HostAnswer
  PROVE  \E reply \in Replies, id \in Nat, ok \in BOOLEAN :
           HostSent(Head(outstanding), reply, id, ok)
  <1>1. outstanding # <<>>
    BY DEF HostAnswer
  <1>2. Head(outstanding) \in [id : Nat, prompt : {"text", "blank"}]
    BY <1>1, HeadTailProperties DEF HostInv, IInv
  <1>3. \A reply \in Replies : reply.ok \in BOOLEAN /\ reply.length \in Nat
    BY BridgeAssumption
  <1>. QED
    BY <1>2, <1>3 DEF HostAnswer, HostSent

(* The host answers the oldest frame. A frame for the request in the slot   *)
(* is the last one, and the first to name that request.                    *)
LEMMA HostAnswers ==
  ASSUME IInv, AnswerInv, HostAnswer
  PROVE  AnswerInv'
  <1> DEFINE request == Head(outstanding)
  <1>1. PICK reply \in Replies, id \in Nat, ok \in BOOLEAN : HostSent(request, reply, id, ok)
    BY HostSends
  <1>2. /\ UNCHANGED <<rx, line, lineLength, task, nextId>>
        /\ outstanding' = Tail(outstanding)
    BY DEF HostAnswer
  <1> DEFINE n == Len(outstanding)
  <1>3. /\ n \in Nat /\ n >= 1 /\ request = outstanding[1]
        /\ Len(outstanding') = n - 1
        /\ \A i \in 1 .. n - 1 : outstanding'[i] = outstanding[i + 1]
    <2>1. outstanding # <<>> /\ outstanding \in Seq([id : Nat, prompt : {"text", "blank"}])
      BY DEF HostAnswer, IInv, HostInv
    <2>. QED
      BY <1>2, <2>1, HeadTailProperties, EmptySeq, LenProperties
  <1>4. /\ \A i \in 1 .. n : outstanding[i].id \in 1 .. task.id
        /\ \A i, j \in 1 .. n : i < j => outstanding[i].id < outstanding[j].id
        /\ task.type = "HNLANG" => task.id \notin DOMAIN sent
        /\ nextId = task.id + 1 /\ task.id \in Nat
    <2>1. outstanding # <<>>
      BY DEF HostAnswer
    <2>. QED
      BY <2>1, Sizes DEF AnswerInv, Waiting, IInv, SlotInv, Tasks
  <1> HIDE DEF n, request
  <1>5. request.id \in 1 .. task.id /\ id \in Nat /\ id < nextId /\ reply.length \in Nat
        /\ task.id \in Nat
    <2>1. reply.length \in Nat
      BY BridgeAssumption
    <2>. QED
      BY <1>1, <1>3, <1>4, <2>1 DEF HostSent
  <1> DEFINE F == Frame(id, ok, Text(request.id, reply.length))
             size == reply.length + 6
  <1>6. /\ F \in Seq(Sent) /\ Len(F) = size
        /\ \A j \in 1 .. size, m \in Nat : F[j] = Id(m) => j = 2 /\ m = id
        /\ \A j \in 1 .. size : j > 2 =>
             /\ F[j].kind \notin {"prefix", "id"}
             /\ F[j].kind = "hex" => F[j].of = request.id /\ F[j].at = j - 5
             /\ F[j].kind = "status" => F[j] = Status(ok)
    <2>1. Parted(F, id, request.id, ok, reply.length)
      <3>1. request.id \in Nat /\ reply.length \in Nat
        BY <1>5
      <3>. QED
        BY <3>1, FrameParts
    <2> HIDE DEF F
    <2>. QED
      BY <2>1 DEF Parted
  <1>7. size \in Nat /\ Count \in Nat
    BY <1>5, StreamSizes
  <1>8. wire' = wire \o F
    BY <1>1 DEF HostSent
  <1> HIDE DEF F, size
  <1>9. /\ Count' = Count + size
        /\ \A i \in 1 .. Count : Stream'[i] = Stream[i]
        /\ \A j \in 1 .. size : Stream'[Count + j] = F[j]
    BY <1>2, <1>6, <1>8, FrameGrows
  <1>10. \A i \in 1 .. Count' : i \in 1 .. Count
                                \/ (i - Count \in 1 .. size /\ i = Count + (i - Count))
    BY <1>7, <1>9
  <1>11. \A i \in 1 .. Count', m \in Nat : Stream'[i] = Id(m) =>
           \/ i \in 1 .. Count /\ Stream[i] = Id(m)
           \/ i = Count + 2 /\ m = id
    <2> SUFFICES ASSUME NEW i \in 1 .. Count', NEW m \in Nat, Stream'[i] = Id(m)
                 PROVE  \/ i \in 1 .. Count /\ Stream[i] = Id(m)
                        \/ i = Count + 2 /\ m = id
      OBVIOUS
    <2>1. CASE i \in 1 .. Count
      BY <1>9, <2>1
    <2>2. CASE i - Count \in 1 .. size /\ i = Count + (i - Count)
      <3>1. Stream'[i] = F[i - Count]
        BY <1>9, <2>2
      <3>2. i - Count = 2 /\ m = id
        BY <1>6, <2>2, <3>1
      <3>. QED
        BY <2>2, <3>2
    <2>. QED
      BY <1>10, <2>1, <2>2
  <1>12. Known'
    <2>1. \A i \in 1 .. Count', m \in Nat : Stream'[i] = Id(m) => m < nextId
      BY <1>5, <1>11 DEF AnswerInv, Known
    <2>. QED
      BY <1>2, <2>1 DEF Known
  <1>13. DoneIsOwnAnswer'
    <2>1. task.type = "HNLANG" => task.status # "DONE"
      BY <1>4 DEF AnswerInv, DoneIsOwnAnswer
    <2>. QED
      BY <1>2, <2>1 DEF DoneIsOwnAnswer
  <1>14. request.id = task.id => n = 1 /\ outstanding' = <<>>
    <2>1. ASSUME request.id = task.id, n # 1 PROVE FALSE
      <3>1. 1 \in 1 .. n /\ n \in 1 .. n /\ 1 < n
        BY <1>3, <2>1
      <3>2. outstanding[n].id \in 1 .. task.id /\ request.id < outstanding[n].id
        BY <1>3, <1>4, <3>1
      <3>. QED
        BY <1>5, <2>1, <3>2
    <2>2. ASSUME n = 1 PROVE outstanding' = <<>>
      <3>1. outstanding' \in Seq([id : Nat, prompt : {"text", "blank"}]) /\ Len(outstanding') = 0
        BY <1>3, <2>2, HostKeeps DEF IInv, HostInv
      <3>. QED
        BY <3>1, EmptySeq
    <2>. QED
      BY <2>1, <2>2
  <1>15. Waiting'
    <2>1. \A i \in 1 .. n - 1 : i + 1 \in 1 .. n
      BY <1>3
    <2>2. /\ \A i \in 1 .. n - 1 : outstanding'[i].id \in 1 .. task.id
          /\ \A i, j \in 1 .. n - 1 : i < j => outstanding'[i].id < outstanding'[j].id
      <3>1. \A i, j \in 1 .. n - 1 : i < j => i + 1 < j + 1
        BY <1>3
      <3>. QED
        BY <1>3, <1>4, <2>1, <3>1
    <2>3. task.type = "HNLANG" /\ task.id \in DOMAIN sent' =>
            outstanding' = <<>> /\ sent'[task.id].ok \in BOOLEAN
      <3>1. CASE request.id = task.id
        <4>1. reply.ok \in BOOLEAN
          BY BridgeAssumption
        <4>. QED
          BY <1>1, <1>14, <3>1, <4>1 DEF HostSent
      <3>2. CASE request.id # task.id
        BY <1>1, <1>4, <3>2 DEF HostSent
      <3>. QED
        BY <3>1, <3>2
    <2>. QED
      BY <1>2, <1>3, <1>4, <2>2, <2>3 DEF Waiting
  <1>16. Owned'
    <2>1. SUFFICES ASSUME task.type = "HNLANG", NEW i \in 1 .. Count', Stream'[i] = Id(task.id)
                   PROVE  /\ task.id \in DOMAIN sent'
                          /\ \A j \in 1 .. Count' : i < j => Follows(Stream[j])'
                          /\ \A j, k \in 1 .. Count' :
                               i < j /\ j < k /\ Stream'[j].kind = "hex" /\ Stream'[k].kind = "hex" =>
                                 Stream'[j].at < Stream'[k].at
      BY <1>2 DEF Owned, Follows
    <2>2. ~(i \in 1 .. Count /\ Stream[i] = Id(task.id))
      BY <1>4, <2>1 DEF AnswerInv, Owned
    <2>3. i = Count + 2 /\ task.id = id
      BY <1>4, <1>11, <2>1, <2>2
    <2>4. request.id = task.id /\ request.prompt # "blank" /\ ok = reply.ok
      BY <1>1, <1>5, <2>3 DEF HostSent
    <2>5. task.id \in DOMAIN sent' /\ sent'[task.id].ok = ok
      BY <1>1, <2>4 DEF HostSent
    <2>6. \A j \in 1 .. Count' : i < j =>
            /\ j - Count \in 1 .. size /\ j - Count > 2 /\ Stream'[j] = F[j - Count]
      <3> SUFFICES ASSUME NEW j \in 1 .. Count', i < j
                   PROVE  j - Count \in 1 .. size /\ j - Count > 2 /\ Stream'[j] = F[j - Count]
        OBVIOUS
      <3>1. j - Count \in 1 .. size /\ j - Count > 2 /\ j = Count + (j - Count)
        BY <1>7, <1>9, <2>3
      <3>. QED
        BY <1>9, <3>1
    <2>7. \A j \in 1 .. Count' : i < j =>
            /\ Stream'[j].kind \notin {"prefix", "id"}
            /\ Stream'[j].kind = "hex" => Stream'[j].of = task.id /\ Stream'[j].at = (j - Count) - 5
            /\ Stream'[j].kind = "status" => Stream'[j] = Status(ok)
      BY <1>6, <2>4, <2>6
    <2>8. \A j \in 1 .. Count' : i < j => Follows(Stream[j])'
      BY <1>2, <2>5, <2>7 DEF Follows
    <2>9. \A j, k \in 1 .. Count' : j < k => (j - Count) - 5 < (k - Count) - 5
      BY <1>7, <1>9
    <2>10. \A j, k \in 1 .. Count' :
             i < j /\ j < k /\ Stream'[j].kind = "hex" /\ Stream'[k].kind = "hex" =>
               Stream'[j].at < Stream'[k].at
      <3>1. \A j, k \in 1 .. Count' : i < j /\ j < k => i < k
        BY <1>7, <1>9
      <3>. QED
        BY <2>7, <2>9, <3>1
    <2>. QED
      BY <2>5, <2>8, <2>10
  <1>. QED
    BY <1>12, <1>13, <1>15, <1>16 DEF AnswerInv

LEMMA IrqAnswers ==
  ASSUME IInv, AnswerInv, SerialIrq
  PROVE  AnswerInv'
  <1>1. UNCHANGED <<line, lineLength>> /\ UNCHANGED <<task, nextId, outstanding, sent>>
    BY DEF SerialIrq, bridgeVars
  <1>2. PICK n \in 1 .. Len(wire) : CaptureRx(n)
    BY DEF SerialIrq
  <1>3. Thins
    <2>1. n \in 0 .. Len(wire)
      BY <1>2
    <2>. QED
      BY <1>1, <1>2, <2>1, CaptureThins
  <1>4. DoneIsOwnAnswer'
    BY <1>1 DEF AnswerInv, DoneIsOwnAnswer
  <1>. QED
    BY <1>1, <1>3, <1>4, ThinKeeps

LEMMA BeginAnswers ==
  ASSUME IInv, AnswerInv, PollBegin
  PROVE  AnswerInv'
  <1>1. UNCHANGED <<line, lineLength>> /\ UNCHANGED <<task, nextId, outstanding, sent>>
    BY DEF PollBegin
  <1>2. Thins
    BY <1>1, CaptureThins DEF PollBegin
  <1>3. DoneIsOwnAnswer'
    BY <1>1 DEF AnswerInv, DoneIsOwnAnswer
  <1>. QED
    BY <1>1, <1>2, <1>3, ThinKeeps

LEMMA CharAnswers ==
  ASSUME IInv, AnswerInv, PollChar
  PROVE  AnswerInv'
  <1>1. /\ UNCHANGED <<task, nextId, outstanding, sent>> /\ wire' = wire /\ PopRx
        /\ IF lineLength + 1 < LineCapacity
             THEN /\ line' = [line EXCEPT ![lineLength + 1] = Head(rx)]
                  /\ lineLength' = lineLength + 1
             ELSE lineLength' = 0
    BY DEF PollChar, TakeChar, bridgeVars
  <1>2. Thins
    <2>1. CASE lineLength + 1 < LineCapacity
      BY <1>1, <2>1, JoinThins
    <2>2. CASE ~(lineLength + 1 < LineCapacity)
      BY <1>1, <2>2, ClearThins
    <2>. QED
      BY <2>1, <2>2
  <1>3. DoneIsOwnAnswer'
    BY <1>1 DEF AnswerInv, DoneIsOwnAnswer
  <1>. QED
    BY <1>1, <1>2, <1>3, ThinKeeps

LEMMA LineAnswers ==
  ASSUME IInv, AnswerInv, PollLine
  PROVE  AnswerInv'
  <1>1. UNCHANGED <<task, nextId, outstanding, sent>>
    BY DEF PollLine, bridgeVars
  <1>2. Thins
    BY ClearThins DEF PollLine, TakeNewline
  <1>3. DoneIsOwnAnswer'
    BY <1>1 DEF AnswerInv, DoneIsOwnAnswer
  <1>. QED
    BY <1>1, <1>2, <1>3, ThinKeeps

(* The text of a line that has its five leading places ends where the line   *)
(* does: what an older line left in the buffer lies behind a NUL.           *)
LEMMA TextEndsWithLine ==
  ASSUME IInv, lineLength >= 5
  PROVE  /\ LineText(EndedLine) = SubSeq(EndedLine, 6, lineLength)
         /\ \A i \in 1 .. lineLength : EndedLine[i] = line[i] /\ EndedLine[i] # Nul
  <1> DEFINE l == lineLength
             b == EndedLine
  <1>1. l \in Nat /\ l <= LineCapacity - 1 /\ LineCapacity \in Nat /\ l >= 5
    BY Sizes DEF IInv, LineInv
  <1>2. line \in [1 .. LineCapacity -> Chars] /\ \A i \in 1 .. l : line[i] # Nul
    BY DEF IInv, LineInv, Buffers
  <1>3. b = [line EXCEPT ![l + 1] = Nul]
    BY DEF EndedLine
  <1> HIDE DEF b, l
  <1>4. l + 1 \in 1 .. LineCapacity
    BY <1>1
  <1>5. b[l + 1] = Nul /\ \A i \in 1 .. l : b[i] = line[i] /\ b[i] # Nul
    <2>1. \A i \in 1 .. l : i \in 1 .. LineCapacity /\ i # l + 1
      BY <1>1
    <2>. QED
      BY <1>2, <1>3, <1>4, <2>1
  <1> DEFINE Ends(k) == b[k] = Nul /\ \A j \in 6 .. (k - 1) : b[j] # Nul
             end == CHOOSE k \in 6 .. LineCapacity : Ends(k)
  <1>6. l + 1 \in 6 .. LineCapacity /\ Ends(l + 1)
    <2>1. \A j \in 6 .. ((l + 1) - 1) : j \in 1 .. l
      BY <1>1
    <2>. QED
      BY <1>1, <1>5, <2>1
  <1>7. end \in 6 .. LineCapacity /\ Ends(end)
    BY <1>6
  <1>8. LineText(b) = SubSeq(b, 6, end - 1)
    BY DEF LineText
  <1> HIDE DEF end
  <1>9. end = l + 1
    <2>1. ASSUME end < l + 1 PROVE FALSE
      <3>1. end \in 1 .. l
        BY <1>1, <1>7, <2>1
      <3>. QED
        BY <1>5, <1>7, <3>1
    <2>2. ASSUME l + 1 < end PROVE FALSE
      <3>1. l + 1 \in 6 .. (end - 1)
        BY <1>1, <1>7, <2>2
      <3>. QED
        BY <1>5, <1>7, <3>1
    <2>. QED
      BY <1>1, <1>7, <2>1, <2>2
  <1>10. end - 1 = l
    BY <1>1, <1>9
  <1>. QED
    BY <1>5, <1>8, <1>10 DEF b, l

(* An answer with a status has its five leading places.                     *)
LEMMA AnswerIsWhole ==
  ASSUME IInv, Answers(EndedLine, task.id), EndedLine[4] # Nul
  PROVE  /\ lineLength >= 5
         /\ LineText(EndedLine) = SubSeq(EndedLine, 6, lineLength)
         /\ \A i \in 1 .. lineLength : EndedLine[i] = line[i]
  <1>1. lineLength \in 0 .. (LineCapacity - 1) /\ LineCapacity \in Nat
    BY Sizes DEF IInv, LineInv
  <1>2. EndedLine[lineLength + 1] = Nul
    BY <1>1 DEF EndedLine, IInv, LineInv, Buffers
  <1>3. \A i \in {1, 2, 3, 4, 5} : EndedLine[i] # Nul
    BY DEF Answers, Prefix, Id, Bar, Nul, Char
  <1>4. lineLength + 1 \notin {1, 2, 3, 4, 5}
    BY <1>2, <1>3
  <1>5. lineLength >= 5
    BY <1>1, <1>4
  <1>. QED
    BY <1>5, TextEndsWithLine

LEMMA PollAnswers ==
  ASSUME IInv, AnswerInv, PollAnswer
  PROVE  AnswerInv'
  <1>1. UNCHANGED <<nextId, outstanding, sent>> /\ task'.id = task.id /\ task'.type = task.type
    BY AnsweredTask DEF PollAnswer
  <1>2. Thins
    BY ClearThins DEF PollAnswer, TakeNewline
  <1>3. DoneIsOwnAnswer'
    <2> SUFFICES ASSUME task'.type = "HNLANG", task'.status = "DONE"
                 PROVE  /\ task'.id \in DOMAIN sent'
                        /\ sent'[task'.id].ok
                        /\ \A i \in 1 .. Len(task'.output) : task'.output[i].of = task'.id
                        /\ \A i, j \in 1 .. Len(task'.output) :
                             i < j => task'.output[i].at < task'.output[j].at
      BY DEF DoneIsOwnAnswer
    <2> DEFINE status == IF EndedLine[4] = Status(TRUE) THEN "DONE" ELSE "ERROR"
               text == LineText(EndedLine)
    <2>1. task'.status = status /\ task'.output = text
      <3>1. text \in Seq(Chars) /\ status \in {"DONE", "ERROR"}
        BY EndedLineIsBuffer, LineTextFits DEF IInv
      <3>2. task' = [task EXCEPT !.status = status, !.output = text]
        BY DEF PollAnswer
      <3> HIDE DEF status, text
      <3>. QED
        BY <3>1, <3>2 DEF IInv, SlotInv, Tasks
    <2>2. Answers(EndedLine, task.id) /\ EndedLine[4] = Status(TRUE)
      <3>1. Answers(EndedLine, task.id)
        BY DEF PollAnswer
      <3>2. EndedLine[4] = Status(TRUE)
        BY <2>1
      <3>. QED
        BY <3>1, <3>2
    <2> DEFINE l == lineLength
    <2>3. /\ l >= 5 /\ text = SubSeq(EndedLine, 6, l)
          /\ \A i \in 1 .. l : EndedLine[i] = line[i]
      <3>1. EndedLine[4] # Nul
        BY <2>2 DEF Status, Nul, Char
      <3>. QED
        BY <2>2, <3>1, AnswerIsWhole
    <2>4. /\ l \in Nat /\ l < LineCapacity /\ LineCapacity \in Nat /\ Count \in Nat /\ l <= Count
      BY StreamSizes, Sizes DEF IInv, LineInv
    <2>5. Len(text) = l - 5 /\ \A i \in 1 .. l - 5 : text[i] = EndedLine[i + 5]
      <3>1. EndedLine \in Seq(Chars) /\ Len(EndedLine) = LineCapacity
        BY EndedLineIsBuffer, Sizes DEF IInv, Buffers
      <3>2. DOMAIN text = 1 .. (l - 6) + 1 /\ \A i \in 1 .. (l - 6) + 1 : text[i] = EndedLine[(i + 6) - 1]
        BY <2>3, <2>4
      <3>3. (l - 6) + 1 = l - 5 /\ l - 5 \in Nat /\ \A i \in 1 .. l - 5 : (i + 6) - 1 = i + 5
        BY <2>3, <2>4
      <3>. QED
        BY <3>2, <3>3, LenProperties
    <2> HIDE DEF text, l
    <2>6. \A i \in 1 .. l : i \in 1 .. Count /\ Stream[i] = EndedLine[i]
      <3>1. \A i \in 1 .. l : i \in 1 .. Count /\ i <= l
        BY <2>4
      <3>. QED
        BY <2>3, <3>1 DEF Stream, l
    <2>7. /\ 2 \in 1 .. l /\ 4 \in 1 .. l /\ 2 < 4
          /\ \A i \in 1 .. l - 5 : i + 5 \in 1 .. l /\ 2 < i + 5
          /\ \A i, j \in 1 .. l - 5 : i < j => i + 5 < j + 5
      BY <2>3, <2>4
    <2>8. Stream[2] = Id(task.id) /\ Stream[4] = Status(TRUE)
      BY <2>2, <2>6, <2>7 DEF Answers
    <2>9. /\ task.id \in DOMAIN sent
          /\ \A j \in 1 .. Count : 2 < j => Follows(Stream[j])
          /\ \A j, k \in 1 .. Count :
               2 < j /\ j < k /\ Stream[j].kind = "hex" /\ Stream[k].kind = "hex" =>
                 Stream[j].at < Stream[k].at
      BY <1>1, <2>6, <2>7, <2>8 DEF AnswerInv, Owned
    <2>10. sent[task.id].ok
      <3>1. Stream[4] = Status(sent[task.id].ok)
        BY <2>6, <2>7, <2>8, <2>9 DEF Follows, Status, Char
      <3>. QED
        BY <2>8, <3>1 DEF Status, Char
    <2>11. \A i \in 1 .. l - 5 : i + 5 \in 1 .. Count /\ text[i] = Stream[i + 5]
      BY <2>5, <2>6, <2>7
    <2>12. \A i \in 1 .. l - 5 : text[i].kind = "hex"
      BY <2>2, <2>5 DEF Answers, Decodes, text
    <2>13. \A i \in 1 .. l - 5 : text[i].of = task.id
      BY <2>7, <2>9, <2>11, <2>12 DEF Follows
    <2>14. \A i, j \in 1 .. l - 5 : i < j => text[i].at < text[j].at
      BY <2>7, <2>9, <2>11, <2>12
    <2>. QED
      BY <1>1, <2>1, <2>5, <2>9, <2>10, <2>13, <2>14
  <1>. QED
    BY <1>1, <1>2, <1>3, ThinKeeps

LEMMA NextAnswers == IInv /\ AnswerInv /\ [Next]_vars => AnswerInv'
  <1> SUFFICES ASSUME IInv, AnswerInv, [Next]_vars PROVE AnswerInv'
    OBVIOUS
  <1>1. CASE SubmitHnlang
    BY <1>1, SubmitAnswers
  <1>2. CASE RequestLocal
    BY <1>2, LocalAnswers
  <1>3. CASE Cancel
    BY <1>3, CancelAnswers
  <1>4. CASE HostAnswer
    BY <1>4, HostAnswers
  <1>5. CASE SerialIrq
    BY <1>5, IrqAnswers
  <1>6. CASE PollBegin
    BY <1>6, BeginAnswers
  <1>7. CASE PollChar
    BY <1>7, CharAnswers
  <1>8. CASE PollLine
    BY <1>8, LineAnswers
  <1>9. CASE PollAnswer
    BY <1>9, PollAnswers
  <1>10. CASE PollEnd \/ UNCHANGED vars
    <2>1. UNCHANGED transportVars /\ UNCHANGED <<task, nextId, outstanding, sent>>
      BY <1>10 DEF PollEnd, vars, bridgeVars
    <2>2. DoneIsOwnAnswer'
      BY <2>1 DEF AnswerInv, DoneIsOwnAnswer
    <2>. QED
      BY <2>1, <2>2, SameThins, ThinKeeps
  <1>. QED
    BY <1>1, <1>2, <1>3, <1>4, <1>5, <1>6, <1>7, <1>8, <1>9, <1>10 DEF Next, PollStep

(* A request that is DONE over COM2 shows only text of its own answer, in   *)
(* its order, and the host called it a success: whatever was cancelled,     *)
(* came late, or was dropped by the ring or the line buffer.               *)
THEOREM OwnAnswer == Spec => []DoneIsOwnAnswer
  <1>1. Init => IInv /\ AnswerInv
    BY InitInv, InitAnswers
  <1>2. IInv /\ AnswerInv /\ [Next]_vars => (IInv /\ AnswerInv)'
    BY NextKeeps, NextAnswers
  <1>3. IInv /\ AnswerInv => DoneIsOwnAnswer
    BY DEF AnswerInv
  <1>. QED
    BY <1>1, <1>2, <1>3, PTL DEF Spec
-----------------------------------------------------------------------------
(* As long as the ring has dropped nothing, a prefix in the stream is the   *)
(* start of a whole frame, and a frame that names the request in the slot   *)
(* carries the answer sent to it.                                          *)
FrameAt(i, id, of, ok, length) ==
  /\ i + (length + 5) <= Count
  /\ \A j \in 1 .. length + 6 :
       Stream[(i - 1) + j] = Frame(id, ok, Text(of, length))[j]

Tells(id, of, ok, length) ==
  task.type = "HNLANG" /\ id = task.id =>
    /\ of = task.id
    /\ task.id \in DOMAIN sent
    /\ sent[task.id] = [ok |-> ok, text |-> Text(of, length)]

Lengths == {reply.length : reply \in Replies}

Whole ==
  ~rxDropped =>
    \A i \in 1 .. Count : Stream[i] = Prefix =>
      \E id, of \in Nat, length \in Lengths, ok \in BOOLEAN :
        FrameAt(i, id, of, ok, length) /\ Tells(id, of, ok, length)

LEMMA LengthsAre == \A length \in Lengths : length \in Nat /\ length % 2 = 0
  BY BridgeAssumption DEF Lengths

LEMMA ShiftKeepsFrame ==
  ASSUME NEW d \in 0 .. Count, Count \in Nat, Count' = Count - d,
         \A i \in 1 .. Count' : Stream'[i] = Stream[i + d],
         NEW i \in 1 .. Count',
         NEW id \in Nat, NEW of \in Nat, NEW ok \in BOOLEAN, NEW length \in Nat,
         FrameAt(i + d, id, of, ok, length)
  PROVE  FrameAt(i, id, of, ok, length)'
  <1>1. i + (length + 5) <= Count'
    <2>1. (i + d) + (length + 5) <= Count
      BY DEF FrameAt
    <2>. QED
      BY <2>1
  <1>2. ASSUME NEW j \in 1 .. length + 6
        PROVE  Stream'[(i - 1) + j] = Frame(id, ok, Text(of, length))[j]
    <2>1. (i - 1) + j \in 1 .. Count' /\ ((i - 1) + j) + d = ((i + d) - 1) + j
      BY <1>1
    <2>2. Stream'[(i - 1) + j] = Stream[((i + d) - 1) + j]
      BY <2>1
    <2>. QED
      BY <2>2 DEF FrameAt
  <1>. QED
    BY <1>1, <1>2 DEF FrameAt

LEMMA ShiftKeepsWhole ==
  ASSUME IInv, Whole, ~rxDropped' => ~rxDropped /\ Shifts,
         task'.type = task.type, task'.id = task.id, sent' = sent
  PROVE  Whole'
  <1> SUFFICES ASSUME ~rxDropped', NEW i \in 1 .. Count', Stream'[i] = Prefix
               PROVE  \E id, of \in Nat, length \in Lengths, ok \in BOOLEAN :
                        FrameAt(i, id, of, ok, length)' /\ Tells(id, of, ok, length)'
    BY DEF Whole
  <1>1. PICK d \in 0 .. Count :
          /\ Count' = Count - d
          /\ \A k \in 1 .. Count' : Stream'[k] = Stream[k + d]
    BY DEF Shifts
  <1>2. Count \in Nat /\ i + d \in 1 .. Count
    BY <1>1, StreamSizes
  <1>3. Stream[i + d] = Prefix
    BY <1>1
  <1>4. PICK id \in Nat, of \in Nat, length \in Lengths, ok \in BOOLEAN :
          FrameAt(i + d, id, of, ok, length) /\ Tells(id, of, ok, length)
    BY <1>2, <1>3 DEF Whole
  <1>5. FrameAt(i, id, of, ok, length)'
    BY <1>1, <1>2, <1>4, LengthsAre, ShiftKeepsFrame
  <1>6. Tells(id, of, ok, length)'
    BY <1>4 DEF Tells
  <1>. QED
    BY <1>5, <1>6

LEMMA FrameNamesId ==
  ASSUME NEW i \in 1 .. Count, Count \in Nat,
         NEW id \in Nat, NEW of \in Nat, NEW ok \in BOOLEAN, NEW length \in Nat,
         FrameAt(i, id, of, ok, length)
  PROVE  i + 1 \in 1 .. Count /\ Stream[i + 1] = Id(id)
  <1>1. Frame(id, ok, Text(of, length))[2] = Id(id)
    BY FrameIs
  <1>2. i + (length + 5) <= Count /\ 2 \in 1 .. length + 6 /\ (i - 1) + 2 = i + 1
    BY DEF FrameAt
  <1>3. Stream[(i - 1) + 2] = Id(id)
    BY <1>1, <1>2 DEF FrameAt
  <1>4. i + 1 \in 1 .. Count
    BY <1>2
  <1>. QED
    BY <1>2, <1>3, <1>4

(* No frame in the stream names a request that is new. *)
LEMMA SubmitWhole ==
  ASSUME IInv, AnswerInv, Whole, SubmitHnlang
  PROVE  Whole'
  <1>1. /\ UNCHANGED rxDropped /\ task'.id = nextId /\ nextId \in Nat
        /\ Count' = Count /\ Stream' = Stream /\ Count \in Nat
    BY StreamSizes, Sizes
       DEF SubmitHnlang, Task, transportVars, Count, Stream, IInv, SlotInv
  <1> SUFFICES ASSUME ~rxDropped, NEW i \in 1 .. Count, Stream[i] = Prefix
               PROVE  \E id, of \in Nat, length \in Lengths, ok \in BOOLEAN :
                        FrameAt(i, id, of, ok, length)' /\ Tells(id, of, ok, length)'
    BY <1>1 DEF Whole
  <1>2. PICK id \in Nat, of \in Nat, length \in Lengths, ok \in BOOLEAN :
          FrameAt(i, id, of, ok, length)
    BY DEF Whole
  <1>3. id < nextId
    <2>1. i + 1 \in 1 .. Count /\ Stream[i + 1] = Id(id)
      BY <1>1, <1>2, LengthsAre, FrameNamesId
    <2>. QED
      BY <2>1 DEF AnswerInv, Known
  <1>4. Tells(id, of, ok, length)'
    BY <1>1, <1>3 DEF Tells
  <1>5. FrameAt(i, id, of, ok, length)'
    BY <1>1, <1>2 DEF FrameAt
  <1>. QED
    BY <1>4, <1>5

LEMMA LocalWhole ==
  ASSUME Whole, RequestLocal
  PROVE  Whole'
  <1>1. /\ UNCHANGED rxDropped /\ task'.type = "LOCAL"
        /\ Count' = Count /\ Stream' = Stream
    BY DEF RequestLocal, Task, transportVars, Count, Stream
  <1> SUFFICES ASSUME ~rxDropped, NEW i \in 1 .. Count, Stream[i] = Prefix
               PROVE  \E id, of \in Nat, length \in Lengths, ok \in BOOLEAN :
                        FrameAt(i, id, of, ok, length)' /\ Tells(id, of, ok, length)'
    BY <1>1 DEF Whole
  <1>2. PICK id \in Nat, of \in Nat, length \in Lengths, ok \in BOOLEAN :
          FrameAt(i, id, of, ok, length)
    BY DEF Whole
  <1>3. FrameAt(i, id, of, ok, length)'
    BY <1>1, <1>2 DEF FrameAt
  <1>4. Tells(id, of, ok, length)'
    BY <1>1 DEF Tells
  <1>. QED
    BY <1>3, <1>4

(* A frame has one prefix, its first place, and one newline, its last.      *)
LEMMA FrameMarks ==
  ASSUME NEW id \in Nat, NEW of \in Nat, NEW ok \in BOOLEAN, NEW length \in Nat,
         NEW j \in 1 .. length + 6
  PROVE  LET F == Frame(id, ok, Text(of, length))
         IN  (F[j] = Prefix => j = 1) /\ (F[j] = Newline => j = length + 6)
  <1> DEFINE F == Frame(id, ok, Text(of, length))
  <1>1. /\ F[1] = Prefix /\ F[2] = Id(id) /\ F[3] = Bar /\ F[4] = Status(ok) /\ F[5] = Bar
        /\ \A i \in 6 .. length + 5 : F[i] = Hex(of, i - 5)
        /\ F[length + 6] = Newline
    BY FrameIs
  <1> HIDE DEF F
  <1>2. j \in {1, 2, 3, 4, 5} \/ j \in 6 .. length + 5 \/ j = length + 6
    OBVIOUS
  <1>3. CASE j \in {1, 2, 3, 4, 5}
    <2>1. (F[j] = Prefix => j = 1) /\ F[j] # Newline
      BY <1>1, <1>3 DEF Prefix, Id, Bar, Status, Newline, Char
    <2>. QED
      BY <2>1 DEF F
  <1>4. CASE j \in 6 .. length + 5
    <2>1. F[j] = Hex(of, j - 5)
      BY <1>1, <1>4
    <2>2. F[j].kind = "hex"
      BY <2>1 DEF Hex, Char
    <2>3. F[j] # Prefix /\ F[j] # Newline
      BY <2>2 DEF Prefix, Newline, Char
    <2>. QED
      BY <2>3 DEF F
  <1>5. CASE j = length + 6
    <2>1. F[j] # Prefix
      BY <1>1, <1>5 DEF Prefix, Newline, Char
    <2>. QED
      BY <1>5, <2>1 DEF F
  <1>. QED
    BY <1>2, <1>3, <1>4, <1>5

(* The frame that the host sends is whole, and no other tells of its request. *)
LEMMA HostWhole ==
  ASSUME IInv, AnswerInv, Whole, HostAnswer
  PROVE  Whole'
  <1> DEFINE request == Head(outstanding)
  <1>1. PICK reply \in Replies, id \in Nat, ok \in BOOLEAN : HostSent(request, reply, id, ok)
    BY HostSends
  <1>2. UNCHANGED <<rx, rxDropped, line, lineLength, task>> /\ outstanding # <<>>
    BY DEF HostAnswer
  <1>3. reply.length \in Nat /\ \E of \in Nat : of = request.id
    BY <1>1 DEF HostSent
  <1>4. PICK of \in Nat : of = request.id
    BY <1>3
  <1>5. /\ task.type = "HNLANG" => task.id \notin DOMAIN sent
        /\ of \in 1 .. task.id /\ task.id \in Nat
    <2>1. /\ outstanding \in Seq([id : Nat, prompt : {"text", "blank"}])
          /\ task.id \in Nat
      BY Sizes DEF IInv, HostInv, SlotInv, Tasks
    <2>2. 1 \in 1 .. Len(outstanding) /\ request = outstanding[1]
      BY <1>2, <2>1, EmptySeq, LenProperties, HeadTailProperties
    <2>3. /\ task.type = "HNLANG" => task.id \notin DOMAIN sent
          /\ outstanding[1].id \in 1 .. task.id
      BY <1>2, <2>2 DEF AnswerInv, Waiting
    <2>. QED
      BY <1>4, <2>1, <2>2, <2>3
  <1> HIDE DEF request
  <1> DEFINE F == Frame(id, ok, Text(of, reply.length))
             size == reply.length + 6
  <1>6. F \in Seq(Sent) /\ Len(F) = size
    <2>1. Parted(F, id, of, ok, reply.length)
      BY <1>3, <1>4, FrameParts
    <2> HIDE DEF F
    <2>. QED
      BY <2>1 DEF Parted
  <1>7. wire' = wire \o F
    BY <1>1, <1>4 DEF HostSent
  <1>8. \A j \in 1 .. size : F[j] = Prefix => j = 1
    BY <1>3, FrameMarks
  <1>9. size \in Nat /\ Count \in Nat
    BY <1>3, StreamSizes
  <1> HIDE DEF F, size
  <1>10. /\ Count' = Count + size
         /\ \A i \in 1 .. Count : Stream'[i] = Stream[i]
         /\ \A j \in 1 .. size : Stream'[Count + j] = F[j]
    BY <1>2, <1>6, <1>7, FrameGrows
  <1> SUFFICES ASSUME ~rxDropped, NEW i \in 1 .. Count', Stream'[i] = Prefix
               PROVE  \E x, about \in Nat, length \in Lengths, y \in BOOLEAN :
                        FrameAt(i, x, about, y, length)' /\ Tells(x, about, y, length)'
    BY <1>2 DEF Whole
  <1>11. CASE i \in 1 .. Count
    <2>1. PICK x \in Nat, about \in Nat, length \in Lengths, y \in BOOLEAN :
            FrameAt(i, x, about, y, length) /\ Tells(x, about, y, length)
      BY <1>10, <1>11 DEF Whole
    <2>2. FrameAt(i, x, about, y, length)'
      <3>1. i + (length + 5) <= Count
        BY <2>1 DEF FrameAt
      <3>2. i + (length + 5) <= Count' /\ length \in Nat
        BY <1>9, <1>10, <3>1, LengthsAre
      <3>3. \A j \in 1 .. length + 6 : (i - 1) + j \in 1 .. Count
        BY <1>9, <1>11, <3>1, <3>2
      <3>. QED
        BY <1>10, <2>1, <3>2, <3>3 DEF FrameAt
    <2>3. Tells(x, about, y, length)'
      BY <1>2, <1>5, <2>1 DEF Tells
    <2>. QED
      BY <2>2, <2>3
  <1>12. CASE ~(i \in 1 .. Count)
    <2>1. i - Count \in 1 .. size /\ i = Count + (i - Count)
      BY <1>9, <1>10, <1>12
    <2>2. i = Count + 1
      <3>1. Stream'[i] = F[i - Count]
        BY <1>9, <1>10, <2>1
      <3>2. i - Count = 1
        BY <1>8, <2>1, <3>1
      <3>. QED
        BY <2>1, <3>2
    <2>3. FrameAt(i, id, of, ok, reply.length)'
      <3>1. i + (reply.length + 5) <= Count'
        BY <1>3, <1>9, <1>10, <2>2 DEF size
      <3>2. \A j \in 1 .. reply.length + 6 : j \in 1 .. size /\ (i - 1) + j = Count + j
        <4>1. i - 1 = Count
          BY <1>9, <2>2
        <4>. QED
          BY <4>1 DEF size
      <3>3. ASSUME NEW j \in 1 .. reply.length + 6 PROVE Stream'[(i - 1) + j] = F[j]
        <4>1. j \in 1 .. size /\ (i - 1) + j = Count + j
          BY <3>2
        <4>2. Stream'[Count + j] = F[j]
          BY <1>9, <1>10, <4>1
        <4>. QED
          BY <4>1, <4>2
      <3>. QED
        BY <3>1, <3>3 DEF FrameAt, F
    <2>4. Tells(id, of, ok, reply.length)'
      <3> SUFFICES ASSUME task.type = "HNLANG", id = task.id
                   PROVE  /\ of = task.id
                          /\ task.id \in DOMAIN sent'
                          /\ sent'[task.id] = [ok |-> ok, text |-> Text(of, reply.length)]
        BY <1>2 DEF Tells
      <3>1. of = task.id /\ ok = reply.ok
        BY <1>1, <1>4, <1>5 DEF HostSent
      <3>2. sent' = [k \in {of} |-> [ok |-> reply.ok, text |-> Text(of, reply.length)]]
        BY <1>1, <1>4, <3>1 DEF HostSent
      <3>. QED
        BY <3>1, <3>2
    <2>5. reply.length \in Lengths
      BY DEF Lengths
    <2>. QED
      BY <2>3, <2>4, <2>5
  <1>. QED
    BY <1>11, <1>12

(* The unfinished line is the front of the stream, and the oldest character  *)
(* of the ring comes next.                                                 *)
LEMMA LineAhead ==
  ASSUME IInv, rx # <<>>
  PROVE  /\ lineLength \in Nat /\ Count \in Nat /\ lineLength + 1 \in 1 .. Count
         /\ lineLength < LineCapacity /\ LineCapacity \in Nat
         /\ Stream[lineLength + 1] = Head(rx)
         /\ \A i \in 1 .. lineLength : /\ i \in 1 .. Count /\ Stream[i] = EndedLine[i]
                                       /\ Stream[i] # Newline
  <1> DEFINE l == lineLength
  <1>1. /\ l \in Nat /\ l < LineCapacity /\ LineCapacity \in Nat
        /\ Count \in Nat /\ l + 1 <= Count /\ Len(rx) >= 1
    <2>1. Len(rx) # 0
      BY EmptySeq DEF IInv, LinkInv
    <2>. QED
      BY <2>1, StreamSizes, Sizes DEF IInv, LineInv
  <1>2. \A i \in 1 .. l : /\ i \in 1 .. Count /\ Stream[i] = EndedLine[i]
                          /\ Stream[i] # Newline
    <2>1. \A i \in 1 .. l : i \in 1 .. Count /\ i \in 1 .. LineCapacity /\ i <= l /\ i # l + 1
      BY <1>1
    <2>2. line \in [1 .. LineCapacity -> Chars] /\ \A i \in 1 .. l : line[i] # Newline
      BY DEF IInv, LineInv, Buffers
    <2>. QED
      BY <2>1, <2>2 DEF Stream, EndedLine
  <1>3. Stream[l + 1] = Head(rx)
    <2>1. l + 1 \in 1 .. Count /\ ~(l + 1 <= l) /\ l + 1 <= l + Len(rx) /\ (l + 1) - l = 1
      BY <1>1
    <2>2. rx[1] = Head(rx)
      BY HeadTailProperties DEF IInv, LinkInv
    <2>. QED
      BY <2>1, <2>2 DEF Stream
  <1>. QED
    BY <1>1, <1>2, <1>3

(* A line that starts with a prefix is a whole frame when it ends, since     *)
(* only the end of a frame is a newline.                                   *)
LEMMA LineIsFrame ==
  ASSUME IInv, Whole, ~rxDropped, rx # <<>>, Head(rx) = Newline, Stream[1] = Prefix
  PROVE  \E id, of \in Nat, length \in Lengths, ok \in BOOLEAN :
           /\ FrameAt(1, id, of, ok, length) /\ Tells(id, of, ok, length)
           /\ lineLength = length + 5
           /\ \A j \in 1 .. length + 5 : EndedLine[j] = Frame(id, ok, Text(of, length))[j]
  <1> DEFINE l == lineLength
  <1>1. l \in Nat /\ Count \in Nat /\ l + 1 <= Count
    BY LineAhead
  <1>2. \A i \in 1 .. l : /\ i \in 1 .. Count /\ Stream[i] = EndedLine[i]
                          /\ Stream[i] # Newline
    BY LineAhead
  <1>3. Stream[l + 1] = Newline
    BY LineAhead
  <1>4. PICK id \in Nat, of \in Nat, length \in Lengths, ok \in BOOLEAN :
          FrameAt(1, id, of, ok, length) /\ Tells(id, of, ok, length)
    <2>1. 1 \in 1 .. Count
      BY <1>1
    <2>. QED
      BY <2>1 DEF Whole
  <1>5. length \in Nat
    BY LengthsAre
  <1> DEFINE F == Frame(id, ok, Text(of, length))
  <1>6. F[length + 6] = Newline /\ \A j \in 1 .. length + 6 : F[j] = Newline => j = length + 6
    <2>1. F[length + 6] = Newline
      BY <1>5, FrameIs
    <2>2. ASSUME NEW j \in 1 .. length + 6 PROVE F[j] = Newline => j = length + 6
      BY <1>5, FrameMarks
    <2> HIDE DEF F
    <2>. QED
      BY <2>1, <2>2
  <1>7. /\ length + 6 <= Count
        /\ \A j \in 1 .. length + 6 : j \in 1 .. Count /\ Stream[j] = F[j]
    <2>1. 1 + (length + 5) <= Count
      BY <1>4 DEF FrameAt
    <2>2. \A j \in 1 .. length + 6 : (1 - 1) + j = j /\ j \in 1 .. Count
      BY <1>1, <1>5, <2>1
    <2>3. \A j \in 1 .. length + 6 : Stream[(1 - 1) + j] = F[j]
      BY <1>4 DEF FrameAt
    <2>4. length + 6 <= Count
      BY <1>5, <2>1
    <2> HIDE DEF F
    <2>. QED
      BY <2>2, <2>3, <2>4
  <1> HIDE DEF F, l
  <1>8. l = length + 5
    <2>1. ~(l >= length + 6)
      <3>1. ASSUME l >= length + 6 PROVE FALSE
        <4>1. length + 6 \in 1 .. l /\ length + 6 \in 1 .. length + 6
          BY <1>1, <1>5, <3>1
        <4>. QED
          BY <1>2, <1>6, <1>7, <4>1
      <3>. QED
        BY <3>1
    <2>2. l + 1 \in 1 .. length + 6
      BY <1>1, <1>5, <2>1
    <2>3. l + 1 = length + 6
      BY <1>3, <1>6, <1>7, <2>2
    <2>. QED
      BY <1>1, <1>5, <2>3
  <1>9. \A j \in 1 .. length + 5 : EndedLine[j] = F[j]
    <2>1. \A j \in 1 .. length + 5 : j \in 1 .. l /\ j \in 1 .. length + 6
      BY <1>5, <1>8
    <2>. QED
      BY <1>2, <1>7, <2>1
  <1>. QED
    BY <1>4, <1>8, <1>9 DEF F, l

(* What hnm_ai_serial_parse_response reads from a line that is a frame.     *)
LEMMA FrameIsRead ==
  ASSUME IInv, NEW id \in Nat, NEW of \in Nat, NEW ok \in BOOLEAN, NEW length \in Nat,
         lineLength = length + 5,
         \A j \in 1 .. length + 5 : EndedLine[j] = Frame(id, ok, Text(of, length))[j]
  PROVE  /\ EndedLine[1] = Prefix /\ EndedLine[2] = Id(id) /\ EndedLine[3] = Bar
         /\ EndedLine[4] = Status(ok) /\ EndedLine[5] = Bar
         /\ LineText(EndedLine) = Text(of, length)
  <1> DEFINE F == Frame(id, ok, Text(of, length))
             l == lineLength
             text == LineText(EndedLine)
  <1>1. /\ F[1] = Prefix /\ F[2] = Id(id) /\ F[3] = Bar /\ F[4] = Status(ok) /\ F[5] = Bar
        /\ \A i \in 6 .. length + 5 : F[i] = Hex(of, i - 5)
    BY FrameIs
  <1>2. \A j \in 1 .. length + 5 : EndedLine[j] = F[j]
    OBVIOUS
  <1> HIDE DEF F
  <1>3. /\ EndedLine[1] = Prefix /\ EndedLine[2] = Id(id) /\ EndedLine[3] = Bar
        /\ EndedLine[4] = Status(ok) /\ EndedLine[5] = Bar
    <2>1. \A j \in {1, 2, 3, 4, 5} : j \in 1 .. length + 5
      OBVIOUS
    <2>. QED
      BY <1>1, <1>2, <2>1
  <1>4. text = SubSeq(EndedLine, 6, l)
    BY TextEndsWithLine
  <1> HIDE DEF text
  <1>5. EndedLine \in Seq(Chars) /\ Len(EndedLine) = LineCapacity
    BY EndedLineIsBuffer, Sizes DEF IInv, Buffers
  <1>6. /\ l \in Nat /\ l < LineCapacity /\ LineCapacity \in Nat /\ l = length + 5
    BY Sizes DEF IInv, LineInv
  <1> HIDE DEF l
  <1>7. /\ DOMAIN text = 1 .. (l - 6) + 1
        /\ \A i \in 1 .. (l - 6) + 1 : text[i] = EndedLine[(i + 6) - 1]
    <2>1. /\ text \in Seq(Chars) /\ 6 <= l + 1
          /\ Len(text) = IF 6 <= l THEN l - 6 + 1 ELSE 0
          /\ \A i \in 1 .. l - 6 + 1 : text[i] = EndedLine[6 + i - 1]
      BY ONLY <1>4, <1>5, <1>6, SubSeqProperties, length \in Nat
    <2>2. Len(text) = (l - 6) + 1
      BY ONLY <1>6, <2>1, length \in Nat
    <2>3. DOMAIN text = 1 .. Len(text)
      BY ONLY <2>1
    <2>. QED
      BY ONLY <1>6, <2>1, <2>2, <2>3
  <1>8. (l - 6) + 1 = length /\ \A i \in 1 .. length : (i + 6) - 1 = i + 5
    BY <1>6
  <1>9. \A i \in 1 .. length : i + 5 \in 6 .. length + 5 /\ i + 5 \in 1 .. length + 5
                                /\ (i + 5) - 5 = i
    OBVIOUS
  <1>10. \A i \in 1 .. length : text[i] = Hex(of, i)
    BY <1>1, <1>2, <1>7, <1>8, <1>9
  <1>11. text \in Seq(Chars)
    BY EndedLineIsBuffer, LineTextFits DEF IInv, text
  <1>12. text = [i \in 1 .. length |-> text[i]]
    BY <1>7, <1>8, <1>11
  <1>13. text = Text(of, length)
    BY <1>10, <1>12 DEF Text
  <1>. QED
    BY <1>3, <1>13 DEF text

(* A line taken for an answer is a frame that names the request, so it tells *)
(* of that request.                                                        *)
LEMMA PollExact ==
  ASSUME IInv, Whole, PollAnswer
  PROVE  AnswerIsExact'
  <1> SUFFICES ASSUME ~rxDropped, task.type = "HNLANG"
               PROVE  /\ task.id \in DOMAIN sent
                      /\ task'.output = sent[task.id].text
                      /\ sent[task.id].ok <=> task'.status = "DONE"
    BY AnsweredTask DEF AnswerIsExact, PollAnswer
  <1> DEFINE status == IF EndedLine[4] = Status(TRUE) THEN "DONE" ELSE "ERROR"
             text == LineText(EndedLine)
  <1>1. task'.status = status /\ task'.output = text
    <2>1. text \in Seq(Chars) /\ status \in {"DONE", "ERROR"}
      BY EndedLineIsBuffer, LineTextFits DEF IInv
    <2>2. task' = [task EXCEPT !.status = status, !.output = text]
      BY DEF PollAnswer
    <2> HIDE DEF status, text
    <2>. QED
      BY <2>1, <2>2 DEF IInv, SlotInv, Tasks
  <1>2. Answers(EndedLine, task.id) /\ rx # <<>> /\ Head(rx) = Newline /\ task.id \in Nat
    BY Sizes DEF PollAnswer, TakeNewline, PopRx, IInv, SlotInv, Tasks
  <1>3. lineLength \in Nat /\ lineLength < LineCapacity /\ LineCapacity \in Nat
    BY Sizes DEF IInv, LineInv
  <1>4. EndedLine[lineLength + 1] = Nul
    BY <1>3 DEF IInv, LineInv, Buffers, EndedLine
  <1>5. lineLength # 0
    <2>1. EndedLine[1] # Nul
      BY <1>2 DEF Answers, Prefix, Nul, Char
    <2>. QED
      BY <1>4, <2>1
  <1>6. Stream[1] = Prefix
    <2>1. 1 <= lineLength /\ 1 \in 1 .. Count /\ 1 \in 1 .. LineCapacity /\ 1 # lineLength + 1
      BY <1>3, <1>5, StreamSizes
    <2>2. EndedLine[1] = line[1]
      BY <2>1 DEF IInv, LineInv, Buffers, EndedLine
    <2>. QED
      BY <1>2, <2>1, <2>2 DEF Answers, Stream
  <1>7. PICK id \in Nat, of \in Nat, length \in Lengths, ok \in BOOLEAN :
          /\ Tells(id, of, ok, length)
          /\ lineLength = length + 5
          /\ \A j \in 1 .. length + 5 : EndedLine[j] = Frame(id, ok, Text(of, length))[j]
    BY <1>2, <1>6, LineIsFrame
  <1>8. length \in Nat
    BY LengthsAre
  <1>9. /\ EndedLine[2] = Id(id) /\ EndedLine[4] = Status(ok)
        /\ LineText(EndedLine) = Text(of, length)
    BY <1>7, <1>8, FrameIsRead
  <1>10. id = task.id
    BY <1>2, <1>9, IdsDiffer DEF Answers
  <1>11. /\ task.id \in DOMAIN sent
         /\ sent[task.id] = [ok |-> ok, text |-> Text(of, length)]
    BY <1>7, <1>10 DEF Tells
  <1>12. ok <=> status = "DONE"
    <2>1. (EndedLine[4] = Status(TRUE)) <=> ok
      BY <1>9 DEF Status, Char
    <2>. QED
      BY <2>1
  <1> HIDE DEF status
  <1>. QED
    BY <1>1, <1>9, <1>11, <1>12

(* The steps that take characters from the front of the stream, or drop some *)
(* and note it, and do not end the request.                                 *)
LEMMA QuietWhole ==
  ASSUME IInv, Whole, AnswerIsExact,
         \/ Cancel \/ SerialIrq \/ PollBegin \/ PollChar \/ PollLine
         \/ PollEnd \/ UNCHANGED vars
  PROVE  Whole' /\ AnswerIsExact'
  <1>1. /\ task'.type = task.type /\ task'.id = task.id /\ sent' = sent
        /\ task' = task \/ task'.status = "CANCELLED"
    BY DEF Cancel, SerialIrq, PollBegin, PollChar, PollLine, PollEnd, vars, bridgeVars,
           IInv, SlotInv, Tasks
  <1>2. CASE SerialIrq \/ PollBegin
    <2>1. PICK n \in 0 .. Len(wire) : CaptureRx(n)
      BY <1>2 DEF SerialIrq, PollBegin
    <2>2. UNCHANGED <<line, lineLength>>
      BY <1>2 DEF SerialIrq, PollBegin
    <2>3. ~rxDropped' => ~rxDropped /\ Shifts
      BY <2>1, <2>2, CaptureThins DEF CaptureRx
    <2>4. Whole'
      BY <1>1, <2>3, ShiftKeepsWhole
    <2>5. task' = task
      BY <1>2 DEF SerialIrq, PollBegin, bridgeVars
    <2>. QED
      BY <1>1, <2>3, <2>4, <2>5 DEF AnswerIsExact
  <1>3. CASE Cancel \/ PollChar \/ PollLine \/ PollEnd \/ UNCHANGED vars
    <2>1. UNCHANGED rxDropped
      BY <1>3 DEF Cancel, PollChar, PollLine, PollEnd, transportVars, vars
    <2>2. Shifts
      <3>1. CASE PollChar
        <4>1. CASE lineLength + 1 < LineCapacity
          BY <3>1, <4>1, JoinThins DEF PollChar, TakeChar
        <4>2. CASE ~(lineLength + 1 < LineCapacity)
          BY <3>1, <4>2, ClearThins DEF PollChar, TakeChar
        <4>. QED
          BY <4>1, <4>2
      <3>2. CASE PollLine
        BY <3>2, ClearThins DEF PollLine, TakeNewline
      <3>3. CASE Cancel \/ PollEnd \/ UNCHANGED vars
        <4>1. UNCHANGED transportVars
          BY <3>3 DEF Cancel, PollEnd, vars
        <4>. QED
          BY <4>1, SameThins
      <3>. QED
        BY <1>3, <3>1, <3>2, <3>3
    <2>3. Whole'
      BY <1>1, <2>1, <2>2, ShiftKeepsWhole
    <2>. QED
      BY <1>1, <2>1, <2>3 DEF AnswerIsExact
  <1>. QED
    BY <1>2, <1>3

LEMMA NextExact ==
  IInv /\ AnswerInv /\ Whole /\ AnswerIsExact /\ [Next]_vars => Whole' /\ AnswerIsExact'
  <1> SUFFICES ASSUME IInv, AnswerInv, Whole, AnswerIsExact, [Next]_vars
               PROVE  Whole' /\ AnswerIsExact'
    OBVIOUS
  <1>1. CASE SubmitHnlang
    <2>1. task'.status = "RUNNING"
      BY <1>1 DEF SubmitHnlang, Task
    <2>. QED
      BY <1>1, <2>1, SubmitWhole DEF AnswerIsExact
  <1>2. CASE RequestLocal
    <2>1. task'.type = "LOCAL"
      BY <1>2 DEF RequestLocal, Task
    <2>. QED
      BY <1>2, <2>1, LocalWhole DEF AnswerIsExact
  <1>3. CASE HostAnswer
    <2>1. task' = task /\ rxDropped' = rxDropped /\ outstanding # <<>>
      BY <1>3 DEF HostAnswer
    <2>2. task.type = "HNLANG" => task.id \notin DOMAIN sent
      BY <2>1 DEF AnswerInv, Waiting
    <2>3. AnswerIsExact'
      BY <2>1, <2>2 DEF AnswerIsExact
    <2>. QED
      BY <1>3, <2>3, HostWhole
  <1>4. CASE PollAnswer
    <2>1. UNCHANGED <<rxDropped, sent>> /\ task'.id = task.id /\ task'.type = task.type
      BY <1>4, AnsweredTask DEF PollAnswer
    <2>2. Shifts
      BY <1>4, ClearThins DEF PollAnswer, TakeNewline
    <2>3. Whole'
      BY <2>1, <2>2, ShiftKeepsWhole
    <2>. QED
      BY <1>4, <2>3, PollExact
  <1>5. CASE \/ Cancel \/ SerialIrq \/ PollBegin \/ PollChar \/ PollLine
             \/ PollEnd \/ UNCHANGED vars
    BY <1>5, QuietWhole
  <1>. QED
    BY <1>1, <1>2, <1>3, <1>4, <1>5 DEF Next, PollStep

LEMMA InitExact == Init => Whole /\ AnswerIsExact
  <1> SUFFICES ASSUME Init PROVE Whole /\ AnswerIsExact
    OBVIOUS
  <1>1. Count = 0 /\ task.type = "NONE"
    BY DEF Init, TransportInit, Count, Task
  <1>. QED
    BY <1>1 DEF Whole, AnswerIsExact

(* As long as the receive ring has dropped nothing, a request that is over  *)
(* has exactly the text that the host sent in answer to it, and the host's  *)
(* verdict: no line of another request, of a cancelled one or of an answer *)
(* too long for the line buffer passes hnm_ai_serial_parse_response.        *)
THEOREM AnswersAreExact == Spec => []AnswerIsExact
  <1>1. Init => IInv /\ AnswerInv /\ Whole /\ AnswerIsExact
    BY InitInv, InitAnswers, InitExact
  <1>2. /\ IInv /\ AnswerInv /\ Whole /\ AnswerIsExact /\ [Next]_vars
          => (IInv /\ AnswerInv /\ Whole /\ AnswerIsExact)'
    BY NextKeeps, NextAnswers, NextExact
  <1>. QED
    BY <1>1, <1>2, PTL DEF Spec

-----------------------------------------------------------------------------
(* No answer is lost. While the ring has dropped nothing and every frame    *)
(* fits in the line buffer, the stream is frame after frame from the start  *)
(* of the line on, and the answer to the request that runs is among them,   *)
(* or the host has still to give it.                                       *)
FramesFit == \A reply \in Replies : reply.length + 6 <= LineCapacity

Lined ==
  /\ 1 \in 1 .. Count => Stream[1] = Prefix
  /\ \A i \in 1 .. Count : i < Count /\ Stream[i] = Newline => Stream[i + 1] = Prefix

(* At place i the frame that names the request in the slot starts.          *)
Begins(i) == i < Count /\ Stream[i] = Prefix /\ Stream[i + 1] = Id(task.id)

Placed ==
  \/ \E k \in 1 .. Len(outstanding) : outstanding[k].id = task.id
  \/ \E i \in 1 .. Count : Begins(i)

WayInv ==
  /\ task.status = "RUNNING" => task.type = "HNLANG"
  /\ \A k \in 1 .. Len(outstanding) : outstanding[k].prompt # "blank"
  /\ ~rxDropped => Lined
  /\ ~rxDropped /\ task.status = "RUNNING" => Placed

(* The stream stays as it is. *)
Still ==
  /\ Count' = Count
  /\ \A i \in 1 .. Count : Stream'[i] = Stream[i]

LEMMA ShiftsNowhere ==
  ASSUME IInv, Shifts, Count' = Count
  PROVE  Still
  <1>1. PICK d \in 0 .. Count :
          /\ Count' = Count - d
          /\ \A i \in 1 .. Count' : Stream'[i] = Stream[i + d]
    BY DEF Shifts
  <1>2. Count \in Nat
    BY StreamSizes
  <1>3. d = 0 /\ \A i \in 1 .. Count : i + d = i
    BY <1>1, <1>2
  <1>. QED
    BY <1>1, <1>3 DEF Still

LEMMA SameIsStill ==
  ASSUME UNCHANGED transportVars
  PROVE  Still
  BY DEF transportVars, Count, Stream, Still

(* Characters captured without a drop only change their place.              *)
LEMMA CaptureIsStill ==
  ASSUME IInv, NEW n \in 0 .. Len(wire), CaptureRx(n), UNCHANGED <<line, lineLength>>,
         ~rxDropped'
  PROVE  ~rxDropped /\ Still
  <1> DEFINE k == Kept(n)
             w == Len(wire)
             r == Len(rx)
  <1>1. ~rxDropped /\ Shifts
    BY CaptureThins DEF CaptureRx
  <1>2. /\ w \in Nat /\ r \in Nat /\ lineLength \in Nat /\ Count = lineLength + r + w
        /\ n \in 0 .. w
    BY StreamSizes
  <1>3. k = n
    <2>1. k \in 0 .. n
      BY Sizes, <1>2 DEF Kept, Lesser, IInv, LinkInv
    <2>2. ~(n > k)
      BY DEF CaptureRx
    <2> HIDE DEF k
    <2>. QED
      BY <1>2, <2>1, <2>2
  <1>4. wire \in Seq(Sent) /\ rx \in Seq(Sent)
    BY DEF IInv, LinkInv
  <1>5. rx' = rx \o SubSeq(wire, 1, n) /\ wire' = SubSeq(wire, n + 1, w)
    BY <1>3 DEF CaptureRx
  <1> HIDE DEF k, w, r
  <1>6. SubSeq(wire, 1, n) \in Seq(Sent) /\ Len(SubSeq(wire, 1, n)) = n
    BY <1>2, <1>4, SubSeqProperties DEF w
  <1>7. Len(wire') = w - n
    BY <1>2, <1>4, <1>5, SubSeqProperties DEF w
  <1>8. Len(rx') = r + n
    BY <1>4, <1>5, <1>6, Joined DEF r
  <1>9. Count' = lineLength + (r + n) + (w - n)
    BY <1>7, <1>8 DEF Count
  <1>10. Count' = Count
    BY <1>2, <1>9
  <1>. QED
    BY <1>1, <1>10, ShiftsNowhere

(* A line that ends takes its characters and the newline from the front.    *)
LEMMA EndShifts ==
  ASSUME IInv, PopRx, UNCHANGED wire, lineLength' = 0
  PROVE  /\ Count' = Count - (lineLength + 1)
         /\ \A i \in 1 .. Count' : Stream'[i] = Stream[i + (lineLength + 1)]
  <1>1. PICK d \in 0 .. Count :
          /\ Count' = Count - d
          /\ \A i \in 1 .. Count' : Stream'[i] = Stream[i + d]
    BY ClearThins DEF Shifts
  <1>2. Len(rx') = Len(rx) - 1
    BY HeadTailProperties DEF PopRx, IInv, LinkInv
  <1>3. /\ lineLength \in Nat /\ Len(rx) \in Nat /\ Len(wire) \in Nat /\ Count \in Nat
        /\ Count = lineLength + Len(rx) + Len(wire)
    BY StreamSizes
  <1>4. Count' = 0 + (Len(rx) - 1) + Len(wire)
    BY <1>2 DEF Count
  <1>5. d = lineLength + 1
    BY <1>1, <1>3, <1>4
  <1>. QED
    BY <1>1, <1>5

LEMMA StillKeepsLined ==
  ASSUME IInv, Lined, Still
  PROVE  Lined'
  <1>1. Count \in Nat
    BY StreamSizes
  <1>2. \A i \in 1 .. Count : i < Count => i + 1 \in 1 .. Count
    BY <1>1
  <1>. QED
    BY <1>1, <1>2 DEF Lined, Still

LEMMA StillKeepsPlaced ==
  ASSUME IInv, Placed, Still, UNCHANGED outstanding, task'.id = task.id
  PROVE  Placed'
  <1>1. CASE \E k \in 1 .. Len(outstanding) : outstanding[k].id = task.id
    BY <1>1 DEF Placed
  <1>2. CASE \E i \in 1 .. Count : Begins(i)
    <2>1. PICK i \in 1 .. Count : Begins(i)
      BY <1>2
    <2>2. i \in 1 .. Count' /\ i < Count' /\ i + 1 \in 1 .. Count
      BY <2>1, StreamSizes DEF Begins, Still
    <2>3. Begins(i)'
      BY <2>1, <2>2 DEF Begins, Still
    <2>. QED
      BY <2>2, <2>3 DEF Placed
  <1>. QED
    BY <1>1, <1>2 DEF Placed

(* A line of the stream never grows out of the line buffer.                 *)
LEMMA LineFits ==
  ASSUME IInv, Whole, Lined, FramesFit, ~rxDropped, rx # <<>>, Head(rx) # Newline
  PROVE  lineLength + 1 < LineCapacity
  <1> DEFINE l == lineLength
  <1>1. /\ l \in Nat /\ Count \in Nat /\ LineCapacity \in Nat
        /\ l + 1 \in 1 .. Count /\ 1 \in 1 .. Count
    BY LineAhead
  <1>2. PICK id \in Nat, of \in Nat, length \in Lengths, ok \in BOOLEAN :
          FrameAt(1, id, of, ok, length)
    BY <1>1 DEF Lined, Whole
  <1>3. length \in Nat /\ length + 6 <= LineCapacity
    BY LengthsAre DEF FramesFit, Lengths
  <1>4. length + 6 \in 1 .. length + 6 /\ (1 - 1) + (length + 6) = length + 6
    BY <1>3
  <1>5. Stream[length + 6] = Newline
    <2>1. Stream[(1 - 1) + (length + 6)] = Frame(id, ok, Text(of, length))[length + 6]
      BY <1>2, <1>4 DEF FrameAt
    <2>2. Frame(id, ok, Text(of, length))[length + 6] = Newline
      BY <1>3, FrameIs
    <2>. QED
      BY <1>4, <2>1, <2>2
  <1>6. Stream[l + 1] # Newline /\ \A i \in 1 .. l : Stream[i] # Newline
    BY LineAhead
  <1> HIDE DEF l
  <1>7. ~(length + 6 <= l + 1)
    <2>1. ASSUME length + 6 <= l + 1 PROVE FALSE
      <3>1. length + 6 \in 1 .. l \/ length + 6 = l + 1
        BY <1>1, <1>3, <2>1
      <3>. QED
        BY <1>5, <1>6, <3>1
    <2>. QED
      BY <2>1
  <1>8. l + 1 < LineCapacity
    BY <1>1, <1>3, <1>7
  <1>. QED
    BY <1>8 DEF l

LEMMA TextDecodes ==
  ASSUME NEW of \in Nat, NEW length \in Lengths
  PROVE  Decodes(Text(of, length))
  <1>1. length \in Nat /\ length % 2 = 0
    BY LengthsAre
  <1>2. \A i \in 1 .. length : Hex(of, i) \in Sent /\ Hex(of, i).kind = "hex"
    BY CharKinds, <1>1 DEF Hex, Char
  <1>3. Text(of, length) \in Seq(Sent) /\ Len(Text(of, length)) = length
    <2>1. Text(of, length) \in [1 .. length -> Sent] /\ DOMAIN Text(of, length) = 1 .. length
      BY <1>2 DEF Text
    <2>. QED
      BY <1>1, <2>1, LenProperties
  <1>4. \A i \in 1 .. length : Text(of, length)[i] = Hex(of, i)
    BY DEF Text
  <1>. QED
    BY <1>1, <1>2, <1>3, <1>4 DEF Decodes

(* The line of the own answer passes hnm_ai_serial_parse_response.          *)
LEMMA OwnLineAnswers ==
  ASSUME IInv, Whole, Lined, ~rxDropped, rx # <<>>, Head(rx) = Newline,
         NEW i \in 1 .. lineLength + 1, Begins(i)
  PROVE  Answers(EndedLine, task.id)
  <1>1. lineLength \in Nat /\ Count \in Nat /\ 1 \in 1 .. Count /\ task.id \in Nat
    BY LineAhead, Sizes DEF IInv, SlotInv, Tasks
  <1>2. PICK id \in Nat, of \in Nat, length \in Lengths, ok \in BOOLEAN :
          /\ FrameAt(1, id, of, ok, length)
          /\ lineLength = length + 5
          /\ \A j \in 1 .. length + 5 : EndedLine[j] = Frame(id, ok, Text(of, length))[j]
    BY <1>1, LineIsFrame DEF Lined
  <1>3. length \in Nat
    BY LengthsAre
  <1>4. i \in 1 .. length + 6 /\ (1 - 1) + i = i
    BY <1>2, <1>3
  <1>5. Frame(id, ok, Text(of, length))[i] = Prefix
    <2>1. Stream[(1 - 1) + i] = Frame(id, ok, Text(of, length))[i]
      BY <1>2, <1>4 DEF FrameAt
    <2>. QED
      BY <1>4, <2>1 DEF Begins
  <1>6. i = 1
    BY <1>3, <1>4, <1>5, FrameMarks
  <1>7. Stream[i + 1] = Id(id)
    <2>1. i \in 1 .. Count /\ FrameAt(i, id, of, ok, length)
      BY <1>1, <1>2, <1>6
    <2>. QED
      BY <1>1, <1>3, <2>1, FrameNamesId
  <1>8. id = task.id
    BY <1>1, <1>7, IdsDiffer DEF Begins
  <1>9. /\ EndedLine[1] = Prefix /\ EndedLine[2] = Id(id) /\ EndedLine[3] = Bar
        /\ EndedLine[5] = Bar
        /\ LineText(EndedLine) = Text(of, length)
    BY <1>2, <1>3, FrameIsRead
  <1>10. Decodes(LineText(EndedLine))
    BY <1>9, TextDecodes
  <1>. QED
    BY <1>8, <1>9, <1>10 DEF Answers

LEMMA InitWay == Init => WayInv
  <1> SUFFICES ASSUME Init PROVE WayInv
    OBVIOUS
  <1>1. task.status = "EMPTY" /\ outstanding = <<>> /\ Count = 0
    BY DEF Init, TransportInit, Count, Task
  <1>2. Lined
    BY <1>1 DEF Lined
  <1>. QED
    BY <1>1, <1>2 DEF WayInv

LEMMA SubmitWay ==
  ASSUME "blank" \notin Prompts, IInv, WayInv, SubmitHnlang
  PROVE  WayInv'
  <1>1. task'.id = nextId /\ task'.type = "HNLANG" /\ UNCHANGED rxDropped
    BY DEF SubmitHnlang, Task, transportVars
  <1>2. PICK prompt \in Prompts :
          outstanding' = Append(outstanding, [id |-> nextId, prompt |-> prompt])
    BY DEF SubmitHnlang
  <1> DEFINE n == Len(outstanding)
  <1>3. /\ n \in Nat /\ Len(outstanding') = n + 1
        /\ \A k \in 1 .. n : outstanding'[k] = outstanding[k]
        /\ outstanding'[n + 1] = [id |-> nextId, prompt |-> prompt]
    BY <1>2, AppendProperties, LenProperties DEF IInv, HostInv
  <1>4. \A k \in 1 .. n : outstanding[k].prompt # "blank"
    BY DEF WayInv
  <1>5. prompt # "blank"
    OBVIOUS
  <1> HIDE DEF n
  <1>6. \A k \in 1 .. n + 1 : k \in 1 .. n \/ k = n + 1
    BY <1>3
  <1>7. \A k \in 1 .. Len(outstanding') : outstanding'[k].prompt # "blank"
    BY <1>3, <1>4, <1>5, <1>6
  <1>8. n + 1 \in 1 .. Len(outstanding') /\ outstanding'[n + 1].id = task'.id
    BY <1>1, <1>3
  <1>9. Placed'
    BY <1>8 DEF Placed
  <1>10. ~rxDropped' => Lined'
    BY <1>1, SameIsStill, StillKeepsLined DEF SubmitHnlang, WayInv
  <1>. QED
    BY <1>1, <1>7, <1>9, <1>10 DEF WayInv

(* The steps that end no line and leave the requests to the host as they are. *)
LEMMA QuietWay ==
  ASSUME FramesFit, IInv, Whole, WayInv,
         \/ RequestLocal \/ Cancel \/ SerialIrq \/ PollBegin \/ PollChar
         \/ PollEnd \/ UNCHANGED vars
  PROVE  WayInv'
  <1>1. /\ UNCHANGED outstanding
        /\ \/ task'.status = "DONE" \/ task'.status = "CANCELLED"
           \/ task' = task
    <2>1. CASE RequestLocal
      BY <2>1 DEF RequestLocal, Task
    <2>2. CASE Cancel
      BY <2>2 DEF Cancel, IInv, SlotInv, Tasks
    <2>3. CASE SerialIrq \/ PollBegin \/ PollChar \/ PollEnd \/ UNCHANGED vars
      BY <2>3 DEF SerialIrq, PollBegin, PollChar, PollEnd, vars, bridgeVars
    <2>. QED
      BY <2>1, <2>2, <2>3
  <1>2. ~rxDropped' => ~rxDropped /\ Still
    <2>1. CASE RequestLocal \/ Cancel \/ PollEnd \/ UNCHANGED vars
      <3>1. UNCHANGED transportVars
        BY <2>1 DEF RequestLocal, Cancel, PollEnd, vars
      <3>. QED
        BY <3>1, SameIsStill DEF transportVars
    <2>2. CASE SerialIrq \/ PollBegin
      <3>1. PICK n \in 0 .. Len(wire) : CaptureRx(n)
        BY <2>2 DEF SerialIrq, PollBegin
      <3>2. UNCHANGED <<line, lineLength>>
        BY <2>2 DEF SerialIrq, PollBegin
      <3>. QED
        BY <3>1, <3>2, CaptureIsStill
    <2>3. CASE PollChar
      <3>1. TakeChar /\ UNCHANGED <<wire, rxDropped>>
        BY <2>3 DEF PollChar
      <3>2. SUFFICES ASSUME ~rxDropped PROVE Still
        BY <3>1
      <3>3. lineLength + 1 < LineCapacity
        BY <3>1, <3>2, LineFits DEF TakeChar, PopRx, WayInv
      <3>4. /\ PopRx /\ lineLength' = lineLength + 1
            /\ line' = [line EXCEPT ![lineLength + 1] = Head(rx)]
        BY <3>1, <3>3 DEF TakeChar
      <3>5. Shifts
        BY <3>1, <3>3, <3>4, JoinThins
      <3>6. Len(rx') = Len(rx) - 1
        BY <3>4, HeadTailProperties DEF PopRx, IInv, LinkInv
      <3>7. /\ lineLength \in Nat /\ Len(rx) \in Nat /\ Len(wire) \in Nat
            /\ Count = lineLength + Len(rx) + Len(wire)
        BY StreamSizes
      <3>8. Count' = (lineLength + 1) + (Len(rx) - 1) + Len(wire)
        BY <3>1, <3>4, <3>6 DEF Count
      <3>9. Count' = Count
        BY <3>7, <3>8
      <3>. QED
        BY <3>5, <3>9, ShiftsNowhere
    <2>. QED
      BY <2>1, <2>2, <2>3
  <1>3. ~rxDropped' => Lined'
    BY <1>2, StillKeepsLined DEF WayInv
  <1>4. ~rxDropped' /\ task'.status = "RUNNING" => task' = task /\ Placed'
    BY <1>1, <1>2, StillKeepsPlaced DEF WayInv
  <1>5. task'.status = "RUNNING" => task'.type = "HNLANG"
    BY <1>1 DEF WayInv
  <1>6. \A k \in 1 .. Len(outstanding') : outstanding'[k].prompt # "blank"
    BY <1>1 DEF WayInv
  <1>. QED
    BY <1>3, <1>4, <1>5, <1>6 DEF WayInv

(* A line that ends is a frame: what follows it starts one, and it is not    *)
(* the awaited one unless it ends the request.                             *)
LEMMA EndWay ==
  ASSUME IInv, Whole, WayInv, PollLine \/ PollAnswer
  PROVE  WayInv'
  <1>1. /\ UNCHANGED <<wire, rxDropped, outstanding>> /\ PopRx /\ lineLength' = 0
        /\ rx # <<>> /\ Head(rx) = Newline
    BY DEF PollLine, PollAnswer, TakeNewline, PopRx, bridgeVars
  <1>2. task'.status = "RUNNING" => PollLine /\ task' = task
    BY AnsweredTask DEF PollLine, bridgeVars
  <1> DEFINE d == lineLength + 1
  <1>3. Count' = Count - d /\ \A i \in 1 .. Count' : Stream'[i] = Stream[i + d]
    BY <1>1, EndShifts
  <1>4. d \in 1 .. Count /\ Count \in Nat /\ Stream[d] = Newline
    BY <1>1, LineAhead
  <1>5. ASSUME ~rxDropped PROVE Lined'
    <2>1. Lined
      BY <1>5 DEF WayInv
    <2> HIDE DEF d
    <2>2. ASSUME 1 \in 1 .. Count' PROVE Stream'[1] = Prefix
      <3>1. d < Count /\ 1 + d = d + 1
        BY <1>3, <1>4, <2>2
      <3>. QED
        BY <1>3, <1>4, <2>1, <2>2, <3>1 DEF Lined
    <2>3. ASSUME NEW i \in 1 .. Count', i < Count', Stream'[i] = Newline
          PROVE  Stream'[i + 1] = Prefix
      <3>1. /\ i + d \in 1 .. Count /\ i + d < Count /\ (i + d) + 1 = (i + 1) + d
            /\ i + 1 \in 1 .. Count'
        BY <1>3, <1>4, <2>3
      <3>2. Stream[i + d] = Newline
        BY <1>3, <2>3
      <3>. QED
        BY <1>3, <2>1, <3>1, <3>2 DEF Lined
    <2>. QED
      BY <2>2, <2>3 DEF Lined
  <1>6. ASSUME ~rxDropped, task'.status = "RUNNING" PROVE Placed'
    <2>1. PollLine /\ task' = task /\ Lined /\ Placed
      BY <1>2, <1>6 DEF WayInv
    <2>2. CASE \E k \in 1 .. Len(outstanding) : outstanding[k].id = task.id
      BY <1>1, <2>1, <2>2 DEF Placed
    <2>3. CASE \E i \in 1 .. Count : Begins(i)
      <3>1. PICK i \in 1 .. Count : Begins(i)
        BY <2>3
      <3>2. i \notin 1 .. d
        <4>1. ~Answers(EndedLine, task.id)
          BY <2>1 DEF PollLine
        <4>. QED
          BY <1>1, <1>6, <2>1, <3>1, <4>1, OwnLineAnswers
      <3> HIDE DEF d
      <3>3. i < Count /\ Stream[i] = Prefix /\ Stream[i + 1] = Id(task.id)
        BY <3>1 DEF Begins
      <3>4. PICK j \in 1 .. Count' : j = i - d
        BY <1>3, <1>4, <3>2, <3>3
      <3>5. j < Count' /\ j + 1 \in 1 .. Count' /\ j + d = i /\ (j + 1) + d = i + 1
        BY <1>3, <1>4, <3>3, <3>4
      <3>6. Stream'[j] = Prefix /\ Stream'[j + 1] = Id(task'.id)
        BY <1>3, <2>1, <3>3, <3>5
      <3>7. Begins(j)'
        BY <3>5, <3>6 DEF Begins
      <3>. QED
        BY <3>7 DEF Placed
    <2>. QED
      BY <2>1, <2>2, <2>3 DEF Placed
  <1>7. task'.status = "RUNNING" => task'.type = "HNLANG"
    BY <1>2 DEF WayInv
  <1>8. \A k \in 1 .. Len(outstanding') : outstanding'[k].prompt # "blank"
    BY <1>1 DEF WayInv
  <1>. QED
    BY <1>1, <1>5, <1>6, <1>7, <1>8 DEF WayInv

(* A frame joins the stream behind a whole frame, under the id of the request *)
(* that the host has taken from its input.                                 *)
LEMMA HostWay ==
  ASSUME IInv, WayInv, HostAnswer
  PROVE  WayInv'
  <1> DEFINE request == Head(outstanding)
             n == Len(outstanding)
  <1>1. PICK reply \in Replies, id \in Nat, ok \in BOOLEAN : HostSent(request, reply, id, ok)
    BY HostSends
  <1>2. /\ UNCHANGED <<rx, rxDropped, line, lineLength, task>>
        /\ outstanding # <<>> /\ outstanding' = Tail(outstanding)
    BY DEF HostAnswer
  <1>3. /\ n \in Nat /\ n >= 1 /\ request = outstanding[1]
        /\ Len(outstanding') = n - 1
        /\ \A k \in 1 .. n - 1 : outstanding'[k] = outstanding[k + 1]
    <2>1. outstanding \in Seq([id : Nat, prompt : {"text", "blank"}])
      BY DEF IInv, HostInv
    <2>. QED
      BY <1>2, <2>1, HeadTailProperties, EmptySeq, LenProperties
  <1>4. \A k \in 1 .. n : outstanding[k].prompt # "blank"
    BY DEF WayInv
  <1>5. request.prompt # "blank"
    BY <1>3, <1>4
  <1> HIDE DEF request, n
  <1>6. \A k \in 1 .. n - 1 : k + 1 \in 1 .. n
    BY <1>3
  <1>7. \A k \in 1 .. Len(outstanding') : outstanding'[k].prompt # "blank"
    BY <1>3, <1>4, <1>6
  <1>8. id = request.id /\ reply.length \in Nat /\ request.id \in Nat
    BY <1>1, <1>5 DEF HostSent
  <1>9. PICK of \in Nat, length \in Nat : of = request.id /\ length = reply.length
    BY <1>8
  <1> DEFINE F == Frame(id, ok, Text(of, length))
             size == length + 6
  <1>10. /\ F \in Seq(Sent) /\ Len(F) = size
        /\ F[1] = Prefix /\ F[2] = Id(id)
    BY FrameIs
  <1>11. \A j \in 1 .. size : F[j] = Newline => j = size
    BY FrameMarks
  <1>12. wire' = wire \o F
    BY <1>1, <1>9 DEF HostSent
  <1>13. size \in Nat /\ size >= 2 /\ Count \in Nat
    BY StreamSizes
  <1> HIDE DEF F, size
  <1>14. /\ Count' = Count + size
         /\ \A i \in 1 .. Count : Stream'[i] = Stream[i]
         /\ \A j \in 1 .. size : Stream'[Count + j] = F[j]
    BY <1>2, <1>10, <1>12, FrameGrows
  <1>15. Stream'[Count + 1] = Prefix /\ Stream'[Count + 2] = Id(id)
    <2>1. 1 \in 1 .. size /\ 2 \in 1 .. size
      BY <1>13
    <2>. QED
      BY <1>10, <1>14, <2>1
  <1>16. ASSUME ~rxDropped PROVE Lined'
    <2>1. Lined
      BY <1>16 DEF WayInv
    <2>2. Stream'[1] = Prefix
      <3>1. CASE Count = 0
        BY <1>15, <3>1
      <3>2. CASE Count # 0
        <4>1. 1 \in 1 .. Count
          BY <1>13, <3>2
        <4>. QED
          BY <1>14, <2>1, <4>1 DEF Lined
      <3>. QED
        BY <3>1, <3>2
    <2>3. ASSUME NEW i \in 1 .. Count', i < Count', Stream'[i] = Newline
          PROVE  Stream'[i + 1] = Prefix
      <3>1. CASE i < Count
        <4>1. i \in 1 .. Count /\ i + 1 \in 1 .. Count
          BY <1>13, <2>3, <3>1
        <4>. QED
          BY <1>14, <2>1, <2>3, <3>1, <4>1 DEF Lined
      <3>2. CASE i = Count
        BY <1>15, <3>2
      <3>3. CASE i > Count
        <4>1. i - Count \in 1 .. size /\ Count + (i - Count) = i /\ i - Count # size
          BY <1>13, <1>14, <2>3, <3>3
        <4>2. F[i - Count] = Newline
          BY <1>14, <2>3, <4>1
        <4>. QED
          BY <1>11, <4>1, <4>2
      <3>. QED
        BY <1>13, <2>3, <3>1, <3>2, <3>3
    <2>. QED
      BY <2>2, <2>3 DEF Lined
  <1>17. ASSUME ~rxDropped, task.status = "RUNNING" PROVE Placed'
    <2>1. Placed
      BY <1>17 DEF WayInv
    <2>2. CASE request.id = task.id
      <3>1. /\ Count + 1 \in 1 .. Count' /\ Count + 1 < Count' /\ (Count + 1) + 1 = Count + 2
        BY <1>13, <1>14
      <3>2. PICK i \in 1 .. Count' : i = Count + 1
        BY <3>1
      <3>3. i < Count' /\ Stream'[i] = Prefix /\ Stream'[i + 1] = Id(task'.id)
        BY <1>2, <1>8, <1>15, <2>2, <3>1, <3>2
      <3>4. Begins(i)'
        BY <3>3 DEF Begins
      <3>. QED
        BY <3>4 DEF Placed
    <2>3. CASE request.id # task.id /\ \E k \in 1 .. n : outstanding[k].id = task.id
      <3>1. PICK k \in 1 .. n : outstanding[k].id = task.id
        BY <2>3
      <3>2. k # 1
        BY <1>3, <2>3, <3>1
      <3>3. k - 1 \in 1 .. n - 1 /\ (k - 1) + 1 = k
        BY <1>3, <3>1, <3>2
      <3>4. outstanding'[k - 1].id = task'.id /\ k - 1 \in 1 .. Len(outstanding')
        BY <1>2, <1>3, <3>1, <3>3
      <3>. QED
        BY <3>4 DEF Placed
    <2>4. CASE \E i \in 1 .. Count : Begins(i)
      <3>1. PICK i \in 1 .. Count : Begins(i)
        BY <2>4
      <3>2. i < Count /\ i + 1 \in 1 .. Count /\ i \in 1 .. Count' /\ i < Count'
        BY <1>13, <1>14, <3>1 DEF Begins
      <3>3. Begins(i)'
        BY <1>2, <1>14, <3>1, <3>2 DEF Begins
      <3>. QED
        BY <3>2, <3>3 DEF Placed
    <2>. QED
      BY <2>1, <2>2, <2>3, <2>4 DEF Placed, n
  <1>18. task'.status = "RUNNING" => task'.type = "HNLANG"
    BY <1>2 DEF WayInv
  <1>. QED
    BY <1>2, <1>7, <1>16, <1>17, <1>18 DEF WayInv

LEMMA NextWay ==
  ASSUME FramesFit, "blank" \notin Prompts, IInv, Whole, WayInv, [Next]_vars
  PROVE  WayInv'
  BY SubmitWay, QuietWay, EndWay, HostWay DEF Next, PollStep

AnswerOnItsWay ==
  ~rxDropped /\ task.status = "RUNNING" =>
    \/ \E k \in 1 .. Len(outstanding) : outstanding[k].id = task.id
    \/ \E i \in 1 .. Count, length \in Lengths, ok \in BOOLEAN :
         /\ FrameAt(i, task.id, task.id, ok, length)
         /\ task.id \in DOMAIN sent
         /\ sent[task.id] = [ok |-> ok, text |-> Text(task.id, length)]

LEMMA WayIsWhole ==
  ASSUME IInv, Whole, WayInv
  PROVE  AnswerOnItsWay
  <1> SUFFICES ASSUME ~rxDropped, task.status = "RUNNING",
                      NEW i \in 1 .. Count, Begins(i)
               PROVE  \E length \in Lengths, ok \in BOOLEAN :
                        /\ FrameAt(i, task.id, task.id, ok, length)
                        /\ task.id \in DOMAIN sent
                        /\ sent[task.id] = [ok |-> ok, text |-> Text(task.id, length)]
    BY DEF WayInv, Placed, AnswerOnItsWay
  <1>1. PICK id \in Nat, of \in Nat, length \in Lengths, ok \in BOOLEAN :
          FrameAt(i, id, of, ok, length) /\ Tells(id, of, ok, length)
    BY DEF Whole, Begins
  <1>2. length \in Nat /\ Count \in Nat /\ task.id \in Nat
    BY LengthsAre, StreamSizes, Sizes DEF IInv, SlotInv, Tasks
  <1>3. Stream[i + 1] = Id(id)
    BY <1>1, <1>2, FrameNamesId
  <1>4. id = task.id
    BY <1>2, <1>3, IdsDiffer DEF Begins
  <1>5. of = task.id /\ task.id \in DOMAIN sent
        /\ sent[task.id] = [ok |-> ok, text |-> Text(of, length)]
    BY <1>1, <1>4 DEF Tells, WayInv
  <1>. QED
    BY <1>1, <1>4, <1>5

(* As long as the receive ring has dropped nothing, the answer that a        *)
(* RUNNING request waits for is not lost: the host has still to give it, or *)
(* its frame lies whole in what the kernel has still to read. So no line of *)
(* another request makes the kernel skip it, no line outgrows the buffer,   *)
(* and when its own newline comes hnm_ai_serial_parse_response takes it.    *)
(* The prompt must not be blank and every frame must fit in the line buffer. *)
THEOREM AnswersAreNotLost ==
  ASSUME FramesFit, "blank" \notin Prompts
  PROVE  Spec => []AnswerOnItsWay
  <1>1. Init => IInv /\ AnswerInv /\ Whole /\ AnswerIsExact /\ WayInv
    BY InitInv, InitAnswers, InitExact, InitWay
  <1>2. /\ IInv /\ AnswerInv /\ Whole /\ AnswerIsExact /\ WayInv /\ [Next]_vars
          => (IInv /\ AnswerInv /\ Whole /\ AnswerIsExact /\ WayInv)'
    BY NextKeeps, NextAnswers, NextExact, NextWay
  <1>3. IInv /\ Whole /\ WayInv => AnswerOnItsWay
    BY WayIsWhole
  <1>. QED
    BY <1>1, <1>2, <1>3, PTL DEF Spec
=============================================================================
