--------------------------- MODULE SerialTransport ---------------------------
(***************************************************************************)
(* The COM2 link of kernel/ai/ai_serial_transport.c: a receive ring, a     *)
(* line buffer, and the parser of response frames.                         *)
(*                                                                         *)
(* A frame "HNAI1|RES|" id "|" status "|" hex... newline is kept character *)
(* by character, with the ten characters of the prefix and the eight of    *)
(* the id as one each. So a line is a prefix, an id, a bar, a status and a *)
(* bar in its first five places, and the text from the sixth on.           *)
(***************************************************************************)
EXTENDS Integers, Sequences

CONSTANTS
  RingCapacity,   \* HNM_AI_SERIAL_RX_CAPACITY
  LineCapacity    \* HNM_AI_SERIAL_LINE_CAPACITY

ASSUME TransportAssumption ==
  /\ RingCapacity \in Nat \ {0, 1}
  /\ LineCapacity \in Nat /\ LineCapacity > 6

VARIABLES
  wire,         \* characters the host has sent and the UART not yet delivered
  rx,           \* the receive ring from tail to head
  rxDropped,    \* hnm_ai_serial_rx_dropped is not 0
  line,         \* hnm_ai_serial_line
  lineLength    \* hnm_ai_serial_line_length

transportVars == <<wire, rx, rxDropped, line, lineLength>>

-----------------------------------------------------------------------------
(* of: the id or status told, or the request a digit answers; at: which     *)
(* digit of the answer it is.                                              *)
Char(kind, of, at) == [kind |-> kind, of |-> of, at |-> at]

Prefix     == Char("prefix", 0, 0)
Id(id)     == Char("id", id, 0)
Bar        == Char("bar", 0, 0)
Status(ok) == Char("status", IF ok THEN 1 ELSE 0, 0)
Hex(of, i) == Char("hex", of, i)
Newline    == Char("newline", 0, 0)
Nul        == Char("nul", 0, 0)

(* The text sent in answer to a request. *)
Text(of, length) == [i \in 1 .. length |-> Hex(of, i)]

(* response_frame of tools/ai/openai_bridge.py *)
Frame(id, ok, text) ==
  <<Prefix, Id(id), Bar, Status(ok), Bar>> \o text \o <<Newline>>

Lesser(a, b) == IF a < b THEN a ELSE b

(* hnm_ai_serial_capture_rx delivers n characters: what does not fit in the *)
(* ring, one slot of which stays empty, is dropped and counted.             *)
Kept(n) == Lesser(n, RingCapacity - 1 - Len(rx))

(* Slips of the code, for the mutation runs, precede what they would replace. *)
CaptureRxUncounted(n) ==
  /\ rx' = rx \o SubSeq(wire, 1, Kept(n))
  /\ wire' = SubSeq(wire, n + 1, Len(wire))
  /\ UNCHANGED rxDropped

CaptureRx(n) ==
  /\ rx' = rx \o SubSeq(wire, 1, Kept(n))
  /\ rxDropped' = (rxDropped \/ n > Kept(n))
  /\ wire' = SubSeq(wire, n + 1, Len(wire))

-----------------------------------------------------------------------------
(* The C string that starts at place 6 of the buffer: it ends at a NUL that *)
(* may be older than the line.                                              *)
LineText(buffer) ==
  LET end == CHOOSE k \in 6 .. LineCapacity :
               buffer[k] = Nul /\ \A j \in 6 .. (k - 1) : buffer[j] # Nul
  IN  SubSeq(buffer, 6, end - 1)

(* hnm_ai_serial_decode_text takes whole pairs of hexadecimal digits. *)
Decodes(text) ==
  /\ Len(text) % 2 = 0
  /\ \A i \in 1 .. Len(text) : text[i].kind = "hex"

AnswersAnyId(buffer, id) ==
  /\ buffer[1] = Prefix
  /\ buffer[3] = Bar
  /\ buffer[5] = Bar
  /\ Decodes(LineText(buffer))

(* hnm_ai_serial_parse_response *)
Answers(buffer, id) ==
  /\ buffer[1] = Prefix
  /\ buffer[2] = Id(id)
  /\ buffer[3] = Bar
  /\ buffer[5] = Bar
  /\ Decodes(LineText(buffer))

(* The loop of hnm_ai_serial_transport_poll takes the oldest character. *)
PopRx ==
  /\ rx # <<>>
  /\ rx' = Tail(rx)

(* hnm_ai_serial_line with a newline put at its end as NUL. *)
EndedLine == [line EXCEPT ![lineLength + 1] = Nul]

TakeCharUnchecked ==
  /\ PopRx
  /\ Head(rx) # Newline
  /\ line' = [line EXCEPT ![lineLength + 1] = Head(rx)]
  /\ lineLength' = lineLength + 1

(* A character other than the newline; one too many clears the line.        *)
TakeChar ==
  /\ PopRx
  /\ Head(rx) # Newline
  /\ IF lineLength + 1 < LineCapacity
       THEN /\ line' = [line EXCEPT ![lineLength + 1] = Head(rx)]
            /\ lineLength' = lineLength + 1
       ELSE /\ lineLength' = 0
            /\ UNCHANGED line

TakeNewlineKeepingLength ==
  /\ PopRx
  /\ Head(rx) = Newline
  /\ line' = EndedLine
  /\ UNCHANGED lineLength

TakeNewline ==
  /\ PopRx
  /\ Head(rx) = Newline
  /\ line' = EndedLine
  /\ lineLength' = 0

TransportInit ==
  /\ wire = <<>>
  /\ rx = <<>>
  /\ rxDropped = FALSE
  /\ line = [i \in 1 .. LineCapacity |-> Nul]
  /\ lineLength = 0

TransportTypeOK ==
  /\ Len(rx) < RingCapacity
  /\ rxDropped \in BOOLEAN
  /\ DOMAIN line = 1 .. LineCapacity
  /\ line[LineCapacity] = Nul
  /\ lineLength \in 0 .. (LineCapacity - 1)
  /\ \A i \in 1 .. lineLength : line[i] \notin {Nul, Newline}
=============================================================================
