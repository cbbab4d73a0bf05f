----------------------------- MODULE MCAiBridge -----------------------------
(* Instances of AiBridge for TLC. The sizes keep the code's proportions: the *)
(* ring holds two frames and a quarter, the line buffer one and a quarter.   *)
EXTENDS AiBridge

LongAndShort == {[ok |-> TRUE, length |-> 4], [ok |-> FALSE, length |-> 2]}
Short == [ok : BOOLEAN, length : {2}]
=============================================================================
