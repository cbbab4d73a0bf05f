------------------------------- MODULE MCHeap -------------------------------
(* Instances of Heap for TLC.  Eight pages of eight bytes are tracked; the   *)
(* kernel ends in the fourth.                                                *)
EXTENDS Heap

Ram(base, length) == [base |-> base, length |-> length, available |-> TRUE]
Rom(base, length) == [base |-> base, length |-> length, available |-> FALSE]
Basic(info, lower, upper) ==
    [info |-> info, map |-> {}, mapAt |-> 0, mapLength |-> 0, lower |-> lower, upper |-> upper]
With(info, mapAt, map) ==
    [info |-> info, map |-> map, mapAt |-> mapAt, mapLength |-> 3, lower |-> 0, upper |-> 0]

\* No report, no map, and maps with unaligned, overlapping, huge, high and
\* reserved regions; the last two machines are not tidy.
MCMachines ==
    { Basic(0, 0, 0), Basic(4, 10, 29), Basic(4, 20, 35),
      With(4, 9, {Ram(0, 10), Rom(10, 6), Ram(16, 45), Rom(120, 8)}),
      With(36, 41, {Ram(0, 10), Ram(16, 27), Rom(43, 4), Ram(47, 60)}),
      With(27, 9, {Ram(1, 9), Ram(17, 128 + 40), Ram(128, 64), Ram(128 + 30, 20)}),
      With(4, 9, {Ram(20, 9), Rom(32, 5), Ram(37, 20)}),
      With(4, 33, {Ram(21, 20), Ram(37, 12), Ram(100, 40)}),
      With(40, 45, {Ram(16, 40), Rom(30, 3)}) }

\* The map lies in memory that it reports as available, and so does a region
\* that it reports as reserved.
UntidyMachine == { With(4, 33, {Ram(16, 48), Rom(50, 4)}) }
=============================================================================
