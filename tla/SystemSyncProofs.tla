-------------------------- MODULE SystemSyncProofs --------------------------
(***************************************************************************)
(* Proofs about SystemSync, for any set of processors, any counter width   *)
(* and with or without a framebuffer.                                      *)
(***************************************************************************)
EXTENDS SystemSync, TLAPS

(* A free lock means that no processor is between acquire and release.     *)
LockHeld == stateLock = 0 => \A c \in Cpus : pc[c] \notin Locked

(* From cli to the last popfl the processor runs with interrupts off, and  *)
(* the saved flags are the caller's.                                       *)
FlagsKept ==
  \A c \in Cpus :
    /\ pc[c] \notin {"idle", "save", "cli"} => ~interruptFlag[c]
    /\ pc[c] = "save" => interruptFlag[c] = callerFlag[c]
    /\ pc[c] \notin {"idle", "save"} => irqFlags[c] = callerFlag[c]

(* The pair of fence counters differs only between its two increments.     *)
FencesPaired ==
  /\ \A c \in Cpus : pc[c] = "ram" =>
       snapshot.cpu_fence_count = Inc(snapshot.ram_fence_count)
  /\ (\A c \in Cpus : pc[c] # "ram") =>
       snapshot.cpu_fence_count = snapshot.ram_fence_count

(* A copy in progress agrees with the record it is made from.              *)
CopyInProgress ==
  \A c \in Cpus : pc[c] = "copy_rest" =>
    /\ copy[c].sequence = snapshot.sequence
    /\ copy[c].cpu_fence_count = snapshot.cpu_fence_count

IInv == /\ TypeOK
        /\ MutualExclusion
        /\ LockHeld
        /\ FlagsKept
        /\ FencesPaired
        /\ CopyInProgress
        /\ OneEpoch

-----------------------------------------------------------------------------
LEMMA IncType == ASSUME NEW n \in Counter PROVE Inc(n) \in Counter
  BY SyncAssumption DEF Counter, Inc

LEMMA ZeroType == ZeroSnapshot \in Snapshot
  BY SyncAssumption DEF ZeroSnapshot, Snapshot, Counter

LEMMA TypeInit == Init => TypeOK
<1> SUFFICES ASSUME Init PROVE TypeOK
  OBVIOUS
<1>1. ZeroSnapshot \in Snapshot
  BY ZeroType
<1>2. /\ snapshot \in Snapshot
      /\ stateLock \in {0, 1}
      /\ ready \in BOOLEAN
      /\ copy \in [Cpus -> Snapshot]
  BY <1>1 DEF Init
<1>3. /\ interruptFlag \in [Cpus -> BOOLEAN]
      /\ irqFlags \in [Cpus -> BOOLEAN]
      /\ callerFlag \in [Cpus -> BOOLEAN]
  BY DEF Init
<1>4. /\ op \in [Cpus -> Ops \cup {"none"}]
      /\ pc \in [Cpus -> Steps]
  BY DEF Init, Steps
<1>5. QED
  BY <1>2, <1>3, <1>4 DEF TypeOK

LEMMA TypeStep == TypeOK /\ [Next]_vars => TypeOK'
<1> SUFFICES ASSUME TypeOK, [Next]_vars PROVE TypeOK'
  OBVIOUS
<1> USE DEF TypeOK, Steps, Locked, Body, Goto
<1>1. CASE UNCHANGED vars
  BY <1>1 DEF vars
<1>2. ASSUME NEW c \in Cpus, SetInterrupts(c) PROVE TypeOK'
  BY <1>2 DEF SetInterrupts
<1>3. ASSUME NEW c \in Cpus, NEW o \in Ops, Call(c, o) PROVE TypeOK'
  BY <1>3 DEF Call
<1>4. ASSUME NEW c \in Cpus, SaveFlags(c) \/ Cli(c) \/ LockWait(c) PROVE TypeOK'
  <2>1. CASE SaveFlags(c)
    BY <2>1 DEF SaveFlags
  <2>2. CASE Cli(c)
    BY <2>2 DEF Cli
  <2>3. CASE LockWait(c)
    BY <2>3 DEF LockWait
  <2>4. QED
    BY <1>4, <2>1, <2>2, <2>3
<1>5. ASSUME NEW c \in Cpus, Xchg(c) PROVE TypeOK'
  BY <1>5 DEF Xchg, FirstStep
<1>6. ASSUME NEW c \in Cpus, Reset(c) PROVE TypeOK'
  BY <1>6, SyncAssumption DEF Reset, ZeroSnapshot, Snapshot, Counter
<1>7. ASSUME NEW c \in Cpus, CpuFence(c) PROVE TypeOK'
  BY <1>7, IncType DEF CpuFence, Bump, Snapshot
<1>8. ASSUME NEW c \in Cpus, RamFence(c) PROVE TypeOK'
  BY <1>8, IncType DEF RamFence, Bump, Snapshot
<1>9. ASSUME NEW c \in Cpus, GpuFence(c) PROVE TypeOK'
  BY <1>9, IncType DEF GpuFence, Snapshot
<1>10. ASSUME NEW c \in Cpus, Sequence(c) PROVE TypeOK'
  BY <1>10, IncType DEF Sequence, Bump, Snapshot
<1>11. ASSUME NEW c \in Cpus, Fill(c) PROVE TypeOK'
  BY <1>11 DEF Fill, Snapshot
<1>12. ASSUME NEW c \in Cpus, CopyFirst(c) PROVE TypeOK'
  <2>1. PICK given : given = [copy[c] EXCEPT !.sequence = snapshot.sequence,
                             !.cpu_fence_count = snapshot.cpu_fence_count]
    OBVIOUS
  <2>2. given \in Snapshot
    BY <2>1 DEF Snapshot
  <2>3. copy' = [copy EXCEPT ![c] = given]
    BY <1>12, <2>1 DEF CopyFirst
  <2>4. copy' \in [Cpus -> Snapshot]
    BY <2>2, <2>3
  <2>5. pc' \in [Cpus -> Steps]
    BY <1>12 DEF CopyFirst
  <2>6. QED
    BY <1>12, <2>4, <2>5 DEF CopyFirst
<1>13. ASSUME NEW c \in Cpus, CopyRest(c) PROVE TypeOK'
  <2>1. PICK given : given = [copy[c] EXCEPT !.ram_fence_count = snapshot.ram_fence_count,
                             !.gpu_fence_count = snapshot.gpu_fence_count,
                             !.filled = snapshot.filled]
    OBVIOUS
  <2>2. given \in Snapshot
    BY <2>1 DEF Snapshot
  <2>3. copy' = [copy EXCEPT ![c] = given]
    BY <1>13, <2>1 DEF CopyRest
  <2>4. copy' \in [Cpus -> Snapshot]
    BY <2>2, <2>3
  <2>5. pc' \in [Cpus -> Steps]
    BY <1>13 DEF CopyRest
  <2>6. QED
    BY <1>13, <2>4, <2>5 DEF CopyRest
<1>14. ASSUME NEW c \in Cpus, Release(c) \/ Restore(c) PROVE TypeOK'
  <2>1. CASE Release(c)
    BY <2>1 DEF Release
  <2>2. CASE Restore(c)
    <3>1. copy' \in [Cpus -> Snapshot]
      BY <2>2, ZeroType DEF Restore
    <3>2. /\ snapshot' \in Snapshot /\ stateLock' \in {0, 1} /\ ready' \in BOOLEAN
          /\ interruptFlag' \in [Cpus -> BOOLEAN] /\ irqFlags' \in [Cpus -> BOOLEAN]
          /\ callerFlag' \in [Cpus -> BOOLEAN]
      BY <2>2 DEF Restore
    <3>3. /\ op' \in [Cpus -> Ops \cup {"none"}]
          /\ pc' \in [Cpus -> Steps]
      BY <2>2 DEF Restore
    <3>4. QED
      BY <3>1, <3>2, <3>3
  <2>3. QED
    BY <1>14, <2>1, <2>2
<1>15. QED
  BY <1>1, <1>2, <1>3, <1>4, <1>5, <1>6, <1>7, <1>8, <1>9, <1>10, <1>11,
     <1>12, <1>13, <1>14 DEF Next, Advance

(* Every variable of SystemSync keeps its type, whatever the processors    *)
(* interleave.                                                             *)
THEOREM TypeCorrect == Spec => []TypeOK
<1>1. QED
  BY TypeInit, TypeStep, PTL DEF Spec

-----------------------------------------------------------------------------
(* The inductive step, one processor step at a time. Only the owner of the *)
(* lock is at a step of Locked, so what it does to the record disturbs no  *)
(* clause that speaks of another processor.                                *)
LEMMA InvInit == Init => IInv
<1> SUFFICES ASSUME Init PROVE IInv
  OBVIOUS
<1>1. TypeOK
  BY TypeInit
<1>2. \A c \in Cpus : pc[c] = "idle"
  BY DEF Init
<1>3. MutualExclusion /\ LockHeld /\ FlagsKept /\ CopyInProgress
  BY <1>2 DEF MutualExclusion, LockHeld, FlagsKept, CopyInProgress, Locked, Body
<1>4. FencesPaired /\ OneEpoch
  BY <1>2 DEF Init, FencesPaired, OneEpoch, ZeroSnapshot
<1>5. QED
  BY <1>1, <1>3, <1>4 DEF IInv

LEMMA InvStep == IInv /\ [Next]_vars => IInv'
<1> SUFFICES ASSUME IInv, [Next]_vars PROVE IInv'
  OBVIOUS
<1> USE DEF Locked, Body
<1>t. TypeOK /\ TypeOK'
  BY TypeStep DEF IInv
<1>i. MutualExclusion /\ LockHeld /\ FlagsKept /\ FencesPaired /\ CopyInProgress /\ OneEpoch
  BY DEF IInv
<1>1. CASE UNCHANGED vars
  BY <1>1, <1>t, <1>i DEF vars, IInv, MutualExclusion, LockHeld, FlagsKept,
     FencesPaired, CopyInProgress, OneEpoch
<1>2. ASSUME NEW c \in Cpus, SetInterrupts(c) PROVE IInv'
  <2>1. MutualExclusion' /\ LockHeld'
    BY <1>2, <1>t, <1>i DEF SetInterrupts, TypeOK, MutualExclusion, LockHeld
  <2>2. FlagsKept'
    BY <1>2, <1>t, <1>i DEF SetInterrupts, TypeOK, FlagsKept
  <2>3. FencesPaired'
    BY <1>2, <1>t, <1>i DEF SetInterrupts, TypeOK, MutualExclusion, FencesPaired
  <2>4. CopyInProgress'
    BY <1>2, <1>t, <1>i DEF SetInterrupts, TypeOK, MutualExclusion, CopyInProgress
  <2>5. OneEpoch'
    BY <1>2, <1>t, <1>i DEF SetInterrupts, TypeOK, MutualExclusion, FencesPaired, OneEpoch
  <2>6. QED
    BY <1>t, <2>1, <2>2, <2>3, <2>4, <2>5 DEF IInv
<1>3. ASSUME NEW c \in Cpus, NEW o \in Ops, Call(c, o) PROVE IInv'
  <2>1. MutualExclusion' /\ LockHeld'
    BY <1>3, <1>t, <1>i DEF Goto, Call, TypeOK, MutualExclusion, LockHeld
  <2>2. FlagsKept'
    BY <1>3, <1>t, <1>i DEF Goto, Call, TypeOK, FlagsKept
  <2>3. FencesPaired'
    BY <1>3, <1>t, <1>i DEF Goto, Call, TypeOK, MutualExclusion, FencesPaired
  <2>4. CopyInProgress'
    BY <1>3, <1>t, <1>i DEF Goto, Call, TypeOK, MutualExclusion, CopyInProgress
  <2>5. OneEpoch'
    BY <1>3, <1>t, <1>i DEF Goto, Call, TypeOK, MutualExclusion, FencesPaired, OneEpoch
  <2>6. QED
    BY <1>t, <2>1, <2>2, <2>3, <2>4, <2>5 DEF IInv
<1>4. ASSUME NEW c \in Cpus, SaveFlags(c) PROVE IInv'
  <2>1. MutualExclusion' /\ LockHeld'
    BY <1>4, <1>t, <1>i DEF Goto, SaveFlags, TypeOK, MutualExclusion, LockHeld
  <2>2. FlagsKept'
    BY <1>4, <1>t, <1>i DEF Goto, SaveFlags, TypeOK, FlagsKept
  <2>3. FencesPaired'
    BY <1>4, <1>t, <1>i DEF Goto, SaveFlags, TypeOK, MutualExclusion, FencesPaired
  <2>4. CopyInProgress'
    BY <1>4, <1>t, <1>i DEF Goto, SaveFlags, TypeOK, MutualExclusion, CopyInProgress
  <2>5. OneEpoch'
    BY <1>4, <1>t, <1>i DEF Goto, SaveFlags, TypeOK, MutualExclusion, FencesPaired, OneEpoch
  <2>6. QED
    BY <1>t, <2>1, <2>2, <2>3, <2>4, <2>5 DEF IInv
<1>5. ASSUME NEW c \in Cpus, Cli(c) PROVE IInv'
  <2>1. MutualExclusion' /\ LockHeld'
    BY <1>5, <1>t, <1>i DEF Goto, Cli, TypeOK, MutualExclusion, LockHeld
  <2>2. FlagsKept'
    BY <1>5, <1>t, <1>i DEF Goto, Cli, TypeOK, FlagsKept
  <2>3. FencesPaired'
    BY <1>5, <1>t, <1>i DEF Goto, Cli, TypeOK, MutualExclusion, FencesPaired
  <2>4. CopyInProgress'
    BY <1>5, <1>t, <1>i DEF Goto, Cli, TypeOK, MutualExclusion, CopyInProgress
  <2>5. OneEpoch'
    BY <1>5, <1>t, <1>i DEF Goto, Cli, TypeOK, MutualExclusion, FencesPaired, OneEpoch
  <2>6. QED
    BY <1>t, <2>1, <2>2, <2>3, <2>4, <2>5 DEF IInv
<1>6. ASSUME NEW c \in Cpus, Xchg(c) PROVE IInv'
  <2>1. MutualExclusion' /\ LockHeld'
    BY <1>6, <1>t, <1>i DEF Goto, Xchg, FirstStep, TypeOK, MutualExclusion, LockHeld
  <2>2. FlagsKept'
    BY <1>6, <1>t, <1>i DEF Goto, Xchg, FirstStep, TypeOK, FlagsKept
  <2>3. FencesPaired'
    BY <1>6, <1>t, <1>i DEF Goto, Xchg, FirstStep, TypeOK, MutualExclusion, FencesPaired
  <2>4. CopyInProgress'
    BY <1>6, <1>t, <1>i DEF Goto, Xchg, FirstStep, TypeOK, MutualExclusion, CopyInProgress
  <2>5. OneEpoch'
    <3>1. /\ \A e \in Cpus \ {c} : pc'[e] = pc[e]
          /\ UNCHANGED <<snapshot, op, copy>>
          /\ pc[c] = "try"
      BY <1>6, <1>t DEF Goto, Xchg, TypeOK
    <3>2. /\ pc'[c] = "release" => op[c] \notin Copying
          /\ pc'[c] # "copy_rest"
      BY <1>6, <1>t DEF Goto, Xchg, FirstStep, Copying, TypeOK
    <3>3. QED
      BY <3>1, <3>2, <1>i DEF OneEpoch
  <2>6. QED
    BY <1>t, <2>1, <2>2, <2>3, <2>4, <2>5 DEF IInv
<1>7. ASSUME NEW c \in Cpus, LockWait(c) PROVE IInv'
  <2>1. MutualExclusion' /\ LockHeld'
    BY <1>7, <1>t, <1>i DEF Goto, LockWait, TypeOK, MutualExclusion, LockHeld
  <2>2. FlagsKept'
    BY <1>7, <1>t, <1>i DEF Goto, LockWait, TypeOK, FlagsKept
  <2>3. FencesPaired'
    BY <1>7, <1>t, <1>i DEF Goto, LockWait, TypeOK, MutualExclusion, FencesPaired
  <2>4. CopyInProgress'
    BY <1>7, <1>t, <1>i DEF Goto, LockWait, TypeOK, MutualExclusion, CopyInProgress
  <2>5. OneEpoch'
    BY <1>7, <1>t, <1>i DEF Goto, LockWait, TypeOK, MutualExclusion, FencesPaired, OneEpoch
  <2>6. QED
    BY <1>t, <2>1, <2>2, <2>3, <2>4, <2>5 DEF IInv
<1>8. ASSUME NEW c \in Cpus, Reset(c) PROVE IInv'
  <2>1. MutualExclusion' /\ LockHeld'
    BY <1>8, <1>t, <1>i DEF Goto, Reset, TypeOK, MutualExclusion, LockHeld
  <2>2. FlagsKept'
    BY <1>8, <1>t, <1>i DEF Goto, Reset, TypeOK, FlagsKept
  <2>3. FencesPaired'
    BY <1>8, <1>t, <1>i DEF Goto, Reset, ZeroSnapshot, TypeOK, MutualExclusion, FencesPaired
  <2>4. CopyInProgress'
    BY <1>8, <1>t, <1>i DEF Goto, Reset, ZeroSnapshot, TypeOK, MutualExclusion, CopyInProgress
  <2>5. OneEpoch'
    BY <1>8, <1>t, <1>i DEF Goto, Reset, ZeroSnapshot, TypeOK, MutualExclusion, FencesPaired, OneEpoch
  <2>6. QED
    BY <1>t, <2>1, <2>2, <2>3, <2>4, <2>5 DEF IInv
<1>9. ASSUME NEW c \in Cpus, CpuFence(c) PROVE IInv'
  <2>1. MutualExclusion' /\ LockHeld'
    BY <1>9, <1>t, <1>i DEF Goto, CpuFence, Bump, TypeOK, MutualExclusion, LockHeld
  <2>2. FlagsKept'
    BY <1>9, <1>t, <1>i DEF Goto, CpuFence, Bump, TypeOK, FlagsKept
  <2>3. FencesPaired'
    BY <1>9, <1>t, <1>i DEF Goto, CpuFence, Bump, Snapshot, TypeOK, MutualExclusion, FencesPaired
  <2>4. CopyInProgress'
    BY <1>9, <1>t, <1>i DEF Goto, CpuFence, Bump, Snapshot, TypeOK, MutualExclusion, CopyInProgress
  <2>5. OneEpoch'
    BY <1>9, <1>t, <1>i DEF Goto, CpuFence, Bump, Snapshot, TypeOK, MutualExclusion, FencesPaired, OneEpoch
  <2>6. QED
    BY <1>t, <2>1, <2>2, <2>3, <2>4, <2>5 DEF IInv
<1>10. ASSUME NEW c \in Cpus, RamFence(c) PROVE IInv'
  <2>1. MutualExclusion' /\ LockHeld'
    BY <1>10, <1>t, <1>i DEF Goto, RamFence, Bump, TypeOK, MutualExclusion, LockHeld
  <2>2. FlagsKept'
    BY <1>10, <1>t, <1>i DEF Goto, RamFence, Bump, TypeOK, FlagsKept
  <2>3. FencesPaired'
    BY <1>10, <1>t, <1>i DEF Goto, RamFence, Bump, Snapshot, Copying, TypeOK, MutualExclusion, FencesPaired
  <2>4. CopyInProgress'
    BY <1>10, <1>t, <1>i DEF Goto, RamFence, Bump, Snapshot, Copying, TypeOK, MutualExclusion, CopyInProgress
  <2>5. OneEpoch'
    BY <1>10, <1>t, <1>i DEF Goto, RamFence, Bump, Snapshot, Copying, TypeOK, MutualExclusion, FencesPaired, OneEpoch
  <2>6. QED
    BY <1>t, <2>1, <2>2, <2>3, <2>4, <2>5 DEF IInv
<1>11. ASSUME NEW c \in Cpus, GpuFence(c) PROVE IInv'
  <2>1. MutualExclusion' /\ LockHeld'
    BY <1>11, <1>t, <1>i DEF Goto, GpuFence, TypeOK, MutualExclusion, LockHeld
  <2>2. FlagsKept'
    BY <1>11, <1>t, <1>i DEF Goto, GpuFence, TypeOK, FlagsKept
  <2>3. FencesPaired'
    BY <1>11, <1>t, <1>i DEF Goto, GpuFence, Snapshot, Copying, TypeOK, MutualExclusion, FencesPaired
  <2>4. CopyInProgress'
    BY <1>11, <1>t, <1>i DEF Goto, GpuFence, Snapshot, Copying, TypeOK, MutualExclusion, CopyInProgress
  <2>5. OneEpoch'
    BY <1>11, <1>t, <1>i DEF Goto, GpuFence, Snapshot, Copying, TypeOK, MutualExclusion, FencesPaired, OneEpoch
  <2>6. QED
    BY <1>t, <2>1, <2>2, <2>3, <2>4, <2>5 DEF IInv
<1>12. ASSUME NEW c \in Cpus, Sequence(c) PROVE IInv'
  <2>1. MutualExclusion' /\ LockHeld'
    BY <1>12, <1>t, <1>i DEF Goto, Sequence, Bump, TypeOK, MutualExclusion, LockHeld
  <2>2. FlagsKept'
    BY <1>12, <1>t, <1>i DEF Goto, Sequence, Bump, TypeOK, FlagsKept
  <2>3. FencesPaired'
    BY <1>12, <1>t, <1>i DEF Goto, Sequence, Bump, Snapshot, Copying, TypeOK, MutualExclusion, FencesPaired
  <2>4. CopyInProgress'
    BY <1>12, <1>t, <1>i DEF Goto, Sequence, Bump, Snapshot, Copying, TypeOK, MutualExclusion, CopyInProgress
  <2>5. OneEpoch'
    BY <1>12, <1>t, <1>i DEF Goto, Sequence, Bump, Snapshot, Copying, TypeOK, MutualExclusion, FencesPaired, OneEpoch
  <2>6. QED
    BY <1>t, <2>1, <2>2, <2>3, <2>4, <2>5 DEF IInv
<1>13. ASSUME NEW c \in Cpus, Fill(c) PROVE IInv'
  <2>1. MutualExclusion' /\ LockHeld'
    BY <1>13, <1>t, <1>i DEF Goto, Fill, TypeOK, MutualExclusion, LockHeld
  <2>2. FlagsKept'
    BY <1>13, <1>t, <1>i DEF Goto, Fill, TypeOK, FlagsKept
  <2>3. FencesPaired'
    BY <1>13, <1>t, <1>i DEF Goto, Fill, Snapshot, TypeOK, MutualExclusion, FencesPaired
  <2>4. CopyInProgress'
    BY <1>13, <1>t, <1>i DEF Goto, Fill, Snapshot, TypeOK, MutualExclusion, CopyInProgress
  <2>5. OneEpoch'
    BY <1>13, <1>t, <1>i DEF Goto, Fill, Snapshot, TypeOK, MutualExclusion, FencesPaired, OneEpoch
  <2>6. QED
    BY <1>t, <2>1, <2>2, <2>3, <2>4, <2>5 DEF IInv
<1>14. ASSUME NEW c \in Cpus, CopyFirst(c) PROVE IInv'
  <2>1. MutualExclusion' /\ LockHeld'
    BY <1>14, <1>t, <1>i DEF Goto, CopyFirst, TypeOK, MutualExclusion, LockHeld
  <2>2. FlagsKept'
    BY <1>14, <1>t, <1>i DEF Goto, CopyFirst, TypeOK, FlagsKept
  <2>3. /\ \A e \in Cpus \ {c} : copy'[e] = copy[e] /\ pc'[e] = pc[e]
        /\ UNCHANGED <<snapshot, op>>
    BY <1>14, <1>t DEF Goto, CopyFirst, TypeOK
  <2>4. /\ copy'[c].sequence = snapshot.sequence
        /\ copy'[c].cpu_fence_count = snapshot.cpu_fence_count
    BY <1>14, <1>t DEF CopyFirst, TypeOK, Snapshot
  <2>5. pc[c] = "copy" /\ pc'[c] = "copy_rest"
    BY <1>14, <1>t DEF Goto, CopyFirst, TypeOK
  <2>6. FencesPaired'
    BY <2>3, <2>5, <1>i DEF FencesPaired
  <2>7. CopyInProgress'
    BY <2>3, <2>4, <2>5, <1>i DEF CopyInProgress
  <2>8. OneEpoch'
    BY <2>3, <2>4, <2>5, <1>i DEF OneEpoch, FencesPaired, MutualExclusion
  <2>9. QED
    BY <1>t, <2>1, <2>2, <2>6, <2>7, <2>8 DEF IInv
<1>15. ASSUME NEW c \in Cpus, CopyRest(c) PROVE IInv'
  <2>1. MutualExclusion' /\ LockHeld'
    BY <1>15, <1>t, <1>i DEF Goto, CopyRest, TypeOK, MutualExclusion, LockHeld
  <2>2. FlagsKept'
    BY <1>15, <1>t, <1>i DEF Goto, CopyRest, TypeOK, FlagsKept
  <2>3. /\ \A e \in Cpus \ {c} : copy'[e] = copy[e] /\ pc'[e] = pc[e]
        /\ UNCHANGED <<snapshot, op>>
    BY <1>15, <1>t DEF Goto, CopyRest, TypeOK
  <2>4. copy'[c] = snapshot
    <3>1. PICK given : given = [copy[c] EXCEPT !.ram_fence_count = snapshot.ram_fence_count,
                             !.gpu_fence_count = snapshot.gpu_fence_count,
                             !.filled = snapshot.filled]
      OBVIOUS
    <3>2. copy[c] \in Snapshot /\ snapshot \in Snapshot
      BY <1>t DEF TypeOK
    <3>3. /\ copy[c].sequence = snapshot.sequence
          /\ copy[c].cpu_fence_count = snapshot.cpu_fence_count
      BY <1>15, <1>i DEF CopyRest, CopyInProgress
    <3>4. given = snapshot
      BY <3>1, <3>2, <3>3 DEF Snapshot
    <3>5. copy' = [copy EXCEPT ![c] = given]
      BY <1>15, <3>1 DEF CopyRest
    <3>6. QED
      BY <3>4, <3>5, <1>t DEF TypeOK
  <2>5. pc[c] = "copy_rest" /\ pc'[c] = "release"
    BY <1>15, <1>t DEF Goto, CopyRest, TypeOK
  <2>6. FencesPaired'
    BY <2>3, <2>5, <1>i DEF FencesPaired
  <2>7. CopyInProgress'
    BY <2>3, <2>4, <2>5, <1>i DEF CopyInProgress
  <2>8. OneEpoch'
    BY <2>3, <2>4, <2>5, <1>i DEF OneEpoch, FencesPaired, MutualExclusion
  <2>9. QED
    BY <1>t, <2>1, <2>2, <2>6, <2>7, <2>8 DEF IInv
<1>16. ASSUME NEW c \in Cpus, Release(c) PROVE IInv'
  <2>1. MutualExclusion' /\ LockHeld'
    BY <1>16, <1>t, <1>i DEF Goto, Release, TypeOK, MutualExclusion, LockHeld
  <2>2. FlagsKept'
    BY <1>16, <1>t, <1>i DEF Goto, Release, TypeOK, FlagsKept
  <2>3. FencesPaired'
    BY <1>16, <1>t, <1>i DEF Goto, Release, TypeOK, MutualExclusion, FencesPaired
  <2>4. CopyInProgress'
    BY <1>16, <1>t, <1>i DEF Goto, Release, TypeOK, MutualExclusion, CopyInProgress
  <2>5. OneEpoch'
    BY <1>16, <1>t, <1>i DEF Goto, Release, TypeOK, MutualExclusion, FencesPaired, OneEpoch
  <2>6. QED
    BY <1>t, <2>1, <2>2, <2>3, <2>4, <2>5 DEF IInv
<1>17. ASSUME NEW c \in Cpus, Restore(c) PROVE IInv'
  <2>1. MutualExclusion' /\ LockHeld'
    BY <1>17, <1>t, <1>i DEF Goto, Restore, TypeOK, MutualExclusion, LockHeld
  <2>2. FlagsKept'
    BY <1>17, <1>t, <1>i DEF Goto, Restore, TypeOK, FlagsKept
  <2>3. FencesPaired'
    BY <1>17, <1>t, <1>i DEF Goto, Restore, ZeroSnapshot, TypeOK, MutualExclusion, FencesPaired
  <2>4. CopyInProgress'
    BY <1>17, <1>t, <1>i DEF Goto, Restore, ZeroSnapshot, TypeOK, MutualExclusion, CopyInProgress
  <2>5. OneEpoch'
    BY <1>17, <1>t, <1>i DEF Goto, Restore, ZeroSnapshot, TypeOK, MutualExclusion, FencesPaired, OneEpoch
  <2>6. QED
    BY <1>t, <2>1, <2>2, <2>3, <2>4, <2>5 DEF IInv
<1>18. QED
  BY <1>1, <1>2, <1>3, <1>4, <1>5, <1>6, <1>7, <1>8, <1>9, <1>10, <1>11,
     <1>12, <1>13, <1>14, <1>15, <1>16, <1>17 DEF Next, Advance

-----------------------------------------------------------------------------
LEMMA Invariant == Spec => []IInv
  BY InvInit, InvStep, PTL DEF Spec

(* The spinlock of sync_asm.s keeps the bodies of system_sync.c apart, for *)
(* any number of processors.                                               *)
THEOREM LockIsExclusive == Spec => []MutualExclusion
<1>1. IInv => MutualExclusion
  BY DEF IInv
<1>2. QED
  BY <1>1, Invariant, PTL

(* A processor that waits for the lock or holds it takes no interrupt.     *)
THEOREM WaitersAreMasked == Spec => []InterruptsMasked
<1>1. IInv => InterruptsMasked
  BY DEF IInv, FlagsKept, InterruptsMasked, Locked, Body
<1>2. QED
  BY <1>1, Invariant, PTL

(* What hnm_sync_capture and hnm_sync_checkpoint return is one epoch of    *)
(* the shared record, never a mixture of two.                              *)
THEOREM CopiesAreOneEpoch == Spec => []OneEpoch
<1>1. IInv => OneEpoch
  BY DEF IInv
<1>2. QED
  BY <1>1, Invariant, PTL

(* Each operation returns with the interrupt flag of its caller.           *)
THEOREM CallersFlagIsRestored == Spec => FlagsRestored
<1>1. ASSUME IInv, [Next]_vars, NEW c \in Cpus, pc[c] # "idle", pc'[c] = "idle"
      PROVE  interruptFlag'[c] = callerFlag[c]
  <2>1. Restore(c)
    <3> USE DEF Goto, IInv, TypeOK
    <3>1. ASSUME NEW d \in Cpus, Advance(d), ~Restore(d) PROVE FALSE
      <4>1. CASE SaveFlags(d) \/ Cli(d) \/ LockWait(d) \/ Release(d)
        BY <1>1, <4>1 DEF SaveFlags, Cli, LockWait, Release
      <4>2. CASE Xchg(d)
        BY <1>1, <4>2 DEF Xchg, FirstStep
      <4>3. CASE Reset(d) \/ CpuFence(d) \/ Sequence(d)
        BY <1>1, <4>3 DEF Reset, CpuFence, Sequence, Bump
      <4>r. CASE RamFence(d)
        BY <1>1, <4>r DEF RamFence, Bump
      <4>4. CASE GpuFence(d) \/ Fill(d) \/ CopyFirst(d) \/ CopyRest(d)
        BY <1>1, <4>4 DEF GpuFence, Fill, CopyFirst, CopyRest
      <4>5. QED
        BY <3>1, <4>1, <4>2, <4>3, <4>r, <4>4 DEF Advance
    <3>2. ASSUME NEW d \in Cpus, Restore(d) PROVE d = c
      BY <1>1, <3>2 DEF Restore
    <3>3. ASSUME NEW d \in Cpus, NEW o \in Ops, SetInterrupts(d) \/ Call(d, o)
          PROVE FALSE
      BY <1>1, <3>3 DEF SetInterrupts, Call
    <3>4. ~UNCHANGED vars
      BY <1>1 DEF vars
    <3>5. PICK d \in Cpus : \/ SetInterrupts(d)
                            \/ \E o \in Ops : Call(d, o)
                            \/ Advance(d)
      BY <1>1, <3>4 DEF Next
    <3>6. Restore(d)
      BY <3>1, <3>3, <3>5, "init" \in Ops DEF Ops
    <3>7. QED
      BY <3>2, <3>6
  <2>2. QED
    BY <1>1, <2>1 DEF Restore, FlagsKept, IInv, TypeOK
<1>2. IInv /\ [Next]_vars =>
        [\A c \in Cpus : pc[c] # "idle" /\ pc'[c] = "idle"
                            => interruptFlag'[c] = callerFlag[c]]_vars
  BY <1>1
<1>3. QED
  BY <1>2, Invariant, PTL DEF Spec, FlagsRestored
-----------------------------------------------------------------------------
(* The sync layer is an atomic object. An operation takes effect with the  *)
(* xchg that takes the lock: from then on Whole is the record as its owner *)
(* will leave it, and every step of the body stutters.                     *)

(* The operations that come to a step. *)
OpsAt(step) ==
  CASE step = "idle" -> {"none"}
    [] step = "reset" -> {"init"}
    [] step \in {"cpu", "ram"} -> PairFencing
    [] step = "gpu" -> Sequencing \cup {"gpu_fence"}
    [] step = "sequence" -> Sequencing
    [] step \in {"fill", "copy", "copy_rest"} -> Copying
    [] OTHER -> Ops

OpFits == \A c \in Cpus : op[c] \in OpsAt(pc[c])

LEMMA FirstStepFits ==
  ASSUME NEW o \in Ops
  PROVE  o \in OpsAt(FirstStep(o)) /\ FirstStep(o) \in Locked
  BY DEF Ops, OpsAt, FirstStep, PairFencing, Sequencing, Copying, Locked, Body

LEMMA FitsInit == Init => OpFits
  BY DEF Init, OpFits, OpsAt

(* A processor fits where a step takes it, and the others stay. *)
LEMMA FitsAfter ==
  ASSUME TypeOK, OpFits, NEW c \in Cpus, NEW step \in Steps, Goto(c, step),
         UNCHANGED op, op[c] \in OpsAt(step)
  PROVE  OpFits'
<1>1. ASSUME NEW e \in Cpus PROVE op'[e] \in OpsAt(pc'[e])
  <2>1. CASE e = c
    <3>1. pc'[e] = step
      BY <2>1 DEF Goto, TypeOK
    <3>2. QED
      BY <2>1, <3>1
  <2>2. CASE e # c
    <3>1. pc'[e] = pc[e]
      BY <2>2 DEF Goto, TypeOK
    <3>2. QED
      BY <3>1 DEF OpFits
  <2>3. QED
    BY <2>1, <2>2
<1>2. QED
  BY <1>1 DEF OpFits

LEMMA FitsStep == TypeOK /\ OpFits /\ [Next]_vars => OpFits'
<1> SUFFICES ASSUME TypeOK, OpFits, [Next]_vars PROVE OpFits'
  OBVIOUS
<1> DEFINE fits(c) == op[c] \in OpsAt(pc[c])
<1>0. \A c \in Cpus : fits(c) /\ pc[c] \in Steps
  BY DEF OpFits, TypeOK
<1>1. CASE UNCHANGED vars
  BY <1>1 DEF vars, OpFits
<1>2. ASSUME NEW c \in Cpus, SetInterrupts(c) PROVE OpFits'
  BY <1>2 DEF SetInterrupts, OpFits
<1>3. ASSUME NEW c \in Cpus, NEW o \in Ops, Call(c, o) PROVE OpFits'
  <2>1. ASSUME NEW e \in Cpus PROVE op'[e] \in OpsAt(pc'[e])
    <3>1. CASE e = c
      <4>1. op'[e] = o /\ pc'[e] = "save"
        BY <1>3, <3>1 DEF Call, Goto, TypeOK
      <4>2. QED
        BY <4>1 DEF OpsAt
    <3>2. CASE e # c
      <4>1. op'[e] = op[e] /\ pc'[e] = pc[e]
        BY <1>3, <3>2 DEF Call, Goto, TypeOK
      <4>2. QED
        BY <1>0, <4>1
    <3>3. QED
      BY <3>1, <3>2
  <2>2. QED
    BY <2>1 DEF OpFits
<1>4. ASSUME NEW c \in Cpus, SaveFlags(c) \/ Cli(c) \/ LockWait(c) PROVE OpFits'
  <2>1. PICK step \in {"cli", "try"} : Goto(c, step) /\ UNCHANGED op
    BY <1>4 DEF SaveFlags, Cli, LockWait
  <2>2. step \in Steps /\ op[c] \in OpsAt(step)
    <3>1. pc[c] \in {"save", "cli", "wait"}
      BY <1>4 DEF SaveFlags, Cli, LockWait
    <3>2. QED
      BY <1>0, <2>1, <3>1 DEF OpsAt, Steps
  <2>3. QED
    BY <2>1, <2>2, FitsAfter
<1>5. ASSUME NEW c \in Cpus, Xchg(c) PROVE OpFits'
  <2>1. pc[c] = "try" /\ UNCHANGED op
    BY <1>5 DEF Xchg
  <2>2. op[c] \in Ops
    BY <1>0, <2>1 DEF OpsAt
  <2>3. CASE stateLock = 0
    <3>1. Goto(c, FirstStep(op[c]))
      BY <1>5, <2>3 DEF Xchg
    <3>2. QED
      BY <2>1, <2>2, <3>1, FirstStepFits, FitsAfter DEF Steps
  <2>4. CASE stateLock # 0
    <3>1. Goto(c, "wait")
      BY <1>5, <2>4 DEF Xchg
    <3>2. "wait" \in Steps /\ op[c] \in OpsAt("wait")
      BY <2>2 DEF Steps, OpsAt
    <3>3. QED
      BY <2>1, <3>1, <3>2, FitsAfter
  <2>5. QED
    BY <2>3, <2>4
<1>6. ASSUME NEW c \in Cpus, Reset(c) \/ CpuFence(c) \/ RamFence(c) PROVE OpFits'
  <2>1. PICK step \in {"cpu", "ram", "gpu", "release"} :
          /\ Goto(c, step) /\ UNCHANGED op
          /\ \/ pc[c] = "reset" /\ step = "cpu"
             \/ pc[c] = "cpu" /\ step = "ram"
             \/ pc[c] = "ram" /\ step = "gpu" /\ op[c] # "cpu_ram_fence"
             \/ pc[c] = "ram" /\ step = "release"
    BY <1>6 DEF Reset, CpuFence, RamFence, Bump
  <2>2. step \in Steps /\ op[c] \in OpsAt(step)
    BY <1>0, <2>1 DEF OpsAt, Steps, Locked, Body, PairFencing, Sequencing, Ops
  <2>3. QED
    BY <2>1, <2>2, FitsAfter
<1>7. ASSUME NEW c \in Cpus, GpuFence(c) \/ Sequence(c) PROVE OpFits'
  <2>1. PICK step \in {"sequence", "fill", "release"} :
          /\ Goto(c, step) /\ UNCHANGED op
          /\ \/ pc[c] = "gpu" /\ step = "sequence" /\ op[c] # "gpu_fence"
             \/ pc[c] \in {"gpu", "sequence"} /\ step = "release"
             \/ pc[c] = "sequence" /\ step = "fill" /\ op[c] # "full_fence"
    BY <1>7 DEF GpuFence, Sequence, Bump
  <2>2. step \in Steps /\ op[c] \in OpsAt(step)
    BY <1>0, <2>1 DEF OpsAt, Steps, Locked, Body, Copying, Sequencing, Ops
  <2>3. QED
    BY <2>1, <2>2, FitsAfter
<1>8. ASSUME NEW c \in Cpus, Fill(c) \/ CopyFirst(c) \/ CopyRest(c) PROVE OpFits'
  <2>1. PICK step \in {"copy", "copy_rest", "release"} : Goto(c, step) /\ UNCHANGED op
    BY <1>8 DEF Fill, CopyFirst, CopyRest
  <2>2. pc[c] \in {"fill", "copy", "copy_rest"}
    BY <1>8 DEF Fill, CopyFirst, CopyRest
  <2>3. step \in Steps /\ op[c] \in OpsAt(step)
    BY <1>0, <2>1, <2>2 DEF OpsAt, Steps, Locked, Body, Copying, Ops
  <2>4. QED
    BY <2>1, <2>3, FitsAfter
<1>9. ASSUME NEW c \in Cpus, Release(c) PROVE OpFits'
  <2>1. Goto(c, "restore") /\ UNCHANGED op /\ pc[c] = "release"
    BY <1>9 DEF Release
  <2>2. "restore" \in Steps /\ op[c] \in OpsAt("restore")
    BY <1>0, <2>1 DEF OpsAt, Steps
  <2>3. QED
    BY <2>1, <2>2, FitsAfter
<1>10. ASSUME NEW c \in Cpus, Restore(c) PROVE OpFits'
  <2>1. ASSUME NEW e \in Cpus PROVE op'[e] \in OpsAt(pc'[e])
    <3>1. CASE e = c
      <4>1. op'[e] = "none" /\ pc'[e] = "idle"
        BY <1>10, <3>1 DEF Restore, Goto, TypeOK
      <4>2. QED
        BY <4>1 DEF OpsAt
    <3>2. CASE e # c
      <4>1. op'[e] = op[e] /\ pc'[e] = pc[e]
        BY <1>10, <3>2 DEF Restore, Goto, TypeOK
      <4>2. QED
        BY <1>0, <4>1
    <3>3. QED
      BY <3>1, <3>2
  <2>2. QED
    BY <2>1 DEF OpFits
<1>11. QED
  BY <1>1, <1>2, <1>3, <1>4, <1>5, <1>6, <1>7, <1>8, <1>9, <1>10 DEF Next, Advance

LEMMA Fits == Spec => []OpFits
  BY FitsInit, FitsStep, TypeCorrect, PTL DEF Spec

(* What is left to do of an operation, step by step. *)
LEMMA WholeAtFirst ==
  ASSUME NEW o \in Ops, NEW r \in Snapshot
  PROVE  Completed(o, FirstStep(o), r) = After(o, r)
<1> USE DEF Ops, Completed, After, FirstStep, Sequencing, PairFencing, GpuFencing, Copying
<1>1. CASE o = "init"
  BY <1>1
<1>2. CASE o = "gpu_fence"
  BY <1>2
<1>3. CASE o = "capture"
  BY <1>3
<1>4. CASE o = "is_ready"
  BY <1>4
<1>5. CASE o \in {"cpu_ram_fence", "full_fence", "checkpoint"}
  BY <1>5
<1>6. QED
  BY <1>1, <1>2, <1>3, <1>4, <1>5

LEMMA WholeAtLast ==
  ASSUME NEW o, NEW r \in Snapshot
  PROVE  /\ Completed(o, "release", r) = r
         /\ Completed(o, "copy_rest", r) = r
         /\ Completed(o, "copy", r) = r
  BY DEF Completed, Snapshot

LEMMA WholeAtReset ==
  Completed("init", "reset", snapshot) = Completed("init", "cpu", ZeroSnapshot)
  BY DEF Completed, Sequencing, PairFencing, GpuFencing, Copying

LEMMA WholeAtCpu ==
  ASSUME NEW o \in PairFencing, NEW r \in Snapshot, NEW n,
         n = [r EXCEPT !.cpu_fence_count = Inc(@)]
  PROVE  Completed(o, "cpu", r) = Completed(o, "ram", n)
  BY DEF Completed, Snapshot

LEMMA WholeAtRam ==
  ASSUME NEW o \in PairFencing, NEW r \in Snapshot, NEW n,
         n = [r EXCEPT !.ram_fence_count = Inc(@)]
  PROVE  Completed(o, "ram", r)
           = Completed(o, IF o = "cpu_ram_fence" THEN "release" ELSE "gpu", n)
  BY DEF Completed, Snapshot, Sequencing, PairFencing, GpuFencing, Copying

LEMMA WholeAtGpu ==
  ASSUME NEW o \in Sequencing \cup {"gpu_fence"}, NEW r \in Snapshot, NEW n,
         n = IF FramebufferAvailable THEN [r EXCEPT !.gpu_fence_count = Inc(@)] ELSE r
  PROVE  Completed(o, "gpu", r)
           = Completed(o, IF o = "gpu_fence" THEN "release" ELSE "sequence", n)
  BY DEF Completed, Snapshot, Sequencing, PairFencing, GpuFencing, Copying

LEMMA WholeAtSequence ==
  ASSUME NEW o \in Sequencing, NEW r \in Snapshot, NEW n,
         n = [r EXCEPT !.sequence = Inc(@)]
  PROVE  Completed(o, "sequence", r)
           = Completed(o, IF o = "full_fence" THEN "release" ELSE "fill", n)
  BY DEF Completed, Snapshot, Sequencing, PairFencing, GpuFencing, Copying

LEMMA WholeAtFill ==
  ASSUME NEW o \in Copying, NEW r \in Snapshot, NEW n,
         n = [r EXCEPT !.filled = TRUE]
  PROVE  Completed(o, "fill", r) = Completed(o, "copy", n)
  BY DEF Completed, Snapshot, Copying

(* Whole, by its owner. *)
LEMMA OnlyOwner ==
  ASSUME NEW S, NEW c \in S, \A d \in S : d = c
  PROVE  S # {} /\ (CHOOSE d \in S : TRUE) = c
  OBVIOUS

LEMMA WholeOfOwner ==
  ASSUME MutualExclusion, NEW c \in Cpus, pc[c] \in Locked
  PROVE  Owners = {c} /\ Whole = Completed(op[c], pc[c], snapshot)
<1>1. Owners = {c}
  BY DEF Owners, MutualExclusion
<1>2. Owners # {} /\ (CHOOSE d \in Owners : TRUE) = c
  BY <1>1
<1>3. QED
  BY <1>1, <1>2 DEF Whole

LEMMA WholeUnowned ==
  ASSUME Owners = {}
  PROVE  Whole = snapshot
  BY DEF Whole

AInv == IInv /\ OpFits

objects == <<Whole, Phase, op, Given>>

LEMMA StutterIs ==
  ASSUME UNCHANGED objects
  PROVE  [Object!ObjectNext]_(Object!objectVars)
  BY DEF objects, Object!objectVars

(* Nobody takes or leaves the lock, and its owner is left alone. *)
LEMMA OutsideStutters ==
  ASSUME UNCHANGED <<snapshot, op, copy>>, Owners' = Owners,
         \A e \in Owners : pc'[e] = pc[e], Phase' = Phase
  PROVE  UNCHANGED objects
<1>1. Whole' = Whole
  <2>1. CASE Owners = {}
    BY <2>1 DEF Whole
  <2>2. CASE Owners # {}
    <3>1. PICK c \in Owners : c = CHOOSE d \in Owners : TRUE
      BY <2>2
    <3>2. Whole = Completed(op[c], pc[c], snapshot)
      BY <2>2, <3>1 DEF Whole
    <3>3. Whole' = Completed(op'[c], pc'[c], snapshot')
      BY <2>2, <3>1 DEF Whole
    <3>4. QED
      BY <3>2, <3>3
  <2>3. QED
    BY <2>1, <2>2
<1>2. Given' = Given
  BY <1>1 DEF Given
<1>3. QED
  BY <1>1, <1>2 DEF objects

(* A step of a body: the record as it will be left stays what it is. *)
LEMMA BodyStutters ==
  ASSUME MutualExclusion, MutualExclusion', NEW c \in Cpus,
         pc[c] \in Locked, pc'[c] \in Locked,
         \A e \in Cpus \ {c} : pc'[e] = pc[e] /\ copy'[e] = copy[e],
         UNCHANGED op, UNCHANGED copy \/ op[c] \in Copying,
         Completed(op[c], pc'[c], snapshot') = Completed(op[c], pc[c], snapshot)
  PROVE  UNCHANGED objects
<1>1. Owners = {c} /\ Whole = Completed(op[c], pc[c], snapshot)
  BY WholeOfOwner
<1>2. Owners' = {c}
  BY DEF Owners, MutualExclusion
<1>3. Whole' = Completed(op'[c], pc'[c], snapshot')
  <2>1. Owners' # {} /\ (CHOOSE d \in Owners' : TRUE) = c
    BY <1>2
  <2>2. QED
    BY <2>1 DEF Whole
<1>4. Whole' = Whole
  BY <1>1, <1>3
<1>5. Phase' = Phase
  BY DEF Phase, Locked, Body
<1>6. Given' = Given
  <2>1. ASSUME NEW e \in Cpus
        PROVE  (IF e \in Owners' /\ op'[e] \in Copying THEN Whole' ELSE copy'[e])
                 = (IF e \in Owners /\ op[e] \in Copying THEN Whole ELSE copy[e])
    BY <1>1, <1>2, <1>4
  <2>2. QED
    BY <2>1 DEF Given
<1>7. QED
  BY <1>4, <1>5, <1>6 DEF objects

(* What Goto and the frame of an action leave of the other processors. *)
LEMMA OthersStay ==
  ASSUME TypeOK, NEW c \in Cpus, NEW step, Goto(c, step)
  PROVE  pc'[c] = step /\ \A e \in Cpus \ {c} : pc'[e] = pc[e]
  BY DEF TypeOK, Goto

LEMMA BodyStep ==
  ASSUME AInv, IInv', NEW c \in Cpus,
         \/ Reset(c) \/ CpuFence(c) \/ RamFence(c) \/ GpuFence(c)
         \/ Sequence(c) \/ Fill(c) \/ CopyFirst(c) \/ CopyRest(c)
  PROVE  UNCHANGED objects
<1>t. /\ TypeOK /\ MutualExclusion /\ MutualExclusion' /\ snapshot \in Snapshot
      /\ op[c] \in OpsAt(pc[c])
  BY DEF AInv, IInv, OpFits, TypeOK
<1> DEFINE next == pc'[c]
<1>1. ASSUME NEW step, Goto(c, step), pc[c] \in Locked, step \in Locked,
             UNCHANGED <<op, copy>>,
             Completed(op[c], step, snapshot') = Completed(op[c], pc[c], snapshot)
      PROVE  UNCHANGED objects
  BY <1>t, <1>1, OthersStay, BodyStutters
<1>2. CASE Reset(c)
  <2>1. pc[c] = "reset" /\ snapshot' = ZeroSnapshot /\ Goto(c, "cpu") /\ UNCHANGED <<op, copy>>
    BY <1>2 DEF Reset
  <2>2. op[c] = "init"
    BY <1>t, <2>1 DEF OpsAt
  <2>3. QED
    BY <1>1, <2>1, <2>2, WholeAtReset DEF Locked, Body
<1>3. CASE CpuFence(c)
  <2>1. /\ pc[c] = "cpu" /\ Goto(c, "ram") /\ UNCHANGED <<op, copy>>
        /\ snapshot' = [snapshot EXCEPT !.cpu_fence_count = Inc(@)]
    BY <1>3 DEF CpuFence, Bump
  <2>2. op[c] \in PairFencing
    BY <1>t, <2>1 DEF OpsAt
  <2>3. Completed(op[c], "ram", snapshot') = Completed(op[c], "cpu", snapshot)
    BY <1>t, <2>1, <2>2, WholeAtCpu
  <2>4. QED
    BY <1>1, <2>1, <2>3 DEF Locked, Body
<1>4. CASE RamFence(c)
  <2> DEFINE step == IF op[c] = "cpu_ram_fence" THEN "release" ELSE "gpu"
  <2>1. /\ pc[c] = "ram" /\ Goto(c, step) /\ UNCHANGED <<op, copy>>
        /\ snapshot' = [snapshot EXCEPT !.ram_fence_count = Inc(@)]
    BY <1>4 DEF RamFence, Bump
  <2>2. op[c] \in PairFencing
    BY <1>t, <2>1 DEF OpsAt
  <2>3. Completed(op[c], step, snapshot') = Completed(op[c], "ram", snapshot)
    BY <1>t, <2>1, <2>2, WholeAtRam
  <2>4. step \in Locked /\ pc[c] \in Locked
    BY <2>1 DEF Locked, Body
  <2>5. QED
    BY <1>1, <2>1, <2>3, <2>4
<1>5. CASE GpuFence(c)
  <2> DEFINE step == IF op[c] = "gpu_fence" THEN "release" ELSE "sequence"
  <2>1. /\ pc[c] = "gpu" /\ Goto(c, step) /\ UNCHANGED <<op, copy>>
        /\ snapshot' = IF FramebufferAvailable
                         THEN [snapshot EXCEPT !.gpu_fence_count = Inc(@)]
                         ELSE snapshot
    BY <1>5 DEF GpuFence
  <2>2. op[c] \in Sequencing \cup {"gpu_fence"}
    BY <1>t, <2>1 DEF OpsAt
  <2>3. Completed(op[c], step, snapshot') = Completed(op[c], "gpu", snapshot)
    BY <1>t, <2>1, <2>2, WholeAtGpu
  <2>4. step \in Locked /\ pc[c] \in Locked
    BY <2>1 DEF Locked, Body
  <2>5. QED
    BY <1>1, <2>1, <2>3, <2>4
<1>6. CASE Sequence(c)
  <2> DEFINE step == IF op[c] = "full_fence" THEN "release" ELSE "fill"
  <2>1. /\ pc[c] = "sequence" /\ Goto(c, step) /\ UNCHANGED <<op, copy>>
        /\ snapshot' = [snapshot EXCEPT !.sequence = Inc(@)]
    BY <1>6 DEF Sequence, Bump
  <2>2. op[c] \in Sequencing
    BY <1>t, <2>1 DEF OpsAt
  <2>3. Completed(op[c], step, snapshot') = Completed(op[c], "sequence", snapshot)
    BY <1>t, <2>1, <2>2, WholeAtSequence
  <2>4. step \in Locked /\ pc[c] \in Locked
    BY <2>1 DEF Locked, Body
  <2>5. QED
    BY <1>1, <2>1, <2>3, <2>4
<1>7. CASE Fill(c)
  <2>1. /\ pc[c] = "fill" /\ Goto(c, "copy") /\ UNCHANGED <<op, copy>>
        /\ snapshot' = [snapshot EXCEPT !.filled = TRUE]
    BY <1>7 DEF Fill
  <2>2. op[c] \in Copying
    BY <1>t, <2>1 DEF OpsAt
  <2>3. Completed(op[c], "copy", snapshot') = Completed(op[c], "fill", snapshot)
    BY <1>t, <2>1, <2>2, WholeAtFill
  <2>4. QED
    BY <1>1, <2>1, <2>3 DEF Locked, Body
<1>8. CASE CopyFirst(c) \/ CopyRest(c)
  <2>1. PICK step \in {"copy_rest", "release"} : Goto(c, step) /\ UNCHANGED <<op, snapshot>>
    BY <1>8 DEF CopyFirst, CopyRest
  <2>2. pc[c] \in {"copy", "copy_rest"}
    BY <1>8 DEF CopyFirst, CopyRest
  <2>3. \A e \in Cpus \ {c} : copy'[e] = copy[e]
    BY <1>t, <1>8 DEF CopyFirst, CopyRest, TypeOK
  <2>4. op[c] \in Copying
    BY <1>t, <2>2 DEF OpsAt
  <2>5. Completed(op[c], step, snapshot') = Completed(op[c], pc[c], snapshot)
    BY <1>t, <2>1, <2>2, WholeAtLast
  <2>6. pc'[c] = step /\ \A e \in Cpus \ {c} : pc'[e] = pc[e]
    BY <1>t, <2>1, OthersStay
  <2>7. step \in Locked /\ pc[c] \in Locked
    BY <2>1, <2>2 DEF Locked, Body
  <2>8. QED
    BY <1>t, <2>1, <2>3, <2>4, <2>5, <2>6, <2>7, BodyStutters
<1>9. QED
  BY <1>2, <1>3, <1>4, <1>5, <1>6, <1>7, <1>8

(* The steps before the lock and the kernel's own cli and sti. *)
LEMMA WaitingStutters ==
  ASSUME AInv, NEW c \in Cpus,
         SetInterrupts(c) \/ SaveFlags(c) \/ Cli(c) \/ LockWait(c) \/ (Xchg(c) /\ stateLock # 0)
  PROVE  UNCHANGED objects
<1>t. TypeOK
  BY DEF AInv, IInv
<1>1. CASE SetInterrupts(c)
  BY <1>1 DEF SetInterrupts, objects, Whole, Owners, Phase, Given
<1>2. CASE ~SetInterrupts(c)
  <2>1. PICK step \in {"cli", "try", "wait"} : Goto(c, step) /\ UNCHANGED <<op, snapshot, copy>>
    BY <1>2 DEF SaveFlags, Cli, LockWait, Xchg
  <2>2. pc[c] \in {"save", "cli", "wait", "try"}
    BY <1>2 DEF SaveFlags, Cli, LockWait, Xchg
  <2>3. pc'[c] = step /\ \A e \in Cpus \ {c} : pc'[e] = pc[e]
    BY <1>t, <2>1, OthersStay
  <2>4. Owners' = Owners /\ c \notin Owners
    BY <2>1, <2>2, <2>3 DEF Owners, Locked, Body
  <2>5. \A e \in Owners : pc'[e] = pc[e]
    BY <2>3, <2>4 DEF Owners
  <2>6. Phase' = Phase
    BY <2>1, <2>2, <2>3 DEF Phase, Locked, Body
  <2>7. QED
    BY <2>1, <2>4, <2>5, <2>6, OutsideStutters
<1>3. QED
  BY <1>1, <1>2

(* The release: what the owner leaves is what it said it would. *)
LEMMA ReleaseStutters ==
  ASSUME AInv, IInv', NEW c \in Cpus, Release(c)
  PROVE  UNCHANGED objects
<1>1. /\ pc[c] = "release" /\ UNCHANGED <<op, snapshot, copy>>
      /\ pc'[c] = "restore" /\ \A e \in Cpus \ {c} : pc'[e] = pc[e]
  BY OthersStay DEF AInv, IInv, Release
<1>2. Owners = {c} /\ Whole = Completed(op[c], "release", snapshot)
  BY <1>1, WholeOfOwner DEF AInv, IInv, Locked
<1>3. Owners' = {}
  BY <1>1, <1>2 DEF Owners, Locked, Body
<1>4. Whole = snapshot
  BY <1>2, WholeAtLast DEF AInv, IInv, TypeOK
<1>5. Whole' = snapshot
  BY <1>1, <1>3 DEF Whole
<1>6. Phase' = Phase
  BY <1>1 DEF Phase, Locked
<1>7. op[c] \in Copying => copy[c] = snapshot
  BY <1>1 DEF AInv, IInv, OneEpoch
<1>8. Given' = Given
  BY <1>1, <1>2, <1>3, <1>4, <1>7 DEF Given
<1>9. QED
  BY <1>1, <1>4, <1>5, <1>6, <1>8 DEF objects

LEMMA CallBegins ==
  ASSUME AInv, NEW c \in Cpus, NEW o \in Ops, Call(c, o)
  PROVE  Object!Begin(c)
<1>1. /\ pc[c] = "idle" /\ UNCHANGED <<snapshot, copy>>
      /\ op' = [op EXCEPT ![c] = o]
      /\ pc'[c] = "save" /\ \A e \in Cpus \ {c} : pc'[e] = pc[e]
  BY OthersStay DEF AInv, IInv, Call
<1>2. Owners' = Owners /\ c \notin Owners
  BY <1>1 DEF Owners, Locked, Body
<1>3. \A e \in Owners : op'[e] = op[e] /\ pc'[e] = pc[e]
  BY <1>1, <1>2 DEF Owners, AInv, IInv, TypeOK
<1>4. Whole' = Whole
  <2>1. CASE Owners = {}
    BY <1>1, <1>2, <2>1 DEF Whole
  <2>2. CASE Owners # {}
    <3>1. PICK d \in Owners : d = CHOOSE e \in Owners : TRUE
      BY <2>2
    <3>2. Whole = Completed(op[d], pc[d], snapshot)
      BY <2>2, <3>1 DEF Whole
    <3>3. Whole' = Completed(op'[d], pc'[d], snapshot')
      BY <1>2, <2>2, <3>1 DEF Whole
    <3>4. QED
      BY <1>1, <1>3, <3>2, <3>3
  <2>3. QED
    BY <2>1, <2>2
<1>5. Given' = Given
  <2>1. ASSUME NEW e \in Cpus
        PROVE  (IF e \in Owners' /\ op'[e] \in Copying THEN Whole' ELSE copy'[e])
                 = (IF e \in Owners /\ op[e] \in Copying THEN Whole ELSE copy[e])
    BY <1>1, <1>2, <1>3, <1>4
  <2>2. QED
    BY <2>1 DEF Given
<1>6. Phase[c] = "idle" /\ Phase' = [Phase EXCEPT ![c] = "called"]
  BY <1>1 DEF Phase, Locked, Body
<1>7. QED
  BY <1>1, <1>4, <1>5, <1>6 DEF Object!Begin

LEMMA XchgTakesEffect ==
  ASSUME AInv, IInv', NEW c \in Cpus, Xchg(c), stateLock = 0
  PROVE  Object!TakeEffect(c)
<1>1. /\ pc[c] = "try" /\ UNCHANGED <<snapshot, op, copy>>
      /\ pc'[c] = FirstStep(op[c]) /\ \A e \in Cpus \ {c} : pc'[e] = pc[e]
  BY OthersStay DEF AInv, IInv, Xchg
<1>2. op[c] \in Ops /\ snapshot \in Snapshot
  BY <1>1 DEF AInv, IInv, TypeOK, OpFits, OpsAt
<1>3. FirstStep(op[c]) \in Locked
  BY <1>2, FirstStepFits
<1>4. Owners = {} /\ Whole = snapshot
  <2>1. Owners = {}
    BY DEF AInv, IInv, LockHeld, Owners
  <2>2. QED
    BY <2>1, WholeUnowned
<1>5. Owners' = {c}
  BY <1>1, <1>3, <1>4 DEF Owners
<1>6. Whole' = After(op[c], Whole)
  <2>1. Owners' # {} /\ (CHOOSE d \in Owners' : TRUE) = c
    BY <1>5
  <2>2. Whole' = Completed(op'[c], pc'[c], snapshot')
    BY <2>1 DEF Whole
  <2>3. Whole' = Completed(op[c], FirstStep(op[c]), snapshot)
    BY <1>1, <2>2
  <2>4. QED
    BY <1>2, <1>4, <2>3, WholeAtFirst
<1>7. Phase[c] = "called" /\ Phase' = [Phase EXCEPT ![c] = "done"]
  <2>1. Phase[c] = "called"
    BY <1>1 DEF Phase, Locked, Body
  <2>2. Phase' = [Phase EXCEPT ![c] = "done"]
    BY <1>1, <1>3 DEF Phase, Locked, Body
  <2>3. QED
    BY <2>1, <2>2
<1>8. Given' = IF op[c] \in Copying THEN [Given EXCEPT ![c] = Whole'] ELSE Given
  <2>1. Given = [e \in Cpus |-> copy[e]]
    BY <1>4 DEF Given
  <2>2. Given' = [e \in Cpus |-> IF e = c /\ op[c] \in Copying THEN Whole' ELSE copy[e]]
    BY <1>1, <1>5 DEF Given
  <2>3. QED
    BY <2>1, <2>2
<1>9. QED
  BY <1>1, <1>6, <1>7, <1>8 DEF Object!TakeEffect

LEMMA RestoreReturns ==
  ASSUME AInv, NEW c \in Cpus, Restore(c)
  PROVE  Object!Return(c)
<1>1. /\ pc[c] = "restore" /\ UNCHANGED snapshot
      /\ op' = [op EXCEPT ![c] = "none"]
      /\ copy' = [copy EXCEPT ![c] = ZeroSnapshot]
      /\ pc'[c] = "idle" /\ \A e \in Cpus \ {c} : pc'[e] = pc[e]
  BY OthersStay DEF AInv, IInv, Restore
<1>2. Owners' = Owners /\ c \notin Owners
  BY <1>1 DEF Owners, Locked, Body
<1>3. \A e \in Owners : op'[e] = op[e] /\ pc'[e] = pc[e]
  BY <1>1, <1>2 DEF Owners, AInv, IInv, TypeOK
<1>4. Whole' = Whole
  <2>1. CASE Owners = {}
    BY <1>1, <1>2, <2>1 DEF Whole
  <2>2. CASE Owners # {}
    <3>1. PICK d \in Owners : d = CHOOSE e \in Owners : TRUE
      BY <2>2
    <3>2. Whole = Completed(op[d], pc[d], snapshot)
      BY <2>2, <3>1 DEF Whole
    <3>3. Whole' = Completed(op'[d], pc'[d], snapshot')
      BY <1>2, <2>2, <3>1 DEF Whole
    <3>4. QED
      BY <1>1, <1>3, <3>2, <3>3
  <2>3. QED
    BY <2>1, <2>2
<1>5. Given' = [Given EXCEPT ![c] = ZeroSnapshot]
  <2>1. ASSUME NEW e \in Cpus
        PROVE  (IF e \in Owners' /\ op'[e] \in Copying THEN Whole' ELSE copy'[e])
                 = IF e = c THEN ZeroSnapshot
                   ELSE IF e \in Owners /\ op[e] \in Copying THEN Whole ELSE copy[e]
    BY <1>1, <1>2, <1>3, <1>4 DEF AInv, IInv, TypeOK
  <2>2. QED
    BY <2>1 DEF Given
<1>6. Phase[c] = "done" /\ Phase' = [Phase EXCEPT ![c] = "idle"]
  BY <1>1 DEF Phase, Locked, Body
<1>7. QED
  BY <1>1, <1>4, <1>5, <1>6 DEF Object!Return

LEMMA ObjectInitially == Init => Object!ObjectInit
<1> SUFFICES ASSUME Init PROVE Object!ObjectInit
  OBVIOUS
<1>1. /\ snapshot = ZeroSnapshot /\ \A c \in Cpus : pc[c] = "idle"
      /\ op = [c \in Cpus |-> "none"] /\ copy = [c \in Cpus |-> ZeroSnapshot]
  BY DEF Init
<1>2. Owners = {}
  BY <1>1 DEF Owners, Locked, Body
<1>3. Whole = ZeroSnapshot
  BY <1>1, <1>2 DEF Whole
<1>4. Phase = [c \in Cpus |-> "idle"]
  BY <1>1 DEF Phase
<1>5. Given = [c \in Cpus |-> ZeroSnapshot]
  BY <1>1, <1>2 DEF Given
<1>6. QED
  BY <1>1, <1>3, <1>4, <1>5 DEF Object!ObjectInit

(* docs/SYSTEM_SYNC.md: the lock makes one epoch of the sync-owned fields.  *)
(* For any number of processors, every operation of system_sync.h takes    *)
(* effect on the whole record at once, between its call and its return,    *)
(* and the snapshot that capture and checkpoint give is the one then.      *)
THEOREM SyncIsAtomic == Spec => ImplementsAtomicObject
<1>1. ASSUME AInv, IInv', [Next]_vars PROVE [Object!ObjectNext]_(Object!objectVars)
  <2>1. CASE UNCHANGED vars
    <3>1. UNCHANGED objects
      BY <2>1 DEF vars, objects, Whole, Owners, Phase, Given
    <3>2. QED
      BY <3>1, StutterIs
  <2>2. ASSUME NEW c \in Cpus, NEW o \in Ops, Call(c, o)
        PROVE  Object!ObjectNext
    BY <1>1, <2>2, CallBegins DEF Object!ObjectNext
  <2>3. ASSUME NEW c \in Cpus, SetInterrupts(c) \/ Advance(c)
        PROVE  [Object!ObjectNext]_(Object!objectVars)
    <3>1. CASE SetInterrupts(c) \/ SaveFlags(c) \/ Cli(c) \/ LockWait(c)
                 \/ (Xchg(c) /\ stateLock # 0)
      BY <1>1, <3>1, WaitingStutters, StutterIs
    <3>2. CASE Xchg(c) /\ stateLock = 0
      <4>1. Object!TakeEffect(c)
        BY <1>1, <3>2, XchgTakesEffect
      <4>2. QED
        BY <4>1 DEF Object!ObjectNext
    <3>3. CASE \/ Reset(c) \/ CpuFence(c) \/ RamFence(c) \/ GpuFence(c)
               \/ Sequence(c) \/ Fill(c) \/ CopyFirst(c) \/ CopyRest(c)
      BY <1>1, <3>3, BodyStep, StutterIs
    <3>4. CASE Release(c)
      BY <1>1, <3>4, ReleaseStutters, StutterIs
    <3>5. CASE Restore(c)
      <4>1. Object!Return(c)
        BY <1>1, <3>5, RestoreReturns
      <4>2. QED
        BY <4>1 DEF Object!ObjectNext
    <3>6. QED
      BY <2>3, <3>1, <3>2, <3>3, <3>4, <3>5 DEF Advance
  <2>4. QED
    BY <1>1, <2>1, <2>2, <2>3 DEF Next
<1>2. AInv /\ IInv' /\ [Next]_vars => [Object!ObjectNext]_(Object!objectVars)
  BY <1>1
<1>3. Spec => []AInv
  BY Invariant, Fits, PTL DEF AInv
<1>4. QED
  BY <1>2, <1>3, Invariant, ObjectInitially, PTL
  DEF Spec, ImplementsAtomicObject, Object!ObjectSpec
=============================================================================
