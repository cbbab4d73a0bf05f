----------------------------- MODULE SystemSync -----------------------------
(***************************************************************************)
(* The System Sync Layer: kernel/sync/system_sync.c over sync_asm.s.       *)
(*                                                                         *)
(* Every public operation runs the same frame,                             *)
(*                                                                         *)
(*   irq_save; lock_acquire; <body>; lock_release; irq_restore,            *)
(*                                                                         *)
(* and the bodies update one static record, hnm_sync_last_snapshot, and    *)
(* copy it to the caller. The kernel of this commit boots one processor;   *)
(* the lock is there for several, so the processors are a constant. A step *)
(* of this module is one access to a shared word: the places where the     *)
(* processors interleave.                                                  *)
(***************************************************************************)
EXTENDS Integers

CONSTANTS
  Cpus,                  \* processors that call the sync layer
  CounterModulus,        \* the counters are u32: 2^32 in the kernel
  FramebufferAvailable   \* hnm_framebuffer_is_available(), fixed at boot

ASSUME SyncAssumption ==
  /\ CounterModulus \in Nat \ {0, 1}
  /\ FramebufferAvailable \in BOOLEAN

VARIABLES
  snapshot,       \* hnm_sync_last_snapshot
  stateLock,      \* hnm_sync_state_lock
  ready,          \* hnm_sync_ready
  interruptFlag,  \* EFLAGS.IF of each processor
  irqFlags,       \* the IF bit of the local irq_flags of the running call
  op,             \* the operation a processor is in
  pc,             \* the next access it makes
  copy,           \* the caller's struct hnm_sync_snapshot
  callerFlag      \* history: EFLAGS.IF when the operation was called

vars == <<snapshot, stateLock, ready, interruptFlag, irqFlags, op, pc, copy,
          callerFlag>>

-----------------------------------------------------------------------------
Counter == 0 .. (CounterModulus - 1)

(* Slips of the code, for the mutation runs, precede what they would replace. *)
IncUnbounded(n) == n + 1

Inc(n) == (n + 1) % CounterModulus

(***************************************************************************)
(* state_flags, the page and byte counts and the framebuffer geometry are  *)
(* one bit here: whether they hold readings (filled) or the zeros of init. *)
(***************************************************************************)
Snapshot == [sequence : Counter, cpu_fence_count : Counter,
             ram_fence_count : Counter, gpu_fence_count : Counter,
             filled : BOOLEAN]

ZeroSnapshot == [sequence |-> 0, cpu_fence_count |-> 0, ram_fence_count |-> 0,
                 gpu_fence_count |-> 0, filled |-> FALSE]

Ops == {"init", "cpu_ram_fence", "gpu_fence", "full_fence", "capture",
        "checkpoint", "is_ready"}

Copying == {"init", "capture", "checkpoint"}   \* the ones with a snapshot argument

Body == {"reset", "cpu", "ram", "gpu", "sequence", "fill", "copy", "copy_rest"}

Locked == Body \cup {"release"}    \* between lock_acquire and lock_release

Steps == Locked \cup {"idle", "save", "cli", "try", "wait", "restore"}

-----------------------------------------------------------------------------
Init ==
  /\ snapshot = ZeroSnapshot
  /\ stateLock = 0
  /\ ready = FALSE
  /\ interruptFlag = [c \in Cpus |-> FALSE]
  /\ irqFlags = [c \in Cpus |-> FALSE]
  /\ op = [c \in Cpus |-> "none"]
  /\ pc = [c \in Cpus |-> "idle"]
  /\ copy = [c \in Cpus |-> ZeroSnapshot]
  /\ callerFlag = [c \in Cpus |-> FALSE]

Goto(c, step) == pc' = [pc EXCEPT ![c] = step]

(* hnm_sync_init is called once, at boot, before every other operation. *)
MayCall(o) ==
  IF o = "init" THEN ~ready /\ \A d \in Cpus : pc[d] = "idle" ELSE ready

Call(c, o) ==
  /\ pc[c] = "idle"
  /\ MayCall(o)
  /\ op' = [op EXCEPT ![c] = o]
  /\ callerFlag' = [callerFlag EXCEPT ![c] = interruptFlag[c]]
  /\ Goto(c, "save")
  /\ UNCHANGED <<snapshot, stateLock, ready, interruptFlag, irqFlags, copy>>

(* The kernel's own cli and sti outside the sync layer. *)
SetInterrupts(c) ==
  /\ pc[c] = "idle"
  /\ interruptFlag' = [interruptFlag EXCEPT ![c] = ~@]
  /\ UNCHANGED <<snapshot, stateLock, ready, irqFlags, op, pc, copy, callerFlag>>

SaveFlagsAfterCli(c) ==
  /\ pc[c] = "save"
  /\ irqFlags' = [irqFlags EXCEPT ![c] = FALSE]
  /\ Goto(c, "cli")
  /\ UNCHANGED <<snapshot, stateLock, ready, interruptFlag, op, copy, callerFlag>>

(* hnm_sync_irq_save: pushfl; pop %eax, then cli. *)
SaveFlags(c) ==
  /\ pc[c] = "save"
  /\ irqFlags' = [irqFlags EXCEPT ![c] = interruptFlag[c]]
  /\ Goto(c, "cli")
  /\ UNCHANGED <<snapshot, stateLock, ready, interruptFlag, op, copy, callerFlag>>

CliForgotten(c) ==
  /\ pc[c] = "cli"
  /\ Goto(c, "try")
  /\ UNCHANGED <<snapshot, stateLock, ready, interruptFlag, irqFlags, op, copy,
                 callerFlag>>

Cli(c) ==
  /\ pc[c] = "cli"
  /\ interruptFlag' = [interruptFlag EXCEPT ![c] = FALSE]
  /\ Goto(c, "try")
  /\ UNCHANGED <<snapshot, stateLock, ready, irqFlags, op, copy, callerFlag>>

(* The access that follows a successful xchg, by operation. *)
FirstStep(o) ==
  CASE o = "init"      -> "reset"
    [] o = "gpu_fence" -> "gpu"
    [] o = "capture"   -> "fill"
    [] o = "is_ready"  -> "release"
    [] OTHER           -> "cpu"

XchgUntested(c) ==
  /\ pc[c] = "try"
  /\ stateLock' = 1
  /\ Goto(c, FirstStep(op[c]))
  /\ UNCHANGED <<snapshot, ready, interruptFlag, irqFlags, op, copy, callerFlag>>

(* hnm_sync_lock_acquire: xchg stores 1 and returns the old value; the     *)
(* lock is taken when that was 0, and otherwise read until it is 0 again.  *)
Xchg(c) ==
  /\ pc[c] = "try"
  /\ stateLock' = 1
  /\ Goto(c, IF stateLock = 0 THEN FirstStep(op[c]) ELSE "wait")
  /\ UNCHANGED <<snapshot, ready, interruptFlag, irqFlags, op, copy, callerFlag>>

LockWait(c) ==
  /\ pc[c] = "wait"
  /\ stateLock = 0
  /\ Goto(c, "try")
  /\ UNCHANGED <<snapshot, stateLock, ready, interruptFlag, irqFlags, op, copy,
                 callerFlag>>

-----------------------------------------------------------------------------
(* The bodies. *)
Reset(c) ==
  /\ pc[c] = "reset"
  /\ snapshot' = ZeroSnapshot
  /\ ready' = TRUE
  /\ Goto(c, "cpu")
  /\ UNCHANGED <<stateLock, interruptFlag, irqFlags, op, copy, callerFlag>>

Bump(c, step, field, next) ==
  /\ pc[c] = step
  /\ snapshot' = [snapshot EXCEPT ![field] = Inc(@)]
  /\ Goto(c, next)
  /\ UNCHANGED <<stateLock, ready, interruptFlag, irqFlags, op, copy, callerFlag>>

CpuFence(c) == Bump(c, "cpu", "cpu_fence_count", "ram")

RamFence(c) ==
  Bump(c, "ram", "ram_fence_count",
       IF op[c] = "cpu_ram_fence" THEN "release" ELSE "gpu")

GpuFence(c) ==
  /\ pc[c] = "gpu"
  /\ snapshot' = IF FramebufferAvailable
                   THEN [snapshot EXCEPT !.gpu_fence_count = Inc(@)]
                   ELSE snapshot
  /\ Goto(c, IF op[c] = "gpu_fence" THEN "release" ELSE "sequence")
  /\ UNCHANGED <<stateLock, ready, interruptFlag, irqFlags, op, copy, callerFlag>>

Sequence(c) ==
  Bump(c, "sequence", "sequence",
       IF op[c] = "full_fence" THEN "release" ELSE "fill")

FillUnlocking(c) ==
  /\ pc[c] = "fill"
  /\ snapshot' = [snapshot EXCEPT !.filled = TRUE]
  /\ stateLock' = 0
  /\ Goto(c, "copy")
  /\ UNCHANGED <<ready, interruptFlag, irqFlags, op, copy, callerFlag>>

Fill(c) ==
  /\ pc[c] = "fill"
  /\ snapshot' = [snapshot EXCEPT !.filled = TRUE]
  /\ Goto(c, "copy")
  /\ UNCHANGED <<stateLock, ready, interruptFlag, irqFlags, op, copy, callerFlag>>

(* *snapshot = hnm_sync_last_snapshot copies several words. *)
CopyFirst(c) ==
  /\ pc[c] = "copy"
  /\ copy' = [copy EXCEPT ![c].sequence = snapshot.sequence,
                          ![c].cpu_fence_count = snapshot.cpu_fence_count]
  /\ Goto(c, "copy_rest")
  /\ UNCHANGED <<snapshot, stateLock, ready, interruptFlag, irqFlags, op, callerFlag>>

CopyRest(c) ==
  /\ pc[c] = "copy_rest"
  /\ copy' = [copy EXCEPT ![c].ram_fence_count = snapshot.ram_fence_count,
                          ![c].gpu_fence_count = snapshot.gpu_fence_count,
                          ![c].filled = snapshot.filled]
  /\ Goto(c, "release")
  /\ UNCHANGED <<snapshot, stateLock, ready, interruptFlag, irqFlags, op, callerFlag>>

-----------------------------------------------------------------------------
ReleaseForgotten(c) ==
  /\ pc[c] = "release"
  /\ Goto(c, "restore")
  /\ UNCHANGED <<snapshot, stateLock, ready, interruptFlag, irqFlags, op, copy,
                 callerFlag>>

(* hnm_sync_lock_release, then hnm_sync_irq_restore (popfl). *)
Release(c) ==
  /\ pc[c] = "release"
  /\ stateLock' = 0
  /\ Goto(c, "restore")
  /\ UNCHANGED <<snapshot, ready, interruptFlag, irqFlags, op, copy, callerFlag>>

Restore(c) ==
  /\ pc[c] = "restore"
  /\ interruptFlag' = [interruptFlag EXCEPT ![c] = irqFlags[c]]
  /\ irqFlags' = [irqFlags EXCEPT ![c] = FALSE]      \* the frame is popped
  /\ op' = [op EXCEPT ![c] = "none"]
  /\ callerFlag' = [callerFlag EXCEPT ![c] = FALSE]
  /\ copy' = [copy EXCEPT ![c] = ZeroSnapshot]       \* the caller's from here on
  /\ Goto(c, "idle")
  /\ UNCHANGED <<snapshot, stateLock, ready>>

(* The steps a processor takes once it is in an operation. *)
Advance(c) ==
  \/ SaveFlags(c) \/ Cli(c) \/ Xchg(c) \/ LockWait(c)
  \/ Reset(c) \/ CpuFence(c) \/ RamFence(c) \/ GpuFence(c) \/ Sequence(c)
  \/ Fill(c) \/ CopyFirst(c) \/ CopyRest(c)
  \/ Release(c) \/ Restore(c)

Next ==
  \E c \in Cpus :
    \/ SetInterrupts(c)
    \/ \E o \in Ops : Call(c, o)
    \/ Advance(c)

Spec == Init /\ [][Next]_vars

(* A processor keeps executing the operation it is in. *)
FairSpec == Spec /\ \A c \in Cpus : WF_vars(Advance(c))

-----------------------------------------------------------------------------
TypeOK ==
  /\ snapshot \in Snapshot
  /\ stateLock \in {0, 1}
  /\ ready \in BOOLEAN
  /\ interruptFlag \in [Cpus -> BOOLEAN]
  /\ irqFlags \in [Cpus -> BOOLEAN]
  /\ op \in [Cpus -> Ops \cup {"none"}]
  /\ pc \in [Cpus -> Steps]
  /\ copy \in [Cpus -> Snapshot]
  /\ callerFlag \in [Cpus -> BOOLEAN]

(* At most one processor is between lock_acquire and lock_release.         *)
MutualExclusion ==
  \A c, d \in Cpus : pc[c] \in Locked /\ pc[d] \in Locked => c = d

(* No interrupt is taken by a processor that waits for or holds the lock:  *)
(* a handler there that used the layer would wait for itself.              *)
InterruptsMasked ==
  \A c \in Cpus : pc[c] \in Locked \cup {"try", "wait"} => ~interruptFlag[c]

(* docs/SYSTEM_SYNC.md: the lock protects the sync-owned fields as one     *)
(* epoch. The copy a caller is given is the record of one moment: equal to *)
(* the shared record when the lock is released, and from then on until the *)
(* operation returns it has both the CPU and the RAM fence of each pair.   *)
OneEpoch ==
  \A c \in Cpus :
    /\ pc[c] = "release" /\ op[c] \in Copying => copy[c] = snapshot
    /\ pc[c] # "copy_rest" =>
         copy[c].cpu_fence_count = copy[c].ram_fence_count

(* An operation returns with the interrupt flag it was called with: called *)
(* with interrupts off (the main loop) it does not turn them on.           *)
FlagsRestored ==
  [][\A c \in Cpus : pc[c] # "idle" /\ pc'[c] = "idle"
                       => interruptFlag'[c] = callerFlag[c]]_vars

-----------------------------------------------------------------------------
(* What an operation makes of the record it finds, as system_sync.h means  *)
(* it.                                                                     *)
Sequencing == {"init", "full_fence", "checkpoint"}
PairFencing == Sequencing \cup {"cpu_ram_fence"}
GpuFencing == IF FramebufferAvailable THEN Sequencing \cup {"gpu_fence"} ELSE {}

After(o, before) ==
  LET from == IF o = "init" THEN ZeroSnapshot ELSE before
      Counted(field, fencing) == IF o \in fencing THEN Inc(from[field]) ELSE from[field]
  IN  [sequence |-> Counted("sequence", Sequencing),
       cpu_fence_count |-> Counted("cpu_fence_count", PairFencing),
       ram_fence_count |-> Counted("ram_fence_count", PairFencing),
       gpu_fence_count |-> Counted("gpu_fence_count", GpuFencing),
       filled |-> from.filled \/ o \in Copying]

(* The record as the owner of the lock will leave it, from the step it is  *)
(* at: the operation takes effect with the xchg that takes the lock.       *)
Completed(o, step, half) ==
  LET from == IF step = "reset" THEN ZeroSnapshot ELSE half
      Counted(field, fencing, steps) ==
        IF o \in fencing /\ step \in {"reset"} \cup steps
          THEN Inc(from[field]) ELSE from[field]
  IN  [sequence |-> Counted("sequence", Sequencing, {"cpu", "ram", "gpu", "sequence"}),
       cpu_fence_count |-> Counted("cpu_fence_count", PairFencing, {"cpu"}),
       ram_fence_count |-> Counted("ram_fence_count", PairFencing, {"cpu", "ram"}),
       gpu_fence_count |-> Counted("gpu_fence_count", GpuFencing, {"cpu", "ram", "gpu"}),
       filled |-> from.filled \/ (o \in Copying /\ step \notin {"copy", "copy_rest", "release"})]

Owners == {c \in Cpus : pc[c] \in Locked}

Whole == IF Owners = {} THEN snapshot
         ELSE LET c == CHOOSE d \in Owners : TRUE
              IN  Completed(op[c], pc[c], snapshot)

Phase == [c \in Cpus |->
            IF pc[c] = "idle" THEN "idle"
            ELSE IF pc[c] \in Locked \cup {"restore"} THEN "done" ELSE "called"]

Given == [c \in Cpus |-> IF c \in Owners /\ op[c] \in Copying THEN Whole ELSE copy[c]]

Object == INSTANCE AtomicObject
            WITH Callers <- Cpus, Reading <- Copying, Zero <- ZeroSnapshot,
                 record <- Whole, phase <- Phase, call <- op, result <- Given

(* docs/SYSTEM_SYNC.md: the steps of every operation, interleaved with     *)
(* those of other processors, are one atomic step on the record.           *)
ImplementsAtomicObject == Object!ObjectSpec

(* Some waiting processor gets the lock (xchg chooses no one in            *)
(* particular, so a given processor may be overtaken for ever).            *)
LockTaken ==
  (\E c \in Cpus : pc[c] \in {"try", "wait"}) ~> (\E c \in Cpus : pc[c] \in Locked)
=============================================================================
