------------------------------ MODULE Scheduler ------------------------------
(***************************************************************************)
(* The task registry and the cooperative scheduler, kernel/task/task.c and *)
(* scheduler.c.  Today's program registers idle and ui and only yields,    *)
(* once a pass of the main loop; adding tasks and setting their state is   *)
(* modelled as the interface that both files offer.  A task is its place   *)
(* in hnm_tasks, counted from 0; its id is that place plus one.            *)
(***************************************************************************)
EXTENDS Integers, Sequences, FiniteSets

\* HNM_TASK_MAX
TaskMax == 8

\* Where the yield counts, of type u32, wrap.
CounterModulus == 4294967296

VARIABLES
    state,      \* hnm_tasks[].state, by place
    yields,     \* hnm_tasks[].yield_count, by place
    current,    \* hnm_scheduler_current_index
    yieldTotal  \* hnm_scheduler_yield_total

vars == <<state, yields, current, yieldTotal>>

States == {"ready", "running", "blocked", "stopped"}

Tasks == DOMAIN state
Idle == 0
Ui == 1

Inc(n) == (n + 1) % CounterModulus

\* hnm_scheduler_init: both tasks are added, ui is made the running one.
Init ==
    /\ state = [i \in {Idle, Ui} |-> IF i = Ui THEN "running" ELSE "ready"]
    /\ yields = [i \in {Idle, Ui} |-> 0]
    /\ current = Ui
    /\ yieldTotal = 0

Count == Cardinality(Tasks)

\* hnm_scheduler_add_task, hnm_task_register; a full registry refuses.
AddTask ==
    /\ Count < TaskMax
    /\ state' = [i \in 0 .. Count |-> IF i = Count THEN "ready" ELSE state[i]]
    /\ yields' = [i \in 0 .. Count |-> IF i = Count THEN 0 ELSE yields[i]]
    /\ UNCHANGED <<current, yieldTotal>>

\* hnm_task_set_state by other code: a task blocks, stops or is woken.  Nobody
\* but the scheduler makes a task running.
SetState(i, s) ==
    /\ state' = [state EXCEPT ![i] = s]
    /\ UNCHANGED <<yields, current, yieldTotal>>

\* The states as hnm_scheduler_select_task finds them: the running task has
\* been made ready.
Offered == [i \in Tasks |-> IF i = current /\ state[i] = "running" THEN "ready" ELSE state[i]]

\* hnm_scheduler_select_task: the first ready task behind the current one,
\* which comes last itself.
Selects(i) ==
    \E offset \in 1 .. Count :
        /\ i = (current + offset) % Count /\ Offered[i] = "ready"
        /\ \A k \in 1 .. offset - 1 : Offered[(current + k) % Count] # "ready"

GaveWay(i) == [Offered EXCEPT ![i] = "running"]

Counted(i) == [yields EXCEPT ![i] = Inc(@)]

\* hnm_scheduler_yield.  With no ready task the current one runs on, in
\* whatever state it was.
Yield ==
    \/ \E i \in Tasks :
        /\ Selects(i)
        /\ state' = GaveWay(i)
        /\ yields' = Counted(i)
        /\ current' = i
        /\ yieldTotal' = Inc(yieldTotal)
    \/ /\ ~\E i \in Tasks : Selects(i)
       /\ state' = [Offered EXCEPT ![current] = "running"]
       /\ UNCHANGED <<yields, current, yieldTotal>>

Next ==
    \/ AddTask
    \/ \E i \in Tasks, s \in States \ {"running"} : SetState(i, s)
    \/ Yield

Spec == Init /\ [][Next]_vars

-----------------------------------------------------------------------------
TypeOK ==
    /\ Count \in 2 .. TaskMax /\ Tasks = 0 .. Count - 1
    /\ state \in [Tasks -> States]
    /\ yields \in [Tasks -> 0 .. CounterModulus - 1]
    /\ current \in Tasks
    /\ yieldTotal \in 0 .. CounterModulus - 1

\* One task at most is shown as running, and it is the one that the scheduler
\* takes for current, whatever other code does to it between two yields.
OneRunning == \A i \in Tasks : state[i] = "running" => i = current

\* A yield leaves exactly one task running, whatever had become of the current
\* one before it.
OneRunsAfterYield ==
    Yield => \A i \in Tasks' : state'[i] = "running" <=> i = current'
=============================================================================
