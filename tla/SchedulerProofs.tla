--------------------------- MODULE SchedulerProofs ---------------------------
(***************************************************************************)
(* Proofs about Scheduler.  Of the size of the registry and the width of    *)
(* the counters they use no more than Limits says.                         *)
(***************************************************************************)
EXTENDS Scheduler, FiniteSetTheorems, WellFoundedInduction, TLAPS

LEMMA Limits ==
    /\ TaskMax \in Nat /\ TaskMax >= 2
    /\ CounterModulus \in Nat \ {0, 1}
  BY DEF TaskMax, CounterModulus

\* The registry holds n tasks, at the first n places.
Holds(n) ==
    /\ n \in 2 .. TaskMax
    /\ state \in [0 .. n - 1 -> States]
    /\ yields \in [0 .. n - 1 -> 0 .. CounterModulus - 1]
    /\ current \in 0 .. n - 1
    /\ yieldTotal \in 0 .. CounterModulus - 1

\* An interval from 0 has as many elements as its end says.
LEMMA IntervalSize ==
    ASSUME NEW n \in Nat
    PROVE  Cardinality(0 .. n - 1) = n
  BY FS_Interval

\* TypeOK says no more than that some number of tasks is registered.
LEMMA HoldsIsType ==
    ASSUME NEW n, Holds(n)
    PROVE  TypeOK /\ Count = n /\ Tasks = 0 .. n - 1
  <1>1. n \in Nat /\ n \in 2 .. TaskMax
    BY Limits DEF Holds
  <1>2. Tasks = 0 .. n - 1
    BY DEF Holds, Tasks
  <1>3. Count = n
    BY <1>1, <1>2, IntervalSize DEF Count
  <1>. QED
    BY <1>1, <1>2, <1>3 DEF Holds, TypeOK

LEMMA TypeIsHolds == TypeOK => Holds(Count)
  BY DEF TypeOK, Holds

\* A set of naturals that is not empty has a least element.
LEMMA Least ==
    ASSUME NEW S \in SUBSET Nat, S # {}
    PROVE  \E n \in S : \A k \in S : n <= k
  <1>. DEFINE R == {p \in Nat \X Nat : p[1] < p[2]}
  <1>1. IsWellFoundedOn(R, Nat)
    BY NatLessThanWellFounded DEF OpToRel
  <1>2. PICK n \in S : \A k \in S : <<k, n>> \notin R
    BY <1>1, WFMin
  <1>3. ASSUME NEW k \in S PROVE n <= k
    <2>1. ~(k < n)
      BY <1>2
    <2>. QED
      BY <2>1
  <1>. QED
    BY <1>3

LEMMA IncType == ASSUME NEW k \in 0 .. CounterModulus - 1
                 PROVE  Inc(k) \in 0 .. CounterModulus - 1
  BY Limits DEF Inc

LEMMA OfferedType ==
    ASSUME TypeOK
    PROVE  Offered \in [Tasks -> States]
  BY DEF TypeOK, Offered, States

IInv == TypeOK /\ OneRunning

LEMMA InitIsInv == Init => IInv
  <1>. SUFFICES ASSUME Init PROVE IInv
    OBVIOUS
  <1>1. {Idle, Ui} = 0 .. 2 - 1
    BY DEF Idle, Ui
  <1>2. Holds(2)
    BY <1>1, Limits DEF Init, Holds, States, Ui
  <1>3. OneRunning
    BY DEF Init, OneRunning, Tasks, Idle, Ui
  <1>. QED
    BY <1>2, <1>3, HoldsIsType DEF IInv

LEMMA AddTaskKeepsInv == IInv /\ AddTask => IInv'
  <1>. SUFFICES ASSUME IInv, AddTask PROVE IInv'
    OBVIOUS
  <1>. DEFINE n == Count
  <1>1. Holds(n) /\ n + 1 \in Nat /\ Count < TaskMax /\ Tasks = 0 .. n - 1
    BY TypeIsHolds, HoldsIsType, Limits DEF IInv, AddTask, Holds, TypeOK
  <1>2. n + 1 \in 2 .. TaskMax
    BY <1>1, Limits DEF Holds
  <1>3. state' = [i \in 0 .. n |-> IF i = n THEN "ready" ELSE state[i]]
    BY DEF AddTask
  <1>4. yields' = [i \in 0 .. n |-> IF i = n THEN 0 ELSE yields[i]]
    BY DEF AddTask
  <1>. HIDE DEF n
  <1>5. /\ state' \in [0 .. n -> States]
        /\ yields' \in [0 .. n -> 0 .. CounterModulus - 1]
        /\ current' \in 0 .. n
        /\ yieldTotal' \in 0 .. CounterModulus - 1
    <2>1. n \in Nat
      BY <1>1, Limits DEF Holds
    <2>2. state' \in [0 .. n -> States]
      BY <1>1, <1>3, <2>1 DEF Holds, States
    <2>3. yields' \in [0 .. n -> 0 .. CounterModulus - 1]
      BY <1>1, <1>4, <2>1, Limits DEF Holds
    <2>4. current' \in 0 .. n /\ yieldTotal' \in 0 .. CounterModulus - 1
      BY <1>1, <2>1 DEF Holds, AddTask
    <2>. QED
      BY <2>2, <2>3, <2>4
  <1>6. TypeOK'
    <2>1. n \in Nat /\ (n + 1) - 1 = n
      BY <1>1, Limits DEF Holds
    <2>2. Tasks' = 0 .. n /\ Count' = Cardinality(0 .. n)
      BY <1>3 DEF Tasks, Count
    <2>3. Count' = n + 1
      BY <2>1, <2>2, IntervalSize
    <2>4. Count' \in 2 .. TaskMax /\ Tasks' = 0 .. Count' - 1
      BY <1>2, <2>1, <2>2, <2>3
    <2>. QED
      BY <1>5, <2>2, <2>4 DEF TypeOK
  <1>7. OneRunning'
    <2>1. ASSUME NEW i \in 0 .. n, state'[i] = "running" PROVE i = current
      <3>1. i # n /\ state[i] = "running"
        BY <1>3, <2>1
      <3>2. i \in Tasks
        BY <1>1, <3>1 DEF Holds
      <3>. QED
        BY <3>1, <3>2 DEF IInv, OneRunning
    <2>. QED
      BY <1>3, <2>1 DEF OneRunning, Tasks, AddTask
  <1>. QED
    BY <1>6, <1>7 DEF IInv

LEMMA SetStateKeepsInv ==
    ASSUME IInv, NEW i \in Tasks, NEW s \in States \ {"running"}, SetState(i, s)
    PROVE  IInv'
  <1>1. Tasks' = Tasks /\ Count' = Count
    BY DEF IInv, TypeOK, SetState, Tasks, Count
  <1>2. TypeOK'
    BY <1>1 DEF IInv, TypeOK, SetState
  <1>3. OneRunning'
    BY <1>1 DEF IInv, TypeOK, OneRunning, SetState
  <1>. QED
    BY <1>2, <1>3 DEF IInv

\* The task that is selected was ready when the search began.
LEMMA SelectedIsTask ==
    ASSUME TypeOK, NEW i, Selects(i)
    PROVE  i \in Tasks /\ Offered[i] = "ready"
  <1>. PICK n \in Nat : n = Count
    BY Limits DEF TypeOK
  <1>. PICK offset \in 1 .. n : i = (current + offset) % n /\ Offered[i] = "ready"
    BY DEF Selects
  <1>1. Tasks = 0 .. n - 1 /\ n > 1 /\ current \in 0 .. n - 1
    BY DEF TypeOK
  <1>. QED
    BY <1>1

\* Whoever is made running, Offered leaves nobody else running.
LEMMA NobodyOfferedRuns ==
    ASSUME IInv, NEW j \in Tasks
    PROVE  Offered[j] # "running"
  BY DEF IInv, OneRunning, Offered

LEMMA YieldKeepsInv == IInv /\ Yield => IInv'
  <1>. SUFFICES ASSUME IInv, Yield PROVE IInv'
    OBVIOUS
  <1>1. PICK i \in Tasks :
          /\ state' = [Offered EXCEPT ![i] = "running"]
          /\ current' = i
          /\ yields' \in [Tasks -> 0 .. CounterModulus - 1]
          /\ yieldTotal' \in 0 .. CounterModulus - 1
    <2>1. CASE \E i \in Tasks : Selects(i)
      <3>1. PICK i \in Tasks : state' = GaveWay(i) /\ yields' = Counted(i)
                               /\ current' = i /\ yieldTotal' = Inc(yieldTotal)
        BY <2>1 DEF Yield
      <3>2. yields' \in [Tasks -> 0 .. CounterModulus - 1]
        BY <3>1, IncType DEF IInv, TypeOK, Counted
      <3>3. yieldTotal' \in 0 .. CounterModulus - 1
        BY <3>1, IncType DEF IInv, TypeOK
      <3>. QED
        BY <3>1, <3>2, <3>3 DEF GaveWay
    <2>2. CASE ~\E i \in Tasks : Selects(i)
      BY <2>2 DEF Yield, IInv, TypeOK
    <2>. QED
      BY <2>1, <2>2
  <1>2. state' \in [Tasks -> States] /\ Tasks' = Tasks /\ Count' = Count
    BY <1>1, OfferedType DEF IInv, States, Tasks, Count
  <1>3. TypeOK'
    BY <1>1, <1>2 DEF IInv, TypeOK
  <1>4. OneRunning'
    BY <1>1, <1>2, OfferedType, NobodyOfferedRuns DEF IInv, OneRunning
  <1>. QED
    BY <1>3, <1>4 DEF IInv

LEMMA NextKeepsInv == IInv /\ [Next]_vars => IInv'
  <1>. SUFFICES ASSUME IInv, [Next]_vars PROVE IInv'
    OBVIOUS
  <1>1. CASE AddTask
    BY <1>1, AddTaskKeepsInv
  <1>2. CASE \E i \in Tasks, s \in States \ {"running"} : SetState(i, s)
    BY <1>2, SetStateKeepsInv
  <1>3. CASE Yield
    BY <1>3, YieldKeepsInv
  <1>4. CASE UNCHANGED vars
    BY <1>4 DEF IInv, TypeOK, OneRunning, Count, Tasks, vars
  <1>. QED
    BY <1>1, <1>2, <1>3, <1>4 DEF Next

\* The registry and the scheduler's counters keep their types: the current
\* index is always that of a registered task, however many are added.
THEOREM TypeCorrect == Spec => []TypeOK
  <1>1. IInv => TypeOK
    BY DEF IInv
  <1>. QED
    BY <1>1, InitIsInv, NextKeepsInv, PTL DEF Spec

\* One task at most is running, the current one, and after every yield exactly
\* that one is, whatever was blocked, stopped and made ready between two yields.
THEOREM OneTaskRuns == Spec => []OneRunning /\ [][OneRunsAfterYield]_vars
  <1>1. IInv => OneRunning
    BY DEF IInv
  <1>2. ASSUME IInv, [Next]_vars PROVE [OneRunsAfterYield]_vars
    <2>1. ASSUME Yield PROVE \A i \in Tasks' : state'[i] = "running" <=> i = current'
      <3>1. PICK j \in Tasks : state' = [Offered EXCEPT ![j] = "running"] /\ current' = j
        BY <2>1, <1>2 DEF Yield, GaveWay, IInv, TypeOK
      <3>2. Tasks' = Tasks
        BY <1>2, <3>1, OfferedType DEF IInv, Tasks
      <3>. QED
        BY <1>2, <3>1, <3>2, OfferedType, NobodyOfferedRuns DEF IInv
    <2>. QED
      BY <2>1 DEF OneRunsAfterYield
  <1>. QED
    BY <1>1, <1>2, InitIsInv, NextKeepsInv, PTL DEF Spec

\* The search of hnm_scheduler_select_task goes through the whole registry:
\* it fails only if no task is ready, the current one included.
THEOREM SearchMissesNoTask ==
    ASSUME TypeOK, NEW i \in Tasks, Offered[i] = "ready"
    PROVE  \E j \in Tasks : Selects(j)
  <1>. PICK n \in Nat : n = Count
    BY Limits DEF TypeOK
  <1>1. Tasks = 0 .. n - 1 /\ n > 1 /\ current \in 0 .. n - 1
    BY DEF TypeOK
  <1>. DEFINE Ready == {offset \in 1 .. n : Offered[(current + offset) % n] = "ready"}
  <1>2. Ready # {}
    <2>. DEFINE offset == IF i > current THEN i - current ELSE i - current + n
    <2>1. offset \in 1 .. n /\ (current + offset) % n = i
      BY <1>1
    <2>. QED
      BY <2>1
  <1>3. PICK offset \in Ready : \A k \in Ready : offset <= k
    <2>1. Ready \in SUBSET Nat
      OBVIOUS
    <2>. QED
      BY <1>2, <2>1, Least
  <1>. DEFINE j == (current + offset) % n
  <1>4. j \in Tasks /\ Offered[j] = "ready"
    BY <1>1, <1>3
  <1>5. \A k \in 1 .. offset - 1 : Offered[(current + k) % n] # "ready"
    BY <1>3
  <1>. QED
    BY <1>3, <1>4, <1>5 DEF Selects
-----------------------------------------------------------------------------
(* How long a ready task waits. Its distance is what the search goes from   *)
(* the current task to it; a task that is added may lengthen it by one, and *)
(* the registry takes no more than TaskMax of them.                        *)
Distance(i) == IF i > current THEN i - current ELSE i - current + Count

Rank(i) == Distance(i) + (TaskMax - Count)

LEMMA DistanceIsOffset ==
    ASSUME TypeOK, NEW i \in Tasks, NEW n, n = Count
    PROVE  Distance(i) \in 1 .. n /\ (current + Distance(i)) % n = i
  <1>1. n \in Nat /\ n > 1 /\ Tasks = 0 .. n - 1 /\ current \in 0 .. n - 1
    BY Limits DEF TypeOK
  <1>. QED
    BY <1>1 DEF Distance

\* A yield that runs task j instead of i puts i closer behind the current.
LEMMA YieldComesCloser ==
    ASSUME TypeOK, Yield, NEW i \in Tasks, state[i] = "ready", state'[i] = "ready"
    PROVE  /\ Count' = Count
           /\ Distance(i)' \in Int /\ Distance(i) \in Int
           /\ Distance(i)' < Distance(i)
  <1>. PICK n \in Nat : n = Count
    BY Limits DEF TypeOK
  <1>1. Tasks = 0 .. n - 1 /\ n > 1 /\ current \in 0 .. n - 1
    BY DEF TypeOK
  <1>2. Offered[i] = "ready"
    BY DEF Offered
  <1>3. PICK j \in Tasks : Selects(j) /\ state' = GaveWay(j) /\ current' = j
    BY <1>2, SearchMissesNoTask DEF Yield
  <1>4. PICK offset \in 1 .. n :
          /\ j = (current + offset) % n
          /\ \A k \in 1 .. offset - 1 : Offered[(current + k) % n] # "ready"
    BY <1>3 DEF Selects
  <1>5. Tasks' = Tasks /\ Count' = n /\ state'[j] = "running"
    BY <1>3, OfferedType DEF GaveWay, Tasks, Count
  <1>6. i # j
    BY <1>5
  <1>7. Distance(i) \in 1 .. n /\ (current + Distance(i)) % n = i
    BY DistanceIsOffset
  <1>8. offset < Distance(i)
    <2>1. Distance(i) \notin 1 .. offset - 1
      BY <1>2, <1>4, <1>7
    <2>2. Distance(i) # offset
      BY <1>4, <1>6, <1>7
    <2>. QED
      BY <1>7, <2>1, <2>2
  <1>9. Distance(i)' = IF i > j THEN i - j ELSE i - j + n
    BY <1>3, <1>5 DEF Distance
  <1>10. Distance(i) = IF i > current THEN i - current ELSE i - current + n
    BY DEF Distance
  <1>11. j = IF current + offset < n THEN current + offset ELSE current + offset - n
    BY <1>1, <1>4
  <1>12. i \in 0 .. n - 1 /\ j \in 0 .. n - 1
    BY <1>1
  <1>13. Distance(i)' < Distance(i) /\ Distance(i)' \in Int /\ Distance(i) \in Int
    BY ONLY <1>1, <1>4, <1>6, <1>8, <1>9, <1>10, <1>11, <1>12
  <1>. QED
    BY <1>5, <1>13

LEMMA AddTaskKeepsRank ==
    ASSUME TypeOK, AddTask, NEW i \in Tasks
    PROVE  Rank(i)' <= Rank(i)
  <1>. PICK n \in Nat : n = Count
    BY Limits DEF TypeOK
  <1>1. Tasks = 0 .. n - 1 /\ current \in 0 .. n - 1 /\ current' = current
    BY DEF TypeOK, AddTask
  <1>2. Tasks' = 0 .. (n + 1) - 1
    BY DEF AddTask, Tasks
  <1>3. Count' = n + 1
    BY <1>2, IntervalSize DEF Count
  <1>4. /\ Distance(i)' = IF i > current THEN i - current ELSE i - current + (n + 1)
        /\ Distance(i) = IF i > current THEN i - current ELSE i - current + n
    BY <1>1, <1>3 DEF Distance
  <1>5. Distance(i)' \in Int /\ Distance(i) \in Int /\ Distance(i)' <= Distance(i) + 1
    BY <1>1, <1>4
  <1>. QED
    BY <1>3, <1>5, Limits DEF Rank

\* Nobody is overtaken for long: a rank lies in 1 .. TaskMax, never grows
\* while the task stays ready, whatever is added, blocked and woken, and is
\* lowered by every hnm_scheduler_yield.
WaitIsBounded ==
    /\ \A i \in Tasks : Rank(i) \in 1 .. TaskMax
    /\ \A i \in Tasks :
         state[i] = "ready" /\ state'[i] = "ready" =>
           /\ Rank(i)' <= Rank(i)
           /\ Yield => Rank(i)' < Rank(i)

LEMMA RankIsBounded ==
    ASSUME TypeOK, NEW i \in Tasks
    PROVE  Rank(i) \in 1 .. TaskMax
  <1>. PICK n \in Nat : n = Count
    BY Limits DEF TypeOK
  <1>1. Distance(i) \in 1 .. n
    BY DistanceIsOffset
  <1>2. n <= TaskMax
    BY DEF TypeOK
  <1>. QED
    BY <1>1, <1>2, Limits DEF Rank

\* hnm_scheduler_select_task runs a task that stays ready at the latest in the
\* TaskMax-th yield.
THEOREM TurnComes == Spec => [][WaitIsBounded]_vars
  <1>1. ASSUME TypeOK, Next PROVE WaitIsBounded
    <2>1. ASSUME NEW i \in Tasks, state[i] = "ready", state'[i] = "ready", Yield
          PROVE  Rank(i)' < Rank(i) /\ Rank(i)' <= Rank(i)
      <3>1. /\ Count' = Count
            /\ Distance(i)' \in Int /\ Distance(i) \in Int
            /\ Distance(i)' < Distance(i)
        BY <1>1, <2>1, YieldComesCloser
      <3>2. Count \in Nat
        BY <1>1, Limits DEF TypeOK
      <3>. QED
        BY <3>1, <3>2, Limits DEF Rank
    <2>2. ASSUME NEW i \in Tasks, state[i] = "ready", state'[i] = "ready"
          PROVE  Rank(i)' <= Rank(i)
      <3>1. CASE AddTask
        BY <1>1, <3>1, AddTaskKeepsRank
      <3>2. CASE \E k \in Tasks, s \in States \ {"running"} : SetState(k, s)
        <4>1. Count' = Count /\ current' = current
          BY <1>1, <3>2 DEF TypeOK, SetState, Tasks, Count
        <4>2. Rank(i)' = Rank(i)
          BY <4>1 DEF Rank, Distance
        <4>. QED
          BY <1>1, <4>2, RankIsBounded
      <3>3. CASE Yield
        BY <2>1, <2>2, <3>3
      <3>. QED
        BY <1>1, <3>1, <3>2, <3>3 DEF Next
    <2>. QED
      BY <1>1, <2>1, <2>2, RankIsBounded DEF WaitIsBounded
  <1>2. TypeOK /\ [Next]_vars => [WaitIsBounded]_vars
    BY <1>1
  <1>. QED
    BY <1>2, TypeCorrect, PTL DEF Spec
=============================================================================
