------------------------- MODULE TaskSchedulerProofs -------------------------
(***************************************************************************)
(* Proofs about the cyclic executive (TaskScheduler).                      *)
(***************************************************************************)
EXTENDS TaskScheduler, FiniteSetTheorems, TLAPS

\* The list is sorted by descending priority and holds no task twice.
Sorted(q) ==
    \A i, j \in 1..Len(q) : i < j => q[i] # q[j] /\ Priority[q[i]] >= Priority[q[j]]

\* During a cycle only tasks before the one looked at next have been called.
CalledBefore ==
    pc = "tasks" => \A i \in 1..Len(called) : \E p \in 1..Len(tasks) : p < idx /\ called[i] = tasks[p]

\* A registered task either has no execution time yet, or its clock shows at
\* least the time that passed since its last call, as long as no run has set
\* the clock back.
NotBehind ==
    ~restarted => \A t \in Registered :
        \/ lastExec[t] = -Period[t]
        \/ lastExec[t] \in 0..now /\ since[t] <= now - lastExec[t]

\* A task that never throws is called when its execution time is set, so its
\* clock never shows more than the time that passed.
NotAhead ==
    \A t \in Registered \ Throwing : lastExec[t] >= 0 => since[t] >= now - lastExec[t]

\* Before its turn in a cycle, and outside of one, a task waits less than its
\* period and a cycle; after its turn less than its period.
WaitsLess ==
    ~restarted => \A i \in 1..Len(tasks) :
        since[tasks[i]] < Period[tasks[i]] + (IF pc = "tasks" /\ i < idx THEN 0 ELSE BaseDt)

SchedulerInv ==
    /\ TypeOK
    /\ Sorted(tasks)
    /\ Sorted(called)
    /\ CalledBefore
    /\ NotBehind
    /\ NotAhead
    /\ WaitsLess

-----------------------------------------------------------------------------
(***************************************************************************)
(* Lemmas.                                                                 *)
(***************************************************************************)

\* The registered tasks are the entries of the list.
LEMMA RegisteredMembers ==
    ASSUME TypeOK
    PROVE  /\ Registered \subseteq Tasks
           /\ \A i \in 1..Len(tasks) : tasks[i] \in Registered
           /\ \A t \in Registered : \E i \in 1..Len(tasks) : tasks[i] = t
           /\ Len(tasks) \in Nat
BY DEF TypeOK, Registered

\* What std::sort makes of the registered tasks and the new one.
LEMMA SortedList ==
    ASSUME NEW S \in SUBSET Tasks, NEW q \in ByPriority(S)
    PROVE  /\ q \in Seq(Tasks)
           /\ \A i \in 1..Len(q) : q[i] \in S
           /\ Sorted(q)
<1>1. IsFiniteSet(S)
  BY FS_Subset, SchedulerAssumption
<1>2. Cardinality(S) \in Nat
  BY <1>1, FS_CardinalityType
<1>3. /\ q \in [1..Cardinality(S) -> S]
      /\ \A i, j \in 1..Cardinality(S) : i < j => q[i] # q[j] /\ Priority[q[i]] >= Priority[q[j]]
  BY DEF ByPriority
<1>4. q \in Seq(Tasks) /\ Len(q) = Cardinality(S)
  BY <1>2, <1>3
<1> QED BY <1>3, <1>4 DEF Sorted

\* Appending a task that comes after all the others keeps the order.
LEMMA AppendSorted ==
    ASSUME NEW q \in Seq(Tasks), Sorted(q), NEW t \in Tasks,
           \A i \in 1..Len(q) : q[i] # t /\ Priority[q[i]] >= Priority[t]
    PROVE  Sorted(Append(q, t))
<1> DEFINE r == Append(q, t)
<1>1. /\ Len(r) = Len(q) + 1 /\ Len(q) \in Nat
      /\ \A i \in 1..Len(q) : r[i] = q[i]
      /\ r[Len(q) + 1] = t
  OBVIOUS
<1> HIDE DEF r
<1>2. ASSUME NEW i \in 1..Len(r), NEW j \in 1..Len(r), i < j
      PROVE  r[i] # r[j] /\ Priority[r[i]] >= Priority[r[j]]
  <2>1. i \in 1..Len(q) /\ r[i] = q[i]
    BY <1>1, <1>2
  <2>2. CASE j \in 1..Len(q)
    <3>1. r[j] = q[j]
      BY <1>1, <2>2
    <3> QED BY <1>2, <2>1, <2>2, <3>1 DEF Sorted
  <2>3. CASE j \notin 1..Len(q)
    <3>1. j = Len(q) + 1
      BY <1>1, <2>3
    <3> QED BY <1>1, <2>1, <3>1
  <2> QED BY <2>2, <2>3
<1>3. Sorted(r)
  BY <1>2 DEF Sorted
<1> QED BY <1>3 DEF r

\* An empty list is sorted.
LEMMA EmptySorted == Sorted(<<>>)
BY DEF Sorted

-----------------------------------------------------------------------------
(***************************************************************************)
(* One lemma per group of steps.                                           *)
(***************************************************************************)

\* registerTask sorts the new task in and starts its wait.
LEMMA RegisterInv ==
    ASSUME SchedulerInv, NEW t \in Tasks, RegisterTask(t)
    PROVE  SchedulerInv'
<1>0. /\ pc # "tasks"
      /\ tasks' \in ByPriority(Registered \cup {t})
      /\ lastExec' = [lastExec EXCEPT ![t] = -Period[t]]
      /\ since' = [since EXCEPT ![t] = 0]
      /\ UNCHANGED <<now, running, pc, idx, duration, runs, called, restarted>>
  BY DEF RegisterTask, MutexFree
<1>1. TypeOK /\ Registered \subseteq Tasks
  BY RegisteredMembers DEF SchedulerInv
<1>2. Period[t] \in Nat \ {0} /\ BaseDt \in Nat \ {0} /\ -Period[t] \in Int
  BY SchedulerAssumption
<1>3. /\ tasks' \in Seq(Tasks)
      /\ \A i \in 1..Len(tasks') : tasks'[i] \in Registered \cup {t}
      /\ Sorted(tasks')
  BY <1>0, <1>1, SortedList
<1>4. TypeOK'
  BY <1>0, <1>1, <1>2, <1>3 DEF TypeOK
<1>5. Registered' \subseteq Registered \cup {t}
  BY <1>3 DEF Registered
<1>6. \A u \in Registered' :
        \/ u = t /\ lastExec'[u] = -Period[u] /\ since'[u] = 0
        \/ u # t /\ u \in Registered /\ lastExec'[u] = lastExec[u] /\ since'[u] = since[u]
  BY <1>0, <1>1, <1>5 DEF TypeOK
<1>7. NotBehind'
  BY <1>0, <1>6 DEF SchedulerInv, NotBehind
<1>8. NotAhead'
  <2> SUFFICES ASSUME NEW u \in Registered', u \notin Throwing, lastExec'[u] >= 0
               PROVE  since'[u] >= now' - lastExec'[u]
    BY DEF NotAhead
  <2>1. CASE u = t
    BY <1>2, <1>6, <2>1
  <2>2. CASE u # t
    BY <1>0, <1>6, <2>2 DEF SchedulerInv, NotAhead
  <2> QED BY <2>1, <2>2
<1>9. WaitsLess'
  <2> SUFFICES ASSUME ~restarted, NEW i \in 1..Len(tasks')
               PROVE  since'[tasks'[i]] < Period[tasks'[i]] + BaseDt
    BY <1>0 DEF WaitsLess
  <2> DEFINE u == tasks'[i]
  <2>1. u \in Registered'
    BY DEF Registered
  <2>2. CASE u = t
    BY <1>2, <1>6, <2>1, <2>2
  <2>3. CASE u # t
    <3>1. u \in Registered /\ since'[u] = since[u]
      BY <1>6, <2>1, <2>3
    <3>2. PICK j \in 1..Len(tasks) : tasks[j] = u
      BY <3>1, <1>1, RegisteredMembers
    <3>3. since[tasks[j]] < Period[tasks[j]] + BaseDt
      BY <1>0 DEF SchedulerInv, WaitsLess
    <3> QED BY <3>1, <3>2, <3>3
  <2> QED BY <2>2, <2>3
<1> QED BY <1>0, <1>3, <1>4, <1>7, <1>8, <1>9 DEF SchedulerInv, CalledBefore

\* With no task left there is nothing to keep but the calls of the last cycle.
LEMMA EmptyInv ==
    ASSUME SchedulerInv, ClearTasks \/ Reset
    PROVE  SchedulerInv'
<1>0. /\ pc # "tasks"
      /\ tasks' = <<>>
      /\ now' \in {now, 0}
      /\ running' \in {running, FALSE}
      /\ UNCHANGED <<lastExec, pc, idx, duration, runs, since, called, restarted>>
  BY DEF ClearTasks, Reset, MutexFree
<1>1. TypeOK'
  <2>1. now' \in Nat /\ tasks' \in Seq(Tasks)
    BY <1>0 DEF SchedulerInv, TypeOK
  <2>2. running' \in BOOLEAN
    BY <1>0, Zenon DEF SchedulerInv, TypeOK
  <2> QED BY <1>0, <2>1, <2>2 DEF SchedulerInv, TypeOK
<1>2. Registered' = {}
  BY <1>0 DEF Registered
<1>3. NotBehind' /\ NotAhead'
  BY <1>2 DEF NotBehind, NotAhead
<1>4. WaitsLess'
  BY <1>0 DEF WaitsLess
<1>5. CalledBefore'
  BY <1>0 DEF CalledBefore
<1>6. Sorted(tasks') /\ Sorted(called')
  BY <1>0, EmptySorted DEF SchedulerInv
<1> QED BY <1>1, <1>3, <1>4, <1>5, <1>6 DEF SchedulerInv

\* run sets the clock back; from then on only the early side of the clocks is kept.
LEMMA RunInv ==
    ASSUME SchedulerInv, NEW d \in Durations, Run(d)
    PROVE  SchedulerInv'
<1>0. /\ pc = "idle" /\ pc' = "loop"
      /\ runs < MaxRuns /\ runs' = runs + 1
      /\ running' = TRUE /\ now' = 0 /\ duration' = d
      /\ restarted' = (restarted \/ (now > 0 /\ tasks # <<>>))
      /\ UNCHANGED <<tasks, lastExec, idx, since, called>>
  BY DEF Run
<1>1. TypeOK /\ Registered' = Registered /\ Registered \subseteq Tasks
  BY <1>0, RegisteredMembers DEF SchedulerInv, Registered
<1>2. TypeOK'
  BY <1>0, <1>1, SchedulerAssumption DEF TypeOK
<1>3. ~restarted' => ~restarted /\ (now = 0 \/ Registered = {})
  <2>1. tasks = <<>> => Registered = {}
    BY DEF Registered
  <2>2. now \in Nat
    BY <1>1 DEF TypeOK
  <2>3. ~restarted' => ~restarted /\ (~(now > 0) \/ tasks = <<>>)
    BY <1>0
  <2> QED BY <2>1, <2>2, <2>3
<1>4. NotBehind'
  BY <1>0, <1>1, <1>3 DEF SchedulerInv, NotBehind
<1>5. NotAhead'
  <2> SUFFICES ASSUME NEW t \in Registered, t \notin Throwing, lastExec[t] >= 0
               PROVE  since[t] >= 0 - lastExec[t]
    BY <1>0, <1>1 DEF NotAhead
  <2>1. since[t] \in Nat /\ lastExec[t] \in Int
    BY <1>1 DEF TypeOK
  <2> QED BY <2>1
<1>6. WaitsLess'
  BY <1>0, <1>3 DEF SchedulerInv, WaitsLess
<1> QED BY <1>0, <1>2, <1>4, <1>5, <1>6 DEF SchedulerInv, CalledBefore

\* A cycle begins with nothing called and nobody's turn over.
LEMMA BeginInv ==
    ASSUME SchedulerInv, Enter \/ ManualStep
    PROVE  SchedulerInv'
<1>0. /\ pc # "tasks" /\ pc' = "tasks"
      /\ idx' = 1 /\ called' = <<>>
      /\ duration' \in {duration, ManualDuration}
      /\ UNCHANGED <<tasks, lastExec, now, running, runs, since, restarted>>
  BY DEF Enter, ManualStep
<1>1. TypeOK'
  BY <1>0 DEF SchedulerInv, TypeOK
<1>2. Registered' = Registered
  BY <1>0 DEF Registered
<1>3. NotBehind' /\ NotAhead'
  BY <1>0, <1>2 DEF SchedulerInv, NotBehind, NotAhead
<1>4. WaitsLess'
  BY <1>0 DEF SchedulerInv, WaitsLess
<1>5. CalledBefore' /\ Sorted(called') /\ Sorted(tasks')
  BY <1>0, EmptySorted DEF SchedulerInv, CalledBefore
<1> QED BY <1>1, <1>3, <1>4, <1>5 DEF SchedulerInv

\* stop, and the check of running_ and of the duration, touch no task.
LEMMA StopDecideInv ==
    ASSUME SchedulerInv, Stop \/ Loop \/ Decide
    PROVE  SchedulerInv'
<1>0. /\ running' \in {running, FALSE}
      /\ pc' = pc \/ (pc # "tasks" /\ pc' \in {"idle", "loop", "enter"})
      /\ UNCHANGED <<tasks, lastExec, now, idx, duration, runs, since, called, restarted>>
  BY DEF Stop, Loop, Decide
<1>1. TypeOK'
  BY <1>0 DEF SchedulerInv, TypeOK
<1>2. Registered' = Registered
  BY <1>0 DEF Registered
<1>3. NotBehind' /\ NotAhead'
  BY <1>0, <1>2 DEF SchedulerInv, NotBehind, NotAhead
<1>4. WaitsLess'
  BY <1>0 DEF SchedulerInv, WaitsLess
<1>5. CalledBefore'
  BY <1>0 DEF SchedulerInv, CalledBefore
<1> QED BY <1>0, <1>1, <1>3, <1>4, <1>5 DEF SchedulerInv

\* The turn of task idx: it is called, or it is not due.
LEMMA ExecuteInv ==
    ASSUME SchedulerInv, ExecuteTask
    PROVE  /\ SchedulerInv'
           /\ \A t \in Tasks \ Throwing :
                 Len(called') = Len(called) + 1 /\ called'[Len(called')] = t /\ lastExec[t] >= 0
                     => since[t] >= Period[t]
<1> DEFINE t == tasks[idx]
<1>0. /\ pc = "tasks" /\ idx <= Len(tasks) /\ idx' = idx + 1
      /\ \/ /\ Due(t)
            /\ lastExec' = [lastExec EXCEPT ![t] = now] \/ (t \in Throwing /\ lastExec' = lastExec)
            /\ since' = [since EXCEPT ![t] = 0]
            /\ called' = Append(called, t)
         \/ ~Due(t) /\ lastExec' = lastExec /\ since' = since /\ called' = called
      /\ UNCHANGED <<tasks, now, running, pc, duration, runs, restarted>>
  BY DEF ExecuteTask
<1>1. TypeOK /\ Registered' = Registered /\ Registered \subseteq Tasks
  BY <1>0, RegisteredMembers DEF SchedulerInv, Registered
<1>2. /\ idx \in 1..Len(tasks) /\ idx \in Nat /\ Len(tasks) \in Nat
      /\ t \in Registered /\ t \in Tasks
      /\ now \in Nat /\ lastExec[t] \in Int /\ since[t] \in Nat
      /\ Period[t] \in Nat \ {0} /\ BaseDt \in Nat \ {0}
  BY <1>0, <1>1, SchedulerAssumption DEF TypeOK, Registered
<1> HIDE DEF t
<1>3. TypeOK'
  <2>1. lastExec' \in [Tasks -> Int]
    BY <1>0, <1>1, <1>2 DEF TypeOK
  <2>2. since' \in [Tasks -> Nat]
    <3>1. since' = [since EXCEPT ![t] = 0] \/ since' = since
      BY <1>0
    <3>2. since \in [Tasks -> Nat] /\ t \in Tasks
      BY <1>1, <1>2 DEF TypeOK
    <3> QED BY <3>1, <3>2
  <2>3. called' \in Seq(Tasks)
    <3>1. called' = Append(called, t) \/ called' = called
      BY <1>0
    <3>2. called \in Seq(Tasks) /\ t \in Tasks
      BY <1>1, <1>2 DEF TypeOK
    <3> QED BY <3>1, <3>2
  <2>4. idx' \in Nat \ {0}
    BY <1>0, <1>2
  <2> QED BY <1>0, <1>1, <2>1, <2>2, <2>3, <2>4 DEF TypeOK
<1>4. \A u \in Tasks : u # t => lastExec'[u] = lastExec[u] /\ since'[u] = since[u]
  BY <1>0, <1>1 DEF TypeOK
<1>5. CASE Due(t)
  <2>1. /\ lastExec'[t] = now \/ (t \in Throwing /\ lastExec'[t] = lastExec[t])
        /\ since'[t] = 0
        /\ called' = Append(called, t)
        /\ now - lastExec[t] >= Period[t]
    BY <1>0, <1>1, <1>2, <1>5 DEF TypeOK, Due
  <2>2. called \in Seq(Tasks) /\ Len(called) \in Nat
    BY <1>1 DEF TypeOK
  <2>3. \A i \in 1..Len(called) : called[i] # t /\ Priority[called[i]] >= Priority[t]
    <3> SUFFICES ASSUME NEW i \in 1..Len(called)
                 PROVE  called[i] # t /\ Priority[called[i]] >= Priority[t]
      OBVIOUS
    <3>1. PICK p \in 1..Len(tasks) : p < idx /\ called[i] = tasks[p]
      BY <1>0 DEF SchedulerInv, CalledBefore
    <3> QED BY <1>2, <3>1 DEF SchedulerInv, Sorted, t
  <2>4. Sorted(called')
    BY <1>2, <2>1, <2>2, <2>3, AppendSorted DEF SchedulerInv
  <2>5. CalledBefore'
    <3> SUFFICES ASSUME NEW i \in 1..Len(called')
                 PROVE  \E p \in 1..Len(tasks) : p < idx + 1 /\ called'[i] = tasks[p]
      BY <1>0 DEF CalledBefore
    <3>1. CASE i \in 1..Len(called)
      <4>1. called'[i] = called[i]
        BY <2>1, <2>2, <3>1
      <4>2. PICK p \in 1..Len(tasks) : p < idx /\ called[i] = tasks[p]
        BY <1>0, <3>1 DEF SchedulerInv, CalledBefore
      <4> QED BY <1>2, <4>1, <4>2
    <3>2. CASE i \notin 1..Len(called)
      <4>1. i = Len(called) + 1
        BY <2>1, <2>2, <3>2
      <4>2. called'[i] = tasks[idx]
        BY <2>1, <2>2, <4>1 DEF t
      <4> QED BY <1>2, <4>2
    <3> QED BY <3>1, <3>2
  <2>6. NotBehind'
    <3> SUFFICES ASSUME ~restarted, NEW u \in Registered
                 PROVE  \/ lastExec'[u] = -Period[u]
                        \/ lastExec'[u] \in 0..now /\ since'[u] <= now - lastExec'[u]
      BY <1>0, <1>1 DEF NotBehind
    <3>1. \/ lastExec[u] = -Period[u]
          \/ lastExec[u] \in 0..now /\ since[u] <= now - lastExec[u]
      BY DEF SchedulerInv, NotBehind
    <3>2. CASE u = t
      BY <1>2, <2>1, <3>1, <3>2
    <3>3. CASE u # t
      BY <1>1, <1>4, <3>1, <3>3
    <3> QED BY <3>2, <3>3
  <2>7. NotAhead'
    <3> SUFFICES ASSUME NEW u \in Registered, u \notin Throwing, lastExec'[u] >= 0
                 PROVE  since'[u] >= now - lastExec'[u]
      BY <1>0, <1>1 DEF NotAhead
    <3>1. CASE u = t
      BY <1>2, <2>1, <3>1
    <3>2. CASE u # t
      BY <1>1, <1>4, <3>2 DEF SchedulerInv, NotAhead
    <3> QED BY <3>1, <3>2
  <2>8. WaitsLess'
    <3> SUFFICES ASSUME ~restarted, NEW i \in 1..Len(tasks)
                 PROVE  since'[tasks[i]] < Period[tasks[i]] + (IF i < idx + 1 THEN 0 ELSE BaseDt)
      BY <1>0 DEF WaitsLess
    <3>1. since[tasks[i]] < Period[tasks[i]] + (IF i < idx THEN 0 ELSE BaseDt)
      BY <1>0 DEF SchedulerInv, WaitsLess
    <3>2. CASE i = idx
      <4>1. tasks[i] = t /\ i < idx + 1
        BY <1>2, <3>2 DEF t
      <4> QED BY <1>2, <2>1, <4>1
    <3>3. CASE i # idx
      <4>1. tasks[i] # t
        BY <1>2, <3>3 DEF SchedulerInv, Sorted, t
      <4>2. since'[tasks[i]] = since[tasks[i]]
        BY <1>1, <1>4, <4>1 DEF Registered
      <4>3. i < idx + 1 <=> i < idx
        BY <1>2, <3>3
      <4> QED BY <3>1, <4>2, <4>3
    <3> QED BY <3>2, <3>3
  <2>9. ASSUME NEW u \in Tasks \ Throwing, called'[Len(called')] = u, lastExec[u] >= 0
        PROVE  since[u] >= Period[u]
    <3>1. u = t
      BY <2>1, <2>2, <2>9
    <3>2. since[t] >= now - lastExec[t]
      BY <1>2, <2>9, <3>1 DEF SchedulerInv, NotAhead
    <3> QED BY <1>2, <2>1, <3>1, <3>2
  <2> QED BY <1>0, <1>3, <2>4, <2>5, <2>6, <2>7, <2>8, <2>9 DEF SchedulerInv
<1>6. CASE ~Due(t)
  <2>1. lastExec' = lastExec /\ since' = since /\ called' = called
        /\ ~(now - lastExec[t] >= Period[t])
    BY <1>0, <1>6 DEF Due
  <2>2. CalledBefore'
    <3> SUFFICES ASSUME NEW i \in 1..Len(called)
                 PROVE  \E p \in 1..Len(tasks) : p < idx + 1 /\ called[i] = tasks[p]
      BY <1>0, <2>1 DEF CalledBefore
    <3>1. PICK p \in 1..Len(tasks) : p < idx /\ called[i] = tasks[p]
      BY <1>0 DEF SchedulerInv, CalledBefore
    <3> QED BY <1>2, <3>1
  <2>3. NotBehind' /\ NotAhead'
    BY <1>0, <1>1, <2>1 DEF SchedulerInv, NotBehind, NotAhead
  <2>4. WaitsLess'
    <3> SUFFICES ASSUME ~restarted, NEW i \in 1..Len(tasks)
                 PROVE  since[tasks[i]] < Period[tasks[i]] + (IF i < idx + 1 THEN 0 ELSE BaseDt)
      BY <1>0, <2>1 DEF WaitsLess
    <3>1. since[tasks[i]] < Period[tasks[i]] + (IF i < idx THEN 0 ELSE BaseDt)
      BY <1>0 DEF SchedulerInv, WaitsLess
    <3>2. CASE i = idx
      <4>1. tasks[i] = t /\ i < idx + 1
        BY <1>2, <3>2 DEF t
      <4>2. \/ lastExec[t] = -Period[t]
            \/ lastExec[t] \in 0..now /\ since[t] <= now - lastExec[t]
        BY <1>2 DEF SchedulerInv, NotBehind
      <4>3. since[t] < Period[t]
        BY <1>2, <2>1, <4>2
      <4> QED BY <1>2, <4>1, <4>3
    <3>3. CASE i # idx
      <4>1. i < idx + 1 <=> i < idx
        BY <1>2, <3>3
      <4> QED BY <3>1, <4>1
    <3> QED BY <3>2, <3>3
  <2>5. Len(called') # Len(called) + 1
    BY <1>1, <2>1 DEF TypeOK
  <2> QED BY <1>0, <1>3, <2>1, <2>2, <2>3, <2>4, <2>5 DEF SchedulerInv
<1> QED BY <1>5, <1>6

\* The end of a cycle: everybody's turn is over, and the clock advances for all.
LEMMA EndStepInv ==
    ASSUME SchedulerInv, EndStep
    PROVE  SchedulerInv'
<1>0. /\ pc = "tasks" /\ idx > Len(tasks)
      /\ now' = now + BaseDt
      /\ since' = [t \in Tasks |-> IF t \in Registered THEN since[t] + BaseDt ELSE since[t]]
      /\ pc' \in {"idle", "decide"}
      /\ UNCHANGED <<tasks, lastExec, running, idx, duration, runs, called, restarted>>
  BY DEF EndStep
<1>1. TypeOK /\ Registered' = Registered /\ Registered \subseteq Tasks
  BY <1>0, RegisteredMembers DEF SchedulerInv, Registered
<1>2. BaseDt \in Nat \ {0} /\ now \in Nat /\ idx \in Nat /\ Len(tasks) \in Nat
  BY <1>1, SchedulerAssumption DEF TypeOK
<1>3. \A t \in Registered : /\ since'[t] = since[t] + BaseDt
                            /\ since[t] \in Nat /\ lastExec[t] \in Int /\ Period[t] \in Nat
  BY <1>0, <1>1, SchedulerAssumption DEF TypeOK
<1>4. TypeOK'
  <2>1. since' \in [Tasks -> Nat]
    BY <1>0, <1>1, <1>2 DEF TypeOK
  <2>2. now' \in Nat
    BY <1>0, <1>2
  <2> QED BY <1>0, <1>1, <2>1, <2>2 DEF TypeOK
<1>5. NotBehind'
  <2> SUFFICES ASSUME ~restarted, NEW t \in Registered
               PROVE  \/ lastExec[t] = -Period[t]
                      \/ lastExec[t] \in 0..now' /\ since'[t] <= now' - lastExec[t]
    BY <1>0, <1>1 DEF NotBehind
  <2>1. \/ lastExec[t] = -Period[t]
        \/ lastExec[t] \in 0..now /\ since[t] <= now - lastExec[t]
    BY DEF SchedulerInv, NotBehind
  <2>2. now' = now + BaseDt /\ since'[t] = since[t] + BaseDt
    BY <1>0, <1>3
  <2>3. since[t] \in Nat /\ lastExec[t] \in Int
    BY <1>3
  <2> QED BY <1>2, <2>1, <2>2, <2>3
<1>6. NotAhead'
  <2> SUFFICES ASSUME NEW t \in Registered, t \notin Throwing, lastExec[t] >= 0
               PROVE  since'[t] >= now' - lastExec[t]
    BY <1>0, <1>1 DEF NotAhead
  <2>1. since[t] >= now - lastExec[t]
    BY DEF SchedulerInv, NotAhead
  <2>2. now' = now + BaseDt /\ since'[t] = since[t] + BaseDt
    BY <1>0, <1>3
  <2>3. since[t] \in Nat /\ lastExec[t] \in Int
    BY <1>3
  <2> QED BY <1>2, <2>1, <2>2, <2>3
<1>7. WaitsLess'
  <2> SUFFICES ASSUME ~restarted, NEW i \in 1..Len(tasks)
               PROVE  since'[tasks[i]] < Period[tasks[i]] + BaseDt
    BY <1>0 DEF WaitsLess
  <2>1. since[tasks[i]] < Period[tasks[i]] + 0
    BY <1>0, <1>2 DEF SchedulerInv, WaitsLess
  <2>2. tasks[i] \in Registered
    BY DEF Registered
  <2> QED BY <1>2, <1>3, <2>1, <2>2
<1>8. CalledBefore'
  BY <1>0 DEF CalledBefore
<1> QED BY <1>0, <1>4, <1>5, <1>6, <1>7, <1>8 DEF SchedulerInv

-----------------------------------------------------------------------------
(***************************************************************************)
(* The theorems.                                                           *)
(***************************************************************************)

\* The constructor establishes the invariant.
LEMMA SchedulerInitInv == Init => SchedulerInv
<1> SUFFICES ASSUME Init PROVE SchedulerInv
  OBVIOUS
<1>1. TypeOK
  <2>1. \A t \in Tasks : -Period[t] \in Int
    BY SchedulerAssumption
  <2>2. lastExec \in [Tasks -> Int] /\ since \in [Tasks -> Nat]
    BY <2>1 DEF Init
  <2>3. tasks \in Seq(Tasks) /\ called \in Seq(Tasks)
    BY DEF Init
  <2>4. now \in Nat /\ idx \in Nat \ {0} /\ runs \in 0..MaxRuns
    BY SchedulerAssumption DEF Init
  <2> QED BY <2>2, <2>3, <2>4 DEF Init, TypeOK
<1>2. Registered = {}
  BY DEF Init, Registered
<1>3. NotBehind /\ NotAhead
  BY <1>2 DEF NotBehind, NotAhead
<1>4. WaitsLess /\ CalledBefore
  BY DEF Init, WaitsLess, CalledBefore
<1>5. Sorted(tasks) /\ Sorted(called)
  BY EmptySorted DEF Init
<1> QED BY <1>1, <1>3, <1>4, <1>5 DEF SchedulerInv

\* Every call, of the executing thread or of another, preserves it.
LEMMA SchedulerStepInv == SchedulerInv /\ [Next]_vars => SchedulerInv'
<1> SUFFICES ASSUME SchedulerInv, [Next]_vars PROVE SchedulerInv'
  OBVIOUS
<1>1. ASSUME NEW t \in Tasks, RegisterTask(t) PROVE SchedulerInv'
  BY <1>1, RegisterInv
<1>2. CASE ClearTasks \/ Reset
  BY <1>2, EmptyInv
<1>3. ASSUME NEW d \in Durations, Run(d) PROVE SchedulerInv'
  BY <1>3, RunInv
<1>4. CASE Enter \/ ManualStep
  BY <1>4, BeginInv
<1>5. CASE Stop \/ Loop \/ Decide
  BY <1>5, StopDecideInv
<1>6. CASE ExecuteTask
  BY <1>6, ExecuteInv
<1>7. CASE EndStep
  BY <1>7, EndStepInv
<1>8. CASE UNCHANGED vars
  <2>1. /\ UNCHANGED <<tasks, lastExec, now, running, pc, idx, duration, runs, since, called, restarted>>
        /\ Registered' = Registered
    BY <1>8 DEF vars, Registered
  <2>2. TypeOK' /\ CalledBefore' /\ WaitsLess'
    BY <2>1 DEF SchedulerInv, TypeOK, CalledBefore, WaitsLess
  <2>3. NotBehind' /\ NotAhead'
    BY <2>1 DEF SchedulerInv, NotBehind, NotAhead
  <2> QED BY <2>1, <2>2, <2>3 DEF SchedulerInv
<1> QED BY <1>1, <1>2, <1>3, <1>4, <1>5, <1>6, <1>7, <1>8 DEF Next

\* So it holds throughout.
LEMMA SchedulerInvariant == Spec => []SchedulerInv
BY SchedulerInitInv, SchedulerStepInv, PTL DEF Spec

\* For every set of tasks, whatever periods, priorities and cycle time: in one
\* cycle tasks are called by descending priority and none twice, whoever
\* registers and clears tasks while the scheduler runs.
THEOREM PriorityRespected == Spec => []CycleByPriority
<1>1. SchedulerInv => CycleByPriority
  BY DEF SchedulerInv, Sorted, CycleByPriority
<1> QED BY <1>1, SchedulerInvariant, PTL

\* For every set of tasks: until run sets back a clock in use, no registered
\* task waits as long as its period and one cycle.
THEOREM TasksOnTime == Spec => []TaskOnTime
<1>1. SchedulerInv => TaskOnTime
  <2> SUFFICES ASSUME SchedulerInv, ~restarted, NEW t \in Registered, pc # "tasks"
               PROVE  since[t] < Period[t] + BaseDt
    BY DEF TaskOnTime
  <2>1. PICK i \in 1..Len(tasks) : tasks[i] = t
    BY RegisteredMembers DEF SchedulerInv
  <2> QED BY <2>1 DEF SchedulerInv, WaitsLess
<1> QED BY <1>1, SchedulerInvariant, PTL

\* For every set of tasks, a restart of the clock included: a task whose last
\* call did not throw is not called again before its period is over.
THEOREM CallsNotEarly == Spec => NoEarlyCall
<1>1. SchedulerInv /\ [Next]_vars
        => [\A t \in Tasks \ Throwing :
              Len(called') = Len(called) + 1 /\ called'[Len(called')] = t /\ lastExec[t] >= 0
                  => since[t] >= Period[t]]_vars
  <2> SUFFICES ASSUME SchedulerInv, Next, Len(called') = Len(called) + 1,
                      NEW t \in Tasks \ Throwing, called'[Len(called')] = t, lastExec[t] >= 0
               PROVE  since[t] >= Period[t]
    OBVIOUS
  <2>1. CASE ExecuteTask
    BY <2>1, ExecuteInv
  <2>2. CASE ~ExecuteTask
    <3>1. called' = called \/ called' = <<>>
      BY <2>2 DEF Next, RegisterTask, ClearTasks, Reset, Stop, Run, Loop, Enter, ManualStep, EndStep, Decide
    <3>2. Len(called) \in Nat
      BY DEF SchedulerInv, TypeOK
    <3> QED BY <3>1, <3>2
  <2> QED BY <2>1, <2>2
<1> QED BY <1>1, SchedulerInvariant, PTL DEF Spec, NoEarlyCall
==============================================================================
