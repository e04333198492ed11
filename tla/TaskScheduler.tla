---------------------------- MODULE TaskScheduler ----------------------------
(***************************************************************************)
(* The cyclic executive (fsw/core/TaskScheduler).  One thread is inside    *)
(* run or step; other threads call registerTask, clearTasks, reset (which  *)
(* need mutex_) and stop (which does not).  A cycle holds mutex_ from its  *)
(* first task to its end, so mutex_ is taken exactly when pc = "tasks".    *)
(*                                                                         *)
(* Time is counted in ticks; the 1e-6 of the due test absorbs rounding of  *)
(* doubles, which ticks do not have.  Jitter statistics are not modelled.  *)
(* A callback may throw a std::exception, which executeDueTasks catches; a *)
(* throw of another type, which leaves run or step, and a callback that    *)
(* calls back into the scheduler for mutex_ are outside the model.         *)
(***************************************************************************)
EXTENDS Integers, Sequences, FiniteSets

CONSTANTS
    Tasks,      \* names of the tasks
    Period,     \* [Tasks -> ticks]: period_sec
    Priority,   \* [Tasks -> Int]: priority
    Throwing,   \* tasks whose callback may throw
    BaseDt,     \* base_dt_, also the dt of manual steps
    Durations,  \* arguments of run; 0 means until it is stopped
    MaxRuns,    \* bound: calls of run
    MaxTime     \* bound: no cycle starts at this time or later

ASSUME SchedulerAssumption ==
    /\ IsFiniteSet(Tasks)
    /\ Period \in [Tasks -> Nat \ {0}]
    /\ Priority \in [Tasks -> Int]
    /\ Throwing \subseteq Tasks
    /\ BaseDt \in Nat \ {0}
    /\ Durations \subseteq Nat
    /\ MaxRuns \in Nat
    /\ MaxTime \in Nat

VARIABLES
    tasks,     \* tasks_, by name
    lastExec,  \* last_execution_time of each task
    now,       \* current_time_
    running,   \* running_
    pc,        \* "idle"; "loop", "enter" before a cycle of run; "tasks" in a cycle; "decide" after one
    idx,       \* the task of the cycle that is looked at next
    duration,  \* duration_sec of the run in progress, ManualDuration in a manual step
    runs,      \* how often run was called
    since,     \* history: ticks that passed since the task was last called, or registered
    called,    \* history: tasks called in this cycle
    restarted  \* history: run has set back a clock that registered tasks had used

vars == <<tasks, lastExec, now, running, pc, idx, duration, runs, since, called, restarted>>

ManualDuration == -1

Registered == {tasks[i] : i \in 1..Len(tasks)}

TypeOK ==
    /\ tasks \in Seq(Tasks)
    /\ lastExec \in [Tasks -> Int]
    /\ now \in Nat
    /\ running \in BOOLEAN
    /\ pc \in {"idle", "loop", "enter", "tasks", "decide"}
    /\ idx \in Nat \ {0}
    /\ duration \in Durations \cup {ManualDuration}
    /\ runs \in 0..MaxRuns
    /\ since \in [Tasks -> Nat]
    /\ called \in Seq(Tasks)
    /\ restarted \in BOOLEAN

Init ==
    /\ tasks = <<>>
    /\ lastExec = [t \in Tasks |-> -Period[t]]
    /\ now = 0
    /\ running = FALSE
    /\ pc = "idle"
    /\ idx = 1
    /\ duration = ManualDuration
    /\ runs = 0
    /\ since = [t \in Tasks |-> 0]
    /\ called = <<>>
    /\ restarted = FALSE

(***************************************************************************)
(* Other threads.                                                          *)
(***************************************************************************)
\* Mutant: the list is sorted by ascending priority.
ByPriorityAscending(S) ==
    {q \in [1..Cardinality(S) -> S] :
        \A i, j \in 1..Cardinality(S) : i < j => q[i] # q[j] /\ Priority[q[i]] <= Priority[q[j]]}

\* std::sort by descending priority; it may reorder tasks of equal priority.
ByPriority(S) ==
    {q \in [1..Cardinality(S) -> S] :
        \A i, j \in 1..Cardinality(S) : i < j => q[i] # q[j] /\ Priority[q[i]] >= Priority[q[j]]}

MutexFree == pc # "tasks"

RegisterTask(t) ==
    /\ MutexFree
    /\ t \notin Registered
    /\ tasks' \in ByPriority(Registered \cup {t})
    /\ lastExec' = [lastExec EXCEPT ![t] = -Period[t]]
    /\ since' = [since EXCEPT ![t] = 0]
    /\ UNCHANGED <<now, running, pc, idx, duration, runs, called, restarted>>

ClearTasks ==
    /\ MutexFree
    /\ tasks' = <<>>
    /\ UNCHANGED <<lastExec, now, running, pc, idx, duration, runs, since, called, restarted>>

Reset ==
    /\ MutexFree
    /\ tasks' = <<>>
    /\ now' = 0
    /\ running' = FALSE
    /\ UNCHANGED <<lastExec, pc, idx, duration, runs, since, called, restarted>>

Stop ==
    /\ running' = FALSE
    /\ UNCHANGED <<tasks, lastExec, now, pc, idx, duration, runs, since, called, restarted>>

(***************************************************************************)
(* The executing thread.                                                   *)
(***************************************************************************)
\* run restarts the clock and leaves the tasks' execution times alone.
Run(d) ==
    /\ pc = "idle"
    /\ runs < MaxRuns
    /\ running' = TRUE
    /\ now' = 0
    /\ duration' = d
    /\ runs' = runs + 1
    /\ pc' = "loop"
    /\ restarted' = (restarted \/ (now > 0 /\ tasks # <<>>))
    /\ UNCHANGED <<tasks, lastExec, idx, since, called>>

\* while (running_), read without mutex_
Loop ==
    /\ pc = "loop"
    /\ running => now < MaxTime
    /\ pc' = IF running THEN "enter" ELSE "idle"
    /\ UNCHANGED <<tasks, lastExec, now, running, idx, duration, runs, since, called, restarted>>

\* step, called by run, gets mutex_: another thread may have cleared or reset the
\* scheduler since running_ was read.
Enter ==
    /\ pc = "enter"
    /\ pc' = "tasks"
    /\ idx' = 1
    /\ called' = <<>>
    /\ UNCHANGED <<tasks, lastExec, now, running, duration, runs, since, restarted>>

ManualStep ==
    /\ pc = "idle"
    /\ now < MaxTime
    /\ duration' = ManualDuration
    /\ pc' = "tasks"
    /\ idx' = 1
    /\ called' = <<>>
    /\ UNCHANGED <<tasks, lastExec, now, running, runs, since, restarted>>

\* Mutant: a task is due once more than its period has passed.
DueLate(t) == now - lastExec[t] > Period[t]

\* Mutant: a task is due when its period ends within the coming cycle.
DueAhead(t) == now + BaseDt - lastExec[t] > Period[t]

Due(t) == now - lastExec[t] >= Period[t]

\* One iteration of executeDueTasks.  A callback that throws has been called,
\* but the task keeps its old execution time.
ExecuteTask ==
    /\ pc = "tasks"
    /\ idx <= Len(tasks)
    /\ LET t == tasks[idx] IN
          \/ /\ Due(t)
             /\ \/ lastExec' = [lastExec EXCEPT ![t] = now]
                \/ t \in Throwing /\ UNCHANGED lastExec
             /\ since' = [since EXCEPT ![t] = 0]
             /\ called' = Append(called, t)
          \/ /\ ~Due(t)
             /\ UNCHANGED <<lastExec, since, called>>
    /\ idx' = idx + 1
    /\ UNCHANGED <<tasks, now, running, pc, duration, runs, restarted>>

\* The end of step: the clock advances and mutex_ is released.
EndStep ==
    /\ pc = "tasks"
    /\ idx > Len(tasks)
    /\ now' = now + BaseDt
    /\ since' = [t \in Tasks |-> IF t \in Registered THEN since[t] + BaseDt ELSE since[t]]
    /\ pc' = IF duration = ManualDuration THEN "idle" ELSE "decide"
    /\ UNCHANGED <<tasks, lastExec, running, idx, duration, runs, called, restarted>>

\* run leaves running_ set when it ends because of its duration.
Decide ==
    /\ pc = "decide"
    /\ pc' = IF duration > 0 /\ now >= duration THEN "idle" ELSE "loop"
    /\ UNCHANGED <<tasks, lastExec, now, running, idx, duration, runs, since, called, restarted>>

Next ==
    \/ \E t \in Tasks : RegisterTask(t)
    \/ ClearTasks
    \/ Reset
    \/ Stop
    \/ \E d \in Durations : Run(d)
    \/ Loop
    \/ Enter
    \/ ManualStep
    \/ ExecuteTask
    \/ EndStep
    \/ Decide

Spec == Init /\ [][Next]_vars

(***************************************************************************)
(* Properties                                                              *)
(***************************************************************************)

\* No registered task waits longer than its period rounded up to the cycle:
\* at the start of a cycle less than Period + BaseDt ticks have passed since
\* its callback was last called or it was registered, whatever throws, is
\* registered late or cleared in between, in manual steps and in run, until
\* run sets back a clock that is already in use: it leaves the tasks' execution
\* times as they are, so after a first run of T ticks a task waits T ticks more.
TaskOnTime ==
    ~restarted =>
        \A t \in Registered : pc # "tasks" => since[t] < Period[t] + BaseDt

\* "Priority-based execution": in one cycle no task is called after one of
\* lower priority and none is called twice, also when other threads register
\* and clear tasks while the scheduler runs.
CycleByPriority ==
    \A i, j \in 1..Len(called) :
        i < j => called[i] # called[j] /\ Priority[called[i]] >= Priority[called[j]]

\* A task is not called again before its period is over, unless its last call
\* threw or it was registered anew; restarting the clock does not break this.
NoEarlyCall ==
    [][\A t \in Tasks \ Throwing :
          Len(called') = Len(called) + 1 /\ called'[Len(called')] = t /\ lastExec[t] >= 0
              => since[t] >= Period[t]]_vars
==============================================================================
