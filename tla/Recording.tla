----------------------------- MODULE Recording -----------------------------
(***************************************************************************)
(* What FlightSoftware::step does with every state estimate: it pushes it  *)
(* into the lock-free queue, ignores whether the queue took it, and adds   *)
(* it to StateHistory (common/StateHistory.hpp).  Only the control thread  *)
(* uses the history, so addState is part of the step that ends the push.   *)
(* The program only pushes; the consumer is that of the class's contract,  *)
(* a second thread that may call pop or not (performance_test.cpp).        *)
(***************************************************************************)
EXTENDS SPSCQueue

CONSTANT MaxSize  \* max_size_

ASSUME RecordingAssumption == MaxSize \in Nat \ {0}

VARIABLES
    rows,    \* data_, one state a row
    next,    \* head_ of the history
    size,    \* current_size_
    recent   \* history: the last MaxSize estimates, oldest first

historyVars == <<rows, next, size, recent>>
recordVars == <<vars, historyVars>>

RecordInit ==
    /\ Init
    /\ rows = [i \in 0..(MaxSize - 1) |-> None]
    /\ next = 0
    /\ size = 0
    /\ recent = <<>>

\* Mutant: the size goes on counting with the row to write.
AddStateWraps(v) ==
    /\ rows' = [rows EXCEPT ![next] = v]
    /\ next' = (next + 1) % MaxSize
    /\ size' = next'

AddState(v) ==
    /\ rows' = [rows EXCEPT ![next] = v]
    /\ next' = (next + 1) % MaxSize
    /\ size' = IF size < MaxSize THEN size + 1 ELSE size

\* push returns, with true or false.
PushEnds == producer.pc \in {"check", "publish"} /\ producer'.pc = "idle"

RecordPush ==
    /\ Push
    /\ \/ /\ PushEnds
          /\ AddState(producer.item)
          /\ recent' = IF Len(recent) < MaxSize THEN Append(recent, producer.item)
                       ELSE Append(Tail(recent), producer.item)
       \/ ~PushEnds /\ UNCHANGED historyVars

RecordOther == (Pop \/ RefreshHead \/ RefreshTail) /\ UNCHANGED historyVars

RecordSpec == RecordInit /\ [][RecordPush \/ RecordOther]_recordVars /\ Fairness

\* getComponentHistory: the rows in use, in the order of the matrix.
ComponentHistory == [i \in 1..size |-> rows[i - 1]]

(***************************************************************************)
(* Properties                                                              *)
(***************************************************************************)
\* The history holds the newest estimates, all of them up to its size and each
\* once, also those that the queue refused: the rows in use, read from the one
\* that is written next when all are in use, are the estimates in order.
HistoryIsRecent ==
    LET oldest == IF size < MaxSize THEN 0 ELSE next
    IN  /\ Len(recent) = size
        /\ \A k \in 1..size : recent[k] = ComponentHistory[((oldest + k - 1) % MaxSize) + 1]

\* Nothing in the program takes estimates out of telemetry_queue_.  However
\* many were taken before, from the last pop on a step that goes on recording
\* fills the ring to Capacity - 1 and leaves it so: every later push is refused,
\* and none overwrites an estimate that waits.
FullWithoutConsumer ==
    <>[](consumer.pc = "idle") /\ []<>(producer.pc = "check")
        => <>[](Distance(head, tail) = Capacity - 1)
=============================================================================
