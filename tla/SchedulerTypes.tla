--------------------------- MODULE SchedulerTypes ---------------------------
EXTENDS Scheduler, FiniteSetTheorems, TLAPS

\* In the states that work on one thread there is one.
Addressed == s_state \in {"destroy", "preinsert", "insert", "remove"} => s_command_tid \in Tids

Typed == MachineTyped /\ FlagsTyped /\ TablesTyped /\ ProcessesTyped /\ Addressed

LEMMA RowType == \A t \in Tids0 : Row(t) \in Tids
  BY SizeAssumption DEF Row, Tids, Tids0

LEMMA OrderType == \A p \in Priorities : p \in Nat /\ Order(p) \in 0..(OrderModulus - 1)
  BY DataAssumption DEF Order

LEMMA SearchTypes ==
  ASSUME Typed, SearchTID, SearchingLinkList, TimeManagement
  PROVE  /\ s_counter' \in 0..MaxTicks /\ s_reschedule' \in BOOLEAN
         /\ s_stid_found' \in Tids0 /\ s_stid_done' \in BOOLEAN
         /\ s_found_tid' \in Tids0 /\ s_search_done' \in BOOLEAN
<1>1. s_counter' \in 0..MaxTicks
  BY TickAssumption DEF Typed, MachineTyped, ProcessesTyped, TimeManagement
<1>2. s_reschedule' \in BOOLEAN
  BY DEF Typed, ProcessesTyped, TimeManagement
<1>3. s_stid_found' \in Tids0
  BY SizeAssumption DEF Typed, ProcessesTyped, SearchTID, SearchTIDStep, Tids, Tids0
<1>4. s_found_tid' \in Tids0
  BY RowType DEF Typed, TablesTyped, ProcessesTyped, SearchingLinkList, WalkStep
<1>5. s_stid_done' \in BOOLEAN /\ s_search_done' \in BOOLEAN
  BY DEF Typed, ProcessesTyped, SearchTID, SearchTIDStep, SearchingLinkList, WalkStep
<1>6. QED BY <1>1, <1>2, <1>3, <1>4, <1>5

LEMMA OtherTypes ==
  ASSUME Typed, OtherProcesses
  PROVE  ProcessesTyped'
  BY SearchTypes DEF OtherProcesses, SearchFreeTID, ProcessesTyped, Typed

\* The registers that mainProcess drives, tables apart.
LEMMA CommandMachine ==
  ASSUME Typed, s_size \in Tids0, Command
  PROVE  MachineTyped'
<1> USE SizeAssumption, DataAssumption
    DEF Accept, threads, queue, timeControl, stidRequest, searchRequest, machine,
        Typed, MachineTyped, States, Tids, Tids0
<1>1. ASSUME NEW obj \in Objects, NEW prio \in Priorities, Create(obj, prio)
      PROVE  MachineTyped'
  BY <1>1 DEF Create, ProcessesTyped
<1>2. ASSUME NEW tid \in Tids, Destroy(tid)
      PROVE  MachineTyped'
  BY <1>2 DEF Destroy
<1>3. ASSUME NEW tid \in Tids, NEW prio \in Priorities, Insert(tid, prio)
      PROVE  MachineTyped'
  BY <1>3, OrderType DEF Insert
<1>4. ASSUME NEW tid \in Tids, Remove(tid)
      PROVE  MachineTyped'
  BY <1>4 DEF Remove
<1>5. CASE RemoveHead
  BY <1>5 DEF RemoveHead, TablesTyped
<1>6. ASSUME NEW tid \in Tids0, UpdateRunning(tid)
      PROVE  MachineTyped'
  BY <1>6 DEF UpdateRunning
<1>7. ASSUME NEW quantum \in Quanta, SetQuantum(quantum)
      PROVE  MachineTyped'
  BY <1>7, TickAssumption DEF SetQuantum, RestartTime
<1>8. CASE ResetTicks
  BY <1>8 DEF ResetTicks, RestartTime
<1>9. CASE Enable \/ Disable
  BY <1>9 DEF Enable, Disable, SetEnabled
<1>10. CASE IntAck
  BY <1>10 DEF IntAck
<1>11. ASSUME NEW obj \in Lookups, GetId(obj)
       PROVE  MachineTyped'
  BY <1>11 DEF GetId
<1>12. CASE Chosen
  BY <1>12 DEF Chosen, Answer, TablesTyped
<1>13. CASE Size
  BY <1>13 DEF Size, Answer
<1>14. CASE Reset
  BY <1>14, TickAssumption DEF Reset, ClearAll, ClearQueue, EmptyTable
<1>15. QED
  BY <1>1, <1>2, <1>3, <1>4, <1>5, <1>6, <1>7, <1>8, <1>9, <1>10, <1>11, <1>12,
     <1>13, <1>14 DEF Command, Insertable

LEMMA ClockMachine ==
  ASSUME Typed, Clock
  PROVE  MachineTyped'
<1> USE SizeAssumption
    DEF threads, queue, timeControl, stidRequest, searchRequest, machine,
        Typed, MachineTyped, States, Tids, Tids0
<1>1. CASE Idle \/ InsertWait \/ GetIdWait
  BY <1>1 DEF Idle, InsertWait, GetIdWait
<1>2. CASE PreInsert \/ PreGetId
  BY <1>2 DEF PreInsert, PreGetId
<1>3. CASE InsertLink
  BY <1>3 DEF InsertLink
<1>4. CASE DestroyFree
  BY <1>4, DataAssumption DEF DestroyFree
<1>5. CASE RemoveUnlink
  BY <1>5 DEF RemoveUnlink, TablesTyped, Addressed
<1>6. CASE Finish
  <2>1. s_state' = "idle"
    BY <1>6 DEF Finish
  <2>2. UNCHANGED <<s_command_tid, s_return, s_running_tid, s_quantum_ticks,
                    s_stid_obj_ptr, s_search_order>>
    BY <1>6 DEF Finish
  <2>3. QED BY <2>1, <2>2
<1>7. CASE GetIdFinish
  BY <1>7 DEF GetIdFinish, ProcessesTyped
<1>8. QED
  BY <1>1, <1>2, <1>3, <1>4, <1>5, <1>6, <1>7 DEF Clock

\* The flags that mainProcess drives.
LEMMA CommandFlags ==
  ASSUME FlagsTyped, Command
  PROVE  FlagsTyped'
<1> USE DEF Accept, threads, queue, timeControl, stidRequest, searchRequest, FlagsTyped
<1>1. ASSUME NEW obj \in Objects, NEW prio \in Priorities, Create(obj, prio)
      PROVE  FlagsTyped'
  BY <1>1 DEF Create
<1>2. ASSUME NEW tid \in Tids, Destroy(tid) \/ Remove(tid)
      PROVE  FlagsTyped'
  BY <1>2 DEF Destroy, Remove
<1>3. ASSUME NEW tid \in Tids, NEW prio \in Priorities, Insert(tid, prio)
      PROVE  FlagsTyped'
  BY <1>3 DEF Insert
<1>4. CASE RemoveHead \/ IntAck \/ Chosen \/ Size
  BY <1>4 DEF RemoveHead, IntAck, Chosen, Size, Answer
<1>5. ASSUME NEW tid \in Tids0, UpdateRunning(tid)
      PROVE  FlagsTyped'
  BY <1>5 DEF UpdateRunning
<1>6. ASSUME NEW cmd, NEW quantum, RestartTime(cmd, quantum)
      PROVE  FlagsTyped'
  BY <1>6 DEF RestartTime
<1>7. CASE Enable \/ Disable
  BY <1>7 DEF Enable, Disable, SetEnabled
<1>8. ASSUME NEW obj \in Lookups, GetId(obj)
      PROVE  FlagsTyped'
  BY <1>8 DEF GetId
<1>9. CASE Reset
  BY <1>9 DEF Reset, ClearAll, ClearQueue
<1>10. QED
  BY <1>1, <1>2, <1>3, <1>4, <1>5, <1>6, <1>7, <1>8, <1>9
     DEF Command, Insertable, SetQuantum, ResetTicks

LEMMA ClockFlags ==
  ASSUME FlagsTyped, Clock
  PROVE  FlagsTyped'
<1> USE DEF threads, queue, timeControl, stidRequest, searchRequest, machine, FlagsTyped
<1>1. CASE Idle \/ InsertWait \/ GetIdWait
  BY <1>1 DEF Idle, InsertWait, GetIdWait
<1>2. CASE PreInsert \/ PreGetId
  BY <1>2 DEF PreInsert, PreGetId
<1>3. CASE InsertLink \/ DestroyFree \/ RemoveUnlink \/ GetIdFinish
  BY <1>3 DEF InsertLink, DestroyFree, RemoveUnlink, GetIdFinish
<1>4. CASE Finish
  BY <1>4 DEF Finish
<1>5. QED BY <1>1, <1>2, <1>3, <1>4 DEF Clock

\* The threads and the queue change in these actions and in no other, and of the
\* other actions none begins or ends the linking of a thread.
LEMMA TableSteps ==
  ASSUME Next
  PROVE  \/ \E obj \in Objects, prio \in Priorities : Create(obj, prio)
         \/ \E tid \in Insertable, prio \in Priorities : Insert(tid, prio)
         \/ Reset \/ PinReset
         \/ InsertLink \/ DestroyFree \/ RemoveUnlink
         \/ UNCHANGED <<threads, queue, Linking>>
<1> USE DEF Accept, Linking, threads, queue, machine
<1>1. ASSUME NEW tid \in Tids, Destroy(tid) \/ Remove(tid)
      PROVE  UNCHANGED <<threads, queue, Linking>>
  BY <1>1 DEF Destroy, Remove
<1>2. ASSUME NEW tid \in Tids0, UpdateRunning(tid)
      PROVE  UNCHANGED <<threads, queue, Linking>>
  BY <1>2 DEF UpdateRunning
<1>3. ASSUME NEW cmd, NEW quantum, RestartTime(cmd, quantum) \/ SetEnabled(cmd, quantum)
      PROVE  UNCHANGED <<threads, queue, Linking>>
  BY <1>3 DEF RestartTime, SetEnabled
<1>4. CASE RemoveHead \/ IntAck
  BY <1>4 DEF RemoveHead, IntAck
<1>5. ASSUME NEW obj \in Lookups, GetId(obj)
      PROVE  UNCHANGED <<threads, queue, Linking>>
  BY <1>5 DEF GetId
<1>6. CASE Chosen \/ Size
  BY <1>6 DEF Chosen, Size, Answer
<1>7. CASE Idle \/ PreInsert \/ InsertWait \/ Finish
  BY <1>7 DEF Idle, PreInsert, InsertWait, Finish
<1>8. CASE PreGetId \/ GetIdWait \/ GetIdFinish
  BY <1>8 DEF PreGetId, GetIdWait, GetIdFinish
<1>9. QED
  BY <1>1, <1>2, <1>3, <1>4, <1>5, <1>6, <1>7, <1>8
     DEF Next, Command, Clock, SetQuantum, ResetTicks, Enable, Disable

\* Every process but mainProcess and SearchFreeTID steps the same under p_reset.
LEMMA OthersStep ==
  ASSUME Next
  PROVE  OtherProcesses \/ PinReset
<1>1. CASE Command
  BY <1>1 DEF Command, Create, Destroy, Insert, Remove, RemoveHead, UpdateRunning,
     SetQuantum, ResetTicks, RestartTime, Enable, Disable, SetEnabled, IntAck, GetId,
     Chosen, Size, Answer, Reset
<1>2. CASE Clock
  BY <1>2 DEF Clock, Idle, PreInsert, InsertWait, InsertLink, DestroyFree,
     RemoveUnlink, Finish, PreGetId, GetIdWait, GetIdFinish
<1>3. QED BY <1>1, <1>2 DEF Next

LEMMA EmptyTableType == 0 \in Tids0 /\ EmptyTable \in [Tids -> Tids0]
                        /\ EmptyTable \in [Tids -> Objects \cup {0}]
                        /\ EmptyTable \in [Tids -> 0..(OrderModulus - 1)]
  BY SizeAssumption, DataAssumption DEF EmptyTable, Tids0

LEMMA ClearedTables ==
  ASSUME ClearAll
  PROVE  TablesTyped'
  BY EmptyTableType DEF ClearAll, ClearQueue, TablesTyped

LEMMA LinkTypes ==
  ASSUME Typed, InsertLink
  PROVE  TablesTyped'
<1>1. s_command_tid \in Tids /\ s_command_tid \in Tids0 /\ Tids \subseteq Tids0 /\ 0 \in Tids0
  BY SizeAssumption DEF InsertLink, Typed, Addressed, Tids, Tids0
<1>2. UNCHANGED <<s_tid_bitmap, s_obj_table, s_order_table, s_enqueue_bitmap>>
  BY DEF InsertLink, threads
<1>3. CASE LinkAtTail
  BY <1>1, <1>2, <1>3, RowType DEF LinkAtTail, Typed, TablesTyped
<1>4. ASSUME s_found_tid # 0, LinkBefore(s_found_tid)
      PROVE  TablesTyped'
  <2> DEFINE before == s_prev_table[s_found_tid]
  <2>1. s_found_tid \in Tids
    BY <1>4, SizeAssumption DEF Typed, ProcessesTyped, Tids, Tids0
  <2>2. before \in Tids0 /\ (before # 0 => before \in Tids)
    BY <2>1, SizeAssumption DEF Typed, TablesTyped, Tids, Tids0
  <2>3. s_next_table' \in [Tids -> Tids0]
    BY <1>1, <1>4, <2>1, <2>2 DEF LinkBefore, Typed, TablesTyped
  <2>4. s_prev_table' \in [Tids -> Tids0]
    BY <1>1, <1>4, <2>1, <2>2 DEF LinkBefore, Typed, TablesTyped
  <2>5. s_head_tid' \in Tids0 /\ s_tail_tid' \in Tids0
    BY <1>1, <1>4 DEF LinkBefore, Typed, TablesTyped
  <2>6. QED BY <1>2, <2>3, <2>4, <2>5 DEF Typed, TablesTyped
<1>5. QED BY <1>3, <1>4 DEF InsertLink

LEMMA UnlinkTypes ==
  ASSUME Typed, RemoveUnlink
  PROVE  TablesTyped'
<1> DEFINE before == s_prev_table[s_command_tid]
           after  == s_next_table[s_command_tid]
<1>1. before \in Tids0 /\ after \in Tids0 /\ 0 \in Tids0
  BY SizeAssumption DEF RemoveUnlink, Typed, Addressed, TablesTyped, Tids0
<1>2. UNCHANGED <<s_tid_bitmap, s_obj_table, s_order_table>>
  BY DEF RemoveUnlink, threads
<1>3. s_enqueue_bitmap' \subseteq Tids
  BY DEF RemoveUnlink, Typed, TablesTyped
<1>4. s_next_table' \in [Tids -> Tids0]
  BY <1>1 DEF RemoveUnlink, Typed, TablesTyped
<1>5. s_prev_table' \in [Tids -> Tids0]
  BY <1>1 DEF RemoveUnlink, Typed, TablesTyped
<1>6. s_head_tid' \in Tids0 /\ s_tail_tid' \in Tids0
  BY <1>1 DEF RemoveUnlink, Typed, TablesTyped
<1>7. QED BY <1>2, <1>3, <1>4, <1>5, <1>6 DEF Typed, TablesTyped

\* The tables and the two ends of the queue.
LEMMA TablesStep ==
  ASSUME Typed, Next
  PROVE  TablesTyped'
<1>1. ASSUME NEW obj \in Objects, NEW prio \in Priorities, Create(obj, prio)
      PROVE  TablesTyped'
  <2>1. UNCHANGED queue /\ (UNCHANGED threads \/
          (s_tid_bitmap' = s_tid_bitmap \cup {s_free_tid}
           /\ s_order_table' = [s_order_table EXCEPT ![s_free_tid] = Order(prio)]
           /\ s_obj_table' = [s_obj_table EXCEPT ![s_free_tid] = obj]))
    BY <1>1 DEF Create
  <2>2. UNCHANGED <<s_enqueue_bitmap, s_prev_table, s_next_table, s_head_tid, s_tail_tid>>
    BY <2>1 DEF queue
  <2>3. s_free_tid \in Tids /\ Order(prio) \in 0..(OrderModulus - 1) /\ obj \in Objects \cup {0}
    BY OrderType DEF Typed, ProcessesTyped
  <2>4. QED BY <2>1, <2>2, <2>3 DEF Typed, TablesTyped, threads
<1>2. ASSUME NEW tid \in Tids, NEW prio \in Priorities, Insert(tid, prio)
      PROVE  TablesTyped'
  <2>1. Order(prio) \in 0..(OrderModulus - 1) /\ tid \in Tids0
    BY OrderType DEF Tids, Tids0
  <2>2. s_order_table' \in [Tids -> 0..(OrderModulus - 1)]
    BY <1>2, <2>1 DEF Insert, Typed, TablesTyped
  <2>3. s_enqueue_bitmap' \subseteq Tids /\ s_head_tid' \in Tids0 /\ s_tail_tid' \in Tids0
    BY <1>2, <2>1 DEF Insert, Typed, TablesTyped
  <2>4. UNCHANGED <<s_tid_bitmap, s_obj_table, s_prev_table, s_next_table>>
    BY <1>2 DEF Insert
  <2>5. QED BY <2>2, <2>3, <2>4 DEF Typed, TablesTyped
<1>3. CASE Reset \/ PinReset
  BY <1>3, ClearedTables DEF Reset, PinReset
<1>4. CASE DestroyFree
  <2>1. UNCHANGED <<s_enqueue_bitmap, s_prev_table, s_next_table, s_head_tid, s_tail_tid>>
    BY <1>4 DEF DestroyFree, queue
  <2>2. s_tid_bitmap' \subseteq Tids
    BY <1>4 DEF DestroyFree, Typed, TablesTyped
  <2>3. 0 \in Objects \cup {0} /\ 0 \in 0..(OrderModulus - 1)
    BY DataAssumption
  <2>4. s_obj_table' \in [Tids -> Objects \cup {0}]
    BY <1>4, <2>3 DEF DestroyFree, Typed, TablesTyped
  <2>5. s_order_table' \in [Tids -> 0..(OrderModulus - 1)]
    BY <1>4, <2>3 DEF DestroyFree, Typed, TablesTyped
  <2>6. QED BY <2>1, <2>2, <2>4, <2>5 DEF Typed, TablesTyped
<1>5. CASE UNCHANGED <<threads, queue>>
  BY <1>5 DEF threads, queue, Typed, TablesTyped
<1>6. QED
  BY <1>1, <1>2, <1>3, <1>4, <1>5, TableSteps, LinkTypes, UnlinkTypes DEF Insertable

LEMMA AddressedStep ==
  ASSUME Typed, Next
  PROVE  Addressed'
<1> USE DEF Accept, Typed, Addressed
<1>1. ASSUME NEW obj \in Objects, NEW prio \in Priorities, Create(obj, prio)
      PROVE  Addressed'
  BY <1>1 DEF Create
<1>2. ASSUME NEW tid \in Tids, Destroy(tid) \/ Remove(tid)
      PROVE  Addressed'
  BY <1>2 DEF Destroy, Remove
<1>3. ASSUME NEW tid \in Tids, NEW prio \in Priorities, Insert(tid, prio)
      PROVE  Addressed'
  BY <1>3 DEF Insert
<1>4. CASE RemoveHead
  BY <1>4, SizeAssumption DEF RemoveHead, TablesTyped, Tids, Tids0
<1>5. CASE InsertLink \/ DestroyFree \/ RemoveUnlink
  BY <1>5 DEF InsertLink, DestroyFree, RemoveUnlink
<1>6. CASE PreInsert
  BY <1>6 DEF PreInsert
<1>7. CASE UNCHANGED machine
  BY <1>7 DEF machine
<1>8. CASE s_state' \in {"idle", "exit_ok", "exit_error", "acknowledge_int", "reset_time", "pregetid", "getid"}
  BY <1>8
<1>9. CASE Command
  BY <1>1, <1>2, <1>3, <1>4, <1>8, <1>9
     DEF Command, Insertable, UpdateRunning, SetQuantum, ResetTicks, RestartTime, Enable,
         Disable, SetEnabled, IntAck, GetId, Chosen, Size, Answer, Reset
<1>10. CASE Clock
  BY <1>5, <1>6, <1>7, <1>8, <1>10
     DEF Clock, Idle, InsertWait, Finish, PreGetId, GetIdWait, GetIdFinish
<1>11. QED BY <1>8, <1>9, <1>10 DEF Next, PinReset

LEMMA PinTyped ==
  ASSUME Typed, PinReset
  PROVE  MachineTyped' /\ FlagsTyped' /\ ProcessesTyped'
<1>1. MachineTyped'
  BY SizeAssumption, TickAssumption
     DEF PinReset, ClearAll, ClearQueue, stidRequest, searchRequest, Typed, MachineTyped, States, Tids0
<1>2. /\ UNCHANGED <<s_time_reset, s_stid_start, s_search_reset>>
      /\ ~s_done' /\ ~s_error' /\ ~s_schedule_enabled' /\ ~s_int_ack'
      /\ {s_done', s_error', s_schedule_enabled', s_int_ack'} \subseteq BOOLEAN
  BY DEF PinReset, ClearAll, ClearQueue, stidRequest, searchRequest
<1>3. FlagsTyped'
  BY <1>2 DEF Typed, FlagsTyped
<1>4. s_free_tid' \in Tids
  BY SizeAssumption DEF PinReset, Tids
<1>5. s_full' \in BOOLEAN
  BY DEF PinReset
<1>6. ProcessesTyped'
  BY <1>4, <1>5, SearchTypes DEF PinReset, ProcessesTyped
<1>7. QED BY <1>1, <1>3, <1>6

LEMMA TypedStep ==
  ASSUME Typed, s_size \in Tids0, Next
  PROVE  Typed'
<1>1. TablesTyped' /\ Addressed'
  BY TablesStep, AddressedStep
<1>2. CASE PinReset
  BY <1>1, <1>2, PinTyped DEF Typed
<1>3. CASE OtherProcesses /\ Command
  BY <1>1, <1>3, CommandMachine, CommandFlags, OtherTypes DEF Typed
<1>4. CASE OtherProcesses /\ Clock
  BY <1>1, <1>4, ClockMachine, ClockFlags, OtherTypes DEF Typed
<1>5. QED BY <1>2, <1>3, <1>4, OthersStep DEF Next
=============================================================================
