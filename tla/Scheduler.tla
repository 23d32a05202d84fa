------------------------------ MODULE Scheduler ------------------------------
(***************************************************************************)
(* The hardware scheduler, entity Scheduler of scheduler.vhd, one step per *)
(* rising edge of p_clk.  The five processes of the architecture assign     *)
(* disjoint signals, so one edge is the conjunction of one step of each:   *)
(* mainProcess (an action per command it accepts in idle and per state of  *)
(* its machine) and, in OtherProcesses, SearchFreeTID, SearchTID,           *)
(* searchingLinkList and timeManagement.  Every process reads the old       *)
(* values, as VHDL signals do.                                              *)
(*                                                                         *)
(* A table is indexed by the TID, which is the VHDL index plus one; a       *)
(* bitmap is the set of the TIDs whose bit is '1'; 0 is the null pointer    *)
(* and "no thread".                                                         *)
(***************************************************************************)
EXTENDS Integers, FiniteSets

CONSTANTS MaxThreads,       \* C_MAX_THREADS
          Objects,          \* the addresses a client gives to CREATE
          Priorities,       \* the values of p_priority
          OrderModulus,     \* s_order_table keeps p_priority modulo this (2^16)
          MaxTicks,         \* a tick register with all bits set (2^C_DWIDTH - 1)
          Quanta,           \* the parameters of SET_QUANTUM
          Lookups,          \* the parameters of GETID
          Commands,         \* what reaches the block: commands, PIN for p_reset
          InsertUncreated   \* may a client INSERT a TID it did not create?

CommandNames == {"CREATE", "DESTROY", "INSERT", "REMOVE", "REMOVE_HEAD",
                 "UPDATE_RUNNING", "SET_QUANTUM", "ENABLE", "DISABLE", "INT_ACK",
                 "GETID", "CHOSEN", "SIZE", "RSTICKS", "RESET", "PIN"}

ASSUME SizeAssumption == MaxThreads \in Nat \ {0}
ASSUME DataAssumption ==
         /\ 0 \notin Objects
         /\ Lookups \subseteq Objects \cup {0}
         /\ Priorities \subseteq Nat
         /\ OrderModulus \in Nat \ {0}
ASSUME TickAssumption == MaxTicks \in Nat /\ Quanta \subseteq 0..MaxTicks
ASSUME ClientAssumption == Commands \subseteq CommandNames /\ InsertUncreated \in BOOLEAN

VARIABLES
  s_state, s_done, s_error, s_command_tid, s_return,             \* the machine
  s_tid_bitmap, s_obj_table, s_order_table,                      \* the threads
  s_enqueue_bitmap, s_prev_table, s_next_table,                  \* the ready queue
  s_head_tid, s_tail_tid, s_size,
  s_running_tid,
  s_quantum_ticks, s_schedule_enabled, s_int_ack, s_time_reset,  \* to timeManagement
  s_counter, s_reschedule,                                       \* of timeManagement
  s_free_tid, s_full,                                            \* of SearchFreeTID
  s_stid_obj_ptr, s_stid_start,                                  \* to SearchTID
  s_stid_found, s_stid_done,                                     \* of SearchTID
  s_search_order, s_search_reset,                                \* to searchingLinkList
  s_found_tid, s_search_done                                     \* of searchingLinkList

machine       == <<s_state, s_done, s_error, s_command_tid, s_return>>
threads       == <<s_tid_bitmap, s_obj_table, s_order_table>>
queue         == <<s_enqueue_bitmap, s_prev_table, s_next_table,
                   s_head_tid, s_tail_tid, s_size>>
timeControl   == <<s_quantum_ticks, s_schedule_enabled, s_int_ack, s_time_reset>>
stidRequest   == <<s_stid_obj_ptr, s_stid_start>>
searchRequest == <<s_search_order, s_search_reset>>
processOutputs == <<s_counter, s_reschedule, s_free_tid, s_full,
                    s_stid_found, s_stid_done, s_found_tid, s_search_done>>
vars == <<machine, threads, queue, s_running_tid, timeControl, stidRequest,
          searchRequest, processOutputs>>

-----------------------------------------------------------------------------
Tids == 1..MaxThreads
Tids0 == 0..MaxThreads
Order(prio) == prio % OrderModulus

\* The row that the VHDL index t-1 selects: only the low bits of an index reach
\* the table, so that -1 selects the last row.
Row(t) == IF t = 0 THEN MaxThreads ELSE t

EmptyTable == [t \in Tids |-> 0]

States == {"idle", "destroy", "preinsert", "insert", "remove", "exit_ok", "exit_error",
           "acknowledge_int", "reset_time", "pregetid", "getid"}

(***************************************************************************)
(* The processes beside mainProcess.                                        *)
(***************************************************************************)
\* Mutation: the loop that computes s_full stops one row short.
SearchFreeTIDShort ==
  LET free == Tids \ s_tid_bitmap
  IN /\ s_full' = (free \subseteq {MaxThreads})
     /\ \/ free = {} /\ UNCHANGED s_free_tid
        \/ s_free_tid' \in free /\ \A row \in free : row <= s_free_tid'

\* The loop keeps the last free row it meets, the highest.
SearchFreeTID ==
  LET free == Tids \ s_tid_bitmap
  IN /\ s_full' = (free = {})
     /\ \/ free = {} /\ UNCHANGED s_free_tid
        \/ s_free_tid' \in free /\ \A row \in free : row <= s_free_tid'

\* Mutation: the search goes on with the first row after the last.
SearchTIDStepCyclic ==
  /\ s_stid_done' = (s_obj_table[Row(s_stid_found)] = s_stid_obj_ptr)
  /\ s_stid_found' = IF s_stid_done' THEN s_stid_found ELSE (s_stid_found % MaxThreads) + 1

SearchTIDStep ==
  \/ /\ s_obj_table[Row(s_stid_found)] = s_stid_obj_ptr
     /\ s_stid_done' = TRUE
     /\ UNCHANGED s_stid_found
  \/ /\ s_obj_table[Row(s_stid_found)] # s_stid_obj_ptr
     /\ s_stid_done' = (s_stid_found = MaxThreads)
     /\ s_stid_found' = IF s_stid_found = MaxThreads THEN 0 ELSE s_stid_found + 1

\* Mutation: a new search leaves the verdict of the last one standing.
SearchTIDStale ==
  IF s_stid_start THEN s_stid_found' = 1 /\ UNCHANGED s_stid_done
  ELSE IF s_stid_done THEN UNCHANGED <<s_stid_found, s_stid_done>>
  ELSE SearchTIDStep

SearchTID ==
  \/ /\ s_stid_start
     /\ s_stid_found' = 1
     /\ s_stid_done' = FALSE
  \/ /\ ~s_stid_start
     /\ s_stid_done
     /\ UNCHANGED <<s_stid_found, s_stid_done>>
  \/ /\ ~s_stid_start
     /\ ~s_stid_done
     /\ SearchTIDStep

\* Mutation: among equal priorities the new thread goes first.
WalkStepStrict ==
  IF s_order_table[Row(s_found_tid)] < s_search_order
  THEN /\ s_found_tid' = s_next_table[Row(s_found_tid)]
       /\ s_search_done' = (s_next_table[Row(s_found_tid)] = 0)
  ELSE s_search_done' = TRUE /\ UNCHANGED s_found_tid

\* Mutation: the walk does not look whether it is at the tail.
WalkStepOffTail ==
  IF s_order_table[Row(s_found_tid)] <= s_search_order
  THEN s_found_tid' = s_next_table[Row(s_found_tid)] /\ UNCHANGED s_search_done
  ELSE s_search_done' = TRUE /\ UNCHANGED s_found_tid

\* Stops at the first queued thread that goes after the one to insert, or at 0.
WalkStep ==
  \/ /\ s_order_table[Row(s_found_tid)] <= s_search_order
     /\ s_found_tid' = s_next_table[Row(s_found_tid)]
     /\ s_search_done' = (s_next_table[Row(s_found_tid)] = 0)
  \/ /\ s_order_table[Row(s_found_tid)] > s_search_order
     /\ s_search_done' = TRUE
     /\ UNCHANGED s_found_tid

\* Mutation: s_search_reset leaves the old verdict standing.
SearchingLinkListStale ==
  IF s_search_reset THEN s_found_tid' = s_head_tid /\ UNCHANGED s_search_done
  ELSE IF s_search_done THEN UNCHANGED <<s_found_tid, s_search_done>>
  ELSE WalkStep

SearchingLinkList ==
  \/ /\ s_search_reset
     /\ s_found_tid' = s_head_tid
     /\ s_search_done' = FALSE
  \/ /\ ~s_search_reset
     /\ s_search_done
     /\ UNCHANGED <<s_found_tid, s_search_done>>
  \/ /\ ~s_search_reset
     /\ ~s_search_done
     /\ WalkStep

PreemptionDue ==
  /\ s_running_tid > 0
  /\ s_head_tid > 0
  /\ s_order_table[s_running_tid] >= s_order_table[s_head_tid]

\* Mutation: an acknowledgement withdraws the request and leaves the counter running.
TimeManagementNoReload ==
  /\ s_counter' = IF s_time_reset \/ s_counter = 0 THEN s_quantum_ticks ELSE s_counter - 1
  /\ s_reschedule' = /\ ~s_time_reset /\ ~s_int_ack
                     /\ s_reschedule \/ (s_counter = 0 /\ PreemptionDue)

\* Mutation: the request lasts one edge.
TimeManagementPulse ==
  LET restart == s_time_reset \/ s_int_ack
  IN /\ s_counter' = IF restart \/ s_counter = 0 THEN s_quantum_ticks ELSE s_counter - 1
     /\ s_reschedule' = (~restart /\ s_counter = 0 /\ PreemptionDue)

TimeManagement ==
  \/ /\ s_time_reset \/ s_int_ack
     /\ s_counter' = s_quantum_ticks
     /\ s_reschedule' = FALSE
  \/ /\ ~s_time_reset
     /\ ~s_int_ack
     /\ s_counter' = IF s_counter = 0 THEN s_quantum_ticks ELSE s_counter - 1
     /\ s_reschedule' = (s_reschedule \/ (s_counter = 0 /\ PreemptionDue))

OtherProcesses == SearchFreeTID /\ SearchTID /\ SearchingLinkList /\ TimeManagement

p_interrupt == s_reschedule /\ s_schedule_enabled /\ s_state = "idle"

-----------------------------------------------------------------------------
(***************************************************************************)
(* mainProcess in idle: one action per command.                             *)
(***************************************************************************)
\* Mutation: done stays up from the command before.
AcceptKeepsDone(cmd) ==
  cmd \in Commands /\ s_state = "idle" /\ s_error' = FALSE /\ UNCHANGED s_done

Accept(cmd) ==
  /\ cmd \in Commands
  /\ s_state = "idle"
  /\ s_done' = FALSE
  /\ s_error' = FALSE

Idle ==
  /\ s_state = "idle"
  /\ UNCHANGED <<machine, threads, queue, s_running_tid, timeControl,
                 stidRequest, searchRequest>>
  /\ OtherProcesses

Create(obj, prio) ==
  /\ Accept("CREATE")
  /\ \/ /\ ~s_full
        /\ s_command_tid' = s_free_tid
        /\ s_tid_bitmap' = s_tid_bitmap \cup {s_free_tid}
        /\ s_order_table' = [s_order_table EXCEPT ![s_free_tid] = Order(prio)]
        /\ s_obj_table' = [s_obj_table EXCEPT ![s_free_tid] = obj]
        /\ s_return' = s_free_tid
        /\ s_state' = "exit_ok"
     \/ /\ s_full
        /\ s_state' = "exit_error"
        /\ UNCHANGED <<s_command_tid, s_return, threads>>
  /\ UNCHANGED <<queue, s_running_tid, timeControl, stidRequest, searchRequest>>
  /\ OtherProcesses

Destroy(tid) ==
  /\ Accept("DESTROY")
  /\ s_command_tid' = tid
  /\ s_state' = "destroy"
  /\ UNCHANGED <<s_return, threads, queue, s_running_tid, timeControl,
                 stidRequest, searchRequest>>
  /\ OtherProcesses

Insert(tid, prio) ==
  /\ Accept("INSERT")
  /\ s_command_tid' = tid
  /\ s_order_table' = [s_order_table EXCEPT ![tid] = Order(prio)]
  /\ s_enqueue_bitmap' = s_enqueue_bitmap \cup {tid}
  /\ \/ /\ s_head_tid = 0
        /\ s_head_tid' = tid
        /\ s_tail_tid' = tid
        /\ s_size' = s_size + 1
        /\ s_state' = "exit_ok"
        /\ UNCHANGED searchRequest
     \/ /\ s_head_tid # 0
        /\ s_search_order' = prio
        /\ s_search_reset' = TRUE
        /\ s_state' = "preinsert"
        /\ UNCHANGED <<s_head_tid, s_tail_tid, s_size>>
  /\ UNCHANGED <<s_return, s_tid_bitmap, s_obj_table, s_prev_table, s_next_table,
                 s_running_tid, timeControl, stidRequest>>
  /\ OtherProcesses

Remove(tid) ==
  /\ Accept("REMOVE")
  /\ \/ /\ tid \notin s_enqueue_bitmap
        /\ s_return' = 0
        /\ s_state' = "exit_ok"
        /\ UNCHANGED s_command_tid
     \/ /\ tid \in s_enqueue_bitmap
        /\ s_command_tid' = tid
        /\ s_state' = "remove"
        /\ UNCHANGED s_return
  /\ UNCHANGED <<threads, queue, s_running_tid, timeControl, stidRequest, searchRequest>>
  /\ OtherProcesses

RemoveHead ==
  /\ Accept("REMOVE_HEAD")
  /\ \/ /\ s_head_tid = 0
        /\ s_return' = 0
        /\ s_state' = "exit_ok"
        /\ UNCHANGED s_command_tid
     \/ /\ s_head_tid # 0
        /\ s_command_tid' = s_head_tid
        /\ s_state' = "remove"
        /\ UNCHANGED s_return
  /\ UNCHANGED <<threads, queue, s_running_tid, timeControl, stidRequest, searchRequest>>
  /\ OtherProcesses

UpdateRunning(tid) ==
  /\ Accept("UPDATE_RUNNING")
  /\ s_running_tid' = tid
  /\ s_state' = "exit_ok"
  /\ UNCHANGED <<s_command_tid, s_return, threads, queue, timeControl,
                 stidRequest, searchRequest>>
  /\ OtherProcesses

\* SET_QUANTUM and RSTICKS: the former also stores the new quantum.
RestartTime(cmd, quantum) ==
  /\ Accept(cmd)
  /\ s_quantum_ticks' = quantum
  /\ s_time_reset' = TRUE
  /\ s_state' = "reset_time"
  /\ UNCHANGED <<s_command_tid, s_return, threads, queue, s_running_tid,
                 s_schedule_enabled, s_int_ack, stidRequest, searchRequest>>
  /\ OtherProcesses

SetQuantum(quantum) == RestartTime("SET_QUANTUM", quantum)
ResetTicks == RestartTime("RSTICKS", s_quantum_ticks)

SetEnabled(cmd, enabled) ==
  /\ Accept(cmd)
  /\ s_schedule_enabled' = enabled
  /\ s_state' = "exit_ok"
  /\ UNCHANGED <<s_command_tid, s_return, threads, queue, s_running_tid,
                 s_quantum_ticks, s_int_ack, s_time_reset, stidRequest, searchRequest>>
  /\ OtherProcesses

Enable == SetEnabled("ENABLE", TRUE)
Disable == SetEnabled("DISABLE", FALSE)

IntAck ==
  /\ Accept("INT_ACK")
  /\ s_int_ack' = TRUE
  /\ s_state' = "acknowledge_int"
  /\ UNCHANGED <<s_command_tid, s_return, threads, queue, s_running_tid,
                 s_quantum_ticks, s_schedule_enabled, s_time_reset,
                 stidRequest, searchRequest>>
  /\ OtherProcesses

GetId(obj) ==
  /\ Accept("GETID")
  /\ s_stid_obj_ptr' = obj
  /\ s_stid_start' = TRUE
  /\ s_state' = "pregetid"
  /\ UNCHANGED <<s_command_tid, s_return, threads, queue, s_running_tid,
                 timeControl, searchRequest>>
  /\ OtherProcesses

\* CHOSEN and SIZE answer in the edge that accepts them.
Answer(cmd, value) ==
  /\ Accept(cmd)
  /\ s_return' = value
  /\ s_state' = "exit_ok"
  /\ UNCHANGED <<s_command_tid, threads, queue, s_running_tid, timeControl,
                 stidRequest, searchRequest>>
  /\ OtherProcesses

Chosen == Answer("CHOSEN", IF s_running_tid = 0 THEN 0 ELSE s_obj_table[s_running_tid])
Size == Answer("SIZE", s_size + 1)

\* Mutation: the size is not cleared.
ClearQueueKeepsSize ==
  /\ s_enqueue_bitmap' = {}
  /\ s_prev_table' = EmptyTable /\ s_next_table' = EmptyTable
  /\ s_head_tid' = 0 /\ s_tail_tid' = 0
  /\ UNCHANGED s_size

ClearQueue ==
  /\ s_enqueue_bitmap' = {}
  /\ s_prev_table' = EmptyTable
  /\ s_next_table' = EmptyTable
  /\ s_head_tid' = 0
  /\ s_tail_tid' = 0
  /\ s_size' = 0

\* What the command RESET and the pin p_reset have in common.  Neither touches
\* the requests to the other processes, s_time_reset or s_command_tid.
ClearAll ==
  /\ s_tid_bitmap' = {}
  /\ s_obj_table' = EmptyTable
  /\ s_order_table' = EmptyTable
  /\ ClearQueue
  /\ s_running_tid' = 0
  /\ s_return' = 0
  /\ s_done' = FALSE
  /\ s_error' = FALSE
  /\ s_schedule_enabled' = FALSE
  /\ s_quantum_ticks' = MaxTicks
  /\ s_int_ack' = FALSE
  /\ UNCHANGED <<s_command_tid, s_time_reset, stidRequest, searchRequest>>

Reset ==
  /\ "RESET" \in Commands
  /\ s_state = "idle"
  /\ ClearAll
  /\ s_state' = "exit_ok"
  /\ OtherProcesses

\* The pin p_reset is low in this edge: only mainProcess and SearchFreeTID look at it.
PinReset ==
  /\ "PIN" \in Commands
  /\ ClearAll
  /\ s_state' = "idle"
  /\ s_free_tid' = 1
  /\ s_full' = FALSE
  /\ SearchTID /\ SearchingLinkList /\ TimeManagement

-----------------------------------------------------------------------------
(***************************************************************************)
(* mainProcess in its other states.                                         *)
(***************************************************************************)
PreInsert ==
  /\ s_state = "preinsert"
  /\ s_search_reset' = FALSE
  /\ s_state' = "insert"
  /\ UNCHANGED <<s_done, s_error, s_command_tid, s_return, threads, queue,
                 s_running_tid, timeControl, stidRequest, s_search_order>>
  /\ OtherProcesses

InsertWait ==
  /\ s_state = "insert"
  /\ ~s_search_done
  /\ UNCHANGED <<machine, threads, queue, s_running_tid, timeControl,
                 stidRequest, searchRequest>>
  /\ OtherProcesses

\* Mutation: the back pointer of the new tail is forgotten.
LinkAtTailOneWay ==
  /\ s_tail_tid' = s_command_tid
  /\ s_next_table' = [s_next_table EXCEPT ![Row(s_tail_tid)] = s_command_tid,
                                          ![s_command_tid] = 0]
  /\ UNCHANGED <<s_prev_table, s_head_tid>>

LinkAtTail ==
  /\ s_tail_tid' = s_command_tid
  /\ s_next_table' = [s_next_table EXCEPT ![Row(s_tail_tid)] = s_command_tid,
                                          ![s_command_tid] = 0]
  /\ s_prev_table' = [s_prev_table EXCEPT ![s_command_tid] = s_tail_tid]
  /\ UNCHANGED s_head_tid

\* Mutation: the head stays where it is.
LinkBeforeKeepsHead(found) ==
  LET before == s_prev_table[found]
      linked == [s_next_table EXCEPT ![s_command_tid] = found]
  IN /\ s_next_table' = IF before = 0 THEN linked
                        ELSE [linked EXCEPT ![before] = s_command_tid]
     /\ s_prev_table' = [s_prev_table EXCEPT ![s_command_tid] = before,
                                             ![found] = s_command_tid]
     /\ UNCHANGED <<s_head_tid, s_tail_tid>>

LinkBefore(found) ==
  LET before == s_prev_table[found]
  IN /\ s_head_tid' = IF before = 0 THEN s_command_tid ELSE s_head_tid
     /\ s_next_table' = IF before = 0
                        THEN [s_next_table EXCEPT ![s_command_tid] = found]
                        ELSE [s_next_table EXCEPT ![s_command_tid] = found,
                                                  ![before] = s_command_tid]
     /\ s_prev_table' = [s_prev_table EXCEPT ![s_command_tid] = before,
                                             ![found] = s_command_tid]
     /\ UNCHANGED s_tail_tid

InsertLink ==
  /\ s_state = "insert"
  /\ s_search_done
  /\ \/ s_found_tid = 0 /\ LinkAtTail
     \/ s_found_tid # 0 /\ LinkBefore(s_found_tid)
  /\ s_return' = s_command_tid
  /\ s_size' = s_size + 1
  /\ s_state' = "exit_ok"
  /\ UNCHANGED <<s_done, s_error, s_command_tid, threads, s_enqueue_bitmap,
                 s_running_tid, timeControl, stidRequest, searchRequest>>
  /\ OtherProcesses

DestroyFree ==
  /\ s_state = "destroy"
  /\ s_tid_bitmap' = s_tid_bitmap \ {s_command_tid}
  /\ s_obj_table' = [s_obj_table EXCEPT ![s_command_tid] = 0]
  /\ s_order_table' = [s_order_table EXCEPT ![s_command_tid] = 0]
  /\ s_state' = IF s_command_tid \in s_enqueue_bitmap THEN "remove" ELSE "exit_ok"
  /\ UNCHANGED <<s_done, s_error, s_command_tid, s_return, queue, s_running_tid,
                 timeControl, stidRequest, searchRequest>>
  /\ OtherProcesses

RemoveUnlink ==
  LET tid    == s_command_tid
      before == s_prev_table[tid]
      after  == s_next_table[tid]
  IN /\ s_state = "remove"
     /\ s_return' = s_obj_table[tid]
     /\ s_enqueue_bitmap' = s_enqueue_bitmap \ {tid}
     /\ s_head_tid' = IF before = 0 THEN after ELSE s_head_tid
     /\ s_tail_tid' = IF after = 0 THEN before ELSE s_tail_tid
     /\ s_next_table' = [t \in Tids |-> IF t = tid THEN 0
                                        ELSE IF t = before THEN after
                                        ELSE s_next_table[t]]
     /\ s_prev_table' = [t \in Tids |-> IF t = tid THEN 0
                                        ELSE IF t = after THEN before
                                        ELSE s_prev_table[t]]
     /\ s_size' = s_size - 1
     /\ s_state' = "exit_ok"
     /\ UNCHANGED <<s_done, s_error, s_command_tid, threads, s_running_tid,
                    timeControl, stidRequest, searchRequest>>
     /\ OtherProcesses

\* exit_ok, exit_error, acknowledge_int and reset_time end a command: done rises.
Finish ==
  /\ s_state \in {"exit_ok", "exit_error", "acknowledge_int", "reset_time"}
  /\ s_done' = TRUE
  /\ s_error' = (s_error \/ s_state = "exit_error")
  /\ s_int_ack' = (s_int_ack /\ s_state # "acknowledge_int")
  /\ s_time_reset' = (s_time_reset /\ s_state # "reset_time")
  /\ s_state' = "idle"
  /\ UNCHANGED <<s_command_tid, s_return, threads, queue, s_running_tid,
                 s_quantum_ticks, s_schedule_enabled, stidRequest, searchRequest>>
  /\ OtherProcesses

PreGetId ==
  /\ s_state = "pregetid"
  /\ s_stid_start' = FALSE
  /\ s_state' = "getid"
  /\ UNCHANGED <<s_done, s_error, s_command_tid, s_return, threads, queue,
                 s_running_tid, timeControl, s_stid_obj_ptr, searchRequest>>
  /\ OtherProcesses

GetIdWait ==
  /\ s_state = "getid"
  /\ ~s_stid_done
  /\ UNCHANGED <<machine, threads, queue, s_running_tid, timeControl,
                 stidRequest, searchRequest>>
  /\ OtherProcesses

GetIdFinish ==
  /\ s_state = "getid"
  /\ s_stid_done
  /\ s_return' = s_stid_found
  /\ s_state' = IF s_stid_found = 0 THEN "exit_error" ELSE "exit_ok"
  /\ UNCHANGED <<s_done, s_error, s_command_tid, threads, queue, s_running_tid,
                 timeControl, stidRequest, searchRequest>>
  /\ OtherProcesses

-----------------------------------------------------------------------------
\* The registers after power-up (all zeros) and a few edges of p_reset, which leave
\* both searches finished and the whole default quantum in the counter.
Init ==
  /\ s_state = "idle" /\ s_done = FALSE /\ s_error = FALSE
  /\ s_command_tid = 0 /\ s_return = 0
  /\ s_tid_bitmap = {} /\ s_obj_table = EmptyTable /\ s_order_table = EmptyTable
  /\ s_enqueue_bitmap = {} /\ s_prev_table = EmptyTable /\ s_next_table = EmptyTable
  /\ s_head_tid = 0 /\ s_tail_tid = 0 /\ s_size = 0
  /\ s_running_tid = 0
  /\ s_quantum_ticks = MaxTicks /\ s_schedule_enabled = FALSE
  /\ s_int_ack = FALSE /\ s_time_reset = FALSE
  /\ s_counter = MaxTicks /\ s_reschedule = FALSE
  /\ s_free_tid = 1 /\ s_full = FALSE
  /\ s_stid_obj_ptr = 0 /\ s_stid_start = FALSE
  /\ s_stid_found = 0 /\ s_stid_done = TRUE
  /\ s_search_order = 0 /\ s_search_reset = FALSE
  /\ s_found_tid = 0 /\ s_search_done = TRUE

\* A client inserts no thread twice: the block does not defend itself against that.
Insertable == {t \in Tids : /\ t \notin s_enqueue_bitmap
                            /\ t \in s_tid_bitmap \/ InsertUncreated}

Command ==
  \/ \E obj \in Objects, prio \in Priorities : Create(obj, prio)
  \/ \E tid \in Tids : Destroy(tid)
  \/ \E tid \in Insertable, prio \in Priorities : Insert(tid, prio)
  \/ \E tid \in Tids : Remove(tid)
  \/ RemoveHead
  \/ \E tid \in Tids0 : UpdateRunning(tid)
  \/ \E quantum \in Quanta : SetQuantum(quantum)
  \/ ResetTicks
  \/ Enable
  \/ Disable
  \/ IntAck
  \/ \E obj \in Lookups : GetId(obj)
  \/ Chosen
  \/ Size
  \/ Reset

\* The command that a client names, with its operands.
Executes(cmd, priority, param) ==
  \/ cmd = "CREATE" /\ Create(param, priority)
  \/ cmd = "DESTROY" /\ Destroy(param)
  \/ cmd = "INSERT" /\ Insert(param, priority)
  \/ cmd = "REMOVE" /\ Remove(param)
  \/ cmd = "REMOVE_HEAD" /\ RemoveHead
  \/ cmd = "UPDATE_RUNNING" /\ UpdateRunning(param)
  \/ cmd = "SET_QUANTUM" /\ SetQuantum(param)
  \/ cmd = "RSTICKS" /\ ResetTicks
  \/ cmd = "ENABLE" /\ Enable
  \/ cmd = "DISABLE" /\ Disable
  \/ cmd = "INT_ACK" /\ IntAck
  \/ cmd = "GETID" /\ GetId(param)
  \/ cmd = "CHOSEN" /\ Chosen
  \/ cmd = "SIZE" /\ Size
  \/ cmd = "RESET" /\ Reset

\* What the clock does by itself, whether or not a client asks for anything.
Clock ==
  \/ Idle
  \/ PreInsert
  \/ InsertWait
  \/ InsertLink
  \/ DestroyFree
  \/ RemoveUnlink
  \/ Finish
  \/ PreGetId
  \/ GetIdWait
  \/ GetIdFinish

Next == Command \/ Clock \/ PinReset

Spec == Init /\ [][Next]_vars
FairSpec == Spec /\ WF_vars(Clock)

-----------------------------------------------------------------------------
(***************************************************************************)
(* Properties.                                                              *)
(***************************************************************************)
MachineTyped ==
  /\ s_state \in States
  /\ s_command_tid \in Tids0
  /\ s_return \in Objects \cup 0..(MaxThreads + 1)
  /\ s_running_tid \in Tids0
  /\ s_quantum_ticks \in 0..MaxTicks
  /\ s_stid_obj_ptr \in Objects \cup {0}
  /\ s_search_order \in Nat

FlagsTyped ==
  /\ s_done \in BOOLEAN /\ s_error \in BOOLEAN
  /\ s_schedule_enabled \in BOOLEAN /\ s_int_ack \in BOOLEAN /\ s_time_reset \in BOOLEAN
  /\ s_stid_start \in BOOLEAN /\ s_search_reset \in BOOLEAN

TablesTyped ==
  /\ s_tid_bitmap \subseteq Tids
  /\ s_obj_table \in [Tids -> Objects \cup {0}]
  /\ s_order_table \in [Tids -> 0..(OrderModulus - 1)]
  /\ s_enqueue_bitmap \subseteq Tids
  /\ s_prev_table \in [Tids -> Tids0] /\ s_next_table \in [Tids -> Tids0]
  /\ s_head_tid \in Tids0 /\ s_tail_tid \in Tids0

ProcessesTyped ==
  /\ s_counter \in 0..MaxTicks /\ s_reschedule \in BOOLEAN
  /\ s_free_tid \in Tids /\ s_full \in BOOLEAN
  /\ s_stid_found \in Tids0 /\ s_stid_done \in BOOLEAN
  /\ s_found_tid \in Tids0 /\ s_search_done \in BOOLEAN

\* Every register holds a value of its VHDL type; that s_size stays in its range
\* depends on the queue.
TypeOK ==
  MachineTyped /\ FlagsTyped /\ TablesTyped /\ ProcessesTyped /\ s_size \in Tids0

\* s_free_tid and s_full trail the bitmap by an edge.  Whenever the block can
\* accept a CREATE they have caught up: no TID in use is handed out again, and
\* the table is reported full exactly when it is.
AllocationFresh ==
  s_state = "idle" => /\ s_full <=> s_tid_bitmap = Tids
                      /\ s_full \/ s_free_tid \notin s_tid_bitmap

\* An INSERT has set the bit of its thread before it links it.
Linking == IF s_state \in {"preinsert", "insert"} THEN {s_command_tid} ELSE {}
Queued == s_enqueue_bitmap \ Linking

\* pos numbers the queued threads from the head, 1, to the tail, s_size.
Ranked(pos) ==
  /\ \A t \in Tids : IF t \in Queued THEN pos[t] \in 1..s_size
                     ELSE pos[t] = 0 /\ s_next_table[t] = 0 /\ s_prev_table[t] = 0
  /\ \A t, u \in Queued : pos[t] = pos[u] => t = u
  /\ s_head_tid = 0 <=> Queued = {}
  /\ s_tail_tid = 0 <=> Queued = {}
  /\ s_size = 0 <=> Queued = {}
  /\ Queued # {} => /\ s_head_tid \in Queued /\ pos[s_head_tid] = 1
                    /\ s_tail_tid \in Queued /\ pos[s_tail_tid] = s_size
  /\ \A t \in Queued :
       /\ IF pos[t] = s_size THEN s_next_table[t] = 0
          ELSE s_next_table[t] \in Queued /\ pos[s_next_table[t]] = pos[t] + 1
       /\ IF pos[t] = 1 THEN s_prev_table[t] = 0
          ELSE s_prev_table[t] \in Queued /\ pos[s_prev_table[t]] = pos[t] - 1

\* In every state, between the commands and inside them, the links make one
\* chain of s_size threads, the same in both directions, from s_head_tid to
\* s_tail_tid, that holds exactly the threads whose bit is set.
QueueWellFormed == \E pos \in [Tids -> Tids0] : Ranked(pos)

\* DESTROY clears the order of its thread an edge before it unlinks it.
Leaving == s_state = "remove" /\ s_command_tid \notin s_tid_bitmap
Staying == IF Leaving THEN Queued \ {s_command_tid} ELSE Queued

InOrder(pos) ==
  \A t, u \in Staying : pos[t] < pos[u] => s_order_table[t] <= s_order_table[u]

\* The chain is in the order of the priorities, so that s_head_tid is the thread to
\* run next: no insertion, removal or rewriting of an order disturbs it.
QueueSorted == \E pos \in [Tids -> Tids0] : Ranked(pos) /\ InOrder(pos)

\* The searches only read the rows they are meant to read: searchingLinkList those
\* of queued threads, and neither of them the row before the first.
SearchOnQueue ==
  /\ s_state = "insert" /\ ~s_search_done => s_found_tid \in Queued
  /\ ~s_search_reset /\ ~s_search_done => s_found_tid # 0
  /\ ~s_stid_start /\ ~s_stid_done => s_stid_found # 0

\* When INSERT links its thread, the search it takes the place from is its own, from
\* the present head: a result left by an earlier search is never taken.
SearchFresh ==
  s_state = "insert" /\ s_search_done =>
    \E pos \in [Tids -> Tids0] :
      /\ Ranked(pos)
      /\ \A t \in Queued : IF s_found_tid # 0 /\ pos[t] >= pos[s_found_tid]
                           THEN s_order_table[t] > s_search_order
                           ELSE s_order_table[t] <= s_search_order

\* A client polls done and then reads the error bit and the return register, with any
\* number of edges in between: while done stays up, neither changes.
ResultStable ==
  [][s_done /\ s_done' => s_return' = s_return /\ s_error' = s_error]_vars

\* Every command comes to its end, whatever state an earlier p_reset left the
\* searches in: the block never stays busy, and a client's polling ends.
CommandCompletes == s_state # "idle" ~> s_state = "idle"

\* The report says that RESET leaves the block as when it comes into operation.  So, if
\* nothing was destroyed, an interrupt means that threads were created since.
ResetLikeStart == p_interrupt => s_tid_bitmap # {}

\* If from some moment on a queued thread deserves the processor, interrupts are
\* enabled and nobody restarts or acknowledges the timer, p_interrupt is raised again
\* and again, however busy a client keeps the block with other commands.
InterruptArrives ==
  <>[](/\ PreemptionDue
       /\ s_schedule_enabled
       /\ s_state \notin {"reset_time", "acknowledge_int"}) => []<>p_interrupt
=============================================================================
