----------------------------- MODULE OrderProofs -----------------------------
(***************************************************************************)
(* Theorems about the order of the ready queue, for clients that insert    *)
(* only what they created, with priorities that fit the order table.  Both *)
(* are needed: the block compares whole priorities with the low bits it    *)
(* keeps, and a CREATE rewrites the order of a row that is queued but not   *)
(* in use.                                                                  *)
(***************************************************************************)
EXTENDS SchedulerProofs

\* What the client keeps to.
Civil == ~InsertUncreated /\ Priorities \subseteq 0..(OrderModulus - 1)

\* A queued row is in use, unless DESTROY has just freed it.  Until the thread of an
\* INSERT is linked, its row and the search keep the same order.
Registered ==
  /\ s_enqueue_bitmap \ (IF Leaving THEN {s_command_tid} ELSE {}) \subseteq s_tid_bitmap
  /\ s_state \in {"preinsert", "insert"} => s_order_table[s_command_tid] = s_search_order

\* The walk of an INSERT has passed only threads that go before the new one; once it has
\* found a thread, that one goes after.
Walked(pos) ==
  s_state = "insert" =>
    /\ \A t \in Queued : s_found_tid = 0 \/ pos[t] < pos[s_found_tid]
                           => s_order_table[t] <= s_search_order
    /\ s_search_done /\ s_found_tid # 0 => s_order_table[s_found_tid] > s_search_order

SortInv == \E pos \in [Tids -> Tids0] : Ranked(pos) /\ InOrder(pos) /\ Walked(pos)

OrderInv == QueueInv /\ FreshInv /\ Registered /\ SortInv

-----------------------------------------------------------------------------
LEMMA FittingOrder ==
  ASSUME Civil, NEW prio \in Priorities
  PROVE  Order(prio) = prio
  BY DataAssumption DEF Civil, Order

\* How mainProcess comes to the states of an insertion, and out of a removal.
LEMMA Entered ==
  ASSUME Next
  PROVE  /\ s_state' = "preinsert" => \E tid \in Insertable, prio \in Priorities : Insert(tid, prio)
         /\ s_state' = "insert" => PreInsert \/ InsertWait
         /\ s_state = "remove" => RemoveUnlink \/ PinReset
<1> USE DEF Accept, machine
<1>1. CASE Command
  BY <1>1 DEF Command, Create, Destroy, Insert, Remove, RemoveHead, UpdateRunning,
     SetQuantum, ResetTicks, RestartTime, Enable, Disable, SetEnabled, IntAck, GetId,
     Chosen, Size, Answer, Reset
<1>2. CASE Clock
  BY <1>2 DEF Clock, Idle, PreInsert, InsertWait, InsertLink, DestroyFree,
     RemoveUnlink, Finish, PreGetId, GetIdWait, GetIdFinish
<1>3. QED BY <1>1, <1>2 DEF Next, PinReset

LEMMA RegisteredStep ==
  ASSUME Civil, QueueInv, Registered, Next
  PROVE  Registered'
<1> USE DEF Registered
<1>1. s_enqueue_bitmap' \ (IF Leaving' THEN {s_command_tid'} ELSE {}) \subseteq s_tid_bitmap'
  <2> SUFFICES ASSUME NEW t \in s_enqueue_bitmap', ~(Leaving' /\ t = s_command_tid')
               PROVE  t \in s_tid_bitmap'
    OBVIOUS
  <2>1. CASE s_state = "remove"
    <3>1. CASE RemoveUnlink
      BY <3>1 DEF RemoveUnlink, threads
    <3>2. CASE PinReset
      BY <3>2 DEF PinReset, ClearAll, ClearQueue
    <3>3. QED BY <2>1, <3>1, <3>2, Entered
  <2>2. CASE s_state # "remove"
    <3>1. s_enqueue_bitmap \subseteq s_tid_bitmap
      BY <2>2 DEF Leaving
    <3>2. ASSUME NEW obj \in Objects, NEW prio \in Priorities, Create(obj, prio)
          PROVE  t \in s_tid_bitmap'
      BY <3>1, <3>2 DEF Create, threads, queue
    <3>3. ASSUME NEW tid \in Insertable, NEW prio \in Priorities, Insert(tid, prio)
          PROVE  t \in s_tid_bitmap'
      BY <3>1, <3>3 DEF Insert, Insertable, Civil
    <3>4. CASE Reset \/ PinReset
      BY <3>4 DEF Reset, PinReset, ClearAll, ClearQueue
    <3>5. CASE InsertLink
      BY <3>1, <3>5 DEF InsertLink, threads
    <3>6. CASE DestroyFree
      BY <3>1, <3>6 DEF DestroyFree, queue, Leaving
    <3>7. CASE RemoveUnlink
      BY <2>2, <3>7 DEF RemoveUnlink
    <3>8. CASE UNCHANGED <<threads, queue>>
      BY <3>1, <3>8 DEF threads, queue
    <3>9. QED BY <3>2, <3>3, <3>4, <3>5, <3>6, <3>7, <3>8, TableSteps
  <2>3. QED BY <2>1, <2>2
<1>2. s_state' = "preinsert" => s_order_table'[s_command_tid'] = s_search_order'
  <2>1. ASSUME NEW tid \in Insertable, NEW prio \in Priorities, Insert(tid, prio),
               s_state' = "preinsert"
        PROVE  s_order_table'[s_command_tid'] = s_search_order'
    BY <2>1, FittingOrder DEF Insert, Insertable, QueueInv, Typed, TablesTyped
  <2>2. QED BY <2>1, Entered
<1>3. s_state' = "insert" => s_order_table'[s_command_tid'] = s_search_order'
  BY Entered DEF PreInsert, InsertWait, machine, threads, searchRequest
<1>4. QED BY <1>1, <1>2, <1>3

LEMMA RanksOfNext ==
  ASSUME NEW pos \in [Tids -> Tids0], RankedNext(pos)
  PROVE  Ranked(pos)'
  BY DEF RankedNext, Ranked, Chain

\* A step that neither moves nor rewrites a thread that stays.
LEMMA OrderKept ==
  ASSUME NEW pos \in [Tids -> Tids0], InOrder(pos), s_state # "remove", Queued' = Queued,
         \A t \in Staying' : s_order_table'[t] = s_order_table[t]
  PROVE  InOrder(pos)'
<1>1. Staying = Queued /\ Staying' \subseteq Queued
  BY DEF Staying, Leaving
<1>2. QED BY <1>1 DEF InOrder

\* PreInsert puts the walk on the head, which nobody goes before.
LEMMA WalkStarts ==
  ASSUME QueueInv, NEW pos \in [Tids -> Tids0], Ranked(pos), PreInsert
  PROVE  Walked(pos)'
<1>1. /\ s_state = "preinsert" /\ s_search_reset /\ s_head_tid # 0
      /\ UNCHANGED <<s_command_tid, s_enqueue_bitmap, s_order_table>>
      /\ SearchingLinkList /\ s_state' = "insert"
  BY DEF PreInsert, QueueInv, Working, queue, threads, OtherProcesses
<1>2. Queued' = Queued
  BY <1>1 DEF Queued, Linking
<1>3. s_found_tid' = s_head_tid /\ ~s_search_done'
  BY <1>1 DEF SearchingLinkList, QueueInv, Typed, FlagsTyped
<1>4. pos[s_head_tid] = 1 /\ \A t \in Queued : pos[t] \in Nat /\ pos[t] >= 1
  BY <1>1 DEF Ranked, Queued, QueueInv, Typed, TablesTyped
<1>5. QED BY <1>1, <1>2, <1>3, <1>4 DEF Walked

\* An edge of the walk passes the thread it stands on, or stops there.
LEMMA WalkGoesOn ==
  ASSUME QueueInv, NEW pos \in [Tids -> Tids0], Ranked(pos), Walked(pos), InsertWait
  PROVE  Walked(pos)'
<1> DEFINE found == s_found_tid
           after == s_next_table[found]
<1>1. /\ s_state = "insert" /\ ~s_search_done /\ ~s_search_reset
      /\ UNCHANGED <<s_command_tid, s_enqueue_bitmap, s_order_table, s_search_order, s_state>>
      /\ SearchingLinkList
  BY DEF InsertWait, QueueInv, Working, machine, queue, threads, searchRequest, OtherProcesses
<1>2. Queued' = Queued
  BY <1>1 DEF Queued, Linking
<1>3. found \in Queued /\ found # 0 /\ Row(found) = found /\ WalkStep
  BY <1>1 DEF SearchingLinkList, QueueInv, Working, Row, Queued, Typed, TablesTyped, Tids
<1>4. /\ \A t \in Queued : pos[t] \in 1..s_size
      /\ \A t, u \in Queued : pos[t] = pos[u] => t = u
      /\ IF pos[found] = s_size THEN after = 0 ELSE after \in Queued /\ pos[after] = pos[found] + 1
  BY <1>3 DEF Ranked, QueueInv, Typed, TablesTyped, Queued
<1>5. \A t \in Queued : pos[t] < pos[found] => s_order_table[t] <= s_search_order
  BY <1>1, <1>3 DEF Walked
<1>6. CASE s_order_table[found] <= s_search_order
  <2>1. ~(s_order_table[found] > s_search_order)
    BY <1>3, <1>6, DataAssumption DEF QueueInv, Typed, MachineTyped, TablesTyped, Queued
  <2>2. s_found_tid' = after /\ s_search_done' = (after = 0)
    BY <1>3, <2>1 DEF WalkStep
  <2>3. \A t \in Queued : after = 0 \/ pos[t] < pos[after] => pos[t] < pos[found] \/ t = found
    BY <1>3, <1>4 DEF QueueInv, Typed, TablesTyped, Queued, Tids
  <2>4. QED BY <1>1, <1>2, <1>5, <1>6, <2>2, <2>3 DEF Walked
<1>7. CASE s_order_table[found] > s_search_order
  <2>1. s_found_tid' = found
    BY <1>3, <1>7 DEF WalkStep, QueueInv, Typed, MachineTyped, TablesTyped, Queued
  <2>2. QED BY <1>1, <1>2, <1>3, <1>5, <1>7, <2>1 DEF Walked
<1>8. QED BY <1>3, <1>6, <1>7 DEF WalkStep

\* A step that leaves the links alone, and the orders of the threads that stay.
LEMMA SortKept ==
  ASSUME OrderInv, Next, s_state # "remove", UNCHANGED queue, Queued' = Queued,
         \A t \in Staying' : s_order_table'[t] = s_order_table[t]
  PROVE  SortInv'
<1>1. PICK pos \in [Tids -> Tids0] : Ranked(pos) /\ InOrder(pos) /\ Walked(pos)
  BY DEF OrderInv, SortInv
<1>2. RankedNext(pos)
  BY <1>1, ChainOfQueue DEF RankedNext, queue
<1>3. InOrder(pos)'
  BY <1>1, OrderKept
<1>4. Walked(pos)'
  <2>1. CASE s_state' = "insert"
    BY <1>1, <2>1, Entered, WalkStarts, WalkGoesOn DEF OrderInv
  <2>2. CASE s_state' # "insert"
    BY <2>2 DEF Walked
  <2>3. QED BY <2>1, <2>2
<1>5. QED BY <1>2, <1>3, <1>4, RanksOfNext DEF SortInv

LEMMA SortOfInsert ==
  ASSUME OrderInv, NEW tid \in Insertable, NEW prio \in Priorities, Insert(tid, prio)
  PROVE  SortInv'
<1>1. PICK pos \in [Tids -> Tids0] : Ranked(pos) /\ InOrder(pos) /\ Walked(pos)
  BY DEF OrderInv, SortInv
<1>2. PICK p \in [Tids -> Tids0] :
        /\ RankedNext(p)
        /\ s_head_tid = 0 => Queued = {} /\ Queued' = {tid}
        /\ s_head_tid # 0 => p = pos /\ Queued' = Queued
  BY <1>1, InsertRanks DEF OrderInv
<1>3. /\ s_state = "idle" /\ s_state' \notin {"insert", "remove"} /\ tid \notin s_enqueue_bitmap
      /\ \A t \in Tids \ {tid} : s_order_table'[t] = s_order_table[t]
      /\ Queued \subseteq Tids
  BY DEF Insert, Insertable, Accept, OrderInv, QueueInv, Typed, TablesTyped, Queued
<1>4. InOrder(p)'
  <2>1. CASE s_head_tid = 0
    <3>1. Staying' \subseteq {tid} /\ p[tid] \in Int
      BY <1>2, <2>1 DEF Staying, Insertable, Tids0
    <3>2. QED BY <3>1 DEF InOrder
  <2>2. CASE s_head_tid # 0
    <3>1. tid \notin Queued /\ Staying' \subseteq Queued
      BY <1>2, <1>3, <2>2 DEF Queued, Staying
    <3>2. \A t \in Staying' : s_order_table'[t] = s_order_table[t]
      BY <1>3, <3>1
    <3>3. QED BY <1>1, <1>2, <1>3, <2>2, <3>2, OrderKept
  <2>3. QED BY <2>1, <2>2
<1>5. Walked(p)'
  BY <1>3 DEF Walked
<1>6. QED BY <1>2, <1>4, <1>5, RanksOfNext DEF SortInv

\* The new thread goes before those the walk has not passed and after the others.
LEMMA SortOfLink ==
  ASSUME OrderInv, InsertLink
  PROVE  SortInv'
<1> DEFINE c == s_command_tid
           found == s_found_tid
<1>1. PICK pos \in [Tids -> Tids0] : Ranked(pos) /\ InOrder(pos) /\ Walked(pos)
  BY DEF OrderInv, SortInv
<1>2. c \in Tids \ Queued /\ Queued' = Queued \cup {c}
  BY <1>1, LinkRanks DEF OrderInv
<1>3. PICK p \in [Tids -> Tids0] :
        /\ RankedNext(p)
        /\ p[c] = IF found = 0 THEN s_size + 1 ELSE pos[found]
        /\ \A t \in Queued :
             p[t] = IF found # 0 /\ pos[t] >= pos[found] THEN pos[t] + 1 ELSE pos[t]
  BY <1>1, LinkRanks DEF OrderInv
<1>4. /\ s_state = "insert" /\ s_state' = "exit_ok" /\ s_search_done
      /\ UNCHANGED <<s_order_table, s_command_tid>>
  BY DEF InsertLink, threads
<1>5. /\ Staying = Queued /\ Staying' = Queued \cup {c} /\ s_order_table[c] = s_search_order
      /\ found = 0 \/ found \in Queued
  BY <1>2, <1>4 DEF Staying, Leaving, OrderInv, Registered, QueueInv, Working
<1>6. /\ \A t \in Queued : pos[t] \in 1..s_size
      /\ s_size \in Nat
      /\ \A t \in Tids : s_order_table[t] \in Nat
  BY <1>1, SizeType, DataAssumption
     DEF Ranked, OrderInv, QueueInv, Typed, TablesTyped, Queued, Tids0
<1>7. ASSUME NEW t \in Queued
      PROVE  /\ p[t] < p[c] => s_order_table[t] <= s_order_table[c]
             /\ p[c] < p[t] => s_order_table[c] <= s_order_table[t]
  <2>1. found = 0 \/ pos[t] < pos[found] => s_order_table[t] <= s_order_table[c]
    BY <1>1, <1>4, <1>5 DEF Walked
  <2>2. CASE found = 0 \/ pos[t] < pos[found]
    <3>1. p[t] = pos[t] /\ pos[t] < p[c] /\ p[t] \in Nat /\ p[c] \in Nat
      BY <1>3, <1>5, <1>6, <2>2
    <3>2. ~(p[c] < p[t])
      BY <3>1
    <3>3. QED BY <2>1, <2>2, <3>2
  <2>3. CASE found # 0 /\ ~(pos[t] < pos[found])
    <3>1. p[t] = pos[t] + 1 /\ p[c] < p[t] /\ pos[t] >= pos[found] /\ found \in Queued
      BY <1>3, <1>5, <1>6, <2>3
    <3>2. s_order_table[found] > s_search_order
      BY <1>1, <1>4, <2>3 DEF Walked
    <3>3. pos[found] < pos[t] \/ t = found
      BY <1>1, <1>6, <3>1 DEF Ranked
    <3>4. pos[found] < pos[t] => s_order_table[found] <= s_order_table[t]
      BY <1>1, <1>5, <3>1 DEF InOrder
    <3>5. s_order_table[found] \in Nat /\ s_order_table[t] \in Nat /\ s_order_table[c] \in Nat
      BY <1>2, <1>6, <3>1 DEF OrderInv, QueueInv, Typed, TablesTyped, Queued
    <3>6. s_order_table[c] < s_order_table[t]
      BY <1>5, <3>2, <3>3, <3>4, <3>5
    <3>7. p[t] \in Nat /\ p[c] \in Nat /\ ~(p[t] < p[c])
      BY <1>6, <3>1, <1>3
    <3>8. QED BY <3>5, <3>6, <3>7
  <2>4. QED BY <2>2, <2>3
<1>8. ASSUME NEW t \in Queued, NEW u \in Queued, p[t] < p[u]
      PROVE  s_order_table[t] <= s_order_table[u]
  <2>1. pos[t] < pos[u] \/ t = u
    BY <1>1, <1>3, <1>5, <1>6, <1>8 DEF Ranked
  <2>2. p[t] \in Nat
    BY <1>3, <1>6
  <2>3. QED BY <1>1, <1>5, <1>8, <2>1, <2>2 DEF InOrder
<1>9. ~(p[c] < p[c])
  BY <1>2, <1>3 DEF Tids0
<1>10. InOrder(p)'
  BY <1>4, <1>5, <1>7, <1>8, <1>9 DEF InOrder
<1>11. Walked(p)'
  BY <1>4 DEF Walked
<1>12. QED BY <1>3, <1>10, <1>11, RanksOfNext DEF SortInv

LEMMA SortOfUnlink ==
  ASSUME OrderInv, RemoveUnlink
  PROVE  SortInv'
<1> DEFINE c == s_command_tid
<1>1. PICK pos \in [Tids -> Tids0] : Ranked(pos) /\ InOrder(pos) /\ Walked(pos)
  BY DEF OrderInv, SortInv
<1>2. c \in Queued /\ Queued' = Queued \ {c}
  BY <1>1, UnlinkRanks DEF OrderInv
<1>3. PICK p \in [Tids -> Tids0] :
        /\ RankedNext(p)
        /\ \A t \in Queued' : p[t] = IF pos[t] > pos[c] THEN pos[t] - 1 ELSE pos[t]
  BY <1>1, UnlinkRanks DEF OrderInv
<1>4. s_state' = "exit_ok" /\ UNCHANGED s_order_table
  BY DEF RemoveUnlink, threads
<1>5. Staying' = Queued \ {c} /\ Queued \ {c} \subseteq Staying
  BY <1>2, <1>4 DEF Staying, Leaving
<1>6. \A t \in Queued : pos[t] \in Int
  BY <1>1 DEF OrderInv, QueueInv, Typed, TablesTyped, Queued, Tids0
<1>7. ASSUME NEW t \in Staying', NEW u \in Staying', p[t] < p[u]
      PROVE  s_order_table[t] <= s_order_table[u]
  <2>1. pos[t] # pos[c] /\ pos[u] # pos[c]
    BY <1>1, <1>2, <1>5 DEF Ranked
  <2>2. p[t] = (IF pos[t] > pos[c] THEN pos[t] - 1 ELSE pos[t])
        /\ p[u] = IF pos[u] > pos[c] THEN pos[u] - 1 ELSE pos[u]
    BY <1>2, <1>3, <1>5
  <2>3. pos[t] < pos[u]
    BY <1>2, <1>5, <1>6, <1>7, <2>1, <2>2
  <2>4. QED BY <1>1, <1>5, <2>3 DEF InOrder
<1>8. InOrder(p)'
  BY <1>4, <1>7 DEF InOrder
<1>9. Walked(p)'
  BY <1>4 DEF Walked
<1>10. QED BY <1>3, <1>8, <1>9, RanksOfNext DEF SortInv

LEMMA SortOfClear ==
  ASSUME ClearAll, s_state' \in {"idle", "exit_ok"}
  PROVE  SortInv'
<1>1. EmptyTable \in [Tids -> Tids0] /\ RankedNext(EmptyTable) /\ Queued' = {}
  BY ClearedRanks
<1>2. Ranked(EmptyTable)'
  BY <1>1, RanksOfNext
<1>3. Staying' = {} /\ s_state' # "insert"
  BY <1>1 DEF Staying
<1>4. InOrder(EmptyTable)' /\ Walked(EmptyTable)'
  BY <1>3 DEF InOrder, Walked
<1>5. QED BY <1>1, <1>2, <1>4 DEF SortInv

LEMMA SortStep ==
  ASSUME OrderInv, Next
  PROVE  SortInv'
<1>1. CASE Reset \/ PinReset
  BY <1>1, SortOfClear DEF Reset, PinReset
<1>2. CASE s_state = "remove"
  BY <1>1, <1>2, Entered, SortOfUnlink
<1>3. CASE s_state # "remove" /\ ~Reset /\ ~PinReset
  <2>1. ASSUME NEW obj \in Objects, NEW prio \in Priorities, Create(obj, prio)
        PROVE  SortInv'
    <3>1. /\ s_state = "idle" /\ s_state' \in {"exit_ok", "exit_error"} /\ UNCHANGED queue
          /\ UNCHANGED s_order_table
             \/ (~s_full /\ s_order_table' = [s_order_table EXCEPT ![s_free_tid] = Order(prio)])
      BY <2>1 DEF Create, Accept, threads
    <3>2. Queued' = Queued /\ Staying' \subseteq s_enqueue_bitmap
      BY <3>1 DEF Queued, Linking, Staying, queue
    <3>3. ~s_full => s_free_tid \notin s_enqueue_bitmap
      BY <3>1 DEF OrderInv, FreshInv, Fresh, Registered, Leaving
    <3>4. \A t \in Staying' : s_order_table'[t] = s_order_table[t]
      BY <3>1, <3>2, <3>3 DEF OrderInv, QueueInv, Typed, TablesTyped
    <3>5. QED BY <1>3, <3>1, <3>2, <3>4, SortKept, <2>1 DEF Next, Command
  <2>2. CASE DestroyFree
    <3>1. /\ s_state' = IF s_command_tid \in s_enqueue_bitmap THEN "remove" ELSE "exit_ok"
          /\ s_order_table' = [s_order_table EXCEPT ![s_command_tid] = 0]
          /\ s_tid_bitmap' = s_tid_bitmap \ {s_command_tid}
          /\ UNCHANGED <<s_command_tid, queue>> /\ s_state = "destroy"
      BY <2>2 DEF DestroyFree
    <3>2. Queued' = Queued /\ Staying' \subseteq s_enqueue_bitmap \ {s_command_tid}
      BY <3>1 DEF Queued, Linking, Staying, Leaving, queue
    <3>3. \A t \in Staying' : s_order_table'[t] = s_order_table[t]
      BY <3>1, <3>2 DEF OrderInv, QueueInv, Typed, TablesTyped
    <3>4. QED BY <1>3, <3>1, <3>2, <3>3, SortKept
  <2>3. CASE UNCHANGED <<threads, queue, Linking>>
    <3>1. Queued' = Queued /\ UNCHANGED <<queue, s_order_table>>
      BY <2>3 DEF Queued, threads, queue
    <3>2. QED BY <1>3, <3>1, SortKept
  <2>4. ~RemoveUnlink
    BY <1>3 DEF RemoveUnlink
  <2>5. QED BY <1>3, <2>1, <2>2, <2>3, <2>4, TableSteps, SortOfInsert, SortOfLink
<1>4. QED BY <1>1, <1>2, <1>3

LEMMA OrderInit == Init => OrderInv
<1> SUFFICES ASSUME Init PROVE OrderInv
  OBVIOUS
<1>1. Queued = {} /\ Staying = {} /\ s_state = "idle"
  BY DEF Init, Queued, Staying
<1>2. Ranked(EmptyTable) /\ InOrder(EmptyTable) /\ Walked(EmptyTable)
  BY <1>1 DEF Init, Ranked, EmptyTable, InOrder, Walked
<1>3. SortInv
  BY <1>2, EmptyTableType DEF SortInv
<1>4. Registered
  BY DEF Init, Registered
<1>5. QED BY <1>3, <1>4, QueueInit, FreshInit DEF OrderInv

LEMMA OrderStep ==
  ASSUME Civil, OrderInv, [Next]_vars
  PROVE  OrderInv'
<1>1. CASE Next
  BY <1>1, QueueStep, FreshStep, RegisteredStep, SortStep DEF OrderInv
<1>2. CASE UNCHANGED vars
  <2>1. UNCHANGED <<machine, threads, queue, searchRequest, processOutputs>>
    BY <1>2 DEF vars
  <2>2. UNCHANGED <<Queued, Staying, Leaving>>
    BY <2>1 DEF Queued, Linking, Staying, Leaving, machine, threads, queue
  <2>3. Registered'
    BY <2>1, <2>2 DEF OrderInv, Registered, machine, threads, queue, searchRequest
  <2>4. PICK pos \in [Tids -> Tids0] : Ranked(pos) /\ InOrder(pos) /\ Walked(pos)
    BY DEF OrderInv, SortInv
  <2>5. Ranked(pos)'
    BY <2>1, <2>2, <2>4 DEF Ranked, queue
  <2>6. InOrder(pos)'
    BY <2>1, <2>2, <2>4 DEF InOrder, threads
  <2>7. Walked(pos)'
    BY <2>1, <2>2, <2>4 DEF Walked, machine, threads, searchRequest, processOutputs
  <2>8. QED BY <1>2, <2>3, <2>5, <2>6, <2>7, QueueStep, FreshStep DEF OrderInv, SortInv
<1>3. QED BY <1>1, <1>2

LEMMA OrderInvariant ==
  ASSUME Civil
  PROVE  Spec => []OrderInv
  BY OrderInit, OrderStep, PTL DEF Spec

\* For a client that inserts what it created, with priorities that fit, the chain is in
\* the order of the priorities between the commands and inside them, so that s_head_tid
\* is the thread to run next, whatever is destroyed or reset in the meantime.
THEOREM SortedQueue ==
  ASSUME Civil
  PROVE  Spec => []QueueSorted
<1>1. OrderInv => QueueSorted
  BY DEF OrderInv, SortInv, QueueSorted
<1>2. QED BY <1>1, OrderInvariant, PTL

\* For such a client, the place an INSERT links its thread at was found by its own walk
\* over the present queue: no result of an earlier search is ever taken.
THEOREM FreshSearch ==
  ASSUME Civil
  PROVE  Spec => []SearchFresh
<1>1. OrderInv => SearchFresh
  <2> SUFFICES ASSUME OrderInv, s_state = "insert", s_search_done
               PROVE  \E pos \in [Tids -> Tids0] :
                        /\ Ranked(pos)
                        /\ \A t \in Queued : IF s_found_tid # 0 /\ pos[t] >= pos[s_found_tid]
                                             THEN s_order_table[t] > s_search_order
                                             ELSE s_order_table[t] <= s_search_order
    BY DEF SearchFresh
  <2>1. PICK pos \in [Tids -> Tids0] : Ranked(pos) /\ InOrder(pos) /\ Walked(pos)
    BY DEF OrderInv, SortInv
  <2>2. s_found_tid = 0 \/ s_found_tid \in Queued
    BY DEF OrderInv, QueueInv, Working
  <2>3. \A t \in Queued : pos[t] \in Nat /\ s_order_table[t] \in Nat
    BY <2>1, DataAssumption DEF OrderInv, QueueInv, Typed, TablesTyped, Queued, Tids0
  <2>4. s_search_order \in Nat /\ Staying = Queued
    BY DEF OrderInv, QueueInv, Typed, MachineTyped, Staying, Leaving
  <2>5. ASSUME NEW t \in Queued, s_found_tid # 0, pos[t] >= pos[s_found_tid]
        PROVE  s_order_table[t] > s_search_order
    <3>1. s_order_table[s_found_tid] > s_search_order
      BY <2>1, <2>5 DEF Walked
    <3>2. pos[s_found_tid] < pos[t] \/ t = s_found_tid
      BY <2>1, <2>2, <2>3, <2>5 DEF Ranked
    <3>3. pos[s_found_tid] < pos[t] => s_order_table[s_found_tid] <= s_order_table[t]
      BY <2>1, <2>2, <2>4, <2>5 DEF InOrder
    <3>4. QED BY <2>2, <2>3, <2>4, <2>5, <3>1, <3>2, <3>3
  <2>6. ASSUME NEW t \in Queued, ~(s_found_tid # 0 /\ pos[t] >= pos[s_found_tid])
        PROVE  s_order_table[t] <= s_search_order
    BY <2>1, <2>2, <2>3, <2>6 DEF Walked
  <2>7. QED BY <2>1, <2>5, <2>6
<1>2. QED BY <1>1, OrderInvariant, PTL
=============================================================================
