--------------------------- MODULE SchedulerProofs ---------------------------
(***************************************************************************)
(* Theorems about Scheduler: the allocation of identifiers, the structure   *)
(* of the ready queue, and the types of the registers, which depend on it.  *)
(***************************************************************************)
EXTENDS SchedulerTypes

-----------------------------------------------------------------------------
(***************************************************************************)
(* The doubly linked list that the block keeps in its tables, as data: what *)
(* its insertions and its removal do to a well-formed chain.                *)
(***************************************************************************)
\* The threads in Q are linked in the order of pos, from head to tail.
Chain(Q, pos, next, prev, head, tail, size) ==
  /\ \A t \in Tids : IF t \in Q THEN pos[t] \in 1..size
                      ELSE pos[t] = 0 /\ next[t] = 0 /\ prev[t] = 0
  /\ \A t, u \in Q : pos[t] = pos[u] => t = u
  /\ head = 0 <=> Q = {}
  /\ tail = 0 <=> Q = {}
  /\ size = 0 <=> Q = {}
  /\ Q # {} => /\ head \in Q /\ pos[head] = 1
               /\ tail \in Q /\ pos[tail] = size
  /\ \A t \in Q :
       /\ IF pos[t] = size THEN next[t] = 0
          ELSE next[t] \in Q /\ pos[next[t]] = pos[t] + 1
       /\ IF pos[t] = 1 THEN prev[t] = 0
          ELSE prev[t] \in Q /\ pos[prev[t]] = pos[t] - 1

\* An empty chain, and the chain of one thread.
LEMMA ChainEmpty ==
  Chain({}, [t \in Tids |-> 0], [t \in Tids |-> 0], [t \in Tids |-> 0], 0, 0, 0)
  BY SizeAssumption DEF Chain

LEMMA ChainSingle ==
  ASSUME NEW next, NEW prev, NEW pos, NEW head, NEW tail, NEW size,
         Chain({}, pos, next, prev, head, tail, size),
         pos \in [Tids -> Tids0],
         NEW c \in Tids
  PROVE  Chain({c}, [pos EXCEPT ![c] = 1], next, prev, c, c, size + 1)
  BY SizeAssumption DEF Chain, Tids, Tids0

\* A new last thread.
LEMMA ChainAppend ==
  ASSUME NEW Q \in SUBSET Tids, Q # {},
         NEW pos \in [Tids -> Tids0], NEW size \in Nat,
         NEW next \in [Tids -> Tids0], NEW prev \in [Tids -> Tids0],
         NEW head \in Tids0, NEW tail \in Tids0,
         Chain(Q, pos, next, prev, head, tail, size),
         NEW c \in Tids \ Q
  PROVE  Chain(Q \cup {c}, [pos EXCEPT ![c] = size + 1],
               [next EXCEPT ![tail] = c, ![c] = 0], [prev EXCEPT ![c] = tail],
               head, c, size + 1)
<1> DEFINE R  == Q \cup {c}
           p  == [pos EXCEPT ![c] = size + 1]
           nx == [next EXCEPT ![tail] = c, ![c] = 0]
           pv == [prev EXCEPT ![c] = tail]
<1>1. tail \in Q /\ tail # c /\ pos[tail] = size /\ head \in Q /\ pos[head] = 1
      /\ head # c /\ size # 0 /\ c # 0
  BY DEF Chain, Tids
<1>2. \A t \in Q : t # c /\ p[t] = pos[t] /\ pos[t] \in 1..size /\ pv[t] = prev[t]
                   /\ nx[t] = IF t = tail THEN c ELSE next[t]
  BY DEF Chain
<1>3. p[c] = size + 1 /\ pv[c] = tail /\ nx[c] = 0
  OBVIOUS
<1>4. \A t \in Tids : IF t \in R THEN p[t] \in 1..(size + 1)
                       ELSE p[t] = 0 /\ nx[t] = 0 /\ pv[t] = 0
  BY <1>1, <1>2, <1>3 DEF Chain
<1>5. \A t, u \in R : p[t] = p[u] => t = u
  BY <1>2, <1>3 DEF Chain
<1>6. \A t \in R : IF p[t] = size + 1 THEN nx[t] = 0
                   ELSE nx[t] \in R /\ p[nx[t]] = p[t] + 1
  <2>1. ASSUME NEW t \in Q, t # tail
        PROVE  nx[t] \in Q /\ pos[nx[t]] = pos[t] + 1 /\ p[t] # size + 1
    BY <1>1, <1>2, <2>1 DEF Chain
  <2>2. QED BY <1>1, <1>2, <1>3, <2>1
<1>7. \A t \in R : IF p[t] = 1 THEN pv[t] = 0
                   ELSE pv[t] \in R /\ p[pv[t]] = p[t] - 1
  <2>1. ASSUME NEW t \in Q
        PROVE  IF p[t] = 1 THEN pv[t] = 0
               ELSE pv[t] \in Q /\ pos[pv[t]] = p[t] - 1
    BY <1>2 DEF Chain
  <2>2. QED BY <1>1, <1>2, <1>3, <2>1
<1>8. QED BY <1>1, <1>2, <1>3, <1>4, <1>5, <1>6, <1>7 DEF Chain

\* A new thread in front of one of the chain.
LEMMA ChainBefore ==
  ASSUME NEW Q \in SUBSET Tids,
         NEW pos \in [Tids -> Tids0], NEW size \in Nat,
         NEW next \in [Tids -> Tids0], NEW prev \in [Tids -> Tids0],
         NEW head \in Tids0, NEW tail \in Tids0,
         Chain(Q, pos, next, prev, head, tail, size),
         NEW c \in Tids \ Q, NEW found \in Q,
         NEW before, NEW p, NEW nx, NEW pv, NEW h,
         before = prev[found],
         \A t \in Tids : p[t] = IF t = c THEN pos[found]
                                ELSE IF t \in Q /\ pos[t] >= pos[found] THEN pos[t] + 1
                                ELSE pos[t],
         nx = IF before = 0 THEN [next EXCEPT ![c] = found]
              ELSE [next EXCEPT ![c] = found, ![before] = c],
         pv = [prev EXCEPT ![c] = before, ![found] = c],
         h = IF before = 0 THEN c ELSE head
  PROVE  Chain(Q \cup {c}, p, nx, pv, h, tail, size + 1)
<1> DEFINE first == before = 0
           R == Q \cup {c}
<1>1. found # c /\ pos[found] \in 1..size /\ found # 0 /\ c # 0 /\ c \notin Q
      /\ Q # {} /\ size # 0 /\ head \in Q /\ tail \in Q /\ tail # 0
      /\ pos[head] = 1 /\ pos[tail] = size /\ head # 0
  BY DEF Chain, Tids
<1>2. IF pos[found] = 1 THEN first
      ELSE before \in Q /\ pos[before] = pos[found] - 1 /\ ~first /\ before # c /\ before # found
  BY <1>1 DEF Chain, Tids
<1>3. \A t \in Q : pos[t] \in 1..size /\ t # c /\ t \in Tids
  BY DEF Chain
<1>4. \A t \in Q : p[t] = IF pos[t] >= pos[found] THEN pos[t] + 1 ELSE pos[t]
  BY <1>3
<1>5. p[c] = pos[found] /\ nx[c] = found /\ pv[c] = before
  BY <1>1, <1>2
<1>6. \A t \in Q : /\ nx[t] = IF ~first /\ t = before THEN c ELSE next[t]
                   /\ pv[t] = IF t = found THEN c ELSE prev[t]
  BY <1>1, <1>2, <1>3
<1>7. \A t, u \in Q : pos[t] = pos[u] => t = u
  BY DEF Chain
<1>8. \A t \in Tids : IF t \in R THEN p[t] \in 1..(size + 1)
                      ELSE p[t] = 0 /\ nx[t] = 0 /\ pv[t] = 0
  <2>1. \A t \in R : p[t] \in 1..(size + 1)
    BY <1>1, <1>3, <1>4, <1>5
  <2>2. ASSUME NEW t \in Tids, t \notin R
        PROVE  p[t] = 0 /\ nx[t] = 0 /\ pv[t] = 0
    <3>1. pos[t] = 0 /\ next[t] = 0 /\ prev[t] = 0 /\ t # c /\ t # found /\ (~first => t # before)
      BY <1>1, <1>2, <2>2 DEF Chain
    <3>2. QED BY <2>2, <3>1
  <2>3. QED BY <2>1, <2>2
<1>9. \A t, u \in R : p[t] = p[u] => t = u
  BY <1>1, <1>3, <1>4, <1>5, <1>7
<1>10. \A t \in R : IF p[t] = size + 1 THEN nx[t] = 0
                    ELSE nx[t] \in R /\ p[nx[t]] = p[t] + 1
  <2>1. p[c] # size + 1 /\ nx[c] \in R /\ p[nx[c]] = p[c] + 1
    BY <1>1, <1>4, <1>5
  <2>2. ASSUME NEW t \in Q, ~first, t = before
        PROVE  p[t] # size + 1 /\ nx[t] \in R /\ p[nx[t]] = p[t] + 1
    BY <1>1, <1>2, <1>4, <1>5, <1>6, <2>2
  <2>3. ASSUME NEW t \in Q, first \/ t # before
        PROVE  IF p[t] = size + 1 THEN nx[t] = 0
               ELSE nx[t] \in R /\ p[nx[t]] = p[t] + 1
    <3>1. nx[t] = next[t]
      BY <1>6, <2>3
    <3>2. IF pos[t] = size THEN next[t] = 0 ELSE next[t] \in Q /\ pos[next[t]] = pos[t] + 1
      BY DEF Chain
    <3>3. pos[t] # pos[found] - 1
      BY <1>1, <1>2, <1>3, <1>7, <2>3
    <3>4. QED BY <1>1, <1>3, <1>4, <3>1, <3>2, <3>3
  <2>4. QED BY <2>1, <2>2, <2>3
<1>11. \A t \in R : IF p[t] = 1 THEN pv[t] = 0
                    ELSE pv[t] \in R /\ p[pv[t]] = p[t] - 1
  <2>1. IF p[c] = 1 THEN pv[c] = 0 ELSE pv[c] \in R /\ p[pv[c]] = p[c] - 1
    BY <1>1, <1>2, <1>3, <1>4, <1>5
  <2>2. p[found] # 1 /\ pv[found] \in R /\ p[pv[found]] = p[found] - 1
    BY <1>1, <1>3, <1>4, <1>5, <1>6
  <2>3. ASSUME NEW t \in Q, t # found
        PROVE  IF p[t] = 1 THEN pv[t] = 0
               ELSE pv[t] \in R /\ p[pv[t]] = p[t] - 1
    <3>1. pv[t] = prev[t]
      BY <1>6, <2>3
    <3>2. IF pos[t] = 1 THEN prev[t] = 0 ELSE prev[t] \in Q /\ pos[prev[t]] = pos[t] - 1
      BY DEF Chain
    <3>3. pos[t] # pos[found]
      BY <1>7, <2>3
    <3>4. QED BY <1>1, <1>3, <1>4, <3>1, <3>2, <3>3
  <2>4. QED BY <2>1, <2>2, <2>3
<1>12. h \in R /\ p[h] = 1 /\ tail \in R /\ p[tail] = size + 1
  BY <1>1, <1>2, <1>3, <1>4, <1>5
<1>13. h # 0 /\ size + 1 # 0 /\ R # {}
  BY <1>1
<1>14. QED BY <1>1, <1>8, <1>9, <1>10, <1>11, <1>12, <1>13 DEF Chain

\* How the links and the positions change when c leaves the chain.
Unlinked(Q, pos, next, prev, head, tail, c, p, nx, pv, h, tl) ==
  /\ \A t \in Tids : p[t] = IF t = c THEN 0
                            ELSE IF t \in Q /\ pos[t] > pos[c] THEN pos[t] - 1
                            ELSE pos[t]
  /\ \A t \in Tids : nx[t] = IF t = c THEN 0 ELSE IF t = prev[c] THEN next[c] ELSE next[t]
  /\ \A t \in Tids : pv[t] = IF t = c THEN 0 ELSE IF t = next[c] THEN prev[c] ELSE prev[t]
  /\ h = IF prev[c] = 0 THEN next[c] ELSE head
  /\ tl = IF next[c] = 0 THEN prev[c] ELSE tail

\* A thread of the chain is taken out.
LEMMA ChainUnlink ==
  ASSUME NEW Q \in SUBSET Tids,
         NEW pos \in [Tids -> Tids0], NEW size \in Nat,
         NEW next \in [Tids -> Tids0], NEW prev \in [Tids -> Tids0],
         NEW head \in Tids0, NEW tail \in Tids0,
         Chain(Q, pos, next, prev, head, tail, size),
         NEW c \in Q,
         NEW p, NEW nx, NEW pv, NEW h, NEW tl,
         Unlinked(Q, pos, next, prev, head, tail, c, p, nx, pv, h, tl)
  PROVE  Chain(Q \ {c}, p, nx, pv, h, tl, size - 1)
<1> USE DEF Unlinked
<1> DEFINE R == Q \ {c}
           before == prev[c]
           after == next[c]
<1>1. \A t \in Q : pos[t] \in 1..size /\ t \in Tids /\ t # 0
  BY DEF Chain, Tids
<1>2. \A t, u \in Q : pos[t] = pos[u] => t = u
  BY DEF Chain
<1>3. \A t \in Q : /\ IF pos[t] = size THEN next[t] = 0
                      ELSE next[t] \in Q /\ pos[next[t]] = pos[t] + 1
                   /\ IF pos[t] = 1 THEN prev[t] = 0
                      ELSE prev[t] \in Q /\ pos[prev[t]] = pos[t] - 1
  BY DEF Chain
<1>4. size # 0 /\ head \in Q /\ tail \in Q /\ pos[head] = 1 /\ pos[tail] = size
  BY DEF Chain
<1>5. /\ IF pos[c] = 1 THEN before = 0
         ELSE before \in R /\ pos[before] = pos[c] - 1 /\ before # 0
      /\ IF pos[c] = size THEN after = 0
         ELSE after \in R /\ pos[after] = pos[c] + 1 /\ after # 0
  BY <1>1, <1>3
<1>6. \A t \in R : /\ p[t] = IF pos[t] > pos[c] THEN pos[t] - 1 ELSE pos[t]
                   /\ nx[t] = IF t = before THEN after ELSE next[t]
                   /\ pv[t] = IF t = after THEN before ELSE prev[t]
                   /\ pos[t] # pos[c]
  BY <1>1, <1>2
<1>7. \A t \in Tids : IF t \in R THEN p[t] \in 1..(size - 1)
                      ELSE p[t] = 0 /\ nx[t] = 0 /\ pv[t] = 0
  <2>1. ASSUME NEW t \in R
        PROVE  p[t] \in 1..(size - 1)
    <3>1. pos[t] \in 1..size /\ pos[c] \in 1..size /\ pos[t] # pos[c]
      BY <1>1, <1>6
    <3>2. p[t] = IF pos[t] > pos[c] THEN pos[t] - 1 ELSE pos[t]
      BY <1>6
    <3>3. QED BY <3>1, <3>2
  <2>2. ASSUME NEW t \in Tids, t \notin Q
        PROVE  p[t] = 0 /\ nx[t] = 0 /\ pv[t] = 0
    <3>1. pos[t] = 0 /\ next[t] = 0 /\ prev[t] = 0 /\ t # c /\ t # 0
      BY <2>2 DEF Chain, Tids
    <3>2. t # before /\ t # after
      BY <1>5, <2>2, <3>1
    <3>3. QED BY <2>2, <3>1, <3>2
  <2>3. p[c] = 0 /\ nx[c] = 0 /\ pv[c] = 0
    BY <1>1
  <2>4. QED BY <2>1, <2>2, <2>3
<1>8. \A t, u \in R : p[t] = p[u] => t = u
  BY <1>1, <1>2, <1>6
<1>9. \A t \in R : IF p[t] = size - 1 THEN nx[t] = 0
                   ELSE nx[t] \in R /\ p[nx[t]] = p[t] + 1
  <2>1. ASSUME NEW t \in R, t = before
        PROVE  IF p[t] = size - 1 THEN nx[t] = 0
               ELSE nx[t] \in R /\ p[nx[t]] = p[t] + 1
    BY <1>1, <1>5, <1>6, <2>1
  <2>2. ASSUME NEW t \in R, t # before
        PROVE  IF p[t] = size - 1 THEN nx[t] = 0
               ELSE nx[t] \in R /\ p[nx[t]] = p[t] + 1
    <3>1. nx[t] = next[t] /\ pos[t] # pos[c] - 1 /\ pos[t] # pos[c]
          /\ pos[t] \in 1..size /\ pos[c] \in 1..size
      BY <1>1, <1>2, <1>5, <1>6, <2>2
    <3>2. p[t] = IF pos[t] > pos[c] THEN pos[t] - 1 ELSE pos[t]
      BY <1>6
    <3>3. CASE pos[t] = size
      <4>1. next[t] = 0 /\ p[t] = size - 1
        BY <1>3, <3>1, <3>2, <3>3
      <4>2. QED BY <3>1, <4>1
    <3>4. CASE pos[t] # size
      <4>1. next[t] \in R /\ pos[next[t]] = pos[t] + 1
        BY <1>3, <3>1, <3>4
      <4>2. p[next[t]] = IF pos[t] + 1 > pos[c] THEN pos[t] ELSE pos[t] + 1
        BY <1>6, <3>1, <4>1
      <4>3. p[t] # size - 1 /\ p[next[t]] = p[t] + 1
        BY <3>1, <3>2, <3>4, <4>2
      <4>4. QED BY <3>1, <4>1, <4>3
    <3>5. QED BY <3>3, <3>4
  <2>3. QED BY <2>1, <2>2
<1>10. \A t \in R : IF p[t] = 1 THEN pv[t] = 0
                    ELSE pv[t] \in R /\ p[pv[t]] = p[t] - 1
  <2>1. ASSUME NEW t \in R, t = after
        PROVE  IF p[t] = 1 THEN pv[t] = 0
               ELSE pv[t] \in R /\ p[pv[t]] = p[t] - 1
    BY <1>1, <1>5, <1>6, <2>1
  <2>2. ASSUME NEW t \in R, t # after
        PROVE  IF p[t] = 1 THEN pv[t] = 0
               ELSE pv[t] \in R /\ p[pv[t]] = p[t] - 1
    <3>1. pv[t] = prev[t] /\ pos[t] # pos[c] + 1
      BY <1>1, <1>2, <1>5, <1>6, <2>2
    <3>2. QED BY <1>1, <1>3, <1>6, <3>1
  <2>3. QED BY <2>1, <2>2
<1>11. CASE R = {}
  <2>1. head = c /\ tail = c
    BY <1>4, <1>11
  <2>2. h = 0 /\ tl = 0 /\ size - 1 = 0
    BY <1>4, <1>5, <1>11, <2>1
  <2>3. QED BY <1>7, <1>8, <1>9, <1>10, <1>11, <2>2 DEF Chain
<1>12. CASE R # {}
  <2>1. size - 1 # 0
    BY <1>7, <1>12
  <2>2. h \in R /\ p[h] = 1
    <3>1. CASE pos[c] = 1
      <4>1. pos[c] # size /\ before = 0
        BY <1>4, <1>5, <2>1, <3>1
      <4>2. after \in R /\ pos[after] = 2 /\ h = after
        BY <1>5, <3>1, <4>1
      <4>3. QED BY <1>6, <3>1, <4>2
    <3>2. CASE pos[c] # 1
      <4>1. head \in R /\ h = head /\ pos[c] \in 1..size
        BY <1>1, <1>4, <1>5, <3>2
      <4>2. QED BY <1>4, <1>6, <4>1
    <3>3. QED BY <3>1, <3>2
  <2>3. tl \in R /\ p[tl] = size - 1
    <3>1. CASE pos[c] = size
      <4>1. pos[c] # 1 /\ after = 0
        BY <1>4, <1>5, <2>1, <3>1
      <4>2. before \in R /\ pos[before] = size - 1 /\ tl = before
        BY <1>5, <3>1, <4>1
      <4>3. QED BY <1>6, <3>1, <4>2
    <3>2. CASE pos[c] # size
      <4>1. tail \in R /\ tl = tail /\ pos[c] \in 1..size
        BY <1>1, <1>4, <1>5, <3>2
      <4>2. size > pos[c]
        BY <3>2, <4>1
      <4>3. QED BY <1>4, <1>6, <4>1, <4>2
    <3>3. QED BY <3>1, <3>2
  <2>4. h # 0 /\ tl # 0
    BY <1>1, <2>2, <2>3
  <2>5. QED BY <1>7, <1>8, <1>9, <1>10, <1>12, <2>1, <2>2, <2>3, <2>4 DEF Chain
<1>13. QED BY <1>11, <1>12

-----------------------------------------------------------------------------
(***************************************************************************)
(* The allocation of identifiers.                                           *)
(***************************************************************************)
Fresh == /\ s_full <=> s_tid_bitmap = Tids
         /\ s_full \/ s_free_tid \notin s_tid_bitmap

\* The bitmap changes only on the way to one of these two states, and one edge
\* there is enough for SearchFreeTID.
FreshInv == /\ s_tid_bitmap \subseteq Tids /\ s_free_tid \in Tids
            /\ (s_state \in {"exit_ok", "remove"} \/ Fresh)

LEMMA CatchUp ==
  ASSUME FreshInv, SearchFreeTID, UNCHANGED s_tid_bitmap
  PROVE  FreshInv'
<1>1. s_free_tid' \in Tids
  BY DEF SearchFreeTID, FreshInv
<1>2. Fresh'
  BY DEF SearchFreeTID, Fresh, FreshInv
<1>3. QED BY <1>1, <1>2 DEF FreshInv

LEMMA FreshInit == Init => FreshInv
  BY SizeAssumption DEF Init, FreshInv, Fresh, Tids

LEMMA FreshStep ==
  ASSUME FreshInv, [Next]_vars
  PROVE  FreshInv'
<1>1. CASE UNCHANGED vars
  BY <1>1 DEF vars, machine, threads, processOutputs, FreshInv, Fresh
<1>2. ASSUME OtherProcesses, UNCHANGED s_tid_bitmap
      PROVE  FreshInv'
  BY <1>2, CatchUp DEF OtherProcesses
<1>3. ASSUME OtherProcesses, s_tid_bitmap' \subseteq Tids, s_state' \in {"exit_ok", "remove"}
      PROVE  FreshInv'
  BY <1>3 DEF OtherProcesses, SearchFreeTID, FreshInv
<1>4. ASSUME NEW obj \in Objects, NEW prio \in Priorities, Create(obj, prio)
      PROVE  FreshInv'
  <2>1. OtherProcesses BY <1>4 DEF Create
  <2>2. CASE s_full
    BY <1>2, <1>4, <2>1, <2>2 DEF Create, threads
  <2>3. CASE ~s_full
    BY <1>3, <1>4, <2>1, <2>3 DEF Create, FreshInv
  <2>4. QED BY <2>2, <2>3
<1>5. ASSUME NEW tid \in Tids, NEW prio \in Priorities, Insert(tid, prio)
      PROVE  FreshInv'
  BY <1>2, <1>5 DEF Insert
<1>6. CASE Reset
  BY <1>3, <1>6 DEF Reset, ClearAll, ClearQueue
<1>7. CASE PinReset
  BY <1>7, SizeAssumption DEF PinReset, ClearAll, ClearQueue, FreshInv, Fresh, Tids
<1>8. CASE DestroyFree
  BY <1>3, <1>8 DEF DestroyFree, FreshInv
<1>9. CASE InsertLink \/ RemoveUnlink
  BY <1>2, <1>9 DEF InsertLink, RemoveUnlink, threads
<1>10. CASE Next /\ UNCHANGED <<threads, queue, Linking>>
  BY <1>2, <1>7, <1>10, OthersStep DEF threads
<1>11. QED
  BY <1>1, <1>4, <1>5, <1>6, <1>7, <1>8, <1>9, <1>10, TableSteps DEF Insertable

\* No CREATE takes an identifier that is in use, nor reports a full table wrongly,
\* although SearchFreeTID trails the bitmap by an edge.
THEOREM FreshAllocation == Spec => []AllocationFresh
<1>1. FreshInv => AllocationFresh
  BY DEF FreshInv, Fresh, AllocationFresh
<1>2. QED BY <1>1, FreshInit, FreshStep, PTL DEF Spec

-----------------------------------------------------------------------------
(***************************************************************************)
(* The structure of the ready queue.                                        *)
(***************************************************************************)
Counted == s_size = Cardinality(Queued)

\* What an insertion or a removal relies on between its edges.
Working ==
  /\ s_state \in {"preinsert", "insert"} => s_command_tid \in s_enqueue_bitmap /\ s_head_tid # 0
  /\ s_state = "preinsert" => s_search_reset
  /\ s_state = "insert" => /\ ~s_search_reset
                           /\ s_found_tid \in Queued \/ (s_search_done /\ s_found_tid = 0)
  /\ s_state = "remove" => s_command_tid \in s_enqueue_bitmap

QueueInv == Typed /\ Counted /\ QueueWellFormed /\ Working

LEMMA QueuedType ==
  ASSUME Typed
  PROVE  Queued \in SUBSET Tids /\ IsFiniteSet(Queued) /\ IsFiniteSet(Tids)
         /\ Cardinality(Tids) = MaxThreads
<1>1. IsFiniteSet(Tids) /\ Cardinality(Tids) = MaxThreads
  BY SizeAssumption, FS_Interval DEF Tids
<1>2. Queued \in SUBSET Tids
  BY DEF Queued, Typed, TablesTyped
<1>3. QED BY <1>1, <1>2, FS_Subset

LEMMA SizeType ==
  ASSUME Typed, Counted
  PROVE  s_size \in Tids0
<1>1. s_size \in Nat /\ s_size <= MaxThreads
  BY QueuedType, FS_Subset, FS_CardinalityType DEF Counted
<1>2. QED BY <1>1, SizeAssumption DEF Tids0

\* There is room for a thread that is not queued, and the count keeps up.
LEMMA OneMore ==
  ASSUME Typed, Counted, NEW c \in Tids \ Queued
  PROVE  s_size + 1 <= MaxThreads /\ Cardinality(Queued \cup {c}) = s_size + 1
<1>1. Cardinality(Queued \cup {c}) = s_size + 1
  BY QueuedType, FS_AddElement DEF Counted
<1>2. Queued \cup {c} \in SUBSET Tids
  BY QueuedType
<1>3. Cardinality(Queued \cup {c}) <= MaxThreads
  BY <1>2, QueuedType, FS_Subset
<1>4. QED BY <1>1, <1>3

LEMMA OneLess ==
  ASSUME Typed, Counted, NEW c \in Queued
  PROVE  Cardinality(Queued \ {c}) = s_size - 1
  BY QueuedType, FS_RemoveElement DEF Counted

LEMMA ChainOfQueue ==
  ASSUME NEW pos \in [Tids -> Tids0], Ranked(pos)
  PROVE  Chain(Queued, pos, s_next_table, s_prev_table, s_head_tid, s_tail_tid, s_size)
  BY DEF Ranked, Chain

\* The numbering pos is right after the step.
RankedNext(pos) ==
  Chain(Queued', pos, s_next_table', s_prev_table', s_head_tid', s_tail_tid', s_size')

LEMMA QueueOfChain ==
  ASSUME NEW pos \in [Tids -> Tids0], RankedNext(pos)
  PROVE  QueueWellFormed'
  BY DEF QueueWellFormed, Ranked, RankedNext, Chain

LEMMA QueueUnchanged ==
  ASSUME Counted, QueueWellFormed, UNCHANGED <<queue, Queued>>
  PROVE  Counted' /\ QueueWellFormed'
<1>1. PICK pos \in [Tids -> Tids0] : Ranked(pos)
  BY DEF QueueWellFormed
<1>2. QueueWellFormed'
  BY <1>1, ChainOfQueue, QueueOfChain DEF queue, RankedNext
<1>3. QED BY <1>2 DEF Counted, queue

\* An INSERT into the empty queue makes its thread the first and only one; any other
\* leaves the chain to the end of its search.
LEMMA InsertRanks ==
  ASSUME QueueInv, NEW tid \in Insertable, NEW prio \in Priorities, Insert(tid, prio),
         NEW pos \in [Tids -> Tids0], Ranked(pos)
  PROVE  /\ Counted'
         /\ \E p \in [Tids -> Tids0] :
              /\ RankedNext(p)
              /\ s_head_tid = 0 => Queued = {} /\ Queued' = {tid}
              /\ s_head_tid # 0 => p = pos /\ Queued' = Queued
<1> USE DEF QueueInv
<1>1. tid \in Tids /\ tid \notin s_enqueue_bitmap /\ Queued = s_enqueue_bitmap
  BY DEF Insertable, Insert, Accept, Queued, Linking
<1>2. UNCHANGED <<s_prev_table, s_next_table>>
  BY DEF Insert
<1>3. Chain(Queued, pos, s_next_table, s_prev_table, s_head_tid, s_tail_tid, s_size)
  BY ChainOfQueue
<1>4. CASE s_head_tid = 0
  <2>1. Queued = {}
    BY <1>3, <1>4 DEF Chain
  <2>2. Queued' = {tid}
    BY <1>1, <1>4, <2>1 DEF Insert, Queued, Linking
  <2>3. [pos EXCEPT ![tid] = 1] \in [Tids -> Tids0]
    <3>1. 1 \in Tids0
      BY SizeAssumption DEF Tids0
    <3>2. QED BY <3>1
  <2>4. s_head_tid' = tid /\ s_tail_tid' = tid /\ s_size' = s_size + 1
    BY <1>4 DEF Insert
  <2>5. RankedNext([pos EXCEPT ![tid] = 1])
    BY <1>1, <1>2, <1>3, <2>1, <2>2, <2>4, ChainSingle DEF RankedNext
  <2>6. Counted'
    BY <1>1, <2>1, <2>2, <2>4, OneMore DEF Counted
  <2>7. QED BY <1>4, <2>1, <2>2, <2>3, <2>5, <2>6
<1>5. CASE s_head_tid # 0
  <2>1. Queued' = Queued
    BY <1>1, <1>5 DEF Insert, Queued, Linking
  <2>2. UNCHANGED <<s_head_tid, s_tail_tid, s_size>>
    BY <1>5 DEF Insert
  <2>3. RankedNext(pos)
    BY <1>2, <1>3, <2>1, <2>2 DEF RankedNext
  <2>4. QED BY <1>5, <2>1, <2>2, <2>3 DEF Counted
<1>6. QED BY <1>4, <1>5

\* The new thread takes the place of the one the search has found, which moves up with
\* those behind it; if it has found none, the new thread is the last.
LEMMA LinkRanks ==
  ASSUME QueueInv, InsertLink, NEW pos \in [Tids -> Tids0], Ranked(pos)
  PROVE  /\ Counted'
         /\ s_command_tid \in Tids \ Queued /\ Queued' = Queued \cup {s_command_tid}
         /\ \E p \in [Tids -> Tids0] :
              /\ RankedNext(p)
              /\ p[s_command_tid] = IF s_found_tid = 0 THEN s_size + 1 ELSE pos[s_found_tid]
              /\ \A t \in Queued :
                   p[t] = IF s_found_tid # 0 /\ pos[t] >= pos[s_found_tid] THEN pos[t] + 1
                          ELSE pos[t]
<1> USE DEF QueueInv
<1> DEFINE c == s_command_tid
<1>1. /\ s_state = "insert" /\ s_search_done
      /\ UNCHANGED <<s_command_tid, s_enqueue_bitmap>> /\ s_state' = "exit_ok"
      /\ s_size' = s_size + 1
  BY DEF InsertLink
<1>2. c \in Tids \ Queued /\ c \in s_enqueue_bitmap
  BY <1>1 DEF Typed, Addressed, Working, Queued, Linking
<1>3. Queued' = Queued \cup {c}
  BY <1>1, <1>2 DEF Queued, Linking
<1>4. Counted' /\ s_size + 1 <= MaxThreads /\ s_size \in Tids0 /\ s_size \in Nat
  BY <1>1, <1>2, <1>3, OneMore, SizeType DEF Counted, Tids0
<1>5. Chain(Queued, pos, s_next_table, s_prev_table, s_head_tid, s_tail_tid, s_size)
  BY ChainOfQueue
<1>6. /\ Queued \in SUBSET Tids /\ Queued # {} /\ s_tail_tid \in Queued
      /\ s_next_table \in [Tids -> Tids0] /\ s_prev_table \in [Tids -> Tids0]
      /\ s_head_tid \in Tids0 /\ s_tail_tid \in Tids0
  BY <1>1, <1>5, QueuedType DEF Working, Typed, TablesTyped, Chain
<1>7. CASE s_found_tid = 0 /\ LinkAtTail
  <2> DEFINE p == [pos EXCEPT ![c] = s_size + 1]
  <2>1. p \in [Tids -> Tids0]
    BY <1>2, <1>4 DEF Tids0
  <2>2. Row(s_tail_tid) = s_tail_tid
    BY <1>6 DEF Row, Tids
  <2>3. /\ s_next_table' = [s_next_table EXCEPT ![s_tail_tid] = c, ![c] = 0]
        /\ s_prev_table' = [s_prev_table EXCEPT ![c] = s_tail_tid]
        /\ s_head_tid' = s_head_tid /\ s_tail_tid' = c
    BY <1>7, <2>2 DEF LinkAtTail
  <2>4. Chain(Queued \cup {c}, p, s_next_table', s_prev_table', s_head_tid', s_tail_tid',
              s_size + 1)
    BY <1>2, <1>4, <1>5, <1>6, <2>3, ChainAppend
  <2>5. RankedNext(p)
    BY <1>1, <1>3, <2>4 DEF RankedNext
  <2>6. p[c] = s_size + 1 /\ \A t \in Queued : p[t] = pos[t]
    BY <1>2, <1>6
  <2>7. QED BY <1>2, <1>3, <1>4, <1>7, <2>1, <2>5, <2>6
<1>8. CASE s_found_tid # 0 /\ LinkBefore(s_found_tid)
  <2> DEFINE found == s_found_tid
             p == [t \in Tids |-> IF t = c THEN pos[found]
                                  ELSE IF t \in Queued /\ pos[t] >= pos[found] THEN pos[t] + 1
                                  ELSE pos[t]]
  <2>1. found \in Queued
    BY <1>1, <1>8 DEF Working
  <2>2. \A t \in Queued : pos[t] \in 1..s_size
    BY <1>5, <1>6 DEF Chain
  <2>3. p \in [Tids -> Tids0]
    BY <1>4, <1>6, <2>1, <2>2, SizeAssumption DEF Tids0
  <2> DEFINE before == s_prev_table[found]
             first  == before = 0
             nx == IF first THEN [s_next_table EXCEPT ![c] = found]
                   ELSE [s_next_table EXCEPT ![c] = found, ![before] = c]
             pv == [s_prev_table EXCEPT ![c] = before, ![found] = c]
             hd == IF first THEN c ELSE s_head_tid
  <2>4. s_next_table' = nx /\ s_prev_table' = pv /\ s_head_tid' = hd /\ s_tail_tid' = s_tail_tid
    BY <1>8 DEF LinkBefore
  <2>5. \A t \in Tids : p[t] = IF t = c THEN pos[found]
                               ELSE IF t \in Queued /\ pos[t] >= pos[found] THEN pos[t] + 1
                               ELSE pos[t]
    OBVIOUS
  <2> HIDE DEF p
  <2>6. Chain(Queued \cup {c}, p, nx, pv, hd, s_tail_tid, s_size + 1)
    BY <1>2, <1>4, <1>5, <1>6, <2>1, <2>5, ChainBefore
  <2>7. RankedNext(p)
    BY <1>1, <1>3, <2>4, <2>6 DEF RankedNext
  <2>8. QED BY <1>2, <1>3, <1>4, <1>6, <1>8, <2>3, <2>5, <2>7
<1>9. QED BY <1>7, <1>8 DEF InsertLink

\* The threads behind the one that is unlinked move down.
LEMMA UnlinkRanks ==
  ASSUME QueueInv, RemoveUnlink, NEW pos \in [Tids -> Tids0], Ranked(pos)
  PROVE  /\ Counted'
         /\ s_command_tid \in Queued /\ Queued' = Queued \ {s_command_tid}
         /\ \E p \in [Tids -> Tids0] :
              /\ RankedNext(p)
              /\ \A t \in Queued' :
                   p[t] = IF pos[t] > pos[s_command_tid] THEN pos[t] - 1 ELSE pos[t]
<1> USE DEF QueueInv
<1> DEFINE c == s_command_tid
<1>1. /\ s_state = "remove" /\ s_enqueue_bitmap' = s_enqueue_bitmap \ {c}
      /\ s_state' = "exit_ok" /\ s_size' = s_size - 1
  BY DEF RemoveUnlink
<1>2. c \in Queued /\ Queued' = Queued \ {c}
  BY <1>1 DEF Working, Queued, Linking
<1>3. Counted' /\ s_size \in Nat
  BY <1>1, <1>2, OneLess, SizeType DEF Counted, Tids0
<1>4. Chain(Queued, pos, s_next_table, s_prev_table, s_head_tid, s_tail_tid, s_size)
  BY ChainOfQueue
<1>5. /\ Queued \in SUBSET Tids
      /\ s_next_table \in [Tids -> Tids0] /\ s_prev_table \in [Tids -> Tids0]
      /\ s_head_tid \in Tids0 /\ s_tail_tid \in Tids0
  BY QueuedType DEF Typed, TablesTyped
<1> DEFINE p == [t \in Tids |-> IF t = c THEN 0
                                ELSE IF t \in Queued /\ pos[t] > pos[c] THEN pos[t] - 1
                                ELSE pos[t]]
<1>6. \A t \in Queued : pos[t] \in 1..s_size
  BY <1>4, <1>5 DEF Chain
<1>7. p \in [Tids -> Tids0]
  BY <1>2, <1>6, SizeAssumption DEF Tids0
<1> DEFINE before == s_prev_table[c]
           after  == s_next_table[c]
           nx == [t \in Tids |-> IF t = c THEN 0 ELSE IF t = before THEN after ELSE s_next_table[t]]
           pv == [t \in Tids |-> IF t = c THEN 0 ELSE IF t = after THEN before ELSE s_prev_table[t]]
           hd == IF before = 0 THEN after ELSE s_head_tid
           tl == IF after = 0 THEN before ELSE s_tail_tid
<1>8. s_next_table' = nx /\ s_prev_table' = pv /\ s_head_tid' = hd /\ s_tail_tid' = tl
  BY DEF RemoveUnlink
<1>9. Unlinked(Queued, pos, s_next_table, s_prev_table, s_head_tid, s_tail_tid, c, p, nx, pv, hd, tl)
  BY DEF Unlinked
<1>10. \A t \in Queued \ {c} : p[t] = IF pos[t] > pos[c] THEN pos[t] - 1 ELSE pos[t]
  BY <1>5
<1> HIDE DEF p, nx, pv, hd, tl
<1>11. Chain(Queued \ {c}, p, nx, pv, hd, tl, s_size - 1)
  BY <1>2, <1>3, <1>4, <1>5, <1>9, ChainUnlink
<1>12. RankedNext(p)
  BY <1>1, <1>2, <1>8, <1>11 DEF RankedNext
<1>13. QED BY <1>2, <1>3, <1>7, <1>10, <1>12

LEMMA ClearedRanks ==
  ASSUME ClearAll, s_state' \in {"idle", "exit_ok"}
  PROVE  Counted' /\ Queued' = {} /\ EmptyTable \in [Tids -> Tids0] /\ RankedNext(EmptyTable)
<1>1. Queued' = {}
  BY DEF ClearAll, ClearQueue, Queued
<1>2. EmptyTable \in [Tids -> Tids0]
  BY EmptyTableType
<1>3. RankedNext(EmptyTable)
  BY <1>1, ChainEmpty DEF RankedNext, ClearAll, ClearQueue, EmptyTable
<1>4. QED BY <1>1, <1>2, <1>3, FS_EmptySet DEF Counted, ClearAll, ClearQueue

LEMMA QueueChanges ==
  ASSUME QueueInv,
         \/ \E tid \in Insertable, prio \in Priorities : Insert(tid, prio)
         \/ InsertLink \/ RemoveUnlink \/ Reset \/ PinReset
  PROVE  Counted' /\ QueueWellFormed'
<1>1. PICK pos \in [Tids -> Tids0] : Ranked(pos)
  BY DEF QueueInv, QueueWellFormed
<1>2. ASSUME NEW tid \in Insertable, NEW prio \in Priorities, Insert(tid, prio)
      PROVE  Counted' /\ QueueWellFormed'
  BY <1>1, <1>2, InsertRanks, QueueOfChain
<1>3. CASE InsertLink
  BY <1>1, <1>3, LinkRanks, QueueOfChain
<1>4. CASE RemoveUnlink
  BY <1>1, <1>4, UnlinkRanks, QueueOfChain
<1>5. CASE Reset \/ PinReset
  BY <1>5, ClearedRanks, QueueOfChain DEF Reset, PinReset
<1>6. QED BY <1>2, <1>3, <1>4, <1>5

LEMMA WorkingStep ==
  ASSUME QueueInv, Next
  PROVE  Working'
<1> USE DEF QueueInv, Accept
<1>1. ASSUME NEW tid \in Insertable, NEW prio \in Priorities, Insert(tid, prio)
      PROVE  Working'
  BY <1>1 DEF Insert, Working
<1>2. ASSUME NEW tid \in Tids, Remove(tid)
      PROVE  Working'
  BY <1>2 DEF Remove, queue, Working
<1>3. CASE RemoveHead
  <2>1. s_head_tid # 0 => s_head_tid \in s_enqueue_bitmap
    BY DEF QueueWellFormed, Ranked, Queued
  <2>2. QED BY <1>3, <2>1 DEF RemoveHead, queue, Working
<1>4. CASE PreInsert
  <2>1. /\ s_state = "preinsert" /\ s_state' = "insert" /\ ~s_search_reset'
        /\ UNCHANGED <<s_command_tid, s_enqueue_bitmap, s_head_tid>>
    BY <1>4 DEF PreInsert, queue
  <2>2. Queued' = Queued
    BY <2>1 DEF Queued, Linking
  <2>3. s_found_tid' = s_head_tid
    BY <1>4, <2>1 DEF PreInsert, OtherProcesses, SearchingLinkList, Working
  <2>4. s_head_tid \in Queued
    BY <2>1 DEF QueueWellFormed, Ranked, Working
  <2>5. QED BY <2>1, <2>2, <2>3, <2>4 DEF Working
<1>5. CASE InsertWait
  <2>1. /\ s_state = "insert" /\ s_state' = "insert" /\ ~s_search_done
        /\ UNCHANGED <<s_command_tid, s_enqueue_bitmap, s_head_tid, s_search_reset>>
    BY <1>5 DEF InsertWait, machine, queue, searchRequest
  <2>2. Queued' = Queued
    BY <2>1 DEF Queued, Linking
  <2>3. s_found_tid \in Queued /\ ~s_search_reset /\ Row(s_found_tid) = s_found_tid
    BY <2>1 DEF Working, Row, Queued, Typed, TablesTyped, Tids
  <2>4. s_next_table[s_found_tid] \in Queued \cup {0}
    BY <2>3 DEF QueueWellFormed, Ranked
  <2>5. s_found_tid' \in Queued \/ (s_search_done' /\ s_found_tid' = 0)
    BY <1>5, <2>1, <2>3, <2>4 DEF InsertWait, OtherProcesses, SearchingLinkList, WalkStep
  <2>6. QED BY <2>1, <2>2, <2>3, <2>5 DEF Working
<1>6. CASE DestroyFree
  BY <1>6 DEF DestroyFree, queue, Working
<1>7. CASE s_state' \notin {"preinsert", "insert", "remove"}
  BY <1>7 DEF Working
<1>8. CASE Command
  BY <1>1, <1>2, <1>3, <1>7, <1>8
     DEF Command, Create, Destroy, UpdateRunning, SetQuantum, ResetTicks, RestartTime, Enable,
         Disable, SetEnabled, IntAck, GetId, Chosen, Size, Answer, Reset
<1>9. CASE Clock
  BY <1>4, <1>5, <1>6, <1>7, <1>9
     DEF Clock, Idle, InsertLink, RemoveUnlink, Finish, PreGetId, GetIdWait, GetIdFinish, machine
<1>10. QED BY <1>7, <1>8, <1>9 DEF Next, PinReset

LEMMA QueueInit == Init => QueueInv
<1> SUFFICES ASSUME Init PROVE QueueInv
  OBVIOUS
<1>1. MachineTyped
  BY SizeAssumption, TickAssumption DEF Init, MachineTyped, States, Tids0
<1>2. FlagsTyped
  BY DEF Init, FlagsTyped
<1>3. TablesTyped
  BY EmptyTableType DEF Init, TablesTyped
<1>4. s_counter \in 0..MaxTicks /\ s_free_tid \in Tids /\ s_stid_found \in Tids0 /\ s_found_tid \in Tids0
  BY SizeAssumption, TickAssumption DEF Init, Tids, Tids0
<1>5. s_reschedule \in BOOLEAN /\ s_full \in BOOLEAN /\ s_stid_done \in BOOLEAN /\ s_search_done \in BOOLEAN
  BY DEF Init
<1>6. Addressed /\ Working
  BY DEF Init, Addressed, Working
<1>7. Queued = {}
  BY DEF Init, Queued
<1>8. Ranked(EmptyTable)
  BY <1>7 DEF Init, Ranked, EmptyTable
<1>9. Counted
  BY <1>7, FS_EmptySet DEF Init, Counted
<1>10. QED
  BY <1>1, <1>2, <1>3, <1>4, <1>5, <1>6, <1>8, <1>9, EmptyTableType
     DEF QueueInv, Typed, ProcessesTyped, QueueWellFormed

LEMMA QueueStep ==
  ASSUME QueueInv, [Next]_vars
  PROVE  QueueInv'
<1>1. CASE UNCHANGED vars
  <2>1. UNCHANGED <<machine, threads, queue, s_running_tid, timeControl, stidRequest,
                    searchRequest, processOutputs>>
    BY <1>1 DEF vars
  <2>2. UNCHANGED <<queue, Queued>>
    BY <2>1 DEF machine, queue, Queued, Linking
  <2>3. Working' /\ Addressed'
    BY <2>1, <2>2 DEF machine, queue, searchRequest, processOutputs, QueueInv, Working, Typed, Addressed
  <2>4. MachineTyped'
    BY <2>1 DEF machine, timeControl, stidRequest, searchRequest, QueueInv, Typed, MachineTyped
  <2>5. UNCHANGED <<s_done, s_error, s_schedule_enabled, s_int_ack, s_time_reset,
                    s_stid_start, s_search_reset>>
    BY <2>1 DEF machine, timeControl, stidRequest, searchRequest
  <2>6. UNCHANGED <<s_counter, s_reschedule, s_free_tid, s_full, s_stid_found, s_stid_done,
                    s_found_tid, s_search_done>>
    BY <2>1 DEF processOutputs
  <2>7. FlagsTyped' /\ ProcessesTyped'
    BY <2>5, <2>6 DEF QueueInv, Typed, FlagsTyped, ProcessesTyped
  <2>8. TablesTyped'
    BY <2>1 DEF threads, queue, QueueInv, Typed, TablesTyped
  <2>9. QED
    BY <2>2, <2>3, <2>4, <2>7, <2>8, QueueUnchanged DEF QueueInv, Typed
<1>2. CASE Next
  <2>1. Typed' /\ Working'
    BY <1>2, TypedStep, SizeType, WorkingStep DEF QueueInv
  <2>2. ASSUME UNCHANGED <<queue, Linking>>
        PROVE  Counted' /\ QueueWellFormed'
    BY <2>2, QueueUnchanged DEF QueueInv, queue, Queued
  <2>3. ASSUME NEW obj \in Objects, NEW prio \in Priorities, Create(obj, prio)
        PROVE  Counted' /\ QueueWellFormed'
    BY <2>2, <2>3 DEF Create, Accept, Linking
  <2>4. ASSUME DestroyFree
        PROVE  Counted' /\ QueueWellFormed'
    BY <2>2, <2>4 DEF DestroyFree, Linking
  <2>5. Counted' /\ QueueWellFormed'
    BY <1>2, <2>2, <2>3, <2>4, TableSteps, QueueChanges
  <2>6. QED BY <2>1, <2>5 DEF QueueInv
<1>3. QED BY <1>1, <1>2

LEMMA QueueInvariant == Spec => []QueueInv
  BY QueueInit, QueueStep, PTL DEF Spec

\* Every register stays within its VHDL type, whatever the numbers of threads,
\* objects and priorities: above all the links, the two ends and the size.
THEOREM TypeCorrect == Spec => []TypeOK
<1>1. QueueInv => TypeOK
  BY SizeType DEF QueueInv, Typed, TypeOK
<1>2. QED BY <1>1, QueueInvariant, PTL

\* Between the commands and inside them, the links make one chain, the same both
\* ways, of exactly the threads whose enqueue bit is set.
THEOREM WellFormedQueue == Spec => []QueueWellFormed
<1>1. QueueInv => QueueWellFormed
  BY DEF QueueInv
<1>2. QED BY <1>1, QueueInvariant, PTL

-----------------------------------------------------------------------------
(***************************************************************************)
(* The searches.                                                            *)
(***************************************************************************)
\* A search that is on its way stands on a row.
Positioned == /\ ~s_search_reset /\ ~s_search_done => s_found_tid # 0
              /\ ~s_stid_start /\ ~s_stid_done => s_stid_found # 0

\* Only PreInsert starts the walk; everything else leaves its request or raises it.
LEMMA WalkRequest ==
  ASSUME Next
  PROVE  PreInsert \/ s_search_reset' = s_search_reset \/ s_search_reset'
<1> USE DEF searchRequest
<1>1. CASE Command
  BY <1>1 DEF Command, Create, Destroy, Insert, Remove, RemoveHead, UpdateRunning,
     SetQuantum, ResetTicks, RestartTime, Enable, Disable, SetEnabled, IntAck, GetId,
     Chosen, Size, Answer, Reset, ClearAll
<1>2. CASE Clock
  BY <1>2 DEF Clock, Idle, InsertWait, InsertLink, DestroyFree,
     RemoveUnlink, Finish, PreGetId, GetIdWait, GetIdFinish
<1>3. QED BY <1>1, <1>2 DEF Next, PinReset, ClearAll

LEMMA PositionedStep ==
  ASSUME QueueInv, Positioned, [Next]_vars
  PROVE  Positioned'
<1>1. CASE UNCHANGED vars
  BY <1>1 DEF vars, stidRequest, searchRequest, processOutputs, Positioned
<1>2. CASE Next
  <2>1. SearchTID /\ SearchingLinkList
    BY <1>2, OthersStep DEF OtherProcesses, PinReset
  <2>2. ~s_stid_done' => s_stid_found' # 0
    <3>1. s_stid_found \in Nat
      BY DEF QueueInv, Typed, ProcessesTyped, Tids0
    <3>2. s_stid_found # MaxThreads => s_stid_found + 1 # 0
      BY <3>1
    <3>3. s_stid_start => s_stid_found' # 0
      BY <2>1 DEF SearchTID
    <3>4. ~s_stid_start /\ ~s_stid_done /\ ~s_stid_done' => s_stid_found' # 0
      BY <2>1, <3>2 DEF SearchTID, SearchTIDStep, Positioned
    <3>5. QED BY <2>1, <3>3, <3>4 DEF SearchTID
  <2>3. CASE PreInsert
    BY <2>1, <2>2, <2>3 DEF PreInsert, SearchingLinkList, QueueInv, Working, Positioned
  <2>4. CASE s_search_reset' = s_search_reset \/ s_search_reset'
    <3>1. ~s_search_reset /\ ~s_search_done => WalkStep
      BY <2>1 DEF SearchingLinkList
    <3>2. WalkStep /\ ~s_search_done' => s_found_tid' # 0
      BY DEF WalkStep
    <3>3. ~s_search_reset /\ s_search_done => s_search_done'
      BY <2>1 DEF SearchingLinkList
    <3>4. QED BY <2>2, <2>4, <3>1, <3>2, <3>3 DEF Positioned
  <2>5. QED BY <1>2, <2>3, <2>4, WalkRequest
<1>3. QED BY <1>1, <1>2

\* Neither search reads the row before the first, and the walk of an INSERT reads
\* rows of queued threads only, whatever p_reset did to an earlier search.
THEOREM SearchesOnQueue == Spec => []SearchOnQueue
<1>1. Init => Positioned
  BY DEF Init, Positioned
<1>2. QueueInv /\ Positioned => SearchOnQueue
  BY DEF QueueInv, Working, Positioned, SearchOnQueue
<1>3. QED BY <1>1, <1>2, QueueInvariant, PositionedStep, PTL DEF Spec

-----------------------------------------------------------------------------
(***************************************************************************)
(* The answers.                                                             *)
(***************************************************************************)
DoneInIdle == s_done => s_state = "idle"

\* An edge that keeps done up is one that nothing was accepted in.
LEMMA DoneStep ==
  ASSUME DoneInIdle, [Next]_vars
  PROVE  DoneInIdle' /\ (s_done /\ s_done' => UNCHANGED <<s_return, s_error>>)
<1> USE DEF DoneInIdle, Accept, machine
<1>1. CASE UNCHANGED vars
  BY <1>1 DEF vars
<1>2. CASE Command
  BY <1>2 DEF Command, Create, Destroy, Insert, Remove, RemoveHead, UpdateRunning,
     SetQuantum, ResetTicks, RestartTime, Enable, Disable, SetEnabled, IntAck, GetId,
     Chosen, Size, Answer, Reset, ClearAll
<1>3. CASE Clock
  BY <1>3 DEF Clock, Idle, PreInsert, InsertWait, InsertLink, DestroyFree,
     RemoveUnlink, Finish, PreGetId, GetIdWait, GetIdFinish
<1>4. CASE PinReset
  BY <1>4 DEF PinReset, ClearAll
<1>5. QED BY <1>1, <1>2, <1>3, <1>4 DEF Next

\* What a client reads after done, it reads however late: the return register and the
\* error bit wait for the next command.
THEOREM AnswerStays == Spec => ResultStable
<1>1. Init => DoneInIdle
  BY DEF Init, DoneInIdle
<1>2. DoneInIdle /\ [Next]_vars
        => DoneInIdle' /\ [s_done /\ s_done' => s_return' = s_return /\ s_error' = s_error]_vars
  BY DoneStep
<1>3. QED BY <1>1, <1>2, PTL DEF Spec, ResultStable
=============================================================================
