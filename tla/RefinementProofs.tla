--------------------------- MODULE RefinementProofs ---------------------------
(***************************************************************************)
(* The block implements CommandedQueue, for clients that insert only what   *)
(* they created, with priorities that fit the order table.                  *)
(***************************************************************************)
EXTENDS OrderProofs, SchedulerQueue, SequenceTheorems, FunctionTheorems

-----------------------------------------------------------------------------
(***************************************************************************)
(* The walk along the links.                                                *)
(***************************************************************************)
LEMMA LeastNumber ==
  ASSUME NEW S \in SUBSET Nat, S # {}
  PROVE  \E m \in S : \A n \in S : m <= n
<1> DEFINE Below(n) == 0..(n - 1)
           T == {Below(n) : n \in S}
           R == StrictSubsetOrdering(Nat)
<1>1. \A n \in S : Below(n) \in FiniteSubsetsOf(Nat)
  BY FS_Interval DEF FiniteSubsetsOf
<1>2. PICK x \in T : \A y \in T : <<y, x>> \notin R
  <2>1. T \subseteq FiniteSubsetsOf(Nat) /\ T # {}
    BY <1>1
  <2>2. IsWellFoundedOn(R, FiniteSubsetsOf(Nat))
    BY FS_StrictSubsetOrderingWellFounded
  <2> HIDE DEF T, R
  <2>3. QED BY <2>1, <2>2, WFMin
<1>3. PICK m \in S : x = Below(m)
  OBVIOUS
<1>4. ASSUME NEW n \in S, n < m
      PROVE  FALSE
  <2>1. Below(n) \subseteq Below(m) /\ n \in Below(m) /\ n \notin Below(n)
    BY <1>4
  <2>2. Below(n) \in SUBSET Nat /\ Below(m) \in SUBSET Nat
    OBVIOUS
  <2> HIDE DEF Below
  <2>3. <<Below(n), Below(m)>> \in R
    BY <2>1, <2>2 DEF StrictSubsetOrdering
  <2>4. QED BY <1>2, <1>3, <2>3
<1>5. QED BY <1>4

\* As many threads as places, no two in one place: no place is left empty.
LEMMA EveryPlaceTaken ==
  ASSUME Typed, Counted, NEW pos \in [Tids -> Tids0], Ranked(pos), NEW i \in 1..s_size
  PROVE  \E t \in Queued : pos[t] = i
<1> DEFINE f == [t \in Queued |-> pos[t]]
<1>1. s_size \in Nat /\ IsFiniteSet(Queued) /\ Queued \subseteq Tids
  BY SizeType, QueuedType DEF Tids0
<1>2. IsFiniteSet(1..s_size) /\ Cardinality(1..s_size) = s_size
  BY <1>1, FS_Interval
<1>3. f \in [Queued -> 1..s_size] /\ \A t, u \in Queued : f[t] = f[u] => t = u
  BY <1>1 DEF Ranked
<1> HIDE DEF f
<1>4. f \in Injection(Queued, 1..s_size)
  BY <1>3, Fun_IsInj
<1>5. f \in Surjection(Queued, 1..s_size)
  BY <1>2, <1>4, FS_Injection DEF Counted
<1>6. PICK t \in Queued : f[t] = i
  BY <1>5 DEF Surjection
<1>7. QED BY <1>6 DEF f

\* The n-th step of the walk meets the thread of rank n + 1; past the tail there is none.
LEMMA WalkMeets ==
  ASSUME Typed, Counted, NEW pos \in [Tids -> Tids0], Ranked(pos)
  PROVE  \A n \in 0..MaxThreads : IF n < s_size THEN Walk[n] \in Queued /\ pos[Walk[n]] = n + 1
                                  ELSE Walk[n] = 0
<1> DEFINE Step(f, n) == IF n = 0 THEN s_head_tid
                         ELSE IF f[n - 1] = 0 THEN 0 ELSE s_next_table[f[n - 1]]
           w == [n \in 0..MaxThreads |->
                   IF n < s_size THEN CHOOSE t \in Queued : pos[t] = n + 1 ELSE 0]
<1>1. s_size \in Nat /\ s_size <= MaxThreads /\ MaxThreads \in Nat /\ 0 \notin Queued /\ Queued \subseteq Tids
  BY SizeType, QueuedType, SizeAssumption DEF Tids0, Tids
<1>2. ASSUME NEW n \in 0..MaxThreads
      PROVE  IF n < s_size THEN w[n] \in Queued /\ pos[w[n]] = n + 1 ELSE w[n] = 0
  <2>1. CASE n < s_size
    <3>1. n + 1 \in 1..s_size
      BY <1>1, <2>1
    <3>2. \E t \in Queued : pos[t] = n + 1
      BY <3>1, EveryPlaceTaken
    <3>3. QED BY <2>1, <3>2
  <2>2. CASE ~(n < s_size)
    BY <2>2
  <2>3. QED BY <2>1, <2>2
<1>3. ASSUME NEW n \in 0..MaxThreads
      PROVE  w[n] = Step(w, n)
  <2> HIDE DEF w
  <2>1. CASE n = 0
    <3>1. CASE s_size = 0
      BY <1>2, <2>1, <3>1 DEF Ranked
    <3>2. CASE s_size # 0
      <4>1. w[0] \in Queued /\ pos[w[0]] = 1
        BY <1>1, <1>2, <2>1, <3>2
      <4>2. s_head_tid \in Queued /\ pos[s_head_tid] = 1
        BY <4>1 DEF Ranked
      <4>3. QED BY <2>1, <4>1, <4>2 DEF Ranked
    <3>3. QED BY <3>1, <3>2
  <2>2. CASE n # 0
    <3>1. n - 1 \in 0..MaxThreads
      BY <1>1, <2>2
    <3>2. CASE n - 1 < s_size
      <4>1. w[n - 1] \in Queued /\ pos[w[n - 1]] = n
        BY <1>2, <3>1, <3>2
      <4>2. IF n = s_size THEN s_next_table[w[n - 1]] = 0
            ELSE s_next_table[w[n - 1]] \in Queued /\ pos[s_next_table[w[n - 1]]] = n + 1
        BY <4>1 DEF Ranked
      <4>3. IF n = s_size THEN w[n] = 0 ELSE w[n] \in Queued /\ pos[w[n]] = n + 1
        BY <1>1, <1>2, <3>2
      <4>4. Step(w, n) = s_next_table[w[n - 1]]
        BY <1>1, <2>2, <4>1
      <4>5. QED BY <4>2, <4>3, <4>4 DEF Ranked
    <3>3. CASE ~(n - 1 < s_size)
      BY <1>1, <1>2, <2>2, <3>1, <3>3
    <3>4. QED BY <3>2, <3>3
  <2>3. QED BY <2>1, <2>2
<1>4. Walk = [n \in 0..MaxThreads |-> Step(Walk, n)]
  <2>1. w = [n \in 0..MaxThreads |-> Step(w, n)]
    <3>1. w = [n \in 0..MaxThreads |-> w[n]]
      OBVIOUS
    <3> HIDE DEF w
    <3>2. QED BY <1>3, <3>1
  <2> HIDE DEF w
  <2>2. QED BY <2>1 DEF Walk
<1>5. \A n \in 0..MaxThreads : Walk[n] = w[n]
  <2> DEFINE D == {n \in 0..MaxThreads : Walk[n] # w[n]}
  <2>1. SUFFICES ASSUME D # {} PROVE FALSE
    OBVIOUS
  <2>2. PICK m \in D : \A n \in D : m <= n
    <3>1. D \in SUBSET Nat
      OBVIOUS
    <3> HIDE DEF D
    <3>2. QED BY <2>1, <3>1, LeastNumber
  <2>3. m = 0 \/ Walk[m - 1] = w[m - 1]
    BY <1>1, <2>2
  <2>4. Walk[m] = Step(Walk, m)
    BY <1>4
  <2>5. QED BY <1>3, <2>2, <2>3, <2>4
<1>6. QED
  BY <1>2, <1>5

-----------------------------------------------------------------------------
(***************************************************************************)
(* The entries of the queue.                                                *)
(***************************************************************************)
Entries == [tid : Tids, key : Nat]
EntryOf(t, order) == [tid |-> t, key |-> order[t]]

\* seq lists the threads of S, each at its place, with its order as the key.
Lists(seq, S, place, order) ==
  /\ seq \in Seq(Entries)
  /\ \A t \in S : place[t] \in 1..Len(seq) /\ seq[place[t]] = EntryOf(t, order)
  /\ \A i \in 1..Len(seq) : \E t \in S : place[t] = i

\* The rank of a thread among those that stay.
Places(pos) ==
  [t \in Tids |-> IF Leaving /\ pos[t] > pos[s_command_tid] THEN pos[t] - 1 ELSE pos[t]]

EntriesListed ==
  \A pos \in [Tids -> Tids0] :
    Ranked(pos) => Lists(ReadyEntries, Staying, Places(pos), s_order_table)

LEMMA WaitingMeets ==
  ASSUME QueueInv, NEW pos \in [Tids -> Tids0], Ranked(pos),
         NEW k, k = IF Leaving THEN s_size - 1 ELSE s_size
  PROVE  \A n \in 1..MaxThreads :
           IF n <= k THEN Waiting(n) \in Staying /\ Places(pos)[Waiting(n)] = n
           ELSE Waiting(n) = 0
<1> SUFFICES ASSUME NEW n \in 1..MaxThreads
             PROVE  IF n <= k THEN Waiting(n) \in Staying /\ Places(pos)[Waiting(n)] = n
                    ELSE Waiting(n) = 0
  OBVIOUS
<1>1. /\ s_size \in Nat /\ s_size <= MaxThreads /\ MaxThreads \in Nat
      /\ 0 \notin Queued /\ Queued \subseteq Tids
  BY SizeType, QueuedType, SizeAssumption DEF QueueInv, Tids0, Tids
<1>2. \A i \in 0..MaxThreads : IF i < s_size THEN Walk[i] \in Queued /\ pos[Walk[i]] = i + 1
                               ELSE Walk[i] = 0
  BY WalkMeets DEF QueueInv
<1>3. n - 1 \in 0..MaxThreads /\ n \in 0..MaxThreads /\ (n - 1) + 1 = n
  BY <1>1
<1>4. CASE ~Leaving
  <2>1. Waiting(n) = Walk[n - 1] /\ Staying = Queued
    BY <1>4 DEF Waiting, Staying
  <2>2. IF n <= k THEN Walk[n - 1] \in Queued /\ pos[Walk[n - 1]] = n ELSE Walk[n - 1] = 0
    BY <1>1, <1>2, <1>3, <1>4
  <2>3. QED BY <1>1, <1>4, <2>1, <2>2 DEF Places
<1>5. CASE Leaving
  <2> DEFINE c == s_command_tid
  <2>1. c \in Queued /\ Staying = Queued \ {c} /\ k = s_size - 1
    BY <1>5 DEF Leaving, QueueInv, Working, Queued, Linking, Staying
  <2>2. pos[c] \in 1..s_size /\ \A t, u \in Queued : pos[t] = pos[u] => t = u
    BY <1>1, <2>1 DEF Ranked
  <2>3. (\E m \in 0..(n - 1) : Walk[m] = c) <=> pos[c] <= n
    <3>1. ASSUME NEW m \in 0..(n - 1), Walk[m] = c
          PROVE  pos[c] <= n
      <4>1. m \in 0..MaxThreads
        BY <1>1
      <4>2. pos[c] = m + 1
        BY <1>1, <1>2, <2>1, <3>1, <4>1
      <4>3. QED BY <4>2
    <3>2. ASSUME pos[c] <= n
          PROVE  \E m \in 0..(n - 1) : Walk[m] = c
      <4>1. pos[c] - 1 \in 0..(n - 1) /\ pos[c] - 1 \in 0..MaxThreads /\ pos[c] - 1 < s_size
            /\ (pos[c] - 1) + 1 = pos[c]
        BY <1>1, <2>2, <3>2
      <4>2. Walk[pos[c] - 1] \in Queued /\ pos[Walk[pos[c] - 1]] = pos[c]
        BY <1>2, <4>1
      <4>3. Walk[pos[c] - 1] = c
        BY <2>1, <2>2, <4>2
      <4>4. QED BY <4>1, <4>3
    <3>3. QED BY <3>1, <3>2
  <2>4. CASE pos[c] <= n
    <3>1. Waiting(n) = Walk[n]
      BY <1>5, <2>3, <2>4 DEF Waiting
    <3>2. IF n <= k THEN Walk[n] \in Queued /\ pos[Walk[n]] = n + 1 ELSE Walk[n] = 0
      BY <1>1, <1>2, <1>3, <2>1
    <3>3. QED BY <1>1, <1>5, <2>1, <2>2, <2>4, <3>1, <3>2 DEF Places
  <2>5. CASE ~(pos[c] <= n)
    <3>1. Waiting(n) = Walk[n - 1]
      BY <1>5, <2>3, <2>5 DEF Waiting
    <3>2. n <= k /\ Walk[n - 1] \in Queued /\ pos[Walk[n - 1]] = n
      BY <1>1, <1>2, <1>3, <2>1, <2>2, <2>5
    <3>3. QED BY <1>1, <1>5, <2>1, <2>2, <2>5, <3>1, <3>2 DEF Places
  <2>6. QED BY <2>4, <2>5
<1>6. QED BY <1>4, <1>5

LEMMA FunctionIsSeq ==
  ASSUME NEW S, NEW k \in Nat, NEW f \in [1..k -> S]
  PROVE  f \in Seq(S) /\ Len(f) = k
<1>1. f \in Seq(S)
  BY SeqDef
<1>2. DOMAIN f = 1..k
  OBVIOUS
<1>3. QED BY <1>1, <1>2, LenProperties

LEMMA EntriesNow == QueueInv => EntriesListed
<1> SUFFICES ASSUME QueueInv, NEW pos \in [Tids -> Tids0], Ranked(pos)
             PROVE  Lists(ReadyEntries, Staying, Places(pos), s_order_table)
  BY DEF EntriesListed
<1> DEFINE k == IF Leaving THEN s_size - 1 ELSE s_size
           place == Places(pos)
<1>1. /\ s_size \in Nat /\ s_size <= MaxThreads /\ MaxThreads \in Nat
      /\ 0 \notin Queued /\ Queued \subseteq Tids /\ Staying \subseteq Queued
  BY SizeType, QueuedType, SizeAssumption DEF QueueInv, Tids0, Tids, Staying
<1>2. Leaving => s_command_tid \in Queued /\ pos[s_command_tid] \in 1..s_size
                 /\ Staying = Queued \ {s_command_tid}
  BY <1>1 DEF Leaving, QueueInv, Working, Queued, Linking, Staying, Ranked
<1>3. k \in Nat /\ k <= MaxThreads
  BY <1>1, <1>2
<1>4. \A n \in 1..MaxThreads : IF n <= k THEN Waiting(n) \in Staying /\ place[Waiting(n)] = n
                               ELSE Waiting(n) = 0
  BY WaitingMeets
<1>5. \A t \in Staying : place[t] \in 1..k
  <2> TAKE t \in Staying
  <2>1. t \in Tids /\ pos[t] \in 1..s_size
    BY <1>1 DEF Ranked
  <2>2. Leaving => pos[t] # pos[s_command_tid]
    BY <1>1, <1>2 DEF Ranked
  <2>3. QED BY <1>1, <1>2, <2>1, <2>2 DEF Places
<1>6. \A t, u \in Staying : place[t] = place[u] => t = u
  <2> TAKE t, u \in Staying
  <2>1. t \in Queued /\ u \in Queued /\ pos[t] \in 1..s_size /\ pos[u] \in 1..s_size
        /\ (pos[t] = pos[u] => t = u)
    BY <1>1 DEF Ranked
  <2>2. Leaving => pos[t] # pos[s_command_tid] /\ pos[u] # pos[s_command_tid]
    BY <1>1, <1>2 DEF Ranked
  <2>3. QED BY <1>1, <1>2, <2>1, <2>2 DEF Places
<1>7. Cardinality({n \in 1..MaxThreads : Waiting(n) # 0}) = k
  <2>1. {n \in 1..MaxThreads : Waiting(n) # 0} = 1..k
    BY <1>1, <1>3, <1>4
  <2>2. Cardinality(1..k) = k
    BY <1>3, FS_Interval
  <2>3. QED BY <2>1, <2>2
<1> HIDE DEF k, place
<1>8. ReadyEntries = [n \in 1..k |-> [tid |-> Waiting(n), key |-> s_order_table[Waiting(n)]]]
  BY <1>7 DEF ReadyEntries
<1>9. ReadyEntries \in [1..k -> Entries]
  <2>1. \A t \in Tids : s_order_table[t] \in Nat
    BY DataAssumption DEF QueueInv, Typed, TablesTyped
  <2>2. \A n \in 1..k : Waiting(n) \in Tids
    BY <1>1, <1>3, <1>4
  <2>3. QED BY <1>8, <2>1, <2>2 DEF Entries
<1>10. ReadyEntries \in Seq(Entries) /\ Len(ReadyEntries) = k
  BY <1>3, <1>9, FunctionIsSeq
<1>11. \A t \in Staying : ReadyEntries[place[t]] = EntryOf(t, s_order_table)
  <2> TAKE t \in Staying
  <2>1. place[t] \in 1..k /\ place[t] \in 1..MaxThreads
    BY <1>1, <1>3, <1>5
  <2>2. Waiting(place[t]) = t
    BY <1>3, <1>4, <1>6, <2>1
  <2>3. QED BY <1>8, <2>1, <2>2 DEF EntryOf
<1>12. \A i \in 1..k : \E t \in Staying : place[t] = i
  BY <1>1, <1>3, <1>4
<1>13. QED
  BY <1>5, <1>10, <1>11, <1>12 DEF Lists, place

LEMMA EntriesNext == QueueInv' => EntriesListed'
  BY EntriesNow, PTL

-----------------------------------------------------------------------------
(***************************************************************************)
(* Lists of threads.                                                        *)
(***************************************************************************)
LEMMA EntryFacts ==
  /\ \A t, order : EntryOf(t, order).tid = t /\ EntryOf(t, order).key = order[t]
  /\ \A t \in Tids : \A order : order[t] \in Nat => EntryOf(t, order) \in Entries
  /\ \A t, order, order2 : order[t] = order2[t] => EntryOf(t, order) = EntryOf(t, order2)
  BY DEF EntryOf, Entries

LEMMA ListsFacts ==
  ASSUME NEW seq, NEW S, NEW place, NEW order, Lists(seq, S, place, order)
  PROVE  /\ seq \in Seq(Entries) /\ Len(seq) \in Nat
         /\ \A i \in 1..Len(seq) : seq[i] \in Entries /\ \E t \in S : place[t] = i
         /\ \A t \in S : /\ place[t] \in 1..Len(seq)
                        /\ seq[place[t]] = EntryOf(t, order)
<1>1. /\ seq \in Seq(Entries)
      /\ \A i \in 1..Len(seq) : \E t \in S : place[t] = i
      /\ \A t \in S : place[t] \in 1..Len(seq) /\ seq[place[t]] = EntryOf(t, order)
  BY Zenon DEF Lists
<1>2. Len(seq) \in Nat /\ \A i \in 1..Len(seq) : seq[i] \in Entries
  BY <1>1, LenProperties, ElementOfSeq
<1>3. QED BY <1>1, <1>2

\* The threads, their places and their orders make the list.
LEMMA ListsSame ==
  ASSUME NEW s1, NEW s2, NEW S, NEW place, NEW order, NEW place2, NEW order2,
         Lists(s1, S, place, order), Lists(s2, S, place2, order2),
         \A t \in S : place2[t] = place[t] /\ order2[t] = order[t]
  PROVE  s1 = s2
<1>1. /\ s1 \in Seq(Entries) /\ Len(s1) \in Nat
      /\ \A i \in 1..Len(s1) : \E t \in S : place[t] = i
      /\ \A t \in S : /\ place[t] \in 1..Len(s1)
                     /\ s1[place[t]] = EntryOf(t, order)
  BY ListsFacts
<1>2. /\ s2 \in Seq(Entries) /\ Len(s2) \in Nat
      /\ \A i \in 1..Len(s2) : \E t \in S : place2[t] = i
      /\ \A t \in S : /\ place2[t] \in 1..Len(s2)
                     /\ s2[place2[t]] = EntryOf(t, order2)
  BY ListsFacts
<1>3. Len(s1) <= Len(s2)
  <2> SUFFICES ASSUME Len(s1) # 0 PROVE Len(s1) <= Len(s2)
    BY <1>1, <1>2
  <2>1. PICK t \in S : place[t] = Len(s1)
    BY <1>1
  <2>2. QED BY <1>1, <1>2, <2>1
<1>4. Len(s2) <= Len(s1)
  <2> SUFFICES ASSUME Len(s2) # 0 PROVE Len(s2) <= Len(s1)
    BY <1>1, <1>2
  <2>1. PICK t \in S : place2[t] = Len(s2)
    BY <1>2
  <2>2. QED BY <1>1, <1>2, <2>1
<1>5. Len(s1) = Len(s2)
  BY <1>1, <1>2, <1>3, <1>4
<1>6. ASSUME NEW i \in 1..Len(s1)
      PROVE  s1[i] = s2[i]
  <2>1. PICK t \in S : place[t] = i
    BY <1>1
  <2>2. s1[i] = EntryOf(t, order) /\ s2[i] = EntryOf(t, order2)
    BY <1>1, <1>2, <2>1
  <2>3. QED BY <2>2, EntryFacts
<1>7. QED BY <1>1, <1>2, <1>5, <1>6, SeqEqual

\* A thread is on the list if it is listed, and at its place only.
LEMMA ListsMembers ==
  ASSUME NEW seq, NEW S, NEW place, NEW order, Lists(seq, S, place, order)
  PROVE  /\ \A c : (\E i \in 1..Len(seq) : seq[i].tid = c) <=> c \in S
         /\ \A c \in S : \A i \in 1..Len(seq) : seq[i].tid = c <=> i = place[c]
         /\ seq = <<>> <=> S = {}
<1>1. /\ seq \in Seq(Entries) /\ Len(seq) \in Nat
      /\ \A i \in 1..Len(seq) : \E t \in S : place[t] = i
      /\ \A t \in S : /\ place[t] \in 1..Len(seq)
                     /\ seq[place[t]] = EntryOf(t, order)
  BY ListsFacts
<1>2. \A t \in S : place[t] \in 1..Len(seq) /\ seq[place[t]].tid = t
  BY <1>1, EntryFacts
<1>3. \A i \in 1..Len(seq) : seq[i].tid \in S /\ place[seq[i].tid] = i
  BY <1>1, <1>2
<1>4. seq = <<>> <=> Len(seq) = 0
  BY <1>1, EmptySeq
<1>5. QED BY <1>1, <1>2, <1>3, <1>4

\* The list without a thread, and with one more.
LEMMA ListsWithout ==
  ASSUME NEW seq, NEW S, NEW place, NEW order, Lists(seq, S, place, order), NEW c \in S,
         NEW place2, \A t \in S \ {c} : place2[t] = IF place[t] > place[c] THEN place[t] - 1
                                                  ELSE place[t]
  PROVE  Lists(SubSeq(seq, 1, place[c] - 1) \o SubSeq(seq, place[c] + 1, Len(seq)),
               S \ {c}, place2, order)
<1> DEFINE k == place[c]
           front == SubSeq(seq, 1, k - 1)
           back  == SubSeq(seq, k + 1, Len(seq))
<1>0. /\ seq \in Seq(Entries) /\ Len(seq) \in Nat
      /\ \A i \in 1..Len(seq) : seq[i] \in Entries /\ \E t \in S : place[t] = i
      /\ \A t \in S : /\ place[t] \in 1..Len(seq)
                     /\ seq[place[t]] = EntryOf(t, order)
  BY ListsFacts
<1>1. /\ seq \in Seq(Entries) /\ Len(seq) \in Nat /\ k \in 1..Len(seq) /\ k \in Int
      /\ \A i \in 1..Len(seq) : seq[i] \in Entries
  BY <1>0
<1>2. /\ front \in Seq(Entries) /\ Len(front) = k - 1
      /\ \A i \in 1..(k - 1) : front[i] = seq[i]
  <2>1. \A i \in 1..(k - 1) : seq[i] \in Entries
    BY <1>1
  <2> HIDE DEF k
  <2>2. k - 1 \in Int /\ 1 \in Int
    BY <1>1
  <2>3. QED BY <1>1, <2>1, <2>2, SubSeqProperties
<1>3. /\ back \in Seq(Entries) /\ Len(back) = Len(seq) - k
      /\ \A i \in 1..(Len(seq) - k) : back[i] = seq[k + i]
  <2>1. \A i \in (k + 1)..Len(seq) : seq[i] \in Entries
    BY <1>1
  <2> HIDE DEF k
  <2>2. k + 1 \in Int /\ Len(seq) \in Int
    BY <1>1
  <2>3. /\ back \in Seq(Entries)
        /\ Len(back) = IF k + 1 <= Len(seq) THEN Len(seq) - (k + 1) + 1 ELSE 0
        /\ \A i \in 1..(Len(seq) - (k + 1) + 1) : back[i] = seq[(k + 1) + i - 1]
    BY <2>1, <2>2, SubSeqProperties
  <2>4. QED BY <1>1, <2>3
<1> HIDE DEF front, back
<1>4. /\ front \o back \in Seq(Entries) /\ Len(front \o back) = Len(seq) - 1
      /\ \A i \in 1..(Len(seq) - 1) : (front \o back)[i] = IF i < k THEN seq[i] ELSE seq[i + 1]
  <2>1. /\ front \o back \in Seq(Entries) /\ Len(front \o back) = Len(front) + Len(back)
        /\ \A i \in 1..(Len(front) + Len(back)) :
             (front \o back)[i] = IF i <= Len(front) THEN front[i] ELSE back[i - Len(front)]
    BY <1>2, <1>3, ConcatProperties
  <2>2. Len(front \o back) = Len(seq) - 1 /\ Len(front) + Len(back) = Len(seq) - 1
    BY <1>1, <1>2, <1>3, <2>1
  <2>3. ASSUME NEW i \in 1..(Len(seq) - 1)
        PROVE  (front \o back)[i] = IF i < k THEN seq[i] ELSE seq[i + 1]
    <3>1. (front \o back)[i] = IF i <= k - 1 THEN front[i] ELSE back[i - (k - 1)]
      BY <1>2, <2>1, <2>2
    <3>2. CASE i < k
      BY <1>1, <1>2, <3>1, <3>2
    <3>3. CASE ~(i < k)
      <4>1. i - (k - 1) \in 1..(Len(seq) - k) /\ k + (i - (k - 1)) = i + 1
        BY <1>1, <3>3
      <4>2. back[i - (k - 1)] = seq[i + 1]
        BY <1>3, <4>1
      <4>3. QED BY <1>1, <3>1, <3>3, <4>2
    <3>4. QED BY <3>2, <3>3
  <2>4. QED BY <2>1, <2>2, <2>3
<1>5. ASSUME NEW t \in S \ {c}
      PROVE  place2[t] \in 1..(Len(seq) - 1) /\ (front \o back)[place2[t]] = EntryOf(t, order)
  <2>1. place[t] \in 1..Len(seq) /\ seq[place[t]] = EntryOf(t, order)
        /\ seq[k] = EntryOf(c, order)
    BY <1>0
  <2>2. place[t] # k
    BY <2>1, EntryFacts
  <2>3. place2[t] = IF place[t] > k THEN place[t] - 1 ELSE place[t]
    OBVIOUS
  <2> HIDE DEF k
  <2>4. CASE place[t] > k
    <3>1. place2[t] = place[t] - 1 /\ place[t] - 1 \in 1..(Len(seq) - 1) /\ ~(place[t] - 1 < k)
          /\ (place[t] - 1) + 1 = place[t]
      BY <1>1, <2>1, <2>3, <2>4
    <3>2. QED BY <1>4, <2>1, <3>1
  <2>5. CASE ~(place[t] > k)
    <3>1. place2[t] = place[t] /\ place[t] \in 1..(Len(seq) - 1) /\ place[t] < k
      BY <1>1, <2>1, <2>2, <2>3, <2>5
    <3>2. QED BY <1>4, <2>1, <3>1
  <2>6. QED BY <2>4, <2>5
<1>6. ASSUME NEW i \in 1..(Len(seq) - 1)
      PROVE  \E t \in S \ {c} : place2[t] = i
  <2>1. CASE i < k
    <3>1. i \in 1..Len(seq)
      BY <1>1
    <3>2. PICK t \in S : place[t] = i
      BY <3>1, <1>0
    <3>3. t # c /\ place2[t] = i
      BY <1>1, <2>1, <3>2
    <3>4. QED BY <3>3
  <2>2. CASE ~(i < k)
    <3>1. i + 1 \in 1..Len(seq)
      BY <1>1
    <3>2. PICK t \in S : place[t] = i + 1
      BY <3>1, <1>0
    <3>3. t # c /\ place2[t] = i
      BY <1>1, <2>2, <3>2
    <3>4. QED BY <3>3
  <2>3. QED BY <2>1, <2>2
<1>7. Lists(front \o back, S \ {c}, place2, order)
  BY <1>4, <1>5, <1>6 DEF Lists
<1>8. QED BY <1>7 DEF front, back

LEMMA ListsWith ==
  ASSUME NEW seq, NEW S, NEW place, NEW order, Lists(seq, S, place, order),
         NEW n \in 0..Len(seq), NEW c \in Tids, c \notin S, NEW place2, NEW order2,
         place2[c] = n + 1, order2[c] \in Nat,
         \A t \in S : /\ place2[t] = IF place[t] > n THEN place[t] + 1 ELSE place[t]
                     /\ order2[t] = order[t]
  PROVE  Lists(SubSeq(seq, 1, n) \o <<EntryOf(c, order2)>>
                 \o SubSeq(seq, n + 1, Len(seq)),
               S \cup {c}, place2, order2)
<1> DEFINE entry == EntryOf(c, order2)
           front == SubSeq(seq, 1, n)
           back  == SubSeq(seq, n + 1, Len(seq))
           new == front \o <<entry>> \o back
<1>0. /\ seq \in Seq(Entries) /\ Len(seq) \in Nat
      /\ \A i \in 1..Len(seq) : seq[i] \in Entries /\ \E t \in S : place[t] = i
      /\ \A t \in S : /\ place[t] \in 1..Len(seq)
                     /\ seq[place[t]] = EntryOf(t, order)
  BY ListsFacts
<1>1. /\ seq \in Seq(Entries) /\ Len(seq) \in Nat /\ n \in Nat /\ n <= Len(seq)
      /\ \A i \in 1..Len(seq) : seq[i] \in Entries
      /\ entry \in Entries
  BY <1>0 DEF Entries, EntryOf
<1>2. /\ front \in Seq(Entries) /\ Len(front) = n
      /\ \A i \in 1..n : front[i] = seq[i]
  <2>1. \A i \in 1..n : seq[i] \in Entries
    BY <1>1
  <2>2. n \in Int /\ 1 \in Int
    BY <1>1
  <2>3. /\ front \in Seq(Entries) /\ Len(front) = IF 1 <= n THEN n - 1 + 1 ELSE 0
        /\ \A i \in 1..(n - 1 + 1) : front[i] = seq[1 + i - 1]
    BY <2>1, <2>2, SubSeqProperties
  <2>4. QED BY <1>1, <2>3
<1>3. /\ back \in Seq(Entries) /\ Len(back) = Len(seq) - n
      /\ \A i \in 1..(Len(seq) - n) : back[i] = seq[n + i]
  <2>1. \A i \in (n + 1)..Len(seq) : seq[i] \in Entries
    BY <1>1
  <2>2. n + 1 \in Int /\ Len(seq) \in Int
    BY <1>1
  <2>3. /\ back \in Seq(Entries)
        /\ Len(back) = IF n + 1 <= Len(seq) THEN Len(seq) - (n + 1) + 1 ELSE 0
        /\ \A i \in 1..(Len(seq) - (n + 1) + 1) : back[i] = seq[(n + 1) + i - 1]
    BY <2>1, <2>2, SubSeqProperties
  <2>4. QED BY <1>1, <2>3
<1> HIDE DEF front, back, entry
<1>4. <<entry>> \in Seq(Entries) /\ Len(<<entry>>) = 1 /\ <<entry>>[1] = entry
  BY <1>1
<1>5. /\ front \o <<entry>> \in Seq(Entries) /\ Len(front \o <<entry>>) = n + 1
      /\ \A i \in 1..(n + 1) : (front \o <<entry>>)[i] = IF i <= n THEN seq[i] ELSE entry
  <2>1. /\ front \o <<entry>> \in Seq(Entries)
        /\ Len(front \o <<entry>>) = Len(front) + Len(<<entry>>)
        /\ \A i \in 1..(Len(front) + Len(<<entry>>)) :
             (front \o <<entry>>)[i] = IF i <= Len(front) THEN front[i] ELSE <<entry>>[i - Len(front)]
    BY <1>2, <1>4, ConcatProperties
  <2>2. QED BY <1>1, <1>2, <1>4, <2>1
<1>6. /\ new \in Seq(Entries) /\ Len(new) = Len(seq) + 1
      /\ \A i \in 1..(Len(seq) + 1) : new[i] = IF i <= n THEN seq[i]
                                              ELSE IF i = n + 1 THEN entry ELSE seq[i - 1]
  <2> DEFINE first == front \o <<entry>>
  <2>0. first \in Seq(Entries) /\ Len(first) = n + 1
    BY <1>5
  <2> HIDE DEF first
  <2>1. /\ first \o back \in Seq(Entries) /\ Len(first \o back) = Len(first) + Len(back)
        /\ \A i \in 1..(Len(first) + Len(back)) :
             (first \o back)[i] = IF i <= Len(first) THEN first[i] ELSE back[i - Len(first)]
    BY <1>3, <2>0, ConcatProperties
  <2>2. new = first \o back
    BY DEF first
  <2>3. \A i \in 1..(n + 1) : first[i] = IF i <= n THEN seq[i] ELSE entry
    BY <1>5 DEF first
  <2> HIDE DEF new
  <2>4. Len(new) = Len(seq) + 1 /\ Len(first) + Len(back) = Len(seq) + 1
    BY <1>1, <1>3, <2>0, <2>1, <2>2
  <2>5. ASSUME NEW i \in 1..(Len(seq) + 1)
        PROVE  new[i] = IF i <= n THEN seq[i] ELSE IF i = n + 1 THEN entry ELSE seq[i - 1]
    <3>1. new[i] = IF i <= n + 1 THEN first[i] ELSE back[i - (n + 1)]
      BY <2>0, <2>1, <2>2, <2>4
    <3>2. CASE i <= n + 1
      BY <1>1, <2>3, <3>1, <3>2
    <3>3. CASE ~(i <= n + 1)
      <4>1. i - (n + 1) \in 1..(Len(seq) - n) /\ n + (i - (n + 1)) = i - 1
        BY <1>1, <3>3
      <4>2. back[i - (n + 1)] = seq[i - 1]
        BY <1>3, <4>1
      <4>3. QED BY <1>1, <3>1, <3>3, <4>2
    <3>4. QED BY <3>2, <3>3
  <2>6. QED BY <2>1, <2>2, <2>4, <2>5
<1> HIDE DEF new
<1>7. ASSUME NEW t \in S \cup {c}
      PROVE  place2[t] \in 1..(Len(seq) + 1) /\ new[place2[t]] = EntryOf(t, order2)
  <2>1. CASE t = c
    BY <1>1, <1>6, <2>1 DEF entry
  <2>2. CASE t \in S
    <3>1. place[t] \in 1..Len(seq) /\ seq[place[t]] = EntryOf(t, order2)
      BY <2>2, <1>0, EntryFacts
    <3>2. place2[t] = IF place[t] > n THEN place[t] + 1 ELSE place[t]
      BY <2>2
    <3>3. QED BY <1>1, <1>6, <3>1, <3>2
  <2>3. QED BY <2>1, <2>2
<1>8. ASSUME NEW i \in 1..(Len(seq) + 1)
      PROVE  \E t \in S \cup {c} : place2[t] = i
  <2>1. CASE i <= n
    <3>1. i \in 1..Len(seq)
      BY <1>1, <2>1
    <3>2. PICK t \in S : place[t] = i
      BY <3>1, <1>0
    <3>3. QED BY <1>1, <2>1, <3>2
  <2>2. CASE i = n + 1
    BY <2>2
  <2>3. CASE i > n + 1
    <3>1. i - 1 \in 1..Len(seq)
      BY <1>1, <2>3
    <3>2. PICK t \in S : place[t] = i - 1
      BY <3>1, <1>0
    <3>3. place2[t] = IF place[t] > n THEN place[t] + 1 ELSE place[t]
      OBVIOUS
    <3>4. place2[t] = i
      BY <1>1, <2>3, <3>2, <3>3
    <3>5. QED BY <3>4
  <2>4. QED BY <1>1, <2>1, <2>2, <2>3
<1>9. Lists(new, S \cup {c}, place2, order2)
  BY <1>6, <1>7, <1>8 DEF Lists
<1>10. QED BY <1>9 DEF new, entry, front, back

-----------------------------------------------------------------------------
(***************************************************************************)
(* What the answers rely on.                                                *)
(***************************************************************************)
\* A free row holds no object.
Unowned == \A t \in Tids \ s_tid_bitmap : s_obj_table[t] = 0

\* The search of a GETID has passed only rows of other objects, and stops at its own.
Sought ==
  /\ s_state = "pregetid" => s_stid_start
  /\ s_state = "getid" =>
       /\ ~s_stid_start
       /\ s_stid_done \/ s_stid_found # 0
       /\ \A t \in Tids : s_stid_found = 0 \/ t < s_stid_found => s_obj_table[t] # s_stid_obj_ptr
       /\ s_stid_done /\ s_stid_found # 0 => s_obj_table[s_stid_found] = s_stid_obj_ptr

\* The priority of an INSERT that is on its way is one that a client gave.
Keyed == s_state \in {"preinsert", "insert"} => s_search_order \in Priorities

RefineInv == OrderInv /\ Unowned /\ Sought /\ Keyed

LEMMA UnownedStep ==
  ASSUME QueueInv, Unowned, Next
  PROVE  Unowned'
<1> USE DEF Unowned, QueueInv, Typed, TablesTyped
<1>1. ASSUME NEW obj \in Objects, NEW prio \in Priorities, Create(obj, prio)
      PROVE  Unowned'
  BY <1>1 DEF Create, threads, ProcessesTyped
<1>2. ASSUME NEW tid \in Insertable, NEW prio \in Priorities, Insert(tid, prio)
      PROVE  Unowned'
  BY <1>2 DEF Insert
<1>3. CASE Reset \/ PinReset
  BY <1>3 DEF Reset, PinReset, ClearAll, EmptyTable
<1>4. CASE InsertLink \/ RemoveUnlink
  BY <1>4 DEF InsertLink, RemoveUnlink, threads
<1>5. CASE DestroyFree
  BY <1>5 DEF DestroyFree, Addressed
<1>6. CASE UNCHANGED threads
  BY <1>6 DEF threads
<1>7. QED BY <1>1, <1>2, <1>3, <1>4, <1>5, <1>6, TableSteps

\* How mainProcess comes to the states of a GETID.
LEMMA GetIdStates ==
  ASSUME Next
  PROVE  /\ s_state' = "pregetid" => \E obj \in Lookups : GetId(obj)
         /\ s_state' = "getid" => PreGetId \/ GetIdWait
<1> USE DEF Accept, machine
<1>1. CASE Command
  BY <1>1 DEF Command, Create, Destroy, Insert, Remove, RemoveHead, UpdateRunning,
     SetQuantum, ResetTicks, RestartTime, Enable, Disable, SetEnabled, IntAck, GetId,
     Chosen, Size, Answer, Reset
<1>2. CASE Clock
  BY <1>2 DEF Clock, Idle, PreInsert, InsertWait, InsertLink, DestroyFree,
     RemoveUnlink, Finish, PreGetId, GetIdWait, GetIdFinish
<1>3. QED BY <1>1, <1>2 DEF Next, PinReset

LEMMA SoughtStep ==
  ASSUME Typed, Sought, Next
  PROVE  Sought'
<1>1. s_state' = "pregetid" => s_stid_start'
  BY GetIdStates DEF GetId
<1>2. CASE PreGetId
  <2>1. /\ s_state' = "getid" /\ ~s_stid_start' /\ s_stid_start /\ SearchTID
    BY <1>2 DEF PreGetId, Sought, OtherProcesses
  <2>2. s_stid_found' = 1 /\ s_stid_done' = FALSE
    BY <2>1 DEF SearchTID
  <2>3. QED BY <2>1, <2>2 DEF Sought, Tids
<1>3. CASE GetIdWait
  <2>1. /\ s_state = "getid" /\ s_state' = "getid" /\ ~s_stid_done /\ SearchTID
        /\ UNCHANGED <<s_obj_table, s_stid_obj_ptr, s_stid_start>>
    BY <1>3 DEF GetIdWait, machine, threads, stidRequest, OtherProcesses
  <2>2. /\ ~s_stid_start /\ s_stid_found \in Tids
        /\ \A t \in Tids : t < s_stid_found => s_obj_table[t] # s_stid_obj_ptr
    BY <2>1 DEF Sought, Typed, ProcessesTyped, Tids, Tids0
  <2>3. SearchTIDStep /\ Row(s_stid_found) = s_stid_found
    BY <2>1, <2>2 DEF SearchTID, Row, Tids
  <2>4. CASE s_obj_table[s_stid_found] = s_stid_obj_ptr
    <3>1. s_stid_done' /\ s_stid_found' = s_stid_found
      BY <2>3, <2>4 DEF SearchTIDStep
    <3>2. QED BY <2>1, <2>2, <2>4, <3>1 DEF Sought, Tids
  <2>5. CASE s_obj_table[s_stid_found] # s_stid_obj_ptr
    <3>1. /\ s_stid_done' = (s_stid_found = MaxThreads)
          /\ s_stid_found' = IF s_stid_found = MaxThreads THEN 0 ELSE s_stid_found + 1
      BY <2>3, <2>5 DEF SearchTIDStep
    <3>2. ASSUME NEW t \in Tids, s_stid_found' = 0 \/ t < s_stid_found'
          PROVE  s_obj_table[t] # s_stid_obj_ptr
      <4>1. t < s_stid_found \/ t = s_stid_found
        BY <2>2, <3>1, <3>2, SizeAssumption DEF Tids
      <4>2. QED BY <2>2, <2>5, <4>1
    <3>3. s_stid_done' <=> s_stid_found' = 0
      <4>1. s_stid_found + 1 # 0
        BY <2>2 DEF Tids
      <4>2. QED BY <3>1, <4>1
    <3>4. QED BY <2>1, <2>2, <3>2, <3>3 DEF Sought
  <2>6. QED BY <2>4, <2>5
<1>4. CASE s_state' # "getid"
  BY <1>1, <1>4 DEF Sought
<1>5. QED BY <1>2, <1>3, <1>4, GetIdStates

LEMMA KeyedStep ==
  ASSUME Keyed, Next
  PROVE  Keyed'
<1>1. s_state' = "preinsert" => s_search_order' \in Priorities
  BY Entered DEF Insert
<1>2. s_state' = "insert" => s_search_order' \in Priorities
  BY Entered DEF PreInsert, InsertWait, searchRequest, Keyed
<1>3. QED BY <1>1, <1>2 DEF Keyed

LEMMA RefineInit == Init => RefineInv
  BY OrderInit DEF Init, RefineInv, Unowned, Sought, Keyed, EmptyTable

LEMMA RefineStep ==
  ASSUME Civil, RefineInv, [Next]_vars
  PROVE  RefineInv'
<1>1. CASE Next
  BY <1>1, OrderStep, UnownedStep, SoughtStep, KeyedStep DEF RefineInv, OrderInv, QueueInv
<1>2. CASE UNCHANGED vars
  <2>1. UNCHANGED <<machine, threads, stidRequest, searchRequest, processOutputs>>
    BY <1>2 DEF vars
  <2>2. Unowned' /\ Sought' /\ Keyed'
    BY <2>1 DEF RefineInv, Unowned, Sought, Keyed, machine, threads, stidRequest,
                searchRequest, processOutputs
  <2>3. QED BY <1>2, <2>2, OrderStep DEF RefineInv
<1>3. QED BY <1>1, <1>2

-----------------------------------------------------------------------------
(***************************************************************************)
(* The queue of ReadyQueue in a step of the block.                          *)
(***************************************************************************)
LEMMA ReadyNow ==
  ASSUME QueueInv, NEW pos \in [Tids -> Tids0], Ranked(pos)
  PROVE  Lists(ReadyEntries, Staying, Places(pos), s_order_table)
  BY EntriesNow DEF EntriesListed

LEMMA ReadyNext ==
  ASSUME QueueInv', NEW pos \in [Tids -> Tids0], RankedNext(pos)
  PROVE  Lists(ReadyEntries', Staying', Places(pos)', s_order_table')
<1>1. Ranked(pos)'
  BY RanksOfNext
<1>2. EntriesListed'
  BY EntriesNext
<1>3. QED BY <1>1, <1>2 DEF EntriesListed

\* Who is ready, and how many.
LEMMA ReadyMembers ==
  ASSUME QueueInv
  PROVE  /\ \A c : RQ!IsReady(c) <=> c \in Staying
         /\ ReadyEntries = <<>> <=> Staying = {}
         /\ ~Leaving => Len(ReadyEntries) = s_size
<1>1. PICK pos \in [Tids -> Tids0] : Ranked(pos)
  BY DEF QueueInv, QueueWellFormed
<1> DEFINE place == Places(pos)
<1>2. Lists(ReadyEntries, Staying, place, s_order_table)
  BY <1>1, ReadyNow
<1> HIDE DEF place
<1>3. /\ \A c : (\E i \in 1..Len(ReadyEntries) : ReadyEntries[i].tid = c) <=> c \in Staying
      /\ ReadyEntries = <<>> <=> Staying = {}
  BY <1>2, ListsMembers
<1>4. ASSUME ~Leaving
      PROVE  Len(ReadyEntries) = s_size
  <2>1. /\ Len(ReadyEntries) \in Nat
        /\ \A i \in 1..Len(ReadyEntries) : \E t \in Staying : place[t] = i
        /\ \A t \in Staying : place[t] \in 1..Len(ReadyEntries)
    BY <1>2, ListsFacts
  <2>2. Staying = Queued /\ Queued \subseteq Tids /\ \A t \in Tids : place[t] = pos[t]
    BY <1>4, QueuedType DEF Staying, QueueInv, place, Places
  <2>3. s_size \in Nat /\ \A t \in Queued : pos[t] \in 1..s_size
    BY <1>1, <2>2, SizeType DEF QueueInv, Tids0, Ranked
  <2>4. s_size <= Len(ReadyEntries)
    <3>1. CASE s_size = 0
      BY <2>1, <3>1
    <3>2. CASE s_size # 0
      <4>1. s_tail_tid \in Queued /\ pos[s_tail_tid] = s_size
        BY <1>1, <3>2 DEF Ranked
      <4>2. s_size \in 1..Len(ReadyEntries)
        BY <2>1, <2>2, <4>1
      <4>3. QED BY <2>1, <4>2
    <3>3. QED BY <3>1, <3>2
  <2>5. Len(ReadyEntries) <= s_size
    <3>1. CASE Len(ReadyEntries) = 0
      BY <2>3, <3>1
    <3>2. CASE Len(ReadyEntries) # 0
      <4>1. PICK t \in Staying : place[t] = Len(ReadyEntries)
        BY <2>1, <3>2
      <4>2. QED BY <2>1, <2>2, <2>3, <4>1
    <3>3. QED BY <3>1, <3>2
  <2>6. QED BY <2>1, <2>3, <2>4, <2>5
<1>5. QED BY <1>3, <1>4 DEF RQ!IsReady

EmptyReady == ReadyEntries = <<>> <=> Staying = {}

LEMMA EmptyNow == QueueInv => EmptyReady
  BY ReadyMembers DEF EmptyReady

LEMMA EmptyNext == QueueInv' => EmptyReady'
  BY EmptyNow, PTL

\* The queue stays as it is if its threads, their places and their orders do.
LEMMA ReadyKept ==
  ASSUME QueueInv, QueueInv', Staying' = Staying,
         NEW pos \in [Tids -> Tids0], Ranked(pos), NEW p \in [Tids -> Tids0], RankedNext(p),
         \A t \in Staying : /\ Places(p)'[t] = Places(pos)[t]
                           /\ s_order_table'[t] = s_order_table[t]
  PROVE  UNCHANGED ReadyEntries
<1>1. Lists(ReadyEntries, Staying, Places(pos), s_order_table)
  BY ReadyNow
<1>2. Lists(ReadyEntries', Staying, Places(p)', s_order_table')
  BY ReadyNext
<1>3. QED BY <1>1, <1>2, ListsSame

LEMMA ReadyUntouched ==
  ASSUME QueueInv, QueueInv', UNCHANGED queue, Queued' = Queued, ~Leaving, ~Leaving',
         \A t \in Queued : s_order_table'[t] = s_order_table[t]
  PROVE  UNCHANGED ReadyEntries
<1>1. PICK pos \in [Tids -> Tids0] : Ranked(pos)
  BY DEF QueueInv, QueueWellFormed
<1>2. RankedNext(pos)
  BY <1>1, ChainOfQueue DEF RankedNext, queue
<1>3. Staying = Queued /\ Staying' = Queued /\ Queued \subseteq Tids
  BY QueuedType DEF Staying, QueueInv
<1>4. \A t \in Tids : Places(pos)'[t] = Places(pos)[t]
  BY DEF Places
<1>5. QED BY <1>1, <1>2, <1>3, <1>4, ReadyKept

\* A thread leaves the queue: those behind it move up.
LEMMA ReadyWithout ==
  ASSUME QueueInv, QueueInv', NEW c \in Staying, Staying' = Staying \ {c},
         NEW pos \in [Tids -> Tids0], Ranked(pos), NEW p \in [Tids -> Tids0], RankedNext(p),
         \A t \in Staying' : /\ Places(p)'[t] = IF Places(pos)[t] > Places(pos)[c]
                                                THEN Places(pos)[t] - 1 ELSE Places(pos)[t]
                            /\ s_order_table'[t] = s_order_table[t]
  PROVE  ReadyEntries' = RQ!Without(c)
<1> DEFINE seq == ReadyEntries
           place == Places(pos)
           n == CHOOSE i \in 1..Len(seq) : seq[i].tid = c
           rest == SubSeq(seq, 1, place[c] - 1) \o SubSeq(seq, place[c] + 1, Len(seq))
<1>1. Lists(seq, Staying, place, s_order_table)
  BY ReadyNow
<1>2. Lists(seq', Staying \ {c}, Places(p)', s_order_table')
  BY ReadyNext
<1>3. Lists(rest, Staying \ {c}, Places(p)', s_order_table)
  <2> HIDE DEF seq, place
  <2>1. \A t \in Staying \ {c} : Places(p)'[t] = IF place[t] > place[c] THEN place[t] - 1 ELSE place[t]
    BY DEF place
  <2>2. QED BY <1>1, <2>1, ListsWithout
<1>4. ReadyEntries' = rest
  <2>1. Lists(ReadyEntries', Staying \ {c}, Places(p)', s_order_table')
    BY <1>2
  <2>2. \A t \in Staying \ {c} : s_order_table'[t] = s_order_table[t]
    OBVIOUS
  <2> HIDE DEF rest
  <2>3. QED BY <1>3, <2>1, <2>2, ListsSame
<1>5. n = place[c]
  <2> HIDE DEF seq, place
  <2>1. \A i \in 1..Len(seq) : seq[i].tid = c <=> i = place[c]
    BY <1>1, ListsMembers
  <2>2. place[c] \in 1..Len(seq)
    BY <1>1, ListsFacts
  <2>3. QED BY <2>1, <2>2
<1>6. RQ!IsReady(c)
  BY ReadyMembers
<1>7. QED BY <1>4, <1>5, <1>6 DEF RQ!Without

\* A thread joins the queue behind the n that do not go after it.
LEMMA ReadyWith ==
  ASSUME QueueInv, QueueInv', NEW c \in Tids \ Staying, Staying' = Staying \cup {c},
         NEW pos \in [Tids -> Tids0], Ranked(pos), NEW p \in [Tids -> Tids0], RankedNext(p),
         NEW n \in 0..Len(ReadyEntries), Places(p)'[c] = n + 1,
         NEW key \in Nat, key = s_order_table'[c],
         \A t \in Staying :
           /\ Places(p)'[t] = IF Places(pos)[t] > n THEN Places(pos)[t] + 1 ELSE Places(pos)[t]
           /\ s_order_table'[t] = s_order_table[t]
           /\ IF Places(pos)[t] > n THEN s_order_table[t] > key ELSE s_order_table[t] <= key
  PROVE  ReadyEntries' = RQ!Placed([tid |-> c, key |-> key])
<1> DEFINE seq == ReadyEntries
           place == Places(pos)
           place2 == Places(p)'
           order2 == s_order_table'
           more == SubSeq(seq, 1, n) \o <<EntryOf(c, order2)>> \o SubSeq(seq, n + 1, Len(seq))
           fits == {m \in 0..Len(seq) : \A i \in 1..m : seq[i].key <= key}
<1>1. Lists(seq, Staying, place, s_order_table)
  BY ReadyNow
<1>2. Lists(ReadyEntries', Staying \cup {c}, place2, order2)
  BY ReadyNext
<1>3. Lists(more, Staying \cup {c}, place2, order2)
  <2>1. /\ place2[c] = n + 1 /\ order2[c] \in Nat
        /\ \A t \in Staying : /\ place2[t] = IF place[t] > n THEN place[t] + 1 ELSE place[t]
                             /\ order2[t] = s_order_table[t]
    OBVIOUS
  <2> HIDE DEF seq, place, place2, order2, more
  <2>2. n \in 0..Len(seq)
    BY DEF seq
  <2>3. QED BY <1>1, <2>1, <2>2, ListsWith DEF more
<1>4. ReadyEntries' = more
  <2> HIDE DEF more, place2, order2
  <2>1. QED BY <1>2, <1>3, ListsSame
<1>5. RQ!FrontLength(key) = n
  <2>1. /\ Len(seq) \in Nat
        /\ \A i \in 1..Len(seq) : \E t \in Staying : place[t] = i
        /\ \A t \in Staying : place[t] \in 1..Len(seq) /\ seq[place[t]] = EntryOf(t, s_order_table)
    BY <1>1, ListsFacts
  <2>2. \A t \in Staying : seq[place[t]].key = s_order_table[t]
    BY <2>1, EntryFacts
  <2>3. \A t \in Staying : s_order_table[t] \in Nat
    BY QueuedType, DataAssumption DEF QueueInv, Typed, TablesTyped, Staying
  <2>4. \A i \in 1..Len(seq) : IF i > n THEN ~(seq[i].key <= key) ELSE seq[i].key <= key
    <3> TAKE i \in 1..Len(seq)
    <3>1. PICK t \in Staying : place[t] = i
      BY <2>1
    <3>2. IF i > n THEN s_order_table[t] > key ELSE s_order_table[t] <= key
      BY <3>1
    <3>3. seq[i].key = s_order_table[t] /\ s_order_table[t] \in Nat
      BY <2>2, <2>3, <3>1
    <3> HIDE DEF seq
    <3>4. QED BY <3>2, <3>3
  <2> HIDE DEF seq, place
  <2>5. n \in 0..Len(seq) /\ n \in Nat
    BY <2>1 DEF seq
  <2>6. n \in fits
    BY <2>1, <2>4, <2>5
  <2>7. \A m \in fits : m <= n
    <3> SUFFICES ASSUME NEW m \in fits, m > n PROVE FALSE
      BY <2>1, <2>5
    <3>1. n + 1 \in 1..m /\ n + 1 \in 1..Len(seq) /\ n + 1 > n
      BY <2>1, <2>5
    <3>2. QED BY <2>4, <3>1
  <2>8. fits \subseteq Nat
    BY <2>1
  <2> HIDE DEF fits
  <2> DEFINE longest == CHOOSE x \in fits : \A m \in fits : m <= x
  <2>9. longest \in fits /\ \A m \in fits : m <= longest
    BY <2>6, <2>7
  <2> HIDE DEF longest
  <2>10. longest = n
    BY <2>5, <2>6, <2>7, <2>8, <2>9
  <2>11. QED BY <2>10 DEF RQ!FrontLength, fits, seq, longest
<1>6. EntryOf(c, order2) = [tid |-> c, key |-> key]
  BY DEF EntryOf
<1>7. [tid |-> c, key |-> key].key = key
  OBVIOUS
<1>8. QED BY <1>4, <1>5, <1>6, <1>7 DEF RQ!Placed

-----------------------------------------------------------------------------
(***************************************************************************)
(* What a client sees of each step.                                         *)
(***************************************************************************)
Moving == RefineInv /\ RefineInv' /\ Next

\* mainProcess comes to the state remove with a thread in use, unless from DESTROY.
LEMMA NotLeaving ==
  ASSUME Moving, s_state # "remove", ~DestroyFree
  PROVE  ~Leaving /\ ~Leaving'
<1>1. ~Leaving
  BY DEF Leaving
<1>2. CASE s_state' # "remove"
  BY <1>1, <1>2 DEF Leaving
<1>3. ASSUME NEW tid \in Tids, Remove(tid), s_state' = "remove"
      PROVE  ~Leaving'
  BY <1>1, <1>3 DEF Remove, threads, Leaving, Moving, RefineInv, OrderInv, Registered
<1>4. ASSUME RemoveHead, s_state' = "remove"
      PROVE  ~Leaving'
  <2>1. s_head_tid \in s_enqueue_bitmap /\ s_command_tid' = s_head_tid /\ UNCHANGED threads
    BY <1>4 DEF RemoveHead, Moving, RefineInv, OrderInv, QueueInv, QueueWellFormed, Ranked, Queued
  <2>2. QED BY <1>1, <2>1 DEF threads, Leaving, Moving, RefineInv, OrderInv, Registered
<1>5. CASE Command /\ s_state' = "remove"
  BY <1>1, <1>3, <1>4, <1>5
     DEF Command, Create, Destroy, Insert, UpdateRunning, SetQuantum, ResetTicks, RestartTime,
         Enable, Disable, SetEnabled, IntAck, GetId, Chosen, Size, Answer, Reset
<1>6. ~(Clock /\ s_state' = "remove")
  BY DEF Clock, Idle, PreInsert, InsertWait, InsertLink, RemoveUnlink, Finish, PreGetId,
         GetIdWait, GetIdFinish, machine
<1>7. QED BY <1>1, <1>2, <1>5, <1>6 DEF Moving, Next, PinReset

\* Outside a removal, ReadyQueue sees the return register itself, and the whole queue.
LEMMA Steady ==
  ASSUME Moving, s_state # "remove", ~DestroyFree, UNCHANGED queue, Queued' = Queued,
         \A t \in Queued : s_order_table'[t] = s_order_table[t]
  PROVE  UNCHANGED ReadyEntries
  BY NotLeaving, ReadyUntouched DEF Moving, RefineInv, OrderInv

LEMMA QuietStep ==
  ASSUME Moving, s_state # "remove", ~DestroyFree, UNCHANGED <<threads, queue, Linking>>
  PROVE  UNCHANGED <<ReadyEntries, s_obj_table, s_tid_bitmap>>
  BY Steady DEF threads, queue, Queued

LEMMA QuietSeen ==
  ASSUME Moving, s_state # "remove", ~DestroyFree,
         UNCHANGED <<threads, queue, Linking, s_running_tid, s_return>>
  PROVE  UNCHANGED RQ!rqVars
<1>1. UNCHANGED <<ReadyEntries, s_obj_table, s_tid_bitmap, s_running_tid, s_return>>
  BY QuietStep
<1>2. QED BY <1>1, NotLeaving DEF RQ!rqVars

LEMMA CreateSeen ==
  ASSUME Moving, NEW obj \in Objects, NEW prio \in Priorities, Create(obj, prio)
  PROVE  IF s_tid_bitmap = Tids THEN s_state' = "exit_error" /\ UNCHANGED RQ!rqVars
         ELSE s_state' = "exit_ok" /\ RQ!RQCreate(obj)
<1>1. s_state = "idle" /\ s_state' \in {"exit_ok", "exit_error"} /\ UNCHANGED <<queue, s_running_tid>>
  BY DEF Create, Accept
<1>2. ~DestroyFree /\ ~Leaving /\ ~Leaving' /\ Linking = {} /\ Linking' = {}
  BY <1>1 DEF DestroyFree, Leaving, Linking
<1>3. CASE s_full
  <2>1. s_tid_bitmap = Tids
    BY <1>1, <1>3 DEF Moving, RefineInv, OrderInv, FreshInv, Fresh
  <2>2. s_state' = "exit_error" /\ UNCHANGED <<threads, queue, Linking, s_running_tid, s_return>>
    BY <1>2, <1>3 DEF Create
  <2>3. UNCHANGED RQ!rqVars
    BY <1>1, <1>2, <2>2, QuietSeen
  <2>4. QED BY <2>1, <2>2, <2>3
<1>4. CASE ~s_full
  <2>1. /\ s_tid_bitmap' = s_tid_bitmap \cup {s_free_tid}
        /\ s_order_table' = [s_order_table EXCEPT ![s_free_tid] = Order(prio)]
        /\ s_obj_table' = [s_obj_table EXCEPT ![s_free_tid] = obj]
        /\ s_return' = s_free_tid /\ s_state' = "exit_ok"
    BY <1>4 DEF Create
  <2>2. s_free_tid \in Tids \ s_tid_bitmap /\ Queued \subseteq s_tid_bitmap /\ Queued \subseteq Tids
    BY <1>1, <1>2, <1>4, QueuedType
       DEF Moving, RefineInv, OrderInv, FreshInv, Fresh, Registered, Queued, QueueInv
  <2>3. Queued' = Queued /\ \A t \in Queued : s_order_table'[t] = s_order_table[t]
    BY <1>1, <1>2, <2>1, <2>2
       DEF queue, Queued, Moving, RefineInv, OrderInv, QueueInv, Typed, TablesTyped
  <2>4. UNCHANGED ReadyEntries
    BY <1>1, <1>2, <2>3, Steady
  <2>5. RQ!RQCreate(obj)
    BY <1>1, <1>2, <2>1, <2>2, <2>4 DEF RQ!RQCreate
  <2>6. QED BY <2>1, <2>2, <2>5
<1>5. QED BY <1>3, <1>4

LEMMA RemoveSeen ==
  ASSUME Moving, NEW tid \in Tids, Remove(tid)
  PROVE  IF tid \in s_enqueue_bitmap THEN s_state' = "remove" /\ ~Leaving' /\ UNCHANGED RQ!rqVars
         ELSE s_state' = "exit_ok" /\ RQ!RQDequeue(tid)
<1>1. s_state = "idle" /\ UNCHANGED <<threads, queue, s_running_tid>> /\ s_state' \in {"exit_ok", "remove"}
  BY DEF Remove, Accept
<1>2. ~DestroyFree /\ Linking = {} /\ Linking' = {}
  BY <1>1 DEF DestroyFree, Linking
<1>3. ~Leaving /\ ~Leaving'
  BY <1>1, <1>2, NotLeaving
<1>4. CASE tid \in s_enqueue_bitmap
  <2>1. s_state' = "remove" /\ UNCHANGED s_return
    BY <1>4 DEF Remove
  <2>2. UNCHANGED RQ!rqVars
    BY <1>1, <1>2, <2>1, QuietSeen
  <2>3. QED BY <1>3, <1>4, <2>1, <2>2
<1>5. CASE tid \notin s_enqueue_bitmap
  <2>1. s_return' = 0 /\ s_state' = "exit_ok"
    BY <1>5 DEF Remove
  <2>2. ~RQ!IsReady(tid)
    BY <1>3, <1>5, ReadyMembers DEF Moving, RefineInv, OrderInv, Staying, Queued
  <2>3. UNCHANGED <<ReadyEntries, s_obj_table, s_tid_bitmap>>
    BY <1>1, <1>2, QuietStep
  <2>4. RQ!RQDequeue(tid)
    BY <1>1, <1>3, <2>1, <2>2, <2>3 DEF RQ!RQDequeue, RQ!Without
  <2>5. QED BY <1>5, <2>1, <2>4
<1>6. QED BY <1>4, <1>5

LEMMA RemoveHeadSeen ==
  ASSUME Moving, RemoveHead
  PROVE  IF s_head_tid # 0 THEN s_state' = "remove" /\ ~Leaving' /\ UNCHANGED RQ!rqVars
         ELSE s_state' = "exit_ok" /\ RQ!RQDequeueHead
<1>1. s_state = "idle" /\ UNCHANGED <<threads, queue, s_running_tid>> /\ s_state' \in {"exit_ok", "remove"}
  BY DEF RemoveHead, Accept
<1>2. ~DestroyFree /\ Linking = {} /\ Linking' = {}
  BY <1>1 DEF DestroyFree, Linking
<1>3. ~Leaving /\ ~Leaving'
  BY <1>1, <1>2, NotLeaving
<1>4. CASE s_head_tid # 0
  <2>1. s_state' = "remove" /\ UNCHANGED s_return
    BY <1>4 DEF RemoveHead
  <2>2. UNCHANGED RQ!rqVars
    BY <1>1, <1>2, <2>1, QuietSeen
  <2>3. QED BY <1>3, <1>4, <2>1, <2>2
<1>5. CASE s_head_tid = 0
  <2>1. s_return' = 0 /\ s_state' = "exit_ok"
    BY <1>5 DEF RemoveHead
  <2>2. Queued = {}
    BY <1>5 DEF Moving, RefineInv, OrderInv, QueueInv, QueueWellFormed, Ranked
  <2>3. ReadyEntries = <<>>
    BY <1>3, <2>2, ReadyMembers DEF Moving, RefineInv, OrderInv, Staying
  <2>4. UNCHANGED <<ReadyEntries, s_obj_table, s_tid_bitmap>>
    BY <1>1, <1>2, QuietStep
  <2>5. RQ!RQDequeueHead
    BY <1>1, <1>3, <2>1, <2>3, <2>4 DEF RQ!RQDequeueHead
  <2>6. QED BY <1>5, <2>1, <2>5
<1>6. QED BY <1>4, <1>5

LEMMA UpdateRunningSeen ==
  ASSUME Moving, NEW tid \in Tids0, UpdateRunning(tid)
  PROVE  RQ!RQSetRunning(tid)
<1>1. /\ s_state = "idle" /\ s_state' = "exit_ok" /\ s_running_tid' = tid
      /\ UNCHANGED <<threads, queue, s_return>>
  BY DEF UpdateRunning, Accept
<1>2. ~DestroyFree /\ Linking = {} /\ Linking' = {} /\ ~Leaving /\ ~Leaving'
  BY <1>1 DEF DestroyFree, Linking, Leaving
<1>3. UNCHANGED <<ReadyEntries, s_obj_table, s_tid_bitmap>>
  BY <1>1, <1>2, QuietStep
<1>4. QED BY <1>1, <1>2, <1>3 DEF RQ!RQSetRunning

LEMMA ChosenSeen ==
  ASSUME Moving, Chosen \/ Size
  PROVE  (Chosen => RQ!RQChosen) /\ (Size => RQ!RQSize)
<1>1. /\ s_state = "idle" /\ s_state' = "exit_ok" /\ UNCHANGED <<threads, queue, s_running_tid>>
      /\ Chosen => s_return' = IF s_running_tid = 0 THEN 0 ELSE s_obj_table[s_running_tid]
      /\ Size => s_return' = s_size + 1
  BY DEF Chosen, Size, Answer, Accept
<1>2. ~DestroyFree /\ Linking = {} /\ Linking' = {} /\ ~Leaving /\ ~Leaving'
  BY <1>1 DEF DestroyFree, Linking, Leaving
<1>3. UNCHANGED <<ReadyEntries, s_obj_table, s_tid_bitmap>>
  BY <1>1, <1>2, QuietStep
<1>4. Len(ReadyEntries) = s_size
  BY <1>2, ReadyMembers DEF Moving, RefineInv, OrderInv
<1>5. Chosen => RQ!RQChosen
  BY <1>1, <1>2, <1>3 DEF RQ!RQChosen
<1>6. Size => RQ!RQSize
  BY <1>1, <1>2, <1>3, <1>4 DEF RQ!RQSize
<1>7. QED BY <1>5, <1>6

LEMMA ClearSeen ==
  ASSUME Moving, Reset \/ PinReset
  PROVE  RQ!RQReset
<1>1. ClearAll /\ s_state' \in {"idle", "exit_ok"}
  BY DEF Reset, PinReset
<1>2. Staying' = {} /\ ~Leaving'
  BY <1>1 DEF ClearAll, ClearQueue, Staying, Queued, Leaving
<1>3. ReadyEntries' = <<>>
  BY <1>2, EmptyNext DEF EmptyReady, Moving, RefineInv, OrderInv
<1>4. QED BY <1>1, <1>2, <1>3 DEF RQ!RQReset, ClearAll, EmptyTable

LEMMA GetIdSeen ==
  ASSUME Moving, GetIdFinish
  PROVE  /\ RQ!RQGetId(s_stid_obj_ptr)
         /\ s_state' = IF RQ!Found(s_stid_obj_ptr) THEN "exit_ok" ELSE "exit_error"
<1>1. /\ s_state = "getid" /\ s_stid_done /\ s_state' \in {"exit_ok", "exit_error"}
      /\ s_return' = s_stid_found /\ UNCHANGED <<threads, queue, s_running_tid>>
  BY DEF GetIdFinish
<1>2. ~DestroyFree /\ Linking = {} /\ Linking' = {} /\ ~Leaving /\ ~Leaving'
  BY <1>1 DEF DestroyFree, Linking, Leaving
<1>3. UNCHANGED <<ReadyEntries, s_obj_table, s_tid_bitmap>>
  BY <1>1, <1>2, QuietStep
<1>4. s_stid_found \in Tids0 /\ s_stid_obj_ptr \in Objects \cup {0}
  BY DEF Moving, RefineInv, OrderInv, QueueInv, Typed, ProcessesTyped, MachineTyped
<1>5. \/ s_stid_found = 0 /\ \A t \in Tids : s_obj_table[t] # s_stid_obj_ptr
      \/ /\ s_stid_found \in Tids /\ s_obj_table[s_stid_found] = s_stid_obj_ptr
         /\ \A t \in Tids : s_obj_table[t] = s_stid_obj_ptr => s_stid_found <= t
  BY <1>1, <1>4, SizeAssumption DEF Moving, RefineInv, Sought, Tids, Tids0
<1>6. RQ!RQGetId(s_stid_obj_ptr)
  BY <1>1, <1>2, <1>3, <1>5 DEF RQ!RQGetId
<1>7. RQ!Found(s_stid_obj_ptr) <=> s_stid_found # 0
  BY <1>5 DEF RQ!Found, Tids
<1>8. QED BY <1>6, <1>7 DEF GetIdFinish

\* Into the empty queue a thread goes at once; otherwise the queue waits for the search.
LEMMA InsertSeen ==
  ASSUME Civil, Moving, NEW tid \in Insertable, NEW prio \in Priorities, Insert(tid, prio)
  PROVE  IF s_head_tid = 0 THEN s_state' = "exit_ok" /\ RQ!RQEnqueue(tid, prio)
         ELSE s_state' = "preinsert" /\ UNCHANGED RQ!rqVars
<1>1. /\ s_state = "idle" /\ s_state' \in {"exit_ok", "preinsert"}
      /\ s_order_table' = [s_order_table EXCEPT ![tid] = Order(prio)]
      /\ UNCHANGED <<s_return, s_tid_bitmap, s_obj_table, s_running_tid>>
  BY DEF Insert, Accept
<1>2. ~DestroyFree /\ ~Leaving /\ ~Leaving' /\ Staying = Queued /\ Staying' = Queued'
  BY <1>1 DEF DestroyFree, Leaving, Staying
<1>3. QueueInv /\ QueueInv'
  BY DEF Moving, RefineInv, OrderInv
<1>4. tid \in Tids /\ tid \notin Queued /\ Queued \subseteq Tids
  BY <1>1, <1>3, QueuedType DEF Insertable, Queued, QueueInv
<1>5. PICK pos \in [Tids -> Tids0] : Ranked(pos)
  BY <1>3 DEF QueueInv, QueueWellFormed
<1>6. PICK p \in [Tids -> Tids0] :
        /\ RankedNext(p)
        /\ s_head_tid = 0 => Queued = {} /\ Queued' = {tid}
        /\ s_head_tid # 0 => p = pos /\ Queued' = Queued
  BY <1>3, <1>5, InsertRanks
<1>7. \A t \in Queued : s_order_table'[t] = s_order_table[t]
  BY <1>1, <1>3, <1>4 DEF QueueInv, Typed, TablesTyped
<1>8. CASE s_head_tid = 0
  <2>1. Staying = {} /\ Staying' = {tid}
    BY <1>2, <1>6, <1>8
  <2>2. ReadyEntries = <<>> /\ ~RQ!IsReady(tid)
    BY <1>3, <2>1, ReadyMembers
  <2>3. s_size' = 1
    BY <1>3, <1>5, <1>6, <1>8 DEF Insert, Ranked
  <2>4. p[tid] = 1
    <3>1. p[tid] \in 1..s_size'
      BY <1>4, <1>6, <1>8 DEF RankedNext, Chain
    <3>2. QED BY <2>3, <3>1
  <2>5. Places(p)'[tid] = 0 + 1
    BY <1>2, <1>4, <2>4 DEF Places
  <2>6. Order(prio) = prio /\ prio \in Nat
    BY FittingOrder, DataAssumption
  <2>7. prio = s_order_table'[tid]
    BY <1>1, <1>3, <1>4, <2>6 DEF QueueInv, Typed, TablesTyped
  <2>8. 0 \in 0..Len(ReadyEntries)
    BY <2>2
  <2>9. ReadyEntries' = RQ!Placed([tid |-> tid, key |-> prio])
    BY <1>3, <1>4, <1>5, <1>6, <2>1, <2>5, <2>6, <2>7, <2>8, ReadyWith
  <2>10. RQ!RQEnqueue(tid, prio)
    BY <1>1, <1>2, <2>2, <2>9 DEF RQ!RQEnqueue
  <2>11. QED BY <1>8, <2>10 DEF Insert
<1>9. CASE s_head_tid # 0
  <2>1. \A t \in Staying : Places(p)'[t] = Places(pos)[t]
    BY <1>2, <1>4, <1>6, <1>9 DEF Places
  <2>2. ReadyEntries' = ReadyEntries
    BY <1>2, <1>3, <1>5, <1>6, <1>7, <1>9, <2>1, ReadyKept
  <2>3. UNCHANGED RQ!rqVars
    BY <1>1, <1>2, <2>2 DEF RQ!rqVars
  <2>4. QED BY <1>9, <2>3 DEF Insert
<1>10. QED BY <1>8, <1>9

\* The INSERT takes effect where its thread is linked.
LEMMA InsertLinkSeen ==
  ASSUME Moving, InsertLink
  PROVE  RQ!RQEnqueue(s_command_tid, s_search_order)
<1> DEFINE c == s_command_tid
           found == s_found_tid
           key == s_search_order
<1>1. /\ s_state = "insert" /\ s_state' = "exit_ok" /\ s_search_done /\ s_return' = c
      /\ UNCHANGED <<threads, s_running_tid>>
  BY DEF InsertLink
<1>2. ~Leaving /\ ~Leaving' /\ Staying = Queued /\ Staying' = Queued'
  BY <1>1 DEF Leaving, Staying
<1>3. QueueInv /\ QueueInv'
  BY DEF Moving, RefineInv, OrderInv
<1>4. PICK pos \in [Tids -> Tids0] : Ranked(pos) /\ InOrder(pos) /\ Walked(pos)
  BY DEF Moving, RefineInv, OrderInv, SortInv
<1>5. c \in Tids \ Queued /\ Queued' = Queued \cup {c} /\ Queued \subseteq Tids
  BY <1>3, <1>4, LinkRanks, QueuedType DEF QueueInv
<1>6. PICK p \in [Tids -> Tids0] :
        /\ RankedNext(p)
        /\ p[c] = IF found = 0 THEN s_size + 1 ELSE pos[found]
        /\ \A t \in Queued :
             p[t] = IF found # 0 /\ pos[t] >= pos[found] THEN pos[t] + 1 ELSE pos[t]
  BY <1>3, <1>4, LinkRanks
<1>7. /\ found = 0 \/ found \in Queued
      /\ Queued # {}
      /\ s_order_table[c] = key /\ key \in Priorities
      /\ s_search_order \in Nat
  BY <1>1, <1>4 DEF Moving, RefineInv, OrderInv, QueueInv, Working, Ranked, Registered, Keyed,
                    Typed, MachineTyped
<1>8. /\ \A t \in Queued : pos[t] \in 1..s_size
      /\ \A t, u \in Queued : pos[t] = pos[u] => t = u
      /\ s_size \in Nat
      /\ \A t \in Tids : s_order_table[t] \in Nat
  BY <1>3, <1>4, <1>5, SizeType, DataAssumption DEF Ranked, QueueInv, Typed, TablesTyped, Tids0
<1> DEFINE length == IF found = 0 THEN s_size ELSE pos[found] - 1
<1>9. length \in 0..Len(ReadyEntries)
  <2>1. Len(ReadyEntries) = s_size
    BY <1>2, <1>3, ReadyMembers
  <2>2. QED BY <1>7, <1>8, <2>1
<1>10. Places(p)'[c] = length + 1
  <2>1. p[c] = length + 1
    BY <1>6, <1>7, <1>8
  <2>2. QED BY <1>2, <1>5, <2>1 DEF Places
<1>11. s_order_table' = s_order_table /\ key = s_order_table'[c]
  BY <1>1, <1>7 DEF threads
<1>12. ASSUME NEW t \in Queued
       PROVE  /\ Places(p)'[t] = IF Places(pos)[t] > length THEN Places(pos)[t] + 1 ELSE Places(pos)[t]
              /\ IF Places(pos)[t] > length THEN s_order_table[t] > key ELSE s_order_table[t] <= key
  <2>1. Places(pos)[t] = pos[t] /\ Places(p)'[t] = p[t]
    BY <1>2, <1>5 DEF Places
  <2>2. pos[t] > length <=> found # 0 /\ pos[t] >= pos[found]
    BY <1>7, <1>8
  <2>3. p[t] = IF pos[t] > length THEN pos[t] + 1 ELSE pos[t]
    BY <1>6, <2>2
  <2>4. IF pos[t] > length THEN s_order_table[t] > key ELSE s_order_table[t] <= key
    <3>1. CASE found # 0 /\ pos[t] >= pos[found]
      <4>1. s_order_table[found] > key
        BY <1>1, <1>4, <3>1 DEF Walked
      <4>2. pos[found] < pos[t] \/ t = found
        BY <1>7, <1>8, <3>1
      <4>3. pos[found] < pos[t] => s_order_table[found] <= s_order_table[t]
        BY <1>2, <1>4, <1>7, <3>1 DEF InOrder
      <4>4. s_order_table[found] \in Nat /\ s_order_table[t] \in Nat
        BY <1>5, <1>7, <1>8, <3>1
      <4>5. s_order_table[t] > key
        BY <1>7, <4>1, <4>2, <4>3, <4>4
      <4>6. QED BY <2>2, <3>1, <4>5
    <3>2. CASE ~(found # 0 /\ pos[t] >= pos[found])
      <4>1. found = 0 \/ pos[t] < pos[found]
        BY <1>7, <1>8, <3>2
      <4>2. s_order_table[t] <= key
        BY <1>1, <1>4, <4>1 DEF Walked
      <4>3. QED BY <2>2, <3>2, <4>2
    <3>3. QED BY <3>1, <3>2
  <2>5. QED BY <2>1, <2>3, <2>4
<1>13. key \in Nat /\ c \in Tids \ Staying /\ Staying' = Staying \cup {c}
  BY <1>2, <1>5, <1>7
<1> HIDE DEF c, found, key, length
<1>14. ReadyEntries' = RQ!Placed([tid |-> c, key |-> key])
  BY <1>2, <1>3, <1>4, <1>6, <1>9, <1>10, <1>11, <1>12, <1>13, ReadyWith
<1>15. ~RQ!IsReady(c) /\ ReadyEntries # <<>>
  BY <1>2, <1>3, <1>5, <1>7, ReadyMembers
<1>16. RQ!RQEnqueue(c, key)
  BY <1>1, <1>2, <1>14, <1>15 DEF RQ!RQEnqueue, threads, c
<1>17. QED BY <1>16 DEF c, key

\* The DESTROY takes effect where the row is freed: the thread leaves, though still linked.
LEMMA DestroyFreeSeen ==
  ASSUME Moving, DestroyFree
  PROVE  RQ!RQDestroy(s_command_tid)
<1> DEFINE c == s_command_tid
<1>1. /\ s_state = "destroy" /\ s_command_tid' = c
      /\ s_state' = IF c \in s_enqueue_bitmap THEN "remove" ELSE "exit_ok"
      /\ s_tid_bitmap' = s_tid_bitmap \ {c}
      /\ s_obj_table' = [s_obj_table EXCEPT ![c] = 0]
      /\ s_order_table' = [s_order_table EXCEPT ![c] = 0]
      /\ UNCHANGED <<queue, s_return, s_running_tid>>
  BY DEF DestroyFree
<1>2. QueueInv /\ QueueInv'
  BY DEF Moving, RefineInv, OrderInv
<1>3. c \in Tids /\ Queued \subseteq Tids
  BY <1>1, <1>2, QueuedType DEF QueueInv, Typed, Addressed
<1>4. /\ ~Leaving /\ Staying = Queued /\ Queued = s_enqueue_bitmap /\ Queued' = Queued
      /\ Leaving' <=> c \in Queued
  BY <1>1 DEF Leaving, Staying, Queued, Linking, queue
<1>5. PICK pos \in [Tids -> Tids0] : Ranked(pos)
  BY <1>2 DEF QueueInv, QueueWellFormed
<1>6. RankedNext(pos)
  BY <1>1, <1>4, <1>5, ChainOfQueue DEF RankedNext, queue
<1>7. \A t \in Tids \ {c} : s_order_table'[t] = s_order_table[t]
  BY <1>1, <1>2 DEF QueueInv, Typed, TablesTyped
<1>8. ReadyEntries' = RQ!Without(c)
  <2>1. CASE c \in Queued
    <3>1. Staying' = Queued \ {c}
      BY <1>1, <1>4, <2>1 DEF Staying
    <3>2. \A t \in Staying' : Places(pos)'[t] = IF Places(pos)[t] > Places(pos)[c]
                                               THEN Places(pos)[t] - 1 ELSE Places(pos)[t]
      BY <1>1, <1>3, <1>4, <2>1, <3>1 DEF Places
    <3>3. QED BY <1>2, <1>4, <1>5, <1>6, <1>7, <1>3, <2>1, <3>1, <3>2, ReadyWithout
  <2>2. CASE c \notin Queued
    <3>1. Staying' = Queued
      BY <1>4, <2>2 DEF Staying
    <3>2. \A t \in Staying : Places(pos)'[t] = Places(pos)[t]
      BY <1>3, <1>4, <2>2 DEF Places
    <3>3. ReadyEntries' = ReadyEntries
      BY <1>2, <1>3, <1>4, <1>5, <1>6, <1>7, <2>2, <3>1, <3>2, ReadyKept
    <3>4. ~RQ!IsReady(c)
      BY <1>2, <1>4, <2>2, ReadyMembers
    <3>5. QED BY <3>3, <3>4 DEF RQ!Without
  <2>3. QED BY <2>1, <2>2
<1>9. RQ!IsReady(c) <=> c \in Queued
  BY <1>2, <1>4, ReadyMembers
<1>10. QED BY <1>1, <1>4, <1>8, <1>9 DEF RQ!RQDestroy

\* The head of the links is the head of the queue.
LEMMA HeadLeaves ==
  ASSUME QueueInv, ~Leaving, s_head_tid # 0
  PROVE  /\ ReadyEntries # <<>> /\ Head(ReadyEntries).tid = s_head_tid
         /\ RQ!Without(s_head_tid) = Tail(ReadyEntries)
<1> DEFINE seq == ReadyEntries
           h == s_head_tid
           n == CHOOSE i \in 1..Len(seq) : seq[i].tid = h
<1>1. PICK pos \in [Tids -> Tids0] : Ranked(pos)
  BY DEF QueueInv, QueueWellFormed
<1> DEFINE place == Places(pos)
<1>2. Lists(seq, Staying, place, s_order_table)
  BY <1>1, ReadyNow
<1>3. h \in Staying /\ h \in Tids /\ pos[h] = 1
  BY <1>1, QueuedType DEF Ranked, Staying, QueueInv
<1>4. place[h] = 1
  BY <1>3 DEF Places
<1> HIDE DEF seq, place, h
<1>5. seq \in Seq(Entries) /\ Len(seq) \in Nat /\ 1 \in 1..Len(seq)
  BY <1>2, <1>3, <1>4, ListsFacts
<1>6. \A i \in 1..Len(seq) : seq[i].tid = h <=> i = 1
  BY <1>2, <1>3, <1>4, ListsMembers
<1>7. n = 1
  BY <1>5, <1>6
<1> HIDE DEF n
<1>8. seq # <<>>
  BY <1>5, EmptySeq
<1>9. SubSeq(seq, 1, 0) = <<>> /\ SubSeq(seq, 2, Len(seq)) = Tail(seq) /\ Tail(seq) \in Seq(Entries)
  BY <1>5, <1>8, SubSeqEmpty, TailIsSubSeq, HeadTailProperties
<1>10. SubSeq(seq, 1, n - 1) \o SubSeq(seq, n + 1, Len(seq)) = Tail(seq)
  <2>1. n - 1 = 0 /\ n + 1 = 2
    BY <1>7
  <2>2. <<>> \o Tail(seq) = Tail(seq)
    BY <1>9, ConcatEmptySeq
  <2>3. QED BY <1>9, <2>1, <2>2
<1>11. RQ!IsReady(h) /\ Head(seq).tid = h
  BY <1>5, <1>6 DEF RQ!IsReady, seq
<1>12. QED BY <1>8, <1>10, <1>11 DEF RQ!Without, seq, h, n

\* Letting go of the links takes the thread of a REMOVE out; that of a DESTROY has left.
LEMMA RemoveUnlinkSeen ==
  ASSUME Moving, RemoveUnlink
  PROVE  IF Leaving THEN UNCHANGED RQ!rqVars
         ELSE /\ RQ!RQDequeue(s_command_tid)
              /\ s_command_tid = s_head_tid => RQ!RQDequeueHead
<1> DEFINE c == s_command_tid
<1>1. /\ s_state = "remove" /\ s_state' = "exit_ok" /\ s_return' = s_obj_table[c]
      /\ s_command_tid' = c /\ UNCHANGED <<threads, s_running_tid>>
  BY DEF RemoveUnlink
<1>2. QueueInv /\ QueueInv'
  BY DEF Moving, RefineInv, OrderInv
<1>3. PICK pos \in [Tids -> Tids0] : Ranked(pos)
  BY <1>2 DEF QueueInv, QueueWellFormed
<1>4. c \in Queued /\ Queued' = Queued \ {c} /\ Queued \subseteq Tids
  BY <1>2, <1>3, UnlinkRanks, QueuedType DEF QueueInv
<1>5. PICK p \in [Tids -> Tids0] :
        /\ RankedNext(p)
        /\ \A t \in Queued' : p[t] = IF pos[t] > pos[c] THEN pos[t] - 1 ELSE pos[t]
  BY <1>2, <1>3, UnlinkRanks
<1>6. ~Leaving' /\ Staying' = Queued \ {c} /\ s_order_table' = s_order_table
  BY <1>1, <1>4 DEF Leaving, Staying, threads
<1>7. \A t \in Tids : Places(p)'[t] = p[t]
  BY <1>6 DEF Places
<1>8. CASE Leaving
  <2>1. Staying = Queued \ {c} /\ c \notin s_tid_bitmap
    BY <1>8 DEF Staying, Leaving
  <2>2. \A t \in Staying : Places(p)'[t] = Places(pos)[t]
    BY <1>4, <1>5, <1>7, <1>8, <2>1 DEF Places
  <2>3. ReadyEntries' = ReadyEntries
    BY <1>2, <1>3, <1>5, <1>6, <2>1, <2>2, ReadyKept
  <2>4. s_return' = 0
    BY <1>1, <1>4, <2>1 DEF Moving, RefineInv, Unowned
  <2>5. UNCHANGED RQ!rqVars
    BY <1>1, <1>6, <1>8, <2>3, <2>4 DEF RQ!rqVars, threads
  <2>6. QED BY <1>8, <2>5
<1>9. CASE ~Leaving
  <2>1. Staying = Queued
    BY <1>9 DEF Staying
  <2>2. \A t \in Staying' : Places(p)'[t] = IF Places(pos)[t] > Places(pos)[c]
                                           THEN Places(pos)[t] - 1 ELSE Places(pos)[t]
    BY <1>4, <1>5, <1>6, <1>7, <1>9 DEF Places
  <2>3. ReadyEntries' = RQ!Without(c)
    BY <1>2, <1>3, <1>4, <1>5, <1>6, <2>1, <2>2, ReadyWithout
  <2>4. RQ!IsReady(c)
    BY <1>2, <1>4, <2>1, ReadyMembers
  <2>5. RQ!RQDequeue(c)
    BY <1>1, <1>6, <2>3, <2>4 DEF RQ!RQDequeue, threads
  <2>6. ASSUME c = s_head_tid
        PROVE  RQ!RQDequeueHead
    <3>1. c \in Tids /\ c # 0
      BY <1>4 DEF Tids
    <3>2. /\ ReadyEntries # <<>> /\ Head(ReadyEntries).tid = c
          /\ RQ!Without(c) = Tail(ReadyEntries)
      BY <1>2, <1>9, <2>6, <3>1, HeadLeaves
    <3>3. QED BY <1>1, <1>6, <2>3, <3>2 DEF RQ!RQDequeueHead, threads
  <2>7. QED BY <1>9, <2>5, <2>6
<1>10. QED BY <1>8, <1>9

-----------------------------------------------------------------------------
(***************************************************************************)
(* The command that is being executed.                                      *)
(***************************************************************************)
LEMMA RequestFacts ==
  ASSUME NEW r \in Requests
  PROVE  /\ r # NoRequest
         /\ r.cmd \in {"DESTROY", "REMOVE", "INSERT"} => r.param \in Tids
         /\ r.cmd \in {"CREATE", "INSERT"} => r.priority \in Priorities
         /\ r.cmd = "CREATE" => r.param \in Objects
         /\ r.cmd = "UPDATE_RUNNING" => r.param \in Tids0
         /\ r.cmd = "SET_QUANTUM" => r.param \in Quanta
         /\ r.cmd = "GETID" => r.param \in Lookups
  BY DEF Requests, NoRequest

\* While the block is busy, asked is its command, and where the operation has still to
\* happen, the registers hold the operands of that command.
Tracked ==
  /\ asked \in Requests \cup {NoRequest}
  /\ asked = NoRequest <=> s_state = "idle"
  /\ s_state # "idle" => ~s_done /\ ~s_error
  /\ s_state = "destroy" => asked.cmd = "DESTROY" /\ asked.param = s_command_tid
  /\ s_state = "remove" /\ ~Leaving =>
       \/ asked.cmd = "REMOVE" /\ asked.param = s_command_tid
       \/ asked.cmd = "REMOVE_HEAD" /\ s_command_tid = s_head_tid
  /\ s_state \in {"preinsert", "insert"} =>
       /\ asked.cmd = "INSERT" /\ asked.param = s_command_tid
       /\ asked.priority = s_search_order
  /\ s_state \in {"pregetid", "getid"} => asked.cmd = "GETID" /\ asked.param = s_stid_obj_ptr

LEMMA AskIsCommand ==
  ASSUME NEW r \in Requests, Ask(r)
  PROVE  Command
  BY RequestFacts DEF Ask, Executes, Command

LEMMA AskedStepIsStep ==
  ASSUME [AskedNext]_<<vars, asked>>
  PROVE  [Next]_vars
  BY AskIsCommand DEF AskedNext, Tick, Next

\* Where a command leads from idle.
LEMMA Begun ==
  ASSUME NEW r \in Requests, Ask(r)
  PROVE  /\ asked' = r /\ s_state = "idle" /\ s_state' # "idle" /\ ~s_done' /\ ~s_error'
         /\ s_state' \notin {"insert", "getid"}
         /\ s_state' = "destroy" => r.cmd = "DESTROY" /\ r.param = s_command_tid'
         /\ s_state' = "remove" =>
              \/ r.cmd = "REMOVE" /\ r.param = s_command_tid'
              \/ r.cmd = "REMOVE_HEAD" /\ s_command_tid' = s_head_tid'
         /\ s_state' = "preinsert" => /\ r.cmd = "INSERT" /\ r.param = s_command_tid'
                                      /\ r.priority = s_search_order'
         /\ s_state' = "pregetid" => r.cmd = "GETID" /\ r.param = s_stid_obj_ptr'
<1>1. asked' = r
  BY DEF Ask
<1>2. CASE r.cmd \in {"CREATE", "DESTROY", "INSERT", "REMOVE", "REMOVE_HEAD"}
  BY <1>1, <1>2 DEF Ask, Executes, Create, Destroy, Insert, Remove, RemoveHead, Accept, queue
<1>3. CASE r.cmd \notin {"CREATE", "DESTROY", "INSERT", "REMOVE", "REMOVE_HEAD"}
  BY <1>1, <1>3 DEF Ask, Executes, UpdateRunning, SetQuantum, ResetTicks, RestartTime, Enable,
     Disable, SetEnabled, IntAck, GetId, Chosen, Size, Answer, Reset, ClearAll, Accept
<1>4. QED BY <1>2, <1>3

LEMMA TrackedStep ==
  ASSUME RefineInv, RefineInv', Tracked, AskedNext
  PROVE  Tracked'
<1>1. ASSUME NEW r \in Requests, Ask(r)
      PROVE  Tracked'
  BY <1>1, Begun, RequestFacts DEF Tracked
<1>2. CASE PinReset /\ asked' = NoRequest
  BY <1>2 DEF PinReset, Tracked
<1>3. CASE Tick
  <2>1. CASE Idle \/ Finish
    BY <1>3, <2>1 DEF Tick, Idle, Finish, machine, Tracked
  <2>2. CASE InsertLink \/ RemoveUnlink \/ GetIdFinish
    BY <1>3, <2>2 DEF Tick, InsertLink, RemoveUnlink, GetIdFinish, Tracked
  <2>3. CASE PreInsert \/ InsertWait \/ PreGetId \/ GetIdWait
    BY <1>3, <2>3 DEF Tick, PreInsert, InsertWait, PreGetId, GetIdWait, machine, stidRequest,
       searchRequest, Tracked
  <2>4. CASE DestroyFree
    <3>1. s_state' = "remove" => Leaving'
      BY <2>4 DEF DestroyFree, Leaving
    <3>2. QED BY <1>3, <2>4, <3>1 DEF Tick, DestroyFree, Tracked
  <2>5. QED BY <1>3, <2>1, <2>2, <2>3, <2>4 DEF Tick, Clock
<1>4. QED BY <1>1, <1>2, <1>3 DEF AskedNext

-----------------------------------------------------------------------------
(***************************************************************************)
(* The block implements CommandedQueue.                                     *)
(***************************************************************************)
\* A command whose operation happens in the edge that accepts it.
LEMMA AtOnce ==
  ASSUME Tracked, NEW r \in Requests, Ask(r), RQ!Serves(r),
         s_state' = "exit_error" <=> RQ!Refuses(r),
         s_state' \notin {"destroy", "preinsert", "pregetid", "remove"}
  PROVE  RQ!Accept(r)
<1>1. /\ asked = RQ!NoRequest /\ asked' = r /\ s_done' = FALSE /\ ~s_error'
      /\ s_state' \notin {"idle", "insert", "getid"}
  BY Begun DEF Tracked, NoRequest, RQ!NoRequest
<1>2. Performed' = TRUE
  BY <1>1 DEF Performed, Pending
<1>3. Refused' = RQ!Refuses(r)
  BY <1>1 DEF Refused, RQ!Refuses
<1>4. QED BY <1>1, <1>2, <1>3 DEF RQ!Accept, RQ!Perform

\* A command whose operation has to wait.
LEMMA Deferred ==
  ASSUME Tracked, NEW r \in Requests, Ask(r), UNCHANGED RQ!rqVars,
         \/ s_state' \in {"destroy", "preinsert", "pregetid"}
         \/ s_state' = "remove" /\ ~Leaving'
  PROVE  RQ!Accept(r)
<1>1. asked = RQ!NoRequest /\ asked' = r /\ s_done' = FALSE /\ ~s_error'
  BY Begun DEF Tracked, NoRequest, RQ!NoRequest
<1>2. Performed' = FALSE /\ Refused' = FALSE
  BY <1>1 DEF Performed, Pending, Refused
<1>3. QED BY <1>1, <1>2 DEF RQ!Accept, RQ!Defer

LEMMA QuietCommand ==
  ASSUME Moving, NEW cmd, NEW value,
         \/ RestartTime(cmd, value) \/ SetEnabled(cmd, value)
         \/ IntAck \/ GetId(value) \/ Destroy(value)
  PROVE  UNCHANGED RQ!rqVars
<1>1. s_state = "idle" /\ s_state' \in {"exit_ok", "reset_time", "acknowledge_int", "pregetid", "destroy"}
  BY DEF RestartTime, SetEnabled, IntAck, GetId, Destroy, Accept
<1>2. Linking = {} /\ Linking' = {} /\ ~DestroyFree
  BY <1>1 DEF Linking, DestroyFree
<1>3. UNCHANGED <<threads, queue, s_running_tid, s_return>>
  BY DEF RestartTime, SetEnabled, IntAck, GetId, Destroy
<1>4. QED BY <1>1, <1>2, <1>3, QuietSeen

LEMMA AskSeen ==
  ASSUME Civil, Moving, Tracked, NEW r \in Requests, Ask(r)
  PROVE  RQ!Accept(r)
<1>0. Executes(r.cmd, r.priority, r.param)
  BY DEF Ask
<1>1. CASE r.cmd = "CREATE"
  <2>1. Create(r.param, r.priority) /\ r.param \in Objects /\ r.priority \in Priorities
    BY <1>0, <1>1, RequestFacts DEF Executes
  <2>2. IF s_tid_bitmap = Tids THEN s_state' = "exit_error" /\ UNCHANGED RQ!rqVars
        ELSE s_state' = "exit_ok" /\ RQ!RQCreate(r.param)
    BY <2>1, CreateSeen
  <2>3. RQ!Refuses(r) <=> s_tid_bitmap = Tids
    BY <1>1 DEF RQ!Refuses
  <2>4. RQ!Serves(r)
    BY <1>1, <2>2 DEF RQ!Serves
  <2>5. QED BY <2>2, <2>3, <2>4, AtOnce
<1>2. CASE r.cmd = "DESTROY"
  <2>1. Destroy(r.param)
    BY <1>0, <1>2 DEF Executes
  <2>2. s_state' = "destroy" /\ UNCHANGED RQ!rqVars
    BY <2>1, QuietCommand DEF Destroy
  <2>3. QED BY <2>2, Deferred
<1>3. CASE r.cmd = "INSERT"
  <2>1. Insert(r.param, r.priority) /\ r.param \in Insertable /\ r.priority \in Priorities
    BY <1>0, <1>3, RequestFacts DEF Executes, Ask
  <2>2. IF s_head_tid = 0 THEN s_state' = "exit_ok" /\ RQ!RQEnqueue(r.param, r.priority)
        ELSE s_state' = "preinsert" /\ UNCHANGED RQ!rqVars
    BY <2>1, InsertSeen
  <2>3. CASE s_head_tid = 0
    <3>1. RQ!Serves(r) /\ ~RQ!Refuses(r)
      BY <1>3, <2>2, <2>3 DEF RQ!Serves, RQ!Refuses
    <3>2. QED BY <2>2, <2>3, <3>1, AtOnce
  <2>4. CASE s_head_tid # 0
    BY <2>2, <2>4, Deferred
  <2>5. QED BY <2>3, <2>4
<1>4. CASE r.cmd = "REMOVE"
  <2>1. Remove(r.param) /\ r.param \in Tids
    BY <1>0, <1>4, RequestFacts DEF Executes
  <2>2. IF r.param \in s_enqueue_bitmap THEN s_state' = "remove" /\ ~Leaving' /\ UNCHANGED RQ!rqVars
        ELSE s_state' = "exit_ok" /\ RQ!RQDequeue(r.param)
    BY <2>1, RemoveSeen
  <2>3. CASE r.param \in s_enqueue_bitmap
    BY <2>2, <2>3, Deferred
  <2>4. CASE r.param \notin s_enqueue_bitmap
    <3>1. RQ!Serves(r) /\ ~RQ!Refuses(r)
      BY <1>4, <2>2, <2>4 DEF RQ!Serves, RQ!Refuses
    <3>2. QED BY <2>2, <2>4, <3>1, AtOnce
  <2>5. QED BY <2>3, <2>4
<1>5. CASE r.cmd = "REMOVE_HEAD"
  <2>1. RemoveHead
    BY <1>0, <1>5 DEF Executes
  <2>2. IF s_head_tid # 0 THEN s_state' = "remove" /\ ~Leaving' /\ UNCHANGED RQ!rqVars
        ELSE s_state' = "exit_ok" /\ RQ!RQDequeueHead
    BY <2>1, RemoveHeadSeen
  <2>3. CASE s_head_tid # 0
    BY <2>2, <2>3, Deferred
  <2>4. CASE s_head_tid = 0
    <3>1. RQ!Serves(r) /\ ~RQ!Refuses(r)
      BY <1>5, <2>2, <2>4 DEF RQ!Serves, RQ!Refuses
    <3>2. QED BY <2>2, <2>4, <3>1, AtOnce
  <2>5. QED BY <2>3, <2>4
<1>6. CASE r.cmd = "UPDATE_RUNNING"
  <2>1. UpdateRunning(r.param) /\ r.param \in Tids0
    BY <1>0, <1>6, RequestFacts DEF Executes
  <2>2. s_state' = "exit_ok" /\ RQ!RQSetRunning(r.param)
    BY <2>1, UpdateRunningSeen DEF UpdateRunning
  <2>3. RQ!Serves(r) /\ ~RQ!Refuses(r)
    BY <1>6, <2>2 DEF RQ!Serves, RQ!Refuses
  <2>4. QED BY <2>2, <2>3, AtOnce
<1>7. CASE r.cmd \in RQ!TimerControls
  <2>1. s_state' \in {"exit_ok", "reset_time", "acknowledge_int"} /\ UNCHANGED RQ!rqVars
    <3>1. \/ \E cmd, value : RestartTime(cmd, value) \/ SetEnabled(cmd, value)
          \/ IntAck
      BY <1>0, <1>7 DEF Executes, RQ!TimerControls, SetQuantum, ResetTicks, Enable, Disable
    <3>2. s_state' \in {"exit_ok", "reset_time", "acknowledge_int"}
      BY <3>1 DEF RestartTime, SetEnabled, IntAck
    <3>3. QED BY <3>1, <3>2, QuietCommand
  <2>2. RQ!Serves(r) /\ ~RQ!Refuses(r)
    BY <1>7, <2>1 DEF RQ!Serves, RQ!Refuses, RQ!TimerControls
  <2>3. QED BY <2>1, <2>2, AtOnce
<1>8. CASE r.cmd = "GETID"
  <2>1. GetId(r.param)
    BY <1>0, <1>8 DEF Executes
  <2>2. s_state' = "pregetid" /\ UNCHANGED RQ!rqVars
    BY <2>1, QuietCommand DEF GetId
  <2>3. QED BY <2>2, Deferred
<1>9. CASE r.cmd = "CHOSEN"
  <2>1. Chosen
    BY <1>0, <1>9 DEF Executes
  <2>2. s_state' = "exit_ok" /\ RQ!RQChosen
    BY <2>1, ChosenSeen DEF Chosen, Answer
  <2>3. RQ!Serves(r) /\ ~RQ!Refuses(r)
    BY <1>9, <2>2 DEF RQ!Serves, RQ!Refuses
  <2>4. QED BY <2>2, <2>3, AtOnce
<1>10. CASE r.cmd = "SIZE"
  <2>1. Size
    BY <1>0, <1>10 DEF Executes
  <2>2. s_state' = "exit_ok" /\ RQ!RQSize
    BY <2>1, ChosenSeen DEF Size, Answer
  <2>3. RQ!Serves(r) /\ ~RQ!Refuses(r)
    BY <1>10, <2>2 DEF RQ!Serves, RQ!Refuses
  <2>4. QED BY <2>2, <2>3, AtOnce
<1>11. CASE r.cmd = "RESET"
  <2>1. Reset
    BY <1>0, <1>11 DEF Executes
  <2>2. s_state' = "exit_ok" /\ RQ!RQReset
    BY <2>1, ClearSeen DEF Reset
  <2>3. RQ!Serves(r) /\ ~RQ!Refuses(r)
    BY <1>11, <2>2 DEF RQ!Serves, RQ!Refuses
  <2>4. QED BY <2>2, <2>3, AtOnce
<1>12. QED
  BY <1>0, <1>1, <1>2, <1>3, <1>4, <1>5, <1>6, <1>7, <1>8, <1>9, <1>10, <1>11
     DEF Executes, RQ!TimerControls

\* The edge in which an operation that had to wait happens.
LEMMA Later ==
  ASSUME Tracked, Tracked', Tick, Pending, s_state' \notin {"idle", "insert", "getid"},
         s_state' = "remove" => Leaving', UNCHANGED s_done, RQ!Serves(asked),
         s_state' = "exit_error" <=> RQ!Refuses(asked)
  PROVE  RQ!PerformLater
<1>1. s_state # "idle" /\ ~Performed
  BY DEF Performed, Pending
<1>2. asked' = asked /\ asked # RQ!NoRequest
  BY <1>1 DEF Tick, Tracked, NoRequest, RQ!NoRequest
<1>3. s_state' \notin {"destroy", "preinsert", "pregetid"} /\ ~s_error'
  BY DEF Tick, Clock, Idle, PreInsert, InsertWait, InsertLink, DestroyFree, RemoveUnlink, Finish,
         PreGetId, GetIdWait, GetIdFinish, machine, Tracked
<1>4. Performed' = TRUE
  BY <1>3 DEF Performed, Pending
<1>5. Refused' = RQ!Refuses(asked)
  BY <1>3 DEF Refused, RQ!Refuses
<1>6. QED BY <1>1, <1>2, <1>4, <1>5 DEF RQ!PerformLater, RQ!Perform

LEMMA TickSeen ==
  ASSUME Moving, Tracked, Tracked', Tick
  PROVE  RQ!CQNext \/ UNCHANGED RQ!cqVars
<1>1. CASE Idle \/ PreInsert \/ InsertWait \/ PreGetId \/ GetIdWait
  <2>1. s_state # "remove" /\ ~DestroyFree
    BY <1>1 DEF Idle, PreInsert, InsertWait, PreGetId, GetIdWait, DestroyFree
  <2>2. UNCHANGED <<s_command_tid, s_return, threads, queue, s_running_tid, s_done, s_error>>
    BY <1>1 DEF Idle, PreInsert, InsertWait, PreGetId, GetIdWait, machine
  <2>3. /\ s_state \in {"preinsert", "insert"} <=> s_state' \in {"preinsert", "insert"}
        /\ \/ s_state = "idle" /\ s_state' = "idle"
           \/ /\ s_state \in {"preinsert", "insert", "pregetid", "getid"}
              /\ s_state' \in {"preinsert", "insert", "pregetid", "getid"}
    BY <1>1 DEF Idle, PreInsert, InsertWait, PreGetId, GetIdWait, machine
  <2>4. Linking' = Linking
    BY <2>2, <2>3 DEF Linking
  <2>5. UNCHANGED RQ!rqVars
    BY <2>1, <2>2, <2>4, QuietSeen
  <2>6. UNCHANGED <<asked, Performed, Refused>>
    BY <2>2, <2>3 DEF Tick, Tracked, Performed, Pending, Refused
  <2>7. QED BY <2>2, <2>5, <2>6 DEF RQ!cqVars
<1>2. CASE Finish
  <2>1. /\ s_state \in {"exit_ok", "exit_error", "acknowledge_int", "reset_time"}
        /\ s_state' = "idle" /\ s_done' = TRUE
        /\ s_error' = (s_error \/ s_state = "exit_error")
        /\ UNCHANGED <<s_return, threads, queue, s_running_tid>>
    BY <1>2 DEF Finish
  <2>2. Linking = {} /\ Linking' = {} /\ ~DestroyFree
    BY <2>1 DEF Linking, DestroyFree
  <2>3. UNCHANGED RQ!rqVars
    BY <2>1, <2>2, QuietSeen
  <2>4. Performed /\ Performed' = FALSE /\ Refused' = Refused
    BY <2>1 DEF Performed, Pending, Refused
  <2>5. asked' = RQ!NoRequest
    BY <2>1 DEF Tick, NoRequest, RQ!NoRequest
  <2>6. QED BY <2>1, <2>3, <2>4, <2>5 DEF RQ!CQNext, RQ!Finish
<1>3. CASE InsertLink
  <2>1. s_state = "insert" /\ s_state' = "exit_ok" /\ UNCHANGED s_done
    BY <1>3 DEF InsertLink
  <2>2. asked.cmd = "INSERT" /\ RQ!RQEnqueue(asked.param, asked.priority)
    BY <1>3, <2>1, InsertLinkSeen DEF Tracked
  <2>3. RQ!Serves(asked) /\ ~RQ!Refuses(asked)
    BY <2>2 DEF RQ!Serves, RQ!Refuses
  <2>4. QED BY <2>1, <2>3, Later DEF Pending, RQ!CQNext
<1>4. CASE DestroyFree
  <2>1. /\ s_state = "destroy" /\ s_state' \in {"exit_ok", "remove"} /\ UNCHANGED s_done
        /\ s_state' = "remove" => Leaving'
    BY <1>4 DEF DestroyFree, Leaving
  <2>2. asked.cmd = "DESTROY" /\ RQ!RQDestroy(asked.param)
    BY <1>4, <2>1, DestroyFreeSeen DEF Tracked
  <2>3. RQ!Serves(asked) /\ ~RQ!Refuses(asked)
    BY <2>2 DEF RQ!Serves, RQ!Refuses
  <2>4. QED BY <2>1, <2>3, Later DEF Pending, RQ!CQNext
<1>5. CASE RemoveUnlink
  <2>1. s_state = "remove" /\ s_state' = "exit_ok" /\ UNCHANGED <<s_done, s_error>>
    BY <1>5 DEF RemoveUnlink
  <2>2. CASE Leaving
    <3>1. UNCHANGED RQ!rqVars
      BY <1>5, <2>2, RemoveUnlinkSeen
    <3>2. UNCHANGED <<asked, Performed, Refused>>
      BY <2>1, <2>2 DEF Tick, Performed, Pending, Refused
    <3>3. QED BY <2>1, <3>1, <3>2 DEF RQ!cqVars
  <2>3. CASE ~Leaving
    <3>1. /\ RQ!RQDequeue(s_command_tid)
          /\ s_command_tid = s_head_tid => RQ!RQDequeueHead
      BY <1>5, <2>3, RemoveUnlinkSeen
    <3>2. \/ asked.cmd = "REMOVE" /\ RQ!RQDequeue(asked.param)
          \/ asked.cmd = "REMOVE_HEAD" /\ RQ!RQDequeueHead
      BY <2>1, <2>3, <3>1 DEF Tracked
    <3>3. RQ!Serves(asked) /\ ~RQ!Refuses(asked)
      BY <3>2 DEF RQ!Serves, RQ!Refuses
    <3>4. QED BY <2>1, <2>3, <3>3, Later DEF Pending, RQ!CQNext
  <2>4. QED BY <2>2, <2>3
<1>6. CASE GetIdFinish
  <2>1. s_state = "getid" /\ s_state' \in {"exit_ok", "exit_error"} /\ UNCHANGED s_done
    BY <1>6 DEF GetIdFinish
  <2>2. /\ asked.cmd = "GETID" /\ RQ!RQGetId(asked.param)
        /\ s_state' = IF RQ!Found(asked.param) THEN "exit_ok" ELSE "exit_error"
    BY <1>6, <2>1, GetIdSeen DEF Tracked
  <2>3. RQ!Serves(asked) /\ (s_state' = "exit_error" <=> RQ!Refuses(asked))
    BY <2>2 DEF RQ!Serves, RQ!Refuses
  <2>4. QED BY <2>1, <2>3, Later DEF Pending, RQ!CQNext
<1>7. QED
  BY <1>1, <1>2, <1>3, <1>4, <1>5, <1>6 DEF Tick, Clock

LEMMA PinSeen ==
  ASSUME Moving, PinReset, asked' = NoRequest
  PROVE  RQ!Clear
<1>1. RQ!RQReset
  BY ClearSeen
<1>2. s_state' = "idle" /\ s_done' = FALSE /\ s_error' = FALSE
  BY DEF PinReset, ClearAll
<1>3. Performed' = FALSE /\ Refused' = FALSE
  BY <1>2 DEF Performed, Refused
<1>4. QED BY <1>1, <1>2, <1>3 DEF RQ!Clear, NoRequest, RQ!NoRequest

LEMMA RestSeen ==
  ASSUME RefineInv, RefineInv', UNCHANGED vars
  PROVE  UNCHANGED RQ!rqVars
<1>1. UNCHANGED <<s_state, s_command_tid, s_return, threads, queue, s_running_tid>>
  BY DEF vars, machine
<1>2. UNCHANGED <<Leaving, Staying, Queued>>
  BY <1>1 DEF Leaving, Staying, Queued, Linking, threads, queue
<1>3. QueueInv /\ QueueInv'
  BY DEF RefineInv, OrderInv
<1>4. PICK pos \in [Tids -> Tids0] : Ranked(pos)
  BY <1>3 DEF QueueInv, QueueWellFormed
<1>5. RankedNext(pos)
  BY <1>1, <1>2, <1>4, ChainOfQueue DEF RankedNext, queue
<1>6. \A t \in Staying : Places(pos)'[t] = Places(pos)[t] /\ s_order_table'[t] = s_order_table[t]
  BY <1>1, <1>2 DEF Places, threads
<1>7. UNCHANGED ReadyEntries
  BY <1>2, <1>3, <1>4, <1>5, <1>6, ReadyKept
<1>8. QED BY <1>1, <1>2, <1>7 DEF RQ!rqVars, threads

LEMMA StartSeen == Init => RQ!RQInit
<1> SUFFICES ASSUME Init PROVE RQ!RQInit
  OBVIOUS
<1>1. QueueInv
  BY QueueInit
<1>2. Staying = {} /\ ~Leaving
  BY DEF Init, Staying, Queued, Leaving
<1>3. ReadyEntries = <<>>
  BY <1>1, <1>2, ReadyMembers
<1>4. QED BY <1>2, <1>3 DEF Init, RQ!RQInit, EmptyTable

LEMMA BeginSeen == AskedInit => RQ!CQInit /\ Tracked
<1> SUFFICES ASSUME AskedInit PROVE RQ!CQInit /\ Tracked
  OBVIOUS
<1>1. Performed = FALSE /\ Refused = FALSE /\ s_done = FALSE
  BY DEF AskedInit, Init, Performed, Refused
<1>2. RQ!CQInit
  BY <1>1, StartSeen DEF AskedInit, RQ!CQInit, NoRequest, RQ!NoRequest
<1>3. Tracked
  BY DEF AskedInit, Init, Tracked
<1>4. QED BY <1>2, <1>3

\* For a client that inserts what it created, with priorities that fit, the block does
\* what each command asks, however the links, the searches and the edges of a command
\* lie between: its own operation with its own operands, in one of its edges and only
\* once, with the reply and the error bit of that operation when done rises; p_reset and
\* all other edges change nothing else that a client sees.
THEOREM Refinement ==
  ASSUME Civil
  PROVE  AskedSpec => ImplementsReadyQueue
<1> DEFINE Inv == RefineInv /\ Tracked
           askedVars == <<vars, asked>>
<1>1. AskedInit => Inv
  BY RefineInit, BeginSeen DEF AskedInit
<1>2. ASSUME Inv, [AskedNext]_askedVars
      PROVE  Inv'
  <2>1. RefineInv'
    BY <1>2, AskedStepIsStep, RefineStep
  <2>2. CASE AskedNext
    BY <1>2, <2>1, <2>2, TrackedStep
  <2>3. CASE UNCHANGED askedVars
    <3>1. UNCHANGED <<machine, threads, queue, stidRequest, searchRequest, asked>>
      BY <2>3 DEF vars
    <3>2. QED
      BY <1>2, <2>1, <3>1 DEF Tracked, Leaving, machine, threads, queue, stidRequest, searchRequest
  <2>4. QED BY <1>2, <2>2, <2>3
<1>3. ASSUME Inv, Inv', [AskedNext]_askedVars
      PROVE  [RQ!CQNext]_RQ!cqVars
  <2>1. CASE AskedNext
    <3>1. Next
      BY <2>1, AskIsCommand DEF AskedNext, Tick, Next
    <3>2. Moving
      BY <1>3, <3>1 DEF Moving
    <3>3. ASSUME NEW r \in Requests, Ask(r)
          PROVE  RQ!CQNext
      BY <1>3, <3>2, <3>3, AskSeen DEF RQ!CQNext
    <3>4. CASE Tick
      BY <1>3, <3>2, <3>4, TickSeen
    <3>5. CASE PinReset /\ asked' = NoRequest
      BY <3>2, <3>5, PinSeen DEF RQ!CQNext
    <3>6. QED BY <2>1, <3>3, <3>4, <3>5 DEF AskedNext
  <2>2. CASE UNCHANGED askedVars
    <3>1. UNCHANGED RQ!rqVars
      BY <1>3, <2>2, RestSeen
    <3>2. UNCHANGED <<asked, Performed, Refused, s_done>>
      BY <2>2 DEF vars, machine, threads, Performed, Pending, Leaving, Refused
    <3>3. QED BY <3>1, <3>2 DEF RQ!cqVars
  <2>3. QED BY <1>3, <2>1, <2>2
<1>4. AskedInit => RQ!CQInit
  BY BeginSeen
<1>5. QED
  BY <1>1, <1>2, <1>3, <1>4, PTL DEF AskedSpec, ImplementsReadyQueue, RQ!CQSpec
=============================================================================
