---------------------------- MODULE ThreadProofs ----------------------------
(***************************************************************************)
(* The driver and its interrupt handler implement ThreadScheduler: seen     *)
(* from the program, each method, and each run of the handler, is one step  *)
(* on the running object, the queue and the set of known objects.           *)
(***************************************************************************)
EXTENDS DriverProofs

-----------------------------------------------------------------------------
(***************************************************************************)
(* What the program would see of the block now, and what it has seen last.  *)
(***************************************************************************)
Shown(seq) == [i \in 1..Len(seq) |-> object[seq[i].tid]]
QueueNow == Shown(ready)
KnownNow == {object[t] : t \in created}

Before == seen.threads

Waits(queue, known) == QueueNow = queue /\ KnownNow = known
Shows(runs, queue, known) == RunsNow = runs /\ Waits(queue, known)
Same(queue) == Shows(Before.runs, queue, Before.known)

Top(queue) == IF queue = <<>> THEN 0 ELSE Head(queue)
Rear(queue) == IF queue = <<>> THEN <<>> ELSE Tail(queue)

Turning == {"handler", "choose_another"}

\* The known objects after remove() and suspend().
Left(f) == IF f.method = "remove" THEN Before.known \ {f.obj} ELSE Before.known

\* The queue when choose() has inserted the running thread.
Chosen == TS!Behind(Before.queue, Before.runs)

\* How far the block is from what the program has seen last, before each call of a method.
Sees(f) ==
  LET s == Now(f)
      m == f.method
      obj == f.obj
  IN /\ \/ m \notin Stopping \cup Switching \cup {"insert", "reset"}
        \/ s \in {"create", "findObj", "removeObj", "destroy", "ack"}
        \/ m = "remove" /\ s = "chosen"
        \/ m = "choose" /\ s \in {"chosen", "findRunning", "insertRunning"}
        \/ m \in Turning /\ s = "removeHead"
        => Same(Before.queue)
     /\ m = "insert" /\ s \in {"chosen", "place"} =>
          obj \notin Before.known /\ Shows(Before.runs, Before.queue, Before.known \cup {obj})
     /\ m = "resume" => TS!Suspended(obj)
     /\ m = "suspend" /\ s = "chosen" =>
          Same(TS!Drop(Before.queue, obj)) /\ (Before.runs = obj => Same(Before.queue))
     /\ m \in Stopping /\ s \in {"removeHead", "findHead", "run"} =>
          Before.runs = obj /\ obj \in Before.known
     /\ m \in Stopping /\ s = "removeHead" => Waits(Before.queue, Left(f))
     /\ m \in Stopping /\ s \in {"findHead", "run"} =>
          f.head = Top(Before.queue) /\ Waits(Rear(Before.queue), Left(f))
     /\ m = "choose" /\ s = "removeHead" => Same(Chosen)
     /\ m = "choose" /\ s \in {"findHead", "run"} => f.head = Head(Chosen) /\ Same(Tail(Chosen))
     /\ m \in Turning /\ s \in {"chosen", "findRunning", "insertRunning", "findHead", "run"} =>
          /\ Before.queue # <<>> /\ f.head = Head(Before.queue)
          /\ m = "handler" => Prio[Head(Before.queue)] <= Prio[Before.runs]
     /\ m \in Turning /\ s \in {"chosen", "findRunning", "insertRunning"} =>
          Same(Tail(Before.queue))
     /\ m \in Turning /\ s \in {"findHead", "run"} =>
          Same(TS!Behind(Tail(Before.queue), Before.runs))
     /\ m = "choose_this" /\ s \in {"chosen", "findRunning", "insertRunning"} =>
          TS!InQueue(obj) /\ Same(TS!Drop(Before.queue, obj))
     /\ m = "choose_this" /\ s = "run" =>
          TS!InQueue(obj) /\ Same(TS!Behind(TS!Drop(Before.queue, obj), Before.runs))
     /\ m = "choose_this" /\ s # "findObj" => object[f.tid] = obj
     /\ s = "removeObj" => object[f.tid] = obj
     /\ s = "run" /\ m # "choose_this" => object[f.tid] = f.head

\* What the program sees when the method returns, with the result value of its last call:
\* a step of ThreadScheduler, with its answer.
Done(f, value) ==
  LET m == f.method
      obj == f.obj
      answer == Answer(f, value)
  IN /\ m = "reset" => Shows(0, <<>>, {})
     /\ m = "insert" =>
          /\ obj \notin Before.known
          /\ IF Before.runs = 0 THEN Shows(obj, Before.queue, Before.known \cup {obj})
             ELSE Shows(Before.runs, TS!Behind(Before.queue, obj), Before.known \cup {obj})
     /\ m \in Stopping =>
          IF obj = Before.runs THEN Shows(Top(Before.queue), Rear(Before.queue), Left(f))
          ELSE Shows(Before.runs, TS!Drop(Before.queue, obj), Left(f))
     /\ m = "remove" => answer = IF obj \in Before.known THEN obj ELSE 0
     /\ m = "resume" => TS!Suspended(obj) /\ Same(TS!Behind(Before.queue, obj))
     /\ m = "choose" => /\ Before.runs # 0 /\ answer = Head(Chosen)
                        /\ Shows(Head(Chosen), Tail(Chosen), Before.known)
     /\ m \in Turning =>
          /\ Before.runs # 0 /\ Before.queue # <<>>
          /\ Shows(Head(Before.queue), TS!Behind(Tail(Before.queue), Before.runs), Before.known)
     /\ m = "choose_another" => answer = Head(Before.queue)
     /\ m = "handler" => Prio[Head(Before.queue)] <= Prio[Before.runs]
     /\ m = "choose_this" =>
          /\ Before.runs # 0
          /\ IF TS!InQueue(obj)
             THEN Shows(obj, TS!Behind(TS!Drop(Before.queue, obj), Before.runs), Before.known)
             ELSE Same(Before.queue)
          /\ answer = IF TS!InQueue(obj) THEN obj ELSE 0
     /\ m \notin Stopping \cup Switching \cup {"insert", "reset", "resume"} =>
          /\ Same(Before.queue)
          /\ m = "chosen" => answer = Before.runs
          /\ m = "schedulables" => answer = Len(Before.queue) + 1

LearnsThreads(f, value) ==
  LET kept == Keep(f, value)
  IN IF Leaves(kept, value) THEN Done(kept, value) ELSE Sees(Advanced(kept))

LearnedThreads(f) == LearnsThreads(f, IF failed THEN -1 ELSE reply)

InformedThreads(k) == IF Executed(k) THEN LearnedThreads(frame[k]) ELSE Sees(frame[k])

Threaded ==
  /\ seen = [threads |-> seen.threads, last |-> seen.last]
  /\ frame["main"].method \notin Takes => frame["main"].obj = 0
  /\ cpu = "handler" => InformedThreads("isr")
  /\ cpu # "handler" /\ Active("main") => InformedThreads("main")
  /\ cpu # "handler" /\ ~Active("main") => Same(Before.queue)
-----------------------------------------------------------------------------
(***************************************************************************)
(* Queues of objects: an object joins one, and leaves one.                  *)
(***************************************************************************)
Spliced(q, e, n) == SubSeq(q, 1, n) \o <<e>> \o SubSeq(q, n + 1, Len(q))

LEMMA SplicedFacts ==
  ASSUME NEW T, NEW q \in Seq(T), NEW e \in T, NEW n \in 0..Len(q)
  PROVE  LET new == Spliced(q, e, n)
         IN /\ new \in Seq(T) /\ Len(new) = Len(q) + 1
            /\ \A i \in 1..(Len(q) + 1) : new[i] = IF i <= n THEN q[i]
                                                   ELSE IF i = n + 1 THEN e ELSE q[i - 1]
<1> DEFINE front == SubSeq(q, 1, n)
           back  == SubSeq(q, n + 1, Len(q))
           new == front \o <<e>> \o back
<1>1. /\ Len(q) \in Nat /\ n \in Nat /\ n <= Len(q)
      /\ \A i \in 1..Len(q) : q[i] \in T
  OBVIOUS
<1>2. /\ front \in Seq(T) /\ Len(front) = n
      /\ \A i \in 1..n : front[i] = q[i]
  <2>1. \A i \in 1..n : q[i] \in T
    BY <1>1
  <2>2. n \in Int /\ 1 \in Int
    BY <1>1
  <2>3. /\ front \in Seq(T) /\ Len(front) = IF 1 <= n THEN n - 1 + 1 ELSE 0
        /\ \A i \in 1..(n - 1 + 1) : front[i] = q[1 + i - 1]
    BY <2>1, <2>2, SubSeqProperties
  <2> QED BY <1>1, <2>3
<1>3. /\ back \in Seq(T) /\ Len(back) = Len(q) - n
      /\ \A i \in 1..(Len(q) - n) : back[i] = q[n + i]
  <2>1. \A i \in (n + 1)..Len(q) : q[i] \in T
    BY <1>1
  <2>2. n + 1 \in Int /\ Len(q) \in Int
    BY <1>1
  <2>3. /\ back \in Seq(T)
        /\ Len(back) = IF n + 1 <= Len(q) THEN Len(q) - (n + 1) + 1 ELSE 0
        /\ \A i \in 1..(Len(q) - (n + 1) + 1) : back[i] = q[(n + 1) + i - 1]
    BY <2>1, <2>2, SubSeqProperties
  <2> QED BY <1>1, <2>3
<1> HIDE DEF front, back
<1> DEFINE first == front \o <<e>>
<1>4. <<e>> \in Seq(T) /\ Len(<<e>>) = 1 /\ <<e>>[1] = e
  OBVIOUS
<1>5. /\ first \in Seq(T) /\ Len(first) = n + 1
      /\ \A i \in 1..(n + 1) : first[i] = IF i <= n THEN q[i] ELSE e
  <2>1. /\ first \in Seq(T) /\ Len(first) = Len(front) + Len(<<e>>)
        /\ \A i \in 1..(Len(front) + Len(<<e>>)) :
             first[i] = IF i <= Len(front) THEN front[i] ELSE <<e>>[i - Len(front)]
    BY <1>2, <1>4, ConcatProperties
  <2> QED BY <1>1, <1>2, <1>4, <2>1
<1>6. new = first \o back
  OBVIOUS
<1> HIDE DEF first, new
<1>7. /\ new \in Seq(T) /\ Len(new) = Len(q) + 1
      /\ \A i \in 1..(Len(q) + 1) : new[i] = IF i <= n THEN q[i]
                                             ELSE IF i = n + 1 THEN e ELSE q[i - 1]
  <2>1. /\ new \in Seq(T) /\ Len(new) = Len(first) + Len(back)
        /\ \A i \in 1..(Len(first) + Len(back)) :
             new[i] = IF i <= Len(first) THEN first[i] ELSE back[i - Len(first)]
    BY <1>3, <1>5, <1>6, ConcatProperties
  <2>2. Len(new) = Len(q) + 1 /\ Len(first) + Len(back) = Len(q) + 1
    BY <1>1, <1>3, <1>5, <2>1
  <2>3. ASSUME NEW i \in 1..(Len(q) + 1)
        PROVE  new[i] = IF i <= n THEN q[i] ELSE IF i = n + 1 THEN e ELSE q[i - 1]
    <3>1. new[i] = IF i <= n + 1 THEN first[i] ELSE back[i - (n + 1)]
      BY <1>5, <2>1, <2>2
    <3>2. CASE i <= n + 1
      BY <1>1, <1>5, <3>1, <3>2
    <3>3. CASE ~(i <= n + 1)
      <4>1. i - (n + 1) \in 1..(Len(q) - n) /\ n + (i - (n + 1)) = i - 1
        BY <1>1, <3>3
      <4> QED BY <1>1, <1>3, <3>1, <3>3, <4>1
    <3> QED BY <3>2, <3>3
  <2> QED BY <2>1, <2>2, <2>3
<1>8. Spliced(q, e, n) = new
  BY DEF Spliced, new, front, back
<1> QED BY <1>7, <1>8

\* ThreadScheduler counts as this module does.
LEMMA SameCardinality ==
  ASSUME NEW S
  PROVE  TS!Cardinality(S) = Cardinality(S)
  BY DEF TS!Cardinality, Cardinality, TS!IsFiniteSet, IsFiniteSet

\* Where an object goes in a queue that has the better ones first.
LEMMA BehindFacts ==
  ASSUME NEW q \in Seq(Objects), NEW obj \in Objects, NEW n \in 0..Len(q),
         \A i \in 1..Len(q) : Prio[q[i]] <= Prio[obj] <=> i <= n
  PROVE  LET new == TS!Behind(q, obj)
         IN /\ new \in Seq(Objects) /\ Len(new) = Len(q) + 1
            /\ \A i \in 1..(Len(q) + 1) : new[i] = IF i <= n THEN q[i]
                                                   ELSE IF i = n + 1 THEN obj ELSE q[i - 1]
<1> DEFINE good == {i \in DOMAIN q : Prio[q[i]] <= Prio[obj]}
<1>1. Len(q) \in Nat /\ DOMAIN q = 1..Len(q) /\ n \in Nat /\ n <= Len(q)
  OBVIOUS
<1>2. good = 1..n
  BY <1>1
<1>3. Cardinality(1..n) = n
  <2>1. n \in Int /\ 1 \in Int
    BY <1>1
  <2>2. Cardinality(1..n) = IF 1 > n THEN 0 ELSE n - 1 + 1
    BY <2>1, FS_Interval
  <2> QED BY <1>1, <2>2
<1>4. TS!Cardinality(good) = n
  BY <1>2, <1>3, SameCardinality
<1>5. TS!Behind(q, obj) = Spliced(q, obj, n)
  BY <1>4 DEF TS!Behind, Spliced
<1>6. LET new == Spliced(q, obj, n)
      IN /\ new \in Seq(Objects) /\ Len(new) = Len(q) + 1
         /\ \A i \in 1..(Len(q) + 1) : new[i] = IF i <= n THEN q[i]
                                                ELSE IF i = n + 1 THEN obj ELSE q[i - 1]
  BY SplicedFacts
<1> QED BY <1>5, <1>6

\* An object that is in the queue once leaves it.
LEMMA DropFacts ==
  ASSUME NEW q \in Seq(Objects), NEW k \in 1..Len(q), NEW obj, q[k] = obj,
         \A i \in 1..Len(q) : q[i] = obj => i = k
  PROVE  LET new == TS!Drop(q, obj)
         IN /\ new \in Seq(Objects) /\ Len(new) = Len(q) - 1
            /\ \A i \in 1..(Len(q) - 1) : new[i] = IF i < k THEN q[i] ELSE q[i + 1]
<1> DEFINE new == [i \in 1..(Len(q) - 1) |-> IF i < k THEN q[i] ELSE q[i + 1]]
<1>1. Len(q) \in Nat /\ DOMAIN q = 1..Len(q) /\ \A i \in 1..Len(q) : q[i] \in Objects
  OBVIOUS
<1>2. (CHOOSE i \in DOMAIN q : q[i] = obj) = k
  BY <1>1
<1>3. TS!Drop(q, obj) = new
  BY <1>1, <1>2 DEF TS!Drop
<1>4. Len(q) - 1 \in Nat /\ \A i \in 1..(Len(q) - 1) : new[i] \in Objects
  BY <1>1
<1>5. new \in Seq(Objects) /\ Len(new) = Len(q) - 1
  BY <1>4
<1> QED BY <1>3, <1>5

\* An object that is not in the queue does not matter.
LEMMA DropNothing ==
  ASSUME NEW q \in Seq(Objects), NEW obj, \A i \in 1..Len(q) : q[i] # obj
  PROVE  TS!Drop(q, obj) = q
<1>1. DOMAIN q = 1..Len(q)
  OBVIOUS
<1> QED BY <1>1 DEF TS!Drop

-----------------------------------------------------------------------------
(***************************************************************************)
(* The queue the program sees, when a thread joins the one of the block, or *)
(* leaves it.                                                               *)
(***************************************************************************)
LEMMA ShownFacts ==
  ASSUME Fits, Sound
  PROVE  /\ QueueNow \in Seq(Objects) /\ Len(QueueNow) = Len(ready) /\ Len(ready) \in Nat
         /\ \A i \in 1..Len(ready) : /\ QueueNow[i] = object[ready[i].tid]
                                     /\ ready[i].tid \in created /\ ready[i].tid \in Queued
         /\ ready = <<>> <=> QueueNow = <<>>
<1>1. /\ Len(ready) \in Nat /\ Queued \subseteq created
      /\ \A t \in created : object[t] \in Objects
      /\ ready \in Seq(Entry)
  BY SoundFacts, LineFacts
<1>2. \A i \in 1..Len(ready) : ready[i].tid \in Queued
  BY DEF Queued, Ids
<1>3. \A i \in 1..Len(ready) : object[ready[i].tid] \in Objects
  BY <1>1, <1>2
<1>4. /\ QueueNow \in Seq(Objects) /\ Len(QueueNow) = Len(ready)
      /\ \A i \in 1..Len(ready) : QueueNow[i] = object[ready[i].tid]
  BY <1>1, <1>3 DEF QueueNow, Shown
<1>5. ready = <<>> <=> Len(ready) = 0
  BY <1>1, EmptySeq
<1>6. QueueNow = <<>> <=> Len(QueueNow) = 0
  BY <1>4, EmptySeq
<1> QED BY <1>1, <1>2, <1>4, <1>5, <1>6

\* An object waits when its thread is queued.
LEMMA WaitingFacts ==
  ASSUME Fits, Sound, NEW t \in created
  PROVE  /\ t \in Queued <=> \E i \in DOMAIN QueueNow : QueueNow[i] = object[t]
         /\ \A i, j \in 1..Len(ready) : QueueNow[i] = QueueNow[j] => i = j
<1>1. /\ Len(ready) \in Nat
      /\ \A i, j \in 1..Len(ready) : ready[i].tid = ready[j].tid => i = j
      /\ \A u, v \in created : object[u] = object[v] => u = v
  BY SoundFacts, LineFacts
<1>2. /\ DOMAIN QueueNow = 1..Len(ready)
      /\ \A i \in 1..Len(ready) : /\ QueueNow[i] = object[ready[i].tid]
                                  /\ ready[i].tid \in created
  BY ShownFacts
<1>3. t \in Queued <=> \E i \in 1..Len(ready) : ready[i].tid = t
  BY DEF Queued, Ids
<1> QED BY <1>1, <1>2, <1>3

LEMMA ShownSame ==
  ASSUME Fits, Sound, ready' = ready, \A t \in Queued : object'[t] = object[t]
  PROVE  QueueNow' = QueueNow
<1>1. \A i \in 1..Len(ready) : object'[ready[i].tid] = object[ready[i].tid]
  BY ShownFacts
<1> QED BY <1>1 DEF QueueNow, Shown

LEMMA ShownIs ==
  ASSUME NEW q \in Seq(Objects), Len(q) = Len(ready'),
         \A i \in 1..Len(q) : q[i] = object'[ready'[i].tid]
  PROVE  QueueNow' = q
<1>1. q = [i \in 1..Len(q) |-> q[i]]
  OBVIOUS
<1>2. QueueNow' = [i \in 1..Len(q) |-> object'[ready'[i].tid]]
  BY DEF QueueNow, Shown
<1> QED BY <1>1, <1>2

LEMMA ShownTail ==
  ASSUME Fits, Sound, ready # <<>>, ready' = Tail(ready), object' = object
  PROVE  /\ QueueNow # <<>> /\ Head(QueueNow) = object[Head(ready).tid]
         /\ QueueNow' = Tail(QueueNow)
<1>1. /\ QueueNow \in Seq(Objects) /\ Len(QueueNow) = Len(ready) /\ QueueNow # <<>>
      /\ \A i \in 1..Len(ready) : QueueNow[i] = object[ready[i].tid]
      /\ ready \in Seq(Entry) /\ Len(ready) \in Nat
  BY ShownFacts, SoundFacts, LineFacts
<1>2. Len(ready) > 0
  BY <1>1, EmptySeq
<1>3. /\ Head(ready) = ready[1] /\ Len(Tail(ready)) = Len(ready) - 1
      /\ \A i \in 1..(Len(ready) - 1) : Tail(ready)[i] = ready[i + 1]
  BY <1>1, <1>2, HeadTailProperties
<1>4. /\ Head(QueueNow) = QueueNow[1] /\ Len(Tail(QueueNow)) = Len(QueueNow) - 1
      /\ Tail(QueueNow) \in Seq(Objects)
      /\ \A i \in 1..(Len(QueueNow) - 1) : Tail(QueueNow)[i] = QueueNow[i + 1]
  BY <1>1, HeadTailProperties
<1>5. \A i \in 1..(Len(ready) - 1) : Tail(QueueNow)[i] = object[Tail(ready)[i].tid]
  <2>1. \A i \in 1..(Len(ready) - 1) : i + 1 \in 1..Len(ready)
    BY <1>1
  <2> QED BY <1>1, <1>3, <1>4, <2>1
<1>6. /\ Len(Tail(QueueNow)) = Len(ready')
      /\ \A i \in 1..Len(Tail(QueueNow)) : Tail(QueueNow)[i] = object'[ready'[i].tid]
  BY <1>1, <1>3, <1>4, <1>5
<1>7. QueueNow' = Tail(QueueNow)
  BY <1>4, <1>6, ShownIs
<1> QED BY <1>1, <1>2, <1>3, <1>4, <1>7

LEMMA ShownJoin ==
  ASSUME Fits, Sound, InOrder, NEW t \in created, t \notin Queued, NEW key, key = Prio[object[t]],
         RQEnqueue(t, key)
  PROVE  QueueNow' = TS!Behind(QueueNow, object[t])
<1> DEFINE q == QueueNow
           obj == object[t]
           new == TS!Behind(q, obj)
<1>1. PICK e : e = [tid |-> t, key |-> key]
  OBVIOUS
<1>2. /\ q \in Seq(Objects) /\ Len(q) = Len(ready) /\ Len(ready) \in Nat /\ obj \in Objects
      /\ \A i \in 1..Len(ready) : q[i] = object[ready[i].tid] /\ ready[i].tid \in created
      /\ Line(ready) /\ created \subseteq Threads
      /\ \A u \in created : order[u] = Prio[object[u]] /\ order[u] \in Nat
  BY ShownFacts, SoundFacts
<1>3. key \in Keys /\ key \in Nat /\ key = Prio[obj]
  BY <1>2, PrioAssumption
<1>4. e \in Entry /\ e.tid = t /\ e.key = key
  BY <1>1, <1>2, <1>3 DEF Entry
<1>5. ready' = Placed(e) /\ object' = object
  BY <1>1 DEF RQEnqueue
<1>0. PICK n \in 0..Len(ready) :
        /\ \A i \in 1..n : ready[i].key <= e.key
        /\ n < Len(ready) => ~(ready[n + 1].key <= e.key)
        /\ Len(Placed(e)) = Len(ready) + 1
        /\ \A i \in 1..(Len(ready) + 1) :
             Placed(e)[i] = IF i <= n THEN ready[i] ELSE IF i = n + 1 THEN e ELSE ready[i - 1]
  <2> HIDE DEF q, obj, new
  <2> QED BY <1>2, <1>4, PlacedFacts
<1>6. /\ \A i \in 1..n : ready[i].key <= key
      /\ n < Len(ready) => ~(ready[n + 1].key <= key)
      /\ Len(ready') = Len(ready) + 1
      /\ \A i \in 1..(Len(ready) + 1) :
           ready'[i] = IF i <= n THEN ready[i] ELSE IF i = n + 1 THEN e ELSE ready[i - 1]
  BY <1>0, <1>4, <1>5
<1>7. \A i \in 1..Len(ready) : ready[i].key = Prio[q[i]] /\ ready[i].key \in Nat
  BY <1>2 DEF InOrder, Marked
<1>8. \A i, j \in 1..Len(ready) : i < j => ready[i].key <= ready[j].key
  BY DEF InOrder, Ordered
<1>9. \A i \in 1..Len(q) : Prio[q[i]] <= Prio[obj] <=> i <= n
  <2> SUFFICES ASSUME NEW i \in 1..Len(ready)
               PROVE  ready[i].key <= key <=> i <= n
    BY <1>2, <1>3, <1>7
  <2>1. CASE i <= n
    BY <1>6, <2>1
  <2>2. CASE ~(i <= n)
    <3>1. n + 1 \in 1..Len(ready) /\ n < Len(ready) /\ n + 1 <= i
      BY <1>2, <2>2
    <3>2. ready[n + 1].key <= ready[i].key
      BY <1>7, <1>8, <3>1
    <3> QED BY <1>3, <1>6, <1>7, <2>2, <3>1, <3>2
  <2> QED BY <2>1, <2>2
<1> HIDE DEF q, obj, new
<1>10. /\ new \in Seq(Objects) /\ Len(new) = Len(q) + 1
       /\ \A i \in 1..(Len(q) + 1) : new[i] = IF i <= n THEN q[i]
                                              ELSE IF i = n + 1 THEN obj ELSE q[i - 1]
  BY <1>2, <1>6, <1>9, BehindFacts DEF new
<1>11. ASSUME NEW i \in 1..Len(new)
       PROVE  new[i] = object'[ready'[i].tid]
  <2>1. i \in 1..(Len(ready) + 1)
    BY <1>2, <1>10
  <2>2. CASE i <= n
    BY <1>2, <1>5, <1>6, <1>10, <2>1, <2>2
  <2>3. CASE i = n + 1
    BY <1>2, <1>4, <1>5, <1>6, <1>10, <2>1, <2>3 DEF obj
  <2>4. CASE ~(i <= n + 1)
    <3>1. i - 1 \in 1..Len(ready) /\ ~(i <= n) /\ i # n + 1
      BY <1>2, <2>1, <2>4
    <3> QED BY <1>2, <1>5, <1>6, <1>10, <2>1, <3>1
  <2> QED BY <1>2, <1>6, <2>1, <2>2, <2>3, <2>4
<1>12. QueueNow' = new
  BY <1>2, <1>6, <1>10, <1>11, ShownIs
<1> QED BY <1>12 DEF new, q, obj

LEMMA ShownLeave ==
  ASSUME Fits, Sound, NEW t \in created, ready' = Without(t),
         \A u \in Queued : u # t => object'[u] = object[u]
  PROVE  /\ QueueNow' = TS!Drop(QueueNow, object[t])
         /\ t \notin Queued => QueueNow' = QueueNow
<1> DEFINE q == QueueNow
           obj == object[t]
           new == TS!Drop(q, obj)
<1>1. /\ q \in Seq(Objects) /\ Len(q) = Len(ready) /\ Len(ready) \in Nat /\ Line(ready)
      /\ \A i \in 1..Len(ready) : q[i] = object[ready[i].tid] /\ ready[i].tid \in Queued
      /\ DOMAIN q = 1..Len(ready)
  BY ShownFacts, SoundFacts
<1>2. /\ t \in Queued <=> \E i \in 1..Len(ready) : q[i] = obj
      /\ \A i, j \in 1..Len(ready) : q[i] = q[j] => i = j
  BY <1>1, WaitingFacts
<1>3. IsReady(t) <=> t \in Queued
  BY DEF IsReady, Queued, Ids
<1> HIDE DEF q, obj
<1>4. CASE t \notin Queued
  <2>1. ready' = ready
    BY <1>3, <1>4 DEF Without
  <2>2. QueueNow' = q
    BY <1>4, <2>1, ShownSame DEF q
  <2>3. new = q
    BY <1>1, <1>2, <1>4, DropNothing
  <2> QED BY <2>2, <2>3 DEF q, obj
<1>5. CASE t \in Queued
  <2>1. PICK k \in 1..Len(ready) :
          /\ ready[k].tid = t
          /\ Len(ready') = Len(ready) - 1
          /\ \A i \in 1..(Len(ready) - 1) : ready'[i] = IF i < k THEN ready[i] ELSE ready[i + 1]
    BY <1>1, <1>3, <1>5, WithoutFacts
  <2>2. k \in 1..Len(q) /\ q[k] = obj /\ \A i \in 1..Len(q) : q[i] = obj => i = k
    BY <1>1, <1>2, <2>1 DEF obj
  <2>10. q \in Seq(Objects)
    BY <1>1
  <2>11. LET d == TS!Drop(q, obj)
         IN /\ d \in Seq(Objects) /\ Len(d) = Len(q) - 1
            /\ \A i \in 1..(Len(q) - 1) : d[i] = IF i < k THEN q[i] ELSE q[i + 1]
    <3> HIDE DEF new
    <3> QED BY <2>2, <2>10, DropFacts
  <2>3. /\ new \in Seq(Objects) /\ Len(new) = Len(q) - 1
        /\ \A i \in 1..(Len(q) - 1) : new[i] = IF i < k THEN q[i] ELSE q[i + 1]
    BY <2>11
  <2> HIDE DEF new
  <2>4. ASSUME NEW i \in 1..Len(new)
        PROVE  new[i] = object'[ready'[i].tid]
    <3>1. PICK j \in 1..Len(ready) : j = (IF i < k THEN i ELSE i + 1) /\ j # k
      BY <1>1, <2>1, <2>3
    <3>2. new[i] = q[j] /\ ready'[i] = ready[j]
      BY <1>1, <2>1, <2>3, <3>1
    <3>3. ready[j].tid # t
      BY <1>1, <1>2, <2>1, <2>2, <3>1 DEF obj
    <3> QED BY <1>1, <3>2, <3>3
  <2>5. QueueNow' = new
    BY <1>1, <2>1, <2>3, <2>4, ShownIs
  <2> QED BY <1>5, <2>5 DEF new, q, obj
<1> QED BY <1>4, <1>5

\* The objects the program knows have a thread, and the running one is known.
LEMMA KnownFacts ==
  ASSUME Fits, Sound
  PROVE  /\ 0 \notin KnownNow
         /\ \A t \in created : object[t] \in KnownNow
         /\ \A obj \in Objects : obj \in KnownNow <=> Found(obj)
         /\ RunsNow # 0 <=> running \in created
         /\ \A t \in created : RunsNow = object[t] => running = t
<1>1. /\ created \subseteq Threads /\ 0 \notin Objects
      /\ \A t \in Threads : t \in created <=> object[t] # 0
      /\ \A t, u \in created : object[t] = object[u] => t = u
      /\ RunsNow = 0 <=> running \notin created
      /\ running \in created => RunsNow = object[running]
  BY SoundFacts, RunsNowFacts
<1>2. \A obj \in Objects : obj \in KnownNow <=> Found(obj)
  BY <1>1 DEF KnownNow, Found
<1> QED BY <1>1, <1>2 DEF KnownNow

\* An object without a thread does not run, and is not in the queue.
LEMMA UnknownFacts ==
  ASSUME Fits, Sound, NEW obj \in Objects, ~Found(obj)
  PROVE  /\ RunsNow # obj /\ obj \notin KnownNow
         /\ TS!Drop(QueueNow, obj) = QueueNow
<1>1. /\ created \subseteq Threads /\ running \in Threads \cup {0} /\ obj # 0
      /\ QueueNow \in Seq(Objects) /\ Len(QueueNow) = Len(ready)
      /\ \A i \in 1..Len(ready) : QueueNow[i] = object[ready[i].tid] /\ ready[i].tid \in created
  BY SoundFacts, ShownFacts
<1>2. RunsNow # obj
  BY <1>1 DEF RunsNow, Found
<1>3. \A i \in 1..Len(QueueNow) : QueueNow[i] # obj
  BY <1>1 DEF Found
<1>4. TS!Drop(QueueNow, obj) = QueueNow
  BY <1>1, <1>3, DropNothing
<1> QED BY <1>2, <1>4, KnownFacts

LEMMA SteadyView ==
  ASSUME Steady
  PROVE  QueueNow' = QueueNow /\ KnownNow' = KnownNow /\ RunsNow' = RunsNow
  BY DEF Steady, QueueNow, Shown, KnownNow, RunsNow

-----------------------------------------------------------------------------
(***************************************************************************)
(* What the program has seen last stays until its method returns.           *)
(***************************************************************************)
LEMMA BeforeFacts ==
  ASSUME seen' = seen
  PROVE  /\ Before' = Before /\ Chosen' = Chosen
         /\ \A obj : (TS!Suspended(obj)' <=> TS!Suspended(obj))
                     /\ (TS!InQueue(obj)' <=> TS!InQueue(obj))
         /\ \A f : Left(f)' = Left(f)
  BY DEF Before, Chosen, TS!Suspended, TS!InQueue, Left

\* What a method returns.
LEMMA AnswerFacts ==
  ASSUME NEW f, NEW value
  PROVE  LET m == f.method
             answer == Answer(f, value)
         IN /\ m \in {"chosen", "schedulables"} => answer = value
            /\ m = "remove" => answer = IF Now(f) = "findObj" THEN 0 ELSE f.obj
            /\ m \in {"choose", "choose_another"} => answer = f.head
            /\ m = "choose_this" => answer = IF More(f) THEN 0 ELSE f.obj
            /\ m \notin {"chosen", "schedulables", "remove", "choose", "choose_another",
                         "choose_this"} => answer = 0
  BY DEF Answer, Now, More

LEMMA LearnsThreadsNext ==
  ASSUME NEW f, Framed(f), f.method # "none", NEW value,
         Leaves(Keep(f, value), value) => Done(f, value)',
         \A g : ~Leaves(Keep(f, value), value) /\ Follows(g, f, value) => Sees(g)'
  PROVE  LearnsThreads(f, value)'
<1> DEFINE kept == Keep(f, value)
           g == Advanced(kept)
<1>1. ~Leaves(kept, value) => Follows(g, f, value)
  BY FollowsFacts
<1>2. ~Leaves(kept, value) => Sees(g)'
  <2> HIDE DEF g
  <2> QED BY <1>1
<1>3. Leaves(kept, value) => (Done(kept, value)' <=> Done(f, value)')
  <2> SUFFICES ASSUME Leaves(kept, value) PROVE Done(kept, value)' <=> Done(f, value)'
    OBVIOUS
  <2>1. PICK k : k = kept
    OBVIOUS
  <2>2. Now(f) # "removeHead"
    <3>1. Now(f) = "removeHead" => More(f)
      BY NextFacts
    <3> QED BY <3>1, LeavesFacts
  <2>3. k.method = f.method /\ k.obj = f.obj /\ k.todo = f.todo /\ k.head = f.head
    BY <2>1, <2>2, KeepFacts DEF Framed, Now
  <2>4. Answer(k, value) = Answer(f, value) /\ Left(k)' = Left(f)'
    BY <2>3 DEF Answer, Left
  <2>5. Done(k, value)' <=> Done(f, value)'
    BY <2>3, <2>4 DEF Done
  <2> QED BY <2>1, <2>5
<1> QED BY <1>2, <1>3 DEF LearnsThreads, g

-----------------------------------------------------------------------------
(***************************************************************************)
(* What each call shows the program.                                        *)
(***************************************************************************)
\* A method about to make a call, with what it knows and what it has seen.
Aware(f) ==
  /\ Framed(f) /\ f.method # "none"
  /\ f.method \in Takes => f.obj \in Objects
  /\ Knows(f) /\ Sees(f)

LEMMA ThreadsQuiet ==
  ASSUME Fits, Sound, NEW f, Aware(f),
         Now(f) \in {"size", "ticks", "quantum", "enable", "disable"},
         Steady, seen' = seen, NEW value, Now(f) = "size" => value = Len(ready) + 1
  PROVE  LearnsThreads(f, value)'
<1> DEFINE m == f.method
<1>1. /\ m \in {"schedulables", "reset_quantum", "set_quantum", "start", "enable_schedule",
                "disable_schedule"}
      /\ m = "schedulables" => Now(f) = "size"
      /\ More(f) => m = "start" /\ Then(f) = "enable"
  BY NextFacts, SingleCalls, StartCalls DEF Aware, Single, Going, Ending
<1>2. Same(Before.queue)
  BY <1>1 DEF Aware, Sees, Stopping, Switching
<1>3. Same(Before.queue)'
  BY <1>2, SteadyView, BeforeFacts DEF Same, Shows, Waits
<1>4. m = "schedulables" => value = Len(Before.queue) + 1
  BY <1>1, <1>2, ShownFacts DEF Same, Shows, Waits
<1>5. Done(f, value)'
  BY <1>1, <1>3, <1>4, AnswerFacts, BeforeFacts DEF Done, Stopping, Switching, Turning
<1>6. ASSUME NEW g, Follows(g, f, value)
      PROVE  Sees(g)'
  <2>1. Now(g) = "enable" /\ g.method = "start"
    BY <1>1, <1>6 DEF Follows
  <2> QED BY <1>3, <2>1 DEF Sees, Stopping, Switching, Turning
<1> QED BY <1>5, <1>6, LearnsThreadsNext DEF Aware

LEMMA ThreadsReset ==
  ASSUME Fits, Sound, NEW f, Aware(f), Now(f) = "reset", RQReset, seen' = seen, NEW value
  PROVE  LearnsThreads(f, value)'
<1>1. f.method = "reset" /\ ~More(f)
  BY NextFacts DEF Aware
<1>2. RunsNow' = 0 /\ KnownNow' = {}
  BY DEF RQReset, RunsNow, KnownNow
<1>3. QueueNow' = <<>>
  <2>1. ready' = <<>>
    BY DEF RQReset
  <2>2. PICK q : q = <<>>
    OBVIOUS
  <2>3. q \in Seq(Objects) /\ Len(q) = 0 /\ Len(ready') = 0
    BY <2>1, <2>2, EmptySeq
  <2>4. \A i \in 1..Len(q) : q[i] = object'[ready'[i].tid]
    BY <2>3
  <2>5. QueueNow' = q
    BY <2>3, <2>4, ShownIs
  <2> QED BY <2>2, <2>5
<1>4. Done(f, value)'
  BY <1>1, <1>2, <1>3 DEF Done, Shows, Waits, Stopping, Switching, Turning
<1>5. \A g : ~Follows(g, f, value)
  BY <1>1 DEF Follows
<1> QED BY <1>4, <1>5, LearnsThreadsNext DEF Aware

LEMMA ThreadsChosen ==
  ASSUME Fits, Sound, NEW f, Aware(f), Now(f) = "chosen", Steady, seen' = seen,
         NEW value, value = RunsNow
  PROVE  LearnsThreads(f, value)'
<1> DEFINE m == f.method
<1>1. \/ m = "chosen" /\ ~More(f)
      \/ m = "insert" /\ More(f) /\ Then(f) = "place"
      \/ m = "remove" /\ More(f) /\ Then(f) = "destroy"
      \/ m = "suspend" /\ More(f) /\ Then(f) = "removeHead"
      \/ m \in Switching /\ More(f) /\ Then(f) = "findRunning"
  BY NextFacts DEF Aware
<1>2. /\ QueueNow' = QueueNow /\ KnownNow' = KnownNow /\ RunsNow' = RunsNow /\ object' = object
      /\ Before' = Before
      /\ \A obj : TS!InQueue(obj)' <=> TS!InQueue(obj)
      /\ Left(f)' = Left(f)
  BY SteadyView, BeforeFacts DEF Steady
<1>3. CASE m = "chosen"
  <2>1. Same(Before.queue)
    BY <1>3 DEF Aware, Sees, Stopping, Switching
  <2>2. Same(Before.queue)'
    BY <1>2, <2>1 DEF Same, Shows, Waits
  <2>3. Done(f, value)'
    BY <1>2, <1>3, <2>1, <2>2, AnswerFacts
       DEF Done, Same, Shows, Stopping, Switching, Turning
  <2>4. \A g : ~Follows(g, f, value)
    BY <1>1, <1>3 DEF Follows, Switching
  <2> QED BY <2>3, <2>4, LearnsThreadsNext DEF Aware
<1>4. CASE m = "suspend"
  <2>1. /\ Same(TS!Drop(Before.queue, f.obj))
        /\ Before.runs = f.obj => Same(Before.queue)
    BY <1>4 DEF Aware, Sees
  <2>2. ASSUME Leaves(Keep(f, value), value)
        PROVE  Done(f, value)'
    <3>1. value # f.obj
      BY <1>1, <1>4, <2>2, LeavesFacts DEF Aware, Switching
    <3> QED BY <1>2, <1>4, <2>1, <3>1
            DEF Done, Same, Shows, Waits, Left, Stopping, Switching, Turning
  <2>3. ASSUME NEW g, ~Leaves(Keep(f, value), value), Follows(g, f, value)
        PROVE  Sees(g)'
    <3>1. Now(g) = "removeHead" /\ g.method = "suspend" /\ g.obj = f.obj
      BY <1>1, <1>4, <2>3 DEF Follows, Switching
    <3>2. value = f.obj
      BY <1>4, <2>3, LeavesFacts DEF Aware
    <3>3. f.obj \in Objects /\ f.obj # 0
      BY <1>4, ObjectsAssumption DEF Aware, Takes
    <3>4. running \in created /\ RunsNow = object[running]
      BY <3>2, <3>3, KnownFacts, RunsNowFacts
    <3>5. f.obj \in KnownNow
      BY <3>2, <3>4, KnownFacts
    <3> QED BY <1>2, <2>1, <3>1, <3>2, <3>5
            DEF Sees, Same, Shows, Waits, Left, Stopping, Switching, Turning
  <2> QED BY <2>2, <2>3, LearnsThreadsNext DEF Aware
<1>5. CASE m \in {"insert", "remove"} \cup Switching
  <2>1. ~Leaves(Keep(f, value), value)
    BY <1>1, <1>5, LeavesFacts DEF Aware, Switching
  <2>2. ASSUME NEW g, Follows(g, f, value)
        PROVE  Sees(g)'
    <3>1. /\ Now(g) = Then(f) /\ g.method = m /\ g.obj = f.obj /\ g.head = f.head /\ g.tid = f.tid
      BY <2>2 DEF Follows
    <3>2. CASE m \in {"insert", "remove"}
      BY <1>1, <1>2, <3>1, <3>2
         DEF Aware, Sees, Same, Shows, Waits, Stopping, Switching, Turning
    <3>3. CASE m \in Turning
      BY <1>1, <1>2, <3>1, <3>3
         DEF Aware, Sees, Same, Shows, Waits, Stopping, Switching, Turning
    <3>4. CASE m \in {"choose", "choose_this"}
      BY <1>1, <1>2, <3>1, <3>4
         DEF Aware, Sees, Same, Shows, Waits, Stopping, Switching, Turning
    <3> QED BY <1>5, <3>2, <3>3, <3>4 DEF Switching, Turning
  <2> QED BY <2>1, <2>2, LearnsThreadsNext DEF Aware
<1> QED BY <1>1, <1>3, <1>4, <1>5

LEMMA ThreadsCreate ==
  ASSUME Fits, Sound, NEW f, Aware(f), Now(f) = "create", Sound', seen' = seen,
         RQCreate(f.obj), NEW t, t = reply'
  PROVE  LearnsThreads(f, t)'
<1> DEFINE obj == f.obj
<1>1. /\ f.method = "insert" /\ More(f) /\ Then(f) = "chosen"
      /\ Settled /\ ~Found(obj) /\ obj \in Objects /\ Same(Before.queue)
  BY NextFacts DEF Aware, Knows, Sees, Takes
<1>2. /\ t \in Threads \ created
      /\ created' = created \cup {t} /\ object' = [object EXCEPT ![t] = obj]
      /\ ready' = ready /\ running' = running
  BY DEF RQCreate
<1>3. /\ object \in [Threads -> Objects \cup {0}] /\ created \subseteq Threads
      /\ Queued \subseteq created /\ Spare \notin created
      /\ running \in Threads \cup {0} /\ 0 \notin Threads
  BY SoundFacts
<1>4. t # Spare /\ t # running
  <2>1. Spare \notin created'
    BY DEF Sound, Owned
  <2> QED BY <1>1, <1>2, <1>3, <2>1 DEF Settled
<1>5. object'[t] = obj /\ \A u \in Threads : u # t => object'[u] = object[u]
  BY <1>2, <1>3
<1>6. RunsNow' = RunsNow
  BY <1>2, <1>3, <1>4, <1>5 DEF RunsNow
<1>7. QueueNow' = QueueNow
  BY <1>2, <1>3, <1>5, ShownSame
<1>8. KnownNow' = KnownNow \cup {obj}
  BY <1>2, <1>3, <1>5 DEF KnownNow
<1>9. ~Leaves(Keep(f, t), t)
  <2>1. t \in Nat /\ t # 0
    BY <1>2, <1>3, ThreadsAssumption
  <2>2. ~(t <= 0)
    BY <2>1
  <2> QED BY <1>1, <2>2, LeavesFacts DEF Aware
<1>10. ASSUME NEW g, Follows(g, f, t)
       PROVE  Sees(g)'
  <2>1. Now(g) = "chosen" /\ g.method = "insert" /\ g.obj = obj
    BY <1>1, <1>10 DEF Follows
  <2>2. obj \notin KnownNow
    BY <1>1, KnownFacts
  <2>3. Before' = Before
    BY BeforeFacts
  <2> QED BY <1>1, <1>6, <1>7, <1>8, <2>1, <2>2, <2>3
          DEF Sees, Same, Shows, Waits, Stopping, Switching, Turning
<1> QED BY <1>9, <1>10, LearnsThreadsNext DEF Aware

LEMMA ThreadsFindObj ==
  ASSUME Fits, Sound, NEW f, Aware(f), Now(f) = "findObj", RQGetId(f.obj), Steady, seen' = seen,
         NEW value, value = IF ~Found(f.obj) THEN -1 ELSE reply'
  PROVE  LearnsThreads(f, value)'
<1> DEFINE m == f.method
           obj == f.obj
<1>1. /\ \/ m = "remove" /\ More(f) /\ Then(f) = "chosen"
         \/ m \in {"suspend", "choose_this"} /\ More(f) /\ Then(f) = "removeObj"
         \/ m = "resume" /\ More(f) /\ Then(f) = "insertObj"
      /\ obj \in Objects
  BY NextFacts DEF Aware, Takes
<1>2. /\ QueueNow' = QueueNow /\ KnownNow' = KnownNow /\ RunsNow' = RunsNow /\ object' = object
      /\ Before' = Before
      /\ \A o : TS!Suspended(o)' <=> TS!Suspended(o)
      /\ Left(f)' = Left(f)
  BY SteadyView, BeforeFacts DEF Steady
<1>3. /\ Same(Before.queue)
      /\ m = "resume" => TS!Suspended(obj)
      /\ m \in {"resume", "choose_this"} => Found(obj)
  <2>1. /\ Same(Before.queue)
        /\ m = "resume" => TS!Suspended(obj)
    BY <1>1 DEF Aware, Sees
  <2>2. m \in {"resume", "choose_this"} => Found(obj)
    BY <1>1 DEF Aware, Knows, Found
  <2> QED BY <2>1, <2>2
<1>4. Found(obj) => value \in Threads /\ object[value] = obj
  BY SearchFacts
<1>5. Found(obj) => ~(value < 0) /\ value # 0
  <2> SUFFICES ASSUME Found(obj) PROVE ~(value < 0) /\ value # 0
    OBVIOUS
  <2>1. value \in Nat /\ value # 0
    BY <1>4, ThreadsAssumption
  <2> QED BY <2>1
<1>6. ASSUME Leaves(Keep(f, value), value)
      PROVE  Done(f, value)'
  <2>1. m \in Stopping /\ ~Found(obj)
    BY <1>1, <1>3, <1>5, <1>6, LeavesFacts DEF Aware, Stopping
  <2>2. /\ RunsNow # obj /\ obj \notin KnownNow
        /\ TS!Drop(QueueNow, obj) = QueueNow
    BY <1>1, <2>1, UnknownFacts
  <2>3. /\ RunsNow = Before.runs /\ QueueNow = Before.queue /\ KnownNow = Before.known
    BY <1>3 DEF Same, Shows, Waits
  <2>4. Left(f) = Before.known
    BY <2>2, <2>3 DEF Left
  <2>5. Shows(Before.runs, TS!Drop(Before.queue, obj), Left(f))'
    BY <1>2, <2>2, <2>3, <2>4 DEF Shows, Waits
  <2> QED BY <1>2, <2>1, <2>2, <2>3, <2>5, AnswerFacts DEF Done, Stopping, Switching, Turning
<1>7. ASSUME NEW g, ~Leaves(Keep(f, value), value), Follows(g, f, value)
      PROVE  Sees(g)'
  <2>1. Now(g) = Then(f) /\ g.method = m /\ g.obj = obj /\ g.tid = value
    BY <1>7 DEF Follows
  <2>2. Found(obj)
    <3>1. ~Found(obj) => value = -1
      BY SearchFacts
    <3>2. m \in Stopping => ~(value < 0)
      BY <1>1, <1>7, LeavesFacts DEF Aware, Stopping
    <3> QED BY <1>1, <1>3, <3>1, <3>2 DEF Stopping
  <2> QED BY <1>1, <1>2, <1>3, <1>4, <2>1, <2>2
          DEF Sees, Same, Shows, Waits, Stopping, Switching, Turning
<1> QED BY <1>6, <1>7, LearnsThreadsNext DEF Aware

LEMMA ThreadsFindRunning ==
  ASSUME Fits, Sound, NEW f, Aware(f), Now(f) = "findRunning", Steady, seen' = seen, NEW value
  PROVE  LearnsThreads(f, value)'
<1> DEFINE m == f.method
<1>1. m \in Switching /\ More(f) /\ Then(f) = "insertRunning"
  BY NextFacts DEF Aware
<1>2. /\ QueueNow' = QueueNow /\ KnownNow' = KnownNow /\ RunsNow' = RunsNow /\ object' = object
      /\ Before' = Before
      /\ \A obj : TS!InQueue(obj)' <=> TS!InQueue(obj)
  BY SteadyView, BeforeFacts DEF Steady
<1>3. ~Leaves(Keep(f, value), value)
  BY <1>1, LeavesFacts DEF Aware
<1>4. ASSUME NEW g, Follows(g, f, value)
      PROVE  Sees(g)'
  <2>1. /\ Now(g) = "insertRunning" /\ g.method = m /\ g.obj = f.obj /\ g.head = f.head
        /\ g.tid = f.tid
    BY <1>1, <1>4 DEF Follows
  <2>2. CASE m \in Turning
    BY <1>2, <2>1, <2>2 DEF Aware, Sees, Same, Shows, Waits, Stopping, Switching, Turning
  <2>3. CASE m \in {"choose", "choose_this"}
    BY <1>2, <2>1, <2>3 DEF Aware, Sees, Same, Shows, Waits, Stopping, Switching, Turning
  <2> QED BY <1>1, <2>2, <2>3 DEF Switching, Turning
<1> QED BY <1>3, <1>4, LearnsThreadsNext DEF Aware

LEMMA ThreadsFindHead ==
  ASSUME Fits, Sound, NEW f, Aware(f), Now(f) = "findHead", RQGetId(f.head), Steady,
         seen' = seen, NEW value, value = IF ~Found(f.head) THEN -1 ELSE reply'
  PROVE  LearnsThreads(f, value)'
<1> DEFINE m == f.method
<1>1. m \in Stopping \cup {"handler", "choose", "choose_another"} /\ More(f) /\ Then(f) = "run"
  BY NextFacts DEF Aware
<1>2. /\ QueueNow' = QueueNow /\ KnownNow' = KnownNow /\ RunsNow' = RunsNow /\ object' = object
      /\ Before' = Before
      /\ Chosen' = Chosen
  BY SteadyView, BeforeFacts DEF Steady
<1>3. object[value] = f.head
  <2>1. Loose(f.head) \/ f.head = 0
    BY DEF Aware, Knows
  <2>2. Found(f.head)
    BY <2>1, SoundFacts DEF Loose, Found
  <2> QED BY <2>2, SearchFacts
<1>4. ~Leaves(Keep(f, value), value)
  BY <1>1, LeavesFacts DEF Aware
<1>5. ASSUME NEW g, Follows(g, f, value)
      PROVE  Sees(g)'
  <2>1. /\ Now(g) = "run" /\ g.method = m /\ g.obj = f.obj /\ g.head = f.head
        /\ g.tid = value
    BY <1>1, <1>5 DEF Follows
  <2>2. CASE m \in Turning
    BY <1>2, <1>3, <2>1, <2>2 DEF Aware, Sees, Same, Shows, Waits, Stopping, Switching, Turning
  <2>3. CASE m = "choose"
    BY <1>2, <1>3, <2>1, <2>3 DEF Aware, Sees, Same, Shows, Waits, Stopping, Switching, Turning
  <2>4. CASE m \in Stopping
    <3>1. Left(g)' = Left(f)
      BY <1>2, <2>1 DEF Left
    <3>2. /\ Before.runs = f.obj /\ f.obj \in Before.known
          /\ f.head = Top(Before.queue) /\ Waits(Rear(Before.queue), Left(f))
      BY <2>4 DEF Aware, Sees
    <3>3. /\ Top(Before.queue)' = Top(Before.queue) /\ Rear(Before.queue)' = Rear(Before.queue)
      BY <1>2 DEF Top, Rear
    <3>4. Waits(Rear(Before.queue), Left(g))'
      BY <1>2, <3>1, <3>2, <3>3 DEF Waits
    <3> QED BY <1>2, <1>3, <2>1, <2>4, <3>2, <3>3, <3>4 DEF Sees, Stopping, Switching, Turning
  <2> QED BY <1>1, <2>2, <2>3, <2>4 DEF Turning
<1> QED BY <1>4, <1>5, LearnsThreadsNext DEF Aware

\* A thread with the priority of its object joins the queue.
LEMMA ThreadsInsertObj ==
  ASSUME Fits, Sound, InOrder, NEW f, Aware(f), Now(f) \in {"insertObj", "place"},
         Now(f) = "place" => f.running # 0,
         NEW key, key = Prio[f.obj], RQEnqueue(f.tid, key), seen' = seen, NEW value
  PROVE  LearnsThreads(f, value)'
<1> DEFINE m == f.method
           obj == f.obj
<1>1. /\ ~More(f)
      /\ Now(f) = "insertObj" => m = "resume"
      /\ Now(f) = "place" => m = "insert"
  BY NextFacts DEF Aware
<1>2. Held(f.tid) /\ object[f.tid] = obj /\ (Now(f) = "place" => f.running = RunsNow)
  BY DEF Aware, Knows
<1>3. QueueNow' = TS!Behind(QueueNow, obj)
  BY <1>2, ShownJoin DEF Held
<1>4. RunsNow' = RunsNow /\ KnownNow' = KnownNow
  BY DEF RQEnqueue, RunsNow, KnownNow
<1>5. Before' = Before /\ \A o : TS!Suspended(o)' <=> TS!Suspended(o)
  BY BeforeFacts
<1>6. ASSUME m = "resume"
      PROVE  Done(f, value)'
  <2>1. TS!Suspended(obj) /\ Same(Before.queue)
    BY <1>6 DEF Aware, Sees, Stopping, Switching
  <2> QED BY <1>3, <1>4, <1>5, <1>6, <2>1
          DEF Done, Same, Shows, Waits, Stopping, Switching, Turning
<1>7. ASSUME m = "insert"
      PROVE  Done(f, value)'
  <2>1. Now(f) = "place"
    BY <1>1, <1>7
  <2>2. obj \notin Before.known /\ Shows(Before.runs, Before.queue, Before.known \cup {obj})
    BY <1>7, <2>1 DEF Aware, Sees
  <2>3. Before.runs # 0
    BY <1>2, <2>1, <2>2 DEF Shows
  <2> QED BY <1>3, <1>4, <1>5, <1>7, <2>2, <2>3
          DEF Done, Shows, Waits, Stopping, Switching, Turning
<1>8. Done(f, value)'
  BY <1>1, <1>6, <1>7
<1>9. \A g : ~Follows(g, f, value)
  BY <1>1 DEF Follows
<1> QED BY <1>8, <1>9, LearnsThreadsNext DEF Aware

\* The running thread joins the queue.
LEMMA ThreadsInsertRunning ==
  ASSUME Fits, Sound, InOrder, NEW f, Aware(f), Now(f) = "insertRunning",
         NEW key, key = Prio[f.running], RQEnqueue(f.running_tid, key), seen' = seen, NEW value
  PROVE  LearnsThreads(f, value)'
<1> DEFINE m == f.method
<1>1. \/ m = "choose" /\ More(f) /\ Then(f) = "removeHead"
      \/ m \in Turning /\ More(f) /\ Then(f) = "findHead"
      \/ m = "choose_this" /\ More(f) /\ Then(f) = "run"
  BY NextFacts DEF Aware, Turning
<1>2. /\ Settled /\ running \in created /\ f.running = RunsNow /\ f.running_tid = running
  BY <1>1 DEF Aware, Knows, Switching, Turning
<1>3. running \notin Queued /\ RunsNow = object[running]
  BY <1>2, RunsNowFacts DEF Settled
<1>4. QueueNow' = TS!Behind(QueueNow, RunsNow)
  BY <1>2, <1>3, ShownJoin
<1>5. RunsNow' = RunsNow /\ KnownNow' = KnownNow /\ object' = object
  BY DEF RQEnqueue, RunsNow, KnownNow
<1>6. Before' = Before /\ Chosen' = Chosen /\ \A obj : TS!InQueue(obj)' <=> TS!InQueue(obj)
  BY BeforeFacts
<1>7. ~Leaves(Keep(f, value), value)
  BY <1>1, LeavesFacts DEF Aware, Turning
<1>8. ASSUME NEW g, Follows(g, f, value)
      PROVE  Sees(g)'
  <2>1. Now(g) = Then(f) /\ g.method = m /\ g.obj = f.obj /\ g.head = f.head /\ g.tid = f.tid
    BY <1>8 DEF Follows
  <2>2. CASE m \in Turning
    <3>1. /\ Before.queue # <<>> /\ f.head = Head(Before.queue)
          /\ m = "handler" => Prio[Head(Before.queue)] <= Prio[Before.runs]
          /\ Same(Tail(Before.queue))
      BY <2>2 DEF Aware, Sees
    <3>2. Same(TS!Behind(Tail(Before.queue), Before.runs))'
      BY <1>4, <1>5, <1>6, <3>1 DEF Same, Shows, Waits
    <3> QED BY <1>1, <1>6, <2>1, <2>2, <3>1, <3>2 DEF Sees, Stopping, Switching, Turning
  <2>3. CASE m = "choose"
    <3>1. Same(Before.queue)
      BY <2>3 DEF Aware, Sees
    <3>2. Same(Chosen)'
      BY <1>4, <1>5, <1>6, <3>1 DEF Same, Shows, Waits, Chosen
    <3> QED BY <1>1, <2>1, <2>3, <3>2 DEF Sees, Stopping, Switching, Turning
  <2>4. CASE m = "choose_this"
    <3>1. TS!InQueue(f.obj) /\ Same(TS!Drop(Before.queue, f.obj)) /\ object[f.tid] = f.obj
      BY <2>4 DEF Aware, Sees
    <3>2. Same(TS!Behind(TS!Drop(Before.queue, f.obj), Before.runs))'
      BY <1>4, <1>5, <1>6, <3>1 DEF Same, Shows, Waits
    <3> QED BY <1>1, <1>5, <1>6, <2>1, <2>4, <3>1, <3>2 DEF Sees, Stopping, Switching, Turning
  <2> QED BY <1>1, <2>2, <2>3, <2>4
<1> QED BY <1>7, <1>8, LearnsThreadsNext DEF Aware

\* The thread of the object leaves the queue.
LEMMA ThreadsRemoveObj ==
  ASSUME Fits, Sound, NEW f, Aware(f), Now(f) = "removeObj", RQDequeue(f.tid), seen' = seen,
         NEW value, value = reply'
  PROVE  LearnsThreads(f, value)'
<1> DEFINE m == f.method
           obj == f.obj
<1>1. m \in {"suspend", "choose_this"} /\ More(f) /\ Then(f) = "chosen"
  BY NextFacts DEF Aware
<1>2. /\ Settled /\ f.tid \in created /\ (m = "choose_this" => running \in created)
      /\ object[f.tid] = obj /\ Same(Before.queue)
  BY DEF Aware, Knows, Sees, Switching
<1>3. /\ ready' = Without(f.tid) /\ object' = object
      /\ value = IF IsReady(f.tid) THEN object[f.tid] ELSE 0
  BY DEF RQDequeue
<1>4. /\ QueueNow' = TS!Drop(QueueNow, obj)
      /\ f.tid \notin Queued => QueueNow' = QueueNow
  BY <1>2, <1>3, ShownLeave
<1>5. RunsNow' = RunsNow /\ KnownNow' = KnownNow
  BY DEF RQDequeue, RunsNow, KnownNow
<1>6. /\ Before' = Before
      /\ \A o : TS!InQueue(o)' <=> TS!InQueue(o)
  BY BeforeFacts
<1>7. /\ IsReady(f.tid) <=> f.tid \in Queued
      /\ f.tid \in Queued <=> TS!InQueue(obj)
  <2>1. IsReady(f.tid) <=> f.tid \in Queued
    BY DEF IsReady, Queued, Ids
  <2>2. f.tid \in Queued <=> \E i \in DOMAIN QueueNow : QueueNow[i] = obj
    BY <1>2, WaitingFacts
  <2>3. QueueNow = Before.queue
    BY <1>2 DEF Same, Shows, Waits
  <2> QED BY <2>1, <2>2, <2>3 DEF TS!InQueue, Before
<1>8. obj # 0
  BY <1>2, SoundFacts
<1>9. ASSUME Leaves(Keep(f, value), value)
      PROVE  Done(f, value)'
  <2>1. m = "choose_this" /\ value = 0
    BY <1>1, <1>9, LeavesFacts DEF Aware
  <2>2. f.tid \notin Queued
    BY <1>2, <1>3, <1>7, <1>8, <2>1
  <2>3. Before.runs # 0
    BY <1>2, <2>1, KnownFacts DEF Same, Shows
  <2> QED BY <1>1, <1>2, <1>4, <1>5, <1>6, <1>7, <2>1, <2>2, <2>3, AnswerFacts
          DEF Done, Same, Shows, Waits, Stopping, Switching, Turning
<1>10. ASSUME NEW g, ~Leaves(Keep(f, value), value), Follows(g, f, value)
       PROVE  Sees(g)'
  <2>1. Now(g) = "chosen" /\ g.method = m /\ g.obj = obj /\ g.tid = f.tid
    BY <1>1, <1>10 DEF Follows
  <2>2. Same(TS!Drop(Before.queue, obj))'
    BY <1>2, <1>4, <1>5, <1>6 DEF Same, Shows, Waits
  <2>3. CASE m = "suspend"
    <3>1. Before.runs = obj => f.tid \notin Queued
      BY <1>2, KnownFacts DEF Same, Shows, Settled
    <3>2. Before.runs = obj => Same(Before.queue)'
      BY <1>2, <1>4, <1>5, <1>6, <3>1 DEF Same, Shows, Waits
    <3> QED BY <1>6, <2>1, <2>2, <2>3, <3>2 DEF Sees, Stopping, Switching, Turning
  <2>4. CASE m = "choose_this"
    <3>1. value # 0
      BY <1>1, <1>10, <2>4, LeavesFacts DEF Aware
    <3>2. TS!InQueue(obj)
      BY <1>3, <1>7, <3>1
    <3> QED BY <1>2, <1>3, <1>6, <2>1, <2>2, <2>4, <3>2 DEF Sees, Stopping, Switching, Turning
  <2> QED BY <1>1, <2>3, <2>4
<1> QED BY <1>9, <1>10, LearnsThreadsNext DEF Aware

\* The head of the queue leaves it.
LEMMA ThreadsRemoveHead ==
  ASSUME Fits, Sound, NEW f, Aware(f), f.method = "handler" => PreemptionDue,
         Now(f) = "removeHead", RQDequeueHead, seen' = seen, NEW value, value = reply'
  PROVE  LearnsThreads(f, value)'
<1> DEFINE m == f.method
<1>1. \/ m \in Stopping \cup {"choose"} /\ More(f) /\ Then(f) = "findHead"
      \/ m \in Turning /\ More(f) /\ Then(f) = "chosen"
  BY NextFacts DEF Aware, Turning
<1>2. m \in Turning \cup {"choose"} => ready # <<>> /\ running \in created
  BY DEF Aware, Knows, Switching, Turning
<1>3. RunsNow' = RunsNow /\ KnownNow' = KnownNow /\ object' = object
  BY DEF RQDequeueHead, RunsNow, KnownNow
<1>4. /\ value = Top(QueueNow) /\ QueueNow' = Rear(QueueNow)
      /\ ready = <<>> <=> QueueNow = <<>>
  <2>1. CASE ready = <<>>
    <3>1. QueueNow = <<>> /\ value = 0
      BY <2>1, ShownFacts DEF RQDequeueHead
    <3>2. QueueNow' = QueueNow
      BY <1>3, <2>1, ShownSame DEF RQDequeueHead
    <3> QED BY <2>1, <3>1, <3>2 DEF Top, Rear
  <2>2. CASE ready # <<>>
    <3>1. ready' = Tail(ready) /\ value = object[Head(ready).tid]
      BY <2>2 DEF RQDequeueHead
    <3>2. /\ QueueNow # <<>> /\ Head(QueueNow) = object[Head(ready).tid]
          /\ QueueNow' = Tail(QueueNow)
      BY <1>3, <2>2, <3>1, ShownTail
    <3> QED BY <2>2, <3>1, <3>2 DEF Top, Rear
  <2> QED BY <2>1, <2>2
<1>5. Before' = Before /\ Chosen' = Chosen
  BY BeforeFacts
<1>6. ~Leaves(Keep(f, value), value)
  BY <1>1, LeavesFacts DEF Aware, Turning
<1>7. ASSUME NEW g, Follows(g, f, value)
      PROVE  Sees(g)'
  <2>1. Now(g) = Then(f) /\ g.method = m /\ g.obj = f.obj /\ g.head = value
    BY <1>7 DEF Follows
  <2>2. CASE m \in Turning
    <3>1. Same(Before.queue) /\ Before.queue # <<>>
      BY <1>2, <1>4, <2>2 DEF Aware, Sees, Same, Shows, Waits
    <3>2. value = Head(Before.queue) /\ Same(Tail(Before.queue))'
      BY <1>3, <1>4, <1>5, <3>1 DEF Same, Shows, Waits, Top, Rear
    <3>3. m = "handler" => Prio[Head(Before.queue)] <= Prio[Before.runs]
      <4>1. PICK h : h = Head(ready).tid
        OBVIOUS
      <4>2. h \in created /\ running \in created /\ Head(QueueNow) = object[h]
        <5>1. ready # <<>> /\ Line(ready) /\ Queued \subseteq created
          BY <1>2, <2>2, SoundFacts
        <5>2. h \in Queued
          BY <4>1, <5>1, LineTail DEF Queued
        <5>3. value = object[h]
          BY <4>1, <5>1 DEF RQDequeueHead
        <5> QED BY <1>2, <1>4, <2>2, <5>1, <5>2, <5>3 DEF Top
      <4>3. order[h] = Prio[Head(QueueNow)] /\ order[running] = Prio[RunsNow]
            /\ order[h] \in Nat /\ order[running] \in Nat
        BY <4>2, SoundFacts, RunsNowFacts
      <4>4. QueueNow = Before.queue /\ RunsNow = Before.runs
        BY <3>1 DEF Same, Shows, Waits
      <4>5. PreemptionDue => order[running] >= order[h]
        BY <4>1 DEF PreemptionDue
      <4> QED BY <4>3, <4>4, <4>5
    <3> QED BY <1>1, <1>5, <2>1, <2>2, <3>1, <3>2, <3>3 DEF Sees, Stopping, Switching, Turning
  <2>3. CASE m = "choose"
    <3>1. Same(Chosen) /\ Chosen # <<>>
      BY <1>2, <1>4, <2>3 DEF Aware, Sees, Same, Shows, Waits
    <3>2. value = Head(Chosen) /\ Same(Tail(Chosen))'
      BY <1>3, <1>4, <1>5, <3>1 DEF Same, Shows, Waits, Top, Rear
    <3> QED BY <1>1, <1>5, <2>1, <2>3, <3>2 DEF Sees, Stopping, Switching, Turning
  <2>4. CASE m \in Stopping
    <3>1. Before.runs = f.obj /\ f.obj \in Before.known /\ Waits(Before.queue, Left(f))
      BY <2>4 DEF Aware, Sees
    <3>2. Left(g)' = Left(f) /\ Top(Before.queue)' = Top(Before.queue)
          /\ Rear(Before.queue)' = Rear(Before.queue)
      BY <1>5, <2>1 DEF Left, Top, Rear
    <3>3. value = Top(Before.queue) /\ Waits(Rear(Before.queue), Left(g))'
      BY <1>3, <1>4, <3>1, <3>2 DEF Waits
    <3> QED BY <1>1, <1>5, <2>1, <2>4, <3>1, <3>2, <3>3 DEF Sees, Stopping, Switching, Turning
  <2> QED BY <1>1, <2>2, <2>3, <2>4
<1> QED BY <1>6, <1>7, LearnsThreadsNext DEF Aware

\* The thread of the object is freed.
LEMMA ThreadsDestroy ==
  ASSUME Fits, Sound, NEW f, Aware(f), Now(f) = "destroy", RQDestroy(f.tid), seen' = seen,
         NEW value
  PROVE  LearnsThreads(f, value)'
<1> DEFINE t == f.tid
           obj == f.obj
<1>1. f.method = "remove" /\ More(f) /\ Then(f) = "removeHead"
  BY NextFacts DEF Aware
<1>2. /\ Settled /\ t \in created /\ object[t] = obj /\ f.running = RunsNow
      /\ Same(Before.queue)
  BY <1>1 DEF Aware, Knows, Sees
<1>3. /\ object \in [Threads -> Objects \cup {0}] /\ created \subseteq Threads
      /\ \A u, v \in created : object[u] = object[v] => u = v
      /\ running \in Threads \cup {0} /\ Queued \subseteq created
  BY SoundFacts
<1>4. /\ created' = created \ {t} /\ object' = [object EXCEPT ![t] = 0]
      /\ ready' = Without(t) /\ running' = running
  BY DEF RQDestroy
<1>5. \A u \in Threads : u # t => object'[u] = object[u]
  BY <1>3, <1>4
<1>6. /\ QueueNow' = TS!Drop(QueueNow, obj)
      /\ t \notin Queued => QueueNow' = QueueNow
  BY <1>2, <1>3, <1>4, <1>5, ShownLeave
<1>7. KnownNow' = KnownNow \ {obj} /\ obj \in KnownNow
  BY <1>2, <1>3, <1>4, <1>5 DEF KnownNow
<1>8. RunsNow = obj <=> running = t
  BY <1>2, KnownFacts, RunsNowFacts
<1>9. RunsNow # obj => RunsNow' = RunsNow
  BY <1>3, <1>4, <1>5, <1>8 DEF RunsNow
<1>10. Before' = Before /\ \A h : Left(h)' = Left(h)
  BY BeforeFacts
<1>11. Left(f) = KnownNow'
  BY <1>1, <1>2, <1>7 DEF Left, Same, Shows, Waits
<1>12. ASSUME Leaves(Keep(f, value), value)
       PROVE  Done(f, value)'
  <2>1. RunsNow # obj
    BY <1>1, <1>2, <1>12, LeavesFacts DEF Aware
  <2>2. Shows(Before.runs, TS!Drop(Before.queue, obj), Left(f))'
    BY <1>2, <1>6, <1>9, <1>10, <1>11, <2>1 DEF Same, Shows, Waits
  <2> QED BY <1>1, <1>2, <1>7, <1>10, <2>1, <2>2, AnswerFacts
          DEF Done, Same, Shows, Waits, Stopping, Switching, Turning
<1>13. ASSUME NEW g, ~Leaves(Keep(f, value), value), Follows(g, f, value)
       PROVE  Sees(g)'
  <2>1. Now(g) = "removeHead" /\ g.method = "remove" /\ g.obj = obj
    BY <1>1, <1>13 DEF Follows
  <2>2. RunsNow = obj
    BY <1>1, <1>2, <1>13, LeavesFacts DEF Aware
  <2>3. QueueNow' = QueueNow
    BY <1>2, <1>6, <1>8, <2>2 DEF Settled
  <2>4. Left(g) = Left(f)
    BY <1>1, <2>1 DEF Left
  <2>5. Waits(Before.queue, Left(g))'
    BY <1>2, <1>10, <1>11, <2>3, <2>4 DEF Same, Shows, Waits
  <2> QED BY <1>2, <1>7, <1>10, <2>1, <2>2, <2>5
          DEF Sees, Same, Shows, Waits, Stopping, Switching, Turning
<1> QED BY <1>12, <1>13, LearnsThreadsNext DEF Aware

\* A thread gets the processor.
LEMMA ThreadsRun ==
  ASSUME Fits, Sound, NEW f, Aware(f), Now(f) \in {"run", "place"},
         Now(f) = "place" => f.running = 0, RQSetRunning(f.tid), seen' = seen, NEW value
  PROVE  LearnsThreads(f, value)'
<1> DEFINE m == f.method
           obj == f.obj
<1>1. /\ ~More(f)
      /\ Now(f) = "run" => m \in Stopping \cup Switching
      /\ Now(f) = "place" => m = "insert"
  BY NextFacts DEF Aware
<1>2. /\ f.tid \in Threads /\ f.tid # 0
      /\ Now(f) = "place" => object[f.tid] = obj /\ f.running = RunsNow
      /\ m \in Switching => running \in created
  <2>1. /\ f.tid \in created \cup {Spare}
        /\ Now(f) = "place" => object[f.tid] = obj /\ f.running = RunsNow
        /\ m \in Switching => running \in created
    BY DEF Aware, Knows, Held
  <2> QED BY <2>1, SoundFacts
<1>3. /\ RunsNow' = object[f.tid] /\ KnownNow' = KnownNow /\ QueueNow' = QueueNow
  BY <1>2 DEF RQSetRunning, RunsNow, KnownNow, QueueNow, Shown
<1>4. /\ Before' = Before /\ Chosen' = Chosen
      /\ \A o : TS!InQueue(o)' <=> TS!InQueue(o)
      /\ Left(f)' = Left(f)
      /\ Top(Before.queue)' = Top(Before.queue) /\ Rear(Before.queue)' = Rear(Before.queue)
  BY BeforeFacts DEF Top, Rear
<1>5. m \in Switching => RunsNow # 0
  BY <1>2, KnownFacts
<1>6. ASSUME m = "insert"
      PROVE  Done(f, value)'
  <2>1. Now(f) = "place"
    BY <1>1, <1>6 DEF Stopping, Switching
  <2>2. obj \notin Before.known /\ Shows(Before.runs, Before.queue, Before.known \cup {obj})
    BY <1>6, <2>1 DEF Aware, Sees
  <2>3. Before.runs = 0
    BY <1>2, <2>1, <2>2 DEF Shows
  <2> QED BY <1>2, <1>3, <1>4, <1>6, <2>1, <2>2, <2>3
          DEF Done, Shows, Waits, Stopping, Switching, Turning
<1>7. ASSUME m \in Stopping
      PROVE  Done(f, value)'
  <2>1. Now(f) = "run"
    BY <1>1, <1>7 DEF Stopping
  <2>2. /\ Before.runs = obj /\ obj \in Before.known
        /\ f.head = Top(Before.queue) /\ Waits(Rear(Before.queue), Left(f))
        /\ object[f.tid] = f.head
    BY <1>7, <2>1 DEF Aware, Sees, Stopping
  <2>3. Shows(Top(Before.queue), Rear(Before.queue), Left(f))'
    BY <1>3, <1>4, <2>2 DEF Shows, Waits
  <2> QED BY <1>4, <1>7, <2>1, <2>2, <2>3, AnswerFacts DEF Done, Stopping, Switching, Turning
<1>8. ASSUME m = "choose"
      PROVE  Done(f, value)'
  <2>1. Now(f) = "run"
    BY <1>1, <1>8
  <2>2. f.head = Head(Chosen) /\ Same(Tail(Chosen)) /\ object[f.tid] = f.head
    BY <1>8, <2>1 DEF Aware, Sees
  <2>3. Before.runs # 0 /\ Shows(Head(Chosen), Tail(Chosen), Before.known)'
    BY <1>3, <1>4, <1>5, <1>8, <2>2 DEF Same, Shows, Waits, Switching
  <2> QED BY <1>4, <1>8, <2>2, <2>3, AnswerFacts DEF Done, Stopping, Switching, Turning
<1>9. ASSUME m \in Turning
      PROVE  Done(f, value)'
  <2>1. Now(f) = "run"
    BY <1>1, <1>9 DEF Turning
  <2>2. /\ Before.queue # <<>> /\ f.head = Head(Before.queue)
        /\ m = "handler" => Prio[Head(Before.queue)] <= Prio[Before.runs]
        /\ Same(TS!Behind(Tail(Before.queue), Before.runs))
        /\ object[f.tid] = f.head
    BY <1>9, <2>1 DEF Aware, Sees, Turning
  <2>3. /\ Before.runs # 0
        /\ Shows(Head(Before.queue), TS!Behind(Tail(Before.queue), Before.runs), Before.known)'
    BY <1>3, <1>4, <1>5, <1>9, <2>2 DEF Same, Shows, Waits, Switching, Turning
  <2> QED BY <1>4, <1>9, <2>2, <2>3, AnswerFacts DEF Done, Stopping, Switching, Turning
<1>10. ASSUME m = "choose_this"
       PROVE  Done(f, value)'
  <2>1. Now(f) = "run"
    BY <1>1, <1>10
  <2>2. /\ TS!InQueue(obj) /\ Same(TS!Behind(TS!Drop(Before.queue, obj), Before.runs))
        /\ object[f.tid] = obj
    BY <1>10, <2>1 DEF Aware, Sees
  <2>3. /\ Before.runs # 0
        /\ Shows(obj, TS!Behind(TS!Drop(Before.queue, obj), Before.runs), Before.known)'
    BY <1>3, <1>4, <1>5, <1>10, <2>2 DEF Same, Shows, Waits, Switching
  <2> QED BY <1>1, <1>4, <1>10, <2>2, <2>3, AnswerFacts DEF Done, Stopping, Switching, Turning
<1>11. Done(f, value)'
  BY <1>1, <1>6, <1>7, <1>8, <1>9, <1>10 DEF Switching, Turning
<1>12. \A g : ~Follows(g, f, value)
  BY <1>1 DEF Follows
<1> QED BY <1>11, <1>12, LearnsThreadsNext DEF Aware

\* Every call brings the block one call closer to the step of ThreadScheduler.
LEMMA CallLearnsThreads ==
  ASSUME Fits, Sound, Sound', InOrder, NEW f, Aware(f), Now(f) # "ack",
         f.method = "handler" /\ Now(f) = "removeHead" => PreemptionDue,
         NEW r, LET q == Request(f)
                IN /\ r.cmd = q.cmd /\ r.param = q.param
                   /\ q.cmd \in {"CREATE", "INSERT"} => r.priority = q.priority,
         Performs(r),
         failed' = Refuses(r),
         seen' = seen
  PROVE  LearnedThreads(f)'
<1> DEFINE s == Now(f)
<1>0. PICK value : value = IF failed' THEN -1 ELSE reply'
  OBVIOUS
<1>1. SUFFICES LearnsThreads(f, value)'
  BY <1>0 DEF LearnedThreads
<1>2. s \in Calls
  BY CallFacts DEF Aware
<1>3. created # Threads
  BY SoundFacts
<1>4. CASE s \in {"size", "ticks", "quantum", "enable", "disable"}
  <2>1. Steady
    BY <1>4, RequestTable DEF Performs, Serves, SetsOrder, TimerControls, RQSize, rqVars, Steady
  <2>2. s = "size" => value = Len(ready) + 1
    BY <1>0, RequestTable DEF Performs, Serves, SetsOrder, TimerControls, Refuses, RQSize
  <2> QED BY <1>4, <2>1, <2>2, ThreadsQuiet
<1>5. CASE s = "reset"
  <2>1. RQReset
    BY <1>5, RequestTable DEF Performs, Serves, SetsOrder, TimerControls
  <2> QED BY <1>5, <2>1, ThreadsReset
<1>6. CASE s = "chosen"
  <2>1. RQChosen /\ UNCHANGED order /\ failed' = FALSE
    BY <1>6, RequestTable DEF Performs, Serves, SetsOrder, TimerControls, Refuses
  <2>2. Steady /\ value = RunsNow
    BY <1>0, <2>1 DEF RQChosen, Steady, RunsNow
  <2> QED BY <1>6, <2>2, ThreadsChosen
<1>7. CASE s = "create"
  <2>1. RQCreate(f.obj) /\ failed' = FALSE
    BY <1>3, <1>7, RequestTable DEF Performs, Serves, SetsOrder, TimerControls, Refuses
  <2>2. value = reply'
    BY <1>0, <2>1
  <2> QED BY <1>7, <2>1, <2>2, ThreadsCreate
<1>8. CASE s \in {"insertObj", "place"} /\ r.cmd = "INSERT"
  <2>1. PICK key : key = Prio[f.obj]
    OBVIOUS
  <2>2. RQEnqueue(f.tid, key) /\ (s = "place" => f.running # 0)
    BY <1>8, <2>1, RequestTable DEF Performs, Serves, SetsOrder, TimerControls
  <2> QED BY <1>8, <2>1, <2>2, ThreadsInsertObj
<1>9. CASE s \in {"run", "place"} /\ r.cmd = "UPDATE_RUNNING"
  <2>1. RQSetRunning(f.tid) /\ (s = "place" => f.running = 0)
    BY <1>9, RequestTable DEF Performs, Serves, SetsOrder, TimerControls
  <2> QED BY <1>9, <2>1, ThreadsRun
<1>10. CASE s = "insertRunning"
  <2>1. PICK key : key = Prio[f.running]
    OBVIOUS
  <2>2. RQEnqueue(f.running_tid, key)
    BY <1>10, <2>1, RequestTable DEF Performs, Serves, SetsOrder, TimerControls
  <2> QED BY <1>10, <2>1, <2>2, ThreadsInsertRunning
<1>11. CASE s \in {"findObj", "findRunning", "findHead"}
  <2>1. RQGetId(r.param) /\ UNCHANGED order /\ (failed' <=> ~Found(r.param))
    BY <1>11, RequestTable DEF Performs, Serves, SetsOrder, TimerControls, Refuses
  <2>2. value = IF ~Found(r.param) THEN -1 ELSE reply'
    BY <1>0, <2>1
  <2>3. Steady
    BY <2>1 DEF RQGetId, Steady
  <2>4. CASE s = "findObj"
    <3>1. r.param = f.obj
      BY <2>4, RequestTable
    <3>2. RQGetId(f.obj) /\ value = IF ~Found(f.obj) THEN -1 ELSE reply'
      BY <2>1, <2>2, <3>1
    <3> QED BY <2>3, <2>4, <3>2, ThreadsFindObj
  <2>5. CASE s = "findRunning"
    BY <2>3, <2>5, ThreadsFindRunning
  <2>6. CASE s = "findHead"
    <3>1. r.param = f.head
      BY <2>6, RequestTable
    <3>2. RQGetId(f.head) /\ value = IF ~Found(f.head) THEN -1 ELSE reply'
      BY <2>1, <2>2, <3>1
    <3> QED BY <2>3, <2>6, <3>2, ThreadsFindHead
  <2> QED BY <1>11, <2>4, <2>5, <2>6
<1>12. CASE s = "destroy"
  <2>1. RQDestroy(f.tid)
    BY <1>12, RequestTable DEF Performs, Serves, SetsOrder, TimerControls
  <2> QED BY <1>12, <2>1, ThreadsDestroy
<1>13. CASE s = "removeObj"
  <2>1. RQDequeue(f.tid) /\ failed' = FALSE
    BY <1>13, RequestTable DEF Performs, Serves, SetsOrder, TimerControls, Refuses
  <2>2. value = reply'
    BY <1>0, <2>1
  <2> QED BY <1>13, <2>1, <2>2, ThreadsRemoveObj
<1>14. CASE s = "removeHead"
  <2>1. RQDequeueHead /\ failed' = FALSE
    BY <1>14, RequestTable DEF Performs, Serves, SetsOrder, TimerControls, Refuses
  <2>2. value = reply'
    BY <1>0, <2>1
  <2> QED BY <1>14, <2>1, <2>2, ThreadsRemoveHead
<1>15. /\ s \in {"insertObj", "place"} => r.cmd \in {"INSERT", "UPDATE_RUNNING"}
       /\ s = "insertObj" => r.cmd = "INSERT"
       /\ s = "run" => r.cmd = "UPDATE_RUNNING"
  BY RequestTable
<1> QED BY <1>2, <1>4, <1>5, <1>6, <1>7, <1>8, <1>9, <1>10, <1>11, <1>12, <1>13, <1>14, <1>15
        DEF Calls

-----------------------------------------------------------------------------
(***************************************************************************)
(* The invariant: what the block shows, and what the program has seen.      *)
(***************************************************************************)
LEMMA SteadyThreads ==
  ASSUME Steady, seen' = seen
  PROVE  /\ Before' = Before
         /\ Same(Before.queue)' <=> Same(Before.queue)
         /\ \A f : Sees(f)' <=> Sees(f)
         /\ \A f, value : LearnsThreads(f, value)' <=> LearnsThreads(f, value)
<1>1. /\ QueueNow' = QueueNow /\ KnownNow' = KnownNow /\ RunsNow' = RunsNow /\ object' = object
      /\ Before' = Before /\ Chosen' = Chosen
      /\ \A obj : (TS!Suspended(obj)' <=> TS!Suspended(obj))
                  /\ (TS!InQueue(obj)' <=> TS!InQueue(obj))
      /\ \A f : Left(f)' = Left(f)
  BY SteadyView, BeforeFacts DEF Steady
<1>2. Same(Before.queue)' <=> Same(Before.queue)
  BY <1>1 DEF Same, Shows, Waits
<1>3. ASSUME NEW f PROVE Sees(f)' <=> Sees(f)
  BY <1>1 DEF Sees, Same, Shows, Waits
<1>4. ASSUME NEW f, NEW value PROVE Done(f, value)' <=> Done(f, value)
  BY <1>1 DEF Done, Same, Shows, Waits
<1>5. ASSUME NEW f, NEW value PROVE LearnsThreads(f, value)' <=> LearnsThreads(f, value)
  <2> DEFINE kept == Keep(f, value)
             g == Advanced(kept)
  <2>1. Done(kept, value)' <=> Done(kept, value)
    <3> HIDE DEF kept
    <3> QED BY <1>4
  <2>2. Sees(g)' <=> Sees(g)
    <3> HIDE DEF g
    <3> QED BY <1>3
  <2> QED BY <2>1, <2>2 DEF LearnsThreads, kept, g
<1> QED BY <1>1, <1>2, <1>3, <1>5

LEMMA SeesSame ==
  ASSUME NEW f, NEW g, g.method = f.method, g.obj = f.obj, g.todo = f.todo, g.tid = f.tid,
         g.head = f.head
  PROVE  Sees(g) <=> Sees(f)
<1>1. Left(g) = Left(f)
  BY DEF Left
<1> QED BY <1>1 DEF Sees, Now

LEMMA DoneSame ==
  ASSUME NEW f, NEW g, g.method = f.method, g.obj = f.obj, g.todo = f.todo, g.head = f.head,
         NEW value
  PROVE  Done(g, value) <=> Done(f, value)
<1>1. Left(g) = Left(f) /\ Answer(g, value) = Answer(f, value)
  BY DEF Left, Answer
<1> QED BY <1>1 DEF Done

LEMMA LearnsThreadsSame ==
  ASSUME NEW f, NEW g, Framed(f), Framed(g), g.method = f.method, g.obj = f.obj,
         g.todo = f.todo, g.tid = f.tid, g.running = f.running, g.running_tid = f.running_tid,
         g.head = f.head, NEW value
  PROVE  LearnsThreads(g, value) <=> LearnsThreads(f, value)
<1>1. Now(g) = Now(f) /\ (More(g) <=> More(f))
  BY DEF Now, More
<1>2. Leaves(Keep(g, value), value) <=> Leaves(Keep(f, value), value)
  <2>1. Leaves(Keep(f, value), value) <=>
           \/ ~More(f)
           \/ Now(f) = "create" /\ value <= 0
           \/ Now(f) = "findObj" /\ IF f.method \in Stopping THEN value < 0 ELSE value = 0
           \/ f.method = "remove" /\ Now(f) = "destroy" /\ f.running # f.obj
           \/ f.method = "suspend" /\ Now(f) = "chosen" /\ value # f.obj
           \/ f.method = "choose_this" /\ Now(f) = "removeObj" /\ value = 0
    BY LeavesFacts
  <2>2. Leaves(Keep(g, value), value) <=>
           \/ ~More(g)
           \/ Now(g) = "create" /\ value <= 0
           \/ Now(g) = "findObj" /\ IF g.method \in Stopping THEN value < 0 ELSE value = 0
           \/ g.method = "remove" /\ Now(g) = "destroy" /\ g.running # g.obj
           \/ g.method = "suspend" /\ Now(g) = "chosen" /\ value # g.obj
           \/ g.method = "choose_this" /\ Now(g) = "removeObj" /\ value = 0
    BY LeavesFacts
  <2> QED BY <1>1, <2>1, <2>2
<1> DEFINE kf == Keep(f, value)
           kg == Keep(g, value)
<1>3. /\ FrameOf(kf) /\ FrameOf(kg) /\ kg.method = kf.method /\ kg.obj = kf.obj
      /\ kg.todo = kf.todo /\ kg.tid = kf.tid /\ kg.head = kf.head
  BY KeepFacts DEF Framed
<1> HIDE DEF kf, kg
<1> DEFINE af == Advanced(kf)
           ag == Advanced(kg)
<1>4. /\ ag.method = af.method /\ ag.obj = af.obj /\ ag.todo = af.todo /\ ag.tid = af.tid
      /\ ag.head = af.head
  BY <1>3, AdvancedFacts
<1> HIDE DEF af, ag
<1>5. Sees(ag) <=> Sees(af)
  BY <1>4, SeesSame
<1>6. Done(kg, value) <=> Done(kf, value)
  BY <1>3, DoneSame
<1> QED BY <1>2, <1>5, <1>6 DEF LearnsThreads, af, ag, kf, kg

\* The method that starts the timer is done with its last call, whatever it is told.
LEMMA EnableLearnsThreads ==
  ASSUME NEW f, Framed(f), f.method = "start", Now(f) = "enable", NEW value
  PROVE  /\ LearnsThreads(f, value) <=> Same(Before.queue)
         /\ LearnsThreads(f, value)' <=> Same(Before.queue)'
<1> DEFINE kept == Keep(f, value)
<1>1. Leaves(kept, value)
  BY CallFacts, LeavesFacts
<1>2. kept.method = "start"
  BY KeepFacts DEF Framed
<1> HIDE DEF kept
<1>3. /\ Done(kept, value) <=> Same(Before.queue)
      /\ Done(kept, value)' <=> Same(Before.queue)'
  BY <1>2 DEF Done, Stopping, Switching, Turning
<1> QED BY <1>1, <1>3 DEF LearnsThreads, kept

LEMMA ThreadedInit ==
  ASSUME Fits
  PROVE  DriverInit => Threaded
<1> SUFFICES ASSUME DriverInit PROVE Threaded
  OBVIOUS
<1>1. PICK f : f = Enter("reset", 0)
  OBVIOUS
<1>2. "reset" \in DOMAIN Body /\ "reset" \in DOMAIN Single /\ "reset" \notin Takes
  BY Names DEF ProgramMethods, Single, Takes
<1>3. f.method = "reset" /\ f.obj = 0 /\ f.access = "cmd"
  BY <1>1, <1>2, EnterFacts
<1>4. Now(f) = "reset"
  BY <1>1, <1>2, FirstCall DEF Single
<1>5. frame["main"] = f /\ cpu = "program" /\ seen = [threads |-> ProgramView, last |-> NoAnswer]
  BY <1>1 DEF DriverInit
<1>6. Sees(f)
  BY <1>3, <1>4 DEF Sees, Stopping, Switching, Turning
<1>7. ~Executed("main")
  BY <1>3, <1>5 DEF Executed
<1>8. Active("main")
  BY <1>3, <1>5 DEF Active
<1> QED BY <1>2, <1>3, <1>5, <1>6, <1>7, <1>8 DEF Threaded, InformedThreads

LEMMA ThreadedWrites ==
  ASSUME Control, Threaded, NEW k \in Callers,
         WriteCommand(k) \/ WritePriority(k) \/ WriteParameter(k)
  PROVE  Threaded' /\ seen' = seen
<1>0. PICK f : f = frame[k]
  OBVIOUS
<1>1. PICK g : g = frame'[k]
  OBVIOUS
<1>2. /\ Framed(f) /\ Active(k) /\ Turn(k) /\ f.access \in {"cmd", "priority", "param"}
      /\ Unmoved /\ cpu' = cpu
      /\ \A j \in Callers \ {k} : frame'[j] = frame[j]
      /\ \/ /\ g.method = f.method /\ g.obj = f.obj /\ g.todo = f.todo /\ g.tid = f.tid
            /\ g.running = f.running /\ g.running_tid = f.running_tid /\ g.head = f.head
            /\ g.access \in {"priority", "param"} \/ (g.access = "status" /\ posted' # NoRequest)
         \/ /\ k = "isr" /\ Now(f) = "ack" /\ g.method = "handler" /\ Now(g) = "removeHead"
            /\ g.access = "cmd"
  BY <1>0, <1>1, WritesFrames
<1>3. seen' = seen
  BY DEF WriteCommand, WritePriority, WriteParameter, GoTo, NextCall
<1>4. ~Executed(k) /\ ~Executed(k)'
  BY <1>0, <1>1, <1>2 DEF Executed
<1>5. Sees(f)
  <2>1. InformedThreads(k)
    BY <1>2 DEF Threaded, Turn, Callers
  <2> QED BY <1>0, <1>4, <2>1 DEF InformedThreads
<1>6. Sees(g) /\ g.method # "none"
  <2>1. CASE /\ g.method = f.method /\ g.obj = f.obj /\ g.todo = f.todo /\ g.tid = f.tid
             /\ g.head = f.head
    BY <1>0, <1>2, <1>5, <2>1, SeesSame DEF Active
  <2>2. CASE Now(f) = "ack" /\ g.method = "handler" /\ Now(g) = "removeHead"
    <3>1. Same(Before.queue)
      BY <1>5, <2>2 DEF Sees
    <3> QED BY <2>2, <3>1 DEF Sees, Stopping, Switching, Turning
  <2> QED BY <1>2, <2>1, <2>2
<1>7. Sees(g)'
  BY <1>2, <1>3, <1>6, SteadyThreads DEF Unmoved
<1>8. InformedThreads(k)'
  BY <1>1, <1>4, <1>7 DEF InformedThreads
<1>9. Active(k)' /\ cpu = (IF k = "isr" THEN "handler" ELSE "program")
  BY <1>1, <1>2, <1>6 DEF Active, Turn
<1>10. frame'["main"].method \notin Takes => frame'["main"].obj = 0
  BY <1>0, <1>1, <1>2 DEF Threaded, Callers
<1> QED BY <1>2, <1>3, <1>8, <1>9, <1>10 DEF Threaded, Callers

-----------------------------------------------------------------------------
(***************************************************************************)
(* The return of a method is a step of ThreadScheduler.                     *)
(***************************************************************************)
LEMMA ViewFacts ==
  ASSUME Fits, Sound
  PROVE  ProgramView = [runs |-> RunsNow, queue |-> QueueNow, known |-> KnownNow]
<1>1. DOMAIN ready = 1..Len(ready)
  BY LineFacts DEF Sound
<1> QED BY <1>1 DEF ProgramView, RunsNow, QueueNow, Shown, KnownNow

\* What the program sees when a method with this result returns.
Reports(f, value) ==
  seen' = [threads |-> [runs |-> RunsNow, queue |-> QueueNow, known |-> KnownNow],
           last    |-> IF f.method = "handler" THEN seen.last
                       ELSE [op |-> f.method, obj |-> f.obj, answer |-> Answer(f, value)]]

LEMMA ReportsFacts ==
  ASSUME NEW f, NEW value, Reports(f, value)
  PROVE  /\ seen'.threads.runs = RunsNow /\ seen'.threads.queue = QueueNow
         /\ seen'.threads.known = KnownNow
         /\ f.method = "handler" => seen'.last = seen.last
         /\ f.method # "handler" => TS!Returned(f.method, f.obj, Answer(f, value))
  BY DEF Reports, TS!Returned

LEMMA DoneStep ==
  ASSUME NEW f, NEW value, Done(f, value), Reports(f, value),
         f.method \in ProgramMethods \cup {"handler"},
         f.method \in Takes => f.obj \in Objects,
         f.method \notin Takes \cup {"handler"} => f.obj = 0
  PROVE  TS!TSNext
<1> DEFINE m == f.method
           obj == f.obj
<1>1. /\ seen'.threads.runs = RunsNow /\ seen'.threads.queue = QueueNow
      /\ seen'.threads.known = KnownNow
      /\ m = "handler" => seen'.last = seen.last
      /\ m # "handler" => TS!Returned(m, obj, Answer(f, value))
  BY ReportsFacts
<1>2. CASE m = "reset"
  <2>1. TS!TSReset
    BY <1>1, <1>2, AnswerFacts DEF Done, Shows, Waits, TS!TSReset, Takes
  <2> QED BY <2>1 DEF TS!TSNext
<1>3. CASE m = "insert"
  <2>1. TS!TSInsert(obj)
    BY <1>1, <1>3, AnswerFacts DEF Done, Shows, Waits, Before, TS!TSInsert
  <2>2. obj \in Objects
    BY <1>3 DEF Takes
  <2> QED BY <2>1, <2>2 DEF TS!TSNext
<1>4. CASE m = "remove"
  <2>1. IF obj = Before.runs THEN Shows(Top(Before.queue), Rear(Before.queue), Left(f))
        ELSE Shows(Before.runs, TS!Drop(Before.queue, obj), Left(f))
    BY <1>4 DEF Done, Stopping
  <2>2. Answer(f, value) = IF obj \in Before.known THEN obj ELSE 0
    BY <1>4 DEF Done
  <2>3. seen'.threads.known = Before.known \ {obj}
    BY <1>1, <1>4, <2>1 DEF Shows, Waits, Left
  <2>4. IF obj = Before.runs THEN TS!RunNext
        ELSE seen'.threads.queue = TS!Drop(Before.queue, obj) /\ seen'.threads.runs = Before.runs
    BY <1>1, <2>1 DEF Shows, Waits, Top, Rear, TS!RunNext, Before
  <2>5. TS!TSRemove(obj)
    BY <1>1, <1>4, <2>2, <2>3, <2>4 DEF TS!TSRemove, Before
  <2>6. obj \in Objects
    BY <1>4 DEF Takes
  <2> QED BY <2>5, <2>6 DEF TS!TSNext
<1>5. CASE m = "suspend"
  <2>1. IF obj = Before.runs THEN Shows(Top(Before.queue), Rear(Before.queue), Left(f))
        ELSE Shows(Before.runs, TS!Drop(Before.queue, obj), Left(f))
    BY <1>5 DEF Done, Stopping
  <2>2. Answer(f, value) = 0
    BY <1>5, AnswerFacts
  <2>3. seen'.threads.known = Before.known
    BY <1>1, <1>5, <2>1 DEF Shows, Waits, Left
  <2>4. IF obj = Before.runs THEN TS!RunNext
        ELSE seen'.threads.queue = TS!Drop(Before.queue, obj) /\ seen'.threads.runs = Before.runs
    BY <1>1, <2>1 DEF Shows, Waits, Top, Rear, TS!RunNext, Before
  <2>5. TS!TSSuspend(obj)
    BY <1>1, <1>5, <2>2, <2>3, <2>4 DEF TS!TSSuspend, Before
  <2>6. obj \in Objects
    BY <1>5 DEF Takes
  <2> QED BY <2>5, <2>6 DEF TS!TSNext
<1>6. CASE m = "resume"
  <2>1. TS!TSResume(obj)
    BY <1>1, <1>6, AnswerFacts DEF Done, Same, Shows, Waits, Before, TS!TSResume
  <2>2. obj \in Objects
    BY <1>6 DEF Takes
  <2> QED BY <2>1, <2>2 DEF TS!TSNext
<1>7. CASE m = "choose"
  <2>1. TS!TSChoose
    BY <1>1, <1>7 DEF Done, Shows, Waits, Before, Chosen, TS!TSChoose, Takes
  <2> QED BY <2>1 DEF TS!TSNext
<1>8. CASE m = "choose_another"
  <2>1. TS!SwitchToNext
    BY <1>1, <1>8 DEF Done, Shows, Waits, Before, Turning, TS!SwitchToNext
  <2>2. TS!TSChooseAnother
    BY <1>1, <1>8, <2>1 DEF Done, Before, TS!TSChooseAnother, Takes
  <2> QED BY <2>2 DEF TS!TSNext
<1>9. CASE m = "handler"
  <2>1. TS!SwitchToNext
    BY <1>1, <1>9 DEF Done, Shows, Waits, Before, Turning, TS!SwitchToNext
  <2>2. TS!TSPreempt
    BY <1>1, <1>9, <2>1 DEF Done, Before, TS!TSPreempt
  <2> QED BY <2>2 DEF TS!TSNext
<1>10. CASE m = "choose_this"
  <2>1. TS!TSChooseThis(obj)
    BY <1>1, <1>10 DEF Done, Same, Shows, Waits, Before, TS!TSChooseThis
  <2>2. obj \in Objects
    BY <1>10 DEF Takes
  <2> QED BY <2>1, <2>2 DEF TS!TSNext
<1>11. CASE m \in {"chosen", "schedulables", "start", "reset_quantum", "set_quantum",
                   "disable_schedule"}
  <2>1. /\ Same(Before.queue)
        /\ m = "chosen" => Answer(f, value) = Before.runs
        /\ m = "schedulables" => Answer(f, value) = Len(Before.queue) + 1
        /\ m \notin {"chosen", "schedulables"} => Answer(f, value) = 0
    BY <1>11, AnswerFacts DEF Done, Stopping, Switching, Turning
  <2>2. obj = 0
    BY <1>11 DEF Takes
  <2>3. TS!TSAsk(m)
    BY <1>1, <1>11, <2>1, <2>2 DEF Same, Shows, Waits, Before, TS!TSAsk
  <2> QED BY <1>11, <2>3 DEF TS!TSNext
<1> QED BY <1>2, <1>3, <1>4, <1>5, <1>6, <1>7, <1>8, <1>9, <1>10, <1>11 DEF ProgramMethods

LEMMA ThreadedContinues ==
  ASSUME Fits, Control, Data, Threaded, NEW k \in Callers, NEW value, Continue(k, value),
         Active(k), Turn(k), Executed(k), Unmoved, posted' = posted,
         LearnsThreads(frame[k], value)
  PROVE  Threaded' /\ (seen' = seen \/ TS!TSNext)
<1>0. PICK f : f = frame[k]
  OBVIOUS
<1>1. /\ Frames /\ Framed(f) /\ f.method # "none" /\ posted = NoRequest /\ Sound
      /\ cpu = IF k = "isr" THEN "handler" ELSE "program"
  BY <1>0 DEF Control, Data, Frames, Active, Executed, Turn
<1>2. /\ f.method \in ProgramMethods \cup {"handler"}
      /\ f.method = "handler" <=> k = "isr"
  BY <1>0, <1>1 DEF Frames, Callers, ProgramMethods
<1>3. CASE Leaves(Keep(f, value), value)
  <2>1. PICK kept : kept = Keep(f, value)
    OBVIOUS
  <2>2. kept.method = f.method /\ kept.obj = f.obj
    BY <1>1, <2>1, KeepFacts DEF Framed
  <2>3. Done(kept, value) /\ Returns(k, kept, value)
    BY <1>0, <1>3, <2>1 DEF LearnsThreads, Continue
  <2>4. Reports(kept, value)
    BY <1>1, <1>2, <2>2, <2>3, ViewFacts DEF Returns, Reports
  <2>5. /\ frame'[k] = NoFrame
        /\ \A j \in Callers \ {k} : frame'[j] = frame[j]
        /\ cpu' = IF k = "isr" THEN "handled" ELSE cpu
    BY <1>1, <2>3, ReturnsFrame
  <2>6. TS!TSNext
    <3>1. kept.method \in Takes => kept.obj \in Objects
      <4>1. "handler" \notin Takes
        BY DEF Takes
      <4> QED BY <1>0, <1>2, <2>2, <4>1 DEF Data, Callers
    <3>2. kept.method \notin Takes \cup {"handler"} => kept.obj = 0
      BY <1>0, <1>2, <2>2 DEF Threaded, Callers
    <3> QED BY <1>2, <2>2, <2>3, <2>4, <3>1, <3>2, DoneStep
  <2>7. Same(Before.queue)' /\ seen' = [threads |-> seen'.threads, last |-> seen'.last]
    <3>1. QueueNow' = QueueNow /\ KnownNow' = KnownNow /\ RunsNow' = RunsNow
      BY SteadyView DEF Unmoved
    <3> QED BY <2>4, <3>1 DEF Reports, Same, Shows, Waits, Before
  <2>8. NoFrame.method = "none" /\ NoFrame.obj = 0
    BY DEF NoFrame
  <2>9. CASE k = "main"
    BY <1>1, <2>5, <2>6, <2>7, <2>8, <2>9 DEF Threaded, Active
  <2>10. CASE k = "isr"
    <3>1. frame'["main"] = frame["main"] /\ cpu' = "handled"
      BY <2>5, <2>10 DEF Callers
    <3>2. ASSUME Active("main")'
          PROVE  InformedThreads("main")'
      <4>1. PICK h : h = frame["main"]
        OBVIOUS
      <4>2. Active("main") /\ Closing
        BY <1>1, <2>10, <3>1, <3>2 DEF Active, Control
      <4>3. Framed(h) /\ Now(h) = "enable" /\ h.method # "none" /\ h.method \in ProgramMethods
            /\ h.access \in {"status", "return"}
        BY <1>1, <4>1, <4>2 DEF Closing, At, Now, Frames, Callers, Active
      <4>4. h.method = "start"
        BY <4>3, CallFacts DEF ProgramMethods
      <4>5. PICK v : v = IF failed' THEN -1 ELSE reply'
        OBVIOUS
      <4>6. LearnsThreads(h, v)'
        BY <2>7, <4>3, <4>4, EnableLearnsThreads
      <4>7. h = frame'["main"] /\ Executed("main")'
        BY <1>1, <3>1, <4>1, <4>3 DEF Executed
      <4> QED BY <4>5, <4>6, <4>7 DEF InformedThreads, LearnedThreads
    <3>3. frame'["main"].method \notin Takes => frame'["main"].obj = 0
      BY <3>1 DEF Threaded
    <3> QED BY <2>6, <2>7, <3>1, <3>2, <3>3 DEF Threaded
  <2> QED BY <2>9, <2>10 DEF Callers
<1>4. CASE ~Leaves(Keep(f, value), value)
  <2>1. PICK g : g = Advanced(Keep(f, value))
    OBVIOUS
  <2>2. /\ frame'[k] = g
        /\ \A j \in Callers \ {k} : frame'[j] = frame[j]
        /\ cpu' = cpu /\ seen' = seen
    BY <1>0, <1>1, <1>4, <2>1, NextCallFrame DEF Continue, NextCall
  <2>3. Follows(g, f, value)
    BY <1>1, <1>4, <2>1, FollowsFacts
  <2>4. g.access = "cmd" /\ g.method = f.method /\ g.obj = f.obj
    BY <2>3 DEF Follows
  <2>5. Sees(g)
    BY <1>0, <1>4, <2>1 DEF LearnsThreads
  <2>6. Sees(g)'
    BY <2>2, <2>5, SteadyThreads DEF Unmoved
  <2>7. InformedThreads(k)' /\ Active(k)'
    BY <1>1, <2>2, <2>4, <2>6 DEF InformedThreads, Executed, Active
  <2>8. frame'["main"].method \notin Takes => frame'["main"].obj = 0
    BY <1>0, <2>2, <2>4 DEF Threaded, Callers
  <2> QED BY <1>1, <2>2, <2>7, <2>8 DEF Threaded, Callers
<1> QED BY <1>3, <1>4

LEMMA ThreadedReads ==
  ASSUME Fits, Control, Data, Threaded, NEW k \in Callers, ReadStatus(k) \/ ReadReturn(k)
  PROVE  Threaded' /\ (seen' = seen \/ TS!TSNext)
<1>0. PICK f : f = frame[k]
  OBVIOUS
<1>1. /\ Active(k) /\ Turn(k) /\ Executed(k) /\ Unmoved /\ posted' = posted
  BY UnmovedBlock DEF ReadStatus, ReadReturn, Accesses, Executed, adapter
<1>2. /\ Frames /\ Framed(f) /\ f.method # "none"
      /\ cpu = IF k = "isr" THEN "handler" ELSE "program"
  BY <1>0, <1>1 DEF Control, Frames, Active, Turn
<1>3. LearnedThreads(f)
  <2>1. InformedThreads(k)
    BY <1>1, <1>2 DEF Threaded, Callers
  <2> QED BY <1>0, <1>1, <2>1 DEF InformedThreads
<1>4. CASE ReadStatus(k) /\ failed
  <2>1. Continue(k, -1) /\ LearnsThreads(f, -1)
    BY <1>3, <1>4 DEF ReadStatus, LearnedThreads
  <2> QED BY <1>0, <1>1, <2>1, ThreadedContinues
<1>5. CASE ReadReturn(k)
  <2>1. PICK w : w = reply
    OBVIOUS
  <2>2. Continue(k, w) /\ frame[k].access = "return"
    BY <1>5, <2>1 DEF ReadReturn, Accesses
  <2>3. ~failed \/ At(k, "enable")
    BY <1>1, <2>2 DEF Data
  <2>4. LearnsThreads(f, w)
    <3>1. CASE ~failed
      BY <1>3, <2>1, <3>1 DEF LearnedThreads
    <3>2. CASE At(k, "enable")
      <4>1. Now(f) = "enable"
        BY <1>0, <3>2 DEF At, Now
      <4>2. f.method = "start"
        <5>1. f.method \in {"start", "enable_schedule"}
          BY <1>2, <4>1, CallFacts
        <5>2. f.method \in ProgramMethods \cup {"none", "handler"}
          BY <1>0, <1>2 DEF Frames, Callers
        <5> QED BY <5>1, <5>2 DEF ProgramMethods
      <4>3. PICK v : v = IF failed THEN -1 ELSE reply
        OBVIOUS
      <4>4. LearnsThreads(f, v)
        BY <1>3, <4>3 DEF LearnedThreads
      <4> QED BY <1>2, <4>1, <4>2, <4>4, EnableLearnsThreads
    <3> QED BY <2>3, <3>1, <3>2
  <2>5. LearnsThreads(frame[k], w)
    BY <1>0, <2>4
  <2> QED BY <1>1, <2>2, <2>5, ThreadedContinues
<1>6. CASE ReadStatus(k) /\ ~failed
  <2>1. PICK g : g = frame'[k]
    OBVIOUS
  <2>2. /\ g = [f EXCEPT !.access = "return"]
        /\ \A j \in Callers \ {k} : frame'[j] = frame[j]
        /\ cpu' = cpu /\ seen' = seen
    BY <1>0, <1>2, <1>6, <2>1, GoToFrame DEF ReadStatus, GoTo
  <2>3. /\ FrameOf(g) /\ g.access = "return"
        /\ g.method = f.method /\ g.obj = f.obj /\ g.todo = f.todo /\ g.tid = f.tid
        /\ g.running = f.running /\ g.running_tid = f.running_tid /\ g.head = f.head
    BY <1>2, <2>2, AccessFacts DEF Framed
  <2>4. Framed(g)
    BY <1>2, <2>3 DEF Framed
  <2>5. PICK v : v = reply
    OBVIOUS
  <2>6. LearnsThreads(f, v)
    BY <1>3, <1>6, <2>5 DEF LearnedThreads
  <2>7. LearnsThreads(g, v)
    BY <1>2, <2>3, <2>4, <2>6, LearnsThreadsSame
  <2>8. LearnsThreads(g, v)'
    BY <1>1, <2>2, <2>7, SteadyThreads DEF Unmoved
  <2>9. ~failed' /\ v = reply' /\ Executed(k)' /\ Active(k)'
    BY <1>1, <1>2, <1>6, <2>1, <2>3, <2>5 DEF Unmoved, Executed, Active
  <2>10. InformedThreads(k)'
    BY <2>1, <2>8, <2>9 DEF InformedThreads, LearnedThreads
  <2>11. frame'["main"].method \notin Takes => frame'["main"].obj = 0
    BY <1>0, <2>1, <2>2, <2>3 DEF Threaded, Callers
  <2> QED BY <1>2, <2>2, <2>9, <2>10, <2>11 DEF Threaded, Callers
<1> QED BY <1>4, <1>5, <1>6

LEMMA ThreadedExecute ==
  ASSUME Fits, Control, Data, Best, Threaded, Execute
  PROVE  Threaded' /\ seen' = seen
<1>1. /\ posted # NoRequest /\ posted' = NoRequest /\ Performs(posted)
      /\ failed' = Refuses(posted)
      /\ UNCHANGED <<cpu, frame, seen>>
  BY DEF Execute
<1>2. Frames /\ InFlight /\ Sound /\ InOrder
  BY <1>1 DEF Control, Data, Best
<1>3. Sound'
  BY DataExecute DEF Data
<1>4. /\ frame'["main"].method \notin Takes => frame'["main"].obj = 0
      /\ Active("main")' <=> Active("main")
  BY <1>1 DEF Threaded, Active
<1>5. ASSUME NEW k \in Callers, cpu = (IF k = "isr" THEN "handler" ELSE "program"), Active(k),
             ~At(k, "ack"), frame[k].access = "status", Sends(k)
      PROVE  InformedThreads(k)'
  <2>1. PICK f : f = frame[k]
    OBVIOUS
  <2>2. PICK r : r = posted
    OBVIOUS
  <2>3. Framed(f) /\ f.method # "none" /\ Now(f) # "ack"
    BY <1>2, <1>5, <2>1 DEF Frames, Active, At, Now
  <2>4. Knows(f) /\ Sees(f)
    <3>1. Informed(k) /\ InformedThreads(k) /\ ~Executed(k)
      BY <1>1, <1>5 DEF Data, Threaded, Callers, Executed
    <3> QED BY <2>1, <3>1 DEF Informed, InformedThreads
  <2>5. f.method \in Takes => f.obj \in Objects
    <3>1. "handler" \notin Takes
      BY DEF Takes
    <3>2. k = "isr" => f.method = "handler"
      BY <1>2, <1>5, <2>1 DEF Frames
    <3> QED BY <2>1, <3>1, <3>2 DEF Data, Callers
  <2>6. f.method = "handler" /\ Now(f) = "removeHead" => PreemptionDue
    <3>1. k = "main" => f.method # "handler"
      BY <1>2, <2>1, <2>3 DEF Frames, ProgramMethods
    <3>2. k = "isr" => KnowsBest(f)
      BY <1>1, <1>5, <2>1 DEF Best, InformedBest, Executed
    <3> QED BY <3>1, <3>2 DEF Callers, KnowsBest
  <2>7. LET q == Request(f)
        IN /\ r.cmd = q.cmd /\ r.param = q.param
           /\ q.cmd \in {"CREATE", "INSERT"} => r.priority = q.priority
    BY <1>5, <2>1, <2>2 DEF Sends
  <2>8. /\ Performs(r)
        /\ failed' = Refuses(r)
    BY <1>1, <2>2
  <2>9. Aware(f)
    BY <2>3, <2>4, <2>5 DEF Aware
  <2>10. LearnedThreads(f)'
    BY <1>1, <1>2, <1>3, <2>3, <2>6, <2>7, <2>8, <2>9, CallLearnsThreads
  <2>11. f = frame'[k] /\ Executed(k)'
    BY <1>1, <1>5, <2>1 DEF Executed
  <2> QED BY <2>10, <2>11 DEF InformedThreads
<1>6. CASE /\ cpu = "program" /\ Active("main") /\ frame["main"].access = "status"
           /\ Sends("main")
  <2>1. ~At("main", "ack")
    BY <1>2, <1>6, CallFacts DEF Frames, Callers, At, Active, Now, ProgramMethods
  <2>2. InformedThreads("main")'
    BY <1>5, <1>6, <2>1 DEF Callers
  <2> QED BY <1>1, <1>4, <1>6, <2>2 DEF Threaded
<1>7. CASE cpu = "handler" /\ ~At("isr", "ack") /\ frame["isr"].access = "status" /\ Sends("isr")
  <2>1. Active("isr")
    BY <1>2, <1>7 DEF Frames, Active
  <2>2. InformedThreads("isr")'
    BY <1>5, <1>7, <2>1 DEF Callers
  <2> QED BY <1>1, <1>4, <1>7, <2>2 DEF Threaded
<1>8. CASE /\ cpu = "handler" /\ At("isr", "removeHead") /\ frame["isr"].access = "cmd"
           /\ posted.cmd = "INT_ACK"
  <2>1. PICK f : f = frame["isr"]
    OBVIOUS
  <2>2. Steady
    BY <1>1, <1>8 DEF Performs, Serves, SetsOrder, TimerControls, rqVars, Steady
  <2>3. f.method = "handler" /\ Now(f) = "removeHead" /\ Sees(f)
    <3>1. InformedThreads("isr") /\ ~Executed("isr")
      BY <1>1, <1>8 DEF Threaded, Executed
    <3> QED BY <1>2, <1>8, <2>1, <3>1 DEF Frames, InformedThreads, At, Now
  <2>4. Same(Before.queue)
    BY <2>3 DEF Sees, Turning
  <2>5. Same(Before.queue)'
    BY <1>1, <2>2, <2>4, SteadyView, BeforeFacts DEF Same, Shows, Waits
  <2>6. Sees(f)'
    BY <2>3, <2>5 DEF Sees, Stopping, Switching, Turning
  <2>7. InformedThreads("isr")'
    BY <1>1, <1>8, <2>1, <2>6 DEF InformedThreads, Executed
  <2> QED BY <1>1, <1>4, <1>8, <2>7 DEF Threaded
<1> QED BY <1>1, <1>2, <1>6, <1>7, <1>8 DEF InFlight

LEMMA StaysShown ==
  ASSUME Steady, UNCHANGED <<failed, reply, posted, seen>>, NEW k \in Callers,
         frame'[k] = frame[k], InformedThreads(k)
  PROVE  InformedThreads(k)'
<1>1. PICK f : f = frame[k]
  OBVIOUS
<1>2. PICK v : v = IF failed THEN -1 ELSE reply
  OBVIOUS
<1>3. IF Executed(k) THEN LearnsThreads(f, v) ELSE Sees(f)
  BY <1>1, <1>2 DEF InformedThreads, LearnedThreads
<1>4. (LearnsThreads(f, v)' <=> LearnsThreads(f, v)) /\ (Sees(f)' <=> Sees(f))
  BY SteadyThreads
<1>5. f = frame'[k] /\ (v = IF failed' THEN -1 ELSE reply') /\ (Executed(k)' <=> Executed(k))
  BY <1>1, <1>2 DEF Executed
<1> QED BY <1>3, <1>4, <1>5 DEF InformedThreads, LearnedThreads

\* When the handler is called, the program has seen the block as it is.
LEMMA SuspendedSees ==
  ASSUME Fits, Control, Data, Threaded, cpu \in {"exception", "handled"}
  PROVE  Same(Before.queue)
<1>1. enabled /\ Frames /\ (Active("main") => Closing) /\ posted = NoRequest
  BY Suspended DEF Control
<1>2. CASE ~Active("main")
  BY <1>2 DEF Threaded
<1>3. CASE Active("main")
  <2>1. PICK f : f = frame["main"]
    OBVIOUS
  <2>2. Framed(f) /\ f.method # "none" /\ f.method \in ProgramMethods /\ Now(f) = "enable"
        /\ f.access \in {"status", "return"}
    BY <1>1, <1>3, <2>1 DEF Frames, Callers, Active, Closing, At, Now
  <2>3. f.method = "start"
    BY <2>2, CallFacts DEF ProgramMethods
  <2>4. InformedThreads("main") /\ Executed("main")
    BY <1>1, <1>3, <2>1, <2>2 DEF Threaded, Executed
  <2>5. PICK v : v = IF failed THEN -1 ELSE reply
    OBVIOUS
  <2>6. LearnsThreads(f, v)
    BY <2>1, <2>4, <2>5 DEF InformedThreads, LearnedThreads
  <2> QED BY <2>2, <2>3, <2>6, EnableLearnsThreads
<1> QED BY <1>2, <1>3

LEMMA ThreadedInterrupts ==
  ASSUME Fits, Control, Data, Threaded, Raise \/ TakeException \/ Dispatch
  PROVE  Threaded' /\ seen' = seen
<1>1. Steady /\ UNCHANGED <<failed, reply, posted, seen>> /\ Frames
  BY DEF Raise, TakeException, Dispatch, block, rqVars, adapter, Steady, Control
<1>2. CASE Raise
  <2>1. cpu' = cpu /\ frame' = frame
    BY <1>2 DEF Raise
  <2>2. /\ cpu = "handler" => InformedThreads("isr")'
        /\ cpu # "handler" /\ Active("main") => InformedThreads("main")'
    BY <1>1, <2>1, StaysShown DEF Threaded, Callers
  <2>3. Same(Before.queue)' <=> Same(Before.queue)
    BY <1>1, SteadyThreads
  <2> QED BY <1>1, <2>1, <2>2, <2>3 DEF Threaded, Active
<1>3. CASE TakeException
  <2>1. cpu = "program" /\ cpu' = "exception" /\ frame' = frame
    BY <1>3 DEF TakeException
  <2>2. Active("main") => InformedThreads("main")'
    BY <1>1, <2>1, StaysShown DEF Threaded, Callers
  <2>3. Same(Before.queue)' <=> Same(Before.queue)
    BY <1>1, SteadyThreads
  <2> QED BY <1>1, <2>1, <2>2, <2>3 DEF Threaded, Active
<1>4. CASE Dispatch
  <2>1. cpu \in {"exception", "handled"} /\ Same(Before.queue)
    BY <1>4, SuspendedSees DEF Dispatch
  <2>2. Same(Before.queue)'
    BY <1>1, <2>1, SteadyThreads
  <2>3. CASE /\ cpu' = "handler"
             /\ frame' = [frame EXCEPT !["isr"] = Enter("handler", 0)]
    <3>1. PICK g : g = Enter("handler", 0)
      OBVIOUS
    <3>2. g.method = "handler" /\ Now(g) = "ack" /\ g.access = "cmd"
      BY <3>1, Names, EnterFacts, FirstCall
    <3>3. frame'["isr"] = g /\ frame'["main"] = frame["main"]
      BY <1>1, <2>3, <3>1 DEF Frames, Callers
    <3>4. Sees(g)'
      BY <2>2, <3>2 DEF Sees, Stopping, Switching, Turning
    <3>5. InformedThreads("isr")'
      BY <3>2, <3>3, <3>4 DEF InformedThreads, Executed
    <3> QED BY <1>1, <2>3, <3>3, <3>5 DEF Threaded
  <2>4. CASE cpu' = (IF cpu = "exception" THEN "break" ELSE "program") /\ UNCHANGED frame
    <3>1. Active("main") => InformedThreads("main")'
      BY <1>1, <2>1, <2>4, StaysShown DEF Threaded, Callers
    <3> QED BY <1>1, <2>2, <2>4, <3>1 DEF Threaded, Active
  <2> QED BY <1>4, <2>3, <2>4 DEF Dispatch
<1> QED BY <1>2, <1>3, <1>4

LEMMA ThreadedCall ==
  ASSUME Fits, Rests, Control, Data, Threaded, NEW method \in Methods, NEW obj,
         Call(method, obj), method \in Takes => obj \in Objects, method \notin Takes => obj = 0
  PROVE  Threaded' /\ TS!TSNext
<1>1. PICK g : g = Enter(method, obj)
  OBVIOUS
<1>2. /\ cpu = "program" /\ cpu' = "program" /\ ~Active("main") /\ Expected(method, obj)
      /\ Steady /\ frame' = [frame EXCEPT !["main"] = g] /\ Frames /\ Sound
      /\ seen' = [seen EXCEPT !.last = NoAnswer]
  BY <1>1 DEF Call, Fits, Control, Data, block, rqVars, Steady
<1>3. method \in ProgramMethods /\ method \in DOMAIN Body
  BY Names DEF Rests
<1>4. g.method = method /\ g.obj = obj /\ g.access = "cmd" /\ g.method # "none"
  BY <1>1, <1>3, EnterFacts, Names
<1>5. /\ method \in {"remove", "suspend", "resume", "choose_this"} => Now(g) = "findObj"
      /\ method = "insert" => Now(g) = "create"
      /\ method = "choose" => Now(g) = "chosen"
      /\ method = "choose_another" => Now(g) = "removeHead"
      /\ method = "start" => Now(g) = "quantum"
      /\ method \in {"reset", "schedulables", "chosen", "reset_quantum", "set_quantum",
                     "disable_schedule"} =>
           Now(g) \in {"reset", "size", "chosen", "ticks", "quantum", "disable"}
  BY <1>1, <1>3, FirstCall DEF Single
<1>6. /\ seen'.threads = seen.threads /\ seen'.last = NoAnswer
      /\ seen' = [threads |-> seen'.threads, last |-> seen'.last]
  BY <1>2 DEF Threaded
<1>7. Same(Before.queue)
  BY <1>2 DEF Threaded
<1>8. Same(Before.queue)' /\ Before' = Before
  BY <1>2, <1>6, <1>7, SteadyView DEF Same, Shows, Waits, Before
<1>9. ASSUME method = "resume"
      PROVE  TS!Suspended(obj)'
  <2>1. /\ Found(obj) /\ obj # RunsNow
        /\ ~\E i \in DOMAIN ready : object[ready[i].tid] = obj
    BY <1>2, <1>9 DEF Expected, RunsNow
  <2>2. obj \in KnownNow
    BY <1>2, <1>9, <2>1, KnownFacts DEF Takes
  <2>3. ~\E i \in DOMAIN QueueNow : QueueNow[i] = obj
    <3>1. DOMAIN ready = 1..Len(ready)
      BY <1>2, LineFacts DEF Sound
    <3> QED BY <2>1, <3>1 DEF QueueNow, Shown
  <2>4. /\ obj \in Before.known /\ obj # Before.runs
        /\ ~\E i \in DOMAIN Before.queue : Before.queue[i] = obj
    BY <1>7, <2>1, <2>2, <2>3 DEF Same, Shows, Waits
  <2> QED BY <1>6, <2>4 DEF Before, TS!Suspended, TS!InQueue
<1>10. Sees(g)'
  <2>1. CASE method \in {"remove", "suspend", "resume", "insert"}
    BY <1>4, <1>5, <1>8, <1>9, <2>1 DEF Sees, Stopping, Switching, Turning
  <2>2. CASE method \in {"choose", "choose_another", "choose_this"}
    BY <1>4, <1>5, <1>8, <2>2 DEF Sees, Stopping, Switching, Turning
  <2>3. CASE method = "start"
    BY <1>4, <1>5, <1>8, <2>3 DEF Sees, Stopping, Switching, Turning
  <2>4. CASE method \in {"reset", "schedulables", "chosen", "reset_quantum", "set_quantum",
                         "disable_schedule"}
    BY <1>4, <1>5, <1>8, <2>4 DEF Sees, Stopping, Switching, Turning
  <2> QED BY <1>3, <2>1, <2>2, <2>3, <2>4 DEF ProgramMethods
<1>11. frame'["main"] = g
  BY <1>2 DEF Frames, Callers
<1>12. InformedThreads("main")' /\ Active("main")'
  BY <1>4, <1>10, <1>11 DEF InformedThreads, Executed, Active
<1>13. Threaded'
  BY <1>2, <1>4, <1>6, <1>11, <1>12 DEF Threaded
<1>14. TS!TSCall
  BY <1>6 DEF TS!TSCall, TS!Returned, NoAnswer
<1> QED BY <1>13, <1>14 DEF TS!TSNext

LEMMA ThreadedNext ==
  ASSUME Rests, Fits, Control, Data, Best, Threaded, [DriverNext]_driverVars
  PROVE  Threaded' /\ (seen' = seen \/ TS!TSNext)
<1>1. CASE UNCHANGED driverVars
  <2>1. Steady /\ UNCHANGED <<failed, reply, posted, seen, cpu, frame>>
    BY <1>1 DEF driverVars, block, rqVars, adapter, Steady
  <2>2. \A k \in Callers : /\ InformedThreads(k) => InformedThreads(k)'
                           /\ Active(k)' <=> Active(k)
    BY <2>1, StaysShown DEF Active
  <2>3. Same(Before.queue)' <=> Same(Before.queue)
    BY <2>1, SteadyThreads
  <2> QED BY <2>1, <2>2, <2>3 DEF Threaded, Callers
<1>2. CASE \E k \in Callers : WriteCommand(k) \/ WritePriority(k) \/ WriteParameter(k)
  BY <1>2, ThreadedWrites
<1>3. CASE \E k \in Callers : ReadStatus(k) \/ ReadReturn(k)
  BY <1>3, ThreadedReads
<1>4. CASE Execute
  BY <1>4, ThreadedExecute
<1>5. CASE Raise \/ TakeException \/ Dispatch
  BY <1>5, ThreadedInterrupts
<1>6. CASE \E method \in Methods, obj \in Objects \cup {0} :
             /\ Call(method, obj)
             /\ method \in Takes => obj \in Objects
             /\ method \notin Takes => obj = 0
  BY <1>6, ThreadedCall
<1>7. CASE Loop
  BY <1>1, <1>7 DEF Loop
<1> QED BY <1>1, <1>2, <1>3, <1>4, <1>5, <1>6, <1>7
        DEF DriverNext, Machine, ExecuteCmd, Callers

\* The driver and its interrupt handler implement ThreadScheduler: whatever the program calls,
\* in whatever order, and wherever the preemptions come, each method it sees return is one
\* step on the running object, the queue and the known objects, with the answer of that step,
\* and each run of the handler is a preemption by an object that is at least as good.  If
\* the program respects what the methods assume and rests once the timer is started, and a
\* quantum is longer than the handler.
THEOREM ThreadRefinement ==
  ASSUME Rests, Fits, LongQuantum
  PROVE  DriverSpec => ImplementsThreads
<1>1. DriverSpec => [](Control /\ Data)
  BY DriverInv
<1>2. DriverInit => Best /\ Threaded
  BY BestInit, ThreadedInit
<1>3. Control /\ Data /\ Best /\ Threaded /\ [DriverNext]_driverVars => (Best /\ Threaded)'
  BY BestNext, ThreadedNext
<1>4. DriverInit => TS!TSInit
  <2> SUFFICES ASSUME DriverInit PROVE TS!TSInit
    OBVIOUS
  <2>1. /\ seen.threads = ProgramView /\ seen.last = NoAnswer
        /\ ready = <<>> /\ running = 0 /\ created = {}
    BY DEF DriverInit, RQInit
  <2>2. DOMAIN ready = {}
    BY <2>1
  <2>3. [i \in DOMAIN ready |-> object[ready[i].tid]] = <<>>
    BY <2>2
  <2>4. ProgramView.runs = 0 /\ ProgramView.queue = <<>> /\ ProgramView.known = {}
    BY <2>1, <2>3 DEF ProgramView
  <2> QED BY <2>1, <2>4 DEF TS!TSInit, NoAnswer
<1>5. Control /\ Data /\ Best /\ Threaded /\ [DriverNext]_driverVars => [TS!TSNext]_(TS!tsVars)
  BY ThreadedNext DEF TS!tsVars
<1> QED BY <1>1, <1>2, <1>3, <1>4, <1>5, PTL DEF DriverSpec, ImplementsThreads, TS!TSSpec
=============================================================================
