# Verification of the hybrid hardware/software scheduler

The repository holds a ready-queue scheduler in VHDL for an Altera DE2 board, the adapter that puts
it on an Avalon bus, and a C++ class that drives it from a Nios II processor. This directory models
it in TLA+, model-checks the models with TLC and proves theorems about them with TLAPS.

## 1. The system

| Component | Source | State it keeps | Operations |
|---|---|---|---|
| Scheduler block | `scheduler.vhd` | a table of C_MAX_THREADS (8) rows: in-use bit, object address, order (16 bits), next and prev links, enqueued bit; head, tail, size; running thread; return, done, error | 15 commands (CREATE, DESTROY, INSERT, REMOVE, REMOVE_HEAD, UPDATE_RUNNING, SET_QUANTUM, RSTICKS, ENABLE, DISABLE, INT_ACK, GETID, CHOSEN, SIZE, RESET), the pin p_reset |
| its search processes | `scheduler.vhd` | the free row and the full flag; the row and the done flag of each of two searches | free row, row by object (GETID), place in the queue by order (INSERT) |
| its timer | `scheduler.vhd` | quantum, counter, reschedule request, enable bit | counts edges, raises p_interrupt |
| Adapter, interface | `scheduler_adapter.vhd`, `scheduler_interface.vhd` | command, priority and parameter registers, `load` | five bus addresses |
| Driver | `software/scheduler_v2/Scheduler.h` (an earlier text of it: `software/scheduler`) | nothing but what the block holds | `execute_cmd`, insert, remove, suspend, resume, choose (two forms), choose_another, chosen, schedulables, the timer's methods, the interrupt handler |
| Interrupt dispatch | `HAL/src/alt_irq_entry.S`, `alt_irq_handler.c` of the support package | what the processor is doing | exception, call of the handler, return or another round |
| Demonstration program | `software/scheduler_v2/main.cpp` | nine objects | a fixed sequence of calls, then an endless loop |
| Unit tests | `software/unit_test/main.c` | - | 26 sequences of commands, 24 of them run |
| Playground | `software/playground` | - | a sequence of commands |
| Vendor and generated | `to_fpga`, `software/bsp`, `db`, ... | - | - |

**How they interact.** The driver writes command, priority and parameter to three bus addresses and
polls a status word; the adapter collects the writes and, one edge after the parameter, shows the
command to the block for one edge. The block leaves `idle`, works for two to many edges, raises
`done` and comes back to `idle`. Inside the block five clocked processes share signals: the main
state machine writes the tables and the requests `s_search_reset`, `s_stid_start`, `s_time_reset`
and `s_int_ack`; the others read them and answer an edge or more later. The timer raises the line
`p_interrupt`; the interrupt handler drives the block itself.

**What is hard.** Nothing in the block waits for a handshake between its processes: each reads
registers that the other wrote one edge before, and the state machine has just enough states in
between (`preinsert`, `pregetid`, `exit_ok`) for a search to have started or a free row to have been
found. p_reset may arrive in any edge and resets only the main process and the free-row search.
DESTROY and INSERT change the bitmap, the order and the links in different edges while the timer
and the search read them. The software polls, and its interrupt handler uses the same registers.

What makes each part correct:

- *thread table*: an identifier in use is never handed out; full is reported exactly when it is so;
  every answer is about the object asked for.
- *ready queue*: bitmap, links, head, tail and size describe one chain, sorted by order and first
  come first served among equals, whatever sequence of inserts, removals, destructions and resets.
- *searches*: they never use a result of an earlier search, never read a row that is not theirs, and
  end.
- *state machine*: each command takes effect once, ends, and its answer stays until the next.
- *timer*: no request before a whole quantum has passed, and an interrupt for a waiting thread
  comes in the end.
- *adapter*: a command is executed once, and the status polled belongs to it.
- *driver*: every thread is running, ready or suspended, the identifiers sent exist, what is sent
  is what was asked for, and the interrupt handler leaves the best thread running.
- *program*: there is a thread to execute whenever one is executed, and equals take turns.

The hazards, each at its line and with the properties that bear on it, are in `PROJECT.json`.

## 2. Modules

| Module | What it is |
|---|---|
| `Scheduler` | the block, cycle by cycle: one step per rising edge of p_clk |
| `ReadyQueue` | what the block promises: a thread table and a sorted queue, one operation per command (`Serves`), and the commands it refuses (`Refuses`) |
| `CommandedQueue` | `ReadyQueue` behind the protocol of a command: given, performed once, done |
| `SchedulerQueue` | `Scheduler` with a history variable for the command in progress, and the refinement mapping by which it implements `CommandedQueue` |
| `SchedulerTimer` | `Scheduler` with two history variables that watch the timer |
| `SchedulerInterface` | the block behind its adapter, and a processor that runs `execute_cmd` again and again |
| `ThreadScheduler` | what the class Scheduler promises to a program: a running object, a queue, one step per method |
| `Driver` | the class Scheduler, its interrupt handler and the processor's exceptions, bus access by bus access, over `ReadyQueue` |
| `Demo` | main() of `scheduler_v2/main.cpp` on `Driver` |
| `UnitTests` | the repository's unit tests on `SchedulerInterface` |
| `MCScheduler`, `MCQueue`, `MCTimer`, `MCInterface`, `MCDriver` | sets of commands, calls or methods for the runs |
| `SchedulerTypes` | lemmas: every step keeps every register in its range, except s_size |
| `SchedulerProofs` | lemmas about doubly linked chains, and the theorems about the block, whatever its client does |
| `OrderProofs` | the theorems about the order of the queue |
| `RefinementProofs` | the theorem that `Scheduler` implements `CommandedQueue` |
| `TimerProofs`, `InterfaceProofs` | the theorems about the timer, and about `execute_cmd` behind the adapter |
| `DriverProofs` | the theorems about the driver and its interrupt handler |
| `ThreadProofs` | the theorem that `Driver` implements `ThreadScheduler` |

The composition has two halves that meet in `ReadyQueue`. Below it the block is taken edge by edge
(`Scheduler`) and shown to implement `CommandedQueue`: the command a client gives has the effect
`Serves(command)` once before `done` rises, with the error bit `Refuses(command)`. `SchedulerInterface`
shows that `execute_cmd` is one command of the block with its answer. Above it `Driver` takes the same
`Serves` and `Refuses` of the command in flight as one step, splits the methods into bus accesses, and
is shown to implement `ThreadScheduler`.

### How `Scheduler` corresponds to the VHDL

- A variable has the name of its signal. Bitmaps are sets of identifiers; tables are functions on
  the identifiers `1..MaxThreads` (the VHDL index plus one); 0 is "none", as in the code.
- A step is one rising edge. `mainProcess` is an action per command accepted in `idle` (`Create`,
  `Destroy`, `Insert`, ...) and per other state (`PreInsert`, `InsertWait`, `InsertLink`,
  `DestroyFree`, `RemoveUnlink`, `PreGetId`, ...; `Finish` stands for the four states that only
  raise `done`). Each is conjoined with `OtherProcesses`: the four other processes take their step
  in the same edge, reading the old values, as VHDL signals do.
- `Idle` is an edge with no command. `PinReset` is an edge with p_reset low, possible in every
  state: it resets what the code resets and lets the searches and the timer take their step.
- `Row` is how the synthesised tables decode the index -1. No step from a reachable state
  uses it: both searches stay off that row (`SearchOnQueue`, also proved), and a thread is linked
  at the tail only when there is one. `Row` is there so that this is a result and not an assumption.
- `Init` is the state after power-up, all registers zero, and edges of p_reset that leave both
  searches finished and the default quantum in the counter.
- `Order` is the truncation of a priority to the 16 bits of the order table, here modulo
  `OrderModulus`; `s_search_order` keeps the whole priority, as in the code.
- `Executes` takes a command and its operands, as they stand in the registers of the adapter, to the
  action that accepts it.
- `SchedulerQueue` reads the abstract queue off the links: `Waiting` are the threads in the queue, in
  the order in which the links reach them, and `ReadyEntries` gives each the key the order table has.
  Its history variable `asked` is the command in progress as the client gave it, with its operands; it
  is set when a command is accepted and cleared when the block is idle again. Registers of the block
  (`s_command_tid`, `s_search_order`, `s_stid_obj_ptr`) are no substitute for it: what the refinement
  shows is that these keep to the command. An INSERT takes effect in the edge that links its thread, a
  GETID in the edge that takes the result of the search, a REMOVE or REMOVE_HEAD when the links let go
  of the thread, a DESTROY when the row is freed, every other command when it is accepted, as are an INSERT
  into the empty queue and a removal of a thread that is not queued. `Pending` are the states in which
  the effect is still to come. The answer, the error bit (`Refused`) and `done` are mapped too.
- The status word is read off `s_done`, `s_error`, `s_full`, `s_head_tid`, `s_reschedule` and
  `s_schedule_enabled`; properties name these.

### How `SchedulerInterface` corresponds to the code

- `NoAccess`, `Write`, `Read` and `Present` are the adapter's clocked process: what an edge without
  an access, with a write or with a read does to its registers and to `load`, and what it shows to
  the block. `Execute` gives the command shown to the block; a busy block ignores it.
- `Begin`, `WritePriority`, `WriteParameter`, `ReadStatus`/`TakeStatus` and
  `ReadReturn`/`TakeReturn` are the statements of `execute_cmd` (`Scheduler.h:50-69`), one bus access
  each. `Scheduler_hw.tcl` gives writes no wait state and reads one, so a write takes one edge and a
  read two. `Quiet` is an edge without an access.
- `SystemReset` resets processor, adapter and block in one edge, at any edge.
- The processor's core and the interconnect are not in the repository as readable source. How many
  edges they leave between two accesses is therefore a constant, `MinGap`.
- `executed` is a history of what the block accepted since the call began.

### How `Driver`, `Demo` and `UnitTests` correspond to the code

- A method is a list of calls of `execute_cmd` (`Body`); `Request` gives the arguments of each call
  from the locals of the method's `frame` (`tid`, `running`, `running_tid`, `head`), `Keep` is the
  assignment of its result, `Leaves` the early returns, `Answer` the value returned. There are two
  frames: the program (`main`) and the interrupt handler (`isr`).
- `execute_cmd` is `WriteCommand`, `WritePriority`, `WriteParameter`, `ReadStatus`, `ReadReturn`,
  one bus access each; both frames use the adapter's registers. `Execute` is the block: the command
  in flight takes effect in one step, and no access finds it half done, which is what
  `SchedulerInterface` shows of polling.
- The handler's acknowledgement writes command and parameter and does not poll; the next access
  finds the command executed, as `MinGap` edges lie in between.
- `Raise` is the timer at zero. `TakeException` and `Dispatch` are the processor and
  `alt_irq_handler`: the line is looked at when the exception is taken, again before the handler is
  called and again after it has returned. `cpu` is `program`, `exception`, `handler`, `handled` or
  `break`: an exception that finds no pending interrupt is taken for a software exception and ends in
  the instruction `break`.
- `seen` is history: the threads as the program would see them when the last method, or the last run
  of the handler, returned, and what the method answered. It is what `ThreadScheduler` is
  about.
- `Expected` is what the methods rely on without testing it: an object is inserted once; what is
  resumed or chosen by name has been inserted; what is resumed is suspended; something runs when
  `choose` is called, and something is ready when `choose_another` is. With
  `Careful` the program respects it.
- `Demo` makes the calls of `main()` with the nine priorities of the program and the eight rows of
  the table. Its calls are all `Expected`, though the run does not assume it (`Careful = FALSE`).
- `UnitTests` makes the calls of each test through `SchedulerInterface`, edge by edge, and evaluates
  the test's condition; `vital` are the calls after which a test gives up.

**What is assumed of the client.** Identifiers are in `1..MaxThreads` (UPDATE_RUNNING also takes 0):
what `conv_integer` makes of others depends on the synthesis tool. A thread is not inserted while it
is queued (`Insertable`): the block does not test that, and its chain breaks. `InsertUncreated`
tells whether a client may insert an identifier that nobody created.

## 3. Model checking

| Run | Instance | Checks | Distinct states |
|---|---|---|---|
| `queue` | 3 threads, 2 priorities, all queue commands, GETID, RESET, p_reset in any edge | `TypeOK`, `AllocationFresh`, `QueueSorted`, `SearchOnQueue`, `SearchFresh`, `ResultStable`, `ImplementsReadyQueue` | 533 000 |
| `identity` | 2 threads, 2 objects (symmetric), every command, GETID of 0 too, p_reset in any edge | `ImplementsReadyQueue` | 815 000 |
| `completion` | 2 threads, every command, uncreated identifiers inserted, p_reset in any edge, fairness of the clock | `CommandCompletes` | 317 000 |
| `timer` | 2 threads, counter up to 2, quanta 0, 1 and 2, with the history variables; uncreated identifiers inserted, a priority that is truncated; fairness of the clock | `QueueWellFormed`, `FullQuantum`, `InterruptArrives` | 897 000 |
| `interface` | 2 threads, `execute_cmd` with seven of the commands, `MinGap` 2, reset in any edge | `ExecutedAtMostOnce`, `AnswersItsCall`, `CallReturns` | 225 000 |
| `driver` | 3 objects at 2 priorities, 4 rows, thirteen methods in any order until the timer starts, then the handler for ever | `LegalRequests`, `ObjectsExist`, `NoSpuriousException`, `ImplementsThreads`, `BestRuns`, `RoundRobin`, `AsRequested` | 374 000 |
| `demo` | the demonstration program: 9 objects, 8 rows, its 32 calls | `LegalRequests`, `ReturnsObjects`, `ImplementsThreads`, `TakeTurns` | 1 800 |
| `tests` | 24 unit tests, 8 rows, one system reset at any edge | `EveryTestPasses`, `SuiteEnds` | 20 000 |
| `reset` | RESET after a run | `ResetLikeStart`: violated | - |
| `pin` | p_reset during RSTICKS | `InterruptArrives`: violated | - |
| `race` | methods called after the timer has started | `AsRequested`: violated | - |
| `unknown` | resume of an object that was not inserted | `InsertsExisting`: violated | - |

**Bounds.** Three threads are the fewest for which an insertion in front, between and behind, a
removal of the head, the tail and the middle, and a tie that a wrong comparison would order wrongly
all occur; with the full table they are also the limit of `s_size`. Two objects tell whether an
answer is about the right one. Two priorities give smaller, equal and greater. The counter of the
real block has 32 bits; quanta of one to three edges are shorter, equal to and longer than the
shortest commands, which is what the timer can be sensitive to. `MinGap` is 2, the fewest edges with which the properties of `interface` hold;
a larger gap allows fewer behaviours, so the run covers it too. With 0 the
adapter still holds `load` when the next access comes and shows the command for several edges; with
1 the first poll still reads the `done` of the call before. Both were found by running the same
configuration with those values.

In `driver`, two objects of one priority and one of a worse are the fewest with which a tie, a better
and a worse thread occur, and three objects let one run, one wait and one be suspended. The fourth
row is the spare row `LegalRequests` needs (below). Eight rows in `demo` and `tests` are those of the
real table. `MaxResets = 1` bounds the system resets of `tests`; a reset brings the same program back
to its start, so a second would only repeat what the first does from a state that is as good as
any. Nothing else is bounded: every
reachable state of these instances is visited, and no state constraint is used.

**Fairness.** `FairSpec` has weak fairness of `Clock`, the edges without a new
command: the clock never stops, and a command that was accepted goes on. Nothing is assumed of the
client: it may stop, or send a command in every idle edge. `InterruptArrives` holds for a client that
never leaves the block alone, because the request lasts until it is acknowledged and the block comes
back to `idle` after each command. `FairBusSpec` has weak fairness of `Quiet` and of `Access`: edges
pass, and a processor inside `execute_cmd` goes on to its next access. It need not begin a call.
`FairDriverSpec` has weak fairness of `Machine`: the processor goes on, the block executes, and an
interrupt that is due comes, which is what `InterruptArrives` shows of the block in `timer`. The
program need not call anything. `DemoSpec` adds that the program, a fixed sequence of statements, goes
on to its next call; `TestSpec` that the tests do, and that edges pass.

**What the violations show.** `reset`: the command RESET leaves the request and the counter of the
timer. A request raised before RESET interrupts after the next ENABLE although there is no thread
left. `pin`: p_reset in the one edge in which `reset_time` would lower `s_time_reset` leaves it up,
and the timer never counts again until the next SET_QUANTUM or RSTICKS. `race`: `execute_cmd` is not
protected against the interrupt handler, which uses the same three registers; if the program is
interrupted between two of its writes, the handler's last command, UPDATE_RUNNING, is
executed again with the program's parameter. `unknown`: `resume` tests the identifier for zero and
`execute_cmd` answers -1 for an object it does not find.

**What the driver's runs assume, and what happens without it.** Each of these was tried in the
configuration `driver` with one constant changed.

- *A program that rests* (`Resting`): it calls no method once the timer is started, as `main.cpp`.
  Otherwise `race`. For the same reason the quantum is set before interrupts are enabled.
- *A spare row* (four rows for three objects): when the last thread is suspended or removed, the
  driver looks up the head of an empty queue, 0, and makes the row it finds the running thread. A
  free row has the object 0, so `chosen()` answers that nothing runs. With a full table
  (`Threads = {1, 2, 3}`) `LegalRequests` and `ImplementsThreads` fail: GETID answers -1, which is
  sent as the running thread; or the row just freed is found, which the next CREATE hands out, and
  `insert` then queues a thread that is already running. `demo` runs with a full
  table and never comes to that, because a thread is always ready.
- *A quantum longer than the handler* (`LongQuantum`; the program sets 50 000 000 edges). With a
  timer that may run out inside the handler `BestRuns` and `ImplementsThreads` fail: the
  request is raised between the handler's INSERT and its UPDATE_RUNNING, when the thread that is about
  to be replaced is also the head, and a second run of the handler brings a worse thread back.
- *A thread that runs*: `RoundRobin` asks for one when the timer starts. If the last running thread
  was suspended and resumed, it is ready and nothing runs; the block requests nothing then, and
  only the program can run it again (`insert` does, `choose` reads through a null pointer).
- *Priorities above 0* (those of `main.cpp` are 1 to 7): the spare row that stands for the idle
  processor has the order 0. If the last running thread was suspended, a resumed one of priority 0
  is as good as that row, the timer requests a change, and the handler reads the priority of no
  object: with `a :> 0` in `Priorities`, `ObjectsExist` fails.

**On the tests.** `EveryTestPasses` confirms the model against what the tests expect of
the hardware. Two of them test less than they say: test 7 destroys the object 100 and then looks up
1, which was never there; test 9 can only fail if CREATE answers -1, not if it answers another
identifier than the one that was destroyed (`main.c:290`). `STAT_ENABLE` is 0x00 in `Scheduler.h:32`
and 0x20 in the tests; the driver does not use it.

Every property has a mutant in `PROJECT.json`: a plausible bug in one definition (a loop one row
short, a forgotten back pointer, a search that is not restarted, `<` for `<=`) that makes TLC find
the property violated. The mutated forms stand in front of the definitions they change, each with a
comment `Mutation:`.

## 4. Proofs

The theorems hold for every number of threads, set of objects, priorities, quanta and commands;
those with a hypothesis say so here and in their statement. In `SchedulerProofs`:

- `FreshAllocation`: `Spec => []AllocationFresh`. Not inductive as it stands: `s_free_tid` and
  `s_full` describe the bitmap of the edge before. The inductive invariant `FreshInv` says where
  they have caught up: in every state but `exit_ok` and `remove`. A change of the bitmap leads to
  one of these two, and the edge spent there is enough for SearchFreeTID; p_reset sets both itself.
- `WellFormedQueue`: `Spec => []QueueWellFormed`. The inductive invariant is
  `QueueInv == Typed /\ Counted /\ QueueWellFormed /\ Working`: the types, `s_size` as the number of
  queued threads, the existence of a numbering of them that the links follow in both directions, and
  what the steps of a command rely on (`Working`): in `preinsert` and `insert` the bit of the thread
  is set and the queue is not empty; in `preinsert` the walk is being restarted; in `insert` it is
  not, and its result is a queued thread, or 0 once it has finished; in `remove` the bit of the
  thread is set. The numbering is the witness: each step that changes links shows the new one, with
  the lemmas on chains at the module's beginning: append adds the number after the last, insert-before and unlink
  shift the numbers behind. The result of the walk is used only as *some queued thread or 0*, so the
  theorem does not depend on orders or on the client creating what it inserts.
- `TypeCorrect`: `Spec => []TypeOK`. Everything but `s_size` is inductive by itself (`Typed`); the
  range of `s_size` follows from its being the number of a set of threads (`Counted`).
- `SearchesOnQueue`: `Spec => []SearchOnQueue`. `Working` gives the walk of an INSERT; for a search
  that runs outside its command, which p_reset can leave behind, `Positioned` is inductive on top of
  `QueueInv`: only PreInsert lowers `s_search_reset`, and there the queue has a head.
- `AnswerStays`: `Spec => ResultStable`, from the invariant that `done` is up only in `idle`.

In `OrderProofs`, with the hypothesis `Civil`: the client inserts only what it has created, and its
priorities fit the order table. Both are needed. CREATE rewrites the order of the row it hands out,
and so of a thread that was inserted without having been created; and the block places a thread by
its whole priority but compares it afterwards by the low bits it keeps.

- `SortedQueue`: `Spec => []QueueSorted`, and
- `FreshSearch`: `Spec => []SearchFresh`. The inductive invariant `OrderInv` is `QueueInv` and
  `FreshInv` with `Registered` (queued threads are in use, and an inserted thread keeps the order its
  search was started with) and `SortInv` (the chain is sorted, and `Walked`: everything the walk of an
  INSERT has passed goes before the new thread). When the walk stops, its row is therefore the first
  that goes after the new thread, and linking it there keeps the chain sorted.

In `RefinementProofs`, with `Civil` again:

- `Refinement`: `AskedSpec => ImplementsReadyQueue`. Two invariants carry it. `RefineInv` adds to
  `OrderInv` that a free row holds no object (`Unowned`), that the search of a GETID has passed only
  rows of other objects (`Sought`), and that every key is one of `Keys` (`Keyed`). `Tracked` ties the
  registers to the command: while an INSERT, DESTROY, REMOVE, REMOVE_HEAD or GETID waits for its effect,
  `s_command_tid`, `s_search_order` and `s_stid_obj_ptr` are the operands the client gave, or the head.
  Without it each edge would be some operation, but nothing would say that it is the one asked for. The
  abstract queue is a sequence, while the links are a numbering of a set of rows: `Lists` says that a
  sequence lists the chain, and there is exactly one (the ranking the numbering gives), so a step is
  shown by exhibiting the new list. That such a list exists, without induction, is a
  least-counterexample argument (`LeastNumber`, from the library's well-foundedness of strict inclusion
  on finite sets). One lemma per action says which operation the step is, on which thread; then each
  command accepted is an `Accept` that performs at once (`AtOnce`) or later (`Deferred`), and each edge of
  the clock is `PerformLater`, `Finish` or a stutter, and p_reset is `Clear`. `RefineInv` and `Tracked`
  were checked with TLC on the instances of `queue` and `identity` before they were proved.

In `TimerProofs`:

- `WholeQuantum`: `TimerSpec => FullQuantum`. The invariant `TimeInv` says that what has elapsed and
  what is left in the counter make up the quantum: `elapsed + s_counter >= granted`. That the quantum
  and the counter fit their registers comes from `QueueInv`, as every step of `TimerSpec` is one of
  `Spec`.

In `InterfaceProofs`, with the hypothesis `MinGap >= 2` (both fail without it):

- `AtMostOnce`: `BusSpec => []ExecutedAtMostOnce`, and
- `RightAnswer`: `BusSpec => AnswersItsCall`. The inductive invariant `BusIInv` follows a command on
  its way: in the edge after the parameter `load` is up and nothing is shown to the block, in the next
  the command is shown, and from then on it has been executed (`Carried`, `Written`); the second edge
  of the gap is what keeps the first poll behind the acceptance. On the side of the block
  (`AnswerInv`) it waits in `idle` as long as the call has not been executed, is idle when
  `done` is up, and what has been read of status and answer is still so. Of the block the proof uses
  only that accepting lowers `done` and that an idle block without a command stays as it is
  (`BlockEdge`).

In `DriverProofs`, with the hypothesis `Rests`: the program calls nothing once the timer is started,
and enables interrupts only with `start`, the two calls of `main.cpp`.

- `CallsArrive`: `DriverSpec => AsRequested`, and
- `PendingInterrupts`: `DriverSpec => []NoSpuriousException`. The inductive invariant `Control` says who
  is where: each frame is at a suffix of a method's body, the registers hold what the caller has
  written so far (`Writes`), a command in flight is the one its caller asks for (`InFlight`), and
  interrupts are enabled only once the program is past the writes of its last command (`Closing`). An
  exception therefore never comes between two writes, and nothing but the handler can withdraw the
  request it was taken for.
- `LegalCommands`: `DriverSpec => []LegalRequests`, and
- `NoNullPointers`: `DriverSpec => []ObjectsExist`, with the hypothesis `Fits` besides: the program
  respects what the methods assume (`Expected`), there are finitely many rows and fewer objects than
  rows, and priorities are above 0. The inductive invariant `Data` has three layers. `Sound` is about
  the table and the queue: each object has one thread at most, orders are the priorities of the
  objects, a queue never has a thread twice. `Knows` is what a method may rely on before each of its
  calls, from its locals: for instance, that the thread it is about to insert is not queued, or that
  `running` is what the block would answer to CHOSEN. `Alarmed` is what the handler relies on: if a
  change is requested, a thread runs and another one waits. One lemma per call shows that it keeps
  `Sound` and that its result gives the method what its next call relies on (`Learns`); the early
  returns are what makes that true of a result that says the object was not found. The row that is
  never used (`Spare`) is the one an idle processor runs: CREATE hands out the largest free
  identifier, and there are more rows than objects. `Fits` leaves out programs that fill the table,
  such as `demo` with eight objects in eight rows at a time: there the properties hold because of the
  order of its calls, which TLC checks, and in general they fail (section 3).

- `BestChosen`: `DriverSpec => BestRuns`, with `LongQuantum` besides, without which it fails (section
  3). The invariant `Best`, on top of `Control` and `Data`, says that the queue is sorted and its keys
  are the orders of the table (`InOrder`), that outside the handler a request means that the head is
  as good as the running thread (from the first `SET_QUANTUM` of `start` on, which withdraws older
  requests), and that the handler, once it has acknowledged, works without a request. `KnowsBest` follows
  the head through the handler: when it is taken off, no queued thread is better and it is no worse than
  the running one, so it stays a best one when that one joins the queue; the look-up finds it again
  because each object has one thread.

In `ThreadProofs`, with `Rests`, `Fits` and `LongQuantum` (with either of the last two dropped, TLC
finds `ImplementsThreads` violated, section 3):

- `ThreadRefinement`: `DriverSpec => ImplementsThreads`. A method is one step of `ThreadScheduler`,
  taken when it returns, but the block changes with each of its commands. The invariant `Threaded`, on
  top of `Control`, `Data` and `Best`, says how far the block is from what the program has seen last
  (`Before`): `Sees` before each call of each method and of the handler, for instance that `suspend`, once
  it has taken the head, has that object in its local and the rest of the queue in the block, and that
  nothing has changed while the program is outside any method (`Same`). `Done` is what the return must
  find: running object, queue and known objects are those after the method's step of `ThreadScheduler`,
  with its answer. One lemma per function of execute_cmd shows that the call keeps `Sees` for what its
  caller does next or, if it was the last, establishes `Done` (`LearnsThreads`), from what `Data` knows of
  the locals. Two lemmas carry the queue across: an INSERT into the sorted queue puts the object behind all
  that are at least as good (`ShownJoin`, the operation `Behind`), and taking a thread out leaves the
  others in their order (`ShownLeave`, `Drop`). The handler is only called when the program has seen
  the block as it is (`SuspendedSees`): it rests, or is at the last command of `start`. Its run ends in
  one `TSPreempt`; that the object it brings is at least as good as the running one is what `Best`
  knows of a request.

`Control`, `Data`, `Best` and `Threaded` were checked with TLC on the instance of `driver` before
they were proved (for `Threaded`, 374 000 distinct states), the first two also with `LongQuantum =
FALSE`, which only `BestChosen` and `ThreadRefinement` assume.

Assumptions: the named ones of `Scheduler` (at least one row, 0 is no object, priorities are
naturals, quanta fit the counter, commands are the block's) and of `SchedulerInterface` (a gap is a
natural, a call is a record of a command and its two parameters), evaluated by TLC in the runs. The
invariants `TimeInv` and `BusIInv` were checked with TLC on the instances of `timer` and `interface`
before they were proved.

Only model-checked:

- What `demo` and `tests` check of one particular program. `EveryTestPasses` is about the 24 tests as they
  are written; `ReturnsObjects`, and `LegalRequests` and `ImplementsThreads` in `demo`, are about a
  program that fills the table and relies on the order of its calls, which `Fits` excludes.
- `CommandCompletes`, `InterruptArrives`, `CallReturns`, `RoundRobin`, `TakeTurns` and `SuiteEnds`: liveness
  under fairness is out of the prover's reach.

## 5. Not modelled

- *Board support packages*: four generated copies of Altera's HAL and of its drivers, by far the most
  lines of C in the repository (some 54 000 of 55 500). Nothing of this system's logic is in them; only
  the dispatch of interrupts is part of `Driver`, since the scheduler's line can fall while
  it runs. The interconnect and the processor's core are there as generated netlists; what they leave
  open is the constant `MinGap`.
- *Synthesised copies, Quartus databases, reports*: generated files.
- *The earlier driver* has the same calls in the same methods, and its program the same sequence;
  `Driver` and `Demo` stand for both.
- *Unit tests 20 and 21* and their handler are commented out in `main()` and never end; *the
  playground* is a sequence of calls without a condition. `scheduler_v2/Object.h` is a
  priority and a print-out.
- *A program that goes on calling methods with the timer running* is modelled only as far as `race`:
  after a mixed-up command nothing can be said of the state.
- *What follows a read through a null pointer* (`NullRead`): the model stops there, and the properties
  say that it is not reached.
- In the block, metavalues of `std_logic` and identifiers out of range are left out.

## 6. What is left

Every safety property that holds of a component in general is a theorem. Left to TLC are liveness and
the two particular programs, as listed at the end of section 4. A proof about `Demo` would replace
`Fits` by an invariant that follows the program's counter through its calls; its value would be in
that one program only.
