# Verification of the operating-system assignments

The repository holds four small C/C++ programs about the parts of an operating
system: a shell, process schedulers, memory management, and thread
synchronisation. This directory models all of them, model-checks the models with
TLC on small instances, and proves their safety properties with TLAPS for every size.

## 1. The system

| Component | Source | State | Operations | Interacts with |
|---|---|---|---|---|
| producer-consumer | `Assignment-04-locks/prod-cons.c` | ring `buffer`, `count`, `in`, `out`, `terminate`, mutex, two condition variables | `producer`, `consumer`, `main` | input and output file |
| reader-preference lock | `Assignment-04-locks/rwlock-reader-pref.c` | `readers`, semaphores `write_lock`, `reader_lock` | acquire/release of either kind, `reader`, `writer` | shared file, log |
| writer-preference lock | `Assignment-04-locks/rwlock-writer-pref.c` | as above, `writers_waiting`, `reader_count_lock` | as above | shared file, log |
| offline FCFS, RR, MLFQ | `Assignment-02-schedulers/offline_schedulers.h` | array of `Process`, three queues, clocks | `FCFS`, `RoundRobin`, `MultiLevelFeedbackQueue` | child processes by fork, kill, waitpid; CSV file |
| online SJF, MLFQ | `Assignment-02-schedulers/online_schedulers.h` | `priorityQueue`, three queues, history of burst times by command | `ShortestJobFirst`, `MultiLevelFeedbackQueue`, input handlers | terminal, children, CSV file |
| TLB simulator | `Assignment-03-memory/2021MT10904.cpp` | per policy a map of the pages in the buffer, with a ring or a doubly linked list | `FIFO`, `LIFO`, `LRU`, `Optimal` | standard input |
| allocator | `Assignment-03-memory/2021MT10904mmu.h` | doubly linked list of blocks, headers inside the pages | `my_malloc`, `my_calloc`, `my_free` | mmap, munmap |
| shell | `Assignment-01-shell/2021MT10904_shell.c` | history array, working and previous directory, open pipes | prompt loop, commands, pipelines, `history`, `cd`, `pwd`, `exit` | children, pipes |

The components do not share state with each other. Within a component the hard
behaviour is: threads interleaving at every access to shared variables, spurious
wakeups, a termination flag racing with a sleeping thread (producer-consumer);
semaphores taken in two orders, polling, starvation (locks); a child that ends
at any moment between two calls of its scheduler, that fails or is killed, or
that cannot be forked at all (schedulers); lines that arrive while a child runs
(online schedulers); frees in any order over pages that lie anywhere (allocator);
two children and the shell with copies of the same pipe (shell). `PROJECT.json` lists these hazards by
line, with the properties that watch over them or the reason why none does: for some the
code simply lets it happen, and section 3 says which properties make an exception for it.

What makes each component correct:

* producer-consumer: data pass in order and completely through a bounded ring;
  nobody sleeps for ever; every line of the log shows the true ring.
* locks: a writer is alone, counters count, the log tells the truth, everybody
  gets in and out, and the promised preference is kept.
* schedulers: one child runs at a time, none is lost or passed over, each is
  recorded once with its true outcome and consistent times, the results are
  written.
* online schedulers: as above for whatever is typed whenever; the history is
  exact, and the choice of the next job follows the newest history.
* TLB: the data structures replace what the names of the policies say, and
  Optimal is optimal.
* allocator: blocks in use are disjoint and stay as they are, free space is in one
  piece, and everything goes back to the system.
* shell: it always prompts again, having waited for its children and closed its
  pipes; where failed forks keep it from that, it owes exactly what they left behind.

## 2. Modules

| Module | What it is |
|---|---|
| `BoundedFifo` | abstract: a bounded queue whose every removal is logged |
| `ProdCons`, `MCProdCons` | `prod-cons.c`; instance with all short input files |
| `Semaphores` | POSIX semaphores (external) |
| `ReadersWriters` | abstract: the readers-writers problem, counts reported from inside |
| `RWThreads` | what both lock programs share: thread bodies, shared file, log, properties |
| `RWLockReaderPref` | `rwlock-reader-pref.c` |
| `RWLockWriterPref` | `rwlock-writer-pref.c` |
| `Children` | child processes, signals, waitpid and the clock (external) |
| `JobScheduler` | abstract: what any offline scheduler owes its caller |
| `OfflineFCFS`, `OfflineRR`, `OfflineMLFQ` | the three functions of `offline_schedulers.h` |
| `OfflineMLFQShare` | MLFQ with the order of the slices visible |
| `OnlineInput` | what both functions of `online_schedulers.h` share: input lines, history |
| `OnlineSJF`, `OnlineMLFQ` | the two functions |
| `OnlineSchedulers` | a program that calls either, with the person at the terminal; properties of both |
| `ReplacementPolicies` | abstract: the four policies by their definitions |
| `TLB` | `2021MT10904.cpp` |
| `MallocSpec` | abstract: what a caller of malloc and free relies on |
| `Allocator`, `MCAllocator` | `2021MT10904mmu.h`; instance with the arrays of calloc |
| `Shell` | `2021MT10904_shell.c`, with the processes of its pipelines |
| `ProdConsProofs`, `RWLockReaderPrefProofs`, `RWLockWriterPrefProofs`, `OfflineProofs`, `OnlineProofs`, `TLBProofs`, `AllocatorProofs`, `ShellProofs` | theorems and proofs |

Operators named `Action_Variant` (such as `PLock_IfNotWhile`) are deliberately
wrong versions of `Action`. Nothing uses them; put in place of the action each
makes the property that `PROJECT.json` pairs it with fail, which shows that the
property can tell a bug.

### Producer and consumer

Each thread has a label in `pc`, the statement it executes next. Every access to
a shared variable that another thread could see is a step of its own, also those
under the mutex, so that the mutex is checked rather than assumed. `input` is
the file as a sequence of numbers; `pos` counts the `fscanf` calls, the one that
returns EOF included. A 0 and the end of the file lead to the same labels
(`close`, `signalEnd`, `unlockEnd`), as lines 30-36 and 50-56 are the same code.
`pthread_cond_wait` is three steps: it releases the mutex and blocks at once
(`wait`), is woken by a signal or spuriously (`relock`), and continues once it has
the mutex. `output` holds one record per log line: the item and the elements of
the ring printed after it. `fopen` may fail in either thread and ends the process.

### Reader-writer locks

A thread goes from `start` through the acquire function, its body and the release
function to `done`. Waiting on a semaphore, testing a counter, changing it and
posting are separate steps. The log line reads `rwlock.readers` without the
semaphore that protects it: `Log` takes the value of that moment. An aligned `int`
is loaded as a whole on the platforms the program is built for, so the race has
no other outcome. Reading the shared file is two steps (`OpenShared`,
`ReadShared`), between which the file must not grow. In the writer-preference
lock `BackOff`, the sleep and the second wait are lines 27-31.

### Offline schedulers

`Children` gives each job a time it needs and a fate, both fixed at the start and
unknown to the scheduler. Time is a counter of 10 ms units that advances only
when the scheduler sleeps (`Sleep`, which may take up to `Overrun` longer), when
it blocks in `waitpid` (`SleepUntilDone`), and, in MLFQ, between two rounds. Signals act
at once. A child that has ended is a zombie until it is waited for, and can still
be signalled; afterwards `kill` fails. Process id 0 stands for the caller's process
group, which is what `kill` and `waitpid` make of the `pid` of a process whose fork
failed in MLFQ. `waitpid` there may find no child at all and leave `status`
uninitialised: `Poll` then takes any status.

`OfflineMLFQ` has one action for the three branches of the loop, with the queue's
index in `level`; `Account` is what follows the slice, `Boost` the end of the round.
`boost_queues` is one step because nothing else runs in between; moving the
processes one by one appends queue 1 and then queue 2 to queue 0. `row[j]` is what
has been copied into `processes[]` for the CSV file.

A child ends in one of these sleeps, which is where time passes. In `OnlineMLFQ` it may
also end after the second `waitpid` of its slice and before the signal that would stop it
(`EndsUnstopped`, lines 389-395), if less than a unit of its work is left: a zombie then
goes back to a queue, is sent SIGCONT at its next turn, and is waited for then. In the
offline schedulers every slice ends with the signal and looks for the child afterwards or at
its next turn, so that a child that ends in the sleep before is in the same position.

`FCFS` sets `error` and `finished` but never clears them, as the other two do: `OfflineFCFS`
assumes that both are false in the processes it is given. With another value the
recorded error would not be the outcome of the child. `process_id`, which `FCFS` does not clear
either, may be anything.

In `OfflineFCFS` a failed fork leaves `process_id` at whatever the caller put there.
Every earlier child has been waited for, so `waitpid` fails for every such value.

### Online schedulers

`OnlineInput` uses `Children` as the offline models do. A job is a line: it exists from
the moment it is typed (`arrived`), and `pc = "input"` is the loop that reads lines
until none is waiting, so any number of lines may arrive each time the program
looks, and none while it is in `waitpid` or in a slice. SJF and MLFQ are composed by
disjunction; `scheduler` says which one `main` called. `Learn` is `update_burst_times`, with the
integer division; an entry starts with count 1 and the assumed burst.

`execute_process_SJF` does not test the result of fork: `SJFCollect` then finds no
child, takes any status, and still enters the burst into the history. In MLFQ
`malloc` leaves `started` and `pid` unset: `MLFQRead` gives up to `MaxGarbled` processes any
value of `started` and the process id 0 or one nobody has. Properties that such a
process or a failed fork would break are stated for `WellBehaved` executions, and
`TypeOK` and `HistorySound` for all. `startTime` in `OnlineMLFQ` is the local variable of the slice.

### TLB simulator

The four functions run one after the other on the same accesses, each with its own
map. `tlbQueue` is `class Queue` slot by slot. The list of LRU has one node per page, so
`next` and `prev` are functions on pages. `page_map[j]` is the map of Optimal after its
backward pass has come down to index `j`. An `unordered_map` is walked in an
unspecified order: `Farthest` is the set of entries that may win, and the choice is
nondeterministic. Addresses enter by their page number (`addr / P`, lines 340-345).

### Allocator

Addresses are numbers below `Space`, sizes are taken modulo `SIZE_MOD`. `block` holds the
headers by address, linked by `next` and `prev`; `mapped` is what mmap has handed out, which
may be any free pages. Writing a header behind the end of a block, merging blocks
that are not adjacent in memory and clearing more than a block holds are undefined
or overwrite what others own: `damaged` records it, and nothing is modelled after it.
`lossy` records that a split has lost `HEADER_SIZE` bytes (line 52 subtracts a header
that `size` contains already). `asked` is what the caller wanted.

### Shell

A line is what it makes the shell do. The children are processes with a copy of the
pipe ends the shell had when it forked them (`fds`). The left side writes some number of
times, blocks while the pipe is full and dies of SIGPIPE when no reader is left; the
right side reads until the end of the input, which it sees when no process has the
write end, or leaves before. Built-ins on the left side run in the child and change
nothing in the shell, so they are commands like any other. `fork` and `pipe` may fail
anywhere; the early returns leave ends of pipes, and after a failed second fork a
child, behind. `failures` counts these, so that `Balanced` can say that nothing else is
left behind. `Orphans` are left sides whose right side could not be forked. The shell
prompts early when `wait(NULL)` returns with one of them; `EarlyOnlyForOrphans` says that
nothing else makes it, and that a pipeline, which waits by process id, is never cut short.
At the end of the input the shell prompts for ever (`EndOfInput`, line 76); no property
objects. The directories cd has been to are kept in `trail`.

## 3. What is checked

`Inv` is, in each module that has one, the type invariant together with the invariants
of the data structures of that module (for the locks: `MutualExclusion`, `CountExact`, `WaitingExact`,
`LogTruthful`, `StableRead`; producer-consumer: `MutexHeld`, `NoLostWakeup`; schedulers:
`OneAfterTheOther`, `WaitingTime`, `CompletedExact`, `OnlineWaitingTime`, `HistorySound`; TLB: `MapMatchesOrder`,
`LRUExact`; allocator: `ListIsMemory`, `Coalesced`; shell: `HistoryFits`, `PrevIsPrevious`).

| Run | Instance | What it shows |
|---|---|---|
| `prod_cons` | ring of 2, all files of up to 4 tokens over {0,1,2} | ownership of the mutex, no lost wakeup, order and content of the log, completeness, termination, refinement of `BoundedFifo` |
| `reader_pref` | 2 readers, 2 writers | exclusion, exact counter, true log, stable file, steps of `ReadersWriters`; readers get in while another reads for ever; termination if reading ends |
| `writer_pref` | 2 readers, 2 writers | as above, in spite of polling, with the refinement of `ReadersWriters` and its fairness; also the waiting count, no circular wait, no reader past a registered writer |
| `fcfs` | 4 jobs, any fate, up to 2 failing forks | refinement of `JobScheduler` with its liveness, times that do not overlap |
| `rr` | 3 jobs, any fate, one failing fork, sleeps one unit late | steps of `JobScheduler`, consistent times, exact count; results written when all is well |
| `rr_report` | 2 jobs, one may fail | **violated**: results are never written |
| `mlfq` | 3 jobs, any fate, one failing fork, sleeps one unit late, overhead | one place per process and no starvation in all executions; consistent times and steps of `JobScheduler` while no fork fails; results written when no child is killed either |
| `online` | 3 lines of 2 commands for either scheduler, one failing fork, one process of garbled memory | exact history, shortest job first by the newest estimates, runs of one command in order, one place per process, consistent times, everything typed is recorded |
| `tlb` | all sequences of up to 6 accesses to 4 pages, buffers of 1 to 3 | ring, list and map agree; LRU in closed form; Optimal has the most hits any policy can have; refinement of `ReplacementPolicies` |
| `allocator` | 4 pages, requests of 1 and 2 pages and sizes that wrap, calloc | list and memory agree, free space is coalesced, everything is given back, requests fit; refinement of `MallocSpec` |
| `allocator_damage` | 1-page requests | **violated**: a header is written behind a block |
| `shell` | 3 lines, 2 directories, pipe of 1, failing fork and pipe | prompt returns, children and descriptors balanced, history fits its array, cd remembers; early prompts are due to orphans only |

### The disagreements

1. `offline_schedulers.h:404`. A child that exits with another status than 0 counts
   as completed but stays unfinished; at its next turn `kill` finds nobody and the
   scheduler exits without a CSV file. With all children well behaved
   (`ReportedIfWell`), or when the failing child is the last to be completed, it
   does not happen.
2. `2021MT10904mmu.h:50`. "Ensure there's space for another block": the size compared
   contains a header and `block->size` does not, so that a block of exactly the right
   length gives a negative number, which is a large unsigned one. Freeing a page
   that is not the last block and asking for a page again writes a header into the
   bytes behind the block.

What other properties are conditional on, because the code is so:

* `offline_schedulers.h:322`. `FCFS` is given processes without an error (above).
* `rwlock-writer-pref.c:54`. A writer that waits for `reader_count_lock` has not been
  counted yet; a reader that calls later may enter before it. `WritersFirst` is
  about registered writers.
* `offline_schedulers.h:301`. MLFQ looks only at `WIFEXITED`: a child killed by a signal
  is never finished and goes round the queues for ever (`fate[j] # "crash"` in
  `ReportedIfWell`).
* `offline_schedulers.h:288`, `online_schedulers.h:365`. After a failed fork `pid` is 0 (or
  whatever memory held), and signals and waits go to the process group; `kill(0, SIGSTOP)`
  stops the scheduler (`failures = 0` in several properties).
* `2021MT10904mmu.h:90`. Free blocks that follow each other in the list are merged even
  if other memory lies between them (`~damaged`); line 52 loses a header per
  split, until a page is never unmapped (`lossy`); sizes may wrap (`FitsRequest`).
* `2021MT10904_shell.c:273`. After a failed second fork a child is never waited for, and
  `wait(NULL)` (line 215) of a later command may return with it, although the comment there
  says that the shell waits for its child. `Balanced` and `EarlyOnlyForOrphans` count both.
* `2021MT10904_shell.c:76`. At the end of the input the shell does not end.

### Bounds, and why they are enough

* Ring of 2 slots and 4 tokens: the ring gets empty and full, both indices wrap,
  and a thread is asleep in each state. The proofs cover every size.
* 2 readers and 2 writers: a first and a last reader, and a writer that holds the
  lock while another waits. With 3 readers the reader-preference lock has 457,152
  states and the same results, but nothing new happens: the code tells 0 readers
  from more, and 1 left from more. The proofs cover every number.
* Schedulers, 3 jobs (4 for FCFS): a queue with a head, a middle and a tail. `MaxNeed` lets a child outlive
  a slice of every queue, end inside one and end exactly with one; `boostTime`
  lets boosts happen with processes in all queues.
* `MaxForkFailures`, `Overrun`, `Overhead` bound what the environment does.
  `MaxTime` bounds the time until which rounds may take extra time, and the burst
  of a process that is charged again and again but never finishes; no property
  depends on either value.
* `online`: three lines are two of one command and one of another, or three of one;
  `DefaultBurst` 2 lies between the bursts that occur, so that the estimate of a command
  goes up and down and passes that of the other. The number of lines is the bound on
  everything typed; more of them could keep SJF from a long job for ever, which is
  in the nature of that policy.
* `tlb`: 6 accesses to 4 pages with up to 3 entries fill the buffer, replace and use
  again what was replaced; the ring wraps in both directions; the node that is moved
  or dropped is the head, the tail, in between, and the only one.
* `allocator`: 4 pages hold up to 4 blocks, so that a block has free neighbours on both
  sides, in every order in the list and in memory; 2-page blocks are split. A header
  is a quarter of a page, so that the bytes lost by splits add up to a page.
  `SIZE_MOD` 64 lets sums and products wrap: 61 bytes wrap when they are rounded up, 63 when
  the header is added.
* `shell`: `PipeSize` 1 and up to 2 writes block the left side; three lines leave room for
  a pipeline that fails, a command that reaps its child, and another pipeline; an
  array of 1 is doubled twice. `MaxFailures` bounds the failing calls of each kind.
* `MAX_QUEUE_SIZE` is the number of jobs. With more jobs than places the program
  drops jobs silently; it is built for at most 100.

### Fairness

* Threads keep running (weak fairness per thread). In `ProdCons` locking the mutex is
  strongly fair: it matters only if the other thread is woken spuriously for
  ever. Spurious wakeups and failures of `fopen` are not fair.
* In the reader-preference lock each thread waits for a semaphore at most twice
  and no waiter polls, so weak fairness is enough. A reader need not ever finish
  reading; termination is stated under the assumption that it does.
* In the writer-preference lock polling readers leave the count lock free for
  100 microseconds in each round; the reader that leaves and the writer that
  unregisters get it in the end (strong fairness of these two waits only).
* A scheduler is one process that keeps running; a child that runs ends after the
  time it needs. Nobody has to type a line to the online schedulers or the shell.
* In the shell every process that can run does; a command ends when it has done its
  writes, gets SIGPIPE or sees the end of its input. That a reader leaves early is
  not assumed.
* The TLB simulator and the allocator are sequential and have no liveness property.

## 4. What is proved

| Module | For every | Theorems |
|---|---|---|
| `ProdConsProofs` | `BUFFER_SIZE` greater than 0, set of files | `Inv` (`TypeOK`, `MutexHeld`, `NoLostWakeup`), `Fifo`, `NothingLeftBehind`; the safety part of `ImplementsQueue` |
| `RWLockReaderPrefProofs` | finite disjoint `Readers`, `Writers` | `Inv` (`TypeOK`, `MutualExclusion`, `CountExact`, `LogTruthful`, `StableRead`), `StepsOfRW` |
| `RWLockWriterPrefProofs` | finite disjoint `Readers`, `Writers` | the same and `WaitingExact`, `NoCircularWait`, `WritersFirst`; the safety part of `ImplementsRW` |
| `OfflineProofs`, FCFS | number of jobs, needs, fates, failed forks | `Inv` (`OneAfterTheOther`); the safety part of `ImplementsScheduler` |
| `OfflineProofs`, RR | as above, `quantum` greater than 0 | `Inv` (`WaitingTime`, `CompletedExact`), `ImplementsScheduler` |
| `OfflineProofs`, MLFQ | as above, quanta greater than 0, any `boostTime` | `Inv` (`WaitingTime`); with `N <= MAX_QUEUE_SIZE` also `OnePlace`, `FairShare`, `ImplementsScheduler` |
| `OnlineProofs` | number of processes, their commands, needs and fates, moments of their arrival, failed forks, garbled memory, quanta, boost time | `Inv` (`OnlineWaitingTime`, `HistorySound`), `ShortestFirst`; with `N <= MAX_QUEUE_SIZE` also `SameCommandInOrder`, `NothingForgotten` |
| `TLBProofs` | set of pages, number of accesses and of entries | `Inv` (`MapMatchesOrder`, `LRUExact`), `ImplementsPolicies`, `OptimalIsBest` |
| `AllocatorProofs` | sizes of page, header, `size_t` and address space, requests of malloc and calloc, pages that mmap finds | `Inv` (`ListIsMemory`, `Coalesced`), `AllReturned`, `FitsRequest`, `ImplementsMalloc` |
| `ShellProofs` | lines, directories, sizes of history and pipe, failing calls | `Inv` (`HistoryFits`, `PrevIsPrevious`), `Balanced`, `EarlyOnlyForOrphans` |

The assumptions are those named in the modules of the models, and two more. A
quantum of 0 would make round robin go round without letting anybody run; the callers
pass milliseconds greater than 0, and the MLFQ model assumes it of its three quanta
already. With more processes than places in a queue `MLFQ` and the online schedulers drop processes silently, so
that nothing about all of them holds (section 3, bounds); types, rows, history and waiting
times are proved without that assumption.

The arguments:

* Locks. `MutualExclusion` is not inductive: it does not say who holds the
  semaphores. `LockInv` adds that `write_lock` is 0 exactly while a writer is inside or
  readers are counted in (or a reader is between taking and counting, or between
  uncounting and posting), that the count semaphore has exactly one owner while it
  is 0, and that the counters equal the cardinalities of the sets of threads inside
  or registered. Each step changes one of these sets by one thread; the lemmas about
  `RWThreads`, which both modules have, say how their cardinality follows. `WritersFirst` and
  `NoCircularWait` follow since a reader that passed the test holds the count lock,
  so that no writer can register or unregister before it is in.
* Producer and consumer. `SafeInv` (types and the owner of the mutex) comes first, as
  everything else relies on one thread at a time. `WakeInv` is `NoLostWakeup`
  with what the labels imply about the tests a thread has passed. `RingInv` relates
  `in`, `out`, `count` and the label of a thread that has stored but not counted.
  `LogInv` numbers the items: stored = read, logged = taken. `EndInv` says that
  after `terminate` nothing is put any more and everything before the first 0 was.
  The refinement of `BoundedFifo` follows action by action: `UnputIs` says that what is
  left to put is the data behind the items put, `WindowGrows` and `WindowShrinks` how
  the ring changes as a queue. `DataOf` is defined by the first 0 of a sequence; that
  there is one (or none) rests on `LeastNatural`, that a set of numbers has a least element.
* FCFS. `FCFSOrder` says that the processes before the `i`-th have been waited for, or were
  never forked, and those behind have no child; `FCFSTimes` that all recorded times lie
  before `current_time` and that the child waited for started then.
* Round robin. `RRChildren` says which child may run at which label, and that `pid` is known
  for every child; without it a signal could go to a process that is not there, and
  `kill` failing would be possible at any turn. `RRRows` says that a row is there
  exactly when the child has been waited for, which makes `completed` count.
* MLFQ. After a failed fork a process collects the status of somebody else, and only
  `MLFQInv` (types, rows, queues without repetitions that hold what their priority says)
  holds of all executions. `SoundInv` adds, while no fork has failed, that each child is
  known (`Known`) and that no process has been charged more than the time that has passed
  (`Covered`): a slice charged in full has lasted as long, unless its child was killed,
  and then nothing is recorded. `OnePlace` needs `NothingLost`. `FairShare` follows from `OneLine` (while
  somebody waits in queue 0 or runs from it, queue 2 is empty), which makes the three
  queues one line, and `LineInOrder`: nobody has run since the last turn of somebody who
  is behind them in that line. A boost concatenates the queues, and `BoostQueue` says where in the
  result each place of each queue is.
* Online schedulers. Each step of either program is one of seven kinds (`Reads`, `Pops`, `Runs`,
  `Records`, `Returns`, `Boosts`, `Rests`), and each invariant is shown kind by kind, once for
  both. `State` holds whichever forks fail and whatever is left in memory: types, and `Apart`: who
  has the processor has no row and is in no queue, no process is queued twice, and the queue of
  shortest job first is increasing. `HistorySound` needs `AverageBetween`, which names
  two bursts that the average lies between: the next average, by integer division, lies between these
  and the new burst (`MeanBetween`); that the sets of measured bursts have a `Min` and a `Max`
  rests on `LeastNatural` and `GreatestNatural`. `ShortestFirst` needs `Propagated`: the field of a
  queued process is the newest average of its command. `SameCommandInOrder` needs
  `EarliestFirst`, that who has the processor was typed before everybody queued with the same
  command, and `Kept`, that with room for all nobody is lost. While no fork failed and memory was zero, `Good` adds
  `Tracked` (a child is known by its process id, and has ended exactly when it is to be
  recorded) and `Covered` (a slice that is charged in full has lasted that long, so that no
  process is charged more than the time since its arrival), from which `OnlineWaitingTime` and
  `NothingForgotten` follow.
* TLB. The ring and the list are related to sequences without repetitions (`Lists`): `Contents`
  reads the ring from the front, and `LinkedBy` says of links that they lead through a sequence.
  One lemma for each operation says what it does to that sequence: `Enqueued` appends, `Dequeued`
  and `DequeuedRear` remove the first and the last element, `Pushed` appends, `Dropped` removes the first,
  `Moved` (the four cases of moving the head, the tail, the only node and one in between) moves one to the
  end. `Listed`, which follows links, has the sequence as its value (`FollowedIs`).
  For LRU and Optimal the invariant has the last use of each page, which no variable of LRU keeps:
  pages are listed by their last uses (`InOrder`), and LRU has forgotten only pages used before all
  it has (`Forgotten`); from these `LRUExact` follows by counting (`ListedAreLastK`). `PageMapIs` says
  what the backward pass of Optimal has noted: the first use from there on. The first use after
  the last one is the next one ahead (`NextUseIs`), so that the page taken is one that `ReplacementPolicies` may
  take (`FarthestUnused`). What a recursive function is (`Listed`,
  `page_map`) is shown from the equation it satisfies: there is no least place where it
  differs from the closed form (`LeastNatural`).
  `OptimalIsBest` is about `best`, the most hits from an access on with some pages in the buffer;
  that its equation has a solution is shown from the last access down (`BestExists`), as are its bounds.
  `BestInv` says that the hits Optimal has and the most that can follow are the most there can
  be. A miss keeps it because the victim costs nothing (`FarthestIsBest`): to have a page `c` in
  a full buffer instead of `b` is worth one hit at most (`OneMore`), and none if `c` is not used before
  `b` is (`NoMore`). Both go down access by access (`Countdown`) with the same step (`Compared`).
* Allocator. `Linked` says that a sequence lists the blocks, each once, and that `next` and `prev`
  are its neighbours; `Inserted` and `Removed` say how the sequence follows when the links around one
  block change, which is what splitting, extending, merging and releasing do. `At`, which follows the
  links by recursion, has a closed form by that sequence (`AtIs`): a least number at which the
  two differ (`LeastNatural`) cannot be. `Alternating` strengthens `Coalesced`: the last block is
  never free either, because it would have been released. So a free block is not alone and leaves out a
  page (`FreeLeavesPage`), rounding the size of a request that it satisfies cannot wrap, and the second
  block of a split has a size of at least 0 (`ReuseObtains`); and when the caller has nothing the list
  is empty. `Placed` and `Backed` say where the blocks lie and that their pages are mapped. While a
  block is freed (`Freeing`) only it and the next block may both be free (`Loose`). Merging
  blocks that are not `Apart` keeps `Placed`, and no size leaves `size_t` even if they are apart, because
  three blocks together fit into the address space (`SumOfExtents`). After damage only types and
  links remain, and the model stops.
* Shell. `Balanced` speaks only of the prompt. `Account` says at every label how many children
  and open ends are those of failed forks and how many the line at hand still has to
  pay for (`Due`, `Owned`); `EndsInv` that no end of the line's pipe is open before it is
  made and both are until they are closed, without which the number of open ends
  would not follow; `WaitedFor` that the two processes waited for are children.
  `PrevIsPrevious` needs that the trail of directories is never empty. `EarlyOnlyForOrphans` needs
  `OrphanInv`: the orphans are as many as the second forks that failed (and one more
  before the second fork of the line), whatever has not been waited for is a command, an orphan or
  a child of the line at hand, and no other child has the pipe of the line. With `Balanced`, what
  orphans `wait(NULL)` has taken and what commands it has left in their place are equally many.

Only model-checked: all liveness properties and the fairness conjuncts of the
refinements, which the prover does not treat.

## 5. What is not modelled

Not modelled: `write_csv` (formatting; note that its burst column is
`completion_time - start_time`, of which MLFQ never copies the second); reading of the
test cases in the TLB simulator's `main`; the splitting of a line into words in the shell,
where a line is only what it makes the shell do; failures of `malloc`, `strdup` and
`pthread_create`; the buffers of stdio, which a child that cannot run its command flushes
a second time; clocks that go backwards. Input tokens that are not numbers make
`producer` store the last item again for ever; the assignment rules them out.
