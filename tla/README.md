# Verification of the operating-systems laboratories

The repository holds the solutions of an AGH operating-systems course (2017):
some 8000 lines of C in ten laboratories, each of which makes a few processes
or threads work together through one kernel mechanism. There is no test suite
to speak of (CMake `add_test` lines that run programs in cw02 and cw08,
`run.sh` in cw09) and all programs are built with CMake's Debug flags. What
goes wrong in such programs goes wrong between processes, so this project
models the protocols, checks them with TLC, and proves with TLAPS, for any
number of processes and any size of what they share, most of the safety
properties that TLC checks on small instances.

Modelled are the laboratories whose processes really depend on each other:
`cw09`, `cw07`, `cw06` and `cw10`, each with both of its tasks, and the signals
of `cw04` task3. Section 5 says what is left out and why, section 6 what comes
next.

## 1. The system

Every laboratory is a program of its own; nothing is shared between them but
habits. "Hard" names what a test would hardly reach; the full list, by line,
is `hazards` in `PROJECT.json`.

| Part | State | Operations | Interaction | Hard | Correct if |
|---|---|---|---|---|---|
| **cw09 task1** producers and consumers, mutexes | ring `work_arr`, two indices, `end_flag`, one mutex per index, two per slot, one for the file | producer: claim a slot, read a line, wait until the slot is empty, store; consumer: claim a slot, wait for a line, print, free; main: join, set the flag | shared memory of threads; SIGINT or a timer cancels them | busy waiting outside the lock, a second unlock on end of file, a flag looked at after the slot, consumers that return with a lock held | each line is in one place; nothing is printed twice; the ring is not overrun; the program ends |
| **cw09 task2** the same with named semaphores | the same, and the names of 3 + 2N semaphores in the kernel | the same, plus opening with `O_EXCL`, closing and unlinking | the same, and one launch with the next through the names | posts that count, pointers behind the array, names that outlive a crash | no fault while lines are left; an exit once the threads exist leaves nothing |
| **cw07 task1** sleeping barber, System V semaphores | a segment with the queue, the number of taken chairs, the ghost chair, who is next, who woke the barber; five semaphores | barber: fall asleep, call the next, cut; client: sit down, wait to be called, wake the barber, leave | shared memory of processes under `sem[0]`, meetings over `sem[1]`-`sem[3]` | clients between chair and barber, stale NEXT and WAKER, a queue that never moves up | first come first served, one client in the chair, everybody is served |
| **cw07 task2** the same, POSIX semaphores | the same, and names of semaphores and memory | the same turned round: `sem_wait` adds, `sem_post` subtracts and never waits, a busy loop waits for 0; start and Ctrl-C | the same | the gap between loop and wait, clients whose `sem_open`s race with the barber's, a barber who leaves in mid-haircut, a queue whose end is overwritten | the same, until a client is lost behind the queue |
| **cw06 task1** server and clients, System V queues | server: table of clients, `ended`, `empty`; client: its number; queues in the kernel | register, ask, answer, END; Ctrl-C | messages by type; a client's queue is found by its key | END read out of turn, two polls in one round, clients that die, servers that take up an old queue | the answer is one's own; asked before END means answered |
| **cw06 task2** the same, POSIX queues | the same, and the server's descriptors | register, ask, answer, END in the order they come; a signal by which a client has a descriptor closed; Ctrl-C | bounded queues, signals | the client names its own descriptor number, not the server's | every answer finds its client; one client after the other is safe |
| **cw10 task1** calculator over stream sockets | `global_client_info`, epoll's interest list | register, dispatch an operation, answer, hang up | two accepting threads, one that collects answers, main; TCP and local sockets | unlocked table, edge-triggered epoll read once, a search that may not end | a name is registered once; an operation is in one place; main finds a client if there is one |
| **cw10 task2** calculator over datagram sockets | the same table, with a pointer to the address of the last sender | the same without connections | two receiving threads, main; datagrams that get lost | one address for all clients of a socket, a table that runs over | an operation is done once or lost for a known reason |
| pakupaku | a packed copy of cw10: its clients and task2 are the same text; the server of task1 is an older one, without the branch for `EPOLLHUP` and the loop that skips clients who left | | | | |
| **cw04 task3** pings by signals | a counter in each process | ping, ping back, end; wait until the child is ready | standard and real-time signals | merged signals, `kill` before `sigsuspend` | what is counted was sent; both processes end |
| **cw04 task2** requests and permits by signals | `reqNum` | request, permit | the same | the same | nobody sleeps for ever |
| **cw05** pipes, FIFO | bytes in a FIFO | two writes per record | a master reads what slaves write | records torn by another writer | each record is read whole |
| **cw08** image filter | columns per thread | filter a range | none but join | integer division | each column is computed once |
| cw01, cw02, cw03 | arrays, records in files, none | sequential | none | boundaries | the algorithm's result |

## 2. Modules

| Module | Models | |
|---|---|---|
| `ProducerConsumer` | cw09 task1 | threads, main, timed runs and Ctrl-C |
| `LineRelay` | its promise | unread, held, buffered, delivered |
| `ProducerConsumerSem` | cw09 task2 | EXTENDS `ProducerConsumer`; adds semaphore names, faults, launches |
| `SleepingBarber` | cw07 task1, and what task2 shares with it | barber and clients |
| `SleepingBarberPosix` | cw07 task2 | EXTENDS `SleepingBarber`; adds the start, Ctrl-C and faults |
| `BarberShop` | its promise | a first-come-first-served shop |
| `MessageServer` | cw06 task1 | servers, clients, their queues |
| `MessageServerPosix` | cw06 task2 | server, clients, queues and descriptors |
| `ClientRegistry` | cw10, both tasks | the shared table and the threads that register clients in it |
| `CalculatorStream` | cw10 task1 | EXTENDS `ClientRegistry`; connections, epoll, main |
| `CalculatorDatagram` | cw10 task2 | EXTENDS `ClientRegistry`; datagrams, main |
| `PingSignals` | cw04 task3 | parent, child, pending signals |
| `MC...` | | values of constants for TLC |
| `...Proofs` | | the theorems about the module of that name |

An operator marked "Mutant" stands before the definition it would replace: it
is a plausible mistake in that piece of code, and under it one of the
properties fails. `PROJECT.json` says which (`mutants`), and which lines each
definition translates (`map`).

### 2.1 ProducerConsumer and LineRelay

Variables have the names of the C variables; `ppc`, `cpc` and `main` are the
places of the threads in the code, `p_n`/`c_n` their local `curr_n`. A thread
not yet created is one that has not been scheduled yet. Between two actions
lies every access to memory that another thread may touch at that moment:

* `curr_N_p += 1` is a load and a store (`LoadNext`, `StoreNext`), because the
  second unlock of `prod_arr_m` at line 88 lets several producers into its
  section. `curr_N_c` is only touched under `cons_arr_m`, so a consumer takes
  its ticket in one action.
* a lock is the number of permits left. `LockMax = 1` makes it a mutex as
  glibc's default mutex behaves (unlocking a free one leaves it free);
  a large `LockMax` makes it the semaphore of task2.
* a slot index behind the ring (`LockBeyondRing`) reads whatever lies behind
  `arr_m_p`: padding of the heap block, which looks like a free mutex and does
  no harm, or other heap data, which looks like one that is held for ever.
  Both outcomes are in the model.
* a line is its number in the file. `Strlen` gives lengths, so that the
  comparison of consumers has a result.

`LineRelay` says what the threads achieve together: lines are read in file
order, stored only while there is room, and delivered at most once. It makes
no promise that all are delivered, because the program does not keep it (see
section 3).

### 2.2 ProducerConsumerSem

Reuses the thread actions: each is guarded by the semaphores it uses being
usable, otherwise the process faults (`sem_open`'s `SEM_FAILED` is NULL on
Linux and is not checked; `arr_m_p` is an array of pointers here, so an index
behind it is a fault too). Around them stand a launch, `clean_sem` call by call
while cancelled threads may run on up to their next cancellation point, Ctrl-C,
SIGKILL, and the next launch, which finds the names that are left.

`phase` is how far main has come. The handler of SIGINT is set before anything
else, so what Ctrl-C does depends on it, and `SemFinish` tells these apart:

| `phase` | main is in | Ctrl-C |
|---|---|---|
| `args` | `task.c:218`-224, `N` is 0 | `quitting`: nobody to cancel; `clean_sem` unlinks the three single names, its loop has no rounds, and the process exits with success (`quit`) |
| `allocating` | 224-233, `N` is known | `crashing`: the three names go, then `arr_m[0]` is a fault (`killed`) |
| `opening`, `creating` | 233-263, both arrays of threads are there | `pthread_cancel` of a `pthread_t` not yet filled in is a fault before any name goes (`killed`) |
| `running`, `cleaning` | all threads exist | `finishing`: threads cancelled, `clean_sem` from the start, exit (`exited`) |

A thread runs from its own `CreateThread` on, while main is still creating the
others.

### 2.3 SleepingBarber and BarberShop

One action per `semop`, together with the memory accesses up to the next one:
these are made under `sem[0]`, or on words only the barber and the client he
serves look at. The wait for NEXT is a busy loop and an action of its own.
`BarberShop` is a waiting room with a queue, a chair and a sleeping barber;
the refinement mapping reads its queue off the cells in use, in order.

### 2.4 MessageServer

`Servers` and `Clients` are processes; each runs once. `current` is the number
of the queue under the common key, and `q_id`/`server_q` hold the number a
process got from `msgget`, so that a removed queue is recognised as one
(EINVAL). A message is its sender, the operation it belongs to, its type and
the client number in it; texts and results are left out.

One action per call that touches a queue, and the assignment of `msg_q_id` is
an action too (`KeepQueue`, `KeepPrivate`): a Ctrl-C before it leaves the
queue behind. A message for a client number the server has not given out goes
where memory behind the table says (`Recipients`): the array is never
initialised, so it may be any queue or none. `TIME` opens a pipe that is never
closed; when none is left (`FilesMax`), `popen` returns NULL and the server
faults. A message carries one piece of history, `late`: whether END had been
read when it was sent.

### 2.5 SleepingBarberPosix

The shop is `SleepingBarber` with `Posix = TRUE`, which turns the four
operations on a semaphore round: `sem_wait`, `sem_post` and `SpinUntilFree`.
Around it stand the steps in which the barber creates his memory and his five
semaphores (`MakeNext`), the client program that opens the same five one after
the other (`OpenNext`), the fault of a client that uses one it has not got, and
Ctrl-C on either side. The two sequences of `sem_open` interleave, so the
client program may get any subset of the semaphores (`opened`): it can miss 1,
find that the barber has caught up, and have 3 and 4. A name can be missing
again later, when the barber was interrupted, or a second barber before its
`shm_open` (`SecondInterrupted`), whose clean unlinks what the first has made;
`cleared` is how far that went. `Lost` are the clients whose number another
has overwritten in the cell behind the queue.

### 2.6 MessageServerPosix

A queue is known to the server by a descriptor, so `fds` says what each of its
descriptors is: a client's queue, a pipe of `popen`, or free. `mq_open` takes
the lowest free one. The signal handler of `SIGRTMIN + 1` runs between any two
calls of the server (`Close`), and closes descriptor 4, which is the number
the queue has in the client. Two pieces of history, `crowd` and `astray`,
remember whether a client was added while the queue of another was open, and
whether the queue of another was closed.

### 2.7 ClientRegistry, CalculatorStream, CalculatorDatagram

`ClientRegistry` has one action per access to the table that another thread
may come between: the name, the descriptor, the one more field in which the
tasks differ, the registration with epoll, and the load and the store of
`client_number++`. Each of them reads `client_number` anew, as the code does,
so the parts of one registration may go to several rows; `overlap` remembers
that two registrations were under way at once. `NameTaken` is the scan for the
name. Two overlapping registrations may each take a step at an index that the
other has moved on, so that `client_number` can end one behind the table:
`Overrun` is what a thread does then.

`CalculatorStream` adds the connections (queues up and down, end of stream,
reset, SIGPIPE), epoll with its edges, the thread that reads one message per
event without looking at what `recv` returned, and main, which searches for a
row and reads it again when it sends. A descriptor is never closed, so a
client stands for its own. Main's `x` only grows and is only divided by the
number of clients, so it is counted modulo `Period`, a multiple of every
number of clients there can be.

`CalculatorDatagram` has one socket per accepting thread, in which names and
answers arrive, and rows that all point to that thread's `client_socket`
(`peer`), so that what is sent to a row goes to the last sender. The row that
main chose may be the one behind the table; nothing is sent by it.
`RunOver` is the write behind the table of one client too many.

### 2.8 PingSignals

Parent and child after `fork`. Pending SIGUSR1 is a flag and pending real-time
signals are a number; `sigint` is Ctrl-C pending in the parent, which
`sigsuspend` keeps out. A handler of the child is two actions, as others may
come between its count and its answer; the parent's handlers are one.

## 3. What the runs check and show

States and times are those of two workers on a small machine.

| Run | Instance | States | Shows |
|---|---|---|---|
| `pc_relay` | 2 producers, 3 consumers, 2 slots, 3 lines, Ctrl-C and timer | 110 k | every line is in one place (`EachLineInOnePlace`), slots are not shared (`SlotExclusion`), nothing is printed twice or in silence (`PrintedOnce`), nothing is stored after `end_flag`, at most N consumers return, and the program implements `LineRelay` |
| `pc_eof` | 3 producers, 1 consumer, 2 slots, 4 lines, fair | 406 k | the index runs behind the ring, but only after the last line and never with a line in hand; every line gets into the ring; the program ends or has a producer stuck behind the ring |
| `sem_eof` | task2, 3 producers, 1 consumer, 2 slots, 4 lines | 60 k | the permits of `prod_arr_m` are accounted for exactly; with all semaphores open a fault comes only after the last line |
| `sem_launches` | task2, 1 and 1, 4 lines, 2 launches, Ctrl-C and SIGKILL anywhere, start-up included | 684 k | once the threads exist a finished `clean_sem` leaves nothing, even of what an earlier launch left, and before `N` is read only the three single names are gone; a launch that misses a semaphore it needs does not finish; lines are printed in order and only a tail of the file is lost |
| `barber_shop` | 3 clients, 2 haircuts each, 2 chairs, 6 cells, fair | 99 k | the shop of `BarberShop`, its books, one client in the chair, no deadlock, everybody is served; the queue uses at most one cell per haircut |
| `barber_posix` | task2, the same with 2 cells, early clients, Ctrl-C of the barber, of a second one and of one client | 1.36 M | first come, first served until a client is overwritten; the barber invites nobody for that reason only; nobody leaves in mid-haircut; nobody wakes the barber without semaphores 0, 3 and 4, and nobody is cut without 0 to 3; somebody can go on unless there was an interrupt, a fault or a loss |
| `mq_serve` | 1 server, 3 clients with two commands each, queues of 2, fair | 514 k | whoever begins to wait before END is read is served; the server stops |
| `mq_restart` | 2 servers, 2 clients with three commands each, queues of 2, 1 pipe, Ctrl-C anywhere | 458 k | answers and numbers are never mixed up, a waiting client has exactly one message under way until a server faults, and nothing earlier than END is dropped, unless a server takes up a queue it did not make |
| `mq_posix` | 3 clients, each with one of two command lines, queues of 2, descriptors up to 7, Ctrl-C anywhere | 360 k | every answer finds its client as long as no signal has closed the queue of another; clients one after the other are always safe |
| `stream` | cw10 task1, a TCP and a local client, 2 names, 2 operations, one client may leave, fair | 1.2 M | the table is right unless registrations overlap; an operation is in one place, and lost only with a client that left or by an overlap; the answer of a client asked once is read; main's search ends while a client is left |
| `datagram` | cw10 task2, 3 clients, 2 rows, 3 operations, one lost datagram, one client may leave | 4.3 M | an operation is done once and printed once, or lost for a known reason; a client who was not the last to speak on its socket gets no operation ever again |
| `ping` | 3 pings, all three types, Ctrl-C anywhere, fair | 679 | what is counted was sent, each queued ping is counted, the rally has one ping in play; both processes end, but for the two cases below |

What these results say of the code, beyond "it holds":

* **cw09 loses lines and may hang, within bounds.** A consumer looks at its
  slot and then at `end_flag`; a line stored in between stays in the ring for
  ever (`LossIsATail` says it is only a tail). A consumer returns with its
  slot locked, so with more consumers than slots main never joins them all
  (`AtMostNConsumersReturn`), and with two consumers the program may already
  hang; `Termination` is therefore stated for one.
* **The double unlock of cw09 is harmless to data in task1** (that is what is
  proved), while in task2 the surplus permits stay in the semaphore and the
  index behind the ring is a fault at the end of the run.
* **A success of cw09 task2 may leave names behind.** Ctrl-C before the
  arguments are read runs `clean_sem` with `N` still 0: it exits with success
  and leaves the slots' names of an earlier, killed launch. Ctrl-C between
  there and the last `pthread_create` ends in a fault. From then on a
  `clean_sem` that gets to its end has removed everything
  (`ExitLeavesNoName`); a thread that still runs may touch a semaphore it has
  closed and end the process before.
* **cw07's queue creeps.** Clients sit down behind the last one and nobody
  moves up. `PlacesAreBounded` says how fast: the 2550 cells of task1 suffice
  for 2550 haircuts whatever happens, the 246 of task2 (a segment of 1024
  bytes, less the first ten words) for 246. (A client who finds the room empty
  sits down in the first cell again, so it takes a shop that is never empty to
  get there.) When it is full, a client of task2 sits down in the cell behind the queue
  whoever is there, and the overwritten one is never called.
* **cw07 task2's early clients may wake the barber for nothing.** A client
  program that was too early for semaphore 1 or 2 may have got 3 and 4. Its
  client wakes the barber, faults on the way to the chair, and he waits for it
  for ever; no client without semaphores 0 to 3 is ever cut
  (`EarlyClientsAreNotCut`).
* **cw07 task2's loop before `sem_wait` is harmless.** Only one process at a
  time waits for each semaphore but `sem[0]`, and for that one the `sem_wait`
  decides.
* **cw06's END is safe for those who asked before it,** but a client that
  registers or asks between the last two polls and the removal of the queue,
  or later, waits for ever. A server started on the queue of a crashed or
  running one answers client numbers by the wrong table; `OwnAnswer` and
  `OneMessageOnTheWay` exclude just that case (`inherited`).
* **cw06 task2 is right for clients one after the other.** Then descriptor 4
  of the server is the queue of whoever signs off. With several clients at
  once the signal closes the queue of another, and the server may end on the
  failed `mq_send`; `AnswersFindTheirClients` says that nothing goes wrong
  before that.
* **cw10's table is right unless two registrations overlap,** one on each
  socket. Then a name or a client may be lost, and epoll may report one client
  as another. Overlap apart, an answer on top of an unread one stays unread
  until the client sends again, as epoll is edge-triggered; the answer of a
  client that was asked once is always read.
* **In cw10 task2 the clients of one socket share one address,** that of the
  last sender. One client per socket is served well; of several only the last
  to speak ever gets an operation.
* **cw04 task3 may sleep for ever:** if the child is ready before the parent
  is in `sigsuspend` (`missed`), which keeps SIGINT out as well. And if Ctrl-C
  comes before the handlers are set (`cut`), one of the two is left alone.

### Bounds and why they are enough

* Three producers are the fewest that bring an index behind the ring (one is
  at its second unlock, two are in the section together); two slots the fewest
  with a ring order; four lines let the ring wrap and end in mid-round.
  `pc_relay` has more consumers than slots, so that one waits for a returned
  one.
* Four lines over two slots wrap twice in `sem_launches`. One producer and one
  consumer have each phase of the start, `creating` with one thread included.
* `LockMax = 9` is never reached with the producers of the task2 runs, so it
  is no bound on the semaphores.
* Two launches are enough for anything one leaves to the next; a third finds
  what a second would.
* Three clients and two chairs: one in the barber's chair, the room full or a
  client turned away; two haircuts each let a client come back to its own
  stale number. `FifoLen = 6` is never exceeded there; in `barber_posix` 2 is,
  so that clients are lost. One interrupted client (`MaxKilled`) there is
  enough to stop the others.
* In `mq_serve` three clients over queues of two messages fill the server's
  queue; END, a registration and a request can be in it in any order. One of
  the programs goes on after END, the other's second request has a lower type
  than its first. In `mq_restart` the second server may follow the first or
  overlap with it, and the second TIME exhausts the pipes.
* In `mq_posix` the server can have four descriptors above its own
  (`LastFd = 7`): three clients fit, and each TIME takes one away for good, so
  that numbers shift and in the end `mq_open` fails. `QueueMax = 2` lets a
  queue be full. A client number is at most 127, as a `char` in a message
  holds it (`ClientsAssumption`).
* `stream` has one client on each socket, which is enough for two
  registrations to overlap, two names, so that they may be equal or not, and
  two operations, so that one answer may come on top of another. One client
  may leave (`MaxGone`). With two rows the table is never full there, and a
  `Period` of 2 is a multiple of 1 and 2.
* `datagram` has two clients on the local socket, so that they share an
  address, one that uses UDP, and only two rows, so that a third client runs
  over the table; three operations reach the row behind it. One datagram may be
  lost (`MaxDropped`): nothing is sent again, so that a second loss is like the
  first.
* In `ping` three pings are the fewest of which two may be pending while the
  first is handled. `Surplus` bounds how many pings the busy loops of cw04 may
  miss; two let the counts pass L.
* Symmetry is only used in runs without liveness properties, over sets whose
  members differ in nothing.
* Deadlock is not checked where the program can stop for good: when all
  threads or processes have returned, or in one of the hangs named above. In
  `sem_launches`, `barber_shop` and `barber_posix` it is: apart from the
  explicit end of the run, and the reasons `Standstill` lists in the last,
  somebody can always go on.

### Fairness

`ProducerConsumer`: weak fairness of each thread and of main, as the kernel
runs every runnable thread and each step of a blocked one stays enabled or
waits for another. Ctrl-C and the timer are not fair. `SleepingBarber`: weak
fairness of the barber and of each client, and strong fairness for taking
`sem[0]`, because Linux queues the waiters of a System V semaphore and serves
them in turn, so a client in the loop of `clients.c:137` cannot overtake for
ever. `MessageServer`: weak fairness of each started program; starting one is
nobody's duty. All its loops poll. `CalculatorStream`: weak fairness of the
server's threads and of the clients' reading, but not of typing an operation
in, nor of starting a client. `PingSignals`: weak fairness of parent and child,
whose pending signals the kernel delivers; Ctrl-C is not fair.

No fairness is assumed for `SleepingBarberPosix`: Linux does not serve the
waiters of a POSIX semaphore in turn, so a client may be overtaken for ever
and only safety and the absence of deadlock are claimed. The same holds for
`MessageServerPosix` and `CalculatorDatagram`, where a client may rightly wait
for ever.

## 4. What is proved

The theorems hold for every value of the constants that satisfies the
assumptions named in the modules: any finite sets of threads, processes and
clients, any length of rings, queues and tables, any file or command lines,
with Ctrl-C and without. Where a theorem needs more, it says so.

| Module | Theorem | States |
|---|---|---|
| `ProducerConsumerProofs` | `Invariance` | `[]IInv` |
| | `TypeCorrectness` | `[]TypeOK` |
| | `LineAccounting` | `[]EachLineInOnePlace` |
| | `SlotsAreExclusive` | `[]SlotExclusion` |
| | `OverrunIsHarmless` | `[]OverrunOnlyAfterEOF` |
| | `ReturnsAreBounded` | `[]AtMostNConsumersReturn` |
| | `NoStoreAfterEnd` | `NothingStoredAfterEnd` |
| | `PrintsOnce` | `[]PrintedOnce` |
| | `LosesATail` | `[]LossIsATail` |
| | `ImplementsRelay` | `RelayRefinement` |
| (task2) | `ThreadInvariance` | the invariants of the threads, in every launch |
| | `SemInvariance` | `[]SemInv` |
| | `SemTypeCorrectness` | `[]SemTypeOK` |
| | `CleanupIsComplete` | `[]ExitLeavesNoName` |
| | `NoFaultBeforeEOF` | `[]FaultOnlyAfterEOF` |
| | `StaleNamesStop` | `[]StaleNameStopsTheRun` |
| | `PermitsAddUp` | `[]PermitCount`, if a semaphore can count beyond the producers |
| | `SemLosesATail`, `SemLineAccounting` | `[]LossIsATail`, `[]EachLineInOnePlace` in every launch |
| `SleepingBarberProofs` (task1: `~Posix`) | `Invariance` | `[]IInv` |
| | `TypeCorrectness` | `[]TypeOK` |
| | `RoomStaysConsistent` | `[]RoomIsConsistent` |
| | `QueueCreepsSlowly` | `[]PlacesAreBounded` |
| | `QueueIsLongEnough` | with a cell for each haircut nobody sits behind the queue |
| | `ImplementsShop` | `ShopRefinement` |
| (task2: `Posix`) | `PosixInvariance` | `[]PosixInv` |
| | `EmptyInvitationsAreLosses` | `[]EmptyInvitationMeansLoss` |
| | `PosixOneAtATime` | `[]OneInChair` |
| | `CutsAreFinished` | `NobodyLeavesHalfCut` |
| | `EarlyClientsGoUncut` | `EarlyClientsAreNotCut` |
| | `ShopWithoutLoss` | `ShopUntilALoss` |
| | `NobodyIsLost` | with a cell for each haircut, `[](Lost = {})` |
| | `PosixImplementsShop` | and then `ShopRefinement` |
| `MessageServerProofs` | `Invariance` | `[]IInv` |
| | `TypeCorrectness` | `[]TypeOK` |
| | `AnswersAreTheirs` | `[]OwnAnswer` |
| | `OneOnTheWay` | `[]OneMessageOnTheWay` |
| | `DrainMissesNothing` | `[]NothingEarlyIsLeft` |
| `MessageServerPosixProofs` | `Invariance` | `[]IInv` |
| | `AnswersArrive` | `[]AnswersFindTheirClients` |
| | `OneByOne` | `[]OneByOneIsSafe` |
| `CalculatorStreamProofs` | `Invariance` | `[]IInv` |
| | `RegistryStaysSound` | `[]RegistryIsSound` |
| | `AnswersGetRead` | `[]AnswersAreRead` |
| `CalculatorDatagramProofs` | `Invariance` | `[]IInv` |
| | `RegistryStaysSound` | `[]RegistryIsSound` |
| | `EachInOnePlace` | `[]OperationsInOnePlace` |
| | `ForgottenForGood` | `SilentStaysSilent` |
| `PingSignalsProofs` | `Invariance` | `[]IInv` |
| | `PingsCounted` | `[]PingsAreCounted` |

`ClientRegistryProofs` holds the lemmas about the table that both calculators
use.

### The threads of cw09

None of the properties is inductive, because the code's obvious argument
(prod_arr_m protects curr_N_p, so slots are claimed in turn) breaks down at
the end of the file. `IInv` separates what survives from what does not.
`ProdLockInv` and `ProdIndexInv` (the lock is a lock, the index is in range)
are claimed only while lines are left: the last line is read by the last
producer that ever stores. After that the proof relies on the locks of the
slots alone: `SlotLockInv` says that whoever has a line in hand has the lock
of a slot inside the ring, `ConsSlotLockInv` the same for consumers, returned
ones included, and `SlotExclusion` follows. `HandInv` ties a line in hand to
the place of its producer, and an empty or full slot to the thread that saw it
so; with exclusion nobody else can have changed it, and `EachLineInOnePlace`
is preserved by `Put` and `Clear`. `ReturnsAreBounded` is an injection of the
returned consumers into the slots. For the refinement, `RingHasRoom` shows by
cardinality that the buffer of `LineRelay` is not full when a producer has
found its slot empty.

`PrintsOnce` adds `PrintingInv`: a printed line is still in the ring only while
the consumer that printed it is about to free it. `LosesATail` is about one
producer and one consumer, and adds `OneInv`: their indices go round the ring
in step, even behind the end of the file, and the lines between the two are
consecutive ones, so the ring is a queue.

### The launches of cw09 task2

A step of a launch is a step of the threads of task1, leaves them alone, or
starts them anew (`SemNextIsNext`), so their invariants hold in every launch
and are not proved again. `SemInv` adds where the process is in its list of
`sem_open` or clean-up calls (`StepInv`), and which names are gone by then
(`CleanInv`): all it has passed, and for a `quitting` process, which begins at
the first unlink and ends after three, the single ones. `StaleInv` is what makes `StaleNamesStop`
inductive: for each semaphore that can be missing it says how far the threads
get without it. For a missing semaphore of slot i this takes a count of the
lines read or about to be read against the slots before i on the first round
(`NoPSlot`), as the double unlock lets several producers in at once.

### The barber shop

`LockInv` makes `sem[0]` a lock. The other four semaphores are no locks but
meetings of the barber and one client, and the value of each is a function of
where these two are. `Meeting(k)` states it as a table: which places go
together (`GoesWith`), and when each of the semaphores is taken (`Sem1` to
`Sem4`); `MeetingInv` says that there is always a client, or nobody, for which
the table is right. A `semop` that can happen leads from one entry of the table
to another, and no property of the shop is provable without knowing which.
`RoomInv` has the books of the waiting room, and that there are no gaps among
the cells behind the end of the queue. The mapping to `BarberShop` reads the
queue in the order of its cells, by `NthCell`, a cardinality, and
`HaircutsGiven` is a cardinality, since the folds of the libraries are not
within the prover's reach. The refinement is then one lemma for each action
that moves the queue or the chair.

`FifoLen` is no assumption: `RoomStaysConsistent` and `ImplementsShop` hold
even when the queue has grown over its last cell, and `QueueIsLongEnough`
says when it does not.

For task2 two things change. A post does not wait for the other side, so the
barber can be one place further ahead of his client, before the greeting and
after the haircut: `PosixGoesWith` has these pairs besides those of task1, and
in them `sem[3]` or `sem[2]` is one higher than the table says. Everything else
of `PosixMeeting` is that of task1 with the semaphores turned round.
And the search for a free cell ends at the cell behind the queue even when it
is taken, so the books can be wrong. `PosixRoomInv` says how wrong: every
client in front of that cell still has his own, and the one the barber has
called is the first. That the barber invites nobody only after a loss is
proved together with it. The start, the faults and Ctrl-C do not touch the
shop, and only add `OpenedInv`: nobody is past a semaphore that the client
program has not got (`UsedBy` lists, for each place, which semaphores a client
there has used). With the table of meetings this gives `EarlyClientsGoUncut`:
a barber who is woken has a client at `wake_unlock` or just behind, past 0, 3
and 4, and one who begins to cut has a client at `hair_2`, past 0 to 3.

While nobody has been overwritten the books are right after all
(`LosslessBooks`), and the lemmas about the single actions, which ask for no
more than right books and one client in the chair, prove the refinement of both
versions. `NobodyIsLost` takes the bound of `PlacesAreBounded` along: with the
246 cells of task2 it gives 246 haircuts.

### The server of cw06 task1

The three properties suppose that no server has taken up a queue it did not
make (`~inherited`), and so does `OrderInv`; types apart nothing holds after
that, as a server then reads numbers of another's table. Before it,
`AloneInv` says that at most one server is at work and that the queue under
the common key is its own.

`Trail(c)` follows what client c waits for, a number or an answer: it is in the
server's queue, in its hand, or in the client's own, and in one of these only.
`msgrcv` picks messages by type from anywhere in the queue, so the lemmas about
`RemoveAt` and `First` speak of positions. `Known(c)` has the entry of the
table by which the server finds c, and c's queue. `RoundInv` says what the
server may rely on at each call. For `DrainMissesNothing` this is that, once
END has been read, registrations found before the second poll of the same round
are late ones, and that a round which found something does not end as an empty
one. An earlier form of `NothingEarlyIsLeft` made no exception of
`inherited`. TLC refutes that with two servers: the other one, which has a
number beyond its table in its hand, answers into the common queue just after
the first has decided to remove it.

### The server of cw06 task2

What a client waits for is in the server's queue, in its hand or in the
client's own queue. `Trail` says that it is in one of these only, and that it
fits what the client waits for; `Known` says what the table and the
descriptors must hold for that client, `HandInv` what the server may rely on
between two calls. `OrderInv`, the three together, is claimed until a signal
closes the descriptor of another (`astray`) or the server faults, and from it
follow both `AnswersFindTheirClients` and that no `mq_send` fails. `Untouched`
is the lemma that carries the proof: a step that changes nothing of a client's
messages, its entry and its descriptor keeps both invariants of that client,
so each action is proved for its own client only. `AloneInv`, for clients one
after the other, says that no descriptor but 4 is ever a client's. Its proof
relies on `OrderInv`: `TIME` cannot put its pipe at 4, as whoever asks is
there.

### The calculators of cw10

The proof of the table (`ClientRegistryProofs`) divides by `overlap`. Whatever
the threads do to each other, `client_number` does not run ahead of the
registrations (`CountInv`); while they did not overlap, the one thread that
registers somebody fills the row behind the others (`RowInv`).

The argument for the stream calculator has to follow each operation through
two queues per client, epoll's edges and a reset. `PlaceInv` has each operation
in one place. That an answer of a client that was asked once is read rests on
`WatchInv`: epoll watches each registered client under its own descriptor, and
a message in its queue has an edge or an event to it. An answer can be printed
again when `recv` fails and the buffer is old. `PrintInv` bounds that by two
tokens for each client that leaves, one for the end of its stream (`Ends`) and
one for a reset (`Resets`); each repeated answer uses up a token, and none
comes back.

For datagrams, `NameInv` says that a client says its name once and to the
thread of its socket only, `AddressInv` that main finds an address of the right
family while registrations do not overlap, `PlaceInv` that an operation is in
one place, and `LostInv` why it is lost. `SilentStaysSilent` is an action
property and follows from `NameInv` and the types. The proof found two steps that an
earlier version of the model left out: after an overlap in the last row
`client_number` is one behind the table, and then main may choose the row
there, and a thread's search may follow what is there.

### The pings of cw04

`PingsAreCounted` needs who can still ping whom: nobody before the child is
ready (`OrderInv`), and in the rally that the counts differ by the ping on its
way back (`RallyInv`).

### Only model-checked

* Liveness, all of it, and the absence of deadlock, are out of the prover's
  reach.

## 5. What is left out

* cw09: a line of more than 900 characters overruns its buffer; a file that
  does not begin with a line `fscanf` can match. Closing the file and exiting
  is one step. `work_arr` is allocated uninitialised; on a fresh heap it is
  NULL, which is what the model begins with, and so are the `pthread_t` of
  task2 before they are filled in. An exit of task2 on wrong arguments, and a
  SIGINT before its handler is set, leave what `Kill` leaves.
* cw07 task1: Ctrl-C in either program (the handlers are those of task2, where
  they are modelled), and a second barber, which wipes the segment of the
  first, byte by byte, before `semget` tells it that it is the second.
* cw07 task2: a second barber stops at `shm_open` with `O_EXCL`, and its Ctrl-C
  before that is modelled. A barber that starts after such a clean-up, with
  memory of its own and some of the first one's semaphores, is not.
* cw06 task1: a queue key taken by an older process of the same number, queues
  removed from outside (`ipcrm`), SIGKILL of a client (a server sees of it
  what it sees of Ctrl-C, except that its messages have a queue to go to), and
  what is done with the texts: `sprintf` and `strcpy` into fixed buffers.
* cw06 task2: a second server, which stops at `mq_open` with `O_EXCL`; more
  than 128 clients; the texts.
* cw10: Ctrl-C in the server ends all its threads at once, so what it does is
  the beginning of something the model does. What an operation computes, and
  the parsing of what is typed in. More clients than rows are modelled for
  task2 only, whose `RunOver` is the same code. `run_answer_server` of task2
  is never started. `RunOver` faults at the first row behind the table, which
  the heap may still bear. Once two registrations have overlapped,
  `CalculatorStream` simplifies two things no property then speaks of: a
  hang-up event of a row that has changed hands, and the stores of one
  registration over another's. `x` modulo `Period` does not overflow as an
  `int` does, which it only could in the loop of a server that everybody has
  left.
* pakupaku is a packed copy of cw10; only the server of its task1 differs, and
  is the older one.
* cw04 task1 starts and stops a clock in a single process. cw04 task2 could be
  modelled like task3; what it would add is in `hazards`.
* cw05: the shell of task1 is a parser with a chain of `pipe`, `fork` and
  `exec`; task2 is a writer and a reader of one FIFO. cw08: threads that share
  nothing but their input and write disjoint columns. cw03: `fork`, `exec` and
  `waitpid` around a parser; all state is the kernel's.
* cw01, cw02: sequential algorithms over arrays and files, most of their lines
  measurement and, in `cw01/task2/data.c`, a table of random strings.

## 6. Plan

All safety properties that the runs check are proved. What could be added is
cw04 task2 with pending signals as sets, and the torn records of cw05.

The modules are written for proofs: no recursive operators, one action per
operation, invariants as conjunctions of named parts.
