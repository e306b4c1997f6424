# A TLA+ model of the job executor system

The repository holds two programs that do the same job in two ways. A *server*
keeps a queue of shell commands ("jobs") and runs at most *concurrency* of them
at a time, each in a child process; *commanders* send it one command each
(`issueJob`, `setConcurrency`, `stop`, `poll`, `exit`) and print its answer.

* `src/jobExecutor-multithreaded` - a TCP server with a main thread, one
  controller thread per client and a fixed pool of worker threads, which share a
  bounded buffer and a few counters through mutexes and condition variables.
* `src/jobExecutor-named-pipes` - a single-threaded server on FIFOs, with
  `select` and a `SIGCHLD` handler.

Below, MT and NP stand for the two directories. Paths are relative to the
program's `src/` directory unless they say otherwise.

## 1. Inventory

### Multithreaded server

| Component | State | Operations |
| --- | --- | --- |
| main thread (`jobExecutorServer.cpp`) | `server_socket`, the worker handles, the empty `SIGUSR1` handler | accept a client and create its controller; after an exit: join the workers, poll `global_ControllerCount` until it is 0, drain the queue, destroy mutexes, return |
| controller thread (`controller_f`, `handle_*`) | its socket; `global_ControllerCount` | count itself, read the command, handle it, answer, close, uncount itself |
| worker thread (`worker_f`, `parent_code`) | the job it took, the slot it holds (`global_Running`) | wait for a slot, reserve it, wait for a job, take it, fork and wait, send the output, close the client, give the slot back |
| job queue (`my_queue`) | a list of jobs | `push`, `pop`, `top`, `queue_position`, `erase` |
| I/O (`my_io.cpp`) | - | write or read a number or a string; a short transfer is `exit(1)` |
| `jobCommander.cpp` | one socket | connect, send the command, read answers until the server closes |

*Interaction.* Controllers are the producers and workers the consumers of the
buffer: `global_Mtx_Queue`, `global_Cond_nonempty`, `global_Cond_nonfull`.
Workers and `setConcurrency` share the slots: `global_Mtx_Running`,
`global_Mtx_Concurrency`, `global_Cond_nonfull_Running`. `stop` competes with
the workers for queued jobs. `exit` sets `exit_server`, broadcasts on all three
condition variables and sends `SIGUSR1` to get main out of `accept`. A
descriptor is opened by main, used by the controller, stored in the job, and
closed by whoever ends the job. Main waits for the controllers that have counted
themselves, and for no others; its drain of the queue takes no mutex.

*Hard.* Signals that reach the wrong thread or nobody; a flag and counters that
are read without the mutex they are written under; a shutdown that runs in
parallel with producers and consumers; descriptors that one thread closes and
the next `accept` reuses; two threads writing to the same client.

*Correct when.* The buffer and the slots stay within their bounds; each job ends
exactly once (output, removal, refusal) and its own client hears of it; nobody
sleeps beside something to do; after `exit` the process ends. Where a controller
is late, and main drains beside it, these are true with exceptions that have to be
named exactly.

### Named-pipes server

| Component | State | Operations |
| --- | --- | --- |
| main loop (`jobExecutorServer.cpp`, `aux.cpp`) | `server.pipe`, `active_commanders` (pid and descriptor of whoever is expected to send), `exit_server` | `select`; admit the commanders whose pids are in `server.pipe`; read and handle one command of every readable commander; purge; `exec_jobs` |
| handlers (`aux.cpp`, `aux_2.cpp`) | `global_JobID`, `global_Concurrency`, the queue | one per command; each opens the commander's answer FIFO and writes there; `exit` kills all running jobs |
| `exec_jobs` | `global_Running`, `global_Running_Jobs` | take a job, count it, fork, list its pid |
| `sigchld_action` | the same two | wait for every child that has ended, erase its entry, subtract |
| job queue | a list of jobs | as above |
| `my_io.cpp`, `jobCommander.cpp` | one pair of FIFOs per commander, `server.pipe`, `jobExecutorServer.txt` | start the server if the file is not there, create FIFOs, write the pid, then the command, read the answer |

*Interaction.* Everything is one thread, but the signal handler changes the
counter and the vector between any two of its instructions, and interrupts its
blocking calls (`EINTR`); commanders meet the server at opens that block until
the other side comes.

*Hard.* The counter is not updated atomically; a child can end before it is
listed; the vector changes under the loops that go over it; a signal taken
outside `select` does not wake `select`; the loop over `active_commanders`
erases while it iterates.

*Correct when.* The counter never understates the children (the assertion in
`exec_jobs`, the concurrency); no zombie is forgotten; jobs start in order and
once; every commander that announces itself is answered; `exit` leaves no job
behind.

### The rest

`scripts/multijob.sh`, `allJobsStop.sh` and the two `progDelay.cpp` are callers
and jobs, that is, the environment. `aux_c.cpp` (NP) is compiled and never
called. Build files have no behaviour; they tell that the programs are built
without optimisation (`-g`), which the model of `global_Running++` relies on.

## 2. Modules

| Module | Models | State |
| --- | --- | --- |
| `JobQueue` | `my_queue` of both programs, as operators on sequences | - |
| `JobPool` | abstract specification: what either server promises about its jobs | line, inService, ended, limit |
| `MTServer` | the multithreaded server: main, controllers, workers, sockets | 26 variables, named after the code's globals |
| `JobOutput` | one connection of that server, byte by byte: `parent_code`, `my_io` and the reading loop of `jobCommander` | 23 variables, most of them locals of the code |
| `NPServer` | the named-pipes server: main loop, handlers, `SIGCHLD` handler, children | 25 variables |
| `NPHandshake` | how commanders and servers of the named-pipes program find each other: start-up, `server.pipe`, the pairs of FIFOs, the end of `main` | 17 variables |
| `MCMTServer`, `MCJobOutput`, `MCNPServer`, `MCNPHandshake` | menus of commands, lengths and symmetry for TLC | - |
| `JobQueue_proofs` | lemmas about the queue, shared by the others | - |
| `MTServer_proofs`, `MTJobs_proofs`, `MTPool_proofs` | theorems about `MTServer` and the inductive invariants they need | - |
| `JobOutput_proofs` | theorems about `JobOutput` | - |
| `NPServer_proofs`, `NPPool_proofs` | theorems about `NPServer` | - |
| `NPHandshake_proofs` | theorems about `NPHandshake` | - |

`MTServer` and `NPServer` both extend `JobQueue` and both instantiate `JobPool`
through a refinement mapping (`Pool` in each of them). `JobOutput` opens up what
is one message in `MTServer` (a job's answer), `NPHandshake` what is one action
in `NPServer` (a pid arrives); each keeps of the other only what its questions
need: `JobOutput` how a job ended, `NPHandshake` whether a job is running.

### How `MTServer` corresponds to the code

A step is the longest piece of one thread's code that touches shared state in
one place. A critical section that does not wait is one step (`ReleaseSlot`,
`SetConcurrency`, `StopQueued`, ...). Where a section keeps its mutex across a
write to a socket, or hands it to `pthread_cond_wait`, it is split and the
mutex has an owner in between (`mtxQueue`, `mtxRunning`). The wait itself is two
steps: `SleepFor...` releases the mutex and joins the wait set, `Leave...Wait`
happens when a signal took the thread out of the set and the mutex is free. What
the code does *without* a mutex is split finely: a worker's look at
`exit_server` and its later wait, the three broadcasts of `handle_exit`, the
creation of a controller thread and its first increment, main's look at
`global_ControllerCount`, and every statement of main's drain of the queue: the
size (`QueueSize`), then per job the copy of the top, the pop, the write and the
close (`DrainTop`, `DrainPop`, `DrainTell`, `DrainClose`).

* Worker: `top` -> `slot` -> (`slotfull`, `slotwait`) -> `reserve` -> `take` ->
  (`empty`, `takewait`) -> `run` -> `send` -> `close` -> `release` -> `top`, with
  `gone` and `goneholding` (left with a slot) as ends.
* Controller: `away` -> `new` -> the command's name -> the steps of its handler
  -> `detach` -> `done`.
* Main: `loop`, `accept`, `join`, `spin`, `size`, then `drain` -> `pop` ->
  `tell` -> `hangup` -> `drain` for every job.

`sock`, `fdTable` and `stream` model descriptors and what each client was sent:
`accept` gives out the lowest free number, a write goes to whoever owns that
number now, a write to a closed one ends the server. `mjob` is the job that the
drain has copied.

`owner` in a job, `peak`, `late` and `astray` are history. `late` are the
controllers that `pthread_create` had made and that had not counted themselves
when main saw the count at 0: main drains, and returns, beside them. `astray` are
the jobs that such a controller's `stop` makes the drain confuse. When it takes
the job that main has copied, between `top` and `pop`, main pops the next one,
which nobody ever tells (one job of `astray`), and tells the copied one a second
time, or ends the server because its descriptor is closed (the other one).
When it takes the last one, main pops an empty list and the server falls
(`DrainEmptyQueue`).

### How `JobOutput` corresponds to the code

One connection, from the handler's first write to the close. The stream is a
sequence of cells; a cell is one byte of a text, or one `int`. Every `write` and
`read` of the code is a step, with the size the code gives it.

* `controller` walks through the handler's sentences: their number, then size
  and text of each (`repeat`, `size`, `text`), then what a refused job or a
  `poll` gets (`zero`, `close`).
* `teller` is whoever ends the job: the worker (`run`, `append`, `measure`,
  `tell`, `block`, `rest`, `close`, `unlink` are the pieces of `child_code` and
  `parent_code`, with `count`, `i`, `buffer` and the file offset as its locals),
  or the controller of a `stop`, or main's drain (`size`, `notice`, `close`), or
  nobody, because main returns while the job is in the buffer or was lost
  (`return`). Nothing orders teller and controller. `overtaken` records that the
  teller's first write came before the controller's last.
* `Endings` are the five ways an answer may end for this connection: the job is
  executed (`output`), taken by a `stop` or by the drain (`removed`), left behind
  by main (`abandoned`), not inserted (`refused`), or there was none (`polled`).
* `server` is "ended" when the process is gone for a reason that lies outside
  this connection: main returned (`ReturnFromMain`), or anything else, at any
  step (`ServerExits`) - the malformed command of another client is `exit(1)`, so
  is a failed write to another client. It is "down" when this connection brought
  it down.
* `client` is the loop of `jobCommander`: number of sentences, size and text of
  each, number of characters, whole blocks, rest. It asks for what it believes to
  come. `Fail...` are the four ways `my_io` gets less than it asked for, each of
  which is `exit(1)`: end of file; a text taken for a number; a text of which
  less was written; a text cut by the network (`ShortReads`, recorded in `short`).
  What it reads it prints with `%s`, which stops at the first NUL byte: `printed`
  has one entry per `printf`, and the entry is `UpToNul` of what was read. A job
  writes its NUL bytes at the places `nuls`.
* `Send` waits while the socket holds `Room` cells. On a descriptor that another
  thread has closed it fails, which ends the server, or reaches a stranger; on a
  connection reset by a client that left unread data it is swallowed, fails, or
  raises `SIGPIPE`.

### How `NPServer` corresponds to the code

The main thread is a program counter through one iteration of the loop of
`main`: `loop`, `select`, `admit`, `sweep`, `read`, the command's handler,
`open` (the answer), `exec`, `launch`, `count`, `fork`, `list`. It is split where
what the handler changes makes a difference: the load and the store of
`global_Running++` (`reg`), `fork` and the entry in the vector, each test and
each access of the loops over the vector in `handle_stop` and `handle_exit`, the
choice of a process and its `kill`. `handler` says that `sigchld_action` runs and
how many children it has reaped; the main thread stands still meanwhile, children
may end. `Reap` is one turn of its loop; `LeaveHandler` subtracts, returns, makes
an interrupted `select` go to `exec_jobs`, and may end the server when a blocking
`open` or `read` was interrupted (no `SA_RESTART`).

`vector::erase` moves the entries behind the erased one and leaves a freed last
slot; `handle_exit`, which reads the size once, may index such a slot. The pids
these slots hold are in `leftover`, and the outcome is a choice between a crash
and the old pid. In `handle_stop` the loop compares an iterator with `end()`,
which the handler may have moved below it (`ScanAstray`): everything that can
follow ends the server, by a fault or by a `kill` that fails.

`Purge` states in closed form what the loop that erases while it iterates leaves
(`Erased`: an entry goes when it is marked and the one before it stayed), because
the provers cannot unfold a fold.

### How `NPHandshake` corresponds to the code

A process is a place in its program; a server is named after the commander that
forked it. The name `server.pipe` may be unlinked and made again while a process
still holds the old file, so files are named too, by the server whose `mkfifo`
made them: `pipe` is the file that has the name now, `on` and `at` are what a
server reads from and a commander writes to.

* Commander: `away` -> (`fork`, `wait`) -> `mkfifo` -> `open` -> (`opening`) ->
  `knock` -> `close` -> `openw` -> `count` -> `send` -> `openr` -> `read` ->
  `unlink` -> `done`; `gone` when it was killed or one of its calls failed.
* Server: `start`, `mkfifo`, `open`, (`opening`), then `loop` -> `admit` ->
  (`meet`) -> (`eof`, `reopen`) -> `serve` -> (`words`, `answer`, `write`) ->
  `loop`; after an `exit` `closing` -> `unlinkpipe` -> `unlinktxt` -> `ended`.
  `fallen` is `exit(1)` or a fatal signal, `spinning` a loop that reads nothing
  for ever.

The kernel's part: an open of one end waits for the other (`opening`, `meet`,
`answer` with the commander's `openw`, `openr`); what was written is discarded
when the last descriptor of a file is closed (`CloseRead`, `CloseWrite`); a
write without a reader kills the writer; a read of an empty FIFO is end of file
without writers, otherwise it waits or, after `read_from_server_pipe` has opened
`server.pipe` again with `O_NONBLOCK`, fails with `EAGAIN`. `met` is what makes
`select` report end of file: a writer has been there since the open. `Interrupted`
is a `SIGCHLD` in a blocking call, or an `exit` that kills a pid which is gone.

### Abstractions

* A command is an operation and a number. Parsing, wording and the parameters
  of a job are left out; a command the server refuses to parse is `malformed`
  and ends the server, as `exit(1)` does.
* `MTServer`: a job's output is one message (its blocks are `JobOutput`'s), a
  write succeeds or finds its descriptor closed. `global_Mtx_Concurrency` is held
  only around single accesses and is not represented. The busy wait of main is a
  guard. Each call of a queue operation is one step: main's unlocked `pop` inside
  a late controller's `push` or `erase` is a data race inside `std::list`, which is
  not modelled; `top` or `pop` of an empty list ends the process.
* `JobOutput`: sizes are small numbers in the proportions of the code; all
  sentences have one size; a `poll` has a fixed number of sentences. An `int` read
  as text has a NUL byte among its high bytes. A client
  leaves only when it fails: a `jobCommander` that its user kills is left out.
* `NPServer`: pids arrive; a command is read in one step. The bit that
  `FD_SET(-1)` of a skipped entry sets is beyond `nfds` and has no effect. `fork`
  succeeds. Pids are not reused. A vector operation interrupted half-way, and
  `malloc` interrupted by the handler, are undefined behaviour that is not
  modelled.
* `NPHandshake`: a command is its number of words, then its words; the answer is
  one message. The queue is reduced to whether a job is queued or started; ends of
  jobs to the interruption they may cause. A server once `fallen` does not restart
  by itself; the file it leaves stays, as it does on disk.

## 3. Runs

`tlc -config <module>_<run>.cfg <module>`, all on two workers; the largest takes
under three minutes.

| Run | Bounds | Question |
| --- | --- | --- |
| `work` | 2 workers, 3 clients, buffer 1; issue, concurrency 1 or 2, poll; spurious wakeups | Do producers, consumers and slots stay within their bounds, lose no job and lose no wakeup? |
| `shutdown` | 1 worker, 4 clients, the fourth for a late stop only, buffer 2; issue, stop, exit, malformed | Do the counters and the accounting of jobs survive every race with `exit` and between the statements of main's drain, does each outcome reach the client that sent the job, has everybody main waited for been told, and is it all an implementation of `JobPool`? |
| `live` | 2 workers, 2 clients, buffer 1; all but poll; fairness | Does a queued job end, does a shutdown past its races end? |
| `output` | blocks of 5, outputs of 0 to 13, NUL bytes nowhere or at places 2 and 9, leftover files of 0, 3, 9, a socket of 6 cells; short reads; a server that ends at any step; fairness | Does the client print the answer, does a process fail only for a cause, do both sides end? |
| `np` | 3 commanders; all commands; fairness | Counter, zombies, list, concurrency at every fork, `JobPool`, every commander answered |
| `handshake` | 2 commanders and the servers they may start; issue, exit, malformed; kills; fairness | Do the two sides meet, and what does an exit leave behind? |
| `room`, `leave`, `order`, `np_exit`, `np_slot`, `knock` | the smallest that show it | Violations, see section 6 |

*Properties of `work` and `shutdown`.* `BufferRespected`: the buffer never
outgrows `argv[2]`. `ConcurrencyRespected`: no more jobs are executed than the
highest concurrency ever set. The *current* concurrency is not a bound in this
code: a worker holds its slot while it waits for a job, and after the
concurrency was lowered such workers still start jobs. `JobsAccounted`: a job
its controller let go of is in exactly one of the queue, a worker, the hands of
main, a client's hands; excepted are the jobs of `astray`, two for every late `stop`
that falls between `top` and `pop` of the drain, and none otherwise. `AllToldAtEnd`:
when the server has returned from main, a job that is still in the queue belongs
to a controller main did not wait for; everybody else has been told.
`NonemptyWakeup`, `NonfullWakeup`, `SlotWakeup`: while nobody exits, a worker
sleeps at the buffer only if every queued job has a worker that is about to look, a
controller only if every free place has a controller that was woken up for it, and
workers sleep at the slots only if one is in use or one of them is awake.
`NonfullWakeup` holds until somebody sends a `stop`, which makes room and signals
nobody (run `room`). None of the three says anything once `exit_server` is set: a
thread that looked at the flag before may sleep through the broadcast (run `leave`).
`CountersExact`: the three counters equal the number of threads they stand for, a
worker that leaves with its slot included. `OutcomeGoesHome`: descriptors are
reused and still no outcome goes to a stranger.

*Properties of `output`.* `PrintsTheAnswer`: whatever the size of the output
relative to the blocks, the j-th `printf` of the client is given the j-th portion
of the answer (the sentence, then blocks of the body) and prints it up to its first
NUL byte, and all portions have been printed when it ends well; excused are an
answer whose two authors overtook one another and the tail of a longer old
`<pid>.output`, which is opened without `O_TRUNC`. What a NUL byte swallows is
therefore exactly the rest of its block, the end marker included if it is there. `FailsForCause`: the client fails only after a short read, an
overtaking, or the end of the server before its answer was sent.
`ServerFallsForCause`: announced count and blocks agree on both sides, so that the
server does not fall without a short read or an overtaking.
`BothEnd`: a write that blocks on a full socket (with `global_Mtx_Queue` locked,
in a `stop`) goes on, and a client that misreads an answer still ends.

*Properties of `np`.* `RunningCovers`: `global_Running` is never below the number
of children (a decrement may be lost, an increment never), also in the middle of
`global_Running++`; the assertion of `exec_jobs` follows. `ZombiesAreReaped`:
signals that coalesce still get every child waited for. `ListedOnce`: no job is
listed twice. `ForksWithinConcurrency`: at each fork fewer children exist than
the concurrency allows, although `exec_jobs` computed the number of forks from
an old value of the counter. `CommandAnswered`: the loop that erases while it
iterates, and skips the entry after an erased one, loses nobody.

*Properties of `handshake`.* `PipesAreThere`: a pid in `server.pipe` or in a
server's hands is that of a commander whose FIFOs exist. `ExitCleansUp`: when
every server that was started has returned from `main`, neither file is left and
the next commander starts a server. `ServerIsReachable`: unless two commanders
raced, there is one server and it reads the file that commanders find; a server
that ends never takes the name from its successor. `CommanderAnswered`: the opens
in which both sides wait for each other never block both; a commander is answered
unless its pid was lost, a process was killed or failed, or a server ended.

*Why the bounds are enough.* MT: with a buffer of one, two producers already
compete for room and a third is needed for a second waiter; two workers compete
for a slot when the concurrency is one and race for a job when it is two; three
clients are enough for a descriptor to be closed and reused while two others are
in their handlers. `shutdown` has a buffer of two so that the order of the line
can be seen, and leaves spurious wakeups to `work`. It takes four clients to send a
job astray: two jobs in the buffer, an exit, and a `stop` whose controller has not
counted itself. The constraint `FourthStops` lets the first three send what they
like and has the fourth for that `stop` alone, after issues and exits only, with
two controllers at a time and a worker that has executed nothing, because jobs that
end before the drain are what three clients show.
`output`: with markers of 2,
a block of 5 and outputs up to 13 the total runs through three blocks and every
remainder, zero included, and the start marker leaves both a full and a partial
first block; with NUL bytes at 2 and 9 the first block ends in one or is cut by
one, a later one is cut before its end, and a shorter output has one or none; a
socket of 6 holds little more than one block, so every later write
blocks. NP: two jobs and a third command make every race between a start, an end
and a handler; three entries in `active_commanders` are what the skipping erase
needs; `np_exit` needs two running jobs, a raised concurrency and an exit, hence
four commanders. `handshake`: two commanders suffice for a pid that arrives at
any point of the other's handshake, for a server and its successor, and for the
race of two servers. No counter needs a bound of its own: a client sends one
command, as `jobCommander` does, so the number of clients bounds jobs, commands
and servers. Symmetry is used in safety runs only.

A constraint on the commands handled at a time only leaves behaviours out. `room`
looks for one behaviour and shows it; what `shutdown` shows of four clients is about
two controllers at a time, and the theorems about its properties have no such bound.

`CHECK_DEADLOCK FALSE` everywhere: the programs do stop, and a client need not
come. That nobody is stuck meanwhile is what the liveness properties say.

## 4. Fairness

`MTServer!Scheduling`: weak fairness of each thread, the kernel's scheduler.
Weak is enough: a client connects once and a handler takes a bounded number of
steps, so nobody can take a mutex again and again. No fairness is given to
`Accept` (nobody has to come) or to spurious wakeups. `JobsEnd`: a job's process
ends, which the server cannot promise; the liveness properties that need it say
so by being checked under `FairSpec`.

`NPServer!Scheduling`: weak fairness of the main thread and of the handler, of
the death of a killed child, and of a commander that was let in (it writes its
command next, nothing in `jobCommander` can keep it from that). A commander need
not knock. `JobsEnd` as above.

`JobOutput!FairSpec`: weak fairness of the controller, of the teller (the job
ends, or main returns) and of the client, three threads of two machines that are
scheduled; a write that waits for room is not enabled, so no fairness helps it.
`ServerExits` has no fairness: nobody has to end the server.

`NPHandshake!FairSpec`: weak fairness of every server, and of every commander
once it has started. Nobody has to start a commander, to kill one, or to end a
job.

## 5. Proofs

All theorems hold for any finite set of clients or commanders, any non-empty
finite set of workers, any buffer size and any menu of commands, with or without
spurious wakeups; those about `JobOutput` for any sizes of blocks, markers,
sentences and outputs, any NUL bytes in them, any room in a socket, with or without
short reads. They
rest on the assumptions of the modules about their
constants and nothing else.

| Module | Theorem | Property |
| --- | --- | --- |
| `MTServer_proofs` | `TypeCorrect`, `BufferSafe`, `CountersCorrect`, `ConcurrencySafe`, `NoJobSleptOver`, `NoRoomSleptOver`, `NoSlotSleptOver` | `TypeOK`, `BufferRespected`, `CountersExact`, `ConcurrencyRespected`, `NonemptyWakeup`, `NonfullWakeup`, `SlotWakeup` |
| `MTJobs_proofs` | `AllAccounted`, `OutcomesGoHome`, `ToldBeforeTheEnd` | `JobsAccounted`, `OutcomeGoesHome`, `AllToldAtEnd` |
| `MTPool_proofs` | `Implements` | `ImplementsPool` |
| `JobOutput_proofs` | `TypeCorrect`, `EveryByteInItsPlace`, `GivesUpForCause`, `DownForCause` | `TypeOK`, `PrintsTheAnswer`, `FailsForCause`, `ServerFallsForCause` |
| `NPServer_proofs` | `TypeCorrect`, `CounterCovers`, `EntriesUnique`, `NoZombieForgotten`, `ForksSafe` | `TypeOK`, `RunningCovers`, `ListedOnce`, `ZombiesAreReaped`, `ForksWithinConcurrency` |
| `NPPool_proofs` | `Implements` | `ImplementsPool` |
| `NPHandshake_proofs` | `TypeCorrect`, `PipesThere`, `CleanExit`, `ServerReachable` | `TypeOK`, `PipesAreThere`, `ExitCleansUp`, `ServerIsReachable` |

*`MTServer_proofs`.* None of the first four is inductive alone. That `global_Running`
stays a natural number needs that the worker that decrements it holds a slot, so
`TypeOK` needs `CountersExact`; that the counters are exact needs that a
thread's step moves exactly that thread in or out of `Holders`, `Counted` or
`Issuers` (lemmas `HoldersMove`, `CountedMove`, `IssuersMove`, on top of
`CountMoves`, which says how the size of a set changes by one member). The job
ids that the queue holds stay in `JobIds` because a controller that is about to
issue is not yet among `Issuers`. That a job a worker executes is a job at all
is `LocalsSet`; that main has a job in its hands between the top and the close is
`HandSet`. `ConcurrencyRespected` follows from `running <= peak` and
`running` being the number of slot holders; `running <= peak` is preserved by
`ReserveSlot` only because the worker that saw a free slot still holds
`mtxRunning` (`SlotsBounded`). Hence

    IInv == TypeOK /\ LocalsSet /\ HandSet /\ CountersExact /\ SlotsBounded
            /\ BufferRespected

`InvInit` and `InvNext` show it inductive, one lemma per conjunct and group of
threads (`WorkerCounts`, `ControllerTypes`, ...); `Invariant` is
`Spec => []IInv`. The lemmas about the queue (`PositionInQueue`, `EraseShortens`
in `JobQueue_proofs`) say that `queue_position` returns a position that is there,
which is what the assertion in `erase` asks of its callers.

*Wakeups, in `MTServer_proofs`.* On top of `IInv`,

    WakeInv == AsleepAtWait /\ StillSo /\ RoomSeen
               /\ NonemptyWakeup /\ SlotWakeup /\ NonfullWakeup

A signal takes a thread out of a wait set; that it thereby gains somebody who is
going to look needs that the members of the set are at the wait (`AsleepAtWait`).
That a thread may go to sleep needs that what it saw has not changed since
(`StillSo`): the buffer is still empty, because the worker has kept
`global_Mtx_Queue`; some slot is still in use, because nobody gives one back
while the worker keeps `global_Mtx_Running`. `setConcurrency`, which takes the
other mutex, is why the second half speaks of a slot in use and not of all slots
in use, and why `SlotWakeup` says no more. `RoomSeen` is the same for the
controllers: a buffer seen full stays full until the controller sleeps, although
main's drain pops without the mutex, because main drains only after an exit; so
each place that a worker frees is matched by a controller it wakes up, and each
that is taken costs at most one of those (`NonfullWakeupNext`).

*`MTJobs_proofs`.*

    JobsInv == OwnJob /\ InBuffer /\ AtWorker /\ AtStop /\ ToldOnce /\ NoneLost
               /\ AtDrain

A job is known by its owner, of which there is one at a time in every place
(`InBuffer`, `AtWorker`, `ToldOnce`), in none before the controller lets go of it
and in at least one from then on (`NoneLost`). What keeps an outcome from going
to a stranger is that a job in the buffer, in a worker or in the hands of a `stop`
is `Released`: its descriptor still belongs to its owner. Whoever ends a job is
the only one to close that descriptor, which needs that nobody else has the same
job; a `stop` that has written and not yet closed (`AtStop`) is alone because it
keeps `global_Mtx_Queue` (`StillSo`); a controller that answers closes the
descriptor of a client without a job (`OwnJob`). `main` drains the queue without
a mutex beside controllers that were never counted; `AtDrain` says what it has in
its hands. Between `top` and `pop` the copied job is the head of the line, or its
client has been told, because only a `stop` can have taken it: the workers have
gone when main is past `join`, and an insertion goes to the other end. After a
`pop` that took what was copied nobody else has that job (`NotStopped`,
`OutOfLine`), so that main's write and close are its only ones; after a `pop` that
took another one both jobs are in `astray`, no longer in the line, and their
descriptors are still their owners' or closed, because main accepts no more. That
is why `OutcomeGoesHome` needs no exception and `JobsAccounted` one.

`ToldBeforeTheEnd` rests on `LateInv`: from the moment main saw the count at 0,
everybody who is neither `late` nor done has not connected; what stands in the line
behind the jobs main still has to drain belongs to late controllers; and main
returns with none left to drain. An accounted job of anybody else has then been
told.

*`MTPool_proofs`.* Under `IInv` and `JobsInv` every step of `MTServer` maps to a
step of `JobPool` or a stutter: `InsertJob` to `Submit` and `Refuse` to
`TurnAway`, whose job the pool does not know yet because its controller has not
let go of it; `TakeJob` to `Start`, because the worker that takes a job holds a
slot and has no job, so that fewer than `running` jobs are in service;
`SendOutput` to `Finish`, because no other worker has that job; `StopQueued` and
`DrainPop` to `Cancel`; `SetConcurrency` to `Allow` when the new value is a
maximum; everything else stutters. A job has ended for the pool when main has
popped it (`AtMain`); `DrainTell` stutters. A late `stop` between `top` and `pop`
is a `Cancel` of the copied job, and the `pop` after it a `Cancel` of the next one,
which stays ended through `astray`; that its client never hears of it is outside
what `JobPool` promises, and said by `JobsAccounted` and `AllToldAtEnd`.

*`NPServer_proofs`.*

    IInv == TypeOK /\ InCommand /\ EachOnce /\ Numbered /\ OnePlace /\ ListedOnce
            /\ SlotsLeft /\ VictimsExist /\ RunningCovers

`TypeOK` bounds job numbers by the number of commanders, which holds because a
commander is served once: `EachOnce` (the open entries of `active_commanders` are
distinct, through the erase that skips) and `InCommand` (which commander is being
served, place by place), whence `Numbered`. `ListedOnce` needs that a job is in
one place only - queue, hands of `exec_jobs`, children - which is `OnePlace`.
`SlotsLeft` bounds what `exec_jobs` still may start: `canRun` and the counter
together stay within the concurrency; with `RunningCovers` this gives
`ForksWithinConcurrency`, although handler and `global_Running++` interleave.
`VictimsExist` says that `handle_exit` indexes only what is, or was, an entry,
although it read the size before the handler erased. `ZombiesAreReaped` is a second, smaller induction.

*`NPPool_proofs`.* Under `IInv` every step of `NPServer` maps to a step of
`JobPool` or a stutter: `IssueJob` to `Submit`, `TakeJob` to `Start`,
`SetConcurrency` to `Allow` when the new value is a maximum, `StopQueued` to
`Cancel`, `Reap` to `Finish`, everything else stutters, the server's fall
included.

*`NPHandshake_proofs`.* The theorems hold for any number of commanders, hence of
servers, racing starts included, and with commanders that are killed anywhere.

    IInv == TypeOK /\ EndsOpen /\ Progress /\ Announced /\ AtMeet /\ Listed
            /\ AtAnswer /\ OneAfterAnother

A pid travels: `server.pipe` (`Announced`), the hands of the server that opens
its FIFO (`AtMeet`), `active_commanders` (`Listed`), the hands of the server that
answers (`AtAnswer`). Each of the four says that the pid is in no second such
place and that its commander is where that place expects it, or was killed;
together they are `InPlace`, which is inductive beside `TypeOK`, `EndsOpen` (who
has which descriptor open) and `Progress` (how far a commander has come). The
FIFOs of a pid in one of these places exist because only a commander at `unlink`
removes its own, and no such place expects it there: that is `PipesThere`, and why
`open_read_end_commander` and `open_write_end_commander` find a file. Most steps
only lose pids or move commanders on (`Quiet`); the six that give a pid to
somebody have a lemma each. `TypeOK` needs `Listed`: nobody is in
`active_commanders` twice.

`OneAfterAnother` is about the two files. Each of them, while it is there, has a
server that has yet to remove it, or one that fell (`CleanExit`). While `raced` is
false there is one server between its start and its end: a commander forks only
when it sees neither the file nor a starting server, and at the end of `main` the
server closes `server.pipe` and unlinks it before it unlinks
`jobExecutorServer.txt`, which lets the next one start. Hence nobody else makes or
unlinks `server.pipe`, and the file a server reads is the one of that name
(`ServerReachable`).

*`JobOutput_proofs`.* The whole answer is one sequence of cells, `Whole`, that
depends only on how the job ends; `Part(j)` is what a client gives to its j-th
`printf`, which is the `Portion(j)` of what was promised unless a longer old file
was left (`BodyIsPromised`). Where the writers stand (`controller`, `told`,
`teller`, `i`) says how many cells of `Whole` are written, where the client stands
(`client`, `sentences`, `k`) how many are read and how often it has printed:
`Written`, `ReadSoFar`, `CallsSoFar`. The invariant is

    IInv    == TypeInv /\ Ordered
    TypeInv == TypeOK /\ Roles /\ Files /\ Reads
    Ordered == ~overtaken => /\ TellerWaited
                             /\ PrintedRight
                             /\ client # "failed" => InStep
                             /\ client = "failed" => short \/ Cut

and its core, `InStep`, says that the stream *is* the part of `Whole` from
`ReadSoFar` to `Written`, and that `printf` was called `CallsSoFar` times;
`PrintedRight` says of each call that it printed its part up to the first NUL.
`PrintsTheAnswer` alone says nothing of cells on their way, `FailsForCause`
nothing of what the next read will meet; with `InStep` each write appends the next
cells of `Whole` (`WriteKeeps`) and each read takes the next ones (`NumberRead`,
`TextRead`), and it remains to show that the code's arithmetic names those cells:
that a line of the controller lies where `LinePlace` says (`LineCells`); that a
buffer filled at an offset behind the start marker, or from the beginning for
later blocks, is the next block of `Body` (`BufferCells`, `BlockSent`); that after
`count / Block` blocks `count % Block` cells are left (`RestSent`). No induction
over the data is needed: the loop is the model's, so the induction is that over
steps, and `Files` is its loop invariant (`offset` is `i` blocks less the start
marker; `count` is what has been read, then `Total`). That the client reads in the
same portions is `NextCells`, and that the text it reads next is the part that its next
`printf` should be given is `Parts`: with `Asked`, each read wants no more than what
one write made, so that a text that is there is there in full, and a number is never
inside a text. That the server outlives the answer follows because nobody closes
before its own end (`Roles`) and the client leaves when nothing more comes. A
server that ends on account of others only stops the writers; the client reads what
is in the stream, and when it meets the end before the end of its answer, `Cut`
says that the rest had not been sent. After a short read `TypeInv` and
`PrintedRight` remain, after an overtaking only `TypeInv`: `TypeCorrect` holds there
too, however badly the client misreads.

TLC checked the conjuncts of `IInv` on the instance of `output` before they were
proved, as it did for the other invariants.

*Model-checked only.* The liveness properties: the prover handles neither fairness
with `ENABLED` nor the well-founded inductions they rest on. Every safety
invariant, action property and refinement that a passing run checks is a theorem.

## 6. Where code and documents disagree

Each is a run that expects a violation, and its counterexample is a behaviour of
the code.

| Run | What happens | Who says otherwise |
| --- | --- | --- |
| `room` | MT: `stop` removes a job from a full buffer and signals nobody; the producer waiting for room sleeps on | `design-assumptions.md:12` |
| `leave` | MT: `exit_server` and its broadcasts take no mutex; a worker between its look at the flag and its wait sleeps for ever, main joins it for ever | `aux_s.cpp:276` |
| `order` | MT: a worker or a `stop` may write to the client before the controller has sent `SUBMITTED`; the client takes a size for the number of sentences | `design-assumptions.md:14`, the repository's `README.md:41` |
| `np_exit` | NP: the list moves under the loop of `handle_exit`; a job survives, or the server dies with jobs running | `design-assumptions.md:31` |
| `np_slot` | NP: a `SIGCHLD` taken outside `select` starts no job; the slot stays free until the next command | `jobExecutorServer.cpp:92` |
| `knock` | NP: a pid written between the end of file and the close of `server.pipe` is lost, and its commander waits for ever | `design-assumptions.md:23` |

Also met, without a run of its own:

* MT: `SIGUSR1` between two `accept`s is lost and the server goes on after an
  `exit` (`design-assumptions.md:37`).
* MT: a late controller's `stop` between `top` and `pop` of main's drain makes main
  pop a job that is never told and tell the stopped one a second time
  (`jobExecutorServer.cpp:157`; run `shutdown` contains it, `astray` names the jobs).
* MT: a controller that looked at `exit_server` at a full buffer before the flag was
  set sleeps on after the broadcast, like the worker of `leave`; once the workers
  have left nobody takes a job, and main spins on it for ever (`aux_s.cpp:107`,
  against `aux_s.cpp:276`). It is why `NonfullWakeup` ends with an exit.
* MT: a controller counts itself; main may see a count of 0 before that, drain and
  return, and the client of that controller is never answered, where
  `design-assumptions.md:37` has main wait for all controllers. These are the
  controllers that `AllToldAtEnd` excepts as `late`.
* MT: the client prints blocks with `%s` (`jobCommander.cpp:100`); a NUL byte in the
  last block hides the end marker, where the repository's `README.md:41` has the
  output wrapped in markers. `PrintsTheAnswer` says what is printed.
* MT: the broadcast of `setConcurrency` can be missed in the same way as the one
  of `exit`.
* NP: a decrement inside `global_Running++` is lost, and with it a slot for the
  rest of the server's life (`jobExecutorServer.cpp:16`); an entry of
  `global_Running_Jobs` whose child ended before it was inserted stays for ever.
* NP: after the first end of file `server.pipe` is open with `O_NONBLOCK`, where
  `design-assumptions.md:29` says blocking: when another commander has the file
  open, the read after the last pid is `EAGAIN` and ends the server.
* NP: a server that falls leaves both files; no commander starts a server any
  more. A commander that arrives during an `exit` may open the old `server.pipe`
  and wait there, while the name is gone.
* NP: `access` and `fork` are two steps: two commanders may start two servers,
  and the first to exit unlinks the files of the other.
* NP: a commander that is killed between the number of words and the words, or
  that sends an empty word, makes the server read nothing for ever (`aux.cpp:284`).
* MT: `<pid>.output` is opened without `O_TRUNC`; the tail of a longer old file is
  sent as output.

## 7. Faulty definitions

A definition whose name begins with `Faulty` is a plausible bug of the definition
that follows it: a dropped guard, an off-by-one, a missed signal. No
specification uses it; putting it in the place of the definition breaks a
property, which shows that the property says something about that code.

## 8. Plan

Done, in this order: `JobQueue`, `MTServer` with `JobPool` and its proofs,
`NPServer`, `JobOutput`, `NPHandshake`, the proofs about `NPServer` and its
refinement, the proofs about wakeups, about the accounting of jobs and about the
refinement of `JobPool` by `MTServer`, the proofs about `NPHandshake`, the proofs
about `JobOutput`.

What is left: clients of the multithreaded server that their user kills, that is,
`SIGPIPE` in a server that serves others.

## Not modelled

Formatting and parsing of commands and answers, set-up of sockets and signal
masks, the memory of the containers under a signal (undefined behaviour inside the
library), `print_queue`, `aux_c.cpp` (NP, never called), the scripts, the test
programs, the build files. They change nothing the processes share, or are the
environment.
