------------------------------ MODULE MTServer ------------------------------
(***************************************************************************)
(* The multithreaded job server: one main thread that accepts clients, one *)
(* controller thread per client, a fixed pool of worker threads.           *)
(*                                                                         *)
(* A step is the longest piece of a thread's code that touches shared      *)
(* state in one place: a critical section that does not wait is one step;  *)
(* where a section hands its mutex to pthread_cond_wait, or writes to a    *)
(* socket with the mutex held and then goes on, the mutex has an owner     *)
(* between the steps.  A thread asleep on a condition variable is a member *)
(* of that variable's wait set; a signal takes one member out, a broadcast *)
(* all of them, and a thread that was taken out goes on when it finds the  *)
(* mutex free.                                                             *)
(*                                                                         *)
(* The controller of a client is named by the client.  A client sends one  *)
(* command, as jobCommander does.                                          *)
(***************************************************************************)
EXTENDS JobQueue, FiniteSets

CONSTANTS
    Workers,            \* the threads of the pool
    Clients,            \* the commanders that may connect
    Commands,           \* the commands they may send: records [op, arg]
    BufferSize,         \* argv[2]
    NoThread,           \* "nobody": a free mutex, a closed descriptor
    NoJob,              \* a thread that handles no job
    SpuriousWakeups     \* may pthread_cond_wait return unasked?

Ops == {"issueJob", "setConcurrency", "stop", "poll", "exit", "malformed"}

ASSUME WorkersAssumption  == IsFiniteSet(Workers) /\ Workers # {}
ASSUME ClientsAssumption  == IsFiniteSet(Clients)
ASSUME ThreadsAssumption  == /\ Workers \cap Clients = {}
                             /\ NoThread \notin Workers \cup Clients
\* handle_command refuses setConcurrency below 1.
ASSUME CommandsAssumption ==
    /\ Commands \subseteq [op : Ops, arg : Nat]
    /\ \A cmd \in Commands : cmd.op = "setConcurrency" => cmd.arg > 0
ASSUME BufferAssumption   == BufferSize \in Nat \ {0}
ASSUME SpuriousAssumption == SpuriousWakeups \in BOOLEAN

Threads == Workers \cup Clients

(* Descriptors that accept hands out: the lowest free one, so a closed      *)
(* descriptor is given to the next client.  A client holds at most one.     *)
FDs == 1 .. Cardinality(Clients)

JobIds == 1 .. Cardinality(Clients)
Job    == [id : JobIds, sock : FDs, owner : Clients]   \* owner is history

Outcomes == {"OUTPUT", "REMOVED", "NOT INSERTED", "NOT EXECUTED"}
Message  == [kind : Outcomes \cup {"SUBMITTED", "REPLY"},
             job  : Job \cup {NoJob}]

NoCommand == [op |-> "none", arg |-> 0]                \* nothing sent yet

VARIABLES
    queue,              \* global_Queue
    concurrency,        \* global_Concurrency
    running,            \* global_Running
    exitServer,         \* exit_server
    jobID,              \* global_JobID
    controllerCount,    \* global_ControllerCount
    mtxQueue,           \* owner of global_Mtx_Queue
    mtxRunning,         \* owner of global_Mtx_Running
    nonempty,           \* threads asleep on global_Cond_nonempty
    nonfull,            \* threads asleep on global_Cond_nonfull
    nonfullRunning,     \* threads asleep on global_Cond_nonfull_Running
    wpc,                \* where each worker is
    wjob,               \* the job each worker carries
    cpc,                \* where each client's controller is
    command,            \* the command each client sent
    cjob,               \* the job each controller handles
    sock,               \* newsock: the descriptor of each controller
    fdTable,            \* which client each descriptor is connected to
    stream,             \* what each client was sent, in order
    mpc,                \* where the main thread is
    left,               \* how many jobs the drain loop of main has to go
    mjob,               \* the job the drain loop has copied
    server,             \* "up"; "failed" after exit(1); "ended" after main
    peak,               \* history: the highest concurrency ever set
    late,               \* history: controllers not counted when main saw none
    astray              \* history: jobs a stop made main's drain confuse

shared      == <<queue, concurrency, running, exitServer, jobID,
                 controllerCount>>
locks       == <<mtxQueue, mtxRunning>>
waits       == <<nonempty, nonfull, nonfullRunning>>
workers     == <<wpc, wjob>>
controllers == <<cpc, command, cjob, sock>>
network     == <<fdTable, stream>>
main        == <<mpc, left, mjob>>
history     == <<peak, late, astray>>
vars        == <<shared, locks, waits, workers, controllers, network, main,
                 server, history>>

-----------------------------------------------------------------------------
Init ==
    /\ queue = <<>>
    /\ concurrency = 1
    /\ running = 0
    /\ exitServer = FALSE
    /\ jobID = 0
    /\ controllerCount = 0
    /\ mtxQueue = NoThread
    /\ mtxRunning = NoThread
    /\ nonempty = {} /\ nonfull = {} /\ nonfullRunning = {}
    /\ wpc = [w \in Workers |-> "top"]
    /\ wjob = [w \in Workers |-> NoJob]
    /\ cpc = [c \in Clients |-> "away"]
    /\ command = [c \in Clients |-> NoCommand]
    /\ cjob = [c \in Clients |-> NoJob]
    /\ sock = [c \in Clients |-> 0]
    /\ fdTable = [fd \in FDs |-> NoThread]
    /\ stream = [c \in Clients |-> <<>>]
    /\ mpc = "loop"
    /\ left = 0
    /\ mjob = NoJob
    /\ server = "up"
    /\ peak = 1
    /\ late = {}
    /\ astray = {}

-----------------------------------------------------------------------------
(* Helpers *)

\* A name that begins with Faulty is a bug the properties must be able to see.
FaultyFull == Len(queue) > BufferSize

Full  == Len(queue) = BufferSize
Empty == Len(queue) = 0

FaultySlotsFull == running > concurrency

SlotsFull == running >= concurrency

(* The wait sets a signal or a broadcast on a condition variable may leave. *)
Signal(waiters)    == IF waiters = {} THEN {{}}
                      ELSE {waiters \ {t} : t \in waiters}
Broadcast(waiters) == {}

(* write_..._to_socket: on a closed descriptor write fails and the server   *)
(* exits; on a reused one the message goes to whoever is connected there.   *)
Write(fd, kind, job) ==
    IF fdTable[fd] = NoThread
    THEN server' = "failed" /\ UNCHANGED stream
    ELSE /\ stream' = [stream EXCEPT ![fdTable[fd]] =
                            Append(@, [kind |-> kind, job |-> job])]
         /\ UNCHANGED server

CloseFD(fd) == fdTable' = [fdTable EXCEPT ![fd] = NoThread]

GoW(w, to) == wpc' = [wpc EXCEPT ![w] = to]
GoC(c, to) == cpc' = [cpc EXCEPT ![c] = to]

-----------------------------------------------------------------------------
(* Worker threads: worker_f *)

FaultyWorkerTop(w) ==
    /\ wpc[w] = "top"
    /\ GoW(w, "slot")
    /\ UNCHANGED <<shared, locks, waits, wjob, controllers, network, main,
                   server, history>>

WorkerTop(w) ==
    /\ wpc[w] = "top"
    /\ GoW(w, IF exitServer THEN "gone" ELSE "slot")
    /\ UNCHANGED <<shared, locks, waits, wjob, controllers, network, main,
                   server, history>>

(* Takes global_Mtx_Running and, for a moment, global_Mtx_Concurrency; a     *)
(* worker woken up on the condition variable looks at exit_server first.     *)
CheckSlot(w) ==
    /\ wpc[w] = "slot" \/ (wpc[w] = "slotwait" /\ w \notin nonfullRunning
                                               /\ ~exitServer)
    /\ mtxRunning = NoThread
    /\ mtxRunning' = w
    /\ GoW(w, IF SlotsFull THEN "slotfull" ELSE "reserve")
    /\ UNCHANGED <<shared, mtxQueue, waits, wjob, controllers, network, main,
                   server, history>>

SleepForSlot(w) ==
    /\ wpc[w] = "slotfull"
    /\ mtxRunning' = NoThread
    /\ nonfullRunning' = nonfullRunning \cup {w}
    /\ GoW(w, "slotwait")
    /\ UNCHANGED <<shared, mtxQueue, nonempty, nonfull, wjob, controllers,
                   network, main, server, history>>

LeaveSlotWait(w) ==
    /\ wpc[w] = "slotwait" /\ w \notin nonfullRunning
    /\ mtxRunning = NoThread
    /\ exitServer
    /\ GoW(w, "gone")
    /\ UNCHANGED <<shared, locks, waits, wjob, controllers, network, main,
                   server, history>>

ReserveSlot(w) ==
    /\ wpc[w] = "reserve"
    /\ running' = running + 1
    /\ mtxRunning' = NoThread
    /\ GoW(w, "take")
    /\ UNCHANGED <<queue, concurrency, exitServer, jobID, controllerCount,
                   mtxQueue, waits, wjob, controllers, network, main, server,
                   history>>

AtBuffer(w) == wpc[w] = "take" \/ (wpc[w] = "takewait" /\ w \notin nonempty
                                                       /\ ~exitServer)

FaultyTakeJob(w) ==
    /\ AtBuffer(w) /\ mtxQueue = NoThread
    /\ ~Empty
    /\ wjob' = [wjob EXCEPT ![w] = Top(queue)]
    /\ queue' = Pop(queue)
    /\ nonempty' \in Signal(nonempty)
    /\ GoW(w, "run")
    /\ UNCHANGED <<concurrency, running, exitServer, jobID, controllerCount,
                   locks, nonfull, nonfullRunning, controllers, network,
                   main, server, history>>

TakeJob(w) ==
    /\ AtBuffer(w) /\ mtxQueue = NoThread
    /\ ~Empty
    /\ wjob' = [wjob EXCEPT ![w] = Top(queue)]
    /\ queue' = Pop(queue)
    /\ nonfull' \in Signal(nonfull)
    /\ GoW(w, "run")
    /\ UNCHANGED <<concurrency, running, exitServer, jobID, controllerCount,
                   locks, nonempty, nonfullRunning, controllers, network,
                   main, server, history>>

FindEmpty(w) ==
    /\ AtBuffer(w) /\ mtxQueue = NoThread
    /\ Empty
    /\ mtxQueue' = w
    /\ GoW(w, "empty")
    /\ UNCHANGED <<shared, mtxRunning, waits, wjob, controllers, network,
                   main, server, history>>

SleepForJob(w) ==
    /\ wpc[w] = "empty"
    /\ mtxQueue' = NoThread
    /\ nonempty' = nonempty \cup {w}
    /\ GoW(w, "takewait")
    /\ UNCHANGED <<shared, mtxRunning, nonfull, nonfullRunning, wjob,
                   controllers, network, main, server, history>>

(* The slot the worker reserved is not given back. *)
LeaveTakeWait(w) ==
    /\ wpc[w] = "takewait" /\ w \notin nonempty
    /\ mtxQueue = NoThread
    /\ exitServer
    /\ GoW(w, "goneholding")
    /\ UNCHANGED <<shared, locks, waits, wjob, controllers, network, main,
                   server, history>>

(* fork, exec in the child, waitpid: the job's process has ended. *)
ChildExit(w) ==
    /\ server = "up" /\ wpc[w] = "run"
    /\ GoW(w, "send")
    /\ UNCHANGED <<shared, locks, waits, wjob, controllers, network, main,
                   server, history>>

SendOutput(w) ==
    /\ wpc[w] = "send"
    /\ Write(wjob[w].sock, "OUTPUT", wjob[w])
    /\ GoW(w, "close")
    /\ UNCHANGED <<shared, locks, waits, wjob, controllers, fdTable, main,
                   history>>

CloseClient(w) ==
    /\ wpc[w] = "close"
    /\ CloseFD(wjob[w].sock)
    /\ wjob' = [wjob EXCEPT ![w] = NoJob]
    /\ GoW(w, "release")
    /\ UNCHANGED <<shared, locks, waits, controllers, stream, main, server,
                   history>>

FaultyReleaseSlot(w) ==
    /\ wpc[w] = "release"
    /\ mtxRunning = NoThread
    /\ running' = running - 1
    /\ GoW(w, "top")
    /\ UNCHANGED <<queue, concurrency, exitServer, jobID, controllerCount,
                   locks, waits, wjob, controllers, network, main,
                   server, history>>

ReleaseSlot(w) ==
    /\ wpc[w] = "release"
    /\ mtxRunning = NoThread
    /\ running' = running - 1
    /\ nonfullRunning' \in Signal(nonfullRunning)
    /\ GoW(w, "top")
    /\ UNCHANGED <<queue, concurrency, exitServer, jobID, controllerCount,
                   locks, nonempty, nonfull, wjob, controllers, network, main,
                   server, history>>

WorkerStep(w) ==
    /\ server = "up"
    /\ \/ WorkerTop(w) \/ CheckSlot(w) \/ SleepForSlot(w) \/ LeaveSlotWait(w)
       \/ ReserveSlot(w) \/ TakeJob(w) \/ FindEmpty(w) \/ SleepForJob(w)
       \/ LeaveTakeWait(w)
       \/ SendOutput(w) \/ CloseClient(w) \/ ReleaseSlot(w)

-----------------------------------------------------------------------------
(* Controller threads: controller_f *)

FaultyCountController(c) ==
    /\ cpc[c] = "new"
    /\ GoC(c, command[c].op)
    /\ UNCHANGED <<shared, locks, waits, workers, command, cjob, sock,
                   network, main, server, history>>

(* The first step of the thread counts it; the command is read and decides  *)
(* which handler runs.                                                      *)
CountController(c) ==
    /\ cpc[c] = "new"
    /\ controllerCount' = controllerCount + 1
    /\ GoC(c, command[c].op)
    /\ UNCHANGED <<queue, concurrency, running, exitServer, jobID, locks,
                   waits, workers, command, cjob, sock, network, main, server,
                   history>>

(* handle_command calls exit(1) on a command it does not know. *)
Malformed(c) ==
    /\ cpc[c] = "malformed"
    /\ server' = "failed"
    /\ UNCHANGED <<shared, locks, waits, workers, controllers, network, main,
                   history>>

NewJob(c) ==
    /\ cpc[c] = "issueJob"
    /\ jobID' = jobID + 1
    /\ cjob' = [cjob EXCEPT ![c] = [id |-> jobID', sock |-> sock[c],
                                    owner |-> c]]
    /\ GoC(c, "insert")
    /\ UNCHANGED <<queue, concurrency, running, exitServer, controllerCount,
                   locks, waits, workers, command, sock, network, main,
                   server, history>>

AtFullBuffer(c) == cpc[c] = "insert" \/ (cpc[c] = "insertwait"
                                          /\ c \notin nonfull)

FaultyInsertJob(c) ==
    /\ AtFullBuffer(c) /\ mtxQueue = NoThread
    /\ ~Full
    /\ queue' = Push(queue, cjob[c])
    /\ nonfull' \in Signal(nonfull)
    /\ GoC(c, "inserted")
    /\ UNCHANGED <<concurrency, running, exitServer, jobID, controllerCount,
                   locks, nonempty, nonfullRunning, workers, command, cjob,
                   sock, network, main, server, history>>

InsertJob(c) ==
    /\ AtFullBuffer(c) /\ mtxQueue = NoThread
    /\ ~Full
    /\ queue' = Push(queue, cjob[c])
    /\ nonempty' \in Signal(nonempty)
    /\ GoC(c, "inserted")
    /\ UNCHANGED <<concurrency, running, exitServer, jobID, controllerCount,
                   locks, nonfull, nonfullRunning, workers, command, cjob,
                   sock, network, main, server, history>>

FindFull(c) ==
    /\ AtFullBuffer(c) /\ mtxQueue = NoThread
    /\ Full /\ ~exitServer
    /\ mtxQueue' = c
    /\ GoC(c, "full")
    /\ UNCHANGED <<shared, mtxRunning, waits, workers, command, cjob, sock,
                   network, main, server, history>>

SleepForRoom(c) ==
    /\ cpc[c] = "full"
    /\ mtxQueue' = NoThread
    /\ nonfull' = nonfull \cup {c}
    /\ GoC(c, "insertwait")
    /\ UNCHANGED <<shared, mtxRunning, nonempty, nonfullRunning, workers,
                   command, cjob, sock, network, main, server, history>>

GiveUpInsert(c) ==
    /\ AtFullBuffer(c) /\ mtxQueue = NoThread
    /\ Full /\ exitServer
    /\ GoC(c, "refuse")
    /\ UNCHANGED <<shared, locks, waits, workers, command, cjob, sock,
                   network, main, server, history>>

(* Writes to the socket of its own client and closes it. *)
Answer(c, kind, job, to) ==
    /\ Write(sock[c], kind, job)
    /\ CloseFD(sock[c])
    /\ GoC(c, to)
    /\ UNCHANGED <<shared, locks, waits, workers, command, cjob, sock, main,
                   history>>

Refuse(c) ==
    /\ cpc[c] = "refuse"
    /\ Answer(c, "NOT INSERTED", cjob[c], "detach")

FaultyReportSubmitted(c) ==
    cpc[c] = "inserted" /\ Answer(c, "SUBMITTED", cjob[c], "detach")

(* With the queue unlocked: the job may be anywhere by now. *)
ReportSubmitted(c) ==
    /\ cpc[c] = "inserted"
    /\ Write(sock[c], "SUBMITTED", cjob[c])
    /\ GoC(c, "detach")
    /\ UNCHANGED <<shared, locks, waits, workers, command, cjob, sock,
                   fdTable, main, history>>

(* The broadcast is made without global_Mtx_Running. *)
SetConcurrency(c) ==
    /\ cpc[c] = "setConcurrency"
    /\ concurrency' = command[c].arg
    /\ peak' = IF concurrency' > peak THEN concurrency' ELSE peak
    /\ nonfullRunning' = Broadcast(nonfullRunning)
    /\ GoC(c, "reply")
    /\ UNCHANGED <<queue, running, exitServer, jobID, controllerCount, locks,
                   nonempty, nonfull, workers, command, cjob, sock, network,
                   main, server, late, astray>>

(* Removes the job and tells its client; global_Mtx_Queue stays locked      *)
(* until its socket is closed.  Nobody waiting for room is signalled.       *)
StopQueued(c) ==
    LET pos == QueuePosition(queue, command[c].arg) IN
    /\ cpc[c] = "stop" /\ mtxQueue = NoThread
    /\ pos # -1
    /\ mtxQueue' = c
    /\ cjob' = [cjob EXCEPT ![c] = queue[pos]]
    /\ queue' = Erase(queue, pos)
    /\ Write(queue[pos].sock, "REMOVED", queue[pos])
    /\ GoC(c, "stopped")
    /\ UNCHANGED <<concurrency, running, exitServer, jobID, controllerCount,
                   mtxRunning, waits, workers, command, sock, fdTable, main,
                   history>>

StopClose(c) ==
    /\ cpc[c] = "stopped"
    /\ CloseFD(cjob[c].sock)
    /\ mtxQueue' = NoThread
    /\ cjob' = [cjob EXCEPT ![c] = NoJob]
    /\ GoC(c, "reply")
    /\ UNCHANGED <<shared, mtxRunning, waits, workers, command, sock, stream,
                   main, server, history>>

StopNotFound(c) ==
    /\ cpc[c] = "stop" /\ mtxQueue = NoThread
    /\ QueuePosition(queue, command[c].arg) = -1
    /\ GoC(c, "reply")
    /\ UNCHANGED <<shared, locks, waits, workers, command, cjob, sock,
                   network, main, server, history>>

Reply(c) ==
    /\ cpc[c] = "reply"
    /\ Answer(c, "REPLY", NoJob, "detach")

Poll(c) ==
    /\ cpc[c] = "poll" /\ mtxQueue = NoThread
    /\ Answer(c, "REPLY", NoJob, "detach")

(* handle_exit: no mutex is taken for the flag or for the broadcasts. *)
SetExit(c) ==
    /\ cpc[c] = "exit"
    /\ exitServer' = TRUE
    /\ GoC(c, "wakeRunning")
    /\ UNCHANGED <<queue, concurrency, running, jobID, controllerCount, locks,
                   waits, workers, command, cjob, sock, network, main, server,
                   history>>

WakeRunning(c) ==
    /\ cpc[c] = "wakeRunning"
    /\ nonfullRunning' = Broadcast(nonfullRunning)
    /\ GoC(c, "wakeNonempty")
    /\ UNCHANGED <<shared, locks, nonempty, nonfull, workers, command, cjob,
                   sock, network, main, server, history>>

WakeNonempty(c) ==
    /\ cpc[c] = "wakeNonempty"
    /\ nonempty' = Broadcast(nonempty)
    /\ GoC(c, "wakeNonfull")
    /\ UNCHANGED <<shared, locks, nonfull, nonfullRunning, workers, command,
                   cjob, sock, network, main, server, history>>

WakeNonfull(c) ==
    /\ cpc[c] = "wakeNonfull"
    /\ nonfull' = Broadcast(nonfull)
    /\ GoC(c, "exitreply")
    /\ UNCHANGED <<shared, locks, nonempty, nonfullRunning, workers, command,
                   cjob, sock, network, main, server, history>>

ExitReply(c) ==
    /\ cpc[c] = "exitreply"
    /\ Answer(c, "REPLY", NoJob, "kill")

(* SIGUSR1 ends accept with EINTR; anywhere else in main it has no effect. *)
KillMain(c) ==
    /\ cpc[c] = "kill"
    /\ mpc' = IF mpc = "accept" THEN "join" ELSE mpc
    /\ GoC(c, "detach")
    /\ UNCHANGED <<shared, locks, waits, workers, command, cjob, sock,
                   network, left, mjob,
                   server, history>>

Detach(c) ==
    /\ cpc[c] = "detach"
    /\ controllerCount' = controllerCount - 1
    /\ GoC(c, "done")
    /\ UNCHANGED <<queue, concurrency, running, exitServer, jobID, locks,
                   waits, workers, command, cjob, sock, network, main, server,
                   history>>

ControllerStep(c) ==
    /\ server = "up"
    /\ \/ CountController(c) \/ Malformed(c) \/ NewJob(c) \/ InsertJob(c)
       \/ FindFull(c) \/ SleepForRoom(c) \/ GiveUpInsert(c) \/ Refuse(c)
       \/ ReportSubmitted(c) \/ SetConcurrency(c) \/ StopQueued(c)
       \/ StopClose(c) \/ StopNotFound(c) \/ Reply(c) \/ Poll(c) \/ SetExit(c)
       \/ WakeRunning(c) \/ WakeNonempty(c) \/ WakeNonfull(c) \/ ExitReply(c)
       \/ KillMain(c) \/ Detach(c)

-----------------------------------------------------------------------------
(* The main thread *)

(* From pthread_create back into accept. *)
EnterAccept ==
    /\ mpc = "loop"
    /\ mpc' = "accept"
    /\ UNCHANGED <<shared, locks, waits, workers, controllers, network, left,
                   mjob, server, history>>

(* accept, then pthread_create of the controller. *)
Accept(c, cmd, fd) ==
    /\ server = "up" /\ mpc = "accept" /\ cpc[c] = "away"
    /\ fdTable[fd] = NoThread
    /\ \A lower \in 1 .. (fd - 1) : fdTable[lower] # NoThread
    /\ fdTable' = [fdTable EXCEPT ![fd] = c]
    /\ sock' = [sock EXCEPT ![c] = fd]
    /\ command' = [command EXCEPT ![c] = cmd]
    /\ GoC(c, "new")
    /\ mpc' = "loop"
    /\ UNCHANGED <<shared, locks, waits, workers, cjob, stream, left, mjob,
                   server, history>>

JoinWorkers ==
    /\ mpc = "join"
    /\ \A w \in Workers : wpc[w] \in {"gone", "goneholding"}
    /\ mpc' = "spin"
    /\ UNCHANGED <<shared, locks, waits, workers, controllers, network, left,
                   mjob, server, history>>

\* A name that begins with Faulty is a bug the properties must be able to see.
FaultySpinOnControllers ==
    /\ mpc = "spin"
    /\ late' = {c \in Clients : cpc[c] = "new"}
    /\ mpc' = "size"
    /\ UNCHANGED <<shared, locks, waits, workers, controllers, network, left,
                   mjob, server, peak, astray>>

(* while(global_ControllerCount != 0);  A controller that has not counted   *)
(* itself yet is not waited for.                                            *)
SpinOnControllers ==
    /\ mpc = "spin"
    /\ controllerCount = 0
    /\ late' = {c \in Clients : cpc[c] = "new"}
    /\ mpc' = "size"
    /\ UNCHANGED <<shared, locks, waits, workers, controllers, network, left,
                   mjob, server, peak, astray>>

(* The drain takes no mutex, from here on: late controllers may be at the   *)
(* queue between any two of its statements.                                 *)
QueueSize ==
    /\ mpc = "size"
    /\ left' = Len(queue)
    /\ mpc' = "drain"
    /\ UNCHANGED <<shared, locks, waits, workers, controllers, network, mjob,
                   server, history>>

DrainTop ==
    /\ mpc = "drain" /\ left > 0
    /\ ~Empty
    /\ mjob' = Top(queue)
    /\ mpc' = "pop"
    /\ UNCHANGED <<shared, locks, waits, workers, controllers, network, left,
                   server, history>>

FaultyDrainPop ==
    /\ mpc = "pop"
    /\ ~Empty
    /\ mpc' = "tell"
    /\ UNCHANGED <<shared, locks, waits, workers, controllers, network, left,
                   mjob, server, history>>

(* What is popped is what was copied, unless a stop has taken that job in   *)
(* between: then it is told twice and the next one in line is lost.         *)
DrainPop ==
    /\ mpc = "pop"
    /\ ~Empty
    /\ queue' = Pop(queue)
    /\ astray' = IF Top(queue) = mjob THEN astray
                 ELSE astray \cup {mjob, Top(queue)}
    /\ mpc' = "tell"
    /\ UNCHANGED <<concurrency, running, exitServer, jobID, controllerCount,
                   locks, waits, workers, controllers, network, left, mjob,
                   server, peak, late>>

DrainTell ==
    /\ mpc = "tell"
    /\ Write(mjob.sock, "NOT EXECUTED", mjob)
    /\ mpc' = "hangup"
    /\ UNCHANGED <<shared, locks, waits, workers, controllers, fdTable, left,
                   mjob, history>>

DrainClose ==
    /\ mpc = "hangup"
    /\ CloseFD(mjob.sock)
    /\ left' = left - 1
    /\ mjob' = NoJob
    /\ mpc' = "drain"
    /\ UNCHANGED <<shared, locks, waits, workers, controllers, stream, server,
                   history>>

(* The top of an empty list is no job, its removal no entry: every outcome  *)
(* of either in the library that the Makefile links ends the process.       *)
DrainEmptyQueue ==
    /\ (mpc = "drain" /\ left > 0) \/ mpc = "pop"
    /\ Empty
    /\ server' = "failed"
    /\ UNCHANGED <<shared, locks, waits, workers, controllers, network, main,
                   history>>

(* pthread_mutex_destroy fails on a locked mutex and main exits. *)
ReturnFromMain ==
    /\ mpc = "drain" /\ left = 0
    /\ server' = IF mtxQueue = NoThread /\ mtxRunning = NoThread
                 THEN "ended" ELSE "failed"
    /\ UNCHANGED <<shared, locks, waits, workers, controllers, network, main,
                   history>>

MainStep ==
    /\ server = "up"
    /\ \/ EnterAccept \/ JoinWorkers \/ SpinOnControllers \/ QueueSize
       \/ DrainTop \/ DrainPop \/ DrainTell \/ DrainClose
       \/ DrainEmptyQueue \/ ReturnFromMain

(* POSIX lets pthread_cond_wait return without a signal. *)
SpuriousWakeup(t) ==
    /\ SpuriousWakeups /\ server = "up"
    /\ t \in nonempty \cup nonfull \cup nonfullRunning
    /\ nonempty' = nonempty \ {t}
    /\ nonfull' = nonfull \ {t}
    /\ nonfullRunning' = nonfullRunning \ {t}
    /\ UNCHANGED <<shared, locks, workers, controllers, network, main,
                   server, history>>

Next ==
    \/ \E w \in Workers : WorkerStep(w) \/ ChildExit(w)
    \/ \E c \in Clients : ControllerStep(c)
    \/ \E c \in Clients, cmd \in Commands, fd \in FDs : Accept(c, cmd, fd)
    \/ MainStep
    \/ \E t \in Threads : SpuriousWakeup(t)

Spec == Init /\ [][Next]_vars

(* The kernel runs every thread that can run.  Each handler ends after a    *)
(* bounded number of steps and a client connects once, so every behaviour   *)
(* without spurious wakeups is finite but for stuttering: weak fairness of  *)
(* a thread is all that a mutex or a condition variable asks for.  No       *)
(* client has to connect.                                                   *)
Scheduling == /\ \A w \in Workers : WF_vars(WorkerStep(w))
              /\ \A c \in Clients : WF_vars(ControllerStep(c))
              /\ WF_vars(MainStep)

(* A job's process ends sooner or later. *)
JobsEnd == \A w \in Workers : WF_vars(ChildExit(w))

SchedSpec == Spec /\ Scheduling
FairSpec  == Spec /\ Scheduling /\ JobsEnd

-----------------------------------------------------------------------------
(* Properties *)

WorkerPCs == {"top", "slot", "slotfull", "slotwait", "reserve", "take",
              "empty", "takewait", "run", "send", "close", "release", "gone",
              "goneholding"}
ControllerPCs == Ops \cup
             {"away", "new", "insert", "full", "insertwait", "inserted",
              "refuse", "stopped", "reply", "wakeRunning", "wakeNonempty",
              "wakeNonfull", "exitreply", "kill", "detach", "done"}

(* Main after the last worker has gone. *)
LeavingPCs == {"spin", "size", "drain", "pop", "tell", "hangup"}

(* Every variable has its type. *)
TypeOK ==
    /\ queue \in Seq(Job)
    /\ concurrency \in Nat \ {0} /\ peak \in Nat \ {0}
    /\ running \in 0 .. Cardinality(Workers)
    /\ exitServer \in BOOLEAN
    /\ jobID \in JobIds \cup {0}
    /\ controllerCount \in 0 .. Cardinality(Clients)
    /\ mtxQueue \in Threads \cup {NoThread}
    /\ mtxRunning \in Workers \cup {NoThread}
    /\ nonempty \subseteq Workers
    /\ nonfull \subseteq Clients
    /\ nonfullRunning \subseteq Workers
    /\ wpc \in [Workers -> WorkerPCs]
    /\ wjob \in [Workers -> Job \cup {NoJob}]
    /\ cpc \in [Clients -> ControllerPCs]
    /\ command \in [Clients -> Commands \cup {NoCommand}]
    /\ cjob \in [Clients -> Job \cup {NoJob}]
    /\ sock \in [Clients -> FDs \cup {0}]
    /\ fdTable \in [FDs -> Clients \cup {NoThread}]
    /\ stream \in [Clients -> Seq(Message)]
    /\ mpc \in {"loop", "accept", "join"} \cup LeavingPCs
    /\ left \in Nat
    /\ mjob \in Job \cup {NoJob}
    /\ server \in {"up", "failed", "ended"}
    /\ late \subseteq Clients
    /\ astray \subseteq Job

Executing == {w \in Workers : wpc[w] \in {"run", "send"}}

(* handle_issueJob never lets the buffer grow past its size, although room  *)
(* seen by one producer may be taken by another before it wakes up.         *)
BufferRespected == Len(queue) <= BufferSize

(* Never are more jobs executed at once than the highest concurrency anyone *)
(* ever set: global_Running counts slots, not jobs, and slots are reserved  *)
(* long before a job is taken.  (Not the current concurrency: after it was  *)
(* lowered, workers that hold slots at an empty buffer still start jobs.)   *)
ConcurrencyRespected == Cardinality(Executing) <= peak

Deliveries == UNION {{<<c, i>> : i \in {i \in DOMAIN stream[c] :
                                    stream[c][i].kind \in Outcomes}} :
                     c \in Clients}

AtMain == IF mpc = "tell" THEN {mjob} ELSE {}

(* The places a job is in: the buffer, a worker, the hands of main, which   *)
(* has popped it and tells its client next, or a client that was told how   *)
(* it ended.                                                                *)
Places(job) ==
    Cardinality({i \in DOMAIN queue : queue[i] = job})
  + Cardinality({w \in Executing : wjob[w] = job})
  + Cardinality(AtMain \cap {job})
  + Cardinality({d \in Deliveries : stream[d[1]][d[2]].job = job})

Handed(c) == /\ command[c].op = "issueJob"
             /\ cpc[c] \in {"inserted", "detach", "done"}

(* A job whose controller got rid of it is in exactly one place, and one    *)
(* that its controller still holds is in none: no job is lost, executed     *)
(* twice, executed after its removal, or answered twice, whatever producers,*)
(* consumers, stop and the shutdown do.  Excepted are the jobs that a late  *)
(* controller's stop sends astray, between the top and the pop of main's    *)
(* drain.                                                                   *)
JobsAccounted ==
    \A c \in Clients :
        /\ command[c].op = "issueJob"
        /\ cjob[c] # NoJob /\ cjob[c] \notin astray
        => Places(cjob[c]) = IF Handed(c) THEN 1 ELSE 0

(* Whatever ends a job is told to the client that sent it, although         *)
(* descriptors are closed by one thread and reused by the next accept.      *)
OutcomeGoesHome ==
    \A d \in Deliveries : stream[d[1]][d[2]].job.owner = d[1]

(* No wakeup is lost between producers and consumers: while nobody exits,   *)
(* a worker sleeps on Cond_nonempty only if every queued job has a worker   *)
(* of its own that is awake and about to look at the queue.                 *)
NonemptyWakeup ==
    ~exitServer /\ nonempty # {} =>
        Len(queue) <= Cardinality({w \in Workers \ nonempty :
                                      wpc[w] \in {"take", "takewait"}})

(* Nor is one lost the other way, while nobody exits and nobody has sent a  *)
(* stop (see RoomIsUsed): a controller sleeps on Cond_nonfull only if every *)
(* free place has a controller of its own that was woken up for it,         *)
(* although a newcomer may take the place first.                            *)
NonfullWakeup ==
    /\ ~exitServer /\ nonfull # {}
    /\ \A c \in Clients : command[c].op # "stop"
    => BufferSize - Len(queue) <= Cardinality({c \in Clients \ nonfull :
                                                  cpc[c] = "insertwait"})

(* Workers waiting for a slot are never all asleep with every slot free:    *)
(* the last slot given back wakes one of them up.                           *)
SlotWakeup ==
    ~exitServer /\ nonfullRunning # {} =>
        \/ running > 0
        \/ \E w \in Workers \ nonfullRunning :
                wpc[w] \in {"slotwait", "reserve"}

(* The job pool that the server keeps. *)
Pool == INSTANCE JobPool WITH
    Jobs      <- Job,
    Capacity  <- BufferSize,
    line      <- queue,
    inService <- {wjob[w] : w \in Executing},
    ended     <- {stream[d[1]][d[2]].job : d \in Deliveries} \cup AtMain
                     \cup astray,
    limit     <- peak

(* The server implements the job pool: one line, served in order, within    *)
(* the capacity and the highest concurrency, each job ended once.  A job    *)
(* that the drain of main popped has ended, told or lost.                   *)
ImplementsPool == Pool!PoolSpec

(* With no exit, a job that reached the buffer is executed or removed, and  *)
(* its client hears of it, unless the server died: no sequence of signals   *)
(* leaves it behind.                                                        *)
QueuedJobEnds ==
    \A c \in Clients :
        cpc[c] = "inserted" ~>
            \/ server # "up" \/ exitServer
            \/ \E d \in Deliveries : stream[d[1]][d[2]].job = cjob[c]

(* A server that returned from main has told every client of a job how it   *)
(* ended.  Excepted are the controllers main did not wait for, because they *)
(* had not counted themselves when it read the count, and the jobs that one *)
(* of them sent astray.                                                     *)
AllToldAtEnd ==
    server = "ended" =>
        \A c \in Clients \ late :
            command[c].op = "issueJob" =>
                \/ cjob[c] \in astray
                \/ \E d \in Deliveries : stream[d[1]][d[2]].job = cjob[c]

(* Nobody is left who could fall asleep: the broadcasts of an exit are over *)
(* and no thread is asleep or between a look at exit_server and a wait.     *)
NobodyCanSleep ==
    /\ mpc \in {"join"} \cup LeavingPCs
    /\ nonempty = {} /\ nonfull = {} /\ nonfullRunning = {}
    /\ \A w \in Workers : wpc[w] \notin {"slot", "slotfull", "reserve", "take",
                                         "empty"}
    /\ \A c \in Clients : cpc[c] # "full"

(* A shutdown that got past its races ends: workers leave, main joins them, *)
(* waits for the controllers, drains the buffer and returns.                *)
ShutdownEnds == NobodyCanSleep ~> server # "up"

-----------------------------------------------------------------------------
(* The workers that have a slot, those that took it with them included. *)
WithSlot    == {"take", "empty", "takewait", "run", "send", "close", "release",
                "goneholding"}
WithoutCount == {"away", "new", "done"}
WithoutJobID == {"away", "new", "issueJob"}

Holders == {w \in Workers : wpc[w] \in WithSlot}
Counted == {c \in Clients : cpc[c] \notin WithoutCount}
Issuers == {c \in Clients : command[c].op = "issueJob"
                             /\ cpc[c] \notin WithoutJobID}

(* The three counters of the server are exact at every moment, although     *)
(* each is kept by increments and decrements in different threads and a     *)
(* worker that exits never gives its slot back.                             *)
CountersExact ==
    /\ running = Cardinality(Holders)
    /\ controllerCount = Cardinality(Counted)
    /\ jobID = Cardinality(Issuers)

-----------------------------------------------------------------------------
(* What documents and comments say, and the code does not do *)

(* design-assumptions.md:12: a controller inserts when the size of the      *)
(* queue is below bufferSize.  stop makes room and signals nobody, so a     *)
(* producer may sleep beside an empty buffer for ever.                      *)
RoomIsUsed ==
    \A c \in Clients :
        c \in nonfull /\ ~Full ~> server # "up" \/ Full \/ c \notin nonfull

(* aux_s.cpp:276-278: all who wait are woken up so that nobody stays        *)
(* blocked for ever.  The broadcasts take no mutex, so a worker on its way  *)
(* to a wait misses them.                                                   *)
EveryoneLeaves ==
    mpc = "join" ~> mpc # "join" \/ server # "up"
=============================================================================
