------------------------------ MODULE NPServer ------------------------------
(***************************************************************************)
(* The named-pipes job server: one thread that waits in select, admits     *)
(* commanders, handles their commands one after the other and starts jobs, *)
(* and a SIGCHLD handler that may interrupt that thread between any two of *)
(* its instructions.                                                       *)
(*                                                                         *)
(* The main thread is split where it matters what the handler changes      *)
(* meanwhile: the counter is loaded and stored in two steps (the programs  *)
(* are built without optimisation), fork and the entry in the list are two *)
(* steps, so are choosing a process and killing it.  While the handler     *)
(* runs the main thread stands still; children may end at any moment.      *)
(*                                                                         *)
(* A process is named by the job it executes.                              *)
(***************************************************************************)
EXTENDS JobQueue, FiniteSets

CONSTANTS
    Commanders,         \* the commanders that may be started
    Commands,           \* the commands they may send: records [op, arg]
    Nobody              \* no commander is being served

Ops == {"issueJob", "setConcurrency", "stop", "poll", "exit", "malformed"}

ASSUME CommandersAssumption == IsFiniteSet(Commanders) /\ Nobody \notin Commanders
\* handle_command refuses setConcurrency below 1.
ASSUME CommandsAssumption ==
    /\ Commands \subseteq [op : Ops, arg : Nat]
    /\ \A cmd \in Commands : cmd.op = "setConcurrency" => cmd.arg > 0

JobIds == 1 .. Cardinality(Commanders)
Job    == [id : JobIds]

NoCommand == [op |-> "none", arg |-> 0]

VARIABLES
    queue,              \* the queued jobs
    concurrency,        \* global_Concurrency
    running,            \* global_Running
    runningJobs,        \* global_Running_Jobs: ids, the newest first
    leftover,           \* what the freed slots behind that vector still hold
    exitServer,         \* exit_server
    jobID,              \* global_JobID
    active,             \* active_commanders: records [who, open]
    knocking,           \* pids in server.pipe
    ready,              \* rfds after select: the commanders that can be read
    pc,                 \* where the main thread is
    cur,                \* the commander it serves
    idx,                \* its loop index
    size,               \* handle_exit: the size read before the loop
    target,             \* the process to be killed, the job to be started
    reg,                \* global_Running as loaded by global_Running++
    canRun,             \* forks exec_jobs has still to make
    handler,            \* -1: not running; else the children it has reaped
    pending,            \* SIGCHLD is pending
    proc,               \* the process of each job
    cpc,                \* where each commander is
    command,            \* the command of each commander
    server,             \* "up"; "failed" after exit(1); "ended" after main
    removed,            \* history: the jobs stop took out of the queue
    peak                \* history: the highest concurrency ever set

jobs   == <<queue, jobID, removed>>
slots  == <<concurrency, peak>>
listed == <<runningJobs, leftover>>
loop   == <<active, knocking, ready, cur>>
locals == <<idx, size, target, reg, canRun>>
os     == <<handler, pending, proc>>
peers  == <<cpc, command>>
vars   == <<jobs, slots, running, listed, loop, locals, os, peers, exitServer,
            pc, server>>

-----------------------------------------------------------------------------
Init ==
    /\ queue = <<>> /\ jobID = 0 /\ removed = {}
    /\ concurrency = 1 /\ peak = 1
    /\ running = 0
    /\ runningJobs = <<>> /\ leftover = <<>>
    /\ exitServer = FALSE
    /\ active = <<>> /\ knocking = <<>> /\ ready = {}
    /\ pc = "loop"
    /\ cur = Nobody
    /\ idx = 1 /\ size = 0 /\ target = 0 /\ reg = 0 /\ canRun = 0
    /\ handler = -1 /\ pending = FALSE
    /\ proc = [j \in JobIds |-> "none"]
    /\ cpc = [c \in Commanders |-> "away"]
    /\ command = [c \in Commanders |-> NoCommand]
    /\ server = "up"

-----------------------------------------------------------------------------
(* Helpers *)

Go(to) == pc' = to

(* What is left of a vector when the entries at these places are erased.    *)
Without(entries, places) ==
    LET kept == DOMAIN entries \ places
    IN [k \in 1 .. Cardinality(kept) |->
            entries[CHOOSE i \in kept : Cardinality({m \in kept : m <= i}) = k]]

(* The loop over active_commanders erases an entry and then steps over the  *)
(* one that moved into its place: of two closed entries in a row the second *)
(* stays.                                                                   *)
Erased(entries) ==
    LET erased[i \in 0 .. Len(entries)] ==
            i > 0 /\ ~entries[i].open /\ ~erased[i - 1]
    IN {i \in DOMAIN entries : erased[i]}

\* A name that begins with Faulty is a bug the properties must be able to see.
FaultyPurge(entries) ==
    Without(entries, UNION {{i, i + 1} : i \in Erased(entries)})

Purge(entries) == Without(entries, Erased(entries))

(* vector::erase moves the entries behind it one slot down; the last slot   *)
(* is destroyed and keeps the pid it held.                                  *)
EraseListed(i) ==
    /\ runningJobs' = RemoveAt(runningJobs, i)
    /\ leftover' = <<runningJobs[Len(runningJobs)]>> \o leftover

(* insert at begin uses up one freed slot. *)
InsertListed(j) ==
    /\ runningJobs' = <<j>> \o runningJobs
    /\ leftover' = IF leftover = <<>> THEN <<>> ELSE Tail(leftover)

(* kill(pid, SIGKILL): a process that was reaped is gone (ESRCH), exit(1).  *)
Kill(j) ==
    IF proc[j] = "reaped"
    THEN server' = "failed" /\ UNCHANGED proc
    ELSE /\ proc' = [proc EXCEPT ![j] = IF @ = "alive" THEN "killed" ELSE @]
         /\ UNCHANGED server

-----------------------------------------------------------------------------
(* The loop of main *)

EnterSelect ==
    /\ pc = "loop" /\ ~exitServer
    /\ Go("select")
    /\ UNCHANGED <<jobs, slots, running, listed, loop, locals, os, peers,
                   exitServer, server>>

(* server.pipe and the .txt are unlinked. *)
ReturnFromMain ==
    /\ pc = "loop" /\ exitServer
    /\ server' = "ended"
    /\ UNCHANGED <<jobs, slots, running, listed, loop, locals, os, peers,
                   exitServer, pc>>

Readable == {c \in Commanders :
                /\ cpc[c] = "sent"
                /\ [who |-> c, open |-> TRUE] \in ToSet(active)}

SelectReturns ==
    /\ pc = "select"
    /\ knocking # <<>> \/ Readable # {}
    /\ ready' = Readable
    /\ Go(IF knocking # <<>> THEN "admit" ELSE "sweep")
    /\ UNCHANGED <<jobs, slots, running, listed, active, knocking, cur,
                   locals, os, peers, exitServer, server>>

(* read_from_server_pipe: opens the pipe of every commander that knocked.   *)
Admit ==
    /\ pc = "admit" /\ knocking # <<>>
    /\ active' = Append(active, [who |-> Head(knocking), open |-> TRUE])
    /\ knocking' = Tail(knocking)
    /\ cpc' = [cpc EXCEPT ![Head(knocking)] = "admitted"]
    /\ UNCHANGED <<jobs, slots, running, listed, ready, cur, locals, os,
                   command, exitServer, pc, server>>

AdmitDone ==
    /\ pc = "admit" /\ knocking = <<>>
    /\ Go("sweep")
    /\ UNCHANGED <<jobs, slots, running, listed, loop, locals, os, peers,
                   exitServer, server>>

(* The entries the sweep has still to serve, in their order. *)
ToServe == {i \in DOMAIN active : active[i].open /\ active[i].who \in ready}

SweepNext ==
    /\ pc = "sweep" /\ ~exitServer
    /\ \E i \in ToServe :
        /\ \A k \in ToServe : i <= k
        /\ cur' = active[i].who
        /\ idx' = i
    /\ Go("read")
    /\ UNCHANGED <<jobs, slots, running, listed, active, knocking, ready,
                   size, target, reg, canRun, os, peers, exitServer, server>>

SweepDone ==
    /\ pc = "sweep"
    /\ exitServer \/ ToServe = {}
    /\ active' = Purge(active)
    /\ ready' = {} /\ cur' = Nobody
    /\ Go("exec")
    /\ UNCHANGED <<jobs, slots, running, listed, knocking, locals, os, peers,
                   exitServer, server>>

(* The whole command is read, its pipe closed, its entry marked with -1.    *)
ReadCommand ==
    /\ pc = "read"
    /\ active' = [active EXCEPT ![idx].open = FALSE]
    /\ Go(command[cur].op)
    /\ UNCHANGED <<jobs, slots, running, listed, knocking, ready, cur, locals,
                   os, peers, exitServer, server>>

-----------------------------------------------------------------------------
(* The handlers of the commands; each ends by opening the pipe the          *)
(* commander waits at and answering there.                                  *)

FaultyIssueJob ==
    /\ pc = "issueJob"
    /\ jobID' = jobID + 1
    /\ queue' = Push(queue, [id |-> jobID])
    /\ Go("open")
    /\ UNCHANGED <<removed, slots, running, listed, loop, locals, os, peers,
                   exitServer, server>>

IssueJob ==
    /\ pc = "issueJob"
    /\ jobID' = jobID + 1
    /\ queue' = Push(queue, [id |-> jobID'])
    /\ Go("open")
    /\ UNCHANGED <<removed, slots, running, listed, loop, locals, os, peers,
                   exitServer, server>>

SetConcurrency ==
    /\ pc = "setConcurrency"
    /\ concurrency' = command[cur].arg
    /\ peak' = IF concurrency' > peak THEN concurrency' ELSE peak
    /\ Go("open")
    /\ UNCHANGED <<jobs, running, listed, loop, locals, os, peers, exitServer,
                   server>>

StopQueued ==
    LET pos == QueuePosition(queue, command[cur].arg) IN
    /\ pc = "stop" /\ pos # -1
    /\ removed' = removed \cup {queue[pos]}
    /\ queue' = Erase(queue, pos)
    /\ Go("open")
    /\ UNCHANGED <<jobID, slots, running, listed, loop, locals, os, peers,
                   exitServer, server>>

StopNotQueued ==
    /\ pc = "stop" /\ QueuePosition(queue, command[cur].arg) = -1
    /\ idx' = 1
    /\ Go("scan")
    /\ UNCHANGED <<jobs, slots, running, listed, loop, size, target, reg,
                   canRun, os, peers, exitServer, server>>

(* The search for a running job goes entry by entry, and the handler may    *)
(* take entries away under it: the loop stops exactly at the end.           *)
ScanOn ==
    /\ pc = "scan" /\ idx # Len(runningJobs) + 1
    /\ Go("entry")
    /\ UNCHANGED <<jobs, slots, running, listed, loop, locals, os, peers,
                   exitServer, server>>

ScanFailed ==
    /\ pc = "scan" /\ idx = Len(runningJobs) + 1
    /\ Go("open")
    /\ UNCHANGED <<jobs, slots, running, listed, loop, locals, os, peers,
                   exitServer, server>>

ScanNext ==
    /\ pc = "entry"
    /\ idx \in DOMAIN runningJobs /\ runningJobs[idx] # command[cur].arg
    /\ idx' = idx + 1
    /\ Go("scan")
    /\ UNCHANGED <<jobs, slots, running, listed, loop, size, target, reg,
                   canRun, os, peers, exitServer, server>>

ScanFound ==
    /\ pc = "entry"
    /\ idx \in DOMAIN runningJobs /\ runningJobs[idx] = command[cur].arg
    /\ target' = runningJobs[idx]
    /\ Go("kill")
    /\ UNCHANGED <<jobs, slots, running, listed, loop, idx, size, reg, canRun,
                   os, peers, exitServer, server>>

(* The end was moved below the iterator, which will not meet it again: it   *)
(* leaves the vector's memory, or finds a process that is gone.             *)
ScanAstray ==
    /\ pc = "entry" /\ idx \notin DOMAIN runningJobs
    /\ server' = "failed"
    /\ UNCHANGED <<jobs, slots, running, listed, loop, locals, os, peers,
                   exitServer, pc>>

KillStopped ==
    /\ pc = "kill"
    /\ Kill(target)
    /\ Go("open")
    /\ UNCHANGED <<jobs, slots, running, listed, loop, locals, handler,
                   pending, peers, exitServer>>

(* Both polls only read. *)
Poll ==
    /\ pc = "poll"
    /\ Go("open")
    /\ UNCHANGED <<jobs, slots, running, listed, loop, locals, os, peers,
                   exitServer, server>>

(* exit answers first and then kills what runs. *)
Exit ==
    /\ pc = "exit"
    /\ Go("open")
    /\ UNCHANGED <<jobs, slots, running, listed, loop, locals, os, peers,
                   exitServer, server>>

Malformed ==
    /\ pc = "malformed"
    /\ server' = "failed"
    /\ UNCHANGED <<jobs, slots, running, listed, loop, locals, os, peers,
                   exitServer, pc>>

Reply ==
    /\ pc = "open"
    /\ cpc' = [cpc EXCEPT ![cur] = "answered"]
    /\ IF command[cur].op = "exit"
       THEN Go("killall") /\ idx' = 1 /\ size' = Len(runningJobs)
       ELSE Go("sweep") /\ UNCHANGED <<idx, size>>
    /\ UNCHANGED <<jobs, slots, running, listed, loop, target, reg, canRun, os,
                   command, exitServer, server>>

(* The size of the list was read once.  An entry beyond its end is a freed  *)
(* slot: the copy of its strings ends the server, or yields the old pid.    *)
ChooseVictim ==
    /\ pc = "killall" /\ idx <= size
    /\ target' = (runningJobs \o leftover)[idx]
    /\ Go("killone")
    /\ server' \in IF idx \in DOMAIN runningJobs THEN {server}
                   ELSE {server, "failed"}
    /\ UNCHANGED <<jobs, slots, running, listed, loop, idx, size, reg, canRun,
                   os, peers, exitServer>>

KillVictim ==
    /\ pc = "killone"
    /\ Kill(target)
    /\ idx' = idx + 1
    /\ Go("killall")
    /\ UNCHANGED <<jobs, slots, running, listed, loop, size, target, reg,
                   canRun, handler, pending, peers, exitServer>>

(* The pipes of the other commanders are closed and forgotten. *)
FinishExit ==
    /\ pc = "killall" /\ idx > size
    /\ active' = <<>>
    /\ exitServer' = TRUE
    /\ Go("sweep")
    /\ UNCHANGED <<jobs, slots, running, listed, knocking, ready, cur, locals,
                   os, peers, server>>

-----------------------------------------------------------------------------
(* exec_jobs *)

FaultyFree == concurrency - running + 1

Free == concurrency - running

(* global_Running is read once; assert(temp_running >= 0).                  *)
ExecJobs ==
    /\ pc = "exec"
    /\ server' = IF ~exitServer /\ running < 0 THEN "failed" ELSE server
    /\ IF exitServer \/ Free <= 0 \/ queue = <<>>
       THEN Go("loop") /\ UNCHANGED canRun
       ELSE /\ canRun' = IF Len(queue) < Free THEN Len(queue) ELSE Free
            /\ Go("launch")
    /\ UNCHANGED <<jobs, slots, running, listed, loop, idx, size, target, reg,
                   os, peers, exitServer>>

(* Takes the first job and loads global_Running for its increment.          *)
TakeJob ==
    /\ pc = "launch" /\ canRun > 0
    /\ target' = Top(queue).id
    /\ queue' = Pop(queue)
    /\ reg' = running
    /\ Go("count")
    /\ UNCHANGED <<jobID, removed, slots, running, listed, loop, idx, size,
                   canRun, os, peers, exitServer, server>>

FaultyCountJob ==
    /\ pc = "count"
    /\ running' = reg
    /\ Go("fork")
    /\ UNCHANGED <<jobs, slots, listed, loop, locals, os, peers, exitServer,
                   server>>

CountJob ==
    /\ pc = "count"
    /\ running' = reg + 1
    /\ Go("fork")
    /\ UNCHANGED <<jobs, slots, listed, loop, locals, os, peers, exitServer,
                   server>>

Fork ==
    /\ pc = "fork"
    /\ proc' = [proc EXCEPT ![target] = "alive"]
    /\ Go("list")
    /\ UNCHANGED <<jobs, slots, running, listed, loop, locals, handler,
                   pending, peers, exitServer, server>>

ListJob ==
    /\ pc = "list"
    /\ InsertListed(target)
    /\ canRun' = canRun - 1
    /\ Go("launch")
    /\ UNCHANGED <<jobs, slots, running, loop, idx, size, target, reg, os,
                   peers, exitServer, server>>

ExecDone ==
    /\ pc = "launch" /\ canRun = 0
    /\ Go("loop")
    /\ UNCHANGED <<jobs, slots, running, listed, loop, locals, os, peers,
                   exitServer, server>>

MainStep ==
    /\ server = "up" /\ handler = -1
    /\ \/ EnterSelect \/ ReturnFromMain \/ SelectReturns \/ Admit \/ AdmitDone
       \/ SweepNext \/ SweepDone \/ ReadCommand \/ IssueJob \/ SetConcurrency
       \/ StopQueued \/ StopNotQueued \/ ScanOn \/ ScanFailed \/ ScanNext
       \/ ScanFound \/ ScanAstray \/ KillStopped \/ Poll \/ Exit \/ Malformed
       \/ Reply \/ ChooseVictim \/ KillVictim \/ FinishExit \/ ExecJobs
       \/ TakeJob \/ CountJob \/ Fork \/ ListJob \/ ExecDone

-----------------------------------------------------------------------------
(* sigchld_action *)

EnterHandler ==
    /\ handler = -1 /\ pending
    /\ pending' = FALSE
    /\ handler' = 0
    /\ UNCHANGED <<jobs, slots, running, listed, loop, locals, proc, peers,
                   exitServer, pc, server>>

(* waitpid with WNOHANG; the first entry with the pid is erased, if there   *)
(* is one already.                                                          *)
Reap(j) ==
    /\ handler >= 0 /\ proc[j] = "zombie"
    /\ proc' = [proc EXCEPT ![j] = "reaped"]
    /\ handler' = handler + 1
    /\ IF j \in ToSet(runningJobs)
       THEN \E i \in DOMAIN runningJobs :
                /\ runningJobs[i] = j /\ \A k \in 1 .. (i - 1) : runningJobs[k] # j
                /\ EraseListed(i)
       ELSE UNCHANGED listed
    /\ UNCHANGED <<jobs, slots, running, loop, locals, pending, peers,
                   exitServer, pc, server>>

(* The calls that may block: an open of a pipe whose other end is not open  *)
(* yet, a read of a command that is still being written.                    *)
Blocking == {"admit", "read", "open"}

FaultyLeaveHandler ==
    /\ handler >= 0
    /\ running' = running - handler
    /\ handler' = -1
    /\ UNCHANGED <<jobs, slots, listed, loop, locals, pending, proc, peers,
                   exitServer, pc, server>>

(* The handler returns when no child is left to reap.  A select that was    *)
(* interrupted (EINTR) goes on to exec_jobs; an open or a read that was     *)
(* interrupted ends the server.                                             *)
LeaveHandler ==
    /\ handler >= 0
    /\ \A j \in JobIds : proc[j] # "zombie"
    /\ running' = running - handler
    /\ handler' = -1
    /\ Go(IF pc = "select" THEN "exec" ELSE pc)
    /\ server' \in IF pc \in Blocking THEN {server, "failed"} ELSE {server}
    /\ UNCHANGED <<jobs, slots, listed, loop, locals, pending, proc, peers,
                   exitServer>>

HandlerStep ==
    /\ server = "up"
    /\ EnterHandler \/ LeaveHandler \/ \E j \in JobIds : Reap(j)

-----------------------------------------------------------------------------
(* The children and the commanders *)

ChildEnds(j, state) ==
    /\ proc[j] = state
    /\ proc' = [proc EXCEPT ![j] = "zombie"]
    /\ pending' = TRUE
    /\ UNCHANGED <<jobs, slots, running, listed, loop, locals, handler, peers,
                   exitServer, pc, server>>

ChildExit(j)  == ChildEnds(j, "alive")
ChildKilled(j) == ChildEnds(j, "killed")

(* A commander writes its pid to server.pipe... *)
Knock(c, cmd) ==
    /\ cpc[c] = "away"
    /\ knocking' = Append(knocking, c)
    /\ command' = [command EXCEPT ![c] = cmd]
    /\ cpc' = [cpc EXCEPT ![c] = "knocked"]
    /\ UNCHANGED <<jobs, slots, running, listed, active, ready, cur, locals,
                   os, exitServer, pc, server>>

(* ... and its command to the pipe that the server opened. *)
Send(c) ==
    /\ cpc[c] = "admitted"
    /\ cpc' = [cpc EXCEPT ![c] = "sent"]
    /\ UNCHANGED <<jobs, slots, running, listed, loop, locals, os, command,
                   exitServer, pc, server>>

Environment ==
    /\ server = "up"
    /\ \/ \E j \in JobIds : ChildExit(j) \/ ChildKilled(j)
       \/ \E c \in Commanders : Send(c) \/ \E cmd \in Commands : Knock(c, cmd)

Next == MainStep \/ HandlerStep \/ Environment

Spec == Init /\ [][Next]_vars

(* The server's thread runs, a pending signal is delivered, a killed child  *)
(* dies and a commander that was let in sends its command.                  *)
Scheduling ==
    /\ WF_vars(MainStep) /\ WF_vars(HandlerStep)
    /\ \A j \in JobIds : WF_vars(server = "up" /\ ChildKilled(j))
    /\ \A c \in Commanders : WF_vars(server = "up" /\ Send(c))

(* A job ends sooner or later. *)
JobsEnd == \A j \in JobIds : WF_vars(server = "up" /\ ChildExit(j))

FairSpec == Spec /\ Scheduling /\ JobsEnd

-----------------------------------------------------------------------------
(* Properties *)

(* Job ids stay those that were handed out, counters below zero show up in  *)
(* the loops that run up to them.                                           *)
TypeOK ==
    /\ queue \in Seq(Job) /\ removed \subseteq Job
    /\ jobID \in 0 .. Cardinality(Commanders)
    /\ concurrency \in Nat \ {0} /\ peak \in Nat \ {0}
    /\ running \in Int /\ reg \in Int
    /\ runningJobs \in Seq(JobIds) /\ leftover \in Seq(JobIds)
    /\ exitServer \in BOOLEAN
    /\ active \in Seq([who : Commanders, open : BOOLEAN])
    /\ knocking \in Seq(Commanders) /\ ready \subseteq Commanders
    /\ pc \in Ops \cup {"loop", "select", "admit", "sweep", "read", "scan",
                       "entry", "kill", "open", "killall", "killone", "exec",
                       "launch", "count", "fork", "list"}
    /\ cur \in Commanders \cup {Nobody}
    /\ idx \in Nat \ {0} /\ size \in Nat /\ canRun \in Nat
    /\ target \in JobIds \cup {0}
    /\ handler \in Nat \cup {-1} /\ pending \in BOOLEAN
    /\ proc \in [JobIds -> {"none", "alive", "killed", "zombie", "reaped"}]
    /\ cpc \in [Commanders -> {"away", "knocked", "admitted", "sent", "answered"}]
    /\ command \in [Commanders -> Commands \cup {NoCommand}]
    /\ server \in {"up", "failed", "ended"}

(* The children the server has not waited for. *)
Children == {j \in JobIds : proc[j] \in {"alive", "killed", "zombie"}}

(* global_Running may lose a decrement to the handler, but never an         *)
(* increment: it covers the children and the one about to be forked, so the *)
(* assertion in exec_jobs holds.                                            *)
RunningCovers ==
    LET waited == IF handler = -1 THEN 0 ELSE handler IN
    /\ Cardinality(Children) + waited <= running
    /\ pc = "count" => Cardinality(Children) + waited <= reg
    /\ pc = "fork" => Cardinality(Children) + waited < running

(* The handler and the main thread together never miss a child: a zombie    *)
(* has a signal pending or a handler that will come to it.                  *)
ZombiesAreReaped ==
    \A j \in JobIds : proc[j] = "zombie" => pending \/ handler >= 0

(* Whoever is in the list twice, or is waited for twice, would be killed or *)
(* counted twice.                                                           *)
ListedOnce ==
    \A i, k \in DOMAIN runningJobs : runningJobs[i] = runningJobs[k] => i = k

(* A job is only forked while fewer children run than the concurrency       *)
(* allows at that moment, whatever the handler did to the counter since it  *)
(* was read.                                                                *)
ForksWithinConcurrency ==
    [][Fork => Cardinality(Children) < concurrency]_vars

(* A job is in service from the moment it is taken from the queue until the *)
(* handler has waited for its process.                                      *)
InService == {[id |-> j] : j \in Children}
               \cup (IF pc \in {"count", "fork"} THEN {[id |-> target]} ELSE {})

Pool == INSTANCE JobPool WITH
    Jobs      <- Job,
    Capacity  <- Cardinality(Commanders),
    line      <- queue,
    inService <- InService,
    ended     <- removed \cup {job \in Job : proc[job.id] = "reaped"},
    limit     <- peak

(* The server implements the job pool: jobs are started in the order of     *)
(* their submission, within the highest concurrency ever set, and end once: *)
(* waited for by the handler or removed by stop.                            *)
ImplementsPool == Pool!PoolSpec

(* Whoever wrote its pid to server.pipe is let in, read and answered, or    *)
(* the server is gone: the loop over active_commanders, which erases while  *)
(* it iterates, loses no one.                                               *)
CommandAnswered ==
    \A c \in Commanders : cpc[c] = "knocked" ~> cpc[c] = "answered" \/ server # "up"

-----------------------------------------------------------------------------
(* What documents and comments say, and the code does not do *)

(* jobExecutorServer.cpp:92: SIGCHLD stops select, so that exec_jobs starts *)
(* the next job.  A signal taken outside select stops nothing: the job      *)
(* waits for the next command.                                              *)
FreedSlotIsUsed ==
    queue # <<>> /\ Children = {} ~> server # "up" \/ queue = <<>> \/ Children # {}

(* design-assumptions.md:31: before it exits the server kills all running   *)
(* jobs.  The handler moves the list under the loop that kills.             *)
ExitKillsJobs ==
    server = "ended" \/ (server = "failed" /\ pc \in {"killall", "killone"}) =>
        \A j \in JobIds : proc[j] # "alive"
=============================================================================
