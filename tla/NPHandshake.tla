---------------------------- MODULE NPHandshake ----------------------------
(***************************************************************************)
(* How a commander and a server of the named-pipes program find each       *)
(* other.  A commander that sees no jobExecutorServer.txt forks a server;  *)
(* it makes its two FIFOs, writes its pid to server.pipe and waits in the  *)
(* open of the first FIFO until the server opens the other end.  After the *)
(* command both meet in the same way at the second FIFO.                   *)
(*                                                                         *)
(* Servers are named by the commander that forked them.  The name          *)
(* server.pipe may be unlinked and made again while processes hold the old *)
(* file open, so the files are named by the server whose mkfifo made them. *)
(*                                                                         *)
(* What the kernel does with a FIFO: an open of one end waits for the      *)
(* other and counts from the moment it begins; what was written is         *)
(* discarded when nobody has the file open any more; a write without a     *)
(* reader kills the writer (SIGPIPE).  A command is one of Commands: its   *)
(* words, the queue and the jobs are NPServer's.                           *)
(***************************************************************************)
EXTENDS Integers, FiniteSets, SequencesExt

CONSTANTS
    Commanders,         \* the commanders that may be started
    Commands,           \* what they may ask for
    MayDie,             \* BOOLEAN: commanders may be killed
    Nobody              \* no file, no commander

\* "blank": one of the words is empty.
Asks == {"issueJob", "exit", "malformed", "blank"}

ASSUME HandshakeAssumption ==
    /\ IsFiniteSet(Commanders) /\ Nobody \notin Commanders
    /\ Commands \subseteq Asks
    /\ MayDie \in BOOLEAN

VARIABLES
    txt,                \* jobExecutorServer.txt exists
    pipe,               \* the file that is called server.pipe
    data,               \* the pids in each such file
    fifos,              \* the commanders whose FIFOs exist
    cpc,                \* where each commander is
    at,                 \* write_sp: the file it has open for writing
    command,            \* what it has sent: nothing, the count, its words
    spc,                \* where each server is
    on,                 \* read_sp: the file it has open for reading
    nonblock,           \* read_sp was opened with O_NONBLOCK
    met,                \* a writer came since: select sees the end of file
    ready,              \* rfds: the commanders that can be read
    active,             \* active_commanders, in order
    cur,                \* the commander it is busy with
    jobs,               \* its jobs: once one is started SIGCHLD may arrive
    answered,           \* the commanders whose answer is in their FIFO
    raced               \* history: a server was forked though one existed

files   == <<txt, pipe, fifos>>
readEnd == <<on, nonblock, met>>
round   == <<ready, active, cur>>
vars    == <<files, data, cpc, at, command, spc, readEnd, round, jobs,
             answered, raced>>

-----------------------------------------------------------------------------
Init ==
    /\ txt = FALSE /\ pipe = Nobody /\ fifos = {}
    /\ data = [i \in Commanders |-> <<>>]
    /\ cpc = [c \in Commanders |-> "away"]
    /\ at = [c \in Commanders |-> Nobody]
    /\ command = [c \in Commanders |-> "none"]
    /\ spc = [s \in Commanders |-> "none"]
    /\ on = [s \in Commanders |-> Nobody]
    /\ nonblock = [s \in Commanders |-> FALSE]
    /\ met = [s \in Commanders |-> FALSE]
    /\ ready = [s \in Commanders |-> {}]
    /\ active = [s \in Commanders |-> <<>>]
    /\ cur = [s \in Commanders |-> Nobody]
    /\ jobs = [s \in Commanders |-> "none"]
    /\ answered = {}
    /\ raced = FALSE

-----------------------------------------------------------------------------
(* Helpers *)

Readers(i) == {s \in Commanders : on[s] = i}
Writers(i) == {c \in Commanders : at[c] = i}

ServerAt(s, p)    == spc' = [spc EXCEPT ![s] = p]
CommanderAt(c, p) == cpc' = [cpc EXCEPT ![c] = p]

\* The last end of file i is closed: its data goes with it.
Discard(i) == data' = IF i = Nobody THEN data ELSE [data EXCEPT ![i] = <<>>]

\* Server s closes read_sp, commander c closes write_sp.
CloseRead(s) ==
    /\ on' = [on EXCEPT ![s] = Nobody]
    /\ IF Readers(on[s]) = {s} /\ Writers(on[s]) = {}
       THEN Discard(on[s]) ELSE UNCHANGED data

CloseWrite(c) ==
    /\ at' = [at EXCEPT ![c] = Nobody]
    /\ IF Writers(at[c]) = {c} /\ Readers(at[c]) = {}
       THEN Discard(at[c]) ELSE UNCHANGED data

\* exit(1), a fatal signal, or the end of main: the kernel closes the rest.
ServerOver(s, how) ==
    /\ ServerAt(s, how)
    /\ CloseRead(s)
    /\ nonblock' = [nonblock EXCEPT ![s] = FALSE]
    /\ met' = [met EXCEPT ![s] = FALSE]
    /\ ready' = [ready EXCEPT ![s] = {}]
    /\ active' = [active EXCEPT ![s] = <<>>]
    /\ cur' = [cur EXCEPT ![s] = Nobody]

CommanderOver(c) ==
    /\ CommanderAt(c, "gone")
    /\ CloseWrite(c)

\* Some server holds the reading end of c's first FIFO.
Heard(c) == \E s \in Commanders : c \in Range(active[s])

Gone(c) == cpc[c] = "gone"

-----------------------------------------------------------------------------
(* The commander *)

\* access: is there a server?
Look(c) ==
    /\ cpc[c] = "away"
    /\ CommanderAt(c, IF txt THEN "mkfifo" ELSE "fork")
    /\ UNCHANGED <<files, data, at, command, spc, readEnd, round, jobs,
                   answered, raced>>

Fork(c) ==
    /\ cpc[c] = "fork"
    /\ CommanderAt(c, "wait")
    /\ ServerAt(c, "start")
    /\ raced' = (raced \/ txt \/ \E s \in Commanders : spc[s] = "start")
    /\ UNCHANGED <<files, data, at, command, readEnd, round, jobs, answered>>

AwaitServer(c) ==
    /\ cpc[c] = "wait" /\ txt
    /\ CommanderAt(c, "mkfifo")
    /\ UNCHANGED <<files, data, at, command, spc, readEnd, round, jobs,
                   answered, raced>>

\* A name that begins with Faulty is a bug the properties must be able to see.
FaultyMakeFifos(c) ==
    /\ cpc[c] = "mkfifo"
    /\ CommanderAt(c, "open")
    /\ UNCHANGED <<files, data, at, command, spc, readEnd, round, jobs,
                   answered, raced>>

MakeFifos(c) ==
    /\ cpc[c] = "mkfifo"
    /\ fifos' = fifos \union {c}
    /\ CommanderAt(c, "open")
    /\ UNCHANGED <<txt, pipe, data, at, command, spc, readEnd, round, jobs,
                   answered, raced>>

(* While there is no server.pipe the open fails and is tried again.  A      *)
(* server that waits in its own open of the file gets through.              *)
OpenServerPipe(c) ==
    /\ cpc[c] = "open" /\ pipe # Nobody
    /\ at' = [at EXCEPT ![c] = pipe]
    /\ CommanderAt(c, IF Readers(pipe) = {} THEN "opening" ELSE "knock")
    /\ met' = [s \in Commanders |-> met[s] \/ on[s] = pipe]
    /\ spc' = [s \in Commanders |->
                  IF spc[s] = "opening" /\ on[s] = pipe THEN "loop" ELSE spc[s]]
    /\ UNCHANGED <<files, data, command, on, nonblock, round, jobs, answered,
                   raced>>

Knock(c) ==
    /\ cpc[c] = "knock"
    /\ IF Readers(at[c]) = {}
       THEN CommanderOver(c)
       ELSE /\ data' = [data EXCEPT ![at[c]] = Append(@, c)]
            /\ CommanderAt(c, "close")
            /\ UNCHANGED at
    /\ UNCHANGED <<files, command, spc, readEnd, round, jobs, answered, raced>>

FaultyCloseServerPipe(c) ==
    /\ cpc[c] = "close"
    /\ CommanderAt(c, "openr")
    /\ CloseWrite(c)
    /\ UNCHANGED <<files, command, spc, readEnd, round, jobs, answered, raced>>

CloseServerPipe(c) ==
    /\ cpc[c] = "close"
    /\ CommanderAt(c, "openw")
    /\ CloseWrite(c)
    /\ UNCHANGED <<files, command, spc, readEnd, round, jobs, answered, raced>>

\* The number of words, then the words.
SendCount(c) ==
    /\ cpc[c] = "count"
    /\ IF Heard(c)
       THEN CommanderAt(c, "send") /\ command' = [command EXCEPT ![c] = "counted"]
       ELSE CommanderAt(c, "gone") /\ UNCHANGED command
    /\ UNCHANGED <<files, data, at, spc, readEnd, round, jobs, answered, raced>>

SendWords(c) ==
    /\ cpc[c] = "send"
    /\ IF Heard(c)
       THEN /\ CommanderAt(c, "openr")
            /\ \E ask \in Commands : command' = [command EXCEPT ![c] = ask]
       ELSE CommanderAt(c, "gone") /\ UNCHANGED command
    /\ UNCHANGED <<files, data, at, spc, readEnd, round, jobs, answered, raced>>

\* Without an answer the FIFO ends with the server that was to write it.
ReadAnswer(c) ==
    /\ cpc[c] = "read"
    /\ \/ c \in answered /\ CommanderAt(c, "unlink")
       \/ /\ c \notin answered
          /\ ~ \E s \in Commanders : spc[s] = "write" /\ cur[s] = c
          /\ CommanderAt(c, "gone")
    /\ UNCHANGED <<files, data, at, command, spc, readEnd, round, jobs,
                   answered, raced>>

RemoveFifos(c) ==
    /\ cpc[c] = "unlink"
    /\ fifos' = fifos \ {c}
    /\ CommanderAt(c, "done")
    /\ UNCHANGED <<txt, pipe, data, at, command, spc, readEnd, round, jobs,
                   answered, raced>>

CommanderStep(c) ==
    \/ Look(c) \/ Fork(c) \/ AwaitServer(c) \/ MakeFifos(c)
    \/ OpenServerPipe(c) \/ Knock(c) \/ CloseServerPipe(c)
    \/ SendCount(c) \/ SendWords(c) \/ ReadAnswer(c) \/ RemoveFifos(c)

\* Its user kills it; its FIFOs stay.
Killed(c) ==
    /\ MayDie /\ cpc[c] \notin {"away", "gone", "done"}
    /\ CommanderOver(c)
    /\ UNCHANGED <<files, command, spc, readEnd, round, jobs, answered, raced>>

-----------------------------------------------------------------------------
(* The server: start and end *)

CreateTxt(s) ==
    /\ spc[s] = "start"
    /\ txt' = TRUE
    /\ ServerAt(s, "mkfifo")
    /\ UNCHANGED <<pipe, fifos, data, cpc, at, command, readEnd, round, jobs,
                   answered, raced>>

\* A server.pipe that exists is kept (EEXIST).
MakeServerPipe(s) ==
    /\ spc[s] = "mkfifo"
    /\ pipe' = IF pipe = Nobody THEN s ELSE pipe
    /\ ServerAt(s, "open")
    /\ UNCHANGED <<txt, fifos, data, cpc, at, command, readEnd, round, jobs,
                   answered, raced>>

(* The open of server.pipe that succeeds lets the commanders through that   *)
(* wait in theirs.  With O_NONBLOCK it does not wait for one, and the end of *)
(* file shows in select only after a writer has been there.                 *)
OpenRead(s, noWait) ==
    /\ on' = [on EXCEPT ![s] = pipe]
    /\ nonblock' = [nonblock EXCEPT ![s] = noWait]
    /\ met' = [met EXCEPT ![s] = Writers(pipe) # {}]
    /\ ServerAt(s, IF noWait \/ Writers(pipe) # {} THEN
                      IF noWait THEN "serve" ELSE "loop" ELSE "opening")
    /\ cpc' = [c \in Commanders |->
                  IF cpc[c] = "opening" /\ at[c] = pipe THEN "knock" ELSE cpc[c]]

FirstOpen(s) ==
    /\ spc[s] = "open"
    /\ IF pipe = Nobody
       THEN ServerOver(s, "fallen") /\ UNCHANGED cpc
       ELSE OpenRead(s, FALSE) /\ UNCHANGED <<data, round>>
    /\ UNCHANGED <<files, at, command, jobs, answered, raced>>

-----------------------------------------------------------------------------
(* The server: its loop *)

ServerPipeReady(s) ==
    \/ data[on[s]] # <<>>
    \/ met[s] /\ Writers(on[s]) = {}

\* A commander that is gone reads as end of file.
Readable(s) ==
    {c \in Range(active[s]) : command[c] # "none" \/ Gone(c)}

Select(s) ==
    /\ spc[s] = "loop"
    /\ ServerPipeReady(s) \/ Readable(s) # {}
    /\ ready' = [ready EXCEPT ![s] = Readable(s)]
    /\ ServerAt(s, IF ServerPipeReady(s) THEN "admit" ELSE "serve")
    /\ UNCHANGED <<files, data, cpc, at, command, readEnd, active, cur, jobs,
                   answered, raced>>

\* The next pid; its FIFO is opened at once.
ReadPid(s) ==
    /\ spc[s] = "admit" /\ data[on[s]] # <<>>
    /\ LET c == Head(data[on[s]]) IN
       IF c \in fifos
       THEN /\ data' = [data EXCEPT ![on[s]] = Tail(@)]
            /\ cur' = [cur EXCEPT ![s] = c]
            /\ ServerAt(s, "meet")
            /\ UNCHANGED <<readEnd, ready, active>>
       ELSE ServerOver(s, "fallen")
    /\ UNCHANGED <<files, cpc, at, command, jobs, answered, raced>>

(* The read of the empty server.pipe ends at once when nobody has it open   *)
(* for writing.  Otherwise the first one waits; after the file was opened   *)
(* again with O_NONBLOCK it fails with EAGAIN, and the server with it.      *)
ReadNoPid(s) ==
    /\ spc[s] = "admit" /\ data[on[s]] = <<>>
    /\ IF Writers(on[s]) = {}
       THEN ServerAt(s, "eof") /\ UNCHANGED <<data, readEnd, round>>
       ELSE nonblock[s] /\ ServerOver(s, "fallen")
    /\ UNCHANGED <<files, cpc, at, command, jobs, answered, raced>>

\* Both ends of the commander's first FIFO are open.
Meet(s) ==
    /\ spc[s] = "meet" /\ cpc[cur[s]] = "openw"
    /\ CommanderAt(cur[s], "count")
    /\ active' = [active EXCEPT ![s] = Append(@, cur[s])]
    /\ cur' = [cur EXCEPT ![s] = Nobody]
    /\ ServerAt(s, "admit")
    /\ UNCHANGED <<files, data, at, command, readEnd, ready, jobs, answered,
                   raced>>

\* Whatever was written since the end of file was read is discarded here.
CloseAtEof(s) ==
    /\ spc[s] = "eof"
    /\ ServerAt(s, "reopen")
    /\ CloseRead(s)
    /\ UNCHANGED <<files, cpc, at, command, nonblock, met, round, jobs,
                   answered, raced>>

Reopen(s) ==
    /\ spc[s] = "reopen"
    /\ IF pipe = Nobody
       THEN ServerOver(s, "fallen") /\ UNCHANGED cpc
       ELSE OpenRead(s, TRUE) /\ UNCHANGED <<data, round>>
    /\ UNCHANGED <<files, at, command, jobs, answered, raced>>

ToServe(s) == {i \in DOMAIN active[s] : active[s][i] \in ready[s]}

(* The number of words of the first commander that select found readable;   *)
(* end of file reads as a command without words, which ends the server.     *)
ReadCount(s) ==
    /\ spc[s] = "serve"
    /\ \E i \in ToServe(s) :
         /\ \A j \in ToServe(s) : i <= j
         /\ IF command[active[s][i]] = "none"
            THEN ServerOver(s, "fallen")
            ELSE /\ cur' = [cur EXCEPT ![s] = active[s][i]]
                 /\ ServerAt(s, "words")
                 /\ UNCHANGED <<data, readEnd, ready, active>>
    /\ UNCHANGED <<files, cpc, at, command, jobs, answered, raced>>

(* The words, then the command.  An empty word, or words that will never    *)
(* come, are read again and again.                                          *)
ReadWords(s) ==
    /\ spc[s] = "words"
    /\ LET c == cur[s] IN
       \/ /\ command[c] \in {"issueJob", "exit"}
          /\ \E i \in DOMAIN active[s] :
                /\ active[s][i] = c
                /\ active' = [active EXCEPT ![s] = RemoveAt(@, i)]
          /\ ServerAt(s, "answer")
          /\ UNCHANGED <<data, readEnd, ready, cur>>
       \/ command[c] = "malformed" /\ ServerOver(s, "fallen")
       \/ /\ command[c] = "blank" \/ (command[c] = "counted" /\ Gone(c))
          /\ ServerAt(s, "spinning")
          /\ UNCHANGED <<data, readEnd, round>>
    /\ UNCHANGED <<files, cpc, at, command, jobs, answered, raced>>

\* Both ends of the commander's second FIFO are open.
OpenAnswer(s) ==
    /\ spc[s] = "answer" /\ cpc[cur[s]] = "openr"
    /\ CommanderAt(cur[s], "read")
    /\ ServerAt(s, "write")
    /\ UNCHANGED <<files, data, at, command, readEnd, round, jobs, answered,
                   raced>>

FaultyWrite(s) ==
    /\ spc[s] = "write" /\ ~Gone(cur[s])
    /\ answered' = answered \union {cur[s]}
    /\ ServerAt(s, "serve")
    /\ UNCHANGED <<files, data, cpc, at, command, readEnd, round, jobs, raced>>

(* The answer; a reader that is gone kills the server.  exit also closes    *)
(* the FIFOs of the commanders that have not been served.                   *)
Write(s) ==
    /\ spc[s] = "write"
    /\ IF Gone(cur[s])
       THEN ServerOver(s, "fallen") /\ UNCHANGED <<answered, jobs>>
       ELSE LET exits == command[cur[s]] = "exit" IN
            /\ answered' = answered \union {cur[s]}
            /\ cur' = [cur EXCEPT ![s] = Nobody]
            /\ active' = [active EXCEPT ![s] = IF exits THEN <<>> ELSE @]
            /\ jobs' = [jobs EXCEPT ![s] =
                           IF exits \/ @ = "started" THEN @ ELSE "queued"]
            /\ ServerAt(s, IF exits THEN "closing" ELSE "serve")
            /\ UNCHANGED <<data, readEnd, ready>>
    /\ UNCHANGED <<files, cpc, at, command, raced>>

\* The end of the sweep, and exec_jobs.
SweepDone(s) ==
    /\ spc[s] = "serve" /\ ToServe(s) = {}
    /\ ServerAt(s, "loop")
    /\ ready' = [ready EXCEPT ![s] = {}]
    /\ jobs' = [jobs EXCEPT ![s] = IF @ = "queued" THEN "started" ELSE @]
    /\ UNCHANGED <<files, data, cpc, at, command, readEnd, active, cur,
                   answered, raced>>

FaultyCloseServer(s) ==
    /\ spc[s] = "closing"
    /\ ServerAt(s, "unlinkpipe")
    /\ CloseRead(s)
    /\ txt' = FALSE
    /\ UNCHANGED <<pipe, fifos, cpc, at, command, nonblock, met, round, jobs,
                   answered, raced>>

CloseServer(s) ==
    /\ spc[s] = "closing"
    /\ ServerAt(s, "unlinkpipe")
    /\ CloseRead(s)
    /\ UNCHANGED <<files, cpc, at, command, nonblock, met, round, jobs,
                   answered, raced>>

UnlinkPipe(s) ==
    /\ spc[s] = "unlinkpipe"
    /\ IF pipe = Nobody
       THEN ServerOver(s, "fallen") /\ UNCHANGED pipe
       ELSE /\ pipe' = Nobody
            /\ ServerAt(s, "unlinktxt")
            /\ UNCHANGED <<data, readEnd, round>>
    /\ UNCHANGED <<txt, fifos, cpc, at, command, jobs, answered, raced>>

FaultyUnlinkTxt(s) ==
    /\ spc[s] = "unlinktxt"
    /\ ServerOver(s, "ended")
    /\ UNCHANGED <<files, cpc, at, command, jobs, answered, raced>>

UnlinkTxt(s) ==
    /\ spc[s] = "unlinktxt"
    /\ txt' = FALSE
    /\ ServerOver(s, IF txt THEN "ended" ELSE "fallen")
    /\ UNCHANGED <<pipe, fifos, cpc, at, command, jobs, answered, raced>>

ServerStep(s) ==
    \/ CreateTxt(s) \/ MakeServerPipe(s) \/ FirstOpen(s)
    \/ Select(s) \/ ReadPid(s) \/ ReadNoPid(s) \/ Meet(s) \/ CloseAtEof(s)
    \/ Reopen(s) \/ ReadCount(s) \/ ReadWords(s) \/ OpenAnswer(s) \/ Write(s)
    \/ SweepDone(s) \/ CloseServer(s) \/ UnlinkPipe(s) \/ UnlinkTxt(s)

\* The server waits in an open or a read for its commander.
Waits(s) ==
    \/ spc[s] = "meet" /\ cpc[cur[s]] # "openw"
    \/ spc[s] = "words" /\ command[cur[s]] = "counted" /\ ~Gone(cur[s])
    \/ spc[s] = "answer" /\ cpc[cur[s]] # "openr"

(* SIGCHLD interrupts such a wait, or exit finds that a job it is to kill   *)
(* has ended: exit(1).                                                      *)
Interrupted(s) ==
    /\ jobs[s] = "started"
    /\ Waits(s) \/ spc[s] = "closing"
    /\ ServerOver(s, "fallen")
    /\ UNCHANGED <<files, cpc, at, command, jobs, answered, raced>>

Next ==
    \E p \in Commanders :
        CommanderStep(p) \/ Killed(p) \/ ServerStep(p) \/ Interrupted(p)

Spec == Init /\ [][Next]_vars

\* The processes run; nobody has to start, or to kill, a commander.
FairSpec ==
    /\ Spec
    /\ \A p \in Commanders :
          /\ WF_vars(ServerStep(p))
          /\ WF_vars(cpc[p] # "away" /\ CommanderStep(p))

-----------------------------------------------------------------------------
(* Properties *)

Over == {"fallen", "ended"}

CommanderPlaces ==
    {"away", "fork", "wait", "mkfifo", "open", "opening", "knock", "close",
     "openw", "count", "send", "openr", "read", "unlink", "done", "gone"}

ServerPlaces ==
    {"none", "start", "mkfifo", "open", "opening", "loop", "admit", "meet",
     "eof", "reopen", "serve", "words", "answer", "write", "closing",
     "unlinkpipe", "unlinktxt", "ended", "fallen", "spinning"}

Busy == {"meet", "words", "answer", "write", "spinning"}

(* Types; and the server has a commander at hand exactly in the places where *)
(* its locals name one, and is never listening to the same one twice.        *)
TypeOK ==
    /\ txt \in BOOLEAN /\ raced \in BOOLEAN
    /\ pipe \in Commanders \union {Nobody}
    /\ fifos \subseteq Commanders /\ answered \subseteq Commanders
    /\ data \in [Commanders -> Seq(Commanders)]
    /\ cpc \in [Commanders -> CommanderPlaces]
    /\ spc \in [Commanders -> ServerPlaces]
    /\ {at, on, cur} \subseteq [Commanders -> Commanders \union {Nobody}]
    /\ command \in [Commanders -> {"none", "counted"} \union Commands]
    /\ {nonblock, met} \subseteq [Commanders -> BOOLEAN]
    /\ jobs \in [Commanders -> {"none", "queued", "started"}]
    /\ ready \in [Commanders -> SUBSET Commanders]
    /\ active \in [Commanders -> Seq(Commanders)]
    /\ \A s \in Commanders :
          /\ IsInjective(active[s])
          /\ (cur[s] # Nobody) <=> (spc[s] \in Busy)

(* my_io.cpp relies on it: a pid that a server may read, or has read, is     *)
(* that of a commander whose FIFOs are there, so that no open of them fails.  *)
PipesAreThere ==
    /\ \A i \in Commanders : Range(data[i]) \subseteq fifos
    /\ \A s \in Commanders : spc[s] \in {"meet", "answer"} => cur[s] \in fifos

(* Two files outlive the processes.  When every server that was started has  *)
(* returned from main neither is left, so that the next commander starts a   *)
(* server of its own; only a server that fell leaves jobExecutorServer.txt.  *)
ExitCleansUp ==
    (\A s \in Commanders : spc[s] \in {"none", "ended"}) =>
        ~txt /\ pipe = Nobody

(* While the check for jobExecutorServer.txt was not raced there is one       *)
(* server, and the file it reads is the one commanders find as server.pipe: a *)
(* server that ends never takes the name from the one started after it.       *)
ServerIsReachable ==
    ~raced => \A s, r \in Commanders :
                 on[s] # Nobody /\ spc[s] # "closing" =>
                     /\ on[s] = pipe
                     /\ on[r] # Nobody => r = s

Lost(c) ==
    /\ cpc[c] = "openw"
    /\ \A i \in Commanders : c \notin Range(data[i])
    /\ \A s \in Commanders : ~(spc[s] = "meet" /\ cur[s] = c)

\* What excuses a server, or the loss of a pid, from answering.
Trouble(c) ==
    \/ Lost(c) \/ Gone(c)
    \/ \E s \in Commanders : spc[s] \in Over \union {"spinning"}
    \/ \E d \in Commanders : Gone(d)

(* The opens in which both sides wait for each other never block both: a     *)
(* commander that has its FIFOs is answered, unless its pid was lost with    *)
(* server.pipe, a process was killed or failed, or a server ended.           *)
CommanderAnswered ==
    \A c \in Commanders : cpc[c] = "open" ~> (cpc[c] = "done" \/ Trouble(c))

(* A commander writes its pid to server.pipe and thereby makes its FIFOs     *)
(* known to the server: while no server has ended, a commander that waits in *)
(* the open of its FIFO has its pid in a server.pipe or in a server's hands. *)
PidReachesServer ==
    (\A s \in Commanders : spc[s] \notin Over) => \A c \in Commanders : ~Lost(c)
=============================================================================
