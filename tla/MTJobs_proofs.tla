---------------------------- MODULE MTJobs_proofs ----------------------------
(* No job of the multithreaded server is lost or ends twice, and each client *)
(* is told of its own, for any number of clients and workers, any buffer     *)
(* size and any menu of commands, through every race with an exit.           *)
EXTENDS MTServer_proofs

-----------------------------------------------------------------------------
(* The parts of the inductive invariant behind JobsAccounted,               *)
(* OutcomeGoesHome and ImplementsPool                                       *)

Carrying == {w \in Workers : wpc[w] \in {"run", "send", "close"}}
Told     == [c \in Clients |->
                {i \in DOMAIN stream[c] : stream[c][i].kind \in Outcomes}]

(* The descriptor is closed, or belongs to whoever ends the job.            *)
NotHers   == {"away", "inserted", "kill", "detach", "done"}
Inserting == {"insert", "full", "insertwait", "inserted", "refuse"}

(* The jobs that their controllers have let go of, clients still connected. *)
Released ==
    {job \in Job : /\ Handed(job.owner) /\ job = cjob[job.owner]
                   /\ fdTable[job.sock] = job.owner}

(* A controller knows its own job, and its client's descriptor until it has *)
(* answered.                                                                *)
OwnJob ==
    \A c \in Clients :
        /\ cpc[c] \in WithoutJobID => cjob[c] = NoJob
        /\ cpc[c] = "away" => command[c] = NoCommand
        /\ cpc[c] \in Inserting => command[c].op = "issueJob"
        /\ cpc[c] \notin Inserting \cup WithoutJobID \cup {"detach", "done"} =>
            command[c].op # "issueJob"
        /\ command[c].op = "issueJob" /\ cpc[c] \notin WithoutJobID =>
            cjob[c] \in Job /\ cjob[c].owner = c /\ cjob[c].sock = sock[c]
        /\ cpc[c] \notin NotHers => fdTable[sock[c]] = c

(* A client has at most one job in the buffer, in a worker or in the hands  *)
(* of a stop, and in one of the three only.                                 *)
InBuffer ==
    \A i \in DOMAIN queue :
        /\ queue[i] \in Released /\ Told[queue[i].owner] = {}
        /\ \A k \in DOMAIN queue : queue[k].owner = queue[i].owner => k = i

AtWorker ==
    \A w \in Carrying :
        /\ wjob[w] \in Released
        /\ wpc[w] # "close" => Told[wjob[w].owner] = {}
        /\ \A i \in DOMAIN queue : queue[i].owner # wjob[w].owner
        /\ \A v \in Carrying : wjob[v].owner = wjob[w].owner => v = w

AtStop ==
    \A c \in Clients : cpc[c] = "stopped" =>
        /\ cjob[c] \in Released \cup astray
        /\ \A i \in DOMAIN queue : queue[i].owner # cjob[c].owner
        /\ \A w \in Carrying : wjob[w].owner # cjob[c].owner

(* A client is told one outcome, that of its own job, when its controller   *)
(* has let go of it.  One whose job went astray may be told twice.          *)
ToldOnce ==
    \A c \in Clients : \A i \in Told[c] :
        /\ Handed(c) /\ stream[c][i].job = cjob[c]
        /\ cjob[c] \in astray \/ \A k \in Told[c] : k = i

NoneLost ==
    \A c \in Clients : Handed(c) =>
        \/ \E i \in DOMAIN queue : queue[i].owner = c
        \/ \E w \in Executing : wjob[w].owner = c
        \/ mpc = "tell" /\ mjob.owner = c
        \/ Told[c] # {} \/ cjob[c] \in astray

(* A job of somebody whose controller let go of it; the descriptor is hers  *)
(* or closed, as nobody connects any more.                                  *)
Hers(job) == /\ Handed(job.owner) /\ job = cjob[job.owner]
             /\ fdTable[job.sock] \in {job.owner, NoThread}

OutOfLine(job)  == \A i \in DOMAIN queue : queue[i].owner # job.owner
NotStopped(job) ==
    \A c \in Clients : cpc[c] = "stopped" => cjob[c].owner # job.owner

GonePCs == {"gone", "goneholding"}
HandPCs == {"pop", "tell", "hangup"}

(* When main drains, the workers have gone.  The job it has copied is the   *)
(* head of the line until it is popped, or a stop has taken it; what main   *)
(* has popped nobody else has, unless it went astray.                       *)
AtDrain ==
    /\ mpc \in LeavingPCs => \A w \in Workers : wpc[w] \in GonePCs
    /\ astray # {} => mpc \in LeavingPCs
    /\ \A job \in astray : Hers(job) /\ OutOfLine(job)
    /\ mpc \in HandPCs => Hers(mjob)
    /\ mpc = "pop" => \/ 1 \in DOMAIN queue /\ queue[1] = mjob
                      \/ Told[mjob.owner] # {}
    /\ mpc \in {"tell", "hangup"} /\ mjob \notin astray =>
        /\ mjob \in Released /\ OutOfLine(mjob) /\ NotStopped(mjob)
        /\ mpc = "tell" => Told[mjob.owner] = {}

JobsInv == /\ OwnJob /\ InBuffer /\ AtWorker /\ AtStop
           /\ ToldOnce /\ NoneLost /\ AtDrain

-----------------------------------------------------------------------------
LEMMA JobFields ==
    ASSUME NEW job \in Job
    PROVE  job.owner \in Clients /\ job.sock \in FDs
BY DEF Job

LEMMA Types ==
    ASSUME IInv
    PROVE  /\ wpc \in [Workers -> WorkerPCs] /\ wjob \in [Workers -> Job \cup {NoJob}]
           /\ cpc \in [Clients -> ControllerPCs] /\ cjob \in [Clients -> Job \cup {NoJob}]
           /\ command \in [Clients -> Commands \cup {NoCommand}]
           /\ sock \in [Clients -> FDs \cup {0}]
           /\ fdTable \in [FDs -> Clients \cup {NoThread}]
           /\ stream \in [Clients -> Seq(Message)]
           /\ queue \in Seq(Job) /\ Len(queue) \in Nat
           /\ DOMAIN queue = 1 .. Len(queue)
           /\ \A i \in DOMAIN queue : queue[i] \in Job
           /\ NoThread \notin Clients
BY LenProperties, ThreadsAssumption DEF IInv, TypeOK

LEMMA OpsAreCommands ==
    ASSUME NEW cmd \in Commands
    PROVE  cmd.op \in Ops
BY CommandsAssumption

-----------------------------------------------------------------------------
(* What the clients are told                                                 *)

(* Nothing new is told, and what was told stays.                             *)
SameTold ==
    /\ Told' = Told
    /\ \A c \in Clients : \A i \in Told[c] : stream'[c][i] = stream[c][i]

(* Client c is told how job ended.                                           *)
Tells(c, job) ==
    \E n \in Nat :
        /\ Told'[c] = Told[c] \cup {n}
        /\ \A d \in Clients : d # c => Told'[d] = Told[d]
        /\ stream'[c][n].job = job
        /\ \A d \in Clients : \A i \in Told[d] : stream'[d][i] = stream[d][i]

LEMMA StreamStays ==
    ASSUME stream' = stream
    PROVE  SameTold
BY DEF SameTold, Told

(* A message appended to what client o was sent.                             *)
LEMMA Sent ==
    ASSUME stream \in [Clients -> Seq(Message)], NEW o \in Clients,
           NEW m \in Message, stream' = [stream EXCEPT ![o] = Append(@, m)]
    PROVE  LET n == Len(stream[o]) + 1
           IN  /\ n \in Nat /\ n \notin DOMAIN stream[o]
               /\ DOMAIN stream'[o] = DOMAIN stream[o] \cup {n}
               /\ stream'[o][n] = m
               /\ \A d \in Clients : \A i \in DOMAIN stream[d] :
                        stream'[d][i] = stream[d][i]
               /\ \A d \in Clients : d # o => stream'[d] = stream[d]
<1>1. stream[o] \in Seq(Message)
  OBVIOUS
<1>2. Len(stream[o]) \in Nat /\ DOMAIN stream[o] = 1 .. Len(stream[o])
  BY <1>1, LenProperties
<1>3. stream'[o] = Append(stream[o], m)
  OBVIOUS
<1>4. /\ Len(Append(stream[o], m)) = Len(stream[o]) + 1
      /\ \A i \in 1 .. Len(stream[o]) : Append(stream[o], m)[i] = stream[o][i]
      /\ Append(stream[o], m)[Len(stream[o]) + 1] = m
      /\ DOMAIN Append(stream[o], m) = 1 .. (Len(stream[o]) + 1)
  BY <1>1, AppendProperties, LenProperties
<1> QED
  BY <1>2, <1>3, <1>4

LEMMA WriteAside ==
    ASSUME IInv, NEW fd \in FDs, NEW kind \in {"SUBMITTED", "REPLY"},
           NEW job \in Job \cup {NoJob}, Write(fd, kind, job)
    PROVE  SameTold
<1>1. CASE fdTable[fd] = NoThread
  BY <1>1, StreamStays DEF Write
<1>2. CASE fdTable[fd] # NoThread
  <2> DEFINE o == fdTable[fd]
             m == [kind |-> kind, job |-> job]
             n == Len(stream[o]) + 1
  <2>1. o \in Clients /\ m \in Message /\ stream \in [Clients -> Seq(Message)]
    BY <1>2, Types DEF Message
  <2>2. stream' = [stream EXCEPT ![o] = Append(@, m)]
    BY <1>2 DEF Write
  <2>3. m.kind \notin Outcomes
    BY DEF Outcomes
  <2> HIDE DEF o, m
  <2>4. /\ n \notin DOMAIN stream[o]
        /\ DOMAIN stream'[o] = DOMAIN stream[o] \cup {n}
        /\ stream'[o][n] = m
        /\ \A d \in Clients : \A i \in DOMAIN stream[d] : stream'[d][i] = stream[d][i]
        /\ \A d \in Clients : d # o => stream'[d] = stream[d]
    BY <2>1, <2>2, Sent
  <2> HIDE DEF n
  <2>5. \A d \in Clients : Told'[d] = Told[d]
    BY <2>3, <2>4 DEF Told
  <2>6. Told' = Told
    BY <2>5 DEF Told
  <2> QED
    BY <2>4, <2>6 DEF SameTold, Told
<1> QED
  BY <1>1, <1>2

LEMMA WriteOutcome ==
    ASSUME IInv, NEW fd \in FDs, NEW kind \in Outcomes, NEW job \in Job,
           NEW o \in Clients, fdTable[fd] = o, Write(fd, kind, job)
    PROVE  Tells(o, job)
<1> DEFINE m == [kind |-> kind, job |-> job]
           n == Len(stream[o]) + 1
<1>1. m \in Message /\ stream \in [Clients -> Seq(Message)]
  BY Types DEF Message
<1>2. stream' = [stream EXCEPT ![o] = Append(@, m)]
  BY Types DEF Write
<1>3. m.kind \in Outcomes /\ m.job = job
  OBVIOUS
<1> HIDE DEF m
<1>4. /\ n \in Nat /\ n \notin DOMAIN stream[o]
      /\ DOMAIN stream'[o] = DOMAIN stream[o] \cup {n}
      /\ stream'[o][n] = m
      /\ \A d \in Clients : \A i \in DOMAIN stream[d] : stream'[d][i] = stream[d][i]
      /\ \A d \in Clients : d # o => stream'[d] = stream[d]
  BY <1>1, <1>2, Sent
<1> HIDE DEF n
<1>5. \A d \in Clients : d # o => Told'[d] = Told[d]
  BY <1>4 DEF Told
<1>6. Told'[o] = Told[o] \cup {n}
  BY <1>3, <1>4 DEF Told
<1> QED
  BY <1>3, <1>4, <1>5, <1>6 DEF Tells, Told

-----------------------------------------------------------------------------
(* Steps that move no job                                                    *)

HandedPCs == {"inserted", "detach", "done"}

(* Main has no job in hand and takes none.                                   *)
MainAside ==
    /\ UNCHANGED <<mjob, astray>>
    /\ \/ mpc' = mpc
       \/ /\ mpc \notin HandPCs /\ mpc' \notin HandPCs
          /\ mpc \in LeavingPCs => mpc' \in LeavingPCs
          /\ mpc' \in LeavingPCs =>
                mpc \in LeavingPCs \/ \A w \in Workers : wpc[w] \in GonePCs

(* What a step has to leave alone for main to find its jobs as they were.    *)
LEMMA DrainKept ==
    ASSUME IInv, JobsInv, MainAside,
           mpc' \in LeavingPCs => wpc' = wpc,
           \A job \in Job : Hers(job) => Hers(job)',
           \A job \in Job : Handed(job.owner) /\ OutOfLine(job) => OutOfLine(job)',
           1 \in DOMAIN queue =>
                \/ 1 \in DOMAIN queue' /\ queue'[1] = queue[1]
                \/ Told'[queue[1].owner] # {},
           \A c \in Clients : Told[c] # {} => Told'[c] # {},
           \A job \in Released : OutOfLine(job) /\ NotStopped(job) =>
                /\ job \in Released' /\ NotStopped(job)'
                /\ Told[job.owner] = {} => Told'[job.owner] = {}
    PROVE  AtDrain'
<1>1. AtDrain /\ astray \subseteq Job /\ (mpc \in HandPCs => mjob \in Job)
  BY DEF JobsInv, IInv, TypeOK, HandSet, HandPCs
<1>2. mjob' = mjob /\ astray' = astray
  BY DEF MainAside
<1>3. /\ mpc' \in LeavingPCs => \A w \in Workers : wpc'[w] \in GonePCs
      /\ astray' # {} => mpc' \in LeavingPCs
  BY <1>1, <1>2 DEF AtDrain, MainAside
<1>4. \A job \in astray' : Hers(job)' /\ OutOfLine(job)'
  BY <1>1, <1>2 DEF AtDrain, Hers
<1>5. mpc' \in HandPCs => mpc' = mpc /\ mjob \in Job /\ mjob.owner \in Clients
  BY <1>1, JobFields DEF MainAside
<1>6. mpc' \in HandPCs => Hers(mjob)'
  BY <1>1, <1>2, <1>5 DEF AtDrain
<1>7. mpc' = "pop" => \/ 1 \in DOMAIN queue' /\ queue'[1] = mjob'
                      \/ Told'[mjob'.owner] # {}
  BY <1>1, <1>2, <1>5 DEF AtDrain, HandPCs
<1>8. ASSUME mpc' \in {"tell", "hangup"}, mjob' \notin astray'
      PROVE  /\ mjob' \in Released' /\ OutOfLine(mjob)' /\ NotStopped(mjob)'
             /\ mpc' = "tell" => Told'[mjob'.owner] = {}
  <2>1. mpc' = mpc /\ mjob \in Job
    BY <1>5, <1>8 DEF HandPCs
  <2>2. /\ mjob \in Released /\ OutOfLine(mjob) /\ NotStopped(mjob)
        /\ mpc = "tell" => Told[mjob.owner] = {}
    BY <1>1, <1>2, <1>8, <2>1 DEF AtDrain
  <2>3. Handed(mjob.owner)
    BY <2>2 DEF Released
  <2> QED
    BY <1>2, <2>1, <2>2, <2>3
<1> QED
  BY <1>3, <1>4, <1>6, <1>7, <1>8 DEF AtDrain

(* A worker that has not gone takes a step: main does not drain yet.         *)
LEMMA WorkerBeforeDrain ==
    ASSUME JobsInv, NEW w \in Workers, wpc[w] \notin GonePCs, UNCHANGED <<main, history>>
    PROVE  /\ AtDrain' /\ mpc \notin LeavingPCs /\ astray = {}
           /\ mpc' = mpc /\ mjob' = mjob /\ astray' = astray
BY DEF JobsInv, AtDrain, main, history, LeavingPCs, HandPCs

(* No worker takes a job up or puts one down.                                *)
LEMMA Aside ==
    ASSUME IInv, JobsInv,
           UNCHANGED <<queue, wjob, controllers, fdTable>>, SameTold, MainAside,
           mpc' \in LeavingPCs => wpc' = wpc,
           Carrying' = Carrying, Executing' = Executing
    PROVE  JobsInv'
<1> USE DEF controllers
<1>0. astray' = astray /\ mjob' = mjob /\ (mpc = "tell" <=> mpc' = "tell")
  BY DEF MainAside, HandPCs
<1>1. \A w \in Carrying : wpc'[w] # "close" <=> wpc[w] # "close"
  BY DEF Carrying, Executing
<1>2. Told' = Told /\ \A c \in Clients : \A i \in Told[c] : stream'[c][i] = stream[c][i]
  BY DEF SameTold
<1>3. OwnJob'
  BY DEF JobsInv, OwnJob
<1>4. InBuffer'
  BY <1>2 DEF JobsInv, InBuffer, Released, Handed
<1>5. AtWorker'
  BY <1>1, <1>2 DEF JobsInv, AtWorker, Released, Handed
<1>6. AtStop'
  BY <1>0 DEF JobsInv, AtStop, Released, Handed
<1>7. ToldOnce'
  BY <1>0, <1>2 DEF JobsInv, ToldOnce, Handed
<1>8. NoneLost'
  BY <1>0, <1>2 DEF JobsInv, NoneLost, Handed
<1>9. /\ \A job : Handed(job.owner)' <=> Handed(job.owner)
      /\ \A job : Hers(job)' <=> Hers(job)
      /\ \A job : OutOfLine(job)' <=> OutOfLine(job)
      /\ \A job : NotStopped(job)' <=> NotStopped(job)
      /\ Released' = Released
  BY DEF Handed, Hers, OutOfLine, NotStopped, Released
<1>10. AtDrain'
  BY <1>2, <1>9, DrainKept
<1> QED
  BY <1>3, <1>4, <1>5, <1>6, <1>7, <1>8, <1>10 DEF JobsInv

(* A controller takes a step that neither makes nor hands over a job, and    *)
(* still has its client's descriptor if it needs it afterwards.              *)
LEMMA Quiet ==
    ASSUME IInv, JobsInv, NEW c \in Clients, NEW to, GoC(c, to),
           UNCHANGED <<queue, workers, command, cjob, sock, fdTable>>, SameTold,
           MainAside,
           to \notin {"away", "stopped"}, cpc[c] # "stopped",
           to \in WithoutJobID => cpc[c] \in WithoutJobID,
           to \in Inserting => cpc[c] \in Inserting,
           to \notin NotHers => cpc[c] \notin NotHers,
           command[c].op = "issueJob" =>
                /\ to \in Inserting \cup WithoutJobID \cup {"detach", "done"}
                /\ cpc[c] \in WithoutJobID <=> to \in WithoutJobID
                /\ cpc[c] \in HandedPCs <=> to \in HandedPCs
    PROVE  JobsInv'
<1> USE DEF workers
<1>0. astray' = astray /\ mjob' = mjob /\ (mpc = "tell" <=> mpc' = "tell")
  BY DEF MainAside, HandPCs
<1>1. cpc'[c] = to /\ \A d \in Clients : d # c => cpc'[d] = cpc[d]
  BY Types DEF GoC
<1>2. \A d \in Clients : Handed(d)' <=> Handed(d)
  BY <1>1 DEF Handed, HandedPCs
<1>3. Carrying' = Carrying /\ Executing' = Executing
  BY DEF Carrying, Executing
<1>4. Told' = Told /\ \A d \in Clients : \A i \in Told[d] : stream'[d][i] = stream[d][i]
  BY DEF SameTold
<1>5. Released' = Released
  BY <1>2, JobFields DEF Released
<1>6. OwnJob'
  BY <1>1 DEF JobsInv, OwnJob
<1>7. InBuffer'
  BY <1>4, <1>5, Types DEF JobsInv, InBuffer
<1>8. AtWorker'
  BY <1>3, <1>4, <1>5 DEF JobsInv, AtWorker, Released
<1>9. AtStop'
  BY <1>0, <1>1, <1>3, <1>5 DEF JobsInv, AtStop, Released
<1>10. ToldOnce'
  BY <1>0, <1>2, <1>4 DEF JobsInv, ToldOnce
<1>11. NoneLost'
  BY <1>0, <1>2, <1>3, <1>4 DEF JobsInv, NoneLost
<1>12. /\ \A job \in Job : Hers(job)' <=> Hers(job)
       /\ \A job : OutOfLine(job)' <=> OutOfLine(job)
       /\ \A job : NotStopped(job)' <=> NotStopped(job)
  BY <1>1, <1>2, JobFields DEF Hers, OutOfLine, NotStopped
<1>13. AtDrain'
  BY <1>4, <1>5, <1>12, DrainKept
<1> QED
  BY <1>6, <1>7, <1>8, <1>9, <1>10, <1>11, <1>13 DEF JobsInv

(* A descriptor is closed: whoever is connected elsewhere stays so.          *)
LEMMA Closed ==
    ASSUME IInv, NEW fd \in FDs, NEW o \in Clients,
           fdTable[fd] \in {o, NoThread}, CloseFD(fd)
    PROVE  /\ \A f \in FDs : \A c \in Clients :
                fdTable[f] = c /\ c # o => fdTable'[f] = c
           /\ \A f \in FDs : fdTable'[f] \in {fdTable[f], NoThread}
BY Types DEF CloseFD

-----------------------------------------------------------------------------
(* Workers                                                                   *)

LEMMA TopOfQueue ==
    ASSUME IInv, ~Empty
    PROVE  /\ Top(queue) = queue[1] /\ 1 \in DOMAIN queue
           /\ DOMAIN Pop(queue) = 1 .. (Len(queue) - 1)
           /\ \A i \in DOMAIN Pop(queue) :
                Pop(queue)[i] = queue[i + 1] /\ i + 1 \in DOMAIN queue /\ i + 1 # 1
<1>1. queue \in Seq(Job) /\ queue # <<>> /\ Len(queue) \in Nat /\ Len(queue) # 0
  BY Types, LenProperties DEF Empty
<1>2. /\ Len(Tail(queue)) = Len(queue) - 1
      /\ \A i \in 1 .. Len(Tail(queue)) : Tail(queue)[i] = queue[i + 1]
      /\ DOMAIN Tail(queue) = 1 .. Len(Tail(queue))
      /\ Head(queue) = queue[1]
  BY <1>1, HeadTailProperties, LenProperties
<1> QED
  BY <1>1, <1>2, Types DEF Top, Pop

LEMMA TakeJobKeeps ==
    ASSUME IInv, JobsInv, NEW w \in Workers, TakeJob(w)
    PROVE  JobsInv'
<1> DEFINE job == queue[1]
<1>1. /\ wjob' = [wjob EXCEPT ![w] = job] /\ queue' = Pop(queue)
      /\ GoW(w, "run") /\ UNCHANGED <<cpc, command, cjob, sock, fdTable, stream>>
      /\ wpc[w] \notin {"run", "send", "close"}
  BY TopOfQueue DEF TakeJob, AtBuffer, controllers, network
<1>0. /\ AtDrain' /\ astray = {} /\ astray' = astray
      /\ mpc' = mpc /\ mjob' = mjob /\ mpc \notin LeavingPCs
  <2>1. wpc[w] \notin GonePCs /\ UNCHANGED <<main, history>>
    BY DEF TakeJob, AtBuffer, GonePCs
  <2> QED
    BY <2>1, WorkerBeforeDrain
<1>2. /\ 1 \in DOMAIN queue /\ \A i \in DOMAIN queue' :
            queue'[i] = queue[i + 1] /\ i + 1 \in DOMAIN queue /\ i + 1 # 1
  BY <1>1, TopOfQueue DEF TakeJob
<1>3. /\ wpc'[w] = "run" /\ \A v \in Workers : v # w => wpc'[v] = wpc[v]
      /\ wjob'[w] = job /\ \A v \in Workers : v # w => wjob'[v] = wjob[v]
  BY <1>1, Types DEF GoW
<1>4. /\ w \notin Carrying /\ Carrying' = Carrying \cup {w}
      /\ Executing' = Executing \cup {w}
  BY <1>1, <1>3 DEF Carrying, Executing
<1>5. Told' = Told
  BY <1>1, StreamStays DEF SameTold
<1>6. Released' = Released
  BY <1>1 DEF Released, Handed
<1>7. job \in Released /\ Told[job.owner] = {}
      /\ \A k \in DOMAIN queue : queue[k].owner = job.owner => k = 1
  BY <1>2 DEF JobsInv, InBuffer
<1> HIDE DEF job
<1>8. \A i \in DOMAIN queue : \A v \in Carrying : queue[i].owner # wjob[v].owner
  BY DEF JobsInv, AtWorker
<1>9. OwnJob'
  BY <1>1 DEF JobsInv, OwnJob
<1>10. InBuffer'
  <2> SUFFICES ASSUME NEW i \in DOMAIN queue'
               PROVE  /\ queue'[i] \in Released' /\ Told'[queue'[i].owner] = {}
                      /\ \A k \in DOMAIN queue' : queue'[k].owner = queue'[i].owner => k = i
    BY DEF InBuffer
  <2>1. queue'[i] = queue[i + 1] /\ i + 1 \in DOMAIN queue
    BY <1>2
  <2>2. queue'[i] \in Released' /\ Told'[queue'[i].owner] = {}
    BY <2>1, <1>5, <1>6 DEF JobsInv, InBuffer, Released
  <2>3. ASSUME NEW k \in DOMAIN queue', queue'[k].owner = queue'[i].owner
        PROVE  k = i
    <3>1. k + 1 = i + 1
      BY <1>2, <2>1, <2>3 DEF JobsInv, InBuffer
    <3>2. k \in Int /\ i \in Int
      BY <1>1, TopOfQueue DEF TakeJob
    <3> QED
      BY <3>1, <3>2
  <2> QED
    BY <2>2, <2>3
<1>11. AtWorker'
  <2>1. \A i \in DOMAIN queue' : queue'[i].owner # job.owner
    BY <1>2, <1>7
  <2>2. \A v \in Carrying : wjob[v].owner # job.owner
    BY <1>2, <1>8 DEF job
  <2>3. \A v \in Carrying : v # w /\ v \in Workers
    BY <1>4 DEF Carrying
  <2>4. job \in Released' /\ \A v \in Carrying : wjob[v] \in Released'
    BY <1>6, <1>7 DEF JobsInv, AtWorker, Released
  <2>5. \A v \in Carrying : (wpc[v] # "close" => Told[wjob[v].owner] = {})
                              /\ \A i \in DOMAIN queue' : queue'[i].owner # wjob[v].owner
    BY <1>2, <1>8 DEF JobsInv, AtWorker
  <2>6. \A u, v \in Carrying : wjob[v].owner = wjob[u].owner => v = u
    BY DEF JobsInv, AtWorker
  <2> QED
    BY <1>3, <1>4, <1>5, <1>7, <2>1, <2>2, <2>3, <2>4, <2>5, <2>6 DEF AtWorker
<1>12. AtStop'
  <2> SUFFICES ASSUME NEW c \in Clients, cpc[c] = "stopped"
               PROVE  /\ cjob[c] \in Released'
                      /\ \A i \in DOMAIN queue' : queue'[i].owner # cjob[c].owner
                      /\ \A v \in Carrying' : wjob'[v].owner # cjob[c].owner
    BY <1>1 DEF AtStop
  <2>1. /\ cjob[c] \in Released /\ \A i \in DOMAIN queue : queue[i].owner # cjob[c].owner
        /\ \A v \in Carrying : wjob[v].owner # cjob[c].owner
    BY <1>0 DEF JobsInv, AtStop
  <2>2. \A v \in Carrying : wjob'[v] = wjob[v]
    BY <1>3, <1>4 DEF Carrying
  <2> QED
    BY <1>1, <1>2, <1>3, <1>4, <1>6, <2>1, <2>2 DEF job, Released
<1>13. ToldOnce'
  BY <1>0, <1>1, <1>5 DEF JobsInv, ToldOnce, Handed
<1>14. NoneLost'
  <2> SUFFICES ASSUME NEW c \in Clients, Handed(c)'
               PROVE  \/ \E i \in DOMAIN queue' : queue'[i].owner = c
                      \/ \E v \in Executing' : wjob'[v].owner = c
                      \/ Told'[c] # {}
    BY DEF NoneLost
  <2>1. \/ \E i \in DOMAIN queue : queue[i].owner = c
        \/ \E v \in Executing : wjob[v].owner = c
        \/ Told[c] # {}
    BY <1>0, <1>1 DEF JobsInv, NoneLost, Handed, LeavingPCs
  <2>2. ASSUME NEW i \in DOMAIN queue, queue[i].owner = c
        PROVE  \/ \E k \in DOMAIN queue' : queue'[k].owner = c
               \/ \E v \in Executing' : wjob'[v].owner = c
    <3>1. CASE i = 1
      BY <1>3, <1>4, <2>2, <3>1 DEF job
    <3>2. CASE i # 1
      <4>1. i - 1 \in DOMAIN queue' /\ queue'[i - 1] = queue[i]
        <5>1. i - 1 \in 1 .. (Len(queue) - 1) /\ (i - 1) + 1 = i
          BY <3>2, Types
        <5> QED
          BY <5>1, <1>1, TopOfQueue DEF TakeJob
      <4> QED
        BY <2>2, <4>1
    <3> QED
      BY <3>1, <3>2
  <2>3. \A v \in Executing : v \in Executing' /\ wjob'[v] = wjob[v]
    BY <1>3, <1>4 DEF Carrying, Executing
  <2> QED
    BY <1>5, <2>1, <2>2, <2>3
<1> QED
  BY <1>0, <1>9, <1>10, <1>11, <1>12, <1>13, <1>14 DEF JobsInv

LEMMA SendOutputKeeps ==
    ASSUME IInv, JobsInv, NEW w \in Workers, SendOutput(w)
    PROVE  JobsInv'
<1> DEFINE job == wjob[w]
           o == job.owner
<1>1. /\ UNCHANGED <<queue, wjob, cpc, command, cjob, sock, fdTable>>
      /\ wpc[w] = "send" /\ wpc'[w] = "close"
      /\ \A v \in Workers : v # w => wpc'[v] = wpc[v]
  BY Types DEF SendOutput, GoW, shared, controllers
<1>0. /\ AtDrain' /\ astray = {} /\ astray' = astray
      /\ mpc' = mpc /\ mjob' = mjob /\ mpc \notin LeavingPCs
  <2>1. wpc[w] \notin GonePCs /\ UNCHANGED <<main, history>>
    BY DEF SendOutput, GonePCs
  <2> QED
    BY <2>1, WorkerBeforeDrain
<1>2. w \in Carrying /\ Carrying' = Carrying /\ Executing' = Executing \ {w}
  BY <1>1 DEF Carrying, Executing
<1>3. /\ job \in Released /\ Told[o] = {}
      /\ \A i \in DOMAIN queue : queue[i].owner # o
      /\ \A v \in Carrying : wjob[v].owner = o => v = w
  BY <1>1, <1>2 DEF JobsInv, AtWorker
<1>4. /\ job \in Job /\ o \in Clients /\ job.sock \in FDs /\ fdTable[job.sock] = o
      /\ Handed(o) /\ job = cjob[o]
  BY <1>3, JobFields DEF Released
<1>5. Tells(o, job)
  BY <1>4, WriteOutcome DEF SendOutput, Outcomes
<1> HIDE DEF job, o
<1>6. PICK n \in Nat : /\ Told'[o] = Told[o] \cup {n}
                       /\ \A d \in Clients : d # o => Told'[d] = Told[d]
                       /\ stream'[o][n].job = job
                       /\ \A d \in Clients : \A i \in Told[d] : stream'[d][i] = stream[d][i]
  BY <1>5 DEF Tells
<1>7. Told'[o] = {n} /\ \A c \in Clients : c # o => Told'[c] = Told[c]
  BY <1>3, <1>6
<1>8. Released' = Released
  BY <1>1 DEF Released, Handed
<1>9. OwnJob'
  BY <1>1 DEF JobsInv, OwnJob
<1>10. InBuffer'
  BY <1>1, <1>3, <1>7, <1>8, JobFields DEF JobsInv, InBuffer, Released
<1>11. AtWorker'
  <2>1. \A v \in Carrying : wpc'[v] # "close" => wjob[v].owner # o /\ wpc[v] # "close"
    BY <1>1, <1>3 DEF Carrying
  <2> QED
    BY <1>1, <1>2, <1>7, <1>8, <2>1, JobFields DEF JobsInv, AtWorker, Released
<1>12. AtStop'
  BY <1>0, <1>1, <1>2, <1>8 DEF JobsInv, AtStop
<1>13. ToldOnce'
  BY <1>0, <1>1, <1>4, <1>6, <1>7 DEF JobsInv, ToldOnce, Handed
<1>14. NoneLost'
  <2>1. \A v \in Executing : v = w \/ v \in Executing'
    BY <1>2
  <2>2. wjob[w].owner = o
    BY DEF o, job
  <2> QED
    BY <1>0, <1>1, <1>7, <2>1, <2>2 DEF JobsInv, NoneLost, Handed
<1> QED
  BY <1>0, <1>9, <1>10, <1>11, <1>12, <1>13, <1>14 DEF JobsInv

(* Who is still connected when the descriptor of o is closed.                *)
LEMMA ReleasedStay ==
    ASSUME IInv, NEW fd \in FDs, NEW o \in Clients,
           fdTable[fd] \in {o, NoThread}, CloseFD(fd),
           UNCHANGED <<cpc, command, cjob>>
    PROVE  \A job \in Released : job.owner # o => job \in Released'
<1> SUFFICES ASSUME NEW job \in Released, job.owner # o
             PROVE  job \in Released'
  OBVIOUS
<1>1. job \in Job /\ job.owner \in Clients /\ job.sock \in FDs
  BY JobFields DEF Released
<1>2. fdTable'[job.sock] = job.owner
  BY <1>1, Closed DEF Released
<1> QED
  BY <1>1, <1>2 DEF Released, Handed

LEMMA CloseClientKeeps ==
    ASSUME IInv, JobsInv, NEW w \in Workers, CloseClient(w)
    PROVE  JobsInv'
<1> DEFINE job == wjob[w]
           o == job.owner
<1>1. /\ UNCHANGED <<queue, cpc, command, cjob, sock, stream>>
      /\ CloseFD(job.sock)
      /\ wpc[w] = "close" /\ wpc'[w] = "release"
      /\ \A v \in Workers : v # w => wpc'[v] = wpc[v] /\ wjob'[v] = wjob[v]
  BY Types DEF CloseClient, GoW, shared, controllers
<1>0. /\ AtDrain' /\ astray = {} /\ astray' = astray
      /\ mpc' = mpc /\ mjob' = mjob /\ mpc \notin LeavingPCs
  <2>1. wpc[w] \notin GonePCs /\ UNCHANGED <<main, history>>
    BY DEF CloseClient, GonePCs
  <2> QED
    BY <2>1, WorkerBeforeDrain
<1>2. /\ w \in Carrying /\ w \notin Executing /\ Carrying' = Carrying \ {w}
      /\ Executing' = Executing
  BY <1>1 DEF Carrying, Executing
<1>3. /\ job \in Released
      /\ \A i \in DOMAIN queue : queue[i].owner # o
      /\ \A v \in Carrying : wjob[v].owner = o => v = w
  BY <1>1, <1>2 DEF JobsInv, AtWorker
<1>4. o \in Clients /\ job.sock \in FDs /\ fdTable[job.sock] = o /\ Handed(o)
  BY <1>3, JobFields DEF Released
<1>5. \A j \in Released : j.owner # o => j \in Released'
  BY <1>1, <1>4, ReleasedStay
<1>6. \A c \in Clients : cpc[c] = "stopped" => cjob[c].owner # o
  BY <1>2 DEF JobsInv, AtStop
<1>7. \A c \in Clients : cpc[c] \notin NotHers => fdTable'[sock[c]] = c
  <2> SUFFICES ASSUME NEW c \in Clients, cpc[c] \notin NotHers
               PROVE  fdTable'[sock[c]] = c
    OBVIOUS
  <2>1. c # o
    BY <1>4 DEF Handed, NotHers
  <2>2. fdTable[sock[c]] = c /\ sock[c] \in FDs
    BY DEF JobsInv, OwnJob, IInv, LocalsSet, NotHers
  <2> QED
    BY <1>1, <1>4, <2>1, <2>2, Closed
<1> HIDE DEF job, o
<1>8. Told' = Told
  BY <1>1, StreamStays DEF SameTold
<1>9. \A v \in Carrying' : v # w /\ v \in Carrying /\ v \in Workers
  BY <1>2 DEF Carrying
<1>10. OwnJob'
  BY <1>1, <1>7 DEF JobsInv, OwnJob
<1>11. InBuffer'
  BY <1>1, <1>3, <1>5, <1>8 DEF JobsInv, InBuffer
<1>12. AtWorker'
  BY <1>1, <1>3, <1>5, <1>8, <1>9 DEF JobsInv, AtWorker
<1>13. AtStop'
  BY <1>0, <1>1, <1>5, <1>6, <1>9 DEF JobsInv, AtStop
<1>14. ToldOnce'
  BY <1>0, <1>1, <1>8 DEF JobsInv, ToldOnce, Handed
<1>15. NoneLost'
  <2>1. \A v \in Executing : v # w /\ v \in Workers
    BY <1>2 DEF Executing
  <2> QED
    BY <1>0, <1>1, <1>2, <1>8, <2>1 DEF JobsInv, NoneLost, Handed
<1> QED
  BY <1>0, <1>10, <1>11, <1>12, <1>13, <1>14, <1>15 DEF JobsInv

LEMMA WorkerKeeps ==
    ASSUME IInv, JobsInv, NEW w \in Workers, WorkerStep(w) \/ ChildExit(w)
    PROVE  JobsInv'
<1>1. CASE /\ UNCHANGED <<queue, wjob, controllers, network>>
           /\ \E to \in WorkerPCs : GoW(w, to) /\ (to \in {"run", "send", "close"} =>
                     to = "send" /\ wpc[w] = "run")
           /\ wpc[w] \notin {"send", "close"}
           /\ wpc[w] = "run" => GoW(w, "send")
  <2>1. Carrying' = Carrying /\ Executing' = Executing
    BY <1>1, Types DEF GoW, Carrying, Executing
  <2>2. wpc[w] \notin GonePCs /\ UNCHANGED <<main, history>>
    BY DEF WorkerStep, WorkerTop, CheckSlot, SleepForSlot, LeaveSlotWait,
       ReserveSlot, TakeJob, FindEmpty, AtBuffer, SleepForJob, LeaveTakeWait,
       SendOutput, CloseClient, ReleaseSlot, ChildExit, GonePCs
  <2>3. mpc' \notin LeavingPCs /\ MainAside
    BY <2>2, WorkerBeforeDrain DEF MainAside, main
  <2> QED
    BY <1>1, <2>1, <2>3, StreamStays, Aside DEF network
<1>2. WorkerStep(w) \/ ChildExit(w) =>
        \/ TakeJob(w) \/ SendOutput(w) \/ CloseClient(w)
        \/ /\ UNCHANGED <<queue, wjob, controllers, network>>
           /\ \E to \in WorkerPCs : GoW(w, to) /\ (to \in {"run", "send", "close"} =>
                     to = "send" /\ wpc[w] = "run")
           /\ wpc[w] \notin {"send", "close"}
           /\ wpc[w] = "run" => GoW(w, "send")
  BY DEF WorkerStep, WorkerTop, CheckSlot, SleepForSlot, LeaveSlotWait,
     ReserveSlot, FindEmpty, AtBuffer, SleepForJob, LeaveTakeWait, ChildExit,
     ReleaseSlot, WorkerPCs, shared
<1> QED
  BY <1>1, <1>2, TakeJobKeeps, SendOutputKeeps, CloseClientKeeps

-----------------------------------------------------------------------------
(* Controllers                                                               *)

LEMMA ControllerAside ==
    ASSUME NEW c \in Clients, ControllerStep(c)
    PROVE  MainAside /\ wpc' = wpc
<1>1. CASE KillMain(c)
  BY <1>1 DEF KillMain, MainAside, HandPCs, LeavingPCs, history, workers
<1>2. CASE SetConcurrency(c)
  BY <1>2 DEF SetConcurrency, MainAside, main, workers
<1>3. CASE ~KillMain(c) /\ ~SetConcurrency(c)
  <2>1. UNCHANGED <<main, history, wpc>>
    BY <1>3 DEF ControllerStep, CountController, Malformed, NewJob, InsertJob,
       FindFull, SleepForRoom, GiveUpInsert, Refuse, ReportSubmitted, Answer,
       StopQueued, StopClose, StopNotFound, Reply, Poll, SetExit, WakeRunning,
       WakeNonempty, WakeNonfull, ExitReply, Detach, workers
  <2> QED
    BY <2>1 DEF MainAside, main, history
<1> QED
  BY <1>1, <1>2, <1>3

LEMMA NewJobKeeps ==
    ASSUME IInv, IInv', JobsInv, NEW c \in Clients, NewJob(c), MainAside
    PROVE  JobsInv'
<1>1. /\ UNCHANGED <<queue, wpc, wjob, command, sock, fdTable, stream>>
      /\ cpc[c] = "issueJob" /\ cpc'[c] = "insert"
      /\ cjob'[c].owner = c /\ cjob'[c].sock = sock[c]
      /\ \A d \in Clients : d # c => cpc'[d] = cpc[d] /\ cjob'[d] = cjob[d]
  BY Types DEF NewJob, GoC, workers, network
<1>0. astray' = astray /\ mjob' = mjob /\ (mpc = "tell" <=> mpc' = "tell")
  BY DEF MainAside, HandPCs
<1>2. command[c].op = "issueJob" /\ cjob'[c] \in Job
  BY <1>1 DEF IInv, LocalsSet, Ops
<1>3. ~Handed(c) /\ ~Handed(c)' /\ \A d \in Clients : d # c => (Handed(d)' <=> Handed(d))
  BY <1>1 DEF Handed
<1>4. Released' = Released
  BY <1>1, <1>3, JobFields DEF Released
<1>5. Told' = Told /\ Carrying' = Carrying /\ Executing' = Executing
  BY <1>1, StreamStays DEF SameTold, Carrying, Executing
<1>6. OwnJob'
  BY <1>1, <1>2 DEF JobsInv, OwnJob, WithoutJobID, Inserting, NotHers
<1>7. InBuffer'
  BY <1>1, <1>4, <1>5 DEF JobsInv, InBuffer
<1>8. AtWorker'
  BY <1>1, <1>4, <1>5 DEF JobsInv, AtWorker
<1>9. AtStop'
  BY <1>0, <1>1, <1>4, <1>5 DEF JobsInv, AtStop
<1>10. ToldOnce'
  BY <1>0, <1>1, <1>3, <1>5 DEF JobsInv, ToldOnce
<1>11. NoneLost'
  BY <1>0, <1>1, <1>3, <1>5 DEF JobsInv, NoneLost
<1>12. /\ \A job \in Job : Hers(job) => Hers(job)'
       /\ \A job \in Job : OutOfLine(job)' <=> OutOfLine(job)
       /\ \A job \in Job : NotStopped(job)' <=> NotStopped(job)
  BY <1>1, <1>3, JobFields DEF Hers, OutOfLine, NotStopped
<1>13. AtDrain'
  BY <1>1, <1>4, <1>5, <1>12, DrainKept DEF Released
<1> QED
  BY <1>6, <1>7, <1>8, <1>9, <1>10, <1>11, <1>13 DEF JobsInv

LEMMA InsertJobKeeps ==
    ASSUME IInv, JobsInv, NEW c \in Clients, InsertJob(c), MainAside
    PROVE  JobsInv'
<1> DEFINE job == cjob[c]
           n == Len(queue) + 1
<1>1. /\ UNCHANGED <<wpc, wjob, command, cjob, sock, fdTable, stream>>
      /\ cpc[c] \in {"insert", "insertwait"} /\ cpc'[c] = "inserted"
      /\ \A d \in Clients : d # c => cpc'[d] = cpc[d]
      /\ queue' = Append(queue, job)
  BY Types DEF InsertJob, AtFullBuffer, GoC, workers, network, Push
<1>0. astray' = astray /\ mjob' = mjob /\ (mpc = "tell" <=> mpc' = "tell")
  BY DEF MainAside, HandPCs
<1>2. /\ command[c].op = "issueJob"
      /\ job \in Job /\ job.owner = c /\ fdTable[job.sock] = c
  BY <1>1 DEF JobsInv, OwnJob, WithoutJobID, Inserting, NotHers
<1>3. ~Handed(c) /\ Handed(c)' /\ \A d \in Clients : d # c => (Handed(d)' <=> Handed(d))
  BY <1>1, <1>2 DEF Handed
<1>4. Released' = Released \cup {job}
  <2>1. \A j \in Job : j \in Released' <=> (j \in Released \/ j = job)
    <3> SUFFICES ASSUME NEW j \in Job
                 PROVE  j \in Released' <=> (j \in Released \/ j = job)
      OBVIOUS
    <3>1. CASE j.owner = c
      BY <1>1, <1>2, <1>3, <3>1 DEF Released
    <3>2. CASE j.owner # c
      BY <1>1, <1>2, <1>3, <3>2, JobFields DEF Released
    <3> QED
      BY <3>1, <3>2
  <2> QED
    BY <1>2, <2>1 DEF Released
<1>5. \A j \in Released : j.owner # c
  BY <1>3 DEF Released
<1> HIDE DEF job
<1>6. /\ DOMAIN queue' = DOMAIN queue \cup {n} /\ queue'[n] = job
      /\ n \notin DOMAIN queue
      /\ \A i \in DOMAIN queue : queue'[i] = queue[i]
  <2>1. queue \in Seq(Job) /\ Len(queue) \in Nat /\ DOMAIN queue = 1 .. Len(queue)
    BY Types
  <2> QED
    BY <1>1, <1>2, <2>1, AppendProperties, LenProperties
<1> HIDE DEF n
<1>7. Told' = Told /\ Carrying' = Carrying /\ Executing' = Executing
  BY <1>1, StreamStays DEF SameTold, Carrying, Executing
<1>8. Told[c] = {}
  BY <1>3 DEF JobsInv, ToldOnce
<1>9. OwnJob'
  BY <1>1, <1>2 DEF JobsInv, OwnJob, WithoutJobID, Inserting, NotHers
<1>10. InBuffer'
  <2>1. \A i \in DOMAIN queue : queue[i].owner # c
    BY <1>5 DEF JobsInv, InBuffer
  <2> QED
    BY <1>2, <1>4, <1>6, <1>7, <1>8, <2>1 DEF JobsInv, InBuffer
<1>11. AtWorker'
  <2>1. \A w \in Carrying : wjob[w].owner # c
    BY <1>5 DEF JobsInv, AtWorker
  <2> QED
    BY <1>1, <1>2, <1>4, <1>6, <1>7, <2>1 DEF JobsInv, AtWorker
<1>12. AtStop'
  <2>1. \A d \in Clients : cpc[d] = "stopped" => cjob[d].owner # c
    BY <1>3, <1>5 DEF JobsInv, AtStop, AtDrain, Hers
  <2> QED
    BY <1>0, <1>1, <1>2, <1>4, <1>6, <1>7, <2>1 DEF JobsInv, AtStop
<1>13. ToldOnce'
  BY <1>0, <1>1, <1>3, <1>7, <1>8 DEF JobsInv, ToldOnce
<1>14. NoneLost'
  BY <1>0, <1>1, <1>2, <1>3, <1>6, <1>7 DEF JobsInv, NoneLost
<1>15. AtDrain'
  <2>1. \A j \in Job : Hers(j) => Hers(j)'
    BY <1>1, <1>3, JobFields DEF Hers
  <2>2. \A j \in Job : Handed(j.owner) /\ OutOfLine(j) => OutOfLine(j)'
    BY <1>2, <1>3, <1>6 DEF OutOfLine
  <2>3. \A j \in Job : NotStopped(j) => NotStopped(j)'
    BY <1>1 DEF NotStopped
  <2> QED
    BY <1>1, <1>4, <1>6, <1>7, <2>1, <2>2, <2>3, DrainKept DEF Released
<1> QED
  BY <1>9, <1>10, <1>11, <1>12, <1>13, <1>14, <1>15 DEF JobsInv

(* A controller closes its client's descriptor: nobody else needs it.        *)
LEMMA AnswerCloses ==
    ASSUME IInv, JobsInv, NEW c \in Clients, ~Handed(c), cpc[c] \notin NotHers,
           CloseFD(sock[c]), UNCHANGED <<command, cjob, sock>>,
           \A d \in Clients : d # c => cpc'[d] = cpc[d]
    PROVE  /\ \A job \in Released : job \in Released' /\ job.owner # c
           /\ \A d \in Clients : d # c /\ cpc[d] \notin NotHers =>
                    fdTable'[sock[d]] = d
           /\ \A job \in Job : Hers(job) => Hers(job)'
<1>1. \A d \in Clients : cpc[d] \notin NotHers =>
            sock[d] \in FDs /\ fdTable[sock[d]] = d
  BY DEF JobsInv, OwnJob, IInv, LocalsSet, NotHers
<1>2. \A f \in FDs : \A d \in Clients : fdTable[f] = d /\ d # c => fdTable'[f] = d
  BY <1>1, Closed
<1>3. ASSUME NEW job \in Released
      PROVE  job \in Released' /\ job.owner # c
  <2>1. job \in Job /\ job.owner \in Clients /\ job.sock \in FDs /\ job.owner # c
    BY JobFields DEF Released
  <2>2. fdTable'[job.sock] = job.owner
    BY <1>2, <2>1 DEF Released
  <2> QED
    BY <2>1, <2>2 DEF Released, Handed
<1>4. ASSUME NEW job \in Job, Hers(job)
      PROVE  Hers(job)'
  <2>1. job.owner \in Clients /\ job.sock \in FDs /\ job.owner # c
    BY <1>4, JobFields DEF Hers
  <2>2. fdTable'[job.sock] \in {job.owner, NoThread}
    BY <1>1, <1>4, <2>1, Closed DEF Hers
  <2> QED
    BY <1>4, <2>1, <2>2 DEF Hers, Handed
<1> QED
  BY <1>1, <1>2, <1>3, <1>4

(* The answer to a command other than issueJob.                              *)
LEMMA ReplyKeeps ==
    ASSUME IInv, JobsInv, NEW c \in Clients, NEW to \in {"detach", "kill"},
           Answer(c, "REPLY", NoJob, to), command[c].op # "issueJob",
           cpc[c] \notin NotHers \cup {"stopped"}, MainAside, wpc' = wpc
    PROVE  JobsInv'
<1>1. /\ UNCHANGED <<queue, wpc, wjob, command, cjob, sock>>
      /\ cpc'[c] = to /\ \A d \in Clients : d # c => cpc'[d] = cpc[d]
  BY Types DEF Answer, GoC, shared, workers
<1>0. astray' = astray /\ mjob' = mjob /\ (mpc = "tell" <=> mpc' = "tell")
  BY DEF MainAside, HandPCs
<1>2. ~Handed(c) /\ \A d \in Clients : Handed(d)' <=> Handed(d)
  BY <1>1 DEF Handed
<1>3. sock[c] \in FDs
  BY DEF IInv, LocalsSet, NotHers
<1>4. /\ \A job \in Released : job \in Released' /\ job.owner # c
      /\ \A d \in Clients : d # c /\ cpc[d] \notin NotHers => fdTable'[sock[d]] = d
      /\ \A job \in Job : Hers(job) => Hers(job)'
  BY <1>1, <1>2, AnswerCloses DEF Answer
<1>5. SameTold
  BY <1>3, WriteAside DEF Answer
<1>6. Told' = Told /\ \A d \in Clients : \A i \in Told[d] : stream'[d][i] = stream[d][i]
  BY <1>5 DEF SameTold
<1>7. Carrying' = Carrying /\ Executing' = Executing
  BY <1>1 DEF Carrying, Executing
<1>8. OwnJob'
  BY <1>1, <1>4 DEF JobsInv, OwnJob, WithoutJobID, Inserting, NotHers
<1>9. InBuffer'
  BY <1>1, <1>4, <1>6 DEF JobsInv, InBuffer
<1>10. AtWorker'
  BY <1>1, <1>4, <1>6, <1>7 DEF JobsInv, AtWorker
<1>11. AtStop'
  BY <1>0, <1>1, <1>4, <1>7 DEF JobsInv, AtStop
<1>12. ToldOnce'
  BY <1>0, <1>1, <1>2, <1>6 DEF JobsInv, ToldOnce
<1>13. NoneLost'
  BY <1>0, <1>1, <1>2, <1>6, <1>7 DEF JobsInv, NoneLost
<1>14. AtDrain'
  <2>1. /\ \A job \in Job : OutOfLine(job)' <=> OutOfLine(job)
        /\ \A job \in Job : NotStopped(job) => NotStopped(job)'
    BY <1>1 DEF OutOfLine, NotStopped
  <2> QED
    BY <1>1, <1>4, <1>6, <2>1, DrainKept DEF Released
<1> QED
  BY <1>8, <1>9, <1>10, <1>11, <1>12, <1>13, <1>14 DEF JobsInv

LEMMA RefuseKeeps ==
    ASSUME IInv, JobsInv, NEW c \in Clients, Refuse(c), MainAside
    PROVE  JobsInv'
<1>1. /\ UNCHANGED <<queue, wpc, wjob, command, cjob, sock>>
      /\ cpc[c] = "refuse" /\ cpc'[c] = "detach"
      /\ \A d \in Clients : d # c => cpc'[d] = cpc[d]
  BY Types DEF Refuse, Answer, GoC, shared, workers
<1>0. astray' = astray /\ mjob' = mjob /\ (mpc = "tell" <=> mpc' = "tell")
  BY DEF MainAside, HandPCs
<1>2. /\ command[c].op = "issueJob" /\ cjob[c] \in Job /\ fdTable[sock[c]] = c
      /\ sock[c] \in FDs
  BY <1>1 DEF JobsInv, OwnJob, IInv, LocalsSet, WithoutJobID, Inserting, NotHers
<1>3. ~Handed(c) /\ Handed(c)' /\ \A d \in Clients : d # c => (Handed(d)' <=> Handed(d))
  BY <1>1, <1>2 DEF Handed
<1>4. /\ \A job \in Released : job \in Released' /\ job.owner # c
      /\ \A d \in Clients : d # c /\ cpc[d] \notin NotHers => fdTable'[sock[d]] = d
      /\ \A job \in Job : Hers(job) => Hers(job)'
  BY <1>1, <1>3, AnswerCloses DEF Refuse, Answer, NotHers
<1>5. Tells(c, cjob[c])
  BY <1>2, WriteOutcome DEF Refuse, Answer, Outcomes
<1>6. PICK n \in Nat : /\ Told'[c] = Told[c] \cup {n}
                       /\ \A d \in Clients : d # c => Told'[d] = Told[d]
                       /\ stream'[c][n].job = cjob[c]
                       /\ \A d \in Clients : \A i \in Told[d] : stream'[d][i] = stream[d][i]
  BY <1>5 DEF Tells
<1>7. Told[c] = {} /\ Told'[c] = {n}
  BY <1>3, <1>6 DEF JobsInv, ToldOnce
<1>8. Carrying' = Carrying /\ Executing' = Executing
  BY <1>1 DEF Carrying, Executing
<1>9. \A job \in Released : job.owner \in Clients
  BY JobFields DEF Released
<1>10. OwnJob'
  BY <1>1, <1>4 DEF JobsInv, OwnJob, WithoutJobID, Inserting, NotHers
<1>11. InBuffer'
  BY <1>1, <1>4, <1>6, <1>9 DEF JobsInv, InBuffer
<1>12. AtWorker'
  BY <1>1, <1>4, <1>6, <1>8, <1>9 DEF JobsInv, AtWorker
<1>13. AtStop'
  BY <1>0, <1>1, <1>4, <1>8 DEF JobsInv, AtStop
<1>14. ToldOnce'
  BY <1>0, <1>1, <1>3, <1>6, <1>7 DEF JobsInv, ToldOnce
<1>15. NoneLost'
  BY <1>0, <1>1, <1>3, <1>6, <1>7, <1>8 DEF JobsInv, NoneLost
<1>16. AtDrain'
  <2>1. /\ \A job \in Job : OutOfLine(job)' <=> OutOfLine(job)
        /\ \A job \in Job : NotStopped(job) => NotStopped(job)'
    BY <1>1 DEF OutOfLine, NotStopped
  <2>2. \A d \in Clients : Told[d] # {} => Told'[d] # {}
    BY <1>6
  <2>3. \A job \in Released : Told'[job.owner] = Told[job.owner]
    BY <1>4, <1>6, <1>9
  <2> QED
    BY <1>1, <1>4, <2>1, <2>2, <2>3, DrainKept DEF Released
<1> QED
  BY <1>10, <1>11, <1>12, <1>13, <1>14, <1>15, <1>16 DEF JobsInv

-----------------------------------------------------------------------------
(* A job taken out of the buffer other than by a worker                      *)

(* The other jobs stay, each at a place of its own.                          *)
Leaves(pos) ==
    \E g \in [DOMAIN queue' -> DOMAIN queue \ {pos}] :
        /\ \A k \in DOMAIN queue' : queue'[k] = queue[g[k]]
        /\ \A k, m \in DOMAIN queue' : g[k] = g[m] => k = m
        /\ \A i \in DOMAIN queue \ {pos} : \E k \in DOMAIN queue' : g[k] = i

LEMMA EraseLeaves ==
    ASSUME IInv, NEW pos \in DOMAIN queue, queue' = Erase(queue, pos)
    PROVE  Leaves(pos)
<1> DEFINE g == [k \in 1 .. (Len(queue) - 1) |-> IF k < pos THEN k ELSE k + 1]
<1>1. queue \in Seq(Job) /\ Len(queue) \in Nat /\ DOMAIN queue = 1 .. Len(queue)
  BY Types
<1>2. DOMAIN queue' = 1 .. (Len(queue) - 1)
  BY <1>1, EraseShortens, LenProperties
<1>3. g \in [DOMAIN queue' -> DOMAIN queue \ {pos}]
  BY <1>1, <1>2
<1>4. \A k \in DOMAIN queue' : queue'[k] = queue[g[k]]
  BY <1>1, <1>2, EraseEntries
<1>5. \A k, m \in DOMAIN queue' : g[k] = g[m] => k = m
  BY <1>1, <1>2
<1>6. \A i \in DOMAIN queue \ {pos} : \E k \in DOMAIN queue' : g[k] = i
  <2> SUFFICES ASSUME NEW i \in DOMAIN queue \ {pos}
               PROVE  \E k \in DOMAIN queue' : g[k] = i
    OBVIOUS
  <2>1. CASE i < pos
    <3>1. i \in DOMAIN queue' /\ g[i] = i
      BY <1>1, <1>2, <2>1
    <3> QED
      BY <3>1
  <2>2. CASE ~(i < pos)
    <3>1. i - 1 \in DOMAIN queue' /\ g[i - 1] = i
      BY <1>1, <1>2, <2>2
    <3> QED
      BY <3>1
  <2> QED
    BY <2>1, <2>2
<1> HIDE DEF g
<1> QED
  BY <1>3, <1>4, <1>5, <1>6 DEF Leaves

LEMMA PopLeaves ==
    ASSUME IInv, ~Empty, queue' = Pop(queue)
    PROVE  Leaves(1)
<1> DEFINE g == [k \in 1 .. (Len(queue) - 1) |-> k + 1]
<1>1. Len(queue) \in Nat /\ DOMAIN queue = 1 .. Len(queue)
  BY Types
<1>2. DOMAIN queue' = 1 .. (Len(queue) - 1)
      /\ \A k \in DOMAIN queue' : queue'[k] = queue[k + 1]
  BY TopOfQueue
<1>3. g \in [DOMAIN queue' -> DOMAIN queue \ {1}]
  BY <1>1, <1>2
<1>4. \A k \in DOMAIN queue' : queue'[k] = queue[g[k]]
  BY <1>2
<1>5. \A k, m \in DOMAIN queue' : g[k] = g[m] => k = m
  BY <1>1, <1>2
<1>6. \A i \in DOMAIN queue \ {1} : \E k \in DOMAIN queue' : g[k] = i
  <2> SUFFICES ASSUME NEW i \in DOMAIN queue \ {1}
               PROVE  \E k \in DOMAIN queue' : g[k] = i
    OBVIOUS
  <2>1. i - 1 \in DOMAIN queue' /\ g[i - 1] = i
    BY <1>1, <1>2
  <2> QED
    BY <2>1
<1> HIDE DEF g
<1> QED
  BY <1>3, <1>4, <1>5, <1>6 DEF Leaves

LEMMA OthersStay ==
    ASSUME IInv, JobsInv, NEW pos \in DOMAIN queue, Leaves(pos)
    PROVE  /\ \A k \in DOMAIN queue' :
                \E i \in DOMAIN queue :
                    queue'[k] = queue[i] /\ queue[i].owner # queue[pos].owner
           /\ \A k, m \in DOMAIN queue' :
                queue'[k].owner = queue'[m].owner => k = m
           /\ \A i \in DOMAIN queue :
                i = pos \/ \E k \in DOMAIN queue' : queue'[k] = queue[i]
<1>1. PICK g \in [DOMAIN queue' -> DOMAIN queue \ {pos}] :
        /\ \A k \in DOMAIN queue' : queue'[k] = queue[g[k]]
        /\ \A k, m \in DOMAIN queue' : g[k] = g[m] => k = m
        /\ \A i \in DOMAIN queue \ {pos} : \E k \in DOMAIN queue' : g[k] = i
  BY DEF Leaves
<1>2. \A i, k \in DOMAIN queue : queue[k].owner = queue[i].owner => k = i
  BY DEF JobsInv, InBuffer
<1>3. \A k \in DOMAIN queue' : g[k] \in DOMAIN queue /\ g[k] # pos
  BY <1>1
<1> QED
  BY <1>1, <1>2, <1>3

(* The jobs of a stop that has found one, and of main when it drains.        *)
LEMMA StopQueuedKeeps ==
    ASSUME IInv, JobsInv, StillSo, NEW c \in Clients, StopQueued(c),
           MainAside
    PROVE  JobsInv'
<1> DEFINE pos == QueuePosition(queue, command[c].arg)
           job == queue[pos]
           o == job.owner
<1>1. /\ UNCHANGED <<wpc, wjob, command, sock, fdTable>>
      /\ cpc[c] = "stop" /\ cpc'[c] = "stopped" /\ cjob'[c] = job
      /\ \A d \in Clients : d # c => cpc'[d] = cpc[d] /\ cjob'[d] = cjob[d]
      /\ queue' = Erase(queue, pos) /\ Write(job.sock, "REMOVED", job)
      /\ mtxQueue = NoThread
  BY Types DEF StopQueued, GoC, workers
<1>0. astray' = astray /\ mjob' = mjob /\ (mpc = "tell" <=> mpc' = "tell")
  BY DEF MainAside, HandPCs
<1>2. pos \in DOMAIN queue
  BY PositionInQueue, Types DEF StopQueued
<1> HIDE DEF pos
<1>3. /\ job \in Released /\ Told[o] = {}
      /\ \A k \in DOMAIN queue : queue[k].owner = o => k = pos
  BY <1>2 DEF JobsInv, InBuffer
<1>4. /\ job \in Job /\ o \in Clients /\ job.sock \in FDs /\ fdTable[job.sock] = o
      /\ Handed(o) /\ job = cjob[o]
  BY <1>3, JobFields DEF Released
<1>5. Tells(o, job)
  BY <1>1, <1>4, WriteOutcome DEF Outcomes
<1>6. command[c].op = "stop" /\ c # o
  BY <1>1, <1>4 DEF IInv, LocalsSet, Ops, Handed
<1>7. \A d \in Clients : Handed(d)' <=> Handed(d)
  BY <1>1, <1>6 DEF Handed
<1>8. Released' = Released
  <2>1. \A j \in Released : j.owner # c
    BY <1>6 DEF Released, Handed
  <2>2. \A j \in Job : Handed(j.owner)' => j.owner # c
    BY <1>6, <1>1 DEF Handed
  <2> QED
    BY <1>1, <1>7, <2>1, <2>2, JobFields DEF Released
<1>9. /\ \A k \in DOMAIN queue' : \E i \in DOMAIN queue :
            queue'[k] = queue[i] /\ queue[i].owner # o
      /\ \A k, m \in DOMAIN queue' : queue'[k].owner = queue'[m].owner => k = m
      /\ \A i \in DOMAIN queue : i = pos \/ \E k \in DOMAIN queue' : queue'[k] = queue[i]
  BY <1>1, <1>2, EraseLeaves, OthersStay
<1>21. 1 \in DOMAIN queue =>
            pos = 1 \/ (1 \in DOMAIN queue' /\ queue'[1] = queue[1])
  <2>1. /\ queue \in Seq(Job) /\ Len(queue) \in Nat
        /\ DOMAIN queue = 1 .. Len(queue)
    BY Types
  <2>2. DOMAIN queue' = 1 .. (Len(queue) - 1)
    BY <1>1, <1>2, <2>1, EraseShortens, LenProperties
  <2>3. \A k \in DOMAIN queue' : k < pos => queue'[k] = queue[k]
    BY <1>1, <1>2, <2>1, <2>2, EraseEntries
  <2> QED
    BY <1>2, <2>1, <2>2, <2>3
<1>10. \A w \in Carrying : wjob[w].owner # o
  BY <1>2 DEF JobsInv, AtWorker
<1> HIDE DEF job, o
<1>11. PICK n \in Nat : /\ Told'[o] = Told[o] \cup {n}
                        /\ \A d \in Clients : d # o => Told'[d] = Told[d]
                        /\ stream'[o][n].job = job
                        /\ \A d \in Clients : \A i \in Told[d] : stream'[d][i] = stream[d][i]
  BY <1>5 DEF Tells
<1>12. \A d \in Clients : cpc[d] # "stopped"
  BY <1>1, ThreadsAssumption DEF StillSo
<1>13. Carrying' = Carrying /\ Executing' = Executing
  BY <1>1 DEF Carrying, Executing
<1>14. \A j \in Released : j.owner \in Clients
  BY JobFields DEF Released
<1>15. OwnJob'
  BY <1>1, <1>6 DEF JobsInv, OwnJob, WithoutJobID, Inserting, NotHers
<1>16. InBuffer'
  BY <1>8, <1>9, <1>11, <1>14 DEF JobsInv, InBuffer
<1>17. AtWorker'
  BY <1>1, <1>8, <1>9, <1>10, <1>11, <1>13, <1>14 DEF JobsInv, AtWorker
<1>18. AtStop'
  <2>1. job.owner = o
    BY DEF o
  <2> QED
    BY <1>0, <1>1, <1>3, <1>8, <1>9, <1>10, <1>12, <1>13, <2>1 DEF AtStop
<1>19. ToldOnce'
  <2>1. job = cjob'[o] /\ Handed(o) /\ o \in Clients
    BY <1>1, <1>4, <1>6
  <2>2. \A d \in Clients : \A i \in Told[d] :
            /\ Handed(d) /\ stream[d][i].job = cjob[d]
            /\ cjob[d] \in astray \/ \A k \in Told[d] : k = i
    BY DEF JobsInv, ToldOnce
  <2>3. \A d \in Clients : Handed(d) => cjob'[d] = cjob[d]
    BY <1>1, <1>6 DEF Handed
  <2> QED
    BY <1>0, <1>3, <1>7, <1>11, <2>1, <2>2, <2>3 DEF ToldOnce
<1>20. NoneLost'
  <2>1. queue[pos].owner = o
    BY DEF o, job
  <2>2. \A d \in Clients : Handed(d) => cjob'[d] = cjob[d]
    BY <1>1, <1>6 DEF Handed
  <2> QED
    BY <1>0, <1>1, <1>7, <1>9, <1>11, <1>13, <2>1, <2>2 DEF JobsInv, NoneLost
<1>22. AtDrain'
  <2>1. \A j \in Job : Hers(j) => Hers(j)'
    BY <1>1, <1>6, <1>7, JobFields DEF Hers, Handed
  <2>2. \A j \in Job : OutOfLine(j) => OutOfLine(j)'
    BY <1>9 DEF OutOfLine
  <2>3. queue[pos].owner = o /\ job.owner = o
    BY DEF o, job
  <2>4. \A j \in Job : OutOfLine(j) => j.owner # o
    BY <1>2, <2>3 DEF OutOfLine
  <2>5. \A j \in Job : NotStopped(j) /\ OutOfLine(j) => NotStopped(j)'
    BY <1>1, <2>3, <2>4 DEF NotStopped
  <2>6. \A d \in Clients : Told[d] # {} => Told'[d] # {}
    BY <1>11
  <2>7. 1 \in DOMAIN queue =>
            \/ 1 \in DOMAIN queue' /\ queue'[1] = queue[1]
            \/ Told'[queue[1].owner] # {}
    BY <1>11, <1>21, <2>3
  <2>8. \A j \in Released : OutOfLine(j) => Told'[j.owner] = Told[j.owner]
    BY <1>11, <1>14, <2>4 DEF Released
  <2> QED
    BY <1>1, <1>8, <2>1, <2>2, <2>5, <2>6, <2>7, <2>8, DrainKept DEF Released
<1> QED
  BY <1>15, <1>16, <1>17, <1>18, <1>19, <1>20, <1>22 DEF JobsInv

LEMMA StopCloseKeeps ==
    ASSUME IInv, JobsInv, StillSo, NEW c \in Clients, StopClose(c),
           MainAside
    PROVE  JobsInv'
<1> DEFINE job == cjob[c]
           o == job.owner
<1>1. /\ UNCHANGED <<queue, wpc, wjob, command, sock, stream>>
      /\ cpc[c] = "stopped" /\ cpc'[c] = "reply" /\ CloseFD(job.sock)
      /\ \A d \in Clients : d # c => cpc'[d] = cpc[d] /\ cjob'[d] = cjob[d]
  BY Types DEF StopClose, GoC, workers, shared
<1>0. astray' = astray /\ mjob' = mjob /\ (mpc = "tell" <=> mpc' = "tell")
  BY DEF MainAside, HandPCs
<1>2. command[c].op # "issueJob"
  BY <1>1 DEF JobsInv, OwnJob, WithoutJobID, Inserting
<1>3. /\ job \in Released \cup astray
      /\ \A i \in DOMAIN queue : queue[i].owner # o
      /\ \A w \in Carrying : wjob[w].owner # o
  BY <1>1 DEF JobsInv, AtStop
<1>4. /\ o \in Clients /\ job.sock \in FDs /\ Handed(o)
      /\ fdTable[job.sock] \in {o, NoThread}
  <2>1. job \in Job
    BY <1>3 DEF Released, IInv, TypeOK
  <2>2. Hers(job)
    BY <1>3 DEF JobsInv, AtDrain, Released, Hers
  <2> QED
    BY <2>1, <2>2, JobFields DEF Hers
<1>5. /\ \A f \in FDs : \A d \in Clients :
            fdTable[f] = d /\ d # o => fdTable'[f] = d
      /\ \A f \in FDs : fdTable'[f] \in {fdTable[f], NoThread}
  BY <1>1, <1>4, Closed
<1>17. job.owner = o
  OBVIOUS
<1> HIDE DEF job, o
<1>6. \A d \in Clients : Handed(d)' <=> Handed(d)
  BY <1>1, <1>2 DEF Handed
<1>7. \A j \in Released : j.owner # o => j \in Released'
  <2> SUFFICES ASSUME NEW j \in Released, j.owner # o
               PROVE  j \in Released'
    OBVIOUS
  <2>1. /\ j \in Job /\ j.owner \in Clients /\ j.sock \in FDs
        /\ fdTable[j.sock] = j.owner /\ j = cjob[j.owner] /\ Handed(j.owner)
    BY JobFields DEF Released
  <2>2. j.owner # c
    BY <1>2, <2>1 DEF Handed
  <2>3. fdTable'[j.sock] = j.owner /\ j = cjob'[j.owner] /\ Handed(j.owner)'
    BY <1>1, <1>5, <1>6, <2>1, <2>2
  <2> QED
    BY <2>1, <2>3 DEF Released
<1>8. \A d \in Clients : d # c => cpc[d] # "stopped"
  BY <1>1 DEF StillSo
<1>9. \A d \in Clients : cpc[d] \notin NotHers => fdTable'[sock[d]] = d
  <2> SUFFICES ASSUME NEW d \in Clients, cpc[d] \notin NotHers
               PROVE  fdTable'[sock[d]] = d
    OBVIOUS
  <2>1. d # o
    BY <1>4 DEF Handed, NotHers
  <2>2. fdTable[sock[d]] = d /\ sock[d] \in FDs
    BY DEF JobsInv, OwnJob, IInv, LocalsSet, NotHers
  <2> QED
    BY <1>5, <2>1, <2>2
<1>10. Told' = Told /\ Carrying' = Carrying /\ Executing' = Executing
  BY <1>1, StreamStays DEF SameTold, Carrying, Executing
<1>11. OwnJob'
  BY <1>1, <1>2, <1>9 DEF JobsInv, OwnJob, WithoutJobID, Inserting, NotHers
<1>12. InBuffer'
  BY <1>1, <1>3, <1>7, <1>10 DEF JobsInv, InBuffer
<1>13. AtWorker'
  BY <1>1, <1>3, <1>7, <1>10 DEF JobsInv, AtWorker
<1>14. AtStop'
  BY <1>1, <1>8 DEF AtStop
<1>15. ToldOnce'
  <2>1. \A d \in Clients : Handed(d) => cjob'[d] = cjob[d]
    BY <1>1, <1>2 DEF Handed
  <2> QED
    BY <1>0, <1>1, <1>6, <1>10, <2>1 DEF JobsInv, ToldOnce
<1>16. NoneLost'
  <2>1. \A d \in Clients : Handed(d) => cjob'[d] = cjob[d]
    BY <1>1, <1>2 DEF Handed
  <2> QED
    BY <1>0, <1>1, <1>6, <1>10, <2>1 DEF JobsInv, NoneLost
<1>18. AtDrain'
  <2>1. ASSUME NEW j \in Job, Hers(j)
        PROVE  Hers(j)'
    <3>1. j.owner \in Clients /\ j.sock \in FDs /\ j.owner # c
      BY <1>2, <2>1, JobFields DEF Hers, Handed
    <3> QED
      BY <1>1, <1>5, <1>6, <2>1, <3>1 DEF Hers
  <2>2. \A j \in Job : OutOfLine(j)' <=> OutOfLine(j)
    BY <1>1 DEF OutOfLine
  <2>3. \A j \in Job : NotStopped(j) => j.owner # o /\ NotStopped(j)'
    BY <1>1, <1>8, <1>17 DEF NotStopped, job
  <2> QED
    BY <1>1, <1>7, <1>10, <2>1, <2>2, <2>3, DrainKept DEF Released
<1> QED
  BY <1>11, <1>12, <1>13, <1>14, <1>15, <1>16, <1>18 DEF JobsInv

-----------------------------------------------------------------------------
(* The other steps of a controller, and main                                 *)

LEMMA ControllerKeeps ==
    ASSUME IInv, IInv', JobsInv, StillSo, NEW c \in Clients, ControllerStep(c)
    PROVE  JobsInv'
<1>1. /\ cpc[c] \in Ops => command[c].op = cpc[c]
      /\ cpc[c] # "away" => command[c].op \in Ops /\ sock[c] \in FDs
  BY OpsAreCommands DEF IInv, LocalsSet
<1>2. cpc[c] \notin Inserting \cup WithoutJobID \cup {"detach", "done"} =>
            command[c].op # "issueJob"
  BY DEF JobsInv, OwnJob
<1>0. MainAside /\ wpc' = wpc
  BY ControllerAside
<1>3. CASE NewJob(c) \/ InsertJob(c) \/ Refuse(c) \/ StopQueued(c) \/ StopClose(c)
  BY <1>0, <1>3, NewJobKeeps, InsertJobKeeps, RefuseKeeps, StopQueuedKeeps, StopCloseKeeps
<1>4. CASE Reply(c) \/ Poll(c) \/ ExitReply(c)
  <2>1. /\ cpc[c] \in {"reply", "poll", "exitreply"} /\ command[c].op # "issueJob"
        /\ \E to \in {"detach", "kill"} : Answer(c, "REPLY", NoJob, to)
    BY <1>1, <1>2, <1>4 DEF Reply, Poll, ExitReply, Ops, Inserting, WithoutJobID
  <2> QED
    BY <1>0, <2>1, ReplyKeeps DEF NotHers
<1>5. CASE Malformed(c)
  BY <1>0, <1>5, StreamStays, Aside DEF Malformed, shared, workers, network, Carrying,
     Executing
<1>6. CASE CountController(c)
  <2>1. /\ cpc[c] = "new" /\ GoC(c, command[c].op) /\ command[c].op \in Ops
        /\ UNCHANGED <<queue, workers, command, cjob, sock, fdTable, stream>>
    BY <1>1, <1>6 DEF CountController, network
  <2> QED
    BY <1>0, <2>1, StreamStays, Quiet DEF Ops, WithoutJobID, Inserting, NotHers, HandedPCs
<1>7. CASE ReportSubmitted(c)
  <2>1. /\ cpc[c] = "inserted" /\ GoC(c, "detach")
        /\ UNCHANGED <<queue, workers, command, cjob, sock, fdTable>>
    BY <1>7 DEF ReportSubmitted, shared
  <2>2. cjob[c] \in Job \cup {NoJob}
    BY Types
  <2>3. SameTold
    BY <1>1, <1>7, <2>1, <2>2, WriteAside DEF ReportSubmitted
  <2> QED
    BY <1>0, <2>1, <2>3, Quiet DEF WithoutJobID, Inserting, NotHers, HandedPCs
<1>8. CASE FindFull(c) \/ SleepForRoom(c) \/ GiveUpInsert(c)
  <2>1. /\ cpc[c] \in Inserting \ {"inserted"}
        /\ \E to \in Inserting \ {"inserted"} : GoC(c, to)
        /\ UNCHANGED <<queue, workers, command, cjob, sock, fdTable, stream>>
    BY <1>8 DEF FindFull, SleepForRoom, GiveUpInsert, AtFullBuffer, Inserting,
       shared, network
  <2> QED
    BY <1>0, <2>1, StreamStays, Quiet DEF WithoutJobID, Inserting, NotHers, HandedPCs
<1>9. CASE \/ SetConcurrency(c) \/ StopNotFound(c) \/ SetExit(c) \/ WakeRunning(c)
           \/ WakeNonempty(c) \/ WakeNonfull(c) \/ KillMain(c)
  <2>1. /\ cpc[c] \in {"setConcurrency", "stop", "exit", "wakeRunning",
                       "wakeNonempty", "wakeNonfull", "kill"}
        /\ \E to \in {"reply", "wakeRunning", "wakeNonempty", "wakeNonfull",
                      "exitreply", "detach"} :
                GoC(c, to) /\ (cpc[c] = "kill" => to = "detach")
                           /\ (cpc[c] # "kill" => to # "detach")
        /\ UNCHANGED <<queue, workers, command, cjob, sock, fdTable, stream>>
    BY <1>9 DEF SetConcurrency, StopNotFound, SetExit, WakeRunning,
       WakeNonempty, WakeNonfull, KillMain, shared, network
  <2>2. command[c].op # "issueJob"
    BY <1>2, <2>1 DEF Inserting, WithoutJobID
  <2> QED
    BY <1>0, <2>1, <2>2, StreamStays, Quiet DEF WithoutJobID, Inserting, NotHers
<1>10. CASE Detach(c)
  <2>1. /\ cpc[c] = "detach" /\ GoC(c, "done")
        /\ UNCHANGED <<queue, workers, command, cjob, sock, fdTable, stream>>
    BY <1>10 DEF Detach, network
  <2> QED
    BY <1>0, <2>1, StreamStays, Quiet DEF WithoutJobID, Inserting, NotHers, HandedPCs
<1> QED
  BY <1>3, <1>4, <1>5, <1>6, <1>7, <1>8, <1>9, <1>10 DEF ControllerStep

LEMMA AcceptKeeps ==
    ASSUME IInv, JobsInv, NEW c \in Clients, NEW cmd \in Commands, NEW fd \in FDs,
           Accept(c, cmd, fd)
    PROVE  JobsInv'
<1>1. /\ UNCHANGED <<queue, wpc, wjob, cjob, stream>>
      /\ cpc[c] = "away" /\ cpc'[c] = "new" /\ command'[c] = cmd /\ sock'[c] = fd
      /\ \A d \in Clients : d # c => /\ cpc'[d] = cpc[d] /\ command'[d] = command[d]
                                     /\ sock'[d] = sock[d]
      /\ fdTable[fd] = NoThread /\ fdTable'[fd] = c
      /\ \A f \in FDs : f # fd => fdTable'[f] = fdTable[f]
  BY Types DEF Accept, GoC, shared, workers
<1>0. AtDrain' /\ astray = {} /\ astray' = astray /\ mpc \notin LeavingPCs
  <2>1. mpc = "accept" /\ mpc' = "loop" /\ UNCHANGED <<mjob, astray>>
    BY DEF Accept, history
  <2> QED
    BY <2>1 DEF JobsInv, AtDrain, LeavingPCs, HandPCs
<1>2. \A d \in Clients : Handed(d)' <=> Handed(d)
  BY <1>1 DEF Handed
<1>3. \A job \in Released : job \in Released'
  <2> SUFFICES ASSUME NEW job \in Released
               PROVE  job \in Released'
    OBVIOUS
  <2>1. /\ job \in Job /\ job.owner \in Clients /\ job.sock \in FDs
        /\ Handed(job.owner) /\ job = cjob[job.owner] /\ fdTable[job.sock] = job.owner
    BY JobFields DEF Released
  <2>2. fdTable'[job.sock] = job.owner
    BY <1>1, <2>1, Types
  <2> QED
    BY <1>1, <1>2, <2>1, <2>2 DEF Released
<1>4. \A d \in Clients : d # c /\ cpc[d] \notin NotHers => fdTable'[sock[d]] = d
  <2> SUFFICES ASSUME NEW d \in Clients, d # c, cpc[d] \notin NotHers
               PROVE  fdTable'[sock[d]] = d
    OBVIOUS
  <2>1. fdTable[sock[d]] = d /\ sock[d] \in FDs
    BY DEF JobsInv, OwnJob, IInv, LocalsSet, NotHers
  <2> QED
    BY <1>1, <2>1, Types
<1>5. Told' = Told /\ Carrying' = Carrying /\ Executing' = Executing
  BY <1>1, StreamStays DEF SameTold, Carrying, Executing
<1>6. OwnJob'
  BY <1>1, <1>4 DEF JobsInv, OwnJob, WithoutJobID, Inserting, NotHers
<1>7. InBuffer'
  BY <1>1, <1>3, <1>5 DEF JobsInv, InBuffer
<1>8. AtWorker'
  BY <1>1, <1>3, <1>5 DEF JobsInv, AtWorker
<1>9. AtStop'
  BY <1>0, <1>1, <1>3, <1>5 DEF JobsInv, AtStop
<1>10. ToldOnce'
  BY <1>0, <1>1, <1>2, <1>5 DEF JobsInv, ToldOnce
<1>11. NoneLost'
  BY <1>0, <1>1, <1>2, <1>5 DEF JobsInv, NoneLost, LeavingPCs
<1> QED
  BY <1>0, <1>6, <1>7, <1>8, <1>9, <1>10, <1>11 DEF JobsInv

-----------------------------------------------------------------------------
(* The drain                                                                 *)

DrainStep == DrainTop \/ DrainPop \/ DrainTell \/ DrainClose

(* What no step of the drain touches.                                        *)
LEMMA DrainAlone ==
    ASSUME DrainStep, JobsInv
    PROVE  /\ UNCHANGED <<wpc, wjob, cpc, command, cjob, sock>>
           /\ mpc \in LeavingPCs /\ mpc' \in LeavingPCs
           /\ \A c \in Clients : Handed(c)' <=> Handed(c)
           /\ Carrying = {} /\ Carrying' = {} /\ Executing = {} /\ Executing' = {}
<1>1. UNCHANGED <<wpc, wjob, cpc, command, cjob, sock>>
  BY DEF DrainStep, DrainTop, DrainPop, DrainTell, DrainClose, workers, controllers
<1>2. mpc \in LeavingPCs /\ mpc' \in LeavingPCs
  BY DEF DrainStep, DrainTop, DrainPop, DrainTell, DrainClose, LeavingPCs
<1>3. \A w \in Workers : wpc[w] \in GonePCs
  BY <1>2 DEF JobsInv, AtDrain
<1> QED
  BY <1>1, <1>2, <1>3 DEF Handed, Carrying, Executing, GonePCs

(* Main copies the head of the line.                                         *)
LEMMA DrainTopKeeps ==
    ASSUME IInv, JobsInv, DrainTop
    PROVE  JobsInv'
<1>1. /\ UNCHANGED <<wpc, wjob, cpc, command, cjob, sock>>
      /\ mpc \in LeavingPCs /\ mpc' \in LeavingPCs
      /\ \A c \in Clients : Handed(c)' <=> Handed(c)
      /\ Carrying = {} /\ Carrying' = {} /\ Executing = {} /\ Executing' = {}
  BY DrainAlone DEF DrainStep
<1>2. /\ UNCHANGED <<queue, fdTable, stream, astray>>
      /\ mpc = "drain" /\ mpc' = "pop" /\ mjob' = queue[1] /\ 1 \in DOMAIN queue
  BY TopOfQueue DEF DrainTop, shared, network, history
<1>3. Told' = Told
  BY <1>2, StreamStays DEF SameTold
<1>4. Released' = Released
  BY <1>1, <1>2, JobFields DEF Released
<1>5. OwnJob'
  BY <1>1, <1>2 DEF JobsInv, OwnJob
<1>6. InBuffer'
  BY <1>2, <1>3, <1>4 DEF JobsInv, InBuffer
<1>7. AtWorker'
  BY <1>1 DEF AtWorker
<1>8. AtStop'
  BY <1>1, <1>2, <1>4 DEF JobsInv, AtStop
<1>9. ToldOnce'
  BY <1>1, <1>2, <1>3 DEF JobsInv, ToldOnce
<1>10. NoneLost'
  BY <1>1, <1>2, <1>3 DEF JobsInv, NoneLost
<1>11. AtDrain'
  <2>1. Hers(queue[1])
    BY <1>2 DEF JobsInv, InBuffer, Released, Hers
  <2>2. astray \subseteq Job
    BY DEF IInv, TypeOK
  <2>3. \A job \in Job : (Hers(job)' <=> Hers(job)) /\ (OutOfLine(job)' <=> OutOfLine(job))
    BY <1>1, <1>2, JobFields DEF Hers, OutOfLine
  <2>4. queue[1] \in Job
    BY <1>2, Types
  <2>5. Hers(mjob)'
    BY <1>2, <2>1, <2>3, <2>4
  <2>6. \A job \in astray' : Hers(job)' /\ OutOfLine(job)'
    BY <1>2, <2>2, <2>3 DEF JobsInv, AtDrain
  <2>7. \A w \in Workers : wpc'[w] \in GonePCs
    BY <1>1 DEF JobsInv, AtDrain
  <2> QED
    BY <1>1, <1>2, <2>5, <2>6, <2>7 DEF AtDrain
<1> QED
  BY <1>5, <1>6, <1>7, <1>8, <1>9, <1>10, <1>11 DEF JobsInv

(* Main pops the job it has copied, or another if a stop was faster.         *)
LEMMA DrainPopKeeps ==
    ASSUME IInv, JobsInv, DrainPop
    PROVE  JobsInv'
<1> DEFINE job == queue[1]
           o == job.owner
<1>1. /\ UNCHANGED <<wpc, wjob, cpc, command, cjob, sock>>
      /\ mpc \in LeavingPCs /\ mpc' \in LeavingPCs
      /\ \A c \in Clients : Handed(c)' <=> Handed(c)
      /\ Carrying = {} /\ Carrying' = {} /\ Executing = {} /\ Executing' = {}
  BY DrainAlone DEF DrainStep
<1>2. /\ UNCHANGED <<fdTable, stream, mjob>>
      /\ mpc = "pop" /\ mpc' = "tell" /\ 1 \in DOMAIN queue /\ ~Empty
      /\ queue' = Pop(queue)
      /\ astray' = IF job = mjob THEN astray ELSE astray \cup {mjob, job}
  BY TopOfQueue DEF DrainPop, network
<1>3. /\ job \in Released /\ Told[o] = {} /\ Handed(o) /\ job = cjob[o]
      /\ job \in Job /\ o \in Clients
  BY <1>2, JobFields DEF JobsInv, InBuffer, Released
<1>4. /\ mjob \in Job /\ mjob.owner \in Clients /\ Hers(mjob)
      /\ job = mjob \/ Told[mjob.owner] # {}
  BY <1>2, JobFields DEF JobsInv, AtDrain, HandPCs, IInv, HandSet
<1>5. /\ \A k \in DOMAIN queue' : \E i \in DOMAIN queue :
            queue'[k] = queue[i] /\ queue[i].owner # o
      /\ \A k, m \in DOMAIN queue' : queue'[k].owner = queue'[m].owner => k = m
      /\ \A i \in DOMAIN queue : i = 1 \/ \E k \in DOMAIN queue' : queue'[k] = queue[i]
  BY <1>2, PopLeaves, OthersStay
<1>6. \A c \in Clients : cpc[c] = "stopped" => cjob[c].owner # o
  BY <1>2 DEF JobsInv, AtStop
<1>7. queue[1].owner = o /\ job.owner = o /\ queue[1] = job
  OBVIOUS
<1> HIDE DEF job, o
<1>8. Told' = Told
  BY <1>2, StreamStays DEF SameTold
<1>9. Released' = Released
  BY <1>1, <1>2, JobFields DEF Released
<1>10. OwnJob'
  BY <1>1, <1>2 DEF JobsInv, OwnJob
<1>11. InBuffer'
  BY <1>5, <1>8, <1>9 DEF JobsInv, InBuffer
<1>12. AtWorker'
  BY <1>1 DEF AtWorker
<1>13. astray \subseteq astray'
  BY <1>2
<1>14. AtStop'
  BY <1>1, <1>5, <1>9, <1>13 DEF JobsInv, AtStop
<1>15. ToldOnce'
  BY <1>1, <1>2, <1>8, <1>13 DEF JobsInv, ToldOnce
<1>16. NoneLost'
  <2>1. cjob[o] \in astray' \/ mjob.owner = o
    BY <1>2, <1>3, <1>7
  <2> QED
    BY <1>1, <1>2, <1>5, <1>7, <1>8, <1>13, <2>1 DEF JobsInv, NoneLost
<1>17. AtDrain'
  <2>1. \A j \in Job : Hers(j) => Hers(j)'
    BY <1>1, <1>2, JobFields DEF Hers
  <2>2. \A j \in Job : OutOfLine(j) => OutOfLine(j)'
    BY <1>5 DEF OutOfLine
  <2>3. /\ Hers(job)
        /\ \A k \in DOMAIN queue' : queue'[k].owner # job.owner
        /\ \A c \in Clients : cpc'[c] = "stopped" => cjob'[c].owner # job.owner
    BY <1>1, <1>3, <1>5, <1>6, <1>7 DEF Released, Hers
  <2>4. \A k \in DOMAIN queue' : queue'[k].owner # mjob.owner
    <3>1. CASE job = mjob
      BY <2>3, <3>1
    <3>2. CASE Told[mjob.owner] # {}
      <4>1. OutOfLine(mjob)
        BY <3>2 DEF JobsInv, InBuffer, OutOfLine
      <4> QED
        BY <1>5, <4>1 DEF OutOfLine
    <3> QED
      BY <1>4, <3>1, <3>2
  <2>5. astray \subseteq Job
    BY DEF IInv, TypeOK
  <2>6. \A j \in astray' : Hers(j)' /\ OutOfLine(j)'
    <3>1. \A j \in astray : Hers(j)' /\ OutOfLine(j)'
      BY <2>1, <2>2, <2>5 DEF JobsInv, AtDrain
    <3>2. ASSUME NEW j, j = job \/ j = mjob
          PROVE  Hers(j)' /\ OutOfLine(j)'
      <4>1. j \in Job /\ Hers(j)
        BY <1>3, <1>4, <2>3, <3>2
      <4>2. \A k \in DOMAIN queue' : queue'[k].owner # j.owner
        BY <2>3, <2>4, <3>2
      <4> QED
        BY <2>1, <4>1, <4>2 DEF OutOfLine
    <3> QED
      BY <1>2, <3>1, <3>2
  <2>7. mjob \notin astray' => job = mjob
    BY <1>2
  <2>8. \A w \in Workers : wpc'[w] \in GonePCs
    BY <1>1 DEF JobsInv, AtDrain
  <2>9. Hers(mjob)'
    BY <1>2, <1>4, <2>1
  <2>10. mjob' \notin astray' =>
            /\ mjob' \in Released' /\ OutOfLine(mjob)' /\ NotStopped(mjob)'
            /\ Told'[mjob'.owner] = {}
    <3> SUFFICES ASSUME mjob \notin astray'
                 PROVE  /\ mjob \in Released' /\ OutOfLine(mjob)'
                        /\ NotStopped(mjob)' /\ Told'[mjob.owner] = {}
      BY <1>2 DEF OutOfLine, NotStopped
    <3>1. mjob = job /\ mjob' = mjob
      BY <1>2, <2>7
    <3> QED
      BY <1>3, <1>7, <1>8, <1>9, <2>3, <3>1 DEF OutOfLine, NotStopped
  <2> QED
    BY <1>1, <1>2, <2>6, <2>8, <2>9, <2>10 DEF AtDrain
<1> QED
  BY <1>10, <1>11, <1>12, <1>14, <1>15, <1>16, <1>17 DEF JobsInv

(* The client of the job in the hands of main is told; if the job went       *)
(* astray, perhaps a second time, or nobody is there any more.               *)
LEMMA DrainTellKeeps ==
    ASSUME IInv, JobsInv, DrainTell
    PROVE  JobsInv'
<1> DEFINE o == mjob.owner
<1>1. /\ UNCHANGED <<wpc, wjob, cpc, command, cjob, sock>>
      /\ mpc \in LeavingPCs /\ mpc' \in LeavingPCs
      /\ \A c \in Clients : Handed(c)' <=> Handed(c)
      /\ Carrying = {} /\ Carrying' = {} /\ Executing = {} /\ Executing' = {}
  BY DrainAlone DEF DrainStep
<1>2. /\ UNCHANGED <<queue, fdTable, mjob, astray>>
      /\ mpc = "tell" /\ mpc' = "hangup" /\ Write(mjob.sock, "NOT EXECUTED", mjob)
  BY DEF DrainTell, shared, history
<1>3. /\ mjob \in Job /\ o \in Clients /\ mjob.sock \in FDs
      /\ Handed(o) /\ mjob = cjob[o] /\ fdTable[mjob.sock] \in {o, NoThread}
      /\ Hers(mjob) /\ OutOfLine(mjob)
      /\ mjob \notin astray => /\ mjob \in Released /\ Told[o] = {}
                               /\ NotStopped(mjob) /\ fdTable[mjob.sock] = o
  <2>1. mjob \in Job
    BY <1>2 DEF IInv, HandSet
  <2> QED
    BY <1>2, <2>1, JobFields DEF JobsInv, AtDrain, HandPCs, Hers, Released
<1>4. /\ \A c \in Clients : c # o => Told'[c] = Told[c]
      /\ \A c \in Clients : \A i \in Told[c] : stream'[c][i] = stream[c][i]
      /\ \A i \in Told'[o] : i \in Told[o] \/ stream'[o][i].job = mjob
      /\ Told[o] \subseteq Told'[o]
      /\ mjob \notin astray => Told'[o] # {} /\ \A i, k \in Told'[o] : i = k
  <2>1. CASE fdTable[mjob.sock] = o
    <3>1. Tells(o, mjob)
      BY <1>2, <1>3, <2>1, WriteOutcome DEF Outcomes
    <3> HIDE DEF o
    <3>2. PICK n \in Nat : /\ Told'[o] = Told[o] \cup {n}
                           /\ \A d \in Clients : d # o => Told'[d] = Told[d]
                           /\ stream'[o][n].job = mjob
                           /\ \A d \in Clients : \A i \in Told[d] :
                                    stream'[d][i] = stream[d][i]
      BY <3>1 DEF Tells
    <3> QED
      BY <1>3, <3>2
  <2>2. CASE fdTable[mjob.sock] = NoThread
    <3>1. mjob \in astray
      BY <1>3, <2>2, Types
    <3>2. SameTold
      BY <1>2, <2>2, StreamStays DEF Write
    <3> QED
      BY <1>3, <3>1, <3>2 DEF SameTold
  <2> QED
    BY <1>3, <2>1, <2>2
<1>5. Released' = Released
  BY <1>1, <1>2, JobFields DEF Released
<1>6. \A i \in DOMAIN queue : queue[i].owner # o /\ queue[i].owner \in Clients
  BY <1>3, Types, JobFields DEF OutOfLine
<1>7. mjob.owner = o
  OBVIOUS
<1> HIDE DEF o
<1>8. OwnJob'
  BY <1>1, <1>2 DEF JobsInv, OwnJob
<1>9. InBuffer'
  BY <1>2, <1>4, <1>5, <1>6 DEF JobsInv, InBuffer
<1>10. AtWorker'
  BY <1>1 DEF AtWorker
<1>11. AtStop'
  BY <1>1, <1>2, <1>5 DEF JobsInv, AtStop
<1>12. ToldOnce'
  <2> SUFFICES ASSUME NEW c \in Clients, NEW i \in Told'[c]
               PROVE  /\ Handed(c)' /\ stream'[c][i].job = cjob'[c]
                      /\ cjob'[c] \in astray' \/ \A k \in Told'[c] : k = i
    BY DEF ToldOnce
  <2>1. CASE c # o
    <3>1. i \in Told[c] /\ Told'[c] = Told[c] /\ stream'[c][i] = stream[c][i]
      BY <1>4, <2>1
    <3> QED
      BY <1>1, <1>2, <3>1 DEF JobsInv, ToldOnce
  <2>2. CASE c = o
    <3>1. stream'[o][i].job = mjob
      BY <1>3, <1>4, <2>2 DEF JobsInv, ToldOnce
    <3> QED
      BY <1>1, <1>2, <1>3, <1>4, <2>2, <3>1
  <2> QED
    BY <2>1, <2>2
<1>13. NoneLost'
  <2>1. Told'[o] # {} \/ cjob[o] \in astray
    BY <1>3, <1>4
  <2> QED
    BY <1>1, <1>2, <1>4, <1>7, <2>1 DEF JobsInv, NoneLost
<1>14. AtDrain'
  <2>1. \A j \in Job : Hers(j)' <=> Hers(j)
    BY <1>1, <1>2, JobFields DEF Hers
  <2>2. \A j : OutOfLine(j)' <=> OutOfLine(j)
    BY <1>2 DEF OutOfLine
  <2>3. \A j : NotStopped(j)' <=> NotStopped(j)
    BY <1>1 DEF NotStopped
  <2>4. astray \subseteq Job
    BY DEF IInv, TypeOK
  <2>5. \A j \in astray' : Hers(j)' /\ OutOfLine(j)'
    BY <1>2, <2>1, <2>2, <2>4 DEF JobsInv, AtDrain
  <2>6. Hers(mjob)' /\ (mjob' \notin astray' =>
            mjob' \in Released' /\ OutOfLine(mjob)' /\ NotStopped(mjob)')
    BY <1>2, <1>3, <1>5, <2>1, <2>2, <2>3
  <2>7. \A w \in Workers : wpc'[w] \in GonePCs
    BY <1>1 DEF JobsInv, AtDrain
  <2> QED
    BY <1>1, <1>2, <2>5, <2>6, <2>7 DEF AtDrain
<1> QED
  BY <1>8, <1>9, <1>10, <1>11, <1>12, <1>13, <1>14 DEF JobsInv

(* Main closes the descriptor and has no job in hand any more.               *)
LEMMA DrainCloseKeeps ==
    ASSUME IInv, JobsInv, DrainClose
    PROVE  JobsInv'
<1> DEFINE o == mjob.owner
<1>1. /\ UNCHANGED <<wpc, wjob, cpc, command, cjob, sock>>
      /\ mpc \in LeavingPCs /\ mpc' \in LeavingPCs
      /\ \A c \in Clients : Handed(c)' <=> Handed(c)
      /\ Carrying = {} /\ Carrying' = {} /\ Executing = {} /\ Executing' = {}
  BY DrainAlone DEF DrainStep
<1>2. /\ UNCHANGED <<queue, stream, astray>>
      /\ mpc = "hangup" /\ mpc' = "drain" /\ CloseFD(mjob.sock)
  BY DEF DrainClose, shared, history
<1>3. /\ mjob \in Job /\ o \in Clients /\ mjob.sock \in FDs
      /\ Handed(o) /\ mjob = cjob[o] /\ fdTable[mjob.sock] \in {o, NoThread}
      /\ OutOfLine(mjob)
      /\ mjob \in astray \/ NotStopped(mjob)
  <2>1. mjob \in Job
    BY <1>2 DEF IInv, HandSet
  <2> QED
    BY <1>2, <2>1, JobFields DEF JobsInv, AtDrain, HandPCs, Hers
<1>4. \A j \in Released : j.owner # o => j \in Released'
  BY <1>1, <1>2, <1>3, ReleasedStay
<1>5. Told' = Told
  BY <1>2, StreamStays DEF SameTold
<1>6. \A c \in Clients : cpc[c] \notin NotHers => fdTable'[sock[c]] = c
  <2> SUFFICES ASSUME NEW c \in Clients, cpc[c] \notin NotHers
               PROVE  fdTable'[sock[c]] = c
    OBVIOUS
  <2>1. c # o
    BY <1>3 DEF Handed, NotHers
  <2>2. fdTable[sock[c]] = c /\ sock[c] \in FDs
    BY DEF JobsInv, OwnJob, IInv, LocalsSet, NotHers
  <2> QED
    BY <1>2, <1>3, <2>1, <2>2, Closed
<1>7. mjob.owner = o
  OBVIOUS
<1> HIDE DEF o
<1>8. OwnJob'
  BY <1>1, <1>6 DEF JobsInv, OwnJob
<1>9. InBuffer'
  BY <1>2, <1>3, <1>4, <1>5, <1>7 DEF JobsInv, InBuffer, OutOfLine
<1>10. AtWorker'
  BY <1>1 DEF AtWorker
<1>11. AtStop'
  <2> SUFFICES ASSUME NEW c \in Clients, cpc[c] = "stopped"
               PROVE  cjob[c] \in Released' \cup astray
    BY <1>1, <1>2 DEF JobsInv, AtStop
  <2>1. cjob[c] \in Released \cup astray
    BY DEF JobsInv, AtStop
  <2>2. CASE cjob[c] \in Released /\ cjob[c].owner = o
    <3>1. cjob[c] = mjob
      BY <1>3, <2>2 DEF Released
    <3>2. mjob \in astray
      BY <1>3, <1>7, <3>1 DEF NotStopped
    <3> QED
      BY <3>1, <3>2
  <2> QED
    BY <1>4, <2>1, <2>2
<1>12. ToldOnce'
  BY <1>1, <1>2, <1>5 DEF JobsInv, ToldOnce
<1>13. NoneLost'
  BY <1>1, <1>2, <1>5 DEF JobsInv, NoneLost
<1>14. AtDrain'
  <2>1. \A f \in FDs : fdTable'[f] \in {fdTable[f], NoThread}
    BY <1>2, <1>3, Closed
  <2>2. \A j \in Job : Hers(j) => Hers(j)'
    BY <1>1, <2>1, JobFields DEF Hers
  <2>3. \A j : OutOfLine(j)' <=> OutOfLine(j)
    BY <1>2 DEF OutOfLine
  <2>4. astray \subseteq Job
    BY DEF IInv, TypeOK
  <2>5. \A j \in astray' : Hers(j)' /\ OutOfLine(j)'
    BY <1>2, <2>2, <2>3, <2>4 DEF JobsInv, AtDrain
  <2>6. \A w \in Workers : wpc'[w] \in GonePCs
    BY <1>1 DEF JobsInv, AtDrain
  <2> QED
    BY <1>1, <1>2, <2>5, <2>6 DEF AtDrain, HandPCs
<1> QED
  BY <1>8, <1>9, <1>10, <1>11, <1>12, <1>13, <1>14 DEF JobsInv

(* The other steps of main move no job.                                      *)
LEMMA MainKeeps ==
    ASSUME IInv, JobsInv, MainStep
    PROVE  JobsInv'
<1>1. CASE DrainStep
  BY <1>1, DrainTopKeeps, DrainPopKeeps, DrainTellKeeps, DrainCloseKeeps DEF DrainStep
<1>2. CASE ~DrainStep
  <2>1. UNCHANGED <<queue, workers, controllers, network, mjob, astray>>
    BY <1>2 DEF MainStep, DrainStep, EnterAccept, JoinWorkers,
       SpinOnControllers, QueueSize, DrainEmptyQueue, ReturnFromMain, shared,
       main, history
  <2>2. MainAside
    BY <1>2, <2>1 DEF MainStep, DrainStep, EnterAccept, JoinWorkers,
       SpinOnControllers, QueueSize, DrainEmptyQueue, ReturnFromMain, main,
       MainAside, HandPCs, LeavingPCs, GonePCs
  <2>3. Carrying' = Carrying /\ Executing' = Executing
    BY <2>1 DEF workers, Carrying, Executing
  <2> QED
    BY <2>1, <2>2, <2>3, StreamStays, Aside DEF workers, network
<1> QED
  BY <1>1, <1>2

-----------------------------------------------------------------------------
(* The invariant                                                             *)

LEMMA JobsInit == Init => JobsInv
<1> SUFFICES ASSUME Init
             PROVE  JobsInv
  OBVIOUS
<1>1. Carrying = {} /\ Executing = {} /\ DOMAIN queue = {}
  BY DEF Init, Carrying, Executing
<1>2. \A c \in Clients : Told[c] = {} /\ ~Handed(c)
  BY DEF Init, Told, Handed
<1>3. OwnJob
  BY DEF Init, OwnJob, WithoutJobID, Inserting, NotHers, NoCommand
<1> QED
  BY <1>1, <1>2, <1>3 DEF Init, JobsInv, InBuffer, AtWorker, AtStop, ToldOnce,
     NoneLost, AtDrain, LeavingPCs, HandPCs

LEMMA JobsNext ==
    ASSUME IInv, IInv', StillSo, JobsInv, [Next]_vars
    PROVE  JobsInv'
<1>1. ASSUME NEW w \in Workers, WorkerStep(w) \/ ChildExit(w)
      PROVE  JobsInv'
  BY <1>1, WorkerKeeps
<1>2. ASSUME NEW c \in Clients, ControllerStep(c)
      PROVE  JobsInv'
  BY <1>2, ControllerKeeps
<1>3. CASE \E c \in Clients, cmd \in Commands, fd \in FDs : Accept(c, cmd, fd)
  BY <1>3, AcceptKeeps
<1>4. CASE MainStep
  BY <1>4, MainKeeps
<1>5. CASE \/ \E t \in Threads : SpuriousWakeup(t)
           \/ UNCHANGED vars
  <2>1. UNCHANGED <<queue, workers, controllers, network, main, history>>
    BY <1>5 DEF SpuriousWakeup, shared, vars
  <2>2. Carrying' = Carrying /\ Executing' = Executing /\ MainAside
    BY <2>1 DEF workers, main, history, Carrying, Executing, MainAside
  <2> QED
    BY <2>1, <2>2, StreamStays, Aside DEF workers, network
<1> QED
  BY <1>1, <1>2, <1>3, <1>4, <1>5 DEF Next

LEMMA JobsInvariant == Spec => [](IInv /\ JobsInv)
<1>1. IInv /\ WakeInv /\ JobsInv /\ [Next]_vars => JobsInv'
  BY InvNext, JobsNext DEF WakeInv
<1> QED
  BY <1>1, JobsInit, WakeInvariant, PTL DEF Spec

-----------------------------------------------------------------------------
(* Where a job is                                                            *)

LEMMA DeliveriesAreTold ==
    \A d : d \in Deliveries <=> \E c \in Clients : \E i \in Told[c] : d = <<c, i>>
BY DEF Deliveries, Told

(* What was delivered of client c's own job.                                 *)
LEMMA DeliveredOf ==
    ASSUME JobsInv, NEW c \in Clients, cjob[c].owner = c
    PROVE  {d \in Deliveries : stream[d[1]][d[2]].job = cjob[c]}
               = {<<c, i>> : i \in Told[c]}
<1>1. ASSUME NEW d \in Deliveries, stream[d[1]][d[2]].job = cjob[c]
      PROVE  \E i \in Told[c] : d = <<c, i>>
  <2>1. PICK b \in Clients : \E i \in Told[b] : d = <<b, i>>
    BY DeliveriesAreTold
  <2>2. PICK i \in Told[b] : d = <<b, i>>
    BY <2>1
  <2>3. d[1] = b /\ d[2] = i
    BY <2>2
  <2>4. cjob[b] = cjob[c] /\ Handed(b)
    BY <1>1, <2>2, <2>3 DEF JobsInv, ToldOnce
  <2>5. cjob[b].owner = b
    BY <2>4 DEF JobsInv, OwnJob, Handed, WithoutJobID
  <2> QED
    BY <2>2, <2>4, <2>5
<1>2. ASSUME NEW i \in Told[c]
      PROVE  /\ <<c, i>> \in Deliveries
             /\ stream[<<c, i>>[1]][<<c, i>>[2]].job = cjob[c]
  BY DeliveriesAreTold DEF JobsInv, ToldOnce
<1> QED
  BY <1>1, <1>2

(* A job that its controller has not let go of is nowhere, one that it has   *)
(* is in one place.                                                          *)
LEMMA OnePlace ==
    ASSUME IInv, JobsInv
    PROVE  JobsAccounted
<1> SUFFICES ASSUME NEW c \in Clients, command[c].op = "issueJob",
                    cjob[c] # NoJob, cjob[c] \notin astray
             PROVE  Places(cjob[c]) = IF Handed(c) THEN 1 ELSE 0
  BY DEF JobsAccounted
<1> DEFINE inLine  == {i \in DOMAIN queue : queue[i] = cjob[c]}
           inWork  == {w \in Executing : wjob[w] = cjob[c]}
           inHand  == AtMain \cap {cjob[c]}
           told    == {d \in Deliveries : stream[d[1]][d[2]].job = cjob[c]}
<1>1. cjob[c] \in Job /\ cjob[c].owner = c
  BY DEF JobsInv, OwnJob
<1>2. told = {<<c, i>> : i \in Told[c]}
  BY <1>1, DeliveredOf
<1>3. Executing \subseteq Carrying
  BY DEF Executing, Carrying
<1>4. \A i \in DOMAIN queue : queue[i].owner = c <=> queue[i] = cjob[c]
  BY <1>1 DEF JobsInv, InBuffer, Released
<1>5. \A w \in Executing : wjob[w].owner = c <=> wjob[w] = cjob[c]
  BY <1>1, <1>3 DEF JobsInv, AtWorker, Released
<1>6. Places(cjob[c]) = Cardinality(inLine) + Cardinality(inWork)
                            + Cardinality(inHand) + Cardinality(told)
  BY DEF Places
<1>12. AtMain \cap {cjob[c]} # {} => mpc = "tell" /\ mjob = cjob[c] /\ Handed(c)
  BY <1>1 DEF AtMain, JobsInv, AtDrain, HandPCs, Hers
<1>13. mpc = "tell" /\ mjob.owner = c =>
            /\ mjob = cjob[c] /\ Told[c] = {}
            /\ \A i \in DOMAIN queue : queue[i].owner # c
  BY DEF JobsInv, AtDrain, HandPCs, Hers, OutOfLine
<1>14. mpc = "tell" => Executing = {}
  BY DEF JobsInv, AtDrain, LeavingPCs, Executing, GonePCs
<1>7. Cardinality({}) = 0 /\ \A x : Cardinality({x}) = 1
  BY FS_EmptySet, FS_Singleton
<1>8. CASE ~Handed(c)
  <2>1. inLine = {}
    BY <1>1, <1>8 DEF JobsInv, InBuffer, Released
  <2>2. inWork = {}
    BY <1>1, <1>3, <1>8 DEF JobsInv, AtWorker, Released
  <2>3. told = {}
    BY <1>2, <1>8 DEF JobsInv, ToldOnce
  <2>6. inHand = {}
    BY <1>8, <1>12
  <2>4. /\ Cardinality(inLine) = 0 /\ Cardinality(inWork) = 0
        /\ Cardinality(inHand) = 0 /\ Cardinality(told) = 0
    BY <1>7, <2>1, <2>2, <2>3, <2>6
  <2> HIDE DEF inLine, inWork, inHand, told
  <2>5. Places(cjob[c]) = 0
    BY <1>6, <2>4
  <2> QED
    BY <1>8, <2>5
<1>9. CASE Handed(c) /\ \E i \in DOMAIN queue : queue[i].owner = c
  <2>1. PICK i \in DOMAIN queue : queue[i].owner = c
    BY <1>9
  <2>2. inLine = {i}
    BY <1>4, <2>1 DEF JobsInv, InBuffer
  <2>3. inWork = {}
    BY <1>3, <1>5, <2>1 DEF JobsInv, AtWorker
  <2>4. told = {}
    BY <1>2, <2>1 DEF JobsInv, InBuffer
  <2>7. inHand = {}
    BY <1>1, <1>12, <1>13, <2>1
  <2>5. /\ Cardinality(inLine) = 1 /\ Cardinality(inWork) = 0
        /\ Cardinality(inHand) = 0 /\ Cardinality(told) = 0
    BY <1>7, <2>2, <2>3, <2>4, <2>7
  <2> HIDE DEF inLine, inWork, inHand, told
  <2>6. Places(cjob[c]) = 1
    BY <1>6, <2>5
  <2> QED
    BY <1>9, <2>6
<1>10. CASE Handed(c) /\ \E w \in Executing : wjob[w].owner = c
  <2>1. PICK w \in Executing : wjob[w].owner = c
    BY <1>10
  <2>2. inWork = {w}
    BY <1>3, <1>5, <2>1 DEF JobsInv, AtWorker
  <2>3. inLine = {}
    BY <1>3, <1>4, <2>1 DEF JobsInv, AtWorker
  <2>4. told = {}
    BY <1>2, <1>3, <2>1 DEF JobsInv, AtWorker, Executing
  <2>7. inHand = {}
    BY <1>12, <1>14, <2>1
  <2>5. /\ Cardinality(inLine) = 0 /\ Cardinality(inWork) = 1
        /\ Cardinality(inHand) = 0 /\ Cardinality(told) = 0
    BY <1>7, <2>2, <2>3, <2>4, <2>7
  <2> HIDE DEF inLine, inWork, inHand, told
  <2>6. Places(cjob[c]) = 1
    BY <1>6, <2>5
  <2> QED
    BY <1>10, <2>6
<1>11. CASE /\ Handed(c) /\ Told[c] # {}
            /\ \A i \in DOMAIN queue : queue[i].owner # c
            /\ \A w \in Executing : wjob[w].owner # c
  <2>1. PICK i \in Told[c] : TRUE
    BY <1>11
  <2>2. Told[c] = {i}
    BY <2>1 DEF JobsInv, ToldOnce
  <2>3. told = {<<c, i>>}
    BY <1>2, <2>2
  <2>4. inLine = {} /\ inWork = {}
    BY <1>1, <1>11
  <2>7. inHand = {}
    BY <1>1, <1>11, <1>12, <1>13
  <2>5. /\ Cardinality(inLine) = 0 /\ Cardinality(inWork) = 0
        /\ Cardinality(inHand) = 0 /\ Cardinality(told) = 1
    BY <1>7, <2>3, <2>4, <2>7
  <2> HIDE DEF inLine, inWork, inHand, told
  <2>6. Places(cjob[c]) = 1
    BY <1>6, <2>5
  <2> QED
    BY <1>11, <2>6
<1>15. CASE Handed(c) /\ mpc = "tell" /\ mjob.owner = c
  <2>1. inHand = {cjob[c]}
    BY <1>13, <1>15 DEF AtMain
  <2>2. inLine = {} /\ inWork = {} /\ told = {}
    BY <1>1, <1>2, <1>13, <1>14, <1>15
  <2>3. /\ Cardinality(inLine) = 0 /\ Cardinality(inWork) = 0
        /\ Cardinality(inHand) = 1 /\ Cardinality(told) = 0
    BY <1>7, <2>1, <2>2
  <2> HIDE DEF inLine, inWork, inHand, told
  <2>4. Places(cjob[c]) = 1
    BY <1>6, <2>3
  <2> QED
    BY <1>15, <2>4
<1> QED
  BY <1>8, <1>9, <1>10, <1>11, <1>15 DEF JobsInv, NoneLost

-----------------------------------------------------------------------------
(* The theorems                                                              *)

(* No job is lost or ends twice, even in the races of an exit: a job that    *)
(* its controller has let go of is in the buffer, in a worker, in the hands  *)
(* of main's drain or was told of to a client, in one of the four and once.  *)
(* Only the jobs are excepted that a late controller's stop took between the *)
(* top and the pop of the drain, or that were popped instead.                *)
THEOREM AllAccounted == Spec => []JobsAccounted
BY OnePlace, JobsInvariant, PTL

(* What a client is told about a job, whoever ends it, is about its own job: *)
(* the descriptor kept with the job still is the submitter's.                *)
THEOREM OutcomesGoHome == Spec => []OutcomeGoesHome
<1>1. IInv /\ JobsInv => OutcomeGoesHome
  <2> SUFFICES ASSUME JobsInv, NEW d \in Deliveries
               PROVE  stream[d[1]][d[2]].job.owner = d[1]
    BY DEF OutcomeGoesHome
  <2>1. PICK c \in Clients : \E i \in Told[c] : d = <<c, i>>
    BY DeliveriesAreTold
  <2>2. PICK i \in Told[c] : d = <<c, i>>
    BY <2>1
  <2>3. d[1] = c /\ d[2] = i
    BY <2>2
  <2>4. stream[c][i].job = cjob[c] /\ Handed(c)
    BY <2>2 DEF JobsInv, ToldOnce
  <2> QED
    BY <2>3, <2>4 DEF JobsInv, OwnJob, Handed, WithoutJobID
<1> QED
  BY <1>1, JobsInvariant, PTL

-----------------------------------------------------------------------------
(* The end of the server                                                     *)

AfterSpin == LeavingPCs \ {"spin"}
Draining  == {"drain", "pop", "tell", "hangup"}

(* How many of the jobs that main found are still in the line.               *)
Rest == IF mpc \in {"tell", "hangup"} THEN left - 1 ELSE left

(* Once main has seen the count at zero only the controllers it missed are   *)
(* at work, and the drain goes on until the jobs of the others are gone.     *)
LateInv ==
    /\ mpc \in AfterSpin => \A c \in Clients : c \in late \/ cpc[c] \in {"away", "done"}
    /\ mpc \in Draining => \A i \in DOMAIN queue : i > Rest => queue[i].owner \in late
    /\ server = "ended" => mpc = "drain" /\ left = 0

(* Nobody inserts and main does not count: the line only gets shorter.       *)
LEMMA LateKept ==
    ASSUME IInv, LateInv, server' # "ended", UNCHANGED <<left, late>>,
           mpc' = mpc \/ (mpc \notin AfterSpin /\ mpc' \notin AfterSpin),
           mpc \in AfterSpin => \A c \in Clients :
                cpc[c] \in {"away", "done"} => cpc'[c] \in {"away", "done"},
           mpc \in Draining => \A i \in DOMAIN queue' :
                \/ \E k \in DOMAIN queue : i \in Nat /\ k >= i /\ queue'[i] = queue[k]
                \/ queue'[i].owner \in late
    PROVE  LateInv'
<1>1. DOMAIN queue \subseteq Nat /\ left \in Nat
  BY Types DEF IInv, TypeOK
<1>2. mpc' \in AfterSpin =>
            \A c \in Clients : c \in late' \/ cpc'[c] \in {"away", "done"}
  BY DEF LateInv
<1>3. Draining \subseteq AfterSpin
  BY DEF Draining, AfterSpin, LeavingPCs
<1>4. ASSUME mpc' \in Draining, NEW i \in DOMAIN queue', i > Rest'
      PROVE  queue'[i].owner \in late'
  <2>1. mpc' = mpc /\ Rest' = Rest /\ Rest \in Int
    BY <1>1, <1>3, <1>4 DEF Rest
  <2>2. CASE queue'[i].owner \in late
    BY <2>2
  <2>3. ASSUME NEW k \in DOMAIN queue, k >= i, queue'[i] = queue[k], i \in Nat
        PROVE  queue'[i].owner \in late'
    <3>1. k > Rest
      BY <1>1, <1>4, <2>1, <2>3
    <3> QED
      BY <1>4, <2>1, <2>3, <3>1 DEF LateInv
  <2> QED
    BY <1>4, <2>1, <2>2, <2>3
<1> QED
  BY <1>2, <1>4 DEF LateInv

(* A worker only ever takes a job before the drain.                          *)
LEMMA LateWorker ==
    ASSUME IInv, JobsInv, LateInv, NEW w \in Workers, WorkerStep(w) \/ ChildExit(w)
    PROVE  LateInv'
<1>1. wpc[w] \notin GonePCs /\ UNCHANGED <<main, history, cpc>> /\ server' # "ended"
  BY DEF WorkerStep, WorkerTop, CheckSlot, SleepForSlot, LeaveSlotWait,
     ReserveSlot, TakeJob, FindEmpty, AtBuffer, SleepForJob, LeaveTakeWait,
     SendOutput, CloseClient, ReleaseSlot, ChildExit, GonePCs, Write, controllers
<1>2. mpc \notin LeavingPCs
  BY <1>1, WorkerBeforeDrain
<1> QED
  BY <1>1, <1>2, LateKept DEF main, history, AfterSpin, Draining, LeavingPCs

LEMMA LateController ==
    ASSUME IInv, JobsInv, LateInv, NEW c \in Clients, ControllerStep(c)
    PROVE  LateInv'
<1>1. /\ UNCHANGED <<left, late>> /\ server' # "ended"
      /\ mpc' = mpc \/ (mpc = "accept" /\ mpc' = "join")
      /\ cpc[c] \notin {"away", "done"}
      /\ \A d \in Clients : d # c => cpc'[d] = cpc[d]
  <2>1. CASE KillMain(c)
    BY <2>1, Types DEF ControllerStep, KillMain, GoC, history
  <2>2. CASE SetConcurrency(c)
    BY <2>2, Types DEF ControllerStep, SetConcurrency, GoC, main
  <2>3. CASE ~KillMain(c) /\ ~SetConcurrency(c)
    <3>1. UNCHANGED <<main, history>> /\ server' # "ended"
      BY <2>3 DEF ControllerStep, CountController, Malformed, NewJob,
         InsertJob, FindFull, SleepForRoom, GiveUpInsert, Refuse,
         ReportSubmitted, Answer, StopQueued, StopClose, StopNotFound, Reply,
         Poll, SetExit, WakeRunning, WakeNonempty, WakeNonfull, ExitReply,
         Detach, Write
    <3>2. /\ cpc[c] \notin {"away", "done"}
          /\ cpc' = cpc \/ \E to : GoC(c, to)
      BY <2>3 DEF ControllerStep, CountController, Malformed, NewJob,
         InsertJob, FindFull, SleepForRoom, GiveUpInsert, Refuse,
         ReportSubmitted, Answer, StopQueued, StopClose, StopNotFound, Reply,
         Poll, SetExit, WakeRunning, WakeNonempty, WakeNonfull, ExitReply,
         Detach, AtFullBuffer, controllers
    <3> QED
      BY <3>1, <3>2, Types DEF main, history, GoC
  <2> QED
    BY <2>1, <2>2, <2>3
<1>2. mpc \in AfterSpin => c \in late
  BY <1>1 DEF LateInv
<1>3. Draining \subseteq AfterSpin
  BY DEF Draining, AfterSpin, LeavingPCs
<1>4. ASSUME mpc \in Draining, NEW i \in DOMAIN queue'
      PROVE  \/ \E k \in DOMAIN queue : i \in Nat /\ k >= i /\ queue'[i] = queue[k]
             \/ queue'[i].owner \in late
  <2>1. /\ queue \in Seq(Job) /\ Len(queue) \in Nat /\ DOMAIN queue = 1 .. Len(queue)
    BY Types
  <2>2. CASE InsertJob(c)
    <3>1. queue' = Append(queue, cjob[c]) /\ cpc[c] \in {"insert", "insertwait"}
      BY <2>2 DEF InsertJob, AtFullBuffer, Push
    <3>2. cjob[c] \in Job /\ cjob[c].owner = c
      BY <3>1 DEF JobsInv, OwnJob, WithoutJobID, Inserting
    <3>3. \/ i \in DOMAIN queue /\ queue'[i] = queue[i]
          \/ queue'[i] = cjob[c]
      BY <2>1, <3>1, <3>2, AppendProperties, LenProperties
    <3> QED
      BY <1>2, <1>3, <1>4, <2>1, <3>2, <3>3
  <2>3. CASE StopQueued(c)
    <3> DEFINE pos == QueuePosition(queue, command[c].arg)
    <3>1. pos \in DOMAIN queue /\ queue' = Erase(queue, pos)
      BY <2>3, PositionInQueue, Types DEF StopQueued
    <3> HIDE DEF pos
    <3>2. DOMAIN queue' = 1 .. (Len(queue) - 1)
      BY <2>1, <3>1, EraseShortens, LenProperties
    <3>3. queue'[i] = IF i < pos THEN queue[i] ELSE queue[i + 1]
      BY <2>1, <3>1, <3>2, EraseEntries
    <3> QED
      BY <1>4, <2>1, <3>2, <3>3
  <2>4. CASE ~InsertJob(c) /\ ~StopQueued(c)
    <3>1. queue' = queue
      BY <2>4 DEF ControllerStep, CountController, Malformed, NewJob,
         FindFull, SleepForRoom, GiveUpInsert, Refuse, ReportSubmitted,
         Answer, SetConcurrency, StopClose, StopNotFound, Reply, Poll,
         SetExit, WakeRunning, WakeNonempty, WakeNonfull, ExitReply, KillMain,
         Detach, shared
    <3> QED
      BY <1>4, <2>1, <3>1
  <2> QED
    BY <2>2, <2>3, <2>4
<1> QED
  BY <1>1, <1>4, LateKept DEF AfterSpin, LeavingPCs

LEMMA LateMain ==
    ASSUME IInv, LateInv, MainStep
    PROVE  LateInv'
<1>1. /\ DOMAIN queue = 1 .. Len(queue) /\ Len(queue) \in Nat /\ left \in Nat
      /\ server = "up" /\ UNCHANGED cpc
  BY Types DEF IInv, TypeOK, MainStep, EnterAccept, JoinWorkers,
     SpinOnControllers, QueueSize, DrainTop, DrainPop, DrainTell, DrainClose,
     DrainEmptyQueue, ReturnFromMain, controllers
<1>2. CASE EnterAccept \/ JoinWorkers
  BY <1>1, <1>2 DEF EnterAccept, JoinWorkers, LateInv, AfterSpin, Draining,
     LeavingPCs
<1>3. CASE SpinOnControllers
  <2>1. Counted = {}
    <3>1. Counted \subseteq Clients /\ IsFiniteSet(Counted)
      BY ClientsAssumption, FS_Subset DEF Counted
    <3>2. Cardinality(Counted) = 0
      BY <1>3 DEF SpinOnControllers, IInv, CountersExact
    <3> QED
      BY <3>1, <3>2, FS_EmptySet
  <2>2. \A c \in Clients : cpc[c] \in WithoutCount
    BY <2>1 DEF Counted
  <2> QED
    BY <1>1, <1>3, <2>2 DEF SpinOnControllers, LateInv, WithoutCount, Draining
<1>4. CASE QueueSize
  BY <1>1, <1>4 DEF QueueSize, LateInv, AfterSpin, Draining, LeavingPCs, Rest,
     shared, history
<1>5. CASE DrainTop
  BY <1>1, <1>5 DEF DrainTop, LateInv, AfterSpin, Draining, LeavingPCs, Rest,
     shared, history
<1>6. CASE DrainPop
  <2>1. /\ mpc = "pop" /\ mpc' = "tell" /\ UNCHANGED <<left, late, server>>
    BY <1>6 DEF DrainPop
  <2>2. \A i \in DOMAIN queue' :
            queue'[i] = queue[i + 1] /\ i + 1 \in DOMAIN queue /\ i \in Int
    BY <1>1, <1>6, TopOfQueue DEF DrainPop
  <2>3. Rest = left /\ Rest' = left - 1
    BY <2>1 DEF Rest
  <2>4. \A i \in DOMAIN queue : i > left => queue[i].owner \in late
    BY <2>1, <2>3 DEF LateInv, Draining
  <2>5. ASSUME NEW i \in DOMAIN queue', i > left - 1
        PROVE  queue'[i].owner \in late
    <3>1. i + 1 \in DOMAIN queue /\ i + 1 > left
      BY <1>1, <2>2, <2>5
    <3> QED
      BY <2>2, <2>4, <3>1
  <2> QED
    BY <1>1, <2>1, <2>3, <2>5 DEF LateInv, AfterSpin, LeavingPCs
<1>7. CASE DrainTell
  BY <1>1, <1>7 DEF DrainTell, LateInv, AfterSpin, Draining, LeavingPCs, Rest,
     shared, history, Write
<1>8. CASE DrainClose
  BY <1>1, <1>8 DEF DrainClose, LateInv, AfterSpin, Draining, LeavingPCs, Rest,
     shared, history
<1>9. CASE DrainEmptyQueue \/ ReturnFromMain
  BY <1>1, <1>9 DEF DrainEmptyQueue, ReturnFromMain, LateInv, Rest, shared,
     main, history
<1> QED
  BY <1>2, <1>3, <1>4, <1>5, <1>6, <1>7, <1>8, <1>9 DEF MainStep

LEMMA LateNext ==
    ASSUME IInv, JobsInv, LateInv, [Next]_vars
    PROVE  LateInv'
<1>1. ASSUME NEW w \in Workers, WorkerStep(w) \/ ChildExit(w)
      PROVE  LateInv'
  BY <1>1, LateWorker
<1>2. ASSUME NEW c \in Clients, ControllerStep(c)
      PROVE  LateInv'
  BY <1>2, LateController
<1>3. CASE \E c \in Clients, cmd \in Commands, fd \in FDs : Accept(c, cmd, fd)
  BY <1>3 DEF Accept, LateInv, AfterSpin, Draining, LeavingPCs
<1>4. CASE MainStep
  BY <1>4, LateMain
<1>5. CASE (\E t \in Threads : SpuriousWakeup(t)) \/ UNCHANGED vars
  BY <1>5 DEF SpuriousWakeup, vars, shared, controllers, main, history, LateInv,
     Rest
<1> QED
  BY <1>1, <1>2, <1>3, <1>4, <1>5 DEF Next

(* Whatever a client's job met, its client was told before main returned:    *)
(* the drain reaches every job that a controller main waited for has put in. *)
THEOREM ToldBeforeTheEnd == Spec => []AllToldAtEnd
<1>1. Init => LateInv
  BY DEF Init, LateInv, AfterSpin, Draining, LeavingPCs
<1>2. IInv /\ JobsInv /\ LateInv => AllToldAtEnd
  <2> SUFFICES ASSUME IInv, JobsInv, LateInv, server = "ended",
                      NEW c \in Clients, c \notin late,
                      command[c].op = "issueJob", cjob[c] \notin astray
               PROVE  \E d \in Deliveries : stream[d[1]][d[2]].job = cjob[c]
    BY DEF AllToldAtEnd
  <2>1. mpc = "drain" /\ left = 0
    BY DEF LateInv
  <2>2. cpc[c] = "done"
    BY <2>1 DEF LateInv, AfterSpin, LeavingPCs, JobsInv, OwnJob, NoCommand
  <2>3. Executing = {}
    BY <2>1 DEF JobsInv, AtDrain, LeavingPCs, Executing, GonePCs
  <2>4. \A i \in DOMAIN queue : queue[i].owner # c
    <3>1. \A i \in DOMAIN queue : i > Rest
      BY <2>1, Types DEF Rest
    <3> QED
      BY <2>1, <3>1 DEF LateInv, Draining
  <2>5. Told[c] # {}
    BY <2>1, <2>2, <2>3, <2>4 DEF JobsInv, NoneLost, Handed
  <2>6. PICK i \in Told[c] : TRUE
    BY <2>5
  <2>7. <<c, i>> \in Deliveries /\ stream[c][i].job = cjob[c]
    BY <2>6, DeliveriesAreTold DEF JobsInv, ToldOnce
  <2> QED
    BY <2>7
<1> QED
  BY <1>1, <1>2, LateNext, JobsInvariant, PTL DEF Spec
=============================================================================
