---------------------------- MODULE MTPool_proofs ----------------------------
(* The multithreaded server implements JobPool, for any number of clients    *)
(* and workers, any buffer size and any menu of commands: every step of a    *)
(* worker, of a controller, of main or of a client is a step of the pool or  *)
(* leaves the pool as it is.                                                 *)
EXTENDS MTJobs_proofs

(* What the refinement mapping of MTServer puts in the places of `inService' *)
(* and `ended': the jobs whose clients were told, the one in the hands of    *)
(* main and those that went astray.                                          *)
InService == {wjob[w] : w \in Executing}
ToldJobs  == {stream[d[1]][d[2]].job : d \in Deliveries}
Ended     == ToldJobs \cup AtMain \cup astray

PoolStays == UNCHANGED <<queue, InService, Ended, peak>>

LEMMA EndedAreTold ==
    /\ \A x : x \in ToldJobs <=> \E c \in Clients : \E i \in Told[c] : x = stream[c][i].job
    /\ \A x : x \in ToldJobs' <=> \E c \in Clients : \E i \in Told'[c] : x = stream'[c][i].job
<1>1. /\ \A c \in Clients : Told[c] =
              {i \in DOMAIN stream[c] : stream[c][i].kind \in Outcomes}
      /\ \A c \in Clients : Told'[c] =
              {i \in DOMAIN stream'[c] : stream'[c][i].kind \in Outcomes}
  BY DEF Told
<1>2. /\ Deliveries = UNION {{<<c, i>> : i \in Told[c]} : c \in Clients}
      /\ Deliveries' = UNION {{<<c, i>> : i \in Told'[c]} : c \in Clients}
  BY <1>1 DEF Deliveries
<1>3. /\ \A d : d \in Deliveries <=> \E c \in Clients : \E i \in Told[c] : d = <<c, i>>
      /\ \A d : d \in Deliveries' <=> \E c \in Clients : \E i \in Told'[c] : d = <<c, i>>
  BY <1>2
<1>4. /\ \A x : x \in ToldJobs <=> \E d \in Deliveries : x = stream[d[1]][d[2]].job
      /\ \A x : x \in ToldJobs' <=> \E d \in Deliveries' : x = stream'[d[1]][d[2]].job
  BY DEF ToldJobs
<1>5. ASSUME NEW x
      PROVE  x \in ToldJobs <=> \E c \in Clients : \E i \in Told[c] : x = stream[c][i].job
  <2>1. ASSUME NEW d \in Deliveries, x = stream[d[1]][d[2]].job
        PROVE  \E c \in Clients : \E i \in Told[c] : x = stream[c][i].job
    <3>1. PICK c \in Clients : \E i \in Told[c] : d = <<c, i>>
      BY <1>3
    <3>2. PICK i \in Told[c] : d = <<c, i>>
      BY <3>1
    <3> QED
      BY <2>1, <3>2
  <2>2. ASSUME NEW c \in Clients, NEW i \in Told[c], x = stream[c][i].job
        PROVE  \E d \in Deliveries : x = stream[d[1]][d[2]].job
    <3>1. <<c, i>> \in Deliveries
      BY <1>3
    <3> QED
      BY <2>2, <3>1
  <2> QED
    BY <1>4, <2>1, <2>2
<1>6. ASSUME NEW x
      PROVE  x \in ToldJobs' <=> \E c \in Clients : \E i \in Told'[c] : x = stream'[c][i].job
  <2>1. ASSUME NEW d \in Deliveries', x = stream'[d[1]][d[2]].job
        PROVE  \E c \in Clients : \E i \in Told'[c] : x = stream'[c][i].job
    <3>1. PICK c \in Clients : \E i \in Told'[c] : d = <<c, i>>
      BY <1>3
    <3>2. PICK i \in Told'[c] : d = <<c, i>>
      BY <3>1
    <3> QED
      BY <2>1, <3>2
  <2>2. ASSUME NEW c \in Clients, NEW i \in Told'[c], x = stream'[c][i].job
        PROVE  \E d \in Deliveries' : x = stream'[d[1]][d[2]].job
    <3>1. <<c, i>> \in Deliveries'
      BY <1>3
    <3> QED
      BY <2>2, <3>1
  <2> QED
    BY <1>4, <2>1, <2>2
<1> QED
  BY <1>5, <1>6

LEMMA AsideEnds ==
    ASSUME MainAside
    PROVE  AtMain' = AtMain /\ astray' = astray
BY DEF MainAside, AtMain, HandPCs

LEMMA NobodyEnds ==
    ASSUME SameTold
    PROVE  /\ ToldJobs' = ToldJobs
           /\ MainAside => Ended' = Ended
<1>1. Told' = Told /\ \A c \in Clients : \A i \in Told[c] : stream'[c][i] = stream[c][i]
  BY DEF SameTold
<1>2. \A x : x \in ToldJobs' <=> x \in ToldJobs
  BY <1>1, EndedAreTold
<1>3. \A S, T : (\A x : x \in S <=> x \in T) => S = T
  OBVIOUS
<1>4. ToldJobs' = ToldJobs
  BY <1>2, <1>3
<1> QED
  BY <1>4, AsideEnds DEF Ended

LEMMA OneEnds ==
    ASSUME NEW c \in Clients, NEW job, Tells(c, job)
    PROVE  /\ ToldJobs' = ToldJobs \cup {job}
           /\ MainAside => Ended' = Ended \cup {job}
<1>1. PICK n \in Nat : /\ Told'[c] = Told[c] \cup {n}
                       /\ \A d \in Clients : d # c => Told'[d] = Told[d]
                       /\ stream'[c][n].job = job
                       /\ \A d \in Clients : \A i \in Told[d] : stream'[d][i] = stream[d][i]
  BY DEF Tells
<1>2. ASSUME NEW d \in Clients, NEW i \in Told'[d]
      PROVE  stream'[d][i].job = job \/ (i \in Told[d] /\ stream'[d][i] = stream[d][i])
  BY <1>1
<1>3. \A d \in Clients : \A i \in Told[d] : i \in Told'[d] /\ stream'[d][i] = stream[d][i]
  BY <1>1
<1>4. n \in Told'[c]
  BY <1>1
<1>5. ToldJobs' = ToldJobs \cup {job}
  BY <1>1, <1>2, <1>3, <1>4, EndedAreTold
<1> QED
  BY <1>5, AsideEnds DEF Ended

LEMMA SameService ==
    ASSUME UNCHANGED wjob, Executing' = Executing
    PROVE  InService' = InService
BY DEF InService

(* A job is not known to the pool before its controller lets go of it.       *)
LEMMA NotKnown ==
    ASSUME IInv, JobsInv, NEW c \in Clients, cpc[c] \in Inserting \ {"inserted"}
    PROVE  /\ cjob[c] \in Job /\ fdTable[sock[c]] = c /\ sock[c] \in FDs
           /\ cjob[c] \notin Pool!Known
<1>1. /\ command[c].op = "issueJob" /\ cjob[c] \in Job /\ cjob[c].owner = c
      /\ fdTable[sock[c]] = c /\ ~Handed(c)
  BY DEF JobsInv, OwnJob, WithoutJobID, Inserting, NotHers, Handed
<1>2. sock[c] \in FDs
  BY DEF IInv, LocalsSet, Inserting
<1>3. \A i \in DOMAIN queue : queue[i] # cjob[c]
  BY <1>1 DEF JobsInv, InBuffer, Released
<1>4. cjob[c] \notin InService
  BY <1>1 DEF JobsInv, AtWorker, Released, InService, Carrying, Executing
<1>5. cjob[c] \notin ToldJobs
  <2>1. \A d \in Clients : \A i \in Told[d] : stream[d][i].job = cjob[d] /\ Handed(d)
    BY DEF JobsInv, ToldOnce
  <2>2. \A d \in Clients : Handed(d) => cjob[d].owner = d
    BY DEF JobsInv, OwnJob, Handed, WithoutJobID
  <2> QED
    BY <1>1, <2>1, <2>2, EndedAreTold
<1>6. cjob[c] \notin ToSet(queue)
  BY <1>3 DEF ToSet
<1>7. cjob[c] \notin AtMain /\ cjob[c] \notin astray
  BY <1>1 DEF JobsInv, AtDrain, AtMain, HandPCs, Hers
<1> QED
  BY <1>1, <1>2, <1>4, <1>5, <1>6, <1>7
  DEF Pool!Known, Pool!ToSet, ToSet, InService, Ended, ToldJobs

-----------------------------------------------------------------------------
(* The steps that the pool sees                                              *)

LEMMA InsertSubmits ==
    ASSUME IInv, JobsInv, NEW c \in Clients, InsertJob(c), MainAside
    PROVE  \E j \in Job : Pool!Submit(j)
<1>1. /\ UNCHANGED <<wpc, wjob, stream, peak>> /\ ~Full
      /\ queue' = Append(queue, cjob[c]) /\ cpc[c] \in {"insert", "insertwait"}
  BY DEF InsertJob, AtFullBuffer, workers, network, Push, history
<1>2. cjob[c] \in Job /\ cjob[c] \notin Pool!Known
  BY <1>1, NotKnown DEF Inserting
<1>3. Len(queue) < BufferSize
  <2>1. Len(queue) <= BufferSize /\ Len(queue) # BufferSize
    BY <1>1 DEF Full, IInv, BufferRespected
  <2>2. Len(queue) \in Nat /\ BufferSize \in Nat
    BY Types, BufferAssumption
  <2> QED
    BY <2>1, <2>2
<1>4. InService' = InService
  BY <1>1, SameService DEF Executing
<1>5. Ended' = Ended
  BY <1>1, StreamStays, NobodyEnds
<1> QED
  BY <1>1, <1>2, <1>3, <1>4, <1>5 DEF Pool!Submit, InService, Ended, ToldJobs

(* The worker that takes a job up holds a slot and no job yet.               *)
LEMMA TakeStarts ==
    ASSUME IInv, JobsInv, NEW w \in Workers, TakeJob(w), MainAside
    PROVE  Pool!Start
<1> DEFINE job == Head(queue)
<1>1. /\ wjob' = [wjob EXCEPT ![w] = job] /\ queue' = Tail(queue)
      /\ GoW(w, "run") /\ UNCHANGED <<stream, peak>> /\ ~Empty
      /\ wpc[w] \in {"take", "takewait"}
  BY DEF TakeJob, AtBuffer, network, Top, Pop, history
<1>2. queue # <<>>
  BY <1>1, Types, LenProperties DEF Empty
<1>3. /\ wpc'[w] = "run" /\ \A v \in Workers : v # w => wpc'[v] = wpc[v]
      /\ wjob'[w] = job /\ \A v \in Workers : v # w => wjob'[v] = wjob[v]
  BY <1>1, Types DEF GoW
<1>4. w \notin Executing /\ Executing' = Executing \cup {w}
  BY <1>1, <1>3 DEF Executing
<1>5. \A v \in Executing : v # w /\ wjob'[v] = wjob[v]
  BY <1>3, <1>4 DEF Executing
<1> HIDE DEF job
<1>6. InService' = InService \cup {job}
  BY <1>3, <1>4, <1>5 DEF InService
<1>7. Ended' = Ended
  BY <1>1, StreamStays, NobodyEnds
<1>8. Cardinality(InService) < peak
  <2>1. Executing \cup {w} \subseteq Holders /\ Holders \subseteq Workers
    BY <1>1 DEF Executing, Holders, WithSlot
  <2>2. IsFiniteSet(Holders)
    BY <2>1, WorkersAssumption, FS_Subset
  <2>3. IsFiniteSet(Executing)
    BY <2>1, <2>2, FS_Subset
  <2>4. /\ Cardinality(Executing) \in Nat /\ Cardinality(Holders) \in Nat
        /\ Cardinality(Executing \cup {w}) = Cardinality(Executing) + 1
        /\ Cardinality(Executing \cup {w}) <= Cardinality(Holders)
    BY <1>4, <2>1, <2>2, <2>3, FS_CardinalityType, FS_AddElement, FS_Subset
  <2>5. Cardinality(InService) \in Nat /\ Cardinality(InService) <= Cardinality(Executing)
    <3> DEFINE f == [v \in Executing |-> wjob[v]]
    <3>1. f \in Surjection(Executing, InService)
      BY DEF Surjection, InService
    <3>2. IsFiniteSet(InService) /\ Cardinality(InService) <= Cardinality(Executing)
      BY <2>3, <3>1, FS_Surjection
    <3> QED
      BY <3>2, FS_CardinalityType
  <2>6. Cardinality(Holders) <= peak /\ peak \in Nat
    BY DEF IInv, TypeOK, CountersExact, SlotsBounded
  <2> QED
    BY <2>4, <2>5, <2>6
<1>9. Pool!Cardinality(InService) = Cardinality(InService)
  BY DEF Pool!Cardinality, Cardinality
<1> QED
  BY <1>1, <1>2, <1>6, <1>7, <1>8, <1>9 DEF Pool!Start, InService, Ended, ToldJobs, job

(* The worker sends the output of its job, which no other worker has.        *)
LEMMA SendFinishes ==
    ASSUME IInv, JobsInv, NEW w \in Workers, SendOutput(w), MainAside
    PROVE  \E job \in InService : Pool!Finish(job)
<1> DEFINE job == wjob[w]
<1>1. /\ UNCHANGED <<queue, wjob, peak>> /\ wpc[w] = "send" /\ wpc'[w] = "close"
      /\ \A v \in Workers : v # w => wpc'[v] = wpc[v]
  BY Types DEF SendOutput, GoW, shared, history
<1>2. w \in Carrying /\ w \in Executing /\ Executing' = Executing \ {w}
      /\ Executing \subseteq Carrying
  BY <1>1 DEF Executing, Carrying
<1>3. job \in Released /\ \A v \in Carrying : wjob[v] = job => v = w
  BY <1>2 DEF JobsInv, AtWorker
<1>4. job \in Job /\ job.owner \in Clients /\ job.sock \in FDs
      /\ fdTable[job.sock] = job.owner
  BY <1>3, JobFields DEF Released
<1>5. Tells(job.owner, job)
  BY <1>4, WriteOutcome DEF SendOutput, Outcomes
<1>6. Ended' = Ended \cup {job}
  BY <1>4, <1>5, OneEnds
<1>7. job \in InService /\ InService' = InService \ {job}
  BY <1>1, <1>2, <1>3 DEF InService
<1> QED
  BY <1>1, <1>6, <1>7 DEF Pool!Finish, InService, Ended, ToldJobs

(* stop cancels a job that waits.                                            *)
LEMMA StopCancels ==
    ASSUME IInv, JobsInv, NEW c \in Clients, StopQueued(c), MainAside
    PROVE  \E i \in DOMAIN queue : Pool!Cancel(i)
<1> DEFINE pos == QueuePosition(queue, command[c].arg)
<1>1. /\ UNCHANGED <<wpc, wjob, peak>> /\ queue' = Erase(queue, pos)
      /\ Write(queue[pos].sock, "REMOVED", queue[pos])
  BY DEF StopQueued, workers, history
<1>2. pos \in DOMAIN queue
  BY PositionInQueue, Types DEF StopQueued
<1> HIDE DEF pos
<1> DEFINE job == queue[pos]
<1>3. job \in Job /\ job.owner \in Clients /\ job.sock \in FDs
      /\ fdTable[job.sock] = job.owner
  BY <1>2, JobFields DEF JobsInv, InBuffer, Released
<1>4. Tells(job.owner, job)
  BY <1>1, <1>3, WriteOutcome DEF Outcomes
<1>5. Ended' = Ended \cup {job}
  BY <1>3, <1>4, OneEnds
<1>6. InService' = InService
  BY <1>1, SameService DEF Executing
<1> QED
  BY <1>1, <1>2, <1>5, <1>6
  DEF Pool!Cancel, Pool!RemoveAt, RemoveAt, Erase, InService, Ended, ToldJobs

(* main cancels the job at the head of the line when it pops it; if that is  *)
(* not the one it has copied, the copied one had ended before.               *)
LEMMA DrainCancels ==
    ASSUME IInv, JobsInv, DrainPop
    PROVE  Pool!Cancel(1) /\ 1 \in DOMAIN queue
<1> DEFINE job == queue[1]
<1>1. /\ UNCHANGED <<wpc, wjob, peak, stream, mjob>> /\ queue' = Tail(queue) /\ ~Empty
      /\ 1 \in DOMAIN queue /\ mpc = "pop" /\ mpc' = "tell"
      /\ astray' = IF job = mjob THEN astray ELSE astray \cup {mjob, job}
  BY TopOfQueue DEF DrainPop, workers, network, Pop
<1>2. job = mjob \/ mjob \in ToldJobs
  <2>1. job = mjob \/ Told[mjob.owner] # {}
    BY <1>1 DEF JobsInv, AtDrain
  <2>2. mjob \in Job /\ mjob.owner \in Clients /\ mjob = cjob[mjob.owner]
    BY <1>1, JobFields DEF JobsInv, AtDrain, HandPCs, Hers, IInv, HandSet
  <2>3. ASSUME NEW i \in Told[mjob.owner]
        PROVE  mjob = stream[mjob.owner][i].job
    BY <2>2 DEF JobsInv, ToldOnce
  <2> QED
    BY <2>1, <2>2, <2>3, EndedAreTold
<1>3. ToldJobs' = ToldJobs
  BY <1>1, StreamStays, NobodyEnds
<1>4. Ended' = Ended \cup {job}
  BY <1>1, <1>2, <1>3 DEF Ended, AtMain
<1>5. InService' = InService
  BY <1>1, SameService DEF Executing
<1>6. Tail(queue) = Erase(queue, 1)
  <2>1. queue \in Seq(Job) /\ queue # <<>> /\ 1 \in 1 .. Len(queue) /\ Len(queue) \in Nat
    <3>1. queue \in Seq(Job) /\ Len(queue) \in Nat /\ DOMAIN queue = 1 .. Len(queue)
      BY Types
    <3>2. queue # <<>>
      <4>1. 1 \in DOMAIN queue
        BY <1>1
      <4> QED
        BY <4>1
    <3> QED
      BY <1>1, <3>1, <3>2
  <2>2. /\ Tail(queue) \in Seq(Job) /\ Len(Tail(queue)) = Len(queue) - 1
        /\ \A i \in 1 .. Len(Tail(queue)) : Tail(queue)[i] = queue[i + 1]
    BY <2>1, HeadTailProperties
  <2>3. Erase(queue, 1) \in Seq(Job) /\ Len(Erase(queue, 1)) = Len(queue) - 1
    BY <2>1, EraseShortens
  <2>4. \A i \in 1 .. (Len(queue) - 1) :
            Erase(queue, 1)[i] = IF i < 1 THEN queue[i] ELSE queue[i + 1]
    BY <2>1, EraseEntries
  <2>5. \A i \in 1 .. (Len(queue) - 1) : Erase(queue, 1)[i] = Tail(queue)[i]
    BY <2>1, <2>2, <2>4
  <2> QED
    BY <2>2, <2>3, <2>5, SeqEqual
<1> QED
  BY <1>1, <1>4, <1>5, <1>6
  DEF Pool!Cancel, Pool!RemoveAt, RemoveAt, Erase, InService, Ended, ToldJobs

(* A submission that finds the buffer full while the server exits.           *)
LEMMA RefuseTurnsAway ==
    ASSUME IInv, JobsInv, NEW c \in Clients, Refuse(c), MainAside
    PROVE  \E j \in Ended' : Pool!TurnAway(j)
<1>1. /\ UNCHANGED <<queue, wpc, wjob, peak>> /\ cpc[c] = "refuse"
      /\ Write(sock[c], "NOT INSERTED", cjob[c])
  BY DEF Refuse, Answer, shared, workers, history
<1>2. /\ cjob[c] \in Job /\ cjob[c] \notin Pool!Known
      /\ fdTable[sock[c]] = c /\ sock[c] \in FDs
  BY <1>1, NotKnown DEF Inserting
<1>3. Tells(c, cjob[c])
  BY <1>1, <1>2, WriteOutcome DEF Outcomes
<1>4. Ended' = Ended \cup {cjob[c]}
  BY <1>3, OneEnds
<1>5. InService' = InService
  BY <1>1, SameService DEF Executing
<1>6. PICK j \in Job : j = cjob[c]
  BY <1>2
<1>7. Pool!TurnAway(j)
  BY <1>1, <1>2, <1>4, <1>5, <1>6 DEF Pool!TurnAway, InService, Ended, ToldJobs
<1> QED
  BY <1>4, <1>6, <1>7

(* Raising the concurrency above its highest value so far allows more.       *)
LEMMA ConcurrencyAllows ==
    ASSUME IInv, IInv', NEW c \in Clients, SetConcurrency(c), MainAside
    PROVE  Pool!Allow \/ PoolStays
<1>1. /\ UNCHANGED <<queue, wpc, wjob, stream>>
      /\ peak' = peak \/ peak' > peak
  BY DEF SetConcurrency, workers, network
<1>2. peak' \in Nat
  BY DEF IInv, TypeOK
<1>3. InService' = InService /\ Ended' = Ended
  BY <1>1, SameService, StreamStays, NobodyEnds DEF Executing
<1> QED
  BY <1>1, <1>2, <1>3 DEF Pool!Allow, PoolStays, InService, Ended,
     ToldJobs

-----------------------------------------------------------------------------
(* The steps that the pool does not see                                      *)

LEMMA WorkerIdle ==
    ASSUME IInv, NEW w \in Workers, WorkerStep(w) \/ ChildExit(w),
           ~TakeJob(w), ~SendOutput(w), MainAside
    PROVE  PoolStays
<1>1. /\ UNCHANGED <<queue, stream, peak>>
      /\ \A v \in Executing : wjob'[v] = wjob[v]
      /\ \E to : GoW(w, to) /\ (to \in {"run", "send"} <=> wpc[w] \in {"run", "send"})
  <2>1. CASE CloseClient(w)
    BY <2>1, Types DEF CloseClient, Executing, shared, history
  <2>2. CASE ~CloseClient(w)
    BY <2>2 DEF WorkerStep, WorkerTop, CheckSlot, SleepForSlot, LeaveSlotWait,
       ReserveSlot, FindEmpty, AtBuffer, SleepForJob, LeaveTakeWait, ChildExit,
       ReleaseSlot, shared, network, history
  <2> QED
    BY <2>1, <2>2
<1>2. Executing' = Executing
  BY <1>1, Types DEF Executing, GoW
<1>3. InService' = InService
  BY <1>1, <1>2 DEF InService
<1> QED
  BY <1>1, <1>3, StreamStays, NobodyEnds DEF PoolStays

LEMMA ControllerIdle ==
    ASSUME IInv, NEW c \in Clients, ControllerStep(c),
           ~InsertJob(c), ~Refuse(c), ~StopQueued(c), ~SetConcurrency(c), MainAside
    PROVE  PoolStays
<1>1. UNCHANGED <<queue, workers, peak>>
  BY DEF ControllerStep, CountController, Malformed, NewJob, FindFull,
     SleepForRoom, GiveUpInsert, ReportSubmitted, StopClose, StopNotFound,
     Reply, Poll, SetExit, WakeRunning, WakeNonempty, WakeNonfull, ExitReply,
     KillMain, Detach, Answer, shared, history
<1>2. CASE ReportSubmitted(c) \/ Reply(c) \/ Poll(c) \/ ExitReply(c)
  <2>1. \E kind \in {"SUBMITTED", "REPLY"}, job \in Job \cup {NoJob} :
            Write(sock[c], kind, job)
    BY <1>2, Types DEF ReportSubmitted, Reply, Poll, ExitReply, Answer
  <2>2. sock[c] \in FDs
    BY <1>2 DEF ReportSubmitted, Reply, Poll, ExitReply, IInv, LocalsSet
  <2> QED
    BY <2>1, <2>2, WriteAside, <1>1, SameService, NobodyEnds
    DEF PoolStays, workers, Executing
<1>3. CASE ~(ReportSubmitted(c) \/ Reply(c) \/ Poll(c) \/ ExitReply(c))
  <2>1. stream' = stream
    BY <1>3 DEF ControllerStep, CountController, Malformed, NewJob, FindFull,
       SleepForRoom, GiveUpInsert, StopClose, StopNotFound, SetExit,
       WakeRunning, WakeNonempty, WakeNonfull, KillMain, Detach, network
  <2> QED
    BY <1>1, <2>1, StreamStays, SameService, NobodyEnds
    DEF PoolStays, workers, Executing
<1> QED
  BY <1>2, <1>3

(* Main tells a client what the pool already knows.                          *)
LEMMA TellIdle ==
    ASSUME IInv, JobsInv, DrainTell
    PROVE  PoolStays
<1>1. /\ UNCHANGED <<queue, workers, peak, mjob, astray>> /\ mpc = "tell" /\ mpc' = "hangup"
      /\ Write(mjob.sock, "NOT EXECUTED", mjob)
  BY DEF DrainTell, shared, history
<1>2. /\ mjob \in Job /\ mjob.owner \in Clients /\ mjob.sock \in FDs
      /\ \/ fdTable[mjob.sock] = mjob.owner
         \/ fdTable[mjob.sock] = NoThread /\ mjob \in astray
  <2>1. mjob \in Job
    BY <1>1 DEF IInv, HandSet
  <2> QED
    BY <1>1, <2>1, JobFields DEF JobsInv, AtDrain, HandPCs, Hers, Released
<1>3. Ended' = Ended
  <2>1. CASE fdTable[mjob.sock] = mjob.owner
    <3>1. ToldJobs' = ToldJobs \cup {mjob}
      BY <1>1, <1>2, <2>1, WriteOutcome, OneEnds DEF Outcomes
    <3> QED
      BY <1>1, <3>1 DEF Ended, AtMain
  <2>2. CASE fdTable[mjob.sock] = NoThread /\ mjob \in astray
    <3>1. ToldJobs' = ToldJobs
      BY <1>1, <2>2, StreamStays, NobodyEnds DEF Write
    <3> QED
      BY <1>1, <2>2, <3>1 DEF Ended, AtMain
  <2> QED
    BY <1>2, <2>1, <2>2
<1> QED
  BY <1>1, <1>3, SameService DEF PoolStays, workers, Executing

LEMMA OthersIdle ==
    ASSUME \/ \E c \in Clients, cmd \in Commands, fd \in FDs : Accept(c, cmd, fd)
           \/ MainStep /\ ~DrainPop /\ ~DrainTell
           \/ \E t \in Threads : SpuriousWakeup(t)
           \/ UNCHANGED vars
    PROVE  PoolStays
<1>1. UNCHANGED <<queue, workers, stream, peak, astray>> /\ AtMain' = AtMain
  BY DEF Accept, MainStep, EnterAccept, JoinWorkers, SpinOnControllers,
     QueueSize, DrainTop, DrainClose, DrainEmptyQueue, ReturnFromMain,
     SpuriousWakeup, shared, network, main, history, vars, AtMain
<1>2. ToldJobs' = ToldJobs
  BY <1>1, StreamStays, NobodyEnds
<1>3. Ended' = Ended
  BY <1>1, <1>2 DEF Ended
<1> QED
  BY <1>1, <1>3, SameService DEF PoolStays, workers, Executing

-----------------------------------------------------------------------------
(* The server implements the job pool: jobs start in the order in which they *)
(* got into the buffer, within the highest concurrency ever set, and each    *)
(* ends once: its output sent by a worker, removed by stop, popped by main's *)
(* drain or turned away before it got into the buffer, in every race with an *)
(* exit.  A late stop between the top and the pop of the drain still makes   *)
(* steps of the pool: two jobs end, one by the stop and one popped unseen.   *)
THEOREM Implements == Spec => ImplementsPool
<1>1. Init => Pool!PoolInit
  <2> SUFFICES ASSUME Init
               PROVE  Pool!PoolInit
    OBVIOUS
  <2>1. queue = <<>> /\ peak = 1 /\ Executing = {} /\ \A c \in Clients : Told[c] = {}
    BY DEF Init, Executing, Told
  <2>2. InService = {} /\ ToldJobs = {} /\ AtMain = {} /\ astray = {}
    BY <2>1, EndedAreTold DEF InService, Init, AtMain
  <2> QED
    BY <2>1, <2>2 DEF Pool!PoolInit, InService, ToldJobs
<1>2. IInv /\ IInv' /\ JobsInv /\ [Next]_vars => [Pool!PoolNext]_Pool!poolVars
  <2> SUFFICES ASSUME IInv, IInv', JobsInv, [Next]_vars
               PROVE  Pool!PoolNext \/ PoolStays
    BY DEF Pool!poolVars, PoolStays, InService, Ended, ToldJobs
  <2>1. ASSUME NEW w \in Workers, WorkerStep(w) \/ ChildExit(w)
        PROVE  Pool!PoolNext \/ PoolStays
    <3>1. MainAside
      <4>1. UNCHANGED <<main, history>>
        BY <2>1 DEF WorkerStep, WorkerTop, CheckSlot, SleepForSlot,
           LeaveSlotWait, ReserveSlot, TakeJob, FindEmpty, SleepForJob,
           LeaveTakeWait, SendOutput, CloseClient, ReleaseSlot, ChildExit
      <4> QED
        BY <4>1 DEF MainAside, main, history
    <3>2. CASE TakeJob(w)
      BY <3>1, <3>2, TakeStarts DEF Pool!PoolNext
    <3>3. CASE SendOutput(w)
      BY <3>1, <3>3, SendFinishes DEF Pool!PoolNext, InService
    <3> QED
      BY <2>1, <3>1, <3>2, <3>3, WorkerIdle
  <2>2. ASSUME NEW c \in Clients, ControllerStep(c)
        PROVE  Pool!PoolNext \/ PoolStays
    <3>1. MainAside
      BY <2>2, ControllerAside
    <3>2. CASE InsertJob(c)
      BY <3>1, <3>2, InsertSubmits DEF Pool!PoolNext
    <3>3. CASE Refuse(c)
      BY <3>1, <3>3, RefuseTurnsAway DEF Pool!PoolNext, Ended, ToldJobs
    <3>4. CASE StopQueued(c)
      BY <3>1, <3>4, StopCancels DEF Pool!PoolNext
    <3>5. CASE SetConcurrency(c)
      BY <3>1, <3>5, ConcurrencyAllows DEF Pool!PoolNext
    <3> QED
      BY <2>2, <3>1, <3>2, <3>3, <3>4, <3>5, ControllerIdle
  <2>3. CASE DrainPop
    BY <2>3, DrainCancels DEF Pool!PoolNext
  <2>4. CASE DrainTell
    BY <2>4, TellIdle
  <2> QED
    BY <2>1, <2>2, <2>3, <2>4, OthersIdle DEF Next
<1>3. IInv /\ [Next]_vars => IInv'
  BY InvNext
<1> QED
  BY <1>1, <1>2, <1>3, JobsInvariant, PTL DEF Spec, ImplementsPool, Pool!PoolSpec
=============================================================================
