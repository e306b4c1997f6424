--------------------------- MODULE MTServer_proofs ---------------------------
(* Proofs about the multithreaded server, for any number of workers, clients *)
(* and buffer places and any menu of commands.                               *)
EXTENDS MTServer, JobQueue_proofs

-----------------------------------------------------------------------------
(* The parts of the inductive invariant behind TypeOK, BufferRespected and  *)
(* ConcurrencyRespected                                                     *)

(* Locals of a thread are set when the thread is at a place that uses them. *)
LocalsSet ==
    /\ \A w \in Workers : wpc[w] \in {"run", "send", "close"} => wjob[w] \in Job
    /\ \A c \in Clients :
        /\ cpc[c] = "away" \/ (sock[c] \in FDs /\ command[c] \in Commands)
        /\ cpc[c] \in Ops => cpc[c] = command[c].op
        /\ cpc[c] \in {"insert", "full", "insertwait", "inserted", "refuse",
                       "stopped"} => cjob[c] \in Job

(* A worker that looked at the slots keeps the mutex until it has reserved  *)
(* one or sleeps, so the slot it saw is still free when it takes it,        *)
(* although the concurrency may have changed.                               *)
SlotsBounded ==
    /\ running <= peak /\ concurrency <= peak
    /\ \A w \in Workers :
        /\ wpc[w] \in {"slotfull", "reserve"} => mtxRunning = w
        /\ wpc[w] = "reserve" => running < peak

(* While main handles a job in its drain it has a copy of one, and the loop *)
(* is not over.                                                             *)
HandSet == mpc \in {"pop", "tell", "hangup"} => mjob \in Job /\ left > 0

IInv == /\ TypeOK /\ LocalsSet /\ HandSet
        /\ CountersExact /\ SlotsBounded /\ BufferRespected

-----------------------------------------------------------------------------
LEMMA HoldersMove ==
    ASSUME TypeOK, NEW w \in Workers, NEW to, GoW(w, to)
    PROVE  /\ Cardinality(Holders) \in Nat
           /\ Cardinality(Holders') = Cardinality(Holders)
                    + (IF to \in WithSlot THEN 1 ELSE 0)
                    - (IF wpc[w] \in WithSlot THEN 1 ELSE 0)
<1>1. /\ wpc'[w] = to /\ \A v \in Workers \ {w} : wpc'[v] = wpc[v]
  BY DEF TypeOK, GoW
<1>2. Holders' = Holders \cup {w} \/ Holders' = Holders \ {w}
  BY <1>1 DEF Holders
<1>3. IsFiniteSet(Holders)
  BY WorkersAssumption, FS_Subset DEF Holders
<1>4. (w \in Holders' <=> to \in WithSlot) /\ (w \in Holders <=> wpc[w] \in WithSlot)
  BY <1>1 DEF Holders
<1> HIDE DEF WithSlot
<1> QED
  BY <1>2, <1>3, <1>4, CountMoves

LEMMA CountedMove ==
    ASSUME TypeOK, NEW c \in Clients, NEW to, GoC(c, to)
    PROVE  /\ Cardinality(Counted) \in Nat
           /\ Cardinality(Counted') = Cardinality(Counted)
                    + (IF to \in WithoutCount THEN 0 ELSE 1)
                    - (IF cpc[c] \in WithoutCount THEN 0 ELSE 1)
<1>1. /\ cpc'[c] = to /\ \A d \in Clients \ {c} : cpc'[d] = cpc[d]
  BY DEF TypeOK, GoC
<1>2. Counted' = Counted \cup {c} \/ Counted' = Counted \ {c}
  BY <1>1 DEF Counted
<1>3. IsFiniteSet(Counted)
  BY ClientsAssumption, FS_Subset DEF Counted
<1>4. /\ c \in Counted' <=> to \notin WithoutCount
      /\ c \in Counted <=> cpc[c] \notin WithoutCount
  BY <1>1 DEF Counted
<1> QED
  BY <1>2, <1>3, <1>4, CountMoves

LEMMA IssuersMove ==
    ASSUME TypeOK, NEW c \in Clients, NEW to, GoC(c, to),
           command' = command
    PROVE  /\ Cardinality(Issuers) \in Nat
           /\ command[c].op # "issueJob" => Cardinality(Issuers') = Cardinality(Issuers)
           /\ command[c].op = "issueJob" =>
                Cardinality(Issuers') = Cardinality(Issuers)
                    + (IF to \in WithoutJobID THEN 0 ELSE 1)
                    - (IF cpc[c] \in WithoutJobID THEN 0 ELSE 1)
<1>1. /\ cpc'[c] = to /\ \A d \in Clients \ {c} : cpc'[d] = cpc[d]
  BY DEF TypeOK, GoC
<1>2. Issuers' = Issuers \cup {c} \/ Issuers' = Issuers \ {c}
  BY <1>1 DEF Issuers
<1>3. IsFiniteSet(Issuers)
  BY ClientsAssumption, FS_Subset DEF Issuers
<1>4. /\ c \in Issuers' <=> command[c].op = "issueJob" /\ to \notin WithoutJobID
      /\ c \in Issuers <=> command[c].op = "issueJob" /\ cpc[c] \notin WithoutJobID
  BY <1>1 DEF Issuers
<1>5. /\ Cardinality(Issuers) \in Nat
      /\ Cardinality(Issuers') = Cardinality(Issuers)
                    + (IF c \in Issuers' THEN 1 ELSE 0)
                    - (IF c \in Issuers THEN 1 ELSE 0)
  BY <1>2, <1>3, CountMoves
<1> QED
  BY <1>4, <1>5

LEMMA WorkerCounts ==
    ASSUME IInv, NEW w \in Workers, WorkerStep(w) \/ ChildExit(w)
    PROVE  CountersExact'
<1>1. UNCHANGED <<cpc, command, controllerCount, jobID>>
  BY DEF WorkerStep, WorkerTop, CheckSlot, SleepForSlot, LeaveSlotWait,
     ReserveSlot, TakeJob, FindEmpty, SleepForJob, LeaveTakeWait, SendOutput,
     CloseClient, ReleaseSlot, ChildExit, shared, controllers
<1>2. Counted' = Counted /\ Issuers' = Issuers
  BY <1>1 DEF Counted, Issuers
<1>3. TypeOK /\ CountersExact
  BY DEF IInv
<1>4. running' = Cardinality(Holders')
  <2>1. CASE WorkerTop(w)
    BY <2>1, <1>3, HoldersMove DEF WorkerTop, WithSlot, CountersExact, shared
  <2>2. CASE CheckSlot(w)
    BY <2>2, <1>3, HoldersMove DEF CheckSlot, WithSlot, CountersExact, shared
  <2>3. CASE SleepForSlot(w)
    BY <2>3, <1>3, HoldersMove DEF SleepForSlot, WithSlot, CountersExact,
       shared
  <2>4. CASE LeaveSlotWait(w)
    BY <2>4, <1>3, HoldersMove DEF LeaveSlotWait, WithSlot, CountersExact,
       shared
  <2>5. CASE ReserveSlot(w)
    BY <2>5, <1>3, HoldersMove DEF ReserveSlot, WithSlot, CountersExact, shared
  <2>6. CASE TakeJob(w)
    BY <2>6, <1>3, HoldersMove DEF TakeJob, WithSlot, CountersExact, shared,
       AtBuffer
  <2>7. CASE FindEmpty(w)
    BY <2>7, <1>3, HoldersMove DEF FindEmpty, WithSlot, CountersExact, shared,
       AtBuffer
  <2>8. CASE SleepForJob(w)
    BY <2>8, <1>3, HoldersMove DEF SleepForJob, WithSlot, CountersExact, shared
  <2>9. CASE LeaveTakeWait(w)
    BY <2>9, <1>3, HoldersMove DEF LeaveTakeWait, WithSlot, CountersExact,
       shared
  <2>10. CASE SendOutput(w)
    BY <2>10, <1>3, HoldersMove DEF SendOutput, WithSlot, CountersExact, shared
  <2>11. CASE CloseClient(w)
    BY <2>11, <1>3, HoldersMove DEF CloseClient, WithSlot, CountersExact,
       shared
  <2>12. CASE ReleaseSlot(w)
    BY <2>12, <1>3, HoldersMove DEF ReleaseSlot, WithSlot, CountersExact,
       shared
  <2>13. CASE ChildExit(w)
    BY <2>13, <1>3, HoldersMove DEF ChildExit, WithSlot, CountersExact, shared
  <2> QED
    BY <2>1, <2>2, <2>3, <2>4, <2>5, <2>6, <2>7, <2>8, <2>9, <2>10, <2>11,
       <2>12, <2>13 DEF WorkerStep
<1> QED
  BY <1>1, <1>2, <1>3, <1>4 DEF CountersExact

LEMMA ControllerCounts ==
    ASSUME IInv, NEW c \in Clients, ControllerStep(c)
    PROVE  CountersExact'
<1>1. UNCHANGED <<wpc, running>> /\ UNCHANGED command
  BY DEF ControllerStep, Answer, CountController, Malformed, NewJob,
     InsertJob, FindFull, SleepForRoom, GiveUpInsert, Refuse, ReportSubmitted,
     SetConcurrency, StopQueued, StopClose, StopNotFound, Reply, Poll,
     SetExit, WakeRunning, WakeNonempty, WakeNonfull, ExitReply, KillMain,
     Detach, shared, workers, controllers
<1>2. Holders' = Holders
  BY <1>1 DEF Holders
<1>3. TypeOK /\ CountersExact
  BY DEF IInv
<1>4. /\ controllerCount' = Cardinality(Counted')
      /\ jobID' = Cardinality(Issuers')
  <2>1. CASE CountController(c)
    <3>1. /\ command[c].op = "issueJob" <=> command[c].op \notin
                {"setConcurrency", "stop", "poll", "exit", "malformed"}
          /\ command[c].op \in Ops
      BY <2>1, CommandsAssumption DEF IInv, LocalsSet, CountController, Ops
    <3>2. command[c].op \notin WithoutCount
      BY <3>1 DEF Ops, WithoutCount
    <3> QED
      BY <2>1, <1>1, <1>3, <3>1, <3>2, CountedMove, IssuersMove
         DEF CountController, WithoutCount, WithoutJobID, CountersExact
  <2>2. CASE Malformed(c)
    BY <2>2, <1>3 DEF Malformed, shared, controllers, CountersExact, Counted,
       Issuers
  <2>3. CASE NewJob(c)
    <3>1. command[c].op = "issueJob"
      BY <2>3 DEF NewJob, IInv, LocalsSet, Ops
    <3> QED
      BY <2>3, <1>1, <1>3, <3>1, CountedMove, IssuersMove
         DEF NewJob, WithoutCount, WithoutJobID, CountersExact
  <2>4. CASE InsertJob(c)
    BY <2>4, <1>1, <1>3, CountedMove, IssuersMove DEF InsertJob, WithoutCount,
       WithoutJobID, CountersExact, shared, AtFullBuffer
  <2>5. CASE FindFull(c)
    BY <2>5, <1>1, <1>3, CountedMove, IssuersMove DEF FindFull, WithoutCount,
       WithoutJobID, CountersExact, shared, AtFullBuffer
  <2>6. CASE SleepForRoom(c)
    BY <2>6, <1>1, <1>3, CountedMove, IssuersMove DEF SleepForRoom,
       WithoutCount, WithoutJobID, CountersExact, shared
  <2>7. CASE GiveUpInsert(c)
    BY <2>7, <1>1, <1>3, CountedMove, IssuersMove DEF GiveUpInsert,
       WithoutCount, WithoutJobID, CountersExact, shared, AtFullBuffer
  <2>8. CASE Refuse(c)
    <3>1. /\ cpc[c] = "refuse" /\ GoC(c, "detach")
          /\ UNCHANGED <<controllerCount, jobID>>
      BY <2>8 DEF Refuse, Answer, shared
    <3> QED
      BY <1>1, <1>3, <3>1, CountedMove, IssuersMove
         DEF WithoutCount, WithoutJobID, CountersExact
  <2>9. CASE ReportSubmitted(c)
    BY <2>9, <1>1, <1>3, CountedMove, IssuersMove DEF ReportSubmitted,
       WithoutCount, WithoutJobID, CountersExact, shared
  <2>10. CASE SetConcurrency(c)
    BY <2>10, <1>1, <1>3, CountedMove, IssuersMove DEF SetConcurrency,
       WithoutCount, WithoutJobID, CountersExact, shared
  <2>11. CASE StopQueued(c)
    BY <2>11, <1>1, <1>3, CountedMove, IssuersMove DEF StopQueued,
       WithoutCount, WithoutJobID, CountersExact, shared
  <2>12. CASE StopClose(c)
    BY <2>12, <1>1, <1>3, CountedMove, IssuersMove DEF StopClose,
       WithoutCount, WithoutJobID, CountersExact, shared
  <2>13. CASE StopNotFound(c)
    BY <2>13, <1>1, <1>3, CountedMove, IssuersMove DEF StopNotFound,
       WithoutCount, WithoutJobID, CountersExact, shared
  <2>14. CASE Reply(c)
    <3>1. /\ cpc[c] = "reply" /\ GoC(c, "detach")
          /\ UNCHANGED <<controllerCount, jobID>>
      BY <2>14 DEF Reply, Answer, shared
    <3> QED
      BY <1>1, <1>3, <3>1, CountedMove, IssuersMove
         DEF WithoutCount, WithoutJobID, CountersExact
  <2>15. CASE Poll(c)
    <3>1. /\ cpc[c] = "poll" /\ GoC(c, "detach")
          /\ UNCHANGED <<controllerCount, jobID>>
      BY <2>15 DEF Poll, Answer, shared
    <3> QED
      BY <1>1, <1>3, <3>1, CountedMove, IssuersMove
         DEF WithoutCount, WithoutJobID, CountersExact
  <2>16. CASE SetExit(c)
    BY <2>16, <1>1, <1>3, CountedMove, IssuersMove DEF SetExit, WithoutCount,
       WithoutJobID, CountersExact, shared
  <2>17. CASE WakeRunning(c)
    BY <2>17, <1>1, <1>3, CountedMove, IssuersMove DEF WakeRunning,
       WithoutCount, WithoutJobID, CountersExact, shared
  <2>18. CASE WakeNonempty(c)
    BY <2>18, <1>1, <1>3, CountedMove, IssuersMove DEF WakeNonempty,
       WithoutCount, WithoutJobID, CountersExact, shared
  <2>19. CASE WakeNonfull(c)
    BY <2>19, <1>1, <1>3, CountedMove, IssuersMove DEF WakeNonfull,
       WithoutCount, WithoutJobID, CountersExact, shared
  <2>20. CASE ExitReply(c)
    <3>1. /\ cpc[c] = "exitreply" /\ GoC(c, "kill")
          /\ UNCHANGED <<controllerCount, jobID>>
      BY <2>20 DEF ExitReply, Answer, shared
    <3> QED
      BY <1>1, <1>3, <3>1, CountedMove, IssuersMove
         DEF WithoutCount, WithoutJobID, CountersExact
  <2>21. CASE KillMain(c)
    BY <2>21, <1>1, <1>3, CountedMove, IssuersMove DEF KillMain, WithoutCount,
       WithoutJobID, CountersExact, shared
  <2>22. CASE Detach(c)
    BY <2>22, <1>1, <1>3, CountedMove, IssuersMove DEF Detach, WithoutCount,
       WithoutJobID, CountersExact, shared
  <2> QED
    BY <2>1, <2>2, <2>3, <2>4, <2>5, <2>6, <2>7, <2>8, <2>9, <2>10,
       <2>11, <2>12, <2>13, <2>14, <2>15, <2>16, <2>17, <2>18, <2>19, <2>20,
       <2>21, <2>22 DEF ControllerStep
<1> QED
  BY <1>1, <1>2, <1>3, <1>4 DEF CountersExact

LEMMA OtherCounts ==
    ASSUME IInv,
           \/ MainStep
           \/ \E c \in Clients, cmd \in Commands, fd \in FDs : Accept(c, cmd, fd)
           \/ \E t \in Threads : SpuriousWakeup(t)
           \/ UNCHANGED vars
    PROVE  CountersExact'
<1>1. UNCHANGED <<wpc, running, controllerCount, jobID>>
  BY DEF MainStep, EnterAccept, JoinWorkers, SpinOnControllers, QueueSize,
     DrainTop, DrainPop, DrainTell, DrainClose, DrainEmptyQueue,
     ReturnFromMain, Accept, SpuriousWakeup, shared, workers, vars
<1>2. TypeOK /\ CountersExact /\ Holders' = Holders
  BY <1>1 DEF IInv, Holders
<1>3. Counted' = Counted /\ Issuers' = Issuers
  <2>1. CASE UNCHANGED <<cpc, command>>
    BY <2>1 DEF Counted, Issuers
  <2>2. ASSUME NEW c \in Clients, NEW cmd, NEW fd, Accept(c, cmd, fd)
        PROVE  Counted' = Counted /\ Issuers' = Issuers
    <3>1. /\ cpc[c] = "away" /\ cpc' = [cpc EXCEPT ![c] = "new"]
          /\ command' = [command EXCEPT ![c] = cmd]
      BY <2>2 DEF Accept, GoC
    <3> QED
      BY <1>2, <3>1 DEF TypeOK, Counted, Issuers, WithoutCount, WithoutJobID
  <2> QED
    BY <2>1, <2>2 DEF MainStep, EnterAccept, JoinWorkers, SpinOnControllers,
       QueueSize, DrainTop, DrainPop, DrainTell, DrainClose, DrainEmptyQueue,
       ReturnFromMain, SpuriousWakeup, controllers, vars
<1> QED
  BY <1>1, <1>2, <1>3 DEF CountersExact

LEMMA CountersNext == IInv /\ [Next]_vars => CountersExact'
  BY WorkerCounts, ControllerCounts, OtherCounts DEF Next

-----------------------------------------------------------------------------
(* The buffer *)

LEMMA BufferNext ==
    ASSUME IInv, [Next]_vars
    PROVE  queue' \in Seq(Job) /\ BufferRespected'
<1>1. /\ queue \in Seq(Job) /\ Len(queue) \in Nat /\ Len(queue) <= BufferSize
      /\ BufferSize \in Nat
  BY BufferAssumption, LenProperties DEF IInv, TypeOK, BufferRespected
<1>2. ASSUME ~Empty
      PROVE  /\ Top(queue) \in Job /\ Pop(queue) \in Seq(Job)
             /\ Len(Pop(queue)) <= BufferSize
  BY <1>1, <1>2, HeadTailProperties DEF Empty, Top, Pop
<1>3. CASE UNCHANGED queue
  BY <1>1, <1>3 DEF BufferRespected
<1>4. ASSUME NEW w \in Workers, TakeJob(w)
      PROVE  queue' \in Seq(Job) /\ BufferRespected'
  BY <1>2, <1>4 DEF TakeJob, BufferRespected
<1>5. CASE DrainPop
  BY <1>2, <1>5 DEF DrainPop, BufferRespected
<1>6. ASSUME NEW c \in Clients, InsertJob(c)
      PROVE  queue' \in Seq(Job) /\ BufferRespected'
  <2>1. cjob[c] \in Job
    BY <1>6 DEF InsertJob, AtFullBuffer, IInv, LocalsSet
  <2> QED
    BY <1>1, <1>6, <2>1, AppendProperties DEF InsertJob, Full, Push,
       BufferRespected
<1>7. ASSUME NEW c \in Clients, StopQueued(c)
      PROVE  queue' \in Seq(Job) /\ BufferRespected'
  <2> DEFINE pos == QueuePosition(queue, command[c].arg)
  <2>1. pos \in 1 .. Len(queue) /\ queue' = Erase(queue, pos)
    BY <1>1, <1>7, PositionInQueue DEF StopQueued
  <2> HIDE DEF pos
  <2>2. Erase(queue, pos) \in Seq(Job) /\ Len(Erase(queue, pos)) = Len(queue) - 1
    BY <1>1, <2>1, EraseShortens
  <2> QED
    BY <1>1, <2>1, <2>2 DEF BufferRespected
<1> QED
  BY <1>3, <1>4, <1>5, <1>6, <1>7 DEF Next, WorkerStep, ControllerStep,
     MainStep, Answer, shared, vars, WorkerTop, CheckSlot, SleepForSlot,
     LeaveSlotWait, ReserveSlot, FindEmpty, SleepForJob, LeaveTakeWait,
     SendOutput, CloseClient, ReleaseSlot, ChildExit, CountController,
     Malformed, NewJob, FindFull, SleepForRoom, GiveUpInsert, Refuse,
     ReportSubmitted, SetConcurrency, StopClose, StopNotFound, Reply, Poll,
     SetExit, WakeRunning, WakeNonempty, WakeNonfull, ExitReply, KillMain,
     Detach, EnterAccept, JoinWorkers, SpinOnControllers, QueueSize, DrainTop,
     DrainTell, DrainClose, DrainEmptyQueue, ReturnFromMain, Accept,
     SpuriousWakeup

-----------------------------------------------------------------------------
(* Slots *)

LEMMA SlotsNext ==
    ASSUME IInv, [Next]_vars
    PROVE  SlotsBounded'
<1> USE DEF SlotsBounded
<1>1. /\ running \in Int /\ peak \in Nat /\ concurrency \in Nat
      /\ wpc \in [Workers -> WorkerPCs] /\ SlotsBounded
      /\ NoThread \notin Workers
  BY ThreadsAssumption, FS_CardinalityType, WorkersAssumption DEF IInv, TypeOK
<1>2. CASE UNCHANGED <<running, concurrency, peak, wpc, mtxRunning>>
  BY <1>1, <1>2
<1>3. ASSUME NEW w \in Workers, WorkerStep(w) \/ ChildExit(w)
      PROVE  SlotsBounded'
  <2>1. peak' = peak /\ concurrency' = concurrency
    BY <1>3 DEF WorkerStep, shared, history, WorkerTop, CheckSlot,
       SleepForSlot, LeaveSlotWait, ReserveSlot, TakeJob, FindEmpty,
       SleepForJob, LeaveTakeWait, SendOutput, CloseClient, ReleaseSlot,
       ChildExit
  <2>2. CASE WorkerTop(w)
    BY <1>1, <2>1, <2>2 DEF WorkerTop, GoW, shared, locks
  <2>3. CASE CheckSlot(w)
    BY <1>1, <2>1, <2>3 DEF CheckSlot, GoW, shared, locks, SlotsFull
  <2>4. CASE SleepForSlot(w)
    BY <1>1, <2>1, <2>4 DEF SleepForSlot, GoW, shared, locks
  <2>5. CASE LeaveSlotWait(w)
    BY <1>1, <2>1, <2>5 DEF LeaveSlotWait, GoW, shared, locks
  <2>6. CASE ReserveSlot(w)
    BY <1>1, <2>1, <2>6 DEF ReserveSlot, GoW, shared, locks
  <2>7. CASE TakeJob(w)
    BY <1>1, <2>1, <2>7 DEF TakeJob, GoW, shared, locks
  <2>8. CASE FindEmpty(w)
    BY <1>1, <2>1, <2>8 DEF FindEmpty, GoW, shared, locks
  <2>9. CASE SleepForJob(w)
    BY <1>1, <2>1, <2>9 DEF SleepForJob, GoW, shared, locks
  <2>10. CASE LeaveTakeWait(w)
    BY <1>1, <2>1, <2>10 DEF LeaveTakeWait, GoW, shared, locks
  <2>11. CASE SendOutput(w)
    BY <1>1, <2>1, <2>11 DEF SendOutput, GoW, shared, locks
  <2>12. CASE CloseClient(w)
    BY <1>1, <2>1, <2>12 DEF CloseClient, GoW, shared, locks
  <2>13. CASE ReleaseSlot(w)
    BY <1>1, <2>1, <2>13 DEF ReleaseSlot, GoW, shared, locks
  <2>14. CASE ChildExit(w)
    BY <1>1, <2>1, <2>14 DEF ChildExit, GoW, shared, locks
  <2> QED
    BY <1>3, <2>2, <2>3, <2>4, <2>5, <2>6, <2>7, <2>8, <2>9, <2>10,
       <2>11, <2>12, <2>13, <2>14 DEF WorkerStep
<1>4. ASSUME NEW c \in Clients, SetConcurrency(c)
      PROVE  SlotsBounded'
  <2>1. command[c].arg \in Nat
    BY <1>4, CommandsAssumption DEF SetConcurrency, IInv, LocalsSet
  <2> QED
    BY <1>1, <1>4, <2>1 DEF SetConcurrency, workers, locks
<1> QED
  BY <1>2, <1>3, <1>4 DEF Next, ControllerStep, MainStep, Answer, shared,
     history, locks, workers, vars, CountController, Malformed, NewJob,
     InsertJob, FindFull, SleepForRoom, GiveUpInsert, Refuse, ReportSubmitted,
     StopQueued, StopClose, StopNotFound, Reply, Poll, SetExit, WakeRunning,
     WakeNonempty, WakeNonfull, ExitReply, KillMain, Detach, EnterAccept,
     JoinWorkers, SpinOnControllers, QueueSize, DrainTop, DrainPop, DrainTell,
     DrainClose, DrainEmptyQueue, ReturnFromMain, Accept, SpuriousWakeup

-----------------------------------------------------------------------------
(* Locals *)

LEMMA LocalsNext ==
    ASSUME IInv, [Next]_vars
    PROVE  LocalsSet'
<1> USE DEF LocalsSet
<1>1. /\ TypeOK /\ LocalsSet
      /\ wpc \in [Workers -> WorkerPCs] /\ wjob \in [Workers -> Job \cup {NoJob}]
      /\ cpc \in [Clients -> ControllerPCs] /\ cjob \in [Clients -> Job \cup {NoJob}]
      /\ queue \in Seq(Job)
  BY DEF IInv, TypeOK
<1>2. CASE UNCHANGED <<workers, controllers>>
  BY <1>1, <1>2 DEF workers, controllers
<1>3. ASSUME NEW w \in Workers, WorkerStep(w) \/ ChildExit(w)
      PROVE  LocalsSet'
  <2>1. UNCHANGED controllers
    BY <1>3 DEF WorkerStep, WorkerTop, CheckSlot, SleepForSlot, LeaveSlotWait,
       ReserveSlot, TakeJob, FindEmpty, SleepForJob, LeaveTakeWait,
       SendOutput, CloseClient, ReleaseSlot, ChildExit
  <2>2. CASE TakeJob(w)
    <3>1. Top(queue) \in Job
      BY <1>1, <2>2, HeadTailProperties DEF TakeJob, Empty, Top
    <3> QED
      BY <1>1, <2>1, <2>2, <3>1 DEF TakeJob, GoW, controllers
  <2>3. CASE CloseClient(w)
    BY <1>1, <2>1, <2>3 DEF CloseClient, GoW, controllers
  <2>4. CASE wjob' = wjob /\ wpc' = [wpc EXCEPT ![w] = wpc'[w]]
                /\ (wpc'[w] \in {"run", "send", "close"} => wjob[w] \in Job)
    BY <1>1, <2>1, <2>4 DEF controllers
  <2> QED
    BY <1>1, <1>3, <2>2, <2>3, <2>4 DEF WorkerStep, GoW, WorkerTop, CheckSlot,
       SleepForSlot, LeaveSlotWait, ReserveSlot, FindEmpty, SleepForJob,
       LeaveTakeWait, SendOutput, ReleaseSlot, ChildExit
<1>4. ASSUME NEW c \in Clients, ControllerStep(c)
      PROVE  LocalsSet'
  <2>1. UNCHANGED <<workers, command, sock>>
    BY <1>4 DEF ControllerStep, Answer, controllers, CountController,
       Malformed, NewJob, InsertJob, FindFull, SleepForRoom, GiveUpInsert,
       Refuse, ReportSubmitted, SetConcurrency, StopQueued, StopClose,
       StopNotFound, Reply, Poll, SetExit, WakeRunning, WakeNonempty,
       WakeNonfull, ExitReply, KillMain, Detach
  <2>2. CASE NewJob(c)
    <3>1. jobID' \in JobIds
      <4>1. jobID' = Cardinality(Issuers') /\ Issuers' \subseteq Clients
        BY CountersNext DEF CountersExact, Issuers
      <4>2. Cardinality(Issuers') <= Cardinality(Clients) /\ Cardinality(Clients) \in Nat
        BY <4>1, ClientsAssumption, FS_Subset, FS_CardinalityType
      <4>3. jobID' \in Nat \ {0}
        BY <1>1, <2>2, FS_CardinalityType, ClientsAssumption DEF TypeOK,
           NewJob, JobIds
      <4> QED
        BY <4>1, <4>2, <4>3 DEF JobIds
    <3>2. sock[c] \in FDs
      BY <2>2 DEF NewJob, IInv
    <3>3. [id |-> jobID', sock |-> sock[c], owner |-> c] \in Job
      BY <3>1, <3>2 DEF Job
    <3> QED
      BY <1>1, <2>1, <2>2, <3>3 DEF NewJob, GoC, workers, Ops
  <2>3. CASE StopQueued(c)
    <3> DEFINE pos == QueuePosition(queue, command[c].arg)
    <3>1. pos \in 1 .. Len(queue)
      BY <1>1, <2>3, PositionInQueue DEF StopQueued
    <3>2. queue[pos] \in Job
      BY <1>1, <3>1, ElementOfSeq
    <3> QED
      BY <1>1, <2>1, <2>3, <3>2 DEF StopQueued, GoC, workers, Ops
  <2>4. CASE StopClose(c)
    BY <1>1, <2>1, <2>4 DEF StopClose, GoC, workers, Ops
  <2>5. CASE Malformed(c)
    BY <1>1, <2>5 DEF Malformed, workers, controllers
  <2>6. ASSUME cjob' = cjob, NEW to, GoC(c, to), cpc[c] # "away",
               to \in Ops => to = command[c].op,
               to \in {"insert", "full", "insertwait", "inserted", "refuse",
                       "stopped"} => cjob[c] \in Job
        PROVE  LocalsSet'
    BY <1>1, <2>1, <2>6 DEF GoC, workers
  <2>7. CASE CountController(c)
    <3>1. command[c].op \in Ops
      BY <1>1, <2>7, CommandsAssumption DEF CountController
    <3> QED
      BY <1>1, <2>6, <2>7, <3>1 DEF CountController, Ops
  <2>8. CASE InsertJob(c)
    BY <1>1, <2>6, <2>8 DEF InsertJob, AtFullBuffer, Ops
  <2>9. CASE FindFull(c)
    BY <1>1, <2>6, <2>9 DEF FindFull, AtFullBuffer, Ops
  <2>10. CASE SleepForRoom(c)
    BY <1>1, <2>6, <2>10 DEF SleepForRoom, Ops
  <2>11. CASE GiveUpInsert(c)
    BY <1>1, <2>6, <2>11 DEF GiveUpInsert, AtFullBuffer, Ops
  <2>12. CASE Refuse(c)
    BY <1>1, <2>6, <2>12 DEF Refuse, Answer, Ops
  <2>13. CASE ReportSubmitted(c)
    BY <1>1, <2>6, <2>13 DEF ReportSubmitted, Ops
  <2>14. CASE SetConcurrency(c)
    BY <1>1, <2>6, <2>14 DEF SetConcurrency, Ops
  <2>15. CASE StopNotFound(c)
    BY <1>1, <2>6, <2>15 DEF StopNotFound, Ops
  <2>16. CASE Reply(c)
    BY <1>1, <2>6, <2>16 DEF Reply, Answer, Ops
  <2>17. CASE Poll(c)
    BY <1>1, <2>6, <2>17 DEF Poll, Answer, Ops
  <2>18. CASE SetExit(c)
    BY <1>1, <2>6, <2>18 DEF SetExit, Ops
  <2>19. CASE WakeRunning(c)
    BY <1>1, <2>6, <2>19 DEF WakeRunning, Ops
  <2>20. CASE WakeNonempty(c)
    BY <1>1, <2>6, <2>20 DEF WakeNonempty, Ops
  <2>21. CASE WakeNonfull(c)
    BY <1>1, <2>6, <2>21 DEF WakeNonfull, Ops
  <2>22. CASE ExitReply(c)
    BY <1>1, <2>6, <2>22 DEF ExitReply, Answer, Ops
  <2>23. CASE KillMain(c)
    BY <1>1, <2>6, <2>23 DEF KillMain, Ops
  <2>24. CASE Detach(c)
    BY <1>1, <2>6, <2>24 DEF Detach, Ops
  <2> QED
    BY <1>4, <2>2, <2>3, <2>4, <2>5, <2>7, <2>8, <2>9, <2>10, <2>11,
       <2>12, <2>13, <2>14, <2>15, <2>16, <2>17, <2>18, <2>19, <2>20, <2>21,
       <2>22, <2>23, <2>24 DEF ControllerStep
<1>5. ASSUME NEW c \in Clients, NEW cmd \in Commands, NEW fd \in FDs,
             Accept(c, cmd, fd)
      PROVE  LocalsSet'
  BY <1>1, <1>5 DEF Accept, GoC, workers, TypeOK, Ops
<1> QED
  BY <1>2, <1>3, <1>4, <1>5 DEF Next, MainStep, SpuriousWakeup, vars,
     EnterAccept, JoinWorkers, SpinOnControllers, QueueSize, DrainTop,
     DrainPop, DrainTell, DrainClose, DrainEmptyQueue, ReturnFromMain

-----------------------------------------------------------------------------
(* Types *)

LEMMA CounterTypes ==
    ASSUME CountersExact'
    PROVE  /\ running' \in 0 .. Cardinality(Workers)
           /\ controllerCount' \in 0 .. Cardinality(Clients)
           /\ jobID' \in JobIds \cup {0}
<1>1. Holders' \subseteq Workers /\ Counted' \subseteq Clients /\ Issuers' \subseteq Clients
  BY DEF Holders, Counted, Issuers
<1>2. /\ IsFiniteSet(Holders') /\ IsFiniteSet(Counted') /\ IsFiniteSet(Issuers')
      /\ Cardinality(Holders') <= Cardinality(Workers)
      /\ Cardinality(Counted') <= Cardinality(Clients)
      /\ Cardinality(Issuers') <= Cardinality(Clients)
  BY <1>1, WorkersAssumption, ClientsAssumption, FS_Subset
<1>3. /\ Cardinality(Workers) \in Nat /\ Cardinality(Clients) \in Nat
      /\ Cardinality(Holders') \in Nat /\ Cardinality(Counted') \in Nat
      /\ Cardinality(Issuers') \in Nat
  BY <1>2, WorkersAssumption, ClientsAssumption, FS_CardinalityType
<1> QED
  BY <1>2, <1>3 DEF CountersExact, JobIds

(* A message written to any descriptor keeps the streams sequences of       *)
(* messages.                                                                *)
LEMMA WriteType ==
    ASSUME TypeOK, NEW fd, NEW kind \in Outcomes \cup {"SUBMITTED", "REPLY"},
           NEW job \in Job \cup {NoJob}, Write(fd, kind, job)
    PROVE  /\ stream' \in [Clients -> Seq(Message)]
           /\ server' \in {"up", "failed", "ended"}
<1>1. stream \in [Clients -> Seq(Message)] /\ server \in {"up", "failed", "ended"}
  BY DEF TypeOK
<1> DEFINE m == [kind |-> kind, job |-> job]
<1>2. m \in Message
  BY DEF Message
<1> HIDE DEF m
<1>3. \A c \in Clients : Append(stream[c], m) \in Seq(Message)
  BY <1>1, <1>2, AppendProperties
<1>4. \A d : [stream EXCEPT ![d] = Append(@, m)] \in [Clients -> Seq(Message)]
  BY <1>1, <1>3
<1>5. stream' = stream \/ \E d : stream' = [stream EXCEPT ![d] = Append(@, m)]
  BY DEF Write, m
<1> QED
  BY <1>1, <1>4, <1>5 DEF Write

LEMMA CloseType ==
    ASSUME TypeOK, NEW fd, CloseFD(fd)
    PROVE  fdTable' \in [FDs -> Clients \cup {NoThread}]
  BY DEF TypeOK, CloseFD

LEMMA SignalType ==
    ASSUME NEW S, NEW waiters \in SUBSET S, NEW rest \in Signal(waiters)
    PROVE  rest \in SUBSET S
  BY DEF Signal

LEMMA WorkerTypes ==
    ASSUME TypeOK, LocalsSet, NEW w \in Workers, WorkerStep(w) \/ ChildExit(w),
           CountersExact', queue' \in Seq(Job)
    PROVE  TypeOK'
<1>1. /\ running' \in 0 .. Cardinality(Workers)
      /\ controllerCount' \in 0 .. Cardinality(Clients)
      /\ jobID' \in JobIds \cup {0}
  BY CounterTypes
<1>2. UNCHANGED <<concurrency, history, exitServer, controllers, main>>
  BY DEF WorkerStep, WorkerTop, CheckSlot, SleepForSlot, LeaveSlotWait,
     ReserveSlot, TakeJob, FindEmpty, SleepForJob, LeaveTakeWait, SendOutput,
     CloseClient, ReleaseSlot, ChildExit, shared
<1>3. wpc' \in [Workers -> WorkerPCs] /\ wjob' \in [Workers -> Job \cup {NoJob}]
  <2>1. ~Empty => Top(queue) \in Job
    BY HeadTailProperties DEF TypeOK, Empty, Top
  <2> QED
    BY <2>1 DEF TypeOK, WorkerPCs, WorkerStep, GoW, WorkerTop, CheckSlot,
       SleepForSlot, LeaveSlotWait, ReserveSlot, TakeJob, FindEmpty,
       SleepForJob, LeaveTakeWait, SendOutput, CloseClient, ReleaseSlot,
       ChildExit
<1>4. mtxQueue' \in Threads \cup {NoThread} /\ mtxRunning' \in Workers \cup {NoThread}
  BY DEF TypeOK, Threads, locks, WorkerStep, WorkerTop, CheckSlot,
     SleepForSlot, LeaveSlotWait, ReserveSlot, TakeJob, FindEmpty,
     SleepForJob, LeaveTakeWait, SendOutput, CloseClient, ReleaseSlot,
     ChildExit
<1>5. nonempty' \subseteq Workers /\ nonfull' \subseteq Clients /\ nonfullRunning' \subseteq Workers
  BY SignalType DEF TypeOK, waits, WorkerStep, WorkerTop, CheckSlot,
     SleepForSlot, LeaveSlotWait, ReserveSlot, TakeJob, FindEmpty,
     SleepForJob, LeaveTakeWait, SendOutput, CloseClient, ReleaseSlot,
     ChildExit
<1>6. /\ stream' \in [Clients -> Seq(Message)] /\ server' \in {"up", "failed", "ended"}
      /\ fdTable' \in [FDs -> Clients \cup {NoThread}]
  <2>1. CASE SendOutput(w)
    <3>1. wjob[w] \in Job
      BY <2>1 DEF SendOutput, LocalsSet
    <3> QED
      BY <2>1, <3>1, WriteType DEF SendOutput, Outcomes, TypeOK
  <2>2. CASE CloseClient(w)
    BY <2>2, CloseType DEF CloseClient, TypeOK
  <2>3. CASE UNCHANGED <<network, server>>
    BY <2>3 DEF network, TypeOK
  <2> QED
    BY <2>1, <2>2, <2>3 DEF WorkerStep, WorkerTop, CheckSlot, SleepForSlot,
       LeaveSlotWait, ReserveSlot, TakeJob, FindEmpty, SleepForJob,
       LeaveTakeWait, ReleaseSlot, ChildExit
<1> QED
  BY <1>1, <1>2, <1>3, <1>4, <1>5, <1>6 DEF TypeOK, controllers, main, history

LEMMA ControllerTypes ==
    ASSUME TypeOK, LocalsSet, NEW c \in Clients, ControllerStep(c),
           CountersExact', LocalsSet', queue' \in Seq(Job)
    PROVE  TypeOK'
<1>1. /\ running' \in 0 .. Cardinality(Workers)
      /\ controllerCount' \in 0 .. Cardinality(Clients)
      /\ jobID' \in JobIds \cup {0}
  BY CounterTypes
<1>2. UNCHANGED <<workers, command, sock, left, mjob>> /\ mtxRunning' = mtxRunning
  <2>1. CASE CountController(c) \/ Malformed(c) \/ NewJob(c)
    BY <2>1, Zenon DEF CountController, Malformed, NewJob, locks, controllers,
       main
  <2>5. CASE InsertJob(c) \/ FindFull(c) \/ SleepForRoom(c) \/ GiveUpInsert(c)
    BY <2>5, Zenon DEF InsertJob, FindFull, SleepForRoom, GiveUpInsert, locks,
       main
  <2>2. CASE Refuse(c) \/ Reply(c) \/ Poll(c) \/ ExitReply(c)
    BY <2>2, Zenon DEF Refuse, Reply, Poll, ExitReply, Answer, locks, main
  <2>3. CASE ReportSubmitted(c) \/ StopQueued(c)
    BY <2>3, Zenon DEF ReportSubmitted, StopQueued, locks, main
  <2>4. CASE SetConcurrency(c) \/ StopClose(c) \/ StopNotFound(c) \/ SetExit(c)
             \/ WakeRunning(c) \/ WakeNonempty(c) \/ WakeNonfull(c)
             \/ KillMain(c) \/ Detach(c)
    BY <2>4 DEF SetConcurrency, StopClose, StopNotFound, SetExit, WakeRunning,
       WakeNonempty, WakeNonfull, KillMain, Detach, locks, main
  <2> QED
    BY <2>1, <2>2, <2>3, <2>4, <2>5 DEF ControllerStep
<1>3. (command[c].op \in Ops /\ command[c] \in Commands) \/ cpc[c] = "away"
  BY CommandsAssumption DEF LocalsSet
<1>4. cpc' \in [Clients -> ControllerPCs]
  BY <1>3 DEF TypeOK, ControllerPCs, GoC, Ops, ControllerStep, Answer,
     CountController, Malformed, NewJob, InsertJob, FindFull, SleepForRoom,
     GiveUpInsert, Refuse, ReportSubmitted, SetConcurrency, StopQueued,
     StopClose, StopNotFound, Reply, Poll, SetExit, WakeRunning, WakeNonempty,
     WakeNonfull, ExitReply, KillMain, Detach, controllers
<1>5. cjob' \in [Clients -> Job \cup {NoJob}]
  <2>1. CASE NewJob(c)
    <3>1. cjob' = [cjob EXCEPT ![c] = cjob'[c]] /\ cpc'[c] = "insert"
      BY <2>1 DEF NewJob, GoC, TypeOK
    <3> QED
      BY <3>1 DEF TypeOK, LocalsSet
  <2>2. CASE StopQueued(c)
    <3>1. cjob' = [cjob EXCEPT ![c] = cjob'[c]] /\ cpc'[c] = "stopped"
      BY <2>2 DEF StopQueued, GoC, TypeOK
    <3> QED
      BY <3>1 DEF TypeOK, LocalsSet
  <2>3. CASE StopClose(c)
    BY <2>3 DEF StopClose, TypeOK
  <2>4. CASE cjob' = cjob
    BY <2>4 DEF TypeOK
  <2> QED
    BY <2>1, <2>2, <2>3, <2>4 DEF ControllerStep, Answer, CountController,
       Malformed, InsertJob, FindFull, SleepForRoom, GiveUpInsert, Refuse,
       ReportSubmitted, SetConcurrency, StopNotFound, Reply, Poll, SetExit,
       WakeRunning, WakeNonempty, WakeNonfull, ExitReply, KillMain, Detach,
       controllers
<1>6. mtxQueue' \in Threads \cup {NoThread}
  BY DEF TypeOK, Threads, locks, ControllerStep, Answer, CountController,
     Malformed, NewJob, InsertJob, FindFull, SleepForRoom, GiveUpInsert,
     Refuse, ReportSubmitted, SetConcurrency, StopQueued, StopClose,
     StopNotFound, Reply, Poll, SetExit, WakeRunning, WakeNonempty,
     WakeNonfull, ExitReply, KillMain, Detach
<1>7. nonempty' \subseteq Workers /\ nonfull' \subseteq Clients /\ nonfullRunning' \subseteq Workers
  BY SignalType DEF TypeOK, Broadcast, waits, ControllerStep, Answer,
     CountController, Malformed, NewJob, InsertJob, FindFull, SleepForRoom,
     GiveUpInsert, Refuse, ReportSubmitted, SetConcurrency, StopQueued,
     StopClose, StopNotFound, Reply, Poll, SetExit, WakeRunning, WakeNonempty,
     WakeNonfull, ExitReply, KillMain, Detach
<1>8. /\ concurrency' \in Nat \ {0} /\ peak' \in Nat \ {0} /\ exitServer' \in BOOLEAN
      /\ mpc' \in {"loop", "accept", "join"} \cup LeavingPCs
      /\ UNCHANGED <<late, astray>>
  <2>1. CASE SetConcurrency(c)
    <3>1. command[c].arg \in Nat \ {0}
      BY <2>1, CommandsAssumption DEF SetConcurrency, LocalsSet, Ops
    <3> QED
      BY <2>1, <3>1 DEF SetConcurrency, TypeOK, main
  <2> QED
    BY <2>1 DEF TypeOK, shared, main, history, ControllerStep, Answer,
       CountController, Malformed, NewJob, InsertJob, FindFull, SleepForRoom,
       GiveUpInsert, Refuse, ReportSubmitted, StopQueued, StopClose,
       StopNotFound, Reply, Poll, SetExit, WakeRunning, WakeNonempty,
       WakeNonfull, ExitReply, KillMain, Detach
<1>9. /\ stream' \in [Clients -> Seq(Message)] /\ server' \in {"up", "failed", "ended"}
      /\ fdTable' \in [FDs -> Clients \cup {NoThread}]
  <2>1. ASSUME NEW kind \in Outcomes \cup {"SUBMITTED", "REPLY"},
               NEW job \in Job \cup {NoJob}, NEW to, Answer(c, kind, job, to)
        PROVE  /\ stream' \in [Clients -> Seq(Message)]
               /\ server' \in {"up", "failed", "ended"}
               /\ fdTable' \in [FDs -> Clients \cup {NoThread}]
    BY <2>1, WriteType, CloseType DEF Answer
  <2>2. CASE Refuse(c)
    BY <2>1, <2>2 DEF Refuse, TypeOK, Outcomes
  <2>3. CASE Reply(c) \/ Poll(c) \/ ExitReply(c)
    BY <2>1, <2>3 DEF Reply, Poll, ExitReply, TypeOK
  <2>4. CASE ReportSubmitted(c)
    <3>1. cjob[c] \in Job
      BY <2>4 DEF ReportSubmitted, LocalsSet
    <3> QED
      BY <2>4, <3>1, WriteType DEF ReportSubmitted, TypeOK
  <2>5. CASE StopQueued(c)
    <3> DEFINE pos == QueuePosition(queue, command[c].arg)
    <3>1. pos \in 1 .. Len(queue) /\ queue \in Seq(Job)
      BY <2>5, PositionInQueue DEF StopQueued, TypeOK
    <3>2. queue[pos] \in Job
      BY <3>1, ElementOfSeq
    <3> QED
      BY <2>5, <3>2, WriteType DEF StopQueued, Outcomes, TypeOK
  <2>6. CASE StopClose(c)
    BY <2>6, CloseType DEF StopClose, TypeOK
  <2>7. CASE UNCHANGED network /\ (server' = server \/ server' = "failed")
    BY <2>7 DEF network, TypeOK
  <2> QED
    BY <2>2, <2>3, <2>4, <2>5, <2>6, <2>7 DEF ControllerStep, CountController,
       Malformed, NewJob, InsertJob, FindFull, SleepForRoom, GiveUpInsert,
       SetConcurrency, StopNotFound, SetExit, WakeRunning, WakeNonempty,
       WakeNonfull, KillMain, Detach
<1> QED
  BY <1>1, <1>2, <1>4, <1>5, <1>6, <1>7, <1>8, <1>9 DEF TypeOK, workers

LEMMA TopIsJob ==
    ASSUME queue \in Seq(Job), ~Empty
    PROVE  Top(queue) \in Job
<1>1. Len(queue) \in Nat
  BY LenProperties
<1> QED
  BY <1>1, HeadTailProperties DEF Empty, Top

MainPCs == {"loop", "accept", "join"} \cup LeavingPCs

LEMMA MainTypes ==
    ASSUME TypeOK, HandSet, MainStep
    PROVE  /\ mpc' \in MainPCs /\ left' \in Nat
           /\ mjob' \in Job \cup {NoJob} /\ HandSet'
           /\ late' \subseteq Clients /\ astray' \subseteq Job
<1>1. /\ mpc \in MainPCs /\ left \in Nat /\ mjob \in Job \cup {NoJob}
      /\ late \subseteq Clients /\ astray \subseteq Job
  BY DEF TypeOK, MainPCs
<1>2. Len(queue) \in Nat /\ (~Empty => Top(queue) \in Job)
  <2>1. queue \in Seq(Job)
    BY DEF TypeOK
  <2> QED
    BY <2>1, LenProperties, TopIsJob
<1>3. CASE EnterAccept \/ JoinWorkers \/ SpinOnControllers
  BY <1>1, <1>3 DEF EnterAccept, JoinWorkers, SpinOnControllers, history,
     MainPCs, LeavingPCs, HandSet
<1>4. CASE QueueSize
  BY <1>1, <1>2, <1>4 DEF QueueSize, history, MainPCs, LeavingPCs, HandSet
<1>5. CASE DrainTop
  BY <1>1, <1>2, <1>5 DEF DrainTop, history, MainPCs, LeavingPCs, HandSet
<1>6. CASE DrainPop
  BY <1>1, <1>2, <1>6 DEF DrainPop, history, MainPCs, LeavingPCs, HandSet
<1>7. CASE DrainTell
  BY <1>1, <1>7 DEF DrainTell, history, MainPCs, LeavingPCs, HandSet
<1>8. CASE DrainClose
  <2>1. left > 0 /\ left' = left - 1
    BY <1>8 DEF DrainClose, HandSet
  <2> QED
    BY <1>1, <1>8, <2>1 DEF DrainClose, history, MainPCs, LeavingPCs, HandSet
<1>9. CASE DrainEmptyQueue \/ ReturnFromMain
  BY <1>1, <1>9 DEF DrainEmptyQueue, ReturnFromMain, main, history, HandSet
<1> QED
  BY <1>3, <1>4, <1>5, <1>6, <1>7, <1>8, <1>9 DEF MainStep

LEMMA HandNext ==
    ASSUME TypeOK, HandSet, [Next]_vars
    PROVE  HandSet'
<1>1. CASE UNCHANGED main
  BY <1>1 DEF HandSet, main
<1>2. CASE MainStep
  BY <1>2, MainTypes
<1>3. ASSUME NEW c \in Clients, KillMain(c)
      PROVE  HandSet'
  BY <1>3 DEF KillMain, HandSet
<1>4. ASSUME NEW c \in Clients, NEW cmd \in Commands, NEW fd \in FDs,
             Accept(c, cmd, fd)
      PROVE  HandSet'
  BY <1>4 DEF Accept, HandSet
<1>5. ASSUME NEW w \in Workers, WorkerStep(w) \/ ChildExit(w)
      PROVE  UNCHANGED main
  BY <1>5 DEF WorkerStep, WorkerTop, CheckSlot, SleepForSlot, LeaveSlotWait,
     ReserveSlot, TakeJob, FindEmpty, SleepForJob, LeaveTakeWait, SendOutput,
     CloseClient, ReleaseSlot, ChildExit
<1>6. ASSUME NEW c \in Clients, ControllerStep(c), ~KillMain(c)
      PROVE  UNCHANGED main
  BY <1>6 DEF ControllerStep, Answer, CountController, Malformed, NewJob,
     InsertJob, FindFull, SleepForRoom, GiveUpInsert, Refuse, ReportSubmitted,
     SetConcurrency, StopQueued, StopClose, StopNotFound, Reply, Poll,
     SetExit, WakeRunning, WakeNonempty, WakeNonfull, ExitReply, Detach
<1> QED
  BY <1>1, <1>2, <1>3, <1>4, <1>5, <1>6 DEF Next, SpuriousWakeup, vars

LEMMA OtherTypes ==
    ASSUME TypeOK, HandSet,
           \/ MainStep
           \/ \E c \in Clients, cmd \in Commands, fd \in FDs : Accept(c, cmd, fd)
           \/ \E t \in Threads : SpuriousWakeup(t)
           \/ UNCHANGED vars,
           CountersExact', queue' \in Seq(Job)
    PROVE  TypeOK'
<1>1. /\ running' \in 0 .. Cardinality(Workers)
      /\ controllerCount' \in 0 .. Cardinality(Clients)
      /\ jobID' \in JobIds \cup {0}
  BY CounterTypes
<1>2. CASE MainStep
  <2>1. UNCHANGED <<concurrency, exitServer, locks, waits, workers, controllers, peak>>
    BY <1>2 DEF MainStep, shared, EnterAccept, JoinWorkers, SpinOnControllers,
       QueueSize, DrainTop, DrainPop, DrainTell, DrainClose, DrainEmptyQueue,
       ReturnFromMain, history
  <2>2. /\ mpc' \in {"loop", "accept", "join"} \cup LeavingPCs /\ left' \in Nat
        /\ mjob' \in Job \cup {NoJob}
        /\ late' \subseteq Clients /\ astray' \subseteq Job
    BY <1>2, MainTypes DEF MainPCs
  <2>3. /\ stream' \in [Clients -> Seq(Message)] /\ server' \in {"up", "failed", "ended"}
        /\ fdTable' \in [FDs -> Clients \cup {NoThread}]
    <3>1. CASE DrainTell
      <4>1. mjob \in Job
        BY <3>1 DEF DrainTell, HandSet
      <4> QED
        BY <3>1, <4>1, WriteType DEF DrainTell, Outcomes, TypeOK
    <3>3. CASE DrainClose
      BY <3>3, CloseType DEF DrainClose, TypeOK
    <3>2. CASE UNCHANGED network /\ server' \in {server, "failed", "ended"}
      BY <3>2 DEF network, TypeOK
    <3> QED
      BY <1>2, <3>1, <3>2, <3>3 DEF MainStep, EnterAccept, JoinWorkers,
         SpinOnControllers, QueueSize, DrainTop, DrainPop, DrainEmptyQueue,
         ReturnFromMain
  <2> QED
    BY <1>1, <2>1, <2>2, <2>3 DEF TypeOK, locks, waits, workers, controllers
<1>3. ASSUME NEW c \in Clients, NEW cmd \in Commands, NEW fd \in FDs,
             Accept(c, cmd, fd)
      PROVE  TypeOK'
  BY <1>1, <1>3 DEF Accept, GoC, TypeOK, ControllerPCs, shared, locks, waits,
     workers, history
<1>4. ASSUME NEW t \in Threads, SpuriousWakeup(t)
      PROVE  TypeOK'
  BY <1>1, <1>4 DEF SpuriousWakeup, TypeOK, shared, locks, workers,
     controllers, network, main, history
<1>5. CASE UNCHANGED vars
  BY <1>5 DEF vars, TypeOK, shared, locks, waits, workers, controllers,
     network, main, history
<1> QED
  BY <1>2, <1>3, <1>4, <1>5

-----------------------------------------------------------------------------
(* The theorems *)

LEMMA TypeInit == Init => TypeOK
<1> SUFFICES ASSUME Init
             PROVE  TypeOK
  OBVIOUS
<1>1. Cardinality(Workers) \in Nat /\ Cardinality(Clients) \in Nat
  BY WorkersAssumption, ClientsAssumption, FS_CardinalityType
<1>2. /\ running \in 0 .. Cardinality(Workers) /\ jobID \in JobIds \cup {0}
      /\ controllerCount \in 0 .. Cardinality(Clients)
  BY <1>1 DEF Init
<1>3. /\ concurrency \in Nat \ {0} /\ peak \in Nat \ {0} /\ left \in Nat
      /\ mjob \in Job \cup {NoJob} /\ late \subseteq Clients /\ astray \subseteq Job
  BY DEF Init
<1>8. exitServer \in BOOLEAN
  BY Zenon DEF Init
<1>9. /\ mtxQueue \in Threads \cup {NoThread}
      /\ mtxRunning \in Workers \cup {NoThread}
      /\ nonempty \subseteq Workers /\ nonfull \subseteq Clients
      /\ nonfullRunning \subseteq Workers
      /\ mpc \in {"loop", "accept", "join"} \cup LeavingPCs
      /\ server \in {"up", "failed", "ended"}
  BY DEF Init
<1>4. /\ wpc \in [Workers -> WorkerPCs] /\ wjob \in [Workers -> Job \cup {NoJob}]
      /\ cpc \in [Clients -> ControllerPCs]
      /\ cjob \in [Clients -> Job \cup {NoJob}]
  BY DEF Init, WorkerPCs, ControllerPCs
<1>7. /\ command \in [Clients -> Commands \cup {NoCommand}]
      /\ sock \in [Clients -> FDs \cup {0}]
      /\ fdTable \in [FDs -> Clients \cup {NoThread}]
  BY DEF Init
<1>5. queue \in Seq(Job)
  BY EmptySeq DEF Init
<1>6. stream \in [Clients -> Seq(Message)]
  <2>1. <<>> \in Seq(Message)
    BY EmptySeq
  <2> QED
    BY <2>1 DEF Init
<1> QED
  BY <1>2, <1>3, <1>4, <1>5, <1>6, <1>7, <1>8, <1>9 DEF TypeOK

LEMMA InvInit == Init => IInv
<1> SUFFICES ASSUME Init
             PROVE  IInv
  OBVIOUS
<1>1. Holders = {} /\ Counted = {} /\ Issuers = {}
  BY DEF Init, Holders, Counted, Issuers, WithSlot, WithoutCount, WithoutJobID
<1>2. CountersExact
  BY <1>1, FS_EmptySet DEF CountersExact, Init
<1>3. TypeOK
  BY TypeInit
<1>4. LocalsSet /\ SlotsBounded /\ HandSet
  BY DEF Init, LocalsSet, SlotsBounded, HandSet, Ops
<1>5. BufferRespected
  BY BufferAssumption DEF Init, BufferRespected
<1> QED
  BY <1>2, <1>3, <1>4, <1>5 DEF IInv

LEMMA InvNext == IInv /\ [Next]_vars => IInv'
<1> SUFFICES ASSUME IInv, [Next]_vars
             PROVE  IInv'
  OBVIOUS
<1>1. CountersExact' /\ SlotsBounded' /\ LocalsSet'
  BY CountersNext, SlotsNext, LocalsNext
<1>2. queue' \in Seq(Job) /\ BufferRespected'
  BY BufferNext
<1>3. TypeOK'
  BY <1>1, <1>2, WorkerTypes, ControllerTypes, OtherTypes DEF IInv, Next
<1>4. HandSet'
  BY HandNext DEF IInv
<1> QED
  BY <1>1, <1>2, <1>3, <1>4 DEF IInv

THEOREM Invariant == Spec => []IInv
<1> QED
  BY InvInit, InvNext, PTL DEF Spec

(* Every variable keeps its type: in particular no counter ever goes below   *)
(* zero or above the number of threads it counts.                            *)
THEOREM TypeCorrect == Spec => []TypeOK
<1>1. IInv => TypeOK
  BY DEF IInv
<1> QED
  BY <1>1, Invariant, PTL

(* The buffer never holds more jobs than argv[2] allows.                     *)
THEOREM BufferSafe == Spec => []BufferRespected
<1>1. IInv => BufferRespected
  BY DEF IInv
<1> QED
  BY <1>1, Invariant, PTL

(* global_Running, global_ControllerCount and global_JobID are exact.        *)
THEOREM CountersCorrect == Spec => []CountersExact
<1>1. IInv => CountersExact
  BY DEF IInv
<1> QED
  BY <1>1, Invariant, PTL

(* Jobs are executed by slot holders only, the slots are counted exactly,    *)
(* and no slot is handed out beyond the highest concurrency ever set.        *)
THEOREM ConcurrencySafe == Spec => []ConcurrencyRespected
<1>1. IInv => ConcurrencyRespected
  <2> SUFFICES ASSUME IInv
               PROVE  ConcurrencyRespected
    OBVIOUS
  <2>1. Executing \subseteq Holders /\ Holders \subseteq Workers
    BY DEF Executing, Holders, WithSlot
  <2>2. IsFiniteSet(Holders)
    BY <2>1, WorkersAssumption, FS_Subset
  <2>3. Cardinality(Executing) <= Cardinality(Holders)
    BY <2>1, <2>2, FS_Subset
  <2>4. IsFiniteSet(Executing)
    BY <2>1, <2>2, FS_Subset
  <2>5. /\ Cardinality(Executing) \in Nat /\ Cardinality(Holders) \in Nat
        /\ peak \in Nat /\ Cardinality(Holders) <= peak
    BY <2>2, <2>4, FS_CardinalityType DEF IInv, TypeOK, CountersExact,
       SlotsBounded
  <2> QED
    BY <2>3, <2>5 DEF ConcurrencyRespected
<1> QED
  BY <1>1, Invariant, PTL

-----------------------------------------------------------------------------
(* No wakeup is lost while nobody exits, with or without spurious wakeups.   *)

(* The parts of the inductive invariant behind NonemptyWakeup, SlotWakeup   *)
(* and NonfullWakeup                                                        *)

(* Who is asleep is at the wait that put it to sleep.                       *)
AsleepAtWait ==
    /\ \A w \in nonempty : wpc[w] = "takewait"
    /\ \A w \in nonfullRunning : wpc[w] = "slotwait"

(* What a thread saw before it goes to sleep stays so until it sleeps: the  *)
(* buffer is empty, because it keeps global_Mtx_Queue, and some slot is in  *)
(* use, because nobody gives one back while it keeps global_Mtx_Running.    *)
StillSo ==
    /\ \A w \in Workers : wpc[w] = "empty" => mtxQueue = w /\ Empty
    /\ \A c \in Clients : cpc[c] \in {"full", "stopped"} => mtxQueue = c
    /\ \A w \in Workers : wpc[w] = "slotfull" => running > 0

(* What is left to do of an exit once its flag is set.                      *)
AfterFlag == {"wakeRunning", "wakeNonempty", "wakeNonfull", "exitreply", "kill"}

(* The same for the controllers that wait for room.  The drain of main does *)
(* not keep the mutex, but it pops only after an exit.                      *)
RoomSeen ==
    /\ \A c \in nonfull : cpc[c] = "insertwait"
    /\ \A c \in Clients : cpc[c] = "full" /\ ~exitServer => Full
    /\ \A c \in Clients : cpc[c] \in AfterFlag => exitServer
    /\ mpc \in {"join"} \cup LeavingPCs => exitServer
    /\ \A c \in Clients : cpc[c] = "away" => command[c] = NoCommand

WakeInv == /\ AsleepAtWait /\ StillSo /\ RoomSeen
           /\ NonemptyWakeup /\ SlotWakeup /\ NonfullWakeup

AtLook == {"take", "takewait"}

(* The workers that are about to look at the buffer, at the slots.           *)
Awake  == {w \in Workers \ nonempty : wpc[w] \in AtLook}
Waking == {w \in Workers \ nonfullRunning : wpc[w] \in {"slotwait", "reserve"}}

LEMMA Basics ==
    ASSUME IInv
    PROVE  /\ wpc \in [Workers -> WorkerPCs] /\ cpc \in [Clients -> ControllerPCs]
           /\ queue \in Seq(Job) /\ Len(queue) \in Nat
           /\ running \in Nat /\ concurrency \in Nat \ {0}
           /\ nonempty \subseteq Workers /\ nonfullRunning \subseteq Workers
           /\ Workers \cap Clients = {} /\ NoThread \notin Workers \cup Clients
           /\ IsFiniteSet(Awake) /\ Cardinality(Awake) \in Nat
<1>1. running \in Nat
  BY WorkersAssumption, FS_CardinalityType DEF IInv, TypeOK
<1>2. Len(queue) \in Nat
  BY LenProperties DEF IInv, TypeOK
<1>3. IsFiniteSet(Awake) /\ Cardinality(Awake) \in Nat
  <2>1. Awake \subseteq Workers
    BY DEF Awake
  <2> QED
    BY <2>1, WorkersAssumption, FS_Subset, FS_CardinalityType
<1> QED
  BY <1>1, <1>2, <1>3, ThreadsAssumption DEF IInv, TypeOK

(* What a step leaves of the wait sets was asleep before.                    *)
LEMMA SignalLeaves ==
    ASSUME NEW waiters, NEW rest \in Signal(waiters)
    PROVE  /\ rest \subseteq waiters
           /\ waiters = {} => rest = {}
           /\ waiters # {} => \E t \in waiters : rest = waiters \ {t}
BY DEF Signal

-----------------------------------------------------------------------------
(* Sleepers are where they fell asleep                                       *)

LEMMA AsleepNext ==
    ASSUME IInv, AsleepAtWait, [Next]_vars
    PROVE  AsleepAtWait'
<1> USE DEF AsleepAtWait
<1>1. wpc \in [Workers -> WorkerPCs] /\ AsleepAtWait
      /\ nonempty \subseteq Workers /\ nonfullRunning \subseteq Workers
  BY Basics
<1>2. CASE nonempty' \subseteq nonempty /\ nonfullRunning' \subseteq nonfullRunning
           /\ wpc' = wpc
  BY <1>1, <1>2
<1>3. ASSUME NEW w \in Workers, WorkerStep(w) \/ ChildExit(w)
      PROVE  AsleepAtWait'
  <2>1. CASE UNCHANGED waits /\ w \notin nonempty \cup nonfullRunning
             /\ \E to : GoW(w, to)
    BY <1>1, <2>1 DEF waits, GoW
  <2>2. CASE SleepForSlot(w)
    BY <1>1, <2>2 DEF SleepForSlot, GoW
  <2>3. CASE SleepForJob(w)
    BY <1>1, <2>3 DEF SleepForJob, GoW
  <2>4. CASE ReleaseSlot(w)
    <3>1. nonfullRunning' \subseteq nonfullRunning
      BY <2>4, SignalLeaves DEF ReleaseSlot
    <3> QED
      BY <1>1, <2>4, <3>1 DEF ReleaseSlot, GoW
  <2>5. CASE TakeJob(w)
    BY <1>1, <2>5 DEF TakeJob, AtBuffer, GoW
  <2>6. WorkerStep(w) \/ ChildExit(w) =>
            \/ SleepForSlot(w) \/ SleepForJob(w) \/ ReleaseSlot(w) \/ TakeJob(w)
            \/ /\ UNCHANGED waits /\ w \notin nonempty \cup nonfullRunning
               /\ \E to : GoW(w, to)
    BY <1>1 DEF WorkerStep, WorkerTop, CheckSlot, LeaveSlotWait, ReserveSlot,
       FindEmpty, AtBuffer, LeaveTakeWait, SendOutput, CloseClient, ChildExit
  <2> QED
    BY <1>3, <2>1, <2>2, <2>3, <2>4, <2>5, <2>6
<1>4. ASSUME NEW c \in Clients, ControllerStep(c)
      PROVE  AsleepAtWait'
  <2>1. wpc' = wpc /\ nonfullRunning' \subseteq nonfullRunning
    BY <1>4 DEF ControllerStep, Answer, Broadcast, workers, waits,
       CountController, Malformed, NewJob, InsertJob, FindFull, SleepForRoom,
       GiveUpInsert, Refuse, ReportSubmitted, SetConcurrency, StopQueued,
       StopClose, StopNotFound, Reply, Poll, SetExit, WakeRunning,
       WakeNonempty, WakeNonfull, ExitReply, KillMain, Detach
  <2>2. nonempty' \subseteq nonempty
    <3>1. CASE InsertJob(c)
      BY <3>1, SignalLeaves DEF InsertJob
    <3>2. CASE ~InsertJob(c)
      BY <1>4, <3>2 DEF ControllerStep, Answer, Broadcast, waits,
         CountController, Malformed, NewJob, FindFull, SleepForRoom,
         GiveUpInsert, Refuse, ReportSubmitted, SetConcurrency, StopQueued,
         StopClose, StopNotFound, Reply, Poll, SetExit, WakeRunning,
         WakeNonempty, WakeNonfull, ExitReply, KillMain, Detach
    <3> QED
      BY <3>1, <3>2
  <2> QED
    BY <1>2, <2>1, <2>2
<1>5. CASE \/ MainStep
           \/ \E c \in Clients, cmd \in Commands, fd \in FDs : Accept(c, cmd, fd)
           \/ \E t \in Threads : SpuriousWakeup(t)
           \/ UNCHANGED vars
  <2>1. wpc' = wpc /\ nonempty' \subseteq nonempty
        /\ nonfullRunning' \subseteq nonfullRunning
    BY <1>5 DEF MainStep, EnterAccept, JoinWorkers, SpinOnControllers,
       QueueSize, DrainTop, DrainPop, DrainTell, DrainClose, DrainEmptyQueue,
       ReturnFromMain, Accept, SpuriousWakeup, workers, waits, vars
  <2> QED
    BY <1>2, <2>1
<1> QED
  BY <1>3, <1>4, <1>5 DEF Next

-----------------------------------------------------------------------------
(* What a thread saw before it sleeps stays so                               *)

LEMMA StillSoNext ==
    ASSUME IInv, StillSo, [Next]_vars
    PROVE  StillSo'
<1> DEFINE SawEmpty == \A w \in Workers : wpc[w] = "empty" => mtxQueue = w /\ Empty
           Keeps == \A c \in Clients : cpc[c] \in {"full", "stopped"} => mtxQueue = c
           SawSlots == \A w \in Workers : wpc[w] = "slotfull" => running > 0
<1>1. /\ wpc \in [Workers -> WorkerPCs] /\ cpc \in [Clients -> ControllerPCs]
      /\ Workers \cap Clients = {} /\ NoThread \notin Workers \cup Clients
      /\ running \in Nat /\ concurrency \in Nat \ {0}
  BY Basics
<1>2. SawEmpty /\ Keeps /\ SawSlots
  BY DEF StillSo
<1>3. \A w \in Workers : wpc[w] = "slotfull" => mtxRunning = w
  BY DEF IInv, SlotsBounded
<1>4. SUFFICES SawEmpty' /\ Keeps' /\ SawSlots'
  BY DEF StillSo
<1>5. ASSUME NEW w \in Workers, WorkerStep(w) \/ ChildExit(w)
      PROVE  SawEmpty' /\ Keeps' /\ SawSlots'
  <2>1. cpc' = cpc
    BY <1>5 DEF WorkerStep, WorkerTop, CheckSlot, SleepForSlot, LeaveSlotWait,
       ReserveSlot, TakeJob, FindEmpty, SleepForJob, LeaveTakeWait, SendOutput,
       CloseClient, ReleaseSlot, ChildExit, controllers
  <2>2. CASE TakeJob(w)
    BY <1>1, <1>2, <2>1, <2>2 DEF TakeJob, GoW, locks
  <2>3. CASE FindEmpty(w)
    BY <1>1, <1>2, <2>1, <2>3 DEF FindEmpty, GoW, shared, Empty
  <2>4. CASE SleepForJob(w)
    BY <1>1, <1>2, <2>1, <2>4 DEF SleepForJob, GoW, shared
  <2>5. CASE CheckSlot(w)
    BY <1>1, <1>2, <2>1, <2>5 DEF CheckSlot, GoW, shared, Empty, SlotsFull
  <2>6. CASE ReserveSlot(w)
    BY <1>1, <1>2, <2>1, <2>6 DEF ReserveSlot, GoW, Empty
  <2>7. CASE ReleaseSlot(w)
    BY <1>1, <1>2, <1>3, <2>1, <2>7 DEF ReleaseSlot, GoW, locks, Empty
  <2>8. CASE /\ UNCHANGED <<queue, running, mtxQueue>>
             /\ \E to \in WorkerPCs \ {"empty", "slotfull"} : GoW(w, to)
    BY <1>1, <1>2, <2>1, <2>8 DEF GoW, Empty
  <2>9. WorkerStep(w) \/ ChildExit(w) =>
            \/ TakeJob(w) \/ FindEmpty(w) \/ SleepForJob(w) \/ CheckSlot(w)
            \/ ReserveSlot(w) \/ ReleaseSlot(w)
            \/ /\ UNCHANGED <<queue, running, mtxQueue>>
               /\ \E to \in WorkerPCs \ {"empty", "slotfull"} : GoW(w, to)
    BY DEF WorkerStep, WorkerTop, SleepForSlot, LeaveSlotWait, LeaveTakeWait,
       SendOutput, CloseClient, ChildExit, WorkerPCs, shared, locks
  <2> QED
    BY <1>5, <2>2, <2>3, <2>4, <2>5, <2>6, <2>7, <2>8, <2>9
<1>6. ASSUME NEW c \in Clients, ControllerStep(c)
      PROVE  SawEmpty' /\ Keeps' /\ SawSlots'
  <2>1. wpc' = wpc /\ running' = running
    BY <1>6 DEF ControllerStep, Answer, workers, shared,
       CountController, Malformed, NewJob, InsertJob, FindFull, SleepForRoom,
       GiveUpInsert, Refuse, ReportSubmitted, SetConcurrency, StopQueued,
       StopClose, StopNotFound, Reply, Poll, SetExit, WakeRunning,
       WakeNonempty, WakeNonfull, ExitReply, KillMain, Detach
  <2>2. CASE InsertJob(c)
    BY <1>1, <1>2, <2>1, <2>2 DEF InsertJob, GoC, locks
  <2>3. CASE FindFull(c)
    BY <1>1, <1>2, <2>1, <2>3 DEF FindFull, GoC
  <2>4. CASE SleepForRoom(c)
    BY <1>1, <1>2, <2>1, <2>4 DEF SleepForRoom, GoC
  <2>5. CASE StopQueued(c)
    BY <1>1, <1>2, <2>1, <2>5 DEF StopQueued, GoC
  <2>6. CASE StopClose(c)
    BY <1>1, <1>2, <2>1, <2>6 DEF StopClose, GoC
  <2>7. CASE /\ UNCHANGED <<queue, mtxQueue>>
             /\ cpc' = cpc \/ \E to \in ControllerPCs \ {"full", "stopped"} : GoC(c, to)
    BY <1>1, <1>2, <2>1, <2>7 DEF GoC, Empty
  <2>8. CASE CountController(c)
    <3>1. command[c].op \in Ops
      <4>1. command[c] \in Commands
        BY <2>8 DEF CountController, IInv, LocalsSet
      <4> QED
        BY <4>1, CommandsAssumption
    <3>2. command[c].op \in ControllerPCs \ {"full", "stopped"}
      BY <3>1 DEF Ops, ControllerPCs
    <3> QED
      BY <2>7, <2>8, <3>2 DEF CountController, locks
  <2>9. ControllerStep(c) =>
            \/ InsertJob(c) \/ FindFull(c) \/ SleepForRoom(c) \/ StopQueued(c)
            \/ StopClose(c) \/ CountController(c)
            \/ /\ UNCHANGED <<queue, mtxQueue>>
               /\ cpc' = cpc \/ \E to \in ControllerPCs \ {"full", "stopped"} : GoC(c, to)
    BY DEF ControllerStep, Answer, shared, locks, controllers, ControllerPCs,
       Malformed, NewJob, GiveUpInsert, Refuse, ReportSubmitted,
       SetConcurrency, StopNotFound, Reply, Poll, SetExit, WakeRunning,
       WakeNonempty, WakeNonfull, ExitReply, KillMain, Detach
  <2> QED
    BY <1>6, <2>2, <2>3, <2>4, <2>5, <2>6, <2>7, <2>8, <2>9
<1>7. CASE MainStep /\ DrainPop
  BY <1>1, <1>2, <1>7 DEF DrainPop, workers, controllers, locks
<1>8. ASSUME NEW c \in Clients, NEW cmd, NEW fd, Accept(c, cmd, fd)
      PROVE  SawEmpty' /\ Keeps' /\ SawSlots'
  BY <1>1, <1>2, <1>8 DEF Accept, GoC, workers, shared, locks, Empty
<1>9. CASE \/ MainStep /\ ~DrainPop
           \/ \E t \in Threads : SpuriousWakeup(t)
           \/ UNCHANGED vars
  <2>1. UNCHANGED <<wpc, cpc, queue, running, mtxQueue>>
    BY <1>9 DEF MainStep, EnterAccept, JoinWorkers, SpinOnControllers,
       QueueSize, DrainTop, DrainTell, DrainClose, DrainEmptyQueue,
       ReturnFromMain, SpuriousWakeup, workers, controllers, shared, locks,
       vars
  <2> QED
    BY <1>2, <2>1 DEF Empty
<1> QED
  BY <1>5, <1>6, <1>7, <1>8, <1>9 DEF Next

-----------------------------------------------------------------------------
(* Free slots                                                                *)

LEMMA SlotWakeupNext ==
    ASSUME IInv, AsleepAtWait, StillSo, SlotWakeup, [Next]_vars
    PROVE  SlotWakeup'
<1>1. /\ wpc \in [Workers -> WorkerPCs] /\ running \in Nat
      /\ nonfullRunning \subseteq Workers
  BY Basics
<1>2. ~exitServer /\ nonfullRunning # {} => running > 0 \/ Waking # {}
  BY DEF SlotWakeup, Waking
<1>3. SUFFICES ~exitServer' /\ nonfullRunning' # {} => running' > 0 \/ Waking' # {}
  BY DEF SlotWakeup, Waking
<1>4. CASE nonfullRunning' \subseteq nonfullRunning /\ wpc' = wpc /\ running' = running
           /\ (exitServer' = exitServer \/ exitServer')
  BY <1>2, <1>4 DEF Waking
<1>5. ASSUME NEW w \in Workers, WorkerStep(w) \/ ChildExit(w)
      PROVE  ~exitServer' /\ nonfullRunning' # {} => running' > 0 \/ Waking' # {}
  <2>1. CASE CheckSlot(w)
    <3>1. wpc'[w] = "slotfull" => running > 0
      BY <1>1, <2>1, Basics DEF CheckSlot, GoW, SlotsFull
    <3>2. wpc'[w] = "slotfull" \/ wpc'[w] = "reserve"
      BY <1>1, <2>1 DEF CheckSlot, GoW
    <3>3. w \notin nonfullRunning' /\ running' = running
      BY <2>1 DEF CheckSlot, AsleepAtWait, waits, shared
    <3> QED
      BY <3>1, <3>2, <3>3 DEF Waking
  <2>2. CASE SleepForSlot(w)
    BY <2>2 DEF SleepForSlot, StillSo, shared
  <2>3. CASE LeaveSlotWait(w)
    BY <2>3 DEF LeaveSlotWait, shared
  <2>4. CASE ReserveSlot(w)
    BY <1>1, <2>4 DEF ReserveSlot
  <2>5. CASE ReleaseSlot(w)
    <3>1. CASE nonfullRunning = {}
      BY <2>5, <3>1, SignalLeaves DEF ReleaseSlot
    <3>2. CASE nonfullRunning # {}
      <4>1. PICK t \in nonfullRunning : nonfullRunning' = nonfullRunning \ {t}
        BY <2>5, <3>2, SignalLeaves DEF ReleaseSlot
      <4>2. wpc[t] = "slotwait" /\ t # w /\ t \in Workers
        BY <1>1, <2>5, <4>1 DEF AsleepAtWait, ReleaseSlot
      <4>3. t \in Waking'
        BY <1>1, <2>5, <4>1, <4>2 DEF ReleaseSlot, GoW, Waking
      <4> QED
        BY <4>3
    <3> QED
      BY <3>1, <3>2
  <2>6. CASE /\ UNCHANGED <<nonfullRunning, running, exitServer>>
             /\ wpc[w] \notin {"slotwait", "reserve"} /\ \E to : GoW(w, to)
    BY <1>1, <1>2, <2>6 DEF Waking, GoW
  <2>7. WorkerStep(w) \/ ChildExit(w) =>
            \/ CheckSlot(w) \/ SleepForSlot(w) \/ LeaveSlotWait(w)
            \/ ReserveSlot(w) \/ ReleaseSlot(w)
            \/ /\ UNCHANGED <<nonfullRunning, running, exitServer>>
               /\ wpc[w] \notin {"slotwait", "reserve"} /\ \E to : GoW(w, to)
    BY DEF WorkerStep, WorkerTop, TakeJob, FindEmpty, AtBuffer, SleepForJob,
       LeaveTakeWait, SendOutput, CloseClient, ChildExit, shared, waits
  <2> QED
    BY <1>5, <2>1, <2>2, <2>3, <2>4, <2>5, <2>6, <2>7
<1>6. ASSUME NEW c \in Clients, ControllerStep(c)
      PROVE  /\ nonfullRunning' \subseteq nonfullRunning /\ wpc' = wpc
             /\ running' = running /\ (exitServer' = exitServer \/ exitServer')
  BY <1>6 DEF ControllerStep, Answer, Broadcast, workers, shared, waits,
     CountController, Malformed, NewJob, InsertJob, FindFull, SleepForRoom,
     GiveUpInsert, Refuse, ReportSubmitted, SetConcurrency, StopQueued,
     StopClose, StopNotFound, Reply, Poll, SetExit, WakeRunning,
     WakeNonempty, WakeNonfull, ExitReply, KillMain, Detach
<1>7. CASE \/ MainStep
           \/ \E c \in Clients, cmd \in Commands, fd \in FDs : Accept(c, cmd, fd)
           \/ \E t \in Threads : SpuriousWakeup(t)
           \/ UNCHANGED vars
  <2>1. /\ nonfullRunning' \subseteq nonfullRunning /\ wpc' = wpc
        /\ running' = running /\ exitServer' = exitServer
    BY <1>7 DEF MainStep, EnterAccept, JoinWorkers, SpinOnControllers,
       QueueSize, DrainTop, DrainPop, DrainTell, DrainClose, DrainEmptyQueue,
       ReturnFromMain, Accept, SpuriousWakeup, workers, waits, shared, vars
  <2> QED
    BY <1>4, <2>1
<1> QED
  BY <1>4, <1>5, <1>6, <1>7 DEF Next

-----------------------------------------------------------------------------
(* Queued jobs                                                               *)

(* As long as the queue does not grow, and nobody falls asleep or leaves the *)
(* buffer, there is a worker for every job.                                  *)
LEMMA StillCovered ==
    ASSUME IInv, NonemptyWakeup, nonempty' \subseteq nonempty, Awake \subseteq Awake',
           exitServer' = exitServer \/ exitServer', Awake' \subseteq Workers,
           NEW h \in Nat, Len(queue') \in Nat, Len(queue) = Len(queue') + h
    PROVE  NonemptyWakeup'
<1>1. IsFiniteSet(Awake') /\ Cardinality(Awake') \in Nat
  BY WorkersAssumption, FS_Subset, FS_CardinalityType
<1>2. Cardinality(Awake) <= Cardinality(Awake')
  BY <1>1, FS_Subset
<1>3. ~exitServer /\ nonempty # {} => Len(queue) <= Cardinality(Awake)
  BY DEF NonemptyWakeup, Awake, AtLook
<1>4. ~exitServer' /\ nonempty' # {} => Len(queue') <= Cardinality(Awake')
  <2> DEFINE m == Cardinality(Awake)
             n == Cardinality(Awake')
             k == Len(queue)
             l == Len(queue')
  <2>1. m \in Nat /\ n \in Nat /\ k \in Nat /\ l \in Nat /\ m <= n /\ k = l + h
    BY <1>1, <1>2, Basics
  <2>2. ~exitServer' /\ nonempty' # {} => k <= m
    BY <1>3
  <2> HIDE DEF m, n, k, l
  <2>3. ~exitServer' /\ nonempty' # {} => l <= n
    BY <2>1, <2>2
  <2> QED
    BY <2>3 DEF l, n
<1> QED
  BY <1>4 DEF NonemptyWakeup, Awake, AtLook

LEMMA NonemptyWakeupNext ==
    ASSUME IInv, AsleepAtWait, StillSo, NonemptyWakeup, [Next]_vars
    PROVE  NonemptyWakeup'
<1>1. /\ wpc \in [Workers -> WorkerPCs] /\ nonempty \subseteq Workers
      /\ queue \in Seq(Job) /\ Len(queue) \in Nat
      /\ IsFiniteSet(Awake) /\ Cardinality(Awake) \in Nat
  BY Basics
<1>2. ~exitServer /\ nonempty # {} => Len(queue) <= Cardinality(Awake)
  BY DEF NonemptyWakeup, Awake, AtLook
<1>3. Awake' \subseteq Workers /\ Cardinality(Awake') \in Nat
  <2>1. Awake' \subseteq Workers
    BY DEF Awake
  <2> QED
    BY <2>1, WorkersAssumption, FS_Subset, FS_CardinalityType
<1>4. CASE /\ nonempty' \subseteq nonempty /\ Awake \subseteq Awake'
           /\ queue' = queue /\ (exitServer' = exitServer \/ exitServer')
  BY <1>1, <1>3, <1>4, StillCovered
<1>5. CASE nonempty' = {} \/ exitServer'
  BY <1>5 DEF NonemptyWakeup
<1>6. CASE Empty /\ queue' = queue
  <2>1. Len(queue') = 0
    BY <1>6 DEF Empty
  <2>2. Len(queue') <= Cardinality(Awake')
    BY <1>3, <2>1
  <2> QED
    BY <2>2 DEF NonemptyWakeup, Awake, AtLook
<1>7. ASSUME NEW w \in Workers, WorkerStep(w) \/ ChildExit(w)
      PROVE  NonemptyWakeup'
  <2>1. CASE TakeJob(w)
    <3>1. /\ nonempty' = nonempty /\ exitServer' = exitServer
          /\ queue' = Tail(queue) /\ queue # <<>>
      BY <2>1, EmptySeq DEF TakeJob, Pop, Empty
    <3>2. Len(queue') = Len(queue) - 1
      BY <1>1, <3>1, HeadTailProperties
    <3>3. w \in Awake /\ Awake' = Awake \ {w}
      BY <1>1, <2>1, <3>1 DEF TakeJob, AtBuffer, GoW, Awake, AtLook,
         AsleepAtWait
    <3>4. Cardinality(Awake') = Cardinality(Awake) - 1
      BY <1>1, <3>3, FS_RemoveElement
    <3>5. ~exitServer' /\ nonempty' # {} => Len(queue') <= Cardinality(Awake')
      BY <1>1, <1>2, <3>1, <3>2, <3>4
    <3> QED
      BY <3>5 DEF NonemptyWakeup, Awake, AtLook
  <2>2. CASE FindEmpty(w)
    BY <1>6, <2>2 DEF FindEmpty, shared
  <2>3. CASE SleepForJob(w)
    BY <1>6, <2>3 DEF SleepForJob, StillSo, shared
  <2>4. CASE LeaveTakeWait(w)
    BY <1>5, <2>4 DEF LeaveTakeWait, shared
  <2>5. CASE /\ UNCHANGED <<nonempty, queue, exitServer>>
             /\ wpc[w] \notin AtLook /\ \E to : GoW(w, to)
    <3>1. Awake \subseteq Awake'
      BY <1>1, <2>5 DEF Awake, GoW
    <3> QED
      BY <1>4, <2>5, <3>1
  <2>6. WorkerStep(w) \/ ChildExit(w) =>
            \/ TakeJob(w) \/ FindEmpty(w) \/ SleepForJob(w) \/ LeaveTakeWait(w)
            \/ /\ UNCHANGED <<nonempty, queue, exitServer>>
               /\ wpc[w] \notin AtLook /\ \E to : GoW(w, to)
    BY DEF WorkerStep, WorkerTop, CheckSlot, SleepForSlot, LeaveSlotWait,
       ReserveSlot, SendOutput, CloseClient, ReleaseSlot, ChildExit, AtLook,
       shared, waits
  <2> QED
    BY <1>7, <2>1, <2>2, <2>3, <2>4, <2>5, <2>6
<1>8. ASSUME NEW c \in Clients, ControllerStep(c)
      PROVE  NonemptyWakeup'
  <2>1. wpc' = wpc
    BY <1>8 DEF ControllerStep, Answer, workers,
       CountController, Malformed, NewJob, InsertJob, FindFull, SleepForRoom,
       GiveUpInsert, Refuse, ReportSubmitted, SetConcurrency, StopQueued,
       StopClose, StopNotFound, Reply, Poll, SetExit, WakeRunning,
       WakeNonempty, WakeNonfull, ExitReply, KillMain, Detach
  <2>2. CASE InsertJob(c)
    <3>1. CASE nonempty = {}
      BY <1>5, <2>2, <3>1, SignalLeaves DEF InsertJob
    <3>2. CASE nonempty # {}
      <4>1. PICK t \in nonempty : nonempty' = nonempty \ {t}
        BY <2>2, <3>2, SignalLeaves DEF InsertJob
      <4>2. t \notin Awake /\ Awake' = Awake \cup {t}
        BY <1>1, <2>1, <4>1 DEF Awake, AtLook, AsleepAtWait
      <4>3. Cardinality(Awake') = Cardinality(Awake) + 1
        BY <1>1, <4>2, FS_AddElement
      <4>4. cjob[c] \in Job
        BY <2>2 DEF InsertJob, AtFullBuffer, IInv, LocalsSet
      <4>5. Len(queue') = Len(queue) + 1 /\ exitServer' = exitServer
        BY <1>1, <2>2, <4>4, AppendProperties DEF InsertJob, Push
      <4>6. ~exitServer' /\ nonempty' # {} => Len(queue') <= Cardinality(Awake')
        BY <1>1, <1>2, <3>2, <4>3, <4>5
      <4> QED
        BY <4>6 DEF NonemptyWakeup, Awake, AtLook
    <3> QED
      BY <3>1, <3>2
  <2>3. CASE StopQueued(c)
    <3> DEFINE pos == QueuePosition(queue, command[c].arg)
    <3>1. /\ nonempty' = nonempty /\ exitServer' = exitServer
          /\ pos # -1 /\ queue' = Erase(queue, pos)
      BY <2>3 DEF StopQueued, waits
    <3>2. pos \in 1 .. Len(queue)
      BY <1>1, <3>1, PositionInQueue
    <3>3. Len(queue') \in Nat /\ Len(queue) = Len(queue') + 1
      BY <1>1, <3>1, <3>2, EraseShortens
    <3>4. Awake \subseteq Awake'
      BY <2>1, <3>1 DEF Awake
    <3> QED
      BY <1>3, <3>1, <3>3, <3>4, StillCovered
  <2>4. CASE WakeNonempty(c)
    BY <1>5, <2>4 DEF WakeNonempty, Broadcast
  <2>5. CASE SetExit(c)
    BY <1>5, <2>5 DEF SetExit
  <2>6. CASE UNCHANGED <<nonempty, queue, exitServer>>
    BY <1>4, <2>1, <2>6 DEF Awake
  <2>7. ControllerStep(c) =>
            \/ InsertJob(c) \/ StopQueued(c) \/ WakeNonempty(c) \/ SetExit(c)
            \/ UNCHANGED <<nonempty, queue, exitServer>>
    BY DEF ControllerStep, Answer, shared, waits, CountController, Malformed,
       NewJob, FindFull, SleepForRoom, GiveUpInsert, Refuse, ReportSubmitted,
       SetConcurrency, StopClose, StopNotFound, Reply, Poll, WakeRunning,
       WakeNonfull, ExitReply, KillMain, Detach
  <2> QED
    BY <1>8, <2>2, <2>3, <2>4, <2>5, <2>6, <2>7
<1>9. CASE MainStep /\ DrainPop
  <2>1. /\ UNCHANGED <<nonempty, exitServer, wpc>>
        /\ queue' = Tail(queue) /\ queue # <<>>
    BY <1>9, EmptySeq DEF DrainPop, Pop, Empty, waits, workers
  <2>2. Len(queue') \in Nat /\ Len(queue) = Len(queue') + 1
    BY <1>1, <2>1, HeadTailProperties
  <2> QED
    BY <1>3, <2>1, <2>2, StillCovered DEF Awake
<1>10. CASE \/ MainStep /\ ~DrainPop
            \/ \E c \in Clients, cmd \in Commands, fd \in FDs : Accept(c, cmd, fd)
            \/ \E t \in Threads : SpuriousWakeup(t)
            \/ UNCHANGED vars
  <2>1. /\ nonempty' \subseteq nonempty
        /\ UNCHANGED <<wpc, queue, exitServer>>
    BY <1>10 DEF MainStep, EnterAccept, JoinWorkers, SpinOnControllers,
       QueueSize, DrainTop, DrainTell, DrainClose, DrainEmptyQueue,
       ReturnFromMain, Accept, SpuriousWakeup, workers, waits, shared, vars
  <2> QED
    BY <1>4, <2>1 DEF Awake
<1> QED
  BY <1>7, <1>8, <1>9, <1>10 DEF Next

-----------------------------------------------------------------------------
(* Room in the buffer                                                        *)

LEMMA RoomSeenNext ==
    ASSUME IInv, StillSo, RoomSeen, [Next]_vars
    PROVE  RoomSeen'
<1> USE DEF RoomSeen, AfterFlag
<1>1. /\ cpc \in [Clients -> ControllerPCs] /\ nonfull \subseteq Clients
      /\ Workers \cap Clients = {} /\ NoThread \notin Workers \cup Clients
      /\ command \in [Clients -> Commands \cup {NoCommand}]
  BY ThreadsAssumption DEF IInv, TypeOK
<1>2. mtxQueue = NoThread => \A c \in Clients : cpc[c] # "full"
  BY <1>1 DEF StillSo
<1>3. CASE /\ UNCHANGED <<cpc, command, exitServer>>
           /\ nonfull' \subseteq nonfull
           /\ queue' = queue \/ exitServer \/ mtxQueue = NoThread
           /\ mpc' \in {"join"} \cup LeavingPCs => exitServer
  <2>1. queue' = queue => (Full => Full')
    BY DEF Full
  <2> QED
    BY <1>2, <1>3, <2>1
<1>4. ASSUME NEW w \in Workers, WorkerStep(w) \/ ChildExit(w)
      PROVE  RoomSeen'
  <2>1. UNCHANGED <<cpc, command, exitServer, mpc>>
    BY <1>4 DEF WorkerStep, WorkerTop, CheckSlot, SleepForSlot, LeaveSlotWait,
       ReserveSlot, TakeJob, FindEmpty, SleepForJob, LeaveTakeWait, SendOutput,
       CloseClient, ReleaseSlot, ChildExit, controllers, shared, main
  <2>2. CASE TakeJob(w)
    <3>1. nonfull' \subseteq nonfull /\ mtxQueue = NoThread
      BY <2>2, SignalLeaves DEF TakeJob
    <3> QED
      BY <1>3, <2>1, <3>1
  <2>3. CASE ~TakeJob(w)
    <3>1. UNCHANGED <<nonfull, queue>>
      BY <1>4, <2>3 DEF WorkerStep, WorkerTop, CheckSlot, SleepForSlot,
         LeaveSlotWait, ReserveSlot, FindEmpty, SleepForJob, LeaveTakeWait,
         SendOutput, CloseClient, ReleaseSlot, ChildExit, shared, waits
    <3> QED
      BY <1>3, <2>1, <3>1
  <2> QED
    BY <2>2, <2>3
<1>5. ASSUME NEW c \in Clients, ControllerStep(c)
      PROVE  RoomSeen'
  <2>1. CASE /\ UNCHANGED <<queue, nonfull, exitServer, mpc, command>>
             /\ c \notin nonfull
             /\ cpc' = cpc \/ \E to \in ControllerPCs \ ({"full", "away"} \cup AfterFlag) :
                                    GoC(c, to)
    BY <1>1, <2>1 DEF GoC, Full
  <2>2. CASE CountController(c)
    <3>1. command[c].op \in Ops
      <4>1. command[c] \in Commands
        BY <2>2 DEF CountController, IInv, LocalsSet
      <4> QED
        BY <4>1, CommandsAssumption
    <3>2. command[c].op \in ControllerPCs \ ({"full", "away"} \cup AfterFlag)
      BY <3>1 DEF Ops, ControllerPCs
    <3> QED
      BY <2>1, <2>2, <3>2 DEF CountController, waits, main
  <2>3. CASE InsertJob(c)
    BY <1>1, <1>2, <2>3 DEF InsertJob, AtFullBuffer, GoC, main
  <2>4. CASE FindFull(c)
    BY <1>1, <2>4 DEF FindFull, AtFullBuffer, GoC, main, waits, shared, Full
  <2>5. CASE SleepForRoom(c)
    BY <1>1, <2>5 DEF SleepForRoom, GoC, main, shared, Full
  <2>6. CASE StopQueued(c)
    BY <1>1, <1>2, <2>6 DEF StopQueued, GoC, main, waits
  <2>7. CASE SetExit(c)
    BY <1>1, <2>7 DEF SetExit, GoC, main, waits
  <2>8. CASE WakeRunning(c) \/ WakeNonempty(c) \/ WakeNonfull(c) \/ ExitReply(c)
             \/ KillMain(c)
    <3>1. /\ UNCHANGED <<queue, exitServer, command>>
          /\ nonfull' \subseteq nonfull /\ c \notin nonfull
          /\ mpc' = mpc \/ exitServer
          /\ exitServer /\ \E to \in {"detach"} \cup AfterFlag : GoC(c, to)
      BY <2>8 DEF WakeRunning, WakeNonempty, WakeNonfull, ExitReply, KillMain,
         Answer, Broadcast, shared, waits, main
    <3> QED
      BY <1>1, <3>1 DEF GoC
  <2>9. ControllerStep(c) =>
            \/ CountController(c) \/ InsertJob(c) \/ FindFull(c)
            \/ SleepForRoom(c) \/ StopQueued(c) \/ SetExit(c) \/ WakeRunning(c)
            \/ WakeNonempty(c) \/ WakeNonfull(c) \/ ExitReply(c) \/ KillMain(c)
            \/ /\ UNCHANGED <<queue, nonfull, exitServer, mpc, command>>
               /\ c \notin nonfull
               /\ cpc' = cpc \/ \E to \in ControllerPCs \ ({"full", "away"} \cup AfterFlag) :
                                    GoC(c, to)
    BY DEF ControllerStep, Answer, shared, waits, controllers, main,
       ControllerPCs, AtFullBuffer, Malformed, NewJob, GiveUpInsert, Refuse,
       ReportSubmitted, SetConcurrency, StopClose, StopNotFound, Reply, Poll,
       Detach
  <2> QED
    BY <1>5, <2>1, <2>2, <2>3, <2>4, <2>5, <2>6, <2>7, <2>8, <2>9
<1>6. ASSUME NEW c \in Clients, NEW cmd, NEW fd, Accept(c, cmd, fd)
      PROVE  RoomSeen'
  <2>1. /\ UNCHANGED <<queue, nonfull, exitServer>> /\ mpc' = "loop"
        /\ cpc[c] = "away" /\ cpc' = [cpc EXCEPT ![c] = "new"]
        /\ command' = [command EXCEPT ![c] = cmd]
    BY <1>6 DEF Accept, GoC, shared, waits
  <2> QED
    BY <1>1, <2>1 DEF Full, LeavingPCs
<1>7. CASE MainStep
  <2>1. /\ UNCHANGED <<cpc, command, exitServer, nonfull>>
        /\ queue' = queue \/ mpc = "pop"
        /\ mpc' = "accept" \/ mpc \in {"join"} \cup LeavingPCs
    BY <1>7 DEF MainStep, EnterAccept, JoinWorkers, SpinOnControllers,
       QueueSize, DrainTop, DrainPop, DrainTell, DrainClose, DrainEmptyQueue,
       ReturnFromMain, shared, controllers, waits, LeavingPCs
  <2> QED
    BY <1>3, <2>1 DEF LeavingPCs
<1>8. CASE (\E t \in Threads : SpuriousWakeup(t)) \/ UNCHANGED vars
  <2>1. /\ UNCHANGED <<cpc, command, exitServer, queue, mpc>>
        /\ nonfull' \subseteq nonfull
    BY <1>8 DEF SpuriousWakeup, shared, controllers, waits, main, vars
  <2> QED
    BY <1>3, <2>1
<1> QED
  BY <1>4, <1>5, <1>6, <1>7, <1>8 DEF Next

(* The controllers that were woken up for room and have not looked yet.      *)
Roused == {c \in Clients \ nonfull : cpc[c] = "insertwait"}

NobodyStops == \A c \in Clients : command[c].op # "stop"

FreePlaces == BufferSize - Len(queue)

LEMMA RoomBasics ==
    ASSUME IInv
    PROVE  /\ cpc \in [Clients -> ControllerPCs] /\ nonfull \subseteq Clients
           /\ queue \in Seq(Job) /\ Len(queue) \in Nat /\ FreePlaces \in Nat
           /\ IsFiniteSet(Roused) /\ Cardinality(Roused) \in Nat
<1>1. queue \in Seq(Job) /\ Len(queue) \in Nat
  BY LenProperties DEF IInv, TypeOK
<1>2. FreePlaces \in Nat
  BY <1>1, BufferAssumption DEF IInv, BufferRespected, FreePlaces
<1>3. IsFiniteSet(Roused) /\ Cardinality(Roused) \in Nat
  <2>1. Roused \subseteq Clients
    BY DEF Roused
  <2> QED
    BY <2>1, ClientsAssumption, FS_Subset, FS_CardinalityType
<1> QED
  BY <1>1, <1>2, <1>3 DEF IInv, TypeOK

(* As long as no place is freed and nobody who was woken up falls asleep or  *)
(* leaves the buffer, there is a controller for every place.                 *)
LEMMA StillRoused ==
    ASSUME IInv, IInv', NonfullWakeup, nonfull' \subseteq nonfull,
           Roused \subseteq Roused', queue' = queue,
           exitServer' = exitServer \/ exitServer', NobodyStops' => NobodyStops
    PROVE  NonfullWakeup'
<1>1. IsFiniteSet(Roused') /\ Cardinality(Roused') \in Nat
  <2>1. Roused' \subseteq Clients
    BY DEF Roused
  <2> QED
    BY <2>1, ClientsAssumption, FS_Subset, FS_CardinalityType
<1>2. Cardinality(Roused) <= Cardinality(Roused')
  BY <1>1, FS_Subset
<1>3. ~exitServer /\ nonfull # {} /\ NobodyStops => FreePlaces <= Cardinality(Roused)
  BY DEF NonfullWakeup, Roused, NobodyStops, FreePlaces
<1>4. FreePlaces' = FreePlaces /\ FreePlaces \in Nat /\ Cardinality(Roused) \in Nat
  BY RoomBasics DEF FreePlaces
<1>5. ~exitServer' /\ nonfull' # {} /\ NobodyStops' => FreePlaces' <= Cardinality(Roused')
  BY <1>1, <1>2, <1>3, <1>4
<1> QED
  BY <1>5 DEF NonfullWakeup, Roused, NobodyStops, FreePlaces

LEMMA NonfullWakeupNext ==
    ASSUME IInv, IInv', RoomSeen, NonfullWakeup, [Next]_vars
    PROVE  NonfullWakeup'
<1>1. /\ cpc \in [Clients -> ControllerPCs] /\ nonfull \subseteq Clients
      /\ queue \in Seq(Job) /\ Len(queue) \in Nat /\ FreePlaces \in Nat
      /\ IsFiniteSet(Roused) /\ Cardinality(Roused) \in Nat
  BY RoomBasics
<1>2. ~exitServer /\ nonfull # {} /\ NobodyStops => FreePlaces <= Cardinality(Roused)
  BY DEF NonfullWakeup, Roused, NobodyStops, FreePlaces
<1>3. Cardinality(Roused') \in Nat
  <2>1. Roused' \subseteq Clients
    BY DEF Roused
  <2> QED
    BY <2>1, ClientsAssumption, FS_Subset, FS_CardinalityType
<1>4. CASE /\ nonfull' \subseteq nonfull /\ Roused \subseteq Roused' /\ queue' = queue
           /\ (exitServer' = exitServer \/ exitServer')
           /\ NobodyStops' => NobodyStops
  BY <1>4, StillRoused
<1>5. CASE nonfull' = {} \/ exitServer' \/ ~NobodyStops'
  BY <1>5 DEF NonfullWakeup, NobodyStops
<1>6. CASE Full /\ queue' = queue
  <2>1. FreePlaces' = 0
    BY <1>6, BufferAssumption DEF Full, FreePlaces
  <2>2. FreePlaces' <= Cardinality(Roused')
    BY <1>3, <2>1
  <2> QED
    BY <2>2 DEF NonfullWakeup, Roused, FreePlaces
<1>7. ASSUME NEW w \in Workers, WorkerStep(w) \/ ChildExit(w)
      PROVE  NonfullWakeup'
  <2>1. UNCHANGED <<cpc, command, exitServer>>
    BY <1>7 DEF WorkerStep, WorkerTop, CheckSlot, SleepForSlot, LeaveSlotWait,
       ReserveSlot, TakeJob, FindEmpty, SleepForJob, LeaveTakeWait, SendOutput,
       CloseClient, ReleaseSlot, ChildExit, controllers, shared
  <2>2. CASE TakeJob(w)
    <3>1. CASE nonfull = {}
      BY <1>5, <2>2, <3>1, SignalLeaves DEF TakeJob
    <3>2. CASE nonfull # {}
      <4>1. PICK c \in nonfull : nonfull' = nonfull \ {c}
        BY <2>2, <3>2, SignalLeaves DEF TakeJob
      <4>2. c \notin Roused /\ Roused' = Roused \cup {c}
        BY <1>1, <2>1, <4>1 DEF Roused, RoomSeen
      <4>3. Cardinality(Roused') = Cardinality(Roused) + 1
        BY <1>1, <4>2, FS_AddElement
      <4>4. queue' = Tail(queue) /\ queue # <<>>
        BY <2>2, EmptySeq DEF TakeJob, Pop, Empty
      <4>5. Len(queue') = Len(queue) - 1
        BY <1>1, <4>4, HeadTailProperties
      <4>6. FreePlaces' = FreePlaces + 1
        BY <1>1, <4>5, BufferAssumption DEF FreePlaces
      <4>7. NobodyStops' => NobodyStops
        BY <2>1 DEF NobodyStops
      <4>8. ~exitServer' /\ nonfull' # {} /\ NobodyStops' =>
                FreePlaces' <= Cardinality(Roused')
        BY <1>1, <1>2, <2>1, <3>2, <4>3, <4>6, <4>7
      <4> QED
        BY <4>8 DEF NonfullWakeup, Roused, NobodyStops, FreePlaces
    <3> QED
      BY <3>1, <3>2
  <2>3. CASE ~TakeJob(w)
    <3>1. UNCHANGED <<nonfull, queue>>
      BY <1>7, <2>3 DEF WorkerStep, WorkerTop, CheckSlot, SleepForSlot,
         LeaveSlotWait, ReserveSlot, FindEmpty, SleepForJob, LeaveTakeWait,
         SendOutput, CloseClient, ReleaseSlot, ChildExit, shared, waits
    <3> QED
      BY <1>4, <2>1, <3>1 DEF Roused, NobodyStops
  <2> QED
    BY <2>2, <2>3
<1>8. ASSUME NEW c \in Clients, ControllerStep(c)
      PROVE  NonfullWakeup'
  <2>1. CASE InsertJob(c)
    <3>1. UNCHANGED <<nonfull, exitServer, command>>
      BY <2>1 DEF InsertJob
    <3>2. cjob[c] \in Job
      BY <2>1 DEF InsertJob, AtFullBuffer, IInv, LocalsSet
    <3>3. Len(queue') = Len(queue) + 1
      BY <1>1, <2>1, <3>2, AppendProperties DEF InsertJob, Push
    <3>4. FreePlaces' = FreePlaces - 1
      BY <1>1, <3>3, BufferAssumption DEF FreePlaces
    <3>5. Roused' = Roused \ {c}
      BY <1>1, <2>1, <3>1 DEF InsertJob, GoC, Roused
    <3>6. Cardinality(Roused') >= Cardinality(Roused) - 1
      <4>1. CASE c \in Roused
        <5>1. Cardinality(Roused \ {c}) = Cardinality(Roused) - 1
          BY <1>1, <4>1, FS_RemoveElement
        <5> QED
          BY <1>1, <3>5, <5>1
      <4>2. CASE c \notin Roused
        <5>1. Roused' = Roused
          BY <3>5, <4>2
        <5> QED
          BY <1>1, <5>1
      <4> QED
        BY <4>1, <4>2
    <3>7. NobodyStops' => NobodyStops
      BY <3>1 DEF NobodyStops
    <3>8. ~exitServer' /\ nonfull' # {} /\ NobodyStops' =>
              FreePlaces' <= Cardinality(Roused')
      BY <1>1, <1>2, <1>3, <3>1, <3>4, <3>6, <3>7
    <3> QED
      BY <3>8 DEF NonfullWakeup, Roused, NobodyStops, FreePlaces
  <2>2. CASE FindFull(c)
    BY <1>6, <2>2 DEF FindFull, shared
  <2>3. CASE SleepForRoom(c)
    <3>1. exitServer' \/ Full
      BY <2>3 DEF SleepForRoom, RoomSeen, shared
    <3> QED
      BY <1>5, <1>6, <2>3, <3>1 DEF SleepForRoom, shared
  <2>4. CASE GiveUpInsert(c)
    BY <1>5, <2>4 DEF GiveUpInsert, shared
  <2>5. CASE StopQueued(c)
    <3>1. command[c].op = "stop" /\ command' = command
      BY <2>5 DEF StopQueued, IInv, LocalsSet, Ops
    <3> QED
      BY <1>5, <3>1 DEF NobodyStops
  <2>6. CASE SetExit(c)
    BY <1>5, <2>6 DEF SetExit
  <2>7. CASE WakeNonfull(c)
    BY <1>5, <2>7 DEF WakeNonfull, Broadcast
  <2>8. CASE /\ UNCHANGED <<queue, nonfull, exitServer, command>>
             /\ cpc[c] # "insertwait" /\ (cpc' = cpc \/ \E to : GoC(c, to))
    <3>1. Roused \subseteq Roused'
      BY <1>1, <2>8 DEF Roused, GoC
    <3> QED
      BY <1>4, <2>8, <3>1 DEF NobodyStops
  <2>9. ControllerStep(c) =>
            \/ InsertJob(c) \/ FindFull(c) \/ SleepForRoom(c) \/ GiveUpInsert(c)
            \/ StopQueued(c) \/ SetExit(c) \/ WakeNonfull(c)
            \/ /\ UNCHANGED <<queue, nonfull, exitServer, command>>
               /\ cpc[c] # "insertwait" /\ (cpc' = cpc \/ \E to : GoC(c, to))
    BY DEF ControllerStep, Answer, shared, waits, controllers,
       CountController, Malformed, NewJob, Refuse, ReportSubmitted,
       SetConcurrency, StopClose, StopNotFound, Reply, Poll, WakeRunning,
       WakeNonempty, ExitReply, KillMain, Detach
  <2> QED
    BY <1>8, <2>1, <2>2, <2>3, <2>4, <2>5, <2>6, <2>7, <2>8, <2>9
<1>9. CASE DrainPop
  BY <1>5, <1>9 DEF DrainPop, RoomSeen, LeavingPCs
<1>10. ASSUME NEW c \in Clients, NEW cmd, NEW fd, Accept(c, cmd, fd)
       PROVE  NonfullWakeup'
  <2>1. /\ UNCHANGED <<queue, nonfull, exitServer>>
        /\ cpc[c] = "away" /\ cpc' = [cpc EXCEPT ![c] = "new"]
        /\ command' = [command EXCEPT ![c] = cmd]
    BY <1>10 DEF Accept, GoC, shared, waits
  <2>2. Roused \subseteq Roused'
    BY <1>1, <2>1 DEF Roused
  <2>3. /\ command[c].op # "stop"
        /\ \A d \in Clients \ {c} : command'[d] = command[d]
    BY <2>1 DEF RoomSeen, NoCommand, IInv, TypeOK
  <2>4. NobodyStops' => NobodyStops
    BY <2>3 DEF NobodyStops
  <2> QED
    BY <1>4, <2>1, <2>2, <2>4
<1>11. CASE \/ MainStep /\ ~DrainPop
            \/ \E t \in Threads : SpuriousWakeup(t)
            \/ UNCHANGED vars
  <2>1. /\ nonfull' \subseteq nonfull
        /\ UNCHANGED <<cpc, command, queue, exitServer>>
    BY <1>11 DEF MainStep, EnterAccept, JoinWorkers, SpinOnControllers,
       QueueSize, DrainTop, DrainTell, DrainClose, DrainEmptyQueue,
       ReturnFromMain, SpuriousWakeup, controllers, waits, shared, vars
  <2> QED
    BY <1>4, <2>1 DEF Roused, NobodyStops
<1> QED
  BY <1>7, <1>8, <1>9, <1>10, <1>11 DEF Next

-----------------------------------------------------------------------------
(* The theorems                                                              *)

(* The invariant of every state that the server can be in.                   *)
LEMMA WakeInvariant == Spec => [](IInv /\ WakeInv)
<1>1. Init => WakeInv
  BY DEF Init, WakeInv, AsleepAtWait, StillSo, RoomSeen, AfterFlag, LeavingPCs,
     NonemptyWakeup, SlotWakeup, NonfullWakeup
<1>2. IInv /\ WakeInv /\ [Next]_vars => WakeInv'
  BY InvNext, AsleepNext, StillSoNext, RoomSeenNext, SlotWakeupNext,
     NonemptyWakeupNext, NonfullWakeupNext DEF WakeInv
<1> QED
  BY <1>1, <1>2, Invariant, PTL DEF Spec

(* No wakeup is lost between producers and consumers: while nobody exits, a  *)
(* worker sleeps on global_Cond_nonempty only if every queued job has a      *)
(* worker of its own that is awake and about to look at the queue.           *)
THEOREM NoJobSleptOver == Spec => []NonemptyWakeup
<1>1. WakeInv => NonemptyWakeup
  BY DEF WakeInv
<1> QED
  BY <1>1, WakeInvariant, PTL

(* Nor is one lost the other way: while nobody exits and nobody has sent a   *)
(* stop, a controller sleeps on global_Cond_nonfull only if every free place *)
(* of the buffer has a controller of its own that was woken up for it.       *)
THEOREM NoRoomSleptOver == Spec => []NonfullWakeup
<1>1. WakeInv => NonfullWakeup
  BY DEF WakeInv
<1> QED
  BY <1>1, WakeInvariant, PTL

(* No wakeup is lost between workers and slots: while nobody exits, workers  *)
(* that wait for a slot are never all asleep with every slot free.           *)
THEOREM NoSlotSleptOver == Spec => []SlotWakeup
<1>1. WakeInv => SlotWakeup
  BY DEF WakeInv
<1> QED
  BY <1>1, WakeInvariant, PTL
=============================================================================
