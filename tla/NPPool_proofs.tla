---------------------------- MODULE NPPool_proofs ----------------------------
(* The named-pipes server implements JobPool, for any number of commanders   *)
(* and any menu of commands: every step of the main thread, of the handler,  *)
(* of a child or of a commander is a step of the pool or leaves the pool as  *)
(* it is.                                                                    *)
EXTENDS NPServer_proofs

(* What the refinement mapping of NPServer puts in the place of `ended'.     *)
Ended == removed \cup {job \in Job : proc[job.id] = "reaped"}

Living == {"alive", "killed", "zombie"}

(* No job is more or less in service or over than before.                    *)
SameStages == \A j \in JobIds : /\ proc'[j] \in Living <=> proc[j] \in Living
                                /\ proc'[j] = "reaped" <=> proc[j] = "reaped"

(* The job between the queue and its process.                                *)
SameStart == \/ pc \notin Starting /\ pc' \notin Starting
             \/ pc \in Starting /\ pc' \in Starting /\ target' = target

LEMMA PoolStays ==
    ASSUME UNCHANGED <<queue, removed, peak>>, SameStages, SameStart
    PROVE  UNCHANGED <<queue, InService, Ended, peak>>
<1>1. Children' = Children
  BY DEF Children, SameStages, Living
<1>2. InService' = InService
  BY <1>1 DEF InService, SameStart, Starting
<1>3. \A job \in Job : proc'[job.id] = "reaped" <=> proc[job.id] = "reaped"
  BY DEF SameStages, Job
<1>4. Ended' = Ended
  BY <1>3 DEF Ended
<1> QED
  BY <1>2, <1>4

(* The same of a step that changes the queue or the limit.                   *)
LEMMA PoolStaysAside ==
    ASSUME UNCHANGED <<removed, proc>>, SameStart
    PROVE  UNCHANGED <<InService, Ended>>
<1>1. Children' = Children
  BY DEF Children
<1> QED
  BY <1>1 DEF InService, Ended, SameStart, Starting

(* A job is identified by its number.                                        *)
LEMMA ServiceCounted ==
    LET named == {[id |-> j] : j \in Children}
    IN  Cardinality(named) \in Nat /\ Cardinality(named) <= Cardinality(Children)
<1> DEFINE named == {[id |-> j] : j \in Children}
           f == [j \in Children |-> [id |-> j]]
<1>1. IsFiniteSet(Children) /\ Cardinality(Children) \in Nat
  BY FiniteJobs DEF Children
<1>2. f \in Surjection(Children, named)
  BY DEF Surjection
<1>3. IsFiniteSet(named) /\ Cardinality(named) <= Cardinality(Children)
  BY <1>1, <1>2, FS_Surjection
<1> QED
  BY <1>3, FS_CardinalityType

-----------------------------------------------------------------------------
(* The steps that the pool sees                                              *)

(* A new job's number was never used: the job is not known to the pool.      *)
LEMMA IssueSubmits ==
    ASSUME IInv, [Next]_vars, MainStep, IssueJob
    PROVE  \E j \in Job : Pool!Submit(j)
<1> DEFINE new == [id |-> jobID']
<1>1. /\ UNCHANGED <<removed, proc, peak>> /\ jobID' = jobID + 1
      /\ queue' = Append(queue, new) /\ pc = "issueJob" /\ pc' = "open"
  BY DEF IssueJob, Go, Push, os, slots
<1>2. jobID' \in JobIds /\ jobID' <= Cardinality(Commanders)
  BY <1>1, NumberedNext, JobFacts
<1>3. new \in Job /\ new.id = jobID'
  BY <1>2 DEF Job
<1>4. proc[jobID'] = "none"
  BY <1>1, <1>2, JobFacts DEF OnePlace
<1>5. UNCHANGED <<InService, Ended, peak>>
  BY <1>1, PoolStaysAside DEF SameStart, Starting
<1>6. new \notin InService
  BY <1>1, <1>4 DEF InService, Children
<1>7. new \notin Ended
  <2>1. new \notin removed
    BY <1>1, <1>3, JobFacts DEF OnePlace
  <2> QED
    BY <1>3, <1>4, <2>1 DEF Ended
<1> HIDE DEF new
<1>8. new \notin ToSet(queue)
  <2>1. \A i \in DOMAIN queue : queue[i] # new
    BY <1>1, <1>3, JobFacts DEF OnePlace
  <2> QED
    BY <2>1 DEF ToSet
<1>9. Len(queue) < Cardinality(Commanders)
  BY <1>1, <1>2, JobFacts DEF Numbered
<1> QED
  BY <1>1, <1>3, <1>5, <1>6, <1>7, <1>8, <1>9
  DEF Pool!Submit, Pool!Known, Pool!ToSet, ToSet, Ended

(* The head of the queue is started while the children, the jobs still to be *)
(* forked and the concurrency leave room for it.                             *)
LEMMA TakeStarts ==
    ASSUME IInv, MainStep, TakeJob
    PROVE  Pool!Start
<1> DEFINE named == {[id |-> j] : j \in Children}
<1>1. /\ UNCHANGED <<removed, proc, peak>> /\ canRun > 0 /\ handler = -1
      /\ target' = Head(queue).id /\ queue' = Tail(queue)
      /\ pc = "launch" /\ pc' = "count"
  BY DEF MainStep, TakeJob, Go, Top, Pop, os, slots
<1>2. /\ canRun + running <= concurrency /\ canRun <= Len(queue)
      /\ concurrency <= peak
  BY <1>1, JobFacts DEF SlotsLeft
<1>3. /\ canRun \in Nat /\ running \in Int /\ concurrency \in Nat /\ peak \in Nat
      /\ Cardinality(Children) \in Nat /\ Len(queue) \in Nat
  BY FiniteJobs, JobFacts DEF Children, TypeOK
<1>4. Cardinality(Children) <= running
  BY <1>1, <1>3 DEF IInv, RunningCovers
<1>5. queue # <<>> /\ [id |-> Head(queue).id] = Head(queue)
  <2>1. Len(queue) >= 1
    BY <1>1, <1>2, <1>3
  <2>2. queue # <<>> /\ 1 \in DOMAIN queue /\ Head(queue) = queue[1]
    BY <2>1, JobFacts, SeqFacts
  <2> QED
    BY <2>2, JobFacts
<1>6. InService = named
  BY <1>1 DEF InService
<1>7. Children' = Children
  BY <1>1 DEF Children
<1>8. InService' = named \cup {Head(queue)}
  BY <1>1, <1>5, <1>7 DEF InService
<1>9. Cardinality(InService) < peak
  BY <1>1, <1>2, <1>3, <1>4, <1>6, ServiceCounted
<1>10. Ended' = Ended
  BY <1>1 DEF Ended
<1>11. Pool!Cardinality(InService) = Cardinality(InService)
  BY DEF Pool!Cardinality, Cardinality
<1> QED
  BY <1>1, <1>5, <1>6, <1>8, <1>9, <1>10, <1>11 DEF Pool!Start, Ended

(* Raising the concurrency above its highest value so far allows more.       *)
LEMMA ConcurrencyAllows ==
    ASSUME IInv, [Next]_vars, MainStep, SetConcurrency
    PROVE  Pool!Allow \/ UNCHANGED <<queue, InService, Ended, peak>>
<1>1. /\ UNCHANGED <<queue, removed, proc>>
      /\ pc = "setConcurrency" /\ pc' = "open"
      /\ peak' = peak \/ peak' > peak
  BY DEF SetConcurrency, Go, jobs, os
<1>2. peak' \in Nat
  BY SlotTypes
<1>3. UNCHANGED <<InService, Ended>>
  BY <1>1, PoolStaysAside DEF SameStart, Starting
<1> QED
  BY <1>1, <1>2, <1>3 DEF Pool!Allow, Ended

(* stop cancels a job that waits.                                            *)
LEMMA StopCancels ==
    ASSUME IInv, MainStep, StopQueued
    PROVE  \E i \in DOMAIN queue : Pool!Cancel(i)
<1> DEFINE pos == QueuePosition(queue, command[cur].arg)
<1>1. /\ UNCHANGED <<proc, peak>> /\ pos # -1
      /\ removed' = removed \cup {queue[pos]} /\ queue' = RemoveAt(queue, pos)
      /\ pc = "stop" /\ pc' = "open"
  BY DEF StopQueued, Go, Erase, os, slots
<1>2. pos \in DOMAIN queue
  BY <1>1, JobFacts, PositionInQueue
<1> HIDE DEF pos
<1>3. Children' = Children
  BY <1>1 DEF Children
<1>4. InService' = InService
  BY <1>1, <1>3 DEF InService
<1>5. Ended' = Ended \cup {queue[pos]}
  BY <1>1 DEF Ended
<1> QED
  BY <1>1, <1>2, <1>4, <1>5 DEF Pool!Cancel, Pool!RemoveAt, RemoveAt, Ended

(* Waiting for a child is the end of its job.                                *)
LEMMA ReapFinishes ==
    ASSUME IInv, NEW j \in JobIds, Reap(j)
    PROVE  \E job \in InService : Pool!Finish(job)
<1> DEFINE job == [id |-> j]
<1>1. /\ UNCHANGED <<queue, removed, peak, pc, target>> /\ proc[j] = "zombie"
      /\ proc' = [proc EXCEPT ![j] = "reaped"]
  BY DEF Reap, jobs, slots, locals
<1>2. proc \in [JobIds -> JobStates]
  BY JobFacts
<1>3. proc'[j] = "reaped" /\ \A i \in JobIds \ {j} : proc'[i] = proc[i]
  BY <1>1, <1>2
<1>4. j \in Children /\ Children' = Children \ {j}
  BY <1>1, <1>3 DEF Children
<1>5. pc \in Starting => target # j
  BY <1>1, JobFacts DEF OnePlace
<1>6. job \in InService /\ InService' = InService \ {job}
  <2>1. \A i \in JobIds : [id |-> i] = [id |-> j] => i = j
    <3> TAKE i \in JobIds
    <3>1. [id |-> i].id = i /\ [id |-> j].id = j
      OBVIOUS
    <3> QED
      BY <3>1
  <2>2. {[id |-> i] : i \in Children'} = {[id |-> i] : i \in Children} \ {job}
    BY <1>4, <2>1 DEF Children
  <2>3. pc \in Starting => [id |-> target] # job
    <3>1. [id |-> target].id = target /\ [id |-> j].id = j
      OBVIOUS
    <3> QED
      BY <1>5, <3>1
  <2> QED
    BY <1>1, <1>4, <2>2, <2>3 DEF InService, Starting
<1>7. Ended' = Ended \cup {job}
  <2>1. job \in Job /\ job.id = j
    BY DEF Job
  <2>2. \A k \in Job : k.id \in JobIds /\ k = [id |-> k.id]
    BY DEF Job
  <2>3. \A k \in Job : proc'[k.id] = "reaped" <=> proc[k.id] = "reaped" \/ k = job
    BY <1>1, <1>3, <2>1, <2>2
  <2> HIDE DEF job
  <2> QED
    BY <1>1, <2>1, <2>3 DEF Ended
<1> QED
  BY <1>1, <1>6, <1>7 DEF Pool!Finish, Ended

-----------------------------------------------------------------------------
(* The steps that the pool does not see                                      *)

LEMMA ForkStarts ==
    ASSUME IInv, MainStep, Fork
    PROVE  UNCHANGED <<queue, InService, Ended, peak>>
<1>1. /\ UNCHANGED <<queue, removed, peak, target>> /\ pc = "fork" /\ pc' = "list"
      /\ proc' = [proc EXCEPT ![target] = "alive"]
  BY DEF Fork, Go, jobs, slots, locals
<1>2. target \in JobIds /\ proc[target] = "none" /\ proc \in [JobIds -> JobStates]
  <2>1. target \in 1 .. jobID /\ proc[target] = "none"
    BY <1>1, JobFacts DEF OnePlace, Starting
  <2> QED
    BY <2>1, JobFacts
<1>3. proc'[target] = "alive" /\ \A i \in JobIds \ {target} : proc'[i] = proc[i]
  BY <1>1, <1>2
<1>4. Children' = Children \cup {target}
  BY <1>2, <1>3 DEF Children
<1>5. InService' = InService
  BY <1>1, <1>4 DEF InService
<1>6. \A k \in Job : proc'[k.id] = "reaped" <=> proc[k.id] = "reaped"
  BY <1>2, <1>3 DEF Job
<1>7. Ended' = Ended
  BY <1>1, <1>6 DEF Ended
<1> QED
  BY <1>1, <1>5, <1>7

LEMMA PoolIdle ==
    ASSUME IInv, [Next]_vars,
           ~(MainStep /\ (IssueJob \/ SetConcurrency \/ StopQueued \/ TakeJob \/ Fork)),
           \A j \in JobIds : ~Reap(j)
    PROVE  UNCHANGED <<queue, InService, Ended, peak>>
<1>1. TypeOK /\ proc \in [JobIds -> JobStates]
  BY JobFacts
<1> DEFINE Quiet == UNCHANGED <<queue, removed, peak, proc>> /\ SameStart
<1>2. Quiet => UNCHANGED <<queue, InService, Ended, peak>>
  BY PoolStaysAside
<1>3. CASE MainStep /\ ~(KillStopped \/ KillVictim \/ ReadCommand)
  <2>1. Quiet
    BY <1>3 DEF MainStep, SameStart, Starting, Go, jobs, slots, os, locals,
       EnterSelect, ReturnFromMain, SelectReturns, Admit, AdmitDone, SweepNext,
       SweepDone, StopNotQueued, ScanOn, ScanFailed, ScanNext, ScanFound,
       ScanAstray, Poll, Exit, Malformed, Reply, ChooseVictim, FinishExit,
       ExecJobs, CountJob, ListJob, ExecDone
  <2> QED
    BY <1>2, <2>1
<1>4. CASE MainStep /\ ReadCommand
  <2>1. Quiet
    BY <1>4, ReadGoes DEF ReadCommand, Ops, SameStart, Starting, jobs, slots, os
  <2> QED
    BY <1>2, <2>1
<1>5. CASE MainStep /\ (KillStopped \/ KillVictim)
  <2>1. UNCHANGED <<queue, removed, peak>> /\ SameStart /\ Kill(target)
    BY <1>5 DEF KillStopped, KillVictim, SameStart, Starting, Go, jobs, slots
  <2>2. SameStages
    BY <1>1, <2>1, KillKeeps DEF SameStages, Living
  <2> QED
    BY <2>1, <2>2, PoolStays
<1>6. CASE HandlerStep
  <2>1. Quiet
    BY <1>6 DEF HandlerStep, EnterHandler, LeaveHandler, SameStart, Starting,
       Go, jobs, slots, locals
  <2> QED
    BY <1>2, <2>1
<1>7. CASE Environment
  <2>1. UNCHANGED <<queue, removed, peak>> /\ SameStart
    BY <1>7 DEF Environment, ChildExit, ChildKilled, ChildEnds, Knock, Send,
       SameStart, jobs, slots, locals
  <2>2. SameStages
    BY <1>1, <1>7 DEF Environment, ChildExit, ChildKilled, ChildEnds, Knock,
       Send, SameStages, Living, os
  <2> QED
    BY <2>1, <2>2, PoolStays
<1>8. CASE UNCHANGED vars
  <2>1. Quiet
    BY <1>8 DEF vars, SameStart, jobs, slots, os, locals
  <2> QED
    BY <1>2, <2>1
<1> QED
  BY <1>3, <1>4, <1>5, <1>6, <1>7, <1>8 DEF Next

-----------------------------------------------------------------------------
(* The server implements the job pool: jobs start in the order of their      *)
(* submission, within the highest concurrency ever set, and each ends once,  *)
(* waited for by the handler or removed by stop.                             *)
THEOREM Implements == Spec => ImplementsPool
<1>1. Init => Pool!PoolInit
  <2> SUFFICES ASSUME Init
               PROVE  Pool!PoolInit
    OBVIOUS
  <2>1. /\ queue = <<>> /\ removed = {} /\ peak = 1 /\ pc = "loop"
        /\ \A j \in JobIds : proc[j] = "none"
    BY DEF Init
  <2>2. InService = {}
    BY <2>1 DEF InService, Children
  <2>3. Ended = {}
    BY <2>1 DEF Ended, Job
  <2> QED
    BY <2>1, <2>2, <2>3 DEF Pool!PoolInit, Ended
<1>2. IInv /\ [Next]_vars => [Pool!PoolNext]_Pool!poolVars
  <2> SUFFICES ASSUME IInv, [Next]_vars
               PROVE  Pool!PoolNext \/ UNCHANGED <<queue, InService, Ended, peak>>
    BY DEF Pool!poolVars, Ended
  <2>1. CASE MainStep /\ IssueJob
    BY <2>1, IssueSubmits DEF Pool!PoolNext
  <2>2. CASE MainStep /\ SetConcurrency
    BY <2>2, ConcurrencyAllows DEF Pool!PoolNext
  <2>3. CASE MainStep /\ StopQueued
    BY <2>3, StopCancels DEF Pool!PoolNext
  <2>4. CASE MainStep /\ TakeJob
    BY <2>4, TakeStarts DEF Pool!PoolNext
  <2>5. CASE MainStep /\ Fork
    BY <2>5, ForkStarts
  <2>6. ASSUME NEW j \in JobIds, Reap(j)
        PROVE  Pool!PoolNext
    BY <2>6, ReapFinishes DEF Pool!PoolNext
  <2> QED
    BY <2>1, <2>2, <2>3, <2>4, <2>5, <2>6, PoolIdle
<1> QED
  BY <1>1, <1>2, Invariant, PTL DEF Spec, ImplementsPool, Pool!PoolSpec
=============================================================================
