--------------------------- MODULE NPServer_proofs ---------------------------
(* Proofs about the named-pipes server, for any number of commanders and any *)
(* menu of commands.                                                         *)
EXTENDS NPServer, JobQueue_proofs

-----------------------------------------------------------------------------
(* The parts of the inductive invariant                                     *)

Handling == Ops \cup {"scan", "entry", "kill", "open"}
Starting == {"count", "fork"}

(* While a command is served, its commander waits for the answer and has no *)
(* entry in active_commanders any more from which it could be read again.   *)
InCommand ==
    /\ pc \in Handling \cup {"read", "killall", "killone"} => cur \in Commanders
    /\ pc \in Ops => command[cur].op = pc
    /\ pc \in {"scan", "entry", "kill"} => command[cur].op = "stop"
    /\ pc = "read" => /\ cpc[cur] = "sent" /\ idx \in DOMAIN active
                      /\ active[idx] = [who |-> cur, open |-> TRUE]
    /\ pc \in Handling => /\ cpc[cur] = "sent"
                          /\ [who |-> cur, open |-> TRUE] \notin ToSet(active)

(* A commander knocks once, is let in once and can be read once.            *)
EachOnce ==
    /\ \A c \in Commanders : cpc[c] = "away" \/ command[c] \in Commands
    /\ \A i \in DOMAIN knocking :
        /\ cpc[knocking[i]] = "knocked"
        /\ \A k \in DOMAIN knocking : knocking[k] = knocking[i] => k = i
    /\ \A i \in DOMAIN active : active[i].open =>
        /\ cpc[active[i].who] \in {"admitted", "sent"}
        /\ \A k \in DOMAIN active : active[k] = active[i] => k = i
    /\ \A c \in ready : cpc[c] \in {"sent", "answered"}

(* Whoever got a job id. *)
Issuers == {c \in Commanders :
                /\ command[c].op = "issueJob"
                /\ cpc[c] = "answered" \/ (pc = "open" /\ cur = c)}

Numbered == jobID = Cardinality(Issuers) /\ Len(queue) <= jobID

(* A job waits, is being started, has a process or was removed, and nothing *)
(* has an id that was not handed out.                                       *)
OnePlace ==
    /\ \A i \in DOMAIN queue :
        /\ queue[i].id <= jobID /\ proc[queue[i].id] = "none"
        /\ queue[i] \notin removed
        /\ pc \in Starting => queue[i].id # target
        /\ \A k \in DOMAIN queue : queue[k] = queue[i] => k = i
    /\ \A job \in removed : job.id <= jobID /\ proc[job.id] = "none"
    /\ \A j \in JobIds : j <= jobID \/ proc[j] = "none"
    /\ pc \in Starting \cup {"list"} => target \in 1 .. jobID
    /\ pc \in Starting => proc[target] = "none" /\ [id |-> target] \notin removed
    /\ pc = "list" => proc[target] # "none" /\ target \notin ToSet(runningJobs)
    /\ \A i \in DOMAIN runningJobs : proc[runningJobs[i]] # "none"

(* The forks that exec_jobs has still to make find a free slot, because the *)
(* counter only falls meanwhile.                                            *)
SlotsLeft ==
    /\ concurrency <= peak
    /\ pc = "launch" => canRun + running <= concurrency /\ canRun <= Len(queue)
    /\ pc = "count" => /\ canRun > 0 /\ canRun + reg <= concurrency
                       /\ canRun - 1 <= Len(queue)
    /\ pc \in {"fork", "list"} => /\ canRun > 0
                                  /\ canRun - 1 + running <= concurrency
                                  /\ canRun - 1 <= Len(queue)

(* handle_exit indexes what is or was an entry. *)
VictimsExist ==
    /\ pc \in {"killall", "killone"} =>
        size <= Len(runningJobs) + Len(leftover)
    /\ pc = "killone" => idx <= size

IInv == /\ TypeOK /\ InCommand /\ EachOnce /\ Numbered /\ OnePlace
        /\ ListedOnce /\ SlotsLeft /\ VictimsExist /\ RunningCovers

-----------------------------------------------------------------------------
(* There are finitely many jobs, hence finitely many children.               *)
LEMMA FiniteJobs ==
    /\ Cardinality(Commanders) \in Nat
    /\ \A S : S \subseteq JobIds => IsFiniteSet(S) /\ Cardinality(S) \in Nat
<1>1. Cardinality(Commanders) \in Nat
  BY CommandersAssumption, FS_CardinalityType
<1>2. IsFiniteSet(JobIds)
  BY <1>1, FS_Interval DEF JobIds
<1> QED
  BY <1>1, <1>2, FS_Subset, FS_CardinalityType

(* The entries that an erasure leaves were there before.                     *)
LEMMA WithoutKeeps ==
    ASSUME NEW S, NEW entries \in Seq(S), NEW places
    PROVE  /\ Without(entries, places) \in Seq(S)
           /\ Inherits(Without(entries, places), entries)
<1> DEFINE kept == DOMAIN entries \ places
           upto(i) == Cardinality({m \in kept : m <= i})
           g == [k \in 1 .. Cardinality(kept) |-> CHOOSE i \in kept : upto(i) = k]
           w == Without(entries, places)
<1>1. Len(entries) \in Nat /\ DOMAIN entries = 1 .. Len(entries)
      /\ \A i \in 1 .. Len(entries) : entries[i] \in S
  BY LenProperties
<1>2. kept \subseteq 1 .. Len(entries)
  BY <1>1
<1>3. Cardinality(kept) \in Nat
  <2>1. IsFiniteSet(1 .. Len(entries))
    BY <1>1, FS_Interval
  <2> QED
    BY <1>2, <2>1, FS_Subset, FS_CardinalityType
<1>4. \A k \in 1 .. Cardinality(kept) : \E i \in kept : upto(i) = k
  <2> TAKE k \in 1 .. Cardinality(kept)
  <2> HIDE DEF kept
  <2> QED
    BY <1>1, <1>2, KthMember
<1> HIDE DEF upto, kept
<1>5. \A k \in 1 .. Cardinality(kept) : g[k] \in kept /\ upto(g[k]) = k
  BY <1>4
<1>6. w = [k \in 1 .. Cardinality(kept) |-> entries[g[k]]]
  BY DEF Without, kept, upto
<1> HIDE DEF g, w
<1>7. DOMAIN g = 1 .. Cardinality(kept)
  BY DEF g
<1>8. w \in [1 .. Cardinality(kept) -> S]
  BY <1>1, <1>2, <1>5, <1>6
<1>9. w \in Seq(S)
  BY <1>3, <1>8, SeqDef
<1>10. g \in [DOMAIN w -> DOMAIN entries]
  BY <1>1, <1>2, <1>5, <1>6 DEF g
<1>11. \A k \in DOMAIN g : w[k] = entries[g[k]]
  BY <1>6, <1>7
<1>12. \A k, m \in DOMAIN g : g[k] = g[m] => k = m
  BY <1>5, <1>7
<1> QED
  BY <1>9, <1>10, <1>11, <1>12 DEF w, Inherits

-----------------------------------------------------------------------------
(* global_Running covers the children                                        *)

(* A fork adds one child, a wait takes one away.                             *)
LEMMA ChildrenMove ==
    ASSUME TypeOK, NEW j \in JobIds, NEW state,
           proc' = [proc EXCEPT ![j] = state]
    PROVE  /\ Cardinality(Children) \in Nat /\ Cardinality(Children') \in Nat
           /\ proc[j] = "none" /\ state = "alive" =>
                Cardinality(Children') = Cardinality(Children) + 1
           /\ proc[j] = "zombie" /\ state = "reaped" =>
                Cardinality(Children') = Cardinality(Children) - 1
<1>1. proc'[j] = state /\ \A i \in JobIds \ {j} : proc'[i] = proc[i]
  BY DEF TypeOK
<1>2. Children' = Children \cup {j} \/ Children' = Children \ {j}
  BY <1>1 DEF Children
<1>3. IsFiniteSet(Children)
  BY FiniteJobs DEF Children
<1>4. /\ Cardinality(Children) \in Nat /\ Cardinality(Children') \in Nat
      /\ Cardinality(Children') = Cardinality(Children)
            + (IF j \in Children' THEN 1 ELSE 0) - (IF j \in Children THEN 1 ELSE 0)
  BY <1>2, <1>3, CountMoves
<1>5. /\ proc[j] = "none" /\ state = "alive" => j \in Children' /\ j \notin Children
      /\ proc[j] = "zombie" /\ state = "reaped" => j \notin Children' /\ j \in Children
  BY <1>1 DEF Children
<1> QED
  BY <1>4, <1>5

(* kill turns a living child into a killed one and changes nothing else.     *)
LEMMA KillKeeps ==
    ASSUME TypeOK, NEW j, Kill(j)
    PROVE  /\ server' \in {server, "failed"}
           /\ proc' \in [JobIds -> {"none", "alive", "killed", "zombie", "reaped"}]
           /\ \A i \in JobIds : \/ proc'[i] = proc[i]
                                \/ proc[i] = "alive" /\ proc'[i] = "killed"
BY DEF Kill, TypeOK

(* What is read is one of the commands.                                      *)
LEMMA ReadGoes ==
    ASSUME IInv, ReadCommand
    PROVE  /\ cur \in Commanders /\ cpc[cur] = "sent" /\ command[cur] \in Commands
           /\ pc' = command[cur].op /\ pc' \in Ops
<1>1. cur \in Commanders /\ cpc[cur] = "sent"
  BY DEF IInv, InCommand, ReadCommand
<1>2. command[cur] \in Commands
  BY <1>1 DEF IInv, EachOnce
<1> QED
  BY <1>1, <1>2, CommandsAssumption DEF ReadCommand, Go

LEMMA CoversNext ==
    ASSUME IInv, [Next]_vars
    PROVE  RunningCovers'
<1>1. /\ RunningCovers /\ TypeOK
      /\ proc \in [JobIds -> {"none", "alive", "killed", "zombie", "reaped"}]
      /\ running \in Int /\ reg \in Int /\ handler \in Nat \cup {-1}
      /\ target \in JobIds \cup {0}
      /\ pc = "fork" => target \in JobIds /\ proc[target] = "none"
      /\ Cardinality(Children) \in Nat
  <2>1. pc = "fork" => target \in JobIds
    BY FiniteJobs DEF IInv, TypeOK, OnePlace, Starting, JobIds
  <2> QED
    BY <2>1, FiniteJobs DEF IInv, TypeOK, OnePlace, Starting, Children
<1>2. CASE MainStep /\ UNCHANGED <<running, handler, proc>>
           /\ pc' \notin {"count", "fork"}
  BY <1>1, <1>2 DEF RunningCovers, Children
<1>3. CASE MainStep /\ (KillStopped \/ KillVictim)
  <2>1. UNCHANGED <<running, handler>> /\ pc' \notin {"count", "fork"}
    BY <1>3 DEF KillStopped, KillVictim, Go, os
  <2>2. Children' = Children
    BY <1>3, KillKeeps DEF IInv, KillStopped, KillVictim, Children
  <2> QED
    BY <1>1, <2>1, <2>2 DEF RunningCovers
<1>4. CASE MainStep /\ TakeJob
  <2>1. UNCHANGED <<running, handler, proc>> /\ pc' = "count" /\ reg' = running
    BY <1>4 DEF TakeJob, Go, os
  <2>2. Children' = Children
    BY <2>1 DEF Children
  <2> QED
    BY <1>1, <2>1, <2>2 DEF RunningCovers
<1>5. CASE MainStep /\ CountJob
  <2>1. /\ UNCHANGED <<handler, proc>> /\ handler = -1
        /\ pc = "count" /\ pc' = "fork" /\ running' = reg + 1
    BY <1>5 DEF MainStep, CountJob, Go, os
  <2>2. Children' = Children
    BY <2>1 DEF Children
  <2> QED
    BY <1>1, <2>1, <2>2 DEF RunningCovers
<1>6. CASE MainStep /\ Fork
  <2>1. /\ UNCHANGED <<running, handler>> /\ handler = -1
        /\ pc = "fork" /\ pc' = "list"
        /\ proc' = [proc EXCEPT ![target] = "alive"]
    BY <1>6 DEF MainStep, Fork, Go, os
  <2>2. Cardinality(Children') = Cardinality(Children) + 1
    BY <1>1, <2>1, ChildrenMove
  <2> QED
    BY <1>1, <2>1, <2>2 DEF RunningCovers
<1>7. CASE HandlerStep
  <2>1. CASE EnterHandler
    <3>1. /\ UNCHANGED <<running, reg, proc, pc>> /\ handler = -1 /\ handler' = 0
      BY <2>1 DEF EnterHandler, locals
    <3>2. Children' = Children
      BY <3>1 DEF Children
    <3> QED
      BY <1>1, <3>1, <3>2 DEF RunningCovers
  <2>2. ASSUME NEW j \in JobIds, Reap(j)
        PROVE  RunningCovers'
    <3>1. /\ UNCHANGED <<running, reg, pc>> /\ handler >= 0 /\ handler' = handler + 1
          /\ proc' = [proc EXCEPT ![j] = "reaped"] /\ proc[j] = "zombie"
      BY <2>2 DEF Reap, locals
    <3>2. Cardinality(Children') = Cardinality(Children) - 1
      BY <1>1, <3>1, ChildrenMove
    <3> QED
      BY <1>1, <3>1, <3>2 DEF RunningCovers
  <2>3. CASE LeaveHandler
    <3>1. /\ UNCHANGED <<reg, proc>> /\ handler >= 0 /\ handler' = -1
          /\ running' = running - handler
          /\ pc' \in {"count", "fork"} => pc' = pc
      BY <2>3 DEF LeaveHandler, Go, locals
    <3>2. Children' = Children
      BY <3>1 DEF Children
    <3> QED
      BY <1>1, <3>1, <3>2 DEF RunningCovers
  <2> QED
    BY <1>7, <2>1, <2>2, <2>3 DEF HandlerStep
<1>8. CASE Environment
  <2>1. UNCHANGED <<running, reg, pc, handler>>
    BY <1>8 DEF Environment, ChildExit, ChildKilled, ChildEnds, Knock, Send,
       locals, os
  <2>2. Children' = Children
    BY <1>1, <1>8 DEF Environment, ChildExit, ChildKilled, ChildEnds, Knock,
       Send, os, Children
  <2> QED
    BY <1>1, <2>1, <2>2 DEF RunningCovers
<1>9. CASE UNCHANGED vars
  BY <1>1, <1>9 DEF RunningCovers, Children, vars, os, locals
<1>10. MainStep => \/ UNCHANGED <<running, handler, proc>> /\ pc' \notin {"count", "fork"}
                   \/ KillStopped \/ KillVictim \/ TakeJob \/ CountJob \/ Fork
  <2>1. ASSUME MainStep, ReadCommand
        PROVE  UNCHANGED <<running, handler, proc>> /\ pc' \notin {"count", "fork"}
    BY <2>1, ReadGoes DEF ReadCommand, os, Ops
  <2>2. ASSUME MainStep, ~ReadCommand
        PROVE  \/ UNCHANGED <<running, handler, proc>> /\ pc' \notin {"count", "fork"}
               \/ KillStopped \/ KillVictim \/ TakeJob \/ CountJob \/ Fork
    BY <2>2 DEF MainStep, Go, os, EnterSelect, ReturnFromMain, SelectReturns,
       Admit, AdmitDone, SweepNext, SweepDone, IssueJob, SetConcurrency,
       StopQueued, StopNotQueued, ScanOn, ScanFailed, ScanNext, ScanFound,
       ScanAstray, Poll, Exit, Malformed, Reply, ChooseVictim, FinishExit,
       ExecJobs, ListJob, ExecDone
  <2> QED
    BY <2>1, <2>2
<1> QED
  BY <1>2, <1>3, <1>4, <1>5, <1>6, <1>7, <1>8, <1>9, <1>10 DEF Next

-----------------------------------------------------------------------------
(* Free slots, victims                                                       *)

LEMMA SlotsNext ==
    ASSUME IInv, [Next]_vars
    PROVE  SlotsLeft'
<1> DEFINE Exec == {"launch", "count", "fork", "list"}
<1>1. /\ SlotsLeft /\ concurrency \in Nat /\ peak \in Nat /\ running \in Int
      /\ reg \in Int /\ canRun \in Nat /\ handler \in Nat \cup {-1}
      /\ queue \in Seq(Job) /\ Len(queue) \in Nat
  BY LenProperties DEF IInv, TypeOK
<1>2. CASE UNCHANGED <<concurrency, peak>> /\ pc' \notin Exec
  BY <1>1, <1>2 DEF SlotsLeft
<1>3. ASSUME UNCHANGED <<concurrency, peak, reg, canRun, queue, pc>>,
             NEW h \in Nat, running' = running - h
      PROVE  SlotsLeft'
  BY <1>1, <1>3 DEF SlotsLeft
<1>4. CASE MainStep /\ SetConcurrency
  <2>1. cur \in Commanders /\ command[cur].arg \in Nat
    BY <1>4, CommandsAssumption DEF SetConcurrency, IInv, InCommand, Handling,
       Ops, TypeOK, NoCommand
  <2>2. concurrency' <= peak' /\ pc' = "open"
    BY <1>1, <1>4, <2>1 DEF SetConcurrency, Go
  <2> QED
    BY <2>2 DEF SlotsLeft
<1>5. CASE MainStep /\ ExecJobs
  BY <1>1, <1>5 DEF ExecJobs, Free, Go, SlotsLeft, slots, jobs
<1>6. CASE MainStep /\ TakeJob
  <2>1. Len(queue) > 0 /\ Len(queue') = Len(queue) - 1
    BY <1>1, <1>6, HeadTailProperties DEF TakeJob, Pop, SlotsLeft
  <2> QED
    BY <1>1, <1>6, <2>1 DEF TakeJob, Go, SlotsLeft, slots
<1>7. CASE MainStep /\ (CountJob \/ Fork \/ ListJob)
  BY <1>1, <1>7 DEF CountJob, Fork, ListJob, Go, SlotsLeft, slots, jobs, locals
<1>8. MainStep => \/ UNCHANGED <<concurrency, peak>> /\ pc' \notin Exec
                  \/ SetConcurrency \/ ExecJobs \/ TakeJob
                  \/ CountJob \/ Fork \/ ListJob
  <2>1. ASSUME MainStep, ReadCommand
        PROVE  UNCHANGED <<concurrency, peak>> /\ pc' \notin Exec
    BY <2>1, ReadGoes DEF ReadCommand, slots, Ops
  <2>2. ASSUME MainStep, ~ReadCommand
        PROVE  \/ UNCHANGED <<concurrency, peak>> /\ pc' \notin Exec
               \/ SetConcurrency \/ ExecJobs \/ TakeJob
               \/ CountJob \/ Fork \/ ListJob
    BY <2>2 DEF MainStep, Go, slots, EnterSelect, ReturnFromMain, SelectReturns,
       Admit, AdmitDone, SweepNext, SweepDone, IssueJob,
       StopQueued, StopNotQueued, ScanOn, ScanFailed, ScanNext, ScanFound,
       ScanAstray, KillStopped, Poll, Exit, Malformed, Reply, ChooseVictim,
       KillVictim, FinishExit, ExecDone
  <2> QED
    BY <2>1, <2>2
<1>9. CASE HandlerStep
  <2>1. CASE LeaveHandler /\ pc = "select"
    BY <1>2, <2>1 DEF LeaveHandler, Go, slots
  <2>2. CASE ~(LeaveHandler /\ pc = "select")
    <3>1. UNCHANGED <<concurrency, peak, reg, canRun, queue, pc>>
      BY <1>9, <2>2 DEF HandlerStep, EnterHandler, Reap, LeaveHandler, Go,
         slots, locals, jobs
    <3>2. PICK h \in Nat : running' = running - h
      <4>1. running' = running - 0 \/ (handler >= 0 /\ running' = running - handler)
        BY <1>1, <1>9 DEF HandlerStep, EnterHandler, Reap, LeaveHandler
      <4> QED
        BY <1>1, <4>1
    <3> QED
      BY <1>3, <3>1, <3>2
  <2> QED
    BY <2>1, <2>2
<1>10. CASE Environment \/ UNCHANGED vars
  <2>1. UNCHANGED <<concurrency, peak, reg, canRun, queue, pc, running>>
    BY <1>10 DEF Environment, ChildExit, ChildKilled, ChildEnds, Knock, Send,
       slots, locals, jobs, vars
  <2>2. running' = running - 0
    BY <1>1, <2>1
  <2> QED
    BY <1>3, <2>1, <2>2
<1> QED
  BY <1>2, <1>4, <1>5, <1>6, <1>7, <1>8, <1>9, <1>10 DEF Next

(* An erased entry goes behind the vector.                                   *)
LEMMA EraseMoves ==
    ASSUME TypeOK, NEW i \in DOMAIN runningJobs, EraseListed(i)
    PROVE  /\ runningJobs' \in Seq(JobIds) /\ leftover' \in Seq(JobIds)
           /\ Len(runningJobs') + Len(leftover') = Len(runningJobs) + Len(leftover)
<1>1. /\ runningJobs \in Seq(JobIds) /\ leftover \in Seq(JobIds)
      /\ i \in 1 .. Len(runningJobs)
      /\ Len(runningJobs) \in Nat /\ Len(leftover) \in Nat
      /\ runningJobs[Len(runningJobs)] \in JobIds
  BY LenProperties DEF TypeOK
<1>2. /\ runningJobs' \in Seq(JobIds) /\ Len(runningJobs') = Len(runningJobs) - 1
  BY <1>1, EraseShortens DEF EraseListed, Erase
<1>3. /\ leftover' \in Seq(JobIds) /\ Len(leftover') = 1 + Len(leftover)
  <2> DEFINE l == <<runningJobs[Len(runningJobs)]>>
  <2>1. l \in Seq(JobIds) /\ Len(l) = 1
    BY <1>1
  <2> HIDE DEF l
  <2>2. l \o leftover \in Seq(JobIds) /\ Len(l \o leftover) = Len(l) + Len(leftover)
    BY <1>1, <2>1, ConcatProperties
  <2> QED
    BY <2>1, <2>2 DEF EraseListed, l
<1> QED
  BY <1>1, <1>2, <1>3

LEMMA VictimsNext ==
    ASSUME IInv, [Next]_vars
    PROVE  VictimsExist'
<1> DEFINE Slots == Len(runningJobs) + Len(leftover)
           Killing == {"killall", "killone"}
<1>1. /\ VictimsExist /\ size \in Nat /\ idx \in Nat /\ TypeOK
      /\ Len(runningJobs) \in Nat /\ Len(leftover) \in Nat
  BY LenProperties DEF IInv, TypeOK
<1>2. CASE pc' \notin Killing
  BY <1>2 DEF VictimsExist
<1>3. CASE UNCHANGED <<pc, size, idx>> /\ Slots' = Slots
  BY <1>1, <1>3 DEF VictimsExist
<1>4. CASE MainStep /\ Reply
  BY <1>1, <1>4 DEF Reply, Go, VictimsExist, listed
<1>5. CASE MainStep /\ (ChooseVictim \/ KillVictim)
  BY <1>1, <1>5 DEF ChooseVictim, KillVictim, Go, VictimsExist, listed
<1>6. MainStep => \/ pc' \notin Killing \/ Reply \/ ChooseVictim \/ KillVictim
                  \/ UNCHANGED <<pc, size, idx, runningJobs, leftover>>
  <2>1. ASSUME MainStep, ReadCommand
        PROVE  pc' \notin Killing
    BY <2>1, ReadGoes DEF Ops
  <2>2. ASSUME MainStep, ~ReadCommand
        PROVE  \/ pc' \notin Killing \/ Reply \/ ChooseVictim \/ KillVictim
               \/ UNCHANGED <<pc, size, idx, runningJobs, leftover>>
    BY <2>2 DEF MainStep, Go, locals, listed, EnterSelect, ReturnFromMain,
       SelectReturns, Admit, AdmitDone, SweepNext, SweepDone, IssueJob,
       SetConcurrency, StopQueued, StopNotQueued, ScanOn, ScanFailed, ScanNext,
       ScanFound, ScanAstray, KillStopped, Poll, Exit, Malformed, FinishExit,
       ExecJobs, TakeJob, CountJob, Fork, ListJob, ExecDone
  <2> QED
    BY <2>1, <2>2
<1>7. CASE HandlerStep
  <2>1. CASE EnterHandler
    BY <1>3, <2>1 DEF EnterHandler, locals, listed
  <2>2. ASSUME NEW j \in JobIds, Reap(j)
        PROVE  VictimsExist'
    <3>1. UNCHANGED <<pc, size, idx>>
      BY <2>2 DEF Reap, locals
    <3>2. Slots' = Slots
      BY <1>1, <2>2, EraseMoves DEF Reap, listed
    <3> QED
      BY <1>3, <3>1, <3>2
  <2>3. CASE LeaveHandler
    <3>1. UNCHANGED <<size, idx, runningJobs, leftover>>
          /\ (pc' = pc \/ pc' = "exec")
      BY <2>3 DEF LeaveHandler, Go, locals, listed
    <3> QED
      BY <1>2, <1>3, <3>1
  <2> QED
    BY <1>7, <2>1, <2>2, <2>3 DEF HandlerStep
<1>8. CASE Environment \/ UNCHANGED vars
  BY <1>3, <1>8 DEF Environment, ChildExit, ChildKilled, ChildEnds, Knock, Send,
     locals, listed, vars
<1> QED
  BY <1>2, <1>3, <1>4, <1>5, <1>6, <1>7, <1>8 DEF Next

-----------------------------------------------------------------------------
(* One command at a time, every commander once                               *)

(* What a sequence of something is.                                          *)
LEMMA SeqFacts ==
    ASSUME NEW S, NEW s \in Seq(S)
    PROVE  /\ Len(s) \in Nat /\ DOMAIN s = 1 .. Len(s)
           /\ \A i \in DOMAIN s : s[i] \in S
           /\ s # <<>> => Len(s) >= 1 /\ s[1] \in S /\ Head(s) = s[1]
<1>1. Len(s) \in Nat /\ DOMAIN s = 1 .. Len(s) /\ \A i \in DOMAIN s : s[i] \in S
  BY LenProperties, ElementOfSeq
<1>2. s # <<>> => Len(s) # 0
  BY EmptySeq
<1>3. s # <<>> => Head(s) = s[1]
  OBVIOUS
<1> QED
  BY <1>1, <1>2, <1>3

Entry == [who : Commanders, open : BOOLEAN]

LEMMA ActiveFacts ==
    ASSUME TypeOK
    PROVE  /\ active \in Seq(Entry)
           /\ Len(active) \in Nat /\ DOMAIN active = 1 .. Len(active)
           /\ \A i \in DOMAIN active :
                /\ active[i] \in Entry /\ active[i].who \in Commanders
                /\ active[i].open \in BOOLEAN
                /\ active[i] = [who |-> active[i].who, open |-> active[i].open]
<1>1. active \in Seq(Entry)
  BY DEF TypeOK, Entry
<1>2. /\ Len(active) \in Nat /\ DOMAIN active = 1 .. Len(active)
      /\ \A i \in DOMAIN active : active[i] \in Entry
  BY <1>1, SeqFacts
<1>3. \A e \in Entry : /\ e.who \in Commanders /\ e.open \in BOOLEAN
                       /\ e = [who |-> e.who, open |-> e.open]
  BY DEF Entry
<1> QED
  BY <1>1, <1>2, <1>3

Serving == Handling \cup {"read", "killall", "killone"}

LEMMA InCommandNext ==
    ASSUME IInv, [Next]_vars
    PROVE  InCommand'
<1> DEFINE Frame == <<cur, cpc, command, active, idx>>
<1>1. /\ TypeOK /\ InCommand /\ EachOnce
      /\ cpc \in [Commanders -> {"away", "knocked", "admitted", "sent", "answered"}]
  BY DEF IInv, TypeOK
<1>2. CASE pc' \notin Serving
  BY <1>2 DEF InCommand, Serving, Handling
<1>3. CASE UNCHANGED <<Frame, pc>>
  BY <1>1, <1>3 DEF InCommand
<1>4. CASE MainStep /\ SweepNext
  <2>1. PICK i \in ToServe : cur' = active[i].who /\ idx' = i
    BY <1>4 DEF SweepNext
  <2>2. /\ i \in DOMAIN active /\ active[i].open /\ active[i].who \in ready
    BY <1>1, <2>1 DEF ToServe
  <2>3. active[i] = [who |-> active[i].who, open |-> TRUE] /\ cur' \in Commanders
    BY <1>1, <2>1, <2>2, ActiveFacts
  <2>4. cpc[cur'] = "sent"
    BY <1>1, <2>1, <2>2 DEF EachOnce
  <2>5. pc' = "read" /\ UNCHANGED <<active, cpc>>
    BY <1>4 DEF SweepNext, Go, peers
  <2> QED
    BY <2>1, <2>2, <2>3, <2>4, <2>5 DEF InCommand, Handling, Ops
<1>5. CASE MainStep /\ ReadCommand
  <2>1. /\ pc = "read" /\ pc' \in Ops /\ pc' = command[cur].op
        /\ UNCHANGED <<cur, cpc, command>>
        /\ active' = [active EXCEPT ![idx].open = FALSE]
    BY <1>5, ReadGoes DEF ReadCommand, peers
  <2>2. /\ cur \in Commanders /\ cpc[cur] = "sent" /\ idx \in DOMAIN active
        /\ active[idx] = [who |-> cur, open |-> TRUE]
    BY <1>1, <2>1 DEF InCommand
  <2>3. [who |-> cur, open |-> TRUE] \notin ToSet(active')
    <3> SUFFICES ASSUME NEW k \in DOMAIN active', active'[k] = [who |-> cur, open |-> TRUE]
                 PROVE  FALSE
      BY DEF ToSet
    <3>1. k \in DOMAIN active /\ (k # idx => active'[k] = active[k])
      BY <2>1
    <3>2. k # idx
      BY <2>1, <2>2, <3>1
    <3>3. active[idx].open /\ active[k] = active[idx]
      BY <2>2, <3>1, <3>2
    <3> QED
      BY <1>1, <2>2, <3>1, <3>2, <3>3 DEF EachOnce
  <2> QED
    BY <2>1, <2>2, <2>3 DEF InCommand, Handling, Ops
<1>6. CASE MainStep /\ (SetConcurrency \/ StopQueued \/ StopNotQueued \/ IssueJob)
  BY <1>1, <1>6 DEF InCommand, SetConcurrency, StopQueued, StopNotQueued,
     IssueJob, Go, peers, loop, Handling, Ops
<1>7. CASE MainStep /\ (ScanOn \/ ScanFailed \/ ScanNext \/ ScanFound \/ KillStopped)
  BY <1>1, <1>7 DEF InCommand, ScanOn, ScanFailed, ScanNext, ScanFound,
     KillStopped, Go, peers, loop, Handling, Ops
<1>8. CASE MainStep /\ (Poll \/ Exit \/ Malformed \/ ScanAstray)
  BY <1>1, <1>8 DEF InCommand, Poll, Exit, Malformed, ScanAstray, Go, peers,
     loop, locals, Handling, Ops
<1>9. CASE MainStep /\ (Reply \/ ChooseVictim \/ KillVictim)
  BY <1>1, <1>9 DEF InCommand, Reply, ChooseVictim, KillVictim, Go, loop,
     Handling, Ops
<1>10. MainStep => \/ pc' \notin Serving
                   \/ SweepNext \/ ReadCommand
                   \/ SetConcurrency \/ StopQueued \/ StopNotQueued \/ IssueJob
                   \/ ScanOn \/ ScanFailed \/ ScanNext \/ ScanFound \/ KillStopped
                   \/ Poll \/ Exit \/ Malformed \/ ScanAstray
                   \/ Reply \/ ChooseVictim \/ KillVictim
  BY DEF MainStep, Serving, Handling, Ops, Go, EnterSelect, ReturnFromMain,
     SelectReturns, Admit, AdmitDone, SweepDone, FinishExit, ExecJobs, TakeJob,
     CountJob, Fork, ListJob, ExecDone
<1>11. CASE HandlerStep \/ UNCHANGED vars
  <2>1. UNCHANGED Frame /\ (pc' = pc \/ pc' = "exec")
    BY <1>11 DEF HandlerStep, EnterHandler, Reap, LeaveHandler, Go, loop,
       locals, peers, vars
  <2>2. "exec" \notin Serving
    BY DEF Serving, Handling, Ops
  <2> QED
    BY <1>2, <1>3, <2>1, <2>2
<1>12. CASE Environment
  <2>1. UNCHANGED <<cur, active, idx, pc>>
    BY <1>12 DEF Environment, ChildExit, ChildKilled, ChildEnds, Knock, Send,
       loop, locals
  <2>2. \A c \in Commanders : cpc[c] = "sent" => cpc'[c] = "sent" /\ command'[c] = command[c]
    BY <1>1, <1>12 DEF Environment, ChildExit, ChildKilled, ChildEnds, Knock,
       Send, peers, TypeOK
  <2>3. pc \in Handling \cup {"read"} => cur \in Commanders /\ cpc[cur] = "sent"
    BY <1>1 DEF InCommand
  <2>4. pc \in Handling \cup {"read"} => cpc'[cur] = "sent" /\ command'[cur] = command[cur]
    BY <2>2, <2>3
  <2> QED
    BY <1>1, <2>1, <2>4 DEF InCommand, Handling
<1> QED
  BY <1>2, <1>4, <1>5, <1>6, <1>7, <1>8, <1>9, <1>10, <1>11, <1>12 DEF Next


LEMMA EachOnceNext ==
    ASSUME IInv, [Next]_vars
    PROVE  EachOnce'
<1> DEFINE Sent == \A c \in Commanders : cpc[c] = "away" \/ command[c] \in Commands
           Knocks == \A i \in DOMAIN knocking :
                        /\ cpc[knocking[i]] = "knocked"
                        /\ \A k \in DOMAIN knocking : knocking[k] = knocking[i] => k = i
           Entries == \A i \in DOMAIN active : active[i].open =>
                        /\ cpc[active[i].who] \in {"admitted", "sent"}
                        /\ \A k \in DOMAIN active : active[k] = active[i] => k = i
           Read == \A c \in ready : cpc[c] \in {"sent", "answered"}
<1>1. /\ TypeOK /\ InCommand /\ Sent /\ Knocks /\ Entries /\ Read
      /\ ready \subseteq Commanders
      /\ cpc \in [Commanders -> {"away", "knocked", "admitted", "sent", "answered"}]
      /\ command \in [Commanders -> Commands \cup {NoCommand}]
      /\ knocking \in Seq(Commanders)
  BY DEF IInv, TypeOK, EachOnce
<1>a. /\ active \in Seq(Entry)
      /\ DOMAIN active = 1 .. Len(active) /\ Len(active) \in Nat
      /\ \A i \in DOMAIN active :
            /\ active[i] \in Entry /\ active[i].who \in Commanders
            /\ active[i] = [who |-> active[i].who, open |-> active[i].open]
            /\ active[i].open \in BOOLEAN
  BY <1>1, ActiveFacts
<1>b. /\ DOMAIN knocking = 1 .. Len(knocking) /\ Len(knocking) \in Nat
      /\ \A i \in DOMAIN knocking : knocking[i] \in Commanders
      /\ knocking # <<>> => Len(knocking) >= 1 /\ Head(knocking) = knocking[1]
  BY <1>1, SeqFacts
<1>2. SUFFICES Sent' /\ Knocks' /\ Entries' /\ Read'
  BY DEF EachOnce
<1>3. CASE UNCHANGED <<active, knocking, ready, cpc, command>>
  BY <1>1, <1>a, <1>b, <1>3
<1>4. CASE MainStep /\ SelectReturns
  <2>1. UNCHANGED <<active, knocking, cpc, command>> /\ ready' = Readable
    BY <1>4 DEF SelectReturns, peers
  <2> QED
    BY <1>1, <1>a, <1>b, <2>1 DEF Readable
<1>5. CASE MainStep /\ Admit
  <2> DEFINE c == Head(knocking)
             new == [who |-> c, open |-> TRUE]
  <2>1. /\ knocking # <<>> /\ active' = Append(active, new)
        /\ knocking' = Tail(knocking)
        /\ cpc' = [cpc EXCEPT ![c] = "admitted"] /\ UNCHANGED <<ready, command>>
    BY <1>5 DEF Admit
  <2>2. /\ c = knocking[1] /\ Len(knocking) >= 1 /\ c \in Commanders
        /\ cpc[c] = "knocked" /\ new \in Entry
    <3>1. c = knocking[1] /\ 1 \in DOMAIN knocking
      BY <1>b, <2>1
    <3> QED
      BY <1>1, <1>b, <3>1 DEF Entry
  <2>3. /\ Len(knocking') = Len(knocking) - 1 /\ DOMAIN knocking' = 1 .. Len(knocking')
        /\ \A i \in DOMAIN knocking' : knocking'[i] = knocking[i + 1]
    BY <1>1, <1>a, <1>b, <2>1, HeadTailProperties, LenProperties
  <2>4. /\ DOMAIN active' = 1 .. (Len(active) + 1)
        /\ \A i \in 1 .. Len(active) : active'[i] = active[i]
        /\ active'[Len(active) + 1] = new
    <3> HIDE DEF new
    <3> QED
      BY <1>1, <1>a, <1>b, <2>1, <2>2, AppendProperties, LenProperties
  <2>5. cpc'[c] = "admitted" /\ \A d \in Commanders : d # c => cpc'[d] = cpc[d]
    BY <1>1, <1>a, <1>b, <2>1, <2>2
  <2> HIDE DEF c
  <2>6. Sent'
    BY <1>1, <1>a, <1>b, <2>1, <2>2, <2>5
  <2>7. Knocks'
    <3> SUFFICES ASSUME NEW i \in DOMAIN knocking'
                 PROVE  /\ cpc'[knocking'[i]] = "knocked"
                        /\ \A k \in DOMAIN knocking' : knocking'[k] = knocking'[i] => k = i
      OBVIOUS
    <3>1. i + 1 \in DOMAIN knocking /\ i + 1 # 1 /\ i \in Nat
      BY <1>1, <1>a, <1>b, <2>3
    <3>2. knocking[i + 1] # c /\ knocking[i + 1] \in Commanders
      BY <1>1, <1>a, <1>b, <2>2, <3>1
    <3>3. cpc'[knocking'[i]] = "knocked"
      BY <1>1, <1>a, <1>b, <2>3, <2>5, <3>1, <3>2
    <3>4. ASSUME NEW k \in DOMAIN knocking', knocking'[k] = knocking'[i]
          PROVE  k = i
      <4>1. k + 1 \in DOMAIN knocking /\ k \in Nat /\ knocking[k + 1] = knocking[i + 1]
        BY <1>1, <1>a, <1>b, <2>3, <3>4
      <4>2. k + 1 = i + 1
        BY <1>1, <1>a, <1>b, <3>1, <4>1
      <4> QED
        BY <3>1, <4>1, <4>2
    <3> QED
      BY <3>3, <3>4
  <2>8. Entries'
    <3>1. \A i \in 1 .. Len(active) : active[i].open => active[i].who # c
      BY <1>1, <1>a, <1>b, <2>2
    <3>2. \A i \in 1 .. Len(active) : active[i] # new
      BY <3>1
    <3> SUFFICES ASSUME NEW i \in DOMAIN active', active'[i].open
                 PROVE  /\ cpc'[active'[i].who] \in {"admitted", "sent"}
                        /\ \A k \in DOMAIN active' : active'[k] = active'[i] => k = i
      OBVIOUS
    <3>3. CASE i = Len(active) + 1
      BY <1>1, <1>a, <1>b, <2>4, <2>5, <3>2, <3>3
    <3>4. CASE i # Len(active) + 1
      <4>1. i \in DOMAIN active /\ active'[i] = active[i]
        BY <1>1, <1>a, <1>b, <2>4, <3>4
      <4>2. active[i].who # c /\ active[i].who \in Commanders
        BY <1>1, <1>a, <1>b, <3>1, <4>1
      <4>3. cpc'[active'[i].who] \in {"admitted", "sent"}
        BY <1>1, <1>a, <1>b, <2>5, <4>1, <4>2
      <4> QED
        BY <1>1, <1>a, <1>b, <2>4, <3>2, <4>1, <4>3
    <3> QED
      BY <3>3, <3>4
  <2>9. Read'
    BY <1>1, <1>a, <1>b, <2>1, <2>2, <2>5
  <2> QED
    BY <2>6, <2>7, <2>8, <2>9
<1>6. CASE MainStep /\ SweepDone
  <2>1. /\ active' = Without(active, Erased(active)) /\ ready' = {}
        /\ UNCHANGED <<knocking, cpc, command>>
    BY <1>6 DEF SweepDone, Purge, peers
  <2>2. PICK g \in [DOMAIN active' -> DOMAIN active] :
            /\ \A k \in DOMAIN g : active'[k] = active[g[k]]
            /\ \A k, m \in DOMAIN g : g[k] = g[m] => k = m
    <3>1. active \in Seq(Entry)
      BY <1>a
    <3>2. Inherits(active', active)
      BY <2>1, <3>1, WithoutKeeps
    <3> QED
      BY <3>2 DEF Inherits
  <2>3. Entries'
    <3> SUFFICES ASSUME NEW i \in DOMAIN active', active'[i].open
                 PROVE  /\ cpc[active'[i].who] \in {"admitted", "sent"}
                        /\ \A k \in DOMAIN active' : active'[k] = active'[i] => k = i
      BY <2>1
    <3>1. g[i] \in DOMAIN active /\ active[g[i]] = active'[i]
      BY <2>2
    <3>2. ASSUME NEW k \in DOMAIN active', active'[k] = active'[i]
          PROVE  k = i
      <4>1. g[k] \in DOMAIN active /\ active[g[k]] = active[g[i]]
        BY <2>2, <3>1, <3>2
      <4>2. g[k] = g[i]
        BY <1>1, <1>a, <1>b, <3>1, <4>1
      <4> QED
        BY <2>2, <4>2
    <3> QED
      BY <1>1, <1>a, <1>b, <3>1, <3>2
  <2> QED
    BY <1>1, <1>a, <1>b, <2>1, <2>3
<1>7. CASE MainStep /\ ReadCommand
  <2>1. /\ active' = [active EXCEPT ![idx].open = FALSE]
        /\ UNCHANGED <<knocking, ready, cpc, command>>
    BY <1>7 DEF ReadCommand, peers
  <2>2. /\ DOMAIN active' = DOMAIN active
        /\ \A i \in DOMAIN active : IF i = idx THEN active'[i].open = FALSE
                                               ELSE active'[i] = active[i]
    BY <1>1, <1>a, <1>b, <2>1
  <2> QED
    BY <1>1, <1>a, <1>b, <2>1, <2>2
<1>8. CASE MainStep /\ Reply
  <2>1. /\ cpc' = [cpc EXCEPT ![cur] = "answered"] /\ pc = "open"
        /\ UNCHANGED <<active, knocking, ready, command>>
    BY <1>8 DEF Reply, loop
  <2>2. /\ cur \in Commanders /\ cpc[cur] = "sent"
        /\ [who |-> cur, open |-> TRUE] \notin ToSet(active)
    BY <1>1, <1>a, <1>b, <2>1 DEF InCommand, Handling
  <2>3. \A i \in DOMAIN active : active[i].open => active[i].who # cur
    <3> SUFFICES ASSUME NEW i \in DOMAIN active, active[i].open, active[i].who = cur
                 PROVE  FALSE
      OBVIOUS
    <3>1. active[i] = [who |-> cur, open |-> TRUE]
      BY <1>1, <1>a, <1>b
    <3> QED
      BY <2>2, <3>1 DEF ToSet
  <2>4. cpc'[cur] = "answered" /\ \A d \in Commanders : d # cur => cpc'[d] = cpc[d]
    BY <1>1, <1>a, <1>b, <2>1, <2>2
  <2> QED
    BY <1>1, <1>a, <1>b, <2>1, <2>2, <2>3, <2>4
<1>9. CASE MainStep /\ FinishExit
  <2>1. active' = <<>> /\ UNCHANGED <<knocking, ready, cpc, command>>
    BY <1>9 DEF FinishExit, peers
  <2> QED
    BY <1>1, <1>a, <1>b, <2>1
<1>10. MainStep => \/ UNCHANGED <<active, knocking, ready, cpc, command>>
                   \/ SelectReturns \/ Admit \/ SweepDone \/ ReadCommand
                   \/ Reply \/ FinishExit
  BY DEF MainStep, loop, peers, EnterSelect, ReturnFromMain, AdmitDone,
     SweepNext, IssueJob, SetConcurrency, StopQueued, StopNotQueued, ScanOn,
     ScanFailed, ScanNext, ScanFound, ScanAstray, KillStopped, Poll, Exit,
     Malformed, ChooseVictim, KillVictim, ExecJobs, TakeJob, CountJob, Fork,
     ListJob, ExecDone
<1>11. CASE HandlerStep \/ UNCHANGED vars
  BY <1>3, <1>11 DEF HandlerStep, EnterHandler, Reap, LeaveHandler, loop, peers, vars
<1>12. CASE Environment
  <2>1. ASSUME NEW j \in JobIds, ChildExit(j) \/ ChildKilled(j)
        PROVE  UNCHANGED <<active, knocking, ready, cpc, command>>
    BY <2>1 DEF ChildExit, ChildKilled, ChildEnds, loop, peers
  <2>2. ASSUME NEW c \in Commanders, Send(c)
        PROVE  Sent' /\ Knocks' /\ Entries' /\ Read'
    <3>1. /\ cpc[c] = "admitted" /\ cpc' = [cpc EXCEPT ![c] = "sent"]
          /\ UNCHANGED <<active, knocking, ready, command>>
      BY <2>2 DEF Send, loop
    <3>2. cpc'[c] = "sent" /\ \A d \in Commanders : d # c => cpc'[d] = cpc[d]
      BY <1>1, <1>a, <1>b, <3>1
    <3> QED
      BY <1>1, <1>a, <1>b, <3>1, <3>2
  <2>3. ASSUME NEW c \in Commanders, NEW cmd \in Commands, Knock(c, cmd)
        PROVE  Sent' /\ Knocks' /\ Entries' /\ Read'
    <3>1. /\ cpc[c] = "away" /\ cpc' = [cpc EXCEPT ![c] = "knocked"]
          /\ knocking' = Append(knocking, c)
          /\ command' = [command EXCEPT ![c] = cmd]
          /\ UNCHANGED <<active, ready>>
      BY <2>3 DEF Knock
    <3>2. /\ cpc'[c] = "knocked" /\ \A d \in Commanders : d # c => cpc'[d] = cpc[d]
          /\ command'[c] = cmd /\ \A d \in Commanders : d # c => command'[d] = command[d]
      BY <1>1, <1>a, <1>b, <3>1
    <3>3. /\ DOMAIN knocking' = 1 .. (Len(knocking) + 1)
          /\ \A i \in 1 .. Len(knocking) : knocking'[i] = knocking[i]
          /\ knocking'[Len(knocking) + 1] = c
      BY <1>1, <1>a, <1>b, <3>1, AppendProperties, LenProperties
    <3>4. \A i \in DOMAIN knocking : knocking[i] # c
      BY <1>1, <1>a, <1>b, <3>1
    <3>5. Knocks'
      BY <1>1, <1>a, <1>b, <3>2, <3>3, <3>4
    <3>6. Sent' /\ Entries' /\ Read'
      BY <1>1, <1>a, <1>b, <3>1, <3>2
    <3> QED
      BY <3>5, <3>6
  <2> QED
    BY <1>3, <1>12, <2>1, <2>2, <2>3 DEF Environment
<1> QED
  BY <1>3, <1>4, <1>5, <1>6, <1>7, <1>8, <1>9, <1>10, <1>11, <1>12 DEF Next


-----------------------------------------------------------------------------
(* Every job id is handed out once                                           *)

LEMMA FiniteIssuers ==
    /\ IsFiniteSet(Issuers) /\ Cardinality(Issuers) \in Nat
    /\ Cardinality(Issuers) <= Cardinality(Commanders)
<1>1. Issuers \subseteq Commanders
  BY DEF Issuers
<1> QED
  BY <1>1, CommandersAssumption, FS_Subset, FS_CardinalityType

LEMMA NumberedNext ==
    ASSUME IInv, [Next]_vars
    PROVE  Numbered' /\ jobID' \in Nat /\ jobID' <= Cardinality(Commanders)
<1>1. /\ TypeOK /\ InCommand /\ EachOnce /\ Numbered /\ SlotsLeft
      /\ queue \in Seq(Job) /\ jobID \in Nat
      /\ cpc \in [Commanders -> {"away", "knocked", "admitted", "sent", "answered"}]
  BY DEF IInv, TypeOK
<1>2. Len(queue) \in Nat
  BY <1>1, SeqFacts
<1> DEFINE Others == /\ Issuers' = Issuers /\ jobID' = jobID
                     /\ Len(queue') <= Len(queue) /\ Len(queue') \in Nat
<1>3. CASE Others
  BY <1>1, <1>2, <1>3, FiniteIssuers DEF Numbered
<1>4. CASE /\ UNCHANGED <<jobID, queue, cpc, command>>
           /\ pc # "open" /\ pc' # "open"
  <2>1. Issuers' = Issuers
    BY <1>4 DEF Issuers
  <2> QED
    BY <1>2, <1>3, <1>4, <2>1
<1>5. CASE /\ UNCHANGED <<jobID, cpc, command, cur>> /\ pc # "open"
           /\ pc \in Handling /\ command[cur].op # "issueJob"
           /\ Len(queue') <= Len(queue) /\ Len(queue') \in Nat
  <2>1. Issuers' = Issuers
    BY <1>5 DEF Issuers
  <2> QED
    BY <1>3, <1>5, <2>1
<1>6. CASE MainStep /\ IssueJob
  <2>1. /\ pc = "issueJob" /\ pc' = "open" /\ UNCHANGED <<cpc, command, cur>>
        /\ jobID' = jobID + 1 /\ queue' = Append(queue, [id |-> jobID'])
    BY <1>6 DEF IssueJob, Go, Push, peers, loop
  <2>2. cur \in Commanders /\ command[cur].op = "issueJob" /\ cpc[cur] = "sent"
    BY <1>1, <2>1 DEF InCommand, Handling, Ops
  <2>3. Issuers' = Issuers \cup {cur} /\ cur \notin Issuers
    BY <2>1, <2>2 DEF Issuers
  <2>4. Cardinality(Issuers') = Cardinality(Issuers) + 1
    BY <2>3, FiniteIssuers, FS_AddElement
  <2>5. Cardinality(Issuers') <= Cardinality(Commanders)
    <3>1. Issuers' \subseteq Commanders
      BY <2>2, <2>3 DEF Issuers
    <3> QED
      BY <3>1, CommandersAssumption, FS_Subset
  <2>6. Len(queue') = Len(queue) + 1
    BY <1>1, <2>1
  <2> QED
    BY <1>1, <1>2, <2>1, <2>4, <2>5, <2>6 DEF Numbered
<1>7. CASE MainStep /\ (SetConcurrency \/ StopNotQueued \/ ScanFailed \/ KillStopped
                        \/ Poll \/ Exit)
  <2>1. /\ UNCHANGED <<jobID, queue, cpc, command, cur>> /\ pc # "open"
        /\ pc \in Handling /\ pc # "issueJob"
    BY <1>1, <1>7 DEF SetConcurrency, StopNotQueued, ScanFailed, KillStopped,
       Poll, Exit, jobs, loop, peers, InCommand, Handling, Ops
  <2>2. command[cur].op # "issueJob"
    BY <1>1, <2>1 DEF InCommand, Handling
  <2>3. Len(queue') <= Len(queue) /\ Len(queue') \in Nat
    BY <1>2, <2>1
  <2> QED
    BY <1>5, <2>1, <2>2, <2>3
<1>8. CASE MainStep /\ StopQueued
  <2> DEFINE pos == QueuePosition(queue, command[cur].arg)
  <2>1. /\ pc = "stop" /\ pos # -1 /\ queue' = Erase(queue, pos)
        /\ UNCHANGED <<jobID, cpc, command, cur>>
    BY <1>8 DEF StopQueued, peers, loop
  <2>2. pos \in 1 .. Len(queue)
    BY <1>1, <2>1, PositionInQueue
  <2> HIDE DEF pos
  <2>3. Len(queue') = Len(queue) - 1 /\ Len(queue) >= 1
    BY <1>1, <1>2, <2>1, <2>2, EraseShortens
  <2>4. command[cur].op = "stop" /\ pc \in Handling
    BY <1>1, <2>1 DEF InCommand, Handling, Ops
  <2> QED
    BY <1>2, <1>5, <2>1, <2>3, <2>4
<1>9. CASE MainStep /\ Reply
  <2>1. /\ UNCHANGED <<jobID, queue, command>> /\ pc = "open" /\ pc' # "open"
        /\ cpc' = [cpc EXCEPT ![cur] = "answered"]
    BY <1>9 DEF Reply, Go, jobs
  <2>2. Issuers' = Issuers
    BY <1>1, <2>1 DEF Issuers
  <2> QED
    BY <1>2, <1>3, <2>1, <2>2
<1>10. CASE MainStep /\ Admit
  <2>1. /\ UNCHANGED <<jobID, queue, command, cur, pc>> /\ knocking # <<>>
        /\ cpc' = [cpc EXCEPT ![Head(knocking)] = "admitted"]
    BY <1>10 DEF Admit, jobs
  <2>2. Head(knocking) \in Commanders /\ cpc[Head(knocking)] = "knocked"
    <3>1. knocking \in Seq(Commanders)
      BY <1>1 DEF TypeOK
    <3>2. 1 \in DOMAIN knocking /\ Head(knocking) = knocking[1] /\ knocking[1] \in Commanders
      BY <2>1, <3>1, SeqFacts
    <3> QED
      BY <1>1, <3>2 DEF EachOnce
  <2>3. Issuers' = Issuers
    BY <1>1, <2>1, <2>2 DEF Issuers
  <2> QED
    BY <1>2, <1>3, <2>1, <2>3
<1>11. CASE MainStep /\ TakeJob
  <2>1. /\ UNCHANGED <<jobID, cpc, command>> /\ queue' = Tail(queue)
        /\ pc # "open" /\ pc' # "open" /\ canRun > 0 /\ pc = "launch"
    BY <1>11 DEF TakeJob, Go, Pop, peers
  <2>2. Issuers' = Issuers
    BY <2>1 DEF Issuers
  <2>3. queue # <<>>
    BY <1>1, <1>2, <2>1 DEF SlotsLeft, TypeOK
  <2>4. Len(queue') = Len(queue) - 1 /\ Len(queue) >= 1
    BY <1>1, <2>1, <2>3, HeadTailProperties, SeqFacts
  <2> QED
    BY <1>2, <1>3, <2>1, <2>2, <2>4
<1>12. MainStep => \/ /\ UNCHANGED <<jobID, queue, cpc, command>>
                      /\ pc # "open" /\ pc' # "open"
                   \/ IssueJob \/ SetConcurrency \/ StopQueued \/ StopNotQueued
                   \/ ScanFailed \/ KillStopped \/ Poll \/ Exit \/ Reply
                   \/ Admit \/ TakeJob
                   \/ UNCHANGED <<jobID, queue, cpc, command, pc, cur>>
  <2>1. ASSUME MainStep, ReadCommand
        PROVE  /\ UNCHANGED <<jobID, queue, cpc, command>>
               /\ pc # "open" /\ pc' # "open"
    BY <2>1, ReadGoes DEF ReadCommand, jobs, peers, Ops
  <2>2. ASSUME MainStep, ~ReadCommand
        PROVE  \/ /\ UNCHANGED <<jobID, queue, cpc, command>>
                  /\ pc # "open" /\ pc' # "open"
               \/ IssueJob \/ SetConcurrency \/ StopQueued \/ StopNotQueued
               \/ ScanFailed \/ KillStopped \/ Poll \/ Exit \/ Reply
               \/ Admit \/ TakeJob
               \/ UNCHANGED <<jobID, queue, cpc, command, pc, cur>>
    BY <2>2 DEF MainStep, Go, jobs, peers, loop, EnterSelect, ReturnFromMain,
       SelectReturns, AdmitDone, SweepNext, SweepDone, ScanOn, ScanNext,
       ScanFound, ScanAstray, Malformed, ChooseVictim, KillVictim, FinishExit,
       ExecJobs, CountJob, Fork, ListJob, ExecDone
  <2> QED
    BY <2>1, <2>2
<1>13. CASE UNCHANGED <<jobID, queue, cpc, command, pc, cur>>
  <2>1. Issuers' = Issuers
    BY <1>13 DEF Issuers
  <2> QED
    BY <1>2, <1>3, <1>13, <2>1
<1>14. CASE HandlerStep \/ UNCHANGED vars
  BY <1>4, <1>13, <1>14 DEF HandlerStep, EnterHandler, Reap, LeaveHandler, Go,
     jobs, loop, peers, vars
<1>15. CASE Environment
  <2>1. UNCHANGED <<jobID, queue, pc, cur>>
    BY <1>15 DEF Environment, ChildExit, ChildKilled, ChildEnds, Knock, Send,
       loop, jobs
  <2>2. \A c \in Commanders : cpc[c] = "sent" =>
                cpc'[c] = "sent" /\ command'[c] = command[c]
    BY <1>1, <1>15 DEF Environment, ChildExit, ChildKilled, ChildEnds, Knock,
       Send, peers, TypeOK
  <2>3. \A c \in Commanders :
            /\ cpc'[c] = "answered" <=> cpc[c] = "answered"
            /\ cpc[c] = "answered" => command'[c] = command[c]
    BY <1>1, <1>15 DEF Environment, ChildExit, ChildKilled, ChildEnds, Knock,
       Send, peers, TypeOK
  <2>4. pc = "open" => cpc[cur] = "sent"
    BY <1>1 DEF InCommand, Handling
  <2>5. Issuers' = Issuers
    BY <2>1, <2>2, <2>3, <2>4 DEF Issuers
  <2> QED
    BY <1>2, <1>3, <2>1, <2>5
<1> QED
  BY <1>4, <1>6, <1>7, <1>8, <1>9, <1>10, <1>11, <1>12, <1>13, <1>14, <1>15
     DEF Next


-----------------------------------------------------------------------------
(* Every job is in one place                                                 *)

JobStates == {"none", "alive", "killed", "zombie", "reaped"}

LEMMA JobFacts ==
    ASSUME IInv
    PROVE  /\ TypeOK /\ OnePlace /\ ListedOnce /\ Numbered /\ SlotsLeft
           /\ queue \in Seq(Job) /\ runningJobs \in Seq(JobIds)
           /\ Len(queue) \in Nat /\ DOMAIN queue = 1 .. Len(queue)
           /\ \A i \in DOMAIN queue :
                /\ queue[i] \in Job /\ queue[i].id \in JobIds
                /\ queue[i] = [id |-> queue[i].id]
           /\ \A job \in removed : job \in Job /\ job = [id |-> job.id]
                                    /\ job.id \in JobIds
           /\ Len(runningJobs) \in Nat
           /\ DOMAIN runningJobs = 1 .. Len(runningJobs)
           /\ \A i \in DOMAIN runningJobs : runningJobs[i] \in JobIds
           /\ proc \in [JobIds -> JobStates]
           /\ jobID \in Nat /\ jobID <= Cardinality(Commanders)
           /\ Cardinality(Commanders) \in Nat
           /\ \A j : j \in JobIds <=> j \in Int /\ 1 <= j /\ j <= Cardinality(Commanders)
<1>1. /\ TypeOK /\ OnePlace /\ ListedOnce /\ Numbered /\ SlotsLeft
      /\ queue \in Seq(Job) /\ runningJobs \in Seq(JobIds)
      /\ removed \subseteq Job /\ proc \in [JobIds -> JobStates]
      /\ jobID \in 0 .. Cardinality(Commanders)
  BY DEF IInv, TypeOK, JobStates
<1>2. \A job \in Job : job = [id |-> job.id] /\ job.id \in JobIds
  BY DEF Job
<1>3. /\ Len(queue) \in Nat /\ DOMAIN queue = 1 .. Len(queue)
      /\ \A i \in DOMAIN queue : queue[i] \in Job
  BY <1>1, SeqFacts
<1>4. /\ Len(runningJobs) \in Nat /\ DOMAIN runningJobs = 1 .. Len(runningJobs)
      /\ \A i \in DOMAIN runningJobs : runningJobs[i] \in JobIds
  BY <1>1, SeqFacts
<1>5. jobID \in Nat /\ jobID <= Cardinality(Commanders)
  BY <1>1, FiniteJobs
<1>6. \A j : j \in JobIds <=> j \in Int /\ 1 <= j /\ j <= Cardinality(Commanders)
  BY FiniteJobs DEF JobIds
<1> QED
  BY <1>1, <1>2, <1>3, <1>4, <1>5, <1>6, FiniteJobs

(* kill, and whatever happens to a child, leaves a job with a process one    *)
(* with a process.                                                           *)
SameJobs == /\ UNCHANGED <<queue, removed, jobID>>
            /\ \A j \in JobIds : (proc'[j] = "none") <=> (proc[j] = "none")

LEMMA JobsStay ==
    ASSUME IInv, [Next]_vars
    PROVE  \/ SameJobs /\ UNCHANGED runningJobs
                /\ \/ pc' \notin Starting \cup {"list"}
                   \/ UNCHANGED <<pc, target>>
                   \/ pc = "count" /\ pc' = "fork" /\ target' = target
           \/ MainStep /\ (IssueJob \/ StopQueued \/ TakeJob \/ Fork \/ ListJob)
           \/ \E j \in JobIds : /\ Reap(j) /\ SameJobs /\ UNCHANGED <<pc, target>>
                                /\ proc[j] = "zombie"
<1>1. TypeOK /\ proc \in [JobIds -> JobStates]
  BY JobFacts
<1> DEFINE SamePlace == \/ pc' \notin Starting \cup {"list"}
                        \/ UNCHANGED <<pc, target>>
                        \/ pc = "count" /\ pc' = "fork" /\ target' = target
           Quiet == UNCHANGED <<queue, removed, jobID, proc, runningJobs>> /\ SamePlace
<1>2. Quiet => SameJobs /\ UNCHANGED runningJobs /\ SamePlace
  BY DEF SameJobs
<1>3. CASE MainStep /\ ~(IssueJob \/ StopQueued \/ TakeJob \/ Fork \/ ListJob)
                    /\ ~(KillStopped \/ KillVictim \/ ReadCommand)
  <2>1. Quiet
    BY <1>3 DEF MainStep, Starting, Go, jobs, os, listed, locals, EnterSelect,
       ReturnFromMain, SelectReturns, Admit, AdmitDone, SweepNext, SweepDone,
       SetConcurrency, StopNotQueued, ScanOn, ScanFailed, ScanNext, ScanFound,
       ScanAstray, Poll, Exit, Malformed, Reply, ChooseVictim, FinishExit,
       ExecJobs, CountJob, ExecDone
  <2> QED
    BY <1>2, <2>1
<1>4. CASE MainStep /\ ReadCommand
  <2>1. Quiet
    BY <1>4, ReadGoes DEF ReadCommand, Ops, Starting, jobs, os, listed
  <2> QED
    BY <1>2, <2>1
<1>5. CASE MainStep /\ (KillStopped \/ KillVictim)
  <2>1. UNCHANGED <<queue, removed, jobID, runningJobs>> /\ SamePlace /\ Kill(target)
    BY <1>5 DEF KillStopped, KillVictim, Go, Starting, jobs, listed
  <2>2. \A j \in JobIds : (proc'[j] = "none") <=> (proc[j] = "none")
    BY <1>1, <2>1, KillKeeps
  <2> QED
    BY <2>1, <2>2 DEF SameJobs
<1>6. CASE HandlerStep
  <2>1. CASE EnterHandler \/ LeaveHandler
    <3>1. Quiet
      BY <2>1 DEF EnterHandler, LeaveHandler, Go, Starting, jobs, listed, locals
    <3> QED
      BY <1>2, <3>1
  <2>2. ASSUME NEW j \in JobIds, Reap(j)
        PROVE  SameJobs /\ UNCHANGED <<pc, target>> /\ proc[j] = "zombie"
    BY <1>1, <2>2 DEF Reap, jobs, locals, SameJobs
  <2> QED
    BY <1>6, <2>1, <2>2 DEF HandlerStep
<1>7. CASE Environment
  <2>1. UNCHANGED <<queue, removed, jobID, runningJobs, pc, target>>
    BY <1>7 DEF Environment, ChildExit, ChildKilled, ChildEnds, Knock, Send,
       jobs, listed, locals
  <2>2. \A j \in JobIds : (proc'[j] = "none") <=> (proc[j] = "none")
    BY <1>1, <1>7 DEF Environment, ChildExit, ChildKilled, ChildEnds, Knock,
       Send, os
  <2> QED
    BY <2>1, <2>2 DEF SameJobs
<1>8. CASE UNCHANGED vars
  <2>1. Quiet
    BY <1>8 DEF vars, jobs, os, listed, locals
  <2> QED
    BY <1>2, <2>1
<1> QED
  BY <1>3, <1>4, <1>5, <1>6, <1>7, <1>8 DEF Next


LEMMA Prepended ==
    ASSUME NEW S, NEW s \in Seq(S), NEW e \in S
    PROVE  /\ <<e>> \o s \in Seq(S) /\ Len(<<e>> \o s) = Len(s) + 1
           /\ DOMAIN (<<e>> \o s) = 1 .. (Len(s) + 1)
           /\ (<<e>> \o s)[1] = e
           /\ \A i \in 2 .. (Len(s) + 1) : (<<e>> \o s)[i] = s[i - 1]
           /\ \A i \in DOMAIN (<<e>> \o s) :
                (<<e>> \o s)[i] = e \/ \E k \in DOMAIN s : (<<e>> \o s)[i] = s[k]
<1> DEFINE t == <<e>> \o s
           h == <<e>>
<1>1. h \in Seq(S) /\ Len(h) = 1 /\ h[1] = e
  OBVIOUS
<1>2. Len(s) \in Nat /\ DOMAIN s = 1 .. Len(s)
  BY LenProperties
<1>3. /\ t \in Seq(S) /\ Len(t) = Len(h) + Len(s)
      /\ \A i \in 1 .. (Len(h) + Len(s)) : t[i] = IF i <= Len(h) THEN h[i] ELSE s[i - Len(h)]
  <2> HIDE DEF h
  <2> QED
    BY <1>1, ConcatProperties DEF h
<1> HIDE DEF t, h
<1>4. Len(t) = Len(s) + 1 /\ DOMAIN t = 1 .. (Len(s) + 1)
  BY <1>1, <1>2, <1>3, LenProperties
<1>5. t[1] = e /\ \A i \in 2 .. (Len(s) + 1) : t[i] = s[i - 1]
  BY <1>1, <1>2, <1>3
<1>6. \A i \in DOMAIN t : i = 1 \/ (i \in 2 .. (Len(s) + 1) /\ i - 1 \in DOMAIN s)
  BY <1>2, <1>4
<1>7. \A i \in DOMAIN t : t[i] = e \/ \E k \in DOMAIN s : t[i] = s[k]
  BY <1>5, <1>6
<1> QED
  BY <1>3, <1>4, <1>5, <1>7 DEF t

LEMMA ReapErases ==
    ASSUME IInv, NEW j \in JobIds, Reap(j)
    PROVE  Inherits(runningJobs', runningJobs)
<1>1. CASE UNCHANGED runningJobs
  <2> DEFINE g == [k \in DOMAIN runningJobs |-> k]
  <2>1. g \in [DOMAIN runningJobs' -> DOMAIN runningJobs]
    BY <1>1
  <2>2. \A k \in DOMAIN g : runningJobs'[k] = runningJobs[g[k]]
    BY <1>1
  <2>3. \A k, m \in DOMAIN g : g[k] = g[m] => k = m
    OBVIOUS
  <2> QED
    BY <2>1, <2>2, <2>3 DEF Inherits
<1>2. CASE \E i \in DOMAIN runningJobs : EraseListed(i)
  <2>1. PICK i \in 1 .. Len(runningJobs) : EraseListed(i)
    BY <1>2, JobFacts
  <2>2. runningJobs' = Erase(runningJobs, i)
    BY <2>1 DEF EraseListed, Erase
  <2> QED
    BY <2>2, JobFacts, EraseKeeps
<1> QED
  BY <1>1, <1>2 DEF Reap, listed


LEMMA OnePlaceNext ==
    ASSUME IInv, [Next]_vars
    PROVE  OnePlace'
<1> DEFINE Waiting == \A i \in DOMAIN queue :
                        /\ queue[i].id <= jobID /\ proc[queue[i].id] = "none"
                        /\ queue[i] \notin removed
                        /\ pc \in Starting => queue[i].id # target
                        /\ \A k \in DOMAIN queue : queue[k] = queue[i] => k = i
           Gone == \A job \in removed : job.id <= jobID /\ proc[job.id] = "none"
           Known == \A j \in JobIds : j <= jobID \/ proc[j] = "none"
           Target == /\ pc \in Starting \cup {"list"} => target \in 1 .. jobID
                     /\ pc \in Starting => /\ proc[target] = "none"
                                           /\ [id |-> target] \notin removed
                     /\ pc = "list" => /\ proc[target] # "none"
                                       /\ target \notin ToSet(runningJobs)
           Listed == \A i \in DOMAIN runningJobs : proc[runningJobs[i]] # "none"
<1>1. Waiting /\ Gone /\ Known /\ Target /\ Listed
  BY JobFacts DEF OnePlace
<1>2. SUFFICES Waiting' /\ Gone' /\ Known' /\ Target' /\ Listed'
  BY DEF OnePlace
<1>3. CASE SameJobs /\ UNCHANGED runningJobs
              /\ \/ pc' \notin Starting \cup {"list"}
                 \/ UNCHANGED <<pc, target>>
                 \/ pc = "count" /\ pc' = "fork" /\ target' = target
  <2>1. Gone' /\ Known' /\ Listed'
    BY <1>1, <1>3, JobFacts DEF SameJobs
  <2>2. Waiting'
    BY <1>1, <1>3, JobFacts DEF SameJobs, Starting
  <2>3. Target'
    <3>1. \A j \in 1 .. jobID : j \in JobIds
      BY JobFacts
    <3> QED
      BY <1>1, <1>3, <3>1 DEF SameJobs, Starting
  <2> QED
    BY <2>1, <2>2, <2>3
<1>4. CASE MainStep /\ IssueJob
  <2> DEFINE new == [id |-> jobID']
  <2>1. /\ UNCHANGED <<removed, proc, runningJobs>> /\ jobID' = jobID + 1
        /\ queue' = Append(queue, new) /\ pc' = "open"
    BY <1>4 DEF IssueJob, Go, Push, os, listed
  <2>2. jobID' \in JobIds
    BY <2>1, NumberedNext, JobFacts
  <2>3. proc[jobID'] = "none"
    BY <1>1, <2>1, <2>2, JobFacts
  <2>4. new \in Job /\ new.id = jobID'
    BY <2>2 DEF Job
  <2> HIDE DEF new
  <2>5. /\ DOMAIN queue' = 1 .. (Len(queue) + 1)
        /\ \A i \in DOMAIN queue : queue'[i] = queue[i]
        /\ queue'[Len(queue) + 1] = new
    BY <2>1, <2>4, JobFacts, AppendProperties, LenProperties
  <2>6. new \notin removed /\ \A i \in DOMAIN queue : queue[i] # new
    BY <1>1, <2>1, <2>4, JobFacts
  <2>7. Waiting'
    <3> SUFFICES ASSUME NEW i \in DOMAIN queue'
                 PROVE  /\ queue'[i].id <= jobID' /\ proc'[queue'[i].id] = "none"
                        /\ queue'[i] \notin removed'
                        /\ \A k \in DOMAIN queue' : queue'[k] = queue'[i] => k = i
      BY <2>1 DEF Starting
    <3>1. CASE i = Len(queue) + 1
      BY <2>1, <2>3, <2>4, <2>5, <2>6, <3>1, JobFacts
    <3>2. CASE i # Len(queue) + 1
      <4>1. i \in DOMAIN queue /\ queue'[i] = queue[i]
        BY <2>5, <3>2, JobFacts
      <4>2. queue[i].id <= jobID' /\ queue[i].id \in JobIds
        BY <1>1, <2>1, <4>1, JobFacts
      <4>3. \A k \in DOMAIN queue' : queue'[k] = queue'[i] => k = i
        BY <1>1, <2>5, <2>6, <4>1, JobFacts
      <4> QED
        BY <1>1, <2>1, <4>1, <4>2, <4>3
    <3> QED
      BY <3>1, <3>2
  <2>8. Gone' /\ Known' /\ Target' /\ Listed'
    BY <1>1, <2>1, JobFacts DEF Starting
  <2> QED
    BY <2>7, <2>8
<1>5. CASE MainStep /\ StopQueued
  <2> DEFINE pos == QueuePosition(queue, command[cur].arg)
  <2>1. /\ UNCHANGED <<jobID, proc, runningJobs>> /\ pc' = "open" /\ pos # -1
        /\ queue' = Erase(queue, pos) /\ removed' = removed \cup {queue[pos]}
    BY <1>5 DEF StopQueued, Go, os, listed
  <2>2. pos \in 1 .. Len(queue)
    BY <2>1, JobFacts, PositionInQueue
  <2> HIDE DEF pos
  <2>3. pos \in DOMAIN queue
    BY <2>2, JobFacts
  <2>4. /\ Inherits(queue', queue)
        /\ \A k \in DOMAIN queue' : \E m \in DOMAIN queue : m # pos /\ queue'[k] = queue[m]
    <3>1. queue \in Seq(Job)
      BY JobFacts
    <3>2. /\ Inherits(Erase(queue, pos), queue)
          /\ \A k \in DOMAIN Erase(queue, pos) :
                \E m \in DOMAIN queue : m # pos /\ Erase(queue, pos)[k] = queue[m]
      BY <2>2, <3>1, EraseKeeps
    <3> QED
      BY <2>1, <3>2
  <2>5. Waiting'
    <3> SUFFICES ASSUME NEW i \in DOMAIN queue'
                 PROVE  /\ queue'[i].id <= jobID' /\ proc'[queue'[i].id] = "none"
                        /\ queue'[i] \notin removed'
                        /\ \A k \in DOMAIN queue' : queue'[k] = queue'[i] => k = i
      BY <2>1 DEF Starting
    <3>1. PICK m \in DOMAIN queue : m # pos /\ queue'[i] = queue[m]
      BY <2>4
    <3>2. queue[m] # queue[pos]
      BY <1>1, <2>3, <3>1
    <3>3. \A k \in DOMAIN queue' : queue'[k] = queue'[i] => k = i
      BY <1>1, <2>4 DEF Inherits
    <3> QED
      BY <1>1, <2>1, <3>1, <3>2, <3>3
  <2>6. Gone'
    BY <1>1, <2>1, <2>3
  <2>7. Known' /\ Target' /\ Listed'
    BY <1>1, <2>1 DEF Starting
  <2> QED
    BY <2>5, <2>6, <2>7
<1>6. CASE MainStep /\ TakeJob
  <2>1. /\ UNCHANGED <<removed, jobID, proc, runningJobs>> /\ pc = "launch"
        /\ pc' = "count" /\ canRun > 0
        /\ target' = Head(queue).id /\ queue' = Tail(queue)
    BY <1>6 DEF TakeJob, Go, Top, Pop, os, listed
  <2>2. queue # <<>>
    BY <2>1, JobFacts DEF SlotsLeft, TypeOK
  <2>3. Head(queue) = queue[1] /\ 1 \in DOMAIN queue
    BY <2>2, JobFacts, SeqFacts
  <2>4. /\ DOMAIN queue' = 1 .. (Len(queue) - 1)
        /\ \A i \in DOMAIN queue' : queue'[i] = queue[i + 1] /\ i + 1 \in DOMAIN queue
    BY <2>1, <2>2, JobFacts, HeadTailProperties, LenProperties
  <2>5. /\ target' \in JobIds /\ target' <= jobID /\ proc[target'] = "none"
        /\ queue[1] = [id |-> target'] /\ queue[1] \notin removed
    BY <1>1, <2>1, <2>3, JobFacts
  <2>6. Target'
    BY <2>1, <2>5, JobFacts DEF Starting
  <2>7. Waiting'
    <3> SUFFICES ASSUME NEW i \in DOMAIN queue'
                 PROVE  /\ queue'[i].id <= jobID' /\ proc'[queue'[i].id] = "none"
                        /\ queue'[i] \notin removed' /\ queue'[i].id # target'
                        /\ \A k \in DOMAIN queue' : queue'[k] = queue'[i] => k = i
      OBVIOUS
    <3>1. /\ i + 1 \in DOMAIN queue /\ queue'[i] = queue[i + 1] /\ i + 1 # 1
          /\ i \in Nat
      BY <2>4, JobFacts
    <3>2. queue[i + 1] # queue[1]
      BY <1>1, <2>3, <3>1
    <3>3. queue'[i].id # target'
      BY <2>5, <3>1, <3>2, JobFacts
    <3>4. ASSUME NEW k \in DOMAIN queue', queue'[k] = queue'[i]
          PROVE  k = i
      <4>1. k + 1 \in DOMAIN queue /\ k \in Nat /\ queue[k + 1] = queue[i + 1]
        BY <2>4, <3>1, <3>4, JobFacts
      <4>2. k + 1 = i + 1
        BY <1>1, <3>1, <4>1
      <4> QED
        BY <3>1, <4>1, <4>2
    <3> QED
      BY <1>1, <2>1, <3>1, <3>3, <3>4
  <2>8. Gone' /\ Known' /\ Listed'
    BY <1>1, <2>1
  <2> QED
    BY <2>6, <2>7, <2>8
<1>7. CASE MainStep /\ Fork
  <2>1. /\ UNCHANGED <<removed, jobID, queue, runningJobs, target>> /\ pc = "fork"
        /\ pc' = "list" /\ proc' = [proc EXCEPT ![target] = "alive"]
    BY <1>7 DEF Fork, Go, jobs, listed, locals
  <2>2. /\ target \in JobIds /\ target \in 1 .. jobID /\ proc[target] = "none"
        /\ [id |-> target] \notin removed
    BY <1>1, <2>1, JobFacts DEF Starting
  <2>3. proc'[target] = "alive" /\ \A j \in JobIds : j # target => proc'[j] = proc[j]
    BY <2>1, <2>2, JobFacts
  <2>4. Waiting'
    BY <1>1, <2>1, <2>3, JobFacts DEF Starting
  <2>5. Gone'
    BY <1>1, <2>1, <2>2, <2>3, JobFacts
  <2>6. Known' /\ Listed'
    BY <1>1, <2>1, <2>2, <2>3, JobFacts
  <2>7. Target'
    BY <1>1, <2>1, <2>2, <2>3 DEF Starting, ToSet
  <2> QED
    BY <2>4, <2>5, <2>6, <2>7
<1>8. CASE MainStep /\ ListJob
  <2>1. /\ UNCHANGED <<removed, jobID, queue, proc>> /\ pc = "list" /\ pc' = "launch"
        /\ runningJobs' = <<target>> \o runningJobs
    BY <1>8 DEF ListJob, InsertListed, Go, jobs, os
  <2>2. target \in JobIds /\ proc[target] # "none"
    BY <1>1, <2>1, JobFacts
  <2>3. \A i \in DOMAIN runningJobs' : runningJobs'[i] = target
                \/ \E k \in DOMAIN runningJobs : runningJobs'[i] = runningJobs[k]
    BY <2>1, <2>2, JobFacts, Prepended
  <2> QED
    BY <1>1, <2>1, <2>2, <2>3 DEF Starting
<1>9. ASSUME NEW j \in JobIds, Reap(j), SameJobs, UNCHANGED <<pc, target>>,
             proc[j] = "zombie"
      PROVE  Waiting' /\ Gone' /\ Known' /\ Target' /\ Listed'
  <2>1. Inherits(runningJobs', runningJobs)
    BY <1>9, ReapErases
  <2>2. \A i \in DOMAIN runningJobs' :
            \E k \in DOMAIN runningJobs : runningJobs'[i] = runningJobs[k]
    BY <2>1 DEF Inherits
  <2>3. Gone' /\ Known'
    BY <1>1, <1>9, JobFacts DEF SameJobs
  <2>4. Listed'
    BY <1>1, <1>9, <2>2, JobFacts DEF SameJobs
  <2>5. Waiting'
    BY <1>1, <1>9, JobFacts DEF SameJobs, Starting
  <2>6. Target'
    <3>1. \A i \in 1 .. jobID : i \in JobIds
      BY JobFacts
    <3>2. ToSet(runningJobs') \subseteq ToSet(runningJobs)
      BY <2>2 DEF ToSet
    <3> QED
      BY <1>1, <1>9, <3>1, <3>2 DEF SameJobs, Starting
  <2> QED
    BY <2>3, <2>4, <2>5, <2>6
<1> QED
  BY <1>3, <1>4, <1>5, <1>6, <1>7, <1>8, <1>9, JobsStay

LEMMA ListedNext ==
    ASSUME IInv, [Next]_vars
    PROVE  ListedOnce'
<1>1. CASE UNCHANGED runningJobs
  BY <1>1, JobFacts DEF ListedOnce
<1>2. CASE MainStep /\ ListJob
  <2>1. pc = "list" /\ runningJobs' = <<target>> \o runningJobs
    BY <1>2 DEF ListJob, InsertListed
  <2>2. target \in JobIds /\ \A k \in DOMAIN runningJobs : runningJobs[k] # target
    BY <2>1, JobFacts DEF OnePlace, ToSet
  <2>3. /\ DOMAIN runningJobs' = 1 .. (Len(runningJobs) + 1) /\ runningJobs'[1] = target
        /\ \A i \in 2 .. (Len(runningJobs) + 1) : runningJobs'[i] = runningJobs[i - 1]
    BY <2>1, <2>2, JobFacts, Prepended
  <2> SUFFICES ASSUME NEW i \in DOMAIN runningJobs', NEW k \in DOMAIN runningJobs',
                      runningJobs'[i] = runningJobs'[k]
               PROVE  i = k
    BY DEF ListedOnce
  <2>4. i \in Nat /\ k \in Nat
    BY <2>3, JobFacts
  <2>5. /\ i # 1 => i - 1 \in DOMAIN runningJobs /\ runningJobs'[i] = runningJobs[i - 1]
        /\ k # 1 => k - 1 \in DOMAIN runningJobs /\ runningJobs'[k] = runningJobs[k - 1]
    BY <2>3, JobFacts
  <2>6. i # 1 /\ k # 1 => i - 1 = k - 1
    BY <2>5, JobFacts DEF ListedOnce
  <2> QED
    BY <2>2, <2>3, <2>4, <2>5, <2>6
<1>3. ASSUME NEW j \in JobIds, Reap(j)
      PROVE  ListedOnce'
  BY <1>3, ReapErases, JobFacts DEF ListedOnce, Inherits
<1>4. MainStep /\ (IssueJob \/ StopQueued \/ TakeJob \/ Fork) => UNCHANGED runningJobs
  BY DEF IssueJob, StopQueued, TakeJob, Fork, listed
<1> QED
  BY <1>1, <1>2, <1>3, <1>4, JobsStay


-----------------------------------------------------------------------------
(* Types                                                                     *)

LEMMA JobTypes ==
    ASSUME IInv, [Next]_vars
    PROVE  /\ queue' \in Seq(Job) /\ removed' \subseteq Job
           /\ jobID' \in 0 .. Cardinality(Commanders)
<1>1. jobID' \in 0 .. Cardinality(Commanders)
  BY NumberedNext, FiniteJobs
<1>2. queue \in Seq(Job) /\ removed \subseteq Job
  BY DEF IInv, TypeOK
<1>3. CASE UNCHANGED <<queue, removed>>
  BY <1>1, <1>2, <1>3
<1>4. CASE MainStep /\ IssueJob
  <2> DEFINE new == [id |-> jobID']
  <2>1. /\ UNCHANGED removed /\ jobID' = jobID + 1 /\ queue' = Append(queue, new)
    BY <1>4 DEF IssueJob, Push
  <2>2. new \in Job
    BY <1>1, <2>1, JobFacts DEF Job
  <2> HIDE DEF new
  <2> QED
    BY <1>1, <1>2, <2>1, <2>2, AppendProperties
<1>5. CASE MainStep /\ StopQueued
  <2> DEFINE pos == QueuePosition(queue, command[cur].arg)
  <2>1. pos # -1 /\ queue' = Erase(queue, pos) /\ removed' = removed \cup {queue[pos]}
    BY <1>5 DEF StopQueued
  <2>2. pos \in 1 .. Len(queue)
    BY <1>2, <2>1, PositionInQueue
  <2> HIDE DEF pos
  <2> QED
    BY <1>1, <1>2, <2>1, <2>2, EraseShortens, JobFacts
<1>6. CASE MainStep /\ TakeJob
  <2>1. queue' = Tail(queue) /\ UNCHANGED removed /\ pc = "launch" /\ canRun > 0
    BY <1>6 DEF TakeJob, Pop
  <2>2. queue # <<>>
    BY <2>1, JobFacts DEF SlotsLeft, TypeOK
  <2> QED
    BY <1>1, <1>2, <2>1, <2>2, HeadTailProperties
<1>7. MainStep /\ (Fork \/ ListJob) => UNCHANGED <<queue, removed>>
  BY DEF Fork, ListJob, jobs
<1> QED
  BY <1>3, <1>4, <1>5, <1>6, <1>7, JobsStay DEF SameJobs

LEMMA SlotTypes ==
    ASSUME IInv, [Next]_vars
    PROVE  /\ concurrency' \in Nat \ {0} /\ peak' \in Nat \ {0}
           /\ running' \in Int /\ reg' \in Int /\ canRun' \in Nat
<1>1. /\ concurrency \in Nat \ {0} /\ peak \in Nat \ {0} /\ running \in Int
      /\ reg \in Int /\ canRun \in Nat /\ handler \in Nat \cup {-1}
  BY DEF IInv, TypeOK
<1> DEFINE Same == UNCHANGED <<concurrency, peak, running, reg, canRun>>
<1>2. CASE MainStep /\ SetConcurrency
  <2>1. cur \in Commanders /\ command[cur].op = "setConcurrency" /\ cpc[cur] = "sent"
    BY <1>2 DEF SetConcurrency, IInv, InCommand, Handling, Ops
  <2>2. command[cur] \in Commands
    BY <2>1 DEF IInv, EachOnce
  <2>3. command[cur].arg \in Nat \ {0}
    BY <2>1, <2>2, CommandsAssumption
  <2> QED
    BY <1>1, <1>2, <2>3 DEF SetConcurrency, locals
<1>3. CASE MainStep /\ ExecJobs
  <2>1. Len(queue) \in Nat
    BY JobFacts
  <2> QED
    BY <1>1, <1>3, <2>1 DEF ExecJobs, Free, slots
<1>4. CASE MainStep /\ (TakeJob \/ CountJob)
  BY <1>1, <1>4 DEF TakeJob, CountJob, slots, locals
<1>5. CASE MainStep /\ ListJob
  <2>1. canRun > 0
    BY <1>5 DEF ListJob, IInv, SlotsLeft
  <2> QED
    BY <1>1, <1>5, <2>1 DEF ListJob, slots
<1>6. MainStep => \/ SetConcurrency \/ ExecJobs \/ TakeJob \/ CountJob \/ ListJob
                  \/ Same
  BY DEF MainStep, slots, locals, EnterSelect, ReturnFromMain, SelectReturns,
     Admit, AdmitDone, SweepNext, SweepDone, ReadCommand, IssueJob, StopQueued,
     StopNotQueued, ScanOn, ScanFailed, ScanNext, ScanFound, ScanAstray,
     KillStopped, Poll, Exit, Malformed, Reply, ChooseVictim, KillVictim,
     FinishExit, Fork, ExecDone
<1>7. CASE HandlerStep
  BY <1>1, <1>7 DEF HandlerStep, EnterHandler, Reap, LeaveHandler, slots, locals
<1>8. CASE Environment \/ UNCHANGED vars
  <2>1. Same
    BY <1>8 DEF Environment, ChildExit, ChildKilled, ChildEnds, Knock, Send,
       slots, locals, vars
  <2> QED
    BY <1>1, <2>1
<1>9. CASE Same
  BY <1>1, <1>9
<1> QED
  BY <1>2, <1>3, <1>4, <1>5, <1>6, <1>7, <1>8, <1>9 DEF Next

LEMMA ListTypes ==
    ASSUME IInv, [Next]_vars
    PROVE  /\ runningJobs' \in Seq(JobIds) /\ leftover' \in Seq(JobIds)
           /\ target' \in JobIds \cup {0} /\ idx' \in Nat \ {0} /\ size' \in Nat
<1>1. /\ runningJobs \in Seq(JobIds) /\ leftover \in Seq(JobIds) /\ TypeOK
      /\ target \in JobIds \cup {0} /\ idx \in Nat \ {0} /\ size \in Nat
  BY DEF IInv, TypeOK
<1>2. /\ Len(leftover) \in Nat /\ Len(runningJobs) \in Nat
  BY <1>1, SeqFacts
<1> DEFINE Same == UNCHANGED <<runningJobs, leftover, target, idx, size>>
<1>3. CASE Same
  BY <1>1, <1>3
<1>4. CASE MainStep /\ SweepNext
  <2>1. idx' \in DOMAIN active
    BY <1>4 DEF SweepNext, ToServe
  <2>2. UNCHANGED <<runningJobs, leftover, target, size>>
    BY <1>4 DEF SweepNext, listed
  <2> QED
    BY <1>1, <2>1, <2>2, ActiveFacts
<1>5. CASE MainStep /\ (StopNotQueued \/ ScanNext \/ KillVictim \/ Reply)
  BY <1>1, <1>2, <1>5 DEF StopNotQueued, ScanNext, KillVictim, Reply, listed
<1>6. CASE MainStep /\ ScanFound
  BY <1>1, <1>6, JobFacts DEF ScanFound, listed
<1>7. CASE MainStep /\ ChooseVictim
  <2> DEFINE all == runningJobs \o leftover
  <2>1. /\ idx <= size /\ pc = "killall" /\ target' = all[idx]
        /\ UNCHANGED <<runningJobs, leftover, idx, size>>
    BY <1>7 DEF ChooseVictim, listed
  <2>2. size <= Len(runningJobs) + Len(leftover)
    BY <2>1 DEF IInv, VictimsExist
  <2>3. all \in Seq(JobIds) /\ Len(all) = Len(runningJobs) + Len(leftover)
    BY <1>1, ConcatProperties
  <2> HIDE DEF all
  <2>4. idx \in DOMAIN all
    BY <1>1, <1>2, <2>1, <2>2, <2>3, SeqFacts
  <2>5. all[idx] \in JobIds
    BY <2>3, <2>4, SeqFacts
  <2> QED
    BY <1>1, <2>1, <2>5
<1>8. CASE MainStep /\ TakeJob
  <2>1. /\ pc = "launch" /\ canRun > 0 /\ target' = Head(queue).id
        /\ UNCHANGED <<runningJobs, leftover, idx, size>>
    BY <1>8 DEF TakeJob, Top, listed
  <2>2. queue # <<>>
    BY <2>1, JobFacts DEF SlotsLeft, TypeOK
  <2>3. Head(queue) = queue[1] /\ 1 \in DOMAIN queue
    BY <2>2, JobFacts, SeqFacts
  <2>4. target' \in JobIds
    BY <2>1, <2>3, JobFacts
  <2> QED
    BY <1>1, <2>1, <2>4
<1>9. CASE MainStep /\ ListJob
  <2>1. /\ pc = "list" /\ runningJobs' = <<target>> \o runningJobs
        /\ leftover' = IF leftover = <<>> THEN <<>> ELSE Tail(leftover)
        /\ UNCHANGED <<target, idx, size>>
    BY <1>9 DEF ListJob, InsertListed
  <2>2. target \in JobIds
    BY <2>1, JobFacts DEF OnePlace
  <2>3. runningJobs' \in Seq(JobIds)
    BY <1>1, <2>1, <2>2, Prepended
  <2>4. leftover' \in Seq(JobIds)
    BY <1>1, <2>1, HeadTailProperties
  <2> QED
    BY <1>1, <2>1, <2>3, <2>4
<1>10. MainStep => \/ Same \/ SweepNext \/ StopNotQueued \/ ScanNext \/ KillVictim
                   \/ Reply \/ ScanFound \/ ChooseVictim \/ TakeJob \/ ListJob
  BY DEF MainStep, listed, locals, EnterSelect, ReturnFromMain, SelectReturns,
     Admit, AdmitDone, SweepDone, ReadCommand, IssueJob, SetConcurrency,
     StopQueued, ScanOn, ScanFailed, ScanAstray, KillStopped, Poll, Exit,
     Malformed, FinishExit, ExecJobs, CountJob, Fork, ExecDone
<1>11. CASE HandlerStep
  <2>1. ASSUME NEW j \in JobIds, Reap(j)
        PROVE  runningJobs' \in Seq(JobIds) /\ leftover' \in Seq(JobIds)
               /\ UNCHANGED <<target, idx, size>>
    <3>1. UNCHANGED <<target, idx, size>>
      BY <2>1 DEF Reap, locals
    <3>2. CASE UNCHANGED listed
      BY <1>1, <3>1, <3>2 DEF listed
    <3>3. CASE \E i \in DOMAIN runningJobs : EraseListed(i)
      BY <1>1, <3>1, <3>3, EraseMoves
    <3> QED
      BY <2>1, <3>2, <3>3 DEF Reap
  <2>2. EnterHandler \/ LeaveHandler => Same
    BY DEF EnterHandler, LeaveHandler, listed, locals
  <2> QED
    BY <1>1, <1>3, <1>11, <2>1, <2>2 DEF HandlerStep
<1>12. CASE Environment \/ UNCHANGED vars
  <2>1. Same
    BY <1>12 DEF Environment, ChildExit, ChildKilled, ChildEnds, Knock, Send,
       listed, locals, vars
  <2> QED
    BY <1>3, <2>1
<1> QED
  BY <1>3, <1>4, <1>5, <1>6, <1>7, <1>8, <1>9, <1>10, <1>11, <1>12 DEF Next

LEMMA LoopTypes ==
    ASSUME IInv, [Next]_vars
    PROVE  /\ exitServer' \in BOOLEAN
           /\ active' \in Seq([who : Commanders, open : BOOLEAN])
           /\ knocking' \in Seq(Commanders) /\ ready' \subseteq Commanders
           /\ cur' \in Commanders \cup {Nobody}
<1>1. /\ active \in Seq(Entry) /\ knocking \in Seq(Commanders)
      /\ ready \subseteq Commanders /\ cur \in Commanders \cup {Nobody}
      /\ exitServer \in BOOLEAN /\ TypeOK
  BY ActiveFacts DEF IInv, TypeOK
<1>2. SUFFICES /\ exitServer' \in BOOLEAN /\ active' \in Seq(Entry)
               /\ knocking' \in Seq(Commanders) /\ ready' \subseteq Commanders
               /\ cur' \in Commanders \cup {Nobody}
  BY DEF Entry
<1>3. CASE UNCHANGED <<loop, exitServer>>
  BY <1>1, <1>3 DEF loop
<1>4. CASE MainStep /\ SelectReturns
  BY <1>1, <1>4 DEF SelectReturns, Readable
<1>5. CASE MainStep /\ Admit
  <2> DEFINE new == [who |-> Head(knocking), open |-> TRUE]
  <2>1. /\ knocking # <<>> /\ active' = Append(active, new)
        /\ knocking' = Tail(knocking) /\ UNCHANGED <<ready, cur, exitServer>>
    BY <1>5 DEF Admit
  <2>2. new \in Entry /\ Tail(knocking) \in Seq(Commanders)
    BY <1>1, <2>1, HeadTailProperties DEF Entry
  <2> HIDE DEF new
  <2>3. active' \in Seq(Entry)
    BY <1>1, <2>1, <2>2, AppendProperties
  <2> QED
    BY <1>1, <2>1, <2>2, <2>3
<1>6. CASE MainStep /\ SweepNext
  <2>1. cur' \in ready /\ UNCHANGED <<active, knocking, ready, exitServer>>
    BY <1>6 DEF SweepNext, ToServe
  <2> QED
    BY <1>1, <2>1
<1>7. CASE MainStep /\ SweepDone
  <2>1. /\ active' = Without(active, Erased(active)) /\ ready' = {}
        /\ cur' = Nobody /\ UNCHANGED <<knocking, exitServer>>
    BY <1>7 DEF SweepDone, Purge
  <2>2. active' \in Seq(Entry)
    BY <1>1, <2>1, WithoutKeeps
  <2> QED
    BY <1>1, <2>1, <2>2
<1>8. CASE MainStep /\ ReadCommand
  <2>1. /\ active' = [active EXCEPT ![idx].open = FALSE]
        /\ UNCHANGED <<knocking, ready, cur, exitServer>>
    BY <1>8 DEF ReadCommand
  <2>2. idx \in DOMAIN active /\ active[idx] \in Entry
    BY <1>1, <1>8, ActiveFacts DEF ReadCommand, IInv, InCommand
  <2>3. [active[idx] EXCEPT !.open = FALSE] \in Entry
    BY <2>2 DEF Entry
  <2>4. active' \in Seq(Entry)
    <3>1. active' = [active EXCEPT ![idx] = [active[idx] EXCEPT !.open = FALSE]]
      BY <2>1
    <3> QED
      BY <1>1, <2>2, <2>3, <3>1, ExceptSeq, ActiveFacts
  <2> QED
    BY <1>1, <2>1, <2>4
<1>9. CASE MainStep /\ FinishExit
  BY <1>1, <1>9 DEF FinishExit
<1>10. MainStep => \/ UNCHANGED <<loop, exitServer>> \/ SelectReturns \/ Admit
                   \/ SweepNext \/ SweepDone \/ ReadCommand \/ FinishExit
  BY DEF MainStep, EnterSelect, ReturnFromMain, AdmitDone, IssueJob,
     SetConcurrency, StopQueued, StopNotQueued, ScanOn, ScanFailed, ScanNext,
     ScanFound, ScanAstray, KillStopped, Poll, Exit, Malformed, Reply,
     ChooseVictim, KillVictim, ExecJobs, TakeJob, CountJob, Fork, ListJob,
     ExecDone
<1>11. CASE HandlerStep \/ UNCHANGED vars
  BY <1>3, <1>11 DEF HandlerStep, EnterHandler, Reap, LeaveHandler, vars
<1>12. CASE Environment
  <2>1. ASSUME NEW c \in Commanders, NEW cmd, Knock(c, cmd)
        PROVE  /\ knocking' \in Seq(Commanders)
               /\ UNCHANGED <<active, ready, cur, exitServer>>
    BY <1>1, <2>1, AppendProperties DEF Knock
  <2>2. ASSUME NEW j \in JobIds, ChildExit(j) \/ ChildKilled(j)
        PROVE  UNCHANGED <<loop, exitServer>>
    BY <2>2 DEF ChildExit, ChildKilled, ChildEnds
  <2>3. ASSUME NEW c \in Commanders, Send(c)
        PROVE  UNCHANGED <<loop, exitServer>>
    BY <2>3 DEF Send
  <2> QED
    BY <1>1, <1>3, <1>12, <2>1, <2>2, <2>3 DEF Environment
<1> QED
  BY <1>3, <1>4, <1>5, <1>6, <1>7, <1>8, <1>9, <1>10, <1>11, <1>12 DEF Next

Places == Ops \cup {"loop", "select", "admit", "sweep", "read", "scan",
                    "entry", "kill", "open", "killall", "killone", "exec",
                    "launch", "count", "fork", "list"}

LEMMA ControlTypes ==
    ASSUME IInv, [Next]_vars
    PROVE  /\ pc' \in Places /\ server' \in {"up", "failed", "ended"}
           /\ handler' \in Nat \cup {-1} /\ pending' \in BOOLEAN
           /\ proc' \in [JobIds -> JobStates]
           /\ cpc' \in [Commanders -> {"away", "knocked", "admitted", "sent", "answered"}]
           /\ command' \in [Commanders -> Commands \cup {NoCommand}]
<1>1. /\ pc \in Places /\ server \in {"up", "failed", "ended"} /\ TypeOK
      /\ handler \in Nat \cup {-1} /\ pending \in BOOLEAN
      /\ proc \in [JobIds -> JobStates]
      /\ cpc \in [Commanders -> {"away", "knocked", "admitted", "sent", "answered"}]
      /\ command \in [Commanders -> Commands \cup {NoCommand}]
  BY DEF IInv, TypeOK, Places, JobStates
<1>2. CASE MainStep
  <2>1. pc' \in Places
    <3>1. CASE ReadCommand
      BY <3>1, ReadGoes DEF Places
    <3>2. CASE ~ReadCommand
      BY <1>1, <1>2, <3>2 DEF Places, Ops, MainStep, Go, EnterSelect,
         ReturnFromMain, SelectReturns, Admit, AdmitDone, SweepNext, SweepDone,
         IssueJob, SetConcurrency, StopQueued, StopNotQueued, ScanOn,
         ScanFailed, ScanNext, ScanFound, ScanAstray, KillStopped, Poll, Exit,
         Malformed, Reply, ChooseVictim, KillVictim, FinishExit, ExecJobs,
         TakeJob, CountJob, Fork, ListJob, ExecDone
    <3> QED
      BY <3>1, <3>2
  <2>2. UNCHANGED <<handler, pending, command>>
    BY <1>2 DEF MainStep, os, peers, EnterSelect, ReturnFromMain, SelectReturns,
       Admit, AdmitDone, SweepNext, SweepDone, ReadCommand, IssueJob,
       SetConcurrency, StopQueued, StopNotQueued, ScanOn, ScanFailed, ScanNext,
       ScanFound, ScanAstray, KillStopped, Poll, Exit, Malformed, Reply,
       ChooseVictim, KillVictim, FinishExit, ExecJobs, TakeJob, CountJob, Fork,
       ListJob, ExecDone
  <2>3. server' \in {"up", "failed", "ended"}
    BY <1>1, <1>2 DEF MainStep, Kill, EnterSelect, ReturnFromMain,
       SelectReturns, Admit, AdmitDone, SweepNext, SweepDone, ReadCommand,
       IssueJob, SetConcurrency, StopQueued, StopNotQueued, ScanOn, ScanFailed,
       ScanNext, ScanFound, ScanAstray, KillStopped, Poll, Exit, Malformed,
       Reply, ChooseVictim, KillVictim, FinishExit, ExecJobs, TakeJob, CountJob,
       Fork, ListJob, ExecDone
  <2>4. proc' \in [JobIds -> JobStates]
    <3>1. CASE KillStopped \/ KillVictim
      BY <1>1, <3>1, KillKeeps DEF KillStopped, KillVictim, JobStates
    <3>2. CASE Fork
      BY <1>1, <3>2 DEF Fork, JobStates
    <3>3. CASE ~(KillStopped \/ KillVictim \/ Fork)
      BY <1>1, <1>2, <3>3 DEF MainStep, os, EnterSelect, ReturnFromMain,
         SelectReturns, Admit, AdmitDone, SweepNext, SweepDone, ReadCommand,
         IssueJob, SetConcurrency, StopQueued, StopNotQueued, ScanOn,
         ScanFailed, ScanNext, ScanFound, ScanAstray, Poll, Exit, Malformed,
         Reply, ChooseVictim, FinishExit, ExecJobs, TakeJob, CountJob, ListJob,
         ExecDone
    <3> QED
      BY <3>1, <3>2, <3>3
  <2>5. cpc' \in [Commanders -> {"away", "knocked", "admitted", "sent", "answered"}]
    <3>1. CASE Admit \/ Reply
      BY <1>1, <3>1 DEF Admit, Reply
    <3>2. CASE ~(Admit \/ Reply)
      BY <1>1, <1>2, <3>2 DEF MainStep, peers, EnterSelect, ReturnFromMain,
         SelectReturns, AdmitDone, SweepNext, SweepDone, ReadCommand,
         IssueJob, SetConcurrency, StopQueued, StopNotQueued, ScanOn,
         ScanFailed, ScanNext, ScanFound, ScanAstray, KillStopped, Poll, Exit,
         Malformed, ChooseVictim, KillVictim, FinishExit, ExecJobs, TakeJob,
         CountJob, Fork, ListJob, ExecDone
    <3> QED
      BY <3>1, <3>2
  <2> QED
    BY <1>1, <2>1, <2>2, <2>3, <2>4, <2>5
<1>3. CASE HandlerStep
  <2>1. UNCHANGED <<cpc, command>> /\ (pc' = pc \/ pc' = "exec")
    BY <1>3 DEF HandlerStep, EnterHandler, Reap, LeaveHandler, Go, peers
  <2>2. handler' \in Nat \cup {-1} /\ pending' \in BOOLEAN
    <3>1. CASE EnterHandler \/ LeaveHandler
      <4>1. handler' = 0 \/ handler' = -1
        BY <3>1 DEF EnterHandler, LeaveHandler
      <4>2. pending' = FALSE \/ pending' = pending
        BY <3>1 DEF EnterHandler, LeaveHandler
      <4>3. handler' \in Nat \cup {-1}
        BY <4>1
      <4>4. pending' \in BOOLEAN
        BY <1>1, <4>2
      <4> QED
        BY <4>3, <4>4
    <3>2. ASSUME NEW j \in JobIds, Reap(j)
          PROVE  handler' \in Nat /\ pending' \in BOOLEAN
      <4>1. handler >= 0 /\ handler' = handler + 1 /\ pending' = pending
        BY <3>2 DEF Reap
      <4>2. handler \in Nat
        BY <1>1, <4>1
      <4> QED
        BY <1>1, <4>1, <4>2
    <3> QED
      BY <1>3, <3>1, <3>2 DEF HandlerStep
  <2>3. server' \in {"up", "failed", "ended"}
    BY <1>1, <1>3 DEF HandlerStep, EnterHandler, Reap, LeaveHandler
  <2>4. proc' \in [JobIds -> JobStates]
    BY <1>1, <1>3 DEF HandlerStep, EnterHandler, Reap, LeaveHandler, JobStates
  <2> QED
    BY <1>1, <2>1, <2>2, <2>3, <2>4 DEF Places
<1>4. CASE Environment
  <2>1. ASSUME NEW j \in JobIds, ChildExit(j) \/ ChildKilled(j)
        PROVE  /\ proc' \in [JobIds -> JobStates] /\ pending' = TRUE
               /\ UNCHANGED <<pc, server, handler, cpc, command>>
    BY <1>1, <2>1 DEF ChildExit, ChildKilled, ChildEnds, peers, JobStates
  <2>2. ASSUME NEW c \in Commanders, NEW cmd \in Commands, Knock(c, cmd)
        PROVE  /\ cpc' \in [Commanders -> {"away", "knocked", "admitted", "sent", "answered"}]
               /\ command' \in [Commanders -> Commands \cup {NoCommand}]
               /\ UNCHANGED <<pc, server, handler, pending, proc>>
    BY <1>1, <2>2 DEF Knock, os
  <2>3. ASSUME NEW c \in Commanders, Send(c)
        PROVE  /\ cpc' \in [Commanders -> {"away", "knocked", "admitted", "sent", "answered"}]
               /\ UNCHANGED <<pc, server, handler, pending, proc, command>>
    BY <1>1, <2>3 DEF Send, os
  <2> QED
    BY <1>1, <1>4, <2>1, <2>2, <2>3 DEF Environment
<1>5. CASE UNCHANGED vars
  BY <1>1, <1>5 DEF vars, os, peers
<1> QED
  BY <1>2, <1>3, <1>4, <1>5 DEF Next

LEMMA TypeNext ==
    ASSUME IInv, [Next]_vars
    PROVE  TypeOK'
BY JobTypes, SlotTypes, ListTypes, LoopTypes, ControlTypes
   DEF TypeOK, Places, JobStates

-----------------------------------------------------------------------------
(* The invariant and the theorems                                            *)

LEMMA InvInit == Init => IInv
<1> SUFFICES ASSUME Init
             PROVE  IInv
  OBVIOUS
<1>1. /\ queue = <<>> /\ knocking = <<>> /\ active = <<>> /\ runningJobs = <<>>
      /\ leftover = <<>> /\ pc = "loop" /\ jobID = 0 /\ removed = {}
      /\ proc = [j \in JobIds |-> "none"] /\ handler = -1 /\ running = 0
      /\ cpc = [c \in Commanders |-> "away"]
  BY DEF Init
<1>2. TypeOK
  <2>1. 0 \in 0 .. Cardinality(Commanders)
    BY FiniteJobs
  <2>2. /\ queue \in Seq(Job) /\ runningJobs \in Seq(JobIds)
        /\ leftover \in Seq(JobIds) /\ knocking \in Seq(Commanders)
        /\ active \in Seq([who : Commanders, open : BOOLEAN])
    BY <1>1, EmptySeq
  <2>3. /\ proc \in [JobIds -> {"none", "alive", "killed", "zombie", "reaped"}]
        /\ cpc \in [Commanders -> {"away", "knocked", "admitted", "sent", "answered"}]
        /\ command \in [Commanders -> Commands \cup {NoCommand}]
    BY <1>1 DEF Init
  <2>4. /\ exitServer \in BOOLEAN /\ pending \in BOOLEAN
        /\ pc \in {"loop"} /\ server \in {"up"}
    BY DEF Init
  <2>5. /\ concurrency \in Nat \ {0} /\ peak \in Nat \ {0} /\ running \in Int
        /\ reg \in Int /\ idx \in Nat \ {0} /\ size \in Nat /\ canRun \in Nat
        /\ target \in JobIds \cup {0} /\ handler \in Nat \cup {-1}
    BY DEF Init
  <2>6. /\ removed \subseteq Job /\ ready \subseteq Commanders
        /\ cur \in Commanders \cup {Nobody} /\ jobID \in 0 .. Cardinality(Commanders)
    BY <2>1 DEF Init
  <2> QED
    BY <2>2, <2>3, <2>4, <2>5, <2>6 DEF TypeOK
<1>3. InCommand /\ EachOnce /\ OnePlace /\ ListedOnce /\ SlotsLeft /\ VictimsExist
  BY <1>1 DEF Init, InCommand, EachOnce, OnePlace, ListedOnce, SlotsLeft,
     VictimsExist, Handling, Ops, Starting
<1>4. Numbered
  <2>1. Issuers = {}
    BY <1>1 DEF Issuers
  <2> QED
    BY <1>1, <2>1, FS_EmptySet DEF Numbered
<1>5. RunningCovers
  <2>1. Children = {}
    BY <1>1 DEF Children
  <2> QED
    BY <1>1, <2>1, FS_EmptySet DEF RunningCovers
<1> QED
  BY <1>2, <1>3, <1>4, <1>5 DEF IInv

LEMMA InvNext == IInv /\ [Next]_vars => IInv'
BY TypeNext, InCommandNext, EachOnceNext, NumberedNext, OnePlaceNext,
   ListedNext, SlotsNext, VictimsNext, CoversNext DEF IInv

(* The invariant of every state that the server can be in.                   *)
THEOREM Invariant == Spec => []IInv
<1> QED
  BY InvInit, InvNext, PTL DEF Spec

(* Every variable keeps its type: every index stays on an entry, and no job  *)
(* gets a number that no commander asked for.                                *)
THEOREM TypeCorrect == Spec => []TypeOK
<1>1. IInv => TypeOK
  BY DEF IInv
<1> QED
  BY <1>1, Invariant, PTL

(* global_Running never falls below the number of children, wherever the     *)
(* handler interrupts the main thread: the assertion in exec_jobs holds.     *)
THEOREM CounterCovers == Spec => []RunningCovers
<1>1. IInv => RunningCovers
  BY DEF IInv
<1> QED
  BY <1>1, Invariant, PTL

(* No job is in global_Running_Jobs twice.                                   *)
THEOREM EntriesUnique == Spec => []ListedOnce
<1>1. IInv => ListedOnce
  BY DEF IInv
<1> QED
  BY <1>1, Invariant, PTL

(* No child is forgotten: as long as one has ended and was not waited for,   *)
(* SIGCHLD is pending or its handler is running.                             *)
THEOREM NoZombieForgotten == Spec => []ZombiesAreReaped
<1>1. Init => ZombiesAreReaped
  BY DEF Init, ZombiesAreReaped
<1>2. ASSUME IInv, ZombiesAreReaped, [Next]_vars
      PROVE  ZombiesAreReaped'
  <2>1. handler \in Nat \cup {-1} /\ pending \in BOOLEAN
        /\ proc \in [JobIds -> JobStates] /\ TypeOK
    BY <1>2 DEF IInv, TypeOK, JobStates
  <2>2. CASE MainStep
    <3>1. UNCHANGED <<handler, pending>>
      BY <2>2 DEF MainStep, os, EnterSelect, ReturnFromMain, SelectReturns,
         Admit, AdmitDone, SweepNext, SweepDone, ReadCommand, IssueJob,
         SetConcurrency, StopQueued, StopNotQueued, ScanOn, ScanFailed,
         ScanNext, ScanFound, ScanAstray, KillStopped, Poll, Exit, Malformed,
         Reply, ChooseVictim, KillVictim, FinishExit, ExecJobs, TakeJob,
         CountJob, Fork, ListJob, ExecDone
    <3>2. \A j \in JobIds : proc'[j] = "zombie" => proc[j] = "zombie"
      <4>1. CASE KillStopped \/ KillVictim
        BY <2>1, <4>1, KillKeeps DEF KillStopped, KillVictim
      <4>2. CASE Fork
        BY <2>1, <4>2 DEF Fork
      <4>3. CASE ~(KillStopped \/ KillVictim \/ Fork)
        BY <2>2, <4>3 DEF MainStep, os, EnterSelect, ReturnFromMain,
           SelectReturns, Admit, AdmitDone, SweepNext, SweepDone, ReadCommand,
           IssueJob, SetConcurrency, StopQueued, StopNotQueued, ScanOn,
           ScanFailed, ScanNext, ScanFound, ScanAstray, Poll, Exit, Malformed,
           Reply, ChooseVictim, FinishExit, ExecJobs, TakeJob, CountJob,
           ListJob, ExecDone
      <4> QED
        BY <4>1, <4>2, <4>3
    <3> QED
      BY <1>2, <3>1, <3>2 DEF ZombiesAreReaped
  <2>3. CASE HandlerStep
    <3>1. CASE EnterHandler
      BY <3>1 DEF EnterHandler, ZombiesAreReaped
    <3>2. ASSUME NEW j \in JobIds, Reap(j)
          PROVE  ZombiesAreReaped'
      <4>1. handler' >= 0
        BY <2>1, <3>2 DEF Reap
      <4> QED
        BY <4>1 DEF ZombiesAreReaped
    <3>3. CASE LeaveHandler
      BY <3>3 DEF LeaveHandler, ZombiesAreReaped
    <3> QED
      BY <2>3, <3>1, <3>2, <3>3 DEF HandlerStep
  <2>4. CASE Environment
    <3>1. ASSUME NEW j \in JobIds, ChildExit(j) \/ ChildKilled(j)
          PROVE  ZombiesAreReaped'
      BY <3>1 DEF ChildExit, ChildKilled, ChildEnds, ZombiesAreReaped
    <3>2. ASSUME NEW c \in Commanders, Send(c) \/ \E cmd \in Commands : Knock(c, cmd)
          PROVE  ZombiesAreReaped'
      BY <1>2, <3>2 DEF Send, Knock, os, ZombiesAreReaped
    <3> QED
      BY <2>4, <3>1, <3>2 DEF Environment
  <2>5. CASE UNCHANGED vars
    BY <1>2, <2>5 DEF vars, os, ZombiesAreReaped
  <2> QED
    BY <1>2, <2>2, <2>3, <2>4, <2>5 DEF Next
<1> QED
  BY <1>1, <1>2, Invariant, PTL DEF Spec

(* At every fork fewer children exist than the concurrency allows at that    *)
(* moment, although the number of forks was computed from an old value of    *)
(* the counter.                                                              *)
THEOREM ForksSafe == Spec => ForksWithinConcurrency
<1>1. IInv /\ [Next]_vars => [Fork => Cardinality(Children) < concurrency]_vars
  <2> SUFFICES ASSUME IInv, Fork
               PROVE  Cardinality(Children) < concurrency
    OBVIOUS
  <2>1. pc = "fork"
    BY DEF Fork
  <2>2. /\ Cardinality(Children) \in Nat /\ running \in Int /\ canRun \in Nat
        /\ concurrency \in Nat /\ handler \in Nat \cup {-1}
    BY FiniteJobs DEF Children, IInv, TypeOK
  <2>3. canRun > 0 /\ canRun - 1 + running <= concurrency
    BY <2>1 DEF IInv, SlotsLeft
  <2>4. Cardinality(Children) < running
    BY <2>1, <2>2 DEF IInv, RunningCovers
  <2> QED
    BY <2>2, <2>3, <2>4
<1> QED
  BY <1>1, Invariant, PTL DEF Spec, ForksWithinConcurrency
=============================================================================
