------------------------------ MODULE JobPool ------------------------------
(***************************************************************************)
(* What a job executor promises, whatever its threads or processes do:     *)
(* jobs wait in one line of bounded length, are started from the head of   *)
(* the line while fewer than `limit' of them are in service, and end       *)
(* exactly once: served, cancelled while waiting, or turned away before    *)
(* they got into the line.  `limit' only grows: the server holds itself to *)
(* the highest concurrency it was ever given, not to the last one.         *)
(***************************************************************************)
EXTENDS Naturals, Sequences, SequencesExt, FiniteSets

CONSTANTS Jobs,         \* all jobs there can ever be
          Capacity      \* how many may wait

VARIABLES line,         \* the waiting jobs, first come first
          inService,    \* the jobs being executed
          ended,        \* the jobs that are over
          limit         \* how many may be executed at a time

poolVars == <<line, inService, ended, limit>>

Known == ToSet(line) \cup inService \cup ended

PoolInit == line = <<>> /\ inService = {} /\ ended = {} /\ limit = 1

Submit(j) ==
    /\ line' = Append(line, j)
    /\ j \notin Known /\ Len(line) < Capacity
    /\ UNCHANGED <<inService, ended, limit>>

Start ==
    /\ line # <<>> /\ Cardinality(inService) < limit
    /\ inService' = inService \cup {Head(line)}
    /\ line' = Tail(line)
    /\ UNCHANGED <<ended, limit>>

Finish(j) ==
    /\ j \in inService
    /\ inService' = inService \ {j}
    /\ ended' = ended \cup {j}
    /\ UNCHANGED <<line, limit>>

Cancel(i) ==
    /\ ended' = ended \cup {line[i]}
    /\ line' = RemoveAt(line, i)
    /\ UNCHANGED <<inService, limit>>

TurnAway(j) ==
    /\ j \in Jobs \ Known
    /\ ended' = ended \cup {j}
    /\ UNCHANGED <<line, inService, limit>>

Allow ==
    /\ limit' \in Nat /\ limit' > limit
    /\ UNCHANGED <<line, inService, ended>>

PoolNext ==
    \/ \E j \in Jobs : Submit(j)
    \/ \E j \in ended' : TurnAway(j)
    \/ Start
    \/ \E j \in inService : Finish(j)
    \/ \E i \in DOMAIN line : Cancel(i)
    \/ Allow

PoolSpec == PoolInit /\ [][PoolNext]_poolVars
=============================================================================
