------------------------------ MODULE JobQueue ------------------------------
(* The list of jobs behind both servers (class my_queue): a sequence of      *)
(* records with an id.  Positions count from 1, as queue_position and erase  *)
(* do; -1 says "not there".                                                  *)
EXTENDS Integers, Sequences, SequencesExt

Top(q) == Head(q)

\* The Faulty definitions are bugs the properties must be able to see.
FaultyPop(q) == q

Pop(q) == Tail(q)

FaultyPush(q, job) == <<job>> \o q

Push(q, job) == Append(q, job)

Holds(q, id) == \E i \in DOMAIN q : q[i].id = id

(* The loop returns at the first match. *)
QueuePosition(q, id) ==
    IF Holds(q, id)
    THEN CHOOSE i \in DOMAIN q :
            q[i].id = id /\ \A j \in 1 .. (i - 1) : q[j].id # id
    ELSE -1

(* assert((pos >= 1) && (pos <= size)) is the caller's duty. *)
Erase(q, pos) == RemoveAt(q, pos)
=============================================================================
