----------------------------- MODULE MCMTServer -----------------------------
(* Values for the constants of MTServer: menus of commands and the symmetry  *)
(* of threads that only safety runs may use.                                 *)
EXTENDS MTServer, TLC

Cmd(op, arg) == [op |-> op, arg |-> arg]

Issue == Cmd("issueJob", 0)

IssueAndStop == {Issue, Cmd("stop", 1)}

IssueVaryPoll ==
    {Issue, Cmd("setConcurrency", 1), Cmd("setConcurrency", 2), Cmd("poll", 0)}

IssueAndExit == {Issue, Cmd("exit", 0)}

AllButPoll ==
    {Issue, Cmd("stop", 1), Cmd("setConcurrency", 2), Cmd("exit", 0)}

IssueStopExitFall ==
    {Issue, Cmd("stop", 1), Cmd("exit", 0), Cmd("malformed", 0)}

Active == {c \in Clients : cpc[c] \notin {"away", "done"}}

(* State constraint: a bound on the commands that are handled at a time only *)
(* leaves behaviours out.  A run that looks for one behaviour loses nothing; *)
(* what a passing run shows is about two controllers at a time.              *)
TwoAtATime == Cardinality(Active) <= 2

NothingRun ==
    /\ \A w \in Workers : wpc[w] \notin {"run", "send"}
    /\ \A c \in Clients : \A i \in DOMAIN stream[c] :
        stream[c][i].kind # "OUTPUT"

(* State constraint of the run of the shutdown: three clients send what they *)
(* like.  To send a job astray in the drain of main takes four, two jobs in  *)
(* the buffer, an exit and a late stop: the fourth client is there for that  *)
(* stop alone, where no worker has executed a job.                           *)
Fourth == CHOOSE c \in Clients : TRUE

FourthStops ==
    cpc[Fourth] # "away" =>
        /\ command[Fourth].op = "stop"
        /\ \A c \in Clients \ {Fourth} :
                command[c].op \in {"none", "issueJob", "exit"}
        /\ TwoAtATime /\ NothingRun

ThreadSymmetry == Permutations(Workers) \cup Permutations(Clients)

ThreeSymmetry ==
    Permutations(Workers) \cup Permutations(Clients \ {Fourth})
=============================================================================
