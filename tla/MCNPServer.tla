----------------------------- MODULE MCNPServer -----------------------------
(* Values for the constants of NPServer: menus of commands.                  *)
EXTENDS NPServer, TLC

Cmd(op, arg) == [op |-> op, arg |-> arg]

Issue == Cmd("issueJob", 0)

IssueOnly == {Issue}

IssueAndSet == {Issue, Cmd("setConcurrency", 2)}

IssueSetExit == IssueAndSet \cup {Cmd("exit", 0)}

AllCommands ==
    {Issue, Cmd("setConcurrency", 2), Cmd("stop", 1),
     Cmd("poll", 0), Cmd("exit", 0), Cmd("malformed", 0)}

CommanderSymmetry == Permutations(Commanders)
=============================================================================
