------------------------- MODULE NPHandshake_proofs -------------------------
(* What the commanders and the servers of the named-pipes program can rely   *)
(* on when they look for each other, for any number of commanders and of the *)
(* servers that they start, any menu of commands, with and without commanders *)
(* that are killed.                                                          *)
EXTENDS NPHandshake, JobQueue_proofs

-----------------------------------------------------------------------------
(* The parts of the inductive invariant behind TypeOK, PipesAreThere,        *)
(* ExitCleansUp and ServerIsReachable                                        *)

Holding == {"opening", "loop", "admit", "meet", "eof", "serve", "words",
            "answer", "write", "closing", "spinning"}

(* Who has which end of a server.pipe open.                                  *)
EndsOpen ==
    /\ \A s \in Commanders : (on[s] # Nobody) <=> (spc[s] \in Holding)
    /\ \A c \in Commanders :
          cpc[c] \in {"opening", "knock", "close"} => at[c] # Nobody

Unheard == {"away", "fork", "wait", "mkfifo", "open", "opening", "knock",
            "close", "openw", "count"}

(* What a commander has done so far.                                         *)
Progress ==
    \A c \in Commanders :
        /\ cpc[c] \in {"away", "fork"} => spc[c] = "none"
        /\ cpc[c] \in {"open", "opening", "knock"} => c \in fifos
        /\ cpc[c] \in Unheard => command[c] = "none"
        /\ cpc[c] = "send" => command[c] = "counted"

(* A pid is in one place only: in a server.pipe, in the hands of a server    *)
(* that opens its FIFO, in active_commanders, in the hands of a server that  *)
(* answers; and its commander is where that place expects it, or was killed. *)
Announced ==
    \A i \in Commanders : \A k \in DOMAIN data[i] :
        /\ cpc[data[i][k]] \in {"close", "openw", "gone"}
        /\ data[i][k] \in fifos
        /\ \A j \in Commanders : \A m \in DOMAIN data[j] :
              data[j][m] = data[i][k] => j = i /\ m = k

AtMeet ==
    \A s \in Commanders : spc[s] = "meet" =>
        /\ cpc[cur[s]] \in {"close", "openw", "gone"} /\ cur[s] \in fifos
        /\ \A i \in Commanders : \A k \in DOMAIN data[i] : data[i][k] # cur[s]
        /\ \A r \in Commanders : spc[r] = "meet" /\ cur[r] = cur[s] => r = s

Listed ==
    \A s \in Commanders : \A k \in DOMAIN active[s] :
        /\ cpc[active[s][k]] \in {"count", "send", "openr", "gone"}
        /\ active[s][k] \in fifos
        /\ \A r \in Commanders : \A m \in DOMAIN active[r] :
              active[r][m] = active[s][k] => r = s /\ m = k
        /\ \A r \in Commanders : spc[r] = "answer" => cur[r] # active[s][k]

AtAnswer ==
    \A s \in Commanders :
        /\ spc[s] = "words" => cur[s] \in Range(active[s])
        /\ spc[s] = "answer" =>
              /\ cpc[cur[s]] \in {"openr", "gone"} /\ cur[s] \in fifos
              /\ \A r \in Commanders :
                    spc[r] = "answer" /\ cur[r] = cur[s] => r = s

(* A file that is there has a server that will remove it or has fallen; and  *)
(* servers that did not race come one after the other.                       *)
OneAfterAnother ==
    /\ txt => \E s \in Commanders : spc[s] \notin {"none", "start", "ended"}
    /\ pipe # Nobody =>
          \E s \in Commanders :
              spc[s] \notin {"none", "start", "mkfifo", "unlinktxt", "ended"}
    /\ ~raced =>
          /\ \A s \in Commanders : spc[s] \notin {"none", "start", "ended"} => txt
          /\ \A s, r \in Commanders : {spc[s], spc[r]} \cap {"none", "ended"} = {}
                                         => r = s
          /\ \A s \in Commanders : spc[s] \in Holding => on[s] = pipe

IInv == /\ TypeOK /\ EndsOpen /\ Progress /\ Announced /\ AtMeet /\ Listed
        /\ AtAnswer /\ OneAfterAnother

-----------------------------------------------------------------------------
LEMMA Facts ==
    ASSUME TypeOK
    PROVE  /\ cpc \in [Commanders -> CommanderPlaces]
           /\ spc \in [Commanders -> ServerPlaces]
           /\ at \in [Commanders -> Commanders \cup {Nobody}]
           /\ on \in [Commanders -> Commanders \cup {Nobody}]
           /\ cur \in [Commanders -> Commanders \cup {Nobody}]
           /\ data \in [Commanders -> Seq(Commanders)]
           /\ active \in [Commanders -> Seq(Commanders)]
           /\ ready \in [Commanders -> SUBSET Commanders]
           /\ command \in [Commanders -> {"none", "counted"} \cup Commands]
           /\ \A s \in Commanders : cur[s] \in Commanders <=> spc[s] \in Busy
           /\ pipe \in Commanders \cup {Nobody} /\ Nobody \notin Commanders
BY HandshakeAssumption DEF TypeOK

LEMMA Entries ==
    ASSUME NEW q \in Seq(Commanders)
    PROVE  /\ Len(q) \in Nat /\ DOMAIN q = 1 .. Len(q)
           /\ \A k \in DOMAIN q : q[k] \in Commanders
BY LenProperties

-----------------------------------------------------------------------------
(* What the kernel does when a process closes its end or is over             *)

Loses == /\ data' \in [Commanders -> Seq(Commanders)]
         /\ \A i \in Commanders : data'[i] \in {data[i], <<>>}

LEMMA NothingLost ==
    ASSUME TypeOK, data' = data
    PROVE  Loses
BY DEF TypeOK, Loses

LEMMA DiscardLoses ==
    ASSUME TypeOK, NEW i \in Commanders \cup {Nobody}, Discard(i) \/ data' = data
    PROVE  Loses
<1>1. <<>> \in Seq(Commanders)
  BY EmptySeq
<1>2. CASE data' = data
  BY <1>2, NothingLost
<1>3. CASE Discard(i) /\ i \in Commanders
  <2>1. CASE data' = data
    BY <2>1, NothingLost
  <2>2. CASE data' = [data EXCEPT ![i] = <<>>]
    <3>1. data \in [Commanders -> Seq(Commanders)]
      BY Facts
    <3>2. data' \in [Commanders -> Seq(Commanders)]
      BY <1>1, <2>2, <3>1
    <3> QED
      BY <2>2, <3>1, <3>2 DEF Loses
  <2> QED
    BY <1>3, <2>1, <2>2 DEF Discard
<1>4. CASE Discard(i) /\ i = Nobody
  BY <1>4, NothingLost DEF Discard
<1> QED
  BY <1>2, <1>3, <1>4

LEMMA ReadEndCloses ==
    ASSUME TypeOK, NEW s \in Commanders, CloseRead(s)
    PROVE  Loses /\ on' = [on EXCEPT ![s] = Nobody]
<1>1. on[s] \in Commanders \cup {Nobody} /\ (Discard(on[s]) \/ data' = data)
  BY Facts DEF CloseRead
<1> QED
  BY <1>1, DiscardLoses DEF CloseRead

LEMMA WriteEndCloses ==
    ASSUME TypeOK, NEW c \in Commanders, CloseWrite(c)
    PROVE  Loses /\ at' = [at EXCEPT ![c] = Nobody]
<1>1. at[c] \in Commanders \cup {Nobody} /\ (Discard(at[c]) \/ data' = data)
  BY Facts DEF CloseWrite
<1> QED
  BY <1>1, DiscardLoses DEF CloseWrite

(* Server s ends one way or the other.                                       *)
Ends(s, how) ==
    /\ Loses
    /\ spc' = [spc EXCEPT ![s] = how]
    /\ on' = [on EXCEPT ![s] = Nobody]
    /\ nonblock' = [nonblock EXCEPT ![s] = FALSE]
    /\ met' = [met EXCEPT ![s] = FALSE]
    /\ ready' = [ready EXCEPT ![s] = {}]
    /\ active' = [active EXCEPT ![s] = <<>>]
    /\ cur' = [cur EXCEPT ![s] = Nobody]

LEMMA ServerEnds ==
    ASSUME TypeOK, NEW s \in Commanders, NEW how, ServerOver(s, how)
    PROVE  Ends(s, how)
BY ReadEndCloses DEF ServerOver, ServerAt, Ends

-----------------------------------------------------------------------------
(* The steps                                                                 *)

(* What a server does in which nothing is read but a word or a pid: its      *)
(* place moves from one to the other.                                        *)
Falls(s) ==
    /\ Ends(s, "fallen")
    /\ spc[s] \notin {"none", "ended", "fallen", "start", "mkfifo", "unlinktxt"}
    /\ UNCHANGED <<files, cpc, at, command, jobs, answered, raced>>

(* The empty server.pipe that nobody has open for writing.                   *)
EndOfFile(s) ==
    /\ spc[s] = "admit" /\ ServerAt(s, "eof")
    /\ UNCHANGED <<files, data, cpc, at, command, readEnd, round, jobs, answered,
                   raced>>

(* The other steps.                                                          *)
Goes(s) == \/ CreateTxt(s) \/ MakeServerPipe(s)
           \/ FirstOpen(s) /\ pipe # Nobody
           \/ Select(s)
           \/ ReadPid(s) /\ Head(data[on[s]]) \in fifos
           \/ EndOfFile(s)
           \/ Meet(s) \/ CloseAtEof(s)
           \/ Reopen(s) /\ pipe # Nobody
           \/ ReadCount(s) /\ ServerAt(s, "words")
           \/ ReadWords(s) /\ spc'[s] # "fallen"
           \/ OpenAnswer(s)
           \/ Write(s) /\ ~Gone(cur[s])
           \/ SweepDone(s) \/ CloseServer(s)
           \/ UnlinkPipe(s) /\ pipe # Nobody
           \/ UnlinkTxt(s)

LEMMA FallingSteps ==
    ASSUME TypeOK, NEW s \in Commanders,
           ServerStep(s) \/ Interrupted(s), ~Falls(s)
    PROVE  Goes(s)
<1>1. CASE FirstOpen(s) \/ Reopen(s)
  BY <1>1, ServerEnds DEF FirstOpen, Reopen, Falls, Goes
<1>2. CASE ReadPid(s)
  BY <1>2, ServerEnds DEF ReadPid, Falls, Goes
<1>3. CASE ReadNoPid(s)
  BY <1>3, ServerEnds DEF ReadNoPid, Falls, EndOfFile, Goes
<1>4. CASE ReadCount(s)
  BY <1>4, ServerEnds DEF ReadCount, Falls, Goes
<1>5. CASE ReadWords(s)
  <2>1. ~ServerOver(s, "fallen")
    BY <1>5, ServerEnds DEF ReadWords, Falls, Goes
  <2> QED
    BY <1>5, <2>1, Facts DEF ReadWords, ServerAt, Goes
<1>6. CASE Write(s)
  BY <1>6, ServerEnds DEF Write, Falls, Goes
<1>7. CASE UnlinkPipe(s)
  BY <1>7, ServerEnds DEF UnlinkPipe, Falls, files, Goes
<1>8. CASE Interrupted(s)
  BY <1>8, ServerEnds DEF Interrupted, Waits, Falls, Goes
<1> QED
  BY <1>1, <1>2, <1>3, <1>4, <1>5, <1>6, <1>7, <1>8 DEF ServerStep, Goes

-----------------------------------------------------------------------------
(* Types                                                                     *)

LEMMA FileTypes ==
    ASSUME TypeOK, [Next]_vars
    PROVE  /\ txt' \in BOOLEAN /\ raced' \in BOOLEAN
           /\ pipe' \in Commanders \cup {Nobody}
           /\ fifos' \subseteq Commanders /\ answered' \subseteq Commanders
<1> USE DEF files
<1>1. CASE \E p \in Commanders : CommanderStep(p) \/ Killed(p)
  BY <1>1 DEF TypeOK, CommanderStep, Killed, Look, Fork, AwaitServer, MakeFifos,
     OpenServerPipe, Knock, CloseServerPipe, SendCount, SendWords, ReadAnswer,
     RemoveFifos
<1>2. ASSUME NEW s \in Commanders, ServerStep(s) \/ Interrupted(s)
      PROVE  /\ txt' \in BOOLEAN /\ raced' \in BOOLEAN
             /\ pipe' \in Commanders \cup {Nobody}
             /\ fifos' \subseteq Commanders /\ answered' \subseteq Commanders
  <2>1. /\ txt \in BOOLEAN /\ raced \in BOOLEAN
        /\ pipe \in Commanders \cup {Nobody}
        /\ fifos \subseteq Commanders /\ answered \subseteq Commanders
    BY DEF TypeOK
  <2>2. spc[s] = "write" => cur[s] \in Commanders
    BY Facts DEF Busy
  <2>3. raced' = raced /\ fifos' = fifos
    BY <1>2 DEF ServerStep, Interrupted, CreateTxt, MakeServerPipe,
       FirstOpen, Select, ReadPid, ReadNoPid, Meet, CloseAtEof, Reopen, ReadCount,
       ReadWords, OpenAnswer, Write, SweepDone, CloseServer, UnlinkPipe, UnlinkTxt
  <2>4. txt' \in BOOLEAN
    BY <1>2, <2>1 DEF ServerStep, Interrupted, CreateTxt, MakeServerPipe,
       FirstOpen, Select, ReadPid, ReadNoPid, Meet, CloseAtEof, Reopen, ReadCount,
       ReadWords, OpenAnswer, Write, SweepDone, CloseServer, UnlinkPipe, UnlinkTxt
  <2>5. pipe' \in {pipe, s, Nobody}
    BY <1>2 DEF ServerStep, Interrupted, CreateTxt, MakeServerPipe,
       FirstOpen, Select, ReadPid, ReadNoPid, Meet, CloseAtEof, Reopen, ReadCount,
       ReadWords, OpenAnswer, Write, SweepDone, CloseServer, UnlinkPipe, UnlinkTxt
  <2>6. CASE Write(s)
    BY <2>1, <2>2, <2>3, <2>4, <2>5, <2>6 DEF Write
  <2>7. CASE ~Write(s)
    <3>1. answered' = answered
      BY <1>2, <2>7 DEF ServerStep, Interrupted, CreateTxt, MakeServerPipe,
         FirstOpen, Select, ReadPid, ReadNoPid, Meet, CloseAtEof, Reopen, ReadCount,
         ReadWords, OpenAnswer, SweepDone, CloseServer, UnlinkPipe, UnlinkTxt
    <3> QED
      BY <2>1, <2>3, <2>4, <2>5, <3>1
  <2> QED
    BY <2>6, <2>7
<1>3. CASE UNCHANGED vars
  BY <1>3 DEF TypeOK, vars
<1> QED
  BY <1>1, <1>2, <1>3 DEF Next

(* The places, and what the commanders have sent.                            *)
LEMMA PlaceTypes ==
    ASSUME TypeOK, [Next]_vars
    PROVE  /\ cpc' \in [Commanders -> CommanderPlaces]
           /\ spc' \in [Commanders -> ServerPlaces]
           /\ command' \in [Commanders -> {"none", "counted"} \cup Commands]
           /\ jobs' \in [Commanders -> {"none", "queued", "started"}]
<1> USE DEF CommanderPlaces, ServerPlaces
<1>1. /\ cpc \in [Commanders -> CommanderPlaces]
      /\ spc \in [Commanders -> ServerPlaces]
      /\ command \in [Commanders -> {"none", "counted"} \cup Commands]
      /\ jobs \in [Commanders -> {"none", "queued", "started"}]
  BY DEF TypeOK
<1>2. ASSUME NEW p \in Commanders, CommanderStep(p) \/ Killed(p)
      PROVE  /\ cpc' \in [Commanders -> CommanderPlaces]
             /\ spc' \in [Commanders -> ServerPlaces]
             /\ command' \in [Commanders -> {"none", "counted"} \cup Commands]
             /\ jobs' \in [Commanders -> {"none", "queued", "started"}]
  BY <1>1, <1>2 DEF CommanderStep, Killed, Look, Fork, AwaitServer, MakeFifos,
     OpenServerPipe, Knock, CloseServerPipe, SendCount, SendWords, ReadAnswer,
     RemoveFifos, CommanderOver, CommanderAt, ServerAt
<1>3. ASSUME NEW s \in Commanders, ServerStep(s) \/ Interrupted(s)
      PROVE  /\ command' \in [Commanders -> {"none", "counted"} \cup Commands]
             /\ jobs' \in [Commanders -> {"none", "queued", "started"}]
             /\ cpc' \in [Commanders -> CommanderPlaces]
             /\ \E to \in ServerPlaces : ServerAt(s, to)
  BY <1>1, <1>3 DEF ServerStep, Interrupted, CreateTxt, MakeServerPipe,
     FirstOpen, Select, ReadPid, ReadNoPid, Meet, CloseAtEof, Reopen, ReadCount,
     ReadWords, OpenAnswer, Write, SweepDone, CloseServer, UnlinkPipe, UnlinkTxt,
     OpenRead, ServerOver, CommanderAt
<1>4. CASE UNCHANGED vars
  BY <1>1, <1>4 DEF vars
<1> QED
  BY <1>1, <1>2, <1>3, <1>4 DEF Next, ServerAt

(* Who has what open.                                                        *)
LEMMA EndTypes ==
    ASSUME TypeOK, [Next]_vars
    PROVE  /\ {at', on'} \subseteq [Commanders -> Commanders \cup {Nobody}]
           /\ {nonblock', met'} \subseteq [Commanders -> BOOLEAN]
<1> USE DEF readEnd
<1>1. /\ at \in [Commanders -> Commanders \cup {Nobody}]
      /\ on \in [Commanders -> Commanders \cup {Nobody}]
      /\ nonblock \in [Commanders -> BOOLEAN] /\ met \in [Commanders -> BOOLEAN]
      /\ pipe \in Commanders \cup {Nobody}
  BY DEF TypeOK
<1>2. ASSUME NEW p \in Commanders, CommanderStep(p) \/ Killed(p)
      PROVE  /\ at' \in [Commanders -> Commanders \cup {Nobody}]
             /\ met' \in [Commanders -> BOOLEAN] /\ UNCHANGED <<on, nonblock>>
  BY <1>1, <1>2 DEF CommanderStep, Killed, Look, Fork, AwaitServer, MakeFifos,
     OpenServerPipe, Knock, CloseServerPipe, SendCount, SendWords, ReadAnswer,
     RemoveFifos, CommanderOver, CloseWrite
<1>3. ASSUME NEW s \in Commanders, ServerStep(s) \/ Interrupted(s)
      PROVE  /\ at' = at /\ on' \in [Commanders -> Commanders \cup {Nobody}]
             /\ nonblock' \in [Commanders -> BOOLEAN]
             /\ met' \in [Commanders -> BOOLEAN]
  BY <1>1, <1>3 DEF ServerStep, Interrupted, CreateTxt, MakeServerPipe,
     FirstOpen, Select, ReadPid, ReadNoPid, Meet, CloseAtEof, Reopen, ReadCount,
     ReadWords, OpenAnswer, Write, SweepDone, CloseServer, UnlinkPipe, UnlinkTxt,
     OpenRead, ServerOver, CloseRead
<1>4. CASE UNCHANGED vars
  BY <1>1, <1>4 DEF vars
<1> QED
  BY <1>1, <1>2, <1>3, <1>4 DEF Next

LEMMA DataTypes ==
    ASSUME TypeOK, EndsOpen, [Next]_vars
    PROVE  data' \in [Commanders -> Seq(Commanders)]
<1>1. data \in [Commanders -> Seq(Commanders)]
  BY Facts
<1>2. ASSUME NEW c \in Commanders, CommanderStep(c) \/ Killed(c)
      PROVE  data' \in [Commanders -> Seq(Commanders)]
  <2>1. CASE data' = data
    BY <1>1, <2>1
  <2>2. CASE CloseWrite(c)
    BY <2>2, WriteEndCloses DEF Loses
  <2>3. CASE Knock(c) /\ data' = [data EXCEPT ![at[c]] = Append(@, c)]
    <3>1. at[c] \in Commanders
      BY <2>3, Facts DEF Knock, EndsOpen
    <3>2. Append(data[at[c]], c) \in Seq(Commanders)
      BY <1>1, <3>1, AppendProperties
    <3> QED
      BY <1>1, <2>3, <3>1, <3>2
  <2> QED
    BY <1>2, <2>1, <2>2, <2>3 DEF CommanderStep, Killed, Look, Fork, AwaitServer,
       MakeFifos, OpenServerPipe, Knock, CloseServerPipe, SendCount, SendWords,
       ReadAnswer, RemoveFifos, CommanderOver
<1>3. ASSUME NEW s \in Commanders, ServerStep(s) \/ Interrupted(s)
      PROVE  data' \in [Commanders -> Seq(Commanders)]
  <2>1. CASE data' = data
    BY <1>1, <2>1
  <2>2. CASE Falls(s) \/ \E how : ServerOver(s, how)
    BY <2>2, ServerEnds DEF Falls, Ends, Loses
  <2>3. CASE CloseRead(s)
    BY <2>3, ReadEndCloses DEF Loses
  <2>4. CASE ReadPid(s) /\ Head(data[on[s]]) \in fifos
    <3>1. on[s] \in Commanders
      BY <2>4, Facts DEF ReadPid, EndsOpen, Holding
    <3>2. Tail(data[on[s]]) \in Seq(Commanders)
      BY <1>1, <2>4, <3>1, HeadTailProperties DEF ReadPid
    <3> QED
      BY <1>1, <2>4, <3>1, <3>2 DEF ReadPid
  <2> QED
    BY <1>3, <2>1, <2>2, <2>3, <2>4, FallingSteps DEF Goes, CreateTxt, MakeServerPipe,
       FirstOpen, Select, EndOfFile, Meet, CloseAtEof, Reopen, ReadCount,
       ReadWords, OpenAnswer, Write, SweepDone, CloseServer, UnlinkPipe, UnlinkTxt
<1>4. CASE UNCHANGED vars
  BY <1>1, <1>4 DEF vars
<1> QED
  BY <1>2, <1>3, <1>4 DEF Next

(* An entry of active_commanders is erased.                                  *)
LEMMA EntryErased ==
    ASSUME NEW q \in Seq(Commanders), NEW i \in DOMAIN q
    PROVE  /\ RemoveAt(q, i) \in Seq(Commanders)
           /\ Inherits(RemoveAt(q, i), q)
           /\ \A k \in DOMAIN RemoveAt(q, i) :
                \E m \in DOMAIN q : m # i /\ RemoveAt(q, i)[k] = q[m]
BY Entries, EraseShortens, EraseKeeps DEF Erase

LEMMA RoundTypes ==
    ASSUME TypeOK, EndsOpen, [Next]_vars
    PROVE  /\ ready' \in [Commanders -> SUBSET Commanders]
           /\ active' \in [Commanders -> Seq(Commanders)]
           /\ cur' \in [Commanders -> Commanders \cup {Nobody}]
<1> USE DEF round
<1>1. /\ ready \in [Commanders -> SUBSET Commanders]
      /\ active \in [Commanders -> Seq(Commanders)]
      /\ cur \in [Commanders -> Commanders \cup {Nobody}]
      /\ <<>> \in Seq(Commanders)
  BY Facts, EmptySeq
<1>2. CASE UNCHANGED <<ready, active, cur>>
  BY <1>1, <1>2
<1>3. ASSUME NEW p \in Commanders, CommanderStep(p) \/ Killed(p)
      PROVE  UNCHANGED <<ready, active, cur>>
  BY <1>3 DEF CommanderStep, Killed, Look, Fork, AwaitServer, MakeFifos,
     OpenServerPipe, Knock, CloseServerPipe, SendCount, SendWords, ReadAnswer,
     RemoveFifos
<1>4. ASSUME NEW s \in Commanders, ServerStep(s) \/ Interrupted(s)
      PROVE  /\ ready' \in [Commanders -> SUBSET Commanders]
             /\ active' \in [Commanders -> Seq(Commanders)]
             /\ cur' \in [Commanders -> Commanders \cup {Nobody}]
  <2>1. CASE \E how : Ends(s, how)
    BY <1>1, <2>1 DEF Ends
  <2>2. CASE Select(s)
    <3>1. Readable(s) \in SUBSET Commanders
      BY Facts, Entries DEF Readable, Range
    <3> QED
      BY <1>1, <2>2, <3>1 DEF Select
  <2>3. CASE ReadPid(s) /\ Head(data[on[s]]) \in fifos
    <3>1. Head(data[on[s]]) \in Commanders
      BY <2>3 DEF TypeOK
    <3> QED
      BY <1>1, <2>3, <3>1 DEF ReadPid
  <2>4. CASE Meet(s)
    <3>1. cur[s] \in Commanders
      BY <2>4, Facts DEF Meet, Busy
    <3>2. Append(active[s], cur[s]) \in Seq(Commanders)
      BY <1>1, <3>1, AppendProperties
    <3> QED
      BY <1>1, <2>4, <3>2 DEF Meet
  <2>5. CASE ReadCount(s) /\ ServerAt(s, "words")
    <3>1. \A i \in ToServe(s) : active[s][i] \in Commanders
      BY Facts, Entries DEF ToServe
    <3>2. PICK i \in ToServe(s) :
              IF command[active[s][i]] = "none" THEN ServerOver(s, "fallen")
              ELSE cur' = [cur EXCEPT ![s] = active[s][i]] /\ UNCHANGED <<ready, active>>
      BY <2>5 DEF ReadCount
    <3>3. CASE ServerOver(s, "fallen")
      BY <2>1, <3>3, ServerEnds
    <3> QED
      BY <1>1, <3>1, <3>2, <3>3
  <2>6. CASE ReadWords(s) /\ spc'[s] # "fallen"
    <3>1. CASE \E i \in DOMAIN active[s] :
                  /\ active' = [active EXCEPT ![s] = RemoveAt(@, i)]
                  /\ UNCHANGED <<ready, cur>>
      <4>1. PICK i \in DOMAIN active[s] : active' = [active EXCEPT ![s] = RemoveAt(@, i)]
        BY <3>1
      <4>2. RemoveAt(active[s], i) \in Seq(Commanders)
        BY <1>1, EntryErased
      <4> QED
        BY <1>1, <3>1, <4>1, <4>2
    <3> QED
      BY <1>2, <2>1, <2>6, <3>1, ServerEnds DEF ReadWords
  <2>7. CASE Write(s) /\ ~Gone(cur[s])
    <3>1. /\ ready' = ready /\ cur' = [cur EXCEPT ![s] = Nobody]
          /\ \/ active' = [active EXCEPT ![s] = <<>>]
             \/ active' = [active EXCEPT ![s] = @]
      BY <2>7 DEF Write
    <3> QED
      BY <1>1, <3>1
  <2>8. CASE SweepDone(s)
    BY <1>1, <2>8 DEF SweepDone
  <2>9. CASE UnlinkTxt(s)
    BY <2>1, <2>9, ServerEnds DEF UnlinkTxt
  <2> QED
    BY <1>2, <1>4, <2>1, <2>2, <2>3, <2>4, <2>5, <2>6, <2>7, <2>8, <2>9,
       FallingSteps DEF Goes, Falls, CreateTxt, MakeServerPipe, FirstOpen, EndOfFile,
       CloseAtEof, Reopen, OpenAnswer, CloseServer, UnlinkPipe
<1>5. CASE UNCHANGED vars
  BY <1>2, <1>5 DEF vars
<1> QED
  BY <1>2, <1>3, <1>4, <1>5 DEF Next

-----------------------------------------------------------------------------
(* Descriptors, progress, files                                              *)

(* What a commander's step does to the servers.                              *)
LEMMA CommanderMoves ==
    ASSUME TypeOK, Progress, NEW c \in Commanders, CommanderStep(c) \/ Killed(c)
    PROVE  /\ UNCHANGED <<on, cur, active, pipe, txt, answered>>
           /\ \A d \in Commanders : d # c => cpc'[d] = cpc[d]
           /\ \A s \in Commanders :
                \/ spc'[s] = spc[s]
                \/ spc[s] = "opening" /\ spc'[s] = "loop"
                \/ Fork(c) /\ s = c /\ spc[s] = "none" /\ spc'[s] = "start"
<1>1. UNCHANGED <<on, cur, active, pipe, txt, answered>>
  BY DEF CommanderStep, Killed, Look, Fork, AwaitServer, MakeFifos,
     OpenServerPipe, Knock, CloseServerPipe, SendCount, SendWords, ReadAnswer,
     RemoveFifos, CommanderOver, readEnd, round, files
<1>2. \A d \in Commanders : d # c => cpc'[d] = cpc[d]
  BY Facts DEF CommanderStep, Killed, Look, Fork, AwaitServer, MakeFifos,
     OpenServerPipe, Knock, CloseServerPipe, SendCount, SendWords, ReadAnswer,
     RemoveFifos, CommanderOver, CommanderAt
<1>3. CASE Fork(c)
  <2>1. spc[c] = "none" /\ spc' = [spc EXCEPT ![c] = "start"]
    BY <1>3 DEF Fork, ServerAt, Progress
  <2> QED
    BY <1>1, <1>2, <1>3, <2>1, Facts
<1>4. CASE ~Fork(c)
  <2>1. \A s \in Commanders : spc'[s] = spc[s] \/ (spc[s] = "opening" /\ spc'[s] = "loop")
    BY <1>4, Facts DEF CommanderStep, Killed, Look, AwaitServer, MakeFifos,
       OpenServerPipe, Knock, CloseServerPipe, SendCount, SendWords, ReadAnswer,
       RemoveFifos
  <2> QED
    BY <1>1, <1>2, <2>1
<1> QED
  BY <1>3, <1>4

(* What a server's step does to the commanders and the other servers.        *)
LEMMA ServerMoves ==
    ASSUME TypeOK, NEW s \in Commanders, ServerStep(s) \/ Interrupted(s)
    PROVE  /\ UNCHANGED <<at, command, fifos, raced>>
           /\ \E to \in ServerPlaces : spc' = [spc EXCEPT ![s] = to]
           /\ \A r \in Commanders : r # s =>
                spc'[r] = spc[r] /\ on'[r] = on[r] /\ cur'[r] = cur[r]
                /\ active'[r] = active[r]
           /\ \A c \in Commanders :
                \/ cpc'[c] = cpc[c]
                \/ cpc[c] = "opening" /\ cpc'[c] = "knock"
                \/ Meet(s) /\ c = cur[s] /\ cpc[c] = "openw" /\ cpc'[c] = "count"
                \/ OpenAnswer(s) /\ c = cur[s] /\ cpc[c] = "openr" /\ cpc'[c] = "read"
<1>1. UNCHANGED <<at, command, fifos, raced>>
  BY DEF ServerStep, Interrupted, CreateTxt, MakeServerPipe, FirstOpen, Select,
     ReadPid, ReadNoPid, Meet, CloseAtEof, Reopen, ReadCount, ReadWords,
     OpenAnswer, Write, SweepDone, CloseServer, UnlinkPipe, UnlinkTxt, files
<1>2. \E to \in ServerPlaces : spc' = [spc EXCEPT ![s] = to]
  BY DEF ServerStep, Interrupted, CreateTxt, MakeServerPipe, FirstOpen, Select,
     ReadPid, ReadNoPid, Meet, CloseAtEof, Reopen, ReadCount, ReadWords,
     OpenAnswer, Write, SweepDone, CloseServer, UnlinkPipe, UnlinkTxt, OpenRead,
     ServerOver, ServerAt, ServerPlaces
<1>3. \A r \in Commanders : r # s =>
          on'[r] = on[r] /\ cur'[r] = cur[r] /\ active'[r] = active[r]
  BY Facts DEF ServerStep, Interrupted, CreateTxt, MakeServerPipe, FirstOpen,
     Select, ReadPid, ReadNoPid, Meet, CloseAtEof, Reopen, ReadCount, ReadWords,
     OpenAnswer, Write, SweepDone, CloseServer, UnlinkPipe, UnlinkTxt, OpenRead,
     ServerOver, CloseRead, readEnd, round
<1>4. \A c \in Commanders :
          \/ cpc'[c] = cpc[c]
          \/ cpc[c] = "opening" /\ cpc'[c] = "knock"
          \/ Meet(s) /\ c = cur[s] /\ cpc[c] = "openw" /\ cpc'[c] = "count"
          \/ OpenAnswer(s) /\ c = cur[s] /\ cpc[c] = "openr" /\ cpc'[c] = "read"
  <2>1. CASE Meet(s) \/ OpenAnswer(s)
    BY <2>1, Facts DEF Meet, OpenAnswer, CommanderAt
  <2>2. CASE ~(Meet(s) \/ OpenAnswer(s))
    <3>1. cpc' = cpc \/ cpc' = [c \in Commanders |->
              IF cpc[c] = "opening" /\ at[c] = pipe THEN "knock" ELSE cpc[c]]
      BY <2>2 DEF ServerStep, Interrupted, CreateTxt, MakeServerPipe, FirstOpen,
         Select, ReadPid, ReadNoPid, CloseAtEof, Reopen, ReadCount, ReadWords,
         Write, SweepDone, CloseServer, UnlinkPipe, UnlinkTxt, OpenRead
    <3> QED
      BY <3>1
  <2> QED
    BY <2>1, <2>2
<1>5. \A r \in Commanders : r # s => spc'[r] = spc[r]
  BY <1>2, Facts
<1> QED
  BY <1>1, <1>2, <1>3, <1>4, <1>5

LEMMA EndsNext ==
    ASSUME TypeOK, EndsOpen, Progress, [Next]_vars
    PROVE  EndsOpen'
<1> USE DEF EndsOpen
<1>1. ASSUME NEW c \in Commanders, CommanderStep(c) \/ Killed(c)
      PROVE  EndsOpen'
  <2>1. \A s \in Commanders : (on'[s] # Nobody) <=> (spc'[s] \in Holding)
    BY <1>1, CommanderMoves DEF Holding
  <2>2. \A d \in Commanders : d # c => at'[d] = at[d] /\ cpc'[d] = cpc[d]
    BY <1>1, Facts, CommanderMoves DEF CommanderStep, Killed, Look, Fork,
       AwaitServer, MakeFifos, OpenServerPipe, Knock, CloseServerPipe, SendCount,
       SendWords, ReadAnswer, RemoveFifos, CommanderOver, CloseWrite
  <2>3. cpc'[c] \in {"opening", "knock", "close"} => at'[c] # Nobody
    BY <1>1, Facts DEF CommanderStep, Killed, Look, Fork,
       AwaitServer, MakeFifos, OpenServerPipe, Knock, CloseServerPipe, SendCount,
       SendWords, ReadAnswer, RemoveFifos, CommanderOver, CommanderAt
  <2> QED
    BY <2>1, <2>2, <2>3
<1>2. ASSUME NEW s \in Commanders, ServerStep(s) \/ Interrupted(s)
      PROVE  EndsOpen'
  <2>1. (on'[s] # Nobody) <=> (spc'[s] \in Holding)
    <3> USE DEF Holding, readEnd
    <3>1. CASE \E how \in Over : Ends(s, how)
      BY <3>1, Facts DEF Ends, Over
    <3>2. CASE (FirstOpen(s) \/ Reopen(s)) /\ pipe # Nobody
      BY <3>2, Facts DEF FirstOpen, Reopen, OpenRead, ServerAt
    <3>3. CASE CloseAtEof(s) \/ CloseServer(s)
      BY <3>3, ReadEndCloses, Facts DEF CloseAtEof, CloseServer, ServerAt
    <3>4. CASE UnlinkTxt(s)
      BY <3>1, <3>4, ServerEnds DEF UnlinkTxt, Over
    <3>5. CASE UnlinkPipe(s) /\ pipe # Nobody
      BY <3>5, Facts DEF UnlinkPipe, ServerAt
    <3>6. CASE ReadWords(s) /\ spc'[s] # "fallen"
      BY <3>6, Facts, ServerEnds DEF ReadWords, ServerAt, Ends
    <3>7. CASE ReadCount(s) /\ ServerAt(s, "words")
      <4>1. ~ServerOver(s, "fallen")
        <5>1. spc'[s] = "words"
          BY <3>7, Facts DEF ServerAt
        <5> QED
          BY <5>1, Facts DEF ServerOver, ServerAt
      <4> QED
        BY <3>7, <4>1, Facts DEF ReadCount, ServerAt
    <3> QED
      BY <1>2, <3>1, <3>2, <3>3, <3>4, <3>5, <3>6, <3>7, FallingSteps, Facts
      DEF Goes, Falls, Over, CreateTxt, MakeServerPipe, Select, ReadPid, EndOfFile,
          Meet, OpenAnswer, Write, SweepDone, ServerAt
  <2>2. \A c \in Commanders : cpc'[c] \in {"opening", "knock", "close"} =>
            cpc[c] \in {"opening", "knock", "close"}
    BY <1>2, ServerMoves
  <2> QED
    BY <1>2, <2>1, <2>2, ServerMoves
<1>3. CASE UNCHANGED vars
  BY <1>3 DEF vars, readEnd
<1> QED
  BY <1>1, <1>2, <1>3 DEF Next

LEMMA ProgressNext ==
    ASSUME TypeOK, Progress, [Next]_vars
    PROVE  Progress'
<1> USE DEF Progress, Unheard
<1>1. ASSUME NEW c \in Commanders, CommanderStep(c) \/ Killed(c)
      PROVE  Progress'
  <2>1. \A d \in Commanders : d # c =>
            cpc'[d] = cpc[d] /\ command'[d] = command[d] /\ (d \in fifos => d \in fifos')
    BY <1>1, Facts, CommanderMoves DEF CommanderStep, Killed, Look, Fork,
       AwaitServer, MakeFifos, OpenServerPipe, Knock, CloseServerPipe, SendCount,
       SendWords, ReadAnswer, RemoveFifos, CommanderOver, files
  <2>2. /\ cpc'[c] \in {"away", "fork"} => cpc[c] = "away" /\ ~Fork(c)
        /\ cpc'[c] \in {"open", "opening", "knock"} => c \in fifos'
        /\ cpc'[c] \in Unheard => command'[c] = "none"
        /\ cpc'[c] = "send" => command'[c] = "counted"
    BY <1>1, Facts DEF CommanderStep, Killed, Look, Fork,
       AwaitServer, MakeFifos, OpenServerPipe, Knock, CloseServerPipe, SendCount,
       SendWords, ReadAnswer, RemoveFifos, CommanderOver, CommanderAt, files
  <2>3. \A d \in Commanders : cpc'[d] \in {"away", "fork"} => spc'[d] = "none"
    BY <1>1, <2>1, <2>2, CommanderMoves
  <2> QED
    BY <2>1, <2>2, <2>3
<1>2. ASSUME NEW s \in Commanders, ServerStep(s) \/ Interrupted(s)
      PROVE  Progress'
  <2>1. spc[s] # "none"
    BY <1>2 DEF ServerStep, Interrupted, CreateTxt, MakeServerPipe, FirstOpen,
       Select, ReadPid, ReadNoPid, Meet, CloseAtEof, Reopen, ReadCount, ReadWords,
       OpenAnswer, Write, SweepDone, CloseServer, UnlinkPipe, UnlinkTxt, Waits
  <2>2. \A c \in Commanders : cpc'[c] \in {"away", "fork"} => cpc[c] = cpc'[c]
    BY <1>2, ServerMoves
  <2>3. \A c \in Commanders : cpc'[c] \in {"away", "fork"} => spc'[c] = "none"
    BY <1>2, <2>1, <2>2, ServerMoves
  <2>4. \A c \in Commanders :
            /\ cpc'[c] \in {"open", "opening", "knock"} => c \in fifos'
            /\ cpc'[c] \in Unheard => command'[c] = "none"
            /\ cpc'[c] = "send" => command'[c] = "counted"
    BY <1>2, ServerMoves
  <2> QED
    BY <2>3, <2>4
<1>3. CASE UNCHANGED vars
  BY <1>3 DEF vars, files
<1> QED
  BY <1>1, <1>2, <1>3 DEF Next

(* A place that names a commander.                                           *)
LEMMA BusyNext ==
    ASSUME TypeOK, EndsOpen, Progress, [Next]_vars
    PROVE  \A s \in Commanders : (cur'[s] # Nobody) <=> (spc'[s] \in Busy)
<1> USE DEF Busy
<1>1. \A s \in Commanders : (cur[s] # Nobody) <=> (spc[s] \in Busy)
  BY DEF TypeOK
<1>2. ASSUME NEW c \in Commanders, CommanderStep(c) \/ Killed(c)
      PROVE  \A s \in Commanders : (cur'[s] # Nobody) <=> (spc'[s] \in Busy)
  BY <1>1, <1>2, CommanderMoves
<1>3. ASSUME NEW s \in Commanders, ServerStep(s) \/ Interrupted(s)
      PROVE  \A r \in Commanders : (cur'[r] # Nobody) <=> (spc'[r] \in Busy)
  <2>1. (cur'[s] # Nobody) <=> (spc'[s] \in Busy)
    <3> USE DEF round
    <3>1. CASE \E how \in Over : Ends(s, how)
      BY <3>1, Facts DEF Ends, Over
    <3>2. CASE (FirstOpen(s) \/ Reopen(s)) /\ pipe # Nobody
      BY <1>1, <3>2, Facts DEF FirstOpen, Reopen, OpenRead, ServerAt
    <3>3. CASE ReadPid(s) /\ Head(data[on[s]]) \in fifos
      BY <3>3, Facts DEF ReadPid, ServerAt, TypeOK
    <3>4. CASE UnlinkTxt(s)
      BY <3>1, <3>4, ServerEnds DEF UnlinkTxt, Over
    <3>5. CASE UnlinkPipe(s) /\ pipe # Nobody
      BY <1>1, <3>5, Facts DEF UnlinkPipe, ServerAt
    <3>6. CASE ReadWords(s) /\ spc'[s] # "fallen"
      BY <1>1, <3>6, Facts, ServerEnds DEF ReadWords, ServerAt, Ends
    <3>7. CASE ReadCount(s) /\ ServerAt(s, "words")
      <4>1. ~ServerOver(s, "fallen")
        <5>1. spc'[s] = "words"
          BY <3>7, Facts DEF ServerAt
        <5> QED
          BY <5>1, Facts DEF ServerOver, ServerAt
      <4>2. \A i \in ToServe(s) : active[s][i] \in Commanders
        BY Facts, Entries DEF ToServe
      <4> QED
        BY <3>7, <4>1, <4>2, Facts DEF ReadCount, ServerAt
    <3>8. CASE Meet(s) \/ (Write(s) /\ ~Gone(cur[s]))
      BY <3>8, Facts DEF Meet, Write, ServerAt
    <3>9. CASE EndOfFile(s)
      BY <1>1, <3>9, Facts DEF EndOfFile, ServerAt
    <3>10. CASE \/ CreateTxt(s) \/ MakeServerPipe(s) \/ Select(s) \/ CloseAtEof(s)
                \/ OpenAnswer(s) \/ SweepDone(s) \/ CloseServer(s)
      <4>1. cur'[s] = cur[s]
        BY <3>10 DEF CreateTxt, MakeServerPipe, Select, CloseAtEof, OpenAnswer,
           SweepDone, CloseServer
      <4>2. spc[s] \in Busy <=> spc'[s] \in Busy
        BY <3>10, Facts DEF CreateTxt, MakeServerPipe, Select, CloseAtEof,
           OpenAnswer, SweepDone, CloseServer, ServerAt
      <4> QED
        BY <1>1, <4>1, <4>2
    <3>11. CASE Falls(s)
      BY <3>1, <3>11 DEF Falls, Over
    <3> QED
      BY <1>3, <3>2, <3>3, <3>4, <3>5, <3>6, <3>7, <3>8, <3>9, <3>10, <3>11,
         FallingSteps DEF Goes
  <2> QED
    BY <1>1, <1>3, <2>1, ServerMoves
<1>4. CASE UNCHANGED vars
  BY <1>1, <1>4 DEF vars, round
<1> QED
  BY <1>2, <1>3, <1>4 DEF Next

LEMMA FilesNext ==
    ASSUME TypeOK, EndsOpen, Progress, OneAfterAnother, [Next]_vars, EndsOpen'
    PROVE  OneAfterAnother'
<1>1. ASSUME NEW c \in Commanders, CommanderStep(c) \/ Killed(c)
      PROVE  OneAfterAnother'
  <2>1. CASE Fork(c)
    <3>1. /\ spc[c] = "none" /\ spc'[c] = "start" /\ UNCHANGED <<txt, pipe, on>>
          /\ raced' = (raced \/ txt \/ \E s \in Commanders : spc[s] = "start")
          /\ \A s \in Commanders : s # c => spc'[s] = spc[s]
      BY <2>1, Facts DEF Fork, ServerAt, Progress, files, readEnd
    <3>2. ~raced' => \A s \in Commanders : spc[s] \in {"none", "ended"}
      BY <3>1 DEF OneAfterAnother
    <3> QED
      BY <3>1, <3>2 DEF OneAfterAnother, Holding
  <2>2. CASE ~Fork(c)
    <3>1. /\ UNCHANGED <<txt, pipe, on, raced>>
          /\ \A s \in Commanders :
                spc'[s] = spc[s] \/ (spc[s] = "opening" /\ spc'[s] = "loop")
      BY <1>1, <2>2, CommanderMoves DEF CommanderStep, Killed, Look, AwaitServer,
         MakeFifos, OpenServerPipe, Knock, CloseServerPipe, SendCount, SendWords,
         ReadAnswer, RemoveFifos
    <3> QED
      BY <3>1 DEF OneAfterAnother, Holding
  <2> QED
    BY <2>1, <2>2
<1>2. ASSUME NEW s \in Commanders, ServerStep(s) \/ Interrupted(s)
      PROVE  OneAfterAnother'
  <2>1. raced' = raced /\ \A r \in Commanders : r # s => spc'[r] = spc[r] /\ on'[r] = on[r]
    BY <1>2, ServerMoves
  <2>2. CASE CreateTxt(s)
    <3>1. /\ spc[s] = "start" /\ spc'[s] = "mkfifo" /\ txt' = TRUE
          /\ UNCHANGED <<pipe, on>>
      BY <2>2, Facts DEF CreateTxt, ServerAt, readEnd
    <3> QED
      BY <2>1, <3>1 DEF OneAfterAnother, Holding
  <2>3. CASE MakeServerPipe(s)
    <3>1. /\ spc[s] = "mkfifo" /\ spc'[s] = "open" /\ UNCHANGED <<txt, on>>
      BY <2>3, Facts DEF MakeServerPipe, ServerAt, readEnd
    <3>2. ~raced => \A r \in Commanders : r # s => spc[r] \notin Holding
      BY <3>1 DEF OneAfterAnother, Holding
    <3> QED
      BY <2>1, <3>1, <3>2 DEF OneAfterAnother, Holding
  <2>4. CASE UnlinkPipe(s) /\ pipe # Nobody
    <3>1. /\ spc[s] = "unlinkpipe" /\ spc'[s] = "unlinktxt" /\ UNCHANGED <<txt, on>>
          /\ pipe' = Nobody
      BY <2>4, Facts DEF UnlinkPipe, ServerAt, readEnd
    <3>2. ~raced => \A r \in Commanders : r # s => spc[r] \notin Holding
      BY <3>1 DEF OneAfterAnother, Holding
    <3> QED
      BY <2>1, <3>1, <3>2 DEF OneAfterAnother, Holding
  <2>5. CASE UnlinkTxt(s)
    <3>1. /\ spc[s] = "unlinktxt" /\ txt' = FALSE /\ UNCHANGED pipe
          /\ spc'[s] = IF txt THEN "ended" ELSE "fallen"
      BY <2>5, Facts DEF UnlinkTxt, ServerOver, ServerAt
    <3>2. ~raced => txt /\ \A r \in Commanders : r # s => spc[r] \in {"none", "ended"}
      BY <3>1 DEF OneAfterAnother
    <3> QED
      BY <2>1, <3>1, <3>2 DEF OneAfterAnother, Holding
  <2>6. CASE ~(CreateTxt(s) \/ MakeServerPipe(s) \/ UnlinkTxt(s)
               \/ (UnlinkPipe(s) /\ pipe # Nobody))
    <3>1. UNCHANGED <<txt, pipe>>
      BY <1>2, <2>6, FallingSteps DEF Goes, Falls, FirstOpen, Select, ReadPid, EndOfFile,
         Meet, CloseAtEof, Reopen, ReadCount, ReadWords, OpenAnswer, Write,
         SweepDone, CloseServer, files
    <3>2. /\ spc[s] \notin {"none", "start", "mkfifo", "unlinktxt", "ended"}
          /\ spc'[s] \notin {"none", "start", "mkfifo", "unlinktxt", "ended"}
          /\ on'[s] \in {on[s], pipe, Nobody}
      <4>1. CASE Falls(s)
        BY <4>1, Facts DEF Falls, Ends
      <4>2. CASE (FirstOpen(s) \/ Reopen(s)) /\ pipe # Nobody
        BY <4>2, Facts DEF FirstOpen, Reopen, OpenRead, ServerAt
      <4>3. CASE CloseAtEof(s) \/ CloseServer(s)
        BY <4>3, Facts DEF CloseAtEof, CloseServer, CloseRead, ServerAt
      <4>4. CASE ReadWords(s) /\ spc'[s] # "fallen"
        BY <4>4, Facts, ServerEnds DEF ReadWords, ServerAt, Ends, readEnd
      <4>5. CASE ReadCount(s) /\ ServerAt(s, "words")
        BY <4>5, Facts, ServerEnds DEF ReadCount, ServerAt, Ends, readEnd
      <4>6. CASE \/ Select(s) \/ (ReadPid(s) /\ Head(data[on[s]]) \in fifos)
                 \/ Meet(s) \/ OpenAnswer(s) \/ (Write(s) /\ ~Gone(cur[s]))
                 \/ SweepDone(s)
        BY <4>6, Facts DEF Select, ReadPid, Meet, OpenAnswer, Write, SweepDone,
           ServerAt, readEnd
      <4>7. CASE EndOfFile(s)
        BY <4>7, Facts DEF EndOfFile, ServerAt, readEnd
      <4> QED
        BY <1>2, <2>6, <4>1, <4>2, <4>3, <4>4, <4>5, <4>6, <4>7, FallingSteps
        DEF Goes
    <3>3. ~raced => /\ txt /\ \A r \in Commanders : r # s => spc[r] \in {"none", "ended"}
                    /\ on[s] # Nobody => on[s] = pipe
      BY <3>2 DEF OneAfterAnother, EndsOpen
    <3>4. spc'[s] \in Holding => on'[s] # Nobody
      BY DEF EndsOpen
    <3> QED
      BY <2>1, <3>1, <3>2, <3>3, <3>4 DEF OneAfterAnother, Holding
  <2> QED
    BY <2>2, <2>3, <2>4, <2>5, <2>6
<1>3. CASE UNCHANGED vars
  BY <1>3 DEF OneAfterAnother, vars, files, readEnd
<1> QED
  BY <1>1, <1>2, <1>3 DEF Next
-----------------------------------------------------------------------------
(* Where a pid is                                                            *)

InPlace == Announced /\ AtMeet /\ Listed /\ AtAnswer

(* Nobody gets a pid that was not there before, and the commanders stay      *)
(* where those that have theirs expect them.                                 *)
Quiet ==
    /\ \A i \in Commanders : data'[i] \in {data[i], <<>>}
    /\ \A s \in Commanders : active'[s] \in {active[s], <<>>}
    /\ \A s \in Commanders :
          spc'[s] \in {"meet", "words", "answer"} =>
              spc'[s] = spc[s] /\ cur'[s] = cur[s] /\ active'[s] = active[s]
    /\ \A c \in fifos : c \in fifos' \/ cpc[c] = "unlink"
    /\ \A c \in Commanders :
          \/ cpc'[c] \in {cpc[c], "gone"}
          \/ <<cpc[c], cpc'[c]>> \in
                {<<"close", "openw">>, <<"count", "send">>, <<"send", "openr">>}
          \/ cpc[c] \notin {"close", "openw", "count", "send", "openr", "gone"}

LEMMA QuietStays ==
    ASSUME TypeOK, InPlace, Quiet
    PROVE  InPlace'
<1> USE DEF InPlace
<1>1. \A i \in Commanders : \A k \in DOMAIN data'[i] :
          k \in DOMAIN data[i] /\ data'[i][k] = data[i][k]
  BY DEF Quiet
<1>2. \A i \in Commanders : \A k \in DOMAIN data[i] : data[i][k] \in Commanders
  BY Facts, Entries
<1>3. \A s \in Commanders : \A k \in DOMAIN active'[s] :
          k \in DOMAIN active[s] /\ active'[s][k] = active[s][k]
  BY DEF Quiet
<1>4. \A s \in Commanders : \A k \in DOMAIN active[s] : active[s][k] \in Commanders
  BY Facts, Entries
<1>5. \A s \in Commanders :
          spc'[s] \in {"meet", "words", "answer"} =>
              spc'[s] = spc[s] /\ cur'[s] = cur[s] /\ cur[s] \in Commanders
              /\ active'[s] = active[s]
  BY Facts DEF Quiet, Busy
<1>6. \A c \in Commanders :
          /\ cpc[c] \in {"close", "openw", "gone"} => cpc'[c] \in {"close", "openw", "gone"}
          /\ cpc[c] \in {"count", "send", "openr", "gone"} =>
                cpc'[c] \in {"count", "send", "openr", "gone"}
          /\ cpc[c] \in {"openr", "gone"} => cpc'[c] \in {"openr", "gone"}
  BY DEF Quiet
<1>7. \A c \in fifos : cpc[c] # "unlink" => c \in fifos'
  BY DEF Quiet
<1>8. Announced'
  BY <1>1, <1>2, <1>6, <1>7 DEF Announced
<1>9. AtMeet'
  BY <1>1, <1>5, <1>6, <1>7 DEF AtMeet
<1>10. Listed'
  BY <1>3, <1>4, <1>5, <1>6, <1>7 DEF Listed
<1>11. AtAnswer'
  BY <1>5, <1>6, <1>7 DEF AtAnswer
<1> QED
  BY <1>8, <1>9, <1>10, <1>11

LEMMA CommandersQuiet ==
    ASSUME TypeOK, Progress, NEW c \in Commanders, CommanderStep(c) \/ Killed(c),
           ~Knock(c) \/ cpc'[c] = "gone"
    PROVE  Quiet
<1>1. \A i \in Commanders : data'[i] \in {data[i], <<>>}
  <2>1. CASE Knock(c)
    <3>1. CommanderOver(c)
      BY <2>1, Facts DEF Knock, CommanderAt
    <3> QED
      BY <3>1, WriteEndCloses DEF CommanderOver, Loses
  <2>2. CASE ~Knock(c)
    <3>1. data' = data \/ CloseWrite(c)
      BY <2>2 DEF CommanderStep, Killed, Look, Fork, AwaitServer, MakeFifos,
         OpenServerPipe, CloseServerPipe, SendCount, SendWords, ReadAnswer,
         RemoveFifos, CommanderOver
    <3> QED
      BY <3>1, WriteEndCloses DEF Loses
  <2> QED
    BY <2>1, <2>2
<1>2. \A d \in fifos : d \in fifos' \/ cpc[d] = "unlink"
  BY DEF CommanderStep, Killed, Look, Fork, AwaitServer,
     MakeFifos, OpenServerPipe, Knock, CloseServerPipe, SendCount, SendWords,
     ReadAnswer, RemoveFifos, files
<1>3. \/ cpc'[c] \in {cpc[c], "gone"}
      \/ <<cpc[c], cpc'[c]>> \in
            {<<"close", "openw">>, <<"count", "send">>, <<"send", "openr">>}
      \/ cpc[c] \notin {"close", "openw", "count", "send", "openr", "gone"}
  BY Facts DEF CommanderStep, Killed, Look, Fork, AwaitServer,
     MakeFifos, OpenServerPipe, Knock, CloseServerPipe, SendCount, SendWords,
     ReadAnswer, RemoveFifos, CommanderOver, CommanderAt
<1> QED
  BY <1>1, <1>2, <1>3, CommanderMoves DEF Quiet

(* The steps of a server that give a pid to somebody.                        *)
Takes(s) ==
    \/ ReadPid(s) /\ Head(data[on[s]]) \in fifos
    \/ Meet(s)
    \/ ReadCount(s) /\ ServerAt(s, "words")
    \/ ReadWords(s) /\ spc'[s] = "answer"
    \/ OpenAnswer(s)

LEMMA ServersQuiet ==
    ASSUME TypeOK, NEW s \in Commanders, ServerStep(s) \/ Interrupted(s), ~Takes(s)
    PROVE  Quiet
<1> USE DEF round
<1>1. CASE \E how \in Over : Ends(s, how)
  <2>1. spc'[s] \notin {"meet", "words", "answer"} /\ active'[s] = <<>>
    BY <1>1, Facts DEF Ends, Over
  <2> QED
    BY <1>1, <2>1, ServerMoves DEF Quiet, Ends, Loses, Takes
<1>2. CASE Falls(s) \/ UnlinkTxt(s)
  BY <1>1, <1>2, ServerEnds DEF Falls, UnlinkTxt, Over
<1>3. CASE CloseAtEof(s) \/ CloseServer(s)
  <2>1. /\ spc'[s] \notin {"meet", "words", "answer"} /\ UNCHANGED active /\ Loses
    BY <1>3, Facts, ReadEndCloses DEF CloseAtEof, CloseServer, ServerAt
  <2> QED
    BY <2>1, ServerMoves DEF Quiet, Loses, Takes
<1>4. CASE Write(s) /\ ~Gone(cur[s])
  <2>1. /\ spc'[s] \notin {"meet", "words", "answer"} /\ UNCHANGED data
        /\ active'[s] \in {active[s], <<>>}
    BY <1>4, Facts DEF Write, ServerAt
  <2> QED
    BY <2>1, ServerMoves DEF Quiet, Takes
<1>5. CASE ReadWords(s) /\ spc'[s] \notin {"answer", "fallen"}
  <2>1. /\ spc'[s] \notin {"meet", "words", "answer"} /\ UNCHANGED <<data, active>>
    BY <1>5, Facts, ServerEnds DEF ReadWords, ServerAt, Ends
  <2> QED
    BY <2>1, ServerMoves DEF Quiet, Takes
<1>6. CASE \/ CreateTxt(s) \/ MakeServerPipe(s) \/ Select(s) \/ EndOfFile(s)
           \/ SweepDone(s)
  <2>1. /\ spc'[s] \notin {"meet", "words", "answer"} /\ UNCHANGED <<data, active>>
    BY <1>6, Facts DEF CreateTxt, MakeServerPipe, Select, EndOfFile, SweepDone, ServerAt
  <2> QED
    BY <1>6, <2>1, ServerMoves DEF Quiet, Takes
<1>7. CASE (FirstOpen(s) \/ Reopen(s) \/ UnlinkPipe(s)) /\ pipe # Nobody
  <2>1. /\ spc'[s] \notin {"meet", "words", "answer"} /\ UNCHANGED <<data, active>>
    BY <1>7, Facts DEF FirstOpen, Reopen, UnlinkPipe, OpenRead, ServerAt
  <2> QED
    BY <1>7, <2>1, ServerMoves DEF Quiet, Takes
<1> QED
  BY <1>2, <1>3, <1>4, <1>5, <1>6, <1>7, FallingSteps DEF Goes, Takes
(* The pid is appended to what is in server.pipe.                            *)
LEMMA KnockPlaces ==
    ASSUME TypeOK, EndsOpen, Progress, InPlace, NEW c \in Commanders, Knock(c),
           cpc'[c] # "gone"
    PROVE  InPlace'
<1> USE DEF InPlace
<1>1. /\ cpc[c] = "knock" /\ cpc' = [cpc EXCEPT ![c] = "close"] /\ c \in fifos
      /\ data' = [data EXCEPT ![at[c]] = Append(@, c)] /\ at[c] \in Commanders
      /\ UNCHANGED <<fifos, spc, cur, active>>
  BY Facts DEF Knock, CommanderOver, CommanderAt, EndsOpen, Progress, files, round
<1> DEFINE n == Len(data[at[c]]) + 1
<1>2. /\ \A i \in Commanders : \A k \in DOMAIN data'[i] :
            \/ k \in DOMAIN data[i] /\ data'[i][k] = data[i][k]
            \/ i = at[c] /\ k = n /\ data'[i][k] = c
  <2>1. /\ DOMAIN Append(data[at[c]], c) = 1 .. n
        /\ \A k \in 1 .. n : Append(data[at[c]], c)[k] =
              IF k = n THEN c ELSE data[at[c]][k]
        /\ DOMAIN data[at[c]] = 1 .. (n - 1) /\ n \in Nat
    BY <1>1, Facts, Entries, AppendProperties
  <2>2. \A k \in 1 .. n : k = n \/ k \in 1 .. (n - 1)
    BY <2>1
  <2>3. data'[at[c]] = Append(data[at[c]], c)
    BY <1>1, Facts
  <2>4. \A i \in Commanders : i # at[c] => data'[i] = data[i]
    BY <1>1, Facts
  <2> HIDE DEF n
  <2> QED
    BY <2>1, <2>2, <2>3, <2>4
<1>3. /\ \A i \in Commanders : \A k \in DOMAIN data[i] :
            data[i][k] # c /\ data[i][k] \in Commanders
      /\ \A s \in Commanders : spc[s] = "meet" => cur[s] # c /\ cur[s] \in Commanders
      /\ \A s \in Commanders : \A k \in DOMAIN active[s] :
            active[s][k] # c /\ active[s][k] \in Commanders
      /\ \A s \in Commanders : spc[s] = "answer" => cur[s] # c /\ cur[s] \in Commanders
  BY <1>1, Facts, Entries DEF Announced, AtMeet, Listed, AtAnswer, Busy
<1> HIDE DEF n
<1>4. \A d \in Commanders : d # c => cpc'[d] = cpc[d]
  BY <1>1
<1>5. cpc'[c] = "close"
  BY <1>1, Facts
<1>6. Announced'
  BY <1>1, <1>2, <1>3, <1>4, <1>5 DEF Announced
<1>7. AtMeet'
  BY <1>1, <1>2, <1>3, <1>4 DEF AtMeet
<1>8. Listed' /\ AtAnswer'
  BY <1>1, <1>3, <1>4 DEF Listed, AtAnswer
<1> QED
  BY <1>6, <1>7, <1>8

(* A server reads the next pid.                                              *)
LEMMA ReadPidPlaces ==
    ASSUME TypeOK, EndsOpen, InPlace, NEW s \in Commanders, ReadPid(s),
           Head(data[on[s]]) \in fifos
    PROVE  InPlace'
<1> USE DEF InPlace
<1> DEFINE c == Head(data[on[s]])
           i == on[s]
           Was(j, k) == IF j = i THEN k + 1 ELSE k
<1>1. i \in Commanders /\ data[i] # <<>> /\ data[i] \in Seq(Commanders)
  BY Facts DEF ReadPid, EndsOpen, Holding
<1>2. /\ c = data[i][1] /\ 1 \in DOMAIN data[i] /\ c \in Commanders
      /\ \A k \in DOMAIN Tail(data[i]) :
            k \in Int /\ k + 1 \in DOMAIN data[i] /\ k + 1 # 1
            /\ Tail(data[i])[k] = data[i][k + 1]
  BY <1>1, Entries, HeadTailProperties
<1>3. /\ data' = [data EXCEPT ![i] = Tail(@)]
      /\ cur' = [cur EXCEPT ![s] = c] /\ spc' = [spc EXCEPT ![s] = "meet"]
      /\ UNCHANGED <<fifos, cpc, active>>
  BY DEF ReadPid, ServerAt, files, round
<1>4. \A j \in Commanders : \A k \in DOMAIN data'[j] :
          /\ Was(j, k) \in DOMAIN data[j] /\ data'[j][k] = data[j][Was(j, k)]
          /\ j = i => Was(j, k) # 1
  <2>1. data'[i] = Tail(data[i]) /\ \A j \in Commanders : j # i => data'[j] = data[j]
    BY <1>1, <1>3, Facts
  <2> HIDE DEF i
  <2>2. ASSUME NEW k \in DOMAIN data'[i]
        PROVE  k + 1 \in DOMAIN data[i] /\ data'[i][k] = data[i][k + 1] /\ k + 1 # 1
    BY <1>2, <2>1
  <2> QED
    BY <2>1, <2>2
<1>5. /\ spc'[s] = "meet" /\ cur'[s] = c
      /\ \A r \in Commanders : r # s => spc'[r] = spc[r] /\ cur'[r] = cur[r]
  BY <1>3, Facts
<1>6. \A j \in Commanders : \A k \in DOMAIN data[j] : data[j][k] = c => j = i /\ k = 1
  BY <1>1, <1>2 DEF Announced
<1>7. \A r \in Commanders : spc[r] = "meet" => cur[r] # c
  BY <1>1, <1>2 DEF AtMeet
<1>8. cpc[c] \in {"close", "openw", "gone"} /\ c \in fifos
  BY <1>1, <1>2 DEF Announced
<1>9. \A j \in Commanders : \A k \in DOMAIN data[j] : k \in Int
  BY Facts, Entries
<1>10. \A j \in Commanders : \A k \in DOMAIN data'[j] : k \in Int
  <2>1. data' \in [Commanders -> Seq(Commanders)]
    BY <1>1, <1>3, Facts, HeadTailProperties
  <2> QED
    BY <2>1, Entries
<1> HIDE DEF c, i, Was
<1>11. Announced'
  <2> SUFFICES ASSUME NEW j \in Commanders, NEW k \in DOMAIN data'[j]
               PROVE  /\ cpc[data'[j][k]] \in {"close", "openw", "gone"}
                      /\ data'[j][k] \in fifos
                      /\ \A l \in Commanders : \A m \in DOMAIN data'[l] :
                            data'[l][m] = data'[j][k] => l = j /\ m = k
    BY <1>3 DEF Announced
  <2>1. Was(j, k) \in DOMAIN data[j] /\ data'[j][k] = data[j][Was(j, k)]
    BY <1>4
  <2>2. ASSUME NEW l \in Commanders, NEW m \in DOMAIN data'[l], data'[l][m] = data'[j][k]
        PROVE  l = j /\ m = k
    <3>1. Was(l, m) \in DOMAIN data[l] /\ data'[l][m] = data[l][Was(l, m)]
      BY <1>4
    <3>2. l = j /\ Was(l, m) = Was(j, k)
      <4>1. data[l][Was(l, m)] = data[j][Was(j, k)]
        BY <2>1, <2>2, <3>1
      <4>2. \A v \in DOMAIN data[j], w \in DOMAIN data[l] :
                data[l][w] = data[j][v] => l = j /\ w = v
        BY DEF Announced
      <4> QED
        BY <2>1, <3>1, <4>1, <4>2
    <3>3. k \in Int /\ m \in Int
      BY <1>10, <3>2
    <3> QED
      BY <3>2, <3>3 DEF Was
  <2> QED
    BY <2>1, <2>2 DEF Announced
<1>12. AtMeet'
  <2>1. \A j \in Commanders : \A k \in DOMAIN data'[j] : data'[j][k] # c
    BY <1>4, <1>6
  <2>2. \A r \in Commanders : spc[r] = "meet" =>
            \A j \in Commanders : \A k \in DOMAIN data'[j] : data'[j][k] # cur[r]
    BY <1>4 DEF AtMeet
  <2> QED
    BY <1>3, <1>5, <1>7, <1>8, <2>1, <2>2 DEF AtMeet
<1>13. Listed' /\ AtAnswer'
  <2>1. UNCHANGED <<fifos, cpc, active>>
    BY <1>3
  <2> QED
    BY <1>5, <2>1 DEF Listed, AtAnswer
<1> QED
  BY <1>11, <1>12, <1>13
(* A commander and the server that has its pid meet.                         *)
LEMMA MeetPlaces ==
    ASSUME TypeOK, InPlace, NEW s \in Commanders, Meet(s)
    PROVE  InPlace'
<1> USE DEF InPlace
<1> DEFINE c == cur[s]
           n == Len(active[s]) + 1
<1>1. /\ spc[s] = "meet" /\ cpc[c] = "openw" /\ c \in Commanders /\ c \in fifos
      /\ cpc' = [cpc EXCEPT ![c] = "count"] /\ spc' = [spc EXCEPT ![s] = "admit"]
      /\ cur' = [cur EXCEPT ![s] = Nobody]
      /\ active' = [active EXCEPT ![s] = Append(@, c)]
      /\ UNCHANGED <<fifos, data>>
  BY Facts DEF Meet, CommanderAt, ServerAt, Busy, AtMeet, files
<1>2. \A r \in Commanders : \A k \in DOMAIN active'[r] :
          \/ k \in DOMAIN active[r] /\ active'[r][k] = active[r][k]
          \/ r = s /\ k = n /\ active'[r][k] = c
  <2>1. /\ DOMAIN Append(active[s], c) = 1 .. n
        /\ \A k \in 1 .. n : Append(active[s], c)[k] =
              IF k = n THEN c ELSE active[s][k]
        /\ DOMAIN active[s] = 1 .. (n - 1) /\ n \in Nat
    BY <1>1, Facts, Entries, AppendProperties
  <2>2. \A k \in 1 .. n : k = n \/ k \in 1 .. (n - 1)
    BY <2>1
  <2>3. active'[s] = Append(active[s], c)
    BY <1>1, Facts
  <2>4. \A r \in Commanders : r # s => active'[r] = active[r]
    BY <1>1, Facts
  <2> HIDE DEF n
  <2> QED
    BY <2>1, <2>2, <2>3, <2>4
<1>3. /\ \A i \in Commanders : \A k \in DOMAIN data[i] :
            data[i][k] # c /\ data[i][k] \in Commanders
      /\ \A r \in Commanders : r # s /\ spc[r] = "meet" =>
            cur[r] # c /\ cur[r] \in Commanders
      /\ \A r \in Commanders : \A k \in DOMAIN active[r] :
            active[r][k] # c /\ active[r][k] \in Commanders
      /\ \A r \in Commanders : spc[r] = "answer" => cur[r] # c /\ cur[r] \in Commanders
  <2>1. \A r \in Commanders : spc[r] \in Busy => cur[r] \in Commanders
    BY Facts
  <2>2. \A i \in Commanders : \A k \in DOMAIN data[i] :
            data[i][k] # c /\ data[i][k] \in Commanders
    BY <1>1, Facts, Entries DEF AtMeet
  <2>3. \A r \in Commanders : r # s /\ spc[r] = "meet" => cur[r] # c
    BY <1>1 DEF AtMeet
  <2>4. \A r \in Commanders : \A k \in DOMAIN active[r] :
            active[r][k] # c /\ active[r][k] \in Commanders
    BY <1>1, Facts, Entries DEF Listed
  <2>5. \A r \in Commanders : spc[r] = "answer" => cur[r] # c
    BY <1>1 DEF AtAnswer
  <2> QED
    BY <2>1, <2>2, <2>3, <2>4, <2>5 DEF Busy
<1>4. /\ spc'[s] = "admit"
      /\ \A r \in Commanders : r # s => spc'[r] = spc[r] /\ cur'[r] = cur[r]
      /\ active[s] \in Seq(Commanders) /\ active'[s] = Append(active[s], c)
      /\ \A r \in Commanders : r # s => active'[r] = active[r]
  BY <1>1, Facts
<1>5. cpc'[c] = "count" /\ \A d \in Commanders : d # c => cpc'[d] = cpc[d]
  BY <1>1, Facts
<1> HIDE DEF c, n
<1>6. Announced' /\ AtMeet'
  BY <1>1, <1>3, <1>4, <1>5 DEF Announced, AtMeet
<1>7. Listed'
  BY <1>1, <1>2, <1>3, <1>4, <1>5 DEF Listed
<1>8. AtAnswer'
  BY <1>1, <1>3, <1>4, <1>5 DEF AtAnswer
<1> QED
  BY <1>6, <1>7, <1>8

(* The server turns to a commander that it listens to.                       *)
LEMMA ReadCountPlaces ==
    ASSUME TypeOK, InPlace, NEW s \in Commanders, ReadCount(s), ServerAt(s, "words")
    PROVE  InPlace'
<1> USE DEF InPlace
<1>1. ~ServerOver(s, "fallen")
  <2>1. spc'[s] = "words"
    BY Facts DEF ServerAt
  <2> QED
    BY <2>1, Facts DEF ServerOver, ServerAt
<1>2. /\ UNCHANGED <<fifos, data, active, cpc>>
      /\ spc[s] = "serve" /\ spc'[s] = "words"
      /\ cur'[s] \in Range(active[s])
      /\ \A r \in Commanders : r # s => spc'[r] = spc[r] /\ cur'[r] = cur[r]
  BY <1>1, Facts DEF ReadCount, ServerAt, ToServe, Range, files
<1> QED
  BY <1>2 DEF Announced, AtMeet, Listed, AtAnswer

(* It has read the words and forgets the commander that it is to answer.     *)
LEMMA ReadWordsPlaces ==
    ASSUME TypeOK, Progress, InPlace, NEW s \in Commanders, ReadWords(s),
           spc'[s] = "answer"
    PROVE  InPlace'
<1> USE DEF InPlace
<1>1. PICK i \in DOMAIN active[s] :
          /\ active[s][i] = cur[s] /\ command[cur[s]] \in {"issueJob", "exit"}
          /\ active' = [active EXCEPT ![s] = RemoveAt(@, i)]
          /\ spc[s] = "words" /\ spc' = [spc EXCEPT ![s] = "answer"]
          /\ UNCHANGED <<fifos, data, cpc, cur>>
  <2>1. ~ServerOver(s, "fallen")
    BY Facts DEF ServerOver, ServerAt
  <2>2. ~ServerAt(s, "spinning")
    BY Facts DEF ServerAt
  <2> QED
    BY <2>1, <2>2 DEF ReadWords, ServerAt, files
<1> DEFINE c == cur[s]
<1>2. /\ c \in Commanders /\ c \in fifos /\ cpc[c] \in {"openr", "gone"}
      /\ \A r \in Commanders : spc[r] = "answer" => cur[r] # c
      /\ \A r \in Commanders : \A m \in DOMAIN active[r] :
            active[r][m] = c => r = s /\ m = i
  <2>1. c \in Commanders
    BY <1>1, Facts, Entries
  <2>2. cpc[c] \in {"count", "send", "openr", "gone"}
    BY <1>1 DEF Listed
  <2>3. cpc[c] \notin {"count", "send"}
    BY <1>1, <2>1 DEF Progress, Unheard
  <2> QED
    BY <1>1, <2>1, <2>2, <2>3 DEF Listed
<1>3. /\ \A k \in DOMAIN active'[s] :
            \E m \in DOMAIN active[s] : m # i /\ active'[s][k] = active[s][m]
      /\ \A k, m \in DOMAIN active'[s] : active'[s][k] = active'[s][m] => k = m
      /\ \A r \in Commanders : r # s => active'[r] = active[r]
  <2>1. active[s] \in Seq(Commanders) /\ active'[s] = RemoveAt(active[s], i)
    BY <1>1, Facts
  <2>2. IsInjective(active[s])
    BY DEF TypeOK
  <2>3. IsInjective(RemoveAt(active[s], i))
    <3> DEFINE q == active[s]
               e == RemoveAt(q, i)
    <3>1. PICK g \in [DOMAIN e -> DOMAIN q] :
              /\ \A k \in DOMAIN g : e[k] = q[g[k]]
              /\ \A k, m \in DOMAIN g : g[k] = g[m] => k = m
      BY <2>1, EntryErased DEF Inherits
    <3>2. \A k, m \in DOMAIN q : q[k] = q[m] => k = m
      BY <2>2 DEF IsInjective
    <3> HIDE DEF q, e
    <3>3. \A k, m \in DOMAIN e : e[k] = e[m] => k = m
      BY <3>1, <3>2
    <3> QED
      BY <3>3 DEF IsInjective, e, q
  <2> QED
    BY <1>1, <2>1, <2>3, EntryErased, Facts DEF IsInjective
<1>4. spc'[s] = "answer" /\ \A r \in Commanders : r # s => spc'[r] = spc[r]
  BY <1>1, Facts
<1> HIDE DEF c
<1>5. Announced' /\ AtMeet'
  BY <1>1, <1>4 DEF Announced, AtMeet
<1>6. Listed'
  BY <1>1, <1>2, <1>3, <1>4 DEF Listed, c
<1>7. AtAnswer'
  BY <1>1, <1>2, <1>3, <1>4 DEF AtAnswer, c
<1> QED
  BY <1>5, <1>6, <1>7

(* Both have the second FIFO open.                                           *)
LEMMA OpenAnswerPlaces ==
    ASSUME TypeOK, InPlace, NEW s \in Commanders, OpenAnswer(s)
    PROVE  InPlace'
<1> USE DEF InPlace
<1>1. /\ spc[s] = "answer" /\ cpc[cur[s]] = "openr" /\ cur[s] \in Commanders
      /\ UNCHANGED <<fifos, data, active, cur>>
      /\ spc'[s] = "write" /\ \A r \in Commanders : r # s => spc'[r] = spc[r]
      /\ \A c \in Commanders : c # cur[s] => cpc'[c] = cpc[c]
  BY Facts DEF OpenAnswer, ServerAt, CommanderAt, Busy, files, round
<1>2. /\ \A i \in Commanders : \A k \in DOMAIN data[i] :
            data[i][k] # cur[s] /\ data[i][k] \in Commanders
      /\ \A r \in Commanders : spc[r] = "meet" => cur[r] # cur[s] /\ cur[r] \in Commanders
      /\ \A r \in Commanders : \A k \in DOMAIN active[r] :
            active[r][k] # cur[s] /\ active[r][k] \in Commanders
      /\ \A r \in Commanders : r # s /\ spc[r] = "answer" =>
            cur[r] # cur[s] /\ cur[r] \in Commanders
  <2>1. \A r \in Commanders : spc[r] \in Busy => cur[r] \in Commanders
    BY Facts
  <2>2. \A i \in Commanders : \A k \in DOMAIN data[i] :
            data[i][k] # cur[s] /\ data[i][k] \in Commanders
    BY <1>1, Facts, Entries DEF Announced
  <2>3. \A r \in Commanders : spc[r] = "meet" => cur[r] # cur[s]
    BY <1>1 DEF AtMeet
  <2>4. \A r \in Commanders : \A k \in DOMAIN active[r] :
            active[r][k] # cur[s] /\ active[r][k] \in Commanders
    BY <1>1, Facts, Entries DEF Listed
  <2>5. \A r \in Commanders : r # s /\ spc[r] = "answer" => cur[r] # cur[s]
    BY <1>1 DEF AtAnswer
  <2> QED
    BY <2>1, <2>2, <2>3, <2>4, <2>5 DEF Busy
<1> QED
  BY <1>1, <1>2 DEF Announced, AtMeet, Listed, AtAnswer
LEMMA PlacesNext ==
    ASSUME TypeOK, EndsOpen, Progress, InPlace, [Next]_vars
    PROVE  InPlace'
<1>1. ASSUME NEW c \in Commanders, CommanderStep(c) \/ Killed(c)
      PROVE  InPlace'
  <2>1. CASE Knock(c) /\ cpc'[c] # "gone"
    BY <2>1, KnockPlaces
  <2>2. CASE ~Knock(c) \/ cpc'[c] = "gone"
    BY <1>1, <2>2, CommandersQuiet, QuietStays
  <2> QED
    BY <2>1, <2>2
<1>2. ASSUME NEW s \in Commanders, ServerStep(s) \/ Interrupted(s)
      PROVE  InPlace'
  <2>1. CASE ~Takes(s)
    BY <1>2, <2>1, ServersQuiet, QuietStays
  <2>2. CASE Takes(s)
    BY <2>2, ReadPidPlaces, MeetPlaces, ReadCountPlaces, ReadWordsPlaces,
       OpenAnswerPlaces DEF Takes
  <2> QED
    BY <2>1, <2>2
<1>3. CASE UNCHANGED vars
  BY <1>3 DEF InPlace, Announced, AtMeet, Listed, AtAnswer, vars, files, round
<1> QED
  BY <1>1, <1>2, <1>3 DEF Next

-----------------------------------------------------------------------------
(* The invariant                                                             *)

LEMMA InvInit ==
    ASSUME Init
    PROVE  IInv
<1>1. <<>> \in Seq(Commanders) /\ DOMAIN <<>> = {} /\ Range(<<>>) = {}
  BY EmptySeq DEF Range
<1>2. TypeOK
  BY <1>1, HandshakeAssumption DEF Init, TypeOK, IsInjective, CommanderPlaces,
     ServerPlaces, Busy
<1>3. EndsOpen /\ Progress /\ OneAfterAnother
  BY HandshakeAssumption DEF Init, EndsOpen, Progress, OneAfterAnother, Holding,
     Unheard
<1>4. Announced /\ AtMeet /\ Listed /\ AtAnswer
  BY <1>1 DEF Init, Announced, AtMeet, Listed, AtAnswer
<1> QED
  BY <1>2, <1>3, <1>4 DEF IInv

LEMMA InvNext ==
    ASSUME IInv, [Next]_vars
    PROVE  IInv'
<1>1. /\ TypeOK /\ EndsOpen /\ Progress /\ OneAfterAnother /\ InPlace
  BY DEF IInv, InPlace
<1>2. EndsOpen' /\ Progress' /\ InPlace'
  BY <1>1, EndsNext, ProgressNext, PlacesNext
<1>3. OneAfterAnother'
  BY <1>1, <1>2, FilesNext
<1>4. \A s \in Commanders : IsInjective(active'[s])
  BY <1>2 DEF InPlace, Listed, IsInjective
<1>5. TypeOK'
  BY <1>1, <1>4, FileTypes, PlaceTypes, EndTypes, DataTypes, RoundTypes, BusyNext
  DEF TypeOK
<1> QED
  BY <1>2, <1>3, <1>5 DEF IInv, InPlace

LEMMA Invariant == Spec => []IInv
<1>1. Init => IInv
  BY InvInit
<1>2. IInv /\ [Next]_vars => IInv'
  BY InvNext
<1> QED
  BY <1>1, <1>2, PTL DEF Spec

-----------------------------------------------------------------------------
(* The theorems                                                              *)

(* The variables keep their types; the server's locals name a commander      *)
(* exactly where its code uses one, and active_commanders has no one twice.  *)
THEOREM TypeCorrect == Spec => []TypeOK
<1>1. IInv => TypeOK
  BY DEF IInv
<1> QED
  BY <1>1, Invariant, PTL

(* A pid that lies in a server.pipe, or that a server is about to open the   *)
(* FIFOs of, is that of a commander that has made them and not removed them. *)
THEOREM PipesThere == Spec => []PipesAreThere
<1>1. IInv => PipesAreThere
  <2> SUFFICES ASSUME IInv
               PROVE  PipesAreThere
    OBVIOUS
  <2>1. Announced /\ AtMeet /\ AtAnswer
    BY DEF IInv
  <2>2. \A i \in Commanders : Range(data[i]) \subseteq fifos
    BY <2>1 DEF Announced, Range
  <2> QED
    BY <2>1, <2>2 DEF PipesAreThere, AtMeet, AtAnswer
<1> QED
  BY <1>1, Invariant, PTL

(* When every server that was started has returned from main, neither        *)
(* jobExecutorServer.txt nor server.pipe is left.                            *)
THEOREM CleanExit == Spec => []ExitCleansUp
<1>1. IInv => ExitCleansUp
  BY DEF IInv, OneAfterAnother, ExitCleansUp
<1> QED
  BY <1>1, Invariant, PTL

(* Without a race for jobExecutorServer.txt there is one server at a time,   *)
(* and it reads the file that the commanders find as server.pipe.            *)
THEOREM ServerReachable == Spec => []ServerIsReachable
<1>1. IInv => ServerIsReachable
  <2> SUFFICES ASSUME IInv, ~raced, NEW s \in Commanders, NEW r \in Commanders,
                      on[s] # Nobody
               PROVE  on[s] = pipe /\ (on[r] # Nobody => r = s)
    BY DEF ServerIsReachable
  <2>1. spc[s] \in Holding /\ (on[r] # Nobody => spc[r] \in Holding)
    BY DEF IInv, EndsOpen
  <2> QED
    BY <2>1 DEF IInv, OneAfterAnother, Holding
<1> QED
  BY <1>1, Invariant, PTL
=============================================================================
