------------------------------ MODULE JobOutput ------------------------------
(***************************************************************************)
(* One connection of the multithreaded server, byte by byte: what is       *)
(* written to a client's socket, and what jobCommander makes of it.        *)
(*                                                                         *)
(* The answer to an issueJob has two authors.  The controller writes the   *)
(* sentence SUBMITTED after it has let go of the queue; whoever ends the   *)
(* job - a worker, the controller of a stop, main when it drains the       *)
(* buffer - writes the rest and closes the descriptor.  Nothing orders     *)
(* the two: main waits only for the controllers that are counted already.  *)
(* And the server may end before either is done.                           *)
(*                                                                         *)
(* A write is one step.  The stream is a sequence of cells; a cell is one  *)
(* byte of a text, or one int.  A read takes what has arrived, at most     *)
(* what was asked for, and my_io ends the program when that is less.       *)
(* What is read is printed with %s, which stops at the first NUL.          *)
(***************************************************************************)
EXTENDS Integers, Sequences, SequencesExt

CONSTANTS
    Block,          \* 200, the size of buffer
    StartLen,       \* size of "-----job_N output start------\n"
    EndLen,         \* size of "-----job_N output end------\n"
    TextLen,        \* size of any sentence
    Lengths,        \* how much a job may write
    Nuls,           \* the places at which it may write NUL bytes
    Leftovers,      \* sizes of an old <pid>.output, left by a server that
                    \* died before unlink; 0 is no file
    Polled,         \* sentences in the answer to a poll
    Room,           \* cells a socket holds before a write blocks
    ShortReads      \* may a read return less than has been written?

ASSUME SizesAssumption ==
    /\ Block \in Nat \ {0} /\ StartLen \in 1 .. Block /\ EndLen \in Nat \ {0}
    /\ TextLen \in Nat \ {0}
    /\ Lengths \subseteq Nat /\ Leftovers \subseteq Nat
    /\ Nuls \subseteq SUBSET Nat
    /\ Polled \in Nat \ {0} /\ Room \in Nat \ {0}
ASSUME ShortReadsAssumption == ShortReads \in BOOLEAN

Endings == {"output",       \* executed by a worker
            "removed",      \* taken from the buffer by a stop, or by main
                            \* after an exit
            "abandoned",    \* inserted by a controller for which main has not
                            \* waited, or lost by main: main returns
            "refused",      \* never inserted: the server exits
            "polled"}       \* no issueJob at all: sentences and a close

Texts == {"sentence", "start", "output", "old", "end", "notice"}
Cell  == [of : Texts \cup {"nul", "number", "stale"}, val : Nat]

Number(n)   == [of |-> "number", val |-> n]
Text(of, n) == [i \in 1 .. n |-> [of |-> of, val |-> i]]
Stale       == [of |-> "stale", val |-> 0]      \* whatever was on the stack

Start    == Text("start", StartLen)
End      == Text("end", EndLen)
Sentence == Text("sentence", TextLen)
Notice   == Text("notice", TextLen)

VARIABLES
    ending, length,     \* how the job ends, how much it writes,
    nuls,               \* where it writes a NUL byte
    leftover,           \* size of the file that is already there
    controller, told,   \* the controller; sentences written so far
    teller,             \* whoever ends the job
    file, offset,       \* <pid>.output and the offset of fd
    count, i, buffer,   \* locals of parent_code
    stream, closed,     \* the connection, server to client
    server,             \* "up", "down" on account of this connection, or
                        \* "ended" on account of anything else
    client,             \* jobCommander
    sentences, n,       \* its locals
    characters, k,
    printed,            \* what each of its printfs wrote
    overtaken,          \* history: the second author began before the first
                        \* was done
    short               \* history: the network cut a text that had been
                        \* written

job      == <<ending, length, leftover, nuls>>
locals   == <<file, offset, count, i, buffer>>
network  == <<stream, closed, server>>
reader   == <<client, sentences, n, characters, k, printed>>
vars     == <<job, controller, told, teller, locals, network, reader,
              overtaken, short>>

Repeat == IF ending = "polled" THEN Polled ELSE 1
Loops     == count \div Block
Remaining == count % Block

(* What the job writes. *)
Output == [p \in 1 .. length |->
              [of |-> IF p \in nuls THEN "nul" ELSE "output", val |-> p]]

Init ==
    /\ ending \in Endings
    /\ length \in (IF ending = "output" THEN Lengths ELSE {0})
    /\ nuls \in {places \cap (1 .. length) : places \in Nuls \cup {{}}}
    /\ leftover \in (IF ending = "output" THEN Leftovers ELSE {0})
    /\ controller = "repeat" /\ told = 0
    /\ teller = CASE ending = "output"    -> "run"
                  [] ending = "removed"   -> "size"
                  [] ending = "abandoned" -> "return"
                  [] OTHER                -> "done"
    /\ file = Text("old", leftover) /\ offset = 0 /\ count = 0 /\ i = 0
    /\ buffer = [p \in 1 .. Block |-> Stale]
    /\ stream = <<>> /\ closed = FALSE /\ server = "up"
    /\ client = "sentences" /\ sentences = 0 /\ n = 0
    /\ characters = 0 /\ k = 0 /\ printed = <<>>
    /\ overtaken = FALSE /\ short = FALSE

Reading   == client \notin {"done", "failed"}
EndOfFile == stream = <<>> /\ (closed \/ server # "up")

-----------------------------------------------------------------------------
(* write: waits while the socket is full.  On a descriptor that another     *)
(* thread has closed it fails, which is exit(1), or reaches the client that *)
(* got the descriptor meanwhile.  When the client is gone and has left      *)
(* something unread, the connection is reset: the write is swallowed, or    *)
(* fails, or raises SIGPIPE, which nobody handles.                          *)
Send(cells) ==
    /\ server = "up"
    /\ \/ /\ ~closed
          /\ Reading => stream = <<>> \/ Len(stream) + Len(cells) <= Room
          /\ stream' = stream \o cells
          /\ server' \in IF Reading \/ stream = <<>> THEN {"up"}
                                                  ELSE {"up", "down"}
       \/ /\ closed
          /\ stream' = stream
          /\ server' \in {"up", "down"}
    /\ UNCHANGED closed

CloseSocket ==
    /\ server = "up"
    /\ closed' = TRUE
    /\ UNCHANGED <<stream, server>>

-----------------------------------------------------------------------------
(* The controller: the sentences of its handler. *)

WriteRepeat ==
    /\ controller = "repeat"
    /\ Send(<<Number(Repeat)>>)
    /\ controller' = "size"
    /\ UNCHANGED <<job, told, teller, locals, reader, overtaken, short>>

WriteSize ==
    /\ controller = "size"
    /\ Send(<<Number(TextLen)>>)
    /\ controller' = "text"
    /\ UNCHANGED <<job, told, teller, locals, reader, overtaken, short>>

FaultyAfterSentences == IF ending = "polled" THEN "close" ELSE "done"

AfterSentences ==
    CASE ending = "refused" -> "zero"
      [] ending = "polled"  -> "close"
      [] OTHER              -> "done"   \* the descriptor went with the job

WriteText ==
    /\ controller = "text"
    /\ Send(Sentence)
    /\ told' = told + 1
    /\ controller' = IF told' < Repeat THEN "size" ELSE AfterSentences
    /\ UNCHANGED <<job, teller, locals, reader, overtaken, short>>

(* A refused job has no output: 0 characters. *)
WriteZero ==
    /\ controller = "zero"
    /\ Send(<<Number(0)>>)
    /\ controller' = "close"
    /\ UNCHANGED <<job, told, teller, locals, reader, overtaken, short>>

CloseAnswer ==
    /\ controller = "close"
    /\ CloseSocket
    /\ controller' = "done"
    /\ UNCHANGED <<job, told, teller, locals, reader, overtaken, short>>

Controller ==
    WriteRepeat \/ WriteSize \/ WriteText \/ WriteZero \/ CloseAnswer

-----------------------------------------------------------------------------
(* The end of a job that was not executed: a notice with its size, and no   *)
(* number before it.                                                        *)

WriteNoticeSize ==
    /\ teller = "size"
    /\ Send(<<Number(TextLen)>>)
    /\ teller' = "notice"
    /\ overtaken' = (controller # "done")
    /\ UNCHANGED <<job, controller, told, locals, reader, short>>

WriteNotice ==
    /\ teller = "notice"
    /\ Send(Notice)
    /\ teller' = "close"
    /\ UNCHANGED <<job, controller, told, locals, reader, overtaken, short>>

CloseJob ==
    /\ teller = "close"
    /\ CloseSocket
    /\ teller' = IF ending = "output" THEN "unlink" ELSE "done"
    /\ UNCHANGED <<job, controller, told, locals, reader, overtaken, short>>

(* Nobody ends the job, but main returns, and the process and its sockets   *)
(* with it.                                                                 *)
ReturnFromMain ==
    /\ teller = "return" /\ server = "up"
    /\ server' = "ended"
    /\ UNCHANGED <<job, controller, told, teller, locals, stream, closed,
                   reader, overtaken, short>>

-----------------------------------------------------------------------------
(* The worker: child_code and parent_code. *)

(* read(fd, b + at, size) into the buffer b: what there is up to size. *)
Got(size) == IF Len(file) - offset < size THEN Len(file) - offset ELSE size
Filled(b, at, size) ==
    [p \in 1 .. Block |->
        IF p > at /\ p <= at + Got(size) THEN file[offset + p - at] ELSE b[p]]

(* The buffer with the start marker copied to its beginning. *)
Started == [p \in 1 .. Block |-> IF p <= StartLen THEN Start[p] ELSE buffer[p]]

(* The job has ended, its standard output is in the file, which open did    *)
(* not truncate.                                                            *)
RunJob ==
    /\ teller = "run"
    /\ file' = Output \o SubSeq(file, length + 1, leftover)
    /\ teller' = "append"
    /\ UNCHANGED <<job, controller, told, offset, count, i, buffer, network,
                   reader, overtaken, short>>

AppendEnd ==
    /\ teller = "append" /\ server = "up"
    /\ file' = file \o End
    /\ offset' = 0
    /\ teller' = "measure"
    /\ UNCHANGED <<job, controller, told, count, i, buffer, network, reader,
                   overtaken, short>>

FaultyMeasure ==
    /\ teller = "measure" /\ server = "up"
    /\ buffer' = Filled(buffer, 0, Block)
    /\ offset' = offset + Block
    /\ IF Got(Block) > 0
       THEN count' = count + Got(Block) /\ teller' = teller
       ELSE count' = count + StartLen /\ teller' = "tell"
    /\ UNCHANGED <<job, controller, told, file, i, network, reader, overtaken,
                   short>>

(* One read of the loop that counts the characters, or its end. *)
Measure ==
    /\ teller = "measure" /\ server = "up"
    /\ buffer' = Filled(buffer, 0, Block)
    /\ offset' = offset + Got(Block)
    /\ IF Got(Block) > 0
       THEN count' = count + Got(Block) /\ teller' = teller
       ELSE count' = count + StartLen /\ teller' = "tell"
    /\ UNCHANGED <<job, controller, told, file, i, network, reader, overtaken,
                   short>>

FaultyTell ==
    /\ teller = "tell"
    /\ Send(<<Number(count + StartLen)>>)
    /\ offset' = 0
    /\ teller' = IF Loops > 0 THEN "block" ELSE "rest"
    /\ overtaken' = (controller # "done")
    /\ UNCHANGED <<job, controller, told, file, count, i, buffer, reader,
                   short>>

Tell ==
    /\ teller = "tell"
    /\ Send(<<Number(count)>>)
    /\ offset' = 0
    /\ teller' = IF Loops > 0 THEN "block" ELSE "rest"
    /\ overtaken' = (controller # "done")
    /\ UNCHANGED <<job, controller, told, file, count, i, buffer, reader,
                   short>>

FaultySendBlock ==
    LET b == IF i = 0 THEN Started ELSE buffer
        at == IF i = 0 THEN StartLen ELSE 0 IN
    /\ teller = "block"
    /\ buffer' = Filled(b, at, Block)
    /\ offset' = offset + Got(Block)
    /\ Send(buffer')
    /\ i' = i + 1
    /\ teller' = IF i' < Loops THEN "block" ELSE "rest"
    /\ UNCHANGED <<job, controller, told, file, count, reader, overtaken,
                   short>>

(* A whole block; the first one begins with the start marker. *)
SendBlock ==
    LET b == IF i = 0 THEN Started ELSE buffer
        at == IF i = 0 THEN StartLen ELSE 0 IN
    /\ teller = "block"
    /\ buffer' = Filled(b, at, Block - at)
    /\ offset' = offset + Got(Block - at)
    /\ Send(buffer')
    /\ i' = i + 1
    /\ teller' = IF i' < Loops THEN "block" ELSE "rest"
    /\ UNCHANGED <<job, controller, told, file, count, reader, overtaken,
                   short>>

(* The rest, which is the whole output when there was no block. *)
SendRest ==
    LET b == IF Loops = 0 THEN Started ELSE buffer
        at == IF Loops = 0 THEN StartLen ELSE 0 IN
    /\ teller = "rest"
    /\ buffer' = Filled(b, at, Remaining - at)
    /\ offset' = offset + Got(Remaining - at)
    /\ Send(SubSeq(buffer', 1, Remaining))
    /\ teller' = "close"
    /\ UNCHANGED <<job, controller, told, file, count, i, reader, overtaken,
                   short>>

Unlink ==
    /\ teller = "unlink" /\ server = "up"
    /\ file' = <<>>
    /\ teller' = "done"
    /\ UNCHANGED <<job, controller, told, offset, count, i, buffer, network,
                   reader, overtaken, short>>

Teller ==
    \/ WriteNoticeSize \/ WriteNotice \/ CloseJob \/ ReturnFromMain
    \/ RunJob \/ AppendEnd \/ Measure \/ Tell \/ SendBlock \/ SendRest
    \/ Unlink

(* The process may end at any time on account of others: the malformed      *)
(* command of another client is exit(1), so is a write to another client    *)
(* that fails, and main may return while this controller is at work.        *)
ServerExits ==
    /\ server = "up"
    /\ server' = "ended"
    /\ UNCHANGED <<job, controller, told, teller, locals, stream, closed,
                   reader, overtaken, short>>

-----------------------------------------------------------------------------
(* jobCommander *)

server_side == <<job, controller, told, teller, locals, closed, server,
                 overtaken>>

(* read_int_from_socket; the number is at hand. *)
ReadNumber ==
    /\ stream # <<>> /\ Head(stream).of = "number"
    /\ stream' = Tail(stream)
    /\ UNCHANGED <<server_side, printed, short>>

(* What printf("%s") writes of a text: all that is before its first NUL; an *)
(* int that was read as text has one too, for its high bytes are 0.         *)
HasNul(cell) == cell.of \in {"nul", "number"}
FirstNul(text) == SelectInSeq(text, HasNul)
UpToNul(text) ==
    IF FirstNul(text) = 0 THEN text ELSE SubSeq(text, 1, FirstNul(text) - 1)

(* read_string_from_socket and the printf that follows it. *)
ReadText(size) ==
    /\ Len(stream) >= size
    /\ printed' = Append(printed, UpToNul(SubSeq(stream, 1, size)))
    /\ stream' = SubSeq(stream, size + 1, Len(stream))
    /\ UNCHANGED <<server_side, short>>

FaultyAfterReadingSentences == "done"

(* Only an issueJob is followed by output. *)
AfterReadingSentences == IF ending = "polled" THEN "done" ELSE "characters"

ReadSentences ==
    /\ client = "sentences"
    /\ ReadNumber
    /\ sentences' = Head(stream).val
    /\ client' = IF sentences' > 0 THEN "n" ELSE AfterReadingSentences
    /\ UNCHANGED <<n, characters, k>>

ReadSize ==
    /\ client = "n"
    /\ ReadNumber
    /\ n' = Head(stream).val
    /\ client' = "str"
    /\ UNCHANGED <<sentences, characters, k>>

ReadSentence ==
    /\ client = "str"
    /\ ReadText(n)
    /\ sentences' = sentences - 1
    /\ client' = IF sentences' > 0 THEN "n" ELSE AfterReadingSentences
    /\ UNCHANGED <<n, characters, k>>

ReadCharacters ==
    /\ client = "characters"
    /\ ReadNumber
    /\ characters' = Head(stream).val
    /\ client' = IF characters' >= Block THEN "block"
                 ELSE IF characters' > 0 THEN "rest" ELSE "done"
    /\ UNCHANGED <<sentences, n, k>>

ReadBlock ==
    /\ client = "block"
    /\ ReadText(Block)
    /\ k' = k + 1
    /\ client' = IF k' < characters \div Block THEN "block"
                 ELSE IF characters % Block # 0 THEN "rest" ELSE "done"
    /\ UNCHANGED <<sentences, n, characters>>

ReadRest ==
    /\ client = "rest"
    /\ ReadText(characters % Block)
    /\ client' = "done"
    /\ UNCHANGED <<sentences, n, characters, k>>

(* What the client asks the socket for. *)
AtNumber == client \in {"sentences", "n", "characters"}
Wanted   == CASE client = "str"   -> n
              [] client = "block" -> Block
              [] client = "rest"  -> characters % Block
              [] OTHER            -> 1

(* exit(1): end of file; a text read as a number, which asks for hundreds   *)
(* of megabytes or a negative size; a text of which less has been written   *)
(* than is asked for; a text of which less has arrived than was written.    *)
FailAtEnd ==
    /\ Reading /\ Wanted > 0 /\ EndOfFile
    /\ client' = "failed"
    /\ UNCHANGED <<server_side, sentences, n, characters, k, printed, stream,
                   short>>

FailOnGarbage ==
    /\ AtNumber /\ stream # <<>> /\ Head(stream).of # "number"
    /\ client' = "failed"
    /\ UNCHANGED <<server_side, sentences, n, characters, k, printed, stream,
                   short>>

FailOnMissing ==
    /\ Reading /\ ~AtNumber /\ stream # <<>> /\ Len(stream) < Wanted
    /\ client' = "failed"
    /\ UNCHANGED <<server_side, sentences, n, characters, k, printed, stream,
                   short>>

FailOnShortRead ==
    /\ Reading /\ ~AtNumber /\ ShortReads
    /\ Wanted > 1 /\ Len(stream) >= Wanted
    /\ client' = "failed"
    /\ short' = TRUE
    /\ UNCHANGED <<server_side, sentences, n, characters, k, printed, stream>>

Client ==
    \/ ReadSentences \/ ReadSize \/ ReadSentence
    \/ ReadCharacters \/ ReadBlock \/ ReadRest
    \/ FailAtEnd \/ FailOnGarbage \/ FailOnMissing \/ FailOnShortRead

Next == Controller \/ Teller \/ Client \/ ServerExits

Spec == Init /\ [][Next]_vars

(* Threads and processes are scheduled, and the job ends.  Nothing says     *)
(* that another client ends the server.                                     *)
FairSpec ==
    Spec /\ WF_vars(Controller) /\ WF_vars(Teller) /\ WF_vars(Client)

-----------------------------------------------------------------------------
TypeOK ==
    /\ ending \in Endings
    /\ length \in Lengths \cup {0} /\ leftover \in Leftovers \cup {0}
    /\ nuls \subseteq 1 .. length
    /\ controller \in {"repeat", "size", "text", "zero", "close", "done"}
    /\ told \in 0 .. Repeat
    /\ teller \in {"run", "append", "measure", "tell", "block", "rest", "size",
                   "notice", "close", "unlink", "return", "done"}
    /\ file \in Seq(Cell) /\ offset \in 0 .. length + leftover + EndLen
    /\ count \in Nat /\ i \in 0 .. Loops
    /\ buffer \in [1 .. Block -> Cell]
    /\ stream \in Seq(Cell) /\ closed \in BOOLEAN
    /\ server \in {"up", "down", "ended"}
    /\ client \in {"sentences", "n", "str", "characters", "block", "rest",
                   "done", "failed"}
    /\ sentences \in Nat /\ n \in Nat /\ characters \in Nat
    /\ k \in 0 .. characters \div Block
    /\ printed \in Seq(Seq(Cell))
    /\ overtaken \in BOOLEAN /\ short \in BOOLEAN

(* What a commander is promised: SUBMITTED, then the output between its     *)
(* markers, or the reason why there is none; an answer of k sentences to    *)
(* any other command.  It reads each sentence at once, and the rest in      *)
(* blocks; Portion(j) is what it gives to its j-th printf.                  *)
PromisedBody ==
    CASE ending = "output"  -> Start \o Output \o End
      [] ending = "removed" -> Notice
      [] OTHER              -> <<>>

PartOf(body, j) ==
    LET last == (j - Repeat) * Block IN
    IF j <= Repeat THEN Sentence
    ELSE SubSeq(body, last - Block + 1,
                IF last <= Len(body) THEN last ELSE Len(body))
Portion(j) == PartOf(PromisedBody, j)
Portions   == Repeat + ((Len(PromisedBody) + Block - 1) \div Block)

(* When the two authors of an answer do not overtake one another, every     *)
(* printf of a client is given what it should be, so that no byte is wrong, *)
(* doubled or out of place, whatever the size of the output relative to the *)
(* blocks; and one that ends well has printed all of them.  What is missing *)
(* is what follows a NUL byte in the same block, and nothing else.  An old  *)
(* file with the pid of the job does no harm as long as the job writes over *)
(* all of it; the tail of a longer one is sent as output of this job.       *)
PrintsTheAnswer ==
    ~overtaken /\ leftover <= length =>
        /\ \A j \in DOMAIN printed :
              j <= Portions /\ printed[j] = UpToNul(Portion(j))
        /\ client = "done" => Len(printed) = Portions

(* All that this client waits for has been sent. *)
Answered == controller \in {"close", "done"} /\ teller \in {"close", "unlink", "done"}

(* A client gives up only after a short read, or an answer out of order, or *)
(* when the server has ended, for whatever reason, before its answer: the   *)
(* count and the blocks that the server announces are those it sends, and   *)
(* what has been sent can be read to its end.                               *)
FailsForCause ==
    client = "failed" => overtaken \/ short \/ (server = "ended" /\ ~Answered)

(* A write of the server fails only when the client it serves gave up, or   *)
(* when an answer was out of order: while a client reads what it was        *)
(* promised it does not leave, and no descriptor is closed, before the last *)
(* byte (after it, the write of 0 bytes of an output that fills its blocks  *)
(* does no harm).                                                           *)
ServerFallsForCause == server = "down" => overtaken \/ short

(* Both sides come to an end, with a socket as small as Room: a writer that *)
(* blocks on a full socket (with global_Mtx_Queue locked, if it is a stop)  *)
(* goes on, because the client reads on; and the client, however it         *)
(* misreads an answer, does not wait for ever for something nobody sends.   *)
BothEnd ==
    /\ <>(client \in {"done", "failed"})
    /\ <>(server # "up" \/ (controller = "done" /\ teller = "done"))

-----------------------------------------------------------------------------
(* design-assumptions.md:14-15 and README.md:41: the number of sentences    *)
(* comes first, then each sentence, then the output, and the reader knows   *)
(* that order.  The worker, or a stop, does not wait for the controller, so *)
(* a client may read the size of the output as the number of sentences.     *)
SentencesComeFirst == client # "sentences" => sentences <= Repeat
=============================================================================
