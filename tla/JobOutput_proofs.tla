-------------------------- MODULE JobOutput_proofs --------------------------
(* Each printf of a client is given its part of the answer of the server,    *)
(* for any length of the job's output, any NUL bytes in it, any sizes of the *)
(* blocks, the markers and the sentences, any room in the socket, any reads  *)
(* that it returns early, and a server that may end at any time.             *)
EXTENDS JobOutput, SequenceTheorems, WellFoundedInduction, TLAPS

-----------------------------------------------------------------------------
(* Arithmetic: division, and a product with a factor that grows.             *)

LEMMA Division ==
    ASSUME NEW a \in Nat, NEW b \in Nat \ {0}
    PROVE  /\ a \div b \in Nat /\ a % b \in 0 .. b - 1
           /\ a = ((a \div b) * b) + (a % b)
OBVIOUS

LEMMA ProductGrows ==
    ASSUME NEW a \in Nat, NEW b \in Nat, NEW c \in Nat, a <= b
    PROVE  a * c \in Nat /\ b * c \in Nat /\ a * c <= b * c
OBVIOUS

LEMMA ProductStep ==
    ASSUME NEW a \in Nat, NEW c \in Nat
    PROVE  (a + 1) * c = a * c + c
OBVIOUS

(* Less than a block has no whole block in it.                               *)
LEMMA NoBlock ==
    ASSUME NEW a \in Nat, NEW b \in Nat \ {0}
    PROVE  /\ a >= b => a \div b > 0
           /\ a < b => a \div b = 0 /\ a % b = a
<1> DEFINE q == a \div b
           r == a % b
<1>1. q \in Nat /\ r \in 0 .. b - 1 /\ a = (q * b) + r
  BY Division
<1> HIDE DEF q, r
<1>2. q = 0 => a = r
  BY <1>1
<1>3. q >= 1 => a >= b
  <2>1. q >= 1 => 1 * b <= q * b /\ q * b \in Nat
    BY <1>1, ProductGrows
  <2> QED
    BY <2>1, <1>1
<1>4. q \in Nat /\ r \in 0 .. b - 1
  BY <1>1
<1>5. a >= b => q > 0
  BY <1>2, <1>4
<1>6. a < b => q = 0
  BY <1>3, <1>4
<1> QED
  BY <1>2, <1>5, <1>6 DEF q, r

(* A quotient and a remainder are what division gives back.                  *)
LEMMA RemainderOf ==
    ASSUME NEW b \in Nat \ {0}, NEW t \in Nat, NEW r \in 0 .. b - 1
    PROVE  ((t * b) + r) % b = r /\ ((t * b) + r) \div b = t
<1> DEFINE a == (t * b) + r
           q == a \div b
<1>0. t * b \in Nat /\ a \in Nat
  BY ProductGrows
<1>1. q \in Nat /\ a % b \in 0 .. b - 1 /\ a = (q * b) + (a % b)
  BY <1>0, Division
<1>2. q >= t + 1 => FALSE
  <2>1. q >= t + 1 => (t * b) + b <= q * b
    BY <1>1, ProductGrows, ProductStep
  <2> QED
    BY <2>1, <1>0, <1>1
<1>3. q + 1 <= t => FALSE
  <2>1. q + 1 <= t => (q * b) + b <= t * b
    BY <1>1, ProductGrows, ProductStep
  <2> QED
    BY <2>1, <1>0, <1>1
<1>4. q = t
  BY <1>1, <1>2, <1>3
<1> QED
  BY <1>0, <1>1, <1>4

(* A quotient that is rounded up.                                            *)
LEMMA RoundedUp ==
    ASSUME NEW m \in Nat, NEW b \in Nat \ {0}
    PROVE  /\ m % b = 0 => (m + b - 1) \div b = m \div b
           /\ m % b # 0 => (m + b - 1) \div b = (m \div b) + 1
<1> DEFINE q == m \div b
           r == m % b
<1>1. q \in Nat /\ r \in 0 .. b - 1 /\ m = (q * b) + r
  BY Division
<1>2. (((q * b) + (b - 1)) \div b = q) /\ q * b \in Nat
  <2>1. q \in Nat /\ b - 1 \in 0 .. b - 1
    BY <1>1
  <2> HIDE DEF q, r
  <2>2. ((q * b) + (b - 1)) \div b = q
    BY <2>1, RemainderOf
  <2>3. q * b \in Nat
    BY <2>1, ProductGrows
  <2> QED
    BY <2>2, <2>3
<1>3. r # 0 => (((q + 1) * b) + (r - 1)) \div b = q + 1
  <2>1. r # 0 => r - 1 \in 0 .. b - 1 /\ q + 1 \in Nat
    BY <1>1
  <2> HIDE DEF q, r
  <2> QED
    BY <2>1, RemainderOf
<1>4. r = 0 => m + b - 1 = (q * b) + (b - 1)
  <2> HIDE DEF q, r
  <2> QED
    BY <1>1, <1>2
<1>5. r # 0 => m + b - 1 = ((q + 1) * b) + (r - 1)
  <2>1. (q + 1) * b = (q * b) + b
    BY <1>1, ProductStep
  <2> HIDE DEF q, r
  <2> QED
    BY <1>1, <1>2, <2>1
<1> HIDE DEF q, r
<1>6. r = 0 => (m + b - 1) \div b = q
  BY <1>2, <1>4
<1>7. r # 0 => (m + b - 1) \div b = q + 1
  BY <1>3, <1>5
<1> QED
  BY <1>6, <1>7 DEF q, r

(* A set of natural numbers has a least one.                                 *)
LEMMA LeastPlace ==
    ASSUME NEW I, I \subseteq Nat, I # {}
    PROVE  \E m \in I : \A j \in I : m <= j
<1>1. IsWellFoundedOn(OpToRel(<, Nat), Nat)
  BY NatLessThanWellFounded
<1>2. PICK m \in I : \A j \in I : ~(<<j, m>> \in OpToRel(<, Nat))
  BY <1>1, WFMin
<1>3. \A a, b \in Nat : a < b => <<a, b>> \in OpToRel(<, Nat)
  BY DEF OpToRel
<1>4. \A j \in I : ~(j < m)
  BY <1>2, <1>3
<1>5. \A j \in I : m <= j
  BY <1>4
<1> QED
  BY <1>5

-----------------------------------------------------------------------------
(* Sequences.                                                                *)

(* s, r times.                                                               *)
Times(s, r) == [p \in 1 .. r * Len(s) |-> s[((p - 1) % Len(s)) + 1]]

(* How long that is, and of what.                                            *)
LEMMA TimesType ==
    ASSUME NEW S, NEW s \in Seq(S), s # <<>>, NEW r \in Nat
    PROVE  /\ Times(s, r) \in Seq(S)
           /\ Len(Times(s, r)) = r * Len(s)
<1>1. Len(s) \in Nat \ {0} /\ s \in [1 .. Len(s) -> S]
  BY EmptySeq, LenProperties
<1>2. r * Len(s) \in Nat
  BY <1>1, ProductGrows
<1>3. \A p \in 1 .. r * Len(s) : s[((p - 1) % Len(s)) + 1] \in S
  <2> TAKE p \in 1 .. r * Len(s)
  <2>1. (p - 1) % Len(s) \in 0 .. Len(s) - 1
    <3>1. p - 1 \in Nat
      BY <1>2
    <3> QED
      BY <3>1, <1>1, Division
  <2> QED
    BY <2>1, <1>1
<1>4. Times(s, r) \in [1 .. r * Len(s) -> S]
  BY <1>3 DEF Times
<1> QED
  BY <1>2, <1>4

(* Each of them is s.                                                        *)
LEMMA OneOfTimes ==
    ASSUME NEW S, NEW s \in Seq(S), s # <<>>, NEW r \in Nat, NEW t \in 0 .. r - 1
    PROVE  /\ t * Len(s) \in Nat
           /\ (t * Len(s)) + Len(s) <= r * Len(s)
           /\ \A p \in 1 .. Len(s) : Times(s, r)[(t * Len(s)) + p] = s[p]
<1>1. Len(s) \in Nat \ {0}
  BY EmptySeq
<1>2. t * Len(s) \in Nat /\ (t * Len(s)) + Len(s) <= r * Len(s) /\ r * Len(s) \in Nat
  BY <1>1, ProductGrows, ProductStep
<1>3. ASSUME NEW p \in 1 .. Len(s)
      PROVE  Times(s, r)[(t * Len(s)) + p] = s[p]
  <2>1. (t * Len(s)) + p \in 1 .. r * Len(s)
    BY <1>1, <1>2
  <2>2. (((t * Len(s)) + p) - 1) % Len(s) = p - 1
    <3>1. ((t * Len(s)) + p) - 1 = (t * Len(s)) + (p - 1)
      BY <1>1, <1>2
    <3>2. ((t * Len(s)) + (p - 1)) % Len(s) = p - 1
      <4> DEFINE len == Len(s)
                 q == p - 1
      <4>1. len \in Nat \ {0} /\ t \in Nat /\ q \in 0 .. len - 1
        BY <1>1
      <4> HIDE DEF len, q
      <4>2. ((t * len) + q) % len = q
        BY <4>1, RemainderOf
      <4> QED
        BY <4>2 DEF len, q
    <3> QED
      BY <3>1, <3>2
  <2> QED
    BY <2>1, <2>2, <1>1 DEF Times
<1> QED
  BY <1>2, <1>3

(* The part of s after its first r cells, up to w.                           *)
LEMMA PartCells ==
    ASSUME NEW S, NEW s \in Seq(S), NEW r \in Nat, NEW w \in r .. Len(s)
    PROVE  /\ SubSeq(s, r + 1, w) \in Seq(S)
           /\ Len(SubSeq(s, r + 1, w)) = w - r
           /\ \A p \in 1 .. w - r : SubSeq(s, r + 1, w)[p] = s[r + p]
<1>1. Len(s) \in Nat /\ \A p \in r + 1 .. w : s[p] \in S
  BY LenProperties
<1> QED
  BY <1>1, SubSeqProperties

(* A part of a part of s.                                                    *)
LEMMA PartOfPart ==
    ASSUME NEW S, NEW s \in Seq(S), NEW r \in Nat, NEW w \in r .. Len(s),
           NEW m \in Nat, r + m <= w
    PROVE  /\ SubSeq(s, r + 1, w) \in Seq(S)
           /\ Len(SubSeq(s, r + 1, w)) = w - r
           /\ SubSeq(SubSeq(s, r + 1, w), 1, m) = SubSeq(s, r + 1, r + m)
           /\ SubSeq(SubSeq(s, r + 1, w), m + 1, w - r) = SubSeq(s, r + m + 1, w)
<1> DEFINE u == SubSeq(s, r + 1, w)
<1>1. u \in Seq(S) /\ Len(u) = w - r /\ \A p \in 1 .. w - r : u[p] = s[r + p]
  BY LenProperties, SubSeqProperties
<1>2. /\ SubSeq(u, 1, m) \in Seq(S) /\ Len(SubSeq(u, 1, m)) = m
      /\ \A p \in 1 .. m : SubSeq(u, 1, m)[p] = u[p]
  BY <1>1, LenProperties, SubSeqProperties
<1>3. /\ SubSeq(s, r + 1, r + m) \in Seq(S) /\ Len(SubSeq(s, r + 1, r + m)) = m
      /\ \A p \in 1 .. m : SubSeq(s, r + 1, r + m)[p] = s[r + p]
  BY LenProperties, SubSeqProperties
<1>4. SubSeq(u, 1, m) = SubSeq(s, r + 1, r + m)
  <2>1. \A p \in 1 .. m : SubSeq(u, 1, m)[p] = SubSeq(s, r + 1, r + m)[p]
    BY <1>1, <1>2, <1>3
  <2> HIDE DEF u
  <2> QED
    BY <2>1, <1>2, <1>3, SeqEqual
<1>5. /\ SubSeq(u, m + 1, w - r) \in Seq(S)
      /\ Len(SubSeq(u, m + 1, w - r)) = w - r - m
      /\ \A p \in 1 .. w - r - m : SubSeq(u, m + 1, w - r)[p] = u[m + p]
  BY <1>1, LenProperties, SubSeqProperties
<1>6. /\ SubSeq(s, r + m + 1, w) \in Seq(S) /\ Len(SubSeq(s, r + m + 1, w)) = w - r - m
      /\ \A p \in 1 .. w - r - m : SubSeq(s, r + m + 1, w)[p] = s[r + m + p]
  BY LenProperties, SubSeqProperties
<1>7. SubSeq(u, m + 1, w - r) = SubSeq(s, r + m + 1, w)
  <2>1. \A p \in 1 .. w - r - m :
           SubSeq(u, m + 1, w - r)[p] = SubSeq(s, r + m + 1, w)[p]
    BY <1>1, <1>5, <1>6
  <2> HIDE DEF u
  <2> QED
    BY <2>1, <1>5, <1>6, SeqEqual
<1> HIDE DEF u
<1> QED
  BY <1>1, <1>4, <1>7 DEF u

(* A part of s that follows on another.                                      *)
LEMMA PartsJoin ==
    ASSUME NEW S, NEW s \in Seq(S), NEW r \in Nat, NEW w \in r .. Len(s),
           NEW v \in w .. Len(s)
    PROVE  SubSeq(s, r + 1, w) \o SubSeq(s, w + 1, v) = SubSeq(s, r + 1, v)
BY ConcatAdjacentSubSeq, LenProperties

(* The parts of t in s \o t.                                                 *)
LEMMA PartOfMiddle ==
    ASSUME NEW S, NEW s \in Seq(S), NEW t \in Seq(S), NEW a \in Nat, NEW b \in a .. Len(t)
    PROVE  SubSeq(s \o t, Len(s) + a + 1, Len(s) + b) = SubSeq(t, a + 1, b)
<1>1. /\ s \o t \in Seq(S) /\ Len(s \o t) = Len(s) + Len(t)
      /\ \A p \in 1 .. Len(s) + Len(t) :
            (s \o t)[p] = IF p <= Len(s) THEN s[p] ELSE t[p - Len(s)]
      /\ Len(s) \in Nat /\ Len(t) \in Nat
  BY ConcatProperties, LenProperties
<1>2. /\ SubSeq(s \o t, Len(s) + a + 1, Len(s) + b) \in Seq(S)
      /\ Len(SubSeq(s \o t, Len(s) + a + 1, Len(s) + b)) = b - a
      /\ \A p \in 1 .. b - a :
            SubSeq(s \o t, Len(s) + a + 1, Len(s) + b)[p] = (s \o t)[Len(s) + a + p]
  BY <1>1, LenProperties, SubSeqProperties
<1>3. /\ SubSeq(t, a + 1, b) \in Seq(S) /\ Len(SubSeq(t, a + 1, b)) = b - a
      /\ \A p \in 1 .. b - a : SubSeq(t, a + 1, b)[p] = t[a + p]
  BY <1>1, LenProperties, SubSeqProperties
<1>4. \A p \in 1 .. b - a : (s \o t)[Len(s) + a + p] = t[a + p]
  BY <1>1
<1>5. \A p \in 1 .. b - a :
         SubSeq(s \o t, Len(s) + a + 1, Len(s) + b)[p] = SubSeq(t, a + 1, b)[p]
  BY <1>2, <1>3, <1>4
<1> QED
  BY <1>2, <1>3, <1>5, SeqEqual

(* The parts of s in s \o t.                                                 *)
LEMMA PartOfFirst ==
    ASSUME NEW S, NEW s \in Seq(S), NEW t \in Seq(S), NEW a \in Nat, NEW b \in a .. Len(s)
    PROVE  SubSeq(s \o t, a + 1, b) = SubSeq(s, a + 1, b)
<1>1. /\ s \o t \in Seq(S) /\ Len(s \o t) = Len(s) + Len(t)
      /\ \A p \in 1 .. Len(s) + Len(t) :
            (s \o t)[p] = IF p <= Len(s) THEN s[p] ELSE t[p - Len(s)]
      /\ Len(s) \in Nat /\ Len(t) \in Nat
  BY ConcatProperties, LenProperties
<1>2. /\ SubSeq(s \o t, a + 1, b) \in Seq(S) /\ Len(SubSeq(s \o t, a + 1, b)) = b - a
      /\ \A p \in 1 .. b - a : SubSeq(s \o t, a + 1, b)[p] = (s \o t)[a + p]
  BY <1>1, LenProperties, SubSeqProperties
<1>3. /\ SubSeq(s, a + 1, b) \in Seq(S) /\ Len(SubSeq(s, a + 1, b)) = b - a
      /\ \A p \in 1 .. b - a : SubSeq(s, a + 1, b)[p] = s[a + p]
  BY <1>1, LenProperties, SubSeqProperties
<1> QED
  BY <1>1, <1>2, <1>3, SeqEqual

-----------------------------------------------------------------------------
(* The answer as a whole.                                                    *)

(* <pid>.output when the job has ended, with the tail of a longer old file,  *)
(* and when the worker has appended the end marker.                          *)
JobsFile  == Output \o SubSeq(Text("old", leftover), length + 1, leftover)
FinalFile == JobsFile \o End

(* What whoever ends the job tells the client, after the number of cells.    *)
Body == CASE ending = "output"  -> Start \o FinalFile
          [] ending = "removed" -> Notice
          [] OTHER              -> <<>>
Total == Len(Body)

(* What the controller tells: the number of sentences, and each sentence     *)
(* after its length.                                                         *)
Line  == <<Number(TextLen)>> \o Sentence

Told  == <<Number(Repeat)>> \o Times(Line, Repeat)

(* All that the server sends; what the client gives to its j-th printf, and  *)
(* how often it calls it.  The numbers are not printed.                      *)
Outcome == IF ending = "polled" THEN <<>> ELSE <<Number(Total)>> \o Body
Whole == Told \o Outcome
Part(j) == PartOf(Body, j)
Calls   == Repeat + ((Total + Block - 1) \div Block)

(* Where the lines of the controller begin in Whole, and where a block       *)
(* begins in Body.                                                           *)
LinePlace(t)     == 1 + t * (TextLen + 1)
BlockPlace(j)    == j * Block

(* How many cells of Whole are written, from where their writers stand; and  *)
(* how many are read, and how often printf was called, from where the client stands. *)
WrittenByController ==
    CASE controller = "repeat" -> 0
      [] controller = "size"   -> LinePlace(told)
      [] controller = "text"   -> LinePlace(told) + 1
      [] OTHER                 -> LinePlace(Repeat)

NothingEnded == \/ ending = "polled"
                \/ ending = "refused" /\ controller \in {"repeat", "size", "text", "zero"}
BeforeTelling == {"run", "append", "measure", "tell", "size", "return"}

WrittenByTeller ==
    CASE teller \in BeforeTelling     -> 0
      [] teller = "notice"            -> 1
      [] teller \in {"block", "rest"} -> 1 + BlockPlace(i)
      [] OTHER -> IF NothingEnded THEN 0 ELSE 1 + Total

Written == WrittenByController + WrittenByTeller

SentencesRead == Repeat - sentences

ReadSoFar ==
    CASE client = "sentences"  -> 0
      [] client = "n"          -> LinePlace(SentencesRead)
      [] client = "str"        -> LinePlace(SentencesRead) + 1
      [] client = "characters" -> LinePlace(Repeat)
      [] client \in {"block", "rest"} -> LinePlace(Repeat) + 1 + BlockPlace(k)
      [] OTHER                 -> Len(Whole)

CallsSoFar ==
    CASE client = "sentences"      -> 0
      [] client \in {"n", "str"}   -> SentencesRead
      [] client = "characters"     -> Repeat
      [] client \in {"block", "rest"} -> Repeat + k
      [] OTHER                     -> Calls

-----------------------------------------------------------------------------
(* The parts of the inductive invariant                                      *)

(* Who ends the job depends on how it ends; who closes the descriptor is at  *)
(* its end; and a short read is the last thing a client does.                *)
Roles ==
    /\ ending = "output" => teller \notin {"size", "notice", "return"}
    /\ ending = "removed" => teller \in {"size", "notice", "close", "done"}
    /\ ending = "abandoned" => teller = "return"
    /\ ending \in {"polled", "refused"} => teller = "done"
    /\ controller = "zero" => ending = "refused"
    /\ controller = "close" => ending \in {"polled", "refused"}
    /\ controller = "repeat" => told = 0
    /\ controller \in {"size", "text"} => told < Repeat
    /\ closed => CASE ending = "output"    -> teller \in {"unlink", "done"}
                   [] ending = "removed"   -> teller = "done"
                   [] ending = "abandoned" -> FALSE
                   [] OTHER                -> controller = "done"
    /\ teller \in BeforeTelling => ~overtaken
    /\ short => client = "failed"

(* The worker has read the file as far as it has sent it, markers apart, and *)
(* knows its size before it tells it.                                        *)
AtBlock == IF i = 0 THEN 0 ELSE BlockPlace(i) - StartLen

Files ==
    /\ teller = "run" => file = Text("old", leftover)
    /\ teller = "append" => file = JobsFile
    /\ teller \in {"measure", "tell", "block", "rest"} => file = FinalFile
    /\ teller \in {"run", "append"} => offset = 0 /\ count = 0 /\ i = 0
    /\ teller = "measure" => count = offset /\ offset <= Len(file) /\ i = 0
    /\ teller = "tell" => count = Total /\ i = 0
    /\ teller \in {"block", "rest"} => count = Total /\ offset = AtBlock
    /\ teller = "block" => i < Loops
    /\ teller = "rest" => i = Loops

(* The client's counters stay within what it was told, whatever that was.    *)
Reads ==
    /\ client \in {"n", "str"} => sentences > 0
    /\ client \in {"sentences", "n", "str", "characters"} => k = 0
    /\ client = "block" => k < characters \div Block

TypeInv == TypeOK /\ Roles /\ Files /\ Reads

(* The client took for a number only what was written as that number.        *)
Asked ==
    /\ client # "failed"
    /\ client \in {"n", "str"} => sentences <= Repeat
    /\ client = "str" => n = TextLen
    /\ client = "characters" => ending # "polled"
    /\ client \in {"block", "rest"} => ending # "polled" /\ characters = Total
    /\ client = "rest" => k = Total \div Block /\ Total % Block # 0

(* Server and client are at the same answer: the stream holds what was       *)
(* written and not read, and printf was called for all that was read.        *)
InStep ==
    /\ server # "down"
    /\ Asked
    /\ ReadSoFar <= Written
    /\ stream = SubSeq(Whole, ReadSoFar + 1, Written)
    /\ Len(printed) = CallsSoFar

(* What printf was given is the answer, part after part.                     *)
PrintedRight ==
    \A j \in DOMAIN printed : j <= Calls /\ printed[j] = UpToNul(Part(j))

(* The server has ended before it has answered.                              *)
Cut == server = "ended" /\ ~Answered

(* Whoever ends the job writes after the controller's last sentence.         *)
TellerWaited ==
    ending \notin {"polled", "refused"} /\ teller \notin BeforeTelling => controller = "done"

(* An answer that is written in order arrives in order.  A client that has   *)
(* failed prints nothing more: after a short read the server may fall on its *)
(* account, and without one the server had ended.                            *)
Ordered ==
    ~overtaken =>
        /\ TellerWaited
        /\ PrintedRight
        /\ client # "failed" => InStep
        /\ client = "failed" => short \/ Cut

IInv == TypeInv /\ Ordered

-----------------------------------------------------------------------------
(* What the answer is made of.                                               *)

(* The part of s that is one cell.                                           *)
LEMMA OneCell ==
    ASSUME NEW S, NEW s \in Seq(S), NEW p \in 1 .. Len(s)
    PROVE  SubSeq(s, p, p) = <<s[p]>>
<1>1. SubSeq(s, p, p) = <<s[p]>> \o SubSeq(s, p + 1, p)
  BY LenProperties, SubSeqRecursiveFirst
<1>2. SubSeq(s, p + 1, p) = <<>> /\ s[p] \in S
  BY LenProperties, SubSeqEmpty
<1>3. <<s[p]>> \in Seq(S)
  BY <1>2
<1> QED
  BY <1>1, <1>2, <1>3, ConcatEmptySeq

(* Numbers, letters and what the buffer held before are cells.               *)
LEMMA CellTypes ==
    /\ \A m \in Nat : Number(m) \in Cell /\ Number(m).of = "number" /\ Number(m).val = m
    /\ Stale \in Cell
    /\ \A of \in Texts : \A m \in Nat : Text(of, m) \in Seq(Cell) /\ Len(Text(of, m)) = m
<1>1. ASSUME NEW of \in Texts, NEW m \in Nat
      PROVE  Text(of, m) \in Seq(Cell) /\ Len(Text(of, m)) = m
  <2>1. Text(of, m) \in [1 .. m -> Cell]
    BY DEF Text, Cell
  <2> QED
    BY <2>1
<1> QED
  BY <1>1 DEF Number, Stale, Cell

(* The texts are as long as the constants say.                               *)
LEMMA TextTypes ==
    /\ Start \in Seq(Cell) /\ Len(Start) = StartLen
    /\ End \in Seq(Cell) /\ Len(End) = EndLen
    /\ Sentence \in Seq(Cell) /\ Len(Sentence) = TextLen
    /\ Notice \in Seq(Cell) /\ Len(Notice) = TextLen
BY CellTypes, SizesAssumption DEF Start, End, Sentence, Notice, Texts

(* What precedes a NUL is a text.                                            *)
LEMMA UpToNulType ==
    ASSUME NEW text \in Seq(Cell)
    PROVE  UpToNul(text) \in Seq(Cell)
<1> DEFINE I == {p \in 1 .. Len(text) : HasNul(text[p])}
<1>1. Len(text) \in Nat /\ \A m \in 0 .. Len(text) : SubSeq(text, 1, m) \in Seq(Cell)
  BY LenProperties, SubSeqProperties
<1>2. I \subseteq 1 .. Len(text) /\ I \subseteq Nat
  BY <1>1
<1>3. FirstNul(text) = IF I # {} THEN CHOOSE m \in I : \A j \in I : m <= j ELSE 0
  BY DEF FirstNul, SelectInSeq, Min
<1> HIDE DEF I
<1>4. I # {} => \E m \in I : \A j \in I : m <= j
  BY <1>2, LeastPlace
<1>5. FirstNul(text) \in I \/ FirstNul(text) = 0
  BY <1>3, <1>4
<1> DEFINE m == FirstNul(text)
<1>6. m \in 0 .. Len(text)
  <2> DEFINE size == Len(text)
  <2>1. size \in Nat
    BY <1>1
  <2>2. m \in 1 .. size \/ m = 0
    BY <1>2, <1>5
  <2> HIDE DEF m, size
  <2>3. m \in 0 .. size
    BY <2>1, <2>2
  <2> QED
    BY <2>3 DEF size
<1>7. m # 0 => m - 1 \in 0 .. Len(text)
  <2> HIDE DEF m
  <2> QED
    BY <1>1, <1>6
<1> QED
  BY <1>1, <1>7 DEF UpToNul

(* What the job writes is a text as long as it says.                         *)
LEMMA OutputType ==
    ASSUME length \in Nat
    PROVE  Output \in Seq(Cell) /\ Len(Output) = length
<1>1. Output \in [1 .. length -> Cell]
  BY DEF Output, Cell, Texts
<1> QED
  BY <1>1

JobType == ending \in Endings /\ length \in Nat /\ leftover \in Nat

(* There is a sentence.                                                      *)
LEMMA RepeatType == Repeat \in Nat \ {0}
BY SizesAssumption DEF Repeat

(* The file is no longer than the two jobs wrote, and the marker.            *)
LEMMA FileTypes ==
    ASSUME JobType
    PROVE  /\ Text("old", leftover) \in Seq(Cell) /\ Len(Text("old", leftover)) = leftover
           /\ JobsFile \in Seq(Cell)
           /\ Len(JobsFile) <= length + leftover
           /\ FinalFile \in Seq(Cell)
           /\ FinalFile = JobsFile \o End
           /\ Len(FinalFile) = Len(JobsFile) + EndLen
<1> DEFINE old == Text("old", leftover)
           rest == SubSeq(old, length + 1, leftover)
<1>1. old \in Seq(Cell) /\ Len(old) = leftover
  BY CellTypes DEF JobType, Texts
<1>2. Output \in Seq(Cell) /\ Len(Output) = length
  BY OutputType DEF JobType
<1>3. rest \in Seq(Cell) /\ Len(rest) \in Nat /\ Len(rest) <= leftover
  <2>1. \A p \in length + 1 .. leftover : old[p] \in Cell
    BY <1>1, LenProperties DEF JobType
  <2>2. rest \in Seq(Cell) /\ Len(rest) = IF length + 1 <= leftover THEN leftover - length ELSE 0
    BY <2>1, SubSeqProperties DEF JobType
  <2> QED
    BY <2>2 DEF JobType
<1>4. JobsFile \in Seq(Cell) /\ Len(JobsFile) = length + Len(rest)
  BY <1>2, <1>3, ConcatProperties DEF JobsFile
<1>5. FinalFile \in Seq(Cell) /\ Len(FinalFile) = Len(JobsFile) + EndLen
  BY <1>4, TextTypes, ConcatProperties DEF FinalFile
<1> QED
  BY <1>1, <1>3, <1>4, <1>5 DEF FinalFile, JobType

(* What is told of the job, by how it ended.                                 *)
LEMMA BodyType ==
    ASSUME JobType
    PROVE  /\ Body \in Seq(Cell) /\ Total \in Nat /\ Len(Body) = Total
           /\ ending = "output" => /\ Body = Start \o FinalFile
                                   /\ Total = StartLen + Len(FinalFile)
                                   /\ Total > 0
           /\ ending = "removed" => Body = Notice /\ Total = TextLen
           /\ ending \in {"polled", "refused", "abandoned"} => Body = <<>> /\ Total = 0
<1>1. CASE ending = "output"
  <2>1. Body = Start \o FinalFile
    BY <1>1 DEF Body
  <2>2. Body \in Seq(Cell) /\ Len(Body) = StartLen + Len(FinalFile) /\ Len(FinalFile) \in Nat
    BY <2>1, TextTypes, FileTypes, ConcatProperties, LenProperties
  <2> QED
    BY <1>1, <2>1, <2>2, SizesAssumption DEF Total
<1>2. CASE ending = "removed"
  <2>1. Body = Notice
    BY <1>2 DEF Body
  <2> QED
    BY <1>2, <2>1, TextTypes, SizesAssumption DEF Total
<1>3. CASE ending \in {"polled", "refused", "abandoned"}
  <2>1. Body = <<>>
    BY <1>3 DEF Body
  <2> QED
    BY <1>3, <2>1 DEF Total
<1> QED
  BY <1>1, <1>2, <1>3 DEF JobType, Endings

(* The lines of the answer are at their places.                              *)
LEMMA ToldType ==
    /\ Told \in Seq(Cell) /\ LinePlace(Repeat) \in Nat /\ Len(Told) = LinePlace(Repeat)
    /\ Told[1] = Number(Repeat) /\ LinePlace(0) = 1
    /\ \A t \in 0 .. Repeat - 1 :
          /\ LinePlace(t) \in Nat /\ LinePlace(t) >= 1
          /\ LinePlace(t + 1) = LinePlace(t) + 1 + TextLen
          /\ LinePlace(t + 1) <= LinePlace(Repeat)
          /\ Told[LinePlace(t) + 1] = Number(TextLen)
          /\ SubSeq(Told, LinePlace(t) + 2, LinePlace(t) + 1 + TextLen) = Sentence
<1>1. /\ TextLen \in Nat \ {0} /\ Repeat \in Nat \ {0}
      /\ <<Number(Repeat)>> \in Seq(Cell) /\ <<Number(TextLen)>> \in Seq(Cell)
  BY SizesAssumption, RepeatType, CellTypes
<1>2. /\ Line \in Seq(Cell) /\ Len(Line) = TextLen + 1 /\ Line # <<>>
      /\ Line[1] = Number(TextLen) /\ \A p \in 1 .. TextLen : Line[p + 1] = Sentence[p]
  <2>1. /\ Line \in Seq(Cell) /\ Len(Line) = 1 + TextLen
        /\ \A p \in 1 .. 1 + TextLen :
              Line[p] = IF p <= 1 THEN <<Number(TextLen)>>[p] ELSE Sentence[p - 1]
    BY <1>1, TextTypes, ConcatProperties DEF Line
  <2> QED
    BY <2>1, <1>1, EmptySeq
<1> DEFINE lines == Times(Line, Repeat)
<1>3. lines \in Seq(Cell) /\ Len(lines) = Repeat * (TextLen + 1) /\ Len(lines) \in Nat
  BY <1>1, <1>2, TimesType, LenProperties
<1>4. /\ Told \in Seq(Cell) /\ Len(Told) = LinePlace(Repeat) /\ LinePlace(Repeat) \in Nat
      /\ Told[1] = Number(Repeat)
      /\ \A p \in 1 .. Len(lines) : Told[p + 1] = lines[p]
  <2> HIDE DEF lines
  <2>1. /\ <<Number(Repeat)>> \o lines \in Seq(Cell)
        /\ Len(<<Number(Repeat)>> \o lines) = 1 + Len(lines)
        /\ \A p \in 1 .. 1 + Len(lines) :
              (<<Number(Repeat)>> \o lines)[p] =
                    IF p <= 1 THEN <<Number(Repeat)>>[p] ELSE lines[p - 1]
    BY <1>1, <1>3, ConcatProperties
  <2>2. Told = <<Number(Repeat)>> \o lines
    BY DEF Told, lines
  <2>3. LinePlace(Repeat) = 1 + Len(lines)
    BY <1>3 DEF LinePlace
  <2> QED
    BY <1>3, <2>1, <2>2, <2>3
<1>5. LinePlace(0) = 1
  BY <1>1 DEF LinePlace
<1>6. ASSUME NEW t \in 0 .. Repeat - 1
      PROVE  /\ LinePlace(t) \in Nat /\ LinePlace(t) >= 1
             /\ LinePlace(t + 1) = LinePlace(t) + 1 + TextLen
             /\ LinePlace(t + 1) <= LinePlace(Repeat)
             /\ Told[LinePlace(t) + 1] = Number(TextLen)
             /\ SubSeq(Told, LinePlace(t) + 2, LinePlace(t) + 1 + TextLen) = Sentence
  <2>1. t * (TextLen + 1) \in Nat /\ (t + 1) * (TextLen + 1) = t * (TextLen + 1) + (TextLen + 1)
    BY <1>1, ProductGrows, ProductStep
  <2>2. /\ LinePlace(t) \in Nat /\ LinePlace(t) >= 1
        /\ LinePlace(t + 1) = LinePlace(t) + 1 + TextLen
    BY <1>1, <2>1 DEF LinePlace
  <2>3. (t + 1) * (TextLen + 1) <= Repeat * (TextLen + 1) /\ Repeat * (TextLen + 1) \in Nat
    BY <1>1, ProductGrows
  <2>4. LinePlace(t + 1) <= LinePlace(Repeat)
    <3>1. /\ LinePlace(t + 1) = 1 + ((t + 1) * (TextLen + 1))
          /\ LinePlace(Repeat) = 1 + (Repeat * (TextLen + 1))
      BY DEF LinePlace
    <3>2. (t + 1) * (TextLen + 1) \in Nat
      BY <1>1, ProductGrows
    <3> QED
      BY <2>3, <3>1, <3>2
  <2>5. \A p \in 1 .. TextLen + 1 : lines[(t * (TextLen + 1)) + p] = Line[p]
    <3>1. \A p \in 1 .. Len(Line) : lines[(t * Len(Line)) + p] = Line[p]
      BY <1>1, <1>2, OneOfTimes
    <3> QED
      BY <1>2, <3>1
  <2>6. \A p \in 1 .. TextLen + 1 : Told[LinePlace(t) + p] = Line[p]
    <3> HIDE DEF lines
    <3> TAKE p \in 1 .. TextLen + 1
    <3>1. (t * (TextLen + 1)) + p \in 1 .. Len(lines)
      BY <1>1, <1>3, <2>1, <2>3
    <3>2. LinePlace(t) + p = ((t * (TextLen + 1)) + p) + 1
      BY <2>1 DEF LinePlace
    <3> QED
      BY <1>4, <2>5, <3>1, <3>2
  <2>7. Told[LinePlace(t) + 1] = Number(TextLen)
    BY <1>1, <1>2, <2>6
  <2>8. /\ SubSeq(Told, LinePlace(t) + 2, LinePlace(t) + 1 + TextLen) \in Seq(Cell)
        /\ Len(SubSeq(Told, LinePlace(t) + 2, LinePlace(t) + 1 + TextLen)) = TextLen
        /\ \A p \in 1 .. TextLen : SubSeq(Told, LinePlace(t) + 2, LinePlace(t) + 1 + TextLen)[p]
                                   = Told[LinePlace(t) + 1 + p]
    <3> DEFINE r == LinePlace(t) + 1
               w == LinePlace(t) + 1 + TextLen
    <3>1. /\ r \in Nat /\ w \in r .. Len(Told) /\ w - r = TextLen
          /\ r + 1 = LinePlace(t) + 2
      BY <1>1, <1>4, <2>2, <2>4
    <3> HIDE DEF r, w
    <3>2. /\ SubSeq(Told, r + 1, w) \in Seq(Cell) /\ Len(SubSeq(Told, r + 1, w)) = w - r
          /\ \A p \in 1 .. w - r : SubSeq(Told, r + 1, w)[p] = Told[r + p]
      BY <1>4, <3>1, PartCells
    <3> QED
      BY <3>1, <3>2 DEF r, w
  <2>9. \A p \in 1 .. TextLen : Told[LinePlace(t) + 1 + p] = Sentence[p]
    <3> TAKE p \in 1 .. TextLen
    <3>1. p + 1 \in 1 .. TextLen + 1 /\ LinePlace(t) + 1 + p = LinePlace(t) + (p + 1)
      BY <1>1, <2>2
    <3>2. Told[LinePlace(t) + (p + 1)] = Line[p + 1]
      BY <2>6, <3>1
    <3> QED
      BY <3>1, <3>2, <1>2
  <2>10. SubSeq(Told, LinePlace(t) + 2, LinePlace(t) + 1 + TextLen) = Sentence
    <3> DEFINE u == SubSeq(Told, LinePlace(t) + 2, LinePlace(t) + 1 + TextLen)
    <3>1. /\ u \in Seq(Cell) /\ Len(u) = TextLen
          /\ \A p \in 1 .. TextLen : u[p] = Sentence[p]
      BY <2>8, <2>9
    <3> HIDE DEF u
    <3>2. u = Sentence
      BY <3>1, TextTypes, SeqEqual
    <3> QED
      BY <3>2 DEF u
  <2> QED
    BY <2>2, <2>4, <2>7, <2>10
<1> QED
  BY <1>4, <1>5, <1>6

(* The whole answer, and where its two halves meet.                          *)
LEMMA WholeType ==
    ASSUME JobType
    PROVE  /\ Whole \in Seq(Cell)
           /\ Len(Whole) = LinePlace(Repeat) + (IF ending = "polled" THEN 0 ELSE 1 + Total)
           /\ Outcome \in Seq(Cell)
           /\ ending # "polled" => /\ Len(Outcome) = 1 + Total
                                   /\ Outcome[1] = Number(Total)
<1>1. Total \in Nat /\ Body \in Seq(Cell) /\ Len(Body) = Total
  BY BodyType
<1>2. CASE ending = "polled"
  <2>1. Outcome = <<>> /\ Outcome \in Seq(Cell) /\ Len(Outcome) = 0
    BY <1>2 DEF Outcome
  <2> QED
    BY <1>2, <2>1, ToldType, ConcatProperties DEF Whole
<1>3. CASE ending # "polled"
  <2>1. Outcome = <<Number(Total)>> \o Body /\ <<Number(Total)>> \in Seq(Cell)
    BY <1>1, <1>3, CellTypes DEF Outcome
  <2>2. /\ Outcome \in Seq(Cell) /\ Len(Outcome) = 1 + Total
        /\ \A p \in 1 .. 1 + Total : Outcome[p] = IF p <= 1 THEN <<Number(Total)>>[p] ELSE Body[p - 1]
    BY <1>1, <2>1, ConcatProperties
  <2>3. Outcome[1] = Number(Total)
    BY <1>1, <2>2
  <2>4. Whole \in Seq(Cell) /\ Len(Whole) = Len(Told) + Len(Outcome)
    BY <2>2, ToldType, ConcatProperties DEF Whole
  <2>5. Len(Whole) = LinePlace(Repeat) + (1 + Total)
    BY <2>2, <2>4, ToldType
  <2> QED
    BY <1>3, <2>2, <2>3, <2>4, <2>5
<1> QED
  BY <1>2, <1>3

(* The cells of the answer at the places where they are written and read.    *)
LEMMA FirstCell ==
    ASSUME JobType
    PROVE  Len(Whole) >= 1 /\ Whole[1] = Number(Repeat) /\ SubSeq(Whole, 1, 1) = <<Number(Repeat)>>
<1>1. /\ Told \in Seq(Cell) /\ Outcome \in Seq(Cell) /\ Len(Told) >= 1 /\ Told[1] = Number(Repeat)
      /\ Len(Whole) >= 1 /\ Whole \in Seq(Cell)
  <2>1. Repeat - 1 \in 0 .. Repeat - 1
    BY RepeatType
  <2>2. LinePlace(Repeat - 1) >= 1 /\ LinePlace((Repeat - 1) + 1) <= LinePlace(Repeat)
        /\ LinePlace((Repeat - 1) + 1) = LinePlace(Repeat - 1) + 1 + TextLen
        /\ LinePlace(Repeat - 1) \in Nat
    BY <2>1, ToldType
  <2>3. LinePlace(Repeat) \in Nat /\ LinePlace(Repeat) >= 1
    BY <2>2, ToldType, SizesAssumption
  <2> QED
    BY <2>3, ToldType, WholeType, BodyType
<1>2. Whole[1] = Told[1]
  <2>1. \A p \in 1 .. Len(Told) + Len(Outcome) :
           Whole[p] = IF p <= Len(Told) THEN Told[p] ELSE Outcome[p - Len(Told)]
    BY <1>1, ConcatProperties DEF Whole
  <2> QED
    BY <1>1, <2>1, LenProperties
<1> QED
  BY <1>1, <1>2, OneCell, LenProperties

(* A sentence and its length, in the place of its line.                      *)
LEMMA LineCells ==
    ASSUME JobType, NEW t \in 0 .. Repeat - 1
    PROVE  /\ Whole[LinePlace(t) + 1] = Number(TextLen)
           /\ SubSeq(Whole, LinePlace(t) + 1, LinePlace(t) + 1) = <<Number(TextLen)>>
           /\ SubSeq(Whole, LinePlace(t) + 2, LinePlace(t) + 1 + TextLen) = Sentence
<1>1. /\ Told \in Seq(Cell) /\ Outcome \in Seq(Cell) /\ Whole \in Seq(Cell)
      /\ Len(Told) = LinePlace(Repeat) /\ Len(Whole) >= Len(Told) /\ Len(Told) \in Nat
  BY ToldType, WholeType, BodyType
<1>2. /\ LinePlace(t) \in Nat /\ LinePlace(t) + 1 + TextLen <= Len(Told)
      /\ Told[LinePlace(t) + 1] = Number(TextLen)
      /\ SubSeq(Told, LinePlace(t) + 2, LinePlace(t) + 1 + TextLen) = Sentence
      /\ TextLen \in Nat \ {0}
  BY <1>1, ToldType, SizesAssumption
<1>3. Whole[LinePlace(t) + 1] = Told[LinePlace(t) + 1]
  <2>1. \A p \in 1 .. Len(Told) + Len(Outcome) :
           Whole[p] = IF p <= Len(Told) THEN Told[p] ELSE Outcome[p - Len(Told)]
    BY <1>1, ConcatProperties DEF Whole
  <2>2. LinePlace(t) + 1 \in 1 .. Len(Told) /\ Len(Outcome) \in Nat
    BY <1>1, <1>2, LenProperties
  <2>3. LinePlace(t) + 1 \in 1 .. Len(Told) + Len(Outcome) /\ LinePlace(t) + 1 <= Len(Told)
    BY <1>1, <2>2
  <2> QED
    BY <2>1, <2>3
<1>4. SubSeq(Whole, LinePlace(t) + 1, LinePlace(t) + 1) = <<Number(TextLen)>>
  <2>1. LinePlace(t) + 1 \in 1 .. Len(Whole)
    BY <1>1, <1>2, LenProperties
  <2> QED
    BY <1>1, <1>2, <1>3, <2>1, OneCell
<1>5. SubSeq(Whole, LinePlace(t) + 2, LinePlace(t) + 1 + TextLen)
      = SubSeq(Told, LinePlace(t) + 2, LinePlace(t) + 1 + TextLen)
  <2> DEFINE r == LinePlace(t) + 1
             w == LinePlace(t) + 1 + TextLen
  <2>1. r \in Nat /\ w \in r .. Len(Told) /\ r + 1 = LinePlace(t) + 2
    <3>1. /\ LinePlace(t) \in Nat /\ LinePlace(t) + 1 + TextLen <= Len(Told)
          /\ TextLen \in Nat /\ Len(Told) \in Nat
      BY <1>1, <1>2
    <3> QED
      BY <3>1
  <2> HIDE DEF r, w
  <2>2. SubSeq(Whole, r + 1, w) = SubSeq(Told, r + 1, w)
    BY <1>1, <2>1, PartOfFirst DEF Whole
  <2> QED
    BY <2>1, <2>2 DEF r, w
<1> QED
  BY <1>2, <1>3, <1>4, <1>5

(* The number of cells of the body, and the body, behind the sentences.      *)
LEMMA OutcomeCells ==
    ASSUME JobType, ending # "polled"
    PROVE  /\ Whole[LinePlace(Repeat) + 1] = Number(Total)
           /\ SubSeq(Whole, LinePlace(Repeat) + 1, LinePlace(Repeat) + 1) = <<Number(Total)>>
           /\ \A a \in 0 .. Total : \A b \in a .. Total :
                 SubSeq(Whole, LinePlace(Repeat) + 1 + a + 1, LinePlace(Repeat) + 1 + b)
                 = SubSeq(Body, a + 1, b)
<1> DEFINE head == LinePlace(Repeat)
<1>1. /\ Told \in Seq(Cell) /\ Outcome \in Seq(Cell) /\ Whole \in Seq(Cell)
      /\ Body \in Seq(Cell) /\ Total \in Nat /\ Len(Body) = Total
      /\ Len(Told) = head /\ head \in Nat /\ Len(Outcome) = 1 + Total
      /\ Outcome[1] = Number(Total) /\ Len(Whole) = head + (1 + Total)
      /\ Outcome = <<Number(Total)>> \o Body
      /\ <<Number(Total)>> \in Seq(Cell) /\ Len(<<Number(Total)>>) = 1
  BY ToldType, WholeType, BodyType, CellTypes DEF Outcome
<1> HIDE DEF head
<1>2. Whole[head + 1] = Number(Total)
  <2>1. \A p \in 1 .. Len(Told) + Len(Outcome) :
           Whole[p] = IF p <= Len(Told) THEN Told[p] ELSE Outcome[p - Len(Told)]
    BY <1>1, ConcatProperties DEF Whole
  <2> QED
    BY <1>1, <2>1
<1>3. SubSeq(Whole, head + 1, head + 1) = <<Number(Total)>>
  <2>1. head + 1 \in 1 .. Len(Whole) /\ Whole \in Seq(Cell)
    BY <1>1
  <2> QED
    BY <1>2, <2>1, OneCell
<1>4. ASSUME NEW a \in 0 .. Total, NEW b \in a .. Total
      PROVE  SubSeq(Whole, head + 1 + a + 1, head + 1 + b) = SubSeq(Body, a + 1, b)
  <2>1. SubSeq(Outcome, 1 + a + 1, 1 + b) = SubSeq(Body, a + 1, b)
    BY <1>1, PartOfMiddle
  <2> DEFINE c == 1 + a
             d == 1 + b
  <2>2. c \in Nat /\ d \in c .. Len(Outcome)
        /\ head + c + 1 = head + 1 + a + 1 /\ head + d = head + 1 + b
    BY <1>1
  <2> HIDE DEF c, d
  <2>3. SubSeq(Whole, head + c + 1, head + d) = SubSeq(Outcome, c + 1, d)
    BY <1>1, <2>2, PartOfMiddle DEF Whole
  <2>4. SubSeq(Outcome, c + 1, d) = SubSeq(Body, a + 1, b)
    BY <2>1 DEF c, d
  <2> QED
    BY <2>2, <2>3, <2>4
<1> QED
  BY <1>2, <1>3, <1>4 DEF head

(* What the client prints: the sentences, the blocks, and the rest.          *)
LEMMA Parts ==
    ASSUME JobType
    PROVE  /\ Calls \in Nat
           /\ \A j \in 1 .. Repeat : j <= Calls /\ Part(j) = Sentence
           /\ Total = 0 => Calls = Repeat
           /\ \A t \in 0 .. (Total \div Block) - 1 :
                 /\ Repeat + t + 1 <= Calls
                 /\ Part(Repeat + t + 1) = SubSeq(Body, BlockPlace(t) + 1, BlockPlace(t) + Block)
           /\ Total % Block = 0 => Calls = Repeat + (Total \div Block)
           /\ Total % Block # 0 =>
                 /\ Calls = Repeat + (Total \div Block) + 1
                 /\ Part(Calls) = SubSeq(Body, BlockPlace(Total \div Block) + 1, Total)
<1> DEFINE q == Total \div Block
           r == Total % Block
<1>1. /\ Block \in Nat \ {0} /\ Repeat \in Nat \ {0} /\ Total \in Nat /\ Len(Body) = Total
  BY SizesAssumption, RepeatType, BodyType
<1>2. q \in Nat /\ r \in 0 .. Block - 1 /\ Total = BlockPlace(q) + r
  BY <1>1, Division DEF BlockPlace
<1>3. /\ r = 0 => Calls = Repeat + q
      /\ r # 0 => Calls = Repeat + (q + 1)
  BY <1>1, RoundedUp DEF Calls
<1>4. Total = 0 => q = 0 /\ r = 0
  BY <1>1, NoBlock
<1>5. \A j \in Nat : BlockPlace(j) \in Nat /\ BlockPlace(j + 1) = BlockPlace(j) + Block
  BY <1>1, ProductGrows, ProductStep DEF BlockPlace
<1>6. \A j, l \in Nat : j <= l => BlockPlace(j) <= BlockPlace(l)
  BY <1>1, ProductGrows DEF BlockPlace
<1> HIDE DEF q, r
<1>7. Calls \in Nat /\ Repeat + q <= Calls
  BY <1>1, <1>2, <1>3
<1>8. ASSUME NEW j \in 1 .. Repeat
      PROVE  j <= Calls /\ Part(j) = Sentence
  <2>1. j <= Repeat
    BY <1>1
  <2> QED
    BY <2>1, <1>1, <1>2, <1>7 DEF Part, PartOf
<1>9. ASSUME NEW t \in Nat
      PROVE  Part(Repeat + t + 1)
             = SubSeq(Body, BlockPlace(t) + 1,
                      IF BlockPlace(t) + Block <= Total THEN BlockPlace(t) + Block ELSE Total)
  <2>1. (Repeat + t + 1) - Repeat = t + 1 /\ ~(Repeat + t + 1 <= Repeat)
    BY <1>1
  <2>2. ((Repeat + t + 1) - Repeat) * Block = BlockPlace(t) + Block
    <3>1. (t + 1) * Block = BlockPlace(t) + Block
      BY ProductStep, SizesAssumption DEF BlockPlace
    <3> QED
      BY <2>1, <3>1
  <2> DEFINE last == ((Repeat + t + 1) - Repeat) * Block
  <2>3. Part(Repeat + t + 1)
        = SubSeq(Body, last - Block + 1, IF last <= Len(Body) THEN last ELSE Len(Body))
    BY <2>1 DEF Part, PartOf
  <2>4. last = BlockPlace(t) + Block /\ last - Block + 1 = BlockPlace(t) + 1
    <3> DEFINE place == BlockPlace(t)
    <3>1. last = place + Block /\ place \in Nat /\ Block \in Nat
      BY <2>2, <1>1, <1>5
    <3> HIDE DEF last, place
    <3>2. last - Block + 1 = place + 1
      BY <3>1
    <3> QED
      BY <3>1, <3>2 DEF place
  <2> HIDE DEF last
  <2> QED
    BY <2>3, <2>4, <1>1
<1>10. ASSUME NEW t \in 0 .. q - 1
       PROVE  /\ Repeat + t + 1 <= Calls
              /\ Part(Repeat + t + 1) = SubSeq(Body, BlockPlace(t) + 1, BlockPlace(t) + Block)
  <2>1. t \in Nat /\ t + 1 \in Nat /\ t + 1 <= q
    BY <1>2
  <2>2. BlockPlace(t) + Block <= Total
    <3>1. BlockPlace(t + 1) <= BlockPlace(q) /\ BlockPlace(t + 1) = BlockPlace(t) + Block
          /\ BlockPlace(q) \in Nat /\ BlockPlace(t) \in Nat
      BY <2>1, <1>2, <1>5, <1>6
    <3> QED
      BY <3>1, <1>1, <1>2
  <2> QED
    BY <2>1, <2>2, <1>1, <1>2, <1>7, <1>9
<1>11. ASSUME r # 0
       PROVE  Part(Calls) = SubSeq(Body, BlockPlace(q) + 1, Total)
  <2>1. BlockPlace(q) \in Nat
    BY <1>2, <1>5
  <2>2. ~(BlockPlace(q) + Block <= Total)
    BY <2>1, <1>1, <1>2
  <2>3. Calls = Repeat + q + 1
    BY <1>1, <1>2, <1>3, <1>11
  <2> QED
    BY <2>2, <2>3, <1>2, <1>9
<1> QED
  BY <1>1, <1>2, <1>3, <1>4, <1>7, <1>8, <1>10, <1>11 DEF q, r

-----------------------------------------------------------------------------
(* What a step leaves alone.                                                 *)

(* While the job ends as it did, what is to be told of it stays the same.    *)
LEMMA JobKept ==
    ASSUME UNCHANGED job
    PROVE  /\ Repeat' = Repeat /\ JobsFile' = JobsFile /\ FinalFile' = FinalFile
           /\ Body' = Body /\ Total' = Total /\ Whole' = Whole /\ Calls' = Calls
           /\ LinePlace(Repeat)' = LinePlace(Repeat)
           /\ \A j : Part(j)' = Part(j)
           /\ ending' = ending /\ length' = length /\ leftover' = leftover
<1>1. ending' = ending /\ length' = length /\ leftover' = leftover
  BY DEF job
<1>2. Repeat' = Repeat /\ JobsFile' = JobsFile
  <2>1. Output' = Output
    BY DEF job, Output
  <2> QED
    BY <1>1, <2>1 DEF Repeat, JobsFile
<1>3. FinalFile' = FinalFile
  BY <1>2 DEF FinalFile
<1>4. Body' = Body /\ Total' = Total
  BY <1>1, <1>3 DEF Body, Total
<1>5. Told' = Told /\ Outcome' = Outcome
  BY <1>1, <1>2, <1>4 DEF Told, Outcome
<1>6. ASSUME NEW j
      PROVE  Part(j)' = Part(j)
  BY <1>2, <1>4 DEF Part, PartOf
<1> QED
  BY <1>1, <1>2, <1>3, <1>4, <1>5, <1>6 DEF Whole, Calls, LinePlace

(* A step that prints nothing keeps what is printed right, and so does one   *)
(* that prints the next part.                                                *)
LEMMA RightKept ==
    ASSUME PrintedRight, UNCHANGED job, printed' = printed
    PROVE  PrintedRight'
<1>1. \A j : UpToNul(Part(j))' = UpToNul(Part(j))
  BY JobKept
<1> QED
  BY <1>1, JobKept DEF PrintedRight

LEMMA PrintKeeps ==
    ASSUME PrintedRight, UNCHANGED job, printed \in Seq(Seq(Cell)),
           NEW part \in Seq(Cell), NEW j \in Nat, j = Len(printed), j + 1 <= Calls,
           Part(j + 1) = part, printed' = Append(printed, UpToNul(part))
    PROVE  PrintedRight' /\ Len(printed') = j + 1
<1>1. UpToNul(part) \in Seq(Cell)
  BY UpToNulType
<1>2. /\ Len(printed') = j + 1 /\ DOMAIN printed' = 1 .. j + 1 /\ DOMAIN printed = 1 .. j
      /\ \A p \in 1 .. j : printed'[p] = printed[p]
      /\ printed'[j + 1] = UpToNul(part)
  <2> DEFINE cells == Seq(Cell)
             text  == UpToNul(part)
  <2>1. printed \in Seq(cells) /\ text \in cells /\ printed' = Append(printed, text)
    BY <1>1
  <2> HIDE DEF cells, text
  <2>2. /\ Len(Append(printed, text)) = Len(printed) + 1
        /\ DOMAIN Append(printed, text) = 1 .. Len(printed) + 1
        /\ DOMAIN printed = 1 .. Len(printed)
        /\ \A p \in 1 .. Len(printed) : Append(printed, text)[p] = printed[p]
        /\ Append(printed, text)[Len(printed) + 1] = text
    BY <2>1
  <2> QED
    BY <2>1, <2>2 DEF text
<1>3. Calls' = Calls /\ \A p : Part(p)' = Part(p) /\ UpToNul(Part(p))' = UpToNul(Part(p))
  BY JobKept
<1>4. \A p \in 1 .. j + 1 : p <= Calls /\ printed'[p] = UpToNul(Part(p))
  <2> TAKE p \in 1 .. j + 1
  <2>1. CASE p \in 1 .. j
    BY <2>1, <1>2 DEF PrintedRight
  <2>2. CASE p = j + 1
    BY <2>2, <1>2
  <2> QED
    BY <2>1, <2>2
<1> QED
  BY <1>2, <1>3, <1>4 DEF PrintedRight

(* Who does not touch the worker's locals keeps what they say.               *)
LEMMA FilesKept ==
    ASSUME Files, UNCHANGED <<job, teller, locals>>
    PROVE  Files'
<1>1. AtBlock' = AtBlock /\ Loops' = Loops
  BY DEF AtBlock, BlockPlace, Loops, locals
<1> QED
  BY <1>1, JobKept DEF Files, locals

(* Who changes none of the roles keeps them.                                 *)
LEMMA RolesKept ==
    ASSUME Roles, UNCHANGED <<job, controller, told, teller, closed, overtaken>>,
           short' => client' = "failed"
    PROVE  Roles'
BY JobKept DEF Roles

(* A write of cells leaves cells, or brings the server down.                 *)
LEMMA SendTypes ==
    ASSUME TypeOK, NEW cells \in Seq(Cell), Send(cells)
    PROVE  stream' \in Seq(Cell) /\ server' \in {"up", "down", "ended"} /\ closed' = closed
<1>1. stream \o cells \in Seq(Cell) /\ stream \in Seq(Cell)
  BY ConcatProperties DEF TypeOK
<1>2. stream' \in {stream, stream \o cells} /\ server' \in {"up", "down", "ended"}
  BY DEF Send
<1> QED
  BY <1>1, <1>2 DEF Send

(* TypeOK says what a job is.                                                *)
LEMMA JobTyped ==
    ASSUME TypeOK
    PROVE  JobType
BY SizesAssumption DEF TypeOK, JobType

-----------------------------------------------------------------------------
(* The controller keeps the types.                                           *)
LEMMA ControllerKeeps ==
    ASSUME TypeInv, Controller
    PROVE  TypeInv'
<1> USE DEF TypeInv
<1>1. UNCHANGED <<job, teller, locals, reader, overtaken, short>>
  BY DEF Controller, WriteRepeat, WriteSize, WriteText, WriteZero, CloseAnswer
<1>2. Files' /\ Repeat' = Repeat /\ ending' = ending
  BY <1>1, FilesKept, JobKept
<1>3. Reads'
  BY <1>1 DEF Reads, reader
<1>4. /\ <<Number(Repeat)>> \in Seq(Cell) /\ <<Number(TextLen)>> \in Seq(Cell)
      /\ <<Number(0)>> \in Seq(Cell) /\ Sentence \in Seq(Cell)
  BY CellTypes, RepeatType, TextTypes, SizesAssumption
<1>5. /\ controller' \in {"repeat", "size", "text", "zero", "close", "done"}
      /\ told' \in 0 .. Repeat /\ stream' \in Seq(Cell) /\ server' \in {"up", "down", "ended"}
      /\ closed' \in BOOLEAN /\ Roles'
  <2>1. CASE WriteRepeat
    <3>1. stream' \in Seq(Cell) /\ server' \in {"up", "down", "ended"} /\ closed' = closed
      BY <2>1, <1>4, SendTypes DEF WriteRepeat
    <3> QED
      BY <2>1, <3>1, <1>1, <1>2, RepeatType DEF WriteRepeat, TypeOK, Roles, reader
  <2>2. CASE WriteSize
    <3>1. stream' \in Seq(Cell) /\ server' \in {"up", "down", "ended"} /\ closed' = closed
      BY <2>2, <1>4, SendTypes DEF WriteSize
    <3> QED
      BY <2>2, <3>1, <1>1, <1>2, RepeatType DEF WriteSize, TypeOK, Roles, reader
  <2>3. CASE WriteText
    BY <2>3, <1>1, <1>2, <1>4, SendTypes, RepeatType
       DEF WriteText, AfterSentences, TypeOK, Roles, Endings, reader
  <2>4. CASE WriteZero
    <3>1. stream' \in Seq(Cell) /\ server' \in {"up", "down", "ended"} /\ closed' = closed
      BY <2>4, <1>4, SendTypes DEF WriteZero
    <3> QED
      BY <2>4, <3>1, <1>1, <1>2, RepeatType DEF WriteZero, TypeOK, Roles, reader
  <2>5. CASE CloseAnswer
    BY <2>5, <1>1, <1>2, <1>4 DEF CloseAnswer, CloseSocket, TypeOK, Roles, reader
  <2> QED
    BY <2>1, <2>2, <2>3, <2>4, <2>5 DEF Controller
<1>6. TypeOK'
  BY <1>1, <1>2, <1>5 DEF TypeOK, job, locals, reader, Loops
<1> QED
  BY <1>2, <1>3, <1>5, <1>6

(* The client keeps them, whatever it is sent.                               *)
LEMMA ClientKeeps ==
    ASSUME TypeInv, Client
    PROVE  TypeInv'
<1> USE DEF TypeInv
<1>1. UNCHANGED <<job, controller, told, teller, locals, closed, server, overtaken>>
  BY DEF Client, ReadSentences, ReadSize, ReadSentence, ReadCharacters, ReadBlock, ReadRest,
         ReadNumber, ReadText, FailAtEnd, FailOnGarbage, FailOnMissing, FailOnShortRead,
         server_side
<1>2. Files' /\ Repeat' = Repeat /\ ending' = ending
  BY <1>1, FilesKept, JobKept
<1>3. ASSUME ReadNumber
      PROVE  Head(stream).val \in Nat /\ stream' \in Seq(Cell)
  <2>1. Head(stream) \in Cell /\ Tail(stream) \in Seq(Cell)
    BY <1>3, HeadTailProperties DEF TypeOK, ReadNumber
  <2> QED
    BY <2>1, <1>3 DEF ReadNumber, Cell
<1>4. ASSUME NEW size \in Nat, ReadText(size)
      PROVE  printed' \in Seq(Seq(Cell)) /\ stream' \in Seq(Cell)
  <2>1. /\ stream \in Seq(Cell) /\ Len(stream) \in Nat /\ size <= Len(stream)
        /\ printed \in Seq(Seq(Cell))
    BY <1>4, LenProperties DEF TypeOK, ReadText
  <2>2. SubSeq(stream, 0 + 1, size) \in Seq(Cell)
    BY <2>1, PartCells
  <2>3. SubSeq(stream, size + 1, Len(stream)) \in Seq(Cell)
    BY <2>1, PartCells
  <2>4. UpToNul(SubSeq(stream, 1, size)) \in Seq(Cell)
    <3>1. SubSeq(stream, 1, size) \in Seq(Cell)
      <4>1. 0 + 1 = 1
        OBVIOUS
      <4> QED
        BY <4>1, <2>2
    <3> QED
      BY <3>1, UpToNulType
  <2>5. printed' \in Seq(Seq(Cell))
    <3> DEFINE cells == Seq(Cell)
               text  == UpToNul(SubSeq(stream, 1, size))
    <3>1. printed \in Seq(cells) /\ text \in cells /\ printed' = Append(printed, text)
      BY <1>4, <2>1, <2>4 DEF ReadText
    <3> HIDE DEF cells, text
    <3>2. printed' \in Seq(cells)
      BY <3>1, AppendProperties
    <3> QED
      BY <3>2 DEF cells
  <2> QED
    BY <1>4, <2>3, <2>5 DEF ReadText
<1>5. \A m \in Nat : m \div Block \in Nat /\ m % Block \in Nat
  BY Division, SizesAssumption
<1>6. /\ stream' \in Seq(Cell) /\ printed' \in Seq(Seq(Cell))
      /\ client' \in {"sentences", "n", "str", "characters", "block", "rest", "done", "failed"}
      /\ sentences' \in Nat /\ n' \in Nat /\ characters' \in Nat
      /\ k' \in 0 .. characters' \div Block
      /\ short' \in BOOLEAN /\ Reads' /\ (short' => client' = "failed")
  <2>1. CASE ReadSentences
    BY <2>1, <1>3, <1>5 DEF ReadSentences, ReadNumber, AfterReadingSentences, TypeOK, Roles, Reads
  <2>2. CASE ReadSize
    BY <2>2, <1>3, <1>5 DEF ReadSize, ReadNumber, TypeOK, Roles, Reads
  <2>3. CASE ReadSentence
    <3>1. ReadText(n) /\ n \in Nat
      BY <2>3 DEF ReadSentence, TypeOK
    <3>2. stream' \in Seq(Cell) /\ printed' \in Seq(Seq(Cell)) /\ short' = short
      BY <3>1, <1>4 DEF ReadText
    <3>3. /\ sentences \in Nat /\ sentences > 0 /\ k = 0 /\ sentences' = sentences - 1
          /\ characters' = characters /\ k' = k /\ n' = n /\ characters \in Nat
      BY <2>3 DEF ReadSentence, Reads, TypeOK
    <3>4. client' \in {"n", "done", "characters"} /\ (client' = "n" => sentences' > 0)
      BY <2>3 DEF ReadSentence, AfterReadingSentences
    <3> QED
      BY <2>3, <3>1, <3>2, <3>3, <3>4, <1>5 DEF ReadSentence, TypeOK, Roles, Reads
  <2>4. CASE ReadCharacters
    <3>1. /\ characters' \in Nat /\ stream' \in Seq(Cell) /\ k = 0 /\ k' = 0 /\ printed' = printed
          /\ short' = short
      BY <2>4, <1>3 DEF ReadCharacters, ReadNumber, Reads
    <3>2. characters' >= Block => characters' \div Block > 0
      BY <3>1, NoBlock, SizesAssumption
    <3> QED
      BY <2>4, <3>1, <3>2, <1>5 DEF ReadCharacters, TypeOK, Roles, Reads
  <2>5. CASE ReadBlock
    <3>1. ReadText(Block) /\ Block \in Nat
      BY <2>5, SizesAssumption DEF ReadBlock
    <3>2. stream' \in Seq(Cell) /\ printed' \in Seq(Seq(Cell)) /\ short' = short
      BY <3>1, <1>4 DEF ReadText
    <3>3. /\ k \in Nat /\ characters \in Nat /\ k < characters \div Block /\ k' = k + 1
          /\ characters' = characters /\ sentences' = sentences /\ n' = n
      BY <2>5, <1>5 DEF ReadBlock, Reads, TypeOK
    <3>4. /\ client' \in {"block", "rest", "done"}
          /\ client' = "block" => k' < characters' \div Block
      BY <2>5, <3>3 DEF ReadBlock
    <3>5. characters \div Block \in Nat
      BY <3>3, <1>5
    <3>6. k' \in 0 .. characters' \div Block
      BY <3>3, <3>5
    <3> QED
      BY <2>5, <3>2, <3>3, <3>4, <3>6 DEF ReadBlock, TypeOK, Roles, Reads
  <2>6. CASE ReadRest
    <3>1. ReadText(characters % Block) /\ characters % Block \in Nat
      BY <2>6, <1>5 DEF ReadRest, TypeOK
    <3>2. stream' \in Seq(Cell) /\ printed' \in Seq(Seq(Cell)) /\ short' = short
      BY <3>1, <1>4 DEF ReadText
    <3>3. /\ client' = "done" /\ k' = k /\ characters' = characters
          /\ sentences' = sentences /\ n' = n
      BY <2>6 DEF ReadRest
    <3> QED
      BY <2>6, <3>2, <3>3, <1>5 DEF ReadRest, TypeOK, Roles, Reads
  <2>7. CASE FailAtEnd \/ FailOnGarbage \/ FailOnMissing \/ FailOnShortRead
    BY <2>7 DEF FailAtEnd, FailOnGarbage, FailOnMissing, FailOnShortRead, Reading, TypeOK,
                Roles, Reads
  <2> QED
    BY <2>1, <2>2, <2>3, <2>4, <2>5, <2>6, <2>7 DEF Client
<1>7. Roles'
  BY <1>1, <1>6, RolesKept
<1>8. TypeOK'
  BY <1>1, <1>2, <1>6 DEF TypeOK, job, locals, Loops
<1> QED
  BY <1>2, <1>6, <1>7, <1>8

-----------------------------------------------------------------------------
(* The worker, while it sends the file.                                      *)

LEMMA BlockPlaces ==
    /\ BlockPlace(0) = 0 /\ BlockPlace(1) = Block
    /\ \A j \in Nat : /\ BlockPlace(j) \in Nat
                      /\ BlockPlace(j + 1) = BlockPlace(j) + Block
    /\ \A j, l \in Nat : j <= l => BlockPlace(j) <= BlockPlace(l)
BY SizesAssumption, ProductGrows, ProductStep DEF BlockPlace

(* The blocks and the rest of an output of m characters.                     *)
LEMMA Blocks ==
    ASSUME NEW m \in Nat
    PROVE  /\ m \div Block \in Nat /\ m % Block \in 0 .. Block - 1
           /\ m = BlockPlace(m \div Block) + (m % Block)
BY Division, SizesAssumption DEF BlockPlace

(* What the worker knows while it sends.                                     *)
LEMMA Sending ==
    ASSUME TypeInv, teller \in {"block", "rest"}
    PROVE  /\ JobType /\ ending = "output"
           /\ file \in Seq(Cell) /\ Len(file) \in Nat /\ Len(file) <= length + leftover + EndLen
           /\ count = Total /\ Total = StartLen + Len(file) /\ Body = Start \o file
           /\ Loops \in Nat /\ Remaining \in 0 .. Block - 1
           /\ Total = BlockPlace(Loops) + Remaining
           /\ i \in Nat /\ BlockPlace(i) \in Nat
           /\ offset = AtBlock
           /\ i > 0 => BlockPlace(i) >= StartLen
           /\ teller = "block" => i + 1 <= Loops /\ BlockPlace(i) + Block <= Total
           /\ teller = "rest" => i = Loops
<1>1. /\ JobType /\ ending = "output" /\ file = FinalFile /\ count = Total /\ offset = AtBlock
      /\ i \in Nat /\ (teller = "block" => i < Loops) /\ (teller = "rest" => i = Loops)
  BY JobTyped DEF TypeInv, TypeOK, Roles, Files, Endings
<1>2. /\ file \in Seq(Cell) /\ Len(file) \in Nat /\ Len(file) <= length + leftover + EndLen
      /\ Total = StartLen + Len(file) /\ Body = Start \o file /\ Total \in Nat
  <2>1. JobsFile \in Seq(Cell) /\ Len(JobsFile) <= length + leftover /\ Len(JobsFile) \in Nat
        /\ Len(FinalFile) = Len(JobsFile) + EndLen /\ FinalFile \in Seq(Cell)
    BY <1>1, FileTypes, LenProperties
  <2>2. length \in Nat /\ leftover \in Nat /\ EndLen \in Nat
    BY <1>1, SizesAssumption DEF JobType
  <2> QED
    BY <1>1, <2>1, <2>2, BodyType
<1>3. /\ Loops \in Nat /\ Remaining \in 0 .. Block - 1
      /\ Total = BlockPlace(Loops) + Remaining
  BY <1>1, <1>2, Blocks DEF Loops, Remaining
<1>4. BlockPlace(i) \in Nat /\ BlockPlace(i + 1) = BlockPlace(i) + Block
  BY <1>1, BlockPlaces
<1>5. i > 0 => BlockPlace(i) >= StartLen
  <2>1. i > 0 => BlockPlace(1) <= BlockPlace(i)
    BY <1>1, BlockPlaces
  <2>2. StartLen <= Block /\ StartLen \in Nat /\ Block \in Nat /\ BlockPlace(1) = Block
    BY SizesAssumption, BlockPlaces
  <2> QED
    BY <1>4, <2>1, <2>2
<1>6. ASSUME teller = "block"
      PROVE  i + 1 <= Loops /\ BlockPlace(i) + Block <= Total
  <2>1. i + 1 <= Loops /\ i + 1 \in Nat
    BY <1>1, <1>3, <1>6
  <2>2. BlockPlace(i + 1) <= BlockPlace(Loops) /\ BlockPlace(Loops) \in Nat
    BY <1>3, <2>1, BlockPlaces
  <2> QED
    BY <1>3, <1>4, <2>1, <2>2, SizesAssumption
<1> QED
  BY <1>1, <1>2, <1>3, <1>4, <1>5, <1>6

(* Where a block begins: the first one with the start marker.                *)
SendFrom == IF i = 0 THEN Started ELSE buffer
SendAt   == IF i = 0 THEN StartLen ELSE 0

(* What is in the buffer: the next cells of the body, with the start marker  *)
(* in front of the file.                                                     *)
LEMMA BufferCells ==
    ASSUME TypeInv, teller \in {"block", "rest"},
           NEW size \in 0 .. Block, BlockPlace(i) + size <= Total, i = 0 => size >= StartLen
    PROVE  /\ Got(size - SendAt) = size - SendAt
           /\ offset + Got(size - SendAt) = BlockPlace(i) + size - StartLen
           /\ offset + Got(size - SendAt) \in 0 .. length + leftover + EndLen
           /\ Filled(SendFrom, SendAt, size - SendAt) \in [1 .. Block -> Cell]
           /\ Filled(SendFrom, SendAt, size - SendAt) \in Seq(Cell) /\ Len(Filled(SendFrom, SendAt, size - SendAt)) = Block
           /\ SubSeq(Filled(SendFrom, SendAt, size - SendAt), 1, size)
              = SubSeq(Body, BlockPlace(i) + 1, BlockPlace(i) + size)
<1> DEFINE place == BlockPlace(i)
           at == SendAt
           b  == SendFrom
<1>0. b = (IF i = 0 THEN Started ELSE buffer) /\ at = (IF i = 0 THEN StartLen ELSE 0)
  BY DEF SendAt, SendFrom
<1> HIDE DEF at, b
<1>1. /\ file \in Seq(Cell) /\ Len(file) \in Nat /\ Len(file) <= length + leftover + EndLen
      /\ Total = StartLen + Len(file) /\ Body = Start \o file /\ i \in Nat
      /\ place \in Nat /\ (i > 0 => place >= StartLen) /\ (i = 0 => place = 0)
      /\ offset = IF i = 0 THEN 0 ELSE place - StartLen
  BY Sending, BlockPlaces DEF AtBlock
<1>2. /\ Block \in Nat \ {0} /\ StartLen \in Nat /\ StartLen <= Block
      /\ length \in Nat /\ leftover \in Nat /\ EndLen \in Nat
  BY SizesAssumption, JobTyped DEF JobType, TypeInv
<1>3. Body \in Seq(Cell) /\ Len(Body) = Total
      /\ \A q \in 1 .. Total : Body[q] = IF q <= StartLen THEN Start[q] ELSE file[q - StartLen]
  BY <1>1, TextTypes, ConcatProperties
<1> HIDE DEF place
<1>4. /\ at \in 0 .. size /\ offset \in Nat /\ size - at <= Len(file) - offset
      /\ offset + (size - at) = place + size - StartLen
  <2>1. CASE i = 0
    BY <2>1, <1>0, <1>1, <1>2 DEF place
  <2>2. CASE i # 0
    BY <2>2, <1>0, <1>1, <1>2 DEF place
  <2> QED
    BY <2>1, <2>2
<1>5. Got(size - at) = size - at
  <2>1. ~(Len(file) - offset < size - at)
    BY <1>1, <1>4
  <2> QED
    BY <2>1 DEF Got
<1>6. place + size - StartLen \in 0 .. length + leftover + EndLen
  <2>1. offset + (size - at) >= 0 /\ offset + (size - at) <= Len(file)
    BY <1>1, <1>4
  <2>2. place + size - StartLen \in Int
    BY <1>1, <1>2
  <2> QED
    BY <1>1, <1>2, <1>4, <2>1, <2>2
<1>7. b \in [1 .. Block -> Cell] /\ (i = 0 => \A p \in 1 .. StartLen : b[p] = Start[p])
  <2>1. buffer \in [1 .. Block -> Cell] /\ \A p \in 1 .. StartLen : Start[p] \in Cell
    BY TextTypes, ElementOfSeq DEF TypeInv, TypeOK
  <2>2. Started \in [1 .. Block -> Cell] /\ \A p \in 1 .. StartLen : Started[p] = Start[p]
    BY <1>2, <2>1 DEF Started
  <2> QED
    BY <1>0, <2>1, <2>2
<1> DEFINE filled == Filled(b, at, size - at)
<1>8. \A p \in 1 .. Block : p > at /\ p <= size => /\ offset + p - at \in 1 .. Len(file)
                                                     /\ file[offset + p - at] \in Cell
  <2> TAKE p \in 1 .. Block
  <2>1. p > at /\ p <= size => offset + p - at \in 1 .. Len(file)
    BY <1>1, <1>4
  <2> QED
    BY <1>1, <2>1, ElementOfSeq
<1>9. filled = [p \in 1 .. Block |->
                  IF p > at /\ p <= size THEN file[offset + p - at] ELSE b[p]]
  <2>1. at + Got(size - at) = size
    BY <1>4, <1>5
  <2> QED
    BY <2>1 DEF Filled
<1>10. \A p \in 1 .. Block :
          /\ filled[p] \in Cell
          /\ p > at /\ p <= size => filled[p] = file[offset + p - at]
          /\ ~(p > at /\ p <= size) => filled[p] = b[p]
  <2> TAKE p \in 1 .. Block
  <2>1. filled[p] = IF p > at /\ p <= size THEN file[offset + p - at] ELSE b[p]
    BY <1>9
  <2> HIDE DEF filled
  <2> QED
    BY <2>1, <1>7, <1>8
<1>11. filled \in [1 .. Block -> Cell] /\ filled \in Seq(Cell) /\ Len(filled) = Block
  <2>1. filled \in [1 .. Block -> Cell]
    <3>1. DOMAIN filled = 1 .. Block
      BY <1>9
    <3>2. filled = [p \in 1 .. Block |-> filled[p]]
      BY <1>9
    <3> HIDE DEF filled
    <3> QED
      BY <1>10, <3>2
  <2> HIDE DEF filled
  <2> QED
    BY <2>1, <1>2
<1> HIDE DEF filled
<1>12. \A p \in 1 .. size : filled[p] = Body[place + p]
  <2> TAKE p \in 1 .. size
  <2>1. p \in 1 .. Block /\ place + p \in 1 .. Total
    BY <1>1, <1>2 DEF place
  <2>2. CASE p <= at
    <3>1. i = 0 /\ p <= StartLen /\ place = 0
      BY <2>2, <1>0, <1>1
    <3> QED
      <4>1. filled[p] = b[p] /\ b[p] = Start[p]
        <5>1. p \in 1 .. StartLen /\ ~(p > at)
          BY <3>1, <2>2, <1>0, <1>2, <1>4
        <5>2. b[p] = Start[p]
          BY <3>1, <5>1, <1>7
        <5>3. filled[p] = b[p]
          BY <2>1, <5>1, <1>10
        <5> QED
          BY <5>2, <5>3
      <4>2. place + p = p /\ Body[p] = Start[p]
        BY <3>1, <2>1, <1>1, <1>3
      <4> QED
        BY <4>1, <4>2
  <2>3. CASE p > at
    <3>1. filled[p] = file[offset + p - at]
      BY <2>1, <2>3, <1>10
    <3>2. offset + p - at = (place + p) - StartLen /\ ~(place + p <= StartLen)
      <4>1. CASE i = 0
        BY <4>1, <1>0, <1>1, <1>2, <2>1, <2>3
      <4>2. CASE i # 0
        BY <4>2, <1>0, <1>1, <1>2, <2>1, <2>3
      <4> QED
        BY <4>1, <4>2
    <3> QED
      BY <3>1, <3>2, <2>1, <1>3
  <2> QED
    BY <2>1, <2>2, <2>3, <1>4
<1>13. SubSeq(filled, 1, size) = SubSeq(Body, place + 1, place + size)
  <2>1. /\ SubSeq(filled, 0 + 1, size) \in Seq(Cell) /\ Len(SubSeq(filled, 0 + 1, size)) = size - 0
        /\ \A p \in 1 .. size - 0 : SubSeq(filled, 0 + 1, size)[p] = filled[0 + p]
    BY <1>2, <1>11, PartCells
  <2>2. /\ SubSeq(Body, place + 1, place + size) \in Seq(Cell)
        /\ Len(SubSeq(Body, place + 1, place + size)) = (place + size) - place
        /\ \A p \in 1 .. (place + size) - place :
              SubSeq(Body, place + 1, place + size)[p] = Body[place + p]
    <3>1. place \in Nat /\ place + size \in place .. Len(Body) /\ Body \in Seq(Cell)
      BY <1>1, <1>3 DEF place
    <3> QED
      BY <3>1, PartCells
  <2>3. size \in Nat /\ size - 0 = size /\ (place + size) - place = size /\ \A p \in 1 .. size : 0 + p = p
    BY <1>1
  <2>4. \A p \in 1 .. size : SubSeq(filled, 0 + 1, size)[p] = SubSeq(Body, place + 1, place + size)[p]
    BY <2>1, <2>2, <2>3, <1>12
  <2>5. /\ Len(SubSeq(filled, 0 + 1, size)) = size
        /\ Len(SubSeq(Body, place + 1, place + size)) = size
    BY <2>1, <2>2, <2>3
  <2>6. SubSeq(filled, 0 + 1, size) = SubSeq(Body, place + 1, place + size)
    <3> DEFINE u == SubSeq(filled, 0 + 1, size)
               v == SubSeq(Body, place + 1, place + size)
    <3>1. u \in Seq(Cell) /\ v \in Seq(Cell) /\ Len(u) = Len(v) /\ \A p \in 1 .. Len(u) : u[p] = v[p]
      BY <2>1, <2>2, <2>4, <2>5
    <3> HIDE DEF u, v
    <3>2. u = v
      BY <3>1, SeqEqual
    <3> QED
      BY <3>2 DEF u, v
  <2>7. 0 + 1 = 1
    OBVIOUS
  <2> QED
    BY <2>6, <2>7
<1> QED
  BY <1>4, <1>5, <1>6, <1>11, <1>13 DEF filled, place, b, at

(* A block that is sent, and the rest, are the next cells of the body.       *)
LEMMA BlockSent ==
    ASSUME TypeInv, SendBlock
    PROVE  /\ buffer' \in [1 .. Block -> Cell] /\ buffer' \in Seq(Cell)
           /\ buffer' = SubSeq(Body, BlockPlace(i) + 1, BlockPlace(i) + Block)
           /\ Send(buffer')
           /\ offset' = BlockPlace(i + 1) - StartLen
           /\ offset' \in 0 .. length + leftover + EndLen
           /\ i' = i + 1 /\ i' > 0 /\ i' \in 0 .. Loops
           /\ teller' = IF i' < Loops THEN "block" ELSE "rest"
           /\ teller' = "rest" => i' = Loops
<1> DEFINE filled == Filled(SendFrom, SendAt, Block - SendAt)
<1>1. teller = "block"
  BY DEF SendBlock
<1>2. /\ i \in Nat /\ Loops \in Nat /\ i + 1 <= Loops /\ BlockPlace(i) + Block <= Total
      /\ BlockPlace(i + 1) = BlockPlace(i) + Block
      /\ Block \in 0 .. Block /\ StartLen <= Block
  BY <1>1, Sending, BlockPlaces, SizesAssumption
<1>3. /\ buffer' = filled /\ offset' = offset + Got(Block - SendAt)
      /\ i' = i + 1 /\ teller' = (IF i' < Loops THEN "block" ELSE "rest") /\ Send(buffer')
  BY DEF SendBlock, SendFrom, SendAt
<1>4. /\ offset + Got(Block - SendAt) = BlockPlace(i) + Block - StartLen
      /\ offset + Got(Block - SendAt) \in 0 .. length + leftover + EndLen
      /\ filled \in [1 .. Block -> Cell] /\ filled \in Seq(Cell) /\ Len(filled) = Block
      /\ SubSeq(filled, 1, Block) = SubSeq(Body, BlockPlace(i) + 1, BlockPlace(i) + Block)
  <2>1. i = 0 => Block >= StartLen
    BY <1>2
  <2> QED
    BY <1>1, <1>2, <2>1, BufferCells
<1> HIDE DEF filled
<1>5. SubSeq(filled, 1, Block) = filled
  BY <1>4, SubSeqFull
<1>6. /\ i' > 0 /\ i' \in 0 .. Loops /\ (teller' = "rest" => i' = Loops)
      /\ BlockPlace(i) + Block - StartLen = BlockPlace(i + 1) - StartLen
  <2>1. i' > 0 /\ i' \in 0 .. Loops
    BY <1>2, <1>3
  <2>2. teller' = "rest" => i' = Loops
    <3>1. teller' = "rest" => ~(i' < Loops)
      BY <1>3
    <3> QED
      BY <1>2, <2>1, <3>1
  <2>3. BlockPlace(i) + Block - StartLen = BlockPlace(i + 1) - StartLen
    BY <1>2, BlockPlaces, SizesAssumption
  <2> QED
    BY <2>1, <2>2, <2>3
<1> QED
  BY <1>2, <1>3, <1>4, <1>5, <1>6

(* The last block is the rest of the body.                                   *)
LEMMA RestSent ==
    ASSUME TypeInv, SendRest
    PROVE  /\ buffer' \in [1 .. Block -> Cell]
           /\ SubSeq(buffer', 1, Remaining) \in Seq(Cell)
           /\ SubSeq(buffer', 1, Remaining) = SubSeq(Body, BlockPlace(i) + 1, Total)
           /\ Send(SubSeq(buffer', 1, Remaining))
           /\ offset' \in 0 .. length + leftover + EndLen
           /\ teller' = "close"
<1> DEFINE filled == Filled(SendFrom, SendAt, Remaining - SendAt)
<1>1. teller = "rest" /\ i = Loops
  BY Sending DEF SendRest
<1>2. /\ Remaining \in 0 .. Block - 1 /\ Total = BlockPlace(i) + Remaining /\ i \in Nat
      /\ BlockPlace(i) \in Nat /\ Total = StartLen + Len(file) /\ Len(file) \in Nat
      /\ Block \in Nat /\ StartLen \in Nat /\ Body \in Seq(Cell) /\ Len(Body) = Total
  <2>1. /\ Remaining \in 0 .. Block - 1 /\ Total = BlockPlace(Loops) + Remaining /\ i \in Nat
        /\ BlockPlace(i) \in Nat /\ Total = StartLen + Len(file) /\ Len(file) \in Nat
        /\ JobType
    BY <1>1, Sending
  <2>2. Body \in Seq(Cell) /\ Len(Body) = Total
    BY <2>1, BodyType
  <2> QED
    BY <1>1, <2>1, <2>2, SizesAssumption
<1>3. /\ buffer' = filled /\ offset' = offset + Got(Remaining - SendAt)
      /\ teller' = "close" /\ Send(SubSeq(buffer', 1, Remaining))
  BY <1>1 DEF SendRest, SendFrom, SendAt
<1>4. Remaining \in 0 .. Block /\ BlockPlace(i) + Remaining <= Total
      /\ (i = 0 => Remaining >= StartLen)
  <2>1. BlockPlace(0) = 0
    BY BlockPlaces
  <2>2. i = 0 => Remaining = StartLen + Len(file)
    BY <1>2, <2>1
  <2> QED
    BY <1>2, <2>2
<1>5. /\ offset + Got(Remaining - SendAt) \in 0 .. length + leftover + EndLen
      /\ filled \in [1 .. Block -> Cell]
      /\ SubSeq(filled, 1, Remaining) = SubSeq(Body, BlockPlace(i) + 1, BlockPlace(i) + Remaining)
  BY <1>1, <1>4, BufferCells
<1> HIDE DEF filled
<1>6. SubSeq(Body, BlockPlace(i) + 1, Total) \in Seq(Cell)
  BY <1>2, PartCells
<1> QED
  BY <1>2, <1>3, <1>5, <1>6

(* The ending of the job keeps the types.                                    *)
LEMMA TellerKeeps ==
    ASSUME TypeInv, Teller
    PROVE  TypeInv'
<1> USE DEF TypeInv
<1>1. UNCHANGED <<job, controller, told, reader, short>>
  BY DEF Teller, WriteNoticeSize, WriteNotice, CloseJob, ReturnFromMain, RunJob, AppendEnd,
         Measure, Tell, SendBlock, SendRest, Unlink, network
<1>2. /\ Repeat' = Repeat /\ ending' = ending /\ JobsFile' = JobsFile /\ FinalFile' = FinalFile
      /\ Total' = Total /\ length' = length /\ leftover' = leftover
  BY <1>1, JobKept
<1>3. Reads' /\ (short' => client' = "failed")
  BY <1>1 DEF Reads, Roles, reader
<1>4. /\ <<Number(TextLen)>> \in Seq(Cell) /\ <<Number(count)>> \in Seq(Cell)
      /\ Notice \in Seq(Cell) /\ Loops \in Nat
      /\ length \in Nat /\ leftover \in Nat /\ EndLen \in Nat /\ StartLen \in Nat
      /\ Block \in Nat \ {0}
  <2>1. TextLen \in Nat /\ EndLen \in Nat /\ StartLen \in Nat /\ Block \in Nat \ {0}
    BY SizesAssumption
  <2>2. count \in Nat /\ length \in Nat /\ leftover \in Nat
    BY JobTyped DEF TypeOK, JobType
  <2>3. Loops \in Nat
    BY <2>1, <2>2, Division DEF Loops
  <2> QED
    BY <2>1, <2>2, <2>3, CellTypes, TextTypes
<1>5. /\ teller' \in {"run", "append", "measure", "tell", "block", "rest", "size",
                      "notice", "close", "unlink", "return", "done"}
      /\ file' \in Seq(Cell) /\ offset' \in 0 .. length + leftover + EndLen
      /\ count' \in Nat /\ i' \in 0 .. Loops' /\ buffer' \in [1 .. Block -> Cell]
      /\ stream' \in Seq(Cell) /\ closed' \in BOOLEAN /\ server' \in {"up", "down", "ended"}
      /\ overtaken' \in BOOLEAN /\ Roles' /\ Files'
  <2>1. CASE WriteNoticeSize
    <3>1. stream' \in Seq(Cell) /\ server' \in {"up", "down", "ended"} /\ closed' = closed
      BY <2>1, <1>4, SendTypes DEF WriteNoticeSize
    <3>2. Loops' = Loops /\ Files'
      BY <2>1, <1>2 DEF WriteNoticeSize, Loops, Files, locals
    <3> QED
      BY <2>1, <3>1, <3>2, <1>1, <1>2, <1>3
         DEF WriteNoticeSize, TypeOK, Roles, locals, Endings, BeforeTelling
  <2>2. CASE WriteNotice
    <3>1. stream' \in Seq(Cell) /\ server' \in {"up", "down", "ended"} /\ closed' = closed
      BY <2>2, <1>4, SendTypes DEF WriteNotice
    <3>2. Loops' = Loops /\ Files'
      BY <2>2, <1>2 DEF WriteNotice, Loops, Files, locals
    <3> QED
      BY <2>2, <3>1, <3>2, <1>1, <1>2, <1>3
         DEF WriteNotice, TypeOK, Roles, locals, Endings, BeforeTelling
  <2>3. CASE CloseJob
    <3>1. Loops' = Loops /\ Files'
      BY <2>3, <1>2 DEF CloseJob, Loops, Files, locals
    <3> QED
      BY <2>3, <3>1, <1>1, <1>2, <1>3
         DEF CloseJob, CloseSocket, TypeOK, Roles, locals, Endings, BeforeTelling
  <2>4. CASE RunJob
    <3>1. file' = JobsFile /\ file' \in Seq(Cell)
      BY <2>4, JobTyped, FileTypes DEF RunJob, Files, JobsFile
    <3>2. Loops' = Loops /\ Files'
      BY <2>4, <3>1, <1>2 DEF RunJob, Loops, Files
    <3> QED
      BY <2>4, <3>1, <3>2, <1>1, <1>2, <1>3
         DEF RunJob, TypeOK, Roles, network, Endings, BeforeTelling
  <2>5. CASE AppendEnd
    <3>1. file' = FinalFile /\ file' \in Seq(Cell) /\ offset' = 0 /\ Len(file') \in Nat
      BY <2>5, JobTyped, FileTypes, LenProperties DEF AppendEnd, Files
    <3>2. Loops' = Loops /\ Files'
      BY <2>5, <3>1, <1>2 DEF AppendEnd, Loops, Files
    <3> QED
      BY <2>5, <3>1, <3>2, <1>1, <1>2, <1>3, <1>4
         DEF AppendEnd, TypeOK, Roles, network, Endings, BeforeTelling
  <2>6. CASE Measure
    <3>1. /\ file = FinalFile /\ count = offset /\ offset \in 0 .. Len(file) /\ i = 0
          /\ Len(file) \in Nat /\ file \in Seq(Cell) /\ ending = "output"
          /\ Total = StartLen + Len(file) /\ Len(file) <= length + leftover + EndLen
      <4>1. /\ file = FinalFile /\ count = offset /\ offset \in Nat /\ offset <= Len(file) /\ i = 0
            /\ file \in Seq(Cell) /\ ending = "output"
        BY <2>6 DEF Measure, Files, TypeOK, Roles, Endings
      <4>2. JobsFile \in Seq(Cell) /\ Len(JobsFile) <= length + leftover
            /\ Len(FinalFile) = Len(JobsFile) + EndLen
        BY JobTyped, FileTypes
      <4>3. Len(JobsFile) \in Nat /\ Len(file) \in Nat
        BY <4>1, <4>2, LenProperties
      <4> QED
        BY <4>1, <4>2, <4>3, <1>4, JobTyped, BodyType
    <3>2. /\ Got(Block) \in Nat /\ offset + Got(Block) <= Len(file)
          /\ Got(Block) = 0 => offset = Len(file)
      BY <3>1, <1>4 DEF Got
    <3>3. buffer' \in [1 .. Block -> Cell]
      <4>1. buffer' = [p \in 1 .. Block |->
                          IF p > 0 /\ p <= 0 + Got(Block) THEN file[offset + p - 0] ELSE buffer[p]]
        BY <2>6 DEF Measure, Filled
      <4>2. ASSUME NEW p \in 1 .. Block
            PROVE  buffer[p] \in Cell /\ (p <= 0 + Got(Block) => file[offset + p - 0] \in Cell)
        <5>1. buffer[p] \in Cell
          BY DEF TypeOK
        <5>2. p <= 0 + Got(Block) => offset + p - 0 \in 1 .. Len(file)
          BY <3>1, <3>2
        <5> QED
          BY <5>1, <5>2, <3>1, ElementOfSeq
      <4> QED
        BY <4>1, <4>2
    <3>4. /\ file' = file /\ i' = 0 /\ offset' = offset + Got(Block)
          /\ \/ Got(Block) > 0 /\ count' = count + Got(Block) /\ teller' = "measure"
             \/ Got(Block) = 0 /\ count' = count + StartLen /\ teller' = "tell"
          /\ UNCHANGED <<stream, closed, server, overtaken>>
      BY <2>6, <3>1, <3>2 DEF Measure, network
    <3>5. /\ offset' \in 0 .. length + leftover + EndLen /\ offset' <= Len(file) /\ count' \in Nat
          /\ teller' = "measure" => count' = offset'
          /\ teller' = "tell" => count' = Total
      BY <3>1, <3>2, <3>4, <1>4
    <3>6. Loops' \in Nat /\ i' \in 0 .. Loops'
      <4>1. count' \div Block \in Nat
        BY <3>5, <1>4, Division
      <4> QED
        BY <3>4, <4>1 DEF Loops
    <3>7. Files'
      BY <3>1, <3>4, <3>5, <1>2 DEF Files
    <3> QED
      BY <2>6, <3>3, <3>4, <3>5, <3>6, <3>7, <1>1, <1>2, <1>3, <3>1
         DEF Measure, TypeOK, Roles, Endings, BeforeTelling
  <2>7. CASE Tell
    <3>1. stream' \in Seq(Cell) /\ server' \in {"up", "down", "ended"} /\ closed' = closed
      BY <2>7, <1>4, SendTypes DEF Tell
    <3>2. /\ file = FinalFile /\ count = Total /\ i = 0 /\ ending = "output"
      BY <2>7 DEF Tell, Files, Roles, TypeOK, Endings
    <3>3. Loops' = Loops /\ i' = 0 /\ AtBlock' = 0 /\ offset' = 0
      BY <2>7, <3>2 DEF Tell, Loops, AtBlock
    <3>4. Files'
      BY <2>7, <3>2, <3>3, <1>2, <1>4 DEF Tell, Files
    <3> QED
      BY <2>7, <3>1, <3>2, <3>3, <3>4, <1>1, <1>2, <1>3, <1>4
         DEF Tell, TypeOK, Roles, Endings, BeforeTelling
  <2>8. CASE SendBlock
    <3>1. /\ teller = "block" /\ file' = file /\ count' = count /\ overtaken' = overtaken
          /\ ending = "output" /\ file = FinalFile /\ count = Total
      BY <2>8 DEF SendBlock, Files, Roles, TypeOK, Endings
    <3>2. stream' \in Seq(Cell) /\ server' \in {"up", "down", "ended"} /\ closed' = closed
      BY <2>8, BlockSent, SendTypes
    <3>3. /\ buffer' \in [1 .. Block -> Cell] /\ offset' \in 0 .. length + leftover + EndLen
          /\ i' = i + 1 /\ i' # 0 /\ i' \in 0 .. Loops /\ offset' = BlockPlace(i') - StartLen
          /\ teller' = (IF i' < Loops THEN "block" ELSE "rest")
          /\ teller' = "rest" => i' = Loops
      BY <2>8, BlockSent
    <3>4. Loops' = Loops /\ AtBlock' = BlockPlace(i') - StartLen
      BY <3>1, <3>3 DEF Loops, AtBlock, BlockPlace
    <3>5. Files'
      BY <3>1, <3>3, <3>4, <1>2 DEF Files
    <3> QED
      BY <3>1, <3>2, <3>3, <3>4, <3>5, <1>1, <1>2, <1>3
         DEF TypeOK, Roles, Endings, BeforeTelling
  <2>9. CASE SendRest
    <3>1. /\ teller = "rest" /\ file' = file /\ count' = count /\ overtaken' = overtaken
          /\ ending = "output" /\ i' = i
      BY <2>9 DEF SendRest, Roles, TypeOK, Endings
    <3>2. stream' \in Seq(Cell) /\ server' \in {"up", "down", "ended"} /\ closed' = closed
      BY <2>9, RestSent, SendTypes
    <3>3. /\ buffer' \in [1 .. Block -> Cell] /\ offset' \in 0 .. length + leftover + EndLen
          /\ teller' = "close"
      BY <2>9, RestSent
    <3>4. Loops' = Loops /\ Files'
      BY <3>1, <3>3 DEF Loops, Files
    <3> QED
      BY <3>1, <3>2, <3>3, <3>4, <1>1, <1>2, <1>3 DEF TypeOK, Roles, Endings, BeforeTelling
  <2>10. CASE Unlink
    <3>1. Loops' = Loops /\ Files' /\ file' \in Seq(Cell)
      BY <2>10, <1>2 DEF Unlink, Loops, Files
    <3> QED
      BY <2>10, <3>1, <1>1, <1>2, <1>3 DEF Unlink, TypeOK, Roles, network, Endings, BeforeTelling
  <2>11. CASE ReturnFromMain
    <3>1. Loops' = Loops /\ Files'
      BY <2>11, <1>2 DEF ReturnFromMain, Loops, Files, locals
    <3> QED
      BY <2>11, <3>1, <1>1, <1>2, <1>3
         DEF ReturnFromMain, TypeOK, Roles, locals, Endings, BeforeTelling
  <2> QED
    BY <2>1, <2>2, <2>3, <2>4, <2>5, <2>6, <2>7, <2>8, <2>9, <2>10, <2>11 DEF Teller
<1>6. TypeOK'
  BY <1>1, <1>2, <1>3, <1>5 DEF TypeOK, job, reader
<1> QED
  BY <1>3, <1>5, <1>6

-----------------------------------------------------------------------------
(* How far the answer is written, when its authors are in order.             *)

(* A line is as long as its sentence, and its length.                        *)
LEMMA LinePlaces ==
    /\ LinePlace(0) = 1
    /\ \A t \in Nat : /\ LinePlace(t) \in Nat /\ LinePlace(t) >= 1
                      /\ LinePlace(t + 1) = LinePlace(t) + 1 + TextLen
    /\ \A t, u \in Nat : t <= u => LinePlace(t) <= LinePlace(u)
<1>1. TextLen \in Nat /\ TextLen + 1 \in Nat
  BY SizesAssumption
<1>2. LinePlace(0) = 1
  BY <1>1 DEF LinePlace
<1>3. ASSUME NEW t \in Nat
      PROVE  /\ LinePlace(t) \in Nat /\ LinePlace(t) >= 1
             /\ LinePlace(t + 1) = LinePlace(t) + 1 + TextLen
  <2>1. t * (TextLen + 1) \in Nat /\ (t + 1) * (TextLen + 1) = t * (TextLen + 1) + (TextLen + 1)
    BY <1>1, ProductGrows, ProductStep
  <2> QED
    BY <1>1, <2>1 DEF LinePlace
<1>4. ASSUME NEW t \in Nat, NEW u \in Nat, t <= u
      PROVE  LinePlace(t) <= LinePlace(u)
  <2>1. /\ t * (TextLen + 1) \in Nat /\ u * (TextLen + 1) \in Nat
        /\ t * (TextLen + 1) <= u * (TextLen + 1)
    BY <1>1, <1>4, ProductGrows
  <2> QED
    BY <2>1 DEF LinePlace
<1> QED
  BY <1>2, <1>3, <1>4

(* While the teller has waited, one of the two writes at a time.             *)
LEMMA WrittenPlaces ==
    ASSUME TypeInv, TellerWaited
    PROVE  /\ \/ controller = "repeat" /\ Written = 0 /\ WrittenByTeller = 0
              \/ /\ controller = "size" /\ told \in 0 .. Repeat - 1
                 /\ Written = LinePlace(told) /\ WrittenByTeller = 0
              \/ /\ controller = "text" /\ told \in 0 .. Repeat - 1
                 /\ Written = LinePlace(told) + 1 /\ WrittenByTeller = 0
              \/ /\ controller \in {"zero", "close", "done"}
                 /\ Written = LinePlace(Repeat) + WrittenByTeller
                 /\ \/ WrittenByTeller = 0
                    \/ ending # "polled" /\ teller = "notice" /\ WrittenByTeller = 1
                    \/ /\ ending # "polled" /\ teller \in {"block", "rest"}
                       /\ WrittenByTeller = 1 + BlockPlace(i)
                    \/ /\ ending # "polled" /\ teller \in {"close", "unlink", "done"}
                       /\ WrittenByTeller = 1 + Total
           /\ controller = "zero" => WrittenByTeller = 0
           /\ closed => controller \notin {"repeat", "size", "text", "zero"}
           /\ closed \/ Answered => Written = Len(Whole)
<1>1. /\ ending \in Endings
      /\ controller \in {"repeat", "size", "text", "zero", "close", "done"}
      /\ told \in 0 .. Repeat
      /\ teller \in {"run", "append", "measure", "tell", "block", "rest", "size",
                     "notice", "close", "unlink", "return", "done"}
  BY DEF TypeInv, TypeOK
<1>2. /\ controller \in {"size", "text"} => told \in 0 .. Repeat - 1
      /\ ending \in {"polled", "refused"} => teller = "done"
      /\ controller = "zero" => ending = "refused"
      /\ controller = "close" => ending \in {"polled", "refused"}
      /\ closed => CASE ending = "output"    -> teller \in {"unlink", "done"}
                     [] ending = "removed"   -> teller = "done"
                     [] ending = "abandoned" -> FALSE
                     [] OTHER                -> controller = "done"
  BY <1>1, RepeatType DEF TypeInv, Roles
<1>3. controller \in {"repeat", "size", "text", "zero"} => WrittenByTeller = 0 /\ ~closed
  <2>1. CASE ending \in {"polled", "refused"}
    BY <1>1, <1>2, <2>1 DEF WrittenByTeller, NothingEnded, BeforeTelling
  <2>2. CASE ending \notin {"polled", "refused"}
    BY <1>1, <1>2, <2>2 DEF WrittenByTeller, TellerWaited, BeforeTelling, Endings
  <2> QED
    BY <2>1, <2>2
<1>4. /\ LinePlace(Repeat) \in Nat /\ (told \in 0 .. Repeat - 1 => LinePlace(told) \in Nat)
  BY LinePlaces, RepeatType
<1>5. /\ controller = "repeat" => Written = 0
      /\ controller = "size" => Written = LinePlace(told)
      /\ controller = "text" => Written = LinePlace(told) + 1
      /\ controller \in {"zero", "close", "done"} => Written = LinePlace(Repeat) + WrittenByTeller
  <2>1. controller = "repeat" => Written = 0
    BY <1>3 DEF Written, WrittenByController
  <2>2. controller = "size" => Written = LinePlace(told)
    BY <1>2, <1>3, <1>4 DEF Written, WrittenByController
  <2>3. controller = "text" => Written = LinePlace(told) + 1
    BY <1>2, <1>3, <1>4 DEF Written, WrittenByController
  <2>4. controller \in {"zero", "close", "done"} => Written = LinePlace(Repeat) + WrittenByTeller
    BY DEF Written, WrittenByController
  <2> QED
    BY <2>1, <2>2, <2>3, <2>4
<1>6. controller \in {"close", "done"} =>
         \/ WrittenByTeller = 0
         \/ ending # "polled" /\ teller = "notice" /\ WrittenByTeller = 1
         \/ /\ ending # "polled" /\ teller \in {"block", "rest"}
            /\ WrittenByTeller = 1 + BlockPlace(i)
         \/ /\ ending # "polled" /\ teller \in {"close", "unlink", "done"}
            /\ WrittenByTeller = 1 + Total
  <2>1. teller \in BeforeTelling => WrittenByTeller = 0
    BY DEF WrittenByTeller, BeforeTelling
  <2>2. teller = "notice" => WrittenByTeller = 1
    BY DEF WrittenByTeller, BeforeTelling
  <2>3. teller \in {"block", "rest"} => WrittenByTeller = 1 + BlockPlace(i)
    BY DEF WrittenByTeller, BeforeTelling
  <2>4. teller \in {"close", "unlink", "done"} =>
           WrittenByTeller = IF NothingEnded THEN 0 ELSE 1 + Total
    BY DEF WrittenByTeller, BeforeTelling
  <2>5. ending = "polled" => NothingEnded
    BY DEF NothingEnded
  <2>6. teller \in BeforeTelling \/ teller = "notice" \/ teller \in {"block", "rest"}
        \/ teller \in {"close", "unlink", "done"}
    BY <1>1 DEF BeforeTelling
  <2> QED
    BY <1>2, <2>1, <2>2, <2>3, <2>4, <2>5, <2>6
<1>7. closed \/ Answered => Written = Len(Whole)
  <2>1. Len(Whole) = LinePlace(Repeat) + (IF ending = "polled" THEN 0 ELSE 1 + Total)
    BY WholeType, JobTyped DEF TypeInv
  <2>2. ASSUME closed \/ Answered, ending = "polled"
        PROVE  Written = Len(Whole)
    <3>1. controller \in {"close", "done"} /\ teller = "done" /\ WrittenByTeller = 0
      BY <1>1, <1>2, <2>2 DEF WrittenByTeller, NothingEnded, BeforeTelling, Answered
    <3> QED
      BY <3>1, <1>5, <2>1, <2>2
  <2>3. ASSUME closed \/ Answered, ending # "polled"
        PROVE  Written = Len(Whole)
    <3>1. teller \in {"close", "unlink", "done"} /\ controller \in {"close", "done"}
      BY <1>1, <1>2, <2>3 DEF TellerWaited, BeforeTelling, Endings, Answered
    <3>2. WrittenByTeller = 1 + Total
      BY <3>1, <2>3 DEF WrittenByTeller, NothingEnded, BeforeTelling
    <3> QED
      BY <3>1, <3>2, <1>5, <2>1, <2>3
  <2> QED
    BY <2>2, <2>3
<1> QED
  BY <1>1, <1>2, <1>3, <1>5, <1>6, <1>7

(* Nothing is written after the answer.                                      *)
LEMMA WrittenBound ==
    ASSUME TypeInv, TellerWaited
    PROVE  Written \in 0 .. Len(Whole)
<1>1. /\ Len(Whole) = LinePlace(Repeat) + (IF ending = "polled" THEN 0 ELSE 1 + Total)
      /\ LinePlace(Repeat) \in Nat /\ LinePlace(Repeat) >= 1 /\ Repeat \in Nat /\ Total \in Nat
  BY WholeType, BodyType, LinePlaces, RepeatType, JobTyped DEF TypeInv
<1>2. Len(Whole) \in Nat /\ LinePlace(Repeat) <= Len(Whole)
      /\ (ending # "polled" => Len(Whole) = LinePlace(Repeat) + 1 + Total)
  BY <1>1
<1>3. ASSUME told \in 0 .. Repeat - 1
      PROVE  /\ LinePlace(told) \in Nat
             /\ LinePlace(told) + 1 <= LinePlace(Repeat)
  <2>1. told \in Nat /\ told + 1 \in Nat /\ told + 1 <= Repeat /\ Repeat \in Nat
    BY <1>1, <1>3
  <2>2. LinePlace(told + 1) <= LinePlace(Repeat) /\ LinePlace(told) \in Nat
        /\ LinePlace(told + 1) = LinePlace(told) + 1 + TextLen /\ TextLen \in Nat
    BY <2>1, LinePlaces, SizesAssumption
  <2> QED
    BY <2>2, <1>1
<1>4. ASSUME teller \in {"block", "rest"}
      PROVE  BlockPlace(i) \in Nat /\ BlockPlace(i) <= Total
  <2>1. /\ BlockPlace(i) \in Nat /\ Total = BlockPlace(Loops) + Remaining
        /\ Loops \in Nat /\ Remaining \in Nat /\ i \in Nat
        /\ (teller = "block" => i + 1 <= Loops) /\ (teller = "rest" => i = Loops)
    BY <1>4, Sending
  <2>2. i <= Loops
    BY <1>4, <2>1
  <2>3. BlockPlace(i) <= BlockPlace(Loops) /\ BlockPlace(Loops) \in Nat
    BY <2>1, <2>2, BlockPlaces
  <2> QED
    BY <2>1, <2>3
<1>5. teller = "notice" => Total \in Nat
  BY <1>1
<1>6. CASE controller \in {"repeat", "size", "text"}
  <2>1. \/ Written = 0
        \/ told \in 0 .. Repeat - 1 /\ Written = LinePlace(told)
        \/ told \in 0 .. Repeat - 1 /\ Written = LinePlace(told) + 1
    BY <1>6, WrittenPlaces
  <2> QED
    BY <2>1, <1>2, <1>3, <1>1
<1>7. CASE controller \notin {"repeat", "size", "text"}
  <2>1. /\ Written = LinePlace(Repeat) + WrittenByTeller
        /\ \/ WrittenByTeller = 0
           \/ ending # "polled" /\ WrittenByTeller = 1
           \/ ending # "polled" /\ teller \in {"block", "rest"} /\ WrittenByTeller = 1 + BlockPlace(i)
           \/ ending # "polled" /\ WrittenByTeller = 1 + Total
    BY <1>7, WrittenPlaces
  <2> QED
    BY <2>1, <1>1, <1>2, <1>4
<1> QED
  BY <1>6, <1>7

(* Everything is written in one go that is read in one: what the client asks *)
(* for next is there as a whole, or nothing of it is.                        *)
LEMMA NextCells ==
    ASSUME TypeInv, TellerWaited, Asked, Reading
    PROVE  /\ ReadSoFar \in Nat /\ Wanted \in Nat \ {0}
           /\ ReadSoFar + Wanted <= Len(Whole)
           /\ AtNumber => Wanted = 1 /\ Whole[ReadSoFar + 1].of = "number"
           /\ ReadSoFar < Written => ReadSoFar + Wanted <= Written
<1> DEFINE head == LinePlace(Repeat)
<1>1. /\ Len(Whole) = head + (IF ending = "polled" THEN 0 ELSE 1 + Total)
      /\ head \in Nat /\ head >= 1 /\ Repeat \in Nat \ {0} /\ Total \in Nat
      /\ JobType /\ TextLen \in Nat \ {0} /\ Block \in Nat \ {0}
      /\ Len(Whole) \in Nat /\ Written \in Nat
  <2>1. JobType
    BY JobTyped DEF TypeInv
  <2>2. /\ Len(Whole) = head + (IF ending = "polled" THEN 0 ELSE 1 + Total)
        /\ Total \in Nat /\ Whole \in Seq(Cell)
    BY <2>1, WholeType, BodyType
  <2>3. Repeat \in Nat \ {0} /\ head \in Nat /\ head >= 1
    BY LinePlaces, RepeatType
  <2>4. Len(Whole) \in Nat /\ Written \in Nat
    BY <2>2, LenProperties, WrittenBound
  <2> QED
    BY <2>1, <2>2, <2>3, <2>4, SizesAssumption
<1> HIDE DEF head
<1>2. ASSUME NEW t \in 0 .. Repeat - 1, Written > LinePlace(t)
      PROVE  LinePlace(t) + 1 <= Written
  BY <1>1, <1>2, LinePlaces
<1>3. ASSUME NEW t \in 0 .. Repeat - 1, Written > LinePlace(t) + 1
      PROVE  LinePlace(t + 1) <= Written
  <2>1. /\ LinePlace(t) \in Nat /\ LinePlace(t + 1) \in Nat /\ t + 1 \in Nat /\ t + 1 <= Repeat
        /\ LinePlace(t + 1) <= head
    <3>1. t \in Nat /\ t + 1 \in Nat /\ t + 1 <= Repeat
      BY <1>1
    <3> QED
      BY <3>1, <1>1, LinePlaces DEF head
  <2>2. CASE controller \in {"size", "text"}
    <3>1. /\ told \in 0 .. Repeat - 1 /\ LinePlace(told) \in Nat
          /\ (Written = LinePlace(told) \/ Written = LinePlace(told) + 1)
      <4>1. told \in 0 .. Repeat - 1 /\ (Written = LinePlace(told) \/ Written = LinePlace(told) + 1)
        BY <2>2, WrittenPlaces
      <4> QED
        BY <4>1, LinePlaces
    <3>2. CASE told <= t
      <4>1. LinePlace(told) <= LinePlace(t)
        BY <3>1, <3>2, LinePlaces
      <4> QED
        BY <4>1, <3>1, <2>1, <1>3
    <3>3. CASE t + 1 <= told
      <4>1. LinePlace(t + 1) <= LinePlace(told)
        BY <3>1, <3>3, <2>1, LinePlaces
      <4> QED
        BY <4>1, <3>1, <2>1
    <3> QED
      BY <3>1, <3>2, <3>3, <1>1
  <2>3. CASE controller = "repeat"
    BY <2>3, <2>1, <1>3, WrittenPlaces
  <2>4. CASE controller \notin {"repeat", "size", "text"}
    <3>1. Written = head + WrittenByTeller
          /\ (WrittenByTeller = 0 \/ WrittenByTeller = 1 \/ WrittenByTeller = 1 + Total
              \/ (teller \in {"block", "rest"} /\ WrittenByTeller = 1 + BlockPlace(i)))
      BY <2>4, WrittenPlaces DEF head
    <3>2. teller \in {"block", "rest"} => BlockPlace(i) \in Nat
      BY Sending
    <3> QED
      BY <3>1, <3>2, <2>1, <1>1
  <2> QED
    BY <2>2, <2>3, <2>4
<1>4. CASE client = "sentences"
  <2>1. ReadSoFar = 0 /\ Wanted = 1 /\ AtNumber
    BY <1>4 DEF ReadSoFar, Wanted, AtNumber
  <2>2. Whole[1].of = "number" /\ Len(Whole) >= 1
    BY <1>1, FirstCell, CellTypes
  <2> QED
    BY <2>1, <2>2, <1>1
<1>5. ASSUME client \in {"n", "str"}
      PROVE  /\ SentencesRead \in 0 .. Repeat - 1 /\ LinePlace(SentencesRead) \in Nat
             /\ LinePlace(SentencesRead + 1) = LinePlace(SentencesRead) + 1 + TextLen
             /\ LinePlace(SentencesRead + 1) <= head /\ head <= Len(Whole)
  <2>1. sentences \in Nat /\ sentences > 0 /\ sentences <= Repeat
    BY <1>5 DEF Asked, TypeInv, TypeOK, Reads
  <2>2. SentencesRead \in 0 .. Repeat - 1 /\ SentencesRead + 1 <= Repeat
    BY <2>1, <1>1 DEF SentencesRead
  <2>3. SentencesRead \in Nat /\ SentencesRead + 1 \in Nat
    BY <2>2
  <2>4. /\ LinePlace(SentencesRead) \in Nat
        /\ LinePlace(SentencesRead + 1) = LinePlace(SentencesRead) + 1 + TextLen
    BY <2>3, LinePlaces
  <2>5. LinePlace(SentencesRead + 1) <= head
    BY <2>2, <2>3, <1>1, LinePlaces DEF head
  <2>6. head <= Len(Whole)
    BY <1>1
  <2> QED
    BY <2>2, <2>4, <2>5, <2>6
<1>6. CASE client = "n"
  <2>1. ReadSoFar = LinePlace(SentencesRead) /\ Wanted = 1 /\ AtNumber
    BY <1>6 DEF ReadSoFar, Wanted, AtNumber
  <2>2. Whole[LinePlace(SentencesRead) + 1].of = "number"
    BY <1>1, <1>5, <1>6, LineCells, CellTypes
  <2>3. LinePlace(SentencesRead) < Written => LinePlace(SentencesRead) + 1 <= Written
    BY <1>1, <1>5, <1>6
  <2> QED
    BY <2>1, <2>2, <2>3, <1>1, <1>5, <1>6
<1>7. CASE client = "str"
  <2>1. ReadSoFar = LinePlace(SentencesRead) + 1 /\ Wanted = TextLen /\ ~AtNumber
    BY <1>7 DEF ReadSoFar, Wanted, AtNumber, Asked
  <2>2. LinePlace(SentencesRead) + 1 < Written => LinePlace(SentencesRead + 1) <= Written
    BY <1>1, <1>3, <1>5, <1>7
  <2> QED
    BY <2>1, <2>2, <1>1, <1>5, <1>7
<1>8. CASE client = "characters"
  <2>1. ReadSoFar = head /\ Wanted = 1 /\ AtNumber /\ ending # "polled"
    BY <1>8 DEF ReadSoFar, Wanted, AtNumber, head, Asked
  <2>2. Whole[head + 1].of = "number"
    BY <1>1, <2>1, OutcomeCells, CellTypes DEF head
  <2> QED
    BY <2>1, <2>2, <1>1
<1>9. CASE client \in {"block", "rest"}
  <2>1. /\ ReadSoFar = head + 1 + BlockPlace(k) /\ ~AtNumber /\ ending # "polled"
        /\ characters = Total /\ k \in Nat
        /\ Wanted = (IF client = "block" THEN Block ELSE Total % Block)
        /\ (client = "block" => k + 1 <= Total \div Block)
        /\ (client = "rest" => k = Total \div Block /\ Total % Block # 0)
    <3>1. k \in Nat /\ (client = "block" => k < characters \div Block) /\ characters = Total
          /\ ending # "polled" /\ (client = "rest" => k = Total \div Block /\ Total % Block # 0)
      BY <1>9 DEF TypeInv, TypeOK, Reads, Asked
    <3>2. ReadSoFar = head + 1 + BlockPlace(k) /\ ~AtNumber
      BY <1>9 DEF ReadSoFar, AtNumber, head
    <3>3. Wanted = (IF client = "block" THEN Block ELSE Total % Block)
      BY <1>9, <3>1 DEF Wanted
    <3>4. Total \div Block \in Nat
      BY <1>1, Blocks
    <3> QED
      BY <3>1, <3>2, <3>3, <3>4
  <2>2. /\ Total \div Block \in Nat /\ Total % Block \in 0 .. Block - 1
        /\ Total = BlockPlace(Total \div Block) + (Total % Block)
        /\ BlockPlace(k) \in Nat /\ BlockPlace(k + 1) = BlockPlace(k) + Block
        /\ BlockPlace(Total \div Block) \in Nat
    BY <1>1, <2>1, Blocks, BlockPlaces
  <2>3. Wanted \in Nat \ {0} /\ BlockPlace(k) + Wanted <= Total
    <3>1. CASE client = "block"
      <4>1. BlockPlace(k + 1) <= BlockPlace(Total \div Block)
        BY <3>1, <2>1, <2>2, BlockPlaces
      <4> QED
        BY <3>1, <4>1, <2>1, <2>2, <1>1
    <3>2. CASE client = "rest"
      BY <3>2, <2>1, <2>2, <1>1
    <3> QED
      BY <3>1, <3>2, <1>9
  <2>4. ASSUME head + 1 + BlockPlace(k) < Written
        PROVE  head + 1 + BlockPlace(k) + Wanted <= Written
    <3>1. Written = head + WrittenByTeller
      <4>1. CASE controller \in {"repeat", "size", "text"}
        <5>1. \/ Written = 0
              \/ told \in 0 .. Repeat - 1 /\ (Written = LinePlace(told) \/ Written = LinePlace(told) + 1)
          BY <4>1, WrittenPlaces
        <5>2. ASSUME told \in 0 .. Repeat - 1
              PROVE  LinePlace(told) \in Nat /\ LinePlace(told) <= head
          <6>1. told \in Nat /\ told <= Repeat
            BY <5>2, <1>1
          <6> QED
            BY <6>1, <1>1, LinePlaces DEF head
        <5> QED
          BY <5>1, <5>2, <2>2, <2>4, <1>1
      <4>2. CASE controller \notin {"repeat", "size", "text"}
        BY <4>2, WrittenPlaces DEF head
      <4> QED
        BY <4>1, <4>2
    <3>2. \/ WrittenByTeller = 0 \/ WrittenByTeller = 1
          \/ teller \in {"block", "rest"} /\ WrittenByTeller = 1 + BlockPlace(i)
          \/ WrittenByTeller = 1 + Total
      BY WrittenPlaces
    <3>3. CASE WrittenByTeller = 0 \/ WrittenByTeller = 1
      BY <3>1, <3>3, <2>2, <2>4, <1>1
    <3>4. CASE teller \in {"block", "rest"} /\ WrittenByTeller = 1 + BlockPlace(i)
      <4>1. i \in Nat /\ BlockPlace(i) \in Nat /\ i <= Total \div Block
        <5>1. /\ i \in Nat /\ BlockPlace(i) \in Nat /\ count = Total /\ Loops \in Nat
              /\ (teller = "block" => i + 1 <= Loops) /\ (teller = "rest" => i = Loops)
          BY <3>4, Sending
        <5>2. i <= Loops
          BY <3>4, <5>1
        <5> QED
          BY <5>1, <5>2 DEF Loops
      <4>2. CASE i <= k
        <5>1. BlockPlace(i) <= BlockPlace(k)
          BY <4>1, <4>2, <2>1, BlockPlaces
        <5> QED
          BY <5>1, <4>1, <3>1, <3>4, <2>2, <2>4, <1>1
      <4>3. CASE k + 1 <= i
        <5>1. BlockPlace(k + 1) <= BlockPlace(i)
          BY <4>1, <4>3, <2>1, BlockPlaces
        <5>2. client = "block"
          BY <4>1, <4>3, <2>1, <2>2, <1>9
        <5>3. Wanted = Block /\ BlockPlace(k) + Block <= BlockPlace(i)
          BY <5>1, <5>2, <2>1, <2>2
        <5>4. Written = head + (1 + BlockPlace(i))
          BY <3>1, <3>4
        <5> QED
          BY <5>3, <5>4, <4>1, <2>2, <1>1
      <4> QED
        BY <4>1, <4>2, <4>3, <2>1
    <3>5. CASE WrittenByTeller = 1 + Total
      BY <3>1, <3>5, <2>2, <2>3, <1>1
    <3> QED
      BY <3>2, <3>3, <3>4, <3>5
  <2>5. Len(Whole) = head + 1 + Total
    BY <2>1, <1>1
  <2> QED
    BY <2>1, <2>2, <2>3, <2>4, <2>5, <1>1
<1>10. client \in {"sentences", "n", "str", "characters"} \/ client \in {"block", "rest"}
  BY DEF Reading, TypeInv, TypeOK
<1> QED
  BY <1>4, <1>6, <1>7, <1>8, <1>9, <1>10

-----------------------------------------------------------------------------
(* A write in its turn goes to the end of what is written.                   *)

(* Who does not read keeps the client's places.                              *)
LEMMA ReaderKept ==
    ASSUME UNCHANGED <<job, reader>>
    PROVE  /\ ReadSoFar' = ReadSoFar /\ CallsSoFar' = CallsSoFar /\ Asked' = Asked
           /\ printed' = printed /\ Whole' = Whole
<1>1. /\ Repeat' = Repeat /\ Whole' = Whole /\ Calls' = Calls /\ Total' = Total
      /\ ending' = ending /\ client' = client /\ sentences' = sentences /\ n' = n
      /\ characters' = characters /\ k' = k /\ printed' = printed
  BY JobKept DEF reader
<1>2. SentencesRead' = SentencesRead /\ BlockPlace(k)' = BlockPlace(k)
  BY <1>1 DEF SentencesRead, BlockPlace
<1>3. /\ LinePlace(SentencesRead)' = LinePlace(SentencesRead)
      /\ LinePlace(Repeat)' = LinePlace(Repeat)
  BY <1>1, <1>2 DEF LinePlace
<1> QED
  BY <1>1, <1>2, <1>3 DEF ReadSoFar, CallsSoFar, Asked

(* A write of the next cells keeps server and client at the same answer.     *)
LEMMA WriteKeeps ==
    ASSUME TypeInv, TellerWaited, InStep, UNCHANGED <<job, reader>>, ~closed,
           NEW cells, Send(cells),
           Written' \in Written .. Len(Whole),
           cells = SubSeq(Whole, Written + 1, Written')
    PROVE  InStep'
<1>1. /\ ReadSoFar' = ReadSoFar /\ CallsSoFar' = CallsSoFar /\ Asked' = Asked
      /\ printed' = printed /\ Whole' = Whole
  BY ReaderKept
<1>2. /\ Whole \in Seq(Cell) /\ Len(Whole) \in Nat /\ Written \in Nat
      /\ stream = SubSeq(Whole, ReadSoFar + 1, Written) /\ ReadSoFar <= Written
      /\ client # "failed" /\ Asked
  BY WholeType, WrittenBound, LenProperties, JobTyped DEF TypeInv, InStep, Asked
<1>3. ReadSoFar \in Nat /\ (~Reading => stream = <<>>)
  <2>1. CASE Reading
    BY <1>2, <2>1, NextCells
  <2>2. CASE ~Reading
    <3>1. ReadSoFar = Len(Whole) /\ Written <= Len(Whole)
      BY <1>2, <2>2, WrittenBound DEF Reading, ReadSoFar
    <3> QED
      BY <3>1, <1>2, SubSeqEmpty
  <2> QED
    BY <2>1, <2>2
<1>4. stream' = stream \o cells /\ server' = "up"
  BY <1>3 DEF Send
<1>5. stream \o cells = SubSeq(Whole, ReadSoFar + 1, Written')
  <2>1. Written \in ReadSoFar .. Len(Whole) /\ Written' \in Written .. Len(Whole)
    BY <1>2, <1>3
  <2>2. SubSeq(Whole, ReadSoFar + 1, Written) \o SubSeq(Whole, Written + 1, Written')
        = SubSeq(Whole, ReadSoFar + 1, Written')
    BY <1>2, <1>3, <2>1, PartsJoin
  <2> QED
    BY <1>2, <2>2
<1>6. ReadSoFar <= Written'
  BY <1>2, <1>3
<1> QED
  BY <1>1, <1>2, <1>4, <1>5, <1>6 DEF InStep

(* A step that writes nothing.                                               *)
LEMMA QuietKeeps ==
    ASSUME InStep, UNCHANGED <<job, reader, stream>>, server' # "down", Written' = Written
    PROVE  InStep'
BY ReaderKept DEF InStep

(* The places after a step.                                                  *)
PlacesRight ==
    /\ Written \in 0 .. Len(Whole)
    /\ controller = "size" => Written = LinePlace(told)
    /\ controller = "text" => Written = LinePlace(told) + 1
    /\ controller = "zero" => Written = LinePlace(Repeat) + 0
    /\ controller \in {"close", "done"} => Written = LinePlace(Repeat) + WrittenByTeller

LEMMA PlacesAreRight == TypeInv /\ TellerWaited => PlacesRight
BY WrittenBound, WrittenPlaces DEF PlacesRight

LEMMA PlacesStayRight == (TypeInv /\ TellerWaited)' => PlacesRight'
BY PlacesAreRight, PTL

LEMMA WrittenAfter ==
    ASSUME TypeInv', TellerWaited', UNCHANGED job
    PROVE  /\ Written' \in 0 .. Len(Whole)
           /\ controller' = "size" => Written' = LinePlace(told')
           /\ controller' = "text" => Written' = LinePlace(told') + 1
           /\ controller' = "zero" => Written' = LinePlace(Repeat) + 0
           /\ controller' \in {"close", "done"} => Written' = LinePlace(Repeat) + WrittenByTeller'
<1>1. PlacesRight'
  BY PlacesStayRight
<1>2. Whole' = Whole /\ LinePlace(Repeat)' = LinePlace(Repeat) /\ LinePlace(told)' = LinePlace(told')
  BY JobKept DEF LinePlace
<1> QED
  BY <1>1, <1>2 DEF PlacesRight

(* The controller's steps keep Ordered.                                      *)
LEMMA ControllerOrdered ==
    ASSUME TypeInv, Ordered, Controller
    PROVE  Ordered'
<1>1. UNCHANGED <<job, teller, locals, reader, overtaken, short>> /\ controller # "done"
  BY DEF Controller, WriteRepeat, WriteSize, WriteText, WriteZero, CloseAnswer
<1>2. /\ Repeat' = Repeat /\ Whole' = Whole /\ Total' = Total /\ ending' = ending
      /\ LinePlace(Repeat)' = LinePlace(Repeat) /\ printed' = printed /\ client' = client
      /\ teller' = teller /\ overtaken' = overtaken /\ short' = short
  BY <1>1, JobKept DEF reader
<1> SUFFICES ASSUME ~overtaken
             PROVE  /\ TellerWaited' /\ PrintedRight'
                    /\ client # "failed" => InStep'
                    /\ client = "failed" => short
  BY <1>2 DEF Ordered
<1>3. /\ TellerWaited /\ PrintedRight /\ (client # "failed" => InStep) /\ server = "up"
      /\ client = "failed" => short
  <2>1. server = "up"
    BY DEF Controller, WriteRepeat, WriteSize, WriteText, WriteZero, CloseAnswer, Send, CloseSocket
  <2> QED
    BY <2>1 DEF Ordered, Cut
<1>4. TellerWaited'
  BY <1>1, <1>2, <1>3 DEF TellerWaited, BeforeTelling
<1>5. PrintedRight'
  BY <1>1, <1>2, <1>3, RightKept
<1>6. ASSUME client # "failed"
      PROVE  InStep'
  <2>1. InStep
    BY <1>3, <1>6
  <2>2. TypeInv'
    BY ControllerKeeps
  <2>3. /\ JobType /\ Len(Whole) \in Nat /\ Written' \in 0 .. Len(Whole) /\ Written \in 0 .. Len(Whole)
        /\ Repeat \in Nat \ {0} /\ TextLen \in Nat \ {0}
        /\ LinePlace(Repeat) \in Nat /\ LinePlace(0) = 1
    <3>1. JobType /\ Len(Whole) \in Nat /\ Repeat \in Nat \ {0}
      BY JobTyped, WholeType, LenProperties, RepeatType DEF TypeInv
    <3>2. Written \in 0 .. Len(Whole)
      BY <1>3, WrittenBound
    <3>3. Written' \in 0 .. Len(Whole)
      BY <1>1, <1>4, <2>2, WrittenAfter
    <3> QED
      BY <3>1, <3>2, <3>3, LinePlaces, SizesAssumption
  <2>4. /\ controller = "repeat" => Written = 0
        /\ controller = "size" => told \in 0 .. Repeat - 1 /\ Written = LinePlace(told)
        /\ controller = "text" => told \in 0 .. Repeat - 1 /\ Written = LinePlace(told) + 1
        /\ controller = "zero" => Written = LinePlace(Repeat) + 0
        /\ controller \in {"repeat", "size", "text", "zero"} => ~closed
    BY <1>3, WrittenPlaces
  <2>5. /\ controller' \in {"size", "text", "zero", "close", "done"}
        /\ controller' = "size" => Written' = LinePlace(told')
        /\ controller' = "text" => Written' = LinePlace(told') + 1
        /\ controller' = "zero" => Written' = LinePlace(Repeat) + 0
        /\ controller' \in {"close", "done"} => Written' = LinePlace(Repeat) + WrittenByTeller'
    <3>1. controller' \in {"size", "text", "zero", "close", "done"}
      BY DEF Controller, WriteRepeat, WriteSize, WriteText, WriteZero, CloseAnswer, AfterSentences
    <3> QED
      BY <1>1, <1>4, <2>2, <3>1, WrittenAfter
  <2>6. CASE WriteRepeat
    <3>1. told = 0 /\ told' = 0 /\ Written = 0 /\ Written' = 1 /\ ~closed
      BY <2>6, <2>3, <2>4, <2>5 DEF WriteRepeat, TypeInv, Roles
    <3>2. <<Number(Repeat)>> = SubSeq(Whole, Written + 1, Written')
      BY <3>1, <2>3, FirstCell
    <3> QED
      BY <2>6, <3>1, <3>2, <2>1, <2>3, <1>1, <1>3, WriteKeeps DEF WriteRepeat
  <2>7. CASE WriteSize
    <3>1. told' = told /\ told \in 0 .. Repeat - 1 /\ ~closed
          /\ Written = LinePlace(told) /\ Written' = LinePlace(told) + 1
      BY <2>7, <2>4, <2>5 DEF WriteSize
    <3>2. <<Number(TextLen)>> = SubSeq(Whole, Written + 1, Written')
      BY <3>1, <2>3, LineCells
    <3>3. Written' \in Written .. Len(Whole)
      <4>1. LinePlace(told) \in Nat
        BY <3>1, LinePlaces
      <4> QED
        BY <3>1, <4>1, <2>3
    <3> QED
      BY <2>7, <3>1, <3>2, <3>3, <2>1, <1>1, <1>3, WriteKeeps DEF WriteSize
  <2>8. CASE WriteText
    <3>1. told' = told + 1 /\ told \in 0 .. Repeat - 1 /\ ~closed /\ Written = LinePlace(told) + 1
          /\ controller' = (IF told' < Repeat THEN "size" ELSE AfterSentences)
      BY <2>8, <2>4 DEF WriteText
    <3>2. Written' = LinePlace(told + 1)
      <4>1. CASE told' < Repeat
        BY <3>1, <4>1, <2>5
      <4>2. CASE ~(told' < Repeat)
        <5>1. told + 1 = Repeat /\ controller' \in {"zero", "close", "done"}
          BY <3>1, <4>2, <2>3 DEF AfterSentences
        <5>2. controller' \in {"close", "done"} => WrittenByTeller' = 0
          <6>1. WrittenByTeller = 0
            BY <2>8, <1>3, WrittenPlaces DEF WriteText
          <6>2. ending \in {"polled", "refused"} \/ teller \in BeforeTelling
            BY <1>1, <1>3 DEF TellerWaited
          <6>3. CASE teller \in BeforeTelling
            BY <6>3, <1>2 DEF WrittenByTeller, BeforeTelling
          <6>4. CASE ending = "polled"
            <7>1. teller' = "done" /\ ending' = "polled"
              BY <6>4, <1>2 DEF TypeInv, Roles
            <7> QED
              BY <7>1 DEF WrittenByTeller, NothingEnded, BeforeTelling
          <6>5. CASE ending = "refused"
            BY <6>5, <3>1, <4>2 DEF AfterSentences
          <6> QED
            BY <6>2, <6>3, <6>4, <6>5
        <5>3. Written' = LinePlace(Repeat) + 0
          BY <5>1, <5>2, <2>5
        <5> QED
          BY <5>1, <5>3, <2>3
      <4> QED
        BY <4>1, <4>2
    <3>3. LinePlace(told) \in Nat /\ LinePlace(told + 1) = LinePlace(told) + 1 + TextLen
      BY <3>1, LinePlaces
    <3>4. Sentence = SubSeq(Whole, Written + 1, Written')
      <4>1. Written + 1 = LinePlace(told) + 2 /\ Written' = LinePlace(told) + 1 + TextLen
        BY <3>1, <3>2, <3>3
      <4> QED
        BY <4>1, <3>1, <2>3, LineCells
    <3>5. Written' \in Written .. Len(Whole)
      BY <3>1, <3>2, <3>3, <2>3
    <3> QED
      BY <2>8, <3>1, <3>4, <3>5, <2>1, <1>1, <1>3, WriteKeeps DEF WriteText
  <2>9. CASE WriteZero
    <3>1. ending = "refused" /\ teller = "done" /\ controller' = "close" /\ ~closed
      BY <2>9, <2>4 DEF WriteZero, TypeInv, Roles
    <3>2. Total = 0
      BY <3>1, <2>3, BodyType
    <3>3. WrittenByTeller' = 1 + Total'
      BY <3>1, <1>2 DEF WrittenByTeller, NothingEnded, BeforeTelling
    <3>4. Written = LinePlace(Repeat) /\ Written' = LinePlace(Repeat) + 1
      BY <2>9, <3>1, <3>2, <3>3, <1>2, <2>3, <2>4, <2>5 DEF WriteZero
    <3>5. <<Number(0)>> = SubSeq(Whole, Written + 1, Written')
      BY <3>1, <3>2, <3>4, <2>3, OutcomeCells
    <3>6. Written' \in Written .. Len(Whole)
      BY <3>4, <2>3
    <3> QED
      BY <2>9, <3>1, <3>5, <3>6, <2>1, <1>1, <1>3, WriteKeeps DEF WriteZero
  <2>10. CASE CloseAnswer
    <3>1. controller = "close" /\ controller' = "done" /\ UNCHANGED <<stream, server>>
      BY <2>10 DEF CloseAnswer, CloseSocket
    <3>2. BlockPlace(i)' = BlockPlace(i) /\ LinePlace(Repeat)' = LinePlace(Repeat)
      BY <1>1, <1>2 DEF BlockPlace, locals
    <3>3. WrittenByTeller' = WrittenByTeller
      BY <3>1, <3>2, <1>2 DEF WrittenByTeller, NothingEnded
    <3>4. Written' = Written
      BY <3>1, <3>2, <3>3 DEF Written, WrittenByController
    <3> QED
      BY <3>1, <3>4, <2>1, <1>1, <1>3, QuietKeeps
  <2> QED
    BY <2>6, <2>7, <2>8, <2>9, <2>10 DEF Controller
<1> QED
  BY <1>3, <1>4, <1>5, <1>6

(* The ending of the job writes after the controller, or overtakes it.       *)
LEMMA TellerOrdered ==
    ASSUME TypeInv, Ordered, Teller
    PROVE  Ordered'
<1>1. UNCHANGED <<job, controller, told, reader, short>>
  BY DEF Teller, WriteNoticeSize, WriteNotice, CloseJob, ReturnFromMain, RunJob, AppendEnd,
         Measure, Tell, SendBlock, SendRest, Unlink, network
<1>2. /\ Repeat' = Repeat /\ Whole' = Whole /\ Total' = Total /\ ending' = ending
      /\ LinePlace(Repeat)' = LinePlace(Repeat) /\ printed' = printed /\ client' = client
      /\ controller' = controller /\ short' = short
  BY <1>1, JobKept DEF reader
<1> SUFFICES ASSUME ~overtaken'
             PROVE  /\ TellerWaited' /\ PrintedRight'
                    /\ client # "failed" => InStep'
                    /\ client = "failed" => short \/ Cut'
  BY <1>2 DEF Ordered
<1>3. \/ WriteNoticeSize \/ Tell
      \/ /\ WriteNotice \/ CloseJob \/ SendBlock \/ SendRest \/ Unlink
         /\ overtaken' = overtaken /\ teller \notin BeforeTelling
      \/ /\ ReturnFromMain \/ RunJob \/ AppendEnd \/ Measure
         /\ overtaken' = overtaken /\ teller \in BeforeTelling /\ teller' \in BeforeTelling
  BY DEF Teller, WriteNotice, CloseJob, ReturnFromMain, RunJob, AppendEnd, Measure, SendBlock,
         SendRest, Unlink, BeforeTelling
<1>4. ~overtaken /\ (WriteNoticeSize \/ Tell => controller = "done")
  <2>1. WriteNoticeSize \/ Tell => teller \in BeforeTelling /\ overtaken' = (controller # "done")
    BY DEF WriteNoticeSize, Tell, BeforeTelling
  <2>2. teller \in BeforeTelling => ~overtaken
    BY DEF TypeInv, Roles
  <2>3. WriteNoticeSize \/ Tell => controller = "done"
    BY <2>1
  <2>4. WriteNoticeSize \/ Tell \/ overtaken' = overtaken
    BY <1>3
  <2>5. ~overtaken
    BY <2>1, <2>2, <2>4
  <2> QED
    BY <2>3, <2>5
<1>5. /\ TellerWaited /\ PrintedRight /\ (client # "failed" => InStep)
      /\ client = "failed" => short \/ Cut
  BY <1>4 DEF Ordered
<1>6. TellerWaited'
  BY <1>2, <1>3, <1>4, <1>5 DEF TellerWaited
<1>7. /\ PrintedRight'
      /\ client = "failed" => short \/ Cut'
  <2>1. PrintedRight'
    BY <1>1, <1>2, <1>5, RightKept
  <2>2. server = "up" \/ RunJob
    BY DEF Teller, WriteNoticeSize, WriteNotice, CloseJob, ReturnFromMain, AppendEnd, Measure,
           Tell, SendBlock, SendRest, Unlink, Send, CloseSocket
  <2>3. Cut => Cut'
    BY <2>2 DEF Cut, Answered, RunJob, network
  <2> QED
    BY <1>5, <2>1, <2>3
<1>8. ASSUME client # "failed"
      PROVE  InStep'
  <2> DEFINE head == LinePlace(Repeat)
  <2>1. InStep /\ TypeInv'
    BY <1>5, <1>8, TellerKeeps
  <2>2. /\ JobType /\ Len(Whole) \in Nat /\ head \in Nat
        /\ Body \in Seq(Cell) /\ Total \in Nat /\ Len(Body) = Total
        /\ Written' \in 0 .. Len(Whole) /\ Written \in 0 .. Len(Whole)
    <3>1. JobType
      BY JobTyped DEF TypeInv
    <3>2. Len(Whole) \in Nat /\ Body \in Seq(Cell) /\ Total \in Nat /\ Len(Body) = Total
      BY <3>1, WholeType, BodyType, LenProperties
    <3>3. head \in Nat
      BY LinePlaces, RepeatType
    <3>4. Written' \in 0 .. Len(Whole) /\ Written \in 0 .. Len(Whole)
      BY <1>1, <1>5, <1>6, <2>1, WrittenAfter, WrittenBound
    <3> QED
      BY <3>1, <3>2, <3>3, <3>4
  <2>3. ASSUME teller \in {"size", "notice", "tell", "block", "rest"}
        PROVE  /\ ending \in {"output", "removed"} /\ ~closed /\ controller = "done"
               /\ Written = head + WrittenByTeller /\ Written' = head + WrittenByTeller'
    <3>1. ending \in {"output", "removed"} /\ ~closed
      BY <2>3 DEF TypeInv, TypeOK, Roles, Endings
    <3>2. controller = "done"
      <4>1. teller \in {"size", "tell"} => WriteNoticeSize \/ Tell
        BY DEF Teller, WriteNotice, CloseJob, ReturnFromMain, RunJob, AppendEnd, Measure,
               SendBlock, SendRest, Unlink
      <4> QED
        BY <2>3, <3>1, <4>1, <1>4, <1>5 DEF TellerWaited, BeforeTelling
    <3>3. Written = head + WrittenByTeller
      BY <3>2, <1>5, WrittenPlaces
    <3>4. Written' = head + WrittenByTeller'
      BY <3>2, <1>1, <1>2, <1>6, <2>1, WrittenAfter
    <3> QED
      BY <3>1, <3>2, <3>3, <3>4
  <2> HIDE DEF head
  <2>4. ASSUME ending # "polled", NEW a \in 0 .. Total, NEW b \in a .. Total,
               Written = head + 1 + a, Written' = head + 1 + b, ~closed,
               NEW cells, cells = SubSeq(Body, a + 1, b), Send(cells)
        PROVE  InStep'
    <3>1. cells = SubSeq(Whole, Written + 1, Written')
      <4>1. SubSeq(Whole, head + 1 + a + 1, head + 1 + b) = SubSeq(Body, a + 1, b)
        BY <2>2, <2>4, OutcomeCells DEF head
      <4> QED
        BY <2>4, <4>1
    <3>2. Written' \in Written .. Len(Whole)
      BY <2>2, <2>4
    <3> QED
      BY <2>1, <2>4, <3>1, <3>2, <1>1, <1>5, WriteKeeps
  <2>5. ASSUME ending # "polled", Written = head, Written' = head + 1, ~closed,
               Send(<<Number(Total)>>)
        PROVE  InStep'
    <3>1. <<Number(Total)>> = SubSeq(Whole, Written + 1, Written')
      BY <2>2, <2>5, OutcomeCells DEF head
    <3>2. Written' \in Written .. Len(Whole)
      BY <2>2, <2>5
    <3> QED
      BY <2>1, <2>5, <3>1, <3>2, <1>1, <1>5, WriteKeeps
  <2>6. ASSUME UNCHANGED stream, server' # "down", WrittenByTeller' = WrittenByTeller
        PROVE  InStep'
    <3>1. LinePlace(told)' = LinePlace(told) /\ told' = told
      BY <1>1 DEF LinePlace
    <3>2. Written' = Written
      BY <2>6, <3>1, <1>2 DEF Written, WrittenByController
    <3> QED
      BY <2>1, <2>6, <3>2, <1>1, QuietKeeps
  <2>7. CASE WriteNoticeSize
    <3>1. teller = "size" /\ teller' = "notice" /\ Send(<<Number(TextLen)>>)
      BY <2>7 DEF WriteNoticeSize
    <3>2. ending = "removed" /\ Total = TextLen
      BY <3>1, <2>2, BodyType DEF TypeInv, TypeOK, Roles, Endings
    <3>3. WrittenByTeller = 0 /\ WrittenByTeller' = 1
      BY <3>1 DEF WrittenByTeller, BeforeTelling
    <3>4. Written = head /\ Written' = head + 1 /\ ~closed
      BY <3>1, <3>3, <2>2, <2>3
    <3> QED
      BY <3>1, <3>2, <3>4, <2>5
  <2>8. CASE WriteNotice
    <3>1. teller = "notice" /\ teller' = "close" /\ Send(Notice)
      BY <2>8 DEF WriteNotice
    <3>2. ending = "removed" /\ Body = Notice
      BY <3>1, <2>2, BodyType DEF TypeInv, TypeOK, Roles, Endings
    <3>3. WrittenByTeller = 1 /\ WrittenByTeller' = 1 + Total
      BY <3>1, <3>2, <1>2 DEF WrittenByTeller, BeforeTelling, NothingEnded
    <3>4. Written = head + 1 + 0 /\ Written' = head + 1 + Total /\ ~closed
      BY <3>1, <3>3, <2>2, <2>3
    <3>5. Notice = SubSeq(Body, 0 + 1, Total)
      BY <3>2, <2>2, SubSeqFull
    <3>6. 0 \in 0 .. Total /\ Total \in 0 .. Total
      BY <2>2
    <3> QED
      BY <3>1, <3>2, <3>4, <3>5, <3>6, <2>4
  <2>9. CASE CloseJob
    <3>1. /\ teller = "close" /\ teller' \in {"unlink", "done"}
          /\ UNCHANGED stream /\ server' # "down"
      BY <2>1, <2>9 DEF CloseJob, CloseSocket, InStep
    <3>2. WrittenByTeller' = WrittenByTeller
      BY <3>1, <1>2 DEF WrittenByTeller, NothingEnded, BeforeTelling
    <3> QED
      BY <3>1, <3>2, <2>6
  <2>10. CASE ReturnFromMain \/ RunJob \/ AppendEnd \/ Measure
    <3>1. /\ UNCHANGED stream /\ server' # "down"
          /\ teller \in BeforeTelling /\ teller' \in BeforeTelling
      BY <2>1, <2>10 DEF ReturnFromMain, RunJob, AppendEnd, Measure, network, BeforeTelling, InStep
    <3>2. WrittenByTeller' = WrittenByTeller
      BY <3>1 DEF WrittenByTeller, BeforeTelling
    <3> QED
      BY <3>1, <3>2, <2>6
  <2>11. CASE Tell
    <3>1. teller = "tell" /\ teller' \in {"block", "rest"} /\ Send(<<Number(count)>>) /\ i' = i
      BY <2>11 DEF Tell
    <3>2. ending # "polled" /\ count = Total /\ i = 0
      BY <3>1 DEF TypeInv, Files, Roles
    <3>3. WrittenByTeller = 0 /\ WrittenByTeller' = 1
      <4>1. BlockPlace(i)' = 0
        BY <3>1, <3>2, SizesAssumption DEF BlockPlace
      <4> QED
        BY <3>1, <4>1 DEF WrittenByTeller, BeforeTelling
    <3>4. Written = head /\ Written' = head + 1 /\ ~closed
      BY <3>1, <3>3, <2>2, <2>3
    <3> QED
      BY <3>1, <3>2, <3>4, <2>5
  <2>12. CASE SendBlock
    <3>1. teller = "block" /\ teller' \in {"block", "rest"}
      BY <2>12 DEF SendBlock
    <3>2. /\ BlockPlace(i) \in Nat /\ BlockPlace(i) + Block <= Total /\ ending = "output"
          /\ Block \in Nat /\ i \in Nat
      BY <3>1, Sending, SizesAssumption
    <3>3. buffer' = SubSeq(Body, BlockPlace(i) + 1, BlockPlace(i) + Block) /\ Send(buffer') /\ i' = i + 1
      BY <2>12, BlockSent
    <3>4. WrittenByTeller = 1 + BlockPlace(i) /\ WrittenByTeller' = 1 + (BlockPlace(i) + Block)
      <4>1. BlockPlace(i)' = BlockPlace(i + 1)
        BY <3>3 DEF BlockPlace
      <4>2. BlockPlace(i + 1) = BlockPlace(i) + Block
        BY <3>2, BlockPlaces
      <4> QED
        BY <3>1, <4>1, <4>2 DEF WrittenByTeller, BeforeTelling
    <3>5. /\ Written = head + 1 + BlockPlace(i) /\ Written' = head + 1 + (BlockPlace(i) + Block)
          /\ ~closed
      BY <3>1, <3>2, <3>4, <2>2, <2>3
    <3>6. /\ BlockPlace(i) \in 0 .. Total
          /\ BlockPlace(i) + Block \in BlockPlace(i) .. Total
      BY <3>2, <2>2
    <3> QED
      BY <3>2, <3>3, <3>5, <3>6, <2>4
  <2>13. CASE SendRest
    <3>1. teller = "rest" /\ teller' = "close"
      BY <2>13 DEF SendRest
    <3>2. /\ BlockPlace(i) \in Nat /\ ending = "output" /\ i = Loops
          /\ Total = BlockPlace(Loops) + Remaining /\ Remaining \in Nat
      BY <3>1, Sending
    <3>3. /\ SubSeq(buffer', 1, Remaining) = SubSeq(Body, BlockPlace(i) + 1, Total)
          /\ Send(SubSeq(buffer', 1, Remaining))
      BY <2>13, RestSent
    <3>4. WrittenByTeller = 1 + BlockPlace(i) /\ WrittenByTeller' = 1 + Total
      BY <3>1, <3>2, <1>2 DEF WrittenByTeller, BeforeTelling, NothingEnded
    <3>5. Written = head + 1 + BlockPlace(i) /\ Written' = head + 1 + Total /\ ~closed
      BY <3>1, <3>2, <3>4, <2>2, <2>3
    <3>6. BlockPlace(i) \in 0 .. Total /\ Total \in BlockPlace(i) .. Total
      BY <3>2, <2>2
    <3> QED
      BY <3>2, <3>3, <3>5, <3>6, <2>4
  <2>14. CASE Unlink
    <3>1. teller = "unlink" /\ teller' = "done" /\ UNCHANGED stream /\ server' # "down"
      BY <2>1, <2>14 DEF Unlink, network, InStep
    <3>2. WrittenByTeller' = WrittenByTeller
      BY <3>1, <1>2 DEF WrittenByTeller, NothingEnded, BeforeTelling
    <3> QED
      BY <3>1, <3>2, <2>6
  <2> QED
    BY <2>7, <2>8, <2>9, <2>10, <2>11, <2>12, <2>13, <2>14 DEF Teller
<1> QED
  BY <1>6, <1>7, <1>8

-----------------------------------------------------------------------------
(* The client reads on where it was.                                         *)

(* Where the client is after a step, in terms of its own variables.          *)
LEMMA ReaderAfter ==
    ASSUME UNCHANGED job
    PROVE  /\ SentencesRead' = Repeat - sentences'
           /\ client' = "n" => /\ ReadSoFar' = LinePlace(SentencesRead')
                               /\ CallsSoFar' = SentencesRead'
           /\ client' = "str" => /\ ReadSoFar' = LinePlace(SentencesRead') + 1
                                 /\ CallsSoFar' = SentencesRead'
           /\ client' = "characters" => ReadSoFar' = LinePlace(Repeat) /\ CallsSoFar' = Repeat
           /\ client' \in {"block", "rest"} =>
                 /\ ReadSoFar' = LinePlace(Repeat) + 1 + BlockPlace(k')
                 /\ CallsSoFar' = Repeat + k'
           /\ client' = "done" => ReadSoFar' = Len(Whole) /\ CallsSoFar' = Calls
<1>1. /\ Repeat' = Repeat /\ Whole' = Whole /\ Calls' = Calls
      /\ LinePlace(Repeat)' = LinePlace(Repeat)
  BY JobKept
<1>2. /\ LinePlace(SentencesRead)' = LinePlace(SentencesRead')
      /\ BlockPlace(k)' = BlockPlace(k')
  BY DEF LinePlace, BlockPlace
<1>3. SentencesRead' = Repeat - sentences'
  BY <1>1 DEF SentencesRead
<1> QED
  BY <1>1, <1>2, <1>3 DEF ReadSoFar, CallsSoFar

(* A read of a number takes the next cell, and prints nothing.               *)
LEMMA NumberRead ==
    ASSUME TypeInv, TellerWaited, InStep, Reading, AtNumber, ReadNumber
    PROVE  /\ Head(stream) = Whole[ReadSoFar + 1]
           /\ stream' = SubSeq(Whole, ReadSoFar + 1 + 1, Written)
           /\ ReadSoFar + 1 <= Written
<1>1. /\ ReadSoFar \in Nat /\ Written \in 0 .. Len(Whole) /\ Whole \in Seq(Cell) /\ Len(Whole) \in Nat
      /\ stream = SubSeq(Whole, ReadSoFar + 1, Written) /\ ReadSoFar <= Written
  BY NextCells, WrittenBound, WholeType, LenProperties, JobTyped DEF InStep, TypeInv
<1>2. ReadSoFar < Written
  <2>1. ReadSoFar = Written => stream = <<>>
    BY <1>1, SubSeqEmpty
  <2> QED
    BY <1>1, <2>1 DEF ReadNumber
<1>3. ReadSoFar + 1 \in 1 .. Len(Whole) /\ Written \in ReadSoFar + 1 .. Len(Whole)
  BY <1>1, <1>2
<1>4. Head(stream) = Whole[ReadSoFar + 1] /\ Tail(stream) = SubSeq(Whole, ReadSoFar + 1 + 1, Written)
  BY <1>1, <1>3, HeadTailOfSubSeq
<1> QED
  BY <1>3, <1>4 DEF ReadNumber

(* A read of a text takes and prints the next cells.                         *)
LEMMA TextRead ==
    ASSUME TypeInv, TellerWaited, InStep, Reading, ReadText(Wanted)
    PROVE  /\ printed' = Append(printed, UpToNul(SubSeq(Whole, ReadSoFar + 1, ReadSoFar + Wanted)))
           /\ SubSeq(Whole, ReadSoFar + 1, ReadSoFar + Wanted) \in Seq(Cell)
           /\ stream' = SubSeq(Whole, ReadSoFar + Wanted + 1, Written)
           /\ ReadSoFar + Wanted <= Written
<1>1. /\ ReadSoFar \in Nat /\ Wanted \in Nat \ {0}
      /\ Written \in 0 .. Len(Whole) /\ Whole \in Seq(Cell) /\ Len(Whole) \in Nat
      /\ stream = SubSeq(Whole, ReadSoFar + 1, Written) /\ ReadSoFar <= Written
  BY NextCells, WrittenBound, WholeType, LenProperties, JobTyped DEF InStep, TypeInv
<1>2. Written \in ReadSoFar .. Len(Whole)
  BY <1>1
<1>3. Len(stream) = Written - ReadSoFar
  BY <1>1, <1>2, PartCells
<1>4. ReadSoFar + Wanted <= Written
  <2>1. Len(stream) >= Wanted
    BY DEF ReadText
  <2> QED
    BY <1>1, <1>3, <2>1
<1>5. /\ SubSeq(stream, 1, Wanted) = SubSeq(Whole, ReadSoFar + 1, ReadSoFar + Wanted)
      /\ SubSeq(stream, Wanted + 1, Written - ReadSoFar) = SubSeq(Whole, ReadSoFar + Wanted + 1, Written)
  BY <1>1, <1>2, <1>4, PartOfPart
<1>6. SubSeq(Whole, ReadSoFar + 1, ReadSoFar + Wanted) \in Seq(Cell)
  BY <1>1, <1>4, PartCells
<1> QED
  BY <1>3, <1>4, <1>5, <1>6 DEF ReadText

(* The client's steps keep Ordered.                                          *)
LEMMA ClientOrdered ==
    ASSUME TypeInv, Ordered, Client
    PROVE  Ordered'
<1> DEFINE head == LinePlace(Repeat)
<1>1. UNCHANGED <<job, controller, told, teller, locals, closed, server, overtaken>>
  BY DEF Client, ReadSentences, ReadSize, ReadSentence, ReadCharacters, ReadBlock, ReadRest,
         ReadNumber, ReadText, FailAtEnd, FailOnGarbage, FailOnMissing, FailOnShortRead,
         server_side
<1>2. /\ Repeat' = Repeat /\ Whole' = Whole /\ Total' = Total /\ ending' = ending
      /\ teller' = teller /\ controller' = controller /\ server' = server /\ overtaken' = overtaken
  BY <1>1, JobKept
<1>3. Written' = Written
  <2>1. /\ LinePlace(told)' = LinePlace(told) /\ LinePlace(Repeat)' = LinePlace(Repeat)
        /\ BlockPlace(i)' = BlockPlace(i)
    BY <1>1, <1>2 DEF LinePlace, BlockPlace, locals
  <2> QED
    BY <1>2, <2>1 DEF Written, WrittenByController, WrittenByTeller, NothingEnded
<1> SUFFICES ASSUME ~overtaken
             PROVE  /\ TellerWaited' /\ PrintedRight'
                    /\ client' # "failed" => InStep'
                    /\ client' = "failed" => short' \/ Cut'
  BY <1>2 DEF Ordered
<1>4. TellerWaited' /\ TellerWaited
  BY <1>2 DEF Ordered, TellerWaited
<1>5. Reading
  BY DEF Client, ReadSentences, ReadSize, ReadSentence, ReadCharacters, ReadBlock, ReadRest,
         FailAtEnd, FailOnGarbage, FailOnMissing, FailOnShortRead, AtNumber, Reading
<1>6. /\ InStep /\ Asked /\ server # "down" /\ ReadSoFar <= Written
      /\ stream = SubSeq(Whole, ReadSoFar + 1, Written) /\ Len(printed) = CallsSoFar
      /\ PrintedRight
  BY <1>5 DEF Ordered, TypeInv, Roles, Reading, InStep
<1>7. /\ JobType /\ Len(Whole) = head + (IF ending = "polled" THEN 0 ELSE 1 + Total)
      /\ Whole \in Seq(Cell) /\ Total \in Nat /\ Body \in Seq(Cell) /\ Len(Body) = Total
      /\ (ending = "polled" => Total = 0)
      /\ Repeat \in Nat \ {0} /\ TextLen \in Nat \ {0} /\ Block \in Nat \ {0}
      /\ head \in Nat /\ LinePlace(0) = 1 /\ Calls \in Nat
  <2>1. JobType
    BY JobTyped DEF TypeInv
  <2>2. /\ Whole \in Seq(Cell) /\ Total \in Nat /\ Body \in Seq(Cell) /\ Len(Body) = Total
        /\ Len(Whole) = head + (IF ending = "polled" THEN 0 ELSE 1 + Total)
        /\ (ending = "polled" => Total = 0)
    BY <2>1, WholeType, BodyType
  <2>3. Calls \in Nat
    BY <2>1, Parts
  <2> QED
    BY <2>1, <2>2, <2>3, RepeatType, LinePlaces, SizesAssumption
<1> HIDE DEF head
<1>8. /\ ReadSoFar \in Nat /\ Wanted \in Nat \ {0} /\ ReadSoFar + Wanted <= Len(Whole)
      /\ (AtNumber => Wanted = 1 /\ Whole[ReadSoFar + 1].of = "number")
      /\ (ReadSoFar < Written => ReadSoFar + Wanted <= Written)
      /\ Written \in 0 .. Len(Whole) /\ Len(Whole) \in Nat
      /\ Len(stream) = Written - ReadSoFar /\ (stream # <<>> => ReadSoFar < Written)
  <2>1. /\ ReadSoFar \in Nat /\ Wanted \in Nat \ {0} /\ ReadSoFar + Wanted <= Len(Whole)
        /\ (AtNumber => Wanted = 1 /\ Whole[ReadSoFar + 1].of = "number")
        /\ (ReadSoFar < Written => ReadSoFar + Wanted <= Written)
    BY <1>4, <1>5, <1>6, NextCells
  <2>2. Written \in 0 .. Len(Whole) /\ Len(Whole) \in Nat
    BY <1>4, <1>7, WrittenBound, LenProperties
  <2>3. Written \in ReadSoFar .. Len(Whole)
    BY <1>6, <2>1, <2>2
  <2>4. Len(stream) = Written - ReadSoFar
    BY <1>6, <1>7, <2>1, <2>3, PartCells
  <2>5. ReadSoFar = Written => stream = <<>>
    BY <1>6, <2>1, SubSeqEmpty
  <2> QED
    BY <2>1, <2>2, <2>3, <2>4, <2>5
<1>numbers. /\ head \in Nat /\ Total \in Nat /\ Block \in Nat /\ TextLen \in Nat
            /\ Wanted \in Nat /\ Repeat \in Nat
            /\ (ending # "polled" => Len(Whole) = head + 1 + Total)
  BY <1>7, <1>8
(* What a read has to show.                                                  *)
<1>9. ASSUME stream' = SubSeq(Whole, ReadSoFar + Wanted + 1, Written),
             ReadSoFar + Wanted <= Written, ReadSoFar' = ReadSoFar + Wanted, Asked',
             Len(printed') = CallsSoFar'
      PROVE  InStep' /\ client' # "failed"
  BY <1>2, <1>3, <1>6, <1>9 DEF InStep, Asked
<1>10. ASSUME AtNumber, ReadNumber
       PROVE  /\ Head(stream) = Whole[ReadSoFar + 1] /\ Wanted = 1
              /\ stream' = SubSeq(Whole, ReadSoFar + Wanted + 1, Written)
              /\ ReadSoFar + Wanted <= Written
              /\ printed' = printed /\ PrintedRight'
  <2>1. printed' = printed
    BY <1>10 DEF ReadNumber
  <2>2. PrintedRight'
    BY <1>1, <1>6, <2>1, RightKept
  <2> QED
    BY <1>4, <1>5, <1>6, <1>8, <1>10, <2>1, <2>2, NumberRead
<1>11. ASSUME ReadText(Wanted), CallsSoFar \in Nat, CallsSoFar + 1 <= Calls,
              Part(CallsSoFar + 1) = SubSeq(Whole, ReadSoFar + 1, ReadSoFar + Wanted)
       PROVE  /\ stream' = SubSeq(Whole, ReadSoFar + Wanted + 1, Written)
              /\ ReadSoFar + Wanted <= Written
              /\ PrintedRight' /\ Len(printed') = CallsSoFar + 1
  <2> DEFINE part == SubSeq(Whole, ReadSoFar + 1, ReadSoFar + Wanted)
  <2>1. /\ printed' = Append(printed, UpToNul(part)) /\ part \in Seq(Cell)
        /\ stream' = SubSeq(Whole, ReadSoFar + Wanted + 1, Written)
        /\ ReadSoFar + Wanted <= Written
    BY <1>4, <1>5, <1>6, <1>11, TextRead
  <2>2. printed \in Seq(Seq(Cell)) /\ UNCHANGED job
    BY <1>1 DEF TypeInv, TypeOK
  <2>3. Part(CallsSoFar + 1) = part
    BY <1>11
  <2> HIDE DEF part
  <2>4. PrintedRight' /\ Len(printed') = CallsSoFar + 1
    BY <1>6, <1>11, <2>1, <2>2, <2>3, PrintKeeps
  <2> QED
    BY <2>1, <2>4
<1>12. ASSUME client \in {"n", "str"}
       PROVE  /\ SentencesRead \in 0 .. Repeat - 1 /\ sentences \in 1 .. Repeat
              /\ LinePlace(SentencesRead) \in Nat
              /\ LinePlace(SentencesRead + 1) = LinePlace(SentencesRead) + 1 + TextLen
  <2>1. sentences \in 1 .. Repeat
    BY <1>6, <1>7, <1>12 DEF TypeInv, TypeOK, Reads, Asked
  <2>2. SentencesRead \in 0 .. Repeat - 1
    BY <2>1, <1>7 DEF SentencesRead
  <2>3. SentencesRead \in Nat
    BY <2>2
  <2> QED
    BY <2>1, <2>2, <2>3, LinePlaces
<1>13. CASE ReadSentences
  <2>1. client = "sentences" /\ AtNumber /\ ReadNumber /\ short' = short
    BY <1>13 DEF ReadSentences, AtNumber, ReadNumber
  <2>2. ReadSoFar = 0 /\ CallsSoFar = 0
    BY <2>1 DEF ReadSoFar, CallsSoFar
  <2>3. Whole[1] = Number(Repeat) /\ Number(Repeat).val = Repeat
    BY <1>7, FirstCell, CellTypes
  <2>4. sentences' = Repeat /\ client' = "n"
    BY <1>7, <1>10, <1>13, <2>1, <2>2, <2>3 DEF ReadSentences
  <2>5. ReadSoFar' = 1 /\ CallsSoFar' = 0
    BY <1>1, <1>7, <2>4, ReaderAfter
  <2>6. Asked'
    BY <1>2, <1>7, <2>4 DEF Asked
  <2>7. Len(printed') = CallsSoFar' /\ ReadSoFar' = ReadSoFar + Wanted
    BY <1>6, <1>10, <2>1, <2>2, <2>5
  <2> QED
    BY <1>4, <1>9, <1>10, <2>1, <2>6, <2>7
<1>14. CASE ReadSize
  <2>1. client = "n" /\ AtNumber /\ ReadNumber /\ client' = "str" /\ sentences' = sentences
    BY <1>14 DEF ReadSize, AtNumber
  <2>2. ReadSoFar = LinePlace(SentencesRead) /\ CallsSoFar = SentencesRead
    BY <2>1 DEF ReadSoFar, CallsSoFar
  <2>3. Whole[LinePlace(SentencesRead) + 1] = Number(TextLen) /\ Number(TextLen).val = TextLen
    BY <1>7, <1>12, <2>1, LineCells, CellTypes
  <2>4. n' = TextLen
    BY <1>10, <1>14, <2>1, <2>2, <2>3 DEF ReadSize
  <2>5. SentencesRead' = SentencesRead
    BY <1>2, <2>1 DEF SentencesRead
  <2>6. ReadSoFar' = ReadSoFar + 1 /\ CallsSoFar' = CallsSoFar
    BY <1>1, <2>1, <2>2, <2>5, ReaderAfter
  <2>7. Asked'
    BY <1>2, <1>6, <2>1, <2>4 DEF Asked
  <2>8. Len(printed') = CallsSoFar' /\ ReadSoFar' = ReadSoFar + Wanted
    BY <1>6, <1>10, <2>1, <2>6
  <2> QED
    BY <1>4, <1>9, <1>10, <2>1, <2>7, <2>8
<1>15. CASE ReadSentence
  <2>1. /\ client = "str" /\ n = TextLen /\ Wanted = TextLen /\ ReadText(Wanted)
        /\ sentences' = sentences - 1
        /\ client' = IF sentences' > 0 THEN "n" ELSE AfterReadingSentences
    BY <1>6, <1>15 DEF ReadSentence, Wanted, Asked
  <2>2. ReadSoFar = LinePlace(SentencesRead) + 1 /\ CallsSoFar = SentencesRead
    BY <2>1 DEF ReadSoFar, CallsSoFar
  <2>3. SubSeq(Whole, ReadSoFar + 1, ReadSoFar + Wanted) = Sentence
    <3>1. /\ ReadSoFar + 1 = LinePlace(SentencesRead) + 2
          /\ ReadSoFar + Wanted = LinePlace(SentencesRead) + 1 + TextLen
      BY <1>7, <1>12, <2>1, <2>2
    <3> QED
      BY <3>1, <1>7, <1>12, <2>1, LineCells
  <2>4. SentencesRead' = SentencesRead + 1 /\ sentences' \in Nat /\ sentences' <= Repeat
        /\ (sentences' = 0 => SentencesRead + 1 = Repeat)
    <3>1. sentences \in 1 .. Repeat /\ sentences' = sentences - 1 /\ Repeat \in Nat
      BY <1>12, <1>numbers, <2>1
    <3>2. SentencesRead = Repeat - sentences /\ SentencesRead' = Repeat - sentences'
      BY <1>2 DEF SentencesRead
    <3> QED
      BY <3>1, <3>2
  <2>5. /\ ReadSoFar' = LinePlace(SentencesRead + 1)
        /\ CallsSoFar' = SentencesRead + 1 /\ client' # "failed"
        /\ (client' = "characters" => ending # "polled")
        /\ client' \in {"n", "characters", "done"}
    <3>1. CASE sentences' > 0
      BY <3>1, <1>1, <2>1, <2>4, ReaderAfter
    <3>2. CASE ~(sentences' > 0)
      <4>1. SentencesRead + 1 = Repeat /\ client' = AfterReadingSentences
        <5>1. sentences' = 0
          BY <3>2, <2>4
        <5> QED
          BY <3>2, <5>1, <2>1, <2>4
      <4>2. CASE ending = "polled"
        <5>1. client' = "done" /\ ReadSoFar' = Len(Whole) /\ CallsSoFar' = Calls
          BY <4>1, <4>2, <1>1, ReaderAfter DEF AfterReadingSentences
        <5>2. Len(Whole) = head /\ Calls = Repeat
          BY <4>2, <1>7, Parts
        <5> QED
          BY <4>1, <4>2, <5>1, <5>2 DEF head
      <4>3. CASE ending # "polled"
        <5>1. client' = "characters"
          BY <4>1, <4>3 DEF AfterReadingSentences
        <5> QED
          BY <4>1, <4>3, <5>1, <1>1, ReaderAfter
      <4> QED
        BY <4>2, <4>3
    <3> QED
      BY <3>1, <3>2
  <2>6. Asked'
    BY <1>2, <2>4, <2>5 DEF Asked
  <2>7. ReadSoFar' = ReadSoFar + Wanted
    BY <1>7, <1>12, <2>1, <2>2, <2>5
  <2>8. /\ CallsSoFar \in Nat /\ CallsSoFar + 1 <= Calls
        /\ Part(CallsSoFar + 1) = SubSeq(Whole, ReadSoFar + 1, ReadSoFar + Wanted)
    <3>1. SentencesRead \in Nat /\ SentencesRead + 1 \in 1 .. Repeat
      BY <1>12, <1>numbers, <2>1
    <3> QED
      BY <3>1, <1>7, <2>2, <2>3, Parts
  <2>9. PrintedRight' /\ Len(printed') = CallsSoFar'
        /\ stream' = SubSeq(Whole, ReadSoFar + Wanted + 1, Written) /\ ReadSoFar + Wanted <= Written
    BY <1>11, <2>1, <2>2, <2>5, <2>8
  <2> QED
    BY <1>4, <1>9, <2>6, <2>7, <2>9
<1>16. CASE ReadCharacters
  <2>1. client = "characters" /\ AtNumber /\ ReadNumber /\ ending # "polled" /\ k = 0 /\ k' = 0
    BY <1>6, <1>16 DEF ReadCharacters, AtNumber, Asked, TypeInv, Reads
  <2>2. ReadSoFar = head /\ CallsSoFar = Repeat
    BY <2>1 DEF ReadSoFar, CallsSoFar, head
  <2>3. Whole[head + 1] = Number(Total) /\ Number(Total).val = Total
    BY <1>7, <2>1, OutcomeCells, CellTypes DEF head
  <2>4. /\ characters' = Total
        /\ client' = IF Total >= Block THEN "block" ELSE IF Total > 0 THEN "rest" ELSE "done"
    <3>1. characters' = Total
      BY <1>10, <1>16, <2>1, <2>2, <2>3 DEF ReadCharacters
    <3> QED
      BY <1>16, <3>1 DEF ReadCharacters
  <2>5. /\ ReadSoFar' = head + 1 /\ CallsSoFar' = Repeat
    <3>1. CASE client' \in {"block", "rest"}
      <4>1. ReadSoFar' = head + 1 + 0 /\ CallsSoFar' = Repeat + 0
        BY <3>1, <1>1, <2>1, BlockPlaces, ReaderAfter DEF head
      <4> QED
        BY <4>1, <1>7
    <3>2. CASE client' = "done"
      <4>1. Total = 0
        BY <3>2, <2>4, <1>7
      <4>2. ReadSoFar' = Len(Whole) /\ CallsSoFar' = Calls
        BY <3>2, <1>1, ReaderAfter
      <4>3. Calls = Repeat
        BY <4>1, <1>7, Parts
      <4> QED
        BY <4>1, <4>2, <4>3, <1>7, <2>1
    <3> QED
      BY <3>1, <3>2, <2>4
  <2>6. Asked'
    <3>1. Total < Block => Total \div Block = 0 /\ Total % Block = Total
      BY <1>7, NoBlock
    <3>2. client' = "rest" => Total < Block /\ Total # 0
      BY <2>4, <1>7
    <3>3. client' \in {"block", "rest", "done"}
      BY <2>4
    <3> QED
      BY <3>1, <3>2, <3>3, <1>2, <2>1, <2>4 DEF Asked
  <2>7. Len(printed') = CallsSoFar' /\ ReadSoFar' = ReadSoFar + Wanted
    BY <1>6, <1>10, <2>1, <2>2, <2>5
  <2> QED
    BY <1>4, <1>9, <1>10, <2>1, <2>6, <2>7
(* A block or the rest.                                                      *)
<1>17. ASSUME client \in {"block", "rest"}
       PROVE  /\ ReadSoFar = head + 1 + BlockPlace(k) /\ CallsSoFar = Repeat + k
              /\ ending # "polled" /\ k \in Nat /\ CallsSoFar \in Nat /\ CallsSoFar + 1 = Repeat + k + 1
              /\ BlockPlace(k) \in Nat /\ BlockPlace(k + 1) = BlockPlace(k) + Block
              /\ SubSeq(Whole, ReadSoFar + 1, ReadSoFar + Wanted)
                 = SubSeq(Body, BlockPlace(k) + 1, BlockPlace(k) + Wanted)
  <2>1. /\ ReadSoFar = head + 1 + BlockPlace(k) /\ CallsSoFar = Repeat + k
        /\ ending # "polled" /\ k \in Nat
    BY <1>6, <1>17 DEF ReadSoFar, CallsSoFar, head, Asked, TypeInv, TypeOK
  <2>2. BlockPlace(k) \in Nat /\ BlockPlace(k + 1) = BlockPlace(k) + Block
    BY <2>1, BlockPlaces
  <2>3. BlockPlace(k) + Wanted <= Total
    <3>1. ReadSoFar + Wanted <= Len(Whole) /\ Len(Whole) = head + 1 + Total
      BY <1>8, <1>numbers, <2>1
    <3> QED
      BY <3>1, <1>numbers, <2>1, <2>2
  <2>4. BlockPlace(k) \in 0 .. Total /\ BlockPlace(k) + Wanted \in BlockPlace(k) .. Total
    BY <1>7, <1>8, <2>2, <2>3
  <2>5. SubSeq(Whole, head + 1 + BlockPlace(k) + 1, head + 1 + (BlockPlace(k) + Wanted))
        = SubSeq(Body, BlockPlace(k) + 1, BlockPlace(k) + Wanted)
    BY <1>7, <2>1, <2>4, OutcomeCells DEF head
  <2>6. ReadSoFar + Wanted = head + 1 + (BlockPlace(k) + Wanted)
    <3> DEFINE place == BlockPlace(k)
    <3>1. ReadSoFar = head + 1 + place /\ head \in Nat /\ place \in Nat /\ Wanted \in Nat
      BY <1>numbers, <2>1, <2>2
    <3> HIDE DEF place, head
    <3>2. ReadSoFar + Wanted = head + 1 + (place + Wanted)
      BY <3>1
    <3> QED
      BY <3>2 DEF place
  <2>7. SubSeq(Whole, ReadSoFar + 1, ReadSoFar + Wanted)
        = SubSeq(Body, BlockPlace(k) + 1, BlockPlace(k) + Wanted)
    BY <2>1, <2>5, <2>6
  <2>8. CallsSoFar \in Nat /\ CallsSoFar + 1 = Repeat + k + 1
    BY <1>numbers, <2>1
  <2> QED
    BY <2>1, <2>2, <2>7, <2>8
<1>18. CASE ReadBlock
  <2>1. /\ client = "block" /\ Wanted = Block /\ ReadText(Wanted) /\ k' = k + 1
        /\ characters' = characters /\ characters = Total /\ ending # "polled"
        /\ client' = (IF k' < Total \div Block THEN "block"
                      ELSE IF Total % Block # 0 THEN "rest" ELSE "done")
        /\ k \in Nat /\ k < Total \div Block
    BY <1>6, <1>18 DEF ReadBlock, Wanted, Asked, TypeInv, TypeOK, Reads
  <2>2. /\ ReadSoFar = head + 1 + BlockPlace(k) /\ CallsSoFar = Repeat + k
        /\ BlockPlace(k) \in Nat /\ BlockPlace(k + 1) = BlockPlace(k) + Block
    BY <2>1, <1>17
  <2>3. /\ Total \div Block \in Nat /\ Total % Block \in 0 .. Block - 1
        /\ Total = BlockPlace(Total \div Block) + (Total % Block)
    BY <1>7, Blocks
  <2>4. ReadSoFar' = ReadSoFar + Wanted /\ CallsSoFar' = CallsSoFar + 1
    <3>1. CASE client' \in {"block", "rest"}
      <4>1. ReadSoFar' = head + 1 + BlockPlace(k + 1) /\ CallsSoFar' = Repeat + (k + 1)
        BY <3>1, <1>1, <2>1, ReaderAfter DEF head
      <4> QED
        BY <4>1, <2>1, <2>2, <1>numbers
    <3>2. CASE client' = "done"
      <4>1. k + 1 = Total \div Block /\ Total % Block = 0
        BY <3>2, <2>1, <2>3
      <4>2. Total = BlockPlace(k) + Block
        <5>1. BlockPlace(k + 1) = BlockPlace(Total \div Block)
          BY <4>1
        <5>2. Total = BlockPlace(k + 1) + 0
          BY <4>1, <5>1, <2>3
        <5> QED
          BY <5>2, <2>2, <1>7
      <4>3. ReadSoFar' = Len(Whole) /\ CallsSoFar' = Calls
        BY <3>2, <1>1, ReaderAfter
      <4>4. Len(Whole) = head + 1 + Total /\ Wanted = Block
        BY <1>numbers, <2>1
      <4>5. Calls = Repeat + (k + 1)
        BY <4>1, <1>7, Parts
      <4> QED
        BY <4>2, <4>3, <4>4, <4>5, <2>1, <2>2, <1>numbers
    <3> QED
      BY <3>1, <3>2, <2>1
  <2>5. Asked'
    <3>1. client' = "rest" => k' = Total \div Block /\ Total % Block # 0
      <4>1. client' = "rest" => ~(k' < Total \div Block) /\ Total % Block # 0
        BY <2>1
      <4> QED
        BY <4>1, <2>1, <2>3
    <3>2. client' \in {"block", "rest", "done"}
      BY <2>1
    <3> QED
      BY <3>1, <3>2, <1>2, <2>1 DEF Asked
  <2>6. /\ CallsSoFar + 1 <= Calls
        /\ Part(CallsSoFar + 1) = SubSeq(Whole, ReadSoFar + 1, ReadSoFar + Wanted)
    <3>1. k \in 0 .. (Total \div Block) - 1
      BY <2>1, <2>3
    <3>2. /\ Repeat + k + 1 <= Calls
          /\ Part(Repeat + k + 1) = SubSeq(Body, BlockPlace(k) + 1, BlockPlace(k) + Block)
      BY <3>1, <1>7, Parts
    <3> QED
      BY <3>2, <1>17, <2>1
  <2>7. PrintedRight' /\ Len(printed') = CallsSoFar'
        /\ stream' = SubSeq(Whole, ReadSoFar + Wanted + 1, Written) /\ ReadSoFar + Wanted <= Written
    BY <1>11, <1>17, <2>1, <2>4, <2>6
  <2> QED
    BY <1>4, <1>9, <2>4, <2>5, <2>7
<1>19. CASE ReadRest
  <2>1. /\ client = "rest" /\ Wanted = Total % Block /\ ReadText(Wanted) /\ client' = "done"
        /\ ending # "polled" /\ k = Total \div Block /\ k \in Nat /\ Total % Block # 0
    BY <1>6, <1>19 DEF ReadRest, Wanted, Asked, TypeInv, TypeOK
  <2>2. /\ ReadSoFar = head + 1 + BlockPlace(k) /\ CallsSoFar = Repeat + k
        /\ BlockPlace(k) \in Nat /\ Total = BlockPlace(k) + Wanted
    BY <1>7, <1>17, <2>1, Blocks
  <2>3. ReadSoFar' = Len(Whole) /\ CallsSoFar' = Calls
    BY <1>1, <2>1, ReaderAfter
  <2>4. /\ Calls = Repeat + k + 1
        /\ Part(Repeat + k + 1) = SubSeq(Body, BlockPlace(k) + 1, Total)
    BY <1>7, <2>1, Parts
  <2>5. ReadSoFar' = ReadSoFar + Wanted /\ CallsSoFar' = CallsSoFar + 1
        /\ CallsSoFar + 1 = Repeat + k + 1 /\ CallsSoFar + 1 <= Calls
    <3>1. Len(Whole) = head + 1 + Total
      BY <1>numbers, <2>1
    <3>2. CallsSoFar + 1 = Repeat + k + 1 /\ Calls \in Nat
      BY <1>7, <1>17, <2>1
    <3>3. head \in Nat /\ Total \in Nat /\ Wanted \in Nat
      BY <1>numbers, <2>1
    <3>4. ReadSoFar' = head + 1 + Total
      BY <2>3, <3>1
    <3>5. head + 1 + Total = (head + 1 + BlockPlace(k)) + Wanted
      BY <2>2, <3>3
    <3>6. ReadSoFar' = ReadSoFar + Wanted
      BY <2>2, <3>4, <3>5
    <3>7. CallsSoFar' = CallsSoFar + 1
      BY <2>3, <2>4, <3>2
    <3> QED
      BY <2>4, <3>2, <3>6, <3>7
  <2>6. Asked'
    BY <2>1 DEF Asked
  <2>7. PrintedRight' /\ Len(printed') = CallsSoFar'
        /\ stream' = SubSeq(Whole, ReadSoFar + Wanted + 1, Written) /\ ReadSoFar + Wanted <= Written
    <3>1. Part(CallsSoFar + 1) = SubSeq(Whole, ReadSoFar + 1, ReadSoFar + Wanted)
      BY <1>17, <2>1, <2>2, <2>4, <2>5
    <3> QED
      BY <3>1, <1>11, <1>17, <2>1, <2>5
  <2> QED
    BY <1>4, <1>9, <2>5, <2>6, <2>7
(* Nothing is amiss in an answer in order.                                   *)
<1>20. CASE FailAtEnd
  <2>1. stream = <<>> /\ (closed \/ server = "ended") /\ client' = "failed"
        /\ short' = short /\ printed' = printed
    BY <1>6, <1>20 DEF FailAtEnd, EndOfFile, TypeInv, TypeOK
  <2>2. Written = ReadSoFar
    <3>1. Len(stream) = 0
      BY <2>1
    <3> QED
      BY <3>1, <1>6, <1>8
  <2>3. ~closed /\ ~Answered
    <3>1. closed \/ Answered => Written = Len(Whole)
      BY <1>4, WrittenPlaces
    <3> QED
      BY <3>1, <2>2, <1>8
  <2>4. Cut'
    BY <2>1, <2>3, <1>2 DEF Cut, Answered
  <2>5. PrintedRight'
    BY <1>1, <1>6, <2>1, RightKept
  <2> QED
    BY <1>4, <2>1, <2>4, <2>5
<1>21. ~FailOnGarbage
  <2>1. SUFFICES ASSUME AtNumber, stream # <<>>, Head(stream).of # "number"
                 PROVE  FALSE
    BY DEF FailOnGarbage
  <2>2. ReadSoFar + 1 \in 1 .. Len(Whole) /\ Written \in ReadSoFar + 1 .. Len(Whole)
    BY <2>1, <1>8
  <2>3. Head(stream) = Whole[ReadSoFar + 1]
    BY <2>2, <1>6, <1>7, HeadTailOfSubSeq
  <2> QED
    BY <2>1, <2>3, <1>8
<1>22. ~FailOnMissing
  BY <1>8 DEF FailOnMissing
<1>23. CASE FailOnShortRead
  <2>1. short' = TRUE /\ printed' = printed /\ client' = "failed"
    BY <1>23 DEF FailOnShortRead
  <2>2. PrintedRight'
    BY <1>1, <1>6, <2>1, RightKept
  <2> QED
    BY <2>1, <2>2, <1>4
<1> QED
  BY <1>13, <1>14, <1>15, <1>16, <1>18, <1>19, <1>20, <1>21, <1>22, <1>23 DEF Client

-----------------------------------------------------------------------------
(* Whoever else ends the server.                                             *)
LEMMA ExitKeeps ==
    ASSUME TypeInv, Ordered, ServerExits
    PROVE  TypeInv' /\ Ordered'
<1>1. /\ UNCHANGED <<job, controller, told, teller, locals, stream, closed, reader, overtaken, short>>
      /\ server = "up" /\ server' = "ended"
  BY DEF ServerExits
<1>2. /\ Repeat' = Repeat /\ Whole' = Whole /\ Total' = Total /\ ending' = ending
      /\ printed' = printed /\ client' = client
  BY <1>1, JobKept DEF reader
<1>3. TypeInv'
  <2>1. TypeOK'
    BY <1>1, <1>2 DEF TypeInv, TypeOK, job, locals, reader, Loops
  <2>2. Files'
    BY <1>1, FilesKept DEF TypeInv
  <2>3. Roles'
    BY <1>1, RolesKept DEF TypeInv, Roles, reader
  <2>4. Reads'
    BY <1>1 DEF TypeInv, Reads, reader
  <2> QED
    BY <2>1, <2>2, <2>3, <2>4 DEF TypeInv
<1>4. Written' = Written
  <2>1. /\ LinePlace(told)' = LinePlace(told) /\ LinePlace(Repeat)' = LinePlace(Repeat)
        /\ BlockPlace(i)' = BlockPlace(i)
    BY <1>1, <1>2 DEF LinePlace, BlockPlace, locals
  <2> QED
    BY <1>1, <1>2, <2>1 DEF Written, WrittenByController, WrittenByTeller, NothingEnded
<1>5. TellerWaited' = TellerWaited
  BY <1>1, <1>2 DEF TellerWaited
<1>6. InStep => InStep'
  BY <1>1, <1>4, QuietKeeps
<1>7. PrintedRight => PrintedRight'
  BY <1>1, <1>2, RightKept
<1>8. Ordered'
  BY <1>1, <1>2, <1>5, <1>6, <1>7 DEF Ordered, Cut
<1> QED
  BY <1>3, <1>8

-----------------------------------------------------------------------------
(* The invariant.                                                            *)

(* The invariant holds at the start, and no step breaks it.                  *)
LEMMA InitRight == Init => IInv
<1> SUFFICES ASSUME Init
             PROVE  IInv
  OBVIOUS
<1>1. JobType
  BY SizesAssumption DEF Init, JobType
<1>2. TypeOK
  <2>1. file \in Seq(Cell)
    BY <1>1, FileTypes DEF Init
  <2>2. buffer \in [1 .. Block -> Cell]
    BY CellTypes DEF Init
  <2>3. /\ Repeat \in Nat \ {0} /\ length \in Nat /\ leftover \in Nat /\ EndLen \in Nat
        /\ Block \in Nat \ {0} /\ count = 0 /\ characters = 0
    BY <1>1, RepeatType, SizesAssumption DEF Init, JobType
  <2>4. Loops \in Nat /\ characters \div Block \in Nat
    BY <2>3, Division DEF Loops
  <2>5. /\ told \in 0 .. Repeat /\ offset \in 0 .. length + leftover + EndLen
        /\ i \in 0 .. Loops /\ k \in 0 .. characters \div Block
    BY <2>3, <2>4 DEF Init
  <2>6. teller \in {"run", "append", "measure", "tell", "block", "rest", "size",
                    "notice", "close", "unlink", "return", "done"}
    BY DEF Init, Endings
  <2>7. length \in Lengths \cup {0} /\ leftover \in Leftovers \cup {0}
    BY DEF Init
  <2>8. stream \in Seq(Cell) /\ printed \in Seq(Seq(Cell)) /\ nuls \subseteq 1 .. length
    BY DEF Init
  <2> QED
    BY <2>1, <2>2, <2>5, <2>6, <2>7, <2>8 DEF Init, TypeOK
<1>3. Roles /\ Files /\ Reads
  BY DEF Init, Roles, Files, Reads, Endings, BeforeTelling
<1>4. Ordered
  <2>1. TellerWaited
    BY DEF Init, TellerWaited, BeforeTelling, Endings
  <2>2. Written = 0
    BY <1>2, <1>3, <2>1, WrittenPlaces DEF Init, TypeInv
  <2>3. ReadSoFar = 0 /\ CallsSoFar = 0
    BY DEF Init, ReadSoFar, CallsSoFar
  <2>4. stream = SubSeq(Whole, 0 + 1, 0) /\ Len(printed) = 0 /\ DOMAIN printed = {}
    BY SubSeqEmpty DEF Init
  <2>5. PrintedRight
    BY <2>4 DEF PrintedRight
  <2>6. InStep
    BY <2>2, <2>3, <2>4 DEF Init, InStep, Asked
  <2> QED
    BY <2>1, <2>5, <2>6 DEF Init, Ordered
<1> QED
  BY <1>2, <1>3, <1>4 DEF IInv, TypeInv

LEMMA NextRight == IInv /\ [Next]_vars => IInv'
<1> SUFFICES ASSUME IInv, [Next]_vars
             PROVE  IInv'
  OBVIOUS
<1>1. CASE Next
  BY <1>1, ControllerKeeps, ControllerOrdered, TellerKeeps, TellerOrdered,
     ClientKeeps, ClientOrdered, ExitKeeps DEF Next, IInv
<1>2. CASE UNCHANGED vars
  <2>1. UNCHANGED <<job, controller, told, teller, locals, network, reader, overtaken, short>>
    BY <1>2 DEF vars
  <2>2. /\ Repeat' = Repeat /\ Whole' = Whole /\ Total' = Total
        /\ ending' = ending /\ printed' = printed /\ client' = client /\ server' = server
    BY <2>1, JobKept DEF reader, network
  <2>3. TypeInv'
    <3>1. TypeOK'
      BY <2>1, <2>2 DEF IInv, TypeInv, TypeOK, job, locals, network, reader, Loops
    <3>2. Files'
      BY <2>1, FilesKept DEF IInv, TypeInv
    <3>3. Roles'
      BY <2>1, RolesKept DEF IInv, TypeInv, Roles, reader, network
    <3>4. Reads'
      BY <2>1 DEF IInv, TypeInv, Reads, reader
    <3> QED
      BY <3>1, <3>2, <3>3, <3>4 DEF TypeInv
  <2>4. Written' = Written
    <3>1. /\ LinePlace(told)' = LinePlace(told) /\ LinePlace(Repeat)' = LinePlace(Repeat)
          /\ BlockPlace(i)' = BlockPlace(i)
      BY <2>1, <2>2 DEF LinePlace, BlockPlace, locals
    <3> QED
      BY <2>1, <2>2, <3>1 DEF Written, WrittenByController, WrittenByTeller, NothingEnded
  <2>5. TellerWaited' = TellerWaited
    BY <2>1, <2>2 DEF TellerWaited
  <2>6. InStep => InStep'
    BY <2>1, <2>2, <2>4, QuietKeeps DEF network, InStep
  <2>7. PrintedRight => PrintedRight'
    BY <2>1, <2>2, RightKept
  <2>8. Ordered'
    BY <2>1, <2>2, <2>5, <2>6, <2>7 DEF IInv, Ordered, Cut, Answered
  <2> QED
    BY <2>3, <2>8 DEF IInv
<1> QED
  BY <1>1, <1>2

(* The invariant holds of every execution.                                   *)
THEOREM Invariant == Spec => []IInv
BY InitRight, NextRight, PTL DEF Spec

(* The variables of a connection keep their types, whoever overtakes whom,   *)
(* and whatever the client takes for a number: no index leaves the buffer,   *)
(* no offset the file, and no count of blocks its bound.                     *)
THEOREM TypeCorrect == Spec => []TypeOK
<1>1. IInv => TypeOK
  BY DEF IInv, TypeInv
<1> QED
  BY <1>1, Invariant, PTL

(* What is told of the job is what the client was promised, when no longer   *)
(* file was left behind.                                                     *)
LEMMA BodyIsPromised ==
    ASSUME JobType, leftover <= length
    PROVE  Body = PromisedBody
<1>1. CASE ending = "output"
  <2>1. Start \in Seq(Cell) /\ Output \in Seq(Cell) /\ End \in Seq(Cell)
    BY TextTypes, OutputType DEF JobType
  <2>2. SubSeq(Text("old", leftover), length + 1, leftover) = <<>>
    BY SubSeqEmpty DEF JobType
  <2>3. JobsFile = Output
    BY <2>1, <2>2, ConcatEmptySeq DEF JobsFile
  <2>4. Body = Start \o (Output \o End)
    BY <1>1, <2>3 DEF Body, FinalFile
  <2>5. PromisedBody = (Start \o Output) \o End
    BY <1>1 DEF PromisedBody
  <2>6. (Start \o Output) \o End = Start \o (Output \o End)
    <3> DEFINE cells  == Seq(Cell)
    <3>1. \A s, t, u \in cells : (s \o t) \o u = s \o (t \o u)
      OBVIOUS
    <3>2. Start \in cells /\ Output \in cells /\ End \in cells
      BY <2>1
    <3> HIDE DEF cells
    <3> QED
      BY <3>1, <3>2, Zenon
  <2> QED
    BY <2>4, <2>5, <2>6
<1>2. CASE ending = "removed"
  BY <1>2 DEF Body, PromisedBody
<1>3. CASE ending \in {"polled", "refused", "abandoned"}
  BY <1>3 DEF Body, PromisedBody
<1> QED
  BY <1>1, <1>2, <1>3 DEF JobType, Endings

(* As long as whoever ends the job begins after the controller is done, each *)
(* printf of a client writes its portion of the promised answer as far as    *)
(* the first NUL in it, no portion is wrong, missing or doubled, and a       *)
(* client that ends well has written all of them: for any size of the        *)
(* output, of the blocks and of the markers, NUL bytes at any places of the  *)
(* output, any number of sentences, any room in the socket, and a server     *)
(* that may end at any time.                                                 *)
THEOREM EveryByteInItsPlace == Spec => []PrintsTheAnswer
<1>1. IInv => PrintsTheAnswer
  <2> SUFFICES ASSUME IInv, ~overtaken, leftover <= length
               PROVE  /\ \A j \in DOMAIN printed :
                            j <= Portions /\ printed[j] = UpToNul(Portion(j))
                      /\ client = "done" => Len(printed) = Portions
    BY DEF PrintsTheAnswer
  <2>1. JobType
    BY JobTyped DEF IInv, TypeInv
  <2>2. Body = PromisedBody
    BY <2>1, BodyIsPromised
  <2>3. Calls = Portions /\ \A j : Part(j) = Portion(j)
    BY <2>2 DEF Calls, Portions, Total, Part, Portion
  <2>4. PrintedRight
    BY DEF IInv, Ordered
  <2>5. ASSUME client = "done"
        PROVE  Len(printed) = Calls
    BY <2>5 DEF IInv, Ordered, InStep, CallsSoFar
  <2> QED
    BY <2>3, <2>4, <2>5 DEF PrintedRight
<1> QED
  BY <1>1, Invariant, PTL

(* A client that is answered in order gives up only after a short read, or   *)
(* when the server ended before its answer: it never meets a text where it   *)
(* wants a number or fewer cells than a block, and it meets the end of the   *)
(* stream before the end of the answer only when the answer was never sent.  *)
THEOREM GivesUpForCause == Spec => []FailsForCause
<1>1. IInv => FailsForCause
  BY DEF IInv, Ordered, Cut, FailsForCause
<1> QED
  BY <1>1, Invariant, PTL

(* A server that answers in order is brought down only by a client that left *)
(* after a short read: it never writes to a descriptor that is closed, or to *)
(* a client that has gone and left cells unread.                             *)
THEOREM DownForCause == Spec => []ServerFallsForCause
<1>1. IInv => ServerFallsForCause
  BY DEF IInv, Ordered, Cut, InStep, ServerFallsForCause
<1> QED
  BY <1>1, Invariant, PTL
=============================================================================
