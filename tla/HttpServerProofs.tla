--------------------------- MODULE HttpServerProofs ---------------------------
(***************************************************************************)
(* Proofs about module HttpServer: types, and who is answered, for any     *)
(* number of connections and requests and bodies of any length.            *)
(***************************************************************************)
EXTENDS HttpServer, FiniteSetTheorems, WellFoundedInduction, TLAPS

\* A set of natural numbers that is not empty has a least element.
LEMMA LeastNatural ==
  ASSUME NEW S \in SUBSET Nat, S # {}
  PROVE  \E i \in S : \A j \in S : i <= j
<1>1. PICK i \in S : \A j \in S : <<j, i>> \notin OpToRel(<, Nat)
  BY NatLessThanWellFounded, WFMin
<1>2. ASSUME NEW j \in S PROVE ~ (j < i)
  BY <1>1, Zenon DEF OpToRel
<1> QED
  BY <1>2

\* A thread that runs has been given a descriptor.
FdsKnown ==
    \A c \in Conns : /\ thread[c].pc # "none" => slot \in Fds
                     /\ thread[c].pc \notin {"none", "start"} => thread[c].fd \in Fds

\* No connection has two descriptors, and those that have one are accepted.
FilesApart ==
    \A f \in Fds : file[f] # Free
       => /\ thread[file[f]].pc # "none"
          /\ \A g \in Fds : file[f] = file[g] => f = g

\* Until a thread starts late, each works on its own connection,
OwnFiles == ~ late => \A c \in Conns : thread[c].pc \in {"read", "answered"}
                                       => file[thread[c].fd] = c

\* has bytes of no other, and none only if there is no line of a header,
OwnBytes ==
    ~ late => \A c \in Conns :
       /\ thread[c].from \subseteq {c}
       /\ thread[c].from = {} => /\ thread[c].reader.buf = 0
                                 /\ ~ thread[c].reader.routed
                                 /\ thread[c].reader.phase \in {"header", "done"}

\* and is the only one to answer it.
OwnAnswers ==
    ~ late => \A c \in Conns :
       /\ answers[c] # {} => thread[c].pc \in {"answered", "end"}
       /\ \A a, b \in answers[c] : a.from = {c} /\ a = b

Own == FdsKnown /\ FilesApart /\ OwnFiles /\ OwnBytes /\ OwnAnswers

Inv == TypeOK /\ Own

-----------------------------------------------------------------------------
(* Numbers and readers.                                                     *)

\* The smaller of two numbers is one of them and at most both.
LEMMA MinOfTwo ==
  ASSUME NEW a \in Int, NEW b \in Int
  PROVE  Min({a, b}) \in {a, b} /\ Min({a, b}) <= a /\ Min({a, b}) <= b
<1>1. \E x \in {a, b} : \A y \in {a, b} : x <= y
  <2>1. CASE a <= b
    BY <2>1
  <2>2. CASE ~ (a <= b)
    BY <2>2
  <2> QED
    BY <2>1, <2>2
<1> DEFINE m == CHOOSE x \in {a, b} : \A y \in {a, b} : x <= y
<1>2. m \in {a, b} /\ \A y \in {a, b} : m <= y
  <2> DEFINE P(x) == x \in {a, b} /\ \A y \in {a, b} : x <= y
  <2>1. \E x : P(x)
    BY <1>1
  <2>2. P(CHOOSE x : P(x))
    <3> HIDE DEF P
    <3> QED
      BY <2>1
  <2>3. m = CHOOSE x : P(x)
    OBVIOUS
  <2> QED
    BY <2>2, <2>3
<1>3. Min({a, b}) = m
  BY DEF Min
<1> HIDE DEF m
<1> QED
  BY <1>2, <1>3

\* What readBulk leaves is a reader.
LEMMA ReadBulkType ==
  ASSUME NEW size \in Nat, NEW buf \in Nat
  PROVE  ReadBulk(size, buf) \in Readers
<1>1. CASE LoopsOn(size, buf)
  BY <1>1 DEF ReadBulk, Wants, Readers, Phases
<1>2. CASE ~ LoopsOn(size, buf) /\ size > buf
  BY <1>2 DEF ReadBulk, Wants, Readers, Phases
<1>3. CASE ~ LoopsOn(size, buf) /\ ~ (size > buf)
  <2>1. buf - size \in Nat
    BY <1>3
  <2> QED
    BY <1>3, <2>1 DEF ReadBulk, Done, Readers, Phases
<1> QED
  BY <1>1, <1>2, <1>3

\* So is what is left of a header that is cut,
LEMMA CutHeaderType ==
  ASSUME NEW r \in Readers, NEW announced \in Nat \cup {NoLength}
  PROVE  CutHeader(r, announced) \in Readers
<1>1. r.buf \in Nat /\ FirstLine \in Nat /\ LengthLine \in Nat
  BY LoadAssumption DEF Readers
<1>2. ASSUME NEW size \in Nat \cup {NoLength}, NEW buf \in Nat
      PROVE  ReadData(size, buf) \in Readers
  <2>1. CASE size = NoLength
    BY <2>1 DEF ReadData, Done, Readers, Phases
  <2>2. CASE size # NoLength
    BY <2>2, ReadBulkType DEF ReadData
  <2> QED
    BY <2>1, <2>2
<1>3. CASE r.buf >= LengthLine
  <2>1. r.buf - LengthLine \in Nat
    BY <1>1, <1>3
  <2> QED
    BY <1>2, <1>3, <2>1 DEF CutHeader
<1>4. CASE ~ (r.buf >= LengthLine) /\ r.buf >= FirstLine
  <2>1. r.buf - FirstLine \in Nat
    BY <1>1, <1>4
  <2> QED
    BY <1>2, <1>4, <2>1 DEF CutHeader
<1>5. CASE ~ (r.buf >= LengthLine) /\ ~ (r.buf >= FirstLine)
  BY <1>5 DEF CutHeader, Readers, Phases
<1> QED
  BY <1>3, <1>4, <1>5

\* and what fillBuffer leaves.
LEMMA FilledType ==
  ASSUME NEW r \in Readers, r.phase # "done", NEW n \in Nat,
         NEW announced \in Nat \cup {NoLength}
  PROVE  Filled(r, announced, n) \in Readers
<1> DEFINE buf == r.buf + n
<1>1. buf \in Nat /\ r.size \in Nat /\ r.phase \in {"header", "loop", "rest"}
  BY DEF Readers, Phases
<1>2. CASE r.phase = "header" /\ buf >= Header
  <2>1. Filled(r, announced, n) = ReadData(announced, buf - Header)
    <3>1. ~ (buf < Header)
      BY <1>1, <1>2, LoadAssumption
    <3> QED
      BY <1>2, <3>1 DEF Filled
  <2>2. buf - Header \in Nat
    BY <1>1, <1>2, LoadAssumption
  <2>3. CASE announced = NoLength
    BY <2>1, <2>2, <2>3 DEF ReadData, Done, Readers, Phases
  <2>4. CASE announced # NoLength
    <3>1. ReadData(announced, buf - Header) = ReadBulk(announced, buf - Header)
      BY <2>4 DEF ReadData
    <3> QED
      BY <2>1, <2>2, <2>4, <3>1, ReadBulkType
  <2> QED
    BY <2>3, <2>4
<1>3. CASE r.phase = "header" /\ buf < Header
  <2>1. Filled(r, announced, n) = IF n = 0 THEN CutHeader(r, announced)
                                           ELSE [r EXCEPT !.buf = buf]
    <3>1. ~ (buf >= Header)
      BY <1>1, <1>3, LoadAssumption
    <3> QED
      BY <1>3, <3>1 DEF Filled
  <2>2. [r EXCEPT !.buf = buf] \in Readers
    BY <1>1 DEF Readers, Phases
  <2> QED
    BY <2>1, <2>2, CutHeaderType
<1>4. CASE r.phase = "loop"
  <2>1. Filled(r, announced, n) = ReadBulk(r.size, buf)
    BY <1>4 DEF Filled
  <2> QED
    BY <1>1, <2>1, ReadBulkType
<1>5. CASE r.phase = "rest"
  <2>1. Filled(r, announced, n) = Done(r.size, 0, buf)
    BY <1>5 DEF Filled
  <2> QED
    BY <1>1, <2>1 DEF Done, Readers, Phases
<1>6. buf >= Header \/ buf < Header
  BY <1>1, LoadAssumption
<1> QED
  BY <1>1, <1>2, <1>3, <1>4, <1>5, <1>6

\* At the end of the stream a reader without a byte gives up.
LEMMA NothingFilled ==
  ASSUME NEW r \in Readers, r.phase = "header", r.buf = 0, NEW announced
  PROVE  Filled(r, announced, 0) = [r EXCEPT !.phase = "done"]
<1>1. r.buf + 0 = 0 /\ ~ (0 >= Header) /\ 0 < Header
  BY LoadAssumption
<1>2. ~ (0 >= LengthLine) /\ ~ (0 >= FirstLine)
  BY LoadAssumption
<1>3. Filled(r, announced, 0) = CutHeader(r, announced)
  BY <1>1 DEF Filled
<1> QED
  BY <1>2, <1>3 DEF CutHeader

-----------------------------------------------------------------------------
(* The steps.                                                               *)

\* A thread and its parts.
LEMMA ThreadType ==
  ASSUME TypeOK, NEW c \in Conns
  PROVE  /\ thread[c] \in Threads /\ thread[c].reader \in Readers
         /\ thread[c].from \subseteq Conns
         /\ thread[c].pc \in {"none", "start", "read", "answered", "end"}
  BY DEF TypeOK, Threads

\* accept finds a free descriptor: a connection not yet accepted has none, so
\* they cannot all be in use.
LEMMA SomeFree ==
  ASSUME Inv, NEW c \in Conns, thread[c].pc = "none"
  PROVE  \E fd \in Fds : file[fd] = Free /\ \A g \in Fds : file[g] = Free => fd <= g
<1>1. \E fd \in Fds : file[fd] = Free
  <2> SUFFICES ASSUME \A fd \in Fds : file[fd] # Free
               PROVE  FALSE
    OBVIOUS
  <2>1. file \in [Fds -> Conns \ {c}]
    BY DEF Inv, TypeOK, Own, FilesApart
  <2>2. Cardinality(Conns) \in Nat /\ IsFiniteSet(Conns)
    BY ConnsAssumption, FS_CardinalityType
  <2>3. IsFiniteSet(Fds) /\ Cardinality(Fds) = Cardinality(Conns)
    <3>1. 1 \in Int /\ Cardinality(Conns) \in Int
      BY <2>2
    <3>2. /\ IsFiniteSet(1 .. Cardinality(Conns))
          /\ Cardinality(1 .. Cardinality(Conns))
             = IF 1 > Cardinality(Conns) THEN 0 ELSE Cardinality(Conns) - 1 + 1
      BY <3>1, FS_Interval, Zenon
    <3> QED
      BY <2>2, <3>2 DEF Fds
  <2>4. IsFiniteSet(Conns \ {c}) /\ Cardinality(Conns \ {c}) = Cardinality(Conns) - 1
    BY <2>2, FS_RemoveElement
  <2>5. Cardinality(Conns \ {c}) < Cardinality(Fds)
    <3> DEFINE n == Cardinality(Conns)
    <3>1. n \in Nat /\ Cardinality(Fds) = n /\ Cardinality(Conns \ {c}) = n - 1
      BY <2>2, <2>3, <2>4
    <3> HIDE DEF n
    <3> QED
      BY <3>1
  <2>6. PICK f \in Fds, g \in Fds : f # g /\ file[f] = file[g]
    BY <2>1, <2>3, <2>4, <2>5, FS_PigeonHole
  <2> QED
    BY <2>6 DEF Inv, Own, FilesApart
<1> DEFINE free == {fd \in Fds : file[fd] = Free}
<1>2. free \in SUBSET Nat /\ free # {}
  BY <1>1 DEF Fds
<1>3. \E fd \in free : \A g \in free : fd <= g
  <2> HIDE DEF free
  <2> QED
    BY <1>2, LeastNatural
<1> QED
  BY <1>3

\* A connection is accepted on a descriptor nobody works on.
LEMMA AcceptKeepsInv ==
  ASSUME Inv, NEW c \in Conns, Accept(c)
  PROVE  Inv'
<1> DEFINE P(fd) == fd \in Fds /\ file[fd] = Free
                    /\ \A g \in Fds : file[g] = Free => fd <= g
           new == CHOOSE fd \in Fds : file[fd] = Free
                                      /\ \A g \in Fds : file[g] = Free => fd <= g
<1>1. thread[c].pc = "none" /\ thread[c] \in Threads
  BY ThreadType DEF Accept, Inv
<1>2. new \in Fds /\ file[new] = Free
  <2>1. \E fd : P(fd)
    BY <1>1, SomeFree
  <2>2. P(CHOOSE fd : P(fd))
    <3> HIDE DEF P
    <3> QED
      BY <2>1
  <2>3. new = CHOOSE fd : P(fd)
    OBVIOUS
  <2> QED
    BY <2>2, <2>3
<1>3. file' = [file EXCEPT ![new] = c] /\ slot' = new
      /\ thread' = [thread EXCEPT ![c].pc = "start"]
      /\ UNCHANGED <<client, unread, answers, late, short>>
  BY DEF Accept
<1> HIDE DEF new
<1>4. thread'[c] = [thread[c] EXCEPT !.pc = "start"]
      /\ thread' \in [Conns -> Threads]
      /\ \A r \in Conns \ {c} : thread'[r] = thread[r]
  BY <1>1, <1>3 DEF Inv, TypeOK, Threads
<1>5. thread'[c].pc = "start" /\ thread'[c].from = thread[c].from
      /\ thread'[c].reader = thread[c].reader
  BY <1>1, <1>4 DEF Threads
<1>6. file'[new] = c /\ \A f \in Fds \ {new} : file'[f] = file[f]
  BY <1>2, <1>3 DEF Inv, TypeOK
<1>7. TypeOK'
  BY <1>2, <1>3, <1>4 DEF Inv, TypeOK
<1>8. FdsKnown'
  BY <1>2, <1>3, <1>4, <1>5 DEF Inv, Own, FdsKnown
<1>9. FilesApart'
  <2>1. \A f \in Fds : file[f] # Free => file[f] \in Conns \ {c}
    BY <1>1 DEF Inv, TypeOK, Own, FilesApart
  <2>2. ASSUME NEW f \in Fds, file'[f] # Free
        PROVE  /\ thread'[file'[f]].pc # "none"
               /\ \A g \in Fds : file'[f] = file'[g] => f = g
    <3>1. CASE f = new
      BY <1>5, <1>6, <2>1, <3>1, ConnsAssumption
    <3>2. CASE f # new
      <4>1. file'[f] = file[f] /\ file[f] \in Conns \ {c}
        BY <1>6, <2>1, <2>2, <3>2
      <4> QED
        BY <1>4, <1>6, <4>1, ConnsAssumption DEF Inv, Own, FilesApart
    <3> QED
      BY <3>1, <3>2
  <2> QED
    BY <2>2 DEF FilesApart, Fds
<1>10. OwnFiles'
  <2>1. ASSUME ~ late, NEW r \in Conns, thread'[r].pc \in {"read", "answered"}
        PROVE  file'[thread'[r].fd] = r
    <3>1. r # c /\ thread'[r] = thread[r]
      BY <1>4, <1>5, <2>1
    <3>2. file[thread[r].fd] = r /\ thread[r].fd \in Fds
      BY <2>1, <3>1 DEF Inv, Own, OwnFiles, FdsKnown
    <3>3. thread[r].fd # new
      BY <1>2, <2>1, <3>2, ConnsAssumption
    <3> QED
      BY <1>6, <3>1, <3>2, <3>3
  <2> QED
    BY <1>3, <2>1 DEF OwnFiles
<1>11. OwnBytes'
  BY <1>3, <1>4, <1>5 DEF Inv, Own, OwnBytes
<1>12. OwnAnswers'
  BY <1>1, <1>3, <1>4 DEF Inv, Own, OwnAnswers
<1> QED
  BY <1>7, <1>8, <1>9, <1>10, <1>11, <1>12 DEF Inv, Own

\* A thread that starts in time finds its own connection.
LEMMA StartKeepsInv ==
  ASSUME Inv, NEW c \in Conns, Start(c)
  PROVE  Inv'
<1>1. thread[c].pc = "start" /\ thread[c] \in Threads /\ slot \in Fds
  BY ThreadType DEF Start, Inv, Own, FdsKnown
<1>2. thread' = [thread EXCEPT ![c].pc = "read", ![c].fd = slot]
      /\ late' = (late \/ file[slot] # c)
      /\ UNCHANGED <<client, unread, file, slot, answers, short>>
  BY DEF Start
<1>3. /\ thread'[c] = [thread[c] EXCEPT !.pc = "read", !.fd = slot]
      /\ thread'[c] \in Threads
      /\ \A r \in Conns \ {c} : thread'[r] = thread[r]
  BY <1>1, <1>2 DEF Inv, TypeOK, Threads
<1>4. thread'[c].pc = "read" /\ thread'[c].fd = slot
      /\ thread'[c].from = thread[c].from /\ thread'[c].reader = thread[c].reader
  BY <1>1, <1>3 DEF Threads
<1>5. TypeOK'
  <2>1. thread' \in [Conns -> Threads]
    BY <1>1, <1>2, <1>3 DEF Inv, TypeOK
  <2> QED
    BY <1>2, <2>1 DEF Inv, TypeOK
<1>6. FdsKnown' /\ FilesApart'
  <2>1. \A r \in Conns : thread'[r].pc = "none" => thread[r].pc = "none"
    BY <1>3, <1>4
  <2>2. \A f \in Fds : file[f] # Free => file[f] \in Conns
    BY DEF Inv, TypeOK
  <2>3. FdsKnown'
    BY <1>1, <1>2, <1>3, <1>4 DEF Inv, Own, FdsKnown
  <2>4. FilesApart'
    BY <1>2, <2>1, <2>2 DEF Inv, Own, FilesApart, Fds
  <2> QED
    BY <2>3, <2>4
<1>7. OwnFiles'
  <2>1. late' = FALSE => late = FALSE /\ file[slot] = c
    BY <1>2 DEF Inv, TypeOK
  <2>2. late' \in BOOLEAN
    BY <1>5 DEF TypeOK
  <2>3. ASSUME late' = FALSE, NEW r \in Conns, thread'[r].pc \in {"read", "answered"}
        PROVE  file'[thread'[r].fd] = r
    <3>1. CASE r = c
      BY <1>2, <1>4, <2>1, <2>3, <3>1
    <3>2. CASE r # c
      BY <1>2, <1>3, <2>1, <2>3, <3>2 DEF Inv, Own, OwnFiles
    <3> QED
      BY <3>1, <3>2
  <2> QED
    BY <2>2, <2>3 DEF OwnFiles
<1>8. OwnBytes'
  <2>1. ~ late' => ~ late
    BY <1>2
  <2>2. \A r \in Conns : /\ thread'[r].from = thread[r].from
                         /\ thread'[r].reader = thread[r].reader
    BY <1>3, <1>4
  <2> QED
    BY <2>1, <2>2 DEF Inv, Own, OwnBytes
<1>9. OwnAnswers'
  BY <1>1, <1>2, <1>3 DEF Inv, Own, OwnAnswers
<1> QED
  BY <1>5, <1>6, <1>7, <1>8, <1>9 DEF Inv, Own

\* What a thread reads is its own affair, as long as it keeps to its connection.
LEMMA BytesKeepInv ==
  ASSUME Inv, NEW c \in Conns, thread[c].pc = "read",
         NEW reader \in Readers, NEW from \in SUBSET Conns,
         thread' = [thread EXCEPT ![c] = [thread[c] EXCEPT !.reader = reader, !.from = from]],
         UNCHANGED <<client, file, slot, answers, late>>,
         unread' \in [Conns -> Nat], short' \in SUBSET Conns,
         ~ late => from \subseteq {c},
         ~ late /\ from = {} => /\ reader.buf = 0 /\ ~ reader.routed
                                /\ reader.phase \in {"header", "done"}
  PROVE  Inv'
<1>1. thread[c] \in Threads
  BY ThreadType DEF Inv
<1>2. /\ thread'[c] = [thread[c] EXCEPT !.reader = reader, !.from = from]
      /\ thread'[c] \in Threads
      /\ \A r \in Conns \ {c} : thread'[r] = thread[r]
  BY <1>1 DEF Inv, TypeOK, Threads
<1>3. /\ thread'[c].pc = "read" /\ thread'[c].fd = thread[c].fd
      /\ thread'[c].from = from /\ thread'[c].reader = reader
  <2>1. /\ [thread[c] EXCEPT !.reader = reader, !.from = from].pc = thread[c].pc
        /\ [thread[c] EXCEPT !.reader = reader, !.from = from].fd = thread[c].fd
    BY <1>1 DEF Threads
  <2>2. /\ [thread[c] EXCEPT !.reader = reader, !.from = from].from = from
        /\ [thread[c] EXCEPT !.reader = reader, !.from = from].reader = reader
    BY <1>1 DEF Threads
  <2> QED
    BY <1>2, <2>1, <2>2, Zenon
<1>4. TypeOK'
  <2>1. thread' \in [Conns -> Threads]
    BY <1>2 DEF Inv, TypeOK
  <2> QED
    BY <2>1 DEF Inv, TypeOK
<1>5. FdsKnown'
  BY <1>2, <1>3 DEF Inv, Own, FdsKnown
<1>6. FilesApart'
  <2>1. \A f \in Fds : file[f] # Free => file[f] \in Conns
    BY DEF Inv, TypeOK
  <2>2. \A r \in Conns : thread'[r].pc = thread[r].pc
    BY <1>2, <1>3
  <2> QED
    BY <2>1, <2>2 DEF Inv, Own, FilesApart, Fds
<1>7. OwnFiles'
  BY <1>2, <1>3 DEF Inv, Own, OwnFiles
<1>8. OwnBytes'
  BY <1>2, <1>3 DEF Inv, Own, OwnBytes
<1>9. OwnAnswers'
  BY <1>2, <1>3 DEF Inv, Own, OwnAnswers
<1> QED
  BY <1>4, <1>5, <1>6, <1>7, <1>8, <1>9 DEF Inv, Own

\* A thread that receives gets bytes of the connection behind its descriptor.
LEMMA ReceiveKeepsInv ==
  ASSUME Inv, NEW c \in Conns, thread[c].pc = "read", thread[c].reader.phase # "done",
         NEW k \in Conns, k = file[thread[c].fd], NEW n \in Nat, Receive(c, k, n)
  PROVE  Inv'
<1> DEFINE r == thread[c].reader
           most == Min({Asked(r), unread[k]})
           reader == Filled(r, client[k].size, n)
           from == thread[c].from \cup {k}
<1>1. /\ n \in 1 .. most
      /\ unread' = [unread EXCEPT ![k] = @ - n]
      /\ thread' = [thread EXCEPT ![c].reader = reader, ![c].from = @ \cup {k}]
      /\ short' = IF n < most THEN short \cup {k} ELSE short
      /\ UNCHANGED <<client, file, slot, answers, late>>
  BY DEF Receive
<1>2. thread[c] \in Threads /\ r \in Readers /\ thread[c].from \subseteq Conns
  BY ThreadType DEF Inv
<1>3. client[k].size \in Nat \cup {NoLength}
  BY SizesAssumption DEF Inv, TypeOK, Clients
<1>4. reader \in Readers
  BY <1>2, <1>3, FilledType
<1>5. unread[k] \in Nat /\ unread[k] - n \in Nat
  <2>1. Asked(r) \in Int /\ unread[k] \in Nat
    BY <1>2, LoadAssumption DEF Asked, Readers, Inv, TypeOK
  <2>2. most \in Int /\ most <= unread[k]
    <3>1. \A a, b \in Int : Min({a, b}) \in {a, b} /\ Min({a, b}) <= b
      BY MinOfTwo
    <3> QED
      BY <2>1, <3>1
  <2> HIDE DEF most
  <2> QED
    BY <1>1, <2>1, <2>2
<1> HIDE DEF reader, most
<1>6. unread' \in [Conns -> Nat] /\ short' \in SUBSET Conns
  BY <1>1, <1>5 DEF Inv, TypeOK
<1>7. thread' = [thread EXCEPT ![c] = [thread[c] EXCEPT !.reader = reader, !.from = from]]
  BY <1>1
<1>8. ~ late => k = c /\ thread[c].from \subseteq {c}
  BY DEF Inv, Own, OwnFiles, OwnBytes
<1>9. from \in SUBSET Conns /\ from # {} /\ (~ late => from \subseteq {c})
  BY <1>2, <1>8
<1> HIDE DEF from
<1> QED
  BY <1>1, <1>4, <1>6, <1>7, <1>9, BytesKeepInv

\* A thread that receives nothing keeps what it has.
LEMMA ReceiveNothingKeepsInv ==
  ASSUME Inv, NEW c \in Conns, thread[c].pc = "read", thread[c].reader.phase # "done",
         ReceiveNothing(c)
  PROVE  Inv'
<1> DEFINE r == thread[c].reader
           from == thread[c].from
<1>0. PICK size \in Announced(from) :
         thread' = [thread EXCEPT ![c].reader = Filled(r, size, 0)]
  BY DEF ReceiveNothing
<1> DEFINE reader == Filled(r, size, 0)
<1>1. thread' = [thread EXCEPT ![c].reader = reader]
      /\ UNCHANGED <<client, unread, file, slot, answers, late, short>>
  BY <1>0 DEF ReceiveNothing
<1>2. /\ thread[c] \in Threads /\ r \in Readers /\ from \subseteq Conns
      /\ size \in Nat \cup {NoLength}
  BY <1>0, ThreadType, SizesAssumption DEF Inv, TypeOK, Clients, Announced
<1>3. reader \in Readers
  BY <1>2, FilledType
<1>4. ~ late /\ from = {} => reader = [r EXCEPT !.phase = "done"] /\ r.buf = 0 /\ ~ r.routed
  BY <1>2, NothingFilled DEF Inv, Own, OwnBytes
<1> HIDE DEF reader
<1>5. thread' = [thread EXCEPT ![c] = [thread[c] EXCEPT !.reader = reader, !.from = from]]
  <2>1. [thread[c] EXCEPT !.reader = reader, !.from = from]
        = [thread[c] EXCEPT !.reader = reader]
    BY <1>2 DEF Threads
  <2>2. thread' = [thread EXCEPT ![c] = [thread[c] EXCEPT !.reader = reader]]
    BY <1>1
  <2> QED
    BY <2>1, <2>2, Zenon
<1>6. ~ late /\ from = {} => /\ reader.buf = 0 /\ ~ reader.routed
                             /\ reader.phase \in {"header", "done"}
  BY <1>2, <1>4 DEF Readers
<1>7. ~ late => from \subseteq {c}
  BY DEF Inv, Own, OwnBytes
<1>8. unread' \in [Conns -> Nat] /\ short' \in SUBSET Conns
  BY <1>1 DEF Inv, TypeOK
<1> HIDE DEF from
<1> QED
  BY <1>1, <1>2, <1>3, <1>5, <1>6, <1>7, <1>8, BytesKeepInv

\* A thread answers the connection its request came from.
LEMMA AnswerKeepsInv ==
  ASSUME Inv, NEW c \in Conns, Answer(c)
  PROVE  Inv'
<1> DEFINE t == thread[c]
           k == file[t.fd]
           a == [from |-> t.from, data |-> t.reader.data, routed |-> t.reader.routed]
<1>1. /\ t.pc = "read" /\ t.reader.phase = "done"
      /\ thread' = [thread EXCEPT ![c].pc = "answered"]
      /\ UNCHANGED <<client, unread, file, slot, late, short>>
      /\ \/ answers' = answers
         \/ /\ k # Free /\ t.reader.routed
            /\ answers' = [answers EXCEPT ![k] = @ \cup {a}]
  BY DEF Answer
<1>2. t \in Threads /\ t.reader \in Readers /\ t.from \in SUBSET Conns
      /\ t.fd \in Fds /\ k \in Conns \cup {Free}
  <2>1. t.fd \in Fds
    BY <1>1 DEF Inv, Own, FdsKnown
  <2> QED
    BY <2>1, ThreadType DEF Inv, TypeOK
<1>3. /\ thread'[c] = [t EXCEPT !.pc = "answered"] /\ thread' \in [Conns -> Threads]
      /\ \A r \in Conns \ {c} : thread'[r] = thread[r]
  BY <1>1, <1>2 DEF Inv, TypeOK, Threads
<1>4. /\ thread'[c].pc = "answered" /\ thread'[c].fd = t.fd
      /\ thread'[c].from = t.from /\ thread'[c].reader = t.reader
  BY <1>2, <1>3 DEF Threads
<1>5. a \in Answers
  BY <1>2 DEF Readers, Answers
<1> HIDE DEF a
<1>6. TypeOK'
  <2>1. answers' \in [Conns -> SUBSET Answers]
    BY <1>1, <1>2, <1>5 DEF Inv, TypeOK
  <2> QED
    BY <1>1, <1>3, <2>1 DEF Inv, TypeOK
<1>7. FdsKnown' /\ FilesApart' /\ OwnFiles' /\ OwnBytes'
  <2>1. \A f \in Fds : file[f] # Free => file[f] \in Conns
    BY DEF Inv, TypeOK
  <2>2. FdsKnown'
    BY <1>1, <1>3, <1>4 DEF Inv, Own, FdsKnown
  <2>3. FilesApart'
    <3>1. \A r \in Conns : thread'[r].pc = "none" => thread[r].pc = "none"
      BY <1>3, <1>4
    <3> QED
      BY <1>1, <2>1, <3>1 DEF Inv, Own, FilesApart, Fds
  <2>4. OwnFiles'
    BY <1>1, <1>3, <1>4 DEF Inv, Own, OwnFiles
  <2>5. OwnBytes'
    BY <1>1, <1>3, <1>4 DEF Inv, Own, OwnBytes
  <2> QED
    BY <2>2, <2>3, <2>4, <2>5
<1>8. OwnAnswers'
  <2>1. ASSUME ~ late, answers' = answers
        PROVE  OwnAnswers'
    BY <1>1, <1>3, <1>4, <2>1 DEF Inv, Own, OwnAnswers
  <2>2. ASSUME ~ late, t.reader.routed, k # Free,
               answers' = [answers EXCEPT ![k] = @ \cup {a}]
        PROVE  OwnAnswers'
    <3>1. k = c /\ t.from = {c}
      BY <1>1, <2>2 DEF Inv, Own, OwnFiles, OwnBytes
    <3>2. answers[c] = {} /\ a.from = {c}
      BY <1>1, <2>2, <3>1 DEF Inv, Own, OwnAnswers, a
    <3>3. answers'[c] = {a} /\ \A r \in Conns \ {c} : answers'[r] = answers[r]
      BY <2>2, <3>1, <3>2 DEF Inv, TypeOK
    <3> QED
      <4>1. ASSUME NEW r \in Conns \ {c}
            PROVE  /\ answers'[r] # {} => thread'[r].pc \in {"answered", "end"}
                   /\ \A x, y \in answers'[r] : x.from = {r} /\ x = y
        BY <1>3, <2>2, <3>3, <4>1 DEF Inv, Own, OwnAnswers
      <4> QED
        BY <1>4, <3>2, <3>3, <4>1 DEF OwnAnswers
  <2>3. CASE late
    BY <1>1, <2>3 DEF OwnAnswers
  <2> QED
    BY <1>1, <2>1, <2>2, <2>3
<1> QED
  BY <1>6, <1>7, <1>8 DEF Inv, Own

\* A thread closes its own descriptor.
LEMMA CloseKeepsInv ==
  ASSUME Inv, NEW c \in Conns, Close(c)
  PROVE  Inv'
<1> DEFINE fd == thread[c].fd
<1>1. /\ thread[c].pc = "answered" /\ file' = [file EXCEPT ![fd] = Free]
      /\ thread' = [thread EXCEPT ![c].pc = "end"]
      /\ UNCHANGED <<client, unread, slot, answers, late, short>>
  BY DEF Close
<1>2. thread[c] \in Threads /\ fd \in Fds
  BY <1>1, ThreadType DEF Inv, Own, FdsKnown
<1>3. /\ thread'[c] = [thread[c] EXCEPT !.pc = "end"] /\ thread' \in [Conns -> Threads]
      /\ \A r \in Conns \ {c} : thread'[r] = thread[r]
  BY <1>1, <1>2 DEF Inv, TypeOK, Threads
<1>4. /\ thread'[c].pc = "end" /\ thread'[c].fd = fd
      /\ thread'[c].from = thread[c].from /\ thread'[c].reader = thread[c].reader
  BY <1>2, <1>3 DEF Threads
<1> HIDE DEF fd
<1>5. file'[fd] = Free /\ \A f \in Fds \ {fd} : file'[f] = file[f]
  BY <1>1, <1>2 DEF Inv, TypeOK
<1>6. TypeOK'
  BY <1>1, <1>3 DEF Inv, TypeOK
<1>7. FdsKnown'
  BY <1>1, <1>2, <1>3, <1>4 DEF Inv, Own, FdsKnown
<1>8. FilesApart'
  <2>1. \A r \in Conns : thread'[r].pc = "none" => thread[r].pc = "none"
    BY <1>3, <1>4
  <2>2. ASSUME NEW f \in Fds, file'[f] # Free
        PROVE  /\ thread'[file'[f]].pc # "none"
               /\ \A g \in Fds : file'[f] = file'[g] => f = g
    <3>1. file'[f] = file[f] /\ file[f] \in Conns
      BY <1>5, <2>2 DEF Inv, TypeOK
    <3>2. \A g \in Fds : file'[g] = file[g] \/ file'[g] = Free
      BY <1>5
    <3> QED
      BY <2>1, <2>2, <3>1, <3>2 DEF Inv, Own, FilesApart
  <2> QED
    BY <2>2 DEF FilesApart, Fds
<1>9. OwnFiles'
  <2>1. ASSUME ~ late, NEW r \in Conns, thread'[r].pc \in {"read", "answered"}
        PROVE  file'[thread'[r].fd] = r
    <3>1. r # c /\ thread'[r] = thread[r]
      BY <1>3, <1>4, <2>1
    <3>2. file[thread[r].fd] = r /\ thread[r].fd \in Fds /\ file[fd] = c
      BY <1>1, <2>1, <3>1 DEF Inv, Own, OwnFiles, FdsKnown, fd
    <3> QED
      BY <1>5, <3>1, <3>2
  <2> QED
    BY <1>1, <2>1 DEF OwnFiles
<1>10. OwnBytes' /\ OwnAnswers'
  <2>1. OwnBytes'
    BY <1>1, <1>3, <1>4 DEF Inv, Own, OwnBytes
  <2>2. OwnAnswers'
    BY <1>1, <1>3, <1>4 DEF Inv, Own, OwnAnswers
  <2> QED
    BY <2>1, <2>2
<1> QED
  BY <1>6, <1>7, <1>8, <1>9, <1>10 DEF Inv, Own

-----------------------------------------------------------------------------
(* The theorems.                                                            *)

\* The invariant holds initially.
LEMMA InitInv ==
  ASSUME Init
  PROVE  Inv
<1>1. client \in [Conns -> Clients]
  <2>1. Plans \subseteq Clients
    <3>1. \A s \in Sizes : {BodySize(s) - 1, BodySize(s), BodySize(s) + 1} \subseteq Int
      BY SizesAssumption DEF BodySize
    <3> QED
      BY <3>1 DEF Plans, Clients
  <2> QED
    BY <2>1 DEF Init
<1>2. unread \in [Conns -> Nat]
  <2> SUFFICES ASSUME Init, NEW c \in Conns
               PROVE  Header + client[c].sent \in Nat
    BY DEF Init
  <2>1. PICK s \in Sizes : client[c].sent \in {BodySize(s) - 1, BodySize(s), BodySize(s) + 1}
    BY DEF Init, Plans
  <2>2. BodySize(s) \in Nat
    BY SizesAssumption DEF BodySize
  <2> QED
    BY <2>1, <2>2, LoadAssumption
<1>3. NoThread \in Threads
  BY DEF NoThread, Threads, NewReader, Readers, Phases
<1>4. TypeOK
  BY <1>1, <1>2, <1>3 DEF Init, TypeOK
<1>5. Own
  BY DEF Init, Own, FdsKnown, FilesApart, OwnFiles, OwnBytes, OwnAnswers,
         NoThread, NewReader
<1> QED
  BY <1>4, <1>5 DEF Inv

\* Every step keeps it.
LEMMA NextKeepsInv ==
  ASSUME Inv, [Next]_vars
  PROVE  Inv'
<1>1. CASE UNCHANGED vars
  BY <1>1 DEF Inv, TypeOK, Own, FdsKnown, FilesApart, OwnFiles, OwnBytes,
              OwnAnswers, Fds, vars
<1>2. ASSUME NEW c \in Conns, Read(c)
      PROVE  Inv'
  <2>1. CASE ReceiveNothing(c)
    BY <1>2, <2>1, ReceiveNothingKeepsInv DEF Read
  <2>2. ASSUME NEW k \in Conns, k = file[thread[c].fd], NEW n \in 1 .. unread[k],
               Receive(c, k, n)
        PROVE  Inv'
    <3>1. n \in Nat
      BY DEF Inv, TypeOK
    <3> QED
      BY <1>2, <2>2, <3>1, ReceiveKeepsInv DEF Read
  <2> QED
    BY <1>2, <2>1, <2>2 DEF Read
<1>3. ASSUME NEW c \in Conns, Accept(c) \/ Start(c) \/ Answer(c) \/ Close(c)
      PROVE  Inv'
  BY <1>3, AcceptKeepsInv, StartKeepsInv, AnswerKeepsInv, CloseKeepsInv
<1> QED
  BY <1>1, <1>2, <1>3 DEF Next, Run

\* So it always holds.
LEMMA InvAlways == Spec => []Inv
<1>1. Init => Inv
  BY InitInv
<1>2. Inv /\ [Next]_vars => Inv'
  BY NextKeepsInv
<1> QED
  BY <1>1, <1>2, PTL DEF Spec

\* The types are right: no buffer, no rest of a body and no number of bytes on
\* their way is negative, although readBulk computes without signs.
THEOREM TypeCorrect == Spec => []TypeOK
<1>1. Inv => TypeOK
  BY DEF Inv
<1> QED
  BY <1>1, InvAlways, PTL

\* While no thread starts late, every answer goes to the connection whose
\* request it answers, once, however descriptors are used again and however
\* the requests arrive in pieces.
THEOREM EachIsAnsweredForItself == Spec => []AnswersItsOwn
<1>1. Inv => AnswersItsOwn
  <2> SUFFICES ASSUME Inv, ~ late, NEW c \in Conns
               PROVE  /\ \A a \in answers[c] : a.from = {c}
                      /\ Cardinality(answers[c]) <= 1
    BY DEF AnswersItsOwn
  <2>1. \A a, b \in answers[c] : a.from = {c} /\ a = b
    BY DEF Inv, Own, OwnAnswers
  <2>2. CASE answers[c] = {}
    BY <2>2, FS_EmptySet
  <2>3. CASE answers[c] # {}
    <3>1. PICK a : answers[c] = {a}
      BY <2>1, <2>3
    <3> QED
      <4>1. Cardinality(answers[c]) = 1
        BY <3>1, FS_Singleton
      <4> QED
        BY <2>1, <4>1
  <2> QED
    BY <2>1, <2>2, <2>3
<1> QED
  BY <1>1, InvAlways, PTL

-----------------------------------------------------------------------------
(* Whole bodies.                                                            *)

\* Nothing is missing from the bytes of c.
Unhurt(c) == c \notin short /\ client[c].sent >= BodySize(client[c].size)

\* A reader of a request with sent bytes of body, of which left are on their way:
\* where it is, it has received the others, and the rest it lacks is coming.
ReadsWhole(r, size, sent, left) ==
    /\ r.phase = "header" => r.buf < Header /\ r.buf + left = Header + sent
    /\ r.phase \in {"loop", "rest"} => r.size = size /\ r.buf + left = sent
    /\ r.phase = "rest" => r.buf < r.size
    /\ r.phase = "done" /\ r.routed => r.data = BodySize(size)

Bodies ==
    ~ late => \A c \in Conns : Unhurt(c) =>
       /\ \A a \in answers[c] : a.data = BodySize(client[c].size)
       /\ thread[c].pc \in {"none", "start", "read"} =>
             ReadsWhole(thread[c].reader, client[c].size, client[c].sent, unread[c])

\* readBulk hands on a body of the announced length, or asks for more of it.
LEMMA ReadBulkWhole ==
  ASSUME NEW size \in Nat, NEW sent \in Int, NEW buf \in Nat, NEW left \in Nat,
         buf + left = sent
  PROVE  ReadsWhole(ReadBulk(size, buf), size, sent, left)
<1>1. size # NoLength
  BY NoLengthAssumption
<1>2. CASE LoopsOn(size, buf)
  <2>1. ReadBulk(size, buf) = Wants("loop", size, buf)
    BY <1>2 DEF ReadBulk
  <2> QED
    BY <2>1 DEF Wants, ReadsWhole
<1>3. CASE ~ LoopsOn(size, buf) /\ size > buf
  <2>1. ReadBulk(size, buf) = Wants("rest", size, buf)
    BY <1>3 DEF ReadBulk
  <2> QED
    BY <1>3, <2>1 DEF Wants, ReadsWhole
<1>4. CASE ~ LoopsOn(size, buf) /\ ~ (size > buf)
  <2>1. ReadBulk(size, buf) = Done(size, buf - size, size)
    BY <1>4 DEF ReadBulk
  <2> QED
    BY <1>1, <2>1 DEF Done, ReadsWhole, BodySize
<1> QED
  BY <1>2, <1>3, <1>4

\* So does fillBuffer, if it gets what it asks for or all there is, and there
\* is enough.  Nothing is got only if nothing is on its way.
LEMMA FilledWhole ==
  ASSUME NEW r \in Readers, r.phase # "done", NEW size \in Nat \cup {NoLength},
         NEW sent \in Int, sent >= BodySize(size), NEW left \in Nat,
         ReadsWhole(r, size, sent, left), NEW n \in 0 .. left,
         NEW announced \in {size, NoLength}, n > 0 => announced = size,
         n = 0 => left = 0,
         r.phase = "rest" => n <= Asked(r) /\ (n = Asked(r) \/ n = left)
  PROVE  ReadsWhole(Filled(r, announced, n), size, sent, left - n)
<1>1. /\ r.buf \in Nat /\ n \in Nat /\ left - n \in Nat /\ r.buf + n \in Nat
      /\ Header \in Nat \ {0} /\ r.size \in Nat
      /\ r.phase \in {"header", "loop", "rest"}
  BY LoadAssumption DEF Readers, Phases
<1>2. CASE r.phase = "header"
  <2>1. r.buf < Header /\ r.buf + left = Header + sent
    BY <1>2 DEF ReadsWhole
  <2>2. n > 0 /\ announced = size
    <3>1. BodySize(size) \in Nat
      BY DEF BodySize
    <3> QED
      BY <1>1, <2>1, <3>1
  <2>3. CASE r.buf + n >= Header
    <3>1. Filled(r, announced, n) = ReadData(size, r.buf + n - Header)
      <4>1. ~ (r.buf + n < Header)
        BY <1>1, <2>3
      <4>2. Filled(r, announced, n) = ReadData(announced, r.buf + n - Header)
        BY <1>1, <1>2, <2>3, <4>1 DEF Filled
      <4> QED
        BY <2>2, <4>2
    <3>2. r.buf + n - Header \in Nat /\ (r.buf + n - Header) + (left - n) = sent
      BY <1>1, <2>1, <2>3
    <3>3. CASE size = NoLength
      <4>1. Filled(r, announced, n) = Done(0, r.buf + n - Header, 0)
        BY <3>1, <3>3 DEF ReadData
      <4> QED
        BY <3>3, <4>1 DEF Done, ReadsWhole, BodySize
    <3>4. CASE size # NoLength
      <4>1. Filled(r, announced, n) = ReadBulk(size, r.buf + n - Header)
        BY <3>1, <3>4 DEF ReadData
      <4>2. size \in Nat
        BY <3>4
      <4> QED
        BY <1>1, <3>2, <4>1, <4>2, ReadBulkWhole
    <3> QED
      BY <3>3, <3>4
  <2>4. CASE ~ (r.buf + n >= Header)
    <3>1. Filled(r, announced, n) = [r EXCEPT !.buf = r.buf + n]
      <4>1. r.buf + n < Header /\ n # 0
        BY <1>1, <2>2, <2>4
      <4> QED
        BY <1>2, <2>4, <4>1 DEF Filled
    <3>2. r.buf + n < Header /\ (r.buf + n) + (left - n) = Header + sent
      BY <1>1, <2>1, <2>4
    <3>3. /\ [r EXCEPT !.buf = r.buf + n].phase = "header"
          /\ [r EXCEPT !.buf = r.buf + n].buf = r.buf + n
      BY <1>2 DEF Readers
    <3> QED
      BY <3>1, <3>2, <3>3 DEF ReadsWhole
  <2> QED
    BY <2>3, <2>4
<1>3. CASE r.phase = "loop"
  <2>1. r.size = size /\ r.buf + left = sent
    BY <1>3 DEF ReadsWhole
  <2>2. Filled(r, announced, n) = ReadBulk(size, r.buf + n)
    BY <1>3, <2>1 DEF Filled
  <2>3. (r.buf + n) + (left - n) = sent /\ size \in Nat
    BY <1>1, <2>1
  <2> QED
    BY <1>1, <2>2, <2>3, ReadBulkWhole
<1>4. CASE r.phase = "rest"
  <2>1. r.size = size /\ r.buf + left = sent /\ r.buf < size
    BY <1>4 DEF ReadsWhole
  <2>2. BodySize(size) = size /\ size \in Nat
    BY <1>1, <2>1, NoLengthAssumption DEF BodySize
  <2>3. r.buf + n = size
    BY <1>1, <1>4, <2>1, <2>2 DEF Asked
  <2>4. Filled(r, announced, n) = Done(size, 0, size)
    BY <1>4, <2>1, <2>3 DEF Filled
  <2> QED
    BY <2>2, <2>4 DEF Done, ReadsWhole
<1> QED
  BY <1>1, <1>2, <1>3, <1>4

\* A step that changes nothing of what the invariant speaks of.
LEMMA BodiesStay ==
  ASSUME Inv, Bodies, ~ late' => ~ late, UNCHANGED <<client, unread, answers, short>>,
         \A c \in Conns :
            /\ thread'[c].reader = thread[c].reader
            /\ thread'[c].pc \in {"none", "start", "read"}
               => thread[c].pc \in {"none", "start", "read"}
  PROVE  Bodies'
<1> SUFFICES ASSUME ~ late', NEW c \in Conns, Unhurt(c)'
             PROVE  /\ \A a \in answers'[c] : a.data = BodySize(client'[c].size)
                    /\ thread'[c].pc \in {"none", "start", "read"} =>
                          ReadsWhole(thread'[c].reader, client'[c].size,
                                     client'[c].sent, unread'[c])
  BY DEF Bodies
<1>1. ~ late /\ Unhurt(c)
  BY DEF Unhurt
<1> QED
  BY <1>1 DEF Bodies

\* What a thread reads in time is its own connection's, and at most what is on
\* its way.
LEMMA ReadKeepsBodies ==
  ASSUME Inv, Bodies, NEW c \in Conns, Read(c)
  PROVE  Bodies'
<1> SUFFICES ASSUME ~ late, NEW d \in Conns, Unhurt(d)'
             PROVE  /\ \A a \in answers'[d] : a.data = BodySize(client'[d].size)
                    /\ thread'[d].pc \in {"none", "start", "read"} =>
                          ReadsWhole(thread'[d].reader, client'[d].size,
                                     client'[d].sent, unread'[d])
  <2>1. late' = late
    BY DEF Read, Receive, ReceiveNothing
  <2> QED
    BY <2>1 DEF Bodies
<1>1. PICK r \in Readers, size \in Nat \cup {NoLength}, sent \in Int, left \in Nat :
         /\ r = thread[c].reader /\ size = client[c].size
         /\ sent = client[c].sent /\ left = unread[c]
  BY ThreadType, SizesAssumption DEF Inv, TypeOK, Clients
<1>2. /\ thread[c].pc = "read" /\ r.phase # "done" /\ file[thread[c].fd] = c
      /\ thread[c] \in Threads
  BY <1>1, ThreadType DEF Read, Inv, Own, OwnFiles
<1>3. /\ client' = client /\ answers' = answers
      /\ \A e \in Conns \ {c} : thread'[e] = thread[e] /\ unread'[e] = unread[e]
      /\ short \subseteq short'
  <2>1. CASE ReceiveNothing(c)
    BY <2>1 DEF ReceiveNothing, Inv, TypeOK
  <2>2. CASE \E n \in 1 .. unread[c] : Receive(c, c, n)
    BY <2>2 DEF Receive, Inv, TypeOK
  <2> QED
    BY <1>2, <2>1, <2>2 DEF Read
<1>4. Unhurt(d)
  BY <1>3 DEF Unhurt
<1>5. CASE d # c
  BY <1>3, <1>4, <1>5 DEF Bodies
<1>6. CASE d = c
  <2>1. /\ \A a \in answers'[c] : a.data = BodySize(client'[c].size)
        /\ ReadsWhole(r, size, sent, left) /\ sent >= BodySize(size)
    BY <1>1, <1>2, <1>3, <1>4, <1>6 DEF Bodies, Unhurt
  <2>2. PICK n \in 0 .. left, announced \in {size, NoLength} :
           /\ thread'[c].reader = Filled(r, announced, n)
           /\ unread'[c] = left - n
           /\ n > 0 => announced = size
           /\ n = 0 => left = 0
           /\ r.phase = "rest" => n <= Asked(r) /\ (n = Asked(r) \/ n = left)
    <3>1. CASE ReceiveNothing(c)
      <4>1. left = 0
        BY <1>1, <1>2, <3>1, ConnsAssumption DEF ReceiveNothing
      <4>2. PICK announced \in Announced(thread[c].from) :
               thread'[c].reader = Filled(r, announced, 0) /\ unread'[c] = left - 0
        BY <1>1, <1>2, <3>1 DEF ReceiveNothing, Inv, TypeOK, Threads
      <4>0. announced \in {size, NoLength}
        BY <1>1, <1>2, <4>2 DEF Inv, Own, OwnBytes, Announced
      <4>3. r.phase = "rest" => 0 <= Asked(r)
        <5>1. r.phase = "rest" => r.buf < r.size /\ r.buf \in Nat /\ r.size \in Nat
          BY <2>1 DEF ReadsWhole, Readers
        <5> QED
          BY <5>1 DEF Asked
      <4>4. /\ 0 \in 0 .. left /\ announced \in {size, NoLength}
            /\ 0 > 0 => announced = size
            /\ r.phase = "rest" => 0 <= Asked(r) /\ 0 = left
        BY <4>0, <4>1, <4>3
      <4> QED
        BY <4>1, <4>2, <4>4
    <3>2. ASSUME NEW n \in 1 .. unread[c], Receive(c, c, n)
          PROVE  /\ n \in 0 .. left /\ n > 0
                 /\ thread'[c].reader = Filled(r, size, n)
                 /\ unread'[c] = left - n
                 /\ n <= Asked(r) /\ (n = Asked(r) \/ n = left)
      <4>1. thread'[c].reader = Filled(r, size, n) /\ unread'[c] = left - n
        BY <1>1, <1>2, <3>2 DEF Receive, Inv, TypeOK, Threads
      <4>2. PICK most : most = Min({Asked(r), left})
        OBVIOUS
      <4>3. Asked(r) \in Int
        BY LoadAssumption DEF Asked, Readers
      <4>4. most \in {Asked(r), left} /\ most <= Asked(r)
        <5>1. \A a, b \in Int : Min({a, b}) \in {a, b} /\ Min({a, b}) <= a
          BY MinOfTwo
        <5> QED
          BY <4>2, <4>3, <5>1
      <4>5. n \in 1 .. most /\ short' = IF n < most THEN short \cup {c} ELSE short
        BY <1>1, <3>2, <4>2 DEF Receive
      <4>6. c \notin short'
        BY <1>6 DEF Unhurt
      <4>7. n = most
        BY <4>3, <4>4, <4>5, <4>6
      <4> QED
        BY <1>1, <3>2, <4>1, <4>4, <4>5, <4>7
    <3> QED
      BY <1>2, <3>1, <3>2 DEF Read
  <2>3. ReadsWhole(Filled(r, announced, n), size, sent, left - n)
    BY <1>2, <2>1, <2>2, FilledWhole
  <2> QED
    BY <1>1, <1>3, <1>6, <2>1, <2>2, <2>3
<1> QED
  BY <1>5, <1>6

\* What a handler gets is what the reader hands on.
LEMMA AnswerKeepsBodies ==
  ASSUME Inv, Bodies, NEW c \in Conns, Answer(c)
  PROVE  Bodies'
<1> SUFFICES ASSUME ~ late, NEW d \in Conns, Unhurt(d)'
             PROVE  /\ \A a \in answers'[d] : a.data = BodySize(client'[d].size)
                    /\ thread'[d].pc \in {"none", "start", "read"} =>
                          ReadsWhole(thread'[d].reader, client'[d].size,
                                     client'[d].sent, unread'[d])
  BY DEF Bodies, Answer
<1>1. /\ thread[c].pc = "read" /\ thread[c].reader.phase = "done"
      /\ thread[c] \in Threads /\ file[thread[c].fd] = c
  BY ThreadType DEF Answer, Inv, Own, OwnFiles
<1>2. /\ client' = client /\ unread' = unread /\ short' = short
      /\ thread'[c].pc = "answered"
      /\ \A e \in Conns \ {c} : thread'[e] = thread[e] /\ answers'[e] = answers[e]
  BY <1>1 DEF Answer, Inv, TypeOK, Threads
<1>3. Unhurt(d)
  BY <1>2 DEF Unhurt
<1>4. CASE d # c
  BY <1>2, <1>3, <1>4 DEF Bodies
<1>5. CASE d = c
  <2>1. ASSUME NEW a \in answers'[c]
        PROVE  \/ a \in answers[c]
               \/ a.data = thread[c].reader.data /\ thread[c].reader.routed
    BY <1>1 DEF Answer, Inv, TypeOK
  <2>2. ReadsWhole(thread[c].reader, client[c].size, client[c].sent, unread[c])
    BY <1>1, <1>3, <1>5 DEF Bodies
  <2>3. \A a \in answers'[c] : a.data = BodySize(client[c].size)
    BY <1>1, <1>3, <1>5, <2>1, <2>2 DEF Bodies, ReadsWhole
  <2> QED
    BY <1>2, <1>5, <2>3
<1> QED
  BY <1>4, <1>5

LEMMA NextKeepsBodies ==
  ASSUME Inv, Bodies, [Next]_vars
  PROVE  Bodies'
<1>1. CASE UNCHANGED vars
  BY <1>1, BodiesStay DEF vars
<1>2. ASSUME NEW c \in Conns, Accept(c) \/ Start(c) \/ Close(c)
      PROVE  Bodies'
  <2>1. /\ UNCHANGED <<client, unread, answers, short>>
        /\ late' = late \/ late' = (late \/ file[slot] # c)
    BY <1>2 DEF Accept, Start, Close
  <2>2. thread[c] \in Threads /\ \A e \in Conns \ {c} : thread'[e] = thread[e]
    BY <1>2, ThreadType DEF Accept, Start, Close, Inv, TypeOK
  <2>3. thread'[c].reader = thread[c].reader
    BY <1>2, <2>2 DEF Accept, Start, Close, Inv, TypeOK, Threads
  <2>4. thread'[c].pc \in {"none", "start", "read"}
        => thread[c].pc \in {"none", "start", "read"}
    BY <1>2, <2>2 DEF Accept, Start, Close, Inv, TypeOK, Threads
  <2>5. ~ late' => ~ late
    BY <2>1
  <2> QED
    BY <2>1, <2>2, <2>3, <2>4, <2>5, BodiesStay
<1> QED
  BY <1>1, <1>2, ReadKeepsBodies, AnswerKeepsBodies DEF Next, Run

\* While no thread starts late, each handler gets a body of exactly the length
\* its client announced, if the client sends that much and no recv comes up
\* short: for all sizes, and although the rest is computed without a sign.
THEOREM BodiesAreWhole == Spec => []BodyWhole
<1>1. Init => Bodies
  <2> SUFFICES ASSUME Init, NEW c \in Conns
               PROVE  /\ answers[c] = {}
                      /\ ReadsWhole(thread[c].reader, client[c].size,
                                    client[c].sent, unread[c])
    BY DEF Bodies
  <2>1. thread[c].reader = NewReader /\ unread[c] = Header + client[c].sent
        /\ client[c].sent \in Int
    BY InitInv DEF Init, NoThread, Inv, TypeOK, Clients
  <2> QED
    BY <2>1, LoadAssumption DEF Init, NewReader, ReadsWhole
<1>2. Inv /\ Bodies /\ [Next]_vars => Bodies'
  BY NextKeepsBodies
<1>3. Inv /\ Bodies => BodyWhole
  <2> SUFFICES ASSUME Inv, Bodies, ~ late, NEW c \in Conns, NEW a \in answers[c],
                      c \notin short, ~ (client[c].sent < BodySize(client[c].size))
               PROVE  a.data = BodySize(client[c].size)
    BY DEF BodyWhole
  <2>1. client[c].sent \in Int /\ BodySize(client[c].size) \in Nat
    BY SizesAssumption DEF Inv, TypeOK, Clients, BodySize
  <2>2. Unhurt(c)
    BY <2>1 DEF Unhurt
  <2> QED
    BY <2>2 DEF Bodies
<1> QED
  BY <1>1, <1>2, <1>3, InvAlways, PTL DEF Spec

=============================================================================
