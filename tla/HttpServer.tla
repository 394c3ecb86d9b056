----------------------------- MODULE HttpServer -----------------------------
(***************************************************************************)
(* An accept loop with one thread per connection.  The three servers (HTTP *)
(* server, load balancer, SMTP service) are built alike: the thread is     *)
(* given the address of a variable of the loop's body and reads the        *)
(* descriptor from there when it starts to run.  The threads here are      *)
(* those of the HTTP server: they read a request, answer it and close.     *)
(***************************************************************************)
EXTENDS SocketReader, FiniteSets, FiniteSetsExt

CONSTANTS
    Conns,  \* connections
    Free,   \* no connection: a descriptor not in use
    Sizes   \* Content-Lengths of requests, or NoLength

ASSUME ConnsAssumption == IsFiniteSet(Conns) /\ Free \notin Conns
ASSUME SizesAssumption == Sizes \subseteq Nat \cup {NoLength}

\* There are never more connections than descriptors.
Fds == 1 .. Cardinality(Conns)

NoFd == 0

\* What a client does: it sends a header and a body of sent bytes (of the header
\* so many less, if sent is negative) and waits for the answer; if it hangs up, it
\* closes its side after the last byte.
Clients == [size : Sizes, sent : Int, hangsUp : BOOLEAN]

BodySize(size) == IF size = NoLength THEN 0 ELSE size

Plans ==
    UNION {[size : {s}, sent : {BodySize(s) - 1, BodySize(s), BodySize(s) + 1},
            hangsUp : BOOLEAN] : s \in Sizes}

\* A thread: idle before accept, starting after pthread_create, then reading,
\* answered, and at its end.  from has the connections its bytes come from.
Threads == [pc : {"none", "start", "read", "answered", "end"},
            fd : Fds \cup {NoFd}, reader : Readers, from : SUBSET Conns]

NoThread == [pc |-> "none", fd |-> NoFd, reader |-> NewReader, from |-> {}]

VARIABLES
    client,   \* client[c]: what the client of c does
    unread,   \* unread[c]: bytes sent and not yet received by a thread
    file,     \* file[fd]: the connection behind a descriptor
    slot,     \* comm_fd of the loop's body, which new threads read
    thread,   \* thread[c]: the thread created for c
    answers,  \* answers[c]: what was written to c
    \* The rest only observes.
    late,     \* a thread found another descriptor than its own in slot
    short     \* connections on which recv returned less than was on its way

vars == <<client, unread, file, slot, thread, answers, late, short>>

Answers == [from : SUBSET Conns, data : Nat, routed : BOOLEAN]

Init ==
    /\ client \in [Conns -> Plans]
    /\ unread = [c \in Conns |-> Header + client[c].sent]
    /\ file = [fd \in Fds |-> Free]
    /\ slot = NoFd
    /\ thread = [c \in Conns |-> NoThread]
    /\ answers = [c \in Conns |-> {}]
    /\ late = FALSE /\ short = {}

\* accept returns the least descriptor that is free; the thread is created and
\* given the address of slot.
Accept(c) ==
    LET fd == CHOOSE f \in Fds : file[f] = Free
                                 /\ \A g \in Fds : file[g] = Free => f <= g
    IN  /\ thread[c].pc = "none"
        /\ file' = [file EXCEPT ![fd] = c]
        /\ slot' = fd
        /\ thread' = [thread EXCEPT ![c].pc = "start"]
        /\ UNCHANGED <<client, unread, answers, late, short>>

\* The thread reads its argument.
Start(c) ==
    /\ thread[c].pc = "start"
    /\ thread' = [thread EXCEPT ![c].pc = "read", ![c].fd = slot]
    /\ late' = (late \/ file[slot] # c)
    /\ UNCHANGED <<client, unread, file, slot, answers, short>>

\* fillBuffer receives n bytes from connection k.
Receive(c, k, n) ==
    LET r == thread[c].reader
        most == Min({Asked(r), unread[k]})
    IN  /\ n \in 1 .. most
        /\ unread' = [unread EXCEPT ![k] = @ - n]
        /\ thread' = [thread EXCEPT ![c].reader = Filled(r, client[k].size, n),
                                    ![c].from = @ \cup {k}]
        /\ short' = IF n < most THEN short \cup {k} ELSE short
        /\ UNCHANGED <<client, file, slot, answers, late>>

\* The lengths that a header of bytes from these connections may announce.
Announced(from) ==
    IF from = {} THEN {NoLength} ELSE {client[k].size : k \in from}

\* recv returns 0 at the end of the stream, -1 on a closed descriptor; as long
\* as the client waits for its answer it blocks.
ReceiveNothing(c) ==
    LET k == file[thread[c].fd]
    IN  /\ k # Free => unread[k] = 0 /\ client[k].hangsUp
        /\ \E size \in Announced(thread[c].from) :
              thread' = [thread EXCEPT ![c].reader = Filled(@, size, 0)]
        /\ UNCHANGED <<client, unread, file, slot, answers, late, short>>

Read(c) ==
    /\ thread[c].pc = "read" /\ thread[c].reader.phase # "done"
    /\ \/ ReceiveNothing(c)
       \/ \E k \in Conns : /\ k = file[thread[c].fd]
                           /\ \E n \in 1 .. unread[k] : Receive(c, k, n)

\* A plausible mistake for Answer: the descriptor is read again from the argument.
AnswerToSlot(c) ==
    LET t == thread[c]
        k == file[slot]
    IN  /\ t.pc = "read" /\ t.reader.phase = "done"
        /\ thread' = [thread EXCEPT ![c].pc = "answered"]
        /\ answers' = IF k = Free \/ ~ t.reader.routed THEN answers
                      ELSE [answers EXCEPT ![k] = @ \cup
                              {[from |-> t.from, data |-> t.reader.data,
                                routed |-> t.reader.routed]}]
        /\ UNCHANGED <<client, unread, file, slot, late, short>>

\* The request is handled and the answer written to the descriptor; a header
\* without its first line, or a descriptor that is closed, gets none.
Answer(c) ==
    LET t == thread[c]
        k == file[t.fd]
    IN  /\ t.pc = "read" /\ t.reader.phase = "done"
        /\ thread' = [thread EXCEPT ![c].pc = "answered"]
        /\ answers' = IF k = Free \/ ~ t.reader.routed THEN answers
                      ELSE [answers EXCEPT ![k] = @ \cup
                              {[from |-> t.from, data |-> t.reader.data,
                                routed |-> t.reader.routed]}]
        /\ UNCHANGED <<client, unread, file, slot, late, short>>

\* close(fd), whatever is behind the descriptor by now.
Close(c) ==
    /\ thread[c].pc = "answered"
    /\ file' = [file EXCEPT ![thread[c].fd] = Free]
    /\ thread' = [thread EXCEPT ![c].pc = "end"]
    /\ UNCHANGED <<client, unread, slot, answers, late, short>>

Run(c) == Start(c) \/ Read(c) \/ Answer(c) \/ Close(c)

Next == \E c \in Conns : Accept(c) \/ Run(c)

Spec == Init /\ [][Next]_vars

\* Threads that can run do run.
FairSpec == Spec /\ \A c \in Conns : WF_vars(Run(c))

-----------------------------------------------------------------------------
(* Properties.                                                              *)

\* Types of all variables.
TypeOK ==
    /\ client \in [Conns -> Clients]
    /\ unread \in [Conns -> Nat]
    /\ file \in [Fds -> Conns \cup {Free}]
    /\ slot \in Fds \cup {NoFd}
    /\ thread \in [Conns -> Threads]
    /\ answers \in [Conns -> SUBSET Answers]
    /\ late \in BOOLEAN
    /\ short \subseteq Conns

\* As long as every thread has started before the next accept, an answer goes
\* to the connection whose request it answers, and there is one at most, although
\* descriptors are used again.
AnswersItsOwn ==
    ~ late => \A c \in Conns : /\ \A a \in answers[c] : a.from = {c}
                               /\ Cardinality(answers[c]) <= 1

\* The body a handler gets has the length announced in the header, unless a
\* recv came up short (the rest is asked for once only) or the client sends
\* less than it announces; to hang up after the last byte does no harm.
BodyWhole ==
    ~ late => \A c \in Conns : \A a \in answers[c] :
                 \/ a.data = BodySize(client[c].size)
                 \/ c \in short \/ client[c].sent < BodySize(client[c].size)

\* A client that sends exactly what its header announces is answered and the
\* connection closed, unless a thread has started late.
Exact(c) == client[c].sent = BodySize(client[c].size)
ClosesExact ==
    \A c \in Conns :
       thread[c].pc # "none" /\ Exact(c) ~> thread[c].pc = "end" \/ late

=============================================================================
