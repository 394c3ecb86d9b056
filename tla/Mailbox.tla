------------------------------- MODULE Mailbox -------------------------------
(***************************************************************************)
(* The mailboxes: one cell of the store per user, the list of his mails,   *)
(* read, changed and written back as a whole.  Threads of the HTTP servers *)
(* (sendEmail, getEmailList, deleteEmail) and of the SMTP service          *)
(* (mailWorker) do so side by side.  The SMTP threads share a lock; the    *)
(* HTTP threads take none.  A read or a write of the store may fail, a     *)
(* process may die between the two.                                        *)
(***************************************************************************)
EXTENDS Integers, Sequences, SequencesExt

CONSTANTS
    Users,        \* the owners of mailboxes
    Mails,        \* mails, each sent once
    HttpThreads,  \* messageWorker threads of all HTTP servers
    SmtpThreads,  \* mailWorker threads of the SMTP service
    NoBox,        \* the empty string: no cell, or a Get that failed
    NoThread,     \* nobody holds the lock
    MaxTos,       \* bound: recipients of a mail
    MaxFails,     \* bound: failures of the store and deaths of a process
    MaxDeletes    \* bound: deletions

ASSUME ThreadsAssumption == /\ HttpThreads \cap SmtpThreads = {}
                            /\ NoThread \notin HttpThreads \cup SmtpThreads
ASSUME BoundsAssumption == MaxTos \in Nat /\ MaxFails \in Nat /\ MaxDeletes \in Nat

Threads == HttpThreads \cup SmtpThreads

\* A mail in a mailbox, under the id it was given there.
Entries == [id : Nat, mail : Mails]

ASSUME NoBoxAssumption == NoBox \notin Seq(Entries)

Boxes == Seq(Entries) \cup {NoBox}

\* What may go wrong with a mailbox, see HarmHasCause.
Harms == {"stale",   \* it was overwritten by a change of an older or empty list
          "failed",  \* the answer was success, but the write failed
          "reused"}  \* an id was given a second time

Idle == [pc |-> "idle"]

\* A thread at work: tos lists the mailboxes still to be changed, read is
\* what Get returned for the first one.  A deletion knows the id; mail is the
\* one that the user's page shows under it.
Jobs == [pc : {"lock", "get", "put"}, op : {"deliver", "delete"},
         tos : Seq(Users) \ {<< >>}, mail : Mails, id : Nat, read : Boxes]

VARIABLES
    box,      \* box[u]: the cell "mails" of u
    job,      \* job[t]: what thread t does
    lock,     \* lock_ of the SMTP service: the thread that holds it
    page,     \* page[u]: the list of mails the page of u shows
    unsent,   \* mails nobody has sent yet
    fails,    \* failures so far
    deletes,  \* deletions so far
    \* The rest only observes.
    kept,     \* kept[u]: the mails u should have, by the answers given
    given,    \* given[u]: the ids given in the box of u
    harm,     \* harm[u]: what has gone wrong with the box of u
    causes    \* causes[u]: an HTTP thread wrote the box, a mail was deleted

observed == <<kept, given, harm, causes>>
vars == <<box, job, lock, page, unsent, fails, deletes, observed>>

\* json::parse of a list, "[]" for the empty string.
List(b) == IF b = NoBox THEN << >> ELSE b

MailsIn(b) == {List(b)[i].mail : i \in DOMAIN List(b)}

Init ==
    /\ box = [u \in Users |-> NoBox]
    /\ job = [t \in Threads |-> Idle]
    /\ lock = NoThread
    /\ page = [u \in Users |-> << >>]
    /\ unsent = Mails
    /\ fails = 0 /\ deletes = 0
    /\ kept = [u \in Users |-> {}]
    /\ given = [u \in Users |-> {}]
    /\ harm = [u \in Users |-> {}]
    /\ causes = [u \in Users |-> {}]

-----------------------------------------------------------------------------
(* Requests.                                                                *)

\* Lists of recipients, none twice.
Recipients == {s \in UNION {[1 .. n -> Users] : n \in 1 .. MaxTos} : IsInjective(s)}

\* A request for a delivery reaches a thread: sendEmail after checkCookie, or
\* the end of the text of a mail in a dialogue.
Send(t, m, tos) ==
    /\ job[t] = Idle
    /\ m \in unsent
    /\ unsent' = unsent \ {m}
    /\ job' = [job EXCEPT ![t] =
                 [pc |-> IF t \in SmtpThreads THEN "lock" ELSE "get",
                  op |-> "deliver", tos |-> tos, mail |-> m, id |-> 0,
                  read |-> NoBox]]
    /\ UNCHANGED <<box, lock, page, fails, deletes, observed>>

\* getEmailList: the page shows the list; a Get that fails shows no mails.
View(u) ==
    /\ \/ page' = [page EXCEPT ![u] = List(box[u])] /\ UNCHANGED fails
       \/ /\ fails < MaxFails
          /\ page' = [page EXCEPT ![u] = << >>]
          /\ fails' = fails + 1
    /\ UNCHANGED <<box, job, lock, unsent, deletes, observed>>

\* The user deletes a mail his page shows, however old the page is.
Delete(t, u, e) ==
    /\ job[t] = Idle
    /\ t \in HttpThreads
    /\ deletes < MaxDeletes
    /\ deletes' = deletes + 1
    /\ job' = [job EXCEPT ![t] = [pc |-> "get", op |-> "delete", tos |-> <<u>>,
                                  mail |-> e.mail, id |-> e.id, read |-> NoBox]]
    /\ UNCHANGED <<box, lock, page, unsent, fails, observed>>

-----------------------------------------------------------------------------
(* Work on a mailbox.                                                       *)

\* A plausible mistake for Lock: the thread does not wait.
LockAnyway(t) ==
    /\ job[t] # Idle /\ job[t].pc = "lock"
    /\ lock' = t
    /\ job' = [job EXCEPT ![t].pc = "get"]
    /\ UNCHANGED <<box, page, unsent, fails, deletes, observed>>

\* pthread_mutex_lock of mailWorker, once per recipient.
Lock(t) ==
    /\ job[t] # Idle /\ job[t].pc = "lock"
    /\ lock = NoThread
    /\ lock' = t
    /\ job' = [job EXCEPT ![t].pc = "get"]
    /\ UNCHANGED <<box, page, unsent, fails, deletes, observed>>

\* Get of the mailbox: a failure is taken for the empty string.
Get(t) ==
    /\ job[t] # Idle /\ job[t].pc = "get"
    /\ \/ /\ job' = [job EXCEPT ![t].pc = "put",
                                ![t].read = box[Head(job[t].tos)]]
          /\ UNCHANGED fails
       \/ /\ fails < MaxFails
          /\ job' = [job EXCEPT ![t].pc = "put", ![t].read = NoBox]
          /\ fails' = fails + 1
    /\ UNCHANGED <<box, lock, page, unsent, deletes, observed>>

\* A plausible mistake for NextBox: the loop runs once too often.
NextBoxPastEnd(t) ==
    IF Len(job[t].tos) = 0 THEN Idle
    ELSE [job[t] EXCEPT !.tos = Tail(@), !.read = NoBox,
                        !.pc = IF t \in SmtpThreads THEN "lock" ELSE "get"]

\* The job after its first mailbox is done; SMTP threads lock again.
NextBox(t) ==
    IF Len(job[t].tos) = 1 THEN Idle
    ELSE [job[t] EXCEPT !.tos = Tail(@), !.read = NoBox,
                        !.pc = IF t \in SmtpThreads THEN "lock" ELSE "get"]

\* A plausible mistake for Unlock: it is forgotten.
UnlockNever(t) == lock' = lock

\* pthread_mutex_unlock of mailWorker, after each recipient.
Unlock(t) == lock' = IF t \in SmtpThreads THEN NoThread ELSE lock

\* A plausible mistake for NextId: the last id itself.
NextIdOfLast(list) == IF list = << >> THEN 1 ELSE Last(list).id

\* The id of the next mail: 1, or one more than the last mail's.
NextId(list) == IF list = << >> THEN 1 ELSE Last(list).id + 1

\* A Put takes effect and succeeds; or it fails; or it takes effect but its
\* answer is lost.  The code only logs a failure.
PutBox(u, b) ==
    \/ box' = [box EXCEPT ![u] = b] /\ UNCHANGED fails
    \/ /\ fails < MaxFails
       /\ fails' = fails + 1
       /\ box' \in {box, [box EXCEPT ![u] = b]}

\* What the write of thread t does wrong: the list it read is no longer the
\* mailbox, or the mailbox does not become b.
HarmOfPut(t, u, b) ==
    (IF List(job[t].read) # List(box[u]) THEN {"stale"} ELSE {})
    \cup (IF box'[u] # b THEN {"failed"} ELSE {})

CausesOfPut(t, op) == (IF t \in HttpThreads THEN {"http"} ELSE {})
                      \cup (IF op = "delete" THEN {"delete"} ELSE {})

\* The mail is appended and the list written; sender and SMTP client are
\* told success in any case.
Deliver(t) ==
    LET u    == Head(job[t].tos)
        list == List(job[t].read)
        id   == NextId(list)
        b    == Append(list, [id |-> id, mail |-> job[t].mail])
    IN  /\ job[t] # Idle /\ job[t].pc = "put" /\ job[t].op = "deliver"
        /\ PutBox(u, b)
        /\ job' = [job EXCEPT ![t] = NextBox(t)]
        /\ Unlock(t)
        /\ kept' = [kept EXCEPT ![u] = @ \cup {job[t].mail}]
        /\ given' = [given EXCEPT ![u] = @ \cup {id}]
        /\ harm' = [harm EXCEPT ![u] =
                      @ \cup HarmOfPut(t, u, b)
                        \cup (IF id \in given[u] THEN {"reused"} ELSE {})]
        /\ causes' = [causes EXCEPT ![u] = @ \cup CausesOfPut(t, "deliver")]
        /\ UNCHANGED <<page, unsent, deletes>>

\* A plausible mistake for FirstWithId: the last entry is taken.
FirstWithIdLast(list, id) == Len(list)

\* The first entry with an id, 0 if there is none.
FirstWithId(list, id) ==
    LET found == {i \in DOMAIN list : list[i].id = id}
    IN  IF found = {} THEN 0 ELSE CHOOSE i \in found : \A j \in found : i <= j

\* deleteEmail: nothing is written if the string is empty; otherwise the list
\* is written back even if the id is not in it.  The answer is 200 if the id
\* was there, whatever becomes of the write, else 404.
Erase(t) ==
    LET u    == Head(job[t].tos)
        list == List(job[t].read)
        i    == FirstWithId(list, job[t].id)
        b    == IF i = 0 THEN list ELSE RemoveAt(list, i)
    IN  /\ job[t] # Idle /\ job[t].pc = "put" /\ job[t].op = "delete"
        /\ job' = [job EXCEPT ![t] = Idle]
        /\ \/ /\ job[t].read = NoBox
              /\ UNCHANGED <<box, fails, observed>>
           \/ /\ job[t].read # NoBox
              /\ PutBox(u, b)
              /\ kept' = [kept EXCEPT ![u] =
                            IF i = 0 THEN @ ELSE @ \ {job[t].mail}]
              /\ harm' = [harm EXCEPT ![u] = @ \cup HarmOfPut(t, u, b)]
              /\ causes' = [causes EXCEPT ![u] =
                              @ \cup CausesOfPut(t, "delete")]
              /\ UNCHANGED given
        /\ UNCHANGED <<lock, page, unsent, deletes>>

-----------------------------------------------------------------------------
(* Deaths of processes.                                                     *)

\* The HTTP server of a thread dies and takes the request with it.
HttpDies(t) ==
    /\ job[t] # Idle
    /\ fails < MaxFails
    /\ fails' = fails + 1
    /\ job' = [job EXCEPT ![t] = Idle]
    /\ UNCHANGED <<box, lock, page, unsent, deletes, observed>>

\* The SMTP service dies: all its threads go, and the lock with them.
SmtpDies ==
    /\ \E t \in SmtpThreads : job[t] # Idle
    /\ fails < MaxFails
    /\ fails' = fails + 1
    /\ job' = [t \in Threads |-> IF t \in SmtpThreads THEN Idle ELSE job[t]]
    /\ lock' = NoThread
    /\ UNCHANGED <<box, page, unsent, deletes, observed>>

Work(t) == Lock(t) \/ Get(t) \/ Deliver(t) \/ Erase(t)

Next ==
    \/ \E t \in Threads :
          \/ \E m \in Mails, tos \in Recipients : Send(t, m, tos)
          \/ \E u \in Users : \E i \in DOMAIN page[u] : Delete(t, u, page[u][i])
          \/ Work(t)
    \/ \E u \in Users : View(u)
    \/ \E t \in HttpThreads : HttpDies(t)
    \/ SmtpDies

Spec == Init /\ [][Next]_vars

\* A thread at work goes on: its calls return, with a failure if the store is
\* unavailable, and a mutex that is released again and again by a bounded
\* number of deliveries is obtained.
FairSpec == Spec /\ \A t \in Threads : WF_vars(Work(t))

-----------------------------------------------------------------------------
(* Properties.                                                              *)

\* Types of all variables.
TypeOK ==
    /\ box \in [Users -> Boxes]
    /\ job \in [Threads -> Jobs \cup {Idle}]
    /\ lock \in SmtpThreads \cup {NoThread}
    /\ page \in [Users -> Seq(Entries)]
    /\ unsent \subseteq Mails
    /\ fails \in 0 .. MaxFails /\ deletes \in 0 .. MaxDeletes
    /\ kept \in [Users -> SUBSET Mails]
    /\ given \in [Users -> SUBSET Nat]
    /\ harm \in [Users -> SUBSET Harms]
    /\ causes \in [Users -> SUBSET {"http", "delete"}]

Increasing(b) == \A i, j \in DOMAIN List(b) : i < j => List(b)[i].id < List(b)[j].id

\* The ids of a mailbox increase, so that each names one mail, however
\* deliveries and deletions overlap and whatever fails.  Their order is that
\* of the deliveries, and the page sorts by it.
IdsIncrease == \A u \in Users : Increasing(box[u])

\* A mailbox nothing has gone wrong with holds exactly the mails that have been
\* delivered and not deleted by their owner, by the answers the servers gave.
KeepsWhatItSaid == \A u \in Users : harm[u] = {} => MailsIn(box[u]) = kept[u]

\* What can go wrong has one of the known causes: a stale list is written only
\* if something failed or an HTTP thread wrote the mailbox (the SMTP threads
\* alone are kept apart by lock_); a write that is not there failed; an id is
\* given again only after a deletion, a stale write or a failed one.
HarmHasCause ==
    \A u \in Users :
       /\ "stale" \in harm[u] => fails > 0 \/ "http" \in causes[u]
       /\ "failed" \in harm[u] => fails > 0
       /\ "reused" \in harm[u] => \/ "delete" \in causes[u]
                                  \/ harm[u] \cap {"stale", "failed"} # {}

\* Every delivery and every deletion ends, in particular no SMTP thread waits
\* for the lock for ever.
JobsEnd == \A t \in Threads : job[t] # Idle ~> job[t] = Idle

=============================================================================
