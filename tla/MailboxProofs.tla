------------------------------ MODULE MailboxProofs ------------------------------
(***************************************************************************)
(* Proofs about module Mailbox: types, the order of ids, and the causes of *)
(* what can go wrong, for any numbers of users, mails and threads.         *)
(***************************************************************************)
EXTENDS Mailbox, SequenceTheorems, WellFoundedInduction, TLAPS

\* A set of natural numbers that is not empty has a least element.
LEMMA LeastNatural ==
  ASSUME NEW S \in SUBSET Nat, S # {}
  PROVE  \E i \in S : \A j \in S : i <= j
<1>1. PICK i \in S : \A j \in S : <<j, i>> \notin OpToRel(<, Nat)
  BY NatLessThanWellFounded, WFMin
<1>2. ASSUME NEW j \in S PROVE ~ (j < i)
  BY <1>1, Zenon DEF OpToRel
<1> QED
  BY <1>2

\* Erasing the i-th element moves those behind it one place forward.
LEMMA RemoveAtElement ==
    ASSUME NEW S, NEW q \in Seq(S), NEW i \in DOMAIN q
    PROVE  /\ RemoveAt(q, i) \in Seq(S)
           /\ DOMAIN RemoveAt(q, i) = 1 .. Len(q) - 1
           /\ \A j \in 1 .. Len(q) - 1 :
                 RemoveAt(q, i)[j] = IF j < i THEN q[j] ELSE q[j + 1]
<1> DEFINE a == SubSeq(q, 1, i - 1)
           b == SubSeq(q, i + 1, Len(q))
<1>1. /\ i \in 1 .. Len(q) /\ Len(q) \in Nat
      /\ a \in Seq(S) /\ Len(a) = i - 1 /\ \A j \in 1 .. i - 1 : a[j] = q[j]
  OBVIOUS
<1>2. /\ b \in Seq(S) /\ Len(b) = Len(q) - i
      /\ \A j \in 1 .. Len(q) - i : b[j] = q[j + i]
  BY <1>1
<1>3. RemoveAt(q, i) = a \o b
  BY DEF RemoveAt
<1> HIDE DEF a, b
<1>4. /\ a \o b \in Seq(S) /\ DOMAIN (a \o b) = 1 .. Len(q) - 1
      /\ \A j \in 1 .. Len(q) - 1 :
            (a \o b)[j] = IF j < i THEN a[j] ELSE b[j - (i - 1)]
  BY <1>1, <1>2
<1>5. ASSUME NEW j \in i .. Len(q) - 1
      PROVE  b[j - (i - 1)] = q[j + 1]
  <2>1. j - (i - 1) \in 1 .. Len(q) - i /\ (j - (i - 1)) + i = j + 1
    BY <1>1
  <2> QED
    BY <1>2, <2>1
<1> QED
  BY <1>1, <1>3, <1>4, <1>5

\* Between its Get and its Put an SMTP thread holds the lock, so that no other
\* one is between them.
Critical(t) == job[t] # Idle /\ job[t].pc \in {"get", "put"}
SmtpExclusive == \A t \in SmtpThreads : Critical(t) => lock = t

\* The threads of the HTTP servers never wait for the lock.
HttpNeverLocks == \A t \in HttpThreads : job[t] # Idle => job[t].pc # "lock"

\* The lists that threads have read are in order, too.
ReadsIncrease == \A t \in Threads : job[t] # Idle => Increasing(job[t].read)

\* What an SMTP thread is about to change is what is there, unless something
\* failed or an HTTP thread wrote.
ReadsFresh ==
    \A t \in SmtpThreads :
       job[t] # Idle /\ job[t].pc = "put"
       => LET u == Head(job[t].tos)
          IN  \/ List(job[t].read) = List(box[u])
              \/ fails > 0 \/ "http" \in causes[u]

\* The last mail has the largest of all ids given, until a mail is deleted or
\* something goes wrong.
LastIsLargest ==
    \A u \in Users :
       harm[u] \cap {"stale", "failed"} = {} /\ "delete" \notin causes[u]
       => \A g \in given[u] : List(box[u]) # << >> /\ g <= Last(List(box[u])).id

Safe == HttpNeverLocks /\ IdsIncrease /\ ReadsIncrease /\ SmtpExclusive
        /\ ReadsFresh /\ LastIsLargest /\ HarmHasCause

Inv == TypeOK /\ Safe

-----------------------------------------------------------------------------
(* Lists of mails.                                                          *)

\* The list of a mailbox is a list of mails, and a list is its own.
LEMMA ListType ==
  /\ \A b \in Boxes : List(b) \in Seq(Entries)
  /\ \A b \in Seq(Entries) : b \in Boxes /\ List(b) = b /\ b # NoBox
  BY NoBoxAssumption DEF List, Boxes

\* The next id is larger than all that are there.
LEMMA NextIdAbove ==
  ASSUME NEW b \in Boxes, Increasing(b)
  PROVE  /\ NextId(List(b)) \in Nat
         /\ \A i \in DOMAIN List(b) : List(b)[i].id < NextId(List(b))
         /\ List(b) # << >> => NextId(List(b)) = Last(List(b)).id + 1
<1> DEFINE list == List(b)
<1>1. list \in Seq(Entries)
  BY ListType
<1> HIDE DEF list
<1>2. CASE list = << >>
  BY <1>2 DEF NextId, list
<1>3. CASE list # << >>
  <2>1. Len(list) \in DOMAIN list /\ \A i \in DOMAIN list : i <= Len(list)
    BY <1>1, <1>3
  <2>2. \A i \in DOMAIN list : list[i].id \in Nat
    <3>1. \A i \in DOMAIN list : list[i] \in Entries
      BY <1>1
    <3> QED
      BY <3>1 DEF Entries
  <2>3. \A i \in DOMAIN list : list[i].id <= list[Len(list)].id
    <3>1. ASSUME NEW i \in DOMAIN list, i # Len(list)
          PROVE  list[i].id < list[Len(list)].id
      <4>1. i < Len(list)
        BY <1>1, <2>1, <3>1
      <4> QED
        BY <2>1, <4>1 DEF Increasing, list
    <3> QED
      BY <2>1, <2>2, <3>1
  <2>4. NextId(list) = list[Len(list)].id + 1
    BY <1>3 DEF NextId, Last
  <2> QED
    BY <2>1, <2>2, <2>3, <2>4 DEF list, Last
<1> QED
  BY <1>2, <1>3

\* In any list the next id is a number.
LEMMA NextIdType ==
  ASSUME NEW list \in Seq(Entries)
  PROVE  NextId(list) \in Nat
<1>1. CASE list = << >>
  BY <1>1 DEF NextId
<1>2. CASE list # << >>
  <2>1. list[Len(list)] \in Entries
    BY <1>2
  <2> QED
    BY <1>2, <2>1 DEF NextId, Last, Entries
<1> QED
  BY <1>1, <1>2

\* A mail appended under the next id keeps the order, and is the last.
LEMMA AppendIncreases ==
  ASSUME NEW b \in Boxes, Increasing(b), NEW e \in Entries, e.id = NextId(List(b))
  PROVE  /\ Append(List(b), e) \in Seq(Entries) /\ Increasing(Append(List(b), e))
         /\ List(Append(List(b), e)) = Append(List(b), e)
         /\ Append(List(b), e) # << >> /\ Last(Append(List(b), e)).id = NextId(List(b))
<1> DEFINE list == List(b)
           new == Append(list, e)
<1>1. list \in Seq(Entries) /\ \A i \in DOMAIN list : list[i].id < e.id
  BY ListType, NextIdAbove
<1> HIDE DEF list, new
<1>2. new = Append(list, e)
  BY DEF new
<1>3. new \in Seq(Entries) /\ Len(new) = Len(list) + 1 /\ new[Len(new)] = e
      /\ \A i \in DOMAIN list : new[i] = list[i]
  <2>1. Append(list, e) \in Seq(Entries) /\ Len(Append(list, e)) = Len(list) + 1
        /\ Append(list, e)[Len(list) + 1] = e
        /\ \A i \in DOMAIN list : Append(list, e)[i] = list[i]
    BY <1>1
  <2> QED
    BY <1>2, <2>1
<1>4. List(new) = new
  BY <1>3, ListType
<1>5. ASSUME NEW i \in DOMAIN new, NEW j \in DOMAIN new, i < j
      PROVE  new[i].id < new[j].id
  <2>1. i \in DOMAIN list /\ new[i] = list[i]
    BY <1>1, <1>3, <1>5
  <2>2. CASE j = Len(new)
    BY <1>1, <1>3, <2>1, <2>2
  <2>3. CASE j # Len(new)
    <3>1. j \in DOMAIN list /\ new[j] = list[j]
      BY <1>1, <1>3, <2>3
    <3> QED
      BY <1>5, <2>1, <3>1 DEF Increasing, list
  <2> QED
    BY <2>2, <2>3
<1>6. new # << >> /\ Last(new).id = e.id
  BY <1>1, <1>3 DEF Last
<1> QED
  BY <1>3, <1>4, <1>5, <1>6 DEF Increasing, list, new

\* An erased mail leaves the others in order.
LEMMA EraseIncreases ==
  ASSUME NEW b \in Boxes, Increasing(b), NEW i \in DOMAIN List(b)
  PROVE  RemoveAt(List(b), i) \in Seq(Entries) /\ Increasing(RemoveAt(List(b), i))
<1> DEFINE list == List(b)
           new == RemoveAt(list, i)
<1>1. list \in Seq(Entries)
  BY ListType
<1>2. /\ new \in Seq(Entries) /\ i \in 1 .. Len(list) /\ Len(list) \in Nat
      /\ DOMAIN new = 1 .. Len(list) - 1 /\ DOMAIN list = 1 .. Len(list)
      /\ \A j \in 1 .. Len(list) - 1 :
            new[j] = IF j < i THEN list[j] ELSE list[j + 1]
  <2>1. i \in DOMAIN list
    OBVIOUS
  <2> HIDE DEF list
  <2> QED
    BY <1>1, <2>1, RemoveAtElement
<1>3. List(new) = new
  BY <1>2, ListType
<1> HIDE DEF new
<1>4. ASSUME NEW j \in DOMAIN new, NEW k \in DOMAIN new, j < k
      PROVE  new[j].id < new[k].id
  <2>1. PICK jj \in DOMAIN list : new[j] = list[jj] /\ jj \in {j, j + 1}
                                  /\ (jj = j + 1 => j >= i)
    BY <1>2
  <2>2. PICK kk \in DOMAIN list : new[k] = list[kk] /\ kk \in {k, k + 1}
                                  /\ (kk = k => k < i)
    BY <1>2
  <2>3. j \in Nat /\ k \in Nat /\ i \in Nat
    BY <1>1, <1>2
  <2>4. jj < kk
    BY <1>4, <2>1, <2>2, <2>3
  <2> QED
    BY <2>1, <2>2, <2>4 DEF Increasing
<1> QED
  BY <1>2, <1>3, <1>4 DEF Increasing, new

\* The position found by an id is in the list and holds that id.
LEMMA FirstWithIdType ==
  ASSUME NEW list \in Seq(Entries), NEW id
  PROVE  /\ FirstWithId(list, id) \in DOMAIN list \cup {0}
         /\ FirstWithId(list, id) # 0 => list[FirstWithId(list, id)].id = id
<1> DEFINE found == {i \in DOMAIN list : list[i].id = id}
<1>1. CASE found = {}
  BY <1>1 DEF FirstWithId
<1>2. CASE found # {}
  <2>1. found \in SUBSET Nat
    OBVIOUS
  <2>2. \E i \in found : \A j \in found : i <= j
    <3> HIDE DEF found
    <3> QED
      BY <1>2, <2>1, LeastNatural
  <2>3. (CHOOSE i \in found : \A j \in found : i <= j) \in found
    <3> HIDE DEF found
    <3> QED
      BY <2>2
  <2>4. FirstWithId(list, id) = CHOOSE i \in found : \A j \in found : i <= j
    BY <1>2 DEF FirstWithId
  <2> QED
    BY <2>3, <2>4
<1> QED
  BY <1>1, <1>2

-----------------------------------------------------------------------------
(* Types.                                                                   *)

\* A thread at work has a job, a mailbox to change, and its name.
LEMMA JobType ==
  ASSUME TypeOK, NEW t \in Threads, job[t] # Idle
  PROVE  /\ job[t] \in Jobs
         /\ job[t].tos \in Seq(Users) /\ job[t].tos # << >>
         /\ Head(job[t].tos) \in Users
         /\ job[t].mail \in Mails /\ job[t].id \in Nat
         /\ job[t].read \in Boxes /\ List(job[t].read) \in Seq(Entries)
<1>1. job[t] \in Jobs
  BY DEF TypeOK
<1>2. /\ job[t].tos \in Seq(Users) /\ job[t].tos # << >>
      /\ job[t].mail \in Mails /\ job[t].id \in Nat /\ job[t].read \in Boxes
  BY <1>1 DEF Jobs
<1>3. Head(job[t].tos) \in Users
  BY <1>2
<1> QED
  BY <1>1, <1>2, <1>3, ListType

\* The steps of a job.
LEMMA JobSteps ==
  ASSUME NEW j \in Jobs
  PROVE  /\ \A pc \in {"lock", "get", "put"} : [j EXCEPT !.pc = pc] \in Jobs
         /\ \A read \in Boxes : [j EXCEPT !.pc = "put", !.read = read] \in Jobs
         /\ \A tos \in Seq(Users) \ {<< >>}, pc \in {"lock", "get"} :
               [j EXCEPT !.tos = tos, !.read = NoBox, !.pc = pc] \in Jobs
  BY DEF Jobs, Boxes

\* After its first mailbox a thread is idle, or at the lock or its Get again.
LEMMA NextBoxType ==
  ASSUME TypeOK, NEW t \in Threads, job[t] # Idle
  PROVE  /\ NextBox(t) \in Jobs \cup {Idle}
         /\ NextBox(t) # Idle => /\ NextBox(t).read = NoBox
                                 /\ NextBox(t).pc \in {"lock", "get"}
                                 /\ NextBox(t).pc = "lock" <=> t \in SmtpThreads
<1>1. job[t] \in Jobs /\ job[t].tos \in Seq(Users) /\ job[t].tos # << >>
  BY JobType
<1>2. CASE Len(job[t].tos) = 1
  BY <1>2 DEF NextBox
<1>3. CASE Len(job[t].tos) # 1
  <2> DEFINE pc == IF t \in SmtpThreads THEN "lock" ELSE "get"
  <2>1. Tail(job[t].tos) \in Seq(Users) \ {<< >>}
    <3>1. Tail(job[t].tos) \in Seq(Users)
          /\ Len(Tail(job[t].tos)) = Len(job[t].tos) - 1
      BY <1>1, HeadTailProperties
    <3>2. Len(Tail(job[t].tos)) # 0
      BY <1>1, <1>3, <3>1
    <3>3. Len(<< >>) = 0
      OBVIOUS
    <3> QED
      BY <3>1, <3>2, <3>3, Zenon
  <2>2. NextBox(t) = [job[t] EXCEPT !.tos = Tail(job[t].tos), !.read = NoBox,
                                    !.pc = pc]
    BY <1>3 DEF NextBox
  <2>3. pc \in {"lock", "get"} /\ (t \in SmtpThreads => pc = "lock")
        /\ (t \notin SmtpThreads => pc = "get")
    OBVIOUS
  <2> HIDE DEF pc
  <2>4. NextBox(t) \in Jobs
    <3>1. [job[t] EXCEPT !.tos = Tail(job[t].tos), !.read = NoBox, !.pc = pc] \in Jobs
      BY <1>1, <2>1, <2>3, JobSteps, Zenon
    <3> QED
      BY <2>2, <3>1, Zenon
  <2>5. NextBox(t).read = NoBox /\ NextBox(t).pc = pc
    BY <1>1, <2>2 DEF Jobs
  <2> QED
    BY <2>3, <2>4, <2>5
<1> QED
  BY <1>2, <1>3

\* What a Put leaves behind is what was there or what was written.
LEMMA PutBoxEffect ==
  ASSUME TypeOK, NEW u \in Users, NEW b \in Seq(Entries), PutBox(u, b)
  PROVE  /\ box' \in [Users -> Boxes] /\ fails' \in 0 .. MaxFails
         /\ fails' >= fails
         /\ \A v \in Users \ {u} : box'[v] = box[v]
         /\ \/ box'[u] = b
            \/ box'[u] = box[u] /\ fails' > 0
<1>1. b \in Boxes
  BY DEF Boxes
<1>2. box \in [Users -> Boxes] /\ fails \in 0 .. MaxFails /\ MaxFails \in Nat
  BY BoundsAssumption DEF TypeOK
<1>3. CASE box' = [box EXCEPT ![u] = b] /\ fails' = fails
  BY <1>1, <1>2, <1>3
<1>4. CASE fails < MaxFails /\ fails' = fails + 1
           /\ box' \in {box, [box EXCEPT ![u] = b]}
  BY <1>1, <1>2, <1>4
<1> QED
  BY <1>3, <1>4 DEF PutBox

\* The harms and causes of a write are among those there are.
LEMMA HarmType ==
  ASSUME NEW t, NEW u, NEW b, NEW op \in {"deliver", "delete"}
  PROVE  /\ HarmOfPut(t, u, b) \subseteq {"stale", "failed"}
         /\ CausesOfPut(t, op) \subseteq {"http", "delete"}
  BY DEF HarmOfPut, CausesOfPut

\* Requests keep the types.
LEMMA RequestType ==
  ASSUME TypeOK,
         \/ \E t \in Threads, m \in Mails, tos \in Recipients : Send(t, m, tos)
         \/ \E u \in Users : View(u)
         \/ \E t \in Threads, u \in Users : \E i \in DOMAIN page[u] :
               Delete(t, u, page[u][i])
  PROVE  TypeOK'
<1>1. ASSUME NEW t \in Threads, NEW m \in Mails, NEW tos \in Recipients,
             Send(t, m, tos)
      PROVE  TypeOK'
  <2>1. tos \in Seq(Users) \ {<< >>}
    <3>1. PICK n \in 1 .. MaxTos : tos \in [1 .. n -> Users]
      BY DEF Recipients
    <3>2. tos \in Seq(Users)
      BY <3>1, IsASeq, BoundsAssumption
    <3> QED
      BY <3>1, <3>2
  <2>2. job' \in [Threads -> Jobs \cup {Idle}]
    BY <1>1, <2>1 DEF Send, TypeOK, Jobs, Boxes
  <2> QED
    BY <1>1, <2>2 DEF Send, TypeOK, observed
<1>2. ASSUME NEW u \in Users, View(u)
      PROVE  TypeOK'
  <2>1. page' \in [Users -> Seq(Entries)]
    <3>1. List(box[u]) \in Seq(Entries) /\ << >> \in Seq(Entries)
      BY ListType DEF TypeOK
    <3> QED
      BY <1>2, <3>1 DEF View, TypeOK
  <2>2. fails' \in 0 .. MaxFails
    BY <1>2, BoundsAssumption DEF View, TypeOK
  <2> QED
    BY <1>2, <2>1, <2>2 DEF View, TypeOK, observed
<1>3. ASSUME NEW t \in Threads, NEW u \in Users, NEW i \in DOMAIN page[u],
             Delete(t, u, page[u][i])
      PROVE  TypeOK'
  <2>1. page[u][i] \in Entries
    <3>1. page[u] \in Seq(Entries)
      BY DEF TypeOK
    <3> QED
      BY <3>1
  <2>2. page[u][i].mail \in Mails /\ page[u][i].id \in Nat
    BY <2>1 DEF Entries
  <2>3. <<u>> \in Seq(Users) \ {<< >>}
    OBVIOUS
  <2>4. job' \in [Threads -> Jobs \cup {Idle}]
    BY <1>3, <2>2, <2>3 DEF Delete, TypeOK, Jobs, Boxes
  <2>5. deletes' \in 0 .. MaxDeletes
    BY <1>3, BoundsAssumption DEF Delete, TypeOK
  <2> QED
    BY <1>3, <2>4, <2>5 DEF Delete, TypeOK, observed
<1> QED
  BY <1>1, <1>2, <1>3

\* So does the work of a thread.
LEMMA WorkType ==
  ASSUME TypeOK, HttpNeverLocks, NEW t \in Threads, Work(t)
  PROVE  TypeOK'
<1>1. job[t] # Idle
  BY DEF Work, Lock, Get, Deliver, Erase
<1> DEFINE u == Head(job[t].tos)
           list == List(job[t].read)
<1>2. job[t] \in Jobs /\ u \in Users /\ job[t].mail \in Mails
      /\ job[t].read \in Boxes /\ list \in Seq(Entries)
  BY <1>1, JobType
<1> HIDE DEF u, list
<1>3. CASE Lock(t)
  <2>1. t \in SmtpThreads
    BY <1>1, <1>3 DEF Lock, HttpNeverLocks, Threads
  <2>2. job' \in [Threads -> Jobs \cup {Idle}]
    BY <1>2, <1>3, JobSteps DEF Lock, TypeOK
  <2> QED
    BY <1>3, <2>1, <2>2 DEF Lock, TypeOK, observed
<1>4. CASE Get(t)
  <2>1. box[u] \in Boxes /\ NoBox \in Boxes
    BY <1>2 DEF TypeOK, Boxes
  <2>2. PICK read \in Boxes :
          job' = [job EXCEPT ![t] = [job[t] EXCEPT !.pc = "put", !.read = read]]
    BY <1>4, <2>1 DEF Get, u
  <2>3. [job[t] EXCEPT !.pc = "put", !.read = read] \in Jobs
    BY <1>2, JobSteps
  <2>4. job' \in [Threads -> Jobs \cup {Idle}]
    BY <2>2, <2>3 DEF TypeOK
  <2>5. fails' \in 0 .. MaxFails
    BY <1>4, BoundsAssumption DEF Get, TypeOK
  <2> QED
    BY <1>4, <2>4, <2>5 DEF Get, TypeOK, observed
<1>5. CASE Deliver(t)
  <2> DEFINE id == NextId(list)
             e == [id |-> id, mail |-> job[t].mail]
             b == Append(list, e)
  <2>1. id \in Nat
    BY <1>2, NextIdType DEF list
  <2>2. b \in Seq(Entries)
    BY <1>2, <2>1 DEF Entries
  <2> HIDE DEF id, b
  <2>3. PutBox(u, b) /\ job' = [job EXCEPT ![t] = NextBox(t)] /\ Unlock(t)
        /\ kept' = [kept EXCEPT ![u] = @ \cup {job[t].mail}]
        /\ given' = [given EXCEPT ![u] = @ \cup {id}]
        /\ UNCHANGED <<page, unsent, deletes>>
    BY <1>5 DEF Deliver, u, list, id, b
  <2>4. box' \in [Users -> Boxes] /\ fails' \in 0 .. MaxFails
    BY <1>2, <2>2, <2>3, PutBoxEffect
  <2>5. harm' \in [Users -> SUBSET Harms] /\ causes' \in [Users -> SUBSET {"http", "delete"}]
    <3>1. PICK more \in SUBSET Harms : harm' = [harm EXCEPT ![u] = @ \cup more]
      <4>1. HarmOfPut(t, u, b) \cup (IF id \in given[u] THEN {"reused"} ELSE {})
            \in SUBSET Harms
        BY HarmType DEF Harms
      <4>2. harm' = [harm EXCEPT ![u] =
                       @ \cup (HarmOfPut(t, u, b)
                              \cup (IF id \in given[u] THEN {"reused"} ELSE {}))]
        BY <1>5 DEF Deliver, u, list, id, b
      <4> QED
        BY <4>1, <4>2
    <3>2. causes' = [causes EXCEPT ![u] = @ \cup CausesOfPut(t, "deliver")]
      BY <1>5 DEF Deliver, u
    <3> QED
      BY <3>1, <3>2, HarmType DEF TypeOK
  <2>6. job' \in [Threads -> Jobs \cup {Idle}]
    BY <1>1, <2>3, NextBoxType DEF TypeOK
  <2> QED
    BY <1>2, <2>1, <2>3, <2>4, <2>5, <2>6 DEF TypeOK, Unlock
<1>6. CASE Erase(t)
  <2> DEFINE i == FirstWithId(list, job[t].id)
             b == IF i = 0 THEN list ELSE RemoveAt(list, i)
  <2>1. b \in Seq(Entries)
    <3>1. i \in DOMAIN list \cup {0}
      BY <1>2, FirstWithIdType
    <3> HIDE DEF i
    <3> QED
      BY <1>2, <3>1, RemoveAtElement
  <2> HIDE DEF i, b
  <2>2. job' = [job EXCEPT ![t] = Idle] /\ UNCHANGED <<lock, page, unsent, deletes>>
    BY <1>6 DEF Erase
  <2>3. job' \in [Threads -> Jobs \cup {Idle}]
    BY <2>2 DEF TypeOK
  <2>4. CASE UNCHANGED <<box, fails, observed>>
    BY <2>2, <2>3, <2>4 DEF TypeOK, observed
  <2>5. CASE job[t].read # NoBox
    <3>1. /\ PutBox(u, b)
          /\ kept' = [kept EXCEPT ![u] = IF i = 0 THEN @ ELSE @ \ {job[t].mail}]
          /\ harm' = [harm EXCEPT ![u] = @ \cup HarmOfPut(t, u, b)]
          /\ causes' = [causes EXCEPT ![u] = @ \cup CausesOfPut(t, "delete")]
          /\ UNCHANGED given
      BY <1>6, <2>5 DEF Erase, u, list, i, b
    <3>2. box' \in [Users -> Boxes] /\ fails' \in 0 .. MaxFails
      BY <1>2, <2>1, <3>1, PutBoxEffect
    <3>3. harm' \in [Users -> SUBSET Harms]
      BY <3>1, HarmType DEF TypeOK, Harms
    <3>4. causes' \in [Users -> SUBSET {"http", "delete"}]
      BY <3>1, HarmType DEF TypeOK
    <3>5. kept' \in [Users -> SUBSET Mails]
      BY <3>1 DEF TypeOK
    <3> QED
      BY <2>2, <2>3, <3>1, <3>2, <3>3, <3>4, <3>5 DEF TypeOK
  <2> QED
    BY <1>6, <2>4, <2>5 DEF Erase
<1> QED
  BY <1>3, <1>4, <1>5, <1>6 DEF Work

\* The deaths of processes keep the types.
LEMMA DeathType ==
  ASSUME TypeOK, (\E t \in HttpThreads : HttpDies(t)) \/ SmtpDies
  PROVE  TypeOK'
<1>1. job' \in [Threads -> Jobs \cup {Idle}]
  BY DEF TypeOK, HttpDies, SmtpDies
<1>2. fails' \in 0 .. MaxFails
  BY BoundsAssumption DEF TypeOK, HttpDies, SmtpDies
<1> QED
  BY <1>1, <1>2 DEF TypeOK, HttpDies, SmtpDies, observed

-----------------------------------------------------------------------------
(* Steps that write no mailbox.                                             *)

\* A thread that keeps its job, or has none, or begins with a mailbox.
Begins(t) == \/ job'[t] = job[t]
             \/ job'[t] = Idle
             \/ /\ job'[t].read = NoBox
                /\ job'[t].pc \in {"lock", "get"}
                /\ t \in HttpThreads => job'[t].pc = "get"

\* If all threads are like that, no mailbox is written and nothing is repaired,
\* only the lock is left to look at.
LEMMA BeginsKeepsSafe ==
  ASSUME Inv, TypeOK', UNCHANGED <<box, observed>>, fails' >= fails,
         \A t \in Threads : Begins(t), SmtpExclusive'
  PROVE  Safe'
<1>1. HttpNeverLocks'
  BY DEF Inv, Safe, HttpNeverLocks, Begins, Threads
<1>2. IdsIncrease' /\ LastIsLargest'
  BY DEF Inv, Safe, IdsIncrease, LastIsLargest, Increasing, observed
<1>3. ReadsIncrease'
  <2>1. Increasing(NoBox)
    BY DEF Increasing, List
  <2> QED
    BY <2>1 DEF Inv, Safe, ReadsIncrease, Begins
<1>4. ReadsFresh'
  <2>1. ASSUME NEW t \in SmtpThreads, job'[t] # Idle, job'[t].pc = "put"
        PROVE  job'[t] = job[t]
    BY <2>1 DEF Begins, Threads
  <2>2. fails \in Nat /\ fails' \in Nat
    BY DEF Inv, TypeOK
  <2> QED
    BY <2>1, <2>2 DEF Inv, Safe, ReadsFresh, observed
<1>5. HarmHasCause'
  <2>1. fails \in Nat /\ fails' \in Nat
    BY DEF Inv, TypeOK
  <2> QED
    BY <2>1 DEF Inv, Safe, HarmHasCause, observed
<1> QED
  BY <1>1, <1>2, <1>3, <1>4, <1>5 DEF Safe

\* A thread that is not between Get and Put may do anything with its job that
\* does not put it there, as far as the lock is concerned.
LEMMA BeginsKeepsLock ==
  ASSUME Inv, lock' = lock,
         \A t \in SmtpThreads : job'[t] = job[t] \/ job'[t] = Idle
                               \/ job'[t].pc = "lock"
  PROVE  SmtpExclusive'
  BY DEF Inv, Safe, SmtpExclusive, Critical

\* Requests and deaths write no mailbox.
LEMMA RequestKeepsSafe ==
  ASSUME Inv, TypeOK',
         \/ \E t \in Threads, m \in Mails, tos \in Recipients : Send(t, m, tos)
         \/ \E u \in Users : View(u)
         \/ \E t \in Threads, u \in Users : \E i \in DOMAIN page[u] :
               Delete(t, u, page[u][i])
         \/ \E t \in HttpThreads : HttpDies(t)
         \/ UNCHANGED vars
  PROVE  Safe'
<1>1. UNCHANGED <<box, observed>> /\ lock' = lock
  BY DEF Send, View, Delete, HttpDies, vars
<1>2. fails' >= fails
  <2>1. fails \in Nat
    BY DEF Inv, TypeOK
  <2> QED
    BY <2>1 DEF Send, View, Delete, HttpDies, vars
<1>3. ASSUME NEW t \in Threads
      PROVE  Begins(t) /\ (t \in SmtpThreads => \/ job'[t] = job[t] \/ job'[t] = Idle
                                               \/ job'[t].pc = "lock")
  <2>1. t \in SmtpThreads \/ t \in HttpThreads
    BY DEF Threads
  <2>2. job \in [Threads -> Jobs \cup {Idle}]
    BY DEF Inv, TypeOK
  <2>3. CASE \E r \in Threads, m \in Mails, tos \in Recipients : Send(r, m, tos)
    BY <2>1, <2>2, <2>3, ThreadsAssumption DEF Send, Begins
  <2>4. CASE \E r \in Threads, u \in Users : \E i \in DOMAIN page[u] :
               Delete(r, u, page[u][i])
    BY <2>1, <2>2, <2>4, ThreadsAssumption DEF Delete, Begins
  <2>5. CASE (\E u \in Users : View(u)) \/ UNCHANGED vars
    BY <2>5 DEF View, Begins, vars
  <2>6. CASE \E r \in HttpThreads : HttpDies(r)
    BY <2>2, <2>6 DEF HttpDies, Begins
  <2> QED
    BY <2>3, <2>4, <2>5, <2>6
<1>4. SmtpExclusive'
  BY <1>1, <1>3, BeginsKeepsLock DEF Threads
<1> QED
  BY <1>1, <1>2, <1>3, <1>4, BeginsKeepsSafe

\* When the SMTP service dies, none of its threads is left.
LEMMA SmtpDiesKeepsSafe ==
  ASSUME Inv, TypeOK', SmtpDies
  PROVE  Safe'
<1>1. \A t \in Threads : Begins(t)
  BY DEF SmtpDies, Begins
<1>2. SmtpExclusive'
  BY DEF SmtpDies, SmtpExclusive, Critical, Threads
<1>3. fails' >= fails /\ UNCHANGED <<box, observed>>
  <2>1. fails \in Nat
    BY DEF Inv, TypeOK
  <2> QED
    BY <2>1 DEF SmtpDies
<1> QED
  BY <1>1, <1>2, <1>3, BeginsKeepsSafe

\* A thread gets the lock only if no other one has it, and then none is between
\* Get and Put.
LEMMA LockKeepsSafe ==
  ASSUME Inv, TypeOK', NEW t \in Threads, Lock(t)
  PROVE  Safe'
<1>1. job[t] \in Jobs /\ job[t].pc = "lock" /\ t \in SmtpThreads
  BY JobType DEF Lock, Inv, Safe, HttpNeverLocks, Threads
<1>2. job' = [job EXCEPT ![t] = [job[t] EXCEPT !.pc = "get"]]
  BY DEF Lock
<1>3. \A r \in Threads \ {t} : job'[r] = job[r]
  BY <1>2 DEF Inv, TypeOK
<1>4. SmtpExclusive'
  <2>1. ASSUME NEW r \in SmtpThreads \ {t}
        PROVE  ~ Critical(r)
    BY <2>1, ThreadsAssumption DEF Lock, Inv, Safe, SmtpExclusive, Threads
  <2> QED
    BY <1>3, <2>1 DEF Lock, SmtpExclusive, Critical, Threads
<1>5. Safe'
  <2>1. HttpNeverLocks'
    BY <1>1, <1>3, ThreadsAssumption DEF Inv, Safe, HttpNeverLocks, Threads
  <2>2. UNCHANGED <<box, fails, observed>>
    BY DEF Lock
  <2>3. job'[t].read = job[t].read /\ job'[t].pc = "get" /\ job[t] # Idle
    BY <1>1, <1>2 DEF Lock, Inv, TypeOK, Jobs
  <2>4. ReadsIncrease'
    BY <1>3, <2>3 DEF Inv, Safe, ReadsIncrease
  <2>5. ReadsFresh'
    BY <1>3, <2>2, <2>3 DEF Inv, Safe, ReadsFresh, Threads, observed
  <2>6. IdsIncrease' /\ LastIsLargest' /\ HarmHasCause'
    BY <2>2 DEF Inv, Safe, IdsIncrease, LastIsLargest, HarmHasCause, observed
  <2> QED
    BY <1>4, <2>1, <2>4, <2>5, <2>6 DEF Safe
<1> QED
  BY <1>5

\* What a thread reads is the mailbox, or something failed.
LEMMA GetKeepsSafe ==
  ASSUME Inv, TypeOK', NEW t \in Threads, Get(t)
  PROVE  Safe'
<1> DEFINE u == Head(job[t].tos)
<1>1. job[t] \in Jobs /\ u \in Users /\ job[t] # Idle /\ job[t].pc = "get"
  BY JobType DEF Get, Inv
<1> DEFINE read == job'[t].read
<1>2. job \in [Threads -> Jobs \cup {Idle}] /\ fails \in Nat
  BY DEF Inv, TypeOK
<1>3. /\ \A r \in Threads \ {t} : job'[r] = job[r]
      /\ job'[t].pc = "put" /\ job'[t].tos = job[t].tos
      /\ fails' >= fails
      /\ \/ read = box[u]
         \/ read = NoBox /\ fails' > 0
  <2>1. CASE /\ job' = [job EXCEPT ![t].pc = "put", ![t].read = box[u]]
             /\ fails' = fails
    <3>1. job'[t] = [job[t] EXCEPT !.pc = "put", !.read = box[u]]
      BY <1>2, <2>1
    <3> QED
      BY <1>1, <1>2, <2>1, <3>1 DEF Jobs
  <2>2. CASE /\ job' = [job EXCEPT ![t].pc = "put", ![t].read = NoBox]
             /\ fails' = fails + 1
    <3>1. job'[t] = [job[t] EXCEPT !.pc = "put", !.read = NoBox]
      BY <1>2, <2>2
    <3> QED
      BY <1>1, <1>2, <2>2, <3>1 DEF Jobs
  <2> QED
    BY <2>1, <2>2 DEF Get
<1>4. UNCHANGED <<box, lock, observed>> /\ fails \in Nat /\ fails' \in Nat
  BY DEF Get, Inv, TypeOK
<1>5. HttpNeverLocks' /\ SmtpExclusive'
  BY <1>1, <1>3, <1>4
     DEF Inv, Safe, HttpNeverLocks, SmtpExclusive, Critical, Threads
<1>6. ReadsIncrease'
  <2>1. Increasing(read)
    BY <1>1, <1>3 DEF Inv, Safe, IdsIncrease, Increasing, List
  <2> QED
    BY <1>3, <2>1 DEF Inv, Safe, ReadsIncrease
<1>7. ReadsFresh'
  <2>1. ASSUME NEW r \in SmtpThreads \ {t}, job'[r] # Idle, job'[r].pc = "put"
        PROVE  \/ List(job'[r].read) = List(box'[Head(job'[r].tos)])
               \/ fails' > 0 \/ "http" \in causes'[Head(job'[r].tos)]
    BY <1>3, <1>4, <2>1 DEF Inv, Safe, ReadsFresh, Threads, observed
  <2>2. \/ List(job'[t].read) = List(box'[Head(job'[t].tos)])
        \/ fails' > 0
    BY <1>3, <1>4
  <2> QED
    BY <2>1, <2>2 DEF ReadsFresh, List
<1>8. IdsIncrease' /\ LastIsLargest' /\ HarmHasCause'
  BY <1>3, <1>4 DEF Inv, Safe, IdsIncrease, LastIsLargest, HarmHasCause, observed
<1> QED
  BY <1>5, <1>6, <1>7, <1>8 DEF Safe

-----------------------------------------------------------------------------
(* Steps that write a mailbox.                                              *)

\* What goes wrong with a write has its cause, and a write that nothing goes
\* wrong with adds to what was there.
LEMMA HarmOfPutCause ==
  ASSUME Inv, NEW t \in Threads, job[t] # Idle, job[t].pc = "put",
         NEW u \in Users, u = Head(job[t].tos), NEW b \in Seq(Entries),
         PutBox(u, b), NEW op \in {"deliver", "delete"},
         causes' = [causes EXCEPT ![u] = @ \cup CausesOfPut(t, op)]
  PROVE  /\ "stale" \in HarmOfPut(t, u, b) => fails' > 0 \/ "http" \in causes'[u]
         /\ "failed" \in HarmOfPut(t, u, b) => fails' > 0
         /\ "reused" \notin HarmOfPut(t, u, b)
         /\ HarmOfPut(t, u, b) = {} => List(job[t].read) = List(box[u]) /\ box'[u] = b
<1>1. fails' >= fails /\ fails \in Nat /\ fails' \in Nat
      /\ (box'[u] = b \/ fails' > 0)
  BY PutBoxEffect DEF Inv, TypeOK
<1>2. causes'[u] = causes[u] \cup CausesOfPut(t, op)
  BY DEF Inv, TypeOK
<1>3. ASSUME List(job[t].read) # List(box[u])
      PROVE  fails' > 0 \/ "http" \in causes'[u]
  <2>1. CASE t \in HttpThreads
    BY <1>2, <2>1 DEF CausesOfPut
  <2>2. CASE t \in SmtpThreads
    BY <1>1, <1>2, <1>3, <2>2 DEF Inv, Safe, ReadsFresh
  <2> QED
    BY <2>1, <2>2 DEF Threads
<1> QED
  BY <1>1, <1>3 DEF HarmOfPut

\* A write leaves all lists in order and the other SMTP threads as they were.
LEMMA WriteKeepsOrder ==
  ASSUME Inv, TypeOK', NEW t \in Threads, job[t] # Idle, job[t].pc = "put",
         NEW u \in Users, u = Head(job[t].tos), NEW b \in Seq(Entries),
         PutBox(u, b), Increasing(b), NEW op \in {"deliver", "delete"},
         causes' = [causes EXCEPT ![u] = @ \cup CausesOfPut(t, op)],
         \A r \in Threads \ {t} : job'[r] = job[r],
         job'[t] # Idle => /\ job'[t].read = NoBox
                           /\ job'[t].pc \in {"lock", "get"}
                           /\ job'[t].pc = "lock" <=> t \in SmtpThreads,
         lock' = lock \/ t \in SmtpThreads
  PROVE  HttpNeverLocks' /\ IdsIncrease' /\ ReadsIncrease' /\ SmtpExclusive'
         /\ ReadsFresh'
<1>1. /\ fails' >= fails /\ fails \in Nat /\ fails' \in Nat
      /\ \A v \in Users \ {u} : box'[v] = box[v]
      /\ box'[u] = b \/ box'[u] = box[u]
  BY PutBoxEffect DEF Inv, TypeOK
<1>2. /\ causes'[u] = causes[u] \cup CausesOfPut(t, op)
      /\ \A v \in Users \ {u} : causes'[v] = causes[v]
  BY DEF Inv, TypeOK
<1>3. HttpNeverLocks'
  BY ThreadsAssumption DEF Inv, Safe, HttpNeverLocks, Threads
<1>4. IdsIncrease'
  <2>1. \A v \in Users : Increasing(box[v])
    BY DEF Inv, Safe, IdsIncrease
  <2> QED
    BY <1>1, <2>1 DEF IdsIncrease, Increasing
<1>5. ReadsIncrease'
  <2>1. Increasing(NoBox)
    BY DEF Increasing, List
  <2> QED
    BY <2>1 DEF Inv, Safe, ReadsIncrease, Increasing
<1>6. ASSUME NEW r \in SmtpThreads \ {t}, t \in SmtpThreads
      PROVE  ~ Critical(r)
  BY <1>6 DEF Inv, Safe, SmtpExclusive, Critical
<1>7. SmtpExclusive'
  <2>1. ASSUME NEW r \in SmtpThreads \ {t}, Critical(r)'
        PROVE  lock' = r
    <3>1. Critical(r)
      BY <2>1 DEF Critical, Threads
    <3>2. t \notin SmtpThreads
      BY <1>6, <2>1, <3>1
    <3> QED
      BY <2>1, <3>1, <3>2 DEF Inv, Safe, SmtpExclusive
  <2>2. t \in SmtpThreads => ~ Critical(t)'
    BY DEF Critical
  <2> QED
    BY <2>1, <2>2 DEF SmtpExclusive
<1>8. ReadsFresh'
  <2>1. ASSUME NEW r \in SmtpThreads, job'[r] # Idle, job'[r].pc = "put",
               NEW v, v = Head(job'[r].tos)
        PROVE  \/ List(job'[r].read) = List(box'[v])
               \/ fails' > 0 \/ "http" \in causes'[v]
    <3>1. r # t /\ r \in Threads /\ job'[r] = job[r]
      BY <2>1 DEF Threads
    <3>2. v \in Users
      BY <2>1, <3>1, JobType DEF Inv
    <3>3. CASE v = u /\ t \in HttpThreads
      BY <1>2, <3>3 DEF CausesOfPut
    <3>4. CASE t \in SmtpThreads
      BY <1>6, <2>1, <3>1, <3>4 DEF Critical
    <3>5. CASE v # u
      <4>1. box'[v] = box[v] /\ causes'[v] = causes[v]
        BY <1>1, <1>2, <3>2, <3>5
      <4>2. List(job[r].read) = List(box[v]) \/ fails > 0 \/ "http" \in causes[v]
        BY <2>1, <3>1 DEF Inv, Safe, ReadsFresh
      <4> QED
        BY <1>1, <3>1, <4>1, <4>2
    <3> QED
      BY <3>3, <3>4, <3>5 DEF Threads
  <2> QED
    BY <2>1 DEF ReadsFresh, List
<1> QED
  BY <1>3, <1>4, <1>5, <1>7, <1>8

\* A delivery appends under an id larger than all that are there, and larger
\* than all given before if nothing went wrong.
LEMMA DeliverKeepsSafe ==
  ASSUME Inv, TypeOK', NEW t \in Threads, Deliver(t)
  PROVE  Safe'
<1> DEFINE u == Head(job[t].tos)
           list == List(job[t].read)
           id == NextId(list)
           b == Append(list, [id |-> id, mail |-> job[t].mail])
<1>1. /\ job[t] # Idle /\ job[t].pc = "put" /\ PutBox(u, b)
      /\ job' = [job EXCEPT ![t] = NextBox(t)] /\ Unlock(t)
      /\ given' = [given EXCEPT ![u] = @ \cup {id}]
      /\ harm' = [harm EXCEPT ![u] = @ \cup HarmOfPut(t, u, b)
                                      \cup (IF id \in given[u] THEN {"reused"} ELSE {})]
      /\ causes' = [causes EXCEPT ![u] = @ \cup CausesOfPut(t, "deliver")]
  BY DEF Deliver
<1>2. u \in Users /\ job[t].read \in Boxes /\ Increasing(job[t].read)
      /\ job[t].mail \in Mails /\ TypeOK
  BY <1>1, JobType DEF Inv, Safe, ReadsIncrease
<1>3. /\ b \in Seq(Entries) /\ Increasing(b) /\ List(b) = b
      /\ b # << >> /\ Last(b).id = id /\ id \in Nat
      /\ list # << >> => id = Last(list).id + 1
  <2>1. /\ b \in Seq(Entries) /\ Increasing(b) /\ List(b) = b
        /\ b # << >> /\ Last(b).id = id
    <3> DEFINE e == [id |-> id, mail |-> job[t].mail]
    <3>1. id \in Nat
      BY <1>2, NextIdAbove
    <3>2. e \in Entries /\ e.id = NextId(List(job[t].read))
      <4> HIDE DEF id
      <4>1. e \in Entries /\ e.id = id
        BY <1>2, <3>1 DEF Entries
      <4> QED
        BY <4>1 DEF id
    <3>3. b = Append(List(job[t].read), e) /\ id = NextId(List(job[t].read))
      OBVIOUS
    <3> HIDE DEF u, b, id, list, e
    <3> QED
      BY <1>2, <3>2, <3>3, AppendIncreases
  <2>2. id \in Nat /\ (list # << >> => id = Last(list).id + 1)
    BY <1>2, NextIdAbove
  <2> QED
    BY <2>1, <2>2
<1>4. list # << >> => Last(list).id \in Nat
  <2>1. list \in Seq(Entries)
    BY <1>2, ListType
  <2>2. list # << >> => list[Len(list)] \in Entries
    BY <2>1
  <2> QED
    BY <2>2 DEF Last, Entries
<1> HIDE DEF u, list, id, b
<1>5. /\ \A r \in Threads \ {t} : job'[r] = job[r]
      /\ job'[t] = NextBox(t)
      /\ lock' = lock \/ t \in SmtpThreads
  BY <1>1, <1>2 DEF TypeOK, Unlock
<1>6. HttpNeverLocks' /\ IdsIncrease' /\ ReadsIncrease' /\ SmtpExclusive'
      /\ ReadsFresh'
  <2>1. job'[t] # Idle => /\ job'[t].read = NoBox
                          /\ job'[t].pc \in {"lock", "get"}
                          /\ job'[t].pc = "lock" <=> t \in SmtpThreads
    BY <1>1, <1>2, <1>5, NextBoxType
  <2> QED
    BY <1>1, <1>2, <1>3, <1>5, <2>1, WriteKeepsOrder DEF u
<1>7. /\ "stale" \in HarmOfPut(t, u, b) => fails' > 0 \/ "http" \in causes'[u]
      /\ "failed" \in HarmOfPut(t, u, b) => fails' > 0
      /\ "reused" \notin HarmOfPut(t, u, b)
      /\ HarmOfPut(t, u, b) = {} => list = List(box[u]) /\ box'[u] = b
  BY <1>1, <1>2, <1>3, HarmOfPutCause DEF u, list
<1>8. fails' >= fails /\ fails \in Nat /\ fails' \in Nat
      /\ \A v \in Users \ {u} : box'[v] = box[v]
  BY <1>1, <1>2, <1>3, PutBoxEffect DEF TypeOK
<1> DEFINE more == HarmOfPut(t, u, b) \cup (IF id \in given[u] THEN {"reused"} ELSE {})
<1>9. /\ harm'[u] = harm[u] \cup more
      /\ given'[u] = given[u] \cup {id}
      /\ causes'[u] = causes[u] \cup CausesOfPut(t, "deliver")
      /\ \A v \in Users \ {u} : /\ harm'[v] = harm[v] /\ given'[v] = given[v]
                                /\ causes'[v] = causes[v]
  BY <1>1, <1>2 DEF TypeOK
<1>10. ASSUME harm'[u] \cap {"stale", "failed"} = {}, "delete" \notin causes'[u]
       PROVE  /\ id \notin given[u]
              /\ \A g \in given'[u] : List(box'[u]) # << >> /\ g <= Last(List(box'[u])).id
  <2>1. HarmOfPut(t, u, b) = {}
    BY <1>9, <1>10, HarmType
  <2>2. list = List(box[u]) /\ box'[u] = b
    BY <1>7, <2>1
  <2>3. harm[u] \cap {"stale", "failed"} = {} /\ "delete" \notin causes[u]
    BY <1>9, <1>10
  <2>4. \A g \in given[u] : list # << >> /\ g <= Last(list).id
    BY <1>2, <2>2, <2>3 DEF Inv, Safe, LastIsLargest
  <2>5. \A g \in given[u] : g \in Nat
    BY <1>2 DEF TypeOK
  <2>6. \A g \in given[u] : g < id
    BY <1>3, <1>4, <2>4, <2>5
  <2> QED
    BY <1>3, <1>9, <2>2, <2>5, <2>6
<1>11. LastIsLargest'
  <2>1. ASSUME NEW v \in Users \ {u},
               harm'[v] \cap {"stale", "failed"} = {}, "delete" \notin causes'[v]
        PROVE  \A g \in given'[v] : List(box'[v]) # << >> /\ g <= Last(List(box'[v])).id
    BY <1>8, <1>9, <2>1 DEF Inv, Safe, LastIsLargest
  <2> QED
    BY <1>10, <2>1 DEF LastIsLargest, List, Last
<1>12. HarmHasCause'
  <2>1. ASSUME NEW v \in Users \ {u}
        PROVE  /\ "stale" \in harm'[v] => fails' > 0 \/ "http" \in causes'[v]
               /\ "failed" \in harm'[v] => fails' > 0
               /\ "reused" \in harm'[v] => \/ "delete" \in causes'[v]
                                           \/ harm'[v] \cap {"stale", "failed"} # {}
    BY <1>8, <1>9, <2>1 DEF Inv, Safe, HarmHasCause
  <2>2. "stale" \in harm'[u] => fails' > 0 \/ "http" \in causes'[u]
    BY <1>2, <1>7, <1>8, <1>9 DEF Inv, Safe, HarmHasCause
  <2>3. "failed" \in harm'[u] => fails' > 0
    BY <1>2, <1>7, <1>8, <1>9 DEF Inv, Safe, HarmHasCause
  <2>4. "reused" \in harm'[u] => \/ "delete" \in causes'[u]
                                 \/ harm'[u] \cap {"stale", "failed"} # {}
    BY <1>2, <1>7, <1>9, <1>10 DEF Inv, Safe, HarmHasCause
  <2> QED
    BY <2>1, <2>2, <2>3, <2>4 DEF HarmHasCause
<1> QED
  BY <1>6, <1>11, <1>12 DEF Safe

\* A deletion gives no id and says that it is one.
LEMMA EraseKeepsSafe ==
  ASSUME Inv, TypeOK', NEW t \in Threads, Erase(t)
  PROVE  Safe'
<1> DEFINE u == Head(job[t].tos)
           list == List(job[t].read)
           i == FirstWithId(list, job[t].id)
           b == IF i = 0 THEN list ELSE RemoveAt(list, i)
<1>1. /\ job[t] # Idle /\ job[t].pc = "put" /\ lock' = lock
      /\ job' = [job EXCEPT ![t] = Idle]
  BY DEF Erase
<1>2. /\ u \in Users /\ job[t].read \in Boxes /\ Increasing(job[t].read)
      /\ list \in Seq(Entries) /\ job[t] \in Jobs /\ TypeOK
  BY <1>1, JobType DEF Inv, Safe, ReadsIncrease
<1>3. job'[t] = Idle /\ \A r \in Threads \ {t} : job'[r] = job[r]
  BY <1>1, <1>2 DEF TypeOK
<1>4. CASE UNCHANGED <<box, fails, observed>>
  <2>1. \A r \in Threads : Begins(r)
    BY <1>3 DEF Begins
  <2>2. SmtpExclusive'
    BY <1>1, <1>3, BeginsKeepsLock DEF Threads
  <2>3. fails' >= fails
    BY <1>2, <1>4 DEF TypeOK
  <2> QED
    BY <1>4, <2>1, <2>2, <2>3, BeginsKeepsSafe
<1>5. CASE job[t].read # NoBox /\ ~ UNCHANGED <<box, fails, observed>>
  <2>1. /\ PutBox(u, b) /\ UNCHANGED given
        /\ harm' = [harm EXCEPT ![u] = @ \cup HarmOfPut(t, u, b)]
        /\ causes' = [causes EXCEPT ![u] = @ \cup CausesOfPut(t, "delete")]
    BY <1>5 DEF Erase
  <2>2. b \in Seq(Entries) /\ Increasing(b)
    <3>1. i \in DOMAIN list \cup {0}
      BY <1>2, FirstWithIdType
    <3>2. CASE i = 0
      <4>1. list = job[t].read
        BY <1>5 DEF List
      <4> QED
        BY <1>2, <3>2, <4>1
    <3>3. CASE i # 0
      <4>1. i \in DOMAIN list
        BY <3>1, <3>3
      <4>2. RemoveAt(list, i) \in Seq(Entries) /\ Increasing(RemoveAt(list, i))
        <5> HIDE DEF i
        <5> QED
          BY <1>2, <4>1, EraseIncreases
      <4> QED
        BY <3>3, <4>2
    <3> QED
      BY <3>2, <3>3
  <2> HIDE DEF u, list, i, b
  <2>3. HttpNeverLocks' /\ IdsIncrease' /\ ReadsIncrease' /\ SmtpExclusive'
        /\ ReadsFresh'
    BY <1>1, <1>2, <1>3, <2>1, <2>2, WriteKeepsOrder DEF u
  <2>4. /\ "stale" \in HarmOfPut(t, u, b) => fails' > 0 \/ "http" \in causes'[u]
        /\ "failed" \in HarmOfPut(t, u, b) => fails' > 0
        /\ "reused" \notin HarmOfPut(t, u, b)
    BY <1>1, <1>2, <2>1, <2>2, HarmOfPutCause DEF u
  <2>5. fails' >= fails /\ fails \in Nat /\ fails' \in Nat
        /\ \A v \in Users \ {u} : box'[v] = box[v]
    BY <1>2, <2>1, <2>2, PutBoxEffect DEF TypeOK
  <2>6. /\ harm'[u] = harm[u] \cup HarmOfPut(t, u, b)
        /\ causes'[u] = causes[u] \cup CausesOfPut(t, "delete")
        /\ \A v \in Users \ {u} : harm'[v] = harm[v] /\ causes'[v] = causes[v]
    BY <1>2, <2>1 DEF TypeOK
  <2>7. "delete" \in causes'[u]
    BY <2>6 DEF CausesOfPut
  <2>8. LastIsLargest'
    <3>1. ASSUME NEW v \in Users \ {u},
                 harm'[v] \cap {"stale", "failed"} = {}, "delete" \notin causes'[v]
          PROVE  \A g \in given'[v] : List(box'[v]) # << >> /\ g <= Last(List(box'[v])).id
      BY <2>1, <2>5, <2>6, <3>1 DEF Inv, Safe, LastIsLargest
    <3> QED
      BY <2>7, <3>1 DEF LastIsLargest, List, Last
  <2>9. HarmHasCause'
    <3>1. ASSUME NEW v \in Users \ {u}
          PROVE  /\ "stale" \in harm'[v] => fails' > 0 \/ "http" \in causes'[v]
                 /\ "failed" \in harm'[v] => fails' > 0
                 /\ "reused" \in harm'[v] => \/ "delete" \in causes'[v]
                                             \/ harm'[v] \cap {"stale", "failed"} # {}
      BY <2>5, <2>6, <3>1 DEF Inv, Safe, HarmHasCause
    <3>2. "stale" \in harm'[u] => fails' > 0 \/ "http" \in causes'[u]
      BY <1>2, <2>4, <2>5, <2>6 DEF Inv, Safe, HarmHasCause
    <3>3. "failed" \in harm'[u] => fails' > 0
      BY <1>2, <2>4, <2>5, <2>6 DEF Inv, Safe, HarmHasCause
    <3> QED
      BY <2>7, <3>1, <3>2, <3>3 DEF HarmHasCause
  <2> QED
    BY <2>3, <2>8, <2>9 DEF Safe
<1> QED
  BY <1>4, <1>5 DEF Erase

-----------------------------------------------------------------------------
(* The theorems.                                                            *)

\* The invariant holds initially.
LEMMA InitInv ==
  ASSUME Init
  PROVE  Inv
<1>1. TypeOK
  <2>1. \A n \in Nat : 0 \in 0 .. n
    OBVIOUS
  <2> QED
    BY <2>1, BoundsAssumption DEF Init, TypeOK, Boxes
<1>2. \A t \in Threads : job[t] = Idle
  BY DEF Init
<1>3. SmtpThreads \subseteq Threads /\ HttpThreads \subseteq Threads
  BY DEF Threads
<1>4. HttpNeverLocks /\ ReadsIncrease /\ SmtpExclusive /\ ReadsFresh
  BY <1>2, <1>3 DEF HttpNeverLocks, ReadsIncrease, SmtpExclusive, Critical, ReadsFresh
<1>5. IdsIncrease
  BY DEF Init, IdsIncrease, Increasing, List
<1>6. LastIsLargest /\ HarmHasCause
  BY DEF Init, LastIsLargest, HarmHasCause
<1> QED
  BY <1>1, <1>4, <1>5, <1>6 DEF Inv, Safe

\* Every step keeps it.
LEMMA NextKeepsInv ==
  ASSUME Inv, [Next]_vars
  PROVE  Inv'
<1>1. CASE UNCHANGED vars
  <2>1. TypeOK'
    BY <1>1 DEF Inv, TypeOK, vars, observed
  <2> QED
    BY <1>1, <2>1, RequestKeepsSafe DEF Inv
<1>2. CASE \E t \in Threads, m \in Mails, tos \in Recipients : Send(t, m, tos)
  BY <1>2, RequestType, RequestKeepsSafe DEF Inv
<1>3. CASE \E u \in Users : View(u)
  BY <1>3, RequestType, RequestKeepsSafe DEF Inv
<1>4. CASE \E t \in Threads, u \in Users : \E i \in DOMAIN page[u] :
             Delete(t, u, page[u][i])
  BY <1>4, RequestType, RequestKeepsSafe DEF Inv
<1>5. CASE \E t \in HttpThreads : HttpDies(t)
  BY <1>5, DeathType, RequestKeepsSafe DEF Inv
<1>6. CASE SmtpDies
  BY <1>6, DeathType, SmtpDiesKeepsSafe DEF Inv
<1>7. ASSUME NEW t \in Threads, Work(t)
      PROVE  Inv'
  <2>1. TypeOK'
    BY <1>7, WorkType DEF Inv, Safe
  <2>2. Safe'
    BY <1>7, <2>1, LockKeepsSafe, GetKeepsSafe, DeliverKeepsSafe, EraseKeepsSafe
       DEF Work
  <2> QED
    BY <2>1, <2>2 DEF Inv
<1> QED
  BY <1>1, <1>2, <1>3, <1>4, <1>5, <1>6, <1>7 DEF Next

\* So it always holds.
LEMMA InvAlways == Spec => []Inv
<1>1. Init => Inv
  BY InitInv
<1>2. Inv /\ [Next]_vars => Inv'
  BY NextKeepsInv
<1> QED
  BY <1>1, <1>2, PTL DEF Spec

\* The types are right, whatever the numbers of users, mails, threads, failures
\* and deletions: in particular no thread has a job without a mailbox.
THEOREM TypeCorrect == Spec => []TypeOK
<1>1. Inv => TypeOK
  BY DEF Inv
<1> QED
  BY <1>1, InvAlways, PTL

\* The ids in every mailbox increase, so that an id names at most one mail of
\* it: sendEmail, mailWorker and deleteEmail may overlap and fail as they like.
THEOREM IdsAlwaysIncrease == Spec => []IdsIncrease
<1>1. Inv => IdsIncrease
  BY DEF Inv, Safe
<1> QED
  BY <1>1, InvAlways, PTL

\* Only overlapping HTTP threads and failures make a write stale, only failures
\* make it fail, and an id is given twice only after a deletion or such a write:
\* the lock of mailWorker keeps the deliveries by SMTP apart.
THEOREM HarmAlwaysHasCause == Spec => []HarmHasCause
<1>1. Inv => HarmHasCause
  BY DEF Inv, Safe
<1> QED
  BY <1>1, InvAlways, PTL

\* No two threads of the SMTP service are between reading and writing back a
\* mailbox at the same time.
THEOREM SmtpThreadsExclude == Spec => []SmtpExclusive
<1>1. Inv => SmtpExclusive
  BY DEF Inv, Safe
<1> QED
  BY <1>1, InvAlways, PTL

-----------------------------------------------------------------------------
(* A mailbox nothing has gone wrong with holds what the answers promised.   *)

Delivers(t) == job[t] # Idle /\ job[t].op = "deliver"

\* Mailboxes that are still to get the mail of thread t.
Addresses(t, u) == Delivers(t) /\ \E i \in DOMAIN job[t].tos : job[t].tos[i] = u

\* A mail is delivered by one thread, once to each recipient.
OneDelivery ==
    /\ \A t \in Threads : Delivers(t) =>
          /\ job[t].mail \notin unsent
          /\ \A i, j \in DOMAIN job[t].tos : job[t].tos[i] = job[t].tos[j] => i = j
    /\ \A s, t \in Threads :
          Delivers(s) /\ Delivers(t) /\ job[s].mail = job[t].mail => s = t

\* Thread t is about to delete e from the mailbox of u.
Deletes(t, u, e) ==
    /\ job[t] # Idle /\ job[t].op = "delete" /\ Head(job[t].tos) = u
    /\ e.id = job[t].id /\ e.mail = job[t].mail

\* An id and the mail it stands for: in the mailbox, on the page or in a request
\* for a deletion.
Shows(u, e) ==
    \/ \E i \in DOMAIN List(box[u]) : e = List(box[u])[i]
    \/ \E i \in DOMAIN page[u] : e = page[u][i]
    \/ \E t \in Threads : Deletes(t, u, e)

Tidy(u) ==
    /\ MailsIn(box[u]) = kept[u]
    /\ kept[u] \cap unsent = {}
    /\ \A t \in Threads : Addresses(t, u) => job[t].mail \notin kept[u]
    /\ \A i, j \in DOMAIN List(box[u]) :
          List(box[u])[i].mail = List(box[u])[j].mail => i = j
    /\ \A e \in Entries : Shows(u, e) => e.id \in given[u]
    /\ \A e, f \in Entries :
          Shows(u, e) /\ Shows(u, f) /\ e.id = f.id => e.mail = f.mail

KeepInv == OneDelivery /\ \A u \in Users : harm[u] = {} => Tidy(u)

\* Thread t does nothing new for a mail.
SameTask(t) ==
    \/ job'[t] = Idle
    \/ /\ job[t] # Idle
       /\ job'[t].op = job[t].op /\ job'[t].tos = job[t].tos
       /\ job'[t].mail = job[t].mail /\ job'[t].id = job[t].id

\* Steps that neither write a mailbox nor begin a delivery.
LEMMA SameTasksKeep ==
  ASSUME KeepInv, UNCHANGED <<box, unsent, observed>>,
         \A t \in Threads : Delivers(t)' => SameTask(t),
         \A u \in Users, e \in Entries : Shows(u, e)' => Shows(u, e)
  PROVE  KeepInv'
<1>1. \A t \in Threads : Delivers(t)' =>
         Delivers(t) /\ job'[t].tos = job[t].tos /\ job'[t].mail = job[t].mail
  BY DEF SameTask, Delivers
<1>2. OneDelivery'
  BY <1>1 DEF KeepInv, OneDelivery
<1>3. ASSUME NEW u \in Users, harm'[u] = {}
      PROVE  Tidy(u)'
  <2>1. Tidy(u)
    BY <1>3 DEF KeepInv, observed
  <2>2. \A t \in Threads : Addresses(t, u)' => Addresses(t, u)
                                               /\ job'[t].mail = job[t].mail
    BY <1>1 DEF Addresses
  <2>3. box'[u] = box[u] /\ kept'[u] = kept[u] /\ given'[u] = given[u]
        /\ unsent' = unsent
    BY DEF observed
  <2>4. (kept[u] \cap unsent = {})' /\ (MailsIn(box[u]) = kept[u])'
        /\ (\A i, j \in DOMAIN List(box[u]) :
              List(box[u])[i].mail = List(box[u])[j].mail => i = j)'
    BY <2>1, <2>3 DEF Tidy, MailsIn
  <2>5. (\A t \in Threads : Addresses(t, u) => job[t].mail \notin kept[u])'
    BY <2>1, <2>2, <2>3 DEF Tidy
  <2>6. (\A e \in Entries : Shows(u, e) => e.id \in given[u])'
    BY <2>1, <2>3 DEF Tidy
  <2>7. (\A e, f \in Entries :
           Shows(u, e) /\ Shows(u, f) /\ e.id = f.id => e.mail = f.mail)'
    BY <2>1 DEF Tidy
  <2> QED
    BY <2>4, <2>5, <2>6, <2>7 DEF Tidy
<1> QED
  BY <1>2, <1>3 DEF KeepInv

\* A new delivery is of a mail that nobody has sent.
LEMMA SendKeeps ==
  ASSUME TypeOK, KeepInv, NEW t \in Threads, NEW m \in Mails,
         NEW tos \in Recipients, Send(t, m, tos)
  PROVE  KeepInv'
<1>1. /\ m \in unsent /\ unsent' = unsent \ {m} /\ job[t] = Idle
      /\ UNCHANGED <<box, page, observed>>
      /\ \A s \in Threads \ {t} : job'[s] = job[s]
      /\ job'[t] # Idle /\ job'[t].op = "deliver" /\ job'[t].tos = tos
      /\ job'[t].mail = m
  BY DEF Send, TypeOK, Idle
<1>2. \A i, j \in DOMAIN tos : tos[i] = tos[j] => i = j
  BY DEF Recipients, IsInjective
<1>3. \A s \in Threads \ {t} : /\ Delivers(s)' => Delivers(s)
                               /\ \A u : Addresses(s, u)' => Addresses(s, u)
                               /\ \A u, e : Deletes(s, u, e)' => Deletes(s, u, e)
  BY <1>1 DEF Delivers, Addresses, Deletes
<1>4. Delivers(t)' /\ ~ Delivers(t) /\ \A u, e : ~ Deletes(t, u, e)'
  BY <1>1 DEF Delivers, Deletes
<1>5. OneDelivery'
  <2>1. \A s \in Threads \ {t} : Delivers(s)' => job'[s].mail # m
    BY <1>1, <1>3 DEF KeepInv, OneDelivery
  <2>2. \A s \in Threads : Delivers(s)' =>
           /\ job'[s].mail \notin unsent'
           /\ \A i, j \in DOMAIN job'[s].tos : job'[s].tos[i] = job'[s].tos[j] => i = j
    BY <1>1, <1>2, <1>3 DEF KeepInv, OneDelivery
  <2>3. \A r, s \in Threads :
           Delivers(r)' /\ Delivers(s)' /\ job'[r].mail = job'[s].mail => r = s
    BY <1>1, <1>3, <2>1 DEF KeepInv, OneDelivery
  <2> QED
    BY <2>2, <2>3 DEF OneDelivery
<1>6. ASSUME NEW u \in Users, harm'[u] = {}
      PROVE  Tidy(u)'
  <2>1. Tidy(u) /\ box'[u] = box[u] /\ kept'[u] = kept[u] /\ given'[u] = given[u]
        /\ page' = page
    BY <1>1, <1>6 DEF KeepInv, observed
  <2>2. \A e : Shows(u, e)' => Shows(u, e)
    BY <1>3, <1>4, <2>1 DEF Shows
  <2>3. (MailsIn(box[u]) = kept[u])'
        /\ (\A i, j \in DOMAIN List(box[u]) :
              List(box[u])[i].mail = List(box[u])[j].mail => i = j)'
    BY <2>1 DEF Tidy, MailsIn
  <2>4. (kept[u] \cap unsent = {})'
    BY <1>1, <2>1 DEF Tidy
  <2>5. (\A s \in Threads : Addresses(s, u) => job[s].mail \notin kept[u])'
    BY <1>1, <1>3, <2>1 DEF Tidy
  <2>6. (\A e \in Entries : Shows(u, e) => e.id \in given[u])'
        /\ (\A e, f \in Entries :
              Shows(u, e) /\ Shows(u, f) /\ e.id = f.id => e.mail = f.mail)'
    BY <2>1, <2>2 DEF Tidy
  <2> QED
    BY <2>3, <2>4, <2>5, <2>6 DEF Tidy
<1> QED
  BY <1>5, <1>6 DEF KeepInv

\* The other steps that write no mailbox.
LEMMA QuietKeeps ==
  ASSUME TypeOK, KeepInv,
         \/ \E u \in Users : View(u)
         \/ \E t \in Threads, u \in Users : \E i \in DOMAIN page[u] :
               Delete(t, u, page[u][i])
         \/ \E t \in Threads : Lock(t) \/ Get(t)
         \/ \E t \in HttpThreads : HttpDies(t)
         \/ SmtpDies
  PROVE  KeepInv'
<1>1. ASSUME NEW u \in Users, View(u)
      PROVE  KeepInv'
  <2>1. UNCHANGED <<box, unsent, observed>> /\ job' = job
    BY <1>1 DEF View
  <2>2. \A v \in Users, e \in Entries : Shows(v, e)' => Shows(v, e)
    <3> SUFFICES ASSUME NEW v \in Users, NEW e \in Entries, Shows(v, e)'
                 PROVE  Shows(v, e)
      OBVIOUS
    <3>1. \A w \in Users : page'[w] = page[w] \/ page'[w] = List(box[w])
                           \/ page'[w] = << >>
      BY <1>1 DEF View, TypeOK
    <3>2. CASE \E i \in DOMAIN page'[v] : e = page'[v][i]
      BY <3>1, <3>2 DEF Shows
    <3> QED
      BY <2>1, <3>2 DEF Shows, Deletes
  <2>3. \A t \in Threads : Delivers(t)' => SameTask(t)
    BY <2>1 DEF Delivers, SameTask
  <2> QED
    BY <2>1, <2>2, <2>3, SameTasksKeep
<1>2. ASSUME NEW t \in Threads, NEW u \in Users, NEW i \in DOMAIN page[u],
             Delete(t, u, page[u][i])
      PROVE  KeepInv'
  <2>1. /\ UNCHANGED <<box, page, unsent, observed>>
        /\ \A s \in Threads \ {t} : job'[s] = job[s]
        /\ job'[t] # Idle /\ job'[t].op = "delete" /\ job'[t].tos = <<u>>
        /\ job'[t].mail = page[u][i].mail /\ job'[t].id = page[u][i].id
    BY <1>2 DEF Delete, TypeOK, Idle
  <2>2. \A v \in Users, e \in Entries : Shows(v, e)' => Shows(v, e)
    <3> SUFFICES ASSUME NEW v \in Users, NEW e \in Entries, Shows(v, e)'
                 PROVE  Shows(v, e)
      OBVIOUS
    <3>1. page[u][i] \in Entries
      BY DEF TypeOK
    <3>2. CASE Deletes(t, v, e)'
      <4>1. v = u /\ e.id = page[u][i].id /\ e.mail = page[u][i].mail
        BY <2>1, <3>2 DEF Deletes
      <4>2. e = page[u][i]
        BY <3>1, <4>1 DEF Entries
      <4> QED
        BY <4>1, <4>2 DEF Shows
    <3>3. \A s \in Threads \ {t} : Deletes(s, v, e)' => Deletes(s, v, e)
      BY <2>1 DEF Deletes
    <3> QED
      BY <2>1, <3>2, <3>3 DEF Shows
  <2>3. \A s \in Threads : Delivers(s)' => SameTask(s)
    BY <2>1 DEF Delivers, SameTask
  <2> QED
    BY <2>1, <2>2, <2>3, SameTasksKeep
<1>3. ASSUME UNCHANGED <<box, page, unsent, observed>>,
             \A t \in Threads : job'[t] = job[t] \/ SameTask(t)
      PROVE  KeepInv'
  <2>1. \A t \in Threads, u \in Users, e \in Entries :
           Deletes(t, u, e)' => Deletes(t, u, e)
    BY <1>3 DEF Deletes, SameTask
  <2>2. \A u \in Users, e \in Entries : Shows(u, e)' => Shows(u, e)
    BY <1>3, <2>1 DEF Shows
  <2>3. \A t \in Threads : Delivers(t)' => SameTask(t)
    BY <1>3 DEF Delivers, SameTask
  <2> QED
    BY <1>3, <2>2, <2>3, SameTasksKeep
<1>4. ASSUME NEW t \in Threads, Lock(t) \/ Get(t)
      PROVE  KeepInv'
  <2>1. UNCHANGED <<box, page, unsent, observed>>
    BY <1>4 DEF Lock, Get
  <2>2. job[t] \in Jobs /\ job[t] # Idle
    BY <1>4, JobType DEF Lock, Get
  <2>3. \/ job' = [job EXCEPT ![t] = [job[t] EXCEPT !.pc = "get"]]
        \/ \E read : job' = [job EXCEPT ![t] =
                               [job[t] EXCEPT !.pc = "put", !.read = read]]
    BY <1>4 DEF Lock, Get
  <2>4. PICK j : /\ job' = [job EXCEPT ![t] = j]
                 /\ j.op = job[t].op /\ j.tos = job[t].tos
                 /\ j.mail = job[t].mail /\ j.id = job[t].id
    BY <2>2, <2>3 DEF Jobs
  <2>5. SameTask(t) /\ \A s \in Threads \ {t} : job'[s] = job[s]
    BY <2>2, <2>4 DEF SameTask, TypeOK
  <2> QED
    BY <1>3, <2>1, <2>5
<1>5. ASSUME NEW t \in HttpThreads, HttpDies(t)
      PROVE  KeepInv'
  BY <1>3, <1>5 DEF HttpDies, SameTask, TypeOK, Threads
<1>6. CASE SmtpDies
  BY <1>3, <1>6 DEF SmtpDies, SameTask, TypeOK, Threads
<1> QED
  BY <1>1, <1>2, <1>4, <1>5, <1>6

\* What NextBox leaves to be done: the same mail to the other recipients.
LEMMA NextBoxTask ==
  ASSUME TypeOK, NEW t \in Threads, Delivers(t), NextBox(t) # Idle
  PROVE  /\ NextBox(t).op = "deliver" /\ NextBox(t).mail = job[t].mail
         /\ NextBox(t).tos = Tail(job[t].tos)
<1>1. job[t] \in Jobs
  BY JobType DEF Delivers
<1> QED
  BY <1>1 DEF NextBox, Delivers, Jobs

\* A write that did no harm replaced what the thread had read.
LEMMA HarmlessWrite ==
  ASSUME NEW t, NEW u \in Users, NEW b \in Seq(Entries),
         HarmOfPut(t, u, b) \subseteq harm'[u], harm'[u] = {}
  PROVE  List(job[t].read) = List(box[u]) /\ box'[u] = b /\ List(box'[u]) = b
  BY ListType DEF HarmOfPut

\* Delivering adds a mail that was not there, under a new id.
LEMMA DeliverKeeps ==
  ASSUME TypeOK, KeepInv, NEW t \in Threads, Deliver(t)
  PROVE  KeepInv'
<1>a. /\ Delivers(t) /\ job[t].tos \in Seq(Users) /\ job[t].tos # << >>
      /\ Head(job[t].tos) \in Users /\ job[t].mail \in Mails
      /\ List(job[t].read) \in Seq(Entries)
  BY JobType DEF Deliver, Delivers
<1>b. PICK u \in Users, m \in Mails, list \in Seq(Entries) :
         u = Head(job[t].tos) /\ m = job[t].mail /\ list = List(job[t].read)
  BY <1>a
<1>c. PICK id \in Nat : id = NextId(list)
  BY NextIdType
<1>d. PICK e \in Entries : e = [id |-> id, mail |-> m]
  BY DEF Entries
<1>e. PICK b \in Seq(Entries) : b = Append(list, e)
  BY AppendProperties
<1>1. /\ Delivers(t) /\ u \in Users /\ m \in Mails /\ list \in Seq(Entries)
      /\ job[t].tos \in Seq(Users) /\ job[t].tos # << >>
      /\ u = Head(job[t].tos) /\ m = job[t].mail /\ list = List(job[t].read)
  BY <1>a, <1>b
<1>3. /\ PutBox(u, b) /\ job' = [job EXCEPT ![t] = NextBox(t)]
      /\ kept' = [kept EXCEPT ![u] = @ \cup {m}]
      /\ given' = [given EXCEPT ![u] = @ \cup {id}]
      /\ harm' = [harm EXCEPT ![u] =
                    @ \cup HarmOfPut(t, u, b)
                      \cup (IF id \in given[u] THEN {"reused"} ELSE {})]
      /\ page' = page /\ unsent' = unsent
  BY <1>b, <1>c, <1>d, <1>e, Zenon DEF Deliver
<1>4. Addresses(t, u)
  BY <1>1 DEF Addresses
<1>5. \A v \in Users : Addresses(t, v)' => Addresses(t, v) /\ v # u
                                          /\ job'[t].mail = m
  <2> SUFFICES ASSUME NEW v \in Users, Addresses(t, v)'
               PROVE  Addresses(t, v) /\ v # u /\ job'[t].mail = m
    OBVIOUS
  <2>1. job'[t] = NextBox(t) /\ NextBox(t) # Idle
    BY <1>3 DEF TypeOK, Addresses, Delivers
  <2>2. job'[t].tos = Tail(job[t].tos) /\ job'[t].mail = m
    BY <1>1, <2>1, NextBoxTask
  <2>3. PICK i \in DOMAIN Tail(job[t].tos) : Tail(job[t].tos)[i] = v
    BY <2>2 DEF Addresses
  <2>4. i + 1 \in DOMAIN job[t].tos /\ job[t].tos[i + 1] = v
        /\ i + 1 # 1 /\ 1 \in DOMAIN job[t].tos /\ job[t].tos[1] = u
    BY <1>1, <2>3
  <2>5. v # u
    BY <1>1, <2>4 DEF KeepInv, OneDelivery
  <2> QED
    BY <1>1, <2>2, <2>4, <2>5 DEF Addresses
<1>6. \A s \in Threads \ {t} : job'[s] = job[s]
  BY <1>3 DEF TypeOK
<1>7. \A s \in Threads \ {t} : /\ Delivers(s)' <=> Delivers(s)
                               /\ \A v : Addresses(s, v)' <=> Addresses(s, v)
                               /\ \A v, f : Deletes(s, v, f)' <=> Deletes(s, v, f)
  BY <1>6 DEF Delivers, Addresses, Deletes
<1>8. Delivers(t)' => /\ job'[t].tos = Tail(job[t].tos) /\ job'[t].mail = m
                      /\ Tail(job[t].tos) \in Seq(Users)
  <2> HAVE Delivers(t)'
  <2>1. job'[t] = NextBox(t) /\ NextBox(t) # Idle
    BY <1>3 DEF TypeOK, Delivers
  <2> QED
    BY <1>1, <2>1, NextBoxTask
<1>9. \A v, f : ~ Deletes(t, v, f)' /\ ~ Deletes(t, v, f)
  <2>1. job'[t] = NextBox(t)
    BY <1>3 DEF TypeOK
  <2> QED
    BY <1>1, <2>1, NextBoxTask DEF Deletes, Delivers
<1>10. OneDelivery'
  <2>1. \A s \in Threads : Delivers(s)' => Delivers(s) /\ job'[s].mail = job[s].mail
    BY <1>1, <1>6, <1>7, <1>8
  <2>2. \A s \in Threads : Delivers(s)' => job'[s].mail \notin unsent'
    BY <1>3, <2>1 DEF KeepInv, OneDelivery
  <2>3. \A r, s \in Threads :
           Delivers(r)' /\ Delivers(s)' /\ job'[r].mail = job'[s].mail => r = s
    BY <2>1 DEF KeepInv, OneDelivery
  <2>4. ASSUME Delivers(t)', NEW i \in DOMAIN Tail(job[t].tos),
               NEW j \in DOMAIN Tail(job[t].tos),
               Tail(job[t].tos)[i] = Tail(job[t].tos)[j]
        PROVE  i = j
    <3>1. /\ i \in Nat /\ j \in Nat
          /\ i + 1 \in DOMAIN job[t].tos /\ j + 1 \in DOMAIN job[t].tos
          /\ job[t].tos[i + 1] = job[t].tos[j + 1]
      BY <1>1, <2>4
    <3>2. i + 1 = j + 1
      BY <1>1, <3>1 DEF KeepInv, OneDelivery
    <3> QED
      BY <3>1, <3>2
  <2>5. \A s \in Threads : Delivers(s)' =>
           \A i, j \in DOMAIN job'[s].tos :
              job'[s].tos[i] = job'[s].tos[j] => i = j
    BY <1>6, <1>7, <1>8, <2>4 DEF KeepInv, OneDelivery
  <2> QED
    BY <2>2, <2>3, <2>5 DEF OneDelivery
<1>11. ASSUME NEW v \in Users \ {u}, harm'[v] = {}
       PROVE  Tidy(v)'
  <2>1. box'[v] = box[v]
    BY <1>3, PutBoxEffect
  <2>2. Tidy(v) /\ kept'[v] = kept[v] /\ given'[v] = given[v] /\ page'[v] = page[v]
    BY <1>3, <1>11 DEF KeepInv, TypeOK
  <2>3. \A f : Shows(v, f)' => Shows(v, f)
    BY <1>7, <1>9, <2>1, <2>2 DEF Shows
  <2>4. (MailsIn(box[v]) = kept[v])' /\ (kept[v] \cap unsent = {})'
        /\ (\A i, j \in DOMAIN List(box[v]) :
              List(box[v])[i].mail = List(box[v])[j].mail => i = j)'
    BY <1>3, <2>1, <2>2 DEF Tidy, MailsIn
  <2>5. (\A s \in Threads : Addresses(s, v) => job[s].mail \notin kept[v])'
    BY <1>1, <1>5, <1>6, <1>7, <2>2 DEF Tidy
  <2>6. (\A f \in Entries : Shows(v, f) => f.id \in given[v])'
        /\ (\A f, g \in Entries :
              Shows(v, f) /\ Shows(v, g) /\ f.id = g.id => f.mail = g.mail)'
    BY <2>2, <2>3 DEF Tidy
  <2> QED
    BY <2>4, <2>5, <2>6 DEF Tidy
<1>12. ASSUME harm'[u] = {}
       PROVE  Tidy(u)'
  <2>1. harm[u] = {} /\ HarmOfPut(t, u, b) \subseteq harm'[u] /\ id \notin given[u]
    BY <1>1, <1>3, <1>12 DEF TypeOK
  <2>2. list = List(box[u]) /\ List(box'[u]) = b
    BY <1>1, <1>12, <2>1, HarmlessWrite
  <2>3. Tidy(u) /\ kept'[u] = kept[u] \cup {m} /\ given'[u] = given[u] \cup {id}
        /\ page'[u] = page[u]
    BY <1>1, <1>3, <2>1 DEF KeepInv, TypeOK
  <2>4. /\ DOMAIN b = 1 .. Len(list) + 1 /\ b[Len(list) + 1] = e
        /\ DOMAIN list = 1 .. Len(list) /\ Len(list) \in Nat
        /\ \A i \in 1 .. Len(list) : b[i] = list[i]
    BY <1>e
  <2>5. m \notin kept[u]
    BY <1>1, <1>4, <2>3 DEF Tidy
  <2>6. e.mail = m /\ e.id = id
    BY <1>d
  <2>7. kept[u] = {list[i].mail : i \in DOMAIN list}
    BY <2>2, <2>3 DEF Tidy, MailsIn
  <2>8. kept[u] \cup {m} = {b[i].mail : i \in DOMAIN b}
    BY <2>4, <2>6, <2>7
  <2>9. (MailsIn(box[u]) = kept[u])'
    BY <2>2, <2>3, <2>8 DEF MailsIn
  <2>10. (kept[u] \cap unsent = {})'
    BY <1>1, <1>3, <2>3 DEF Tidy, KeepInv, OneDelivery
  <2>11. (\A i, j \in DOMAIN List(box[u]) :
            List(box[u])[i].mail = List(box[u])[j].mail => i = j)'
    <3>1. \A i \in DOMAIN list : list[i].mail # m
      BY <2>5, <2>7
    <3>2. \A i, j \in DOMAIN list : list[i].mail = list[j].mail => i = j
      BY <2>2, <2>3 DEF Tidy
    <3>3. \A i, j \in DOMAIN b : b[i].mail = b[j].mail => i = j
      BY <2>4, <2>6, <3>1, <3>2
    <3> QED
      BY <2>2, <3>3
  <2>12. (\A s \in Threads : Addresses(s, u) => job[s].mail \notin kept[u])'
    <3> SUFFICES ASSUME NEW s \in Threads, Addresses(s, u)'
                 PROVE  job'[s].mail \notin kept'[u]
      OBVIOUS
    <3>1. s # t
      BY <1>1, <1>5, Zenon
    <3>2. job'[s].mail = job[s].mail /\ Addresses(s, u) /\ Delivers(s)
      BY <1>6, <1>7, <3>1 DEF Addresses
    <3>3. job[s].mail # m
      BY <1>1, <3>1, <3>2 DEF KeepInv, OneDelivery
    <3> QED
      BY <2>3, <3>2, <3>3 DEF Tidy
  <2>13. \A f : Shows(u, f)' => Shows(u, f) \/ f = e
    <3> SUFFICES ASSUME NEW f, Shows(u, f)'
                 PROVE  Shows(u, f) \/ f = e
      OBVIOUS
    <3>1. CASE \E i \in DOMAIN b : f = b[i]
      BY <2>2, <2>4, <3>1 DEF Shows
    <3> QED
      BY <1>7, <1>9, <2>2, <2>3, <3>1 DEF Shows
  <2>14. (\A f \in Entries : Shows(u, f) => f.id \in given[u])'
    BY <2>3, <2>6, <2>13 DEF Tidy
  <2>15. (\A f, g \in Entries :
            Shows(u, f) /\ Shows(u, g) /\ f.id = g.id => f.mail = g.mail)'
    BY <2>1, <2>3, <2>6, <2>13 DEF Tidy
  <2> QED
    BY <2>9, <2>10, <2>11, <2>12, <2>14, <2>15 DEF Tidy
<1> QED
  BY <1>1, <1>10, <1>11, <1>12 DEF KeepInv

\* Erasing removes the mail that the request names, or nothing.
LEMMA EraseKeeps ==
  ASSUME TypeOK, KeepInv, NEW t \in Threads, Erase(t)
  PROVE  KeepInv'
<1>1. /\ job[t] # Idle /\ job[t].op = "delete" /\ Head(job[t].tos) \in Users
      /\ job[t].mail \in Mails /\ job[t].id \in Nat
      /\ List(job[t].read) \in Seq(Entries)
      /\ page' = page /\ unsent' = unsent /\ job' = [job EXCEPT ![t] = Idle]
  BY JobType DEF Erase
<1>2. \A s \in Threads : job'[s] = Idle \/ job'[s] = job[s]
  BY <1>1 DEF TypeOK
<1>3. \A s \in Threads : Delivers(s)' => Delivers(s) /\ SameTask(s)
                                       /\ job'[s] = job[s]
  BY <1>2 DEF Delivers, SameTask
<1>4. \A s \in Threads : \A v, f : Deletes(s, v, f)' => Deletes(s, v, f)
  BY <1>2 DEF Deletes
<1>5. CASE UNCHANGED <<box, observed>>
  <2>1. \A v \in Users, f \in Entries : Shows(v, f)' => Shows(v, f)
    BY <1>1, <1>4, <1>5 DEF Shows
  <2> QED
    BY <1>1, <1>3, <1>5, <2>1, SameTasksKeep
<1>6. CASE job[t].read # NoBox
  <2>1. PICK u \in Users, m \in Mails, d \in Nat, list \in Seq(Entries) :
           /\ u = Head(job[t].tos) /\ m = job[t].mail /\ d = job[t].id
           /\ list = List(job[t].read)
    BY <1>1
  <2>2. PICK i \in DOMAIN list \cup {0} : i = FirstWithId(list, d)
    BY FirstWithIdType
  <2>3. PICK b \in Seq(Entries) : b = IF i = 0 THEN list ELSE RemoveAt(list, i)
    BY <2>2, RemoveAtElement
  <2>4. /\ PutBox(u, b)
        /\ kept' = [kept EXCEPT ![u] = IF i = 0 THEN @ ELSE @ \ {m}]
        /\ harm' = [harm EXCEPT ![u] = @ \cup HarmOfPut(t, u, b)]
        /\ given' = given
    BY <1>6, <2>1, <2>2, <2>3, Zenon DEF Erase
  <2>5. OneDelivery'
    BY <1>1, <1>3 DEF KeepInv, OneDelivery
  <2>6. ASSUME NEW v \in Users, harm'[v] = {},
               \A f \in Entries : Shows(v, f)' => Shows(v, f),
               kept'[v] \subseteq kept[v], (MailsIn(box[v]) = kept[v])',
               (\A j, k \in DOMAIN List(box[v]) :
                   List(box[v])[j].mail = List(box[v])[k].mail => j = k)'
        PROVE  Tidy(v)'
    <3>1. Tidy(v) /\ given'[v] = given[v] /\ unsent' = unsent
      BY <1>1, <2>4, <2>6 DEF KeepInv, TypeOK
    <3>2. (kept[v] \cap unsent = {})'
      BY <2>6, <3>1 DEF Tidy
    <3>3. (\A s \in Threads : Addresses(s, v) => job[s].mail \notin kept[v])'
      BY <1>3, <2>6, <3>1 DEF Tidy, Addresses
    <3>4. (\A f \in Entries : Shows(v, f) => f.id \in given[v])'
      BY <2>6, <3>1 DEF Tidy
    <3>5. (\A f, g \in Entries :
              Shows(v, f) /\ Shows(v, g) /\ f.id = g.id => f.mail = g.mail)'
      BY <2>6, <3>1 DEF Tidy
    <3> QED
      BY <2>6, <3>2, <3>3, <3>4, <3>5 DEF Tidy
  <2>7. ASSUME NEW v \in Users \ {u}, harm'[v] = {}
        PROVE  Tidy(v)'
    <3>1. box'[v] = box[v]
      BY <2>4, PutBoxEffect
    <3>2. Tidy(v) /\ kept'[v] = kept[v]
      BY <2>4, <2>7 DEF KeepInv, TypeOK
    <3>3. \A f \in Entries : Shows(v, f)' => Shows(v, f)
      BY <1>1, <1>4, <3>1 DEF Shows
    <3>4. (MailsIn(box[v]) = kept[v])'
          /\ (\A j, k \in DOMAIN List(box[v]) :
                 List(box[v])[j].mail = List(box[v])[k].mail => j = k)'
      BY <3>1, <3>2 DEF Tidy, MailsIn
    <3> QED
      BY <2>6, <2>7, <3>2, <3>3, <3>4
  <2>8. ASSUME harm'[u] = {}
        PROVE  Tidy(u)'
    <3>1. harm[u] = {} /\ HarmOfPut(t, u, b) \subseteq harm'[u]
      BY <2>4, <2>8 DEF TypeOK
    <3>2. list = List(box[u]) /\ List(box'[u]) = b
      BY <2>1, <2>8, <3>1, HarmlessWrite
    <3>3. Tidy(u) /\ kept'[u] = IF i = 0 THEN kept[u] ELSE kept[u] \ {m}
      BY <2>4, <3>1 DEF KeepInv, TypeOK
    <3>4. kept[u] = {list[j].mail : j \in DOMAIN list}
          /\ \A j, k \in DOMAIN list : list[j].mail = list[k].mail => j = k
      BY <3>2, <3>3 DEF Tidy, MailsIn
    <3>5. CASE i = 0
      <4>1. b = list
        BY <2>3, <3>5
      <4>2. \A f \in Entries : Shows(u, f)' => Shows(u, f)
        BY <1>1, <1>4, <3>2, <4>1 DEF Shows
      <4>3. (MailsIn(box[u]) = kept[u])'
        BY <3>2, <3>3, <3>4, <3>5, <4>1 DEF MailsIn
      <4>4. (\A j, k \in DOMAIN List(box[u]) :
                List(box[u])[j].mail = List(box[u])[k].mail => j = k)'
        BY <3>2, <3>4, <4>1
      <4> QED
        BY <2>6, <2>8, <3>3, <3>5, <4>2, <4>3, <4>4
    <3>6. CASE i # 0
      <4>1. /\ i \in DOMAIN list /\ Len(list) \in Nat /\ DOMAIN list = 1 .. Len(list)
            /\ DOMAIN b = 1 .. Len(list) - 1
            /\ \A j \in DOMAIN b : b[j] = IF j < i THEN list[j] ELSE list[j + 1]
        BY <2>2, <2>3, <3>6, RemoveAtElement
      <4>2. list[i].mail = m
        <5>1. list[i].id = d
          BY <2>2, <3>6, FirstWithIdType
        <5>2. list[i] \in Entries /\ Shows(u, list[i])
          BY <3>2, <4>1 DEF Shows
        <5>3. PICK f \in Entries : f = [id |-> d, mail |-> m]
          BY DEF Entries
        <5>4. Deletes(t, u, f)
          BY <1>1, <2>1, <5>3 DEF Deletes
        <5>5. Shows(u, f) /\ f.id = d /\ f.mail = m
          BY <5>3, <5>4 DEF Shows
        <5> QED
          BY <3>3, <5>1, <5>2, <5>5 DEF Tidy
      <4>3. \A f \in Entries : Shows(u, f)' => Shows(u, f)
        <5> SUFFICES ASSUME NEW f \in Entries, Shows(u, f)'
                     PROVE  Shows(u, f)
          OBVIOUS
        <5>1. CASE \E j \in DOMAIN b : f = b[j]
          <6>1. PICK k \in DOMAIN list : f = list[k]
            BY <4>1, <5>1
          <6> QED
            BY <3>2, <6>1 DEF Shows
        <5> QED
          BY <1>1, <1>4, <3>2, <5>1 DEF Shows
      <4>4. \A j \in DOMAIN b : \E k \in DOMAIN list \ {i} : b[j] = list[k]
        <5> SUFFICES ASSUME NEW j \in DOMAIN b
                     PROVE  \E k \in DOMAIN list \ {i} : b[j] = list[k]
          OBVIOUS
        <5>1. CASE j < i
          BY <4>1, <5>1
        <5>2. CASE ~ (j < i)
          <6>1. b[j] = list[j + 1] /\ j + 1 \in DOMAIN list \ {i}
            BY <4>1, <5>2
          <6> QED
            BY <6>1
        <5> QED
          BY <5>1, <5>2
      <4>5. \A k \in DOMAIN list \ {i} : \E j \in DOMAIN b : b[j] = list[k]
        <5> SUFFICES ASSUME NEW k \in DOMAIN list \ {i}
                     PROVE  \E j \in DOMAIN b : b[j] = list[k]
          OBVIOUS
        <5>1. CASE k < i
          BY <4>1, <5>1
        <5>2. CASE ~ (k < i)
          <6>1. k - 1 \in DOMAIN b /\ b[k - 1] = list[k]
            BY <4>1, <5>2
          <6> QED
            BY <6>1
        <5> QED
          BY <5>1, <5>2
      <4>6. {b[j].mail : j \in DOMAIN b} = {list[k].mail : k \in DOMAIN list} \ {m}
        <5>1. ASSUME NEW j \in DOMAIN b
              PROVE  b[j].mail \in {list[k].mail : k \in DOMAIN list} \ {m}
          BY <3>4, <4>1, <4>2, <4>4
        <5>2. ASSUME NEW k \in DOMAIN list, list[k].mail # m
              PROVE  list[k].mail \in {b[j].mail : j \in DOMAIN b}
          BY <4>2, <4>5, <5>2
        <5> QED
          BY <5>1, <5>2
      <4>7. (MailsIn(box[u]) = kept[u])'
        <5>1. MailsIn(box[u])' = {b[j].mail : j \in DOMAIN b}
          BY <3>2 DEF MailsIn
        <5>2. kept'[u] = {list[k].mail : k \in DOMAIN list} \ {m}
          BY <3>3, <3>4, <3>6
        <5> QED
          BY <4>6, <5>1, <5>2
      <4>8. \A j, k \in DOMAIN b : b[j].mail = b[k].mail => j = k
        <5> SUFFICES ASSUME NEW j \in DOMAIN b, NEW k \in DOMAIN b,
                            b[j].mail = b[k].mail
                     PROVE  j = k
          OBVIOUS
        <5>1. PICK x \in DOMAIN list :
                 list[x] = b[j] /\ x = IF j < i THEN j ELSE j + 1
          BY <4>1
        <5>2. PICK y \in DOMAIN list :
                 list[y] = b[k] /\ y = IF k < i THEN k ELSE k + 1
          BY <4>1
        <5>3. x = y
          BY <3>4, <5>1, <5>2
        <5> QED
          BY <4>1, <5>1, <5>2, <5>3
      <4>9. (\A j, k \in DOMAIN List(box[u]) :
                List(box[u])[j].mail = List(box[u])[k].mail => j = k)'
        BY <3>2, <4>8
      <4> QED
        BY <2>6, <2>8, <3>3, <4>3, <4>7, <4>9
    <3> QED
      BY <3>5, <3>6
  <2> QED
    BY <2>5, <2>7, <2>8 DEF KeepInv
<1> QED
  BY <1>5, <1>6 DEF Erase

\* At the beginning no mail has been sent and no mailbox shows anything.
LEMMA InitKeep == Init => KeepInv
<1> SUFFICES ASSUME Init PROVE KeepInv
  OBVIOUS
<1>1. \A t \in Threads : ~ Delivers(t) /\ job[t] = Idle
  BY DEF Init, Delivers
<1>2. \A u \in Users : List(box[u]) = << >> /\ page[u] = << >> /\ kept[u] = {}
  BY DEF Init, List
<1>3. OneDelivery
  BY <1>1 DEF OneDelivery
<1>4. ASSUME NEW u \in Users
      PROVE  Tidy(u)
  <2>1. \A e : ~ Shows(u, e)
    BY <1>1, <1>2 DEF Shows, Deletes
  <2>2. MailsIn(box[u]) = {}
    BY <1>2 DEF MailsIn
  <2> QED
    BY <1>1, <1>2, <2>1, <2>2 DEF Tidy, Addresses
<1> QED
  BY <1>3, <1>4 DEF KeepInv

LEMMA NextKeep ==
  ASSUME TypeOK, KeepInv, [Next]_vars
  PROVE  KeepInv'
<1>1. CASE UNCHANGED vars
  <2>1. UNCHANGED <<box, unsent, observed>> /\ page' = page /\ job' = job
    BY <1>1 DEF vars
  <2>2. \A u \in Users, e \in Entries : Shows(u, e)' => Shows(u, e)
    BY <2>1 DEF Shows, Deletes
  <2>3. \A t \in Threads : Delivers(t)' => SameTask(t)
    BY <2>1 DEF Delivers, SameTask
  <2> QED
    BY <2>1, <2>2, <2>3, SameTasksKeep
<1>2. CASE Next
  BY <1>2, SendKeeps, QuietKeeps, DeliverKeeps, EraseKeeps DEF Next, Work
<1> QED
  BY <1>1, <1>2

\* What the answers told senders and owner is true of a mailbox nothing has gone
\* wrong with: it holds each mail that was accepted and not deleted since, and
\* no other, for all numbers of users, mails and threads.
THEOREM KeepsWhatItSaidAlways == Spec => []KeepsWhatItSaid
<1>1. Init => KeepInv
  BY InitKeep
<1>2. TypeOK /\ KeepInv /\ [Next]_vars => KeepInv'
  BY NextKeep
<1>3. KeepInv => KeepsWhatItSaid
  BY DEF KeepInv, Tidy, KeepsWhatItSaid
<1> QED
  BY <1>1, <1>2, <1>3, TypeCorrect, PTL DEF Spec

=============================================================================
