------------------------------ MODULE DriveProofs ------------------------------
(***************************************************************************)
(* Proofs about module Drive: its types, the session of the last login,    *)
(* the causes of what goes wrong, and that nothing is lost without one.    *)
(***************************************************************************)
EXTENDS Drive, SequenceTheorems, WellFoundedInduction, TLAPS

-----------------------------------------------------------------------------
(* Sequences.                                                               *)

\* A set of natural numbers that is not empty has a least element.
LEMMA LeastNatural ==
  ASSUME NEW S \in SUBSET Nat, S # {}
  PROVE  \E i \in S : \A j \in S : i <= j
<1>1. PICK i \in S : \A j \in S : <<j, i>> \notin OpToRel(<, Nat)
  BY NatLessThanWellFounded, WFMin
<1>2. ASSUME NEW j \in S PROVE ~ (j < i)
  BY <1>1, Zenon DEF OpToRel
<1> QED
  BY <1>2

\* f records a loop of m rounds over G from x on, round n of which applies
\* F[n].
Runs(f, m, G, x, F) ==
    /\ f \in [0 .. m -> G] /\ f[0] = x
    /\ \A n \in 1 .. m : f[n] = F[n][f[n - 1]]

\* A loop runs through: there is a value after each round.
LEMMA LoopExists ==
  ASSUME NEW N \in Nat, NEW G, NEW x \in G, NEW F \in [1 .. N -> [G -> G]]
  PROVE  \E f : Runs(f, N, G, x, F)
<1> DEFINE bad == {m \in 0 .. N : ~ \E f : Runs(f, m, G, x, F)}
<1>1. bad = {}
  <2> SUFFICES ASSUME bad # {} PROVE FALSE
    OBVIOUS
  <2>1. PICK m \in bad : \A k \in bad : m <= k
    <3>1. bad \in SUBSET Nat
      OBVIOUS
    <3> HIDE DEF bad
    <3> QED
      BY <3>1, LeastNatural
  <2>2. CASE m = 0
    <3>1. Runs([n \in 0 .. 0 |-> x], 0, G, x, F)
      BY DEF Runs
    <3> QED
      BY <2>2, <3>1
  <2>3. CASE m # 0
    <3>1. m \in 1 .. N /\ m - 1 \in 0 .. N /\ m - 1 \notin bad
      BY <2>1, <2>3
    <3>2. PICK f : Runs(f, m - 1, G, x, F)
      BY <3>1
    <3> DEFINE g == [n \in 0 .. m |-> IF n = m THEN F[m][f[m - 1]] ELSE f[n]]
    <3>3. f[m - 1] \in G /\ F[m][f[m - 1]] \in G
      BY <3>1, <3>2 DEF Runs
    <3>4. g \in [0 .. m -> G] /\ g[0] = x
      BY <3>1, <3>2, <3>3 DEF Runs
    <3>5. ASSUME NEW n \in 1 .. m
          PROVE  g[n] = F[n][g[n - 1]]
      <4>1. CASE n = m
        BY <3>1, <4>1
      <4>2. CASE n # m
        BY <3>1, <3>2, <4>2 DEF Runs
      <4> QED
        BY <4>1, <4>2
    <3>6. Runs(g, m, G, x, F)
      <4> HIDE DEF g
      <4> QED
        BY <3>4, <3>5 DEF Runs
    <3> QED
      BY <2>1, <3>6
  <2> QED
    BY <2>2, <2>3
<1> QED
  BY <1>1

\* Erasing the i-th element moves those behind it one place forward.
LEMMA RemoveAtElement ==
    ASSUME NEW S, NEW q \in Seq(S), NEW i \in DOMAIN q
    PROVE  /\ RemoveAt(q, i) \in Seq(S)
           /\ DOMAIN RemoveAt(q, i) = 1 .. Len(q) - 1
           /\ \A j \in 1 .. Len(q) - 1 :
                 RemoveAt(q, i)[j] = IF j < i THEN q[j] ELSE q[j + 1]
<1> DEFINE a == SubSeq(q, 1, i - 1)
           b == SubSeq(q, i + 1, Len(q))
<1>1. /\ i \in 1 .. Len(q) /\ Len(q) \in Nat
      /\ a \in Seq(S) /\ Len(a) = i - 1 /\ \A j \in 1 .. i - 1 : a[j] = q[j]
  OBVIOUS
<1>2. /\ b \in Seq(S) /\ Len(b) = Len(q) - i
      /\ \A j \in 1 .. Len(q) - i : b[j] = q[j + i]
  BY <1>1
<1>3. RemoveAt(q, i) = a \o b
  BY DEF RemoveAt
<1> HIDE DEF a, b
<1>4. /\ a \o b \in Seq(S) /\ DOMAIN (a \o b) = 1 .. Len(q) - 1
      /\ \A j \in 1 .. Len(q) - 1 :
            (a \o b)[j] = IF j < i THEN a[j] ELSE b[j - (i - 1)]
  BY <1>1, <1>2
<1>5. ASSUME NEW j \in i .. Len(q) - 1
      PROVE  b[j - (i - 1)] = q[j + 1]
  <2>1. j - (i - 1) \in 1 .. Len(q) - i /\ (j - (i - 1)) + i = j + 1
    BY <1>1
  <2> QED
    BY <1>2, <2>1
<1> QED
  BY <1>1, <1>3, <1>4, <1>5

\* s consists of the elements of the first n of seq that are at some places: h[i]
\* is the place of s[i].
Embeds(seq, places, s, n, h) ==
    /\ h \in [DOMAIN s -> 1 .. n]
    /\ \A i \in DOMAIN s : h[i] \in places /\ s[i] = seq[h[i]]
    /\ \A i \in DOMAIN s : \A j \in DOMAIN s : i < j => h[i] < h[j]
    /\ \A k \in 1 .. n : k \in places => \E i \in DOMAIN s : h[i] = k

\* At after n elements: a sequence that is as long as seq is seq.
Picked(S, seq, places, s, n) ==
    /\ s \in Seq(S) /\ Len(s) <= n
    /\ Len(s) = n => \A i \in 1 .. n : s[i] = seq[i]
    /\ \E h : Embeds(seq, places, s, n, h)

\* One more element that is at none of the places.
LEMMA PickedSkips ==
  ASSUME NEW S, NEW seq \in Seq(S), NEW places, NEW s, NEW n \in Nat,
         n < Len(seq), Picked(S, seq, places, s, n), n + 1 \notin places
  PROVE  Picked(S, seq, places, s, n + 1)
<1>1. PICK h : Embeds(seq, places, s, n, h)
  BY DEF Picked
<1>2. Embeds(seq, places, s, n + 1, h)
  BY <1>1 DEF Embeds
<1>3. s \in Seq(S) /\ Len(s) <= n /\ Len(s) \in Nat
  BY DEF Picked
<1> QED
  BY <1>2, <1>3 DEF Picked

\* One more element that is at one of them.
LEMMA PickedTakes ==
  ASSUME NEW S, NEW seq \in Seq(S), NEW places, NEW s, NEW n \in Nat,
         n < Len(seq), Picked(S, seq, places, s, n), n + 1 \in places
  PROVE  Picked(S, seq, places, Append(s, seq[n + 1]), n + 1)
<1>1. PICK h : Embeds(seq, places, s, n, h)
  BY DEF Picked
<1>2. PICK m \in Nat : Len(s) = m /\ DOMAIN s = 1 .. m
  BY DEF Picked
<1>3. /\ s \in Seq(S) /\ m <= n
      /\ m = n => \A i \in 1 .. n : s[i] = seq[i]
  BY <1>2 DEF Picked
<1>4. PICK t : t = Append(s, seq[n + 1])
  OBVIOUS
<1>5. seq[n + 1] \in S
  BY ElementOfSeq
<1>6. /\ t \in Seq(S) /\ Len(t) = m + 1 /\ DOMAIN t = 1 .. m + 1
      /\ t[m + 1] = seq[n + 1] /\ \A i \in 1 .. m : t[i] = s[i]
  BY <1>2, <1>3, <1>4, <1>5, AppendProperties
<1>7. PICK g : g = [i \in 1 .. m + 1 |-> IF i = m + 1 THEN n + 1 ELSE h[i]]
  OBVIOUS
<1>8. /\ \A i \in 1 .. m : h[i] \in 1 .. n /\ h[i] \in places /\ s[i] = seq[h[i]]
      /\ \A i \in 1 .. m : \A j \in 1 .. m : i < j => h[i] < h[j]
      /\ \A k \in 1 .. n : k \in places => \E i \in 1 .. m : h[i] = k
  BY <1>1, <1>2 DEF Embeds
<1>9. g[m + 1] = n + 1 /\ \A i \in 1 .. m : g[i] = h[i]
  BY <1>7
<1>10. \A i \in 1 .. m + 1 : i = m + 1 \/ i \in 1 .. m
  OBVIOUS
<1>11. Embeds(seq, places, t, n + 1, g)
  <2>1. g \in [1 .. m + 1 -> 1 .. n + 1]
    BY <1>7, <1>8, <1>10
  <2>2. \A i \in 1 .. m + 1 : g[i] \in places /\ t[i] = seq[g[i]]
    BY <1>6, <1>8, <1>9, <1>10
  <2>3. \A i \in 1 .. m + 1 : \A j \in 1 .. m + 1 : i < j => g[i] < g[j]
    <3> SUFFICES ASSUME NEW i \in 1 .. m + 1, NEW j \in 1 .. m + 1, i < j
                 PROVE  g[i] < g[j]
      OBVIOUS
    <3>1. i \in 1 .. m
      OBVIOUS
    <3>2. CASE j = m + 1
      BY <1>8, <1>9, <3>1, <3>2
    <3>3. CASE j \in 1 .. m
      BY <1>8, <1>9, <3>1, <3>3
    <3> QED
      BY <1>10, <3>2, <3>3
  <2>4. \A k \in 1 .. n + 1 : k \in places => \E i \in 1 .. m + 1 : g[i] = k
    <3> SUFFICES ASSUME NEW k \in 1 .. n + 1, k \in places
                 PROVE  \E i \in 1 .. m + 1 : g[i] = k
      OBVIOUS
    <3>1. CASE k = n + 1
      BY <1>9, <3>1
    <3>2. CASE k # n + 1
      <4>1. k \in 1 .. n
        BY <3>2
      <4> QED
        BY <1>8, <1>9, <4>1
    <3> QED
      BY <3>1, <3>2
  <2> QED
    BY <1>6, <2>1, <2>2, <2>3, <2>4 DEF Embeds
<1>12. m + 1 = n + 1 => \A i \in 1 .. n + 1 : t[i] = seq[i]
  BY <1>3, <1>6, <1>10
<1>13. Picked(S, seq, places, t, n + 1)
  BY <1>3, <1>6, <1>11, <1>12 DEF Picked
<1> QED
  BY <1>4, <1>13

\* At takes the elements at the places and no others, in their order.
LEMMA AtPicks ==
  ASSUME NEW S, NEW seq \in Seq(S), NEW places
  PROVE  Picked(S, seq, places, At(seq, places), Len(seq))
<1> DEFINE N == Len(seq)
           Round(m, n) == IF n \in places THEN Append(m, seq[n]) ELSE m
           Loop(f) == [n \in 0 .. N |-> IF n = 0 THEN << >>
                                        ELSE Round(f[n - 1], n)]
           F == [n \in 1 .. N |-> [m \in Seq(S) |-> Round(m, n)]]
           upTo == CHOOSE f : f = Loop(f)
<1>1. N \in Nat /\ \A n \in 1 .. N : seq[n] \in S
  OBVIOUS
<1>2. \A m \in Seq(S), n \in 1 .. N : Round(m, n) \in Seq(S)
  BY <1>1
<1>3. At(seq, places) = upTo[N]
  BY DEF At
<1>4. << >> \in Seq(S)
  OBVIOUS
<1> HIDE DEF N
<1>5. \E f : f = Loop(f)
  <2>1. F \in [1 .. N -> [Seq(S) -> Seq(S)]]
    BY <1>2
  <2> HIDE DEF F, Round
  <2>2. PICK f : Runs(f, N, Seq(S), << >>, F)
    BY <1>1, <1>4, <2>1, LoopExists
  <2>3. ASSUME NEW n \in 1 .. N PROVE f[n] = Round(f[n - 1], n)
    <3>1. f[n - 1] \in Seq(S)
      BY <1>1, <2>2 DEF Runs
    <3> QED
      BY <2>2, <3>1 DEF F, Runs
  <2>4. f = Loop(f)
    BY <1>1, <2>2, <2>3 DEF Runs
  <2> QED
    BY <2>4
<1>6. upTo = Loop(upTo)
  <2> HIDE DEF Loop
  <2> QED
    BY <1>5
<1> HIDE DEF upTo, Round
<1>7. /\ upTo[0] = << >>
      /\ \A n \in 1 .. N : upTo[n] = Round(upTo[n - 1], n)
  BY <1>1, <1>6
<1> DEFINE bad == {n \in 0 .. N : ~ Picked(S, seq, places, upTo[n], n)}
<1>8. bad = {}
  <2> SUFFICES ASSUME bad # {} PROVE FALSE
    OBVIOUS
  <2>1. PICK n \in bad : \A k \in bad : n <= k
    <3>1. bad \in SUBSET Nat
      BY <1>1
    <3> HIDE DEF bad
    <3> QED
      BY <3>1, LeastNatural
  <2>2. CASE n = 0
    <3>1. Embeds(seq, places, << >>, 0, [i \in {} |-> 0])
      BY DEF Embeds
    <3>2. Picked(S, seq, places, << >>, 0)
      BY <1>4, <3>1 DEF Picked
    <3> QED
      BY <1>7, <2>1, <2>2, <3>2
  <2>3. CASE n # 0
    <3>1. n \in 1 .. N /\ n - 1 \in 0 .. N /\ n - 1 \notin bad /\ n - 1 < n
      BY <1>1, <2>1, <2>3
    <3>2. PICK k \in Nat : k = n - 1
      BY <3>1
    <3>3. /\ Picked(S, seq, places, upTo[k], k) /\ k < Len(seq) /\ n = k + 1
          /\ upTo[n] = Round(upTo[k], n)
      BY <1>1, <1>7, <3>1, <3>2 DEF N
    <3>4. CASE n \in places
      BY <2>1, <3>3, <3>4, PickedTakes DEF Round
    <3>5. CASE n \notin places
      BY <2>1, <3>3, <3>5, PickedSkips DEF Round
    <3> QED
      BY <3>4, <3>5
  <2> QED
    BY <2>2, <2>3
<1> QED
  BY <1>1, <1>3, <1>8 DEF N

\* If it takes as many elements as there are, it takes them all.
LEMMA AtAll ==
  ASSUME NEW S, NEW seq \in Seq(S), NEW places,
         Len(At(seq, places)) >= Len(seq)
  PROVE  At(seq, places) = seq
<1>1. PICK s : s = At(seq, places)
  OBVIOUS
<1>2. s \in Seq(S) /\ Len(s) = Len(seq) /\ \A i \in 1 .. Len(seq) : s[i] = seq[i]
  <2>1. Picked(S, seq, places, s, Len(seq))
    BY <1>1, AtPicks
  <2> QED
    BY <1>1, <2>1 DEF Picked
<1> QED
  BY <1>1, <1>2, SeqEqual

-----------------------------------------------------------------------------
(* The session.                                                             *)

\* While the last login's page has not left and nothing was mixed up, its cookie
\* is the stored one, no other browser has that cookie, and no logout is under
\* way, not even one that began before the login.
SessionInv ==
    /\ SessionTypeOK
    /\ holder # Nobody /\ mixed = {} =>
          /\ cookie = jar[holder] /\ cookie # NoCookie
          /\ \A q \in Pages \ {holder} : jar[q] # cookie
          /\ leaving = {}

-----------------------------------------------------------------------------
(* The steps of a session.                                                  *)

\* The invariant says what the property says.
LEMMA SessionInvImplies == SessionInv => LastLoginStands
  BY DEF SessionInv, LastLoginStands, Authorised

\* It depends on the variables of the session only.
LEMMA SessionInvStutters ==
  ASSUME SessionInv, UNCHANGED sessionVars
  PROVE  SessionInv'
  BY DEF SessionInv, SessionTypeOK, sessionVars

\* A login puts its own page in place of the holder; a failed one shows up as
\* mixed if it took the holder's cookie.
LEMMA LoginKeepsInv ==
  ASSUME SessionInv, NEW p \in Pages, NEW stored \in BOOLEAN, Login(p, stored)
  PROVE  SessionInv'
<1>1. SessionTypeOK'
  <2>1. second \in Cookies /\ second \in Nat
    BY MaxSecondAssumption DEF SessionInv, SessionTypeOK, Cookies
  <2> QED
    BY <2>1 DEF SessionInv, SessionTypeOK, Login
<1>2. ASSUME holder' # Nobody, mixed' = {}
      PROVE  /\ cookie' = jar'[holder'] /\ cookie' # NoCookie
             /\ \A q \in Pages \ {holder'} : jar'[q] # cookie'
             /\ leaving' = {}
  <2>1. leaving = {} /\ mixed = {} /\ \A q \in Pages \ {p} : jar[q] # second
    BY <1>2 DEF Login
  <2>2. second # NoCookie /\ jar'[p] = second
        /\ \A q \in Pages \ {p} : jar'[q] = jar[q]
    BY MaxSecondAssumption, NoCookieAssumption
       DEF SessionInv, SessionTypeOK, Login
  <2>3. CASE stored
    <3>1. holder' = p /\ cookie' = second /\ leaving' = {}
      BY <2>1, <2>3 DEF Login
    <3> QED
      BY <2>1, <2>2, <3>1
  <2>4. CASE ~ stored
    <3>1. holder' = holder /\ holder # p /\ cookie' = cookie /\ leaving' = {}
      BY <1>2, <2>1, <2>4 DEF Login
    <3>2. holder \in Pages \ {p} /\ cookie = jar[holder] /\ cookie # NoCookie
          /\ \A q \in Pages \ {holder} : jar[q] # cookie
      BY <1>2, <2>1, <3>1 DEF SessionInv, SessionTypeOK
    <3> QED
      BY <2>1, <2>2, <3>1, <3>2
  <2> QED
    BY <2>3, <2>4
<1> QED
  BY <1>1, <1>2 DEF SessionInv

\* Only the holder can begin a logout while nothing is mixed up, and stops being
\* the holder.
LEMMA StartLogoutKeepsInv ==
  ASSUME SessionInv, NEW p \in Pages, StartLogout(p)
  PROVE  SessionInv'
<1>1. SessionTypeOK'
  BY DEF SessionInv, SessionTypeOK, StartLogout
<1>2. ASSUME holder' # Nobody, mixed' = {}
      PROVE  FALSE
  <2>1. holder' = holder /\ holder # p /\ holder # Nobody /\ mixed = {}
    BY <1>2 DEF StartLogout
  <2> QED
    BY <2>1 DEF SessionInv, StartLogout, Authorised
<1> QED
  BY <1>1, <1>2 DEF SessionInv

\* No logout can end while there is a holder and nothing is mixed up.
LEMMA EndLogoutKeepsInv ==
  ASSUME SessionInv, NEW p \in Pages, NEW deleted \in BOOLEAN, EndLogout(p, deleted)
  PROVE  SessionInv'
<1>1. SessionTypeOK'
  BY DEF SessionInv, SessionTypeOK, EndLogout, Cookies
<1>2. ~ (holder' # Nobody /\ mixed' = {})
  BY DEF SessionInv, EndLogout
<1> QED
  BY <1>1, <1>2 DEF SessionInv

-----------------------------------------------------------------------------
(* The steps of the drive.                                                  *)

\* Every step of the drive keeps the invariant of the session.
LEMMA NextKeepsSession ==
  ASSUME SessionInv, [Next]_vars
  PROVE  SessionInv'
<1>1. CASE UNCHANGED sessionVars
  BY <1>1, SessionInvStutters
<1>2. ASSUME NEW p \in Pages, SessionStep(p)
      PROVE  SessionInv'
  <2>1. CASE Login(p, TRUE)
    BY <2>1, LoginKeepsInv
  <2>2. CASE Login(p, FALSE)
    BY <2>2, LoginKeepsInv
  <2>3. CASE StartLogout(p)
    BY <2>3, StartLogoutKeepsInv
  <2>4. CASE EndLogout(p, TRUE)
    BY <2>4, EndLogoutKeepsInv
  <2>5. CASE EndLogout(p, FALSE)
    BY <2>5, EndLogoutKeepsInv
  <2> QED
    BY <1>2, <2>1, <2>2, <2>3, <2>4, <2>5 DEF SessionStep
<1>3. CASE Tick
  BY <1>3, MaxSecondAssumption DEF SessionInv, SessionTypeOK, Tick
<1>4. CASE UNCHANGED vars
  BY <1>4, <1>1 DEF vars
<1>5. ASSUME NEW p \in Pages, NEW i \in DOMAIN out[p], Serve(p, i)
      PROVE  UNCHANGED sessionVars
  BY <1>5 DEF Serve, Refuse, List, ChangeFiles, UploadFile, DeleteFile, Arrives
<1>6. ASSUME NEW p \in Pages, NEW at, NEW name, Upload(p, name, at)
      PROVE  UNCHANGED sessionVars
  BY <1>6 DEF Upload
<1>7. ASSUME NEW p \in Pages, NEW at, CreateDirectory(p, at)
      PROVE  UNCHANGED sessionVars
  BY <1>7 DEF CreateDirectory
<1>8. ASSUME NEW p \in Pages, NEW i, NEW new, Relocate(p, i, new)
      PROVE  UNCHANGED sessionVars
  BY <1>8 DEF Relocate
<1>9. ASSUME NEW p \in Pages, NEW i, Delete(p, i)
      PROVE  UNCHANGED sessionVars
  BY <1>9 DEF Delete
<1>10. ASSUME NEW p \in Pages, Load(p)
       PROVE  UNCHANGED sessionVars
  BY <1>10 DEF Load
<1>11. CASE Next
  <2>1. ASSUME NEW p \in Pages, NEW at, NEW i, Move(p, i, at)
        PROVE  UNCHANGED sessionVars
    BY <1>8, <2>1 DEF Move
  <2>2. ASSUME NEW p \in Pages, NEW name, NEW i, Rename(p, i, name)
        PROVE  UNCHANGED sessionVars
    BY <1>8, <2>2 DEF Rename
  <2> QED
    BY <1>1, <1>2, <1>3, <1>5, <1>6, <1>7, <1>9, <1>10, <1>11, <2>1, <2>2 DEF Next
<1> QED
  BY <1>4, <1>11

\* The session of the last login stands until its own page logs out, whatever
\* the files, the failures and the number of pages.
THEOREM SessionOfLastLogin == Spec => []LastLoginStands
<1>1. Init => SessionInv
  BY MaxSecondAssumption, NobodyAssumption
     DEF Init, SessionInit, SessionInv, SessionTypeOK, Cookies
<1>2. SessionInv /\ [Next]_vars => SessionInv'
  BY NextKeepsSession
<1>3. SessionInv => LastLoginStands
  BY SessionInvImplies
<1> QED
  BY <1>1, <1>2, <1>3, PTL DEF Spec

-----------------------------------------------------------------------------
(* Trees and requests.                                                      *)

\* The fields of a request.
LEMMA RequestFields ==
  ASSUME NEW r \in Requests
  PROVE  /\ r.cookie \in Cookies
         /\ r.kind \in {"list", "tree", "upload", "delete"}
         /\ r.kind = "tree" => r.tree \in Trees /\ r.base \in Trees
         /\ r.kind = "upload" => r.entry \in Entries
         /\ r.kind = "delete" => r.id \in Nat
  BY DEF Requests

\* The entries of a tree and their ids.
LEMMA TreeIds ==
  ASSUME NEW t \in Trees
  PROVE  /\ \A i \in DOMAIN t : t[i] \in Entries /\ t[i].id \in Nat \ {Root}
         /\ DirsOf(t) \subseteq Nat
<1>1. \A i \in DOMAIN t : t[i] \in Entries
  BY DEF Trees
<1>2. \A e \in Entries : e.id \in Nat \ {Root}
  BY DEF Entries
<1> QED
  BY <1>1, <1>2 DEF DirsOf, Root

\* First finds the entry or one before it.
LEMMA FirstFinds ==
  ASSUME NEW t \in Trees, NEW i \in DOMAIN t
  PROVE  LET k == First(t, t[i].at, t[i].name)
         IN  /\ k \in DOMAIN t /\ k <= i
             /\ t[k].at = t[i].at /\ t[k].name = t[i].name
             /\ \A j \in 1 .. k - 1 : t[j].at # t[i].at \/ t[j].name # t[i].name
<1> DEFINE at == t[i].at
           name == t[i].name
           P(k) == /\ k \in DOMAIN t /\ t[k].at = at /\ t[k].name = name
                   /\ \A j \in 1 .. k - 1 : t[j].at # at \/ t[j].name # name
           S == {k \in DOMAIN t : t[k].at = at /\ t[k].name = name}
<1>1. PICK n \in Nat : Len(t) = n /\ DOMAIN t = 1 .. n
  BY DEF Trees
<1>2. S \in SUBSET Nat /\ S # {} /\ i \in S
  BY <1>1
<1>3. PICK k \in S : \A j \in S : k <= j
  <2> HIDE DEF S
  <2> QED
    BY <1>2, LeastNatural
<1>4. P(k)
  <2>1. ASSUME NEW j \in 1 .. k - 1 PROVE j \notin S /\ j \in DOMAIN t
    BY <1>1, <1>3
  <2> QED
    BY <1>3, <2>1
<1>5. P(CHOOSE j : P(j))
  <2> HIDE DEF P
  <2> QED
    BY <1>4
<1>6. First(t, at, name) = CHOOSE j : P(j)
  BY DEF First
<1>7. PICK m : m = First(t, at, name)
  OBVIOUS
<1>8. P(m)
  BY <1>5, <1>6, <1>7, Zenon
<1>9. m <= i
  <2> SUFFICES ASSUME ~ (m <= i) PROVE FALSE
    OBVIOUS
  <2>1. i \in 1 .. m - 1
    BY <1>1, <1>8
  <2> QED
    BY <1>8, <2>1
<1> QED
  BY <1>7, <1>8, <1>9

\* Removing an entry, adding one and both together give trees.
LEMMA TreesStayTrees ==
  ASSUME NEW t \in Trees
  PROVE  /\ \A e \in Entries : AddEntry(t, e) \in Trees
         /\ \A i \in DOMAIN t : RemoveEntry(t, t[i].at, t[i].name) \in Trees
         /\ Reachable(t) \in Trees
<1>1. \A e \in Entries : AddEntry(t, e) \in Trees
  BY DEF AddEntry, Trees
<1>2. ASSUME NEW i \in DOMAIN t
      PROVE  RemoveEntry(t, t[i].at, t[i].name) \in Trees
  BY FirstFinds, RemoveAtElement DEF RemoveEntry, Trees
<1>3. Reachable(t) \in Trees
  <2>1. PICK places : places = {i \in DOMAIN t : ~ Lost(t, t[i])}
    OBVIOUS
  <2>2. At(t, places) \in Trees
    BY AtPicks DEF Picked, Trees
  <2> QED
    BY <2>1, <2>2 DEF Reachable
<1> QED
  BY <1>1, <1>2, <1>3

\* So does Replace.
LEMMA ReplaceMakesTree ==
  ASSUME NEW t \in Trees, NEW i \in DOMAIN t, NEW new \in Entries
  PROVE  Replace(t, t[i], new) \in Trees
<1>1. PICK u : u = AddEntry(t, new)
  OBVIOUS
<1>2. u \in Trees /\ i \in DOMAIN u /\ u[i] = t[i]
  BY <1>1 DEF AddEntry, Trees
<1>3. RemoveEntry(u, u[i].at, u[i].name) \in Trees
  BY <1>2, TreesStayTrees
<1> QED
  BY <1>1, <1>2, <1>3, TreesStayTrees DEF Replace

\* RemoveAt as a sequence with all elements but one.
LEMMA RemoveAtEmbeds ==
  ASSUME NEW S, NEW q \in Seq(S), NEW i \in DOMAIN q
  PROVE  \E h : Embeds(q, DOMAIN q \ {i}, RemoveAt(q, i), Len(q), h)
<1>1. PICK n \in Nat : Len(q) = n /\ DOMAIN q = 1 .. n
  OBVIOUS
<1>2. PICK s : s = RemoveAt(q, i)
  OBVIOUS
<1>3. /\ DOMAIN s = 1 .. n - 1
      /\ \A j \in 1 .. n - 1 : s[j] = IF j < i THEN q[j] ELSE q[j + 1]
  BY <1>1, <1>2, RemoveAtElement
<1>4. PICK h : h = [j \in 1 .. n - 1 |-> IF j < i THEN j ELSE j + 1]
  OBVIOUS
<1>5. /\ \A j \in 1 .. n - 1 : h[j] = IF j < i THEN j ELSE j + 1
      /\ h \in [1 .. n - 1 -> 1 .. n]
  BY <1>1, <1>4
<1>6. \A j \in 1 .. n - 1 : h[j] \in DOMAIN q \ {i} /\ s[j] = q[h[j]]
  BY <1>1, <1>3, <1>5
<1>7. \A j \in 1 .. n - 1 : \A k \in 1 .. n - 1 : j < k => h[j] < h[k]
  BY <1>1, <1>5
<1>8. \A k \in 1 .. n : k \in DOMAIN q \ {i} => \E j \in 1 .. n - 1 : h[j] = k
  <2> SUFFICES ASSUME NEW k \in 1 .. n, k # i
               PROVE  \E j \in 1 .. n - 1 : h[j] = k
    BY <1>1
  <2>1. CASE k < i
    BY <1>1, <1>5, <2>1
  <2>2. CASE i < k
    <3>1. k - 1 \in 1 .. n - 1 /\ h[k - 1] = k
      BY <1>1, <1>5, <2>2
    <3> QED
      BY <3>1
  <2> QED
    BY <1>1, <2>1, <2>2
<1>9. Embeds(q, DOMAIN q \ {i}, s, n, h)
  BY <1>3, <1>5, <1>6, <1>7, <1>8 DEF Embeds
<1> QED
  BY <1>1, <1>2, <1>9

-----------------------------------------------------------------------------
(* Pages.                                                                   *)

\* The requests s of a page with tree t: while it waits for an upload it has a
\* tree; while it waits for the list it has none, and has sent nothing since.
PageOK(s, t) ==
    /\ s \in Seq(Requests) /\ t \in Trees \cup {NoTree}
    /\ \A i \in DOMAIN s :
          /\ s[i].kind = "upload" => t # NoTree
          /\ s[i].kind = "list" => t = NoTree /\ i = Len(s)

\* Fewer requests.
LEMMA PageDrops ==
  ASSUME NEW s, NEW t, PageOK(s, t), NEW places, NEW u \in Seq(Requests),
         NEW h, Embeds(s, places, u, Len(s), h)
  PROVE  PageOK(u, t)
<1>1. PICK n \in Nat : Len(s) = n /\ DOMAIN s = 1 .. n
  BY DEF PageOK
<1>2. PICK m \in Nat : Len(u) = m /\ DOMAIN u = 1 .. m
  OBVIOUS
<1>3. /\ \A i \in 1 .. m : h[i] \in 1 .. n /\ u[i] = s[h[i]]
      /\ \A i \in 1 .. m : \A j \in 1 .. m : i < j => h[i] < h[j]
  BY <1>1, <1>2 DEF Embeds
<1>4. ASSUME NEW i \in 1 .. m
      PROVE  /\ u[i].kind = "upload" => t # NoTree
             /\ u[i].kind = "list" => t = NoTree /\ i = m
  <2>1. h[i] \in 1 .. n /\ u[i] = s[h[i]]
    BY <1>3
  <2>2. u[i].kind = "list" => t = NoTree /\ h[i] = n
    BY <1>1, <2>1 DEF PageOK
  <2>3. ASSUME u[i].kind = "list", i # m PROVE FALSE
    <3>1. m \in 1 .. m /\ i < m
      BY <1>2, <2>3
    <3> QED
      BY <1>3, <2>2, <2>3, <3>1
  <2> QED
    BY <1>1, <2>1, <2>2, <2>3 DEF PageOK
<1> QED
  BY <1>1, <1>2, <1>4 DEF PageOK

\* One request less.
LEMMA PageRemoves ==
  ASSUME NEW s, NEW t, PageOK(s, t), NEW i \in DOMAIN s
  PROVE  PageOK(RemoveAt(s, i), t)
<1>1. s \in Seq(Requests)
  BY DEF PageOK
<1>2. RemoveAt(s, i) \in Seq(Requests)
  BY <1>1, RemoveAtElement
<1> QED
  BY <1>1, <1>2, RemoveAtEmbeds, PageDrops

\* A page with a tree changes it and sends one request more.
LEMMA PageSends ==
  ASSUME NEW s, NEW t, PageOK(s, t), NEW u \in Trees,
         \A i \in DOMAIN s : s[i].kind # "list",
         NEW r \in Requests, r.kind # "list"
  PROVE  PageOK(Append(s, r), u)
<1>1. PICK n \in Nat : Len(s) = n /\ DOMAIN s = 1 .. n
  BY DEF PageOK
<1>2. PICK a : a = Append(s, r)
  OBVIOUS
<1>3. /\ a \in Seq(Requests) /\ DOMAIN a = 1 .. n + 1
      /\ a[n + 1] = r /\ \A i \in 1 .. n : a[i] = s[i]
  BY <1>1, <1>2, AppendProperties DEF PageOK
<1>4. \A i \in 1 .. n + 1 : a[i].kind # "list"
  BY <1>1, <1>3
<1>5. u # NoTree
  BY NoTreeAssumption
<1> QED
  BY <1>2, <1>3, <1>4, <1>5 DEF PageOK

\* It is loaded.
LEMMA PageLoads ==
  ASSUME NEW s, NEW t, PageOK(s, t), NEW r \in Requests, r.kind = "list"
  PROVE  PageOK(Append(Lasting(s), r), NoTree)
<1>1. PICK u : u = Lasting(s)
  OBVIOUS
<1>2. u \in Seq(Requests) /\ \A i \in DOMAIN u : u[i].kind \in {"tree", "delete"}
  <2>1. PICK places : places = {i \in DOMAIN s : s[i].kind \in {"tree", "delete"}}
    OBVIOUS
  <2>2. Picked(Requests, s, places, u, Len(s))
    BY <1>1, <2>1, AtPicks DEF Lasting, PageOK
  <2>3. PICK h : Embeds(s, places, u, Len(s), h)
    BY <2>2 DEF Picked
  <2> QED
    BY <2>1, <2>2, <2>3 DEF Picked, Embeds
<1>3. PICK n \in Nat : Len(u) = n /\ DOMAIN u = 1 .. n
  BY <1>2
<1>4. PICK a : a = Append(u, r)
  OBVIOUS
<1>5. /\ a \in Seq(Requests) /\ DOMAIN a = 1 .. n + 1 /\ Len(a) = n + 1
      /\ a[n + 1] = r /\ \A i \in 1 .. n : a[i] = u[i]
  BY <1>2, <1>3, <1>4, AppendProperties
<1>6. \A i \in 1 .. n + 1 : i = n + 1 \/ i \in 1 .. n
  OBVIOUS
<1> QED
  BY <1>1, <1>2, <1>3, <1>4, <1>5, <1>6 DEF PageOK

-----------------------------------------------------------------------------
(* Types.                                                                   *)

\* The types, with what they rest on: a page supposes its own tree to be
\* stored, and an answer finds the page as its request left it.
TypeInv ==
    /\ TypeOK
    /\ known = tree
    /\ next # 0
    /\ \A p \in Pages : PageOK(out[p], tree[p])

\* A step that replaces the requests and the tree of one page.
LEMMA PageStepKeepsTypes ==
  ASSUME TypeInv, SessionTypeOK', NEW p \in Pages, NEW s, NEW t, PageOK(s, t),
         out' = [out EXCEPT ![p] = s],
         tree' = [tree EXCEPT ![p] = t], known' = tree',
         files' \in Trees \cup {NullTree}, cells' \subseteq Nat, kept' \subseteq Nat,
         next' \in Nat \ {0}, steps' \in 0 .. MaxSteps, fails' \in 0 .. MaxFails,
         seen' \subseteq Pages, harm' \subseteq Harms, causes' \subseteq Causes
  PROVE  TypeInv'
<1>1. s \in Seq(Requests) /\ t \in Trees \cup {NoTree}
  BY DEF PageOK
<1>2. /\ out \in [Pages -> Seq(Requests)]
      /\ tree \in [Pages -> Trees \cup {NoTree}]
  BY DEF TypeInv, TypeOK
<1>3. /\ out' \in [Pages -> Seq(Requests)]
      /\ tree' \in [Pages -> Trees \cup {NoTree}]
  BY <1>1, <1>2
<1>4. ASSUME NEW q \in Pages PROVE PageOK(out'[q], tree'[q])
  <2>1. CASE q = p
    BY <1>2, <2>1
  <2>2. CASE q # p
    <3>1. out'[q] = out[q] /\ tree'[q] = tree[q]
      BY <1>2, <2>2
    <3> QED
      BY <3>1 DEF TypeInv
  <2> QED
    BY <2>1, <2>2
<1>5. TypeOK'
  BY <1>3 DEF TypeOK
<1> QED
  BY <1>4, <1>5 DEF TypeInv

\* What the steps of a page find.
LEMMA PageTypes ==
  ASSUME TypeInv, NEW p \in Pages
  PROVE  /\ out[p] \in Seq(Requests) /\ PageOK(out[p], tree[p])
         /\ tree[p] \in Trees \cup {NoTree} /\ known[p] = tree[p]
         /\ jar[p] \in Cookies
         /\ files \in Trees \cup {NullTree}
         /\ cells \subseteq Nat /\ kept \subseteq Nat /\ next \in Nat \ {0}
         /\ seen \subseteq Pages /\ harm \subseteq Harms /\ causes \subseteq Causes
         /\ steps \in 0 .. MaxSteps /\ fails \in 0 .. MaxFails
         /\ tree = [tree EXCEPT ![p] = tree[p]]
         /\ tree[p] # NoTree => \A i \in DOMAIN out[p] : out[p][i].kind # "list"
         /\ MaxSteps \in Nat /\ MaxFails \in Nat
  BY BoundsAssumption DEF TypeInv, TypeOK, SessionTypeOK, PageOK

\* The counter of what the user does.
LEMMA DoesKeepsSteps ==
  ASSUME TypeInv, NEW p \in Pages, Does(p)
  PROVE  steps' \in 0 .. MaxSteps
  BY PageTypes DEF Does

LEMMA LoadKeepsTypes ==
  ASSUME TypeInv, SessionTypeOK', NEW p \in Pages, Load(p)
  PROVE  TypeInv'
<1>1. PICK r : r = [kind |-> "list", cookie |-> jar[p]]
  OBVIOUS
<1>2. r \in Requests /\ r.kind = "list"
  BY <1>1, PageTypes DEF Requests
<1>3. PageOK(Append(Lasting(out[p]), r), NoTree)
  BY <1>2, PageTypes, PageLoads
<1>4. /\ out' = [out EXCEPT ![p] = Append(Lasting(out[p]), r)]
      /\ tree' = [tree EXCEPT ![p] = NoTree] /\ known' = tree'
  BY <1>1 DEF Load, TypeInv
<1> QED
  BY <1>3, <1>4, PageTypes, DoesKeepsSteps, PageStepKeepsTypes DEF Load

LEMMA UploadKeepsTypes ==
  ASSUME TypeInv, SessionTypeOK', NEW p \in Pages, NEW name \in Names,
         NEW at \in DirsOf(tree[p]), Upload(p, name, at)
  PROVE  TypeInv'
<1>1. PICK r : r = [kind |-> "upload", cookie |-> jar[p],
                    entry |-> [id |-> next, dir |-> FALSE, name |-> name, at |-> at]]
  OBVIOUS
<1>2. tree[p] \in Trees /\ at \in Nat
  BY PageTypes, TreeIds DEF Upload
<1>3. r \in Requests /\ r.kind # "list"
  BY <1>1, <1>2, PageTypes DEF Requests, Entries, Root
<1>4. PageOK(Append(out[p], r), tree[p])
  BY <1>2, <1>3, PageTypes, PageSends DEF Upload
<1>5. /\ out' = [out EXCEPT ![p] = Append(out[p], r)]
      /\ tree' = [tree EXCEPT ![p] = tree[p]] /\ known' = tree'
  BY <1>1, PageTypes DEF Upload, TypeInv
<1>6. next' \in Nat \ {0}
  BY PageTypes DEF Upload
<1> QED
  BY <1>4, <1>5, <1>6, PageTypes, DoesKeepsSteps, PageStepKeepsTypes DEF Upload

\* A change of the tree, after requests that are none or one.
LEMMA ChangeKeepsPage ==
  ASSUME TypeInv, NEW p \in Pages, tree[p] # NoTree, NEW t \in Trees, NEW before,
         Change(p, t, before),
         \/ before = << >>
         \/ \E r \in Requests : r.kind # "list" /\ before = <<r>>
  PROVE  /\ known' = tree' /\ tree' = [tree EXCEPT ![p] = t]
         /\ \E s : PageOK(s, t) /\ out' = [out EXCEPT ![p] = s]
<1>1. PICK post : post = [kind |-> "tree", cookie |-> jar[p], tree |-> t,
                          base |-> known[p]]
  OBVIOUS
<1>2. post \in Requests /\ post.kind # "list"
  BY <1>1, PageTypes DEF Requests
<1>3. known' = tree' /\ tree' = [tree EXCEPT ![p] = t]
  BY DEF Change, TypeInv
<1>4. out' = [out EXCEPT ![p] = (out[p] \o before) \o <<post>>]
  BY <1>1 DEF Change
<1>5. CASE before = << >>
  <2>1. (out[p] \o before) \o <<post>> = Append(out[p], post)
    BY <1>2, <1>5, PageTypes, AppendIsConcat, ConcatEmptySeq
  <2> QED
    BY <1>2, <1>3, <1>4, <2>1, PageTypes, PageSends
<1>6. ASSUME NEW r \in Requests, r.kind # "list", before = <<r>>
      PROVE  \E s : PageOK(s, t) /\ out' = [out EXCEPT ![p] = s]
  <2>1. PICK a : a = Append(out[p], r)
    OBVIOUS
  <2>2. /\ a \in Seq(Requests) /\ out[p] \o before = a
        /\ a \o <<post>> = Append(a, post)
    BY <1>2, <1>6, <2>1, PageTypes, AppendIsConcat, AppendProperties
  <2>3. PageOK(a, tree[p])
    BY <1>6, <2>1, PageTypes, PageSends
  <2>4. \A i \in DOMAIN a : a[i].kind # "list"
    BY <1>6, <2>1, PageTypes, AppendProperties
  <2>5. PageOK(Append(a, post), t)
    BY <1>2, <2>3, <2>4, PageSends
  <2> QED
    BY <1>4, <2>2, <2>5
<1> QED
  BY <1>3, <1>5, <1>6

LEMMA CreateDirectoryKeepsTypes ==
  ASSUME TypeInv, SessionTypeOK', NEW p \in Pages, tree[p] # NoTree,
         NEW at \in DirsOf(tree[p]), CreateDirectory(p, at)
  PROVE  TypeInv'
<1>1. PICK e : e = [id |-> next, dir |-> TRUE, name |-> next, at |-> at]
  OBVIOUS
<1>2. tree[p] \in Trees /\ at \in Nat
  BY PageTypes, TreeIds
<1>3. e \in Entries
  BY <1>1, <1>2, PageTypes DEF Entries, Root
<1>4. AddEntry(tree[p], e) \in Trees
  BY <1>2, <1>3, TreesStayTrees
<1>5. Change(p, AddEntry(tree[p], e), << >>)
  BY <1>1 DEF CreateDirectory
<1>6. PICK s : /\ PageOK(s, AddEntry(tree[p], e)) /\ out' = [out EXCEPT ![p] = s]
               /\ known' = tree'
               /\ tree' = [tree EXCEPT ![p] = AddEntry(tree[p], e)]
  BY <1>4, <1>5, ChangeKeepsPage
<1>7. next' \in Nat \ {0}
  BY PageTypes DEF CreateDirectory
<1> QED
  BY <1>6, <1>7, PageTypes, DoesKeepsSteps, PageStepKeepsTypes DEF CreateDirectory

LEMMA DeleteKeepsTypes ==
  ASSUME TypeInv, SessionTypeOK', NEW p \in Pages, tree[p] # NoTree,
         NEW i \in DOMAIN tree[p], Delete(p, i)
  PROVE  TypeInv'
<1>1. PICK e : e = tree[p][i]
  OBVIOUS
<1>2. tree[p] \in Trees /\ e \in Entries
  BY <1>1, PageTypes DEF Trees
<1>3. PICK t : t = RemoveEntry(tree[p], e.at, e.name)
  OBVIOUS
<1>4. t \in Trees
  BY <1>1, <1>2, <1>3, TreesStayTrees
<1>5. PICK r : r = [kind |-> "delete", cookie |-> jar[p], id |-> e.id]
  OBVIOUS
<1>6. r \in Requests /\ r.kind # "list"
  BY <1>2, <1>5, PageTypes DEF Requests, Entries
<1>7. Change(p, t, IF e.dir THEN << >> ELSE <<r>>)
  BY <1>1, <1>3, <1>5 DEF Delete
<1>8. PICK s : /\ PageOK(s, t) /\ out' = [out EXCEPT ![p] = s]
               /\ known' = tree' /\ tree' = [tree EXCEPT ![p] = t]
  <2>1. CASE e.dir
    BY <1>4, <1>7, <2>1, ChangeKeepsPage
  <2>2. CASE ~ e.dir
    BY <1>4, <1>6, <1>7, <2>2, ChangeKeepsPage
  <2> QED
    BY <2>1, <2>2
<1>9. harm' \subseteq Harms /\ kept' \subseteq Nat
  BY PageTypes DEF Delete, HarmOfRemoval, Harms
<1> QED
  BY <1>8, <1>9, PageTypes, DoesKeepsSteps, PageStepKeepsTypes DEF Delete

LEMMA RelocateKeepsTypes ==
  ASSUME TypeInv, SessionTypeOK', NEW p \in Pages, tree[p] # NoTree,
         NEW i \in DOMAIN tree[p], NEW new \in Entries, Relocate(p, i, new)
  PROVE  TypeInv'
<1>1. PICK t : t = Replace(tree[p], tree[p][i], new)
  OBVIOUS
<1>2. t \in Trees
  BY <1>1, PageTypes, ReplaceMakesTree
<1>3. Change(p, t, << >>)
  BY <1>1 DEF Relocate
<1>4. PICK s : /\ PageOK(s, t) /\ out' = [out EXCEPT ![p] = s]
               /\ known' = tree' /\ tree' = [tree EXCEPT ![p] = t]
  BY <1>2, <1>3, ChangeKeepsPage
<1>5. harm' \subseteq Harms
  BY PageTypes DEF Relocate, HarmOfRemoval, Harms
<1> QED
  BY <1>4, <1>5, PageTypes, DoesKeepsSteps, PageStepKeepsTypes DEF Relocate

\* What handleMove and handleRename put in place of an entry.
LEMMA MovedIsEntry ==
  ASSUME TypeInv, NEW p \in Pages, tree[p] # NoTree, NEW i \in DOMAIN tree[p]
  PROVE  /\ tree[p][i] \in Entries
         /\ \A at \in DirsOf(tree[p]) : [tree[p][i] EXCEPT !.at = at] \in Entries
         /\ \A name \in Names : [tree[p][i] EXCEPT !.name = name] \in Entries
<1>1. tree[p] \in Trees
  BY PageTypes
<1>2. tree[p][i] \in Entries /\ DirsOf(tree[p]) \subseteq Nat
  BY <1>1, TreeIds
<1> QED
  BY <1>2 DEF Entries

-----------------------------------------------------------------------------
(* Types: the steps of the servers.                                         *)

\* What Arrives leaves and records.
LEMMA ArrivesKeepsTypes ==
  ASSUME TypeInv, NEW p \in Pages, NEW i \in DOMAIN out[p], NEW kind,
         Arrives(p, i, kind)
  PROVE  /\ out[p][i] \in Requests /\ out[p][i].kind = kind
         /\ causes' \subseteq Causes
         /\ next' \in Nat \ {0} /\ steps' \in 0 .. MaxSteps
         /\ jar' = jar
<1>1. out[p][i] \in Requests
  BY PageTypes, ElementOfSeq
<1>2. causes' \subseteq Causes
  BY PageTypes DEF Arrives, Causes
<1> QED
  BY <1>1, <1>2, PageTypes DEF Arrives, sessionVars

\* A request that is gone.
LEMMA GoneKeepsTypes ==
  ASSUME TypeInv, SessionTypeOK', NEW p \in Pages, NEW i \in DOMAIN out[p],
         NEW kind, Arrives(p, i, kind), Gone(p, i), UNCHANGED <<tree, known>>,
         files' \in Trees \cup {NullTree}, cells' \subseteq Nat, kept' \subseteq Nat,
         fails' \in 0 .. MaxFails, seen' \subseteq Pages, harm' \subseteq Harms
  PROVE  TypeInv'
<1>1. PICK s : s = RemoveAt(out[p], i)
  OBVIOUS
<1>2. PageOK(s, tree[p])
  BY <1>1, PageTypes, PageRemoves
<1>3. /\ out' = [out EXCEPT ![p] = s] /\ known' = tree'
      /\ tree' = [tree EXCEPT ![p] = tree[p]]
  BY <1>1, PageTypes DEF Gone, TypeInv
<1> QED
  BY <1>2, <1>3, ArrivesKeepsTypes, PageStepKeepsTypes

\* One that is answered by a tree the page posts.
LEMMA AnswerKeepsTypes ==
  ASSUME TypeInv, SessionTypeOK', NEW p \in Pages, NEW i \in DOMAIN out[p],
         NEW kind, Arrives(p, i, kind), NEW t \in Trees, NEW base \in Trees,
         \A j \in DOMAIN out[p] : out[p][j].kind # "list" \/ j = i,
         tree' = [tree EXCEPT ![p] = t], known' = [known EXCEPT ![p] = t],
         out' = [out EXCEPT ![p] = Append(RemoveAt(out[p], i),
                    [kind |-> "tree", cookie |-> jar[p], tree |-> t,
                     base |-> base])],
         files' \in Trees \cup {NullTree}, cells' \subseteq Nat, kept' \subseteq Nat,
         fails' \in 0 .. MaxFails, seen' \subseteq Pages, harm' \subseteq Harms
  PROVE  TypeInv'
<1>1. PICK post : post = [kind |-> "tree", cookie |-> jar[p], tree |-> t,
                          base |-> base]
  OBVIOUS
<1>2. post \in Requests /\ post.kind # "list"
  BY <1>1, PageTypes DEF Requests
<1>3. PICK s : s = RemoveAt(out[p], i)
  OBVIOUS
<1>4. PageOK(s, tree[p])
  BY <1>3, PageTypes, PageRemoves
<1>5. \A j \in DOMAIN s : s[j].kind # "list"
  <2>1. PICK h : Embeds(out[p], DOMAIN out[p] \ {i}, s, Len(out[p]), h)
    BY <1>3, PageTypes, RemoveAtEmbeds
  <2> QED
    BY <2>1 DEF Embeds
<1>6. PageOK(Append(s, post), t)
  BY <1>2, <1>4, <1>5, PageSends
<1>7. out' = [out EXCEPT ![p] = Append(s, post)] /\ known' = tree'
  BY <1>1, <1>3 DEF TypeInv
<1> QED
  BY <1>6, <1>7, ArrivesKeepsTypes, PageStepKeepsTypes

LEMMA RefuseKeepsTypes ==
  ASSUME TypeInv, SessionTypeOK', NEW p \in Pages, NEW i \in DOMAIN out[p],
         Refuse(p, i)
  PROVE  TypeInv'
<1>1. PICK kind : Arrives(p, i, kind) /\ Gone(p, i)
  BY DEF Refuse
<1>2. harm' \subseteq Harms /\ fails' \in 0 .. MaxFails
  BY PageTypes DEF Refuse, Harms
<1>3. UNCHANGED <<files, cells, tree, known, kept, seen>>
  BY DEF Refuse
<1> QED
  BY <1>1, <1>2, <1>3, PageTypes, GoneKeepsTypes

LEMMA ListKeepsTypes ==
  ASSUME TypeInv, SessionTypeOK', NEW p \in Pages, NEW i \in DOMAIN out[p],
         List(p, i)
  PROVE  TypeInv'
<1>1. Arrives(p, i, "list")
  BY DEF List
<1>2. out[p][i].kind = "list"
  BY <1>1 DEF Arrives
<1>3. ASSUME NEW j \in DOMAIN out[p], out[p][j].kind = "list" PROVE j = i
  BY <1>2, <1>3, PageTypes DEF PageOK
<1>4. PICK t : t \in Trees /\ Show(p, i, t)
  <2>1. Shown \in Trees /\ << >> \in Trees
    BY PageTypes DEF Shown, Trees
  <2> QED
    BY <2>1 DEF List
<1>5. /\ tree' = [tree EXCEPT ![p] = t] /\ known' = [known EXCEPT ![p] = t]
      /\ out' = [out EXCEPT ![p] = Append(RemoveAt(out[p], i),
                    [kind |-> "tree", cookie |-> jar[p], tree |-> t,
                     base |-> t])]
  BY <1>4 DEF Show
<1>6. /\ files' \in Trees \cup {NullTree} /\ cells' \subseteq Nat
      /\ kept' \subseteq Nat /\ fails' \in 0 .. MaxFails
      /\ seen' \subseteq Pages /\ harm' \subseteq Harms
  BY PageTypes DEF List, Show, Harms
<1> QED
  BY <1>1, <1>3, <1>4, <1>5, <1>6, AnswerKeepsTypes

LEMMA ChangeFilesKeepsTypes ==
  ASSUME TypeInv, SessionTypeOK', NEW p \in Pages, NEW i \in DOMAIN out[p],
         ChangeFiles(p, i)
  PROVE  TypeInv'
<1>1. Arrives(p, i, "tree") /\ Gone(p, i) /\ UNCHANGED <<tree, known>>
  BY DEF ChangeFiles
<1>2. out[p][i].tree \in Trees
  BY <1>1, ArrivesKeepsTypes, RequestFields
<1>3. harm' \subseteq Harms
  BY PageTypes DEF ChangeFiles, Harms
<1>4. /\ files' \in Trees \cup {NullTree} /\ cells' \subseteq Nat
      /\ kept' \subseteq Nat /\ fails' \in 0 .. MaxFails /\ seen' \subseteq Pages
  BY <1>2, PageTypes DEF ChangeFiles
<1> QED
  BY <1>1, <1>3, <1>4, GoneKeepsTypes

LEMMA UploadFileKeepsTypes ==
  ASSUME TypeInv, SessionTypeOK', NEW p \in Pages, NEW i \in DOMAIN out[p],
         UploadFile(p, i)
  PROVE  TypeInv'
<1>1. Arrives(p, i, "upload")
  BY DEF UploadFile
<1>2. PICK e : e = out[p][i].entry
  OBVIOUS
<1>3. e \in Entries /\ e.id \in Nat
  <2>1. e \in Entries
    BY <1>1, <1>2, ArrivesKeepsTypes, RequestFields
  <2> QED
    BY <2>1 DEF Entries
<1>4. tree[p] \in Trees /\ tree[p] # NoTree /\ known[p] = tree[p]
  BY <1>1, PageTypes DEF PageOK, Arrives
<1>5. PICK t : t = AddEntry(tree[p], e)
  OBVIOUS
<1>6. t \in Trees
  BY <1>3, <1>4, <1>5, TreesStayTrees
<1>7. /\ tree' = [tree EXCEPT ![p] = t] /\ known' = [known EXCEPT ![p] = t]
      /\ out' = [out EXCEPT ![p] = Append(RemoveAt(out[p], i),
                    [kind |-> "tree", cookie |-> jar[p], tree |-> t,
                     base |-> tree[p]])]
  BY <1>2, <1>4, <1>5 DEF UploadFile
<1>8. cells' \subseteq Nat /\ kept' \subseteq Nat
  BY <1>2, <1>3, PageTypes DEF UploadFile
<1>9. /\ files' \in Trees \cup {NullTree} /\ fails' \in 0 .. MaxFails
      /\ seen' \subseteq Pages /\ harm' \subseteq Harms
  BY PageTypes DEF UploadFile, Harms
<1>10. \A j \in DOMAIN out[p] : out[p][j].kind # "list"
  BY <1>4, PageTypes
<1> QED
  BY <1>1, <1>4, <1>6, <1>7, <1>8, <1>9, <1>10, AnswerKeepsTypes

LEMMA DeleteFileKeepsTypes ==
  ASSUME TypeInv, SessionTypeOK', NEW p \in Pages, NEW i \in DOMAIN out[p],
         DeleteFile(p, i)
  PROVE  TypeInv'
<1>1. Arrives(p, i, "delete") /\ Gone(p, i) /\ UNCHANGED <<tree, known>>
  BY DEF DeleteFile
<1>2. /\ files' \in Trees \cup {NullTree} /\ cells' \subseteq Nat
      /\ kept' \subseteq Nat /\ fails' \in 0 .. MaxFails
      /\ seen' \subseteq Pages /\ harm' \subseteq Harms
  BY PageTypes DEF DeleteFile, Harms
<1> QED
  BY <1>1, <1>2, GoneKeepsTypes

\* The steps that leave the pages alone.
LEMMA OthersKeepTypes ==
  ASSUME TypeInv, SessionTypeOK',
         \/ UNCHANGED driveVars
         \/ \E p \in Pages : SessionStep(p)
  PROVE  TypeInv'
<1>1. CASE UNCHANGED driveVars
  BY <1>1 DEF driveVars, TypeInv, TypeOK
<1>2. ASSUME NEW p \in Pages, SessionStep(p) PROVE TypeInv'
  <2>1. steps' \in 0 .. MaxSteps /\ fails' \in 0 .. MaxFails
    <3>1. steps' = steps \/ (steps < MaxSteps /\ steps' = steps + 1)
      BY <1>2 DEF SessionStep, Does
    <3>2. fails' = fails \/ (fails < MaxFails /\ fails' = fails + 1)
      BY <1>2 DEF SessionStep
    <3> QED
      BY <3>1, <3>2, BoundsAssumption DEF TypeInv, TypeOK
  <2>2. causes' \subseteq Causes
    BY <1>2, PageTypes DEF SessionStep, Causes
  <2>3. UNCHANGED <<files, cells, tree, out, next, known, kept, seen, harm>>
    BY <1>2 DEF SessionStep
  <2> QED
    BY <2>1, <2>2, <2>3 DEF TypeInv, TypeOK
<1> QED
  BY <1>1, <1>2

\* Every step is one of these.
LEMMA StepCases ==
  ASSUME [Next]_vars, TypeInv
  PROVE  \/ UNCHANGED driveVars /\ UNCHANGED <<cookie, jar>>
         \/ \E p \in Pages :
               \/ Load(p) \/ SessionStep(p)
               \/ \E i \in DOMAIN out[p] : Serve(p, i)
               \/ /\ tree[p] # NoTree
                  /\ \/ \E at \in DirsOf(tree[p]), name \in Names :
                           Upload(p, name, at)
                     \/ \E at \in DirsOf(tree[p]) : CreateDirectory(p, at)
                     \/ \E i \in DOMAIN tree[p] : Delete(p, i)
                     \/ \E i \in DOMAIN tree[p] : \E new \in Entries :
                           /\ new.id = tree[p][i].id /\ new.dir = tree[p][i].dir
                           /\ Relocate(p, i, new)
<1>1. ASSUME NEW p \in Pages, tree[p] # NoTree, NEW i \in DOMAIN tree[p],
             NEW at \in DirsOf(tree[p]), Move(p, i, at)
      PROVE  \E new \in Entries :
                /\ new.id = tree[p][i].id /\ new.dir = tree[p][i].dir
                /\ Relocate(p, i, new)
  <2>1. PICK new : new = [tree[p][i] EXCEPT !.at = at]
    OBVIOUS
  <2>2. new \in Entries /\ tree[p][i] \in Entries
    BY <1>1, <2>1, MovedIsEntry
  <2>3. new.id = tree[p][i].id /\ new.dir = tree[p][i].dir
    BY <2>1, <2>2 DEF Entries
  <2> QED
    BY <1>1, <2>1, <2>2, <2>3 DEF Move
<1>2. ASSUME NEW p \in Pages, tree[p] # NoTree, NEW i \in DOMAIN tree[p],
             NEW name \in Names, Rename(p, i, name)
      PROVE  \E new \in Entries :
                /\ new.id = tree[p][i].id /\ new.dir = tree[p][i].dir
                /\ Relocate(p, i, new)
  <2>1. PICK new : new = [tree[p][i] EXCEPT !.name = name]
    OBVIOUS
  <2>2. new \in Entries /\ tree[p][i] \in Entries
    BY <1>2, <2>1, MovedIsEntry
  <2>3. new.id = tree[p][i].id /\ new.dir = tree[p][i].dir
    BY <2>1, <2>2 DEF Entries
  <2> QED
    BY <1>2, <2>1, <2>2, <2>3 DEF Rename
<1>3. UNCHANGED vars => UNCHANGED driveVars /\ UNCHANGED <<cookie, jar>>
  BY DEF vars, sessionVars
<1>4. CASE Next
  <2>1. Tick => UNCHANGED <<cookie, jar>>
    BY DEF Tick
  <2> QED
    BY <1>1, <1>2, <1>4, <2>1, Zenon DEF Next
<1> QED
  BY <1>3, <1>4

LEMMA NextKeepsTypes ==
  ASSUME TypeInv, SessionTypeOK', [Next]_vars
  PROVE  TypeInv'
<1>1. ASSUME NEW p \in Pages, NEW i \in DOMAIN out[p], Serve(p, i)
      PROVE  TypeInv'
  BY <1>1, RefuseKeepsTypes, ListKeepsTypes, ChangeFilesKeepsTypes,
     UploadFileKeepsTypes, DeleteFileKeepsTypes DEF Serve
<1> QED
  BY <1>1, StepCases, OthersKeepTypes, LoadKeepsTypes, UploadKeepsTypes,
     CreateDirectoryKeepsTypes, DeleteKeepsTypes, RelocateKeepsTypes

\* Where the user starts.
LEMMA InitTypes == Init => TypeInv /\ SessionInv /\ FirstTree \in Trees
<1> SUFFICES ASSUME Init PROVE TypeInv /\ SessionInv /\ FirstTree \in Trees
  OBVIOUS
<1>1. FirstTree \in Trees
  <2>1. (CHOOSE name \in Names : TRUE) \in Names
    BY NamesAssumption
  <2> QED
    BY <2>1 DEF FirstTree, Trees, Entries, Root
<1>2. SessionInv
  BY MaxSecondAssumption, NobodyAssumption
     DEF Init, SessionInit, SessionInv, SessionTypeOK, Cookies
<1>3. /\ tree \in [Pages -> Trees \cup {NoTree}]
      /\ out \in [Pages -> Seq(Requests)]
      /\ \A p \in Pages : out[p] = << >>
  BY <1>1 DEF Init
<1>4. TypeOK
  BY <1>1, <1>2, <1>3, BoundsAssumption
     DEF Init, TypeOK, SessionInv, Harms, Causes
<1>5. ASSUME NEW p \in Pages PROVE PageOK(out[p], tree[p])
  <2>1. tree[p] \in Trees \cup {NoTree} /\ out[p] \in Seq(Requests)
    BY <1>3
  <2>2. out[p] = << >> /\ DOMAIN << >> = {}
    BY <1>3
  <2> QED
    BY <2>1, <2>2 DEF PageOK
<1> QED
  BY <1>1, <1>2, <1>4, <1>5 DEF Init, TypeInv

\* The files, the pages and their requests have their types at all times.
LEMMA TypesAlways == Spec => [](TypeInv /\ SessionInv)
<1>1. TypeInv /\ SessionInv /\ [Next]_vars => (TypeInv /\ SessionInv)'
  BY NextKeepsTypes, NextKeepsSession DEF SessionInv
<1> QED
  BY <1>1, InitTypes, PTL DEF Spec

\* All variables have their types, whatever the trees and however many requests
\* are on their way.
THEOREM TypeCorrect == Spec => []TypeOK
<1>1. TypeInv => TypeOK
  BY DEF TypeInv
<1> QED
  BY <1>1, TypesAlways, PTL

-----------------------------------------------------------------------------
(* The posts of a page.                                                     *)

Posts(s) == {i \in DOMAIN s : s[i].kind = "tree"}

\* The posts among requests s of a page with tree t, when f is stored: each
\* supposes that the one before it is stored, the first that f is, and the page
\* supposes that the last one is.
Chain(s, t, f) ==
    /\ \A i \in Posts(s) : (\A j \in Posts(s) : i <= j) => s[i].base = f
    /\ \A i \in Posts(s) : \A k \in Posts(s) :
          i < k /\ (\A j \in Posts(s) : j <= i \/ k <= j) => s[k].base = s[i].tree
    /\ t # NoTree => /\ Posts(s) = {} => t = f
                     /\ \A i \in Posts(s) :
                           (\A j \in Posts(s) : j <= i) => t = s[i].tree

\* The page has not shown a tree yet.
Blank(s, t) == t = NoTree /\ Posts(s) = {}

\* a is s with r behind its n elements.
Longer(s, r, n, a) ==
    /\ a = Append(s, r) /\ a \in Seq(Requests)
    /\ n \in Nat /\ Len(s) = n /\ Len(a) = n + 1
    /\ DOMAIN s = 1 .. n /\ DOMAIN a = 1 .. n + 1
    /\ a[n + 1] = r /\ \A i \in 1 .. n : a[i] = s[i]
    /\ Posts(s) \subseteq 1 .. n
    /\ Posts(a) = Posts(s) \cup (IF r.kind = "tree" THEN {n + 1} ELSE {})

LEMMA AppendedPosts ==
  ASSUME NEW s \in Seq(Requests), NEW r \in Requests
  PROVE  \E n, a : Longer(s, r, n, a)
<1>1. PICK n \in Nat : Len(s) = n /\ DOMAIN s = 1 .. n
  OBVIOUS
<1>2. PICK a : a = Append(s, r)
  OBVIOUS
<1>3. /\ a \in Seq(Requests) /\ DOMAIN a = 1 .. n + 1 /\ Len(a) = n + 1
      /\ a[n + 1] = r /\ \A i \in 1 .. n : a[i] = s[i]
  BY <1>1, <1>2, AppendProperties
<1>4. 1 .. n + 1 = 1 .. n \cup {n + 1} /\ n + 1 \notin 1 .. n
  OBVIOUS
<1>5. Posts(a) = Posts(s) \cup (IF r.kind = "tree" THEN {n + 1} ELSE {})
  BY <1>1, <1>3, <1>4 DEF Posts
<1>6. Posts(s) \subseteq 1 .. n
  BY <1>1 DEF Posts
<1>7. Longer(s, r, n, a)
  BY <1>1, <1>2, <1>3, <1>5, <1>6 DEF Longer
<1> QED
  BY <1>7

\* A page posts its new tree.
LEMMA ChainPosts ==
  ASSUME NEW s \in Seq(Requests), NEW t, t # NoTree, NEW f, Chain(s, t, f),
         NEW r \in Requests, r.kind = "tree", r.base = t
  PROVE  Chain(Append(s, r), r.tree, f)
<1>0. PICK n, a : Longer(s, r, n, a)
  BY AppendedPosts
<1>1. a = Append(s, r) /\ a[n + 1] = r /\ n \in Nat
  BY <1>0 DEF Longer
<1>2. PICK P : P = Posts(s)
  OBVIOUS
<1>3. /\ n \in Nat /\ P \subseteq 1 .. n /\ Posts(a) = P \cup {n + 1}
      /\ \A i \in P : a[i] = s[i] /\ i < n + 1 /\ i \in Nat
      /\ \A i \in Posts(a) : i \in P \/ i = n + 1
  <2>1. P \subseteq 1 .. n /\ Posts(a) = P \cup {n + 1} /\ n \in Nat
    BY <1>0, <1>2 DEF Longer
  <2>2. \A i \in 1 .. n : a[i] = s[i]
    BY <1>0 DEF Longer
  <2> QED
    BY <2>1, <2>2
<1>4. ASSUME NEW i \in Posts(a), \A j \in Posts(a) : i <= j
      PROVE  a[i].base = f
  <2>1. CASE i \in P
    BY <1>2, <1>3, <1>4, <2>1 DEF Chain
  <2>2. CASE i = n + 1
    <3>1. P = {}
      BY <1>3, <1>4, <2>2
    <3> QED
      BY <1>1, <1>2, <2>2, <3>1 DEF Chain
  <2> QED
    BY <1>3, <2>1, <2>2
<1>5. ASSUME NEW i \in Posts(a), NEW k \in Posts(a), i < k,
             \A j \in Posts(a) : j <= i \/ k <= j
      PROVE  a[k].base = a[i].tree
  <2>1. i \in P
    <3>1. k < n + 1 \/ k = n + 1
      BY <1>3
    <3>2. ASSUME i = n + 1 PROVE FALSE
      <4>1. n + 1 < k /\ n \in Nat
        BY <1>3, <1>5, <3>2
      <4>2. k \in Nat
        <5>1. k \in P => k \in Nat
          BY <1>3
        <5> QED
          BY <3>1, <5>1, <1>3, <4>1
      <4> QED
        BY <3>1, <4>1, <4>2
    <3> QED
      BY <1>3, <3>2
  <2>2. CASE k \in P
    BY <1>2, <1>3, <1>5, <2>1, <2>2 DEF Chain
  <2>3. CASE k = n + 1
    <3>1. \A j \in P : j <= i
      BY <1>3, <1>5, <2>1, <2>3
    <3> QED
      BY <1>1, <1>2, <1>3, <2>1, <2>3, <3>1 DEF Chain
  <2> QED
    BY <1>3, <2>2, <2>3
<1>6. ASSUME NEW i \in Posts(a), \A j \in Posts(a) : j <= i
      PROVE  r.tree = a[i].tree
  <2>1. i = n + 1
    <3>1. n + 1 \in Posts(a)
      BY <1>3
    <3>2. n + 1 <= i
      BY <1>6, <3>1
    <3>3. ASSUME i \in P PROVE FALSE
      <4>1. i < n + 1 /\ i \in Nat /\ n \in Nat
        BY <1>3, <3>3
      <4> QED
        BY <3>2, <4>1
    <3> QED
      BY <1>3, <3>3
  <2> QED
    BY <1>1, <2>1
<1>7. Posts(a) # {}
  BY <1>3
<1>8. Chain(a, r.tree, f)
  BY <1>4, <1>5, <1>6, <1>7 DEF Chain
<1> QED
  BY <1>1, <1>8

\* A page that posts nothing else shows the stored tree and posts it.
LEMMA ChainStarts ==
  ASSUME NEW s \in Seq(Requests), Posts(s) = {}, NEW f, f # NoTree,
         NEW r \in Requests, r.kind = "tree", r.base = f, r.tree = f
  PROVE  Chain(Append(s, r), f, f)
<1>1. Chain(s, f, f)
  BY DEF Chain
<1> QED
  BY <1>1, ChainPosts

\* A page sends something else.
LEMMA ChainSends ==
  ASSUME NEW s \in Seq(Requests), NEW t, NEW f, NEW r \in Requests, r.kind # "tree"
  PROVE  /\ Chain(s, t, f) => Chain(Append(s, r), t, f)
         /\ Blank(s, t) => Blank(Append(s, r), t)
<1>1. PICK n, a : Longer(s, r, n, a)
  BY AppendedPosts
<1>2. a = Append(s, r) /\ Posts(a) = Posts(s) /\ \A i \in Posts(s) : a[i] = s[i]
  BY <1>1 DEF Longer
<1>3. ASSUME Chain(s, t, f) PROVE Chain(a, t, f)
  <2>1. PICK P : P = Posts(s)
    OBVIOUS
  <2>2. ASSUME NEW i \in P, \A j \in P : i <= j PROVE a[i].base = f
    BY <1>2, <1>3, <2>1, <2>2 DEF Chain
  <2>3. ASSUME NEW i \in P, NEW k \in P, i < k, \A j \in P : j <= i \/ k <= j
        PROVE  a[k].base = a[i].tree
    BY <1>2, <1>3, <2>1, <2>3 DEF Chain
  <2>4. t # NoTree => /\ P = {} => t = f
                      /\ \A i \in P : (\A j \in P : j <= i) => t = a[i].tree
    BY <1>2, <1>3, <2>1 DEF Chain
  <2>5. Posts(a) = P
    BY <1>2, <2>1
  <2> QED
    BY <2>2, <2>3, <2>4, <2>5 DEF Chain
<1> QED
  BY <1>2, <1>3 DEF Blank

\* Requests that are not posts go.
LEMMA ChainDrops ==
  ASSUME NEW s \in Seq(Requests), NEW t, NEW f, NEW places,
         Posts(s) \subseteq places, NEW u \in Seq(Requests),
         NEW h, Embeds(s, places, u, Len(s), h)
  PROVE  /\ Chain(s, t, f) => Chain(u, t, f) /\ Chain(u, NoTree, f)
         /\ Blank(s, t) => Blank(u, t)
<1>1. PICK n \in Nat : Len(s) = n /\ DOMAIN s = 1 .. n
  OBVIOUS
<1>2. PICK m \in Nat : Len(u) = m /\ DOMAIN u = 1 .. m
  OBVIOUS
<1>3. PICK P : P = Posts(s)
  OBVIOUS
<1>4. PICK Q : Q = Posts(u)
  OBVIOUS
<1>5. /\ P \subseteq 1 .. n /\ Q \subseteq 1 .. m
      /\ \A i \in 1 .. n : i \in P <=> s[i].kind = "tree"
      /\ \A i \in 1 .. m : i \in Q <=> u[i].kind = "tree"
  BY <1>1, <1>2, <1>3, <1>4 DEF Posts
<1>6. /\ \A i \in 1 .. m : h[i] \in 1 .. n /\ u[i] = s[h[i]]
      /\ \A i \in 1 .. m : \A j \in 1 .. m : i < j => h[i] < h[j]
      /\ \A k \in P : \E i \in 1 .. m : h[i] = k
  BY <1>1, <1>2, <1>3, <1>5 DEF Embeds
<1>7. /\ \A i \in Q : h[i] \in P /\ u[i] = s[h[i]]
      /\ \A k \in P : \E i \in Q : h[i] = k
  <2>1. ASSUME NEW i \in Q PROVE h[i] \in P /\ u[i] = s[h[i]]
    <3>1. i \in 1 .. m /\ h[i] \in 1 .. n /\ u[i] = s[h[i]] /\ u[i].kind = "tree"
      BY <1>5, <1>6
    <3> QED
      BY <1>5, <3>1
  <2>2. ASSUME NEW k \in P PROVE \E i \in Q : h[i] = k
    <3>1. PICK i \in 1 .. m : h[i] = k
      BY <1>6
    <3>2. u[i] = s[k] /\ s[k].kind = "tree"
      BY <1>5, <1>6, <3>1
    <3> QED
      BY <1>5, <3>1, <3>2
  <2> QED
    BY <2>1, <2>2
<1>8. \A i \in Q : \A j \in Q : (h[i] <= h[j] <=> i <= j)
  <2> SUFFICES ASSUME NEW i \in Q, NEW j \in Q PROVE h[i] <= h[j] <=> i <= j
    OBVIOUS
  <2>1. i \in 1 .. m /\ j \in 1 .. m /\ h[i] \in 1 .. n /\ h[j] \in 1 .. n
    BY <1>5, <1>6
  <2>2. (i < j => h[i] < h[j]) /\ (j < i => h[j] < h[i])
    BY <1>6, <2>1
  <2> QED
    BY <2>1, <2>2
<1>9. \A i \in Q : \A j \in Q : (h[i] < h[j] <=> i < j)
  <2> SUFFICES ASSUME NEW i \in Q, NEW j \in Q PROVE h[i] < h[j] <=> i < j
    OBVIOUS
  <2>1. i \in 1 .. m /\ j \in 1 .. m /\ h[i] \in 1 .. n /\ h[j] \in 1 .. n
    BY <1>5, <1>6
  <2>2. h[j] <= h[i] <=> j <= i
    BY <1>8
  <2> QED
    BY <2>1, <2>2
<1>10. ASSUME Chain(s, t, f) PROVE Chain(u, t, f)
  <2>1. ASSUME NEW i \in Q, \A j \in Q : i <= j
        PROVE  u[i].base = f
    <3>1. \A j \in P : h[i] <= j
      BY <1>7, <1>8, <2>1
    <3> QED
      BY <1>3, <1>7, <1>10, <3>1 DEF Chain
  <2>2. ASSUME NEW i \in Q, NEW k \in Q, i < k, \A j \in Q : j <= i \/ k <= j
        PROVE  u[k].base = u[i].tree
    <3>1. h[i] < h[k] /\ \A j \in P : j <= h[i] \/ h[k] <= j
      BY <1>7, <1>8, <1>9, <2>2
    <3> QED
      BY <1>3, <1>7, <1>10, <3>1 DEF Chain
  <2>3. ASSUME t # NoTree, Q = {} PROVE t = f
    BY <1>3, <1>7, <1>10, <2>3 DEF Chain
  <2>4. ASSUME t # NoTree, NEW i \in Q, \A j \in Q : j <= i
        PROVE  t = u[i].tree
    <3>1. \A j \in P : j <= h[i]
      BY <1>7, <1>8, <2>4
    <3> QED
      BY <1>3, <1>7, <1>10, <2>4, <3>1 DEF Chain
  <2> QED
    BY <1>4, <2>1, <2>2, <2>3, <2>4 DEF Chain
<1>11. Chain(u, t, f) => Chain(u, NoTree, f)
  BY DEF Chain
<1>12. Blank(s, t) => Blank(u, t)
  BY <1>3, <1>4, <1>7 DEF Blank
<1> QED
  BY <1>10, <1>11, <1>12

\* The first post is stored.
LEMMA ChainStored ==
  ASSUME NEW s \in Seq(Requests), NEW t, NEW f, Chain(s, t, f),
         NEW i \in Posts(s), \A j \in 1 .. i - 1 : s[j].kind # "tree"
  PROVE  s[i].base = f /\ Chain(RemoveAt(s, i), t, s[i].tree)
<1>1. PICK n \in Nat : Len(s) = n /\ DOMAIN s = 1 .. n
  OBVIOUS
<1>2. i \in 1 .. n
  BY <1>1 DEF Posts
<1>3. PICK u : u = RemoveAt(s, i)
  OBVIOUS
<1>4. u \in Seq(Requests) /\ DOMAIN u = 1 .. n - 1
      /\ \A j \in 1 .. n - 1 : u[j] = IF j < i THEN s[j] ELSE s[j + 1]
  BY <1>1, <1>2, <1>3, RemoveAtElement
<1>5. PICK P : P = Posts(s)
  OBVIOUS
<1>6. PICK Q : Q = Posts(u)
  OBVIOUS
<1>7. /\ P \subseteq i .. n /\ i \in P
      /\ \A j \in P : s[j].kind = "tree"
      /\ \A j \in 1 .. n : s[j].kind = "tree" => j \in P
  BY <1>1, <1>2, <1>5 DEF Posts
<1>8. /\ Q \subseteq 1 .. n - 1
      /\ \A j \in 1 .. n - 1 : j \in Q <=> u[j].kind = "tree"
  BY <1>4, <1>6 DEF Posts
<1>9. ASSUME NEW j \in Q PROVE j \in i .. n - 1 /\ j + 1 \in P /\ u[j] = s[j + 1]
  <2>1. ~ (j < i)
    BY <1>2, <1>4, <1>7, <1>8
  <2> QED
    BY <1>2, <1>4, <1>7, <1>8, <2>1
<1>10. ASSUME NEW k \in P, k # i PROVE k - 1 \in Q
  <2>1. k - 1 \in 1 .. n - 1 /\ ~ (k - 1 < i) /\ (k - 1) + 1 = k
    BY <1>2, <1>7, <1>10
  <2> QED
    BY <1>4, <1>7, <1>8, <2>1
<1>11. \A j \in P : i <= j /\ j \in Nat
  BY <1>2, <1>7
<1>12. s[i].base = f
  BY <1>5, <1>7, <1>11 DEF Chain
<1>13. \A j \in P : j = i \/ \E k \in Q : j = k + 1
  BY <1>10, <1>11
<1>14. ASSUME NEW j \in Q, \A k \in Q : j <= k
       PROVE  u[j].base = s[i].tree
  <2>1. i < j + 1 /\ \A k \in P : k <= i \/ j + 1 <= k
    BY <1>2, <1>8, <1>9, <1>11, <1>13, <1>14
  <2>2. j + 1 \in P /\ u[j] = s[j + 1]
    BY <1>9
  <2> QED
    BY <1>5, <1>7, <2>1, <2>2 DEF Chain
<1>15. ASSUME NEW j \in Q, NEW k \in Q, j < k, \A l \in Q : l <= j \/ k <= l
       PROVE  u[k].base = u[j].tree
  <2>1. j + 1 < k + 1 /\ \A l \in P : l <= j + 1 \/ k + 1 <= l
    <3>1. ASSUME NEW l \in P PROVE l <= j + 1 \/ k + 1 <= l
      <4>1. CASE l = i
        BY <1>2, <1>9, <4>1
      <4>2. ASSUME NEW m \in Q, l = m + 1 PROVE l <= j + 1 \/ k + 1 <= l
        BY <1>8, <1>15, <4>2
      <4> QED
        BY <1>13, <4>1, <4>2
    <3> QED
      BY <1>8, <1>15, <3>1
  <2> QED
    BY <1>5, <1>9, <2>1 DEF Chain
<1>16. ASSUME t # NoTree, Q = {} PROVE t = s[i].tree
  <2>1. \A j \in P : j <= i
    BY <1>2, <1>13, <1>16
  <2> QED
    BY <1>5, <1>7, <1>16, <2>1 DEF Chain
<1>17. ASSUME t # NoTree, NEW j \in Q, \A k \in Q : k <= j
       PROVE  t = u[j].tree
  <2>1. \A k \in P : k <= j + 1
    <3>1. ASSUME NEW k \in P PROVE k <= j + 1
      <4>1. CASE k = i
        BY <1>2, <1>9, <4>1
      <4>2. ASSUME NEW m \in Q, k = m + 1 PROVE k <= j + 1
        BY <1>8, <1>17, <4>2
      <4> QED
        BY <1>13, <4>1, <4>2
    <3> QED
      BY <3>1
  <2> QED
    BY <1>5, <1>9, <1>17, <2>1 DEF Chain
<1>18. Chain(u, t, s[i].tree)
  BY <1>6, <1>14, <1>15, <1>16, <1>17 DEF Chain
<1> QED
  BY <1>3, <1>12, <1>18

-----------------------------------------------------------------------------
(* What the steps do to the page they are about.                            *)

PageStep(p, s, t) ==
    /\ out' = [out EXCEPT ![p] = s]
    /\ tree' = [tree EXCEPT ![p] = t]

\* Nothing observed is forgotten.
LEMMA StepsRemember ==
  ASSUME [Next]_vars, TypeInv
  PROVE  seen \subseteq seen' /\ harm \subseteq harm' /\ causes \subseteq causes'
<1>1. CASE UNCHANGED driveVars
  BY <1>1 DEF driveVars
<1>2. ASSUME NEW p \in Pages, NEW i \in DOMAIN out[p], Serve(p, i)
      PROVE  seen \subseteq seen' /\ harm \subseteq harm' /\ causes \subseteq causes'
  <2>1. causes \subseteq causes'
    BY <1>2 DEF Serve, Refuse, List, ChangeFiles, UploadFile, DeleteFile, Arrives
  <2>2. CASE Refuse(p, i)
    BY <2>1, <2>2 DEF Refuse
  <2>3. CASE List(p, i)
    BY <2>1, <2>3 DEF List, Show
  <2>4. CASE ChangeFiles(p, i)
    BY <2>1, <2>4 DEF ChangeFiles
  <2>5. CASE UploadFile(p, i)
    BY <2>1, <2>5 DEF UploadFile
  <2>6. CASE DeleteFile(p, i)
    BY <2>1, <2>6 DEF DeleteFile
  <2> QED
    BY <1>2, <2>2, <2>3, <2>4, <2>5, <2>6 DEF Serve
<1>3. ASSUME NEW p \in Pages, Load(p) \/ SessionStep(p)
      PROVE  seen \subseteq seen' /\ harm \subseteq harm' /\ causes \subseteq causes'
  BY <1>3 DEF Load, SessionStep
<1>4. ASSUME NEW p \in Pages, NEW at, NEW name, Upload(p, name, at)
      PROVE  seen \subseteq seen' /\ harm \subseteq harm' /\ causes \subseteq causes'
  BY <1>4 DEF Upload
<1>5. ASSUME NEW p \in Pages, NEW at, CreateDirectory(p, at)
      PROVE  seen \subseteq seen' /\ harm \subseteq harm' /\ causes \subseteq causes'
  BY <1>5 DEF CreateDirectory
<1>6. ASSUME NEW p \in Pages, NEW i, Delete(p, i)
      PROVE  seen \subseteq seen' /\ harm \subseteq harm' /\ causes \subseteq causes'
  BY <1>6 DEF Delete
<1>7. ASSUME NEW p \in Pages, NEW i, NEW new, Relocate(p, i, new)
      PROVE  seen \subseteq seen' /\ harm \subseteq harm' /\ causes \subseteq causes'
  BY <1>7 DEF Relocate
<1> QED
  BY <1>1, <1>2, <1>3, <1>4, <1>5, <1>6, <1>7, StepCases

\* The post of a page for tree t that supposes base to be stored.
IsPost(r, p, t, base) ==
    /\ r = [kind |-> "tree", cookie |-> jar[p], tree |-> t, base |-> base]
    /\ r \in Requests /\ r.kind = "tree" /\ r.cookie = jar[p]
    /\ r.tree = t /\ r.base = base

LEMMA PostExists ==
  ASSUME TypeInv, NEW p \in Pages, NEW t \in Trees, NEW base \in Trees
  PROVE  \E r : IsPost(r, p, t, base)
<1>1. PICK r : r = [kind |-> "tree", cookie |-> jar[p], tree |-> t, base |-> base]
  OBVIOUS
<1>2. IsPost(r, p, t, base)
  BY <1>1, PageTypes DEF Requests, IsPost
<1> QED
  BY <1>2

\* Load: of the requests only those that last stay.
LoadStep(p, u, r) ==
    /\ PageStep(p, Append(u, r), NoTree)
    /\ r \in Requests /\ r.kind = "list" /\ r.cookie = jar[p]
    /\ u \in Seq(Requests)
    /\ \E h : Embeds(out[p], {i \in DOMAIN out[p] :
                                 out[p][i].kind \in {"tree", "delete"}},
                     u, Len(out[p]), h)

LEMMA LoadSteps ==
  ASSUME TypeInv, NEW p \in Pages, Load(p)
  PROVE  \E u, r : LoadStep(p, u, r)
<1>1. PICK r : r = [kind |-> "list", cookie |-> jar[p]]
  OBVIOUS
<1>2. r \in Requests /\ r.kind = "list" /\ r.cookie = jar[p]
  BY <1>1, PageTypes DEF Requests
<1>3. PICK places : places = {i \in DOMAIN out[p] :
                                 out[p][i].kind \in {"tree", "delete"}}
  OBVIOUS
<1>4. PICK u : u = Lasting(out[p])
  OBVIOUS
<1>5. Picked(Requests, out[p], places, u, Len(out[p]))
  BY <1>3, <1>4, AtPicks, PageTypes DEF Lasting
<1>6. PageStep(p, Append(u, r), NoTree)
  BY <1>1, <1>4 DEF Load, PageStep
<1>7. LoadStep(p, u, r)
  BY <1>2, <1>3, <1>5, <1>6 DEF LoadStep, Picked
<1> QED
  BY <1>7

\* Upload: one request more.
UploadStep(p, r) ==
    /\ PageStep(p, Append(out[p], r), tree[p])
    /\ r \in Requests /\ r.kind = "upload" /\ r.cookie = jar[p]
    /\ r.entry.id = next /\ r.entry.dir = FALSE

LEMMA UploadSteps ==
  ASSUME TypeInv, NEW p \in Pages, NEW name \in Names,
         NEW at \in DirsOf(tree[p]), Upload(p, name, at)
  PROVE  \E r : UploadStep(p, r)
<1>1. PICK r : r = [kind |-> "upload", cookie |-> jar[p],
                    entry |-> [id |-> next, dir |-> FALSE, name |-> name, at |-> at]]
  OBVIOUS
<1>2. at \in Nat
  BY PageTypes, TreeIds DEF Upload
<1>3. r \in Requests
  BY <1>1, <1>2, PageTypes DEF Requests, Entries, Root
<1>4. PageStep(p, Append(out[p], r), tree[p])
  BY <1>1, PageTypes DEF Upload, PageStep
<1>5. UploadStep(p, r)
  BY <1>1, <1>3, <1>4 DEF UploadStep
<1> QED
  BY <1>5

\* A change of the tree that sends nothing but the tree.
ChangeStep(p, r, t) ==
    /\ PageStep(p, Append(out[p], r), t)
    /\ IsPost(r, p, t, tree[p])
    /\ tree[p] \in Trees /\ t \in Trees

LEMMA ChangeSteps ==
  ASSUME TypeInv, NEW p \in Pages, tree[p] # NoTree, NEW t \in Trees,
         Change(p, t, << >>)
  PROVE  \E r : ChangeStep(p, r, t)
<1>1. tree[p] \in Trees /\ known[p] = tree[p] /\ out[p] \in Seq(Requests)
  BY PageTypes
<1>2. PICK r : IsPost(r, p, t, tree[p])
  BY <1>1, PostExists
<1>3. out' = [out EXCEPT ![p] = (out[p] \o << >>) \o <<r>>]
      /\ tree' = [tree EXCEPT ![p] = t]
  BY <1>1, <1>2 DEF Change, IsPost
<1>4. (out[p] \o << >>) \o <<r>> = Append(out[p], r)
  BY <1>1, <1>2, AppendIsConcat, ConcatEmptySeq DEF IsPost
<1>5. ChangeStep(p, r, t)
  BY <1>1, <1>2, <1>3, <1>4 DEF ChangeStep, PageStep
<1> QED
  BY <1>5

\* One that first sends the deletion of a file.
DeleteStep(p, d, r, t) ==
    /\ PageStep(p, Append(Append(out[p], d), r), t)
    /\ d \in Requests /\ d.kind = "delete" /\ d.cookie = jar[p]
    /\ IsPost(r, p, t, tree[p])
    /\ tree[p] \in Trees /\ t \in Trees

LEMMA DeleteSteps ==
  ASSUME TypeInv, NEW p \in Pages, tree[p] # NoTree, NEW t \in Trees,
         NEW id \in Nat,
         Change(p, t, <<[kind |-> "delete", cookie |-> jar[p], id |-> id]>>)
  PROVE  \E d, r : DeleteStep(p, d, r, t) /\ d.id = id
<1>1. tree[p] \in Trees /\ known[p] = tree[p] /\ out[p] \in Seq(Requests)
  BY PageTypes
<1>2. PICK r : IsPost(r, p, t, tree[p])
  BY <1>1, PostExists
<1>3. PICK d : d = [kind |-> "delete", cookie |-> jar[p], id |-> id]
  OBVIOUS
<1>4. d \in Requests /\ d.kind = "delete" /\ d.cookie = jar[p] /\ d.id = id
  BY <1>3, PageTypes DEF Requests
<1>5. out' = [out EXCEPT ![p] = (out[p] \o <<d>>) \o <<r>>]
      /\ tree' = [tree EXCEPT ![p] = t]
  BY <1>1, <1>2, <1>3 DEF Change, IsPost
<1>6. PICK a : a = Append(out[p], d)
  OBVIOUS
<1>7. out[p] \o <<d>> = a /\ a \in Seq(Requests)
  BY <1>1, <1>4, <1>6, AppendIsConcat, AppendProperties
<1>8. a \o <<r>> = Append(a, r)
  BY <1>2, <1>7, AppendIsConcat DEF IsPost
<1>9. DeleteStep(p, d, r, t)
  BY <1>1, <1>2, <1>4, <1>5, <1>6, <1>7, <1>8 DEF DeleteStep, PageStep
<1> QED
  BY <1>4, <1>9

\* A request is gone.
GoneStep(p, i, u) ==
    /\ PageStep(p, u, tree[p])
    /\ u = RemoveAt(out[p], i) /\ u \in Seq(Requests)
    /\ \E h : Embeds(out[p], DOMAIN out[p] \ {i}, u, Len(out[p]), h)

LEMMA GoneSteps ==
  ASSUME TypeInv, NEW p \in Pages, NEW i \in DOMAIN out[p], Gone(p, i),
         UNCHANGED tree
  PROVE  \E u : GoneStep(p, i, u)
<1>1. PICK u : u = RemoveAt(out[p], i)
  OBVIOUS
<1>2. u \in Seq(Requests)
      /\ \E h : Embeds(out[p], DOMAIN out[p] \ {i}, u, Len(out[p]), h)
  BY <1>1, PageTypes, RemoveAtElement, RemoveAtEmbeds
<1>3. PageStep(p, u, tree[p])
  BY <1>1, PageTypes DEF Gone, PageStep
<1>4. GoneStep(p, i, u)
  BY <1>1, <1>2, <1>3 DEF GoneStep
<1> QED
  BY <1>4

\* A request is answered, and the page posts.
AnswerStep(p, i, u, r, t, base) ==
    /\ PageStep(p, Append(u, r), t)
    /\ IsPost(r, p, t, base) /\ t \in Trees /\ base \in Trees
    /\ u \in Seq(Requests)
    /\ \E h : Embeds(out[p], DOMAIN out[p] \ {i}, u, Len(out[p]), h)

LEMMA AnswerSteps ==
  ASSUME TypeInv, NEW p \in Pages, NEW i \in DOMAIN out[p],
         NEW t \in Trees, NEW base \in Trees,
         tree' = [tree EXCEPT ![p] = t],
         out' = [out EXCEPT ![p] = Append(RemoveAt(out[p], i),
                    [kind |-> "tree", cookie |-> jar[p], tree |-> t,
                     base |-> base])]
  PROVE  \E u, r : AnswerStep(p, i, u, r, t, base)
<1>1. PICK u : u = RemoveAt(out[p], i)
  OBVIOUS
<1>2. u \in Seq(Requests)
      /\ \E h : Embeds(out[p], DOMAIN out[p] \ {i}, u, Len(out[p]), h)
  BY <1>1, PageTypes, RemoveAtElement, RemoveAtEmbeds
<1>3. PICK r : IsPost(r, p, t, base)
  BY PostExists
<1>4. PageStep(p, Append(u, r), t)
  BY <1>1, <1>3 DEF PageStep, IsPost
<1>5. AnswerStep(p, i, u, r, t, base)
  BY <1>2, <1>3, <1>4 DEF AnswerStep
<1> QED
  BY <1>5

-----------------------------------------------------------------------------
(* Why changes are refused.                                                 *)

Plain(s) == \A i \in DOMAIN s : s[i].cookie = 0

\* Until the first login or logout there is one cookie, and no change is refused.
SessionCause ==
    /\ "session" \notin causes =>
          cookie = 0 /\ \A p \in Pages : jar[p] = 0 /\ Plain(out[p])
    /\ "refused" \in harm => "session" \in causes

LEMMA PlainDrops ==
  ASSUME NEW s, Plain(s), NEW places, NEW u, NEW n, NEW h,
         Embeds(s, places, u, n, h), DOMAIN s = 1 .. n
  PROVE  Plain(u)
<1> SUFFICES ASSUME NEW i \in DOMAIN u PROVE u[i].cookie = 0
  BY DEF Plain
<1>1. h[i] \in DOMAIN s /\ u[i] = s[h[i]]
  BY DEF Embeds
<1> QED
  BY <1>1 DEF Plain

LEMMA PlainSends ==
  ASSUME NEW s \in Seq(Requests), Plain(s), NEW r \in Requests, r.cookie = 0
  PROVE  Plain(Append(s, r))
<1>1. PICK n, a : Longer(s, r, n, a)
  BY AppendedPosts
<1>2. \A i \in DOMAIN a : i = n + 1 \/ i \in DOMAIN s
  BY <1>1 DEF Longer
<1>3. a[n + 1] = r /\ a = Append(s, r) /\ \A i \in DOMAIN s : a[i] = s[i]
  BY <1>1 DEF Longer
<1>4. Plain(a)
  BY <1>2, <1>3 DEF Plain
<1> QED
  BY <1>3, <1>4

\* A step of a page that is not part of a login or a logout.
LEMMA PageStepKeepsCause ==
  ASSUME TypeInv, SessionCause, NEW p \in Pages, NEW s, NEW t, PageStep(p, s, t),
         Plain(out[p]) /\ jar[p] = 0 => Plain(s),
         UNCHANGED <<cookie, jar>>, causes \subseteq causes',
         "refused" \in harm' => "refused" \in harm \/ "session" \in causes
  PROVE  SessionCause'
<1>1. out \in [Pages -> Seq(Requests)]
  BY DEF TypeInv, TypeOK
<1>2. ASSUME "session" \notin causes'
      PROVE  cookie' = 0 /\ \A q \in Pages : jar'[q] = 0 /\ Plain(out'[q])
  <2>1. "session" \notin causes
    BY <1>2
  <2>2. cookie = 0 /\ \A q \in Pages : jar[q] = 0 /\ Plain(out[q])
    BY <2>1 DEF SessionCause
  <2>3. Plain(s)
    BY <2>2
  <2>4. \A q \in Pages : out'[q] = IF q = p THEN s ELSE out[q]
    BY <1>1 DEF PageStep
  <2> QED
    BY <2>2, <2>3, <2>4
<1>3. "refused" \in harm' => "session" \in causes'
  BY DEF SessionCause
<1> QED
  BY <1>2, <1>3 DEF SessionCause

\* The cookie of a request is good as long as nobody has logged in or out.
LEMMA PlainIsAuthorised ==
  ASSUME SessionCause, NEW p \in Pages, NEW i \in DOMAIN out[p],
         ~ Authorised(out[p][i].cookie)
  PROVE  "session" \in causes
  BY NoCookieAssumption DEF SessionCause, Plain, Authorised

\* The steps that send requests.
LEMMA SendingKeepsCause ==
  ASSUME TypeInv, SessionCause, NEW p \in Pages,
         \/ \E u, r : LoadStep(p, u, r)
         \/ \E r : UploadStep(p, r)
         \/ \E r, t : ChangeStep(p, r, t)
         \/ \E d, r, t : DeleteStep(p, d, r, t),
         UNCHANGED <<cookie, jar>>, causes \subseteq causes',
         "refused" \in harm' => "refused" \in harm
  PROVE  SessionCause'
<1>1. out[p] \in Seq(Requests) /\ DOMAIN out[p] = 1 .. Len(out[p])
  BY PageTypes
<1>2. ASSUME NEW u, NEW r, LoadStep(p, u, r) PROVE SessionCause'
  <2>1. Plain(out[p]) => Plain(u)
    BY <1>1, <1>2, PlainDrops DEF LoadStep
  <2>2. Plain(out[p]) /\ jar[p] = 0 => Plain(Append(u, r))
    BY <1>2, <2>1, PlainSends DEF LoadStep
  <2> QED
    BY <1>2, <2>2, PageStepKeepsCause DEF LoadStep
<1>3. ASSUME NEW r, UploadStep(p, r) PROVE SessionCause'
  BY <1>1, <1>3, PlainSends, PageStepKeepsCause DEF UploadStep
<1>4. ASSUME NEW r, NEW t, ChangeStep(p, r, t) PROVE SessionCause'
  BY <1>1, <1>4, PlainSends, PageStepKeepsCause DEF ChangeStep, IsPost
<1>5. ASSUME NEW d, NEW r, NEW t, DeleteStep(p, d, r, t) PROVE SessionCause'
  <2>1. PICK a : a = Append(out[p], d)
    OBVIOUS
  <2>2. a \in Seq(Requests)
    BY <1>1, <1>5, <2>1, AppendProperties DEF DeleteStep
  <2>3. Plain(out[p]) /\ jar[p] = 0 => Plain(a)
    BY <1>1, <1>5, <2>1, PlainSends DEF DeleteStep
  <2>4. Plain(out[p]) /\ jar[p] = 0 => Plain(Append(a, r))
    BY <1>5, <2>2, <2>3, PlainSends DEF DeleteStep, IsPost
  <2> QED
    BY <1>5, <2>1, <2>4, PageStepKeepsCause DEF DeleteStep
<1> QED
  BY <1>2, <1>3, <1>4, <1>5

\* The steps that answer them.
LEMMA AnsweringKeepsCause ==
  ASSUME TypeInv, SessionCause, NEW p \in Pages, NEW i \in DOMAIN out[p],
         \/ \E u : GoneStep(p, i, u)
         \/ \E u, r, t, base : AnswerStep(p, i, u, r, t, base),
         UNCHANGED <<cookie, jar>>, causes \subseteq causes',
         "refused" \in harm' => \/ "refused" \in harm
                                \/ ~ Authorised(out[p][i].cookie)
  PROVE  SessionCause'
<1>1. out[p] \in Seq(Requests) /\ DOMAIN out[p] = 1 .. Len(out[p])
  BY PageTypes
<1>2. "refused" \in harm' => "refused" \in harm \/ "session" \in causes
  BY PlainIsAuthorised
<1>3. ASSUME NEW u, GoneStep(p, i, u) PROVE SessionCause'
  <2>1. Plain(out[p]) => Plain(u)
    BY <1>1, <1>3, PlainDrops DEF GoneStep
  <2> QED
    BY <1>2, <1>3, <2>1, PageStepKeepsCause DEF GoneStep
<1>4. ASSUME NEW u, NEW r, NEW t, NEW base, AnswerStep(p, i, u, r, t, base)
      PROVE  SessionCause'
  <2>1. Plain(out[p]) => Plain(u)
    BY <1>1, <1>4, PlainDrops DEF AnswerStep
  <2>2. Plain(out[p]) /\ jar[p] = 0 => Plain(Append(u, r))
    BY <1>4, <2>1, PlainSends DEF AnswerStep, IsPost
  <2> QED
    BY <1>2, <1>4, <2>2, PageStepKeepsCause DEF AnswerStep
<1> QED
  BY <1>3, <1>4

-----------------------------------------------------------------------------
(* The steps once more, by what they do to requests and trees.              *)

\* The trees that changes make.
LEMMA UserSteps ==
  ASSUME TypeInv, NEW p \in Pages, tree[p] # NoTree
  PROVE  /\ \A at \in DirsOf(tree[p]) : CreateDirectory(p, at) =>
               \E r, e : /\ ChangeStep(p, r, AddEntry(tree[p], e))
                         /\ e \in Entries /\ e.id = next /\ e.dir
         /\ \A i \in DOMAIN tree[p] : Delete(p, i) =>
               LET e == tree[p][i]
                   t == RemoveEntry(tree[p], e.at, e.name)
               IN  IF e.dir THEN \E r : ChangeStep(p, r, t)
                   ELSE \E d, r : DeleteStep(p, d, r, t) /\ d.id = e.id
         /\ \A i \in DOMAIN tree[p], new \in Entries : Relocate(p, i, new) =>
               \E r : ChangeStep(p, r, Replace(tree[p], tree[p][i], new))
<1>1. tree[p] \in Trees /\ next \in Nat \ {0}
  BY PageTypes
<1>2. ASSUME NEW at \in DirsOf(tree[p]), CreateDirectory(p, at)
      PROVE  \E r, e : /\ ChangeStep(p, r, AddEntry(tree[p], e))
                       /\ e \in Entries /\ e.id = next /\ e.dir
  <2>1. PICK e : e = [id |-> next, dir |-> TRUE, name |-> next, at |-> at]
    OBVIOUS
  <2>2. at \in Nat
    BY <1>1, TreeIds
  <2>3. e \in Entries /\ e.id = next /\ e.dir
    BY <1>1, <2>1, <2>2 DEF Entries, Root
  <2>4. Change(p, AddEntry(tree[p], e), << >>)
    BY <1>2, <2>1 DEF CreateDirectory
  <2>5. AddEntry(tree[p], e) \in Trees
    BY <1>1, <2>3, TreesStayTrees
  <2> QED
    BY <2>3, <2>4, <2>5, ChangeSteps
<1>3. ASSUME NEW i \in DOMAIN tree[p], Delete(p, i),
             NEW e, e = tree[p][i], NEW t, t = RemoveEntry(tree[p], e.at, e.name)
      PROVE  IF e.dir THEN \E r : ChangeStep(p, r, t)
             ELSE \E d, r : DeleteStep(p, d, r, t) /\ d.id = e.id
  <2>1. t \in Trees /\ e.id \in Nat
    BY <1>1, <1>3, TreesStayTrees, TreeIds
  <2>2. Change(p, t, IF e.dir THEN << >>
                     ELSE <<[kind |-> "delete", cookie |-> jar[p], id |-> e.id]>>)
    BY <1>3 DEF Delete
  <2>3. CASE e.dir
    BY <2>1, <2>2, <2>3, ChangeSteps
  <2>4. CASE ~ e.dir
    BY <2>1, <2>2, <2>4, DeleteSteps
  <2> QED
    BY <2>3, <2>4
<1>4. ASSUME NEW i \in DOMAIN tree[p], NEW new \in Entries, Relocate(p, i, new)
      PROVE  \E r : ChangeStep(p, r, Replace(tree[p], tree[p][i], new))
  <2>1. PICK t : t = Replace(tree[p], tree[p][i], new)
    OBVIOUS
  <2>2. t \in Trees
    BY <1>1, <2>1, ReplaceMakesTree
  <2>3. Change(p, t, << >>)
    BY <1>4, <2>1 DEF Relocate
  <2> QED
    BY <2>1, <2>2, <2>3, ChangeSteps
<1> QED
  BY <1>2, <1>3, <1>4

\* The answer to a request for the list.
ListStep(p, i, u, r, t) ==
    /\ AnswerStep(p, i, u, r, t, t)
    /\ seen' = seen \cup {p} /\ UNCHANGED <<files, cells, kept, next>>
    /\ \/ t = Shown /\ harm' = harm
       \/ harm' = harm \cup {"lost"}

LEMMA ListSteps ==
  ASSUME TypeInv, NEW p \in Pages, NEW i \in DOMAIN out[p], List(p, i)
  PROVE  \E u, r, t : ListStep(p, i, u, r, t)
<1>1. PICK t : /\ t \in Trees /\ Show(p, i, t)
               /\ \/ t = Shown /\ harm' = harm
                  \/ harm' = harm \cup {"lost"}
  <2>1. Shown \in Trees /\ << >> \in Trees
    BY PageTypes DEF Shown, Trees
  <2> QED
    BY <2>1 DEF List
<1>2. /\ tree' = [tree EXCEPT ![p] = t]
      /\ out' = [out EXCEPT ![p] = Append(RemoveAt(out[p], i),
                    [kind |-> "tree", cookie |-> jar[p], tree |-> t,
                     base |-> t])]
  BY <1>1 DEF Show
<1>3. PICK u, r : AnswerStep(p, i, u, r, t, t)
  BY <1>1, <1>2, AnswerSteps
<1>4. ListStep(p, i, u, r, t)
  BY <1>1, <1>3 DEF ListStep, List, Show, Arrives
<1> QED
  BY <1>4

\* The answer to an upload.
LEMMA UploadFileSteps ==
  ASSUME TypeInv, NEW p \in Pages, NEW i \in DOMAIN out[p], UploadFile(p, i)
  PROVE  /\ tree[p] \in Trees /\ tree[p] # NoTree
         /\ out[p][i].entry \in Entries
         /\ \E u, r : AnswerStep(p, i, u, r, AddEntry(tree[p], out[p][i].entry),
                                 tree[p])
<1>1. Arrives(p, i, "upload")
  BY DEF UploadFile
<1>2. out[p][i].entry \in Entries
  BY <1>1, ArrivesKeepsTypes, RequestFields
<1>3. tree[p] \in Trees /\ tree[p] # NoTree /\ known[p] = tree[p]
  BY <1>1, PageTypes DEF PageOK, Arrives
<1>4. PICK t : t = AddEntry(tree[p], out[p][i].entry)
  OBVIOUS
<1>5. t \in Trees
  BY <1>2, <1>3, <1>4, TreesStayTrees
<1>6. /\ tree' = [tree EXCEPT ![p] = t]
      /\ out' = [out EXCEPT ![p] = Append(RemoveAt(out[p], i),
                    [kind |-> "tree", cookie |-> jar[p], tree |-> t,
                     base |-> tree[p]])]
  BY <1>3, <1>4 DEF UploadFile
<1> QED
  BY <1>2, <1>3, <1>4, <1>5, <1>6, AnswerSteps

LEMMA NextKeepsCause ==
  ASSUME TypeInv, SessionCause, [Next]_vars
  PROVE  SessionCause'
<1>0. causes \subseteq causes'
  BY StepsRemember
<1>1. CASE UNCHANGED driveVars /\ UNCHANGED <<cookie, jar>>
  BY <1>1 DEF driveVars, SessionCause
<1>2. ASSUME NEW p \in Pages, SessionStep(p) PROVE SessionCause'
  BY <1>2 DEF SessionStep, SessionCause
<1>3. ASSUME NEW p \in Pages, NEW i \in DOMAIN out[p], Serve(p, i)
      PROVE  SessionCause'
  <2>1. UNCHANGED <<cookie, jar>>
    BY <1>3 DEF Serve, Refuse, List, ChangeFiles, UploadFile, DeleteFile, Arrives,
                sessionVars
  <2>2. CASE Refuse(p, i)
    <3>1. PICK u : GoneStep(p, i, u)
      BY <2>2, GoneSteps DEF Refuse
    <3>2. "refused" \in harm' => "refused" \in harm \/ ~ Authorised(out[p][i].cookie)
      BY <2>2 DEF Refuse
    <3> QED
      BY <1>0, <2>1, <3>1, <3>2, AnsweringKeepsCause
  <2>3. CASE List(p, i)
    <3>1. PICK u, r, t : ListStep(p, i, u, r, t)
      BY <2>3, ListSteps
    <3>2. "refused" \in harm' => "refused" \in harm
      BY <3>1 DEF ListStep
    <3> QED
      BY <1>0, <2>1, <3>1, <3>2, AnsweringKeepsCause DEF ListStep
  <2>4. CASE ChangeFiles(p, i)
    <3>1. PICK u : GoneStep(p, i, u)
      BY <2>4, GoneSteps DEF ChangeFiles
    <3>2. "refused" \in harm' => "refused" \in harm
      BY <2>4 DEF ChangeFiles
    <3> QED
      BY <1>0, <2>1, <3>1, <3>2, AnsweringKeepsCause
  <2>5. CASE UploadFile(p, i)
    <3>1. \E u, r, t, base : AnswerStep(p, i, u, r, t, base)
      BY <2>5, UploadFileSteps
    <3>2. "refused" \in harm' => "refused" \in harm \/ ~ Authorised(out[p][i].cookie)
      BY <2>5 DEF UploadFile
    <3> QED
      BY <1>0, <2>1, <3>1, <3>2, AnsweringKeepsCause
  <2>6. CASE DeleteFile(p, i)
    <3>1. PICK u : GoneStep(p, i, u)
      BY <2>6, GoneSteps DEF DeleteFile
    <3>2. "refused" \in harm' => "refused" \in harm
      BY <2>6 DEF DeleteFile
    <3> QED
      BY <1>0, <2>1, <3>1, <3>2, AnsweringKeepsCause
  <2> QED
    BY <1>3, <2>2, <2>3, <2>4, <2>5, <2>6 DEF Serve
<1>4. ASSUME NEW p \in Pages, Load(p) PROVE SessionCause'
  <2>1. PICK u, r : LoadStep(p, u, r)
    BY <1>4, LoadSteps
  <2>2. UNCHANGED <<cookie, jar, harm>>
    BY <1>4 DEF Load, sessionVars
  <2> QED
    BY <1>0, <2>1, <2>2, SendingKeepsCause
<1>5. ASSUME NEW p \in Pages, NEW name \in Names, NEW at \in DirsOf(tree[p]),
             Upload(p, name, at)
      PROVE  SessionCause'
  <2>1. PICK r : UploadStep(p, r)
    BY <1>5, UploadSteps
  <2>2. UNCHANGED <<cookie, jar, harm>>
    BY <1>5 DEF Upload, sessionVars
  <2> QED
    BY <1>0, <2>1, <2>2, SendingKeepsCause
<1>6. ASSUME NEW p \in Pages, tree[p] # NoTree, NEW at \in DirsOf(tree[p]),
             CreateDirectory(p, at)
      PROVE  SessionCause'
  <2>1. \E r, t : ChangeStep(p, r, t)
    BY <1>6, UserSteps
  <2>2. UNCHANGED <<cookie, jar, harm>>
    BY <1>6 DEF CreateDirectory, sessionVars
  <2> QED
    BY <1>0, <2>1, <2>2, SendingKeepsCause
<1>7. ASSUME NEW p \in Pages, tree[p] # NoTree, NEW i \in DOMAIN tree[p],
             Delete(p, i)
      PROVE  SessionCause'
  <2>1. \/ \E r, t : ChangeStep(p, r, t)
        \/ \E d, r, t : DeleteStep(p, d, r, t)
    BY <1>7, UserSteps
  <2>2. UNCHANGED <<cookie, jar>>
    BY <1>7 DEF Delete, sessionVars
  <2>3. "refused" \in harm' => "refused" \in harm
    BY <1>7 DEF Delete, HarmOfRemoval
  <2> QED
    BY <1>0, <2>1, <2>2, <2>3, SendingKeepsCause
<1>8. ASSUME NEW p \in Pages, tree[p] # NoTree, NEW i \in DOMAIN tree[p],
             NEW new \in Entries, Relocate(p, i, new)
      PROVE  SessionCause'
  <2>1. \E r, t : ChangeStep(p, r, t)
    BY <1>8, UserSteps
  <2>2. UNCHANGED <<cookie, jar>>
    BY <1>8 DEF Relocate, sessionVars
  <2>3. "refused" \in harm' => "refused" \in harm
    BY <1>8 DEF Relocate, HarmOfRemoval
  <2> QED
    BY <1>0, <2>1, <2>2, <2>3, SendingKeepsCause
<1> QED
  BY <1>1, <1>2, <1>3, <1>4, <1>5, <1>6, <1>7, <1>8, StepCases

-----------------------------------------------------------------------------
(* Why trees are stored over others.                                        *)

\* What may be the reason: a second page, a post that has overtaken another,
\* one that did not do what its page supposes.
Excused == \/ \E p, q \in seen : p # q
           \/ "overtaken" \in causes
           \/ harm \cap {"lost", "refused", "big"} # {}

\* Without such a reason the posts of the only page that has shown the tree form
\* a chain that begins with what is stored.
StaleCause ==
    /\ files = NullTree => "big" \in harm
    /\ \A p \in Pages \ seen : Blank(out[p], tree[p])
    /\ ~ Excused => /\ "stale" \notin harm
                    /\ \A p \in seen : Chain(out[p], tree[p], files)

\* A step of one page that stores nothing.
LEMMA PageStepKeepsStale ==
  ASSUME TypeInv, StaleCause, NEW p \in Pages, NEW s, NEW t, PageStep(p, s, t),
         UNCHANGED files, seen \subseteq seen', seen' \subseteq seen \cup {p},
         harm \subseteq harm', causes \subseteq causes',
         "stale" \in harm' => "stale" \in harm,
         p \notin seen' => Blank(s, t),
         ~ Excused' /\ p \in seen' => Chain(s, t, files)
  PROVE  StaleCause'
<1>1. /\ out \in [Pages -> Seq(Requests)]
      /\ tree \in [Pages -> Trees \cup {NoTree}] /\ seen \subseteq Pages
  BY DEF TypeInv, TypeOK
<1>2. \A q \in Pages : /\ out'[q] = IF q = p THEN s ELSE out[q]
                       /\ tree'[q] = IF q = p THEN t ELSE tree[q]
  BY <1>1 DEF PageStep
<1>3. ~ Excused' => ~ Excused
  BY DEF Excused
<1>4. files' = NullTree => "big" \in harm'
  BY DEF StaleCause
<1>5. ASSUME NEW q \in Pages \ seen' PROVE Blank(out'[q], tree'[q])
  BY <1>2, <1>5 DEF StaleCause
<1>6. ASSUME ~ Excused'
      PROVE  /\ "stale" \notin harm'
             /\ \A q \in seen' : Chain(out'[q], tree'[q], files')
  <2>1. "stale" \notin harm' /\ \A q \in seen : Chain(out[q], tree[q], files)
    BY <1>3, <1>6 DEF StaleCause
  <2>2. ASSUME NEW q \in seen' PROVE Chain(out'[q], tree'[q], files')
    <3>1. CASE q = p
      BY <1>2, <1>6, <2>2, <3>1
    <3>2. CASE q # p
      <4>1. q \in seen /\ q \in Pages
        BY <1>1, <2>2, <3>2
      <4> QED
        BY <1>2, <2>1, <3>2, <4>1
    <3> QED
      BY <3>1, <3>2
  <2> QED
    BY <2>1, <2>2
<1> QED
  BY <1>4, <1>5, <1>6 DEF StaleCause

\* The page of a step, before it.
LEMMA StaleAtPage ==
  ASSUME TypeInv, StaleCause, [Next]_vars, NEW p \in Pages
  PROVE  /\ p \notin seen => Blank(out[p], tree[p])
         /\ ~ Excused' /\ p \in seen => Chain(out[p], tree[p], files)
         /\ ~ Excused' => ~ Excused
         /\ seen \subseteq seen' /\ harm \subseteq harm' /\ causes \subseteq causes'
         /\ out[p] \in Seq(Requests)
<1>1. seen \subseteq seen' /\ harm \subseteq harm' /\ causes \subseteq causes'
  BY StepsRemember
<1>2. ~ Excused' => ~ Excused
  BY <1>1 DEF Excused
<1> QED
  BY <1>1, <1>2, PageTypes DEF StaleCause

\* The steps that send requests.
LEMMA SendingKeepsStale ==
  ASSUME TypeInv, StaleCause, [Next]_vars, NEW p \in Pages,
         \/ \E u, r : LoadStep(p, u, r)
         \/ \E r : UploadStep(p, r)
         \/ \E r, t : ChangeStep(p, r, t)
         \/ \E d, r, t : DeleteStep(p, d, r, t),
         UNCHANGED <<files, seen>>, "stale" \in harm' => "stale" \in harm
  PROVE  StaleCause'
<1>1. /\ p \notin seen => Blank(out[p], tree[p])
      /\ ~ Excused' /\ p \in seen => Chain(out[p], tree[p], files)
      /\ seen \subseteq seen' /\ harm \subseteq harm' /\ causes \subseteq causes'
      /\ out[p] \in Seq(Requests) /\ seen' \subseteq seen \cup {p}
  BY StaleAtPage
<1>2. ASSUME NEW u, NEW r, LoadStep(p, u, r) PROVE StaleCause'
  <2>1. PICK places, h :
           /\ Posts(out[p]) \subseteq places /\ u \in Seq(Requests)
           /\ Embeds(out[p], places, u, Len(out[p]), h)
    BY <1>2 DEF LoadStep, Posts
  <2>2. r \in Requests /\ r.kind # "tree"
    BY <1>2 DEF LoadStep
  <2>3. p \notin seen => Blank(Append(u, r), NoTree)
    <3>1. Blank(out[p], tree[p]) => Blank(u, tree[p])
      BY <1>1, <2>1, ChainDrops
    <3>2. Blank(u, tree[p]) => Blank(u, NoTree)
      BY DEF Blank
    <3> QED
      BY <1>1, <2>1, <2>2, <3>1, <3>2, ChainSends
  <2>4. ~ Excused' /\ p \in seen => Chain(Append(u, r), NoTree, files)
    <3>1. Chain(out[p], tree[p], files) => Chain(u, NoTree, files)
      BY <1>1, <2>1, ChainDrops
    <3> QED
      BY <1>1, <2>1, <2>2, <3>1, ChainSends
  <2> QED
    BY <1>1, <1>2, <2>3, <2>4, PageStepKeepsStale DEF LoadStep
<1>3. ASSUME NEW r, UploadStep(p, r) PROVE StaleCause'
  <2>1. r \in Requests /\ r.kind # "tree" /\ PageStep(p, Append(out[p], r), tree[p])
    BY <1>3 DEF UploadStep
  <2>2. /\ p \notin seen => Blank(Append(out[p], r), tree[p])
        /\ ~ Excused' /\ p \in seen => Chain(Append(out[p], r), tree[p], files)
    BY <1>1, <2>1, ChainSends
  <2> QED
    BY <1>1, <2>1, <2>2, PageStepKeepsStale
<1>4. ASSUME NEW r, NEW t, ChangeStep(p, r, t) PROVE StaleCause'
  <2>1. /\ r \in Requests /\ r.kind = "tree" /\ r.base = tree[p] /\ r.tree = t
        /\ tree[p] # NoTree /\ PageStep(p, Append(out[p], r), t)
    BY <1>4, NoTreeAssumption DEF ChangeStep, IsPost
  <2>2. p \in seen
    BY <1>1, <2>1 DEF Blank
  <2>3. ~ Excused' => Chain(Append(out[p], r), t, files)
    BY <1>1, <2>1, <2>2, ChainPosts
  <2> QED
    BY <1>1, <2>1, <2>2, <2>3, PageStepKeepsStale
<1>5. ASSUME NEW d, NEW r, NEW t, DeleteStep(p, d, r, t) PROVE StaleCause'
  <2>1. /\ d \in Requests /\ d.kind # "tree"
        /\ r \in Requests /\ r.kind = "tree" /\ r.base = tree[p] /\ r.tree = t
        /\ tree[p] # NoTree /\ PageStep(p, Append(Append(out[p], d), r), t)
    BY <1>5, NoTreeAssumption DEF DeleteStep, IsPost
  <2>2. p \in seen
    BY <1>1, <2>1 DEF Blank
  <2>3. PICK a : a = Append(out[p], d)
    OBVIOUS
  <2>4. a \in Seq(Requests)
    BY <1>1, <2>1, <2>3, AppendProperties
  <2>5. ~ Excused' => Chain(a, tree[p], files)
    BY <1>1, <2>1, <2>2, <2>3, ChainSends
  <2>6. ~ Excused' => Chain(Append(a, r), t, files)
    BY <2>1, <2>4, <2>5, ChainPosts
  <2> QED
    BY <1>1, <2>1, <2>2, <2>3, <2>6, PageStepKeepsStale
<1> QED
  BY <1>2, <1>3, <1>4, <1>5

\* A request that is not a post is gone.
LEMMA GoneKeepsStale ==
  ASSUME TypeInv, StaleCause, [Next]_vars, NEW p \in Pages, NEW i \in DOMAIN out[p],
         NEW u, GoneStep(p, i, u), UNCHANGED <<files, seen>>,
         "stale" \in harm' => "stale" \in harm,
         ~ Excused' => out[p][i].kind # "tree"
  PROVE  StaleCause'
<1>1. /\ p \notin seen => Blank(out[p], tree[p])
      /\ ~ Excused' /\ p \in seen => Chain(out[p], tree[p], files)
      /\ seen \subseteq seen' /\ harm \subseteq harm' /\ causes \subseteq causes'
      /\ out[p] \in Seq(Requests) /\ seen' \subseteq seen \cup {p}
  BY StaleAtPage
<1>2. PICK h : Embeds(out[p], DOMAIN out[p] \ {i}, u, Len(out[p]), h)
  BY DEF GoneStep
<1>3. u \in Seq(Requests) /\ PageStep(p, u, tree[p])
  BY DEF GoneStep
<1>4. ASSUME out[p][i].kind # "tree"
      PROVE  /\ Blank(out[p], tree[p]) => Blank(u, tree[p])
             /\ Chain(out[p], tree[p], files) => Chain(u, tree[p], files)
  <2>1. Posts(out[p]) \subseteq DOMAIN out[p] \ {i}
    BY <1>4 DEF Posts
  <2> QED
    BY <1>1, <1>2, <1>3, <2>1, ChainDrops
<1>5. Blank(out[p], tree[p]) => out[p][i].kind # "tree"
  BY DEF Blank, Posts
<1> QED
  BY <1>1, <1>3, <1>4, <1>5, PageStepKeepsStale

LEMMA RefuseKeepsStale ==
  ASSUME TypeInv, StaleCause, [Next]_vars, NEW p \in Pages, NEW i \in DOMAIN out[p],
         Refuse(p, i)
  PROVE  StaleCause'
<1>1. PICK u : GoneStep(p, i, u)
  BY GoneSteps DEF Refuse
<1>2. UNCHANGED <<files, seen>> /\ ("stale" \in harm' => "stale" \in harm)
  BY DEF Refuse
<1>3. ~ Excused' => out[p][i].kind # "tree"
  <2>1. out[p][i].kind = "tree" => harm' \cap {"lost", "refused", "big"} # {}
    BY DEF Refuse
  <2> QED
    BY <2>1 DEF Excused
<1> QED
  BY <1>1, <1>2, <1>3, GoneKeepsStale

LEMMA DeleteFileKeepsStale ==
  ASSUME TypeInv, StaleCause, [Next]_vars, NEW p \in Pages, NEW i \in DOMAIN out[p],
         DeleteFile(p, i)
  PROVE  StaleCause'
<1>1. PICK u : GoneStep(p, i, u)
  BY GoneSteps DEF DeleteFile
<1>2. UNCHANGED <<files, seen>> /\ ("stale" \in harm' => "stale" \in harm)
  BY DEF DeleteFile
<1>3. out[p][i].kind # "tree"
  BY DEF DeleteFile, Arrives
<1> QED
  BY <1>1, <1>2, <1>3, GoneKeepsStale

\* The page shows what is stored while it posts nothing else.
LEMMA ListKeepsStale ==
  ASSUME TypeInv, StaleCause, [Next]_vars, NEW p \in Pages, NEW i \in DOMAIN out[p],
         List(p, i)
  PROVE  StaleCause'
<1>1. /\ p \notin seen => Blank(out[p], tree[p])
      /\ ~ Excused' => ~ Excused
      /\ seen \subseteq seen' /\ harm \subseteq harm' /\ causes \subseteq causes'
      /\ out[p] \in Seq(Requests)
  BY StaleAtPage
<1>2. PICK u, r, t : ListStep(p, i, u, r, t)
  BY ListSteps
<1>3. AnswerStep(p, i, u, r, t, t)
  BY <1>2 DEF ListStep
<1>4. PICK h : Embeds(out[p], DOMAIN out[p] \ {i}, u, Len(out[p]), h)
  BY <1>3 DEF AnswerStep
<1>5. /\ u \in Seq(Requests) /\ PageStep(p, Append(u, r), t) /\ t \in Trees
      /\ r \in Requests /\ r.kind = "tree" /\ r.base = t /\ r.tree = t
  BY <1>3 DEF AnswerStep, IsPost
<1>6. ASSUME ~ Excused' PROVE Chain(Append(u, r), t, files)
  <2>1. files # NullTree
    BY <1>1, <1>6 DEF StaleCause, Excused
  <2>2. t = files
    BY <1>2, <1>6, <2>1 DEF ListStep, Excused, Shown
  <2>3. Posts(out[p]) = {}
    <3>1. out[p][i].kind = "list" /\ i = Len(out[p])
      <4>1. out[p][i].kind = "list"
        BY DEF List, Arrives
      <4> QED
        BY <4>1, PageTypes DEF PageOK
    <3>2. ~ Overtakes(p, i)
      BY <1>6 DEF List, Arrives, Excused
    <3>3. \A j \in DOMAIN out[p] : j \in 1 .. i - 1 \/ j = i
      BY <1>1, <3>1
    <3> QED
      BY <3>1, <3>2, <3>3 DEF Posts, Overtakes
  <2>4. Posts(u) = {}
    <3>1. \A j \in DOMAIN u : h[j] \in DOMAIN out[p] /\ u[j] = out[p][h[j]]
      BY <1>1, <1>4 DEF Embeds
    <3> QED
      BY <2>3, <3>1 DEF Posts
  <2>5. t # NoTree
    BY <1>5, NoTreeAssumption
  <2> QED
    BY <1>5, <2>2, <2>4, <2>5, ChainStarts
<1>7. UNCHANGED files /\ seen' = seen \cup {p}
      /\ ("stale" \in harm' => "stale" \in harm)
  BY <1>2 DEF ListStep
<1> QED
  BY <1>1, <1>5, <1>6, <1>7, PageStepKeepsStale

\* The page adds an entry and posts the tree.
LEMMA UploadFileKeepsStale ==
  ASSUME TypeInv, StaleCause, [Next]_vars, NEW p \in Pages, NEW i \in DOMAIN out[p],
         UploadFile(p, i)
  PROVE  StaleCause'
<1>1. /\ p \notin seen => Blank(out[p], tree[p])
      /\ ~ Excused' /\ p \in seen => Chain(out[p], tree[p], files)
      /\ seen \subseteq seen' /\ harm \subseteq harm' /\ causes \subseteq causes'
      /\ out[p] \in Seq(Requests)
  BY StaleAtPage
<1>2. PICK u, r, t : AnswerStep(p, i, u, r, t, tree[p])
  BY UploadFileSteps
<1>3. PICK h : Embeds(out[p], DOMAIN out[p] \ {i}, u, Len(out[p]), h)
  BY <1>2 DEF AnswerStep
<1>4. /\ u \in Seq(Requests) /\ PageStep(p, Append(u, r), t) /\ t \in Trees
      /\ r \in Requests /\ r.kind = "tree" /\ r.base = tree[p] /\ r.tree = t
      /\ tree[p] # NoTree
  BY <1>2, UploadFileSteps DEF AnswerStep, IsPost
<1>5. p \in seen
  BY <1>1, <1>4 DEF Blank
<1>6. Posts(out[p]) \subseteq DOMAIN out[p] \ {i}
  <2>1. out[p][i].kind = "upload"
    BY DEF UploadFile, Arrives
  <2> QED
    BY <2>1 DEF Posts
<1>7. ASSUME ~ Excused' PROVE Chain(Append(u, r), t, files)
  <2>1. Chain(u, tree[p], files)
    BY <1>1, <1>3, <1>4, <1>5, <1>6, <1>7, ChainDrops
  <2> QED
    BY <1>4, <2>1, ChainPosts
<1>8. UNCHANGED <<files, seen>> /\ ("stale" \in harm' => "stale" \in harm)
  BY DEF UploadFile
<1> QED
  BY <1>1, <1>4, <1>5, <1>7, <1>8, PageStepKeepsStale

\* The first post of the chain is stored, over what it supposes.
LEMMA ChangeFilesKeepsStale ==
  ASSUME TypeInv, StaleCause, [Next]_vars, NEW p \in Pages, NEW i \in DOMAIN out[p],
         ChangeFiles(p, i)
  PROVE  StaleCause'
<1>1. /\ p \notin seen => Blank(out[p], tree[p])
      /\ ~ Excused' /\ p \in seen => Chain(out[p], tree[p], files)
      /\ ~ Excused' => ~ Excused
      /\ seen \subseteq seen' /\ harm \subseteq harm' /\ causes \subseteq causes'
      /\ out[p] \in Seq(Requests)
  BY StaleAtPage
<1>2. PICK u : GoneStep(p, i, u)
  BY GoneSteps DEF ChangeFiles
<1>3. out[p][i].kind = "tree" /\ i \in Posts(out[p])
  BY DEF ChangeFiles, Arrives, Posts
<1>4. p \in seen
  BY <1>1, <1>3 DEF Blank
<1>5. /\ out \in [Pages -> Seq(Requests)]
      /\ tree \in [Pages -> Trees \cup {NoTree}] /\ seen \subseteq Pages
  BY DEF TypeInv, TypeOK
<1>6. \A q \in Pages : /\ out'[q] = IF q = p THEN u ELSE out[q]
                       /\ tree'[q] = tree[q]
  BY <1>2, <1>5 DEF GoneStep, PageStep
<1>7. seen' = seen
  BY DEF ChangeFiles
<1>8. files' = NullTree => "big" \in harm'
  <2>1. out[p][i].tree # NullTree
    <3>1. out[p][i].tree \in Trees
      BY <1>1, <1>3, ElementOfSeq, RequestFields
    <3> QED
      BY <3>1, NoTreeAssumption
  <2> QED
    BY <1>1, <2>1 DEF ChangeFiles, StaleCause
<1>9. ASSUME NEW q \in Pages \ seen' PROVE Blank(out'[q], tree'[q])
  BY <1>4, <1>6, <1>7, <1>9 DEF StaleCause
<1>10. ASSUME ~ Excused'
       PROVE  /\ "stale" \notin harm'
              /\ \A q \in seen' : Chain(out'[q], tree'[q], files')
  <2>1. \A j \in 1 .. i - 1 : out[p][j].kind # "tree"
    BY <1>10 DEF ChangeFiles, Arrives, Overtakes, Excused
  <2>2. out[p][i].base = files /\ Chain(u, tree[p], out[p][i].tree)
    BY <1>1, <1>2, <1>3, <1>4, <1>10, <2>1, ChainStored DEF GoneStep
  <2>3. files' = out[p][i].tree
        /\ harm' = harm \cup (IF files # out[p][i].base THEN {"stale"} ELSE {})
    BY <1>10 DEF ChangeFiles, Excused
  <2>4. "stale" \notin harm'
    BY <1>1, <1>10, <2>2, <2>3 DEF StaleCause
  <2>5. \A q \in seen' : q = p
    BY <1>4, <1>7, <1>10 DEF Excused
  <2> QED
    BY <1>6, <2>2, <2>3, <2>4, <2>5
<1> QED
  BY <1>8, <1>9, <1>10 DEF StaleCause

LEMMA NextKeepsStale ==
  ASSUME TypeInv, StaleCause, [Next]_vars
  PROVE  StaleCause'
<1>1. CASE UNCHANGED driveVars
  BY <1>1 DEF driveVars, StaleCause, Excused
<1>2. ASSUME NEW p \in Pages, SessionStep(p) PROVE StaleCause'
  <2>1. Excused' <=> Excused
    BY <1>2 DEF SessionStep, Excused
  <2> QED
    BY <1>2, <2>1 DEF SessionStep, StaleCause
<1>3. ASSUME NEW p \in Pages, NEW i \in DOMAIN out[p], Serve(p, i)
      PROVE  StaleCause'
  BY <1>3, RefuseKeepsStale, ListKeepsStale, ChangeFilesKeepsStale,
     UploadFileKeepsStale, DeleteFileKeepsStale DEF Serve
<1>4. ASSUME NEW p \in Pages, Load(p) PROVE StaleCause'
  <2>1. PICK u, r : LoadStep(p, u, r)
    BY <1>4, LoadSteps
  <2>2. UNCHANGED <<files, seen, harm>>
    BY <1>4 DEF Load
  <2> QED
    BY <2>1, <2>2, SendingKeepsStale
<1>5. ASSUME NEW p \in Pages, NEW name \in Names, NEW at \in DirsOf(tree[p]),
             Upload(p, name, at)
      PROVE  StaleCause'
  <2>1. PICK r : UploadStep(p, r)
    BY <1>5, UploadSteps
  <2>2. UNCHANGED <<files, seen, harm>>
    BY <1>5 DEF Upload
  <2> QED
    BY <2>1, <2>2, SendingKeepsStale
<1>6. ASSUME NEW p \in Pages, tree[p] # NoTree, NEW at \in DirsOf(tree[p]),
             CreateDirectory(p, at)
      PROVE  StaleCause'
  <2>1. \E r, t : ChangeStep(p, r, t)
    BY <1>6, UserSteps
  <2>2. UNCHANGED <<files, seen, harm>>
    BY <1>6 DEF CreateDirectory
  <2> QED
    BY <2>1, <2>2, SendingKeepsStale
<1>7. ASSUME NEW p \in Pages, tree[p] # NoTree, NEW i \in DOMAIN tree[p],
             Delete(p, i)
      PROVE  StaleCause'
  <2>1. \/ \E r, t : ChangeStep(p, r, t)
        \/ \E d, r, t : DeleteStep(p, d, r, t)
    BY <1>7, UserSteps
  <2>2. UNCHANGED <<files, seen>> /\ ("stale" \in harm' => "stale" \in harm)
    BY <1>7 DEF Delete, HarmOfRemoval
  <2> QED
    BY <2>1, <2>2, SendingKeepsStale
<1>8. ASSUME NEW p \in Pages, tree[p] # NoTree, NEW i \in DOMAIN tree[p],
             NEW new \in Entries, Relocate(p, i, new)
      PROVE  StaleCause'
  <2>1. \E r, t : ChangeStep(p, r, t)
    BY <1>8, UserSteps
  <2>2. UNCHANGED <<files, seen>> /\ ("stale" \in harm' => "stale" \in harm)
    BY <1>8 DEF Relocate, HarmOfRemoval
  <2> QED
    BY <2>1, <2>2, SendingKeepsStale
<1> QED
  BY <1>1, <1>2, <1>3, <1>4, <1>5, <1>6, <1>7, <1>8, StepCases

\* A tree is stored over one its page did not know only with a reason, and a
\* change refused only after a login or a logout, on any number of pages and
\* whatever the trees.
THEOREM HarmHasCauseAlways == Spec => []HarmHasCause
<1>1. Init => SessionCause /\ StaleCause
  <2> SUFFICES ASSUME Init PROVE SessionCause /\ StaleCause
    OBVIOUS
  <2>1. SessionCause
    BY DEF Init, SessionInit, SessionCause, Plain
  <2>2. /\ \A p \in Pages : /\ Posts(out[p]) = {}
                            /\ tree[p] = IF p \in seen THEN files ELSE NoTree
        /\ seen \subseteq Pages /\ harm = {}
    BY DEF Init, Posts
  <2>3. files # NullTree
    BY InitTypes, NoTreeAssumption DEF Init
  <2>4. \A p \in seen : Chain(out[p], tree[p], files)
    BY <2>2 DEF Chain
  <2>5. StaleCause
    BY <2>2, <2>3, <2>4 DEF StaleCause, Blank
  <2> QED
    BY <2>1, <2>5
<1>2. TypeInv /\ SessionCause /\ StaleCause /\ [Next]_vars
      => (SessionCause /\ StaleCause)'
  BY NextKeepsCause, NextKeepsStale
<1>3. SessionCause /\ StaleCause => HarmHasCause
  BY DEF SessionCause, StaleCause, Excused, HarmHasCause
<1> QED
  BY <1>1, <1>2, <1>3, TypesAlways, PTL DEF Spec

-----------------------------------------------------------------------------
(* Sets of requests on their way.                                           *)

Pends(o, P) == \E p \in Pages : \E i \in DOMAIN o[p] : o[p][i] \in P

Once(o, P) ==
    \A p \in Pages : \A q \in Pages : \A i \in DOMAIN o[p] : \A j \in DOMAIN o[q] :
       o[p][i] \in P /\ o[q][j] \in P => p = q /\ i = j

\* One request more, one less, and what Load leaves.
Sent(o, o2, r) ==
    \A P : /\ Pends(o2, P) <=> Pends(o, P) \/ r \in P
           /\ Once(o, P) /\ (r \in P => ~ Pends(o, P)) => Once(o2, P)

Removed(o, o2, r) ==
    \A P : /\ Pends(o2, P) => Pends(o, P)
           /\ Pends(o, P) => Pends(o2, P) \/ r \in P
           /\ Once(o, P) => Once(o2, P)
           /\ Once(o, P) /\ r \in P => ~ Pends(o2, P)

Forgotten(o, o2) ==
    \A P : /\ Pends(o2, P) => Pends(o, P)
           /\ (\A r \in P : r.kind \in {"tree", "delete"}) /\ Pends(o, P)
              => Pends(o2, P)
           /\ Once(o, P) => Once(o2, P)

LEMMA AppendSends ==
  ASSUME NEW o \in [Pages -> Seq(Requests)], NEW p \in Pages, NEW r \in Requests,
         NEW o2, o2 = [o EXCEPT ![p] = Append(o[p], r)]
  PROVE  Sent(o, o2, r)
<1>1. o[p] \in Seq(Requests)
  OBVIOUS
<1>2. PICK n, a : Longer(o[p], r, n, a)
  BY <1>1, AppendedPosts
<1>3. /\ n \in Nat /\ n + 1 \notin DOMAIN o[p]
      /\ o2[p] = a /\ \A q \in Pages \ {p} : o2[q] = o[q]
      /\ DOMAIN o[p] \subseteq DOMAIN o2[p] /\ n + 1 \in DOMAIN o2[p]
      /\ \A i \in DOMAIN o2[p] : i = n + 1 \/ i \in DOMAIN o[p]
      /\ o2[p][n + 1] = r /\ \A i \in DOMAIN o[p] : o2[p][i] = o[p][i]
  BY <1>2 DEF Longer
<1>4. ASSUME NEW P, Pends(o2, P) PROVE Pends(o, P) \/ r \in P
  <2>1. PICK q \in Pages : \E i \in DOMAIN o2[q] : o2[q][i] \in P
    BY <1>4 DEF Pends
  <2>2. PICK i \in DOMAIN o2[q] : o2[q][i] \in P
    BY <2>1
  <2>3. CASE q = p
    BY <1>3, <2>2, <2>3 DEF Pends
  <2>4. CASE q # p
    BY <1>3, <2>2, <2>4 DEF Pends
  <2> QED
    BY <2>3, <2>4
<1>5. ASSUME NEW P, Pends(o, P) PROVE Pends(o2, P)
  <2>1. PICK q \in Pages : \E i \in DOMAIN o[q] : o[q][i] \in P
    BY <1>5 DEF Pends
  <2>2. PICK i \in DOMAIN o[q] : o[q][i] \in P
    BY <2>1
  <2>3. CASE q = p
    BY <1>3, <2>2, <2>3 DEF Pends
  <2>4. CASE q # p
    BY <1>3, <2>2, <2>4 DEF Pends
  <2> QED
    BY <2>3, <2>4
<1>6. ASSUME NEW P, r \in P PROVE Pends(o2, P)
  BY <1>3, <1>6 DEF Pends
<1>7. ASSUME NEW P, Once(o, P), r \in P => ~ Pends(o, P) PROVE Once(o2, P)
  <2> SUFFICES ASSUME NEW q1 \in Pages, NEW q2 \in Pages,
                      NEW i \in DOMAIN o2[q1], NEW j \in DOMAIN o2[q2],
                      o2[q1][i] \in P, o2[q2][j] \in P
               PROVE  q1 = q2 /\ i = j
    BY DEF Once
  <2>1. (q1 = p /\ i = n + 1) \/ (i \in DOMAIN o[q1] /\ o2[q1][i] = o[q1][i])
    BY <1>3
  <2>2. (q2 = p /\ j = n + 1) \/ (j \in DOMAIN o[q2] /\ o2[q2][j] = o[q2][j])
    BY <1>3
  <2>3. q1 = p /\ i = n + 1 => r \in P
    BY <1>3
  <2>4. q2 = p /\ j = n + 1 => r \in P
    BY <1>3
  <2>5. i \in DOMAIN o[q1] /\ o2[q1][i] = o[q1][i] => Pends(o, P)
    BY DEF Pends
  <2>6. j \in DOMAIN o[q2] /\ o2[q2][j] = o[q2][j] => Pends(o, P)
    BY DEF Pends
  <2>7. CASE i \in DOMAIN o[q1] /\ o2[q1][i] = o[q1][i]
             /\ j \in DOMAIN o[q2] /\ o2[q2][j] = o[q2][j]
    BY <1>7, <2>7 DEF Once
  <2> QED
    BY <1>7, <2>1, <2>2, <2>3, <2>4, <2>5, <2>6, <2>7
<1> QED
  BY <1>4, <1>5, <1>6, <1>7 DEF Sent

\* What stays is at another place, and in the same order.
Dropped(o, o2, p, places, P) ==
    /\ Pends(o2, P) => Pends(o, P)
    /\ (\A i \in DOMAIN o[p] : o[p][i] \in P => i \in places) /\ Pends(o, P)
       => Pends(o2, P)
    /\ Once(o, P) => Once(o2, P)
    /\ \A i \in DOMAIN o[p] :
          Once(o, P) /\ o[p][i] \in P /\ i \notin places => ~ Pends(o2, P)

LEMMA DropsKeep ==
  ASSUME NEW o \in [Pages -> Seq(Requests)], NEW p \in Pages,
         NEW u \in Seq(Requests), NEW places, NEW h,
         Embeds(o[p], places, u, Len(o[p]), h),
         NEW o2, o2 = [o EXCEPT ![p] = u], NEW P
  PROVE  Dropped(o, o2, p, places, P)
<1>1. o[p] \in Seq(Requests)
  OBVIOUS
<1>2. PICK n \in Nat : Len(o[p]) = n /\ DOMAIN o[p] = 1 .. n
  BY <1>1
<1>3. PICK m \in Nat : Len(u) = m /\ DOMAIN u = 1 .. m
  OBVIOUS
<1>4. o2[p] = u /\ \A q \in Pages \ {p} : o2[q] = o[q]
  OBVIOUS
<1>5. /\ \A j \in DOMAIN u : /\ h[j] \in DOMAIN o[p] /\ h[j] \in places
                             /\ u[j] = o[p][h[j]]
      /\ \A k \in DOMAIN o[p] : k \in places => \E j \in DOMAIN u : h[j] = k
  BY <1>2 DEF Embeds
<1>6. \A i \in DOMAIN u : \A j \in DOMAIN u : h[i] = h[j] => i = j
  <2> SUFFICES ASSUME NEW i \in DOMAIN u, NEW j \in DOMAIN u, h[i] = h[j], i # j
               PROVE  FALSE
    OBVIOUS
  <2>1. h[i] \in Nat /\ (i < j \/ j < i)
    BY <1>2, <1>3, <1>5
  <2> QED
    BY <2>1 DEF Embeds
<1>7. ASSUME NEW q \in Pages, NEW j \in DOMAIN o2[q]
      PROVE  \/ q = p /\ j \in DOMAIN u /\ o2[q][j] = o[p][h[j]]
             \/ q # p /\ j \in DOMAIN o[q] /\ o2[q][j] = o[q][j]
  BY <1>4, <1>5
<1>8. ASSUME Pends(o2, P) PROVE Pends(o, P)
  <2>1. PICK q \in Pages : \E j \in DOMAIN o2[q] : o2[q][j] \in P
    BY <1>8 DEF Pends
  <2>2. PICK j \in DOMAIN o2[q] : o2[q][j] \in P
    BY <2>1
  <2> QED
    BY <1>5, <1>7, <2>2 DEF Pends
<1>9. ASSUME \A i \in DOMAIN o[p] : o[p][i] \in P => i \in places, Pends(o, P)
      PROVE  Pends(o2, P)
  <2>1. PICK q \in Pages : \E j \in DOMAIN o[q] : o[q][j] \in P
    BY <1>9 DEF Pends
  <2>2. PICK j \in DOMAIN o[q] : o[q][j] \in P
    BY <2>1
  <2>3. CASE q = p
    <3>1. PICK k \in DOMAIN u : h[k] = j
      BY <1>5, <1>9, <2>2, <2>3
    <3> QED
      BY <1>4, <1>5, <2>2, <2>3, <3>1 DEF Pends
  <2>4. CASE q # p
    BY <1>4, <2>2, <2>4 DEF Pends
  <2> QED
    BY <2>3, <2>4
<1>10. ASSUME Once(o, P) PROVE Once(o2, P)
  <2> SUFFICES ASSUME NEW q1 \in Pages, NEW q2 \in Pages,
                      NEW i \in DOMAIN o2[q1], NEW j \in DOMAIN o2[q2],
                      o2[q1][i] \in P, o2[q2][j] \in P
               PROVE  q1 = q2 /\ i = j
    BY DEF Once
  <2>1. CASE q1 # p /\ q2 # p
    BY <1>7, <1>10, <2>1 DEF Once
  <2>2. CASE q1 = p /\ q2 # p
    BY <1>5, <1>7, <1>10, <2>2 DEF Once
  <2>3. CASE q1 # p /\ q2 = p
    BY <1>5, <1>7, <1>10, <2>3 DEF Once
  <2>4. CASE q1 = p /\ q2 = p
    <3>1. /\ i \in DOMAIN u /\ j \in DOMAIN u
          /\ h[i] \in DOMAIN o[p] /\ o[p][h[i]] \in P
          /\ h[j] \in DOMAIN o[p] /\ o[p][h[j]] \in P
      BY <1>5, <1>7, <2>4
    <3>2. h[i] = h[j]
      BY <1>10, <3>1 DEF Once
    <3> QED
      BY <1>6, <2>4, <3>1, <3>2
  <2> QED
    BY <2>1, <2>2, <2>3, <2>4
<1>11. ASSUME NEW i \in DOMAIN o[p], Once(o, P), o[p][i] \in P, i \notin places,
              Pends(o2, P)
       PROVE  FALSE
  <2>1. PICK q \in Pages : \E j \in DOMAIN o2[q] : o2[q][j] \in P
    BY <1>11 DEF Pends
  <2>2. PICK j \in DOMAIN o2[q] : o2[q][j] \in P
    BY <2>1
  <2>3. CASE q = p
    <3>1. h[j] \in DOMAIN o[p] /\ h[j] \in places /\ o[p][h[j]] \in P
      BY <1>5, <1>7, <2>2, <2>3
    <3>2. h[j] = i
      BY <1>11, <3>1 DEF Once
    <3> QED
      BY <1>11, <3>1, <3>2
  <2>4. CASE q # p
    BY <1>7, <1>11, <2>2, <2>4 DEF Once
  <2> QED
    BY <2>3, <2>4
<1> QED
  BY <1>8, <1>9, <1>10, <1>11 DEF Dropped

LEMMA RemovalRemoves ==
  ASSUME NEW o \in [Pages -> Seq(Requests)], NEW p \in Pages, NEW i \in DOMAIN o[p],
         NEW u \in Seq(Requests),
         \E h : Embeds(o[p], DOMAIN o[p] \ {i}, u, Len(o[p]), h),
         NEW o2, o2 = [o EXCEPT ![p] = u]
  PROVE  Removed(o, o2, o[p][i]) /\ o2 \in [Pages -> Seq(Requests)]
<1>1. PICK h : Embeds(o[p], DOMAIN o[p] \ {i}, u, Len(o[p]), h)
  OBVIOUS
<1>2. PICK places : places = DOMAIN o[p] \ {i}
  OBVIOUS
<1>3. ASSUME NEW P
      PROVE  /\ Pends(o2, P) => Pends(o, P)
             /\ (\A k \in DOMAIN o[p] : o[p][k] \in P => k \in places) /\ Pends(o, P)
                => Pends(o2, P)
             /\ Once(o, P) => Once(o2, P)
             /\ Once(o, P) /\ o[p][i] \in P => ~ Pends(o2, P)
  <2>1. Dropped(o, o2, p, places, P)
    BY <1>1, <1>2, DropsKeep
  <2> QED
    BY <1>2, <2>1 DEF Dropped
<1>4. ASSUME NEW P, o[p][i] \notin P
      PROVE  \A k \in DOMAIN o[p] : o[p][k] \in P => k \in places
  BY <1>2, <1>4
<1>5. o2 \in [Pages -> Seq(Requests)]
  OBVIOUS
<1> QED
  BY <1>3, <1>4, <1>5 DEF Removed

LEMMA LoadForgets ==
  ASSUME NEW o \in [Pages -> Seq(Requests)], NEW p \in Pages,
         NEW u \in Seq(Requests),
         \E h : Embeds(o[p], {i \in DOMAIN o[p] : o[p][i].kind \in {"tree", "delete"}},
                       u, Len(o[p]), h),
         NEW o2, o2 = [o EXCEPT ![p] = u]
  PROVE  Forgotten(o, o2) /\ o2 \in [Pages -> Seq(Requests)]
<1>1. PICK places : places = {i \in DOMAIN o[p] : o[p][i].kind \in {"tree", "delete"}}
  OBVIOUS
<1>2. PICK h : Embeds(o[p], places, u, Len(o[p]), h)
  BY <1>1
<1>3. ASSUME NEW P
      PROVE  /\ Pends(o2, P) => Pends(o, P)
             /\ (\A k \in DOMAIN o[p] : o[p][k] \in P => k \in places) /\ Pends(o, P)
                => Pends(o2, P)
             /\ Once(o, P) => Once(o2, P)
  <2>1. Dropped(o, o2, p, places, P)
    BY <1>2, DropsKeep
  <2> QED
    BY <2>1 DEF Dropped
<1>4. ASSUME NEW P, \A r \in P : r.kind \in {"tree", "delete"}
      PROVE  \A k \in DOMAIN o[p] : o[p][k] \in P => k \in places
  BY <1>1, <1>4
<1>5. o2 \in [Pages -> Seq(Requests)]
  OBVIOUS
<1> QED
  BY <1>3, <1>4, <1>5 DEF Forgotten

-----------------------------------------------------------------------------
(* What the requests do to the list of files.                               *)

AddsOf(f) == {r \in Requests : /\ r.kind = "tree"
                               /\ f \in FilesOf(r.tree) \ FilesOf(r.base)}
DelsOf(f) == {r \in Requests : /\ r.kind = "tree"
                               /\ f \in FilesOf(r.base) \ FilesOf(r.tree)}
UploadsOf(f) == {r \in Requests : r.kind = "upload" /\ r.entry.id = f}
DeletesOf(f) == {r \in Requests : r.kind = "delete" /\ r.id = f}
DirUploads == {r \in Requests : r.kind = "upload" /\ r.entry.dir}
Posting(t) == {r \in Requests : r.kind = "tree" /\ (r.tree = t \/ r.base = t)}

\* How the stored list and what is on its way make up the files the user has
\* been shown: each that is missing will be added, each that is too much taken
\* out, in whatever order the posts are done.
Account(f) ==
    /\ f \in FilesOf(files) /\ f \notin kept => Pends(out, DelsOf(f))
    /\ f \notin FilesOf(files) /\ f \in kept => Pends(out, AddsOf(f))
    /\ Pends(out, DelsOf(f)) => f \notin kept
    /\ Pends(out, AddsOf(f)) => /\ f \notin FilesOf(files)
                                /\ f \notin kept => Pends(out, DelsOf(f))
    /\ Once(out, AddsOf(f))

\* How the contents are stored and deleted: each once.
Content(f) ==
    /\ f \in kept => f \in cells /\ f < next /\ ~ Pends(out, DeletesOf(f))
    /\ Pends(out, UploadsOf(f)) => /\ f \notin kept /\ f < next
                                   /\ ~ Pends(out, DeletesOf(f))
    /\ Pends(out, DeletesOf(f)) => f < next
    /\ Once(out, UploadsOf(f))

\* A tree that is stored, shown or on its way.
Around(t) == t = files \/ (\E p \in Pages : t = tree[p]) \/ Pends(out, Posting(t))

\* Its ids are different from each other and from those to come, and those of
\* its directories are no files the user has.
Sound(t) ==
    /\ \A i \in DOMAIN t : \A j \in DOMAIN t : t[i].id = t[j].id => i = j
    /\ \A i \in DOMAIN t : /\ t[i].id < next
                           /\ t[i].dir => t[i].id \notin kept
                           /\ ~ Pends(out, UploadsOf(t[i].id))

SoundTrees == \A t \in Trees : Around(t) => Sound(t)

Files ==
    /\ files # NullTree
    /\ \A f \in Nat : Account(f) /\ Content(f)
    /\ SoundTrees
    /\ ~ Pends(out, DirUploads)

\* Which requests are in these sets.
LEMMA RequestKinds ==
  ASSUME NEW r \in Requests
  PROVE  \A f :
         /\ r \in AddsOf(f) <=> /\ r.kind = "tree"
                                /\ f \in FilesOf(r.tree) /\ f \notin FilesOf(r.base)
         /\ r \in DelsOf(f) <=> /\ r.kind = "tree"
                                /\ f \in FilesOf(r.base) /\ f \notin FilesOf(r.tree)
         /\ r \in UploadsOf(f) <=> r.kind = "upload" /\ r.entry.id = f
         /\ r \in DeletesOf(f) <=> r.kind = "delete" /\ r.id = f
         /\ r \in DirUploads <=> r.kind = "upload" /\ r.entry.dir
         /\ r \in Posting(f) <=> r.kind = "tree" /\ (r.tree = f \/ r.base = f)
  BY DEF AddsOf, DelsOf, UploadsOf, DeletesOf, DirUploads, Posting

\* The files of a tree.
LEMMA FilesAre ==
  ASSUME NEW t, NEW f
  PROVE  f \in FilesOf(t) <=> \E i \in DOMAIN t : ~ t[i].dir /\ t[i].id = f
  BY DEF FilesOf

LEMMA FilesOfAdded ==
  ASSUME NEW t \in Trees, NEW e \in Entries
  PROVE  /\ AddEntry(t, e) \in Trees
         /\ FilesOf(AddEntry(t, e)) = FilesOf(t) \cup (IF e.dir THEN {} ELSE {e.id})
         /\ \E n \in Nat : /\ DOMAIN t = 1 .. n /\ DOMAIN AddEntry(t, e) = 1 .. n + 1
                           /\ AddEntry(t, e)[n + 1] = e
                           /\ \A i \in 1 .. n : AddEntry(t, e)[i] = t[i]
<1>1. PICK n \in Nat : Len(t) = n /\ DOMAIN t = 1 .. n
  BY DEF Trees
<1>2. PICK a : a = AddEntry(t, e)
  OBVIOUS
<1>3. /\ a \in Trees /\ DOMAIN a = 1 .. n + 1
      /\ a[n + 1] = e /\ \A i \in 1 .. n : a[i] = t[i]
  BY <1>1, <1>2, AppendProperties DEF AddEntry, Trees
<1>4. \A i \in 1 .. n + 1 : i = n + 1 \/ i \in 1 .. n
  BY <1>1
<1>5. n + 1 \in 1 .. n + 1 /\ \A i \in 1 .. n : i \in 1 .. n + 1
  BY <1>1
<1>6. ASSUME NEW f
      PROVE  f \in FilesOf(a) <=> f \in FilesOf(t) \/ (~ e.dir /\ f = e.id)
  <2>1. f \in FilesOf(a) => f \in FilesOf(t) \/ (~ e.dir /\ f = e.id)
    BY <1>1, <1>3, <1>4, FilesAre
  <2>2. f \in FilesOf(t) => f \in FilesOf(a)
    BY <1>1, <1>3, <1>5, FilesAre
  <2>3. ~ e.dir /\ f = e.id => f \in FilesOf(a)
    BY <1>3, <1>5, FilesAre
  <2> QED
    BY <2>1, <2>2, <2>3
<1>7. FilesOf(a) = FilesOf(t) \cup (IF e.dir THEN {} ELSE {e.id})
  BY <1>6
<1> QED
  BY <1>1, <1>2, <1>3, <1>7

\* A tree that has other entries of the same ids and kinds, or fewer.
LEMMA SoundPart ==
  ASSUME NEW t, NEW t2, Sound(t), NEW g,
         \A j \in DOMAIN t2 : /\ g[j] \in DOMAIN t /\ t2[j].id = t[g[j]].id
                              /\ t2[j].dir = t[g[j]].dir,
         \A j \in DOMAIN t2 : \A k \in DOMAIN t2 : g[j] = g[k] => j = k
  PROVE  Sound(t2)
<1>1. ASSUME NEW j \in DOMAIN t2, NEW k \in DOMAIN t2, t2[j].id = t2[k].id
      PROVE  j = k
  <2>1. t[g[j]].id = t[g[k]].id /\ g[j] \in DOMAIN t /\ g[k] \in DOMAIN t
    BY <1>1
  <2> QED
    BY <2>1 DEF Sound
<1>2. ASSUME NEW j \in DOMAIN t2
      PROVE  /\ t2[j].id < next
             /\ t2[j].dir => t2[j].id \notin kept
             /\ ~ Pends(out, UploadsOf(t2[j].id))
  <2>1. /\ g[j] \in DOMAIN t /\ t2[j].id = t[g[j]].id
        /\ t2[j].dir = t[g[j]].dir
    OBVIOUS
  <2> QED
    BY <2>1 DEF Sound
<1> QED
  BY <1>1, <1>2 DEF Sound

\* Removing an entry takes its file away and no other.
LEMMA FilesOfRemoved ==
  ASSUME NEW t \in Trees, NEW i \in DOMAIN t, Sound(t)
  PROVE  /\ Sound(RemoveAt(t, i)) /\ RemoveAt(t, i) \in Trees
         /\ FilesOf(RemoveAt(t, i)) = FilesOf(t) \ {t[i].id}
         /\ ~ t[i].dir => t[i].id \in FilesOf(t)
         /\ t[i].dir => t[i].id \notin FilesOf(t)
<1>1. PICK u : u = RemoveAt(t, i)
  OBVIOUS
<1>2. u \in Trees
  BY <1>1, RemoveAtElement DEF Trees
<1>3. PICK h : Embeds(t, DOMAIN t \ {i}, u, Len(t), h)
  BY <1>1, RemoveAtEmbeds DEF Trees
<1>4. PICK n \in Nat : Len(t) = n /\ DOMAIN t = 1 .. n
  BY DEF Trees
<1>5. PICK m \in Nat : Len(u) = m /\ DOMAIN u = 1 .. m
  BY <1>2 DEF Trees
<1>6. /\ \A j \in DOMAIN u : h[j] \in DOMAIN t /\ h[j] # i /\ u[j] = t[h[j]]
      /\ \A k \in DOMAIN t : k # i => \E j \in DOMAIN u : h[j] = k
  BY <1>3, <1>4 DEF Embeds
<1>7. \A j \in DOMAIN u : \A k \in DOMAIN u : h[j] = h[k] => j = k
  <2> SUFFICES ASSUME NEW j \in DOMAIN u, NEW k \in DOMAIN u, h[j] = h[k], j # k
               PROVE  FALSE
    OBVIOUS
  <2>1. h[j] \in Nat /\ (j < k \/ k < j)
    BY <1>4, <1>5, <1>6
  <2> QED
    BY <1>3, <2>1 DEF Embeds
<1>8. Sound(u)
  BY <1>6, <1>7, SoundPart
<1>9. \A j \in DOMAIN t : t[j].id = t[i].id => j = i
  BY DEF Sound
<1>10. ASSUME NEW f
       PROVE  f \in FilesOf(u) <=> f \in FilesOf(t) /\ f # t[i].id
  <2>1. f \in FilesOf(u) => f \in FilesOf(t) /\ f # t[i].id
    BY <1>6, <1>9, FilesAre
  <2>2. ASSUME f \in FilesOf(t), f # t[i].id PROVE f \in FilesOf(u)
    <3>1. PICK k \in DOMAIN t : ~ t[k].dir /\ t[k].id = f
      BY <2>2, FilesAre
    <3>2. PICK j \in DOMAIN u : h[j] = k
      BY <1>6, <2>2, <3>1
    <3> QED
      BY <1>6, <3>1, <3>2, FilesAre
  <2> QED
    BY <2>1, <2>2
<1>11. FilesOf(u) = FilesOf(t) \ {t[i].id}
  BY <1>10
<1>12. /\ ~ t[i].dir => t[i].id \in FilesOf(t)
       /\ t[i].dir => t[i].id \notin FilesOf(t)
  BY <1>9, FilesAre
<1> QED
  BY <1>1, <1>2, <1>8, <1>11, <1>12

\* handleMove and handleRename leave the files as they are, if they removed the
\* entry they were to and nothing got lost.
LEMMA FilesOfReplaced ==
  ASSUME NEW t \in Trees, NEW i \in DOMAIN t, Sound(t), NEW new \in Entries,
         new.id = t[i].id, new.dir = t[i].dir,
         First(t, t[i].at, t[i].name) = i,
         ~ (Len(Replace(t, t[i], new)) < Len(t))
  PROVE  /\ Replace(t, t[i], new) \in Trees /\ Sound(Replace(t, t[i], new))
         /\ FilesOf(Replace(t, t[i], new)) = FilesOf(t)
<1>1. PICK n \in Nat : Len(t) = n /\ DOMAIN t = 1 .. n
  BY DEF Trees
<1>2. PICK a : a = AddEntry(t, new)
  OBVIOUS
<1>3. /\ a \in Trees /\ DOMAIN a = 1 .. n + 1 /\ Len(a) = n + 1
      /\ a[n + 1] = new /\ \A j \in 1 .. n : a[j] = t[j]
  BY <1>1, <1>2, AppendProperties DEF AddEntry, Trees
<1>4. i \in 1 .. n /\ i \in DOMAIN a /\ a[i] = t[i]
  BY <1>1, <1>3
<1>5. First(a, t[i].at, t[i].name) = i
  <2>1. PICK k : k = First(a, t[i].at, t[i].name)
    OBVIOUS
  <2>2. /\ k \in 1 .. n + 1 /\ k <= i
        /\ a[k].at = t[i].at /\ a[k].name = t[i].name
    BY <1>3, <1>4, <2>1, FirstFinds
  <2>3. k \in 1 .. n /\ a[k] = t[k]
    BY <1>1, <1>3, <1>4, <2>2
  <2>4. \A j \in 1 .. i - 1 : t[j].at # t[i].at \/ t[j].name # t[i].name
    BY FirstFinds
  <2>5. ~ (k < i)
    BY <1>1, <2>2, <2>3, <2>4
  <2> QED
    BY <1>1, <1>4, <2>1, <2>2, <2>5
<1>6. PICK u : u = RemoveAt(a, i)
  OBVIOUS
<1>7. Replace(t, t[i], new) = Reachable(u)
  BY <1>2, <1>5, <1>6 DEF Replace, RemoveEntry
<1>8. /\ u \in Trees /\ DOMAIN u = 1 .. n /\ Len(u) = n
      /\ \A j \in 1 .. n : u[j] = IF j < i THEN a[j] ELSE a[j + 1]
  <2>1. RemoveAt(a, i) \in Seq(Entries) /\ DOMAIN RemoveAt(a, i) = 1 .. Len(a) - 1
        /\ \A j \in 1 .. Len(a) - 1 :
              RemoveAt(a, i)[j] = IF j < i THEN a[j] ELSE a[j + 1]
    BY <1>3, <1>4, RemoveAtElement DEF Trees
  <2>2. Len(a) - 1 = n
    BY <1>1, <1>3
  <2>3. u \in Seq(Entries) /\ DOMAIN u = 1 .. n
        /\ \A j \in 1 .. n : u[j] = IF j < i THEN a[j] ELSE a[j + 1]
    BY <1>6, <2>1, <2>2
  <2>4. Len(u) = n
    BY <1>1, <2>3
  <2> QED
    BY <2>3, <2>4 DEF Trees
<1>9. Reachable(u) = u
  <2>1. PICK places : places = {j \in DOMAIN u : ~ Lost(u, u[j])}
    OBVIOUS
  <2>2. Reachable(u) = At(u, places)
    BY <2>1 DEF Reachable
  <2>3. Len(At(u, places)) \in Nat
    BY <1>8, AtPicks DEF Picked, Trees
  <2>4. Len(At(u, places)) >= Len(u)
    BY <1>1, <1>7, <1>8, <2>2, <2>3
  <2> QED
    BY <1>8, <2>2, <2>4, AtAll DEF Trees
<1>10. PICK g : g = [j \in 1 .. n |-> IF j < i THEN j
                                      ELSE IF j = n THEN i ELSE j + 1]
  OBVIOUS
<1>11. \A j \in 1 .. n : /\ g[j] \in 1 .. n
                         /\ u[j].id = t[g[j]].id /\ u[j].dir = t[g[j]].dir
  <2> SUFFICES ASSUME NEW j \in 1 .. n
               PROVE  /\ g[j] \in 1 .. n
                      /\ u[j].id = t[g[j]].id /\ u[j].dir = t[g[j]].dir
    OBVIOUS
  <2>1. CASE j < i
    BY <1>3, <1>8, <1>10, <2>1
  <2>2. CASE ~ (j < i) /\ j = n
    <3>1. g[j] = i /\ u[j] = new
      BY <1>3, <1>8, <1>10, <2>2
    <3> QED
      BY <1>4, <3>1
  <2>3. CASE ~ (j < i) /\ j # n
    <3>1. g[j] = j + 1 /\ j + 1 \in 1 .. n
      BY <1>1, <1>10, <2>3
    <3>2. u[j] = t[j + 1]
      BY <1>3, <1>8, <2>3, <3>1
    <3> QED
      BY <3>1, <3>2
  <2> QED
    BY <2>1, <2>2, <2>3
<1>12. \A j \in 1 .. n : \A k \in 1 .. n : g[j] = g[k] => j = k
  BY <1>1, <1>4, <1>10
<1>13. \A k \in 1 .. n : \E j \in 1 .. n : g[j] = k
  <2> SUFFICES ASSUME NEW k \in 1 .. n PROVE \E j \in 1 .. n : g[j] = k
    OBVIOUS
  <2>1. CASE k < i
    BY <1>10, <2>1
  <2>2. CASE k = i
    <3>1. n \in 1 .. n /\ g[n] = i
      BY <1>1, <1>4, <1>10
    <3> QED
      BY <2>2, <3>1
  <2>3. CASE i < k
    <3>1. k - 1 \in 1 .. n /\ g[k - 1] = k
      BY <1>1, <1>4, <1>10, <2>3
    <3> QED
      BY <3>1
  <2> QED
    BY <1>4, <2>1, <2>2, <2>3
<1>14. Sound(u)
  <2>1. /\ \A j \in DOMAIN u : /\ g[j] \in DOMAIN t /\ u[j].id = t[g[j]].id
                                /\ u[j].dir = t[g[j]].dir
        /\ \A j \in DOMAIN u : \A k \in DOMAIN u : g[j] = g[k] => j = k
    BY <1>1, <1>8, <1>11, <1>12
  <2> QED
    BY <2>1, SoundPart
<1>15. FilesOf(u) = FilesOf(t)
  <2>1. ASSUME NEW f PROVE f \in FilesOf(u) <=> f \in FilesOf(t)
    <3>1. f \in FilesOf(u) => f \in FilesOf(t)
      BY <1>1, <1>8, <1>11, FilesAre
    <3>2. ASSUME f \in FilesOf(t) PROVE f \in FilesOf(u)
      <4>1. PICK k \in 1 .. n : ~ t[k].dir /\ t[k].id = f
        BY <1>1, <3>2, FilesAre
      <4>2. PICK j \in 1 .. n : g[j] = k
        BY <1>13, <4>1
      <4>3. ~ u[j].dir /\ u[j].id = f
        BY <1>11, <4>1, <4>2
      <4> QED
        BY <1>8, <4>2, <4>3, FilesAre
    <3> QED
      BY <3>1, <3>2
  <2> QED
    BY <2>1
<1> QED
  BY <1>7, <1>8, <1>9, <1>14, <1>15

-----------------------------------------------------------------------------
(* The steps, by what they do to requests on their way.                     *)

LEMMA LoadPends ==
  ASSUME TypeInv, NEW p \in Pages, NEW u, NEW r, LoadStep(p, u, r)
  PROVE  \E o1 : Forgotten(out, o1) /\ Sent(o1, out', r)
<1>1. PICK o : o = out
  OBVIOUS
<1>2. o \in [Pages -> Seq(Requests)]
  BY <1>1 DEF TypeInv, TypeOK
<1>3. PICK o1 : o1 = [o EXCEPT ![p] = u]
  OBVIOUS
<1>4. Forgotten(o, o1) /\ o1 \in [Pages -> Seq(Requests)]
  BY <1>1, <1>2, <1>3, LoadForgets DEF LoadStep
<1>5. out' = [o1 EXCEPT ![p] = Append(o1[p], r)]
  BY <1>1, <1>2, <1>3 DEF LoadStep, PageStep
<1>6. Sent(o1, out', r)
  BY <1>4, <1>5, AppendSends DEF LoadStep
<1> QED
  BY <1>1, <1>4, <1>6

LEMMA AnswerPends ==
  ASSUME TypeInv, NEW p \in Pages, NEW i \in DOMAIN out[p], NEW u, NEW r, NEW t,
         NEW base, AnswerStep(p, i, u, r, t, base)
  PROVE  \E o1 : Removed(out, o1, out[p][i]) /\ Sent(o1, out', r)
<1>1. PICK o : o = out
  OBVIOUS
<1>2. o \in [Pages -> Seq(Requests)]
  BY <1>1 DEF TypeInv, TypeOK
<1>3. PICK o1 : o1 = [o EXCEPT ![p] = u]
  OBVIOUS
<1>4. Removed(o, o1, o[p][i]) /\ o1 \in [Pages -> Seq(Requests)]
  BY <1>1, <1>2, <1>3, RemovalRemoves DEF AnswerStep
<1>5. out' = [o1 EXCEPT ![p] = Append(o1[p], r)]
  BY <1>1, <1>2, <1>3 DEF AnswerStep, PageStep
<1>6. Sent(o1, out', r)
  BY <1>4, <1>5, AppendSends DEF AnswerStep, IsPost
<1> QED
  BY <1>1, <1>4, <1>6

LEMMA GonePends ==
  ASSUME TypeInv, NEW p \in Pages, NEW i \in DOMAIN out[p], NEW u, GoneStep(p, i, u)
  PROVE  Removed(out, out', out[p][i]) /\ out[p][i] \in Requests
<1>1. out \in [Pages -> Seq(Requests)]
  BY DEF TypeInv, TypeOK
<1>2. out' = [out EXCEPT ![p] = u]
  BY DEF GoneStep, PageStep
<1>3. Removed(out, out', out[p][i])
  BY <1>1, <1>2, RemovalRemoves DEF GoneStep
<1> QED
  BY <1>1, <1>3, ElementOfSeq

LEMMA SendPends ==
  ASSUME TypeInv, NEW p \in Pages, NEW r \in Requests, NEW t,
         PageStep(p, Append(out[p], r), t)
  PROVE  Sent(out, out', r)
<1>1. out \in [Pages -> Seq(Requests)]
  BY DEF TypeInv, TypeOK
<1> QED
  BY <1>1, AppendSends DEF PageStep

LEMMA DeletePends ==
  ASSUME TypeInv, NEW p \in Pages, NEW d, NEW r, NEW t, DeleteStep(p, d, r, t)
  PROVE  \E o1 : Sent(out, o1, d) /\ Sent(o1, out', r)
<1>1. PICK o : o = out
  OBVIOUS
<1>2. o \in [Pages -> Seq(Requests)] /\ d \in Requests /\ r \in Requests
  BY <1>1 DEF TypeInv, TypeOK, DeleteStep, IsPost
<1>3. PICK o1 : o1 = [o EXCEPT ![p] = Append(o[p], d)]
  OBVIOUS
<1>4. Sent(o, o1, d)
  BY <1>2, <1>3, AppendSends
<1>5. o1 \in [Pages -> Seq(Requests)]
  BY <1>2, <1>3, AppendProperties
<1>6. out' = [o1 EXCEPT ![p] = Append(o1[p], r)]
  BY <1>1, <1>2, <1>3 DEF DeleteStep, PageStep
<1>7. Sent(o1, out', r)
  BY <1>2, <1>5, <1>6, AppendSends
<1> QED
  BY <1>1, <1>4, <1>7

-----------------------------------------------------------------------------
(* What keeps the files.                                                    *)

\* The trees are sound if those that are new are, and ids are used once.
LEMMA TreesStaySound ==
  ASSUME TypeInv, SoundTrees, NEW p \in Pages, NEW s, NEW t, PageStep(p, s, t),
         files' \in Trees => Around(files'),
         \A x \in Trees : Pends(out', Posting(x)) => Around(x) \/ x = t,
         next' \in Nat, next <= next',
         \A f \in kept' : f \in kept \/ Pends(out, UploadsOf(f)),
         \A f \in Nat : Pends(out', UploadsOf(f)) =>
                           Pends(out, UploadsOf(f)) \/ next <= f,
         t \in Trees => Around(t) \/ Sound(t)'
  PROVE  SoundTrees'
<1>1. ASSUME NEW x \in Trees, Sound(x) PROVE Sound(x)'
  <2>1. \A i \in DOMAIN x : x[i].id \in Nat
    BY TreeIds
  <2>2. next \in Nat
    BY PageTypes
  <2>3. ASSUME NEW i \in DOMAIN x
        PROVE  /\ x[i].id < next'
               /\ x[i].dir => x[i].id \notin kept'
               /\ ~ Pends(out', UploadsOf(x[i].id))
    <3>1. /\ x[i].id < next /\ x[i].id \in Nat
          /\ x[i].dir => x[i].id \notin kept
          /\ ~ Pends(out, UploadsOf(x[i].id))
      BY <1>1, <2>1 DEF Sound
    <3> QED
      BY <2>2, <3>1
  <2> QED
    BY <1>1, <2>3 DEF Sound
<1>2. ASSUME NEW x \in Trees, Around(x)' PROVE Around(x) \/ x = t
  <2>1. \A q \in Pages : tree'[q] = IF q = p THEN t ELSE tree[q]
    BY DEF PageStep, TypeInv, TypeOK
  <2>2. x = files' \/ (\E q \in Pages : x = tree'[q]) \/ Pends(out', Posting(x))
    BY <1>2 DEF Around
  <2>3. (\E q \in Pages : x = tree[q]) => Around(x)
    BY DEF Around
  <2> QED
    BY <2>1, <2>2, <2>3
<1>3. ASSUME NEW x \in Trees, Around(x)' PROVE Sound(x)'
  <2>1. Around(x) \/ x = t
    BY <1>2, <1>3
  <2>2. Around(x) => Sound(x)'
    BY <1>1 DEF SoundTrees
  <2> QED
    BY <1>3, <2>1, <2>2
<1> QED
  BY <1>3 DEF SoundTrees

\* The trees a page has and posts are around.
LEMMA AroundPage ==
  ASSUME TypeInv, Files, NEW p \in Pages
  PROVE  /\ Around(tree[p]) /\ Around(files) /\ files \in Trees
         /\ tree[p] \in Trees => Sound(tree[p])
         /\ Sound(files)
         /\ \A i \in DOMAIN out[p] :
               out[p][i].kind = "tree" => /\ Around(out[p][i].tree)
                                          /\ Around(out[p][i].base)
                                          /\ out[p][i].tree \in Trees
<1>1. Around(tree[p]) /\ Around(files)
  BY DEF Around
<1>2. files \in Trees
  BY PageTypes DEF Files
<1>3. Sound(files) /\ (tree[p] \in Trees => Sound(tree[p]))
  BY <1>1, <1>2 DEF Files, SoundTrees
<1>4. ASSUME NEW i \in DOMAIN out[p], out[p][i].kind = "tree"
      PROVE  /\ Around(out[p][i].tree) /\ Around(out[p][i].base)
             /\ out[p][i].tree \in Trees
  <2>1. PICK r : r = out[p][i]
    OBVIOUS
  <2>2. r \in Requests
    BY <2>1, PageTypes, ElementOfSeq
  <2>3. r \in Posting(r.tree) /\ r \in Posting(r.base) /\ r.tree \in Trees
    BY <1>4, <2>1, <2>2, RequestKinds, RequestFields
  <2>4. Pends(out, Posting(r.tree)) /\ Pends(out, Posting(r.base))
    BY <2>1, <2>3 DEF Pends
  <2> QED
    BY <2>1, <2>3, <2>4 DEF Around
<1> QED
  BY <1>1, <1>2, <1>3, <1>4

\* A file whose content is on its way is in no tree yet.
LEMMA UploadIsNew ==
  ASSUME TypeInv, Files, NEW f, Pends(out, UploadsOf(f))
  PROVE  /\ f \notin FilesOf(files)
         /\ ~ Pends(out, AddsOf(f)) /\ ~ Pends(out, DelsOf(f))
<1>1. ASSUME NEW t \in Trees, Around(t) PROVE f \notin FilesOf(t)
  BY <1>1 DEF Files, SoundTrees, Sound, FilesOf
<1>2. files \in Trees /\ Around(files)
  BY DEF TypeInv, TypeOK, Files, Around
<1>3. ASSUME NEW p \in Pages, NEW i \in DOMAIN out[p]
      PROVE  out[p][i] \notin AddsOf(f) \cup DelsOf(f)
  <2>1. PICK r : r = out[p][i]
    OBVIOUS
  <2>2. r \in Requests
    BY <2>1, PageTypes, ElementOfSeq
  <2>3. r.kind = "tree" => /\ Around(r.tree) /\ Around(r.base)
                           /\ r.tree \in Trees /\ r.base \in Trees
    BY <2>1, <2>2, AroundPage, RequestFields
  <2> QED
    BY <1>1, <2>1, <2>2, <2>3, RequestKinds
<1> QED
  BY <1>1, <1>2, <1>3 DEF Pends

\* Which sets a request is in that Account and Content speak of.
Others(f, r) == /\ r \notin AddsOf(f) /\ r \notin DelsOf(f)
                /\ r \notin UploadsOf(f) /\ r \notin DeletesOf(f)

\* A file no step is about.
LEMMA FileStays ==
  ASSUME TypeInv, NEW f \in Nat, Account(f), Content(f),
         f \in FilesOf(files') <=> f \in FilesOf(files),
         f \in kept' <=> f \in kept, f \in cells' <=> f \in cells,
         next' \in Nat, next <= next',
         Pends(out', AddsOf(f)) <=> Pends(out, AddsOf(f)),
         Pends(out', DelsOf(f)) <=> Pends(out, DelsOf(f)),
         Once(out, AddsOf(f)) => Once(out', AddsOf(f)),
         Once(out, UploadsOf(f)) => Once(out', UploadsOf(f)),
         Pends(out', UploadsOf(f)) => Pends(out, UploadsOf(f)),
         Pends(out', DeletesOf(f)) => Pends(out, DeletesOf(f))
  PROVE  Account(f)' /\ Content(f)'
<1>1. Account(f)'
  BY DEF Account
<1>2. next \in Nat
  BY DEF TypeInv, TypeOK
<1>3. f < next => f < next'
  BY <1>2
<1>4. Content(f)'
  BY <1>3 DEF Content
<1> QED
  BY <1>1, <1>4

-----------------------------------------------------------------------------
(* What keeps the files: the steps.                                         *)

LEMMA LoadKeepsFiles ==
  ASSUME TypeInv, Files, NEW p \in Pages, Load(p)
  PROVE  Files'
<1>1. PICK u, r : LoadStep(p, u, r)
  BY LoadSteps
<1>2. PICK o1 : Forgotten(out, o1) /\ Sent(o1, out', r)
  BY <1>1, LoadPends
<1>3. r \in Requests /\ r.kind = "list" /\ PageStep(p, Append(u, r), NoTree)
  BY <1>1 DEF LoadStep
<1>4. UNCHANGED <<files, cells, next, kept>>
  BY DEF Load
<1>5. ASSUME NEW P, r \notin P
      PROVE  /\ Pends(out', P) => Pends(out, P)
             /\ Once(out, P) => Once(out', P)
             /\ (\A x \in P : x.kind \in {"tree", "delete"}) =>
                   (Pends(out, P) => Pends(out', P))
  BY <1>2, <1>5 DEF Forgotten, Sent
<1>6. \A f : /\ r \notin AddsOf(f) /\ r \notin DelsOf(f) /\ r \notin UploadsOf(f)
             /\ r \notin DeletesOf(f) /\ r \notin DirUploads /\ r \notin Posting(f)
  BY <1>3, RequestKinds
<1>7. \A f : /\ \A x \in AddsOf(f) : x.kind \in {"tree", "delete"}
             /\ \A x \in DelsOf(f) : x.kind \in {"tree", "delete"}
  BY DEF AddsOf, DelsOf
<1>8. \A f \in Nat : Account(f)' /\ Content(f)'
  <2> SUFFICES ASSUME NEW f \in Nat PROVE Account(f)' /\ Content(f)'
    OBVIOUS
  <2>1. Account(f) /\ Content(f) /\ next \in Nat
    BY DEF Files, TypeInv, TypeOK
  <2>2. Pends(out', AddsOf(f)) <=> Pends(out, AddsOf(f))
    BY <1>5, <1>6, <1>7
  <2>3. Pends(out', DelsOf(f)) <=> Pends(out, DelsOf(f))
    BY <1>5, <1>6, <1>7
  <2>4. /\ Once(out, AddsOf(f)) => Once(out', AddsOf(f))
        /\ Once(out, UploadsOf(f)) => Once(out', UploadsOf(f))
        /\ Pends(out', UploadsOf(f)) => Pends(out, UploadsOf(f))
        /\ Pends(out', DeletesOf(f)) => Pends(out, DeletesOf(f))
    BY <1>5, <1>6
  <2> QED
    BY <1>4, <2>1, <2>2, <2>3, <2>4, FileStays
<1>9. SoundTrees'
  <2>1. \A x \in Trees : Pends(out', Posting(x)) => Around(x)
    BY <1>5, <1>6 DEF Around
  <2>2. \A f \in Nat : Pends(out', UploadsOf(f)) => Pends(out, UploadsOf(f))
    BY <1>5, <1>6
  <2>3. NoTree \notin Trees
    BY NoTreeAssumption
  <2>4. Around(files) /\ next \in Nat /\ SoundTrees
    BY DEF Around, Files, TypeInv, TypeOK
  <2>5. next' \in Nat /\ next <= next' /\ files' = files /\ kept' = kept
    BY <1>4, <2>4
  <2> QED
    BY <1>3, <2>1, <2>2, <2>3, <2>4, <2>5, TreesStaySound
<1>10. ~ Pends(out', DirUploads)
  BY <1>5, <1>6 DEF Files
<1> QED
  BY <1>4, <1>8, <1>9, <1>10 DEF Files

\* A new content is on its way.
LEMMA UploadKeepsFiles ==
  ASSUME TypeInv, Files, NEW p \in Pages, NEW name \in Names,
         NEW at \in DirsOf(tree[p]), Upload(p, name, at)
  PROVE  Files'
<1>1. PICK r : UploadStep(p, r)
  BY UploadSteps
<1>2. /\ r \in Requests /\ r.kind = "upload" /\ r.entry.id = next /\ ~ r.entry.dir
      /\ PageStep(p, Append(out[p], r), tree[p])
  BY <1>1 DEF UploadStep
<1>3. Sent(out, out', r)
  BY <1>2, SendPends
<1>4. UNCHANGED <<files, cells, kept>> /\ next' = next + 1 /\ next \in Nat
  BY DEF Upload, TypeInv, TypeOK
<1>5. \A f : /\ r \notin AddsOf(f) /\ r \notin DelsOf(f)
             /\ r \in UploadsOf(f) <=> f = next
             /\ r \notin DeletesOf(f) /\ r \notin DirUploads /\ r \notin Posting(f)
  BY <1>2, RequestKinds
<1>6. ASSUME NEW P, r \notin P
      PROVE  /\ Pends(out', P) <=> Pends(out, P)
             /\ Once(out, P) => Once(out', P)
  BY <1>3, <1>6 DEF Sent
<1>7. ASSUME NEW f \in Nat PROVE Account(f)' /\ Content(f)'
  <2>1. Account(f) /\ Content(f)
    BY DEF Files
  <2>2. /\ Pends(out', AddsOf(f)) <=> Pends(out, AddsOf(f))
        /\ Pends(out', DelsOf(f)) <=> Pends(out, DelsOf(f))
        /\ Pends(out', DeletesOf(f)) <=> Pends(out, DeletesOf(f))
        /\ Once(out, AddsOf(f)) => Once(out', AddsOf(f))
    BY <1>5, <1>6
  <2>3. CASE f # next
    <3>1. /\ Pends(out', UploadsOf(f)) <=> Pends(out, UploadsOf(f))
          /\ Once(out, UploadsOf(f)) => Once(out', UploadsOf(f))
      BY <1>5, <1>6, <2>3
    <3>2. next' \in Nat /\ next <= next'
      BY <1>4
    <3> QED
      BY <1>4, <2>1, <2>2, <3>1, <3>2, FileStays
  <2>4. CASE f = next
    <3>1. Account(f)'
      BY <1>4, <2>1, <2>2 DEF Account
    <3>2. f \notin kept /\ ~ Pends(out, UploadsOf(f)) /\ ~ Pends(out, DeletesOf(f))
      BY <1>4, <2>1, <2>4 DEF Content
    <3>3. Once(out', UploadsOf(f))
      BY <1>3, <2>1, <3>2 DEF Sent, Content
    <3>4. f < next'
      BY <1>4, <2>4
    <3>5. Content(f)'
      BY <1>4, <2>2, <3>2, <3>3, <3>4 DEF Content
    <3> QED
      BY <3>1, <3>5
  <2> QED
    BY <2>3, <2>4
<1>8. SoundTrees'
  <2>1. \A x \in Trees : Pends(out', Posting(x)) => Around(x)
    BY <1>5, <1>6 DEF Around
  <2>2. \A f \in Nat : Pends(out', UploadsOf(f)) =>
                          Pends(out, UploadsOf(f)) \/ next <= f
    <3> SUFFICES ASSUME NEW f \in Nat, Pends(out', UploadsOf(f)), f # next
                 PROVE  Pends(out, UploadsOf(f))
      BY <1>4
    <3> QED
      BY <1>5, <1>6
  <2>3. Around(files) /\ Around(tree[p]) /\ SoundTrees
    BY AroundPage DEF Files
  <2>4. next' \in Nat /\ next <= next' /\ files' = files /\ kept' = kept
    BY <1>4
  <2> QED
    BY <1>2, <2>1, <2>2, <2>3, <2>4, TreesStaySound
<1>9. ~ Pends(out', DirUploads)
  BY <1>5, <1>6 DEF Files
<1> QED
  BY <1>4, <1>7, <1>8, <1>9 DEF Files

\* The page has a tree with the same files, and posts it.
LEMMA ChangeKeepsFiles ==
  ASSUME TypeInv, Files, NEW p \in Pages, NEW r, NEW t, ChangeStep(p, r, t),
         FilesOf(t) = FilesOf(tree[p]),
         UNCHANGED <<files, cells, kept>>, next' \in Nat, next <= next',
         Sound(t)' \/ (Sound(t) /\ next' = next)
  PROVE  Files'
<1>1. /\ IsPost(r, p, t, tree[p]) /\ PageStep(p, Append(out[p], r), t)
      /\ tree[p] \in Trees /\ t \in Trees
  BY DEF ChangeStep
<1>2. /\ r \in Requests /\ r.kind = "tree" /\ r.tree = t /\ r.base = tree[p]
  BY <1>1 DEF IsPost
<1>3. Sent(out, out', r)
  BY <1>1, <1>2, SendPends
<1>4. \A f : /\ r \notin AddsOf(f) /\ r \notin DelsOf(f) /\ r \notin UploadsOf(f)
             /\ r \notin DeletesOf(f) /\ r \notin DirUploads
             /\ r \in Posting(f) <=> f = t \/ f = tree[p]
  BY <1>2, RequestKinds
<1>5. ASSUME NEW P, r \notin P
      PROVE  /\ Pends(out', P) <=> Pends(out, P)
             /\ Once(out, P) => Once(out', P)
  BY <1>3, <1>5 DEF Sent
<1>6. ASSUME NEW f \in Nat PROVE Account(f)' /\ Content(f)'
  <2>1. Account(f) /\ Content(f)
    BY DEF Files
  <2>2. /\ Pends(out', AddsOf(f)) <=> Pends(out, AddsOf(f))
        /\ Pends(out', DelsOf(f)) <=> Pends(out, DelsOf(f))
        /\ Pends(out', UploadsOf(f)) <=> Pends(out, UploadsOf(f))
        /\ Pends(out', DeletesOf(f)) <=> Pends(out, DeletesOf(f))
        /\ Once(out, AddsOf(f)) => Once(out', AddsOf(f))
        /\ Once(out, UploadsOf(f)) => Once(out', UploadsOf(f))
    BY <1>4, <1>5
  <2> QED
    BY <2>1, <2>2, FileStays
<1>7. SoundTrees'
  <2>1. Around(files) /\ Around(tree[p]) /\ SoundTrees
    BY AroundPage DEF Files
  <2>2. \A x \in Trees : Pends(out', Posting(x)) => Around(x) \/ x = t
    BY <1>4, <1>5, <2>1 DEF Around
  <2>3. \A f \in Nat : Pends(out', UploadsOf(f)) => Pends(out, UploadsOf(f))
    BY <1>4, <1>5
  <2>4. ASSUME Sound(t), next' = next PROVE Sound(t)'
    <3>1. \A i \in DOMAIN t : t[i].id \in Nat
      BY <1>1, TreeIds
    <3> QED
      BY <2>3, <2>4, <3>1 DEF Sound
  <2> QED
    BY <1>1, <2>1, <2>2, <2>3, <2>4, TreesStaySound
<1>8. ~ Pends(out', DirUploads)
  BY <1>4, <1>5 DEF Files
<1> QED
  BY <1>6, <1>7, <1>8 DEF Files

LEMMA CreateDirectoryKeepsFiles ==
  ASSUME TypeInv, Files, NEW p \in Pages, tree[p] # NoTree,
         NEW at \in DirsOf(tree[p]), CreateDirectory(p, at)
  PROVE  Files'
<1>1. PICK r, e : /\ ChangeStep(p, r, AddEntry(tree[p], e))
                  /\ e \in Entries /\ e.id = next /\ e.dir
  BY UserSteps
<1>2. PICK t : t = AddEntry(tree[p], e)
  OBVIOUS
<1>3. tree[p] \in Trees /\ Sound(tree[p]) /\ next \in Nat
  BY AroundPage, PageTypes
<1>4. PICK n \in Nat : /\ DOMAIN tree[p] = 1 .. n /\ DOMAIN t = 1 .. n + 1
                       /\ t[n + 1] = e /\ \A i \in 1 .. n : t[i] = tree[p][i]
  BY <1>1, <1>2, <1>3, FilesOfAdded
<1>5. FilesOf(t) = FilesOf(tree[p])
  <2>1. PICK u : u = tree[p]
    OBVIOUS
  <2>2. FilesOf(AddEntry(u, e)) = FilesOf(u) \cup (IF e.dir THEN {} ELSE {e.id})
    BY <1>1, <1>3, <2>1, FilesOfAdded
  <2>3. FilesOf(AddEntry(u, e)) = FilesOf(u)
    BY <1>1, <2>2
  <2> QED
    BY <1>2, <2>1, <2>3
<1>6. UNCHANGED <<files, cells, kept>> /\ next' = next + 1
  BY DEF CreateDirectory
<1>7. Sent(out, out', r) /\ \A f : r \notin UploadsOf(f)
  <2>1. r \in Requests /\ r.kind = "tree" /\ PageStep(p, Append(out[p], r), t)
    BY <1>1, <1>2 DEF ChangeStep, IsPost
  <2> QED
    BY <2>1, SendPends, RequestKinds
<1>8. \A f : Pends(out', UploadsOf(f)) => Pends(out, UploadsOf(f))
  BY <1>7 DEF Sent
<1>9. Sound(t)'
  <2>1. \A i \in 1 .. n + 1 : i = n + 1 \/ i \in 1 .. n
    BY <1>4
  <2>2. \A i \in 1 .. n : /\ t[i].id = tree[p][i].id /\ t[i].dir = tree[p][i].dir
                          /\ t[i].id \in Nat /\ t[i].id < next
    BY <1>3, <1>4, TreeIds DEF Sound
  <2>3. t[n + 1].id = next
    BY <1>1, <1>4
  <2>4. ASSUME NEW i \in 1 .. n + 1, NEW j \in 1 .. n + 1, t[i].id = t[j].id
        PROVE  i = j
    <3>1. CASE i = n + 1 /\ j = n + 1
      BY <3>1
    <3>2. CASE i = n + 1 /\ j \in 1 .. n
      BY <1>3, <2>2, <2>3, <2>4, <3>2
    <3>3. CASE i \in 1 .. n /\ j = n + 1
      BY <1>3, <2>2, <2>3, <2>4, <3>3
    <3>4. CASE i \in 1 .. n /\ j \in 1 .. n
      <4>1. tree[p][i].id = tree[p][j].id
        BY <2>2, <2>4, <3>4
      <4> QED
        BY <1>3, <1>4, <3>4, <4>1 DEF Sound
    <3> QED
      BY <2>1, <3>1, <3>2, <3>3, <3>4
  <2>5. ASSUME NEW i \in 1 .. n
        PROVE  /\ t[i].id < next'
               /\ t[i].dir => t[i].id \notin kept'
               /\ ~ Pends(out', UploadsOf(t[i].id))
    <3>1. /\ tree[p][i].dir => tree[p][i].id \notin kept
          /\ ~ Pends(out, UploadsOf(tree[p][i].id))
      BY <1>3, <1>4 DEF Sound
    <3> QED
      BY <1>3, <1>6, <1>8, <2>2, <3>1
  <2>6. next < next' /\ next \notin kept' /\ ~ Pends(out', UploadsOf(next))
    <3>1. Content(next)
      BY <1>3 DEF Files
    <3>2. ~ (next < next) /\ next < next'
      BY <1>3, <1>6
    <3> QED
      BY <1>6, <1>8, <3>1, <3>2 DEF Content
  <2> QED
    BY <1>4, <2>1, <2>3, <2>4, <2>5, <2>6 DEF Sound
<1>10. next' \in Nat /\ next <= next'
  BY <1>3, <1>6
<1> QED
  BY <1>1, <1>2, <1>5, <1>6, <1>9, <1>10, ChangeKeepsFiles

LEMMA RelocateKeepsFiles ==
  ASSUME TypeInv, Files, NEW p \in Pages, tree[p] # NoTree,
         NEW i \in DOMAIN tree[p], NEW new \in Entries,
         new.id = tree[p][i].id, new.dir = tree[p][i].dir,
         Relocate(p, i, new), harm' = {}
  PROVE  Files'
<1>1. PICK r : ChangeStep(p, r, Replace(tree[p], tree[p][i], new))
  BY UserSteps
<1>2. PICK t : t = Replace(tree[p], tree[p][i], new)
  OBVIOUS
<1>3. tree[p] \in Trees /\ Sound(tree[p]) /\ next \in Nat
  BY AroundPage, PageTypes
<1>4. UNCHANGED <<files, cells, kept, next>>
  BY DEF Relocate
<1>5. /\ First(tree[p], tree[p][i].at, tree[p][i].name) = i
      /\ ~ (Len(t) < Len(tree[p]))
  BY <1>2 DEF Relocate, HarmOfRemoval
<1>6. FilesOf(t) = FilesOf(tree[p]) /\ Sound(t)
  BY <1>2, <1>3, <1>5, FilesOfReplaced
<1>7. next' \in Nat /\ next <= next'
  BY <1>3, <1>4
<1> QED
  BY <1>1, <1>2, <1>4, <1>6, <1>7, ChangeKeepsFiles

\* A file is deleted: its post takes it out of the list, its deletion removes
\* the content.
LEMMA DeleteKeepsFiles ==
  ASSUME TypeInv, Files, NEW p \in Pages, tree[p] # NoTree,
         NEW i \in DOMAIN tree[p], Delete(p, i), harm' = {}
  PROVE  Files'
<1>1. PICK e : e = tree[p][i]
  OBVIOUS
<1>2. PICK t : t = RemoveEntry(tree[p], e.at, e.name)
  OBVIOUS
<1>3. tree[p] \in Trees /\ Sound(tree[p]) /\ Around(tree[p]) /\ Around(files)
      /\ next \in Nat
  BY AroundPage, PageTypes
<1>4. First(tree[p], e.at, e.name) = i
  BY <1>1 DEF Delete, HarmOfRemoval
<1>5. t = RemoveAt(tree[p], i)
  BY <1>2, <1>4 DEF RemoveEntry
<1>6. /\ Sound(t) /\ t \in Trees /\ FilesOf(t) = FilesOf(tree[p]) \ {e.id}
      /\ ~ e.dir => e.id \in FilesOf(tree[p])
      /\ e.dir => e.id \notin FilesOf(tree[p])
  BY <1>1, <1>3, <1>5, FilesOfRemoved
<1>7. UNCHANGED <<files, cells, next>> /\ kept' = kept \ {e.id}
  BY <1>1 DEF Delete
<1>8. /\ e.id \in Nat /\ e.id < next /\ ~ Pends(out, UploadsOf(e.id))
      /\ e.dir => e.id \notin kept
  BY <1>1, <1>3, TreeIds DEF Sound
<1>9. next' \in Nat /\ next <= next'
  BY <1>3, <1>7
<1>10. CASE e.dir
  <2>1. PICK r : ChangeStep(p, r, t)
    BY <1>1, <1>2, <1>10, UserSteps
  <2>2. FilesOf(t) = FilesOf(tree[p]) /\ kept' = kept
    BY <1>6, <1>7, <1>8, <1>10
  <2> QED
    BY <1>6, <1>7, <1>9, <2>1, <2>2, ChangeKeepsFiles
<1>11. CASE ~ e.dir
  <2>1. PICK d, r : DeleteStep(p, d, r, t) /\ d.id = e.id
    BY <1>1, <1>2, <1>11, UserSteps
  <2>2. PICK o1 : Sent(out, o1, d) /\ Sent(o1, out', r)
    BY <2>1, DeletePends
  <2>3. /\ d \in Requests /\ d.kind = "delete" /\ r \in Requests
        /\ r.kind = "tree" /\ r.tree = t /\ r.base = tree[p]
        /\ PageStep(p, Append(Append(out[p], d), r), t)
    BY <2>1 DEF DeleteStep, IsPost
  <2>4. \A f : /\ d \notin AddsOf(f) /\ d \notin DelsOf(f) /\ d \notin UploadsOf(f)
               /\ d \in DeletesOf(f) <=> f = e.id
               /\ d \notin DirUploads /\ d \notin Posting(f)
    BY <2>1, <2>3, RequestKinds
  <2>5. \A f : /\ r \notin AddsOf(f) /\ r \notin UploadsOf(f) /\ r \notin DeletesOf(f)
               /\ r \in DelsOf(f) <=> f = e.id
               /\ r \notin DirUploads
               /\ r \in Posting(f) <=> f = t \/ f = tree[p]
    BY <1>6, <1>11, <2>3, RequestKinds
  <2>6. ASSUME NEW P
        PROVE  /\ Pends(out', P) <=> Pends(out, P) \/ d \in P \/ r \in P
               /\ d \notin P /\ r \notin P /\ Once(out, P) => Once(out', P)
    BY <2>2 DEF Sent
  <2>7. ASSUME NEW f \in Nat PROVE Account(f)' /\ Content(f)'
    <3>1. Account(f) /\ Content(f)
      BY DEF Files
    <3>2. /\ Pends(out', AddsOf(f)) <=> Pends(out, AddsOf(f))
          /\ Pends(out', DelsOf(f)) <=> Pends(out, DelsOf(f)) \/ f = e.id
          /\ Pends(out', UploadsOf(f)) <=> Pends(out, UploadsOf(f))
          /\ Pends(out', DeletesOf(f)) <=> Pends(out, DeletesOf(f)) \/ f = e.id
          /\ Once(out, AddsOf(f)) => Once(out', AddsOf(f))
          /\ Once(out, UploadsOf(f)) => Once(out', UploadsOf(f))
      BY <2>4, <2>5, <2>6
    <3>3. f \in kept' <=> f \in kept /\ f # e.id
      BY <1>7
    <3>4. Account(f)'
      BY <1>7, <3>1, <3>2, <3>3 DEF Account
    <3>5. Content(f)'
      BY <1>7, <1>8, <3>1, <3>2, <3>3 DEF Content
    <3> QED
      BY <3>4, <3>5
  <2>8. SoundTrees'
    <3>1. \A x \in Trees : Pends(out', Posting(x)) => Around(x) \/ x = t
      BY <1>3, <2>4, <2>5, <2>6 DEF Around
    <3>2. \A f \in Nat : Pends(out', UploadsOf(f)) => Pends(out, UploadsOf(f))
      BY <2>4, <2>5, <2>6
    <3>3. Sound(t)'
      <4>1. \A j \in DOMAIN t : t[j].id \in Nat
        BY <1>6, TreeIds
      <4> QED
        BY <1>6, <1>7, <3>2, <4>1 DEF Sound
    <3>4. SoundTrees
      BY DEF Files
    <3> QED
      BY <1>3, <1>7, <1>9, <2>3, <3>1, <3>2, <3>3, <3>4, TreesStaySound
  <2>9. ~ Pends(out', DirUploads)
    BY <2>4, <2>5, <2>6 DEF Files
  <2> QED
    BY <1>7, <2>7, <2>8, <2>9 DEF Files
<1> QED
  BY <1>10, <1>11

\* A request is gone that was about no file.
LEMMA GoneKeepsFiles ==
  ASSUME TypeInv, Files, NEW p \in Pages, NEW i \in DOMAIN out[p],
         NEW u, GoneStep(p, i, u), out[p][i].kind \in {"list", "delete"},
         UNCHANGED <<files, next, kept>>,
         \A f \in kept : f \in cells'
  PROVE  Files'
<1>1. PICK r : r = out[p][i]
  OBVIOUS
<1>2. Removed(out, out', r) /\ r \in Requests /\ PageStep(p, u, tree[p])
  BY <1>1, GonePends DEF GoneStep
<1>3. \A f : r \notin AddsOf(f) /\ r \notin DelsOf(f)
  BY <1>1, <1>2, RequestKinds
<1>4. ASSUME NEW P
      PROVE  /\ Pends(out', P) => Pends(out, P)
             /\ r \notin P => (Pends(out, P) => Pends(out', P))
             /\ Once(out, P) => Once(out', P)
  BY <1>2 DEF Removed
<1>5. ASSUME NEW f \in Nat PROVE Account(f)' /\ Content(f)'
  <2>1. Account(f) /\ Content(f)
    BY DEF Files
  <2>2. /\ Pends(out', AddsOf(f)) <=> Pends(out, AddsOf(f))
        /\ Pends(out', DelsOf(f)) <=> Pends(out, DelsOf(f))
        /\ Pends(out', UploadsOf(f)) => Pends(out, UploadsOf(f))
        /\ Pends(out', DeletesOf(f)) => Pends(out, DeletesOf(f))
        /\ Once(out, AddsOf(f)) => Once(out', AddsOf(f))
        /\ Once(out, UploadsOf(f)) => Once(out', UploadsOf(f))
    BY <1>3, <1>4
  <2>3. Account(f)'
    BY <2>1, <2>2 DEF Account
  <2>4. Content(f)'
    BY <2>1, <2>2 DEF Content
  <2> QED
    BY <2>3, <2>4
<1>6. SoundTrees'
  <2>1. Around(files) /\ Around(tree[p]) /\ SoundTrees /\ next \in Nat
    BY AroundPage, PageTypes DEF Files
  <2>2. \A x \in Trees : Pends(out', Posting(x)) => Around(x)
    BY <1>4 DEF Around
  <2>3. next' \in Nat /\ next <= next' /\ files' = files /\ kept' = kept
    BY <2>1
  <2> QED
    BY <1>2, <1>4, <2>1, <2>2, <2>3, TreesStaySound
<1>7. ~ Pends(out', DirUploads)
  BY <1>4 DEF Files
<1> QED
  BY <1>5, <1>6, <1>7 DEF Files

LEMMA RefuseKeepsFiles ==
  ASSUME TypeInv, Files, NEW p \in Pages, NEW i \in DOMAIN out[p],
         Refuse(p, i), harm' = {}
  PROVE  Files'
<1>1. PICK u : GoneStep(p, i, u)
  BY GoneSteps DEF Refuse
<1>2. out[p][i].kind = "list"
  BY DEF Refuse
<1>3. UNCHANGED <<files, next, kept>> /\ cells' = cells
  BY DEF Refuse, Arrives
<1>4. \A f \in kept : f \in cells
  BY PageTypes DEF Files, Content
<1> QED
  BY <1>1, <1>2, <1>3, <1>4, GoneKeepsFiles

\* The content of a file is deleted that the user does not have any more.
LEMMA DeleteFileKeepsFiles ==
  ASSUME TypeInv, Files, NEW p \in Pages, NEW i \in DOMAIN out[p],
         DeleteFile(p, i), harm' = {}
  PROVE  Files'
<1>1. PICK u : GoneStep(p, i, u)
  BY GoneSteps DEF DeleteFile
<1>2. PICK r : r = out[p][i]
  OBVIOUS
<1>3. r.kind = "delete" /\ r \in Requests
  BY <1>2, PageTypes, ElementOfSeq DEF DeleteFile, Arrives
<1>4. UNCHANGED <<files, next, kept>> /\ cells' = cells \ {r.id}
  BY <1>2 DEF DeleteFile, Arrives
<1>5. r \in DeletesOf(r.id) /\ r.id \in Nat
  BY <1>3, RequestKinds, RequestFields
<1>6. Pends(out, DeletesOf(r.id))
  BY <1>2, <1>5 DEF Pends
<1>7. \A f \in kept : f \in cells /\ ~ Pends(out, DeletesOf(f))
  BY PageTypes DEF Files, Content
<1>8. \A f \in kept : f \in cells'
  BY <1>4, <1>6, <1>7
<1> QED
  BY <1>1, <1>2, <1>3, <1>4, <1>8, GoneKeepsFiles

\* The page shows what is stored and posts it as it is.
LEMMA ListKeepsFiles ==
  ASSUME TypeInv, Files, NEW p \in Pages, NEW i \in DOMAIN out[p],
         List(p, i), harm' = {}
  PROVE  Files'
<1>1. PICK u, r, t : ListStep(p, i, u, r, t)
  BY ListSteps
<1>2. /\ AnswerStep(p, i, u, r, t, t) /\ UNCHANGED <<files, cells, kept, next>>
      /\ t = files
  BY <1>1 DEF ListStep, Shown, Files
<1>3. PICK o1 : Removed(out, o1, out[p][i]) /\ Sent(o1, out', r)
  BY <1>2, AnswerPends
<1>4. PICK q : q = out[p][i]
  OBVIOUS
<1>5. q.kind = "list" /\ q \in Requests
  BY <1>4, PageTypes, ElementOfSeq DEF List, Arrives
<1>6. /\ r \in Requests /\ r.kind = "tree" /\ r.tree = t /\ r.base = t
      /\ PageStep(p, Append(u, r), t)
  BY <1>2 DEF AnswerStep, IsPost
<1>7. \A f : /\ q \notin AddsOf(f) /\ q \notin DelsOf(f)
             /\ r \notin AddsOf(f) /\ r \notin DelsOf(f) /\ r \notin UploadsOf(f)
             /\ r \notin DeletesOf(f) /\ r \notin DirUploads
             /\ r \in Posting(f) <=> f = t
  BY <1>5, <1>6, RequestKinds
<1>8. ASSUME NEW P, r \notin P
      PROVE  /\ Pends(out', P) => Pends(out, P)
             /\ q \notin P => (Pends(out, P) => Pends(out', P))
             /\ Once(out, P) => Once(out', P)
  BY <1>3, <1>4, <1>8 DEF Removed, Sent
<1>9. ASSUME NEW f \in Nat PROVE Account(f)' /\ Content(f)'
  <2>1. Account(f) /\ Content(f) /\ next \in Nat
    BY PageTypes DEF Files
  <2>2. /\ Pends(out', AddsOf(f)) <=> Pends(out, AddsOf(f))
        /\ Pends(out', DelsOf(f)) <=> Pends(out, DelsOf(f))
        /\ Pends(out', UploadsOf(f)) => Pends(out, UploadsOf(f))
        /\ Pends(out', DeletesOf(f)) => Pends(out, DeletesOf(f))
        /\ Once(out, AddsOf(f)) => Once(out', AddsOf(f))
        /\ Once(out, UploadsOf(f)) => Once(out', UploadsOf(f))
    BY <1>7, <1>8
  <2> QED
    BY <1>2, <2>1, <2>2, FileStays
<1>10. SoundTrees'
  <2>1. Around(files) /\ Around(tree[p]) /\ SoundTrees /\ next \in Nat
    BY AroundPage, PageTypes DEF Files
  <2>2. \A x \in Trees : Pends(out', Posting(x)) => Around(x) \/ x = t
    BY <1>7, <1>8 DEF Around
  <2>3. \A f \in Nat : Pends(out', UploadsOf(f)) => Pends(out, UploadsOf(f))
    BY <1>7, <1>8
  <2>4. next' \in Nat /\ next <= next' /\ files' = files /\ kept' = kept
    BY <1>2, <2>1
  <2> QED
    BY <1>2, <1>6, <2>1, <2>2, <2>3, <2>4, TreesStaySound
<1>11. ~ Pends(out', DirUploads)
  BY <1>7, <1>8 DEF Files
<1> QED
  BY <1>2, <1>9, <1>10, <1>11 DEF Files

\* A tree is stored over the one its page knew: its additions and removals are
\* done, and those of the others still to do.
LEMMA ChangeFilesKeepsFiles ==
  ASSUME TypeInv, Files, NEW p \in Pages, NEW i \in DOMAIN out[p],
         ChangeFiles(p, i), harm' = {}
  PROVE  Files'
<1>1. PICK u : GoneStep(p, i, u)
  BY GoneSteps DEF ChangeFiles
<1>2. PICK r : r = out[p][i]
  OBVIOUS
<1>3. Removed(out, out', r) /\ r \in Requests /\ PageStep(p, u, tree[p])
  BY <1>1, <1>2, GonePends DEF GoneStep
<1>4. /\ r.kind = "tree" /\ files' = r.tree /\ files = r.base
      /\ UNCHANGED <<cells, kept, next>>
  BY <1>2 DEF ChangeFiles, Arrives
<1>5. Around(r.tree) /\ Around(r.base) /\ r.tree \in Trees
  BY <1>2, <1>4, AroundPage
<1>6. \A f : /\ r \in AddsOf(f) <=> f \in FilesOf(files') /\ f \notin FilesOf(files)
             /\ r \in DelsOf(f) <=> f \in FilesOf(files) /\ f \notin FilesOf(files')
             /\ r \notin UploadsOf(f) /\ r \notin DeletesOf(f)
  BY <1>3, <1>4, RequestKinds
<1>7. ASSUME NEW P
      PROVE  /\ Pends(out', P) => Pends(out, P)
             /\ r \notin P => (Pends(out, P) => Pends(out', P))
             /\ Once(out, P) => Once(out', P)
             /\ Once(out, P) /\ r \in P => ~ Pends(out', P)
  BY <1>3 DEF Removed
<1>8. ASSUME NEW f \in Nat PROVE Account(f)' /\ Content(f)'
  <2>1. Account(f) /\ Content(f)
    BY DEF Files
  <2>2. Content(f)'
    BY <1>4, <1>7, <2>1 DEF Content
  <2>3. r \in AddsOf(f) => Pends(out, AddsOf(f))
    BY <1>2 DEF Pends
  <2>4. r \in DelsOf(f) => Pends(out, DelsOf(f))
    BY <1>2 DEF Pends
  <2>5. f \in kept' <=> f \in kept
    BY <1>4
  <2>6. f \in FilesOf(files') /\ f \notin kept' => Pends(out', DelsOf(f))
    <3>1. f \in FilesOf(files') => r \notin DelsOf(f)
      BY <1>6
    <3>2. f \in FilesOf(files') /\ f \notin FilesOf(files) => Pends(out, AddsOf(f))
      BY <1>6, <2>3
    <3>3. f \in FilesOf(files') /\ f \notin kept => Pends(out, DelsOf(f))
      BY <2>1, <3>2 DEF Account
    <3> QED
      BY <1>7, <2>5, <3>1, <3>3
  <2>7. f \notin FilesOf(files') /\ f \in kept' => Pends(out', AddsOf(f))
    <3>1. f \notin FilesOf(files') => r \notin AddsOf(f)
      BY <1>6
    <3>2. f \in FilesOf(files) /\ f \notin FilesOf(files') => Pends(out, DelsOf(f))
      BY <1>6, <2>4
    <3>3. f \notin FilesOf(files') /\ f \in kept => Pends(out, AddsOf(f))
      BY <2>1, <3>2 DEF Account
    <3> QED
      BY <1>7, <2>5, <3>1, <3>3
  <2>8. Pends(out', DelsOf(f)) => f \notin kept'
    BY <1>7, <2>1, <2>5 DEF Account
  <2>9. Pends(out', AddsOf(f)) => f \notin FilesOf(files')
    <3>1. Pends(out', AddsOf(f)) => f \notin FilesOf(files) /\ r \notin AddsOf(f)
      BY <1>7, <2>1 DEF Account
    <3> QED
      BY <1>6, <3>1
  <2>10. Pends(out', AddsOf(f)) /\ f \notin kept' => Pends(out', DelsOf(f))
    <3>1. Pends(out', AddsOf(f)) => f \notin FilesOf(files)
      BY <1>7, <2>1 DEF Account
    <3>2. f \notin FilesOf(files) => r \notin DelsOf(f)
      BY <1>6
    <3>3. Pends(out', AddsOf(f)) /\ f \notin kept => Pends(out, DelsOf(f))
      BY <1>7, <2>1 DEF Account
    <3> QED
      BY <1>7, <2>5, <3>1, <3>2, <3>3
  <2>11. Once(out', AddsOf(f))
    BY <1>7, <2>1 DEF Account
  <2>12. Account(f)'
    BY <2>6, <2>7, <2>8, <2>9, <2>10, <2>11 DEF Account
  <2> QED
    BY <2>2, <2>12
<1>9. SoundTrees'
  <2>1. Around(tree[p]) /\ SoundTrees /\ next \in Nat
    BY AroundPage, PageTypes DEF Files
  <2>2. \A x \in Trees : Pends(out', Posting(x)) => Around(x)
    BY <1>7 DEF Around
  <2>3. next' \in Nat /\ next <= next' /\ kept' = kept
    BY <1>4, <2>1
  <2> QED
    BY <1>3, <1>4, <1>5, <1>7, <2>1, <2>2, <2>3, TreesStaySound
<1>10. ~ Pends(out', DirUploads)
  BY <1>7 DEF Files
<1>11. files' # NullTree
  BY <1>4, <1>5, NoTreeAssumption
<1> QED
  BY <1>8, <1>9, <1>10, <1>11 DEF Files

\* The content of a new file is stored: the page adds the file and posts it.
LEMMA UploadFileKeepsFiles ==
  ASSUME TypeInv, Files, NEW p \in Pages, NEW i \in DOMAIN out[p],
         UploadFile(p, i), harm' = {}
  PROVE  Files'
<1>1. PICK q : q = out[p][i]
  OBVIOUS
<1>2. PICK e : e = q.entry
  OBVIOUS
<1>3. /\ q.kind = "upload" /\ q \in Requests /\ e \in Entries /\ e.id \in Nat
  <2>1. q.kind = "upload" /\ q \in Requests
    BY <1>1, PageTypes, ElementOfSeq DEF UploadFile, Arrives
  <2>2. e \in Entries
    BY <1>2, <2>1, RequestFields
  <2> QED
    BY <2>1, <2>2 DEF Entries
<1>4. PICK t : t = AddEntry(tree[p], e)
  OBVIOUS
<1>5. PICK u, r : AnswerStep(p, i, u, r, t, tree[p])
  BY <1>1, <1>2, <1>4, UploadFileSteps
<1>6. PICK o1 : Removed(out, o1, q) /\ Sent(o1, out', r)
  BY <1>1, <1>5, AnswerPends
<1>7. /\ r \in Requests /\ r.kind = "tree" /\ r.tree = t /\ r.base = tree[p]
      /\ PageStep(p, Append(u, r), t) /\ tree[p] \in Trees /\ t \in Trees
  BY <1>5 DEF AnswerStep, IsPost
<1>8. /\ UNCHANGED <<files, next>> /\ next \in Nat
      /\ cells' = cells \cup {e.id} /\ kept' = kept \cup {e.id}
  BY <1>1, <1>2, PageTypes DEF UploadFile, Arrives
<1>9. /\ q \in UploadsOf(e.id)
      /\ \A f : q \notin AddsOf(f) /\ q \notin DelsOf(f) /\ q \notin DeletesOf(f)
  BY <1>2, <1>3, RequestKinds
<1>10. Pends(out, UploadsOf(e.id)) /\ Pends(out, {q})
  BY <1>1, <1>9 DEF Pends
<1>11. ~ e.dir
  BY <1>1, <1>2, <1>3, RequestKinds DEF Files, Pends
<1>12. Sound(tree[p]) /\ Around(tree[p]) /\ Around(files)
  BY <1>7, AroundPage
<1>13. FilesOf(t) = FilesOf(tree[p]) \cup {e.id}
  <2>1. PICK w : w = tree[p]
    OBVIOUS
  <2>2. FilesOf(AddEntry(w, e)) = FilesOf(w) \cup (IF e.dir THEN {} ELSE {e.id})
    BY <1>3, <1>7, <2>1, FilesOfAdded
  <2>3. FilesOf(AddEntry(w, e)) = FilesOf(w) \cup {e.id}
    BY <1>11, <2>2
  <2> QED
    BY <1>4, <2>1, <2>3
<1>14. e.id \notin FilesOf(tree[p])
  BY <1>10, <1>12 DEF Sound, FilesOf
<1>15. \A f : /\ r \in AddsOf(f) <=> f = e.id
              /\ r \notin DelsOf(f) /\ r \notin UploadsOf(f)
              /\ r \notin DeletesOf(f) /\ r \notin DirUploads
              /\ r \in Posting(f) <=> f = t \/ f = tree[p]
  BY <1>7, <1>13, <1>14, RequestKinds
<1>16. ASSUME NEW P
       PROVE  /\ r \notin P => (Pends(out', P) => Pends(out, P))
              /\ q \notin P => (Pends(out, P) => Pends(out', P))
              /\ Once(out, P) /\ (r \in P => ~ Pends(out, P)) => Once(out', P)
              /\ Once(out, P) /\ q \in P /\ r \notin P => ~ Pends(out', P)
              /\ r \in P => Pends(out', P)
  BY <1>6 DEF Removed, Sent
<1>17. /\ e.id \notin FilesOf(files)
       /\ ~ Pends(out, AddsOf(e.id)) /\ ~ Pends(out, DelsOf(e.id))
  BY <1>10, UploadIsNew
<1>18. Account(e.id) /\ Content(e.id)
  BY <1>3 DEF Files
<1>19. ~ Pends(out', UploadsOf(e.id))
  BY <1>9, <1>15, <1>16, <1>18 DEF Content
<1>20. ASSUME NEW f \in Nat PROVE Account(f)' /\ Content(f)'
  <2>1. Account(f) /\ Content(f)
    BY DEF Files
  <2>2. /\ Pends(out', DelsOf(f)) <=> Pends(out, DelsOf(f))
        /\ Pends(out', DeletesOf(f)) <=> Pends(out, DeletesOf(f))
        /\ Pends(out', UploadsOf(f)) => Pends(out, UploadsOf(f))
        /\ Once(out, UploadsOf(f)) => Once(out', UploadsOf(f))
    BY <1>9, <1>15, <1>16
  <2>3. CASE f # e.id
    <3>1. /\ Pends(out', AddsOf(f)) <=> Pends(out, AddsOf(f))
          /\ Once(out, AddsOf(f)) => Once(out', AddsOf(f))
      BY <1>9, <1>15, <1>16, <2>3
    <3>2. next' \in Nat /\ next <= next'
      BY <1>8
    <3>3. /\ f \in kept' <=> f \in kept
          /\ f \in cells' <=> f \in cells
          /\ f \in FilesOf(files') <=> f \in FilesOf(files)
      BY <1>8, <2>3
    <3> QED
      BY <2>1, <2>2, <3>1, <3>2, <3>3, FileStays
  <2>4. CASE f = e.id
    <3>1. Pends(out', AddsOf(f)) /\ Once(out', AddsOf(f))
      BY <1>15, <1>16, <1>17, <2>1, <2>4 DEF Account
    <3>2. f \in kept' /\ f \in cells' /\ f \notin FilesOf(files')
      BY <1>8, <1>17, <2>4
    <3>3. ~ Pends(out', DelsOf(f)) /\ ~ Pends(out', UploadsOf(f))
      BY <1>17, <1>19, <2>2, <2>4
    <3>4. Account(f)'
      BY <3>1, <3>2, <3>3 DEF Account
    <3>5. f < next' /\ ~ Pends(out', DeletesOf(f)) /\ Once(out', UploadsOf(f))
      BY <1>8, <1>10, <2>1, <2>2, <2>4 DEF Content
    <3>6. Content(f)'
      BY <3>2, <3>3, <3>5 DEF Content
    <3> QED
      BY <3>4, <3>6
  <2> QED
    BY <2>3, <2>4
<1>21. \A f \in Nat : Pends(out', UploadsOf(f)) => Pends(out, UploadsOf(f))
  BY <1>15, <1>16
<1>22. Sound(t)'
  <2>7. PICK w : w = tree[p]
    OBVIOUS
  <2>8. w \in Trees /\ t = AddEntry(w, e)
    BY <1>4, <1>7, <2>7
  <2>9. \E n \in Nat : /\ DOMAIN w = 1 .. n /\ DOMAIN AddEntry(w, e) = 1 .. n + 1
                      /\ AddEntry(w, e)[n + 1] = e
                      /\ \A j \in 1 .. n : AddEntry(w, e)[j] = w[j]
    BY <1>3, <2>8, FilesOfAdded
  <2>1. PICK n \in Nat : /\ DOMAIN tree[p] = 1 .. n /\ DOMAIN t = 1 .. n + 1
                         /\ t[n + 1] = e /\ \A j \in 1 .. n : t[j] = tree[p][j]
    BY <2>7, <2>8, <2>9
  <2>2. \A j \in 1 .. n + 1 : j = n + 1 \/ j \in 1 .. n
    BY <2>1
  <2>3. ASSUME NEW j \in 1 .. n
        PROVE  /\ t[j].id = tree[p][j].id /\ t[j].dir = tree[p][j].dir
               /\ t[j].id \in Nat /\ t[j].id < next /\ t[j].id # e.id
               /\ t[j].dir => t[j].id \notin kept
               /\ ~ Pends(out, UploadsOf(t[j].id))
    <3>1. /\ t[j] = tree[p][j] /\ j \in DOMAIN tree[p]
          /\ tree[p][j].id \in Nat
      BY <1>7, <2>1, TreeIds
    <3>2. /\ tree[p][j].id < next /\ ~ Pends(out, UploadsOf(tree[p][j].id))
          /\ tree[p][j].dir => tree[p][j].id \notin kept
      BY <1>12, <3>1 DEF Sound
    <3> QED
      BY <1>10, <3>1, <3>2
  <2>4. ASSUME NEW j \in 1 .. n + 1, NEW k \in 1 .. n + 1, t[j].id = t[k].id
        PROVE  j = k
    <3>1. CASE j = n + 1 /\ k = n + 1
      BY <3>1
    <3>2. CASE j = n + 1 /\ k \in 1 .. n
      BY <2>1, <2>3, <2>4, <3>2
    <3>3. CASE j \in 1 .. n /\ k = n + 1
      BY <2>1, <2>3, <2>4, <3>3
    <3>4. CASE j \in 1 .. n /\ k \in 1 .. n
      <4>1. tree[p][j].id = tree[p][k].id
        BY <2>3, <2>4, <3>4
      <4> QED
        BY <1>12, <2>1, <3>4, <4>1 DEF Sound
    <3> QED
      BY <2>2, <3>1, <3>2, <3>3, <3>4
  <2>5. ASSUME NEW j \in 1 .. n
        PROVE  /\ t[j].id < next'
               /\ t[j].dir => t[j].id \notin kept'
               /\ ~ Pends(out', UploadsOf(t[j].id))
    BY <1>8, <1>21, <2>3
  <2>6. /\ e.id < next' /\ ~ Pends(out', UploadsOf(e.id))
    BY <1>8, <1>10, <1>18, <1>19 DEF Content
  <2> QED
    BY <1>11, <2>1, <2>2, <2>4, <2>5, <2>6 DEF Sound
<1>23. SoundTrees'
  <2>1. SoundTrees
    BY DEF Files
  <2>2. \A x \in Trees : Pends(out', Posting(x)) => Around(x) \/ x = t
    BY <1>12, <1>15, <1>16 DEF Around
  <2>3. /\ next' \in Nat /\ next <= next' /\ files' = files
        /\ \A f \in kept' : f \in kept \/ Pends(out, UploadsOf(f))
    BY <1>8, <1>10
  <2> QED
    BY <1>7, <1>12, <1>21, <1>22, <2>1, <2>2, <2>3, TreesStaySound
<1>24. ~ Pends(out', DirUploads)
  BY <1>15, <1>16 DEF Files
<1> QED
  BY <1>8, <1>20, <1>23, <1>24 DEF Files

-----------------------------------------------------------------------------
(* The drive keeps the files.                                               *)

LEMMA NextKeepsFiles ==
  ASSUME TypeInv, harm = {} => Files, [Next]_vars
  PROVE  harm' = {} => Files'
<1> SUFFICES ASSUME harm' = {} PROVE Files'
  OBVIOUS
<1>1. Files
  BY StepsRemember
<1>2. CASE UNCHANGED driveVars \/ \E p \in Pages : SessionStep(p)
  <2>1. UNCHANGED <<files, cells, tree, out, next, kept>>
    BY <1>2 DEF driveVars, SessionStep
  <2> QED
    BY <1>1, <2>1 DEF Files, Account, Content, SoundTrees, Around, Sound
<1>3. ASSUME NEW p \in Pages, NEW i \in DOMAIN out[p], Serve(p, i)
      PROVE  Files'
  BY <1>1, <1>3, RefuseKeepsFiles, ListKeepsFiles, ChangeFilesKeepsFiles,
     UploadFileKeepsFiles, DeleteFileKeepsFiles DEF Serve
<1> QED
  BY <1>1, <1>2, <1>3, StepCases, LoadKeepsFiles, UploadKeepsFiles,
     CreateDirectoryKeepsFiles, DeleteKeepsFiles, RelocateKeepsFiles

LEMMA InitFiles == Init => Files
<1> SUFFICES ASSUME Init PROVE Files
  OBVIOUS
<1>1. /\ TypeInv /\ FirstTree \in Trees /\ files = FirstTree
      /\ cells = {2} /\ kept = {2} /\ next = 3
      /\ \A p \in Pages : out[p] = << >> /\ tree[p] \in {files, NoTree}
  BY InitTypes DEF Init
<1>2. \A P : ~ Pends(out, P) /\ Once(out, P)
  BY <1>1 DEF Pends, Once
<1>3. /\ DOMAIN FirstTree = {1, 2}
      /\ FirstTree[1].id = 1 /\ FirstTree[1].dir
      /\ FirstTree[2].id = 2 /\ ~ FirstTree[2].dir
  BY DEF FirstTree
<1>4. FilesOf(files) = {2}
  BY <1>1, <1>3 DEF FilesOf
<1>5. \A f \in Nat : Account(f) /\ Content(f)
  BY <1>1, <1>2, <1>4 DEF Account, Content
<1>6. ASSUME NEW t \in Trees, Around(t) PROVE Sound(t)
  <2>1. t = FirstTree
    BY <1>1, <1>2, <1>6, NoTreeAssumption DEF Around
  <2>2. Sound(FirstTree)
    BY <1>1, <1>2, <1>3 DEF Sound
  <2> QED
    BY <2>1, <2>2
<1>7. files # NullTree
  BY <1>1, NoTreeAssumption
<1> QED
  BY <1>2, <1>5, <1>6, <1>7 DEF Files, SoundTrees

\* Once nothing is on its way, a drive nothing has gone wrong with lists exactly
\* the files the user has been shown and has not deleted, each with its content:
\* for any number of pages, files and requests, and whatever order contents and
\* trees were stored in.
THEOREM KeepsFilesAlways == Spec => []KeepsFiles
<1>1. Init => (harm = {} => Files)
  BY InitFiles
<1>2. TypeInv /\ (harm = {} => Files) /\ [Next]_vars => (harm' = {} => Files')
  BY NextKeepsFiles
<1>3. TypeInv /\ (harm = {} => Files) => KeepsFiles
  <2> SUFFICES ASSUME TypeInv, Files, \A p \in Pages : out[p] = << >>
               PROVE  /\ files # NullTree /\ FilesOf(files) = kept
                      /\ kept \subseteq cells
    BY DEF KeepsFiles
  <2>1. \A P : ~ Pends(out, P)
    BY DEF Pends
  <2>2. \A f \in Nat : (f \in FilesOf(files) <=> f \in kept)
                       /\ (f \in kept => f \in cells)
    BY <2>1 DEF Files, Account, Content
  <2>3. kept \subseteq Nat /\ files \in Trees
    BY DEF TypeInv, TypeOK, Files
  <2>4. FilesOf(files) \subseteq Nat
    BY <2>3, TreeIds DEF FilesOf
  <2> QED
    BY <2>2, <2>3, <2>4 DEF Files
<1> DEFINE I == harm = {} => Files
<1>4. Init => I
  BY <1>1
<1>5. TypeInv /\ I /\ [Next]_vars => I'
  BY <1>2
<1>6. TypeInv /\ I => KeepsFiles
  BY <1>3
<1> HIDE DEF I
<1> QED
  BY <1>4, <1>5, <1>6, TypesAlways, PTL DEF Spec

=============================================================================
