--------------------------- MODULE TabletOpsProofs ---------------------------
(* Lemmas on the storage engine: each operator keeps StoreOK, and what it   *)
(* does to the table the store stands for.                                  *)
EXTENDS TabletOps, WellFoundedInduction, TLAPS

-----------------------------------------------------------------------------
(* Loops.                                                                   *)

\* A set of natural numbers that is not empty has a least element.
LEMMA LeastNatural ==
  ASSUME NEW S \in SUBSET Nat, S # {}
  PROVE  \E i \in S : \A j \in S : i <= j
<1>1. PICK i \in S : \A j \in S : <<j, i>> \notin OpToRel(<, Nat)
  BY NatLessThanWellFounded, WFMin
<1>2. ASSUME NEW j \in S PROVE ~ (j < i)
  BY <1>1, Zenon DEF OpToRel
<1> QED
  BY <1>2

\* f records a loop of m rounds over G from x on, round n of which applies
\* F[n].
Runs(f, m, G, x, F) ==
    /\ f \in [0 .. m -> G] /\ f[0] = x
    /\ \A n \in 1 .. m : f[n] = F[n][f[n - 1]]

\* A loop runs through: there is a value after each round.
LEMMA LoopExists ==
  ASSUME NEW N \in Nat, NEW G, NEW x \in G, NEW F \in [1 .. N -> [G -> G]]
  PROVE  \E f : Runs(f, N, G, x, F)
<1> DEFINE bad == {m \in 0 .. N : ~ \E f : Runs(f, m, G, x, F)}
<1>1. bad = {}
  <2> SUFFICES ASSUME bad # {} PROVE FALSE
    OBVIOUS
  <2>1. PICK m \in bad : \A k \in bad : m <= k
    <3>1. bad \in SUBSET Nat
      OBVIOUS
    <3> HIDE DEF bad
    <3> QED
      BY <3>1, LeastNatural
  <2>2. CASE m = 0
    <3>1. Runs([n \in 0 .. 0 |-> x], 0, G, x, F)
      BY DEF Runs
    <3> QED
      BY <2>2, <3>1
  <2>3. CASE m # 0
    <3>1. m \in 1 .. N /\ m - 1 \in 0 .. N /\ m - 1 \notin bad
      BY <2>1, <2>3
    <3>2. PICK f : Runs(f, m - 1, G, x, F)
      BY <3>1
    <3> DEFINE g == [n \in 0 .. m |-> IF n = m THEN F[m][f[m - 1]] ELSE f[n]]
    <3>3. f[m - 1] \in G /\ F[m][f[m - 1]] \in G
      BY <3>1, <3>2 DEF Runs
    <3>4. g \in [0 .. m -> G] /\ g[0] = x
      BY <3>1, <3>2, <3>3 DEF Runs
    <3>5. ASSUME NEW n \in 1 .. m
          PROVE  g[n] = F[n][g[n - 1]]
      <4>1. CASE n = m
        BY <3>1, <4>1
      <4>2. CASE n # m
        BY <3>1, <3>2, <4>2 DEF Runs
      <4> QED
        BY <4>1, <4>2
    <3>6. Runs(g, m, G, x, F)
      <4> HIDE DEF g
      <4> QED
        BY <3>4, <3>5 DEF Runs
    <3> QED
      BY <2>1, <3>6
  <2> QED
    BY <2>2, <2>3
<1> QED
  BY <1>1

-----------------------------------------------------------------------------
(* Contents and sequences.                                                  *)

\* Replacing the cells of a tablet gives contents again.
LEMMA SetTabletType ==
    ASSUME NEW old \in Contents, NEW t, NEW new \in Contents
    PROVE  SetTablet(old, t, new) \in Contents
BY DEF SetTablet, Contents

\* The empty contents are contents.
LEMMA NoContentsType == NoContents \in Contents
BY DEF NoContents, Contents

\* What Head and Tail do to the elements of a duplicate-free sequence, as
\* UnloadTablet takes the front tablet out of tablet_mem_vec.
LEMMA PopFront ==
    ASSUME NEW S, NEW q \in Seq(S), q # << >>, Distinct(q)
    PROVE  /\ Tail(q) \in Seq(S)
           /\ Head(q) \in Elements(q)
           /\ Len(Tail(q)) = Len(q) - 1
           /\ Elements(Tail(q)) = Elements(q) \ {Head(q)}
           /\ Distinct(Tail(q))
<1>1. /\ Len(q) \in Nat /\ Len(q) > 0 /\ DOMAIN q = 1 .. Len(q)
      /\ Tail(q) \in Seq(S) /\ Head(q) = q[1]
      /\ Len(Tail(q)) = Len(q) - 1
      /\ DOMAIN Tail(q) = 1 .. Len(q) - 1
  OBVIOUS
<1>2. \A i \in 1 .. Len(q) - 1 : Tail(q)[i] = q[i + 1]
  OBVIOUS
<1>3. Distinct(Tail(q))
  BY <1>1, <1>2 DEF Distinct
<1>4. ASSUME NEW i \in DOMAIN Tail(q)
      PROVE  Tail(q)[i] \in Elements(q) \ {Head(q)}
  <2>1. i + 1 \in DOMAIN q /\ i + 1 # 1 /\ 1 \in DOMAIN q
    BY <1>1
  <2> QED
    BY <2>1, <1>1, <1>2 DEF Elements, Distinct
<1>5. ASSUME NEW k \in DOMAIN q, q[k] # Head(q)
      PROVE  q[k] \in Elements(Tail(q))
  <2>1. k # 1
    BY <1>1, <1>5
  <2>2. k - 1 \in DOMAIN Tail(q)
    BY <1>1, <2>1
  <2>3. Tail(q)[k - 1] = q[k]
    BY <1>1, <1>2, <2>1
  <2> QED
    BY <2>2, <2>3 DEF Elements
<1>6. Elements(Tail(q)) = Elements(q) \ {Head(q)}
  BY <1>4, <1>5 DEF Elements
<1>7. Head(q) \in Elements(q)
  BY <1>1 DEF Elements
<1> QED
  BY <1>1, <1>3, <1>6, <1>7

\* The same for Append, as LoadTablet puts the tablet at the back.
LEMMA PushBack ==
    ASSUME NEW S, NEW q \in Seq(S), NEW e \in S, e \notin Elements(q),
           Distinct(q)
    PROVE  /\ Append(q, e) \in Seq(S)
           /\ Len(Append(q, e)) = Len(q) + 1
           /\ Elements(Append(q, e)) = Elements(q) \cup {e}
           /\ Distinct(Append(q, e))
<1>1. /\ Len(q) \in Nat /\ DOMAIN q = 1 .. Len(q)
      /\ Append(q, e) \in Seq(S)
      /\ Len(Append(q, e)) = Len(q) + 1
      /\ DOMAIN Append(q, e) = 1 .. Len(q) + 1
  OBVIOUS
<1>2. /\ \A i \in 1 .. Len(q) : Append(q, e)[i] = q[i]
      /\ Append(q, e)[Len(q) + 1] = e
  OBVIOUS
<1>3. \A i \in 1 .. Len(q) : q[i] # e
  BY <1>1 DEF Elements
<1>4. Distinct(Append(q, e))
  BY <1>1, <1>2, <1>3 DEF Distinct
<1>5. ASSUME NEW i \in DOMAIN Append(q, e)
      PROVE  Append(q, e)[i] \in Elements(q) \cup {e}
  BY <1>1, <1>2 DEF Elements
<1>6. ASSUME NEW k \in DOMAIN q
      PROVE  q[k] \in Elements(Append(q, e))
  <2>1. k \in DOMAIN Append(q, e) /\ Append(q, e)[k] = q[k]
    BY <1>1, <1>2
  <2> QED
    BY <2>1 DEF Elements
<1>7. e \in Elements(Append(q, e))
  <2>1. Len(q) + 1 \in DOMAIN Append(q, e)
    BY <1>1
  <2> QED
    BY <2>1, <1>2 DEF Elements
<1> QED
  BY <1>1, <1>4, <1>5, <1>6, <1>7 DEF Elements

-----------------------------------------------------------------------------
(* Moving tablets.                                                          *)

\* A store has the types of its parts.
LEMMA StoreFields ==
    ASSUME NEW s \in Stores
    PROVE  /\ s.mem \in Seq(Tablets) /\ Resident(s) \subseteq Tablets
           /\ s.map \in Contents /\ s.ckpt \in Contents
           /\ s.log \in [Tablets -> Seq(LogRecords)]
BY DEF Stores, Resident, Elements

\* A node that has just started satisfies everything (InitEnv).
LEMMA InitStoreOK == StoreOK(InitStore) /\ TableOf(InitStore) = NoContents
<1>1. InitStore \in Stores
  BY NoContentsType DEF InitStore, Stores
<1>2. Resident(InitStore) = {}
  BY DEF InitStore, Resident, Elements
<1>3. ResidentSetOK(InitStore)
  BY NumTabletMemAssumption DEF ResidentSetOK, InitStore, Distinct
<1>4. MemEquationHolds(InitStore)
  BY <1>2 DEF MemEquationHolds, InitStore, NoContents
<1>5. LogsOK(InitStore) /\ ReplayOK(InitStore)
  BY DEF LogsOK, InitStore, ReplayOK, ReplayAborts
<1>6. TableOf(InitStore) = NoContents
  BY <1>2 DEF TableOf, InitStore, NoContents
<1> QED
  BY <1>1, <1>3, <1>4, <1>5, <1>6 DEF StoreOK

\* Unloading the front tablet keeps the store sound and its table unchanged:
\* the checkpoint takes over what the log was needed for.
LEMMA UnloadTabletOK ==
    ASSUME NEW s, StoreOK(s), s.mem # << >>
    PROVE  LET u == UnloadTablet(s)
           IN  /\ StoreOK(u)
               /\ Len(u.mem) = Len(s.mem) - 1
               /\ Resident(u) = Resident(s) \ {Head(s.mem)}
               /\ TableOf(u) = TableOf(s)
<1> DEFINE u == UnloadTablet(s)
           h == Head(s.mem)
<1>1. s \in Stores /\ ResidentSetOK(s) /\ MemEquationHolds(s)
      /\ LogsOK(s) /\ ReplayOK(s)
  BY DEF StoreOK
<1>2. /\ s.mem \in Seq(Tablets) /\ Resident(s) \subseteq Tablets
      /\ s.map \in Contents /\ s.ckpt \in Contents
      /\ s.log \in [Tablets -> Seq(LogRecords)]
  BY <1>1, StoreFields
<1>3. /\ u.mem = Tail(s.mem)
      /\ u.map = SetTablet(s.map, h, NoContents)
      /\ u.ckpt = SetTablet(s.ckpt, h, s.map)
      /\ u.log = [s.log EXCEPT ![h] = << >>]
  BY DEF UnloadTablet
<1>4. /\ u.mem \in Seq(Tablets) /\ h \in Resident(s)
      /\ Len(u.mem) = Len(s.mem) - 1
      /\ Resident(u) = Resident(s) \ {h}
      /\ Distinct(u.mem)
  <2>1. Distinct(s.mem)
    BY <1>1 DEF ResidentSetOK
  <2> HIDE DEF u
  <2> QED
    BY <1>2, <1>3, <2>1, PopFront DEF Resident
<1>5. h \in Tablets
  BY <1>2, <1>4
<1>6. u \in Stores
  <2>1. u.log \in [Tablets -> Seq(LogRecords)]
    BY <1>2, <1>3
  <2>2. u.map \in Contents /\ u.ckpt \in Contents
    BY <1>2, <1>3, SetTabletType, NoContentsType
  <2> QED
    BY <1>4, <2>1, <2>2 DEF UnloadTablet, Stores
<1>7. ResidentSetOK(u)
  <2>1. Len(s.mem) \in Nat /\ Len(s.mem) <= NumTabletMem
    BY <1>1, <1>2 DEF ResidentSetOK
  <2> HIDE DEF u
  <2> QED
    BY <1>4, <2>1, NumTabletMemAssumption DEF ResidentSetOK
<1>8. \A c \in Cells :
          /\ TabletOf[c] = h =>
                u.map[c] = NoValue /\ u.ckpt[c] = s.map[c]
          /\ TabletOf[c] # h =>
                /\ u.map[c] = s.map[c] /\ u.ckpt[c] = s.ckpt[c]
                /\ u.log[TabletOf[c]] = s.log[TabletOf[c]]
  BY <1>2, <1>3, TabletOfAssumption DEF SetTablet, NoContents
<1>9. MemEquationHolds(u)
  <2> HIDE DEF u, h
  <2> QED
    BY <1>1, <1>4, <1>8 DEF MemEquationHolds
<1>10. LogsOK(u)
  <2>1. u.log[h] = << >> /\ \A t \in Tablets \ {h} : u.log[t] = s.log[t]
    BY <1>2, <1>3, <1>4
  <2>2. DOMAIN u.log[h] = {}
    BY <2>1
  <2> HIDE DEF u, h
  <2> QED
    BY <1>1, <1>4, <2>1, <2>2 DEF LogsOK
<1>11. ReplayOK(u)
  <2>1. u.log[h] = << >> /\ \A t \in Tablets \ {h} : u.log[t] = s.log[t]
    BY <1>2, <1>3, <1>4
  <2>2. ~ReplayAborts(u, h)
    BY <2>1 DEF ReplayAborts
  <2>3. ASSUME NEW t \in Tablets \ {h}
        PROVE  ~ReplayAborts(u, t)
    <3>1. \A i \in DOMAIN s.log[t] :
              u.ckpt[s.log[t][i].cell] = s.ckpt[s.log[t][i].cell]
      <4>1. \A i \in DOMAIN s.log[t] : s.log[t][i].cell \in Cells
        BY <1>2 DEF LogRecords
      <4>2. \A i \in DOMAIN s.log[t] : TabletOf[s.log[t][i].cell] = t
        BY <1>1 DEF LogsOK
      <4> QED
        BY <4>1, <4>2, <1>8
    <3>2. \A i \in DOMAIN s.log[t] :
              s.log[t][i].op = "delete" =>
                  DeleteFindsCell(s.ckpt, s.log[t], i)
      BY <1>1 DEF ReplayOK, ReplayAborts
    <3> HIDE DEF u, h
    <3>3. \A i \in DOMAIN s.log[t] :
              s.log[t][i].op = "delete" =>
                  DeleteFindsCell(u.ckpt, s.log[t], i)
      BY <3>1, <3>2 DEF DeleteFindsCell
    <3>4. u.log[t] = s.log[t]
      BY <2>1
    <3> QED
      BY <3>3, <3>4 DEF ReplayAborts
  <2> HIDE DEF u, h
  <2> QED
    BY <2>2, <2>3 DEF ReplayOK
<1>12. TableOf(u) = TableOf(s)
  <2> HIDE DEF u
  <2> QED
    BY <1>4, <1>5, <1>8 DEF TableOf
<1> HIDE DEF u
<1> QED
  BY <1>4, <1>6, <1>7, <1>9, <1>10, <1>11, <1>12 DEF StoreOK, u

\* Loading a tablet that is on disk only, when there is room: its log is
\* empty, so its checkpoint is all of it.
LEMMA LoadTabletOK ==
    ASSUME NEW s, StoreOK(s), NEW t \in Tablets, t \notin Resident(s),
           Len(s.mem) < NumTabletMem
    PROVE  LET l == LoadTablet(s, t)
           IN  /\ StoreOK(l)
               /\ Resident(l) = Resident(s) \cup {t}
               /\ TableOf(l) = TableOf(s)
<1> DEFINE l == LoadTablet(s, t)
<1>1. s \in Stores /\ ResidentSetOK(s) /\ MemEquationHolds(s)
      /\ LogsOK(s) /\ ReplayOK(s)
  BY DEF StoreOK
<1>2. /\ s.mem \in Seq(Tablets) /\ Resident(s) \subseteq Tablets
      /\ s.map \in Contents /\ s.ckpt \in Contents
      /\ s.log \in [Tablets -> Seq(LogRecords)]
  BY <1>1, StoreFields
<1>3. /\ l.mem = Append(s.mem, t)
      /\ l.map = SetTablet(s.map, t, s.ckpt)
      /\ l.ckpt = s.ckpt
      /\ l.log = s.log
      /\ l \in Stores
  <2>1. s = [mem |-> s.mem, map |-> s.map, ckpt |-> s.ckpt, log |-> s.log]
    BY <1>1 DEF Stores
  <2>2. SetTablet(s.map, t, s.ckpt) \in Contents
    BY <1>2, SetTabletType
  <2>3. Append(s.mem, t) \in Seq(Tablets)
    BY <1>2
  <2> QED
    BY <1>2, <2>1, <2>2, <2>3 DEF LoadTablet, Stores
<1>4. /\ Len(l.mem) = Len(s.mem) + 1
      /\ Resident(l) = Resident(s) \cup {t}
      /\ Distinct(l.mem)
  <2>1. Distinct(s.mem)
    BY <1>1 DEF ResidentSetOK
  <2> HIDE DEF l
  <2> QED
    BY <1>2, <1>3, <2>1, PushBack DEF Resident
<1>5. ResidentSetOK(l)
  <2>1. Len(s.mem) \in Nat
    BY <1>2
  <2> HIDE DEF l
  <2> QED
    BY <1>4, <2>1, NumTabletMemAssumption DEF ResidentSetOK
<1>6. \A c \in Cells :
          l.map[c] = IF TabletOf[c] = t THEN s.ckpt[c] ELSE s.map[c]
  BY <1>3 DEF SetTablet
<1>7. s.log[t] = << >>
  BY <1>1 DEF LogsOK
<1> HIDE DEF l
<1>8. MemEquationHolds(l)
  <2>1. ASSUME NEW c \in Cells, TabletOf[c] = t
        PROVE  ReplaysTo(l.ckpt[c], l.log[TabletOf[c]], c, l.map[c])
    BY <1>3, <1>6, <1>7, <2>1 DEF ReplaysTo, Records
  <2>2. ASSUME NEW c \in Cells, TabletOf[c] # t
        PROVE  IF TabletOf[c] \in Resident(l)
               THEN ReplaysTo(l.ckpt[c], l.log[TabletOf[c]], c, l.map[c])
               ELSE l.map[c] = NoValue
    BY <1>1, <1>3, <1>4, <1>6, <2>2 DEF MemEquationHolds
  <2> QED
    BY <1>4, <2>1, <2>2 DEF MemEquationHolds
<1>9. LogsOK(l)
  BY <1>1, <1>3, <1>4 DEF LogsOK
<1>10. ReplayOK(l)
  BY <1>1, <1>3 DEF ReplayOK, ReplayAborts
<1>11. TableOf(l) = TableOf(s)
  BY <1>4, <1>6, <1>3 DEF TableOf
<1> QED
  BY <1>3, <1>4, <1>5, <1>8, <1>9, <1>10, <1>11 DEF StoreOK, l

\* Every handler finds its tablet in memory, the store stays sound and the
\* table does not change, whether the tablet was resident, was loaded into a
\* free slot or replaced the oldest one.
LEMMA WithTabletOK ==
    ASSUME NEW s, StoreOK(s), NEW t \in Tablets
    PROVE  LET w == WithTablet(s, t)
           IN  /\ StoreOK(w)
               /\ t \in Resident(w)
               /\ TableOf(w) = TableOf(s)
<1>1. CASE t \in Resident(s)
  BY <1>1 DEF WithTablet
<1>2. CASE t \notin Resident(s)
  <2> DEFINE m == MakeRoom(s)
  <2>1. s.mem \in Seq(Tablets) /\ Len(s.mem) \in Nat
        /\ Len(s.mem) <= NumTabletMem
    BY StoreFields DEF StoreOK, ResidentSetOK
  <2>2. /\ StoreOK(m) /\ Len(m.mem) < NumTabletMem
        /\ t \notin Resident(m) /\ TableOf(m) = TableOf(s)
    <3>1. CASE Len(s.mem) = NumTabletMem
      <4>1. s.mem # << >>
        BY <3>1, NumTabletMemAssumption
      <4>2. m = UnloadTablet(s)
        BY <3>1 DEF MakeRoom
      <4>3. /\ StoreOK(m) /\ Len(m.mem) = Len(s.mem) - 1
            /\ Resident(m) = Resident(s) \ {Head(s.mem)}
            /\ TableOf(m) = TableOf(s)
        BY <4>1, <4>2, UnloadTabletOK
      <4> QED
        BY <4>3, <3>1, <2>1, <1>2
    <3>2. CASE Len(s.mem) # NumTabletMem
      BY <3>2, <2>1, <1>2, NumTabletMemAssumption DEF MakeRoom
    <3> QED
      BY <3>1, <3>2
  <2>3. WithTablet(s, t) = LoadTablet(m, t)
    BY <1>2 DEF WithTablet
  <2> HIDE DEF m
  <2> QED
    BY <2>2, <2>3, LoadTabletOK
<1> QED
  BY <1>1, <1>2

-----------------------------------------------------------------------------
(* Logging an operation and applying it.                                    *)

\* Appending a record makes it the last one of its cell, and leaves the last
\* one of every other cell where it was.
LEMMA ReplayAppend ==
    ASSUME NEW lg \in Seq(LogRecords), NEW r \in LogRecords, NEW base,
           NEW c, NEW v,
           IF r.cell = c THEN v = r.value ELSE ReplaysTo(base, lg, c, v)
    PROVE  ReplaysTo(base, Append(lg, r), c, v)
<1> DEFINE n == Len(lg)
           al == Append(lg, r)
<1>1. /\ n \in Nat /\ DOMAIN lg = 1 .. n /\ DOMAIN al = 1 .. n + 1
      /\ \A i \in 1 .. n : al[i] = lg[i]
      /\ al[n + 1] = r
  OBVIOUS
<1> HIDE DEF n, al
<1>2. CASE r.cell = c
  <2>1. IsLast(n + 1, Records(al, c))
    BY <1>1, <1>2 DEF IsLast, Records
  <2> QED
    BY <1>1, <1>2, <2>1 DEF ReplaysTo, al
<1>3. CASE r.cell # c
  <2>1. Records(al, c) = Records(lg, c)
    BY <1>1, <1>3 DEF Records
  <2>2. ReplaysTo(base, lg, c, v)
    BY <1>3
  <2> QED
    BY <1>1, <2>1, <2>2 DEF ReplaysTo, al, IsLast, Records
<1> QED
  BY <1>2, <1>3

\* A record that is appended behind a log that replays to value v of its cell
\* finds the cell exactly when v is a value.
LEMMA AppendFindsCell ==
    ASSUME NEW lg \in Seq(LogRecords), NEW r \in LogRecords,
           NEW base \in Contents,
           NEW v, v # NoValue,
           ReplaysTo(base[r.cell], lg, r.cell, v)
    PROVE  DeleteFindsCell(base, Append(lg, r), Len(lg) + 1)
<1> DEFINE n == Len(lg)
           al == Append(lg, r)
<1>1. /\ n \in Nat /\ DOMAIN lg = 1 .. n /\ DOMAIN al = 1 .. n + 1
      /\ \A i \in 1 .. n : al[i] = lg[i]
      /\ al[n + 1] = r
  OBVIOUS
<1> HIDE DEF n, al
<1>2. {j \in Records(al, r.cell) : j < n + 1} = Records(lg, r.cell)
  BY <1>1 DEF Records
<1>3. CASE Records(lg, r.cell) = {} /\ v = base[r.cell]
  BY <1>1, <1>2, <1>3 DEF DeleteFindsCell, al, n
<1>4. CASE \E i \in DOMAIN lg :
               IsLast(i, Records(lg, r.cell)) /\ v = lg[i].value
  <2>1. PICK i \in DOMAIN lg :
             IsLast(i, Records(lg, r.cell)) /\ v = lg[i].value
    BY <1>4
  <2>2. i \in DOMAIN al /\ al[i].value # NoValue
    BY <1>1, <2>1
  <2> QED
    BY <1>1, <1>2, <2>1, <2>2 DEF DeleteFindsCell, al, n
<1> QED
  BY <1>3, <1>4 DEF ReplaysTo

\* A record behind it changes nothing for the records of a log.
LEMMA AppendKeepsFinds ==
    ASSUME NEW lg \in Seq(LogRecords), NEW r, NEW base,
           NEW i \in DOMAIN lg, DeleteFindsCell(base, lg, i)
    PROVE  DeleteFindsCell(base, Append(lg, r), i)
<1> DEFINE n == Len(lg)
           al == Append(lg, r)
<1>1. /\ n \in Nat /\ DOMAIN lg = 1 .. n /\ DOMAIN al = 1 .. n + 1
      /\ \A k \in 1 .. n : al[k] = lg[k]
  OBVIOUS
<1> HIDE DEF n, al
<1>2. {j \in Records(al, lg[i].cell) : j < i}
        = {j \in Records(lg, lg[i].cell) : j < i}
  BY <1>1 DEF Records
<1> QED
  BY <1>1, <1>2 DEF DeleteFindsCell, IsLast, al

\* What the put and delete handlers do once they hold the tablet: the store
\* stays sound, provided a delete names a cell that is in the map, and the
\* table changes at that cell only.
LEMMA LogAndApplyOK ==
    ASSUME NEW s, StoreOK(s), NEW r \in LogRecords,
           TabletOf[r.cell] \in Resident(s),
           r.op = "delete" => s.map[r.cell] # NoValue
    PROVE  LET a == LogAndApply(s, r)
           IN  /\ StoreOK(a)
               /\ TableOf(a) = [TableOf(s) EXCEPT ![r.cell] = r.value]
<1> DEFINE a == LogAndApply(s, r)
           t == TabletOf[r.cell]
<1>1. s \in Stores /\ ResidentSetOK(s) /\ MemEquationHolds(s)
      /\ LogsOK(s) /\ ReplayOK(s)
  BY DEF StoreOK
<1>2. /\ s.mem \in Seq(Tablets) /\ Resident(s) \subseteq Tablets
      /\ s.map \in Contents /\ s.ckpt \in Contents
      /\ s.log \in [Tablets -> Seq(LogRecords)]
  BY <1>1, StoreFields
<1>3. r.cell \in Cells /\ r.value \in Values \cup {NoValue} /\ t \in Tablets
  BY TabletOfAssumption DEF LogRecords
<1>4. /\ a.mem = s.mem /\ a.ckpt = s.ckpt
      /\ a.log = [s.log EXCEPT ![t] = Append(s.log[t], r)]
      /\ a.map = [s.map EXCEPT ![r.cell] = r.value]
      /\ a \in Stores
  <2>1. s = [mem |-> s.mem, map |-> s.map, ckpt |-> s.ckpt, log |-> s.log]
    BY <1>1 DEF Stores
  <2>2. Append(s.log[t], r) \in Seq(LogRecords)
    BY <1>2, <1>3
  <2>3. [s.log EXCEPT ![t] = Append(s.log[t], r)]
            \in [Tablets -> Seq(LogRecords)]
    BY <1>2, <2>2
  <2>4. [s.map EXCEPT ![r.cell] = r.value] \in Contents
    BY <1>2, <1>3 DEF Contents
  <2> QED
    BY <1>2, <2>1, <2>3, <2>4 DEF LogAndApply, Stores
<1>5. Resident(a) = Resident(s)
  BY <1>4 DEF Resident
<1>6. /\ a.log[t] = Append(s.log[t], r)
      /\ \A x \in Tablets \ {t} : a.log[x] = s.log[x]
      /\ \A c \in Cells :
             a.map[c] = IF c = r.cell THEN r.value ELSE s.map[c]
  BY <1>2, <1>3, <1>4 DEF Contents
<1> HIDE DEF a
<1>7. ResidentSetOK(a)
  BY <1>1, <1>4 DEF ResidentSetOK
<1>8. MemEquationHolds(a)
  <2> SUFFICES ASSUME NEW c \in Cells
               PROVE  IF TabletOf[c] \in Resident(a)
                      THEN ReplaysTo(a.ckpt[c], a.log[TabletOf[c]], c,
                                     a.map[c])
                      ELSE a.map[c] = NoValue
    BY DEF MemEquationHolds
  <2>1. TabletOf[c] \in Tablets
    BY TabletOfAssumption
  <2>2. CASE TabletOf[c] # t
    <3>1. c # r.cell
      BY <2>2
    <3> QED
      BY <1>1, <1>4, <1>5, <1>6, <2>1, <2>2, <3>1 DEF MemEquationHolds
  <2>3. CASE TabletOf[c] = t
    <3>1. s.log[t] \in Seq(LogRecords)
      BY <1>2, <1>3
    <3>2. IF r.cell = c THEN a.map[c] = r.value
                        ELSE ReplaysTo(s.ckpt[c], s.log[t], c, a.map[c])
      BY <1>1, <1>6, <2>3 DEF MemEquationHolds
    <3>3. ReplaysTo(s.ckpt[c], Append(s.log[t], r), c, a.map[c])
      BY <3>1, <3>2, ReplayAppend
    <3> QED
      BY <1>4, <1>5, <1>6, <2>3, <3>3
  <2> QED
    BY <2>2, <2>3
<1>9. LogsOK(a)
  <2>1. ASSUME NEW x \in Tablets, x \notin Resident(a)
        PROVE  a.log[x] = << >>
    BY <1>1, <1>5, <1>6, <2>1 DEF LogsOK
  <2>2. ASSUME NEW x \in Tablets, NEW i \in DOMAIN a.log[x]
        PROVE  TabletOf[a.log[x][i].cell] = x
    <3>1. CASE x # t
      BY <1>1, <1>6, <2>2, <3>1 DEF LogsOK
    <3>2. CASE x = t
      <4>1. s.log[t] \in Seq(LogRecords)
        BY <1>2, <1>3
      <4>2. CASE i \in DOMAIN s.log[t]
        <5>1. a.log[x][i] = s.log[t][i]
          BY <1>6, <3>2, <4>1, <4>2
        <5> QED
          BY <1>1, <1>3, <3>2, <4>2, <5>1 DEF LogsOK
      <4>3. CASE i \notin DOMAIN s.log[t]
        <5>1. a.log[x][i] = r
          BY <1>6, <2>2, <3>2, <4>1, <4>3
        <5> QED
          BY <5>1, <3>2
      <4> QED
        BY <4>2, <4>3
    <3> QED
      BY <3>1, <3>2
  <2> QED
    BY <2>1, <2>2 DEF LogsOK
<1>10. ReplayOK(a)
  <2> SUFFICES ASSUME NEW x \in Tablets, NEW i \in DOMAIN a.log[x],
                      a.log[x][i].op = "delete"
               PROVE  DeleteFindsCell(a.ckpt, a.log[x], i)
    BY DEF ReplayOK, ReplayAborts
  <2>1. \A y \in Tablets : \A k \in DOMAIN s.log[y] :
            s.log[y][k].op = "delete" => DeleteFindsCell(s.ckpt, s.log[y], k)
    BY <1>1 DEF ReplayOK, ReplayAborts
  <2>2. CASE x # t
    BY <1>4, <1>6, <2>1, <2>2
  <2>3. CASE x = t
    <3>1. s.log[t] \in Seq(LogRecords)
      BY <1>2, <1>3
    <3>2. CASE i \in DOMAIN s.log[t]
      <4>1. a.log[t][i] = s.log[t][i]
        BY <1>6, <3>1, <3>2
      <4>2. DeleteFindsCell(s.ckpt, s.log[t], i)
        BY <1>3, <2>1, <2>3, <3>2, <4>1
      <4> QED
        BY <1>4, <1>6, <2>3, <3>1, <3>2, <4>2, AppendKeepsFinds
    <3>3. CASE i \notin DOMAIN s.log[t]
      <4>1. i = Len(s.log[t]) + 1 /\ a.log[t][i] = r
        BY <1>6, <2>3, <3>1, <3>3
      <4>2. s.map[r.cell] # NoValue
        BY <4>1, <2>3
      <4>3. ReplaysTo(s.ckpt[r.cell], s.log[t], r.cell, s.map[r.cell])
        BY <1>1, <1>3 DEF MemEquationHolds
      <4>4. DeleteFindsCell(s.ckpt, Append(s.log[t], r), Len(s.log[t]) + 1)
        BY <1>2, <3>1, <4>2, <4>3, AppendFindsCell
      <4> QED
        BY <1>4, <1>6, <2>3, <4>1, <4>4
    <3> QED
      BY <3>2, <3>3
  <2> QED
    BY <2>2, <2>3
<1>11. TableOf(a) = [TableOf(s) EXCEPT ![r.cell] = r.value]
  BY <1>3, <1>4, <1>5, <1>6 DEF TableOf
<1> QED
  BY <1>4, <1>7, <1>8, <1>9, <1>10, <1>11 DEF StoreOK, a

-----------------------------------------------------------------------------
(* The local part of each handler: it keeps StoreOK and acts on the table   *)
(* as the dictionary operation does.                                        *)

\* The table of a sound store has contents, and agrees with the memory of a
\* resident tablet.
LEMMA TableOfType ==
    ASSUME NEW s, StoreOK(s)
    PROVE  /\ TableOf(s) \in Contents
           /\ \A c \in Cells :
                  TabletOf[c] \in Resident(s) => TableOf(s)[c] = s.map[c]
BY StoreFields DEF StoreOK, TableOf, Contents

\* KVGet and KVSget only move tablets.
LEMMA LocalGetOK ==
    ASSUME NEW s, StoreOK(s), NEW c \in Cells
    PROVE  /\ StoreOK(LocalGet(s, c))
           /\ TableOf(LocalGet(s, c)) = TableOf(s)
           /\ TabletOf[c] \in Resident(LocalGet(s, c))
           /\ LocalGet(s, c).map[c] = TableOf(s)[c]
<1>1. TabletOf[c] \in Tablets
  BY TabletOfAssumption
<1>2. LocalGet(s, c) = WithTablet(s, TabletOf[c])
  BY DEF LocalGet
<1>3. /\ StoreOK(LocalGet(s, c))
      /\ TabletOf[c] \in Resident(LocalGet(s, c))
      /\ TableOf(LocalGet(s, c)) = TableOf(s)
  BY <1>1, <1>2, WithTabletOK
<1> QED
  BY <1>3, TableOfType

\* KVPut and KVSput.
LEMMA LocalPutOK ==
    ASSUME NEW s, StoreOK(s), NEW c \in Cells, NEW v \in Values
    PROVE  /\ StoreOK(LocalPut(s, c, v))
           /\ TableOf(LocalPut(s, c, v)) = [TableOf(s) EXCEPT ![c] = v]
<1> DEFINE w == LocalGet(s, c)
           r == PutRecord(c, v)
<1>1. StoreOK(w) /\ TableOf(w) = TableOf(s) /\ TabletOf[c] \in Resident(w)
  BY LocalGetOK
<1>2. r \in LogRecords /\ r.cell = c /\ r.value = v /\ r.op = "put"
  BY DEF PutRecord, LogRecords
<1>3. LocalPut(s, c, v) = LogAndApply(w, r)
  BY DEF LocalPut, LocalGet
<1> HIDE DEF w, r
<1> QED
  BY <1>1, <1>2, <1>3, LogAndApplyOK

\* KVCput and KVScput: the comparison reads the table's value.
LEMMA LocalCputOK ==
    ASSUME NEW s, StoreOK(s), NEW c \in Cells,
           NEW cur \in Values, NEW new \in Values
    PROVE  /\ StoreOK(LocalCput(s, c, cur, new))
           /\ TableOf(LocalCput(s, c, cur, new)) =
                  IF TableOf(s)[c] = cur THEN [TableOf(s) EXCEPT ![c] = new]
                                         ELSE TableOf(s)
<1> DEFINE w == LocalGet(s, c)
           r == PutRecord(c, new)
<1>1. /\ StoreOK(w) /\ TableOf(w) = TableOf(s)
      /\ TabletOf[c] \in Resident(w) /\ w.map[c] = TableOf(s)[c]
  BY LocalGetOK
<1>2. r \in LogRecords /\ r.cell = c /\ r.value = new /\ r.op = "put"
  BY DEF PutRecord, LogRecords
<1>3. LocalCput(s, c, cur, new)
          = IF w.map[c] = cur THEN LogAndApply(w, r) ELSE w
  BY DEF LocalCput, LocalGet
<1> HIDE DEF w, r
<1>4. CASE w.map[c] = cur
  BY <1>1, <1>2, <1>3, <1>4, LogAndApplyOK
<1>5. CASE w.map[c] # cur
  BY <1>1, <1>3, <1>5
<1> QED
  BY <1>4, <1>5

\* KVDelete and KVSdelete: a delete is logged only for a cell of the map.
LEMMA LocalDeleteOK ==
    ASSUME NEW s, StoreOK(s), NEW c \in Cells
    PROVE  /\ StoreOK(LocalDelete(s, c))
           /\ TableOf(LocalDelete(s, c)) =
                  IF TableOf(s)[c] # NoValue
                  THEN [TableOf(s) EXCEPT ![c] = NoValue] ELSE TableOf(s)
<1> DEFINE w == LocalGet(s, c)
           r == DeleteRecord(c)
<1>1. /\ StoreOK(w) /\ TableOf(w) = TableOf(s)
      /\ TabletOf[c] \in Resident(w) /\ w.map[c] = TableOf(s)[c]
  BY LocalGetOK
<1>2. r \in LogRecords /\ r.cell = c /\ r.value = NoValue
  BY DEF DeleteRecord, LogRecords
<1>3. LocalDelete(s, c)
          = IF w.map[c] # NoValue THEN LogAndApply(w, r) ELSE w
  BY DEF LocalDelete, LocalGet
<1> HIDE DEF w, r
<1>4. CASE w.map[c] # NoValue
  BY <1>1, <1>2, <1>3, <1>4, LogAndApplyOK
<1>5. CASE w.map[c] = NoValue
  BY <1>1, <1>3, <1>5
<1> QED
  BY <1>4, <1>5

-----------------------------------------------------------------------------
(* Replay.                                                                  *)

\* A log replays to one value at most.
LEMMA ReplayUnique ==
    ASSUME NEW lg \in Seq(LogRecords), NEW base, NEW c, NEW v, NEW w,
           ReplaysTo(base, lg, c, v), ReplaysTo(base, lg, c, w)
    PROVE  v = w
<1>1. \A i, j \in DOMAIN lg :
          IsLast(i, Records(lg, c)) /\ IsLast(j, Records(lg, c)) => i = j
  BY DEF IsLast, Records
<1> QED
  BY <1>1 DEF ReplaysTo, IsLast

\* Recovery from both files is exact: replaying the log of a resident tablet
\* over its checkpoint (ReplayTablet) rebuilds the memory of the tablet.
THEOREM ReplayRebuildsMemory ==
    ASSUME NEW s, StoreOK(s), NEW c \in Cells,
           TabletOf[c] \in Resident(s)
    PROVE  ReplayCell(s, c) = s.map[c]
<1> DEFINE lg == s.log[TabletOf[c]]
           P(v) == ReplaysTo(s.ckpt[c], lg, c, v)
<1>1. lg \in Seq(LogRecords) /\ s.map[c] \in Values \cup {NoValue}
  BY StoreFields, TabletOfAssumption DEF StoreOK, Contents
<1>2. P(s.map[c])
  BY DEF StoreOK, MemEquationHolds
<1>3. ReplayCell(s, c) = CHOOSE v \in Values \cup {NoValue} : P(v)
  BY DEF ReplayCell
<1>4. P(CHOOSE v \in Values \cup {NoValue} : P(v))
  <2> HIDE DEF P
  <2> QED
    BY <1>1, <1>2
<1> QED
  BY <1>1, <1>2, <1>3, <1>4, ReplayUnique

\* What the loop of ReplayTablet has made of cell c after n records: the value
\* of its last record among them, or what the checkpoint has.
Upto(base, lg, n, c, v) ==
    LET first == {i \in Records(lg, c) : i <= n}
    IN  \/ first = {} /\ v = base[c]
        \/ \E i \in DOMAIN lg : IsLast(i, first) /\ v = lg[i].value

\* The loop gives a cell the value its log replays to.
LEMMA LoopReplays ==
  ASSUME NEW base \in Contents, NEW lg \in Seq(LogRecords), NEW c \in Cells
  PROVE  /\ ReplayLoop(base, lg) \in Contents
         /\ ReplaysTo(base[c], lg, c, ReplayLoop(base, lg)[c])
<1> DEFINE N == Len(lg)
           Round(m, n) == [m EXCEPT ![lg[n].cell] = lg[n].value]
           Loop(f) == [n \in 0 .. N |-> IF n = 0 THEN base
                                        ELSE Round(f[n - 1], n)]
           F == [n \in 1 .. N |-> [m \in Contents |-> Round(m, n)]]
           after == CHOOSE f : f = Loop(f)
<1>1. /\ N \in Nat /\ DOMAIN lg = 1 .. N
      /\ \A n \in 1 .. N : /\ lg[n].cell \in Cells
                            /\ lg[n].value \in Values \cup {NoValue}
  <2>1. \A n \in 1 .. N : lg[n] \in LogRecords
    OBVIOUS
  <2> QED
    BY <2>1 DEF LogRecords
<1>2. \A m \in Contents, n \in 1 .. N : Round(m, n) \in Contents
  BY <1>1 DEF Contents
<1>3. ReplayLoop(base, lg) = after[N]
  BY DEF ReplayLoop
<1> HIDE DEF N
<1>4. \E f : f = Loop(f)
  <2>1. F \in [1 .. N -> [Contents -> Contents]]
    BY <1>2
  <2> HIDE DEF F, Round
  <2>2. PICK f : Runs(f, N, Contents, base, F)
    BY <1>1, <2>1, LoopExists
  <2>3. ASSUME NEW n \in 1 .. N PROVE f[n] = Round(f[n - 1], n)
    <3>1. f[n - 1] \in Contents
      BY <1>1, <2>2 DEF Runs
    <3> QED
      BY <2>2, <3>1 DEF F, Runs
  <2>4. f = Loop(f)
    BY <1>1, <2>2, <2>3 DEF Runs
  <2> QED
    BY <2>4
<1>5. after = Loop(after)
  <2> HIDE DEF Loop
  <2> QED
    BY <1>4
<1> HIDE DEF after, Round
<1>6. /\ after[0] = base
      /\ \A n \in 1 .. N : n - 1 \in 0 .. N /\ after[n] = Round(after[n - 1], n)
  BY <1>1, <1>5
<1> DEFINE out == {n \in 0 .. N : ~ /\ after[n] \in Contents
                                    /\ Upto(base, lg, n, c, after[n][c])}
<1>7. out = {}
  <2> SUFFICES ASSUME out # {} PROVE FALSE
    OBVIOUS
  <2>1. PICK n \in out : \A k \in out : n <= k
    <3>1. out \in SUBSET Nat
      BY <1>1
    <3> HIDE DEF out
    <3> QED
      BY <3>1, LeastNatural
  <2>2. CASE n = 0
    BY <1>1, <1>6, <2>1, <2>2 DEF Upto, Records
  <2>3. CASE n # 0
    <3>1. n \in 1 .. N /\ n - 1 \in 0 .. N /\ n - 1 \notin out
      BY <1>1, <2>1, <2>3
    <3>2. after[n - 1] \in Contents /\ Upto(base, lg, n - 1, c, after[n - 1][c])
      BY <3>1
    <3>3. after[n] = Round(after[n - 1], n) /\ after[n] \in Contents
      BY <1>2, <1>6, <3>1, <3>2
    <3> DEFINE first(k) == {i \in Records(lg, c) : i <= k}
    <3>4. Upto(base, lg, n, c, after[n][c])
      <4>1. CASE lg[n].cell = c
        <5>1. after[n][c] = lg[n].value
          BY <3>2, <3>3, <4>1 DEF Contents, Round
        <5>2. IsLast(n, first(n)) /\ n \in DOMAIN lg
          BY <1>1, <3>1, <4>1 DEF IsLast, Records
        <5> QED
          BY <5>1, <5>2 DEF Upto
      <4>2. CASE lg[n].cell # c
        <5>1. after[n][c] = after[n - 1][c]
          BY <1>1, <3>1, <3>2, <3>3, <4>2 DEF Contents, Round
        <5>2. first(n) = first(n - 1)
          BY <1>1, <3>1, <4>2 DEF Records
        <5> QED
          BY <3>2, <5>1, <5>2 DEF Upto
      <4> QED
        BY <4>1, <4>2
    <3> QED
      BY <2>1, <3>3, <3>4
  <2> QED
    BY <2>2, <2>3
<1>8. after[N] \in Contents /\ Upto(base, lg, N, c, after[N][c])
  BY <1>1, <1>7
<1>9. {i \in Records(lg, c) : i <= N} = Records(lg, c)
  BY <1>1 DEF Records
<1> QED
  BY <1>3, <1>8, <1>9 DEF Upto, ReplaysTo

\* The closed form of the replay is what the loop leaves in the map, for every
\* checkpoint and every log, also those that no handler writes.
THEOREM ReplayCellIsTheLoop ==
  ASSUME NEW s \in Stores, NEW c \in Cells
  PROVE  ReplayCell(s, c) = ReplayLoop(s.ckpt, s.log[TabletOf[c]])[c]
<1> DEFINE lg == s.log[TabletOf[c]]
           P(v) == ReplaysTo(s.ckpt[c], lg, c, v)
           w == ReplayLoop(s.ckpt, lg)[c]
<1>1. s.ckpt \in Contents /\ lg \in Seq(LogRecords)
  BY StoreFields, TabletOfAssumption
<1>2. w \in Values \cup {NoValue} /\ P(w)
  <2> HIDE DEF lg
  <2> QED
    BY <1>1, LoopReplays DEF Contents
<1>3. ReplayCell(s, c) = CHOOSE v \in Values \cup {NoValue} : P(v)
  BY DEF ReplayCell
<1>4. P(CHOOSE v \in Values \cup {NoValue} : P(v))
  <2> HIDE DEF P
  <2> QED
    BY <1>2
<1> QED
  BY <1>1, <1>2, <1>3, <1>4, ReplayUnique
=============================================================================
