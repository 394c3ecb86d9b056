---------------------------- MODULE MasterProofs ----------------------------
(***************************************************************************)
(* Theorems about the master of a cluster, for every number of nodes and   *)
(* every number of crashes and requests.                                   *)
(***************************************************************************)
EXTENDS Master, TLAPS

\* Erasing the i-th element moves those behind it one place forward.
LEMMA RemoveAtElement ==
    ASSUME NEW S, NEW q \in Seq(S), NEW i \in DOMAIN q
    PROVE  /\ RemoveAt(q, i) \in Seq(S)
           /\ DOMAIN RemoveAt(q, i) = 1 .. Len(q) - 1
           /\ \A j \in 1 .. Len(q) - 1 :
                 RemoveAt(q, i)[j] = IF j < i THEN q[j] ELSE q[j + 1]
<1> DEFINE a == SubSeq(q, 1, i - 1)
           b == SubSeq(q, i + 1, Len(q))
<1>1. /\ i \in 1 .. Len(q) /\ Len(q) \in Nat
      /\ a \in Seq(S) /\ Len(a) = i - 1 /\ \A j \in 1 .. i - 1 : a[j] = q[j]
  OBVIOUS
<1>2. /\ b \in Seq(S) /\ Len(b) = Len(q) - i
      /\ \A j \in 1 .. Len(q) - i : b[j] = q[j + i]
  BY <1>1
<1>3. RemoveAt(q, i) = a \o b
  BY DEF RemoveAt
<1> HIDE DEF a, b
<1>4. /\ a \o b \in Seq(S) /\ DOMAIN (a \o b) = 1 .. Len(q) - 1
      /\ \A j \in 1 .. Len(q) - 1 :
            (a \o b)[j] = IF j < i THEN a[j] ELSE b[j - (i - 1)]
  BY <1>1, <1>2
<1>5. ASSUME NEW j \in i .. Len(q) - 1
      PROVE  b[j - (i - 1)] = q[j + 1]
  <2>1. j - (i - 1) \in 1 .. Len(q) - i /\ (j - (i - 1)) + i = j + 1
    BY <1>1
  <2> QED
    BY <1>2, <2>1
<1> QED
  BY <1>1, <1>3, <1>4, <1>5

-----------------------------------------------------------------------------
(* Type correctness.                                                        *)

\* A thread that moves to its next point keeps the type of threads.
LEMMA GotoType ==
    ASSUME TypeOK, NEW p \in Nodes, NEW i, NEW pc \in ThreadPC,
           i \in DOMAIN threads[p], Goto(p, i, pc)
    PROVE  threads' \in [Nodes -> Seq(Threads)]
  <1>1. threads[p] \in Seq(Threads)
    BY DEF TypeOK
  <1>2. threads[p][i] \in Threads
    BY <1>1
  <1>3. [threads[p][i] EXCEPT !.pc = pc] \in Threads
    BY <1>2 DEF Threads
  <1>4. [threads[p] EXCEPT ![i] = [threads[p][i] EXCEPT !.pc = pc]]
            \in Seq(Threads)
    BY <1>1, <1>3
  <1>5. QED
    BY <1>4 DEF TypeOK, Goto

\* A process that dies leaves well-typed variables behind.
LEMMA KillType ==
    ASSUME TypeOK, NEW n \in Nodes, Kill(n)
    PROVE  /\ status' \in [Nodes -> NodeStatus]
           /\ threads' \in [Nodes -> Seq(Threads)]
           /\ slot' \in [Nodes -> Nodes \cup {NoNode}]
           /\ unseen' \subseteq Nodes
  <1>1. << >> \in Seq(Threads)
    OBVIOUS
  <1>2. QED
    BY <1>1 DEF TypeOK, Kill, NodeStatus

\* An accepted or refused recovery request keeps the types.
LEMMA RequestRecoveryType ==
    ASSUME TypeOK, NEW p \in Nodes, NEW n \in Nodes, RequestRecovery(p, n)
    PROVE  /\ status' \in [Nodes -> NodeStatus]
           /\ threads' \in [Nodes -> Seq(Threads)]
           /\ slot' \in [Nodes -> Nodes \cup {NoNode}]
           /\ view' \in [Nodes -> NodeStatus]
           /\ primary' = primary /\ stopped' = stopped /\ unseen' = unseen
  <1> DEFINE t == [pc |-> "read", target |-> NoNode]
  <1>1. t \in Threads
    BY DEF Threads, ThreadPC
  <1>2. Append(threads[p], t) \in Seq(Threads)
    BY <1>1 DEF TypeOK
  <1>3. CASE Accepts(p, n)
    <2>1. StartThread(p, n) /\ SetView(n, "RECOVERING")
      BY <1>3 DEF RequestRecovery
    <2>2. /\ status' \in [Nodes -> NodeStatus]
          /\ threads' \in [Nodes -> Seq(Threads)]
      BY <1>2, <2>1 DEF TypeOK, StartThread, NodeStatus
    <2>3. slot' \in [Nodes -> Nodes \cup {NoNode}] /\ unseen' = unseen
      BY <2>1 DEF TypeOK, StartThread
    <2>4. /\ view' \in [Nodes -> NodeStatus]
          /\ primary' = primary /\ stopped' = stopped
      BY <2>1 DEF TypeOK, SetView, NodeStatus
    <2>5. QED
      BY <2>2, <2>3, <2>4
  <1>4. CASE ~Accepts(p, n)
    BY <1>4 DEF TypeOK, RequestRecovery, nodeVars
  <1>5. QED
    BY <1>3, <1>4

\* The next primary is a node, or what the caller falls back to.
LEMMA NextPrimaryType ==
    ASSUME NEW v, NEW otherwise \in Nodes \cup {NoNode},
           NextPrimary(v, otherwise)
    PROVE  /\ primary' \in Nodes \cup {NoNode}
           /\ primary' = otherwise \/ (primary' \in Nodes /\ v[primary'] = "RUNNING")
  BY DEF NextPrimary

\* Acting on a health answer keeps the types, one case per answer.
LEMMA HealthUpdateType ==
    ASSUME TypeOK, HealthUpdate
    PROVE  TypeOK'
  <1> USE DEF TypeOK
  <1>1. /\ lockLost' = lockLost /\ crashes' = crashes /\ requests' = requests
        /\ answer' = "none"
    BY DEF HealthUpdate, counters
  <1>2. checking' \in Nodes
    BY ReplicasAssumption DEF HealthUpdate, NextChecked, Nodes
  <1>3. CASE AnswerCrashed(checking)
    <2>1. view' \in [Nodes -> NodeStatus]
      BY <1>3 DEF AnswerCrashed, NodeStatus
    <2>2. primary' \in Nodes \cup {NoNode}
      BY <1>3, NextPrimaryType DEF AnswerCrashed
    <2>3. QED
      BY <1>1, <1>2, <1>3, <2>1, <2>2 DEF AnswerCrashed, nodeVars
  <1>4. CASE AnswerRunning(checking)
    <2>0. checking # NoNode
      BY DEF Nodes, NoNode
    <2>1. CASE view[checking] # "CRASHED"
      BY <1>1, <1>2, <1>4, <2>1
         DEF AnswerRunning, SetView, NodeStatus, nodeVars
    <2>2. CASE view[checking] = "CRASHED" /\ primary = NoNode
      BY <1>1, <1>2, <1>4, <2>0, <2>2 DEF AnswerRunning, NodeStatus, nodeVars
    <2>3. CASE view[checking] = "CRASHED" /\ primary = checking
      BY <1>1, <1>2, <1>4, <2>0, <2>3
         DEF AnswerRunning, Stop, Stops, nodeVars
    <2>4. CASE view[checking] = "CRASHED" /\ primary \notin {NoNode, checking}
      <3>1. RequestRecovery(primary, checking)
        BY <1>4, <2>4 DEF AnswerRunning
      <3>2. QED
        BY <1>1, <1>2, <2>4, <3>1, RequestRecoveryType
    <2>5. QED
      BY <2>1, <2>2, <2>3, <2>4
  <1>5. CASE AnswerSuspended(checking)
    <2>1. /\ status' = status /\ threads' = threads /\ slot' = slot
          /\ unseen' = unseen
      BY <1>5 DEF AnswerSuspended, nodeVars
    <2>2. /\ view' \in [Nodes -> NodeStatus]
          /\ primary' = primary
          /\ stopped' \in Stops
      <3>1. view[checking] \in NodeStatus
        OBVIOUS
      <3>2. QED
        BY <1>5, <3>1 DEF AnswerSuspended, SetView, Stop, Stops, NodeStatus
    <2>3. QED
      BY <1>1, <1>2, <2>1, <2>2
  <1>6. CASE AnswerRecovering(checking)
    <2>1. /\ status' = status /\ threads' = threads /\ slot' = slot
          /\ unseen' = unseen
      BY <1>6 DEF AnswerRecovering, nodeVars
    <2>2. /\ view' \in [Nodes -> NodeStatus]
          /\ primary' = primary
          /\ stopped' \in Stops
      <3>1. view[checking] \in NodeStatus
        OBVIOUS
      <3>2. QED
        BY <1>6, <3>1 DEF AnswerRecovering, SetView, Stop, Stops, NodeStatus
    <2>3. QED
      BY <1>1, <1>2, <2>1, <2>2
  <1>7. QED
    BY <1>3, <1>4, <1>5, <1>6 DEF HealthUpdate

\* A request of the console keeps the types and stays within its bound.
LEMMA OperatorType ==
    ASSUME TypeOK, Operator
    PROVE  TypeOK'
  <1> USE DEF TypeOK
  <1>1. crashes' = crashes /\ requests' \in 0 .. MaxRequests
    BY BoundsAssumption DEF Operator
  <1>2. PICK n \in Nodes : Suspend(n) \/ ReviveRefused(n) \/ Revive(n)
    BY DEF Operator
  <1>3. CASE Suspend(n)
    <2>1. /\ view' \in [Nodes -> NodeStatus]
          /\ status' \in [Nodes -> NodeStatus]
      BY <1>3 DEF Suspend, NodeStatus
    <2>2. primary' \in Nodes \cup {NoNode}
      BY <1>3, NextPrimaryType DEF Suspend
    <2>3. QED
      BY <1>1, <1>3, <2>1, <2>2 DEF Suspend, healthVars
  <1>4. CASE ReviveRefused(n)
    BY <1>1, <1>4 DEF ReviveRefused, nodeVars, healthVars
  <1>5. CASE Revive(n)
    <2>1. checking' = checking /\ answer' = answer /\ lockLost' = lockLost
      BY <1>5 DEF Revive, healthVars
    <2>2. CASE primary = NoNode
      BY <1>1, <1>5, <2>1, <2>2 DEF Revive, Stop, Stops, nodeVars
    <2>3. CASE primary # NoNode
      <3>1. RequestRecovery(primary, n)
        BY <1>5, <2>3 DEF Revive
      <3>2. QED
        BY <1>1, <2>1, <2>3, <3>1, RequestRecoveryType
    <2>4. QED
      BY <2>2, <2>3
  <1>6. QED
    BY <1>2, <1>3, <1>4, <1>5

\* Every step of a recovery thread keeps the types.
LEMMA ThreadStepType ==
    ASSUME TypeOK, NEW p \in Nodes, ThreadStep(p)
    PROVE  TypeOK'
  <1> USE DEF TypeOK
  <1>0. PICK i \in DOMAIN threads[p] :
            \/ ReadTarget(p, i) \/ SendSrecovery(p, i) \/ SendReplay(p, i)
            \/ SetRunning(p, i) \/ NotifyRecoveryFinished(p, i)
            \/ ClearTarget(p, i)
    BY DEF ThreadStep
  <1>1. crashes' = crashes /\ requests' = requests
    BY <1>0 DEF ReadTarget, SendSrecovery, SendReplay, SetRunning,
                NotifyRecoveryFinished, ClearTarget, counters
  <1>2. threads[p][i] \in Threads
    OBVIOUS
  <1>3. CASE ReadTarget(p, i)
    <2>1. CASE slot[p] = NoNode
      BY <1>1, <1>3, <2>1, KillType DEF ReadTarget, masterVars
    <2>2. CASE slot[p] # NoNode
      <3>1. [pc |-> "srecovery", target |-> slot[p]] \in Threads
        BY DEF Threads, ThreadPC
      <3>2. [threads[p] EXCEPT ![i] = [pc |-> "srecovery", target |-> slot[p]]]
                \in Seq(Threads)
        BY <3>1
      <3>3. QED
        BY <1>1, <1>3, <2>2, <3>2 DEF ReadTarget, masterVars
    <2>3. QED
      BY <2>1, <2>2
  <1>4. CASE SendSrecovery(p, i)
    <2>1. threads' \in [Nodes -> Seq(Threads)]
      BY <1>4, GotoType DEF SendSrecovery, ThreadPC
    <2>2. status' \in [Nodes -> NodeStatus]
      BY <1>4 DEF SendSrecovery, NodeStatus
    <2>3. QED
      BY <1>1, <1>4, <2>1, <2>2 DEF SendSrecovery, masterVars
  <1>5. CASE SendReplay(p, i)
    <2>1. threads' \in [Nodes -> Seq(Threads)]
      BY <1>5, GotoType DEF SendReplay, ThreadPC
    <2>2. status' \in [Nodes -> NodeStatus]
      BY <1>5 DEF SendReplay, NodeStatus
    <2>3. QED
      BY <1>1, <1>5, <2>1, <2>2 DEF SendReplay, masterVars
  <1>6. CASE SetRunning(p, i)
    <2>1. threads' \in [Nodes -> Seq(Threads)]
      BY <1>6, GotoType DEF SetRunning, ThreadPC
    <2>2. status' \in [Nodes -> NodeStatus]
      BY <1>6 DEF SetRunning, NodeStatus
    <2>3. QED
      BY <1>1, <1>6, <2>1, <2>2 DEF SetRunning, masterVars
  <1>7. CASE NotifyRecoveryFinished(p, i)
    <2>1. threads' \in [Nodes -> Seq(Threads)]
      BY <1>7, GotoType DEF NotifyRecoveryFinished, ThreadPC
    <2>2. view' \in [Nodes -> NodeStatus] /\ primary' = primary /\ stopped' \in Stops
      BY <1>7 DEF NotifyRecoveryFinished, SetView, Stop, Stops, NodeStatus
    <2>3. QED
      BY <1>1, <1>7, <2>1, <2>2 DEF NotifyRecoveryFinished, healthVars
  <1>8. CASE ClearTarget(p, i)
    <2>1. RemoveAt(threads[p], i) \in Seq(Threads)
      BY RemoveAtElement
    <2>2. QED
      BY <1>1, <1>8, <2>1 DEF ClearTarget, Exit, masterVars
  <1>9. QED
    BY <1>0, <1>3, <1>4, <1>5, <1>6, <1>7, <1>8

\* Type correctness is inductive: one step per disjunct of Next.
LEMMA NextType == TypeOK /\ [Next]_vars => TypeOK'
  <1> SUFFICES ASSUME TypeOK, [Next]_vars PROVE TypeOK'
    OBVIOUS
  <1>1. CASE HealthCall
    BY <1>1 DEF HealthCall, TypeOK, nodeVars, counters
  <1>2. CASE HealthUpdate
    BY <1>2, HealthUpdateType
  <1>3. CASE Operator
    BY <1>3, OperatorType
  <1>4. ASSUME NEW n \in Nodes, ThreadStep(n) PROVE TypeOK'
    BY <1>4, ThreadStepType
  <1>5. ASSUME NEW n \in Nodes, Crash(n) PROVE TypeOK'
    <2>1. crashes' \in 0 .. MaxCrashes
      BY <1>5, BoundsAssumption DEF Crash, TypeOK
    <2>2. Kill(n)
      BY <1>5 DEF Crash
    <2>3. /\ status' \in [Nodes -> NodeStatus]
          /\ threads' \in [Nodes -> Seq(Threads)]
          /\ slot' \in [Nodes -> Nodes \cup {NoNode}]
          /\ unseen' \subseteq Nodes
      BY <2>2, KillType
    <2>4. QED
      BY <1>5, <2>1, <2>3 DEF Crash, TypeOK, masterVars
  <1>6. ASSUME NEW n \in Nodes, Restart(n) PROVE TypeOK'
    BY <1>6 DEF Restart, TypeOK, masterVars, counters, NodeStatus
  <1>7. CASE UNCHANGED vars
    BY <1>7 DEF vars, TypeOK
  <1>8. QED
    BY <1>1, <1>2, <1>3, <1>4, <1>5, <1>6, <1>7 DEF Next

\* The cold start, in which the master has every node as CRASHED, is well typed.
LEMMA InitType == Init => TypeOK
  <1>1. << >> \in Seq(Threads)
    OBVIOUS
  <1>2. 1 \in Nodes
    BY ReplicasAssumption DEF Nodes
  <1>3. 0 \in 0 .. MaxCrashes /\ 0 \in 0 .. MaxRequests
    BY BoundsAssumption
  <1> SUFFICES ASSUME Init PROVE TypeOK
    OBVIOUS
  <1>4. threads \in [Nodes -> Seq(Threads)]
    BY <1>1 DEF Init
  <1>5. status \in [Nodes -> NodeStatus] /\ view \in [Nodes -> NodeStatus]
    BY DEF Init, NodeStatus
  <1>6. slot \in [Nodes -> Nodes \cup {NoNode}]
    BY DEF Init
  <1>7. QED
    BY <1>2, <1>3, <1>4, <1>5, <1>6 DEF Init, TypeOK, Stops

\* The variables of the master and of the nodes always have their types.
THEOREM MasterTypeCorrect == Spec => []TypeOK
  BY InitType, NextType, PTL DEF Spec

-----------------------------------------------------------------------------
(* One recovery at a time.                                                  *)

\* No recovery of a node by itself.
NotOwnTarget ==
    \A p \in Nodes :
        /\ slot[p] # p
        /\ \A i \in DOMAIN threads[p] : threads[p][i].target # p

\* A node found crashed leads no recovery, even if it has come back before
\* the master acts on what it found: only the master could have asked it to.
CrashedAnswer ==
    requests = 0 /\ answer = "CRASHED" => Leading(checking) = {}

\* RecoveryExclusive alone is not inductive.  SendReplay sets a target RUNNING,
\* which must not be a leader: with one leader only, NotOwnTarget says so.
\* AnswerCrashed takes the primary away, which must not be leading either.
IInv == /\ TypeOK
        /\ NotOwnTarget
        /\ CrashedAnswer
        /\ PrimaryNotCrashed
        /\ RecoveryExclusive

\* The cold start satisfies the inductive invariant: no thread, no primary.
LEMMA InitIInv == Init => IInv
  <1> SUFFICES ASSUME Init PROVE IInv
    OBVIOUS
  <1>1. TypeOK
    BY InitType
  <1>2. \A p \in Nodes : threads[p] = << >> /\ slot[p] = NoNode
    BY DEF Init
  <1>3. \A p \in Nodes : p # NoNode
    BY DEF Nodes, NoNode
  <1>4. \A p \in Nodes : Leading(p) = {}
    BY <1>2 DEF Leading
  <1>5. NotOwnTarget
    BY <1>2, <1>3 DEF NotOwnTarget
  <1>6. CrashedAnswer /\ PrimaryNotCrashed
    BY DEF Init, CrashedAnswer, PrimaryNotCrashed
  <1>7. RecoveryExclusive
    BY <1>4 DEF RecoveryExclusive
  <1>8. QED
    BY <1>1, <1>5, <1>6, <1>7 DEF IInv

\* A step that starts no recovery and takes RECOVERING from no leader keeps
\* recoveries exclusive, if the primary stays.
LEMMA LeadersShrink ==
    ASSUME IInv, requests' = requests, primary' = primary,
           \A m \in Nodes : Leading(m)' \subseteq Leading(m),
           requests = 0 => \A m \in Nodes :
               Leading(m)' # {} => status'[m] = "RECOVERING"
    PROVE  RecoveryExclusive'
  BY DEF IInv, RecoveryExclusive

\* A step that starts no recovery keeps CrashedAnswer, if the answer stays.
LEMMA AnswerKept ==
    ASSUME IInv, requests' = requests, answer' = answer, checking' = checking,
           \A m \in Nodes : Leading(m)' \subseteq Leading(m)
    PROVE  CrashedAnswer'
  BY DEF IInv, TypeOK, CrashedAnswer

\* Moving on in a recovery thread changes no target, and the thread leads
\* afterwards only if it did before.
LEMMA GotoLeading ==
    ASSUME TypeOK, NotOwnTarget, NEW p \in Nodes, NEW i \in DOMAIN threads[p],
           NEW pc, Goto(p, i, pc),
           i \in Leading(p) \/ pc \in {"notify", "clear"}
    PROVE  /\ \A m \in Nodes : Leading(m)' \subseteq Leading(m)
           /\ \A m \in Nodes : \A j \in DOMAIN threads'[m] :
                 threads'[m][j].target # m
           /\ pc \in {"notify", "clear"} => i \notin Leading(p)'
  <1>1. \A m \in Nodes : threads[m] \in Seq(Threads)
    BY DEF TypeOK
  <1>2. threads[p][i] \in Threads
    BY <1>1
  <1> DEFINE x == [threads[p][i] EXCEPT !.pc = pc]
             q == [threads[p] EXCEPT ![i] = x]
  <1>3. x.pc = pc /\ x.target = threads[p][i].target
    BY <1>2 DEF Threads
  <1>4. /\ DOMAIN q = DOMAIN threads[p]
        /\ q[i] = x
        /\ \A j \in DOMAIN threads[p] : j # i => q[j] = threads[p][j]
    OBVIOUS
  <1>5. /\ threads'[p] = q
        /\ \A m \in Nodes : m # p => threads'[m] = threads[m]
    BY DEF Goto, TypeOK
  <1> HIDE DEF x, q
  <1>6. ASSUME NEW m \in Nodes
        PROVE  Leading(m)' \subseteq Leading(m)
    BY <1>3, <1>4, <1>5 DEF Leading
  <1>7. ASSUME NEW m \in Nodes, NEW j \in DOMAIN threads'[m]
        PROVE  threads'[m][j].target # m
    BY <1>3, <1>4, <1>5 DEF NotOwnTarget
  <1>8. pc \in {"notify", "clear"} => i \notin Leading(p)'
    BY <1>3, <1>4, <1>5 DEF Leading
  <1>9. QED
    BY <1>6, <1>7, <1>8

\* A process that dies leads nothing.
LEMMA KillLeading ==
    ASSUME IInv, NEW n \in Nodes, Kill(n)
    PROVE  /\ \A m \in Nodes : Leading(m)' \subseteq Leading(m)
           /\ NotOwnTarget'
           /\ requests = 0 => \A m \in Nodes :
                 Leading(m)' # {} => status'[m] = "RECOVERING"
  <1>1. /\ threads'[n] = << >> /\ slot'[n] = NoNode
        /\ \A m \in Nodes : m # n => /\ threads'[m] = threads[m]
                                     /\ slot'[m] = slot[m]
                                     /\ status'[m] = status[m]
    BY DEF Kill, IInv, TypeOK
  <1>2. Leading(n)' = {}
    BY <1>1 DEF Leading
  <1>3. \A m \in Nodes : m # n => Leading(m)' = Leading(m)
    BY <1>1 DEF Leading
  <1>4. NotOwnTarget'
    BY <1>1 DEF NotOwnTarget, IInv, Nodes, NoNode
  <1>5. QED
    BY <1>1, <1>2, <1>3, <1>4 DEF IInv, RecoveryExclusive

\* The inductive invariant survives every step of a recovery thread.
LEMMA ThreadStepIInv ==
    ASSUME IInv, NEW p \in Nodes, ThreadStep(p)
    PROVE  IInv'
  <1> USE DEF IInv
  <1>0. PICK i \in DOMAIN threads[p] :
            \/ ReadTarget(p, i) \/ SendSrecovery(p, i) \/ SendReplay(p, i)
            \/ SetRunning(p, i) \/ NotifyRecoveryFinished(p, i)
            \/ ClearTarget(p, i)
    BY DEF ThreadStep
  <1>1. TypeOK'
    BY ThreadStepType
  <1>2. requests' = requests /\ answer' = answer /\ checking' = checking
    BY <1>0 DEF ReadTarget, SendSrecovery, SendReplay, SetRunning, masterVars,
                NotifyRecoveryFinished, ClearTarget, counters, healthVars
  <1>3. CASE ReadTarget(p, i)
    <2>1. primary' = primary /\ view' = view /\ stopped' = stopped
      BY <1>3 DEF ReadTarget, masterVars
    <2>2. CASE slot[p] = NoNode
      <3>1. Kill(p)
        BY <1>3, <2>2 DEF ReadTarget
      <3>2. QED
        BY <1>1, <1>2, <2>1, <3>1, KillLeading, LeadersShrink, AnswerKept
           DEF PrimaryNotCrashed
    <2>3. CASE slot[p] # NoNode
      <3> DEFINE x == [pc |-> "srecovery", target |-> slot[p]]
      <3>1. /\ threads' = [threads EXCEPT ![p][i] = x]
            /\ status' = status /\ slot' = slot
        BY <1>3, <2>3 DEF ReadTarget
      <3>2. threads[p][i].pc = "read"
        BY <1>3 DEF ReadTarget, At
      <3>3. /\ DOMAIN threads'[p] = DOMAIN threads[p]
            /\ threads'[p][i] = x
            /\ \A j \in DOMAIN threads[p] :
                   j # i => threads'[p][j] = threads[p][j]
            /\ \A m \in Nodes : m # p => threads'[m] = threads[m]
        BY <3>1 DEF TypeOK
      <3>4. \A m \in Nodes : Leading(m)' \subseteq Leading(m)
        BY <3>2, <3>3 DEF Leading
      <3>5. NotOwnTarget'
        BY <3>1, <3>3 DEF NotOwnTarget
      <3>6. requests = 0 => \A m \in Nodes :
                Leading(m)' # {} => status'[m] = "RECOVERING"
        BY <3>1, <3>4 DEF RecoveryExclusive
      <3>7. QED
        BY <1>1, <1>2, <2>1, <3>4, <3>5, <3>6, LeadersShrink, AnswerKept
           DEF PrimaryNotCrashed
    <2>4. QED
      BY <2>2, <2>3
  <1>4. CASE SendSrecovery(p, i)
    <2>1. primary' = primary /\ view' = view /\ stopped' = stopped /\ slot' = slot
      BY <1>4 DEF SendSrecovery, masterVars
    <2>2. i \in Leading(p) /\ Goto(p, i, "replay")
      BY <1>4 DEF SendSrecovery, At, Leading
    <2>3. /\ \A m \in Nodes : Leading(m)' \subseteq Leading(m)
          /\ \A m \in Nodes : \A j \in DOMAIN threads'[m] :
                threads'[m][j].target # m
      BY <2>2, GotoLeading
    <2>4. \A m \in Nodes :
              status[m] = "RECOVERING" => status'[m] = "RECOVERING"
      BY <1>4 DEF SendSrecovery, TypeOK
    <2>5. requests = 0 => \A m \in Nodes :
              Leading(m)' # {} => status'[m] = "RECOVERING"
      BY <2>3, <2>4 DEF RecoveryExclusive
    <2>6. NotOwnTarget'
      BY <2>1, <2>3 DEF NotOwnTarget
    <2>7. QED
      BY <1>1, <1>2, <2>1, <2>3, <2>5, <2>6, LeadersShrink, AnswerKept
         DEF PrimaryNotCrashed
  <1>5. CASE SendReplay(p, i)
    <2>1. primary' = primary /\ view' = view /\ stopped' = stopped /\ slot' = slot
      BY <1>5 DEF SendReplay, masterVars
    <2>2. i \in Leading(p) /\ Goto(p, i, "run")
      BY <1>5 DEF SendReplay, At, Leading
    <2>3. /\ \A m \in Nodes : Leading(m)' \subseteq Leading(m)
          /\ \A m \in Nodes : \A j \in DOMAIN threads'[m] :
                threads'[m][j].target # m
      BY <2>2, GotoLeading
    <2>4. threads[p][i].target # p
      BY DEF NotOwnTarget
    <2>5. \A m \in Nodes : m # threads[p][i].target => status'[m] = status[m]
      BY <1>5 DEF SendReplay, TypeOK
    <2>6. requests = 0 => \A m \in Nodes :
              Leading(m) # {} => m = p
      BY <2>2 DEF RecoveryExclusive
    <2>7. requests = 0 => \A m \in Nodes :
              Leading(m)' # {} => status'[m] = "RECOVERING"
      BY <2>3, <2>4, <2>5, <2>6 DEF RecoveryExclusive
    <2>8. NotOwnTarget'
      BY <2>1, <2>3 DEF NotOwnTarget
    <2>9. QED
      BY <1>1, <1>2, <2>1, <2>3, <2>7, <2>8, LeadersShrink, AnswerKept
         DEF PrimaryNotCrashed
  <1>6. CASE SetRunning(p, i)
    <2>1. primary' = primary /\ view' = view /\ stopped' = stopped /\ slot' = slot
      BY <1>6 DEF SetRunning, masterVars
    <2>2. i \in Leading(p) /\ Goto(p, i, "notify")
      BY <1>6 DEF SetRunning, At, Leading
    <2>3. /\ \A m \in Nodes : Leading(m)' \subseteq Leading(m)
          /\ \A m \in Nodes : \A j \in DOMAIN threads'[m] :
                threads'[m][j].target # m
          /\ i \notin Leading(p)'
      BY <2>2, GotoLeading
    <2>4. requests = 0 => Leading(p)' = {}
      BY <2>2, <2>3 DEF RecoveryExclusive
    <2>5. \A m \in Nodes : m # p => status'[m] = status[m]
      BY <1>6 DEF SetRunning, TypeOK
    <2>6. requests = 0 => \A m \in Nodes :
              Leading(m)' # {} => status'[m] = "RECOVERING"
      BY <2>3, <2>4, <2>5 DEF RecoveryExclusive
    <2>7. NotOwnTarget'
      BY <2>1, <2>3 DEF NotOwnTarget
    <2>8. QED
      BY <1>1, <1>2, <2>1, <2>3, <2>6, <2>7, LeadersShrink, AnswerKept
         DEF PrimaryNotCrashed
  <1>7. CASE NotifyRecoveryFinished(p, i)
    <2>1. slot' = slot /\ status' = status
      BY <1>7 DEF NotifyRecoveryFinished
    <2>2. Goto(p, i, "clear")
      BY <1>7 DEF NotifyRecoveryFinished
    <2>3. /\ \A m \in Nodes : Leading(m)' \subseteq Leading(m)
          /\ \A m \in Nodes : \A j \in DOMAIN threads'[m] :
                threads'[m][j].target # m
      BY <2>2, GotoLeading
    <2>4. /\ primary' = primary
          /\ \A n \in Nodes : view'[n] = "CRASHED" => view[n] = "CRASHED"
          /\ stopped' = "crashed primary" => stopped = "crashed primary"
      BY <1>7 DEF NotifyRecoveryFinished, SetView, Stop, TypeOK
    <2>5. PrimaryNotCrashed'
      BY <2>4 DEF PrimaryNotCrashed, TypeOK
    <2>6. requests = 0 => \A m \in Nodes :
              Leading(m)' # {} => status'[m] = "RECOVERING"
      BY <2>1, <2>3 DEF RecoveryExclusive
    <2>7. NotOwnTarget'
      BY <2>1, <2>3 DEF NotOwnTarget
    <2>8. QED
      BY <1>1, <1>2, <2>3, <2>4, <2>5, <2>6, <2>7, LeadersShrink, AnswerKept
  <1>8. CASE ClearTarget(p, i)
    <2>1. /\ primary' = primary /\ view' = view /\ stopped' = stopped
          /\ status' = status
      BY <1>8 DEF ClearTarget, masterVars
    <2>2. threads[p] \in Seq(Threads)
      BY DEF TypeOK
    <2>3. /\ threads'[p] = RemoveAt(threads[p], i)
          /\ \A m \in Nodes : m # p => threads'[m] = threads[m]
      BY <1>8 DEF ClearTarget, Exit, TypeOK
    <2>4. \A j \in DOMAIN threads'[p] :
              \/ j < i /\ j \in DOMAIN threads[p]
                 /\ threads'[p][j] = threads[p][j]
              \/ j >= i /\ j + 1 \in DOMAIN threads[p]
                 /\ threads'[p][j] = threads[p][j + 1]
      <3>1. /\ i \in 1 .. Len(threads[p]) /\ Len(threads[p]) \in Nat
            /\ DOMAIN threads[p] = 1 .. Len(threads[p])
        BY <2>2
      <3> DEFINE q == threads[p]
      <3>2. /\ DOMAIN threads'[p] = 1 .. Len(q) - 1
            /\ \A j \in 1 .. Len(q) - 1 :
                  threads'[p][j] = IF j < i THEN q[j] ELSE q[j + 1]
        <4> HIDE DEF q
        <4> QED
          BY <2>2, <2>3, <3>1, RemoveAtElement DEF q
      <3> QED
        BY <3>1, <3>2
    <2>5. \A m \in Nodes : m # p => Leading(m)' = Leading(m)
      BY <2>3 DEF Leading
    <2>6. ASSUME NEW j \in Leading(p)'
          PROVE  \/ j < i /\ j \in Leading(p)
                 \/ j >= i /\ j + 1 \in Leading(p)
      <3>1. j \in DOMAIN threads'[p]
        BY DEF Leading
      <3>2. CASE j < i /\ j \in DOMAIN threads[p]
                 /\ threads'[p][j] = threads[p][j]
        BY <3>2 DEF Leading
      <3>3. CASE j >= i /\ j + 1 \in DOMAIN threads[p]
                 /\ threads'[p][j] = threads[p][j + 1]
        BY <3>3 DEF Leading
      <3>4. QED
        BY <2>4, <3>1, <3>2, <3>3, Zenon
    <2>7. NotOwnTarget'
      <3>1. slot' = [slot EXCEPT ![p] = NoNode]
        BY <1>8 DEF ClearTarget
      <3>2. \A m \in Nodes : slot'[m] # m
        <4>1. \A m \in Nodes : slot'[m] = IF m = p THEN NoNode ELSE slot[m]
          BY <3>1 DEF TypeOK
        <4>2. NoNode \notin Nodes
          BY DEF Nodes, NoNode
        <4> QED
          BY <4>1, <4>2 DEF NotOwnTarget
      <3>3. \A m \in Nodes : \A j \in DOMAIN threads'[m] :
                threads'[m][j].target # m
        BY <2>3, <2>4 DEF NotOwnTarget
      <3>4. QED
        BY <3>2, <3>3 DEF NotOwnTarget
    <2>8. RecoveryExclusive'
      <3> SUFFICES ASSUME requests = 0, NEW m \in Nodes
                   PROVE  /\ \A j, k \in Leading(m)' : j = k
                          /\ Leading(m)' # {} => /\ primary = m
                                                 /\ status[m] = "RECOVERING"
        BY <1>2, <2>1 DEF RecoveryExclusive
      <3>1. CASE m # p
        BY <2>5, <3>1 DEF RecoveryExclusive
      <3>2. CASE m = p
        <4>1. \A j, k \in Leading(p) : j = k
          BY DEF RecoveryExclusive
        <4>2. \A j \in Leading(p)' : j \in Int
          BY <1>1 DEF TypeOK, Leading
        <4>3. i \in Int
          BY <2>2
        <4>4. \A j, k \in Leading(p)' : j = k
          BY <2>6, <4>1, <4>2, <4>3
        <4>5. Leading(p)' # {} => Leading(p) # {}
          BY <2>6
        <4>6. QED
          BY <3>2, <4>4, <4>5 DEF RecoveryExclusive
      <3>3. QED
        BY <3>1, <3>2
    <2>9. CrashedAnswer'
      BY <1>2, <2>5, <2>6 DEF CrashedAnswer, TypeOK
    <2>10. QED
      BY <1>1, <2>1, <2>7, <2>8, <2>9 DEF PrimaryNotCrashed
  <1>9. QED
    BY <1>0, <1>3, <1>4, <1>5, <1>6, <1>7, <1>8

\* The primary accepts a recovery only when it is RUNNING, hence leads none.
LEMMA RequestRecoveryExclusive ==
    ASSUME IInv, NEW p \in Nodes, p = primary, NEW n \in Nodes, n # p,
           RequestRecovery(p, n)
    PROVE  /\ NotOwnTarget'
           /\ requests' = requests => RecoveryExclusive'
  <1> USE DEF IInv
  <1>1. CASE ~Accepts(p, n)
    <2>1. /\ status' = status /\ threads' = threads /\ slot' = slot
          /\ primary' = primary
      BY <1>1 DEF RequestRecovery, nodeVars
    <2>2. \A m \in Nodes : Leading(m)' = Leading(m)
      BY <2>1 DEF Leading
    <2>3. QED
      BY <2>1, <2>2 DEF NotOwnTarget, RecoveryExclusive
  <1>2. CASE Accepts(p, n)
    <2> DEFINE x == [pc |-> "read", target |-> NoNode]
    <2>1. /\ status' = [status EXCEPT ![p] = "RECOVERING"]
          /\ slot' = [slot EXCEPT ![p] = n]
          /\ threads' = [threads EXCEPT ![p] = Append(threads[p], x)]
          /\ primary' = primary
      BY <1>2 DEF RequestRecovery, StartThread, SetView
    <2>2. threads[p] \in Seq(Threads) /\ x \in Threads
      BY DEF TypeOK, Threads, ThreadPC
    <2>3. /\ threads'[p] = Append(threads[p], x)
          /\ \A m \in Nodes : m # p => threads'[m] = threads[m]
      BY <2>1 DEF TypeOK
    <2>4. \A j \in DOMAIN threads'[p] :
              \/ j \in DOMAIN threads[p] /\ threads'[p][j] = threads[p][j]
              \/ j = Len(threads[p]) + 1 /\ threads'[p][j] = x
      BY <2>2, <2>3
    <2>5. x.target = NoNode
      OBVIOUS
    <2> HIDE DEF x
    <2>6. NotOwnTarget'
      <3>1. \A m \in Nodes : slot'[m] # m
        BY <2>1 DEF TypeOK, NotOwnTarget
      <3>2. \A m \in Nodes : m # NoNode
        BY DEF Nodes, NoNode
      <3>3. \A m \in Nodes : \A j \in DOMAIN threads'[m] :
                threads'[m][j].target # m
        BY <2>3, <2>4, <2>5, <3>2 DEF NotOwnTarget
      <3>4. QED
        BY <3>1, <3>3 DEF NotOwnTarget
    <2>7. ASSUME requests' = requests
          PROVE  RecoveryExclusive'
      <3> SUFFICES ASSUME requests = 0, NEW m \in Nodes
                   PROVE  /\ \A j, k \in Leading(m)' : j = k
                          /\ Leading(m)' # {} => /\ primary = m
                                                 /\ status'[m] = "RECOVERING"
        BY <2>1, <2>7 DEF RecoveryExclusive
      <3>1. CASE m # p
        <4>1. Leading(m)' = Leading(m)
          BY <2>3, <3>1 DEF Leading
        <4>2. Leading(m) = {}
          BY <3>1 DEF RecoveryExclusive
        <4>3. QED
          BY <4>1, <4>2
      <3>2. CASE m = p
        <4>1. Leading(p) = {}
          BY <1>2 DEF Accepts, RecoveryExclusive
        <4>2. ASSUME NEW j \in Leading(p)'
              PROVE  j = Len(threads[p]) + 1
          <5>1. /\ j \in DOMAIN threads'[p]
                /\ j \in DOMAIN threads[p] =>
                       threads'[p][j] # threads[p][j]
            BY <4>1 DEF Leading
          <5>2. QED
            BY <2>4, <5>1, Zenon
        <4>3. QED
          BY <2>1, <3>2, <4>2 DEF TypeOK
      <3>3. QED
        BY <3>1, <3>2
    <2>8. QED
      BY <2>6, <2>7
  <1>3. QED
    BY <1>1, <1>2

\* The inductive invariant survives the health check, whatever answer it acts on.
LEMMA HealthUpdateIInv ==
    ASSUME IInv, HealthUpdate
    PROVE  IInv'
  <1> USE DEF IInv
  <1>1. TypeOK'
    BY HealthUpdateType
  <1>2. requests' = requests /\ CrashedAnswer'
    BY DEF HealthUpdate, counters, CrashedAnswer
  <1>3. checking \in Nodes /\ checking # NoNode
    BY DEF TypeOK, Nodes, NoNode
  <1>4. ASSUME status' = status, threads' = threads, slot' = slot
        PROVE  /\ NotOwnTarget'
               /\ \A m \in Nodes : Leading(m)' = Leading(m)
    BY <1>4 DEF NotOwnTarget, Leading
  <1>5. CASE answer = "CRASHED" /\ AnswerCrashed(checking)
    <2>1. /\ status' = status /\ threads' = threads /\ slot' = slot
          /\ stopped' = stopped
          /\ view' = [view EXCEPT ![checking] = "CRASHED"]
      BY <1>5 DEF AnswerCrashed, nodeVars
    <2>2. CASE primary = checking
      <3>1. NextPrimary(view', NoNode)
        BY <1>5, <2>2 DEF AnswerCrashed
      <3>2. primary' = NoNode \/ (primary' \in Nodes /\ view'[primary'] = "RUNNING")
        BY <3>1, NextPrimaryType
      <3>3. requests = 0 => \A m \in Nodes : Leading(m) = {}
        BY <1>5, <2>2 DEF CrashedAnswer, RecoveryExclusive
      <3>4. RecoveryExclusive'
        BY <1>2, <1>4, <2>1, <3>3 DEF RecoveryExclusive
      <3>5. PrimaryNotCrashed'
        BY <2>1, <3>2 DEF PrimaryNotCrashed
      <3>6. QED
        BY <1>1, <1>2, <1>4, <2>1, <3>4, <3>5
    <2>3. CASE primary # checking
      <3>1. primary' = primary
        BY <1>5, <2>3 DEF AnswerCrashed
      <3>2. PrimaryNotCrashed'
        BY <1>1, <2>1, <2>3, <3>1 DEF PrimaryNotCrashed, TypeOK
      <3>3. RecoveryExclusive'
        BY <1>2, <1>4, <2>1, <3>1 DEF RecoveryExclusive
      <3>4. QED
        BY <1>1, <1>2, <1>4, <2>1, <3>2, <3>3
    <2>4. QED
      BY <2>2, <2>3
  <1>6. CASE AnswerRunning(checking)
    <2>1. CASE view[checking] # "CRASHED"
      <3>1. /\ status' = status /\ threads' = threads /\ slot' = slot
            /\ stopped' = stopped /\ primary' = primary
            /\ view' = [view EXCEPT ![checking] = "RUNNING"]
        BY <1>6, <2>1 DEF AnswerRunning, SetView, nodeVars
      <3>2. PrimaryNotCrashed'
        BY <3>1 DEF PrimaryNotCrashed, TypeOK
      <3>3. RecoveryExclusive'
        BY <1>2, <1>4, <3>1 DEF RecoveryExclusive
      <3>4. QED
        BY <1>1, <1>2, <1>4, <3>1, <3>2, <3>3
    <2>2. CASE view[checking] = "CRASHED" /\ primary = NoNode
      <3>1. /\ status' = status /\ threads' = threads /\ slot' = slot
            /\ stopped' = stopped /\ primary' = checking
            /\ view' = [view EXCEPT ![checking] = "RUNNING"]
        BY <1>3, <1>6, <2>2 DEF AnswerRunning, nodeVars
      <3>2. PrimaryNotCrashed'
        BY <1>3, <3>1 DEF PrimaryNotCrashed, TypeOK
      <3>3. \A m \in Nodes : m # NoNode
        BY DEF Nodes, NoNode
      <3>4. RecoveryExclusive'
        BY <1>2, <1>4, <2>2, <3>1, <3>3 DEF RecoveryExclusive
      <3>5. QED
        BY <1>1, <1>2, <1>4, <3>1, <3>2, <3>4
    <2>3. CASE view[checking] = "CRASHED" /\ primary = checking
      BY <1>3, <2>3 DEF PrimaryNotCrashed
    <2>4. CASE view[checking] = "CRASHED" /\ primary \notin {NoNode, checking}
      <3>1. RequestRecovery(primary, checking)
        BY <1>6, <2>4 DEF AnswerRunning
      <3>2. primary \in Nodes
        BY <2>4 DEF TypeOK
      <3>3. NotOwnTarget' /\ RecoveryExclusive'
        BY <1>2, <1>3, <2>4, <3>1, <3>2, RequestRecoveryExclusive
      <3>4. /\ primary' = primary /\ stopped' = stopped
            /\ view' = view \/ view' = [view EXCEPT ![checking] = "RECOVERING"]
        BY <3>1 DEF RequestRecovery, SetView
      <3>5. PrimaryNotCrashed'
        BY <3>4 DEF PrimaryNotCrashed, TypeOK
      <3>6. QED
        BY <1>1, <1>2, <3>3, <3>5
    <2>5. QED
      BY <2>1, <2>2, <2>3, <2>4
  <1>7. CASE AnswerSuspended(checking) \/ AnswerRecovering(checking)
    <2>1. status' = status /\ threads' = threads /\ slot' = slot
      BY <1>7 DEF AnswerSuspended, AnswerRecovering, nodeVars
    <2>2. view[checking] \in NodeStatus
      BY <1>3 DEF TypeOK
    <2>3. /\ primary' = primary
          /\ stopped' = "crashed primary" => stopped = "crashed primary"
          /\ \/ view' = view
             \/ view' = [view EXCEPT ![checking] = "SUSPENDED"]
             \/ view' = [view EXCEPT ![checking] = "RECOVERING"]
      BY <1>7, <2>2
         DEF AnswerSuspended, AnswerRecovering, SetView, Stop, NodeStatus
    <2>4. PrimaryNotCrashed'
      BY <2>3 DEF PrimaryNotCrashed, TypeOK
    <2>5. RecoveryExclusive'
      BY <1>2, <1>4, <2>1, <2>3 DEF RecoveryExclusive
    <2>6. QED
      BY <1>1, <1>2, <1>4, <2>1, <2>4, <2>5
  <1>8. QED
    BY <1>5, <1>6, <1>7 DEF HealthUpdate

\* The inductive invariant survives the requests of the console.
LEMMA OperatorIInv ==
    ASSUME IInv, Operator
    PROVE  IInv'
  <1> USE DEF IInv
  <1>1. TypeOK'
    BY OperatorType
  <1>2. requests' # 0
    BY DEF Operator, TypeOK
  <1>3. RecoveryExclusive' /\ CrashedAnswer'
    BY <1>2 DEF RecoveryExclusive, CrashedAnswer
  <1>4. PICK n \in Nodes : Suspend(n) \/ ReviveRefused(n) \/ Revive(n)
    BY DEF Operator
  <1>5. ASSUME threads' = threads, slot' = slot
        PROVE  NotOwnTarget'
    BY <1>5 DEF NotOwnTarget
  <1>6. CASE Suspend(n)
    <2>1. /\ threads' = threads /\ slot' = slot /\ stopped' = stopped
          /\ view' = [view EXCEPT ![n] = "SUSPENDED"]
      BY <1>6 DEF Suspend
    <2>2. CASE primary = n
      <3>1. NextPrimary(view', n)
        BY <1>6, <2>2 DEF Suspend
      <3>2. primary' = n \/ (primary' \in Nodes /\ view'[primary'] = "RUNNING")
        BY <3>1, NextPrimaryType
      <3>3. PrimaryNotCrashed'
        BY <2>1, <3>2 DEF PrimaryNotCrashed, TypeOK
      <3>4. QED
        BY <1>1, <1>3, <1>5, <2>1, <3>3
    <2>3. CASE primary # n
      <3>1. primary' = primary
        BY <1>6, <2>3 DEF Suspend
      <3>2. PrimaryNotCrashed'
        BY <2>1, <3>1 DEF PrimaryNotCrashed, TypeOK
      <3>3. QED
        BY <1>1, <1>3, <1>5, <2>1, <3>2
    <2>4. QED
      BY <2>2, <2>3
  <1>7. CASE ReviveRefused(n)
    BY <1>1, <1>3, <1>5, <1>7 DEF ReviveRefused, nodeVars, PrimaryNotCrashed
  <1>8. CASE Revive(n)
    <2>1. CASE primary = NoNode
      BY <1>1, <1>3, <1>5, <1>8, <2>1
         DEF Revive, Stop, nodeVars, PrimaryNotCrashed
    <2>2. CASE primary # NoNode
      <3>1. RequestRecovery(primary, n) /\ primary # n /\ primary \in Nodes
        BY <1>8, <2>2 DEF Revive, TypeOK
      <3>2. NotOwnTarget'
        BY <3>1, RequestRecoveryExclusive
      <3>3. /\ primary' = primary /\ stopped' = stopped
            /\ view' = view \/ view' = [view EXCEPT ![n] = "RECOVERING"]
        BY <3>1 DEF RequestRecovery, SetView
      <3>4. PrimaryNotCrashed'
        BY <3>3 DEF PrimaryNotCrashed, TypeOK
      <3>5. QED
        BY <1>1, <1>3, <3>2, <3>4
    <2>3. QED
      BY <2>1, <2>2
  <1>9. QED
    BY <1>4, <1>6, <1>7, <1>8

\* IInv is inductive: one step per disjunct of Next.
LEMMA NextIInv == IInv /\ [Next]_vars => IInv'
  <1> SUFFICES ASSUME IInv, [Next]_vars PROVE IInv'
    OBVIOUS
  <1> USE DEF IInv
  <1>0. TypeOK'
    BY NextType
  <1>1. CASE HealthCall
    <2>1. /\ status' = status /\ threads' = threads /\ slot' = slot
          /\ primary' = primary /\ view' = view /\ stopped' = stopped
          /\ requests' = requests /\ checking' = checking
          /\ answer' = status[checking]
      BY <1>1 DEF HealthCall, nodeVars, counters
    <2>2. \A m \in Nodes : Leading(m)' = Leading(m)
      BY <2>1 DEF Leading
    <2>3. CrashedAnswer'
      BY <2>1, <2>2 DEF CrashedAnswer, RecoveryExclusive, TypeOK
    <2>4. RecoveryExclusive'
      BY <2>1, <2>2 DEF RecoveryExclusive
    <2>5. NotOwnTarget' /\ PrimaryNotCrashed'
      BY <2>1 DEF NotOwnTarget, PrimaryNotCrashed
    <2>6. QED
      BY <1>0, <2>3, <2>4, <2>5
  <1>2. CASE HealthUpdate
    BY <1>2, HealthUpdateIInv
  <1>3. CASE Operator
    BY <1>3, OperatorIInv
  <1>4. ASSUME NEW n \in Nodes, ThreadStep(n) PROVE IInv'
    BY <1>4, ThreadStepIInv
  <1>5. ASSUME NEW n \in Nodes, Crash(n) PROVE IInv'
    <2>1. /\ Kill(n) /\ primary' = primary /\ view' = view
          /\ stopped' = stopped /\ requests' = requests
          /\ checking' = checking /\ answer' = answer
      BY <1>5 DEF Crash, masterVars
    <2>2. QED
      BY <1>0, <2>1, KillLeading, LeadersShrink, AnswerKept
         DEF PrimaryNotCrashed
  <1>6. ASSUME NEW n \in Nodes, Restart(n) PROVE IInv'
    <2>1. /\ threads' = threads /\ slot' = slot
          /\ primary' = primary /\ view' = view
          /\ stopped' = stopped /\ requests' = requests
          /\ checking' = checking /\ answer' = answer
          /\ status[n] = "CRASHED"
          /\ \A m \in Nodes : m # n => status'[m] = status[m]
      BY <1>6 DEF Restart, masterVars, counters, TypeOK
    <2>2. \A m \in Nodes : Leading(m)' = Leading(m)
      BY <2>1 DEF Leading
    <2>3. RecoveryExclusive'
      BY <2>1, <2>2 DEF RecoveryExclusive
    <2>4. NotOwnTarget' /\ PrimaryNotCrashed' /\ CrashedAnswer'
      BY <2>1, <2>2
         DEF NotOwnTarget, PrimaryNotCrashed, CrashedAnswer, TypeOK
    <2>5. QED
      BY <1>0, <2>3, <2>4
  <1>7. CASE UNCHANGED vars
    <2>1. \A m \in Nodes : Leading(m)' = Leading(m)
      BY <1>7 DEF vars, Leading
    <2>2. RecoveryExclusive'
      BY <1>7, <2>1 DEF vars, RecoveryExclusive
    <2>3. CrashedAnswer'
      BY <1>7, <2>1 DEF vars, CrashedAnswer, TypeOK
    <2>4. NotOwnTarget' /\ PrimaryNotCrashed'
      BY <1>7 DEF vars, NotOwnTarget, PrimaryNotCrashed
    <2>5. QED
      BY <1>0, <2>2, <2>3, <2>4
  <1>8. QED
    BY <1>1, <1>2, <1>3, <1>4, <1>5, <1>6, <1>7 DEF Next

\* The inductive invariant holds always.
THEOREM MasterInvariance == Spec => []IInv
  BY InitIInv, NextIInv, PTL DEF Spec

\* The master never has a crashed node as its primary and never aborts because
\* of one, with any number of nodes, crashes and requests.
THEOREM PrimaryNeverCrashed == Spec => []PrimaryNotCrashed
  <1>1. IInv => PrimaryNotCrashed
    BY DEF IInv
  <1>2. QED
    BY <1>1, MasterInvariance, PTL

\* Without an operator's requests, only the primary recovers other nodes, one
\* at a time, and serves no request meanwhile.
THEOREM RecoveriesExclusive == Spec => []RecoveryExclusive
  <1>1. IInv => RecoveryExclusive
    BY DEF IInv
  <1>2. QED
    BY <1>1, MasterInvariance, PTL

-----------------------------------------------------------------------------
(* Handing the role of primary over.                                        *)

\* A crash the master has not acted on is still to be seen, whatever it has in
\* its books or has just been answered.
CrashUnseen ==
    /\ \A n \in Nodes : status[n] = "CRASHED" /\ view[n] # "CRASHED" => n \in unseen
    /\ /\ answer \in {"RUNNING", "SUSPENDED", "RECOVERING"}
       /\ status[checking] = "CRASHED"
       => checking \in unseen

\* Until the operator interferes, an answer of a crash is of one to be seen, if
\* the master has not acted on it.
CrashAnswered ==
    requests = 0 /\ answer = "CRASHED" /\ view[checking] # "CRASHED"
        => checking \in unseen

\* What Handover needs.
SeenInv == TypeOK /\ PrimaryNotCrashed /\ CrashUnseen /\ CrashAnswered

\* A request for a recovery touches the books only for a node that answers.
LEMMA RequestKeepsUnseen ==
    ASSUME TypeOK, CrashUnseen, NEW p \in Nodes, NEW n \in Nodes,
           RequestRecovery(p, n)
    PROVE  /\ \A m \in Nodes : status'[m] = "CRASHED" /\ view'[m] # "CRASHED"
                                => m \in unseen'
           /\ \A m \in Nodes : status'[m] = "CRASHED" => status[m] = "CRASHED"
           /\ unseen' = unseen
  <1>1. CASE Accepts(p, n)
    <2>1. /\ status' = [status EXCEPT ![p] = "RECOVERING"]
          /\ view' = [view EXCEPT ![n] = "RECOVERING"]
          /\ unseen' = unseen /\ status[n] # "CRASHED"
      BY <1>1 DEF RequestRecovery, StartThread, SetView, Accepts
    <2>2. QED
      BY <2>1 DEF CrashUnseen, TypeOK
  <1>2. CASE ~Accepts(p, n)
    BY <1>2 DEF RequestRecovery, CrashUnseen, nodeVars
  <1>3. QED
    BY <1>1, <1>2

\* Acting on an answer keeps what Handover needs: a crash acted on is in the
\* books.
LEMMA HealthUpdateSeen ==
    ASSUME SeenInv, HealthUpdate
    PROVE  CrashUnseen' /\ CrashAnswered'
  <1> USE DEF SeenInv
  <1>0. checking \in Nodes /\ checking # NoNode /\ answer' = "none"
    BY DEF HealthUpdate, TypeOK, Nodes, NoNode
  <1>1. CrashAnswered'
    BY <1>0 DEF CrashAnswered
  <1>2. SUFFICES \A n \in Nodes : status'[n] = "CRASHED" /\ view'[n] # "CRASHED"
                                  => n \in unseen'
    BY <1>0, <1>1 DEF CrashUnseen
  <1>3. CASE AnswerCrashed(checking)
    <2>1. /\ status' = status /\ view' = [view EXCEPT ![checking] = "CRASHED"]
          /\ unseen' = unseen \ {checking}
      BY <1>3 DEF AnswerCrashed
    <2>2. QED
      BY <1>0, <2>1 DEF CrashUnseen, TypeOK
  <1>4. CASE answer = "RUNNING" /\ AnswerRunning(checking)
    <2>1. CASE view[checking] = "CRASHED" /\ primary \notin {NoNode, checking}
      <3>1. RequestRecovery(primary, checking) /\ primary \in Nodes
        BY <1>4, <2>1 DEF AnswerRunning, TypeOK
      <3>2. QED
        BY <1>0, <3>1, RequestKeepsUnseen
    <2>2. CASE view[checking] # "CRASHED" \/ primary \in {NoNode, checking}
      <3>1. status' = status /\ unseen' = unseen
        BY <1>0, <1>4, <2>2 DEF AnswerRunning, nodeVars
      <3>2. view' = view \/ view' = [view EXCEPT ![checking] = "RUNNING"]
        BY <1>0, <1>4, <2>2 DEF AnswerRunning, SetView, Stop
      <3>3. status[checking] = "CRASHED" => checking \in unseen
        BY <1>4 DEF CrashUnseen
      <3>4. QED
        BY <1>0, <3>1, <3>2, <3>3 DEF CrashUnseen, TypeOK
    <2>3. QED
      BY <2>1, <2>2
  <1>5. CASE AnswerSuspended(checking) \/ AnswerRecovering(checking)
    <2>1. status' = status /\ unseen' = unseen
      BY <1>5 DEF AnswerSuspended, AnswerRecovering, nodeVars
    <2>2. view[checking] \in NodeStatus
      BY <1>0 DEF TypeOK
    <2>3. \/ view' = view
          \/ /\ view[checking] # "CRASHED"
             /\ \E v : view' = [view EXCEPT ![checking] = v]
      BY <1>5, <2>2
         DEF AnswerSuspended, AnswerRecovering, SetView, Stop, NodeStatus
    <2>4. QED
      BY <1>0, <2>1, <2>3 DEF CrashUnseen, TypeOK
  <1>6. QED
    BY <1>3, <1>4, <1>5 DEF HealthUpdate

\* A request of the console finds its node alive.
LEMMA OperatorSeen ==
    ASSUME SeenInv, Operator
    PROVE  CrashUnseen' /\ CrashAnswered'
  <1> USE DEF SeenInv
  <1>1. CrashAnswered'
    BY DEF Operator, CrashAnswered, TypeOK
  <1>2. PICK n \in Nodes : Suspend(n) \/ ReviveRefused(n) \/ Revive(n)
    BY DEF Operator
  <1>3. checking' = checking /\ answer' = answer /\ checking \in Nodes
    BY <1>2 DEF Suspend, ReviveRefused, Revive, healthVars, TypeOK
  <1>4. CASE Suspend(n)
    <2>1. /\ view' = [view EXCEPT ![n] = "SUSPENDED"] /\ unseen' = unseen
          /\ status[n] # "CRASHED"
          /\ status' = status \/ status' = [status EXCEPT ![n] = "SUSPENDED"]
      BY <1>4 DEF Suspend
    <2>2. \A m \in Nodes : status'[m] = "CRASHED"
                            => status[m] = "CRASHED" /\ m # n
      BY <2>1 DEF TypeOK
    <2>3. QED
      BY <1>1, <1>3, <2>1, <2>2 DEF CrashUnseen, TypeOK
  <1>5. CASE (ReviveRefused(n) \/ Revive(n)) /\ UNCHANGED << nodeVars, view >>
    BY <1>1, <1>3, <1>5 DEF CrashUnseen, nodeVars
  <1>6. CASE Revive(n) /\ primary # NoNode
    <2>1. RequestRecovery(primary, n) /\ primary \in Nodes
      BY <1>6 DEF Revive, TypeOK
    <2>2. QED
      BY <1>1, <1>3, <2>1, RequestKeepsUnseen DEF CrashUnseen
  <1>7. QED
    BY <1>2, <1>4, <1>5, <1>6 DEF ReviveRefused, Revive, Stop

\* The steps of recovery threads crash no node but their own, which is noted.
LEMMA ThreadStepSeen ==
    ASSUME SeenInv, NEW p \in Nodes, ThreadStep(p)
    PROVE  CrashUnseen' /\ CrashAnswered'
  <1> USE DEF SeenInv
  <1>0. PICK i \in DOMAIN threads[p] :
            \/ ReadTarget(p, i) \/ SendSrecovery(p, i) \/ SendReplay(p, i)
            \/ SetRunning(p, i) \/ NotifyRecoveryFinished(p, i)
            \/ ClearTarget(p, i)
    BY DEF ThreadStep
  <1>1. /\ checking' = checking /\ answer' = answer /\ requests' = requests
        /\ checking \in Nodes
    BY <1>0 DEF ReadTarget, SendSrecovery, SendReplay, SetRunning,
                NotifyRecoveryFinished, ClearTarget, masterVars, counters,
                healthVars, TypeOK
  <1>2. \A n \in Nodes : view'[n] # "CRASHED" => view[n] # "CRASHED"
    <2>1. CASE NotifyRecoveryFinished(p, i)
      BY <2>1 DEF NotifyRecoveryFinished, SetView, Stop, TypeOK
    <2>2. QED
      BY <1>0, <2>1 DEF ReadTarget, SendSrecovery, SendReplay, SetRunning,
                        ClearTarget, masterVars
  <1>3. /\ unseen \subseteq unseen'
        /\ \A n \in Nodes : status'[n] = "CRASHED"
                             => status[n] = "CRASHED" \/ n \in unseen'
    <2>1. CASE ReadTarget(p, i)
      BY <2>1 DEF ReadTarget, Kill, TypeOK
    <2>2. CASE SendSrecovery(p, i)
      BY <2>2 DEF SendSrecovery, TypeOK
    <2>3. CASE SendReplay(p, i)
      BY <2>3 DEF SendReplay, TypeOK
    <2>4. CASE SetRunning(p, i)
      BY <2>4 DEF SetRunning, TypeOK
    <2>5. CASE NotifyRecoveryFinished(p, i) \/ ClearTarget(p, i)
      BY <2>5 DEF NotifyRecoveryFinished, ClearTarget
    <2>6. QED
      BY <1>0, <2>1, <2>2, <2>3, <2>4, <2>5
  <1>4. CrashUnseen'
    BY <1>1, <1>2, <1>3 DEF CrashUnseen
  <1>5. CrashAnswered'
    BY <1>1, <1>2, <1>3 DEF CrashAnswered
  <1>6. QED
    BY <1>4, <1>5

\* What Handover needs holds always.
LEMMA SeenAlways == Spec => []SeenInv
  <1>1. Init => SeenInv
    <2>1. ASSUME Init PROVE PrimaryNotCrashed /\ CrashUnseen /\ CrashAnswered
      BY <2>1 DEF Init, PrimaryNotCrashed, CrashUnseen, CrashAnswered
    <2>2. QED
      BY <2>1, InitType DEF SeenInv
  <1>2. SeenInv /\ IInv' /\ [Next]_vars => SeenInv'
    <2> SUFFICES ASSUME SeenInv, IInv', [Next]_vars
                 PROVE  CrashUnseen' /\ CrashAnswered'
      BY DEF SeenInv, IInv
    <2> USE DEF SeenInv
    <2>1. CASE HealthCall
      <3>1. /\ status' = status /\ view' = view /\ unseen' = unseen
            /\ requests' = requests
            /\ checking' = checking /\ answer' = status[checking]
            /\ checking \in Nodes
        BY <2>1 DEF HealthCall, nodeVars, counters, TypeOK
      <3>2. QED
        BY <3>1 DEF CrashUnseen, CrashAnswered
    <2>2. CASE HealthUpdate
      BY <2>2, HealthUpdateSeen
    <2>3. CASE Operator
      BY <2>3, OperatorSeen
    <2>4. ASSUME NEW n \in Nodes, ThreadStep(n)
          PROVE  CrashUnseen' /\ CrashAnswered'
      BY <2>4, ThreadStepSeen
    <2>5. ASSUME NEW n \in Nodes, Crash(n)
          PROVE  CrashUnseen' /\ CrashAnswered'
      BY <2>5 DEF Crash, Kill, masterVars, CrashUnseen, CrashAnswered, TypeOK
    <2>6. ASSUME NEW n \in Nodes, Restart(n)
          PROVE  CrashUnseen' /\ CrashAnswered'
      BY <2>6 DEF Restart, masterVars, counters, CrashUnseen, CrashAnswered, TypeOK
    <2>7. CASE UNCHANGED vars
      BY <2>7 DEF vars, CrashUnseen, CrashAnswered
    <2>8. QED
      BY <2>1, <2>2, <2>3, <2>4, <2>5, <2>6, <2>7 DEF Next
  <1>3. QED
    BY <1>1, <1>2, MasterInvariance, PTL DEF Spec

\* How the primary may lose its role, who may get it, and when a suspended
\* primary may keep it.
Loses ==
    primary # NoNode =>
        \/ view'[primary] = "CRASHED" /\ primary \in unseen
        \/ view'[primary] \in {"CRASHED", "SUSPENDED"} /\ requests' > 0

Gets ==
    primary' # NoNode =>
        /\ view'[primary'] = "RUNNING"
        /\ status'[primary'] = "CRASHED" => primary' \in unseen'

Keeps ==
    \A n \in Nodes :
        /\ primary = n /\ primary' = n
        /\ view[n] # "SUSPENDED" /\ view'[n] = "SUSPENDED"
        => \A m \in Nodes : view'[m] # "RUNNING"

HandoverStep == (primary' # primary => Loses /\ Gets) /\ Keeps

\* Who gets the role has not been acted on as crashed: the books are right.
LEMMA RunningGets ==
    ASSUME SeenInv', primary' = NoNode \/ view'[primary'] = "RUNNING"
    PROVE  Gets
  BY DEF SeenInv, TypeOK, CrashUnseen, Gets

\* A step that suspends no node in the master's books leaves none the role.
LEMMA NoneSuspended ==
    ASSUME \A n \in Nodes : view'[n] = "SUSPENDED" => view[n] = "SUSPENDED"
    PROVE  Keeps
  BY DEF Keeps

\* Every step changes the primary only as Handover allows.
LEMMA NextHandover == SeenInv /\ SeenInv' /\ [Next]_vars => HandoverStep
  <1> SUFFICES ASSUME SeenInv, SeenInv', [Next]_vars
               PROVE  (primary' # primary => Loses /\ Gets) /\ Keeps
    BY DEF HandoverStep
  <1>0. TypeOK /\ checking \in Nodes /\ checking # NoNode
    BY DEF SeenInv, TypeOK, Nodes, NoNode
  <1>1. CASE HealthUpdate
    <2>1. CASE answer = "CRASHED" /\ AnswerCrashed(checking)
      <3>1. /\ view' = [view EXCEPT ![checking] = "CRASHED"]
            /\ requests' = requests
        BY <1>1, <2>1 DEF AnswerCrashed, HealthUpdate, counters
      <3>2. Keeps
        BY <1>0, <3>1, NoneSuspended DEF TypeOK
      <3>3. ASSUME primary' # primary
            PROVE  Loses /\ Gets
        <4>1. primary = checking /\ NextPrimary(view', NoNode)
          BY <2>1, <3>3 DEF AnswerCrashed
        <4>2. Gets
          BY <4>1, NextPrimaryType, RunningGets
        <4>3. view'[primary] = "CRASHED" /\ view[checking] # "CRASHED"
          BY <1>0, <3>1, <4>1 DEF SeenInv, PrimaryNotCrashed, TypeOK
        <4>4. requests = 0 => primary \in unseen
          BY <2>1, <4>1, <4>3 DEF SeenInv, CrashAnswered
        <4>5. requests' > 0 \/ requests = 0
          BY <1>0, <3>1 DEF TypeOK
        <4>6. QED
          BY <4>2, <4>3, <4>4, <4>5 DEF Loses
      <3>4. QED
        BY <3>2, <3>3
    <2>2. CASE AnswerRunning(checking)
      <3>1. CASE view[checking] = "CRASHED" /\ primary = NoNode
        <4>1. primary' = checking /\ view' = [view EXCEPT ![checking] = "RUNNING"]
          BY <1>0, <2>2, <3>1 DEF AnswerRunning
        <4>2. Keeps
          BY <1>0, <4>1, NoneSuspended DEF TypeOK
        <4>3. Gets
          BY <1>0, <4>1, RunningGets DEF TypeOK
        <4>4. QED
          BY <3>1, <4>2, <4>3 DEF Loses
      <3>2. CASE view[checking] # "CRASHED" \/ primary # NoNode
        <4>1. CASE view[checking] # "CRASHED"
          <5>1. primary' = primary /\ view' = [view EXCEPT ![checking] = "RUNNING"]
            BY <2>2, <4>1 DEF AnswerRunning, SetView
          <5>2. QED
            BY <1>0, <5>1, NoneSuspended DEF TypeOK
        <4>2. CASE view[checking] = "CRASHED" /\ primary = checking
          <5>1. primary' = primary /\ view' = view
            BY <1>0, <2>2, <4>2 DEF AnswerRunning, Stop
          <5>2. QED
            BY <5>1, NoneSuspended
        <4>3. CASE view[checking] = "CRASHED" /\ primary \notin {NoNode, checking}
          <5>1. RequestRecovery(primary, checking)
            BY <2>2, <4>3 DEF AnswerRunning
          <5>2. /\ primary' = primary
                /\ view' = view \/ view' = [view EXCEPT ![checking] = "RECOVERING"]
            BY <5>1 DEF RequestRecovery, SetView
          <5>3. QED
            BY <1>0, <5>2, NoneSuspended DEF TypeOK
        <4>4. QED
          BY <3>2, <4>1, <4>2, <4>3
      <3>3. QED
        BY <3>1, <3>2
    <2>3. CASE AnswerSuspended(checking) \/ AnswerRecovering(checking)
      <3>1. view[checking] \in NodeStatus
        BY <1>0 DEF TypeOK
      <3>2. /\ primary' = primary
            /\ \/ view' = view
               \/ view' = [view EXCEPT ![checking] = "RECOVERING"]
               \/ /\ view' = [view EXCEPT ![checking] = "SUSPENDED"]
                  /\ view[checking] = "SUSPENDED"
        BY <2>3, <3>1
           DEF AnswerSuspended, AnswerRecovering, SetView, Stop, NodeStatus
      <3>3. QED
        BY <1>0, <3>2, NoneSuspended DEF TypeOK
    <2>4. QED
      BY <1>1, <2>1, <2>2, <2>3 DEF HealthUpdate
  <1>2. CASE Operator
    <2>0. requests' > 0
      BY <1>0, <1>2 DEF Operator, TypeOK
    <2>1. PICK n \in Nodes : Suspend(n) \/ ReviveRefused(n) \/ Revive(n)
      BY <1>2 DEF Operator
    <2>2. CASE Suspend(n)
      <3>1. view' = [view EXCEPT ![n] = "SUSPENDED"] /\ view'[n] = "SUSPENDED"
        BY <1>0, <2>2 DEF Suspend, TypeOK
      <3>2. CASE primary = n
        <4>1. NextPrimary(view', n)
          BY <2>2, <3>2 DEF Suspend
        <4>2. primary' # primary => Loses /\ Gets
          BY <2>0, <3>1, <3>2, <4>1, NextPrimaryType, RunningGets DEF Loses
        <4>3. Keeps
          BY <3>1, <3>2, <4>1 DEF NextPrimary, Keeps
        <4>4. QED
          BY <4>2, <4>3
      <3>3. CASE primary # n
        <4>1. primary' = primary
          BY <2>2, <3>3 DEF Suspend
        <4>2. \A m \in Nodes : m # n => view'[m] = view[m]
          BY <1>0, <3>1 DEF TypeOK
        <4>3. Keeps
          BY <3>3, <4>2 DEF Keeps
        <4>4. QED
          BY <4>1, <4>3
      <3>4. QED
        BY <3>2, <3>3
    <2>3. CASE ReviveRefused(n) \/ Revive(n)
      <3>1. /\ primary' = primary
            /\ view' = view \/ view' = [view EXCEPT ![n] = "RECOVERING"]
        BY <2>3 DEF ReviveRefused, Revive, Stop, RequestRecovery, SetView
      <3>2. QED
        BY <1>0, <3>1, NoneSuspended DEF TypeOK
    <2>4. QED
      BY <2>1, <2>2, <2>3
  <1>3. ASSUME NEW p \in Nodes, ThreadStep(p)
        PROVE  primary' = primary /\ Keeps
    <2>1. PICK i \in DOMAIN threads[p] :
            \/ ReadTarget(p, i) \/ SendSrecovery(p, i) \/ SendReplay(p, i)
            \/ SetRunning(p, i) \/ NotifyRecoveryFinished(p, i)
            \/ ClearTarget(p, i)
      BY <1>3 DEF ThreadStep
    <2>2. CASE NotifyRecoveryFinished(p, i)
      <3>1. /\ primary' = primary
            /\ \/ view' = view
               \/ \E n : view' = [view EXCEPT ![n] = "RUNNING"]
        BY <2>2 DEF NotifyRecoveryFinished, SetView, Stop
      <3>2. QED
        BY <1>0, <3>1, NoneSuspended DEF TypeOK
    <2>3. QED
      BY <2>1, <2>2, NoneSuspended
         DEF ReadTarget, SendSrecovery, SendReplay, SetRunning, ClearTarget,
             masterVars
  <1>4. CASE HealthCall
    BY <1>4, NoneSuspended DEF HealthCall
  <1>5. ASSUME NEW n \in Nodes, Crash(n) \/ Restart(n)
        PROVE  primary' = primary /\ Keeps
    BY <1>5, NoneSuspended DEF Crash, Restart, masterVars
  <1>6. CASE UNCHANGED vars
    BY <1>6, NoneSuspended DEF vars
  <1>7. QED
    BY <1>1, <1>2, <1>3, <1>4, <1>5, <1>6 DEF Next

\* Until the operator interferes each crash costs a primary its role once at
\* most; its successor is RUNNING for the master, and not one whose crash has
\* been acted on; the role stays with a suspended node only for want of another.
THEOREM HandoverAlways == Spec => Handover
  <1>1. SeenInv /\ SeenInv' /\ [Next]_vars => [HandoverStep]_vars
    BY NextHandover
  <1>2. QED
    BY <1>1, SeenAlways, PTL DEF Spec, Handover, HandoverStep, Loses, Gets, Keeps
=============================================================================
