-------------------------------- MODULE Master --------------------------------
(***************************************************************************)
(* The master of one cluster (KVStore/kvstore_master.cc): the health check *)
(* thread, the Suspend and Revive requests of the console, and             *)
(* NotifyRecoveryFinished, which the recovery threads of the nodes call.   *)
(* The health check reads a node's status before it takes the cluster's    *)
(* lock and acts on it afterwards.  A section under the lock is one step:  *)
(* the steps of nodes that fall inside it commute with it.  Of the nodes   *)
(* only node_status and the recovery threads are kept (kvstore_node.cc).   *)
(***************************************************************************)
EXTENDS Integers, SequencesExt

CONSTANTS
    NumReplicas,    \* kNumOfReplicas
    MaxCrashes,     \* bound: crashes of nodes in a behaviour
    MaxRequests     \* bound: Suspend and Revive requests in a behaviour

ASSUME ReplicasAssumption == NumReplicas \in Nat \ {0}
ASSUME BoundsAssumption == MaxCrashes \in Nat /\ MaxRequests \in Nat

Nodes == 1 .. NumReplicas

NoNode == 0

NodeStatus == {"RUNNING", "SUSPENDED", "RECOVERING", "CRASHED"}

\* Where a recovery thread is: about to read target_addr_to_recover, to send
\* Srecovery, to send Replay (after the file transfers), to set its node
\* RUNNING, to notify the master, to clear target_addr_to_recover.
ThreadPC == {"read", "srecovery", "replay", "run", "notify", "clear"}

Threads == [pc : ThreadPC, target : Nodes \cup {NoNode}]

\* Why the master stopped: "no" when it has not.
Stops == {"no",
          "crashed primary",       \* previous crashed node cannot be primary
          "suspended, RUNNING", "suspended, RECOVERING", "suspended, CRASHED",
          "recovering, SUSPENDED", "recovering, CRASHED",
          "notify assertion",      \* NotifyRecoveryFinished
          "no stub"}               \* Revive without a primary

VARIABLES
    status,     \* node_status of each node; CRASHED: no process
    threads,    \* the recovery threads of each node
    slot,       \* target_addr_to_recover of each node
    view,       \* Cluster::status
    primary,    \* Cluster::primary, or NoNode
    checking,   \* the node the health check is at
    answer,     \* what its CheckHealth returned, "none" before the call
    lockLost,   \* a request returned without unlocking Cluster::lock
    stopped,    \* why the master process stopped
    crashes, requests, \* how many so far
    \* Only observes, no action reads it:
    unseen      \* the nodes that crashed since the master last acted on a
                \* crash of theirs

vars == << status, threads, slot, view, primary, checking, answer, lockLost,
           stopped, crashes, requests, unseen >>

nodeVars == << status, threads, slot, unseen >>
healthVars == << checking, answer >>
counters == << crashes, requests >>

Init == /\ status = [n \in Nodes |-> "RUNNING"]
        /\ threads = [n \in Nodes |-> << >>]
        /\ slot = [n \in Nodes |-> NoNode]
        /\ view = [n \in Nodes |-> "CRASHED"]
        /\ primary = NoNode
        /\ checking = 1 /\ answer = "none"
        /\ lockLost = FALSE /\ stopped = "no"
        /\ crashes = 0 /\ requests = 0
        /\ unseen = {}

\* The master runs and Cluster::lock can be taken.
CanLock == stopped = "no" /\ ~lockLost

Stop(why) == stopped' = why /\ UNCHANGED << view, primary >>

SetView(n, s) == view' = [view EXCEPT ![n] = s] /\ UNCHANGED << primary, stopped >>

-----------------------------------------------------------------------------
(* The nodes: accepting a recovery, and the recovery thread.                *)

\* Bug: a node that leads a recovery already does not refuse another one.
AcceptsWhenBusy(p, n) == status[p] # "CRASHED" /\ status[n] # "CRASHED"

\* KVPrimaryRecovery on the primary, called under the master's lock: refused
\* unless the primary is RUNNING and the target answers a health check.
Accepts(p, n) == status[p] = "RUNNING" /\ status[n] # "CRASHED"

StartThread(p, n) ==
    /\ status' = [status EXCEPT ![p] = "RECOVERING"]
    /\ slot' = [slot EXCEPT ![p] = n]
    /\ threads' = [threads EXCEPT
                      ![p] = Append(@, [pc |-> "read", target |-> NoNode])]
    /\ UNCHANGED unseen

RequestRecovery(p, n) ==
    IF Accepts(p, n) THEN StartThread(p, n) /\ SetView(n, "RECOVERING")
    ELSE UNCHANGED << nodeVars, view, primary, stopped >>

At(p, i, pc) == i \in DOMAIN threads[p] /\ threads[p][i].pc = pc

Goto(p, i, pc) == threads' = [threads EXCEPT ![p][i].pc = pc]

Exit(p, i) == threads' = [threads EXCEPT ![p] = RemoveAt(@, i)]

Kill(n) == /\ status' = [status EXCEPT ![n] = "CRASHED"]
           /\ threads' = [threads EXCEPT ![n] = << >>]
           /\ slot' = [slot EXCEPT ![n] = NoNode]
           /\ unseen' = unseen \cup {n}

masterVars == << view, primary, checking, answer, lockLost, stopped >>

\* The thread reads the target, and asserts that it is one of its peers.
ReadTarget(p, i) ==
    /\ At(p, i, "read")
    /\ IF slot[p] = NoNode
       THEN Kill(p)
       ELSE /\ threads' = [threads EXCEPT ![p][i] = [pc |-> "srecovery",
                                                     target |-> slot[p]]]
            /\ UNCHANGED << status, slot, unseen >>
    /\ UNCHANGED << masterVars, counters >>

SendSrecovery(p, i) ==
    /\ At(p, i, "srecovery")
    /\ LET n == threads[p][i].target
       IN  status' = IF status[n] \in {"RUNNING", "SUSPENDED"}
                     THEN [status EXCEPT ![n] = "RECOVERING"] ELSE status
    /\ Goto(p, i, "replay")
    /\ UNCHANGED << slot, unseen, masterVars, counters >>

\* Bug: the target stays RECOVERING.
SendReplayInVain(p, i) ==
    /\ At(p, i, "replay")
    /\ Goto(p, i, "run")
    /\ UNCHANGED << status, slot, unseen, masterVars, counters >>

SendReplay(p, i) ==
    /\ At(p, i, "replay")
    /\ LET n == threads[p][i].target
       IN  status' = IF status[n] = "RECOVERING"
                     THEN [status EXCEPT ![n] = "RUNNING"] ELSE status
    /\ Goto(p, i, "run")
    /\ UNCHANGED << slot, unseen, masterVars, counters >>

\* Bug: the primary stays RECOVERING.
SetRunningForgotten(p, i) ==
    /\ At(p, i, "run")
    /\ Goto(p, i, "notify")
    /\ UNCHANGED << status, slot, unseen, masterVars, counters >>

SetRunning(p, i) ==
    /\ At(p, i, "run")
    /\ status' = [status EXCEPT ![p] = "RUNNING"]
    /\ Goto(p, i, "notify")
    /\ UNCHANGED << slot, unseen, masterVars, counters >>

\* The call fails when the master has stopped; it waits for the lock.
NotifyRecoveryFinished(p, i) ==
    /\ At(p, i, "notify")
    /\ IF stopped # "no" THEN UNCHANGED << view, primary, stopped >>
       ELSE /\ ~lockLost
            /\ LET n == threads[p][i].target
               IN  IF view[n] = "RECOVERING" THEN SetView(n, "RUNNING")
                                             ELSE Stop("notify assertion")
    /\ Goto(p, i, "clear")
    /\ UNCHANGED << status, slot, unseen, healthVars, lockLost, counters >>

ClearTarget(p, i) ==
    /\ At(p, i, "clear")
    /\ slot' = [slot EXCEPT ![p] = NoNode]
    /\ Exit(p, i)
    /\ UNCHANGED << status, unseen, masterVars, counters >>

-----------------------------------------------------------------------------
(* The health check thread.                                                 *)

\* CheckHealth of the node it is at, without the lock.
HealthCall ==
    /\ stopped = "no" /\ answer = "none"
    /\ answer' = status[checking]
    /\ UNCHANGED << nodeVars, view, primary, checking, lockLost, stopped,
                    counters >>

\* Bug: any node but a crashed one becomes the primary.
NextPrimaryAnyLive(v, otherwise) ==
    LET live == {n \in Nodes : v[n] # "CRASHED"}
    IN  IF live = {} THEN primary' = otherwise ELSE primary' \in live

NextPrimary(v, otherwise) ==
    LET running == {n \in Nodes : v[n] = "RUNNING"}
    IN  IF running = {} THEN primary' = otherwise ELSE primary' \in running

\* Bug: the primary stays.
AnswerCrashedKeepsPrimary(n) ==
    /\ view' = [view EXCEPT ![n] = "CRASHED"]
    /\ unseen' = unseen \ {n}
    /\ UNCHANGED << primary, status, threads, slot, stopped >>

\* The answer, which may be stale by now, against what the master has.
AnswerCrashed(n) ==
    /\ view' = [view EXCEPT ![n] = "CRASHED"]
    /\ IF primary = n THEN NextPrimary(view', NoNode) ELSE UNCHANGED primary
    /\ unseen' = unseen \ {n}
    /\ UNCHANGED << status, threads, slot, stopped >>

AnswerRunning(n) ==
    CASE view[n] # "CRASHED" ->
            SetView(n, "RUNNING") /\ UNCHANGED nodeVars
      [] view[n] = "CRASHED" /\ primary = NoNode ->
            /\ view' = [view EXCEPT ![n] = "RUNNING"]
            /\ primary' = n
            /\ UNCHANGED << nodeVars, stopped >>
      [] view[n] = "CRASHED" /\ primary = n ->
            Stop("crashed primary") /\ UNCHANGED nodeVars
      [] OTHER -> RequestRecovery(primary, n)

AnswerSuspended(n) ==
    /\ CASE view[n] = "SUSPENDED"  -> SetView(n, "SUSPENDED")
         [] view[n] = "RUNNING"    -> Stop("suspended, RUNNING")
         [] view[n] = "RECOVERING" -> Stop("suspended, RECOVERING")
         [] view[n] = "CRASHED"    -> Stop("suspended, CRASHED")
    /\ UNCHANGED nodeVars

AnswerRecovering(n) ==
    /\ CASE view[n] \in {"RUNNING", "RECOVERING"} -> SetView(n, "RECOVERING")
         [] view[n] = "SUSPENDED" -> Stop("recovering, SUSPENDED")
         [] view[n] = "CRASHED"   -> Stop("recovering, CRASHED")
    /\ UNCHANGED nodeVars

\* Bug: the loop over the stubs does not start again.
NextCheckedPastEnd == checking + 1

\* The loop over the stubs, inside an endless loop.
NextChecked == (checking % NumReplicas) + 1

HealthUpdate ==
    /\ CanLock
    /\ \/ answer = "CRASHED"    /\ AnswerCrashed(checking)
       \/ answer = "RUNNING"    /\ AnswerRunning(checking)
       \/ answer = "SUSPENDED"  /\ AnswerSuspended(checking)
       \/ answer = "RECOVERING" /\ AnswerRecovering(checking)
    /\ answer' = "none"
    /\ checking' = NextChecked
    /\ UNCHANGED << lockLost, counters >>

-----------------------------------------------------------------------------
(* The requests of the console.                                             *)

\* A node obeys when it is RUNNING; the master looks only at whether the call
\* went through.
Suspend(n) ==
    /\ CanLock /\ status[n] # "CRASHED"
    /\ status' = IF status[n] = "RUNNING"
                 THEN [status EXCEPT ![n] = "SUSPENDED"] ELSE status
    /\ view' = [view EXCEPT ![n] = "SUSPENDED"]
    /\ IF primary = n THEN NextPrimary(view', n) ELSE UNCHANGED primary
    /\ UNCHANGED << threads, slot, unseen, healthVars, lockLost, stopped >>

\* The two refusals return with the lock held.
ReviveRefused(n) ==
    /\ CanLock /\ (primary = n \/ view[n] # "SUSPENDED")
    /\ lockLost' = TRUE
    /\ UNCHANGED << nodeVars, view, primary, stopped, healthVars >>

Revive(n) ==
    /\ CanLock /\ primary # n /\ view[n] = "SUSPENDED"
    /\ IF primary = NoNode THEN Stop("no stub") /\ UNCHANGED nodeVars
       ELSE RequestRecovery(primary, n)
    /\ UNCHANGED << healthVars, lockLost >>

Operator ==
    /\ requests < MaxRequests /\ requests' = requests + 1
    /\ \E n \in Nodes : Suspend(n) \/ ReviveRefused(n) \/ Revive(n)
    /\ UNCHANGED crashes

-----------------------------------------------------------------------------
Crash(n) ==
    /\ crashes < MaxCrashes /\ status[n] # "CRASHED"
    /\ Kill(n)
    /\ crashes' = crashes + 1
    /\ UNCHANGED << masterVars, requests >>

Restart(n) ==
    /\ status[n] = "CRASHED"
    /\ status' = [status EXCEPT ![n] = "RUNNING"]
    /\ UNCHANGED << threads, slot, unseen, masterVars, counters >>

ThreadStep(p) ==
    \E i \in DOMAIN threads[p] :
        \/ ReadTarget(p, i) \/ SendSrecovery(p, i) \/ SendReplay(p, i)
        \/ SetRunning(p, i) \/ NotifyRecoveryFinished(p, i)
        \/ ClearTarget(p, i)

Next == \/ HealthCall \/ HealthUpdate
        \/ Operator
        \/ \E n \in Nodes : ThreadStep(n) \/ Crash(n) \/ Restart(n)

Spec == Init /\ [][Next]_vars

\* The health check loops for ever, and recovery threads run to their end.
Fairness == /\ WF_vars(HealthCall) /\ WF_vars(HealthUpdate)
            /\ \A n \in Nodes : WF_vars(ThreadStep(n))

FairSpec == Spec /\ Fairness

-----------------------------------------------------------------------------
\* The variables have their types.
TypeOK ==
    /\ status \in [Nodes -> NodeStatus]
    /\ threads \in [Nodes -> Seq(Threads)]
    /\ slot \in [Nodes -> Nodes \cup {NoNode}]
    /\ view \in [Nodes -> NodeStatus]
    /\ primary \in Nodes \cup {NoNode}
    /\ checking \in Nodes /\ answer \in NodeStatus \cup {"none"}
    /\ lockLost \in BOOLEAN /\ stopped \in Stops
    /\ crashes \in 0 .. MaxCrashes /\ requests \in 0 .. MaxRequests
    /\ unseen \subseteq Nodes

\* The master never keeps a node it has seen crash as the primary, so the
\* health check never aborts because a "previous crased node cannot be a
\* primary node", however late its answers are.
PrimaryNotCrashed ==
    /\ primary # NoNode => view[primary] # "CRASHED"
    /\ stopped # "crashed primary"

\* Who is primary, although health answers are late and nodes restart unnoticed.
\* Until the operator interferes, a primary loses its role only for a crash,
\* though it may be back by then, and only once for each crash: a late answer
\* repeats none.  A request may also suspend it, or the late answer be of a
\* crash before it was revived.  Its successor is a node the master has as
\* RUNNING, and has not yet acted on as crashed if it is.  The role stays with
\* a node the operator has suspended only if no other is RUNNING.
Handover ==
    [][/\ primary' # primary =>
          /\ primary # NoNode =>
                \/ view'[primary] = "CRASHED" /\ primary \in unseen
                \/ view'[primary] \in {"CRASHED", "SUSPENDED"} /\ requests' > 0
          /\ primary' # NoNode =>
                /\ view'[primary'] = "RUNNING"
                /\ status'[primary'] = "CRASHED" => primary' \in unseen'
       /\ \A n \in Nodes :
             /\ primary = n /\ primary' = n
             /\ view[n] # "SUSPENDED" /\ view'[n] = "SUSPENDED"
             => \A m \in Nodes : view'[m] # "RUNNING"]_vars

\* Threads of p that have not yet set their node RUNNING.
Leading(p) == {i \in DOMAIN threads[p] :
                   threads[p][i].pc \in {"read", "srecovery", "replay", "run"}}

\* As long as no operator interferes, only the primary leads a recovery, one at
\* a time, and it is RECOVERING while it does, so that it serves no request
\* between the copies of its files ("Primary is busy with recovering other
\* nodes").
RecoveryExclusive ==
    requests = 0 =>
        \A p \in Nodes :
            /\ \A i, j \in Leading(p) : i = j
            /\ Leading(p) # {} => primary = p /\ status[p] = "RECOVERING"

\* The target a recovery thread is about to read is there ("assert(target_idx
\* != -1)" of KVPrimaryRecoveryThreadFunc).
TargetKnown ==
    \A p \in Nodes : \A i \in DOMAIN threads[p] :
        threads[p][i].pc = "read" => slot[p] # NoNode

\* The node a recovery has finished for is still RECOVERING for the master
\* ("assert(node.second == RECOVERING)" of NotifyRecoveryFinished).
NotifiedIsRecovering == stopped # "notify assertion"

AllRunning == /\ primary # NoNode
              /\ \A n \in Nodes : status[n] = "RUNNING" /\ view[n] = "RUNNING"

\* From a cold start, in which the master has every node as CRASHED, all nodes
\* are recovered one after the other and the cluster stays complete, unless a
\* process dies of an assertion or an operator intervenes.
ClusterForms ==
    <>[](\/ AllRunning
         \/ stopped # "no"
         \/ requests > 0 \/ crashes > 0
         \/ \E n \in Nodes : status[n] = "CRASHED")

\* No recovery hangs, whatever the operator does, as long as no node crashes:
\* the node leaves RECOVERING, and the master learns of it unless it has
\* stopped or lost its lock.
RecoveryEnds ==
    \A n \in Nodes :
        /\ status[n] = "RECOVERING" ~> \/ status[n] # "RECOVERING"
                                       \/ crashes > 0
        /\ view[n] = "RECOVERING" ~>
               \/ view[n] # "RECOVERING"
               \/ stopped # "no" \/ lockLost
               \/ \E m \in Nodes : status[m] = "CRASHED"
=============================================================================
