----------------------------- MODULE Replication -----------------------------
(***************************************************************************)
(* One cluster of KVStore nodes.  The primary holds its execute_lock while *)
(* it sends each request to its peers and then runs it itself; peers take  *)
(* their own execute_lock for the secondary half.  A recovery thread of    *)
(* the primary copies its files to a node and has them replayed there.     *)
(* The master is reduced to its decisions, each one step: module Master    *)
(* has its threads and its lock.                                           *)
(***************************************************************************)
EXTENDS TabletOps, SequencesExt

CONSTANTS
    NumReplicas,  \* num_replicas: nodes of a cluster
    Hazards,      \* what may happen beyond the tame runs, see AllHazards
    MaxLog,       \* bound: no log file grows beyond MaxLog records
    MaxLate,      \* bound: so many faults may leave a request behind
    MaxFaults     \* bound: crashes, suspensions and uses of an old address

AllHazards == {"busy_primary_crash",  \* a node dies inside a request or recovery
               "quick_restart",       \* a node restarts before the master looks
               "stale_client",        \* a client uses the address of an old primary
               "suspend_recovering",  \* the operator suspends a node in a recovery
               "early_health"}        \* a check falls between the master's request
                                      \* for a recovery and the start of it

ASSUME ReplicasAssumption == NumReplicas \in Nat \ {0}
ASSUME HazardsAssumption == Hazards \subseteq AllHazards
ASSUME BoundsAssumption == {MaxLog, MaxLate, MaxFaults} \subseteq Nat

Nodes == 1 .. NumReplicas

NoNode == 0

Requests == [op : {"get", "delete"}, cell : Cells]
            \cup [op : {"put"}, cell : Cells, new : Values]
            \cup [op : {"cput"}, cell : Cells, cur : Values, new : Values]
            \cup {[op |-> "keyvalue"]}

NoCall == [todo |-> << >>]

\* A request a primary is executing: the nodes that have not run it yet, the
\* primary last, and whether CheckHealth of the first one has succeeded.
Calls == [request : Requests, todo : Seq(Nodes), checked : BOOLEAN]

\* Secondary requests a primary had sent when it died.
LateRequests == [to : Nodes, request : Requests]

\* A recovery thread: step 0 sends Srecovery, steps 1 .. 2 * NumTablets copy
\* the checkpoint and the log of each tablet, then it sends Replay, sets its
\* node RUNNING, and last it notifies the master.
ReplayStep == 2 * NumTablets + 1
RunStep == ReplayStep + 1
NotifyStep == RunStep + 1

Threads == [target : Nodes, step : 0 .. NotifyStep]

NodeStatus == {"RUNNING", "SUSPENDED", "RECOVERING", "CRASHED"}

VARIABLES
    status,    \* node_status of each node; CRASHED: no process
    store,     \* memory and disk of each node
    call,      \* the request each node executes as primary: its execute_lock
    late,      \* requests that outlive the primary that has sent them
    threads,   \* the recovery threads of each node
    view,      \* the master's Cluster::status
    primary,   \* the master's Cluster::primary, or NoNode
    known,     \* old and new primaries whose address clients may use
    masterUp,  \* the master has not aborted
    faults     \* crashes, suspensions and uses of an old address so far

vars == << status, store, call, late, threads, view, primary, known, masterUp,
           faults >>

Init == /\ status = [n \in Nodes |-> "RUNNING"]
        /\ store = [n \in Nodes |-> InitStore]
        /\ call = [n \in Nodes |-> NoCall]
        /\ late = {}
        /\ threads = [n \in Nodes |-> << >>]
        /\ view = [n \in Nodes |-> "CRASHED"]
        /\ primary = NoNode
        /\ known = {}
        /\ masterUp = TRUE
        /\ faults = 0

LockFree(n) == call[n] = NoCall

May(hazard) == hazard \in Hazards

master == << view, primary, known, masterUp >>

-----------------------------------------------------------------------------
(* Client requests.                                                         *)

\* Bug: the loop counts from 1.
LocalKeyvalueFromOne(s) ==
    LET after[n \in 0 .. NumTablets] ==
            IF n = 0 THEN s ELSE WithTablet(after[n - 1], n)
    IN  after[NumTablets]

\* KVKeyvalueRequest and KVSkeyvalueRequest visit every tablet in order.
LocalKeyvalue(s) ==
    LET after[n \in 0 .. NumTablets] ==
            IF n = 0 THEN s ELSE WithTablet(after[n - 1], n - 1)
    IN  after[NumTablets]

\* What executing request r does to a store, on the primary and on a peer.
Apply(r, s) ==
    CASE r.op = "get"      -> LocalGet(s, r.cell)
      [] r.op = "put"      -> LocalPut(s, r.cell, r.new)
      [] r.op = "cput"     -> LocalCput(s, r.cell, r.cur, r.new)
      [] r.op = "delete"   -> LocalDelete(s, r.cell)
      [] r.op = "keyvalue" -> LocalKeyvalue(s)

\* KVSget asserts that its tablet is not in memory.
SecondaryAborts(r, s) == r.op = "get" /\ TabletOf[r.cell] \in Resident(s)

Peers(p) == [i \in 1 .. NumReplicas - 1 |-> IF i < p THEN i ELSE i + 1]

\* Bugs: KVGet never involves the peers; KVGet always does.
AudienceQuietGet(p, r) ==
    IF r.op = "get" THEN << p >> ELSE Append(Peers(p), p)

AudienceAlways(p, r) == Append(Peers(p), p)

\* KVGet involves the peers only when it is about to switch tablets.
Audience(p, r) ==
    IF r.op = "get" /\ TabletOf[r.cell] \in Resident(store[p])
    THEN << p >> ELSE Append(Peers(p), p)

LogsHaveRoom(r) ==
    r.op \in {"put", "cput", "delete"} =>
        \A n \in Nodes : Len(store[n].log[TabletOf[r.cell]]) < MaxLog

\* FetchNodeAddr gives clients the primary, and they use the address; a client
\* that uses the one of an old primary counts as a fault.
ClientFinds(p) ==
    IF masterUp /\ p = primary THEN UNCHANGED faults
    ELSE p \in known /\ faults < MaxFaults /\ faults' = faults + 1

\* Bug: requests are served during a recovery.
BeginInRecovery(p, r) ==
    /\ ClientFinds(p)
    /\ status[p] \in {"RUNNING", "RECOVERING"} /\ LockFree(p)
    /\ LogsHaveRoom(r)
    /\ call' = [call EXCEPT ![p] = [request |-> r, todo |-> Audience(p, r),
                                    checked |-> FALSE]]
    /\ UNCHANGED << status, store, late, threads, master >>

\* The request reaches node p, which takes its execute_lock; a node that is
\* not RUNNING answers FAILURE and changes nothing.
Begin(p, r) ==
    /\ ClientFinds(p)
    /\ status[p] = "RUNNING" /\ LockFree(p)
    /\ LogsHaveRoom(r)
    /\ call' = [call EXCEPT ![p] = [request |-> r, todo |-> Audience(p, r),
                                    checked |-> FALSE]]
    /\ UNCHANGED << status, store, late, threads, master >>

NextNode(p) ==
    call' = [call EXCEPT ![p] = [request |-> @.request, todo |-> Tail(@.todo),
                                 checked |-> FALSE]]

\* Before each peer the primary asks for its health, without any lock.
CheckPeer(p) ==
    /\ ~LockFree(p) /\ ~call[p].checked
    /\ LET n == Head(call[p].todo)
       IN  /\ n # p
           /\ IF status[n] = "RUNNING"
              THEN call' = [call EXCEPT ![p].checked = TRUE]
              ELSE NextNode(p)
    /\ UNCHANGED << status, store, late, threads, master, faults >>

\* Node n stops: its memory is gone, its next start wipes its files, and what
\* was sent to it never runs.
Stop(n, pending) == /\ status' = [status EXCEPT ![n] = "CRASHED"]
                    /\ store' = [store EXCEPT ![n] = InitStore]
                    /\ threads' = [threads EXCEPT ![n] = << >>]
                    /\ late' = {x \in pending : x.to # n}

\* Node n gets its execute_lock for a secondary request, while the late ones in
\* pending wait.
Serve(n, r, pending) ==
    /\ LockFree(n)
    /\ CASE status[n] # "RUNNING" ->
              late' = pending /\ UNCHANGED << status, store, threads >>
         [] status[n] = "RUNNING" /\ SecondaryAborts(r, store[n]) ->
              Stop(n, pending)
         [] OTHER ->
              /\ store' = [store EXCEPT ![n] = Apply(r, @)]
              /\ late' = pending /\ UNCHANGED << status, threads >>

\* Then it sends the secondary request, whatever has happened to the peer
\* since; every failure is ignored.
ExecutePeer(p) ==
    /\ ~LockFree(p) /\ call[p].checked
    /\ Serve(Head(call[p].todo), call[p].request, late)
    /\ NextNode(p)
    /\ UNCHANGED << master, faults >>

\* The peer executes it although its primary is dead by then.
ExecuteLate(x) ==
    /\ LogsHaveRoom(x.request)
    /\ Serve(x.to, x.request, late \ {x})
    /\ UNCHANGED << call, master, faults >>

\* Last, the primary executes the request itself and answers the client.
ExecuteLocal(p) ==
    /\ ~LockFree(p) /\ Head(call[p].todo) = p
    /\ store' = [store EXCEPT ![p] = Apply(call[p].request, @)]
    /\ call' = [call EXCEPT ![p] = NoCall]
    /\ UNCHANGED << status, late, threads, master, faults >>

-----------------------------------------------------------------------------
(* Recovery of a node by a recovery thread of the primary.                  *)

Advance(p, i) == threads' = [threads EXCEPT ![p][i].step = @ + 1]

ThreadAt(p, i, steps) ==
    i \in DOMAIN threads[p] /\ threads[p][i].step \in steps

\* Srecovery: accepted when RUNNING or SUSPENDED; otherwise the error is
\* ignored.
SendSrecovery(p, i) ==
    /\ ThreadAt(p, i, {0})
    /\ LET t == threads[p][i].target
       IN  /\ LockFree(t)
           /\ status' = IF status[t] \in {"RUNNING", "SUSPENDED"}
                        THEN [status EXCEPT ![t] = "RECOVERING"] ELSE status
    /\ Advance(p, i)
    /\ UNCHANGED << store, call, late, master, faults >>

\* Filetransfer overwrites a file unless Checksum finds it the same already:
\* odd steps are checkpoints, even steps logs.
Overwritten(s, step, from) ==
    LET t == (step - 1) \div 2
    IN  IF step % 2 = 1
        THEN [s EXCEPT !.ckpt = SetTablet(@, t, from.ckpt)]
        ELSE [s EXCEPT !.log[t] = from.log[t]]

\* A target that is not RECOVERING rejects both requests and the thread goes
\* on.
CopyFile(p, i) ==
    /\ ThreadAt(p, i, 1 .. 2 * NumTablets)
    /\ LET n == threads[p][i].target
       IN  /\ LockFree(n)
           /\ store' = IF status[n] = "RECOVERING"
                       THEN [store EXCEPT
                                ![n] = Overwritten(@, threads[p][i].step,
                                                   store[p])]
                       ELSE store
    /\ Advance(p, i)
    /\ UNCHANGED << status, call, late, master, faults >>

\* Bug: the maps in memory are kept.
ReplayedKeepsMap(s, mem) == [s EXCEPT !.mem = mem]

\* KVReplay: memory becomes the tablets the primary has in memory, in the
\* same order, each rebuilt by ReplayTablet from the files of the node.
Replayed(s, mem) ==
    [s EXCEPT !.mem = mem,
              !.map = [c \in Cells |-> IF TabletOf[c] \in Elements(mem)
                                       THEN ReplayCell(s, c) ELSE NoValue]]

SendReplay(p, i) ==
    /\ ThreadAt(p, i, {ReplayStep})
    /\ LET n == threads[p][i].target
           mem == store[p].mem
       IN  /\ LockFree(n)
           /\ IF status[n] # "RECOVERING"
              THEN /\ Advance(p, i)
                   /\ UNCHANGED << status, store, late >>
              ELSE IF \E t \in Elements(mem) : ReplayAborts(store[n], t)
              THEN /\ status' = [status EXCEPT ![n] = "CRASHED"]
                   /\ store' = [store EXCEPT ![n] = InitStore]
                   /\ threads' = [threads EXCEPT ![p][i].step = @ + 1,
                                                 ![n] = << >>]
                   /\ late' = {x \in late : x.to # n}
              ELSE /\ status' = [status EXCEPT ![n] = "RUNNING"]
                   /\ store' = [store EXCEPT ![n] = Replayed(@, mem)]
                   /\ Advance(p, i)
                   /\ UNCHANGED late
    /\ UNCHANGED << call, master, faults >>

\* The primary is RUNNING again, without its lock and whatever Replay answered.
SetRunning(p, i) ==
    /\ ThreadAt(p, i, {RunStep})
    /\ status' = [status EXCEPT ![p] = "RUNNING"]
    /\ Advance(p, i)
    /\ UNCHANGED << store, call, late, master, faults >>

\* NotifyRecoveryFinished: the master asserts that it still has the node as
\* RECOVERING.  The thread ends whether it reaches the master or not.
NotifyRecoveryFinished(p, i) ==
    /\ ThreadAt(p, i, {NotifyStep})
    /\ LET n == threads[p][i].target
       IN  CASE masterUp /\ view[n] = "RECOVERING" ->
                  view' = [view EXCEPT ![n] = "RUNNING"] /\ UNCHANGED masterUp
             [] masterUp /\ view[n] # "RECOVERING" ->
                  masterUp' = FALSE /\ UNCHANGED view
             [] OTHER -> UNCHANGED << view, masterUp >>
    /\ threads' = [threads EXCEPT ![p] = RemoveAt(@, i)]
    /\ UNCHANGED << status, store, call, late, primary, known, faults >>

-----------------------------------------------------------------------------
(* The master.                                                              *)

Abort == masterUp' = FALSE /\ UNCHANGED << view, primary >>

\* Execute(recovery) on the primary (KVPrimaryRecovery): refused unless the
\* primary is RUNNING and reaches the target.
RequestRecovery(n) ==
    LET p == primary
    IN  /\ LockFree(p)
        /\ IF status[p] = "RUNNING" /\ status[n] # "CRASHED"
           THEN /\ status' = [status EXCEPT ![p] = "RECOVERING"]
                /\ threads' = [threads EXCEPT
                                  ![p] = Append(@, [target |-> n, step |-> 0])]
                /\ view' = [view EXCEPT ![n] = "RECOVERING"]
           ELSE UNCHANGED << status, threads, view >>
        /\ UNCHANGED << primary, masterUp >>

\* "Find next available node": any node the master has as RUNNING.
NextPrimary(v, others) ==
    LET running == {n \in Nodes : v[n] = "RUNNING"}
    IN  IF running = {} THEN primary' = others ELSE primary' \in running

ClientsLearn == known' = IF May("stale_client")
                         THEN known \cup ({primary'} \ {NoNode}) ELSE known

\* CheckHealth fails: the node is down.
HealthCrashed(n) ==
    /\ masterUp /\ status[n] = "CRASHED"
    /\ view' = [view EXCEPT ![n] = "CRASHED"]
    /\ IF primary = n THEN NextPrimary(view', NoNode) ELSE UNCHANGED primary
    /\ ClientsLearn
    /\ UNCHANGED << status, store, call, late, threads, masterUp, faults >>

AwaitsRecovery(n) == \E p \in Nodes : \E i \in DOMAIN threads[p] :
                         threads[p][i] = [target |-> n, step |-> 0]

InRecovery(n) == \E p \in Nodes : \E i \in DOMAIN threads[p] :
                     n \in {p, threads[p][i].target}

\* CheckHealth answers SUCCESS.
HealthRunning(n) ==
    /\ masterUp /\ status[n] = "RUNNING"
    /\ AwaitsRecovery(n) => May("early_health")
    /\ CASE view[n] # "CRASHED" ->
              /\ view' = [view EXCEPT ![n] = "RUNNING"]
              /\ UNCHANGED << primary, status, threads, masterUp >>
         [] view[n] = "CRASHED" /\ primary = NoNode ->
              /\ view' = [view EXCEPT ![n] = "RUNNING"]
              /\ primary' = n
              /\ UNCHANGED << status, threads, masterUp >>
         [] view[n] = "CRASHED" /\ primary = n ->
              Abort /\ UNCHANGED << status, threads >>
         [] OTHER -> RequestRecovery(n)
    /\ ClientsLearn
    /\ UNCHANGED << store, call, late, faults >>

\* CheckHealth answers SUSPENDED or RECOVERING: where the master's own status
\* makes that impossible it aborts.
HealthNotRunning(n) ==
    /\ masterUp /\ status[n] \in {"SUSPENDED", "RECOVERING"}
    /\ AwaitsRecovery(n) => May("early_health")
    /\ CASE view[n] = status[n] -> UNCHANGED << view, primary, masterUp >>
         [] status[n] = "RECOVERING" /\ view[n] = "RUNNING" ->
              /\ view' = [view EXCEPT ![n] = "RECOVERING"]
              /\ UNCHANGED << primary, masterUp >>
         [] OTHER -> Abort
    /\ UNCHANGED << status, store, call, late, threads, known, faults >>

\* The operator suspends node n: the master looks at the transport status of
\* the request only, so a node that refuses is suspended all the same.
Suspend(n) ==
    /\ masterUp /\ faults < MaxFaults
    /\ status[n] # "CRASHED" /\ LockFree(n)
    /\ (status[n] = "RUNNING" /\ ~InRecovery(n)) \/ May("suspend_recovering")
    /\ status' = IF status[n] = "RUNNING"
                 THEN [status EXCEPT ![n] = "SUSPENDED"] ELSE status
    /\ view' = [view EXCEPT ![n] = "SUSPENDED"]
    /\ IF primary = n THEN NextPrimary(view', n) ELSE UNCHANGED primary
    /\ faults' = faults + 1
    /\ ClientsLearn
    /\ UNCHANGED << store, call, late, threads, masterUp >>

\* The operator revives a suspended node that is not the primary.
Revive(n) ==
    /\ masterUp /\ primary \notin {n, NoNode} /\ view[n] = "SUSPENDED"
    /\ RequestRecovery(n)
    /\ UNCHANGED << store, call, late, known, faults >>

-----------------------------------------------------------------------------
(* Failures.                                                                *)

Idle(n) == LockFree(n) /\ threads[n] = << >>

\* The secondary request that p may have sent and has no answer to.
InFlight(p) ==
    IF LockFree(p) \/ ~call[p].checked \/ faults >= MaxLate THEN {}
    ELSE {x \in {[to |-> Head(call[p].todo), request |-> call[p].request]} :
             status[x.to] # "CRASHED"}

Crash(n) ==
    /\ faults < MaxFaults /\ status[n] # "CRASHED"
    /\ Idle(n) \/ May("busy_primary_crash")
    /\ Stop(n, late \cup InFlight(n))
    /\ call' = [call EXCEPT ![n] = NoCall]
    /\ faults' = faults + 1
    /\ UNCHANGED master

\* A process starts: InitEnv wipes its directory.
Restart(n) ==
    /\ status[n] = "CRASHED"
    /\ view[n] = "CRASHED" \/ May("quick_restart")
    /\ status' = [status EXCEPT ![n] = "RUNNING"]
    /\ UNCHANGED << store, call, late, threads, master, faults >>

Next == \/ \E p \in Nodes, r \in Requests : Begin(p, r)
        \/ \E p \in Nodes : CheckPeer(p) \/ ExecutePeer(p) \/ ExecuteLocal(p)
        \/ \E x \in late : ExecuteLate(x)
        \/ \E p \in Nodes : \E i \in DOMAIN threads[p] :
               \/ SendSrecovery(p, i) \/ CopyFile(p, i) \/ SendReplay(p, i)
               \/ SetRunning(p, i) \/ NotifyRecoveryFinished(p, i)
        \/ \E n \in Nodes :
               \/ HealthCrashed(n) \/ HealthRunning(n) \/ HealthNotRunning(n)
               \/ Suspend(n) \/ Revive(n) \/ Crash(n) \/ Restart(n)

Spec == Init /\ [][Next]_vars

-----------------------------------------------------------------------------
\* The variables have their types.
TypeOK ==
    /\ status \in [Nodes -> NodeStatus]
    /\ store \in [Nodes -> Stores]
    /\ call \in [Nodes -> Calls \cup {NoCall}]
    /\ late \subseteq LateRequests
    /\ threads \in [Nodes -> Seq(Threads)]
    /\ view \in [Nodes -> NodeStatus]
    /\ primary \in Nodes \cup {NoNode}
    /\ known \subseteq Nodes /\ masterUp \in BOOLEAN
    /\ faults \in 0 .. MaxFaults

\* Memory and files of a node agree, and its log can be replayed, whenever it
\* can serve a request: a recovery that is cut short leaves no RUNNING or
\* SUSPENDED node with the files of one node and the memory of another.
StoresSound ==
    \A n \in Nodes : status[n] # "RECOVERING" => StoreOK(store[n])

\* What node n holds once the request in flight is through.
Settled(n) ==
    LET due == {p \in Nodes : ~LockFree(p)
                              /\ \E i \in DOMAIN call[p].todo :
                                     call[p].todo[i] = n}
    IN  IF due = {} THEN store[n]
        ELSE Apply(call[CHOOSE p \in due : TRUE].request, store[n])

\* All nodes the master has as RUNNING share the same memory and disk state,
\* tablet order included, up to the request being broadcast: what a client
\* was told is on every node that may become primary, and no Sget finds its
\* tablet in the memory of a peer.
Lockstep ==
    primary # NoNode /\ status[primary] = "RUNNING" =>
        \A n \in Nodes : status[n] = "RUNNING" /\ view[n] = "RUNNING" =>
            Settled(n) = Settled(primary)

\* A node that the master counts as RUNNING never dies of the assertion of
\* KVSget ("assert tablet is not in mem").
SgetFindsTabletOnDisk ==
    \A p \in Nodes :
        ~LockFree(p) /\ call[p].checked =>
            LET n == Head(call[p].todo)
            IN  status[n] = "RUNNING" /\ view[n] = "RUNNING" =>
                    ~SecondaryAborts(call[p].request, store[n])

\* A node leaves a recovery with the memory, the files and the tablet order
\* of the node that recovered it.
RecoveryCopiesNode ==
    [][\A p, n \in Nodes :
           (\E i \in DOMAIN threads[p] :
                SendReplay(p, i) /\ threads[p][i].target = n)
           /\ status[n] = "RECOVERING" /\ status'[n] = "RUNNING"
           => store'[n] = store[p]]_vars
=============================================================================
