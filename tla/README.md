# TLA+ models of PennCloud

PennCloud is a web-mail and file-storage service: HTTP front ends behind a load
balancer, an SMTP service, and below them a replicated key-value store
(`src/KVStore`), in which everything is kept. These modules specify

* the store: the storage engine of a node, the replication and recovery protocol
  of a cluster of three nodes, and the master that watches the nodes;
* what the front ends keep in it: mailboxes, sessions, and the drive together
  with the web page that holds its tree;
* how requests reach them: the accept loop, the reading of requests, the SMTP
  dialogue.

TLC checks them on small instances; TLAPS proves the central invariants for
every value of the constants.

All paths below are relative to `src/`.

## 1. The system

| Component | State it keeps | Operations | Interacts with |
|---|---|---|---|
| KVStore node, storage engine (`KVStore/kvstore_node.cc`, `kvstore_node_utils.cc`) | `tablet_mem_vec` (resident tablets, in order of loading), a checkpoint file and a log file per tablet | `KVSget/KVSput/KVScput/KVSdelete/KVSkeyvalueRequest` and the local half of the primary handlers; `LoadTablet`, `UnloadTablet`, `ReplayTablet`; `InitEnv` | its disk |
| KVStore node, replication and recovery (`kvstore_node.cc`) | `node_status`, `execute_lock`, `target_addr_to_recover`, detached recovery threads | `Execute` dispatch, the broadcast of each primary handler, `KVSuspend`, `KVPrimaryRecovery`, `KVPrimaryRecoveryThreadFunc`, `KVSecondaryRecovery`, `KVChecksum`, `KVFiletransfer`, `KVReplay`, `CheckHealth` | peers (gRPC), the master |
| KVStore master (`kvstore_master.cc`) | per cluster: `status` (its view of each node), `primary`, `lock` | health check thread (`ThreadFunc`), `FetchNodeAddr`, `NotifyRecoveryFinished`, `Suspend`, `Revive`, `PollStatus`, `ShowKeyValue` | nodes, clients, consoles |
| Client library (`kvstore_client.cc`) | none | Get, Put, CPut, Delete: fetch the primary's address, then call it | master, primary |
| Console library (`kvstore_console.cc`) | `node_to_cluster_`, filled by the first `PollStatus` | `PollStatus`, `Suspend`, `Revive`, `ShowKeyValue` | master |
| HTTP API handler, accounts and sessions (`HTTP Server/api_handler.cpp`) | the cells `password` and `cookie` of each user | signup, `login`, `logout`, `checkCookie`, changePassword | client library |
| HTTP API handler, mail | the cell `mails` of each user | `sendEmail`, `getEmailList`, `deleteEmail`: read, change, write back | client library |
| HTTP API handler, files and administration | the cell `files` (the tree) and a cell for each content | `getFiles`, `changeFiles`, `uploadFile`, `downloadFile`, `deleteFile`; status and data of the nodes | client and console libraries |
| Web page of the drive (`HTTP Server/react/static/js/main.*.js`, component `CloudDrive`) | `dirTree`, the whole tree, in each browser | upload, move, rename, delete, create a directory; an effect that posts the tree after every change | API handler |
| SMTP and mail service (`HTTP Server/mail_service.cpp`) | the stage and letter of each dialogue, one mailbox lock per process | HELO, MAIL, RCPT, DATA, RSET, QUIT, delivery | client library |
| HTTP server and load balancer (`server.cpp`, `load_balancer.cpp`) | connections and the threads that serve them | accept loop, one thread per connection, answer, close | API handler |
| Socket reader (`socket_reader.cpp`) | a buffer per connection | `fillBuffer`, `readLine`, `readBulk`, `readData` | HTTP server |

What is hard about it:

* **Concurrency.** A node serialises requests with `execute_lock`, and a primary
  keeps it while it calls each peer, one after the other, without a deadline.
  Recovery threads run outside that lock and share `target_addr_to_recover`. The
  master's health check reads a node's status *before* it takes the cluster's
  lock and acts on it afterwards, next to the console's requests.
* **Failure.** A process may die inside a broadcast or a recovery. A process
  that starts wipes its directory (`InitEnv`), so a restart always loses the
  data, and recovery copies it back from the primary. Every failed remote call
  of a broadcast or a recovery is ignored or only logged.
* **Ordering.** That replicas are equal includes the *order* of their resident
  tablets, since each evicts for itself: a replica that evicts another tablet
  writes another checkpoint and truncates another log.
* **Time.** There are no timeouts; a retry happens only because the health check
  comes round again after a second.
* **Lists as cells.** A mailbox and a tree of files are one cell each. They are
  read, changed and written back as a whole by threads that know nothing of each
  other; only the threads of one SMTP service share a lock. A read that fails is
  taken for an empty cell, a write that fails is only logged.
* **State in the browser.** A page posts its whole tree after every change over
  connections of their own and looks at no answer, so requests overtake each
  other, and two pages know nothing of each other.
* **Bytes and descriptors.** The accept loop passes each new thread the address
  of a variable it will overwrite; `recv` may cut a request anywhere; the
  lengths are computed without a sign.

What makes each component correct:

* *Engine*: a tablet's memory is its checkpoint plus its log; nothing is lost
  when a tablet is evicted; a log can always be replayed; the node looks like
  one dictionary.
* *Replication*: all nodes that may become primary hold the same memory and
  files; a recovery leaves an exact copy; a node never serves requests with a
  memory that disagrees with its files.
* *Master*: no crashed node is primary; the role changes hands only for a reason
  and only to a running node; recoveries are exclusive and end; the cluster
  forms from a cold start; what the code calls impossible is so.
* *Mail*: ids identify mails; a mailbox holds what senders and owner have been
  told; a mail that is lost has one of the known causes; every delivery ends.
* *SMTP*: an orderly mail is delivered as its client meant it, whatever came
  before it in the dialogue.
* *HTTP server, reader*: every answer goes to the connection that asked, bodies
  are whole, and a client that sends what it announces is answered.
* *Sessions and drive*: the session of the last login stands until its own page
  ends it; at rest the drive lists the files the user has seen and not deleted,
  with their contents, unless one of the known things has gone wrong.

## 2. Modules

| Module | Models | Lines of the source it stands for |
|---|---|---|
| `TabletOps` | the storage engine as operators on a *store*, the value of all its state | `kvstore_node.cc` 45-88, the local halves of the handlers, 1274-1334; `kvstore_node_utils.cc` 19-63 |
| `KVTable` | the abstract specification: one dictionary | none |
| `TabletStore` | one node's handlers and `KVKeyvalueRequest`, a step per tablet | 293-867, 1378-1467 |
| `Replication` | a cluster: broadcast, health, recovery, crash and restart; uses `TabletOps` for each node's store | 179-291, 293-1152, 1181-1272, 1336-1467 and the decisions of `kvstore_master.cc` |
| `Master` | the master's threads and lock against the nodes' status and recovery threads | `kvstore_master.cc` 29-191, 272-318, 358-462; `kvstore_node.cc` 886-1152 |
| `Mailbox` | the mailboxes under threads of the HTTP servers and of the SMTP service | `api_handler.cpp` 179-294; `mail_service.cpp` 184-233 |
| `Smtp` | one SMTP dialogue, line by line | `mail_service.cpp` 40-263 |
| `SocketReader` | the reading of a request as operators on one reader | `socket_reader.cpp` |
| `HttpServer` | the accept loop and its threads; uses `SocketReader` for each | `server.cpp` 19-172 |
| `Session` | the cookie of one user and the cookies of his browsers | `api_handler.cpp`: `login`, `logout`, `checkCookie` |
| `DriveTree` | the tree of a drive as operators | component `CloudDrive` of the built page |
| `Drive` | pages, requests on their way, the stored tree and contents; composes `Session` and `DriveTree` | the handlers of files of `api_handler.cpp`; `CloudDrive` |
| `MCTabletStore`, `MCReplication`, `MCDrive` | constants and symmetry for TLC | |
| `TabletOpsProofs`, `TabletStoreProofs`, `ReplicationProofs`, `MasterProofs`, `MailboxProofs`, `SmtpProofs`, `HttpServerProofs`, `DriveProofs` | the proofs | |

The front ends meet the store through the client library only, and a failure of
the library is all they see of the store's faults. `Mailbox` and `Drive`
therefore use cells that are atomic, as `KVTable` and the primary's
`execute_lock` justify, and calls that may fail. `Smtp` hands over a complete
letter, and `Mailbox` begins with one (`Send` by an SMTP thread). The page is
only in the repository as the bundle that the HTTP server delivers, of which
line 2 holds all the code; the functions are named by their symbols
(`handleMove`, `handleDelete`, ...).

`Replication` and `Master` describe the same recovery from two sides.
`Replication` keeps the data and makes every decision of the master one step;
`Master` keeps the master's interleavings and drops the data. Neither state
space would be checkable with both.

### How the state corresponds

**TabletOps.** A store is a record `[mem, map, ckpt, log]`. `mem` is
`tablet_mem_vec` (indices, front first). `map` holds the `std::map`s of the
resident tablets as one function on cells, `NoValue` where there is no cell, and
`ckpt` the contents of the checkpoint files likewise; the tablet a cell falls in
is the constant `TabletOf`, which stands for `GetDigest` and `Digest2TabletIdx`.
`log[t]` is the sequence of records in a log file. `WithTablet` is the common
beginning of all handlers: find the tablet in memory or make room
(`UnloadTablet`: checkpoint the front, truncate its log) and load it
(`LoadTablet`: the checkpoint only). `ReplayCell` is the effect of
`ReplayTablet`, in closed form: the last record of a cell decides; `ReplayLoop`
is the loop itself, record by record, and the two are proved equal for every log
(`ReplayCellIsTheLoop`). `ReplayAborts` is the assertion that a deleted cell
exists. `NoValue` also stands for the empty message of a response. The text
format of the two kinds of file and disk errors are abstracted.

**TabletStore.** `cursor` and `pairs` are the local variables of
`KVKeyvalueRequest`; while it runs it holds `execute_lock`, so the other
handlers wait (`LockFree`). The process may die at any step (`Restart`).

**Replication.** `status[n]` is `node_status`, with `CRASHED` for "no process".
`call[p]` is the request `p` executes as primary: its presence is
`execute_lock`, `todo` lists the nodes that have not run it, `checked` says that
the `CheckHealth` of the first one has succeeded. `threads[p]` are the recovery
threads with their progress. `view` and `primary` are the master's
`Cluster::status` and `Cluster::primary`. A peer's secondary handler is one
step, since it holds the peer's lock throughout and calls nobody. `late` are
secondary requests whose primary died after sending them (`InFlight`): the peer
runs such a request at any later time, next to those of the new primary, unless
it dies itself (`ExecuteLate`). `known` are the nodes that have been primary, of
which `FetchNodeAddr` may have told a client (`ClientFinds`). The requests of a
recovery that are still on their way when the primary dies are dropped instead.
After a Filetransfer the target stays RECOVERING in any case, and it leaves that
state only when its process ends. A Replay that comes late finds the files it
would have found in time, so that the target is as sound as if it had come just
before the primary died; only the requests a new primary has executed meanwhile
tell the two apart, and the runs with such crashes claim no agreement between
nodes. A thread sets its own node RUNNING (`SetRunning`) in a step after the
answer to Replay. Checksum and Filetransfer of one file are one step: nothing
else writes the files of a RECOVERING node, and sending only what differs has
the same result as sending everything.

**Master.** `checking` and `answer` are the position of `ThreadFunc` and the
result of its `CheckHealth`; `HealthCall` reads it without the lock,
`HealthUpdate` is the section under the lock. The section that holds the lock
and calls a node is one step; the steps of nodes that fall inside it commute
with it. `slot[p]` is `target_addr_to_recover`, `threads[p]` the recovery
threads with their program counter. `lockLost` says that `Revive` has returned
without unlocking (lines 414-428), `stopped` why the master process ended: one
value for each `abort()` and failed assertion. `unseen` only observes: the nodes
whose last crash the master has not acted on. Which RUNNING node becomes primary
is left open: `Cluster::status` is an `unordered_map`, and its order is not
specified.

**Mailbox.** `box[u]` is the cell `mails` of `u`, `NoBox` the empty string a Get
returns for no cell *and* for a failure. `job[t]` is what a thread is doing:
`pc` says whether it is before the lock, the Get or the Put, `read` is the list
it has read, `tos` the recipients left (the loop of `mailWorker`). `lock` is
`lock_`, taken once per recipient by SMTP threads only. `page[u]` is the list
the user sees and deletes from. `kept`, `given`, `harm` and `causes` only
observe: the mails the answers promised, the ids given, what has gone wrong with
a box, and what could have been the reason.

**Smtp.** `stage` and `letter` are the local variables `stage`, `from`, `tos`,
`mail` of `mailWorker`, `buffer` the lines that have been received and not
handled: the end of a text and the brackets of an address are looked for in the
whole of it, not in the line. A line is its verb and argument; lines of a text
are told apart by whether they begin like a command, are the subject, or are
short (`substr(8)` throws). `meant` is the mail as a client that follows the
standard sees it: after 354 everything it sends is text. `odd` collects
departures from an orderly dialogue.

**SocketReader, HttpServer.** A reader counts the bytes in its buffer; `phase`
says which `recv` it is in. A header has three lines, of which the first is what
a request is routed by, the second announces the length, and the third is empty;
if the stream ends within them, the complete lines are taken for the header and
what follows for the body (`CutHeader`), and the request is answered if its
first line is there (`routed`). Subtraction of sizes wraps at `Width`. `slot` is
`comm_fd`, the variable of the loop's body that every iteration finds at the
same address; `thread[c]` is the thread created for `c` with the descriptor it
has read from there. `file` maps descriptors to connections, and `accept` takes
the least free one. `late` and `short` observe a thread that found a later
descriptor, and a `recv` that returned less than was on its way.

**Session, Drive.** `cookie` is the cell, `jar[p]` the browser's cookie,
`second` the clock; `leaving` are the logouts between `checkCookie` and the
deletion. `files` is the cell with the tree, `cells` the contents by id.
`tree[p]` is `dirTree` of a page: a sequence of all entries, each with the
directory it is in. `out[p]` are requests on their way; any may be served next,
and each is served in one step. `logout`, whose write is the deletion of the
cookie it has checked, has two. For the other handlers the check and the write
are merged: a change of the cookie that falls between them is as good as one
after the write, unless another request that relies on the new cookie falls in
between, too. `known`, `kept`, `seen`, `harm` and `causes` only observe.

### Hazards as a constant

The strong properties of a cluster are claims under assumptions about time, and
`Replication` states each assumption as a switch. `Hazards` lists what may
happen *beyond* them:

| Switch | Without it |
|---|---|
| `busy_primary_crash` | a node dies only between requests and recoveries |
| `quick_restart` | a node starts only after the master has seen it crashed (the check runs every second) |
| `stale_client` | a client's request reaches the node that is primary at that moment |
| `suspend_recovering` | the operator suspends only RUNNING nodes outside recoveries |
| `early_health` | no health check falls between the master's request for a recovery and its thread's Srecovery |

## 3. Runs

| Run | Module, constants | Shows |
|---|---|---|
| `tablet_store` | `MCTabletStore`; 3 tablets, 2 in memory, 3 cells, 2 values, logs up to 2 records | the engine's invariants, and that it implements `KVTable` |
| `replication` | `MCReplication`; 3 nodes, 2 tablets, 1 in memory, 1 cell, 1 value, logs up to 1 record, 2 crashes or suspensions, no hazard but `early_health` | `Lockstep`, `SgetFindsTabletOnDisk` |
| `replication_faults` | the same with 2 nodes, 3 faults, of which the first may leave a request behind, and the hazards `busy_primary_crash`, `quick_restart`, `stale_client`, `early_health` | types, `StoresSound`, `RecoveryCopiesNode` |
| `replication_sget` | 3 nodes, 1 fault, `busy_primary_crash` | **violation** of `SgetFindsTabletOnDisk` |
| `master` | `Master`; 3 nodes, 1 crash, any restarts, 2 requests of the operator | types, `PrimaryNotCrashed`, `RecoveryExclusive`, `Handover` |
| `master_liveness` | 3 nodes, no crash, 2 requests, fairness | `ClusterForms`, `RecoveryEnds` |
| `master_notify` | 3 nodes, no crash, no request | **violation** of `NotifiedIsRecovering` |
| `master_target` | 3 nodes, no crash, no request | **violation** of `TargetKnown` |
| `mailbox` | `Mailbox`; 2 users, 2 mails to up to 2 recipients, 1 HTTP and 2 SMTP threads, 1 failure, 1 deletion, fairness | `IdsIncrease`, `KeepsWhatItSaid`, `HarmHasCause`; every delivery ends (`JobsEnd`) |
| `smtp` | `Smtp`; a local and another address and the empty sender, two recipients per mail, texts of one line and what was received together with it, one line behind the one that is handled, dialogues without end | `DeliversWhatWasMeant`, `SenderIsMeant`, `HasRecipient` |
| `http_server` | `HttpServer`; 2 connections, `recv` of 2 bytes, sizes modulo 16, bodies of 0, 3 or 4 bytes, or no length, sent one byte short (within the header, when there is no body), exactly or one long, with or without a hang-up at the end; fairness | `AnswersItsOwn`, `BodyWhole`, `ClosesExact` |
| `drive` | `MCDrive`; 2 pages, 2 names, trees of up to 3 entries, 3 things the user does, 3 requests per page, 1 failed call, 2 seconds | `LastLoginStands`, `KeepsFiles`, `HarmHasCause` |

Why the bounds are enough:

* *Engine.* What matters is whether a tablet is resident, and which one is in
  front. With three tablets and two places every load may evict, the tablet
  evicted may be the one that was just written, and an order of two is kept to
  be right or wrong. Two cells in one tablet and logs of two records give puts
  and deletes of the same and of different cells in one log; the theorems remove
  the bounds.
* *Replication.* One cell in one of two tablets and one place: each of Get, Put,
  CPut, Delete and the listing may or may not switch tablets, and replicas may
  differ in data and in the resident tablet. Three nodes are the code's number
  (`num_replicas`), needed for two peers that differ; two suffice for a
  recovery. Two faults allow a fault of the node that has just been recovered or
  has just become primary; with three, an old address can be used after two
  changes of the primary. The first fault alone leaves a request behind
  (`MaxLate`): the request is then still there through both others and all
  recoveries. `MaxLog` bounds the log of the one cell; an eviction empties the
  log, so writes go on.
* *Master.* Three nodes are the code's number. One crash with restarts covers
  the loss of the primary and of a target; two requests cover Suspend followed
  by Revive, Suspend of two nodes, and both refusals.
* *Mailbox.* To lose a mail takes two threads on one box; a third thread shows
  that the lock holds among SMTP threads while an HTTP thread ignores it. Two
  mails let an id be given again after a deletion, two recipients let a thread
  die or fail between two boxes.
* *SMTP.* What is left over of one mail may turn up in the next, so mails follow
  each other without bound. One line behind the one that is handled is enough
  for an end of the text that is none, and for an address that is taken from the
  next line. Lines received together, and an end that became text, make texts of
  two lines and more, with and without a subject in either place; the two
  addresses and the empty one tell a sender from the next mail's. `MaxTos` and
  `MaxText` only bound what is sent, not what the server makes of it.
* *HTTP server.* Two connections suffice for a descriptor that is used again,
  and for a thread that starts late. A body of up to twice `Load` makes the loop
  of `readBulk` and the part after it both run, with a rest of 0, 1 or 2 bytes
  and with more bytes buffered than announced. One of an odd number of bytes
  leaves, after the `recv` of the header, a rest of 2 bytes, which may itself
  come up short: with 4 alone that is never reached.
* *Drive.* The first tree has a directory and a file; three things done on two
  pages include: upload, move and delete of one file; a change on each page and
  a load; login, login and logout. With four entries a tree is too long
  (`MaxEntries`). The pages may be exchanged (`SYMMETRY`), as neither property
  is temporal.

Deadlock is checked in `tablet_store`, `mailbox`, `smtp` and in the two
violation runs of the master, which need no bound. In the other runs the system
may really stop: when the bounds are used up, when all connections are served,
when the master has aborted, or (`stale_client`) when two primaries wait for
each other's lock.

### Fairness

Three runs use it.

`master_liveness`: the health check is an endless loop (`while (true)`, line 32)
whose every iteration calls each node and then takes the lock: weak fairness of
`HealthCall` and `HealthUpdate`. A recovery thread runs to its end without
waiting for anything but remote calls and the master's lock: weak fairness of
the threads of each node. The operator is under no obligation, and neither is
anybody who might restart a node. Since weak fairness of a step that waits for a
lost lock says nothing, `RecoveryEnds` exempts the case that `Revive` has leaked
it, and both properties exempt a master that has aborted.

`mailbox`: weak fairness of the work of each thread. A call of the store
returns, with a failure if need be, and the mutex is held only over two calls.
That weak fairness suffices for the lock, although it is taken and released
again and again, is because a mail has boundedly many recipients and mails are
finite in number; clients, users, and processes that die are under no
obligation.

`http_server`: weak fairness of each thread that can run. Clients owe nothing,
and so a thread whose client waits while it should send is blocked, as in the
code; `ClosesExact` speaks of clients that send what they announce only.
Accepting is not fair: the property begins with a connection that has been
accepted.

## 4. What is proved

TLAPS checks the following for *all* values of the constants that satisfy the
named assumptions (`NumTablets`, `NumTabletMem`, `NumReplicas` positive,
`TabletOf` a function from cells to tablets, `NoValue` not a value, some name
for files, `NoTree` and `NullTree` no trees, finitely many connections, the
special values none of the ordinary ones, bounds natural).

**Engine** (`TabletOpsProofs`, `TabletStoreProofs`). The inductive invariant is
`StoreOK(store)` with the types and `ScanOK`. `MemEquation` alone is not
inductive: `LoadTablet` reads only the checkpoint, so the argument needs that
the log of a tablet outside memory is empty (`LogsOK`); that `UnloadTablet` may
truncate exactly the log of the tablet it writes needs that no tablet is
resident twice (`ResidentSetOK`); and that a delete is logged only for a cell in
the map gives `ReplayOK` only together with the equation, which says what a
replay of the log so far would find. One lemma per operator (`UnloadTablet`,
`LoadTablet`, `WithTablet`, `LogAndApply`) shows that it preserves `StoreOK` and
what it does to `TableOf`, the dictionary the store stands for: eviction and
loading leave it alone. From these lemmas follow

* `TypeCorrect`, `MemEquationAlways`, `ResidentSetAlways`,
  `ReplayNeverAbortsAlways`;
* `ImplementsTable`: every step of a node is a step of `KVTable` or a stutter,
  under `table <- TableOf(store)`. The listing takes effect when it answers;
  that it then shows the whole table is `ScanOK`: it has collected the cells of
  the tablets it has passed, and nothing changes the table while it holds the
  lock;
* `ReplayRebuildsMemory`: replaying the files of a resident tablet gives its
  memory. This is why copying the files and the list of resident tablets is
  enough to copy a node.

What a loop computes is proved without induction over data: of all lengths at
which the claim fails there would be a least one, and it cannot be 0
(`LeastNatural`); the loop itself is a recursive function, and `LoopExists`
shows that it is defined, round by round. In this way `ReplayCellIsTheLoop`
equates the closed form of a replay with the loop of `ReplayTablet` for every
log, and `LocalKeyvalue`, a loop over all tablets, is shown to preserve
`StoreOK`. `ScanOKAlways` is what a listing has collected when it is at a given
tablet.

**Replication** (`ReplicationProofs`). `TypeCorrect` needs no assumption about
hazards. Two inductive invariants carry the rest.

* `RecoveryInv`, if the operator suspends no node that is in a recovery
  (`NoSuspendInRecovery`; with it two recoveries of one node overlap and both
  theorems fail). `StoresSound` says nothing of a RECOVERING node, so the
  invariant must say what a node will have when Replay makes it RUNNING:
  `CopiedSoFar` follows the thread file by file, through the step at which the
  target runs again and the primary does not yet (`Active` are the threads that
  have not set their node RUNNING). That the files copied earlier are still
  those of the primary needs that the primary executes nothing meanwhile
  (`RecoveringIsIdle`), and that nobody but the primary recovers nodes, and only
  one at a time (`RecoveryByPrimary`). A process that ended has an empty store
  (`CrashedIsEmpty`: its restart wipes the directory), which is why a node that
  becomes RUNNING again without a recovery is sound. Every handler preserves
  `StoreOK` by the lemmas of `TabletOpsProofs`. Theorems: `StoresStaySound`, and
  `RecoveryCopies` for the action property.
* `LockstepInv`, if nothing is disturbed but by an early health check
  (`Undisturbed`). TLC finds `Lockstep` and `SgetFindsTabletOnDisk` violated in
  the instance of `replication` under each of the other four hazards alone, so
  this assumption cannot be weakened. The invariant adds to `RecoveryInv` that
  no client knows an old primary and no request outlives its primary
  (`NobodyIsLate`) and what the master knows (`MasterInv`): its view of a node
  may lag behind, but never so that a node outside a recovery counts as being in
  one, only the primary executes requests, and there is a primary whenever a
  node runs (`SomeRunningNodeIsPrimary`: otherwise a node with old data could be
  chosen). More nodes are `InSync` than `Lockstep` speaks of: a node must agree
  from Replay on, when the master still has it as RECOVERING, and so must a
  primary that recovers another node. `InSyncAgree` relates them between
  requests; during one, `InSyncFollow` says that those that still have to run it
  hold what the primary holds, and the others what the primary will hold, since
  it runs the request last; `CallsInOrder` that no node is called twice, and
  that a Get that is broadcast is one for which the primary itself has to load
  the tablet, from which `SgetIsSafe` follows. Theorems: `LockstepHolds`,
  `SgetIsSafe`.

**Master** (`MasterProofs`). `PrimaryNotCrashed` is inductive with the types. It
holds however late the answers are, because whoever writes `CRASHED` into the
view in that step also replaces the primary. `RecoveryExclusive` needs `IInv`,
which adds that no thread recovers its own node (`NotOwnTarget`) and that a node
the health check has found crashed leads no recovery until the master acts on
that answer, even if it has restarted meanwhile, because only the master could
have asked it to (`CrashedAnswer`); otherwise a late answer could take the role
from a node in the middle of a recovery. `HandoverAlways` needs `SeenInv`: a
node that is down while the master has it otherwise, or has just heard it is
not, has a crash still to be acted on (`CrashUnseen`), and, as long as the
operator has not interfered, so has every node the health check has found down
and the master has not (`CrashAnswered`). Only a request can break the latter:
`Revive` makes a node RECOVERING, then RUNNING, while an answer of its earlier
crash is still on its way; `Handover` therefore speaks of `unseen` only before
the first request. A live primary may lose its role all the same, when it has
crashed and is back before the master acts; what is shown is that it does so
once for each crash. Theorems: `MasterTypeCorrect`, `MasterInvariance`,
`PrimaryNeverCrashed`, `RecoveriesExclusive`, `HandoverAlways`.

**Mail** (`MailboxProofs`). That ids increase needs that the lists already read
do (`ReadsIncrease`). That SMTP threads alone never write a stale list rests on
the lock: `SmtpExclusive` says that a thread between Get and Put holds it (for
which `HttpNeverLocks` is needed, since unlocking is not checked), and
`ReadsFresh` that what such a thread has read is still there, unless something
failed or an HTTP thread wrote. That an id is given twice only after a deletion
or a stale or failed write needs `LastIsLargest`.

`KeepsWhatItSaid` needs `KeepInv`. What a write puts into a mailbox is the list
that was read with one mail added or taken out, so the mails in the box change
by that one mail only if it is there once, and if the id of a deletion means the
mail its user saw. `Tidy` says both of a mailbox nothing has gone wrong with: no
mail is in it twice, none is kept that is still to be delivered to it, and an id
means the same mail in the box, on the page and in a request for a deletion.
`OneDelivery` says that a mail is delivered by one thread, once to each
recipient. That the write finds the list it has read unchanged is not part of
the invariant: a write for which that is not so is harm.

Theorems: `TypeCorrect`, `IdsAlwaysIncrease`, `HarmAlwaysHasCause`,
`KeepsWhatItSaidAlways`, `SmtpThreadsExclude`.

**SMTP** (`SmtpProofs`). `Together` relates the server's letter to the one the
client means, stage by stage, as long as nothing is odd. It has to cover the
stages *before* a mail, too: since HELO clears nothing, the recipients must be
known to be empty there. `SenderAgrees` is the like for the sender alone, under
fewer conditions. Each handler keeps `Dialogue`, the part of the invariant that
is not about the buffer, however many lines have been received behind its own;
`OwnArgument` says that a line with an argument in brackets never takes another
line's. Theorems: `TypeCorrect`, `MeantIsDelivered`, `DeliveredHasRecipient`,
`DeliveredUnderItsSender`.

**HTTP server** (`HttpServerProofs`). `Inv` says that the descriptors in use
belong to different accepted connections (`FilesApart`), and that until a thread
starts late each thread's descriptor, bytes and answers are its own. That
`accept` finds a free descriptor is a counting argument (`SomeFree`): a
connection that has not been accepted has none, so the map from descriptors in
use is not onto. `TypeCorrect` shows that no count of bytes becomes negative,
whatever the sizes, with the wrap-around of `LoopsOn` included;
`EachIsAnsweredForItself` is `AnswersItsOwn`. `BodyWhole` is about the last step
of a reading and needs `Bodies`: at every step before, what a reader has in its
buffer and what is on its way make up what the client has sent (`ReadsWhole`).
That `readBulk` asks once for exactly the rest then gives the announced length,
unless that `recv` came up short or the client had sent less. Theorem:
`BodiesAreWhole`.

**Session and drive** (`DriveProofs`). Four theorems, each with an invariant of
its own.

* `SessionOfLastLogin`: while the last login stands, its cookie is the stored
  one, no other browser has it, and no logout is under way (`SessionInv`); the
  steps of the drive do not touch it.
* `TypeCorrect`: an answer is used on the page it finds, so the types rest on
  what a page may be waiting for (`PageOK`): only a page with a tree waits for
  an upload, and only one without a tree, which has sent nothing since, for the
  list. `AtAll` and `AtPicks` say what the recursive function `At` selects from
  a sequence, by the argument of the least length.
* `HarmHasCauseAlways`: `SessionCause` says that until the first login or logout
  all cookies, also those of requests on their way, are the stored one.
  `StaleCause` says that while only one page has shown the tree and nothing else
  excuses it, the posts of that page form a `Chain`: each supposes what the one
  before it stores, the first what is stored now, and the page what the last one
  stores.
* `KeepsFilesAlways`: at rest the claim is about `files` only, but a post may
  bring or take away a file at any time, and posts of different pages arrive in
  any order. `Files` therefore counts, file by file: a file the user has and the
  stored tree lacks is added by exactly one post on its way; one that he has
  deleted and it still has is taken out by another (`Account`); contents are
  stored before the post and deleted once, by nobody else (`Content`). Each step
  that stores a tree without harm changes the stored list by just what its post
  adds and takes away, because it was made from the tree that is stored now.
  That a removal takes out the entry it means, and no more, needs that ids are
  unique in every tree that is stored, shown or on its way (`SoundTrees`).
  `Files` was checked by TLC before it was proved.

**Only model-checked.** Liveness, which the prover cannot treat: `ClusterForms`
and `RecoveryEnds` of the master, `JobsEnd` of the mailboxes, `ClosesExact` of
the HTTP server. Every invariant and every action property of the passing runs
is proved.

What the theorems about `Replication` assume beyond the constants is their
hypothesis on `Hazards`, which the run `replication` satisfies for
`LockstepHolds` and `SgetIsSafe`, and both runs for `StoresStaySound` and
`RecoveryCopies`.

## 5. Disagreements with the code's own statements

1. **`assert(node.second == RECOVERING)`**, `KVStore/kvstore_master.cc:301`. The
   target answers SUCCESS to a health check from the end of `KVReplay`, before
   the recovery thread notifies the master; the check marks it RUNNING, and the
   notification fails the assertion and ends the master. It needs no fault:
   `master_notify` finds it in a cold start.
2. **`assert(target_idx != -1)`**, `KVStore/kvstore_node.cc:901`. A recovery
   thread clears `target_addr_to_recover` last, after its node is RUNNING again
   and may have accepted the next recovery: `master_target`, again in a cold
   start.
3. **"assert tablet is not in mem"**, `KVStore/kvstore_node.cc:376-378`. A
   primary that dies between two peers of a Get leaves them with different
   resident tablets; one of them becomes primary, and its Sget may abort the
   other: `replication_sget`.

Other behaviours the models reach, for which the repository makes no checkable
statement, or which the exemptions in the properties name:

* The cases of the health check marked "Impossible" are reached: for example, a
  check between `Revive` and Srecovery sees SUSPENDED where the master has
  RECOVERING (`Stops` of `Master`).
* `Suspend` looks only at the transport status, so the master has a node that
  refused as SUSPENDED. With `suspend_recovering`, two recoveries of one node
  overlap and `StoresSound` fails.
* With a crash `ClusterForms` and the first half of `RecoveryEnds` fail: the
  target of a primary that died stays RECOVERING, and recovery is asked only for
  nodes seen as CRASHED.
* `Revive` without a primary calls through a null stub; a refused `Revive` leaks
  the cluster's lock.
* When all nodes were seen crashed the first one that answers becomes primary,
  whatever it holds.
* Two HTTP threads, or one and an SMTP thread, that change a mailbox at the same
  time lose a mail or bring a deleted one back (`"stale"`); a failed Get
  replaces the mailbox by one mail; sender and user are told success whatever
  the Put answered (`"failed"`).
* The id of a deleted last mail is given again (`"reused"`), and an old page
  then deletes the new mail.
* The stage tests of HELO and RCPT always hold: a RCPT before MAIL is accepted,
  and its mail has no sender (`"order"`); commands inside a text are executed
  (`"words"`).
* The end of a text is compared with all that has been received
  (`mail_service.cpp:183`): when the client's next line is there already, the
  end becomes text and no mail is delivered until another end arrives alone
  (`"hasty"`). `MAIL FROM:` and `RCPT TO:` without an address take one from a
  later line that is there already (`"bare"`). `MAIL FROM:<>` is accepted, and
  its mail has an empty sender; a `RCPT TO:<>` with an address behind it ends
  the service (`CopiesNegative`).
* A text of fewer than 8 characters without a subject ends the SMTP service
  (`Die`).
* A thread that starts after the next accept serves the other connection, and
  its own is never answered nor closed (`late`); a body whose last part arrives
  in pieces is cut off (`short`); so is that of a client that sends a little
  less than it has announced; one that leaves off earlier and hangs up leaves
  the thread in a loop. One that hangs up within its header is answered if the
  first line is complete.
* Two logins in one second share a cookie; a login between the two calls of a
  logout is undone.
* A drive whose tree could not be read is shown empty and at once stored so
  (`"lost"`); two pages undo each other's changes (`"stale"`); so do two posts
  of one page (`"overtaken"`); a tree that is too long becomes `null` (`"big"`);
  deleting one of two namesakes in a directory, or renaming a file to its own
  name, removes the first of them (`"namesake"`); a directory moved into itself
  takes its files with it (`"inside"`).

## 6. What is not modelled

* Disk errors and the text format of checkpoints and logs
  (`kvstore_node_utils.cc`, which cannot represent every key).
* The digest; more than one cluster (clusters share nothing in the master but
  the loop of the health check, so one is general except for the order of
  checks).
* `signup` and `changePassword`, which write one cell and read nothing they rely
  on afterwards; `downloadFile`, which changes nothing; the administration
  pages, which forward one call to the console library; the wording of errors.
* Routing, static pages and the parsing of JSON and form data; the load
  balancer's choice of a server, which is random and keeps no state (its accept
  loop is that of `HttpServer`).
* Lines longer than the SMTP buffer or shorter than a verb, an argument with
  only one of its brackets, brackets inside a text, a line whose first half is
  in the buffer while the line before it is handled; recipients named twice in
  one mail, and mail to other hosts (`sendOut` is empty).
* The other pages of the bundle, which keep nothing between requests, the
  web-vitals chunk, generated protobuf code, third-party code and the
  interactive test programs.
* The console library's `node_to_cluster_`, which only refuses requests for
  nodes it does not know yet.
* `PollStatus` and `ShowKeyValue` change nothing in the master; the request
  `ShowKeyValue` sends is `KVKeyvalueRequest`, which is modelled.
* gRPC is taken as it is used: a call to a live process returns its answer, a
  call to a dead one fails.

## 7. Plan

Done, in this order: `TabletOps`, `TabletStore` with `KVTable`, `Replication`,
`Master`, the proofs of engine and master; `Mailbox`, `Smtp`, `SocketReader`
with `HttpServer`, `Session` with `DriveTree` and `Drive`, and their proofs; the
proofs of `Replication`; the loops of replay and listing; what mailboxes and
drives keep.

What remains worth doing:

1. `Replication` under one of the other hazards: which nodes still agree after a
   primary has died in a broadcast, as an invariant weaker than `Lockstep`.
2. The safety half of the liveness properties: who can hold the cluster's lock
   and the mutex of the mailboxes, and that the holder is never waiting.
3. Deadlock and liveness of requests in `Replication`: two primaries under
   `stale_client`; every request without hazards is answered.
4. The digest as a recursive function, its range, and the choice of tablet and
   cluster; the console with the master.
