# A TLA+ model of PennCloud

PennCloud is a small cloud platform in C++: a replicated key-value store, a file
drive and a mail service on top of it, and a web front end behind a load
balancer. This directory models these parts, checks them with TLC, and proves
with TLAPS what matters most about the data server, the roles in a storage node,
the directory of rows, the thread pools, the load balancer, the front end, the
file storage and the mail service.

- [The system](#the-system)
- [The modules](#the-modules)
- [What the runs show](#what-the-runs-show)
- [What is proved](#what-is-proved)
- [Where the code deviates](#where-the-code-deviates)
- [Not modelled](#not-modelled)
- [Plan](#plan)

## The system

| part | state | operations | what makes it correct |
|---|---|---|---|
| data server (`Worker.cc`, `serverState`, `cell.h`) | table row -> column -> `Cell*`, `mapMutex`, `seqID` | PUT, CPUT, GET, DELETE, LIST, CLOSEALL, each in a pool thread | no lost write, a CPUT is atomic, no use of freed memory, the lock is released on every path |
| log and checkpoint (`checkpointing.cc`) | `log.txt`, `checkpoint.txt` | append, `writeToDisk` every 30 s, `recoverCheckpoint`, `recoverLog` | a crash at any moment loses nothing that was acknowledged |
| replication (`backStore.cc`) | per replica: state 1 running, 2 recovering, 3 failed; a connection; the hold-back queue | `push`, `poll`, `recover`, `reconnect` | a replica that is listed as running lacks nothing |
| recovery (`dataserver.cc`, `-r`) | local files, address of the primary | ask the master, RECOVERY, CKPT or local replay, LOG, READY | afterwards the server is a replica like any other |
| master (`master/master.h`) | per node: `primary_addr`, `running`, a connection | heartbeat, `promoteNewPrimary`, `multicastNodes`, PRIMARY | at most one primary, the one that clients are sent to; failover |
| directory (`master/masterWorker.cc`) | `node_index`, `row_num` | WHERE, in a pool thread | a row stays on one node; rows are spread |
| thread pools (`ThreadPool.cc`, `masterThreadPool.cc`) | `workQueue`, `ongoing`, `closed`, mutex, condition variable | `addTask`, `ThreadFun`, `closeAll` | a connection is served by one thread, deleted once, and no wake-up is lost |
| drive (`storage/`) | one list per folder, name and content per file, all in the store; per user `path`, `files_in_path` | `resgister`, `sign_in`, upload, new folder, delete, move, rename, open, back, each several requests to the store | an entry is listed exactly once, with its content; an answer that says yes is kept |
| mail (`webmail/`) | SMTP session, `mqueue`, one list of hashes and one body per mail in the store | session commands, delivery, relay, mail pages, deletion | an accepted mail is delivered or stays queued |
| load balancer (`load_balancer.cc`) | the deque `servers`, its mutex | redirect to the next running front end; probe and mark every front end | front ends take turns, none is lost, marks are right |
| front end (`frontend.cc`, `request.cc`, `response.cc`) | globals without a lock: `username`, `sessions`, `all_storages`; the accept loop's `client_fd` | a thread per connection: pages, sign-up, sign-in, log-out, calls of drive and mail | a request works on the files of its own user, and its answer goes to its own browser |

Clients of the store (front end, drive, mail) ask the master WHERE a row is and
talk to the primary of that node. The primary executes an update under its map
lock, releases the lock, pushes the update to its replica and answers `+OK`. The
master sends ALIVE to the primary; when a write fails it connects to the first
server of the node that listens and sends it PROMOTE. A browser asks the load
balancer, which redirects it to a front end; every request of the browser is a
connection and a thread there.

What is hard to test here: worker threads that read the table without the lock,
or with a pointer from before the lock; pushes that overtake each other; a crash
between the two file operations of a checkpoint, or between log and table; a
death at any step of promotion or recovery; messages cut short, read together
or left over from a dead sender; commands that are sent again after a death;
two front ends that change one folder or one mail list; threads that share
global variables; threads that wait for somebody who is gone. `PROJECT.json`
lists these hazards line by line.

## The modules

**DataServer** is one data server as primary. A worker thread (`pc`, `cmd`,
`seq`, `ptr`) executes one of the `parse_*` functions. A step is what happens
between two points where another thread can interfere: the lock, an access to
the table without the lock, the write to the replica, the reply. The heap is
explicit: every mutation has a number, Cell `s` and string `s` are those that
mutation `s` allocated, `heap[s]` is the string Cell `s` points to (negative
after a `delete`), `freed` are the deleted strings. So a read of freed memory
(`Junk`), a write through a stale pointer (lost, or landing in a Cell that got
the same memory), a second delete of a string (`DeleteAgain`: it may free a
string that was made since), a null pointer inserted by `operator[]` and an
exception of `map::at` are behaviours of the model. A thread that can only go on
through a null pointer or a key that is gone ends the process (`Doomed`,
`Fault`); one that uses freed memory or deletes a string again (`Damaged`), or
whose unlocked search may miss (`Missing`), may end it or get through
(`MayFault`). `log`, `ckpt` are the two files; `Recovered` is what a restart
makes of them. `hist`, `acked`, `floor` and `strays` (the CPUTs that wrote to a
Cell that another had replaced or a DELETE had freed) are history variables.

| code | actions |
|---|---|
| `parse_PUT` | `PutLog`, `PutStore`, `Push`, `Ack` |
| `parse_CPUT` | `CputCheck`, `CputNew`, `CputInsert`, `CputRead`, `CputMatch`, `CputMismatch`, `CputStore`, `Push`, `Ack` |
| `parse_DELE` | `DeleteLog`, `DeleteErase`, `Push`, `Ack` |
| `parse_GET` | `GetCheck`, `GetRead`, `GetSend`, `GetEnd` |
| `parse_LIST`, `parse_CLOSEALL` | `ListLock`, `ListDone`; `Closeall` |
| `writeToDisk` | `CkptRename`, `CkptTruncate` |

Four conventions. Appending an entry to the log is one step, because an entry
without its final `.` is skipped by `recoverLog`. A search of the tree while
another thread inserts or erases may miss a key (`Finds`); in a test by `count`
the key then seems absent, and `at` throws. `~Cell` frees the
string with the Cell. A payload is a model value; those in `Dotted` contain a
line that is just `.`, at which both files are split when they are read.

**KVMap** is what a data server promises clients that PUT and GET: a map in
which a PUT takes effect at one moment and a GET answers with the value of one
moment between request and answer. It is weaker than an atomic map in one point:
a GET may miss a key that is there while a PUT enters a new one. `DataServer!KV`
maps the server to it: `kv` is what the table holds, a PUT takes effect when it
is stored, a GET when it takes the pointer to the data.

**Cluster** is one storage node: two data servers, the master's heartbeat
thread for that node, the connections between them, and clients that send PUTs
to whom the master names. A PUT is one step at the server (DataServer has its
interior), the push is a step of its own. Servers are started in any order,
killed at any moment and restarted with `-r`; `Dies` is what the death of a
process does to everybody connected to it. The master, if it waits for the answer
to PROMOTE, reads end-of-file for ever, or, if PROMOTE had not been read, perhaps
a reset, which it takes for an answer (`Answer`). `phase` is the place in `main` and
`recoverProcess`, `link` the state of the peer in the BackStore, `wire` and
`chan` the connection of the BackStore, `left` what a dead sender left behind.
When a process dies, what it had sent is cut to some prefix: a replica answers
every update and the primary never reads the answers, so the kernel resets the
connection and unread data may go. `mPc` is the place in `heartbeat`. The
history variable `dropped` collects every update that was lost on the way: cut
off by a death, skipped because it was read together with the one before it,
written to a connection whose peer was gone, or misread by a server that had
been promoted meanwhile. `acked` and `inOrder` are history too.

**MasterDirectory** is `parse_WHERE` in the threads of the master: one step per
access to `node_index` or `row_num`. The commented-out mutex in the branch that
finds a row is modelled by a search that may miss an entry while another thread
inserts one: `operator[]` then enters the row a second time, with node 0.
`inTurn` records whether requests have overlapped, `known` whether a row had a
node when its request was looked up, `placed` counts assignments.

**Pool** is the thread pool, the same code in data server and master. The queue
and the condition variable are used under the mutex; `ongoing` and `closed` are
not, so two overlapping updates of the `std::set` may lose one of them (`raced`).
`crossed` collects the connections that `closeAll` deleted while their thread was
past its own test of `closed`.

| code | actions |
|---|---|
| accept loop, `addTask` | `Accept` |
| `ThreadFun` | `Lock`, `Test`, `Wait`, `Wake`, `StartInsert`, `EndInsert`, `Run`, `TestClosed`, `Erase`, `Delete` |
| `closeAll` after SIGINT | `Shutdown`, `CloseOne`, `EndLoop`, `Cancelled` |
| clients | `Quit`, `Leave` |

**Drive** is `Storage.cc` and the handlers of `response.cc` that call it, for one
user at several front ends. A step is one request to the store. `kv` is that
user's row: password, one list of entries per folder, one name and content per
file. When the primary dies a request may have been carried out or not; `again`
counts how often it is then repeated, because the recursive call sends it and
the loop that made the call sends it once more. `told` records what the users
asked for and what they were told.

| code | actions |
|---|---|
| handlers of `response.cc` | `Signup`, `Signin`, `NewFile`, `DeleteFile`, `RenameFile`, `MoveFile`, `OpenFolder`, `GoBack`, `Files` |
| `resgister`, `sign_in`, `open_folder` | `RegGet`, `RegCput`, `PutName`, `PutBody`, `SignGet`, `OpenGet` |
| `upload_file`, `create_folder` | `NewGet`, `Add`, `AddGet`, `PutName`, `PutBody`, `Page` |
| `delete_file` | `RemoveGet`, `RemoveCput`, `DelName`, `DelBody` |
| `move_file`, `recover_old_path` | `RemoveGet`, `RemoveCput`, `MoveDest`, `Add`, `AddGet`, `RecoverGet`, `Reload` |
| `rename_file` | `RenameGet`, `RenameCput`, `RenameName`, `Page` |
| `server_recover` and the repetition | `Crash`, `Reconnect`, `SendAgain` |
| SIGPIPE at the second write; a name that the page does not show | `BrokenPipe`; `StalePage` |

**Mail** is the SMTP server, the relay and the mail pages, for the mail a user
sends to itself and to another host. `state`, `rcpts` and `data` are those of
`worker_thread`; `list` and `body` are the mailboxes in the store, `mqueue` the
file. `told` records which mails were accepted for whom, what was sent to other
hosts or refused by them, which mails a relay had dealt with and not yet taken
out of the file when its host left it (`unfinished`), what users deleted, what an
unconditional PUT or DELETE of a list wiped out, and whether relays overlapped.

| code | actions |
|---|---|
| `worker_thread` | `Helo`, `MailFrom`, `RcptTo`, `DataStart`, `DataLine`, `DataEnd`, `Rset`, `Quit` |
| `handle_data` | `ListGet`, `ListInit`, `ListCput`, `BodyPut`, `NextRcpt`, `QueueMail` |
| `mail_relay`, `handle_forward`, `update_mqueue` | `ReadMqueue`, `HandleForward`, `HangRelay`, `TruncMqueue`, `WriteMqueue` |
| `recvfrom_backend`, `extract_email` | `ShowMail`, `ShowList`, `ShowBody` |
| `update_backend` | `DeleteMail`, `DelGet`, `DelList`, `DelCput`, `DelBody` |
| death of the primary (`do_read`, `do_write`) | `PrimaryDies`; `Hang`, `SigPipe` for a session, `HangPage`, `PipePage` for a page |

**Balancer** is the main thread, which rotates the deque `servers` under the
lock, and the checker, which names a front end by its place, before and after
its connect, and takes the lock only to store the result. A rotation is two
steps, `pop_front` and `push_back`. History: `marked` (who was marked running
when the search began), `used` (redirects since a front end's last turn),
`shifted` (a rotation since the checker read the place).

**Frontend** is the accept loop and the threads of one front end. A request is a
page that looks at the cookie, a request that does not, a sign-in, a sign-up or
a log-out; each access to a global variable is a step. A Storage is an object
that is created for a user, used and deleted; what it does in between is Drive.
History: `overrun` (a connection was accepted before the last thread had copied
`client_fd`), `mixed` (a request used `username` after another user's request
had assigned it), `crossed` (a log-out overlapped another request).

In Drive and Mail the store is an atomic map that keeps what it acknowledged.
KVMap, DataServer and Cluster say how far the real one is that; DataServer's
CPUT is not (see [below](#where-the-code-deviates)).

**DataServerProofs**, **ClusterProofs**, **MasterDirectoryProofs**,
**PoolProofs**, **BalancerProofs**, **FrontendProofs**, **DriveProofs** and
**MailProofs** have the [theorems](#what-is-proved).
**MCDataServer**, **MCCluster**, **MCMasterDirectory**, **MCPool**, **MCDrive**,
**MCMail**, **MCBalancer** and **MCFrontend** define the instances for TLC. Operators whose
comment begins with MUTANT are deliberately wrong variants of the definition
that follows; with one of them in the place of that definition the property it
is aimed at is violated.

## What the runs show

Runs that pass:

| run | instance | properties |
|---|---|---|
| `server_puts` | 2 threads, 4 commands out of PUT on two rows and GET; no name is both a row and a column | `FaultOnlyByMiss`, `PushFaithful`, `RecoverableState`, `GetRegular`, `ImplementsKV` |
| `server_all` | 2 threads, 3 commands out of all operations on (a, a) and (a, c), under fairness | `LogContiguous`, `DataOwned`, `AckedDurable`, `WriteAhead`, `Answered` |
| `cluster_stream` | 2 keys, 3 PUTs that may all be on the way at once, 1 kill | `DiskMatches`, `MirroredButDropped`, `AckedServed` |
| `cluster_failover` | 1 PUT, 3 kills, 2 restarts, any start order, under fairness | `AtMostOnePrimary`, `OnlyPrimaryForwards`, `MasterAgrees`, `CheckpointPaused`, `Failover` |
| `where` | 2 threads, 3 nodes, 6 requests for any of 4 rows | `Balanced`, `OneAnswer`, `AssignedOnce` |
| `drive` | 2 front ends, 3 requests, or 2 and a death of the primary | `NamesUnique`, `StoredKept`, `ListedOnce`, `RegisteredOnce`, `EndsOnlyIf` |
| `mail` | 2 sessions, 1 page, 3 texts, one without a title; 2 out of mails, page requests and a death; 2 recipients; under fairness | `DeliveredKept`, `RelayedOnce`, `PageEndsOnlyIf`, `LoopsEnd` |
| `pool` | 2 threads, 3 connections, SIGINT at any moment, under fairness | `OneHolder`, `FreedOnce`, `StarvedOnlyIfHeld` |
| `balancer` | 3 front ends, 3 requests, 1 start or stop, under fairness | `RoundRobin`, `MarksTheProbed`, `MarksConverge`, `RequestAnswered` |
| `frontend` | 2 users, 3 connections, 2 threads at a time | `OwnStorage`, `LiveStorage`, `OwnAnswer` |

- `server_puts` is what the drive and the mail service rely on when they only
  PUT and GET: with distinct names, `parse_PUT` always allocates a new Cell and
  leaks the old one, and it is this leak that makes the GET without a lock safe,
  but for one case: its `at` may miss a key that `count` has found, while another
  thread enters a new one, and then throws. `FaultOnlyByMiss` says that there is
  no other way to end the process. `ImplementsKV` is the refinement of KVMap.
- In `server_all`, (a, a) is a column that is named like its row. The condition
  of `parse_PUT` looks the column up among the rows, so this is the case in
  which it updates in place. Three commands in two threads allow every pair of
  operations to race after a first one has created the key.
  A CPUT reads its Cell before it has the lock: a third command may
  replace, rewrite or free that Cell before the CPUT writes. `DataOwned`
  and `WriteAhead` are stated until a CPUT has written to a freed Cell (`Wild`);
  they are false afterwards (see below). `AckedDurable` looks for the data of an
  acknowledged mutation, or of a later one of its key, in the checkpoint once the
  log is empty; what a CPUT wrote to a replaced Cell is not there.
- `cluster_stream` separates what is lost on the way from everything else:
  primary and backup differ in a key only if an update of that key was dropped,
  and a new primary serves every acknowledged PUT that was not dropped. One
  client thread pushes at a time (`MaxPending = 1`), since two may overtake each
  other. Nobody restarts, since a restarted server misses updates (see below).
- `cluster_failover` needs one PUT only, because its properties speak of roles;
  three kills and two restarts let a server die during the recovery that
  follows a failover that followed a death. `ParsedSeq = 0` makes a recovering
  server fetch the checkpoint if there is one; with 127, what `stol` makes of an
  address such as 127.0.0.1:8000, it replays its own files first. `Failover` is
  stated up to `Stuck`, whoever is in `do_read` when the other side goes away
  stays there, up to `AskEachOther`, two restarted servers that recover from
  each other, and up to `Astray` for good: PROMOTE went to another server than the
  one the master takes for primary since, and that one lives. `MasterAgrees` says
  when this can be: two kills and a restart are enough, when the server that comes
  back first gets the PROMOTE and dies before it has read it.
- `where` lets both threads ask for every row: two that ask for the same new
  row assign it twice, and a lookup may miss a row and give it to node 0.
  `AssignedOnce` says that a row leaves its node in no other way.
- `drive` starts without an account, or with a folder, a file and the user
  signed in at both front ends. Three requests let two front ends race on an
  entry that a third request has moved, renamed or deleted; with two and a
  death, every repetition of a command meets the other front end.
  The properties that hold only while the primary lives say so (`crashes = 0`).
- `mail` starts with two mails in the outbox and without an inbox, as for a user
  who has only written to other hosts: the first delivery makes the inbox anew,
  while the CPUT loops of deliveries and deletions meet in the outbox. The two
  sessions may send the same text, which is one hash. Two
  events are enough for every pair of a delivery, a deletion, a page and a death.
  `RelayedOnce` claims nothing while relays overlap, which is when mails are lost
  or sent twice, and says that nothing else loses or doubles one: a mail that is
  no longer queued was taken or refused, and is queued as well only if a relay
  was left by its host.
- In `pool` three connections for two threads let one wait in the queue, and
  SIGINT comes at every place of `ThreadFun`. A starved connection means that
  every thread is with a client that never says QUIT.
- In `balancer` three front ends are the fewest for which a turn can be skipped
  and still be owed to somebody. `MarksConverge` says that what was marked wrong
  across a rotation is set right later.
- In `frontend` three requests of two users, two at a time, are enough for one
  request to change `username` or delete a Storage under another, after a third
  has signed somebody in. The last part of `LiveStorage`, that whoever has a
  session has a Storage, needs all three conditions. Without `~overrun`, with
  five connections and three threads, a reply that goes astray gives a browser
  the cookie of another user, and its next sign-in then goes on in a session
  whose user has no Storage.

Runs that end in a counterexample, each against something the code or its
comments say: `delete_replay` (a deleted key comes back) and `restart_stale`
(nothing is held back for a recovering server). `PROJECT.json` quotes the lines
under "findings".

Each module also has a type invariant `TypeOK`. It is part of the inductive
invariants that are [proved](#what-is-proved), or follows from them.

Deadlock is not checked: every instance has a bounded number of commands, kills,
requests and connections, and a system in which everybody waits, is off or is
stuck really stops. That nothing stops too early is what `Answered`, `Failover`,
`LoopsEnd`, `StarvedOnlyIfHeld` and `RequestAnswered` say.

**Fairness.** Threads run; nothing is assumed of clients, users, kills, restarts
or SIGINT. DataServer: strong fairness for the steps of each worker, because a
thread that waits for the map lock gets it although the lock is taken again and
again: the only thread that never stops taking it sleeps 30 seconds in between.
The same for `Fault`, since a thread that cannot but fault may first have to
get the lock; nothing is assumed of `MayFault`, which need not happen. Cluster: weak fairness for the threads of the servers and of the
master, and both servers are started some time. Pool: weak fairness for each
thread, spurious wake-ups excepted, and for `closeAll`. Balancer: weak fairness
for the two threads and strong fairness for taking the mutex, which the other
thread releases again after a few instructions. Mail: weak fairness for the
delivery of each session and for each page; that a CPUT loop ends follows from
the bounded number of others that change the list, not from fairness. Drive and
Frontend have safety properties only.

**Bounds.** `MaxCommands`, `MaxPuts`, `MaxPending`, `MaxFlight`, `MaxKills`,
`MaxRestarts`, `MaxRequests`, `MaxEvents`, `MaxCrashes`, `MaxMails`, `MaxRcpts`,
`MaxFlips` and `MaxThreads` bound what the environment does; each appears in the
guard of the action it bounds and nowhere in the code's own steps, with one
exception: `MaxFlight` lets clients wait until the backup has caught up.

## What is proved

Every theorem holds for any number of workers, keys, nodes, threads,
connections, front ends, users, kills and so on: for all values of the constants
that satisfy the named assumption of the module (`ConstantsAssumption`,
`ClusterAssumption`, ...). These say that bounds are natural numbers, that sets
are finite or not empty where the code needs a number of them, and that the
markers (`None`) are not members of the other sets (in Drive, "-ERR NULL" is
neither a password nor the list of a folder). Some theorems have
hypotheses of their own, which say what clients do and what has happened so far:

- `PutGetOnly`: clients PUT and GET, and no row has the name of a column. This
  is what the drive and the mail service do except for their CPUTs and DELETEs;
  with these the properties are false (see [below](#where-the-code-deviates)).
- `Dotted = {}`: no payload contains the line at which the log is split.
- `restarts = 0`: nobody has been restarted yet (the theorem says
  `[](restarts = 0 => ...)`); updates and kills are unlimited. A server that was
  restarted misses the updates made during its recovery (`restart_stale`) and
  does not have in its files what it has in memory.
- `MaxPending = 1`: a primary pushes an update before it takes the next PUT. Two
  client threads that are between unlock and push may overtake each other.

| theorem | property | hypothesis | what it says |
|---|---|---|---|
| **DataServerProofs** | | | |
| `Invariance` | `IndInv` | | the inductive invariant |
| `TypeCorrect`, `LockCorrect` | | | types; the map lock is held by exactly the thread that is between taking and releasing it |
| `LogComplete` | `LogContiguous` | | checkpoint and log together never miss an operation |
| `NoDanglingData` | `DataOwned` | | until a CPUT writes to a freed Cell, no Cell in use points to a deleted string, no string has two owners |
| `AcknowledgedIsDurable` | `AckedDurable` | | what was answered `+OK` is in the log, or the checkpoint has it or a later value of its key, and it was written to the replica, once; except what a CPUT wrote to a replaced or freed Cell |
| `LoggedBeforeStored` | `WriteAhead` | | until a CPUT writes to a freed Cell, what is in the table was logged before, for that key |
| `PutGetFaultOnlyByMiss` | `FaultOnlyByMiss` | `PutGetOnly` | a GET without the lock meets no null or freed pointer; only a search that misses can end the process |
| `PutGetPushFaithful` | `PushFaithful` | `PutGetOnly` | the replicas are sent what was logged |
| `PutGetRegular` | `GetRegular` | `PutGetOnly` | a GET answers with data of its key that is not older than its request |
| `PutGetRecoverable` | `RecoverableState` | `PutGetOnly`, `Dotted = {}` | a restart finds the table as it was, plus the PUT that was logged last |
| `PutGetImplementsKV` | `ImplementsKV` | `PutGetOnly` | the refinement of KVMap, safety |
| **ClusterProofs** | | | |
| `NodeOnePrimary` | `AtMostOnePrimary` | | two servers are never primary |
| `NodeOnlyPrimaryForwards` | `OnlyPrimaryForwards` | | only the primary has something to push |
| `NodeMasterAgrees` | `MasterAgrees` | | the master names the primary, unless PROMOTE went to the other server: after a start in the wrong order or a restart |
| `NodeCheckpointPaused` | `CheckpointPaused` | | no checkpoint under a first recovery |
| `NodeTypes` | | | types, through every promotion, recovery and replay |
| `NodeDiskMatches` | `DiskMatches` | `restarts = 0` | checkpoint and log of a server replay to its table |
| `NodeMirrored` | `MirroredButDropped` | `restarts = 0`, `MaxPending = 1` | primary and backup differ only in keys of lost updates |
| `NodeAckedServed` | `AckedServed` | `restarts = 0`, `MaxPending = 1` | a promoted backup serves what was acknowledged and not lost |
| **MasterDirectoryProofs** | | | |
| `DirectoryAssignedOnce` | `AssignedOnce` | | a row leaves its node only by a request looked up before it had one, or for node 0 by a lookup that misses |
| `DirectoryOneAnswer` | `OneAnswer` | | requests one after the other are told one node for a row |
| `DirectoryBalanced` | `Balanced` | | counts do not exceed the assignments; without overlaps they are those of the rows, and the nodes are level |
| **PoolProofs** | | | |
| `PoolOneHolder` | `OneHolder` | | a connection is in the queue once, with one thread, or deleted |
| `PoolFreedOnce` | `FreedOnce` | | its thread and `closeAll` together delete it more than once only after one of the two races; after `closeAll` every connection that is being served is deleted (its thread may still be in `run`) |
| **BalancerProofs** | | | |
| `BalanceRoundRobin` | `RoundRobin` | | nobody is lost from the deque, turns are kept, redirects go to the marked |
| `BalanceMarksTheProbed` | `MarksTheProbed` | | a mark changes only at the front end that was probed |
| **FrontendProofs** | | | |
| `FrontOwnStorage` | `OwnStorage` | | a request works on the files of its own user |
| `FrontLiveStorage` | `LiveStorage` | | no deleted Storage is used or found; a session has a Storage |
| `FrontOwnAnswer` | `OwnAnswer` | | a reply reaches its own browser, descriptors do not leak |
| **DriveProofs** | | | |
| `DriveNamesUnique` | `NamesUnique` | | a name is twice in a folder only after a rename |
| `DriveStoredKept` | `StoredKept` | | a stored file stays listed, in one folder, and keeps its content |
| `DriveRegisteredOnce` | `RegisteredOnce` | | one sign-up succeeds, and the account has its folder |
| `DriveEndsOnlyIf` | `EndsOnlyIf` | | what may end a front end |
| `DriveListedOnce` | `ListedOnce` | | while the primary lives, an entry that clients move is in one place, is not lost, and has its content |
| **MailProofs** | | | |
| `MailTypeCorrect` | | | types; only a session or page that talks to the store is cut off from it |
| `MailDelivered` | `DeliveredKept` | | an accepted mail is in the mailboxes it belongs to, list and body, unless deleted or wiped |
| `MailRelayedOnce` | `RelayedOnce` | | without overlapping relays, a mail for another host is queued, taken or refused, and one of these only unless a relay was left by its host |
| `MailPageEndsOnlyIf` | `PageEndsOnlyIf` | | what may end a front end that shows mails |

Each module has one inductive invariant (two in MasterDirectoryProofs, one for
any requests and one for those that do not overlap; several that build on each
other in DataServerProofs, ClusterProofs and MailProofs, in the first of them with one for
PUT and GET apart), a lemma per action that the action keeps it, and
then the theorems. Before it was proved each invariant was checked with TLC on
the instance of the component's run. What the invariants add to the properties:

**Data server.** `IndInv` adds `CellsOK` (a map entry is null or points to a
live Cell that was allocated for that key; without it an in-place update through
one key could free the data of another), `LocalsOK` (the number a thread got
from `increseSeq` is its own until its reply, and until it releases the lock
nobody has seen the data it stands for) and `PushedOnce`; and in `LogContiguous`
that the version of the checkpoint is the current number between the rename and
the truncation: that is why emptying the log loses nothing. `WriteInv`, for
`LoggedBeforeStored`, adds that the pointer a CPUT read before it took the lock
is to a Cell made for the same key. A write to a freed Cell ends this, because
freed memory may become the Cell of another key. `CoverInv`, for
`AcknowledgedIsDurable`, adds that a mutation that has been carried out is in the
table, or a later one of its key is, unless it strayed to a replaced Cell, and
that the checkpoint has all that the table had: a CPUT that writes to the Cell
under its key never puts an older value there, because it has the lock and the
newest number.

**Data server with PUT and GET.** `PutGetInv`: `parse_PUT` frees nothing, so
entry `s` of the table, the log and the heap all stand for the `s`-th PUT. The
refinement is proved action by action: `PutStore` is the Put of KVMap, the step
in which a GET takes the pointer is its Read, everything else stutters.
`Recovered` is an induction over the log; it is carried out with sets instead
of an induction rule (the least number at which the replayed map would differ,
lemmas `LeastNumber` and `InductionTo`), and `LastLogged` says that the last
entry of a key in checkpoint and log is what the table holds.

**Storage node.** `NodeInv`: a server is primary only if the master has chosen
it, a promotion is under way only to the server the master has just chosen and
that has not died since (`Chosen`), a server that recovers is no primary and has
no BackStore (`Recovering`), and at every place of the heartbeat thread
`primary_addr` names the primary or PROMOTE went to the other server, which before
any restart and with rep 0 started first it cannot (`Agreeing`). `DataType` gives the types. `DiskInv` is
`DiskMatches` with `NeverRestarted`: before the first restart a server is new
and empty, serving or dead, so that only its own log and its own checkpoints are
in its files; `ReplayAppend` is the step of the log, `ReplayTable` that of the
checkpoint.

`StreamInv` is about what the primary sends. `Lines`: a connection in use leads
from a primary to a serving backup, and what is left of one is what a dead
server had sent. `Ordered`: a stream has its updates in the order of the PUTs,
and an acknowledged update that was not lost and is no longer in it is older
than all that are; so a backup never overwrites a newer value with an older
one. `Latest`: the update that is about to be pushed is newer than all others.
`Reached`, from which `AckedServed` follows: an acknowledged update that was not
lost is in the table of the other server, or a later one of its key, or it is on
its way. `Same`, from which `MirroredButDropped` follows: the stream turns the
table of the backup into that of the primary, apart from the keys of lost
updates. The cases are those of the code: one message read or two together
(`RestsShift`), a stream cut by a death, a promoted server that reads what is
left (`DeliverLeftStream`), a push to a connection whose peer is gone
(`UnpushedStream`). What a sequence of updates does to a key (`UpdatedAppend`,
`UpdatedHead`, `UpdatedSkip`) is again induction with sets.

**Directory.** `DirectoryInv` keeps account of the requests that are under way: a
count that a thread has read, and the assignments that are still to be counted,
never exceed the assignments made; a thread on its way to an assignment found
no node for its row. `InTurnInv` is about the time before requests overlap: at
most one thread is past its first access, so no lookup misses.

**Pool.** `PoolInv`: where each connection is, which thread has it, what
`closed` and `ongoing` say of it and who has deleted it, place by place.

**Balancer.** `Ring`: every front end is in the deque once or is the one that is
taken out. `Turns`: the deque is in the order of the last use, `used[p][q]` is 1
only if `p` is in front of `q`. `Search`: under the lock the marks stay what the
search has seen, and those it has skipped are at the back; so an all-round skip
means that nobody was marked. `Probing`: the place that was read is still that of
the port, unless rotated.

**Front end.** `FrontInv` has one part per history variable. With `~overrun`
every thread has the descriptor of the connection it was started for (`OwnConn`).
With `~mixed` as well, `username` is the name of the browser whose request
assigned it last (`OwnName`). With `~crossed` a log-out is alone from its first
step to its last (`Alone`), so the entry it erases is the one whose Storage it
deleted. With all three, `Signed` says why a session has a Storage: a browser
has a cookie only after its user has registered, and a sign-up that has yet to
insert its Storage is the user's first request with an account, or a sign-in has
inserted one. That `accept` finds a descriptor is the pigeonhole principle.

**Drive.** `DriveInv` has one part about the store, `StoreOK`, and one about each
client, `ClientOK`, and the proof separates the two halves of a step. What the
store does with a request (`EffectKeeps`) keeps both, for the clients as they
are, whether the request is answered, sent again or the primary's last; then the
client goes on (`AnswerGoes`, `AnswerEnds`, `Begins`). An id is drawn once
(`Drawn`: every draw is paid for by a request), so an upload under way is listed
nowhere but where it put itself (`Pending`). A folder is not there before its
list is stored, and if it is there when the list is sent once more, `resent`
says so (`Unmade`). `AddsNew` is why names stay unique: the list that a CPUT
expects is the one in which the name was looked for. `Accepted` ties a client that
registers to the stored password. That `Without` keeps all other entries in their
order is an induction over the list, again with sets (`WithoutKeeps`).

`ListedOnce` needs an invariant of its own, `OnceInv`, which says what holds of
an entry that at most one client moves (`Single`) as long as the primary lives.
While that client has the entry in its hands (`Carries`) it is listed nowhere;
before, it is listed where the client found it, or nowhere (`Taken`). An entry
that is still to be listed is known to nobody (`Fresh`), so it is not there
when it is added. It is found only where it was stored or where it was moved to
(`Placed`), and it is listed, carried or `dropped` unless such a folder was
deleted (`Present`). Whatever is listed, shown or moved has its content, or that
is being stored, or somebody deleted it (`Born`). `EffectOnce` and `EffectTakes`
say what one request does to the places of an entry, `Goes` what a step of a
client does to the entry it is about; every step but `MoveFile` is shown to be
of this form, and the parts of the invariant are shown to survive it.
`MoveFile` adds a mover: when there was one before, the entry is no longer `Single`.

**Mail.** `MailInv` says what each session has in its hands: which recipient it
serves at which place, with the ones before it taken out of `todo` (`At`); that
the recipients are those named since its own MAIL FROM (`SessionOK`); that a mail
that was begun has a number nobody else has (`Numbered`); that a deletion was
asked for (`JobOK`). The other three build on it. `KeptInv`: a session that is
past a mailbox has its mail there (`DeliveryOK`), and before it has put the body
the hash is listed; `Keeps` is the lemma that no step of anybody takes a hash or
a body away without its being `wiped` or `deleted`, which for the CPUT of a
delivery is that `Without` removes one hash and nothing else (`WithoutRange`,
induction with sets). `BodyInv`: a listed mail has a body, was deleted, or its
delivery is between its two steps or stuck there. `RelayInv`: while relays do not
overlap at most one session relays, and what it has still to send, what it will
write back and what was sent or refused hold each mail that is owed once, and no
other; when nobody relays the queue takes the place of the first two. A mail is
once in the queue at most, and all that the relay has in its hands is still in the
queue while it sends (`Single`): so a relay that is left by its host leaves each
mail that is owed there at least once. The counting is `CountAppend`, `CountTail`.

Only model-checked: liveness (`Answered`, `Failover`, `StarvedOnlyIfHeld`,
`MarksConverge`, `RequestAnswered`, `LoopsEnd`), which is out of the prover's
reach.

## Where the code deviates

Besides the two findings the model has these behaviours. They are the reason
for the conditions in the properties above; dropping the condition gives the
counterexample.

| behaviour | code | condition |
|---|---|---|
| **store** | | |
| two CPUTs that expect an absent key both succeed | `Worker.cc:570` | `CputOnlyIfEqual` with `Commands <- CreateTwice` |
| a CPUT that was answered `+OK` is lost with a Cell that a PUT has replaced, and is on no disk after the next checkpoint | `Worker.cc:592` | `strays` in `AckedDurable`; `NoLostWrite` with `Commands <- PutAndCput` |
| a GET whose search by `at` misses while another thread inserts ends the server; so does a CPUT's | `Worker.cc:452`, `Worker.cc:570` | `Missing` |
| a GET answers from a string that a CPUT has deleted | `Worker.cc:453` | `server_puts` has no CPUT |
| a CPUT writes through a pointer to a deleted Cell, perhaps into the Cell of another key, and deletes its string once more | `Worker.cc:600` | `Wild` |
| a payload with a line `.` comes back cut short | `checkpointing.cc:147` | `Dotted = {}` |
| two pushes of one key overtake each other | `Worker.cc:368` | `MaxPending = 1` |
| an update that is read together with the one before it is dropped (`data_end + 6`) | `Worker.cc:377` | `dropped` |
| a promoted server misreads what the old primary had sent | `Worker.cc:330` | `dropped` |
| an acknowledged PUT is lost with its primary | `Worker.cc:371` | `dropped` |
| the death of the backup ends the primary (SIGPIPE) | `backStore.cc:77` | `PrimaryEndsOnlyIfKilled` |
| data replayed from a replica's log has lost its last newline | `Worker.cc:410` | values are compared up to the cut |
| after a recovery the local files do not hold what is in memory | `dataserver.cc:331` | no restart in `cluster_stream` |
| a checkpoint is taken during a recovery | `dataserver.cc:219`, `Worker.cc:242` | `CheckpointPaused`, first recovery, test not yet made |
| PROMOTE reaches another server than the one chosen, if rep 1 is started first, or rep 0 comes back in between | `master.h:105` | `Astray` |
| a PROMOTE that is lost with its server is taken for answered, and the master names a server that was never promoted | `master.h:126`, `masterConnection.cc:22` | `Astray` |
| a backup that is promoted while it applies an update pushes it: with a null backStore it ends | `Worker.cc:367` | `PushFatal` |
| a backup that is started after the promotion is never connected | `backStore.cc:49` | `Linked` |
| whoever waits for a dead server waits for ever; a restarted server that the master still names waits for itself, or two for each other | `Connection.cc:22`, `dataserver.cc:297` | `Stuck`, `AskEachOther` |
| two clients that ask for a new row at once are told different nodes, and the row moves | `masterWorker.cc:209` | `inTurn`; `known` in `AssignedOnce` |
| a lookup of a known row while another is inserted may enter it again, with node 0 | `masterWorker.cc:242` | `Inserting` in `AssignedOnce` |
| **pool** | | |
| a connection is deleted by its thread and by `closeAll` | `ThreadPool.cc:77` | `crossed` |
| overlapping updates of `ongoing` | `ThreadPool.cc:111` | `raced` |
| clients that leave without QUIT hold their threads for ever | `ThreadPool.cc:88`, `StateCheck.cc:41` | `Held` |
| **drive** | | |
| after a death a CPUT that succeeded is sent again and refused: the upload is reported as failed and the entry is listed, without name and content | `Storage.cc:223` | `crashes = 0` |
| the PUT of the empty list of a new folder is sent again and empties it | `Storage.cc:223` | `resent` |
| of two clients that move one file, both go on, and it is listed twice | `Storage.cc:315` | `Movers` |
| a folder that has got an entry of that name meanwhile is taken for a success of the move, and the file is in no folder | `Storage.cc:262` | `dropped` |
| a rename does not look for the new name | `Storage.cc:693` | `renames` |
| a sign-in during the registration, or a page of a folder that was deleted elsewhere, ends the front end | `Storage.cc:421`, `Storage.cc:570` | in `EndsOnlyIf` |
| opening, deleting or moving a name that the folder no longer has, from an old page or a second tab, ends the front end | `Storage.cc:528`, `Storage.cc:822` | in `EndsOnlyIf` |
| a PUT or CPUT to a primary that is dead ends the front end (SIGPIPE at the second write) | `Storage.cc:229` | in `EndsOnlyIf` |
| **mail** | | |
| making a list by PUT, or dropping an emptied one by DELETE, loses what came in between | `server.cc:352`, `client.cc:176` | `wiped` |
| overlapping relays lose mails or send them twice | `server.cc:444`, `deliver.cc:61` | `overlap` |
| two mails with the same text have one hash, and deleting one deletes both | `server.cc:341` | the text stands for the hash |
| a page that finds a hash without its body ends the front end | `client.cc:138` | in `PageEndsOnlyIf` |
| a mail without text, or with less than 8 characters and no subject, ends the SMTP server | `server.cc:334` | `DataEnd` |
| a mail that the other host refuses is taken out of the queue as if it had been sent | `client.cc:41`, `deliver.cc:127` | `refused` |
| a relay whose host closes the connection reads at end-of-file for ever, and the next one sends the mail again; or the SMTP server ends (SIGPIPE) | `client.cc:85` | `relStuck`, `unfinished`, `~up` |
| a deletion without a list loops for ever | `client.cc:182` | in `LoopsEnd` |
| a session or page whose primary died hangs, or ends the SMTP server or the front end | `utils.cc:78`, `utils.cc:60` | `stuck`, `~up`; in `PageEndsOnlyIf` |
| **load balancer** | | |
| a result is marked at another front end than the one probed | `load_balancer.cc:230` | `shifted` |
| `servers.at(i)` throws in the middle of a rotation | `load_balancer.cc:220` | `ended` |
| a front end that was skipped goes to the end of the queue: when it is back it waits a whole turn | `load_balancer.cc:123` | `used` is reset by a skip |
| **front end** | | |
| a request works on the files of, or sets the cookie for, another user | `response.cc:1277` | `mixed` |
| log-out deletes a Storage that another request is using | `response.cc:295` | `crossed` |
| a thread serves another connection than its own, which nobody serves then (the same in `webmail/server.cc:130`) | `frontend.cc:108` | `overrun` |

## Not modelled

- Damage to the heap beyond a lost or misdirected write, a string that is freed
  though it is in use, and the end of the process; and damage to the tree by CPUT's
  `operator[]` outside the lock beyond the null pointer it inserts.
- The missing `return` of `promoteNewPrimary` and `recoverCheckpoint`: their
  results are ignored or only decide what is printed, and the modules take
  flowing off their ends as a return.
- In Cluster: DELETE and its replica side (`poll`), CPUT at a replica, more than
  one replica per node, the death of the master. `parse_PUT` tests `isPrimary`
  twice (`Worker.cc:329`, `Worker.cc:367`): of a promotion in between the module
  has the end of the process while backStore is NULL (`PushFatal`), and not the
  push, with a sequence number that was never set, that follows once it exists.
- Socket buffers that fill up: a LIST whose client does not read keeps the map
  lock; a replica's answers are never read.
- The text of HTTP requests and HTML pages, and what goes with it: `strtok`
  shared by all threads (`request.cc:102`), the index that `handle_back`
  computes with `+=` (`response.cc:796`, right for paths of up to ten folders),
  the conversion of file contents, and the download, a single GET.
- The lists that pages address by index: the cached mails (`response.cc:399`) and
  the admin's list of servers (`response.cc:334`). Balancer has the effect of
  starting and stopping a front end.
- `delete_folder` and `reload_page`, which nothing calls.
- Ids of files and folders are times in milliseconds and taken to be distinct;
  the hash of a mail is taken to be injective on texts.
- The state checker (`state/`) beyond its connections, since it only reads, and
  the parsing of the configuration, whose result is the constants of the modules.

## Plan

Done: the modules and theorems above.

Next: DELETE and the return stream in Cluster.
