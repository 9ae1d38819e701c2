# A verification project for TiPI

TiPI is a collection of system programs. `DB/` is a replicated key-value store in
Go with a hand-written Raft; `SpinLock/`, `LockFreeStack/`, `ThreadPool/` and
`BLinkTree/` are concurrent data structures in C++; `WindowsSSHServer/` is a
Windows service that gives a remote client a shell. This directory holds TLA+
models of these six, TLC runs over small instances, and TLAPS proofs for all
instances. Every definition is translated from the source, never from what a
document says.

## 1. Inventory

### DB: replicated key-value store (modelled)

| part | state it keeps | operations |
|---|---|---|
| raft log, `internal/logger/logger.go` | the file `raft.log`, `last_entry`, `to_commit` | `LogOp`, `LogCommit`, `FlushUncommited`, `LenCommited`, `LenUncommited`, `Ops`, `UncommitedOps`, `InitOrRestore` |
| elections, `internal/raft/middleware.go`, `raftapi.go` | `Term`, `State`, `VotedFor`, the election's own term and votes | `Heartbeat_consumer_co`, `Election_co`, `SendVoteRequest_co`, `HandleVoteRequest` |
| replication, same files | `SentLen`, `CommitLen`, `Timer`, one goroutine per heartbeat session | `Heartbeat_producer_co`, `SendReplicate`, `HandleReplicate` |
| client interface, `internal/rest/api.go` | handlers waiting on `Cond` | `HandleKvs` (POST, PATCH, DELETE, GET), `minSentLenQuorum` |
| main loop, `cmd/server/main.go` | the running coroutine, its context, its done channel | restore, spawn, flush, cancel, Fatalf |
| storage, `internal/kvstorage` | the pudge database | `Read`, `Write`, `Delete` |

Interaction: servers exchange HTTP requests (`/replicate/{mean}`, `/vote`).
Inside a server, handlers, heartbeat sessions and client handlers share the
`MiddleWare` under `Cond.L`; the coroutines change `State` and `Term` with
atomics outside that lock; the main loop flushes the log under the logger's own
lock only. What is hard: messages that are late, lost or sent twice by
overlapping sessions; a handler that waits while its server stops being master;
values cached across re-elections; crashes that forget `Term` and `VotedFor`.

What makes it correct: the lengths describe the log; what is written is never
taken back; votes are given once per term and elections need a quorum; the
master never overestimates a peer; stores are what the logs say; requests are
answered.

### The concurrent data structures (modelled)

| program | state it keeps | operations | what is hard | what makes it correct |
|---|---|---|---|---|
| `SpinLock/` | an atomic flag (TAS, TTAS), or two counters (Ticket); a plain counter that the lock guards | `lock`, `unlock` | a waiter comes between test and exchange; relaxed loads; counters that wrap | mutual exclusion, no data race on the counter, first come first served for tickets |
| `LockFreeStack/` | a tagged head pointer, nodes | `push`, `pop`, `isEmpty`, the destructor | a node that is read after another pop deleted it, and its address in use again | a linearizable stack; no node deleted twice or lost |
| `ThreadPool/` | a deque and a mutex per worker, a done flag | constructor, `submit`, `worker`, `tryPopLocal`, `trySteal`, destructor | two mutexes at once; a worker that leaves while others give it tasks; tasks that submit or throw | each task at most once, no deadlock, the destructor returns |
| `BLinkTree/` | nodes with right links and high keys in a file, a lock per node | `read`, `write` with splits up to the root | descents that race with splits; a split of a parent meanwhile | no pair lost, exact separators, nobody beyond its key's node |

### WindowsSSHServer (modelled)

The service (`SSHServer/main.cpp`, `executer.cpp`) has three threads: `SvcMain`,
the control handler, and `TcpServerThread`, which serves one client in its life
through two pipes to a `cmd.exe`. The client (`SSHClient/main.cpp`) has a main
thread, one that shows what arrives and one that sends what is typed. They share
the listening socket, `ghSvcStopEvent`, `g_running` and `hStop`. What is hard:
the handler and the thread both close the socket; buffers that are full; a stop
or an end of the client at any point of a round; threads that sit in calls
nobody can wake. What makes it correct: bytes pass once and in order, a stop
completes, a session ends with its client and its shell with the session.

### Not modelled

| program | why |
|---|---|
| DB test tools and cluster scripts | shell scripts that drive a cluster |
| SSH installation, logger, pipe demos | one call of the control manager; lines written under a lock; a sequential example |
| Auditor daemon | parsing and SQL: what can interleave is two statements inside PostgreSQL (`postgres_storage.go:159`), whose isolation would be the whole model |
| Auditor generator, MatrixMultiplier, DistributedIntegral, Ext2, lsof, cp | sequential programs: load generation, numeric kernels, an unfinished program, parsing, `/proc`, one copy loop; pure input and output or arithmetic |

## 2. Modules

| module | models |
|---|---|
| `RaftLog` | the Go struct `Logger` as a record and its methods as operators; no variables |
| `RaftLogger` | one process's log under arbitrary callers, crashes and restarts |
| `RaftCluster` | N servers with main loops, coroutines, heartbeat sessions and handlers, the clients, and the network |
| `RaftProperties` | the properties of `RaftCluster`, its fairness, the mapping to `Ballots` |
| `Ballots` | abstract: what voting promises |
| `SpinLock`; `Mutex` | the three locks under `main.cpp`'s worker loop; abstract: a mutex around a counter |
| `LockFreeStack`; `Stack` | the stack under the threads of `tests.cpp`; abstract: a linearizable stack |
| `ThreadPool`; `Tasks` | the pool, its creator and another submitter; abstract: the stages of a task |
| `BLinkNode`, `BLinkTree`, `BLinkProperties`; `Dictionary` | the operations on a node (`node.c`); clients of the tree (`tree.cpp`); their properties; abstract: a map |
| `SSHNet`, `SSHServer`, `SSHClient`, `SSHSystem` | the connection (external); the service and its shell; the client; their composition and its properties |
| `RaftLogProofs` | lemmas about the operators of `RaftLog`, for both modules that use them |
| `RaftLoggerProofs`, `RaftClusterProofs`, `SpinLockProofs`, `LockFreeStackProofs`, `ThreadPoolProofs`, `BLinkProofs`, `SSHProofs` | theorems |
| `MCRaftLogger`, `MCRaft`, `MCThreadPool`, `MCBLinkTree` | TLC instances |

### How RaftLog and RaftLogger correspond to logger.go

A log is `[file, last, pend]`: the lines of `raft.log`, `last_entry`, and
`to_commit`. Each method holds the logger's mutex throughout, so it is one
operator and one step. `LogOp` overwrites the index fields of the entry it is
given; `LogCommit` writes the oldest pending entry, whoever logged it. Writing
and reading the file keep the one thing that matters about the JSON text: the
kind in which zap writes a numeric field and the kind `InitOrRestore` asserts.
A crash keeps only the file. Only `FindOp`, which nobody calls and which changes
nothing, is left out.

### How RaftCluster corresponds to the server

* `term`, `state`, `votedFor`, `sentLen`, `commitLen`, `log`, `kvs`, `timer` are
  the fields of `MiddleWare`. `sentLen` and `commitLen` are partial functions: a
  peer enters on its first answer, as in a Go map, and `minSentLenQuorum`
  depends on how many have.
* `co[s]` is where the main loop is: choosing the next coroutine (`loop`),
  flushing before a spawn (`become_master`, `become_condidate`), in the consumer, in an
  election (`elect` before the atomic increment, `canvass` before the requests
  are sent, `election` collecting votes, `won` waiting for the lock), in the
  producer (`producer0` before the first session), waiting for a channel nobody
  closes (`stuck`), or not running (`down`).
* `cancelled[s]` says that a handler called `Co_done_ctx` on the running coroutine.
* A handler holds `Cond.L` from its first look at shared state to its last, so
  it is one action. Three things happen outside the lock and are steps of their
  own: the coroutines' stores to `State`, the main loop's flush, and
  `Election_co`'s increment of `Term`. The increment may also fall between a
  handler's load of `Term` and its store, which then undoes it: `StoreTerm` and
  the second disjunct of `ReplicateRefused`.
* `session[s][i]` is a heartbeat session goroutine: spawned by the producer's
  tick, it takes the lock, sends one request per peer (`Shipment` chooses which),
  and collects answers until all came or its context ends.
* `net` is the set of requests and answers in flight, delivered in any order.
  An answer whose reader has gone is dropped when the reader goes. A refusal
  (status 400) is delivered as an answer of length 0, because `SendReplicate`
  does not return after its error answer.
* `client[c]` is one `HandleKvs` handler: `admitted` when `State` was read
  without the lock, `waiting` on `Cond`, `woken` by a broadcast, and its outcome.
* `poisoned[s]` says that a handler panicked between `Lock` and `Unlock`.
* `granted`, `elected` and `incarnation` are history: they are never read by
  an action that models code, except for the bound on restarts.

Left out: `LeaderIP` and redirects (no state depends on them), GET (no state),
status 405 and JSON errors, negative votes (the code ignores them), reads of
`OP_READ` and `OP_CAS` entries (nobody logs them), the start-up window before
`Cond` is set, a crash between two statements of one handler, disk errors of the
store other than deleting a key that is absent. The vote answer's `Term` is read
after the lock is released (`raftapi.go:345`); if it changed, the condidate does
not count the vote, which is the same as losing the answer (`Lossy`).
PATCH requests are in the model, but the runs' clients only create and delete.

### Ballots

`Ballots` says what voting promises, with two actions. A voter, in one life of
its process, votes in terms that do not go down and for one condidate per term;
a winner has a quorum of votes, all recorded but its own. That its own vote is
not recorded is the code's doing (`middleware.go:241` does not set `VotedFor`),
and so is that a new life forgets. `RaftProperties` instantiates it over the
history variables of `RaftCluster` (`ImplementsBallots`).

### How SpinLock corresponds to the locks

One action is one atomic operation, or one plain access to the counter; a
behaviour uses one of the three locks (`kind`). Memory order is in the model as
happens-before and no more: `writes` is the history of the counter, `view[t]`
how much of it thread `t` is ordered after, `published` the view that the last
release stored. An acquire takes `published` over, a relaxed load does not, and a
plain read that is not ordered after all writes may return any value from its
view on. The ticket counters wrap at `MaxTicket` and start at any equal value.
A spin that finds the lock taken changes nothing and is a stuttering step.

### How LockFreeStack corresponds to lock_free_stack.hpp

One action is one load or exchange of the head, or the read of `next`. An address
is taken by `new` and given back by `delete`, so the same address comes back with
another node. A pop that reads `next` of a deleted node gets any pointer
(`ReadNext`). `chain` is history: what is linked, top first. Left out: the wrap
of the 64-bit tag; relaxed loads of the head, which the dependency through the
pointer orders on the processors the code is built for.

### How ThreadPool corresponds to thread_pool.hpp

`pc[w]` follows `worker()`: `pop` (own queue), `steal` (two queues chosen by
`rand()`, any two), `locked` (the first mutex held, the second waited for),
`check` (the done flag), `run`. What is done under one mutex is one step. A task
may submit tasks into its worker's queue and may throw, which sets `done` and ends
the process (`Terminate`). The constructor may fail between two threads
(`StartFails`). `main` and `otherLeft` are the two submitters.

### How BLinkNode and BLinkTree correspond to node.c and tree.cpp

`BLinkNode` keeps the two arrays of a node with all their slots, those past the
last key included: an unwritten slot is `Junk`, `fgoe` is the code's binary
search, and a comparison with an unwritten slot may have either outcome
(`ReadsJunk`). `Copied` is the `sizeof` that `btnodeSplit` copies children with.
In `BLinkTree` an offset is a node's number in the file. A node is read, and the
next one chosen, under its read lock alone: one step. A writer of a full leaf
keeps the write lock (`full`), waits for its parent (`parent`), splits, and goes
up, until a parent has room (`link`) or the root is split. Undefined behaviour (a
child's offset nobody wrote, `top()` of an empty stack) sets `broken`. Left out:
`dotgen.cpp`, short reads and writes of the file, and a crash between two
`writeNode` calls, from which the code has no recovery.

`Dictionary` is what the tree promises: `map` is what is stored under each key, the
pairs in the leaves, and `todo` the operations of each client that have not
happened. A write happens when its leaf is written, or split with the new pair in
one half; the links that its splits still need come after that. A read happens
when it ends. `Dictionary` says nothing of what a read returns: `ReadsCurrent` does.

Three assumptions: no offset equals `NoNode` (-1 in the file) or `Junk`
(`SentinelAssumption`), no client is `NoClient` (`NoClientAssumption`), and
`Scripts` are sequences of reads and writes (`ScriptsAssumption`).

### How the SSH modules correspond to the programs

`srv` is where `TcpServerThread` is: `start` to `select` before the session;
`loop`, `wait`, `peek`, `send`, `recv`, `write` in one round of it; `cleanup`,
`check`, `close`, `exited`; and two places it never leaves, `box` (the message box
of `ErrorExit`) and `retry` (an error of `send` that the code does not know).
`svc` is the thread of `SvcMain` and `hnd` the control handler, which reads the
state in one step and reports it in another. The test of `g_listenSocket` and
the close are two steps in both threads. `holders` says which process has each
end of the two pipes open, from which end-of-file and write errors follow.
`cmd.exe`, the pipes and TCP are external: finite buffers, in order, without
loss. Bytes are numbered, and `Nul` stands for one that was overwritten.

In the client, `cmain`, `recvT` and `stdinT` are the three threads. Left out: the
error codes of `select` and `WriteFile` that the programs treat alike, the
console modes, logging, and process handles that are never closed.

## 3. Runs

| run | instance | states | what it shows |
|---|---|---|---|
| `RaftLogger` | 2 commands, 2 terms, 3 entries, 2 crashes | 1,109 | `LogShape`, `LengthsHonest`, `PositionsStable`: cached entry and lengths agree with file and pending list; no call moves an entry |
| `RaftRestart` | 3 servers, 2 electable, 1 term, lost and late messages, a crash and restart of each | 1,577,456 | `ImplementsBallots`, `RivalWinners`: votes are kept per life of a process |
| `RaftReplication` | 1 electable server, 2 creates, 2 overlapping sessions | 1,047,823 | `FilesAgree`, `PeerLengthsReached`, `SlaveStoreReplaysLog`, `AckedStaysLogged`, `TypeOK` |
| `RaftTakeover` | 2 electable servers, 2 terms, 1 create | 2,498,949 | `LogsWellFormed`, `FilesOnlyGrow` across changes of master, flushes and late sessions |
| `RaftLiveness` | 1 electable server, a create and a delete, fairness | 19,663 | `RequestsAnswered`, `SlavesCatchUp` |
| `SpinLock` | 3 threads, 2 iterations, 3 tickets, each lock | 22,755 | `ImplementsMutex`, `NoDataRace`, `ServedInOrder`, `Finishes` |
| `LockFreeStack` | 1 writer of 3 values, 2 readers, the destructor, 3 addresses | 268,668 | `ImplementsStack`, `ListIsChain`, `NodesAccounted`, `Finishes` |
| `ThreadPool` | 1 to 3 workers, 3 tasks, one submits another, one may throw | 81,660 | `ImplementsTasks`, `TasksAccounted`, `NoLockCycle`, `AloneInOrder`, `ShutdownEnds`, `EveryTaskRuns` |
| `BLinkTree` | L = 2, four trees of up to three levels, 2 writers and a reader | 13,196 | `TreeSound`, `NeverPastHome`, `ImplementsDictionary`, `WriteTakesEffect`, `ReadsCurrent`, `Finishes` |
| `SSHSystem` | pipes of 1 and 3 bytes, a buffer of 3, a banner of 4, 2 typed bytes | 371,295 | `StreamsAccounted`, `StoppedMeansDone`, `StopCompletes`, `SessionEnds`, `ClientLeaves`, `OutputArrives` |
| `RaftNoQuorum` | violation of `AckedOnQuorum` | | a request acknowledged on stale lengths |
| `BLinkChildren` | violation of `ChildrenDefined`, L = 16, one client | | a split internal node has children nobody copied |

Every property of a passing run has a mutant in `PROJECT.json`: an operator of
the module that changes a definition the way a plausible bug would, under which
TLC finds the property violated. `TreeSound`, `TasksAccounted` and
`StreamsAccounted` are conjunctions whose parts are defined and explained one by
one. Deadlock is checked for `SpinLock`, `LockFreeStack` and `ThreadPool`, whose
last step is explicit. It is not for the others: a cluster whose bounds are
exhausted stops, clients of the tree run out of operations, and the service
stays where it is when nobody calls it.

### Bounds, and why they are enough

* Raft. `Slot` (sessions at a time): 1 gives sessions in sequence, 2 lets an old
  session's messages pass a newer one's, which is where answers are reordered; a
  slot is used again (`SlotReuse`). `MaxNet` (messages in flight when a server
  starts to send): 0 to 2 lets one round of requests or answers be overtaken by
  another. `MaxTerm`: a second term is enough for stale votes, stale lengths and
  flushed entries to matter. `MaxRestarts`: one new life is enough to forget a
  vote. `Prompt = TRUE`: answers arrive before the timeouts (2 s and 5 s against
  a local network), so that sessions time out on servers that are down; and
  `Lossy = FALSE` in the runs about replication: loss and early timeouts are
  model-checked for elections (`RaftRestart`) only. Servers are symmetric where
  the `.cfg` says so, and no run of liveness uses symmetry.
* `SpinLock`: a third thread comes between the two steps of a waiter, and with two
  iterations a releasing thread waits again while others still do. Three tickets
  for three threads is the least that is sound, and every round wraps.
* `LockFreeStack`: three addresses, of which each comes back under a reader that
  holds it; two readers are needed for one to delete what the other reads.
* `ThreadPool`: with three workers two of them wait for each other's queues while
  the third runs; three tasks fill a queue while another is empty.
* `BLinkTree`: L = 2 is the least with a real split. The four `Scripts` put the
  writers where a leaf, an internal node or the root splits under them; a key per
  operation, so that `Keys` is finite. `Copied = 8` exceeds all children at L = 2
  and is less than they are at L = 16.
* `SSHSystem`: every buffer is small enough to be full (`InBuffer`, `OutBuffer`,
  `UpBuffer`, `DownBuffer`), the banner fills `rbuf` and leaves a byte over, and the
  answers to two typed bytes fill the pipe, so that both sides can wait at once.

### Fairness

Weak fairness of each thread's steps throughout: the operating systems and the Go
runtime schedule every thread. In addition: in Raft, that requests are handled and
messages to a server that is down are dropped (HTTP over TCP); in `LockFreeStack`,
strong fairness of the exchange in `pop`, as a weak exchange does not fail
spuriously each time. Nothing is assumed of slave timers, crashes, clients,
submitters, of who destroys the pool, of the order in which waiters get a
mutex, nor of the user, the control manager or `exit` in the shell.
`RequestsAnswered` and `SlavesCatchUp` except behaviours in which a handler panics
or a slave calls Fatalf; `Finishes` of the tree, undefined behaviour; the
liveness of the service, three waits (`Stuck`) that do not look at the stop event.
All of these happen without any failure around the program.

### What the code does against its documentation, and what else was met

Two runs show it and `PROJECT.json` "findings" quotes the lines. The other
divergences are in the model, as actions or as exceptions that a property names.

* DB. A server with a written log cannot be started again, as numbers are read as
  strings (`logger.go:83`, lemma `OnlyEmptyRestores`). A condidate may vote for its
  rival (`raftapi.go:321`), which `RivalWinners` allows. A cancelled producer does
  not close its channel and the main loop waits for ever (`middleware.go:95`, `co`
  = `stuck`). A handler that panics in `minSentLenQuorum` leaves `Cond.L` locked
  (`ClientSubmits`). A slave that gets a logcommit twice may end its process
  (`SlaveFatal`). A request that survives a flush writes the store and not the log
  (`ClientResumes`). An increment of `Term` is undone by a handler (`StoreTerm`). A
  master that stepped down, flushed, and then wakes a client commits another entry
  under the same number: `FilesAgree` and `AckedStaysLogged` hold until then
  (`SteppedDown`).
* `LockFreeStack`. The destructor stops at the first value that converts to false
  and leaks the nodes below (`Return`).
* `ThreadPool`. With two workers or more a stealer may give away its own task, so
  that only a pool of one worker runs everything (`EveryTaskRuns`); tasks that wait
  when the pool is destroyed are not run.
* `BLinkTree`. `read` stays at a leaf whose high key is its key (`tree.cpp:98`),
  where `write` moves right; `fgoe`'s result is used as an index past the last key
  (`node.c:39`): both are exceptions of `ReadsCurrent`. An update in a full leaf is
  dropped (`tree.cpp:188` and `node.c:62`): the exception of `WriteTakesEffect`.
  `stk.top()` is called on a stack that may be empty (`tree.cpp:202`, `NoParent`).
  Eight children are copied, whatever L is (`node.c:118`, the run `BLinkChildren`).
* `WindowsSSHServer`. The last byte of a full buffer becomes `'\0'` before it is
  sent (`main.cpp:198`). An unknown error of `send` is tried for ever (213-219).
  `PeekNamedPipe` fails when the shell has gone, which is taken for no output, so
  the session goes on until the client sends (185). The session waits to write
  while the shell waits to be read (276-279, `Jammed`). The control manager may be
  told of a pending stop after the stop (603). The service stays RUNNING after its
  one session. The end of the client's input shuts the socket in both directions
  while output is on its way (`SSHClient/main.cpp:230`).

## 4. Proofs

Assumed are only the ASSUMEs of the components' modules, which TLC evaluates in the
runs, and the hypotheses a theorem states.

`RaftLogProofs` says what the logger's operators do to a log: which entry is where
(`ContentIndices`), that each operator yields a log again and keeps the numbering
and the cached last entry (the `...Shape` lemmas), and that the lengths the code
computes are those of the file and of the whole log (`ShapeGivesLengths`). It has
no variables, so one copy serves the single log of `RaftLogger` and the logs of
all servers of `RaftCluster`.

`RaftLoggerProofs` proves, for any commands and terms and logs of any length up
to any `MaxLen`, and any number of crashes:

* `TypeCorrect`: `Spec => []TypeOK`, by one step per action;
* `ShapeKept`: `Spec => []LogShape`. The inductive invariant is
  `TypeOK /\ LogShape`. The shape speaks of file and pending entries together,
  since `LogCommit` moves an entry that was numbered when it was logged; a
  restart preserves it because a log with entries cannot be restored, so a new
  life only ever begins with an empty file (`OnlyEmptyRestores`);
* `LengthsCorrect`: `Spec => []LengthsHonest`, from the cached last entry and
  its position;
* `PositionsKept`: the action property `PositionsStable`, one case per action.

`RaftClusterProofs` proves about the whole cluster, for any odd number of
servers and any bounds on messages, terms, sessions and restarts:

* `VotingRefinesBallots`: `Spec => ImplementsBallots`. `ImplementsBallots` speaks
  of history only, so it is not inductive. `VotingInv` ties the history to what
  the code remembers: the votes of a running voter's current life are of terms of
  at most its `term`, and in that term are for its `votedFor`
  (`GrantsRemembered`); the votes a condidate has counted, and the answers on
  their way to it, are recorded votes of the term it asks for (`VotesBacked`).
  The steps fall into three classes, each with one lemma: quiet steps, which take
  no part in voting (`QuietKeeps`), handlers that store a `Term` no lower than
  the old (`HandlerKeeps`, where the election may add to `Term` in between), and the
  steps of the election itself;
* `VotesOnce`: `Spec => []Voting!OneVotePerTerm`, one condidate per voter, life and
  term, and `RivalsOfCluster`: `Spec => []RivalWinners`. Both follow from the
  refinement: `BallotsInv` is kept by the two steps of `Ballots`, so whatever the
  cluster does keeps it. Winners' votes are recorded votes of their term; two sets
  of them share a voter (`ElectionQuorumsMeet`, a count of majorities that needs
  the number of servers to be odd), who has recorded votes of one term for two
  condidates, which in one life is excluded;
* `ClusterLogsWellFormed`: `Spec => []LogsWellFormed`, and `ClusterFilesOnlyGrow`:
  `Spec => FilesOnlyGrow`. `LogsWellFormed` alone is not inductive. `ReplicaInv`
  is `VotingInv` with `LogInv` and `ClientInv`: every log and every entry in
  flight is one the logger could have made, and for that the sessions and
  lengths by which entries are chosen must be typed; `last_entry` describes the
  file only in a running process; and only a server that has won has handlers,
  as a slave that logged for a client would number entries on its own;
* `ClusterTypeCorrect`: `Spec => []TypeOK`, by `TypeInv`, which adds the types
  of flags, stores and history to `ReplicaInv`;
* `SlaveStoresReplayLogs`: `Spec => []SlaveStoreReplaysLog`, by `Replays`: a
  handler writes the store and the file in one step, so the store stays what the
  file adds up to (`ReplayedAppend`), and an operation that is applied a second
  time changes nothing, as it is the last one of the file (`ReplayedAgain`).

The other three invariants of replication are proved under hypotheses that each
theorem states, those of the run `RaftReplication`, but for any number of servers,
clients, sessions and messages, with requests lost, repeated and out of order, and
timeouts early or late. They are needed: with two candidates `PeerLengthsReached`
is false of the code, since a server that becomes condidate flushes pending
entries which its master goes on counting (TLC finds the behaviour on the instance
of `RaftTakeover`). `FilesAgree` and `AckedStaysLogged` except a master that has
stepped down and hold on that instance; a proof for two masters whose sessions
overlap is not attempted.

* `OneCandidateReaches`: `[]PeerLengthsReached` if one server can be elected and
  none restarts (`OneCandidate`), in any number of terms. `OneLeader`: the others
  stay in the consumer or end, requests in flight are from the candidate and
  answers to it. `Reached` adds to the lengths the answers on their way: each
  tells a length its sender has (`HonestAnswer`). It is kept because a follower's
  log never gets shorter: a request with a new entry while one is pending
  replaces the pending one (`StoredNoShorter`), of which there is one at most
  (`OnePending`);
* `OneMasterFilesAgree`: `[]FilesAgree` if that server is elected once
  (`OneMaster`: `OneCandidate` and one term). `Campaign`: before its first session
  nobody has heard of it, and all logs are empty. `Reign`: its log only gets
  longer (`LogExtends`), what is in flight asks for its entries in their order
  (`Asks`), and a follower's file is the beginning of its log. A pending entry of
  a follower may be another one than its number says, when requests overtake
  each other, but it is replaced before it can be written: what is written is
  what the request named (`StoresPrefix`);
* `OneMasterKeepsAcked`: `[]AckedStaysLogged` if, besides, no two clients ask for
  the same (`DistinctRequests`; otherwise entries cannot be told apart). `Accounts`
  counts: the log has one entry for each request whose handler got that far, and
  the file as many as were acknowledged. Then there is an entry to write whenever
  a handler comes to write one (`BookedCommit`), though it may be another
  handler's. What broke down stays broken without restarts (`StaysBroken`).

`SpinLockProofs` proves, for any finite set of threads no larger than the number of
tickets and any number of iterations:

* `TypeCorrect`; `LocksAreMutex`: `Spec => ImplementsMutex`; `CounterNeverRaces`:
  `Spec => []NoDataRace`; `TicketsInOrder`: `Spec => ServedInOrder`. The
  inductive invariant has three parts. `LockInv`: at most one thread is in its
  section, and the flag is set exactly then. `TicketInv`: the threads that wait
  hold consecutive tickets from `current` on, in the order of `arrivals`, modulo
  `MaxTicket + 1`, so that equality with `current` singles out the first; this is
  where the bound on the number of threads is needed. `MemoryInv`: what was
  published is all that was written while nobody is in the section, and whoever is
  in it is ordered after all.

`LockFreeStackProofs` proves, for any threads, addresses and values:

* `TypeCorrect`, `ListStaysChain`, `NoNodeLost` and `StackIsLinearizable`
  (`Spec => ImplementsStack`). `ListIsChain` and `NodesAccounted` are not inductive:
  the exchange in `pop` installs a `next` that was read earlier, perhaps of a
  deleted node. `ThreadInv` adds what the tag gives: a thread's `old` never has a
  tag ahead of the head's, and while the tags are equal, the node it read is on top
  and what it read is that node's `next`.

`ThreadPoolProofs` proves, for any number of workers and any tasks that submit
one another as they like:

* `StealersNeverDeadlock`: `Spec => []NoLockCycle`. `LockInv`: a mutex that is held
  across a step is held in `trySteal`, with the lower number first. Of a set of
  workers that wait in a circle take the one that waits for the highest queue:
  its holder waits for a higher one;
* `QueuesKeepEveryTask`: `Spec => []TasksAccounted`, and `PoolRunsTasksOnce`:
  `Spec => ImplementsTasks`. `PoolInv` is `LockInv` with `TasksInv`, which says of
  every task where it is: with its submitter and not yet submitted (`LeftIsNew`),
  in one place of one queue (`QueuesHoldWaiting`), with one worker (`OneTaskEach`),
  or done. A move between two queues under two mutexes takes it from one and
  puts it into the other, and is where a lost or doubled task would show;
* `AlonePoolIsFIFO`: `Spec => []AloneInOrder`. `AloneInv`: with one worker, what it
  has begun followed by what is queued is what was submitted, in that order.

A function that is submitted twice is two tasks (`SubmittedOnceAssumption`).

`SSHProofs` proves, for buffers of any size, any banner and any input, provided the
buffer for output has more than one byte (`RBuf > 1`; the code's has 2048):

* `StopLeavesNothing`: `Spec => []StoppedMeansDone`. `StopInv` has four parts: in
  which order `TcpServerThread`, `SvcMain` and the handler end (`StopOrder`); that
  the handle is as valid as the socket behind it, whoever closed it
  (`ListenHandle`); whom the connection waits for (`Served`); and which pipe ends
  the thread has at which point (`PipeEnds`);
* `BytesPassOnce`: `Spec => []StreamsAccounted`. Besides types and `NotYet` (before
  the session nothing has passed), `InputInv` and `OutputInv` say that what the
  stages hold, one behind the other, is one sequence of numbered bytes: the
  client's, the connection's, `rbuf` or the part of it that `WriteFile` left over,
  the pipe's and the shell's. On the way out one byte of a full buffer may be
  `'\0'`, which is why `RBuf > 1` is needed.

`BLinkProofs` proves, for any clients and operations, nodes of any size `2L` and
trees of any height, where `btnodeSplit` copies every child it has to (`L <= Copied`):

* `HomeAhead`: `Spec => []NeverPastHome`, and `TreeStaysSound`:
  `Spec => []TreeSound`. The inductive invariant `IInv` says that there are two
  functions `low` and `lev`, the least key and the height of each node, which the
  code never writes down. A node is given both when it is written and keeps them,
  so what a client remembers by a node's offset stays true while the node's keys
  move to the right of it. `Tree`: a right sibling begins where a node ends, a child
  where the key before it says, and nodes of one level are apart; with every node
  its shape, and what splits have left in the slots past the keys, where `fgoe` may
  look (`WellMade`). `RootFits`; `ClientFits`: no client is past its key, the stack
  leads up one level at a time, and what the writer of a full node has to add
  belongs into that node; `Locks`; `Linked`: every node is the root, a child, or
  about to be linked by somebody. Each step that writes new nodes is proved by
  naming the two functions after it;
* `WritesTakeEffect`: `Spec => WriteTakesEffect`, and `ReadsAreCurrent`:
  `Spec => ReadsCurrent`. A key is in one leaf only, so the pairs in the leaves are
  a function, and each operation on a node changes them by one pair or none;
* `TreeIsDictionary`: `Spec => ImplementsDictionary`, step by step: a leaf's write
  or split is a `Put` (or a `Drop`, in a full leaf), the end of a read a `Get`, and
  everything else, the splits of internal nodes and the links among them,
  leaves `Contents` and the operations to do as they are.

`fgoe` and the walk from the root are recursive functions in the model. That they
are defined and where they end is proved without the library's induction theorems:
each step of either lowers a rank (the length of the range that is searched; on the
way down the level, along the leaves the distance to the right), and a least rank
for which there is no such function would have one (`WalkEnds`, `HasLeast`).
The hypothesis is needed: `size_t` has
8 bytes, and at L = 16 the run `BLinkChildren` violates `ChildrenDefined`.

Only model-checked: liveness, which is out of reach together with ENABLED
(`Finishes` and the like). No module declares a RECURSIVE operator.

## 5. Plan

Done: all components of section 2, and theorems for the safety properties and the
refinements of all of them. What is left: loss and early timeouts for replication
in a run; the theorems allow them, the instances do not finish.
