# Verification of plumb

This directory holds TLA+ models of the concurrent core of plumb, the TLC runs
that check them on small instances, and TLAPS proofs of some of their theorems.
Paths are relative to the repository; `tools/` stands for `src/internal/tools/`,
`cli/` for `src/internal/cli/`, and so on.

- [The system](#the-system)
- [Modules](#modules): [PathLocks](#pathlocks), [TxLog](#txlog-and-atomictx),
  [ServeProxy](#serveproxy), [WorkspacePool](#workspacepool),
  [EditGuards](#editguards), [HistoryQueue](#historyqueue),
  [ResumeCredentials](#resumecredentials), [RpcConn](#rpcconn), [WatchHub](#watchhub)
- [Runs](#runs)
- [Fairness](#fairness)
- [What is proved](#what-is-proved)
- [Findings](#findings)
- [Not modelled](#not-modelled)
- [Plan](#plan)

`PROJECT.json` has the same content for tools: components, runs, a mutant for
each property, the source lines of each definition, findings, hazards, theorems.


## The system

plumb is a daemon that offers language servers, file edits, git and search to
AI clients as MCP tools. Each client runs `plumb serve`, a small process on the
client's stdio that forwards frames to the one daemon of the user over a Unix
socket, and that starts the daemon when there is none. In the daemon each
connection is a session; sessions share the language servers, the write locks,
the stores and the caches.

    client == stdio ==> plumb serve (ServeProxy) == socket ==> daemon
                                                               |-- session of the connection
                                                               |     attach: scan the txlog (TxLog), pin a workspace
                                                               |     session_start: resume (ResumeCredentials)
                                                               |     tool call: routing proxy --borrow--> pool entry
                                                               |                edit --lock--> PathLocks --> EditGuards, TxLog
                                                               |-- workspace pool (WorkspacePool)
                                                               |     entry: client proxy, supervisor --RpcConn--> language server
                                                               |     watchers of a root (WatchHub)
                                                               '-- stores: history (HistoryQueue), sessions, stats, collab, topology

### Components

| component | state | operations | what is hard | what makes it correct |
| --- | --- | --- | --- | --- |
| path locks (`tools/file_write_helpers.go`) | table key -> mutex and stamp | `lockPath`, sweep of idle entries, ordered acquisition by `transaction_apply` and `edit_apply` | the sweep beside a writer that has loaded an entry and not locked it; two multi-file calls; two spellings of one file | one writer per file; no wait cycle; every call ends |
| transactions (`tools/transaction*.go`, `tools/txlog/`) | files on disk; a log directory with manifest and snapshots; the daemon's start time | validate, Begin, Record, write, Commit, Rollback, the diagnostics gate, the scan of each attach | a crash or power cut at any step, a scan beside a live transaction, two scans, edits by other programs | a batch happens wholly or not at all; what was acknowledged stays |
| serve proxy (`cli/serve_proxy*.go`) | connection, generation, captured initialize frame, ledger of outstanding requests, daemon PID | two pumps, heartbeat, reconnect with handshake replay, sweep of the ledger | three goroutines find one failure each at its own time; the daemon dies, hangs, or is evicted between any two steps | each request is answered exactly once and none is sent twice |
| workspace pool (`cli/pool*.go`, `cli/proxy.go`, `cli/routing_proxy*.go`, `lsp/supervisor.go`) | entries by (root, language), leases of sessions and calls, grace timers, supervisors, published clients | acquire, release, borrow, reap, hibernate, wake, admission under a cap, failed starts | `begin` counts a call without the pool's lock; timers that fire late; failures reported late; a session whose entry was replaced | no call loses its server; no session loses its lease; no server is kept for nobody |
| edit guards and undo (`tools/write_guards.go`, `read_tracker.go`, `undo_store.go`) | per session and file: the version it last read or wrote, and one undo entry | read, write, edit with its retry, rollback for new errors, undo | other programs write at any moment and may leave the mtime alone | nothing the session has not seen is overwritten; no edit is lost; an undo takes back one write |
| write budget (`tools/rate_limit.go`, `cli/shared_budgets.go`) | a sliding window per workspace, its reference count | allow, join, leave | the last leaver and a new joiner | one window per workspace at a time |
| mutation testing (`tools/mutationtest_*.go`) | one slot, a journal on disk | run, restore | a crash while a file is mutated | the file gets its content back |
| git (`tools/git_repolock.go`, `git_background.go`) | a lock per repository, jobs | run, detach, collect | a job that outlives its call | commands that write exclude each other |
| routing proxy, rest (`cli/routing_proxy_fanout.go`, `_activation.go`, `_pull.go`) | secondary proxies, diagnostics modes | fan out, activate, pull | an entry leaves while a fan-out uses it | as for the pool |
| pool, rest (`cli/pool_reconfigure.go`, `pool_resync.go`, `pool_flight.go`) | watchers, epochs, flights | reconfigure, resync, de-duplicate starts | a watcher that fails while its entry is reaped | every running server sees the changes of its root |
| daemon singleton (`cli/daemon*.go`, `cli/lock.go`) | lock file, socket, PID file | launch, listen, evict, hand over | many clients start it at once; versions differ | one daemon serves |
| sessions (`cli/conn*.go`) | pinned workspace, mutation lane, language server clients | attach, re-pin, namespace | a re-pin beside a call in flight | a call works in the workspace it began in |
| resume credentials (`sessionstate/`, `cli/conn_resume_accept.go`, `cli/serve_resume_store.go`) | a credential and its successor, in SQLite and with the client | claim, rotate, release | several claimants, a lost answer, a crash between claim and successor, a predecessor that comes back | one claimant per credential, one live holder per session ID, none used up for nothing |
| collaboration mailbox (`collab/`) | notes, claims, watermarks | send, deliver, claim, expire, wait | delivery before the answer has arrived | a note reaches one reader, once |
| cache and invalidator (`cache/`) | results by key and generation | get, put, invalidate | a result computed before an invalidation is stored after it | nothing stale is served |
| file watch hub (`fswatch/`) | shared watchers with subscribers | subscribe, close, replace | a join beside the last close, a failure or a replacement | a subscriber's watcher is open, none leaks, a failure reaches everyone |
| JSON-RPC connection (`lsp/jsonrpc/conn.go`) | pending calls, writer, closed flag | call, notify, cancel, close | close beside an answer; abandoned writes | each call returns; notifications keep their order both ways; a cancel follows its request |
| MCP server (`mcp/`) | requests in flight, deadlines | dispatch, cancel, expire, close | a cancel or a deadline beside the answer | one answer per request |
| history and stats writers (`history/`, `stats/`) | bounded queue, batch, counters of drops | record, flush, drain, close | overflow, failing batches, close beside a flush | each record is stored or counted as lost, in order |
| config store (`config/store.go`) | current config, generation, listeners | reload, subscribe | two reloads | the newest file wins |
| topology index (`topology/`) | files to index, the graph in SQLite | enqueue, index, resync | lost events | the index follows the files in the end |

The remaining components have no interleaving of their own: other tools, the
detection of languages, adapters, memories, quality runs, profiles, one-shot
commands, dashboards, pure helpers. `PROJECT.json` lists each with the reason.

How they interact: a tool call runs on a goroutine of its session. It asks the
routing proxy for a client, which borrows a lease in the pool for as long as
the call runs; a write takes path locks, then writes through the transaction
log when it names several files. The pool's timers, the janitor, a supervisor's
goroutine and the readers of start failures all work beside the calls, under
one mutex `p.mu` or without it. The proxy knows nothing of this: it sees frames
go and come, and a daemon that may vanish between them, together with all the
state in memory. What survives is on disk: files, transaction logs, SQLite.


## Modules

| module | what it is | composed with |
| --- | --- | --- |
| `PathLocks` | the lock table, the writers, the sweep | |
| `AtomicTx` | what a transaction promises | |
| `TxLog` | how `transaction_apply`, the log and the attach scan do it | instantiates `AtomicTx` under a refinement mapping |
| `TxLog_proofs` | theorems about it, the refinement among them | extends `TxLog`, TLAPS |
| `ServeProxy` | the proxy and the daemon as it sees it | |
| `ServeProxy_proofs` | theorems about it | extends `ServeProxy`, TLAPS |
| `WorkspacePool` | pool, client proxies, supervisors, sessions | |
| `WorkspacePool_proofs` | theorems about it | extends `WorkspacePool`, TLAPS |
| `EditGuards` | reads, writes, edits, rollbacks and undos of one file | takes the exclusion `PathLocks` shows as given |
| `EditGuards_proofs` | theorems about it | extends `EditGuards`, TLAPS |
| `HistoryQueue` | the queue and the writer of the change history | |
| `HistoryQueue_proofs` | theorems about it, and about the types of `MCCalls` | extends `MCCalls`, `ServeProxy_proofs`, `EditGuards_proofs`, TLAPS |
| `ResumeCredentials` | credentials, connections and serve processes of one conversation | |
| `ResumeCredentials_proofs` | theorems about it | extends `ResumeCredentials`, TLAPS |
| `RpcConn` | the connection to a language server | |
| `RpcConn_proofs` | theorems about it, and about the types of `MCLinks` | extends `MCLinks`, `ResumeCredentials_proofs`, TLAPS |
| `WatchHub` | the shared OS watcher of one root | |
| `Shared_proofs` | theorems about `PathLocks` and `WatchHub` | extends `MCShared`, TLAPS |
| `MCShared`, `MCCalls`, `MCLinks`, `MCLive`, `MCTransactions` | several parts in one TLC run | extend or instantiate theirs |
| `MCPathLocks`, `MCTxLog`, `MCServeProxy`, `MCWorkspacePool`, `MCRpcConn` | constants, symmetry and constraints of one part | extend theirs |

A sum module checks parts that share no state in one run: a variable chosen in
the initial state says which part moves, and the others stay as they began. So
the states of such a run are the sum of those of its parts, not the product, and
each property speaks of its own part.

Every action has a comment with the function it stands for. An action is what
the code does between two points at which another goroutine can see or change
the state: usually one critical section, or one read or write of a file, of a
connection, of an atomic. Definitions marked `Mutant:` are plausible wrong
versions of the definition after them; no model uses them.

Some variables are not in the code and only remember: `raced` in `PathLocks`; `late` in `TxLog`;
`sent`, `raced`, `results`, `errors`, `probed` in `ServeProxy` (where `asked` stands for
the client); `shown`, `was`
and the fields `guarded`, `raced`, `late` of a call in `EditGuards`; `failures` in
`HistoryQueue`; `cut`, `heir` in `ResumeCredentials`; `noteWire`, `delivered` in `RpcConn`.

### PathLocks

A writer's call is `StartTransaction` or `StartWorkspaceEdit` (they differ in
the treatment of two spellings of one file: `transaction_apply` refuses them,
`edit_apply` locks once per file), then for each path in the order of its lock
key `LoadOrStore`, `Stamp`, `Lock`, and at the end `Release` of each. A single
file is the case of a set of one. `Age` lets the stamp of an entry in the table
grow old: between two visits of the sweep, whose "now" is read once, and also
under a writer that holds the mutex or queues behind one, since a call may be
slower than the idle time; but not between a writer's stamp and its taking of a
free mutex, which is no hour. The sweep visits one key at a time: `SweepVisit` (the stamp is old), `SweepTryLock`, `SweepRecheck`,
`SweepDelete`, `SweepUnlock`. The periods of time and the size of the table are
abstracted to the stamp being "recent" or "idle", read in one step.

`LockKey` is any function of spellings to keys (`lockPathKey` resolves
symlinks and cleans the name). Keys are numbers since callers sort by them.

| property | says |
| --- | --- |
| `MutualExclusionUnlessRaced` | two writers hold locks of one file only if the sweep deleted an entry between a `LoadOrStore` and its `Lock` |
| `MutualExclusion` | the same without the exception: **violated**, see findings |
| `NoWaitCycle` | no set of writers waits in a circle, and none for itself |
| `EveryCallEnds` | each started call ends |

### TxLog and AtomicTx

The content of a file is the set of edits it carries. A transaction adds its
name to each file it writes, so a lost edit is a missing name, and a rollback
that takes too much shows as the loss of somebody else's.

| action | code |
| --- | --- |
| `Start` | locks of the named files and phase 1, which reads them |
| `BeginDir`, `BeginManifest` | `txlog.Begin`: no log where there is no `.plumb`; else the directory, then the empty manifest, each of which may fail |
| `CheckMtime`, `RecordSnapshot`, `RecordManifest`, `Write` | one file of the write loop: its mtime check, `Record`'s snapshot (of a file under `maxSnapSize`) and manifest, each of which may fail, the rename |
| `Undo`, `Replay` | what a refusal does: restore the written files from memory, then `Rollback` from the log |
| `Gate`, `Revert`, `Restore` | `fail_on_new_errors`: the diagnostics are worse; compare with what was written; rename |
| `Remove` | `Commit` and the removal at the end of `Rollback`, by parts (manifest and each snapshot); it may stop half way where the world lets it |
| `ScanList`, `ScanCheck`, `ScanRead`, `ScanSnapshot`, `ScanRewrite`, `ScanRemove`, `ScanDone`, `Detach` | a connection attaches, lists the directory, judges each entry by its manifest and `StartedAt`, restores, removes, serves |
| `External` | another program edits a file, at any time |
| `Crash`, `PowerCut` | the daemon dies; a power cut may also take snapshots that were never synced |

The locks are those of `PathLocks`, taken in one step: what `PathLocks` shows
of them is assumed here, its race included.

The variable `world`, chosen in the initial state, is the environment: the
connections that attach, the edits other programs make, how often the daemon dies,
which files are over the 10 MiB of `maxSnapSize` (`large`), whether the workspace has
a `.plumb` (`marker`), and what else may happen (`may`, also called `Env`: scans beside
calls, a `RemoveAll` that stops half way, snapshots that are lost, logs that cannot be
written). The constant `Worlds` is the set of those considered. A property that the code keeps
only in some of them says so: `Orderly` is a world in which no scan runs beside a
call or another scan and no log is left half removed, and `Undisturbed` one in which
nothing happens but crashes at quiet points, no other program writes, and every
connection may restore every file. What goes wrong in the others is described under
findings. An undisturbed world may have large files and no `.plumb`: what a crash leaves
there is `Unrecoverable`, the exception that `AllOrNothing` names, as the comments of
`Begin` and `Record` do (`tools/txlog/txlog.go:97`, :133). `listed` holds the operations
of the manifest that have a snapshot; the manifest also names the large files, which
every replay skips.

`AtomicTx` has three steps: begin (with files no live transaction names), commit
(all edits at once), abort (any set of live transactions, for a crash). The
mapping: a transaction is live until `RemoveAll` has taken the first entry out of its
log, which is the point of no return; the data
of the abstract level are the files as recovery would leave them (`AbsData`
hides the edits of a `Pending` transaction). So `ImplementsAtomicTx` says that a
reader who waits for recovery sees whole batches, in every interleaving and
with every crash of an undisturbed world in which recovery brings every file back, and
in any undisturbed world as long as nothing crashes (`Promised`); of other worlds the
mapping is constant.

| property | says |
| --- | --- |
| `AllOrNothing` | when all is recovered a batch is in each of its files or in none, but for the files of a crashed one that are over the cap or in a workspace without `.plumb` |
| `CommittedStays` | an acknowledged batch keeps its edits in all its files; with power cuts, an edit is missing only where a replay wrote a snapshot that had lost its bytes |
| `ImplementsAtomicTx` | refinement of `AtomicTx` |
| `RefusedLeavesNothing` | a refused batch leaves no edit |
| `RevertKeepsExternal` | the gate's rollback does not write over another program's edit, unless that one falls between its check of the file and its rename (`late`) |
| `LiveNeverReplayed` | a scan never takes a live transaction for an orphan: **violated**, see findings |

Left out: rate limits, the check for unsaved buffers, notifications of language
servers, the wording of results.

### ServeProxy

Connections are numbered by the generation they are published under. `server`,
`up`, `inbox`, `outbox` are the network and the daemon, as far as the proxy can
tell: a frame written to an open connection reaches the daemon, the daemon
answers its frames in any order, what it wrote before the connection closed can
still be read. `outbox` holds what the proxy has not taken: it is on the socket, or in
the 64 KiB buffer of the daemon pump's reader (`cli/serve_proxy_frame.go:31`). So a
reconnect that closes a connection on which the pump is reading leaves `outbox` to it:
the pump may still get one frame there and handle it, whatever the generation is by
then (`cli/serve_proxy.go:321`), and drops the rest when it asks for the current reader.

| action | code |
| --- | --- |
| `ClientRead`, `ClientWrite`, `ClientTrack`, `ClientCheck` | the pump from the client: read a frame, write it to the current connection, record it in the ledger, look whether the connection went away in between |
| `DaemonLoop`, `DaemonFrame`, `DaemonEOF`, `DaemonResolve`, `DaemonForward` | the pump from the daemon: read under the current generation, or from what is buffered of one that was closed meanwhile; take the request out of the ledger, forward |
| `HeartCapture`, `HeartPing`, `HeartPong`, `HeartTimeout` | the heartbeat, which kills a daemon that does not answer |
| `ReconnectSkip`, `ReconnectBegin` | enter `reconnectMu`; somebody else was faster, or begin |
| `ReconnectDial`, `ReconnectFail`, `ReconnectAwait`, `ReconnectPublish`, `ReconnectSweep`, `ReconnectSettle` | dial and replay the handshake, with the attempts of the fast phase and the failing of all outstanding requests after it; wait for the answer; publish; fail the requests of older generations; forward the answer of initialize if it is the first |
| `Answer`, `Crash`, `Drop`, `Hang`, `Spawn` | the daemon |

The code answers twice in three orders of its goroutines. None is excluded: `raced`
remembers the request, and `AnsweredOnceUnlessRaced` excepts it.

| how a request comes into `raced` | where |
| --- | --- |
| its answer is handled before it is in the ledger: `DaemonResolve` finds nothing, `ClientTrack` then adds an entry that the next reconnect fails | `cli/serve_proxy_outstanding.go:64`, whose comment (:48) says that the client gets exactly one response either way |
| its answer is in the daemon pump's hands, or in its reader's buffer, when another actor sweeps, or when a reconnect forwards the answer of initialize (`OnItsWay`) | `cli/serve_proxy.go:397`, `cli/serve_proxy_frame.go:31` |
| it is initialize, and is written again: the first write failed, or the connection was lost before it, and the reconnect replayed it | `cli/serve_proxy.go:302`, against `cli/serve_proxy_handshake.go:96` |

`Races` names two orders of events that a run may exclude. Each alone breaks a
property, and the code has both:

| race | breaks | where |
| --- | --- | --- |
| `latePid` | `KillsOnlyProbed` | the daemon dies between the publication and the read of its PID file (`cli/serve_proxy.go:482`) |
| `hungDial` | `EveryRequestAnswered` | the daemon hangs inside a reconnect: only the heartbeat would kill it, and it waits for the same mutex (`cli/serve_proxy.go:453`) |

| property | says |
| --- | --- |
| `AnsweredOnceUnlessRaced` | at most one answer, error or not, to a request that is not in `raced` |
| `AnsweredOnce` | the same of every call, as the comment says; no run checks it, and it is violated, see findings |
| `NothingForgotten` | a request that reached a daemon and was not answered is in the ledger or in the hands of one of the pumps, and one of a connection that was replaced is about to be swept |
| `ErrorIsFinal` | a request the client was told is lost is never written to a daemon again |
| `ErrorOnlyForDead` | the sweep spares requests written to the connection in use |
| `KillsOnlyProbed` | the heartbeat kills the daemon its ping went to |
| `EveryRequestAnswered` | each request gets an answer |

### WorkspacePool

`p.mu` makes one step of a critical section, with one exception. A teardown
clears the client under the lock, then looks at the calls in progress; `begin`
counts a call without the lock and then reads the client. So a teardown is two
steps: the client is dropped (`Reap`, `Hibernate`, `AdmitVictim`, each by
`DropClient`), then `Decide` looks, with `lock` held between them. A call is
counted by `Call`, `Reuse` or `Start` and reads the client in `Begin` or
`GetClient`. That the order is right (clear, then look; count, then read) is what
`CallKeepsServer` is about.

| action | code |
| --- | --- |
| `Attach`, `Detach`, `Unborrow`, `Gone` | a session pins a workspace; on its close it gives back its pin, by key, and each borrowed entry; it has gone |
| `Call`, `Begin`, `Borrow`, `GetClient`, `EndCall`, `CheckHeld` | a routed call: the primary's client under a lease if it has one, else an acquire and a borrow; the client of what was acquired; the end, which asks for the reap timer after the last lease |
| `Refuse`, `Reuse`, `Admit`, `AdmitVictim`, `Start` | `acquire`: the language is turned off; the entry is handed back; an entry is missing or hibernated, room is made under the cap, and it is built or woken and started |
| `ReadyErr`, `ReadyOrLater`, `Drain` | who reads the outcome of a first start: the caller that waits, or the goroutine it leaves behind |
| `Fire`, `Reap`, `ScheduleIdleReap`, `Hibernate`, `TrimLongHibernated` | the grace timer, the reap it leads to, the janitor |
| `Decide`, `StopToHibernate`, `FinishHibernate`, `StopToClose` | the end of a teardown |
| `HandshakeFails`, `Publish`, `MarkActive`, `Exit` | the supervisor's loop |

| property | says |
| --- | --- |
| `CallKeepsServer` | the server a call uses is the last one started and is not being stopped, unless its start was reported failed |
| `LeasesCounted` | `refs` is the number of sessions that pin, borrow or are about to pin the entry, unless an entry of the same key failed while leased (then `pool_pin` applies) |
| `FailureHasReader` | the error of a failed start has somebody who will read it |
| `ActiveIsPublished` | an active entry outside a teardown has its client published |
| `HibernatedIsStopped` | a hibernated entry's supervisor has stopped, so that a wake can start it |
| `EvictionIsDeserved` | an entry that leaves the map had no lease and no call, or its supervisor's loop had ended |
| `PinKeepsLease` | a session's lease is on the entry it pinned: **violated**, see findings |
| `IdleServersStop` | when the sessions have gone, every server stops and every entry leaves |

`Races` holds two orders that break properties, both in the code, both needing a
slow goroutine: `latePublish` (a handshake ends inside or after a teardown and
publishes the client of a server about to be stopped, `cli/pool.go:557`; breaks
`CallKeepsServer` and `ActiveIsPublished`, against the comment at
`cli/proxy.go:60`) and `lateDrain` (the reader of a failure acts after its entry
was hibernated and woken, `cli/pool_lifecycle.go:109`; breaks
`EvictionIsDeserved`).

Every key is of one language, so that the cap covers all of them. Left out so
far: restarts after a crash, watchers and resync, reconfiguration, re-pins,
modes of diagnostics, pruning of state directories, fan-out, closing the pool.

### EditGuards

One file, several sessions, and programs that ask nobody. A call holds the path
lock from its guard to its last record: `BeginWrite`, `BeginEdit` and `BeginUndo`
start only when every session is idle. A read takes no lock, and neither does
another program. A text is a number and stands for content and for its hash; a
version is a text and an mtime, and the clock of the file system ticks rarely,
so two texts may have one mtime.

| action | code |
| --- | --- |
| `BeginWrite`, `Capture` | `write_file`: the guard `ChangedSinceSessionRead` unless `overwrite_changed` is set; the text before the write |
| `BeginEdit`, `EditRead`, `EditStat`, `Detect`, `Retry` | `edit_file`: the read, the stat before the write, the look after it, up to `MaxTries` attempts |
| `Stage`, `Publish` | `safeWrite`: the staged file with its hash and mtime, the rename |
| `Record`, `Diagnose` | `recordWritten` and `recordUndo`; the answer, or the rollback for new errors |
| `BeginUndo`, `Take` | `undo_edit`, and the removal of the undo entry by an undo or a rollback |
| `ReadSnapshot`, `ReadRecord` | `read_file`: one descriptor is read and hashed; the record is made later |
| `OtherProgram`, `Tick`, `Restart` | a write, a restored old text or a removal by another program; the clock; the daemon dies and the sessions resume with the reads the store kept |

| property | says |
| --- | --- |
| `OverwritesOnlySeen` | a guarded write destroys only what its session was shown or wrote, unless another program writes between guard and rename |
| `EditsAreNotLost` | an edit replaces the text it was made from, unless a change came that its two looks cannot see |
| `UndoIsInverse` | an undo without force finds a text of its session and puts back what that one replaced |
| `RollbackKeepsOthers` | so does a rollback: it never takes out what another program wrote |

Each names the window the code leaves open (`raced`, `late`): a rename cannot
compare and swap.

Left out: strict mode, which compares mtimes only; the tokens `expected_mtime` and
`expected_sha`; the guard for unsaved buffers; `apply_partial`; the eviction of
undo entries; programs that rewrite the file in place, which `readSnapshot`
catches by reading again.

### HistoryQueue

| action | code |
| --- | --- |
| `Enqueue` | the channel, else the overflow list as a marker, else the drop count; one critical section |
| `Receive`, `FlushTick`, `SyncReceive`, `SyncReply`, `LastFlush` | the writer's select; a flush takes channel and overflow list together |
| `Begin`, `BeginFails`, `TakeCounts`, `Insert`, `PersistMeta`, `Commit`, `CommitFails`, `ReleaseBytes` | `writeBatch`, each database operation of which may fail |
| `SyncCall`, `SyncAfterDone`, `SyncGivesUp` | `Sync` |
| `CloseCall`, `CloseDeadline`, `CloseEnd` | `Close`: drain, then markers only, then leave the database to the writer |

| property | says |
| --- | --- |
| `NoLossUncounted` | every item lost and every failed insert is counted, in meta or where the next batch finds it |
| `HistoryInOrder` | rows are in the order of the `Enqueue` calls; a `Sync` that returned left nothing older in a queue; a writer that ended left nothing |

The converse of `NoLossUncounted`, that a loss is counted only once, does not
hold in the code: see findings. An item's content weighs one byte. Left out: the
rendering of diffs, revert links, pruning, the reading side, the text of the
last error, and the death of the daemon, which takes the queue with it.

### ResumeCredentials

A serve process that starts in a conversation presents the credential its
predecessor stored, and takes over the predecessor's session ID. One
conversation is modelled, with the table of its credentials, the connections
that may hold them, and the stored entry. Each call of the store is one step.

| action | code |
| --- | --- |
| `Initialize`, `Converge`, `Disclose` | `restoreIdentity`, its retry, the minted credential on its way to the proxy |
| `SessionStart`, `Lookup`, `ClaimIt`, `Lost`, `Adopt`, `Persist`, `Issue`, `ReleaseClaim`, `Relink`, `Reply` | a `session_start` that presents: look up, claim by one conditional update, take the ID unless a live session has it, persist, mint the successor, or give the claim back |
| `BreakOff`, `Detach`, `Exit`, `MovesOn`, `DaemonDies` | a connection is lost and its call goes on; it detaches; the serve process ends; the client changes its conversation; a crash |

| property | says |
| --- | --- |
| `OneClaimant` | one credential is claimed by one connection at a time, whatever others have looked up |
| `OneHolder` | no two live connections answer to one session ID |
| `ConsumedForSuccessor` | a credential is used up only for a newer one, of its own row or issued to its claimant, unless a crash or a failed release cut its claimant off, or the release of an older one of its row left it behind |

The ghosts `heir` and `cut` record the successor of a credential and the exceptions.
The last exception was found with 4 connections, where the property without it is
false; `OvertakenStays` states the comment it contradicts and no run checks it (see
[Findings](#findings)). `mishaps` bounds crashes and failing writes together. Left out: other
conversations, stamps and proofs, namespaces, the eviction of stored entries, and
the count of failures of unknown presentations. The whole initialize exchange is
one step, and the restore of the name is part of `Persist`.

### RpcConn

Each frame is written by a goroutine of its own under `wrMu` while its sender
waits in `sendCtx`; `wire` says how far each frame is. Time is left out: the
stall timer and the end of a context may come at any moment.

| action | code |
| --- | --- |
| `WriteBegin`, `WriteEnd` | the goroutine of a frame; the server drains it or has gone |
| `CallBegin`, `CallSent`, `CallReturns`, `CallCancelled`, `CtxEnds` | `Call`: register and send; the select; `cancelRequest` |
| `NotifyBegin`, `NotifyEnd` | `Notify` |
| `ReadReply`, `ReadDiag`, `ReadAsk`, `ReadEof`, `Deliver` | `readLoop`, `dispatch`, `notifyLoop` with its bounded queue |
| `ResponseStalls`, `Close` | an answer to the server that stalls; the close |
| `ServerReplies`, `ServerNotifies`, `ServerAsks`, `ServerExits` | the language server |

| property | says |
| --- | --- |
| `CancelFollowsRequest` | a cancel follows its request, and a call given up after its request was written has sent one |
| `MessagesInOrder` (`DeliveredInOrder`, `AckedInOrder`) | notifications of the server are handled in order and none is lost; one whose `Notify` returned nil precedes every later one |
| `CallsEnd` | a call returns once its context ends, the server replied or the connection closed |
| `ResultIsReply` | a result is the server's answer: **violated**, see findings |

### WatchHub

One root with one set of options. The map, a sharedWatch and its subscribers
change under `h.mu` and `sw.mu`, one step per critical section; the watcher is
opened and closed outside of them.

| action | code |
| --- | --- |
| `Subscribe`, `Look`, `Open`, `OpenFails`, `OpenError`, `Ready`, `Join`, `JoinRefused` | `Subscribe`: find or make the shared watch, open it, join it or start over |
| `Unsubscribe`, `CloseWatcher`, `FanOutDone` | `Close`, by the last subscriber or by a joiner that came too late |
| `Blind`, `FanOutFailed`, `FanOutTell`, `FanOutEnd` | the OS watcher fails; `fanOut` tells the subscribers; it ends |

| property | says |
| --- | --- |
| `SubscribersShare` | a subscriber's watcher is open, and of two with subscribers one has failed |
| `NoWatcherLeaks` | an open watcher has a subscriber or somebody on the way to join or close it |
| `FailureReachesAll` | `Failed` reaches every subscription, one that joins meanwhile included |

Left out: events, their buffers and `Lost`, private subscriptions, OS backends.


## Runs

| run | module and cfg | instance | states | what it shows |
| --- | --- | --- | --- | --- |
| `shared` | `MCShared` | 2 writers, 3 spellings of 2 files, 4 entries; 3 consumers of one root | 739k | exclusion and ordered acquisition of path locks; the shared watcher |
| `live` | `MCLive` | 2 writers, 2 spellings of one file, 4 entries; 1 call, 1 request of the server, 2 diagnostics | 244k | calls that lock and calls to a language server end |
| `pathlocks_race` | `MCPathLocks`, `MCPathLocksRace.cfg` | 2 writers, 2 files, 4 entries | | finding |
| `transactions` | `MCTransactions` | 2 transactions, 2 files; 2 connections and 2 crashes, or 1 connection and 1 crash with failing logs, with a large file, without `.plumb`, or with 1 external edit and power cuts | 2.2M | atomicity, recovery and refinement; refusals, power cuts, external edits |
| `txlog_live_replay` | `MCTxLog`, `MCTxLogLiveReplay.cfg` | 1 transaction, 2 connections that may overlap | | finding |
| `calls` | `MCCalls` | initialize and 2 calls, 3 generations, 2 daemons, 1 attempt; 2 sessions, 3 texts, 2 ticks, 1 write of another program, 2 tries, under `Small`; 3 items, a channel and an overflow list of 1, batches of 2, 2 faults | 2.0M | safety of the proxy, of edits, and of the history |
| `serve_proxy_live` | `MCServeProxy`, `MCServeProxyLive.cfg` | initialize and 1 call | 298k | every request is answered |
| `links` | `MCLinks` | 3 serve processes, 3 connections, 4 credentials, 1 mishap; 1 call, 1 request of the server, 2 notifications each way, under `Small` | 864k | resume; the order of messages to and from a language server |
| `pool` | `MCWorkspacePool` | 2 sessions, 2 keys, 2 entries, 3 starts, cap of 1, under `Small` | 1.7M | safety of shared entries, admission |
| `pool_live` | `MCWorkspacePool`, `MCWorkspacePoolLive.cfg` | 2 sessions, 1 key, 1 entry, 2 starts | 54k | idle servers stop |
| `pool_pin` | `MCWorkspacePool`, `MCWorkspacePoolPin.cfg` | 2 sessions, 1 key | | finding |
| `rpc_ids` | `MCRpcConn`, `MCRpcIds.cfg` | 2 calls, 1 request of the server | | finding |

States are distinct ones, modulo symmetry where the cfg states it: of entries,
consumers, transactions, files, calls, sessions, serve processes and keys,
none of which is ordered or singled out by a module. No run that checks liveness
uses symmetry. The mapping of the refinement has a CHOOSE, but of the one value
that satisfies its condition.

Why the bounds are enough to meet the interesting cases:

- *Two writers, three spellings of two files.* A wait cycle needs two calls with
  two files in opposite orders; a self-deadlock needs two spellings of one file;
  a race with the sweep needs one loaded entry and one that replaces it. An entry
  is allocated afresh when a key is missing, from those nobody refers to.
- *Three consumers of a root.* One has failed beside, one opens the replacement, the
  third joins either; three addresses for the watches they hold.
- *Two transactions, two files, two crashes.* A batch is partial with two files.
  The second crash falls into the recovery from the first; the second
  transaction is what a wrong replay would damage. Two connections take turns at
  the scan. In the worlds with a large file or without `.plumb` one crash leaves a
  batch in part; they are checked without a crash too, where they refine `AtomicTx`.
- *Three generations.* The first is lost, the second is lost while the reconnect
  that published it still sweeps, the third serves. A bound on generations means
  that the daemon does not fail after the last, so that liveness is about a
  daemon that stays up at some point; the case that it stays away is in
  `ReconnectFail`, which fails what is outstanding.
- *Two sessions and three texts of one file.* The text at the start, and two more: a
  write and a second one by the other session, another program or the rollback,
  with one tick, so that equal mtimes and different ones both occur. `Small` of
  `MCCalls` lets two sessions work beside two of the three (a write of another
  program, the tick, the third text), and one session beside all of them.
- *Three items, queues of one.* One in the channel, one on the overflow list, one
  dropped; or two in a batch and one behind it. Two faults: one in a batch and
  one where its losses are counted.
- *Three serve processes.* A predecessor and two that present its credential;
  three connections, of which one may be left behind by the next of its process.
  A fourth, with which a release can leave a newer credential behind, is too much for
  the run; `UsedForASuccessor` holds for any number.
  `Small` of `MCLinks` ends a run that has both a mishap and a third connection:
  a death of the daemon ends the connections before it, and a write that fails
  takes a predecessor and one claimant. It also ends a run in which the language
  server and its client have both begun their last notification.
- *Two sessions, two keys, one cap.* Every shared decision of an entry (refs,
  in-flight calls, the primary) has two parties; two entries let the second
  replace the first; a start more than there are entries lets a wake or a
  replacement happen. Both sessions over both keys would be too many states, so
  the constraint `Small` lets either one session work over both keys with all
  starts (admission, whose opponents are the janitor and the timers), or both
  over one key with two starts.
- *One call to a language server.* Calls do not meet except at `wrMu`, which the
  notifications share; `rpc_ids` has two.

Runs check for deadlock except `calls`, `links`, `live` and `rpc_ids`,
where the system may stop: requests answered and bounds used up, a call that
hangs in a write to a server that owes nothing, a `Sync` that has returned.

Each property of a passing run has a mutant in `PROJECT.json`: a wrong version
of one definition (a missing guard, a swapped order, a forgotten reset) under
which that run finds the property violated.


## Fairness

- `PathLocks`: weak for the steps of a started call and for a sweep's visit, which
  are straight-line code; strong for `Lock`. A Go mutex hands itself to a waiter
  that has starved for a millisecond, so a waiter among finitely many gets it.
  Nobody has to start a call.
- `ServeProxy`: weak for the pumps and the heartbeat. Strong for entering
  `reconnectMu`, as above; for a dial, which the code repeats without end; and
  for an answer of a daemon that neither hangs nor dies. The client need not ask
  and the daemon need not fail.
- `WorkspacePool`: weak or strong for each goroutine's own steps, strong where the
  step needs `p.mu`. Timers fire in the end. Nobody has to attach or to call.
  A handshake that hangs ends only when its supervisor was stopped.
- `RpcConn`: weak for a call that has begun, whose waits the stall timer bounds,
  and for the read loop and the notify loop. A write may hang for ever, and the
  server owes nothing.
- `TxLog` has no liveness property. Recovery happens when somebody attaches, and
  nobody must. `EditGuards`, `HistoryQueue`, `ResumeCredentials` and `WatchHub` have
  none either: their calls are straight-line code.


## What is proved

With TLAPS, for all values of the constants that satisfy the named assumptions:

| theorem | of | rests on |
| --- | --- | --- |
| `TypeCorrect` | `PathLocks!TypeOK` | `KeyAssumption`, `OwnerAssumption` |
| `ExclusionUnlessRaced` | `MutualExclusionUnlessRaced` | the same |
| `HeldStays` | `HeldNeverEvicted` | the same |
| `NoCircle` | `NoWaitCycle` | the same; `Writers` finite |
| `TypeCorrect` | `TxLog!TypeOK` | `TxAssumption` |
| `Atomicity` | `AllOrNothing` | the same |
| `CommitsStay` | `CommittedStays` | the same |
| `RefusalsLeaveNothing` | `RefusedLeavesNothing` | the same |
| `RevertsKeep` | `RevertKeepsExternal` | the same |
| `Implements` | `ImplementsAtomicTx` | the same |
| `TypeCorrect` | `ServeProxy!TypeOK` | `RacesAssumption`, `BoundsAssumption` |
| `NothingIsForgotten` | `NothingForgotten` | the same; any `Races` |
| `ErrorsAreFinal` | `ErrorIsFinal` | the same; any `Races` |
| `ErrorsOnlyForDead` | `ErrorOnlyForDead` | the same; any `Races` |
| `OneAnswer` | `AnsweredOnceUnlessRaced` | the same; any `Races` |
| `VerdictsHitTheProbed` | `KillsOnlyProbed` | the same; `"latePid" \notin Races` |
| `TypeCorrect` | `WorkspacePool!TypeOK` | `BoundsAssumption`, `EntriesAssumption` |
| `WakesCanStart` | `HibernatedIsStopped` | the same; any `Races` |
| `CallsKeepServers` | `CallKeepsServer` | the same; `"latePublish" \notin Races` |
| `ClientsComeBack` | `ActiveIsPublished` | the same; `"latePublish" \notin Races` |
| `FailuresAreRead` | `FailureHasReader` | the same; any `Races` |
| `EvictionsAreDeserved` | `EvictionIsDeserved` | the same; `"lateDrain" \notin Races` |
| `LeasesAreCounted` | `LeasesCounted` | the same, `SessionsAssumption`; any `Races` |
| `EditTypeCorrect` | `EditGuards!EditTypeOK` | `EditAssumption` |
| `OverwriteGuard` | `OverwritesOnlySeen` | the same |
| `EditsKept` | `EditsAreNotLost` | the same |
| `UndoTakesBackOne` | `UndoIsInverse` | the same |
| `RollbackTakesBackOwn` | `RollbackKeepsOthers` | the same |
| `HubTypeCorrect` | `WatchHub!HubTypeOK` | `HubAssumption` |
| `Sharing` | `SubscribersShare` | the same |
| `NoLeak` | `NoWatcherLeaks` | the same |
| `FailuresReach` | `FailureReachesAll` | the same |
| `SharedTypeCorrect` | `MCShared!SharedTypeOK` | those of `PathLocks` and `WatchHub` |
| `ResumeTypeCorrect` | `ResumeCredentials!ResumeTypeOK` | `ResumeAssumption` |
| `HolderIsOne` | `OneHolder` | the same |
| `ClaimantIsOne` | `OneClaimant` | the same |
| `UsedForASuccessor` | `ConsumedForSuccessor` | the same |
| `RpcTypeCorrect` | `RpcConn!RpcTypeOK` | `RpcAssumption` |
| `CancelsFollow` | `CancelFollowsRequest` | the same |
| `MessagesKeepOrder` | `MessagesInOrder` | the same |
| `LinksTypeCorrect` | `MCLinks!LinksTypeOK` | `ResumeAssumption`, `RpcAssumption` |
| `HistoryTypeCorrect` | `HistoryQueue!HistoryTypeOK` | `HistoryAssumption` |
| `LossIsCounted` | `NoLossUncounted` | the same |
| `HistoryKeepsOrder` | `HistoryInOrder` | the same |
| `CallsTypeCorrect` | `MCCalls!CallsTypeOK` | those of `ServeProxy`, `EditGuards` and `HistoryQueue`; any `Races` |

**PathLocks.** Mutual exclusion is not inductive: that two writers hold different
mutexes of one key must be excluded by what the table was when each loaded its
entry. `IInv` adds that without a race what a writer has loaded is still the
table's entry of that key (`TableInv`); that a holder owns the mutex, and holds
distinct ones for distinct paths (`HolderInv`); that a writer waits for one path
at a time, and an idle one has nothing in hand (`LoadedInv`); that the sweep owns
the mutex from its try-lock on, and the entry it visits stays in the table until
it deletes it (`SweepInv`). Then two holders of one key hold one mutex, which
has one owner. The same invariant gives `HeldNeverEvicted`: at the delete the
sweep owns the mutex, so no writer does. Only `TypeOK` is inductive by itself.
That nobody waits in a circle does not need `~ raced`: an entry somebody has, in the
table or in hand, has one key (`KeyedInv`), although the key may have two entries; who
owns a mutex has it on its list of unlocks (`OwnedInv`); and what a writer waits for has
a greater key than all it holds, for it locks a least pending key and names no key twice
(`OrderInv`). So the owner of what the writer waits for that waits for the greatest key
waits for nobody in the set, and such a writer exists among finitely many
(`GreatestExists`, by the library's well-founded induction).

**TxLog.** The theorems hold for every set of transactions, files, connections and
worlds; what a property asks of the world is a hypothesis inside it, and the layers
of `IInv` ask no more. In any world the control point of a call tells what it has
written and a dead call is older than the run (`PlacedInv`, `ProgressInv`, `DateInv`,
`OwnInv`). In an orderly world a scan settles every directory before a call starts
(`ScanInv`), so whoever is not settled, alive or dead with its log on disk, names
files nobody else of them names (`DisjointInv`), and the file of a call holds what
phase 1 read, its own edit if it is written, and otherwise only edits of other
programs (`LiveInv`). That is what makes the two halves of the promise inductive:
an acknowledged edit is in its files and in every `before` that a rollback or replay
may still put back (`CommitInv`); a refused one is in neither (`RefuseInv`). In an
undisturbed world with a `.plumb`, finally, the log lists a file under the cap with its
snapshot before the file is written (`LogInv`), so that such a file that a dead call
changed is one its log restores and that a scan at work on the log has not passed
(`DeadInv`). `AllOrNothing` follows at rest from `CommitInv` and `RefuseInv`.
`RevertKeepsExternal` needs that whoever restores a file found its own text there
(`LiveInv`), and that an edit made since is in `late`.

`Implements` maps each step to one of `AtomicTx`: `Start` begins, the removal of the
first entry of a log commits, the end of the removal of a refused call's log aborts, so
does the scan's removal of an orphan, and a crash aborts all calls that have no log
directory yet. Every other step is a stutter: by `DisjointInv` at most one call is
pending on a file, so the `CHOOSE` in `AbsData` has one candidate (`AbsDataIs`), and a
call that is no longer pending without having committed has put back what it found
(`DeadInv` for a scan, `LiveInv` for a rollback).

**ServeProxy.** `NothingForgotten` needs to know why the pump's last look
(`ClientCheck`) is sound. `IInv` adds: who is inside the reconnect came from its own loop, and until it
publishes there is no connection (`InsideReconnect`); a request that was not
written is unknown to daemons and to the ledger (`UnsentIsUnknown`); what the
client pump holds between its write and its record (`FrameInPump`); a ledger
entry names the only connection its request was written to (`LedgerIsTrue`);
after the sweep of a reconnect only a late record is older than the connection,
and the pump's last look is still to come (`SweptBeforeSettle`). The proofs have one lemma per action; the two pumps and
the owner of the reconnect disturb different conjuncts, and the case that matters
is a sweep between `ClientWrite` and `ClientTrack`.

`AnsweredOnceUnlessRaced` needs to know where answers can come from. `AnswerInv` says
that one waits on the connection in use, is that of the initialize a reconnect replays,
or is in the buffer of the daemon pump, which still reads from a connection that was
given up (`PendingInv`); and that the pump reads a generation that was published, and
has what it took in its hands (`HandInv`). A call whose answer waits, or is in hand,
was written to the one connection it waits on and has neither answer nor error; one
that has either is out of the ledger for good (`CallsInv`). A sweep therefore finds
calls of a connection that was given up, whose answer can only be with the pump, and
those it puts into `raced` (`SweepsTheUnanswered`). Initialize is the exception, for a
reconnect replays it: `answered` decides who forwards its answer, and until it is set
no second one is in sight (`HelloInv`). Both are stated of requests that are not in
`raced`, which only grows (`RacedGrows`). `KillsOnlyProbed` rests on
`ProbeInv`: while the heartbeat waits on the generation it read before its ping, the
PID the proxy has is the pinged daemon's or an older one, and between a publication
and the read of the PID file the pinged daemon is the one that runs.

**WorkspacePool.** Not even `TypeOK` is inductive: that a teardown's entry, the
entry of a call or the number of a start is one needs to know who may be where.
`Base` says so, and holds whatever races occur: who admits holds `p.mu` and has a
start left, and a teardown is in the hands of whoever holds it (`LockInv`); what
the teardown began on is still so when it decides (`TearInv`); the hibernated
entry an acquire found stays hibernated until it is woken (`AdmitInv`); an entry's
state agrees with its hibernation and its supervisor (`StateInv`); a call that is
past its acquire has an entry (`CallInv`). `ClientInv` then says of every client
that somebody can reach, be it published, dropped by a teardown or in a call's
hands, that it is the one of a server that runs and is not being stopped. It
carries the argument of `begin`: a call counts before it reads and a teardown
clears before it looks, so when the look finds nobody, there is no client left
in the proxy nor in any call's hands, and when it finds somebody the client it
gives back is still good. `PubInv` is the converse: the client of a running
server is published or in a teardown's hands. Both need that no handshake ends
inside a teardown, which is what `latePublish` lets happen.

The other three are about the map. `MapBase` adds to `Base`, whatever races occur, that an
entry is in the map under its own key (`KeyInv`), that one in the map was never
closed (`MapInv`), and that what a teardown began on is so until it decides: the entry
of a reap is leased by nobody, that of any other teardown is in the map (`TearMap`).
So an entry leaves the map in two ways, by a reap, without a lease and without a
call, or by a failure.
`FailureHasReader` then follows from its own generalisation to a first start under
way (`ReaderInv`): the call that waits for it reads the outcome, and one that gives up
leaves a goroutine to do so before it goes. `EvictionIsDeserved` needs that a failure not
yet acted on is that of the entry's last start, whose loop has ended, and that who
wakes an entry has found none (`ErrInv`); that is the order `lateDrain` gives up.
`LeasesCounted` needs to know that a lease is given back to the entry it was taken
on: a session pins a key, and `release` looks the entry up. Unless leases of the key
were lost by a failure, which is the exception in the property and the finding
`pool_pin`, the key a session pins has an entry and the one it is about to pin is that
entry (`PinInv`): by `TearMap` no reap takes away an entry with leases. Each step
then adds a session to, or takes one from, one of the three sets counted, or moves it
from the ones about to pin to the ones that do.

**EditGuards.** `OverwritesOnlySeen` is about the instant of the rename, long after
the guard. Its invariant says that a session's record holds a text it was shown
or wrote itself, that a guarded write which no program has raced finds such a
text from its guard to its rename, and that only one call is underway.
`EditsAreNotLost` needs that the text an edit was made from is the file's until
the rename, unless a change came that is marked `late`; before the second stat,
that an unchanged mtime means so.
`UndoIsInverse` and `RollbackKeepsOthers` relate a step to what an earlier one replaced
(`was`). `InverseInv` carries it from the write to the undo: a text is drawn before
it is published and by one call only (`StagedIsDrawn`, `FreshTexts`, `PublishesNew`),
so what is known of its replacement is set once; a write that was not raced has
its base in hand from the guard to the record (`CallInverse`), and so an undo entry
holds the pair (`UndoIsSound`).

**WatchHub.** A subscriber's watcher could only close under it if somebody closed a
watch that others can still join. `IInv` says why nobody does: whoever is about to
close a watch, or waits for its end, has found it without subscribers and out of
the map, and joins go to the watch of the map alone (`Closing`). That rests on who
holds what: a subscription is a consumer that is "in" and its watch is open
(`Holding`); until a watch is open its one opener is the only one that can fail it,
and only while it is in the map (`Opening`). A watch with subscribers leaves the
map by failing (`Replaced`), so two watchers with subscribers mean a failed one;
`fanOut` ends after the close (`FanOut`), so that a goroutine that lets go of a watch
after waiting for the end leaves none open.

**ResumeCredentials.** That two calls cannot have one credential claimed needs
that a claimed credential is not current (`ClaimedUsed`): then the conditional
update of a second claim finds nothing, and the only step that makes a used
credential current again is the release by its one claimant. A mint makes a
credential current as well, which nobody can have claimed, for every secret a
connection knows is one minted before (`Within`). A connection takes a session ID
that no live connection has (the guards of `Adopt`, `Initialize` and `Converge`),
or its own number, which no ID drawn before can equal. `Within` also says
that a connection's row has a session and that a claim names the session it is
to become, without which the IDs would not be of their type. Each action is
one step of one connection (`Stepped`), or some connections end (`Fewer`); the
table changes by a mint (`TableMints`) or within its rows (`TableKept`). That the
generation of a mint is one (`Top`) rests on the library's well-founded
induction on the naturals.

`ConsumedForSuccessor` is kept by the generations (`UInv`). Those of one row differ
(`OneEach`), and nothing is past the current one of its row but what is in `cut`
(`NewestServes`): so when a release finds the row taken, the credential it keeps is
overtaken. A claimant knows the generation it used up (`KnowsConsumed`), and
`IssueResumeSuccessor` mints past it whatever row it mints in, so a successor is newer
(`HeirsNewer`). A mint prunes of each row all but the newest that is not current
(`MintLeaves`): a used credential that stays has nothing past it but the current one,
which stays too, or the new one. The proof attempt is what showed the exception of the
release: the invariant without it is not inductive, and TLC reached the state in
which it fails.

**RpcConn.** `RpcInv` says of a call where its two frames are: no request before the
call begins, no cancel before it was given up, and a request that was written
while the call waits for its answer (`CallPhase`). So a cancel is only sent
behind a written request, and since a frame once written stays so, no later
step of another goroutine can turn the order round. Notifications of the client
are numbered as they begin and acknowledged only when written, and no frame on
the wire has a number that was not given yet (`NotePhase`): an acknowledged one
therefore precedes every one written after it. For the other direction, what is
between the server and `readLoop` is later than everything read, and in order
(`OnTheWay`); then what was handled and what is queued are the first
notifications the server sent, with none missing.

**HistoryQueue.** `NoLossUncounted` compares sums over queues that a step moves items
between, so it needs to know which parts are empty when: outside a transaction
there are no rows and no tally, a commit finds every item of the batch decided,
and a writer between two batches has none in hand (`Phase`). Each action then
takes from one part of `Held` what it adds to another part or to a count.
`HistoryInOrder` speaks of the rows alone; what makes it inductive is the whole
line (`InLine`): each of the rows, the transaction, the rest of the batch, the
items collected, the channel and the overflow list is increasing, and precedes all
that come behind it. The step that would break it is an item that reaches the
channel while older ones wait on the overflow list, which is why `Fits` asks for
an empty one. `SyncPhase` adds that while a `Sync` waits, what it waits for is in the
batch being written or further, and that a writer about to end has nothing
behind it because the history is closed.
The type invariant speaks of more than types: `queuedBytes` is what the items in the
channel, the batch and the hands of `writeBatch` weigh. `Caps` makes this inductive by
adding that the overflow list holds markers only, so that a flush moves no byte
into the count, and the deferred release takes off just what its batch weighs and never
stops at zero. How far the counts go is bounded by `Budget`: a loss is counted once
where it happened, and once more for each batch some of whose `persistMeta`
statements failed, because then all its counts go back while some were written;
there are no more such batches than faults.

**Several parts.** `SharedTypeOK`, `LinksTypeOK` and `CallsTypeOK` follow from what is
proved of the parts: a step of the sum is one of each part, or leaves it alone.

Only model-checked: the liveness properties `EveryCallEnds`, `EveryRequestAnswered`,
`CallsEnd` and `IdleServersStop` (TLAPS has no rules for ENABLED, so fairness cannot
be used). Every other property of a passing run is a theorem.


## Findings

Four runs end in a violation; `PROJECT.json` quotes the sentence each
contradicts.

1. `pathlocks_race`: the sweep deletes an entry between a writer's `LoadOrStore`
   and its stamp (`tools/file_write_helpers.go:149`). The next writer of the file
   gets a new mutex, and both write. It takes a file idle for the sweep's period
   that is written at that very moment.
2. `txlog_live_replay`: `Begin` makes the directory before its manifest; a scan
   that looks in between takes it for an orphan without a manifest, then reads
   the manifest that has appeared and rolls a live transaction back
   (`tools/txlog/scan.go:65`).
3. `pool_pin`: `release` finds the entry by key (`cli/pool_lease.go:134`). A
   session whose entry failed and was replaced gives back the lease somebody else
   holds on the replacement.
4. `rpc_ids`: `dispatch` looks the id of a message up before it looks for a method
   (`lsp/jsonrpc/conn.go:458`). A server's request that bears the id of a pending
   call is taken for its answer: the call returns an empty result without error,
   and the request stays unanswered.

More disagreements met while modelling are not runs of their own. Each can be
seen by changing constants in a cfg:

| to see | change | property |
| --- | --- | --- |
| two scans of one orphan: the slower overwrites an acknowledged edit (`tools/txlog/txlog.go:241`, against `txlog.go:15`) | a world with `may = {"overlap"}` and one crash, 1 file | `OrphanReplayKeepsCommitted` |
| a scan skips a file its session may not write and removes the log (`tools/txlog/scan.go:72`, against `scan.go:21`) | `Allowed <- OneGrant` of `MCTxLog` | `AllOrNothing` without `Undisturbed` |
| a crash inside the removal of a log: what is left is replayed (`tools/txlog/txlog.go:164`) | a world with `may = {"removeStops"}` and one crash | `AllOrNothing` without `Undisturbed` |
| a crash leaves an edit in a file over 10 MiB, or in any file where there is no `.plumb`, and not in the others (`tools/txlog/txlog.go:151`, :107, as the comments there say; `README.md:28` does not) | `MCTransactions.cfg` as it is | `AllOrNothing` without `Unrecoverable` |
| the proxy answers a call twice (`cli/serve_proxy_outstanding.go:64`, :76, against :48, "the client gets exactly one response either way") | `MCCalls.cfg` as it is | `AnsweredOnce` |
| the races of the proxy | `Races` of `MCCalls.cfg` (`latePid`, with `MaxGen = 4` and `MaxPid = 3`) and of `MCServeProxyLive.cfg` (`hungDial`) | see the table above |
| two processes claim an older and the newest credential of one predecessor whose connection is back, and both give up: the older one is given back, the newest stays used up (`sessionstate/resume_credential_rotate.go:75`, against the comment before it, :71) | `MaxConns = 4`, `MaxMishaps = 0` in `MCLinks.cfg` (3 minutes) | `OvertakenStays` |
| the races of the pool | `Races` of `MCWorkspacePool.cfg` | see the table above |

Three more were met while modelling and no property of a run says them:

- `history/writer.go:126` gives counts back "exactly once". When one statement of
  `persistMeta` fails and another succeeded, both commit with the rows and all
  counts go back, so the next batch counts some losses again; the overflow count is
  not given back at all. `Commit` and `Returned` model it, and `NoLossUncounted`
  says the half that holds.
- `cli/serve_resume.go:52` leaves the stored entry alone "for the life of the process"
  after a refused presentation. If that presentation's own answer was an error or
  was lost, the next `session_start` does not present, and `observe`
  (`cli/serve_resume.go:280`) files the process's fresh credential over it. `Owns`
  models it.
- `config/store.go:100`: the file is read outside `publishMu`, so of two reloads
  the one that read the older file may publish last.


## Not modelled

Besides the components without a module, and what each module leaves out:

- An edit that takes a file over `maxSnapSize` or below it (`tools/txlog/txlog.go:144`):
  a world says for good which files are over the cap.
- A session that writes an earlier content again: each write of `EditGuards` has a text
  of its own. `undo_edit` compares hashes only (`tools/undo_edit.go:126`), so it would
  take such a write for the one it undoes.
- Two writes of other programs between the stat and the read of `edit_file`
  (`tools/edit_file_apply.go:158`, :169) of which the second sets the old mtime back:
  `EditRead` is one step.
- Two edits within one tick of the file system's clock have one mtime
  (`tools/transaction.go:440`); the model's mtime always moves.
- A power cut after `Commit` may lose the renames themselves
  (`tools/txlog/txlog.go:164`); the model's renames are durable. A restore that
  fails in turn (`tools/transaction.go:565`) is left to the log.
- Admission under a cap of two or more gives up after one victim
  (`cli/pool_budget.go:72`).
- A reap takes its entry out of the map before the server has stopped
  (`cli/pool_lifecycle.go:42`): a second server may start beside it. The model
  has both; no property forbids it.
- `jsonrpc` `Call` may report a closed connection although its answer has
  arrived (`lsp/jsonrpc/conn.go:272`): `CallReturns` has it, no property forbids it.
- The collaboration mailbox marks a note as delivered before its reader has the
  answer that carries it (`collab/mailbox.go:439`); the config store sets the
  current config and its generation in two steps (`config/store.go:145`); the
  pinned workspace of the proxy is read beside its write
  (`cli/serve_proxy_outstanding.go:94`); `pruneStateDir` removes a directory a new
  entry may be using (`cli/pool_hibernate.go:157`). These wait for their modules.
- Most of the source has no state that several actors share: extractors,
  adapters, renderers, commands and views make up the greater part of its lines.


## Plan

In the order of what a failure would cost:

1. `WorkspacePool`, second part: crash restarts with back-off, the close of the
   pool, reconfiguration, watchers and resync, re-pins, fan-out. To keep the
   state space small these become modules over an abstract pool
   (`ServerLease`: a server is running while leased, stopped some time after),
   which `WorkspacePool` is shown to implement first.
2. `DaemonLaunch`: lock file, socket, eviction, hand-over, composed with the
   reconnect of `ServeProxy`.
3. `Mailbox`, `ResultCache`, `RequestCancel` (MCP cancel and deadline).
4. `ConfigStore`, `WriteBudget`, `MutationJournal`, `RepoLock`; the stats writer as
   a second instance of `HistoryQueue`'s shape; the topology indexer's queue.

Theorems next: that `WorkspacePool` implements `ServerLease`, and those of the modules
above. Every safety property and action property that a run shows to hold is a theorem
already.
