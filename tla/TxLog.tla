------------------------------- MODULE TxLog -------------------------------
(***************************************************************************)
(* transaction_apply and its write-ahead log: the write phase with its     *)
(* mtime check and in-process rollback, the fail_on_new_errors gate, the   *)
(* txlog directory (Begin, Record, Commit, Rollback), crashes of the       *)
(* daemon, and the scan every connection runs when it attaches, which      *)
(* rolls back what a crashed daemon left behind.                           *)
(*                                                                         *)
(* The content of a file is the set of edits it carries: a transaction     *)
(* adds its own name to every file it writes, so an edit that is lost is   *)
(* an edit that is missing.  The locks are those of PathLocks, taken here  *)
(* in one step with the validation that follows them.                      *)
(***************************************************************************)
EXTENDS Naturals, FiniteSets

CONSTANTS
    Txs,        \* transactions; also the names of their log directories
    Files,      \* files of the workspace
    Conns,      \* connections, each of which scans when it attaches
    Allowed,    \* the files a connection's path policy admits in a replay
    Exts,       \* edits made by programs outside the daemon
    Worlds,     \* the environments to consider: one holds throughout a behaviour
    Torn,       \* what a snapshot holds whose bytes never reached the disk
    None

\* What an environment may do besides crashing the process at a quiet point:
\*   "overlap"      a connection attaches while another one works or attaches
\*   "removeStops"  RemoveAll fails, or a crash interrupts it
\*   "snapshotLost" a power cut loses a snapshot, which is not fsynced
\*   "logFails"     the log directory, a manifest or a snapshot cannot be written
Environments == {"overlap", "removeStops", "snapshotLost", "logFails"}

\* A world has the connections that attach, the edits that other programs make,
\* a bound on the crashes, what of the above may happen, the files over
\* maxSnapSize, which no edit moves across it, and whether the workspace has a
\* .plumb directory.  An edit names who made it.
ASSUME TxAssumption ==
    /\ \A w \in Worlds : /\ w.conns \subseteq Conns
                        /\ w.exts \subseteq Exts
                        /\ w.crashes \in Nat
                        /\ w.may \subseteq Environments
                        /\ w.large \subseteq Files
                        /\ w.marker \in BOOLEAN
    /\ Allowed \in [Conns -> SUBSET Files]
    /\ None \notin Txs \cup Files
    /\ Txs \cap Exts = {}
    /\ Torn \notin Txs \cup Exts

VARIABLES
    world,     \* the environment, which no step changes
    content,   \* the edits each file carries
    pc,        \* where a transaction is
    files,     \* the files a transaction names, locked while it is live
    gated,     \* the transactions called with fail_on_new_errors
    before,    \* phase 1: the content a transaction read
    late,      \* history: edits others made to the file the gate's rollback is at,
               \* between its check and its rename
    moved,     \* the files whose mtime moved since phase 1
    cur,       \* the file the write loop is at
    written,   \* the files written and not restored
    dir,       \* the log directories on disk
    man,       \* those that hold a manifest
    listed,    \* the operations the manifest lists as having a snapshot
    snaps,     \* the snapshots on disk
    torn,      \* the snapshots that lost their bytes
    began,     \* StartedAt, as the run of the daemon that began it
    run,       \* this run of the daemon (daemonStartedAt)
    sst,       \* where a connection is: its attach scan, or "ready"
    todo,      \* the directories its scan listed and has not visited
    vic,       \* the directory its scan treats as an orphan
    rops,      \* the operations of that directory still to restore
    cop        \* the operation whose snapshot the scan has read

txVars   == <<pc, files, gated, before, late, moved, cur, written>>
logVars  == <<dir, man, listed, snaps, torn, began>>
scanVars == <<sst, todo, vic, rops, cop>>
vars == <<world, content, txVars, logVars, run, scanVars>>

Env == world.may

Contents == SUBSET (Txs \cup Exts \cup {Torn})

Ended   == {"new", "committed", "aborted", "dead"}
Live(t) == pc[t] \notin Ended

TypeOK ==
    /\ world \in Worlds
    /\ content \in [Files -> Contents]
    /\ pc \in [Txs -> Ended \cup {"mkdir", "manifest", "stat", "snapshot", "list",
                                  "write", "gate", "revert", "restore", "undo",
                                  "replay", "commit", "close"}]
    /\ files \in [Txs -> SUBSET Files]
    /\ gated \in SUBSET Txs
    /\ before \in [Txs -> [Files -> Contents]]
    /\ late \in [Txs -> SUBSET Exts]
    /\ moved \in [Txs -> SUBSET Files]
    /\ cur \in [Txs -> Files \cup {None}]
    /\ written \in [Txs -> SUBSET Files]
    /\ dir \in SUBSET Txs
    /\ man \in SUBSET dir
    /\ listed \in [Txs -> SUBSET Files]
    /\ snaps \in [Txs -> SUBSET Files]
    /\ torn \in [Txs -> SUBSET Files]
    /\ began \in [Txs -> Nat]
    /\ run \in Nat
    /\ sst \in [Conns -> {"off", "check", "read", "restore", "rewrite", "ready"}]
    /\ todo \in [Conns -> SUBSET Txs]
    /\ vic \in [Conns -> Txs \cup {None}]
    /\ rops \in [Conns -> SUBSET Files]
    /\ cop \in [Conns -> Files \cup {None}]

Init ==
    /\ world \in Worlds
    /\ content = [f \in Files |-> {}]
    /\ pc = [t \in Txs |-> "new"]
    /\ files = [t \in Txs |-> {}]
    /\ gated = {}
    /\ before = [t \in Txs |-> [f \in Files |-> {}]]
    /\ late = [t \in Txs |-> {}]
    /\ moved = [t \in Txs |-> {}]
    /\ cur = [t \in Txs |-> None]
    /\ written = [t \in Txs |-> {}]
    /\ dir = {}
    /\ man = {}
    /\ listed = [t \in Txs |-> {}]
    /\ snaps = [t \in Txs |-> {}]
    /\ torn = [t \in Txs |-> {}]
    /\ began = [t \in Txs |-> 0]
    /\ run = 0
    /\ sst = [c \in Conns |-> "off"]
    /\ todo = [c \in Conns |-> {}]
    /\ vic = [c \in Conns |-> None]
    /\ rops = [c \in Conns |-> {}]
    /\ cop = [c \in Conns |-> None]

-----------------------------------------------------------------------------
(* Helpers.                                                                *)

Goto(t, l) == pc' = [pc EXCEPT ![t] = l]

\* A write by anyone but t itself, as the mtime checks of phase 2 see it.
Touch(f) == moved' = [t \in Txs |-> IF Live(t) /\ f \in files[t]
                                    THEN moved[t] \cup {f} ELSE moved[t]]

\* What phase 1 computed for the file.
After(t, f) == before[t][f] \cup {t}

\* What a replay finds in the snapshot.
Snapshot(t, f) == IF f \in torn[t] THEN {Torn} ELSE before[t][f]

\* RemoveAll has taken something out of the directory of t.
Removing(t) == /\ pc[t] \in {"commit", "close"}
               /\ t \in dir
               /\ t \notin man \/ ~ (listed[t] \subseteq snaps[t])

Scanning(c) == sst[c] \in {"check", "read", "restore", "rewrite"}

-----------------------------------------------------------------------------
(* transaction_apply.                                                      *)

\* Mutant: the path locks are not taken.
StartUnlocked(t, S) ==
    /\ pc[t] = "new"
    /\ S # {}
    /\ \E c \in Conns : sst[c] = "ready"
    /\ "overlap" \in Env \/ \A c \in Conns : ~ Scanning(c)
    /\ files' = [files EXCEPT ![t] = S]
    /\ before' = [before EXCEPT ![t] = content]
    /\ Goto(t, "mkdir")
    /\ UNCHANGED <<content, gated, late, moved, cur, written, logVars, run, scanVars>>

\* The locks are free and phase 1 validates and reads every file; a call that
\* fails there has changed nothing.
Start(t, S) ==
    /\ pc[t] = "new"
    /\ S # {}
    /\ \E c \in Conns : sst[c] = "ready"
    /\ \A u \in Txs : Live(u) => files[u] \cap S = {}
    /\ "overlap" \in Env \/ \A c \in Conns : ~ Scanning(c)
    /\ files' = [files EXCEPT ![t] = S]
    /\ before' = [before EXCEPT ![t] = content]
    /\ \E g \in SUBSET {t} : gated' = gated \cup g
    /\ Goto(t, "mkdir")
    /\ UNCHANGED <<content, late, moved, cur, written, logVars, run, scanVars>>

\* Begin makes the directory first and writes the manifest into it later.  In a
\* workspace without .plumb, or when Begin fails, the transaction goes on
\* without a log.
BeginDir(t) ==
    /\ pc[t] = "mkdir"
    /\ \/ /\ world.marker
          /\ dir' = dir \cup {t}
          /\ Goto(t, "manifest")
       \/ /\ ~ world.marker \/ "logFails" \in Env
          /\ Goto(t, "stat")
          /\ UNCHANGED dir
    /\ UNCHANGED <<content, files, gated, before, late, moved, cur, written, man, listed,
                   snaps, torn, began, run, scanVars>>

BeginManifest(t) ==
    /\ pc[t] = "manifest"
    /\ \/ /\ t \in dir
          /\ man' = man \cup {t}
          /\ began' = [began EXCEPT ![t] = run]
          /\ UNCHANGED dir
       \/ /\ t \notin dir \/ "logFails" \in Env
          /\ dir' = dir \ {t}
          /\ UNCHANGED <<man, began>>
    /\ Goto(t, "stat")
    /\ UNCHANGED <<content, files, gated, before, late, moved, cur, written, listed, snaps,
                   torn, run, scanVars>>

\* The write loop stats the next file: a moved mtime rolls the batch back.
CheckMtime(t, f) ==
    /\ pc[t] = "stat"
    /\ f \in files[t] \ written[t]
    /\ cur' = [cur EXCEPT ![t] = f]
    /\ Goto(t, IF f \in moved[t] THEN "undo" ELSE "snapshot")
    /\ UNCHANGED <<content, files, gated, before, late, moved, written, logVars, run, scanVars>>

\* Record writes the snapshot, of a file under the cap, and then the manifest
\* with the operations so far.  Without a directory, or when the snapshot cannot
\* be written, the write goes on.
RecordSnapshot(t) ==
    /\ pc[t] = "snapshot"
    /\ \/ /\ t \in dir
          /\ snaps' = [snaps EXCEPT ![t] = @ \cup ({cur[t]} \ world.large)]
          /\ Goto(t, "list")
       \/ /\ t \notin dir \/ "logFails" \in Env
          /\ Goto(t, "write")
          /\ UNCHANGED snaps
    /\ UNCHANGED <<content, files, gated, before, late, moved, cur, written, dir, man,
                   listed, torn, began, run, scanVars>>

\* A replay skips the file without a snapshot that the manifest also names.  An
\* operation whose manifest could not be written is in memory, and in the next
\* manifest.
RecordManifest(t) ==
    /\ pc[t] = "list"
    /\ \/ /\ t \in dir
          /\ listed' = [listed EXCEPT ![t] = snaps[t]]
          /\ man' = man \cup {t}
       \/ /\ t \notin dir \/ "logFails" \in Env
          /\ UNCHANGED <<listed, man>>
    /\ Goto(t, "write")
    /\ UNCHANGED <<content, files, gated, before, late, moved, cur, written, dir, snaps,
                   torn, began, run, scanVars>>

\* safeWrite renames the staged file over the target, or fails.
Write(t) ==
    /\ pc[t] = "write"
    /\ \/ /\ content' = [content EXCEPT ![cur[t]] = After(t, cur[t])]
          /\ written' = [written EXCEPT ![t] = @ \cup {cur[t]}]
          /\ Goto(t, IF written'[t] # files[t] THEN "stat"
                     ELSE IF t \in gated THEN "gate" ELSE "commit")
       \/ /\ Goto(t, "undo")
          /\ UNCHANGED <<content, written>>
    /\ UNCHANGED <<files, gated, before, late, moved, cur, logVars, run, scanVars>>

\* Mutant: the refusal forgets to restore the files.
GateKeeps(t) ==
    /\ pc[t] = "gate"
    /\ Goto(t, "commit") \/ Goto(t, "close")
    /\ UNCHANGED <<content, files, gated, before, late, moved, cur, written, logVars, run,
                   scanVars>>

\* The diagnostics of a gated batch: no new error, or some.
Gate(t) ==
    /\ pc[t] = "gate"
    /\ Goto(t, "commit") \/ Goto(t, "revert")
    /\ UNCHANGED <<content, files, gated, before, late, moved, cur, written, logVars, run,
                   scanVars>>

\* Mutant: the restore is not verified.
RevertUnverified(t) ==
    /\ pc[t] = "revert"
    /\ content' = [f \in Files |-> IF f \in written[t] THEN before[t][f] ELSE content[f]]
    /\ written' = [written EXCEPT ![t] = {}]
    /\ Goto(t, "close")
    /\ UNCHANGED <<files, gated, before, late, moved, cur, logVars, run, scanVars>>

\* rollbackVerified reads a file back: one that no longer holds what was written
\* is left alone ...
Revert(t) ==
    /\ pc[t] = "revert"
    /\ \/ \E f \in written[t] :
            IF content[f] = After(t, f)
            THEN /\ cur' = [cur EXCEPT ![t] = f]
                 /\ late' = [late EXCEPT ![t] = {}]
                 /\ Goto(t, "restore")
                 /\ UNCHANGED written
            ELSE written' = [written EXCEPT ![t] = @ \ {f}] /\ UNCHANGED <<cur, late, pc>>
       \/ written[t] = {} /\ Goto(t, "close") /\ UNCHANGED <<cur, late, written>>
    /\ UNCHANGED <<content, files, gated, before, moved, logVars, run, scanVars>>

\* ... and the others are restored, without a second look.
Restore(t) ==
    /\ pc[t] = "restore"
    /\ content' = [content EXCEPT ![cur[t]] = before[t][cur[t]]]
    /\ written' = [written EXCEPT ![t] = @ \ {cur[t]}]
    /\ late' = [late EXCEPT ![t] = {}]
    /\ Goto(t, "revert")
    /\ UNCHANGED <<files, gated, before, moved, cur, logVars, run, scanVars>>

\* rollback: every written file gets its old content back, unconditionally.
Undo(t) ==
    /\ pc[t] = "undo"
    /\ \/ \E f \in written[t] :
            /\ content' = [content EXCEPT ![f] = before[t][f]]
            /\ written' = [written EXCEPT ![t] = @ \ {f}]
            /\ UNCHANGED pc
       \/ /\ written[t] = {}
          /\ Goto(t, "replay")
          /\ UNCHANGED <<content, written>>
    /\ UNCHANGED <<files, gated, before, late, moved, cur, logVars, run, scanVars>>

\* Log.Rollback restores every operation in memory from its snapshot once more,
\* the one whose write failed included.
Replay(t) ==
    /\ pc[t] = "replay"
    /\ content' = [f \in Files |-> IF f \in snaps[t]
                                   THEN before[t][f] ELSE content[f]]
    /\ Goto(t, "close")
    /\ UNCHANGED <<files, gated, before, late, moved, cur, written, logVars, run, scanVars>>

\* Mutant: the call is acknowledged with its log still open.
RemoveLater(t) ==
    /\ pc[t] \in {"commit", "close"}
    /\ Goto(t, IF pc[t] = "commit" THEN "committed" ELSE "aborted")
    /\ UNCHANGED <<content, files, gated, before, late, moved, cur, written, logVars, run,
                   scanVars>>

\* Mutant: the directory goes first.
RemoveDirFirst(t) ==
    /\ pc[t] \in {"commit", "close"}
    /\ dir' = dir \ {t}
    /\ Goto(t, IF pc[t] = "commit" THEN "committed" ELSE "aborted")
    /\ UNCHANGED <<content, files, gated, before, late, moved, cur, written, man, listed,
                   snaps, torn, began, run, scanVars>>

\* RemoveAll of Commit and of Rollback: the entries go in any order, the
\* directory last; then the call returns.  It may fail half way.
Remove(t) ==
    /\ pc[t] \in {"commit", "close"}
    /\ \/ \E f \in snaps[t] :
            /\ snaps' = [snaps EXCEPT ![t] = @ \ {f}]
            /\ UNCHANGED <<pc, dir, man>>
       \/ /\ t \in man
          /\ man' = man \ {t}
          /\ UNCHANGED <<pc, dir, snaps>>
       \/ /\ (t \notin man /\ snaps[t] = {}) \/ "removeStops" \in Env
          /\ dir' = IF t \notin man /\ snaps[t] = {} THEN dir \ {t} ELSE dir
          /\ Goto(t, IF pc[t] = "commit" THEN "committed" ELSE "aborted")
          /\ UNCHANGED <<man, snaps>>
    /\ UNCHANGED <<content, files, gated, before, late, moved, cur, written, listed, torn,
                   began, run, scanVars>>

-----------------------------------------------------------------------------
(* The scan a connection runs inside its attach.                           *)

ScanList(c) ==
    /\ sst[c] = "off"
    /\ \/ "overlap" \in Env
       \/ /\ \A t \in Txs : ~ Live(t)
          /\ \A d \in Conns : ~ Scanning(d)
    /\ todo' = [todo EXCEPT ![c] = dir]
    /\ sst' = [sst EXCEPT ![c] = "check"]
    /\ UNCHANGED <<content, txVars, logVars, run, vic, rops, cop>>

\* A directory whose manifest is of this run is left alone; any other one,
\* without a manifest too, is an orphan.
ScanCheck(c, t) ==
    /\ sst[c] = "check"
    /\ t \in todo[c]
    /\ todo' = [todo EXCEPT ![c] = @ \ {t}]
    /\ IF t \in man /\ began[t] >= run
       THEN UNCHANGED <<sst, vic>>
       ELSE /\ sst' = [sst EXCEPT ![c] = "read"]
            /\ vic' = [vic EXCEPT ![c] = t]
    /\ UNCHANGED <<content, txVars, logVars, run, rops, cop>>

\* replayOrphan reads the manifest a second time.
ScanRead(c) ==
    /\ sst[c] = "read"
    /\ rops' = [rops EXCEPT ![c] = IF vic[c] \in man THEN listed[vic[c]] ELSE {}]
    /\ sst' = [sst EXCEPT ![c] = "restore"]
    /\ UNCHANGED <<content, txVars, logVars, run, todo, vic, cop>>

\* One operation: refused, or without a snapshot, or its snapshot is read ...
ScanSnapshot(c, f) ==
    /\ sst[c] = "restore"
    /\ f \in rops[c]
    /\ rops' = [rops EXCEPT ![c] = @ \ {f}]
    /\ IF f \in Allowed[c] /\ f \in snaps[vic[c]]
       THEN cop' = [cop EXCEPT ![c] = f] /\ sst' = [sst EXCEPT ![c] = "rewrite"]
       ELSE UNCHANGED <<cop, sst>>
    /\ UNCHANGED <<content, txVars, logVars, run, todo, vic>>

\* ... and written over the file.  The scan takes no path lock.
ScanRewrite(c) ==
    /\ sst[c] = "rewrite"
    /\ content' = [content EXCEPT ![cop[c]] = Snapshot(vic[c], cop[c])]
    /\ Touch(cop[c])
    /\ cop' = [cop EXCEPT ![c] = None]
    /\ sst' = [sst EXCEPT ![c] = "restore"]
    /\ UNCHANGED <<pc, files, gated, before, late, cur, written, logVars, run, todo, vic, rops>>

\* Mutant: the log is removed before every operation is restored.
ScanRemoveEarly(c) ==
    /\ sst[c] = "restore"
    /\ dir' = dir \ {vic[c]}
    /\ man' = man \ {vic[c]}
    /\ snaps' = [snaps EXCEPT ![vic[c]] = {}]
    /\ vic' = [vic EXCEPT ![c] = None]
    /\ rops' = [rops EXCEPT ![c] = {}]
    /\ sst' = [sst EXCEPT ![c] = "check"]
    /\ UNCHANGED <<content, txVars, listed, torn, began, run, todo, cop>>

ScanRemove(c) ==
    /\ sst[c] = "restore"
    /\ rops[c] = {}
    /\ dir' = dir \ {vic[c]}
    /\ man' = man \ {vic[c]}
    /\ snaps' = [snaps EXCEPT ![vic[c]] = {}]
    /\ vic' = [vic EXCEPT ![c] = None]
    /\ sst' = [sst EXCEPT ![c] = "check"]
    /\ UNCHANGED <<content, txVars, listed, torn, began, run, todo, rops, cop>>

ScanDone(c) ==
    /\ sst[c] = "check"
    /\ todo[c] = {}
    /\ sst' = [sst EXCEPT ![c] = "ready"]
    /\ UNCHANGED <<content, txVars, logVars, run, todo, vic, rops, cop>>

-----------------------------------------------------------------------------
(* The environment.                                                        *)

\* The connection closes, or pins another workspace.
Detach(c) ==
    /\ sst[c] = "ready"
    /\ sst' = [sst EXCEPT ![c] = "off"]
    /\ UNCHANGED <<content, txVars, logVars, run, todo, vic, rops, cop>>

\* Some program that takes no lock of the daemon edits a file, at any time.
External(f, x) ==
    /\ \A g \in Files : x \notin content[g]
    /\ \A t \in Txs, g \in Files : x \notin before[t][g]
    /\ content' = [content EXCEPT ![f] = @ \cup {x}]
    /\ late' = [t \in Txs |-> IF pc[t] = "restore" /\ cur[t] = f
                              THEN late[t] \cup {x} ELSE late[t]]
    /\ Touch(f)
    /\ UNCHANGED <<pc, files, gated, before, cur, written, logVars, run, scanVars>>

\* The process dies and another one starts: calls and scans are gone, files
\* and log directories stay.
Die ==
    /\ run < world.crashes
    /\ "removeStops" \in Env \/ \A t \in Txs : ~ Removing(t)
    /\ run' = run + 1
    /\ pc' = [t \in Txs |-> IF Live(t) THEN "dead" ELSE pc[t]]
    /\ sst' = [c \in Conns |-> "off"]
    /\ todo' = [c \in Conns |-> {}]
    /\ vic' = [c \in Conns |-> None]
    /\ rops' = [c \in Conns |-> {}]
    /\ cop' = [c \in Conns |-> None]
    /\ UNCHANGED <<content, files, gated, before, late, moved, cur, written, listed, began>>

Crash == Die /\ UNCHANGED <<dir, man, snaps, torn>>

\* A power cut also loses the bytes of snapshots: they are not synced.
PowerCut ==
    /\ "snapshotLost" \in Env
    /\ Die
    /\ torn' \in [Txs -> SUBSET Files]
    /\ \A t \in Txs : torn'[t] \in {torn[t], torn[t] \cup snaps[t]}
    /\ UNCHANGED <<dir, man, snaps>>

-----------------------------------------------------------------------------
TxStep(t) ==
    \/ BeginDir(t) \/ BeginManifest(t)
    \/ \E f \in Files : CheckMtime(t, f)
    \/ RecordSnapshot(t) \/ RecordManifest(t) \/ Write(t)
    \/ Gate(t) \/ Revert(t) \/ Restore(t) \/ Undo(t) \/ Replay(t) \/ Remove(t)

ScanStep(c) ==
    \/ \E t \in Txs : ScanCheck(c, t)
    \/ ScanRead(c)
    \/ \E f \in Files : ScanSnapshot(c, f)
    \/ ScanRewrite(c) \/ ScanRemove(c) \/ ScanDone(c)

Next ==
    /\ \/ \E t \in Txs, S \in SUBSET Files : Start(t, S)
       \/ \E t \in Txs : TxStep(t)
       \/ \E c \in world.conns : ScanList(c) \/ ScanStep(c) \/ Detach(c)
       \/ \E f \in Files, x \in world.exts : External(f, x)
       \/ Crash
       \/ PowerCut
    /\ UNCHANGED world

Spec == Init /\ [][Next]_vars

-----------------------------------------------------------------------------
(* Properties.                                                             *)

\* The daemon is at rest: no call, no scan, no log directory.
Settled == /\ dir = {}
           /\ \A t \in Txs : ~ Live(t)
           /\ \A c \in Conns : ~ Scanning(c)

\* The disk is the daemon's own and does not fail, and every connection may
\* restore every file.  There may be files over the cap, and .plumb may be missing.
Undisturbed == /\ Env = {}
               /\ world.exts = {}
               /\ \A c \in world.conns : Allowed[c] = Files

\* No scan beside a call or another scan, and no log that is left half removed.
Orderly == Env \cap {"overlap", "removeStops"} = {}

\* What recovery does not bring back after a crash (txlog.go:39, :97): a file
\* that is too large for a snapshot, and any file where there is no .plumb.
Unrecoverable(t, f) == pc[t] = "dead" /\ (f \in world.large \/ ~ world.marker)

\* README.md:28: a transaction that ended, or that a crash ended and the attach
\* scan recovered, is in all of its files or in none; only a crash may leave it in
\* a file that recovery does not bring back.
AllOrNothing ==
    Undisturbed /\ Settled =>
        \A t \in Txs : \/ \A f \in files[t] : t \in content[f]
                       \/ \A f \in files[t] : t \in content[f] => Unrecoverable(t, f)

\* A transaction that was acknowledged stays: no later transaction, rollback,
\* crash or recovery takes its edit out of a file.  Where a power cut can come, it
\* is missing only where a replayed snapshot had lost its bytes.
CommittedStays ==
    Orderly => \A t \in Txs : pc[t] = "committed" =>
        \A f \in files[t] : \/ t \in content[f]
                           \/ ("snapshotLost" \in Env /\ Torn \in content[f])

\* A refused transaction leaves its edit only in a file that another program
\* changed while the call ran.
RefusedLeavesNothing ==
    Orderly => \A t \in Txs, f \in Files : pc[t] = "aborted" /\ t \in content[f] =>
        \E x \in world.exts : x \in content[f] /\ x \notin before[t][f]

\* The gate's rollback takes out no edit of another program
\* (transaction_diag.go:188), except one made to the file between the check of its
\* content and the rename that restores it (:195-206).
RevertKeeps ==
    \A t \in Txs, f \in Files, x \in world.exts :
        pc[t] \in {"revert", "restore"} /\ f \in files[t] /\ x \in content[f]
           => \/ x \in content'[f]
              \/ pc[t] = "restore" /\ cur[t] = f /\ x \in late[t]
RevertKeepsExternal == [][Orderly => RevertKeeps]_vars

\* scan.go: a log of this run is never rolled back from a scan.
LiveNeverReplayed ==
    \A c \in Conns : sst[c] = "rewrite" => ~ Live(vic[c])

\* txlog.go: scans may run concurrently; the replay of an orphan never takes
\* out an edit that was acknowledged.
OrphanReplayKeepsCommitted ==
    [][ \A c \in Conns : ScanRewrite(c) /\ pc[vic[c]] = "dead" =>
           \A t \in Txs, f \in Files : pc[t] = "committed" /\ t \in content[f]
                                        => t \in content'[f] ]_vars

-----------------------------------------------------------------------------
(* The promise of AtomicTx.  A transaction counts as committed from the     *)
(* first entry RemoveAll takes out of its log; until then, and as long as   *)
(* an orphan waits for its replay, a reader may rely on the old contents.   *)

CommittedNow(t) == pc[t] = "committed" \/ (pc[t] = "commit" /\ Removing(t))
Pending(t) == \/ Live(t) /\ ~ CommittedNow(t)
              \/ pc[t] = "dead" /\ t \in dir

AbsState == [t \in Txs |-> IF pc[t] = "new" THEN "idle"
                           ELSE IF CommittedNow(t) THEN "committed"
                           ELSE IF Pending(t) THEN "live" ELSE "aborted"]

AbsData == [f \in Files |->
               IF \E t \in Txs : Pending(t) /\ f \in files[t]
               THEN before[CHOOSE t \in Txs : Pending(t) /\ f \in files[t]][f]
               ELSE content[f]]

\* Only an undisturbed daemon can promise it, and across crashes only for files
\* that recovery brings back.
Promised == /\ Undisturbed
            /\ world.crashes = 0 \/ (world.marker /\ world.large = {})

Atomic == INSTANCE AtomicTx WITH
    data <- IF Promised THEN AbsData ELSE [f \in Files |-> {}],
    state <- IF Promised THEN AbsState ELSE [t \in Txs |-> "idle"],
    named <- IF Promised THEN files ELSE [t \in Txs |-> {}]

ImplementsAtomicTx == Atomic!ASpec
=============================================================================
