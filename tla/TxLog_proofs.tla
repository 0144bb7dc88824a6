---------------------------- MODULE TxLog_proofs ----------------------------
(***************************************************************************)
(* Proofs about TxLog, for every set of transactions, files, connections   *)
(* and worlds: type correctness, that a batch is in all of its files or in *)
(* none, that an acknowledged edit stays, that a refused one leaves        *)
(* nothing, that the gate's rollback keeps what other programs wrote, and  *)
(* that all of it implements AtomicTx.                                     *)
(*                                                                         *)
(* The invariant has three layers, each for the worlds in which it holds:  *)
(* what the control of a call and of a scan says (any world), what the     *)
(* contents of the files are (Orderly worlds), and what the log on disk    *)
(* holds (Undisturbed worlds with a .plumb, where no log fails).           *)
(***************************************************************************)
EXTENDS TxLog, TLAPS

\* A call that is underway, or that a crash ended and no scan has settled.
Unsettled(t) == Live(t) \/ (pc[t] = "dead" /\ t \in dir)

\* A manifest comes after its directory, which there is only inside a .plumb, and
\* a scan at work has an orphan.
PlacedInv ==
    /\ \A t \in Txs : pc[t] \in {"new", "mkdir", "manifest"} => t \notin man
    /\ ~ world.marker => dir = {}
    /\ \A c \in Conns : sst[c] \in {"read", "restore", "rewrite"} => vic[c] \in Txs

\* Where a call is tells what it has written; all it touches it named.
CallProgress(t) ==
    /\ written[t] \subseteq files[t] /\ listed[t] \subseteq files[t] /\ snaps[t] \subseteq files[t]
    /\ pc[t] = "new" => files[t] = {}
    /\ pc[t] \in {"snapshot", "list", "write"} => cur[t] \in files[t] \ written[t]
    /\ pc[t] = "restore" => cur[t] \in written[t]
    /\ pc[t] \in {"gate", "commit"} => written[t] = files[t]
    /\ pc[t] \in {"mkdir", "manifest", "replay", "close"} => written[t] = {}

\* A scan restores files of its orphan.
ScanProgress(c) ==
    /\ sst[c] \in {"restore", "rewrite"} => rops[c] \subseteq files[vic[c]]
    /\ sst[c] = "rewrite" => cop[c] \in files[vic[c]]

ProgressInv == /\ \A t \in Txs : CallProgress(t)
               /\ \A c \in Conns : ScanProgress(c)

\* A dead call is of an earlier run, so its log is an orphan to every scan.
DateInv ==
    /\ run <= world.crashes
    /\ \A t \in Txs : began[t] <= run
    /\ \A t \in Txs : pc[t] = "dead" => began[t] < run
    /\ "snapshotLost" \notin Env => \A t \in Txs : torn[t] = {}

\* Only a call's own write puts its edit into a file, after phase 1 read it: the
\* `before' of others has it only of the files it names.
OwnInv ==
    /\ \A t \in Txs, f \in Files : t \notin before[t][f]
    /\ \A t \in Txs, f \in Files : f \notin files[t] =>
          t \notin content[f] /\ \A u \in Txs : t \notin before[u][f]

\* Scans are alone, and before one is done it has settled every directory: a
\* directory is one it still has to visit or the one it is at.
ScanInv ==
    /\ \A c, d \in Conns : Scanning(c) /\ Scanning(d) => c = d
    /\ \A c \in Conns, t \in Txs : Scanning(c) => ~ Live(t)
    /\ \A t \in dir : Unsettled(t)
    /\ \A c \in Conns, t \in Txs : sst[c] = "ready" /\ pc[t] = "dead" => t \notin dir
    /\ \A c \in Conns, t \in dir : Scanning(c) =>
          t \in todo[c] \/ (sst[c] # "check" /\ vic[c] = t)
    /\ \A c \in Conns : Scanning(c) => todo[c] \subseteq dir
    /\ \A c \in Conns : sst[c] \in {"read", "restore", "rewrite"} => vic[c] \in dir \ todo[c]

\* Calls that are not settled name different files: the locks see to those that
\* are underway, the scan before any new call to those that died.
DisjointInv ==
    \A t, u \in Txs : t # u /\ Unsettled(t) /\ Unsettled(u) => files[t] \cap files[u] = {}

\* An edit of another program that the call found when it wanted to restore f.
Kept(t, f) == \E x \in world.exts : x \in content[f] /\ x \notin before[t][f]

\* Between phase 1 and its end, a file of a call holds what phase 1 read, with the
\* call's edit if it is written, and otherwise only edits of other programs.
CallContent(t, f) ==
    /\ before[t][f] \subseteq content[f]
    /\ f \in written[t] => /\ t \in content[f]
                           /\ content[f] \subseteq After(t, f) \cup world.exts
    /\ f \notin written[t] => \/ content[f] \subseteq before[t][f] \cup world.exts
                              \/ pc[t] \in {"revert", "restore", "close"} /\ Kept(t, f)
    /\ pc[t] = "restore" /\ f = cur[t] => content[f] = After(t, f) \cup late[t]

LiveInv == \A t \in Txs : Live(t) => \A f \in files[t] : CallContent(t, f)

\* The edit of u is in C, or C is a snapshot that lost its bytes.
Safe(u, C) == u \in C \/ ("snapshotLost" \in Env /\ Torn \in C)

\* An acknowledged edit is in its files, and in what any rollback or replay that
\* may still come would put back.
CommitInv ==
    \A u \in Txs : pc[u] = "committed" => \A f \in files[u] :
        /\ Safe(u, content[f])
        /\ \A t \in Txs : Unsettled(t) /\ f \in files[t] => Safe(u, before[t][f])

\* A call that was refused, or that a crash ended and a scan rolled back.
Gone(t) == pc[t] = "aborted" \/ (Undisturbed /\ pc[t] = "dead" /\ t \notin dir)
\* C has no edit of t, unless another program's edit kept it there.
Absent(t, f, C) == t \in C => \E x \in world.exts : x \in C /\ x \notin before[t][f]

\* The edit of such a call is in none of its files, nor in what a rollback or a
\* replay would put back, but for those that recovery does not bring back.
RefuseInv ==
    \A t \in Txs, f \in Files : Gone(t) /\ ~ Unrecoverable(t, f) =>
        /\ Absent(t, f, content[f])
        /\ \A u \in Txs : Unsettled(u) /\ f \in files[u] => Absent(t, f, before[u][f])

\* The log of a call lists a file under the cap, with its snapshot, before the file
\* is written, until RemoveAll takes the log away.
CallLog(t) ==
    /\ pc[t] # "mkdir" => t \in dir
    /\ pc[t] \notin {"mkdir", "manifest", "commit", "close"} => t \in man
    /\ pc[t] \notin {"list", "commit", "close"} => snaps[t] = listed[t]
    /\ pc[t] = "list" => snaps[t] = listed[t] \cup ({cur[t]} \ world.large)
    /\ pc[t] \in {"commit", "close"} => snaps[t] \subseteq listed[t]
    /\ written[t] \subseteq listed[t] \cup world.large
    /\ pc[t] = "write" => cur[t] \in listed[t] \cup world.large

LogInv == \A t \in Txs : Live(t) => CallLog(t)

\* A file under the cap that a dead call left changed is one its log can restore,
\* and one that a scan at work on that log has not passed.
DeadInv ==
    \A t \in Txs, f \in Files :
        pc[t] = "dead" /\ t \in dir /\ f \in files[t] \ world.large
          /\ content[f] # before[t][f] =>
            /\ t \in man
            /\ f \in listed[t] \cap snaps[t]
            /\ \A c \in Conns : vic[c] = t =>
                  /\ sst[c] = "restore" => f \in rops[c]
                  /\ sst[c] = "rewrite" => f \in rops[c] \cup {cop[c]}

\* The inductive invariant.
IInv == /\ TypeOK /\ PlacedInv /\ ProgressInv /\ DateInv /\ OwnInv
        /\ Orderly => ScanInv /\ DisjointInv /\ LiveInv /\ CommitInv /\ RefuseInv
        /\ Undisturbed /\ world.marker => LogInv /\ DeadInv

-----------------------------------------------------------------------------
Places == Ended \cup {"mkdir", "manifest", "stat", "snapshot", "list", "write", "gate",
                       "revert", "restore", "undo", "replay", "commit", "close"}

\* Every step is one of these, and leaves the world as it is.
LEMMA Steps ==
    ASSUME TypeOK, [Next]_vars
    PROVE  /\ UNCHANGED world
           /\ \/ \E t \in Txs, S \in SUBSET Files : Start(t, S)
              \/ \E t \in Txs : TxStep(t)
              \/ \E c \in Conns :
                    c \in world.conns /\ (ScanList(c) \/ ScanStep(c) \/ Detach(c))
              \/ \E f \in Files, x \in Exts : x \in world.exts /\ External(f, x)
              \/ Crash \/ PowerCut
              \/ UNCHANGED vars
<1>1. world.conns \subseteq Conns /\ world.exts \subseteq Exts
  BY TxAssumption DEF TypeOK
<1>2. CASE Next
  BY <1>1, <1>2 DEF Next
<1>3. CASE UNCHANGED vars
  BY <1>3 DEF vars
<1> QED
  BY <1>2, <1>3

\* Types.
LEMMA NextType == IInv /\ [Next]_vars => TypeOK'
<1> SUFFICES ASSUME IInv, [Next]_vars PROVE TypeOK'
  OBVIOUS
<1>a. TypeOK /\ PlacedInv /\ ProgressInv
  BY DEF IInv
<1> USE TxAssumption DEF TypeOK, Places, Ended, Contents, Goto, After, txVars, logVars, scanVars
<1>s. UNCHANGED world
  BY <1>a, Steps
<1>1. ASSUME NEW t \in Txs, NEW S \in SUBSET Files, Start(t, S), UNCHANGED world
      PROVE  TypeOK'
  BY <1>a, <1>1 DEF Start
<1>2. ASSUME NEW t \in Txs, BeginDir(t), UNCHANGED world PROVE TypeOK'
  <2>0. dir \in SUBSET Txs /\ man \in SUBSET dir /\ pc \in [Txs -> Places]
    BY <1>a
  <2>1. pc' \in [Txs -> Places]
    BY <2>0, <1>2 DEF BeginDir
  <2>2. dir' \in SUBSET Txs /\ man' \in SUBSET dir'
    BY <2>0, <1>2 DEF BeginDir
  <2> QED
    BY <1>a, <1>2, <2>1, <2>2 DEF BeginDir
<1>3. ASSUME NEW t \in Txs, BeginManifest(t), UNCHANGED world PROVE TypeOK'
  <2>0. /\ dir \in SUBSET Txs /\ man \in SUBSET dir /\ pc \in [Txs -> Places]
        /\ began \in [Txs -> Nat] /\ run \in Nat
    BY <1>a
  <2>1. pc' \in [Txs -> Places] /\ began' \in [Txs -> Nat]
    BY <2>0, <1>3 DEF BeginManifest
  <2>2. dir' \in SUBSET Txs /\ man' \in SUBSET dir'
    BY <1>a, <2>0, <1>3 DEF BeginManifest, PlacedInv
  <2> QED
    BY <1>a, <1>3, <2>1, <2>2 DEF BeginManifest
<1>4. ASSUME NEW t \in Txs, NEW f \in Files, CheckMtime(t, f), UNCHANGED world
      PROVE  TypeOK'
  BY <1>a, <1>4 DEF CheckMtime
<1>5. ASSUME NEW t \in Txs, RecordSnapshot(t), UNCHANGED world PROVE TypeOK'
  <2>0. /\ cur[t] \in Files
        /\ snaps \in [Txs -> SUBSET Files]
        /\ pc \in [Txs -> Places]
    BY <1>a, <1>5 DEF RecordSnapshot, ProgressInv, CallProgress
  <2>1. snaps' \in [Txs -> SUBSET Files]
    BY <2>0, <1>5 DEF RecordSnapshot
  <2>2. pc' \in [Txs -> Places]
    BY <2>0, <1>5 DEF RecordSnapshot
  <2> QED
    BY <1>a, <1>5, <2>1, <2>2 DEF RecordSnapshot
<1>6. ASSUME NEW t \in Txs, RecordManifest(t), UNCHANGED world PROVE TypeOK'
  <2>0. /\ cur[t] \in Files
        /\ listed \in [Txs -> SUBSET Files] /\ snaps \in [Txs -> SUBSET Files]
        /\ pc \in [Txs -> Places]
    BY <1>a, <1>6 DEF RecordManifest, ProgressInv, CallProgress
  <2>1. listed' \in [Txs -> SUBSET Files]
    BY <2>0, <1>6 DEF RecordManifest
  <2>2. pc' \in [Txs -> Places]
    BY <2>0, <1>6 DEF RecordManifest
  <2> QED
    BY <1>a, <1>6, <2>1, <2>2 DEF RecordManifest
<1>7. ASSUME NEW t \in Txs, Write(t), UNCHANGED world PROVE TypeOK'
  <2>0. /\ cur[t] \in Files /\ before[t] \in [Files -> Contents]
        /\ content \in [Files -> Contents]
        /\ written \in [Txs -> SUBSET Files]
        /\ pc \in [Txs -> Places]
    BY <1>a, <1>7 DEF Write, ProgressInv, CallProgress
  <2>1. content' \in [Files -> Contents]
    BY <2>0, <1>7 DEF Write
  <2>2. written' \in [Txs -> SUBSET Files]
    BY <2>0, <1>7 DEF Write
  <2>3. pc' \in [Txs -> Places]
    BY <2>0, <1>7 DEF Write
  <2> QED
    BY <1>a, <1>7, <2>1, <2>2, <2>3 DEF Write
<1>8. ASSUME NEW t \in Txs, Gate(t), UNCHANGED world PROVE TypeOK'
  <2>0. pc \in [Txs -> Places]
    BY <1>a
  <2>1. pc' \in [Txs -> Places]
    BY <2>0, <1>8 DEF Gate
  <2> QED
    BY <1>a, <1>8, <2>1 DEF Gate
<1>9. ASSUME NEW t \in Txs, Revert(t), UNCHANGED world PROVE TypeOK'
  <2>0. /\ written \in [Txs -> SUBSET Files]
        /\ cur \in [Txs -> Files \cup {None}] /\ late \in [Txs -> SUBSET Exts]
        /\ pc \in [Txs -> Places]
    BY <1>a
  <2>1. written' \in [Txs -> SUBSET Files]
    BY <2>0, <1>9 DEF Revert
  <2>2. cur' \in [Txs -> Files \cup {None}]
    BY <2>0, <1>9 DEF Revert
  <2>3. pc' \in [Txs -> Places]
    BY <2>0, <1>9 DEF Revert
  <2>4. late' \in [Txs -> SUBSET Exts]
    BY <2>0, <1>9 DEF Revert
  <2> QED
    BY <1>a, <1>9, <2>1, <2>2, <2>3, <2>4 DEF Revert
<1>10. ASSUME NEW t \in Txs, Restore(t), UNCHANGED world PROVE TypeOK'
  BY <1>a, <1>10 DEF Restore, ProgressInv, CallProgress
<1>11. ASSUME NEW t \in Txs, Undo(t), UNCHANGED world PROVE TypeOK'
  <2>0. /\ before[t] \in [Files -> Contents]
        /\ content \in [Files -> Contents]
        /\ written \in [Txs -> SUBSET Files]
        /\ pc \in [Txs -> Places]
    BY <1>a
  <2>1. content' \in [Files -> Contents]
    BY <2>0, <1>11 DEF Undo
  <2>2. written' \in [Txs -> SUBSET Files]
    BY <2>0, <1>11 DEF Undo
  <2>3. pc' \in [Txs -> Places]
    BY <2>0, <1>11 DEF Undo
  <2> QED
    BY <1>a, <1>11, <2>1, <2>2, <2>3 DEF Undo
<1>12. ASSUME NEW t \in Txs, Replay(t), UNCHANGED world PROVE TypeOK'
  BY <1>a, <1>12 DEF Replay
<1>13. ASSUME NEW t \in Txs, Remove(t), UNCHANGED world PROVE TypeOK'
  <2>0. /\ snaps \in [Txs -> SUBSET Files]
        /\ pc \in [Txs -> Places]
    BY <1>a
  <2>1. snaps' \in [Txs -> SUBSET Files]
    BY <2>0, <1>13 DEF Remove
  <2>2. pc' \in [Txs -> Places]
    BY <2>0, <1>13 DEF Remove
  <2> QED
    BY <1>a, <1>13, <2>1, <2>2 DEF Remove
<1>14. ASSUME NEW c \in Conns, ScanList(c), UNCHANGED world PROVE TypeOK'
  BY <1>a, <1>14 DEF ScanList
<1>15. ASSUME NEW c \in Conns, NEW t \in Txs, ScanCheck(c, t), UNCHANGED world PROVE TypeOK'
  <2>0. /\ todo \in [Conns -> SUBSET Txs] /\ vic \in [Conns -> Txs \cup {None}]
        /\ sst \in [Conns -> {"off", "check", "read", "restore", "rewrite", "ready"}]
    BY <1>a
  <2>1. /\ todo' \in [Conns -> SUBSET Txs] /\ vic' \in [Conns -> Txs \cup {None}]
        /\ sst' \in [Conns -> {"off", "check", "read", "restore", "rewrite", "ready"}]
    BY <2>0, <1>15 DEF ScanCheck
  <2> QED
    BY <1>a, <1>15, <2>1 DEF ScanCheck
<1>16. ASSUME NEW c \in Conns, ScanRead(c), UNCHANGED world PROVE TypeOK'
  BY <1>a, <1>16 DEF ScanRead, PlacedInv
<1>17. ASSUME NEW c \in Conns, NEW f \in Files, ScanSnapshot(c, f), UNCHANGED world PROVE TypeOK'
  <2>0. /\ rops \in [Conns -> SUBSET Files]
        /\ cop \in [Conns -> Files \cup {None}]
        /\ sst \in [Conns -> {"off", "check", "read", "restore", "rewrite", "ready"}]
    BY <1>a
  <2>1. rops' \in [Conns -> SUBSET Files]
    BY <2>0, <1>17 DEF ScanSnapshot
  <2>2. cop' \in [Conns -> Files \cup {None}]
    BY <2>0, <1>17 DEF ScanSnapshot
  <2>3. sst' \in [Conns -> {"off", "check", "read", "restore", "rewrite", "ready"}]
    BY <2>0, <1>17 DEF ScanSnapshot
  <2> QED
    BY <1>a, <1>17, <2>1, <2>2, <2>3 DEF ScanSnapshot
<1>18. ASSUME NEW c \in Conns, ScanRewrite(c), UNCHANGED world PROVE TypeOK'
  BY <1>a, <1>18 DEF ScanRewrite, Touch, Snapshot, PlacedInv, ProgressInv, ScanProgress
<1>19. ASSUME NEW c \in Conns, ScanRemove(c), UNCHANGED world PROVE TypeOK'
  BY <1>a, <1>19 DEF ScanRemove, PlacedInv
<1>20. ASSUME NEW c \in Conns, ScanDone(c) \/ Detach(c), UNCHANGED world PROVE TypeOK'
  <2>0. sst \in [Conns -> {"off", "check", "read", "restore", "rewrite", "ready"}]
    BY <1>a
  <2>1. sst' \in [Conns -> {"off", "check", "read", "restore", "rewrite", "ready"}]
    BY <2>0, <1>20 DEF ScanDone, Detach
  <2> QED
    BY <1>a, <1>20, <2>1 DEF ScanDone, Detach
<1>21. ASSUME NEW f \in Files, NEW x \in Exts, External(f, x), UNCHANGED world
       PROVE  TypeOK'
  BY <1>a, <1>21 DEF External, Touch
<1>22. ASSUME Crash \/ PowerCut, UNCHANGED world PROVE TypeOK'
  BY <1>a, <1>22 DEF Crash, PowerCut, Die, Live
<1>23. CASE UNCHANGED vars
  BY <1>a, <1>23 DEF vars
<1>24. CASE \E t \in Txs : TxStep(t)
  BY <1>s, <1>24, <1>2, <1>3, <1>4, <1>5, <1>6, <1>7, <1>8, <1>9, <1>10, <1>11, <1>12, <1>13
     DEF TxStep
<1>25. CASE \E c \in Conns : ScanList(c) \/ ScanStep(c) \/ Detach(c)
  BY <1>s, <1>25, <1>14, <1>15, <1>16, <1>17, <1>18, <1>19, <1>20 DEF ScanStep
<1> QED
  BY <1>a, <1>1, <1>21, <1>22, <1>23, <1>24, <1>25, Steps

\* A step of a call changes what is its own, and files it names.
LEMMA TxEffect ==
    ASSUME TypeOK, ProgressInv, NEW t \in Txs, TxStep(t)
    PROVE  /\ UNCHANGED <<files, gated, before, moved, torn, run, scanVars>>
           /\ Live(t)
           /\ \A u \in Txs \ {t} :
                 /\ pc'[u] = pc[u] /\ cur'[u] = cur[u] /\ written'[u] = written[u]
                 /\ late'[u] = late[u]
                 /\ listed'[u] = listed[u] /\ snaps'[u] = snaps[u] /\ began'[u] = began[u]
                 /\ (u \in dir') = (u \in dir)
                 /\ (u \in man') = (u \in man)
           /\ \A f \in Files : \/ content'[f] = content[f]
                               \/ f \in files[t] /\ content'[f] = before[t][f]
                               \/ /\ f = cur[t] /\ f \in files[t] /\ pc[t] = "write"
                                  /\ content'[f] = After(t, f)
<1> USE DEF Goto, logVars, scanVars, Live, Ended
<1>1. CASE BeginDir(t) \/ BeginManifest(t)
  BY <1>1 DEF TypeOK, BeginDir, BeginManifest
<1>2. ASSUME NEW f \in Files, CheckMtime(t, f)
      PROVE  pc[t] = "stat" /\ \A u \in Txs \ {t} : pc'[u] = pc[u] /\ cur'[u] = cur[u]
  BY <1>2 DEF TypeOK, CheckMtime
<1>3. CASE \E f \in Files : CheckMtime(t, f)
  BY <1>3, <1>2 DEF CheckMtime
<1>4. CASE RecordSnapshot(t) \/ RecordManifest(t)
  BY <1>4 DEF TypeOK, RecordSnapshot, RecordManifest
<1>5. CASE Write(t)
  BY <1>5 DEF TypeOK, Write, ProgressInv, CallProgress
<1>6. CASE Gate(t) \/ Revert(t)
  BY <1>6 DEF TypeOK, Gate, Revert
<1>7. CASE Restore(t)
  BY <1>7 DEF TypeOK, Restore, ProgressInv, CallProgress
<1>8. CASE Undo(t)
  BY <1>8 DEF TypeOK, Undo, ProgressInv, CallProgress
<1>9. CASE Replay(t)
  BY <1>9 DEF TypeOK, Replay, ProgressInv, CallProgress
<1>10. CASE Remove(t)
  BY <1>10 DEF TypeOK, Remove
<1> QED
  BY <1>1, <1>3, <1>4, <1>5, <1>6, <1>7, <1>8, <1>9, <1>10 DEF TxStep

\* A step of a connection leaves the calls alone; its scan writes one file.
LEMMA ScanEffect ==
    ASSUME TypeOK, NEW c \in Conns, ScanList(c) \/ ScanStep(c) \/ Detach(c)
    PROVE  /\ UNCHANGED <<pc, files, gated, before, late, cur, written, listed, torn, began, run>>
           /\ \A d \in Conns \ {c} :
                 /\ sst'[d] = sst[d] /\ todo'[d] = todo[d] /\ vic'[d] = vic[d]
                 /\ rops'[d] = rops[d] /\ cop'[d] = cop[d]
           /\ \/ ScanRewrite(c)
              \/ UNCHANGED <<content, moved>>
           /\ \/ ScanRemove(c)
              \/ UNCHANGED <<dir, man, snaps>>
<1> USE DEF txVars, logVars, scanVars
<1>1. CASE ScanList(c) \/ ScanDone(c) \/ Detach(c)
  BY <1>1 DEF TypeOK, ScanList, ScanDone, Detach
<1>2. ASSUME NEW t \in Txs, ScanCheck(c, t)
      PROVE  \A d \in Conns \ {c} : sst'[d] = sst[d] /\ todo'[d] = todo[d] /\ vic'[d] = vic[d]
  BY <1>2 DEF TypeOK, ScanCheck
<1>3. CASE \E t \in Txs : ScanCheck(c, t)
  BY <1>2, <1>3 DEF ScanCheck
<1>4. ASSUME NEW f \in Files, ScanSnapshot(c, f)
      PROVE  \A d \in Conns \ {c} : sst'[d] = sst[d] /\ rops'[d] = rops[d] /\ cop'[d] = cop[d]
  BY <1>4 DEF TypeOK, ScanSnapshot
<1>5. CASE \E f \in Files : ScanSnapshot(c, f)
  BY <1>4, <1>5 DEF ScanSnapshot
<1>6. CASE ScanRead(c) \/ ScanRewrite(c) \/ ScanRemove(c)
  BY <1>6 DEF TypeOK, ScanRead, ScanRewrite, ScanRemove
<1> QED
  BY <1>1, <1>3, <1>5, <1>6 DEF ScanStep

\* A crash turns what is live into what is dead and leaves the files alone.
LEMMA DieEffect ==
    ASSUME TypeOK, Crash \/ PowerCut
    PROVE  /\ UNCHANGED <<content, files, gated, before, late, moved, cur, written,
                          dir, man, listed, snaps, began>>
           /\ run' = run + 1 /\ run < world.crashes
           /\ \A t \in Txs : /\ pc'[t] = IF Live(t) THEN "dead" ELSE pc[t]
                             /\ torn'[t] # torn[t] => "snapshotLost" \in Env
           /\ \A c \in Conns : sst'[c] = "off"
           /\ torn' \in [Txs -> SUBSET Files]
  BY DEF Crash, PowerCut, Die, TypeOK

\* A file that another program edits only gains that edit.
LEMMA ExternalEffect ==
    ASSUME TypeOK, NEW f \in Files, NEW x \in Exts, External(f, x)
    PROVE  /\ UNCHANGED <<pc, files, gated, before, cur, written, logVars, run, scanVars>>
           /\ content'[f] = content[f] \cup {x}
           /\ \A g \in Files \ {f} : content'[g] = content[g]
           /\ \A t \in Txs : x \notin before[t][f]
  BY DEF External, TypeOK

LEMMA ExternalLate ==
    ASSUME NEW f \in Files, NEW x \in Exts, External(f, x), NEW t \in Txs
    PROVE  late'[t] = IF pc[t] = "restore" /\ cur[t] = f THEN late[t] \cup {x} ELSE late[t]
  BY DEF External

\* A call begins with no file written and with what phase 1 read.
LEMMA StartEffect ==
    ASSUME TypeOK, NEW t \in Txs, NEW S \in SUBSET Files, Start(t, S)
    PROVE  /\ UNCHANGED <<content, late, moved, cur, written, logVars, run, scanVars>>
           /\ pc[t] = "new" /\ pc'[t] = "mkdir"
           /\ files'[t] = S /\ before'[t] = content
           /\ \A u \in Txs \ {t} : /\ pc'[u] = pc[u] /\ files'[u] = files[u]
                                  /\ before'[u] = before[u]
           /\ \A u \in Txs : Live(u) => files[u] \cap S = {}
           /\ "overlap" \in Env \/ \A c \in Conns : ~ Scanning(c)
           /\ \E c \in Conns : sst[c] = "ready"
  BY DEF Start, Goto, TypeOK

\* The parts that hold in any world, one by one.
LEMMA NextPlaced == IInv /\ [Next]_vars => PlacedInv'
<1> SUFFICES ASSUME IInv, [Next]_vars PROVE PlacedInv'
  OBVIOUS
<1>a. TypeOK /\ PlacedInv /\ ProgressInv
  BY DEF IInv
<1>b. TypeOK'
  BY NextType
<1>w. UNCHANGED world
  BY <1>a, Steps
<1>1. ASSUME NEW t \in Txs, NEW S \in SUBSET Files, Start(t, S) PROVE PlacedInv'
  BY <1>a, <1>w, <1>1, StartEffect DEF PlacedInv, logVars, scanVars
<1>2. ASSUME NEW t \in Txs, TxStep(t) PROVE PlacedInv'
  <2>1. pc'[t] \in {"new", "mkdir", "manifest"} => t \notin man'
    <3> USE <1>a DEF PlacedInv, TypeOK, Goto
    <3>1. CASE BeginDir(t) \/ BeginManifest(t)
      BY <3>1 DEF BeginDir, BeginManifest
    <3>2. CASE RecordSnapshot(t) \/ RecordManifest(t)
      BY <3>2 DEF RecordSnapshot, RecordManifest
    <3>3. CASE Write(t) \/ Gate(t) \/ Restore(t) \/ Replay(t)
      BY <3>3 DEF Write, Gate, Restore, Replay
    <3>4. ASSUME NEW f \in Files, CheckMtime(t, f) PROVE pc'[t] \notin {"new", "mkdir", "manifest"}
      BY <3>4 DEF CheckMtime
    <3>5. CASE Revert(t) \/ Undo(t) \/ Remove(t)
      BY <3>5 DEF Revert, Undo, Remove
    <3> QED
      BY <1>2, <3>1, <3>2, <3>3, <3>4, <3>5 DEF TxStep
  <2>2. UNCHANGED scanVars
    BY <1>a, <1>2, TxEffect
  <2>3. \A u \in Txs \ {t} : pc'[u] = pc[u] /\ (u \in man') = (u \in man)
    BY <1>a, <1>2, TxEffect
  <2>4. ~ world.marker => dir' \subseteq dir
    BY <1>2 DEF TxStep, BeginDir, BeginManifest, CheckMtime, RecordSnapshot, RecordManifest,
                Write, Gate, Revert, Restore, Undo, Replay, Remove, logVars
  <2> QED
    BY <1>a, <1>w, <2>1, <2>2, <2>3, <2>4 DEF PlacedInv, scanVars
<1>3. ASSUME NEW c \in Conns, ScanList(c) \/ ScanStep(c) \/ Detach(c) PROVE PlacedInv'
  <2>1. \A t \in Txs : pc'[t] = pc[t] /\ (t \in man' => t \in man)
    <3>1. UNCHANGED pc /\ (ScanRemove(c) \/ UNCHANGED man)
      BY <1>a, <1>3, ScanEffect
    <3> QED
      BY <3>1 DEF ScanRemove
  <2>2. \A d \in Conns \ {c} : sst'[d] = sst[d] /\ vic'[d] = vic[d]
    BY <1>a, <1>3, ScanEffect
  <2>3. sst'[c] \in {"read", "restore", "rewrite"} => vic'[c] \in Txs
    <3> USE <1>a DEF PlacedInv, TypeOK
    <3>1. CASE ScanList(c) \/ ScanDone(c) \/ Detach(c)
      BY <3>1 DEF ScanList, ScanDone, Detach
    <3>2. ASSUME NEW t \in Txs, ScanCheck(c, t)
          PROVE  sst'[c] \in {"read", "restore", "rewrite"} => vic'[c] \in Txs
      BY <3>2 DEF ScanCheck
    <3>3. ASSUME NEW f \in Files, ScanSnapshot(c, f)
          PROVE  sst'[c] \in {"read", "restore", "rewrite"} => vic'[c] \in Txs
      BY <3>3 DEF ScanSnapshot
    <3>4. CASE ScanRead(c) \/ ScanRewrite(c) \/ ScanRemove(c)
      BY <3>4 DEF ScanRead, ScanRewrite, ScanRemove
    <3> QED
      BY <1>3, <3>1, <3>2, <3>3, <3>4 DEF ScanStep
  <2>4. dir' \subseteq dir
    <3>1. ScanRemove(c) \/ UNCHANGED dir
      BY <1>a, <1>3, ScanEffect
    <3> QED
      BY <3>1 DEF ScanRemove
  <2> QED
    BY <1>a, <1>w, <2>1, <2>2, <2>3, <2>4 DEF PlacedInv
<1>4. ASSUME NEW f \in Files, NEW x \in Exts, External(f, x) PROVE PlacedInv'
  BY <1>a, <1>w, <1>4, ExternalEffect DEF PlacedInv, logVars, scanVars
<1>5. ASSUME Crash \/ PowerCut PROVE PlacedInv'
  BY <1>a, <1>w, <1>5, DieEffect DEF PlacedInv
<1>6. CASE UNCHANGED vars
  BY <1>a, <1>w, <1>6 DEF PlacedInv, vars, txVars, logVars, scanVars
<1> QED
  BY <1>a, <1>1, <1>2, <1>3, <1>4, <1>5, <1>6, Steps

LEMMA NextDate == IInv /\ [Next]_vars => DateInv'
<1> SUFFICES ASSUME IInv, [Next]_vars PROVE DateInv'
  OBVIOUS
<1>a. TypeOK /\ DateInv /\ ProgressInv
  BY DEF IInv
<1>b. UNCHANGED world
  BY <1>a, Steps
<1>1. ASSUME NEW t \in Txs, NEW S \in SUBSET Files, Start(t, S) PROVE DateInv'
  BY <1>a, <1>b, <1>1, StartEffect DEF DateInv, logVars, Env
<1>2. ASSUME NEW t \in Txs, TxStep(t) PROVE DateInv'
  <2>1. /\ UNCHANGED <<torn, run>>
        /\ Live(t)
        /\ \A u \in Txs \ {t} : pc'[u] = pc[u] /\ began'[u] = began[u]
    BY <1>a, <1>2, TxEffect
  <2>2. pc'[t] # "dead"
    <3> USE <1>a, <2>1 DEF TypeOK, Goto, Live, Ended
    <3>1. CASE BeginDir(t) \/ BeginManifest(t) \/ RecordSnapshot(t) \/ RecordManifest(t)
      BY <3>1 DEF BeginDir, BeginManifest, RecordSnapshot, RecordManifest
    <3>3. CASE Write(t) \/ Gate(t) \/ Restore(t) \/ Replay(t)
      BY <3>3 DEF Write, Gate, Restore, Replay
    <3>4. ASSUME NEW f \in Files, CheckMtime(t, f) PROVE pc'[t] # "dead"
      BY <3>4 DEF CheckMtime
    <3>5. CASE Revert(t) \/ Undo(t) \/ Remove(t)
      BY <3>5 DEF Revert, Undo, Remove
    <3> QED
      BY <1>2, <3>1, <3>3, <3>4, <3>5 DEF TxStep
  <2>3. began'[t] \in {began[t], run}
    <3> USE <1>a DEF TypeOK
    <3>1. CASE BeginManifest(t)
      BY <3>1 DEF BeginManifest
    <3>2. CASE UNCHANGED began
      BY <3>2
    <3> QED
      BY <1>2, <3>1, <3>2 DEF TxStep, BeginDir, CheckMtime, RecordSnapshot, RecordManifest, Write,
           Gate, Revert, Restore, Undo, Replay, Remove, logVars
  <2>4. run \in Nat
    BY <1>a DEF TypeOK
  <2>5. \A u \in Txs : began'[u] <= run' /\ (pc'[u] = "dead" => began'[u] < run')
    BY <1>a, <2>1, <2>2, <2>3, <2>4 DEF DateInv
  <2> QED
    BY <1>a, <1>b, <2>1, <2>5 DEF DateInv, Env
<1>3. ASSUME NEW c \in Conns, ScanList(c) \/ ScanStep(c) \/ Detach(c) PROVE DateInv'
  <2>1. UNCHANGED <<pc, torn, began, run>>
    BY <1>a, <1>3, ScanEffect
  <2> QED
    BY <1>a, <1>b, <2>1 DEF DateInv, Env
<1>4. ASSUME NEW f \in Files, NEW x \in Exts, External(f, x) PROVE DateInv'
  BY <1>a, <1>b, <1>4, ExternalEffect DEF DateInv, logVars, Env
<1>5. ASSUME Crash \/ PowerCut PROVE DateInv'
  <2>1. /\ UNCHANGED began
        /\ run' = run + 1 /\ run < world.crashes
        /\ \A t \in Txs : /\ pc'[t] = IF Live(t) THEN "dead" ELSE pc[t]
                          /\ torn'[t] # torn[t] => "snapshotLost" \in Env
    BY <1>a, <1>5, DieEffect
  <2>2. run \in Nat /\ world.crashes \in Nat /\ \A t \in Txs : began[t] \in Nat
    BY <1>a, TxAssumption DEF TypeOK
  <2>3. run' <= world.crashes'
    BY <1>b, <2>1, <2>2
  <2>4. \A t \in Txs : began'[t] <= run' /\ (pc'[t] = "dead" => began'[t] < run')
    BY <1>a, <2>1, <2>2 DEF DateInv
  <2> QED
    BY <1>a, <1>b, <2>1, <2>3, <2>4 DEF DateInv, Env
<1>6. CASE UNCHANGED vars
  BY <1>a, <1>6 DEF DateInv, vars, txVars, logVars, scanVars, Env
<1> QED
  BY <1>a, <1>1, <1>2, <1>3, <1>4, <1>5, <1>6, Steps

LEMMA NextProgress == IInv /\ [Next]_vars => ProgressInv'
<1> SUFFICES ASSUME IInv, [Next]_vars PROVE ProgressInv'
  OBVIOUS
<1>a. TypeOK /\ PlacedInv /\ ProgressInv
  BY DEF IInv
<1>1. ASSUME NEW t \in Txs, NEW S \in SUBSET Files, Start(t, S) PROVE ProgressInv'
  <2>0. /\ UNCHANGED <<cur, written, listed, snaps, sst, vic, rops, cop>>
        /\ pc[t] = "new" /\ pc'[t] = "mkdir" /\ files'[t] = S
        /\ \A u \in Txs \ {t} : pc'[u] = pc[u] /\ files'[u] = files[u]
    BY <1>a, <1>1, StartEffect DEF logVars, scanVars
  <2>1. CallProgress(t)'
    BY <1>a, <2>0 DEF ProgressInv, CallProgress
  <2>2. ASSUME NEW u \in Txs \ {t} PROVE CallProgress(u)'
    BY <1>a, <2>0 DEF ProgressInv, CallProgress
  <2>3. ASSUME NEW c \in Conns PROVE ScanProgress(c)'
    <3>1. sst[c] \in {"read", "restore", "rewrite"} => vic[c] \in Txs
      BY <1>a DEF PlacedInv
    <3>2. files[t] = {}
      BY <1>a, <2>0 DEF ProgressInv, CallProgress
    <3>3. \A u \in Txs : files[u] \subseteq files'[u]
      BY <2>0, <3>2
    <3> QED
      BY <1>a, <2>0, <3>1, <3>3 DEF ProgressInv, ScanProgress
  <2> QED
    BY <2>1, <2>2, <2>3 DEF ProgressInv
<1>2. ASSUME NEW t \in Txs, TxStep(t) PROVE ProgressInv'
  <2>0. /\ UNCHANGED <<files, scanVars>>
        /\ \A u \in Txs \ {t} :
              /\ pc'[u] = pc[u] /\ cur'[u] = cur[u] /\ written'[u] = written[u]
              /\ listed'[u] = listed[u] /\ snaps'[u] = snaps[u]
    BY <1>a, <1>2, TxEffect
  <2>1. ASSUME NEW u \in Txs \ {t} PROVE CallProgress(u)'
    BY <1>a, <2>0 DEF ProgressInv, CallProgress
  <2>2. ASSUME NEW c \in Conns PROVE ScanProgress(c)'
    BY <1>a, <2>0 DEF ProgressInv, ScanProgress, scanVars
  <2>3. CallProgress(t)'
    <3> USE <1>a DEF ProgressInv, CallProgress, TypeOK, Goto, logVars
    <3>1. CASE BeginDir(t)
      BY <3>1 DEF BeginDir
    <3>2. CASE BeginManifest(t)
      BY <3>2 DEF BeginManifest
    <3>3. ASSUME NEW f \in Files, CheckMtime(t, f) PROVE CallProgress(t)'
      BY <3>3 DEF CheckMtime
    <3>4. CASE RecordSnapshot(t)
      BY <3>4 DEF RecordSnapshot
    <3>5. CASE RecordManifest(t)
      BY <3>5 DEF RecordManifest
    <3>6. CASE Write(t)
      BY <3>6 DEF Write
    <3>7. CASE Gate(t)
      BY <3>7 DEF Gate
    <3>8. CASE Revert(t)
      BY <3>8 DEF Revert
    <3>9. CASE Restore(t)
      BY <3>9 DEF Restore
    <3>10. CASE Undo(t)
      BY <3>10 DEF Undo
    <3>11. CASE Replay(t)
      BY <3>11 DEF Replay
    <3>12. CASE Remove(t)
      BY <3>12 DEF Remove
    <3> QED
      BY <1>2, <3>1, <3>2, <3>3, <3>4, <3>5, <3>6, <3>7, <3>8, <3>9, <3>10, <3>11, <3>12
         DEF TxStep
  <2> QED
    BY <2>1, <2>2, <2>3 DEF ProgressInv
<1>3. ASSUME NEW c \in Conns, ScanList(c) \/ ScanStep(c) \/ Detach(c) PROVE ProgressInv'
  <2>0. /\ UNCHANGED <<pc, files, cur, written, listed>>
        /\ \A d \in Conns \ {c} : /\ sst'[d] = sst[d] /\ vic'[d] = vic[d]
                                  /\ rops'[d] = rops[d] /\ cop'[d] = cop[d]
        /\ ScanRemove(c) \/ UNCHANGED snaps
    BY <1>a, <1>3, ScanEffect
  <2>1. ASSUME NEW t \in Txs PROVE snaps'[t] \subseteq snaps[t]
    BY <1>a, <2>0 DEF ScanRemove, TypeOK
  <2>2. ASSUME NEW t \in Txs PROVE CallProgress(t)'
    BY <1>a, <2>0, <2>1 DEF ProgressInv, CallProgress
  <2>3. ASSUME NEW d \in Conns \ {c} PROVE ScanProgress(d)'
    BY <1>a, <2>0 DEF ProgressInv, ScanProgress
  <2>4. ScanProgress(c)'
    <3> USE <1>a, <2>0 DEF ProgressInv, ScanProgress, TypeOK
    <3>1. CASE ScanList(c) \/ ScanDone(c) \/ Detach(c)
      BY <3>1 DEF ScanList, ScanDone, Detach
    <3>2. ASSUME NEW t \in Txs, ScanCheck(c, t) PROVE ScanProgress(c)'
      BY <3>2 DEF ScanCheck
    <3>3. ASSUME NEW f \in Files, ScanSnapshot(c, f) PROVE ScanProgress(c)'
      BY <3>3 DEF ScanSnapshot
    <3>4. CASE ScanRead(c)
      <4>1. vic[c] \in Txs
        BY <3>4 DEF ScanRead, PlacedInv
      <4>2. listed[vic[c]] \subseteq files[vic[c]]
        BY <4>1 DEF CallProgress
      <4>3. /\ vic'[c] = vic[c] /\ sst'[c] = "restore"
            /\ rops'[c] \subseteq listed[vic[c]]
        BY <3>4 DEF ScanRead
      <4> QED
        BY <4>2, <4>3
    <3>5. CASE ScanRewrite(c) \/ ScanRemove(c)
      BY <3>5 DEF ScanRewrite, ScanRemove
    <3> QED
      BY <1>3, <3>1, <3>2, <3>3, <3>4, <3>5 DEF ScanStep
  <2> QED
    BY <2>2, <2>3, <2>4 DEF ProgressInv
<1>4. ASSUME NEW f \in Files, NEW x \in Exts, External(f, x) PROVE ProgressInv'
  <2>1. UNCHANGED <<pc, files, cur, written, logVars, scanVars>>
    BY <1>a, <1>4, ExternalEffect
  <2> QED
    BY <1>a, <2>1 DEF ProgressInv, CallProgress, ScanProgress, logVars, scanVars
<1>5. ASSUME Crash \/ PowerCut PROVE ProgressInv'
  <2>1. /\ UNCHANGED <<files, cur, written, listed, snaps>>
        /\ \A t \in Txs : pc'[t] = IF Live(t) THEN "dead" ELSE pc[t]
        /\ \A c \in Conns : sst'[c] = "off"
    BY <1>a, <1>5, DieEffect
  <2> QED
    BY <1>a, <2>1 DEF ProgressInv, CallProgress, ScanProgress
<1>6. CASE UNCHANGED vars
  BY <1>a, <1>6 DEF ProgressInv, CallProgress, ScanProgress, vars, txVars, logVars, scanVars
<1> QED
  BY <1>a, <1>1, <1>2, <1>3, <1>4, <1>5, <1>6, Steps

\* What the steps do to the content of a file.
LEMMA ContentStep ==
    ASSUME IInv, [Next]_vars, NEW f \in Files
    PROVE  \/ content'[f] = content[f]
           \/ \E t \in Txs : /\ TxStep(t) /\ Live(t) /\ f \in files[t]
                             /\ \/ content'[f] = before[t][f]
                                \/ /\ f = cur[t] /\ pc[t] = "write"
                                   /\ content'[f] = After(t, f)
           \/ \E c \in Conns : /\ ScanRewrite(c) /\ f = cop[c] /\ vic[c] \in Txs
                               /\ f \in files[vic[c]]
                               /\ \/ content'[f] = before[vic[c]][f]
                                  \/ "snapshotLost" \in Env /\ content'[f] = {Torn}
           \/ \E x \in Exts : /\ x \in world.exts /\ content'[f] = content[f] \cup {x}
                              /\ \A t \in Txs : x \notin before[t][f]
<1>a. TypeOK /\ PlacedInv /\ ProgressInv /\ DateInv
  BY DEF IInv
<1>1. CASE \E t \in Txs, S \in SUBSET Files : Start(t, S)
  BY <1>a, <1>1, StartEffect
<1>2. CASE \E t \in Txs : TxStep(t)
  BY <1>a, <1>2, TxEffect
<1>3. CASE \E c \in Conns : ScanList(c) \/ ScanStep(c) \/ Detach(c)
  <2> PICK c \in Conns : ScanList(c) \/ ScanStep(c) \/ Detach(c)
    BY <1>3
  <2>1. ScanRewrite(c) \/ content' = content
    BY <1>a, ScanEffect
  <2>2. ASSUME ScanRewrite(c), content'[f] # content[f]
        PROVE  /\ f = cop[c] /\ vic[c] \in Txs /\ f \in files[vic[c]]
               /\ content'[f] = Snapshot(vic[c], f)
    <3>1. cop[c] \in files[vic[c]] /\ vic[c] \in Txs
      BY <1>a, <2>2 DEF ScanRewrite, PlacedInv, ProgressInv, ScanProgress
    <3> QED
      BY <1>a, <2>2, <3>1 DEF ScanRewrite, TypeOK
  <2>3. ASSUME NEW t \in Txs
        PROVE  \/ Snapshot(t, f) = before[t][f]
               \/ "snapshotLost" \in Env /\ Snapshot(t, f) = {Torn}
    BY <1>a DEF Snapshot, DateInv
  <2> QED
    BY <2>1, <2>2, <2>3
<1>4. CASE \E g \in Files, x \in Exts : x \in world.exts /\ External(g, x)
  <2> PICK g \in Files, x \in Exts : x \in world.exts /\ External(g, x)
    BY <1>4
  <2>1. CASE g = f
    BY <1>a, <2>1, ExternalEffect
  <2>2. CASE g # f
    BY <1>a, <2>2, ExternalEffect
  <2> QED
    BY <2>1, <2>2
<1>5. CASE Crash \/ PowerCut
  BY <1>a, <1>5, DieEffect
<1>6. CASE UNCHANGED vars
  BY <1>6 DEF vars
<1> QED
  BY <1>a, <1>1, <1>2, <1>3, <1>4, <1>5, <1>6, Steps

\* Only a call that begins gets files, reads them and becomes unsettled.
LEMMA FilesStep ==
    ASSUME IInv, [Next]_vars
    PROVE  \/ \E t \in Txs, S \in SUBSET Files : Start(t, S)
           \/ /\ UNCHANGED <<files, before>>
              /\ \A t \in Txs : /\ Unsettled(t)' => Unsettled(t)
                                /\ Live(t)' => Live(t)
<1>a. TypeOK /\ ProgressInv
  BY DEF IInv
<1> USE DEF Unsettled, Live, Ended
<1>1. CASE \E t \in Txs, S \in SUBSET Files : Start(t, S)
  BY <1>1
<1>2. CASE \E t \in Txs : TxStep(t)
  <2> PICK t \in Txs : TxStep(t)
    BY <1>2
  <2>1. /\ UNCHANGED <<files, before>>
        /\ Live(t)
        /\ \A u \in Txs \ {t} : pc'[u] = pc[u] /\ (u \in dir') = (u \in dir)
    BY <1>a, TxEffect
  <2> QED
    BY <2>1
<1>3. CASE \E c \in Conns : ScanList(c) \/ ScanStep(c) \/ Detach(c)
  <2> PICK c \in Conns : ScanList(c) \/ ScanStep(c) \/ Detach(c)
    BY <1>3
  <2>1. /\ UNCHANGED <<pc, files, before>>
        /\ ScanRemove(c) \/ UNCHANGED dir
    BY <1>a, ScanEffect
  <2> QED
    BY <2>1 DEF ScanRemove
<1>4. CASE \E f \in Files, x \in Exts : x \in world.exts /\ External(f, x)
  BY <1>a, <1>4, ExternalEffect DEF logVars
<1>5. CASE Crash \/ PowerCut
  <2>1. /\ UNCHANGED <<files, before, dir>>
        /\ \A t \in Txs : pc'[t] = IF Live(t) THEN "dead" ELSE pc[t]
    BY <1>a, <1>5, DieEffect
  <2> QED
    BY <2>1
<1>6. CASE UNCHANGED vars
  BY <1>6 DEF vars, txVars, logVars
<1> QED
  BY <1>a, <1>1, <1>2, <1>3, <1>4, <1>5, <1>6, Steps

LEMMA NextOwn == IInv /\ [Next]_vars => OwnInv'
<1> SUFFICES ASSUME IInv, [Next]_vars PROVE OwnInv'
  OBVIOUS
<1>a. TypeOK /\ PlacedInv /\ ProgressInv /\ OwnInv
  BY DEF IInv
<1>1. CASE \E t \in Txs, S \in SUBSET Files : Start(t, S)
  <2> PICK t \in Txs, S \in SUBSET Files : Start(t, S)
    BY <1>1
  <2>1. /\ UNCHANGED content
        /\ pc[t] = "new" /\ files'[t] = S /\ before'[t] = content
        /\ \A u \in Txs \ {t} : files'[u] = files[u] /\ before'[u] = before[u]
    BY <1>a, StartEffect
  <2>2. files[t] = {}
    BY <1>a, <2>1 DEF ProgressInv, CallProgress
  <2>3. \A u \in Txs : files[u] \subseteq files'[u]
    BY <2>1, <2>2
  <2>4. \A u \in Txs, f \in Files : f \notin files'[u] =>
           u \notin content'[f] /\ \A v \in Txs : u \notin before'[v][f]
    BY <1>a, <2>1, <2>3 DEF OwnInv
  <2>5. \A u \in Txs, f \in Files : u \notin before'[u][f]
    BY <1>a, <2>1, <2>2 DEF OwnInv
  <2> QED
    BY <2>4, <2>5 DEF OwnInv
<1>2. CASE UNCHANGED <<files, before>>
  <2>1. ASSUME NEW t \in Txs, NEW f \in Files, f \notin files[t] PROVE t \notin content'[f]
    <3>1. t # Torn /\ t \notin Exts
      BY TxAssumption
    <3>2. t \notin content[f] /\ \A u \in Txs : t \notin before[u][f]
      BY <1>a, <2>1 DEF OwnInv
    <3>3. \A u \in Txs : f \in files[u] => t \notin After(u, f)
      BY <2>1, <3>2 DEF After
    <3> QED
      BY <3>1, <3>2, <3>3, ContentStep
  <2> QED
    BY <1>a, <1>2, <2>1 DEF OwnInv
<1> QED
  BY <1>1, <1>2, FilesStep

\* Who names a file while another call is not settled: nobody.
LEMMA NextDisjoint == IInv /\ Orderly /\ [Next]_vars => DisjointInv'
<1> SUFFICES ASSUME IInv, Orderly, [Next]_vars PROVE DisjointInv'
  OBVIOUS
<1>a. TypeOK /\ ProgressInv /\ ScanInv /\ DisjointInv
  BY DEF IInv
<1>1. CASE \E t \in Txs, S \in SUBSET Files : Start(t, S)
  <2> PICK t \in Txs, S \in SUBSET Files : Start(t, S)
    BY <1>1
  <2>1. /\ UNCHANGED dir
        /\ files'[t] = S
        /\ \A u \in Txs \ {t} : pc'[u] = pc[u] /\ files'[u] = files[u]
        /\ \A u \in Txs : Live(u) => files[u] \cap S = {}
        /\ \E c \in Conns : sst[c] = "ready"
    BY <1>a, StartEffect DEF logVars
  <2>2. \A u \in Txs \ {t} : Unsettled(u)' => Unsettled(u) /\ Live(u)
    BY <1>a, <2>1 DEF Unsettled, Live, ScanInv
  <2> QED
    BY <1>a, <2>1, <2>2 DEF DisjointInv
<1>2. CASE UNCHANGED files /\ \A t \in Txs : Unsettled(t)' => Unsettled(t)
  BY <1>a, <1>2 DEF DisjointInv
<1> QED
  BY <1>1, <1>2, FilesStep

\* A scan visits every directory; a call starts only when one is done.
LEMMA NextScan == IInv /\ Orderly /\ [Next]_vars => ScanInv'
<1> SUFFICES ASSUME IInv, Orderly, [Next]_vars PROVE ScanInv'
  OBVIOUS
<1>a. TypeOK /\ ProgressInv /\ ScanInv /\ DateInv
  BY DEF IInv
<1>o. "overlap" \notin Env /\ "removeStops" \notin Env
  BY DEF Orderly
<1>1. CASE \E t \in Txs, S \in SUBSET Files : Start(t, S)
  <2> PICK t \in Txs, S \in SUBSET Files : Start(t, S)
    BY <1>1
  <2>1. /\ UNCHANGED <<dir, sst, todo, vic>>
        /\ pc'[t] = "mkdir"
        /\ \A u \in Txs \ {t} : pc'[u] = pc[u]
        /\ \A c \in Conns : ~ Scanning(c)
    BY <1>a, <1>o, StartEffect DEF logVars, scanVars
  <2>2. \A c \in Conns : /\ ~ Scanning(c)' /\ sst[c] \notin {"read", "restore", "rewrite"}
    BY <2>1 DEF Scanning
  <2>3. \A u \in dir' : Unsettled(u)'
    BY <1>a, <2>1 DEF ScanInv, Unsettled, Live, Ended, TypeOK
  <2> QED
    BY <1>a, <2>1, <2>2, <2>3 DEF ScanInv, TypeOK
<1>2. CASE \E t \in Txs : TxStep(t)
  <2> PICK t \in Txs : TxStep(t)
    BY <1>2
  <2>1. /\ UNCHANGED <<sst, todo, vic>>
        /\ Live(t)
        /\ \A u \in Txs \ {t} : pc'[u] = pc[u] /\ (u \in dir') = (u \in dir)
    BY <1>a, TxEffect DEF scanVars
  <2>2. \A c \in Conns : ~ Scanning(c)
    BY <1>a, <2>1 DEF ScanInv
  <2>3. \A c \in Conns : ~ Scanning(c)' /\ sst[c] \notin {"read", "restore", "rewrite"}
    BY <2>1, <2>2 DEF Scanning
  <2>4. pc'[t] # "dead" /\ (t \in dir' => Live(t)')
    <3> USE <1>a, <2>1 DEF TypeOK, Goto, Live, Ended
    <3>1. CASE BeginDir(t) \/ BeginManifest(t) \/ RecordSnapshot(t) \/ RecordManifest(t)
      BY <3>1 DEF BeginDir, BeginManifest, RecordSnapshot, RecordManifest
    <3>2. CASE Write(t) \/ Gate(t) \/ Restore(t) \/ Replay(t)
      BY <3>2 DEF Write, Gate, Restore, Replay
    <3>3. ASSUME NEW f \in Files, CheckMtime(t, f) PROVE pc'[t] # "dead" /\ Live(t)'
      BY <3>3 DEF CheckMtime
    <3>4. CASE Revert(t) \/ Undo(t)
      BY <3>4 DEF Revert, Undo
    <3>5. CASE Remove(t)
      BY <1>o, <3>5 DEF Remove
    <3> QED
      BY <3>1, <3>2, <3>3, <3>4, <3>5 DEF TxStep
  <2>5. \A u \in dir' : Unsettled(u)'
    <3>1. dir' \subseteq Txs
      BY NextType DEF TypeOK
    <3>2. ASSUME NEW u \in dir', u # t PROVE Unsettled(u)'
      BY <1>a, <2>1, <3>1, <3>2 DEF ScanInv, Unsettled, Live
    <3> QED
      BY <2>4, <3>2 DEF Unsettled
  <2>6. \A c \in Conns, u \in Txs : sst'[c] = "ready" /\ pc'[u] = "dead" => u \notin dir'
    BY <1>a, <2>1, <2>4 DEF ScanInv
  <2> QED
    BY <2>1, <2>3, <2>5, <2>6 DEF ScanInv
<1>3. CASE \E c \in Conns : ScanList(c) \/ ScanStep(c) \/ Detach(c)
  <2> PICK c \in Conns : ScanList(c) \/ ScanStep(c) \/ Detach(c)
    BY <1>3
  <2>0. /\ UNCHANGED <<pc, run, began>>
        /\ \A d \in Conns \ {c} : sst'[d] = sst[d] /\ todo'[d] = todo[d] /\ vic'[d] = vic[d]
        /\ ScanRemove(c) \/ UNCHANGED <<dir, man>>
    BY <1>a, ScanEffect
  <2>1. dir' \subseteq dir
    BY <2>0 DEF ScanRemove
  <2>2. \A u \in dir' : Unsettled(u)'
    BY <1>a, <2>0, <2>1 DEF ScanInv, Unsettled, Live
  <2>3. CASE ScanList(c)
    <3>1. /\ \A t \in Txs : ~ Live(t)
          /\ \A d \in Conns : ~ Scanning(d)
          /\ sst'[c] = "check" /\ todo'[c] = dir /\ UNCHANGED dir
      BY <1>a, <1>o, <2>3 DEF ScanList, TypeOK, logVars
    <3>2. \A d \in Conns \ {c} : ~ Scanning(d)' /\ sst'[d] \notin {"read", "restore", "rewrite"}
      BY <2>0, <3>1 DEF Scanning
    <3>3. \A t \in Txs : ~ Live(t)'
      BY <2>0, <3>1 DEF Live
    <3>4. \A d \in Conns, t \in Txs : sst'[d] = "ready" /\ pc'[t] = "dead" => t \notin dir'
      BY <1>a, <2>0, <3>1 DEF ScanInv
    <3> QED
      BY <2>0, <2>2, <3>1, <3>2, <3>3, <3>4 DEF ScanInv
  <2>4. CASE Detach(c)
    <3>1. sst[c] = "ready" /\ sst'[c] = "off" /\ UNCHANGED <<dir, todo, vic>>
      BY <1>a, <2>4 DEF Detach, TypeOK, logVars
    <3> QED
      BY <1>a, <2>0, <2>2, <3>1 DEF ScanInv, Scanning, Live
  <2>5. CASE ScanStep(c)
    <3>1. Scanning(c)
      BY <2>5 DEF ScanStep, ScanCheck, ScanRead, ScanSnapshot, ScanRewrite, ScanRemove,
                  ScanDone, Scanning
    <3>2. /\ \A d \in Conns \ {c} : ~ Scanning(d)' /\ sst'[d] \notin {"read", "restore", "rewrite"}
          /\ \A t \in Txs : ~ Live(t)'
      BY <1>a, <2>0, <3>1 DEF ScanInv, Scanning, Live
    <3>3. \A t \in dir : pc[t] = "dead"
      BY <1>a, <3>1 DEF ScanInv, Unsettled, TypeOK
    <3>4. /\ \A t \in dir' : Scanning(c)' => t \in todo'[c] \/ (sst'[c] # "check" /\ vic'[c] = t)
          /\ sst'[c] \in {"read", "restore", "rewrite"} => vic'[c] \in dir' \ todo'[c]
          /\ todo'[c] \subseteq dir'
          /\ sst'[c] = "ready" => dir' = {}
      <4>0. \A t \in dir : t \in todo[c] \/ (sst[c] # "check" /\ vic[c] = t)
        BY <1>a, <3>1 DEF ScanInv, TypeOK
      <4>t. todo[c] \subseteq dir
        BY <1>a, <3>1 DEF ScanInv
      <4>1. ASSUME NEW t \in Txs, ScanCheck(c, t)
            PROVE  /\ \A u \in dir' : u \in todo'[c] \/ (sst'[c] # "check" /\ vic'[c] = u)
                   /\ sst'[c] \in {"read", "restore", "rewrite"} => vic'[c] \in dir' \ todo'[c]
                   /\ todo'[c] \subseteq dir'
                   /\ sst'[c] # "ready"
        <5>0. todo \in [Conns -> SUBSET Txs] /\ sst[c] = "check" /\ UNCHANGED dir
          BY <1>a, <4>1 DEF ScanCheck, TypeOK, logVars
        <5>1. todo'[c] = todo[c] \ {t}
          BY <5>0, <4>1 DEF ScanCheck
        <5>2. CASE t \in man /\ began[t] >= run
          <6>1. t \in dir
            BY <1>a, <5>2 DEF TypeOK
          <6>2. began[t] < run /\ began[t] \in Nat /\ run \in Nat
            BY <1>a, <3>3, <6>1 DEF DateInv, TypeOK
          <6> QED
            BY <5>2, <6>2
        <5>3. CASE ~ (t \in man /\ began[t] >= run)
          <6>1. sst'[c] = "read" /\ vic'[c] = t
            BY <1>a, <4>1, <5>3 DEF ScanCheck, TypeOK
          <6>2. t \in todo[c]
            BY <4>1 DEF ScanCheck
          <6> QED
            BY <4>0, <4>t, <5>0, <5>1, <6>1, <6>2
        <5> QED
          BY <5>2, <5>3
      <4>2. ASSUME ScanRead(c) \/ ScanRewrite(c) \/ (\E f \in Files : ScanSnapshot(c, f))
            PROVE  /\ UNCHANGED <<todo, vic, dir>>
                   /\ sst[c] \in {"read", "restore", "rewrite"}
                   /\ sst'[c] \in {"read", "restore", "rewrite"}
        BY <1>a, <4>2 DEF ScanRead, ScanRewrite, ScanSnapshot, TypeOK, logVars
      <4>3. CASE ScanRead(c) \/ ScanRewrite(c) \/ (\E f \in Files : ScanSnapshot(c, f))
        BY <1>a, <4>0, <4>t, <4>2, <4>3 DEF ScanInv
      <4>4. CASE ScanRemove(c)
        BY <1>a, <4>0, <4>t, <4>4 DEF ScanRemove, ScanInv, TypeOK
      <4>5. CASE ScanDone(c)
        BY <1>a, <4>0, <4>t, <4>5 DEF ScanDone, TypeOK, logVars, Scanning
      <4> QED
        BY <2>5, <4>1, <4>3, <4>4, <4>5 DEF ScanStep
    <3>5. \A d \in Conns, t \in Txs : sst'[d] = "ready" /\ pc'[t] = "dead" => t \notin dir'
      <4>1. ASSUME NEW d \in Conns \ {c}, NEW t \in Txs, sst'[d] = "ready", pc'[t] = "dead"
            PROVE  t \notin dir'
        BY <1>a, <2>0, <2>1, <4>1 DEF ScanInv
      <4> QED
        BY <3>4, <4>1
    <3> QED
      BY <2>2, <3>2, <3>4, <3>5 DEF ScanInv
  <2> QED
    BY <2>3, <2>4, <2>5
<1>4. CASE \E f \in Files, x \in Exts : x \in world.exts /\ External(f, x)
  <2>1. UNCHANGED <<pc, dir, sst, todo, vic>>
    BY <1>a, <1>4, ExternalEffect DEF logVars, scanVars
  <2> QED
    BY <1>a, <2>1 DEF ScanInv, Scanning, Live, Unsettled
<1>5. CASE Crash \/ PowerCut
  <2>1. /\ UNCHANGED dir
        /\ \A t \in Txs : pc'[t] = IF Live(t) THEN "dead" ELSE pc[t]
        /\ \A c \in Conns : sst'[c] = "off"
    BY <1>a, <1>5, DieEffect
  <2>2. \A u \in dir' : Unsettled(u)'
    BY <1>a, <2>1 DEF ScanInv, Unsettled, Live, TypeOK
  <2> QED
    BY <2>1, <2>2 DEF ScanInv, Scanning
<1>6. CASE UNCHANGED vars
  <2>1. UNCHANGED <<pc, dir, sst, todo, vic>>
    BY <1>6 DEF vars, txVars, logVars, scanVars
  <2> QED
    BY <1>a, <2>1 DEF ScanInv, Scanning, Live, Unsettled
<1> QED
  BY <1>a, <1>1, <1>2, <1>3, <1>4, <1>5, <1>6, Steps

\* A file of a call changes by its own steps and by other programs.
LEMMA NextLive == IInv /\ Orderly /\ [Next]_vars => LiveInv'
<1> SUFFICES ASSUME IInv, Orderly, [Next]_vars,
                    NEW t \in Txs, Live(t)', NEW f \in files'[t]
             PROVE  CallContent(t, f)'
  BY DEF LiveInv
<1>a. TypeOK /\ ProgressInv /\ ScanInv /\ DisjointInv /\ LiveInv
  BY DEF IInv
<1>b. UNCHANGED world
  BY <1>a, Steps
<1>f. f \in Files
  BY NextType DEF TypeOK
<1> USE DEF CallContent, Kept, After
<1>1. CASE \E u \in Txs, S \in SUBSET Files : Start(u, S)
  <2> PICK u \in Txs, S \in SUBSET Files : Start(u, S)
    BY <1>1
  <2>1. /\ UNCHANGED <<content, late, cur, written>>
        /\ pc[u] = "new" /\ pc'[u] = "mkdir" /\ before'[u] = content
        /\ \A v \in Txs \ {u} : /\ pc'[v] = pc[v] /\ files'[v] = files[v]
                                /\ before'[v] = before[v]
    BY <1>a, StartEffect
  <2>2. CASE t = u
    <3>1. written[t] = {}
      BY <1>a, <2>1, <2>2 DEF ProgressInv, CallProgress
    <3> QED
      BY <2>1, <2>2, <3>1
  <2>3. CASE t # u
    <3>1. Live(t) /\ f \in files[t]
      BY <2>1, <2>3 DEF Live
    <3>2. CallContent(t, f)
      BY <1>a, <3>1 DEF LiveInv
    <3> QED
      BY <1>b, <2>1, <2>3, <3>2
  <2> QED
    BY <2>2, <2>3
<1>2. ASSUME UNCHANGED <<files, before>>, Live(t)
      PROVE  CallContent(t, f)'
  <2>0. f \in files[t] /\ CallContent(t, f)
    BY <1>a, <1>2 DEF LiveInv
  <2>1. CASE \E u \in Txs : u # t /\ TxStep(u)
    <3> PICK u \in Txs : u # t /\ TxStep(u)
      BY <2>1
    <3>1. /\ Live(u)
          /\ pc'[t] = pc[t] /\ cur'[t] = cur[t] /\ written'[t] = written[t]
          /\ late'[t] = late[t]
          /\ \/ content'[f] = content[f]
             \/ f \in files[u]
      BY <1>a, <1>f, TxEffect
    <3>2. f \notin files[u]
      BY <1>2, <1>a, <2>0, <3>1 DEF DisjointInv, Unsettled
    <3> QED
      BY <1>b, <1>2, <2>0, <3>1, <3>2
  <2>2. CASE TxStep(t)
    <3>a. /\ content \in [Files -> Contents] /\ written \in [Txs -> SUBSET Files]
          /\ pc \in [Txs -> Places] /\ cur \in [Txs -> Files \cup {None}]
          /\ before[t] \in [Files -> Contents]
      BY <1>a DEF TypeOK, Places
    <3> USE DEF Goto
    <3>1. CASE BeginDir(t) \/ BeginManifest(t) \/ RecordSnapshot(t) \/ RecordManifest(t) \/ Gate(t)
      <4>1. /\ UNCHANGED <<content, cur, written>>
            /\ pc[t] \notin {"revert", "restore", "close"} /\ pc'[t] # "restore"
        BY <3>a, <3>1 DEF BeginDir, BeginManifest, RecordSnapshot, RecordManifest, Gate
      <4> QED
        BY <1>b, <1>2, <2>0, <4>1
    <3>2. CASE \E g \in Files : CheckMtime(t, g)
      <4>1. /\ UNCHANGED <<content, written>>
            /\ pc[t] = "stat" /\ pc'[t] # "restore"
        BY <3>a, <3>2 DEF CheckMtime
      <4> QED
        BY <1>b, <1>2, <2>0, <4>1
    <3>3. CASE Write(t)
      <4>1. /\ pc[t] = "write" /\ pc'[t] # "restore"
            /\ \/ UNCHANGED <<content, written>>
               \/ /\ content' = [content EXCEPT ![cur[t]] = After(t, cur[t])]
                  /\ written'[t] = written[t] \cup {cur[t]}
        BY <3>a, <3>3 DEF Write
      <4>2. CASE UNCHANGED <<content, written>>
        BY <1>b, <1>2, <2>0, <4>1, <4>2
      <4>3. CASE /\ content' = [content EXCEPT ![cur[t]] = After(t, cur[t])]
                 /\ written'[t] = written[t] \cup {cur[t]}
        <5>1. CASE f = cur[t]
          BY <1>b, <1>f, <1>2, <3>a, <4>1, <4>3, <5>1
        <5>2. CASE f # cur[t]
          BY <1>b, <1>f, <1>2, <2>0, <3>a, <4>1, <4>3, <5>2
        <5> QED
          BY <5>1, <5>2
      <4> QED
        BY <4>1, <4>2, <4>3
    <3>4. CASE Revert(t)
      <4>0. UNCHANGED content /\ pc[t] = "revert"
        BY <3>4 DEF Revert
      <4>1. ASSUME NEW g \in written[t], content[g] = After(t, g),
                   cur' = [cur EXCEPT ![t] = g], pc' = [pc EXCEPT ![t] = "restore"],
                   late' = [late EXCEPT ![t] = {}], UNCHANGED written
            PROVE  CallContent(t, f)'
        <5>1. cur'[t] = g /\ late'[t] = {} /\ pc'[t] = "restore"
          BY <1>a, <3>a, <4>1 DEF TypeOK
        <5> QED
          BY <1>b, <1>2, <2>0, <4>0, <4>1, <5>1
      <4>2. ASSUME NEW g \in written[t], content[g] # After(t, g),
                   written' = [written EXCEPT ![t] = @ \ {g}], UNCHANGED <<cur, pc>>
            PROVE  CallContent(t, f)'
        <5>1. written'[t] = written[t] \ {g}
          BY <3>a, <4>2
        <5>2. CASE f = g
          <6>1. \E x \in content[f] : x \notin After(t, f)
            BY <2>0, <4>2, <5>2
          <6>2. Kept(t, f)
            BY <2>0, <4>2, <5>2, <6>1
          <6> QED
            BY <1>b, <1>2, <2>0, <4>0, <4>2, <5>1, <5>2, <6>2
        <5>3. CASE f # g
          BY <1>b, <1>2, <2>0, <4>0, <4>2, <5>1, <5>3
        <5> QED
          BY <5>2, <5>3
      <4>3. ASSUME written[t] = {}, pc' = [pc EXCEPT ![t] = "close"], UNCHANGED <<cur, written>>
            PROVE  CallContent(t, f)'
        BY <1>b, <1>2, <2>0, <3>a, <4>0, <4>3
      <4> QED
        BY <3>4, <4>1, <4>2, <4>3 DEF Revert
    <3>5. CASE Restore(t)
      <4>1. /\ content' = [content EXCEPT ![cur[t]] = before[t][cur[t]]]
            /\ written'[t] = written[t] \ {cur[t]}
            /\ pc[t] = "restore" /\ pc'[t] = "revert" /\ UNCHANGED cur
        BY <3>a, <3>5 DEF Restore
      <4>2. CASE f = cur[t]
        BY <1>b, <1>f, <1>2, <3>a, <4>1, <4>2
      <4>3. CASE f # cur[t]
        BY <1>b, <1>f, <1>2, <2>0, <3>a, <4>1, <4>3
      <4> QED
        BY <4>2, <4>3
    <3>6. CASE Undo(t)
      <4>0. pc[t] = "undo" /\ pc'[t] \in {"undo", "replay"}
        BY <3>a, <3>6 DEF Undo
      <4>1. ASSUME NEW g \in written[t], content' = [content EXCEPT ![g] = before[t][g]],
                   written' = [written EXCEPT ![t] = @ \ {g}]
            PROVE  CallContent(t, f)'
        <5>1. written'[t] = written[t] \ {g}
          BY <3>a, <4>1
        <5>2. CASE f = g
          BY <1>b, <1>f, <1>2, <3>a, <4>0, <4>1, <5>1, <5>2
        <5>3. CASE f # g
          BY <1>b, <1>f, <1>2, <2>0, <3>a, <4>0, <4>1, <5>1, <5>3
        <5> QED
          BY <5>2, <5>3
      <4>2. ASSUME UNCHANGED <<content, written>>
            PROVE  CallContent(t, f)'
        BY <1>b, <1>2, <2>0, <4>0, <4>2
      <4> QED
        BY <3>6, <4>1, <4>2 DEF Undo
    <3>7. CASE Replay(t)
      <4>1. /\ content'[f] \in {before[t][f], content[f]}
            /\ pc[t] = "replay" /\ pc'[t] = "close"
            /\ UNCHANGED <<cur, written>>
        BY <1>f, <3>a, <3>7 DEF Replay
      <4>2. written[t] = {}
        BY <1>a, <4>1 DEF ProgressInv, CallProgress
      <4> QED
        BY <1>b, <1>2, <2>0, <4>1, <4>2
    <3>8. CASE Remove(t)
      <4>1. /\ UNCHANGED <<content, cur, late, written>>
            /\ pc'[t] = pc[t]
        BY <3>a, <3>8 DEF Remove, Live, Ended
      <4> QED
        BY <1>b, <1>2, <2>0, <4>1
    <3> QED
      BY <2>2, <3>1, <3>2, <3>3, <3>4, <3>5, <3>6, <3>7, <3>8 DEF TxStep
  <2>3. CASE \E c \in Conns : ScanList(c) \/ ScanStep(c) \/ Detach(c)
    <3> PICK c \in Conns : ScanList(c) \/ ScanStep(c) \/ Detach(c)
      BY <2>3
    <3>1. ~ ScanRewrite(c)
      BY <1>2, <1>a DEF ScanRewrite, ScanInv, Scanning
    <3>2. UNCHANGED <<content, pc, late, cur, written>>
      BY <1>a, <3>1, ScanEffect
    <3> QED
      BY <1>b, <1>2, <2>0, <3>2
  <2>4. CASE \E g \in Files, x \in Exts : x \in world.exts /\ External(g, x)
    <3> PICK g \in Files, x \in Exts : x \in world.exts /\ External(g, x)
      BY <2>4
    <3>1. /\ UNCHANGED <<pc, cur, written>>
          /\ content'[g] = content[g] \cup {x}
          /\ \A h \in Files \ {g} : content'[h] = content[h]
      BY <1>a, ExternalEffect
    <3>4. late'[t] = IF pc[t] = "restore" /\ cur[t] = g THEN late[t] \cup {x} ELSE late[t]
      BY ExternalLate
    <3>2. CASE f = g
      BY <1>b, <1>2, <2>0, <3>1, <3>2, <3>4
    <3>3. CASE f # g
      BY <1>b, <1>f, <1>2, <2>0, <3>1, <3>3, <3>4
    <3> QED
      BY <3>2, <3>3
  <2>5. CASE Crash \/ PowerCut
    BY <1>a, <2>5, DieEffect DEF Live, Ended
  <2>6. CASE UNCHANGED vars
    BY <1>b, <1>2, <2>0, <2>6 DEF vars, txVars
  <2>7. CASE \E u \in Txs, S \in SUBSET Files : Start(u, S)
    BY <1>1, <2>7
  <2> QED
    BY <1>a, <2>1, <2>2, <2>3, <2>4, <2>5, <2>6, <2>7, Steps
<1> QED
  BY <1>1, <1>2, FilesStep

\* How a call ends.
LEMMA EndStep ==
    ASSUME IInv, [Next]_vars, NEW t \in Txs, pc'[t] # pc[t]
    PROVE  /\ pc'[t] = "committed" => Remove(t) /\ pc[t] = "commit"
           /\ pc'[t] = "aborted" => Remove(t) /\ pc[t] = "close"
           /\ pc'[t] = "dead" => Live(t) /\ (Crash \/ PowerCut)
<1>a. TypeOK /\ ProgressInv
  BY DEF IInv
<1>1. CASE \E u \in Txs, S \in SUBSET Files : Start(u, S)
  BY <1>a, <1>1, StartEffect
<1>2. CASE \E u \in Txs : TxStep(u)
  <2>1. TxStep(t)
    BY <1>2, <1>a, TxEffect
  <2> USE <1>a DEF TypeOK, Goto
  <2>2. CASE BeginDir(t) \/ BeginManifest(t) \/ RecordSnapshot(t) \/ RecordManifest(t) \/ Gate(t)
    BY <2>2 DEF BeginDir, BeginManifest, RecordSnapshot, RecordManifest, Gate
  <2>3. CASE Write(t) \/ Restore(t) \/ Replay(t) \/ Revert(t) \/ Undo(t)
    BY <2>3 DEF Write, Restore, Replay, Revert, Undo
  <2>4. CASE \E f \in Files : CheckMtime(t, f)
    BY <2>4 DEF CheckMtime
  <2>5. CASE Remove(t)
    BY <2>5 DEF Remove
  <2> QED
    BY <2>1, <2>2, <2>3, <2>4, <2>5 DEF TxStep
<1>3. CASE \E c \in Conns : ScanList(c) \/ ScanStep(c) \/ Detach(c)
  BY <1>a, <1>3, ScanEffect
<1>4. CASE \E f \in Files, x \in Exts : x \in world.exts /\ External(f, x)
  BY <1>a, <1>4, ExternalEffect
<1>5. CASE Crash \/ PowerCut
  BY <1>a, <1>5, DieEffect
<1>6. CASE UNCHANGED vars
  BY <1>6 DEF vars, txVars
<1> QED
  BY <1>a, <1>1, <1>2, <1>3, <1>4, <1>5, <1>6, Steps

\* Whatever writes a file writes an acknowledged edit back.
LEMMA NextCommit == IInv /\ Orderly /\ [Next]_vars => CommitInv'
<1> SUFFICES ASSUME IInv, Orderly, [Next]_vars,
                    NEW u \in Txs, pc'[u] = "committed", NEW f \in files'[u]
             PROVE  /\ Safe(u, content[f])'
                    /\ \A t \in Txs : Unsettled(t)' /\ f \in files'[t] => Safe(u, before[t][f])'
  BY DEF CommitInv
<1>a. TypeOK /\ ProgressInv /\ ScanInv /\ DisjointInv /\ LiveInv /\ CommitInv /\ PlacedInv
  BY DEF IInv
<1>b. UNCHANGED world
  BY <1>a, Steps
<1>f. f \in Files
  BY NextType DEF TypeOK
<1>1. CASE pc[u] = "committed"
  <2>1. f \in files[u]
    <3>1. CASE \E t \in Txs, S \in SUBSET Files : Start(t, S)
      BY <1>a, <1>1, <3>1, StartEffect
    <3> QED
      BY <3>1, FilesStep
  <2>2. /\ Safe(u, content[f])
        /\ \A t \in Txs : Unsettled(t) /\ f \in files[t] => Safe(u, before[t][f])
    BY <1>a, <1>1, <2>1 DEF CommitInv
  <2>3. Safe(u, content[f])'
    <3>1. ASSUME NEW t \in Txs, Live(t), f \in files[t]
          PROVE  Safe(u, before[t][f]) /\ Safe(u, After(t, f))
      BY <2>2, <3>1 DEF Unsettled, Safe, After
    <3>2. ASSUME NEW c \in Conns, ScanRewrite(c), vic[c] \in Txs, f \in files[vic[c]]
          PROVE  Safe(u, before[vic[c]][f])
      <4>1. Unsettled(vic[c])
        BY <1>a, <3>2 DEF ScanRewrite, ScanInv
      <4> QED
        BY <2>2, <3>2, <4>1
    <3> QED
      BY <1>b, <1>f, <2>2, <3>1, <3>2, ContentStep DEF Safe, Env
  <2>4. ASSUME NEW t \in Txs, Unsettled(t)', f \in files'[t]
        PROVE  Safe(u, before[t][f])'
    <3>1. CASE \E v \in Txs, S \in SUBSET Files : Start(v, S)
      <4> PICK v \in Txs, S \in SUBSET Files : Start(v, S)
        BY <3>1
      <4>1. /\ UNCHANGED logVars
            /\ before'[v] = content
            /\ \A w \in Txs \ {v} : /\ pc'[w] = pc[w] /\ files'[w] = files[w]
                                    /\ before'[w] = before[w]
        BY <1>a, StartEffect
      <4>2. CASE t = v
        BY <1>b, <2>2, <4>1, <4>2 DEF Safe, Env
      <4>3. CASE t # v
        BY <1>b, <2>2, <2>4, <4>1, <4>3 DEF Safe, Env, Unsettled, Live, logVars
      <4> QED
        BY <4>2, <4>3
    <3>2. CASE UNCHANGED <<files, before>> /\ (Unsettled(t)' => Unsettled(t))
      BY <1>b, <2>2, <2>4, <3>2 DEF Safe, Env
    <3> QED
      BY <3>1, <3>2, FilesStep
  <2> QED
    BY <2>3, <2>4
<1>2. CASE pc[u] # "committed"
  <2>1. Remove(u) /\ pc[u] = "commit"
    BY <1>2, EndStep
  <2>2. UNCHANGED <<files, before, content>> /\ Live(u)
    BY <2>1 DEF Remove, Live, Ended
  <2>3. u \in content[f]
    BY <1>a, <2>1, <2>2 DEF ProgressInv, CallProgress, LiveInv, CallContent
  <2>4. ASSUME NEW t \in Txs, Unsettled(t)' PROVE f \notin files'[t]
    <3>1. t # u
      BY <2>4 DEF Unsettled, Live, Ended
    <3>2. Unsettled(t)
      BY <2>2, <2>4, FilesStep, StartEffect, <2>1, <1>a
    <3> QED
      BY <1>a, <2>2, <3>1, <3>2 DEF DisjointInv, Unsettled
  <2> QED
    BY <2>2, <2>3, <2>4 DEF Safe
<1> QED
  BY <1>1, <1>2

\* Whatever writes a file leaves the refused edits out.
LEMMA NextRefuse == IInv /\ Orderly /\ [Next]_vars => RefuseInv'
<1> SUFFICES ASSUME IInv, Orderly, [Next]_vars,
                    NEW t \in Txs, NEW f \in Files, Gone(t)', ~ Unrecoverable(t, f)'
             PROVE  /\ Absent(t, f, content[f])'
                    /\ \A u \in Txs : Unsettled(u)' /\ f \in files'[u]
                                        => Absent(t, f, before[u][f])'
  BY DEF RefuseInv
<1>a. /\ TypeOK /\ ProgressInv /\ ScanInv /\ DisjointInv /\ LiveInv /\ RefuseInv
      /\ PlacedInv /\ OwnInv
      /\ Undisturbed /\ world.marker => LogInv /\ DeadInv
  BY DEF IInv
<1>b. /\ UNCHANGED world
      /\ Undisturbed' = Undisturbed
  BY <1>a, Steps DEF Undisturbed, Env
<1>t. t # Torn /\ t \notin Exts /\ world.exts \subseteq Exts
  BY <1>a, TxAssumption DEF TypeOK
<1>s. ASSUME NEW v \in Txs, NEW S \in SUBSET Files, Start(v, S)
      PROVE  /\ UNCHANGED <<content, logVars>>
             /\ v # t /\ pc'[v] = "mkdir"
             /\ before'[v] = content
             /\ \A w \in Txs \ {v} : /\ pc'[w] = pc[w] /\ files'[w] = files[w]
                                     /\ before'[w] = before[w]
  BY <1>a, <1>s, StartEffect DEF Gone
<1>n. before'[t] = before[t]
  BY <1>s, FilesStep
<1>1. CASE Gone(t)
  <2>1. /\ Absent(t, f, content[f])
        /\ \A u \in Txs : Unsettled(u) /\ f \in files[u] => Absent(t, f, before[u][f])
    <3>1. pc[t] = "dead" => pc'[t] = "dead"
      BY EndStep DEF Gone
    <3>2. ~ Unrecoverable(t, f)
      BY <1>b, <3>1 DEF Unrecoverable
    <3> QED
      BY <1>a, <1>1, <3>2 DEF RefuseInv
  <2>2. Absent(t, f, content[f])'
    <3>1. ASSUME NEW u \in Txs, Live(u), f \in files[u]
          PROVE  Absent(t, f, before[u][f]) /\ Absent(t, f, After(u, f))
      <4>1. u # t
        BY <1>1, <3>1 DEF Gone, Live, Ended
      <4> QED
        BY <2>1, <3>1, <4>1 DEF Unsettled, Absent, After
    <3>2. ASSUME NEW c \in Conns, ScanRewrite(c), vic[c] \in Txs, f \in files[vic[c]]
          PROVE  Absent(t, f, before[vic[c]][f])
      <4>1. Unsettled(vic[c])
        BY <1>a, <3>2 DEF ScanRewrite, ScanInv
      <4> QED
        BY <2>1, <3>2, <4>1
    <3>3. Absent(t, f, content'[f])
      BY <1>t, <2>1, <3>1, <3>2, ContentStep DEF Absent
    <3> QED
      BY <1>b, <1>n, <3>3 DEF Absent
  <2>3. ASSUME NEW u \in Txs, Unsettled(u)', f \in files'[u]
        PROVE  Absent(t, f, before[u][f])'
    <3>1. Absent(t, f, before'[u][f])
      <4>1. CASE \E v \in Txs, S \in SUBSET Files : Start(v, S)
        <5> PICK v \in Txs, S \in SUBSET Files : Start(v, S)
          BY <4>1
        <5>1. CASE u = v
          BY <1>s, <2>1, <5>1
        <5>2. CASE u # v
          BY <1>s, <2>1, <2>3, <5>2 DEF Unsettled, Live, logVars
        <5> QED
          BY <5>1, <5>2
      <4>2. CASE UNCHANGED <<files, before>> /\ (Unsettled(u)' => Unsettled(u))
        BY <2>1, <2>3, <4>2
      <4> QED
        BY <4>1, <4>2, FilesStep
    <3> QED
      BY <1>b, <1>n, <3>1 DEF Absent
  <2> QED
    BY <2>2, <2>3
<1>2. CASE ~ Gone(t)
  \* The files of t no longer carry it, whatever ended it.
  <2>1. /\ UNCHANGED <<files, before, content>>
        /\ Unsettled(t) /\ ~ Unsettled(t)'
        /\ f \in files[t] => Absent(t, f, content[f])
    <3>1. CASE pc'[t] = "aborted"
      <4>1. Remove(t) /\ pc[t] = "close"
        BY <1>2, <3>1, EndStep DEF Gone
      <4>2. UNCHANGED <<files, before, content>> /\ Live(t)
        BY <4>1 DEF Remove, Live, Ended
      <4>3. ~ Unsettled(t)'
        BY <3>1 DEF Unsettled, Live, Ended
      <4>4. ASSUME f \in files[t] PROVE Absent(t, f, content[f])
        <5>1. written[t] = {}
          BY <1>a, <4>1 DEF ProgressInv, CallProgress
        <5>2. CallContent(t, f)
          BY <1>a, <4>2, <4>4 DEF LiveInv
        <5>3. t \notin before[t][f]
          BY <1>a DEF OwnInv
        <5> QED
          BY <1>t, <4>1, <5>1, <5>2, <5>3 DEF CallContent, Absent, Kept
      <4> QED
        BY <4>2, <4>3, <4>4 DEF Unsettled
    <3>2. CASE Undisturbed /\ pc'[t] = "dead" /\ t \notin dir' /\ pc[t] # "dead"
      <4>1. Live(t) /\ (Crash \/ PowerCut)
        BY <3>2, EndStep
      <4>2. UNCHANGED <<files, before, content, dir>>
        BY <1>a, <4>1, DieEffect
      <4>3. pc[t] = "mkdir"
        BY <1>a, <1>b, <3>2, <4>1, <4>2 DEF LogInv, CallLog, Unrecoverable
      <4>4. ASSUME f \in files[t] PROVE t \notin content[f]
        <5>1. written[t] = {}
          BY <1>a, <4>3 DEF ProgressInv, CallProgress
        <5>2. CallContent(t, f)
          BY <1>a, <4>1, <4>4 DEF LiveInv
        <5>3. t \notin before[t][f]
          BY <1>a DEF OwnInv
        <5> QED
          BY <1>t, <4>3, <5>1, <5>2, <5>3 DEF CallContent
      <4> QED
        BY <3>2, <4>1, <4>2, <4>4 DEF Unsettled, Live, Ended, Absent
    <3>3. CASE Undisturbed /\ pc'[t] = "dead" /\ t \notin dir' /\ pc[t] = "dead"
      <4>1. t \in dir
        BY <1>2, <3>3 DEF Gone
      <4>2. \E c \in Conns : ScanRemove(c)
        <5>1. CASE \E v \in Txs, S \in SUBSET Files : Start(v, S)
          BY <1>s, <3>3, <4>1, <5>1 DEF logVars
        <5>2. CASE \E v \in Txs : TxStep(v)
          <6> PICK v \in Txs : TxStep(v)
            BY <5>2
          <6>1. /\ Live(v)
                /\ \A u \in Txs \ {v} : (u \in dir') = (u \in dir)
            BY <1>a, TxEffect
          <6>2. t # v
            BY <3>3, <6>1 DEF Live, Ended
          <6> QED
            BY <3>3, <4>1, <6>1, <6>2
        <5>3. CASE \E c \in Conns : ScanList(c) \/ ScanStep(c) \/ Detach(c)
          BY <1>a, <3>3, <4>1, <5>3, ScanEffect
        <5>4. CASE \E g \in Files, x \in Exts : x \in world.exts /\ External(g, x)
          BY <1>a, <3>3, <4>1, <5>4, ExternalEffect DEF logVars
        <5>5. CASE Crash \/ PowerCut
          BY <1>a, <3>3, <4>1, <5>5, DieEffect
        <5>6. CASE UNCHANGED vars
          BY <3>3, <4>1, <5>6 DEF vars, logVars
        <5> QED
          BY <1>a, <5>1, <5>2, <5>3, <5>4, <5>5, <5>6, Steps
      <4> PICK c \in Conns : ScanRemove(c)
        BY <4>2
      <4>3. /\ UNCHANGED <<content, files, before>>
            /\ sst[c] = "restore" /\ rops[c] = {} /\ vic[c] = t
        BY <3>3, <4>1 DEF ScanRemove, txVars
      <4>4. ASSUME f \in files[t] PROVE t \notin content[f]
        <5>1. content[f] = before[t][f]
          BY <1>a, <1>b, <3>3, <4>1, <4>3, <4>4 DEF DeadInv, Unrecoverable
        <5> QED
          BY <1>a, <5>1 DEF OwnInv
      <4> QED
        BY <3>3, <4>1, <4>3, <4>4 DEF Unsettled, Live, Ended, Absent
    <3> QED
      BY <1>b, <1>2, <3>1, <3>2, <3>3 DEF Gone
  <2>2. Absent(t, f, content'[f])
    <3>1. f \notin files[t] => t \notin content[f]
      BY <1>a DEF OwnInv
    <3> QED
      BY <2>1, <3>1 DEF Absent
  <2>3. ASSUME NEW u \in Txs, Unsettled(u)', f \in files'[u]
        PROVE  Absent(t, f, before'[u][f])
    <3>1. u # t /\ f \in files[u]
      BY <2>1, <2>3
    <3>2. Unsettled(u)
      BY <1>s, <2>1, <2>3, <3>1, FilesStep DEF Unsettled, Live, Ended, logVars
    <3>3. f \notin files[t]
      BY <1>a, <2>1, <3>1, <3>2 DEF DisjointInv
    <3>4. t \notin before[u][f]
      BY <1>a, <3>3 DEF OwnInv
    <3> QED
      BY <2>1, <3>4 DEF Absent
  <2> QED
    BY <1>b, <1>n, <2>2, <2>3 DEF Absent
<1> QED
  BY <1>1, <1>2

\* The order of snapshot, manifest and write.
LEMMA NextLog == IInv /\ Undisturbed /\ world.marker /\ [Next]_vars => LogInv'
<1> SUFFICES ASSUME IInv, Undisturbed, world.marker, [Next]_vars, NEW t \in Txs, Live(t)'
             PROVE  CallLog(t)'
  BY DEF LogInv
<1>w. UNCHANGED world
  BY Steps DEF IInv
<1>a. TypeOK /\ ProgressInv /\ ScanInv /\ LogInv
  BY DEF IInv, Undisturbed, Orderly
<1>e. Env = {}
  BY DEF Undisturbed
<1>1. CASE \E u \in Txs, S \in SUBSET Files : Start(u, S)
  <2> PICK u \in Txs, S \in SUBSET Files : Start(u, S)
    BY <1>1
  <2>1. /\ UNCHANGED <<cur, written, dir, man, listed, snaps>>
        /\ pc[u] = "new" /\ pc'[u] = "mkdir"
        /\ \A v \in Txs \ {u} : pc'[v] = pc[v]
    BY <1>a, StartEffect DEF logVars
  <2>2. CASE t = u
    BY <1>a, <2>1, <2>2 DEF ProgressInv, CallProgress, CallLog
  <2>3. CASE t # u
    BY <1>a, <1>w, <2>1, <2>3 DEF LogInv, CallLog, Live
  <2> QED
    BY <2>2, <2>3
<1>2. CASE \E u \in Txs : u # t /\ TxStep(u)
  <2> PICK u \in Txs : u # t /\ TxStep(u)
    BY <1>2
  <2>1. /\ pc'[t] = pc[t] /\ cur'[t] = cur[t] /\ written'[t] = written[t]
        /\ listed'[t] = listed[t] /\ snaps'[t] = snaps[t]
        /\ (t \in dir') = (t \in dir)
        /\ (t \in man') = (t \in man)
    BY <1>a, TxEffect
  <2> QED
    BY <1>a, <1>w, <2>1 DEF LogInv, CallLog, Live
<1>3. CASE TxStep(t)
  <2>0. CallLog(t) /\ Live(t)
    BY <1>a, <1>3, TxEffect DEF LogInv
  <2>a. /\ pc \in [Txs -> Places] /\ cur \in [Txs -> Files \cup {None}]
        /\ written \in [Txs -> SUBSET Files] /\ listed \in [Txs -> SUBSET Files]
        /\ snaps \in [Txs -> SUBSET Files]
    BY <1>a DEF TypeOK, Places
  <2>p. CallProgress(t)
    BY <1>a DEF ProgressInv
  <2> USE <1>e, <1>w, <2>0, <2>a DEF CallLog, Goto, logVars
  <2>1. CASE BeginDir(t) \/ BeginManifest(t)
    BY <2>1, <2>p DEF BeginDir, BeginManifest, CallProgress
  <2>2. CASE \E f \in Files : CheckMtime(t, f)
    BY <2>2 DEF CheckMtime
  <2>3. CASE RecordSnapshot(t)
    BY <2>3 DEF RecordSnapshot
  <2>4. CASE RecordManifest(t)
    BY <2>4 DEF RecordManifest
  <2>5. CASE Write(t)
    BY <2>5 DEF Write
  <2>6. CASE Gate(t) \/ Restore(t) \/ Replay(t)
    BY <2>6 DEF Gate, Restore, Replay
  <2>7. CASE Revert(t)
    BY <2>7 DEF Revert
  <2>8. CASE Undo(t)
    BY <2>8 DEF Undo
  <2>9. CASE Remove(t)
    BY <2>9 DEF Remove, Live, Ended
  <2> QED
    BY <1>3, <2>1, <2>2, <2>3, <2>4, <2>5, <2>6, <2>7, <2>8, <2>9 DEF TxStep
<1>4. CASE \E c \in Conns : ScanList(c) \/ ScanStep(c) \/ Detach(c)
  <2> PICK c \in Conns : ScanList(c) \/ ScanStep(c) \/ Detach(c)
    BY <1>4
  <2>1. /\ UNCHANGED <<pc, cur, written, listed>>
        /\ ScanRemove(c) \/ UNCHANGED <<dir, man, snaps>>
    BY <1>a, ScanEffect
  <2>2. ~ ScanRemove(c)
    BY <1>a, <2>1 DEF ScanInv, ScanRemove, Scanning, Live
  <2> QED
    BY <1>a, <1>w, <2>1, <2>2 DEF LogInv, CallLog, Live
<1>5. CASE \E f \in Files, x \in Exts : x \in world.exts /\ External(f, x)
  BY <1>5 DEF Undisturbed
<1>6. CASE Crash \/ PowerCut
  BY <1>a, <1>6, DieEffect DEF Live, Ended
<1>7. CASE UNCHANGED vars
  BY <1>a, <1>w, <1>7 DEF vars, txVars, logVars, LogInv, CallLog, Live
<1> QED
  BY <1>a, <1>1, <1>2, <1>3, <1>4, <1>5, <1>6, <1>7, Steps

\* What the scan of an orphan has still to restore.
LEMMA NextDead == IInv /\ Undisturbed /\ world.marker /\ [Next]_vars => DeadInv'
<1> SUFFICES ASSUME IInv, Undisturbed, world.marker, [Next]_vars,
                    NEW t \in Txs, NEW f \in Files,
                    pc'[t] = "dead", t \in dir', f \in files'[t] \ world.large,
                    content'[f] # before'[t][f]
             PROVE  /\ t \in man'
                    /\ f \in listed'[t] \cap snaps'[t]
                    /\ \A c \in Conns : vic'[c] = t =>
                          /\ sst'[c] = "restore" => f \in rops'[c]
                          /\ sst'[c] = "rewrite" => f \in rops'[c] \cup {cop'[c]}
  BY Steps DEF DeadInv, IInv
<1>a. /\ TypeOK /\ PlacedInv /\ ProgressInv /\ ScanInv /\ DisjointInv /\ LiveInv
      /\ LogInv /\ DeadInv
  BY DEF IInv, Undisturbed, Orderly
<1>e. Env = {} /\ world.exts = {} /\ \A c \in Conns : c \in world.conns => Allowed[c] = Files
  BY DEF Undisturbed
<1>1. CASE pc[t] # "dead"
  <2>1. Live(t) /\ (Crash \/ PowerCut)
    BY <1>1, EndStep
  <2>2. /\ UNCHANGED <<content, files, before, dir, man, listed, snaps>>
        /\ \A c \in Conns : sst'[c] = "off"
    BY <1>a, <2>1, DieEffect
  <2>3. ~ Removing(t)
    BY <1>e, <2>1 DEF Crash, PowerCut, Die
  <2>4. CallContent(t, f) /\ CallLog(t) /\ CallProgress(t)
    BY <1>a, <2>1, <2>2 DEF LiveInv, LogInv, ProgressInv
  <2>5. f \in written[t]
    <3>1. content[f] # before[t][f]
      BY <2>2
    <3>2. ASSUME content[f] \subseteq before[t][f] \cup world.exts PROVE FALSE
      BY <1>e, <2>4, <3>1, <3>2 DEF CallContent
    <3> QED
      BY <1>e, <2>4, <3>2 DEF CallContent, Kept
  <2>6. t \in man /\ f \in listed[t] \cap snaps[t]
    BY <2>2, <2>3, <2>4, <2>5 DEF CallLog, CallProgress, Removing
  <2> QED
    BY <2>2, <2>6
<1>2. CASE pc[t] = "dead"
  <2>s. ASSUME NEW v \in Txs, NEW S \in SUBSET Files, Start(v, S)
        PROVE  /\ UNCHANGED <<content, cur, written, logVars, run, scanVars>>
               /\ v # t /\ files'[t] = files[t] /\ before'[t] = before[t]
    BY <1>a, <1>2, <2>s, StartEffect
  <2>1. f \in files[t] /\ before'[t] = before[t]
    BY <2>s, FilesStep
  <2>2. t \in dir
    <3>1. Unsettled(t)
      BY <2>s, <1>2, FilesStep DEF Unsettled, logVars, Live, Ended
    <3> QED
      BY <1>2, <3>1 DEF Unsettled, Live, Ended
  <2>3. ASSUME NEW u \in Txs, TxStep(u)
        PROVE  /\ listed'[t] = listed[t] /\ snaps'[t] = snaps[t]
               /\ (t \in man') = (t \in man)
               /\ UNCHANGED scanVars
               /\ f \notin files[u]
    <3>1. Live(u) /\ u # t
      BY <1>a, <1>2, <2>3, TxEffect DEF Live, Ended
    <3>2. f \notin files[u]
      BY <1>a, <1>2, <2>1, <2>2, <3>1 DEF DisjointInv, Unsettled
    <3> QED
      BY <1>a, <2>3, <3>1, <3>2, TxEffect
  <2>4. ASSUME NEW c \in Conns, ScanRewrite(c), f \in files[vic[c]], vic[c] \in Txs
        PROVE  vic[c] = t
    <3>1. Unsettled(vic[c])
      BY <1>a, <2>4 DEF ScanRewrite, ScanInv
    <3> QED
      BY <1>a, <1>2, <2>1, <2>2, <2>4, <3>1 DEF DisjointInv, Unsettled
  <2>5. content'[f] = content[f]
    BY <1>e, <2>1, <2>3, <2>4, ContentStep
  <2>6. /\ t \in man
        /\ f \in listed[t] \cap snaps[t]
        /\ \A c \in Conns : vic[c] = t =>
              /\ sst[c] = "restore" => f \in rops[c]
              /\ sst[c] = "rewrite" => f \in rops[c] \cup {cop[c]}
    BY <1>a, <1>2, <2>1, <2>2, <2>5 DEF DeadInv
  <2>7. CASE \E v \in Txs, S \in SUBSET Files : Start(v, S)
    BY <2>s, <2>6, <2>7 DEF logVars, scanVars
  <2>8. CASE \E u \in Txs : TxStep(u)
    BY <2>3, <2>6, <2>8 DEF scanVars
  <2>9. CASE \E c \in Conns :
                c \in world.conns /\ (ScanList(c) \/ ScanStep(c) \/ Detach(c))
    <3> PICK c \in Conns : c \in world.conns /\ (ScanList(c) \/ ScanStep(c) \/ Detach(c))
      BY <2>9
    <3>1. /\ UNCHANGED listed
          /\ \A d \in Conns \ {c} :
                /\ sst'[d] = sst[d] /\ vic'[d] = vic[d]
                /\ rops'[d] = rops[d] /\ cop'[d] = cop[d]
          /\ ScanRemove(c) \/ UNCHANGED <<dir, man, snaps>>
      BY <1>a, ScanEffect
    <3>2. t \in man' /\ f \in listed'[t] \cap snaps'[t]
      <4>1. CASE ScanRemove(c)
        BY <1>a, <2>6, <3>1, <4>1 DEF ScanRemove, TypeOK
      <4> QED
        BY <2>6, <3>1, <4>1
    <3>3. ASSUME vic'[c] = t
          PROVE  /\ sst'[c] = "restore" => f \in rops'[c]
                 /\ sst'[c] = "rewrite" => f \in rops'[c] \cup {cop'[c]}
      <4> USE <1>a, <2>6, <3>3 DEF TypeOK
      <4>1. CASE ScanList(c) \/ ScanDone(c) \/ Detach(c) \/ ScanRemove(c)
        BY <4>1 DEF ScanList, ScanDone, Detach, ScanRemove
      <4>2. CASE \E u \in Txs : ScanCheck(c, u)
        BY <4>2 DEF ScanCheck
      <4>3. CASE ScanRead(c)
        BY <4>3 DEF ScanRead
      <4>4. CASE \E g \in Files : ScanSnapshot(c, g)
        <5> PICK g \in Files : ScanSnapshot(c, g)
          BY <4>4
        <5>1. /\ vic[c] = t /\ f \in rops[c]
              /\ rops'[c] = rops[c] \ {g}
          BY DEF ScanSnapshot
        <5>2. g = f => cop'[c] = f /\ sst'[c] = "rewrite"
          BY <1>e, <5>1 DEF ScanSnapshot
        <5> QED
          BY <5>1, <5>2
      <4>5. CASE ScanRewrite(c)
        <5>1. /\ vic[c] = t /\ rops'[c] = rops[c] /\ sst'[c] = "restore"
              /\ f \in rops[c] \cup {cop[c]}
          BY <4>5 DEF ScanRewrite
        <5>2. ASSUME f = cop[c] PROVE content'[f] = Snapshot(t, f)
          BY <4>5, <5>1, <5>2 DEF ScanRewrite
        <5>3. Snapshot(t, f) = before[t][f]
          BY <1>e DEF IInv, DateInv, Snapshot
        <5> QED
          BY <2>1, <5>1, <5>2, <5>3
      <4> QED
        BY <4>1, <4>2, <4>3, <4>4, <4>5 DEF ScanStep
    <3> QED
      BY <2>6, <3>1, <3>2, <3>3
  <2>10. CASE \E g \in Files, x \in Exts : x \in world.exts /\ External(g, x)
    BY <1>e, <2>10
  <2>11. CASE Crash \/ PowerCut
    BY <1>a, <2>6, <2>11, DieEffect
  <2>12. CASE UNCHANGED vars
    BY <2>6, <2>12 DEF vars, logVars, scanVars
  <2> QED
    BY <1>a, <2>7, <2>8, <2>9, <2>10, <2>11, <2>12, Steps
<1> QED
  BY <1>1, <1>2

-----------------------------------------------------------------------------
LEMMA InitInv == Init => IInv
<1> SUFFICES ASSUME Init PROVE IInv
  OBVIOUS
<1>1. TypeOK
  BY DEF Init, TypeOK, Contents, Ended
<1>2. PlacedInv /\ ProgressInv /\ DateInv /\ OwnInv
  BY TxAssumption DEF Init, PlacedInv, ProgressInv, CallProgress, ScanProgress, DateInv, OwnInv
<1>3. ScanInv /\ DisjointInv /\ LiveInv /\ CommitInv /\ RefuseInv /\ LogInv /\ DeadInv
  BY DEF Init, ScanInv, DisjointInv, LiveInv, CommitInv, RefuseInv, LogInv, DeadInv,
         Live, Ended, Unsettled, Scanning, Gone
<1> QED
  BY <1>1, <1>2, <1>3 DEF IInv

LEMMA NextInv == IInv /\ [Next]_vars => IInv'
<1> SUFFICES ASSUME IInv, [Next]_vars PROVE IInv'
  OBVIOUS
<1>1. Orderly' = Orderly /\ Undisturbed' = Undisturbed /\ world.marker' = world.marker
  BY Steps DEF IInv, Orderly, Undisturbed, Env
<1>2. Undisturbed => Orderly
  BY DEF Undisturbed, Orderly
<1> QED
  BY <1>1, <1>2, NextType, NextPlaced, NextProgress, NextDate, NextOwn, NextScan,
     NextDisjoint, NextLive, NextCommit, NextRefuse, NextLog, NextDead DEF IInv

LEMMA Inductive == Spec => []IInv
<1>1. IInv /\ [Next]_vars => IInv'
  BY NextInv
<1> QED
  BY <1>1, InitInv, PTL DEF Spec

\* Every variable keeps its type, whatever the environment may do.
THEOREM TypeCorrect == Spec => []TypeOK
<1>1. IInv => TypeOK
  BY DEF IInv
<1> QED
  BY <1>1, Inductive, PTL

\* A transaction that ended, or that a crash ended and an attach recovered, is in
\* all of its files or in none, but for files of a crashed one that have no snapshot
\* because they are too large or the workspace keeps no log.
THEOREM Atomicity == Spec => []AllOrNothing
<1>1. IInv => AllOrNothing
  <2> SUFFICES ASSUME IInv, Undisturbed, Settled, NEW t \in Txs
               PROVE  \/ \A f \in files[t] : t \in content[f]
                      \/ \A f \in files[t] : t \in content[f] => Unrecoverable(t, f)
    BY DEF AllOrNothing
  <2>1. TypeOK /\ ProgressInv /\ CommitInv /\ RefuseInv
    BY DEF IInv, Undisturbed, Orderly
  <2>2. Env = {} /\ world.exts = {} /\ dir = {} /\ ~ Live(t)
    BY DEF Undisturbed, Settled
  <2>3. pc[t] \in Ended
    BY <2>2 DEF Live
  <2>4. CASE pc[t] = "new"
    BY <2>1, <2>4 DEF ProgressInv, CallProgress
  <2>5. CASE pc[t] = "committed"
    BY <2>1, <2>2, <2>5 DEF CommitInv, Safe
  <2>6. CASE pc[t] \in {"aborted", "dead"}
    <3>1. Gone(t)
      BY <2>2, <2>6 DEF Gone
    <3>2. files[t] \subseteq Files
      BY <2>1 DEF TypeOK
    <3>3. \A f \in files[t] : ~ Unrecoverable(t, f) => Absent(t, f, content[f])
      BY <2>1, <3>1, <3>2 DEF RefuseInv
    <3> QED
      BY <2>2, <3>3 DEF Absent
  <2> QED
    BY <2>3, <2>4, <2>5, <2>6 DEF Ended
<1> QED
  BY <1>1, Inductive, PTL

\* No later transaction, rollback, crash or replay takes an acknowledged edit out of
\* a file, with other programs and failing logs about.
THEOREM CommitsStay == Spec => []CommittedStays
<1>1. IInv => CommittedStays
  BY DEF IInv, CommitInv, Safe, CommittedStays
<1> QED
  BY <1>1, Inductive, PTL

\* A refused transaction leaves its edit only where another program wrote.
THEOREM RefusalsLeaveNothing == Spec => []RefusedLeavesNothing
<1>1. IInv => RefusedLeavesNothing
  BY DEF IInv, RefuseInv, Gone, Absent, Unrecoverable, RefusedLeavesNothing
<1> QED
  BY <1>1, Inductive, PTL

\* The gate's rollback takes out an edit of another program only if it was made to
\* a file between the check and the restoring rename of that file.
THEOREM RevertsKeep == Spec => RevertKeepsExternal
<1>1. IInv /\ [Next]_vars => [Orderly => RevertKeeps]_vars
  <2> SUFFICES ASSUME IInv, [Next]_vars, Orderly,
                      NEW t \in Txs, NEW f \in Files, NEW x \in world.exts,
                      pc[t] \in {"revert", "restore"}, f \in files[t], x \in content[f]
               PROVE  \/ x \in content'[f]
                      \/ pc[t] = "restore" /\ cur[t] = f /\ x \in late[t]
    BY DEF RevertKeeps
  <2>1. /\ TypeOK /\ ProgressInv /\ ScanInv /\ DisjointInv /\ LiveInv
        /\ Live(t) /\ x \notin Txs
    BY TxAssumption DEF IInv, TypeOK, Live, Ended
  <2>2. CallContent(t, f)
    BY <2>1 DEF LiveInv
  <2>3. ASSUME NEW u \in Txs, TxStep(u), Live(u), f \in files[u], content'[f] = before[u][f]
        PROVE  \/ x \in content'[f]
               \/ pc[t] = "restore" /\ cur[t] = f /\ x \in late[t]
    <3>1. u = t
      BY <2>1, <2>3 DEF DisjointInv, Unsettled
    <3>2. CASE content'[f] = content[f]
      BY <3>2
    <3>3. CASE content'[f] # content[f]
      <4>1. Restore(t)
        BY <2>1, <2>3, <3>1, <3>3 DEF TxStep, BeginDir, BeginManifest, CheckMtime, RecordSnapshot,
             RecordManifest, Write, Gate, Revert, Undo, Replay, Remove
      <4>2. f = cur[t] /\ pc[t] = "restore"
        BY <2>1, <3>3, <4>1 DEF Restore, TypeOK
      <4> QED
        BY <2>1, <2>2, <2>3, <3>1, <4>2 DEF CallContent, After
    <3> QED
      BY <3>2, <3>3
  <2>4. ASSUME NEW u \in Txs, Live(u), f \in files[u], pc[u] = "write"
        PROVE  FALSE
    BY <2>1, <2>4 DEF DisjointInv, Unsettled
  <2>5. ASSUME NEW c \in Conns, ScanRewrite(c) PROVE FALSE
    BY <2>1, <2>5 DEF ScanInv, ScanRewrite, Scanning
  <2> QED
    BY <2>3, <2>4, <2>5, ContentStep
<1> QED
  BY <1>1, Inductive, PTL DEF Spec, RevertKeepsExternal

-----------------------------------------------------------------------------
(* The refinement.                                                         *)

\* Who is pending on a file is one, and its `before' is what a reader relies on.
ReliedOn ==
    \A f \in Files :
        /\ \A t \in Txs : Pending(t) /\ f \in files[t] => AbsData[f] = before[t][f]
        /\ (\A t \in Txs : Pending(t) => f \notin files[t]) => AbsData[f] = content[f]

LEMMA AbsDataIs == IInv /\ Undisturbed => ReliedOn
<1> SUFFICES ASSUME IInv, Undisturbed, NEW f \in Files
             PROVE  /\ \A t \in Txs : Pending(t) /\ f \in files[t] => AbsData[f] = before[t][f]
                    /\ (\A t \in Txs : Pending(t) => f \notin files[t])
                          => AbsData[f] = content[f]
  BY DEF ReliedOn
<1>1. ASSUME NEW t \in Txs, Pending(t), f \in files[t] PROVE AbsData[f] = before[t][f]
  <2> DEFINE u == CHOOSE u \in Txs : Pending(u) /\ f \in files[u]
  <2>1. u \in Txs /\ Pending(u) /\ f \in files[u]
    BY <1>1
  <2>2. u = t
    BY <1>1, <2>1 DEF IInv, Undisturbed, Orderly, DisjointInv, Pending, Unsettled
  <2> QED
    BY <1>1, <2>2 DEF AbsData
<1>2. ASSUME \A t \in Txs : Pending(t) => f \notin files[t] PROVE AbsData[f] = content[f]
  BY <1>2 DEF AbsData
<1> QED
  BY <1>1, <1>2

\* What a reader relies on stays, as long as nobody is pending on the file that was
\* not, and one that is no longer has put back what it found.
LEMMA DataAt ==
    ASSUME IInv, IInv', Undisturbed, Undisturbed', UNCHANGED <<files, before>>,
           NEW f \in Files,
           \A t \in Txs : f \in files[t] /\ Pending(t)' => Pending(t),
           \A t \in Txs : f \in files[t] /\ Pending(t) /\ ~ Pending(t)'
                             => content'[f] = before[t][f],
           (\A t \in Txs : Pending(t) => f \notin files[t]) => content'[f] = content[f]
    PROVE  AbsData'[f] = AbsData[f]
<1>1. /\ \A t \in Txs : Pending(t) /\ f \in files[t] => AbsData[f] = before[t][f]
      /\ (\A t \in Txs : Pending(t) => f \notin files[t]) => AbsData[f] = content[f]
  BY AbsDataIs DEF ReliedOn
<1>2. (IInv /\ Undisturbed => ReliedOn)'
  BY AbsDataIs, PTL
<1>3. /\ \A t \in Txs : Pending(t)' /\ f \in files[t] => AbsData'[f] = before[t][f]
      /\ (\A t \in Txs : Pending(t)' => f \notin files[t]) => AbsData'[f] = content'[f]
  BY <1>2 DEF ReliedOn
<1>4. \A t, u \in Txs : Pending(t) /\ Pending(u) /\ f \in files[t] /\ f \in files[u] => t = u
  BY DEF IInv, Undisturbed, Orderly, DisjointInv, Pending, Unsettled
<1>5. CASE \E t \in Txs : Pending(t) /\ f \in files[t]
  <2> PICK t \in Txs : Pending(t) /\ f \in files[t]
    BY <1>5
  <2>1. CASE Pending(t)'
    BY <1>1, <1>3, <2>1
  <2>2. CASE ~ Pending(t)'
    BY <1>1, <1>3, <1>4, <2>2
  <2> QED
    BY <2>1, <2>2
<1>6. CASE \A t \in Txs : Pending(t) => f \notin files[t]
  BY <1>1, <1>3, <1>6
<1> QED
  BY <1>5, <1>6

\* The abstract state of a call is that of its control point and its log.
LEMMA StateAt ==
    ASSUME NEW t \in Txs, (pc'[t] = "new") <=> (pc[t] = "new"),
           CommittedNow(t)' <=> CommittedNow(t), Pending(t)' <=> Pending(t)
    PROVE  AbsState'[t] = AbsState[t]
  BY DEF AbsState

LEMMA AbsInit == Init => Atomic!AInit
<1> SUFFICES ASSUME Init PROVE Atomic!AInit
  OBVIOUS
<1>1. AbsState = [t \in Txs |-> "idle"]
  BY DEF Init, AbsState
<1>2. \A t \in Txs : ~ Pending(t)
  BY DEF Init, Pending, Live, Ended
<1>3. AbsData = [f \in Files |-> {}]
  BY <1>2 DEF Init, AbsData
<1>4. files = [t \in Txs |-> {}]
  BY DEF Init
<1> QED
  BY <1>1, <1>3, <1>4 DEF Atomic!AInit

LEMMA AbsStart ==
    ASSUME IInv, IInv', Undisturbed, Undisturbed', Promised, Promised',
           NEW t \in Txs, NEW S \in SUBSET Files, Start(t, S)
    PROVE  Atomic!ABegin(t, S)
<1>a. /\ TypeOK /\ ProgressInv /\ ScanInv
  BY DEF IInv, Undisturbed, Orderly
<1>1. /\ UNCHANGED <<content, dir, man, listed, snaps>>
      /\ pc[t] = "new" /\ pc'[t] = "mkdir" /\ files'[t] = S /\ before'[t] = content
      /\ \A u \in Txs \ {t} : /\ pc'[u] = pc[u] /\ files'[u] = files[u]
                              /\ before'[u] = before[u]
      /\ \A u \in Txs : Live(u) => files[u] \cap S = {}
      /\ \E c \in Conns : sst[c] = "ready"
  BY <1>a, StartEffect DEF logVars
<1>2. S # {} /\ files' = [files EXCEPT ![t] = S]
  BY DEF Start
<1>3. \A u \in Txs : Pending(u) => Live(u)
  BY <1>a, <1>1 DEF ScanInv, Pending
<1>4. ~ Pending(t) /\ ~ CommittedNow(t) /\ Pending(t)' /\ ~ CommittedNow(t)'
  BY <1>1 DEF Pending, CommittedNow, Live, Ended
<1>5. ASSUME NEW u \in Txs \ {t}
      PROVE  /\ CommittedNow(u)' <=> CommittedNow(u)
             /\ Pending(u)' <=> Pending(u)
             /\ AbsState'[u] = AbsState[u]
  <2>1. /\ CommittedNow(u)' <=> CommittedNow(u)
        /\ Pending(u)' <=> Pending(u)
    BY <1>1 DEF CommittedNow, Pending, Removing, Live
  <2> QED
    BY <1>1, <2>1, StateAt
<1>6. /\ AbsState[t] = "idle"
      /\ AbsState' = [AbsState EXCEPT ![t] = "live"]
  <2>1. AbsState'[t] = "live" /\ AbsState[t] = "idle"
    BY <1>1, <1>4 DEF AbsState
  <2> QED
    BY <1>5, <2>1 DEF AbsState
<1>7. \A u \in Txs : AbsState[u] = "live" => files[u] \cap S = {}
  BY <1>1, <1>3 DEF AbsState
<1>8. ASSUME NEW f \in Files PROVE AbsData'[f] = AbsData[f]
  <2>1. /\ \A u \in Txs : Pending(u) /\ f \in files[u] => AbsData[f] = before[u][f]
        /\ (\A u \in Txs : Pending(u) => f \notin files[u]) => AbsData[f] = content[f]
    BY AbsDataIs DEF ReliedOn
  <2>2. (IInv /\ Undisturbed => ReliedOn)'
    BY AbsDataIs, PTL
  <2>3. /\ \A u \in Txs : Pending(u)' /\ f \in files'[u] => AbsData'[f] = before'[u][f]
        /\ (\A u \in Txs : Pending(u)' => f \notin files'[u]) => AbsData'[f] = content'[f]
    BY <2>2 DEF ReliedOn
  <2>4. CASE f \in S
    BY <1>1, <1>3, <1>4, <2>1, <2>3, <2>4
  <2>5. CASE f \notin S
    <3>1. CASE \E u \in Txs : Pending(u) /\ f \in files[u]
      BY <1>1, <1>4, <1>5, <2>1, <2>3, <3>1
    <3>2. CASE \A u \in Txs : Pending(u) => f \notin files[u]
      BY <1>1, <1>4, <1>5, <2>1, <2>3, <2>5, <3>2
    <3> QED
      BY <3>1, <3>2
  <2> QED
    BY <2>4, <2>5
<1>9. AbsData' = AbsData
  BY <1>8 DEF AbsData
<1> QED
  BY <1>2, <1>6, <1>7, <1>9 DEF Atomic!ABegin

LEMMA AbsAbort ==
    ASSUME Promised, Promised', NEW T \in SUBSET Txs, T # {},
           \A t \in T : Pending(t) /\ ~ CommittedNow(t) /\ pc[t] # "new",
           \A t \in T : ~ Pending(t)' /\ ~ CommittedNow(t)' /\ pc'[t] # "new",
           \A t \in Txs \ T : AbsState'[t] = AbsState[t],
           UNCHANGED files, \A f \in Files : AbsData'[f] = AbsData[f]
    PROVE  Atomic!AAbort(T)
<1>1. \A t \in T : AbsState[t] = "live" /\ AbsState'[t] = "aborted"
  BY DEF AbsState
<1>2. AbsState' = [t \in Txs |-> IF t \in T THEN "aborted" ELSE AbsState[t]]
  BY <1>1 DEF AbsState
<1>3. AbsData' = AbsData
  BY DEF AbsData
<1> QED
  BY <1>1, <1>2, <1>3 DEF Atomic!AAbort

LEMMA AbsStutter ==
    ASSUME Promised, Promised', UNCHANGED files,
           \A t \in Txs : AbsState'[t] = AbsState[t],
           \A f \in Files : AbsData'[f] = AbsData[f]
    PROVE  UNCHANGED Atomic!avars
<1>1. AbsState' = AbsState /\ AbsData' = AbsData
  BY DEF AbsState, AbsData
<1> QED
  BY <1>1 DEF Atomic!avars

\* A step of a call commits it, aborts it, or changes nothing a reader may rely on.
LEMMA AbsTx ==
    ASSUME IInv, IInv', Undisturbed, Undisturbed', Promised, Promised', [Next]_vars, NEW t \in Txs, TxStep(t)
    PROVE  [Atomic!ANext]_(Atomic!avars)
<1>a. /\ TypeOK /\ ProgressInv /\ LiveInv
      /\ IF world.marker THEN LogInv ELSE dir = {}
      /\ dir' \in SUBSET Txs /\ man' \in SUBSET dir'
      /\ ~ world.marker => dir' = {}
  BY Steps DEF IInv, Undisturbed, Orderly, PlacedInv, TypeOK
<1>e. Env = {} /\ world.exts = {}
  BY DEF Undisturbed
<1>1. /\ UNCHANGED <<files, before>>
      /\ Live(t)
      /\ \A u \in Txs \ {t} :
            /\ pc'[u] = pc[u] /\ listed'[u] = listed[u] /\ snaps'[u] = snaps[u]
            /\ (u \in dir') = (u \in dir)
            /\ (u \in man') = (u \in man)
      /\ \A f \in Files : content'[f] = content[f] \/ f \in files[t]
  BY <1>a, TxEffect
<1>2. CallProgress(t) /\ (world.marker => CallLog(t))
  BY <1>a, <1>1 DEF LogInv, ProgressInv
<1>3. ASSUME NEW u \in Txs \ {t}
      PROVE  /\ CommittedNow(u)' <=> CommittedNow(u)
             /\ Pending(u)' <=> Pending(u)
             /\ AbsState'[u] = AbsState[u]
  <2>1. /\ CommittedNow(u)' <=> CommittedNow(u)
        /\ Pending(u)' <=> Pending(u)
    BY <1>1 DEF CommittedNow, Pending, Removing, Live
  <2> QED
    BY <1>1, <2>1, StateAt
<1>4. pc[t] # "new"
  BY <1>1 DEF Live, Ended
\* Nobody new is pending; so only files of t that are no longer its need a look.
<1>5. ASSUME Pending(t)' => Pending(t), NEW f \in Files,
             f \notin files[t] \/ (Pending(t) /\ (Pending(t)' \/ content'[f] = before[t][f]))
                               \/ (~ Pending(t) /\ content'[f] = content[f])
      PROVE  AbsData'[f] = AbsData[f]
  BY <1>1, <1>3, <1>5, DataAt
<1>6. CASE ~ Remove(t)
  <2>1. Live(t)' /\ pc'[t] # "new" /\ (pc'[t] = "commit" => ~ Removing(t)')
    <3>0. /\ pc \in [Txs -> Places] /\ written \in [Txs -> SUBSET Files]
      BY <1>a DEF TypeOK, Places
    <3> USE <3>0, <1>2 DEF Goto, Live, Ended
    <3>1. CASE BeginDir(t) \/ BeginManifest(t) \/ RecordSnapshot(t) \/ RecordManifest(t)
      BY <3>1 DEF BeginDir, BeginManifest, RecordSnapshot, RecordManifest
    <3>2. CASE \E f \in Files : CheckMtime(t, f)
      BY <3>2 DEF CheckMtime
    <3>3. CASE Write(t)
      BY <1>a, <3>3 DEF Write, CallLog, Removing, logVars
    <3>4. CASE Gate(t)
      BY <1>a, <3>4 DEF Gate, CallLog, Removing, logVars
    <3>5. CASE Revert(t) \/ Undo(t) \/ Restore(t) \/ Replay(t)
      BY <3>5 DEF Revert, Undo, Restore, Replay
    <3> QED
      BY <1>6, <3>1, <3>2, <3>3, <3>4, <3>5 DEF TxStep
  <2>2. pc[t] # "commit"
    BY <1>6 DEF TxStep, BeginDir, BeginManifest, CheckMtime, RecordSnapshot, RecordManifest,
           Write, Gate, Revert, Restore, Undo, Replay
  <2>3. Pending(t) /\ Pending(t)' /\ ~ CommittedNow(t) /\ ~ CommittedNow(t)'
    BY <1>1, <2>1, <2>2 DEF Pending, CommittedNow, Live, Ended
  <2>4. AbsState'[t] = AbsState[t]
    BY <1>4, <2>1, <2>3, StateAt
  <2> QED
    BY <1>1, <1>3, <1>5, <2>3, <2>4, AbsStutter
<1>7. CASE Remove(t)
  <2>1. /\ UNCHANGED <<content, listed>>
        /\ pc[t] \in {"commit", "close"}
        /\ pc'[t] \in {pc[t], IF pc[t] = "commit" THEN "committed" ELSE "aborted"}
    BY <1>a, <1>7 DEF Remove, TypeOK, Goto
  <2>2. ASSUME NEW f \in files[t]
        PROVE  /\ pc[t] = "close" => content'[f] = before[t][f]
               /\ pc[t] = "commit" => content'[f] = before[t][f] \cup {t}
    <3>1. CallContent(t, f)
      BY <1>a, <1>1 DEF LiveInv
    <3>2. CASE pc[t] = "close"
      <4>1. f \notin written[t]
        BY <1>2, <3>2 DEF CallProgress
      <4>2. content[f] \subseteq before[t][f]
        BY <1>e, <3>1, <4>1 DEF CallContent, Kept
      <4> QED
        BY <2>1, <3>1, <3>2, <4>2 DEF CallContent
    <3>3. CASE pc[t] = "commit"
      <4>1. f \in written[t]
        BY <1>2, <3>3 DEF CallProgress
      <4>2. /\ before[t][f] \subseteq content[f] /\ t \in content[f]
            /\ content[f] \subseteq before[t][f] \cup {t}
        BY <1>e, <3>1, <4>1 DEF CallContent, After
      <4> QED
        BY <2>1, <3>3, <4>2
    <3> QED
      BY <2>1, <3>2, <3>3
  <2>3. CASE pc[t] = "close"
    <3>1. Pending(t) /\ ~ CommittedNow(t) /\ ~ CommittedNow(t)'
      BY <1>1, <2>1, <2>3 DEF Pending, CommittedNow
    <3>2. \A f \in Files : AbsData'[f] = AbsData[f]
      BY <1>5, <2>2, <2>3, <3>1
    <3>3. CASE pc'[t] = "close"
      <4>1. Pending(t)'
        BY <3>1, <3>3 DEF Pending, Live, Ended
      <4>2. AbsState'[t] = AbsState[t]
        BY <1>4, <3>1, <3>3, <4>1, StateAt
      <4> QED
        BY <1>1, <1>3, <3>2, <4>2, AbsStutter
    <3>4. CASE pc'[t] = "aborted"
      <4>1. ~ Pending(t)'
        BY <3>4 DEF Pending, Live, Ended
      <4>2. Atomic!AAbort({t})
        BY <1>1, <1>3, <1>4, <3>1, <3>2, <3>4, <4>1, AbsAbort
      <4> QED
        BY <4>2 DEF Atomic!ANext
    <3> QED
      BY <2>1, <2>3, <3>3, <3>4
  <2>4. CASE pc[t] = "commit" /\ Removing(t)
    <3>1. CommittedNow(t) /\ ~ Pending(t)
      BY <2>4 DEF Pending, CommittedNow
    <3>2. CommittedNow(t)' /\ ~ Pending(t)'
      <4>1. CASE pc'[t] = "committed"
        BY <4>1 DEF Pending, CommittedNow
      <4>2. CASE pc'[t] = "commit"
        <5>1. /\ snaps'[t] \subseteq snaps[t] /\ (t \in man' => t \in man)
              /\ t \in dir' /\ UNCHANGED listed
          BY <1>a, <1>7, <2>4, <4>2 DEF Remove, Removing, TypeOK, Goto
        <5> QED
          BY <2>4, <4>2, <5>1 DEF Pending, CommittedNow, Removing
      <4> QED
        BY <2>1, <2>4, <4>1, <4>2
    <3>3. AbsState'[t] = AbsState[t]
      BY <1>4, <2>1, <2>4, <3>1, <3>2, StateAt
    <3>4. \A f \in Files : AbsData'[f] = AbsData[f]
      BY <1>5, <2>1, <3>1, <3>2
    <3> QED
      BY <1>1, <1>3, <3>3, <3>4, AbsStutter
  <2>5. CASE pc[t] = "commit" /\ ~ Removing(t)
    <3>1. ~ CommittedNow(t) /\ Pending(t)
      BY <1>1, <2>5 DEF Pending, CommittedNow
    <3>2. CASE ~ CommittedNow(t)'
      <4>1. pc'[t] = "commit" /\ Pending(t)'
        BY <2>1, <2>5, <3>2 DEF Pending, CommittedNow, Live, Ended
      <4>2. AbsState'[t] = AbsState[t]
        BY <1>4, <3>1, <3>2, <4>1, StateAt
      <4> QED
        BY <1>1, <1>3, <1>5, <3>1, <4>1, <4>2, AbsStutter
    <3>3. CASE CommittedNow(t)'
      <4>1. pc'[t] # "new" /\ ~ Pending(t)'
        BY <2>1, <2>5, <3>3 DEF Pending, CommittedNow, Live, Ended
      <4>2. AbsState[t] = "live" /\ AbsState' = [AbsState EXCEPT ![t] = "committed"]
        <5>1. AbsState[t] = "live" /\ AbsState'[t] = "committed"
          BY <1>4, <3>1, <3>3, <4>1 DEF AbsState
        <5> QED
          BY <1>3, <5>1 DEF AbsState
      <4>3. AbsData' = [f \in Files |-> IF f \in files[t] THEN AbsData[f] \cup {t}
                                         ELSE AbsData[f]]
        <5>1. ASSUME NEW f \in Files, f \notin files[t] PROVE AbsData'[f] = AbsData[f]
          BY <1>5, <3>1, <4>1, <5>1
        <5>2. ASSUME NEW f \in Files, f \in files[t] PROVE AbsData'[f] = AbsData[f] \cup {t}
          <6>1. AbsData[f] = before[t][f]
            BY <3>1, <5>2, AbsDataIs DEF ReliedOn
          <6>2. (IInv /\ Undisturbed => ReliedOn)'
            BY AbsDataIs, PTL
          <6>3. \A u \in Txs : Pending(u)' => f \notin files'[u]
            <7>1. ASSUME NEW u \in Txs, u # t, Pending(u), f \in files[u] PROVE FALSE
              BY <3>1, <5>2, <7>1
                 DEF IInv, Undisturbed, Orderly, DisjointInv, Pending, Unsettled
            <7> QED
              BY <1>1, <1>3, <4>1, <7>1
          <6>4. AbsData'[f] = content'[f]
            BY <6>2, <6>3 DEF ReliedOn
          <6> QED
            BY <2>2, <2>5, <5>2, <6>1, <6>4
        <5> QED
          BY <5>1, <5>2 DEF AbsData
      <4>4. Atomic!ACommit(t)
        BY <1>1, <4>2, <4>3 DEF Atomic!ACommit
      <4> QED
        BY <4>4 DEF Atomic!ANext
    <3> QED
      BY <3>2, <3>3
  <2> QED
    BY <2>1, <2>3, <2>4, <2>5
<1> QED
  BY <1>6, <1>7

\* The replay of an orphan puts back what it found, and its end is the abort.
LEMMA AbsScan ==
    ASSUME IInv, IInv', Undisturbed, Undisturbed', Promised, Promised', [Next]_vars,
           NEW c \in Conns, ScanList(c) \/ ScanStep(c) \/ Detach(c)
    PROVE  [Atomic!ANext]_(Atomic!avars)
<1>a. TypeOK /\ PlacedInv /\ ProgressInv /\ ScanInv /\ DateInv
  BY DEF IInv, Undisturbed, Orderly
<1>1. /\ UNCHANGED <<pc, files, before, listed>>
      /\ ScanRewrite(c) \/ UNCHANGED content
      /\ ScanRemove(c) \/ UNCHANGED <<dir, man, snaps>>
  BY <1>a, ScanEffect
<1>2. CASE ~ ScanRemove(c)
  <2>1. ASSUME NEW t \in Txs
        PROVE  /\ Pending(t)' <=> Pending(t)
               /\ AbsState'[t] = AbsState[t]
    <3>1. /\ CommittedNow(t)' <=> CommittedNow(t)
          /\ Pending(t)' <=> Pending(t)
      BY <1>1, <1>2 DEF CommittedNow, Pending, Removing, Live
    <3> QED
      BY <1>1, <3>1, StateAt
  <2>2. ASSUME NEW f \in Files PROVE AbsData'[f] = AbsData[f]
    <3>1. ASSUME \A t \in Txs : Pending(t) => f \notin files[t]
          PROVE  content'[f] = content[f]
      <4>1. CASE ScanRewrite(c)
        <5>1. /\ vic[c] \in Txs /\ vic[c] \in dir /\ cop[c] \in files[vic[c]]
              /\ \A t \in Txs : ~ Live(t)
          BY <1>a, <4>1
             DEF ScanRewrite, ScanInv, PlacedInv, ProgressInv, ScanProgress, Scanning
        <5>2. Pending(vic[c])
          BY <1>a, <5>1 DEF ScanInv, Unsettled, Pending
        <5>3. f # cop[c]
          BY <3>1, <5>1, <5>2
        <5> QED
          BY <1>a, <4>1, <5>3 DEF ScanRewrite, TypeOK
      <4> QED
        BY <1>1, <4>1
    <3> QED
      BY <1>1, <2>1, <3>1, DataAt
  <2> QED
    BY <1>1, <2>1, <2>2, AbsStutter
<1>3. CASE ScanRemove(c)
  <2>1. /\ sst[c] = "restore" /\ rops[c] = {} /\ UNCHANGED content
        /\ dir' = dir \ {vic[c]}
    BY <1>3 DEF ScanRemove
  <2>2. /\ vic[c] \in Txs /\ vic[c] \in dir
        /\ \A t \in Txs : ~ Live(t)
    BY <1>a, <2>1 DEF ScanInv, PlacedInv, Scanning
  <2>3. pc[vic[c]] = "dead"
    BY <1>a, <2>2 DEF ScanInv, Unsettled
  \* A call died, so there are crashes, and every file can be restored.
  <2>d. DeadInv /\ world.large = {}
    <3>1. run \in Nat /\ began[vic[c]] \in Nat /\ began[vic[c]] < run /\ run <= world.crashes
      BY <1>a, <2>2, <2>3 DEF DateInv, TypeOK
    <3>2. world.crashes # 0
      BY <3>1
    <3>3. world.marker /\ world.large = {}
      BY <3>2 DEF Promised
    <3> QED
      BY <3>3 DEF IInv
  <2>4. ASSUME NEW t \in Txs
        PROVE  /\ CommittedNow(t) <=> pc[t] = "committed"
               /\ CommittedNow(t)' <=> pc[t] = "committed"
               /\ Pending(t) <=> pc[t] = "dead" /\ t \in dir
               /\ Pending(t)' <=> pc[t] = "dead" /\ t \in dir'
    BY <1>1, <2>2 DEF CommittedNow, Pending, Live, Ended
  <2>5. ASSUME NEW t \in Txs \ {vic[c]} PROVE AbsState'[t] = AbsState[t]
    BY <1>1, <2>1, <2>4, StateAt
  <2>6. ASSUME NEW f \in Files PROVE AbsData'[f] = AbsData[f]
    <3>1. f \in files[vic[c]] => content[f] = before[vic[c]][f]
      BY <1>a, <2>1, <2>2, <2>3, <2>d DEF DeadInv, TypeOK
    <3> QED
      BY <1>1, <2>1, <2>4, <3>1, DataAt
  <2>7. Atomic!AAbort({vic[c]})
    BY <1>1, <2>1, <2>2, <2>3, <2>4, <2>5, <2>6, AbsAbort
  <2> QED
    BY <2>2, <2>7 DEF Atomic!ANext
<1> QED
  BY <1>2, <1>3

\* A crash aborts the calls that have no log yet; the others wait for their replay.
LEMMA AbsCrash ==
    ASSUME IInv, IInv', Undisturbed, Undisturbed', Promised, Promised', Crash
    PROVE  [Atomic!ANext]_(Atomic!avars)
<1>c. world.marker
  <2>1. run \in Nat /\ run < world.crashes
    BY DieEffect DEF IInv, TypeOK
  <2>2. world.crashes # 0
    BY <2>1
  <2> QED
    BY <2>2 DEF Promised
<1>a. TypeOK /\ ProgressInv /\ LiveInv /\ LogInv
  BY <1>c DEF IInv, Undisturbed, Orderly
<1>e. Env = {} /\ world.exts = {}
  BY DEF Undisturbed
<1>1. /\ UNCHANGED <<content, files, before, dir, man, listed, snaps>>
      /\ \A t \in Txs : pc'[t] = IF Live(t) THEN "dead" ELSE pc[t]
      /\ \A t \in Txs : ~ Removing(t)
  BY <1>a, <1>e, DieEffect DEF Crash, Die
<1> DEFINE T == {t \in Txs : Live(t) /\ t \notin dir}
<1>2. ASSUME NEW t \in Txs
      PROVE  /\ CommittedNow(t) <=> pc[t] = "committed"
             /\ CommittedNow(t)' <=> pc[t] = "committed"
             /\ Pending(t) <=> Live(t) \/ (pc[t] = "dead" /\ t \in dir)
             /\ Pending(t)' <=> Pending(t) /\ t \notin T
             /\ pc'[t] = "new" <=> pc[t] = "new"
  BY <1>1 DEF CommittedNow, Pending, Live, Ended
<1>3. ASSUME NEW t \in Txs \ T PROVE AbsState'[t] = AbsState[t]
  BY <1>2, StateAt
<1>4. ASSUME NEW f \in Files PROVE AbsData'[f] = AbsData[f]
  <2>1. ASSUME NEW t \in T, f \in files[t] PROVE content[f] = before[t][f]
    <3>1. pc[t] = "mkdir"
      BY <1>a DEF LogInv, CallLog
    <3>2. f \notin written[t] /\ CallContent(t, f)
      BY <1>a, <2>1, <3>1 DEF ProgressInv, CallProgress, LiveInv
    <3>3. content[f] \subseteq before[t][f]
      BY <1>e, <3>1, <3>2 DEF CallContent
    <3> QED
      BY <3>2, <3>3 DEF CallContent
  <2> QED
    BY <1>1, <1>2, <2>1, DataAt
<1>5. CASE T = {}
  BY <1>1, <1>3, <1>4, <1>5, AbsStutter
<1>6. CASE T # {}
  <2>1. \A t \in T : /\ Pending(t) /\ ~ CommittedNow(t) /\ pc[t] # "new"
                     /\ ~ Pending(t)' /\ ~ CommittedNow(t)' /\ pc'[t] # "new"
    BY <1>2 DEF Live, Ended
  <2>2. T \in SUBSET Txs
    OBVIOUS
  <2>3. Atomic!AAbort(T)
    <3> HIDE DEF T
    <3> QED
      BY <1>1, <1>3, <1>4, <1>6, <2>1, <2>2, AbsAbort
  <2> QED
    BY <2>2, <2>3 DEF Atomic!ANext
<1> QED
  BY <1>5, <1>6

\* transaction_apply, its log and the scans keep the promise of AtomicTx: a batch
\* happens at once or not at all, and a crash only decides that it never happened.
THEOREM Implements == Spec => ImplementsAtomicTx
<1>1. IInv /\ [Next]_vars /\ IInv' => [Atomic!ANext]_(Atomic!avars)
  <2> SUFFICES ASSUME IInv, [Next]_vars, IInv' PROVE [Atomic!ANext]_(Atomic!avars)
    OBVIOUS
  <2>a. TypeOK
    BY DEF IInv
  <2>1. Promised' = Promised /\ Undisturbed' = Undisturbed
    BY <2>a, Steps DEF Promised, Undisturbed, Env
  <2>2. CASE ~ Promised
    BY <2>1, <2>2 DEF Atomic!avars
  <2>3. CASE Promised
    <3>0. Promised' /\ Undisturbed /\ Undisturbed'
      BY <2>1, <2>3 DEF Promised
    <3>1. ASSUME NEW t \in Txs, NEW S \in SUBSET Files, Start(t, S)
          PROVE  [Atomic!ANext]_(Atomic!avars)
      BY <2>3, <3>0, <3>1, AbsStart DEF Atomic!ANext
    <3>2. ASSUME NEW t \in Txs, TxStep(t) PROVE [Atomic!ANext]_(Atomic!avars)
      BY <2>3, <3>0, <3>2, AbsTx
    <3>3. ASSUME NEW c \in Conns, ScanList(c) \/ ScanStep(c) \/ Detach(c)
          PROVE  [Atomic!ANext]_(Atomic!avars)
      BY <2>3, <3>0, <3>3, AbsScan
    <3>4. CASE \E f \in Files, x \in Exts : x \in world.exts /\ External(f, x)
      BY <3>0, <3>4 DEF Undisturbed
    <3>5. CASE Crash
      BY <2>3, <3>0, <3>5, AbsCrash
    <3>6. CASE PowerCut
      BY <3>0, <3>6 DEF Undisturbed, PowerCut
    <3>7. CASE UNCHANGED vars
      <4>1. UNCHANGED <<content, files, before, pc, dir, man, listed, snaps>>
        BY <3>7 DEF vars, txVars, logVars
      <4>2. AbsData' = AbsData /\ AbsState' = AbsState
        BY <4>1 DEF AbsData, AbsState, Pending, CommittedNow, Removing, Live
      <4> QED
        BY <2>1, <4>1, <4>2 DEF Atomic!avars
    <3> QED
      BY <2>a, <3>1, <3>2, <3>3, <3>4, <3>5, <3>6, <3>7, Steps
  <2> QED
    BY <2>2, <2>3
<1> QED
  BY <1>1, AbsInit, Inductive, PTL DEF Spec, ImplementsAtomicTx, Atomic!ASpec
=============================================================================
