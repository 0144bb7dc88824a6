----------------------------- MODULE EditGuards -----------------------------
(***************************************************************************)
(* One file under write_file, edit_file, undo_edit and read_file of several*)
(* sessions, beside programs that write it without asking plumb            *)
(* (internal/tools: write_guards.go, read_tracker.go, undo_store.go).      *)
(*                                                                         *)
(* A write call holds the path lock from its guard to its last record      *)
(* (PathLocks); a read does not take it, and no other program does.  A     *)
(* text stands for content and for its SHA-256.  The file system's clock   *)
(* ticks rarely, so two writes may leave one mtime.                        *)
(***************************************************************************)
EXTENDS Naturals

CONSTANTS
    Sessions,
    MaxText,    \* bound: texts ever written
    MaxTime,    \* bound: ticks of the clock
    MaxOther,   \* bound: writes of other programs
    MaxTries    \* maxEditRetries

ASSUME EditAssumption ==
    /\ MaxText \in Nat \ {0} /\ MaxTime \in Nat \ {0}
    /\ MaxOther \in Nat /\ MaxTries \in Nat \ {0}

NoText == 0     \* what a missing file holds
Texts == 0..MaxText
Unknown == MaxText + 1
Version == {v \in [text : Texts, mtime : 0..MaxTime] : v.text = NoText <=> v.mtime = 0}
NoVersion == [text |-> NoText, mtime |-> 0]
NoUndo == [before |-> NoText, after |-> NoText]

Tools == {"none", "write", "edit", "undo", "rollback"}
Places == {"idle", "capture", "read", "stat", "stage", "publish", "detect",
           "record", "diagnose", "take"}
Call == [pc : Places, tool : Tools,
         forced : BOOLEAN,     \* overwrite_changed, or force of an undo
         base : Texts,         \* the text read under the lock
         seenAt : 0..MaxTime,  \* preReadMtime
         staged : Version,     \* writeResult.written
         guarded : BOOLEAN,    \* history: the guard compared a record
         raced : BOOLEAN,      \* history: another program wrote after the guard
         late : BOOLEAN,       \* history: and after the last look at the file
         tries : 0..(MaxTries - 1)]
NoCall == [pc |-> "idle", tool |-> "none", forced |-> FALSE, base |-> NoText,
           seenAt |-> 0, staged |-> NoVersion, guarded |-> FALSE, raced |-> FALSE,
           late |-> FALSE, tries |-> 0]

VARIABLES
    clock,
    others,     \* writes of other programs so far
    lastText,   \* texts 1..lastText exist
    file,       \* what is on disk
    call,       \* a session's write call
    reading,    \* what its read_file has read and not recorded yet
    record,     \* its ReadTracker entry
    undo,       \* its UndoStore entry
    shown,      \* history: texts it was shown or put on disk itself
    was         \* history: what the write of a text replaced, if it saw that
fileVars == <<clock, others, lastText, file>>
trackVars == <<reading, record, undo>>
editVars == <<fileVars, call, trackVars, shown, was>>

EditTypeOK ==
    /\ clock \in 1..MaxTime
    /\ others \in 0..MaxOther
    /\ lastText \in 1..MaxText
    /\ file \in Version
    /\ call \in [Sessions -> Call]
    /\ reading \in [Sessions -> Version]
    /\ record \in [Sessions -> Version]
    /\ undo \in [Sessions -> [before : Texts, after : Texts]]
    /\ shown \in [Sessions -> SUBSET Texts]
    /\ was \in [Texts -> Texts \cup {Unknown}]

EditInit ==
    /\ clock = 1
    /\ others = 0
    /\ lastText = 1
    /\ file = [text |-> 1, mtime |-> 1]
    /\ call = [s \in Sessions |-> NoCall]
    /\ reading = [s \in Sessions |-> NoVersion]
    /\ record = [s \in Sessions |-> NoVersion]
    /\ undo = [s \in Sessions |-> NoUndo]
    /\ shown = [s \in Sessions |-> {}]
    /\ was = [t \in Texts |-> Unknown]

-----------------------------------------------------------------------------
At(s, place) == call[s].pc = place
Moves(s, next) == call' = [call EXCEPT ![s] = next]
Go(s, place) == Moves(s, [call[s] EXCEPT !.pc = place])

HasRead(s) == record[s].mtime # 0

\* Mutant: only an advanced mtime counts as a change.
ChangedByMtime(s) == HasRead(s) /\ file.text # NoText /\ file.mtime > record[s].mtime

\* The file differs from what the session last read: a later mtime, or
\* another hash.
ChangedSinceSessionRead(s) ==
    /\ HasRead(s)
    /\ file.text # NoText
    /\ file.mtime > record[s].mtime \/ file.text # record[s].text

\* The path lock is free.
Unlocked == \A s \in Sessions : At(s, "idle")

\* checkUndoSafe without force.
UndoSafe(s) == file.text # NoText /\ file.text = undo[s].after

\* The version safeWrite would stage now; no text stands for os.Remove.
Staged(t) == IF t = NoText THEN NoVersion ELSE [text |-> t, mtime |-> clock]

-----------------------------------------------------------------------------
(* write_file and edit_file.  A refusal changes nothing and is not a step.  *)

BeginWrite(s, force) ==
    /\ Unlocked
    /\ force \/ ~ ChangedSinceSessionRead(s)
    /\ Moves(s, [NoCall EXCEPT !.pc = "capture", !.tool = "write", !.forced = force,
                              !.guarded = HasRead(s) /\ ~ force])
    /\ UNCHANGED <<fileVars, trackVars, shown, was>>

\* writeFileCapture: the text an undo or a rollback restores.
Capture(s) ==
    /\ At(s, "capture")
    /\ Moves(s, [call[s] EXCEPT !.pc = "stage", !.base = file.text, !.late = FALSE])
    /\ UNCHANGED <<fileVars, trackVars, shown, was>>

BeginEdit(s) ==
    /\ Unlocked
    /\ Moves(s, [NoCall EXCEPT !.pc = "read", !.tool = "edit"])
    /\ UNCHANGED <<fileVars, trackVars, shown, was>>

\* tryEdit reads the file.  A missing file, or a text the edit does not apply
\* to, ends the call.
EditRead(s) ==
    /\ At(s, "read")
    /\ \/ /\ file.text # NoText
          /\ Moves(s, [call[s] EXCEPT !.pc = "stat", !.base = file.text,
                                     !.seenAt = file.mtime, !.late = FALSE])
       \/ Moves(s, NoCall)
    /\ UNCHANGED <<fileVars, trackVars, shown, was>>

Retry(s) ==
    IF call[s].tries + 1 = MaxTries THEN Moves(s, NoCall)
    ELSE Moves(s, [call[s] EXCEPT !.pc = "read", !.tries = @ + 1, !.staged = NoVersion,
                                     !.base = NoText, !.seenAt = 0, !.late = FALSE])

\* Mutant: the file is not looked at again before the write.
EditStatSkipped(s) ==
    /\ At(s, "stat")
    /\ Go(s, "stage")
    /\ UNCHANGED <<fileVars, trackVars, shown, was>>

\* The mtime check before the write; a file that is gone passes it.
EditStat(s) ==
    /\ At(s, "stat")
    /\ IF file.text # NoText /\ file.mtime # call[s].seenAt THEN Retry(s)
       ELSE Moves(s, [call[s] EXCEPT !.pc = "stage", !.seenAt = 0])
    /\ UNCHANGED <<fileVars, trackVars, shown, was>>

\* safeWrite has the hash and the mtime of the new file before the rename; a
\* full disk ends the call.
Stage(s) ==
    /\ At(s, "stage")
    /\ \/ /\ lastText < MaxText
          /\ lastText' = lastText + 1
          /\ Moves(s, [call[s] EXCEPT !.pc = "publish", !.staged = Staged(lastText + 1)])
       \/ Moves(s, NoCall) /\ UNCHANGED lastText
    /\ UNCHANGED <<clock, others, file, trackVars, shown, was>>

\* The rename, or the removal of a file whose creation is taken back.
Publish(s) ==
    /\ At(s, "publish")
    /\ file' = call[s].staged
    /\ shown' = [shown EXCEPT ![s] = @ \cup {call[s].staged.text}]
    /\ was' = IF call[s].tool \in {"write", "edit"} /\ ~ call[s].late
              THEN [was EXCEPT ![call[s].staged.text] = file.text] ELSE was
    /\ Moves(s, [NoCall EXCEPT !.pc = IF call[s].tool = "edit" THEN "detect" ELSE "record",
                              !.tool = call[s].tool, !.base = call[s].base,
                              !.staged = call[s].staged, !.tries = call[s].tries])
    /\ UNCHANGED <<clock, others, lastText, trackVars>>

\* concurrentWriteDetected: an mtime later than the staged one by more than the
\* skew.  The next attempt edits what is there then.
Detect(s) ==
    /\ At(s, "detect")
    /\ \/ Go(s, "record")
       \/ file.text # NoText /\ file.mtime > call[s].staged.mtime /\ Retry(s)
    /\ UNCHANGED <<fileVars, trackVars, shown, was>>

AfterRecord(s) ==
    \/ call[s].tool \in {"write", "edit"} /\ Go(s, "diagnose")
    \/ call[s].tool \in {"undo", "rollback"} /\ Go(s, "take")

\* Mutant: the undo entry keeps the text before the first of several writes.
RecordFirst(s) ==
    /\ At(s, "record")
    /\ record' = IF call[s].staged = NoVersion THEN record
                 ELSE [record EXCEPT ![s] = call[s].staged]
    /\ undo' = IF call[s].tool \in {"write", "edit"}
               THEN [undo EXCEPT ![s].before = IF undo[s] = NoUndo THEN call[s].base ELSE @,
                                 ![s].after = call[s].staged.text]
               ELSE undo
    /\ AfterRecord(s)
    /\ UNCHANGED <<fileVars, reading, shown, was>>

\* Mutant: recordWritten asks the disk what was written.
RecordRestat(s) ==
    /\ At(s, "record")
    /\ record' = [record EXCEPT ![s] = file]
    /\ undo' = IF call[s].tool \in {"write", "edit"}
               THEN [undo EXCEPT ![s] = [before |-> call[s].base, after |-> call[s].staged.text]]
               ELSE undo
    /\ AfterRecord(s)
    /\ UNCHANGED <<fileVars, reading, shown, was>>

\* recordWritten, then recordUndo, which keeps no text beyond a size.  An undo
\* and a rollback go on to drop the undo entry.
Record(s) ==
    /\ At(s, "record")
    /\ record' = IF call[s].staged = NoVersion THEN record
                 ELSE [record EXCEPT ![s] = call[s].staged]
    /\ \/ /\ call[s].tool \in {"write", "edit"}
          /\ undo' = [undo EXCEPT ![s] = [before |-> call[s].base,
                                          after |-> call[s].staged.text]]
       \/ /\ call[s].tool \in {"undo", "rollback"} \/ call[s].base # NoText
          /\ UNCHANGED undo
    /\ AfterRecord(s)
    /\ UNCHANGED <<fileVars, reading, shown, was>>

\* Mutant: the rollback does not look at the file first.
DiagnoseBlindly(s) ==
    /\ At(s, "diagnose")
    /\ \/ Moves(s, NoCall)
       \/ Moves(s, [call[s] EXCEPT !.pc = "publish", !.tool = "rollback", !.late = FALSE,
                                  !.staged = Staged(call[s].base)])
    /\ UNCHANGED <<fileVars, trackVars, shown, was>>

\* The call is answered; or fail_on_new_errors takes the write back, unless the
\* file no longer holds it.  A created file that is gone counts as taken back.
Diagnose(s) ==
    /\ At(s, "diagnose")
    /\ \/ Moves(s, NoCall)
       \/ file.text = NoText /\ call[s].base = NoText /\ Go(s, "take")
       \/ /\ file.text = call[s].staged.text
          /\ Moves(s, [call[s] EXCEPT !.pc = "publish", !.tool = "rollback", !.late = FALSE,
                                     !.staged = Staged(call[s].base)])
    /\ UNCHANGED <<fileVars, trackVars, shown, was>>

-----------------------------------------------------------------------------
(* undo_edit and read_file.                                                 *)

BeginUndo(s, force) ==
    /\ Unlocked
    /\ undo[s] # NoUndo
    /\ force \/ UndoSafe(s)
    /\ Moves(s, [NoCall EXCEPT !.pc = "publish", !.tool = "undo", !.forced = force,
                              !.staged = Staged(undo[s].before)])
    /\ UNCHANGED <<fileVars, trackVars, shown, was>>

\* The undo entry is of no use any more.
Take(s) ==
    /\ At(s, "take")
    /\ undo' = [undo EXCEPT ![s] = NoUndo]
    /\ Moves(s, NoCall)
    /\ UNCHANGED <<fileVars, reading, record, shown, was>>

\* One descriptor is read and hashed; a rename beside it does not change it.
\* Bound: one read at a time, since the reads of two sessions share no state.
ReadSnapshot(s) ==
    /\ \A t \in Sessions : reading[t] = NoVersion
    /\ file.text # NoText
    /\ reading' = [reading EXCEPT ![s] = file]
    /\ UNCHANGED <<fileVars, call, record, undo, shown, was>>

\* Mutant: the file's state now is recorded, not the one that was read.
ReadRecordsNow(s) ==
    /\ reading[s] # NoVersion
    /\ record' = [record EXCEPT ![s] = file]
    /\ shown' = [shown EXCEPT ![s] = @ \cup {reading[s].text}]
    /\ reading' = [reading EXCEPT ![s] = NoVersion]
    /\ UNCHANGED <<fileVars, call, undo, was>>

ReadRecord(s) ==
    /\ reading[s] # NoVersion
    /\ record' = [record EXCEPT ![s] = reading[s]]
    /\ shown' = [shown EXCEPT ![s] = @ \cup {reading[s].text}]
    /\ reading' = [reading EXCEPT ![s] = NoVersion]
    /\ UNCHANGED <<fileVars, call, undo, was>>

-----------------------------------------------------------------------------
(* The surroundings.                                                        *)

Tick ==
    /\ clock < MaxTime
    /\ clock' = clock + 1
    /\ UNCHANGED <<others, lastText, file, call, trackVars, shown, was>>

\* A change the call has no way to see: after the last look at the file, or
\* before it under an unchanged mtime.
Unseen(s, v) ==
    \/ call[s].pc \in {"stage", "publish"}
    \/ At(s, "stat") /\ (v.text = NoText \/ v.mtime = call[s].seenAt)

\* Another program writes a new text, puts an old one back, with the mtime of
\* now or of then, or removes the file.
OtherProgram(v) ==
    /\ others < MaxOther
    /\ others' = others + 1
    /\ v.text =< lastText \/ (v.text = lastText + 1 /\ lastText < MaxText)
    /\ v.mtime =< clock
    /\ v # file
    /\ file' = v
    /\ lastText' = IF v.text > lastText THEN v.text ELSE lastText
    /\ call' = [s \in Sessions |->
                  [call[s] EXCEPT !.raced = @ \/ call[s].guarded,
                                  !.late = @ \/ Unseen(s, v)]]
    /\ UNCHANGED <<clock, trackVars, shown, was>>

\* The daemon dies and the sessions resume: reads are kept in the session store,
\* undo entries are not.
Restart ==
    /\ call' = [s \in Sessions |-> NoCall]
    /\ reading' = [s \in Sessions |-> NoVersion]
    /\ undo' = [s \in Sessions |-> NoUndo]
    /\ UNCHANGED <<fileVars, record, shown, was>>

EditStep(s) ==
    \/ \E force \in BOOLEAN : BeginWrite(s, force) \/ BeginUndo(s, force)
    \/ BeginEdit(s)
    \/ Capture(s)
    \/ EditRead(s)
    \/ EditStat(s)
    \/ Stage(s)
    \/ Publish(s)
    \/ Detect(s)
    \/ Record(s)
    \/ Diagnose(s)
    \/ Take(s)
    \/ ReadSnapshot(s)
    \/ ReadRecord(s)

EditNext ==
    \/ \E s \in Sessions : EditStep(s)
    \/ Tick
    \/ \E v \in Version : OtherProgram(v)
    \/ Restart

EditSpec == EditInit /\ [][EditNext]_editVars

-----------------------------------------------------------------------------
(* Properties.                                                              *)

Replaces(s) == At(s, "publish") /\ file' = call[s].staged /\ file # file'

\* A write_file without overwrite_changed never destroys a text its session
\* neither was shown nor wrote, once the session has read the file at all: only
\* another program that writes between the guard and the rename escapes it.
\* Equal mtimes, slow reads, rollbacks, undos and restarts are no exception.
OverwritesOnlySeen ==
    [][ \A s \in Sessions :
          (/\ Replaces(s)
           /\ call[s].tool = "write"
           /\ call[s].guarded /\ ~ call[s].raced)
          => file.text \in shown[s] \cup {NoText} ]_editVars

\* edit_file builds its text from the one it replaces: no edit of another call
\* is lost, and no other program's unless it left the mtime alone or came in
\* after the second stat.
EditsAreNotLost ==
    [][ \A s \in Sessions :
          Replaces(s) /\ call[s].tool = "edit" /\ ~ call[s].late
          => file.text = call[s].base ]_editVars

\* An undo without force takes back exactly one write: the text on disk is one
\* that this session wrote, and what comes back is what that write replaced,
\* unless another program writes between its check of the file and its rename.
UndoIsInverse ==
    [][ \A s \in Sessions :
          (/\ Replaces(s)
           /\ call[s].tool = "undo" /\ ~ call[s].forced /\ ~ call[s].late)
          => /\ file.text \in shown[s]
             /\ was[file.text] \in {Unknown, file'.text} ]_editVars

\* A rollback for new errors finds a text of its session and puts back what that
\* one replaced, unless another program writes between its check of the file and
\* its rename: only there does it take out what somebody else has written.
RollbackKeepsOthers ==
    [][ \A s \in Sessions :
          Replaces(s) /\ call[s].tool = "rollback" /\ ~ call[s].late
          => /\ file.text \in shown[s]
             /\ was[file.text] \in {Unknown, file'.text} ]_editVars
=============================================================================
