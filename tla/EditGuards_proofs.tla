-------------------------- MODULE EditGuards_proofs -------------------------
(***************************************************************************)
(* A write_file that passed the staleness guard, and an edit_file, replace *)
(* only what their session knew, and an undo and a rollback take back just *)
(* one write: for any number of sessions, texts, ticks and writes of other *)
(* programs.                                                               *)
(***************************************************************************)
EXTENDS EditGuards, Integers, TLAPS

-----------------------------------------------------------------------------
(* The inductive invariant.                                                 *)

\* What a call may assume of the file f and of the texts S its session knows:
\* what it is about to record is known, what a guarded write is about to replace
\* is known, and an edit replaces its base.
CallSound(c, f, S) ==
    /\ c.pc \in {"read", "stat", "detect"} => c.tool = "edit"
    /\ c.pc \in {"detect", "record"} => c.staged.text \in S
    /\ c.pc \in {"capture", "stage", "publish"} /\ c.tool = "write" /\ c.guarded /\ ~ c.raced
          => f.text \in S \cup {NoText}
    /\ c.pc \in {"stage", "publish"} /\ c.tool = "edit" /\ ~ c.late => f.text = c.base
    /\ c.pc = "stat" /\ c.tool = "edit" /\ ~ c.late
          => f.text = c.base \/ (f.text # NoText /\ f.mtime # c.seenAt)

Sound == \A s \in Sessions : CallSound(call[s], file, shown[s])

\* What a session is recorded to have read is something it was shown.
RecordIsShown == \A s \in Sessions : record[s].mtime # 0 => record[s].text \in shown[s]

\* The path lock: one call is past it.
OneCall == \A s, t \in Sessions : s # t /\ call[s].pc # "idle" => call[t].pc = "idle"

GuardInv == EditTypeOK /\ RecordIsShown /\ OneCall /\ Sound

-----------------------------------------------------------------------------
(* Typing.                                                                  *)

LEMMA NoCallTyped == NoCall \in Call /\ NoVersion \in Version
BY EditAssumption DEF NoCall, Call, Places, Tools, Texts, NoText, Version, NoVersion

LEMMA StagedTyped ==
    ASSUME NEW t \in Texts, clock \in 1..MaxTime
    PROVE  Staged(t) \in Version
BY EditAssumption DEF Staged, Version, NoVersion, NoText, Texts

LEMMA StepTyped ==
    ASSUME NEW s \in Sessions, NEW c \in Call, call \in [Sessions -> Call], Moves(s, c)
    PROVE  /\ call' \in [Sessions -> Call]
           /\ call'[s] = c
           /\ \A t \in Sessions : t # s => call'[t] = call[t]
BY DEF Moves

LEMMA VersionFields ==
    ASSUME NEW v \in Version
    PROVE  v.text \in Texts /\ v.mtime \in 0..MaxTime /\ (v.text = NoText <=> v.mtime = 0)
BY DEF Version

LEMMA CallFields ==
    ASSUME NEW c \in Call
    PROVE  /\ c.pc \in Places /\ c.tool \in Tools /\ c.forced \in BOOLEAN
           /\ c.base \in Texts /\ c.seenAt \in 0..MaxTime /\ c.staged \in Version
           /\ c.guarded \in BOOLEAN /\ c.raced \in BOOLEAN /\ c.late \in BOOLEAN
           /\ c.tries \in 0..(MaxTries - 1)
BY DEF Call

\* A step that changes one call and nothing it or another call relies on.
LEMMA QuietStep ==
    ASSUME GuardInv, NEW s \in Sessions, NEW c \in Call, Moves(s, c),
           c.pc # "idle" => Unlocked \/ call[s].pc # "idle",
           CallSound(c, file, shown[s]),
           UNCHANGED <<file, record, shown>>
    PROVE  RecordIsShown' /\ OneCall' /\ Sound'
<1>1. /\ call'[s] = c
      /\ \A t \in Sessions : t # s => call'[t] = call[t]
  BY StepTyped DEF GuardInv, EditTypeOK
<1>2. RecordIsShown'
  BY DEF GuardInv, RecordIsShown
<1>3. OneCall'
  BY <1>1 DEF GuardInv, OneCall, Unlocked, At
<1>4. Sound'
  <2> SUFFICES ASSUME NEW t \in Sessions PROVE CallSound(call'[t], file, shown[t])
    BY DEF Sound
  <2> QED BY <1>1 DEF GuardInv, Sound
<1> QED BY <1>2, <1>3, <1>4

LEMMA QuietType ==
    ASSUME EditTypeOK, NEW s \in Sessions, NEW c \in Call, Moves(s, c),
           UNCHANGED <<fileVars, trackVars, shown, was>>
    PROVE  EditTypeOK'
BY StepTyped DEF EditTypeOK, fileVars, trackVars

\* A step that only moves a call on.
LEMMA CallOnly ==
    ASSUME GuardInv, NEW s \in Sessions, NEW c \in Call, Moves(s, c),
           c.pc # "idle" => Unlocked \/ call[s].pc # "idle",
           CallSound(c, file, shown[s]),
           UNCHANGED <<fileVars, trackVars, shown, was>>
    PROVE  GuardInv'
<1>1. EditTypeOK' BY QuietType DEF GuardInv
<1>2. UNCHANGED <<file, record, shown>> BY DEF fileVars, trackVars
<1> QED BY <1>1, <1>2, QuietStep DEF GuardInv

LEMMA IdleSound == ASSUME NEW f, NEW S PROVE CallSound(NoCall, f, S)
BY DEF CallSound, NoCall

-----------------------------------------------------------------------------
(* One lemma per action.                                                    *)

LEMMA BeginWriteKeeps ==
    ASSUME GuardInv, NEW s \in Sessions, NEW force \in BOOLEAN, BeginWrite(s, force)
    PROVE  GuardInv'
<1> DEFINE c == [NoCall EXCEPT !.pc = "capture", !.tool = "write", !.forced = force,
                               !.guarded = HasRead(s) /\ ~ force]
<1>1. c \in Call
  BY NoCallTyped DEF Call, Places, Tools, NoCall
<1>2. CallSound(c, file, shown[s])
  <2>1. /\ c.pc = "capture" /\ c.tool = "write" /\ c.guarded = (HasRead(s) /\ ~ force)
    BY DEF NoCall
  <2>2. ASSUME HasRead(s), ~ force PROVE file.text \in shown[s] \cup {NoText}
    BY <2>2 DEF BeginWrite, ChangedSinceSessionRead, GuardInv, RecordIsShown, HasRead
  <2> QED BY <2>1, <2>2 DEF CallSound
<1> QED BY <1>1, <1>2, CallOnly DEF BeginWrite

LEMMA BeginEditKeeps ==
    ASSUME GuardInv, NEW s \in Sessions, BeginEdit(s)
    PROVE  GuardInv'
<1> DEFINE c == [NoCall EXCEPT !.pc = "read", !.tool = "edit"]
<1>1. c \in Call
  BY NoCallTyped DEF Call, Places, Tools, NoCall
<1>2. CallSound(c, file, shown[s])
  BY DEF CallSound, NoCall
<1> QED BY <1>1, <1>2, CallOnly DEF BeginEdit

LEMMA BeginUndoKeeps ==
    ASSUME GuardInv, NEW s \in Sessions, NEW force \in BOOLEAN, BeginUndo(s, force)
    PROVE  GuardInv'
<1> DEFINE v == Staged(undo[s].before)
           c == [NoCall EXCEPT !.pc = "publish", !.tool = "undo", !.forced = force, !.staged = v]
<1>1. v \in Version
  BY StagedTyped DEF GuardInv, EditTypeOK
<1>2. c \in Call
  <2> HIDE DEF v
  <2> QED BY <1>1, NoCallTyped DEF Call, Places, Tools, NoCall
<1>3. CallSound(c, file, shown[s])
  BY DEF CallSound, NoCall
<1>4. Moves(s, c) /\ Unlocked /\ UNCHANGED <<fileVars, trackVars, shown, was>>
  BY DEF BeginUndo
<1> HIDE DEF c
<1> QED BY <1>2, <1>3, <1>4, CallOnly

LEMMA CaptureKeeps ==
    ASSUME GuardInv, NEW s \in Sessions, Capture(s)
    PROVE  GuardInv'
<1> DEFINE c == [call[s] EXCEPT !.pc = "stage", !.base = file.text, !.late = FALSE]
<1>0. call[s] \in Call /\ file \in Version /\ call[s].pc = "capture"
  BY DEF GuardInv, EditTypeOK, Capture, At
<1>1. c \in Call
  BY <1>0, VersionFields DEF Call, Places
<1>2. CallSound(c, file, shown[s])
  BY <1>0 DEF CallSound, GuardInv, Sound, Call
<1> QED BY <1>0, <1>1, <1>2, CallOnly DEF Capture

LEMMA EditReadKeeps ==
    ASSUME GuardInv, NEW s \in Sessions, EditRead(s)
    PROVE  GuardInv'
<1> DEFINE c == [call[s] EXCEPT !.pc = "stat", !.base = file.text,
                                !.seenAt = file.mtime, !.late = FALSE]
<1>0. call[s] \in Call /\ file \in Version /\ call[s].pc = "read"
  BY DEF GuardInv, EditTypeOK, EditRead, At
<1>1. c \in Call
  BY <1>0, VersionFields DEF Call, Places
<1>2. CallSound(c, file, shown[s])
  BY <1>0 DEF CallSound, GuardInv, Sound, Call
<1>3. CASE Moves(s, c)
  BY <1>0, <1>1, <1>2, <1>3, CallOnly DEF EditRead
<1>4. CASE Moves(s, NoCall)
  BY <1>4, NoCallTyped, IdleSound, CallOnly DEF EditRead, NoCall
<1> QED BY <1>3, <1>4 DEF EditRead

LEMMA RetryKeeps ==
    ASSUME GuardInv, NEW s \in Sessions, Retry(s), call[s].pc # "idle", call[s].tool = "edit",
           UNCHANGED <<fileVars, trackVars, shown, was>>
    PROVE  GuardInv'
<1> DEFINE c == [call[s] EXCEPT !.pc = "read", !.tries = @ + 1, !.staged = NoVersion,
                                !.base = NoText, !.seenAt = 0, !.late = FALSE]
<1>0. call[s] \in Call
  BY DEF GuardInv, EditTypeOK
<1>1. CASE call[s].tries + 1 = MaxTries
  BY <1>1, NoCallTyped, IdleSound, CallOnly DEF Retry, NoCall
<1>2. CASE call[s].tries + 1 # MaxTries
  <2>1. c \in Call
    <3>1. call[s].tries + 1 \in 0..(MaxTries - 1) /\ NoText \in Texts /\ 0 \in 0..MaxTime
      BY <1>0, <1>2, EditAssumption DEF Call, Texts, NoText
    <3> QED BY <1>0, <3>1, NoCallTyped DEF Call, Places
  <2>2. CallSound(c, file, shown[s])
    BY <1>0 DEF CallSound, Call
  <2>3. Moves(s, c)
    BY <1>2 DEF Retry
  <2> QED BY <2>1, <2>2, <2>3, CallOnly
<1> QED BY <1>1, <1>2

LEMMA EditStatKeeps ==
    ASSUME GuardInv, NEW s \in Sessions, EditStat(s)
    PROVE  GuardInv'
<1> DEFINE c == [call[s] EXCEPT !.pc = "stage", !.seenAt = 0]
<1>0. call[s] \in Call /\ call[s].pc = "stat"
  BY DEF GuardInv, EditTypeOK, EditStat, At
<1>1. CASE file.text # NoText /\ file.mtime # call[s].seenAt
  BY <1>0, <1>1, RetryKeeps DEF EditStat, GuardInv, Sound, CallSound
<1>2. CASE ~ (file.text # NoText /\ file.mtime # call[s].seenAt)
  <2>1. c \in Call
    <3>1. 0 \in 0..MaxTime
      BY EditAssumption
    <3> QED BY <1>0, <3>1 DEF Call, Places
  <2>2. CallSound(c, file, shown[s])
    BY <1>0, <1>2 DEF CallSound, GuardInv, Sound, Call
  <2>3. Moves(s, c)
    BY <1>2 DEF EditStat
  <2> QED BY <1>0, <2>1, <2>2, <2>3, CallOnly DEF EditStat
<1> QED BY <1>1, <1>2

LEMMA StageKeeps ==
    ASSUME GuardInv, NEW s \in Sessions, Stage(s)
    PROVE  GuardInv'
<1>0. call[s] \in Call /\ call[s].pc = "stage" /\ call \in [Sessions -> Call]
  BY DEF GuardInv, EditTypeOK, Stage, At
<1>1. CASE Moves(s, NoCall) /\ UNCHANGED lastText
  <2>1. UNCHANGED <<fileVars, trackVars, shown, was>>
    BY <1>1 DEF Stage, fileVars
  <2> QED BY <1>1, <2>1, NoCallTyped, IdleSound, CallOnly DEF NoCall
<1>2. CASE /\ lastText < MaxText
           /\ lastText' = lastText + 1
           /\ Moves(s, [call[s] EXCEPT !.pc = "publish", !.staged = Staged(lastText + 1)])
  <2> DEFINE v == Staged(lastText + 1)
             c == [call[s] EXCEPT !.pc = "publish", !.staged = v]
  <2>1. lastText + 1 \in Texts /\ lastText' \in 1..MaxText
    BY <1>2, EditAssumption DEF GuardInv, EditTypeOK, Texts
  <2>2. v \in Version
    BY <2>1, StagedTyped DEF GuardInv, EditTypeOK
  <2>3. Moves(s, c)
    BY <1>2
  <2> HIDE DEF v
  <2>4. c \in Call
    BY <1>0, <2>2 DEF Call, Places
  <2>5. CallSound(c, file, shown[s])
    BY <1>0 DEF CallSound, GuardInv, Sound, Call
  <2> HIDE DEF c
  <2>6. UNCHANGED <<clock, others, file, trackVars, shown, was>>
    BY DEF Stage
  <2>7. UNCHANGED <<reading, record, undo>>
    BY <2>6 DEF trackVars
  <2>8. RecordIsShown' /\ OneCall' /\ Sound'
    BY <1>0, <2>3, <2>4, <2>5, <2>6, <2>7, QuietStep
  <2>9. call' \in [Sessions -> Call]
    BY <1>0, <2>3, <2>4, StepTyped
  <2>10. EditTypeOK'
    BY <2>1, <2>6, <2>7, <2>9 DEF GuardInv, EditTypeOK
  <2> QED BY <2>8, <2>10 DEF GuardInv
<1> QED BY <1>1, <1>2 DEF Stage

LEMMA PublishKeeps ==
    ASSUME GuardInv, NEW s \in Sessions, Publish(s)
    PROVE  GuardInv'
<1> DEFINE c == [NoCall EXCEPT !.pc = IF call[s].tool = "edit" THEN "detect" ELSE "record",
                               !.tool = call[s].tool, !.base = call[s].base,
                               !.staged = call[s].staged, !.tries = call[s].tries]
<1>0. call[s] \in Call /\ call[s].pc = "publish" /\ call \in [Sessions -> Call]
  BY DEF GuardInv, EditTypeOK, Publish, At
<1>1. c \in Call
  BY <1>0, NoCallTyped DEF Call, Places, NoCall
<1>2. Moves(s, c)
  BY DEF Publish
<1>3. /\ file' = call[s].staged
      /\ shown' = [shown EXCEPT ![s] = @ \cup {call[s].staged.text}]
      /\ UNCHANGED <<clock, others, lastText, trackVars>>
  BY DEF Publish
<1>4. /\ c.pc \in {"detect", "record"} /\ c.staged = call[s].staged
      /\ (c.pc = "detect" => c.tool = "edit")
  BY <1>0 DEF NoCall, Call
<1>5. call[s].staged \in Version /\ call[s].staged.text \in Texts
  BY <1>0, CallFields, VersionFields
<1> HIDE DEF c
<1>6. /\ call' \in [Sessions -> Call]
      /\ call'[s] = c
      /\ \A t \in Sessions : t # s => call'[t] = call[t]
  BY <1>0, <1>1, <1>2, StepTyped
<1>7. EditTypeOK'
  <2>1. shown' \in [Sessions -> SUBSET Texts]
    BY <1>3, <1>5 DEF GuardInv, EditTypeOK
  <2>2. was' \in [Texts -> Texts \cup {Unknown}]
    <3>1. file.text \in Texts
      BY VersionFields DEF GuardInv, EditTypeOK
    <3> QED BY <1>5, <3>1 DEF Publish, GuardInv, EditTypeOK
  <2> QED BY <1>3, <1>5, <1>6, <2>1, <2>2 DEF GuardInv, EditTypeOK, trackVars
<1>8. /\ \A t \in Sessions : t # s => shown'[t] = shown[t]
      /\ shown'[s] = shown[s] \cup {call[s].staged.text}
  BY <1>3 DEF GuardInv, EditTypeOK
<1>9. RecordIsShown'
  BY <1>3, <1>8 DEF GuardInv, RecordIsShown, trackVars
<1>10. OneCall'
  BY <1>0, <1>6 DEF GuardInv, OneCall
<1>11. Sound'
  <2> SUFFICES ASSUME NEW t \in Sessions PROVE CallSound(call'[t], file', shown'[t])
    BY DEF Sound
  <2>1. CASE t = s
    BY <1>4, <1>6, <1>8, <2>1 DEF CallSound
  <2>2. CASE t # s
    <3>1. call'[t] = call[t] /\ call[t].pc = "idle"
      BY <1>0, <1>6, <2>2 DEF GuardInv, OneCall
    <3> QED BY <3>1 DEF CallSound
  <2> QED BY <2>1, <2>2
<1> QED BY <1>7, <1>9, <1>10, <1>11 DEF GuardInv

LEMMA DetectKeeps ==
    ASSUME GuardInv, NEW s \in Sessions, Detect(s)
    PROVE  GuardInv'
<1> DEFINE c == [call[s] EXCEPT !.pc = "record"]
<1>0. call[s] \in Call /\ call[s].pc = "detect"
  BY DEF GuardInv, EditTypeOK, Detect, At
<1>1. CASE Go(s, "record")
  <2>1. c \in Call
    BY <1>0 DEF Call, Places
  <2>2. CallSound(c, file, shown[s])
    BY <1>0 DEF CallSound, GuardInv, Sound, Call
  <2> QED BY <1>0, <1>1, <2>1, <2>2, CallOnly DEF Go, Detect
<1>2. CASE Retry(s)
  BY <1>0, <1>2, RetryKeeps DEF Detect, GuardInv, Sound, CallSound
<1> QED BY <1>1, <1>2 DEF Detect

\* Where a call goes after its record, and that it is sound there.
LEMMA AfterRecordSound ==
    ASSUME GuardInv, NEW s \in Sessions, call[s].pc = "record", AfterRecord(s)
    PROVE  \E c \in Call : Moves(s, c) /\ CallSound(c, file, shown[s])
<1>0. call[s] \in Call
  BY DEF GuardInv, EditTypeOK
<1>1. ASSUME NEW p \in {"diagnose", "take"}, Go(s, p)
      PROVE  \E c \in Call : Moves(s, c) /\ CallSound(c, file, shown[s])
  <2> DEFINE c == [call[s] EXCEPT !.pc = p]
  <2>1. c \in Call
    BY <1>0 DEF Call, Places
  <2>2. CallSound(c, file, shown[s])
    BY <1>0 DEF CallSound, Call
  <2> QED BY <1>1, <2>1, <2>2 DEF Go
<1> QED BY <1>1 DEF AfterRecord

LEMMA RecordKeeps ==
    ASSUME GuardInv, NEW s \in Sessions, Record(s)
    PROVE  GuardInv'
<1>0. call[s] \in Call /\ call[s].pc = "record" /\ call \in [Sessions -> Call]
  BY DEF GuardInv, EditTypeOK, Record, At
<1>1. PICK c \in Call : Moves(s, c) /\ CallSound(c, file, shown[s])
  BY <1>0, AfterRecordSound DEF Record
<1>2. /\ call' \in [Sessions -> Call]
      /\ call'[s] = c
      /\ \A t \in Sessions : t # s => call'[t] = call[t]
  BY <1>0, <1>1, StepTyped
<1>3. UNCHANGED <<clock, others, lastText, file, reading, shown, was>>
  BY DEF Record, fileVars
<1>4. /\ call[s].staged \in Version /\ call[s].base \in Texts
      /\ call[s].staged.text \in Texts /\ call[s].staged.text \in shown[s]
  <2>1. call[s].staged.text \in shown[s]
    BY <1>0 DEF GuardInv, Sound, CallSound
  <2> QED BY <1>0, <2>1, CallFields, VersionFields
<1>5. record' \in [Sessions -> Version] /\ RecordIsShown'
  <2>1. CASE record' = record
    BY <1>3, <2>1 DEF GuardInv, EditTypeOK, RecordIsShown
  <2>2. CASE record' = [record EXCEPT ![s] = call[s].staged]
    BY <1>3, <1>4, <2>2 DEF GuardInv, EditTypeOK, RecordIsShown
  <2> QED BY <2>1, <2>2 DEF Record
<1>6. undo' \in [Sessions -> [before : Texts, after : Texts]]
  <2>1. CASE undo' = undo
    BY <2>1 DEF GuardInv, EditTypeOK
  <2>2. CASE undo' = [undo EXCEPT ![s] = [before |-> call[s].base,
                                          after |-> call[s].staged.text]]
    BY <1>4, <2>2 DEF GuardInv, EditTypeOK
  <2> QED BY <2>1, <2>2 DEF Record
<1>7. EditTypeOK'
  BY <1>2, <1>3, <1>5, <1>6 DEF GuardInv, EditTypeOK
<1>8. OneCall'
  BY <1>0, <1>2 DEF GuardInv, OneCall
<1>9. Sound'
  BY <1>1, <1>2, <1>3 DEF GuardInv, Sound
<1> QED BY <1>5, <1>7, <1>8, <1>9 DEF GuardInv

LEMMA DiagnoseKeeps ==
    ASSUME GuardInv, NEW s \in Sessions, Diagnose(s)
    PROVE  GuardInv'
<1> DEFINE v == Staged(call[s].base)
           c == [call[s] EXCEPT !.pc = "publish", !.tool = "rollback", !.late = FALSE,
                                !.staged = v]
<1>0. call[s] \in Call /\ call[s].pc = "diagnose"
  BY DEF GuardInv, EditTypeOK, Diagnose, At
<1>1. CASE Moves(s, NoCall)
  BY <1>1, NoCallTyped, IdleSound, CallOnly DEF Diagnose, NoCall
<1>2. CASE Moves(s, c)
  <2>1. v \in Version
    BY <1>0, CallFields, StagedTyped DEF GuardInv, EditTypeOK
  <2> HIDE DEF v
  <2>2. c \in Call
    BY <1>0, <2>1 DEF Call, Places, Tools
  <2>3. CallSound(c, file, shown[s])
    BY <1>0 DEF CallSound, Call
  <2>4. Moves(s, c) /\ UNCHANGED <<fileVars, trackVars, shown, was>>
    BY <1>2 DEF Diagnose
  <2> HIDE DEF c
  <2> QED BY <1>0, <2>2, <2>3, <2>4, CallOnly
<1>3. CASE Go(s, "take")
  <2> DEFINE t == [call[s] EXCEPT !.pc = "take"]
  <2>1. t \in Call
    BY <1>0 DEF Call, Places
  <2>2. CallSound(t, file, shown[s])
    BY <1>0 DEF CallSound, Call
  <2>3. Moves(s, t) /\ UNCHANGED <<fileVars, trackVars, shown, was>>
    BY <1>3 DEF Go, Diagnose
  <2> HIDE DEF t
  <2> QED BY <1>0, <2>1, <2>2, <2>3, CallOnly
<1> QED BY <1>1, <1>2, <1>3 DEF Diagnose

LEMMA TakeKeeps ==
    ASSUME GuardInv, NEW s \in Sessions, Take(s)
    PROVE  GuardInv'
<1>1. /\ Moves(s, NoCall)
      /\ UNCHANGED <<fileVars, reading, record, shown, was>>
      /\ undo' = [undo EXCEPT ![s] = NoUndo]
  BY DEF Take
<1>2. UNCHANGED <<clock, others, lastText, file>>
  BY <1>1 DEF fileVars
<1>3. RecordIsShown' /\ OneCall' /\ Sound'
  BY <1>1, <1>2, NoCallTyped, IdleSound, QuietStep DEF NoCall
<1>4. call' \in [Sessions -> Call]
  BY <1>1, NoCallTyped, StepTyped DEF GuardInv, EditTypeOK
<1>5. NoUndo \in [before : Texts, after : Texts]
  BY EditAssumption DEF NoUndo, Texts, NoText
<1>6. EditTypeOK'
  BY <1>1, <1>2, <1>4, <1>5 DEF GuardInv, EditTypeOK
<1> QED BY <1>3, <1>6 DEF GuardInv

LEMMA ReadSnapshotKeeps ==
    ASSUME GuardInv, NEW s \in Sessions, ReadSnapshot(s)
    PROVE  GuardInv'
<1>1. /\ UNCHANGED <<clock, others, lastText, file, call, record, undo, shown, was>>
      /\ reading' = [reading EXCEPT ![s] = file]
  BY DEF ReadSnapshot, fileVars
<1>2. EditTypeOK'
  BY <1>1 DEF GuardInv, EditTypeOK
<1>3. RecordIsShown' /\ OneCall' /\ Sound'
  BY <1>1 DEF GuardInv, RecordIsShown, OneCall, Sound
<1> QED BY <1>2, <1>3 DEF GuardInv

LEMMA ReadRecordKeeps ==
    ASSUME GuardInv, NEW s \in Sessions, ReadRecord(s)
    PROVE  GuardInv'
<1>1. /\ UNCHANGED <<clock, others, lastText, file, call, undo, was>>
      /\ reading' = [reading EXCEPT ![s] = NoVersion]
      /\ record' = [record EXCEPT ![s] = reading[s]]
      /\ shown' = [shown EXCEPT ![s] = @ \cup {reading[s].text}]
  BY DEF ReadRecord, fileVars
<1>2. reading[s] \in Version /\ reading[s].text \in Texts
  BY VersionFields DEF GuardInv, EditTypeOK
<1>3. EditTypeOK'
  <2>1. /\ reading' \in [Sessions -> Version] /\ record' \in [Sessions -> Version]
        /\ shown' \in [Sessions -> SUBSET Texts]
    BY <1>1, <1>2, NoCallTyped DEF GuardInv, EditTypeOK
  <2> QED BY <1>1, <2>1 DEF GuardInv, EditTypeOK
<1>4. RecordIsShown'
  BY <1>1 DEF GuardInv, EditTypeOK, RecordIsShown
<1>5. OneCall'
  BY <1>1 DEF GuardInv, OneCall
<1>6. Sound'
  <2> SUFFICES ASSUME NEW t \in Sessions PROVE CallSound(call[t], file, shown'[t])
    BY <1>1 DEF Sound
  <2>1. shown[t] \subseteq shown'[t]
    BY <1>1 DEF GuardInv, EditTypeOK
  <2> QED BY <2>1 DEF GuardInv, Sound, CallSound
<1> QED BY <1>3, <1>4, <1>5, <1>6 DEF GuardInv

LEMMA OtherProgramKeeps ==
    ASSUME GuardInv, NEW v \in Version, OtherProgram(v)
    PROVE  GuardInv'
<1> DEFINE c(s) == [call[s] EXCEPT !.raced = @ \/ call[s].guarded,
                                   !.late = @ \/ Unseen(s, v)]
<1>1. /\ UNCHANGED <<clock, reading, record, undo, shown, was>>
      /\ file' = v /\ others < MaxOther /\ others' = others + 1
      /\ lastText' = IF v.text > lastText THEN v.text ELSE lastText
      /\ call' = [s \in Sessions |-> c(s)]
  BY DEF OtherProgram, trackVars
<1>2. ASSUME NEW s \in Sessions PROVE c(s) \in Call
  <2>1. call[s] \in Call /\ Unseen(s, v) \in BOOLEAN
    BY DEF GuardInv, EditTypeOK, Unseen
  <2> QED BY <2>1, CallFields DEF Call
<1>3. ASSUME NEW s \in Sessions
      PROVE  /\ c(s).pc = call[s].pc /\ c(s).tool = call[s].tool /\ c(s).base = call[s].base
             /\ c(s).staged = call[s].staged /\ c(s).guarded = call[s].guarded
             /\ c(s).seenAt = call[s].seenAt
             /\ c(s).raced = (call[s].raced \/ call[s].guarded)
             /\ c(s).late = (call[s].late \/ Unseen(s, v))
  BY DEF GuardInv, EditTypeOK, Call
<1>4. EditTypeOK'
  <2>0. v.text \in 0..MaxText /\ lastText \in 1..MaxText /\ others \in 0..MaxOther
    BY VersionFields DEF GuardInv, EditTypeOK, Texts
  <2>1. lastText' \in 1..MaxText
    <3>1. lastText' = lastText \/ (lastText' = v.text /\ v.text > lastText)
      BY <1>1
    <3> QED BY <2>0, <3>1, EditAssumption
  <2>2. others' \in 0..MaxOther
    <3>1. others' = others + 1 /\ others < MaxOther
      BY <1>1
    <3> QED BY <2>0, <3>1, EditAssumption
  <2> QED BY <1>1, <1>2, <2>1, <2>2 DEF GuardInv, EditTypeOK
<1>5. RecordIsShown'
  BY <1>1 DEF GuardInv, RecordIsShown
<1>6. OneCall'
  BY <1>1, <1>3 DEF GuardInv, OneCall
<1>7. Sound'
  <2> SUFFICES ASSUME NEW s \in Sessions PROVE CallSound(c(s), v, shown[s])
    BY <1>1 DEF Sound
  <2>1. CallSound(call[s], file, shown[s])
    BY DEF GuardInv, Sound
  <2> HIDE DEF c
  <2> QED BY <1>3, <2>1 DEF CallSound, Unseen, At
<1> QED BY <1>4, <1>5, <1>6, <1>7 DEF GuardInv

LEMMA RestartKeeps ==
    ASSUME GuardInv, Restart
    PROVE  GuardInv'
<1>1. /\ UNCHANGED <<clock, others, lastText, file, record, shown, was>>
      /\ call' = [s \in Sessions |-> NoCall]
      /\ reading' = [s \in Sessions |-> NoVersion]
      /\ undo' = [s \in Sessions |-> NoUndo]
  BY DEF Restart, fileVars
<1>2. NoUndo \in [before : Texts, after : Texts]
  BY EditAssumption DEF NoUndo, Texts, NoText
<1>3. EditTypeOK'
  BY <1>1, <1>2, NoCallTyped DEF GuardInv, EditTypeOK
<1>4. RecordIsShown' /\ OneCall' /\ Sound'
  BY <1>1, IdleSound DEF GuardInv, RecordIsShown, OneCall, Sound, NoCall
<1> QED BY <1>3, <1>4 DEF GuardInv

LEMMA TickKeeps ==
    ASSUME GuardInv, Tick
    PROVE  GuardInv'
<1>1. /\ UNCHANGED <<others, lastText, file, call, reading, record, undo, shown, was>>
      /\ clock < MaxTime /\ clock' = clock + 1
  BY DEF Tick, trackVars
<1>2. clock' \in 1..MaxTime
  BY <1>1, EditAssumption DEF GuardInv, EditTypeOK
<1> QED BY <1>1, <1>2 DEF GuardInv, EditTypeOK, RecordIsShown, OneCall, Sound

-----------------------------------------------------------------------------
(* The theorems.                                                            *)

LEMMA InitGuard == EditInit => GuardInv
<1> SUFFICES ASSUME EditInit PROVE GuardInv
  OBVIOUS
<1>1. NoUndo \in [before : Texts, after : Texts]
  BY EditAssumption DEF NoUndo, Texts, NoText
<1>2. file \in Version
  BY EditAssumption DEF EditInit, Version, Texts, NoText
<1>3. EditTypeOK
  BY <1>1, <1>2, NoCallTyped, EditAssumption DEF EditInit, EditTypeOK, Unknown
<1>4. RecordIsShown /\ OneCall /\ Sound
  BY IdleSound DEF EditInit, RecordIsShown, OneCall, Sound, NoCall, NoVersion
<1> QED BY <1>3, <1>4 DEF GuardInv

LEMMA NextGuard == GuardInv /\ [EditNext]_editVars => GuardInv'
<1> SUFFICES ASSUME GuardInv, [EditNext]_editVars PROVE GuardInv'
  OBVIOUS
<1>1. ASSUME NEW s \in Sessions, EditStep(s) PROVE GuardInv'
  BY <1>1, BeginWriteKeeps, BeginUndoKeeps, BeginEditKeeps, CaptureKeeps, EditReadKeeps,
     EditStatKeeps, StageKeeps, PublishKeeps, DetectKeeps, RecordKeeps, DiagnoseKeeps,
     TakeKeeps, ReadSnapshotKeeps, ReadRecordKeeps DEF EditStep
<1>2. CASE UNCHANGED editVars
  BY <1>2 DEF editVars, fileVars, trackVars, GuardInv, EditTypeOK, RecordIsShown, OneCall, Sound
<1> QED BY <1>1, <1>2, TickKeeps, OtherProgramKeeps, RestartKeeps DEF EditNext

\* The file, the calls and the trackers keep their types in every step, for any
\* number of sessions, texts, ticks and retries.
THEOREM EditTypeCorrect == EditSpec => []EditTypeOK
<1>1. GuardInv => EditTypeOK
  BY DEF GuardInv
<1> QED BY InitGuard, NextGuard, <1>1, PTL DEF EditSpec

\* The guard of write_file: it never destroys a text its session neither was
\* shown nor wrote, unless another program put it there after the guard.
THEOREM OverwriteGuard == EditSpec => OverwritesOnlySeen
<1>1. GuardInv /\ [EditNext]_editVars =>
        [ \A s \in Sessions :
            (/\ Replaces(s)
             /\ call[s].tool = "write"
             /\ call[s].guarded /\ ~ call[s].raced)
            => file.text \in shown[s] \cup {NoText} ]_editVars
  BY DEF GuardInv, Sound, CallSound, Replaces, At
<1> QED BY InitGuard, NextGuard, <1>1, PTL DEF EditSpec, OverwritesOnlySeen

\* edit_file replaces the very text it was computed from.
THEOREM EditsKept == EditSpec => EditsAreNotLost
<1>1. GuardInv /\ [EditNext]_editVars =>
        [ \A s \in Sessions :
            Replaces(s) /\ call[s].tool = "edit" /\ ~ call[s].late
            => file.text = call[s].base ]_editVars
  BY DEF GuardInv, Sound, CallSound, Replaces, At
<1> QED BY InitGuard, NextGuard, <1>1, PTL DEF EditSpec, EditsAreNotLost
-----------------------------------------------------------------------------
(* What an undo and a rollback rest on.                                     *)

Overwrites(c) == c.tool \in {"write", "edit"}
TakesBack(c) == c.tool = "rollback" \/ (c.tool = "undo" /\ ~ c.forced)

\* What was known of the write of text t to have replaced is b, or nothing is known.
Replaced(w, t, b) == w[t] \in {Unknown, b}

\* What a call may assume of the file f, of the texts S its session knows and of
\* what w says the writes replaced: a write that no program has disturbed replaces
\* its base, so its base is what comes back.
CallInverse(c, f, S, w) ==
    /\ c.pc \in {"capture", "stage"} => Overwrites(c)
    /\ c.pc \in {"stage", "publish"} /\ c.tool = "write" /\ ~ c.late => f.text = c.base
    /\ c.pc = "publish" /\ Overwrites(c) => w[c.staged.text] = Unknown
    /\ c.pc \in {"detect", "record", "diagnose"} /\ Overwrites(c)
          => Replaced(w, c.staged.text, c.base)
    /\ c.pc = "diagnose" => Overwrites(c) /\ c.staged.text \in S
    /\ c.pc = "publish" /\ TakesBack(c) /\ ~ c.late
          => f.text \in S /\ Replaced(w, f.text, c.staged.text)

Inverses == \A s \in Sessions : CallInverse(call[s], file, shown[s], was)

\* A text that a call is about to put on disk, or has, was drawn.
Drawn(c) == c.pc \in {"publish", "detect", "record"} /\ Overwrites(c) => c.staged.text =< lastText
StagedIsDrawn == \A s \in Sessions : Drawn(call[s])

\* Nothing was replaced by a text that nobody has drawn.
FreshTexts == \A t \in Texts : t > lastText => was[t] = Unknown

\* An undo entry is about a write of its session and has what that write replaced.
UndoSound(u, S, w, last) ==
    u.after # NoText => u.after =< last /\ u.after \in S /\ Replaced(w, u.after, u.before)
UndoIsSound == \A s \in Sessions : UndoSound(undo[s], shown[s], was, lastText)

\* No undo entry is about a text still to be published.
Unrecorded(c) == c.pc = "publish" /\ Overwrites(c)
                    => \A u \in Sessions : undo[u].after # c.staged.text
PublishesNew == \A s \in Sessions : Unrecorded(call[s])

InverseInv == Inverses /\ StagedIsDrawn /\ FreshTexts /\ UndoIsSound /\ PublishesNew

-----------------------------------------------------------------------------
(* It is kept.                                                              *)

LEMMA StagedText == ASSUME NEW t \in Texts PROVE Staged(t).text = t
BY DEF Staged, NoVersion, NoText

\* A step that changes one call and nothing the others rely on.
LEMMA InverseMove ==
    ASSUME GuardInv, InverseInv, NEW s \in Sessions, NEW c \in Call, Moves(s, c),
           CallInverse(c, file, shown[s], was), Drawn(c), Unrecorded(c),
           UNCHANGED <<lastText, file, undo, shown, was>>
    PROVE  InverseInv'
<1>1. /\ call'[s] = c
      /\ \A t \in Sessions : t # s => call'[t] = call[t]
  BY StepTyped DEF GuardInv, EditTypeOK
<1>2. Inverses'
  <2> SUFFICES ASSUME NEW t \in Sessions PROVE CallInverse(call'[t], file, shown[t], was)
    BY DEF Inverses
  <2> QED BY <1>1 DEF InverseInv, Inverses
<1>3. StagedIsDrawn'
  BY <1>1 DEF InverseInv, StagedIsDrawn, Drawn, Overwrites
<1>4. FreshTexts' /\ UndoIsSound'
  BY DEF InverseInv, FreshTexts, UndoIsSound
<1>5. PublishesNew'
  BY <1>1 DEF InverseInv, PublishesNew, Unrecorded, Overwrites
<1> QED BY <1>2, <1>3, <1>4, <1>5 DEF InverseInv

\* One that publishes nothing but moves its call on.
LEMMA InverseGo ==
    ASSUME GuardInv, InverseInv, NEW s \in Sessions, NEW c \in Call, Moves(s, c),
           CallInverse(c, file, shown[s], was),
           c.pc \in {"publish", "detect", "record"} => ~ Overwrites(c),
           UNCHANGED <<fileVars, trackVars, shown, was>>
    PROVE  InverseInv'
<1>1. UNCHANGED <<lastText, file, undo, shown, was>>
  BY DEF fileVars, trackVars
<1>2. Drawn(c) /\ Unrecorded(c)
  BY DEF Drawn, Unrecorded
<1> QED BY <1>1, <1>2, InverseMove

LEMMA IdleInverse ==
    ASSUME GuardInv, InverseInv, NEW s \in Sessions, Moves(s, NoCall),
           UNCHANGED <<fileVars, trackVars, shown, was>>
    PROVE  InverseInv'
<1>1. CallInverse(NoCall, file, shown[s], was)
  BY DEF CallInverse, NoCall
<1> QED BY <1>1, NoCallTyped, InverseGo DEF NoCall

LEMMA BeginWriteInverse ==
    ASSUME GuardInv, InverseInv, NEW s \in Sessions, NEW force \in BOOLEAN, BeginWrite(s, force)
    PROVE  InverseInv'
<1> DEFINE c == [NoCall EXCEPT !.pc = "capture", !.tool = "write", !.forced = force,
                               !.guarded = HasRead(s) /\ ~ force]
<1>1. c \in Call
  BY NoCallTyped DEF Call, Places, Tools, NoCall
<1>2. CallInverse(c, file, shown[s], was) /\ c.pc = "capture"
  BY DEF CallInverse, Overwrites, NoCall
<1>3. Moves(s, c) /\ UNCHANGED <<fileVars, trackVars, shown, was>>
  BY DEF BeginWrite
<1> HIDE DEF c
<1> QED BY <1>1, <1>2, <1>3, InverseGo

LEMMA BeginEditInverse ==
    ASSUME GuardInv, InverseInv, NEW s \in Sessions, BeginEdit(s)
    PROVE  InverseInv'
<1> DEFINE c == [NoCall EXCEPT !.pc = "read", !.tool = "edit"]
<1>1. c \in Call
  BY NoCallTyped DEF Call, Places, Tools, NoCall
<1>2. CallInverse(c, file, shown[s], was) /\ c.pc = "read"
  BY DEF CallInverse, NoCall
<1>3. Moves(s, c) /\ UNCHANGED <<fileVars, trackVars, shown, was>>
  BY DEF BeginEdit
<1> HIDE DEF c
<1> QED BY <1>1, <1>2, <1>3, InverseGo

LEMMA BeginUndoInverse ==
    ASSUME GuardInv, InverseInv, NEW s \in Sessions, NEW force \in BOOLEAN, BeginUndo(s, force)
    PROVE  InverseInv'
<1> DEFINE v == Staged(undo[s].before)
           c == [NoCall EXCEPT !.pc = "publish", !.tool = "undo", !.forced = force, !.staged = v]
<1>1. undo[s].before \in Texts
  BY DEF GuardInv, EditTypeOK
<1>2. v \in Version /\ v.text = undo[s].before
  BY <1>1, StagedTyped, StagedText DEF GuardInv, EditTypeOK
<1>3. Moves(s, c) /\ UNCHANGED <<fileVars, trackVars, shown, was>> /\ (force \/ UndoSafe(s))
  BY DEF BeginUndo
<1> HIDE DEF v
<1>4. c \in Call
  BY <1>2, NoCallTyped DEF Call, Places, Tools, NoCall
<1>5. c.pc = "publish" /\ c.tool = "undo" /\ c.forced = force /\ c.staged = v
  BY DEF NoCall
<1> HIDE DEF c
<1>6. CallInverse(c, file, shown[s], was)
  BY <1>2, <1>3, <1>5
     DEF CallInverse, Overwrites, TakesBack, UndoSafe, InverseInv, UndoIsSound, UndoSound
<1> QED BY <1>3, <1>4, <1>5, <1>6, InverseGo DEF Overwrites

LEMMA CaptureInverse ==
    ASSUME GuardInv, InverseInv, NEW s \in Sessions, Capture(s)
    PROVE  InverseInv'
<1> DEFINE c == [call[s] EXCEPT !.pc = "stage", !.base = file.text, !.late = FALSE]
<1>1. call[s] \in Call /\ file \in Version /\ call[s].pc = "capture"
  BY DEF GuardInv, EditTypeOK, Capture, At
<1>2. c \in Call
  BY <1>1, VersionFields DEF Call, Places
<1>3. c.pc = "stage" /\ c.base = file.text /\ c.tool = call[s].tool
  BY <1>1 DEF Call
<1>4. Moves(s, c) /\ UNCHANGED <<fileVars, trackVars, shown, was>>
  BY DEF Capture
<1> HIDE DEF c
<1>5. CallInverse(c, file, shown[s], was)
  BY <1>1, <1>3 DEF CallInverse, Overwrites, InverseInv, Inverses
<1> QED BY <1>2, <1>3, <1>4, <1>5, InverseGo

LEMMA EditReadInverse ==
    ASSUME GuardInv, InverseInv, NEW s \in Sessions, EditRead(s)
    PROVE  InverseInv'
<1> DEFINE c == [call[s] EXCEPT !.pc = "stat", !.base = file.text,
                                !.seenAt = file.mtime, !.late = FALSE]
<1>1. call[s] \in Call /\ file \in Version
  BY DEF GuardInv, EditTypeOK
<1>2. c \in Call
  BY <1>1, VersionFields DEF Call, Places
<1>3. c.pc = "stat" /\ CallInverse(c, file, shown[s], was)
  BY <1>1 DEF CallInverse, Call
<1>4. UNCHANGED <<fileVars, trackVars, shown, was>> /\ (Moves(s, c) \/ Moves(s, NoCall))
  BY DEF EditRead
<1> HIDE DEF c
<1> QED BY <1>2, <1>3, <1>4, InverseGo, IdleInverse

LEMMA RetryInverse ==
    ASSUME GuardInv, InverseInv, NEW s \in Sessions, Retry(s),
           UNCHANGED <<fileVars, trackVars, shown, was>>
    PROVE  InverseInv'
<1> DEFINE c == [call[s] EXCEPT !.pc = "read", !.tries = @ + 1, !.staged = NoVersion,
                                !.base = NoText, !.seenAt = 0, !.late = FALSE]
<1>1. call[s] \in Call
  BY DEF GuardInv, EditTypeOK
<1>2. CASE call[s].tries + 1 = MaxTries
  BY <1>2, IdleInverse DEF Retry
<1>3. CASE call[s].tries + 1 # MaxTries
  <2>1. c \in Call
    <3>1. call[s].tries + 1 \in 0..(MaxTries - 1) /\ NoText \in Texts /\ 0 \in 0..MaxTime
      BY <1>1, <1>3, EditAssumption DEF Call, Texts, NoText
    <3> QED BY <1>1, <3>1, NoCallTyped DEF Call, Places
  <2>2. c.pc = "read" /\ CallInverse(c, file, shown[s], was)
    BY <1>1 DEF CallInverse, Call
  <2>3. Moves(s, c)
    BY <1>3 DEF Retry
  <2> HIDE DEF c
  <2> QED BY <2>1, <2>2, <2>3, InverseGo
<1> QED BY <1>2, <1>3

LEMMA EditStatInverse ==
    ASSUME GuardInv, InverseInv, NEW s \in Sessions, EditStat(s)
    PROVE  InverseInv'
<1> DEFINE c == [call[s] EXCEPT !.pc = "stage", !.seenAt = 0]
<1>1. call[s] \in Call /\ call[s].pc = "stat" /\ call[s].tool = "edit"
  BY DEF GuardInv, EditTypeOK, EditStat, At, Sound, CallSound
<1>2. c \in Call
  <2>1. 0 \in 0..MaxTime
    BY EditAssumption
  <2> QED BY <1>1, <2>1 DEF Call, Places
<1>3. c.pc = "stage" /\ c.tool = "edit"
  BY <1>1 DEF Call
<1>4. UNCHANGED <<fileVars, trackVars, shown, was>> /\ (Moves(s, c) \/ Retry(s))
  BY DEF EditStat
<1> HIDE DEF c
<1>5. CallInverse(c, file, shown[s], was)
  BY <1>3 DEF CallInverse, Overwrites
<1> QED BY <1>2, <1>3, <1>4, <1>5, InverseGo, RetryInverse

LEMMA StageInverse ==
    ASSUME GuardInv, InverseInv, NEW s \in Sessions, Stage(s)
    PROVE  InverseInv'
<1>1. call[s] \in Call /\ call[s].pc = "stage" /\ call \in [Sessions -> Call]
  BY DEF GuardInv, EditTypeOK, Stage, At
<1>2. CASE Moves(s, NoCall) /\ UNCHANGED lastText
  <2>1. UNCHANGED <<fileVars, trackVars, shown, was>>
    BY <1>2 DEF Stage, fileVars
  <2> QED BY <1>2, <2>1, IdleInverse
<1>3. CASE /\ lastText < MaxText
           /\ lastText' = lastText + 1
           /\ Moves(s, [call[s] EXCEPT !.pc = "publish", !.staged = Staged(lastText + 1)])
  <2> DEFINE v == Staged(lastText + 1)
             c == [call[s] EXCEPT !.pc = "publish", !.staged = v]
  <2>1. /\ lastText + 1 \in Texts /\ lastText' = lastText + 1 /\ lastText \in Int
        /\ lastText + 1 > lastText
    BY <1>3, EditAssumption DEF GuardInv, EditTypeOK, Texts
  <2>2. v \in Version /\ v.text = lastText + 1
    BY <2>1, StagedTyped, StagedText DEF GuardInv, EditTypeOK
  <2>3. Moves(s, c)
    BY <1>3
  <2> HIDE DEF v
  <2>4. c \in Call
    BY <1>1, <2>2 DEF Call, Places
  <2>5. /\ c.pc = "publish" /\ c.staged.text = lastText + 1 /\ c.tool = call[s].tool
        /\ c.late = call[s].late /\ c.base = call[s].base
    BY <1>1, <2>2 DEF Call
  <2> HIDE DEF c
  <2>6. UNCHANGED <<file, undo, shown, was>>
    BY DEF Stage, trackVars
  <2>7. /\ call'[s] = c
        /\ \A t \in Sessions : t # s => call'[t] = call[t] /\ call[t].pc = "idle"
    BY <1>1, <2>3, <2>4, StepTyped DEF GuardInv, OneCall
  <2>8. was[lastText + 1] = Unknown
    BY <2>1 DEF InverseInv, FreshTexts
  <2>9. Inverses'
    <3>1. CallInverse(call[s], file, shown[s], was)
      BY DEF InverseInv, Inverses
    <3>2. CallInverse(c, file, shown[s], was)
      BY <1>1, <2>5, <2>8, <3>1 DEF CallInverse, Overwrites, TakesBack
    <3> SUFFICES ASSUME NEW t \in Sessions PROVE CallInverse(call'[t], file, shown[t], was)
      BY <2>6 DEF Inverses
    <3> QED BY <2>7, <3>2 DEF InverseInv, Inverses
  <2>10. StagedIsDrawn'
    BY <2>1, <2>5, <2>7 DEF StagedIsDrawn, Drawn
  <2>11. FreshTexts'
    <3>1. \A t \in Texts : t > lastText + 1 => t > lastText
      BY <2>1, EditAssumption DEF Texts
    <3> QED BY <2>1, <2>6, <3>1 DEF InverseInv, FreshTexts
  <2>12. \A u \in Sessions : undo[u].after \in Int
    BY EditAssumption DEF GuardInv, EditTypeOK, Texts
  <2>13. UndoIsSound'
    <3> SUFFICES ASSUME NEW u \in Sessions
                 PROVE  UndoSound(undo[u], shown[u], was, lastText + 1)
      BY <2>1, <2>6 DEF UndoIsSound
    <3> QED BY <2>1, <2>12 DEF InverseInv, UndoIsSound, UndoSound
  <2>14. PublishesNew'
    <3>1. ASSUME NEW u \in Sessions PROVE undo[u].after # lastText + 1
      <4>1. undo[u].after # NoText => undo[u].after =< lastText
        BY DEF InverseInv, UndoIsSound, UndoSound
      <4>2. NoText # lastText + 1
        BY <2>1, EditAssumption DEF GuardInv, EditTypeOK, NoText
      <4> QED BY <2>1, <2>12, <4>1, <4>2
    <3> QED BY <2>5, <2>6, <2>7, <3>1 DEF PublishesNew, Unrecorded
  <2> QED BY <2>9, <2>10, <2>11, <2>13, <2>14 DEF InverseInv
<1> QED BY <1>2, <1>3 DEF Stage

LEMMA PublishInverse ==
    ASSUME GuardInv, InverseInv, NEW s \in Sessions, Publish(s)
    PROVE  InverseInv'
<1> DEFINE c == [NoCall EXCEPT !.pc = IF call[s].tool = "edit" THEN "detect" ELSE "record",
                               !.tool = call[s].tool, !.base = call[s].base,
                               !.staged = call[s].staged, !.tries = call[s].tries]
           t == call[s].staged.text
           writes == Overwrites(call[s]) /\ ~ call[s].late
<1>1. call[s] \in Call /\ call[s].pc = "publish" /\ call \in [Sessions -> Call]
  BY DEF GuardInv, EditTypeOK, Publish, At
<1>2. c \in Call /\ Moves(s, c)
  BY <1>1, NoCallTyped DEF Call, Places, NoCall, Publish
<1>3. /\ c.pc \in {"detect", "record"} /\ c.staged = call[s].staged
      /\ c.tool = call[s].tool /\ c.base = call[s].base
  BY <1>1 DEF NoCall, Call
<1>4. t \in Texts
  BY <1>1, CallFields, VersionFields
<1> HIDE DEF c
<1>5. /\ call'[s] = c
      /\ \A u \in Sessions : u # s => call'[u] = call[u] /\ call[u].pc = "idle"
  BY <1>1, <1>2, StepTyped DEF GuardInv, OneCall
<1>6. /\ UNCHANGED <<lastText, undo>>
      /\ t \in shown'[s] /\ \A u \in Sessions : shown[u] \subseteq shown'[u]
  BY DEF Publish, trackVars, GuardInv, EditTypeOK
<1>7. /\ \A x \in Texts : x # t => was'[x] = was[x]
      /\ writes => was'[t] = file.text
      /\ ~ writes => was'[t] = was[t]
  <2>1. CASE writes
    <3>1. was' = [was EXCEPT ![t] = file.text]
      BY <2>1 DEF Publish, Overwrites
    <3> QED BY <1>4, <2>1, <3>1 DEF GuardInv, EditTypeOK
  <2>2. CASE ~ writes
    BY <2>2 DEF Publish, Overwrites
  <2> QED BY <2>1, <2>2
<1>8. CallInverse(call[s], file, shown[s], was) /\ CallSound(call[s], file, shown[s])
  BY DEF InverseInv, Inverses, GuardInv, Sound
<1>9. Overwrites(call[s]) => Replaced(was', t, call[s].base)
  <2>1. CASE writes
    <3>1. file.text = call[s].base
      BY <1>1, <1>8, <2>1 DEF CallInverse, CallSound, Overwrites
    <3> QED BY <1>7, <2>1, <3>1 DEF Replaced
  <2>2. CASE ~ writes
    BY <1>1, <1>7, <1>8, <2>2 DEF CallInverse, Replaced
  <2> QED BY <2>1, <2>2
<1>10. Inverses'
  <2> SUFFICES ASSUME NEW u \in Sessions
               PROVE  CallInverse(call'[u], file', shown'[u], was')
    BY DEF Inverses
  <2>1. CASE u = s
    BY <1>3, <1>5, <1>9, <2>1 DEF CallInverse, Overwrites
  <2>2. CASE u # s
    BY <1>5, <2>2 DEF CallInverse
  <2> QED BY <2>1, <2>2
<1>11. StagedIsDrawn'
  <2>1. Drawn(call[s])
    BY DEF InverseInv, StagedIsDrawn
  <2>2. Overwrites(c) => c.staged.text =< lastText
    BY <1>1, <1>3, <2>1 DEF Drawn, Overwrites
  <2> QED BY <1>5, <1>6, <2>2 DEF StagedIsDrawn, Drawn
<1>12. FreshTexts'
  <2>1. ASSUME writes PROVE ~ (t > lastText)
    <3>1. t =< lastText
      BY <1>1, <2>1 DEF InverseInv, StagedIsDrawn, Drawn
    <3>2. t \in Int /\ lastText \in Int
      BY <1>4, EditAssumption DEF GuardInv, EditTypeOK, Texts
    <3> QED BY <3>1, <3>2
  <2> QED BY <1>6, <1>7, <2>1 DEF InverseInv, FreshTexts
<1>13. UndoIsSound'
  <2> SUFFICES ASSUME NEW u \in Sessions
               PROVE  UndoSound(undo[u], shown'[u], was', lastText)
    BY <1>6 DEF UndoIsSound
  <2>1. UndoSound(undo[u], shown[u], was, lastText) /\ undo[u].after \in Texts
    BY DEF InverseInv, UndoIsSound, GuardInv, EditTypeOK
  <2>2. writes => undo[u].after # t
    BY <1>1 DEF InverseInv, PublishesNew, Unrecorded
  <2>3. was'[undo[u].after] = was[undo[u].after]
    BY <1>7, <2>1, <2>2
  <2> QED BY <1>6, <2>1, <2>3 DEF UndoSound, Replaced
<1>14. PublishesNew'
  BY <1>3, <1>5 DEF PublishesNew, Unrecorded
<1> QED BY <1>10, <1>11, <1>12, <1>13, <1>14 DEF InverseInv

LEMMA DetectInverse ==
    ASSUME GuardInv, InverseInv, NEW s \in Sessions, Detect(s)
    PROVE  InverseInv'
<1> DEFINE c == [call[s] EXCEPT !.pc = "record"]
<1>1. call[s] \in Call /\ call[s].pc = "detect"
  BY DEF GuardInv, EditTypeOK, Detect, At
<1>2. UNCHANGED <<fileVars, trackVars, shown, was>> /\ (Moves(s, c) \/ Retry(s))
  BY DEF Detect, Go
<1>3. c \in Call
  BY <1>1 DEF Call, Places
<1>4. c.pc = "record" /\ c.tool = call[s].tool /\ c.base = call[s].base /\ c.staged = call[s].staged
  BY <1>1 DEF Call
<1> HIDE DEF c
<1>5. CallInverse(c, file, shown[s], was)
  BY <1>1, <1>4 DEF InverseInv, Inverses, CallInverse, Overwrites
<1>6. Drawn(c) /\ Unrecorded(c)
  BY <1>1, <1>4 DEF InverseInv, StagedIsDrawn, Drawn, Unrecorded, Overwrites
<1>7. UNCHANGED <<lastText, file, undo, shown, was>>
  BY <1>2 DEF fileVars, trackVars
<1> QED BY <1>2, <1>3, <1>5, <1>6, <1>7, InverseMove, RetryInverse

LEMMA RecordInverse ==
    ASSUME GuardInv, InverseInv, NEW s \in Sessions, Record(s)
    PROVE  InverseInv'
<1>1. call[s] \in Call /\ call[s].pc = "record" /\ call \in [Sessions -> Call]
  BY DEF GuardInv, EditTypeOK, Record, At
<1>2. PICK p \in {"diagnose", "take"} : Go(s, p) /\ (p = "diagnose" => Overwrites(call[s]))
  BY DEF Record, AfterRecord, Overwrites
<1> DEFINE c == [call[s] EXCEPT !.pc = p]
<1>3. c \in Call /\ Moves(s, c)
  BY <1>1, <1>2 DEF Call, Places, Go
<1>4. c.pc = p /\ c.tool = call[s].tool /\ c.base = call[s].base /\ c.staged = call[s].staged
  BY <1>1 DEF Call
<1> HIDE DEF c
<1>5. /\ call'[s] = c
      /\ \A u \in Sessions : u # s => call'[u] = call[u] /\ call[u].pc = "idle"
  BY <1>1, <1>3, StepTyped DEF GuardInv, OneCall
<1>6. UNCHANGED <<lastText, file, shown, was>>
  BY DEF Record, fileVars
<1>7. /\ CallInverse(call[s], file, shown[s], was)
      /\ call[s].staged.text \in shown[s]
      /\ Overwrites(call[s]) => call[s].staged.text =< lastText
  BY <1>1 DEF InverseInv, Inverses, StagedIsDrawn, Drawn, GuardInv, Sound, CallSound
<1>8. Inverses'
  <2>1. CallInverse(c, file, shown[s], was)
    BY <1>1, <1>2, <1>4, <1>7 DEF CallInverse, Overwrites
  <2> SUFFICES ASSUME NEW u \in Sessions PROVE CallInverse(call'[u], file, shown[u], was)
    BY <1>6 DEF Inverses
  <2> QED BY <1>5, <2>1 DEF InverseInv, Inverses
<1>9. StagedIsDrawn' /\ PublishesNew'
  BY <1>4, <1>5 DEF StagedIsDrawn, Drawn, PublishesNew, Unrecorded
<1>10. FreshTexts'
  BY <1>6 DEF InverseInv, FreshTexts
<1>11. UndoIsSound'
  <2> DEFINE e == [before |-> call[s].base, after |-> call[s].staged.text]
  <2>1. \/ Overwrites(call[s]) /\ undo' = [undo EXCEPT ![s] = e]
        \/ UNCHANGED undo
    BY DEF Record, Overwrites
  <2>2. Overwrites(call[s]) => UndoSound(e, shown[s], was, lastText)
    BY <1>1, <1>7 DEF UndoSound, CallInverse
  <2> HIDE DEF e
  <2> SUFFICES ASSUME NEW u \in Sessions PROVE UndoSound(undo'[u], shown[u], was, lastText)
    BY <1>6 DEF UndoIsSound
  <2> QED BY <2>1, <2>2 DEF InverseInv, UndoIsSound, GuardInv, EditTypeOK
<1> QED BY <1>8, <1>9, <1>10, <1>11 DEF InverseInv

LEMMA DiagnoseInverse ==
    ASSUME GuardInv, InverseInv, NEW s \in Sessions, Diagnose(s)
    PROVE  InverseInv'
<1> DEFINE v == Staged(call[s].base)
           c == [call[s] EXCEPT !.pc = "publish", !.tool = "rollback", !.late = FALSE,
                                !.staged = v]
           d == [call[s] EXCEPT !.pc = "take"]
<1>1. call[s] \in Call /\ call[s].pc = "diagnose" /\ call[s].base \in Texts
  BY CallFields DEF GuardInv, EditTypeOK, Diagnose, At
<1>2. /\ UNCHANGED <<fileVars, trackVars, shown, was>>
      /\ \/ Moves(s, NoCall)
         \/ Moves(s, d)
         \/ file.text = call[s].staged.text /\ Moves(s, c)
  BY DEF Diagnose, Go
<1>3. v \in Version /\ v.text = call[s].base
  BY <1>1, StagedTyped, StagedText DEF GuardInv, EditTypeOK
<1> HIDE DEF v
<1>4. c \in Call /\ c.pc = "publish" /\ c.tool = "rollback" /\ c.staged = v
  BY <1>1, <1>3 DEF Call, Places, Tools
<1>5. d \in Call /\ d.pc = "take"
  BY <1>1 DEF Call, Places
<1> HIDE DEF c, d
<1>6. CallInverse(d, file, shown[s], was)
  BY <1>5 DEF CallInverse
<1>7. file.text = call[s].staged.text => CallInverse(c, file, shown[s], was)
  <2>1. CallInverse(call[s], file, shown[s], was)
    BY DEF InverseInv, Inverses
  <2> QED BY <1>1, <1>3, <1>4, <2>1 DEF CallInverse, Overwrites, TakesBack, Replaced
<1> QED BY <1>2, <1>4, <1>5, <1>6, <1>7, InverseGo, IdleInverse DEF Overwrites

LEMMA TakeInverse ==
    ASSUME GuardInv, InverseInv, NEW s \in Sessions, Take(s)
    PROVE  InverseInv'
<1>1. /\ UNCHANGED <<lastText, file, shown, was>>
      /\ Moves(s, NoCall) /\ undo' = [undo EXCEPT ![s] = NoUndo]
  BY DEF Take, fileVars
<1>2. /\ call'[s] = NoCall
      /\ \A u \in Sessions : u # s => call'[u] = call[u]
  BY <1>1, NoCallTyped, StepTyped DEF GuardInv, EditTypeOK
<1>3. \A u \in Sessions : undo'[u] = undo[u] \/ undo'[u] = NoUndo
  BY <1>1 DEF GuardInv, EditTypeOK
<1>4. Inverses'
  <2>1. CallInverse(NoCall, file, shown[s], was)
    BY DEF CallInverse, NoCall
  <2> SUFFICES ASSUME NEW u \in Sessions PROVE CallInverse(call'[u], file, shown[u], was)
    BY <1>1 DEF Inverses
  <2> QED BY <1>2, <2>1 DEF InverseInv, Inverses
<1>5. StagedIsDrawn'
  BY <1>1, <1>2 DEF InverseInv, StagedIsDrawn, Drawn, Overwrites, NoCall
<1>6. FreshTexts'
  BY <1>1 DEF InverseInv, FreshTexts
<1>7. UndoIsSound'
  BY <1>1, <1>3 DEF InverseInv, UndoIsSound, UndoSound, NoUndo
<1>8. PublishesNew'
  <2> SUFFICES ASSUME NEW t \in Sessions, call'[t].pc = "publish", Overwrites(call'[t]),
                      NEW u \in Sessions
               PROVE  undo'[u].after # call'[t].staged.text
    BY DEF PublishesNew, Unrecorded, Overwrites
  <2>1. call[s].pc = "take" /\ t # s /\ call[t].pc = "publish"
    BY <1>2 DEF NoCall, Take, At
  <2> QED BY <2>1 DEF GuardInv, OneCall
<1> QED BY <1>4, <1>5, <1>6, <1>7, <1>8 DEF InverseInv

LEMMA ReadRecordInverse ==
    ASSUME GuardInv, InverseInv, NEW s \in Sessions, ReadRecord(s)
    PROVE  InverseInv'
<1>1. /\ UNCHANGED <<lastText, file, call, undo, was>>
      /\ \A u \in Sessions : shown[u] \subseteq shown'[u]
  BY DEF ReadRecord, fileVars, GuardInv, EditTypeOK
<1>2. Inverses'
  BY <1>1 DEF InverseInv, Inverses, CallInverse
<1>3. UndoIsSound'
  BY <1>1 DEF InverseInv, UndoIsSound, UndoSound
<1> QED BY <1>1, <1>2, <1>3
     DEF InverseInv, StagedIsDrawn, Drawn, FreshTexts, PublishesNew, Unrecorded

LEMMA OtherProgramInverse ==
    ASSUME GuardInv, InverseInv, NEW v \in Version, OtherProgram(v)
    PROVE  InverseInv'
<1> DEFINE c(s) == [call[s] EXCEPT !.raced = @ \/ call[s].guarded,
                                   !.late = @ \/ Unseen(s, v)]
<1>1. /\ UNCHANGED <<undo, shown, was>> /\ file' = v
      /\ lastText' = IF v.text > lastText THEN v.text ELSE lastText
      /\ call' = [s \in Sessions |-> c(s)]
  BY DEF OtherProgram, trackVars
<1>2. ASSUME NEW s \in Sessions
      PROVE  /\ c(s).pc = call[s].pc /\ c(s).tool = call[s].tool /\ c(s).base = call[s].base
             /\ c(s).staged = call[s].staged /\ c(s).forced = call[s].forced
             /\ c(s).late = (call[s].late \/ Unseen(s, v))
  BY DEF GuardInv, EditTypeOK, Call
<1>3. lastText \in Int /\ lastText' \in Int /\ lastText =< lastText'
  <2>1. lastText \in Int /\ v.text \in Int
    BY VersionFields, EditAssumption DEF GuardInv, EditTypeOK, Texts
  <2>2. CASE v.text > lastText
    <3>1. lastText' = v.text
      BY <1>1, <2>2
    <3> QED BY <2>1, <2>2, <3>1
  <2>3. CASE ~ (v.text > lastText)
    <3>1. lastText' = lastText
      BY <1>1, <2>3
    <3> QED BY <2>1, <3>1
  <2> QED BY <2>2, <2>3
<1> HIDE DEF c
<1>4. Inverses'
  <2> SUFFICES ASSUME NEW s \in Sessions PROVE CallInverse(c(s), v, shown[s], was)
    BY <1>1 DEF Inverses
  <2>1. CallInverse(call[s], file, shown[s], was)
    BY DEF InverseInv, Inverses
  <2>2. call[s].pc \in {"stage", "publish"} => c(s).late
    BY <1>2 DEF Unseen
  <2> QED BY <1>2, <2>1, <2>2 DEF CallInverse, Overwrites
<1>5. StagedIsDrawn'
  <2> SUFFICES ASSUME NEW s \in Sessions, call[s].pc \in {"publish", "detect", "record"},
                      Overwrites(call[s])
               PROVE  call[s].staged.text =< lastText'
    BY <1>1, <1>2 DEF StagedIsDrawn, Drawn, Overwrites
  <2>1. call[s].staged.text =< lastText
    BY DEF InverseInv, StagedIsDrawn, Drawn
  <2>2. call[s].staged.text \in Int
    <3>1. call[s] \in Call
      BY DEF GuardInv, EditTypeOK
    <3> QED BY <3>1, CallFields, VersionFields, EditAssumption DEF Texts
  <2> QED BY <1>3, <2>1, <2>2
<1>6. FreshTexts'
  <2>1. \A t \in Texts : t > lastText' => t > lastText
    BY <1>3, EditAssumption DEF Texts
  <2> QED BY <1>1, <2>1 DEF InverseInv, FreshTexts
<1>7. UndoIsSound'
  <2> SUFFICES ASSUME NEW u \in Sessions PROVE UndoSound(undo[u], shown[u], was, lastText')
    BY <1>1 DEF UndoIsSound
  <2>1. undo[u].after \in Int
    BY EditAssumption DEF GuardInv, EditTypeOK, Texts
  <2>2. UndoSound(undo[u], shown[u], was, lastText)
    BY DEF InverseInv, UndoIsSound
  <2> QED BY <1>3, <2>1, <2>2 DEF UndoSound
<1>8. PublishesNew'
  BY <1>1, <1>2 DEF InverseInv, PublishesNew, Unrecorded, Overwrites
<1> QED BY <1>4, <1>5, <1>6, <1>7, <1>8 DEF InverseInv

LEMMA RestartInverse ==
    ASSUME GuardInv, InverseInv, Restart
    PROVE  InverseInv'
<1>1. /\ UNCHANGED <<lastText, shown, was>>
      /\ call' = [s \in Sessions |-> NoCall]
      /\ undo' = [s \in Sessions |-> NoUndo]
  BY DEF Restart, fileVars
<1>2. Inverses' /\ StagedIsDrawn' /\ PublishesNew'
  BY <1>1 DEF Inverses, CallInverse, StagedIsDrawn, Drawn, PublishesNew, Unrecorded, NoCall
<1>3. UndoIsSound'
  BY <1>1 DEF UndoIsSound, UndoSound, NoUndo
<1> QED BY <1>1, <1>2, <1>3 DEF InverseInv, FreshTexts

\* Nothing that the calls and the undo entries rest on has changed.
LEMMA InverseStays ==
    ASSUME InverseInv, UNCHANGED <<lastText, file, call, undo, shown, was>>
    PROVE  InverseInv'
BY DEF InverseInv, Inverses, StagedIsDrawn, Drawn, FreshTexts, UndoIsSound, PublishesNew,
       Unrecorded

LEMMA InitInverse == EditInit => InverseInv
BY DEF EditInit, InverseInv, Inverses, CallInverse, StagedIsDrawn, Drawn, FreshTexts,
       UndoIsSound, UndoSound, PublishesNew, Unrecorded, NoCall, NoUndo

LEMMA NextInverse == GuardInv /\ InverseInv /\ [EditNext]_editVars => InverseInv'
<1> SUFFICES ASSUME GuardInv, InverseInv, [EditNext]_editVars PROVE InverseInv'
  OBVIOUS
<1>1. ASSUME NEW s \in Sessions, EditStep(s) PROVE InverseInv'
  <2>1. CASE ReadSnapshot(s)
    BY <2>1, InverseStays DEF ReadSnapshot, fileVars
  <2> QED BY <1>1, <2>1, BeginWriteInverse, BeginUndoInverse, BeginEditInverse, CaptureInverse,
     EditReadInverse, EditStatInverse, StageInverse, PublishInverse, DetectInverse,
     RecordInverse, DiagnoseInverse, TakeInverse, ReadRecordInverse DEF EditStep
<1>2. CASE UNCHANGED editVars
  BY <1>2, InverseStays DEF editVars, fileVars, trackVars
<1>3. CASE Tick
  BY <1>3, InverseStays DEF Tick, trackVars
<1> QED BY <1>1, <1>2, <1>3, OtherProgramInverse, RestartInverse DEF EditNext

\* undo_edit without force takes back one write of its session: what comes back
\* is what that write replaced, whoever wrote or restarted in between.
THEOREM UndoTakesBackOne == EditSpec => UndoIsInverse
<1>1. GuardInv /\ InverseInv /\ [EditNext]_editVars =>
        [ \A s \in Sessions :
            (/\ Replaces(s)
             /\ call[s].tool = "undo" /\ ~ call[s].forced /\ ~ call[s].late)
            => /\ file.text \in shown[s]
               /\ was[file.text] \in {Unknown, file'.text} ]_editVars
  BY DEF InverseInv, Inverses, CallInverse, TakesBack, Replaced, Replaces, At
<1> QED BY InitGuard, NextGuard, InitInverse, NextInverse, <1>1, PTL
     DEF EditSpec, UndoIsInverse

\* A rollback for new errors puts back what its write replaced, and replaces a
\* text of its own session: never what another program has written since.
THEOREM RollbackTakesBackOwn == EditSpec => RollbackKeepsOthers
<1>1. GuardInv /\ InverseInv /\ [EditNext]_editVars =>
        [ \A s \in Sessions :
            Replaces(s) /\ call[s].tool = "rollback" /\ ~ call[s].late
            => /\ file.text \in shown[s]
               /\ was[file.text] \in {Unknown, file'.text} ]_editVars
  BY DEF InverseInv, Inverses, CallInverse, TakesBack, Replaced, Replaces, At
<1> QED BY InitGuard, NextGuard, InitInverse, NextInverse, <1>1, PTL
     DEF EditSpec, RollbackKeepsOthers
=============================================================================
