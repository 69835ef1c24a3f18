------------------------ MODULE ReviewedStage_proofs ------------------------
(***************************************************************************)
(* Proofs about ReviewedStage for every bundle, text, grant and bound.     *)
(***************************************************************************)
EXTENDS ReviewedStage, TLAPS

(* Of two texts of the bundle any selection of hunks is a text.            *)
LEMMA SelectType ==
    ASSUME NEW old \in Text, NEW new \in Text, NEW rejected \in SUBSET Hunk
    PROVE  Select(old, new, rejected) \in Text
  BY FileAssumption DEF Select, Text

(* A readable file and a staged text have a diff.                          *)
LEMMA RevisionType ==
    ASSUME TypeOK, NEW p \in Path, NEW file,
           file.kind \in Kinds, file.content \in Text, Readable(p, file.kind)
    PROVE  RevisionOf(p, file) \in DiffRevision
  <1>1. disk[p] \in Text \cup {Absent}
    BY DEF TypeOK, File
  <1>2. Original(p, file.kind) \in Text
    BY <1>1 DEF Original, Readable, Text
  <1> QED
    BY <1>2 DEF RevisionOf, DiffRevision

(* What is prepared for a file is a text or no file.                       *)
LEMMA PrepareType ==
    ASSUME TypeOK, NEW p \in Path, NEW file \in StagedFile, Readable(p, file.kind)
    PROVE  Prepare(p, file) \in Prepared
  <1>1. RevisionOf(p, file) \in DiffRevision
    BY RevisionType DEF StagedFile
  <1>2. CASE file.selection = None
    <2>1. Effective(RevisionOf(p, file), file.selection) \in File
      BY <1>1, <1>2 DEF Effective, DiffRevision, File
    <2> QED  BY <1>1, <2>1 DEF Prepare, Prepared
  <1>3. CASE file.selection # None
    <2>1. file.selection.rejected \in SUBSET Hunk
      BY <1>3 DEF StagedFile, Selection
    <2>2. Select(RevisionOf(p, file).original, RevisionOf(p, file).content,
                 file.selection.rejected) \in Text
      BY <1>1, <2>1, SelectType DEF DiffRevision
    <2>3. Effective(RevisionOf(p, file), file.selection) \in File
      BY <1>3, <2>2 DEF Effective, File
    <2> QED  BY <1>1, <2>3 DEF Prepare, Prepared
  <1> QED  BY <1>2, <1>3

-----------------------------------------------------------------------------
(* An agent's write leaves a staged file.                                  *)
LEMMA StagedWriteType ==
    ASSUME TypeOK, NEW p \in Path, NEW text \in Text
    PROVE  StagedWrite(p, text) \in StagedFile
  <1>1. CASE files[p] = None
    BY <1>1 DEF StagedWrite, StagedFile, Kinds
  <1>2. CASE files[p] # None
    <2>1. files[p] \in StagedFile
      BY <1>2 DEF TypeOK
    <2> QED  BY <1>2, <2>1 DEF StagedWrite, StagedFile
  <1> QED  BY <1>1, <1>2

LEMMA StageInitType == Init => TypeOK
  <1> SUFFICES ASSUME Init PROVE TypeOK
    OBVIOUS
  <1>1. disk \in [Path -> File] /\ now \in 0..MaxTime /\ grant \in Grants
    BY StagedStartAssumption, StagedBoundAssumption DEF Init, Denied, Grants
  <1>2. stagings \in 0..MaxStagings /\ choices \in 0..MaxChoices /\ edits \in 0..MaxEdits
    BY StagedBoundAssumption DEF Init
  <1> QED
    BY <1>1, <1>2 DEF Init, TypeOK, Nothing, Modes

(* Files that leave the stage leave everything in its type.                *)
LEMMA UnstageType ==
    ASSUME TypeOK, NEW paths, Unstage(paths)
    PROVE  /\ files' \in [Path -> StagedFile \cup {None}]
           /\ shown' \in [Path -> DiffRevision \cup {None}]
           /\ verdicts' \subseteq Verdict
  BY DEF TypeOK, Unstage, Forget

LEMMA ChoiceFailsType ==
    ASSUME TypeOK, ChoiceFails
    PROVE  /\ choice' \in Choice \cup {None}
           /\ files' \in [Path -> StagedFile \cup {None}]
           /\ shown' \in [Path -> DiffRevision \cup {None}]
           /\ verdicts' \subseteq Verdict
  BY DEF TypeOK, ChoiceFails

-----------------------------------------------------------------------------
LEMMA AgentType ==
    ASSUME TypeOK, Agent
    PROVE  TypeOK'
  <1>1. ASSUME NEW batch \in Batches, Stage(batch) PROVE TypeOK'
    <2>1. \A p \in DOMAIN batch : batch[p] \in Text
      BY ActorAssumption DEF Batches
    <2>2. files' \in [Path -> StagedFile \cup {None}]
      BY <1>1, <2>1, StagedWriteType DEF Stage, TypeOK
    <2>3. stagings' \in 0..MaxStagings
      BY <1>1, StagedBoundAssumption DEF Stage, TypeOK
    <2>4. verdicts' \subseteq Verdict
      BY <1>1 DEF Stage, Forget, TypeOK
    <2> QED
      BY <1>1, <2>2, <2>3, <2>4 DEF Stage, TypeOK, clock, Choice, Validation, Report
  <1>2. ASSUME NEW p \in Path, StageDelete(p) PROVE TypeOK'
    <2>1. [kind |-> "delete", content |-> Empty, selection |-> None] \in StagedFile
      BY DEF StagedFile, Kinds, Text
    <2>2. files' \in [Path -> StagedFile \cup {None}]
      BY <1>2, <2>1 DEF StageDelete, TypeOK
    <2>3. stagings' \in 0..MaxStagings
      BY <1>2, StagedBoundAssumption DEF StageDelete, TypeOK
    <2>4. verdicts' \subseteq Verdict
      BY <1>2 DEF StageDelete, Forget, TypeOK
    <2> QED
      BY <1>2, <2>2, <2>3, <2>4 DEF StageDelete, TypeOK, clock
  <1> QED
    BY <1>1, <1>2 DEF Agent
LEMMA UserType ==
    ASSUME TypeOK, User
    PROVE  TypeOK'
  <1>1. CASE Register
    <2>1. grant' \in Grants /\ mode' \in Modes
      BY <1>1 DEF Register, Grants, Denied, Modes
    <2> QED  BY <1>1, <2>1, UnstageType DEF Register, TypeOK, clock, counters
  <1>2. CASE Discard
    BY <1>2, UnstageType DEF Discard, TypeOK, clock, counters
  <1>3. ASSUME NEW kind \in {"denied", "interactive", "unattended"}, SetGrant(kind) PROVE TypeOK'
    <2>1. now + Term \in Times /\ now' \in 0..MaxTime
      BY <1>3, TermAssumption, StagedBoundAssumption DEF SetGrant, TypeOK, Times
    <2>2. grant' \in Grants /\ timers' \subseteq Times
      BY <1>3, <2>1 DEF SetGrant, Grants, TypeOK
    <2> QED  BY <1>3, <2>1, <2>2 DEF SetGrant, TypeOK, review, counters
  <1>4. ASSUME NEW m \in Modes, SetMode(m) PROVE TypeOK'
    BY <1>4 DEF SetMode, TypeOK, clock, review, counters
  <1>5. ASSUME NEW p \in Path, DiscardFile(p) PROVE TypeOK'
    BY <1>5, UnstageType DEF DiscardFile, TypeOK, clock, counters
  <1>6. ASSUME NEW p \in Path, ViewDiff(p) PROVE TypeOK'
    <2>1. files[p] \in StagedFile
      BY <1>6 DEF ViewDiff, TypeOK
    <2>2. RevisionOf(p, files[p]) \in DiffRevision
      BY <1>6, <2>1, RevisionType DEF ViewDiff, StagedFile
    <2> QED  BY <1>6, <2>2 DEF ViewDiff, TypeOK, clock, counters
  <1>7. ASSUME NEW p \in Path, NEW h \in Hunk, NEW selected \in BOOLEAN,
               ChoiceBegin(p, h, selected)
        PROVE  TypeOK'
    <2>1. files[p] \in StagedFile /\ shown[p] \in DiffRevision
      BY <1>7 DEF ChoiceBegin, TypeOK
    <2>2. choice' \in Choice
      BY <1>7, <2>1 DEF ChoiceBegin, Choice, StagedFile
    <2>3. choices' \in 0..MaxChoices
      BY <1>7, StagedBoundAssumption DEF ChoiceBegin, TypeOK
    <2> QED  BY <1>7, <2>2, <2>3 DEF ChoiceBegin, TypeOK, clock
  <1>8. CASE ValidateBegin
    <2>1. validation' \in Validation
      BY <1>8 DEF ValidateBegin, Validation, TypeOK, Outcome, Nothing, Staged
    <2> QED  BY <1>8, <2>1 DEF ValidateBegin, TypeOK, clock, counters
  <1>9. ASSUME Apply \/ CreateBundle
        PROVE  PreparedStage \in Outcome
    <2>1. ASSUME NEW p \in Path, files[p] # None PROVE Prepare(p, files[p]) \in Prepared
      BY <1>9, <2>1, PrepareType DEF Apply, CreateBundle, Confirmed, Preparable, Staged, TypeOK
    <2> QED  BY <2>1 DEF PreparedStage, Outcome
  <1>10. CASE Apply
    <2>1. disk' \in [Path -> File]
      BY <1>9, <1>10 DEF Apply, Overlay, Outcome, Prepared, TypeOK
    <2> QED  BY <1>10, <2>1, UnstageType DEF Apply, TypeOK, clock, counters
  <1>11. CASE CreateBundle
    <2>1. Mirror(PreparedStage) \in [Path -> File]
      BY <1>9, <1>11 DEF CreateBundle, Mirror, Overlay, Outcome, Prepared, File
    <2> QED  BY <1>11, <2>1, UnstageType DEF CreateBundle, TypeOK, clock, counters
  <1> QED
    BY <1>1, <1>2, <1>3, <1>4, <1>5, <1>6, <1>7, <1>8, <1>10, <1>11 DEF User

LEMMA BackgroundType ==
    ASSUME TypeOK, Background
    PROVE  TypeOK'
  <1>1. CASE ChoiceCheck
    <2>1. choice \in Choice
      BY <1>1 DEF ChoiceCheck, TypeOK
    <2>2. CASE ChoiceFails
      BY <1>1, <2>2, ChoiceFailsType DEF ChoiceCheck, TypeOK, clock, counters
    <2>3. CASE /\ choice' = [choice EXCEPT !.checked = TRUE]
               /\ UNCHANGED <<files, shown, verdicts>>
      <3>1. choice' \in Choice
        BY <2>1, <2>3 DEF Choice
      <3> QED  BY <1>1, <2>3, <3>1 DEF ChoiceCheck, TypeOK, clock, counters
    <2> QED  BY <1>1, <2>2, <2>3 DEF ChoiceCheck
  <1>2. CASE ChoiceCommit
    <2>1. choice \in Choice
      BY <1>2 DEF ChoiceCommit, TypeOK
    <2>2. CASE ChoiceFails
      BY <1>2, <2>2, ChoiceFailsType DEF ChoiceCommit, TypeOK, clock, counters
    <2>3. CASE StillStaged
      <3>1. files[choice.path] \in StagedFile
        BY <2>1, <2>3 DEF StillStaged, Choice, TypeOK
      <3>2. SelectionFor(files[choice.path], choice.revision) \in Selection
        BY <2>1, <3>1 DEF SelectionFor, StagedFile, Selection, Choice
      <3>3. Chosen(SelectionFor(files[choice.path], choice.revision)) \in Selection
        BY <2>1, <3>2 DEF Chosen, Selection, Choice
      <3>4. files' \in [Path -> StagedFile \cup {None}]
        BY <1>2, <2>3, <3>1, <3>3 DEF ChoiceCommit, StagedFile, TypeOK
      <3>5. verdicts' \subseteq Verdict
        BY <1>2, <2>1, <2>3 DEF ChoiceCommit, Verdict, Choice, TypeOK
      <3> QED  BY <1>2, <2>3, <3>4, <3>5 DEF ChoiceCommit, TypeOK, clock, counters
    <2> QED  BY <1>2, <2>2, <2>3 DEF ChoiceCommit
  <1>3. CASE ValidateReviews
    <2>1. validation' \in Validation
      BY <1>3 DEF ValidateReviews, Validation, TypeOK
    <2> QED  BY <1>3, <2>1 DEF ValidateReviews, TypeOK, clock, counters
  <1>4. ASSUME NEW p \in Path, ValidatePrepare(p) PROVE TypeOK'
    <2>1. validation \in Validation
      BY <1>4 DEF ValidatePrepare, TypeOK
    <2>2. validation.outcome \in Outcome /\ validation.files \in [Path -> StagedFile \cup {None}]
      BY <2>1 DEF Validation
    <2>3. validation.files[p] \in StagedFile
      BY <1>4, <2>1, <2>2 DEF ValidatePrepare, Validation
    <2>4. Prepare(p, validation.files[p]) \in Prepared
      BY <1>4, <2>3, PrepareType DEF ValidatePrepare, Preparable
    <2>5. [validation.outcome EXCEPT ![p] = Prepare(p, validation.files[p])] \in Outcome
      BY <2>2, <2>4 DEF Outcome
    <2>6. validation' \in Validation
      BY <1>4, <2>1, <2>5 DEF ValidatePrepare, Validation
    <2> QED  BY <1>4, <2>6 DEF ValidatePrepare, TypeOK, clock, counters
  <1>5. CASE ValidateFails
    BY <1>5 DEF ValidateFails, ValidationEnds, TypeOK, clock, counters
  <1>6. CASE ValidateReport
    <2>1. report' \in Report
      BY <1>6 DEF ValidateReport, ValidationEnds, SelectedStageRevision, Validation, Report, TypeOK
    <2> QED  BY <1>6, <2>1 DEF ValidateReport, ValidationEnds, TypeOK, clock, counters
  <1>7. ASSUME NEW t \in Times, Expire(t) PROVE TypeOK'
    <2>1. grant' \in Grants
      BY <1>7 DEF Expire, Grants, Denied, TypeOK
    <2> QED  BY <1>7, <2>1 DEF Expire, TypeOK, review, counters
  <1> QED
    BY <1>1, <1>2, <1>3, <1>4, <1>5, <1>6, <1>7 DEF Background

LEMMA OthersType ==
    ASSUME TypeOK,
           Tick \/ \E p \in Path, file \in Edited : ExternalEdit(p, file)
    PROVE  TypeOK'
  <1>1. CASE Tick
    <2>1. now' \in 0..MaxTime
      BY <1>1, StagedBoundAssumption DEF Tick, TypeOK
    <2> QED  BY <1>1, <2>1 DEF Tick, TypeOK, review, counters
  <1>2. ASSUME NEW p \in Path, NEW file \in Edited, ExternalEdit(p, file) PROVE TypeOK'
    <2>1. disk' \in [Path -> File] /\ edits' \in 0..MaxEdits
      BY <1>2, ActorAssumption, StagedBoundAssumption DEF ExternalEdit, TypeOK
    <2> QED  BY <1>2, <2>1 DEF ExternalEdit, TypeOK, clock, review
  <1> QED
    BY <1>1, <1>2

LEMMA StageNextType == TypeOK /\ [Next]_vars => TypeOK'
  <1>1. ASSUME TypeOK, UNCHANGED vars PROVE TypeOK'
    BY <1>1 DEF TypeOK, vars, clock, review, counters
  <1> QED
    BY <1>1, AgentType, UserType, BackgroundType, OthersType DEF Next

(* The stage, the grant and every answer in flight always have their type. *)
THEOREM StageTypeCorrect == Spec => []TypeOK
  BY StageInitType, StageNextType, PTL DEF Spec
-----------------------------------------------------------------------------
(* A choice under way is of a hunk of the diff the user saw, and once it   *)
(* was compared, of the text it copied.                                    *)
ChoiceValid ==
    choice # None =>
        /\ choice.hunk \in Hunks(choice.revision.original, choice.revision.content)
        /\ choice.checked => /\ choice.revision.content = choice.content
                             /\ choice.revision.kind = choice.kind

(* What a selection says is what the user decided last on that diff.       *)
DecisionsRecorded ==
    /\ \A v \in verdicts : v.hunk \in Hunks(v.diff.original, v.diff.content)
    /\ \A p \in Staged : files[p].selection # None =>
          /\ \A h \in files[p].selection.reviewed :
                \E v \in verdicts : /\ v.path = p /\ v.hunk = h
                                    /\ v.diff = files[p].selection.revision
          /\ \A v \in verdicts :
                /\ v.path = p /\ v.diff = files[p].selection.revision
                /\ v.hunk \in files[p].selection.reviewed
                => (v.selected <=> v.hunk \notin files[p].selection.rejected)

(* A report's revision is the revision of its outcome.                     *)
ReportSound == report # None => report.revision = SelectedStageRevision(report.outcome)

ReviewInv ==
    /\ SelectionMatchesStage /\ DraftsOnlyCreate
    /\ ChoiceValid /\ DecisionsRecorded /\ ReportSound

LEMMA ReviewInit == Init => ReviewInv
  BY DEF Init, ReviewInv, SelectionMatchesStage, DraftsOnlyCreate, ChoiceValid,
         DecisionsRecorded, ReportSound, Staged, Nothing

(* Steps that touch neither the stage nor a choice.                        *)
LEMMA ReviewKept ==
    ASSUME ReviewInv, UNCHANGED <<files, verdicts, choice, mode, report>>
    PROVE  ReviewInv'
  BY DEF ReviewInv, SelectionMatchesStage, DraftsOnlyCreate, ChoiceValid,
         DecisionsRecorded, ReportSound, Staged

(* Files that leave the stage take their decisions with them.              *)
LEMMA ReviewUnstaged ==
    ASSUME TypeOK, ReviewInv, NEW paths, Unstage(paths), UNCHANGED <<choice, report>>,
           mode' \in {mode, "edit"}
    PROVE  ReviewInv'
  <1>1. \A p \in Path : p \in Staged' => p \in Staged /\ p \notin paths /\ files'[p] = files[p]
    BY DEF Unstage, Staged
  <1>2. SelectionMatchesStage' /\ DraftsOnlyCreate'
    BY <1>1 DEF ReviewInv, SelectionMatchesStage, DraftsOnlyCreate, Staged
  <1>3. \A v \in verdicts' : v \in verdicts
    BY DEF Unstage, Forget
  <1>4. \A p \in Staged', v \in verdicts : v.path = p => v \in verdicts'
    BY <1>1 DEF Unstage, Forget, Staged
  <1>5. DecisionsRecorded'
    BY <1>1, <1>3, <1>4 DEF ReviewInv, DecisionsRecorded, Staged
  <1>6. ChoiceValid' /\ ReportSound'
    BY DEF ReviewInv, ChoiceValid, ReportSound
  <1> QED
    BY <1>2, <1>5, <1>6 DEF ReviewInv

(* Files that are replaced start without a selection.                      *)
LEMMA ReviewRestaged ==
    ASSUME TypeOK, ReviewInv, NEW paths, Forget(paths),
           UNCHANGED <<choice, report, mode>>,
           \A p \in Path : p \notin paths => files'[p] = files[p],
           \A p \in paths : files'[p] # None =>
               /\ files'[p].selection = None
               /\ mode = "create" => files'[p].kind = "create"
    PROVE  ReviewInv'
  <1>1. SelectionMatchesStage' /\ DraftsOnlyCreate'
    BY DEF ReviewInv, SelectionMatchesStage, DraftsOnlyCreate, Staged
  <1>2. \A v \in verdicts' : v \in verdicts
    BY DEF Forget
  <1>3. \A p \in Staged' : files'[p].selection # None =>
            /\ p \in Staged /\ files'[p] = files[p]
            /\ \A v \in verdicts : v.path = p => v \in verdicts'
    BY DEF Forget, Staged
  <1>4. DecisionsRecorded'
    BY <1>2, <1>3 DEF ReviewInv, DecisionsRecorded
  <1>5. ChoiceValid' /\ ReportSound'
    BY DEF ReviewInv, ChoiceValid, ReportSound
  <1> QED
    BY <1>1, <1>4, <1>5 DEF ReviewInv
LEMMA CommitKeepsReviews ==
    ASSUME TypeOK, ReviewInv, ChoiceCommit, StillStaged
    PROVE  ReviewInv'
  <1> DEFINE p0 == choice.path
             file == files[p0]
             old == SelectionFor(file, choice.revision)
             new == Chosen(old)
             added == [path |-> p0, diff |-> choice.revision,
                       hunk |-> choice.hunk, selected |-> choice.selected]
             Replaced(v) == /\ v.path = p0 /\ v.diff = choice.revision
                            /\ v.hunk = choice.hunk
  <1>1. choice \in Choice /\ p0 \in Path /\ p0 \in Staged /\ file \in StagedFile
    BY DEF ChoiceCommit, StillStaged, Staged, TypeOK, Choice
  <1>2. /\ choice.hunk \in Hunks(choice.revision.original, choice.revision.content)
        /\ choice.revision.content = file.content /\ choice.revision.kind = file.kind
    BY DEF ReviewInv, ChoiceValid, ChoiceCommit, StillStaged
  <1>3. old \in Selection /\ old.revision = choice.revision
    BY <1>1 DEF SelectionFor, StagedFile, Selection, Choice
  <1>4. /\ new.revision = choice.revision
        /\ new.reviewed = old.reviewed \cup {choice.hunk}
        /\ new.rejected = IF choice.selected THEN old.rejected \ {choice.hunk}
                          ELSE old.rejected \cup {choice.hunk}
    BY <1>3 DEF Chosen, Selection
  <1>5. /\ files' = [files EXCEPT ![p0].selection = new]
        /\ verdicts' = {v \in verdicts : ~Replaced(v)} \cup {added}
        /\ choice' = None /\ UNCHANGED <<mode, report>>
    BY DEF ChoiceCommit
  <1>6. /\ files'[p0].selection = new /\ files'[p0].kind = file.kind
        /\ files'[p0].content = file.content /\ files'[p0] # None
        /\ \A p \in Path : p # p0 => files'[p] = files[p]
    <2>1. files'[p0] = [file EXCEPT !.selection = new]
      BY <1>1, <1>5 DEF TypeOK
    <2>2. files'[p0] # None
      <3>1. new \in Selection
        BY <1>1, <1>3 DEF Chosen, Selection, Choice
      <3> QED  BY <1>1, <2>1, <3>1, NoneAssumption DEF StagedFile
    <2> QED
      BY <1>1, <1>5, <2>1, <2>2 DEF StagedFile, TypeOK
  <1>7. Staged' = Staged
    BY <1>1, <1>6 DEF Staged
  <1>8. old.rejected \subseteq old.reviewed
    BY <1>1 DEF SelectionFor, ReviewInv, SelectionMatchesStage
  <1>9. new.rejected \subseteq new.reviewed
    BY <1>4, <1>8
  <1>10. SelectionMatchesStage'
    <2> SUFFICES ASSUME NEW p \in Staged', files'[p].selection # None
                 PROVE  /\ files'[p].selection.revision.content = files'[p].content
                        /\ files'[p].selection.revision.kind = files'[p].kind
                        /\ files'[p].selection.rejected \subseteq files'[p].selection.reviewed
      BY DEF SelectionMatchesStage
    <2>1. CASE p = p0
      BY <1>2, <1>4, <1>6, <1>9, <2>1
    <2>2. CASE p # p0
      BY <1>6, <1>7, <2>2 DEF ReviewInv, SelectionMatchesStage, Staged
    <2> QED  BY <2>1, <2>2
  <1>11. DraftsOnlyCreate'
    BY <1>1, <1>5, <1>6, <1>7 DEF ReviewInv, DraftsOnlyCreate, Staged
  <1>12. \A v \in verdicts' : v.hunk \in Hunks(v.diff.original, v.diff.content)
    <2>1. added.hunk \in Hunks(added.diff.original, added.diff.content)
      BY <1>2
    <2> QED  BY <1>5, <2>1 DEF ReviewInv, DecisionsRecorded
  <1>13. ASSUME NEW h \in new.reviewed
         PROVE  /\ \E v \in verdicts' : v.path = p0 /\ v.hunk = h /\ v.diff = choice.revision
                /\ \A v \in verdicts' : v.path = p0 /\ v.diff = choice.revision /\ v.hunk = h
                      => (v.selected <=> h \notin new.rejected)
    <2>1. CASE h = choice.hunk
      <3>1. added \in verdicts' /\ added.path = p0 /\ added.hunk = h /\ added.diff = choice.revision
        BY <1>5, <2>1
      <3>2. \A v \in verdicts' : v.path = p0 /\ v.diff = choice.revision /\ v.hunk = h => v = added
        BY <1>5, <2>1
      <3>3. choice.selected <=> h \notin new.rejected
        BY <1>4, <2>1
      <3>4. added.selected = choice.selected
        OBVIOUS
      <3> QED  BY <3>1, <3>2, <3>3, <3>4
    <2>2. CASE h # choice.hunk
      <3>1. h \in old.reviewed /\ (h \in old.rejected <=> h \in new.rejected)
        BY <1>4, <2>2
      <3>2. old = file.selection /\ file.selection # None
        BY <3>1 DEF SelectionFor
      <3>3. /\ \E v \in verdicts : v.path = p0 /\ v.hunk = h /\ v.diff = choice.revision
            /\ \A v \in verdicts : v.path = p0 /\ v.diff = choice.revision /\ v.hunk = h
                  => (v.selected <=> h \notin old.rejected)
        BY <1>1, <1>3, <3>1, <3>2 DEF ReviewInv, DecisionsRecorded
      <3>4. \A v : v.hunk = h => (v \in verdicts <=> v \in verdicts')
        BY <1>5, <2>2
      <3> QED  BY <3>1, <3>3, <3>4
    <2> QED  BY <2>1, <2>2
  <1>14. ASSUME NEW p \in Staged', p # p0, files'[p].selection # None
         PROVE  /\ files'[p] = files[p] /\ p \in Staged
                /\ \A v : v.path = p => (v \in verdicts <=> v \in verdicts')
    BY <1>5, <1>6, <1>7, <1>14 DEF Staged
  <1>15. DecisionsRecorded'
    <2> SUFFICES ASSUME NEW p \in Staged', files'[p].selection # None
                 PROVE  /\ \A h \in files'[p].selection.reviewed :
                              \E v \in verdicts' : /\ v.path = p /\ v.hunk = h
                                                   /\ v.diff = files'[p].selection.revision
                        /\ \A v \in verdicts' :
                              /\ v.path = p /\ v.diff = files'[p].selection.revision
                              /\ v.hunk \in files'[p].selection.reviewed
                              => (v.selected <=> v.hunk \notin files'[p].selection.rejected)
      BY <1>12 DEF DecisionsRecorded
    <2>1. CASE p = p0
      BY <1>4, <1>6, <1>13, <2>1
    <2>2. CASE p # p0
      BY <1>14, <2>2 DEF ReviewInv, DecisionsRecorded
    <2> QED  BY <2>1, <2>2
  <1>16. ChoiceValid' /\ ReportSound'
    BY <1>5 DEF ReviewInv, ChoiceValid, ReportSound
  <1> QED
    BY <1>10, <1>11, <1>15, <1>16 DEF ReviewInv
LEMMA AgentKeepsReviews ==
    ASSUME TypeOK, ReviewInv, Agent
    PROVE  ReviewInv'
  <1>1. ASSUME NEW batch \in Batches, Stage(batch) PROVE ReviewInv'
    <2> DEFINE changed == {p \in Path : files'[p] # files[p]}
    <2>1. \A p \in changed : /\ p \in DOMAIN batch /\ files'[p] = StagedWrite(p, batch[p])
                             /\ files'[p] # files[p]
      BY <1>1 DEF Stage
    <2>2. ASSUME NEW p \in changed
          PROVE  /\ files'[p].selection = None
                 /\ mode = "create" => files'[p].kind = "create"
      <3> DEFINE kind == IF mode # "create" /\ disk[p] # Absent THEN "modify" ELSE "create"
      <3>1. CASE files[p] = None
        <4>1. files'[p] = StagedWrite(p, batch[p])
          BY <2>1
        <4>2. files'[p] = [kind |-> kind, content |-> batch[p], selection |-> None]
          BY <3>1, <4>1 DEF StagedWrite
        <4> QED  BY <4>2
      <3>2. CASE files[p] # None
        <4>1. files[p] \in StagedFile /\ p \in Staged
          BY <3>2 DEF TypeOK, Staged
        <4>2. files'[p] = [files[p] EXCEPT !.content = batch[p], !.selection = None]
          BY <2>1, <3>2 DEF StagedWrite
        <4>3. files'[p].selection = None /\ files'[p].kind = files[p].kind
          BY <4>1, <4>2 DEF StagedFile
        <4> QED  BY <4>1, <4>3 DEF ReviewInv, DraftsOnlyCreate
      <3> QED  BY <3>1, <3>2
    <2>3. Forget(changed) /\ UNCHANGED <<choice, report, mode>>
      BY <1>1 DEF Stage, Forget
    <2> QED  BY <2>2, <2>3, ReviewRestaged
  <1>2. ASSUME NEW p \in Path, StageDelete(p) PROVE ReviewInv'
    <2>1. /\ Forget({p}) /\ UNCHANGED <<choice, report, mode>> /\ mode # "create"
          /\ \A r \in Path : r \notin {p} => files'[r] = files[r]
          /\ files'[p].selection = None
      BY <1>2 DEF StageDelete, TypeOK
    <2> QED  BY <2>1, ReviewRestaged
  <1> QED
    BY <1>1, <1>2 DEF Agent

LEMMA UserKeepsReviews ==
    ASSUME TypeOK, ReviewInv, User
    PROVE  ReviewInv'
  <1>1. CASE Register \/ Discard \/ Apply \/ CreateBundle
    BY <1>1, ReviewUnstaged DEF Register, Discard, Apply, CreateBundle
  <1>2. ASSUME NEW p \in Path, DiscardFile(p) PROVE ReviewInv'
    BY <1>2, ReviewUnstaged DEF DiscardFile
  <1>3. ASSUME NEW kind, SetGrant(kind) PROVE ReviewInv'
    BY <1>3, ReviewKept DEF SetGrant, review
  <1>4. ASSUME NEW p \in Path, ViewDiff(p) PROVE ReviewInv'
    BY <1>4, ReviewKept DEF ViewDiff
  <1>5. CASE ValidateBegin
    BY <1>5, ReviewKept DEF ValidateBegin
  <1>6. ASSUME NEW m \in Modes, SetMode(m) PROVE ReviewInv'
    <2>1. UNCHANGED <<files, verdicts, choice, report>> /\ (Staged = {} \/ UNCHANGED mode)
      BY <1>6 DEF SetMode, review
    <2>2. CASE UNCHANGED mode
      BY <2>1, <2>2, ReviewKept
    <2>3. CASE Staged = {}
      BY <2>1, <2>3 DEF ReviewInv, SelectionMatchesStage, DraftsOnlyCreate, ChoiceValid,
                        DecisionsRecorded, ReportSound, Staged
    <2> QED  BY <2>1, <2>2, <2>3
  <1>7. ASSUME NEW p \in Path, NEW h \in Hunk, NEW selected \in BOOLEAN,
               ChoiceBegin(p, h, selected)
        PROVE  ReviewInv'
    <2>1. UNCHANGED <<files, verdicts, mode, report>>
      BY <1>7 DEF ChoiceBegin
    <2>2. ChoiceValid'
      BY <1>7 DEF ChoiceBegin, ChoiceValid
    <2>3. SelectionMatchesStage' /\ DraftsOnlyCreate' /\ DecisionsRecorded' /\ ReportSound'
      BY <2>1 DEF ReviewInv, SelectionMatchesStage, DraftsOnlyCreate, DecisionsRecorded,
                  ReportSound, Staged
    <2> QED  BY <2>2, <2>3 DEF ReviewInv
  <1> QED
    BY <1>1, <1>2, <1>3, <1>4, <1>5, <1>6, <1>7 DEF User

LEMMA ReviewChoiceFails ==
    ASSUME ReviewInv, ChoiceFails, UNCHANGED <<mode, report>>
    PROVE  ReviewInv'
  BY DEF ReviewInv, ChoiceFails, SelectionMatchesStage, DraftsOnlyCreate, ChoiceValid,
         DecisionsRecorded, ReportSound, Staged

LEMMA BackgroundKeepsReviews ==
    ASSUME TypeOK, ReviewInv, Background
    PROVE  ReviewInv'
  <1>1. CASE ChoiceCheck
    <2>1. choice \in Choice /\ UNCHANGED <<mode, report>>
      BY <1>1 DEF ChoiceCheck, TypeOK
    <2>2. CASE ChoiceFails
      BY <2>1, <2>2, ReviewChoiceFails
    <2>3. CASE /\ RevisionOf(choice.path, choice) = choice.revision
               /\ choice' = [choice EXCEPT !.checked = TRUE]
               /\ UNCHANGED <<files, shown, verdicts>>
      <3>1. choice.revision.content = choice.content /\ choice.revision.kind = choice.kind
        BY <2>3 DEF RevisionOf
      <3>2. /\ choice'.hunk = choice.hunk /\ choice'.revision = choice.revision
            /\ choice'.content = choice.content /\ choice'.kind = choice.kind
        BY <2>1, <2>3 DEF Choice
      <3>3. ChoiceValid'
        BY <1>1, <3>1, <3>2 DEF ReviewInv, ChoiceValid, ChoiceCheck
      <3>4. SelectionMatchesStage' /\ DraftsOnlyCreate' /\ DecisionsRecorded' /\ ReportSound'
        BY <2>1, <2>3 DEF ReviewInv, SelectionMatchesStage, DraftsOnlyCreate,
                          DecisionsRecorded, ReportSound, Staged
      <3> QED  BY <3>3, <3>4 DEF ReviewInv
    <2> QED  BY <1>1, <2>2, <2>3 DEF ChoiceCheck
  <1>2. CASE ChoiceCommit
    <2>1. CASE StillStaged
      BY <1>2, <2>1, CommitKeepsReviews
    <2>2. CASE ~StillStaged
      BY <1>2, <2>2, ReviewChoiceFails DEF ChoiceCommit
    <2> QED  BY <2>1, <2>2
  <1>3. CASE ValidateReviews
    BY <1>3, ReviewKept DEF ValidateReviews
  <1>4. ASSUME NEW p \in Path, ValidatePrepare(p) PROVE ReviewInv'
    BY <1>4, ReviewKept DEF ValidatePrepare
  <1>5. CASE ValidateFails \/ ValidateReport
    <2>1. UNCHANGED <<files, verdicts, choice, mode>> /\ ReportSound'
      BY <1>5 DEF ValidateFails, ValidateReport, ValidationEnds, ReportSound
    <2> QED
      BY <2>1 DEF ReviewInv, SelectionMatchesStage, DraftsOnlyCreate, ChoiceValid,
                  DecisionsRecorded, Staged
  <1>6. ASSUME NEW t \in Times, Expire(t) PROVE ReviewInv'
    BY <1>6, ReviewKept DEF Expire, review
  <1> QED
    BY <1>1, <1>2, <1>3, <1>4, <1>5, <1>6 DEF Background

LEMMA ReviewNext == TypeOK /\ ReviewInv /\ [Next]_vars => ReviewInv'
  <1>1. ASSUME ReviewInv, UNCHANGED vars PROVE ReviewInv'
    BY <1>1, ReviewKept DEF vars, review
  <1>2. ASSUME ReviewInv, Tick PROVE ReviewInv'
    BY <1>2, ReviewKept DEF Tick, review
  <1>3. ASSUME ReviewInv, NEW p \in Path, NEW file \in Edited, ExternalEdit(p, file)
        PROVE  ReviewInv'
    BY <1>3, ReviewKept DEF ExternalEdit, review
  <1> QED
    BY <1>1, <1>2, <1>3, AgentKeepsReviews, UserKeepsReviews, BackgroundKeepsReviews DEF Next

LEMMA ReviewCorrect == Spec => [](TypeOK /\ ReviewInv)
  BY StageInitType, StageNextType, ReviewInit, ReviewNext, PTL DEF Spec

(* A selection is always of the text that is staged, although a choice is  *)
(* recorded in two critical sections with reads of the disk in between.    *)
THEOREM SelectionsMatch == Spec => []SelectionMatchesStage
  <1>1. ReviewInv => SelectionMatchesStage
    BY DEF ReviewInv
  <1> QED  BY <1>1, ReviewCorrect, PTL

(* A fresh bundle's draft never holds a change of the active bundle.       *)
THEOREM DraftsCreate == Spec => []DraftsOnlyCreate
  <1>1. ReviewInv => DraftsOnlyCreate
    BY DEF ReviewInv
  <1> QED  BY <1>1, ReviewCorrect, PTL
-----------------------------------------------------------------------------
(* Only Apply and CreateBundle change the stage and a bundle at once.      *)
LEMMA OnlyTheseApply ==
    ASSUME Next, Applying
    PROVE  Apply \/ CreateBundle
  <1>1. ASSUME Agent PROVE UNCHANGED <<disk, fresh>>
    BY <1>1 DEF Agent, Stage, StageDelete
  <1>2. ASSUME User, ~Apply, ~CreateBundle PROVE UNCHANGED <<disk, fresh>>
    BY <1>2 DEF User, Register, Discard, SetGrant, SetMode, DiscardFile, ViewDiff,
                ChoiceBegin, ValidateBegin
  <1>3. ASSUME Background PROVE UNCHANGED <<disk, fresh>>
    BY <1>3 DEF Background, ChoiceCheck, ChoiceCommit, ValidateReviews, ValidateFails,
                ValidateReport, ValidatePrepare, ValidationEnds, Expire
  <1>4. ASSUME Tick \/ \E p \in Path, file \in Edited : ExternalEdit(p, file)
        PROVE  UNCHANGED files
    BY <1>4 DEF Tick, ExternalEdit
  <1> QED
    BY <1>1, <1>2, <1>3, <1>4 DEF Next, Applying

(* What is prepared under the lock is what the report was made of, and its *)
(* diffs are those to the texts that are there.                            *)
LEMMA PreparedAgain ==
    ASSUME TypeOK, ReviewInv, Apply \/ CreateBundle, NEW p \in Path
    PROVE  /\ report.outcome = PreparedStage
           /\ p \notin Staged => PreparedStage[p] = None
           /\ p \in Staged => /\ files[p] \in StagedFile
                             /\ PreparedStage[p] = Prepare(p, files[p])
                             /\ PreparedStage[p] # None
                             /\ Preparable(p, files[p], mode)
                             /\ Readable(p, files[p].kind)
  <1>1. report # None /\ Confirmed(report.revision)
    BY DEF Apply, CreateBundle
  <1>2. report.outcome = PreparedStage
    BY <1>1 DEF ReviewInv, ReportSound, Confirmed, SelectedStageRevision
  <1>3. p \notin Staged => PreparedStage[p] = None
    BY DEF Staged, PreparedStage
  <1>4. ASSUME p \in Staged
        PROVE  /\ files[p] \in StagedFile /\ PreparedStage[p] = Prepare(p, files[p])
               /\ PreparedStage[p] # None
               /\ Preparable(p, files[p], mode) /\ Readable(p, files[p].kind)
    <2>1. files[p] \in StagedFile /\ PreparedStage[p] = Prepare(p, files[p])
      BY <1>4 DEF Staged, TypeOK, PreparedStage
    <2>2. Preparable(p, files[p], mode) /\ Readable(p, files[p].kind)
      BY <1>1, <1>4 DEF Confirmed, Preparable
    <2>3. PreparedStage[p] # None
      BY <2>1, <2>2, PrepareType, NoneAssumption
    <2> QED  BY <2>1, <2>2, <2>3
  <1> QED
    BY <1>2, <1>3, <1>4

LEMMA ApplyAsReported ==
    ASSUME TypeOK, ReviewInv, Apply \/ CreateBundle, NEW p \in Path
    PROVE  LET told == report.outcome[p]
               before == IF mode = "create" THEN Absent ELSE disk[p]
               after == IF mode = "create" THEN fresh'[p] ELSE disk'[p]
           IN IF told = None THEN after = before
              ELSE after = told.effective /\ told.diff.original = AsText(before)
  <1> DEFINE told == report.outcome[p]
             before == IF mode = "create" THEN Absent ELSE disk[p]
             after == IF mode = "create" THEN fresh'[p] ELSE disk'[p]
  <1>1. told = PreparedStage[p]
    BY PreparedAgain
  <1>2. after = IF told = None THEN before ELSE told.effective
    <2>1. CASE Apply
      BY <1>1, <2>1 DEF Apply, Overlay
    <2>2. CASE CreateBundle
      BY <1>1, <2>2 DEF CreateBundle, Mirror, Overlay
    <2> QED  BY <2>1, <2>2
  <1>3. ASSUME told # None PROVE told.diff.original = AsText(before)
    <2>1. p \in Staged
      BY <1>1, <1>3, PreparedAgain
    <2>2. /\ told = Prepare(p, files[p]) /\ Preparable(p, files[p], mode)
          /\ Readable(p, files[p].kind)
      BY <1>1, <2>1, PreparedAgain
    <2>3. told.diff.original = Original(p, files[p].kind)
      BY <2>2 DEF Prepare, RevisionOf
    <2>4. CASE files[p].kind = "create"
      BY <2>2, <2>3, <2>4 DEF Original, Preparable, AsText
    <2>5. CASE files[p].kind # "create"
      <3>1. mode # "create"
        BY <2>1, <2>5 DEF ReviewInv, DraftsOnlyCreate
      <3> QED  BY <2>2, <2>3, <2>5, <3>1 DEF Original, Readable, AsText
    <2> QED  BY <2>4, <2>5
  <1> QED
    BY <1>2, <1>3

(* Whatever happens between the report and the click, Apply and Create     *)
(* write what was reported, over the texts it was reported against.        *)
THEOREM WritesWhatWasReported == Spec => AppliedIsReported
  <1> DEFINE AsReported ==
        Applying =>
            /\ report # None
            /\ \A p \in Path :
                  LET told == report.outcome[p]
                      before == IF mode = "create" THEN Absent ELSE disk[p]
                      after == IF mode = "create" THEN fresh'[p] ELSE disk'[p]
                  IN IF told = None THEN after = before
                     ELSE after = told.effective /\ told.diff.original = AsText(before)
  <1>1. TypeOK /\ ReviewInv /\ [Next]_vars => [AsReported]_vars
    <2> SUFFICES ASSUME TypeOK, ReviewInv, Next, Applying PROVE AsReported
      OBVIOUS
    <2>1. Apply \/ CreateBundle
      BY OnlyTheseApply
    <2>2. report # None
      BY <2>1 DEF Apply, CreateBundle
    <2> QED  BY <2>1, <2>2, ApplyAsReported
  <1>2. [][AsReported]_vars => AppliedIsReported
    BY DEF AppliedIsReported
  <1> QED
    BY <1>1, <1>2, ReviewCorrect, PTL DEF Spec
-----------------------------------------------------------------------------
(* The step of Apply in Enhance mode, for one file that exists.            *)
LEMMA EnhanceDecided ==
    ASSUME TypeOK, ReviewInv, Apply, mode = "enhance",
           NEW p \in Staged, files[p].kind # "create"
    PROVE  LET decided == {v.hunk : v \in Decisions(p)}
               rejected == {v.hunk : v \in {w \in Decisions(p) : ~w.selected}}
           IN /\ disk[p] # Absent
              /\ Hunks(disk[p], files[p].content) \subseteq decided
              /\ AsText(disk'[p]) = Select(disk[p], files[p].content, rejected)
  <1> DEFINE file == files[p]
             hunks == Hunks(disk[p], file.content)
             revision == RevisionOf(p, file)
             decided == {v.hunk : v \in Decisions(p)}
             rejected == {v.hunk : v \in {w \in Decisions(p) : ~w.selected}}
  <1>1. /\ p \in Path /\ file \in StagedFile /\ Preparable(p, file, mode)
        /\ Readable(p, file.kind) /\ PreparedStage[p] = Prepare(p, file)
        /\ PreparedStage[p] # None
    BY PreparedAgain DEF Staged
  <1>2. /\ disk[p] # Absent /\ revision.original = disk[p]
        /\ revision.content = file.content /\ revision.kind = file.kind
    BY <1>1 DEF Readable, RevisionOf, Original
  <1>3. hunks \subseteq ReviewedHunks(file, revision)
    BY <1>2 DEF Apply, Confirmed, ExplicitlyReviewed
  <1>4. disk'[p] = Effective(revision, file.selection)
    BY <1>1 DEF Apply, Overlay, Prepare
  <1>5. disk[p] \in Text /\ file.content \in Text
    BY <1>1, <1>2 DEF TypeOK, File, StagedFile
  <1>6. \A v \in Decisions(p) : v \in verdicts /\ v.path = p /\ v.diff = revision /\ v.hunk \in hunks
    BY <1>2 DEF Decisions, ReviewInv, DecisionsRecorded
  <1>7. CASE file.selection = None
    <2>1. hunks = {}
      BY <1>3, <1>7 DEF ReviewedHunks
    <2>2. rejected = {}
      BY <1>6, <2>1
    <2>3. disk'[p] = file.content
      BY <1>2, <1>4, <1>7 DEF Effective
    <2>4. disk[p] = file.content
      BY <1>5, <2>1, HunkAssumption DEF Hunks, Text
    <2>5. Select(disk[p], file.content, {}) = file.content
      BY <1>5, <2>4, FileAssumption DEF Select, Text
    <2>6. AsText(file.content) = file.content
      BY <1>5, FileAssumption DEF AsText
    <2> QED  BY <1>2, <2>1, <2>2, <2>3, <2>5, <2>6
  <1>8. CASE file.selection # None
    <2> DEFINE selection == file.selection
    <2>1. selection.revision = revision /\ selection \in Selection
      BY <1>1, <1>8 DEF Preparable, StagedFile
    <2>2. hunks \subseteq selection.reviewed
      BY <1>3 DEF ReviewedHunks
    <2>3. \A h \in selection.reviewed : \E v \in Decisions(p) : v.hunk = h
      BY <1>8, <2>1 DEF ReviewInv, DecisionsRecorded, Decisions
    <2>4. \A v \in Decisions(p) : v.selected <=> v.hunk \notin selection.rejected
      BY <1>6, <1>8, <2>1, <2>2 DEF ReviewInv, DecisionsRecorded
    <2>5. selection.rejected \subseteq selection.reviewed
      BY <1>8 DEF ReviewInv, SelectionMatchesStage
    <2>6. hunks \subseteq decided
      BY <2>2, <2>3
    <2>7. rejected = selection.rejected
      BY <2>3, <2>4, <2>5
    <2>8. Select(disk[p], file.content, rejected) \in Text
      BY <1>5, <2>1, <2>7, SelectType DEF Selection
    <2>9. AsText(disk'[p]) = Select(disk[p], file.content, rejected)
      <3>1. disk'[p] \in {Absent, Select(disk[p], file.content, rejected)}
            /\ (disk'[p] = Absent => Select(disk[p], file.content, rejected) = Empty
                                     \/ Select(disk[p], file.content, rejected) = Absent)
        BY <1>2, <1>4, <1>8, <2>7 DEF Effective
      <3> QED  BY <2>8, <3>1, FileAssumption DEF AsText
    <2> QED  BY <1>2, <2>6, <2>9
  <1> QED
    BY <1>7, <1>8

(* In Enhance mode a file becomes what the user's last decisions on every  *)
(* hunk of its current diff make of it.                                    *)
THEOREM EnhanceFollowsDecisions == Spec => EnhanceAppliesDecisions
  <1> DEFINE Decided ==
        Applying /\ mode = "enhance" =>
            \A p \in Staged : files[p].kind # "create" =>
                LET decided == {v.hunk : v \in Decisions(p)}
                    rejected == {v.hunk : v \in {w \in Decisions(p) : ~w.selected}}
                IN /\ disk[p] # Absent
                   /\ Hunks(disk[p], files[p].content) \subseteq decided
                   /\ AsText(disk'[p]) = Select(disk[p], files[p].content, rejected)
  <1>1. TypeOK /\ ReviewInv /\ [Next]_vars => [Decided]_vars
    <2> SUFFICES ASSUME TypeOK, ReviewInv, Next, Applying, mode = "enhance" PROVE Decided
      OBVIOUS
    <2>1. Apply
      BY OnlyTheseApply DEF CreateBundle
    <2> QED  BY <2>1, EnhanceDecided
  <1>2. [][Decided]_vars => EnhanceAppliesDecisions
    BY DEF EnhanceAppliesDecisions
  <1> QED
    BY <1>1, <1>2, ReviewCorrect, PTL DEF Spec
-----------------------------------------------------------------------------
(* Timers start with a grant and end by going off.                         *)
LEMMA OnlyTheseChangeTimers ==
    ASSUME Next, timers' # timers
    PROVE  \/ \E kind \in {"denied", "interactive", "unattended"} : SetGrant(kind)
           \/ \E t \in Times : Expire(t)
  <1>1. ASSUME Agent PROVE timers' = timers
    BY <1>1 DEF Agent, Stage, StageDelete, clock
  <1>2. ASSUME User, ~\E kind \in {"denied", "interactive", "unattended"} : SetGrant(kind)
        PROVE  timers' = timers
    BY <1>2 DEF User, Register, Discard, SetMode, DiscardFile, ViewDiff, ChoiceBegin,
                ValidateBegin, Apply, CreateBundle, clock
  <1>3. ASSUME Background, ~\E t \in Times : Expire(t) PROVE timers' = timers
    BY <1>3 DEF Background, ChoiceCheck, ChoiceCommit, ValidateReviews, ValidateFails,
                ValidateReport, ValidatePrepare, ValidationEnds, clock
  <1>4. ASSUME Tick \/ \E p \in Path, file \in Edited : ExternalEdit(p, file)
        PROVE  timers' = timers
    BY <1>4 DEF Tick, ExternalEdit, clock
  <1> QED
    BY <1>1, <1>2, <1>3, <1>4 DEF Next

(* A timer that goes off leaves a grant that was renewed after it started. *)
THEOREM RenewedGrantStays == Spec => RenewedGrantLasts
  <1> DEFINE Lasts ==
        grant.kind = "unattended" /\ now < grant.deadline /\ timers' # timers
            => grant'.kind # "denied"
  <1>1. TypeOK /\ [Next]_vars => [Lasts]_vars
    <2> SUFFICES ASSUME TypeOK, Next, grant.kind = "unattended", now < grant.deadline,
                        timers' # timers
                 PROVE  grant'.kind # "denied"
      OBVIOUS
    <2>1. ASSUME NEW kind \in {"denied", "interactive", "unattended"}, SetGrant(kind)
          PROVE  grant'.kind # "denied"
      BY <2>1 DEF SetGrant
    <2>2. ASSUME NEW t \in Times, Expire(t) PROVE grant'.kind # "denied"
      <3>1. now \in Nat /\ grant.deadline \in Nat
        BY StagedBoundAssumption DEF TypeOK, Grants, Times
      <3>2. ~(grant.deadline <= now)
        BY <3>1
      <3>3. grant' = grant
        BY <2>2, <3>2 DEF Expire
      <3> QED  BY <3>3
    <2> QED  BY <2>1, <2>2, OnlyTheseChangeTimers
  <1>2. [][Lasts]_vars => RenewedGrantLasts
    BY DEF RenewedGrantLasts
  <1> QED
    BY <1>1, <1>2, StageTypeCorrect, PTL DEF Spec
=============================================================================
