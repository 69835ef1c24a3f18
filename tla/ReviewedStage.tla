---------------------------- MODULE ReviewedStage ----------------------------
(***************************************************************************)
(* What happens to a staging session (SessionStage in agent_stage.rs)      *)
(* before its changes are applied: the user grants writes for a while, the *)
(* agent stages texts, the user keeps or rejects their hunks, has the      *)
(* outcome validated and applies what was validated.  Every call holds the *)
(* lock of the sessions, except that choosing a hunk and validating let go *)
(* of it while they read the bundle.  Apply and its failures are those of  *)
(* CheckpointedStage; here it is one step.                                 *)
(***************************************************************************)
EXTENDS Naturals

CONSTANTS
    Path,          \* the paths of the bundle
    Hunk,          \* 1 .. the number of lines of a text
    Line,          \* what a line may hold
    Broken,        \* the lines that fail validation
    Empty,         \* the text without lines
    Absent,        \* no file
    None,          \* nothing
    Start,         \* the bundles the session may find
    Proposed,      \* the texts the agent may stage
    Edited,        \* what an external editor may leave at a path
    Restricted,    \* whether the host may be granted unattended writes
    Term,          \* the length of an unattended grant
    MaxTime,       \* bound: the time at which the clock stops
    MaxStagings,   \* bound: changes of the agent to the staged files
    MaxChoices,    \* bound: hunks the user decides
    MaxEdits       \* bound: changes of an external editor

Text == [Hunk -> Line] \cup {Empty}
File == Text \cup {Absent}

ASSUME HunkAssumption == 1 \in Hunk /\ Hunk \subseteq Nat
ASSUME FileAssumption == Absent \notin Text /\ Empty \notin [Hunk -> Line]
ASSUME StagedStartAssumption == Start \subseteq [Path -> File]
ASSUME ActorAssumption == Proposed \subseteq Text /\ Edited \subseteq File
ASSUME RestrictedAssumption == Restricted \in BOOLEAN
ASSUME TermAssumption == Term \in Nat \ {0}
ASSUME StagedBoundAssumption == {MaxTime, MaxStagings, MaxChoices, MaxEdits} \subseteq Nat

VARIABLES
    disk,        \* [Path -> File]: the active bundle
    fresh,       \* the bundle created from a draft, or None
    now,         \* the clock
    grant,       \* SessionWriteGrant
    timers,      \* when the timers of unattended grants go off
    mode,        \* AgentStageMode
    files,       \* [Path -> StagedFile or None]
    shown,       \* [Path -> DiffRevision or None]: the diff the user sees
    choice,      \* set_hunk_selection under way, or None
    validation,  \* validate_staged under way, or None
    report,      \* the latest report the user has, or None
    verdicts,    \* history: what the user decided last on each hunk of a diff
    stagings, choices, edits

clock == <<now, timers>>
review == <<shown, choice, validation, report, verdicts>>
counters == <<stagings, choices, edits>>
vars == <<disk, fresh, clock, grant, mode, files, review, counters>>

-----------------------------------------------------------------------------
Modes == {"edit", "enhance", "create"}
Kinds == {"create", "modify", "delete"}
Times == 0..(MaxTime + Term)
Grants == [kind : {"denied", "interactive"}, deadline : {0}]
            \cup [kind : {"unattended"}, deadline : Times]

(* A diff is identified by everything it shows: the digest of kind,        *)
(* original and content.                                                   *)
DiffRevision == [kind : Kinds, original : Text, content : Text]

Selection == [revision : DiffRevision, rejected : SUBSET Hunk, reviewed : SUBSET Hunk]
StagedFile == [kind : Kinds, content : Text, selection : Selection \cup {None}]
Prepared == [diff : DiffRevision, effective : File]
Outcome == [Path -> Prepared \cup {None}]

ASSUME NoneAssumption == None \notin StagedFile \cup Prepared

Choice == [path : Path, kind : Kinds, content : Text, revision : DiffRevision,
           hunk : Hunk, selected : BOOLEAN, checked : BOOLEAN]
Validation ==
    {v \in [mode : Modes, files : [Path -> StagedFile \cup {None}], outcome : Outcome,
            todo : SUBSET Path, reviewed : BOOLEAN] :
        \A p \in v.todo : v.files[p] # None}
Report == [revision : Outcome, outcome : Outcome]
Verdict == [path : Path, diff : DiffRevision, hunk : Hunk, selected : BOOLEAN]

Nothing == [p \in Path |-> None]
Denied == [kind |-> "denied", deadline |-> 0]

-----------------------------------------------------------------------------
(* Texts with lines in common differ hunk by hunk; a text that appears or  *)
(* disappears as a whole is one hunk.                                      *)
Hunks(old, new) ==
    IF old = new THEN {}
    ELSE IF Empty \in {old, new} THEN {1}
    ELSE {h \in Hunk : old[h] # new[h]}

Select(old, new, rejected) ==
    IF Empty \in {old, new} THEN (IF rejected = {} THEN new ELSE old)
    ELSE [h \in Hunk |-> IF h \in rejected THEN old[h] ELSE new[h]]

(* read_original: a created file has none, any other must be there.        *)
Readable(p, kind) == kind # "create" => disk[p] # Absent

(* Mutant: the file is read whatever the kind.                             *)
OriginalAlwaysRead(p, kind) == disk[p]

Original(p, kind) == IF kind = "create" THEN Empty ELSE disk[p]

RevisionOf(p, file) ==
    [kind |-> file.kind, original |-> Original(p, file.kind), content |-> file.content]

(* The hunks decided for the diff as it is now.                            *)
ReviewedHunks(file, revision) ==
    IF file.selection = None \/ file.selection.revision # revision
    THEN {} ELSE file.selection.reviewed

(* Enhancing asks for a decision on every hunk of an existing file.        *)
ExplicitlyReviewed(p, file) ==
    file.kind # "create" =>
        /\ Readable(p, file.kind)
        /\ LET revision == RevisionOf(p, file) IN
           Hunks(revision.original, revision.content) \subseteq ReviewedHunks(file, revision)

(* selected_staged_content: without a choice the staged text as it is.     *)
Effective(revision, selection) ==
    LET text == Select(revision.original, revision.content, selection.rejected) IN
    IF selection = None THEN revision.content
    ELSE IF revision.kind \in {"create", "delete"} /\ text = Empty THEN Absent
    ELSE text

Preparable(p, file, m) ==
    /\ Readable(p, file.kind)
    /\ m # "create" /\ file.kind = "create" => disk[p] = Absent
    /\ file.selection # None => file.selection.revision = RevisionOf(p, file)

Prepare(p, file) ==
    [diff |-> RevisionOf(p, file), effective |-> Effective(RevisionOf(p, file), file.selection)]

(* Mutant: the revision does not tell which hunks were kept.               *)
SelectedStageDiffs(outcome) ==
    [p \in Path |-> IF outcome[p] = None THEN None ELSE outcome[p].diff]

(* Mutant: the revision does not tell which texts are replaced.            *)
SelectedStageTexts(outcome) ==
    [p \in Path |-> IF outcome[p] = None THEN None ELSE outcome[p].effective]

(* The revision a report carries and Apply compares.                       *)
SelectedStageRevision(outcome) == outcome

-----------------------------------------------------------------------------
(* A file that ends absent is removed; a rejected creation is skipped,     *)
(* which leaves it absent too.                                             *)
Overlay(bundle, outcome) ==
    [p \in Path |-> IF outcome[p] = None THEN bundle[p] ELSE outcome[p].effective]

Fails(bundle) ==
    \E p \in Path : bundle[p] \notin {Empty, Absent} /\ \E h \in Hunk : bundle[p][h] \in Broken

(* The mirror holds the bundle and the outcome, a fresh draft's only that. *)
Mirror(outcome) ==
    Overlay(IF mode = "create" THEN [p \in Path |-> Absent] ELSE disk, outcome)

Staged == {p \in Path : files[p] # None}

PreparedStage == [p \in Path |-> IF files[p] = None THEN None ELSE Prepare(p, files[p])]

(* prepare_selected_stage under the lock, with the revision the caller has *)
(* and no error in the validation.                                         *)
Confirmed(revision) ==
    /\ Staged # {}
    /\ mode = "enhance" => \A p \in Staged : ExplicitlyReviewed(p, files[p])
    /\ \A p \in Staged : Preparable(p, files[p], mode)
    /\ SelectedStageRevision(PreparedStage) = revision
    /\ ~Fails(Mirror(PreparedStage))

-----------------------------------------------------------------------------
Init ==
    /\ disk \in Start
    /\ fresh = None
    /\ now = 0 /\ timers = {}
    /\ grant = Denied
    /\ mode = "edit"
    /\ files = Nothing
    /\ shown = Nothing
    /\ choice = None /\ validation = None /\ report = None
    /\ verdicts = {}
    /\ stagings = 0 /\ choices = 0 /\ edits = 0

(* The history keeps the decisions on the text that is staged.             *)
Forget(paths) == verdicts' = {v \in verdicts : v.path \notin paths}

(* The list of staged files closes the diff of one that has left it.       *)
Unstage(paths) ==
    /\ files' = [p \in Path |-> IF p \in paths THEN None ELSE files[p]]
    /\ shown' = [p \in Path |-> IF p \in paths THEN None ELSE shown[p]]
    /\ Forget(paths)

(* Registering the session again, which loading it does.                   *)
Register ==
    /\ grant' = Denied /\ mode' = "edit"
    /\ Unstage(Path)
    /\ UNCHANGED <<disk, fresh, clock, choice, validation, report, counters>>

(* Mutant: a timer that is already running is taken for this grant's.      *)
SetGrantTimerOnce(kind) ==
    /\ kind = "unattended" => Restricted
    /\ grant' = IF kind = "unattended" THEN [kind |-> kind, deadline |-> now + Term]
                ELSE [kind |-> kind, deadline |-> 0]
    /\ timers' = IF kind = "unattended" /\ timers = {} THEN {now + Term} ELSE timers
    /\ UNCHANGED <<disk, fresh, now, mode, files, review, counters>>

(* set_write_grant: every unattended grant starts a timer of its own.      *)
SetGrant(kind) ==
    /\ kind = "unattended" => Restricted
    /\ grant' = IF kind = "unattended" THEN [kind |-> kind, deadline |-> now + Term]
                ELSE [kind |-> kind, deadline |-> 0]
    /\ timers' = IF kind = "unattended" THEN timers \cup {now + Term} ELSE timers
    /\ UNCHANGED <<disk, fresh, now, mode, files, review, counters>>

(* Mutant: the timer of an earlier grant ends a renewed one.               *)
ExpireAny(t) ==
    /\ t \in timers /\ t <= now
    /\ timers' = timers \ {t}
    /\ grant' = IF grant.kind = "unattended" THEN Denied ELSE grant
    /\ UNCHANGED <<disk, fresh, now, mode, files, review, counters>>

(* A timer that goes off, at its time or later.                            *)
Expire(t) ==
    /\ t \in timers /\ t <= now
    /\ timers' = timers \ {t}
    /\ grant' = IF grant.kind = "unattended" /\ grant.deadline <= now THEN Denied ELSE grant
    /\ UNCHANGED <<disk, fresh, now, mode, files, review, counters>>

Granted ==
    \/ grant.kind = "interactive"
    \/ grant.kind = "unattended" /\ now < grant.deadline

(* Mutant: the mode may change under staged files.                         *)
SetModeAnytime(m) ==
    /\ mode' = m
    /\ UNCHANGED <<disk, fresh, clock, grant, files, review, counters>>

SetMode(m) ==
    /\ Staged = {} \/ mode = m
    /\ mode' = m
    /\ UNCHANGED <<disk, fresh, clock, grant, files, review, counters>>

-----------------------------------------------------------------------------
Discard ==
    /\ Unstage(Path)
    /\ UNCHANGED <<disk, fresh, clock, grant, mode, choice, validation, report, counters>>

DiscardFile(p) ==
    /\ files[p] # None
    /\ Unstage({p})
    /\ UNCHANGED <<disk, fresh, clock, grant, mode, choice, validation, report, counters>>

(* stage_write_into: the kind is decided once for a path, and a new text   *)
(* starts without a selection.                                             *)
StagedWrite(p, text) ==
    LET kind == IF mode # "create" /\ disk[p] # Absent THEN "modify" ELSE "create" IN
    IF files[p] = None THEN [kind |-> kind, content |-> text, selection |-> None]
    ELSE IF files[p].content = text THEN files[p]
    ELSE [files[p] EXCEPT !.content = text, !.selection = None]

(* A batch of writes; one write is a batch of one, and diffs the agent     *)
(* reports are one once their old texts are found to be right.             *)
Stage(batch) ==
    LET written == [p \in Path |-> IF p \in DOMAIN batch THEN StagedWrite(p, batch[p])
                                   ELSE files[p]]
    IN /\ Granted
       /\ stagings < MaxStagings /\ stagings' = stagings + 1
       /\ files' = written
       /\ Forget({p \in Path : written[p] # files[p]})
       /\ UNCHANGED <<disk, fresh, clock, grant, mode, shown, choice, validation, report,
                      choices, edits>>

StageDelete(p) ==
    /\ Granted /\ mode # "create" /\ disk[p] # Absent
    /\ stagings < MaxStagings /\ stagings' = stagings + 1
    /\ files' = [files EXCEPT ![p] = [kind |-> "delete", content |-> Empty, selection |-> None]]
    /\ Forget({p})
    /\ UNCHANGED <<disk, fresh, clock, grant, mode, shown, choice, validation, report,
                   choices, edits>>

-----------------------------------------------------------------------------
(* staged_diff                                                             *)
ViewDiff(p) ==
    /\ files[p] # None /\ Readable(p, files[p].kind)
    /\ shown' = [shown EXCEPT ![p] = RevisionOf(p, files[p])]
    /\ UNCHANGED <<disk, fresh, clock, grant, mode, files, choice, validation, report,
                   verdicts, counters>>

(* set_hunk_selection copies the file and lets go of the lock ...          *)
ChoiceBegin(p, h, selected) ==
    /\ choice = None /\ files[p] # None /\ shown[p] # None
    /\ h \in Hunks(shown[p].original, shown[p].content)
    /\ choices < MaxChoices /\ choices' = choices + 1
    /\ choice' = [path |-> p, kind |-> files[p].kind, content |-> files[p].content,
                  revision |-> shown[p], hunk |-> h, selected |-> selected,
                  checked |-> FALSE]
    /\ UNCHANGED <<disk, fresh, clock, grant, mode, files, shown, validation, report,
                   verdicts, stagings, edits>>

ChoiceFails ==
    /\ choice' = None
    /\ shown' = [shown EXCEPT ![choice.path] = None]
    /\ UNCHANGED <<files, verdicts>>

(* ... compares the diff with the one the user saw ...                     *)
ChoiceCheck ==
    /\ choice # None /\ ~choice.checked
    /\ IF Readable(choice.path, choice.kind) /\ RevisionOf(choice.path, choice) = choice.revision
       THEN choice' = [choice EXCEPT !.checked = TRUE] /\ UNCHANGED <<files, shown, verdicts>>
       ELSE ChoiceFails
    /\ UNCHANGED <<disk, fresh, clock, grant, mode, validation, report, counters>>

(* Mutant: the choices made for an earlier diff are kept.                  *)
SelectionKept(file, revision) ==
    IF file.selection # None THEN [file.selection EXCEPT !.revision = revision]
    ELSE [revision |-> revision, rejected |-> {}, reviewed |-> {}]

(* The selection to add to: that of this diff, or a new one.               *)
SelectionFor(file, revision) ==
    IF file.selection # None /\ file.selection.revision = revision THEN file.selection
    ELSE [revision |-> revision, rejected |-> {}, reviewed |-> {}]

Chosen(selection) ==
    [selection EXCEPT !.reviewed = @ \cup {choice.hunk},
                      !.rejected = IF choice.selected THEN @ \ {choice.hunk}
                                   ELSE @ \cup {choice.hunk}]

(* Mutant: the staged file is not compared again under the lock.           *)
StillStagedAtAll == files[choice.path] # None

StillStaged ==
    /\ files[choice.path] # None
    /\ files[choice.path].content = choice.content
    /\ files[choice.path].kind = choice.kind

(* ... and records the choice if the staged text is still the same.        *)
ChoiceCommit ==
    /\ choice # None /\ choice.checked
    /\ IF StillStaged
       THEN /\ files' = [files EXCEPT ![choice.path].selection =
                           Chosen(SelectionFor(files[choice.path], choice.revision))]
            /\ verdicts' = {v \in verdicts : \/ v.path # choice.path
                                             \/ v.diff # choice.revision
                                             \/ v.hunk # choice.hunk}
                             \cup {[path |-> choice.path, diff |-> choice.revision,
                                    hunk |-> choice.hunk, selected |-> choice.selected]}
            /\ choice' = None /\ UNCHANGED shown
       ELSE ChoiceFails
    /\ UNCHANGED <<disk, fresh, clock, grant, mode, validation, report, counters>>

-----------------------------------------------------------------------------
(* validate_staged copies the stage, then works without the lock on what   *)
(* the bundle holds at each read.                                          *)
ValidateBegin ==
    /\ validation = None /\ Staged # {}
    /\ validation' = [mode |-> mode, files |-> files, outcome |-> Nothing,
                      todo |-> Staged, reviewed |-> mode # "enhance"]
    /\ UNCHANGED <<disk, fresh, clock, grant, mode, files, shown, choice, report, verdicts,
                   counters>>

ValidationEnds(answer) ==
    /\ validation' = None /\ report' = answer
    /\ UNCHANGED <<disk, fresh, clock, grant, mode, files, shown, choice, verdicts, counters>>

ValidateReviews ==
    /\ validation # None /\ ~validation.reviewed
    /\ \A p \in validation.todo : ExplicitlyReviewed(p, validation.files[p])
    /\ validation' = [validation EXCEPT !.reviewed = TRUE]
    /\ UNCHANGED <<disk, fresh, clock, grant, mode, files, shown, choice, report, verdicts,
                   counters>>

ValidatePrepare(p) ==
    /\ validation # None /\ validation.reviewed /\ p \in validation.todo
    /\ Preparable(p, validation.files[p], validation.mode)
    /\ validation' = [validation EXCEPT !.todo = @ \ {p},
                         !.outcome = [@ EXCEPT ![p] = Prepare(p, validation.files[p])]]
    /\ UNCHANGED <<disk, fresh, clock, grant, mode, files, shown, choice, report, verdicts,
                   counters>>

ValidateFails ==
    /\ validation # None
    /\ \/ ~validation.reviewed
          /\ \E p \in validation.todo : ~ExplicitlyReviewed(p, validation.files[p])
       \/ validation.reviewed
          /\ \E p \in validation.todo : ~Preparable(p, validation.files[p], validation.mode)
    /\ ValidationEnds(None)

(* The report has the revision of what was read, not of what is there now. *)
(* The errors it counts are left out: Apply validates again (Confirmed).   *)
ValidateReport ==
    /\ validation # None /\ validation.reviewed /\ validation.todo = {}
    /\ ValidationEnds([revision |-> SelectedStageRevision(validation.outcome),
                       outcome |-> validation.outcome])

-----------------------------------------------------------------------------
(* apply_staged, when nothing fails on the way.                            *)
Apply ==
    /\ report # None /\ mode # "create" /\ Confirmed(report.revision)
    /\ disk' = Overlay(disk, PreparedStage)
    /\ Unstage(Path)
    /\ UNCHANGED <<fresh, clock, grant, mode, choice, validation, report, counters>>

(* create_staged_bundle, into a place where nothing is yet.                *)
CreateBundle ==
    /\ report # None /\ mode = "create" /\ Confirmed(report.revision)
    /\ fresh = None
    /\ \E p \in Staged : PreparedStage[p].effective # Absent
    /\ fresh' = Mirror(PreparedStage)
    /\ Unstage(Path)
    /\ UNCHANGED <<disk, clock, grant, mode, choice, validation, report, counters>>

(* Another program writes or removes a file of the bundle.                 *)
ExternalEdit(p, file) ==
    /\ edits < MaxEdits /\ edits' = edits + 1
    /\ file # disk[p]
    /\ disk' = [disk EXCEPT ![p] = file]
    /\ UNCHANGED <<fresh, clock, grant, mode, files, review, stagings, choices>>

Tick ==
    /\ now < MaxTime
    /\ now' = now + 1
    /\ UNCHANGED <<disk, fresh, timers, grant, mode, files, review, counters>>

Batches == UNION {[paths -> Proposed] : paths \in (SUBSET Path) \ {{}}}

Agent ==
    \/ \E batch \in Batches : Stage(batch)
    \/ \E p \in Path : StageDelete(p)

User ==
    \/ Register \/ Discard
    \/ \E kind \in {"denied", "interactive", "unattended"} : SetGrant(kind)
    \/ \E m \in Modes : SetMode(m)
    \/ \E p \in Path : DiscardFile(p) \/ ViewDiff(p)
    \/ \E p \in Path, h \in Hunk, selected \in BOOLEAN : ChoiceBegin(p, h, selected)
    \/ ValidateBegin \/ Apply \/ CreateBundle

Background ==
    \/ ChoiceCheck \/ ChoiceCommit
    \/ ValidateReviews \/ ValidateFails \/ ValidateReport
    \/ \E p \in Path : ValidatePrepare(p)
    \/ \E t \in Times : Expire(t)

Next ==
    \/ Agent \/ User \/ Background \/ Tick
    \/ \E p \in Path, file \in Edited : ExternalEdit(p, file)

Spec == Init /\ [][Next]_vars /\ \A t \in Times : WF_vars(Expire(t))

-----------------------------------------------------------------------------
TypeOK ==
    /\ disk \in [Path -> File] /\ fresh \in [Path -> File] \cup {None}
    /\ now \in 0..MaxTime /\ timers \subseteq Times /\ grant \in Grants
    /\ mode \in Modes /\ files \in [Path -> StagedFile \cup {None}]
    /\ shown \in [Path -> DiffRevision \cup {None}]
    /\ choice \in Choice \cup {None}
    /\ validation \in Validation \cup {None}
    /\ report \in Report \cup {None}
    /\ verdicts \subseteq Verdict
    /\ stagings \in 0..MaxStagings /\ choices \in 0..MaxChoices /\ edits \in 0..MaxEdits

(* A selection is of the text that is staged: a choice that arrives after  *)
(* the agent has replaced the text, or deleted the file, changes nothing.  *)
SelectionMatchesStage ==
    \A p \in Staged :
        files[p].selection # None =>
            /\ files[p].selection.revision.content = files[p].content
            /\ files[p].selection.revision.kind = files[p].kind
            /\ files[p].selection.rejected \subseteq files[p].selection.reviewed

(* What is staged for a fresh bundle was staged for one: nothing in it     *)
(* modifies or deletes a file of the active bundle.                        *)
DraftsOnlyCreate == mode = "create" => \A p \in Staged : files[p].kind = "create"

(* The step applies or materializes the stage.                             *)
Applying == files' # files /\ (disk' # disk \/ fresh' # fresh)

AsText(file) == IF file = Absent THEN Empty ELSE file

Decisions(p) == {v \in verdicts : v.path = p /\ v.diff = RevisionOf(p, files[p])}

(* In Enhance mode the user has decided, since the text was staged, every  *)
(* hunk between the file that is overwritten and the text, and the file    *)
(* becomes what the last decisions make of it.                             *)
EnhanceAppliesDecisions ==
    [][Applying /\ mode = "enhance" =>
        \A p \in Staged : files[p].kind # "create" =>
            LET decided == {v.hunk : v \in Decisions(p)}
                rejected == {v.hunk : v \in {w \in Decisions(p) : ~w.selected}}
            IN /\ disk[p] # Absent
               /\ Hunks(disk[p], files[p].content) \subseteq decided
               /\ AsText(disk'[p]) = Select(disk[p], files[p].content, rejected)]_vars

(* What is written is what the user's report was computed from: the same   *)
(* files, replacing the same texts, with the same hunks kept, whatever the *)
(* agent, the user or an editor did since.                                 *)
AppliedIsReported ==
    [][Applying =>
        /\ report # None
        /\ \A p \in Path :
              LET told == report.outcome[p]
                  before == IF mode = "create" THEN Absent ELSE disk[p]
                  after == IF mode = "create" THEN fresh'[p] ELSE disk'[p]
              IN IF told = None THEN after = before
                 ELSE after = told.effective /\ told.diff.original = AsText(before)]_vars

(* An unattended grant ends: once its time is over it does not stay.       *)
ExpiredGrantIsRevoked ==
    grant.kind = "unattended" /\ grant.deadline <= now ~>
        ~(grant.kind = "unattended" /\ grant.deadline <= now)

(* A grant that was renewed is not ended by the timer of an earlier one.   *)
RenewedGrantLasts ==
    [][grant.kind = "unattended" /\ now < grant.deadline /\ timers' # timers
        => grant'.kind # "denied"]_vars

=============================================================================
