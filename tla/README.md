# OKF Studio in TLA+

OKF Studio is a desktop application (Tauri: a Rust backend and a React frontend)
that opens bundles of Markdown files, validates and draws them, and lets agents
propose changes to them. This directory holds TLA+ models of its state-changing
core, from the transactions on disk to the store and the conversation in a window, the TLC
configurations that check them on small instances, and proofs that TLAPS checks for every value of
the constants.

Line numbers refer to `src/src-tauri/src/agent/agent_stage.rs` unless another
file is named; `AgentConversation.tsx` is in `src/src/features/agent/components/`,
`store.tsx` in `src/src/shared/`. `PROJECT.json` maps every definition that models code to the
lines it models, and lists components, runs, mutants, hazards, findings and
theorems.

## Inventory

| component | state | operations | hard behaviour |
|---|---|---|---|
| **checkpointed apply, restore, recovery** (`agent_stage.rs`) | files of the bundle, hidden `.okf-studio-*` files beside them, three private records per bundle, the session's stage and checkpoint | `apply_staged`, `restore_checkpoint`, `register_session`, `recover_interrupted_transaction` | crashes between any two file system calls, failing calls, an external editor, recovery of a recovery |
| **two connections on one bundle** (`agent_protocol.rs`) | one `SessionStages` per connection, one directory of records | the same, side by side | no common lock |
| **staging session** (`agent_stage.rs`, `agent_native_stage.rs`) | write grant with its deadline, mode, staged files, hunk decisions | grant, stage, report, discard, select hunks, validate | expiry timers, a validated revision that goes stale |
| **agent host** (`agent_protocol.rs`, `agent_protocol/`) | workers, command queues, pending permissions, remembered rules | connect, prompt, cancel, answer, disconnect | timeouts against late answers, check and use around an await |
| **event bus and client** (`agent_events.rs`, `shared/agentEvents.ts`) | counter, set of active turns; last number seen | publish, accept | concurrent publishers, failing emits, late events |
| **reader tabs and shared selection** (`store.tsx`) | tabs with a history each, the one in front, its mirror | select, back, forward, open, close, move, tear off, switch, reload | a reload under every tab at once, a tear-off that completes late |
| **opening bundles, live reload** (`store.tsx`, `ipc.ts`, `watch.rs`, `bundle_grant.rs`) | per window the open folder and root, effects and listeners; for all windows one watch and the grants | open, switch, rescan, fetch, forget, watch, reload | answers after a switch, effects torn down while they start, one watch and many windows |
| **agent conversation** (`AgentConversation.tsx`) | React state, refs, the turns of the agent, one queued follow-up, one saved thread | send, queue, stop, retry, resume, archive | events against answers, closures over what was committed, handlers that await |
| **run orchestration** (`agent_run.rs`, `agent_budget.rs`, `agent_assembly.rs`) | plan, ledger, outcomes | record, absorb, assemble | late, stale, duplicate outcomes |
| **routines** (`agent_routines.rs`) | routines and run ledger in two files, active sets | save, run, run due, skip missed | crash between two files, overlapping runs |
| **bundle grants** (`bundle_grant.rs`) | granted folders, detected roots, one file | grant, authorise, register roots, revoke | check and use around a lock, failing save |
| **watchers** (`watch.rs`, `git/watch.rs`) | active watch, debounce thread | start, stop | replacement of a running watch |
| **installer** (`agent_install.rs`) | job table, cancel flags | begin, cancel, finish | cancellation against completion |
| **okf-core** (`crates/okf-core`) | none | parse, link, validate, query, slice | pure functions |
| **agent panel** (`src/src/features/agent`) | connections and surfaces that are open | connect, open, close | a list kept by React |
| **command bridge, views** (`src/src`) | none | one call per command; layout and drawing | renders the store |

The remaining parts (compatibility stage, process sandbox, providers, source parsers, MCP server,
bundle commands) are listed in `PROJECT.json` with the reason why they are not
modelled.

The parts meet as follows. The frontend calls Tauri commands. `agent_protocol` keeps one worker per
agent connection, with its own `SessionStages`; agents stage text through it, the user reviews hunks
and calls validate, apply and restore, which run on blocking threads. All connections share the
bundle on disk and the records in `agents/apply-checkpoints`. One connection may have several
sessions over one bundle (a second thread, a critic: `AgentConversation.tsx:1023`); the lock of
their `SessionStages` (381) keeps their applies and restores apart, but `register_session` recovers
before it takes that lock (371). The compatibility stage uses the same code with a directory of its
own: it shares files with the others, but no records. Events go through one numbered bus to the
frontend. Every window has a store of its own; the watch, the grants and the agents are those of the
application.

What makes the core correct: an apply or a restore happens as a whole or not at all, whatever fails
and wherever the process dies; the saved checkpoint is that of the text on disk, so Restore undoes
the right change; text that nobody reviewed is not destroyed; the hidden files go; a record that
asks for recovery is settled by some later session. What makes the frontend correct: the selection
is that of the tab in front and every tab keeps its own history; a late live reload does not take a
window back to the bundle it has left, once the effects of the switch have run, and what a watch saw
is shown; the turn shown as active is the one that runs, and no prompt is lost, sent twice or stuck
in the queue; a lost event is noticed and the end of the work announced.

## Modules

| module | what it models |
|---|---|
| `BundleStore` | the variables, the types, and the file system helpers: rename, open and write, remove, fail |
| `ApplyTransaction` | `apply_staged` from its plan to its commit: phase 1 writes the replacements, phase 2 renames, rollback, cleanup, commit |
| `RestoreTransaction` | `restore_checkpoint`: the swap, its failure paths, consuming the checkpoint |
| `TransactionRecovery` | `recover_interrupted_transaction` and `rollback_apply_transaction`: the checks, the sweep after a commit, the rewrite before it, the verification |
| `CheckpointedStage` | composes the three with the user's review, the editor and the crash; states the properties and the refinement mapping |
| `AtomicBundle` | the abstract specification: apply and restore in one step each |
| `SharedBundle` | two instances of `CheckpointedStage` over one disk |
| `RecoveryClaims` | a sentence of `docs/features/agent-panel.md` the code does not keep |
| `ReviewedStage` | one staging session before its changes are applied: grants and timers, modes, staging, hunk choices, validation, and the one step in which Apply or Create writes |
| `ReaderTabs` | the reducer's branches that touch tabs, and the tear-off of a tab into a window |
| `TabHistories` | the abstract specification: every tab a cursor on its own trail |
| `BundleLoading` | the store's asynchronous actions and its live-reload effect in every window, against the host's commands, grants and watch |
| `Conversation` | one agent conversation against the agent it talks to |
| `AgentEvents` | the turns that publish, the bus that numbers, the window that checks the numbers |
| `MC*` | instances for TLC |
| `CheckpointedStage_proofs`, `TransactionContents_proofs` | theorems about `CheckpointedStage`: control, records and the hidden files; on top of it the texts and the refinement |
| `SharedBundle_proofs`, `ReviewedStage_proofs`, `ReaderTabs_proofs`, `BundleLoading_proofs`, `Conversation_proofs`, `AgentEvents_proofs` | theorems about the module of that name |

### State and actions

A path is a number and the code's sorted loop visits numbers in order. A text is a model value.
`target[p]` is the bundle's file. `temp[i][p]` and `backup[i][p]` are the hidden files transaction
`i` puts beside it: the replacement and the displaced text. The UUIDs of transactions and
checkpoints are fresh numbers; one number serves both, since the code draws them together. `ckpt`,
`applyRec` and `restoreRec` are the three JSON records; `staged` and `memory` are the session's
stage and its copy of the checkpoint and vanish with the process. In `SharedBundle`, `exposed` is a
history variable: a half-written file was reviewed, or lay in the bundle when the process died.

`pc` holds the place in the handler. There is one action for each file system call that creates,
writes, renames or removes something, and one beside it for its failure; loops carry the files still
to visit in `todo`. A file is opened (`Torn`) and written in two steps. The checks that recovery
makes before it changes anything are one step: they only read, and a change made between two of them
is, for every property here, one made before or after them all. Removing a left-over transaction
file and opening a new one is one step in `write_recovery_text`, together with the comparison of the
file in place that leads to it. A look at a record and the call that depends on it (whether it is
there, whose it is) are one step as well. An editor replaces or removes a file in one step.

`OvertakenNext` holds the steps that only another connection can bring about: a replacement, an
opened file, a record or a checkpoint has gone, or been replaced, since the handler looked. A
recovery decides on the checkpoint it read at its start, which the model does not remember: where
the two may differ, it has the step for each.

`Review` stands for staging, hunk selection and validation: for a set of files,
the text reviewed and the outcome of the hunks kept, `Absent` for a deletion or a
rejected creation. `ApplyRefused` covers an empty stage, a stale revision and a
validation that finds errors.

`ReviewedStage` looks at the same session from the other side: there `Apply` is one
step, and everything that leads to it is spelled out. `files` is `SessionStage.files`;
a text is a function from hunks to lines, or `Empty`, so that "keep hunk 1, reject hunk 2"
has an outcome. A diff's revision, which the code makes by hashing kind, original and
content, is the record of the three; a stage's revision is the outcome it hashes.
`set_hunk_selection` is `ChoiceBegin` (copy under the lock), `ChoiceCheck` (read the disk,
compare) and `ChoiceCommit` (compare again under the lock, record). `validate_staged` is
`ValidateBegin`, `ValidateReviews`, one `ValidatePrepare` for each file, and
`ValidateReport` or `ValidateFails`. An editor, the agent and the timers move between any
of these. `Stage` is the common effect of `stage_write`, `stage_writes` and
`stage_reported_diffs`; what they refuse leaves nothing behind. `shown` is the diff open
in the conversation, `report` the last report the backend gave: the frontend drops it
earlier, keeping it only adds behaviours. `verdicts` is a history variable: the user's
last decision on each hunk since the text was staged.

`ReaderTabs` has one action per branch of the reducer. `Select` may be of `None`: a click beside the
nodes of a graph (`CosmosGraph.tsx:182`). `withTabs`, which derives the mirrors `activeConceptId`,
`back` and `fwd` from the tab in front, is `WithTabs`; `selection` is the three mirrors. `popOutTab`
is two actions, since it waits for the new window: `PopOut`, and `PopOutDone`, which closes whatever
tab has that identity by then. The refinement maps a tab to its trail (back, shown, forward) and the
place of the cursor on it.

`BundleLoading` follows a call through the host and back. `calls` is the queue of synchronous
Tauri commands, answered in order, `asks` the fetches and event subscriptions, answered in
any. An answer and the continuation of the action that awaited it are one step, since nothing
runs between them. `effects[w]` lists the live-reload effects of window `w`, with the two awaits
of `startWatch` as phases, and the cleanup that disposes only what was already started.
`watch` is the one of `watch.rs`: a start or stop of any window ends it, and a burst it was
collecting may still be emitted. `detected` are the folders whose roots a scan has registered:
a read and a watch need that, a scan needs `granted`. `owed` is a history variable.

`Conversation` splits the component's state as React does: `refs` hold what was written last,
`ui` what was set last, `seen` what was last committed. A handler reads `seen`; a click commits at
once (`Commit`), everything else at a later `Render`. `submissions` is the queue of
`useActionState`, each entry with its place in `submitPrompt`. `Retry`, `Compose` and the start of
a follow-up enter it. `host` is the agent's side: one running turn per session. Terminal events
arrive in the order of their emission and in no order with answers. `races` is a history variable:
the four overtakings the component does not guard against (see Observations).

`AgentEvents` separates what `publish_turn` and `publish` do under no common lock: the turn
enters the set (`EnterTurn`), the number is taken (`Stamp`), the event is emitted (`Emit`) or not
(`EmitFails`). A task goes on once its event is emitted, which orders the end of a turn, its
milestone and its removal; nothing orders two turns. `client` is `acceptAgentEnvelope`.

## Runs

| run | question | bounds | distinct states |
|---|---|---|---|
| `interrupted` | do apply and restore stay atomic, and does every interruption end, with a crash and a failing call anywhere? | 2 files, 1 in a new directory, 2 texts, 2 transactions, 1 crash, 1 failure | 176,947 |
| `edited` | the same with an editor between operations | as above, 1 edit, no failure | 420,502 |
| `racing` | which edits can be lost if the editor writes at any moment? | 2 files, 1 crash, 1 failure, 1 edit | 655,382 |
| `shared` | can two connections without a common lock leave a half-written file? | 1 file, 2 transactions, 1 crash, 1 edit at any moment | 837,486 |
| `reviewed` | is what is applied what was decided and reported, whatever changes in between? | 1 file, 2 hunks, 2 stagings, 2 choices, 1 edit | 1,312,898 |
| `granted` | do unattended grants end, and only then? does a validation over two files hold together? | 2 files, 1 staging, 1 edit, 3 points in time | 94,692 |
| `browsing` | does every tab keep its own history, and the selection follow the tab in front? | 2 bundles, 2 contents, 2 concepts, 3 tabs, 4 identities, 3 entries in all histories, 2 tear-offs | 216,496 |
| `loading` | do late answers, switches and torn-down effects leave the right bundle, watch and indicator? | 2 windows, 3 folders (of two, one and no bundles), 3 actions, 1 change | 512,689 |
| `conversing` | is the turn shown the one that runs, and does every prompt go where it should? | 2 turns, 2 sessions, 2 prompts | 386,870 |
| `events` | is every loss noticed, and the drain announced when it is due? | 2 turns, 1 update each, 1 failing emit | 231,171 |
| `gap`, `overtaken` | each refutes one sentence of the documentation | | |

Two transactions are the least in which an apply replaces an older checkpoint, or
a restore follows an apply; two files are the least in which a rollback has
something to roll back; the subdirectory makes a created directory appear and
go. Two crashes add no behaviour that one crash and a second session do not show,
except a crash inside a recovery: with one crash that is reached by the rollback
and by a recovery that fails with an I/O error and is repeated.

What the passing runs show:

- `ImplementsAtomicBundle`: under the mapping `LogicalBundle`, `LogicalCheckpoint`
  every step of the code is an atomic apply, an atomic restore, an edit or a
  stutter. An uncommitted apply has not happened; it happens when the new
  checkpoint is saved. A restore happens when the checkpoint is consumed.
- `CheckpointDescribesBundle`, `FailureIsAllOrNothing`, `StageClearedWhenApplied`:
  the record, the stage and the files agree whenever nothing is pending.
- `NoArtifactsLeft`, `CreatedDirectoryRemoved`: what a transaction adds beside the
  user's files goes with it, if no call fails.
- `EditsLostOnlyInWindows`: an edit that nobody reviewed survives in the bundle or
  in a displaced file, except at the steps listed in `Window`, which act on a file
  checked earlier.
- `InterruptedApplySettles`, `InterruptedRestoreSettles`: an interruption ends in a
  settled bundle, except for a modified file caught between its two renames, a
  transaction file with unplanned text, or an apply with a deletion.
- `WholeTexts`: with two connections, each of which may undo the other's work, an editor and a
  process that may die, no file is half written when both have returned, unless a call failed, a
  review read a file while the other connection was writing it, or the process died while such a
  file lay in the bundle (`exposed`). It says nothing of atomicity: two connections do not have it
  (see Observations).

All but the last are properties of one session, the only one of its connection over the bundle.

- `AppliedIsReported`: Apply and Create write the outcome the report was computed from,
  over the texts it was computed against.
- `EnhanceAppliesDecisions`: in Enhance mode the user has decided every hunk of the diff
  to the file that is overwritten, and gets what was decided last.
- `SelectionMatchesStage`, `DraftsOnlyCreate`: the unlocked middle of a choice and a change
  of mode never leave a selection of another text, or a modification in a draft.
- `ExpiredGrantIsRevoked`, `RenewedGrantLasts`: the timers end an unattended grant when its
  time is over and not before.

- `KeepsHistories`: whatever happens to other tabs, and in whatever order, a tab is a cursor on
  its own trail. `TabsWellFormed`: there is a tab in front, the mirrors are its, and identities
  are not used twice, on which `PopOutDone` relies.
- `WatchesSettle`: once nothing is under way, no listener of a torn-down effect is left and the host
  watches nothing that no effect asked for. `ReloadsKeepTheRoot`: a late reload does not take a
  window back to the bundle it has left, with one exception: between the dispatch of the switch and
  the cleanup of the old effect (`RunEffects`) it still does, although the comment at
  `store.tsx:1301-1303` says it is dropped. Of two overlapping opens the one that is answered last
  wins; the property is about reloads. `SeenEditsAreShown`, `LoadingEnds`: what a watch saw is
  shown, and the loading indicator goes, whatever fails.
- `ActiveTurnIsTheRunningOne`, `EachPromptIsSentOnce`, `PromptsAreKept`, `FollowUpLeaves`,
  `StopEnds`: unless one of the four overtakings happens, the acceptance of a turn and its end may
  come in either order, prompts may be refused and turns retried, and the user's texts and the
  button stay right.
- `LossesAreReported`, `QuietIsAnnounced`, `QuietPassesOverSilentTurnsOnly`: what the numbers and
  HostQuiescent promise, for publishers in any order, with the exceptions their statements name.

Two choices are what it takes to decide one hunk against one text and the other against
another; a second staging replaces a text under a choice or a report; one edit makes a
report stale. One file shows all of it but the reads of several files one by one, which
`granted` has.

For `shared`: two transactions, a crash and an edit reach every step of `OvertakenNext` but two, for
which three and four transactions are needed (`RestorePrepareTaken`, `ConsumeFails`). With three and
without crash and edit `WholeTexts` holds as well (1,047,968 states); the theorem has no such bound.

For tabs: two beside the one that acts show that it disturbs neither; three entries of history give
one tab two to go back and forth on, or two tabs one or two each; with two pending tear-offs one can
complete for a tab the other's completion has moved; a fourth identity is a tab of a bundle opened
after them. The roots are interchangeable. For loading: the second window is the one whose start or
stop comes between two steps of the first; three actions open a bundle, leave it and come back, or
forget its folder, while everything else they started is still under way; one change is what can be
seen or missed. For the conversation: a turn and the follow-up or the retry after it; a session in
place and another one restored or created; the CONSTRAINT `Untroubled` follows a behaviour up to its
first overtaking, after which the properties promise nothing. For events: one turn that leaves while
the other is silent, has entered or is removed; the window listens to turns only, as the code does.

`MaxFaults` is 1 where the refinement is checked: a rollback ignores the failures
of its own renames and still removes its record, so two failures can lose the
file for good. With more, `ImplementsAtomicBundle` does not hold, and the code
does not claim it.

### Fairness

`WF_vars(OperationNext)`: a handler that runs keeps running. Handlers run to their end on a blocking
thread and wait for no one. `SF_vars(Begin("register"))`: sessions keep being opened, as long as the
user works with the bundle. In this model of one session a handler starts when none runs, which is
the case again and again but not for good, hence strong fairness. (The code does not wait: a
registration recovers on the worker of the connection, beside an apply of another session.) Nothing
is assumed of crashes, failures, edits, reviews, apply or restore. In `ReviewedStage`,
`WF_vars(Expire(t))` for every `t`: a timer task that was spawned and has slept wakes up. Neither
the clock nor any actor is assumed to move. In `BundleLoading`, weak fairness of `HostAnswers`
(Tauri answers the commands it has), of the answers to `asks`, of `RunEffects(w)` for every window
(React runs the effects of a commit) and of `EmitChanged` (the debounce thread emits). In
`Conversation`, weak fairness of the answers to session and prompt calls, of the answers to Stop, of
`Render`, and of the end of turns with the delivery of its event: an agent is assumed to end its
turns; without that no queue would move. The user owes nothing in either, and files need not change.
`ReaderTabs` and `AgentEvents` state safety only.

### Findings

Two runs refute a sentence of the documentation; `PROJECT.json` quotes them.

1. `gap`: a crash between "target to backup" and "replacement to target" (2078, 2086)
   leaves the bundle without the file, and recovery refuses from then on.
2. `overtaken`: the host has one watch. A window that opens another bundle, or leaves its own,
   ends the watch of the other window (`watch.rs:71`), which still listens and is told nothing
   (`live-reload.md:11`, `navigation.md:39`).

### Observations

Met while modelling; the models follow the code, and the properties name these cases.

- Recovery restores a deleted file and then takes the restored file for a failure (2391).
- Applying a stage of fully rejected creations leaves a record that makes the next handler
  fail (976, 988).
- When the checkpoint cannot be saved and the rollback is blocked by an edit, the displaced
  edit is deleted (998).
- An edit that lands between a restore's look at a file and its displacement (2599, 2612) goes with
  it: the restore removes what it displaced without reading it again (2635).
- A session that is being opened rolls back an apply that runs in another session, of another
  connection or of the same: `register_session` recovers (371) before it takes the lock (381). If it
  does so between the last replacement of the apply and the saving of its checkpoint (994), the
  apply goes on and saves a checkpoint that says "applied" over the original files. So
  `CheckpointDescribesBundle`, `ImplementsAtomicBundle` and `RecordsExclusive` hold for one session
  and not for one connection with several.
- Two such handlers may write the same hidden file and put one in place that the other has just
  opened, so that a review on either side can read the empty file. What was reviewed that way is
  then applied, recorded in the checkpoint and faithfully put back by a later restore, which leaves
  the file empty for good. It takes a fourth transaction, which the run `shared` does not have; the
  proof of `WholeTexts` found it.
- `AgentConversation.tsx` does not guard against four overtakings. *Late stop*: `stopTurn` learns
  that its turn is over when another turn or follow-up is there, and clears or sends what its
  closure holds. *Uncommitted*: a turn ends, or a follow-up is queued, before React commits what was
  set; two follow-ups that are composed behind one turn before a commit overwrite each other.
  *Switched*: a thread is restored or archived while another prompt is under way. *Stale*: the
  bundle of a task thread has changed when its queued follow-up starts (808-814); the early return
  does not put the text back, although `agent-system.md:417` and `agent-panel.md:233` say a refused
  follow-up returns to the composer.
- Nothing in the app subscribes to milestones, which take numbers too: a window sees a gap at each
  of them although nothing was lost, and two threads may emit out of order with the same effect.
  No number is missed (`LossesAreReported`), but the report says more than was lost.
- HostQuiescent may be announced while an accepted turn that has not published anything runs, and
  an update that comes after its turn was removed keeps the host counted as busy.

## Proofs

`CheckpointedStage_proofs` proves, for every `N`, `Text`, `Nested`, `Start` and
every bound that satisfies the assumptions of `BundleStore`:

- `TypeCorrect`: `Spec => []TypeOK`.
- `OneRecord`: `Spec => []RecordsExclusive`: an apply record and a restore record never
  exist together, so recovery's refusal of "overlapping" transactions is dead code for one
  session. With a second one it is not.

`TypeOK` is not inductive. A handler in the middle of a transaction uses `txn`, which
may be `None` elsewhere; a planned transaction takes `nextId`, which must not have
passed `MaxIds`. `ControlInv` adds what is missing: past its planning a handler has a
transaction (`TransactionPlanned`), only recovery or a rollback has a job
(`JobRecovers`), and a handler that may still plan has an id left (`IdLeft`).
`IInv == TypeOK /\ ControlInv` is inductive: `InitInv`, `NextInv`, with one lemma for the
steps of each module and one case for each action.

`RecordsExclusive` needs `RecordsInv`: a handler that goes on from recovery, or that has
planned, sees no record at all; a recovery that works on one record has seen the other
one absent. `RecordsStep` shows that each action keeps it, given `IInv`.

It goes on with the hidden files beside those of the bundle, whatever fails, crashes or is edited:

- `NoFilesLeft`: `Spec => []NoArtifactsLeft`.
- `EditsSurvive`: `Spec => EditsLostOnlyInWindows`.
- `ClearedStageIsApplied`: `Spec => StageClearedWhenApplied`, if the editor writes between the
  operations (`RacingEdits = FALSE`): an edit that lands between the last replacement and the commit
  leaves the stage cleared and the file changed, as one expects.

`FilesInv` adds to the above: `Tracked` says which handler is where, that the record on disk is that
of the transaction it works on, and that its loop is over the files of that transaction. `Fresh`: a
number that was not drawn names no hidden file. `Clean`, for as long as no call fails: every hidden
file belongs to a transaction that has a record, so that a later session finds it, and at each place
of each loop what the loop has passed is gone (`CleanAt`). The invariant is needed because crashes
leave files in every intermediate shape, and because a session resumes the sweep of another.
`Reviewed` says what lies beside a file before a swap and during a sweep: only a text the
transaction knows. `EditsSurvive` follows from it: a step on a file changes nothing about another
(`Local`); outside `Window` it removes a reviewed text, or moves one to where it still counts as
kept. `Planned` ties the stage to the transaction that Apply works on.

`TransactionContents_proofs` is about what the files hold:

- `CheckpointIsTrue`: `Spec => []CheckpointDescribesBundle`.
- `AllOrNothing`: `Spec => []FailureIsAllOrNothing`.
- `ApplyAndRestoreAreAtomic`: `Spec => ImplementsAtomicBundle`.
- `CreatedDirectoryGoes`: `Spec => CreatedDirectoryRemoved`.

All are for any number of files, texts, transactions and crashes. The first three assume that
`MaxFaults` is 0 or 1: no more than one call fails. With a second failure they are false of the
code: `undo` and `rollback` ignore the failure of their own calls and still remove the record. The
first two promise something until the first edit only, as their statements say. The refinement holds
with any number of edits, also of files that an interrupted transaction has touched, as long as the
editor writes while no handler runs (`RacingEdits = FALSE`; with an editor at any moment it is
`EditsSurvive` that says what may be lost). The last needs no assumption: its statement speaks of
behaviours without failures and edits.

`ContentInv == (edits = 0 \/ ~RacingEdits) /\ faults \in {0, 1} => Content`, and `Content` has seven
parts. `Contents` gives, for each place of a handler and each file of its transaction, the text in
place, displaced and prepared, depending on whether the loop has passed the file: this is what makes
a rollback put back the right text. `Ordered`: loops go through the files in order, so that "passed"
means "smaller" when a rollback goes backwards from where the swap stopped. `SavedAt`: which
checkpoint is saved and which the session remembers at each place, since a commit is decided by the
saved one alone. `Spent`: only a call that failed leads to an undo or a rollback, so that up to a
second failure (`OneFault`) nothing fails in there. `SoundRecords` is what survives a crash: a
record on disk describes a transaction none, some or all of which is in place (`Placed`) where that
is `Known`, the checkpoint saved is one of two or none, and the older checkpoint still describes the
files once the record is undone; without a record the checkpoint saved describes the bundle.
`Stable`: what is staged is all in place or not at all whenever a handler rests. `Whole`: no file or
checkpoint is half-written, so that a `Torn` text is only ever a hidden file.

An editor between the operations takes away what was `Known` of the files, and the code gets it
back. After an edit nothing is known of the files of a pending record, nor of those of the
checkpoint. But a handler works only on files it has compared: Apply with what was reviewed
(`RevisionMatches`), Restore with what was applied (`StillApplied`), a recovery with the three texts
a record allows (`IntactCommitted`, `IntactUncommitted`, `IntactRestore`). So `Placed` and
`Contents` hold of whatever runs, however often the bundle was edited before, and a rollback never
puts a text over one it has not seen. What a failed apply left of the stage (`AllBase`,
`AllContent`, `Quiet`) is promised until the first edit.

The proof of a step has two stages. What each file operation does to the files and to each part is a
lemma for each module (`ApplyStepContents`, `RestoreStepContents`, `RecoveryStepContents`); the rest
of the handlers is split by what they do: planning, going on, leaving, settling, the environment.
For the refinement, `CommitSave` is `AtomicApply`, consuming the checkpoint (in a restore or in the
recovery of one) is `AtomicRestore`, and every other step, a crash in particular, is shown to leave
`LogicalBundle` and `LogicalCheckpoint` as they are (`EditIsAtomic` for the editor). Before it was
proved, TLC checked `ContentInv` at the bounds of `interrupted`, with 3 transactions and 2 crashes
for stages of one or two files, and with an edit between the operations, a crash and a failing call.
The assumptions used are those of `BundleStore`: among them that `None` is no record or text
(`NoneAssumption`), and, for the mapping, `SavedAssumption`.

`CreatedDirectoryGoes` rests on `HousedInv == edits + faults = 0 => Housed`, on top of `ContentInv`
and `FilesInv`. `Housed` says of every checkpoint that can still be undone or restored what it
relies on. An apply that made the directory found no file in it and has put nothing but its own
there, so that removing those empties it (`MadeFor`); an apply that did not make it found it. The
older checkpoint of an apply under way keeps this for when the apply is undone (`MadeBefore`), which
is why an apply that follows one with a directory never makes it again. Directories are removed only
when they are empty: at that moment no hidden file lies in them either, which `CleanAt` says.

`SharedBundle_proofs` proves, for every number of files, texts, transactions, deaths of the process
and edits:

- `FilesAreWhole`: `SharedSpec => []WholeTexts`.

`SharedSpec` has the steps of both connections, of the editor (at any moment if `RacingEdits`) and
the crash, which takes both connections down. The statement leaves out behaviours in which a call
failed, and those in which a half-written file was `exposed`: reviewed, or in the bundle when the
process died. Two sessions of one connection are covered: they do what two connections do, less what
the common lock keeps apart.

Nothing of `Content` holds here: a recovery of one connection may take over, undo or clean up the
record of the other at any place, and a handler may find its files, its record and its checkpoint
gone. What does hold is about empty files alone. `SharedInv` gives `HalfWritten` as long as `faults
= 0 /\ ~exposed`; each session is given an empty text of its own (`LeftTorn`, `RightTorn`). `Open`:
it lies where its session opened it, or in the bundle, where the other one has put it, only while
that session is between opening and writing, and only for the file at which its loop is; it never is
a displaced text. `Dead` is the rest: a hidden file that a death left half written. Nobody works on
its transaction, and nobody takes it up, because a recovery first compares the hidden files with the
texts of the record; `Numbered` says that its number is not given out again. `Verified` is why an
empty text is never displaced: a handler about to displace a file has just compared it with a text
of its record, and `Store` and `Connection` say that records, checkpoints and stages tell of whole
texts. `Room`: two handlers that may both still plan have a number each. With a failing call `Open`
is false, a write that fails leaves the empty file behind; `~exposed` is needed since `Review`
compares with nothing, and since nobody writes on what a death has left in the bundle.

Without the condition on reviews the invariant had no proof, and TLC then found the counterexample
with one file and four transactions (see Observations). The proof has the three cases of what a step
may do to an empty file (`Opens`, `Closes`, `Moves`), one lemma for each action of the left session,
the same again for the right one, and one each for the editor (`EditKeeps`) and the crash
(`CrashKeeps`). It uses `SharedTextAssumption` (the two empty texts are none of the others),
`SharedNoneAssumption` (`None` is no transaction) and that `MaxIds` is a number.

`ReviewedStage_proofs` proves, for every set of paths, hunks and lines and every bound:

- `StageTypeCorrect`, `SelectionsMatch`, `DraftsCreate`: the invariants of the runs.
- `WritesWhatWasReported`: `Spec => AppliedIsReported`.
- `EnhanceFollowsDecisions`: `Spec => EnhanceAppliesDecisions`.
- `RenewedGrantStays`: `Spec => RenewedGrantLasts`.

The invariant is `TypeOK /\ ReviewInv`. `SelectionMatchesStage` needs `ChoiceValid`: a choice
that was compared is of the text it copied, so that the second comparison under the lock
is enough. `AppliedIsReported` needs `ReportSound` and, less obviously, `DraftsOnlyCreate`: a
modified file in a draft would have the active bundle's text as its original.
`EnhanceAppliesDecisions` needs `DecisionsRecorded`, which ties the selection to the
history: every reviewed hunk has a decision on the selection's own diff, and is rejected
exactly if the last one rejects it. `OnlyTheseApply` shows that no other action changes the
stage and a bundle in one step, `OnlyTheseChangeTimers` that timers change with a grant or by going off;
`RenewedGrantLasts` needs types only. The proofs assume that `None` and `Absent` are none of the
values they stand beside (`NoneAssumption`, `FileAssumption`).

`AgentEvents_proofs` proves, for any set of turns, any channels and every bound:

- `TypeCorrect`: `Spec => []TypeOK`.
- `LossesReported`: `Spec => []LossesAreReported`.
- `QuietAnnounced`: `Spec => []QuietIsAnnounced`.
- `QuietPassesOverSilent`: `Spec => QuietPassesOverSilentTurnsOnly`.

`TypeInv` adds to `TypeOK` that a turn which is building an update has one left (`RoomLeft`).
A lost number becomes reportable only by the arrival of a later one, and it may be lost after
that: `NumbersInv` therefore says of every number that has not reached the window, lost or still to
be emitted, that it is reported once it lies between the first and the last one seen. It needs
that numbers are unique and that the last one seen is not outstanding, so that an event the
window takes in passes over every number in its gap (`AcceptNumbers`); a new number is above all
(`StampNumbers`). `QuietInv` ties the set of the bus to the turns: it holds every turn that has
published and is not gone, and, while no update was late, no other; and a turn is left as long
as the last end was not followed by an announcement, because the turn that leaves others behind is
not the last to go. The only assumption used is `EventConstants`: there is a turn, and the
bounds are numbers.

`ReaderTabs_proofs` proves, for any bundles, contents, number of tabs and length of history:

- `TypeCorrect`: `Spec => []TypeOK`.
- `SelectionIsTheTabInFront`: `Spec => []TabsWellFormed`.
- `HistoriesKept`: `Spec => KeepsHistories`.

`TypeOK /\ TabsWellFormed` is inductive. Nearly every branch ends in `WithTabs`, so one lemma
(`WithTabsKeeps`) says that the mirrors agree with the tab in front whenever the list it is given is
`Proper`: identities that are distinct and below the next one. What remains of each branch is a fact
about inserting, removing, moving or replacing one tab of a sequence. For the refinement, the trail
of a tab is its past, what it shows, and its future; `TrailsOf` takes a list of tabs to the function
from identities to trails, which is why the order of tabs drops out and a move is a stutter. Going
back and forward, which rebuild three sequences, leave the trail as it is and move the cursor by one
(`BackMoves`, `ForwardMoves`), a visit cuts the trail at the cursor and extends it (`VisitMoves`),
selecting nothing only cuts it (`ClearMoves`).

`BundleLoading_proofs` proves, for any finite set of windows, any folders, bundles and bounds:

- `TypeCorrect`: `Spec => []TypeOK`.
- `WatchesSettled`: `Spec => []WatchesSettle`.
- `ReloadsKept`: `Spec => ReloadsKeepTheRoot`.

Neither property says anything about commands under way; the invariant is about them. `Meant`: a
start that is queued was sent by an effect that is still starting, for its root, and a reload by an
effect that was in place. `StartsOnce`: of each effect there is one start in the queue at most, so
that its answer leaves none behind. `Asked` says the same of subscriptions. `InOrder`: all effects
of a window but the last are torn down, none of those is watching, and one that is starting has its
command under way. `Watched`: what the host watches is the root of an effect in place, or a stop is
in the queue; it holds because the cleanup of an effect that was started sends a stop, and because
commands are answered in order. Finite sets of windows are needed since one burst sends a read for
each that listens (`LoadingConstants`).

`Conversation_proofs` proves, for any number of turns, sessions and prompts:

- `TypeCorrect`: `Spec => []TypeOK`.
- `ActiveTurnRuns`: `Spec => []ActiveTurnIsTheRunningOne`.
- `SentOnce`: `Spec => []EachPromptIsSentOnce`.
- `PromptsKept`: `Spec => PromptsAreKept`.

The invariant is `Basic /\ (races = {} => Untroubled)`: types and references hold always, the rest
until the first overtaking. `OneAtATime` is the heart of it: there is one submission at most,
nothing is active or queued while there is, and what the handlers see is what is set, or they see
that something is being submitted. `Carried` says what the submission holds at each of its phases,
`Running` that a turn that runs is the active one or the one whose acceptance is on its way,
`Numbered` that a prompt was sent only where it may have been. The proof found a case the model had
missed, two follow-ups composed behind one turn before React commits: the second replaces the first.
It belongs to "uncommitted" (see Observations), and the model says so now. TLC checked the invariant
at the bounds of `conversing` and, without the constraint, at 2 turns, 2 sessions and 2 prompts.

Every safety property of the runs is stated by a theorem. Only model-checked:

- liveness under fairness (`InterruptedApplySettles`, `InterruptedRestoreSettles`, `HandlersReturn`,
  `ExpiredGrantIsRevoked`, `SeenEditsAreShown`, `LoadingEnds`, `FollowUpLeaves`,
  `StopEnds`): TLAPS has no rules for it here, nor for ENABLED.

## What is left out

- Symbolic links, size limits, protected paths, profiles and other refusals of a
  staged write: they end before a transaction starts (`ApplyRefused`).
- In `CheckpointedStage`, deletions with some hunks rejected: such a file keeps its kind and
  has a text. `ReviewedStage` has them.
- In `ReviewedStage`, two hunk choices or two validations of one session at a time: the
  frontend makes one choice at a time (`selectingHunk`) and keeps only the answer to the
  last validation it asked for (`stagedValidationRequestRef`).
- What a staged deletion of an empty file promises: it has no hunk to decide, so its outcome
  is the empty text (1421) and the file stays. `Effective` has it, no property is about it.
- Limits on the number and size of staged files, and truncated diffs.
- Unreadable JSON records and the quarantine of the saved checkpoint. The one record
  the code itself writes and then rejects, that of an empty plan, is modelled.
- The order in which a power failure makes renames durable: a crash is a process that
  dies, what it renamed stays.
- Several created directories, nested in each other: one stands for them.
- Copying permissions, but for its failure on a file that is gone. That of a recovery, on a file an
  editor removes between its checks and the copy, is modelled for two connections only
  (`RewriteTaken`).
- A failure inside `create_staged_bundle`: it writes into a hidden directory and publishes it
  with one rename, the step `CreateBundle`.

- In `ReaderTabs`, the flags, filters, layout and dialogs a branch sets beside the tabs.
- In `BundleLoading`, `openRemoteChoice` and `createBundle` (an `openFolderPath` of a folder that
  was just fetched or written), the refetch of a remote cache that was evicted, a watcher the
  operating system refuses, closing windows, the list of recents (read, changed and written by every
  window) and pins.
- In `Conversation`, permissions, session options, compaction, critic, artifacts, staging, export
  and the browsing of histories. Two orders of events and answers in them were read and not
  modelled: the answer of a staging command is shown over an event that was sent after it was
  computed, and a critic's terminal event that comes before the answer to `promptAgentCritic`
  leaves the critic loading (1015-1114).
- In `AgentEvents`, the channels of permissions, stages, options and commands: they are numbered
  and emitted in the same way.
- Components that are not modelled, with the reason for each, are in `PROJECT.json`. Those with
  state worth a model and none yet: maintenance reviews, permissions and the command queue of the
  host, delegated runs with their budgets, routines, the file of the grants, and the installer. The
  rest is pure functions, formats and calls into the operating system.

## Plan

1. *(done)* `BundleStore`, `ApplyTransaction`, `RestoreTransaction`,
   `TransactionRecovery`, `CheckpointedStage`, `AtomicBundle`, `SharedBundle`,
   `RecoveryClaims`; theorems `TypeCorrect` and `OneRecord`.
2. *(done)* `ReviewedStage` and its six theorems.
3. *(done)* `ReaderTabs` with `TabHistories`, `BundleLoading`, `Conversation`, `AgentEvents` and
   its four theorems.
4. `TurnHost`: permission requests with timeouts and remembered rules, disconnecting; composed
   with `AgentEvents`. `MaintenanceReviews`: the reviews of `compatibility_stage.rs`, each of
   three critical sections over one shared session.
5. `DelegatedRuns`: outcomes against the plan, budgets. `Routines`: two files across
   crashes. The file of the grants, `Installer`; `SlicePlan` of okf-core as functions against a
   reference definition.
6. *(done)* Proofs of every safety property, with the refinements of `AtomicBundle` and
   `TabHistories`. Left: what restoring and rolling back promise with an editor at any moment,
   beyond that no edit is lost outside the windows.
