----------------------------- MODULE Conversation -----------------------------
(***************************************************************************)
(* One agent conversation: the turns, the queued follow-up and the saved    *)
(* thread of AgentConversation.tsx (src/src/features/agent/components/),    *)
(* against the host it talks to.                                            *)
(*                                                                         *)
(* The component's state is split the way React splits it: refs hold what   *)
(* was written last, `ui` what was set last, and `seen` what was last       *)
(* committed. Event handlers and effect events read `seen`. A click and the *)
(* start of a submission commit before anything else runs (Commit); what is *)
(* set in an awaited continuation, in a host event or in the composer's     *)
(* form action is committed by a later Render.                              *)
(*                                                                         *)
(* Answers of the host arrive in any order; turn events arrive in the order *)
(* they were emitted, and in no order with the answers.                     *)
(***************************************************************************)
EXTENDS Integers, Sequences, FiniteSets

CONSTANTS
    MaxTurn,        \* bound: turns the host accepts
    MaxSession,     \* bound: sessions of the agent; session 1 is the saved one
    MaxDraft        \* bound: prompts the user writes

ASSUME ConversationConstants ==
    /\ MaxTurn \in Nat /\ MaxSession \in Nat \ {0} /\ MaxDraft \in Nat

VARIABLES
    ui,             \* React state
    seen,           \* what of it is committed
    refs,           \* the refs: session, and the turns completed, accepted, failed
    submissions,    \* the prompts given to useActionState, in order
    stops,          \* calls of stopTurn under way
    draft,          \* the promise of a new session: idle, creating or error
    resuming,       \* the saved or imported thread being loaded, 0 for none
    archiving,      \* the session being archived, 0 for none
    imported,       \* whether this surface was opened to import a session
    host,           \* [turns, running, sessions]: the agent's side
    events,         \* terminal events of turns, in order
    drafts,         \* prompts written so far
    races           \* the overtakings that have happened (a history variable)

vars == <<ui, seen, refs, submissions, stops, draft, resuming, archiving,
          imported, host, events, drafts, races>>
surface == <<ui, refs, submissions, draft>>
threads == <<resuming, archiving, imported>>

Turn == 1 .. MaxTurn
Session == 1 .. MaxSession
Draft == 1 .. MaxDraft

\* The overtakings this component does not guard against:
\*   "late stop": stopTurn's answer "there is no such turn" finds another turn or
\*       follow-up than the click it closes over (1270-1286);
\*   "uncommitted": a turn ends, or a follow-up is queued behind a turn that has
\*       just ended or over another follow-up, before React commits what was set
\*       (982, 1133);
\*   "switched": a thread is restored or archived while another prompt is under
\*       way (2016, 2148), or a prompt gets a draft session that was not adopted;
\*   "stale": the bundle of a task thread has changed when its queued follow-up
\*       starts, which is refused without putting the prompt back (808).
Races == {"late stop", "uncommitted", "switched", "stale"}
Statuses == {"loading", "ready", "none", "failed", "refused", "resuming"}

TypeOK ==
    /\ ui \in [active: 0 .. MaxTurn, queued: 0 .. MaxDraft, text: 0 .. MaxDraft,
               cancelling: BOOLEAN, talk: BOOLEAN, status: Statuses,
               thread: 0 .. MaxSession, retryable: SUBSET Turn]
    /\ seen \in [active: 0 .. MaxTurn, queued: 0 .. MaxDraft, submitting: BOOLEAN]
    /\ refs \in [session: 0 .. MaxSession, completed: SUBSET Turn,
                 accepted: SUBSET Turn, failed: SUBSET Turn]
    /\ submissions \in Seq([draft: Draft, source: {"composer", "queue", "retry"},
                            of: 0 .. MaxTurn, session: 0 .. MaxSession, turn: 0 .. MaxTurn,
                            phase: {"waiting", "session", "draft", "prompt", "accepted", "rejected"}])
    /\ stops \subseteq [turn: Turn, queued: 0 .. MaxDraft,
                        over: BOOLEAN]
    /\ draft \in {"idle", "creating", "error"}
    /\ {resuming, archiving} \subseteq 0 .. MaxSession /\ imported \in BOOLEAN
    /\ host.turns \in Seq([draft: Draft, session: Session, of: 0 .. MaxTurn])
    /\ Len(host.turns) <= MaxTurn /\ host.running \subseteq DOMAIN host.turns
    /\ host.sessions \in Session
    /\ events \in Seq([turn: Turn, failed: BOOLEAN])
    /\ drafts \in 0 .. MaxDraft /\ races \subseteq Races

Init ==
    /\ imported \in BOOLEAN
    /\ ui = [active |-> 0, queued |-> 0, text |-> 0, cancelling |-> FALSE, talk |-> FALSE,
             status |-> IF imported THEN "none" ELSE "loading", thread |-> 0, retryable |-> {}]
    /\ seen = [active |-> 0, queued |-> 0, submitting |-> FALSE]
    /\ refs = [session |-> 0, completed |-> {}, accepted |-> {}, failed |-> {}]
    /\ submissions = << >> /\ stops = {} /\ draft = "idle"
    /\ resuming = IF imported THEN 1 ELSE 0
    /\ archiving = 0
    /\ host = [turns |-> << >>, running |-> {}, sessions |-> 1]
    /\ events = << >> /\ drafts = 0 /\ races = {}

Latest == [active |-> ui.active, queued |-> ui.queued, submitting |-> submissions # << >>]
Commit == seen' = Latest'
\* Bound: threads change and turns are retried while the host takes more turns.
More == Len(host.turns) < MaxTurn
Happened(race, when) == races' = IF when THEN races \cup {race} ELSE races

-----------------------------------------------------------------------------
\* Mutant: the prompt is sent without a session in place.
BegunAtOnce(s) == [s EXCEPT !.phase = "prompt", !.session = refs.session]

\* submitPrompt up to its first await: the session in place, or ensureSession,
\* which shares the promise of a session that is already being created.
Begun(s) ==
    IF refs.session # 0 THEN [s EXCEPT !.phase = "prompt", !.session = refs.session]
    ELSE [s EXCEPT !.phase = IF draft = "creating" THEN "draft" ELSE "session"]

\* useActionState runs one submission at a time.
Enqueue(d, source, of) ==
    LET s == [draft |-> d, source |-> source, of |-> of, phase |-> "waiting",
              session |-> 0, turn |-> 0]
        first == submissions = << >>
    IN  /\ submissions' = Append(submissions, IF first THEN Begun(s) ELSE s)
        /\ draft' = IF first /\ refs.session = 0 THEN "creating" ELSE draft

Dequeue ==
    LET rest == Tail(submissions)
    IN  /\ submissions' = IF rest = << >> THEN rest ELSE <<Begun(rest[1])>> \o Tail(rest)
        /\ draft' = IF rest # << >> /\ refs.session = 0 THEN "creating" ELSE draft

\* composerAction: send, or queue behind the active turn.
Compose ==
    /\ ~seen.submitting /\ seen.queued = 0
    /\ LET d == IF ui.text # 0 THEN ui.text ELSE drafts + 1
       IN  /\ d <= MaxDraft
           /\ drafts' = IF ui.text # 0 THEN drafts ELSE d
           /\ IF seen.active # 0
              THEN /\ ui' = [ui EXCEPT !.queued = d, !.text = 0]
                   /\ Happened("uncommitted", ui.active # seen.active \/ ui.queued # 0)
                   /\ UNCHANGED <<seen, submissions, draft>>
              ELSE /\ ui' = [ui EXCEPT !.text = d]
                   /\ Enqueue(d, "composer", 0)
                   /\ Commit
                   /\ UNCHANGED races
    /\ UNCHANGED <<refs, stops, threads, host, events>>

\* startQueuedPrompt, in a handler that sets the state s beside.
StartQueued(d, s) ==
    /\ ui' = [s EXCEPT !.queued = 0]
    /\ Enqueue(d, "queue", 0)
    /\ Commit

\* What a handler does with the follow-up d it finds once a turn is over. Mutant:
\* it forgets it.
FollowUpForgotten(d, s) == ui' = s /\ UNCHANGED <<seen, submissions, draft>>
FollowUp(d, s) ==
    IF d # 0 THEN StartQueued(d, s) ELSE ui' = s /\ UNCHANGED <<seen, submissions, draft>>

\* The surface without its active turn. Mutant: the Stop button stays busy.
StillStopping(s) == [s EXCEPT !.active = 0]
TurnLeft(s) == [s EXCEPT !.active = 0, !.cancelling = FALSE]

EditQueued ==
    /\ seen.queued # 0
    /\ ui' = [ui EXCEPT !.text = seen.queued, !.queued = 0]
    /\ UNCHANGED <<refs, submissions, draft, stops, threads, host, events, drafts, races>>
    /\ Commit

RemoveQueued ==
    /\ seen.queued # 0
    /\ ui' = [ui EXCEPT !.queued = 0]
    /\ UNCHANGED <<refs, submissions, draft, stops, threads, host, events, drafts, races>>
    /\ Commit

\* retryAcceptedTurn: the draft of a failed turn again, beside the composer.
Retry(t) ==
    /\ More
    /\ t \in ui.retryable /\ t \in refs.accepted
    /\ seen.active = 0 /\ ~seen.submitting
    /\ Enqueue(host.turns[t].draft, "retry", t)
    /\ UNCHANGED <<ui, refs, stops, threads, host, events, drafts, races>>
    /\ Commit

-----------------------------------------------------------------------------
\* ensureSession's answer: the session is adopted unless there is one by now;
\* whoever shared the promise gets the new one all the same.
SessionCreated ==
    /\ draft = "creating" /\ host.sessions < MaxSession
    /\ LET n == host.sessions + 1
           s == IF refs.session = 0 THEN n ELSE refs.session
       IN  /\ host' = [host EXCEPT !.sessions = n]
           /\ refs' = [refs EXCEPT !.session = s]
           /\ submissions' = [k \in DOMAIN submissions |->
                CASE submissions[k].phase = "session" ->
                       [submissions[k] EXCEPT !.phase = "prompt", !.session = s]
                  [] submissions[k].phase = "draft" ->
                       [submissions[k] EXCEPT !.phase = "prompt", !.session = n]
                  [] OTHER -> submissions[k]]
           /\ Happened("switched", s # n /\ \E k \in DOMAIN submissions :
                                               submissions[k].phase = "draft")
    /\ draft' = "idle"
    /\ UNCHANGED <<ui, seen, stops, threads, events, drafts>>

SessionFailed ==
    /\ draft = "creating"
    /\ draft' = "error"
    /\ submissions' = [k \in DOMAIN submissions |->
         IF submissions[k].phase \in {"session", "draft"}
         THEN [submissions[k] EXCEPT !.phase = "rejected"] ELSE submissions[k]]
    /\ UNCHANGED <<ui, seen, refs, stops, threads, host, events, drafts, races>>

\* retryDraftSession, which imports again in a surface opened to import.
RetryDraft ==
    /\ draft = "error"
    /\ IF imported
       THEN resuming = 0 /\ resuming' = 1 /\ draft' = "idle"
       ELSE refs.session = 0 /\ draft' = "creating" /\ UNCHANGED resuming
    /\ UNCHANGED <<ui, seen, refs, submissions, stops, archiving, imported,
                   host, events, drafts, races>>

\* The context accepted for the thread no longer fits the bundle: submitPrompt
\* returns before it asks the agent. (The composer does not submit then at all.)
PromptStale ==
    /\ submissions # << >> /\ submissions[1].phase = "prompt"
    /\ submissions[1].source # "composer"
    /\ Dequeue
    /\ Happened("stale", submissions[1].source = "queue")
    /\ UNCHANGED <<ui, seen, refs, stops, threads, host, events, drafts>>

\* promptAgent at the host: one active turn per session (agent_protocol.rs).
Busy(s) == \E t \in host.running : host.turns[t].session = s

HostTakesPrompt(accept) ==
    /\ submissions # << >> /\ submissions[1].phase = "prompt"
    /\ LET s == submissions[1]
           n == Len(host.turns) + 1
       IN  /\ accept => ~Busy(s.session) /\ n <= MaxTurn
           /\ IF accept
              THEN /\ host' = [host EXCEPT !.turns = Append(@,
                                  [draft |-> s.draft, session |-> s.session, of |-> s.of]),
                                           !.running = @ \cup {n}]
                   /\ submissions' = [submissions EXCEPT ![1].phase = "accepted", ![1].turn = n]
              ELSE /\ submissions' = [submissions EXCEPT ![1].phase = "rejected"]
                   /\ UNCHANGED host
    /\ UNCHANGED <<ui, seen, refs, draft, stops, threads, events, drafts, races>>

\* The active turn once turn t is accepted: unless its terminal event came first.
\* Mutant: also then.
AlwaysActive(t) == t
ActiveOnceAccepted(t) == IF t \in refs.completed THEN ui.active ELSE t

\* The composer once the prompt s is accepted. Mutant: its text stays.
TextKept(s) == ui.text
TextOnceAccepted(s) == IF s.source = "composer" THEN 0 ELSE ui.text

\* The rest of submitPrompt once the host has accepted: the draft is kept for a
\* retry, a retried turn gives its place up, and the turn may become the active one.
PromptAccepted ==
    /\ submissions # << >> /\ submissions[1].phase = "accepted"
    /\ LET s == submissions[1]
           t == s.turn
           retried == IF s.source = "retry" THEN {s.of} ELSE {}
       IN  /\ refs' = [refs EXCEPT !.accepted = (@ \cup {t}) \ retried,
                                   !.failed = @ \ {t}, !.completed = @ \ {t}]
           /\ ui' = [ui EXCEPT
                !.talk = TRUE, !.status = "none", !.thread = 0,
                !.text = TextOnceAccepted(s),
                !.retryable = (IF t \in refs.failed THEN @ \cup {t} ELSE @) \ retried,
                !.active = ActiveOnceAccepted(t)]
    /\ Dequeue
    /\ UNCHANGED <<seen, stops, threads, host, events, drafts, races>>

\* Mutant: a queued prompt that is refused is gone.
PromptDropped ==
    /\ submissions # << >> /\ submissions[1].phase = "rejected"
    /\ Dequeue
    /\ UNCHANGED <<ui, seen, refs, stops, threads, host, events, drafts, races>>

\* A queued prompt goes back into the composer; one sent from there never left.
PromptRejected ==
    /\ submissions # << >> /\ submissions[1].phase = "rejected"
    /\ ui' = IF submissions[1].source = "queue"
             THEN [ui EXCEPT !.text = submissions[1].draft] ELSE ui
    /\ Dequeue
    /\ UNCHANGED <<seen, refs, stops, threads, host, events, drafts, races>>

-----------------------------------------------------------------------------
\* The agent ends a turn: the host forgets it and emits the terminal event.
TurnEnds(t, failed) ==
    /\ t \in host.running
    /\ host' = [host EXCEPT !.running = @ \ {t}]
    /\ events' = Append(events, [turn |-> t, failed |-> failed])
    /\ UNCHANGED <<surface, seen, stops, threads, drafts, races>>

\* applyTerminalTurnEvent, for events of the session in place.
TerminalEvent ==
    /\ events # << >>
    /\ events' = Tail(events)
    /\ LET t == events[1].turn
           failed == events[1].failed
           kept == failed /\ t \in refs.accepted
           noted == [ui EXCEPT !.retryable = IF kept THEN @ \cup {t} ELSE @]
       IN  IF host.turns[t].session # refs.session
           THEN UNCHANGED <<surface, seen, races>>
           ELSE /\ refs' = [refs EXCEPT
                     !.completed = @ \cup {t},
                     !.failed = IF failed /\ ~kept THEN @ \cup {t} ELSE @ \ {t},
                     !.accepted = IF failed THEN @ ELSE @ \ {t}]
                /\ IF seen.active # t
                   THEN /\ ui' = noted
                        /\ UNCHANGED <<seen, submissions, draft>>
                        /\ Happened("uncommitted", ui.active = t)
                   ELSE /\ FollowUp(seen.queued, TurnLeft(noted))
                        /\ Happened("uncommitted", seen.queued # ui.queued \/ ui.active # t)
    /\ UNCHANGED <<stops, threads, host, drafts>>

\* stopTurn up to its await: it closes over what was committed.
Stop ==
    /\ seen.active # 0 /\ ~ui.cancelling
    /\ ui' = [ui EXCEPT !.cancelling = TRUE]
    /\ stops' = stops \cup {[turn |-> seen.active, queued |-> seen.queued, over |-> FALSE]}
    /\ UNCHANGED <<refs, submissions, draft, threads, host, events, drafts, races>>
    /\ Commit

\* cancelAgentTurn: the host passes it on if that very turn is still active; an
\* answer that changes nothing, or only the button, is not kept waiting.
StopTaken(s) ==
    /\ s \in stops /\ ~s.over
    /\ stops' = (stops \ {s}) \cup
                 (IF s.turn \in host.running THEN {} ELSE {[s EXCEPT !.over = TRUE]})
    /\ UNCHANGED <<surface, seen, threads, host, events, drafts, races>>

StopFailed(s) ==
    /\ s \in stops /\ ~s.over
    /\ stops' = stops \ {s}
    /\ ui' = [ui EXCEPT !.cancelling = FALSE]
    /\ UNCHANGED <<seen, refs, submissions, draft, threads, host, events, drafts, races>>

\* There was no such turn: it is over, and the follow-up of the click starts.
StopOver(s) ==
    /\ s \in stops /\ s.over
    /\ stops' = stops \ {s}
    /\ refs' = [refs EXCEPT !.completed = @ \cup {s.turn}]
    /\ FollowUp(s.queued, TurnLeft(ui))
    /\ Happened("late stop", ui.active \notin {s.turn, 0} \/ ui.queued # s.queued)
    /\ UNCHANGED <<threads, host, events, drafts>>

-----------------------------------------------------------------------------
Render ==
    /\ seen # Latest
    /\ seen' = Latest
    /\ UNCHANGED <<surface, stops, threads, host, events, drafts, races>>

\* The effect that creates a draft session once nothing waits to be resumed.
DraftEffect ==
    /\ ui.status \in {"none", "failed", "refused"}
    /\ ~imported /\ refs.session = 0 /\ draft = "idle"
    /\ draft' = "creating"
    /\ UNCHANGED <<ui, seen, refs, submissions, stops, threads, host, events, drafts, races>>

\* loadSavedThread's answer: the newest thread saved for the bundle, or none.
SavedThreadLoaded(ok, found) ==
    /\ ui.status = "loading"
    /\ ui' = [ui EXCEPT !.status = IF ~ok THEN "failed" ELSE IF found = 0 THEN "none" ELSE "ready",
                        !.thread = IF ok THEN found ELSE 0]
    /\ UNCHANGED <<seen, refs, submissions, draft, stops, threads, host, events, drafts, races>>

\* resumeSavedThread, from the card an empty conversation shows, or by itself
\* for a connection that was restored at launch.
Resume ==
    /\ More
    /\ ui.status \in {"ready", "refused"} /\ ui.thread # 0 /\ ~ui.talk /\ resuming = 0
    /\ resuming' = ui.thread
    /\ ui' = [ui EXCEPT !.status = "resuming"]
    /\ UNCHANGED <<refs, submissions, draft, stops, archiving, imported,
                   host, events, drafts, races>>
    /\ Commit

RetryLoad ==
    /\ ui.status = "failed" /\ ~ui.talk
    /\ ui' = [ui EXCEPT !.status = "loading"]
    /\ UNCHANGED <<refs, submissions, draft, stops, threads, host, events, drafts, races>>
    /\ Commit

\* dismissSavedThread removes the saved pointer and looks again.
Dismiss ==
    /\ ui.status \in {"ready", "refused"} /\ ui.thread # 0 /\ ~ui.talk
    /\ ui' = [ui EXCEPT !.status = "loading", !.thread = 0]
    /\ UNCHANGED <<refs, submissions, draft, stops, resuming, archiving, imported,
                   host, events, drafts, races>>
    /\ Commit

StartFresh ==
    /\ ui.status \in {"ready", "failed", "refused"} /\ ~ui.talk
    /\ ui' = [ui EXCEPT !.status = "none", !.thread = 0]
    /\ UNCHANGED <<refs, submissions, draft, stops, threads, host, events, drafts, races>>
    /\ Commit

\* applyRestoredSession: another session, its messages, an empty composer. The
\* active turn and the turns that completed stay as they are.
Restored ==
    /\ resuming # 0
    /\ resuming' = 0
    /\ refs' = [refs EXCEPT !.session = resuming, !.accepted = {}, !.failed = {}]
    /\ ui' = [ui EXCEPT !.queued = 0, !.text = 0, !.talk = TRUE, !.status = "none", !.thread = 0,
                        !.retryable = {}]
    /\ draft' = IF draft = "error" THEN "idle" ELSE draft
    /\ Happened("switched", submissions # << >> \/ ui.active # 0 \/ ui.queued # 0)
    /\ UNCHANGED <<seen, submissions, stops, archiving, imported, host, events, drafts>>

RestoreFailed ==
    /\ resuming # 0
    /\ resuming' = 0
    /\ ui' = IF imported THEN ui ELSE [ui EXCEPT !.status = "refused"]
    /\ draft' = IF imported THEN "error" ELSE draft
    /\ UNCHANGED <<seen, refs, submissions, stops, archiving, imported,
                   host, events, drafts, races>>

\* archiveThread checks that nothing is going on, saves, and then clears all.
Archive ==
    /\ More
    /\ refs.session # 0 /\ ui.talk /\ seen.active = 0 /\ ~seen.submitting
    /\ seen.queued = 0 /\ ui.text = 0 /\ archiving = 0
    /\ archiving' = refs.session
    /\ UNCHANGED <<surface, seen, stops, resuming, imported, host, events, drafts, races>>

Archived ==
    /\ archiving # 0
    /\ archiving' = 0
    /\ refs' = [session |-> 0, completed |-> {}, accepted |-> {}, failed |-> {}]
    /\ ui' = [ui EXCEPT !.active = 0, !.cancelling = FALSE, !.talk = FALSE,
                        !.status = "ready", !.thread = archiving, !.retryable = {}]
    /\ Happened("switched", submissions # << >> \/ ui.active # 0 \/ ui.queued # 0)
    /\ UNCHANGED <<seen, submissions, draft, stops, resuming, imported, host, events, drafts>>

ArchiveFailed ==
    /\ archiving # 0
    /\ archiving' = 0
    /\ UNCHANGED <<surface, seen, stops, resuming, imported, host, events, drafts, races>>

-----------------------------------------------------------------------------
UserActs ==
    \/ Compose \/ EditQueued \/ RemoveQueued \/ Stop
    \/ \E t \in ui.retryable : Retry(t)
    \/ RetryDraft \/ Resume \/ RetryLoad \/ Dismiss \/ StartFresh \/ Archive

PromptAnswered == PromptAccepted \/ PromptRejected
StopSettles == \E s \in stops : StopTaken(s) \/ StopFailed(s) \/ StopOver(s)

Next ==
    \/ UserActs
    \/ SessionCreated \/ SessionFailed
    \/ \E accept \in BOOLEAN : HostTakesPrompt(accept)
    \/ PromptAnswered \/ PromptStale
    \/ \E t \in host.running, failed \in BOOLEAN : TurnEnds(t, failed)
    \/ TerminalEvent
    \/ StopSettles
    \/ Render \/ DraftEffect
    \/ \E ok \in BOOLEAN, found \in {0, 1} : SavedThreadLoaded(ok, found)
    \/ Restored \/ RestoreFailed
    \/ Archived \/ ArchiveFailed

\* Every call is answered, events are delivered and React renders; the agent is
\* assumed to end its turns. The user owes nothing.
Fairness ==
    /\ WF_vars(SessionCreated \/ SessionFailed)
    /\ WF_vars(PromptAnswered \/ \E accept \in BOOLEAN : HostTakesPrompt(accept))
    /\ WF_vars(TerminalEvent \/ \E t \in Turn, failed \in BOOLEAN : TurnEnds(t, failed))
    /\ WF_vars(StopSettles)
    /\ WF_vars(Render)

Spec == Init /\ [][Next]_vars /\ Fairness

-----------------------------------------------------------------------------
Emitted == {events[k].turn : k \in DOMAIN events}
Awaited == {submissions[k].turn : k \in DOMAIN submissions}

\* The turn shown as active is the one the agent works on: it belongs to the
\* session in place and has not been seen to end, and every accepted turn that
\* still runs is shown. Acceptance and terminal event of a turn race for this.
ActiveTurnIsTheRunningOne ==
    races = {} =>
      /\ ui.active # 0 => /\ host.turns[ui.active].session = refs.session
                          /\ ui.active \in host.running \cup Emitted
      /\ host.running \subseteq {ui.active} \cup Awaited

\* A prompt is sent to the agent once, unless the user retried it.
EachPromptIsSentOnce ==
    races = {} => \A j, k \in DOMAIN host.turns :
        host.turns[j].draft = host.turns[k].draft =>
            j = k \/ host.turns[j].of # 0 \/ host.turns[k].of # 0

\* Where what the user wrote can be: composer, queue, on its way, or sent.
Places == {ui.text, ui.queued} \cup {submissions[k].draft : k \in DOMAIN submissions}
             \cup {host.turns[k].draft : k \in DOMAIN host.turns}

\* Nothing the user wrote disappears but what the user removes, or leaves behind
\* by restoring another thread: "Rejection restores the snapshot to the composer"
\* (docs/architecture/agent-system.md), unless it is refused as stale.
PromptsAreKept == [][
    races' = {} => Places \ {0} \subseteq Places' \/ RemoveQueued \/ Restored ]_vars

\* A queued follow-up leaves the queue: its turn ends, or the user stops it.
FollowUpLeaves == ui.queued # 0 ~> ui.queued = 0 \/ races # {}

\* The Stop button does not stay busy.
StopEnds == ui.cancelling ~> ~ui.cancelling \/ races # {}
=============================================================================
