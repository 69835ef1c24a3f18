----------------------------- MODULE AgentEvents -----------------------------
(***************************************************************************)
(* The event path from the agent host to a window: the bus that numbers     *)
(* every event (src/src-tauri/src/agent/host/agent_events.rs), the turns    *)
(* that publish through it, and the boundary that checks what arrives       *)
(* (src/src/shared/agentEvents.ts, listenAgentChannel in ipc.ts).           *)
(* A publication takes its number first and is emitted later; tasks on      *)
(* other threads come in between, and an emit may fail.                     *)
(***************************************************************************)
EXTENDS Integers, FiniteSets

CONSTANTS
    Turn,           \* turns, accepted in any order
    Listened,       \* the channels this window subscribes to
    MaxUpdates,     \* bound: updates an agent sends in one turn
    MaxLost         \* bound: emits that fail

Channel == {"turn", "milestone"}
Kind == {"update", "end", "milestone"}
ChannelOf(kind) == IF kind = "milestone" THEN "milestone" ELSE "turn"

ASSUME EventConstants ==
    /\ Turn # {} /\ Listened \subseteq Channel
    /\ MaxUpdates \in Nat /\ MaxLost \in Nat

VARIABLES
    turns,          \* how far the host is with each turn
    updates,        \* updates of each turn: where the latest is, numbered so far
    sequence,       \* the last number given out
    active,         \* the turns the bus believes to be running
    stamped,        \* publications with a number, not emitted yet
    lost,           \* numbers whose emit failed
    client,         \* the boundary: the last number, those accepted, those reported missing
    announced,      \* the number of the last HostQuiescent, 0 for none
    ended,          \* the number of the last terminal event, 0 for none
    late            \* turns an update of which came after they were removed

vars == <<turns, updates, sequence, active, stamped, lost, client, announced, ended, late>>

\* accepted -> over (its task is done) -> told (the terminal event has a number)
\* -> quiet (so has its milestone) -> last (it left the set empty) -> removed.
Stages == {"none", "accepted", "over", "told", "quiet", "last", "removed"}
Event == [sequence: Nat, kind: Kind, turn: Turn]

TypeOK ==
    /\ turns \in [Turn -> Stages]
    /\ updates \in [Turn -> [at: {"idle", "built", "entered"}, sent: 0 .. MaxUpdates]]
    /\ sequence \in Nat /\ active \subseteq Turn
    /\ stamped \subseteq Event
    /\ \A e \in stamped : e.sequence \in 1 .. sequence
    /\ lost \subseteq 1 .. sequence
    /\ client \in [last: Nat, first: Nat, missing: SUBSET Nat]
    /\ client.last <= sequence /\ client.missing \subseteq 1 .. sequence
    /\ announced \in 0 .. sequence /\ ended \in 0 .. sequence /\ late \subseteq Turn

Init ==
    /\ turns = [t \in Turn |-> "none"]
    /\ updates = [t \in Turn |-> [at |-> "idle", sent |-> 0]]
    /\ sequence = 0 /\ active = {} /\ stamped = {} /\ lost = {}
    /\ client = [last |-> 0, first |-> 0, missing |-> {}]
    /\ announced = 0 /\ ended = 0 /\ late = {}

\* Mutant: the number the counter had before.
StampBefore(kind, t) ==
    /\ sequence' = sequence + 1
    /\ stamped' = stamped \cup {[sequence |-> sequence, kind |-> kind, turn |-> t]}

\* publish: a number from the counter, before anything is emitted.
Stamp(kind, t) ==
    /\ sequence' = sequence + 1
    /\ stamped' = stamped \cup {[sequence |-> sequence + 1, kind |-> kind, turn |-> t]}

\* A task goes on once what it published is emitted: the handler with the next
\* update, the task of the prompt from the end of the turn to its milestones.
Emitting(kinds, t) == \E e \in stamped : e.kind \in kinds /\ e.turn = t

-----------------------------------------------------------------------------
\* The prompt is accepted: the host knows the turn, the bus does not yet.
Accept(t) ==
    /\ turns[t] = "none"
    /\ turns' = [turns EXCEPT ![t] = "accepted"]
    /\ UNCHANGED <<updates, sequence, active, stamped, lost, client, announced, ended, late>>

\* turn_event: the notification handler finds the turn and builds its update.
BuildUpdate(t) ==
    /\ turns[t] = "accepted" /\ updates[t].at = "idle" /\ updates[t].sent < MaxUpdates
    /\ ~Emitting({"update"}, t)
    /\ updates' = [updates EXCEPT ![t].at = "built"]
    /\ UNCHANGED <<turns, sequence, active, stamped, lost, client, announced, ended, late>>

\* Mutant: liveness is only ever taken away.
EnterNothing(t) ==
    /\ updates[t].at = "built"
    /\ updates' = [updates EXCEPT ![t].at = "entered"]
    /\ UNCHANGED <<turns, sequence, active, stamped, lost, client, announced, ended, late>>

\* publish_turn of an update, whatever became of the turn since: the turn
\* enters the set, and the event is numbered once the lock is free again.
EnterTurn(t) ==
    /\ updates[t].at = "built"
    /\ updates' = [updates EXCEPT ![t].at = "entered"]
    /\ active' = active \cup {t}
    /\ late' = IF turns[t] \in {"last", "removed"} THEN late \cup {t} ELSE late
    /\ UNCHANGED <<turns, sequence, stamped, lost, client, announced, ended>>

PublishUpdate(t) ==
    /\ updates[t].at = "entered"
    /\ updates' = [updates EXCEPT ![t].at = "idle", ![t].sent = @ + 1]
    /\ Stamp("update", t)
    /\ UNCHANGED <<turns, active, lost, client, announced, ended, late>>

\* The prompt is answered: the turn is forgotten, then its end is published.
TurnOver(t) ==
    /\ turns[t] = "accepted"
    /\ turns' = [turns EXCEPT ![t] = "over"]
    /\ UNCHANGED <<updates, sequence, active, stamped, lost, client, announced, ended, late>>

PublishEnd(t) ==
    /\ turns[t] = "over"
    /\ turns' = [turns EXCEPT ![t] = "told"]
    /\ Stamp("end", t) /\ ended' = sequence'
    /\ UNCHANGED <<updates, active, lost, client, announced, late>>

PublishQuiescent(t) ==
    /\ turns[t] = "told" /\ ~Emitting({"end", "milestone"}, t)
    /\ turns' = [turns EXCEPT ![t] = "quiet"]
    /\ Stamp("milestone", t)
    /\ UNCHANGED <<updates, active, lost, client, announced, ended, late>>

\* Mutant: the last turn leaves without a word.
RemoveSilently(t) ==
    /\ turns[t] = "quiet" /\ ~Emitting({"end", "milestone"}, t)
    /\ active' = active \ {t}
    /\ turns' = [turns EXCEPT ![t] = "removed"]
    /\ UNCHANGED <<updates, sequence, stamped, lost, client, announced, ended, late>>

\* The turn leaves the set, under the lock that also counts what remains; the
\* one that leaves it empty announces, the lock released, that the host is quiet.
Remove(t) ==
    /\ turns[t] = "quiet" /\ ~Emitting({"end", "milestone"}, t)
    /\ active' = active \ {t}
    /\ turns' = [turns EXCEPT ![t] = IF active' = {} THEN "last" ELSE "removed"]
    /\ UNCHANGED <<updates, sequence, stamped, lost, client, announced, ended, late>>

AnnounceQuiet(t) ==
    /\ turns[t] = "last"
    /\ turns' = [turns EXCEPT ![t] = "removed"]
    /\ Stamp("milestone", t) /\ announced' = sequence'
    /\ UNCHANGED <<updates, active, lost, client, ended, late>>

\* Mutant: a single missing number is let pass.
LargeGap(n) == IF n > client.last + 2 /\ client.last > 0 THEN (client.last + 1) .. (n - 1) ELSE {}

\* acceptAgentEnvelope: a number beyond the next one is reported as a gap, and
\* accepted; an older one is accepted as it is.
Gap(n) == IF n > client.last + 1 /\ client.last > 0 THEN (client.last + 1) .. (n - 1) ELSE {}

Accepted(n) == [last |-> IF n > client.last THEN n ELSE client.last,
                first |-> IF client.first = 0 THEN n ELSE client.first,
                missing |-> client.missing \cup Gap(n)]

\* Emits happen in any order, and the window handles what it listens to in the
\* order of the emits; it changes nothing but its own record of the numbers.
Emit(e) ==
    /\ stamped' = stamped \ {e}
    /\ client' = IF ChannelOf(e.kind) \in Listened THEN Accepted(e.sequence) ELSE client
    /\ UNCHANGED <<turns, updates, sequence, active, lost, announced, ended, late>>

\* The emit fails, which is only written to the log.
EmitFails(e) ==
    /\ Cardinality(lost) < MaxLost
    /\ stamped' = stamped \ {e}
    /\ lost' = lost \cup {e.sequence}
    /\ UNCHANGED <<turns, updates, sequence, active, client, announced, ended, late>>

Next ==
    \/ \E t \in Turn : Accept(t)
    \/ \E t \in Turn : BuildUpdate(t)
    \/ \E t \in Turn : EnterTurn(t)
    \/ \E t \in Turn : PublishUpdate(t)
    \/ \E t \in Turn : TurnOver(t)
    \/ \E t \in Turn : PublishEnd(t)
    \/ \E t \in Turn : PublishQuiescent(t)
    \/ \E t \in Turn : Remove(t)
    \/ \E t \in Turn : AnnounceQuiet(t)
    \/ \E e \in stamped : Emit(e)
    \/ \E e \in stamped : EmitFails(e)

Spec == Init /\ [][Next]_vars

-----------------------------------------------------------------------------
\* "The webview will report a gap at this sequence" (agent_events.rs): an event
\* that was lost is reported missing once a later one has arrived, however the
\* threads that published them were ordered. What precedes the first event that
\* ever arrived cannot be told from what was sent before the window listened.
LossesAreReported ==
    \A n \in lost : client.first # 0 /\ client.first < n /\ n < client.last =>
                        n \in client.missing

\* The bus finds itself quiet (publish_turn) only past turns that have not
\* published an update yet: a turn it has heard of is never passed over,
\* whatever other turns ended since. An accepted and silent one may be.
QuietPassesOverSilentTurnsOnly == [][
    \A t, u \in Turn :
        turns[t] # "last" /\ turns'[t] = "last" /\ turns'[u] \notin {"last", "removed"} =>
            updates[u].sent = 0 /\ updates[u].at # "entered" ]_vars

\* HostQuiescent, "the host-level drain signal" (agent_events.rs): when every
\* accepted turn has been removed, it has been announced with a number above
\* those of all their ends. The exception is an update that enters a turn which
\* was removed already: from then on the host may count as busy forever.
QuietIsAnnounced ==
    (\A t \in Turn : turns[t] = "removed") =>
        announced > ended \/ late # {}
=============================================================================
