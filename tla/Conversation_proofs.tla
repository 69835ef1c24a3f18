------------------------- MODULE Conversation_proofs -------------------------
(***************************************************************************)
(* Theorems about Conversation, for any number of turns, sessions, prompts. *)
(***************************************************************************)
EXTENDS Conversation, SequenceTheorems, TLAPS

Surface == [active: 0 .. MaxTurn, queued: 0 .. MaxDraft, text: 0 .. MaxDraft,
            cancelling: BOOLEAN, talk: BOOLEAN, status: Statuses,
            thread: 0 .. MaxSession, retryable: SUBSET Turn]
Seen == [active: 0 .. MaxTurn, queued: 0 .. MaxDraft, submitting: BOOLEAN]
Refs == [session: 0 .. MaxSession, completed: SUBSET Turn,
         accepted: SUBSET Turn, failed: SUBSET Turn]
Source == {"composer", "queue", "retry"}
Submission == [draft: Draft, source: Source, of: 0 .. MaxTurn, session: 0 .. MaxSession,
               turn: 0 .. MaxTurn,
               phase: {"waiting", "session", "draft", "prompt", "accepted", "rejected"}]
StopCall == [turn: Turn, queued: 0 .. MaxDraft, over: BOOLEAN]
Taken == [draft: Draft, session: Session, of: 0 .. MaxTurn]
Ending == [turn: Turn, failed: BOOLEAN]

\* A submission that is past ensureSession has its session, and past the host
\* its turn.
Equipped(subs, turns) == \A k \in DOMAIN subs :
    /\ subs[k].phase \in {"prompt", "accepted"} => subs[k].session # 0
    /\ subs[k].phase = "accepted" => subs[k].turn \in DOMAIN turns

\* The host's record, and what the surface refers to at the host.
Known ==
    /\ host = [turns |-> host.turns, running |-> host.running, sessions |-> host.sessions]
    /\ ui.retryable \subseteq DOMAIN host.turns
    /\ \A k \in DOMAIN events : events[k].turn \in DOMAIN host.turns
    /\ Equipped(submissions, host.turns)

Basic == TypeOK /\ Known

LEMMA TypeParts ==
    TypeOK <=> /\ ui \in Surface /\ seen \in Seen /\ refs \in Refs
               /\ submissions \in Seq(Submission) /\ stops \subseteq StopCall
               /\ draft \in {"idle", "creating", "error"}
               /\ resuming \in 0 .. MaxSession /\ archiving \in 0 .. MaxSession
               /\ imported \in BOOLEAN
               /\ host.turns \in Seq(Taken) /\ Len(host.turns) <= MaxTurn
               /\ host.running \subseteq DOMAIN host.turns /\ host.sessions \in Session
               /\ events \in Seq(Ending) /\ drafts \in 0 .. MaxDraft /\ races \subseteq Races
BY DEF TypeOK, Surface, Seen, Refs, Submission, Source, StopCall, Taken, Ending

LEMMA TypePartsNext ==
    TypeOK' <=> /\ ui' \in Surface /\ seen' \in Seen /\ refs' \in Refs
                /\ submissions' \in Seq(Submission) /\ stops' \subseteq StopCall
                /\ draft' \in {"idle", "creating", "error"}
                /\ resuming' \in 0 .. MaxSession /\ archiving' \in 0 .. MaxSession
                /\ imported' \in BOOLEAN
                /\ host'.turns \in Seq(Taken) /\ Len(host'.turns) <= MaxTurn
                /\ host'.running \subseteq DOMAIN host'.turns /\ host'.sessions \in Session
                /\ events' \in Seq(Ending) /\ drafts' \in 0 .. MaxDraft /\ races' \subseteq Races
BY DEF TypeOK, Surface, Seen, Refs, Submission, Source, StopCall, Taken, Ending

LEMMA Bounds ==
    /\ MaxTurn \in Nat /\ MaxSession \in Nat \ {0} /\ MaxDraft \in Nat
    /\ Turn = 1 .. MaxTurn /\ Session = 1 .. MaxSession /\ Draft = 1 .. MaxDraft
BY ConversationConstants DEF Turn, Session, Draft

-----------------------------------------------------------------------------
\* submitPrompt up to its first await.
LEMMA BegunStep ==
    ASSUME NEW s \in Submission, refs \in Refs
    PROVE  /\ Begun(s) \in Submission
           /\ Begun(s).draft = s.draft /\ Begun(s).source = s.source /\ Begun(s).of = s.of
           /\ Begun(s).turn = s.turn
           /\ Begun(s).phase \in {"prompt", "session", "draft"}
           /\ Begun(s).phase = "prompt" => refs.session # 0 /\ Begun(s).session = refs.session
           /\ Begun(s).phase # "prompt" => refs.session = 0
BY DEF Begun, Submission, Refs

New(d, source, of) == [draft |-> d, source |-> source, of |-> of, phase |-> "waiting",
                       session |-> 0, turn |-> 0]

LEMMA NewType ==
    ASSUME NEW d \in Draft, NEW source \in Source, NEW of \in 0 .. MaxTurn
    PROVE  New(d, source, of) \in Submission
BY Bounds DEF New, Submission

LEMMA EnqueueStep ==
    ASSUME refs \in Refs, submissions \in Seq(Submission), draft \in {"idle", "creating", "error"},
           NEW turns, Equipped(submissions, turns),
           NEW d \in Draft, NEW source \in Source, NEW of \in 0 .. MaxTurn,
           Enqueue(d, source, of)
    PROVE  /\ submissions' \in Seq(Submission) /\ draft' \in {"idle", "creating", "error"}
           /\ Equipped(submissions', turns)
           /\ submissions' # << >>
           /\ submissions = << >> => /\ Len(submissions') = 1
                                     /\ submissions'[1] = Begun(New(d, source, of))
           /\ \A k \in DOMAIN submissions : \E j \in DOMAIN submissions' :
                 submissions'[j].draft = submissions[k].draft
           /\ \E j \in DOMAIN submissions' : submissions'[j].draft = d
<1> DEFINE s == New(d, source, of)
           e == IF submissions = << >> THEN Begun(s) ELSE s
<1>1. s \in Submission /\ s.draft = d /\ s.phase = "waiting"
  BY NewType DEF New
<1>2. /\ e \in Submission /\ e.draft = d
      /\ e.phase \in {"prompt", "accepted"} => e.session # 0
      /\ e.phase # "accepted"
  BY <1>1, BegunStep
<1>3. submissions' = Append(submissions, e)
  BY DEF Enqueue, New
<1>4. draft' \in {"idle", "creating", "error"}
  BY DEF Enqueue
<1>5. submissions = << >> => e = Begun(New(d, source, of))
  OBVIOUS
<1> HIDE DEF e, s
<1> DEFINE n == Len(submissions)
<1>6. /\ submissions' \in Seq(Submission) /\ Len(submissions') = n + 1
      /\ \A k \in 1 .. n : submissions'[k] = submissions[k]
      /\ submissions'[n + 1] = e
  BY <1>2, <1>3, AppendProperties
<1>7. n \in Nat /\ DOMAIN submissions = 1 .. n /\ DOMAIN submissions' = 1 .. n + 1
  BY <1>6, LenProperties
<1>8. submissions = << >> => n = 0
  BY EmptySeq
<1> HIDE DEF n
<1>9. Equipped(submissions', turns)
  <2> SUFFICES ASSUME NEW k \in 1 .. n + 1
               PROVE  /\ submissions'[k].phase \in {"prompt", "accepted"} => submissions'[k].session # 0
                      /\ submissions'[k].phase = "accepted" => submissions'[k].turn \in DOMAIN turns
    BY <1>7 DEF Equipped
  <2>1. CASE k \in 1 .. n
    BY <1>6, <1>7, <2>1 DEF Equipped
  <2>2. CASE k = n + 1
    BY <1>2, <1>6, <2>2
  <2> QED  BY <1>7, <2>1, <2>2
<1>10. n + 1 \in DOMAIN submissions' /\ \A k \in 1 .. n : k \in DOMAIN submissions'
  BY <1>7
<1>11. submissions' # << >>
  BY <1>10
<1>12. submissions = << >> => Len(submissions') = 1 /\ submissions'[1] = e
  BY <1>6, <1>8
<1>13. \A k \in DOMAIN submissions : \E j \in DOMAIN submissions' :
          submissions'[j].draft = submissions[k].draft
  BY <1>6, <1>7, <1>10
<1>14. \E j \in DOMAIN submissions' : submissions'[j].draft = d
  BY <1>2, <1>6, <1>10
<1> QED  BY <1>4, <1>5, <1>6, <1>9, <1>11, <1>12, <1>13, <1>14

LEMMA DequeueStep ==
    ASSUME refs \in Refs, submissions \in Seq(Submission), draft \in {"idle", "creating", "error"},
           NEW turns, Equipped(submissions, turns), submissions # << >>,
           Dequeue
    PROVE  /\ submissions' \in Seq(Submission) /\ draft' \in {"idle", "creating", "error"}
           /\ Equipped(submissions', turns)
           /\ Len(submissions) = 1 => submissions' = << >>
<1> DEFINE rest == Tail(submissions)
           m == Len(rest)
           more == <<Begun(rest[1])>> \o Tail(rest)
<1>1. /\ rest \in Seq(Submission) /\ m \in Nat /\ m = Len(submissions) - 1
      /\ \A k \in 1 .. m : rest[k] = submissions[k + 1]
      /\ Len(submissions) \in Nat /\ DOMAIN submissions = 1 .. Len(submissions)
  BY HeadTailProperties, LenProperties
<1>2. draft' \in {"idle", "creating", "error"} /\ submissions' = IF rest = << >> THEN rest ELSE more
  BY DEF Dequeue
<1> HIDE DEF rest
<1>3. Len(submissions) = 1 => rest = << >>
  BY <1>1, EmptySeq
<1>4. CASE rest = << >>
  BY <1>1, <1>2, <1>4 DEF Equipped
<1>5. CASE rest # << >>
  <2> DEFINE b == Begun(rest[1])
             tail == Tail(rest)
             one == <<b>>
  <2>1. /\ tail \in Seq(Submission) /\ Len(tail) = m - 1 /\ m >= 1
        /\ \A k \in 1 .. m - 1 : tail[k] = rest[k + 1]
        /\ rest[1] \in Submission
    BY <1>1, <1>5, HeadTailProperties, EmptySeq
  <2>2. b \in Submission /\ b.phase # "accepted" /\ (b.phase = "prompt" => b.session # 0)
    BY <2>1, BegunStep
  <2> HIDE DEF b, tail
  <2>3. one \in Seq(Submission) /\ Len(one) = 1 /\ one[1] = b
    BY <2>2
  <2>4. submissions' = one \o tail
    BY <1>2, <1>5 DEF b, tail
  <2> HIDE DEF one, m
  <2>5. one \in Seq(Submission) /\ tail \in Seq(Submission)
    BY <2>1, <2>3
  <2>6. /\ one \o tail \in Seq(Submission) /\ Len(one \o tail) = Len(one) + Len(tail)
        /\ \A k \in 1 .. Len(one) + Len(tail) :
              (one \o tail)[k] = IF k <= Len(one) THEN one[k] ELSE tail[k - Len(one)]
    BY ONLY <2>5, ConcatProperties
  <2>7. /\ submissions' \in Seq(Submission) /\ Len(submissions') = m
        /\ \A k \in 1 .. m : submissions'[k] = IF k <= 1 THEN one[k] ELSE tail[k - 1]
    BY <1>1, <2>1, <2>3, <2>4, <2>6
  <2>8. DOMAIN submissions' = 1 .. m
    BY <2>7, LenProperties
  <2>9. Equipped(submissions', turns)
    <3> SUFFICES ASSUME NEW k \in 1 .. m
                 PROVE  /\ submissions'[k].phase \in {"prompt", "accepted"} => submissions'[k].session # 0
                        /\ submissions'[k].phase = "accepted" => submissions'[k].turn \in DOMAIN turns
      BY <2>8 DEF Equipped
    <3>1. CASE k = 1
      BY <2>2, <2>3, <2>7, <3>1
    <3>2. CASE k # 1
      <4>1. k - 1 \in 1 .. m - 1 /\ k \in 1 .. m /\ k + 1 \in DOMAIN submissions /\ (k - 1) + 1 = k
            /\ ~(k <= 1)
        BY <1>1, <3>2 DEF m
      <4>2. submissions'[k] = submissions[k + 1]
        BY <1>1, <2>1, <2>7, <4>1
      <4> QED  BY <4>1, <4>2 DEF Equipped
    <3> QED  BY <3>1, <3>2
  <2> QED  BY <1>2, <1>3, <1>5, <2>7, <2>9
<1> QED  BY <1>4, <1>5, <1>2, <1>3

LEMMA CommitStep ==
    ASSUME Commit, ui' \in Surface
    PROVE  /\ seen' \in Seen
           /\ seen'.active = ui'.active /\ seen'.queued = ui'.queued
           /\ seen'.submitting = (submissions' # << >>)
BY DEF Commit, Latest, Seen, Surface

LEMMA StartQueuedStep ==
    ASSUME Basic, NEW d \in Draft, NEW s \in Surface, StartQueued(d, s)
    PROVE  /\ ui' = [s EXCEPT !.queued = 0] /\ ui' \in Surface /\ Commit /\ seen' \in Seen
           /\ Enqueue(d, "queue", 0)
           /\ submissions' \in Seq(Submission) /\ draft' \in {"idle", "creating", "error"}
           /\ Equipped(submissions', host.turns)
<1>1. ui' = [s EXCEPT !.queued = 0] /\ Commit /\ Enqueue(d, "queue", 0)
  BY DEF StartQueued
<1>2. ui' \in Surface
  BY <1>1, Bounds DEF Surface
<1>3. seen' \in Seen
  BY <1>1, <1>2, CommitStep
<1>4. 0 \in 0 .. MaxTurn /\ "queue" \in Source
  BY Bounds DEF Source
<1>5. refs \in Refs /\ submissions \in Seq(Submission) /\ draft \in {"idle", "creating", "error"}
      /\ Equipped(submissions, host.turns)
  BY TypeParts DEF Basic, Known
<1> QED  BY <1>1, <1>2, <1>3, <1>4, <1>5, EnqueueStep

LEMMA FollowUpStep ==
    ASSUME Basic, NEW d \in 0 .. MaxDraft, NEW s \in Surface, FollowUp(d, s)
    PROVE  /\ ui' \in Surface /\ seen' \in Seen
           /\ ui'.retryable = s.retryable
           /\ submissions' \in Seq(Submission) /\ draft' \in {"idle", "creating", "error"}
           /\ Equipped(submissions', host.turns)
<1>1. CASE d # 0
  <2>1. d \in Draft /\ StartQueued(d, s)
    BY <1>1, Bounds DEF FollowUp
  <2> QED  BY <2>1, StartQueuedStep DEF Surface
<1>2. CASE d = 0
  BY <1>2, TypeParts DEF FollowUp, Basic, Known
<1> QED  BY <1>1, <1>2

\* What an action leaves of the types and of what is known of the host.
BasicIs(u, e, r, subs, st, dr, re, ar, im, h, ev, n, ra) ==
    /\ u \in Surface /\ e \in Seen /\ r \in Refs
    /\ subs \in Seq(Submission) /\ st \subseteq StopCall
    /\ dr \in {"idle", "creating", "error"}
    /\ re \in 0 .. MaxSession /\ ar \in 0 .. MaxSession /\ im \in BOOLEAN
    /\ h.turns \in Seq(Taken) /\ Len(h.turns) <= MaxTurn
    /\ h.running \subseteq DOMAIN h.turns /\ h.sessions \in Session
    /\ ev \in Seq(Ending) /\ n \in 0 .. MaxDraft /\ ra \subseteq Races
    /\ h = [turns |-> h.turns, running |-> h.running, sessions |-> h.sessions]
    /\ u.retryable \subseteq DOMAIN h.turns
    /\ \A k \in DOMAIN ev : ev[k].turn \in DOMAIN h.turns
    /\ Equipped(subs, h.turns)

LEMMA BasicNow ==
    Basic <=> BasicIs(ui, seen, refs, submissions, stops, draft, resuming, archiving, imported,
                      host, events, drafts, races)
BY TypeParts DEF Basic, Known, BasicIs

LEMMA BasicNext ==
    Basic' <=> BasicIs(ui', seen', refs', submissions', stops', draft', resuming', archiving',
                       imported', host', events', drafts', races')
BY TypePartsNext DEF Basic, Known, BasicIs

LEMMA HappenedStep ==
    ASSUME races \subseteq Races, NEW race \in Races, NEW when, Happened(race, when)
    PROVE  races' \subseteq Races /\ races \subseteq races'
BY DEF Happened

LEMMA ComposeBasic ==
    ASSUME Basic, Compose
    PROVE  Basic'
<1> DEFINE d == IF ui.text # 0 THEN ui.text ELSE drafts + 1
<1>1. d \in Draft /\ drafts' \in 0 .. MaxDraft
  BY BasicNow, Bounds DEF Compose, BasicIs, Surface
<1>2. UNCHANGED <<refs, stops, resuming, archiving, imported, host, events>>
  BY DEF Compose, threads
<1>0. ui \in Surface /\ d \in 0 .. MaxDraft /\ 0 \in 0 .. MaxDraft
  BY <1>1, BasicNow, Bounds DEF BasicIs
<1>3. CASE seen.active # 0
  <2>1. /\ ui' = [ui EXCEPT !.queued = d, !.text = 0]
        /\ Happened("uncommitted", ui.active # seen.active \/ ui.queued # 0)
        /\ UNCHANGED <<seen, submissions, draft>>
    BY <1>3 DEF Compose
  <2>2. races' \subseteq Races
    BY <2>1, BasicNow, HappenedStep DEF BasicIs, Races
  <2> HIDE DEF d
  <2>3. ui' \in Surface /\ ui'.retryable = ui.retryable
    BY <1>0, <2>1 DEF Surface
  <2> QED  BY <1>1, <1>2, <2>1, <2>2, <2>3, BasicNow, BasicNext DEF BasicIs
<1>4. CASE seen.active = 0
  <2>1. /\ ui' = [ui EXCEPT !.text = d] /\ Enqueue(d, "composer", 0)
        /\ Commit /\ UNCHANGED races
    BY <1>4 DEF Compose
  <2> HIDE DEF d
  <2>3. ui' \in Surface /\ ui'.retryable = ui.retryable
    BY <1>0, <2>1 DEF Surface
  <2>4. seen' \in Seen
    BY <2>1, <2>3, CommitStep
  <2>5. 0 \in 0 .. MaxTurn /\ "composer" \in Source
    BY Bounds DEF Source
  <2>6. /\ submissions' \in Seq(Submission) /\ draft' \in {"idle", "creating", "error"}
        /\ Equipped(submissions', host.turns)
    BY <1>1, <2>1, <2>5, EnqueueStep, BasicNow DEF BasicIs
  <2> QED  BY <1>1, <1>2, <2>1, <2>3, <2>4, <2>6, BasicNow, BasicNext DEF BasicIs
<1> QED  BY <1>3, <1>4

LEMMA MapSeq ==
    ASSUME NEW S, NEW T, NEW s \in Seq(S), NEW f, DOMAIN f = DOMAIN s,
           f = [k \in DOMAIN s |-> f[k]], \A k \in DOMAIN s : f[k] \in T
    PROVE  f \in Seq(T) /\ Len(f) = Len(s) /\ DOMAIN f = 1 .. Len(s)
<1>1. Len(s) \in Nat /\ DOMAIN s = 1 .. Len(s)
  BY LenProperties
<1>2. f \in [1 .. Len(s) -> T]
  BY <1>1
<1>3. f \in Seq(T)
  BY <1>1, <1>2, SeqDef
<1>4. Len(f) \in Nat /\ DOMAIN f = 1 .. Len(f)
  BY <1>3, LenProperties
<1> QED  BY <1>1, <1>3, <1>4

\* Steps that change the surface alone, and commit it.
LEMMA SurfaceBasic ==
    ASSUME Basic, ui' \in Surface, Commit, ui'.retryable = ui.retryable,
           resuming' \in 0 .. MaxSession, stops' \subseteq StopCall,
           UNCHANGED <<refs, submissions, draft, archiving, imported, host, events, drafts, races>>
    PROVE  Basic'
<1>1. seen' \in Seen
  BY CommitStep
<1> QED  BY <1>1, BasicNow, BasicNext DEF BasicIs

LEMMA UserBasic ==
    ASSUME Basic,
           EditQueued \/ RemoveQueued \/ Stop \/ Resume \/ RetryLoad \/ Dismiss \/ StartFresh
    PROVE  Basic'
<1>0. /\ ui \in Surface /\ seen \in Seen /\ 0 \in 0 .. MaxDraft /\ 0 \in 0 .. MaxSession
      /\ stops \subseteq StopCall /\ resuming \in 0 .. MaxSession
  BY BasicNow, Bounds DEF BasicIs
<1>1. CASE EditQueued
  <2>1. ui' = [ui EXCEPT !.text = seen.queued, !.queued = 0]
        /\ UNCHANGED <<stops, resuming>> /\ Commit
    BY <1>1 DEF EditQueued, threads
  <2>2. ui' \in Surface /\ ui'.retryable = ui.retryable
    BY <1>0, <2>1 DEF Surface, Seen
  <2> QED  BY <1>0, <1>1, <2>1, <2>2, SurfaceBasic DEF EditQueued, threads
<1>2. CASE RemoveQueued
  <2>1. ui' = [ui EXCEPT !.queued = 0] /\ UNCHANGED <<stops, resuming>> /\ Commit
    BY <1>2 DEF RemoveQueued, threads
  <2>2. ui' \in Surface /\ ui'.retryable = ui.retryable
    BY <1>0, <2>1 DEF Surface
  <2> QED  BY <1>0, <1>2, <2>1, <2>2, SurfaceBasic DEF RemoveQueued, threads
<1>3. CASE Stop
  <2>1. /\ ui' = [ui EXCEPT !.cancelling = TRUE] /\ UNCHANGED resuming /\ Commit
        /\ stops' = stops \cup {[turn |-> seen.active, queued |-> seen.queued, over |-> FALSE]}
        /\ seen.active # 0
    BY <1>3 DEF Stop, threads
  <2>2. ui' \in Surface /\ ui'.retryable = ui.retryable
    BY <1>0, <2>1 DEF Surface
  <2>3. stops' \subseteq StopCall
    <3>1. seen.active \in Turn /\ seen.queued \in 0 .. MaxDraft
      BY <1>0, <2>1, Bounds DEF Seen
    <3>2. [turn |-> seen.active, queued |-> seen.queued, over |-> FALSE] \in StopCall
      BY <3>1 DEF StopCall
    <3> QED  BY <1>0, <2>1, <3>2
  <2> QED  BY <1>0, <1>3, <2>1, <2>2, <2>3, SurfaceBasic DEF Stop, threads
<1>4. CASE Resume
  <2>1. /\ ui' = [ui EXCEPT !.status = "resuming"] /\ UNCHANGED stops /\ Commit
        /\ resuming' = ui.thread
    BY <1>4 DEF Resume
  <2>2. ui' \in Surface /\ ui'.retryable = ui.retryable /\ resuming' \in 0 .. MaxSession
    BY <1>0, <2>1 DEF Surface, Statuses
  <2> QED  BY <1>0, <1>4, <2>1, <2>2, SurfaceBasic DEF Resume
<1>5. CASE RetryLoad
  <2>1. ui' = [ui EXCEPT !.status = "loading"] /\ UNCHANGED <<stops, resuming>> /\ Commit
    BY <1>5 DEF RetryLoad, threads
  <2>2. ui' \in Surface /\ ui'.retryable = ui.retryable
    BY <1>0, <2>1 DEF Surface, Statuses
  <2> QED  BY <1>0, <1>5, <2>1, <2>2, SurfaceBasic DEF RetryLoad, threads
<1>6. CASE Dismiss
  <2>1. ui' = [ui EXCEPT !.status = "loading", !.thread = 0]
        /\ UNCHANGED <<stops, resuming>> /\ Commit
    BY <1>6 DEF Dismiss
  <2>2. ui' \in Surface /\ ui'.retryable = ui.retryable
    BY <1>0, <2>1 DEF Surface, Statuses
  <2> QED  BY <1>0, <1>6, <2>1, <2>2, SurfaceBasic DEF Dismiss
<1>7. CASE StartFresh
  <2>1. ui' = [ui EXCEPT !.status = "none", !.thread = 0]
        /\ UNCHANGED <<stops, resuming>> /\ Commit
    BY <1>7 DEF StartFresh, threads
  <2>2. ui' \in Surface /\ ui'.retryable = ui.retryable
    BY <1>0, <2>1 DEF Surface, Statuses
  <2> QED  BY <1>0, <1>7, <2>1, <2>2, SurfaceBasic DEF StartFresh, threads
<1> QED  BY <1>1, <1>2, <1>3, <1>4, <1>5, <1>6, <1>7

LEMMA RetryStep ==
    ASSUME Basic, NEW t, t \in ui.retryable, Retry(t)
    PROVE  /\ Basic' /\ t \in DOMAIN host.turns /\ host.turns[t].draft \in Draft
           /\ t \in 0 .. MaxTurn /\ "retry" \in Source
<1>1. /\ Enqueue(host.turns[t].draft, "retry", t) /\ Commit
      /\ UNCHANGED <<ui, refs, stops, resuming, archiving, imported, host, events, drafts, races>>
  BY DEF Retry, threads
<1>2. /\ ui \in Surface /\ host.turns \in Seq(Taken) /\ ui.retryable \subseteq DOMAIN host.turns
      /\ ui.retryable \subseteq Turn
  BY BasicNow DEF BasicIs, Surface
<1>3. t \in DOMAIN host.turns /\ host.turns[t].draft \in Draft
  <2>1. t \in DOMAIN host.turns
    BY <1>2
  <2>2. host.turns[t] \in Taken
    BY <1>2, <2>1, ElementOfSeq, LenProperties
  <2> QED  BY <2>1, <2>2 DEF Taken
<1>4. t \in 0 .. MaxTurn /\ "retry" \in Source
  BY <1>2, Bounds DEF Source
<1>5. seen' \in Seen
  BY <1>1, <1>2, CommitStep
<1>6. /\ submissions' \in Seq(Submission) /\ draft' \in {"idle", "creating", "error"}
      /\ Equipped(submissions', host.turns)
  BY <1>1, <1>3, <1>4, EnqueueStep, BasicNow DEF BasicIs
<1> QED  BY <1>1, <1>3, <1>4, <1>5, <1>6, BasicNow, BasicNext DEF BasicIs

LEMMA SessionCreatedBasic ==
    ASSUME Basic, SessionCreated
    PROVE  /\ Basic' /\ host.sessions + 1 \in Session
           /\ LET n == host.sessions + 1
                  s == IF refs.session = 0 THEN n ELSE refs.session
              IN  /\ host'.turns = host.turns /\ host'.running = host.running
                  /\ refs' = [refs EXCEPT !.session = s] /\ s # 0
                  /\ Len(submissions') = Len(submissions)
                  /\ DOMAIN submissions' = DOMAIN submissions
                  /\ \A k \in DOMAIN submissions : submissions'[k] =
                        CASE submissions[k].phase = "session" ->
                               [submissions[k] EXCEPT !.phase = "prompt", !.session = s]
                          [] submissions[k].phase = "draft" ->
                               [submissions[k] EXCEPT !.phase = "prompt", !.session = n]
                          [] OTHER -> submissions[k]
<1> DEFINE n == host.sessions + 1
           s == IF refs.session = 0 THEN n ELSE refs.session
<1>0. /\ refs \in Refs /\ submissions \in Seq(Submission) /\ Equipped(submissions, host.turns)
      /\ host.sessions \in Session
      /\ host = [turns |-> host.turns, running |-> host.running, sessions |-> host.sessions]
  BY BasicNow DEF BasicIs
<1>1. /\ host.sessions < MaxSession
      /\ host' = [host EXCEPT !.sessions = n] /\ refs' = [refs EXCEPT !.session = s]
      /\ Happened("switched", s # n /\ \E k \in DOMAIN submissions : submissions[k].phase = "draft")
      /\ draft' = "idle"
      /\ UNCHANGED <<ui, seen, stops, resuming, archiving, imported, events, drafts>>
  BY DEF SessionCreated, threads
<1>2. DOMAIN submissions' = DOMAIN submissions
      /\ submissions' = [k \in DOMAIN submissions |-> submissions'[k]]
      /\ \A k \in DOMAIN submissions : submissions'[k] =
            CASE submissions[k].phase = "session" ->
                   [submissions[k] EXCEPT !.phase = "prompt", !.session = s]
              [] submissions[k].phase = "draft" ->
                   [submissions[k] EXCEPT !.phase = "prompt", !.session = n]
              [] OTHER -> submissions[k]
  BY DEF SessionCreated
<1>3. n \in Session /\ n \in 0 .. MaxSession /\ s \in 0 .. MaxSession /\ n # 0 /\ s # 0
  BY <1>0, <1>1, Bounds DEF Refs
<1> HIDE DEF n, s
<1>4. \A k \in DOMAIN submissions : submissions[k] \in Submission
  BY <1>0, ElementOfSeq, LenProperties
<1>5. ASSUME NEW k \in DOMAIN submissions
      PROVE  /\ submissions'[k] \in Submission
             /\ submissions'[k].phase \in {"prompt", "accepted"} => submissions'[k].session # 0
             /\ submissions'[k].phase = "accepted" => submissions'[k].turn \in DOMAIN host.turns
  <2>1. /\ submissions[k] \in Submission
        /\ submissions[k].phase \in {"prompt", "accepted"} => submissions[k].session # 0
        /\ submissions[k].phase = "accepted" => submissions[k].turn \in DOMAIN host.turns
    BY <1>0, <1>4 DEF Equipped
  <2>2. CASE submissions[k].phase = "session"
    BY <1>2, <1>3, <2>1, <2>2 DEF Submission
  <2>3. CASE submissions[k].phase = "draft"
    BY <1>2, <1>3, <2>1, <2>3 DEF Submission
  <2>4. CASE submissions[k].phase \notin {"session", "draft"}
    BY <1>2, <2>1, <2>4
  <2> QED  BY <2>2, <2>3, <2>4
<1>6. submissions' \in Seq(Submission) /\ Len(submissions') = Len(submissions)
  <2>1. \A k \in DOMAIN submissions : submissions'[k] \in Submission
    BY <1>5
  <2>2. DOMAIN submissions' = DOMAIN submissions
        /\ submissions' = [k \in DOMAIN submissions |-> submissions'[k]]
    BY <1>2
  <2>3. submissions' \in Seq(Submission) /\ Len(submissions') = Len(submissions)
    BY <1>0, <2>1, <2>2, MapSeq
  <2> QED  BY <2>3
<1>7. /\ host'.turns = host.turns /\ host'.running = host.running /\ host'.sessions = n
      /\ host' = [turns |-> host'.turns, running |-> host'.running, sessions |-> host'.sessions]
  BY <1>0, <1>1
<1>8. Equipped(submissions', host'.turns)
  BY <1>2, <1>5, <1>7 DEF Equipped
<1>9. refs' \in Refs
  BY <1>0, <1>1, <1>3 DEF Refs
<1>10. races' \subseteq Races
  BY <1>1, HappenedStep, BasicNow DEF BasicIs, Races
<1>11. Basic'
  BY <1>1, <1>3, <1>6, <1>7, <1>8, <1>9, <1>10, BasicNow, BasicNext DEF BasicIs
<1> QED  BY <1>1, <1>2, <1>3, <1>6, <1>7, <1>11 DEF n, s

LEMMA SessionFailedBasic ==
    ASSUME Basic, SessionFailed
    PROVE  /\ Basic' /\ Len(submissions') = Len(submissions)
           /\ DOMAIN submissions' = DOMAIN submissions
           /\ \A k \in DOMAIN submissions : submissions'[k] =
                 IF submissions[k].phase \in {"session", "draft"}
                 THEN [submissions[k] EXCEPT !.phase = "rejected"] ELSE submissions[k]
<1>0. submissions \in Seq(Submission) /\ Equipped(submissions, host.turns)
  BY BasicNow DEF BasicIs
<1>1. /\ draft' = "error"
      /\ UNCHANGED <<ui, seen, refs, stops, resuming, archiving, imported, host, events,
                     drafts, races>>
  BY DEF SessionFailed, threads
<1>2. DOMAIN submissions' = DOMAIN submissions
      /\ submissions' = [k \in DOMAIN submissions |-> submissions'[k]]
      /\ \A k \in DOMAIN submissions : submissions'[k] =
            IF submissions[k].phase \in {"session", "draft"}
            THEN [submissions[k] EXCEPT !.phase = "rejected"] ELSE submissions[k]
  BY DEF SessionFailed
<1>4. \A k \in DOMAIN submissions : submissions[k] \in Submission
  BY <1>0, ElementOfSeq, LenProperties
<1>5. ASSUME NEW k \in DOMAIN submissions
      PROVE  /\ submissions'[k] \in Submission
             /\ submissions'[k].phase \in {"prompt", "accepted"} => submissions'[k].session # 0
             /\ submissions'[k].phase = "accepted" => submissions'[k].turn \in DOMAIN host.turns
  <2>1. /\ submissions[k] \in Submission
        /\ submissions[k].phase \in {"prompt", "accepted"} => submissions[k].session # 0
        /\ submissions[k].phase = "accepted" => submissions[k].turn \in DOMAIN host.turns
    BY <1>0, <1>4 DEF Equipped
  <2>2. CASE submissions[k].phase \in {"session", "draft"}
    BY <1>2, <2>1, <2>2 DEF Submission
  <2>4. CASE submissions[k].phase \notin {"session", "draft"}
    BY <1>2, <2>1, <2>4
  <2> QED  BY <2>2, <2>4
<1>6. submissions' \in Seq(Submission) /\ Len(submissions') = Len(submissions)
  <2>1. \A k \in DOMAIN submissions : submissions'[k] \in Submission
    BY <1>5
  <2>2. submissions' \in Seq(Submission) /\ Len(submissions') = Len(submissions)
    BY <1>0, <1>2, <2>1, MapSeq
  <2> QED  BY <2>2
<1>8. Equipped(submissions', host.turns)
  BY <1>2, <1>5 DEF Equipped
<1>11. Basic'
  BY <1>1, <1>6, <1>8, BasicNow, BasicNext DEF BasicIs
<1> QED  BY <1>2, <1>6, <1>11

\* Steps that leave the conversation to the host's calls: the draft session, the
\* saved thread and the archive.
LEMMA ThreadBasic ==
    ASSUME Basic,
           \/ RetryDraft \/ Render \/ DraftEffect \/ Archive \/ ArchiveFailed
           \/ RestoreFailed
           \/ \E ok \in BOOLEAN, found \in {0, 1} : SavedThreadLoaded(ok, found)
    PROVE  Basic'
<1>0. /\ ui \in Surface /\ refs \in Refs /\ 0 \in 0 .. MaxSession /\ 1 \in 0 .. MaxSession
      /\ imported \in BOOLEAN /\ resuming \in 0 .. MaxSession /\ archiving \in 0 .. MaxSession
      /\ refs.session \in 0 .. MaxSession /\ draft \in {"idle", "creating", "error"}
  BY BasicNow, Bounds DEF BasicIs, Refs
<1>1. CASE RetryDraft
  <2>1. /\ resuming' \in {1, resuming} /\ draft' \in {"idle", "creating"}
        /\ UNCHANGED <<ui, seen, refs, submissions, stops, archiving, imported,
                       host, events, drafts, races>>
    BY <1>1 DEF RetryDraft
  <2>2. resuming' \in 0 .. MaxSession /\ draft' \in {"idle", "creating", "error"}
    BY <1>0, <2>1
  <2> QED  BY <2>1, <2>2, BasicNow, BasicNext DEF BasicIs
<1>2. CASE Render
  <2>1. seen' = Latest
        /\ UNCHANGED <<ui, refs, submissions, draft, stops, resuming, archiving, imported,
                       host, events, drafts, races>>
    BY <1>2 DEF Render, surface, threads
  <2>2. seen' \in Seen
    BY <1>0, <2>1 DEF Latest, Seen, Surface
  <2> QED  BY <2>1, <2>2, BasicNow, BasicNext DEF BasicIs
<1>3. CASE DraftEffect
  <2>1. /\ draft' \in {"idle", "creating", "error"}
        /\ UNCHANGED <<ui, seen, refs, submissions, stops, resuming, archiving, imported,
                       host, events, drafts, races>>
    BY <1>3 DEF DraftEffect, threads
  <2> QED  BY <2>1, BasicNow, BasicNext DEF BasicIs
<1>4. CASE Archive \/ ArchiveFailed
  <2>1. /\ archiving' \in {0, refs.session}
        /\ UNCHANGED <<ui, refs, submissions, draft, seen, stops, resuming, imported,
                       host, events, drafts, races>>
    BY <1>4 DEF Archive, ArchiveFailed, surface
  <2>2. archiving' \in 0 .. MaxSession
    BY <1>0, <2>1
  <2> QED  BY <2>1, <2>2, BasicNow, BasicNext DEF BasicIs
<1>5. CASE RestoreFailed
  <2>1. /\ resuming' = 0 /\ draft' = IF imported THEN "error" ELSE draft
        /\ ui' = IF imported THEN ui ELSE [ui EXCEPT !.status = "refused"]
        /\ UNCHANGED <<seen, refs, submissions, stops, archiving, imported,
                       host, events, drafts, races>>
    BY <1>5 DEF RestoreFailed
  <2>2. ui' \in Surface /\ ui'.retryable = ui.retryable
    BY <1>0, <2>1 DEF Surface, Statuses
  <2>3. draft' \in {"idle", "creating", "error"} /\ resuming' \in 0 .. MaxSession
    BY <1>0, <2>1
  <2> QED  BY <2>1, <2>2, <2>3, BasicNow, BasicNext DEF BasicIs
<1>6. ASSUME NEW ok \in BOOLEAN, NEW found \in {0, 1}, SavedThreadLoaded(ok, found)
      PROVE  Basic'
  <2> DEFINE status == IF ~ok THEN "failed" ELSE IF found = 0 THEN "none" ELSE "ready"
             thread == IF ok THEN found ELSE 0
  <2>1. /\ ui' = [ui EXCEPT !.status = status, !.thread = thread]
        /\ UNCHANGED <<seen, refs, submissions, draft, stops, resuming, archiving, imported,
                       host, events, drafts, races>>
    BY <1>6 DEF SavedThreadLoaded, threads
  <2>2. status \in Statuses /\ thread \in 0 .. MaxSession
    BY <1>0 DEF Statuses
  <2> HIDE DEF status, thread
  <2>3. ui' \in Surface /\ ui'.retryable = ui.retryable
    BY <1>0, <2>1, <2>2 DEF Surface
  <2> QED  BY <2>1, <2>3, BasicNow, BasicNext DEF BasicIs
<1> QED  BY <1>1, <1>2, <1>3, <1>4, <1>5, <1>6

LEMMA RestoredBasic ==
    ASSUME Basic, Restored
    PROVE  Basic'
<1>0. /\ ui \in Surface /\ refs \in Refs /\ 0 \in 0 .. MaxSession /\ 0 \in 0 .. MaxDraft
      /\ resuming \in 0 .. MaxSession /\ draft \in {"idle", "creating", "error"}
  BY BasicNow, Bounds DEF BasicIs
<1>1. /\ resuming' = 0
      /\ refs' = [refs EXCEPT !.session = resuming, !.accepted = {}, !.failed = {}]
      /\ ui' = [ui EXCEPT !.queued = 0, !.text = 0, !.talk = TRUE, !.status = "none",
                          !.thread = 0, !.retryable = {}]
      /\ draft' = IF draft = "error" THEN "idle" ELSE draft
      /\ Happened("switched", submissions # << >> \/ ui.active # 0 \/ ui.queued # 0)
      /\ UNCHANGED <<seen, submissions, stops, archiving, imported, host, events, drafts>>
  BY DEF Restored
<1>2. refs' \in Refs
  BY <1>0, <1>1 DEF Refs
<1>3. ui' \in Surface /\ ui'.retryable = {}
  BY <1>0, <1>1 DEF Surface, Statuses
<1>4. races' \subseteq Races
  BY <1>1, HappenedStep, BasicNow DEF BasicIs, Races
<1>5. draft' \in {"idle", "creating", "error"} /\ resuming' \in 0 .. MaxSession
  BY <1>0, <1>1
<1> QED  BY <1>1, <1>2, <1>3, <1>4, <1>5, BasicNow, BasicNext DEF BasicIs

LEMMA ArchivedBasic ==
    ASSUME Basic, Archived
    PROVE  Basic'
<1>0. /\ ui \in Surface /\ refs \in Refs /\ 0 \in 0 .. MaxSession /\ 0 \in 0 .. MaxTurn
      /\ archiving \in 0 .. MaxSession
  BY BasicNow, Bounds DEF BasicIs
<1>1. /\ archiving' = 0
      /\ refs' = [session |-> 0, completed |-> {}, accepted |-> {}, failed |-> {}]
      /\ ui' = [ui EXCEPT !.active = 0, !.cancelling = FALSE, !.talk = FALSE,
                          !.status = "ready", !.thread = archiving, !.retryable = {}]
      /\ Happened("switched", submissions # << >> \/ ui.active # 0 \/ ui.queued # 0)
      /\ UNCHANGED <<seen, submissions, draft, stops, resuming, imported, host, events, drafts>>
  BY DEF Archived
<1>2. refs' \in Refs
  BY <1>0, <1>1 DEF Refs
<1>3. ui' \in Surface /\ ui'.retryable = {}
  BY <1>0, <1>1 DEF Surface, Statuses
<1>4. races' \subseteq Races
  BY <1>1, HappenedStep, BasicNow DEF BasicIs, Races
<1> QED  BY <1>0, <1>1, <1>2, <1>3, <1>4, BasicNow, BasicNext DEF BasicIs

-----------------------------------------------------------------------------
\* The first submission, where there is one.
LEMMA FirstSubmission ==
    ASSUME Basic, submissions # << >>
    PROVE  /\ submissions[1] \in Submission /\ 1 \in DOMAIN submissions
           /\ Len(submissions) \in Nat \ {0} /\ DOMAIN submissions = 1 .. Len(submissions)
           /\ submissions[1].phase \in {"prompt", "accepted"} => submissions[1].session # 0
           /\ submissions[1].phase = "accepted" => submissions[1].turn \in DOMAIN host.turns
           /\ DOMAIN host.turns \subseteq Turn /\ 0 \notin DOMAIN host.turns
<1>1. submissions \in Seq(Submission) /\ Equipped(submissions, host.turns)
      /\ host.turns \in Seq(Taken) /\ Len(host.turns) <= MaxTurn
  BY BasicNow DEF BasicIs
<1>2. Len(submissions) \in Nat \ {0} /\ DOMAIN submissions = 1 .. Len(submissions)
  BY <1>1, EmptySeq, LenProperties
<1>3. 1 \in DOMAIN submissions
  BY <1>2
<1>4. submissions[1] \in Submission
  BY <1>1, <1>2, <1>3, ElementOfSeq
<1>5. Len(host.turns) \in Nat /\ DOMAIN host.turns = 1 .. Len(host.turns)
  BY <1>1, LenProperties
<1> QED  BY <1>1, <1>2, <1>3, <1>4, <1>5, Bounds DEF Equipped

LEMMA PromptStaleBasic ==
    ASSUME Basic, PromptStale
    PROVE  Basic'
<1>1. /\ submissions # << >> /\ Dequeue
      /\ Happened("stale", submissions[1].source = "queue")
      /\ UNCHANGED <<ui, seen, refs, stops, resuming, archiving, imported, host, events, drafts>>
  BY DEF PromptStale, threads
<1>2. /\ submissions' \in Seq(Submission) /\ draft' \in {"idle", "creating", "error"}
      /\ Equipped(submissions', host.turns)
  BY <1>1, DequeueStep, BasicNow DEF BasicIs
<1>3. races' \subseteq Races
  BY <1>1, HappenedStep, BasicNow DEF BasicIs, Races
<1> QED  BY <1>1, <1>2, <1>3, BasicNow, BasicNext DEF BasicIs

LEMMA PromptRejectedBasic ==
    ASSUME Basic, PromptRejected
    PROVE  Basic'
<1>1. /\ submissions # << >> /\ Dequeue
      /\ ui' = IF submissions[1].source = "queue"
               THEN [ui EXCEPT !.text = submissions[1].draft] ELSE ui
      /\ UNCHANGED <<seen, refs, stops, resuming, archiving, imported, host, events,
                     drafts, races>>
  BY DEF PromptRejected, threads
<1>2. /\ submissions' \in Seq(Submission) /\ draft' \in {"idle", "creating", "error"}
      /\ Equipped(submissions', host.turns)
  BY <1>1, DequeueStep, BasicNow DEF BasicIs
<1>3. submissions[1].draft \in 0 .. MaxDraft /\ ui \in Surface
  BY <1>1, FirstSubmission, Bounds, BasicNow DEF Submission, BasicIs
<1>4. ui' \in Surface /\ ui'.retryable = ui.retryable
  BY <1>1, <1>3 DEF Surface
<1> QED  BY <1>1, <1>2, <1>4, BasicNow, BasicNext DEF BasicIs

LEMMA PromptAcceptedBasic ==
    ASSUME Basic, PromptAccepted
    PROVE  LET s == submissions[1]
               t == s.turn
               retried == IF s.source = "retry" THEN {s.of} ELSE {}
           IN  /\ Basic' /\ t \in DOMAIN host.turns /\ s.phase = "accepted"
               /\ s \in Submission /\ t \in Turn
               /\ refs' = [refs EXCEPT !.accepted = (@ \cup {t}) \ retried,
                                       !.failed = @ \ {t}, !.completed = @ \ {t}]
               /\ ui' = [ui EXCEPT
                    !.talk = TRUE, !.status = "none", !.thread = 0,
                    !.text = TextOnceAccepted(s),
                    !.retryable = (IF t \in refs.failed THEN @ \cup {t} ELSE @) \ retried,
                    !.active = ActiveOnceAccepted(t)]
               /\ Dequeue
<1> DEFINE s == submissions[1]
           t == s.turn
           retried == IF s.source = "retry" THEN {s.of} ELSE {}
           text == TextOnceAccepted(s)
           active == ActiveOnceAccepted(t)
           failed == IF t \in refs.failed THEN ui.retryable \cup {t} ELSE ui.retryable
<1>1. /\ submissions # << >> /\ s.phase = "accepted" /\ Dequeue
      /\ refs' = [refs EXCEPT !.accepted = (@ \cup {t}) \ retried,
                              !.failed = @ \ {t}, !.completed = @ \ {t}]
      /\ ui' = [ui EXCEPT
           !.talk = TRUE, !.status = "none", !.thread = 0, !.text = text,
           !.retryable = failed \ retried, !.active = active]
      /\ UNCHANGED <<seen, stops, resuming, archiving, imported, host, events, drafts, races>>
  BY DEF PromptAccepted, threads
<1>2. /\ submissions' \in Seq(Submission) /\ draft' \in {"idle", "creating", "error"}
      /\ Equipped(submissions', host.turns)
  BY <1>1, DequeueStep, BasicNow DEF BasicIs
<1>3. s \in Submission /\ t \in DOMAIN host.turns /\ t \in Turn
  BY <1>1, FirstSubmission
<1>4. ui \in Surface /\ refs \in Refs /\ ui.retryable \subseteq DOMAIN host.turns
      /\ 0 \in 0 .. MaxDraft /\ 0 \in 0 .. MaxSession
  BY BasicNow, Bounds DEF BasicIs
<1>5. text \in 0 .. MaxDraft
  BY <1>4 DEF TextOnceAccepted, Surface
<1>6. active \in 0 .. MaxTurn
  BY <1>3, <1>4, Bounds DEF ActiveOnceAccepted, Surface
<1>7. failed \ retried \subseteq DOMAIN host.turns /\ failed \ retried \in SUBSET Turn
  BY <1>3, <1>4 DEF Surface
<1> HIDE DEF text, active, failed, retried, s, t
<1>8. ui' \in Surface /\ ui'.retryable = failed \ retried
  BY <1>1, <1>4, <1>5, <1>6, <1>7 DEF Surface, Statuses
<1>9. refs' \in Refs
  BY <1>1, <1>3, <1>4 DEF Refs
<1>10. Basic'
  BY <1>1, <1>2, <1>7, <1>8, <1>9, BasicNow, BasicNext DEF BasicIs
<1> QED  BY <1>1, <1>3, <1>10 DEF text, active, failed, retried, s, t

\* promptAgent at the host: the turn is new there.
LEMMA HostTakesBasic ==
    ASSUME Basic, HostTakesPrompt(TRUE)
    PROVE  LET n == Len(host.turns) + 1
               s == submissions[1]
           IN  /\ Basic' /\ s \in Submission /\ s.phase = "prompt" /\ ~Busy(s.session)
               /\ submissions # << >>
               /\ submissions' = [submissions EXCEPT ![1].phase = "accepted", ![1].turn = n]
               /\ Len(submissions') = Len(submissions) /\ DOMAIN submissions' = DOMAIN submissions
               /\ submissions'[1] = [s EXCEPT !.phase = "accepted", !.turn = n]
               /\ \A k \in DOMAIN submissions : k # 1 => submissions'[k] = submissions[k]
               /\ n \in Turn /\ n \notin DOMAIN host.turns
               /\ DOMAIN host'.turns = DOMAIN host.turns \cup {n}
               /\ \A k \in DOMAIN host.turns : host'.turns[k] = host.turns[k]
               /\ host'.turns[n] = [draft |-> s.draft, session |-> s.session, of |-> s.of]
               /\ host'.running = host.running \cup {n}
<1> DEFINE n == Len(host.turns) + 1
           s == submissions[1]
           taken == [draft |-> s.draft, session |-> s.session, of |-> s.of]
           new == [s EXCEPT !.phase = "accepted", !.turn = n]
<1>1. /\ submissions # << >> /\ s.phase = "prompt" /\ ~Busy(s.session) /\ n <= MaxTurn
      /\ host' = [host EXCEPT !.turns = Append(@, taken), !.running = @ \cup {n}]
      /\ submissions' = [submissions EXCEPT ![1].phase = "accepted", ![1].turn = n]
      /\ UNCHANGED <<ui, seen, refs, draft, stops, resuming, archiving, imported, events,
                     drafts, races>>
  BY DEF HostTakesPrompt, threads
<1>2. /\ submissions \in Seq(Submission) /\ host.turns \in Seq(Taken)
      /\ host.running \subseteq DOMAIN host.turns /\ host.sessions \in Session
      /\ Equipped(submissions, host.turns)
      /\ host = [turns |-> host.turns, running |-> host.running, sessions |-> host.sessions]
      /\ \A k \in DOMAIN events : events[k].turn \in DOMAIN host.turns
      /\ ui.retryable \subseteq DOMAIN host.turns
  BY BasicNow DEF BasicIs
<1>3. s \in Submission /\ 1 \in DOMAIN submissions /\ s.session # 0
      /\ Len(submissions) \in Nat /\ DOMAIN submissions = 1 .. Len(submissions)
  BY <1>1, FirstSubmission
<1>4. taken \in Taken
  BY <1>3, Bounds DEF Taken, Submission
<1>5. n \in Turn /\ n \notin DOMAIN host.turns /\ DOMAIN host.turns = 1 .. n - 1 /\ n - 1 = Len(host.turns)
  BY <1>1, <1>2, LenProperties, Bounds
<1>6. new \in Submission /\ new.phase = "accepted" /\ new.turn = n /\ new.session = s.session
  <2>1. s \in Submission /\ n \in 0 .. MaxTurn
    BY <1>3, <1>5, Bounds
  <2> HIDE DEF s, n
  <2> QED  BY <2>1 DEF Submission
<1>7. /\ host'.turns = Append(host.turns, taken) /\ host'.running = host.running \cup {n}
      /\ host'.sessions = host.sessions
      /\ host' = [turns |-> host'.turns, running |-> host'.running, sessions |-> host'.sessions]
  BY <1>1, <1>2
<1>8. submissions' = [submissions EXCEPT ![1] = new]
  BY <1>1, <1>3
<1> HIDE DEF new, taken
<1>9. /\ host'.turns \in Seq(Taken) /\ Len(host'.turns) = n
      /\ \A k \in DOMAIN host.turns : host'.turns[k] = host.turns[k]
      /\ host'.turns[n] = taken
  <2>1. /\ Append(host.turns, taken) \in Seq(Taken)
        /\ Len(Append(host.turns, taken)) = Len(host.turns) + 1
        /\ \A k \in 1 .. Len(host.turns) : Append(host.turns, taken)[k] = host.turns[k]
        /\ Append(host.turns, taken)[Len(host.turns) + 1] = taken
    BY <1>2, <1>4, AppendProperties
  <2> QED  BY <1>5, <1>7, <2>1
<1> HIDE DEF n
<1>10. DOMAIN host'.turns = DOMAIN host.turns \cup {n}
  <2>1. DOMAIN host'.turns = 1 .. n
    BY <1>9, LenProperties
  <2> QED  BY <1>5, <2>1, Bounds
<1>11. /\ submissions' \in Seq(Submission) /\ Len(submissions') = Len(submissions)
       /\ DOMAIN submissions' = DOMAIN submissions
       /\ submissions'[1] = new
       /\ \A k \in DOMAIN submissions : k # 1 => submissions'[k] = submissions[k]
  <2>1. /\ [submissions EXCEPT ![1] = new] \in Seq(Submission)
        /\ Len([submissions EXCEPT ![1] = new]) = Len(submissions)
        /\ \A k \in 1 .. Len(submissions) :
              [submissions EXCEPT ![1] = new][k] = IF k = 1 THEN new ELSE submissions[k]
    BY <1>2, <1>3, <1>6, ExceptSeq
  <2>2. DOMAIN submissions' = DOMAIN submissions
    BY <1>8
  <2> QED  BY <1>3, <1>8, <2>1, <2>2
<1>12. Equipped(submissions', host'.turns)
  <2> SUFFICES ASSUME NEW k \in DOMAIN submissions
               PROVE  /\ submissions'[k].phase \in {"prompt", "accepted"} => submissions'[k].session # 0
                      /\ submissions'[k].phase = "accepted" => submissions'[k].turn \in DOMAIN host'.turns
    BY <1>11 DEF Equipped
  <2>1. CASE k = 1
    BY <1>3, <1>6, <1>10, <1>11, <2>1
  <2>2. CASE k # 1
    BY <1>2, <1>10, <1>11, <2>2 DEF Equipped
  <2> QED  BY <2>1, <2>2
<1>13. /\ host'.running \subseteq DOMAIN host'.turns /\ Len(host'.turns) <= MaxTurn
       /\ \A k \in DOMAIN events : events[k].turn \in DOMAIN host'.turns
       /\ ui.retryable \subseteq DOMAIN host'.turns
  BY <1>1, <1>2, <1>7, <1>9, <1>10
<1>14. Basic'
  BY <1>1, <1>2, <1>7, <1>9, <1>11, <1>12, <1>13, BasicNow, BasicNext DEF BasicIs
<1> QED  BY <1>1, <1>3, <1>5, <1>7, <1>9, <1>10, <1>11, <1>14 DEF n, new, taken

LEMMA HostRefusesBasic ==
    ASSUME Basic, HostTakesPrompt(FALSE)
    PROVE  /\ Basic' /\ submissions # << >> /\ submissions[1].phase = "prompt"
           /\ Len(submissions') = Len(submissions) /\ DOMAIN submissions' = DOMAIN submissions
           /\ submissions'[1] = [submissions[1] EXCEPT !.phase = "rejected"]
           /\ \A k \in DOMAIN submissions : k # 1 => submissions'[k] = submissions[k]
<1> DEFINE s == submissions[1]
           new == [s EXCEPT !.phase = "rejected"]
<1>1. /\ submissions # << >> /\ s.phase = "prompt"
      /\ submissions' = [submissions EXCEPT ![1].phase = "rejected"]
      /\ UNCHANGED <<ui, seen, refs, draft, stops, resuming, archiving, imported, host, events,
                     drafts, races>>
  BY DEF HostTakesPrompt, threads
<1>2. submissions \in Seq(Submission) /\ Equipped(submissions, host.turns)
  BY BasicNow DEF BasicIs
<1>3. s \in Submission /\ 1 \in DOMAIN submissions
      /\ Len(submissions) \in Nat /\ DOMAIN submissions = 1 .. Len(submissions)
  BY <1>1, FirstSubmission
<1>6. new \in Submission /\ new.phase = "rejected"
  BY <1>3 DEF Submission
<1>8. submissions' = [submissions EXCEPT ![1] = new]
  BY <1>1, <1>3
<1> HIDE DEF new
<1>11. /\ submissions' \in Seq(Submission) /\ Len(submissions') = Len(submissions)
       /\ DOMAIN submissions' = DOMAIN submissions
       /\ submissions'[1] = new
       /\ \A k \in DOMAIN submissions : k # 1 => submissions'[k] = submissions[k]
  <2>1. /\ [submissions EXCEPT ![1] = new] \in Seq(Submission)
        /\ Len([submissions EXCEPT ![1] = new]) = Len(submissions)
        /\ \A k \in 1 .. Len(submissions) :
              [submissions EXCEPT ![1] = new][k] = IF k = 1 THEN new ELSE submissions[k]
    BY <1>2, <1>3, <1>6, ExceptSeq
  <2>2. DOMAIN submissions' = DOMAIN submissions
    BY <1>8
  <2> QED  BY <1>3, <1>8, <2>1, <2>2
<1>12. Equipped(submissions', host.turns)
  BY <1>2, <1>6, <1>11 DEF Equipped
<1>14. Basic'
  BY <1>1, <1>11, <1>12, BasicNow, BasicNext DEF BasicIs
<1> QED  BY <1>1, <1>11, <1>14 DEF new

-----------------------------------------------------------------------------
LEMMA TurnEndsBasic ==
    ASSUME Basic, NEW t \in host.running, NEW failed \in BOOLEAN, TurnEnds(t, failed)
    PROVE  /\ Basic' /\ host'.turns = host.turns /\ host'.running = host.running \ {t}
           /\ Emitted' = Emitted \cup {t}
<1> DEFINE e == [turn |-> t, failed |-> failed]
           n == Len(events)
<1>1. /\ host' = [host EXCEPT !.running = @ \ {t}] /\ events' = Append(events, e)
      /\ UNCHANGED <<ui, refs, submissions, draft, seen, stops, resuming, archiving, imported,
                     drafts, races>>
  BY DEF TurnEnds, surface, threads
<1>2. /\ events \in Seq(Ending) /\ t \in DOMAIN host.turns /\ host.turns \in Seq(Taken)
      /\ host.running \subseteq DOMAIN host.turns /\ Len(host.turns) <= MaxTurn
      /\ host = [turns |-> host.turns, running |-> host.running, sessions |-> host.sessions]
      /\ \A k \in DOMAIN events : events[k].turn \in DOMAIN host.turns
  BY BasicNow DEF BasicIs
<1>3. t \in Turn
  BY <1>2, LenProperties, Bounds
<1>4. e \in Ending /\ e.turn = t
  BY <1>3 DEF Ending
<1>5. /\ host'.turns = host.turns /\ host'.running = host.running \ {t}
      /\ host'.sessions = host.sessions
      /\ host' = [turns |-> host'.turns, running |-> host'.running, sessions |-> host'.sessions]
  BY <1>1, <1>2
<1> HIDE DEF e
<1>6. /\ events' \in Seq(Ending) /\ Len(events') = n + 1
      /\ \A k \in 1 .. n : events'[k] = events[k]
      /\ events'[n + 1] = e
  BY <1>1, <1>2, <1>4, AppendProperties
<1>7. n \in Nat /\ DOMAIN events = 1 .. n /\ DOMAIN events' = 1 .. n + 1
  BY <1>2, <1>6, LenProperties
<1> HIDE DEF n
<1>8. \A k \in 1 .. n + 1 : k \in 1 .. n \/ k = n + 1
  BY <1>7
<1>9. \A k \in DOMAIN events' : events'[k].turn \in DOMAIN host'.turns
  BY <1>2, <1>4, <1>5, <1>6, <1>7, <1>8
<1>10. Emitted' = Emitted \cup {t}
  <2>1. ASSUME NEW x PROVE x \in Emitted' <=> x \in Emitted \/ x = t
    <3>1. x \in Emitted' <=> \E k \in 1 .. n + 1 : events'[k].turn = x
      BY <1>7 DEF Emitted
    <3>2. x \in Emitted <=> \E k \in 1 .. n : events[k].turn = x
      BY <1>7 DEF Emitted
    <3>3. n + 1 \in 1 .. n + 1 /\ \A k \in 1 .. n : k \in 1 .. n + 1
      BY <1>7
    <3> QED  BY <1>4, <1>6, <1>8, <3>1, <3>2, <3>3
  <2> QED  BY <2>1
<1>11. Basic'
  BY <1>1, <1>5, <1>6, <1>9, BasicNow, BasicNext DEF BasicIs
<1> QED  BY <1>5, <1>10, <1>11

\* The event at hand, and those that are left.
LEMMA FirstEvent ==
    ASSUME Basic, events # << >>, events' = Tail(events)
    PROVE  /\ events' \in Seq(Ending)
           /\ events[1].turn \in DOMAIN host.turns /\ events[1].turn \in Emitted
           /\ events[1].turn \in Turn /\ events[1].failed \in BOOLEAN
           /\ \A k \in DOMAIN events' : events'[k].turn \in DOMAIN host.turns
           /\ Emitted \subseteq Emitted' \cup {events[1].turn} /\ Emitted' \subseteq Emitted
<1> DEFINE n == Len(events)
<1>1. events \in Seq(Ending) /\ \A k \in DOMAIN events : events[k].turn \in DOMAIN host.turns
  BY BasicNow DEF BasicIs
<1>2. n \in Nat \ {0} /\ DOMAIN events = 1 .. n
  BY <1>1, EmptySeq, LenProperties
<1>3. /\ events' \in Seq(Ending) /\ Len(events') = n - 1
      /\ \A k \in 1 .. n - 1 : events'[k] = events[k + 1]
  BY <1>1, HeadTailProperties
<1>4. DOMAIN events' = 1 .. n - 1
  BY <1>3, LenProperties
<1>5. events[1] \in Ending
  BY <1>1, <1>2, ElementOfSeq
<1> HIDE DEF n
<1>6. \A k \in 1 .. n - 1 : k + 1 \in 1 .. n
  BY <1>2
<1>7. \A k \in 1 .. n : k = 1 \/ (k - 1 \in 1 .. n - 1 /\ (k - 1) + 1 = k)
  BY <1>2
<1>8. 1 \in 1 .. n
  BY <1>2
<1>9. \A k \in DOMAIN events' : events'[k].turn \in DOMAIN host.turns
  BY <1>1, <1>2, <1>3, <1>4, <1>6
<1>10. Emitted' \subseteq Emitted
  <2>1. ASSUME NEW k \in 1 .. n - 1 PROVE events'[k].turn \in Emitted
    <3>1. k + 1 \in DOMAIN events /\ events'[k] = events[k + 1]
      BY <1>2, <1>3, <1>6
    <3> QED  BY <3>1 DEF Emitted
  <2>2. Emitted' = {events'[k].turn : k \in 1 .. n - 1}
    BY <1>4 DEF Emitted
  <2> QED  BY <2>1, <2>2
<1>11. Emitted \subseteq Emitted' \cup {events[1].turn}
  <2>1. ASSUME NEW k \in 1 .. n, k # 1 PROVE events[k].turn \in Emitted'
    <3>1. k - 1 \in DOMAIN events' /\ events'[k - 1] = events[k]
      BY <1>3, <1>4, <1>7, <2>1
    <3> QED  BY <3>1 DEF Emitted
  <2> QED  BY <1>2, <2>1 DEF Emitted
<1>12. events[1].turn \in Emitted
  BY <1>2, <1>8 DEF Emitted
<1> QED  BY <1>1, <1>2, <1>3, <1>5, <1>8, <1>9, <1>10, <1>11, <1>12 DEF Ending

\* applyTerminalTurnEvent, as its two outcomes.
LEMMA TerminalBasic ==
    ASSUME Basic, TerminalEvent
    PROVE  LET t == events[1].turn
               failed == events[1].failed
               kept == failed /\ t \in refs.accepted
               noted == [ui EXCEPT !.retryable = IF kept THEN @ \cup {t} ELSE @]
           IN  /\ Basic' /\ events # << >> /\ events' = Tail(events)
               /\ noted \in Surface /\ TurnLeft(noted) \in Surface
               /\ noted.active = ui.active /\ noted.queued = ui.queued /\ noted.text = ui.text
               /\ UNCHANGED <<stops, host, drafts>>
               /\ \/ /\ host.turns[t].session # refs.session
                     /\ UNCHANGED <<ui, refs, submissions, draft, seen, races>>
                  \/ /\ host.turns[t].session = refs.session
                     /\ refs'.session = refs.session
                     /\ refs'.completed = refs.completed \cup {t}
                     /\ \/ /\ seen.active # t /\ ui' = noted
                           /\ UNCHANGED <<seen, submissions, draft>>
                           /\ Happened("uncommitted", ui.active = t)
                        \/ /\ seen.active = t /\ FollowUp(seen.queued, TurnLeft(noted))
                           /\ Happened("uncommitted", seen.queued # ui.queued \/ ui.active # t)
<1> DEFINE t == events[1].turn
           failed == events[1].failed
           kept == failed /\ t \in refs.accepted
           retryable == IF kept THEN ui.retryable \cup {t} ELSE ui.retryable
           noted == [ui EXCEPT !.retryable = retryable]
           failures == IF failed /\ ~kept THEN refs.failed \cup {t} ELSE refs.failed \ {t}
           accepted == IF failed THEN refs.accepted ELSE refs.accepted \ {t}
<1>1. /\ events # << >> /\ events' = Tail(events)
      /\ UNCHANGED <<stops, resuming, archiving, imported, host, drafts>>
  BY DEF TerminalEvent, threads
<1>2. \/ /\ host.turns[t].session # refs.session
         /\ UNCHANGED <<ui, refs, submissions, draft, seen, races>>
      \/ /\ host.turns[t].session = refs.session
         /\ refs' = [refs EXCEPT !.completed = @ \cup {t}, !.failed = failures,
                                 !.accepted = accepted]
         /\ \/ /\ seen.active # t /\ ui' = noted
               /\ UNCHANGED <<seen, submissions, draft>>
               /\ Happened("uncommitted", ui.active = t)
            \/ /\ seen.active = t /\ FollowUp(seen.queued, TurnLeft(noted))
               /\ Happened("uncommitted", seen.queued # ui.queued \/ ui.active # t)
  BY DEF TerminalEvent, surface
<1>3. /\ events' \in Seq(Ending) /\ t \in DOMAIN host.turns /\ t \in Turn
      /\ \A k \in DOMAIN events' : events'[k].turn \in DOMAIN host.turns
  BY <1>1, FirstEvent
<1>4. /\ ui \in Surface /\ seen \in Seen /\ refs \in Refs /\ 0 \in 0 .. MaxTurn
      /\ ui.retryable \subseteq DOMAIN host.turns
      /\ submissions \in Seq(Submission) /\ draft \in {"idle", "creating", "error"}
      /\ Equipped(submissions, host.turns) /\ races \subseteq Races
  BY BasicNow, Bounds DEF BasicIs
<1>5. retryable \subseteq DOMAIN host.turns /\ retryable \in SUBSET Turn
  BY <1>3, <1>4 DEF Surface
<1> HIDE DEF retryable
<1>6. /\ noted \in Surface /\ noted.retryable = retryable /\ noted.active = ui.active
      /\ noted.queued = ui.queued /\ noted.text = ui.text
  BY <1>4, <1>5 DEF Surface
<1> HIDE DEF noted
<1>7. TurnLeft(noted) \in Surface /\ TurnLeft(noted).retryable = retryable
  BY <1>4, <1>6 DEF TurnLeft, Surface
<1>8. failures \in SUBSET Turn /\ accepted \in SUBSET Turn
  BY <1>3, <1>4 DEF Refs
<1> HIDE DEF failures, accepted, t, failed, kept
<1>9. CASE /\ host.turns[t].session # refs.session
           /\ UNCHANGED <<ui, refs, submissions, draft, seen, races>>
  <2>1. Basic'
    BY <1>1, <1>3, <1>9, BasicNow, BasicNext DEF BasicIs
  <2> QED  BY <1>1, <1>6, <1>7, <1>9, <2>1 DEF t, failed, kept, retryable, noted
<1>10. CASE /\ host.turns[t].session = refs.session
            /\ refs' = [refs EXCEPT !.completed = @ \cup {t}, !.failed = failures,
                                    !.accepted = accepted]
            /\ \/ /\ seen.active # t /\ ui' = noted
                  /\ UNCHANGED <<seen, submissions, draft>>
                  /\ Happened("uncommitted", ui.active = t)
               \/ /\ seen.active = t /\ FollowUp(seen.queued, TurnLeft(noted))
                  /\ Happened("uncommitted", seen.queued # ui.queued \/ ui.active # t)
  <2>1. refs' \in Refs /\ refs'.session = refs.session /\ refs'.completed = refs.completed \cup {t}
    BY <1>3, <1>4, <1>8, <1>10 DEF Refs
  <2>2. races' \subseteq Races
    BY <1>4, <1>10, HappenedStep DEF Races
  <2>3. /\ ui' \in Surface /\ seen' \in Seen /\ ui'.retryable = retryable
        /\ submissions' \in Seq(Submission) /\ draft' \in {"idle", "creating", "error"}
        /\ Equipped(submissions', host.turns)
    <3>1. CASE ui' = noted /\ UNCHANGED <<seen, submissions, draft>>
      BY <1>4, <1>6, <3>1
    <3>2. CASE FollowUp(seen.queued, TurnLeft(noted))
      <4>1. seen.queued \in 0 .. MaxDraft
        BY <1>4 DEF Seen
      <4> QED  BY <1>7, <3>2, <4>1, FollowUpStep
    <3> QED  BY <1>10, <3>1, <3>2
  <2>4. Basic'
    BY <1>1, <1>3, <1>5, <2>1, <2>2, <2>3, BasicNow, BasicNext DEF BasicIs
  <2> QED  BY <1>1, <1>6, <1>7, <1>10, <2>1, <2>4 DEF t, failed, kept, retryable, noted
<1> QED  BY <1>2, <1>9, <1>10 DEF t, failed, kept, retryable, noted

LEMMA StopBasic ==
    ASSUME Basic, NEW s \in stops, StopTaken(s) \/ StopFailed(s) \/ StopOver(s)
    PROVE  Basic'
<1>0. /\ s \in StopCall /\ stops \subseteq StopCall /\ ui \in Surface /\ refs \in Refs
      /\ races \subseteq Races /\ 0 \in 0 .. MaxTurn
  BY BasicNow, Bounds DEF BasicIs
<1>1. CASE StopTaken(s)
  <2>1. /\ stops' = (stops \ {s}) \cup
                       (IF s.turn \in host.running THEN {} ELSE {[s EXCEPT !.over = TRUE]})
        /\ UNCHANGED <<ui, refs, submissions, draft, seen, resuming, archiving, imported,
                       host, events, drafts, races>>
    BY <1>1 DEF StopTaken, surface, threads
  <2>2. [s EXCEPT !.over = TRUE] \in StopCall
    BY <1>0 DEF StopCall
  <2>3. stops' \subseteq StopCall
    BY <1>0, <2>1, <2>2
  <2> QED  BY <2>1, <2>3, BasicNow, BasicNext DEF BasicIs
<1>2. CASE StopFailed(s)
  <2>1. /\ stops' = stops \ {s} /\ ui' = [ui EXCEPT !.cancelling = FALSE]
        /\ UNCHANGED <<seen, refs, submissions, draft, resuming, archiving, imported,
                       host, events, drafts, races>>
    BY <1>2 DEF StopFailed, threads
  <2>2. ui' \in Surface /\ ui'.retryable = ui.retryable
    BY <1>0, <2>1 DEF Surface
  <2>3. stops' \subseteq StopCall
    BY <1>0, <2>1
  <2> QED  BY <2>1, <2>2, <2>3, BasicNow, BasicNext DEF BasicIs
<1>3. CASE StopOver(s)
  <2>1. /\ stops' = stops \ {s} /\ refs' = [refs EXCEPT !.completed = @ \cup {s.turn}]
        /\ FollowUp(s.queued, TurnLeft(ui))
        /\ Happened("late stop", ui.active \notin {s.turn, 0} \/ ui.queued # s.queued)
        /\ UNCHANGED <<resuming, archiving, imported, host, events, drafts>>
    BY <1>3 DEF StopOver, threads
  <2>2. TurnLeft(ui) \in Surface /\ TurnLeft(ui).retryable = ui.retryable
    BY <1>0 DEF TurnLeft, Surface
  <2>3. s.turn \in Turn /\ s.queued \in 0 .. MaxDraft
    BY <1>0 DEF StopCall
  <2>4. /\ ui' \in Surface /\ seen' \in Seen /\ ui'.retryable = ui.retryable
        /\ submissions' \in Seq(Submission) /\ draft' \in {"idle", "creating", "error"}
        /\ Equipped(submissions', host.turns)
    BY <2>1, <2>2, <2>3, FollowUpStep
  <2>5. refs' \in Refs
    BY <1>0, <2>1, <2>3 DEF Refs
  <2>6. races' \subseteq Races
    BY <1>0, <2>1, HappenedStep DEF Races
  <2>7. stops' \subseteq StopCall
    BY <1>0, <2>1
  <2> QED  BY <2>1, <2>4, <2>5, <2>6, <2>7, BasicNow, BasicNext DEF BasicIs
<1> QED  BY <1>1, <1>2, <1>3

LEMMA BasicInit == Init => Basic
<1> SUFFICES ASSUME Init PROVE Basic
  OBVIOUS
<1>1. /\ 0 \in 0 .. MaxTurn /\ 0 \in 0 .. MaxDraft /\ 0 \in 0 .. MaxSession
      /\ 1 \in 0 .. MaxSession /\ 1 \in Session
  BY Bounds
<1>2. ui \in Surface /\ ui.retryable = {}
  BY <1>1 DEF Init, Surface, Statuses
<1>3. seen \in Seen /\ refs \in Refs
  BY <1>1 DEF Init, Seen, Refs
<1>4. /\ submissions = << >> /\ events = << >> /\ host.turns = << >> /\ host.running = {}
      /\ host.sessions = 1 /\ stops = {} /\ draft = "idle" /\ resuming \in 0 .. MaxSession
      /\ archiving = 0 /\ imported \in BOOLEAN /\ drafts = 0 /\ races = {}
      /\ host = [turns |-> << >>, running |-> {}, sessions |-> 1]
  BY <1>1 DEF Init
<1>5. /\ submissions \in Seq(Submission) /\ events \in Seq(Ending) /\ host.turns \in Seq(Taken)
      /\ Len(host.turns) = 0 /\ DOMAIN submissions = {} /\ DOMAIN events = {}
  BY <1>4, EmptySeq
<1>6. Equipped(submissions, host.turns)
  BY <1>5 DEF Equipped
<1>7. Len(host.turns) <= MaxTurn
  BY <1>5, Bounds
<1> QED  BY <1>1, <1>2, <1>3, <1>4, <1>5, <1>6, <1>7, BasicNow DEF BasicIs

LEMMA BasicStep == Basic /\ [Next]_vars => Basic'
<1> SUFFICES ASSUME Basic, [Next]_vars PROVE Basic'
  OBVIOUS
<1>1. CASE UserActs
  <2>1. CASE \E t \in ui.retryable : Retry(t)
    BY <2>1, RetryStep
  <2>2. CASE RetryDraft \/ Archive
    BY <2>2, ThreadBasic
  <2> QED  BY <1>1, <2>1, <2>2, ComposeBasic, UserBasic DEF UserActs
<1>2. CASE SessionCreated \/ SessionFailed
  BY <1>2, SessionCreatedBasic, SessionFailedBasic
<1>3. CASE \E accept \in BOOLEAN : HostTakesPrompt(accept)
  <2>1. HostTakesPrompt(TRUE) \/ HostTakesPrompt(FALSE)
    BY <1>3
  <2> QED  BY <2>1, HostTakesBasic, HostRefusesBasic
<1>4. CASE PromptAnswered \/ PromptStale
  BY <1>4, PromptAcceptedBasic, PromptRejectedBasic, PromptStaleBasic DEF PromptAnswered
<1>5. ASSUME NEW t \in host.running, NEW failed \in BOOLEAN, TurnEnds(t, failed) PROVE Basic'
  BY <1>5, TurnEndsBasic
<1>6. CASE TerminalEvent
  BY <1>6, TerminalBasic
<1>7. CASE StopSettles
  BY <1>7, StopBasic DEF StopSettles
<1>8. CASE \/ Render \/ DraftEffect \/ ArchiveFailed \/ RestoreFailed
           \/ \E ok \in BOOLEAN, found \in {0, 1} : SavedThreadLoaded(ok, found)
  BY <1>8, ThreadBasic
<1>9. CASE Restored \/ Archived
  BY <1>9, RestoredBasic, ArchivedBasic
<1>10. CASE UNCHANGED vars
  BY <1>10, BasicNow, BasicNext DEF vars, BasicIs
<1> QED  BY <1>1, <1>2, <1>3, <1>4, <1>5, <1>6, <1>7, <1>8, <1>9, <1>10 DEF Next

\* The conversation keeps its types, whatever overtakes what.
THEOREM TypeCorrect == Spec => []TypeOK
<1>1. Basic => TypeOK
  BY DEF Basic
<1> QED  BY <1>1, BasicInit, BasicStep, PTL DEF Spec

-----------------------------------------------------------------------------
Sending == submissions # << >>
First == submissions[1]
IsSent(d) == \E k \in DOMAIN host.turns : host.turns[k].draft = d

\* Until something is overtaken there is at most one submission, and while there
\* is one no turn is active, nothing is queued, and the handlers know that.
OneAtATime ==
    /\ Sending => /\ Len(submissions) = 1
                  /\ ui.active = 0 /\ ui.queued = 0
                  /\ seen.submitting /\ seen.active = 0 /\ seen.queued = 0
    /\ ui.active # 0 => seen.active = ui.active \/ (seen.active = 0 /\ seen.submitting)
    /\ ui.queued # 0 => ui.active # 0 /\ ui.text = 0
    /\ seen.queued # 0 => seen.queued = ui.queued

\* What the one submission carries, and where.
Carried ==
    Sending =>
        /\ First.phase # "waiting"
        /\ First.source = "composer" => ui.text = First.draft
        /\ First.source = "queue" => ui.text = 0
        /\ First.source = "retry" => First.of \in DOMAIN host.turns
                                     /\ host.turns[First.of].draft = First.draft
        /\ First.phase \in {"prompt", "accepted"} => First.session = refs.session
        /\ First.phase # "accepted" => First.turn = 0
        /\ First.phase = "accepted" =>
              /\ First.turn \in DOMAIN host.turns
              /\ host.turns[First.turn].draft = First.draft
              /\ host.turns[First.turn].session = refs.session
              /\ First.turn \in host.running \cup Emitted \cup refs.completed

\* Running turns are the active one or the one whose acceptance is on its way,
\* and what is known to be over is over.
Running ==
    /\ ui.active # 0 => /\ ui.active \in DOMAIN host.turns
                        /\ host.turns[ui.active].session = refs.session
                        /\ ui.active \in host.running \cup Emitted
    /\ \A t \in host.running : t = ui.active \/ (Sending /\ t = First.turn)
    /\ seen.active \in {0} \cup DOMAIN host.turns
    /\ \A t \in refs.completed \cup Emitted : t \in DOMAIN host.turns /\ t \notin host.running
    /\ \A s \in stops : s.turn \in DOMAIN host.turns /\ (s.over => s.turn \notin host.running)

\* Prompts are numbered as they are written, and a number is sent once.
Numbered ==
    /\ ui.text <= drafts /\ ui.queued <= drafts
    /\ Sending => First.draft <= drafts
    /\ \A k \in DOMAIN host.turns : host.turns[k].draft <= drafts
    /\ \A j, k \in DOMAIN host.turns :
          host.turns[j].draft = host.turns[k].draft =>
              j = k \/ host.turns[j].of # 0 \/ host.turns[k].of # 0
    /\ ui.queued # 0 => ~IsSent(ui.queued)
    /\ ui.text # 0 /\ IsSent(ui.text) =>
          Sending /\ First.source = "composer" /\ First.phase = "accepted"
    /\ Sending /\ First.source # "retry" /\ First.phase # "accepted" => ~IsSent(First.draft)

Untroubled == OneAtATime /\ Carried /\ Running /\ Numbered
Inv == Basic /\ (races = {} => Untroubled)

\* Where the prompt d can be.
Placed(d) == d = ui.text \/ d = ui.queued \/ (Sending /\ d = First.draft) \/ IsSent(d)
Kept == \A d : d # 0 /\ Placed(d) => Placed(d)'

LEMMA Quiet ==
    ASSUME NEW race, NEW when, Happened(race, when), races' = {}
    PROVE  ~when /\ races = {}
BY DEF Happened

LEMMA HostParts ==
    ASSUME Basic
    PROVE  /\ host.running \subseteq DOMAIN host.turns
           /\ 0 \notin DOMAIN host.turns /\ DOMAIN host.turns \subseteq Turn
           /\ \A k \in DOMAIN host.turns : /\ host.turns[k].draft \in Nat \ {0}
                                           /\ host.turns[k].session \in Nat \ {0}
           /\ ui \in Surface /\ seen \in Seen /\ refs \in Refs
           /\ ui.text \in Nat /\ ui.queued \in Nat /\ ui.active \in Nat /\ drafts \in Nat
           /\ seen.queued \in Nat /\ seen.active \in Nat /\ refs.session \in Nat
           /\ stops \subseteq StopCall
<1>1. /\ host.turns \in Seq(Taken) /\ host.running \subseteq DOMAIN host.turns
      /\ Len(host.turns) <= MaxTurn /\ ui \in Surface /\ seen \in Seen /\ refs \in Refs
      /\ drafts \in 0 .. MaxDraft /\ stops \subseteq StopCall
  BY BasicNow DEF BasicIs
<1>2. DOMAIN host.turns = 1 .. Len(host.turns) /\ Len(host.turns) \in Nat
  BY <1>1, LenProperties
<1>3. \A k \in DOMAIN host.turns : host.turns[k] \in Taken
  BY <1>1, <1>2, ElementOfSeq
<1>4. \A k \in DOMAIN host.turns : /\ host.turns[k].draft \in Nat \ {0}
                                   /\ host.turns[k].session \in Nat \ {0}
  BY <1>3, Bounds DEF Taken
<1>5. 0 \notin DOMAIN host.turns /\ DOMAIN host.turns \subseteq Turn
  BY <1>1, <1>2, Bounds
<1>6. /\ ui.text \in Nat /\ ui.queued \in Nat /\ ui.active \in Nat /\ drafts \in Nat
      /\ seen.queued \in Nat /\ seen.active \in Nat /\ refs.session \in Nat
  BY <1>1, Bounds DEF Surface, Seen, Refs
<1> QED  BY <1>1, <1>4, <1>5, <1>6

\* What the handlers read after a commit is what was set.
LEMMA Committed ==
    ASSUME Commit
    PROVE  /\ seen'.active = ui'.active /\ seen'.queued = ui'.queued
           /\ seen'.submitting = Sending'
BY DEF Commit, Latest, Sending

\* A submission that is the only one.
LEMMA Enqueued ==
    ASSUME Basic, ~Sending, NEW d \in Draft, NEW source \in Source, NEW of \in 0 .. MaxTurn,
           Enqueue(d, source, of)
    PROVE  /\ Sending' /\ Len(submissions') = 1
           /\ First'.draft = d /\ First'.source = source /\ First'.of = of /\ First'.turn = 0
           /\ First'.phase \in {"prompt", "session", "draft"}
           /\ First'.phase = "prompt" => First'.session = refs.session
<1>1. submissions' # << >> /\ Len(submissions') = 1
      /\ submissions'[1] = Begun(New(d, source, of))
  BY EnqueueStep, BasicNow DEF Sending, BasicIs
<1>2. refs \in Refs
  BY HostParts
<1>3. New(d, source, of) \in Submission
  BY NewType
<1>4. New(d, source, of).turn = 0 /\ New(d, source, of).draft = d
      /\ New(d, source, of).source = source /\ New(d, source, of).of = of
  BY DEF New
<1> QED  BY <1>1, <1>2, <1>3, <1>4, BegunStep DEF Sending, First

LEMMA Dequeued ==
    ASSUME Basic, Sending, OneAtATime, Dequeue
    PROVE  ~Sending'
BY DequeueStep, BasicNow DEF BasicIs, OneAtATime, Sending

\* Steps in which nothing of the conversation moves, but for what is committed
\* and for the calls to stop.
LEMMA StillQuiet ==
    ASSUME Basic, Untroubled,
           ui'.active = ui.active, ui'.queued = ui.queued, ui'.text = ui.text,
           seen' = seen \/ Commit,
           UNCHANGED <<submissions, refs, host, events, drafts>>,
           \A s \in stops' : s.turn \in DOMAIN host.turns /\ (s.over => s.turn \notin host.running)
    PROVE  Untroubled' /\ Kept
<1>1. /\ Sending' = Sending /\ First' = First /\ Len(submissions') = Len(submissions)
      /\ Emitted' = Emitted /\ \A d : IsSent(d)' = IsSent(d)
  BY DEF Sending, First, Emitted, IsSent
<1>2. \/ seen' = seen
      \/ seen'.active = ui.active /\ seen'.queued = ui.queued /\ seen'.submitting = Sending
  BY <1>1, Committed
<1>3. OneAtATime'
  BY <1>1, <1>2 DEF OneAtATime, Untroubled
<1>4. Carried'
  BY <1>1 DEF Carried, Untroubled
<1>5. Running'
  BY <1>1, <1>2 DEF Running, Untroubled
<1>6. Numbered'
  BY <1>1 DEF Numbered, Untroubled, IsSent
<1>7. Kept
  BY <1>1 DEF Kept, Placed, IsSent
<1> QED  BY <1>3, <1>4, <1>5, <1>6, <1>7 DEF Untroubled

\* Edit takes the follow-up back into the composer, Remove gives it up.
LEMMA EditQuiet ==
    ASSUME Basic, Untroubled, EditQueued
    PROVE  Untroubled' /\ Kept
<1>1. /\ ui \in Surface /\ ui.queued \in Nat /\ seen.queued \in Nat
      /\ \A k \in DOMAIN host.turns : host.turns[k].draft \in Nat \ {0}
  BY HostParts
<1>2. seen.queued # 0 /\ ui' = [ui EXCEPT !.text = seen.queued, !.queued = 0]
      /\ UNCHANGED <<submissions, refs, host, events, stops, drafts>> /\ Commit
  BY DEF EditQueued
<1>3. ui'.active = ui.active /\ ui'.queued = 0 /\ ui'.text = seen.queued
  BY <1>1, <1>2 DEF Surface
<1>4. /\ seen.queued = ui.queued /\ ui.active # 0 /\ ui.text = 0 /\ ~Sending
  BY <1>2 DEF Untroubled, OneAtATime
<1>5. /\ ~Sending' /\ Emitted' = Emitted /\ \A d : IsSent(d)' = IsSent(d)
  BY <1>2, <1>4 DEF Sending, Emitted, IsSent
<1>6. seen'.active = ui.active /\ seen'.queued = 0 /\ seen'.submitting = FALSE
  BY <1>2, <1>3, <1>5, Committed
<1>7. OneAtATime'
  BY <1>3, <1>5, <1>6 DEF OneAtATime
<1>8. Carried'
  BY <1>5 DEF Carried
<1>9. Running'
  BY <1>2, <1>3, <1>4, <1>5, <1>6 DEF Running, Untroubled
<1>10. Numbered'
  BY <1>1, <1>2, <1>3, <1>4, <1>5 DEF Numbered, Untroubled
<1>11. Kept
  BY <1>2, <1>3, <1>4, <1>5 DEF Kept, Placed
<1> QED  BY <1>7, <1>8, <1>9, <1>10, <1>11 DEF Untroubled

LEMMA RemoveQuiet ==
    ASSUME Basic, Untroubled, RemoveQueued
    PROVE  Untroubled'
<1>1. /\ ui \in Surface /\ ui.queued \in Nat /\ seen.queued \in Nat
      /\ \A k \in DOMAIN host.turns : host.turns[k].draft \in Nat \ {0}
  BY HostParts
<1>2. seen.queued # 0 /\ ui' = [ui EXCEPT !.queued = 0]
      /\ UNCHANGED <<submissions, refs, host, events, stops, drafts>> /\ Commit
  BY DEF RemoveQueued
<1>3. ui'.active = ui.active /\ ui'.queued = 0 /\ ui'.text = ui.text
  BY <1>1, <1>2 DEF Surface
<1>4. /\ seen.queued = ui.queued /\ ui.active # 0 /\ ui.text = 0 /\ ~Sending
  BY <1>2 DEF Untroubled, OneAtATime
<1>5. /\ ~Sending' /\ Emitted' = Emitted /\ \A d : IsSent(d)' = IsSent(d)
  BY <1>2, <1>4 DEF Sending, Emitted, IsSent
<1>6. seen'.active = ui.active /\ seen'.queued = 0 /\ seen'.submitting = FALSE
  BY <1>2, <1>3, <1>5, Committed
<1>7. OneAtATime'
  BY <1>3, <1>5, <1>6 DEF OneAtATime
<1>8. Carried'
  BY <1>5 DEF Carried
<1>9. Running'
  BY <1>2, <1>3, <1>4, <1>5, <1>6 DEF Running, Untroubled
<1>10. Numbered'
  BY <1>1, <1>2, <1>3, <1>4, <1>5 DEF Numbered, Untroubled
<1> QED  BY <1>7, <1>8, <1>9, <1>10 DEF Untroubled

\* A submission starts while none is under way and no turn is active: the state
\* s is set beside, and the prompt d is in the composer, was queued, or is retried.
LEMMA SubmitQuiet ==
    ASSUME Basic, Untroubled, ~Sending,
           NEW d \in Draft, NEW source \in Source, NEW of \in 0 .. MaxTurn,
           Enqueue(d, source, of), Commit,
           ui' \in Surface, ui'.active = 0, ui'.queued = 0,
           UNCHANGED <<host, drafts>> \/ (UNCHANGED host /\ drafts' = drafts + 1),
           refs'.session = refs.session,
           refs'.completed \subseteq DOMAIN host.turns, refs'.completed \cap host.running = {},
           Emitted' \subseteq Emitted, stops' \subseteq stops,
           host.running = {},
           source = "retry" => of \in DOMAIN host.turns /\ host.turns[of].draft = d
                               /\ ui'.text = ui.text,
           source # "retry" => ~IsSent(d) /\ d <= drafts',
           source = "composer" => ui'.text = d,
           source = "queue" => ui'.text = 0
    PROVE  Untroubled'
<1>1. /\ refs.session \in Nat /\ drafts \in Nat
      /\ DOMAIN host.turns \subseteq Turn /\ 0 \notin DOMAIN host.turns
      /\ \A k \in DOMAIN host.turns : host.turns[k].draft \in Nat \ {0}
      /\ ui.text \in Nat
  BY HostParts
<1>2. /\ Sending' /\ Len(submissions') = 1
      /\ First'.draft = d /\ First'.source = source /\ First'.of = of /\ First'.turn = 0
      /\ First'.phase \in {"prompt", "session", "draft"}
      /\ First'.phase = "prompt" => First'.session = refs.session
  BY Enqueued
<1>3. seen'.active = 0 /\ seen'.queued = 0 /\ seen'.submitting = TRUE
  BY <1>2, Committed
<1>4. host' = host /\ drafts \in Nat /\ drafts' \in Nat /\ drafts <= drafts'
  BY <1>1
<1>5. \A e : IsSent(e)' = IsSent(e)
  BY <1>4 DEF IsSent
<1>6. OneAtATime'
  BY <1>2, <1>3 DEF OneAtATime
<1>7. Carried'
  BY <1>2, <1>4 DEF Carried
<1>8. Running'
  BY <1>3, <1>4 DEF Running, Untroubled
<1>9. d \in Nat /\ (IsSent(d) => d <= drafts') /\ (IsSent(ui.text) => ui.text <= drafts')
      /\ ui.text <= drafts'
  <2>1. d \in Nat /\ ui.text <= drafts
    BY Bounds DEF Untroubled, Numbered
  <2>2. \A k \in DOMAIN host.turns : host.turns[k].draft <= drafts
    BY DEF Untroubled, Numbered
  <2>3. \A k \in DOMAIN host.turns : host.turns[k].draft <= drafts'
    BY <2>2, <1>1, <1>4
  <2> QED  BY <2>1, <2>3, <1>1, <1>4 DEF IsSent
<1>10. d <= drafts'
  BY <1>9 DEF IsSent
<1>11. /\ ui'.text <= drafts' /\ ui'.queued <= drafts'
       /\ First'.draft <= drafts'
       /\ \A k \in DOMAIN host'.turns : host'.turns[k].draft <= drafts'
  <2>1. ui'.text = d \/ ui'.text = ui.text \/ ui'.text = 0
    BY DEF Source
  <2>2. ui'.text <= drafts' /\ 0 <= drafts'
    BY <2>1, <1>4, <1>9, <1>10
  <2>3. \A k \in DOMAIN host.turns : host.turns[k].draft <= drafts
    BY DEF Untroubled, Numbered
  <2>4. \A k \in DOMAIN host.turns : host.turns[k].draft <= drafts'
    BY <2>3, <1>1, <1>4
  <2> QED  BY <2>2, <2>4, <1>2, <1>4, <1>10
<1>12. ui'.text # 0 => ~IsSent(ui'.text)
  BY DEF Untroubled, Numbered, Source
<1>13. Numbered'
  BY <1>2, <1>4, <1>5, <1>11, <1>12 DEF Numbered, Untroubled
<1> QED  BY <1>6, <1>7, <1>8, <1>13 DEF Untroubled

\* Nothing runs while no turn is active and no prompt is under way.
LEMMA NothingRuns ==
    ASSUME Basic, Untroubled, ~Sending, ui.active = 0
    PROVE  host.running = {} /\ ui.queued = 0
<1>1. host.running \subseteq DOMAIN host.turns /\ 0 \notin DOMAIN host.turns
  BY HostParts
<1>2. \A t \in host.running : t = 0
  BY DEF Untroubled, Running
<1>3. ui.queued = 0
  BY DEF Untroubled, OneAtATime
<1> QED  BY <1>1, <1>2, <1>3

\* What a handler sees when it finds no turn active and no submission.
LEMMA HandlerSeesIdle ==
    ASSUME Untroubled, seen.active = 0, ~seen.submitting
    PROVE  ui.active = 0 /\ ui.queued = 0 /\ ~Sending
BY DEF Untroubled, OneAtATime

LEMMA Fresh ==
    ASSUME Basic, Untroubled
    PROVE  ~IsSent(drafts + 1)
<1>1. drafts \in Nat /\ \A k \in DOMAIN host.turns : host.turns[k].draft \in Nat
  BY HostParts
<1>2. \A k \in DOMAIN host.turns : host.turns[k].draft <= drafts
  BY DEF Untroubled, Numbered
<1>3. \A k \in DOMAIN host.turns : host.turns[k].draft # drafts + 1
  BY <1>1, <1>2
<1> QED  BY <1>3 DEF IsSent

\* The prompt Compose takes.
LEMMA Composed ==
    ASSUME Basic, Untroubled, ~Sending, Compose
    PROVE  LET d == IF ui.text # 0 THEN ui.text ELSE drafts + 1
           IN  /\ d \in Draft /\ ~IsSent(d) /\ d <= drafts'
               /\ drafts' = drafts \/ drafts' = drafts + 1
               /\ (ui.text # 0 => d = ui.text)
<1> DEFINE d == IF ui.text # 0 THEN ui.text ELSE drafts + 1
<1>1. d <= MaxDraft /\ drafts' = IF ui.text # 0 THEN drafts ELSE d
  BY DEF Compose
<1>2. ui.text \in Nat /\ drafts \in Nat /\ MaxDraft \in Nat /\ Draft = 1 .. MaxDraft
  BY HostParts, Bounds
<1>3. ui.text <= drafts
  BY DEF Untroubled, Numbered
<1>4. d \in Draft /\ d <= drafts' /\ (drafts' = drafts \/ drafts' = drafts + 1)
  BY <1>1, <1>2, <1>3
<1>5. ~IsSent(d)
  <2>1. CASE ui.text # 0
    BY <2>1 DEF Untroubled, Numbered
  <2>2. CASE ui.text = 0
    BY <2>2, Fresh
  <2> QED  BY <2>1, <2>2
<1> QED  BY <1>4, <1>5

LEMMA ComposeQuiet ==
    ASSUME Basic, Basic', Untroubled, Compose, races' = {}
    PROVE  Untroubled' /\ Kept
<1> DEFINE d == IF ui.text # 0 THEN ui.text ELSE drafts + 1
<1>0. UNCHANGED <<refs, stops, host, events>> /\ Emitted' = Emitted
      /\ ui \in Surface /\ ui' \in Surface
  BY HostParts, BasicNext DEF Compose, Emitted, BasicIs
<1>1. ~Sending
  BY DEF Compose, Untroubled, OneAtATime
<1>2. d \in Draft /\ ~IsSent(d) /\ d <= drafts' /\ (drafts' = drafts \/ drafts' = drafts + 1)
      /\ (ui.text # 0 => d = ui.text)
  BY <1>1, Composed
<1> HIDE DEF d
<1>3. CASE seen.active = 0
  <2>1. ui' = [ui EXCEPT !.text = d] /\ Enqueue(d, "composer", 0) /\ Commit
    BY <1>3 DEF Compose, d
  <2>2. ui.active = 0 /\ ui.queued = 0
    BY <1>3, HandlerSeesIdle DEF Compose
  <2>3. host.running = {}
    BY <1>1, <2>2, NothingRuns
  <2>4. ui'.active = 0 /\ ui'.queued = 0 /\ ui'.text = d
    BY <1>0, <2>1, <2>2 DEF Surface
  <2>5. refs.completed \subseteq DOMAIN host.turns
    BY DEF Untroubled, Running
  <2>6. "composer" \in Source /\ 0 \in 0 .. MaxTurn
    BY Bounds DEF Source
  <2>7. Untroubled'
    BY <1>0, <1>1, <1>2, <2>1, <2>3, <2>4, <2>5, <2>6, SubmitQuiet
  <2>8. Kept
    BY <1>0, <1>1, <1>2, <2>2, <2>4 DEF Kept, Placed, IsSent
  <2> QED  BY <2>7, <2>8
<1>4. CASE seen.active # 0
  <2>1. ui' = [ui EXCEPT !.queued = d, !.text = 0] /\ UNCHANGED <<seen, submissions, draft>>
        /\ Happened("uncommitted", ui.active # seen.active \/ ui.queued # 0)
    BY <1>4 DEF Compose, d
  <2>2. ui.active = seen.active /\ ui.queued = 0
    BY <2>1, Quiet
  <2>3. ui'.active = ui.active /\ ui'.queued = d /\ ui'.text = 0
    BY <1>0, <2>1 DEF Surface
  <2>4. ~Sending' /\ (\A e : IsSent(e)' = IsSent(e))
    BY <1>0, <1>1, <2>1 DEF Sending, IsSent
  <2>5. seen.queued = 0
    BY DEF Compose
  <2>6. OneAtATime'
    BY <1>4, <2>1, <2>2, <2>3, <2>4, <2>5 DEF OneAtATime
  <2>7. Carried'
    BY <2>4 DEF Carried
  <2>8. Running'
    BY <1>0, <1>1, <2>1, <2>3, <2>4 DEF Running, Untroubled
  <2>9. \A k \in DOMAIN host'.turns : host'.turns[k].draft <= drafts'
    <3>1. drafts \in Nat /\ \A k \in DOMAIN host.turns : host.turns[k].draft \in Nat
      BY HostParts
    <3>2. \A k \in DOMAIN host.turns : host.turns[k].draft <= drafts
      BY DEF Untroubled, Numbered
    <3>3. host' = host
      BY <1>0
    <3>4. drafts' = drafts \/ drafts' = drafts + 1
      BY <1>2
    <3>5. drafts <= drafts' /\ drafts' \in Nat
      BY <3>1, <3>4
    <3> QED  BY <3>1, <3>2, <3>3, <3>5
  <2>10. 0 <= drafts' /\ d <= drafts'
    BY <1>2, HostParts
  <2>11. Numbered'
    BY <1>0, <1>2, <2>3, <2>4, <2>9, <2>10 DEF Numbered, Untroubled
  <2>12. Kept
    BY <1>1, <1>2, <2>2, <2>3, <2>4 DEF Kept, Placed
  <2> QED  BY <2>6, <2>7, <2>8, <2>11, <2>12 DEF Untroubled
<1> QED  BY <1>3, <1>4

LEMMA RetryQuiet ==
    ASSUME Basic, Untroubled, NEW t, t \in ui.retryable, Retry(t)
    PROVE  Untroubled' /\ Kept
<1>1. t \in DOMAIN host.turns /\ host.turns[t].draft \in Draft /\ t \in 0 .. MaxTurn
      /\ "retry" \in Source
  BY RetryStep
<1>2. Enqueue(host.turns[t].draft, "retry", t) /\ Commit
      /\ UNCHANGED <<ui, refs, stops, host, events, drafts>>
  BY DEF Retry
<1>3. ui.active = 0 /\ ui.queued = 0 /\ ~Sending
  BY HandlerSeesIdle DEF Retry
<1>4. host.running = {} /\ refs.completed \subseteq DOMAIN host.turns
  BY <1>3, NothingRuns DEF Untroubled, Running
<1>5. ui \in Surface /\ Emitted' = Emitted
  BY <1>2, HostParts DEF Emitted
<1>6. Untroubled'
  BY <1>1, <1>2, <1>3, <1>4, <1>5, SubmitQuiet
<1>7. Kept
  BY <1>2, <1>3 DEF Kept, Placed, IsSent
<1> QED  BY <1>6, <1>7

\* A follow-up starts once its turn is over, or there was none and nothing does.
LEMMA FollowUpQuiet ==
    ASSUME Basic, Untroubled, ~Sending, NEW s \in Surface, NEW q \in 0 .. MaxDraft,
           FollowUp(q, s), s.active = 0, s.queued = ui.queued, s.text = ui.text,
           q = ui.queued, host.running = {},
           UNCHANGED <<host, drafts>>, refs'.session = refs.session,
           refs'.completed \subseteq DOMAIN host.turns,
           Emitted' \subseteq Emitted, stops' \subseteq stops,
           q = 0 => seen.queued = 0
    PROVE  Untroubled' /\ Kept
<1>1. \A e : IsSent(e)' = IsSent(e)
  BY DEF IsSent
<1>2. CASE q = 0
  <2>1. ui' = s /\ UNCHANGED <<seen, submissions, draft>>
    BY <1>2 DEF FollowUp
  <2>2. ~Sending'
    BY <2>1 DEF Sending
  <2>3. OneAtATime' /\ Carried'
    BY <1>2, <2>1, <2>2 DEF OneAtATime, Carried
  <2>4. Running'
    BY <2>1, <2>2 DEF Running, Untroubled
  <2>5. Numbered'
    BY <1>1, <1>2, <2>1, <2>2 DEF Numbered, Untroubled
  <2>6. Kept
    BY <1>1, <2>1, <2>2 DEF Kept, Placed
  <2> QED  BY <2>3, <2>4, <2>5, <2>6 DEF Untroubled
<1>3. CASE q # 0
  <2>1. q \in Draft /\ "queue" \in Source /\ 0 \in 0 .. MaxTurn
    BY <1>3, Bounds DEF Source
  <2>2. StartQueued(q, s)
    BY <1>3 DEF FollowUp
  <2>3. ui' = [s EXCEPT !.queued = 0] /\ ui' \in Surface /\ Commit /\ Enqueue(q, "queue", 0)
    BY <2>1, <2>2, StartQueuedStep
  <2>4. ui'.active = 0 /\ ui'.queued = 0 /\ ui'.text = ui.text
    BY <2>3 DEF Surface
  <2>5. ui.text = 0 /\ ~IsSent(q) /\ q <= drafts
    BY <1>3 DEF Untroubled, OneAtATime, Numbered
  <2>6. Untroubled'
    BY <2>1, <2>3, <2>4, <2>5, SubmitQuiet
  <2>7. Sending' /\ First'.draft = q
    BY <2>1, <2>3, Enqueued
  <2>8. Kept
    BY <1>1, <2>4, <2>5, <2>7 DEF Kept, Placed
  <2> QED  BY <2>6, <2>8
<1> QED  BY <1>2, <1>3

\* The one submission is taken out, with what its answer leaves behind.
LEMMA LeaveQuiet ==
    ASSUME Basic, Untroubled, Sending, Dequeue, seen' = seen,
           UNCHANGED <<host, stops, events, drafts>>,
           ui'.active \in {0} \cup host.running \cup Emitted, ui'.queued = 0,
           ui'.active # 0 => host.turns[ui'.active].session = refs.session,
           host.running \subseteq {ui'.active},
           refs'.session = refs.session, refs'.completed \subseteq refs.completed,
           ui'.text \in {0, ui.text, First.draft},
           ui'.text # 0 => ~IsSent(ui'.text),
           IsSent(First.draft) \/ ui'.text = First.draft,
           ui.text \in {0, ui'.text, First.draft}
    PROVE  Untroubled' /\ Kept
<1>1. ~Sending'
  BY Dequeued DEF Untroubled
<1>2. /\ seen'.submitting /\ seen'.active = 0 /\ seen'.queued = 0 /\ ui.queued = 0
  BY DEF Untroubled, OneAtATime
<1>3. /\ Emitted' = Emitted /\ \A e : IsSent(e)' = IsSent(e)
  BY DEF Emitted, IsSent
<1>4. OneAtATime' /\ Carried'
  BY <1>1, <1>2 DEF OneAtATime, Carried
<1>5. ui'.active # 0 => ui'.active \in DOMAIN host.turns
  BY HostParts DEF Untroubled, Running
<1>6. Running'
  BY <1>1, <1>3, <1>5 DEF Running, Untroubled
<1>7. ui'.text <= drafts /\ ui'.queued <= drafts
  BY HostParts DEF Untroubled, Numbered
<1>8. Numbered'
  BY <1>1, <1>3, <1>7 DEF Numbered, Untroubled
<1>9. Kept
  BY <1>2, <1>3 DEF Kept, Placed
<1> QED  BY <1>4, <1>6, <1>8, <1>9 DEF Untroubled

LEMMA PromptStaleQuiet ==
    ASSUME Basic, Untroubled, PromptStale, races' = {}
    PROVE  Untroubled' /\ Kept
<1>1. Sending /\ First.phase = "prompt" /\ First.source # "composer" /\ Dequeue
      /\ Happened("stale", First.source = "queue")
      /\ UNCHANGED <<ui, seen, refs, stops, host, events, drafts>>
  BY DEF PromptStale, Sending, First
<1>2. First.source = "retry"
  <2>1. First \in Submission
    BY <1>1, FirstSubmission DEF First, Sending
  <2>2. First.source # "queue"
    BY <1>1, Quiet
  <2> QED  BY <1>1, <2>1, <2>2 DEF Submission, Source
<1>3. IsSent(First.draft) /\ First.turn = 0
  BY <1>1, <1>2 DEF Untroubled, Carried, IsSent
<1>4. ui.active = 0 /\ ui.queued = 0
  BY <1>1 DEF Untroubled, OneAtATime
<1>5. host.running \subseteq {0}
  BY <1>3, <1>4 DEF Untroubled, Running
<1>6. ui.text # 0 => ~IsSent(ui.text)
  BY <1>1 DEF Untroubled, Numbered
<1> QED  BY <1>1, <1>3, <1>4, <1>5, <1>6, LeaveQuiet

LEMMA PromptRejectedQuiet ==
    ASSUME Basic, Untroubled, PromptRejected
    PROVE  Untroubled' /\ Kept
<1>1. Sending /\ First.phase = "rejected" /\ Dequeue
      /\ UNCHANGED <<seen, refs, stops, host, events, drafts>>
      /\ ui' = IF First.source = "queue" THEN [ui EXCEPT !.text = First.draft] ELSE ui
  BY DEF PromptRejected, Sending, First
<1>2. First \in Submission /\ ui \in Surface
  BY <1>1, FirstSubmission, HostParts DEF First, Sending
<1>3. ui'.active = ui.active /\ ui'.queued = ui.queued
      /\ ui'.text = IF First.source = "queue" THEN First.draft ELSE ui.text
  BY <1>1, <1>2 DEF Surface
<1>4. ui.active = 0 /\ ui.queued = 0 /\ First.turn = 0
  BY <1>1 DEF Untroubled, OneAtATime, Carried
<1>5. host.running \subseteq {0}
  BY <1>4 DEF Untroubled, Running
<1>6. (ui.text # 0 => ~IsSent(ui.text)) /\ (First.source # "retry" => ~IsSent(First.draft))
  BY <1>1 DEF Untroubled, Numbered
<1>7. /\ First.source = "composer" => ui.text = First.draft
      /\ First.source = "queue" => ui.text = 0
      /\ First.source = "retry" => IsSent(First.draft)
  BY <1>1 DEF Untroubled, Carried, IsSent
<1>8. First.source \in {"composer", "queue", "retry"}
  BY <1>2 DEF Submission, Source
<1>9. /\ ui'.text \in {0, ui.text, First.draft} /\ (ui'.text # 0 => ~IsSent(ui'.text))
      /\ IsSent(First.draft) \/ ui'.text = First.draft
      /\ ui.text \in {0, ui'.text, First.draft}
  BY <1>3, <1>6, <1>7, <1>8
<1>10. ui'.active = 0 /\ ui'.queued = 0 /\ refs' = refs
  BY <1>1, <1>3, <1>4
<1> QED  BY <1>1, <1>5, <1>9, <1>10, LeaveQuiet

\* The turn becomes the active one, unless it is known to be over.
LEMMA PromptAcceptedQuiet ==
    ASSUME Basic, Untroubled, PromptAccepted
    PROVE  Untroubled' /\ Kept
<1> DEFINE t == First.turn
           retried == IF First.source = "retry" THEN {First.of} ELSE {}
           retryable == (IF t \in refs.failed THEN ui.retryable \cup {t} ELSE ui.retryable) \ retried
           accepted == (refs.accepted \cup {t}) \ retried
<1>1. /\ Sending /\ First.phase = "accepted" /\ First \in Submission /\ Dequeue
      /\ refs' = [refs EXCEPT !.accepted = accepted, !.failed = @ \ {t}, !.completed = @ \ {t}]
      /\ ui' = [ui EXCEPT
           !.talk = TRUE, !.status = "none", !.thread = 0,
           !.text = TextOnceAccepted(First), !.retryable = retryable,
           !.active = ActiveOnceAccepted(t)]
  BY PromptAcceptedBasic DEF First, Sending, PromptAccepted
<1>2. UNCHANGED <<seen, stops, host, events, drafts>>
  BY DEF PromptAccepted
<1> HIDE DEF retryable, accepted
<1>3. ui \in Surface /\ refs \in Refs
  BY HostParts
<1>4. /\ ui'.active = ActiveOnceAccepted(t) /\ ui'.queued = ui.queued
      /\ ui'.text = TextOnceAccepted(First)
      /\ refs'.session = refs.session /\ refs'.completed = refs.completed \ {t}
  BY <1>1, <1>3 DEF Surface, Refs
<1>5. /\ t \in DOMAIN host.turns /\ host.turns[t].draft = First.draft
      /\ host.turns[t].session = refs.session
      /\ t \in host.running \cup Emitted \cup refs.completed
  BY <1>1 DEF Untroubled, Carried
<1>6. ui.active = 0 /\ ui.queued = 0
  BY <1>1 DEF Untroubled, OneAtATime
<1>7. ui'.active = IF t \in refs.completed THEN 0 ELSE t
  BY <1>4, <1>6 DEF ActiveOnceAccepted
<1>8. ui'.active \in {0} \cup host.running \cup Emitted
      /\ (ui'.active # 0 => host.turns[ui'.active].session = refs.session)
  BY <1>5, <1>7
<1>9. host.running \subseteq {ui'.active}
  <2>1. \A r \in host.running : r # 0 /\ (r = 0 \/ r = t) /\ r \notin refs.completed
    BY <1>1, <1>6, HostParts DEF Untroubled, Running
  <2> QED  BY <2>1, <1>7
<1>10. IsSent(First.draft)
  BY <1>5 DEF IsSent
<1>11. ui'.text = IF First.source = "composer" THEN 0 ELSE ui.text
  BY <1>4 DEF TextOnceAccepted
<1>12. /\ First.source = "composer" => ui.text = First.draft
       /\ First.source # "composer" /\ ui.text # 0 => ~IsSent(ui.text)
  BY <1>1 DEF Untroubled, Carried, Numbered
<1>13. /\ ui'.text \in {0, ui.text, First.draft} /\ (ui'.text # 0 => ~IsSent(ui'.text))
       /\ ui.text \in {0, ui'.text, First.draft}
  BY <1>11, <1>12
<1>14. refs'.completed \subseteq refs.completed /\ ui'.queued = 0 /\ seen' = seen
       /\ refs'.session = refs.session
  BY <1>2, <1>4, <1>6
<1> QED  BY <1>1, <1>2, <1>8, <1>9, <1>10, <1>13, <1>14, LeaveQuiet

\* The submission moves on, and nothing else but the session and the host does.
LEMMA SessionFailedQuiet ==
    ASSUME Basic, Untroubled, SessionFailed
    PROVE  Untroubled' /\ Kept
<1>1. /\ Len(submissions') = Len(submissions) /\ DOMAIN submissions' = DOMAIN submissions
      /\ \A k \in DOMAIN submissions : submissions'[k] =
           IF submissions[k].phase \in {"session", "draft"}
           THEN [submissions[k] EXCEPT !.phase = "rejected"] ELSE submissions[k]
  BY SessionFailedBasic
<1>2. UNCHANGED <<ui, seen, refs, stops, host, events, drafts, races>>
  BY DEF SessionFailed
<1>3. Emitted' = Emitted /\ \A e : IsSent(e)' = IsSent(e)
  BY <1>2 DEF Emitted, IsSent
<1>4. Basic'
  BY SessionFailedBasic
<1>5. Sending' <=> Sending
  <2>1. submissions \in Seq(Submission) /\ submissions' \in Seq(Submission)
    BY <1>4, BasicNow, BasicNext DEF BasicIs
  <2> QED  BY ONLY <2>1, <1>1, EmptySeq, LenProperties DEF Sending
<1>6. CASE ~Sending
  <2>1. OneAtATime' /\ Carried'
    BY <1>2, <1>5, <1>6 DEF OneAtATime, Carried, Untroubled
  <2>2. Running' /\ Numbered' /\ Kept
    BY <1>2, <1>3, <1>5, <1>6 DEF Running, Numbered, Untroubled, Kept, Placed
  <2> QED  BY <2>1, <2>2 DEF Untroubled
<1>7. CASE Sending
  <2>1. First \in Submission /\ 1 \in DOMAIN submissions
    BY <1>7, FirstSubmission DEF First, Sending
  <2>2. First' = IF First.phase \in {"session", "draft"}
                 THEN [First EXCEPT !.phase = "rejected"] ELSE First
    BY <1>1, <2>1 DEF First
  <2>3. /\ First'.draft = First.draft /\ First'.source = First.source /\ First'.of = First.of
        /\ First'.turn = First.turn /\ First'.session = First.session
        /\ First'.phase = First.phase
             \/ (First.phase \in {"session", "draft"} /\ First'.phase = "rejected")
    BY <2>1, <2>2 DEF Submission
  <2>4. OneAtATime'
    BY <1>1, <1>2, <1>5, <1>7 DEF OneAtATime, Untroubled
  <2>5. Carried'
    BY <1>2, <1>3, <1>5, <1>7, <2>3 DEF Carried, Untroubled
  <2>6. Running'
    BY <1>2, <1>3, <1>5, <1>7, <2>3 DEF Running, Untroubled
  <2>7. Numbered'
    BY <1>2, <1>3, <1>5, <1>7, <2>3 DEF Numbered, Untroubled
  <2>8. Kept
    BY <1>2, <1>3, <1>5, <1>7, <2>3 DEF Kept, Placed
  <2> QED  BY <2>4, <2>5, <2>6, <2>7, <2>8 DEF Untroubled
<1> QED  BY <1>6, <1>7

LEMMA SessionCreatedQuiet ==
    ASSUME Basic, Untroubled, SessionCreated, races' = {}
    PROVE  Untroubled' /\ Kept
<1> DEFINE n == host.sessions + 1
           s == IF refs.session = 0 THEN n ELSE refs.session
<1>1. /\ Basic'
      /\ host'.turns = host.turns /\ host'.running = host.running
      /\ refs' = [refs EXCEPT !.session = s] /\ s # 0
      /\ Len(submissions') = Len(submissions) /\ DOMAIN submissions' = DOMAIN submissions
      /\ \A k \in DOMAIN submissions : submissions'[k] =
            CASE submissions[k].phase = "session" ->
                   [submissions[k] EXCEPT !.phase = "prompt", !.session = s]
              [] submissions[k].phase = "draft" ->
                   [submissions[k] EXCEPT !.phase = "prompt", !.session = n]
              [] OTHER -> submissions[k]
  BY SessionCreatedBasic
<1>2. UNCHANGED <<ui, seen, stops, events, drafts>>
      /\ Happened("switched", s # n /\ \E k \in DOMAIN submissions : submissions[k].phase = "draft")
  BY DEF SessionCreated
<1>3. s # n => \A k \in DOMAIN submissions : submissions[k].phase # "draft"
  BY <1>2, Quiet
<1>4. s = refs.session \/ (refs.session = 0 /\ s = n)
  OBVIOUS
<1> HIDE DEF n, s
<1>5. refs'.session = s /\ refs'.completed = refs.completed
  BY <1>1, HostParts DEF Refs
<1>6. Emitted' = Emitted /\ \A e : IsSent(e)' = IsSent(e)
  BY <1>1, <1>2 DEF Emitted, IsSent
<1>7. Sending' <=> Sending
  <2>1. submissions \in Seq(Submission) /\ submissions' \in Seq(Submission)
    BY <1>1, BasicNow, BasicNext DEF BasicIs
  <2> QED  BY ONLY <2>1, <1>1, EmptySeq, LenProperties DEF Sending
<1>8. ui.active # 0 => s = refs.session
  BY <1>4, HostParts DEF Untroubled, Running
<1>0. host'.turns = host.turns
  BY <1>1
<1>9. CASE ~Sending
  <2>1. OneAtATime' /\ Carried'
    BY <1>2, <1>7, <1>9 DEF OneAtATime, Carried, Untroubled
  <2>2. Running'
    BY <1>1, <1>2, <1>5, <1>6, <1>7, <1>8, <1>9 DEF Running, Untroubled
  <2>3. Numbered'
    BY <1>0, <1>2, <1>6, <1>7, <1>9 DEF Numbered, Untroubled
  <2>4. Kept
    BY <1>2, <1>6, <1>7, <1>9 DEF Kept, Placed
  <2> QED  BY <2>1, <2>2, <2>3, <2>4 DEF Untroubled
<1>10. CASE Sending
  <2>1. First \in Submission /\ 1 \in DOMAIN submissions
        /\ (First.phase \in {"prompt", "accepted"} => First.session # 0)
    BY <1>10, FirstSubmission DEF First, Sending
  <2>2. First' = CASE First.phase = "session" -> [First EXCEPT !.phase = "prompt", !.session = s]
                   [] First.phase = "draft" -> [First EXCEPT !.phase = "prompt", !.session = n]
                   [] OTHER -> First
    BY <1>1, <2>1 DEF First
  <2>3. First.phase = "draft" => s = n
    BY <1>3, <2>1 DEF First
  <2>4. CASE First.phase \in {"session", "draft"}
    <3>1. First' = [First EXCEPT !.phase = "prompt", !.session = s]
      BY <2>2, <2>3, <2>4
    <3>2. /\ First'.draft = First.draft /\ First'.source = First.source
          /\ First'.of = First.of /\ First'.turn = First.turn
          /\ First'.session = s /\ First'.phase = "prompt"
      BY <2>1, <3>1 DEF Submission
    <3>3. OneAtATime'
      BY <1>1, <1>2, <1>7, <1>10 DEF OneAtATime, Untroubled
    <3>4. Carried'
      BY <1>1, <1>2, <1>5, <1>7, <1>10, <2>4, <3>2 DEF Carried, Untroubled
    <3>5. Running'
      BY <1>1, <1>2, <1>5, <1>6, <1>7, <1>8, <1>10, <3>2 DEF Running, Untroubled
    <3>6. Numbered'
      BY <1>0, <1>2, <1>6, <1>7, <1>10, <2>4, <3>2 DEF Numbered, Untroubled
    <3>7. Kept
      BY <1>2, <1>6, <1>7, <1>10, <3>2 DEF Kept, Placed
    <3> QED  BY <3>3, <3>4, <3>5, <3>6, <3>7 DEF Untroubled
  <2>5. CASE First.phase \notin {"session", "draft"}
    <3>1. First' = First
      BY <2>2, <2>5
    <3>2. First.phase \in {"prompt", "accepted"} => s = refs.session
      BY <1>4, <1>10, <2>1 DEF Untroubled, Carried
    <3>3. OneAtATime'
      BY <1>1, <1>2, <1>7, <1>10 DEF OneAtATime, Untroubled
    <3>4. Carried'
      BY <1>1, <1>2, <1>5, <1>6, <1>7, <1>10, <3>1, <3>2 DEF Carried, Untroubled
    <3>5. Running'
      BY <1>1, <1>2, <1>5, <1>6, <1>7, <1>8, <1>10, <3>1 DEF Running, Untroubled
    <3>6. Numbered'
      BY <1>0, <1>2, <1>6, <1>7, <1>10, <3>1 DEF Numbered, Untroubled
    <3>7. Kept
      BY <1>2, <1>6, <1>7, <1>10, <3>1 DEF Kept, Placed
    <3> QED  BY <3>3, <3>4, <3>5, <3>6, <3>7 DEF Untroubled
  <2> QED  BY <2>4, <2>5
<1> QED  BY <1>9, <1>10

LEMMA HostRefusesQuiet ==
    ASSUME Basic, Untroubled, HostTakesPrompt(FALSE)
    PROVE  Untroubled' /\ Kept
<1>1. /\ Basic' /\ Sending /\ First.phase = "prompt"
      /\ Len(submissions') = Len(submissions) /\ DOMAIN submissions' = DOMAIN submissions
      /\ First' = [First EXCEPT !.phase = "rejected"]
  BY HostRefusesBasic DEF Sending, First
<1>2. UNCHANGED <<ui, seen, refs, stops, host, events, drafts, races>>
  BY DEF HostTakesPrompt
<1>3. Emitted' = Emitted /\ \A e : IsSent(e)' = IsSent(e)
  BY <1>2 DEF Emitted, IsSent
<1>4. First \in Submission
  BY <1>1, FirstSubmission DEF First, Sending
<1>5. /\ First'.draft = First.draft /\ First'.source = First.source /\ First'.of = First.of
      /\ First'.turn = First.turn /\ First'.session = First.session /\ First'.phase = "rejected"
  BY <1>1, <1>4 DEF Submission
<1>6. Sending'
  <2>1. submissions' \in Seq(Submission) /\ submissions \in Seq(Submission)
    BY <1>1, BasicNow, BasicNext DEF BasicIs
  <2> QED  BY ONLY <2>1, <1>1, EmptySeq, LenProperties DEF Sending
<1>7. OneAtATime'
  BY <1>1, <1>2, <1>6 DEF OneAtATime, Untroubled
<1>8. Carried'
  BY <1>1, <1>2, <1>6, <1>5 DEF Carried, Untroubled
<1>9. Running'
  BY <1>1, <1>2, <1>3, <1>5, <1>6 DEF Running, Untroubled
<1>10. Numbered'
  BY <1>1, <1>2, <1>3, <1>5, <1>6 DEF Numbered, Untroubled
<1>11. Kept
  BY <1>1, <1>2, <1>3, <1>5, <1>6 DEF Kept, Placed
<1> QED  BY <1>7, <1>8, <1>9, <1>10, <1>11 DEF Untroubled

\* The host takes a prompt: no turn ran, and its new turn is the only one.
LEMMA HostTakesQuiet ==
    ASSUME Basic, Untroubled, HostTakesPrompt(TRUE)
    PROVE  Untroubled' /\ Kept
<1> DEFINE n == Len(host.turns) + 1
<1>1. /\ Basic' /\ Sending /\ First \in Submission /\ First.phase = "prompt"
      /\ Len(submissions') = Len(submissions)
      /\ First' = [First EXCEPT !.phase = "accepted", !.turn = n]
      /\ n \in Turn /\ n \notin DOMAIN host.turns
      /\ DOMAIN host'.turns = DOMAIN host.turns \cup {n}
      /\ \A k \in DOMAIN host.turns : host'.turns[k] = host.turns[k]
      /\ host'.turns[n] = [draft |-> First.draft, session |-> First.session, of |-> First.of]
      /\ host'.running = host.running \cup {n}
  BY HostTakesBasic DEF Sending, First
<1>2. UNCHANGED <<ui, seen, refs, stops, events, drafts>>
  BY DEF HostTakesPrompt
<1> HIDE DEF n
<1>3. Sending'
  <2>1. submissions' \in Seq(Submission) /\ submissions \in Seq(Submission)
    BY <1>1, BasicNow, BasicNext DEF BasicIs
  <2> QED  BY ONLY <2>1, <1>1, EmptySeq, LenProperties DEF Sending
<1>4. /\ First'.draft = First.draft /\ First'.source = First.source /\ First'.of = First.of
      /\ First'.turn = n /\ First'.session = First.session /\ First'.phase = "accepted"
  BY <1>1 DEF Submission
<1>5. /\ First.turn = 0 /\ First.session = refs.session /\ ui.active = 0 /\ ui.queued = 0
      /\ Len(submissions) = 1 /\ seen.active = 0
  BY <1>1 DEF Untroubled, OneAtATime, Carried
<1>6. host.running = {}
  <2>1. host.running \subseteq {0}
    BY <1>5 DEF Untroubled, Running
  <2> QED  BY <2>1, HostParts
<1>7. Emitted' = Emitted /\ n # 0
  BY <1>1, <1>2, HostParts, Bounds DEF Emitted
<1>8. \A e : IsSent(e)' <=> IsSent(e) \/ e = First.draft
  BY <1>1 DEF IsSent
<1>9. /\ host'.turns[n].draft = First.draft /\ host'.turns[n].session = First.session
      /\ host'.turns[n].of = First.of
  BY <1>1
<1>10. OneAtATime'
  BY <1>1, <1>2, <1>3, <1>5 DEF OneAtATime, Untroubled
<1>11. Carried'
  <2>1. /\ First.source = "composer" => ui.text = First.draft
        /\ First.source = "queue" => ui.text = 0
        /\ First.source = "retry" => First.of \in DOMAIN host.turns
                                     /\ host.turns[First.of].draft = First.draft
    BY <1>1 DEF Untroubled, Carried
  <2>2. /\ First'.source = "composer" => ui'.text = First'.draft
        /\ First'.source = "queue" => ui'.text = 0
        /\ First'.source = "retry" => First'.of \in DOMAIN host'.turns
                                      /\ host'.turns[First'.of].draft = First'.draft
    BY <1>1, <1>2, <1>4, <2>1
  <2>3. /\ n \in DOMAIN host'.turns /\ host'.turns[n].draft = First'.draft
        /\ host'.turns[n].session = refs'.session /\ n \in host'.running
        /\ First'.session = refs'.session
    BY <1>1, <1>2, <1>4, <1>5, <1>9
  <2> QED  BY <1>4, <2>2, <2>3 DEF Carried
<1>12. Running'
  <2>1. ui'.active = 0 /\ \A t \in host'.running : Sending' /\ t = First'.turn
    BY <1>1, <1>2, <1>3, <1>4, <1>5, <1>6
  <2>2. seen'.active = 0
    BY <1>2, <1>5
  <2>3. \A t \in refs'.completed \cup Emitted' : t \in DOMAIN host'.turns /\ t \notin host'.running
    BY <1>1, <1>2, <1>7 DEF Untroubled, Running
  <2>4. \A s \in stops' : s.turn \in DOMAIN host'.turns /\ (s.over => s.turn \notin host'.running)
    BY <1>1, <1>2 DEF Untroubled, Running
  <2> QED  BY <2>1, <2>2, <2>3, <2>4 DEF Running
<1>13. Numbered'
  <2>1. /\ ui'.text <= drafts' /\ ui'.queued <= drafts' /\ First'.draft <= drafts'
        /\ \A k \in DOMAIN host'.turns : host'.turns[k].draft <= drafts'
    BY <1>1, <1>2, <1>4, <1>9 DEF Untroubled, Numbered
  <2>2. First.source # "retry" => ~IsSent(First.draft)
    BY <1>1 DEF Untroubled, Numbered
  <2>3. First.source = "retry" => First.of # 0
    BY <1>1, HostParts DEF Untroubled, Carried
  <2>4. \A j \in DOMAIN host.turns :
           host'.turns[j].draft = host'.turns[n].draft => host'.turns[n].of # 0
    BY <1>1, <1>9, <2>2, <2>3 DEF IsSent
  <2>5. \A j, k \in DOMAIN host.turns :
          host.turns[j].draft = host.turns[k].draft =>
              j = k \/ host.turns[j].of # 0 \/ host.turns[k].of # 0
    BY DEF Untroubled, Numbered
  <2>6. \A j, k \in DOMAIN host'.turns :
          host'.turns[j].draft = host'.turns[k].draft =>
              j = k \/ host'.turns[j].of # 0 \/ host'.turns[k].of # 0
    BY <1>1, <2>4, <2>5
  <2>7. ui.text # 0 => ~IsSent(ui.text)
    BY <1>1 DEF Untroubled, Numbered
  <2>8. ui.text # 0 /\ ui.text = First.draft => First.source = "composer"
    <3>1. First.source \in {"composer", "queue", "retry"}
      BY <1>1 DEF Submission, Source
    <3>2. First.source = "queue" => ui.text = 0
      BY <1>1 DEF Untroubled, Carried
    <3>3. First.source = "retry" => IsSent(First.draft)
      BY <1>1 DEF Untroubled, Carried, IsSent
    <3> QED  BY <2>7, <3>1, <3>2, <3>3
  <2>9. ui'.text # 0 /\ IsSent(ui.text)' =>
          Sending' /\ First'.source = "composer" /\ First'.phase = "accepted"
    BY <1>2, <1>3, <1>4, <1>8, <2>7, <2>8
  <2>10. ui'.queued = 0
    BY <1>2, <1>5
  <2>11. IsSent(ui.text)' = (\E k \in DOMAIN host'.turns : host'.turns[k].draft = ui'.text)
    BY DEF IsSent
  <2> QED  BY <2>1, <2>6, <2>9, <2>10, <2>11, <1>3, <1>4 DEF Numbered, IsSent
<1>14. Kept
  BY <1>2, <1>3, <1>4, <1>8 DEF Kept, Placed
<1> QED  BY <1>10, <1>11, <1>12, <1>13, <1>14 DEF Untroubled

\* The agent's side moves: a turn ends, and its terminal event is on its way.
LEMMA TurnEndsQuiet ==
    ASSUME Basic, Untroubled, NEW t \in host.running, NEW failed \in BOOLEAN, TurnEnds(t, failed)
    PROVE  Untroubled' /\ Kept
<1>1. /\ host'.turns = host.turns /\ host'.running = host.running \ {t}
      /\ Emitted' = Emitted \cup {t}
  BY TurnEndsBasic
<1>2. UNCHANGED <<ui, seen, refs, submissions, stops, drafts>>
  BY DEF TurnEnds, surface
<1>3. Sending' = Sending /\ First' = First /\ Len(submissions') = Len(submissions)
      /\ \A e : IsSent(e)' = IsSent(e)
  BY <1>1, <1>2 DEF Sending, First, IsSent
<1>4. host.running \subseteq DOMAIN host.turns
  BY HostParts
<1>5. OneAtATime'
  BY <1>2, <1>3 DEF OneAtATime, Untroubled
<1>6. Carried'
  BY <1>1, <1>2, <1>3 DEF Carried, Untroubled
<1>7. Running'
  BY <1>1, <1>2, <1>3, <1>4 DEF Running, Untroubled
<1>8. Numbered'
  BY <1>1, <1>2, <1>3 DEF Numbered, Untroubled
<1>9. Kept
  BY <1>2, <1>3 DEF Kept, Placed
<1> QED  BY <1>5, <1>6, <1>7, <1>8, <1>9 DEF Untroubled

\* A terminal event arrives that is not the active turn's.
LEMMA OtherEventQuiet ==
    ASSUME Basic, Untroubled, events # << >>, events' = Tail(events),
           UNCHANGED <<seen, submissions, stops, host, drafts>>,
           ui'.active = ui.active, ui'.queued = ui.queued, ui'.text = ui.text,
           refs'.session = refs.session, ui.active # events[1].turn,
           \/ host.turns[events[1].turn].session # refs.session
              /\ refs'.completed = refs.completed
           \/ refs'.completed = refs.completed \cup {events[1].turn}
    PROVE  Untroubled' /\ Kept
<1> DEFINE t == events[1].turn
<1>1. /\ t \in Emitted /\ t \in DOMAIN host.turns
      /\ Emitted \subseteq Emitted' \cup {t} /\ Emitted' \subseteq Emitted
  BY FirstEvent
<1>2. Sending' = Sending /\ First' = First /\ Len(submissions') = Len(submissions)
      /\ \A e : IsSent(e)' = IsSent(e)
  BY DEF Sending, First, IsSent
<1>3. t \notin host.running
  BY <1>1 DEF Untroubled, Running
<1>4. refs'.completed \subseteq refs.completed \cup {t} /\ refs.completed \subseteq refs'.completed
  OBVIOUS
<1> HIDE DEF t
<1>5. OneAtATime'
  BY <1>2 DEF OneAtATime, Untroubled
<1>6. Carried'
  <2>1. CASE host.turns[t].session # refs.session
    BY <1>1, <1>2, <1>4, <2>1 DEF Carried, Untroubled
  <2>2. CASE refs'.completed = refs.completed \cup {t}
    BY <1>1, <1>2, <2>2 DEF Carried, Untroubled
  <2> QED  BY <2>1, <2>2 DEF t
<1>7. Running'
  <2>1. ui.active # t
    BY DEF t
  <2> QED  BY <1>1, <1>2, <1>3, <1>4, <2>1 DEF Running, Untroubled
<1>8. Numbered'
  BY <1>2 DEF Numbered, Untroubled
<1>9. Kept
  BY <1>2 DEF Kept, Placed
<1> QED  BY <1>5, <1>6, <1>7, <1>8, <1>9 DEF Untroubled

LEMMA TerminalQuiet ==
    ASSUME Basic, Untroubled, TerminalEvent, races' = {}
    PROVE  Untroubled' /\ Kept
<1> DEFINE t == events[1].turn
           noted == [ui EXCEPT !.retryable = IF events[1].failed /\ t \in refs.accepted
                                             THEN @ \cup {t} ELSE @]
<1>1. /\ events # << >> /\ events' = Tail(events)
      /\ noted \in Surface /\ TurnLeft(noted) \in Surface
      /\ noted.active = ui.active /\ noted.queued = ui.queued /\ noted.text = ui.text
      /\ UNCHANGED <<stops, host, drafts>>
      /\ \/ /\ host.turns[t].session # refs.session
            /\ UNCHANGED <<ui, refs, submissions, draft, seen, races>>
         \/ /\ host.turns[t].session = refs.session
            /\ refs'.session = refs.session
            /\ refs'.completed = refs.completed \cup {t}
            /\ \/ /\ seen.active # t /\ ui' = noted
                  /\ UNCHANGED <<seen, submissions, draft>>
                  /\ Happened("uncommitted", ui.active = t)
               \/ /\ seen.active = t /\ FollowUp(seen.queued, TurnLeft(noted))
                  /\ Happened("uncommitted", seen.queued # ui.queued \/ ui.active # t)
  BY TerminalBasic
<1>2. /\ t \in Emitted /\ t \in DOMAIN host.turns /\ 0 \notin DOMAIN host.turns
      /\ Emitted' \subseteq Emitted
  BY <1>1, FirstEvent, HostParts
<1> HIDE DEF noted
<1>3. CASE /\ host.turns[t].session # refs.session
           /\ UNCHANGED <<ui, refs, submissions, draft, seen, races>>
  <2>1. ui.active # t
    BY <1>2, <1>3 DEF Untroubled, Running
  <2> QED  BY <1>1, <1>3, <2>1, OtherEventQuiet
<1>4. CASE /\ host.turns[t].session = refs.session
           /\ refs'.session = refs.session /\ refs'.completed = refs.completed \cup {t}
           /\ seen.active # t /\ ui' = noted
           /\ UNCHANGED <<seen, submissions, draft>>
           /\ Happened("uncommitted", ui.active = t)
  <2>1. ui.active # t
    BY <1>4, Quiet
  <2> QED  BY <1>1, <1>4, <2>1, OtherEventQuiet
<1>5. CASE /\ host.turns[t].session = refs.session
           /\ refs'.session = refs.session /\ refs'.completed = refs.completed \cup {t}
           /\ seen.active = t /\ FollowUp(seen.queued, TurnLeft(noted))
           /\ Happened("uncommitted", seen.queued # ui.queued \/ ui.active # t)
  <2>1. seen.queued = ui.queued /\ ui.active = t
    BY <1>5, Quiet
  <2>2. ~Sending
    BY <1>2, <2>1 DEF Untroubled, OneAtATime
  <2>3. host.running = {}
    BY <1>2, <2>1, <2>2 DEF Untroubled, Running
  <2>4. seen.queued \in 0 .. MaxDraft
    BY HostParts DEF Seen
  <2>5. TurnLeft(noted).active = 0 /\ TurnLeft(noted).queued = ui.queued
        /\ TurnLeft(noted).text = ui.text
    BY <1>1 DEF TurnLeft, Surface
  <2>6. refs'.completed \subseteq DOMAIN host.turns
    BY <1>2, <1>5 DEF Untroubled, Running
  <2> QED  BY <1>1, <1>2, <1>5, <2>1, <2>2, <2>3, <2>4, <2>5, <2>6, FollowUpQuiet
<1> QED  BY <1>1, <1>3, <1>4, <1>5

LEMMA StopTakenQuiet ==
    ASSUME Basic, Untroubled, NEW s \in stops, StopTaken(s)
    PROVE  Untroubled' /\ Kept
<1>1. /\ UNCHANGED <<ui, refs, submissions, seen, host, events, drafts>>
      /\ stops' = (stops \ {s}) \cup
                   (IF s.turn \in host.running THEN {} ELSE {[s EXCEPT !.over = TRUE]})
  BY DEF StopTaken, surface
<1>2. s \in StopCall /\ s.turn \in DOMAIN host.turns
  BY HostParts DEF Untroubled, Running
<1>3. [s EXCEPT !.over = TRUE].turn = s.turn
  BY <1>2 DEF StopCall
<1>4. \A r \in stops' : r.turn \in DOMAIN host.turns /\ (r.over => r.turn \notin host.running)
  BY <1>1, <1>2, <1>3 DEF Untroubled, Running
<1> QED  BY <1>1, <1>4, StillQuiet

LEMMA StopFailedQuiet ==
    ASSUME Basic, Untroubled, NEW s \in stops, StopFailed(s)
    PROVE  Untroubled' /\ Kept
<1>1. /\ UNCHANGED <<refs, submissions, seen, host, events, drafts>>
      /\ stops' = stops \ {s} /\ ui' = [ui EXCEPT !.cancelling = FALSE]
  BY DEF StopFailed
<1>2. ui'.active = ui.active /\ ui'.queued = ui.queued /\ ui'.text = ui.text
  BY <1>1, HostParts DEF Surface
<1>3. \A r \in stops' : r.turn \in DOMAIN host.turns /\ (r.over => r.turn \notin host.running)
  BY <1>1 DEF Untroubled, Running
<1> QED  BY <1>1, <1>2, <1>3, StillQuiet

LEMMA StopOverQuiet ==
    ASSUME Basic, Untroubled, NEW s \in stops, StopOver(s), races' = {}
    PROVE  Untroubled' /\ Kept
<1>1. /\ s.over /\ stops' \subseteq stops
      /\ refs' = [refs EXCEPT !.completed = @ \cup {s.turn}]
      /\ FollowUp(s.queued, TurnLeft(ui))
      /\ Happened("late stop", ui.active \notin {s.turn, 0} \/ ui.queued # s.queued)
      /\ UNCHANGED <<host, events, drafts>>
  BY DEF StopOver
<1>2. ui.active \in {s.turn, 0} /\ ui.queued = s.queued
  BY <1>1, Quiet
<1>3. /\ s.queued \in 0 .. MaxDraft /\ ui \in Surface /\ refs \in Refs
      /\ s.turn \in DOMAIN host.turns /\ s.turn \notin host.running
      /\ 0 \notin DOMAIN host.turns /\ host.running \subseteq DOMAIN host.turns
  BY <1>1, HostParts DEF StopCall, Untroubled, Running
<1>4. refs'.session = refs.session /\ refs'.completed = refs.completed \cup {s.turn}
  BY <1>1, <1>3 DEF Refs
<1>5. refs'.completed \subseteq DOMAIN host.turns /\ Emitted' = Emitted
  <2>1. refs.completed \subseteq DOMAIN host.turns
    BY DEF Untroubled, Running
  <2>2. Emitted' = Emitted
    BY <1>1 DEF Emitted
  <2> QED  BY <2>1, <2>2, <1>3, <1>4
<1>6. /\ TurnLeft(ui) \in Surface /\ TurnLeft(ui).active = 0
      /\ TurnLeft(ui).queued = ui.queued /\ TurnLeft(ui).text = ui.text
  <2>1. ui \in Surface /\ 0 \in 0 .. MaxTurn
    BY <1>3, Bounds
  <2> QED  BY <2>1 DEF TurnLeft, Surface
<1>7. CASE s.queued # 0
  <2>1. ~Sending
    BY <1>2, <1>7 DEF Untroubled, OneAtATime
  <2>2. host.running = {}
    BY <1>2, <1>3, <2>1 DEF Untroubled, Running
  <2> QED  BY <1>1, <1>2, <1>3, <1>4, <1>5, <1>6, <1>7, <2>1, <2>2, FollowUpQuiet
<1>8. CASE s.queued = 0
  <2>1. ui' = TurnLeft(ui) /\ UNCHANGED <<seen, submissions, draft>>
    BY <1>1, <1>8 DEF FollowUp
  <2>2. ui'.active = 0 /\ ui'.queued = ui.queued /\ ui'.text = ui.text
    BY <1>6, <2>1
  <2>3. Sending' = Sending /\ First' = First /\ Len(submissions') = Len(submissions)
        /\ \A e : IsSent(e)' = IsSent(e)
    BY <1>1, <2>1 DEF Sending, First, IsSent
  <2>4. \A t \in host.running : Sending /\ t = First.turn
    BY <1>2, <1>3 DEF Untroubled, Running
  <2>5. OneAtATime'
    BY <1>2, <1>8, <2>1, <2>2, <2>3 DEF OneAtATime, Untroubled
  <2>6. Carried'
    BY <1>1, <1>4, <1>5, <2>2, <2>3 DEF Carried, Untroubled
  <2>7. Running'
    BY <1>1, <1>3, <1>4, <1>5, <2>1, <2>2, <2>3, <2>4 DEF Running, Untroubled
  <2>8. Numbered'
    BY <1>1, <2>2, <2>3 DEF Numbered, Untroubled
  <2>9. Kept
    BY <2>2, <2>3 DEF Kept, Placed
  <2> QED  BY <2>5, <2>6, <2>7, <2>8, <2>9 DEF Untroubled
<1> QED  BY <1>7, <1>8

\* The thread changes while nothing is under way.
LEMMA ThreadChanges ==
    ASSUME Basic, Untroubled, ~Sending, ui.active = 0, ui.queued = 0,
           UNCHANGED <<seen, submissions, stops, host, events, drafts>>,
           ui'.active = 0, ui'.queued = 0, ui'.text \in {0, ui.text},
           refs'.completed \subseteq refs.completed
    PROVE  Untroubled' /\ (ui'.text = ui.text => Kept)
<1>1. ~Sending' /\ Emitted' = Emitted /\ \A e : IsSent(e)' = IsSent(e)
  BY DEF Sending, Emitted, IsSent
<1>2. seen.queued = 0 /\ host.running = {}
  BY NothingRuns DEF Untroubled, OneAtATime
<1>3. OneAtATime' /\ Carried'
  BY <1>1, <1>2 DEF OneAtATime, Carried
<1>4. Running'
  BY <1>1, <1>2 DEF Running, Untroubled
<1>5. 0 <= drafts
  BY HostParts
<1>6. Numbered'
  BY <1>1, <1>5 DEF Numbered, Untroubled
<1>7. ui'.text = ui.text => Kept
  BY <1>1 DEF Kept, Placed
<1> QED  BY <1>3, <1>4, <1>6, <1>7 DEF Untroubled

LEMMA RestoredQuiet ==
    ASSUME Basic, Untroubled, Restored, races' = {}
    PROVE  Untroubled'
<1>1. /\ ~Sending /\ ui.active = 0 /\ ui.queued = 0
  BY Quiet DEF Restored, Sending
<1>2. /\ ui' = [ui EXCEPT !.queued = 0, !.text = 0, !.talk = TRUE, !.status = "none",
                          !.thread = 0, !.retryable = {}]
      /\ refs' = [refs EXCEPT !.session = resuming, !.accepted = {}, !.failed = {}]
      /\ UNCHANGED <<seen, submissions, stops, host, events, drafts>>
  BY DEF Restored
<1>3. ui \in Surface /\ refs \in Refs
  BY HostParts
<1>4. ui'.active = 0 /\ ui'.queued = 0 /\ ui'.text = 0 /\ refs'.completed = refs.completed
  BY <1>1, <1>2, <1>3 DEF Surface, Refs
<1> QED  BY <1>1, <1>2, <1>4, ThreadChanges

LEMMA ArchivedQuiet ==
    ASSUME Basic, Untroubled, Archived, races' = {}
    PROVE  Untroubled' /\ Kept
<1>1. /\ ~Sending /\ ui.active = 0 /\ ui.queued = 0
  BY Quiet DEF Archived, Sending
<1>2. /\ ui' = [ui EXCEPT !.active = 0, !.cancelling = FALSE, !.talk = FALSE,
                        !.status = "ready", !.thread = archiving, !.retryable = {}]
      /\ refs' = [session |-> 0, completed |-> {}, accepted |-> {}, failed |-> {}]
      /\ UNCHANGED <<seen, submissions, stops, host, events, drafts>>
  BY DEF Archived
<1>3. ui \in Surface
  BY HostParts
<1>4. ui'.active = 0 /\ ui'.queued = 0 /\ ui'.text = ui.text /\ refs'.completed = {}
  BY <1>1, <1>2, <1>3 DEF Surface
<1> QED  BY <1>1, <1>2, <1>4, ThreadChanges

\* The steps that leave the turns, the prompts and the composer alone.
LEMMA AsideQuiet ==
    ASSUME Basic, Untroubled,
           \/ Stop \/ RetryDraft \/ Resume \/ RetryLoad \/ Dismiss \/ StartFresh \/ Archive
           \/ Render \/ DraftEffect \/ RestoreFailed \/ ArchiveFailed
           \/ \E ok \in BOOLEAN, found \in {0, 1} : SavedThreadLoaded(ok, found)
    PROVE  Untroubled' /\ Kept
<1>0. ui \in Surface
  BY HostParts
<1>1. UNCHANGED <<submissions, refs, host, events, drafts>> /\ (seen' = seen \/ Commit)
  <2>1. CASE Render
    BY <2>1 DEF Render, Commit, Latest, surface
  <2>2. CASE Stop \/ Resume \/ RetryLoad \/ Dismiss \/ StartFresh
    BY <2>2 DEF Stop, Resume, RetryLoad, Dismiss, StartFresh
  <2>3. CASE RetryDraft \/ DraftEffect \/ RestoreFailed \/ Archive \/ ArchiveFailed
    BY <2>3 DEF RetryDraft, DraftEffect, RestoreFailed, Archive, ArchiveFailed, surface
  <2>4. CASE \E ok \in BOOLEAN, found \in {0, 1} : SavedThreadLoaded(ok, found)
    BY <2>4 DEF SavedThreadLoaded
  <2> QED  BY <2>1, <2>2, <2>3, <2>4
<1>2. ui'.active = ui.active /\ ui'.queued = ui.queued /\ ui'.text = ui.text
  BY <1>0 DEF Stop, RetryDraft, Resume, RetryLoad, Dismiss, StartFresh, Archive, Render,
         DraftEffect, RestoreFailed, ArchiveFailed, SavedThreadLoaded, surface, Surface
<1>3. CASE Stop
  <2>1. seen.active # 0
        /\ stops' = stops \cup {[turn |-> seen.active, queued |-> seen.queued, over |-> FALSE]}
    BY <1>3 DEF Stop
  <2>2. seen.active \in DOMAIN host.turns
    BY <2>1 DEF Untroubled, Running
  <2>3. \A r \in stops' : r.turn \in DOMAIN host.turns /\ (r.over => r.turn \notin host.running)
    BY <2>1, <2>2 DEF Untroubled, Running
  <2> QED  BY <1>1, <1>2, <2>3, StillQuiet
<1>4. CASE ~Stop
  <2>1. stops' = stops
    BY <1>4 DEF RetryDraft, Resume, RetryLoad, Dismiss, StartFresh, Archive, Render,
         DraftEffect, RestoreFailed, ArchiveFailed, SavedThreadLoaded
  <2>2. \A r \in stops' : r.turn \in DOMAIN host.turns /\ (r.over => r.turn \notin host.running)
    BY <2>1 DEF Untroubled, Running
  <2> QED  BY <1>1, <1>2, <2>2, StillQuiet
<1> QED  BY <1>3, <1>4

\* An overtaking is never forgotten.
LEMMA RacesStay ==
    ASSUME Next, races' = {}
    PROVE  races = {}
<1>1. CASE UserActs
  <2>1. CASE Compose
    BY <2>1 DEF Compose, Happened
  <2>2. CASE EditQueued \/ RemoveQueued \/ Stop \/ Resume \/ RetryLoad \/ Dismiss \/ StartFresh
    BY <2>2 DEF EditQueued, RemoveQueued, Stop, Resume, RetryLoad, Dismiss, StartFresh
  <2>3. CASE RetryDraft \/ Archive \/ \E t \in ui.retryable : Retry(t)
    BY <2>3 DEF RetryDraft, Archive, Retry
  <2> QED  BY <1>1, <2>1, <2>2, <2>3 DEF UserActs
<1>2. CASE SessionCreated \/ SessionFailed
  BY <1>2 DEF SessionCreated, SessionFailed, Happened
<1>3. CASE \E accept \in BOOLEAN : HostTakesPrompt(accept)
  BY <1>3 DEF HostTakesPrompt
<1>4. CASE PromptAnswered \/ PromptStale
  BY <1>4 DEF PromptAnswered, PromptAccepted, PromptRejected, PromptStale, Happened
<1>5. CASE \E t \in host.running, failed \in BOOLEAN : TurnEnds(t, failed)
  BY <1>5 DEF TurnEnds
<1>6. CASE TerminalEvent
  BY <1>6 DEF TerminalEvent, Happened
<1>7. CASE StopSettles
  BY <1>7 DEF StopSettles, StopTaken, StopFailed, StopOver, Happened
<1>8. CASE \/ Render \/ DraftEffect \/ ArchiveFailed \/ RestoreFailed
           \/ \E ok \in BOOLEAN, found \in {0, 1} : SavedThreadLoaded(ok, found)
  BY <1>8 DEF Render, DraftEffect, ArchiveFailed, RestoreFailed, SavedThreadLoaded
<1>9. CASE Restored \/ Archived
  BY <1>9 DEF Restored, Archived, Happened
<1> QED  BY <1>1, <1>2, <1>3, <1>4, <1>5, <1>6, <1>7, <1>8, <1>9 DEF Next

LEMMA UntroubledStep ==
    ASSUME Basic, Basic', Untroubled, Next, races' = {}
    PROVE  Untroubled' /\ (Kept \/ RemoveQueued \/ Restored)
<1>1. CASE UserActs
  <2>1. CASE Compose
    BY <2>1, ComposeQuiet
  <2>2. CASE EditQueued \/ RemoveQueued
    BY <2>2, EditQuiet, RemoveQuiet
  <2>3. CASE \E t \in ui.retryable : Retry(t)
    BY <2>3, RetryQuiet
  <2>4. CASE Stop \/ RetryDraft \/ Resume \/ RetryLoad \/ Dismiss \/ StartFresh \/ Archive
    BY <2>4, AsideQuiet
  <2> QED  BY <1>1, <2>1, <2>2, <2>3, <2>4 DEF UserActs
<1>2. CASE SessionCreated \/ SessionFailed
  BY <1>2, SessionCreatedQuiet, SessionFailedQuiet
<1>3. CASE \E accept \in BOOLEAN : HostTakesPrompt(accept)
  <2>1. HostTakesPrompt(TRUE) \/ HostTakesPrompt(FALSE)
    BY <1>3
  <2> QED  BY <2>1, HostTakesQuiet, HostRefusesQuiet
<1>4. CASE PromptAnswered \/ PromptStale
  BY <1>4, PromptAcceptedQuiet, PromptRejectedQuiet, PromptStaleQuiet DEF PromptAnswered
<1>5. CASE \E t \in host.running, failed \in BOOLEAN : TurnEnds(t, failed)
  BY <1>5, TurnEndsQuiet
<1>6. CASE TerminalEvent
  BY <1>6, TerminalQuiet
<1>7. CASE StopSettles
  BY <1>7, StopTakenQuiet, StopFailedQuiet, StopOverQuiet DEF StopSettles
<1>8. CASE \/ Render \/ DraftEffect \/ ArchiveFailed \/ RestoreFailed
           \/ \E ok \in BOOLEAN, found \in {0, 1} : SavedThreadLoaded(ok, found)
  BY <1>8, AsideQuiet
<1>9. CASE Restored
  BY <1>9, RestoredQuiet
<1>10. CASE Archived
  BY <1>10, ArchivedQuiet
<1> QED  BY <1>1, <1>2, <1>3, <1>4, <1>5, <1>6, <1>7, <1>8, <1>9, <1>10 DEF Next

LEMMA InvInit == Init => Inv
<1> SUFFICES ASSUME Init PROVE Inv
  OBVIOUS
<1>1. Basic
  BY BasicInit
<1>2. /\ ui.active = 0 /\ ui.queued = 0 /\ ui.text = 0
      /\ seen.active = 0 /\ seen.queued = 0
      /\ refs.completed = {} /\ submissions = << >> /\ stops = {}
      /\ host.turns = << >> /\ host.running = {} /\ events = << >> /\ drafts = 0
  BY DEF Init
<1>3. ~Sending /\ Emitted = {} /\ DOMAIN host.turns = {}
  BY <1>2 DEF Sending, Emitted
<1>4. OneAtATime /\ Carried
  BY <1>2, <1>3 DEF OneAtATime, Carried
<1>5. Running
  BY <1>2, <1>3 DEF Running
<1>6. Numbered
  BY <1>2, <1>3 DEF Numbered, IsSent
<1> QED  BY <1>1, <1>4, <1>5, <1>6 DEF Inv, Untroubled

LEMMA InvStep == Inv /\ [Next]_vars => Inv'
<1> SUFFICES ASSUME Inv, [Next]_vars PROVE Inv'
  OBVIOUS
<1>1. Basic /\ Basic'
  BY BasicStep DEF Inv
<1>2. CASE Next
  <2>1. races' = {} => Untroubled'
    BY <1>1, <1>2, RacesStay, UntroubledStep DEF Inv
  <2> QED  BY <1>1, <2>1 DEF Inv
<1>3. CASE UNCHANGED vars
  <2>1. UNCHANGED <<ui, seen, refs, submissions, stops, host, events, drafts, races>>
    BY <1>3 DEF vars
  <2>2. Untroubled => Untroubled'
    BY <2>1, <1>1, StillQuiet DEF Untroubled, Running
  <2> QED  BY <1>1, <2>1, <2>2 DEF Inv
<1> QED  BY <1>2, <1>3

\* Unless something overtakes: the active turn belongs to the session in place and
\* has not been seen to end, and each turn that runs is shown or about to be.
THEOREM ActiveTurnRuns == Spec => []ActiveTurnIsTheRunningOne
<1>1. Inv => ActiveTurnIsTheRunningOne
  <2> SUFFICES ASSUME Inv, races = {} PROVE ActiveTurnIsTheRunningOne
    BY DEF ActiveTurnIsTheRunningOne
  <2>1. /\ ui.active # 0 => /\ host.turns[ui.active].session = refs.session
                            /\ ui.active \in host.running \cup Emitted
        /\ \A t \in host.running : t = ui.active \/ (Sending /\ t = First.turn)
    BY DEF Inv, Untroubled, Running
  <2>2. Sending => First.turn \in Awaited
    BY FirstSubmission DEF Inv, Sending, First, Awaited
  <2> QED  BY <2>1, <2>2 DEF ActiveTurnIsTheRunningOne
<1> QED  BY <1>1, InvInit, InvStep, PTL DEF Spec

\* Unless something overtakes, a prompt reaches the agent once, or again by a retry.
THEOREM SentOnce == Spec => []EachPromptIsSentOnce
<1>1. Inv => EachPromptIsSentOnce
  BY DEF Inv, Untroubled, Numbered, EachPromptIsSentOnce
<1> QED  BY <1>1, InvInit, InvStep, PTL DEF Spec

\* While there is at most one submission, Places are where prompts are Placed.
LEMMA PlacesPlaced ==
    ASSUME Basic, OneAtATime, NEW d
    PROVE  d \in Places <=> Placed(d)
<1>1. d \in {host.turns[k].draft : k \in DOMAIN host.turns} <=> IsSent(d)
  BY DEF IsSent
<1>2. d \in {submissions[k].draft : k \in DOMAIN submissions} <=> Sending /\ d = First.draft
  <2>1. CASE Sending
    <3>1. DOMAIN submissions = 1 .. Len(submissions) /\ Len(submissions) = 1
      BY <2>1, FirstSubmission DEF Sending, OneAtATime
    <3>2. \A k \in DOMAIN submissions : k = 1
      BY ONLY <3>1
    <3>3. 1 \in DOMAIN submissions
      BY ONLY <3>1
    <3> QED  BY <2>1, <3>2, <3>3 DEF First
  <2>2. CASE ~Sending
    BY <2>2 DEF Sending
  <2> QED  BY <2>1, <2>2
<1> QED  BY <1>1, <1>2 DEF Places, Placed

LEMMA PlacesPlacedNext ==
    ASSUME Basic', OneAtATime', NEW d
    PROVE  d \in Places' <=> Placed(d)'
<1>1. d \in {host'.turns[k].draft : k \in DOMAIN host'.turns} <=> IsSent(d)'
  BY DEF IsSent
<1>2. d \in {submissions'[k].draft : k \in DOMAIN submissions'} <=> Sending' /\ d = First'.draft
  <2>1. CASE Sending'
    <3>1. submissions' \in Seq(Submission) /\ Len(submissions') = 1
      BY <2>1, BasicNext DEF BasicIs, OneAtATime
    <3>2. DOMAIN submissions' = 1 .. 1
      BY ONLY <3>1, LenProperties
    <3>3. 1 \in DOMAIN submissions' /\ \A k \in DOMAIN submissions' : k = 1
      BY ONLY <3>2
    <3> QED  BY <2>1, <3>3 DEF First
  <2>2. CASE ~Sending'
    BY <2>2 DEF Sending
  <2> QED  BY <2>1, <2>2
<1> QED  BY <1>1, <1>2 DEF Places, Placed

\* Unless something overtakes, a prompt stays in the composer, in the queue, under
\* way or sent, but for what the user removes or leaves behind in another thread.
THEOREM PromptsKept == Spec => PromptsAreKept
<1> DEFINE Step == races' = {} => Places \ {0} \subseteq Places' \/ RemoveQueued \/ Restored
<1>1. Inv /\ [Next]_vars => [Step]_vars
  <2> SUFFICES ASSUME Inv, Next, races' = {}
               PROVE  Places \ {0} \subseteq Places' \/ RemoveQueued \/ Restored
    OBVIOUS
  <2>1. Basic /\ Basic'
    BY BasicStep DEF Inv
  <2>2. Untroubled
    BY RacesStay DEF Inv
  <2>3. Untroubled' /\ (Kept \/ RemoveQueued \/ Restored)
    BY <2>1, <2>2, UntroubledStep
  <2>4. ASSUME Kept, NEW d \in Places \ {0} PROVE d \in Places'
    <3>1. Placed(d)
      BY <2>1, <2>2, <2>4, PlacesPlaced DEF Untroubled
    <3>2. Placed(d)'
      BY <2>4, <3>1 DEF Kept
    <3>3. OneAtATime'
      BY <2>3 DEF Untroubled
    <3> QED  BY <2>1, <3>2, <3>3, PlacesPlacedNext
  <2> QED  BY <2>3, <2>4
<1> QED  BY <1>1, InvInit, InvStep, PTL DEF Spec, PromptsAreKept

=============================================================================
