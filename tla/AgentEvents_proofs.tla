-------------------------- MODULE AgentEvents_proofs --------------------------
(***************************************************************************)
(* Theorems about AgentEvents, for any number of turns, updates and losses. *)
(***************************************************************************)
EXTENDS AgentEvents, TLAPS

\* A turn that is building an update may still publish it.
RoomLeft == \A t \in Turn : updates[t].at # "idle" => updates[t].sent < MaxUpdates

TypeInv == TypeOK /\ RoomLeft

\* Numbers given out that have not reached the window.
Outstanding == lost \cup {e.sequence : e \in stamped}

\* Numbers are unique, and what lies between the first and the last number the
\* window has seen without having reached it is reported missing.
NumbersInv ==
    /\ \A e, f \in stamped : e.sequence = f.sequence => e = f
    /\ \A e \in stamped : e.sequence \notin lost
    /\ client.last \notin Outstanding
    /\ client.first <= client.last
    /\ client.first = 0 <=> client.last = 0
    /\ \A n \in Outstanding :
          client.first # 0 /\ client.first < n /\ n < client.last => n \in client.missing

Gone == {"last", "removed"}

\* The bus knows every turn that has published an update and is not gone; while
\* no update came late it knows no other. A turn is left as long as the end of
\* one was not followed by HostQuiescent.
QuietInv ==
    /\ \A u \in Turn : turns[u] \notin Gone /\ (updates[u].at = "entered" \/ updates[u].sent > 0)
                          => u \in active
    /\ late = {} => \A u \in active : turns[u] \notin Gone
    /\ late = {} /\ announced <= ended => \E u \in Turn : turns[u] # "removed"

LEMMA TypeInit == Init => TypeInv
BY EventConstants DEF Init, TypeInv, TypeOK, RoomLeft, Stages

\* What a number taken by Stamp does to the types of what it changes.
LEMMA StampType ==
    ASSUME TypeInv, NEW kind \in Kind, NEW t \in Turn, Stamp(kind, t)
    PROVE  /\ sequence' = sequence + 1 /\ sequence' \in Nat
           /\ stamped' \subseteq Event
           /\ \A e \in stamped' : e.sequence \in 1 .. sequence'
<1> DEFINE new == [sequence |-> sequence + 1, kind |-> kind, turn |-> t]
<1>1. sequence \in Nat /\ sequence' = sequence + 1 /\ stamped' = stamped \cup {new}
  BY DEF TypeInv, TypeOK, Stamp
<1>2. new \in Event /\ new.sequence \in 1 .. sequence'
  BY <1>1 DEF Event
<1>3. \A e \in stamped : e \in Event /\ e.sequence \in 1 .. sequence'
  BY <1>1 DEF TypeInv, TypeOK, Event
<1> QED  BY <1>1, <1>2, <1>3

LEMMA TypeStep == TypeInv /\ [Next]_vars => TypeInv'
<1> SUFFICES ASSUME TypeInv, [Next]_vars PROVE TypeInv'
  OBVIOUS
<1> USE EventConstants DEF TypeInv, RoomLeft
<1>1. ASSUME NEW t \in Turn, Accept(t) PROVE TypeInv'
  BY <1>1 DEF Accept, TypeOK, Stages
<1>2. ASSUME NEW t \in Turn, BuildUpdate(t) PROVE TypeInv'
  BY <1>2 DEF BuildUpdate, TypeOK, Stages
<1>3. ASSUME NEW t \in Turn, EnterTurn(t) PROVE TypeInv'
  BY <1>3 DEF EnterTurn, TypeOK, Stages
<1>4. ASSUME NEW t \in Turn, PublishUpdate(t) PROVE TypeInv'
  <2>1. "update" \in Kind /\ Stamp("update", t)
    BY <1>4 DEF PublishUpdate, Kind
  <2>2. sequence' = sequence + 1 /\ sequence' \in Nat /\ stamped' \subseteq Event
        /\ \A e \in stamped' : e.sequence \in 1 .. sequence'
    BY <2>1, StampType
  <2> QED  BY <1>4, <2>2 DEF PublishUpdate, TypeOK
<1>5. ASSUME NEW t \in Turn, TurnOver(t) PROVE TypeInv'
  BY <1>5 DEF TurnOver, TypeOK, Stages
<1>6. ASSUME NEW t \in Turn, PublishEnd(t) PROVE TypeInv'
  <2>1. "end" \in Kind /\ Stamp("end", t)
    BY <1>6 DEF PublishEnd, Kind
  <2>2. sequence' = sequence + 1 /\ sequence' \in Nat /\ stamped' \subseteq Event
        /\ \A e \in stamped' : e.sequence \in 1 .. sequence'
    BY <2>1, StampType
  <2> QED  BY <1>6, <2>2 DEF PublishEnd, TypeOK, Stages
<1>7. ASSUME NEW t \in Turn, PublishQuiescent(t) PROVE TypeInv'
  <2>1. "milestone" \in Kind /\ Stamp("milestone", t)
    BY <1>7 DEF PublishQuiescent, Kind
  <2>2. sequence' = sequence + 1 /\ sequence' \in Nat /\ stamped' \subseteq Event
        /\ \A e \in stamped' : e.sequence \in 1 .. sequence'
    BY <2>1, StampType
  <2> QED  BY <1>7, <2>2 DEF PublishQuiescent, TypeOK, Stages
<1>8. ASSUME NEW t \in Turn, Remove(t) PROVE TypeInv'
  BY <1>8 DEF Remove, TypeOK, Stages
<1>9. ASSUME NEW t \in Turn, AnnounceQuiet(t) PROVE TypeInv'
  <2>1. "milestone" \in Kind /\ Stamp("milestone", t)
    BY <1>9 DEF AnnounceQuiet, Kind
  <2>2. sequence' = sequence + 1 /\ sequence' \in Nat /\ stamped' \subseteq Event
        /\ \A e \in stamped' : e.sequence \in 1 .. sequence'
    BY <2>1, StampType
  <2> QED  BY <1>9, <2>2 DEF AnnounceQuiet, TypeOK, Stages
<1>10. ASSUME NEW e \in stamped, Emit(e) PROVE TypeInv'
  <2>1. e.sequence \in 1 .. sequence /\ sequence \in Nat
    BY DEF TypeOK
  <2>2. Gap(e.sequence) \subseteq 1 .. sequence
    BY <2>1 DEF Gap, TypeOK
  <2>3. /\ client' \in [last: Nat, first: Nat, missing: SUBSET Nat]
        /\ client'.last <= sequence /\ client'.missing \subseteq 1 .. sequence
    <3>1. CASE client' = client
      BY <3>1 DEF TypeOK
    <3>2. CASE client' = Accepted(e.sequence)
      BY <2>1, <2>2, <3>2 DEF TypeOK, Accepted
    <3> QED  BY <1>10, <3>1, <3>2 DEF Emit
  <2> QED  BY <1>10, <2>3 DEF Emit, TypeOK
<1>11. ASSUME NEW e \in stamped, EmitFails(e) PROVE TypeInv'
  BY <1>11 DEF EmitFails, TypeOK
<1>12. CASE UNCHANGED vars
  BY <1>12 DEF vars, TypeOK
<1> QED  BY <1>1, <1>2, <1>3, <1>4, <1>5, <1>6, <1>7, <1>8, <1>9, <1>10, <1>11, <1>12 DEF Next

\* Every part of the event path keeps its type, and numbers stay within those
\* the counter has given out, in every run of AgentEvents.
THEOREM TypeCorrect == Spec => []TypeOK
<1>1. TypeInv => TypeOK
  BY DEF TypeInv
<1> QED  BY <1>1, TypeInit, TypeStep, PTL DEF Spec

-----------------------------------------------------------------------------
LEMMA NumbersInit == Init => NumbersInv
BY DEF Init, NumbersInv, Outstanding

\* A number taken by Stamp is above all others: it disturbs nothing.
LEMMA StampNumbers ==
    ASSUME TypeInv, NumbersInv, NEW kind \in Kind, NEW t \in Turn, Stamp(kind, t),
           UNCHANGED <<lost, client>>
    PROVE  NumbersInv'
<1> DEFINE new == [sequence |-> sequence + 1, kind |-> kind, turn |-> t]
<1>1. /\ sequence \in Nat /\ stamped' = stamped \cup {new} /\ new.sequence = sequence + 1
      /\ \A e \in stamped : e.sequence \in 1 .. sequence
      /\ lost \subseteq 1 .. sequence
      /\ client.last \in Nat /\ client.last <= sequence
  BY DEF TypeInv, TypeOK, Stamp
<1> HIDE DEF new
<1>2. Outstanding' = Outstanding \cup {sequence + 1}
  BY <1>1 DEF Outstanding
<1>3. \A e \in stamped : e.sequence # new.sequence
  BY <1>1
<1>4. new.sequence \notin lost
  BY <1>1
<1>5. /\ \A e, f \in stamped' : e.sequence = f.sequence => e = f
      /\ \A e \in stamped' : e.sequence \notin lost'
  BY <1>1, <1>3, <1>4 DEF NumbersInv
<1>6. client'.last \notin Outstanding'
  BY <1>1, <1>2 DEF NumbersInv
<1>7. \A n \in Outstanding' : client'.first # 0 /\ client'.first < n /\ n < client'.last
                                 => n \in client'.missing
  BY <1>1, <1>2 DEF NumbersInv
<1> QED  BY <1>5, <1>6, <1>7 DEF NumbersInv

\* An event the window takes in: its number was outstanding, so it is not the
\* last one, and all outstanding numbers it passes over are in its gap.
LEMMA AcceptNumbers ==
    ASSUME TypeInv, NumbersInv, NEW e \in stamped, Emit(e)
    PROVE  NumbersInv'
<1> DEFINE n == e.sequence
<1>1. /\ stamped' = stamped \ {e} /\ lost' = lost
      /\ stamped \subseteq Event
      /\ n \in Nat /\ n > 0 /\ client.last \in Nat /\ client.first \in Nat
      /\ \A m \in Outstanding : m \in Nat /\ m > 0
  <2>1. stamped' = stamped \ {e} /\ lost' = lost
    BY DEF Emit
  <2>2. /\ stamped \subseteq Event /\ sequence \in Nat
        /\ \A d \in stamped : d.sequence \in 1 .. sequence
        /\ lost \subseteq 1 .. sequence
        /\ client.last \in Nat /\ client.first \in Nat
    BY DEF TypeInv, TypeOK
  <2>3. \A m \in Outstanding : m \in 1 .. sequence
    BY <2>2 DEF Outstanding
  <2> QED  BY <2>1, <2>2, <2>3
<1>2. n \in Outstanding /\ n # client.last
  BY DEF Outstanding, NumbersInv
<1>3. Outstanding' \subseteq Outstanding /\ n \notin Outstanding'
  BY <1>1 DEF Outstanding, NumbersInv
<1>4. /\ \A d, f \in stamped' : d.sequence = f.sequence => d = f
      /\ \A d \in stamped' : d.sequence \notin lost'
  BY <1>1 DEF NumbersInv
<1> HIDE DEF n
<1>5. CASE client' = client
  BY <1>1, <1>3, <1>4, <1>5 DEF NumbersInv
<1>6. CASE client' = Accepted(n)
  <2>1. /\ client'.last = IF n > client.last THEN n ELSE client.last
        /\ client'.first = IF client.first = 0 THEN n ELSE client.first
        /\ client'.missing = client.missing \cup Gap(n)
    BY <1>6 DEF Accepted
  <2>2. /\ client'.last \notin Outstanding'
        /\ client'.first <= client'.last
        /\ client'.first = 0 <=> client'.last = 0
    BY <1>1, <1>3, <2>1 DEF NumbersInv
  <2>3. ASSUME NEW m \in Outstanding', client'.first # 0, client'.first < m, m < client'.last
        PROVE  m \in client'.missing
    <3>1. m \in Outstanding /\ m \in Nat /\ m # client.last /\ m # n
      BY <1>1, <1>3, <2>3 DEF NumbersInv
    <3>2. client.first # 0
      BY <1>1, <2>1, <2>3, <3>1 DEF NumbersInv
    <3>3. CASE m < client.last
      BY <2>1, <2>3, <3>1, <3>2, <3>3 DEF NumbersInv
    <3>4. CASE client.last < m
      <4>1. n > client.last + 1 /\ client.last > 0 /\ m \in (client.last + 1) .. (n - 1)
        BY <1>1, <2>1, <2>3, <3>1, <3>2, <3>4 DEF NumbersInv
      <4> QED  BY <2>1, <4>1 DEF Gap
    <3> QED  BY <1>1, <3>1, <3>3, <3>4
  <2> QED  BY <1>4, <2>2, <2>3 DEF NumbersInv
<1> QED  BY <1>5, <1>6 DEF Emit, n

LEMMA NumbersStep == TypeInv /\ NumbersInv /\ [Next]_vars => NumbersInv'
<1> SUFFICES ASSUME TypeInv, NumbersInv, [Next]_vars PROVE NumbersInv'
  OBVIOUS
<1>1. CASE UNCHANGED <<stamped, lost, client>>
  BY <1>1 DEF NumbersInv, Outstanding
<1>2. ASSUME NEW t \in Turn,
             PublishUpdate(t) \/ PublishEnd(t) \/ PublishQuiescent(t) \/ AnnounceQuiet(t)
      PROVE  NumbersInv'
  <2>1. PICK kind \in Kind : Stamp(kind, t)
    BY <1>2 DEF PublishUpdate, PublishEnd, PublishQuiescent, AnnounceQuiet, Kind
  <2>2. UNCHANGED <<lost, client>>
    BY <1>2 DEF PublishUpdate, PublishEnd, PublishQuiescent, AnnounceQuiet
  <2> QED  BY <2>1, <2>2, StampNumbers
<1>3. ASSUME NEW e \in stamped, Emit(e) PROVE NumbersInv'
  BY <1>3, AcceptNumbers
<1>4. ASSUME NEW e \in stamped, EmitFails(e) PROVE NumbersInv'
  <2>1. stamped' = stamped \ {e} /\ lost' = lost \cup {e.sequence} /\ client' = client
    BY <1>4 DEF EmitFails
  <2>2. Outstanding' = Outstanding
    BY <2>1 DEF Outstanding
  <2> QED  BY <2>1, <2>2 DEF NumbersInv
<1>5. ASSUME NEW t \in Turn,
             \/ Accept(t) \/ BuildUpdate(t) \/ EnterTurn(t) \/ TurnOver(t) \/ Remove(t)
      PROVE  UNCHANGED <<stamped, lost, client>>
  BY <1>5 DEF Accept, BuildUpdate, EnterTurn, TurnOver, Remove
<1> QED  BY <1>1, <1>2, <1>3, <1>4, <1>5 DEF Next, vars

\* An event that was lost is reported missing once a later one has arrived, for
\* any interleaving of any number of publishers and whichever channels the
\* window listens to (acceptAgentEnvelope).
THEOREM LossesReported == Spec => []LossesAreReported
<1>1. NumbersInv => LossesAreReported
  BY DEF NumbersInv, LossesAreReported, Outstanding
<1> QED  BY <1>1, TypeInit, TypeStep, NumbersInit, NumbersStep, PTL DEF Spec

-----------------------------------------------------------------------------
LEMMA QuietInit == Turn # {} /\ Init => QuietInv
BY DEF Init, QuietInv

LEMMA QuietStep == TypeInv /\ QuietInv /\ [Next]_vars => QuietInv'
<1> SUFFICES ASSUME TypeInv, QuietInv, [Next]_vars PROVE QuietInv'
  OBVIOUS
<1> USE DEF Gone, QuietInv
<1>0. /\ turns \in [Turn -> Stages]
      /\ updates \in [Turn -> [at: {"idle", "built", "entered"}, sent: 0 .. MaxUpdates]]
      /\ sequence \in Nat /\ announced \in Nat /\ ended \in Nat
      /\ announced <= sequence /\ ended <= sequence
  BY DEF TypeInv, TypeOK
<1>1. ASSUME NEW t \in Turn, Accept(t) PROVE QuietInv'
  BY <1>0, <1>1 DEF Accept
<1>2. ASSUME NEW t \in Turn, BuildUpdate(t) PROVE QuietInv'
  BY <1>0, <1>2 DEF BuildUpdate
<1>3. ASSUME NEW t \in Turn, EnterTurn(t) PROVE QuietInv'
  BY <1>0, <1>3 DEF EnterTurn
<1>4. ASSUME NEW t \in Turn, PublishUpdate(t) PROVE QuietInv'
  BY <1>0, <1>4 DEF PublishUpdate
<1>5. ASSUME NEW t \in Turn, TurnOver(t) PROVE QuietInv'
  BY <1>0, <1>5 DEF TurnOver
<1>6. ASSUME NEW t \in Turn, PublishEnd(t) PROVE QuietInv'
  BY <1>0, <1>6 DEF PublishEnd
<1>7. ASSUME NEW t \in Turn, PublishQuiescent(t) PROVE QuietInv'
  BY <1>0, <1>7 DEF PublishQuiescent
<1>8. ASSUME NEW t \in Turn, Remove(t) PROVE QuietInv'
  <2>1. /\ active' = active \ {t} /\ UNCHANGED <<updates, announced, ended, late>>
        /\ turns' = [turns EXCEPT ![t] = IF active' = {} THEN "last" ELSE "removed"]
        /\ active \subseteq Turn
    BY <1>8 DEF Remove, TypeInv, TypeOK
  <2>2. ASSUME late = {} PROVE \E u \in Turn : turns'[u] # "removed"
    <3>1. CASE active' = {}
      BY <1>0, <2>1, <3>1
    <3>2. CASE active' # {}
      BY <1>0, <2>1, <2>2, <3>2
    <3> QED  BY <3>1, <3>2
  <2>3. late = {} => \A u \in active' : turns'[u] \notin Gone
    BY <1>0, <2>1
  <2>4. \A u \in Turn : turns'[u] \notin Gone => u # t /\ turns'[u] = turns[u]
    BY <1>0, <2>1
  <2> QED  BY <2>1, <2>2, <2>3, <2>4
<1>9. ASSUME NEW t \in Turn, AnnounceQuiet(t) PROVE QuietInv'
  <2>1. announced' > ended'
    BY <1>0, <1>9 DEF AnnounceQuiet, Stamp
  <2>2. announced' \in Nat /\ ended' \in Nat
    BY <1>0, <1>9 DEF AnnounceQuiet, Stamp
  <2> QED  BY <1>0, <1>9, <2>1, <2>2 DEF AnnounceQuiet
<1>10. ASSUME NEW e \in stamped, Emit(e) PROVE QuietInv'
  BY <1>10 DEF Emit
<1>11. ASSUME NEW e \in stamped, EmitFails(e) PROVE QuietInv'
  BY <1>11 DEF EmitFails
<1>12. CASE UNCHANGED vars
  BY <1>12 DEF vars
<1> QED  BY <1>1, <1>2, <1>3, <1>4, <1>5, <1>6, <1>7, <1>8, <1>9, <1>10, <1>11, <1>12 DEF Next

\* Once every accepted turn is removed, HostQuiescent has a number above those
\* of all their ends, unless an update came after its turn was removed.
THEOREM QuietAnnounced == Spec => []QuietIsAnnounced
<1>1. TypeInv /\ QuietInv => QuietIsAnnounced
  <2> SUFFICES ASSUME TypeInv, QuietInv, \A t \in Turn : turns[t] = "removed", late = {}
               PROVE  announced > ended
    BY DEF QuietIsAnnounced
  <2>1. announced \in Nat /\ ended \in Nat
    BY DEF TypeInv, TypeOK
  <2>2. ~(announced <= ended)
    BY DEF QuietInv
  <2> QED  BY <2>1, <2>2
<1>2. Init => QuietInv
  BY QuietInit, EventConstants
<1> QED  BY <1>1, <1>2, TypeInit, TypeStep, QuietStep, PTL DEF Spec

\* A step that finds the bus quiet removes a turn from a set that had no other.
LEMMA PassesOverSilent ==
    ASSUME TypeInv, QuietInv, [Next]_vars, NEW t \in Turn, NEW u \in Turn,
           turns[t] # "last", turns'[t] = "last", turns'[u] \notin {"last", "removed"}
    PROVE  updates[u].sent = 0 /\ updates[u].at # "entered"
<1>1. turns \in [Turn -> Stages] /\ updates[u].sent \in 0 .. MaxUpdates /\ MaxUpdates \in Nat
  BY EventConstants DEF TypeInv, TypeOK
<1>2. Remove(t)
  <2>1. PICK s \in Turn :
            \/ Accept(s) \/ TurnOver(s) \/ PublishEnd(s) \/ PublishQuiescent(s)
            \/ Remove(s) \/ AnnounceQuiet(s)
    <3>1. turns' # turns
      OBVIOUS
    <3>2. ASSUME NEW s \in Turn, BuildUpdate(s) \/ EnterTurn(s) \/ PublishUpdate(s)
          PROVE  turns' = turns
      BY <3>2 DEF BuildUpdate, EnterTurn, PublishUpdate
    <3>3. ASSUME NEW e \in stamped, Emit(e) \/ EmitFails(e) PROVE turns' = turns
      BY <3>3 DEF Emit, EmitFails
    <3> QED  BY <3>1, <3>2, <3>3 DEF Next, vars
  <2>2. CASE Remove(s)
    BY <1>1, <2>2 DEF Remove
  <2>3. CASE ~Remove(s)
    BY <1>1, <2>1, <2>3 DEF Accept, TurnOver, PublishEnd, PublishQuiescent, AnnounceQuiet
  <2> QED  BY <2>2, <2>3
<1>3. active' = {} /\ active' = active \ {t} /\ u # t /\ turns'[u] = turns[u]
  BY <1>1, <1>2 DEF Remove
<1>4. u \notin active
  BY <1>3
<1>5. ~(updates[u].at = "entered" \/ updates[u].sent > 0)
  BY <1>3, <1>4 DEF QuietInv, Gone
<1> QED  BY <1>1, <1>5

\* The bus never finds itself quiet past a turn that has published an update:
\* what HostQuiescent passes over has not been heard of (publish_turn).
THEOREM QuietPassesOverSilent == Spec => QuietPassesOverSilentTurnsOnly
<1>1. TypeInv /\ QuietInv /\ [Next]_vars =>
        [\A t, u \in Turn :
            turns[t] # "last" /\ turns'[t] = "last" /\ turns'[u] \notin {"last", "removed"} =>
                updates[u].sent = 0 /\ updates[u].at # "entered" ]_vars
  BY PassesOverSilent
<1>2. Init => QuietInv
  BY QuietInit, EventConstants
<1> QED  BY <1>1, <1>2, TypeInit, TypeStep, QuietStep, PTL
         DEF Spec, QuietPassesOverSilentTurnsOnly

=============================================================================
