---------------------------- MODULE TabHistories ----------------------------
(***************************************************************************)
(* What the tabs of the reader promise: "each tab owns its own back/forward *)
(* history", which behaves as a cursor on a trail of visited concepts.      *)
(* Back and Forward only move the cursor; a visit cuts the trail at the     *)
(* cursor and extends it, selecting nothing only cuts it; a live reload     *)
(* keeps every tab and may only replace or drop what a tab shows; a switch  *)
(* of bundles starts over.                                                  *)
(***************************************************************************)
EXTENDS Integers, Sequences

CONSTANTS
    Concept,    \* what a tab can show
    None        \* an empty tab, no concept

VARIABLES
    trails,     \* for each open tab its trail and the cursor on it
    current     \* the tab in front

vars == <<trails, current>>

\* A cursor stands on entry `at` (on = 1), or, in a tab that shows nothing,
\* between the entries `at` and `at + 1` (on = 0).
Trail == [entries: Seq(Concept), at: Nat, on: {0, 1}]

Fresh(c) == IF c = None
            THEN [entries |-> << >>, at |-> 0, on |-> 0]
            ELSE [entries |-> <<c>>, at |-> 1, on |-> 1]

Shown(t) == IF t.on = 1 THEN t.entries[t.at] ELSE None

Visited(t, c) == [entries |-> Append(SubSeq(t.entries, 1, t.at), c),
                  at |-> t.at + 1, on |-> 1]

\* The cursor behind the last entry, which is what was shown.
Cleared(t) == [entries |-> SubSeq(t.entries, 1, t.at), at |-> t.at, on |-> 0]

\* What a reload leaves of a tab: what it shows stays, becomes c, or goes.
Reloaded(t, c) ==
    CASE t.on = 1 /\ c # None -> [t EXCEPT !.entries[t.at] = c]
      [] t.on = 1 /\ c = None -> [entries |-> SubSeq(t.entries, 1, t.at - 1)
                                     \o SubSeq(t.entries, t.at + 1, Len(t.entries)),
                                  at |-> t.at - 1, on |-> 0]
      [] t.on = 0 /\ c # None -> [entries |-> SubSeq(t.entries, 1, t.at) \o <<c>>
                                     \o SubSeq(t.entries, t.at + 1, Len(t.entries)),
                                  at |-> t.at + 1, on |-> 1]
      [] OTHER -> t

Init == /\ current = 1
        /\ trails = [i \in {1} |-> Fresh(None)]

\* The actions relate the trails before a step to those after it.
Visit(old, new) == \E c \in Concept :
    /\ new = [old EXCEPT ![current] = Visited(@, c)]
    /\ UNCHANGED current

Clear(old, new) ==
    /\ old[current].on = 1
    /\ new = [old EXCEPT ![current] = Cleared(@)]
    /\ UNCHANGED current

\* Back stands on the entry before the cursor, Forward on the one after it.
Back(old, new) == LET t == old[current] IN
    /\ t.at - t.on >= 1
    /\ new = [old EXCEPT ![current].at = t.at - t.on, ![current].on = 1]
    /\ UNCHANGED current

Forward(old, new) == LET t == old[current] IN
    /\ t.at < Len(t.entries)
    /\ new = [old EXCEPT ![current].at = t.at + 1, ![current].on = 1]
    /\ UNCHANGED current

\* A new tab has an identity no open tab has; the others are untouched.
Open(old, new) == \E i \in DOMAIN new \ DOMAIN old, c \in Concept \cup {None} :
    /\ new = [j \in DOMAIN old \cup {i} |-> IF j = i THEN Fresh(c) ELSE old[j]]
    /\ current' \in {current, i}

\* Closing leaves at least one tab, and touches no other.
Close(old, new) == \E i \in DOMAIN old :
    /\ DOMAIN old # {i}
    /\ new = [j \in DOMAIN old \ {i} |-> old[j]]
    /\ current' \in DOMAIN new
    /\ i # current => current' = current

Focus(old, new) == current' \in DOMAIN old /\ new = old

\* A live reload: only the tab in front may be given something else to show.
Reload(old, new) ==
    /\ DOMAIN new = DOMAIN old
    /\ \A i \in DOMAIN old :
          LET o == old[i]  n == new[i]
          IN  \/ n = o
              \/ Shown(n) # Shown(o) /\ (i = current \/ Shown(n) = None)
                    /\ n = Reloaded(o, Shown(n))
    /\ UNCHANGED current

\* A switch of bundles closes every tab and opens one with no history.
Switch(old, new) == \E i \in DOMAIN new \ DOMAIN old, c \in Concept \cup {None} :
    /\ new = [j \in {i} |-> Fresh(c)]
    /\ current' = i

Next == \E old \in {trails}, new \in {trails'} :
    \/ Visit(old, new) \/ Clear(old, new) \/ Back(old, new) \/ Forward(old, new)
    \/ Open(old, new) \/ Close(old, new) \/ Focus(old, new) \/ Reload(old, new) \/ Switch(old, new)

Spec == Init /\ [][Next]_vars
=============================================================================
