----------------------------- MODULE ReaderTabs -----------------------------
(***************************************************************************)
(* The reader's tabs and the shared selection (src/src/shared/store.tsx):   *)
(* the reducer's branches that touch tabs, the switch and the live reload   *)
(* of a bundle, and the asynchronous tear-off of a tab into its own window. *)
(* `selection` is the mirror of the active tab that the rest of the app     *)
(* reads (activeConceptId, back, fwd). The flags that a branch sets beside   *)
(* (overview, palette, filters) have no bearing on the tabs and are left out. *)
(***************************************************************************)
EXTENDS Integers, FiniteSets, Sequences, SequencesExt

CONSTANTS
    Concept,        \* concept ids and folder-home ids
    RootHome,       \* the folder-home id of the bundle root
    Root,           \* bundle roots
    Content,        \* contents a parsed bundle can have
    None,           \* null
    MaxTabs,        \* bound: tabs open at once
    MaxTabId,       \* bound: tab identities handed out
    MaxHistory,     \* bound: entries in the histories of all tabs
    MaxUndocking    \* bound: tear-offs that wait for their windows

\* A parsed bundle: its concepts, whether its root has an index, and the first
\* concept its indexes list (or its first concept), which may not exist.
Parsed == [concepts: SUBSET (Concept \ {RootHome}), home: BOOLEAN, entry: Concept \cup {None}]

ASSUME ReaderConstants ==
    /\ RootHome \in Concept
    /\ None \notin Concept /\ None \notin Root
    /\ Content \subseteq Parsed
    /\ MaxTabs \in Nat /\ MaxTabId \in Nat /\ MaxHistory \in Nat /\ MaxUndocking \in Nat

VARIABLES
    tabs, activeTabId, nextTabId,
    selection,      \* [conceptId, back, fwd] of the active tab, mirrored
    activeRoot, bundle,
    undocking       \* tabs whose tear-off waits for its window

tabVars == <<tabs, activeTabId, nextTabId, selection>>
bundleVars == <<activeRoot, bundle>>
vars == <<tabVars, bundleVars, undocking>>

Tab == [id: Nat, conceptId: Concept \cup {None}, back: Seq(Concept), fwd: Seq(Concept)]

TypeOK ==
    /\ tabs \in Seq(Tab) /\ activeTabId \in Nat /\ nextTabId \in Nat
    /\ selection \in [conceptId: Concept \cup {None}, back: Seq(Concept), fwd: Seq(Concept)]
    /\ activeRoot \in Root \cup {None} /\ bundle \in Content \cup {None}
    /\ undocking \in SUBSET Nat

Ids == {tabs[k].id : k \in DOMAIN tabs}
NewTab(id, c) == [id |-> id, conceptId |-> c, back |-> << >>, fwd |-> << >>]
Position(id) == CHOOSE k \in DOMAIN tabs : tabs[k].id = id
ActiveTab == tabs[Position(activeTabId)]

Exists(b, c) == c \in b.concepts \/ (c = RootHome /\ b.home)
DefaultConcept(b) == IF b.home THEN RootHome ELSE b.entry

\* Mutant: the mirrors follow only a change of the tab in front.
MirrorOnlyOnChange(ts, id) ==
    LET k == CHOOSE j \in DOMAIN ts : ts[j].id = id
    IN  /\ tabs' = ts
        /\ activeTabId' = id
        /\ selection' = IF id = activeTabId THEN selection
                        ELSE [conceptId |-> ts[k].conceptId, back |-> ts[k].back, fwd |-> ts[k].fwd]

\* withTabs: every branch that changes the tabs or the active one derives the
\* mirrors from the tab in front.
WithTabs(ts, id) ==
    LET k == IF \E j \in DOMAIN ts : ts[j].id = id
             THEN CHOOSE j \in DOMAIN ts : ts[j].id = id ELSE 1
    IN  /\ tabs' = ts
        /\ activeTabId' = ts[k].id
        /\ selection' = [conceptId |-> ts[k].conceptId, back |-> ts[k].back, fwd |-> ts[k].fwd]

\* Navigation happens in the active tab, which becomes t.
InActiveTab(t) ==
    WithTabs([k \in DOMAIN tabs |-> IF tabs[k].id = activeTabId THEN t ELSE tabs[k]],
             activeTabId)

Init ==
    /\ tabs = <<NewTab(1, None)>> /\ activeTabId = 1 /\ nextTabId = 2
    /\ selection = [conceptId |-> None, back |-> << >>, fwd |-> << >>]
    /\ activeRoot = None /\ bundle = None
    /\ undocking = {}

-----------------------------------------------------------------------------
\* setBundle for another root: a new browsing context of a single tab, which
\* keeps the selection when the new bundle has it too.
SwitchBundle(root, b) ==
    /\ root # activeRoot
    /\ nextTabId < MaxTabId
    /\ LET kept == IF selection.conceptId # None /\ Exists(b, selection.conceptId)
                   THEN selection.conceptId ELSE DefaultConcept(b)
       IN  WithTabs(<<NewTab(nextTabId, kept)>>, nextTabId)
    /\ nextTabId' = nextTabId + 1
    /\ activeRoot' = root /\ bundle' = b
    /\ UNCHANGED undocking

\* What a tab of the same root shows once the bundle has been read again.
AfterReload(t, b) ==
    IF t.conceptId # None /\ Exists(b, t.conceptId) THEN t
    ELSE [t EXCEPT !.conceptId = IF t.id = activeTabId THEN DefaultConcept(b) ELSE None]

\* setBundle for the same root: a live reload.
ReloadBundle(b) ==
    /\ activeRoot # None
    /\ WithTabs([k \in DOMAIN tabs |-> AfterReload(tabs[k], b)], activeTabId)
    /\ bundle' = b
    /\ UNCHANGED <<nextTabId, activeRoot, undocking>>

\* Mutant: an empty tab leaves an entry behind.
LeftEmpty(t, c) == [t EXCEPT !.conceptId = c, !.back = Append(@, t.conceptId), !.fwd = << >>]

Left(t, c) == [t EXCEPT !.conceptId = c,
                        !.back = IF t.conceptId # None THEN Append(@, t.conceptId) ELSE @,
                        !.fwd = << >>]

Entries == FoldSeq(LAMBDA t, n : n + Len(t.back) + Len(t.fwd), 0, tabs)

\* A click beside the nodes of a graph selects nothing (None).
Select(c) ==
    /\ IF c = selection.conceptId
       THEN UNCHANGED <<tabs, activeTabId, selection>>
       ELSE /\ Entries < MaxHistory
            /\ InActiveTab(Left(ActiveTab, c))
    /\ UNCHANGED <<nextTabId, bundleVars, undocking>>

\* Mutant: what was shown goes to the far end of the forward entries.
WentBackFar(t) == [t EXCEPT !.back = SubSeq(@, 1, Len(@) - 1),
                            !.fwd = IF t.conceptId # None THEN Append(@, t.conceptId) ELSE @,
                            !.conceptId = t.back[Len(t.back)]]

WentBack(t) == [t EXCEPT !.back = SubSeq(@, 1, Len(@) - 1),
                         !.fwd = IF t.conceptId # None THEN <<t.conceptId>> \o @ ELSE @,
                         !.conceptId = t.back[Len(t.back)]]

Back ==
    /\ selection.back # << >>
    /\ InActiveTab(WentBack(ActiveTab))
    /\ UNCHANGED <<nextTabId, bundleVars, undocking>>

WentForward(t) == [t EXCEPT !.fwd = Tail(@),
                            !.back = IF t.conceptId # None THEN Append(@, t.conceptId) ELSE @,
                            !.conceptId = t.fwd[1]]

Forward ==
    /\ selection.fwd # << >>
    /\ InActiveTab(WentForward(ActiveTab))
    /\ UNCHANGED <<nextTabId, bundleVars, undocking>>

-----------------------------------------------------------------------------
\* openTab: beside the active tab, in front of it or in the background.
OpenTab(c, background) ==
    /\ nextTabId < MaxTabId /\ Len(tabs) < MaxTabs
    /\ WithTabs(InsertAt(tabs, Position(activeTabId) + 1, NewTab(nextTabId, c)),
                IF background THEN activeTabId ELSE nextTabId)
    /\ nextTabId' = nextTabId + 1
    /\ UNCHANGED <<bundleVars, undocking>>

\* The tab in front once tab id, at place k, is closed: its right neighbour, or
\* the new last one.
NextInFront(id, k) ==
    IF id = activeTabId
    THEN RemoveAt(tabs, k)[IF k <= Len(tabs) - 1 THEN k ELSE Len(tabs) - 1].id
    ELSE activeTabId

\* The branch "closeTab"; the last tab never closes.
CloseIfOpen(id) ==
    IF Len(tabs) > 1 /\ id \in Ids
    THEN WithTabs(RemoveAt(tabs, Position(id)), NextInFront(id, Position(id)))
    ELSE UNCHANGED <<tabs, activeTabId, selection>>

CloseTab(id) ==
    /\ id \in Ids
    /\ CloseIfOpen(id)
    /\ UNCHANGED <<nextTabId, bundleVars, undocking>>

ActivateTab(id) ==
    /\ id \in Ids \ {activeTabId}
    /\ WithTabs(tabs, id)
    /\ UNCHANGED <<nextTabId, bundleVars, undocking>>

CycleTab(dir) ==
    /\ Len(tabs) >= 2
    /\ LET k == Position(activeTabId) - 1
       IN  WithTabs(tabs, tabs[((k + dir + Len(tabs)) % Len(tabs)) + 1].id)
    /\ UNCHANGED <<nextTabId, bundleVars, undocking>>

MoveTab(id, to) ==
    /\ id \in Ids /\ to \in DOMAIN tabs
    /\ WithTabs(InsertAt(RemoveAt(tabs, Position(id)), to, tabs[Position(id)]), activeTabId)
    /\ UNCHANGED <<nextTabId, bundleVars, undocking>>

-----------------------------------------------------------------------------
\* popOutTab asks for a window on what the tab shows, and waits.
PopOut(id) ==
    /\ id \in Ids /\ activeRoot # None
    /\ Cardinality(undocking) < MaxUndocking
    /\ undocking' = undocking \cup {id}
    /\ UNCHANGED <<tabVars, bundleVars>>

\* The window exists (or could not be created): the local tab closes, whatever
\* happened to the tabs in the meantime.
PopOutDone(id, ok) ==
    /\ id \in undocking
    /\ undocking' = undocking \ {id}
    /\ IF ok THEN CloseIfOpen(id) ELSE UNCHANGED <<tabs, activeTabId, selection>>
    /\ UNCHANGED <<nextTabId, bundleVars>>

Next ==
    \/ \E root \in Root, b \in Content : SwitchBundle(root, b)
    \/ \E b \in Content : ReloadBundle(b)
    \/ \E c \in Concept \cup {None} : Select(c)
    \/ Back
    \/ Forward
    \/ \E c \in Concept \cup {None}, background \in BOOLEAN : OpenTab(c, background)
    \/ \E id \in Ids : CloseTab(id)
    \/ \E id \in Ids : ActivateTab(id)
    \/ \E dir \in {1, -1} : CycleTab(dir)
    \/ \E id \in Ids, to \in DOMAIN tabs : MoveTab(id, to)
    \/ \E id \in Ids : PopOut(id)
    \/ \E id \in undocking, ok \in BOOLEAN : PopOutDone(id, ok)

Spec == Init /\ [][Next]_vars

-----------------------------------------------------------------------------
\* The selection the rest of the app reads never drifts from the tab in front,
\* there always is one, and a tab's identity names no other tab, not even one
\* opened later (a tear-off completes by identity, long after it was asked for).
TabsWellFormed ==
    /\ tabs # << >>
    /\ \A j, k \in DOMAIN tabs : tabs[j].id = tabs[k].id => j = k
    /\ \A k \in DOMAIN tabs : tabs[k].id < nextTabId
    /\ \A id \in undocking : id < nextTabId
    /\ \E k \in DOMAIN tabs :
          /\ tabs[k].id = activeTabId
          /\ selection = [conceptId |-> tabs[k].conceptId,
                          back |-> tabs[k].back, fwd |-> tabs[k].fwd]

\* Every tab is a cursor on its own trail, moved only by what is done in that
\* tab ("each tab owns its own back/forward history", docs/features/navigation.md).
Cursor(t) ==
    LET on == IF t.conceptId = None THEN 0 ELSE 1
    IN  [entries |-> t.back \o (IF on = 1 THEN <<t.conceptId>> ELSE << >>) \o t.fwd,
         at |-> Len(t.back) + on, on |-> on]

Histories == INSTANCE TabHistories WITH
    trails <- [i \in Ids |-> Cursor(tabs[Position(i)])],
    current <- activeTabId

KeepsHistories == Histories!Spec
=============================================================================
