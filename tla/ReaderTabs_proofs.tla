-------------------------- MODULE ReaderTabs_proofs --------------------------
(***************************************************************************)
(* Theorems about ReaderTabs, for any bundles, contents and bounds.         *)
(***************************************************************************)
EXTENDS ReaderTabs, SequenceTheorems, TLAPS

-----------------------------------------------------------------------------
\* What SequencesExt's InsertAt and RemoveAt return.
LEMMA InsertAtProperties ==
    ASSUME NEW S, NEW s \in Seq(S), NEW e \in S, NEW i \in 1 .. Len(s) + 1
    PROVE  /\ InsertAt(s, i, e) \in Seq(S)
           /\ Len(InsertAt(s, i, e)) = Len(s) + 1
           /\ \A j \in 1 .. Len(s) + 1 :
                 InsertAt(s, i, e)[j] = IF j < i THEN s[j] ELSE IF j = i THEN e ELSE s[j - 1]
<1> DEFINE left == SubSeq(s, 1, i - 1)
           right == SubSeq(s, i, Len(s))
           one == <<e>>
           both == left \o one
           all == both \o right
<1>1. Len(s) \in Nat /\ i \in Nat /\ i >= 1 /\ i <= Len(s) + 1 /\ \A j \in 1 .. Len(s) : s[j] \in S
  BY LenProperties, ElementOfSeq
<1>2. /\ left \in Seq(S) /\ Len(left) = i - 1
      /\ \A j \in 1 .. i - 1 : left[j] = s[j]
  BY <1>1, SubSeqProperties
<1>3. /\ right \in Seq(S) /\ Len(right) = Len(s) - i + 1
      /\ \A j \in 1 .. Len(s) - i + 1 : right[j] = s[i + j - 1]
  BY <1>1, SubSeqProperties
<1>4. one \in Seq(S) /\ Len(one) = 1 /\ one[1] = e
  OBVIOUS
<1> HIDE DEF left, right, one
<1>5. /\ both \in Seq(S) /\ Len(both) = Len(left) + Len(one)
      /\ \A j \in 1 .. Len(left) + Len(one) :
            both[j] = IF j <= Len(left) THEN left[j] ELSE one[j - Len(left)]
  BY <1>2, <1>4, ConcatProperties
<1> HIDE DEF both
<1>51. both \in Seq(S) /\ right \in Seq(S)
  BY <1>3, <1>5
<1>6. /\ all \in Seq(S) /\ Len(all) = Len(both) + Len(right)
      /\ \A j \in 1 .. Len(both) + Len(right) :
            all[j] = IF j <= Len(both) THEN both[j] ELSE right[j - Len(both)]
  BY ONLY <1>51, ConcatProperties
<1> HIDE DEF all
<1>7. Len(both) = i /\ Len(all) = Len(s) + 1
  BY <1>1, <1>2, <1>3, <1>4, <1>5, <1>6
<1>8. ASSUME NEW j \in 1 .. Len(s) + 1
      PROVE  all[j] = IF j < i THEN s[j] ELSE IF j = i THEN e ELSE s[j - 1]
  <2>1. CASE j < i
    BY <1>1, <1>2, <1>4, <1>5, <1>6, <1>7, <2>1
  <2>2. CASE j = i
    BY <1>1, <1>2, <1>3, <1>4, <1>5, <1>6, <1>7, <2>2
  <2>3. CASE j > i
    <3>1. j - i \in 1 .. Len(s) - i + 1 /\ right[j - i] = s[i + (j - i) - 1] /\ i + (j - i) - 1 = j - 1
      BY <1>1, <1>3, <2>3
    <3>2. all[j] = right[j - i]
      BY <1>1, <1>3, <1>6, <1>7, <2>3
    <3> QED  BY <1>1, <2>3, <3>1, <3>2
  <2> QED  BY <1>1, <2>1, <2>2, <2>3
<1> QED  BY <1>6, <1>7, <1>8 DEF InsertAt, left, right, one, both, all

LEMMA RemoveAtProperties ==
    ASSUME NEW S, NEW s \in Seq(S), NEW i \in 1 .. Len(s)
    PROVE  /\ RemoveAt(s, i) \in Seq(S)
           /\ Len(RemoveAt(s, i)) = Len(s) - 1
           /\ \A j \in 1 .. Len(s) - 1 : RemoveAt(s, i)[j] = IF j < i THEN s[j] ELSE s[j + 1]
<1> DEFINE left == SubSeq(s, 1, i - 1)
           right == SubSeq(s, i + 1, Len(s))
           all == left \o right
<1>1. Len(s) \in Nat /\ i \in Nat /\ i >= 1 /\ i <= Len(s) /\ \A j \in 1 .. Len(s) : s[j] \in S
  BY LenProperties, ElementOfSeq
<1>2. /\ left \in Seq(S) /\ Len(left) = i - 1
      /\ \A j \in 1 .. i - 1 : left[j] = s[j]
  BY <1>1, SubSeqProperties
<1>3. /\ right \in Seq(S) /\ Len(right) = Len(s) - i
      /\ \A j \in 1 .. Len(s) - i : right[j] = s[i + j]
  BY <1>1, SubSeqProperties
<1> HIDE DEF left, right
<1>4. /\ all \in Seq(S) /\ Len(all) = Len(left) + Len(right)
      /\ \A j \in 1 .. Len(left) + Len(right) :
            all[j] = IF j <= Len(left) THEN left[j] ELSE right[j - Len(left)]
  BY <1>2, <1>3, ConcatProperties
<1> HIDE DEF all
<1>5. ASSUME NEW j \in 1 .. Len(s) - 1
      PROVE  all[j] = IF j < i THEN s[j] ELSE s[j + 1]
  <2>1. CASE j < i
    BY <1>1, <1>2, <1>3, <1>4, <2>1, SMTT(40)
  <2>2. CASE j >= i
    <3>1. /\ j - (i - 1) \in 1 .. Len(s) - i /\ i + (j - (i - 1)) = j + 1
          /\ j \in 1 .. (i - 1) + (Len(s) - i) /\ ~(j <= i - 1)
      BY <1>1, <2>2
    <3>2. right[j - (i - 1)] = s[j + 1]
      BY <1>3, <3>1
    <3>3. all[j] = right[j - (i - 1)]
      <4>1. \A k \in 1 .. (i - 1) + (Len(s) - i) :
               all[k] = IF k <= i - 1 THEN left[k] ELSE right[k - (i - 1)]
        BY <1>2, <1>3, <1>4
      <4> QED  BY <3>1, <4>1
    <3> QED  BY <1>1, <2>2, <3>2, <3>3
  <2> QED  BY <1>1, <2>1, <2>2
<1>6. all \in Seq(S) /\ Len(all) = Len(s) - 1
  BY <1>1, <1>2, <1>3, <1>4
<1>7. RemoveAt(s, i) = all
  BY DEF RemoveAt, left, right, all
<1> QED  BY <1>5, <1>6, <1>7

-----------------------------------------------------------------------------
Inv == TypeOK /\ TabsWellFormed

\* Tabs that can be the reader's: each with an identity of its own, below next.
Proper(ts, next) ==
    /\ ts \in Seq(Tab)
    /\ \A j, k \in DOMAIN ts : ts[j].id = ts[k].id => j = k
    /\ \A k \in DOMAIN ts : ts[k].id < next

LEMMA MapSeq ==
    ASSUME NEW S, NEW T, NEW s \in Seq(S), NEW f, DOMAIN f = DOMAIN s,
           f = [k \in DOMAIN s |-> f[k]], \A k \in DOMAIN s : f[k] \in T
    PROVE  f \in Seq(T) /\ Len(f) = Len(s) /\ DOMAIN f = 1 .. Len(s)
<1>1. Len(s) \in Nat /\ DOMAIN s = 1 .. Len(s)
  BY LenProperties
<1>2. f \in [1 .. Len(s) -> T]
  BY <1>1
<1>3. f \in Seq(T)
  BY <1>1, <1>2, SeqDef
<1>4. Len(f) \in Nat /\ DOMAIN f = 1 .. Len(f)
  BY <1>3, LenProperties
<1> QED  BY <1>1, <1>3, <1>4

\* The tab in front is where the mirrors come from.
LEMMA InvParts ==
    ASSUME Inv
    PROVE  /\ Proper(tabs, nextTabId) /\ Len(tabs) \in Nat /\ DOMAIN tabs = 1 .. Len(tabs)
           /\ Len(tabs) >= 1 /\ activeTabId \in Ids
           /\ \A k \in DOMAIN tabs : tabs[k] \in Tab
           /\ \A k \in DOMAIN tabs : Position(tabs[k].id) = k
           /\ Position(activeTabId) \in DOMAIN tabs
           /\ ActiveTab \in Tab /\ ActiveTab.id = activeTabId
           /\ selection = [conceptId |-> ActiveTab.conceptId,
                           back |-> ActiveTab.back, fwd |-> ActiveTab.fwd]
<1>1. Proper(tabs, nextTabId)
  BY DEF Inv, TypeOK, TabsWellFormed, Proper
<1>2. Len(tabs) \in Nat /\ DOMAIN tabs = 1 .. Len(tabs) /\ \A k \in DOMAIN tabs : tabs[k] \in Tab
  BY <1>1, LenProperties, ElementOfSeq DEF Proper
<1>3. \A k \in DOMAIN tabs : Position(tabs[k].id) = k
  BY <1>1 DEF Proper, Position
<1>4. PICK k \in DOMAIN tabs :
         /\ tabs[k].id = activeTabId
         /\ selection = [conceptId |-> tabs[k].conceptId, back |-> tabs[k].back, fwd |-> tabs[k].fwd]
  BY DEF Inv, TabsWellFormed
<1>5. Position(activeTabId) = k /\ activeTabId \in Ids /\ ActiveTab = tabs[k]
  BY <1>3, <1>4 DEF Ids, ActiveTab
<1>6. Len(tabs) >= 1
  BY <1>2, <1>4
<1> QED  BY <1>1, <1>2, <1>3, <1>4, <1>5, <1>6

\* What a branch of the reducer that ends in withTabs has to show.
LEMMA WithTabsStep ==
    ASSUME NEW ts, NEW i \in DOMAIN ts, ts \in Seq(Tab), WithTabs(ts, ts[i].id)
    PROVE  /\ tabs' = ts /\ activeTabId' = ts[i].id
           /\ \E k \in DOMAIN ts :
                 /\ ts[k].id = ts[i].id
                 /\ selection' = [conceptId |-> ts[k].conceptId,
                                  back |-> ts[k].back, fwd |-> ts[k].fwd]
<1> DEFINE k == CHOOSE j \in DOMAIN ts : ts[j].id = ts[i].id
<1>1. k \in DOMAIN ts /\ ts[k].id = ts[i].id
  OBVIOUS
<1>2. /\ tabs' = ts /\ activeTabId' = ts[k].id
      /\ selection' = [conceptId |-> ts[k].conceptId, back |-> ts[k].back, fwd |-> ts[k].fwd]
  BY DEF WithTabs
<1> QED  BY <1>1, <1>2

LEMMA WithTabsKeeps ==
    ASSUME NEW ts, NEW i \in DOMAIN ts, WithTabs(ts, ts[i].id),
           nextTabId' \in Nat, Proper(ts, nextTabId'),
           activeRoot' \in Root \cup {None}, bundle' \in Content \cup {None},
           undocking' \in SUBSET Nat, \A id \in undocking' : id < nextTabId'
    PROVE  Inv'
<1>1. ts \in Seq(Tab)
  BY DEF Proper
<1>2. PICK k \in DOMAIN ts :
         /\ tabs' = ts /\ activeTabId' = ts[i].id /\ ts[k].id = ts[i].id
         /\ selection' = [conceptId |-> ts[k].conceptId, back |-> ts[k].back, fwd |-> ts[k].fwd]
  BY <1>1, WithTabsStep
<1>3. ts[k] \in Tab
  BY <1>1, LenProperties, ElementOfSeq
<1>4. TypeOK'
  BY <1>1, <1>2, <1>3 DEF TypeOK, Tab
<1>5. TabsWellFormed'
  <2>1. ts # << >>
    BY <1>1, EmptySeq
  <2> QED  BY <1>2, <2>1 DEF TabsWellFormed, Proper
<1> QED  BY <1>4, <1>5 DEF Inv

LEMMA TabsInit == Init => Inv
<1> SUFFICES ASSUME Init PROVE Inv
  OBVIOUS
<1>1. NewTab(1, None) \in Tab
  BY EmptySeq DEF NewTab, Tab
<1>2. tabs = <<NewTab(1, None)>> /\ tabs \in Seq(Tab) /\ Len(tabs) = 1 /\ DOMAIN tabs = {1}
      /\ tabs[1] = NewTab(1, None)
  BY <1>1 DEF Init
<1>3. TypeOK
  BY <1>2, EmptySeq DEF Init, TypeOK
<1>4. TabsWellFormed
  BY <1>2 DEF Init, TabsWellFormed, NewTab
<1> QED  BY <1>3, <1>4 DEF Inv

-----------------------------------------------------------------------------
\* A step within the active tab, which becomes t.
LEMMA ActiveTabStep ==
    ASSUME Inv, NEW t \in Tab, t.id = activeTabId, InActiveTab(t),
           UNCHANGED <<nextTabId, activeRoot, bundle, undocking>>
    PROVE  /\ Inv' /\ activeTabId' = activeTabId
           /\ DOMAIN tabs' = DOMAIN tabs
           /\ \A k \in DOMAIN tabs : tabs'[k] = IF tabs[k].id = activeTabId THEN t ELSE tabs[k]
<1> DEFINE ts == [k \in DOMAIN tabs |-> IF tabs[k].id = activeTabId THEN t ELSE tabs[k]]
           i == Position(activeTabId)
<1>1. /\ Proper(tabs, nextTabId) /\ DOMAIN tabs = 1 .. Len(tabs)
      /\ \A k \in DOMAIN tabs : tabs[k] \in Tab
      /\ i \in DOMAIN tabs /\ tabs[i].id = activeTabId
  BY InvParts DEF ActiveTab
<1>2. ts \in Seq(Tab) /\ DOMAIN ts = DOMAIN tabs
  BY <1>1, MapSeq DEF Proper
<1>3. /\ \A k \in DOMAIN tabs : ts[k] = IF tabs[k].id = activeTabId THEN t ELSE tabs[k]
      /\ \A k \in DOMAIN tabs : ts[k].id = tabs[k].id
  OBVIOUS
<1>4. ts[i].id = activeTabId /\ i \in DOMAIN ts
  BY <1>1, <1>2, <1>3
<1>5. WithTabs(ts, ts[i].id)
  BY <1>4 DEF InActiveTab
<1> HIDE DEF ts, i
<1>6. Proper(ts, nextTabId)
  BY <1>1, <1>2, <1>3 DEF Proper
<1>7. tabs' = ts /\ activeTabId' = activeTabId
  BY <1>2, <1>4, <1>5, WithTabsStep
<1>8. Inv'
  BY <1>4, <1>5, <1>6, WithTabsKeeps DEF Inv, TypeOK, TabsWellFormed
<1> QED  BY <1>2, <1>3, <1>7, <1>8

\* The active tab after a visit, and after Back and Forward.
LEMMA LeftType ==
    ASSUME NEW t \in Tab, NEW c \in Concept \cup {None}
    PROVE  /\ Left(t, c) \in Tab /\ Left(t, c).id = t.id
           /\ Left(t, c).conceptId = c /\ Left(t, c).fwd = << >>
           /\ Left(t, c).back = IF t.conceptId # None THEN Append(t.back, t.conceptId) ELSE t.back
<1>1. t.conceptId \in Concept \cup {None} /\ t.back \in Seq(Concept) /\ t.id \in Nat
  BY DEF Tab
<1>2. (IF t.conceptId # None THEN Append(t.back, t.conceptId) ELSE t.back) \in Seq(Concept)
  BY <1>1, AppendProperties
<1>3. << >> \in Seq(Concept)
  BY EmptySeq
<1> QED  BY <1>2, <1>3 DEF Left, Tab

LEMMA WentBackType ==
    ASSUME NEW t \in Tab, t.back # << >>
    PROVE  /\ WentBack(t) \in Tab /\ WentBack(t).id = t.id
           /\ t.back[Len(t.back)] \in Concept /\ Len(t.back) \in Nat \ {0}
           /\ WentBack(t).conceptId = t.back[Len(t.back)]
           /\ WentBack(t).back = SubSeq(t.back, 1, Len(t.back) - 1)
           /\ WentBack(t).fwd = IF t.conceptId # None THEN <<t.conceptId>> \o t.fwd ELSE t.fwd
<1>1. /\ t.conceptId \in Concept \cup {None} /\ t.id \in Nat
      /\ t.back \in Seq(Concept) /\ t.fwd \in Seq(Concept)
  BY DEF Tab
<1>2. /\ Len(t.back) \in Nat \ {0}
      /\ \A k \in 1 .. Len(t.back) : t.back[k] \in Concept
  BY <1>1, EmptySeq, ElementOfSeq
<1>3. SubSeq(t.back, 1, Len(t.back) - 1) \in Seq(Concept)
  BY <1>2, SubSeqProperties
<1>4. (IF t.conceptId # None THEN <<t.conceptId>> \o t.fwd ELSE t.fwd) \in Seq(Concept)
  <2>1. CASE t.conceptId = None
    BY <1>1, <2>1
  <2>2. CASE t.conceptId # None
    <3>1. <<t.conceptId>> \in Seq(Concept)
      BY <1>1, <2>2
    <3> QED  BY <1>1, <2>2, <3>1, ConcatProperties
  <2> QED  BY <2>1, <2>2
<1>5. t.back[Len(t.back)] \in Concept
  BY <1>2
<1> QED  BY <1>2, <1>3, <1>4, <1>5 DEF WentBack, Tab

LEMMA WentForwardType ==
    ASSUME NEW t \in Tab, t.fwd # << >>
    PROVE  /\ WentForward(t) \in Tab /\ WentForward(t).id = t.id
           /\ t.fwd[1] \in Concept /\ Len(t.fwd) \in Nat \ {0}
           /\ WentForward(t).conceptId = t.fwd[1]
           /\ WentForward(t).fwd = Tail(t.fwd)
           /\ WentForward(t).back =
                 IF t.conceptId # None THEN Append(t.back, t.conceptId) ELSE t.back
<1>1. /\ t.conceptId \in Concept \cup {None} /\ t.id \in Nat
      /\ t.back \in Seq(Concept) /\ t.fwd \in Seq(Concept)
  BY DEF Tab
<1>2. /\ Len(t.fwd) \in Nat \ {0}
      /\ \A k \in 1 .. Len(t.fwd) : t.fwd[k] \in Concept
  BY <1>1, EmptySeq, ElementOfSeq
<1>3. Tail(t.fwd) \in Seq(Concept)
  BY <1>1, HeadTailProperties
<1>4. (IF t.conceptId # None THEN Append(t.back, t.conceptId) ELSE t.back) \in Seq(Concept)
  BY <1>1, AppendProperties
<1>5. t.fwd[1] \in Concept
  BY <1>2
<1> QED  BY <1>2, <1>3, <1>4, <1>5 DEF WentForward, Tab

\* The tabs with one more at place i, and with one fewer.
LEMMA InsertedTabs ==
    ASSUME NEW ts, NEW next \in Nat, Proper(ts, next), NEW t \in Tab,
           \A k \in DOMAIN ts : ts[k].id # t.id, t.id < next,
           NEW i \in 1 .. Len(ts) + 1
    PROVE  /\ Proper(InsertAt(ts, i, t), next)
           /\ DOMAIN InsertAt(ts, i, t) = 1 .. Len(ts) + 1 /\ Len(ts) \in Nat
           /\ \A j \in 1 .. Len(ts) + 1 : InsertAt(ts, i, t)[j] =
                 IF j < i THEN ts[j] ELSE IF j = i THEN t ELSE ts[j - 1]
<1> DEFINE us == InsertAt(ts, i, t)
<1>1. Len(ts) \in Nat /\ DOMAIN ts = 1 .. Len(ts) /\ ts \in Seq(Tab)
  BY LenProperties DEF Proper
<1>2. /\ us \in Seq(Tab) /\ Len(us) = Len(ts) + 1
      /\ \A j \in 1 .. Len(ts) + 1 : us[j] =
            IF j < i THEN ts[j] ELSE IF j = i THEN t ELSE ts[j - 1]
  BY <1>1, InsertAtProperties
<1> HIDE DEF us
<1>3. DOMAIN us = 1 .. Len(ts) + 1
  BY <1>1, <1>2, LenProperties
<1>4. \A k \in DOMAIN us : us[k].id < next
  BY <1>1, <1>2, <1>3, SMTT(40) DEF Proper
<1>5. ASSUME NEW j \in DOMAIN us, NEW k \in DOMAIN us, us[j].id = us[k].id PROVE j = k
  <2> DEFINE from(m) == IF m < i THEN m ELSE m - 1
  <2>1. \A m \in DOMAIN us : m # i => from(m) \in DOMAIN ts /\ us[m] = ts[from(m)]
    BY <1>1, <1>2, <1>3
  <2>2. us[i] = t /\ i \in DOMAIN us
    BY <1>1, <1>2, <1>3
  <2>3. CASE j = i \/ k = i
    BY <1>5, <2>1, <2>2, <2>3
  <2>4. CASE j # i /\ k # i
    <3>1. from(j) = from(k)
      BY <1>5, <2>1, <2>4 DEF Proper
    <3> QED  BY <1>1, <1>3, <2>4, <3>1
  <2> QED  BY <2>3, <2>4
<1>6. Proper(us, next)
  BY <1>2, <1>4, <1>5 DEF Proper
<1> QED  BY <1>1, <1>2, <1>3, <1>6 DEF us

LEMMA RemovedTabs ==
    ASSUME NEW ts, NEW next \in Nat, Proper(ts, next), NEW i \in 1 .. Len(ts)
    PROVE  /\ Proper(RemoveAt(ts, i), next)
           /\ DOMAIN RemoveAt(ts, i) = 1 .. Len(ts) - 1 /\ Len(ts) \in Nat
           /\ Len(RemoveAt(ts, i)) = Len(ts) - 1
           /\ \A j \in 1 .. Len(ts) - 1 : RemoveAt(ts, i)[j] = IF j < i THEN ts[j] ELSE ts[j + 1]
<1> DEFINE us == RemoveAt(ts, i)
<1>1. Len(ts) \in Nat /\ DOMAIN ts = 1 .. Len(ts) /\ ts \in Seq(Tab)
  BY LenProperties DEF Proper
<1>2. /\ us \in Seq(Tab) /\ Len(us) = Len(ts) - 1
      /\ \A j \in 1 .. Len(ts) - 1 : us[j] = IF j < i THEN ts[j] ELSE ts[j + 1]
  BY <1>1, RemoveAtProperties
<1> HIDE DEF us
<1>3. DOMAIN us = 1 .. Len(ts) - 1
  BY <1>1, <1>2, LenProperties
<1> DEFINE from(m) == IF m < i THEN m ELSE m + 1
<1>4. \A m \in DOMAIN us : from(m) \in DOMAIN ts /\ us[m] = ts[from(m)]
  BY <1>1, <1>2, <1>3
<1>5. ASSUME NEW j \in DOMAIN us, NEW k \in DOMAIN us, us[j].id = us[k].id PROVE j = k
  <2>1. from(j) = from(k)
    BY <1>4, <1>5 DEF Proper
  <2> QED  BY <1>1, <1>3, <2>1
<1>6. Proper(us, next)
  <2>1. \A m \in DOMAIN us : us[m].id < next
    BY <1>4 DEF Proper
  <2> QED  BY <1>2, <1>5, <2>1 DEF Proper
<1> QED  BY <1>1, <1>2, <1>3, <1>6 DEF us

-----------------------------------------------------------------------------
\* What each branch does to the tabs, and that it keeps the invariant.
LEMMA ContentTypes ==
    ASSUME NEW b \in Content
    PROVE  /\ DefaultConcept(b) \in Concept \cup {None}
           /\ \A c : Exists(b, c) => c \in Concept
<1>1. b \in Parsed
  BY ReaderConstants
<1> QED  BY <1>1, ReaderConstants DEF Parsed, DefaultConcept, Exists

LEMMA SwitchStep ==
    ASSUME Inv, NEW root \in Root, NEW b \in Content, SwitchBundle(root, b)
    PROVE  /\ Inv'
           /\ \E c \in Concept \cup {None} :
                 /\ tabs' = <<NewTab(nextTabId, c)>> /\ DOMAIN tabs' = {1}
                 /\ tabs'[1] = NewTab(nextTabId, c) /\ activeTabId' = nextTabId
<1> DEFINE c == IF selection.conceptId # None /\ Exists(b, selection.conceptId)
                THEN selection.conceptId ELSE DefaultConcept(b)
           ts == <<NewTab(nextTabId, c)>>
<1>1. c \in Concept \cup {None} /\ nextTabId \in Nat
  BY ContentTypes DEF Inv, TypeOK
<1>2. NewTab(nextTabId, c) \in Tab /\ NewTab(nextTabId, c).id = nextTabId
  BY <1>1, EmptySeq DEF NewTab, Tab
<1>3. ts \in Seq(Tab) /\ DOMAIN ts = {1} /\ ts[1] = NewTab(nextTabId, c)
  BY <1>2
<1>4. /\ WithTabs(ts, nextTabId) /\ nextTabId' = nextTabId + 1
      /\ activeRoot' = root /\ bundle' = b /\ undocking' = undocking
  BY DEF SwitchBundle
<1> HIDE DEF c
<1>5. WithTabs(ts, ts[1].id) /\ 1 \in DOMAIN ts
  BY <1>2, <1>3, <1>4
<1> HIDE DEF ts
<1>6. Proper(ts, nextTabId')
  BY <1>1, <1>2, <1>3, <1>4 DEF Proper
<1>7. tabs' = ts /\ activeTabId' = nextTabId
  BY <1>2, <1>3, <1>5, WithTabsStep
<1>8. /\ nextTabId' \in Nat /\ activeRoot' \in Root \cup {None} /\ bundle' \in Content \cup {None}
      /\ undocking' \in SUBSET Nat /\ \A id \in undocking' : id < nextTabId'
  BY <1>1, <1>4 DEF Inv, TypeOK, TabsWellFormed
<1>9. Inv'
  BY <1>5, <1>6, <1>8, WithTabsKeeps
<1> QED  BY <1>1, <1>3, <1>7, <1>9 DEF ts

LEMMA ReloadStep ==
    ASSUME Inv, NEW b \in Content, ReloadBundle(b)
    PROVE  /\ Inv' /\ activeTabId' = activeTabId /\ DOMAIN tabs' = DOMAIN tabs
           /\ \A k \in DOMAIN tabs : tabs'[k] = AfterReload(tabs[k], b)
<1> DEFINE ts == [k \in DOMAIN tabs |-> AfterReload(tabs[k], b)]
           i == Position(activeTabId)
<1>1. /\ Proper(tabs, nextTabId) /\ DOMAIN tabs = 1 .. Len(tabs)
      /\ \A k \in DOMAIN tabs : tabs[k] \in Tab
      /\ i \in DOMAIN tabs /\ tabs[i].id = activeTabId
  BY InvParts DEF ActiveTab
<1>2. \A t \in Tab : AfterReload(t, b) \in Tab /\ AfterReload(t, b).id = t.id
  BY ContentTypes DEF AfterReload, Tab
<1>3. ts \in Seq(Tab) /\ DOMAIN ts = DOMAIN tabs
  BY <1>1, <1>2, MapSeq DEF Proper
<1>4. \A k \in DOMAIN tabs : ts[k] = AfterReload(tabs[k], b) /\ ts[k].id = tabs[k].id
  BY <1>1, <1>2
<1>5. /\ WithTabs(ts, activeTabId) /\ bundle' = b
      /\ UNCHANGED <<nextTabId, activeRoot, undocking>>
  BY DEF ReloadBundle
<1> HIDE DEF ts, i
<1>6. WithTabs(ts, ts[i].id) /\ i \in DOMAIN ts /\ ts[i].id = activeTabId
  BY <1>1, <1>3, <1>4, <1>5
<1>7. Proper(ts, nextTabId)
  BY <1>1, <1>3, <1>4 DEF Proper
<1>8. tabs' = ts /\ activeTabId' = activeTabId
  BY <1>3, <1>6, WithTabsStep
<1>9. Inv'
  BY <1>5, <1>6, <1>7, WithTabsKeeps DEF Inv, TypeOK, TabsWellFormed
<1> QED  BY <1>3, <1>4, <1>8, <1>9

LEMMA OpenStep ==
    ASSUME Inv, NEW c \in Concept \cup {None}, NEW background \in BOOLEAN, OpenTab(c, background)
    PROVE  /\ Inv' /\ activeTabId' \in {activeTabId, nextTabId}
           /\ {tabs'[k] : k \in DOMAIN tabs'} =
                 {tabs[k] : k \in DOMAIN tabs} \cup {NewTab(nextTabId, c)}
<1> DEFINE new == NewTab(nextTabId, c)
           p == Position(activeTabId) + 1
           ts == InsertAt(tabs, p, new)
           i == IF background THEN p - 1 ELSE p
<1>1. /\ Proper(tabs, nextTabId) /\ DOMAIN tabs = 1 .. Len(tabs) /\ Len(tabs) \in Nat
      /\ Position(activeTabId) \in DOMAIN tabs /\ tabs[Position(activeTabId)].id = activeTabId
  BY InvParts DEF ActiveTab
<1>2. nextTabId \in Nat /\ new \in Tab /\ new.id = nextTabId
  BY EmptySeq DEF NewTab, Tab, Inv, TypeOK
<1>3. p \in 1 .. Len(tabs) + 1 /\ p - 1 \in 1 .. Len(tabs) /\ tabs[p - 1].id = activeTabId
  BY <1>1
<1>4. /\ WithTabs(ts, IF background THEN activeTabId ELSE nextTabId)
      /\ nextTabId' = nextTabId + 1 /\ UNCHANGED <<activeRoot, bundle, undocking>>
  BY DEF OpenTab, bundleVars
<1> HIDE DEF new, p
<1>5. /\ Proper(tabs, nextTabId + 1) /\ \A k \in DOMAIN tabs : tabs[k].id # new.id
      /\ new.id < nextTabId + 1
  <2>1. \A k \in DOMAIN tabs : tabs[k].id \in Nat /\ tabs[k].id < nextTabId
    BY InvParts DEF Proper, Tab
  <2> QED  BY <1>1, <1>2, <2>1 DEF Proper
<1>6. /\ Proper(ts, nextTabId + 1) /\ DOMAIN ts = 1 .. Len(tabs) + 1
      /\ \A j \in 1 .. Len(tabs) + 1 :
            ts[j] = IF j < p THEN tabs[j] ELSE IF j = p THEN new ELSE tabs[j - 1]
  BY <1>2, <1>3, <1>5, InsertedTabs
<1> HIDE DEF ts
<1>7. i \in DOMAIN ts /\ ts[i].id = IF background THEN activeTabId ELSE nextTabId
  <2>1. p \in DOMAIN ts /\ ts[p] = new
    BY <1>1, <1>3, <1>6
  <2>2. p - 1 \in DOMAIN ts /\ ts[p - 1] = tabs[p - 1]
    BY <1>1, <1>3, <1>6
  <2> QED  BY <1>2, <1>3, <2>1, <2>2
<1> HIDE DEF i
<1>8. tabs' = ts /\ activeTabId' \in {activeTabId, nextTabId}
  BY <1>4, <1>6, <1>7, WithTabsStep DEF Proper
<1>9. Inv'
  <2>1. /\ nextTabId' \in Nat /\ activeRoot' \in Root \cup {None} /\ bundle' \in Content \cup {None}
        /\ undocking' \in SUBSET Nat /\ \A id \in undocking' : id < nextTabId'
    BY <1>2, <1>4 DEF Inv, TypeOK, TabsWellFormed
  <2> QED  BY <1>4, <1>6, <1>7, <2>1, WithTabsKeeps
<1>10. {ts[k] : k \in DOMAIN ts} = {tabs[k] : k \in DOMAIN tabs} \cup {new}
  <2>1. ASSUME NEW j \in DOMAIN ts PROVE ts[j] \in {tabs[k] : k \in DOMAIN tabs} \cup {new}
    BY <1>1, <1>3, <1>6
  <2>2. ASSUME NEW k \in DOMAIN tabs PROVE tabs[k] \in {ts[j] : j \in DOMAIN ts}
    <3>1. CASE k < p
      BY <1>1, <1>3, <1>6, <3>1
    <3>2. CASE k >= p
      <4>1. k + 1 \in DOMAIN ts /\ ts[k + 1] = tabs[k]
        BY <1>1, <1>3, <1>6, <3>2
      <4> QED  BY <4>1
    <3> QED  BY <1>1, <1>3, <3>1, <3>2
  <2>3. new \in {ts[j] : j \in DOMAIN ts}
    BY <1>1, <1>3, <1>6
  <2> QED  BY <2>1, <2>2, <2>3
<1> QED  BY <1>8, <1>9, <1>10 DEF new

\* The tabs with the one at place i removed are the others.
LEMMA RemovedSet ==
    ASSUME NEW ts, NEW next \in Nat, Proper(ts, next), NEW i \in 1 .. Len(ts)
    PROVE  LET us == RemoveAt(ts, i)
           IN  {us[k] : k \in DOMAIN us} = {ts[k] : k \in DOMAIN ts \ {i}}
<1> DEFINE us == RemoveAt(ts, i)
<1>1. /\ DOMAIN us = 1 .. Len(ts) - 1 /\ Len(ts) \in Nat
      /\ \A j \in 1 .. Len(ts) - 1 : us[j] = IF j < i THEN ts[j] ELSE ts[j + 1]
  BY RemovedTabs
<1>2. DOMAIN ts = 1 .. Len(ts)
  BY LenProperties DEF Proper
<1> HIDE DEF us
<1>3. ASSUME NEW j \in DOMAIN us PROVE us[j] \in {ts[k] : k \in DOMAIN ts \ {i}}
  <2>1. CASE j < i
    BY <1>1, <1>2, <2>1
  <2>2. CASE j >= i
    <3>1. j + 1 \in DOMAIN ts \ {i} /\ us[j] = ts[j + 1]
      BY <1>1, <1>2, <2>2
    <3> QED  BY <3>1
  <2> QED  BY <1>1, <2>1, <2>2
<1>4. ASSUME NEW k \in DOMAIN ts \ {i} PROVE ts[k] \in {us[j] : j \in DOMAIN us}
  <2>1. CASE k < i
    BY <1>1, <1>2, <2>1
  <2>2. CASE k > i
    <3>1. k - 1 \in DOMAIN us /\ us[k - 1] = ts[k]
      BY <1>1, <1>2, <2>2
    <3> QED  BY <3>1
  <2> QED  BY <1>2, <2>1, <2>2
<1> QED  BY <1>3, <1>4 DEF us

\* A tab is closed, by the user or by a tear-off, or nothing happens.
Closed(id) ==
    \/ UNCHANGED <<tabs, activeTabId>>
    \/ \E i \in DOMAIN tabs :
          /\ tabs[i].id = id /\ DOMAIN tabs # {i}
          /\ {tabs'[k] : k \in DOMAIN tabs'} = {tabs[k] : k \in DOMAIN tabs \ {i}}
          /\ activeTabId' \in {tabs'[k].id : k \in DOMAIN tabs'}
          /\ id # activeTabId => activeTabId' = activeTabId

LEMMA CloseStep ==
    ASSUME Inv, NEW id \in Nat, CloseIfOpen(id),
           UNCHANGED <<nextTabId, activeRoot, bundle>>, undocking' \subseteq undocking
    PROVE  Inv' /\ Closed(id)
<1>1. /\ Proper(tabs, nextTabId) /\ DOMAIN tabs = 1 .. Len(tabs) /\ Len(tabs) \in Nat
      /\ Position(activeTabId) \in DOMAIN tabs /\ tabs[Position(activeTabId)].id = activeTabId
      /\ nextTabId \in Nat
  BY InvParts DEF ActiveTab, Inv, TypeOK
<1>2. CASE ~(Len(tabs) > 1 /\ id \in Ids)
  BY <1>2 DEF CloseIfOpen, Closed, Inv, TypeOK, TabsWellFormed
<1>3. CASE Len(tabs) > 1 /\ id \in Ids
  <2> DEFINE i == Position(id)
             ts == RemoveAt(tabs, i)
             j == IF i <= Len(tabs) - 1 THEN i ELSE Len(tabs) - 1
  <2>1. i \in 1 .. Len(tabs) /\ tabs[i].id = id
    BY <1>1, <1>3, InvParts DEF Ids
  <2>2. WithTabs(ts, NextInFront(id, i))
    BY <1>3 DEF CloseIfOpen
  <2>3. NextInFront(id, i) = IF id = activeTabId THEN ts[j].id ELSE activeTabId
    BY DEF NextInFront
  <2> HIDE DEF i
  <2>4. /\ Proper(ts, nextTabId) /\ DOMAIN ts = 1 .. Len(tabs) - 1
        /\ {ts[k] : k \in DOMAIN ts} = {tabs[k] : k \in DOMAIN tabs \ {i}}
    <3>1. Proper(ts, nextTabId) /\ DOMAIN ts = 1 .. Len(tabs) - 1
      BY <1>1, <2>1, RemovedTabs
    <3>2. {ts[k] : k \in DOMAIN ts} = {tabs[k] : k \in DOMAIN tabs \ {i}}
      BY <1>1, <2>1, RemovedSet
    <3> QED  BY <3>1, <3>2
  <2> HIDE DEF ts
  <2>5. j \in DOMAIN ts
    BY <1>1, <1>3, <2>1, <2>4
  <2> HIDE DEF j
  <2>6. PICK n \in DOMAIN ts : ts[n].id = NextInFront(id, i)
    <3>1. CASE id = activeTabId
      BY <2>3, <2>5, <3>1
    <3>2. CASE id # activeTabId
      <4>1. Position(activeTabId) \in DOMAIN tabs \ {i}
        BY <1>1, <2>1, <3>2
      <4>2. tabs[Position(activeTabId)] \in {ts[k] : k \in DOMAIN ts}
        BY <2>4, <4>1
      <4> QED  BY <1>1, <2>3, <3>2, <4>2
    <3> QED  BY <3>1, <3>2
  <2>7. WithTabs(ts, ts[n].id)
    BY <2>2, <2>6
  <2>8. tabs' = ts /\ activeTabId' = ts[n].id
    BY <2>4, <2>7, WithTabsStep DEF Proper
  <2>9. Inv'
    <3>1. /\ nextTabId' = nextTabId
          /\ activeRoot' \in Root \cup {None} /\ bundle' \in Content \cup {None}
          /\ undocking' \in SUBSET Nat /\ \A u \in undocking' : u < nextTabId'
      BY DEF Inv, TypeOK, TabsWellFormed
    <3>2. Proper(ts, nextTabId')
      BY <2>4, <3>1
    <3> QED  BY <1>1, <2>7, <3>1, <3>2, WithTabsKeeps
  <2>10. DOMAIN tabs # {i}
    BY <1>1, <1>3
  <2>11. id # activeTabId => activeTabId' = activeTabId
    BY <2>3, <2>6, <2>8
  <2>12. /\ i \in DOMAIN tabs
         /\ {tabs'[k] : k \in DOMAIN tabs'} = {tabs[k] : k \in DOMAIN tabs \ {i}}
         /\ activeTabId' \in {tabs'[k].id : k \in DOMAIN tabs'}
    BY <1>1, <2>1, <2>4, <2>8
  <2> QED  BY <2>1, <2>9, <2>10, <2>11, <2>12 DEF Closed
<1> QED  BY <1>2, <1>3

LEMMA FocusStep ==
    ASSUME Inv, NEW i \in DOMAIN tabs, WithTabs(tabs, tabs[i].id),
           UNCHANGED <<nextTabId, activeRoot, bundle, undocking>>
    PROVE  Inv' /\ tabs' = tabs /\ activeTabId' = tabs[i].id
<1>1. Proper(tabs, nextTabId')
  BY InvParts
<1> QED  BY <1>1, WithTabsKeeps, WithTabsStep DEF Proper, Inv, TypeOK, TabsWellFormed

LEMMA CycleStep ==
    ASSUME Inv, NEW dir \in {1, -1}, CycleTab(dir)
    PROVE  Inv' /\ tabs' = tabs /\ activeTabId' \in Ids
<1> DEFINE n == Len(tabs)
           k == Position(activeTabId) - 1
           i == ((k + dir + n) % n) + 1
<1>1. n \in Nat /\ n >= 2 /\ DOMAIN tabs = 1 .. n /\ k \in 0 .. n - 1
  BY InvParts DEF CycleTab
<1>2. WithTabs(tabs, tabs[i].id) /\ UNCHANGED <<nextTabId, activeRoot, bundle, undocking>>
  BY DEF CycleTab, bundleVars
<1> HIDE DEF n, k
<1>3. i \in DOMAIN tabs
  <2>1. k + dir + n \in Int
    BY <1>1
  <2>2. (k + dir + n) % n \in 0 .. n - 1
    BY <1>1, <2>1
  <2> QED  BY <1>1, <2>2
<1> QED  BY <1>2, <1>3, FocusStep DEF Ids

LEMMA MoveStep ==
    ASSUME Inv, NEW id \in Ids, NEW to \in DOMAIN tabs, MoveTab(id, to)
    PROVE  /\ Inv' /\ activeTabId' = activeTabId
           /\ {tabs'[k] : k \in DOMAIN tabs'} = {tabs[k] : k \in DOMAIN tabs}
<1> DEFINE p == Position(id)
           us == RemoveAt(tabs, p)
           ts == InsertAt(us, to, tabs[p])
<1>1. /\ Proper(tabs, nextTabId) /\ DOMAIN tabs = 1 .. Len(tabs) /\ Len(tabs) \in Nat
      /\ nextTabId \in Nat /\ \A k \in DOMAIN tabs : tabs[k] \in Tab
      /\ Position(activeTabId) \in DOMAIN tabs /\ tabs[Position(activeTabId)].id = activeTabId
      /\ p \in 1 .. Len(tabs)
  BY InvParts DEF ActiveTab, Inv, TypeOK, Ids
<1>2. WithTabs(ts, activeTabId) /\ UNCHANGED <<nextTabId, activeRoot, bundle, undocking>>
  BY DEF MoveTab, bundleVars
<1> HIDE DEF p
<1>3. /\ Proper(us, nextTabId) /\ DOMAIN us = 1 .. Len(tabs) - 1 /\ Len(us) = Len(tabs) - 1
      /\ {us[k] : k \in DOMAIN us} = {tabs[k] : k \in DOMAIN tabs \ {p}}
  <2>1. Proper(us, nextTabId) /\ DOMAIN us = 1 .. Len(tabs) - 1 /\ Len(us) = Len(tabs) - 1
    BY <1>1, RemovedTabs
  <2>2. {us[k] : k \in DOMAIN us} = {tabs[k] : k \in DOMAIN tabs \ {p}}
    BY <1>1, RemovedSet
  <2> QED  BY <2>1, <2>2
<1> HIDE DEF us
<1>4. \A k \in DOMAIN us : us[k].id # tabs[p].id
  <2>1. ASSUME NEW k \in DOMAIN us PROVE us[k].id # tabs[p].id
    <3>1. us[k] \in {tabs[j] : j \in DOMAIN tabs \ {p}}
      BY <1>3
    <3> QED  BY <1>1, <3>1 DEF Proper
  <2> QED  BY <2>1
<1>5. tabs[p] \in Tab /\ tabs[p].id < nextTabId /\ to \in 1 .. Len(us) + 1
  BY <1>1, <1>3 DEF Proper
<1>6. /\ Proper(ts, nextTabId) /\ DOMAIN ts = 1 .. Len(us) + 1
      /\ \A j \in 1 .. Len(us) + 1 :
            ts[j] = IF j < to THEN us[j] ELSE IF j = to THEN tabs[p] ELSE us[j - 1]
  <2> DEFINE t == tabs[p]
  <2>1. /\ Proper(us, nextTabId) /\ nextTabId \in Nat /\ t \in Tab /\ t.id < nextTabId
        /\ to \in 1 .. Len(us) + 1
    BY <1>1, <1>3, <1>5
  <2>2. \A k \in DOMAIN us : us[k].id # t.id
    BY <1>4
  <2> HIDE DEF t
  <2>3. /\ Proper(InsertAt(us, to, t), nextTabId)
        /\ DOMAIN InsertAt(us, to, t) = 1 .. Len(us) + 1
        /\ \A j \in 1 .. Len(us) + 1 :
              InsertAt(us, to, t)[j] = IF j < to THEN us[j] ELSE IF j = to THEN t ELSE us[j - 1]
    BY ONLY <2>1, <2>2, InsertedTabs
  <2> QED  BY ONLY <2>3 DEF ts, t
<1> HIDE DEF ts
<1>7. {ts[k] : k \in DOMAIN ts} = {us[k] : k \in DOMAIN us} \cup {tabs[p]}
  <2>1. ASSUME NEW j \in DOMAIN ts PROVE ts[j] \in {us[k] : k \in DOMAIN us} \cup {tabs[p]}
    BY <1>1, <1>3, <1>5, <1>6, SMTT(40)
  <2>2. ASSUME NEW k \in DOMAIN us PROVE us[k] \in {ts[j] : j \in DOMAIN ts}
    <3>1. CASE k < to
      BY <1>1, <1>3, <1>5, <1>6, <3>1
    <3>2. CASE k >= to
      <4>1. k + 1 \in DOMAIN ts /\ ts[k + 1] = us[k]
        BY <1>1, <1>3, <1>5, <1>6, <3>2
      <4> QED  BY <4>1
    <3> QED  BY <1>1, <1>3, <1>5, <3>1, <3>2
  <2>3. tabs[p] \in {ts[j] : j \in DOMAIN ts}
    BY <1>5, <1>6
  <2> QED  BY <2>1, <2>2, <2>3
<1>8. {ts[k] : k \in DOMAIN ts} = {tabs[k] : k \in DOMAIN tabs}
  BY <1>1, <1>3, <1>7
<1>9. PICK i \in DOMAIN ts : ts[i].id = activeTabId
  <2>1. tabs[Position(activeTabId)] \in {ts[k] : k \in DOMAIN ts}
    BY <1>1, <1>8
  <2> QED  BY <1>1, <2>1
<1>10. tabs' = ts /\ activeTabId' = activeTabId
  BY <1>2, <1>6, <1>9, WithTabsStep DEF Proper
<1>11. Inv'
  BY <1>2, <1>6, <1>9, WithTabsKeeps DEF Inv, TypeOK, TabsWellFormed
<1> QED  BY <1>8, <1>10, <1>11

LEMMA SelectStep ==
    ASSUME Inv, NEW c \in Concept \cup {None}, Select(c)
    PROVE  /\ Inv'
           /\ \/ UNCHANGED <<tabs, activeTabId>>
              \/ /\ activeTabId' = activeTabId /\ DOMAIN tabs' = DOMAIN tabs
                 /\ c # ActiveTab.conceptId
                 /\ \A k \in DOMAIN tabs :
                       tabs'[k] = IF tabs[k].id = activeTabId THEN Left(ActiveTab, c) ELSE tabs[k]
<1>1. ActiveTab \in Tab /\ ActiveTab.id = activeTabId
  BY InvParts
<1>2. Left(ActiveTab, c) \in Tab /\ Left(ActiveTab, c).id = activeTabId
  BY <1>1, LeftType
<1>3. UNCHANGED <<nextTabId, activeRoot, bundle, undocking>>
  BY DEF Select, bundleVars
<1>4. CASE c = selection.conceptId
  BY <1>3, <1>4 DEF Select, Inv, TypeOK, TabsWellFormed
<1>5. CASE c # selection.conceptId
  <2>1. InActiveTab(Left(ActiveTab, c))
    BY <1>5 DEF Select
  <2>2. c # ActiveTab.conceptId
    BY <1>5, InvParts
  <2> HIDE DEF ActiveTab, Left
  <2> QED  BY <1>2, <1>3, <2>1, <2>2, ActiveTabStep
<1> QED  BY <1>4, <1>5

LEMMA BackStep ==
    ASSUME Inv, Back
    PROVE  /\ Inv' /\ ActiveTab.back # << >>
           /\ activeTabId' = activeTabId /\ DOMAIN tabs' = DOMAIN tabs
           /\ \A k \in DOMAIN tabs :
                 tabs'[k] = IF tabs[k].id = activeTabId THEN WentBack(ActiveTab) ELSE tabs[k]
<1>1. ActiveTab \in Tab /\ ActiveTab.id = activeTabId /\ ActiveTab.back # << >>
  BY InvParts DEF Back
<1>2. WentBack(ActiveTab) \in Tab /\ WentBack(ActiveTab).id = activeTabId
  BY <1>1, WentBackType
<1>3. InActiveTab(WentBack(ActiveTab)) /\ UNCHANGED <<nextTabId, activeRoot, bundle, undocking>>
  BY DEF Back, bundleVars
<1> HIDE DEF ActiveTab, WentBack
<1> QED  BY <1>1, <1>2, <1>3, ActiveTabStep

LEMMA ForwardStep ==
    ASSUME Inv, Forward
    PROVE  /\ Inv' /\ ActiveTab.fwd # << >>
           /\ activeTabId' = activeTabId /\ DOMAIN tabs' = DOMAIN tabs
           /\ \A k \in DOMAIN tabs :
                 tabs'[k] = IF tabs[k].id = activeTabId THEN WentForward(ActiveTab) ELSE tabs[k]
<1>1. ActiveTab \in Tab /\ ActiveTab.id = activeTabId /\ ActiveTab.fwd # << >>
  BY InvParts DEF Forward
<1>2. WentForward(ActiveTab) \in Tab /\ WentForward(ActiveTab).id = activeTabId
  BY <1>1, WentForwardType
<1>3. InActiveTab(WentForward(ActiveTab)) /\ UNCHANGED <<nextTabId, activeRoot, bundle, undocking>>
  BY DEF Forward, bundleVars
<1> HIDE DEF ActiveTab, WentForward
<1> QED  BY <1>1, <1>2, <1>3, ActiveTabStep

LEMMA CloseTabStep ==
    ASSUME Inv, NEW id \in Ids, CloseTab(id)
    PROVE  Inv' /\ Closed(id)
<1>1. id \in Nat
  BY InvParts DEF Ids, Tab
<1>2. CloseIfOpen(id) /\ UNCHANGED <<nextTabId, activeRoot, bundle, undocking>>
  BY DEF CloseTab, bundleVars
<1> QED  BY <1>1, <1>2, CloseStep

LEMMA ActivateStep ==
    ASSUME Inv, NEW id \in Ids, ActivateTab(id)
    PROVE  Inv' /\ tabs' = tabs /\ activeTabId' \in Ids
<1>1. PICK i \in DOMAIN tabs : tabs[i].id = id
  BY DEF Ids
<1>2. WithTabs(tabs, tabs[i].id) /\ UNCHANGED <<nextTabId, activeRoot, bundle, undocking>>
  BY <1>1 DEF ActivateTab, bundleVars
<1> QED  BY <1>1, <1>2, FocusStep

LEMMA PopOutStep ==
    ASSUME Inv, NEW id \in Ids, PopOut(id)
    PROVE  Inv' /\ UNCHANGED <<tabs, activeTabId>>
<1>1. id \in Nat /\ id < nextTabId
  BY InvParts DEF Ids, Tab, Proper
<1>2. undocking' = undocking \cup {id} /\ UNCHANGED <<tabVars, bundleVars>>
  BY DEF PopOut
<1> QED  BY <1>1, <1>2 DEF tabVars, bundleVars, Inv, TypeOK, TabsWellFormed

LEMMA PopOutDoneStep ==
    ASSUME Inv, NEW id \in undocking, NEW ok \in BOOLEAN, PopOutDone(id, ok)
    PROVE  Inv' /\ Closed(id)
<1>1. id \in Nat
  BY DEF Inv, TypeOK
<1>2. undocking' = undocking \ {id} /\ UNCHANGED <<nextTabId, activeRoot, bundle>>
  BY DEF PopOutDone, bundleVars
<1>3. CASE ok
  <2>1. CloseIfOpen(id) /\ undocking' \subseteq undocking
    BY <1>2, <1>3 DEF PopOutDone
  <2> QED  BY <1>1, <1>2, <2>1, CloseStep
<1>4. CASE ~ok
  BY <1>2, <1>4 DEF PopOutDone, Closed, Inv, TypeOK, TabsWellFormed
<1> QED  BY <1>3, <1>4

LEMMA TabsStep == Inv /\ [Next]_vars => Inv'
<1> SUFFICES ASSUME Inv, [Next]_vars PROVE Inv'
  OBVIOUS
<1>1. ASSUME NEW root \in Root, NEW b \in Content, SwitchBundle(root, b) PROVE Inv'
  BY <1>1, SwitchStep
<1>2. ASSUME NEW b \in Content, ReloadBundle(b) PROVE Inv'
  BY <1>2, ReloadStep
<1>3. ASSUME NEW c \in Concept \cup {None}, Select(c) PROVE Inv'
  BY <1>3, SelectStep
<1>4. CASE Back
  BY <1>4, BackStep
<1>5. CASE Forward
  BY <1>5, ForwardStep
<1>6. ASSUME NEW c \in Concept \cup {None}, NEW background \in BOOLEAN, OpenTab(c, background)
      PROVE  Inv'
  BY <1>6, OpenStep
<1>7. ASSUME NEW id \in Ids, CloseTab(id) PROVE Inv'
  BY <1>7, CloseTabStep
<1>8. ASSUME NEW id \in Ids, ActivateTab(id) PROVE Inv'
  BY <1>8, ActivateStep
<1>9. ASSUME NEW dir \in {1, -1}, CycleTab(dir) PROVE Inv'
  BY <1>9, CycleStep
<1>10. ASSUME NEW id \in Ids, NEW to \in DOMAIN tabs, MoveTab(id, to) PROVE Inv'
  BY <1>10, MoveStep
<1>11. ASSUME NEW id \in Ids, PopOut(id) PROVE Inv'
  BY <1>11, PopOutStep
<1>12. ASSUME NEW id \in undocking, NEW ok \in BOOLEAN, PopOutDone(id, ok) PROVE Inv'
  BY <1>12, PopOutDoneStep
<1>13. CASE UNCHANGED vars
  BY <1>13 DEF vars, tabVars, bundleVars, Inv, TypeOK, TabsWellFormed
<1> QED  BY <1>1, <1>2, <1>3, <1>4, <1>5, <1>6, <1>7, <1>8, <1>9, <1>10, <1>11, <1>12, <1>13
         DEF Next

\* The tabs, the selection and the tear-offs keep their types.
THEOREM TypeCorrect == Spec => []TypeOK
<1>1. Inv => TypeOK
  BY DEF Inv
<1> QED  BY <1>1, TabsInit, TabsStep, PTL DEF Spec

\* There always is a tab in front, the selection is its, and identities are not
\* used twice, however branches, reloads and tear-offs interleave (store.tsx).
THEOREM SelectionIsTheTabInFront == Spec => []TabsWellFormed
<1>1. Inv => TabsWellFormed
  BY DEF Inv
<1> QED  BY <1>1, TabsInit, TabsStep, PTL DEF Spec

-----------------------------------------------------------------------------
\* What a tab is as a cursor: what is before it, at it and after it.
LEMMA CursorParts ==
    ASSUME NEW t \in Tab
    PROVE  LET u == Cursor(t)
           IN  /\ u = [entries |-> u.entries, at |-> u.at, on |-> u.on]
               /\ u.entries \in Seq(Concept) /\ u.on = IF t.conceptId = None THEN 0 ELSE 1
               /\ Len(t.back) \in Nat /\ Len(t.fwd) \in Nat
               /\ u.at = Len(t.back) + u.on
               /\ Len(u.entries) = Len(t.back) + u.on + Len(t.fwd)
               /\ \A j \in 1 .. Len(t.back) : u.entries[j] = t.back[j]
               /\ u.on = 1 => u.entries[Len(t.back) + 1] = t.conceptId
               /\ \A j \in Len(t.back) + u.on + 1 .. Len(t.back) + u.on + Len(t.fwd) :
                     u.entries[j] = t.fwd[j - (Len(t.back) + u.on)]
<1> DEFINE on == IF t.conceptId = None THEN 0 ELSE 1
           shown == IF on = 1 THEN <<t.conceptId>> ELSE << >>
           left == t.back \o shown
           all == left \o t.fwd
<1>1. /\ t.conceptId \in Concept \cup {None} /\ t.back \in Seq(Concept) /\ t.fwd \in Seq(Concept)
      /\ Len(t.back) \in Nat /\ Len(t.fwd) \in Nat
  BY LenProperties DEF Tab
<1>2. Cursor(t) = [entries |-> all, at |-> Len(t.back) + on, on |-> on]
  BY DEF Cursor
<1>3. shown \in Seq(Concept) /\ Len(shown) = on /\ (on = 1 => shown[1] = t.conceptId) /\ on \in {0, 1}
  BY <1>1, EmptySeq
<1>4. on = IF t.conceptId = None THEN 0 ELSE 1
  OBVIOUS
<1> HIDE DEF shown, on
<1>5. /\ left \in Seq(Concept) /\ Len(left) = Len(t.back) + Len(shown)
      /\ \A j \in 1 .. Len(t.back) + Len(shown) :
            left[j] = IF j <= Len(t.back) THEN t.back[j] ELSE shown[j - Len(t.back)]
  BY <1>1, <1>3, ConcatProperties
<1> HIDE DEF left
<1>6. left \in Seq(Concept) /\ t.fwd \in Seq(Concept)
  BY <1>1, <1>5
<1>7. /\ all \in Seq(Concept) /\ Len(all) = Len(left) + Len(t.fwd)
      /\ \A j \in 1 .. Len(left) + Len(t.fwd) :
            all[j] = IF j <= Len(left) THEN left[j] ELSE t.fwd[j - Len(left)]
  BY ONLY <1>6, ConcatProperties
<1> HIDE DEF all
<1> DEFINE b == Len(t.back)
           f == Len(t.fwd)
<1>8. b \in Nat /\ f \in Nat /\ Len(left) = b + on /\ Len(all) = b + on + f
  BY <1>1, <1>3, <1>5, <1>7
<1>9. /\ \A j \in 1 .. b + on : left[j] = IF j <= b THEN t.back[j] ELSE shown[j - b]
      /\ \A j \in 1 .. b + on + f : all[j] = IF j <= b + on THEN left[j] ELSE t.fwd[j - (b + on)]
  BY <1>3, <1>5, <1>7, <1>8
<1> HIDE DEF b, f
<1>10. \A j \in 1 .. b : all[j] = t.back[j]
  BY <1>3, <1>8, <1>9
<1>11. on = 1 => all[b + 1] = t.conceptId
  BY <1>3, <1>8, <1>9
<1>12. \A j \in b + on + 1 .. b + on + f : all[j] = t.fwd[j - (b + on)]
  BY <1>3, <1>8, <1>9
<1>13. /\ Cursor(t).entries = all /\ Cursor(t).at = b + on /\ Cursor(t).on = on
       /\ Cursor(t) = [entries |-> all, at |-> b + on, on |-> on]
  BY <1>2 DEF b
<1> QED  BY <1>1, <1>4, <1>7, <1>8, <1>10, <1>11, <1>12, <1>13 DEF b, f

\* The same for a tab that shows a concept.
LEMMA CursorOn ==
    ASSUME NEW t \in Tab, t.conceptId # None
    PROVE  LET u == Cursor(t)
           IN  /\ u = [entries |-> u.entries, at |-> u.at, on |-> u.on]
               /\ u.entries \in Seq(Concept) /\ u.on = 1 /\ u.at = Len(t.back) + 1
               /\ Len(u.entries) = Len(t.back) + 1 + Len(t.fwd)
               /\ \A j \in 1 .. Len(t.back) : u.entries[j] = t.back[j]
               /\ u.entries[Len(t.back) + 1] = t.conceptId
               /\ \A j \in Len(t.back) + 1 + 1 .. Len(t.back) + 1 + Len(t.fwd) :
                     u.entries[j] = t.fwd[j - (Len(t.back) + 1)]
<1>1. Cursor(t).on = 1
  BY CursorParts
<1> QED  BY <1>1, CursorParts

\* A visit cuts the trail at the cursor and extends it.
LEMMA VisitMoves ==
    ASSUME NEW t \in Tab, NEW c \in Concept
    PROVE  Cursor(Left(t, c)) = Histories!Visited(Cursor(t), c)
<1> DEFINE n == Left(t, c)
           u == Cursor(t)
           v == Cursor(n)
           b == Len(t.back)
           at == u.at
           cut == SubSeq(u.entries, 1, at)
           w == Append(cut, c)
<1>1. /\ n \in Tab /\ n.conceptId = c /\ n.fwd = << >>
      /\ n.back = IF t.conceptId # None THEN Append(t.back, t.conceptId) ELSE t.back
      /\ t.back \in Seq(Concept) /\ t.conceptId \in Concept \cup {None}
  BY LeftType DEF Tab
<1>2. c # None
  BY ReaderConstants
<1> HIDE DEF n
<1>3. /\ u.entries \in Seq(Concept) /\ u.on = IF t.conceptId = None THEN 0 ELSE 1
      /\ b \in Nat /\ Len(t.fwd) \in Nat
      /\ at = b + u.on /\ Len(u.entries) = b + u.on + Len(t.fwd)
      /\ \A j \in 1 .. b : u.entries[j] = t.back[j]
      /\ u.on = 1 => u.entries[b + 1] = t.conceptId
  BY CursorParts
<1>4. /\ v = [entries |-> v.entries, at |-> v.at, on |-> v.on]
      /\ v.entries \in Seq(Concept) /\ v.on = 1
      /\ Len(n.back) \in Nat /\ v.at = Len(n.back) + 1
      /\ Len(v.entries) = Len(n.back) + 1 + Len(n.fwd)
      /\ \A j \in 1 .. Len(n.back) : v.entries[j] = n.back[j]
      /\ v.entries[Len(n.back) + 1] = c
  BY <1>1, <1>2, CursorParts
<1>5. Len(n.back) = at /\ \A j \in 1 .. at : n.back[j] = u.entries[j]
  <2>1. CASE t.conceptId = None
    BY <1>1, <1>3, <2>1
  <2>2. CASE t.conceptId # None
    <3>1. /\ Len(n.back) = b + 1
          /\ \A j \in 1 .. b : n.back[j] = t.back[j]
          /\ n.back[b + 1] = t.conceptId
      BY <1>1, <2>2, AppendProperties
    <3> QED  BY <1>3, <2>2, <3>1
  <2> QED  BY <2>1, <2>2
<1>6. Len(n.fwd) = 0
  BY <1>1, EmptySeq
<1> DEFINE on == u.on
           f == Len(t.fwd)
           size == Len(u.entries)
<1> HIDE DEF u, v, b, at
<1>7. at \in Nat /\ at <= Len(u.entries) /\ \A j \in 1 .. at : u.entries[j] \in Concept
  <2>1. at \in Nat /\ at <= Len(u.entries) /\ Len(u.entries) \in Nat
    <3>1. on \in {0, 1} /\ b \in Nat /\ f \in Nat /\ at = b + on /\ size = b + on + f
      BY <1>3
    <3> HIDE DEF on, f, size
    <3>2. at \in Nat /\ at <= size /\ size \in Nat
      BY ONLY <3>1
    <3> QED  BY <3>2 DEF size
  <2>2. \A j \in 1 .. Len(u.entries) : u.entries[j] \in Concept
    BY <1>3, ElementOfSeq
  <2> QED  BY <2>1, <2>2
<1>8. cut \in Seq(Concept) /\ Len(cut) = at /\ \A j \in 1 .. at : cut[j] = u.entries[j]
  BY <1>7, SubSeqProperties
<1> HIDE DEF cut
<1>9. /\ w \in Seq(Concept) /\ Len(w) = at + 1
      /\ \A j \in 1 .. at : w[j] = u.entries[j]
      /\ w[at + 1] = c
  BY <1>8, AppendProperties
<1> HIDE DEF w
<1>10. v.at = at + 1 /\ Len(v.entries) = at + 1 /\ v.entries[at + 1] = c
       /\ \A j \in 1 .. at : v.entries[j] = u.entries[j]
  BY <1>4, <1>5, <1>6, <1>7
<1>11. v.entries = w
  <2>1. \A j \in 1 .. at + 1 : v.entries[j] = w[j]
    BY <1>7, <1>9, <1>10
  <2> QED  BY <1>4, <1>9, <1>10, <2>1, SeqEqual
<1>12. v = [entries |-> w, at |-> at + 1, on |-> 1]
  BY <1>4, <1>10, <1>11
<1> QED  BY <1>12 DEF Histories!Visited, n, u, v, at, cut, w

\* Selecting nothing cuts the trail behind what was shown.
LEMMA ClearMoves ==
    ASSUME NEW t \in Tab, t.conceptId # None
    PROVE  Cursor(t).on = 1 /\ Cursor(Left(t, None)) = Histories!Cleared(Cursor(t))
<1> DEFINE n == Left(t, None)
           u == Cursor(t)
           v == Cursor(n)
           b == Len(t.back)
           f == Len(t.fwd)
           cut == SubSeq(u.entries, 1, u.at)
<1>1. /\ n \in Tab /\ n.conceptId = None /\ n.fwd = << >> /\ n.back = Append(t.back, t.conceptId)
      /\ t.back \in Seq(Concept) /\ t.conceptId \in Concept
  BY LeftType DEF Tab
<1>2. /\ b \in Nat /\ Len(n.back) = b + 1 /\ n.back[b + 1] = t.conceptId
      /\ \A j \in 1 .. b : n.back[j] = t.back[j]
  BY <1>1, AppendProperties, LenProperties
<1> HIDE DEF n
<1>3. /\ u.entries \in Seq(Concept) /\ u.on = 1 /\ u.at = b + 1 /\ f \in Nat
      /\ Len(u.entries) = b + 1 + f
      /\ \A j \in 1 .. b : u.entries[j] = t.back[j]
      /\ u.entries[b + 1] = t.conceptId
  BY CursorParts, CursorOn
<1>4. Len(n.fwd) = 0
  BY <1>1, EmptySeq
<1>5. /\ v = [entries |-> v.entries, at |-> v.at, on |-> v.on]
      /\ v.entries \in Seq(Concept) /\ v.on = 0 /\ v.at = Len(n.back) + 0
      /\ Len(v.entries) = Len(n.back) + 0 + Len(n.fwd)
      /\ \A j \in 1 .. Len(n.back) : v.entries[j] = n.back[j]
  BY <1>1, CursorParts
<1> HIDE DEF u, v, b, f
<1>6. \A j \in 1 .. u.at : u.entries[j] \in Concept
  <2>1. \A j \in 1 .. Len(u.entries) : u.entries[j] \in Concept
    BY <1>3, ElementOfSeq
  <2> QED  BY <1>2, <1>3, <2>1
<1>7. cut \in Seq(Concept) /\ Len(cut) = b + 1 /\ \A j \in 1 .. b + 1 : cut[j] = u.entries[j]
  BY <1>2, <1>3, <1>6, SubSeqProperties
<1> HIDE DEF cut
<1>8. Len(v.entries) = b + 1 /\ v.at = b + 1
  BY <1>2, <1>4, <1>5
<1>9. ASSUME NEW j \in 1 .. b + 1 PROVE v.entries[j] = cut[j]
  <2>1. v.entries[j] = n.back[j] /\ cut[j] = u.entries[j]
    BY <1>2, <1>5, <1>7
  <2>2. j \in 1 .. b \/ j = b + 1
    BY <1>2
  <2> QED  BY <1>2, <1>3, <2>1, <2>2
<1>10. v.entries = cut
  BY <1>5, <1>7, <1>8, <1>9, SeqEqual
<1>11. v = [entries |-> cut, at |-> u.at, on |-> 0]
  BY <1>3, <1>5, <1>8, <1>10
<1> QED  BY <1>3, <1>11 DEF Histories!Cleared, n, u, v, cut

\* Two tabs with the same trail.
LEMMA SameEntries ==
    ASSUME NEW t \in Tab, NEW n \in Tab,
           Len(Cursor(n).entries) = Len(Cursor(t).entries),
           \A j \in 1 .. Len(Cursor(t).entries) : Cursor(n).entries[j] = Cursor(t).entries[j]
    PROVE  Cursor(n).entries = Cursor(t).entries
<1>1. Cursor(t).entries \in Seq(Concept) /\ Cursor(n).entries \in Seq(Concept)
  BY CursorParts
<1> QED  BY <1>1, SeqEqual

LEMMA BackMoves ==
    ASSUME NEW t \in Tab, t.back # << >>
    PROVE  /\ Cursor(t).at - Cursor(t).on >= 1
           /\ Cursor(WentBack(t)) =
                 [Cursor(t) EXCEPT !.at = Cursor(t).at - Cursor(t).on, !.on = 1]
<1> DEFINE n == WentBack(t)
           u == Cursor(t)
           v == Cursor(n)
           b == Len(t.back)
           f == Len(t.fwd)
           on == u.on
<1>1. /\ n \in Tab /\ n.conceptId = t.back[b] /\ n.conceptId \in Concept /\ b \in Nat \ {0}
      /\ n.back = SubSeq(t.back, 1, b - 1)
      /\ n.fwd = IF t.conceptId # None THEN <<t.conceptId>> \o t.fwd ELSE t.fwd
      /\ t.back \in Seq(Concept) /\ t.fwd \in Seq(Concept) /\ t.conceptId \in Concept \cup {None}
  BY WentBackType DEF Tab
<1>2. n.conceptId # None
  BY <1>1, ReaderConstants
<1> HIDE DEF n
<1>3. /\ u = [entries |-> u.entries, at |-> u.at, on |-> u.on]
      /\ on = IF t.conceptId = None THEN 0 ELSE 1
      /\ f \in Nat /\ u.at = b + on /\ Len(u.entries) = b + on + f
      /\ \A j \in 1 .. b : u.entries[j] = t.back[j]
      /\ on = 1 => u.entries[b + 1] = t.conceptId
      /\ \A j \in b + on + 1 .. b + on + f : u.entries[j] = t.fwd[j - (b + on)]
  BY CursorParts
<1>4. Len(n.back) = b - 1 /\ \A j \in 1 .. b - 1 : n.back[j] = t.back[j]
  <2>1. \A j \in 1 .. b - 1 : t.back[j] \in Concept
    BY <1>1, ElementOfSeq
  <2> QED  BY <1>1, <2>1, SubSeqProperties
<1>5. Len(n.fwd) = on + f /\ \A j \in 1 .. on + f :
         n.fwd[j] = IF j <= on THEN t.conceptId ELSE t.fwd[j - on]
  <2>1. CASE t.conceptId = None
    BY <1>1, <1>3, <2>1
  <2>2. CASE t.conceptId # None
    <3> DEFINE one == <<t.conceptId>>
    <3>1. one \in Seq(Concept) /\ Len(one) = 1 /\ one[1] = t.conceptId
      BY <1>1, <2>2
    <3>2. n.fwd = one \o t.fwd
      BY <1>1, <2>2
    <3> HIDE DEF one
    <3>3. one \in Seq(Concept) /\ t.fwd \in Seq(Concept)
      BY <1>1, <3>1
    <3>4. /\ Len(one \o t.fwd) = Len(one) + Len(t.fwd)
          /\ \A j \in 1 .. Len(one) + Len(t.fwd) :
                (one \o t.fwd)[j] = IF j <= Len(one) THEN one[j] ELSE t.fwd[j - Len(one)]
      BY ONLY <3>3, ConcatProperties
    <3>5. Len(n.fwd) = 1 + f /\ \A j \in 1 .. 1 + f :
             n.fwd[j] = IF j <= 1 THEN one[j] ELSE t.fwd[j - 1]
      BY <3>1, <3>2, <3>4
    <3>6. on = 1
      BY <1>3, <2>2
    <3> HIDE DEF f, on, b
    <3> QED  BY <1>3, <3>1, <3>5, <3>6
  <2> QED  BY <2>1, <2>2
<1>6. /\ v = [entries |-> v.entries, at |-> v.at, on |-> v.on]
      /\ v.on = 1 /\ v.at = Len(n.back) + 1 /\ Len(v.entries) = Len(n.back) + 1 + Len(n.fwd)
      /\ \A j \in 1 .. Len(n.back) : v.entries[j] = n.back[j]
      /\ v.entries[Len(n.back) + 1] = n.conceptId
      /\ \A j \in Len(n.back) + 1 + 1 .. Len(n.back) + 1 + Len(n.fwd) :
            v.entries[j] = n.fwd[j - (Len(n.back) + 1)]
  BY <1>1, <1>2, CursorOn
<1> HIDE DEF u, v, b, f, on
<1>7. on \in {0, 1} /\ v.at = b /\ u.at - on = b /\ Len(v.entries) = b + on + f
  BY <1>1, <1>3, <1>4, <1>5, <1>6, SMTT(40)
<1>8. /\ \A j \in 1 .. b - 1 : v.entries[j] = t.back[j]
      /\ v.entries[b] = t.back[b]
      /\ \A j \in b + 1 .. b + on + f :
            v.entries[j] = IF j - b <= on THEN t.conceptId ELSE t.fwd[(j - b) - on]
  <2>1. /\ \A j \in 1 .. b - 1 : v.entries[j] = n.back[j]
        /\ v.entries[b] = n.conceptId
        /\ \A j \in b + 1 .. b + on + f : v.entries[j] = n.fwd[j - b]
    <3>1. Len(n.back) = b - 1 /\ Len(n.back) + 1 = b /\ Len(n.fwd) = on + f
      BY <1>1, <1>4, <1>5
    <3>2. b \in Nat /\ f \in Nat /\ on \in {0, 1}
      BY <1>1, <1>3, <1>7
    <3>3. b + on + f = b + Len(n.fwd)
      BY ONLY <3>1, <3>2
    <3> QED  BY ONLY <1>6, <3>1, <3>3
  <2>2. \A j \in b + 1 .. b + on + f : j - b \in 1 .. on + f
    BY <1>1, <1>3, <1>7
  <2> QED  BY <1>1, <1>4, <1>5, <2>1, <2>2
<1>9. \A j \in 1 .. b + on + f : v.entries[j] = u.entries[j]
  <2> SUFFICES ASSUME NEW j \in 1 .. b + on + f PROVE v.entries[j] = u.entries[j]
    OBVIOUS
  <2>a. b \in Nat \ {0} /\ f \in Nat /\ on \in {0, 1} /\ j \in 1 .. b + on + f
    BY <1>1, <1>3, <1>7
  <2>1. CASE j \in 1 .. b - 1
    <3>1. j \in 1 .. b
      BY ONLY <2>a, <2>1
    <3> QED  BY <1>3, <1>8, <2>1, <3>1
  <2>2. CASE j = b
    <3>1. j \in 1 .. b
      BY ONLY <2>a, <2>2
    <3> QED  BY <1>3, <1>8, <2>2, <3>1
  <2>3. CASE on = 1 /\ j = b + 1
    <3>1. j \in b + 1 .. b + on + f /\ j - b <= on
      BY ONLY <2>a, <2>3
    <3> QED  BY <1>3, <1>8, <2>3, <3>1
  <2>4. CASE j > b + on
    <3>1. /\ (j - b) - on = j - (b + on) /\ ~(j - b <= on)
          /\ j \in b + on + 1 .. b + on + f /\ j \in b + 1 .. b + on + f
      BY ONLY <2>a, <2>4
    <3> QED  BY <1>3, <1>8, <3>1
  <2>5. j \in 1 .. b - 1 \/ j = b \/ (on = 1 /\ j = b + 1) \/ j > b + on
    BY ONLY <2>a
  <2> QED  BY <2>1, <2>2, <2>3, <2>4, <2>5
<1>10. v.entries = u.entries
  BY <1>1, <1>3, <1>7, <1>9, SameEntries DEF u, v
<1>11. v = [u EXCEPT !.at = u.at - u.on, !.on = 1]
  BY <1>3, <1>6, <1>7, <1>10 DEF on
<1> QED  BY <1>1, <1>7, <1>11 DEF n, u, v, on

LEMMA ForwardMoves ==
    ASSUME NEW t \in Tab, t.fwd # << >>
    PROVE  /\ Cursor(t).at < Len(Cursor(t).entries)
           /\ Cursor(WentForward(t)) = [Cursor(t) EXCEPT !.at = Cursor(t).at + 1, !.on = 1]
<1> DEFINE n == WentForward(t)
           u == Cursor(t)
           v == Cursor(n)
           b == Len(t.back)
           f == Len(t.fwd)
           on == u.on
           left == Len(n.back)
           right == Len(n.fwd)
           size == Len(u.entries)
           newSize == Len(v.entries)
<1>1. /\ n \in Tab /\ n.conceptId = t.fwd[1] /\ n.conceptId \in Concept /\ f \in Nat \ {0}
      /\ n.fwd = Tail(t.fwd)
      /\ n.back = IF t.conceptId # None THEN Append(t.back, t.conceptId) ELSE t.back
      /\ t.back \in Seq(Concept) /\ t.fwd \in Seq(Concept) /\ t.conceptId \in Concept \cup {None}
  BY WentForwardType DEF Tab
<1>2. n.conceptId # None
  BY <1>1, ReaderConstants
<1> HIDE DEF n
<1>3. /\ u = [entries |-> u.entries, at |-> u.at, on |-> u.on]
      /\ on = IF t.conceptId = None THEN 0 ELSE 1
      /\ b \in Nat /\ u.at = b + on /\ size = b + on + f
      /\ \A j \in 1 .. b : u.entries[j] = t.back[j]
      /\ on = 1 => u.entries[b + 1] = t.conceptId
      /\ \A j \in b + on + 1 .. b + on + f : u.entries[j] = t.fwd[j - (b + on)]
  BY CursorParts
<1>4. right = f - 1 /\ \A j \in 1 .. f - 1 : n.fwd[j] = t.fwd[j + 1]
  BY <1>1, HeadTailProperties
<1>5. left = b + on /\ \A j \in 1 .. b + on :
         n.back[j] = IF j <= b THEN t.back[j] ELSE t.conceptId
  <2>1. CASE t.conceptId = None
    BY <1>1, <1>3, <2>1
  <2>2. CASE t.conceptId # None
    <3>1. /\ left = b + 1
          /\ \A j \in 1 .. b : n.back[j] = t.back[j]
          /\ n.back[b + 1] = t.conceptId
      BY <1>1, <2>2, AppendProperties
    <3>2. on = 1
      BY <1>3, <2>2
    <3> HIDE DEF left, b, on
    <3>3. \A j \in 1 .. b + 1 : IF j <= b THEN j \in 1 .. b ELSE j = b + 1
      BY ONLY <1>3
    <3> QED  BY ONLY <2>2, <3>1, <3>2, <3>3
  <2> QED  BY <2>1, <2>2
<1>6. /\ v = [entries |-> v.entries, at |-> v.at, on |-> v.on]
      /\ v.on = 1 /\ v.at = left + 1 /\ newSize = left + 1 + right
      /\ \A j \in 1 .. left : v.entries[j] = n.back[j]
      /\ v.entries[left + 1] = n.conceptId
      /\ \A j \in left + 1 + 1 .. left + 1 + right : v.entries[j] = n.fwd[j - (left + 1)]
  BY <1>1, <1>2, CursorOn
<1>7. on \in {0, 1} /\ b \in Nat /\ f \in Nat \ {0}
  BY <1>1, <1>3
<1> HIDE DEF u, v, b, f, on, left, right, size, newSize
<1>8. v.at = u.at + 1 /\ u.at < size /\ newSize = size /\ size = b + on + f
  BY <1>3, <1>4, <1>5, <1>6, <1>7
<1>9. \A j \in 1 .. b + on + f : v.entries[j] = u.entries[j]
  <2> SUFFICES ASSUME NEW j \in 1 .. b + on + f PROVE v.entries[j] = u.entries[j]
    OBVIOUS
  <2>a. b \in Nat /\ f \in Nat \ {0} /\ on \in {0, 1} /\ j \in 1 .. b + on + f
    BY <1>7
  <2>1. CASE j \in 1 .. b
    <3>1. j \in 1 .. left /\ j \in 1 .. b + on /\ j <= b
      BY <1>5, <2>a, <2>1
    <3> QED  BY <1>3, <1>5, <1>6, <2>1, <3>1
  <2>2. CASE on = 1 /\ j = b + 1
    <3>1. j \in 1 .. left /\ j \in 1 .. b + on /\ ~(j <= b)
      BY <1>5, <2>a, <2>2
    <3> QED  BY <1>3, <1>5, <1>6, <2>2, <3>1
  <2>3. CASE j = b + on + 1
    <3>1. j = left + 1 /\ j \in b + on + 1 .. b + on + f /\ j - (b + on) = 1
      BY <1>5, <2>a, <2>3
    <3> QED  BY <1>1, <1>3, <1>6, <3>1
  <2>4. CASE j > b + on + 1
    <3>1. /\ j \in left + 1 + 1 .. left + 1 + right /\ j \in b + on + 1 .. b + on + f
          /\ j - (left + 1) \in 1 .. f - 1
          /\ (j - (left + 1)) + 1 = j - (b + on)
      BY <1>4, <1>5, <2>a, <2>4
    <3> QED  BY <1>3, <1>4, <1>6, <3>1
  <2>5. j \in 1 .. b \/ (on = 1 /\ j = b + 1) \/ j = b + on + 1 \/ j > b + on + 1
    BY ONLY <2>a
  <2> QED  BY <2>1, <2>2, <2>3, <2>4, <2>5
<1>10. v.entries = u.entries
  <2>1. Len(v.entries) = Len(u.entries) /\ \A j \in 1 .. Len(u.entries) : v.entries[j] = u.entries[j]
    BY <1>8, <1>9 DEF size, newSize
  <2> QED  BY <1>1, <2>1, SameEntries DEF u, v
<1>11. v = [u EXCEPT !.at = u.at + 1, !.on = 1]
  BY <1>3, <1>6, <1>8, <1>10
<1> QED  BY <1>8, <1>11 DEF n, u, v, size

\* What a cursor stands on is what its tab shows.
LEMMA ShownIsTheConcept ==
    ASSUME NEW t \in Tab
    PROVE  Histories!Shown(Cursor(t)) = t.conceptId
<1>1. CASE t.conceptId = None
  BY <1>1, CursorParts DEF Histories!Shown
<1>2. CASE t.conceptId # None
  <2>1. Cursor(t).on = 1 /\ Len(t.back) \in Nat /\ Cursor(t).at = Len(t.back) + 1
        /\ Cursor(t).entries[Len(t.back) + 1] = t.conceptId
    BY <1>2, CursorParts
  <2> QED  BY <2>1 DEF Histories!Shown
<1> QED  BY <1>1, <1>2

LEMMA FreshCursor ==
    ASSUME NEW id \in Nat, NEW c \in Concept \cup {None}
    PROVE  Cursor(NewTab(id, c)) = Histories!Fresh(c)
<1> DEFINE t == NewTab(id, c)
           u == Cursor(t)
           shown == IF c = None THEN << >> ELSE <<c>>
<1>1. t \in Tab /\ t.conceptId = c /\ t.back = << >> /\ t.fwd = << >>
  BY EmptySeq DEF NewTab, Tab
<1>2. Len(t.back) = 0 /\ Len(t.fwd) = 0
  BY <1>1, EmptySeq
<1> HIDE DEF t
<1>3. /\ u = [entries |-> u.entries, at |-> u.at, on |-> u.on]
      /\ u.entries \in Seq(Concept) /\ u.on = (IF c = None THEN 0 ELSE 1)
      /\ u.at = u.on /\ Len(u.entries) = u.on
      /\ u.on = 1 => u.entries[1] = c
  BY <1>1, <1>2, CursorParts
<1>4. shown \in Seq(Concept) /\ Len(shown) = u.on /\ \A j \in 1 .. u.on : shown[j] = c
  BY <1>3, EmptySeq
<1>5. \A j \in 1 .. u.on : u.entries[j] = c
  BY <1>3
<1> HIDE DEF u, shown
<1>6. u.entries = shown
  BY <1>3, <1>4, <1>5, SeqEqual
<1> QED  BY <1>3, <1>6 DEF u, t, shown, Histories!Fresh

\* The entries around the cursor are the tab's histories.
LEMMA AroundTheCursor ==
    ASSUME NEW t \in Tab
    PROVE  LET u == Cursor(t)
           IN  /\ SubSeq(u.entries, 1, u.at - u.on) = t.back
               /\ SubSeq(u.entries, u.at + 1, Len(u.entries)) = t.fwd
<1> DEFINE u == Cursor(t)
           e == u.entries
           b == Len(t.back)
           f == Len(t.fwd)
           on == u.on
           size == Len(e)
           left == SubSeq(e, 1, b)
           right == SubSeq(e, b + on + 1, b + on + f)
<1>1. /\ e \in Seq(Concept) /\ on \in {0, 1} /\ b \in Nat /\ f \in Nat
      /\ u.at = b + on /\ size = b + on + f
      /\ \A j \in 1 .. b : e[j] = t.back[j]
      /\ \A j \in b + on + 1 .. b + on + f : e[j] = t.fwd[j - (b + on)]
  BY CursorParts
<1>2. t.back \in Seq(Concept) /\ t.fwd \in Seq(Concept)
  BY DEF Tab
<1>3. /\ \A j \in 1 .. b : t.back[j] \in Concept
      /\ \A j \in 1 .. f : t.fwd[j] \in Concept
  BY <1>2, ElementOfSeq
<1>4. \A j \in b + on + 1 .. b + on + f : j - (b + on) \in 1 .. f
  <2> HIDE DEF b, on, f
  <2> QED  BY <1>1
<1>5. (\A j \in 1 .. b : e[j] \in Concept) /\ \A j \in b + on + 1 .. b + on + f : e[j] \in Concept
  BY <1>1, <1>3, <1>4
<1> HIDE DEF u, e, b, f, on, size
<1>6. b + on + 1 \in Int /\ b + on + f \in Int /\ b \in Int /\ (b + on + f) - (b + on + 1) + 1 = f
      /\ (b + on + 1 <= b + on + f <=> f >= 1) /\ (1 <= b <=> b >= 1) /\ (b - 1) + 1 = b
  BY <1>1
<1>7. left \in Seq(Concept) /\ Len(left) = b /\ \A j \in 1 .. b : left[j] = e[j]
  BY <1>1, <1>5, <1>6, SubSeqProperties
<1>8. /\ right \in Seq(Concept) /\ Len(right) = f
      /\ \A j \in 1 .. f : right[j] = e[b + on + 1 + j - 1]
  BY <1>1, <1>5, <1>6, SubSeqProperties
<1> HIDE DEF left, right
<1>9. left = t.back
  BY <1>1, <1>2, <1>7, SeqEqual, SMTT(40) DEF b
<1>10. right = t.fwd
  <2>1. ASSUME NEW j \in 1 .. f PROVE right[j] = t.fwd[j]
    <3>1. /\ b + on + 1 + j - 1 \in b + on + 1 .. b + on + f
          /\ (b + on + 1 + j - 1) - (b + on) = j
      BY <1>1
    <3> QED  BY <1>1, <1>8, <3>1
  <2> QED  BY <1>2, <1>8, <2>1, SeqEqual DEF f
<1>11. u.at - on = b
  BY <1>1
<1> QED  BY <1>1, <1>9, <1>10, <1>11 DEF u, e, left, right, on, size

LEMMA EntriesOfCursor ==
    ASSUME NEW t
    PROVE  Cursor(t).entries =
              t.back \o (IF Cursor(t).on = 1 THEN <<t.conceptId>> ELSE << >>) \o t.fwd
<1> DEFINE on == IF t.conceptId = None THEN 0 ELSE 1
           before == Len(t.back)
           all == t.back \o (IF on = 1 THEN <<t.conceptId>> ELSE << >>) \o t.fwd
<1>1. Cursor(t) = [entries |-> all, at |-> before + on, on |-> on]
  BY DEF Cursor
<1> HIDE DEF before, all, on
<1>2. Cursor(t).entries = all /\ Cursor(t).on = on
  BY <1>1
<1> QED  BY <1>2 DEF all

\* What a live reload leaves of a tab.
LEMMA ReplacedCursor ==
    ASSUME NEW t \in Tab, NEW d \in Concept \cup {None}
    PROVE  Cursor([t EXCEPT !.conceptId = d]) = Histories!Reloaded(Cursor(t), d)
<1> DEFINE n == [t EXCEPT !.conceptId = d]
           u == Cursor(t)
           e == u.entries
           v == Cursor(n)
           b == Len(t.back)
<1>1. /\ n \in Tab /\ n.conceptId = d /\ n.back = t.back /\ n.fwd = t.fwd
      /\ t.back \in Seq(Concept) /\ t.fwd \in Seq(Concept)
  BY DEF Tab
<1>2. /\ u = [entries |-> e, at |-> u.at, on |-> u.on] /\ e \in Seq(Concept)
      /\ u.on = (IF t.conceptId = None THEN 0 ELSE 1)
      /\ b \in Nat /\ u.at = b + u.on
  BY CursorParts
<1>3. /\ v = [entries |-> v.entries, at |-> v.at, on |-> v.on]
      /\ v.on = (IF d = None THEN 0 ELSE 1) /\ v.at = b + v.on
      /\ v.entries = t.back \o (IF v.on = 1 THEN <<d>> ELSE << >>) \o t.fwd
  <2>1. v.entries = n.back \o (IF v.on = 1 THEN <<n.conceptId>> ELSE << >>) \o n.fwd
    BY EntriesOfCursor
  <2>2. /\ v = [entries |-> v.entries, at |-> v.at, on |-> v.on]
        /\ v.on = (IF d = None THEN 0 ELSE 1) /\ v.at = b + v.on
    BY <1>1, CursorParts
  <2> HIDE DEF n, v, b
  <2> QED  BY <1>1, <2>1, <2>2
<1>4. SubSeq(e, 1, u.at - u.on) = t.back /\ SubSeq(e, u.at + 1, Len(e)) = t.fwd
  BY AroundTheCursor
<1>5. t.back \o << >> = t.back
  BY <1>1, ConcatEmptySeq
<1>6. CASE u.on = 1 /\ d # None
  <2>1. /\ Histories!Reloaded(u, d) = [u EXCEPT !.entries[u.at] = d]
    BY <1>6 DEF Histories!Reloaded
  <2>2. v.on = 1 /\ v.at = u.at
    BY <1>2, <1>3, <1>6
  <2>3. /\ u.at = b + 1 /\ u.at \in 1 .. Len(e) /\ d \in Concept
        /\ Len(v.entries) = Len(e) /\ v.entries \in Seq(Concept)
        /\ \A j \in 1 .. Len(e) : v.entries[j] = IF j = u.at THEN d ELSE e[j]
    <3> DEFINE f == Len(t.fwd)
               size == Len(e)
    <3>1. /\ f \in Nat /\ size = b + 1 + f /\ u.at = b + 1 /\ d \in Concept
          /\ \A j \in 1 .. b : e[j] = t.back[j]
          /\ \A j \in b + 1 + 1 .. b + 1 + f : e[j] = t.fwd[j - (b + 1)]
      BY <1>6, CursorParts
    <3>2. /\ v.entries \in Seq(Concept) /\ Len(v.entries) = b + 1 + f
          /\ \A j \in 1 .. b : v.entries[j] = t.back[j]
          /\ v.entries[b + 1] = d
          /\ \A j \in b + 1 + 1 .. b + 1 + f : v.entries[j] = t.fwd[j - (b + 1)]
      <4>1. n.conceptId # None
        BY <1>1, <1>6
      <4>2. /\ v.entries \in Seq(Concept) /\ Len(v.entries) = Len(n.back) + 1 + Len(n.fwd)
            /\ \A j \in 1 .. Len(n.back) : v.entries[j] = n.back[j]
            /\ v.entries[Len(n.back) + 1] = n.conceptId
            /\ \A j \in Len(n.back) + 1 + 1 .. Len(n.back) + 1 + Len(n.fwd) :
                  v.entries[j] = n.fwd[j - (Len(n.back) + 1)]
        <5>1. n \in Tab
          BY <1>1
        <5> HIDE DEF n
        <5> QED  BY ONLY <4>1, <5>1, CursorOn
      <4>3. n.back = t.back /\ n.fwd = t.fwd /\ n.conceptId = d
        BY ONLY <1>1
      <4> HIDE DEF n, v
      <4> QED  BY ONLY <4>2, <4>3
    <3> HIDE DEF n, u, v, e, b, f, size
    <3>3. ASSUME NEW j \in 1 .. b + 1 + f
          PROVE  j \in 1 .. b \/ j = b + 1 \/ j \in b + 1 + 1 .. b + 1 + f
      BY <1>2, <3>1
    <3>4. \A j \in 1 .. b + 1 + f : v.entries[j] = IF j = b + 1 THEN d ELSE e[j]
      BY <1>2, <3>1, <3>2, <3>3
    <3>5. b + 1 \in 1 .. b + 1 + f
      BY <1>2, <3>1
    <3>6. Len(e) = b + 1 + f /\ u.at = b + 1 /\ d \in Concept
      BY ONLY <3>1 DEF size
    <3> QED  BY ONLY <3>2, <3>4, <3>5, <3>6
  <2> DEFINE w == [e EXCEPT ![u.at] = d]
  <2> HIDE DEF n, u, v, e, b
  <2>4. /\ w \in Seq(Concept) /\ Len(w) = Len(e)
        /\ \A j \in 1 .. Len(e) : w[j] = IF j = u.at THEN d ELSE e[j]
    BY <1>2, <2>3, ExceptSeq
  <2> HIDE DEF w
  <2>5. v.entries = w
    BY <2>3, <2>4, SeqEqual
  <2>6. [u EXCEPT !.entries[u.at] = d] = [entries |-> w, at |-> u.at, on |-> 1]
    BY <1>2, <1>6 DEF w, e
  <2> QED  BY <1>3, <2>1, <2>2, <2>5, <2>6 DEF n, u, v
<1>7. CASE u.on = 1 /\ d = None
  <2>1. Histories!Reloaded(u, d) = [entries |-> SubSeq(e, 1, u.at - 1) \o SubSeq(e, u.at + 1, Len(e)),
                                    at |-> u.at - 1, on |-> 0]
    BY <1>7 DEF Histories!Reloaded
  <2> HIDE DEF n, u, v, e, b
  <2>2. v.on = 0 /\ v.at = b /\ u.at - 1 = b
    BY <1>2, <1>3, <1>7
  <2>3. v.entries = t.back \o t.fwd
    BY <1>3, <1>5, <1>7
  <2> QED  BY <1>3, <1>4, <1>7, <2>1, <2>2, <2>3 DEF n, u, v
<1>8. CASE u.on = 0 /\ d # None
  <2>1. Histories!Reloaded(u, d) = [entries |-> SubSeq(e, 1, u.at) \o <<d>>
                                                   \o SubSeq(e, u.at + 1, Len(e)),
                                    at |-> u.at + 1, on |-> 1]
    BY <1>8 DEF Histories!Reloaded
  <2> HIDE DEF n, u, v, e, b
  <2>2. v.on = 1 /\ v.at = u.at + 1 /\ u.at - u.on = u.at
    BY <1>2, <1>3, <1>8
  <2>3. v.entries = t.back \o <<d>> \o t.fwd
    BY <1>3, <2>2
  <2> QED  BY <1>3, <1>4, <2>1, <2>2, <2>3 DEF n, u, v
<1>9. CASE u.on = 0 /\ d = None
  <2>1. Histories!Reloaded(u, d) = u
    BY <1>9 DEF Histories!Reloaded
  <2>2. t.conceptId = None
    BY <1>2, <1>9
  <2>3. n = t
    BY <1>9, <2>2 DEF Tab
  <2> QED  BY <2>1, <2>3
<1> QED  BY <1>2, <1>6, <1>7, <1>8, <1>9

-----------------------------------------------------------------------------
\* The trails of tabs, whichever places they are at.
TrailsOf(ts) == [i \in {ts[k].id : k \in DOMAIN ts} |->
                    Cursor(ts[CHOOSE k \in DOMAIN ts : ts[k].id = i])]

LEMMA TrailsOfTabs ==
    ASSUME NEW ts, NEW next, Proper(ts, next)
    PROVE  /\ TrailsOf(ts) = [i \in DOMAIN TrailsOf(ts) |-> TrailsOf(ts)[i]]
           /\ DOMAIN TrailsOf(ts) = {ts[k].id : k \in DOMAIN ts}
           /\ \A k \in DOMAIN ts : TrailsOf(ts)[ts[k].id] = Cursor(ts[k])
<1>1. /\ TrailsOf(ts) = [i \in DOMAIN TrailsOf(ts) |-> TrailsOf(ts)[i]]
      /\ DOMAIN TrailsOf(ts) = {ts[k].id : k \in DOMAIN ts}
  BY DEF TrailsOf
<1>2. ASSUME NEW k \in DOMAIN ts PROVE TrailsOf(ts)[ts[k].id] = Cursor(ts[k])
  <2>1. (CHOOSE j \in DOMAIN ts : ts[j].id = ts[k].id) = k
    BY DEF Proper
  <2> QED  BY <2>1 DEF TrailsOf
<1> QED  BY <1>1, <1>2

LEMMA TrailsOfSet ==
    ASSUME NEW ts, NEW next, Proper(ts, next)
    PROVE  LET all == {ts[k] : k \in DOMAIN ts}
           IN  /\ DOMAIN TrailsOf(ts) = {t.id : t \in all}
               /\ \A t \in all : TrailsOf(ts)[t.id] = Cursor(t)
<1>1. /\ DOMAIN TrailsOf(ts) = {ts[k].id : k \in DOMAIN ts}
      /\ \A k \in DOMAIN ts : TrailsOf(ts)[ts[k].id] = Cursor(ts[k])
  BY TrailsOfTabs
<1>2. {ts[k].id : k \in DOMAIN ts} = {t.id : t \in {ts[k] : k \in DOMAIN ts}}
  OBVIOUS
<1> QED  BY <1>1, <1>2

LEMMA SameTrails ==
    ASSUME NEW f, NEW g, f = [i \in DOMAIN f |-> f[i]], g = [i \in DOMAIN g |-> g[i]],
           DOMAIN f = DOMAIN g, \A i \in DOMAIN f : f[i] = g[i]
    PROVE  f = g
OBVIOUS

\* A step of the reader's tabs, told as a step of their trails.
LEMMA MappedStep ==
    ASSUME \/ Histories!Visit(TrailsOf(tabs), TrailsOf(tabs'))
           \/ Histories!Clear(TrailsOf(tabs), TrailsOf(tabs'))
           \/ Histories!Back(TrailsOf(tabs), TrailsOf(tabs'))
           \/ Histories!Forward(TrailsOf(tabs), TrailsOf(tabs'))
           \/ Histories!Open(TrailsOf(tabs), TrailsOf(tabs'))
           \/ Histories!Close(TrailsOf(tabs), TrailsOf(tabs'))
           \/ Histories!Focus(TrailsOf(tabs), TrailsOf(tabs'))
           \/ Histories!Reload(TrailsOf(tabs), TrailsOf(tabs'))
           \/ Histories!Switch(TrailsOf(tabs), TrailsOf(tabs'))
    PROVE  Histories!Next
<1>1. TrailsOf(tabs) = [i \in Ids |-> Cursor(tabs[Position(i)])]
  BY DEF TrailsOf, Ids, Position
<1>2. TrailsOf(tabs') = [i \in Ids |-> Cursor(tabs[Position(i)])]'
  BY DEF TrailsOf, Ids, Position
<1> QED  BY <1>1, <1>2 DEF Histories!Next

LEMMA MappedStutter ==
    ASSUME UNCHANGED <<tabs, activeTabId>>
    PROVE  UNCHANGED Histories!vars
BY DEF Histories!vars, Ids, Position

LEMMA InvTrails ==
    ASSUME Inv
    PROVE  /\ DOMAIN TrailsOf(tabs) = Ids /\ activeTabId \in Ids /\ nextTabId \notin Ids
           /\ TrailsOf(tabs) = [i \in Ids |-> TrailsOf(tabs)[i]]
           /\ TrailsOf(tabs)[activeTabId] = Cursor(ActiveTab)
           /\ \A k \in DOMAIN tabs : TrailsOf(tabs)[tabs[k].id] = Cursor(tabs[k])
<1>1. Proper(tabs, nextTabId) /\ activeTabId \in Ids /\ Position(activeTabId) \in DOMAIN tabs
      /\ ActiveTab.id = activeTabId
  BY InvParts
<1>2. nextTabId \notin Ids
  BY <1>1 DEF Ids, Proper, Inv, TypeOK
<1> QED  BY <1>1, <1>2, TrailsOfTabs DEF Ids, ActiveTab

LEMMA InvTrailsNext ==
    ASSUME Inv'
    PROVE  /\ DOMAIN TrailsOf(tabs') = {tabs'[k].id : k \in DOMAIN tabs'}
           /\ TrailsOf(tabs') = [i \in DOMAIN TrailsOf(tabs') |-> TrailsOf(tabs')[i]]
           /\ \A k \in DOMAIN tabs' : TrailsOf(tabs')[tabs'[k].id] = Cursor(tabs'[k])
           /\ activeTabId' \in {tabs'[k].id : k \in DOMAIN tabs'}
           /\ Proper(tabs', nextTabId')
<1>1. Proper(tabs', nextTabId') /\ activeTabId' \in {tabs'[k].id : k \in DOMAIN tabs'}
  BY DEF Inv, TypeOK, TabsWellFormed, Proper
<1> QED  BY <1>1, TrailsOfTabs

\* Navigation moves the trail of the tab in front and no other.
LEMMA ActiveTrail ==
    ASSUME Inv, Inv', NEW t, t.id = activeTabId, DOMAIN tabs' = DOMAIN tabs,
           \A k \in DOMAIN tabs : tabs'[k] = IF tabs[k].id = activeTabId THEN t ELSE tabs[k]
    PROVE  TrailsOf(tabs') = [TrailsOf(tabs) EXCEPT ![activeTabId] = Cursor(t)]
<1> DEFINE f == TrailsOf(tabs)
           g == TrailsOf(tabs')
           h == [f EXCEPT ![activeTabId] = Cursor(t)]
<1>1. /\ DOMAIN f = Ids /\ f = [i \in Ids |-> f[i]] /\ activeTabId \in Ids
      /\ \A k \in DOMAIN tabs : f[tabs[k].id] = Cursor(tabs[k])
  BY InvTrails
<1>2. /\ DOMAIN g = {tabs'[k].id : k \in DOMAIN tabs'} /\ g = [i \in DOMAIN g |-> g[i]]
      /\ \A k \in DOMAIN tabs' : g[tabs'[k].id] = Cursor(tabs'[k])
  BY InvTrailsNext
<1>3. \A k \in DOMAIN tabs : tabs'[k].id = tabs[k].id
  OBVIOUS
<1> HIDE DEF f, g
<1>4. DOMAIN g = Ids /\ DOMAIN h = Ids
  BY <1>1, <1>2, <1>3 DEF Ids
<1>5. ASSUME NEW i \in Ids PROVE g[i] = h[i]
  <2>1. PICK k \in DOMAIN tabs : tabs[k].id = i
    BY DEF Ids
  <2>2. g[i] = Cursor(tabs'[k]) /\ f[i] = Cursor(tabs[k])
    BY <1>1, <1>2, <1>3, <2>1
  <2>3. h[i] = IF i = activeTabId THEN Cursor(t) ELSE f[i]
    BY <1>1
  <2> QED  BY <2>1, <2>2, <2>3
<1>6. h = [i \in DOMAIN h |-> h[i]]
  BY <1>1
<1> HIDE DEF h
<1> QED  BY <1>2, <1>4, <1>5, <1>6, SameTrails DEF f, g, h

LEMMA SelectMaps ==
    ASSUME Inv, NEW c \in Concept \cup {None}, Select(c)
    PROVE  Histories!Next \/ UNCHANGED Histories!vars
<1>1. /\ Inv'
      /\ \/ UNCHANGED <<tabs, activeTabId>>
         \/ /\ activeTabId' = activeTabId /\ DOMAIN tabs' = DOMAIN tabs
            /\ c # ActiveTab.conceptId
            /\ \A k \in DOMAIN tabs :
                  tabs'[k] = IF tabs[k].id = activeTabId THEN Left(ActiveTab, c) ELSE tabs[k]
  BY SelectStep
<1>2. CASE UNCHANGED <<tabs, activeTabId>>
  BY <1>2, MappedStutter
<1>3. CASE /\ activeTabId' = activeTabId /\ DOMAIN tabs' = DOMAIN tabs
           /\ c # ActiveTab.conceptId
           /\ \A k \in DOMAIN tabs :
                 tabs'[k] = IF tabs[k].id = activeTabId THEN Left(ActiveTab, c) ELSE tabs[k]
  <2>1. ActiveTab \in Tab /\ ActiveTab.id = activeTabId
    BY InvParts
  <2>2. Left(ActiveTab, c).id = activeTabId
    BY <2>1, LeftType
  <2>3. TrailsOf(tabs') = [TrailsOf(tabs) EXCEPT ![activeTabId] = Cursor(Left(ActiveTab, c))]
    BY <1>1, <1>3, <2>2, ActiveTrail
  <2>4. ASSUME c \in Concept PROVE Histories!Visit(TrailsOf(tabs), TrailsOf(tabs'))
    <3>1. Cursor(Left(ActiveTab, c)) = Histories!Visited(TrailsOf(tabs)[activeTabId], c)
      BY <2>1, <2>4, VisitMoves, InvTrails
    <3> QED  BY <1>3, <2>3, <2>4, <3>1 DEF Histories!Visit
  <2>5. ASSUME c = None PROVE Histories!Clear(TrailsOf(tabs), TrailsOf(tabs'))
    <3>1. ActiveTab.conceptId # None
      BY <1>3, <2>5
    <3>2. TrailsOf(tabs)[activeTabId] = Cursor(ActiveTab)
      BY InvTrails
    <3>3. /\ Cursor(ActiveTab).on = 1
          /\ Cursor(Left(ActiveTab, None)) = Histories!Cleared(Cursor(ActiveTab))
      BY <2>1, <3>1, ClearMoves
    <3> QED  BY <1>3, <2>3, <2>5, <3>2, <3>3 DEF Histories!Clear
  <2> QED  BY <2>4, <2>5, MappedStep
<1> QED  BY <1>1, <1>2, <1>3

\* Two fields of one entry of a function of records.
LEMMA MovedCursor ==
    ASSUME NEW f, NEW i \in DOMAIN f, NEW a, NEW o
    PROVE  [f EXCEPT ![i].at = a, ![i].on = o] = [f EXCEPT ![i] = [f[i] EXCEPT !.at = a, !.on = o]]
OBVIOUS

LEMMA BackMaps ==
    ASSUME Inv, Back
    PROVE  Histories!Next
<1> DEFINE f == TrailsOf(tabs)
           u == Cursor(ActiveTab)
<1>1. /\ Inv' /\ ActiveTab.back # << >>
      /\ activeTabId' = activeTabId /\ DOMAIN tabs' = DOMAIN tabs
      /\ \A k \in DOMAIN tabs :
            tabs'[k] = IF tabs[k].id = activeTabId THEN WentBack(ActiveTab) ELSE tabs[k]
  BY BackStep
<1>2. ActiveTab \in Tab /\ ActiveTab.id = activeTabId
  BY InvParts
<1>3. WentBack(ActiveTab).id = activeTabId
  BY <1>1, <1>2, WentBackType
<1>4. TrailsOf(tabs') = [f EXCEPT ![activeTabId] = Cursor(WentBack(ActiveTab))]
  BY <1>1, <1>3, ActiveTrail
<1>5. u.at - u.on >= 1 /\ Cursor(WentBack(ActiveTab)) = [u EXCEPT !.at = u.at - u.on, !.on = 1]
  BY <1>1, <1>2, BackMoves
<1>6. f[activeTabId] = u /\ activeTabId \in DOMAIN f
  BY InvTrails
<1> HIDE DEF f, u
<1> DEFINE a == u.at - u.on
           moved == [u EXCEPT !.at = a, !.on = 1]
           new == [f EXCEPT ![activeTabId].at = a, ![activeTabId].on = 1]
<1>7. TrailsOf(tabs') = [f EXCEPT ![activeTabId] = moved]
  BY <1>4, <1>5
<1> HIDE DEF a
<1>8. new = [f EXCEPT ![activeTabId] = moved]
  BY <1>6, MovedCursor
<1> HIDE DEF new, moved
<1>9. TrailsOf(tabs') = new
  BY <1>7, <1>8
<1>10. Histories!Back(f, TrailsOf(tabs'))
  BY <1>1, <1>5, <1>6, <1>9 DEF Histories!Back, a, new
<1> QED  BY <1>10, MappedStep DEF f

LEMMA ForwardMaps ==
    ASSUME Inv, Forward
    PROVE  Histories!Next
<1> DEFINE f == TrailsOf(tabs)
           u == Cursor(ActiveTab)
<1>1. /\ Inv' /\ ActiveTab.fwd # << >>
      /\ activeTabId' = activeTabId /\ DOMAIN tabs' = DOMAIN tabs
      /\ \A k \in DOMAIN tabs :
            tabs'[k] = IF tabs[k].id = activeTabId THEN WentForward(ActiveTab) ELSE tabs[k]
  BY ForwardStep
<1>2. ActiveTab \in Tab /\ ActiveTab.id = activeTabId
  BY InvParts
<1>3. WentForward(ActiveTab).id = activeTabId
  BY <1>1, <1>2, WentForwardType
<1>4. TrailsOf(tabs') = [f EXCEPT ![activeTabId] = Cursor(WentForward(ActiveTab))]
  BY <1>1, <1>3, ActiveTrail
<1>5. /\ u.at < Len(u.entries)
      /\ Cursor(WentForward(ActiveTab)) = [u EXCEPT !.at = u.at + 1, !.on = 1]
  BY <1>1, <1>2, ForwardMoves
<1>6. f[activeTabId] = u /\ activeTabId \in DOMAIN f
  BY InvTrails
<1> HIDE DEF f, u
<1>7. TrailsOf(tabs') = [f EXCEPT ![activeTabId].at = u.at + 1, ![activeTabId].on = 1]
  <2>1. [f EXCEPT ![activeTabId].at = u.at + 1, ![activeTabId].on = 1]
           = [f EXCEPT ![activeTabId] = [f[activeTabId] EXCEPT !.at = u.at + 1, !.on = 1]]
    BY ONLY <1>6, MovedCursor
  <2> QED  BY ONLY <1>4, <1>5, <1>6, <2>1
<1>8. Histories!Forward(f, TrailsOf(tabs'))
  BY <1>1, <1>5, <1>6, <1>7 DEF Histories!Forward
<1> QED  BY <1>8, MappedStep DEF f

LEMMA OpenMaps ==
    ASSUME Inv, NEW c \in Concept \cup {None}, NEW background \in BOOLEAN, OpenTab(c, background)
    PROVE  Histories!Next
<1> DEFINE f == TrailsOf(tabs)
           g == TrailsOf(tabs')
           n == NewTab(nextTabId, c)
           h == [i \in Ids \cup {nextTabId} |-> IF i = nextTabId THEN Histories!Fresh(c) ELSE f[i]]
<1>1. /\ Inv' /\ activeTabId' \in {activeTabId, nextTabId}
      /\ {tabs'[k] : k \in DOMAIN tabs'} = {tabs[k] : k \in DOMAIN tabs} \cup {n}
  BY OpenStep
<1>2. /\ DOMAIN f = Ids /\ nextTabId \notin Ids
      /\ \A k \in DOMAIN tabs : f[tabs[k].id] = Cursor(tabs[k])
  BY InvTrails
<1>3. /\ DOMAIN g = {t.id : t \in {tabs'[k] : k \in DOMAIN tabs'}}
      /\ \A t \in {tabs'[k] : k \in DOMAIN tabs'} : g[t.id] = Cursor(t)
      /\ g = [i \in DOMAIN g |-> g[i]]
  BY <1>1, InvTrailsNext, TrailsOfSet
<1>4. n.id = nextTabId /\ Cursor(n) = Histories!Fresh(c)
  BY FreshCursor DEF NewTab, Inv, TypeOK
<1> HIDE DEF f, g, n
<1>5. DOMAIN g = Ids \cup {nextTabId}
  <2> DEFINE all == {tabs[k] : k \in DOMAIN tabs}
             allNext == {tabs'[k] : k \in DOMAIN tabs'}
  <2>1. /\ allNext = all \cup {n}
        /\ \A j : j \in DOMAIN g <=> \E t \in allNext : t.id = j
    BY <1>1, <1>3
  <2>2. \A j : j \in Ids <=> \E t \in all : t.id = j
    BY DEF Ids
  <2> HIDE DEF all, allNext
  <2> QED  BY <1>4, <2>1, <2>2
<1>6. ASSUME NEW i \in Ids \cup {nextTabId} PROVE g[i] = h[i]
  <2>1. CASE i = nextTabId
    BY <1>1, <1>3, <1>4, <2>1
  <2>2. CASE i \in Ids
    <3>1. PICK k \in DOMAIN tabs : tabs[k].id = i
      BY <2>2 DEF Ids
    <3>2. f[i] = Cursor(tabs[k]) /\ i # nextTabId
      BY <1>2, <2>2, <3>1
    <3>3. g[i] = Cursor(tabs[k])
      BY <1>1, <1>3, <3>1
    <3> QED  BY <3>2, <3>3
  <2> QED  BY <2>1, <2>2
<1>7. g = h
  BY <1>3, <1>5, <1>6, SameTrails
<1>8. nextTabId \in DOMAIN g \ DOMAIN f
  BY <1>2, <1>5
<1>9. Histories!Open(f, g)
  BY <1>1, <1>2, <1>7, <1>8 DEF Histories!Open
<1> QED  BY <1>9, MappedStep DEF f, g

\* Closing a tab, at once or when its window exists.
LEMMA CloseMaps ==
    ASSUME Inv, Inv', NEW id, Closed(id)
    PROVE  Histories!Next \/ UNCHANGED Histories!vars
<1>1. CASE UNCHANGED <<tabs, activeTabId>>
  BY <1>1, MappedStutter
<1>2. CASE \E i \in DOMAIN tabs :
              /\ tabs[i].id = id /\ DOMAIN tabs # {i}
              /\ {tabs'[k] : k \in DOMAIN tabs'} = {tabs[k] : k \in DOMAIN tabs \ {i}}
              /\ activeTabId' \in {tabs'[k].id : k \in DOMAIN tabs'}
              /\ id # activeTabId => activeTabId' = activeTabId
  <2> DEFINE f == TrailsOf(tabs)
             g == TrailsOf(tabs')
             h == [j \in Ids \ {id} |-> f[j]]
  <2>1. PICK i \in DOMAIN tabs :
           /\ tabs[i].id = id /\ DOMAIN tabs # {i}
           /\ {tabs'[k] : k \in DOMAIN tabs'} = {tabs[k] : k \in DOMAIN tabs \ {i}}
           /\ activeTabId' \in {tabs'[k].id : k \in DOMAIN tabs'}
           /\ id # activeTabId => activeTabId' = activeTabId
    BY <1>2
  <2>2. DOMAIN f = Ids /\ \A k \in DOMAIN tabs : f[tabs[k].id] = Cursor(tabs[k])
    BY InvTrails
  <2>3. /\ DOMAIN g = {t.id : t \in {tabs'[k] : k \in DOMAIN tabs'}}
        /\ \A t \in {tabs'[k] : k \in DOMAIN tabs'} : g[t.id] = Cursor(t)
        /\ g = [j \in DOMAIN g |-> g[j]]
        /\ activeTabId' \in DOMAIN g
    BY InvTrailsNext, TrailsOfSet
  <2>4. \A j, k \in DOMAIN tabs : tabs[j].id = tabs[k].id => j = k
    BY DEF Inv, TabsWellFormed
  <2> HIDE DEF f, g
  <2>5. DOMAIN g = Ids \ {id}
    <3> DEFINE rest == {tabs[k] : k \in DOMAIN tabs \ {i}}
               allNext == {tabs'[k] : k \in DOMAIN tabs'}
    <3>1. allNext = rest /\ \A j : j \in DOMAIN g <=> \E t \in allNext : t.id = j
      BY <2>1, <2>3
    <3>2. \A j : j \in Ids \ {id} <=> \E t \in rest : t.id = j
      BY <2>1, <2>4 DEF Ids
    <3> HIDE DEF rest, allNext
    <3> QED  BY <3>1, <3>2
  <2>6. ASSUME NEW j \in Ids \ {id} PROVE g[j] = h[j]
    <3>1. PICK k \in DOMAIN tabs \ {i} : tabs[k].id = j
      BY <2>1 DEF Ids
    <3>2. tabs[k] \in {tabs'[m] : m \in DOMAIN tabs'}
      BY <2>1
    <3>3. g[j] = Cursor(tabs[k])
      BY <2>3, <3>1, <3>2
    <3> QED  BY <2>2, <3>1, <3>3
  <2>7. g = h
    BY <2>3, <2>5, <2>6, SameTrails
  <2>8. id \in DOMAIN f /\ DOMAIN f # {id}
    <3>1. PICK k \in DOMAIN tabs : k # i
      BY <2>1
    <3>2. tabs[k].id # id /\ tabs[k].id \in Ids /\ id \in Ids
      BY <2>1, <2>4, <3>1 DEF Ids
    <3> QED  BY <2>2, <3>2
  <2>9. Histories!Close(f, g)
    BY <2>1, <2>2, <2>3, <2>5, <2>7, <2>8 DEF Histories!Close
  <2> QED  BY <2>9, MappedStep DEF f, g
<1> QED  BY <1>1, <1>2 DEF Closed

\* Moving a tab, or bringing one to the front, touches no trail.
LEMMA FocusMaps ==
    ASSUME Inv, Inv', {tabs'[k] : k \in DOMAIN tabs'} = {tabs[k] : k \in DOMAIN tabs}
    PROVE  Histories!Next
<1> DEFINE f == TrailsOf(tabs)
           g == TrailsOf(tabs')
<1>1. /\ DOMAIN f = Ids /\ f = [i \in Ids |-> f[i]]
      /\ \A k \in DOMAIN tabs : f[tabs[k].id] = Cursor(tabs[k])
  BY InvTrails
<1>2. /\ DOMAIN g = {t.id : t \in {tabs'[k] : k \in DOMAIN tabs'}}
      /\ \A t \in {tabs'[k] : k \in DOMAIN tabs'} : g[t.id] = Cursor(t)
      /\ g = [j \in DOMAIN g |-> g[j]]
      /\ activeTabId' \in DOMAIN g
  BY InvTrailsNext, TrailsOfSet
<1> HIDE DEF f, g
<1>3. DOMAIN g = Ids
  <2> DEFINE all == {tabs[k] : k \in DOMAIN tabs}
             allNext == {tabs'[k] : k \in DOMAIN tabs'}
  <2>1. allNext = all /\ \A j : j \in DOMAIN g <=> \E t \in allNext : t.id = j
    BY <1>2
  <2>2. \A j : j \in Ids <=> \E t \in all : t.id = j
    BY DEF Ids
  <2> HIDE DEF all, allNext
  <2> QED  BY <2>1, <2>2
<1>4. ASSUME NEW i \in Ids PROVE f[i] = g[i]
  <2>1. PICK k \in DOMAIN tabs : tabs[k].id = i
    BY DEF Ids
  <2>2. tabs[k] \in {tabs'[m] : m \in DOMAIN tabs'}
    OBVIOUS
  <2> QED  BY <1>1, <1>2, <2>1, <2>2
<1>5. g = f
  BY <1>1, <1>2, <1>3, <1>4, SameTrails
<1>6. Histories!Focus(f, g)
  BY <1>1, <1>2, <1>3, <1>5 DEF Histories!Focus
<1> QED  BY <1>6, MappedStep DEF f, g

LEMMA ReloadMaps ==
    ASSUME Inv, NEW b \in Content, ReloadBundle(b)
    PROVE  Histories!Next
<1> DEFINE f == TrailsOf(tabs)
           g == TrailsOf(tabs')
<1>1. /\ Inv' /\ activeTabId' = activeTabId /\ DOMAIN tabs' = DOMAIN tabs
      /\ \A k \in DOMAIN tabs : tabs'[k] = AfterReload(tabs[k], b)
  BY ReloadStep
<1>2. /\ DOMAIN f = Ids
      /\ \A k \in DOMAIN tabs : f[tabs[k].id] = Cursor(tabs[k])
  BY InvTrails
<1>3. /\ DOMAIN g = {tabs'[k].id : k \in DOMAIN tabs'}
      /\ \A k \in DOMAIN tabs' : g[tabs'[k].id] = Cursor(tabs'[k])
  BY <1>1, InvTrailsNext
<1>4. \A k \in DOMAIN tabs : tabs[k] \in Tab
  BY InvParts
<1>5. ASSUME NEW t \in Tab
      PROVE  /\ AfterReload(t, b).id = t.id
             /\ LET o == Cursor(t)  n == Cursor(AfterReload(t, b))
                IN  \/ n = o
                    \/ /\ Histories!Shown(n) # Histories!Shown(o)
                       /\ t.id = activeTabId \/ Histories!Shown(n) = None
                       /\ n = Histories!Reloaded(o, Histories!Shown(n))
  <2> DEFINE d == IF t.id = activeTabId THEN DefaultConcept(b) ELSE None
             m == [t EXCEPT !.conceptId = d]
  <2>1. CASE AfterReload(t, b) = t
    BY <2>1
  <2>2. CASE AfterReload(t, b) = m
    <3>1. d \in Concept \cup {None}
      BY ContentTypes
    <3>2. m \in Tab /\ m.id = t.id /\ m.conceptId = d
      BY <3>1 DEF Tab
    <3>3. Cursor(m) = Histories!Reloaded(Cursor(t), d)
      BY <3>1, ReplacedCursor
    <3>4. Histories!Shown(Cursor(m)) = d /\ Histories!Shown(Cursor(t)) = t.conceptId
      BY <3>2, ShownIsTheConcept
    <3>5. d = t.conceptId => m = t
      BY <3>2 DEF Tab
    <3>6. t.id = activeTabId \/ d = None
      OBVIOUS
    <3> HIDE DEF m, d
    <3> QED  BY <2>2, <3>2, <3>3, <3>4, <3>5, <3>6
  <2>3. AfterReload(t, b) = t \/ AfterReload(t, b) = m
    BY DEF AfterReload
  <2> QED  BY <2>1, <2>2, <2>3
<1> HIDE DEF f, g
<1>6. DOMAIN g = DOMAIN f
  BY <1>1, <1>2, <1>3, <1>4, <1>5 DEF Ids
<1>7. ASSUME NEW i \in DOMAIN f
      PROVE  \/ g[i] = f[i]
             \/ /\ Histories!Shown(g[i]) # Histories!Shown(f[i])
                /\ i = activeTabId \/ Histories!Shown(g[i]) = None
                /\ g[i] = Histories!Reloaded(f[i], Histories!Shown(g[i]))
  <2>1. PICK k \in DOMAIN tabs : tabs[k].id = i
    BY <1>2 DEF Ids
  <2>2. AfterReload(tabs[k], b).id = i
    BY <1>4, <1>5, <2>1
  <2>3. f[i] = Cursor(tabs[k]) /\ g[i] = Cursor(AfterReload(tabs[k], b))
    BY <1>1, <1>2, <1>3, <2>1, <2>2
  <2> QED  BY <1>4, <1>5, <2>1, <2>3
<1>8. Histories!Reload(f, g)
  BY <1>1, <1>6, <1>7 DEF Histories!Reload
<1> QED  BY <1>8, MappedStep DEF f, g

LEMMA SwitchMaps ==
    ASSUME Inv, NEW root \in Root, NEW b \in Content, SwitchBundle(root, b)
    PROVE  Histories!Next
<1> DEFINE f == TrailsOf(tabs)
           g == TrailsOf(tabs')
<1>1. /\ Inv'
      /\ \E c \in Concept \cup {None} :
            /\ tabs' = <<NewTab(nextTabId, c)>> /\ DOMAIN tabs' = {1}
            /\ tabs'[1] = NewTab(nextTabId, c) /\ activeTabId' = nextTabId
  BY SwitchStep
<1>2. PICK c \in Concept \cup {None} :
         DOMAIN tabs' = {1} /\ tabs'[1] = NewTab(nextTabId, c) /\ activeTabId' = nextTabId
  BY <1>1
<1>3. DOMAIN f = Ids /\ nextTabId \notin Ids
  BY InvTrails
<1>4. /\ DOMAIN g = {tabs'[k].id : k \in DOMAIN tabs'}
      /\ \A k \in DOMAIN tabs' : g[tabs'[k].id] = Cursor(tabs'[k])
      /\ g = [j \in DOMAIN g |-> g[j]]
  BY <1>1, InvTrailsNext
<1>5. NewTab(nextTabId, c).id = nextTabId /\ Cursor(NewTab(nextTabId, c)) = Histories!Fresh(c)
  BY FreshCursor DEF NewTab, Inv, TypeOK
<1> HIDE DEF f, g
<1>6. DOMAIN g = {nextTabId} /\ g[nextTabId] = Histories!Fresh(c)
  BY <1>2, <1>4, <1>5
<1>7. g = [j \in {nextTabId} |-> Histories!Fresh(c)]
  BY <1>4, <1>6
<1>8. Histories!Switch(f, g)
  BY <1>2, <1>3, <1>6, <1>7 DEF Histories!Switch
<1> QED  BY <1>8, MappedStep DEF f, g

LEMMA HistoriesInit == Init => Histories!Init
<1> SUFFICES ASSUME Init PROVE Histories!Init
  OBVIOUS
<1>1. Inv
  BY TabsInit
<1>2. tabs = <<NewTab(1, None)>> /\ activeTabId = 1
  BY DEF Init
<1>3. DOMAIN tabs = {1} /\ tabs[1] = NewTab(1, None) /\ NewTab(1, None).id = 1
  BY <1>2 DEF NewTab
<1>4. /\ DOMAIN TrailsOf(tabs) = Ids /\ TrailsOf(tabs) = [i \in Ids |-> TrailsOf(tabs)[i]]
      /\ \A k \in DOMAIN tabs : TrailsOf(tabs)[tabs[k].id] = Cursor(tabs[k])
  BY <1>1, InvTrails
<1>5. Ids = {1} /\ TrailsOf(tabs)[1] = Histories!Fresh(None)
  BY <1>3, <1>4, FreshCursor DEF Ids
<1>6. TrailsOf(tabs) = [i \in {1} |-> Histories!Fresh(None)]
  BY <1>4, <1>5
<1>7. TrailsOf(tabs) = [i \in Ids |-> Cursor(tabs[Position(i)])]
  BY DEF TrailsOf, Ids, Position
<1> QED  BY <1>2, <1>6, <1>7 DEF Histories!Init

LEMMA HistoriesStep == Inv /\ [Next]_vars => [Histories!Next]_Histories!vars
<1> SUFFICES ASSUME Inv, [Next]_vars PROVE Histories!Next \/ UNCHANGED Histories!vars
  OBVIOUS
<1>0. Inv'
  BY TabsStep
<1>1. ASSUME NEW root \in Root, NEW b \in Content, SwitchBundle(root, b) PROVE Histories!Next
  BY <1>1, SwitchMaps
<1>2. ASSUME NEW b \in Content, ReloadBundle(b) PROVE Histories!Next
  BY <1>2, ReloadMaps
<1>3. ASSUME NEW c \in Concept \cup {None}, Select(c) PROVE Histories!Next \/ UNCHANGED Histories!vars
  BY <1>3, SelectMaps
<1>4. CASE Back
  BY <1>4, BackMaps
<1>5. CASE Forward
  BY <1>5, ForwardMaps
<1>6. ASSUME NEW c \in Concept \cup {None}, NEW background \in BOOLEAN, OpenTab(c, background)
      PROVE  Histories!Next
  BY <1>6, OpenMaps
<1>7. ASSUME NEW id \in Ids, CloseTab(id) PROVE Histories!Next \/ UNCHANGED Histories!vars
  BY <1>0, <1>7, CloseTabStep, CloseMaps
<1>8. ASSUME NEW id \in Ids, ActivateTab(id) PROVE Histories!Next
  <2>1. tabs' = tabs
    BY <1>8, ActivateStep
  <2> QED  BY <1>0, <2>1, FocusMaps
<1>9. ASSUME NEW dir \in {1, -1}, CycleTab(dir) PROVE Histories!Next
  <2>1. tabs' = tabs
    BY <1>9, CycleStep
  <2> QED  BY <1>0, <2>1, FocusMaps
<1>10. ASSUME NEW id \in Ids, NEW to \in DOMAIN tabs, MoveTab(id, to) PROVE Histories!Next
  BY <1>0, <1>10, MoveStep, FocusMaps
<1>11. ASSUME NEW id \in Ids, PopOut(id) PROVE UNCHANGED Histories!vars
  BY <1>11, PopOutStep, MappedStutter
<1>12. ASSUME NEW id \in undocking, NEW ok \in BOOLEAN, PopOutDone(id, ok)
       PROVE  Histories!Next \/ UNCHANGED Histories!vars
  BY <1>0, <1>12, PopOutDoneStep, CloseMaps
<1>13. CASE UNCHANGED vars
  BY <1>13, MappedStutter DEF vars, tabVars
<1> QED
  BY <1>1, <1>2, <1>3, <1>4, <1>5, <1>6, <1>7, <1>8, <1>9, <1>10, <1>11, <1>12, <1>13
  DEF Next

\* Every tab is a cursor on a trail of its own: back and forward only move it, a
\* visit cuts and extends it, selecting nothing cuts it, a reload replaces or drops at most what the tab
\* shows, and no tab's trail moves with another (store.tsx, navigation.md).
THEOREM HistoriesKept == Spec => KeepsHistories
<1> QED  BY HistoriesInit, TabsInit, TabsStep, HistoriesStep, PTL
         DEF Spec, KeepsHistories, Histories!Spec

=============================================================================
