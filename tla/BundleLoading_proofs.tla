------------------------ MODULE BundleLoading_proofs ------------------------
(***************************************************************************)
(* Theorems about BundleLoading, for any number of windows, folders,        *)
(* bundles, actions and changes on disk.                                    *)
(***************************************************************************)
EXTENDS BundleLoading, SequenceTheorems, FiniteSetTheorems, TLAPS

Ask == [window: Window, cmd: {"fetch", "listen"}, arg: Root \cup Folder,
        for: {"remote", "folder", "watch"}, effect: Nat]
Store == [open: BOOLEAN, folder: Folder \cup {None}, activeRoot: Root \cup {None},
          shown: 0 .. MaxEdits, loading: BOOLEAN]

\* The commands sent, and those among them that start a watch: each effect asks once.
Sent(s) == {s[k] : k \in DOMAIN s}
StartsOnce(s) == \A i, j \in DOMAIN s :
    /\ s[i].cmd = "start" /\ s[j].cmd = "start"
    /\ s[i].window = s[j].window /\ s[i].effect = s[j].effect
    => i = j

Typed ==
    /\ disk \in [Root -> 0 .. MaxEdits] /\ granted \subseteq Folder /\ detected \subseteq granted
    /\ watch \in [root: Root \cup {None}, dirty: BOOLEAN]
    /\ calls \in Seq(Call) /\ asks \subseteq Ask
    /\ ui \in [Window -> Store] /\ effects \in [Window -> Seq(Effect)]
    /\ owed \in [Window -> 0 .. MaxEdits] /\ ops \in 0 .. MaxOps

\* What a command is about: a start is sent by an effect that is starting, and a
\* reload by one that was in place, for the root of that effect.
Meant(c, es) ==
    /\ c.cmd \in {"scan", "revoke"} => c.arg \in Folder
    /\ c.cmd \in {"read", "start", "stop"} => c.arg \in Root
    /\ c.cmd = "start" => /\ c.effect \in DOMAIN es[c.window]
                          /\ es[c.window][c.effect].phase = "starting"
                          /\ es[c.window][c.effect].root = c.arg
    /\ c.cmd = "read" /\ c.for = "reload" =>
                          /\ c.effect \in DOMAIN es[c.window]
                          /\ es[c.window][c.effect].root = c.arg

Asked(a, es) ==
    /\ a.cmd = "fetch" => a.arg \in Folder /\ a.for \in {"remote", "folder"}
    /\ a.cmd = "listen" => /\ a.arg \in Root /\ a.for = "watch"
                           /\ a.effect \in DOMAIN es[a.window]
                           /\ es[a.window][a.effect].phase = "listening"
                           /\ es[a.window][a.effect].root = a.arg

\* The effects of a window: the last one is in place, those before are torn down,
\* and one that is starting has its command under way.
InOrder(w, k, es, sent) ==
    LET e == es[w][k]
    IN  /\ e.cancelled <=> k < Len(es[w])
        /\ e.phase = "watching" => ~e.cancelled
        /\ e.phase \in {"starting", "watching"} => e.listens
        /\ e.phase \in {"listening", "disposed"} => ~e.listens
        /\ e.phase = "starting" =>
              \E c \in sent : c.cmd = "start" /\ c.window = w /\ c.effect = k

\* The host's watch is on the root of an effect in place, or about to end.
Watched ==
    watch.root # None =>
        \/ \E c \in Sent(calls) : c.cmd = "stop"
        \/ \E w \in Window : /\ effects[w] # << >>
                             /\ effects[w][Current(w)].phase = "watching"
                             /\ effects[w][Current(w)].root = watch.root

IInv ==
    /\ Typed
    /\ \A c \in Sent(calls) : Meant(c, effects)
    /\ StartsOnce(calls)
    /\ \A a \in asks : Asked(a, effects)
    /\ \A w \in Window : effects[w] # << >> => ui[w].activeRoot # None
    /\ \A w \in Window : \A k \in DOMAIN effects[w] : InOrder(w, k, effects, Sent(calls))
    /\ Watched

-----------------------------------------------------------------------------
LEMMA Given ==
    /\ Main \in Window /\ IsFiniteSet(Window) /\ None \notin Root \cup Folder
    /\ BundlesIn \in [Folder -> Seq(Root)]
    /\ MaxOps \in Nat /\ MaxEdits \in Nat
BY LoadingConstants

LEMMA AppendSent ==
    ASSUME NEW s \in Seq(Call), NEW c \in Call
    PROVE  /\ Append(s, c) \in Seq(Call)
           /\ Sent(Append(s, c)) = Sent(s) \cup {c}
           /\ StartsOnce(s) /\ (c.cmd = "start" => \A d \in Sent(s) :
                    d.cmd = "start" => d.window # c.window \/ d.effect # c.effect)
              => StartsOnce(Append(s, c))
<1> DEFINE r == Append(s, c)
<1>1. /\ r \in Seq(Call) /\ Len(r) = Len(s) + 1 /\ Len(s) \in Nat
      /\ \A k \in 1 .. Len(s) : r[k] = s[k]
      /\ r[Len(s) + 1] = c
  BY AppendProperties
<1> DEFINE n == Len(s) + 1
<1>2. DOMAIN s = 1 .. Len(s) /\ DOMAIN r = 1 .. n
  BY <1>1, LenProperties
<1>3. /\ n \notin DOMAIN s /\ DOMAIN r = DOMAIN s \cup {n}
      /\ (\A k \in DOMAIN s : r[k] = s[k]) /\ r[n] = c
  BY <1>1, <1>2
<1> HIDE DEF r, n
<1>4. Sent(r) = Sent(s) \cup {c}
  BY <1>3 DEF Sent
<1>5. ASSUME StartsOnce(s),
             c.cmd = "start" => \A d \in Sent(s) :
                d.cmd = "start" => d.window # c.window \/ d.effect # c.effect
      PROVE  StartsOnce(r)
  BY <1>3, <1>5 DEF StartsOnce, Sent
<1> QED  BY <1>1, <1>4, <1>5 DEF r

LEMMA TailSent ==
    ASSUME NEW s \in Seq(Call), s # << >>
    PROVE  /\ Tail(s) \in Seq(Call) /\ Head(s) \in Call
           /\ Sent(s) = Sent(Tail(s)) \cup {Head(s)}
           /\ StartsOnce(s) =>
                /\ StartsOnce(Tail(s))
                /\ Head(s).cmd = "start" => \A d \in Sent(Tail(s)) :
                      d.cmd = "start" => d.window # Head(s).window \/ d.effect # Head(s).effect
<1> DEFINE r == Tail(s)
<1>1. /\ r \in Seq(Call) /\ Head(s) \in Call /\ Len(r) = Len(s) - 1
      /\ \A k \in 1 .. Len(r) : r[k] = s[k + 1]
      /\ Head(s) = s[1]
  BY HeadTailProperties, ElementOfSeq
<1>2. /\ DOMAIN s = 1 .. Len(s) /\ DOMAIN r = 1 .. Len(r) /\ Len(s) \in Nat /\ Len(r) \in Nat
      /\ Len(s) # 0
  BY <1>1, LenProperties, EmptySeq
<1> HIDE DEF r
<1>3. /\ 1 \in DOMAIN s
      /\ \A k \in DOMAIN r : k + 1 \in DOMAIN s /\ k + 1 # 1 /\ r[k] = s[k + 1]
      /\ \A k \in DOMAIN s : k # 1 => k - 1 \in DOMAIN r /\ r[k - 1] = s[k]
  <2>1. 1 \in DOMAIN s
    BY <1>1, <1>2
  <2>2. \A k \in DOMAIN r : k \in 1 .. Len(r) /\ k + 1 \in DOMAIN s /\ k + 1 # 1
    BY <1>1, <1>2
  <2>3. \A k \in DOMAIN s : k # 1 => k - 1 \in DOMAIN r /\ (k - 1) + 1 = k
    BY <1>1, <1>2
  <2>4. \A k \in DOMAIN r : r[k] = s[k + 1]
    BY <1>1, <1>2
  <2>5. ASSUME NEW k \in DOMAIN s, k # 1 PROVE r[k - 1] = s[k]
    <3>1. k - 1 \in DOMAIN r /\ (k - 1) + 1 = k
      BY <2>3, <2>5
    <3>2. r[k - 1] = s[(k - 1) + 1]
      BY ONLY <3>1, <2>4
    <3> QED  BY ONLY <3>1, <3>2
  <2>6. \A k \in DOMAIN r : k + 1 \in DOMAIN s /\ k + 1 # 1 /\ r[k] = s[k + 1]
    BY ONLY <2>2, <2>4
  <2>7. \A k \in DOMAIN s : k # 1 => k - 1 \in DOMAIN r /\ r[k - 1] = s[k]
    BY <2>3, <2>5, Zenon
  <2> QED  BY ONLY <2>1, <2>6, <2>7
<1>4. Sent(s) = Sent(r) \cup {Head(s)}
  <2>1. Head(s) \in Sent(s)
    BY <1>1, <1>3 DEF Sent
  <2>3. ASSUME NEW k \in DOMAIN r PROVE r[k] \in Sent(s)
    <3>1. k + 1 \in DOMAIN s /\ r[k] = s[k + 1]
      BY <1>3
    <3> QED  BY ONLY <3>1 DEF Sent
  <2>2. ASSUME NEW k \in DOMAIN s PROVE s[k] \in Sent(r) \cup {Head(s)}
    BY <1>1, <1>3 DEF Sent
  <2> QED  BY <2>1, <2>2, <2>3 DEF Sent
<1>5. ASSUME StartsOnce(s), NEW i \in DOMAIN r, NEW j \in DOMAIN r,
             r[i].cmd = "start", r[j].cmd = "start",
             r[i].window = r[j].window, r[i].effect = r[j].effect
      PROVE  i = j
  <2>1. i \in Nat /\ j \in Nat
    BY <1>2
  <2>2. i + 1 = j + 1
    BY <1>3, <1>5 DEF StartsOnce
  <2> QED  BY <2>1, <2>2
<1>6. ASSUME StartsOnce(s), NEW d \in Sent(r), Head(s).cmd = "start", d.cmd = "start"
      PROVE  d.window # Head(s).window \/ d.effect # Head(s).effect
  <2>1. PICK k \in DOMAIN r : d = r[k]
    BY <1>6 DEF Sent
  <2> QED  BY <1>1, <1>3, <1>6, <2>1 DEF StartsOnce
<1>7. StartsOnce(s) => StartsOnce(r)
  BY <1>5 DEF StartsOnce
<1> QED  BY <1>1, <1>4, <1>6, <1>7 DEF r

LEMMA ConcatSent ==
    ASSUME NEW s \in Seq(Call), NEW t \in Seq(Call), \A d \in Sent(t) : d.cmd # "start"
    PROVE  /\ s \o t \in Seq(Call) /\ Sent(s \o t) = Sent(s) \cup Sent(t)
           /\ StartsOnce(s) => StartsOnce(s \o t)
<1> DEFINE r == s \o t
<1>1. /\ r \in Seq(Call) /\ Len(r) = Len(s) + Len(t)
      /\ \A k \in 1 .. Len(r) : r[k] = IF k <= Len(s) THEN s[k] ELSE t[k - Len(s)]
  BY ONLY s \in Seq(Call), t \in Seq(Call), ConcatProperties
<1>2. /\ DOMAIN s = 1 .. Len(s) /\ DOMAIN t = 1 .. Len(t) /\ DOMAIN r = 1 .. Len(r)
      /\ Len(s) \in Nat /\ Len(t) \in Nat
  BY <1>1, LenProperties
<1> DEFINE n == Len(s)
<1>3. /\ \A k \in DOMAIN s : k \in DOMAIN r /\ r[k] = s[k]
      /\ \A k \in DOMAIN t : n + k \in DOMAIN r /\ r[n + k] = t[k]
      /\ \A k \in DOMAIN r : k \in DOMAIN s \/ (k - n \in DOMAIN t /\ r[k] = t[k - n])
  <2> HIDE DEF r
  <2>1. \A k \in DOMAIN s : k \in DOMAIN r /\ k <= n
    BY <1>1, <1>2
  <2>2. \A k \in DOMAIN t : n + k \in DOMAIN r /\ ~(n + k <= n) /\ (n + k) - n = k
    BY <1>1, <1>2
  <2>3. \A k \in DOMAIN r : k \in DOMAIN s \/ (k - n \in DOMAIN t /\ ~(k <= n))
    BY <1>1, <1>2
  <2> QED  BY <1>1, <1>2, <2>1, <2>2, <2>3
<1> HIDE DEF r, n
<1>4. Sent(r) = Sent(s) \cup Sent(t)
  <2>1. ASSUME NEW k \in DOMAIN r PROVE r[k] \in Sent(s) \cup Sent(t)
    BY <1>3 DEF Sent
  <2>2. Sent(s) \subseteq Sent(r) /\ Sent(t) \subseteq Sent(r)
    BY <1>3 DEF Sent
  <2> QED  BY <2>1, <2>2 DEF Sent
<1>5. \A k \in DOMAIN r : r[k].cmd = "start" => k \in DOMAIN s
  BY <1>3 DEF Sent
<1>6. StartsOnce(s) => StartsOnce(r)
  BY <1>3, <1>5 DEF StartsOnce
<1> QED  BY <1>1, <1>4, <1>6 DEF r

Purpose == {"folder", "recent", "rescan", "boot", "remote", "select", "reload", "watch", "none"}
Command(w, cmd, arg, for, root, e) ==
    [window |-> w, cmd |-> cmd, arg |-> arg, for |-> for, root |-> root, effect |-> e]

\* A command is sent that starts no watch.
LEMMA Sends ==
    ASSUME IInv,
           NEW w \in Window, NEW cmd \in {"scan", "read", "stop", "revoke"},
           NEW arg \in Root \cup Folder, NEW for \in Purpose, NEW root \in Root \cup {None},
           calls' = Send(w, cmd, arg, for, root, 0)
    PROVE  /\ calls' \in Seq(Call) /\ StartsOnce(calls')
           /\ Sent(calls') = Sent(calls) \cup {Command(w, cmd, arg, for, root, 0)}
<1> DEFINE c == Command(w, cmd, arg, for, root, 0)
<1>1. c \in Call /\ c.cmd # "start"
  BY DEF Command, Call, Purpose
<1>2. calls' = Append(calls, c)
  BY DEF Send, Command
<1>3. calls \in Seq(Call) /\ StartsOnce(calls)
  BY DEF IInv, Typed
<1> HIDE DEF c
<1> QED  BY <1>1, <1>2, <1>3, AppendSent DEF c

LEMMA ContinueSent ==
    ASSUME Typed, StartsOnce(calls), calls # << >>,
           NEW w \in Window, NEW cmd \in {"scan", "read", "stop", "revoke"},
           NEW arg \in Root \cup Folder, NEW for \in Purpose, NEW root \in Root \cup {None}
    PROVE  /\ Continue(w, cmd, arg, for, root) \in Seq(Call)
           /\ Sent(Continue(w, cmd, arg, for, root))
                 = Sent(Tail(calls)) \cup {Command(w, cmd, arg, for, root, 0)}
           /\ StartsOnce(Continue(w, cmd, arg, for, root))
<1> DEFINE c == Command(w, cmd, arg, for, root, 0)
           r == Tail(calls)
<1>1. c \in Call /\ c.cmd # "start"
  BY DEF Command, Call, Purpose
<1>2. Continue(w, cmd, arg, for, root) = Append(r, c)
  BY DEF Continue, Command
<1>3. r \in Seq(Call) /\ StartsOnce(r)
  BY TailSent DEF Typed
<1> HIDE DEF c, r
<1> QED  BY <1>1, <1>2, <1>3, AppendSent DEF c, r

LEMMA LoadingStep ==
    ASSUME ui \in [Window -> Store], NEW w \in Window, NEW v \in BOOLEAN
    PROVE  /\ Loading(w, v) \in [Window -> Store]
           /\ \A x \in Window : Loading(w, v)[x].activeRoot = ui[x].activeRoot
<1>1. ui[w] \in Store
  OBVIOUS
<1>2. [ui[w] EXCEPT !.loading = v] \in Store
      /\ [ui[w] EXCEPT !.loading = v].activeRoot = ui[w].activeRoot
  BY <1>1 DEF Store
<1>3. Loading(w, v) = [ui EXCEPT ![w] = [ui[w] EXCEPT !.loading = v]]
  BY DEF Loading
<1> DEFINE u == [ui[w] EXCEPT !.loading = v]
<1> HIDE DEF u
<1> QED  BY <1>2, <1>3 DEF u

\* Steps that leave the live-reload effects alone: what they send starts nothing,
\* and no start or stop is lost.
LEMMA EffectsStay ==
    ASSUME IInv, Typed', UNCHANGED effects, Watched',
           \A c \in Sent(calls') : c \in Sent(calls)
                                   \/ (c.cmd # "start" /\ Meant(c, effects)),
           \A c \in Sent(calls) : c.cmd = "start" => c \in Sent(calls'),
           StartsOnce(calls'),
           \A a \in asks' : a \in asks \/ Asked(a, effects),
           \A w \in Window : ui[w].activeRoot # None => ui'[w].activeRoot # None
    PROVE  IInv'
<1>1. /\ \A c \in Sent(calls) : Meant(c, effects)
      /\ \A a \in asks : Asked(a, effects)
      /\ \A w \in Window : effects[w] # << >> => ui[w].activeRoot # None
      /\ \A w \in Window : \A k \in DOMAIN effects[w] : InOrder(w, k, effects, Sent(calls))
  BY DEF IInv
<1>2. \A c \in Sent(calls') : Meant(c, effects')
  BY <1>1
<1>3. \A a \in asks' : Asked(a, effects')
  BY <1>1
<1>4. \A w \in Window : effects'[w] # << >> => ui'[w].activeRoot # None
  BY <1>1
<1>5. \A w \in Window : \A k \in DOMAIN effects[w] : InOrder(w, k, effects, Sent(calls'))
  BY <1>1 DEF InOrder
<1>6. \A w \in Window : \A k \in DOMAIN effects'[w] : InOrder(w, k, effects', Sent(calls'))
  BY <1>5
<1> HIDE DEF Sent, Meant, Asked, InOrder
<1> QED  BY <1>2, <1>3, <1>4, <1>6 DEF IInv

LEMMA WatchStays ==
    ASSUME IInv, watch'.root = watch.root, UNCHANGED effects,
           \A c \in Sent(calls) : c.cmd = "stop" => c \in Sent(calls')
    PROVE  Watched'
BY DEF IInv, Watched, Current

\* A command is sent that starts no watch.
LEMMA SendStays ==
    ASSUME IInv, NEW c, Sent(calls') = Sent(calls) \cup {c}, StartsOnce(calls'),
           c.cmd # "start", Meant(c, effects), Typed',
           UNCHANGED <<effects, watch>>,
           \A a \in asks' : a \in asks \/ Asked(a, effects),
           \A w \in Window : ui[w].activeRoot # None => ui'[w].activeRoot # None
    PROVE  IInv'
BY EffectsStay, WatchStays

LEMMA TypedNow ==
    ASSUME IInv
    PROVE  /\ disk \in [Root -> 0 .. MaxEdits] /\ granted \subseteq Folder
           /\ detected \subseteq granted /\ watch \in [root: Root \cup {None}, dirty: BOOLEAN]
           /\ calls \in Seq(Call) /\ asks \subseteq Ask
           /\ ui \in [Window -> Store] /\ effects \in [Window -> Seq(Effect)]
           /\ owed \in [Window -> 0 .. MaxEdits] /\ ops \in 0 .. MaxOps
           /\ Typed /\ StartsOnce(calls)
BY DEF IInv, Typed

LEMMA Counted ==
    ASSUME IInv, NEW w, UserActs(w)
    PROVE  ops' \in 0 .. MaxOps /\ ops' \in Nat
BY TypedNow, Given DEF UserActs

LEMMA OpenFolderStep ==
    ASSUME IInv, NEW w \in Window, NEW f \in Folder, OpenFolder(w, f)
    PROVE  IInv'
<1> DEFINE c == Command(w, "scan", f, "folder", None, 0)
<1>1. /\ granted' = granted \cup {f} /\ ui' = Loading(w, TRUE)
      /\ calls' = Send(w, "scan", f, "folder", None, 0)
      /\ UNCHANGED <<disk, detected, watch, asks, effects, owed>> /\ ops' \in 0 .. MaxOps
  BY Counted DEF OpenFolder
<1>2. calls' \in Seq(Call) /\ Sent(calls') = Sent(calls) \cup {c} /\ StartsOnce(calls')
  <2>1. {"folder", "recent", "rescan", "boot", "select", "none"} \subseteq Purpose
        /\ None \in Root \cup {None}
    BY DEF Purpose
  <2> QED  BY <1>1, <2>1, Sends
<1>3. ui' \in [Window -> Store] /\ \A x \in Window : ui'[x].activeRoot = ui[x].activeRoot
  BY <1>1, LoadingStep, TypedNow
<1>4. Typed'
  BY <1>1, <1>2, <1>3, TypedNow DEF Typed
<1>5. c.cmd # "start" /\ Meant(c, effects)
  BY DEF Command, Meant
<1> HIDE DEF c
<1> QED  BY <1>1, <1>2, <1>3, <1>4, <1>5, SendStays

LEMMA OpenRecentStep ==
    ASSUME IInv, NEW w \in Window, NEW r \in Root, OpenRecent(w, r)
    PROVE  IInv'
<1> DEFINE f == FolderOf(r)
           c == Command(w, "scan", f, "recent", r, 0)
<1>1. /\ f \in granted /\ ui' = Loading(w, TRUE)
      /\ calls' = Send(w, "scan", f, "recent", r, 0)
      /\ UNCHANGED <<disk, granted, detected, watch, asks, effects, owed>> /\ ops' \in 0 .. MaxOps
  BY Counted DEF OpenRecent, grants
<1>2. f \in Folder
  BY <1>1, TypedNow
<1> HIDE DEF f
<1>3. calls' \in Seq(Call) /\ Sent(calls') = Sent(calls) \cup {c} /\ StartsOnce(calls')
  <2>1. {"folder", "recent", "rescan", "boot", "select", "none"} \subseteq Purpose
        /\ None \in Root \cup {None}
    BY DEF Purpose
  <2> QED  BY <1>1, <1>2, <2>1, Sends
<1>4. ui' \in [Window -> Store] /\ \A x \in Window : ui'[x].activeRoot = ui[x].activeRoot
  BY <1>1, LoadingStep, TypedNow
<1>5. Typed'
  BY <1>1, <1>3, <1>4, TypedNow DEF Typed
<1>6. c.cmd # "start" /\ Meant(c, effects)
  BY <1>2 DEF Command, Meant
<1> HIDE DEF c
<1> QED  BY <1>1, <1>3, <1>4, <1>5, <1>6, SendStays

LEMMA FoundRoots ==
    ASSUME NEW f \in Folder
    PROVE  /\ BundlesIn[f] \in Seq(Root)
           /\ BundlesIn[f] # << >> => BundlesIn[f][1] \in Root
           /\ \A r : Contains(BundlesIn[f], r) => r \in Root
<1>1. BundlesIn[f] \in Seq(Root)
  BY Given
<1>2. DOMAIN BundlesIn[f] = 1 .. Len(BundlesIn[f]) /\ Len(BundlesIn[f]) \in Nat
  BY <1>1, LenProperties
<1>3. \A i \in DOMAIN BundlesIn[f] : BundlesIn[f][i] \in Root
  BY <1>1, <1>2, ElementOfSeq
<1>4. BundlesIn[f] # << >> => 1 \in DOMAIN BundlesIn[f]
  BY <1>1, <1>2, EmptySeq
<1> QED  BY <1>1, <1>2, <1>3, <1>4 DEF Contains

LEMMA SelectBundleStep ==
    ASSUME IInv, NEW w \in Window, NEW r \in Root, SelectBundle(w, r)
    PROVE  IInv'
<1> DEFINE c == Command(w, "read", r, "select", None, 0)
<1>1. /\ ui' = Loading(w, TRUE) /\ calls' = Send(w, "read", r, "select", None, 0)
      /\ UNCHANGED <<disk, granted, detected, watch, asks, effects, owed>> /\ ops' \in 0 .. MaxOps
  BY Counted DEF SelectBundle, grants
<1>3. calls' \in Seq(Call) /\ Sent(calls') = Sent(calls) \cup {c} /\ StartsOnce(calls')
  <2>1. {"folder", "recent", "rescan", "boot", "select", "none"} \subseteq Purpose
        /\ None \in Root \cup {None}
    BY DEF Purpose
  <2> QED  BY <1>1, <2>1, Sends
<1>4. ui' \in [Window -> Store] /\ \A x \in Window : ui'[x].activeRoot = ui[x].activeRoot
  BY <1>1, LoadingStep, TypedNow
<1>5. Typed'
  BY <1>1, <1>3, <1>4, TypedNow DEF Typed
<1>6. c.cmd # "start" /\ Meant(c, effects)
  BY DEF Command, Meant
<1> HIDE DEF c
<1> QED  BY <1>1, <1>3, <1>4, <1>5, <1>6, SendStays

LEMMA RescanStep ==
    ASSUME IInv, NEW w \in Window, Rescan(w)
    PROVE  IInv'
<1> DEFINE c == Command(w, "scan", ui[w].folder, "rescan", ui[w].activeRoot, 0)
<1>1. /\ ui[w].folder # None
      /\ calls' = Send(w, "scan", ui[w].folder, "rescan", ui[w].activeRoot, 0)
      /\ UNCHANGED <<disk, granted, detected, watch, asks, ui, effects, owed>>
      /\ ops' \in 0 .. MaxOps
  BY Counted DEF Rescan, grants
<1>2. ui[w].folder \in Folder /\ ui[w].activeRoot \in Root \cup {None}
  BY <1>1, TypedNow DEF Store
<1>3. calls' \in Seq(Call) /\ Sent(calls') = Sent(calls) \cup {c} /\ StartsOnce(calls')
  <2>1. {"folder", "recent", "rescan", "boot", "select", "none"} \subseteq Purpose
        /\ None \in Root \cup {None}
    BY DEF Purpose
  <2> QED  BY <1>1, <1>2, <2>1, Sends
<1>5. Typed'
  BY <1>1, <1>3, TypedNow DEF Typed
<1>6. c.cmd # "start" /\ Meant(c, effects)
  BY <1>2 DEF Command, Meant
<1> HIDE DEF c
<1> QED  BY <1>1, <1>3, <1>5, <1>6, SendStays

LEMMA ForgetBundleStep ==
    ASSUME IInv, NEW w \in Window, NEW f \in Folder, ForgetBundle(w, f)
    PROVE  IInv'
<1> DEFINE c == Command(w, "revoke", f, "none", None, 0)
<1>1. /\ calls' = Send(w, "revoke", f, "none", None, 0)
      /\ UNCHANGED <<disk, granted, detected, watch, asks, ui, effects, owed>>
      /\ ops' \in 0 .. MaxOps
  BY Counted DEF ForgetBundle, grants
<1>3. calls' \in Seq(Call) /\ Sent(calls') = Sent(calls) \cup {c} /\ StartsOnce(calls')
  <2>1. {"folder", "recent", "rescan", "boot", "select", "none"} \subseteq Purpose
        /\ None \in Root \cup {None}
    BY DEF Purpose
  <2> QED  BY <1>1, <2>1, Sends
<1>5. Typed'
  BY <1>1, <1>3, TypedNow DEF Typed
<1>6. c.cmd # "start" /\ Meant(c, effects)
  BY DEF Command, Meant
<1> HIDE DEF c
<1> QED  BY <1>1, <1>3, <1>5, <1>6, SendStays

LEMMA PopOutStep ==
    ASSUME IInv, NEW w \in Window, NEW opener \in Window, PopOut(w, opener)
    PROVE  IInv'
<1> DEFINE f == ui[opener].folder
           r == ui[opener].activeRoot
           c == Command(w, "scan", f, "boot", r, 0)
           u == [ui[w] EXCEPT !.open = TRUE]
<1>1. /\ f # None /\ ui' = [ui EXCEPT ![w] = u]
      /\ calls' = Send(w, "scan", f, "boot", r, 0)
      /\ UNCHANGED <<disk, granted, detected, watch, asks, effects, owed>> /\ ops' \in 0 .. MaxOps
  BY Counted DEF PopOut, grants
<1>2. f \in Folder /\ r \in Root \cup {None}
  BY <1>1, TypedNow DEF Store
<1>0. u \in Store /\ u.activeRoot = ui[w].activeRoot
  <2>1. ui[w] \in Store
    BY TypedNow
  <2> QED  BY <2>1 DEF Store
<1> HIDE DEF f, r, u
<1>3. calls' \in Seq(Call) /\ Sent(calls') = Sent(calls) \cup {c} /\ StartsOnce(calls')
  <2>1. {"folder", "recent", "rescan", "boot", "select", "none"} \subseteq Purpose
        /\ None \in Root \cup {None}
    BY DEF Purpose
  <2> QED  BY <1>1, <1>2, <2>1, Sends
<1>4. ui' \in [Window -> Store] /\ \A x \in Window : ui'[x].activeRoot = ui[x].activeRoot
  BY <1>0, <1>1, TypedNow
<1>5. Typed'
  BY <1>1, <1>3, <1>4, TypedNow DEF Typed
<1>6. c.cmd # "start" /\ Meant(c, effects)
  BY <1>2 DEF Command, Meant
<1> HIDE DEF c
<1> QED  BY <1>1, <1>3, <1>4, <1>5, <1>6, SendStays

LEMMA FetchRemoteStep ==
    ASSUME IInv, NEW w \in Window, NEW f \in Folder, NEW refresh \in BOOLEAN,
           FetchRemote(w, f, refresh)
    PROVE  IInv'
<1> DEFINE a == [window |-> w, cmd |-> "fetch", arg |-> f,
                 for |-> IF refresh THEN "folder" ELSE "remote", effect |-> ops']
<1>1. /\ ui' = (IF refresh THEN Loading(w, TRUE) ELSE ui) /\ asks' = asks \cup {a}
      /\ UNCHANGED <<disk, granted, detected, watch, calls, effects, owed>>
      /\ ops' \in 0 .. MaxOps /\ ops' \in Nat
  BY Counted DEF FetchRemote, grants
<1>2. a \in Ask /\ Asked(a, effects)
  BY <1>1 DEF Ask, Asked
<1> HIDE DEF a
<1>3. ui' \in [Window -> Store] /\ \A x \in Window : ui'[x].activeRoot = ui[x].activeRoot
  BY <1>1, LoadingStep, TypedNow
<1>4. Typed'
  BY <1>1, <1>2, <1>3, TypedNow DEF Typed
<1>5. StartsOnce(calls') /\ Watched'
  BY <1>1, WatchStays, TypedNow
<1> QED  BY <1>1, <1>2, <1>3, <1>4, <1>5, EffectsStay

-----------------------------------------------------------------------------
LEMMA FetchAnsweredStep ==
    ASSUME IInv, NEW a \in asks, NEW ok \in BOOLEAN, FetchAnswered(a, ok)
    PROVE  IInv'
<1> DEFINE c == Command(a.window, "scan", a.arg, a.for, None, 0)
<1>1. /\ a.cmd = "fetch" /\ asks' = asks \ {a}
      /\ granted' = (IF ok THEN granted \cup {a.arg} ELSE granted)
      /\ calls' = (IF ok THEN Send(a.window, "scan", a.arg, a.for, None, 0) ELSE calls)
      /\ ui' = (IF ~ok /\ a.for = "folder" THEN Loading(a.window, FALSE) ELSE ui)
      /\ UNCHANGED <<disk, detected, watch, effects, owed, ops>>
  BY DEF FetchAnswered
<1>2. a.window \in Window /\ a.arg \in Folder /\ a.for \in {"remote", "folder"}
  BY <1>1, TypedNow DEF IInv, Asked, Ask
<1>3. ui' \in [Window -> Store] /\ \A x \in Window : ui'[x].activeRoot = ui[x].activeRoot
  BY <1>1, <1>2, LoadingStep, TypedNow
<1>4. /\ calls' \in Seq(Call) /\ StartsOnce(calls')
      /\ Sent(calls') = Sent(calls) \cup (IF ok THEN {c} ELSE {})
  <2>1. CASE ok
    <3>1. calls' = Send(a.window, "scan", a.arg, a.for, None, 0)
      BY <1>1, <2>1
    <3>2. a.for \in Purpose /\ a.arg \in Root \cup Folder /\ None \in Root \cup {None}
      BY <1>2 DEF Purpose
    <3> QED  BY <1>2, <2>1, <3>1, <3>2, Sends
  <2>2. CASE ~ok
    BY <1>1, <2>2, TypedNow
  <2> QED  BY <2>1, <2>2
<1>5. c.cmd # "start" /\ Meant(c, effects)
  BY <1>2 DEF Command, Meant
<1> HIDE DEF c
<1>6. Typed'
  BY <1>1, <1>2, <1>3, <1>4, TypedNow DEF Typed
<1>7. Watched'
  BY <1>1, <1>4, WatchStays
<1> QED  BY <1>1, <1>3, <1>4, <1>5, <1>6, <1>7, EffectsStay

\* The first command, answered.
LEMMA Answered ==
    ASSUME IInv, calls # << >>
    PROVE  /\ Head(calls) \in Call /\ Meant(Head(calls), effects)
           /\ Head(calls) \in Sent(calls)
           /\ Head(calls).window \in Window
           /\ Tail(calls) \in Seq(Call) /\ StartsOnce(Tail(calls))
           /\ Sent(calls) = Sent(Tail(calls)) \cup {Head(calls)}
<1>1. /\ Head(calls) \in Call /\ Tail(calls) \in Seq(Call) /\ StartsOnce(Tail(calls))
      /\ Sent(calls) = Sent(Tail(calls)) \cup {Head(calls)}
  BY TailSent, TypedNow
<1>2. Head(calls) \in Sent(calls)
  BY <1>1
<1>3. Meant(Head(calls), effects)
  BY <1>2 DEF IInv
<1>4. Head(calls).window \in Window
  BY <1>1 DEF Call
<1> QED  BY <1>1, <1>2, <1>3, <1>4

\* An answer that neither starts a watch nor ends it.
LEMMA AnswerStays ==
    ASSUME IInv, calls # << >>, Head(calls).cmd # "start", Head(calls).cmd # "stop",
           \A c \in Sent(calls') : c \in Sent(Tail(calls))
                                   \/ (c.cmd # "start" /\ Meant(c, effects)),
           Sent(Tail(calls)) \subseteq Sent(calls'), StartsOnce(calls'),
           Typed', effects' = effects, watch' = watch, asks' = asks,
           \A w \in Window : ui[w].activeRoot # None => ui'[w].activeRoot # None
    PROVE  IInv'
<1>1. Sent(calls) = Sent(Tail(calls)) \cup {Head(calls)}
  BY Answered
<1>2. Watched'
  BY <1>1, WatchStays
<1> QED  BY <1>1, <1>2, EffectsStay

\* What a scan answers names a folder and may begin a read; the bundles stay.
LEMMA ScanKeepsTheBundles ==
    ASSUME IInv, calls # << >>, ScanAnswered
    PROVE  ui' \in [Window -> Store] /\ \A x \in Window : ui'[x].activeRoot = ui[x].activeRoot
<1> DEFINE c == Head(calls)
           w == c.window
           found == BundlesIn[c.arg]
           root == Opens(c, found)
           settles == c.for \in {"folder", "recent"}
           u == [ui[w] EXCEPT !.folder = c.arg, !.loading = root # None \/ (@ /\ ~settles)]
<1>1. c.cmd = "scan" /\ (ui' = Loading(w, FALSE) \/ ui' = ui \/ ui' = [ui EXCEPT ![w] = u])
  <2>1. c.cmd = "scan"
    BY DEF ScanAnswered
  <2>2. IF c.arg \notin granted \/ (c.for = "remote" /\ Len(found) # 1)
        THEN ui' = IF settles THEN Loading(w, FALSE) ELSE ui
        ELSE ui' = [ui EXCEPT ![w].folder = c.arg, ![w].loading = root # None \/ (@ /\ ~settles)]
    BY DEF ScanAnswered
  <2>3. ui \in [Window -> Store] /\ w \in Window
    BY TypedNow, Answered
  <2>4. [ui EXCEPT ![w].folder = c.arg, ![w].loading = root # None \/ (@ /\ ~settles)]
          = [ui EXCEPT ![w] = u]
    <3>1. ui[w] \in Store
      BY <2>3
    <3> DEFINE v == root # None \/ (ui[w].loading /\ ~settles)
    <3>2. [ui EXCEPT ![w].folder = c.arg, ![w].loading = root # None \/ (@ /\ ~settles)]
            = [[ui EXCEPT ![w] = [ui[w] EXCEPT !.folder = c.arg]] EXCEPT ![w].loading = v]
      BY <2>3, <3>1 DEF Store
    <3> QED  BY <2>3, <3>1 DEF Store
  <2> QED  BY <2>1, <2>2, <2>4
<1>2. w \in Window /\ c.arg \in Folder
  BY <1>1, Answered DEF Meant, Call
<1>3. u \in Store /\ u.activeRoot = ui[w].activeRoot
  <2>1. ui[w] \in Store
    BY <1>2, TypedNow
  <2> HIDE DEF c, w, root, settles
  <2> QED  BY <1>2, <2>1 DEF Store
<1> HIDE DEF c, w, found, root, settles, u
<1> QED
  <2>1. ui \in [Window -> Store]
    BY TypedNow
  <2>2. CASE ui' = Loading(w, FALSE)
    BY <1>2, <2>1, <2>2, LoadingStep
  <2>3. CASE ui' = ui
    BY <2>1, <2>3
  <2>4. CASE ui' = [ui EXCEPT ![w] = u]
    BY <1>2, <1>3, <2>1, <2>4
  <2> QED  BY <1>1, <2>2, <2>3, <2>4

LEMMA ScanAnsweredStep ==
    ASSUME IInv, calls # << >>, ScanAnswered
    PROVE  IInv'
<1> DEFINE c == Head(calls)
           w == c.window
           found == BundlesIn[c.arg]
           root == Opens(c, found)
           d == Command(w, "read", root, "select", None, 0)
<1>1. /\ c.cmd = "scan"
      /\ \/ calls' = Tail(calls)
         \/ root # None /\ calls' = Continue(w, "read", root, "select", None)
      /\ detected' = detected \cup ({c.arg} \cap granted)
      /\ UNCHANGED <<disk, granted, watch, asks, effects, owed, ops>>
  <2>1. /\ c.cmd = "scan"
        /\ detected' = detected \cup ({c.arg} \cap granted)
        /\ UNCHANGED <<disk, granted, watch, asks, effects, owed, ops>>
    BY DEF ScanAnswered
  <2>2. IF c.arg \notin granted \/ (c.for = "remote" /\ Len(found) # 1)
        THEN calls' = Tail(calls)
        ELSE calls' = IF root = None THEN Tail(calls)
                      ELSE Continue(w, "read", root, "select", None)
    BY DEF ScanAnswered
  <2> HIDE DEF found, root
  <2>3. \/ calls' = Tail(calls)
        \/ root # None /\ calls' = Continue(w, "read", root, "select", None)
    BY ONLY <2>2
  <2> QED  BY <2>1, <2>3
<1>2. /\ w \in Window /\ c.arg \in Folder /\ c.root \in Root \cup {None}
      /\ Tail(calls) \in Seq(Call) /\ StartsOnce(Tail(calls))
  BY <1>1, Answered DEF Meant, Call
<1>3. root \in Root \cup {None}
  BY <1>2, FoundRoots DEF Opens
<1> HIDE DEF c, w, found, root
<1>5. ui' \in [Window -> Store] /\ \A x \in Window : ui'[x].activeRoot = ui[x].activeRoot
  BY ScanKeepsTheBundles
<1>6. /\ calls' \in Seq(Call) /\ StartsOnce(calls')
      /\ \/ Sent(calls') = Sent(Tail(calls))
         \/ root \in Root /\ Sent(calls') = Sent(Tail(calls)) \cup {d}
  <2>1. CASE calls' = Tail(calls)
    BY <1>2, <2>1
  <2>2. CASE root # None /\ calls' = Continue(w, "read", root, "select", None)
    <3>1. root \in Root \cup Folder /\ root \in Root /\ "select" \in Purpose
          /\ None \in Root \cup {None}
      BY <1>3, <2>2 DEF Purpose
    <3>2. /\ calls' \in Seq(Call) /\ StartsOnce(calls')
          /\ Sent(calls') = Sent(Tail(calls)) \cup {d}
      <4>1. Typed /\ StartsOnce(calls) /\ calls # << >> /\ w \in Window
        BY <1>2, TypedNow
      <4> QED  BY ONLY <2>2, <3>1, <4>1, ContinueSent
    <3> QED  BY <3>1, <3>2
  <2> QED  BY <1>1, <2>1, <2>2
<1>7. root \in Root => d.cmd # "start" /\ Meant(d, effects)
  BY DEF Command, Meant
<1> HIDE DEF d
<1>8. /\ \A e \in Sent(calls') : e \in Sent(Tail(calls))
                                  \/ (e.cmd # "start" /\ Meant(e, effects))
      /\ Sent(Tail(calls)) \subseteq Sent(calls')
  BY <1>6, <1>7
<1>9. detected' \subseteq granted'
  BY <1>1, TypedNow
<1>10. Typed'
  <2>1. UNCHANGED <<disk, granted, watch, asks, effects, owed, ops>> /\ calls' \in Seq(Call)
    BY <1>1, <1>6
  <2> QED  BY <2>1, <1>5, <1>9, TypedNow DEF Typed
<1>11. /\ Head(calls).cmd # "start" /\ Head(calls).cmd # "stop"
       /\ effects' = effects /\ watch' = watch /\ asks' = asks
  BY <1>1 DEF c
<1>12. StartsOnce(calls') /\ \A x \in Window : ui'[x].activeRoot = ui[x].activeRoot
  BY <1>5, <1>6
<1> QED  BY <1>8, <1>10, <1>11, <1>12, AnswerStays

\* What a window shows once a bundle was read.
LEMMA ShowStep ==
    ASSUME IInv, NEW w \in Window, NEW r \in Root
    PROVE  LET u == [ui EXCEPT ![w].activeRoot = r, ![w].shown = disk[r], ![w].loading = FALSE]
               o == IF r = ui[w].activeRoot THEN owed ELSE [owed EXCEPT ![w] = 0]
           IN  /\ u \in [Window -> Store] /\ o \in [Window -> 0 .. MaxEdits]
               /\ \A x \in Window : u[x].activeRoot = IF x = w THEN r ELSE ui[x].activeRoot
<1>1. ui \in [Window -> Store] /\ ui[w] \in Store /\ disk[r] \in 0 .. MaxEdits
      /\ owed \in [Window -> 0 .. MaxEdits] /\ 0 \in 0 .. MaxEdits
  BY TypedNow, Given
<1> DEFINE v == [ui[w] EXCEPT !.activeRoot = r, !.shown = disk[r], !.loading = FALSE]
<1>2. [ui EXCEPT ![w].activeRoot = r, ![w].shown = disk[r], ![w].loading = FALSE]
        = [ui EXCEPT ![w] = v]
  BY <1>1 DEF Store
<1>3. v \in Store /\ v.activeRoot = r
  BY <1>1 DEF Store
<1> HIDE DEF v
<1>4. /\ [ui EXCEPT ![w] = v] \in [Window -> Store]
      /\ \A x \in Window : [ui EXCEPT ![w] = v][x].activeRoot
                             = IF x = w THEN r ELSE ui[x].activeRoot
  BY <1>1, <1>3
<1> QED  BY <1>1, <1>2, <1>4

LEMMA SelectAnsweredStep ==
    ASSUME IInv, calls # << >>, SelectAnswered
    PROVE  IInv'
<1> DEFINE w == Head(calls).window
           r == Head(calls).arg
<1>1. /\ Head(calls).cmd = "read" /\ calls' = Tail(calls)
      /\ \/ /\ ui' = [ui EXCEPT ![w].activeRoot = r, ![w].shown = disk[r], ![w].loading = FALSE]
            /\ owed' = IF r = ui[w].activeRoot THEN owed ELSE [owed EXCEPT ![w] = 0]
         \/ ui' = Loading(w, FALSE) /\ UNCHANGED owed
      /\ UNCHANGED <<disk, granted, detected, watch, asks, effects, ops>>
  BY DEF SelectAnswered, grants
<1>2. w \in Window /\ r \in Root /\ Tail(calls) \in Seq(Call) /\ StartsOnce(Tail(calls))
  BY <1>1, Answered DEF Meant
<1> HIDE DEF w, r
<1>3. /\ ui' \in [Window -> Store] /\ owed' \in [Window -> 0 .. MaxEdits]
      /\ \A x \in Window : ui'[x].activeRoot = ui[x].activeRoot \/ ui'[x].activeRoot = r
  <2> DEFINE u == [ui EXCEPT ![w].activeRoot = r, ![w].shown = disk[r], ![w].loading = FALSE]
             o == IF r = ui[w].activeRoot THEN owed ELSE [owed EXCEPT ![w] = 0]
  <2>1. /\ u \in [Window -> Store] /\ o \in [Window -> 0 .. MaxEdits]
        /\ \A x \in Window : u[x].activeRoot = IF x = w THEN r ELSE ui[x].activeRoot
    BY <1>2, ShowStep
  <2>2. (ui' = u /\ owed' = o) \/ (ui' = Loading(w, FALSE) /\ owed' = owed)
    BY <1>1
  <2> HIDE DEF u, o
  <2>3. CASE ui' = u /\ owed' = o
    BY <2>1, <2>3
  <2>4. CASE ui' = Loading(w, FALSE) /\ owed' = owed
    BY <1>2, <2>4, LoadingStep, TypedNow
  <2> QED  BY <2>2, <2>3, <2>4
<1>4. r # None
  BY <1>2, Given
<1>5. Typed'
  BY <1>1, <1>2, <1>3, TypedNow DEF Typed
<1>6. Sent(calls') = Sent(Tail(calls)) /\ StartsOnce(calls')
  BY <1>1, <1>2
<1> QED  BY <1>1, <1>3, <1>4, <1>5, <1>6, AnswerStays

LEMMA ReloadAnsweredStep ==
    ASSUME IInv, calls # << >>, ReloadAnswered
    PROVE  IInv'
<1> DEFINE w == Head(calls).window
           r == Head(calls).arg
<1>1. /\ Head(calls).cmd = "read" /\ calls' = Tail(calls)
      /\ \/ /\ ui' = [ui EXCEPT ![w].activeRoot = r, ![w].shown = disk[r], ![w].loading = FALSE]
            /\ owed' = IF r = ui[w].activeRoot THEN owed ELSE [owed EXCEPT ![w] = 0]
         \/ UNCHANGED <<ui, owed>>
      /\ UNCHANGED <<disk, granted, detected, watch, asks, effects, ops>>
  BY DEF ReloadAnswered, grants
<1>2. w \in Window /\ r \in Root /\ Tail(calls) \in Seq(Call) /\ StartsOnce(Tail(calls))
  BY <1>1, Answered DEF Meant
<1> HIDE DEF w, r
<1>3. /\ ui' \in [Window -> Store] /\ owed' \in [Window -> 0 .. MaxEdits]
      /\ \A x \in Window : ui'[x].activeRoot = ui[x].activeRoot \/ ui'[x].activeRoot = r
  <2> DEFINE u == [ui EXCEPT ![w].activeRoot = r, ![w].shown = disk[r], ![w].loading = FALSE]
             o == IF r = ui[w].activeRoot THEN owed ELSE [owed EXCEPT ![w] = 0]
  <2>1. /\ u \in [Window -> Store] /\ o \in [Window -> 0 .. MaxEdits]
        /\ \A x \in Window : u[x].activeRoot = IF x = w THEN r ELSE ui[x].activeRoot
    BY <1>2, ShowStep
  <2>2. (ui' = u /\ owed' = o) \/ (ui' = ui /\ owed' = owed)
    BY <1>1
  <2> HIDE DEF u, o
  <2>3. CASE ui' = u /\ owed' = o
    BY <2>1, <2>3
  <2>4. CASE ui' = ui /\ owed' = owed
    BY <1>2, <2>4, TypedNow
  <2> QED  BY <2>2, <2>3, <2>4
<1>4. r # None
  BY <1>2, Given
<1>5. Typed'
  BY <1>1, <1>2, <1>3, TypedNow DEF Typed
<1>6. Sent(calls') = Sent(Tail(calls)) /\ StartsOnce(calls')
  BY <1>1, <1>2
<1> QED  BY <1>1, <1>3, <1>4, <1>5, <1>6, AnswerStays

LEMMA RevokeAnsweredStep ==
    ASSUME IInv, calls # << >>, RevokeAnswered
    PROVE  IInv'
<1> DEFINE f == Head(calls).arg
<1>1. /\ Head(calls).cmd = "revoke" /\ calls' = Tail(calls)
      /\ granted' = granted \ {f} /\ detected' = detected \ {f}
      /\ UNCHANGED <<disk, watch, asks, ui, effects, owed, ops>>
  BY DEF RevokeAnswered
<1>2. Tail(calls) \in Seq(Call) /\ StartsOnce(Tail(calls))
  BY Answered
<1> HIDE DEF f
<1>3. Typed'
  BY <1>1, <1>2, TypedNow DEF Typed
<1>4. Sent(calls') = Sent(Tail(calls)) /\ StartsOnce(calls')
  BY <1>1, <1>2
<1> QED  BY <1>1, <1>3, <1>4, AnswerStays

\* stop_watch: there is no watch any more.
LEMMA StopAnsweredStep ==
    ASSUME IInv, calls # << >>, StopAnswered
    PROVE  IInv'
<1>1. /\ Head(calls).cmd = "stop" /\ calls' = Tail(calls)
      /\ owed' = [w \in Window |-> 0]
      /\ UNCHANGED <<disk, granted, detected, asks, ui, effects, ops>>
  BY DEF StopAnswered, WatchBecomes, grants
<1>2. PICK late \in {FALSE, watch.dirty} : watch' = [root |-> None, dirty |-> late]
  BY DEF StopAnswered, WatchBecomes
<1>3. Tail(calls) \in Seq(Call) /\ StartsOnce(Tail(calls))
      /\ Sent(calls) = Sent(Tail(calls)) \cup {Head(calls)}
  BY Answered
<1>4. watch' \in [root: Root \cup {None}, dirty: BOOLEAN] /\ watch'.root = None
  BY <1>2, TypedNow
<1>5. owed' \in [Window -> 0 .. MaxEdits]
  BY <1>1, Given
<1>6. Typed'
  BY <1>1, <1>3, <1>4, <1>5, TypedNow DEF Typed
<1>7. Watched'
  BY <1>4 DEF Watched
<1> QED  BY <1>1, <1>3, <1>6, <1>7, EffectsStay

LEMMA EditStep ==
    ASSUME IInv, NEW r \in Root, Edit(r)
    PROVE  IInv'
<1>1. /\ disk[r] < MaxEdits /\ disk' = [disk EXCEPT ![r] = disk[r] + 1]
      /\ watch' = [watch EXCEPT !.dirty = watch.dirty \/ watch.root = r]
      /\ owed' = [w \in Window |-> IF Hears(w) /\ watch.root = r THEN disk[r] + 1 ELSE owed[w]]
      /\ UNCHANGED <<granted, detected, calls, asks, ui, effects, ops>>
  BY DEF Edit, grants
<1>2. disk[r] + 1 \in 0 .. MaxEdits
  <2>1. disk[r] \in 0 .. MaxEdits /\ MaxEdits \in Nat
    BY TypedNow, Given
  <2> QED  BY <1>1, <2>1
<1> DEFINE n == disk[r] + 1
           hears(w) == Hears(w) /\ watch.root = r
<1> HIDE DEF n, hears
<1>3. disk' \in [Root -> 0 .. MaxEdits]
  BY <1>1, <1>2, TypedNow
<1>4. owed' \in [Window -> 0 .. MaxEdits]
  BY <1>1, <1>2, TypedNow
<1>5. watch' \in [root: Root \cup {None}, dirty: BOOLEAN] /\ watch'.root = watch.root
  BY <1>1, TypedNow
<1>6. Typed'
  BY <1>1, <1>3, <1>4, <1>5, TypedNow DEF Typed
<1>7. Watched'
  BY <1>1, <1>5, WatchStays
<1>8. StartsOnce(calls')
  BY <1>1, TypedNow
<1> QED  BY <1>1, <1>6, <1>7, <1>8, EffectsStay

LEMMA SentTyped ==
    ASSUME IInv, NEW d \in Sent(calls)
    PROVE  d \in Call /\ d.window \in Window /\ d.cmd \in {"scan", "read", "start", "stop", "revoke"}
<1>1. PICK j \in DOMAIN calls : d = calls[j]
  BY DEF Sent
<1>2. calls \in Seq(Call) /\ DOMAIN calls = 1 .. Len(calls)
  BY TypedNow, LenProperties
<1>3. d \in Call
  BY <1>1, <1>2, ElementOfSeq
<1> QED  BY <1>3 DEF Call

-----------------------------------------------------------------------------
LEMMA ImageFinite ==
    ASSUME NEW S, IsFiniteSet(S), NEW f, NEW T, f \in [S -> T], \A y \in T : \E x \in S : f[x] = y
    PROVE  IsFiniteSet(T)
<1>1. f \in Surjection(S, T)
  BY DEF Surjection
<1> QED  BY <1>1, FS_Surjection

\* The effect k of a window, and that it is one.
LEMMA EffectOf ==
    ASSUME IInv, NEW w \in Window
    PROVE  /\ effects[w] \in Seq(Effect)
           /\ DOMAIN effects[w] = 1 .. Len(effects[w]) /\ Len(effects[w]) \in Nat
           /\ \A k \in DOMAIN effects[w] : effects[w][k] \in Effect /\ k \in Nat
           /\ effects[w] # << >> <=> Len(effects[w]) > 0
           /\ effects[w] # << >> => Len(effects[w]) \in DOMAIN effects[w]
<1>1. effects[w] \in Seq(Effect)
  BY TypedNow
<1>2. DOMAIN effects[w] = 1 .. Len(effects[w]) /\ Len(effects[w]) \in Nat
  BY <1>1, LenProperties
<1>3. \A k \in DOMAIN effects[w] : effects[w][k] \in Effect
  BY <1>1, <1>2, ElementOfSeq
<1>4. effects[w] # << >> <=> Len(effects[w]) > 0
  BY <1>1, <1>2, EmptySeq
<1> QED  BY <1>1, <1>2, <1>3, <1>4

LEMMA ReloadsFinite ==
    ASSUME IInv
    PROVE  IsFiniteSet(ReloadsAsked)
<1> DEFINE L(w) == {j \in DOMAIN effects[w] : effects[w][j].listens}
           Q(w, k) == [window |-> w, cmd |-> "read", arg |-> effects[w][k].root,
                       for |-> "reload", root |-> None, effect |-> k]
           R(w) == {Q(w, k) : k \in L(w)}
           all == {R(w) : w \in Window}
<1>1. ASSUME NEW w \in Window PROVE IsFiniteSet(R(w))
  <2>1. IsFiniteSet(DOMAIN effects[w])
    BY EffectOf, FS_Interval
  <2>2. IsFiniteSet(L(w))
    BY <2>1, FS_Subset
  <2> DEFINE f == [k \in L(w) |-> Q(w, k)]
  <2> HIDE DEF L, Q
  <2>3. f \in [L(w) -> R(w)] /\ \A y \in R(w) : \E x \in L(w) : f[x] = y
    OBVIOUS
  <2> HIDE DEF f, R
  <2> QED  BY <2>2, <2>3, ImageFinite
<1> HIDE DEF R
<1>2. IsFiniteSet(all)
  <2> DEFINE g == [w \in Window |-> R(w)]
  <2>1. g \in [Window -> all] /\ \A y \in all : \E x \in Window : g[x] = y
    OBVIOUS
  <2> HIDE DEF g, all
  <2> QED  BY <2>1, Given, ImageFinite
<1>3. \A T \in all : IsFiniteSet(T)
  BY <1>1
<1>4. ReloadsAsked = UNION all
  BY DEF ReloadsAsked, R
<1> HIDE DEF all
<1> QED  BY <1>2, <1>3, <1>4, FS_UNION

LEMMA ReloadsMeant ==
    ASSUME IInv, NEW c \in ReloadsAsked
    PROVE  c \in Call /\ c.cmd = "read" /\ Meant(c, effects)
<1>0. PICK w \in Window : \E k \in DOMAIN effects[w] :
         c = [window |-> w, cmd |-> "read", arg |-> effects[w][k].root, for |-> "reload",
              root |-> None, effect |-> k]
  BY DEF ReloadsAsked
<1>1. PICK k \in DOMAIN effects[w] :
         c = [window |-> w, cmd |-> "read", arg |-> effects[w][k].root, for |-> "reload",
              root |-> None, effect |-> k]
  BY <1>0
<1>2. effects[w][k].root \in Root /\ k \in Nat
  BY EffectOf DEF Effect
<1>3. c \in Call /\ c.cmd = "read"
  BY <1>1, <1>2 DEF Call
<1>4. Meant(c, effects)
  BY <1>1, <1>2 DEF Meant
<1> QED  BY <1>3, <1>4

LEMMA EmitChangedStep ==
    ASSUME IInv, EmitChanged
    PROVE  IInv'
<1>1. /\ watch' = [watch EXCEPT !.dirty = FALSE]
      /\ UNCHANGED <<disk, granted, detected, asks, ui, effects, owed, ops>>
  BY DEF EmitChanged, grants
<1>2. PICK reads \in SetToSeqs(ReloadsAsked) : calls' = calls \o reads
  BY DEF EmitChanged
<1>3. Cardinality(ReloadsAsked) \in Nat
  BY ReloadsFinite, FS_CardinalityType
<1> DEFINE n == Cardinality(ReloadsAsked)
<1>4. reads \in [1 .. n -> ReloadsAsked]
  BY <1>2 DEF SetToSeqs
<1> HIDE DEF n
<1>5. n \in Nat
  BY <1>3 DEF n
<1>6. reads \in [1 .. n -> Call] /\ DOMAIN reads = 1 .. n
  BY <1>4, ReloadsMeant
<1>7. reads \in Seq(Call)
  BY <1>5, <1>6, SeqDef
<1>8. \A c \in Sent(reads) : c \in ReloadsAsked
  BY <1>4 DEF Sent
<1>9. \A c \in Sent(reads) : c.cmd # "start" /\ Meant(c, effects)
  BY <1>8, ReloadsMeant
<1>10. /\ calls' \in Seq(Call) /\ Sent(calls') = Sent(calls) \cup Sent(reads)
       /\ StartsOnce(calls')
  BY <1>2, <1>7, <1>9, ConcatSent, TypedNow
<1>11. watch' \in [root: Root \cup {None}, dirty: BOOLEAN] /\ watch'.root = watch.root
  BY <1>1, TypedNow
<1>12. Typed'
  BY <1>1, <1>10, <1>11, TypedNow DEF Typed
<1>13. Watched'
  BY <1>1, <1>10, <1>11, WatchStays
<1> QED  BY <1>1, <1>9, <1>10, <1>12, <1>13, EffectsStay

\* A listener is on, and the host is asked to watch for it.
LEMMA ListenAnsweredStep ==
    ASSUME IInv, NEW a \in asks, ListenAnswered(a)
    PROVE  IInv'
<1> DEFINE w == a.window
           k == a.effect
           e == effects[w][k]
           f == [e EXCEPT !.listens = TRUE, !.phase = "starting"]
           c == Command(w, "start", a.arg, "watch", None, k)
<1>1. /\ a.cmd = "listen" /\ asks' = asks \ {a}
      /\ effects' = [effects EXCEPT ![w][k].listens = TRUE, ![w][k].phase = "starting"]
      /\ calls' = Send(w, "start", a.arg, "watch", None, k)
      /\ UNCHANGED <<disk, granted, detected, watch, ui, owed, ops>>
  BY DEF ListenAnswered, grants
<1>2. /\ w \in Window /\ k \in DOMAIN effects[w] /\ a.arg \in Root /\ a.for = "watch"
      /\ e.phase = "listening" /\ e.root = a.arg /\ k \in Nat
  BY <1>1, TypedNow DEF IInv, Asked, Ask
<1>3. /\ effects \in [Window -> Seq(Effect)] /\ effects[w] \in Seq(Effect) /\ e \in Effect
  BY <1>2, TypedNow, EffectOf
<1>4. /\ f \in Effect /\ f.listens /\ f.phase = "starting" /\ f.root = a.arg
      /\ f.cancelled = e.cancelled
  <2> HIDE DEF e
  <2> QED  BY <1>2, <1>3 DEF Effect, e
<1>5. effects' = [effects EXCEPT ![w] = [effects[w] EXCEPT ![k] = f]]
  BY <1>1, <1>2, <1>3 DEF Effect
<1> HIDE DEF f
<1> DEFINE q == [effects[w] EXCEPT ![k] = f]
<1>6. /\ q \in Seq(Effect) /\ Len(q) = Len(effects[w]) /\ DOMAIN q = DOMAIN effects[w]
      /\ q[k] = f /\ \A j \in DOMAIN effects[w] : j # k => q[j] = effects[w][j]
  BY <1>2, <1>3, <1>4, ExceptSeq
<1> HIDE DEF q
<1>7. /\ effects' \in [Window -> Seq(Effect)] /\ effects'[w] = q
      /\ \A x \in Window : x # w => effects'[x] = effects[x]
  BY <1>2, <1>3, <1>5, <1>6 DEF q
<1>8. /\ \A x \in Window : Len(effects'[x]) = Len(effects[x])
                           /\ DOMAIN effects'[x] = DOMAIN effects[x]
      /\ \A x \in Window : \A j \in DOMAIN effects[x] :
            effects'[x][j] = IF x = w /\ j = k THEN f ELSE effects[x][j]
  BY <1>2, <1>6, <1>7
<1>9. c \in Call /\ c.cmd = "start" /\ c.window = w /\ c.effect = k /\ c.arg = a.arg
  BY <1>2 DEF Command, Call
<1>10. \A d \in Sent(calls) : d.cmd = "start" => d.window # w \/ d.effect # k
  BY <1>2 DEF IInv, Meant
<1>11. calls' = Append(calls, c)
  BY <1>1 DEF Send, Command
<1> HIDE DEF c
<1>12. /\ calls' \in Seq(Call) /\ Sent(calls') = Sent(calls) \cup {c} /\ StartsOnce(calls')
  BY <1>9, <1>10, <1>11, AppendSent, TypedNow
<1>13. Typed'
  BY <1>1, <1>7, <1>12, TypedNow DEF Typed
<1>14. \A d \in Sent(calls') : Meant(d, effects')
  <2>1. ASSUME NEW d \in Sent(calls) PROVE Meant(d, effects')
    <3>1. Meant(d, effects) /\ d.window \in Window
      BY <2>1, SentTyped DEF IInv
    <3>2. CASE d.cmd = "start"
      <4>1. d.window # w \/ d.effect # k
        BY <1>10, <3>2
      <4>2. effects'[d.window][d.effect] = effects[d.window][d.effect]
            /\ d.effect \in DOMAIN effects'[d.window]
        BY <1>8, <3>1, <3>2, <4>1 DEF Meant
      <4> QED  BY <3>1, <3>2, <4>2 DEF Meant
    <3>3. CASE d.cmd = "read" /\ d.for = "reload"
      <4>1. d.effect \in DOMAIN effects'[d.window]
            /\ effects'[d.window][d.effect].root = effects[d.window][d.effect].root
        BY <1>2, <1>4, <1>8, <3>1, <3>3 DEF Meant
      <4> QED  BY <3>1, <3>3, <4>1 DEF Meant
    <3> QED  BY <3>1, <3>2, <3>3 DEF Meant
  <2>2. Meant(c, effects')
    BY <1>2, <1>4, <1>8, <1>9 DEF Meant
  <2> QED  BY <1>12, <2>1, <2>2
<1>15. \A b \in asks' : Asked(b, effects')
  <2> SUFFICES ASSUME NEW b \in asks, b # a PROVE Asked(b, effects')
    BY <1>1
  <2>1. Asked(b, effects) /\ b \in Ask /\ a \in Ask
    BY TypedNow DEF IInv
  <2>2. CASE b.cmd = "fetch"
    BY <2>1, <2>2 DEF Asked
  <2>3. CASE b.cmd = "listen"
    <3>1. /\ b.effect \in DOMAIN effects[b.window] /\ b.for = "watch"
          /\ effects[b.window][b.effect].root = b.arg
      BY <2>1, <2>3 DEF Asked
    <3>2. b.window # w \/ b.effect # k
      <4> SUFFICES ASSUME b.window = w, b.effect = k PROVE FALSE
        OBVIOUS
      <4>1. b.arg = a.arg
        BY <1>2, <3>1
      <4>2. b.window = a.window /\ b.cmd = a.cmd /\ b.for = a.for /\ b.effect = a.effect
        BY <1>1, <1>2, <2>3, <3>1
      <4> QED  BY <2>1, <4>1, <4>2 DEF Ask
    <3>3. effects'[b.window][b.effect] = effects[b.window][b.effect]
          /\ b.effect \in DOMAIN effects'[b.window]
      BY <1>8, <2>1, <3>1, <3>2 DEF Ask
    <3> QED  BY <2>1, <2>3, <3>3 DEF Asked
  <2> QED  BY <2>1, <2>2, <2>3 DEF Ask
<1>16. \A x \in Window : effects'[x] # << >> => ui'[x].activeRoot # None
  <2>1. ASSUME NEW x \in Window, effects'[x] # << >> PROVE effects[x] # << >>
    <3>1. effects'[x] \in Seq(Effect) /\ Len(effects'[x]) = Len(effects[x])
      BY <1>7, <1>8
    <3> QED  BY <2>1, <3>1, EffectOf, EmptySeq
  <2> QED  BY <1>1, <2>1 DEF IInv
<1>17. \A x \in Window : \A j \in DOMAIN effects'[x] : InOrder(x, j, effects', Sent(calls'))
  <2> SUFFICES ASSUME NEW x \in Window, NEW j \in DOMAIN effects[x]
               PROVE  InOrder(x, j, effects', Sent(calls'))
    BY <1>8
  <2>1. InOrder(x, j, effects, Sent(calls))
    BY DEF IInv
  <2>2. CASE x = w /\ j = k
    <3>1. effects'[x][j] = f /\ Len(effects'[x]) = Len(effects[x])
      BY <1>8, <2>2
    <3>2. c \in Sent(calls')
      BY <1>12
    <3> QED  BY <1>4, <1>9, <2>1, <2>2, <3>1, <3>2 DEF InOrder
  <2>3. CASE ~(x = w /\ j = k)
    <3>1. effects'[x][j] = effects[x][j] /\ Len(effects'[x]) = Len(effects[x])
      BY <1>8, <2>3
    <3> QED  BY <1>12, <2>1, <3>1 DEF InOrder
  <2> QED  BY <2>2, <2>3
<1>18. Watched'
  <2> SUFFICES ASSUME watch.root # None, \A d \in Sent(calls) : d.cmd # "stop"
               PROVE  \E x \in Window : /\ effects'[x] # << >>
                                        /\ effects'[x][Len(effects'[x])].phase = "watching"
                                        /\ effects'[x][Len(effects'[x])].root = watch.root
    BY <1>1, <1>12 DEF Watched, Current
  <2>1. PICK x \in Window : /\ effects[x] # << >>
                            /\ effects[x][Len(effects[x])].phase = "watching"
                            /\ effects[x][Len(effects[x])].root = watch.root
    BY DEF IInv, Watched, Current
  <2>2. Len(effects[x]) \in DOMAIN effects[x] /\ Len(effects'[x]) = Len(effects[x])
    BY <1>8, <2>1, EffectOf
  <2>3. effects'[x][Len(effects'[x])] = effects[x][Len(effects[x])]
    BY <1>2, <1>8, <2>1, <2>2
  <2>4. effects'[x] # << >>
    BY <1>8, <2>2
  <2> QED  BY <2>1, <2>3, <2>4
<1> HIDE DEF w, k, e
<1> QED  BY <1>12, <1>13, <1>14, <1>15, <1>16, <1>17, <1>18 DEF IInv

\* start_watch: the effect watches, or ends what it started when it was torn down,
\* or has failed; the watch there was is replaced unless the start was refused.
LEMMA StartAnsweredStep ==
    ASSUME IInv, calls # << >>, StartAnswered
    PROVE  IInv'
<1> DEFINE c == Head(calls)
           w == c.window
           k == c.effect
           e == effects[w][k]
           d == Command(w, "stop", c.arg, "none", None, 0)
           failed == [e EXCEPT !.phase = "failed"]
           gone == [e EXCEPT !.listens = FALSE, !.phase = "disposed"]
           on == [e EXCEPT !.phase = "watching"]
<1>1. c.cmd = "start" /\ UNCHANGED <<disk, granted, detected, asks, ui, ops>>
  BY DEF StartAnswered, grants
<1>2. /\ c \in Call /\ c \in Sent(calls) /\ w \in Window /\ k \in DOMAIN effects[w]
      /\ c.arg \in Root /\ e.phase = "starting" /\ e.root = c.arg
      /\ Tail(calls) \in Seq(Call) /\ StartsOnce(Tail(calls))
      /\ Sent(calls) = Sent(Tail(calls)) \cup {c}
  BY <1>1, Answered DEF Meant
<1>3. \A b \in Sent(Tail(calls)) : b.cmd = "start" => b.window # w \/ b.effect # k
  BY <1>1, TailSent, TypedNow
<1>4. /\ effects \in [Window -> Seq(Effect)] /\ effects[w] \in Seq(Effect) /\ e \in Effect
      /\ (e.cancelled <=> k < Len(effects[w])) /\ e.listens
      /\ (~e.cancelled => k = Len(effects[w]))
  <2>1. e.listens /\ (e.cancelled <=> k < Len(effects[w]))
    BY <1>2 DEF IInv, InOrder
  <2>2. k \in 1 .. Len(effects[w]) /\ Len(effects[w]) \in Nat
    BY <1>2, EffectOf
  <2>3. k < Len(effects[w]) \/ k = Len(effects[w])
    BY ONLY <2>2
  <2> QED  BY <1>2, <2>1, <2>3, TypedNow, EffectOf
<1>5. PICK f \in {failed, gone, on} :
      /\ effects' = [effects EXCEPT ![w][k] = f]
      /\ \/ /\ f = failed /\ calls' = Tail(calls) /\ UNCHANGED <<watch, owed>>
         \/ /\ f = gone /\ e.cancelled /\ WatchBecomes(c.arg)
            /\ calls' = Continue(w, "stop", c.arg, "none", None)
         \/ /\ f = on /\ ~e.cancelled /\ WatchBecomes(c.arg) /\ calls' = Tail(calls)
  <2>1. CASE ~Authorized(c.arg)
    <3>1. /\ effects' = [effects EXCEPT ![w][k].phase = "failed"]
          /\ calls' = Tail(calls) /\ UNCHANGED <<watch, owed>>
      BY <2>1 DEF StartAnswered
    <3>2. [effects EXCEPT ![w][k].phase = "failed"] = [effects EXCEPT ![w][k] = failed]
      OBVIOUS
    <3> QED  BY <3>1, <3>2
  <2>2. CASE Authorized(c.arg)
    <3>1. /\ WatchBecomes(c.arg)
          /\ effects' = [effects EXCEPT ![w][k] = IF e.cancelled THEN gone ELSE on]
          /\ calls' = IF e.cancelled THEN Continue(w, "stop", c.arg, "none", None)
                      ELSE Tail(calls)
      BY <2>2 DEF StartAnswered
    <3> HIDE DEF gone, on, e
    <3>2. CASE e.cancelled
      BY <3>1, <3>2
    <3>3. CASE ~e.cancelled
      BY <3>1, <3>3
    <3> QED  BY <3>2, <3>3
  <2> QED  BY <2>1, <2>2
<1>6. /\ f \in Effect /\ f.root = c.arg /\ f.cancelled = e.cancelled /\ f.phase # "starting"
      /\ f.phase \in {"failed", "disposed", "watching"}
      /\ (f.phase = "watching" => f = on /\ ~e.cancelled /\ f.listens)
      /\ (f.phase = "disposed" => ~f.listens) /\ (f = on => f.phase = "watching")
  <2>1. e \in Effect /\ e.root = c.arg /\ e.listens
    BY <1>2, <1>4
  <2>2. f = on => ~e.cancelled
    <3>1. /\ failed.phase = "failed" /\ gone.phase = "disposed" /\ on.phase = "watching"
      BY <2>1 DEF Effect
    <3> HIDE DEF failed, gone, on
    <3> QED  BY <1>5, <3>1
  <2> HIDE DEF e
  <2> QED  BY <2>1, <2>2 DEF Effect
<1> HIDE DEF failed, gone, on
<1> DEFINE q == [effects[w] EXCEPT ![k] = f]
<1>7. /\ q \in Seq(Effect) /\ Len(q) = Len(effects[w]) /\ DOMAIN q = DOMAIN effects[w]
      /\ q[k] = f /\ \A j \in DOMAIN effects[w] : j # k => q[j] = effects[w][j]
  <2>1. effects[w] \in Seq(Effect) /\ k \in 1 .. Len(effects[w]) /\ f \in Effect
    BY <1>2, <1>4, <1>6
  <2>2. DOMAIN effects[w] = 1 .. Len(effects[w])
    BY ONLY <2>1, LenProperties
  <2>3. /\ q \in Seq(Effect) /\ Len(q) = Len(effects[w])
        /\ \A j \in 1 .. Len(effects[w]) : q[j] = IF j = k THEN f ELSE effects[w][j]
    BY ONLY <2>1, ExceptSeq
  <2>4. DOMAIN q = 1 .. Len(q)
    BY ONLY <2>3, LenProperties
  <2> QED  BY ONLY <2>1, <2>2, <2>3, <2>4
<1>8. effects' = [effects EXCEPT ![w] = q]
  BY <1>5
<1> HIDE DEF q
<1>9. /\ effects' \in [Window -> Seq(Effect)] /\ effects'[w] = q
      /\ \A x \in Window : x # w => effects'[x] = effects[x]
  BY <1>2, <1>4, <1>7, <1>8
<1>10. /\ \A x \in Window : Len(effects'[x]) = Len(effects[x])
                           /\ DOMAIN effects'[x] = DOMAIN effects[x]
       /\ \A x \in Window : \A j \in DOMAIN effects[x] :
            effects'[x][j] = IF x = w /\ j = k THEN f ELSE effects[x][j]
  BY <1>2, <1>7, <1>9
<1>11. /\ calls' \in Seq(Call) /\ StartsOnce(calls')
       /\ Sent(Tail(calls)) \subseteq Sent(calls')
       /\ Sent(calls') \subseteq Sent(Tail(calls)) \cup {d}
       /\ (e.cancelled /\ f = gone => d \in Sent(calls'))
  <2>1. CASE calls' = Tail(calls) /\ (f = failed \/ f = on)
    <3>1. failed # gone /\ on # gone
      <4>1. e \in Effect
        BY <1>4
      <4> HIDE DEF e
      <4> QED  BY <4>1 DEF failed, gone, on, Effect
    <3> QED  BY <1>2, <2>1, <3>1
  <2>2. CASE calls' = Continue(w, "stop", c.arg, "none", None)
    <3>1. c.arg \in Root \cup Folder /\ "none" \in Purpose /\ None \in Root \cup {None}
      BY <1>2 DEF Purpose
    <3>2. Typed /\ StartsOnce(calls) /\ w \in Window
      BY <1>2, TypedNow
    <3> DEFINE r == c.arg
               n == Continue(w, "stop", r, "none", None)
    <3> HIDE DEF c, w, r
    <3>3. /\ n \in Seq(Call) /\ StartsOnce(n)
          /\ Sent(n) = Sent(Tail(calls)) \cup {Command(w, "stop", r, "none", None, 0)}
      BY <3>1, <3>2, ContinueSent DEF r
    <3>4. calls' = n
      BY <2>2 DEF r
    <3> QED  BY <3>3, <3>4 DEF r
  <2> QED  BY <1>5, <2>1, <2>2
<1>12. d.cmd = "stop" /\ Meant(d, effects')
  BY <1>2 DEF Command, Meant
<1> HIDE DEF d
<1>13. /\ watch' \in [root: Root \cup {None}, dirty: BOOLEAN]
       /\ owed' \in [Window -> 0 .. MaxEdits]
       /\ \/ f = failed /\ watch'.root = watch.root
          \/ f = gone /\ e.cancelled
          \/ f = on /\ watch'.root = c.arg
  <2>1. CASE f = failed /\ UNCHANGED <<watch, owed>>
    BY <2>1, TypedNow
  <2>2. CASE WatchBecomes(c.arg) /\ (f = on \/ (f = gone /\ e.cancelled))
    <3>1. PICK late \in {FALSE, watch.dirty} : watch' = [root |-> c.arg, dirty |-> late]
      BY <2>2 DEF WatchBecomes
    <3>2. watch' \in [root: Root \cup {None}, dirty: BOOLEAN] /\ watch'.root = c.arg
      BY <1>2, <3>1, TypedNow
    <3>3. owed' \in [Window -> 0 .. MaxEdits]
      BY <2>2, Given DEF WatchBecomes
    <3> QED  BY <2>2, <3>2, <3>3
  <2> QED  BY <1>5, <2>1, <2>2
<1>14. Typed'
  BY <1>1, <1>9, <1>11, <1>13, TypedNow DEF Typed
<1>15. \A b \in Sent(calls') : Meant(b, effects')
  <2>1. ASSUME NEW b \in Sent(Tail(calls)) PROVE Meant(b, effects')
    <3>1. Meant(b, effects) /\ b.window \in Window
      BY <1>2, <2>1, SentTyped DEF IInv
    <3>2. CASE b.cmd = "start"
      <4>1. b.window # w \/ b.effect # k
        BY <1>3, <3>2
      <4>2. effects'[b.window][b.effect] = effects[b.window][b.effect]
            /\ b.effect \in DOMAIN effects'[b.window]
        BY <1>10, <3>1, <3>2, <4>1 DEF Meant
      <4> QED  BY <3>1, <3>2, <4>2 DEF Meant
    <3>3. CASE b.cmd = "read" /\ b.for = "reload"
      <4>1. b.effect \in DOMAIN effects'[b.window]
            /\ effects'[b.window][b.effect].root = effects[b.window][b.effect].root
        BY <1>2, <1>6, <1>10, <3>1, <3>3 DEF Meant
      <4> QED  BY <3>1, <3>3, <4>1 DEF Meant
    <3> QED  BY <3>1, <3>2, <3>3 DEF Meant
  <2> QED  BY <1>11, <1>12, <2>1
<1>16. \A b \in asks' : Asked(b, effects')
  <2> SUFFICES ASSUME NEW b \in asks PROVE Asked(b, effects')
    BY <1>1
  <2>1. Asked(b, effects) /\ b \in Ask
    BY TypedNow DEF IInv
  <2>2. CASE b.cmd = "fetch"
    BY <2>1, <2>2 DEF Asked
  <2>3. CASE b.cmd = "listen"
    <3>1. /\ b.effect \in DOMAIN effects[b.window]
          /\ effects[b.window][b.effect].phase = "listening"
      BY <2>1, <2>3 DEF Asked
    <3>2. b.window # w \/ b.effect # k
      BY <1>2, <3>1
    <3>3. effects'[b.window][b.effect] = effects[b.window][b.effect]
          /\ b.effect \in DOMAIN effects'[b.window]
      BY <1>10, <2>1, <3>1, <3>2 DEF Ask
    <3> QED  BY <2>1, <2>3, <3>3 DEF Asked
  <2> QED  BY <2>1, <2>2, <2>3 DEF Ask
<1>17. \A x \in Window : effects'[x] # << >> => ui'[x].activeRoot # None
  <2>1. ASSUME NEW x \in Window, effects'[x] # << >> PROVE effects[x] # << >>
    <3>1. effects'[x] \in Seq(Effect) /\ Len(effects'[x]) = Len(effects[x])
      BY <1>9, <1>10
    <3> QED  BY <2>1, <3>1, EffectOf, EmptySeq
  <2> QED  BY <1>1, <2>1 DEF IInv
<1>18. \A x \in Window : \A j \in DOMAIN effects'[x] : InOrder(x, j, effects', Sent(calls'))
  <2> SUFFICES ASSUME NEW x \in Window, NEW j \in DOMAIN effects[x]
               PROVE  InOrder(x, j, effects', Sent(calls'))
    BY <1>10
  <2>1. InOrder(x, j, effects, Sent(calls))
    BY DEF IInv
  <2>2. CASE x = w /\ j = k
    <3>1. effects'[x][j] = f /\ Len(effects'[x]) = Len(effects[x])
      BY <1>10, <2>2
    <3> QED  BY <1>4, <1>6, <2>2, <3>1 DEF InOrder
  <2>3. CASE ~(x = w /\ j = k)
    <3>1. effects'[x][j] = effects[x][j] /\ Len(effects'[x]) = Len(effects[x])
      BY <1>10, <2>3
    <3>2. \A b \in Sent(calls) : b.cmd = "start" /\ b.window = x /\ b.effect = j
                                    => b \in Sent(calls')
      BY <1>2, <1>11, <2>3
    <3> QED  BY <2>1, <3>1, <3>2 DEF InOrder
  <2> QED  BY <2>2, <2>3
<1>19. Watched'
  <2>1. CASE f = failed /\ watch'.root = watch.root
    <3> SUFFICES ASSUME watch.root # None, \A b \in Sent(calls) : b.cmd # "stop"
                 PROVE  \E x \in Window : /\ effects'[x] # << >>
                                          /\ effects'[x][Len(effects'[x])].phase = "watching"
                                          /\ effects'[x][Len(effects'[x])].root = watch.root
      BY <1>1, <1>2, <1>11, <2>1 DEF Watched, Current
    <3>1. PICK x \in Window : /\ effects[x] # << >>
                              /\ effects[x][Len(effects[x])].phase = "watching"
                              /\ effects[x][Len(effects[x])].root = watch.root
      BY DEF IInv, Watched, Current
    <3>2. Len(effects[x]) \in DOMAIN effects[x] /\ Len(effects'[x]) = Len(effects[x])
      BY <1>10, <3>1, EffectOf
    <3>3. effects'[x][Len(effects'[x])] = effects[x][Len(effects[x])]
      BY <1>2, <1>10, <3>1, <3>2
    <3>4. effects'[x] # << >>
      BY <1>10, <3>2
    <3> QED  BY <3>1, <3>3, <3>4
  <2>2. CASE f = gone /\ e.cancelled
    BY <1>11, <1>12, <2>2 DEF Watched
  <2>3. CASE f = on /\ watch'.root = c.arg
    <3>1. f.phase = "watching" /\ ~e.cancelled
      BY <1>6, <2>3
    <3>2. k = Len(effects'[w]) /\ effects'[w][k] = f /\ k \in DOMAIN effects'[w]
      BY <1>2, <1>4, <1>10, <3>1
    <3>3. effects'[w] # << >>
      BY <3>2
    <3> QED  BY <1>2, <1>6, <2>3, <3>1, <3>2, <3>3 DEF Watched, Current
  <2> QED  BY <1>13, <2>1, <2>2, <2>3
<1> HIDE DEF c, w, k, e
<1> QED  BY <1>11, <1>14, <1>15, <1>16, <1>17, <1>18, <1>19 DEF IInv

LEMMA TornDownIs ==
    ASSUME NEW e \in Effect
    PROVE  /\ TornDown(e) \in Effect /\ TornDown(e).root = e.root /\ TornDown(e).cancelled
           /\ TornDown(e).phase = (IF e.phase = "watching" THEN "disposed" ELSE e.phase)
           /\ TornDown(e).listens = (IF e.phase = "watching" THEN FALSE ELSE e.listens)
BY DEF TornDown, Effect

\* The effects of a commit: the one in place is torn down, and a new one begins.
LEMMA RunEffectsStep ==
    ASSUME IInv, NEW w \in Window, RunEffects(w)
    PROVE  IInv'
<1> DEFINE k == Len(effects[w])
           es == effects[w]
           old == [j \in DOMAIN es |-> IF j = k THEN TornDown(es[j]) ELSE es[j]]
           new == [root |-> ui[w].activeRoot, cancelled |-> FALSE, listens |-> FALSE,
                   phase |-> "listening"]
           q == Append(old, new)
           ends == k > 0 /\ es[k].phase = "watching"
           c == Command(w, "stop", es[k].root, "none", None, 0)
           a == [window |-> w, cmd |-> "listen", arg |-> ui[w].activeRoot,
                 for |-> "watch", effect |-> k + 1]
<1>1. /\ ui[w].activeRoot # EffectRoot(w)
      /\ effects' = [effects EXCEPT ![w] = q]
      /\ calls' = (IF ends THEN Send(w, "stop", es[k].root, "none", None, 0) ELSE calls)
      /\ asks' = asks \cup {a}
      /\ UNCHANGED <<disk, granted, detected, watch, ui, owed, ops>>
  BY DEF RunEffects, Current, grants
<1>2. /\ es \in Seq(Effect) /\ DOMAIN es = 1 .. k /\ k \in Nat
      /\ (\A j \in DOMAIN es : es[j] \in Effect /\ j \in Nat)
      /\ (es # << >> <=> k > 0) /\ (es # << >> => k \in DOMAIN es)
      /\ effects \in [Window -> Seq(Effect)]
  BY EffectOf, TypedNow
<1>3. ui[w].activeRoot \in Root
  <2>1. ui[w].activeRoot \in Root \cup {None}
    BY TypedNow DEF Store
  <2>2. es = << >> => EffectRoot(w) = None
    BY DEF EffectRoot
  <2>3. es # << >> => ui[w].activeRoot # None
    BY DEF IInv
  <2> QED  BY <1>1, <2>1, <2>2, <2>3
<1>4. new \in Effect /\ new.root = ui[w].activeRoot /\ ~new.cancelled /\ ~new.listens
      /\ new.phase = "listening"
  BY <1>3 DEF Effect
<1> HIDE DEF new
<1>5. /\ old \in Seq(Effect) /\ Len(old) = k
      /\ \A j \in DOMAIN es : old[j] = IF j = k THEN TornDown(es[j]) ELSE es[j]
  <2>1. \A j \in DOMAIN es : (IF j = k THEN TornDown(es[j]) ELSE es[j]) \in Effect
    BY <1>2, TornDownIs
  <2>2. old \in [1 .. k -> Effect]
    BY <1>2, <2>1
  <2>3. old \in Seq(Effect)
    BY <1>2, <2>2, SeqDef
  <2> HIDE DEF k
  <2>4. DOMAIN old = 1 .. k /\ DOMAIN old = 1 .. Len(old) /\ Len(old) \in Nat
    BY <2>2, <2>3, LenProperties
  <2>5. Len(old) = k
    BY ONLY <2>4, <1>2
  <2> QED  BY <2>3, <2>5
<1> HIDE DEF old
<1>6. /\ q \in Seq(Effect) /\ Len(q) = k + 1 /\ DOMAIN q = 1 .. (k + 1)
      /\ (\A j \in DOMAIN es : q[j] = IF j = k THEN TornDown(es[j]) ELSE es[j])
      /\ q[k + 1] = new
  <2>1. /\ q \in Seq(Effect) /\ Len(q) = Len(old) + 1
        /\ \A j \in 1 .. Len(old) : q[j] = old[j]
        /\ q[Len(old) + 1] = new
    BY <1>4, <1>5, AppendProperties
  <2>2. DOMAIN q = 1 .. Len(q)
    BY <2>1, LenProperties
  <2> HIDE DEF q
  <2> QED  BY <1>2, <1>5, <2>1, <2>2
<1> HIDE DEF q
<1>7. /\ effects' \in [Window -> Seq(Effect)] /\ effects'[w] = q
      /\ \A x \in Window : x # w => effects'[x] = effects[x]
  BY <1>1, <1>2, <1>6
<1> DEFINE n == k + 1
<1>8. /\ n \in Nat /\ n \notin DOMAIN es /\ DOMAIN effects'[w] = DOMAIN es \cup {n}
      /\ Len(effects'[w]) = n /\ effects'[w][n] = new
      /\ \A j \in DOMAIN es : /\ j < n
                              /\ effects'[w][j] = IF j = k THEN TornDown(es[j]) ELSE es[j]
                              /\ (j < k <=> j # k)
  <2> HIDE DEF k, es
  <2>1. DOMAIN q = DOMAIN es \cup {n} /\ n \notin DOMAIN es /\ n \in Nat
        /\ \A j \in DOMAIN es : j < n /\ (j < k <=> j # k)
    BY <1>2, <1>6
  <2> QED  BY <1>6, <1>7, <2>1
<1>9. /\ Meant(c, effects') \/ ~ends
      /\ c.cmd = "stop"
      /\ calls' \in Seq(Call) /\ StartsOnce(calls')
      /\ Sent(calls') = Sent(calls) \cup (IF ends THEN {c} ELSE {})
  <2>1. CASE ends
    <3>1. es[k].root \in Root
      BY <1>2, <2>1 DEF Effect
    <3>2. calls' = Send(w, "stop", es[k].root, "none", None, 0)
      BY <1>1, <2>1
    <3> DEFINE r == es[k].root
    <3>3. Meant(c, effects') /\ c.cmd = "stop"
      BY <3>1 DEF Command, Meant
    <3> HIDE DEF r, ends
    <3>4. r \in Root \cup Folder /\ "none" \in Purpose /\ None \in Root \cup {None}
      BY <3>1 DEF Purpose, r
    <3>5. /\ calls' \in Seq(Call) /\ StartsOnce(calls')
          /\ Sent(calls') = Sent(calls) \cup {Command(w, "stop", r, "none", None, 0)}
      BY <3>2, <3>4, Sends DEF r
    <3> QED  BY <2>1, <3>3, <3>5 DEF r
  <2>2. CASE ~ends
    <3>1. c.cmd = "stop" /\ calls' = calls
      BY <1>1, <2>2 DEF Command
    <3> QED  BY <2>2, <3>1, TypedNow
  <2> QED  BY <2>1, <2>2
<1>10. a \in Ask /\ a.cmd = "listen" /\ Asked(a, effects')
  BY <1>3, <1>4, <1>8 DEF Ask, Asked
<1> HIDE DEF a
<1>11. Typed'
  BY <1>1, <1>7, <1>9, <1>10, TypedNow DEF Typed
<1> HIDE DEF ends, c
\* What an effect was about, it is still about.
<1>12. \A x \in Window : \A j \in DOMAIN effects[x] :
          /\ j \in DOMAIN effects'[x]
          /\ effects'[x][j].root = effects[x][j].root
          /\ effects[x][j].phase # "watching" => effects'[x][j].phase = effects[x][j].phase
  <2>1. \A j \in DOMAIN es :
          /\ j \in DOMAIN effects'[w]
          /\ effects'[w][j].root = es[j].root
          /\ es[j].phase # "watching" => effects'[w][j].phase = es[j].phase
    BY <1>2, <1>8, TornDownIs
  <2> QED  BY <1>7, <2>1
<1>13. \A d \in Sent(calls') : Meant(d, effects')
  <2>1. ASSUME NEW d \in Sent(calls) PROVE Meant(d, effects')
    <3>1. Meant(d, effects) /\ d.window \in Window
      BY <2>1, SentTyped DEF IInv
    <3> QED  BY <1>12, <3>1 DEF Meant
  <2> QED  BY <1>9, <2>1
<1>14. \A b \in asks' : Asked(b, effects')
  <2>1. ASSUME NEW b \in asks PROVE Asked(b, effects')
    <3>1. Asked(b, effects) /\ b.window \in Window
      BY TypedNow DEF IInv, Ask
    <3> QED  BY <1>12, <3>1 DEF Asked
  <2> QED  BY <1>1, <1>10, <2>1
<1>15. \A x \in Window : effects'[x] # << >> => ui'[x].activeRoot # None
  BY <1>1, <1>3, <1>7, Given DEF IInv
<1>16. \A x \in Window : \A j \in DOMAIN effects'[x] : InOrder(x, j, effects', Sent(calls'))
  <2> SUFFICES ASSUME NEW x \in Window, NEW j \in DOMAIN effects'[x]
               PROVE  InOrder(x, j, effects', Sent(calls'))
    OBVIOUS
  <2>1. CASE x # w
    <3>1. effects'[x] = effects[x] /\ j \in DOMAIN effects[x]
      BY <1>7, <2>1
    <3>2. InOrder(x, j, effects, Sent(calls))
      BY <3>1 DEF IInv
    <3> QED  BY <1>9, <3>1, <3>2 DEF InOrder
  <2>2. CASE x = w /\ j = n
    BY <1>2, <1>4, <1>8, <2>2 DEF InOrder
  <2>3. CASE x = w /\ j # n
    <3>1. j \in DOMAIN es
      BY <1>8, <2>3
    <3>2. InOrder(w, j, effects, Sent(calls)) /\ es[j] \in Effect
      BY <1>2, <3>1 DEF IInv
    <3> DEFINE e == es[j]
               g == effects'[w][j]
    <3>3. /\ j < n /\ g.cancelled
          /\ g.phase # "watching"
          /\ (g.phase \in {"starting"} => g.listens)
          /\ (g.phase \in {"listening", "disposed"} => ~g.listens)
          /\ (g.phase = "starting" => e.phase = "starting")
      <4>1. CASE j = k
        <5>1. /\ e.phase = "starting" => e.listens
              /\ e.phase \in {"listening", "disposed"} => ~e.listens
          BY <3>2 DEF InOrder
        <5>2. j < n /\ g = TornDown(e)
          BY <1>8, <3>1, <4>1
        <5>3. e \in Effect
          BY <3>2
        <5> HIDE DEF e, g
        <5>4. /\ g.cancelled
              /\ g.phase = (IF e.phase = "watching" THEN "disposed" ELSE e.phase)
              /\ g.listens = (IF e.phase = "watching" THEN FALSE ELSE e.listens)
          BY <5>2, <5>3, TornDownIs
        <5> QED  BY <5>1, <5>2, <5>4
      <4>2. CASE j # k
        <5>1. j < k /\ g = e
          BY <1>8, <3>1, <4>2
        <5>2. e.cancelled /\ e.phase # "watching"
          BY <3>2, <5>1 DEF InOrder
        <5> QED  BY <1>8, <3>1, <3>2, <5>1, <5>2 DEF InOrder
      <4> QED  BY <4>1, <4>2
    <3>4. g.phase = "starting" =>
             \E b \in Sent(calls) : b.cmd = "start" /\ b.window = w /\ b.effect = j
      BY <3>2, <3>3 DEF InOrder
    <3> HIDE DEF e
    <3> QED  BY <1>8, <1>9, <2>3, <3>3, <3>4 DEF InOrder
  <2> QED  BY <2>1, <2>2, <2>3
<1>17. Watched'
  <2> SUFFICES ASSUME watch.root # None, \A d \in Sent(calls') : d.cmd # "stop"
               PROVE  \E x \in Window : /\ effects'[x] # << >>
                                        /\ effects'[x][Len(effects'[x])].phase = "watching"
                                        /\ effects'[x][Len(effects'[x])].root = watch.root
    BY <1>1 DEF Watched, Current
  <2>1. PICK x \in Window : /\ effects[x] # << >>
                            /\ effects[x][Len(effects[x])].phase = "watching"
                            /\ effects[x][Len(effects[x])].root = watch.root
    BY <1>9 DEF IInv, Watched, Current
  <2>2. x # w
    <3> SUFFICES ASSUME x = w PROVE FALSE
      OBVIOUS
    <3>1. ends
      BY <1>2, <2>1 DEF ends
    <3> QED  BY <1>9, <3>1
  <2> QED  BY <1>7, <2>1, <2>2
<1> HIDE DEF k, es
<1> QED  BY <1>9, <1>11, <1>13, <1>14, <1>15, <1>16, <1>17 DEF IInv

-----------------------------------------------------------------------------
LEMMA IInvInit == Init => IInv
<1> SUFFICES ASSUME Init PROVE IInv
  OBVIOUS
<1>1. calls = << >> /\ asks = {} /\ effects = [w \in Window |-> << >>] /\ watch.root = None
  BY DEF Init
<1>2. Sent(calls) = {} /\ StartsOnce(calls) /\ \A w \in Window : DOMAIN effects[w] = {}
  BY <1>1 DEF Sent, StartsOnce
<1>3. Typed
  <2>1. << >> \in Seq(Effect) /\ << >> \in Seq(Call)
    BY EmptySeq
  <2>2. /\ disk \in [Root -> 0 .. MaxEdits] /\ owed \in [Window -> 0 .. MaxEdits]
        /\ ops \in 0 .. MaxOps
    BY Given DEF Init
  <2>3. ui \in [Window -> Store]
    BY Given DEF Init, Store
  <2>4. granted \subseteq Folder /\ detected \subseteq granted
        /\ watch \in [root: Root \cup {None}, dirty: BOOLEAN]
    BY DEF Init
  <2> QED  BY <1>1, <2>1, <2>2, <2>3, <2>4 DEF Typed
<1>4. Watched
  BY <1>1 DEF Watched
<1> QED  BY <1>1, <1>2, <1>3, <1>4 DEF IInv

LEMMA IInvStep == IInv /\ [Next]_vars => IInv'
<1> SUFFICES ASSUME IInv, [Next]_vars PROVE IInv'
  OBVIOUS
<1>1. CASE HostAnswers
  BY <1>1, ScanAnsweredStep, SelectAnsweredStep, StartAnsweredStep, StopAnsweredStep,
     RevokeAnsweredStep, ReloadAnsweredStep DEF HostAnswers
<1>2. CASE \/ \E w \in Window, f \in Folder : OpenFolder(w, f) \/ ForgetBundle(w, f)
           \/ \E w \in Window, r \in Root : OpenRecent(w, r) \/ SelectBundle(w, r)
           \/ \E w \in Window : Rescan(w)
           \/ \E w \in Window, f \in Folder, refresh \in BOOLEAN : FetchRemote(w, f, refresh)
           \/ \E w, opener \in Window : PopOut(w, opener)
  BY <1>2, OpenFolderStep, ForgetBundleStep, OpenRecentStep, SelectBundleStep, RescanStep,
     FetchRemoteStep, PopOutStep
<1>3. CASE \E a \in asks, ok \in BOOLEAN : FetchAnswered(a, ok)
  BY <1>3, FetchAnsweredStep
<1>4. CASE \E w \in Window : RunEffects(w)
  BY <1>4, RunEffectsStep
<1>5. CASE \E a \in asks : ListenAnswered(a)
  BY <1>5, ListenAnsweredStep
<1>6. CASE EmitChanged \/ \E r \in Root : Edit(r)
  BY <1>6, EmitChangedStep, EditStep
<1>7. CASE UNCHANGED vars
  <2>1. /\ UNCHANGED <<disk, granted, detected, watch, calls, asks, ui, effects, owed, ops>>
    BY <1>7 DEF vars, grants
  <2>2. Typed' /\ StartsOnce(calls') /\ Watched'
    BY <2>1, TypedNow, WatchStays DEF Typed
  <2> QED  BY <2>1, <2>2, EffectsStay
<1> QED  BY <1>1, <1>2, <1>3, <1>4, <1>5, <1>6, <1>7 DEF Next

LEMMA Invariant == Spec => []IInv
BY IInvInit, IInvStep, PTL DEF Spec

\* Every window, the host and what is in flight between them keep their types.
THEOREM TypeCorrect == Spec => []TypeOK
<1>1. ASSUME IInv PROVE TypeOK
  <2>1. \A k \in DOMAIN calls : calls[k] \in Call
    <3>1. calls \in Seq(Call) /\ DOMAIN calls = 1 .. Len(calls)
      BY <1>1, TypedNow, LenProperties
    <3> QED  BY <3>1, ElementOfSeq
  <2>2. \A k \in DOMAIN calls :
           calls[k].cmd \in {"read", "start", "stop"} => calls[k].arg \in Root
    BY <1>1 DEF IInv, Meant, Sent
  <2>3. \A w \in Window : \A k \in DOMAIN effects[w] : effects[w][k] \in Effect
    BY <1>1, EffectOf
  <2> QED  BY <1>1, <2>1, <2>2, <2>3, TypedNow DEF TypeOK, Ask, Store
<1> QED  BY <1>1, Invariant, PTL

\* Once nothing is under way, no effect that was torn down listens, unless its
\* start was refused, and the host watches for an effect in place or not at all.
THEOREM WatchesSettled == Spec => []WatchesSettle
<1>1. ASSUME IInv PROVE WatchesSettle
  <2> SUFFICES ASSUME calls = << >> PROVE WatchesSettle
    BY DEF WatchesSettle, Settled
  <2>1. Sent(calls) = {}
    BY DEF Sent
  <2>2. ASSUME NEW w \in Window, NEW k \in DOMAIN effects[w], effects[w][k].cancelled
        PROVE  ~effects[w][k].listens \/ effects[w][k].phase = "failed"
    <3>1. InOrder(w, k, effects, {})
      BY <1>1, <2>1 DEF IInv
    <3>2. effects[w][k].phase \in {"listening", "starting", "watching", "disposed", "failed"}
      BY <1>1, EffectOf DEF Effect
    <3> QED  BY <2>2, <3>1, <3>2 DEF InOrder
  <2>3. ASSUME watch.root # None
        PROVE  \E w \in Window : /\ Current(w) > 0
                                 /\ ~effects[w][Current(w)].cancelled
                                 /\ effects[w][Current(w)].root = watch.root
                                 /\ effects[w][Current(w)].phase = "watching"
    <3>1. PICK w \in Window : /\ effects[w] # << >>
                              /\ effects[w][Current(w)].phase = "watching"
                              /\ effects[w][Current(w)].root = watch.root
      BY <1>1, <2>1, <2>3 DEF IInv, Watched
    <3>2. Current(w) \in DOMAIN effects[w] /\ Current(w) > 0
      BY <1>1, <3>1, EffectOf DEF Current
    <3>3. InOrder(w, Current(w), effects, Sent(calls))
      BY <1>1, <3>2 DEF IInv
    <3> QED  BY <3>1, <3>2, <3>3 DEF InOrder
  <2> QED  BY <2>2, <2>3 DEF WatchesSettle
<1> QED  BY <1>1, Invariant, PTL

\* A window changes its bundle for the read of a bundle it asked for; a reload of
\* the bundle it left is dropped, once the effects of the switch have run.
THEOREM ReloadsKept == Spec => ReloadsKeepTheRoot
<1> DEFINE Step == \A w \in Window :
              ui'[w].activeRoot # ui[w].activeRoot =>
                \/ Head(calls).window = w /\ Head(calls).for = "select"
                \/ EffectRoot(w) # ui[w].activeRoot
<1>1. ASSUME IInv, Next, NEW w \in Window, ui'[w].activeRoot # ui[w].activeRoot
      PROVE  \/ Head(calls).window = w /\ Head(calls).for = "select"
             \/ EffectRoot(w) # ui[w].activeRoot
  <2>0. ui \in [Window -> Store]
    BY <1>1, TypedNow
  <2>1. \A x \in Window, v \in BOOLEAN : Loading(x, v)[w].activeRoot = ui[w].activeRoot
    BY <1>1, <2>0, LoadingStep
  <2>2. CASE calls # << >> /\ ReloadAnswered
    <3> DEFINE c == Head(calls)
    <3>1. /\ c.cmd = "read" /\ c.for = "reload" /\ ~effects[c.window][c.effect].cancelled
          /\ ui' = [ui EXCEPT ![c.window].activeRoot = c.arg,
                              ![c.window].shown = disk[c.arg], ![c.window].loading = FALSE]
      BY <1>1, <2>2 DEF ReloadAnswered, Wanted
    <3>2. c.window \in Window /\ Meant(c, effects)
      BY <1>1, <2>2, Answered
    <3>3. c.arg \in Root /\ c.effect \in DOMAIN effects[c.window]
          /\ effects[c.window][c.effect].root = c.arg
      BY <3>1, <3>2 DEF Meant
    <3> HIDE DEF c
    <3> DEFINE x == c.window
               r == c.arg
               u == [ui EXCEPT ![x].activeRoot = r, ![x].shown = disk[r], ![x].loading = FALSE]
    <3>4. c.window = w /\ ui'[w].activeRoot = c.arg
      <4>1. \A y \in Window : u[y].activeRoot = IF y = x THEN r ELSE ui[y].activeRoot
        <5>1. IInv /\ x \in Window /\ r \in Root
          BY <1>1, <3>2, <3>3
        <5> HIDE DEF x, r
        <5> QED  BY ONLY <5>1, ShowStep
      <4>2. ui' = u
        BY <3>1
      <4> HIDE DEF u
      <4> QED  BY <1>1, <3>2, <4>1, <4>2
    <3>5. c.effect = Len(effects[w])
      <4>1. ~(c.effect < Len(effects[w]))
        BY <1>1, <3>1, <3>3, <3>4 DEF IInv, InOrder
      <4>2. c.effect \in 1 .. Len(effects[w]) /\ Len(effects[w]) \in Nat
        BY <1>1, <3>3, <3>4, EffectOf
      <4> QED  BY ONLY <4>1, <4>2
    <3>6. EffectRoot(w) = c.arg
      BY <3>3, <3>4, <3>5 DEF EffectRoot, Current
    <3> QED  BY <1>1, <3>4, <3>6
  <2>3. CASE calls # << >> /\ SelectAnswered
    <3> DEFINE x == Head(calls).window
               r == Head(calls).arg
               u == [ui EXCEPT ![x].activeRoot = r, ![x].shown = disk[r], ![x].loading = FALSE]
    <3>1. /\ Head(calls).for = "select" /\ x \in Window /\ r \in Root
          /\ (ui' = u \/ ui' = Loading(x, FALSE))
      BY <1>1, <2>3, Answered DEF SelectAnswered, Meant
    <3>2. \A y \in Window : u[y].activeRoot = IF y = x THEN r ELSE ui[y].activeRoot
      <4>1. IInv /\ x \in Window /\ r \in Root
        BY <1>1, <3>1
      <4> HIDE DEF x, r
      <4> QED  BY ONLY <4>1, ShowStep
    <3> HIDE DEF u, x, r
    <3>3. x = w
      BY <1>1, <2>1, <3>1, <3>2
    <3> QED  BY <3>1, <3>3 DEF x
  <2>4. CASE calls # << >> /\ ScanAnswered
    BY <1>1, <2>4, ScanKeepsTheBundles
  <2>5. CASE calls # << >> /\ (StartAnswered \/ StopAnswered \/ RevokeAnswered)
    BY <1>1, <2>5 DEF StartAnswered, StopAnswered, RevokeAnswered
  <2>6. CASE \/ \E x \in Window, f \in Folder : OpenFolder(x, f) \/ ForgetBundle(x, f)
             \/ \E x \in Window, r \in Root : OpenRecent(x, r) \/ SelectBundle(x, r)
             \/ \E x \in Window : Rescan(x)
             \/ \E x \in Window, f \in Folder, refresh \in BOOLEAN : FetchRemote(x, f, refresh)
    BY <1>1, <2>1, <2>6 DEF OpenFolder, ForgetBundle, OpenRecent, SelectBundle, Rescan, FetchRemote
  <2>7. CASE \E x, opener \in Window : PopOut(x, opener)
    BY <1>1, <2>0, <2>7 DEF PopOut, Store
  <2>8. CASE \E a \in asks, ok \in BOOLEAN : FetchAnswered(a, ok)
    <3>1. \A a \in asks : a.window \in Window
      BY <1>1, TypedNow DEF Ask
    <3> QED  BY <1>1, <2>1, <2>8, <3>1 DEF FetchAnswered
  <2>9. CASE \/ \E x \in Window : RunEffects(x)
             \/ \E a \in asks : ListenAnswered(a)
             \/ EmitChanged \/ \E r \in Root : Edit(r)
    BY <1>1, <2>9 DEF RunEffects, ListenAnswered, EmitChanged, Edit
  <2> QED  BY <1>1, <2>2, <2>3, <2>4, <2>5, <2>6, <2>7, <2>8, <2>9 DEF Next, HostAnswers
<1>2. IInv /\ [Next]_vars => [Step]_vars
  BY <1>1
<1> QED  BY <1>2, Invariant, PTL DEF Spec, ReloadsKeepTheRoot

=============================================================================
