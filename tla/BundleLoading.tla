---------------------------- MODULE BundleLoading ----------------------------
(***************************************************************************)
(* Opening bundles and keeping them current (src/src/shared/store.tsx): the *)
(* asynchronous actions that scan, read and switch, and the live-reload     *)
(* effect, in every window of the application, against the host they share. *)
(* The host answers its commands one after another (synchronous Tauri        *)
(* commands), runs fetches and event subscriptions beside them, and keeps    *)
(* ONE file watch for all windows (src/src-tauri/src/watch.rs).             *)
(***************************************************************************)
EXTENDS Integers, FiniteSets, Sequences, SequencesExt

CONSTANTS
    Window, Main,   \* the windows; all but Main are pop-outs
    Root, Folder,   \* bundle roots, and the folders that hold them
    BundlesIn,      \* the roots a scan of a folder finds, in order
    None,
    MaxOps,         \* bound: actions of the user
    MaxEdits        \* bound: changes of files on disk

ASSUME LoadingConstants ==
    /\ Main \in Window /\ IsFiniteSet(Window) /\ None \notin Root \cup Folder
    /\ BundlesIn \in [Folder -> Seq(Root)]
    /\ MaxOps \in Nat /\ MaxEdits \in Nat

VARIABLES
    disk,       \* what is on disk, as a version per root
    granted,    \* folders the host may scan
    detected,   \* those whose bundles a scan has registered: they may be read
    watch,      \* the host's watch: [root, dirty], root None when there is none
    calls,      \* commands sent to the host, in order
    asks,       \* fetches and subscriptions in flight, in no order
    ui,         \* per window the store: [open, folder, activeRoot, shown, loading]
    effects,    \* per window the live-reload effects run so far
    owed,       \* per window the latest version its watch has seen change
    ops         \* actions taken (bounded)

grants == <<granted, detected>>
vars == <<disk, grants, watch, calls, asks, ui, effects, owed, ops>>

Call == [window: Window, cmd: {"scan", "read", "start", "stop", "revoke"}, arg: Root \cup Folder,
         for: {"folder", "recent", "rescan", "boot", "remote", "select", "reload", "watch", "none"},
         root: Root \cup {None}, effect: Nat]

\* A live-reload effect: its root, whether it was torn down, whether its event
\* listener is on, and how far it is (startWatch awaits twice).
Effect == [root: Root, cancelled: BOOLEAN, listens: BOOLEAN,
           phase: {"listening", "starting", "watching", "disposed", "failed"}]

TypeOK ==
    /\ disk \in [Root -> 0 .. MaxEdits] /\ granted \subseteq Folder
    /\ detected \subseteq granted
    /\ watch \in [root: Root \cup {None}, dirty: BOOLEAN]
    /\ \A k \in DOMAIN calls : calls[k] \in Call
    /\ \A k \in DOMAIN calls : calls[k].cmd \in {"read", "start", "stop"} => calls[k].arg \in Root
    /\ asks \subseteq [window: Window, cmd: {"fetch", "listen"}, arg: Root \cup Folder,
                       for: {"remote", "folder", "watch"}, effect: Nat]
    /\ ui \in [Window -> [open: BOOLEAN, folder: Folder \cup {None},
                          activeRoot: Root \cup {None}, shown: 0 .. MaxEdits, loading: BOOLEAN]]
    /\ \A w \in Window : \A k \in DOMAIN effects[w] : effects[w][k] \in Effect
    /\ owed \in [Window -> 0 .. MaxEdits] /\ ops \in 0 .. MaxOps

FolderOf(r) == CHOOSE f \in Folder : Contains(BundlesIn[f], r)
Authorized(r) == FolderOf(r) \in detected

Send(w, cmd, arg, for, root, e) ==
    Append(calls, [window |-> w, cmd |-> cmd, arg |-> arg, for |-> for,
                   root |-> root, effect |-> e])

Init ==
    /\ disk = [r \in Root |-> 0] /\ granted = {} /\ detected = {}
    /\ watch = [root |-> None, dirty |-> FALSE]
    /\ calls = << >> /\ asks = {}
    /\ ui = [w \in Window |-> [open |-> w = Main, folder |-> None, activeRoot |-> None,
                               shown |-> 0, loading |-> FALSE]]
    /\ effects = [w \in Window |-> << >>]
    /\ owed = [w \in Window |-> 0] /\ ops = 0

UserActs(w) == ui[w].open /\ ops < MaxOps /\ ops' = ops + 1
Loading(w, v) == [ui EXCEPT ![w].loading = v]

-----------------------------------------------------------------------------
\* openFolder: the picker grants the folder, openFolderPath scans it.
OpenFolder(w, f) ==
    /\ UserActs(w)
    /\ granted' = granted \cup {f}
    /\ ui' = Loading(w, TRUE)
    /\ calls' = Send(w, "scan", f, "folder", None, 0)
    /\ UNCHANGED <<disk, detected, watch, asks, effects, owed>>

\* openRecentBundle: scan the entry's folder again, then open that very bundle.
OpenRecent(w, r) ==
    /\ UserActs(w)
    /\ FolderOf(r) \in granted
    /\ ui' = Loading(w, TRUE)
    /\ calls' = Send(w, "scan", FolderOf(r), "recent", r, 0)
    /\ UNCHANGED <<disk, grants, watch, asks, effects, owed>>

\* selectBundle from the switcher, among the bundles of the open folder.
SelectBundle(w, r) ==
    /\ UserActs(w)
    /\ ui[w].folder # None /\ Contains(BundlesIn[ui[w].folder], r)
    /\ ui' = Loading(w, TRUE)
    /\ calls' = Send(w, "read", r, "select", None, 0)
    /\ UNCHANGED <<disk, grants, watch, asks, effects, owed>>

\* rescan keeps the root that was active when it was asked for.
Rescan(w) ==
    /\ UserActs(w)
    /\ ui[w].folder # None
    /\ calls' = Send(w, "scan", ui[w].folder, "rescan", ui[w].activeRoot, 0)
    /\ UNCHANGED <<disk, grants, watch, asks, ui, effects, owed>>

\* openRemote and refreshRemote fetch first; only the latter shows it is loading.
FetchRemote(w, f, refresh) ==
    /\ UserActs(w)
    /\ ui' = IF refresh THEN Loading(w, TRUE) ELSE ui
    /\ asks' = asks \cup {[window |-> w, cmd |-> "fetch", arg |-> f,
                           for |-> IF refresh THEN "folder" ELSE "remote", effect |-> ops']}
    /\ UNCHANGED <<disk, grants, watch, calls, effects, owed>>

\* forgetBundle, when no other recent of the window holds the folder: the host
\* revokes its grant, unless the folder is the one open in this window.
ForgetBundle(w, f) ==
    /\ UserActs(w)
    /\ f # ui[w].folder /\ f \in granted
    /\ calls' = Send(w, "revoke", f, "none", None, 0)
    /\ UNCHANGED <<disk, grants, watch, asks, ui, effects, owed>>

\* A pop-out boots on the folder and root it was opened for.
PopOut(w, opener) ==
    /\ UserActs(opener)
    /\ w # Main /\ ~ui[w].open
    /\ ui[opener].folder # None /\ ui[opener].activeRoot # None
    /\ ui' = [ui EXCEPT ![w].open = TRUE]
    /\ calls' = Send(w, "scan", ui[opener].folder, "boot", ui[opener].activeRoot, 0)
    /\ UNCHANGED <<disk, grants, watch, asks, effects, owed>>

-----------------------------------------------------------------------------
Continue(w, cmd, arg, for, root) ==
    Append(Tail(calls), [window |-> w, cmd |-> cmd, arg |-> arg, for |-> for,
                         root |-> root, effect |-> 0])

\* Mutant: a refresh that fails goes on loading.
FetchAnsweredOnly(a, ok) ==
    /\ a \in asks /\ a.cmd = "fetch"
    /\ asks' = asks \ {a}
    /\ granted' = IF ok THEN granted \cup {a.arg} ELSE granted
    /\ calls' = IF ok THEN Send(a.window, "scan", a.arg, a.for, None, 0) ELSE calls
    /\ UNCHANGED <<disk, detected, watch, ui, effects, owed, ops>>

FetchAnswered(a, ok) ==
    /\ a \in asks /\ a.cmd = "fetch"
    /\ asks' = asks \ {a}
    /\ granted' = IF ok THEN granted \cup {a.arg} ELSE granted
    /\ calls' = IF ok THEN Send(a.window, "scan", a.arg, a.for, None, 0) ELSE calls
    /\ ui' = IF ~ok /\ a.for = "folder" THEN Loading(a.window, FALSE) ELSE ui
    /\ UNCHANGED <<disk, detected, watch, effects, owed, ops>>

\* Mutant: a folder whose bundle is gone is opened as a bundle.
OpensFolder(c, found) ==
    IF c.root # None /\ (c.for = "rescan" \/ Contains(found, c.root)) THEN c.root ELSE c.arg

\* The bundle a scan goes on to open: rescan keeps the root that was active,
\* the others fall back to the first found when theirs is gone.
Opens(c, found) ==
    IF c.root # None /\ (c.for = "rescan" \/ Contains(found, c.root)) THEN c.root
    ELSE IF found = << >> THEN None ELSE found[1]

\* The scan is back, the bundles it found may be read from now on: openFolder,
\* then selectBundle. A remote folder that holds
\* no bundle, or several, changes nothing (the dialog says so, or asks).
ScanAnswered ==
    \E c \in {Head(calls)} :
    /\ c.cmd = "scan"
    /\ LET w == c.window
           found == BundlesIn[c.arg]
           root == Opens(c, found)
           settles == c.for \in {"folder", "recent"}
       IN  IF c.arg \notin granted \/ (c.for = "remote" /\ Len(found) # 1)
           THEN /\ ui' = IF settles THEN Loading(w, FALSE) ELSE ui
                /\ calls' = Tail(calls)
           ELSE /\ ui' = [ui EXCEPT ![w].folder = c.arg,
                                    ![w].loading = root # None \/ (@ /\ ~settles)]
                /\ calls' = IF root = None THEN Tail(calls)
                            ELSE Continue(w, "read", root, "select", None)
    /\ detected' = detected \cup ({c.arg} \cap granted)
    /\ UNCHANGED <<disk, granted, watch, asks, effects, owed, ops>>

\* setBundle with what was read; a failed read only ends the loading.
SelectAnswered ==
    \E c \in {Head(calls)} :
    /\ c.cmd = "read" /\ c.for = "select"
    /\ LET w == c.window  r == c.arg
       IN  IF Authorized(r)
           THEN /\ ui' = [ui EXCEPT ![w].activeRoot = r, ![w].shown = disk[r], ![w].loading = FALSE]
                /\ owed' = IF r = ui[w].activeRoot THEN owed ELSE [owed EXCEPT ![w] = 0]
           ELSE ui' = Loading(w, FALSE) /\ UNCHANGED owed
    /\ calls' = Tail(calls)
    /\ UNCHANGED <<disk, grants, watch, asks, effects, ops>>

-----------------------------------------------------------------------------
Current(w) == Len(effects[w])
EffectRoot(w) == IF effects[w] = << >> THEN None ELSE effects[w][Current(w)].root

\* Mutant: a cleanup without a disposer leaves the effect as it is.
TornDownIfWatching(e) ==
    IF e.phase = "watching"
    THEN [e EXCEPT !.cancelled = TRUE, !.listens = FALSE, !.phase = "disposed"] ELSE e

\* What the cleanup of an effect does: without a disposer, only mark it.
TornDown(e) == IF e.phase = "watching"
               THEN [e EXCEPT !.cancelled = TRUE, !.listens = FALSE, !.phase = "disposed"]
               ELSE [e EXCEPT !.cancelled = TRUE]

\* The effects of a commit: clean up after the previous root, watch the new one.
RunEffects(w) ==
    /\ ui[w].activeRoot # EffectRoot(w)
    /\ LET k == Current(w)
           old == [j \in DOMAIN effects[w] |->
                     IF j = k THEN TornDown(effects[w][j]) ELSE effects[w][j]]
       IN  /\ effects' = [effects EXCEPT ![w] = Append(old,
                [root |-> ui[w].activeRoot, cancelled |-> FALSE, listens |-> FALSE,
                 phase |-> "listening"])]
           /\ calls' = IF k > 0 /\ effects[w][k].phase = "watching"
                       THEN Send(w, "stop", effects[w][k].root, "none", None, 0) ELSE calls
           /\ asks' = asks \cup {[window |-> w, cmd |-> "listen", arg |-> ui[w].activeRoot,
                                  for |-> "watch", effect |-> k + 1]}
    /\ UNCHANGED <<disk, grants, watch, ui, owed, ops>>

\* startWatch: the listener is on, the host is asked to watch.
ListenAnswered(a) ==
    /\ a \in asks /\ a.cmd = "listen"
    /\ asks' = asks \ {a}
    /\ effects' = [effects EXCEPT ![a.window][a.effect].listens = TRUE,
                                  ![a.window][a.effect].phase = "starting"]
    /\ calls' = Send(a.window, "start", a.arg, "watch", None, a.effect)
    /\ UNCHANGED <<disk, grants, watch, ui, owed, ops>>

\* start_watch and stop_watch end the watch there is, whoever started it. A
\* burst that was being collected may still be emitted.
WatchBecomes(root) ==
    /\ \E late \in {FALSE, watch.dirty} : watch' = [root |-> root, dirty |-> late]
    /\ owed' = [w \in Window |-> 0]

\* An effect torn down in the meantime disposes at once.
StartAnswered ==
    \E c \in {Head(calls)} :
    /\ c.cmd = "start"
    /\ LET w == c.window  e == effects[w][c.effect]
       IN  IF ~Authorized(c.arg)
           THEN /\ effects' = [effects EXCEPT ![w][c.effect].phase = "failed"]
                /\ calls' = Tail(calls)
                /\ UNCHANGED <<watch, owed>>
           ELSE /\ WatchBecomes(c.arg)
                /\ effects' = [effects EXCEPT ![w][c.effect] =
                     IF e.cancelled THEN [e EXCEPT !.listens = FALSE, !.phase = "disposed"]
                     ELSE [e EXCEPT !.phase = "watching"]]
                /\ calls' = IF e.cancelled THEN Continue(w, "stop", c.arg, "none", None)
                            ELSE Tail(calls)
    /\ UNCHANGED <<disk, grants, asks, ui, ops>>

StopAnswered ==
    /\ Head(calls).cmd = "stop"
    /\ WatchBecomes(None)
    /\ calls' = Tail(calls)
    /\ UNCHANGED <<disk, grants, asks, ui, effects, ops>>

RevokeAnswered ==
    /\ Head(calls).cmd = "revoke"
    /\ granted' = granted \ {Head(calls).arg}
    /\ detected' = detected \ {Head(calls).arg}
    /\ calls' = Tail(calls)
    /\ UNCHANGED <<disk, watch, asks, ui, effects, owed, ops>>

-----------------------------------------------------------------------------
\* Whether window w hears of changes of its root: its effect listens, and the
\* host watches that root.
Hears(w) == /\ effects[w] # << >>
            /\ LET e == effects[w][Current(w)]
               IN  /\ e.listens /\ ~e.cancelled /\ e.phase = "watching"
                   /\ e.root = watch.root /\ e.root = ui[w].activeRoot

\* A file of a bundle changes; the watch notices if it is on that root.
Edit(r) ==
    /\ disk[r] < MaxEdits
    /\ disk' = [disk EXCEPT ![r] = @ + 1]
    /\ watch' = [watch EXCEPT !.dirty = @ \/ watch.root = r]
    /\ owed' = [w \in Window |-> IF Hears(w) /\ watch.root = r THEN disk[r] + 1 ELSE owed[w]]
    /\ UNCHANGED <<grants, calls, asks, ui, effects, ops>>

\* Mutant: only the window that ends up owning the watch is told.
ReloadsAskedInMain ==
    {[window |-> Main, cmd |-> "read", arg |-> effects[Main][k].root, for |-> "reload",
      root |-> None, effect |-> k] : k \in {j \in DOMAIN effects[Main] : effects[Main][j].listens}}

\* One read for every listener of every window, whatever root was watched.
ReloadsAsked ==
    UNION {{[window |-> w, cmd |-> "read", arg |-> effects[w][k].root, for |-> "reload",
             root |-> None, effect |-> k] :
                k \in {j \in DOMAIN effects[w] : effects[w][j].listens}} : w \in Window}

\* The burst is over: bundle-changed is emitted to all windows. (The watch is
\* debounced: changes after the emit start a new burst.)
EmitChanged ==
    /\ watch.dirty
    /\ watch' = [watch EXCEPT !.dirty = FALSE]
    /\ \E reads \in SetToSeqs(ReloadsAsked) : calls' = calls \o reads
    /\ UNCHANGED <<disk, grants, asks, ui, effects, owed, ops>>

\* Whether a reload is still wanted. Mutant: whatever became of the effect.
WantedAnyhow(c) == Authorized(c.arg)
Wanted(c) == Authorized(c.arg) /\ ~effects[c.window][c.effect].cancelled

\* A live reload, unless the effect that asked for it was torn down.
ReloadAnswered ==
    \E c \in {Head(calls)} :
    /\ c.cmd = "read" /\ c.for = "reload"
    /\ LET w == c.window
       IN  IF Wanted(c)
           THEN /\ ui' = [ui EXCEPT ![w].activeRoot = c.arg, ![w].shown = disk[c.arg],
                                    ![w].loading = FALSE]
                /\ owed' = IF c.arg = ui[w].activeRoot THEN owed ELSE [owed EXCEPT ![w] = 0]
           ELSE UNCHANGED <<ui, owed>>
    /\ calls' = Tail(calls)
    /\ UNCHANGED <<disk, grants, watch, asks, effects, ops>>

HostAnswers == /\ calls # << >>
               /\ \/ ScanAnswered \/ SelectAnswered \/ StartAnswered
                  \/ StopAnswered \/ RevokeAnswered \/ ReloadAnswered

Next ==
    \/ \E w \in Window, f \in Folder : OpenFolder(w, f)
    \/ \E w \in Window, r \in Root : OpenRecent(w, r)
    \/ \E w \in Window, r \in Root : SelectBundle(w, r)
    \/ \E w \in Window : Rescan(w)
    \/ \E w \in Window, f \in Folder, refresh \in BOOLEAN : FetchRemote(w, f, refresh)
    \/ \E w \in Window, f \in Folder : ForgetBundle(w, f)
    \/ \E w, opener \in Window : PopOut(w, opener)
    \/ \E a \in asks, ok \in BOOLEAN : FetchAnswered(a, ok)
    \/ \E w \in Window : RunEffects(w)
    \/ \E a \in asks : ListenAnswered(a)
    \/ HostAnswers
    \/ \E r \in Root : Edit(r)
    \/ EmitChanged

\* The host answers, React runs the effects of a commit, and the debounce
\* thread emits. Nothing is owed by the user or the disk.
Fairness ==
    /\ WF_vars(HostAnswers)
    /\ WF_vars(EmitChanged)
    /\ \A w \in Window : WF_vars(RunEffects(w))
    /\ WF_vars(\E a \in asks : ListenAnswered(a) \/ FetchAnswered(a, TRUE) \/ FetchAnswered(a, FALSE))

Spec == Init /\ [][Next]_vars /\ Fairness

-----------------------------------------------------------------------------
\* Nothing is under way that could still start or end a watch.
Settled == /\ calls = << >> /\ \A a \in asks : a.cmd # "listen"
           /\ \A w \in Window : ui[w].activeRoot = EffectRoot(w)

\* However switches, subscriptions and starts overlap: no torn-down effect keeps
\* its listener (unless its start was refused, which startWatch does not clean
\* up after), and the host watches nothing that no effect in place asked for.
WatchesSettle ==
    Settled =>
      /\ \A w \in Window : \A k \in DOMAIN effects[w] :
            LET e == effects[w][k]
            IN  e.cancelled => ~e.listens \/ e.phase = "failed"
      /\ watch.root # None =>
            \E w \in Window : LET e == effects[w][Current(w)]
                              IN  Current(w) > 0 /\ ~e.cancelled /\ e.root = watch.root
                                  /\ e.phase = "watching"

\* A window changes its bundle when the read of a bundle it asked to open is
\* back, never because of a late reload for a bundle it has left (once the
\* effects of that switch have run).
ReloadsKeepTheRoot == [][
    \A w \in Window :
      ui'[w].activeRoot # ui[w].activeRoot =>
        \/ Head(calls).window = w /\ Head(calls).for = "select"
        \/ EffectRoot(w) # ui[w].activeRoot ]_vars

\* A change the watch saw is eventually shown by every window that listens for
\* that root, unless the watch is stopped or replaced, or the grant of the folder
\* revoked, first.
SeenEditsAreShown == \A w \in Window :
    []<>(ui[w].shown >= owed[w] \/ ~Authorized(ui[w].activeRoot))

\* The loading indicator goes, whatever fails.
LoadingEnds == \A w \in Window : ui[w].loading ~> ~ui[w].loading

\* docs/features/live-reload.md:11: "While a folder is open, the app watches it
\* for filesystem changes and updates the view automatically." Once everything
\* has settled, every window whose watch was accepted is told of changes.
OpenBundlesAreWatched ==
    Settled => \A w \in Window :
                 Current(w) > 0 /\ effects[w][Current(w)].phase = "watching" => Hears(w)
=============================================================================
