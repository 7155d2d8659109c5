------------------------------ MODULE DevServer ------------------------------
(***************************************************************************)
(* `howl dev` (core/cmd/howl/dev.go) and the pages that listen to it       *)
(* (alive.js).                                                             *)
(*                                                                         *)
(* One goroutine polls the tree, builds, restarts the application and      *)
(* announces; every tab has a goroutine that writes its event stream from  *)
(* a channel of limited room.  Requests for a document are held until the  *)
(* application answers.  The tree is the sequence of its edits: a file of  *)
(* Go that compiles or does not, a stylesheet, another static file.        *)
(***************************************************************************)
EXTENDS Integers, Sequences

CONSTANTS
    Tabs,     \* the tabs of the browser
    Room,     \* what a tab's channel holds
    MaxEdits, \* bound: the edits
    MaxBreaks \* bound: the connections that break

ASSUME DevAssumption == Room \in Nat \ {0} /\ MaxEdits \in Nat /\ MaxBreaks \in Nat

VARIABLES
    tree,     \* the edits
    prev,     \* how many of them the last scan saw
    begun,    \* how many the first one did
    builder,  \* where the goroutine that builds is
    binary,   \* the tree the binary was built from
    child,    \* the application: the tree it was built from, and what it does
    live,     \* d.live
    buildErr, \* d.buildErr is set
    recovered,\* this build was the first to succeed after one that failed
    revision, \* d.revision
    tabs,     \* the tabs
    breaks    \* the connections that broke

devVars == <<tree, prev, begun, builder, binary, child, live, buildErr, recovered, revision,
             tabs, breaks>>

Kinds  == {"go", "bad", "css", "js"}
Events == {"css", "build-error", "build-ok", "alive"}

\* A tab that loads its document: which application rendered it; the revision it remembers
\* and, as history, the one it was loaded at and whether that is another; its stream.  (A
\* stylesheet is swapped in without a trace here.)
Blank == [doc |-> 0, remembered |-> 0, loadedAt |-> 0, late |-> FALSE, overlay |-> FALSE,
          stream |-> "closed", ch |-> <<>>, missed |-> FALSE]

\* Every variable has its type.
DevTypeOK ==
    /\ tree \in Seq(Kinds) /\ prev \in 0..Len(tree) /\ begun \in 0..Len(tree)
    /\ builder \in {"building", "restarting", "waiting", "cheering", "bumping", "telling", "idle"}
    /\ binary \in 0..Len(tree)
    /\ child \in [built : 0..Len(tree), at : {"none", "starting", "up", "gone"}]
    /\ live \in BOOLEAN /\ buildErr \in BOOLEAN /\ recovered \in BOOLEAN
    /\ revision \in Nat /\ breaks \in 0..MaxBreaks
    /\ \A t \in Tabs :
          /\ tabs[t].ch \in Seq(Events) /\ Len(tabs[t].ch) <= Room
          /\ tabs[t].stream \in {"closed", "greeting", "greeted", "open"}
          /\ tabs[t].remembered \in 0..revision /\ tabs[t].doc \in 0..Len(tree)

\* The first edit is the project as it is; the first build runs before the first scan.
DevInit ==
    /\ tree = <<"go">> /\ prev = 0 /\ begun = 0
    /\ builder = "building" /\ binary = 0
    /\ child = [built |-> 0, at |-> "none"] /\ live = FALSE
    /\ buildErr = FALSE /\ recovered = FALSE
    /\ revision = 1
    /\ tabs = [t \in Tabs |-> Blank] /\ breaks = 0

-----------------------------------------------------------------------------
(* The pieces.                                                              *)

GoFiles(v) == {i \in 1..v : tree[i] \in {"go", "bad"}}

\* The tree compiles if the last edit of its Go files does.
Compiles(v) ==
    \A i \in GoFiles(v) : (\A j \in GoFiles(v) : j <= i) => tree[i] = "go"

\* Mutant of Broadcast: the channel is not asked for room.
BroadcastRegardless(event) ==
    tabs' = [t \in Tabs |->
        IF tabs[t].stream = "closed" THEN tabs[t] ELSE [tabs[t] EXCEPT !.ch = Append(@, event)]]

\* What a tab will be told although it is dropped: a revision or an error that waits in its
\* channel is sent as it is by then.  A stylesheet leaves no trace, and a revision follows
\* whenever a build works again.
Carries(ch, event) ==
    \/ event \in {"css", "build-ok"}
    \/ \E i \in 1..Len(ch) :
          /\ ch[i] = event
          /\ event = "build-error" => \A j \in i + 1..Len(ch) : ch[j] # "build-ok"

\* broadcast: a full channel drops the event.
Broadcast(event) ==
    tabs' = [t \in Tabs |->
        IF tabs[t].stream = "closed" THEN tabs[t]
        ELSE IF Len(tabs[t].ch) < Room THEN [tabs[t] EXCEPT !.ch = Append(@, event)]
        ELSE [tabs[t] EXCEPT !.missed = @ \/ ~Carries(tabs[t].ch, event)]]

\* Mutant of Watching: the tree is scanned when a build is over.
WatchingRescans ==
    /\ builder' = "idle" /\ prev' = Len(tree)
    /\ begun' = IF prev = 0 THEN Len(tree) ELSE begun

\* rebuild returns: to the loop, which after the first build begins with a scan.
Watching ==
    /\ builder' = "idle"
    /\ IF prev = 0 THEN prev' = Len(tree) /\ begun' = Len(tree) ELSE UNCHANGED <<prev, begun>>

-----------------------------------------------------------------------------
(* The builder.                                                             *)

Edit(kind) ==
    /\ Len(tree) < MaxEdits
    /\ tree' = Append(tree, kind)
    /\ UNCHANGED <<prev, begun, builder, binary, child, live, buildErr, recovered, revision,
                   tabs, breaks>>

\* watch: the tree has moved, and has settled.  Styles alone are swapped in, other static
\* files make the tabs reload, and anything else is built.
Notice ==
    /\ builder = "idle" /\ prev < Len(tree)
    /\ prev' = Len(tree)
    /\ LET edits == {tree[i] : i \in prev + 1..Len(tree)}
       IN \/ edits = {"css"} /\ Broadcast("css") /\ UNCHANGED builder
          \/ edits # {"css"} /\ edits \subseteq {"css", "js"} /\ builder' = "bumping" /\ UNCHANGED tabs
          \/ ~(edits \subseteq {"css", "js"}) /\ builder' = "building" /\ UNCHANGED tabs
    /\ UNCHANGED <<tree, begun, binary, child, live, buildErr, recovered, revision, breaks>>

\* rebuild, whose steps read the tree: the application that runs is left alone...
BuildFails ==
    /\ builder = "building" /\ ~Compiles(Len(tree))
    /\ buildErr' = TRUE
    /\ Broadcast("build-error")
    /\ Watching
    /\ UNCHANGED <<tree, binary, child, live, recovered, revision, breaks>>

\* ...until there is a binary.
BuildWorks ==
    /\ builder = "building" /\ Compiles(Len(tree))
    /\ binary' = Len(tree)
    /\ recovered' = buildErr /\ buildErr' = FALSE
    /\ builder' = "restarting"
    /\ UNCHANGED <<tree, prev, begun, child, live, revision, tabs, breaks>>

\* restart: kill waits for the old one, as long as it is given.
Restart ==
    /\ builder = "restarting"
    /\ child' = [built |-> binary, at |-> "starting"]
    /\ live' = FALSE
    /\ builder' = "waiting"
    /\ UNCHANGED <<tree, prev, begun, binary, buildErr, recovered, revision, tabs, breaks>>

\* waitFor.
Listens ==
    /\ builder = "waiting"
    /\ child' = [child EXCEPT !.at = "up"]
    /\ live' = TRUE
    /\ builder' = IF recovered THEN "cheering" ELSE "bumping"
    /\ UNCHANGED <<tree, prev, begun, binary, buildErr, recovered, revision, tabs, breaks>>

\* The application cannot be started or does not listen in time: nothing is announced.
NeverListens ==
    /\ builder = "waiting"
    /\ child' = [child EXCEPT !.at = "gone"]
    /\ Watching
    /\ UNCHANGED <<tree, binary, live, buildErr, recovered, revision, tabs, breaks>>

\* It stops by itself, which nothing watches for.
Exits ==
    /\ child.at = "up"
    /\ child' = [child EXCEPT !.at = "gone"]
    /\ UNCHANGED <<tree, prev, begun, builder, binary, live, buildErr, recovered, revision,
                   tabs, breaks>>

Cheer ==
    /\ builder = "cheering"
    /\ Broadcast("build-ok")
    /\ builder' = "bumping"
    /\ UNCHANGED <<tree, prev, begun, binary, child, live, buildErr, recovered, revision, breaks>>

\* bump, first the number...
Bump ==
    /\ builder = "bumping"
    /\ revision' = revision + 1
    /\ builder' = "telling"
    /\ UNCHANGED <<tree, prev, begun, binary, child, live, buildErr, recovered, tabs, breaks>>

\* ...and then, without the lock, whoever listens.
Tell ==
    /\ builder = "telling"
    /\ Broadcast("alive")
    /\ Watching
    /\ UNCHANGED <<tree, binary, child, live, buildErr, recovered, revision, breaks>>

Builds == Notice \/ BuildFails \/ BuildWorks \/ Restart \/ Listens \/ NeverListens \/ Cheer
          \/ Bump \/ Tell

-----------------------------------------------------------------------------
(* The tabs.                                                                *)

TabStep(t, tab) ==
    /\ tabs' = [tabs EXCEPT ![t] = tab]
    /\ UNCHANGED <<tree, prev, begun, builder, binary, child, live, buildErr, recovered, revision>>

\* A document is served: the request was held until the application was live, and one that
\* came too early is a page that loads itself again.
Load(t) ==
    /\ tabs[t].doc = 0 /\ live /\ child.at = "up"
    /\ TabStep(t, [Blank EXCEPT !.doc = child.built, !.loadedAt = revision])
    /\ UNCHANGED breaks

\* Mutant of OnAlive: the last revision is remembered.
OnAliveKeeping(tab) ==
    [tab EXCEPT !.remembered = revision,
                !.late = @ \/ (tab.remembered = 0 /\ revision # tab.loadedAt)]

\* onAlive: the first revision is remembered, a higher one reloads.
OnAlive(tab) ==
    CASE tab.remembered = 0 -> [tab EXCEPT !.remembered = revision,
                                             !.late = (revision # tab.loadedAt)]
      [] tab.remembered # 0 /\ revision > tab.remembered -> Blank
      [] OTHER -> tab

\* alive: the channel is registered...
Connect(t) ==
    /\ tabs[t].doc # 0 /\ tabs[t].stream = "closed"
    /\ TabStep(t, [tabs[t] EXCEPT !.stream = "greeting", !.ch = <<>>, !.missed = FALSE])
    /\ UNCHANGED breaks

\* ...the revision sent...
Greet(t) ==
    /\ tabs[t].stream = "greeting"
    /\ LET tab == OnAlive(tabs[t])
       IN TabStep(t, IF tab = Blank THEN Blank ELSE [tab EXCEPT !.stream = "greeted"])
    /\ UNCHANGED breaks

\* Mutant of GreetError: whoever comes late is not told.
GreetSilently(t) ==
    /\ tabs[t].stream = "greeted"
    /\ TabStep(t, [tabs[t] EXCEPT !.stream = "open"])
    /\ UNCHANGED breaks

\* ...and the error, if the build is broken.
GreetError(t) ==
    /\ tabs[t].stream = "greeted"
    /\ TabStep(t, [tabs[t] EXCEPT !.stream = "open", !.overlay = @ \/ buildErr])
    /\ UNCHANGED breaks

\* An event is taken from the channel and sent, with what it says by then.
Deliver(t) ==
    /\ tabs[t].stream = "open" /\ tabs[t].ch # <<>>
    /\ LET rest == [tabs[t] EXCEPT !.ch = Tail(@)]
       IN TabStep(t, CASE Head(tabs[t].ch) = "alive"       -> OnAlive(rest)
                       [] Head(tabs[t].ch) = "build-error" -> [rest EXCEPT !.overlay = buildErr]
                       [] Head(tabs[t].ch) = "build-ok"    -> [rest EXCEPT !.overlay = FALSE]
                       [] Head(tabs[t].ch) = "css"         -> rest)
    /\ UNCHANGED breaks

\* The connection breaks; the browser will connect again.
Break(t) ==
    /\ breaks < MaxBreaks /\ tabs[t].stream # "closed"
    /\ breaks' = breaks + 1
    /\ TabStep(t, [tabs[t] EXCEPT !.stream = "closed", !.ch = <<>>, !.missed = FALSE])

Listen(t) == Load(t) \/ Connect(t) \/ Greet(t) \/ GreetError(t) \/ Deliver(t)

DevNext ==
    \/ \E kind \in Kinds : Edit(kind)
    \/ Builds
    \/ Exits
    \/ \E t \in Tabs : Listen(t) \/ Break(t)

DevSpec == DevInit /\ [][DevNext]_devVars

-----------------------------------------------------------------------------
Idle == builder = "idle" /\ prev = Len(tree)

\* A tab whose stream is open, with nothing left in its channel, and nothing dropped from it that
\* it was not told in another way.
Settled(t) == tabs[t].stream = "open" /\ tabs[t].ch = <<>> /\ ~tabs[t].missed

\* Once a Go file was edited after the first scan, whatever is edited while a build runs, or a
\* restart, is built after it: at rest the application is of the tree's last Go files, if it
\* started, or they do not compile and the error is known.  What is edited during the first
\* build is not noticed until then: the scan that follows it (watch) takes it for built.
NoEditIsMissed ==
    Idle /\ (\E i \in begun + 1..Len(tree) : i \in GoFiles(Len(tree))) =>
        /\ buildErr => ~Compiles(Len(tree))
        /\ ~buildErr /\ child.at = "up" => GoFiles(Len(tree)) = GoFiles(child.built)

\* A tab whose stream is open knows the revision; and unless its first greeting already came
\* from a later one than its document, it shows what runs.  The error is on the screen while the
\* build is broken, and no longer.  (Only a tab that connects again makes up for what its full
\* channel dropped, and one that was loaded before a revision and greeted after it keeps the
\* older document.)
TabsCatchUp ==
    \A t \in Tabs :
        Idle /\ Settled(t) /\ child.at = "up" =>
            /\ tabs[t].remembered = revision
            /\ ~tabs[t].late => tabs[t].doc = child.built
            /\ tabs[t].overlay = buildErr

\* At rest the last edit of Go since the first scan runs, or its error is shown, in every tab
\* that listens.
EditsArrive == NoEditIsMissed /\ TabsCatchUp
=============================================================================
