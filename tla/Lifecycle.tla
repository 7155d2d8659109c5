------------------------------- MODULE Lifecycle -------------------------------
(***************************************************************************)
(* What a page does in the browser from its coming to its going: the Mount *)
(* and Unmount hooks it wrote in Go (core/runtime/app.js calls them,       *)
(* wasm/main.go passes them on, core/dom runs them in a scope), the        *)
(* listeners, frames and fetches a hook makes, the islands its markup has, *)
(* and the trace of the navigation that brought it.                        *)
(*                                                                         *)
(* Each of a hook's makings is a js.Func: the browser holds it while it    *)
(* may still call it, and core/dom releases it.  A call of one that was    *)
(* released fails, and one that is never released is held for good.        *)
(*                                                                         *)
(* Of a navigation, only what this needs is kept: it waits or it has what  *)
(* it shows, and the swap comes at once or later (see Navigation).         *)
(***************************************************************************)
EXTENDS Integers, Sequences

CONSTANTS
    Routes,      \* the pages
    Firsts,      \* those the document can come with
    Table,       \* those of the route table Go has in the browser (FsClientRoutes)
    Wasm,        \* those that want Go in the browser (CONFIG.wasm): every one with a hook
    Makes,       \* route -> what its Mount makes; nothing if it has no hook
    Islands,     \* route -> the islands in its markup
    Shell,       \* the islands around the outlet
    MaxGoes      \* bound: the navigations

ASSUME LifecycleAssumption ==
    /\ Firsts \subseteq Routes /\ Wasm \subseteq Table /\ Table \subseteq Routes /\ MaxGoes \in Nat
    /\ "nowhere" \notin Routes
    /\ Makes \in [Routes -> SUBSET {"listener", "frame", "fetch"}]
    /\ \A r \in Routes : Makes[r] # {} => r \in Wasm
    /\ \A r \in Routes : Islands[r] \cap Shell = {}

VARIABLES
    go,        \* Go in the browser: "loading", "failed", or "there"
    booting,   \* the mount of the page the document came with is still to come
    here,      \* location.pathname
    route,     \* outlet.dataset.route
    goes,      \* seq
    going,     \* where the navigation that waits is to go, or nowhere
    later,     \* the swaps put off: by which navigation, to where, until what
    mounted,   \* the one of the mounts whose scope is open (dispose), or 0
    mounts,    \* the mounts there were: of which page, into the markup of which
    calls,     \* what the hooks made
    trace,     \* the navigation that is traced, or 0
    told,      \* per navigation: it has not finished, is pending, or how its report went
    names,     \* the islands registered
    setUp      \* per island in the document: how often it was set up

pageVars == <<go, booting, here, route, goes, going, later, mounted, mounts, calls, trace, told,
              names, setUp>>

PageTypeOK ==
    /\ go \in {"loading", "failed", "there"} /\ booting \in BOOLEAN
    /\ here \in Routes /\ route \in Routes
    /\ goes \in 0..MaxGoes
    /\ going \in Routes \cup {"nowhere"}
    /\ \A i \in 1..Len(later) :
          later[i] \in [by : 1..MaxGoes, to : Routes, until : {"transition", "styles"}]
    /\ mounted \in 0..Len(mounts)
    /\ \A i \in 1..Len(mounts) : mounts[i] \in [of : Routes, into : Routes]
    /\ \A i \in 1..Len(calls) :
          calls[i] \in [kind : {"listener", "frame", "fetch"}, mount : Nat, held : BOOLEAN,
                        released : Nat, joins : 0..MaxGoes, awaited : BOOLEAN]
    /\ trace \in 0..MaxGoes
    /\ told \in [1..MaxGoes -> {"no", "pending", "sent", "lost", "twice"}]
    /\ names \subseteq Shell \cup UNION {Islands[r] : r \in Routes}
    /\ setUp \in [Shell \cup Islands[route] -> Nat]

-----------------------------------------------------------------------------
(* core/dom.                                                                *)

\* Mutant of Release: what its owner has released before is released again.
ReleaseAgain(c) == [c EXCEPT !.held = FALSE, !.released = @ + 1]

\* The release of a listener and the stop of a frame: once, and the browser lets go first.
Release(c) == IF c.released > 0 THEN c ELSE [c EXCEPT !.held = FALSE, !.released = 1]

\* Unmount: the page's own hook, and what its scope has; a fetch is made on a goroutine, which
\* no scope has.
Disposed(cs, s) ==
    [i \in 1..Len(cs) |->
        IF s > 0 /\ cs[i].mount = s /\ cs[i].kind # "fetch" THEN Release(cs[i]) ELSE cs[i]]

\* What a Mount hook makes, in its scope; the goroutines it starts run before the browser goes
\* on, and their fetch joins the trace of the moment.
Made(r, s, joins) ==
    LET one(k) == IF k \in Makes[r]
                  THEN <<[kind |-> k, mount |-> s, held |-> TRUE, released |-> 0,
                          joins |-> IF k = "fetch" THEN joins ELSE 0, awaited |-> TRUE]>>
                  ELSE <<>>
    IN  one("listener") \o one("frame") \o one("fetch")

\* Mutant of RunMount: the scope of the page before is forgotten.
RunMountOver(cs, r, markup, joins) ==
    IF go # "there" \/ Makes[r] = {}
    THEN calls' = cs /\ UNCHANGED <<mounted, mounts>>
    ELSE /\ mounts' = Append(mounts, [of |-> r, into |-> markup])
         /\ mounted' = Len(mounts')
         /\ calls' = cs \o Made(r, mounted', joins)

\* runMount, howlMount and dom.Mount: nothing without a hook, or Go; and a scope that is still
\* open is closed first.
RunMount(cs, r, markup, joins) ==
    IF go # "there" \/ Makes[r] = {}
    THEN calls' = cs /\ UNCHANGED <<mounted, mounts>>
    ELSE /\ mounts' = Append(mounts, [of |-> r, into |-> markup])
         /\ mounted' = Len(mounts')
         /\ calls' = Disposed(cs, mounted) \o Made(r, mounted', joins)

\* What is left open when the page of the markup is unmounted: its scope, whatever it is of,
\* unless Go does not know that page.
Unmounted == IF go = "there" /\ route \in Table THEN 0 ELSE mounted
UnmountedCalls == IF go = "there" /\ route \in Table THEN Disposed(calls, mounted) ELSE calls

\* runUnmount, of the page before, and runMount.
Remounted(r, joins) ==
    IF go # "there" \/ Makes[r] = {}
    THEN calls' = UnmountedCalls /\ mounted' = Unmounted /\ UNCHANGED mounts
    ELSE RunMount(UnmountedCalls, r, r, joins)

-----------------------------------------------------------------------------
(* app.js.                                                                  *)

\* hydrate, of the islands in es: those registered that were not set up yet.
Hydrated(es, counts, known) ==
    [e \in DOMAIN counts |-> IF e \in es \cap known /\ counts[e] = 0 THEN 1 ELSE counts[e]]

\* The new markup in the outlet: its islands are as the server sent them.
Swapped(r) ==
    LET fresh == [e \in Shell \cup Islands[r] |-> IF e \in Shell THEN setUp[e] ELSE 0]
    IN  setUp' = Hydrated(Islands[r], fresh, names)

\* swap: the page on the screen is unmounted, and r is in its place, and mounted.
Swap(r, joins) ==
    /\ Remounted(r, joins)
    /\ route' = r
    /\ Swapped(r)

PageInit ==
    /\ here \in Firsts /\ route = here
    /\ go = "loading" /\ booting = (here \in Wasm)
    /\ goes = 0 /\ going = "nowhere" /\ later = <<>>
    /\ mounted = 0 /\ mounts = <<>> /\ calls = <<>>
    /\ trace = 0 /\ told = [n \in 1..MaxGoes |-> "no"]
    /\ names = {} /\ setUp = [e \in Shell \cup Islands[route] |-> 0]

\* Go's main publishes its hooks: its download begins at the boot of a page that wants it, when
\* the pointer comes over a link to one, or with a navigation to one.
GoRuns ==
    /\ go # "there"
    /\ go' = "there"
    /\ UNCHANGED <<booting, here, route, goes, going, later, mounted, mounts, calls, trace, told,
                   names, setUp>>

\* loadWasm fails; the next one who wants it tries again.
GoFails ==
    /\ go = "loading"
    /\ go' = "failed"
    /\ UNCHANGED <<booting, here, route, goes, going, later, mounted, mounts, calls, trace, told,
                   names, setUp>>

\* The boot's loadWasm is over, well or not: the page the address names by now is mounted.
Boots ==
    /\ booting /\ go # "loading"
    /\ booting' = FALSE
    /\ RunMount(calls, here, route, trace)
    /\ UNCHANGED <<go, here, route, goes, going, later, trace, told, names, setUp>>

\* howl.island, at any time after the boot.
Registers(e) ==
    /\ e \notin names
    /\ names' = names \cup {e}
    /\ setUp' = Hydrated(DOMAIN setUp, setUp, names')
    /\ UNCHANGED <<go, booting, here, route, goes, going, later, mounted, mounts, calls, trace,
                   told>>

\* Mutant of Finished: the trace goes on.
FinishedButTraced(n) == told' = [told EXCEPT ![n] = "pending"] /\ UNCHANGED trace

\* finish.
Finished(n) == told' = [told EXCEPT ![n] = "pending"] /\ trace' = 0

\* applyFragment and finish: the swap now, and its fetches join the navigation; or later.
Shows(n, r, until) ==
    /\ here' = r
    /\ going' = "nowhere"
    /\ Finished(n)
    /\ IF until = "now"
       THEN Swap(r, n) /\ UNCHANGED later
       ELSE /\ later' = Append(later, [by |-> n, to |-> r, until |-> until])
            /\ UNCHANGED <<route, mounted, mounts, calls, setUp>>

\* navigate, to what is at hand, or to what is awaited: a newer one takes the place of an older.
Navigates(r, until) ==
    /\ goes < MaxGoes /\ goes' = goes + 1
    /\ Shows(goes', r, until)
    /\ UNCHANGED <<go, booting, names>>

Asks(r, push) ==
    /\ goes < MaxGoes /\ goes' = goes + 1
    /\ trace' = goes'
    /\ going' = r
    /\ here' = IF push THEN here ELSE r
    /\ UNCHANGED <<go, booting, route, later, mounted, mounts, calls, told, names, setUp>>

Arrives(until) ==
    /\ going \in Routes
    /\ Shows(goes, going, until)
    /\ UNCHANGED <<go, booting, goes, names>>

\* A swap that was put off, the transitions' in their order: dropped if it waited for styles and
\* a newer navigation began.
SwapsLater ==
    \E i \in 1..Len(later) :
        LET s == later[i]
        IN  /\ s.until = "transition" => \A j \in 1..i - 1 : later[j].until # "transition"
            /\ later' = [j \in 1..Len(later) - 1 |-> IF j < i THEN later[j] ELSE later[j + 1]]
            /\ IF s.until = "styles" /\ s.by # goes
               THEN UNCHANGED <<route, mounted, mounts, calls, setUp>>
               ELSE Swap(s.to, trace)
            /\ UNCHANGED <<go, booting, here, goes, going, trace, told, names>>

-----------------------------------------------------------------------------
(* What becomes of a hook's makings.                                        *)

Becomes(i, c) ==
    /\ calls' = [calls EXCEPT ![i] = c]
    /\ UNCHANGED <<go, booting, here, route, goes, going, later, mounted, mounts, trace, told,
                   names, setUp>>

\* The page takes its listener off, or stops its frames, before it goes.
TakenOff(i) ==
    /\ calls[i].kind \in {"listener", "frame"} /\ calls[i].held
    /\ Becomes(i, Release(calls[i]))

\* A frame is called: its function is done, and is released; or wants another, and is held on.
LastFrame(i) ==
    /\ calls[i].kind = "frame" /\ calls[i].held
    /\ Becomes(i, [calls[i] EXCEPT !.held = FALSE, !.released = @ + 1])

\* Mutant of GivenUp: a caller that waits no more releases what it waited with.
GivenUpForGood(i) ==
    /\ calls[i].kind = "fetch" /\ calls[i].held /\ calls[i].awaited
    /\ Becomes(i, [calls[i] EXCEPT !.awaited = FALSE, !.released = @ + 1])

\* Fetch: the context ends before the answer; a goroutine goes on waiting for it.
GivenUp(i) ==
    /\ calls[i].kind = "fetch" /\ calls[i].held /\ calls[i].awaited
    /\ Becomes(i, [calls[i] EXCEPT !.awaited = FALSE])

\* The promise settles, and whoever waits releases what it held.
Settles(i) ==
    /\ calls[i].kind = "fetch" /\ calls[i].held
    /\ Becomes(i, Release(calls[i]))

\* Mutant of Reports: the batch is kept.
ReportsAndKeeps(how) ==
    /\ \E n \in 1..MaxGoes : told[n] = "pending"
    /\ told' = [n \in 1..MaxGoes |-> CASE told[n] = "pending" -> how
                                       [] told[n] = "sent"    -> "twice"
                                       [] OTHER               -> told[n]]
    /\ UNCHANGED <<go, booting, here, route, goes, going, later, mounted, mounts, calls, trace,
                   names, setUp>>

\* report, on its timer or when the document is hidden: the batch goes as a beacon or a fetch, and
\* nobody hears how that went.
Reports(how) ==
    /\ \E n \in 1..MaxGoes : told[n] = "pending"
    /\ told' = [n \in 1..MaxGoes |-> IF told[n] = "pending" THEN how ELSE told[n]]
    /\ UNCHANGED <<go, booting, here, route, goes, going, later, mounted, mounts, calls, trace,
                   names, setUp>>

PageNext ==
    \/ GoRuns \/ GoFails \/ Boots \/ SwapsLater
    \/ \E e \in Shell \cup UNION {Islands[r] : r \in Routes} : Registers(e)
    \/ \E until \in {"now", "transition", "styles"} :
          Arrives(until) \/ \E r \in Routes : Navigates(r, until)
    \/ \E r \in Routes, push \in BOOLEAN : Asks(r, push)
    \/ \E i \in 1..Len(calls) : TakenOff(i) \/ LastFrame(i) \/ GivenUp(i) \/ Settles(i)
    \/ \E how \in {"sent", "lost"} : Reports(how)

PageSpec == PageInit /\ [][PageNext]_pageVars

-----------------------------------------------------------------------------
\* Nothing that was released is held by the browser, which would call it, and nothing is released
\* twice: whether the page, its scope or the end of a frame or a fetch was first.
CallsAreLive ==
    \A i \in 1..Len(calls) :
        /\ calls[i].released <= 1
        /\ calls[i].held <=> calls[i].released = 0

\* Whatever listens or runs per frame is the page's that was mounted last, and that is the page on
\* the screen, unless the mount of the boot came while another's markup was there; and every
\* island in the document that is registered was set up, once.
PageIsAlone ==
    /\ \A i \in 1..Len(calls) :
          calls[i].held /\ calls[i].kind # "fetch" => calls[i].mount = mounted
    /\ mounted > 0 => mounts[mounted].of = route \/ mounts[mounted].into # mounts[mounted].of
    /\ \A e \in DOMAIN setUp : setUp[e] = IF e \in names THEN 1 ELSE 0

\* What a page began ends with it: no call into Go is lost or made after its release, and nothing
\* but the page on the screen listens or draws.
NothingIsLeftBehind == CallsAreLive /\ PageIsAlone

\* A fetch joins a navigation that is under way, never one that is over, and each navigation that
\* finished is reported once, or lost with its batch.
NavigationsAreToldOnce ==
    /\ [][\A i \in Len(calls) + 1..Len(calls') :
             calls'[i].joins # 0 => calls'[i].joins = goes' /\ told[goes'] = "no"]_pageVars
    /\ [](\A n \in 1..MaxGoes : told[n] # "twice" /\ (n > goes => told[n] = "no"))

\* Mount "runs once per visit" (test/e2e/spa_test.go:108): when nothing is to come any more, the
\* page on the screen was mounted, into its own markup, if it has a hook.
VisitsAreMounted ==
    go = "there" /\ ~booting /\ going = "nowhere" /\ later = <<>> /\ Makes[route] # {} =>
        mounted > 0 /\ mounts[mounted] = [of |-> route, into |-> route]
=============================================================================
