------------------------------ MODULE Navigation ------------------------------
(***************************************************************************)
(* The client router (core/runtime/app.js): a navigation swaps a fragment  *)
(* into the outlet of a document that stays, from the prefetch cache, from *)
(* the wasm renderer or from the server, and moves the history.            *)
(*                                                                         *)
(* The browser runs one task at a time; what is awaited is a fetch, a      *)
(* stylesheet, or the callback of a view transition.  `seq` numbers the    *)
(* navigations: one that resumes and is not the newest returns, so the     *)
(* newest is the only one kept here.  What the server says is the version  *)
(* of its site; a deployment is a version too.                             *)
(***************************************************************************)
EXTENDS Integers, Sequences

CONSTANTS
    Urls,        \* the pages
    Home,        \* the one the first document is
    Local,       \* those the wasm build renders (CONFIG.wasm)
    Raw,         \* those that are documents of their own (CONFIG.raw)
    Styled,      \* those with a stylesheet of their own
    Guards,      \* url -> the pages the server may redirect its fragment to
    Entries,     \* the pages a back or forward step can return to
    Worlds,      \* which versions are deployments, and whether the links ask for a view transition:
                 \* all, none, or some
    MaxSite,     \* bound: the versions
    MaxNavs,     \* bound: the navigations
    MaxIntents   \* bound: the links hovered

ASSUME NavAssumption ==
    /\ Home \in Urls \ Raw /\ Local \subseteq Urls \ Raw
    /\ Raw \subseteq Urls /\ Styled \subseteq Urls /\ Entries \subseteq Urls
    /\ Guards \in [Urls -> SUBSET Urls]
    /\ \A w \in Worlds : w.deploys \subseteq Nat /\ w.animated \subseteq BOOLEAN
    /\ MaxSite \in Nat /\ MaxNavs \in Nat /\ MaxIntents \in Nat

VARIABLES
    site,     \* server: the version
    world,    \* what this behaviour's deployments and transitions are
    born,     \* the version that rendered this document
    stale,    \* the document has seen an answer of another build
    location, \* the address
    outlet,   \* what is shown: which page, from which version, how it came, whether it moved the
              \* address, in a transition or not, and by which navigation
    cache,    \* CACHE: url -> an answer and whether it is older than FRESH_MS
    inflight, \* INFLIGHT: url -> the version when it was asked for, or 0
    data,     \* DATA: url -> the endpoint's promise
    wasm,     \* wasmPromise and wasmReady
    seq,      \* the navigations begun
    intents,  \* the links hovered
    nav,      \* the newest one, if it waits
    swaps     \* the swaps that wait: for their transition's callback, then for styles

navVars == <<site, world, born, stale, location, outlet, cache, inflight, data,
             wasm, seq, intents, nav, swaps>>

Versions == 0..MaxSite
Ways     == {"document", "cold", "joined", "hit", "revalidated", "local"}

NotCached == [page |-> Home, version |-> 0, old |-> FALSE]
NoData    == [at |-> "none", version |-> 0]
NoNav     == [at |-> "none", url |-> Home, push |-> FALSE, via |-> FALSE, floor |-> 0,
              joined |-> FALSE, hit |-> 0]

\* Every variable has its type.
NavTypeOK ==
    /\ site \in 1..MaxSite /\ world \in Worlds /\ born \in 1..MaxSite /\ stale \in BOOLEAN
    /\ location \in Urls
    /\ outlet \in [url : Urls, page : Urls, version : Versions, floor : Versions, way : Ways,
                   push : BOOLEAN, via : BOOLEAN, by : 0..MaxNavs]
    /\ cache \in [Urls -> [page : Urls, version : Versions, old : BOOLEAN]]
    /\ inflight \in [Urls -> Versions]
    /\ data \in [Urls -> [at : {"none", "asked", "kept"}, version : Versions]]
    /\ wasm \in {"none", "loading", "ready"}
    /\ seq \in 0..MaxNavs /\ intents \in 0..MaxIntents
    /\ nav \in [at : {"none", "rendering", "cold", "revalidating"}, url : Urls, push : BOOLEAN,
                via : BOOLEAN, floor : Versions, joined : BOOLEAN, hit : Versions]
    /\ \A i \in 1..Len(swaps) : swaps[i].at \in {"transition", "styles"}

\* A document load: app.js boots, and nothing of the old document is left.
Document(u) ==
    /\ location' = u /\ born' = site /\ stale' = FALSE
    /\ outlet' = [url |-> u, page |-> u, version |-> site, floor |-> 0, way |-> "document",
                  push |-> TRUE, via |-> FALSE, by |-> seq']
    /\ cache' = [v \in Urls |-> NotCached] /\ inflight' = [v \in Urls |-> 0]
    /\ data' = [v \in Urls |-> NoData]
    /\ wasm' = IF u \in Local THEN "loading" ELSE "none"
    /\ nav' = NoNav /\ swaps' = <<>>

NavInit ==
    /\ world \in Worlds
    /\ site = 1 /\ born = 1 /\ stale = FALSE
    /\ location = Home
    /\ outlet = [url |-> Home, page |-> Home, version |-> 1, floor |-> 0, way |-> "document",
                 push |-> TRUE, via |-> FALSE, by |-> 0]
    /\ cache = [u \in Urls |-> NotCached] /\ inflight = [u \in Urls |-> 0]
    /\ data = [u \in Urls |-> NoData]
    /\ wasm = IF Home \in Local THEN "loading" ELSE "none"
    /\ seq = 0 /\ intents = 0 /\ nav = NoNav /\ swaps = <<>>

-----------------------------------------------------------------------------
(* What the world does.                                                     *)

\* A write to what the pages show, or a deployment.
SiteMoves ==
    /\ site < MaxSite
    /\ site' = site + 1
    /\ UNCHANGED <<world, born, stale, location, outlet, cache, inflight, data, wasm, seq,
                   intents, nav, swaps>>

\* FRESH_MS pass.
Ages(u) ==
    /\ cache[u].version > 0 /\ ~cache[u].old
    /\ cache' = [cache EXCEPT ![u].old = TRUE]
    /\ UNCHANGED <<site, world, born, stale, location, outlet, inflight, data, wasm, seq,
                   intents, nav, swaps>>

\* loadWasm ends; a failure is forgotten.
WasmLands(to) ==
    /\ wasm = "loading"
    /\ wasm' = to
    /\ UNCHANGED <<site, world, born, stale, location, outlet, cache, inflight, data, seq,
                   intents, nav, swaps>>

-----------------------------------------------------------------------------
(* The pieces.                                                              *)

\* checkBuild: an answer of another build than the document's.
OtherBuild(v) == \E d \in world.deploys : born < d /\ d <= v

\* prefetch: one fetch at a time of a page that is not in the cache.
Asking(kept, u) == IF kept[u].version > 0 \/ inflight[u] > 0 THEN inflight
                   ELSE [inflight EXCEPT ![u] = site]

\* fetchData: the promise is kept, whatever is written later.
Wanting(u) == IF data[u] # NoData THEN data
              ELSE [data EXCEPT ![u] = [at |-> "asked", version |-> site]]

\* applyFragment, but for the address: the swap comes now, or when its transition calls
\* back, and after the page's stylesheets.
Shown(url, page, v, floor, way, push, via) ==
    LET swap == [url |-> url, page |-> page, version |-> v, floor |-> floor, way |-> way,
                 push |-> push, via |-> via, by |-> seq']
    IN IF via \/ page \in Styled
       THEN /\ swaps' = Append(swaps, [swap |-> swap,
                                      at |-> IF via THEN "transition" ELSE "styles"])
            /\ UNCHANGED outlet
       ELSE outlet' = swap /\ UNCHANGED swaps

\* What a navigation waits with.
Waits(at, u, push, fresh, via) ==
    [NoNav EXCEPT !.at = at, !.url = u, !.push = push, !.via = via,
                  !.floor = IF fresh THEN site ELSE 0]

-----------------------------------------------------------------------------
(* navigate.                                                                *)

\* Mutant of Uncached: a fresh navigation is served like any other.
UncachedNever(u, fresh) == cache

\* `fresh` drops the entry of the page.
Uncached(u, fresh) == IF fresh THEN [cache EXCEPT ![u] = NotCached] ELSE cache

\* The document is left: it is of an old build, or the page is one of its own.
Leave(u) ==
    /\ stale \/ u \in Raw
    /\ Document(u)

\* renderLocally, its data at hand.
RenderNow(u, push, fresh, via) ==
    /\ u \in Local /\ wasm = "ready" /\ data[u].at = "kept"
    /\ cache' = Uncached(u, fresh)
    /\ location' = u
    /\ Shown(u, u, data[u].version, IF fresh THEN site ELSE 0, "local", push, via)
    /\ nav' = NoNav
    /\ UNCHANGED <<inflight, data, wasm>>

\* renderLocally, its data still to come.
RenderLater(u, push, fresh, via) ==
    /\ u \in Local /\ wasm = "ready" /\ data[u].at # "kept"
    /\ cache' = Uncached(u, fresh)
    /\ data' = Wanting(u)
    /\ nav' = Waits("rendering", u, push, fresh, via)
    /\ location' = IF push THEN location ELSE u
    /\ UNCHANGED <<outlet, inflight, wasm, swaps>>

\* A page the server renders, or wasm later: that is started.
Warmed(u) ==
    /\ u \in Local => wasm # "ready"
    /\ wasm' = IF u \in Local /\ wasm = "none" THEN "loading" ELSE wasm
    /\ data' = IF u \in Local THEN Wanting(u) ELSE data

\* A hit is shown at once, and asked for again if it is old.
Hit(u, push, fresh, via) ==
    LET hit == Uncached(u, fresh)[u]
    IN /\ Warmed(u)
       /\ hit.version > 0
       /\ location' = u
       /\ Shown(u, hit.page, hit.version, IF fresh THEN site ELSE 0, "hit", push, via)
       /\ IF hit.old
          THEN /\ cache' = [cache EXCEPT ![u] = NotCached]
               /\ inflight' = Asking(cache', u)
               /\ nav' = [NoNav EXCEPT !.at = "revalidating", !.url = u, !.hit = hit.version]
          ELSE nav' = NoNav /\ UNCHANGED <<cache, inflight>>

\* A miss waits for the fetch, which may be one that was begun before.
Cold(u, push, fresh, via) ==
    /\ Warmed(u)
    /\ Uncached(u, fresh)[u].version = 0
    /\ cache' = Uncached(u, fresh)
    /\ inflight' = Asking(cache', u)
    /\ nav' = [Waits("cold", u, push, fresh, via) EXCEPT !.joined = inflight[u] > 0]
    /\ location' = IF push THEN location ELSE u
    /\ UNCHANGED <<outlet, swaps>>

Goes(u, push, fresh, via) ==
    /\ seq < MaxNavs
    /\ seq' = seq + 1
    /\ UNCHANGED <<site, world, intents>>
    /\ \/ Leave(u)
       \/ /\ ~stale /\ u \notin Raw
          /\ \/ RenderNow(u, push, fresh, via)
             \/ RenderLater(u, push, fresh, via)
             \/ Hit(u, push, fresh, via)
             \/ Cold(u, push, fresh, via)
          /\ UNCHANGED <<born, stale>>

\* A click on a link, not one to the page itself.
Click(u, via) == u # location /\ u \notin Raw /\ Goes(u, TRUE, FALSE, via)

\* howl.navigate, on the page it is on after a write.
Refresh(via) == Goes(location, TRUE, TRUE, via)

\* popstate: the browser has moved the address, and navigate does not.
Back(u, via) == u \in Entries /\ u # location /\ Goes(u, FALSE, FALSE, via)

\* Hover, focus, a press: the data is warmed, and the fragment unless wasm will render it.
Intent(u) ==
    /\ intents < MaxIntents /\ intents' = intents + 1
    /\ u # location /\ u \notin Raw
    /\ data' = IF u \in Local THEN Wanting(u) ELSE data
    /\ inflight' = IF u \in Local /\ wasm = "ready" THEN inflight ELSE Asking(cache, u)
    /\ wasm' = IF u \in Local /\ wasm = "none" THEN "loading" ELSE wasm
    /\ UNCHANGED <<site, world, born, stale, location, outlet, cache, seq, nav, swaps>>

-----------------------------------------------------------------------------
(* What was awaited comes.                                                  *)

Awaits(at, u) == nav.at = at /\ nav.url = u

\* Mutant of Kept: a page that came by a redirect is cached for the one asked for.
KeptAnyway(u, page, v) == [cache EXCEPT ![u] = [page |-> page, version |-> v, old |-> FALSE]]

\* The end of prefetch: only the page that was asked for is cached.
Kept(u, page, v) ==
    IF page = u THEN [cache EXCEPT ![u] = [page |-> u, version |-> v, old |-> FALSE]] ELSE cache

\* A fragment comes that says v, of the page or of one redirected to.
Comes(u, page, v) ==
    /\ inflight[u] > 0 /\ v \in inflight[u]..site /\ page \in {u} \cup Guards[u]
    /\ inflight' = [inflight EXCEPT ![u] = 0]
    /\ cache' = Kept(u, page, v)
    /\ stale' = (stale \/ OtherBuild(v))

\* Nobody waits for it but the cache.
Prefetched(u, page, v) ==
    /\ ~Awaits("cold", u) /\ ~Awaits("revalidating", u)
    /\ Comes(u, page, v)
    /\ UNCHANGED <<site, world, born, location, outlet, data, wasm, seq, intents, nav, swaps>>

\* Mutant of Landed: no second look at the build.
LandedWhateverBuild(u, page, v) ==
    /\ Awaits("cold", u) /\ page \notin Raw
    /\ Comes(u, page, v)
    /\ location' = IF nav.push THEN page ELSE location
    /\ nav' = NoNav
    /\ UNCHANGED <<site, world, born, data, wasm, seq, intents>>
    /\ Shown(page, page, v, nav.floor, IF nav.joined THEN "joined" ELSE "cold", nav.push, nav.via)

\* The cold navigation goes on with it.
Landed(u, page, v) ==
    /\ Awaits("cold", u) /\ page \notin Raw
    /\ Comes(u, page, v) /\ ~stale'
    /\ location' = IF nav.push THEN page ELSE location
    /\ nav' = NoNav
    /\ UNCHANGED <<site, world, born, data, wasm, seq, intents>>
    /\ Shown(page, page, v, nav.floor, IF nav.joined THEN "joined" ELSE "cold", nav.push, nav.via)

\* It leaves for a document: of another build, its own, or where the server sent it with
\* X-Howl-Location; or the fetch failed.
LandedElsewhere(u, page, v) ==
    /\ Awaits("cold", u) /\ inflight[u] > 0
    /\ v \in inflight[u]..site /\ page \in {u} \cup Guards[u]
    /\ UNCHANGED <<site, world, seq, intents>>
    /\ Document(page)

\* Mutant of Revalidated: it is shown wherever the user is by now.
RevalidatedAnyhow(u, page, v) ==
    /\ Awaits("revalidating", u)
    /\ Comes(u, page, v)
    /\ nav' = NoNav
    /\ UNCHANGED <<site, world, born, location, data, wasm, seq, intents>>
    /\ \/ UNCHANGED <<outlet, swaps>>
       \/ v # nav.hit /\ Shown(u, page, v, 0, "revalidated", FALSE, FALSE)

\* The refresh in the background: shown if it says something new, is the page itself, and
\* no input has the focus.
Revalidated(u, page, v) ==
    /\ Awaits("revalidating", u)
    /\ Comes(u, page, v)
    /\ nav' = NoNav
    /\ UNCHANGED <<site, world, born, location, data, wasm, seq, intents>>
    /\ \/ UNCHANGED <<outlet, swaps>>
       \/ /\ page = u /\ location = u /\ v # nav.hit
          /\ Shown(u, page, v, 0, "revalidated", FALSE, FALSE)

\* The fetch of a prefetch or of a refresh fails.
FetchFails(u) ==
    /\ inflight[u] > 0 /\ ~Awaits("cold", u)
    /\ inflight' = [inflight EXCEPT ![u] = 0]
    /\ nav' = IF Awaits("revalidating", u) THEN NoNav ELSE nav
    /\ UNCHANGED <<site, world, born, stale, location, outlet, cache, data, wasm, seq,
                   intents, swaps>>

\* The data of a page comes, or fails and is forgotten: then it is rendered from none.
DataComes(u, v) ==
    /\ data[u].at = "asked" /\ v \in {0} \cup data[u].version..site
    /\ data' = [data EXCEPT ![u] = IF v = 0 THEN NoData ELSE [at |-> "kept", version |-> v]]
    /\ stale' = (stale \/ OtherBuild(v))
    /\ UNCHANGED <<site, world, born, cache, inflight, wasm, seq, intents>>
    /\ \/ ~Awaits("rendering", u) /\ UNCHANGED <<location, outlet, nav, swaps>>
       \/ /\ Awaits("rendering", u)
          /\ location' = IF nav.push THEN u ELSE location
          /\ nav' = NoNav
          /\ Shown(u, u, v, nav.floor, "local", nav.push, nav.via)

Others(i) == [j \in 1..Len(swaps) - 1 |-> IF j < i THEN swaps[j] ELSE swaps[j + 1]]

\* The callbacks of the transitions come in their order.
TransitionCalls ==
    \E i \in 1..Len(swaps) :
        /\ swaps[i].at = "transition" /\ \A j \in 1..i - 1 : swaps[j].at # "transition"
        /\ IF swaps[i].swap.page \in Styled
           THEN swaps' = [swaps EXCEPT ![i].at = "styles"] /\ UNCHANGED outlet
           ELSE swaps' = Others(i) /\ outlet' = swaps[i].swap
        /\ UNCHANGED <<site, world, born, stale, location, cache, inflight, data, wasm, seq,
                       intents, nav>>

\* Mutant of StylesLoad: whoever waited is swapped in.
StylesLoadAnyhow ==
    \E i \in 1..Len(swaps) :
        /\ swaps[i].at = "styles"
        /\ swaps' = Others(i)
        /\ outlet' = swaps[i].swap
        /\ UNCHANGED <<site, world, born, stale, location, cache, inflight, data, wasm, seq,
                       intents, nav>>

\* The stylesheets load, or 300 ms pass: the swap, unless a newer navigation won.
StylesLoad ==
    \E i \in 1..Len(swaps) :
        /\ swaps[i].at = "styles"
        /\ swaps' = Others(i)
        /\ outlet' = IF swaps[i].swap.by = seq THEN swaps[i].swap ELSE outlet
        /\ UNCHANGED <<site, world, born, stale, location, cache, inflight, data, wasm, seq,
                       intents, nav>>

NavNext ==
    \/ SiteMoves
    \/ \E to \in {"none", "ready"} : WasmLands(to)
    \/ \E u \in Urls : Ages(u) \/ Intent(u) \/ FetchFails(u)
    \/ \E via \in world.animated : Refresh(via) \/ \E u \in Urls : Click(u, via) \/ Back(u, via)
    \/ \E u \in Urls : \E v \in Versions : DataComes(u, v)
    \/ \E u, page \in Urls : \E v \in Versions :
          \/ Prefetched(u, page, v) \/ Landed(u, page, v) \/ LandedElsewhere(u, page, v)
          \/ Revalidated(u, page, v)
    \/ TransitionCalls \/ StylesLoad

NavSpec == NavInit /\ [][NavNext]_navVars

-----------------------------------------------------------------------------
\* What is shown is the address's page, or what a step back to it was redirected to: that leaves the
\* address where the browser moved it.
Fits(s) == s.url = location \/ (~s.push /\ s.url \in Guards[location])

\* An older navigation is shown after the newest. Its transition called back late, and only a swap that
\* waits for styles asks again whether it is the newest.
Overtakes(s) == s.via /\ s.by < seq /\ s.page \notin Styled /\ world.animated = BOOLEAN

\* When nothing is awaited the address is that of the page that is shown, whichever navigations overtook
\* one another on the way: but for a step back that is redirected, and where a navigation in a view
\* transition is followed by one without before it is shown.
PageMatchesAddress ==
    /\ nav.at = "none" /\ swaps = <<>> => Fits(outlet) \/ Overtakes(outlet)
    /\ outlet.page = outlet.url

\* "A newer navigation can start mid-swap. It must not then be overwritten by this one" (app.js:727-729).
NewestStays == nav.at = "none" /\ swaps = <<>> => outlet.by = seq

\* A navigation that was asked to be fresh shows a page no older than the call, when the
\* server was asked for it on its behalf or the cache answered.
FreshIsFresh == outlet.way \in {"cold", "hit"} => outlet.version >= outlet.floor

\* What a cold navigation or the cache shows is of the document's own build, so that new
\* fragments never meet the old wasm, app.js and config.
SwapsAreOfThisBuild == outlet.way \in {"cold", "hit"} => ~OtherBuild(outlet.version)

\* The page on the screen belongs to the address, and to the document it was put into.
PageBelongs == PageMatchesAddress /\ SwapsAreOfThisBuild
=============================================================================
