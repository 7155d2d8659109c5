-------------------------------- MODULE Routes --------------------------------
(***************************************************************************)
(* Which page a URL shows.  fsroutes makes the table of routes from the    *)
(* tree of page files, and four things read it: net/http's ServeMux, under *)
(* core/app; router.Lookup, in the wasm build; and app.js, with the lists  *)
(* of patterns that the document carries, to decide whether a navigation   *)
(* is the browser's, the wasm build's or the server's, and what data it    *)
(* needs.                                                                  *)
(*                                                                         *)
(* A pattern is a sequence of segments, static or a parameter; a URL one   *)
(* of texts, some of them percent-encoded, with or without a trailing      *)
(* slash and a query.                                                      *)
(***************************************************************************)
EXTENDS Integers, Sequences

CONSTANTS
    Pages,    \* the page files considered
    Rank,     \* per static name: its place in the order of strings
    Urls      \* the URLs asked for

\* A segment of a pattern, and one of a URL.  "{" is greater than every letter, and so a
\* parameter than every name.
Static(n)    == [name |-> n, dyn |-> FALSE]
Dynamic(n)   == [name |-> n, dyn |-> TRUE]
Segment      == [name : DOMAIN Rank, dyn : BOOLEAN]
Text(t)      == [text |-> t, escaped |-> FALSE, tail |-> FALSE]
Escaped(t)   == [text |-> t, escaped |-> TRUE, tail |-> FALSE]
NoData       == <<>>
NoPage       == [dir |-> <<>>, stem |-> Static("none"), client |-> FALSE, raw |-> FALSE, data |-> NoData]

ASSUME RoutesAssumption ==
    /\ Rank \in [DOMAIN Rank -> Nat] /\ \A m, n \in DOMAIN Rank : Rank[m] = Rank[n] => m = n
    /\ \A f \in Pages : /\ DOMAIN f = {"dir", "stem", "client", "raw", "data"}
                        /\ f.dir \in Seq(Segment) /\ f.stem \in Segment
                        /\ f.client \in BOOLEAN /\ f.raw \in BOOLEAN
    /\ Urls # {}
    /\ \A u \in Urls : /\ u.path \in Seq([text : STRING, escaped : BOOLEAN, tail : {FALSE}])
                       /\ u.query \in BOOLEAN /\ u.slashed \in BOOLEAN

VARIABLES
    tree,  \* the page files of the application
    url    \* the URL asked for

routeVars == <<tree, url>>

-----------------------------------------------------------------------------
(* fsroutes: the table.                                                     *)

\* pattern: the directories and the stem, where "index" adds nothing.
Pattern(f) == f.dir \o (IF f.stem.name = "index" THEN <<>> ELSE <<f.stem>>)

IsStatic(p) == \A i \in DOMAIN p : ~p[i].dyn

SegmentLess(s, t) ==
    \/ ~s.dyn /\ t.dyn
    \/ s.dyn = t.dyn /\ Rank[s.name] < Rank[t.name]

\* Mutant of Before: by the braces, which sort first in the order of ASCII's punctuation.
BracesFirst(p, q) ==
    \E i \in DOMAIN p \cap DOMAIN q : (\A j \in 1..(i - 1) : p[j] = q[j]) /\ SegmentLess(q[i], p[i])

\* The order of two patterns of one length, as strings.
Before(p, q) ==
    \E i \in DOMAIN p \cap DOMAIN q : (\A j \in 1..(i - 1) : p[j] = q[j]) /\ SegmentLess(p[i], q[i])

First(fs) == CHOOSE f \in fs : \A g \in fs \ {f} : Before(Pattern(f), Pattern(g))

-----------------------------------------------------------------------------
(* net/http: what a ServeMux makes of the patterns App.Mux registers.       *)

Covers(p, q) == Len(p) = Len(q) /\ \A i \in DOMAIN p : p[i].dyn \/ p[i] = q[i]
Overlap(p, q) ==
    Len(p) = Len(q) /\ \A i \in DOMAIN p : p[i].dyn \/ q[i].dyn \/ p[i] = q[i]

\* Registration panics over two patterns that overlap while neither is the more specific.
Registers(fs) ==
    \A f, g \in fs : f # g /\ Overlap(Pattern(f), Pattern(g)) =>
        \/ Covers(Pattern(f), Pattern(g)) /\ ~Covers(Pattern(g), Pattern(f))
        \/ Covers(Pattern(g), Pattern(f)) /\ ~Covers(Pattern(f), Pattern(g))

\* The path is decoded, the query is no part of it, and the pattern is registered with a slash
\* behind it as well.
ServerPath(u) == [i \in DOMAIN u.path |-> u.path[i].text]

ServerMatches(f, u) ==
    LET p == Pattern(f)
    IN  Len(p) = Len(u.path) /\ \A i \in DOMAIN p : p[i].dyn \/ p[i].name = ServerPath(u)[i]

Served(u) ==
    LET fs == {f \in tree : ServerMatches(f, u)}
    IN  IF fs = {} THEN NoPage
        ELSE CHOOSE f \in fs : \A g \in fs : Covers(Pattern(g), Pattern(f))

\* App.pathValues.
ServedParams(u) ==
    LET p == Pattern(Served(u))
    IN  [n \in {p[i].name : i \in {j \in DOMAIN p : p[j].dyn}} |->
            Text(ServerPath(u)[CHOOSE i \in DOMAIN p : p[i] = Dynamic(n)])]

-----------------------------------------------------------------------------
(* The browser: a path is what location has of it, still encoded; and what *)
(* navigate is called with has the query at its end, as a part of the last *)
(* segment, or as one more behind a slash.                                 *)

BrowserPath(u) ==
    IF ~u.query THEN u.path
    ELSE IF u.path = <<>> \/ u.slashed
         THEN u.path \o <<[text |-> "", escaped |-> FALSE, tail |-> TRUE]>>
         ELSE [u.path EXCEPT ![Len(u.path)].tail = TRUE]

\* location.pathname, without it.
PathName(u) == u.path

\* router.Route.Match, and patternMatches of app.js.
Matches(p, path) ==
    Len(p) = Len(path) /\ \A i \in DOMAIN p : p[i].dyn \/ Text(p[i].name) = path[i]

\* router.Lookup: a static pattern if one matches, or else the first of the table.
Lookup(path) ==
    LET fs == {f \in tree : Matches(Pattern(f), path)}
        st == {f \in fs : IsStatic(Pattern(f))}
    IN  CASE fs = {} -> NoPage
          [] st # {} -> First(st)
          [] OTHER   -> First(fs)

LookupParams(path) ==
    LET p == Pattern(Lookup(path))
    IN  [n \in {p[i].name : i \in {j \in DOMAIN p : p[j].dyn}} |->
            path[CHOOSE i \in DOMAIN p : p[i] = Dynamic(n)]]

\* router.NeedsWasm and RawRoutes, and what app.js asks of them.
WasmCandidate(path) == \E f \in tree : f.client /\ Matches(Pattern(f), path)
IsRawRoute(path)    == \E f \in tree : f.raw /\ Matches(Pattern(f), path)

\* dataURLFor: PageData's entries in the order of their patterns, and the shared endpoint.
DataURLFor(path) ==
    LET fs == {f \in tree : f.data # NoData /\ Matches(Pattern(f), path)}
    IN  IF fs = {} THEN NoData ELSE First(fs).data

\* navigate, with the wasm loaded: the browser's document, a page of the wasm build's, or the
\* server's fragment.
Way(u) ==
    IF IsRawRoute(PathName(u)) THEN "document"
    ELSE IF WasmCandidate(BrowserPath(u)) /\ Lookup(BrowserPath(u)) # NoPage
            /\ Lookup(BrowserPath(u)).client
         THEN "local" ELSE "fragment"

-----------------------------------------------------------------------------
RoutesTypeOK == tree \subseteq Pages /\ url \in Urls

\* The trees that an application starts with; bound: of three pages at most.
RoutesInit ==
    /\ tree \in {fs \in UNION {{{f}, {f, g}, {f, g, h}} : f, g, h \in Pages} : Registers(fs)}
    /\ url = CHOOSE u \in Urls : TRUE

Visit(u) == url' = u /\ UNCHANGED tree

RoutesNext == \E u \in Urls : Visit(u)

RoutesSpec == RoutesInit /\ [][RoutesNext]_routeVars

-----------------------------------------------------------------------------
(* Properties.                                                              *)

\* The conditions under which the readers of the table agree: patterns of which one URL may be
\* have one name for a parameter in one place; the URL is not encoded, and has no query.
NamesAgree ==
    \A f, g \in tree : Overlap(Pattern(f), Pattern(g)) =>
        \A i \in DOMAIN Pattern(f) :
            Pattern(f)[i].dyn /\ Pattern(g)[i].dyn => Pattern(f)[i] = Pattern(g)[i]
Unescaped == \A i \in DOMAIN url.path : ~url.path[i].escaped

\* Under them the wasm build renders the page that the server would, with the parameters and the
\* data that are the page's own.
BrowserAgrees ==
    NamesAgree /\ Unescaped /\ ~url.query =>
        /\ Lookup(BrowserPath(url)) = Served(url)
        /\ Served(url) # NoPage =>
              /\ LookupParams(BrowserPath(url)) = ServedParams(url)
              /\ Served(url).data # NoData => DataURLFor(BrowserPath(url)) = Served(url).data
              /\ Served(url).client => Way(url) = "local" \/ IsRawRoute(PathName(url))

\* Where no page with a parameter is the wasm build's, what it renders is what the server would,
\* whatever the URL.
StaticPagesAgree ==
    (\A f \in tree : f.client => IsStatic(Pattern(f))) /\ Way(url) = "local" =>
        Lookup(BrowserPath(url)) = Served(url)

\* A page that is a document of its own is never swapped into another's, with a query or a slash.
RawPagesStayWhole ==
    Unescaped /\ Served(url) # NoPage => (Served(url).raw => Way(url) = "document")

RoutesAgree == BrowserAgrees /\ StaticPagesAgree /\ RawPagesStayWhole
=============================================================================
