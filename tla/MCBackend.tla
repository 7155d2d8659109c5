------------------------------- MODULE MCBackend -------------------------------
(***************************************************************************)
(* Nine specifications that share no state, each on an instance of its     *)
(* own: a behaviour is one of a single part, chosen at the start.          *)
(***************************************************************************)
EXTENDS IdClock, PathWrites, Filters, LRU, RateLimit, ResponseCache, Endpoints, Routes,
        StaticFiles, TLC

CONSTANTS
    Parts,                    \* the parts that are run
    k1, k2, k3,      \* keys of a rate limit
    c1, c2, c3, c4   \* requests, calls, loads and servers

VARIABLE part

-----------------------------------------------------------------------------
\* A field and a sub-document with two levels, and one field that only the new release has.
MCPaths    == {<<"m">>, <<"m", "x">>, <<"m", "x", "u">>, <<"m", "y">>, <<"o">>}
MCDeclared == ("w1" :> {"m"}) @@ ("w2" :> {"m", "o"})

\* One field of each type, and any of them promoted.
MCTypeOf  == ("n" :> "num") @@ ("b" :> "bool") @@ ("t" :> "text")
MCIndexed == SUBSET Fields

\* A burst of two; a token in two ticks, and in one.
MCQuota == (k1 :> [requests |-> 2, window |-> 3, burst |-> 2])
        @@ (k2 :> [requests |-> 1, window |-> 2, burst |-> 1])
        @@ (k3 :> [requests |-> 1, window |-> 1, burst |-> 1])

\* An endpoint for some callers, which keeps its answers, and one for all, which is limited too.
MCEndpoint ==
    ("mine" :> [roles |-> TRUE, permissions |-> TRUE, cached |-> TRUE, limited |-> FALSE,
                field |-> "optional", method |-> "GET"])
 @@ ("open" :> [roles |-> FALSE, permissions |-> FALSE, cached |-> TRUE, limited |-> TRUE,
                field |-> "text", method |-> "GET"])
MCUserOf == "s1" :> "u1"

\* Files two directories deep, static and dynamic, of each kind; URLs that match and do not.
MCPage(d, s, k) ==
    [dir |-> d, stem |-> s, client |-> k \in {"client", "data"}, raw |-> k = "raw",
     data |-> IF k = "data" THEN <<d, s>> ELSE NoData]
MCPages ==
    {MCPage(d, s, k) : d \in {<<>>, <<Static("s")>>, <<Dynamic("a")>>, <<Dynamic("b")>>},
                       s \in {Static("s"), Dynamic("c"), Static("index")},
                       k \in {"raw", "data", "server"}}
MCRank == ("index" :> 0) @@ ("s" :> 1) @@ ("a" :> 2) @@ ("b" :> 3) @@ ("c" :> 4)
MCTexts == {Text("s"), Text("u"), Escaped("u")}
MCUrls ==
    {u \in [path : {<<>>, <<Text("u"), Text("s")>>} \cup {<<x>> : x \in MCTexts}
                     \cup {<<Text("s"), x>> : x \in MCTexts},
            query : BOOLEAN, slashed : BOOLEAN] : ~(u.query /\ u.slashed)}

\* Two contents of one length.
MCHashOf == ("x" :> "hx") @@ ("y" :> "hy")
MCSizeOf == ("x" :> 1) @@ ("y" :> 1)

\* What is only compared, and no property tells from another: c1 and c2 are requests, calls and
\* loads at once, as no two parts run together; c3 and c4 are two more requests, and servers.
MCSymmetry == Permutations({c1, c2}) \cup Permutations({c3, c4})

-----------------------------------------------------------------------------
httpVars == <<rateVars, responseVars, endpointVars, routeVars, staticVars>>
dataVars == <<idVars, pathVars, filterVars, lruVars>>

\* A part that is not run is in one state.
BackendInit ==
    /\ part \in Parts
    /\ IdInit /\ LruInit /\ RateInit /\ ResponseInit
    /\ PathInit /\ (part # "paths" => doc = [p \in {} |-> Null] /\ engine = CHOOSE e \in Engines : TRUE)
    /\ FilterInit /\ (part # "filters" => promoted = {} /\ collation = [n \in Ranks |-> n])
    /\ EndpointsInit /\ (part # "endpoints" => ~config.identity /\ config.authorize /\ config.permit)
    /\ StaticInit /\ (part # "files" => reload /\ \A s \in Servers : file[s].bytes = "x")
    /\ IF part = "routes" THEN RoutesInit ELSE tree = {} /\ url = CHOOSE u \in Urls : TRUE

BackendNext ==
    /\ UNCHANGED part
    /\ \/ /\ part \in {"ids", "paths", "filters", "lru"} /\ UNCHANGED httpVars
          /\ \/ part = "ids" /\ IdNext /\ UNCHANGED <<pathVars, filterVars, lruVars>>
             \/ part = "paths" /\ PathNext /\ UNCHANGED <<idVars, filterVars, lruVars>>
             \/ part = "filters" /\ FilterNext /\ UNCHANGED <<idVars, pathVars, lruVars>>
             \/ part = "lru" /\ LruNext /\ UNCHANGED <<idVars, pathVars, filterVars>>
       \/ /\ part \in {"rate", "responses", "endpoints", "routes", "files"} /\ UNCHANGED dataVars
          /\ \/ /\ part = "rate" /\ RateNext
                /\ UNCHANGED <<responseVars, endpointVars, routeVars, staticVars>>
             \/ /\ part = "responses" /\ ResponseNext
                /\ UNCHANGED <<rateVars, endpointVars, routeVars, staticVars>>
             \/ /\ part = "endpoints" /\ EndpointsNext
                /\ UNCHANGED <<rateVars, responseVars, routeVars, staticVars>>
             \/ /\ part = "routes" /\ RoutesNext
                /\ UNCHANGED <<rateVars, responseVars, endpointVars, staticVars>>
             \/ /\ part = "files" /\ StaticNext
                /\ UNCHANGED <<rateVars, responseVars, endpointVars, routeVars>>

BackendSpec == BackendInit /\ [][BackendNext]_<<part, dataVars, httpVars>>

\* Every variable of every part has its type: what is stored is a document, an lru's map and
\* list agree, a bucket holds no more than its burst, the gzip of a file is made once.
BackendTypeOK ==
    /\ IdTypeOK /\ PathTypeOK /\ FilterTypeOK /\ LruTypeOK
    /\ RateTypeOK /\ ResponseTypeOK /\ EndpointsTypeOK /\ RoutesTypeOK /\ StaticTypeOK
=============================================================================
