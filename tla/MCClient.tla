-------------------------------- MODULE MCClient --------------------------------
(***************************************************************************)
(* The specifications of what runs in the browser, and of the development  *)
(* server it listens to.  They share no state: a behaviour is one of a     *)
(* single part, chosen at the start.                                       *)
(***************************************************************************)
EXTENDS OptimisticStore, Navigation, Signals, DevServer, Morph, Lifecycle, TLC

CONSTANTS
    Parts,           \* the parts that are run
    home, styled, local, raw,  \* pages
    a, b, c, d,                \* signals
    t1, t2                     \* tabs

VARIABLE part

-----------------------------------------------------------------------------
\* The page with a stylesheet is behind a guard.
MCGuards == [u \in Urls |-> IF u = styled THEN {home, raw} ELSE {}]

\* A deployment without view transitions; and writes, with links of both kinds.
MCWorlds == {[deploys |-> {2}, animated |-> {FALSE}], [deploys |-> {}, animated |-> BOOLEAN]}

\* A diamond: two derived values, one read under a condition and from the other; an effect
\* that reads them and stops another and itself; one whose input stands idle.
MCPrograms == <<
    [first |-> a, zero |-> {b}, one |-> {}, out |-> c, stops |-> {}],
    [first |-> a, zero |-> {c}, one |-> {c, b}, out |-> d, stops |-> {}],
    [first |-> c, zero |-> {a, d}, one |-> {d}, out |-> NoSignal, stops |-> {2, 4}],
    [first |-> d, zero |-> {c}, one |-> {b}, out |-> NoSignal, stops |-> {}] >>

\* A field with a key, which says one thing or the other, and a row; a field and a text without.
MCMarks == {[key |-> "k1", kind |-> "field", says |-> "x"], [key |-> "k1", kind |-> "field", says |-> "y"],
            [key |-> "k2", kind |-> "row", says |-> "x"],
            [key |-> "none", kind |-> "field", says |-> "x"], [key |-> "none", kind |-> "text", says |-> "y"]}

\* A page that listens and runs per frame, one that listens and fetches, and one without a hook.
MCMakes == [r \in Routes |-> CASE r = "list" -> {"listener", "frame"}
                                [] r = "edit" -> {"listener", "fetch"}
                                [] OTHER      -> {}]
MCIslands == [r \in Routes |-> IF r = "list" THEN {"clock"} ELSE {}]

\* What is derived is made after what it is derived from.
ASSUME MCForward == Forward

-----------------------------------------------------------------------------
\* The world of a part that is not run is any one of them.
ClientInit ==
    /\ part \in Parts
    /\ SyncInit /\ NavInit /\ SignalInit /\ DevInit /\ MorphInit /\ PageInit
    /\ part # "navigation" => world = CHOOSE w \in Worlds : TRUE
    /\ part # "morph" => animate
    /\ part # "page" => here = CHOOSE r \in Firsts : TRUE

ClientNext ==
    /\ UNCHANGED part
    /\ \/ part = "sync" /\ SyncNext /\ UNCHANGED <<navVars, signalVars, devVars, morphVars, pageVars>>
       \/ part = "navigation" /\ NavNext /\ UNCHANGED <<syncVars, signalVars, devVars, morphVars, pageVars>>
       \/ part = "signals" /\ SignalNext /\ UNCHANGED <<syncVars, navVars, devVars, morphVars, pageVars>>
       \/ part = "dev" /\ DevNext /\ UNCHANGED <<syncVars, navVars, signalVars, morphVars, pageVars>>
       \/ part = "morph" /\ MorphNext /\ UNCHANGED <<syncVars, navVars, signalVars, devVars, pageVars>>
       \/ part = "page" /\ PageNext /\ UNCHANGED <<syncVars, navVars, signalVars, devVars, morphVars>>

ClientSpec ==
    ClientInit /\ [][ClientNext]_<<part, syncVars, navVars, signalVars, devVars, morphVars, pageVars>>

\* Every variable of every part has its type.
ClientTypeOK == SyncTypeOK /\ NavTypeOK /\ SignalTypeOK /\ DevTypeOK /\ MorphTypeOK /\ PageTypeOK
=============================================================================
