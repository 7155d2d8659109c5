------------------------- MODULE MCCachedCollection -------------------------
(* The instance of CachedCollection that TLC checks: in two parts, of which *)
(* a behaviour is one, as both at once are too many states.                 *)
EXTENDS CachedCollection, TLC

CONSTANTS r1, r2, c1, c2, w1, w2, s1, s2

VARIABLE part

\* A writer on each replica; the two readers share a replica, and so can share
\* a query, or sit on one each, and so can share only entries.
MCHomes == {[c \in Calls |-> CASE c = c2 -> r [] c = w2 -> r2 [] OTHER -> r1] : r \in {r1, r2}}

\* Two readers of one slot, and nothing restarts.
Reads ==
    /\ UNCHANGED life
    /\ \A c \in Readers : call'[c].want \subseteq {s1}

\* One reader, of two slots, and a restart of each replica.
Restarts == UNCHANGED call[c2]

CachedInit ==
    /\ Init
    /\ \/ part = "reads" /\ adapter # "plain"
       \/ part = "restarts" /\ adapter # "process" /\ home[c2] = r1

CachedNext ==
    /\ Next /\ UNCHANGED part
    /\ part = "reads" => Reads
    /\ part = "restarts" => Restarts

CachedSpec == CachedInit /\ [][CachedNext]_<<part, vars>>
=============================================================================
