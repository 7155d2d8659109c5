------------------------------ MODULE LossyStore ------------------------------
(***************************************************************************)
(* What core/cache/cache.go asks of a Store: a key has what was last set   *)
(* for it, until that expires, is deleted, or is lost: a store may forget  *)
(* anything at any time, and a Set may fail without a word.                *)
(***************************************************************************)
EXTENDS Integers

CONSTANTS Keys, Values, TTL

VARIABLES
    now,   \* the clock
    held,  \* per key it has: the value, and when it expires
    answer \* what the last Get returned: the key, and a set of at most one value

storeVars == <<now, held, answer>>

Entry == [value : Values, expires : Int]

Nothing == [key |-> {}, got |-> {}]

StoreInit == now = 0 /\ held = [k \in {} |-> 0] /\ answer = Nothing

\* What is left of the entries.
Forgets(h) ==
    /\ DOMAIN held' \subseteq DOMAIN h
    /\ \A k \in DOMAIN held' : held'[k] = h[k]

Passes == now' > now /\ answer' = Nothing /\ Forgets(held)

Put(k, v) ==
    /\ Forgets([j \in DOMAIN held \cup {k} |->
                   IF j = k THEN [value |-> v, expires |-> now + TTL] ELSE held[j]])
    /\ answer' = Nothing
    /\ UNCHANGED now

Fetch(k) ==
    /\ Forgets(held)
    /\ answer'.key = {k}
    /\ answer'.got \subseteq {held[j].value : j \in DOMAIN held \cap {k}}
    /\ \A j \in DOMAIN held \cap {k} : held[j].expires < now => answer'.got = {}
    /\ UNCHANGED now

Delete(k) ==
    /\ Forgets([j \in DOMAIN held \ {k} |-> held[j]])
    /\ answer' = Nothing
    /\ UNCHANGED now

StoreNext ==
    \/ Passes
    \/ \E k \in Keys : Fetch(k) \/ Delete(k) \/ \E v \in Values : Put(k, v)

StoreSpec == StoreInit /\ [][StoreNext]_storeVars
=============================================================================
