---------------------------------- MODULE LRU ----------------------------------
(***************************************************************************)
(* core/cache/cache.go: the in-process store, a map over a list in the     *)
(* order of use.  Every operation is one critical section.                 *)
(***************************************************************************)
EXTENDS UseOrder, FiniteSets

CONSTANTS
    Names,    \* the keys
    Values,
    Capacity, \* how many entries the lru holds
    TTL,      \* how long one is served
    LastTick  \* bound: the ticks of the clock

ASSUME LruAssumption ==
    /\ Capacity \in Nat \ {0} /\ TTL \in Nat /\ LastTick \in Nat

VARIABLES
    now,     \* the clock
    index,   \* lru.index, and the entries: per key its value, and when it expires
    order,   \* lru.order: the keys, the last used first
    answer,  \* what the last Get returned
    recent,  \* history: every key ever used, the last used first
    wanted   \* history: the keys set since, and neither deleted nor found expired

lruVars == <<now, index, order, answer, recent, wanted>>

Store == INSTANCE LossyStore WITH Keys <- Names, held <- index

Nothing == [key |-> {}, got |-> {}]

\* Every variable has its type.  The map and the list have the same keys, each once, and
\* no more than Capacity.
LruTypeOK ==
    /\ now \in 0..LastTick
    /\ index \in [DOMAIN index -> [value : Values, expires : Nat]]
    /\ order \in Seq(Names) /\ Once(order) /\ Len(order) <= Capacity
    /\ Listed(order) = DOMAIN index
    /\ wanted \subseteq Names

LruInit ==
    /\ now = 0
    /\ index = [k \in {} |-> 0]
    /\ order = <<>>
    /\ answer = Nothing
    /\ recent = <<>>
    /\ wanted = {}

-----------------------------------------------------------------------------
Shrunk(h, ks) == [k \in DOMAIN h \ ks |-> h[k]]

LruTick ==
    /\ now < LastTick
    /\ now' = now + 1
    /\ answer' = Nothing
    /\ UNCHANGED <<index, order, recent, wanted>>

\* Mutant of Get: an entry is served whenever it is there.
GetForever(k) ==
    /\ k \in DOMAIN index
    /\ answer' = [key |-> {k}, got |-> {index[k].value}]
    /\ order' = ToFront(k, order)
    /\ recent' = ToFront(k, recent)
    /\ UNCHANGED <<now, index, wanted>>

\* A hit is a use; an entry found expired is dropped.
Get(k) ==
    \/ /\ k \notin DOMAIN index
       /\ answer' = [key |-> {k}, got |-> {}]
       /\ UNCHANGED <<now, index, order, recent, wanted>>
    \/ /\ k \in DOMAIN index
       /\ now > index[k].expires
       /\ answer' = [key |-> {k}, got |-> {}]
       /\ index' = Shrunk(index, {k})
       /\ order' = Without(k, order)
       /\ wanted' = wanted \ {k}
       /\ UNCHANGED <<now, recent>>
    \/ /\ k \in DOMAIN index
       /\ now <= index[k].expires
       /\ answer' = [key |-> {k}, got |-> {index[k].value}]
       /\ order' = ToFront(k, order)
       /\ recent' = ToFront(k, recent)
       /\ UNCHANGED <<now, index, wanted>>

\* Mutant of SetOld: overwriting is no use.
SetOldInPlace(k, v) ==
    /\ k \in DOMAIN index
    /\ index' = [index EXCEPT ![k] = [value |-> v, expires |-> now + TTL]]
    /\ recent' = ToFront(k, recent)
    /\ wanted' = wanted \cup {k}
    /\ answer' = Nothing
    /\ UNCHANGED <<now, order>>

\* Set, of a key that has an entry.
SetOld(k, v) ==
    /\ k \in DOMAIN index
    /\ index' = [index EXCEPT ![k] = [value |-> v, expires |-> now + TTL]]
    /\ order' = ToFront(k, order)
    /\ recent' = ToFront(k, recent)
    /\ wanted' = wanted \cup {k}
    /\ answer' = Nothing
    /\ UNCHANGED now

\* Mutant of SetNew: what is evicted stays in the map.
SetNewKeepingIndex(k, v) ==
    /\ k \notin DOMAIN index
    /\ index' = [j \in DOMAIN index \cup {k} |->
                    IF j = k THEN [value |-> v, expires |-> now + TTL] ELSE index[j]]
    /\ order' = SubSeq(<<k>> \o order, 1, IF Len(order) < Capacity THEN Len(order) + 1 ELSE Capacity)
    /\ recent' = ToFront(k, recent)
    /\ wanted' = wanted \cup {k}
    /\ answer' = Nothing
    /\ UNCHANGED now

\* Of one that has not: the least recently used go.
SetNew(k, v) ==
    LET grown == <<k>> \o order
        kept  == SubSeq(grown, 1, IF Len(grown) <= Capacity THEN Len(grown) ELSE Capacity)
    IN /\ k \notin DOMAIN index
       /\ order' = kept
       /\ index' = [j \in Listed(kept) |->
                       IF j = k THEN [value |-> v, expires |-> now + TTL] ELSE index[j]]
       /\ recent' = ToFront(k, recent)
       /\ wanted' = wanted \cup {k}
       /\ answer' = Nothing
       /\ UNCHANGED now

Del(k) ==
    /\ index' = Shrunk(index, {k})
    /\ order' = Without(k, order)
    /\ wanted' = wanted \ {k}
    /\ answer' = Nothing
    /\ UNCHANGED <<now, recent>>

LruNext ==
    \/ LruTick
    \/ \E k \in Names : Get(k) \/ Del(k) \/ \E v \in Values : SetOld(k, v) \/ SetNew(k, v)

LruSpec == LruInit /\ [][LruNext]_lruVars

-----------------------------------------------------------------------------
\* "Evicting the least recently used" (NewLRU): a key is gone without being deleted or
\* expired only if Capacity others were used after it.
RecentlyUsedStay ==
    \A k \in wanted \ DOMAIN index :
        Cardinality({recent[i] : i \in 1..Place(k, recent) - 1}) >= Capacity

\* The lru is a store: what it returns was set last for the key, and has not expired.
LruIsAStore == Store!StoreSpec
=============================================================================
