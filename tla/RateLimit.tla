------------------------------- MODULE RateLimit -------------------------------
(***************************************************************************)
(* core/mw/ratelimit.go: a token bucket per key, in a table of a fixed     *)
(* size kept in the order of last use.                                     *)
(*                                                                         *)
(* A request reads the clock, then takes the lock: requests may take it in *)
(* another order than that of the times they hold.  The tokens of a bucket *)
(* are counted in units of which Quota[k].window make a token and          *)
(* Quota[k].requests come in at each tick, so that nothing is rounded: the *)
(* floats of the code are exact here.                                      *)
(***************************************************************************)
EXTENDS UseOrder, FiniteSets

CONSTANTS
    Callers,  \* the requests, each made once
    Keys,     \* what RateLimit.Key makes of them
    NoKey,    \* the key "", of a request that is not counted
    Quota,    \* per key, the Rate it is limited to: requests, window, burst
    Max,      \* how many buckets the table holds
    Scan,     \* how many candidates evict looks at (8 in the code)
    Second,   \* the ticks of a second: in the code a tick is a nanosecond
    MaxTime   \* bound: the ticks of the clock

ASSUME RateAssumption ==
    /\ NoKey \notin Keys
    /\ Quota \in [Keys -> [requests : Nat \ {0}, window : Nat \ {0}, burst : Nat \ {0}]]
    /\ Max \in Nat \ {0} /\ Scan \in Nat \ {0}
    /\ Second \in Nat \ {0} /\ MaxTime \in Nat

VARIABLES
    clock,    \* the monotonic clock
    buckets,  \* limiter.index: the keys in the table, and the bucket of each
    turns,    \* limiter.order: the keys, the last used first
    caller,   \* per request: where it is, and what it was told
    admitted, \* history: per key, the requests let through since its bucket was made
    windows   \* history: per key, the time of each Take since then, and admitted before it

rateVars == <<clock, buckets, turns, caller, admitted, windows>>

Full(k) == Quota[k].burst * Quota[k].window

Bucket == [n : Int, last : Nat]  \* a bucket may be overdrawn: see Refilled

Caller == [at     : {"idle", "timed", "done"},
           key    : Keys \cup {NoKey},
           now    : Nat,
           ok     : BOOLEAN,     \* Decision.OK
           retry  : Nat,         \* Decision.Retry, in ticks
           before : Nat]         \* history: admitted, before it

NewCaller == [at |-> "idle", key |-> NoKey, now |-> 0, ok |-> FALSE, retry |-> 0, before |-> 0]

\* Every variable has its type.  The table holds Max buckets at most, the list has
\* the keys of the map, each once, and no bucket holds more than its burst.
RateTypeOK ==
    /\ clock \in 0..MaxTime
    /\ DOMAIN buckets \subseteq Keys
    /\ \A k \in DOMAIN buckets : buckets[k] \in Bucket /\ buckets[k].n <= Full(k)
    /\ turns \in Seq(Keys) /\ Once(turns) /\ Len(turns) <= Max
    /\ Listed(turns) = DOMAIN buckets
    /\ caller \in [Callers -> Caller]
    /\ admitted \in [Keys -> Nat]
    /\ windows \in [Keys -> SUBSET [now : Nat, before : Nat]]

RateInit ==
    /\ clock = 0
    /\ buckets = [k \in {} |-> 0]
    /\ turns = <<>>
    /\ caller = [c \in Callers |-> NewCaller]
    /\ admitted = [k \in Keys |-> 0]
    /\ windows = [k \in Keys |-> {}]

-----------------------------------------------------------------------------
Least(a, b) == IF a < b THEN a ELSE b

\* Mutant of Refilled: a bucket left alone fills without end.
RefilledWithoutEnd(k, now) ==
    buckets[k].n + (now - buckets[k].last) * Quota[k].requests

\* What a bucket holds at a time.  The time may be before that of its last Take: then
\* tokens are taken back.
Refilled(k, now) ==
    Least(Full(k), buckets[k].n + (now - buckets[k].last) * Quota[k].requests)

\* A bucket without a whole token refuses.
Refuses(k, now) == Refilled(k, now) < Quota[k].window

\* The buckets evict looks at, by their place in the list: the last Scan.
Candidates == {i \in 1..Len(turns) : i > Len(turns) - Scan}

\* Mutant of Victim: the tokens as of the last Take are looked at, not those of now.
StaleVictim(now) ==
    LET sparing == {i \in Candidates : buckets[turns[i]].n >= Quota[turns[i]].window}
    IN IF sparing = {} THEN turns[Len(turns)]
       ELSE turns[CHOOSE i \in sparing : \A j \in sparing : j <= i]

\* The bucket that makes room: the oldest candidate that does not refuse, or else the
\* oldest of all.
Victim(now) ==
    LET sparing == {i \in Candidates : ~Refuses(turns[i], now)}
    IN IF sparing = {} THEN turns[Len(turns)]
       ELSE turns[CHOOSE i \in sparing : \A j \in sparing : j <= i]

\* The buckets that go to make room for one more.
Evicted(now) == IF Cardinality(DOMAIN buckets) >= Max THEN {Victim(now)} ELSE {}

\* Mutant of Owed: what the bucket holds is not looked at.
OwedFromEmpty(k, n) == Quota[k].window \div Quota[k].requests

\* The ticks until a bucket of n has a token.  A Duration cuts off what is left of a tick.
Owed(k, n) == (Quota[k].window - n) \div Quota[k].requests

\* The seconds of the header: rounded up, and never zero.
RetryAfter(ticks) == IF ticks = 0 THEN 1 ELSE (ticks + Second - 1) \div Second

-----------------------------------------------------------------------------
RateTick ==
    /\ clock < MaxTime
    /\ \E t \in clock + 1 .. MaxTime : clock' = t
    /\ UNCHANGED <<buckets, turns, caller, admitted, windows>>

\* A request comes, and reads the clock.
RateArrive(c, k) ==
    /\ caller[c].at = "idle"
    /\ caller' = [caller EXCEPT ![c].at = "timed", ![c].key = k, ![c].now = clock]
    /\ UNCHANGED <<clock, buckets, turns, admitted, windows>>

\* One the key function excuses goes to the handler uncounted.
RateExcuse(c) ==
    /\ caller[c].at = "idle"
    /\ caller' = [caller EXCEPT ![c].at = "done", ![c].ok = TRUE]
    /\ UNCHANGED <<clock, buckets, turns, admitted, windows>>

\* The critical section's end: the buckets that are gone make room, the bucket of k holds n
\* at the request's time, a token of it is let go if it has one, and the request is told.
Decide(c, k, n, had, gone, opened) ==
    LET now == caller[c].now
        ok  == n >= Quota[k].window
        n2  == IF ok THEN n - Quota[k].window ELSE n
    IN /\ buckets' = [j \in (DOMAIN buckets \ gone) \cup {k} |->
                         IF j = k THEN [n |-> n2, last |-> now] ELSE buckets[j]]
       /\ caller' = [caller EXCEPT ![c].at = "done", ![c].ok = ok, ![c].before = had,
                                   ![c].retry = IF ok THEN 0 ELSE Owed(k, n2)]
       /\ admitted' = [admitted EXCEPT ![k] = IF ok THEN had + 1 ELSE had]
       /\ windows' = [windows EXCEPT ![k] = opened \cup {[now |-> now, before |-> had]}]
       /\ UNCHANGED clock

\* Take, of a key that has a bucket.
TakeKnown(c) ==
    LET k == caller[c].key
    IN /\ caller[c].at = "timed"
       /\ k \in DOMAIN buckets
       /\ turns' = ToFront(k, turns)
       /\ Decide(c, k, Refilled(k, caller[c].now), admitted[k], {}, windows[k])

\* Take, of one that has not: room is made first, and the bucket comes full.
TakeNew(c) ==
    LET k    == caller[c].key
        gone == Evicted(caller[c].now)
    IN /\ caller[c].at = "timed"
       /\ k \notin DOMAIN buckets
       /\ turns' = <<k>> \o (IF gone = {} THEN turns ELSE Without(Victim(caller[c].now), turns))
       /\ Decide(c, k, Full(k), 0, gone, {})

RateNext ==
    \/ RateTick
    \/ \E c \in Callers :
          \/ \E k \in Keys : RateArrive(c, k)
          \/ RateExcuse(c)
          \/ TakeKnown(c)
          \/ TakeNew(c)

RateSpec == RateInit /\ [][RateNext]_rateVars

-----------------------------------------------------------------------------
\* However the requests of a key reach the lock, from any of them until now no more
\* are let through than the burst and what has come in since (Take; a bucket that was
\* evicted counts afresh, as evict's comment says).
AdmittedWithinRate ==
    \A k \in DOMAIN buckets : \A w \in windows[k] :
        Quota[k].window * (admitted[k] - w.before)
            <= Full(k) + Quota[k].requests * (clock - w.now)

\* Only another's first request takes a bucket away, when the table is full; and one
\* that is refusing goes only when all the candidates are (evict).
EvictionSparesTheRefused ==
    [][\A k \in DOMAIN buckets \ DOMAIN buckets' :
          /\ Cardinality(DOMAIN buckets) = Max
          /\ \E c \in Callers :
                /\ caller[c].at = "timed" /\ caller'[c].at = "done"
                /\ caller[c].key \in DOMAIN buckets' \ DOMAIN buckets
                /\ Refuses(k, caller[c].now)
                       => \A i \in Candidates : Refuses(turns[i], caller[c].now)]_rateVars

\* The key of a request refuses, so many ticks after the request read the clock.
RefusesAfter(c, ticks) == Refuses(caller[c].key, caller[c].now + ticks)

\* The wait a request was told is short by less than a tick, and not too long by one; and
\* the header's makes up for it unless the wait is a whole number of seconds.
WaitIsClose(c) ==
    LET retry == caller[c].retry
        told  == Second * RetryAfter(retry)
    IN /\ ~RefusesAfter(c, retry + 1)
       /\ retry > 0 => RefusesAfter(c, retry - 1)
       /\ told # retry => ~RefusesAfter(c, told)

\* A caller that is refused and alone on its key is let through a tick after the wait it is
\* told is over, and refused until a tick before: "how long until one token exists"
\* (Decision.Retry) falls short by what a Duration cuts off, and by no more.
RetryIsEnough ==
    [][\A c \in Callers :
          caller[c].at = "timed" /\ caller'[c].at = "done" /\ ~caller'[c].ok
              => WaitIsClose(c)']_rateVars
=============================================================================
