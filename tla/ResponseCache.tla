----------------------------- MODULE ResponseCache -----------------------------
(***************************************************************************)
(* core/mw/cache.go: successful GET responses, kept for a TTL in a Store   *)
(* (LossyStore says what that is) and replayed without running the         *)
(* handler.  The wrapper records what the handler writes while it goes     *)
(* through to the client: the header with its cookies at the first         *)
(* WriteHeader, the body chunk by chunk, up to MaxBody.                    *)
(***************************************************************************)
EXTENDS Integers

CONSTANTS
    Requests,   \* the requests, each made once
    Entries,    \* the keys of the store: what storeKey makes of a request
    Declined,   \* no key: not a GET, or one Key names ""
    NoRun,      \* no run of the handler
    MaxBody,    \* how many chunks are kept
    MaxChunks,  \* bound: the chunks a handler writes
    ServedFor,  \* TTL
    Horizon     \* bound: the ticks of the clock

ASSUME ResponseAssumption ==
    /\ Declined \notin Entries /\ NoRun \notin Requests
    /\ MaxBody \in Nat /\ MaxChunks \in Nat /\ ServedFor \in Nat \ {0} /\ Horizon \in Nat

\* A status the handler writes: the one that is kept, another, and an informational one,
\* which net/http sends and then waits for the response's own.
Codes == {200, 404, 103}
NoCode == 0

VARIABLES
    time,     \* the clock
    stored,   \* per key: the run that made the entry, and when it expires
    request   \* per request: where it is, its run, and what its client has

responseVars == <<time, stored, request>>

NoEntry == [by |-> NoRun, expires |-> 0]

Request == [
    at      : {"new", "lookup", "run", "own", "store", "done"},
    key     : Entries \cup {Declined},
    \* the run
    cookie  : BOOLEAN,                 \* the header map has a Set-Cookie
    meant   : Codes \cup {NoCode},     \* history: the status the handler answers with
    written : 0..MaxChunks,            \* the chunks it wrote
    ended   : {"no", "returned", "panicked"},
    \* the recorder
    wrote   : BOOLEAN, status : Codes \cup {NoCode}, gave : BOOLEAN,
    body    : 0..MaxChunks, skip : BOOLEAN,
    kept    : Int,                     \* history: when it was stored
    \* the client
    seen    : Codes \cup {NoCode},     \* the status it got
    hit     : Requests \cup {NoRun},   \* the run its response is of, if replayed
    hitAt   : Int]

NewRequest == [
    at |-> "new", key |-> Declined, cookie |-> FALSE, meant |-> NoCode, written |-> 0,
    ended |-> "no", wrote |-> FALSE, status |-> NoCode, gave |-> FALSE, body |-> 0,
    skip |-> FALSE, kept |-> 0, seen |-> NoCode, hit |-> NoRun, hitAt |-> 0]

\* Every variable has its type.  No recorder holds more than MaxBody.
ResponseTypeOK ==
    /\ time \in 0..Horizon
    /\ stored \in [Entries -> [by : Requests \cup {NoRun}, expires : Nat]]
    /\ request \in [Requests -> Request]
    /\ \A r \in Requests : request[r].body <= MaxBody

ResponseInit ==
    /\ time = 0
    /\ stored = [k \in Entries |-> NoEntry]
    /\ request = [r \in Requests |-> NewRequest]

-----------------------------------------------------------------------------
Becomes(r, q) == request' = [request EXCEPT ![r] = q]

TimePasses ==
    /\ time < Horizon
    /\ time' = time + 1
    /\ UNCHANGED <<stored, request>>

\* The store loses an entry: evicted, deleted, or a write of it that failed.
StoreLoses(k) ==
    /\ stored[k] # NoEntry
    /\ stored' = [stored EXCEPT ![k] = NoEntry]
    /\ UNCHANGED <<time, request>>

\* A request comes; one that is declined goes to the handler as it is.
Comes(r, k) ==
    /\ request[r].at = "new"
    /\ Becomes(r, [NewRequest EXCEPT !.key = k, !.at = IF k = Declined THEN "own" ELSE "lookup"])
    /\ UNCHANGED <<time, stored>>

\* Mutant of Serves: an entry is served for as long as it is there.
ServesForever(k) == stored[k] # NoEntry

\* What Store.Get says of a key.
Serves(k) == stored[k] # NoEntry /\ time <= stored[k].expires

Hit(r) ==
    /\ request[r].at = "lookup"
    /\ Serves(request[r].key)
    /\ Becomes(r, [request[r] EXCEPT !.at = "done", !.seen = 200, !.hitAt = time,
                                     !.hit = stored[request[r].key].by])
    /\ UNCHANGED <<time, stored>>

\* Nothing, or an entry replayStored cannot read.
Miss(r) ==
    /\ request[r].at = "lookup"
    /\ Becomes(r, [request[r] EXCEPT !.at = "run"])
    /\ UNCHANGED <<time, stored>>

-----------------------------------------------------------------------------
(* The run of the handler, through the recorder or on its own.              *)

Running(r) == request[r].at \in {"run", "own"}

\* What net/http does with a status: the first that is not informational is the answer.
Sent(q, code) == IF q.seen = NoCode /\ code >= 200 THEN [q EXCEPT !.seen = code] ELSE q

\* capture.WriteHeader.
Recorded(q, code) ==
    IF q.wrote THEN q
    ELSE Sent([q EXCEPT !.wrote = TRUE, !.status = code, !.gave = q.cookie], code)

\* A WriteHeader of the handler, or the one a Write or a Flush implies.
Headed(q, code) ==
    LET p == IF q.meant = NoCode /\ code >= 200 THEN [q EXCEPT !.meant = code] ELSE q
    IN IF q.at = "run" THEN Recorded(p, code) ELSE Sent(p, code)

SetsCookie(r) ==
    /\ Running(r)
    /\ Becomes(r, [request[r] EXCEPT !.cookie = TRUE])
    /\ UNCHANGED <<time, stored>>

WritesHeader(r, code) ==
    /\ Running(r)
    /\ Becomes(r, Headed(request[r], code))
    /\ UNCHANGED <<time, stored>>

\* Mutant of Copied: what does not fit is dropped, and the rest kept.
CopiedPart(q) == IF q.skip \/ q.body + 1 > MaxBody THEN q ELSE [q EXCEPT !.body = @ + 1]

\* The recorder's copy of a chunk.
Copied(q) ==
    IF q.skip THEN q
    ELSE IF q.body + 1 > MaxBody THEN [q EXCEPT !.skip = TRUE, !.body = 0]
    ELSE [q EXCEPT !.body = @ + 1]

\* capture.Write, and net/http's under it, each of which may have to write a header first.
Writes(r) ==
    LET q == [Headed(request[r], 200) EXCEPT !.written = @ + 1]
    IN /\ Running(r)
       /\ request[r].written < MaxChunks
       /\ Becomes(r, Sent(IF q.at = "run" THEN Copied(q) ELSE q, 200))
       /\ UNCHANGED <<time, stored>>

\* capture.Flush.
Flushes(r) ==
    LET q == Headed(request[r], 200)
    IN /\ Running(r)
       /\ Becomes(r, Sent(IF q.at = "run" THEN [q EXCEPT !.skip = TRUE] ELSE q, 200))
       /\ UNCHANGED <<time, stored>>

\* Mutant of Kept: a cookie is no reason not to.
KeptWithCookie(q) == q.wrote /\ q.status = 200 /\ ~q.skip

\* A response that is stored: a 200 that set no cookie, did not flush, and fits.
Kept(q) == q.wrote /\ q.status = 200 /\ ~q.gave /\ ~q.skip

\* The handler returns; one that wrote nothing is a 200 of net/http's.
Returns(r) ==
    LET q == [request[r] EXCEPT !.ended = "returned",
                                !.meant = IF @ = NoCode THEN 200 ELSE @]
    IN /\ Running(r)
       /\ Becomes(r, [Sent(q, 200) EXCEPT !.at = IF q.at = "run" /\ Kept(q) THEN "store" ELSE "done"])
       /\ UNCHANGED <<time, stored>>

\* It panics: nothing is stored.
RunPanics(r) ==
    /\ Running(r)
    /\ Becomes(r, [request[r] EXCEPT !.ended = "panicked", !.at = "done"])
    /\ UNCHANGED <<time, stored>>

\* Store.Set, whatever is there by now.
Stores(r) ==
    LET k == request[r].key
    IN /\ request[r].at = "store"
       /\ stored' = [stored EXCEPT ![k] = [by |-> r, expires |-> time + ServedFor]]
       /\ Becomes(r, [request[r] EXCEPT !.at = "done", !.kept = time])
       /\ UNCHANGED time

ResponseNext ==
    \/ TimePasses
    \/ \E k \in Entries : StoreLoses(k)
    \/ \E r \in Requests :
          \/ \E k \in Entries \cup {Declined} : Comes(r, k)
          \/ Hit(r) \/ Miss(r)
          \/ SetsCookie(r) \/ (\E c \in Codes : WritesHeader(r, c))
          \/ Writes(r) \/ Flushes(r) \/ Returns(r) \/ RunPanics(r)
          \/ Stores(r)

ResponseSpec == ResponseInit /\ [][ResponseNext]_responseVars

-----------------------------------------------------------------------------
\* What is replayed is a whole answer that anyone with the key may have: the body of a run
\* of that key that returned, was a 200 to its own client too and gave it no cookie
\* (Cache: "what it refuses, because each would be a bug").  Nor is it replayed once its
\* time is over.
HitsAreShareable ==
    \A r \in Requests : request[r].hit # NoRun =>
        LET run == request[request[r].hit]
        IN /\ run.key = request[r].key /\ run.ended = "returned"
           /\ run.seen = 200 /\ run.meant = 200
           /\ ~run.gave
           /\ run.body = run.written
           /\ request[r].hitAt <= run.kept + ServedFor
=============================================================================
