------------------------------- MODULE Coalesce -------------------------------
(***************************************************************************)
(* core/mw/coalesce.go: identical concurrent requests share one run of the *)
(* handler.  The first is the leader: it runs the handler into a recorder, *)
(* and those that come while it is in the map wait for its response, or    *)
(* run the handler themselves if that is not one to share.                 *)
(*                                                                         *)
(* Each request is a goroutine of the server's.  The handler is whatever   *)
(* the middleware was put around: it reads something that writes elsewhere *)
(* move on, writes its response in chunks, may set a cookie, and returns   *)
(* or panics.                                                              *)
(***************************************************************************)
EXTENDS Integers

CONSTANTS
    Requests,   \* the requests, each made once
    Keys,       \* what coalesceKey makes of them: method, URI and the Vary headers
    None,       \* no request
    MaxBody,    \* how many chunks a recorder buffers
    MaxChunks,  \* bound: the chunks of a response
    MaxWrites   \* bound: the writes to what the handler reads

ASSUME CoalesceAssumption ==
    /\ None \notin Requests
    /\ MaxBody \in Nat /\ MaxChunks \in Nat /\ MaxWrites \in Nat

VARIABLES
    writes,   \* how many writes there were to what the handler reads
    calls,    \* Coalesce.calls: by key, the leader in the map
    req       \* per request: where it is, its recorder and its call

coalesceVars == <<writes, calls, req>>

-----------------------------------------------------------------------------
(* Types.                                                                   *)

Unread == -1

Places == {"idle", "enter", "wait", "lead", "returned", "removed", "published", "own", "done"}

Request == [at         : Places,
            key        : Keys \cup {None},
            on         : Requests \cup {None},      \* the call a waiter found
            reads      : {Unread} \cup Nat,         \* what its run of the handler has read
            cookie     : BOOLEAN,                   \* its run has set a cookie
            written    : 0..MaxChunks,              \* what its run has written
            buf        : 0..MaxBody,                \* recorder.buf, and call.body of it
            overflowed : BOOLEAN,                   \* recorder.overflowed
            completed  : BOOLEAN,                   \* its run has returned
            closed     : BOOLEAN,                   \* call.done
            shared     : BOOLEAN,                   \* call.shared
            sent       : 0..MaxChunks,              \* what its client was sent
            by         : Requests \cup {None},      \* whose run answered it: none's, if it panicked
            floor      : Nat,                       \* history: the writes before it arrived
            past       : SUBSET Requests]           \* history: the requests answered before

NewRequest == [at |-> "idle", key |-> None, on |-> None, reads |-> Unread, cookie |-> FALSE,
               written |-> 0, buf |-> 0, overflowed |-> FALSE, completed |-> FALSE,
               closed |-> FALSE, shared |-> FALSE, sent |-> 0, by |-> None,
               floor |-> 0, past |-> {}]

\* Every variable has its type.  No recorder holds more than MaxBody.
CoalesceTypeOK ==
    /\ writes \in 0..MaxWrites
    /\ calls \in [Keys -> Requests \cup {None}]
    /\ req \in [Requests -> Request]

CoalesceInit ==
    /\ writes = 0
    /\ calls = [k \in Keys |-> None]
    /\ req = [r \in Requests |-> NewRequest]

-----------------------------------------------------------------------------
(* How a request comes to its response.                                     *)

Become(r, q) == req' = [req EXCEPT ![r] = q]

\* A write to what the handler reads is committed, and acknowledged.
WriteCommits ==
    /\ writes < MaxWrites
    /\ writes' = writes + 1
    /\ UNCHANGED <<calls, req>>

Served == {r \in Requests : req[r].at = "done"}

\* A request arrives.  One that is not shareable runs the handler.
Arrive(r, k) ==
    /\ req[r].at = "idle"
    /\ \E at \in {"enter", "own"} :
          Become(r, [NewRequest EXCEPT !.at = at, !.key = k, !.floor = writes,
                                       !.past = Served])
    /\ UNCHANGED <<writes, calls>>

\* Mutant of Leads: the map is not looked at.
LeadsRegardless(r) ==
    /\ req[r].at = "enter"
    /\ calls' = [calls EXCEPT ![req[r].key] = r]
    /\ Become(r, [req[r] EXCEPT !.at = "lead"])
    /\ UNCHANGED writes

\* Under the mutex, the key is not in the map: a leader.
Leads(r) ==
    /\ req[r].at = "enter"
    /\ calls[req[r].key] = None
    /\ calls' = [calls EXCEPT ![req[r].key] = r]
    /\ Become(r, [req[r] EXCEPT !.at = "lead"])
    /\ UNCHANGED writes

\* It is: a waiter.
Wait(r) ==
    /\ req[r].at = "enter"
    /\ calls[req[r].key] # None
    /\ Become(r, [req[r] EXCEPT !.at = "wait", !.on = calls[req[r].key]])
    /\ UNCHANGED <<writes, calls>>

-----------------------------------------------------------------------------
(* A run of the handler: a leader's, or a request's own.                    *)

Runs(r) == req[r].at \in {"lead", "own"}

HandlerReads(r) ==
    /\ Runs(r)
    /\ req[r].reads = Unread
    /\ Become(r, [req[r] EXCEPT !.reads = writes])
    /\ UNCHANGED <<writes, calls>>

HandlerSetsCookie(r) ==
    /\ Runs(r)
    /\ Become(r, [req[r] EXCEPT !.cookie = TRUE])
    /\ UNCHANGED <<writes, calls>>

\* Mutants of Recorded: one chunk more is buffered; what was buffered is not
\* flushed when it overflows.
RecordedTooMuch(q) ==
    IF q.overflowed THEN [q EXCEPT !.sent = @ + 1]
    ELSE IF q.buf > MaxBody THEN [q EXCEPT !.overflowed = TRUE, !.sent = @ + q.buf + 1, !.buf = 0]
    ELSE [q EXCEPT !.buf = @ + 1]
RecordedUnflushed(q) ==
    IF q.overflowed THEN [q EXCEPT !.sent = @ + 1]
    ELSE IF q.buf + 1 > MaxBody THEN [q EXCEPT !.overflowed = TRUE, !.sent = @ + 1, !.buf = 0]
    ELSE [q EXCEPT !.buf = @ + 1]

\* recorder.Write, of one chunk: to the buffer while there is room, and to the
\* client, what was buffered first, from when there is none.
Recorded(q) ==
    IF q.overflowed THEN [q EXCEPT !.sent = @ + 1]
    ELSE IF q.buf + 1 > MaxBody THEN [q EXCEPT !.overflowed = TRUE, !.sent = @ + q.buf + 1, !.buf = 0]
    ELSE [q EXCEPT !.buf = @ + 1]

HandlerWrites(r) ==
    /\ Runs(r)
    /\ req[r].written < MaxChunks
    /\ LET q == [req[r] EXCEPT !.written = @ + 1] IN
       Become(r, IF q.at = "lead" THEN Recorded(q) ELSE [q EXCEPT !.sent = @ + 1])
    /\ UNCHANGED <<writes, calls>>

\* The request is answered by a run that returned, or is left with what a panic
\* left it.
ByOwnRun(r, q) == [q EXCEPT !.at = "done", !.by = IF q.completed THEN r ELSE None]

\* The handler returns...
HandlerReturns(r) ==
    /\ Runs(r)
    /\ req[r].reads # Unread
    /\ LET q == [req[r] EXCEPT !.completed = TRUE] IN
       Become(r, IF q.at = "lead" THEN [q EXCEPT !.at = "returned"] ELSE ByOwnRun(r, q))
    /\ UNCHANGED <<writes, calls>>

\* ...or panics: a leader's deferred function runs all the same.
HandlerPanics(r) ==
    /\ Runs(r)
    /\ Become(r, IF req[r].at = "lead" THEN [req[r] EXCEPT !.at = "returned"]
                 ELSE ByOwnRun(r, req[r]))
    /\ UNCHANGED <<writes, calls>>

-----------------------------------------------------------------------------
(* A leader's response, once its run has ended.                             *)

\* Mutant of Remove: the leader stays in the map.
RemoveNothing(r) ==
    /\ req[r].at = "returned"
    /\ Become(r, [req[r] EXCEPT !.at = "removed"])
    /\ UNCHANGED <<writes, calls>>

\* Under the mutex, the leader leaves the map.
Remove(r) ==
    /\ req[r].at = "returned"
    /\ calls' = [calls EXCEPT ![req[r].key] = None]
    /\ Become(r, [req[r] EXCEPT !.at = "removed"])
    /\ UNCHANGED writes

\* Mutants of Shareable: a panic's wreckage is shared; a cookie is.
ShareableBroken(q) == ~ q.overflowed /\ ~ q.cookie
ShareableCookie(q) == q.completed /\ ~ q.overflowed

Shareable(q) == q.completed /\ ~ q.overflowed /\ ~ q.cookie

\* Mutant of Publish: a panic goes by the waiters.
PublishCompleted(r) ==
    /\ req[r].at = "removed"
    /\ Become(r, [req[r] EXCEPT !.at = "published", !.closed = req[r].completed,
                                !.shared = Shareable(req[r])])
    /\ UNCHANGED <<writes, calls>>

\* The waiters are released: what they read of the call was assigned before
\* done was closed, and is not assigned again.
Publish(r) ==
    /\ req[r].at = "removed"
    /\ Become(r, [req[r] EXCEPT !.at = "published", !.closed = TRUE,
                                !.shared = Shareable(req[r])])
    /\ UNCHANGED <<writes, calls>>

\* recorder.finish: the leader's client is sent what was buffered.  A panic goes
\* on from here instead.
Finish(r) ==
    /\ req[r].at = "published"
    /\ LET q == IF req[r].completed /\ ~ req[r].overflowed
                THEN [req[r] EXCEPT !.sent = req[r].buf] ELSE req[r]
       IN  Become(r, ByOwnRun(r, q))
    /\ UNCHANGED <<writes, calls>>

-----------------------------------------------------------------------------
(* Waiters.                                                                 *)

\* replay: the leader's header, status and body.
Replay(r) ==
    /\ req[r].at = "wait"
    /\ LET leader == req[req[r].on] IN
       /\ leader.closed /\ leader.shared
       /\ Become(r, [req[r] EXCEPT !.at = "done", !.sent = leader.buf, !.by = req[r].on])
    /\ UNCHANGED <<writes, calls>>

\* The leader's response is not for sharing.
RunOwn(r) ==
    /\ req[r].at = "wait"
    /\ req[req[r].on].closed /\ ~ req[req[r].on].shared
    /\ Become(r, [req[r] EXCEPT !.at = "own"])
    /\ UNCHANGED <<writes, calls>>

-----------------------------------------------------------------------------

Step(r) ==
    \/ \E k \in Keys : Arrive(r, k)
    \/ Leads(r) \/ Wait(r)
    \/ HandlerReads(r) \/ HandlerSetsCookie(r) \/ HandlerWrites(r)
    \/ HandlerReturns(r) \/ HandlerPanics(r)
    \/ Remove(r) \/ Publish(r) \/ Finish(r)
    \/ Replay(r) \/ RunOwn(r)

CoalesceNext == WriteCommits \/ \E r \in Requests : Step(r)

CoalesceSpec == CoalesceInit /\ [][CoalesceNext]_coalesceVars

\* A goroutine that can run does, and a run of the handler that has read what it
\* is about returns.  Nothing is assumed of arrivals, writes, cookies and panics.
CoalesceFairness == \A r \in Requests :
    /\ WF_coalesceVars(Leads(r) \/ Wait(r))
    /\ WF_coalesceVars(HandlerReads(r)) /\ WF_coalesceVars(HandlerReturns(r))
    /\ WF_coalesceVars(Remove(r)) /\ WF_coalesceVars(Publish(r)) /\ WF_coalesceVars(Finish(r))
    /\ WF_coalesceVars(Replay(r) \/ RunOwn(r))

CoalesceFairSpec == CoalesceSpec /\ CoalesceFairness

-----------------------------------------------------------------------------
(* Properties.                                                              *)

\* One run at a time is shared: no two leaders of a key have the handler running
\* or are still in the map.
OneLeaderPerKey ==
    \A r, s \in Requests :
        /\ {req[r].at, req[s].at} \subseteq {"lead", "returned"}
        /\ req[r].key = req[s].key
        => r = s

\* Every response is whole: all that one run of the handler wrote for this key,
\* sent once, a run that returned.  Only a panic of its own run leaves a request
\* without.
AnswersAreWhole ==
    \A r \in Served :
        LET by == req[r].by IN
        IF by = None
        THEN ~ req[r].completed /\ (req[r].on # None => ~ req[req[r].on].shared)
        ELSE /\ req[by].completed /\ req[by].key = req[r].key
             /\ req[r].sent = req[by].written

\* Nobody is handed the cookie of another's response.
CookiesAreOwn ==
    \A r \in Served : LET by == req[r].by IN
        by \notin {None, r} => ~ req[by].cookie

\* Nothing is kept: no request gets a response that was finished before it
\* arrived.
NothingIsKept ==
    \A r \in Served : req[r].by \notin req[r].past

\* coalesce.go says that "a response is never stale", and cache.go that, unlike
\* this, it is not for "where a write must be visible on the next read": a
\* response shows every write that was acknowledged before the request arrived.
NeverStale ==
    \A r \in Served : LET by == req[r].by IN
        by # None => req[by].reads >= req[r].floor

\* Every request ends, whatever its leader's handler does short of not ending.
RequestsEnd ==
    \A r \in Requests : req[r].at # "idle" ~> req[r].at = "done"

=============================================================================
