--------------------------------- MODULE MCEnds ---------------------------------
(***************************************************************************)
(* The three specifications that promise callers an end, each under its    *)
(* own fairness: CachedCollection, Coalesce with what coalesced answers    *)
(* are, and OptimisticStore, whose names some of theirs are.  A behaviour  *)
(* is one of a single part, chosen at the start.                           *)
(***************************************************************************)
EXTENDS CachedCollection, Coalesce, TLC

CONSTANTS
    Parts,            \* the parts that are run
    r1, c1, c2, w1,   \* a replica, readers and a writer of the cache
    MaxOps, MaxLost   \* bounds of OptimisticStore

VARIABLES
    part,
    \* those of OptimisticStore; committed is its commits
    view, confirmed, pending, committed, kick, sender, offline, server, page, landed, refused, lost, astray

MCOneHome == {[c \in Calls |-> r1]}

Optimistic == INSTANCE OptimisticStore WITH commits <- committed
optimisticVars == <<view, confirmed, pending, committed, kick, sender, offline, server, page, landed,
                    refused, lost, astray>>

-----------------------------------------------------------------------------
EndsInit == part \in Parts /\ Init /\ CoalesceInit /\ Optimistic!SyncInit

EndsNext ==
    /\ UNCHANGED part
    /\ \/ part = "cache" /\ Next /\ UNCHANGED <<coalesceVars, optimisticVars>>
       \/ part = "coalescing" /\ CoalesceNext /\ UNCHANGED <<vars, optimisticVars>>
       \/ part = "sync" /\ Optimistic!SyncNext /\ UNCHANGED <<vars, coalesceVars>>

\* The fairness of each, where it is run.
EndsSpec ==
    /\ EndsInit /\ [][EndsNext]_<<part, vars, coalesceVars, optimisticVars>>
    /\ \A c \in Readers : WF_vars(part = "cache" /\ Read(c)) /\ WF_vars(part = "cache" /\ GiveUp(c))
    /\ \A c \in Writers : WF_vars(part = "cache" /\ Write(c))
    /\ \A r \in Requests :
          /\ WF_coalesceVars(part = "coalescing" /\ (Leads(r) \/ Wait(r)))
          /\ WF_coalesceVars(part = "coalescing" /\ HandlerReads(r))
          /\ WF_coalesceVars(part = "coalescing" /\ HandlerReturns(r))
          /\ WF_coalesceVars(part = "coalescing" /\ Remove(r))
          /\ WF_coalesceVars(part = "coalescing" /\ Publish(r))
          /\ WF_coalesceVars(part = "coalescing" /\ Finish(r))
          /\ WF_coalesceVars(part = "coalescing" /\ (Replay(r) \/ RunOwn(r)))
    /\ WF_optimisticVars(part = "sync" /\ Optimistic!SenderStep)
    /\ SF_optimisticVars(part = "sync" /\ (Optimistic!ServerApplies \/ Optimistic!ServerRefuses))

\* Everyone who called is answered: an operation on a collection ends (db/flight.go closes the
\* flight even when its query panics, and a follower gives up with its context), and so does a
\* request that waits for another's run of the handler (core/mw/coalesce.go closes the call in a
\* defer).
CallsEnd == OperationsEnd /\ RequestsEnd

\* Whatever is committed in the browser is answered in the end: a sender that waits on the channel
\* has nothing to send, or a kick to wake it (scaffold.go, drain).
QueueDrains == Optimistic!QueueDrains

=============================================================================
