-------------------------- MODULE CachedCollection --------------------------
(***************************************************************************)
(* The query cache of one collection: db/service.go (Get, Find, Count,     *)
(* GetMany, keyspace, hit, store, invalidate), db/flight.go (share) and    *)
(* the Versioner contract of db/cache.go.                                  *)
(*                                                                         *)
(* Several replicas, each a process with a Service over the collection,    *)
(* run calls of their own (goroutines), a local version counter and a map  *)
(* of queries in flight.  The backend is shared, and so may be the cache   *)
(* adapter and its version counter.  Data is abstracted to the number of   *)
(* writes the backend has committed: a read answers with the commit it     *)
(* saw, and what the properties ask is how old that commit may be.         *)
(***************************************************************************)
EXTENDS Integers

CONSTANTS
    Replicas,     \* the processes that build a Service over the collection
    Readers,      \* the goroutines that read through it, one call at a time
    Writers,      \* the goroutines that write through it, one call at a time
    Homes,        \* the ways considered to place these goroutines on replicas
    Slots,        \* the suffixes of a key: get:<id>, find:<digest>, count:<digest>
    Adapters,     \* the deployments considered, a subset of AdapterKinds
    SharedStore,  \* the store behind an adapter that every replica uses
    NoCall,       \* "follows nobody"
    MaxCommits,   \* bound: writes committed to the backend, and so every counter
    MaxRestarts,  \* bound: restarts of each replica
    MaxPanics,    \* bound: panics inside a query
    MaxBumpErrors \* bound: Bumps that answer an error

\* No Adapter set (an LRU in the process); a shared adapter that is no
\* Versioner; a shared adapter that is one.
AdapterKinds == {"process", "plain", "versioned"}

Calls == Readers \cup Writers

ASSUME ConstantsAssumption ==
    /\ Homes \subseteq [Calls -> Replicas]
    /\ Adapters \subseteq AdapterKinds
    /\ SharedStore \notin Replicas
    /\ NoCall \notin Calls
    /\ MaxCommits \in Nat
    /\ MaxRestarts \in Nat
    /\ MaxPanics \in Nat
    /\ MaxBumpErrors \in Nat

VARIABLES
    adapter,     \* the deployment: chosen once, by Init
    home,        \* the replica each goroutine runs on: chosen once, by Init
    commits,     \* backend: the writes it has committed
    shared,      \* adapter: the version a Versioner keeps for the collection
    entries,     \* adapter: what is stored, under which key
    local,       \* per replica: Service.local
    flights,     \* per replica: Service.flight.calls, from a key to its leader
    life,        \* per replica: how often the process has restarted
    call,        \* per goroutine: the operation it is in
    panics,      \* how many queries have panicked
    bumpErrors,  \* how many Bumps have failed
    sharedMark,  \* history: the last write acknowledged when shared became v
    localMark,   \* history: the same for a replica's local counter, this life
    movers       \* history: the <<replica, life>> whose local counter has moved

adapterVars == <<adapter, home, shared, entries>>
serviceVars == <<local, flights, life>>
boundVars   == <<panics, bumpErrors>>
markVars    == <<sharedMark, localMark, movers>>
vars == <<commits, adapterVars, serviceVars, call, boundVars, markVars>>

-----------------------------------------------------------------------------
(* Types.                                                                   *)

Commit == 0..MaxCommits
Stores == Replicas \cup {SharedStore}
Entry  == [store : Stores, ver : Commit, loc : Commit, slot : Slots, data : Commit]
Key    == [ver : Commit, loc : Commit, want : SUBSET Slots]
Flight == [key : Key, lead : Calls]
Steps  == {"idle", "version", "local", "lookup", "share", "wait", "load", "store",
           "land", "wake", "bypass", "done", "invalidate"}

Call == [at          : Steps,             \* where the operation is
         many        : BOOLEAN,           \* GetMany, and not Get, Find or Count
         want        : SUBSET Slots,      \* what it asked for
         ver         : Commit,            \* its key space: the shared half
         loc         : Commit,            \* its key space: the local half
         todo        : SUBSET Slots,      \* slots it has still to look up
         missed      : SUBSET Slots,      \* slots it has to store
         on          : Calls \cup {NoCall}, \* the leader it waits for
         data        : Commit,            \* the commit it loaded, or wrote
         got         : SUBSET Commit,     \* what its answer is made of so far
         floorShared : Commit,            \* history: what a read must show,
         floorOwn    : Commit]            \* by either counter

NewCall == [at |-> "idle", many |-> FALSE, want |-> {}, ver |-> 0, loc |-> 0,
            todo |-> {}, missed |-> {}, on |-> NoCall, data |-> 0, got |-> {},
            floorShared |-> 0, floorOwn |-> 0]

\* Every variable has its type, and no counter runs past the commits.
TypeOK ==
    /\ adapter \in AdapterKinds
    /\ home \in [Calls -> Replicas]
    /\ commits \in Commit
    /\ shared \in Commit
    /\ entries \subseteq Entry
    /\ local \in [Replicas -> Commit]
    /\ flights \in [Replicas -> SUBSET Flight]
    /\ life \in [Replicas -> 0..MaxRestarts]
    /\ call \in [Calls -> Call]
    /\ panics \in 0..MaxPanics
    /\ bumpErrors \in 0..MaxBumpErrors
    /\ sharedMark \in [Commit -> Commit]
    /\ localMark \in [Replicas -> [Commit -> Commit]]
    /\ movers \subseteq (Replicas \X (0..MaxRestarts))

Init ==
    /\ adapter \in Adapters
    /\ home \in Homes
    /\ commits = 0
    /\ shared = 0
    /\ entries = {}
    /\ local = [r \in Replicas |-> 0]
    /\ flights = [r \in Replicas |-> {}]
    /\ life = [r \in Replicas |-> 0]
    /\ call = [c \in Calls |-> NewCall]
    /\ panics = 0
    /\ bumpErrors = 0
    /\ sharedMark = [v \in Commit |-> 0]
    /\ localMark = [r \in Replicas |-> [v \in Commit |-> 0]]
    /\ movers = {}

-----------------------------------------------------------------------------
(* Helpers.                                                                 *)

Later(a, b) == IF a < b THEN b ELSE a

StoreOf(r) == IF adapter = "process" THEN r ELSE SharedStore

\* The key a single read shares its query under.
KeyOf(c) == [ver |-> call[c].ver, loc |-> call[c].loc, want |-> call[c].want]

\* Mutants of Found: keys that leave out one of the two counters.
FoundAnyVersion(c, s) == {e \in entries : /\ e.store = StoreOf(home[c])
                                          /\ e.loc = call[c].loc
                                          /\ e.slot = s}
FoundAnyLocal(c, s) == {e \in entries : /\ e.store = StoreOf(home[c])
                                        /\ e.ver = call[c].ver
                                        /\ e.slot = s}

\* hit: what a call's key for a slot finds.
Found(c, s) == {e \in entries : /\ e.store = StoreOf(home[c])
                                /\ e.ver = call[c].ver
                                /\ e.loc = call[c].loc
                                /\ e.slot = s}

\* Mutant of EntryOf: the key is built when the result is stored.
EntryUnderLatest(c, s) == [store |-> StoreOf(home[c]), ver |-> shared, loc |-> local[home[c]],
                           slot |-> s, data |-> call[c].data]

\* The entry a result becomes: under the key built before the query ran.
EntryOf(c, s) == [store |-> StoreOf(home[c]), ver |-> call[c].ver, loc |-> call[c].loc,
                  slot |-> s, data |-> call[c].data]

\* A read that has its answer, and nothing else left of it.
Answered(k, answer) == [NewCall EXCEPT !.at = "done", !.got = answer,
                                       !.floorShared = k.floorShared, !.floorOwn = k.floorOwn]

\* Where a read whose slots have all been looked up goes with those it missed:
\* only a single read goes through share.
AfterLookups(k) ==
    CASE k.missed = {}                -> Answered(k, k.got)
      [] k.missed # {} /\ k.many     -> [k EXCEPT !.at = "load"]
      [] k.missed # {} /\ ~ k.many   -> [k EXCEPT !.at = "share"]

\* Where a read goes with its result: a leader has its call to finish.
AfterLoad(k) == IF k.many THEN Answered(k, k.got) ELSE [k EXCEPT !.at = "land"]

\* The calls that wait for this leader's query on this key.
Followers(c) == {f \in Calls : /\ call[f].at = "wait"
                               /\ call[f].on = c
                               /\ home[f] = home[c]
                               /\ KeyOf(f) = KeyOf(c)}

-----------------------------------------------------------------------------
(* Reads.  Get, Find and Count take one slot and may share a query; GetMany *)
(* takes several under one reading of the versions and shares none.         *)

\* A read begins, and the history notes which acknowledged writes it must show.
\* One that carries a session, or a shape the cache is off for, goes straight
\* to the backend.
Begin(c, slots, isMany) ==
    /\ call[c].at = "idle"
    /\ slots # {}
    /\ isMany \/ \E s \in Slots : slots = {s}
    /\ \E start \in {"version", "bypass"} :
          call' = [call EXCEPT ![c] =
                     [NewCall EXCEPT !.at = start, !.many = isMany,
                                     !.want = slots, !.todo = slots,
                                     !.floorShared = sharedMark[shared],
                                     !.floorOwn = localMark[home[c]][local[home[c]]]]]
    /\ UNCHANGED <<commits, adapterVars, serviceVars, boundVars, markVars>>

\* keyspace, first half: the Versioner's answer, 0 without one.
ReadVersion(c) ==
    /\ call[c].at = "version"
    /\ call' = [call EXCEPT ![c] =
                   [@ EXCEPT !.at = "local",
                             !.ver = IF adapter = "versioned" THEN shared ELSE 0]]
    /\ UNCHANGED <<commits, adapterVars, serviceVars, boundVars, markVars>>

\* keyspace answers false: the read runs uncached.
VersionUnreadable(c) ==
    /\ call[c].at = "version"
    /\ adapter = "versioned"
    /\ call' = [call EXCEPT ![c] = [@ EXCEPT !.at = "bypass"]]
    /\ UNCHANGED <<commits, adapterVars, serviceVars, boundVars, markVars>>

\* keyspace, second half: the local counter, loaded after the shared one.
ReadLocal(c) ==
    /\ call[c].at = "local"
    /\ call' = [call EXCEPT ![c] = [@ EXCEPT !.at = "lookup", !.loc = local[home[c]]]]
    /\ UNCHANGED <<commits, adapterVars, serviceVars, boundVars, markVars>>

\* hit: one slot is looked up.
Lookup(c, s) ==
    LET found == Found(c, s)
        k == [call[c] EXCEPT !.todo = @ \ {s},
                             !.missed = IF found = {} THEN @ \cup {s} ELSE @,
                             !.got = @ \cup {e.data : e \in found}]
    IN
    /\ call[c].at = "lookup"
    /\ s \in call[c].todo
    /\ call' = [call EXCEPT ![c] = IF k.todo = {} THEN AfterLookups(k) ELSE k]
    /\ UNCHANGED <<commits, adapterVars, serviceVars, boundVars, markVars>>

\* Mutant of Lead: the map is not consulted.
LeadRegardless(c) ==
    /\ call[c].at = "share"
    /\ flights' = [flights EXCEPT ![home[c]] = @ \cup {[key |-> KeyOf(c), lead |-> c]}]
    /\ call' = [call EXCEPT ![c] = [@ EXCEPT !.at = "load"]]
    /\ UNCHANGED <<commits, adapterVars, local, life, boundVars, markVars>>

\* share, the first caller on the key: it leads.
Lead(c) ==
    /\ call[c].at = "share"
    /\ \A f \in flights[home[c]] : f.key # KeyOf(c)
    /\ flights' = [flights EXCEPT ![home[c]] = @ \cup {[key |-> KeyOf(c), lead |-> c]}]
    /\ call' = [call EXCEPT ![c] = [@ EXCEPT !.at = "load"]]
    /\ UNCHANGED <<commits, adapterVars, local, life, boundVars, markVars>>

\* share, everyone after it: they wait on the leader's call.
Join(c) ==
    /\ call[c].at = "share"
    /\ \E f \in flights[home[c]] :
          /\ f.key = KeyOf(c)
          /\ call' = [call EXCEPT ![c] = [@ EXCEPT !.at = "wait", !.on = f.lead]]
    /\ UNCHANGED <<commits, adapterVars, serviceVars, boundVars, markVars>>

\* The backend answers the query: a leader's, or GetMany's for what it missed.
Load(c) ==
    /\ call[c].at = "load"
    /\ call' = [call EXCEPT ![c] = [@ EXCEPT !.at = "store", !.data = commits,
                                             !.got = call[c].got \cup {commits}]]
    /\ UNCHANGED <<commits, adapterVars, serviceVars, boundVars, markVars>>

\* The backend fails, or the leader's own deadline ends: nothing is stored, and
\* a leader's error becomes its followers' answer too.
LoadFails(c) ==
    /\ call[c].at = "load"
    /\ call' = [call EXCEPT ![c] = AfterLoad([@ EXCEPT !.got = {}])]
    /\ UNCHANGED <<commits, adapterVars, serviceVars, boundVars, markVars>>

\* store: a result goes into the cache, over what its key held; or it is larger
\* than MaxEntryBytes, or a document that was not found, and does not.
Store(c, s) ==
    LET k == [call[c] EXCEPT !.missed = @ \ {s}] IN
    /\ call[c].at = "store"
    /\ s \in call[c].missed
    /\ \/ entries' = (entries \ Found(c, s)) \cup {EntryOf(c, s)}
       \/ UNCHANGED entries
    /\ call' = [call EXCEPT ![c] = IF k.missed = {} THEN AfterLoad(k) ELSE k]
    /\ UNCHANGED <<commits, adapter, home, shared, serviceVars, boundVars, markVars>>

\* The leader takes its call out of the map, under the mutex...
Land(c) ==
    /\ call[c].at = "land"
    /\ flights' = [flights EXCEPT ![home[c]] = @ \ {[key |-> KeyOf(c), lead |-> c]}]
    /\ call' = [call EXCEPT ![c] = [@ EXCEPT !.at = "wake"]]
    /\ UNCHANGED <<commits, adapterVars, local, life, boundVars, markVars>>

\* ...and only then closes done: every follower has the leader's result.
Wake(c) ==
    /\ call[c].at = "wake"
    /\ call' = [f \in Calls |->
                  IF f = c \/ f \in Followers(c) THEN Answered(call[f], call[c].got)
                                                ELSE call[f]]
    /\ UNCHANGED <<commits, adapterVars, serviceVars, boundVars, markVars>>

\* Mutant of GiveUp: a follower waits on the leader alone.
NeverGiveUp(c) == call[c].at = "wait" /\ FALSE /\ UNCHANGED vars

\* A follower's own context ends first: it answers with that error.
GiveUp(c) ==
    /\ call[c].at = "wait"
    /\ call' = [call EXCEPT ![c] = Answered(@, {})]
    /\ UNCHANGED <<commits, adapterVars, serviceVars, boundVars, markVars>>

\* The query panics.  share defers nothing: a leader's call stays in the map,
\* and its done channel is never closed.
Panic(c) ==
    /\ call[c].at = "load"
    /\ panics < MaxPanics
    /\ panics' = panics + 1
    /\ call' = [call EXCEPT ![c] = NewCall]
    /\ UNCHANGED <<commits, adapterVars, serviceVars, bumpErrors, markVars>>

\* An uncached read: the backend's answer, or its error, is the whole of it.
ReadThrough(c) ==
    /\ call[c].at = "bypass"
    /\ \E answer \in {{commits}, {}} :
          call' = [call EXCEPT ![c] = Answered(@, answer)]
    /\ UNCHANGED <<commits, adapterVars, serviceVars, boundVars, markVars>>

\* The read returns its answer: a set of commits, empty for an error.
Return(c) ==
    /\ call[c].at = "done"
    /\ call' = [call EXCEPT ![c] = NewCall]
    /\ UNCHANGED <<commits, adapterVars, serviceVars, boundVars, markVars>>

-----------------------------------------------------------------------------
(* Writes: the backend commits, then invalidate moves a version.            *)

CommitWrite(c) ==
    /\ call[c].at = "idle"
    /\ commits < MaxCommits
    /\ commits' = commits + 1
    /\ call' = [call EXCEPT ![c] = [NewCall EXCEPT !.at = "invalidate",
                                                   !.data = commits + 1]]
    /\ UNCHANGED <<adapterVars, serviceVars, boundVars, markVars>>

\* Mutant of Bump: the Bump is retried though it answered.
BumpAgain(c) ==
    /\ call[c].at = "invalidate"
    /\ adapter = "versioned"
    /\ shared' = shared + 1
    /\ UNCHANGED <<commits, adapter, home, entries, serviceVars, call, boundVars, markVars>>

\* invalidate with a Versioner whose Bump answers: every key built before it is
\* unreachable, and the write is acknowledged.
Bump(c) ==
    /\ call[c].at = "invalidate"
    /\ adapter = "versioned"
    /\ shared < MaxCommits
    /\ shared' = shared + 1
    /\ sharedMark' = [sharedMark EXCEPT ![shared + 1] =
                        Later(sharedMark[shared], call[c].data)]
    /\ call' = [call EXCEPT ![c] = NewCall]
    /\ UNCHANGED <<commits, adapter, home, entries, serviceVars, boundVars, localMark, movers>>

\* Mutant of MoveLocal: the write is acknowledged and the counter stays.
LeaveLocal(c) ==
    LET r == home[c] IN
    /\ call[c].at = "invalidate"
    /\ adapter = "versioned" => bumpErrors < MaxBumpErrors
    /\ bumpErrors' = IF adapter = "versioned" THEN bumpErrors + 1 ELSE bumpErrors
    /\ localMark' = [localMark EXCEPT ![r] =
                       [@ EXCEPT ![local[r]] = Later(localMark[r][local[r]], call[c].data)]]
    /\ call' = [call EXCEPT ![c] = NewCall]
    /\ UNCHANGED <<commits, adapterVars, serviceVars, panics, sharedMark, movers>>

\* invalidate without a Versioner, or after a Bump that failed: the local
\* counter moves, and the write is acknowledged.
MoveLocal(c) ==
    LET r == home[c] IN
    /\ call[c].at = "invalidate"
    /\ local[r] < MaxCommits
    /\ adapter = "versioned" => bumpErrors < MaxBumpErrors
    /\ bumpErrors' = IF adapter = "versioned" THEN bumpErrors + 1 ELSE bumpErrors
    /\ local' = [local EXCEPT ![r] = @ + 1]
    /\ localMark' = [localMark EXCEPT ![r] =
                       [@ EXCEPT ![local[r] + 1] = Later(localMark[r][local[r]], call[c].data)]]
    /\ movers' = movers \cup {<<r, life[r]>>}
    /\ call' = [call EXCEPT ![c] = NewCall]
    /\ UNCHANGED <<commits, adapterVars, flights, life, panics, sharedMark>>

\* A commit no invalidation follows, and nobody is told has succeeded: a write
\* in a session, a bulk walk that stops on a later row's error, a backend error
\* that comes after the commit, another program on the same table.
NotInvalidated(c) ==
    /\ call[c].at = "invalidate"
    /\ call' = [call EXCEPT ![c] = NewCall]
    /\ UNCHANGED <<commits, adapterVars, serviceVars, boundVars, markVars>>

-----------------------------------------------------------------------------
(* The environment.                                                         *)

\* A TTL runs out, or an LRU makes room.
Expire(e) ==
    /\ e \in entries
    /\ entries' = entries \ {e}
    /\ UNCHANGED <<commits, adapter, home, shared, serviceVars, call, boundVars, markVars>>

\* A replica dies and comes back: its calls are gone, its counter restarts at
\* zero and an in-process cache is empty; a shared adapter keeps everything.
Restart(r) ==
    /\ life[r] < MaxRestarts
    /\ life' = [life EXCEPT ![r] = @ + 1]
    /\ local' = [local EXCEPT ![r] = 0]
    /\ flights' = [flights EXCEPT ![r] = {}]
    /\ entries' = {e \in entries : e.store # r}
    /\ call' = [c \in Calls |-> IF home[c] = r THEN NewCall ELSE call[c]]
    /\ localMark' = [localMark EXCEPT ![r] = [v \in Commit |-> 0]]
    /\ UNCHANGED <<commits, adapter, home, shared, boundVars, sharedMark, movers>>

-----------------------------------------------------------------------------

Read(c) ==
    \/ ReadVersion(c) \/ VersionUnreadable(c) \/ ReadLocal(c)
    \/ \E s \in Slots : Lookup(c, s) \/ Store(c, s)
    \/ Lead(c) \/ Join(c) \/ Load(c) \/ LoadFails(c) \/ Land(c) \/ Wake(c)
    \/ ReadThrough(c) \/ Return(c)

Write(c) == Bump(c) \/ MoveLocal(c) \/ NotInvalidated(c)

Next ==
    \/ \E c \in Readers :
          \/ \E slots \in SUBSET Slots, isMany \in BOOLEAN : Begin(c, slots, isMany)
          \/ Read(c) \/ GiveUp(c) \/ Panic(c)
    \/ \E c \in Writers : CommitWrite(c) \/ Write(c)
    \/ \E e \in entries : Expire(e)
    \/ \E r \in Replicas : Restart(r)

Spec == Init /\ [][Next]_vars

\* The scheduler runs every goroutine that can run, and every operation carries
\* a deadline (Service.deadline), so a follower gives up in the end.
FairSpec ==
    /\ Spec
    /\ \A c \in Readers : WF_vars(Read(c)) /\ WF_vars(GiveUp(c))
    /\ \A c \in Writers : WF_vars(Write(c))

-----------------------------------------------------------------------------
(* Properties.                                                              *)

\* The key space a replica's own counter governs alone: an in-process cache, or
\* a shared one while nobody else, and no earlier life of this replica, has
\* moved a local counter.
OwnSpace(r) == adapter = "process" \/ movers \subseteq {<<r, life[r]>>}

\* A write whose Bump succeeded is seen by every read that begins after the
\* write returned: on any replica, through hits, shared queries and GetMany,
\* whatever other Bumps failed and whoever restarted.
BumpedWritesAreSeen ==
    \A c \in Calls : call[c].at = "done" =>
        \A d \in call[c].got : d >= call[c].floorShared

\* A write that moved the local counter is seen by every read its own process
\* begins afterwards, as long as that counter has its key space to itself.
OwnWritesAreSeen ==
    \A c \in Calls : call[c].at = "done" /\ OwnSpace(home[c]) =>
        \A d \in call[c].got : d >= call[c].floorOwn

\* A read shows every write it must, by either counter.
WritesAreSeen == BumpedWritesAreSeen /\ OwnWritesAreSeen

\* No entry predates the invalidations its key counts: what is stored under a
\* shared version was read after every write that version acknowledges, though
\* it may be stored long after the version has moved on.
EntriesMatchTheirKey ==
    \A e \in entries : e.ver <= shared /\ e.data >= sharedMark[e.ver]

\* A burst on one key costs one query: two leaders of one replica never query
\* the same key at once.
Leading(c) == call[c].at \in {"load", "store", "land"} /\ ~ call[c].many
OneQueryPerKey ==
    \A c, d \in Calls :
        c # d /\ Leading(c) /\ Leading(d) /\ home[c] = home[d] => KeyOf(c) # KeyOf(d)

\* Every operation ends, a follower's too when its leader's query panicked.
OperationsEnd == \A c \in Calls : call[c].at # "idle" ~> call[c].at = "idle"

\* db/cache.go says of a Bump that fails that the local counter "retires this
\* process's keys": the same promise without the condition OwnSpace.
FallbackRetiresOwnKeys ==
    \A c \in Calls : call[c].at = "done" =>
        \A d \in call[c].got : d >= call[c].floorOwn

=============================================================================
