----------------------- MODULE CachedCollectionProofs -----------------------
(***************************************************************************)
(* What CachedCollection promises, proved for every number of replicas,    *)
(* goroutines, keys and writes: types, and that acknowledged writes are    *)
(* seen by the reads that begin after them.                                *)
(***************************************************************************)
EXTENDS CachedCollection, TLAPS

-----------------------------------------------------------------------------
(* The inductive invariant.                                                 *)

\* A mark only grows with the counter it belongs to, and no write is
\* acknowledged before it is committed.  Only a Versioner has a shared counter.
MarksAreOrdered ==
    /\ adapter # "versioned" => shared = 0
    /\ \A i, j \in Commit : i <= j /\ j <= shared => sharedMark[i] <= sharedMark[j]
    /\ \A i \in Commit : sharedMark[i] <= commits
    /\ \A r \in Replicas : \A i, j \in Commit :
          i <= j /\ j <= local[r] => localMark[r][i] <= localMark[r][j]
    /\ \A r \in Replicas : \A i \in Commit : localMark[r][i] <= commits
    /\ \A r \in Replicas : localMark[r][0] = 0

\* movers knows every counter that has moved, and no life that is yet to come.
MoversAreKnown ==
    /\ \A r \in Replicas : local[r] # 0 => <<r, life[r]>> \in movers
    /\ \A m \in movers : m[2] <= life[m[1]]

\* Where a replica's counter has its key space to itself, an entry is as recent
\* as the local half of its key, too.
EntriesMatchOwnKey ==
    \A r \in Replicas : OwnSpace(r) =>
        \A e \in entries : e.store = StoreOf(r) =>
            e.loc <= local[r] /\ e.data >= localMark[r][e.loc]

\* What has to hold of the record k of a call at each step of its way: the
\* marks of its key lie between the writes it must show and the commits it has
\* in hand.
Versioned(k) ==
    k.at \in {"local", "lookup", "share", "wait", "load", "store", "land", "wake"} =>
        /\ k.ver <= shared
        /\ k.floorShared <= sharedMark[k.ver]
        /\ \A d \in k.got : d >= sharedMark[k.ver]

Localised(r, k) ==
    k.at \in {"lookup", "share", "wait", "load", "store", "land", "wake"} =>
        /\ k.loc <= local[r]
        /\ k.floorOwn <= localMark[r][k.loc]
        /\ OwnSpace(r) => \A d \in k.got : d >= localMark[r][k.loc]

Sound(r, k) ==
    /\ k.floorShared <= commits /\ k.floorOwn <= commits
    /\ k.at = "version" => k.floorShared <= sharedMark[shared]
    /\ k.at \in {"version", "local"} => k.floorOwn <= localMark[r][local[r]] /\ k.got = {}
    /\ Versioned(k)
    /\ Localised(r, k)
    /\ k.at = "store" => k.data >= sharedMark[k.ver] /\ k.data >= localMark[r][k.loc]
    /\ k.at = "invalidate" => k.data <= commits
    /\ k.at = "done" => /\ \A d \in k.got : d >= k.floorShared
                        /\ OwnSpace(r) => \A d \in k.got : d >= k.floorOwn

CallsAreSound == \A c \in Calls : Sound(home[c], call[c])

IInv ==
    /\ TypeOK
    /\ MarksAreOrdered
    /\ MoversAreKnown
    /\ EntriesMatchTheirKey
    /\ EntriesMatchOwnKey
    /\ CallsAreSound

-----------------------------------------------------------------------------
(* Facts about the state, cited below.                                      *)

\* A call that has just begun, or just ended, is a call.
LEMMA NewCallIsCall == NewCall \in Call
  BY ConstantsAssumption DEF NewCall, Call, Steps, Commit

\* Nothing holds a finished call to anything.
LEMMA NewCallIsSound ==
  ASSUME TypeOK, NEW r \in Replicas
  PROVE  Sound(r, NewCall)
  BY DEF TypeOK, Sound, Versioned, Localised, NewCall, Commit

\* An answer keeps the call's floors, so it is sound if it is as recent.
LEMMA AnsweredIsSound ==
  ASSUME TypeOK, NEW r \in Replicas, NEW k \in Call, NEW answer \in SUBSET Commit,
         k.floorShared <= commits, k.floorOwn <= commits,
         \A d \in answer : d >= k.floorShared,
         OwnSpace(r) => \A d \in answer : d >= k.floorOwn
  PROVE  Answered(k, answer) \in Call /\ Sound(r, Answered(k, answer))
<1>1. Answered(k, answer) \in Call
  <2>1. NewCall \in Call
    BY NewCallIsCall
  <2>2. k.floorShared \in Commit /\ k.floorOwn \in Commit
    BY DEF Call
  <2>3. QED
    BY <2>1, <2>2 DEF Answered, Call, Steps
<1>2. /\ Answered(k, answer).at = "done"
      /\ Answered(k, answer).got = answer
      /\ Answered(k, answer).floorShared = k.floorShared
      /\ Answered(k, answer).floorOwn = k.floorOwn
  BY DEF Answered, NewCall
<1>3. QED
  BY <1>1, <1>2 DEF Sound, Versioned, Localised

\* The steps a call takes under its key.
UnderKey == {"lookup", "share", "wait", "load", "store", "land", "wake"}

\* A call that moves on under its key stays sound.
LEMMA MovingOnIsSound ==
  ASSUME NEW r \in Replicas, NEW k \in Call, Sound(r, k), k.at \in UnderKey,
         NEW a \in UnderKey \ {"store"}
  PROVE  [k EXCEPT !.at = a] \in Call /\ Sound(r, [k EXCEPT !.at = a])
<1> DEFINE n == [k EXCEPT !.at = a]
<1>1. n \in Call
  BY DEF Call, Steps, UnderKey
<1>2. /\ n.at = a /\ n.ver = k.ver /\ n.loc = k.loc /\ n.got = k.got
      /\ n.floorShared = k.floorShared /\ n.floorOwn = k.floorOwn
  BY DEF Call
<1> HIDE DEF n
<1>3. Sound(r, n)
  BY <1>2 DEF Sound, Versioned, Localised, UnderKey
<1>4. QED
  BY <1>1, <1>3 DEF n

\* What a call has found under its key lies above the floors it began with: its
\* answer is sound.
LEMMA AnsweringIsSound ==
  ASSUME IInv, NEW r \in Replicas, NEW k \in Call, Sound(r, k), k.at \in UnderKey
  PROVE  Answered(k, k.got) \in Call /\ Sound(r, Answered(k, k.got))
<1>1. /\ k.ver \in Commit /\ k.loc \in Commit
      /\ k.got \in SUBSET Commit
      /\ k.floorShared \in Commit /\ k.floorOwn \in Commit
      /\ sharedMark[k.ver] \in Commit /\ localMark[r][k.loc] \in Commit
  BY DEF IInv, TypeOK, Call
<1>2. /\ k.floorShared <= sharedMark[k.ver] /\ \A d \in k.got : d >= sharedMark[k.ver]
      /\ k.floorOwn <= localMark[r][k.loc]
      /\ OwnSpace(r) => \A d \in k.got : d >= localMark[r][k.loc]
      /\ k.floorShared <= commits /\ k.floorOwn <= commits
  BY DEF Sound, Versioned, Localised, UnderKey
<1>3. \A d \in k.got : d >= k.floorShared
  BY <1>1, <1>2 DEF Commit
<1>4. OwnSpace(r) => \A d \in k.got : d >= k.floorOwn
  BY <1>1, <1>2 DEF Commit
<1>5. QED
  BY <1>1, <1>2, <1>3, <1>4, AnsweredIsSound DEF IInv

\* Most steps change the records of calls and nothing else: they keep the
\* invariant if the new records are sound.
LEMMA CallsStep ==
  ASSUME IInv, call' \in [Calls -> Call],
         \A d \in Calls : Sound(home[d], call'[d]),
         UNCHANGED <<commits, adapterVars, local, life, markVars>>,
         flights' \in [Replicas -> SUBSET Flight],
         panics' \in 0..MaxPanics, bumpErrors' \in 0..MaxBumpErrors
  PROVE  IInv'
<1> USE DEF IInv, adapterVars, markVars
<1>1. TypeOK'
  BY DEF TypeOK
<1>2. MarksAreOrdered' /\ MoversAreKnown'
  BY DEF MarksAreOrdered, MoversAreKnown
<1>3. EntriesMatchTheirKey' /\ EntriesMatchOwnKey'
  BY DEF EntriesMatchTheirKey, EntriesMatchOwnKey, OwnSpace, StoreOf
<1>4. CallsAreSound'
  BY DEF CallsAreSound, Sound, Versioned, Localised, OwnSpace
<1>5. QED
  BY <1>1, <1>2, <1>3, <1>4

\* The same for the record of one call.
LEMMA CallStep ==
  ASSUME IInv, NEW c \in Calls, NEW k \in Call, Sound(home[c], k),
         call' = [call EXCEPT ![c] = k],
         UNCHANGED <<commits, adapterVars, local, life, markVars>>,
         flights' \in [Replicas -> SUBSET Flight],
         panics' \in 0..MaxPanics, bumpErrors' \in 0..MaxBumpErrors
  PROVE  IInv'
<1>1. call' \in [Calls -> Call] /\ \A d \in Calls : Sound(home[d], call'[d])
  BY DEF IInv, TypeOK, CallsAreSound
<1>2. QED
  BY <1>1, CallsStep

-----------------------------------------------------------------------------
(* One lemma per step of a read.                                            *)

\* The marks of the present versions bound the floors of a read that begins.
LEMMA BeginStep ==
  ASSUME IInv, NEW c \in Calls, NEW slots \in SUBSET Slots, NEW isMany \in BOOLEAN,
         Begin(c, slots, isMany)
  PROVE  IInv'
<1>1. PICK start \in {"version", "bypass"} :
        call' = [call EXCEPT ![c] =
                   [NewCall EXCEPT !.at = start, !.many = isMany,
                                   !.want = slots, !.todo = slots,
                                   !.floorShared = sharedMark[shared],
                                   !.floorOwn = localMark[home[c]][local[home[c]]]]]
  BY DEF Begin
<1> DEFINE k == [NewCall EXCEPT !.at = start, !.many = isMany,
                                !.want = slots, !.todo = slots,
                                !.floorShared = sharedMark[shared],
                                !.floorOwn = localMark[home[c]][local[home[c]]]]
<1>2. /\ home[c] \in Replicas
      /\ sharedMark[shared] \in Commit /\ sharedMark[shared] <= commits
      /\ localMark[home[c]][local[home[c]]] \in Commit
      /\ localMark[home[c]][local[home[c]]] <= commits
  BY DEF IInv, TypeOK, MarksAreOrdered
<1>3. k \in Call
  BY <1>2, NewCallIsCall DEF Call, Steps
<1>4. /\ k.at = start /\ k.got = {}
      /\ k.floorShared = sharedMark[shared]
      /\ k.floorOwn = localMark[home[c]][local[home[c]]]
  BY DEF NewCall
<1>5. Sound(home[c], k)
  <2> HIDE DEF k
  <2>1. QED
    BY <1>2, <1>3, <1>4 DEF Sound, Versioned, Localised, Call, Commit
<1>6. QED
  BY <1>1, <1>3, <1>5, CallStep DEF Begin, boundVars, serviceVars, IInv, TypeOK

\* The shared version a read takes for its key is the one its shared floor was
\* noted under, or a later one.
LEMMA ReadVersionStep ==
  ASSUME IInv, NEW c \in Calls, ReadVersion(c)
  PROVE  IInv'
<1> DEFINE v == IF adapter = "versioned" THEN shared ELSE 0
           k == [call[c] EXCEPT !.at = "local", !.ver = v]
<1>1. /\ call[c] \in Call /\ call[c].at = "version" /\ Sound(home[c], call[c])
      /\ home[c] \in Replicas /\ v \in Commit /\ v <= shared
  BY ConstantsAssumption DEF IInv, TypeOK, CallsAreSound, ReadVersion, Commit
<1>2. k \in Call
  BY <1>1 DEF Call, Steps
<1>3. /\ k.at = "local" /\ k.ver = v /\ k.got = call[c].got
      /\ k.floorShared = call[c].floorShared /\ k.floorOwn = call[c].floorOwn
  BY <1>1 DEF Call
<1>4. v = shared
  BY DEF IInv, MarksAreOrdered
<1>5. k.floorShared <= sharedMark[v]
  BY <1>1, <1>3, <1>4 DEF Sound
<1>6. Sound(home[c], k)
  <2> HIDE DEF k, v
  <2>1. QED
    BY <1>1, <1>3, <1>5 DEF Sound, Versioned, Localised
<1>7. QED
  BY <1>2, <1>6, CallStep DEF ReadVersion, boundVars, serviceVars, IInv, TypeOK

\* A read that gives the cache up keeps its floors, and has nothing to answer yet.
LEMMA VersionUnreadableStep ==
  ASSUME IInv, NEW c \in Calls, VersionUnreadable(c)
  PROVE  IInv'
<1> DEFINE k == [call[c] EXCEPT !.at = "bypass"]
<1>1. call[c] \in Call /\ Sound(home[c], call[c])
  BY DEF IInv, TypeOK, CallsAreSound
<1>2. k \in Call
  BY <1>1 DEF Call, Steps
<1>3. Sound(home[c], k)
  BY <1>1 DEF Sound, Versioned, Localised, Call
<1>4. QED
  BY <1>2, <1>3, CallStep DEF VersionUnreadable, boundVars, serviceVars, IInv, TypeOK

\* The same for the local counter, and from here on the key is complete.
LEMMA ReadLocalStep ==
  ASSUME IInv, NEW c \in Calls, ReadLocal(c)
  PROVE  IInv'
<1> DEFINE k == [call[c] EXCEPT !.at = "lookup", !.loc = local[home[c]]]
<1>1. /\ call[c] \in Call /\ call[c].at = "local" /\ Sound(home[c], call[c])
      /\ home[c] \in Replicas /\ local[home[c]] \in Commit
  BY DEF IInv, TypeOK, CallsAreSound, ReadLocal
<1>2. k \in Call
  BY <1>1 DEF Call, Steps
<1>3. /\ k.at = "lookup" /\ k.loc = local[home[c]]
      /\ k.ver = call[c].ver /\ k.got = call[c].got
      /\ k.floorShared = call[c].floorShared /\ k.floorOwn = call[c].floorOwn
  BY <1>1 DEF Call
<1>4. Sound(home[c], k)
  <2> HIDE DEF k
  <2>1. QED
    BY <1>1, <1>3 DEF Sound, Versioned, Localised, Commit
<1>5. QED
  BY <1>2, <1>4, CallStep DEF ReadLocal, boundVars, serviceVars, IInv, TypeOK

\* What a lookup finds lies under the call's own key, and so is as recent as
\* the marks of that key.
LEMMA FoundIsRecent ==
  ASSUME IInv, NEW c \in Calls, NEW s \in Slots, NEW e \in Found(c, s)
  PROVE  /\ e.data \in Commit
         /\ e.data >= sharedMark[call[c].ver]
         /\ OwnSpace(home[c]) => e.data >= localMark[home[c]][call[c].loc]
<1>1. e \in entries /\ e \in Entry /\ home[c] \in Replicas
  BY DEF IInv, TypeOK, Found
<1>2. e.store = StoreOf(home[c]) /\ e.ver = call[c].ver /\ e.loc = call[c].loc
  BY DEF Found
<1>3. QED
  BY <1>1, <1>2 DEF IInv, EntriesMatchTheirKey, EntriesMatchOwnKey, Entry

\* A lookup adds only what lies under the call's key.
LEMMA LookupStep ==
  ASSUME IInv, NEW c \in Calls, NEW s \in Slots, Lookup(c, s)
  PROVE  IInv'
<1> DEFINE k == [call[c] EXCEPT !.todo = @ \ {s},
                                !.missed = IF Found(c, s) = {} THEN @ \cup {s} ELSE @,
                                !.got = @ \cup {e.data : e \in Found(c, s)}]
           n == IF k.todo = {} THEN AfterLookups(k) ELSE k
<1>1. /\ call[c] \in Call /\ call[c].at = "lookup" /\ Sound(home[c], call[c])
      /\ home[c] \in Replicas
  BY DEF IInv, TypeOK, CallsAreSound, Lookup
<1>2. k \in Call
  <2>1. \A e \in Found(c, s) : e.data \in Commit
    BY <1>1, FoundIsRecent
  <2>2. /\ call[c].todo \ {s} \in SUBSET Slots
        /\ (IF Found(c, s) = {} THEN call[c].missed \cup {s} ELSE call[c].missed) \in SUBSET Slots
    BY <1>1 DEF Call
  <2>3. call[c].got \cup {e.data : e \in Found(c, s)} \in SUBSET Commit
    BY <1>1, <2>1 DEF Call
  <2> DEFINE k1 == [call[c] EXCEPT !.todo = @ \ {s},
                                   !.missed = IF Found(c, s) = {} THEN @ \cup {s} ELSE @]
  <2>4. k = [k1 EXCEPT !.got = call[c].got \cup {e.data : e \in Found(c, s)}]
    BY <1>1 DEF Call
  <2>5. k1 \in Call
    BY <1>1, <2>2 DEF Call
  <2> HIDE DEF k, k1
  <2>6. QED
    BY <2>3, <2>4, <2>5 DEF Call
<1>3. /\ k.at = "lookup" /\ k.ver = call[c].ver /\ k.loc = call[c].loc
      /\ k.got = call[c].got \cup {e.data : e \in Found(c, s)}
      /\ k.floorShared = call[c].floorShared /\ k.floorOwn = call[c].floorOwn
  BY <1>1 DEF Call
<1> HIDE DEF k
<1>4. Sound(home[c], k)
  BY <1>1, <1>3, FoundIsRecent DEF Sound, Versioned, Localised
<1>5. n \in Call /\ Sound(home[c], n)
  <2>1. CASE k.todo # {}
    BY <2>1, <1>2, <1>4
  <2>2. CASE k.todo = {} /\ k.missed = {}
    BY <2>2, <1>1, <1>2, <1>3, <1>4, AnsweringIsSound DEF AfterLookups, UnderKey
  <2>3. CASE k.todo = {} /\ k.missed # {}
    <3>1. \E a \in {"load", "share"} : n = [k EXCEPT !.at = a]
      BY <2>3, <1>2 DEF AfterLookups, Call
    <3>2. QED
      BY <1>1, <1>2, <1>3, <1>4, <3>1, MovingOnIsSound DEF UnderKey
  <2>4. QED
    BY <2>1, <2>2, <2>3
<1>6. call' = [call EXCEPT ![c] = n]
  BY DEF Lookup, k
<1>7. QED
  BY <1>5, <1>6, CallStep DEF Lookup, boundVars, serviceVars, IInv, TypeOK

\* Leading moves the call on, and records its flight.
LEMMA LeadStep ==
  ASSUME IInv, NEW c \in Calls, Lead(c)
  PROVE  IInv'
<1>1. call[c] \in Call /\ call[c].at = "share" /\ Sound(home[c], call[c]) /\ home[c] \in Replicas
  BY DEF IInv, TypeOK, CallsAreSound, Lead
<1>2. [key |-> KeyOf(c), lead |-> c] \in Flight
  BY <1>1 DEF KeyOf, Flight, Key, Call
<1>3. flights' \in [Replicas -> SUBSET Flight]
  BY <1>1, <1>2 DEF Lead, IInv, TypeOK
<1>4. QED
  BY <1>1, <1>3, MovingOnIsSound, CallStep DEF Lead, UnderKey, boundVars, IInv, TypeOK

\* A follower waits for a leader whose key is its own.
LEMMA JoinStep ==
  ASSUME IInv, NEW c \in Calls, Join(c)
  PROVE  IInv'
<1>1. call[c] \in Call /\ call[c].at = "share" /\ Sound(home[c], call[c]) /\ home[c] \in Replicas
  BY DEF IInv, TypeOK, CallsAreSound, Join
<1>2. PICK f \in flights[home[c]] :
        call' = [call EXCEPT ![c] = [@ EXCEPT !.at = "wait", !.on = f.lead]]
  BY DEF Join
<1>3. f.lead \in Calls
  BY <1>1, <1>2 DEF IInv, TypeOK, Flight
<1> DEFINE k == [call[c] EXCEPT !.on = f.lead]
           n == [k EXCEPT !.at = "wait"]
<1>4. k \in Call /\ k.at = "share" /\ Sound(home[c], k)
  BY <1>1, <1>3 DEF Call, Sound, Versioned, Localised
<1>5. n \in Call /\ Sound(home[c], n)
  BY <1>1, <1>4, MovingOnIsSound DEF UnderKey
<1>6. call' = [call EXCEPT ![c] = n]
  BY <1>1, <1>2 DEF Call
<1>7. QED
  BY <1>5, <1>6, CallStep DEF Join, boundVars, serviceVars, IInv, TypeOK

\* The backend answers with the present commit, and no mark is above it.
LEMMA LoadStep ==
  ASSUME IInv, NEW c \in Calls, Load(c)
  PROVE  IInv'
<1> DEFINE k == [call[c] EXCEPT !.at = "store", !.data = commits, !.got = @ \cup {commits}]
<1>1. /\ call[c] \in Call /\ call[c].at = "load" /\ Sound(home[c], call[c])
      /\ home[c] \in Replicas /\ commits \in Commit
  BY DEF IInv, TypeOK, CallsAreSound, Load
<1>2. k \in Call
  BY <1>1 DEF Call, Steps
<1>3. /\ k.at = "store" /\ k.ver = call[c].ver /\ k.loc = call[c].loc /\ k.data = commits
      /\ k.got = call[c].got \cup {commits}
      /\ k.floorShared = call[c].floorShared /\ k.floorOwn = call[c].floorOwn
  BY <1>1 DEF Call
<1>4. sharedMark[call[c].ver] <= commits /\ localMark[home[c]][call[c].loc] <= commits
  BY <1>1 DEF IInv, MarksAreOrdered, Call
<1>5. /\ sharedMark[call[c].ver] \in Commit /\ localMark[home[c]][call[c].loc] \in Commit
  BY <1>1 DEF IInv, TypeOK, Call
<1>6. Sound(home[c], k)
  <2> HIDE DEF k
  <2>1. QED
    BY <1>1, <1>3, <1>4, <1>5 DEF Sound, Versioned, Localised, Commit
<1>7. QED
  BY <1>2, <1>6, CallStep DEF Load, boundVars, serviceVars, IInv, TypeOK

\* A call with its results, or with none, answers or finishes its flight.
LEMMA AfterLoadIsSound ==
  ASSUME IInv, NEW r \in Replicas, NEW k \in Call, Sound(r, k), k.at \in UnderKey
  PROVE  AfterLoad(k) \in Call /\ Sound(r, AfterLoad(k))
<1>1. CASE k.many
  BY <1>1, AnsweringIsSound DEF AfterLoad
<1>2. CASE ~ k.many
  <2>1. AfterLoad(k) = [k EXCEPT !.at = "land"] /\ "land" \in UnderKey \ {"store"}
    BY <1>2 DEF AfterLoad, UnderKey
  <2>2. QED
    BY <2>1, MovingOnIsSound
<1>3. QED
  BY <1>1, <1>2

\* A failed query answers with nothing, which no floor forbids.
LEMMA LoadFailsStep ==
  ASSUME IInv, NEW c \in Calls, LoadFails(c)
  PROVE  IInv'
<1> DEFINE k == [call[c] EXCEPT !.got = {}]
<1>1. /\ call[c] \in Call /\ call[c].at = "load" /\ Sound(home[c], call[c])
      /\ home[c] \in Replicas
  BY DEF IInv, TypeOK, CallsAreSound, LoadFails
<1>2. k \in Call /\ k.at = "load" /\ Sound(home[c], k)
  BY <1>1 DEF Call, Sound, Versioned, Localised
<1>3. AfterLoad(k) \in Call /\ Sound(home[c], AfterLoad(k))
  BY <1>1, <1>2, AfterLoadIsSound DEF UnderKey
<1>4. QED
  BY <1>3, CallStep DEF LoadFails, boundVars, serviceVars, IInv, TypeOK

\* What a call stores is as recent as the key it stores it under, which may be
\* older than the present one.
LEMMA StoreStep ==
  ASSUME IInv, NEW c \in Calls, NEW s \in Slots, Store(c, s)
  PROVE  IInv'
<1> DEFINE k == [call[c] EXCEPT !.missed = @ \ {s}]
           n == IF k.missed = {} THEN AfterLoad(k) ELSE k
           e == EntryOf(c, s)
<1>1. /\ call[c] \in Call /\ call[c].at = "store" /\ Sound(home[c], call[c])
      /\ home[c] \in Replicas
  BY DEF IInv, TypeOK, CallsAreSound, Store
<1>2. k \in Call
  BY <1>1 DEF Call
<1>3. /\ k.at = "store" /\ k.ver = call[c].ver /\ k.loc = call[c].loc
      /\ k.got = call[c].got /\ k.data = call[c].data
      /\ k.floorShared = call[c].floorShared /\ k.floorOwn = call[c].floorOwn
  BY <1>1 DEF Call
<1> HIDE DEF k
<1>4. Sound(home[c], k)
  BY <1>1, <1>3 DEF Sound, Versioned, Localised
<1>5. n \in Call /\ Sound(home[c], n)
  BY <1>1, <1>2, <1>3, <1>4, AfterLoadIsSound DEF UnderKey
<1>6. /\ e.store = StoreOf(home[c]) /\ e.ver = call[c].ver /\ e.loc = call[c].loc
      /\ e.data = call[c].data
  BY DEF EntryOf
<1>7. e \in Entry
  BY <1>1 DEF EntryOf, Entry, StoreOf, Stores, Call
<1>8. /\ call[c].ver <= shared /\ call[c].data >= sharedMark[call[c].ver]
      /\ call[c].loc <= local[home[c]] /\ call[c].data >= localMark[home[c]][call[c].loc]
  BY <1>1 DEF Sound, Versioned, Localised
<1>9. entries' \subseteq entries \cup {e}
  BY DEF Store
<1>10. CASE UNCHANGED entries
  BY <1>5, <1>10, CallStep DEF Store, k, adapterVars, boundVars, serviceVars, IInv, TypeOK
<1>11. CASE entries' = (entries \ Found(c, s)) \cup {e}
  <2>1. TypeOK'
    BY <1>5, <1>7, <1>9 DEF IInv, TypeOK, Store, k, boundVars, serviceVars, markVars
  <2>2. UNCHANGED <<commits, adapter, home, shared, local, life, flights, markVars>>
    BY DEF Store, serviceVars
  <2>3. MarksAreOrdered' /\ MoversAreKnown'
    BY <2>2 DEF IInv, MarksAreOrdered, MoversAreKnown, markVars
  <2>4. EntriesMatchTheirKey'
    BY <1>6, <1>8, <1>9, <2>2 DEF IInv, EntriesMatchTheirKey, markVars
  <2>5. EntriesMatchOwnKey'
    <3> SUFFICES ASSUME NEW r \in Replicas, OwnSpace(r),
                        NEW f \in entries', f.store = StoreOf(r)
                 PROVE  f.loc <= local[r] /\ f.data >= localMark[r][f.loc]
      BY <2>2 DEF EntriesMatchOwnKey, OwnSpace, StoreOf, markVars
    <3>1. CASE f \in entries
      BY <3>1 DEF IInv, EntriesMatchOwnKey
    <3>2. CASE f = e
      <4>1. CASE r = home[c]
        BY <1>6, <1>8, <3>2, <4>1
      <4>2. CASE r # home[c]
        <5>1. movers \subseteq {<<r, life[r]>>}
          BY <1>6, <3>2, <4>2 DEF OwnSpace, StoreOf
        <5>2. local[home[c]] = 0
          BY <1>1, <4>2, <5>1 DEF IInv, MoversAreKnown
        <5>3. f.loc \in Commit /\ f.loc <= 0 /\ f.data \in Commit
          BY <1>6, <1>7, <1>8, <3>2, <5>2 DEF Entry
        <5>4. f.loc = 0 /\ localMark[r][0] = 0 /\ local[r] \in Commit
          BY <5>3 DEF IInv, TypeOK, MarksAreOrdered, Commit
        <5>5. QED
          BY <5>3, <5>4 DEF Commit
      <4>3. QED
        BY <4>1, <4>2
    <3>3. QED
      BY <1>9, <3>1, <3>2
  <2>6. CallsAreSound'
    <3> SUFFICES ASSUME NEW d \in Calls PROVE Sound(home[d], call[d])'
      BY DEF CallsAreSound
    <3>1. Sound(home[d], call'[d])
      BY <1>5 DEF IInv, CallsAreSound, TypeOK, Store, k
    <3>2. QED
      BY <2>2, <3>1 DEF Sound, Versioned, Localised, OwnSpace, markVars
  <2>7. QED
    BY <2>1, <2>3, <2>4, <2>5, <2>6 DEF IInv
<1>12. QED
  BY <1>10, <1>11 DEF Store

\* Leaving the map moves the leader on, and takes no result from it.
LEMMA LandStep ==
  ASSUME IInv, NEW c \in Calls, Land(c)
  PROVE  IInv'
<1>1. call[c] \in Call /\ call[c].at = "land" /\ Sound(home[c], call[c]) /\ home[c] \in Replicas
  BY DEF IInv, TypeOK, CallsAreSound, Land
<1>2. flights' \in [Replicas -> SUBSET Flight]
  BY <1>1 DEF Land, IInv, TypeOK
<1>3. QED
  BY <1>1, <1>2, MovingOnIsSound, CallStep DEF Land, UnderKey, boundVars, IInv, TypeOK

\* A follower gets what the leader found under the key they share.
LEMMA WakeStep ==
  ASSUME IInv, NEW c \in Calls, Wake(c)
  PROVE  IInv'
<1>1. call[c] \in Call /\ call[c].at = "wake" /\ Sound(home[c], call[c])
  BY DEF IInv, TypeOK, CallsAreSound, Wake
<1>2. ASSUME NEW f \in Calls, f = c \/ f \in Followers(c)
      PROVE  Answered(call[f], call[c].got) \in Call
             /\ Sound(home[f], Answered(call[f], call[c].got))
  <2>1. /\ call[f] \in Call /\ Sound(home[f], call[f]) /\ home[f] \in Replicas
        /\ call[f].at \in UnderKey /\ home[f] = home[c]
    BY <1>1, <1>2 DEF IInv, TypeOK, CallsAreSound, Followers, UnderKey
  <2>2. call[f].ver = call[c].ver /\ call[f].loc = call[c].loc
    BY <1>2 DEF Followers, KeyOf
  <2> DEFINE k == [call[f] EXCEPT !.got = call[c].got]
  <2>3. k \in Call
    BY <1>1, <2>1 DEF Call
  <2>4. /\ k.at = call[f].at /\ k.ver = call[c].ver /\ k.loc = call[c].loc
        /\ k.got = call[c].got /\ k.data = call[f].data
        /\ k.floorShared = call[f].floorShared /\ k.floorOwn = call[f].floorOwn
    BY <2>1, <2>2 DEF Call
  <2> HIDE DEF k
  <2>5. k.at \in {"wait", "wake"}
    BY <1>1, <1>2, <2>4 DEF Followers
  <2>6. Sound(home[f], k)
    BY <1>1, <2>1, <2>2, <2>4, <2>5 DEF Sound, Versioned, Localised, UnderKey
  <2>7. Answered(k, k.got) \in Call /\ Sound(home[f], Answered(k, k.got))
    BY <2>1, <2>3, <2>4, <2>6, AnsweringIsSound
  <2>8. Answered(k, k.got) = Answered(call[f], call[c].got)
    BY <2>4 DEF Answered
  <2>9. QED
    BY <2>7, <2>8
<1>3. call' \in [Calls -> Call] /\ \A d \in Calls : Sound(home[d], call'[d])
  BY <1>2 DEF Wake, IInv, TypeOK, CallsAreSound
<1>4. QED
  BY <1>3, CallsStep DEF Wake, boundVars, serviceVars, IInv, TypeOK

\* A follower that gives up answers with nothing.
LEMMA GiveUpStep ==
  ASSUME IInv, NEW c \in Calls, GiveUp(c)
  PROVE  IInv'
<1>1. call[c] \in Call /\ Sound(home[c], call[c]) /\ home[c] \in Replicas
  BY DEF IInv, TypeOK, CallsAreSound
<1>2. Answered(call[c], {}) \in Call /\ Sound(home[c], Answered(call[c], {}))
  BY <1>1, AnsweredIsSound DEF IInv, Sound
<1>3. QED
  BY <1>2, CallStep DEF GiveUp, boundVars, serviceVars, IInv, TypeOK

\* A panic forgets the call, and leaves its flight behind.
LEMMA PanicStep ==
  ASSUME IInv, NEW c \in Calls, Panic(c)
  PROVE  IInv'
<1>1. home[c] \in Replicas /\ NewCall \in Call /\ Sound(home[c], NewCall)
  BY NewCallIsCall, NewCallIsSound DEF IInv, TypeOK
<1>2. panics' \in 0..MaxPanics
  BY ConstantsAssumption DEF Panic, IInv, TypeOK
<1>3. QED
  BY <1>1, <1>2, CallStep DEF Panic, serviceVars, IInv, TypeOK

\* An uncached read answers with the present commit: no floor is above it.
LEMMA ReadThroughStep ==
  ASSUME IInv, NEW c \in Calls, ReadThrough(c)
  PROVE  IInv'
<1>1. call[c] \in Call /\ Sound(home[c], call[c]) /\ home[c] \in Replicas /\ commits \in Commit
  BY DEF IInv, TypeOK, CallsAreSound
<1>2. PICK answer \in {{commits}, {}} : call' = [call EXCEPT ![c] = Answered(@, answer)]
  BY DEF ReadThrough
<1>3. call[c].floorShared <= commits /\ call[c].floorOwn <= commits
  BY <1>1 DEF Sound
<1>4. call[c].floorShared \in Commit /\ call[c].floorOwn \in Commit
  BY <1>1 DEF Call
<1>5. \A d \in answer : d \in Commit /\ d >= call[c].floorShared /\ d >= call[c].floorOwn
  BY <1>1, <1>3, <1>4 DEF Commit
<1>6. Answered(call[c], answer) \in Call /\ Sound(home[c], Answered(call[c], answer))
  BY <1>1, <1>3, <1>5, AnsweredIsSound DEF IInv
<1>7. QED
  BY <1>2, <1>6, CallStep DEF ReadThrough, boundVars, serviceVars, IInv, TypeOK

\* A call that has returned is held to nothing.
LEMMA ReturnStep ==
  ASSUME IInv, NEW c \in Calls, Return(c)
  PROVE  IInv'
<1>1. home[c] \in Replicas /\ NewCall \in Call /\ Sound(home[c], NewCall)
  BY NewCallIsCall, NewCallIsSound DEF IInv, TypeOK
<1>2. QED
  BY <1>1, CallStep DEF Return, boundVars, serviceVars, IInv, TypeOK

-----------------------------------------------------------------------------
(* One lemma per step of a write.                                           *)

\* A commit lies above every mark and under every answer still to come.
LEMMA CommitWriteStep ==
  ASSUME IInv, NEW c \in Calls, CommitWrite(c)
  PROVE  IInv'
<1> DEFINE k == [NewCall EXCEPT !.at = "invalidate", !.data = commits + 1]
<1>1. commits \in Commit /\ commits' = commits + 1 /\ commits' \in Commit /\ home[c] \in Replicas
  BY ConstantsAssumption DEF IInv, TypeOK, CommitWrite, Commit
<1>2. k \in Call
  BY <1>1, NewCallIsCall DEF Call, Steps
<1>3. UNCHANGED <<adapterVars, serviceVars, boundVars, markVars>> /\ call' = [call EXCEPT ![c] = k]
  BY DEF CommitWrite
<1> USE <1>3 DEF adapterVars, serviceVars, boundVars, markVars
<1>4. TypeOK'
  BY <1>1, <1>2 DEF IInv, TypeOK
<1>5. MarksAreOrdered' /\ MoversAreKnown'
  <2>1. \A m \in Commit : m <= commits => m <= commits'
    BY <1>1 DEF Commit
  <2>2. /\ \A i \in Commit : sharedMark[i] \in Commit
        /\ \A r \in Replicas, i \in Commit : localMark[r][i] \in Commit
    BY DEF IInv, TypeOK
  <2>3. QED
    BY <2>1, <2>2 DEF IInv, MarksAreOrdered, MoversAreKnown
<1>6. EntriesMatchTheirKey' /\ EntriesMatchOwnKey'
  BY DEF IInv, EntriesMatchTheirKey, EntriesMatchOwnKey, OwnSpace, StoreOf
<1>7. CallsAreSound'
  <2> SUFFICES ASSUME NEW d \in Calls PROVE Sound(home[d], call[d])'
    BY DEF CallsAreSound
  <2>1. CASE d = c
    <3>1. call'[d] = k
      BY <2>1 DEF IInv, TypeOK
    <3>2. /\ k.at = "invalidate" /\ k.data = commits'
          /\ k.floorShared = 0 /\ k.floorOwn = 0
      BY <1>1 DEF NewCall
    <3> HIDE DEF k
    <3>3. QED
      BY <1>1, <3>1, <3>2 DEF Sound, Versioned, Localised, Commit
  <2>2. CASE d # c
    <3>1. call'[d] = call[d] /\ call[d] \in Call /\ Sound(home[d], call[d])
      BY <2>2 DEF IInv, TypeOK, CallsAreSound
    <3>2. \A m \in Commit : m <= commits => m <= commits'
      BY <1>1 DEF Commit
    <3>3. /\ call[d].floorShared \in Commit /\ call[d].floorOwn \in Commit
          /\ call[d].data \in Commit
      BY <3>1 DEF Call
    <3>4. QED
      BY <3>1, <3>2, <3>3 DEF Sound, Versioned, Localised, OwnSpace
  <2>3. QED
    BY <2>1, <2>2
<1>8. QED
  BY <1>4, <1>5, <1>6, <1>7 DEF IInv

\* A Bump adds a mark above all others, and leaves those of every key in use.
LEMMA BumpStep ==
  ASSUME IInv, NEW c \in Calls, Bump(c)
  PROVE  IInv'
<1> DEFINE mark == Later(sharedMark[shared], call[c].data)
<1>1. /\ UNCHANGED <<commits, adapter, home, entries, serviceVars, boundVars, localMark, movers>>
      /\ shared' = shared + 1 /\ sharedMark' = [sharedMark EXCEPT ![shared + 1] = mark]
      /\ call' = [call EXCEPT ![c] = NewCall] /\ adapter = "versioned"
  BY DEF Bump
<1>2. shared \in Commit /\ shared' \in Commit /\ sharedMark[shared] \in Commit /\ commits \in Commit
  BY ConstantsAssumption DEF IInv, TypeOK, Bump, Commit
<1>3. call[c].data \in Commit /\ call[c].data <= commits
  BY DEF IInv, TypeOK, Call, CallsAreSound, Sound, Bump
<1>4. mark \in Commit /\ mark <= commits /\ sharedMark[shared] <= mark
  BY <1>2, <1>3 DEF Later, Commit, IInv, MarksAreOrdered
<1> HIDE DEF mark
<1>5. /\ sharedMark'[shared'] = mark
      /\ \A v \in Commit : v # shared' => sharedMark'[v] = sharedMark[v]
      /\ sharedMark' \in [Commit -> Commit]
  BY <1>1, <1>2, <1>4 DEF IInv, TypeOK
<1> USE DEF serviceVars, boundVars
<1>6. TypeOK'
  BY <1>1, <1>2, <1>5, NewCallIsCall DEF IInv, TypeOK
<1>7. MarksAreOrdered'
  <2>1. \A i, j \in Commit : i <= j /\ j <= shared' => sharedMark'[i] <= sharedMark'[j]
    <3> SUFFICES ASSUME NEW i \in Commit, NEW j \in Commit, i <= j, j <= shared'
                 PROVE  sharedMark'[i] <= sharedMark'[j]
      OBVIOUS
    <3>1. CASE j # shared'
      BY <1>1, <1>2, <1>5, <3>1 DEF IInv, MarksAreOrdered, Commit
    <3>2. CASE j = shared' /\ i = shared'
      BY <1>4, <1>5, <3>2 DEF Commit
    <3>3. CASE j = shared' /\ i # shared'
      <4>1. i <= shared /\ sharedMark[i] <= sharedMark[shared] /\ sharedMark[i] \in Commit
        BY <1>1, <1>2, <3>3 DEF IInv, TypeOK, MarksAreOrdered, Commit
      <4>2. QED
        BY <1>2, <1>4, <1>5, <3>3, <4>1 DEF Commit
    <3>4. QED
      BY <3>1, <3>2, <3>3
  <2>2. \A i \in Commit : sharedMark'[i] <= commits'
    BY <1>1, <1>4, <1>5 DEF IInv, MarksAreOrdered
  <2>3. QED
    BY <1>1, <2>1, <2>2 DEF IInv, MarksAreOrdered
<1>8. MoversAreKnown' /\ EntriesMatchOwnKey'
  BY <1>1 DEF IInv, MoversAreKnown, EntriesMatchOwnKey, OwnSpace, StoreOf
<1>9. EntriesMatchTheirKey'
  <2> SUFFICES ASSUME NEW e \in entries PROVE e.ver <= shared' /\ e.data >= sharedMark'[e.ver]
    BY <1>1 DEF EntriesMatchTheirKey
  <2>1. e.ver \in Commit /\ e.ver <= shared /\ e.data >= sharedMark[e.ver]
    BY DEF IInv, TypeOK, Entry, EntriesMatchTheirKey
  <2>2. QED
    BY <1>1, <1>2, <1>5, <2>1 DEF Commit
<1>10. CallsAreSound'
  <2> SUFFICES ASSUME NEW d \in Calls PROVE Sound(home[d], call[d])'
    BY DEF CallsAreSound
  <2>1. CASE d = c
    <3>1. call'[d] = NewCall /\ home'[d] \in Replicas
      BY <1>1, <2>1 DEF IInv, TypeOK
    <3>2. QED
      BY <1>1, <1>2, <1>6, <3>1 DEF NewCall, Sound, Versioned, Localised, Commit
  <2>2. CASE d # c
    <3>1. call'[d] = call[d] /\ call[d] \in Call /\ Sound(home[d], call[d])
      BY <1>1, <2>2 DEF IInv, TypeOK, CallsAreSound
    <3>2. call[d].ver <= shared => sharedMark'[call[d].ver] = sharedMark[call[d].ver]
      BY <1>1, <1>2, <1>5, <3>1 DEF Call, Commit
    <3>3. call[d].floorShared <= sharedMark[shared] => call[d].floorShared <= sharedMark'[shared']
      BY <1>2, <1>4, <1>5, <3>1 DEF Call, Commit
    <3>4. call[d].ver <= shared => call[d].ver <= shared'
      BY <1>1, <1>2, <3>1 DEF Call, Commit
    <3>5. QED
      BY <1>1, <3>1, <3>2, <3>3, <3>4 DEF Sound, Versioned, Localised, OwnSpace
  <2>3. QED
    BY <2>1, <2>2
<1>11. QED
  BY <1>6, <1>7, <1>8, <1>9, <1>10 DEF IInv

\* The local counter's fallback does the same for its replica.  Its move takes
\* the key space away from every other replica that had it to itself.
LEMMA MoveLocalStep ==
  ASSUME IInv, NEW c \in Calls, MoveLocal(c)
  PROVE  IInv'
<1> DEFINE r == home[c]
           mark == Later(localMark[r][local[r]], call[c].data)
<1>1. /\ UNCHANGED <<commits, adapterVars, flights, life, panics, sharedMark>>
      /\ local' = [local EXCEPT ![r] = @ + 1]
      /\ localMark' = [localMark EXCEPT ![r] = [@ EXCEPT ![local[r] + 1] = mark]]
      /\ movers' = movers \cup {<<r, life[r]>>}
      /\ call' = [call EXCEPT ![c] = NewCall]
  BY DEF MoveLocal
<1>2. /\ r \in Replicas /\ local[r] \in Commit /\ local[r] + 1 \in Commit
      /\ localMark[r][local[r]] \in Commit /\ commits \in Commit
      /\ localMark[r] \in [Commit -> Commit]
  <2>1. /\ r \in Replicas /\ commits \in Commit
        /\ local \in [Replicas -> Commit] /\ localMark \in [Replicas -> [Commit -> Commit]]
    BY DEF IInv, TypeOK
  <2>2. local[r] < MaxCommits
    BY DEF MoveLocal
  <2> HIDE DEF r
  <2>3. local[r] \in Commit /\ local[r] + 1 \in Commit
    <3>1. local[r] \in Commit
      BY <2>1
    <3>2. QED
      BY <2>2, <3>1, ConstantsAssumption DEF Commit
  <2>4. localMark[r] \in [Commit -> Commit]
    BY <2>1
  <2>5. localMark[r][local[r]] \in Commit
    BY <2>3, <2>4
  <2>6. QED
    BY <2>1, <2>3, <2>4, <2>5
<1>3. call[c].data \in Commit /\ call[c].data <= commits
  BY DEF IInv, TypeOK, Call, CallsAreSound, Sound, MoveLocal
<1>4. mark \in Commit /\ mark <= commits /\ localMark[r][local[r]] <= mark
  BY <1>2, <1>3 DEF Later, Commit, IInv, MarksAreOrdered
<1>5. bumpErrors' \in 0..MaxBumpErrors
  BY ConstantsAssumption DEF IInv, TypeOK, MoveLocal
<1> HIDE DEF mark, r
<1>6. /\ local'[r] = local[r] + 1
      /\ \A q \in Replicas : q # r => local'[q] = local[q] /\ localMark'[q] = localMark[q]
      /\ localMark'[r][local'[r]] = mark
      /\ \A v \in Commit : v # local'[r] => localMark'[r][v] = localMark[r][v]
      /\ localMark' \in [Replicas -> [Commit -> Commit]]
      /\ local' \in [Replicas -> Commit]
  BY <1>1, <1>2, <1>4 DEF IInv, TypeOK
<1>7. \A q \in Replicas, v \in Commit : v <= local[q] => localMark'[q][v] = localMark[q][v]
  <2>1. \A v \in Commit : v <= local[r] => v # local'[r]
    BY <1>2, <1>6 DEF Commit
  <2>2. QED
    BY <1>6, <2>1
<1>8. \A q \in Replicas : local[q] <= local'[q] /\ local[q] \in Commit
  <2>1. \A q \in Replicas : local[q] \in Commit /\ local'[q] \in {local[q], local[q] + 1}
    BY <1>6 DEF IInv, TypeOK
  <2>2. QED
    BY <2>1 DEF Commit
<1>9. \A q \in Replicas : OwnSpace(q)' => OwnSpace(q)
  BY <1>1 DEF OwnSpace, adapterVars
<1> USE DEF adapterVars
<1>10. TypeOK'
  BY <1>1, <1>2, <1>5, <1>6, NewCallIsCall DEF IInv, TypeOK
<1>11. MarksAreOrdered'
  <2>1. ASSUME NEW q \in Replicas, NEW i \in Commit, NEW j \in Commit, i <= j, j <= local'[q]
        PROVE  localMark'[q][i] <= localMark'[q][j]
    <3>1. CASE q # r
      BY <1>6, <2>1, <3>1 DEF IInv, MarksAreOrdered
    <3>2. CASE q = r /\ j <= local[r]
      <4>1. i <= local[r]
        BY <1>2, <2>1, <3>2 DEF Commit
      <4>2. QED
        BY <1>2, <1>7, <2>1, <3>2, <4>1 DEF IInv, MarksAreOrdered
    <3>3. CASE q = r /\ ~ (j <= local[r])
      <4>1. j = local'[r]
        BY <1>2, <1>6, <2>1, <3>3 DEF Commit
      <4>2. CASE i = j
        BY <1>4, <1>6, <3>3, <4>1, <4>2 DEF Commit
      <4>3. CASE i # j
        <5>1. i <= local[r]
          BY <1>2, <1>6, <2>1, <4>1, <4>3 DEF Commit
        <5>2. localMark[r][i] <= localMark[r][local[r]] /\ localMark[r][i] \in Commit
          <6>1. local[r] <= local[r]
            BY <1>2 DEF Commit
          <6>2. QED
            BY <1>2, <5>1, <6>1 DEF IInv, MarksAreOrdered
        <5>3. localMark'[r][i] = localMark[r][i]
          BY <1>2, <1>7, <5>1
        <5>4. QED
          BY <1>2, <1>4, <1>6, <3>3, <4>1, <5>2, <5>3 DEF Commit
      <4>4. QED
        BY <4>2, <4>3
    <3>4. QED
      BY <3>1, <3>2, <3>3
  <2>2. ASSUME NEW q \in Replicas, NEW i \in Commit
        PROVE  localMark'[q][i] <= commits
    BY <1>2, <1>4, <1>6 DEF IInv, MarksAreOrdered
  <2>3. ASSUME NEW q \in Replicas
        PROVE  localMark'[q][0] = 0
    <3>1. 0 \in Commit
      BY ConstantsAssumption DEF Commit
    <3>2. local'[r] = local[r] + 1 /\ local[r] \in Commit
      BY <1>2, <1>6
    <3>3. 0 # local'[r]
      BY <3>2 DEF Commit
    <3>4. QED
      BY <1>6, <3>1, <3>3 DEF IInv, MarksAreOrdered
  <2>4. QED
    BY <1>1, <2>1, <2>2, <2>3 DEF IInv, MarksAreOrdered
<1>12. MoversAreKnown'
  <2>1. life \in [Replicas -> 0..MaxRestarts] /\ life' = life
    BY <1>1 DEF IInv, TypeOK
  <2>2. QED
    BY <1>1, <1>2, <1>6, <2>1 DEF IInv, MoversAreKnown
<1>13. EntriesMatchTheirKey'
  BY <1>1 DEF IInv, EntriesMatchTheirKey
<1>14. EntriesMatchOwnKey'
  <2> SUFFICES ASSUME NEW q \in Replicas, OwnSpace(q)', NEW e \in entries, e.store = StoreOf(q)
               PROVE  e.loc <= local'[q] /\ e.data >= localMark'[q][e.loc]
    BY <1>1 DEF EntriesMatchOwnKey, StoreOf
  <2>1. e.loc \in Commit /\ e.loc <= local[q] /\ e.data >= localMark[q][e.loc]
    BY <1>9 DEF IInv, TypeOK, Entry, EntriesMatchOwnKey
  <2>2. QED
    BY <1>6, <1>7, <1>8, <2>1 DEF Commit
<1>15. CallsAreSound'
  <2> SUFFICES ASSUME NEW d \in Calls PROVE Sound(home[d], call[d])'
    BY DEF CallsAreSound
  <2>1. home[d] \in Replicas /\ home' = home
    BY <1>1 DEF IInv, TypeOK
  <2>2. CASE d = c
    <3>1. call'[d] = NewCall
      BY <1>1, <2>2 DEF IInv, TypeOK
    <3>2. QED
      BY <1>1, <1>2, <2>1, <3>1 DEF NewCall, Sound, Versioned, Localised, Commit
  <2>3. CASE d # c
    <3>1. call'[d] = call[d] /\ call[d] \in Call /\ Sound(home[d], call[d])
      BY <1>1, <2>3 DEF IInv, TypeOK, CallsAreSound
    <3> DEFINE k == call[d]
    <3>2. /\ k.loc <= local[home[d]] =>
               k.loc <= local'[home[d]]
                 /\ localMark'[home[d]][k.loc] = localMark[home[d]][k.loc]
      BY <1>6, <1>7, <1>8, <2>1, <3>1 DEF Call, Commit
    <3>3. k.floorOwn <= localMark[home[d]][local[home[d]]] =>
             k.floorOwn <= localMark'[home[d]][local'[home[d]]]
      <4>1. k.floorOwn \in Commit
        BY <3>1 DEF Call
      <4>2. CASE home[d] = r
        BY <1>2, <1>4, <1>6, <4>1, <4>2 DEF Commit
      <4>3. CASE home[d] # r
        BY <1>6, <2>1, <4>3
      <4>4. QED
        BY <4>2, <4>3
    <3>4. OwnSpace(home[d])' => OwnSpace(home[d])
      BY <1>9, <2>1
    <3>5. QED
      BY <1>1, <2>1, <3>1, <3>2, <3>3, <3>4 DEF Sound, Versioned, Localised
  <2>4. QED
    BY <2>2, <2>3
<1>16. QED
  BY <1>10, <1>11, <1>12, <1>13, <1>14, <1>15 DEF IInv

\* A write that is not acknowledged leaves no mark.
LEMMA NotInvalidatedStep ==
  ASSUME IInv, NEW c \in Calls, NotInvalidated(c)
  PROVE  IInv'
<1>1. home[c] \in Replicas /\ NewCall \in Call /\ Sound(home[c], NewCall)
  BY NewCallIsCall, NewCallIsSound DEF IInv, TypeOK
<1>2. QED
  BY <1>1, CallStep DEF NotInvalidated, boundVars, serviceVars, IInv, TypeOK

-----------------------------------------------------------------------------
(* The environment.                                                         *)

\* Fewer entries are still sound.
LEMMA ExpireStep ==
  ASSUME IInv, NEW e \in entries, Expire(e)
  PROVE  IInv'
<1> USE DEF Expire, serviceVars, boundVars, markVars, IInv
<1>1. TypeOK'
  BY DEF TypeOK
<1>2. MarksAreOrdered' /\ MoversAreKnown'
  BY DEF MarksAreOrdered, MoversAreKnown
<1>3. EntriesMatchTheirKey' /\ EntriesMatchOwnKey'
  BY DEF EntriesMatchTheirKey, EntriesMatchOwnKey, OwnSpace, StoreOf
<1>4. CallsAreSound'
  BY DEF CallsAreSound, Sound, Versioned, Localised, OwnSpace
<1>5. QED
  BY <1>1, <1>2, <1>3, <1>4

\* A replica that comes back has its key space to itself only if no counter has
\* ever moved, its own included.
LEMMA RestartStep ==
  ASSUME IInv, NEW r \in Replicas, Restart(r)
  PROVE  IInv'
<1>1. /\ UNCHANGED <<commits, adapter, home, shared, boundVars, sharedMark, movers>>
      /\ life' = [life EXCEPT ![r] = @ + 1] /\ local' = [local EXCEPT ![r] = 0]
      /\ localMark' = [localMark EXCEPT ![r] = [v \in Commit |-> 0]]
      /\ entries' = {e \in entries : e.store # r}
      /\ call' = [c \in Calls |-> IF home[c] = r THEN NewCall ELSE call[c]]
  BY DEF Restart
<1>2. life[r] \in Nat /\ life'[r] = life[r] + 1 /\ life' \in [Replicas -> 0..MaxRestarts]
  BY ConstantsAssumption DEF Restart, IInv, TypeOK
<1>3. /\ local'[r] = 0 /\ \A v \in Commit : localMark'[r][v] = 0
      /\ 0 \in Commit
      /\ \A q \in Replicas : q # r => /\ local'[q] = local[q]
                                      /\ localMark'[q] = localMark[q]
                                      /\ life'[q] = life[q]
  BY <1>1, ConstantsAssumption DEF IInv, TypeOK, Commit
<1>4. \A q \in Replicas : q # r => (OwnSpace(q)' <=> OwnSpace(q))
  BY <1>1, <1>3 DEF OwnSpace
<1>5. movers \subseteq {<<r, life'[r]>>} => movers = {}
  BY <1>2 DEF IInv, MoversAreKnown
<1> USE DEF boundVars
<1>6. TypeOK'
  <2>1. local' \in [Replicas -> Commit] /\ localMark' \in [Replicas -> [Commit -> Commit]]
    BY <1>1, <1>3 DEF IInv, TypeOK
  <2>2. flights' \in [Replicas -> SUBSET Flight]
    BY DEF Restart, IInv, TypeOK
  <2>3. call' \in [Calls -> Call] /\ entries' \subseteq Entry
    BY <1>1, NewCallIsCall DEF IInv, TypeOK
  <2>4. QED
    BY <1>1, <1>2, <2>1, <2>2, <2>3 DEF IInv, TypeOK
<1>7. MarksAreOrdered'
  <2>1. ASSUME NEW q \in Replicas
        PROVE  /\ \A i, j \in Commit : i <= j /\ j <= local'[q] => localMark'[q][i] <= localMark'[q][j]
               /\ \A i \in Commit : localMark'[q][i] <= commits
               /\ localMark'[q][0] = 0
    <3>1. CASE q = r
      BY <1>3, <3>1 DEF IInv, TypeOK, Commit
    <3>2. CASE q # r
      BY <1>3, <3>2 DEF IInv, MarksAreOrdered
    <3>3. QED
      BY <3>1, <3>2
  <2>2. QED
    BY <1>1, <2>1 DEF IInv, MarksAreOrdered
<1>8. MoversAreKnown'
  <2>1. ASSUME NEW q \in Replicas, local'[q] # 0
        PROVE  <<q, life'[q]>> \in movers
    BY <1>3, <2>1 DEF IInv, MoversAreKnown
  <2>2. ASSUME NEW m \in movers
        PROVE  m[2] <= life'[m[1]]
    <3>1. m[1] \in Replicas /\ m[2] \in Nat /\ m[2] <= life[m[1]]
      BY DEF IInv, TypeOK, MoversAreKnown
    <3>2. QED
      BY <1>2, <1>3, <3>1
  <2>3. QED
    BY <1>1, <2>1, <2>2 DEF MoversAreKnown
<1>9. EntriesMatchTheirKey'
  BY <1>1 DEF IInv, EntriesMatchTheirKey
<1>10. EntriesMatchOwnKey'
  <2> SUFFICES ASSUME NEW q \in Replicas, OwnSpace(q)', NEW e \in entries',
                      e.store = StoreOf(q)
               PROVE  e.loc <= local'[q] /\ e.data >= localMark'[q][e.loc]
    BY <1>1 DEF EntriesMatchOwnKey, StoreOf
  <2>1. e \in entries /\ e.store # r /\ e \in Entry
    BY <1>1 DEF IInv, TypeOK
  <2>2. CASE q # r
    BY <1>3, <1>4, <2>1, <2>2 DEF IInv, EntriesMatchOwnKey
  <2>3. CASE q = r
    <3>1. adapter # "process"
      BY <2>1, <2>3 DEF StoreOf
    <3>2. movers = {}
      BY <1>1, <1>5, <2>3, <3>1 DEF OwnSpace
    <3>3. local[r] = 0 /\ OwnSpace(r)
      BY <3>2 DEF IInv, MoversAreKnown, OwnSpace
    <3>4. e.loc \in Commit /\ e.data \in Commit /\ e.loc <= 0
      BY <2>1, <2>3, <3>3 DEF IInv, EntriesMatchOwnKey, Entry
    <3>5. QED
      BY <1>3, <2>3, <3>4 DEF Commit
  <2>4. QED
    BY <2>2, <2>3
<1>11. CallsAreSound'
  <2> SUFFICES ASSUME NEW d \in Calls PROVE Sound(home[d], call[d])'
    BY DEF CallsAreSound
  <2>1. home[d] \in Replicas /\ home' = home
    BY <1>1 DEF IInv, TypeOK
  <2>2. CASE home[d] = r
    <3>1. call'[d] = NewCall /\ commits' \in Commit
      BY <1>1, <2>2 DEF IInv, TypeOK
    <3>2. QED
      BY <2>1, <3>1 DEF NewCall, Sound, Versioned, Localised, Commit
  <2>3. CASE home[d] # r
    <3>1. call'[d] = call[d] /\ Sound(home[d], call[d])
      BY <1>1, <2>3 DEF IInv, CallsAreSound
    <3>2. QED
      BY <1>1, <1>3, <1>4, <2>1, <2>3, <3>1 DEF Sound, Versioned, Localised
  <2>4. QED
    BY <2>2, <2>3
<1>12. QED
  BY <1>6, <1>7, <1>8, <1>9, <1>10, <1>11 DEF IInv

-----------------------------------------------------------------------------
(* The invariant, and what it implies.                                      *)

\* The initial states: nothing is stored, marked or asked.
LEMMA InitIsSound == Init => IInv
<1> SUFFICES ASSUME Init PROVE IInv
  OBVIOUS
<1> USE DEF Init
<1>1. 0 \in Commit
  BY ConstantsAssumption DEF Commit
<1>2. TypeOK
  BY <1>1, NewCallIsCall, ConstantsAssumption DEF TypeOK
<1>3. MarksAreOrdered /\ MoversAreKnown
  BY <1>1 DEF MarksAreOrdered, MoversAreKnown
<1>4. EntriesMatchTheirKey /\ EntriesMatchOwnKey
  BY DEF EntriesMatchTheirKey, EntriesMatchOwnKey
<1>5. CallsAreSound
  BY <1>2, NewCallIsSound DEF CallsAreSound, TypeOK
<1>6. QED
  BY <1>2, <1>3, <1>4, <1>5 DEF IInv

\* Every step keeps the invariant: one lemma above for each.
LEMMA NextIsSound == IInv /\ [Next]_vars => IInv'
<1> SUFFICES ASSUME IInv, [Next]_vars PROVE IInv'
  OBVIOUS
<1>1. ASSUME NEW c \in Calls, NEW slots \in SUBSET Slots, NEW isMany \in BOOLEAN,
             Begin(c, slots, isMany)
      PROVE  IInv'
  BY <1>1, BeginStep
<1>2. ASSUME NEW c \in Calls, Read(c)
      PROVE  IInv'
  BY <1>2, ReadVersionStep, VersionUnreadableStep, ReadLocalStep, LookupStep, StoreStep,
     LeadStep, JoinStep, LoadStep, LoadFailsStep, LandStep, WakeStep, ReadThroughStep,
     ReturnStep DEF Read
<1>3. ASSUME NEW c \in Calls, GiveUp(c) \/ Panic(c)
      PROVE  IInv'
  BY <1>3, GiveUpStep, PanicStep
<1>4. ASSUME NEW c \in Calls, CommitWrite(c) \/ Write(c)
      PROVE  IInv'
  BY <1>4, CommitWriteStep, BumpStep, MoveLocalStep, NotInvalidatedStep DEF Write
<1>5. ASSUME NEW e \in entries, Expire(e)
      PROVE  IInv'
  BY <1>5, ExpireStep
<1>6. ASSUME NEW r \in Replicas, Restart(r)
      PROVE  IInv'
  BY <1>6, RestartStep
<1>7. CASE UNCHANGED vars
  <2>1. UNCHANGED <<commits, adapterVars, local, flights, life, markVars, panics, bumpErrors, call>>
    BY <1>7 DEF vars, serviceVars, boundVars
  <2>2. call' \in [Calls -> Call] /\ \A d \in Calls : Sound(home[d], call'[d])
    BY <2>1 DEF IInv, TypeOK, CallsAreSound
  <2>3. QED
    BY <2>1, <2>2, CallsStep DEF IInv, TypeOK
<1>8. QED
  BY <1>1, <1>2, <1>3, <1>4, <1>5, <1>6, <1>7 DEF Next, Calls

\* The invariant holds throughout: every entry, every flight and every call of the
\* query cache is as recent as the key it is kept under.
THEOREM Invariance == Spec => []IInv
  BY InitIsSound, NextIsSound, PTL DEF Spec

\* The variables of the query cache always have their types: no goroutine, no
\* failed Bump and no restart takes a counter past the commits it counts.
THEOREM TypeCorrectness == Spec => []TypeOK
<1>1. IInv => TypeOK
  BY DEF IInv
<1>2. QED
  BY <1>1, Invariance, PTL

\* Whatever the number of replicas and goroutines, however often Bumps fail and
\* replicas restart: a read that begins after a bumped write returned shows it.
THEOREM BumpedWritesAreAlwaysSeen == Spec => []BumpedWritesAreSeen
<1>1. IInv => BumpedWritesAreSeen
  BY DEF IInv, CallsAreSound, Sound, BumpedWritesAreSeen
<1>2. QED
  BY <1>1, Invariance, PTL

\* A write that fell back on the local counter is shown by every later read of
\* its own process, while that counter has its key space to itself.
THEOREM OwnWritesAreAlwaysSeen == Spec => []OwnWritesAreSeen
<1>1. IInv => OwnWritesAreSeen
  BY DEF IInv, CallsAreSound, Sound, OwnWritesAreSeen
<1>2. QED
  BY <1>1, Invariance, PTL

\* Both together, as the runs check them.
THEOREM WritesAreAlwaysSeen == Spec => []WritesAreSeen
<1>1. BumpedWritesAreSeen /\ OwnWritesAreSeen => WritesAreSeen
  BY DEF WritesAreSeen
<1>2. QED
  BY <1>1, BumpedWritesAreAlwaysSeen, OwnWritesAreAlwaysSeen, PTL

\* What is stored under a version was read after the writes that version
\* acknowledges, though the version may be history when it is stored.
THEOREM EntriesAlwaysMatchTheirKey == Spec => []EntriesMatchTheirKey
<1>1. IInv => EntriesMatchTheirKey
  BY DEF IInv
<1>2. QED
  BY <1>1, Invariance, PTL

-----------------------------------------------------------------------------
(* One query per key.                                                       *)

\* Whoever leads a query has its flight in the map, and a key has one flight.
FlightsAreLed ==
    /\ \A c \in Calls : Leading(c) => [key |-> KeyOf(c), lead |-> c] \in flights[home[c]]
    /\ \A r \in Replicas : \A f, g \in flights[r] : f.key = g.key => f = g

\* A step that leaves the map alone starts no query, and changes no leader's key.
LEMMA FlightsStay ==
  ASSUME FlightsAreLed, UNCHANGED <<flights, home>>,
         \A d \in Calls : Leading(d)' => Leading(d) /\ KeyOf(d)' = KeyOf(d)
  PROVE  FlightsAreLed'
  BY DEF FlightsAreLed

\* The record of a call that leads nothing, or still leads what it led.
LeadsNoMore(c) ==
    \/ call'[c].at \notin {"load", "store", "land"}
    \/ call'[c].many
    \/ Leading(c) /\ KeyOf(c)' = KeyOf(c)

\* Such a step, when it replaces the record of one call.
LEMMA FlightsStayOneCall ==
  ASSUME FlightsAreLed, UNCHANGED <<flights, home>>, NEW c \in Calls,
         \A d \in Calls : d # c => call'[d] = call[d],
         LeadsNoMore(c)
  PROVE  FlightsAreLed'
<1> SUFFICES ASSUME NEW d \in Calls, Leading(d)'
             PROVE  Leading(d) /\ KeyOf(d)' = KeyOf(d)
  BY FlightsStay
<1>1. CASE d = c
  BY <1>1 DEF Leading, LeadsNoMore
<1>2. CASE d # c
  BY <1>2 DEF Leading, KeyOf
<1>3. QED
  BY <1>1, <1>2

\* What is answered leads nothing.
LEMMA AnsweredIsDone ==
  ASSUME NEW k, NEW answer
  PROVE  Answered(k, answer).at = "done"
  BY DEF Answered, NewCall

\* The steps of a read that leave the map alone, Wake aside.
QuietStep(c) ==
    \/ \E slots \in SUBSET Slots, isMany \in BOOLEAN : Begin(c, slots, isMany)
    \/ ReadVersion(c) \/ VersionUnreadable(c) \/ ReadLocal(c) \/ Join(c) \/ Load(c)
    \/ LoadFails(c) \/ GiveUp(c) \/ Panic(c) \/ ReadThrough(c) \/ Return(c)
    \/ \E s \in Slots : Lookup(c, s) \/ Store(c, s)

\* They replace one record, and touch neither the map nor the placement.
LEMMA QuietStepIsLocal ==
  ASSUME TypeOK, NEW c \in Calls, QuietStep(c)
  PROVE  /\ UNCHANGED <<flights, home>>
         /\ \A d \in Calls : d # c => call'[d] = call[d]
<1>1. UNCHANGED <<flights, home>>
  BY DEF QuietStep, Begin, ReadVersion, VersionUnreadable, ReadLocal, Join, Load, LoadFails,
         GiveUp, Panic, ReadThrough, Return, Lookup, Store, adapterVars, serviceVars
<1>2. ASSUME NEW d \in Calls, d # c
      PROVE  call'[d] = call[d]
  BY <1>2 DEF TypeOK, QuietStep, Begin, ReadVersion, VersionUnreadable, ReadLocal, Join, Load,
              LoadFails, GiveUp, Panic, ReadThrough, Return, Lookup, Store
<1>3. QED
  BY <1>1, <1>2

\* A step that leaves the map alone moves no call into a query, nor changes the
\* key of one that is in it.
LEMMA QuietStepLeads ==
  ASSUME TypeOK, NEW c \in Calls, QuietStep(c)
  PROVE  LeadsNoMore(c)
<1> USE DEF LeadsNoMore
<1>1. call[c] \in Call /\ home' = home
  BY QuietStepIsLocal DEF TypeOK
<1>2. CASE \E slots \in SUBSET Slots, isMany \in BOOLEAN : Begin(c, slots, isMany)
  <2>1. call'[c].at \in {"version", "bypass"}
    BY <1>2 DEF Begin, NewCall, TypeOK
  <2>2. QED
    BY <2>1
<1>3. CASE ReadVersion(c) \/ VersionUnreadable(c) \/ ReadLocal(c) \/ Join(c)
  <2>1. call'[c].at \in {"local", "bypass", "lookup", "wait"}
    <3>1. CASE ReadVersion(c)
      BY <1>1, <3>1 DEF ReadVersion, TypeOK, Call
    <3>2. CASE VersionUnreadable(c)
      BY <1>1, <3>2 DEF VersionUnreadable, TypeOK, Call
    <3>3. CASE ReadLocal(c)
      BY <1>1, <3>3 DEF ReadLocal, TypeOK, Call
    <3>4. CASE Join(c)
      BY <1>1, <3>4 DEF Join, TypeOK, Call
    <3>5. QED
      BY <1>3, <3>1, <3>2, <3>3, <3>4
  <2>2. QED
    BY <2>1
<1>4. CASE Load(c)
  <2>1. call'[c] = [call[c] EXCEPT !.at = "store", !.data = commits,
                                   !.got = call[c].got \cup {commits}]
    BY <1>4 DEF Load, TypeOK
  <2>2. /\ call'[c].ver = call[c].ver /\ call'[c].loc = call[c].loc
        /\ call'[c].want = call[c].want /\ call'[c].many = call[c].many
    BY <1>1, <2>1 DEF Call
  <2>3. call[c].at = "load" /\ call[c].many \in BOOLEAN
    BY <1>1, <1>4 DEF Load, Call
  <2>4. KeyOf(c)' = KeyOf(c)
    BY <2>2 DEF KeyOf
  <2>5. QED
    BY <2>2, <2>3, <2>4 DEF Leading
<1>5. ASSUME NEW j \in Call, j.ver = call[c].ver, j.loc = call[c].loc, j.want = call[c].want,
             j.many = call[c].many, call'[c] = AfterLoad(j), call[c].at \in {"load", "store"}
      PROVE  LeadsNoMore(c)
  <2>1. CASE j.many
    BY <1>5, <2>1, AnsweredIsDone DEF AfterLoad
  <2>2. CASE ~ j.many
    <3>1. call'[c] = [j EXCEPT !.at = "land"]
      BY <1>5, <2>2 DEF AfterLoad
    <3>2. call'[c].ver = j.ver /\ call'[c].loc = j.loc /\ call'[c].want = j.want
      BY <3>1 DEF Call
    <3>3. KeyOf(c)' = KeyOf(c)
      BY <1>5, <3>2 DEF KeyOf
    <3>4. QED
      BY <1>5, <2>2, <3>3 DEF Leading
  <2>3. QED
    BY <2>1, <2>2
<1>6. CASE LoadFails(c)
  <2> DEFINE j == [call[c] EXCEPT !.got = {}]
  <2>1. /\ j.ver = call[c].ver /\ j.loc = call[c].loc /\ j.want = call[c].want
        /\ j.many = call[c].many /\ j \in Call
    BY <1>1 DEF Call
  <2>2. call'[c] = AfterLoad(j) /\ call[c].at = "load"
    BY <1>6 DEF LoadFails, TypeOK
  <2> HIDE DEF j
  <2>3. QED
    BY <1>5, <2>1, <2>2
<1>7. CASE GiveUp(c) \/ ReadThrough(c)
  <2>1. \E answer : call'[c] = Answered(call[c], answer)
    BY <1>7 DEF GiveUp, ReadThrough, TypeOK
  <2>2. QED
    BY <2>1, AnsweredIsDone
<1>8. CASE Panic(c) \/ Return(c)
  <2>1. call'[c] = NewCall
    BY <1>8 DEF Panic, Return, TypeOK
  <2>2. QED
    BY <2>1 DEF NewCall
<1>9. ASSUME NEW s \in Slots, Lookup(c, s)
      PROVE  LeadsNoMore(c)
  <2> DEFINE j == [call[c] EXCEPT !.todo = @ \ {s},
                                  !.missed = IF Found(c, s) = {} THEN @ \cup {s} ELSE @,
                                  !.got = @ \cup {e.data : e \in Found(c, s)}]
  <2>1. call'[c] = IF j.todo = {} THEN AfterLookups(j) ELSE j
    BY <1>9 DEF Lookup, TypeOK
  <2>2. j.at = "lookup"
    BY <1>1, <1>9 DEF Lookup, Call
  <2>3. \A a : [j EXCEPT !.at = a].at = a /\ [j EXCEPT !.at = a].many = j.many
    BY <1>1 DEF Call
  <2> HIDE DEF j
  <2>4. CASE j.todo # {}
    BY <2>1, <2>2, <2>4
  <2>5. CASE j.todo = {} /\ j.missed = {}
    BY <2>1, <2>5, AnsweredIsDone DEF AfterLookups
  <2>6. CASE j.todo = {} /\ j.missed # {} /\ j.many
    <3>1. call'[c] = [j EXCEPT !.at = "load"]
      BY <2>1, <2>6 DEF AfterLookups
    <3>2. QED
      BY <2>3, <2>6, <3>1
  <2>7. CASE j.todo = {} /\ j.missed # {} /\ ~ j.many
    <3>1. call'[c] = [j EXCEPT !.at = "share"]
      BY <2>1, <2>7 DEF AfterLookups
    <3>2. QED
      BY <2>3, <3>1
  <2>8. QED
    BY <2>4, <2>5, <2>6, <2>7
<1>10. ASSUME NEW s \in Slots, Store(c, s)
       PROVE  LeadsNoMore(c)
  <2> DEFINE j == [call[c] EXCEPT !.missed = @ \ {s}]
  <2>1. /\ j.ver = call[c].ver /\ j.loc = call[c].loc /\ j.want = call[c].want
        /\ j.many = call[c].many /\ j \in Call
    BY <1>1 DEF Call
  <2>2. call'[c] = (IF j.missed = {} THEN AfterLoad(j) ELSE j) /\ call[c].at = "store"
    BY <1>10 DEF Store, TypeOK
  <2> HIDE DEF j
  <2>3. CASE j.missed = {}
    BY <1>5, <2>1, <2>2, <2>3
  <2>4. CASE j.missed # {}
    <3>1. KeyOf(c)' = KeyOf(c)
      BY <2>1, <2>2, <2>4 DEF KeyOf
    <3>2. QED
      BY <2>1, <2>2, <2>4, <3>1 DEF Leading
  <2>5. QED
    BY <2>3, <2>4
<1>11. QED
  BY <1>2, <1>3, <1>4, <1>6, <1>7, <1>8, <1>9, <1>10 DEF QuietStep

\* The first caller on a key puts the only flight of that key into the map.
LEMMA LeadFlies ==
  ASSUME TypeOK, FlightsAreLed, NEW c \in Calls, Lead(c)
  PROVE  FlightsAreLed'
<1> DEFINE g == [key |-> KeyOf(c), lead |-> c]
           r == home[c]
<1>1. /\ call[c] \in Call /\ r \in Replicas /\ home' = home
      /\ \A d \in Calls : d # c => call'[d] = call[d]
      /\ call'[c] = [call[c] EXCEPT !.at = "load"]
  BY DEF Lead, TypeOK, adapterVars
<1>2. KeyOf(c)' = KeyOf(c)
  BY <1>1 DEF KeyOf, Call
<1>3. /\ flights'[r] = flights[r] \cup {g}
      /\ \A q \in Replicas : q # r => flights'[q] = flights[q]
  BY DEF Lead, TypeOK
<1>4. ASSUME NEW d \in Calls, Leading(d)'
      PROVE  [key |-> KeyOf(d)', lead |-> d] \in flights'[home[d]]
  <2>1. CASE d = c
    BY <1>2, <1>3, <2>1
  <2>2. CASE d # c
    <3>1. Leading(d) /\ KeyOf(d)' = KeyOf(d) /\ home[d] \in Replicas
      BY <1>1, <1>4, <2>2 DEF Leading, KeyOf, TypeOK
    <3>2. QED
      BY <1>3, <3>1 DEF FlightsAreLed
  <2>3. QED
    BY <2>1, <2>2
<1>5. ASSUME NEW q \in Replicas, NEW e \in flights'[q], NEW f \in flights'[q], e.key = f.key
      PROVE  e = f
  <2>1. CASE q # r
    BY <1>3, <1>5, <2>1 DEF FlightsAreLed
  <2>2. CASE q = r
    <3>1. \A x \in flights[r] : x.key # g.key
      BY DEF Lead
    <3>2. QED
      BY <1>3, <1>5, <2>2, <3>1 DEF FlightsAreLed
  <2>3. QED
    BY <2>1, <2>2
<1>6. QED
  BY <1>1, <1>4, <1>5 DEF FlightsAreLed

\* A leader takes away its own flight, and nobody else leads on that key.
LEMMA LandFlies ==
  ASSUME TypeOK, FlightsAreLed, NEW c \in Calls, Land(c)
  PROVE  FlightsAreLed'
<1> DEFINE g == [key |-> KeyOf(c), lead |-> c]
           r == home[c]
<1>1. /\ call[c] \in Call /\ r \in Replicas /\ home' = home
      /\ \A d \in Calls : d # c => call'[d] = call[d]
      /\ call'[c] = [call[c] EXCEPT !.at = "wake"]
  BY DEF Land, TypeOK, adapterVars
<1>2. ~ Leading(c)'
  BY <1>1 DEF Leading, Call
<1>3. /\ flights'[r] = flights[r] \ {g}
      /\ \A q \in Replicas : q # r => flights'[q] = flights[q]
  BY DEF Land, TypeOK
<1>4. ASSUME NEW d \in Calls, Leading(d)'
      PROVE  [key |-> KeyOf(d)', lead |-> d] \in flights'[home[d]]
  <2>1. d # c
    BY <1>2, <1>4
  <2>2. Leading(d) /\ KeyOf(d)' = KeyOf(d) /\ home[d] \in Replicas
    BY <1>1, <1>4, <2>1 DEF Leading, KeyOf, TypeOK
  <2>3. [key |-> KeyOf(d), lead |-> d] # g
    BY <2>1
  <2>4. QED
    BY <1>3, <2>2, <2>3 DEF FlightsAreLed
<1>5. \A q \in Replicas : flights'[q] \subseteq flights[q]
  BY <1>3
<1>6. QED
  BY <1>1, <1>4, <1>5 DEF FlightsAreLed

\* The other steps take flights away only from calls that lead none any more.
LEMMA RestartFlies ==
  ASSUME TypeOK, FlightsAreLed, NEW r \in Replicas, Restart(r)
  PROVE  FlightsAreLed'
<1>1. /\ home' = home /\ flights' = [flights EXCEPT ![r] = {}]
      /\ call' = [c \in Calls |-> IF home[c] = r THEN NewCall ELSE call[c]]
  BY DEF Restart
<1>2. flights'[r] = {} /\ \A q \in Replicas : q # r => flights'[q] = flights[q]
  BY <1>1 DEF TypeOK
<1>3. ASSUME NEW d \in Calls, Leading(d)'
      PROVE  [key |-> KeyOf(d)', lead |-> d] \in flights'[home[d]]
  <2>1. home[d] # r
    BY <1>1, <1>3 DEF Leading, NewCall
  <2>2. call'[d] = call[d] /\ home[d] \in Replicas
    BY <1>1, <2>1 DEF TypeOK
  <2>3. Leading(d) /\ KeyOf(d)' = KeyOf(d)
    BY <1>3, <2>2 DEF Leading, KeyOf
  <2>4. QED
    BY <1>2, <2>1, <2>2, <2>3 DEF FlightsAreLed
<1>4. QED
  BY <1>1, <1>2, <1>3 DEF FlightsAreLed

\* A step that only ends calls, or starts a write, leaves every leader its own.
LEMMA OthersFly ==
  ASSUME TypeOK, FlightsAreLed,
         \/ \E c \in Calls : Wake(c) \/ CommitWrite(c) \/ Write(c)
         \/ \E e \in entries : Expire(e)
         \/ UNCHANGED vars
  PROVE  FlightsAreLed'
<1>1. UNCHANGED <<flights, home>>
  BY DEF Wake, CommitWrite, Write, Bump, MoveLocal, NotInvalidated, Expire, vars,
         adapterVars, serviceVars
<1>2. ASSUME NEW d \in Calls
      PROVE  call'[d] = call[d] \/ call'[d].at \in {"idle", "done", "invalidate"}
  <2>1. ASSUME NEW c \in Calls, Wake(c)
        PROVE  call'[d] = call[d] \/ call'[d].at = "done"
    BY <2>1, AnsweredIsDone DEF Wake
  <2>2. ASSUME NEW c \in Calls, CommitWrite(c)
        PROVE  call'[d] = call[d] \/ call'[d].at = "invalidate"
    BY <2>2 DEF CommitWrite, NewCall, TypeOK
  <2>3. ASSUME NEW c \in Calls, Write(c)
        PROVE  call'[d] = call[d] \/ call'[d].at = "idle"
    BY <2>3 DEF Write, Bump, MoveLocal, NotInvalidated, NewCall, TypeOK
  <2>4. (\E e \in entries : Expire(e)) \/ UNCHANGED vars => call' = call
    BY DEF Expire, vars
  <2>5. QED
    BY <2>1, <2>2, <2>3, <2>4
<1>3. QED
  BY <1>1, <1>2, FlightsStay DEF Leading, KeyOf

\* Two goroutines of one process never run the same query at the same time,
\* whatever panicked before and however the versions moved.
THEOREM OneQueryPerKeyAlways == Spec => []OneQueryPerKey
<1>1. Init => FlightsAreLed
  BY DEF Init, FlightsAreLed, Leading, NewCall
<1>2. TypeOK /\ FlightsAreLed /\ [Next]_vars => FlightsAreLed'
  <2> SUFFICES ASSUME TypeOK, FlightsAreLed, [Next]_vars PROVE FlightsAreLed'
    OBVIOUS
  <2>1. ASSUME NEW c \in Calls, QuietStep(c)
        PROVE  FlightsAreLed'
    BY <2>1, QuietStepIsLocal, QuietStepLeads, FlightsStayOneCall
  <2>2. ASSUME NEW c \in Readers,
               \/ \E slots \in SUBSET Slots, isMany \in BOOLEAN : Begin(c, slots, isMany)
               \/ Read(c) \/ GiveUp(c) \/ Panic(c)
        PROVE  FlightsAreLed'
    <3>1. c \in Calls
      BY DEF Calls
    <3>2. QuietStep(c) \/ Lead(c) \/ Land(c) \/ Wake(c)
      BY <2>2 DEF Read, QuietStep
    <3>3. QED
      BY <2>1, <3>1, <3>2, LeadFlies, LandFlies, OthersFly
  <2>3. CASE \E c \in Writers : CommitWrite(c) \/ Write(c)
    BY <2>3, OthersFly DEF Calls
  <2>4. CASE \E r \in Replicas : Restart(r)
    BY <2>4, RestartFlies
  <2>5. CASE (\E e \in entries : Expire(e)) \/ UNCHANGED vars
    BY <2>5, OthersFly
  <2>6. QED
    BY <2>2, <2>3, <2>4, <2>5 DEF Next
<1>3. TypeOK /\ FlightsAreLed => OneQueryPerKey
  <2> SUFFICES ASSUME TypeOK, FlightsAreLed, NEW c \in Calls, NEW d \in Calls,
                      Leading(c), Leading(d), home[c] = home[d], KeyOf(c) = KeyOf(d)
               PROVE  c = d
    BY DEF OneQueryPerKey
  <2> DEFINE f == [key |-> KeyOf(c), lead |-> c]
             g == [key |-> KeyOf(d), lead |-> d]
  <2>1. f \in flights[home[c]] /\ g \in flights[home[c]] /\ home[c] \in Replicas
    BY DEF FlightsAreLed, TypeOK
  <2>2. f.key = g.key
    OBVIOUS
  <2>3. f = g
    BY <2>1, <2>2 DEF FlightsAreLed
  <2>4. f.lead = g.lead
    BY <2>3
  <2>5. QED
    BY <2>4
<1>4. QED
  BY <1>1, <1>2, <1>3, TypeCorrectness, PTL DEF Spec

=============================================================================
