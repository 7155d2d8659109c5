---------------------------- MODULE CoalesceProofs ----------------------------
(***************************************************************************)
(* What Coalesce promises, proved for any requests, keys and sizes: that   *)
(* one run at a time is shared, that responses are whole, that no cookie   *)
(* is handed on, and that nothing is kept.                                 *)
(***************************************************************************)
EXTENDS Coalesce, TLAPS

-----------------------------------------------------------------------------
(* The inductive invariant.                                                 *)

\* Where those are that others may have found in the map.
Led == {"lead", "returned", "removed", "published", "done"}

\* Where a request is agrees with what its run has written, and where to: into
\* the buffer, or through to the client once that has overflowed.
Shaped(r) ==
    LET q == req[r] IN
    /\ q.at = "idle" => q = NewRequest
    /\ q.at # "idle" => q.key \in Keys
    /\ q.at # "done" => q.by = None
    /\ q.at \in {"enter", "wait", "lead", "own"} => ~ q.completed
    /\ q.at \in {"enter", "lead", "returned", "removed", "published"} => q.on = None
    /\ q.at = "wait" => q.on # None
    /\ q.at \in {"enter", "wait"} => q.written = 0 /\ q.sent = 0 /\ q.buf = 0 /\ ~ q.overflowed
    /\ q.at \in {"lead", "returned", "removed", "published"} =>
          IF q.overflowed THEN q.sent = q.written ELSE q.sent = 0 /\ q.buf = q.written
    /\ q.at = "own" => q.sent = q.written
    /\ q.closed => q.at \in {"published", "done"}
    /\ q.shared => q.closed /\ q.completed /\ ~ q.cookie /\ q.buf = q.written

\* The past is answered.
PastIsAnswered(r) == req[r].at # "idle" => r \notin req[r].past /\ req[r].past \subseteq Served

\* A waiter found a leader of its own key that was not answered yet, and runs
\* the handler itself only when that leader has nothing to share.
WaitsFor(r) ==
    LET q == req[r]  leader == req[q.on] IN
    q.on # None =>
        /\ leader.at \in Led /\ leader.key = q.key /\ q.on \notin q.past
        /\ q.at = "own" => leader.closed /\ ~ leader.shared

\* An answer is a run's that returned: the request's own, or its leader's.
IsAnswered(r) ==
    LET q == req[r]  leader == req[q.on] IN
    q.at = "done" =>
        \/ /\ q.by = None /\ ~ q.completed
           /\ q.on # None => leader.closed /\ ~ leader.shared
        \/ q.by = r /\ q.completed /\ q.sent = q.written
        \/ q.on # None /\ q.by = q.on /\ leader.shared /\ q.sent = leader.written

\* The map holds the leaders whose runs have not been taken out of it.
Mapped(r) ==
    IF req[r].at \in {"lead", "returned"} THEN calls[req[r].key] = r
    ELSE \A k \in Keys : calls[k] # r

MapMatches == \A k \in Keys : calls[k] # None => req[calls[k]].key = k

Sound(r) == Shaped(r) /\ PastIsAnswered(r) /\ WaitsFor(r) /\ IsAnswered(r) /\ Mapped(r)

IInv == CoalesceTypeOK /\ MapMatches /\ \A r \in Requests : Sound(r)

-----------------------------------------------------------------------------
(* How requests move on, and what that leaves to others.                    *)

\* What a request's step may change of what others have seen of it: a leader
\* stays one, and its call is not assigned once it is closed.
Evolves(p, q) ==
    /\ p.at \in Led => q.at \in Led /\ q.key = p.key
    /\ p.closed => q.closed /\ q.shared = p.shared /\ q.written = p.written
    /\ p.at = "done" => q.at = "done"

\* A request is one.
LEMMA RequestFacts ==
  ASSUME IInv, NEW r \in Requests
  PROVE  req[r] \in Request /\ Sound(r)
  BY DEF IInv, CoalesceTypeOK

\* After a step of one request, it is as the step left it, and so are the others.
LEMMA StepOfOne ==
  ASSUME IInv, NEW r \in Requests, NEW q, Become(r, q)
  PROVE  req'[r] = q /\ \A s \in Requests : s # r => req'[s] = req[s]
  BY DEF Become, IInv, CoalesceTypeOK

\* A request's step leaves the others as sound as they were.
LEMMA OthersStaySound ==
  ASSUME IInv, NEW r \in Requests, NEW q \in Request, Become(r, q), Evolves(req[r], q),
         NEW s \in Requests, s # r
  PROVE  (Shaped(s) /\ PastIsAnswered(s) /\ WaitsFor(s) /\ IsAnswered(s))'
<1>1. req'[r] = q /\ \A t \in Requests : t # r => req'[t] = req[t]
  BY StepOfOne
<1>2. req[s] \in Request /\ Sound(s) /\ req'[s] = req[s]
  BY <1>1, RequestFacts
<1>3. Shaped(s)'
  BY <1>2 DEF Sound, Shaped
<1>4. PastIsAnswered(s)'
  <2>1. Served \subseteq Served'
    BY <1>1 DEF Served, Evolves
  <2>2. QED
    BY <1>2, <2>1 DEF Sound, PastIsAnswered
<1>5. ASSUME req[s].on # None
      PROVE  /\ req[req[s].on].at \in Led => /\ req'[req[s].on].at \in Led
                                             /\ req'[req[s].on].key = req[req[s].on].key
             /\ req[req[s].on].closed => /\ req'[req[s].on].closed
                                         /\ req'[req[s].on].shared = req[req[s].on].shared
                                         /\ req'[req[s].on].written = req[req[s].on].written
  <2>1. req[s].on \in Requests
    BY <1>2, <1>5 DEF Request
  <2>2. QED
    BY <1>1, <2>1 DEF Evolves
<1>6. WaitsFor(s)'
  BY <1>2, <1>5 DEF Sound, WaitsFor
<1>7. IsAnswered(s)'
  <2>1. req[s].on # None /\ req[req[s].on].shared => req[req[s].on].closed
    BY <1>2, RequestFacts DEF Request, Sound, Shaped
  <2>2. QED
    BY <1>2, <1>5, <2>1 DEF Sound, IsAnswered
<1>8. QED
  BY <1>3, <1>4, <1>6, <1>7

\* A step that leaves the map alone, and does not go in or out of it, keeps the
\* invariant if its own request stays sound.
LEMMA QuietStep ==
  ASSUME IInv, NEW r \in Requests, NEW q \in Request, Become(r, q), Evolves(req[r], q),
         UNCHANGED <<writes, calls>>,
         q.at \in {"lead", "returned"} <=> req[r].at \in {"lead", "returned"},
         q.at \in {"lead", "returned"} => q.key = req[r].key,
         (Shaped(r) /\ PastIsAnswered(r) /\ WaitsFor(r) /\ IsAnswered(r))'
  PROVE  IInv'
<1>1. req'[r] = q /\ \A t \in Requests : t # r => req'[t] = req[t]
  BY StepOfOne
<1>2. CoalesceTypeOK'
  BY DEF IInv, CoalesceTypeOK, Become
<1>3. \A s \in Requests : Mapped(s)'
  BY <1>1, RequestFacts DEF Sound, Mapped
<1>4. MapMatches'
  <2> SUFFICES ASSUME NEW k \in Keys, calls[k] # None PROVE req'[calls[k]].key = k
    BY DEF MapMatches
  <2>1. calls[k] \in Requests /\ req[calls[k]].key = k
    BY DEF IInv, CoalesceTypeOK, MapMatches
  <2>2. CASE calls[k] = r
    <3>1. req[r].at \in {"lead", "returned"}
      BY <2>2, RequestFacts DEF Sound, Mapped
    <3>2. QED
      BY <1>1, <2>1, <2>2, <3>1
  <2>3. QED
    BY <1>1, <2>1, <2>2
<1>5. \A s \in Requests : Sound(s)'
  BY <1>3, OthersStaySound DEF Sound
<1>6. QED
  BY <1>2, <1>4, <1>5 DEF IInv

-----------------------------------------------------------------------------
(* The steps keep the invariant.                                            *)

\* A request that arrives knows what is answered, and no more.
LEMMA ArriveKeepsIInv ==
  ASSUME IInv, NEW r \in Requests, NEW k \in Keys, Arrive(r, k)
  PROVE  IInv'
<1> PICK at \in {"enter", "own"} :
        Become(r, [NewRequest EXCEPT !.at = at, !.key = k, !.floor = writes, !.past = Served])
  BY DEF Arrive
<1> DEFINE q == [NewRequest EXCEPT !.at = at, !.key = k, !.floor = writes, !.past = Served]
<1>1. req[r] \in Request /\ Sound(r) /\ req[r].at = "idle" /\ UNCHANGED <<writes, calls>>
  BY RequestFacts DEF Arrive
<1>2. writes \in Nat /\ Served \in SUBSET Requests
  BY CoalesceAssumption DEF IInv, CoalesceTypeOK, Served
<1>3. q \in Request /\ Become(r, q)
  <2>1. 0 \in 0..MaxChunks /\ 0 \in 0..MaxBody /\ at \in Places /\ Unread \in {Unread} \cup Nat
    BY CoalesceAssumption DEF Places
  <2>2. QED
    BY <1>2, <2>1 DEF NewRequest, Request
<1>4. /\ q.at = at /\ q.key = k /\ q.on = None /\ q.written = 0 /\ q.buf = 0 /\ q.sent = 0
      /\ ~ q.overflowed /\ ~ q.completed /\ ~ q.closed /\ ~ q.shared /\ q.by = None
      /\ q.past = Served
  BY DEF NewRequest
<1> HIDE DEF q
<1>5. req'[r] = q /\ \A s \in Requests : s # r => req'[s] = req[s]
  BY <1>3, StepOfOne
<1>6. req[r].at \notin Led /\ ~ req[r].closed
  BY <1>1 DEF Led, Sound, Shaped
<1>7. Evolves(req[r], q)
  BY <1>1, <1>6 DEF Evolves
<1>8. Served' = Served /\ r \notin Served
  BY <1>1, <1>4, <1>5 DEF Served
<1>9. (Shaped(r) /\ PastIsAnswered(r) /\ WaitsFor(r) /\ IsAnswered(r))'
  BY <1>4, <1>5, <1>8 DEF Shaped, PastIsAnswered, WaitsFor, IsAnswered
<1>10. QED
  BY <1>1, <1>3, <1>4, <1>7, <1>9, QuietStep

\* A waiter waits for a request that is not answered, so that it is not in the
\* past of the waiter.
LEMMA WaitKeepsIInv ==
  ASSUME IInv, NEW r \in Requests, Wait(r)
  PROVE  IInv'
<1> DEFINE l == calls[req[r].key]
           q == [req[r] EXCEPT !.at = "wait", !.on = l]
<1>1. /\ req[r] \in Request /\ Sound(r) /\ req[r].at = "enter" /\ l # None
      /\ UNCHANGED <<writes, calls>>
  BY RequestFacts DEF Wait
<1>2. req[r].key \in Keys /\ req[r].on = None
  BY <1>1 DEF Sound, Shaped
<1>3. l \in Requests /\ req[l].key = req[r].key
  BY <1>1, <1>2 DEF IInv, CoalesceTypeOK, MapMatches
<1>4. req[l].at \in {"lead", "returned"} /\ l # r
  BY <1>1, <1>2, <1>3, RequestFacts DEF Sound, Mapped
<1>5. q \in Request /\ Become(r, q)
  BY <1>1, <1>3 DEF Request, Places, Wait
<1>6. /\ q.at = "wait" /\ q.key = req[r].key /\ q.on = l /\ q.written = req[r].written
      /\ q.buf = req[r].buf /\ q.sent = req[r].sent /\ q.overflowed = req[r].overflowed
      /\ q.completed = req[r].completed /\ q.closed = req[r].closed
      /\ q.shared = req[r].shared /\ q.by = req[r].by /\ q.past = req[r].past
      /\ q.cookie = req[r].cookie
  BY <1>1 DEF Request
<1> HIDE DEF q, l
<1>7. req'[r] = q /\ \A s \in Requests : s # r => req'[s] = req[s]
  BY <1>5, StepOfOne
<1>8. Evolves(req[r], q)
  BY <1>1, <1>6 DEF Evolves, Led
<1>9. Served' = Served /\ l \notin Served
  BY <1>1, <1>4, <1>6, <1>7 DEF Served
<1>10. Shaped(r)' /\ PastIsAnswered(r)' /\ IsAnswered(r)'
  BY <1>1, <1>3, <1>6, <1>7, <1>9, CoalesceAssumption
     DEF Sound, Shaped, PastIsAnswered, IsAnswered
<1>11. WaitsFor(r)'
  BY <1>1, <1>3, <1>4, <1>6, <1>7, <1>9 DEF Sound, PastIsAnswered, WaitsFor, Led
<1>12. QED
  BY <1>1, <1>5, <1>6, <1>8, <1>10, <1>11, QuietStep

\* What a run of the handler does to its own request: it moves the recorder, and
\* may end.  A leader that ends is still in the map.
LEMMA RunStep ==
  ASSUME IInv, NEW r \in Requests, Runs(r), NEW q \in Request, Become(r, q),
         UNCHANGED <<writes, calls>>,
         q.key = req[r].key, q.on = req[r].on, q.past = req[r].past,
         ~ q.closed, ~ q.shared,
         \/ req[r].at = "lead" /\ q.at \in {"lead", "returned"} /\ q.by = None
         \/ req[r].at = "own" /\ q.at = "own" /\ q.by = None
         \/ req[r].at = "own" /\ q.at = "done" /\ q.by = IF q.completed THEN r ELSE None,
         q.at \in {"lead", "own"} => ~ q.completed,
         q.at \in {"lead", "returned"} =>
            IF q.overflowed THEN q.sent = q.written ELSE q.sent = 0 /\ q.buf = q.written,
         q.at \in {"own", "done"} => q.sent = q.written
  PROVE  IInv'
<1>1. req[r] \in Request /\ Sound(r) /\ req[r].at \in {"lead", "own"}
  BY RequestFacts DEF Runs
<1>2. ~ req[r].closed
  BY <1>1 DEF Sound, Shaped
<1>3. req'[r] = q /\ \A s \in Requests : s # r => req'[s] = req[s]
  BY StepOfOne
<1>4. Evolves(req[r], q)
  BY <1>1, <1>2 DEF Evolves, Led
<1>5. Served \subseteq Served'
  BY <1>1, <1>3 DEF Served
<1>6. Shaped(r)' /\ PastIsAnswered(r)'
  BY <1>1, <1>3, <1>5 DEF Sound, Shaped, PastIsAnswered
<1>7. req[r].on # None => req[r].on \in Requests /\ req[r].on # r /\ req[r].at = "own"
  BY <1>1 DEF Request, Sound, Shaped, WaitsFor, Led
<1>8. WaitsFor(r)'
  BY <1>1, <1>3, <1>7 DEF Sound, WaitsFor
<1>9. IsAnswered(r)'
  <2> SUFFICES ASSUME q.at = "done"
               PROVE  IsAnswered(r)'
    BY <1>3 DEF IsAnswered
  <2>1. req[r].at = "own" /\ q.by = IF q.completed THEN r ELSE None
    OBVIOUS
  <2>2. req[r].on # None => req'[req[r].on].closed /\ ~ req'[req[r].on].shared
    BY <1>1, <1>3, <1>7, <2>1 DEF Sound, WaitsFor
  <2>3. QED
    BY <1>3, <2>1, <2>2 DEF IsAnswered
<1>10. QED
  BY <1>1, <1>4, <1>6, <1>8, <1>9, QuietStep

\* recorder.Write keeps account of every chunk, in a buffer that is never too big.
LEMMA RecordedFacts ==
  ASSUME NEW q \in Request, q.at = "lead",
         IF q.overflowed THEN q.sent + 1 <= MaxChunks ELSE q.sent = 0 /\ q.buf + 1 <= MaxChunks
  PROVE  LET p == Recorded(q) IN
         /\ p \in Request
         /\ p.at = q.at /\ p.key = q.key /\ p.on = q.on /\ p.past = q.past /\ p.by = q.by
         /\ p.closed = q.closed /\ p.shared = q.shared /\ p.completed = q.completed
         /\ p.written = q.written
         /\ q.overflowed => p.overflowed /\ p.sent = q.sent + 1
         /\ ~ q.overflowed => IF p.overflowed THEN p.sent = q.buf + 1
                              ELSE p.sent = 0 /\ p.buf = q.buf + 1
<1>1. /\ q.sent \in Nat /\ q.buf \in Nat /\ q.buf <= MaxBody /\ MaxChunks \in Nat
      /\ MaxBody \in Nat
  BY CoalesceAssumption DEF Request
<1>2. CASE q.overflowed
  <2>1. Recorded(q) = [q EXCEPT !.sent = q.sent + 1] /\ q.sent + 1 \in 0..MaxChunks
    BY <1>1, <1>2 DEF Recorded
  <2>2. QED
    BY <1>2, <2>1 DEF Request
<1>3. CASE ~ q.overflowed /\ q.buf + 1 > MaxBody
  <2>1. /\ q.sent + q.buf + 1 = q.buf + 1
        /\ q.buf + 1 \in 0..MaxChunks /\ 0 \in 0..MaxBody
    BY <1>1, <1>3
  <2>2. Recorded(q) = [q EXCEPT !.overflowed = TRUE, !.sent = q.buf + 1, !.buf = 0]
    BY <1>3, <2>1 DEF Recorded
  <2> DEFINE o == [q EXCEPT !.overflowed = TRUE]
             n == [o EXCEPT !.sent = q.buf + 1, !.buf = 0]
  <2>3. /\ o \in Request /\ o.overflowed
        /\ o.at = q.at /\ o.key = q.key /\ o.on = q.on /\ o.past = q.past /\ o.by = q.by
        /\ o.closed = q.closed /\ o.shared = q.shared /\ o.completed = q.completed
        /\ o.written = q.written
    BY DEF Request
  <2>4. Recorded(q) = n
    BY <2>2
  <2> HIDE DEF o
  <2>5. n \in Request
    BY <2>1, <2>3 DEF Request
  <2>6. /\ n.overflowed /\ n.sent = q.buf + 1
        /\ n.at = q.at /\ n.key = q.key /\ n.on = q.on /\ n.past = q.past /\ n.by = q.by
        /\ n.closed = q.closed /\ n.shared = q.shared /\ n.completed = q.completed
        /\ n.written = q.written
    BY <2>3 DEF Request
  <2> HIDE DEF n
  <2>7. QED
    BY <1>3, <2>4, <2>5, <2>6
<1>4. CASE ~ q.overflowed /\ ~ (q.buf + 1 > MaxBody)
  <2>1. Recorded(q) = [q EXCEPT !.buf = q.buf + 1] /\ q.buf + 1 \in 0..MaxBody
    BY <1>1, <1>4 DEF Recorded
  <2>2. QED
    BY <1>4, <2>1 DEF Request
<1>5. QED
  BY <1>2, <1>3, <1>4

\* What a request is, whose handler runs.
LEMMA RunFacts ==
  ASSUME IInv, NEW r \in Requests, Runs(r)
  PROVE  LET q == req[r] IN
         /\ q \in Request /\ q.at \in {"lead", "own"}
         /\ ~ q.completed /\ ~ q.closed /\ ~ q.shared /\ q.by = None
         /\ q.at = "lead" => IF q.overflowed THEN q.sent = q.written
                             ELSE q.sent = 0 /\ q.buf = q.written
         /\ q.at = "own" => q.sent = q.written
  BY RequestFacts DEF Runs, Request, Sound, Shaped

\* A run that reads leaves its response as it is...
LEMMA ReadKeepsIInv ==
  ASSUME IInv, NEW r \in Requests, HandlerReads(r)
  PROVE  IInv'
<1> DEFINE q == [req[r] EXCEPT !.reads = writes]
<1>1. Runs(r) /\ Become(r, q) /\ UNCHANGED <<writes, calls>>
  BY DEF HandlerReads
<1>2. writes \in {Unread} \cup Nat
  BY CoalesceAssumption DEF IInv, CoalesceTypeOK
<1>3. q \in Request
  BY <1>1, <1>2, RunFacts DEF Request
<1>4. /\ q.at = req[r].at /\ q.key = req[r].key /\ q.on = req[r].on /\ q.past = req[r].past
      /\ q.closed = req[r].closed /\ q.shared = req[r].shared /\ q.by = req[r].by
      /\ q.completed = req[r].completed /\ q.overflowed = req[r].overflowed
      /\ q.sent = req[r].sent /\ q.buf = req[r].buf /\ q.written = req[r].written
  BY <1>1, RunFacts DEF Request
<1> HIDE DEF q
<1>5. QED
  BY <1>1, <1>3, <1>4, RunFacts, RunStep

\* ...as one that sets a cookie does.
LEMMA CookieKeepsIInv ==
  ASSUME IInv, NEW r \in Requests, HandlerSetsCookie(r)
  PROVE  IInv'
<1> DEFINE q == [req[r] EXCEPT !.cookie = TRUE]
<1>1. Runs(r) /\ Become(r, q) /\ UNCHANGED <<writes, calls>>
  BY DEF HandlerSetsCookie
<1>2. q \in Request
  <2> DEFINE p == req[r]
  <2>1. p \in Request
    BY <1>1, RunFacts
  <2> HIDE DEF p
  <2>2. [p EXCEPT !.cookie = TRUE] \in Request
    BY <2>1 DEF Request
  <2>3. QED
    BY <2>2 DEF p
<1>3. /\ q.at = req[r].at /\ q.key = req[r].key /\ q.on = req[r].on /\ q.past = req[r].past
      /\ q.closed = req[r].closed /\ q.shared = req[r].shared /\ q.by = req[r].by
      /\ q.completed = req[r].completed /\ q.overflowed = req[r].overflowed
      /\ q.sent = req[r].sent /\ q.buf = req[r].buf /\ q.written = req[r].written
  <2>1. req[r] \in Request
    BY <1>1, RunFacts
  <2>2. QED
    BY <2>1 DEF Request
<1> HIDE DEF q
<1>4. QED
  BY <1>1, <1>2, <1>3, RunFacts, RunStep

\* A chunk is counted where it goes: to the recorder, or to the client.
LEMMA WriteKeepsIInv ==
  ASSUME IInv, NEW r \in Requests, HandlerWrites(r)
  PROVE  IInv'
<1> DEFINE q == [req[r] EXCEPT !.written = req[r].written + 1]
           p == IF q.at = "lead" THEN Recorded(q) ELSE [q EXCEPT !.sent = q.sent + 1]
<1>1. /\ Runs(r) /\ req[r].written < MaxChunks /\ Become(r, p)
      /\ UNCHANGED <<writes, calls>>
  BY DEF HandlerWrites
<1>2. req[r].written \in Nat /\ req[r].written + 1 \in 0..MaxChunks
  BY <1>1, RunFacts, CoalesceAssumption DEF Request
<1>3. q \in Request
  BY <1>1, <1>2, RunFacts DEF Request
<1>4. /\ q.at = req[r].at /\ q.key = req[r].key /\ q.on = req[r].on /\ q.past = req[r].past
      /\ q.closed = req[r].closed /\ q.shared = req[r].shared /\ q.by = req[r].by
      /\ q.completed = req[r].completed /\ q.overflowed = req[r].overflowed
      /\ q.sent = req[r].sent /\ q.buf = req[r].buf /\ q.written = req[r].written + 1
  BY <1>1, RunFacts DEF Request
<1>5. CASE q.at = "lead"
  <2>1. p = Recorded(q)
    BY <1>5
  <2>2. IF q.overflowed THEN q.sent + 1 = q.written ELSE q.sent = 0 /\ q.buf + 1 = q.written
    BY <1>1, <1>4, <1>5, RunFacts
  <2>3. IF q.overflowed THEN q.sent + 1 <= MaxChunks ELSE q.sent = 0 /\ q.buf + 1 <= MaxChunks
    BY <1>2, <1>4, <2>2, CoalesceAssumption
  <2> HIDE DEF q
  <2>4. /\ p \in Request
        /\ p.at = q.at /\ p.key = q.key /\ p.on = q.on /\ p.past = q.past /\ p.by = q.by
        /\ p.closed = q.closed /\ p.shared = q.shared /\ p.completed = q.completed
        /\ p.written = q.written
        /\ q.overflowed => p.overflowed /\ p.sent = q.sent + 1
        /\ ~ q.overflowed => IF p.overflowed THEN p.sent = q.buf + 1
                             ELSE p.sent = 0 /\ p.buf = q.buf + 1
    BY <1>3, <1>5, <2>1, <2>3, RecordedFacts
  <2> HIDE DEF p
  <2>5. IF p.overflowed THEN p.sent = p.written ELSE p.sent = 0 /\ p.buf = p.written
    BY <2>2, <2>4
  <2>6. /\ p.at = "lead" /\ p.key = req[r].key /\ p.on = req[r].on /\ p.past = req[r].past
        /\ ~ p.closed /\ ~ p.shared /\ p.by = None /\ ~ p.completed /\ req[r].at = "lead"
    BY <1>1, <1>4, <1>5, <2>4, RunFacts
  <2>7. QED
    BY <1>1, <2>4, <2>5, <2>6, RunStep
<1>6. CASE q.at = "own"
  <2>1. p = [q EXCEPT !.sent = q.sent + 1]
    BY <1>6
  <2>2. q.sent + 1 = q.written /\ q.written \in 0..MaxChunks
    BY <1>1, <1>2, <1>4, <1>6, RunFacts
  <2> HIDE DEF q
  <2>3. /\ p \in Request
        /\ p.at = q.at /\ p.key = q.key /\ p.on = q.on /\ p.past = q.past /\ p.by = q.by
        /\ p.closed = q.closed /\ p.shared = q.shared /\ p.completed = q.completed
        /\ p.written = q.written /\ p.sent = q.written
    <3>1. p = [q EXCEPT !.sent = q.written] /\ q.written \in 0..MaxChunks
      BY <2>1, <2>2
    <3> HIDE DEF p
    <3>2. p \in Request
      BY <1>3, <3>1 DEF Request
    <3>3. QED
      BY <1>3, <3>1, <3>2 DEF Request
  <2> HIDE DEF p
  <2>4. /\ p.at = "own" /\ p.key = req[r].key /\ p.on = req[r].on /\ p.past = req[r].past
        /\ ~ p.closed /\ ~ p.shared /\ p.by = None /\ ~ p.completed /\ req[r].at = "own"
        /\ p.sent = p.written
    BY <1>1, <1>4, <1>6, <2>3, RunFacts
  <2>5. QED
    BY <1>1, <2>3, <2>4, RunStep
<1>7. QED
  BY <1>1, <1>4, <1>5, <1>6, RunFacts

\* A request once it is answered by the run of b; the lemma is what that leaves alone.
AnsweredBy(p, b) == [p EXCEPT !.at = "done", !.by = b]

LEMMA DoneFacts ==
  ASSUME NEW p \in Request, NEW b \in Requests \cup {None}, NEW q, q = AnsweredBy(p, b)
  PROVE  /\ q \in Request /\ q.at = "done" /\ q.key = p.key /\ q.on = p.on
         /\ q.past = p.past /\ q.closed = p.closed /\ q.shared = p.shared /\ q.by = b
         /\ q.completed = p.completed /\ q.sent = p.sent /\ q.written = p.written
<1> DEFINE o == [p EXCEPT !.at = "done"]
           n == [o EXCEPT !.by = b]
<1>1. /\ o \in Request /\ o.at = "done" /\ o.key = p.key /\ o.on = p.on
      /\ o.past = p.past /\ o.closed = p.closed /\ o.shared = p.shared
      /\ o.completed = p.completed /\ o.sent = p.sent /\ o.written = p.written
  BY DEF Request, Places
<1>2. q = n
  BY DEF Request, AnsweredBy
<1> HIDE DEF o
<1>3. n \in Request
  BY <1>1 DEF Request
<1>4. /\ n.at = "done" /\ n.key = p.key /\ n.on = p.on
      /\ n.past = p.past /\ n.closed = p.closed /\ n.shared = p.shared /\ n.by = b
      /\ n.completed = p.completed /\ n.sent = p.sent /\ n.written = p.written
  BY <1>1 DEF Request
<1> HIDE DEF n
<1>5. QED
  BY <1>2, <1>3, <1>4

\* The handler returns: a request's own answer is what it wrote.
LEMMA ReturnKeepsIInv ==
  ASSUME IInv, NEW r \in Requests, HandlerReturns(r)
  PROVE  IInv'
<1> DEFINE p == [req[r] EXCEPT !.completed = TRUE]
           q == IF p.at = "lead" THEN [p EXCEPT !.at = "returned"] ELSE ByOwnRun(r, p)
<1>1. Runs(r) /\ Become(r, q) /\ UNCHANGED <<writes, calls>>
  BY DEF HandlerReturns
<1>2. /\ p \in Request /\ p.at = req[r].at /\ p.key = req[r].key /\ p.on = req[r].on
      /\ p.past = req[r].past /\ ~ p.closed /\ ~ p.shared /\ p.by = None /\ p.completed
      /\ p.overflowed = req[r].overflowed /\ p.sent = req[r].sent /\ p.buf = req[r].buf
      /\ p.written = req[r].written
  BY <1>1, RunFacts DEF Request
<1> HIDE DEF p
<1>3. CASE req[r].at = "lead"
  <2>1. q = [p EXCEPT !.at = "returned"]
    BY <1>2, <1>3
  <2>2. /\ q \in Request /\ q.at = "returned" /\ q.key = p.key /\ q.on = p.on
        /\ q.past = p.past /\ ~ q.closed /\ ~ q.shared /\ q.by = None
        /\ q.overflowed = p.overflowed /\ q.sent = p.sent /\ q.buf = p.buf
        /\ q.written = p.written
    BY <1>2, <2>1 DEF Request, Places
  <2> HIDE DEF q
  <2>3. IF q.overflowed THEN q.sent = q.written ELSE q.sent = 0 /\ q.buf = q.written
    BY <1>1, <1>2, <1>3, <2>2, RunFacts
  <2>4. /\ q.key = req[r].key /\ q.on = req[r].on /\ q.past = req[r].past
        /\ q.at \notin {"lead", "own", "done"}
    BY <1>2, <2>2
  <2>5. QED
    BY <1>1, <1>3, <2>2, <2>3, <2>4, RunStep
<1>4. CASE req[r].at = "own"
  <2>1. /\ q = [p EXCEPT !.at = "done", !.by = r]
        /\ r \in Requests \cup {None} /\ "done" \in Places
    BY <1>2, <1>4 DEF ByOwnRun, Places
  <2>2. /\ q \in Request /\ q.at = "done" /\ q.key = p.key /\ q.on = p.on
        /\ q.past = p.past /\ ~ q.closed /\ ~ q.shared /\ q.by = r /\ q.completed
        /\ q.sent = p.sent /\ q.written = p.written
    <3> DEFINE b == r
    <3> HIDE DEF q
    <3>1. p \in Request /\ b \in Requests \cup {None} /\ q = AnsweredBy(p, b)
      BY <1>2, <2>1 DEF AnsweredBy
    <3> HIDE DEF b
    <3>2. /\ q \in Request /\ q.at = "done" /\ q.key = p.key /\ q.on = p.on
          /\ q.past = p.past /\ q.closed = p.closed /\ q.shared = p.shared /\ q.by = b
          /\ q.completed = p.completed /\ q.sent = p.sent /\ q.written = p.written
      BY <3>1, DoneFacts
    <3>3. QED
      BY <1>2, <3>2 DEF b
  <2> HIDE DEF q
  <2>3. /\ q.key = req[r].key /\ q.on = req[r].on /\ q.past = req[r].past
        /\ q.at \notin {"lead", "own", "returned"} /\ q.sent = q.written
    BY <1>1, <1>2, <1>4, <2>2, RunFacts
  <2>4. QED
    BY <1>1, <1>4, <2>2, <2>3, RunStep
<1>5. QED
  BY <1>1, <1>3, <1>4, RunFacts

\* The handler panics: its own request is answered by nobody.
LEMMA PanicKeepsIInv ==
  ASSUME IInv, NEW r \in Requests, HandlerPanics(r)
  PROVE  IInv'
<1> DEFINE q == IF req[r].at = "lead" THEN [req[r] EXCEPT !.at = "returned"]
                ELSE ByOwnRun(r, req[r])
<1>1. Runs(r) /\ Become(r, q) /\ UNCHANGED <<writes, calls>>
  BY DEF HandlerPanics
<1>2. CASE req[r].at = "lead"
  <2>1. q = [req[r] EXCEPT !.at = "returned"]
    BY <1>2
  <2>2. /\ q \in Request /\ q.at = "returned" /\ q.key = req[r].key /\ q.on = req[r].on
        /\ q.past = req[r].past /\ ~ q.closed /\ ~ q.shared /\ q.by = None
        /\ q.overflowed = req[r].overflowed /\ q.sent = req[r].sent /\ q.buf = req[r].buf
        /\ q.written = req[r].written
    BY <1>1, <2>1, RunFacts DEF Request, Places
  <2> HIDE DEF q
  <2>3. IF q.overflowed THEN q.sent = q.written ELSE q.sent = 0 /\ q.buf = q.written
    BY <1>1, <1>2, <2>2, RunFacts
  <2>4. q.at \notin {"lead", "own", "done"}
    BY <2>2
  <2>5. QED
    BY <1>1, <1>2, <2>2, <2>3, <2>4, RunStep
<1>3. CASE req[r].at = "own"
  <2>1. q = [req[r] EXCEPT !.at = "done", !.by = None]
    BY <1>1, <1>3, RunFacts DEF ByOwnRun
  <2>2. /\ q \in Request /\ q.at = "done" /\ q.key = req[r].key /\ q.on = req[r].on
        /\ q.past = req[r].past /\ ~ q.closed /\ ~ q.shared /\ q.by = None /\ ~ q.completed
        /\ q.sent = req[r].sent /\ q.written = req[r].written
    <3> HIDE DEF q
    <3> DEFINE p == req[r]
    <3>1. p \in Request /\ ~ p.completed /\ ~ p.closed /\ ~ p.shared
      BY <1>1, RunFacts
    <3>2. q = [p EXCEPT !.at = "done", !.by = None]
      BY <2>1
    <3> DEFINE b == None
    <3>3. b \in Requests \cup {None} /\ q = AnsweredBy(p, b)
      BY <3>2 DEF AnsweredBy
    <3> HIDE DEF p, b
    <3>4. /\ q \in Request /\ q.at = "done" /\ q.key = p.key /\ q.on = p.on
          /\ q.past = p.past /\ q.closed = p.closed /\ q.shared = p.shared /\ q.by = b
          /\ q.completed = p.completed /\ q.sent = p.sent /\ q.written = p.written
      BY <3>1, <3>3, DoneFacts
    <3>5. QED
      BY <3>1, <3>4 DEF p, b
  <2> HIDE DEF q
  <2>3. QED
    BY <1>1, <1>3, <2>2, RunFacts, RunStep
<1>4. QED
  BY <1>1, <1>2, <1>3, RunFacts

\* A leader enters the map where there was none: no other run is in its place.
LEMMA LeadKeepsIInv ==
  ASSUME IInv, NEW r \in Requests, Leads(r)
  PROVE  IInv'
<1> DEFINE q == [req[r] EXCEPT !.at = "lead"]
<1>1. /\ req[r] \in Request /\ Sound(r) /\ req[r].at = "enter" /\ Become(r, q)
      /\ calls[req[r].key] = None /\ calls' = [calls EXCEPT ![req[r].key] = r]
      /\ UNCHANGED writes
  BY RequestFacts DEF Leads
<1>2. /\ req[r].key \in Keys /\ req[r].on = None /\ req[r].by = None /\ ~ req[r].completed
      /\ ~ req[r].closed /\ ~ req[r].shared /\ ~ req[r].overflowed
      /\ req[r].written = 0 /\ req[r].sent = 0 /\ req[r].buf = 0
  BY <1>1 DEF Request, Sound, Shaped
<1>3. /\ q \in Request /\ q.at = "lead" /\ q.key = req[r].key /\ q.on = None /\ q.by = None
      /\ ~ q.completed /\ ~ q.closed /\ ~ q.shared /\ ~ q.overflowed
      /\ q.written = 0 /\ q.sent = 0 /\ q.buf = 0 /\ q.past = req[r].past
  BY <1>1, <1>2 DEF Request, Places
<1> HIDE DEF q
<1>4. req'[r] = q /\ \A s \in Requests : s # r => req'[s] = req[s]
  BY <1>1, StepOfOne
<1>5. Evolves(req[r], q)
  BY <1>1, <1>2, <1>3 DEF Evolves, Led
<1>6. CoalesceTypeOK'
  BY <1>1, <1>3 DEF IInv, CoalesceTypeOK, Become
<1>7. calls \in [Keys -> Requests \cup {None}] /\ r # None
  BY CoalesceAssumption DEF IInv, CoalesceTypeOK
<1>8. MapMatches'
  <2> SUFFICES ASSUME NEW k \in Keys, calls'[k] # None PROVE req'[calls'[k]].key = k
    BY DEF MapMatches
  <2>1. CASE k = req[r].key
    BY <1>1, <1>2, <1>3, <1>4, <1>7, <2>1
  <2>2. CASE k # req[r].key
    <3>1. calls'[k] = calls[k] /\ calls[k] \in Requests /\ req[calls[k]].key = k
      BY <1>1, <1>7, <2>2 DEF IInv, MapMatches
    <3>2. QED
      BY <1>4, <2>2, <3>1
  <2>3. QED
    BY <2>1, <2>2
<1>9. ASSUME NEW s \in Requests PROVE Mapped(s)'
  <2>1. Mapped(s) /\ (req[s].at # "idle" => req[s].key \in Keys)
    BY RequestFacts DEF Sound, Shaped
  <2>2. CASE s = r
    BY <1>1, <1>2, <1>3, <1>4, <1>7, <2>2 DEF Mapped
  <2>3. CASE s # r
    <3>1. req'[s] = req[s] /\ \A k \in Keys : calls'[k] = s <=> calls[k] = s
      BY <1>1, <1>2, <1>4, <1>7, <2>3, CoalesceAssumption
    <3>2. QED
      BY <2>1, <3>1 DEF Mapped
  <2>4. QED
    BY <2>2, <2>3
<1>10. Served' = Served
  BY <1>1, <1>3, <1>4 DEF Served
<1>11. (Shaped(r) /\ PastIsAnswered(r) /\ WaitsFor(r) /\ IsAnswered(r))'
  BY <1>1, <1>2, <1>3, <1>4, <1>10
     DEF Sound, Shaped, PastIsAnswered, WaitsFor, IsAnswered
<1>12. QED
  BY <1>1, <1>3, <1>5, <1>6, <1>8, <1>9, <1>11, OthersStaySound DEF IInv, Sound

\* A leader leaves the map: the one that is there for its key is itself.
LEMMA RemoveKeepsIInv ==
  ASSUME IInv, NEW r \in Requests, Remove(r)
  PROVE  IInv'
<1> DEFINE q == [req[r] EXCEPT !.at = "removed"]
<1>1. /\ req[r] \in Request /\ Sound(r) /\ req[r].at = "returned" /\ Become(r, q)
      /\ calls' = [calls EXCEPT ![req[r].key] = None] /\ UNCHANGED writes
  BY RequestFacts DEF Remove
<1>2. /\ req[r].key \in Keys /\ calls[req[r].key] = r /\ req[r].on = None /\ req[r].by = None
      /\ ~ req[r].closed /\ ~ req[r].shared
      /\ IF req[r].overflowed THEN req[r].sent = req[r].written
         ELSE req[r].sent = 0 /\ req[r].buf = req[r].written
  BY <1>1 DEF Request, Sound, Shaped, Mapped
<1>3. /\ q \in Request /\ q.at = "removed" /\ q.key = req[r].key /\ q.on = None /\ q.by = None
      /\ ~ q.closed /\ ~ q.shared /\ q.overflowed = req[r].overflowed
      /\ q.written = req[r].written /\ q.sent = req[r].sent /\ q.buf = req[r].buf
      /\ q.past = req[r].past
  BY <1>1, <1>2 DEF Request, Places
<1> HIDE DEF q
<1>4. req'[r] = q /\ \A s \in Requests : s # r => req'[s] = req[s]
  BY <1>1, StepOfOne
<1>5. Evolves(req[r], q)
  BY <1>1, <1>2, <1>3 DEF Evolves, Led
<1>6. CoalesceTypeOK'
  BY <1>1, <1>3 DEF IInv, CoalesceTypeOK, Become
<1>7. calls \in [Keys -> Requests \cup {None}] /\ r # None
  BY CoalesceAssumption DEF IInv, CoalesceTypeOK
<1>8. \A k \in Keys : calls'[k] = IF k = req[r].key THEN None ELSE calls[k]
  BY <1>1, <1>2, <1>7
<1>9. \A k \in Keys : calls[k] = r => k = req[r].key
  BY <1>7 DEF IInv, MapMatches
<1>10. MapMatches'
  BY <1>4, <1>7, <1>8, <1>9 DEF IInv, MapMatches
<1>11. ASSUME NEW s \in Requests PROVE Mapped(s)'
  <2>1. Mapped(s) /\ (req[s].at # "idle" => req[s].key \in Keys)
    BY RequestFacts DEF Sound, Shaped
  <2>2. CASE s = r
    BY <1>3, <1>4, <1>7, <1>8, <1>9, <2>2 DEF Mapped
  <2>3. CASE s # r
    <3>1. req'[s] = req[s] /\ \A k \in Keys : calls'[k] = s <=> calls[k] = s
      BY <1>2, <1>4, <1>7, <1>8, <2>3, CoalesceAssumption
    <3>2. QED
      BY <2>1, <3>1 DEF Mapped
  <2>4. QED
    BY <2>2, <2>3
<1>12. Served' = Served
  BY <1>1, <1>3, <1>4 DEF Served
<1>13. (Shaped(r) /\ PastIsAnswered(r) /\ WaitsFor(r) /\ IsAnswered(r))'
  BY <1>1, <1>2, <1>3, <1>4, <1>12
     DEF Sound, Shaped, PastIsAnswered, WaitsFor, IsAnswered
<1>14. QED
  BY <1>1, <1>3, <1>5, <1>6, <1>10, <1>11, <1>13, OthersStaySound DEF IInv, Sound

\* What is shared is a run that returned and fitted the buffer.
LEMMA PublishKeepsIInv ==
  ASSUME IInv, NEW r \in Requests, Publish(r)
  PROVE  IInv'
<1> DEFINE q == [req[r] EXCEPT !.at = "published", !.closed = TRUE, !.shared = Shareable(req[r])]
<1>1. /\ req[r] \in Request /\ Sound(r) /\ req[r].at = "removed" /\ Become(r, q)
      /\ UNCHANGED <<writes, calls>>
  BY RequestFacts DEF Publish
<1>2. /\ req[r].key \in Keys /\ req[r].on = None /\ req[r].by = None /\ ~ req[r].closed
      /\ IF req[r].overflowed THEN req[r].sent = req[r].written
         ELSE req[r].sent = 0 /\ req[r].buf = req[r].written
  BY <1>1 DEF Request, Sound, Shaped
<1>3. Shareable(req[r]) \in BOOLEAN
  BY <1>1 DEF Shareable, Request
<1>4. /\ q \in Request /\ q.at = "published" /\ q.key = req[r].key /\ q.on = None
      /\ q.by = None /\ q.closed /\ q.overflowed = req[r].overflowed
      /\ q.completed = req[r].completed /\ q.cookie = req[r].cookie
      /\ q.written = req[r].written /\ q.sent = req[r].sent /\ q.buf = req[r].buf
      /\ q.past = req[r].past /\ q.shared = Shareable(req[r])
  BY <1>1, <1>2, <1>3 DEF Request, Places
<1> HIDE DEF q
<1>5. req'[r] = q /\ \A s \in Requests : s # r => req'[s] = req[s]
  BY <1>1, StepOfOne
<1>6. Evolves(req[r], q)
  BY <1>1, <1>2, <1>4 DEF Evolves, Led
<1>7. Served' = Served
  BY <1>1, <1>4, <1>5 DEF Served
<1>8. q.shared => q.completed /\ ~ q.cookie /\ q.buf = q.written
  BY <1>2, <1>4 DEF Shareable
<1>9. (Shaped(r) /\ PastIsAnswered(r) /\ WaitsFor(r) /\ IsAnswered(r))'
  BY <1>1, <1>2, <1>4, <1>5, <1>7, <1>8
     DEF Sound, Shaped, PastIsAnswered, WaitsFor, IsAnswered
<1>10. QED
  BY <1>1, <1>4, <1>6, <1>9, QuietStep

\* A leader's client gets what was buffered, when nothing went by the buffer.
LEMMA FinishKeepsIInv ==
  ASSUME IInv, NEW r \in Requests, Finish(r)
  PROVE  IInv'
<1> DEFINE p == IF req[r].completed /\ ~ req[r].overflowed
                THEN [req[r] EXCEPT !.sent = req[r].buf] ELSE req[r]
           q == ByOwnRun(r, p)
<1>1. /\ req[r] \in Request /\ Sound(r) /\ req[r].at = "published" /\ Become(r, q)
      /\ UNCHANGED <<writes, calls>>
  BY RequestFacts DEF Finish
<1>2. /\ req[r].key \in Keys /\ req[r].on = None
      /\ req[r].overflowed => req[r].sent = req[r].written
      /\ ~ req[r].overflowed => req[r].buf = req[r].written
      /\ req[r].shared => /\ req[r].closed /\ req[r].completed /\ ~ req[r].cookie
                          /\ req[r].buf = req[r].written
  BY <1>1 DEF Request, Sound, Shaped
<1>3. /\ p \in Request /\ p.key = req[r].key /\ p.on = None /\ p.closed = req[r].closed
      /\ p.shared = req[r].shared /\ p.completed = req[r].completed
      /\ p.cookie = req[r].cookie /\ p.written = req[r].written /\ p.buf = req[r].buf
      /\ p.past = req[r].past
      /\ p.completed => p.sent = p.written
  <2>1. CASE req[r].completed /\ ~ req[r].overflowed
    <3>1. /\ p = [req[r] EXCEPT !.sent = req[r].written]
          /\ req[r].written \in 0..MaxChunks
      BY <1>1, <1>2, <2>1 DEF Request
    <3>2. QED
      BY <1>1, <1>2, <3>1 DEF Request
  <2>2. CASE ~ (req[r].completed /\ ~ req[r].overflowed)
    BY <1>1, <1>2, <2>2
  <2>3. QED
    BY <2>1, <2>2
<1> HIDE DEF p
<1>4. /\ q = [p EXCEPT !.at = "done", !.by = IF p.completed THEN r ELSE None]
      /\ (IF p.completed THEN r ELSE None) \in Requests \cup {None} /\ "done" \in Places
  BY DEF ByOwnRun, Places
<1>5. /\ q \in Request /\ q.at = "done" /\ q.key = p.key /\ q.on = None
      /\ q.closed = p.closed /\ q.shared = p.shared /\ q.completed = p.completed
      /\ q.cookie = p.cookie /\ q.written = p.written /\ q.buf = p.buf /\ q.past = p.past
      /\ q.by = (IF p.completed THEN r ELSE None) /\ q.sent = p.sent
  BY <1>3, <1>4 DEF Request
<1> HIDE DEF q
<1>6. req'[r] = q /\ \A s \in Requests : s # r => req'[s] = req[s]
  BY <1>1, StepOfOne
<1>7. Evolves(req[r], q)
  BY <1>1, <1>3, <1>5 DEF Evolves, Led
<1>8. Served \subseteq Served'
  BY <1>1, <1>5, <1>6 DEF Served
<1>9. Shaped(r)'
  BY <1>2, <1>3, <1>5, <1>6 DEF Shaped
<1>10. PastIsAnswered(r)' /\ WaitsFor(r)' /\ IsAnswered(r)'
  <2>1. PastIsAnswered(r)'
    BY <1>1, <1>3, <1>5, <1>6, <1>8 DEF Sound, PastIsAnswered
  <2>2. WaitsFor(r)'
    BY <1>5, <1>6 DEF WaitsFor
  <2>3. CASE p.completed
    BY <1>3, <1>5, <1>6, <2>1, <2>2, <2>3 DEF IsAnswered
  <2>4. CASE ~ p.completed
    BY <1>3, <1>5, <1>6, <2>1, <2>2, <2>4 DEF IsAnswered
  <2>5. QED
    BY <2>3, <2>4
<1>11. QED
  BY <1>1, <1>3, <1>5, <1>7, <1>9, <1>10, QuietStep

\* What a waiter is, and the leader it waits for.
LEMMA WaiterFacts ==
  ASSUME IInv, NEW r \in Requests, req[r].at = "wait"
  PROVE  LET q == req[r]  leader == req[q.on] IN
         /\ q \in Request /\ Sound(r) /\ q.key \in Keys /\ ~ q.closed /\ ~ q.shared
         /\ q.by = None /\ ~ q.completed /\ q.written = 0 /\ q.sent = 0
         /\ q.on \in Requests /\ q.on # None /\ q.on # r
         /\ leader \in Request /\ Sound(q.on)
         /\ leader.at \in Led /\ leader.key = q.key /\ q.on \notin q.past
         /\ leader.shared => leader.buf = leader.written /\ leader.completed
<1>1. req[r] \in Request /\ Sound(r)
  BY RequestFacts
<1>2. /\ req[r].key \in Keys /\ ~ req[r].closed /\ ~ req[r].shared /\ req[r].by = None
      /\ ~ req[r].completed /\ req[r].written = 0 /\ req[r].sent = 0 /\ req[r].on # None
  BY <1>1 DEF Request, Sound, Shaped
<1>3. req[r].on \in Requests
  BY <1>1, <1>2 DEF Request
<1>4. /\ req[req[r].on].at \in Led /\ req[req[r].on].key = req[r].key
      /\ req[r].on \notin req[r].past
  BY <1>1, <1>2 DEF Sound, WaitsFor
<1>5. req[r].on # r
  BY <1>4 DEF Led
<1>6. req[req[r].on] \in Request /\ Sound(req[r].on)
  BY <1>3, RequestFacts
<1>7. req[req[r].on].shared => /\ req[req[r].on].buf = req[req[r].on].written
                               /\ req[req[r].on].completed
  BY <1>6 DEF Sound, Shaped
<1>8. QED
  BY <1>1, <1>2, <1>3, <1>4, <1>5, <1>6, <1>7

\* A waiter gets what its leader wrote, all of it.
LEMMA ReplayKeepsIInv ==
  ASSUME IInv, NEW r \in Requests, Replay(r)
  PROVE  IInv'
<1> DEFINE l == req[r].on
           q == [req[r] EXCEPT !.at = "done", !.sent = req[l].buf, !.by = l]
<1>1. /\ req[r].at = "wait" /\ req[l].closed /\ req[l].shared /\ Become(r, q)
      /\ UNCHANGED <<writes, calls>>
  BY DEF Replay
<1>2. /\ req[r] \in Request /\ Sound(r) /\ req[r].key \in Keys /\ ~ req[r].closed
      /\ ~ req[r].shared /\ l \in Requests /\ l # None /\ l # r
      /\ req[l] \in Request /\ req[l].at \in Led /\ req[l].key = req[r].key
      /\ l \notin req[r].past /\ req[l].buf = req[l].written
  BY <1>1, WaiterFacts
<1>3. req[l].buf \in 0..MaxChunks /\ l \in Requests \cup {None} /\ "done" \in Places
  BY <1>2 DEF Request, Places
<1>4. /\ q \in Request /\ q.at = "done" /\ q.key = req[r].key /\ q.on = l
      /\ q.past = req[r].past /\ ~ q.closed /\ ~ q.shared /\ q.by = l
      /\ q.sent = req[l].written
  BY <1>2, <1>3 DEF Request
<1> HIDE DEF q, l
<1>5. req'[r] = q /\ \A s \in Requests : s # r => req'[s] = req[s]
  BY <1>1, <1>4, StepOfOne
<1>6. Evolves(req[r], q)
  BY <1>1, <1>2, <1>4 DEF Evolves, Led
<1>7. Served \subseteq Served'
  BY <1>1, <1>4, <1>5 DEF Served
<1>8. Shaped(r)'
  BY <1>2, <1>4, <1>5 DEF Shaped
<1>9. PastIsAnswered(r)'
  BY <1>1, <1>2, <1>4, <1>5, <1>7 DEF Sound, PastIsAnswered
<1>10. WaitsFor(r)'
  BY <1>2, <1>4, <1>5 DEF WaitsFor
<1>11. IsAnswered(r)'
  BY <1>1, <1>2, <1>4, <1>5 DEF IsAnswered
<1>12. QED
  BY <1>1, <1>4, <1>6, <1>8, <1>9, <1>10, <1>11, QuietStep

\* A waiter whose leader has nothing to share starts its own run.
LEMMA RunOwnKeepsIInv ==
  ASSUME IInv, NEW r \in Requests, RunOwn(r)
  PROVE  IInv'
<1> DEFINE l == req[r].on
           q == [req[r] EXCEPT !.at = "own"]
<1>1. /\ req[r].at = "wait" /\ req[l].closed /\ ~ req[l].shared /\ Become(r, q)
      /\ UNCHANGED <<writes, calls>>
  BY DEF RunOwn
<1>2. /\ req[r] \in Request /\ Sound(r) /\ req[r].key \in Keys /\ ~ req[r].closed
      /\ ~ req[r].shared /\ l \in Requests /\ l # None /\ l # r
      /\ req[l].at \in Led /\ req[l].key = req[r].key /\ l \notin req[r].past
      /\ req[r].by = None /\ ~ req[r].completed /\ req[r].written = 0 /\ req[r].sent = 0
  BY <1>1, WaiterFacts
<1>3. /\ q \in Request /\ q.at = "own" /\ q.key = req[r].key /\ q.on = l
      /\ q.past = req[r].past /\ ~ q.closed /\ ~ q.shared /\ q.by = None /\ ~ q.completed
      /\ q.written = 0 /\ q.sent = 0
  BY <1>2 DEF Request, Places
<1> HIDE DEF q, l
<1>4. req'[r] = q /\ \A s \in Requests : s # r => req'[s] = req[s]
  BY <1>1, <1>3, StepOfOne
<1>5. Evolves(req[r], q)
  BY <1>1, <1>2, <1>3 DEF Evolves, Led
<1>6. Served \subseteq Served'
  BY <1>1, <1>4 DEF Served
<1>7. Shaped(r)' /\ IsAnswered(r)'
  BY <1>2, <1>3, <1>4 DEF Shaped, IsAnswered
<1>8. PastIsAnswered(r)'
  BY <1>1, <1>2, <1>3, <1>4, <1>6 DEF Sound, PastIsAnswered
<1>9. WaitsFor(r)'
  BY <1>1, <1>2, <1>3, <1>4 DEF WaitsFor
<1>10. QED
  BY <1>1, <1>3, <1>5, <1>7, <1>8, <1>9, QuietStep

\* Writes elsewhere are none of the middleware's business.
LEMMA CommitKeepsIInv ==
  ASSUME IInv, WriteCommits
  PROVE  IInv'
<1>1. writes' \in 0..MaxWrites
  BY CoalesceAssumption DEF WriteCommits, IInv, CoalesceTypeOK
<1>2. QED
  BY <1>1 DEF WriteCommits, IInv, CoalesceTypeOK, MapMatches, Sound, Shaped, PastIsAnswered, Served,
              WaitsFor, IsAnswered, Mapped

\* It starts with nobody here and nobody in the map.
LEMMA InitIsSound == CoalesceInit => IInv
<1> SUFFICES ASSUME CoalesceInit PROVE IInv
  OBVIOUS
<1>1. NewRequest \in Request
  BY CoalesceAssumption DEF NewRequest, Request, Places, Unread
<1>2. CoalesceTypeOK /\ MapMatches
  BY <1>1, CoalesceAssumption DEF CoalesceInit, CoalesceTypeOK, MapMatches
<1>3. ASSUME NEW r \in Requests PROVE Sound(r)
  <2>1. /\ req[r] = NewRequest /\ req[r].at = "idle" /\ req[r].on = None
        /\ ~ req[r].closed /\ ~ req[r].shared /\ req[r].by = None
    BY DEF CoalesceInit, NewRequest
  <2>2. \A k \in Keys : calls[k] # r
    BY CoalesceAssumption DEF CoalesceInit
  <2>3. QED
    BY <2>1, <2>2 DEF Sound, Shaped, PastIsAnswered, WaitsFor, IsAnswered, Mapped
<1>4. QED
  BY <1>2, <1>3 DEF IInv

\* Every step keeps the invariant.
LEMMA NextIsSound == IInv /\ [CoalesceNext]_coalesceVars => IInv'
<1> SUFFICES ASSUME IInv, [CoalesceNext]_coalesceVars PROVE IInv'
  OBVIOUS
<1>1. CASE UNCHANGED coalesceVars
  BY <1>1 DEF coalesceVars, IInv, CoalesceTypeOK, MapMatches, Sound, Shaped, PastIsAnswered, Served,
              WaitsFor, IsAnswered, Mapped
<1>2. CASE WriteCommits
  BY <1>2, CommitKeepsIInv
<1>3. ASSUME NEW r \in Requests, Step(r) PROVE IInv'
  <2>1. CASE \E k \in Keys : Arrive(r, k)
    BY <2>1, ArriveKeepsIInv
  <2>2. CASE Leads(r)
    BY <2>2, LeadKeepsIInv
  <2>3. CASE Wait(r)
    BY <2>3, WaitKeepsIInv
  <2>4. CASE HandlerReads(r)
    BY <2>4, ReadKeepsIInv
  <2>5. CASE HandlerSetsCookie(r)
    BY <2>5, CookieKeepsIInv
  <2>6. CASE HandlerWrites(r)
    BY <2>6, WriteKeepsIInv
  <2>7. CASE HandlerReturns(r)
    BY <2>7, ReturnKeepsIInv
  <2>8. CASE HandlerPanics(r)
    BY <2>8, PanicKeepsIInv
  <2>9. CASE Remove(r)
    BY <2>9, RemoveKeepsIInv
  <2>10. CASE Publish(r)
    BY <2>10, PublishKeepsIInv
  <2>11. CASE Finish(r)
    BY <2>11, FinishKeepsIInv
  <2>12. CASE Replay(r)
    BY <2>12, ReplayKeepsIInv
  <2>13. CASE RunOwn(r)
    BY <2>13, RunOwnKeepsIInv
  <2>14. QED
    BY <1>3, <2>1, <2>2, <2>3, <2>4, <2>5, <2>6, <2>7, <2>8, <2>9, <2>10, <2>11, <2>12,
       <2>13 DEF Step
<1>4. QED
  BY <1>1, <1>2, <1>3 DEF CoalesceNext

-----------------------------------------------------------------------------
(* What follows.                                                            *)

\* The invariant holds of every behaviour of the middleware.
THEOREM Invariance == CoalesceSpec => []IInv
<1>1. QED
  BY InitIsSound, NextIsSound, PTL DEF CoalesceSpec

\* Every variable keeps its type: no recorder holds more than MaxBody.
THEOREM TypeCorrect == CoalesceSpec => []CoalesceTypeOK
<1>1. IInv => CoalesceTypeOK
  BY DEF IInv
<1>2. QED
  BY <1>1, Invariance, PTL

\* Identical requests share one run at a time, because only the one in the map
\* for its key has the handler running into a recorder.
THEOREM OneLeader == CoalesceSpec => []OneLeaderPerKey
<1>1. IInv => OneLeaderPerKey
  <2> SUFFICES ASSUME IInv, NEW r \in Requests, NEW s \in Requests,
                      {req[r].at, req[s].at} \subseteq {"lead", "returned"},
                      req[r].key = req[s].key
               PROVE  r = s
    BY DEF OneLeaderPerKey
  <2>1. calls[req[r].key] = r /\ calls[req[s].key] = s
    BY RequestFacts DEF Sound, Mapped
  <2>2. QED
    BY <2>1
<1>2. QED
  BY <1>1, Invariance, PTL

\* Whom a request was answered by: nobody, its own run, or its leader's, which
\* has something to share.
LEMMA AnswerFacts ==
  ASSUME IInv, NEW r \in Served
  PROVE  LET q == req[r]  leader == req[q.on] IN
         /\ r \in Requests
         /\ \/ /\ q.by = None /\ ~ q.completed
               /\ q.on # None => ~ leader.shared
            \/ q.by = r /\ q.completed /\ q.sent = q.written
            \/ /\ q.by = q.on /\ q.on \in Requests /\ q.on # None /\ q.on \notin q.past
               /\ leader.shared /\ leader.completed /\ ~ leader.cookie
               /\ leader.key = q.key /\ q.sent = leader.written
<1>1. r \in Requests /\ req[r].at = "done"
  BY DEF Served
<1>2. req[r] \in Request /\ Sound(r)
  BY <1>1, RequestFacts
<1>3. ASSUME req[r].on # None, req[req[r].on].shared
      PROVE  /\ req[r].on \in Requests /\ req[r].on \notin req[r].past
             /\ req[req[r].on].completed /\ ~ req[req[r].on].cookie
             /\ req[req[r].on].key = req[r].key
  <2>1. req[r].on \in Requests
    BY <1>2, <1>3 DEF Request
  <2>2. Sound(req[r].on)
    BY <2>1, RequestFacts
  <2>3. QED
    BY <1>2, <1>3, <2>1, <2>2 DEF Sound, Shaped, WaitsFor
<1>4. QED
  BY <1>1, <1>2, <1>3 DEF Sound, IsAnswered

\* A response is all that one run wrote, a run that returned, for the same key.
THEOREM WholeAnswers == CoalesceSpec => []AnswersAreWhole
<1>1. IInv => AnswersAreWhole
  <2> SUFFICES ASSUME IInv, NEW r \in Served
               PROVE  IF req[r].by = None
                      THEN /\ ~ req[r].completed
                           /\ req[r].on # None => ~ req[req[r].on].shared
                      ELSE /\ req[req[r].by].completed /\ req[req[r].by].key = req[r].key
                           /\ req[r].sent = req[req[r].by].written
    BY DEF AnswersAreWhole
  <2>1. r # None
    BY AnswerFacts, CoalesceAssumption
  <2>2. QED
    BY <2>1, AnswerFacts
<1>2. QED
  BY <1>1, Invariance, PTL

\* No response that set a cookie is handed to anyone but the request whose run
\* set it.
THEOREM OwnCookies == CoalesceSpec => []CookiesAreOwn
<1>1. IInv => CookiesAreOwn
  BY AnswerFacts DEF CookiesAreOwn
<1>2. QED
  BY <1>1, Invariance, PTL

\* No response outlives the requests that came while it was being made: none is
\* sent to a request that arrived after it was finished.
THEOREM NoneKept == CoalesceSpec => []NothingIsKept
<1>1. IInv => NothingIsKept
  <2> SUFFICES ASSUME IInv, NEW r \in Served PROVE req[r].by \notin req[r].past
    BY DEF NothingIsKept
  <2>1. /\ r \in Requests /\ r \notin req[r].past /\ None \notin req[r].past
    BY RequestFacts, CoalesceAssumption DEF Served, Sound, PastIsAnswered
  <2>2. QED
    BY <2>1, AnswerFacts
<1>2. QED
  BY <1>1, Invariance, PTL

=============================================================================
