--------------------------- MODULE DocumentsProofs ---------------------------
(***************************************************************************)
(* What Documents promises, proved for every set of ids and calls and any  *)
(* number of attempts: that no patch is lost, that patches store what they *)
(* validated, that a version names one body, that conflicts are earned,    *)
(* and that every call implements one atomic step on each document.  And   *)
(* what Schema promises of the table they are in, for every set of builds  *)
(* and processes: that a promoted path changes no answer, and that a       *)
(* backfill does what its report said and stays done.                      *)
(***************************************************************************)
EXTENDS Documents, Schema, FiniteSetTheorems, TLAPS

-----------------------------------------------------------------------------
(* The inductive invariant.                                                 *)

\* Where a call is agrees with what it has asked, seen and done.
Shaped(c) ==
    LET k == call[c] IN
    /\ k.at = "idle" <=> k.req = None
    /\ k.at = "idle" => k = NewCall
    /\ k.at = "done" <=> k.answer # "none"
    /\ k.at \in {"read", "write"} => k.did = {}
    /\ k.at = "read" => k.req.op \in {"patch", "delete", "restore"} \cup Bulk
    /\ k.at = "walk" => k.req.op \in Bulk

\* A call for one document has seen and written no other.  It holds what it
\* read when it comes to write.
AboutOne(c) ==
    LET k == call[c] IN
    k.at # "idle" /\ k.req.op \notin Bulk =>
        /\ k.saw \subseteq {k.req.id}
        /\ k.req.op # "create" => k.did \subseteq {k.req.id}
        /\ k.at = "write" /\ k.req.op \in {"patch", "delete", "restore"} =>
              k.read # NoRow /\ k.saw = {k.req.id}

\* A set-wide write sees once, and a walk has written, or still has to write,
\* every row it saw that is there.
AboutMany(c) ==
    LET k == call[c] IN
    k.at # "idle" /\ k.req.op \in Bulk =>
        /\ k.at \in {"read", "write"} => k.saw = {}
        /\ k.at = "walk" =>
              /\ k.todo \cup k.did \subseteq k.saw
              /\ k.todo \cap k.did = {}
              /\ \A i \in k.saw : i \in k.todo \cup k.did \/ rows[i] = NoRow

\* A patch that has written is in its row, and stored what it validated.
Kept(c) ==
    LET k == call[c] IN
    k.at # "idle" /\ k.req.op = "patch" /\ k.did # {} =>
        /\ rows[k.req.id] = NoRow \/ c \in rows[k.req.id].tally
        /\ k.stored.tally = k.read.tally \cup {c}
        /\ k.stored.flag = k.read.flag
        /\ k.stored.version = k.read.version + 1

\* The document moves on at least once for every attempt of a patch.
Earned(c) ==
    LET k == call[c]
        beyond(n) == rows[k.req.id] = NoRow \/ rows[k.req.id].version >= n
    IN
    /\ k.answer = "conflict" => k.req.op = "patch" /\ k.first # 0
    /\ k.at # "idle" /\ k.req.op = "patch" =>
          /\ k.first = 0 => k.at # "write" /\ k.attempt = 1
          /\ k.first # 0 =>
                /\ k.read # NoRow
                /\ k.at = "read" => beyond(k.first + k.attempt - 1)
                /\ k.at = "write" => k.read.version >= k.first + k.attempt - 1
                /\ k.answer = "conflict" => beyond(k.first + PatchAttempts)

Sound(c) == Shaped(c) /\ AboutOne(c) /\ AboutMany(c) /\ Kept(c) /\ Earned(c)

\* Nobody holds a later document than the row.
RowsAreLatest ==
    \A i \in Ids : rows[i] # NoRow => \A a \in Seen(i) : a.version <= rows[i].version

\* Nobody knows of an id that is not handed out.
FreshIsUnseen ==
    \A i \in fresh : Seen(i) = {} /\ \A c \in Calls : i \notin call[c].saw \cup call[c].did

IInv ==
    /\ TypeOK
    /\ \A c \in Calls : Sound(c)
    /\ RowsAreLatest
    /\ VersionsNameBodies
    /\ FreshIsUnseen

-----------------------------------------------------------------------------
(* Facts about the state, cited below.                                      *)

\* What the assumption on the constants says of requests: a call that names no
\* document is an insert or a set-wide write.
LEMMA RequestFacts ==
  ASSUME NEW req \in Request
  PROVE  /\ req.op \in Ops
         /\ req.id \in Ids \cup {None}
         /\ req.op \notin Bulk \cup {"create"} => req.id \in Ids
         /\ req.op \in Bulk \cup {"create"} => req.id = None
         /\ req # None
  BY RowsAssumption DEF Request, Ops, Bulk

\* A call that has begun has a request, and what it holds has its type.
LEMMA CallFacts ==
  ASSUME IInv, NEW c \in Calls
  PROVE  /\ call[c] \in Call
         /\ Sound(c)
         /\ call[c].at # "idle" => call[c].req \in Request
         /\ call[c].read # NoRow => call[c].read \in Row
         /\ call[c].stored # NoRow => call[c].stored \in Row
  BY DEF IInv, TypeOK, Call, Sound, Shaped

\* An id names no insert, so its documents are the row and what the calls for
\* it hold.
LEMMA SeenFacts ==
  ASSUME NEW i \in Ids, NEW a
  PROVE  a \in Seen(i) <=>
           /\ a # NoRow
           /\ \/ a = rows[i]
              \/ \E d \in Calls : /\ call[d].at # "idle"
                                  /\ call[d].req.id = i
                                  /\ a = call[d].read \/ a = call[d].stored
  BY DEF Seen

\* The same of the next state.
LEMMA SeenNextFacts ==
  ASSUME NEW i \in Ids, NEW a
  PROVE  a \in Seen(i)' <=>
           /\ a # NoRow
           /\ \/ a = rows'[i]
              \/ \E d \in Calls : /\ call'[d].at # "idle"
                                  /\ call'[d].req.id = i
                                  /\ a = call'[d].read \/ a = call'[d].stored
  BY DEF Seen

\* What is seen is a row.
LEMMA SeenAreRows ==
  ASSUME IInv, NEW i \in Ids, NEW a \in Seen(i)
  PROVE  a \in Row
  BY SeenFacts, CallFacts DEF IInv, TypeOK

\* What a call holds is seen under its id, which is therefore not fresh.
LEMMA HeldIsSeen ==
  ASSUME IInv, NEW c \in Calls, call[c].at # "idle", call[c].req.id \in Ids
  PROVE  /\ call[c].read # NoRow => call[c].read \in Seen(call[c].req.id)
         /\ call[c].stored # NoRow => call[c].stored \in Seen(call[c].req.id)
         /\ call[c].read # NoRow => call[c].req.id \notin fresh
<1>1. /\ call[c].read # NoRow => call[c].read \in Seen(call[c].req.id)
      /\ call[c].stored # NoRow => call[c].stored \in Seen(call[c].req.id)
  BY SeenFacts
<1>2. QED
  BY <1>1 DEF IInv, FreshIsUnseen

-----------------------------------------------------------------------------
(* How the table moves on, and what that leaves of the invariant.           *)

\* A document and another of its id that is as late: of the same version only if
\* of the same body.
Precedes(a, b) ==
    /\ a.version <= b.version
    /\ a.version = b.version => a.tally = b.tally /\ a.flag = b.flag

\* A row's next document drops no patch.
Follows(a, b) == Precedes(a, b) /\ a.tally \subseteq b.tally

\* Ids are used up, rows appear under fresh ids alone, and move on from there.
Evolves ==
    /\ fresh' \subseteq fresh
    /\ \A i \in Ids : rows'[i] # NoRow =>
          IF rows[i] = NoRow THEN i \in fresh ELSE Follows(rows[i], rows'[i])

\* A table that stays evolves.
LEMMA StayingEvolves ==
  ASSUME IInv, UNCHANGED <<rows, fresh>>
  PROVE  Evolves
  BY DEF Evolves, Follows, Precedes, IInv, TypeOK, Row

\* Other calls' steps leave a call as sound as it was.
LEMMA OthersStaySound ==
  ASSUME IInv, Evolves, rows' \in [Ids -> Row \cup {NoRow}],
         NEW d \in Calls, call'[d] = call[d]
  PROVE  Sound(d)'
<1>1. Sound(d) /\ call[d] \in Call /\ (call[d].at # "idle" => call[d].req \in Request)
  BY CallFacts
<1>2. ASSUME NEW i \in Ids, i \notin fresh, rows[i] = NoRow
      PROVE  rows'[i] = NoRow
  BY <1>2 DEF Evolves
<1>3. Shaped(d)' /\ AboutOne(d)'
  BY <1>1 DEF Sound, Shaped, AboutOne
<1>4. AboutMany(d)'
  <2>1. ASSUME NEW i \in call[d].saw
        PROVE  i \in Ids /\ i \notin fresh
    BY <1>1, <2>1 DEF Call, IInv, FreshIsUnseen
  <2>2. QED
    BY <1>1, <1>2, <2>1 DEF Sound, AboutMany
<1>5. ASSUME call[d].at # "idle", call[d].req.op = "patch"
      PROVE  call[d].req.id \in Ids
  BY <1>1, <1>5, RequestFacts DEF Bulk
<1>6. Kept(d)'
  <2> SUFFICES ASSUME call[d].at # "idle", call[d].req.op = "patch", call[d].did # {}
               PROVE  rows'[call[d].req.id] = NoRow \/ d \in rows'[call[d].req.id].tally
    BY <1>1 DEF Sound, Kept
  <2> DEFINE i == call[d].req.id
  <2>1. i \in Ids /\ i \in call[d].did
    BY <1>1, <1>5 DEF Sound, AboutOne, Bulk
  <2>2. i \notin fresh
    BY <2>1 DEF IInv, FreshIsUnseen
  <2>3. rows[i] = NoRow \/ d \in rows[i].tally
    BY <1>1 DEF Sound, Kept
  <2>4. QED
    BY <1>2, <2>1, <2>2, <2>3 DEF Evolves, Follows, Precedes
<1>7. Earned(d)'
  <2>1. ASSUME call[d].at # "idle", call[d].req.op = "patch", call[d].first # 0, NEW n \in Nat,
               rows[call[d].req.id] = NoRow \/ rows[call[d].req.id].version >= n
        PROVE  rows'[call[d].req.id] = NoRow \/ rows'[call[d].req.id].version >= n
    <3> DEFINE i == call[d].req.id
    <3>1. i \in Ids /\ i \notin fresh
      BY <1>1, <1>5, <2>1, HeldIsSeen DEF Sound, Earned
    <3>2. CASE rows[i] = NoRow
      BY <1>2, <3>1, <3>2
    <3>3. CASE rows[i] # NoRow /\ rows'[i] # NoRow
      <4>1. rows[i] \in Row /\ rows'[i] \in Row /\ rows[i].version <= rows'[i].version
        BY <3>1, <3>3 DEF Evolves, Follows, Precedes, IInv, TypeOK
      <4>2. rows[i].version \in Nat /\ rows'[i].version \in Nat
        BY <4>1 DEF Row
      <4>3. QED
        BY <2>1, <3>3, <4>1, <4>2
    <3>4. QED
      BY <3>2, <3>3
  <2>2. call[d].first + call[d].attempt - 1 \in Nat /\ call[d].first + PatchAttempts \in Nat
    BY <1>1, DocumentsAssumption DEF Call
  <2>3. QED
    BY <1>1, <2>1, <2>2 DEF Sound, Earned
<1>8. QED
  BY <1>3, <1>4, <1>6, <1>7 DEF Sound

\* If what is newly seen is in the row, and nothing fresh is seen, what the
\* invariant says of all documents of an id is kept.
LEMMA SeenStaysSound ==
  ASSUME IInv, Evolves, TypeOK',
         \A i \in Ids : \A a \in Seen(i)' : a \in Seen(i) \/ a = rows'[i],
         \A i \in fresh' : \A d \in Calls : i \notin call'[d].saw \cup call'[d].did
  PROVE  (RowsAreLatest /\ VersionsNameBodies /\ FreshIsUnseen)'
<1>1. ASSUME NEW i \in Ids, NEW a \in Seen(i)'
      PROVE  rows'[i] # NoRow => Precedes(a, rows'[i])
  <2> SUFFICES ASSUME rows'[i] # NoRow PROVE Precedes(a, rows'[i])
    OBVIOUS
  <2>1. rows'[i] \in Row
    BY DEF TypeOK
  <2>2. CASE a = rows'[i]
    BY <2>1, <2>2 DEF Precedes, Row
  <2>3. CASE a \in Seen(i)
    <3>1. rows[i] # NoRow /\ Precedes(rows[i], rows'[i])
      BY <2>3 DEF Evolves, Follows, IInv, FreshIsUnseen
    <3>2. rows[i] \in Seen(i) /\ rows[i] \in Row /\ a \in Row
      BY <2>3, <3>1, SeenFacts, SeenAreRows
    <3>3. /\ a.version <= rows[i].version
          /\ a.version = rows[i].version => a.tally = rows[i].tally /\ a.flag = rows[i].flag
      BY <2>3, <3>1, <3>2 DEF IInv, RowsAreLatest, VersionsNameBodies
    <3>4. a.version \in Nat /\ rows[i].version \in Nat /\ rows'[i].version \in Nat
      BY <2>1, <3>2 DEF Row
    <3>5. QED
      BY <3>1, <3>3, <3>4 DEF Precedes
  <2>4. QED
    BY <2>2, <2>3
<1>2. RowsAreLatest'
  BY <1>1 DEF RowsAreLatest, Precedes
<1>3. VersionsNameBodies'
  <2> SUFFICES ASSUME NEW i \in Ids, NEW a \in Seen(i)', NEW b \in Seen(i)',
                      a.version = b.version
               PROVE  a.tally = b.tally /\ a.flag = b.flag
    BY DEF VersionsNameBodies
  <2>1. CASE a \in Seen(i) /\ b \in Seen(i)
    BY <2>1 DEF IInv, VersionsNameBodies
  <2>2. CASE a = rows'[i] \/ b = rows'[i]
    <3>1. rows'[i] # NoRow
      BY <2>2, SeenNextFacts
    <3>2. QED
      BY <1>1, <2>2, <3>1 DEF Precedes
  <2>3. QED
    BY <2>1, <2>2
<1>4. FreshIsUnseen'
  <2> SUFFICES ASSUME NEW i \in fresh', NEW a \in Seen(i)'
               PROVE  FALSE
    BY DEF FreshIsUnseen
  <2>1. i \in Ids /\ i \in fresh /\ rows'[i] = NoRow
    BY DEF TypeOK, Evolves
  <2>2. a # NoRow
    BY <2>1, SeenNextFacts
  <2>3. QED
    BY <2>1, <2>2 DEF IInv, FreshIsUnseen
<1>5. QED
  BY <1>2, <1>3, <1>4

\* A step gives one call c the record k.  It keeps the invariant if the table
\* evolves, k is sound, and k holds only what c held, or the row.
LEMMA CallStep ==
  ASSUME IInv, Evolves, NEW c \in Calls, NEW k \in Call,
         call' = [call EXCEPT ![c] = k], bulkWriter' = bulkWriter,
         rows' \in [Ids -> Row \cup {NoRow}], fresh' \subseteq {i \in Ids : rows'[i] = NoRow},
         Sound(c)',
         k.req.id \in Ids /\ k.at # "idle" =>
            /\ k.read \in Seen(k.req.id) \cup {NoRow, rows'[k.req.id]}
            /\ k.stored \in Seen(k.req.id) \cup {NoRow, rows'[k.req.id]},
         \A i \in k.saw \cup k.did : i \notin fresh'
  PROVE  IInv'
<1>1. call \in [Calls -> Call]
  BY DEF IInv, TypeOK
<1>2. TypeOK'
  BY <1>1 DEF IInv, TypeOK
<1>3. call'[c] = k /\ \A d \in Calls : d # c => call'[d] = call[d]
  BY <1>1
<1>4. \A d \in Calls : Sound(d)'
  BY <1>3, OthersStaySound
<1>5. \A i \in fresh' : \A d \in Calls : i \notin call'[d].saw \cup call'[d].did
  BY <1>3 DEF IInv, FreshIsUnseen, Evolves
<1>6. ASSUME NEW i \in Ids, NEW a \in Seen(i)'
      PROVE  a \in Seen(i) \/ a = rows'[i]
  <2>1. a # NoRow
    BY SeenNextFacts
  <2>2. CASE a = rows'[i]
    BY <2>2
  <2>3. CASE \E d \in Calls : /\ call'[d].at # "idle"
                              /\ call'[d].req.id = i
                              /\ a = call'[d].read \/ a = call'[d].stored
    BY <1>3, <2>1, <2>3, SeenFacts
  <2>4. QED
    BY <2>2, <2>3, SeenNextFacts
<1>7. (RowsAreLatest /\ VersionsNameBodies /\ FreshIsUnseen)'
  BY <1>2, <1>5, <1>6, SeenStaysSound
<1>8. QED
  BY <1>2, <1>4, <1>7 DEF IInv

\* The same for a step that leaves the table alone.
LEMMA QuietStep ==
  ASSUME IInv, NEW c \in Calls, NEW k \in Call,
         call' = [call EXCEPT ![c] = k], UNCHANGED <<bulkWriter, rows, fresh>>,
         Sound(c)',
         k.req.id \in Ids /\ k.at # "idle" =>
            /\ k.read \in Seen(k.req.id) \cup {NoRow, rows[k.req.id]}
            /\ k.stored \in Seen(k.req.id) \cup {NoRow, rows[k.req.id]},
         \A i \in k.saw \cup k.did : i \notin fresh
  PROVE  IInv'
<1>1. Evolves
  BY StayingEvolves
<1>2. rows' \in [Ids -> Row \cup {NoRow}] /\ fresh' \subseteq {i \in Ids : rows'[i] = NoRow}
  BY DEF IInv, TypeOK
<1>3. QED
  BY <1>1, <1>2, CallStep

\* What a call may hold on to: what it read and stored, what it saw and did.
LEMMA Holding ==
  ASSUME IInv, NEW c \in Calls, call[c].at # "idle"
  PROVE  /\ call[c].req.id \in Ids =>
              /\ call[c].read \in Seen(call[c].req.id) \cup {NoRow}
              /\ call[c].stored \in Seen(call[c].req.id) \cup {NoRow}
         /\ \A i \in call[c].saw \cup call[c].did : i \notin fresh
  BY HeldIsSeen DEF IInv, FreshIsUnseen

-----------------------------------------------------------------------------
(* What a statement makes of a row.                                         *)

\* The changes that statements make to a row.
LEMMA RowChanges ==
  ASSUME NEW row \in Row, NEW c \in Calls
  PROVE  /\ LET r == [row EXCEPT !.tally = row.tally \cup {c}, !.version = @ + 1]
            IN  r \in Row /\ Follows(row, r)
         /\ LET r == [row EXCEPT !.deletedBy = c] IN r \in Row /\ Follows(row, r)
         /\ LET r == [row EXCEPT !.deletedBy = None, !.version = @ + 1]
            IN  r \in Row /\ Follows(row, r)
         /\ LET r == [row EXCEPT !.flag = TRUE, !.version = @ + 1]
            IN  r \in Row /\ Follows(row, r)
<1>1. /\ row.tally \in SUBSET Calls /\ row.flag \in BOOLEAN /\ row.version \in Nat \ {0}
      /\ row.version + 1 \in Nat \ {0} /\ row.version + 1 # row.version
      /\ row.version <= row.version + 1 /\ row.version <= row.version
      /\ row.deletedBy \in Calls \cup {None}
  BY DEF Row
<1>2. row.tally \cup {c} \in SUBSET Calls
  BY <1>1
<1>3. LET r == [row EXCEPT !.tally = row.tally \cup {c}, !.version = @ + 1]
      IN  r \in Row /\ Follows(row, r)
  BY <1>1, <1>2 DEF Follows, Precedes, Row
<1>4. LET r == [row EXCEPT !.deletedBy = c] IN r \in Row /\ Follows(row, r)
  BY <1>1 DEF Follows, Precedes, Row
<1>5. LET r == [row EXCEPT !.deletedBy = None, !.version = @ + 1]
      IN  r \in Row /\ Follows(row, r)
  BY <1>1 DEF Follows, Precedes, Row
<1>6. LET r == [row EXCEPT !.flag = TRUE, !.version = @ + 1]
      IN  r \in Row /\ Follows(row, r)
  BY <1>1 DEF Follows, Precedes, Row
<1>7. QED
  BY <1>3, <1>4, <1>5, <1>6

\* UpdatePaths writes rows that follow the ones it finds.  For a patch that is
\* because the row has the version it read, and a version names one body.
LEMMA WrittenFollows ==
  ASSUME IInv, NEW c \in Calls, NEW i \in Ids, rows[i] # NoRow, call[c].at # "idle",
         call[c].req.op \in {"patch", "delete", "restore"} \cup Bulk,
         call[c].req.op = "patch" =>
            /\ call[c].req.id = i
            /\ call[c].read # NoRow
            /\ rows[i].version = call[c].read.version
  PROVE  /\ Written(c, rows[i]) \in Row
         /\ Follows(rows[i], Written(c, rows[i]))
         /\ call[c].req.op = "patch" =>
               /\ rows[i].tally = call[c].read.tally
               /\ rows[i].flag = call[c].read.flag
<1> DEFINE row == rows[i]
<1>1. row \in Row
  BY DEF IInv, TypeOK
<1>3. ASSUME call[c].req.op = "patch"
      PROVE  /\ row.tally = call[c].read.tally
             /\ row.flag = call[c].read.flag
  <2>1. call[c].read \in Seen(i) /\ row \in Seen(i)
    BY <1>3, HeldIsSeen, SeenFacts
  <2>2. QED
    BY <1>3, <2>1 DEF IInv, VersionsNameBodies
<1>4. CASE call[c].req.op = "patch"
  <2>1. Written(c, rows[i]) = [row EXCEPT !.tally = row.tally \cup {c}, !.version = @ + 1]
    BY <1>3, <1>4 DEF Written
  <2>2. QED
    BY <1>1, <1>3, <2>1, RowChanges
<1>5. CASE call[c].req.op \in {"delete", "delete_where"}
  <2>1. Written(c, rows[i]) = [row EXCEPT !.deletedBy = c]
    BY <1>5 DEF Written
  <2>2. QED
    BY <1>1, <1>5, <2>1, RowChanges
<1>6. CASE call[c].req.op = "restore"
  <2>1. Written(c, rows[i]) = [row EXCEPT !.deletedBy = None, !.version = @ + 1]
    BY <1>6 DEF Written
  <2>2. QED
    BY <1>1, <1>6, <2>1, RowChanges
<1>7. CASE call[c].req.op = "patch_where"
  <2>1. Written(c, rows[i]) = [row EXCEPT !.flag = TRUE, !.version = @ + 1]
    BY <1>7 DEF Written
  <2>2. QED
    BY <1>1, <1>7, <2>1, RowChanges
<1>8. QED
  BY <1>4, <1>5, <1>6, <1>7 DEF Bulk

\* A table that changes in one row evolves if that row does.
LEMMA OneRowEvolves ==
  ASSUME IInv, NEW i \in Ids, NEW row \in Row, rows[i] # NoRow, Follows(rows[i], row),
         rows' = [rows EXCEPT ![i] = row], fresh' = fresh
  PROVE  /\ Evolves
         /\ rows' \in [Ids -> Row \cup {NoRow}]
         /\ fresh' \subseteq {j \in Ids : rows'[j] = NoRow}
<1>1. rows \in [Ids -> Row \cup {NoRow}] /\ fresh \subseteq {j \in Ids : rows[j] = NoRow}
  BY DEF IInv, TypeOK
<1>2. \A j \in Ids : rows[j] # NoRow => Follows(rows[j], rows[j])
  BY <1>1 DEF Follows, Precedes, Row
<1>3. QED
  BY <1>1, <1>2 DEF Evolves

-----------------------------------------------------------------------------
(* The steps keep the invariant.                                            *)

\* After a step of one call, that call is as the step left it.
LEMMA StepOfOne ==
  ASSUME IInv, NEW c \in Calls, NEW k, call' = [call EXCEPT ![c] = k]
  PROVE  call'[c] = k
  BY DEF IInv, TypeOK

\* A call may stop without a statement, whatever it answers but a conflict.
LEMMA AnswerStep ==
  ASSUME IInv, NEW c \in Calls, call[c].at \in {"read", "write", "walk"},
         NEW a \in Answers \ {"none"}, Become(c, Answering(call[c], a)),
         UNCHANGED <<bulkWriter, rows, fresh>>,
         a = "conflict" =>
            /\ call[c].req.op = "patch" /\ call[c].first # 0
            /\ \/ rows[call[c].req.id] = NoRow
               \/ rows[call[c].req.id].version >= call[c].first + PatchAttempts
  PROVE  IInv'
<1> DEFINE k == Answering(call[c], a)
<1>1. Sound(c) /\ call[c] \in Call /\ call[c].at # "idle" /\ call[c].req \in Request
  BY CallFacts
<1>2. call' = [call EXCEPT ![c] = k] /\ call'[c] = k
  BY StepOfOne DEF Become
<1>3. k \in Call
  BY <1>1 DEF Call, Answering
<1>4. /\ k.at = "done" /\ k.answer = a /\ k.req = call[c].req /\ k.did = call[c].did
      /\ k.saw = call[c].saw /\ k.read = call[c].read /\ k.stored = call[c].stored
      /\ k.first = call[c].first /\ k.attempt = call[c].attempt /\ k.todo = call[c].todo
  BY <1>1 DEF Call, Answering
<1>5. Sound(c)'
  <2>1. Shaped(c)'
    BY <1>1, <1>2, <1>4 DEF Sound, Shaped
  <2>2. AboutOne(c)' /\ AboutMany(c)' /\ Kept(c)'
    BY <1>1, <1>2, <1>4 DEF Sound, AboutOne, AboutMany, Kept
  <2>3. Earned(c)'
    BY <1>1, <1>2, <1>4 DEF Sound, Earned
  <2>4. QED
    BY <2>1, <2>2, <2>3 DEF Sound
<1>6. QED
  <2> HIDE DEF k
  <2>1. /\ k.req.id \in Ids /\ k.at # "idle" =>
              /\ k.read \in Seen(k.req.id) \cup {NoRow, rows[k.req.id]}
              /\ k.stored \in Seen(k.req.id) \cup {NoRow, rows[k.req.id]}
        /\ \A i \in k.saw \cup k.did : i \notin fresh
    BY <1>1, <1>4, Holding
  <2>2. QED
    BY <1>2, <1>3, <1>5, <2>1, QuietStep

\* Begin: a new call has seen and done nothing.
LEMMA BeginKeepsIInv ==
  ASSUME IInv, NEW c \in Calls, NEW req \in Request, Begin(c, req)
  PROVE  IInv'
<1> PICK at \in {"read", "write"} :
            /\ call' = [call EXCEPT ![c] = [NewCall EXCEPT !.at = at, !.req = req]]
            /\ at = "read" => req.op \in {"patch", "delete", "restore"} \cup Bulk
            /\ at = "write" => req.op \notin {"patch", "delete", "restore"}
  BY DEF Begin, Become
<1> DEFINE k == [NewCall EXCEPT !.at = at, !.req = req]
<1>1. call'[c] = k
  BY StepOfOne
<1>2. k \in Call
  <2>1. 1 \in 1..PatchAttempts /\ 0 \in Nat
    BY DocumentsAssumption
  <2>2. {} \in SUBSET Ids /\ NoRow \in Row \cup {NoRow} /\ "none" \in Answers
    BY DEF Answers
  <2>3. at \in {"idle", "read", "write", "walk", "done"} /\ req \in Request \cup {None}
    OBVIOUS
  <2> QED
    BY <2>1, <2>2, <2>3 DEF NewCall, Call
<1>3. /\ k.at = at /\ k.req = req /\ k.attempt = 1 /\ k.read = NoRow /\ k.todo = {}
      /\ k.stored = NoRow /\ k.answer = "none" /\ k.first = 0 /\ k.saw = {} /\ k.did = {}
  BY DEF NewCall
<1>4. req # None
  BY RequestFacts
<1>5. Shaped(c)' /\ AboutMany(c)'
  BY <1>1, <1>3, <1>4 DEF Shaped, AboutMany
<1>6. AboutOne(c)' /\ Kept(c)' /\ Earned(c)'
  BY <1>1, <1>3 DEF AboutOne, Kept, Earned
<1>7. QED
  BY <1>1, <1>2, <1>3, <1>5, <1>6, QuietStep DEF Begin, Sound

\* The steps that only answer.
LEMMA AnswersKeepIInv ==
  ASSUME IInv, NEW c \in Calls,
         \/ Fails(c) \/ NotFound(c) \/ NotDeleted(c) \/ Conflict(c) \/ Gone(c) \/ WalkEnds(c)
  PROVE  IInv'
<1>1. CASE Fails(c)
  BY <1>1, AnswerStep DEF Fails, Answers
<1>2. CASE NotFound(c)
  BY <1>2, AnswerStep DEF NotFound, Answers
<1>3. CASE NotDeleted(c)
  BY <1>3, AnswerStep DEF NotDeleted, Answers
<1>4. CASE Gone(c)
  BY <1>4, AnswerStep DEF Gone, Answers
<1>5. CASE WalkEnds(c)
  BY <1>5, AnswerStep DEF WalkEnds, Answers
<1>6. CASE Conflict(c)
  <2> DEFINE i == call[c].req.id
  <2>1. Sound(c) /\ call[c] \in Call /\ call[c].at = "write" /\ call[c].req.op = "patch"
        /\ call[c].req \in Request
    BY <1>6, CallFacts DEF Conflict
  <2>2. i \in Ids
    BY <2>1, RequestFacts DEF Bulk
  <2>3. /\ call[c].first # 0 /\ call[c].read # NoRow
        /\ call[c].read.version >= call[c].first + PatchAttempts - 1
    BY <1>6, <2>1 DEF Conflict, Sound, Earned
  <2>4. CASE rows[i] # NoRow
    <3>1. rows[i].version # call[c].read.version
      BY <1>6, <2>1, <2>4 DEF Conflict, Updates
    <3>2. call[c].read \in Seen(i) /\ call[c].read \in Row /\ rows[i] \in Row
      BY <2>1, <2>2, <2>3, <2>4, HeldIsSeen, CallFacts DEF IInv, TypeOK
    <3>3. call[c].read.version <= rows[i].version
      BY <2>2, <2>4, <3>2 DEF IInv, RowsAreLatest
    <3>4. /\ call[c].read.version \in Nat /\ rows[i].version \in Nat /\ call[c].first \in Nat
          /\ PatchAttempts \in Nat
      BY <2>1, <3>2, DocumentsAssumption DEF Row, Call
    <3>5. rows[i].version >= call[c].first + PatchAttempts
      BY <2>3, <3>1, <3>3, <3>4
    <3>6. QED
      BY <1>6, <2>1, <2>3, <3>5, AnswerStep DEF Conflict, Answers
  <2>5. CASE rows[i] = NoRow
    BY <1>6, <2>1, <2>3, <2>5, AnswerStep DEF Conflict, Answers
  <2>6. QED
    BY <2>4, <2>5
<1>7. QED
  BY <1>1, <1>2, <1>3, <1>4, <1>5, <1>6

\* FindOne: the call holds the row, which no later one precedes.
LEMMA ReadOneKeepsIInv ==
  ASSUME IInv, NEW c \in Calls, ReadOne(c)
  PROVE  IInv'
<1> DEFINE i == call[c].req.id
           first == IF call[c].first = 0 THEN rows[i].version ELSE call[c].first
           k == [call[c] EXCEPT !.at = "write", !.read = rows[i], !.saw = {i}, !.first = first]
<1>1. /\ Sound(c) /\ call[c] \in Call /\ call[c].req \in Request
      /\ call[c].at = "read" /\ call[c].req.op \notin Bulk
      /\ rows[i] # NoRow /\ UNCHANGED <<bulkWriter, rows, fresh>>
  BY CallFacts DEF ReadOne, Matches
<1>2. call[c].req.op \in {"patch", "delete", "restore"} /\ i \in Ids
  BY <1>1, RequestFacts DEF Sound, Shaped, Bulk
<1>3. rows[i] \in Row /\ rows[i].version \in Nat \ {0} /\ i \notin fresh
  BY <1>1, <1>2 DEF IInv, TypeOK, Row
<1>4. call' = [call EXCEPT ![c] = k] /\ call'[c] = k
  BY StepOfOne DEF ReadOne, Become
<1>5. first \in Nat /\ first # 0
  BY <1>1, <1>3 DEF Call
<1>6. k \in Call
  BY <1>1, <1>2, <1>3, <1>5 DEF Call
<1>7. /\ k.at = "write" /\ k.answer = call[c].answer /\ k.req = call[c].req
      /\ k.did = call[c].did /\ k.saw = {i} /\ k.read = rows[i] /\ k.stored = call[c].stored
      /\ k.first = first /\ k.attempt = call[c].attempt
  BY <1>1 DEF Call
<1>8. Shaped(c)'
  BY <1>1, <1>2, <1>4, <1>7 DEF Sound, Shaped
<1>9. AboutOne(c)' /\ AboutMany(c)' /\ Kept(c)'
  BY <1>1, <1>2, <1>4, <1>7 DEF Sound, Shaped, AboutOne, AboutMany, Kept
<1>10. Earned(c)'
  <2>1. call[c].answer = "none"
    BY <1>1 DEF Sound, Shaped
  <2>2. call[c].req.op = "patch" => rows[i].version >= first + call[c].attempt - 1
    <3>1. CASE call[c].first = 0
      BY <1>1, <1>3, <3>1 DEF Sound, Earned
    <3>2. CASE call[c].first # 0
      BY <1>1, <3>2 DEF Sound, Earned
    <3> QED
      BY <3>1, <3>2
  <2> HIDE DEF first, k
  <2> QED
    BY <1>1, <1>2, <1>4, <1>5, <1>7, <2>1, <2>2 DEF Earned
<1>11. QED
  <2> HIDE DEF k
  <2>1. /\ k.read \in Seen(k.req.id) \cup {NoRow, rows[k.req.id]}
        /\ k.stored \in Seen(k.req.id) \cup {NoRow, rows[k.req.id]}
        /\ \A j \in k.saw \cup k.did : j \notin fresh
    BY <1>1, <1>2, <1>3, <1>7, Holding
  <2> QED
    BY <1>1, <1>4, <1>6, <1>8, <1>9, <1>10, <2>1, QuietStep DEF Sound

\* A patch goes around again: the row is not the one it read, so it is later.
LEMMA RetryKeepsIInv ==
  ASSUME IInv, NEW c \in Calls, Retry(c)
  PROVE  IInv'
<1> DEFINE i == call[c].req.id
           k == [call[c] EXCEPT !.at = "read", !.attempt = call[c].attempt + 1]
<1>1. /\ Sound(c) /\ call[c] \in Call /\ call[c].req \in Request
      /\ call[c].at = "write" /\ call[c].req.op = "patch" /\ ~ Updates(c)
      /\ call[c].attempt < PatchAttempts /\ UNCHANGED <<bulkWriter, rows, fresh>>
  BY CallFacts DEF Retry
<1>2. i \in Ids
  BY <1>1, RequestFacts DEF Bulk
<1>3. call' = [call EXCEPT ![c] = k] /\ call'[c] = k
  BY StepOfOne DEF Retry, Become
<1>4. call[c].attempt + 1 \in 1..PatchAttempts
  BY <1>1, DocumentsAssumption DEF Call
<1>5. k \in Call
  BY <1>1, <1>4 DEF Call
<1>6. /\ k.at = "read" /\ k.answer = call[c].answer /\ k.req = call[c].req
      /\ k.did = call[c].did /\ k.saw = call[c].saw /\ k.read = call[c].read
      /\ k.stored = call[c].stored /\ k.first = call[c].first
      /\ k.attempt = call[c].attempt + 1
  BY <1>1 DEF Call
<1>7. Shaped(c)' /\ AboutOne(c)' /\ AboutMany(c)' /\ Kept(c)'
  BY <1>1, <1>3, <1>6 DEF Sound, Shaped, AboutOne, AboutMany, Kept, Bulk
<1>8. Earned(c)'
  <2>1. /\ call[c].first # 0 /\ call[c].read # NoRow /\ call[c].answer = "none"
        /\ call[c].read.version >= call[c].first + call[c].attempt - 1
    BY <1>1 DEF Sound, Earned, Shaped
  <2>2. ASSUME rows[i] # NoRow
        PROVE  rows[i].version >= call[c].first + (call[c].attempt + 1) - 1
    <3>1. rows[i].version # call[c].read.version
      BY <1>1, <2>2 DEF Updates
    <3>2. call[c].read \in Seen(i) /\ call[c].read \in Row /\ rows[i] \in Row
      BY <1>1, <1>2, <2>1, <2>2, HeldIsSeen, CallFacts DEF IInv, TypeOK
    <3>3. call[c].read.version <= rows[i].version
      BY <1>2, <2>2, <3>2 DEF IInv, RowsAreLatest
    <3>4. /\ call[c].read.version \in Nat /\ rows[i].version \in Nat /\ call[c].first \in Nat
          /\ call[c].attempt \in Nat
      BY <1>1, <3>2 DEF Row, Call
    <3> QED
      BY <2>1, <3>1, <3>3, <3>4
  <2> HIDE DEF k
  <2> QED
    BY <1>1, <1>3, <1>6, <2>1, <2>2 DEF Earned
<1>9. QED
  <2> HIDE DEF k
  <2>1. /\ k.read \in Seen(k.req.id) \cup {NoRow, rows[k.req.id]}
        /\ k.stored \in Seen(k.req.id) \cup {NoRow, rows[k.req.id]}
        /\ \A j \in k.saw \cup k.did : j \notin fresh
    BY <1>1, <1>2, <1>6, Holding
  <2> QED
    BY <1>1, <1>3, <1>5, <1>7, <1>8, <2>1, QuietStep DEF Sound

\* FindMany: the walk has every row it saw to write.
LEMMA FindManyKeepsIInv ==
  ASSUME IInv, NEW c \in Calls, FindMany(c)
  PROVE  IInv'
<1> DEFINE m == Matching(c)
           k == [call[c] EXCEPT !.at = "walk", !.todo = m, !.saw = m]
<1>1. /\ Sound(c) /\ call[c] \in Call /\ call[c].req \in Request
      /\ call[c].at = "read" /\ call[c].req.op \in Bulk /\ UNCHANGED <<bulkWriter, rows, fresh>>
  BY CallFacts DEF FindMany
<1>2. m \subseteq Ids /\ \A i \in m : rows[i] # NoRow /\ i \notin fresh
  BY DEF Matching, Matches, IInv, TypeOK
<1>3. call' = [call EXCEPT ![c] = k] /\ call'[c] = k
  BY StepOfOne DEF FindMany, Become
<1>4. k \in Call
  BY <1>1, <1>2 DEF Call
<1>5. /\ k.at = "walk" /\ k.answer = call[c].answer /\ k.req = call[c].req
      /\ k.did = call[c].did /\ k.saw = m /\ k.todo = m /\ k.read = call[c].read
      /\ k.stored = call[c].stored /\ k.first = call[c].first
  BY <1>1 DEF Call
<1> HIDE DEF k, m
<1>6. call[c].req.op # "patch" /\ call[c].did = {} /\ call[c].answer = "none"
  BY <1>1 DEF Sound, Shaped, Bulk
<1>7. Sound(c)'
  BY <1>1, <1>3, <1>5, <1>6 DEF Sound, Shaped, AboutOne, AboutMany, Kept, Earned
<1>8. /\ k.req.id \in Ids => /\ k.read \in Seen(k.req.id) \cup {NoRow}
                             /\ k.stored \in Seen(k.req.id) \cup {NoRow}
      /\ \A j \in k.saw \cup k.did : j \notin fresh
  BY <1>1, <1>2, <1>5, Holding
<1>9. QED
  BY <1>1, <1>3, <1>4, <1>7, <1>8, QuietStep

\* A walk passes over a row that is gone.
LEMMA WalkOverKeepsIInv ==
  ASSUME IInv, NEW c \in Calls, NEW i \in Ids, WalkOver(c, i)
  PROVE  IInv'
<1> DEFINE k == [call[c] EXCEPT !.todo = call[c].todo \ {i}]
<1>1. /\ Sound(c) /\ call[c] \in Call /\ call[c].req \in Request
      /\ call[c].at = "walk" /\ i \in call[c].todo /\ rows[i] = NoRow
      /\ UNCHANGED <<bulkWriter, rows, fresh>>
  BY CallFacts DEF WalkOver
<1>2. call' = [call EXCEPT ![c] = k] /\ call'[c] = k
  BY StepOfOne DEF WalkOver, Become
<1>3. k \in Call
  BY <1>1 DEF Call
<1>4. /\ k.at = "walk" /\ k.answer = call[c].answer /\ k.req = call[c].req
      /\ k.did = call[c].did /\ k.saw = call[c].saw /\ k.todo = call[c].todo \ {i}
      /\ k.read = call[c].read /\ k.stored = call[c].stored /\ k.first = call[c].first
  BY <1>1 DEF Call
<1> HIDE DEF k
<1>5. call[c].req.op # "patch" /\ call[c].req.op \in Bulk /\ call[c].answer = "none"
  BY <1>1 DEF Sound, Shaped, Bulk
<1>6. Sound(c)'
  BY <1>1, <1>2, <1>4, <1>5 DEF Sound, Shaped, AboutOne, AboutMany, Kept, Earned
<1>7. /\ k.req.id \in Ids => /\ k.read \in Seen(k.req.id) \cup {NoRow}
                             /\ k.stored \in Seen(k.req.id) \cup {NoRow}
      /\ \A j \in k.saw \cup k.did : j \notin fresh
  BY <1>1, <1>4, Holding
<1>8. QED
  BY <1>1, <1>2, <1>3, <1>6, <1>7, QuietStep

\* Insert: a fresh id is used up.
LEMMA InsertKeepsIInv ==
  ASSUME IInv, NEW c \in Calls, NEW i \in Ids, Insert(c, i)
  PROVE  IInv'
<1> DEFINE new == NewRow(FALSE)
<1>1. /\ Sound(c) /\ call[c] \in Call /\ call[c].req \in Request
      /\ call[c].at = "write" /\ call[c].req.op = "create" /\ i \in fresh
      /\ fresh' = fresh \ {i} /\ rows' = [rows EXCEPT ![i] = new] /\ bulkWriter' = bulkWriter
  BY CallFacts DEF Insert
<1> PICK a \in {"ok", "error"} :
        Become(c, Answering([call[c] EXCEPT !.stored = new, !.did = {i}], a))
  BY DEF Insert, Committed
<1> DEFINE k == Answering([call[c] EXCEPT !.stored = new, !.did = {i}], a)
<1>2. call' = [call EXCEPT ![c] = k] /\ call'[c] = k
  BY StepOfOne DEF Become
<1>3. new \in Row /\ new # NoRow
  <2>1. {} \in SUBSET Calls /\ FALSE \in BOOLEAN /\ 1 \in Nat \ {0} /\ None \in Calls \cup {None}
    OBVIOUS
  <2>2. new \in Row
    BY <2>1 DEF NewRow, Row
  <2>3. QED
    BY <2>2, RowsAssumption
<1>4. k \in Call
  BY <1>1, <1>3 DEF Call, Answering, Answers
<1>5. /\ k.at = "done" /\ k.answer = a /\ k.req = call[c].req /\ k.did = {i}
      /\ k.saw = call[c].saw
  BY <1>1 DEF Call, Answering
<1> HIDE DEF k, new
<1>6. call[c].req.id = None /\ None \notin Ids
  BY <1>1, RequestFacts, RowsAssumption
<1>7. Sound(c)'
  BY <1>1, <1>2, <1>5, <1>6 DEF Sound, Shaped, AboutOne, AboutMany, Kept, Earned, Bulk
<1>8. /\ rows' \in [Ids -> Row \cup {NoRow}] /\ fresh' \subseteq {j \in Ids : rows'[j] = NoRow}
      /\ Evolves
  <2>1. rows \in [Ids -> Row \cup {NoRow}] /\ fresh \subseteq {j \in Ids : rows[j] = NoRow}
    BY DEF IInv, TypeOK
  <2>2. \A j \in Ids : rows[j] # NoRow => Follows(rows[j], rows[j])
    BY <2>1 DEF Follows, Precedes, Row
  <2>3. QED
    BY <1>1, <1>3, <2>1, <2>2 DEF Evolves
<1>9. \A j \in k.saw \cup k.did : j \notin fresh'
  BY <1>1, <1>5, Holding
<1>10. QED
  BY <1>2, <1>4, <1>5, <1>6, <1>7, <1>8, <1>9, <1>1, CallStep

\* UpdatePaths: the row's next document.  A patch finds the body it read.
LEMMA UpdateKeepsIInv ==
  ASSUME IInv, NEW c \in Calls, Update(c)
  PROVE  IInv'
<1> DEFINE i == call[c].req.id
           row == Written(c, rows[i])
<1>1. /\ Sound(c) /\ call[c] \in Call /\ call[c].req \in Request
      /\ call[c].at = "write" /\ call[c].req.op \in {"patch", "delete", "restore"}
      /\ Updates(c) /\ rows' = [rows EXCEPT ![i] = row] /\ UNCHANGED <<bulkWriter, fresh>>
  BY CallFacts DEF Update
<1> PICK a \in {"ok", "error"} :
        Become(c, Answering([call[c] EXCEPT !.stored = row, !.did = {i}], a))
  BY DEF Update, Committed
<1> DEFINE k == Answering([call[c] EXCEPT !.stored = row, !.did = {i}], a)
<1>2. call' = [call EXCEPT ![c] = k] /\ call'[c] = k
  BY StepOfOne DEF Become
<1>3. i \in Ids /\ rows[i] # NoRow /\ call[c].req.op \notin Bulk
  BY <1>1, RequestFacts DEF Updates, Bulk
<1>4. call[c].read # NoRow
  BY <1>1, <1>3 DEF Sound, AboutOne
<1>5. /\ row \in Row /\ Follows(rows[i], row)
      /\ call[c].req.op = "patch" =>
            rows[i].tally = call[c].read.tally /\ rows[i].flag = call[c].read.flag
  BY <1>1, <1>3, <1>4, WrittenFollows DEF Updates
<1>6. k \in Call
  BY <1>1, <1>3, <1>5 DEF Call, Answering, Answers
<1>7. /\ k.at = "done" /\ k.answer = a /\ k.req = call[c].req /\ k.did = {i}
      /\ k.saw = call[c].saw /\ k.read = call[c].read /\ k.stored = row
      /\ k.first = call[c].first
  BY <1>1 DEF Call, Answering
<1>8. call[c].req.op = "patch" =>
         /\ row.tally = call[c].read.tally \cup {c}
         /\ row.flag = call[c].read.flag
         /\ row.version = call[c].read.version + 1
  <2> SUFFICES ASSUME call[c].req.op = "patch"
               PROVE  /\ row.tally = call[c].read.tally \cup {c}
                      /\ row.flag = call[c].read.flag
                      /\ row.version = call[c].read.version + 1
    OBVIOUS
  <2>1. rows[i].version = call[c].read.version /\ rows[i] \in Row
    BY <1>1, <1>3 DEF Updates, IInv, TypeOK
  <2>2. row = [rows[i] EXCEPT !.tally = call[c].read.tally \cup {c}, !.version = @ + 1]
    BY DEF Written
  <2> HIDE DEF row
  <2>3. QED
    BY <1>5, <2>1, <2>2 DEF Row
<1>9. Evolves /\ rows' \in [Ids -> Row \cup {NoRow}]
      /\ fresh' \subseteq {j \in Ids : rows'[j] = NoRow}
  <2> HIDE DEF row
  <2> QED
    BY <1>1, <1>3, <1>5, OneRowEvolves
<1>10. rows'[i] = row
  BY <1>1, <1>3 DEF IInv, TypeOK
<1> HIDE DEF k, row
<1>11. Shaped(c)' /\ AboutOne(c)' /\ AboutMany(c)'
  BY <1>1, <1>2, <1>3, <1>7 DEF Sound, Shaped, AboutOne, AboutMany
<1>12. Kept(c)'
  BY <1>2, <1>7, <1>8, <1>10 DEF Kept
<1>13. Earned(c)'
  BY <1>1, <1>2, <1>4, <1>7 DEF Sound, Earned
<1>14. /\ k.read \in Seen(i) \cup {NoRow, rows'[i]} /\ k.stored \in Seen(i) \cup {NoRow, rows'[i]}
       /\ \A j \in k.saw \cup k.did : j \notin fresh'
  BY <1>1, <1>3, <1>4, <1>7, <1>10, Holding, HeldIsSeen
<1>15. QED
  BY <1>1, <1>2, <1>6, <1>7, <1>9, <1>11, <1>12, <1>13, <1>14, CallStep DEF Sound

\* DeleteOne: the row goes, and its id is not handed out again.
LEMMA HardDeleteKeepsIInv ==
  ASSUME IInv, NEW c \in Calls, HardDelete(c)
  PROVE  IInv'
<1> DEFINE i == call[c].req.id
<1>1. /\ Sound(c) /\ call[c] \in Call /\ call[c].req \in Request
      /\ call[c].at = "write" /\ call[c].req.op = "hard_delete" /\ rows[i] # NoRow
      /\ rows' = [rows EXCEPT ![i] = NoRow] /\ UNCHANGED <<bulkWriter, fresh>>
  BY CallFacts DEF HardDelete
<1> PICK a \in {"ok", "error"} :
        Become(c, Answering([call[c] EXCEPT !.saw = {i}, !.did = {i}], a))
  BY DEF HardDelete, Committed
<1> DEFINE k == Answering([call[c] EXCEPT !.saw = {i}, !.did = {i}], a)
<1>2. call' = [call EXCEPT ![c] = k] /\ call'[c] = k
  BY StepOfOne DEF Become
<1>3. i \in Ids
  BY <1>1, RequestFacts DEF Bulk
<1>4. k \in Call
  BY <1>1, <1>3 DEF Call, Answering, Answers
<1>5. /\ k.at = "done" /\ k.answer = a /\ k.req = call[c].req /\ k.did = {i} /\ k.saw = {i}
      /\ k.read = call[c].read /\ k.stored = call[c].stored
  BY <1>1 DEF Call, Answering
<1> HIDE DEF k
<1>6. Sound(c)'
  BY <1>1, <1>2, <1>5 DEF Sound, Shaped, AboutOne, AboutMany, Kept, Earned, Bulk
<1>7. rows \in [Ids -> Row \cup {NoRow}] /\ fresh \subseteq {j \in Ids : rows[j] = NoRow}
  BY DEF IInv, TypeOK
<1>8. \A j \in Ids : rows[j] # NoRow => Follows(rows[j], rows[j])
  BY <1>7 DEF Follows, Precedes, Row
<1>9. Evolves /\ rows' \in [Ids -> Row \cup {NoRow}]
      /\ fresh' \subseteq {j \in Ids : rows'[j] = NoRow}
  BY <1>1, <1>7, <1>8 DEF Evolves
<1>10. /\ k.read \in Seen(i) \cup {NoRow} /\ k.stored \in Seen(i) \cup {NoRow}
       /\ \A j \in k.saw \cup k.did : j \notin fresh'
  BY <1>1, <1>3, <1>5, <1>7, Holding
<1>11. QED
  BY <1>1, <1>2, <1>4, <1>5, <1>6, <1>9, <1>10, CallStep

\* UpdatePathsWhere: every row that matches moves on at once.
LEMMA UpdateWhereKeepsIInv ==
  ASSUME IInv, NEW c \in Calls, UpdateWhere(c)
  PROVE  IInv'
<1> DEFINE m == Matching(c)
<1>1. /\ Sound(c) /\ call[c] \in Call /\ call[c].req \in Request
      /\ call[c].at = "write" /\ call[c].req.op \in Bulk
      /\ rows' = [i \in Ids |-> IF i \in m THEN Written(c, rows[i]) ELSE rows[i]]
      /\ UNCHANGED <<bulkWriter, fresh>>
  BY CallFacts DEF UpdateWhere
<1> PICK a \in {"ok", "error"} :
        Become(c, Answering([call[c] EXCEPT !.saw = m, !.did = m], a))
  BY DEF UpdateWhere, Committed
<1> DEFINE k == Answering([call[c] EXCEPT !.saw = m, !.did = m], a)
<1>2. call' = [call EXCEPT ![c] = k] /\ call'[c] = k
  BY StepOfOne DEF Become
<1>3. /\ rows \in [Ids -> Row \cup {NoRow}] /\ fresh \subseteq {j \in Ids : rows[j] = NoRow}
      /\ m \subseteq Ids /\ \A i \in m : rows[i] # NoRow
  BY DEF Matching, Matches, IInv, TypeOK
<1>4. k \in Call
  BY <1>1, <1>3 DEF Call, Answering, Answers
<1>5. /\ k.at = "done" /\ k.answer = a /\ k.req = call[c].req /\ k.did = m /\ k.saw = m
      /\ k.read = call[c].read /\ k.stored = call[c].stored
  BY <1>1 DEF Call, Answering
<1> HIDE DEF k, m
<1>6. call[c].req.op # "patch"
  BY <1>1 DEF Bulk
<1>7. Sound(c)'
  BY <1>1, <1>2, <1>5, <1>6 DEF Sound, Shaped, AboutOne, AboutMany, Kept, Earned
<1>8. \A i \in m : Written(c, rows[i]) \in Row /\ Follows(rows[i], Written(c, rows[i]))
  BY <1>1, <1>3, <1>6, WrittenFollows
<1>9. \A i \in Ids : rows[i] # NoRow => Follows(rows[i], rows[i])
  BY <1>3 DEF Follows, Precedes, Row
<1>10. \A i \in Ids : rows'[i] = IF i \in m THEN Written(c, rows[i]) ELSE rows[i]
  BY <1>1
<1>11. Evolves /\ rows' \in [Ids -> Row \cup {NoRow}]
       /\ fresh' \subseteq {j \in Ids : rows'[j] = NoRow}
  BY <1>1, <1>3, <1>8, <1>9, <1>10 DEF Evolves
<1>12. /\ k.req.id \in Ids => /\ k.read \in Seen(k.req.id) \cup {NoRow}
                              /\ k.stored \in Seen(k.req.id) \cup {NoRow}
       /\ \A j \in k.saw \cup k.did : j \notin fresh'
  BY <1>1, <1>3, <1>5, Holding
<1>13. QED
  BY <1>1, <1>2, <1>4, <1>7, <1>11, <1>12, CallStep

\* One row of a walk.
LEMMA WalkOnKeepsIInv ==
  ASSUME IInv, NEW c \in Calls, NEW i \in Ids, WalkOn(c, i)
  PROVE  IInv'
<1> DEFINE row == Written(c, rows[i])
           j == [call[c] EXCEPT !.todo = call[c].todo \ {i}, !.did = call[c].did \cup {i}]
<1>1. /\ Sound(c) /\ call[c] \in Call /\ call[c].req \in Request
      /\ call[c].at = "walk" /\ i \in call[c].todo /\ rows[i] # NoRow
      /\ rows' = [rows EXCEPT ![i] = row] /\ UNCHANGED <<bulkWriter, fresh>>
  BY CallFacts DEF WalkOn
<1> PICK k \in {j, Answering(j, "error")} : Become(c, k)
  BY DEF WalkOn
<1>2. call' = [call EXCEPT ![c] = k] /\ call'[c] = k
  BY StepOfOne DEF Become
<1>3. j \in Call
  BY <1>1 DEF Call
<1>4. k \in Call
  BY <1>3 DEF Call, Answering, Answers
<1>5. /\ \/ k.at = "walk" /\ k.answer = call[c].answer
         \/ k.at = "done" /\ k.answer = "error"
      /\ k.req = call[c].req
      /\ k.did = call[c].did \cup {i} /\ k.saw = call[c].saw /\ k.todo = call[c].todo \ {i}
      /\ k.read = call[c].read /\ k.stored = call[c].stored
  BY <1>1, <1>3 DEF Call, Answering
<1>6. call[c].req.op # "patch" /\ call[c].req.op \in Bulk /\ call[c].answer = "none"
  BY <1>1 DEF Sound, Shaped, Bulk
<1>7. row \in Row /\ Follows(rows[i], row)
  BY <1>1, <1>6, WrittenFollows
<1> HIDE DEF j, row
<1>8. Evolves /\ rows' \in [Ids -> Row \cup {NoRow}]
      /\ fresh' \subseteq {n \in Ids : rows'[n] = NoRow}
  BY <1>1, <1>7, OneRowEvolves
<1>9. Shaped(c)' /\ AboutOne(c)' /\ Kept(c)' /\ Earned(c)'
  BY <1>1, <1>2, <1>5, <1>6 DEF Sound, Shaped, AboutOne, Kept, Earned
<1>10. AboutMany(c)'
  <2>1. \A n \in Ids : rows[n] = NoRow => rows'[n] = NoRow
    BY <1>1
  <2>2. call[c].saw \subseteq Ids
    BY <1>1 DEF Call
  <2>3. QED
    BY <1>1, <1>2, <1>5, <1>6, <2>1, <2>2 DEF Sound, AboutMany
<1>11. /\ k.req.id \in Ids => /\ k.read \in Seen(k.req.id) \cup {NoRow}
                              /\ k.stored \in Seen(k.req.id) \cup {NoRow}
       /\ \A n \in k.saw \cup k.did : n \notin fresh'
  <2>1. i \in call[c].saw
    BY <1>1, <1>6 DEF Sound, AboutMany
  <2>2. QED
    BY <1>1, <1>5, <2>1, Holding
<1>12. QED
  BY <1>1, <1>2, <1>4, <1>8, <1>9, <1>10, <1>11, CallStep DEF Sound

-----------------------------------------------------------------------------
(* The invariant, and what it says of Documents.                            *)

\* A collection that no call was made on is sound.
LEMMA InitIsSound == Init => IInv
<1> SUFFICES ASSUME Init PROVE IInv
  OBVIOUS
<1>1. \A flag \in BOOLEAN : NewRow(flag) \in Row
  <2>1. {} \in SUBSET Calls /\ 1 \in Nat \ {0} /\ None \in Calls \cup {None}
    OBVIOUS
  <2>2. QED
    BY <2>1 DEF NewRow, Row
<1>2. NewCall \in Call
  BY DocumentsAssumption DEF NewCall, Call, Answers
<1>3. rows \in [Ids -> Row \cup {NoRow}]
  BY <1>1 DEF Init
<1>4. TypeOK
  BY <1>2, <1>3, DocumentsAssumption DEF Init, TypeOK
<1>5. \A c \in Calls : call[c] = NewCall
  BY DEF Init
<1>6. \A c \in Calls : Sound(c)
  BY <1>5 DEF NewCall, Sound, Shaped, AboutOne, AboutMany, Kept, Earned
<1>7. \A i \in Ids : Seen(i) = {rows[i]} \ {NoRow}
  BY <1>5 DEF Seen, NewCall
<1>8. VersionsNameBodies /\ FreshIsUnseen
  BY <1>5, <1>7 DEF VersionsNameBodies, FreshIsUnseen, Init, NewCall
<1>9. RowsAreLatest
  BY <1>3, <1>7 DEF RowsAreLatest, Row
<1>10. QED
  BY <1>4, <1>6, <1>8, <1>9 DEF IInv

\* Every step keeps the invariant.
LEMMA NextIsSound == IInv /\ [Next]_vars => IInv'
<1> SUFFICES ASSUME IInv, [Next]_vars PROVE IInv'
  OBVIOUS
<1>1. CASE Next
  <2> PICK c \in Calls : Step(c)
    BY <1>1 DEF Next
  <2>1. CASE \E req \in Request : Begin(c, req)
    BY <2>1, BeginKeepsIInv
  <2>2. CASE \/ Fails(c) \/ NotFound(c) \/ NotDeleted(c) \/ Conflict(c) \/ Gone(c) \/ WalkEnds(c)
    BY <2>2, AnswersKeepIInv
  <2>3. CASE \E i \in Ids : Insert(c, i)
    BY <2>3, InsertKeepsIInv
  <2>4. CASE ReadOne(c)
    BY <2>4, ReadOneKeepsIInv
  <2>5. CASE Update(c)
    BY <2>5, UpdateKeepsIInv
  <2>6. CASE Retry(c)
    BY <2>6, RetryKeepsIInv
  <2>7. CASE HardDelete(c)
    BY <2>7, HardDeleteKeepsIInv
  <2>8. CASE UpdateWhere(c)
    BY <2>8, UpdateWhereKeepsIInv
  <2>9. CASE FindMany(c)
    BY <2>9, FindManyKeepsIInv
  <2>10. CASE \E i \in Ids : WalkOn(c, i) \/ WalkOver(c, i)
    BY <2>10, WalkOnKeepsIInv, WalkOverKeepsIInv
  <2>11. \/ \E q \in Request : Begin(c, q)
         \/ Fails(c) \/ NotFound(c) \/ NotDeleted(c) \/ Conflict(c) \/ Gone(c) \/ WalkEnds(c)
         \/ \E i \in Ids : Insert(c, i)
         \/ ReadOne(c) \/ Update(c) \/ Retry(c) \/ HardDelete(c) \/ UpdateWhere(c) \/ FindMany(c)
         \/ \E i \in Ids : WalkOn(c, i) \/ WalkOver(c, i)
    BY DEF Step
  <2>12. QED
    BY <2>1, <2>2, <2>3, <2>4, <2>5, <2>6, <2>7, <2>8, <2>9, <2>10, <2>11
<1>2. CASE UNCHANGED vars
  <2>1. TypeOK'
    BY <1>2 DEF vars, IInv, TypeOK
  <2>2. ASSUME NEW c \in Calls PROVE Sound(c)'
    <3>1. Sound(c)
      BY DEF IInv
    <3>2. Shaped(c)' /\ AboutMany(c)'
      BY <1>2, <3>1 DEF vars, Sound, Shaped, AboutMany
    <3>3. AboutOne(c)' /\ Kept(c)'
      BY <1>2, <3>1 DEF vars, Sound, AboutOne, Kept
    <3>4. Earned(c)'
      BY <1>2, <3>1 DEF vars, Sound, Earned
    <3>5. QED
      BY <3>2, <3>3, <3>4 DEF Sound
  <2>3. \A i \in Ids : Seen(i)' = Seen(i)
    BY <1>2 DEF vars, Seen
  <2>4. fresh \subseteq Ids
    BY DEF IInv, TypeOK
  <2>5. RowsAreLatest'
    BY <1>2, <2>3 DEF vars, IInv, RowsAreLatest
  <2>6. VersionsNameBodies'
    BY <2>3 DEF IInv, VersionsNameBodies
  <2>7. FreshIsUnseen'
    BY <1>2, <2>3, <2>4 DEF vars, IInv, FreshIsUnseen
  <2>8. QED
    BY <2>1, <2>2, <2>5, <2>6, <2>7 DEF IInv
<1>3. QED
  BY <1>1, <1>2

\* IInv holds in every reachable state.
THEOREM Invariance == Spec => []IInv
  BY InitIsSound, NextIsSound, PTL DEF Spec

\* Every variable has its type, and an id not handed out has no row.
THEOREM TypeCorrect == Spec => []TypeOK
<1>1. IInv => TypeOK
  BY DEF IInv
<1>2. QED
  BY <1>1, Invariance, PTL

\* A patch that was written stays in its document, whatever is written around
\* it: Patch writes only over the version it read, and UpdatePaths only the
\* paths it is given.
THEOREM NoPatchIsLost == Spec => []PatchesAreKept
<1>1. IInv => PatchesAreKept
  <2> SUFFICES ASSUME IInv, NEW c \in Calls, Asks(c, "patch"), NEW i \in call[c].did
               PROVE  rows[i] = NoRow \/ c \in rows[i].tally
    BY DEF PatchesAreKept
  <2>1. call[c].at # "idle" /\ call[c].req.op = "patch" /\ Sound(c)
    BY CallFacts DEF Asks
  <2>2. i = call[c].req.id
    BY <2>1 DEF Sound, AboutOne, Bulk
  <2>3. QED
    BY <2>1, <2>2 DEF Sound, Kept
<1>2. QED
  BY <1>1, Invariance, PTL

\* What Patch validated is what it stored: the expected version stands for the
\* whole body.
THEOREM PatchesAreValidated == Spec => []PatchStoresWhatItValidated
<1>1. IInv => PatchStoresWhatItValidated
  <2> SUFFICES ASSUME IInv, NEW c \in Calls, Asks(c, "patch"), call[c].did # {}
               PROVE  /\ call[c].stored.tally = call[c].read.tally \cup {c}
                      /\ call[c].stored.flag = call[c].read.flag
                      /\ call[c].stored.version = call[c].read.version + 1
    BY DEF PatchStoresWhatItValidated
  <2>1. QED
    BY CallFacts DEF Asks, Sound, Kept
<1>2. QED
  BY <1>1, Invariance, PTL

\* Any two documents seen under one id and version have one body, although
\* deletions move no version.
THEOREM VersionsAreNames == Spec => []VersionsNameBodies
<1>1. IInv => VersionsNameBodies
  BY DEF IInv
<1>2. QED
  BY <1>1, Invariance, PTL

\* ErrConflict means that every attempt of Patch was overtaken.
THEOREM NoConflictIsSpurious == Spec => []ConflictsAreEarned
<1>1. IInv => ConflictsAreEarned
  <2> SUFFICES ASSUME IInv, NEW c \in Calls, call[c].answer = "conflict"
               PROVE  \/ rows[call[c].req.id] = NoRow
                      \/ rows[call[c].req.id].version >= call[c].first + PatchAttempts
    BY DEF ConflictsAreEarned
  <2>1. Sound(c) /\ call[c].at = "done"
    BY CallFacts DEF Sound, Shaped
  <2>2. QED
    BY <2>1 DEF Sound, Earned
<1>2. QED
  BY <1>1, Invariance, PTL

-----------------------------------------------------------------------------
(* Documents implements AtomicDocuments.                                    *)

\* What AtomicDocuments sees of the calls.
Asked  == [c \in Calls |-> call[c].req]
Saw    == [c \in Calls |-> call[c].saw]
Did    == [c \in Calls |-> call[c].did]
Answer == [c \in Calls |-> call[c].answer]

\* When a call left as k may answer as it does: MayAnswer, said of calls.
MayLeave(c, k) ==
    LET req == call[c].req IN
    \/ k.answer \in {"none", "error"}
    \/ k.answer = "conflict" /\ req.op = "patch" /\ k.did = {}
    \/ /\ k.answer = "not_found" /\ req.id # None /\ k.did = {}
       /\ ~ Matches(req, req.id, rows[req.id])
    \/ /\ k.answer = "ok"
       /\ req.op \in Bulk => \A i \in k.saw : i \in k.did \/ rows[i] = NoRow
       /\ req.op \notin Bulk => \/ k.did = {req.id}
                                \/ req.op = "restore" /\ Active(rows[req.id])

\* A step of one call is a step of one call to AtomicDocuments.
LEMMA StepMaps ==
  ASSUME IInv, NEW c \in Calls, NEW k, call' = [call EXCEPT ![c] = k]
  PROVE  /\ Asked' = [Asked EXCEPT ![c] = k.req]
         /\ Saw' = [Saw EXCEPT ![c] = k.saw]
         /\ Did' = [Did EXCEPT ![c] = k.did]
         /\ Answer' = [Answer EXCEPT ![c] = k.answer]
<1>1. call \in [Calls -> Call]
  BY DEF IInv, TypeOK
<1>2. call'[c] = k /\ \A d \in Calls : d # c => call'[d] = call[d]
  BY <1>1
<1>3. Asked' = [Asked EXCEPT ![c] = k.req]
  <2>1. Asked' = [d \in Calls |-> call'[d].req]
    BY DEF Asked
  <2>2. [Asked EXCEPT ![c] = k.req] =
           [d \in Calls |-> IF d = c THEN k.req ELSE call[d].req]
    BY DEF Asked
  <2>3. QED
    BY <1>2, <2>1, <2>2
<1>4. Saw' = [Saw EXCEPT ![c] = k.saw]
  <2>1. Saw' = [d \in Calls |-> call'[d].saw]
    BY DEF Saw
  <2>2. [Saw EXCEPT ![c] = k.saw] =
           [d \in Calls |-> IF d = c THEN k.saw ELSE call[d].saw]
    BY DEF Saw
  <2>3. QED
    BY <1>2, <2>1, <2>2
<1>5. Did' = [Did EXCEPT ![c] = k.did]
  <2>1. Did' = [d \in Calls |-> call'[d].did]
    BY DEF Did
  <2>2. [Did EXCEPT ![c] = k.did] =
           [d \in Calls |-> IF d = c THEN k.did ELSE call[d].did]
    BY DEF Did
  <2>3. QED
    BY <1>2, <2>1, <2>2
<1>6. Answer' = [Answer EXCEPT ![c] = k.answer]
  <2>1. Answer' = [d \in Calls |-> call'[d].answer]
    BY DEF Answer
  <2>2. [Answer EXCEPT ![c] = k.answer] =
           [d \in Calls |-> IF d = c THEN k.answer ELSE call[d].answer]
    BY DEF Answer
  <2>3. QED
    BY <1>2, <2>1, <2>2
<1>7. QED
  BY <1>3, <1>4, <1>5, <1>6

\* Nothing of it is seen if the record's visible fields stay.
LEMMA StutterMaps ==
  ASSUME IInv, NEW c \in Calls, NEW k, call' = [call EXCEPT ![c] = k],
         k.req = call[c].req, k.saw = call[c].saw, k.did = call[c].did,
         k.answer = call[c].answer, UNCHANGED <<rows, fresh>>
  PROVE  UNCHANGED Atomic!vars
<1>1. Asked' = Asked /\ Saw' = Saw /\ Did' = Did /\ Answer' = Answer
  BY StepMaps DEF Asked, Saw, Did, Answer
<1>2. QED
  BY <1>1 DEF Atomic!vars, Asked, Saw, Did, Answer

\* A statement is one Take: of the rows it writes, and of what is answered.
LEMMA TakeMaps ==
  ASSUME IInv, NEW c \in Calls, NEW k \in Call, call' = [call EXCEPT ![c] = k],
         call[c].req # None, call[c].answer = "none",
         NEW targets \in SUBSET Ids,
         k.req = call[c].req, k.did = call[c].did \cup targets,
         \/ k.saw = call[c].saw
         \/ k.saw = targets /\ \A i \in targets : Matches(call[c].req, i, rows[i]),
         \A i \in targets : i \in k.saw /\ i \notin call[c].did /\ rows[i] # NoRow,
         rows' = [i \in Ids |-> IF i \in targets THEN Atomic!Taken(c, rows[i]) ELSE rows[i]],
         fresh' = fresh,
         MayLeave(c, k)
  PROVE  Atomic!Next
<1>1. /\ Asked' = [Asked EXCEPT ![c] = k.req] /\ Saw' = [Saw EXCEPT ![c] = k.saw]
      /\ Did' = [Did EXCEPT ![c] = k.did] /\ Answer' = [Answer EXCEPT ![c] = k.answer]
  BY StepMaps
<1>2. /\ Asked[c] = call[c].req /\ Saw[c] = call[c].saw /\ Did[c] = call[c].did
      /\ Answer[c] = call[c].answer /\ Asked' = Asked /\ Saw'[c] = k.saw /\ Did'[c] = k.did
  BY <1>1 DEF Asked, Saw, Did, Answer
<1>3. Saw' \in {Saw, [Saw EXCEPT ![c] = targets]}
      /\ (Saw' # Saw => \A i \in targets : Matches(call[c].req, i, rows[i]))
  BY <1>1 DEF Saw
<1>4. Atomic!Running(c)
  BY DEF Atomic!Running
<1>5. Atomic!MayAnswer(c, Did'[c], k.answer)
  BY <1>2 DEF MayLeave, Atomic!MayAnswer, Asked, Saw, Matches, Atomic!Matches, Active,
              Atomic!Active, Bulk, Atomic!Bulk
<1>6. k.answer \in Atomic!Answers
  BY DEF Call, Answers, Atomic!Answers
<1>7. Atomic!Take(c, targets, k.answer)
  <2>1. Saw' # Saw => \A i \in targets : Atomic!Matches(Asked[c], i, rows[i])
    BY <1>2, <1>3 DEF Matches, Atomic!Matches, Active, Atomic!Active, Bulk, Atomic!Bulk
  <2>2. \A i \in targets : i \in Saw'[c] \ Did[c] /\ rows[i] # NoRow
    BY <1>2
  <2>3. Did' = [Did EXCEPT ![c] = Did[c] \cup targets]
    <3>1. Did[c] \cup targets = k.did
      BY <1>2
    <3> QED
      BY <1>1, <3>1
  <2>4. QED
    BY <1>1, <1>2, <1>3, <1>5, <2>1, <2>2, <2>3, Zenon
       DEF Atomic!Take, Asked, Saw, Did, Answer
<1>8. QED
  BY <1>4, <1>6, <1>7, Zenon DEF Atomic!Next

\* A read is one Look.
LEMMA LookMaps ==
  ASSUME IInv, NEW c \in Calls, NEW k, call' = [call EXCEPT ![c] = k],
         call[c].req # None, call[c].answer = "none",
         NEW seen \in SUBSET Ids, \A i \in seen : Matches(call[c].req, i, rows[i]),
         k.req = call[c].req, k.did = call[c].did, k.answer = call[c].answer,
         k.saw = call[c].saw \cup seen,
         UNCHANGED <<rows, fresh>>
  PROVE  Atomic!Next
<1>1. /\ Asked' = [Asked EXCEPT ![c] = k.req] /\ Saw' = [Saw EXCEPT ![c] = k.saw]
      /\ Did' = [Did EXCEPT ![c] = k.did] /\ Answer' = [Answer EXCEPT ![c] = k.answer]
  BY StepMaps
<1>2. /\ Asked[c] = call[c].req /\ Saw[c] = call[c].saw /\ Did[c] = call[c].did
      /\ Answer[c] = call[c].answer
  BY DEF Asked, Saw, Did, Answer
<1>3. Asked' = Asked /\ Did' = Did /\ Answer' = Answer
  BY <1>1, <1>2 DEF Asked, Did, Answer
<1>4. Saw' = [Saw EXCEPT ![c] = Saw[c] \cup seen]
  <2>1. Saw[c] \cup seen = k.saw
    BY <1>2
  <2>2. QED
    BY <1>1, <2>1
<1>5. \A i \in seen : Atomic!Matches(Asked[c], i, rows[i])
  BY <1>2 DEF Matches, Atomic!Matches, Active, Atomic!Active, Bulk, Atomic!Bulk
<1>6. Atomic!Running(c)
  BY DEF Atomic!Running
<1>7. Atomic!Look(c, seen)
  BY <1>3, <1>4, <1>5, Zenon DEF Atomic!Look, Asked, Saw, Did, Answer
<1>8. QED
  BY <1>6, <1>7, Zenon DEF Atomic!Next

\* What UpdatePaths makes of a row is the effect of the call on it.
LEMMA WrittenIsTaken ==
  ASSUME IInv, NEW c \in Calls, NEW i \in Ids, rows[i] # NoRow, call[c].at # "idle",
         call[c].req.op \in {"patch", "delete", "restore"} \cup Bulk,
         call[c].req.op = "patch" =>
            /\ call[c].req.id = i
            /\ call[c].read # NoRow
            /\ rows[i].version = call[c].read.version
  PROVE  Written(c, rows[i]) = Atomic!Taken(c, rows[i])
<1>1. call[c].req.op = "patch" => rows[i].tally = call[c].read.tally
  BY WrittenFollows
<1>2. Asked[c] = call[c].req
  BY DEF Asked
<1>3. CASE call[c].req.op = "patch"
  BY <1>1, <1>2, <1>3 DEF Written, Atomic!Taken, Asked
<1>4. CASE call[c].req.op \in {"delete", "delete_where"}
  BY <1>2, <1>4 DEF Written, Atomic!Taken, Asked
<1>5. CASE call[c].req.op = "restore"
  BY <1>2, <1>5 DEF Written, Atomic!Taken, Asked
<1>6. CASE call[c].req.op = "patch_where"
  BY <1>2, <1>6 DEF Written, Atomic!Taken, Asked
<1>7. QED
  BY <1>3, <1>4, <1>5, <1>6 DEF Bulk

\* A call that only answers takes no document, and may answer what it does.
LEMMA AnswersMap ==
  ASSUME IInv, NEW c \in Calls,
         \/ Fails(c) \/ NotFound(c) \/ NotDeleted(c) \/ Conflict(c) \/ Gone(c) \/ WalkEnds(c)
  PROVE  Atomic!Next
<1> PICK a \in Answers \ {"none"} :
        /\ Become(c, Answering(call[c], a))
        /\ \/ a = "error"
           \/ a = "not_found" /\ (NotFound(c) \/ Gone(c))
           \/ a = "ok" /\ (NotDeleted(c) \/ WalkEnds(c))
           \/ a = "conflict" /\ Conflict(c)
  BY DEF Fails, NotFound, NotDeleted, Conflict, Gone, WalkEnds, Answers
<1> DEFINE k == Answering(call[c], a)
<1>1. /\ Sound(c) /\ call[c] \in Call /\ call[c].req \in Request
      /\ call[c].at \in {"read", "write", "walk"} /\ UNCHANGED <<rows, fresh>>
  BY CallFacts DEF Fails, NotFound, NotDeleted, Conflict, Gone, WalkEnds
<1>2. k \in Call /\ k.req = call[c].req /\ k.did = call[c].did /\ k.saw = call[c].saw
      /\ k.answer = a
  BY <1>1 DEF Call, Answering
<1>3. call[c].req # None /\ call[c].answer = "none"
  BY <1>1 DEF Sound, Shaped
<1>4. call' = [call EXCEPT ![c] = k]
  BY DEF Become
<1> HIDE DEF k
<1>5. MayLeave(c, k)
  <2>1. CASE a = "error"
    BY <1>2, <2>1 DEF MayLeave
  <2>2. CASE a = "not_found" /\ NotFound(c)
    <3>1. call[c].req.id # None /\ call[c].did = {}
      BY <1>1, <2>2, RequestFacts, RowsAssumption DEF NotFound, Sound, Shaped
    <3>2. QED
      BY <1>2, <2>2, <3>1 DEF NotFound, MayLeave
  <2>3. CASE a = "not_found" /\ Gone(c)
    <3>1. call[c].req.id # None /\ call[c].did = {}
      BY <1>1, <2>3, RequestFacts, RowsAssumption DEF Gone, Sound, Shaped, Bulk
    <3>2. QED
      BY <1>2, <2>3, <3>1 DEF Gone, MayLeave, Matches
  <2>4. CASE a = "ok" /\ NotDeleted(c)
    BY <1>2, <2>4 DEF NotDeleted, MayLeave, Bulk
  <2>5. CASE a = "ok" /\ WalkEnds(c)
    <3>1. /\ call[c].req.op \in Bulk
          /\ \A i \in call[c].saw : i \in call[c].did \/ rows[i] = NoRow
      BY <1>1, <2>5 DEF WalkEnds, Sound, Shaped, AboutMany
    <3>2. QED
      BY <1>2, <2>5, <3>1 DEF MayLeave
  <2>6. CASE a = "conflict" /\ Conflict(c)
    BY <1>1, <1>2, <2>6 DEF Conflict, MayLeave, Sound, Shaped
  <2>7. QED
    BY <2>1, <2>2, <2>3, <2>4, <2>5, <2>6
<1>6. rows' = [i \in Ids |-> IF i \in {} THEN Atomic!Taken(c, rows[i]) ELSE rows[i]]
  BY <1>1 DEF IInv, TypeOK
<1>7. {} \in SUBSET Ids /\ k.did = call[c].did \cup {} /\ fresh' = fresh
  BY <1>1, <1>2
<1>8. QED
  BY <1>2, <1>3, <1>4, <1>5, <1>6, <1>7, TakeMaps

\* A call that begins asks.
LEMMA BeginMaps ==
  ASSUME IInv, NEW c \in Calls, NEW req \in Request, Begin(c, req)
  PROVE  Atomic!Next
<1> PICK at \in {"read", "write"} :
            call' = [call EXCEPT ![c] = [NewCall EXCEPT !.at = at, !.req = req]]
  BY DEF Begin, Become
<1> DEFINE k == [NewCall EXCEPT !.at = at, !.req = req]
<1>1. k.req = req /\ k.saw = {} /\ k.did = {} /\ k.answer = "none"
  BY DEF NewCall
<1>2. call[c] = NewCall /\ UNCHANGED <<rows, fresh>>
  BY CallFacts DEF Begin, Sound, Shaped
<1>3. /\ Asked[c] = None /\ Saw[c] = {} /\ Did[c] = {} /\ Answer[c] = "none"
  BY <1>2 DEF Asked, Saw, Did, Answer, NewCall
<1>4. /\ Asked' = [Asked EXCEPT ![c] = k.req] /\ Saw' = [Saw EXCEPT ![c] = k.saw]
      /\ Did' = [Did EXCEPT ![c] = k.did] /\ Answer' = [Answer EXCEPT ![c] = k.answer]
  BY StepMaps
<1> HIDE DEF k
<1>5. Asked' = [Asked EXCEPT ![c] = req]
  BY <1>1, <1>4
<1>6. Saw' = Saw /\ Did' = Did /\ Answer' = Answer
  <2>1. Saw' = [Saw EXCEPT ![c] = Saw[c]] /\ Did' = [Did EXCEPT ![c] = Did[c]]
        /\ Answer' = [Answer EXCEPT ![c] = Answer[c]]
    BY <1>1, <1>3, <1>4
  <2>2. QED
    BY <2>1 DEF Saw, Did, Answer
<1>7. Asked'[c] = req
  BY <1>5 DEF Asked
<1>8. Asked' = [Asked EXCEPT ![c] = Asked'[c]]
  BY <1>5, <1>7
<1>9. Atomic!Ask(c, Asked'[c])
  BY <1>2, <1>3, <1>6, <1>8, Zenon DEF Atomic!Ask, Asked, Saw, Did, Answer
<1>10. Asked'[c] \in Atomic!Request
  BY <1>7 DEF Request, Atomic!Request, Ops, Atomic!Ops, Bulk, Atomic!Bulk
<1>11. QED
  BY <1>9, <1>10, Zenon DEF Atomic!Next, Asked

\* An insert creates a document.
LEMMA InsertMaps ==
  ASSUME IInv, NEW c \in Calls, NEW i \in Ids, Insert(c, i)
  PROVE  Atomic!Next
<1> DEFINE new == NewRow(FALSE)
<1> PICK a \in {"ok", "error"} :
        Become(c, Answering([call[c] EXCEPT !.stored = new, !.did = {i}], a))
  BY DEF Insert, Committed
<1> DEFINE k == Answering([call[c] EXCEPT !.stored = new, !.did = {i}], a)
<1>1. /\ Sound(c) /\ call[c] \in Call /\ call[c].req \in Request
      /\ call[c].at = "write" /\ call[c].req.op = "create" /\ i \in fresh
      /\ fresh' = fresh \ {i} /\ rows' = [rows EXCEPT ![i] = new]
  BY CallFacts DEF Insert
<1>2. k.req = call[c].req /\ k.saw = call[c].saw /\ k.did = {i} /\ k.answer = a
  BY <1>1 DEF Call, Answering
<1>3. /\ Asked' = [Asked EXCEPT ![c] = k.req] /\ Saw' = [Saw EXCEPT ![c] = k.saw]
      /\ Did' = [Did EXCEPT ![c] = k.did] /\ Answer' = [Answer EXCEPT ![c] = k.answer]
  BY StepMaps DEF Become
<1> HIDE DEF k
<1>4. Asked[c] = call[c].req /\ Saw[c] = call[c].saw /\ Answer[c] = "none"
  BY <1>1 DEF Asked, Saw, Answer, Sound, Shaped
<1>5. Asked[c] # None /\ Asked[c].op = "create"
  BY <1>1, <1>4, RequestFacts
<1>6. Asked' = Asked /\ Saw' = Saw
  BY <1>2, <1>3, <1>4 DEF Asked, Saw
<1>7. Did' = [Did EXCEPT ![c] = {i}] /\ Answer' = [Answer EXCEPT ![c] = a]
  BY <1>2, <1>3
<1>8. new = [tally |-> {}, flag |-> FALSE, version |-> 1, deletedBy |-> None]
  BY DEF NewRow
<1>9. rows' = [rows EXCEPT ![i] = [tally |-> {}, flag |-> FALSE, version |-> 1,
                                   deletedBy |-> None]]
  BY <1>1, <1>8
<1>10. Atomic!Create(c, i, a)
  BY <1>1, <1>4, <1>5, <1>6, <1>7, <1>9, Zenon
     DEF Atomic!Create, Asked, Saw, Did, Answer
<1>11. a \in Atomic!Answers
  BY DEF Atomic!Answers
<1>12. Atomic!Running(c)
  BY <1>4, <1>5 DEF Atomic!Running, Asked, Answer
<1>13. QED
  BY <1>10, <1>11, <1>12, Zenon DEF Atomic!Next

\* The reads look, and see what they match.
LEMMA ReadsMap ==
  ASSUME IInv, NEW c \in Calls, ReadOne(c) \/ FindMany(c)
  PROVE  Atomic!Next
<1>1. /\ Sound(c) /\ call[c] \in Call /\ call[c].req \in Request /\ call[c].at = "read"
      /\ UNCHANGED <<rows, fresh>>
  BY CallFacts DEF ReadOne, FindMany
<1>2. call[c].req # None /\ call[c].answer = "none"
  BY <1>1 DEF Sound, Shaped
<1>3. CASE ReadOne(c)
  <2> DEFINE i == call[c].req.id
             first == IF call[c].first = 0 THEN rows[i].version ELSE call[c].first
             k == [call[c] EXCEPT !.at = "write", !.read = rows[i], !.saw = {i},
                                  !.first = first]
  <2>1. call' = [call EXCEPT ![c] = k]
    BY <1>3 DEF ReadOne, Become
  <2>2. /\ k.req = call[c].req /\ k.did = call[c].did /\ k.answer = call[c].answer
        /\ k.saw = {i}
    BY <1>1 DEF Call
  <2>3. i \in Ids /\ Matches(call[c].req, i, rows[i]) /\ call[c].saw \subseteq {i}
    BY <1>1, <1>3, RequestFacts DEF ReadOne, Sound, Shaped, AboutOne, Bulk
  <2> HIDE DEF k
  <2>4. k.saw = call[c].saw \cup {i}
    BY <2>2, <2>3
  <2>5. QED
    BY <1>1, <1>2, <2>1, <2>2, <2>3, <2>4, LookMaps
<1>4. CASE FindMany(c)
  <2> DEFINE m == Matching(c)
             k == [call[c] EXCEPT !.at = "walk", !.todo = m, !.saw = m]
  <2>1. call' = [call EXCEPT ![c] = k]
    BY <1>4 DEF FindMany, Become
  <2>2. /\ k.req = call[c].req /\ k.did = call[c].did /\ k.answer = call[c].answer
        /\ k.saw = m
    BY <1>1 DEF Call
  <2>3. m \in SUBSET Ids /\ \A i \in m : Matches(call[c].req, i, rows[i])
    BY DEF Matching
  <2>4. call[c].saw = {}
    BY <1>1, <1>4 DEF FindMany, Sound, Shaped, AboutMany
  <2> HIDE DEF k, m
  <2>5. k.saw = call[c].saw \cup m
    BY <2>2, <2>4
  <2>6. QED
    BY <1>1, <1>2, <2>1, <2>2, <2>3, <2>5, LookMaps
<1>5. QED
  BY <1>3, <1>4

\* A statement on one row takes that row.
LEMMA OneRowTaken ==
  ASSUME IInv, NEW c \in Calls, NEW i \in Ids,
         rows' = [rows EXCEPT ![i] = Atomic!Taken(c, rows[i])]
  PROVE  rows' = [j \in Ids |-> IF j \in {i} THEN Atomic!Taken(c, rows[j]) ELSE rows[j]]
  BY DEF IInv, TypeOK

\* An update takes its document, which the call has seen.
LEMMA UpdateMaps ==
  ASSUME IInv, NEW c \in Calls, Update(c)
  PROVE  Atomic!Next
<1> DEFINE i == call[c].req.id
           row == Written(c, rows[i])
<1>1. /\ Sound(c) /\ call[c] \in Call /\ call[c].req \in Request
      /\ call[c].at = "write" /\ call[c].req.op \in {"patch", "delete", "restore"}
      /\ Updates(c) /\ rows' = [rows EXCEPT ![i] = row] /\ fresh' = fresh
  BY CallFacts DEF Update
<1> PICK a \in {"ok", "error"} :
        Become(c, Answering([call[c] EXCEPT !.stored = row, !.did = {i}], a))
  BY DEF Update, Committed
<1> DEFINE k == Answering([call[c] EXCEPT !.stored = row, !.did = {i}], a)
<1>2. call' = [call EXCEPT ![c] = k]
  BY DEF Become
<1>3. i \in Ids /\ rows[i] # NoRow /\ call[c].req.op \notin Bulk
  BY <1>1, RequestFacts DEF Updates, Bulk
<1>4. call[c].read # NoRow /\ call[c].saw = {i}
  BY <1>1, <1>3 DEF Sound, AboutOne
<1>5. row \in Row /\ row = Atomic!Taken(c, rows[i])
  BY <1>1, <1>3, <1>4, WrittenFollows, WrittenIsTaken DEF Updates
<1>6. k \in Call
  BY <1>1, <1>3, <1>5 DEF Call, Answering, Answers
<1>7. k.req = call[c].req /\ k.did = {i} /\ k.saw = {i} /\ k.answer = a
  BY <1>1, <1>4 DEF Call, Answering
<1>8. call[c].req # None /\ call[c].answer = "none" /\ call[c].did = {}
  BY <1>1 DEF Sound, Shaped
<1> HIDE DEF k, row
<1>9. rows' = [j \in Ids |-> IF j \in {i} THEN Atomic!Taken(c, rows[j]) ELSE rows[j]]
  BY <1>1, <1>3, <1>5, OneRowTaken
<1>10. MayLeave(c, k)
  BY <1>3, <1>7 DEF MayLeave
<1>11. {i} \in SUBSET Ids /\ k.did = call[c].did \cup {i} /\ k.saw = call[c].saw
  BY <1>3, <1>4, <1>7, <1>8
<1>12. \A j \in {i} : j \in k.saw /\ j \notin call[c].did /\ rows[j] # NoRow
  BY <1>3, <1>7, <1>8
<1>13. QED
  BY <1>1, <1>2, <1>6, <1>7, <1>8, <1>9, <1>10, <1>11, <1>12, TakeMaps

\* A hard deletion sees and takes its document in one statement.
LEMMA HardDeleteMaps ==
  ASSUME IInv, NEW c \in Calls, HardDelete(c)
  PROVE  Atomic!Next
<1> DEFINE i == call[c].req.id
<1>1. /\ Sound(c) /\ call[c] \in Call /\ call[c].req \in Request
      /\ call[c].at = "write" /\ call[c].req.op = "hard_delete" /\ rows[i] # NoRow
      /\ rows' = [rows EXCEPT ![i] = NoRow] /\ fresh' = fresh
  BY CallFacts DEF HardDelete
<1> PICK a \in {"ok", "error"} :
        Become(c, Answering([call[c] EXCEPT !.saw = {i}, !.did = {i}], a))
  BY DEF HardDelete, Committed
<1> DEFINE k == Answering([call[c] EXCEPT !.saw = {i}, !.did = {i}], a)
<1>2. call' = [call EXCEPT ![c] = k]
  BY DEF Become
<1>3. i \in Ids /\ call[c].req.op \notin Bulk
  BY <1>1, RequestFacts DEF Bulk
<1>4. k \in Call
  BY <1>1, <1>3 DEF Call, Answering, Answers
<1>5. k.req = call[c].req /\ k.did = {i} /\ k.saw = {i} /\ k.answer = a
  BY <1>1 DEF Call, Answering
<1>6. call[c].req # None /\ call[c].answer = "none" /\ call[c].did = {}
  BY <1>1 DEF Sound, Shaped
<1> HIDE DEF k
<1>7. Atomic!Taken(c, rows[i]) = NoRow
  BY <1>1 DEF Atomic!Taken
<1>8. rows' = [j \in Ids |-> IF j \in {i} THEN Atomic!Taken(c, rows[j]) ELSE rows[j]]
  BY <1>1, <1>3, <1>7, OneRowTaken
<1>9. MayLeave(c, k)
  BY <1>3, <1>5 DEF MayLeave
<1>10. Matches(call[c].req, i, rows[i])
  BY <1>1, <1>3 DEF Matches
<1>11. {i} \in SUBSET Ids /\ k.did = call[c].did \cup {i}
       /\ \A j \in {i} : Matches(call[c].req, j, rows[j])
  BY <1>3, <1>5, <1>6, <1>10
<1>12. \A j \in {i} : j \in k.saw /\ j \notin call[c].did /\ rows[j] # NoRow
  BY <1>1, <1>5, <1>6
<1>13. QED
  BY <1>1, <1>2, <1>4, <1>5, <1>6, <1>8, <1>9, <1>11, <1>12, TakeMaps

\* A set-wide statement sees and takes all that match.
LEMMA UpdateWhereMaps ==
  ASSUME IInv, NEW c \in Calls, UpdateWhere(c)
  PROVE  Atomic!Next
<1> DEFINE m == Matching(c)
<1>1. /\ Sound(c) /\ call[c] \in Call /\ call[c].req \in Request
      /\ call[c].at = "write" /\ call[c].req.op \in Bulk
      /\ rows' = [i \in Ids |-> IF i \in m THEN Written(c, rows[i]) ELSE rows[i]]
      /\ fresh' = fresh
  BY CallFacts DEF UpdateWhere
<1> PICK a \in {"ok", "error"} :
        Become(c, Answering([call[c] EXCEPT !.saw = m, !.did = m], a))
  BY DEF UpdateWhere, Committed
<1> DEFINE k == Answering([call[c] EXCEPT !.saw = m, !.did = m], a)
<1>2. call' = [call EXCEPT ![c] = k]
  BY DEF Become
<1>3. m \in SUBSET Ids /\ \A i \in m : Matches(call[c].req, i, rows[i]) /\ rows[i] # NoRow
  BY DEF Matching, Matches
<1>4. k \in Call
  BY <1>1, <1>3 DEF Call, Answering, Answers
<1>5. k.req = call[c].req /\ k.did = m /\ k.saw = m /\ k.answer = a
  BY <1>1 DEF Call, Answering
<1>6. call[c].req # None /\ call[c].answer = "none" /\ call[c].did = {}
  BY <1>1 DEF Sound, Shaped
<1> HIDE DEF k, m
<1>7. \A i \in m : Written(c, rows[i]) = Atomic!Taken(c, rows[i])
  BY <1>1, <1>3, WrittenIsTaken DEF Bulk
<1>8. rows' = [i \in Ids |-> IF i \in m THEN Atomic!Taken(c, rows[i]) ELSE rows[i]]
  BY <1>1, <1>7
<1>9. MayLeave(c, k)
  BY <1>1, <1>5 DEF MayLeave
<1>10. k.did = call[c].did \cup m
  BY <1>5, <1>6
<1>11. \A i \in m : i \in k.saw /\ i \notin call[c].did /\ rows[i] # NoRow
  BY <1>3, <1>5, <1>6
<1>12. QED
  BY <1>1, <1>2, <1>3, <1>4, <1>5, <1>6, <1>8, <1>9, <1>10, <1>11, TakeMaps

\* A walk takes one document more of those it saw.
LEMMA WalkOnMaps ==
  ASSUME IInv, NEW c \in Calls, NEW i \in Ids, WalkOn(c, i)
  PROVE  Atomic!Next
<1> DEFINE j == [call[c] EXCEPT !.todo = call[c].todo \ {i}, !.did = call[c].did \cup {i}]
<1>1. /\ Sound(c) /\ call[c] \in Call /\ call[c].req \in Request
      /\ call[c].at = "walk" /\ i \in call[c].todo /\ rows[i] # NoRow
      /\ rows' = [rows EXCEPT ![i] = Written(c, rows[i])] /\ fresh' = fresh
  BY CallFacts DEF WalkOn
<1> PICK k \in {j, Answering(j, "error")} : Become(c, k)
  BY DEF WalkOn
<1>2. call' = [call EXCEPT ![c] = k]
  BY DEF Become
<1>3. j \in Call
  BY <1>1 DEF Call
<1>4. k \in Call
  BY <1>3 DEF Call, Answering, Answers
<1>5. /\ k.answer \in {call[c].answer, "error"} /\ k.req = call[c].req
      /\ k.did = call[c].did \cup {i} /\ k.saw = call[c].saw
  BY <1>1, <1>3 DEF Call, Answering
<1> HIDE DEF j
<1>6. /\ call[c].req # None /\ call[c].answer = "none"
      /\ call[c].req.op \in Bulk /\ call[c].req.op # "patch"
  BY <1>1 DEF Sound, Shaped, Bulk
<1>7. i \in call[c].saw /\ i \notin call[c].did
  BY <1>1, <1>6 DEF Sound, AboutMany
<1>8. Written(c, rows[i]) = Atomic!Taken(c, rows[i])
  BY <1>1, <1>6, WrittenIsTaken
<1>9. rows' = [n \in Ids |-> IF n \in {i} THEN Atomic!Taken(c, rows[n]) ELSE rows[n]]
  BY <1>1, <1>8, OneRowTaken
<1>10. MayLeave(c, k)
  BY <1>5, <1>6 DEF MayLeave
<1>11. {i} \in SUBSET Ids
       /\ \A n \in {i} : n \in k.saw /\ n \notin call[c].did /\ rows[n] # NoRow
  BY <1>1, <1>5, <1>7
<1>12. QED
  BY <1>1, <1>2, <1>4, <1>5, <1>6, <1>9, <1>10, <1>11, TakeMaps

\* A retry, and a row that a walk passes over, are nobody's business.
LEMMA StuttersMap ==
  ASSUME IInv, NEW c \in Calls, Retry(c) \/ \E i \in Ids : WalkOver(c, i)
  PROVE  UNCHANGED Atomic!vars
<1>1. call[c] \in Call
  BY CallFacts
<1>2. CASE Retry(c)
  <2> DEFINE k == [call[c] EXCEPT !.at = "read", !.attempt = call[c].attempt + 1]
  <2>1. call' = [call EXCEPT ![c] = k] /\ UNCHANGED <<rows, fresh>>
    BY <1>2 DEF Retry, Become
  <2>2. /\ k.req = call[c].req /\ k.saw = call[c].saw /\ k.did = call[c].did
        /\ k.answer = call[c].answer
    BY <1>1 DEF Call
  <2> HIDE DEF k
  <2>3. QED
    BY <2>1, <2>2, StutterMaps
<1>3. ASSUME NEW i \in Ids, WalkOver(c, i)
      PROVE  UNCHANGED Atomic!vars
  <2> DEFINE k == [call[c] EXCEPT !.todo = call[c].todo \ {i}]
  <2>1. call' = [call EXCEPT ![c] = k] /\ UNCHANGED <<rows, fresh>>
    BY <1>3 DEF WalkOver, Become
  <2>2. /\ k.req = call[c].req /\ k.saw = call[c].saw /\ k.did = call[c].did
        /\ k.answer = call[c].answer
    BY <1>1 DEF Call
  <2> HIDE DEF k
  <2>3. QED
    BY <2>1, <2>2, StutterMaps
<1>4. QED
  BY <1>2, <1>3

\* The first state is one of AtomicDocuments.
LEMMA InitMaps == Init => Atomic!Init
<1> SUFFICES ASSUME Init PROVE Atomic!Init
  OBVIOUS
<1>1. \A c \in Calls : /\ call[c].req = None /\ call[c].saw = {} /\ call[c].did = {}
                       /\ call[c].answer = "none"
  BY DEF Init, NewCall
<1>2. Asked = [c \in Calls |-> None] /\ Saw = [c \in Calls |-> {}]
      /\ Did = [c \in Calls |-> {}] /\ Answer = [c \in Calls |-> "none"]
  BY <1>1 DEF Asked, Saw, Did, Answer
<1>3. rows \in [Ids -> Atomic!Row \cup {NoRow}]
  <2>1. rows \in [Ids -> Row \cup {NoRow}]
    BY InitIsSound DEF IInv, TypeOK
  <2>2. QED
    BY <2>1 DEF Row, Atomic!Row
<1>4. fresh \in SUBSET {i \in Ids : rows[i] = NoRow}
  BY DEF Init
<1>5. QED
  BY <1>2, <1>3, <1>4, Zenon DEF Atomic!Init, Asked, Saw, Did, Answer

\* Every step is a step of AtomicDocuments, or none.
LEMMA NextMaps == IInv /\ [Next]_vars => [Atomic!Next]_(Atomic!vars)
<1> SUFFICES ASSUME IInv, [Next]_vars PROVE Atomic!Next \/ UNCHANGED Atomic!vars
  OBVIOUS
<1>1. CASE Next
  <2> PICK c \in Calls : Step(c)
    BY <1>1 DEF Next
  <2>1. CASE \E req \in Request : Begin(c, req)
    BY <2>1, BeginMaps
  <2>2. CASE \/ Fails(c) \/ NotFound(c) \/ NotDeleted(c) \/ Conflict(c) \/ Gone(c) \/ WalkEnds(c)
    BY <2>2, AnswersMap
  <2>3. CASE \E i \in Ids : Insert(c, i)
    BY <2>3, InsertMaps
  <2>4. CASE ReadOne(c) \/ FindMany(c)
    BY <2>4, ReadsMap
  <2>5. CASE Update(c) \/ HardDelete(c) \/ UpdateWhere(c)
    BY <2>5, UpdateMaps, HardDeleteMaps, UpdateWhereMaps
  <2>6. CASE \E i \in Ids : WalkOn(c, i)
    BY <2>6, WalkOnMaps
  <2>7. CASE Retry(c) \/ \E i \in Ids : WalkOver(c, i)
    BY <2>7, StuttersMap
  <2>8. QED
    BY <2>1, <2>2, <2>3, <2>4, <2>5, <2>6, <2>7 DEF Step
<1>2. CASE UNCHANGED vars
  <2>1. Asked' = Asked /\ Saw' = Saw /\ Did' = Did /\ Answer' = Answer
    BY <1>2 DEF vars, Asked, Saw, Did, Answer
  <2>2. QED
    BY <1>2, <2>1 DEF vars, Atomic!vars, Asked, Saw, Did, Answer
<1>3. QED
  BY <1>1, <1>2

\* Whatever a call reads before it writes and however often it retries, each
\* document takes its effect in one step, on the value it has at that step:
\* the service's reads, retries and walks implement AtomicDocuments.
THEOREM CallsAreAtomic == Spec => IsAtomic
  BY Invariance, InitMaps, NextMaps, PTL DEF Spec, IsAtomic, Atomic!Spec

-----------------------------------------------------------------------------
(* The table of documents through the deploys of its application.           *)

Doc == [body : Bodies, deleted : BOOLEAN]

AnyProc == [build : Builds \cup {NoBuild}, at : {"down", "starting", "up"}, found : SUBSET Fields,
            ensured : SUBSET Fields, path : Fields \cup {"none"}, skipped : SUBSET Fields]

\* A process that is not down is of a build, and ensures what that promotes.
ProcsAreOfBuilds ==
    /\ procs \in [Procs -> AnyProc]
    /\ \A p \in Procs : procs[p].at # "down" => procs[p].build \in Builds
    /\ \A p \in Procs : procs[p].at = "starting" =>
          /\ procs[p].found \subseteq DeclaredColumns(procs[p].build)
          /\ procs[p].ensured \subseteq Promoted(procs[p].build)
          /\ procs[p].path # "none" => procs[p].path \in Promoted(procs[p].build)

\* A column computes a path that a build promotes under its name.
ColumnsAreNamed ==
    /\ cols \in [Fields -> Fields \cup {"none"}]
    /\ \A n \in Fields : cols[n] # "none" =>
          \E b \in Builds : cols[n] \in Promoted(b) /\ b.column[cols[n]] = n

\* A column is there, or the process could not add it.
Stands(c, r, n) == c[n] # "none" \/ n \in r.skipped

\* The columns c are those that a process r found or ensured.
Equipped(c, r) ==
    /\ r.at = "starting" =>
          /\ \A n \in r.found : c[n] # "none"
          /\ \A f \in r.ensured : Stands(c, r, r.build.column[f])
          /\ r.path # "none" => Stands(c, r, r.build.column[r.path])
    /\ r.at = "up" => \A f \in Promoted(r.build) : Stands(c, r, r.build.column[f])

ColumnsAreThere == \A p \in Procs : Equipped(cols, procs[p])

DocsAreWhole == docs \in [DocIds -> Doc \cup {NoDoc}] /\ filled \subseteq Fields /\ dropped \subseteq Fields

FieldsAreKept == BackfilledStaysFilled /\ DroppedStaysDropped

AnyPatch == [by : Procs, id : DocIds, update : [Fields -> Cells \cup {Keep}], changes : SUBSET Fields]

\* A patch that is under way is of a document that is there, and writes nothing but what it changes.
PatchIsWhole ==
    \/ patch = NoPatch
    \/ /\ patch \in AnyPatch /\ patch.id \in Stored
       /\ \A f \in Fields \ patch.changes : patch.update[f] = Keep

AnyReport == [by : Builds \cup {NoBuild}, field : Fields \cup {"none"},
              at : {"none", "counted", "made", "acted"}, count : Nat, total : Nat, touched : Nat]

\* A report says what is there, until it is acted on.
ReportIsTrue ==
    /\ report \in AnyReport
    /\ report.at \in {"counted", "made"} =>
          report.count = Cardinality({i \in Live : Has(i, report.field)})
    /\ report.at = "made" => report.total = Cardinality(Live)
    /\ BackfillsDoAsReported

SchemaInv ==
    /\ backend \in Backends /\ faults \in Nat
    /\ ProcsAreOfBuilds /\ DocsAreWhole /\ ColumnsAreNamed /\ ReportIsTrue /\ FieldsAreKept
    /\ PatchIsWhole
    /\ backend # "memdb" => ColumnsAreThere

-----------------------------------------------------------------------------
\* A promoted path has a column, and no other path has it.
LEMMA PromotedHaveColumns ==
    ASSUME NEW b \in Builds, NEW f \in Fields
    PROVE  /\ f \in Promoted(b) <=> b.column[f] # "none"
           /\ f \in Promoted(b) => b.column[f] \in Fields /\ b.column[f] \in DeclaredColumns(b)
           /\ b.declared \subseteq Fields /\ b.defaults[f] \in Values \cup {Null}
BY BuildAssumption DEF Promoted, DeclaredColumns, BuildType

LEMMA DeclaredAreFields ==
    ASSUME NEW b \in Builds
    PROVE  Promoted(b) \subseteq Fields /\ DeclaredColumns(b) \subseteq Fields
BY BuildAssumption DEF Promoted, DeclaredColumns, BuildType

\* What is stored is a document, and the active are among the stored.
LEMMA StoredAreDocs ==
    ASSUME DocsAreWhole
    PROVE  /\ \A i \in Stored : docs[i] \in Doc /\ docs[i].body \in Bodies /\ docs[i].deleted \in BOOLEAN
           /\ Live \subseteq Stored /\ Stored \subseteq DocIds
           /\ Live = {i \in Stored : ~docs[i].deleted}
           /\ IsFiniteSet(Live) /\ IsFiniteSet(Stored)
<1>1. \A i \in Stored : docs[i] \in Doc
  BY DEF DocsAreWhole, Stored
<1>2. Live \subseteq Stored /\ Stored \subseteq DocIds /\ Live = {i \in Stored : ~docs[i].deleted}
  BY DEF Live, Stored
<1>3. IsFiniteSet(Live) /\ IsFiniteSet(Stored)
  BY <1>2, FS_Subset, DocAssumption
<1> QED
  BY <1>1, <1>2, <1>3 DEF Doc

LEMMA ActsAsReported ==
    ASSUME report.at # "acted"
    PROVE  BackfillsDoAsReported
BY DEF BackfillsDoAsReported

LEMMA NothingIsReported ==
    ASSUME report' = NoReport
    PROVE  ReportIsTrue'
BY DEF NoReport, AnyReport, ReportIsTrue, BackfillsDoAsReported

\* What a report is of stays, whoever starts or adds columns meanwhile.
LEMMA ReportStays ==
    ASSUME ReportIsTrue, UNCHANGED <<docs, report>>
    PROVE  ReportIsTrue'
BY DEF ReportIsTrue, BackfillsDoAsReported, Missing, Orphans, Live, Has

LEMMA FieldsStay ==
    ASSUME FieldsAreKept, UNCHANGED <<docs, filled, dropped>>
    PROVE  FieldsAreKept'
BY DEF FieldsAreKept, BackfilledStaysFilled, DroppedStaysDropped, Live, Stored, Has

\* A patch that is under way stays, or is beaten, where no document leaves the table.
LEMMA PatchStays ==
    ASSUME PatchIsWhole, patch' \in {patch, NoPatch}, \A i \in DocIds : docs[i] # NoDoc => docs'[i] # NoDoc
    PROVE  PatchIsWhole'
<1>1. CASE patch' = NoPatch
  BY <1>1 DEF PatchIsWhole, NoPatch
<1>2. CASE patch' = patch
  <2>1. Stored \subseteq Stored'
    BY DEF Stored
  <2> QED
    BY <1>2, <2>1 DEF PatchIsWhole, NoPatch, AnyPatch
<1> QED
  BY <1>1, <1>2

\* Columns that are added take none from a process.
LEMMA EquippedStays ==
    ASSUME ProcsAreOfBuilds, NEW p \in Procs, Equipped(cols, procs[p]),
           \A n \in Fields : cols[n] # "none" => cols'[n] # "none"
    PROVE  Equipped(cols', procs[p])
<1>1. CASE procs[p].at = "starting"
  <2>1. /\ procs[p].build \in Builds /\ procs[p].found \subseteq DeclaredColumns(procs[p].build)
        /\ procs[p].ensured \subseteq Promoted(procs[p].build)
        /\ procs[p].path # "none" => procs[p].path \in Promoted(procs[p].build)
    BY <1>1 DEF ProcsAreOfBuilds
  <2>2. /\ Promoted(procs[p].build) \subseteq Fields /\ DeclaredColumns(procs[p].build) \subseteq Fields
        /\ \A f \in Promoted(procs[p].build) : procs[p].build.column[f] \in Fields
    BY <2>1, DeclaredAreFields, PromotedHaveColumns
  <2> QED
    BY <1>1, <2>1, <2>2 DEF Equipped, Stands
<1>2. CASE procs[p].at = "up"
  <2>1. procs[p].build \in Builds
    BY <1>2 DEF ProcsAreOfBuilds
  <2>2. \A f \in Promoted(procs[p].build) : procs[p].build.column[f] \in Fields
    BY <2>1, DeclaredAreFields, PromotedHaveColumns
  <2> QED
    BY <1>2, <2>2 DEF Equipped, Stands
<1> QED
  BY <1>1, <1>2 DEF Equipped

LEMMA ColumnsStay ==
    ASSUME ProcsAreOfBuilds, ColumnsAreThere, NEW p \in Procs,
           \A q \in Procs : q # p => procs'[q] = procs[q],
           \A n \in Fields : cols[n] # "none" => cols'[n] # "none",
           Equipped(cols', procs'[p])
    PROVE  ColumnsAreThere'
<1> SUFFICES ASSUME NEW q \in Procs, q # p PROVE Equipped(cols', procs[q])
  BY DEF ColumnsAreThere
<1> QED
  BY EquippedStays DEF ColumnsAreThere

LEMMA ProcsBecome ==
    ASSUME ProcsAreOfBuilds, NEW p \in Procs, NEW r \in AnyProc, procs' = [procs EXCEPT ![p] = r],
           r.at # "down" => r.build \in Builds,
           r.at = "starting" =>
              /\ r.found \subseteq DeclaredColumns(r.build)
              /\ r.ensured \subseteq Promoted(r.build)
              /\ r.path # "none" => r.path \in Promoted(r.build)
    PROVE  ProcsAreOfBuilds' /\ procs'[p] = r /\ \A q \in Procs : q # p => procs'[q] = procs[q]
<1>1. /\ procs' \in [Procs -> AnyProc] /\ procs'[p] = r
      /\ \A q \in Procs : q # p => procs'[q] = procs[q]
  BY DEF ProcsAreOfBuilds
<1>2. \A q \in Procs : procs'[q].at # "down" => procs'[q].build \in Builds
  <2> SUFFICES ASSUME NEW q \in Procs PROVE procs'[q].at # "down" => procs'[q].build \in Builds
    OBVIOUS
  <2> QED
    BY <1>1 DEF ProcsAreOfBuilds
<1>3. ASSUME NEW q \in Procs, procs'[q].at = "starting"
      PROVE  /\ procs'[q].found \subseteq DeclaredColumns(procs'[q].build)
             /\ procs'[q].ensured \subseteq Promoted(procs'[q].build)
             /\ procs'[q].path # "none" => procs'[q].path \in Promoted(procs'[q].build)
  <2>1. CASE q = p
    BY <1>1, <1>3, <2>1
  <2>2. CASE q # p
    <3>1. procs'[q] = procs[q]
      BY <1>1, <2>2
    <3> QED
      BY <1>3, <3>1 DEF ProcsAreOfBuilds
  <2> QED
    BY <2>1, <2>2
<1> QED
  BY <1>1, <1>2, <1>3 DEF ProcsAreOfBuilds, DeclaredColumns, Promoted

LEMMA SchemaBegins == SchemaInit => SchemaInv
<1> SUFFICES ASSUME SchemaInit PROVE SchemaInv
  OBVIOUS
<1>1. \A p \in Procs : procs[p] = Down
  BY DEF SchemaInit
<1>2. Down \in AnyProc /\ Down.at = "down"
  BY DEF Down, AnyProc
<1>3. ProcsAreOfBuilds
  <2>1. procs \in [Procs -> AnyProc]
    BY <1>2 DEF SchemaInit
  <2> QED
    BY <1>1, <1>2, <2>1 DEF ProcsAreOfBuilds
<1>4. ColumnsAreThere
  BY <1>1, <1>2 DEF ColumnsAreThere, Equipped
<1>5. DocsAreWhole /\ ColumnsAreNamed /\ FieldsAreKept /\ PatchIsWhole
  BY DEF SchemaInit, DocsAreWhole, ColumnsAreNamed, FieldsAreKept, BackfilledStaysFilled,
         DroppedStaysDropped, Stored, PatchIsWhole
<1>6. ReportIsTrue
  BY DEF SchemaInit, NoReport, AnyReport, ReportIsTrue, BackfillsDoAsReported
<1> QED
  BY <1>3, <1>4, <1>5, <1>6 DEF SchemaInv, SchemaInit

\* What does not touch the table or the processes.
LEMMA TableStays ==
    ASSUME SchemaInv, UNCHANGED <<backend, cols, procs, faults>>,
           DocsAreWhole', ReportIsTrue', FieldsAreKept', PatchIsWhole'
    PROVE  SchemaInv'
<1>1. backend' \in Backends /\ faults' \in Nat /\ ProcsAreOfBuilds' /\ ColumnsAreNamed'
  BY DEF SchemaInv, ProcsAreOfBuilds, ColumnsAreNamed
<1>2. backend' # "memdb" => ColumnsAreThere'
  BY DEF SchemaInv, ColumnsAreThere
<1> QED
  BY <1>1, <1>2 DEF SchemaInv

\* What does not touch the documents.
LEMMA DocsStay ==
    ASSUME SchemaInv, UNCHANGED <<docs, filled, dropped>>, report' \in {report, NoReport},
           patch' \in {patch, NoPatch}, backend' = backend, faults' \in Nat, ProcsAreOfBuilds',
           ColumnsAreNamed', backend # "memdb" => ColumnsAreThere'
    PROVE  SchemaInv'
<1>1. ReportIsTrue'
  BY ReportStays, NothingIsReported DEF SchemaInv
<1>2. FieldsAreKept' /\ PatchIsWhole'
  BY FieldsStay, PatchStays DEF SchemaInv
<1>3. DocsAreWhole'
  BY DEF SchemaInv, DocsAreWhole
<1> QED
  BY <1>1, <1>2, <1>3 DEF SchemaInv

LEMMA StartKeeps == ASSUME SchemaInv, NEW p \in Procs, Start(p) PROVE SchemaInv'
<1>1. PICK b \in Builds :
          procs' = [procs EXCEPT ![p] =
                       [Down EXCEPT !.build = b, !.at = "starting",
                                    !.found = IF backend = "sqlite" THEN {b.column[f] : f \in
                                                  {f \in Promoted(b) : cols[b.column[f]] # "none"}} ELSE {},
                                    !.ensured = IF backend = "memdb" THEN Promoted(b) ELSE {}]]
  BY DEF Start
<1> DEFINE found == IF backend = "sqlite"
                    THEN {b.column[f] : f \in {f \in Promoted(b) : cols[b.column[f]] # "none"}} ELSE {}
           ensured == IF backend = "memdb" THEN Promoted(b) ELSE {}
           m == [Down EXCEPT !.build = b, !.at = "starting"]
           r == [m EXCEPT !.found = found, !.ensured = ensured]
<1>2. procs' = [procs EXCEPT ![p] = r]
  BY <1>1
<1>3. /\ report' = NoReport /\ faults \in Nat /\ ProcsAreOfBuilds /\ ColumnsAreNamed
      /\ UNCHANGED <<backend, docs, cols, patch, filled, dropped, faults>>
  BY DEF Start, SchemaInv, tableVars, history
<1>4. /\ found \subseteq DeclaredColumns(b) /\ \A n \in found : cols[n] # "none"
      /\ ensured \subseteq Promoted(b) /\ Promoted(b) \subseteq Fields /\ DeclaredColumns(b) \subseteq Fields
      /\ backend # "memdb" => ensured = {}
  <2>1. Promoted(b) \subseteq Fields /\ DeclaredColumns(b) \subseteq Fields
    BY DeclaredAreFields
  <2> QED
    BY <2>1 DEF DeclaredColumns
<1> HIDE DEF found, ensured
<1>5. found \subseteq Fields /\ ensured \subseteq Fields
  BY <1>4
<1>6. /\ r \in AnyProc
      /\ r.at = "starting" /\ r.build = b /\ r.found = found /\ r.ensured = ensured /\ r.path = "none"
  <2>1. m \in AnyProc /\ m.build = b /\ m.at = "starting" /\ m.path = "none"
    BY DEF Down, AnyProc
  <2> HIDE DEF m
  <2>2. r \in AnyProc
    BY <1>5, <2>1 DEF AnyProc
  <2>3. r.at = "starting" /\ r.build = b /\ r.found = found /\ r.ensured = ensured /\ r.path = "none"
    BY <2>1 DEF AnyProc
  <2> QED
    BY <2>2, <2>3
<1> HIDE DEF r
<1>7. ProcsAreOfBuilds' /\ procs'[p] = r /\ \A q \in Procs : q # p => procs'[q] = procs[q]
  BY <1>2, <1>3, <1>4, <1>6, ProcsBecome
<1>8. ASSUME backend # "memdb" PROVE ColumnsAreThere'
  <2>1. ColumnsAreThere /\ ensured = {}
    BY <1>4, <1>8 DEF SchemaInv
  <2>2. Equipped(cols', procs'[p])
    BY <1>3, <1>4, <1>6, <1>7, <2>1 DEF Equipped
  <2> QED
    BY <1>3, <1>7, <2>1, <2>2, ColumnsStay
<1>9. ColumnsAreNamed'
  BY <1>3 DEF ColumnsAreNamed
<1> QED
  BY <1>3, <1>7, <1>8, <1>9, DocsStay

\* A statement that adds a column adds it, finds one of its name, or is skipped.
LEMMA EnsureColumnKeeps ==
    ASSUME SchemaInv, NEW p \in Procs, NEW f \in Fields, EnsureColumn(p, f)
    PROVE  SchemaInv'
<1> DEFINE b == procs[p].build
           n == b.column[f]
           q(skipped) == [procs[p] EXCEPT !.path = f, !.skipped = @ \cup skipped]
<1>1. /\ procs[p].at = "starting" /\ f \in Promoted(b)
      /\ UNCHANGED <<backend, docs, patch, filled, dropped, report>> /\ faults' \in Nat
  BY DEF EnsureColumn, history, Ddl, SchemaInv
<1>2. /\ procs[p] \in AnyProc /\ b \in Builds /\ procs[p].found \subseteq DeclaredColumns(b)
      /\ procs[p].ensured \subseteq Promoted(b) /\ procs \in [Procs -> AnyProc]
  BY <1>1 DEF SchemaInv, ProcsAreOfBuilds
<1>3. n \in Fields /\ n \in DeclaredColumns(b)
  BY <1>1, <1>2, PromotedHaveColumns
<1>4. PICK skipped \in {{}, {n}} :
          /\ procs' = [procs EXCEPT ![p].path = f, ![p].skipped = @ \cup skipped]
          /\ \/ /\ cols' = cols
                /\ (backend = "sqlite" /\ n \in procs[p].found) \/ cols[n] # "none" \/ skipped = {n}
             \/ cols[n] = "none" /\ cols' = [cols EXCEPT ![n] = f]
  <2> DEFINE Goes(without) == procs' = [procs EXCEPT ![p].path = f, ![p].skipped = @ \cup without]
  <2>1. \/ backend = "sqlite" /\ n \in procs[p].found /\ Goes({}) /\ cols' = cols
        \/ cols[n] = "none" /\ Goes({}) /\ cols' = [cols EXCEPT ![n] = f]
        \/ Goes(IF cols[n] = "none" THEN {n} ELSE {}) /\ cols' = cols
    BY DEF EnsureColumn, Ddl
  <2>2. CASE Goes({n}) /\ cols' = cols
    BY <2>2
  <2>3. CASE /\ Goes({})
             /\ \/ cols' = cols /\ ((backend = "sqlite" /\ n \in procs[p].found) \/ cols[n] # "none")
                \/ cols[n] = "none" /\ cols' = [cols EXCEPT ![n] = f]
    <3> WITNESS {} \in {{}, {n}}
    <3> QED
      BY <2>3
  <2> HIDE DEF Goes
  <2> QED
    BY <2>1, <2>2, <2>3
<1> DEFINE r == q(skipped)
<1>5. procs' = [procs EXCEPT ![p] = r]
  BY <1>2, <1>4 DEF AnyProc
<1>6. r \in AnyProc
  BY <1>2, <1>3 DEF AnyProc
<1>7. r.at = "starting" /\ r.build = b /\ r.found = procs[p].found /\ r.ensured = procs[p].ensured
      /\ r.path = f /\ r.skipped = procs[p].skipped \cup skipped
  BY <1>1, <1>2 DEF AnyProc
<1> HIDE DEF r
<1>8. ProcsAreOfBuilds' /\ procs'[p] = r /\ \A s \in Procs : s # p => procs'[s] = procs[s]
  BY <1>1, <1>2, <1>5, <1>6, <1>7, ProcsBecome DEF SchemaInv
<1>9. cols \in [Fields -> Fields \cup {"none"}] /\ f # "none"
  BY DocAssumption DEF SchemaInv, ColumnsAreNamed
<1>10. \A m \in Fields : cols[m] # "none" => cols'[m] # "none"
  BY <1>3, <1>4, <1>9
<1>11. ColumnsAreNamed'
  <2>1. CASE cols' = cols
    BY <2>1 DEF SchemaInv, ColumnsAreNamed
  <2>2. CASE cols' = [cols EXCEPT ![n] = f]
    <3>1. cols' \in [Fields -> Fields \cup {"none"}] /\ cols'[n] = f
          /\ \A m \in Fields : m # n => cols'[m] = cols[m]
      BY <1>3, <1>9, <2>2
    <3>2. ASSUME NEW m \in Fields, cols'[m] # "none"
          PROVE  \E c \in Builds : cols'[m] \in Promoted(c) /\ c.column[cols'[m]] = m
      <4>1. CASE m = n
        BY <1>1, <1>2, <3>1, <4>1
      <4>2. CASE m # n
        BY <3>1, <3>2, <4>2 DEF SchemaInv, ColumnsAreNamed
      <4> QED
        BY <4>1, <4>2
    <3> QED
      BY <3>1, <3>2 DEF ColumnsAreNamed
  <2> QED
    BY <1>4, <2>1, <2>2
<1>12. ASSUME backend # "memdb" PROVE ColumnsAreThere'
  <2>1. ColumnsAreThere /\ ProcsAreOfBuilds
    BY <1>12 DEF SchemaInv
  <2>2. Equipped(cols', procs[p])
    BY <1>10, <2>1, EquippedStays DEF ColumnsAreThere
  <2>3. Stands(cols', r, n)
    <3>1. CASE cols' = [cols EXCEPT ![n] = f]
      BY <1>3, <1>9, <3>1 DEF Stands
    <3>2. CASE cols' = cols /\ n \in procs[p].found
      BY <1>1, <2>2, <3>2 DEF Equipped, Stands
    <3> QED
      BY <1>4, <1>7, <3>1, <3>2 DEF Stands
  <2> HIDE DEF n, b
  <2>4. Equipped(cols', r)
    BY <1>1, <1>7, <2>2, <2>3 DEF Equipped, Stands, n, b
  <2> QED
    BY <1>8, <1>10, <2>1, <2>4, ColumnsStay
<1> QED
  BY <1>1, <1>8, <1>11, <1>12, DocsStay

LEMMA EnsureIndexKeeps == ASSUME SchemaInv, NEW p \in Procs, EnsureIndex(p) PROVE SchemaInv'
<1> DEFINE b == procs[p].build
           f == procs[p].path
           q1 == [procs[p] EXCEPT !.path = "none"]
           r == [q1 EXCEPT !.ensured = @ \cup {f}]
<1>1. /\ procs[p].at = "starting" /\ f # "none"
      /\ UNCHANGED <<backend, docs, cols, report, patch, filled, dropped>>
      /\ \E can \in BOOLEAN, do \in BOOLEAN, skip \in BOOLEAN : Ddl(can, do, skip)
      /\ procs' = [procs EXCEPT ![p].path = "none", ![p].ensured = @ \cup {f}]
  BY DEF EnsureIndex, Ddl, history
<1>2. /\ procs[p] \in AnyProc /\ b \in Builds /\ procs[p].found \subseteq DeclaredColumns(b)
      /\ procs[p].ensured \subseteq Promoted(b) /\ f \in Promoted(b)
      /\ procs \in [Procs -> AnyProc]
  BY <1>1 DEF SchemaInv, ProcsAreOfBuilds
<1>3. procs' = [procs EXCEPT ![p] = r]
  BY <1>1, <1>2 DEF AnyProc
<1>4. q1 \in AnyProc /\ q1.at = "starting" /\ q1.build = b /\ q1.found = procs[p].found
      /\ q1.ensured = procs[p].ensured /\ q1.path = "none" /\ q1.skipped = procs[p].skipped
  BY <1>1, <1>2 DEF AnyProc
<1>5. f \in Fields
  BY <1>2, DeclaredAreFields
<1> HIDE DEF q1
<1>6. r \in AnyProc
  BY <1>4, <1>5 DEF AnyProc
<1>7. r.at = "starting" /\ r.build = b /\ r.found = procs[p].found
      /\ r.ensured = procs[p].ensured \cup {f} /\ r.path = "none" /\ r.skipped = procs[p].skipped
  BY <1>4 DEF AnyProc
<1> HIDE DEF r
<1>8. ProcsAreOfBuilds' /\ procs'[p] = r /\ \A q \in Procs : q # p => procs'[q] = procs[q]
  BY <1>2, <1>3, <1>6, <1>7, ProcsBecome DEF SchemaInv
<1>9. faults' \in Nat /\ ColumnsAreNamed'
  BY <1>1 DEF Ddl, SchemaInv, ColumnsAreNamed
<1>10. ASSUME backend # "memdb" PROVE ColumnsAreThere'
  <2>1. ColumnsAreThere /\ ProcsAreOfBuilds
    BY <1>10 DEF SchemaInv
  <2>2. Equipped(cols, procs[p])
    BY <2>1 DEF ColumnsAreThere
  <2> HIDE DEF b, f
  <2>3. Equipped(cols', r)
    BY <1>1, <1>7, <2>2 DEF Equipped, Stands, b, f
  <2> QED
    BY <1>1, <1>8, <2>1, <2>3, ColumnsStay
<1> QED
  BY <1>1, <1>8, <1>9, <1>10, DocsStay

\* A process is up when it has ensured every column its build asks for.
LEMMA IsUpKeeps == ASSUME SchemaInv, NEW p \in Procs, IsUp(p) PROVE SchemaInv'
<1> DEFINE b == procs[p].build
           r == [procs[p] EXCEPT !.at = "up", !.found = {}, !.ensured = {}]
<1>1. /\ procs[p].at = "starting" /\ procs[p].ensured = Promoted(b) /\ procs[p].path = "none"
      /\ procs' = [procs EXCEPT ![p].at = "up", ![p].found = {}, ![p].ensured = {}]
      /\ UNCHANGED <<backend, docs, cols, report, patch, filled, dropped, faults>>
  BY DEF IsUp, tableVars, history
<1>2. b \in Builds /\ procs[p] \in AnyProc /\ procs \in [Procs -> AnyProc]
  BY <1>1 DEF SchemaInv, ProcsAreOfBuilds
<1>3. r \in AnyProc /\ r.at = "up" /\ r.build = b /\ r.skipped = procs[p].skipped
  BY <1>2 DEF AnyProc
<1>4. procs' = [procs EXCEPT ![p] = r]
  BY <1>1, <1>2 DEF AnyProc
<1> HIDE DEF r
<1>5. ProcsAreOfBuilds' /\ procs'[p] = r /\ \A q \in Procs : q # p => procs'[q] = procs[q]
  BY <1>2, <1>3, <1>4, ProcsBecome DEF SchemaInv
<1>6. ColumnsAreNamed' /\ faults' \in Nat
  BY <1>1 DEF SchemaInv, ColumnsAreNamed
<1>7. ASSUME backend # "memdb" PROVE ColumnsAreThere'
  <2>1. ColumnsAreThere /\ ProcsAreOfBuilds
    BY <1>7 DEF SchemaInv
  <2>2. Equipped(cols, procs[p])
    BY <2>1 DEF ColumnsAreThere
  <2>3. Equipped(cols', r)
    BY <1>1, <1>3, <2>2 DEF Equipped, Stands
  <2> QED
    BY <1>1, <1>5, <2>1, <2>3, ColumnsStay
<1> QED
  BY <1>1, <1>5, <1>6, <1>7, DocsStay

LEMMA StopKeeps == ASSUME SchemaInv, NEW p \in Procs, Stop(p) PROVE SchemaInv'
<1>1. /\ procs' = [procs EXCEPT ![p] = Down] /\ report' = NoReport /\ patch' \in {patch, NoPatch}
      /\ UNCHANGED <<backend, docs, cols, filled, dropped, faults>>
  BY DEF Stop, tableVars, history
<1>2. Down \in AnyProc /\ Down.at = "down"
  BY DEF Down, AnyProc
<1>3. ProcsAreOfBuilds' /\ procs'[p] = Down /\ \A q \in Procs : q # p => procs'[q] = procs[q]
  BY <1>1, <1>2, ProcsBecome DEF SchemaInv
<1>4. ColumnsAreNamed' /\ faults' \in Nat
  BY <1>1 DEF SchemaInv, ColumnsAreNamed
<1>5. ASSUME backend # "memdb" PROVE ColumnsAreThere'
  <2>1. ColumnsAreThere /\ ProcsAreOfBuilds /\ Equipped(cols', procs'[p])
    BY <1>2, <1>3, <1>5 DEF SchemaInv, Equipped
  <2> QED
    BY <1>1, <1>3, <2>1, ColumnsStay
<1> QED
  BY <1>1, <1>3, <1>4, <1>5, DocsStay

-----------------------------------------------------------------------------
\* A write keeps the invariant when every active document has still the fields that are not lost, and
\* no document the dropped ones that are not given.
LEMMA WriteKeeps ==
    ASSUME SchemaInv, NEW d \in [DocIds -> Doc \cup {NoDoc}], NEW lost, NEW given, Write(d, lost, given),
           patch' \in {patch, NoPatch},
           \A i \in DocIds : docs[i] # NoDoc => d[i] # NoDoc,
           \A i \in DocIds : d[i] # NoDoc /\ ~d[i].deleted =>
               \A f \in filled \ lost : d[i].body[f] # Absent,
           \A i \in DocIds : d[i] # NoDoc => \A f \in dropped \ given : d[i].body[f] = Absent
    PROVE  SchemaInv'
<1>1. /\ docs' = d /\ filled' = filled \ lost /\ dropped' = dropped \ given /\ report' = NoReport
      /\ UNCHANGED <<backend, cols, procs, faults>>
  BY DEF Write, tableVars
<1>2. DocsAreWhole'
  BY <1>1 DEF SchemaInv, DocsAreWhole
<1>3. BackfilledStaysFilled'
  BY <1>1 DEF BackfilledStaysFilled, Has, Live
<1>4. DroppedStaysDropped'
  BY <1>1 DEF DroppedStaysDropped, Has, Stored
<1>5. PatchIsWhole'
  BY <1>1, PatchStays DEF SchemaInv
<1> QED
  BY <1>1, <1>2, <1>3, <1>4, <1>5, TableStays, NothingIsReported DEF FieldsAreKept

\* What an active document has of the fields that were backfilled, and a stored one of those dropped.
LEMMA FieldsAreThere ==
    ASSUME SchemaInv, NEW i \in DocIds, docs[i] # NoDoc
    PROVE  /\ ~docs[i].deleted => \A f \in filled : docs[i].body[f] # Absent
           /\ \A f \in dropped : docs[i].body[f] = Absent
           /\ docs[i] \in Doc /\ docs \in [DocIds -> Doc \cup {NoDoc}]
           /\ filled \subseteq Fields /\ dropped \subseteq Fields
BY DEF SchemaInv, FieldsAreKept, BackfilledStaysFilled, DroppedStaysDropped, Live, Stored, Has, DocsAreWhole

\* What a struct's field is written as is a cell.
LEMMA EncodedAreCells ==
    ASSUME NEW b, NEW f \in Fields, NEW v \in Values \cup {Null}
    PROVE  Encoded(b, f, v) \in Cells
BY DEF Encoded, Cells

LEMMA CreateKeeps == ASSUME SchemaInv, NEW p \in Procs, Create(p) PROVE SchemaInv'
<1> DEFINE b == procs[p].build
           body(given) == [f \in Fields |-> Encoded(b, f, IF given[f] = Zero[f] THEN b.defaults[f] ELSE given[f])]
<1>1. PICK i \in DocIds \ Stored, given \in [Fields -> Values \cup {Null}] :
          Write([docs EXCEPT ![i] = [body |-> body(given), deleted |-> FALSE]],
                {f \in Fields : body(given)[f] = Absent}, {f \in Fields : body(given)[f] # Absent})
  BY DEF Create
<1> DEFINE new == body(given)
           doc == [body |-> new, deleted |-> FALSE]
           d == [docs EXCEPT ![i] = doc]
           lost == {f \in Fields : new[f] = Absent}
           asked == {f \in Fields : new[f] # Absent}
<1>2. b \in Builds
  BY DEF Create, Up, SchemaInv, ProcsAreOfBuilds
<1>3. new \in Bodies
  <2>1. \A f \in Fields : (IF given[f] = Zero[f] THEN b.defaults[f] ELSE given[f]) \in Values \cup {Null}
    BY <1>2, PromotedHaveColumns
  <2>2. \A f \in Fields : new[f] \in Cells
    BY <2>1, EncodedAreCells
  <2> QED
    BY <2>2 DEF Bodies
<1>4. Write(d, lost, asked)
  BY <1>1
<1> HIDE DEF body
<1>5. doc \in Doc /\ doc.body = new /\ ~doc.deleted
  BY <1>3 DEF Doc
<1> HIDE DEF doc
<1>6. docs \in [DocIds -> Doc \cup {NoDoc}] /\ filled \subseteq Fields /\ dropped \subseteq Fields
  BY DEF SchemaInv, DocsAreWhole
<1>7. d \in [DocIds -> Doc \cup {NoDoc}] /\ d[i] = doc /\ \A j \in DocIds : j # i => d[j] = docs[j]
  BY <1>5, <1>6
<1> HIDE DEF d
<1>8. ASSUME NEW j \in DocIds, d[j] # NoDoc
      PROVE  /\ ~d[j].deleted => \A f \in filled \ lost : d[j].body[f] # Absent
             /\ \A f \in dropped \ asked : d[j].body[f] = Absent
  <2>1. CASE j = i
    BY <1>5, <1>6, <1>7, <2>1
  <2>2. CASE j # i
    BY <1>7, <1>8, <2>2, FieldsAreThere
  <2> QED
    BY <2>1, <2>2
<1>9. \A j \in DocIds : docs[j] # NoDoc => d[j] # NoDoc
  BY <1>1, <1>7 DEF Stored
<1>10. patch' \in {patch, NoPatch}
  BY DEF Create
<1> HIDE DEF lost, asked, new
<1> QED
  BY <1>4, <1>7, <1>8, <1>9, <1>10, WriteKeeps

\* A patch that is read is of an active document, and writes what it changes.
LEMMA PatchReadKeeps == ASSUME SchemaInv, NEW p \in Procs, PatchRead(p) PROVE SchemaInv'
<1> DEFINE b == procs[p].build
           before(i) == docs[i].body
           after(i, f, v) == [g \in Fields |-> Encoded(b, g, IF g = f THEN v ELSE Decoded(g, before(i)[g]))]
<1>1. b \in Builds /\ report' = NoReport /\ UNCHANGED <<backend, docs, cols, procs, filled, dropped, faults>>
  BY DEF PatchRead, Up, SchemaInv, ProcsAreOfBuilds, tableVars, history
<1>2. b.declared \subseteq Fields /\ \A f \in b.declared : Given(f) \subseteq Values \cup {Null}
  BY <1>1, BuildAssumption, FieldAssumption DEF BuildType, Given
<1>3. PICK i \in Live, f \in b.declared, v \in Values \cup {Null} :
          patch' = [by |-> p, id |-> i, update |-> Diff(b, before(i), after(i, f, v)),
                    changes |-> {g \in b.declared : after(i, f, v)[g] # before(i)[g]}]
  BY <1>2 DEF PatchRead
<1>4. DocsAreWhole /\ i \in DocIds /\ i \in Stored /\ before(i) \in Bodies
  BY StoredAreDocs DEF SchemaInv, Stored, Live
<1> DEFINE new == after(i, f, v)
           old == before(i)
           update == Diff(b, old, new)
           changes == {g \in b.declared : new[g] # old[g]}
<1>5. \A g \in Fields : new[g] \in Cells
  <2>1. \A g \in Fields : (IF g = f THEN v ELSE Decoded(g, old[g])) \in Values \cup {Null}
    BY <1>4, FieldAssumption DEF Given, Decoded, Bodies, Cells
  <2> QED
    BY <2>1, EncodedAreCells
<1> HIDE DEF after, before
<1>6. update \in [Fields -> Cells \cup {Keep}] /\ \A g \in Fields \ changes : update[g] = Keep
  BY <1>5, <1>2 DEF Diff
<1>7. changes \subseteq Fields
  BY <1>2
<1>8. patch' = [by |-> p, id |-> i, update |-> update, changes |-> changes]
  BY <1>3
<1> HIDE DEF update, changes
<1>9. PatchIsWhole'
  <2>1. patch' \in AnyPatch /\ patch'.id = i /\ patch'.update = update /\ patch'.changes = changes
    BY <1>4, <1>6, <1>7, <1>8 DEF AnyPatch
  <2>2. i \in Stored'
    BY <1>1, <1>4 DEF Stored
  <2> QED
    BY <1>6, <2>1, <2>2 DEF PatchIsWhole, AnyPatch
<1>10. DocsAreWhole' /\ ReportIsTrue' /\ FieldsAreKept'
  BY <1>1, NothingIsReported, FieldsStay DEF SchemaInv, DocsAreWhole
<1> QED
  BY <1>1, <1>9, <1>10, TableStays

LEMMA PatchWriteKeeps == ASSUME SchemaInv, NEW p \in Procs, PatchWrite(p) PROVE SchemaInv'
<1> DEFINE i == patch.id
           body == [f \in Fields |-> IF patch.update[f] = Keep THEN docs[i].body[f] ELSE patch.update[f]]
           doc == [docs[i] EXCEPT !.body = body]
           d == [docs EXCEPT ![i] = doc]
           lost == {f \in patch.changes : patch.update[f] = Absent}
           given == patch.changes \ lost
<1>1. /\ patch \in AnyPatch /\ i \in Stored /\ patch' = NoPatch
      /\ \A f \in Fields \ patch.changes : patch.update[f] = Keep
  BY DEF PatchWrite, SchemaInv, PatchIsWhole
<1>2. i \in DocIds /\ docs[i] \in Doc /\ docs[i] # NoDoc /\ docs \in [DocIds -> Doc \cup {NoDoc}]
      /\ patch.update \in [Fields -> Cells \cup {Keep}] /\ patch.changes \subseteq Fields
  BY <1>1, FieldsAreThere DEF AnyPatch, Stored
<1>3. \/ Write(d, lost, given)
      \/ UNCHANGED <<backend, docs, cols, procs, report, filled, dropped, faults>>
  BY DEF PatchWrite, tableVars, history
<1>4. body \in Bodies
  BY <1>2 DEF Doc, Bodies
<1>5. \A f \in Fields : body[f] = IF patch.update[f] = Keep THEN docs[i].body[f] ELSE patch.update[f]
  OBVIOUS
<1> HIDE DEF body
<1>6. doc \in Doc /\ doc.body = body /\ doc.deleted = docs[i].deleted
  BY <1>2, <1>4 DEF Doc
<1> HIDE DEF doc
<1>7. d \in [DocIds -> Doc \cup {NoDoc}] /\ d[i] = doc /\ doc # NoDoc /\ \A j \in DocIds : j # i => d[j] = docs[j]
  BY <1>2, <1>6, DocAssumption DEF Doc
<1> HIDE DEF d
<1>8. ASSUME NEW j \in DocIds, d[j] # NoDoc
      PROVE  /\ ~d[j].deleted => \A f \in filled \ lost : d[j].body[f] # Absent
             /\ \A f \in dropped \ given : d[j].body[f] = Absent
  <2>1. CASE j = i
    <3>1. ASSUME NEW f \in filled \ lost, ~docs[i].deleted PROVE body[f] # Absent
      <4>1. f \in Fields /\ docs[i].body[f] # Absent
        BY <1>2, <3>1, FieldsAreThere
      <4> QED
        BY <1>1, <1>5, <3>1, <4>1
    <3>2. ASSUME NEW f \in dropped \ given PROVE body[f] = Absent
      <4>1. f \in Fields /\ docs[i].body[f] = Absent
        BY <1>2, FieldsAreThere
      <4> QED
        BY <1>1, <1>5, <3>2, <4>1
    <3> QED
      BY <1>6, <1>7, <2>1, <3>1, <3>2
  <2>2. CASE j # i
    BY <1>7, <1>8, <2>2, FieldsAreThere
  <2> QED
    BY <2>1, <2>2
<1>9. CASE Write(d, lost, given)
  <2>1. \A j \in DocIds : docs[j] # NoDoc => d[j] # NoDoc
    BY <1>7
  <2> HIDE DEF lost, given
  <2> QED
    BY <1>1, <1>7, <1>8, <1>9, <2>1, WriteKeeps
<1>10. CASE UNCHANGED <<backend, docs, cols, procs, report, filled, dropped, faults>>
  <2>1. DocsAreWhole' /\ ReportIsTrue' /\ FieldsAreKept' /\ PatchIsWhole'
    BY <1>1, <1>10, ReportStays, FieldsStay, PatchStays DEF SchemaInv, DocsAreWhole
  <2> QED
    BY <1>10, <2>1, TableStays
<1> QED
  BY <1>3, <1>9, <1>10

\* A document that is deleted or comes back, without the fields that are lost.
LEMMA DeletedKeeps ==
    ASSUME SchemaInv, NEW i \in Stored, NEW deleted \in BOOLEAN, NEW lost,
           Write([docs EXCEPT ![i].deleted = deleted], lost, {}), patch' \in {patch, NoPatch},
           ~deleted /\ docs[i].deleted => {f \in Fields : docs[i].body[f] = Absent} \subseteq lost
    PROVE  SchemaInv'
<1> DEFINE doc == [docs[i] EXCEPT !.deleted = deleted]
           d == [docs EXCEPT ![i] = doc]
<1>1. i \in DocIds /\ docs[i] \in Doc /\ docs \in [DocIds -> Doc \cup {NoDoc}] /\ filled \subseteq Fields
  BY FieldsAreThere DEF Stored
<1>2. doc \in Doc /\ doc.body = docs[i].body /\ doc.deleted = deleted
  BY <1>1 DEF Doc
<1>3. Write(d, lost, {})
  OBVIOUS
<1> HIDE DEF doc
<1>4. d \in [DocIds -> Doc \cup {NoDoc}] /\ d[i] = doc /\ doc # NoDoc /\ \A j \in DocIds : j # i => d[j] = docs[j]
  BY <1>1, <1>2, DocAssumption DEF Doc
<1> HIDE DEF d
<1>5. ASSUME NEW j \in DocIds, d[j] # NoDoc
      PROVE  /\ ~d[j].deleted => \A f \in filled \ lost : d[j].body[f] # Absent
             /\ \A f \in dropped : d[j].body[f] = Absent
  <2>1. CASE j = i
    BY <1>1, <1>2, <1>4, <2>1, FieldsAreThere DEF Stored
  <2>2. CASE j # i
    BY <1>4, <1>5, <2>2, FieldsAreThere
  <2> QED
    BY <2>1, <2>2
<1>6. \A j \in DocIds : docs[j] # NoDoc => d[j] # NoDoc
  BY <1>4
<1> QED
  BY <1>3, <1>4, <1>5, <1>6, WriteKeeps

LEMMA DeleteKeeps == ASSUME SchemaInv, NEW p \in Procs, Delete(p) PROVE SchemaInv'
<1>1. PICK i \in Live : Write([docs EXCEPT ![i].deleted = TRUE], {}, {})
  BY DEF Delete
<1>2. i \in Stored /\ patch' = patch
  BY DEF Delete, Live, Stored
<1> QED
  BY <1>1, <1>2, DeletedKeeps

LEMMA RestoreKeeps == ASSUME SchemaInv, NEW p \in Procs, Restore(p) PROVE SchemaInv'
<1>1. PICK i \in Stored \ Live :
          Write([docs EXCEPT ![i].deleted = FALSE], {f \in Fields : docs[i].body[f] = Absent}, {})
  BY DEF Restore
<1>2. patch' \in {patch, NoPatch}
  BY DEF Restore, Beats
<1> DEFINE lost == {f \in Fields : docs[i].body[f] = Absent}
<1>3. Write([docs EXCEPT ![i].deleted = FALSE], lost, {})
  BY <1>1
<1> HIDE DEF lost
<1> QED
  BY <1>2, <1>3, DeletedKeeps DEF lost

-----------------------------------------------------------------------------
\* What lacks a key is what is left of those that have it.
LEMMA LackingAreTheRest ==
    ASSUME DocsAreWhole, NEW f
    PROVE  /\ Cardinality({i \in Live : Has(i, f)}) \in Nat /\ Cardinality(Live) \in Nat
           /\ Cardinality({i \in Live : Has(i, f)}) <= Cardinality(Live)
           /\ Cardinality({i \in Live : Lacks(i, f)})
                = Cardinality(Live) - Cardinality({i \in Live : Has(i, f)})
           /\ Cardinality({i \in Stored : Has(i, f)}) >= Cardinality({i \in Live : Has(i, f)})
<1> DEFINE has == {i \in Live : Has(i, f)}
           lacking == {i \in Live : Lacks(i, f)}
           stored == {i \in Stored : Has(i, f)}
<1>1. IsFiniteSet(Live) /\ IsFiniteSet(Stored) /\ Live \subseteq Stored
  BY StoredAreDocs
<1>2. lacking = Live \ has /\ Live \cap has = has /\ has \subseteq Live /\ has \subseteq stored
      /\ stored \subseteq Stored
  BY <1>1 DEF Lacks
<1> HIDE DEF has, lacking, stored
<1>3. IsFiniteSet(stored)
  BY <1>1, <1>2, FS_Subset
<1>4. Cardinality(has) <= Cardinality(Live) /\ IsFiniteSet(has)
  BY <1>1, <1>2, FS_Subset
<1>5. Cardinality(has) <= Cardinality(stored)
  BY <1>2, <1>3, FS_Subset
<1>6. Cardinality(lacking) = Cardinality(Live) - Cardinality(has)
  BY <1>1, <1>2, FS_Difference
<1>7. Cardinality(has) \in Nat /\ Cardinality(Live) \in Nat /\ Cardinality(stored) \in Nat
  BY <1>1, <1>3, <1>4, FS_CardinalityType
<1> QED
  BY <1>4, <1>5, <1>6, <1>7 DEF has, lacking, stored

LEMMA CountKeysKeeps == ASSUME SchemaInv, NEW p \in Procs, NEW f \in Fields, CountKeys(p, f) PROVE SchemaInv'
<1> DEFINE count == Cardinality({i \in Live : Has(i, f)})
           total == IF backend = "memdb" THEN Cardinality(Live) ELSE 0
           at == IF backend = "memdb" THEN "made" ELSE "counted"
           m0 == [NoReport EXCEPT !.by = procs[p].build]
           m1 == [m0 EXCEPT !.field = f, !.count = count]
           r == [m1 EXCEPT !.at = at, !.total = total]
<1>1. report' = r /\ UNCHANGED <<backend, docs, cols, procs, patch, filled, dropped, faults>>
  BY DEF CountKeys, NoReport, tableVars, history
<1>2. DocsAreWhole /\ procs[p].build \in Builds \cup {NoBuild}
  BY DEF SchemaInv, ProcsAreOfBuilds, AnyProc
<1>3. count \in Nat /\ total \in Nat /\ at \in {"made", "counted"}
      /\ (at = "made" => total = Cardinality(Live))
  BY <1>2, LackingAreTheRest
<1> HIDE DEF count, total, at
<1>4. m0 \in AnyReport
  BY <1>2 DEF NoReport, AnyReport
<1> HIDE DEF m0
<1>5. m1 \in AnyReport /\ m1.field = f /\ m1.count = count
  BY <1>3, <1>4 DEF AnyReport
<1> HIDE DEF m1
<1>6. r \in AnyReport
  BY <1>3, <1>5 DEF AnyReport
<1>7. r.field = f /\ r.count = count /\ r.at = at /\ r.total = total
  BY <1>5 DEF AnyReport
<1> HIDE DEF r
<1>8. ReportIsTrue'
  <2>1. report'.at # "acted" /\ (report'.at = "made" => report'.total = Cardinality(Live))
    BY <1>1, <1>3, <1>7
  <2>2. report'.field = f /\ report'.count = Cardinality({i \in Live : Has(i, f)})
    BY <1>1, <1>7 DEF count
  <2>3. Live' = Live /\ \A i : Has(i, f)' = Has(i, f)
    BY <1>1 DEF Live, Has
  <2> QED
    BY <1>1, <1>6, <2>1, <2>2, <2>3 DEF ReportIsTrue, BackfillsDoAsReported, Has, AnyReport
<1>9. DocsAreWhole' /\ FieldsAreKept' /\ PatchIsWhole'
  BY <1>1, FieldsStay, PatchStays DEF SchemaInv, DocsAreWhole
<1> QED
  BY <1>1, <1>8, <1>9, TableStays

LEMMA CountTotalKeeps == ASSUME SchemaInv, CountTotal PROVE SchemaInv'
<1> DEFINE total == Cardinality(Live)
           r == [report EXCEPT !.at = "made", !.total = total]
<1>1. report.at = "counted" /\ report' = r
      /\ UNCHANGED <<backend, docs, cols, procs, patch, filled, dropped, faults>>
  BY DEF CountTotal, tableVars, history
<1>2. total \in Nat /\ report \in AnyReport
      /\ report.count = Cardinality({i \in Live : Has(i, report.field)})
  BY <1>1, LackingAreTheRest DEF SchemaInv, ReportIsTrue
<1> HIDE DEF total
<1>3. r \in AnyReport
  BY <1>2 DEF AnyReport
<1>4. r.at = "made" /\ r.total = total /\ r.count = report.count /\ r.field = report.field
  BY <1>2 DEF AnyReport
<1> HIDE DEF r
<1>5. ReportIsTrue'
  <2>1. Live' = Live /\ \A i, f : Has(i, f)' = Has(i, f)
    BY <1>1 DEF Live, Has
  <2> QED
    BY <1>1, <1>2, <1>3, <1>4, <2>1 DEF ReportIsTrue, BackfillsDoAsReported, Has, total
<1>6. DocsAreWhole' /\ FieldsAreKept' /\ PatchIsWhole'
  BY <1>1, FieldsStay, PatchStays DEF SchemaInv, DocsAreWhole
<1> QED
  BY <1>1, <1>5, <1>6, TableStays

\* A statement for the field that was reported on does what the report announced.
LEMMA DoneAsReported ==
    ASSUME ReportIsTrue, NEW p \in Procs, NEW f \in Fields, NEW n \in Nat, report' = Done(p, f, n),
           IF f \in procs[p].build.declared
           THEN n = Cardinality(Live) - Cardinality({i \in Live : Has(i, f)})
                /\ n \in Nat /\ Cardinality({i \in Live : Has(i, f)}) <= Cardinality(Live)
           ELSE n >= Cardinality({i \in Live : Has(i, f)})
    PROVE  ReportIsTrue'
<1>1. CASE report' = NoReport
  BY <1>1, NothingIsReported
<1>2. CASE /\ report.at = "made" /\ report.field = f /\ report.by = procs[p].build
           /\ report' = [report EXCEPT !.at = "acted", !.touched = n]
  <2>1. report' \in AnyReport
    BY <1>2 DEF ReportIsTrue, AnyReport
  <2>2. report'.at = "acted" /\ report'.touched = n /\ report'.count = report.count
    BY <1>2 DEF ReportIsTrue, AnyReport
  <2>3. report'.total = report.total /\ report'.field = f /\ report'.by = procs[p].build
    BY <1>2 DEF ReportIsTrue, AnyReport
  <2>4. report.count = Cardinality({i \in Live : Has(i, f)}) /\ report.total = Cardinality(Live)
        /\ report.count \in Nat /\ report.total \in Nat
    BY <1>2 DEF ReportIsTrue, AnyReport
  <2>5. BackfillsDoAsReported'
    <3>1. CASE f \in procs[p].build.declared
      <4>1. n = report.total - report.count /\ report.count <= report.total
        BY <2>4, <3>1
      <4>2. n = Missing'
        BY <2>2, <2>3, <2>4, <3>1, <4>1 DEF Missing
      <4> QED
        BY <2>2, <2>3, <3>1, <4>2 DEF BackfillsDoAsReported
    <3>2. CASE f \notin procs[p].build.declared
      BY <2>2, <2>3, <2>4, <3>2 DEF BackfillsDoAsReported, Orphans
    <3> QED
      BY <3>1, <3>2
  <2> QED
    BY <2>1, <2>2, <2>5 DEF ReportIsTrue
<1> QED
  BY <1>1, <1>2 DEF Done

LEMMA BackfillKeeps == ASSUME SchemaInv, NEW p \in Procs, NEW f \in Fields, Backfill(p, f) PROVE SchemaInv'
<1> DEFINE v == Encoded(procs[p].build, f, procs[p].build.defaults[f])
           lacking == {i \in Live : Lacks(i, f)}
           d == [i \in DocIds |-> IF i \in lacking
                               THEN [docs[i] EXCEPT !.body[f] = v] ELSE docs[i]]
<1>1. /\ Up(p) /\ f \in procs[p].build.declared /\ docs' = d
      /\ report' = Done(p, f, Cardinality(lacking)) /\ filled' = filled \cup {f} /\ dropped' = dropped \ {f}
      /\ v # Absent /\ patch' \in {patch, NoPatch} /\ UNCHANGED <<backend, cols, procs, faults>>
  BY DEF Backfill, Beats, tableVars
<1>2. DocsAreWhole /\ ReportIsTrue /\ FieldsAreKept /\ PatchIsWhole
  BY DEF SchemaInv
<1>3. v \in Cells
  <2>1. procs[p].build \in Builds
    BY <1>1 DEF SchemaInv, ProcsAreOfBuilds, Up
  <2> QED
    BY <2>1, PromotedHaveColumns, EncodedAreCells
<1> HIDE DEF v
<1>4. ReportIsTrue'
  <2>1. /\ Cardinality({i \in Live : Has(i, f)}) \in Nat /\ Cardinality(Live) \in Nat
        /\ Cardinality({i \in Live : Has(i, f)}) <= Cardinality(Live)
        /\ Cardinality(lacking) = Cardinality(Live) - Cardinality({i \in Live : Has(i, f)})
    BY <1>2, LackingAreTheRest
  <2>2. Cardinality(lacking) \in Nat
    BY <2>1
  <2> HIDE DEF lacking, d
  <2> QED
    BY <1>1, <1>2, <2>1, <2>2, DoneAsReported
<1>5. ASSUME NEW i \in lacking
      PROVE  /\ d[i] \in Doc /\ d[i].deleted = docs[i].deleted /\ d[i] # NoDoc
             /\ d[i].body[f] # Absent /\ \A g \in Fields : g # f => d[i].body[g] = docs[i].body[g]
  <2> DEFINE body == [docs[i].body EXCEPT ![f] = v]
             doc == [docs[i] EXCEPT !.body = body]
  <2>1. i \in DocIds /\ docs[i] \in Doc
    BY <1>2, StoredAreDocs
  <2>2. d[i] = doc
    BY <2>1
  <2>3. body \in Bodies /\ body[f] = v /\ \A g \in Fields : g # f => body[g] = docs[i].body[g]
    BY <1>3, <2>1 DEF Doc, Bodies
  <2> HIDE DEF body, d
  <2>4. doc \in Doc /\ doc.body = body /\ doc.deleted = docs[i].deleted
    BY <2>1, <2>3 DEF Doc
  <2> HIDE DEF doc
  <2>5. doc # NoDoc
    BY <2>4, DocAssumption DEF Doc
  <2> QED
    BY <1>1, <2>2, <2>3, <2>4, <2>5
<1>6. \A i \in DocIds \ lacking : d[i] = docs[i]
  OBVIOUS
<1>7. DOMAIN d = DocIds /\ d = [i \in DocIds |-> d[i]] /\ lacking \subseteq DocIds
  BY DEF Live
<1> HIDE DEF d
<1>8. DocsAreWhole'
  <2>1. d \in [DocIds -> Doc \cup {NoDoc}]
    <3>1. \A i \in DocIds : d[i] \in Doc \cup {NoDoc}
      BY <1>2, <1>5, <1>6 DEF DocsAreWhole
    <3> QED
      BY <1>7, <3>1
  <2> QED
    BY <1>1, <1>2, <2>1 DEF DocsAreWhole
<1>9. BackfilledStaysFilled'
  <2> SUFFICES ASSUME NEW g \in filled \cup {f}, NEW i \in Live'
               PROVE  docs'[i].body[g] # Absent
    BY <1>1 DEF BackfilledStaysFilled, Has
  <2>1. g \in Fields /\ i \in DocIds /\ docs'[i] # NoDoc /\ ~docs'[i].deleted
    BY <1>2 DEF DocsAreWhole, Live
  <2>2. CASE i \in lacking
    <3>1. i \in Live
      BY <2>2
    <3> QED
      BY <1>1, <1>2, <1>5, <2>1, <2>2, <3>1 DEF FieldsAreKept, BackfilledStaysFilled, Has
  <2>3. CASE i \notin lacking
    <3>1. docs'[i] = docs[i] /\ i \in Live
      BY <1>1, <1>6, <2>1, <2>3 DEF Live
    <3> QED
      BY <1>2, <2>3, <3>1 DEF FieldsAreKept, BackfilledStaysFilled, Has, Lacks
  <2> QED
    BY <2>2, <2>3
<1>10. DroppedStaysDropped'
  <2> SUFFICES ASSUME NEW g \in dropped \ {f}, NEW i \in Stored'
               PROVE  docs'[i].body[g] = Absent
    BY <1>1 DEF DroppedStaysDropped, Has
  <2>1. g \in Fields /\ i \in DocIds /\ docs'[i] # NoDoc
    BY <1>2 DEF DocsAreWhole, Stored
  <2>2. CASE i \in lacking
    <3>1. i \in Stored
      BY <2>2 DEF Live, Stored
    <3> QED
      BY <1>1, <1>2, <1>5, <2>1, <2>2, <3>1 DEF FieldsAreKept, DroppedStaysDropped, Has
  <2>3. CASE i \notin lacking
    BY <1>1, <1>2, <1>6, <2>1, <2>3 DEF FieldsAreKept, DroppedStaysDropped, Has, Stored
  <2> QED
    BY <2>2, <2>3
<1>11. PatchIsWhole'
  <2>1. \A i \in DocIds : docs[i] # NoDoc => docs'[i] # NoDoc
    BY <1>1, <1>5, <1>6
  <2> QED
    BY <1>1, <1>2, <2>1, PatchStays
<1> QED
  BY <1>1, <1>4, <1>8, <1>9, <1>10, <1>11, TableStays DEF FieldsAreKept

\* A field leaves every document.
LEMMA UnsetKeeps ==
    ASSUME DocsAreWhole, FieldsAreKept, PatchIsWhole, NEW f \in Fields, Unset(f)
    PROVE  DocsAreWhole' /\ FieldsAreKept' /\ PatchIsWhole'
<1>0. /\ docs' = Without(f) /\ filled' = filled \ {f} /\ dropped' = dropped \cup {f} /\ patch' = patch
  BY DEF Unset
<1>1. ASSUME NEW i \in DocIds, docs[i] # NoDoc
      PROVE  /\ docs'[i] \in Doc /\ docs'[i].deleted = docs[i].deleted
             /\ \A g \in Fields : docs'[i].body[g] = IF g = f THEN Absent ELSE docs[i].body[g]
  <2> DEFINE body == [docs[i].body EXCEPT ![f] = Absent]
             doc == [docs[i] EXCEPT !.body = body]
  <2>1. docs[i] \in Doc
    BY <1>1 DEF DocsAreWhole
  <2>2. docs'[i] = doc
    BY <1>0, <1>1 DEF Without
  <2>3. body \in Bodies /\ \A g \in Fields : body[g] = IF g = f THEN Absent ELSE docs[i].body[g]
    BY <2>1 DEF Doc, Bodies, Cells
  <2> HIDE DEF body
  <2>4. doc \in Doc /\ doc.body = body /\ doc.deleted = docs[i].deleted
    BY <2>1, <2>3 DEF Doc
  <2> HIDE DEF doc
  <2> QED
    BY <2>2, <2>3, <2>4
<1>2. \A i \in DocIds : docs[i] = NoDoc => docs'[i] = NoDoc
  BY <1>0 DEF Without
<1>3. DocsAreWhole'
  <2>1. \A i \in DocIds : docs'[i] \in Doc \cup {NoDoc}
    BY <1>1, <1>2
  <2>2. docs' = [i \in DocIds |-> docs'[i]]
    BY <1>0 DEF Without
  <2>3. filled' \subseteq Fields /\ dropped' \subseteq Fields
    BY <1>0 DEF DocsAreWhole
  <2>4. docs' \in [DocIds -> Doc \cup {NoDoc}]
    BY ONLY <2>1, <2>2
  <2> QED
    BY <2>3, <2>4 DEF DocsAreWhole
<1>4. BackfilledStaysFilled'
  <2> SUFFICES ASSUME NEW g \in filled \ {f}, NEW i \in Live' PROVE docs'[i].body[g] # Absent
    BY <1>0 DEF BackfilledStaysFilled, Has
  <2>1. i \in DocIds /\ docs[i] # NoDoc /\ g \in Fields
    BY <1>2 DEF DocsAreWhole, Live
  <2>2. i \in Live
    BY <1>1, <2>1 DEF Live
  <2> QED
    BY <1>1, <2>1, <2>2 DEF FieldsAreKept, BackfilledStaysFilled, Has
<1>5. DroppedStaysDropped'
  <2> SUFFICES ASSUME NEW g \in dropped \cup {f}, NEW i \in Stored' PROVE docs'[i].body[g] = Absent
    BY <1>0 DEF DroppedStaysDropped, Has
  <2>1. i \in Stored /\ i \in DocIds /\ docs[i] # NoDoc /\ g \in Fields
    BY <1>2 DEF DocsAreWhole, Stored
  <2> QED
    BY <1>1, <2>1 DEF FieldsAreKept, DroppedStaysDropped, Has
<1>6. PatchIsWhole'
  <2>1. \A i \in DocIds : docs[i] # NoDoc => docs'[i] # NoDoc
    BY <1>1, DocAssumption DEF Doc
  <2> QED
    BY <1>0, <2>1, PatchStays
<1> QED
  BY <1>3, <1>4, <1>5, <1>6 DEF FieldsAreKept

LEMMA DropFieldKeeps == ASSUME SchemaInv, NEW p \in Procs, NEW f \in Fields, DropField(p, f) PROVE SchemaInv'
<1> DEFINE n == Cardinality({i \in Stored : Has(i, f)})
<1>1. /\ f \notin procs[p].build.declared /\ Unset(f)
      /\ report' = Done(p, f, n) /\ UNCHANGED <<backend, cols, procs, faults>>
  BY DEF DropField, Unset, tableVars
<1>2. DocsAreWhole /\ ReportIsTrue /\ FieldsAreKept /\ PatchIsWhole
  BY DEF SchemaInv
<1>3. n >= Cardinality({i \in Live : Has(i, f)})
  BY <1>2, LackingAreTheRest
<1>4. n \in Nat
  <2>1. IsFiniteSet({i \in Stored : Has(i, f)})
    BY <1>2, StoredAreDocs, FS_Subset
  <2> QED
    BY <2>1, FS_CardinalityType
<1> HIDE DEF n
<1>5. ReportIsTrue'
  BY <1>1, <1>2, <1>3, <1>4, DoneAsReported
<1>6. DocsAreWhole' /\ FieldsAreKept' /\ PatchIsWhole'
  BY <1>1, <1>2, UnsetKeeps
<1> QED
  BY <1>1, <1>5, <1>6, TableStays

\* No process that is not down asks for the column that is dropped.
LEMMA DropColumnKeeps == ASSUME SchemaInv, NEW p \in Procs, NEW n \in Fields, DropColumn(p, n) PROVE SchemaInv'
<1>1. /\ Up(p) /\ UNCHANGED <<backend, docs, report, patch, filled, dropped>> /\ faults' \in Nat
      /\ \A q \in Procs : procs[q].at # "down" => n \notin DeclaredColumns(procs[q].build)
  BY DEF DropColumn, SchemaInv, history
<1>2. \/ cols' = cols /\ procs' = procs
      \/ /\ cols' = [cols EXCEPT ![n] = "none"]
         /\ \E purge \in {n, "none"} : procs' = [procs EXCEPT ![p].path = purge]
  BY DEF DropColumn
<1>3. ProcsAreOfBuilds /\ ColumnsAreNamed /\ procs[p].at = "up" /\ procs[p] \in AnyProc
      /\ procs[p].build \in Builds /\ procs \in [Procs -> AnyProc]
  BY <1>1 DEF SchemaInv, ProcsAreOfBuilds, Up
<1>4. CASE cols' = cols /\ procs' = procs
  <2>1. ProcsAreOfBuilds' /\ ColumnsAreNamed'
    BY <1>3, <1>4 DEF ProcsAreOfBuilds, ColumnsAreNamed
  <2>2. backend # "memdb" => ColumnsAreThere'
    BY <1>1, <1>4 DEF SchemaInv, ColumnsAreThere
  <2> QED
    BY <1>1, <2>1, <2>2, DocsStay
<1>5. ASSUME cols' = [cols EXCEPT ![n] = "none"], NEW purge \in {n, "none"},
             procs' = [procs EXCEPT ![p].path = purge]
      PROVE  SchemaInv'
  <2> DEFINE r == [procs[p] EXCEPT !.path = purge]
  <2>1. procs' = [procs EXCEPT ![p] = r]
    BY <1>5
  <2>2. r \in AnyProc
    BY <1>3 DEF AnyProc
  <2>3. r.at = "up" /\ r.build = procs[p].build /\ r.skipped = procs[p].skipped
    BY <1>3 DEF AnyProc
  <2> HIDE DEF r
  <2>4. ProcsAreOfBuilds' /\ procs'[p] = r /\ \A q \in Procs : q # p => procs'[q] = procs[q]
    BY <1>3, <2>1, <2>2, <2>3, ProcsBecome
  <2>5. /\ cols' \in [Fields -> Fields \cup {"none"}] /\ cols'[n] = "none"
        /\ \A m \in Fields : m # n => cols'[m] = cols[m]
    BY <1>3, <1>5 DEF ColumnsAreNamed
  <2>6. ColumnsAreNamed'
    BY <1>3, <2>5 DEF ColumnsAreNamed
  <2>7. ASSUME backend # "memdb" PROVE ColumnsAreThere'
    <3>1. ColumnsAreThere
      BY <2>7 DEF SchemaInv
    <3>2. ASSUME NEW q \in Procs, procs[q].at # "down", NEW f \in Promoted(procs[q].build)
          PROVE  cols'[procs[q].build.column[f]] = cols[procs[q].build.column[f]]
      <4>1. procs[q].build \in Builds
        BY <1>3, <3>2 DEF ProcsAreOfBuilds
      <4>2. procs[q].build.column[f] \in Fields
            /\ procs[q].build.column[f] \in DeclaredColumns(procs[q].build)
        BY <4>1, DeclaredAreFields, PromotedHaveColumns
      <4> QED
        BY <1>1, <2>5, <3>2, <4>2
    <3>3. ASSUME NEW q \in Procs, procs[q].at = "starting" PROVE Equipped(cols', procs[q])
      <4>1. /\ procs[q].build \in Builds /\ procs[q].found \subseteq DeclaredColumns(procs[q].build)
            /\ procs[q].ensured \subseteq Promoted(procs[q].build)
            /\ procs[q].path # "none" => procs[q].path \in Promoted(procs[q].build)
        BY <1>3, <3>3 DEF ProcsAreOfBuilds
      <4>2. \A m \in procs[q].found : m \in Fields /\ m # n
        BY <1>1, <3>3, <4>1, DeclaredAreFields
      <4> QED
        BY <2>5, <3>1, <3>2, <3>3, <4>1, <4>2 DEF ColumnsAreThere, Equipped, Stands
    <3>4. ASSUME NEW q \in Procs, procs[q].at = "up" PROVE Equipped(cols', procs[q])
      BY <3>1, <3>2, <3>4 DEF ColumnsAreThere, Equipped, Stands
    <3>5. ASSUME NEW q \in Procs PROVE Equipped(cols', procs[q])
      BY <3>3, <3>4 DEF Equipped
    <3>6. Equipped(cols', r)
      BY <1>3, <2>3, <3>5 DEF Equipped, Stands
    <3> QED
      BY <2>4, <3>5, <3>6 DEF ColumnsAreThere
  <2> QED
    BY <1>1, <2>4, <2>6, <2>7, DocsStay
<1> QED
  BY <1>2, <1>4, <1>5

LEMMA PurgeDataKeeps == ASSUME SchemaInv, NEW p \in Procs, PurgeData(p) PROVE SchemaInv'
<1> DEFINE n == procs[p].path
           r == [procs[p] EXCEPT !.path = "none"]
<1>1. /\ procs[p].at = "up" /\ n # "none" /\ Unset(n)
      /\ procs' = [procs EXCEPT ![p] = r] /\ report' = NoReport /\ UNCHANGED <<backend, cols, faults>>
  BY DEF PurgeData, Unset, Up, tableVars
<1>2. ProcsAreOfBuilds /\ procs[p] \in AnyProc /\ procs[p].build \in Builds /\ n \in Fields
  BY <1>1 DEF SchemaInv, ProcsAreOfBuilds, AnyProc
<1>3. r \in AnyProc /\ r.at = "up" /\ r.build = procs[p].build /\ r.skipped = procs[p].skipped
  BY <1>1, <1>2 DEF AnyProc
<1> HIDE DEF r
<1>4. ProcsAreOfBuilds' /\ procs'[p] = r /\ \A q \in Procs : q # p => procs'[q] = procs[q]
  BY <1>1, <1>2, <1>3, ProcsBecome
<1>5. DocsAreWhole' /\ FieldsAreKept' /\ PatchIsWhole'
  <2>1. DocsAreWhole /\ FieldsAreKept /\ PatchIsWhole
    BY DEF SchemaInv
  <2> QED
    BY <1>1, <1>2, <2>1, UnsetKeeps
<1>6. ReportIsTrue'
  BY <1>1, NothingIsReported
<1>7. backend' \in Backends /\ faults' \in Nat /\ ColumnsAreNamed'
  BY <1>1 DEF SchemaInv, ColumnsAreNamed
<1>8. ASSUME backend # "memdb" PROVE ColumnsAreThere'
  <2>1. ColumnsAreThere
    BY <1>8 DEF SchemaInv
  <2>2. Equipped(cols', r)
    BY <1>1, <1>3, <2>1 DEF ColumnsAreThere, Equipped, Stands
  <2> QED
    BY <1>1, <1>2, <1>4, <2>1, <2>2, ColumnsStay
<1> QED
  BY <1>1, <1>4, <1>5, <1>6, <1>7, <1>8 DEF SchemaInv

-----------------------------------------------------------------------------
LEMMA SchemaIsKept == SchemaInv /\ [SchemaNext]_schemaVars => SchemaInv'
<1> SUFFICES ASSUME SchemaInv, [SchemaNext]_schemaVars PROVE SchemaInv'
  OBVIOUS
<1>1. ASSUME NEW p \in Procs,
             \/ Start(p) \/ EnsureIndex(p) \/ IsUp(p) \/ Stop(p)
             \/ Create(p) \/ PatchRead(p) \/ PatchWrite(p) \/ Delete(p) \/ Restore(p)
             \/ CountTotal \/ PurgeData(p)
      PROVE  SchemaInv'
  BY <1>1, StartKeeps, EnsureIndexKeeps, IsUpKeeps, StopKeeps, CreateKeeps, PatchReadKeeps,
     PatchWriteKeeps, DeleteKeeps, RestoreKeeps, CountTotalKeeps, PurgeDataKeeps
<1>2. ASSUME NEW p \in Procs, NEW f \in Fields,
             \/ EnsureColumn(p, f) \/ CountKeys(p, f) \/ Backfill(p, f)
             \/ DropField(p, f) \/ DropColumn(p, f)
      PROVE  SchemaInv'
  BY <1>2, EnsureColumnKeeps, CountKeysKeeps, BackfillKeeps, DropFieldKeeps, DropColumnKeeps
<1>3. CASE UNCHANGED schemaVars
  <2>1. DocsAreWhole' /\ ReportIsTrue' /\ FieldsAreKept' /\ PatchIsWhole'
    BY <1>3, ReportStays, FieldsStay, PatchStays DEF schemaVars, SchemaInv, DocsAreWhole
  <2> QED
    BY <1>3, <2>1, TableStays DEF schemaVars
<1> QED
  BY <1>1, <1>2, <1>3 DEF SchemaNext

\* The invariant of a collection through its deploys: what a process is ensuring, what the columns
\* compute, and what a report says (db/report.go, db/promote.go, ensure of db/sqlite and db/pg).
THEOREM SchemaIsInvariant == SchemaSpec => []SchemaInv
<1>1. SchemaInit => SchemaInv
  BY SchemaBegins
<1>2. SchemaInv /\ [SchemaNext]_schemaVars => SchemaInv'
  BY SchemaIsKept
<1> QED
  BY <1>1, <1>2, PTL DEF SchemaSpec

\* With no other call in between, a backfill touches as many documents as its report said lack the
\* field and DropField reaches every one that carries it; what was backfilled stays filled, whichever
\* builds patch, until a caller clears it or a document comes without it; and what was dropped comes
\* back by no patch that does not give it a value, those that read their document before the drop
\* included (db/report.go Backfill and DropField, db/service.go patch, db/json.go diff).
THEOREM UpkeepIsKept == SchemaSpec => []UpkeepHolds
<1>1. SchemaInv => UpkeepHolds
  BY DEF SchemaInv, ReportIsTrue, FieldsAreKept, UpkeepHolds
<1> QED
  BY <1>1, SchemaIsInvariant, PTL

\* The column a process that is up asks for is there, or it could not add it; and it is of the path it
\* is asked for: one name is of one path.
LEMMA ColumnsAnswer ==
    ASSUME SchemaInv
    PROVE  QueriesReadDocuments
<1> SUFFICES ASSUME NEW p \in Procs, Up(p), NEW f \in Fields, NEW v \in Values, ~Unserved(p, f)
             PROVE  Finds(p, f, v) = {i \in Live : docs[i].body[f] = v}
  BY DEF QueriesReadDocuments
<1> DEFINE b == procs[p].build
           n == b.column[f]
<1>1. b \in Builds
  BY DEF SchemaInv, ProcsAreOfBuilds, Up
<1>2. CASE backend = "memdb" \/ n = "none"
  BY <1>2 DEF Finds
<1>3. CASE backend # "memdb" /\ n # "none"
  <2>1. f \in Promoted(b) /\ n \in Fields
    BY <1>1, <1>3, PromotedHaveColumns
  <2>2. cols[n] # "none"
    BY <1>3, <2>1 DEF SchemaInv, ColumnsAreThere, Equipped, Stands, Unserved, Up
  <2>3. PICK c \in Builds : cols[n] \in Promoted(c) /\ c.column[cols[n]] = n
    BY <2>1, <2>2 DEF SchemaInv, ColumnsAreNamed
  <2>4. cols[n] = f
    BY <1>1, <2>1, <2>3, NameAssumption
  <2>5. Finds(p, f, v) = {i \in Live : Cell(n, docs[i].body) = v}
    BY <1>3, <2>2 DEF Finds
  <2>6. \A i \in Live : Cell(n, docs[i].body) = docs[i].body[f]
    BY <2>2, <2>4 DEF Cell
  <2> QED
    BY <2>5, <2>6
<1> QED
  BY <1>2, <1>3

\* Promoting a path changes no answer, whichever statements of DDL fail: a process that is up finds by
\* its columns what the documents say, but for a column that it could not add and that is still
\* missing (sqlite/compile.go and pg/compile.go target, ensure of both backends).
THEOREM PromotionChangesNoAnswer == SchemaSpec => []QueriesReadDocuments
<1>1. SchemaInv => QueriesReadDocuments
  BY ColumnsAnswer
<1> QED
  BY <1>1, SchemaIsInvariant, PTL
=============================================================================
