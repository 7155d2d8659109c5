------------------------------ MODULE DataProofs ------------------------------
(***************************************************************************)
(* What the database and the tables rest on, proved: ids (IdClock), for    *)
(* every width of the counter and of the time, queries (Filters), for any  *)
(* fields, values and columns, patches (PathWrites), for documents of any  *)
(* shape, and the two tables kept in the order of use (UseOrder), that of  *)
(* core/cache/cache.go (LRU) and that of core/mw/ratelimit.go (RateLimit). *)
(***************************************************************************)
EXTENDS IdClock, Filters, PathWrites, LRU, RateLimit, FiniteSetTheorems, SequenceTheorems,
        WellFoundedInduction, TLAPS

\* What tick holds is what the last id was made of; borrowing runs ahead of the wall
\* clock by a millisecond an id at most, so the time never leaves its bits.
IdInv ==
    /\ IdTypeOK
    /\ millis <= LastWall + made
    /\ newest # NoId => newest = millis * Counters + seq

\* A product is monotonic in its first factor, by whole factors.
LEMMA ProductGrows ==
    ASSUME NEW a \in Nat, NEW b \in Nat, NEW c \in Nat, a < b
    PROVE  b * c >= a * c + c
<1>1. PICK d \in Nat : b = a + 1 + d
  <2>1. b - a - 1 \in Nat /\ b = a + 1 + (b - a - 1)
    OBVIOUS
  <2> QED BY <2>1
<1>2. b * c = a * c + c + d * c
  BY <1>1
<1>3. d * c \in Nat
  OBVIOUS
<1> QED BY <1>2, <1>3

LEMMA ProductIsNatural ==
    ASSUME NEW a \in Nat, NEW b \in Nat
    PROVE  a * b \in Nat
OBVIOUS

\* What sorts on the product first, and on the counter within it.
LEMMA Sorts ==
    ASSUME NEW c \in Nat, NEW p \in Nat, NEW q \in Nat, NEW m \in 0..c - 1, NEW n \in 0..c - 1
    PROVE  /\ q + n \in Nat
           /\ q >= p + c => q + n > p + m
OBVIOUS

\* A time and a counter that fit their bits are packed without loss.
LEMMA PackedExactly ==
    ASSUME NEW ms \in Nat, ms < Millis, NEW n \in 0..Counters - 1
    PROVE  Packed(ms, n) = ms * Counters + n
<1>1. ms % Millis = ms
  BY IdAssumption
<1>2. n % Counters = n
  BY IdAssumption
<1> QED BY <1>1, <1>2 DEF Packed

\* The type invariant's strengthening, and the one step that matters: what tick
\* returns is later than what it returned before.
LEMMA NewIDStep ==
    ASSUME IdInv, NewID
    PROVE  IdInv' /\ newest' > newest
<1> USE IdAssumption DEF NoId
<1>1. millis \in Nat /\ seq \in 0..Counters - 1 /\ made \in Nat /\ made + 1 <= MaxIds
  BY DEF IdInv, IdTypeOK, NewID
<1>2. /\ millis' \in Nat /\ seq' \in 0..Counters - 1 /\ millis' <= LastWall + made'
      /\ \/ millis' = millis /\ seq' = seq + 1
         \/ millis < millis'
  BY <1>1 DEF IdInv, IdTypeOK, NewID, Tick
<1>3. newest' = millis' * Counters + seq'
  <2>1. millis' < Millis
    BY <1>1, <1>2 DEF NewID
  <2> QED BY <1>2, <2>1, PackedExactly DEF NewID
<1>4. Counters \in Nat /\ millis' * Counters \in Nat /\ millis * Counters \in Nat
  <2>1. Counters \in Nat
    OBVIOUS
  <2> QED BY <1>1, <1>2, <2>1, ProductIsNatural
<1>5. millis' * Counters + seq' > millis * Counters + seq
  <2>1. CASE millis' = millis /\ seq' = seq + 1
    BY <1>1, <1>4, <2>1
  <2>2. CASE millis < millis'
    <3>1. millis' * Counters >= millis * Counters + Counters
      BY <1>1, <1>2, <1>4, <2>2, ProductGrows
    <3> HIDE IdAssumption DEF NoId
    <3> QED BY <1>1, <1>2, <1>4, <3>1, Sorts
  <2> QED BY <1>2, <2>1, <2>2
<1>6. newest' \in Nat
  <2> HIDE IdAssumption DEF NoId
  <2> QED BY <1>2, <1>3, <1>4, Sorts
<1>7. newest' > newest
  <2>1. CASE newest = NoId
    BY <1>6, <2>1
  <2>2. CASE newest # NoId
    BY <1>3, <1>5, <2>2 DEF IdInv
  <2> QED BY <2>1, <2>2
<1>8. IdTypeOK'
  BY <1>1, <1>2, <1>6 DEF IdInv, IdTypeOK, NewID
<1>9. IdInv'
  BY <1>2, <1>3, <1>8 DEF IdInv
<1> QED BY <1>7, <1>9

\* What tick holds fits the bits of an id, always.
THEOREM IdTypeIsInvariant == IdSpec => []IdTypeOK
<1>1. IdInit => IdInv
  BY IdAssumption DEF IdInit, IdInv, IdTypeOK, NoId
<1>2. IdInv /\ [IdNext]_idVars => IdInv'
  <2> SUFFICES ASSUME IdInv, [IdNext]_idVars PROVE IdInv'
    OBVIOUS
  <2>1. CASE NewID
    BY <2>1, NewIDStep
  <2>2. CASE WallMoves
    BY <2>2 DEF WallMoves, IdInv, IdTypeOK
  <2>3. CASE UNCHANGED idVars
    BY <2>3 DEF idVars, IdInv, IdTypeOK
  <2> QED BY <2>1, <2>2, <2>3 DEF IdNext
<1>3. IdInv => IdTypeOK
  BY DEF IdInv
<1> QED BY <1>1, <1>2, <1>3, PTL DEF IdSpec

\* Ids sort in the order they were made, for every clock and every width.
THEOREM IdsAlwaysIncrease == IdSpec => IdsIncrease
<1>1. IdInit => IdInv
  BY IdAssumption DEF IdInit, IdInv, IdTypeOK, NoId
<1>2. IdInv /\ [IdNext]_idVars => IdInv' /\ [made' # made => newest' > newest]_idVars
  <2> SUFFICES ASSUME IdInv, [IdNext]_idVars
               PROVE  IdInv' /\ (made' # made => newest' > newest)
    OBVIOUS
  <2>1. CASE NewID
    BY <2>1, NewIDStep
  <2>2. CASE WallMoves
    BY <2>2 DEF WallMoves, IdInv, IdTypeOK
  <2>3. CASE UNCHANGED idVars
    BY <2>3 DEF idVars, IdInv, IdTypeOK
  <2> QED BY <2>1, <2>2, <2>3 DEF IdNext
<1> QED BY <1>1, <1>2, PTL DEF IdSpec, IdsIncrease

-----------------------------------------------------------------------------
(* Filters.                                                                 *)

\* Every reachable state is typed.
THEOREM FilterTypeIsInvariant == FilterSpec => []FilterTypeOK
<1>1. FilterInit => FilterTypeOK
  BY DEF FilterInit, FilterTypeOK
<1>2. FilterTypeOK /\ [FilterNext]_filterVars => FilterTypeOK'
  <2> SUFFICES ASSUME FilterTypeOK, [FilterNext]_filterVars PROVE FilterTypeOK'
    OBVIOUS
  <2>1. CASE Insert
    <3>1. row' = [f \in Fields |-> Absent] /\ UNCHANGED <<promoted, collation>>
      BY <2>1 DEF Insert
    <3>2. row' \in Rows
      <4>1. \A f \in Fields : row'[f] \in ValuesOf(f) \cup {NullValue, Absent}
        BY <3>1
      <4>2. row' \in [Fields -> (UNION {ValuesOf(f) : f \in Fields}) \cup {NullValue, Absent}]
        BY <3>1
      <4> QED BY <4>1, <4>2 DEF Rows
    <3> QED BY <3>1, <3>2 DEF FilterTypeOK
  <2>2. ASSUME NEW f \in Fields, NEW v \in ValuesOf(f) \cup {NullValue, Absent}, PutField(f, v)
        PROVE  FilterTypeOK'
    <3>1. row \in Rows /\ row' = [row EXCEPT ![f] = v] /\ UNCHANGED <<promoted, collation>>
      BY <2>2 DEF PutField, FilterTypeOK
    <3>2. row' \in Rows
      <4> DEFINE V == (UNION {ValuesOf(g) : g \in Fields}) \cup {NullValue, Absent}
      <4>1. row \in [Fields -> V] /\ \A g \in Fields : row[g] \in ValuesOf(g) \cup {NullValue, Absent}
        BY <3>1 DEF Rows
      <4>2. v \in V
        BY <2>2
      <4> HIDE DEF V
      <4>3. row' \in [Fields -> V]
        BY <3>1, <4>1, <4>2
      <4>4. \A g \in Fields : row'[g] \in ValuesOf(g) \cup {NullValue, Absent}
        BY <2>2, <3>1, <4>1
      <4> USE DEF V
      <4> QED BY <4>3, <4>4 DEF Rows
    <3> QED BY <3>1, <3>2 DEF FilterTypeOK
  <2>3. CASE UNCHANGED filterVars
    BY <2>3 DEF filterVars, FilterTypeOK
  <2> QED BY <2>1, <2>2, <2>3 DEF FilterNext
<1> QED BY <1>1, <1>2, PTL DEF FilterSpec

-----------------------------------------------------------------------------
(* The three-valued logic, as far as it reaches an answer.                  *)

Truths == {"T", "F", "U"}

LEMMA OrIsTrue  == ASSUME NEW s PROVE Or(s) = "T" <=> "T" \in s
BY DEF Or

LEMMA AndIsTrue == ASSUME NEW s \in SUBSET Truths PROVE And(s) = "T" <=> \A b \in s : b = "T"
BY DEF And, Truths

LEMMA SqlIsTrue == ASSUME NEW b \in BOOLEAN PROVE Sql(b) \in Truths /\ (Sql(b) = "T" <=> b)
BY DEF Sql, Truths

LEMMA TruthTables ==
    /\ \A s \in SUBSET Truths : Or(s) \in Truths /\ And(s) \in Truths
    /\ \A b \in Truths : Not(b) \in Truths /\ (Not(b) = "T" <=> b = "F")
BY DEF Or, And, Not, Truths

-----------------------------------------------------------------------------
\* What a field may have, and what an engine makes of it: the values of a field stay apart,
\* and apart from NULL.
LEMMA ExtractedValues ==
    ASSUME NEW f \in Fields, NEW e \in SqlEngines, NEW columns,
           NEW v \in ValuesOf(f) \cup {NullValue, Absent}, NEW a \in ValuesOf(f)
    PROVE  /\ v \in ValuesOf(f) => Extracted(e, f \in columns, v) = Bound(e, v)
           /\ v \notin ValuesOf(f) => Extracted(e, f \in columns, v) \in {NULL, NullValue}
           /\ Bound(e, a) \notin {NULL, NullValue}
           /\ \A b \in ValuesOf(f) : Bound(e, a) = Bound(e, b) <=> a = b
           /\ a \notin {NULL, NullValue, Absent}
           /\ Bound(e, a).rank = a.rank
           /\ \A b \in ValuesOf(f) : Bound(e, a).type = Bound(e, b).type
<1>1. TypeOf[f] \in {"num", "text", "bool"}
  BY FilterAssumption DEF Scalar
<1>2. \A b \in ValuesOf(f) : b = [type |-> TypeOf[f], rank |-> b.rank]
  BY DEF ValuesOf
<1>3. a \notin {NULL, NullValue, Absent}
  BY <1>1, <1>2 DEF NULL, NullValue, Absent
<1>4. \A b \in ValuesOf(f) : Bound(e, b) = [type |-> Bound(e, a).type, rank |-> b.rank]
  BY <1>1, <1>2 DEF Bound, Pushed
<1>5. Bound(e, a).type \in {"num", "text", "bool"}
  BY <1>1, <1>2 DEF Bound, Pushed
<1>6. v \in ValuesOf(f) => Extracted(e, f \in columns, v) = Bound(e, v)
  BY <1>1, <1>2 DEF Extracted, PgTarget, SqliteTarget, Missing, Bound, NullValue, Absent
<1>7. v \notin ValuesOf(f) => Extracted(e, f \in columns, v) \in {NULL, NullValue}
  BY DEF Extracted, PgTarget, SqliteTarget, Pushed, Missing, NullValue, Absent
<1>8. Bound(e, a) \notin {NULL, NullValue}
  BY <1>4, <1>5 DEF NULL, NullValue
<1>9. \A b \in ValuesOf(f) : Bound(e, a) = Bound(e, b) <=> a = b
  BY <1>2, <1>4
<1> QED BY <1>3, <1>4, <1>6, <1>7, <1>8, <1>9

LEMMA ArgOf == ASSUME NEW c, NEW a, c.args = {a} PROVE Arg(c) = a
BY DEF Arg

\* What a condition is, by its operator.
LEMMA Conditions ==
    ASSUME NEW f \in Fields, NEW c \in ConditionsOn(f)
    PROVE  \/ c.op \in {"$eq", "$ne"} /\ Arg(c) \in ValuesOf(f) \cup {NullValue}
           \/ c.op \in Ranges /\ Arg(c) \in ValuesOf(f)
           \/ c.op \in {"$in", "$nin"} /\ c.args \in SUBSET (ValuesOf(f) \cup {NullValue})
           \/ c.op \in {"$exists", "$missing"}
<1>1. CASE c \in [op : {"$eq", "$ne"}, args : {{v} : v \in ValuesOf(f) \cup {NullValue}}]
  BY <1>1, ArgOf
<1>2. CASE c \in [op : Ranges, args : {{v} : v \in ValuesOf(f)}]
  BY <1>2, ArgOf
<1>3. CASE c \in [op : {"$in", "$nin"}, args : SUBSET (ValuesOf(f) \cup {NullValue})]
  BY <1>3
<1>4. CASE c \in [op : {"$exists", "$missing"}, args : {{}}]
  BY <1>4
<1> QED BY <1>1, <1>2, <1>3, <1>4 DEF ConditionsOn

\* $eq and $ne: a missing value is null, and no value.
LEMMA EqualityAgrees ==
    ASSUME NEW f \in Fields, NEW e \in SqlEngines, NEW columns,
           NEW v \in ValuesOf(f) \cup {NullValue, Absent}, NEW c \in ConditionsOn(f),
           c.op \in {"$eq", "$ne"}
    PROVE  SqlMatches(e, f \in columns, v, c) = "T" <=> MemMatches(v, c)
<1> DEFINE x == Extracted(e, f \in columns, v)
           y == Bound(e, Arg(c))
<1>1. Arg(c) \in ValuesOf(f) \cup {NullValue}
  BY Conditions DEF Ranges
<1>2. /\ c.op = "$eq" => SqlMatches(e, f \in columns, v, c) =
                           IF Arg(c) = NullValue THEN NullMatch(x) ELSE EqualTo(x, y)
      /\ c.op = "$ne" => SqlMatches(e, f \in columns, v, c) =
                           IF Arg(c) = NullValue THEN Not(NullMatch(x)) ELSE IsNot(x, y)
  <2>1. CASE c.op = "$eq"
    BY <2>1 DEF SqlMatches, Ranges
  <2>2. CASE c.op = "$ne"
    BY <2>2 DEF SqlMatches, Ranges
  <2> QED BY <2>1, <2>2
<1>3. /\ c.op = "$eq" => (MemMatches(v, c) <=> Equal(v, Arg(c)))
      /\ c.op = "$ne" => (MemMatches(v, c) <=> ~Equal(v, Arg(c)))
  <2>1. CASE c.op = "$eq"
    BY <2>1 DEF MemMatches, Ranges
  <2>2. CASE c.op = "$ne"
    BY <2>2 DEF MemMatches, Ranges
  <2> QED BY <2>1, <2>2
<1>4. /\ v \in ValuesOf(f) => v \notin {NULL, NullValue, Absent} /\ x = Bound(e, v)
                              /\ x \notin {NULL, NullValue}
      /\ v \notin ValuesOf(f) => x \in {NULL, NullValue} /\ v \in {NullValue, Absent}
  <2>1. CASE v \in ValuesOf(f)
    BY <2>1, ExtractedValues
  <2>2. CASE v \notin ValuesOf(f)
    BY <2>2 DEF Extracted, PgTarget, SqliteTarget, Pushed, Missing, NullValue, Absent
  <2> QED BY <2>1, <2>2
<1> HIDE DEF x, y
<1>5. CASE Arg(c) = NullValue
  <2>1. (NullMatch(x) = "T" <=> x \in {NULL, NullValue}) /\ (Not(NullMatch(x)) = "T" <=> x \notin {NULL, NullValue})
    BY DEF NullMatch, Or, Not, IsNull, EqualTo, Sql, NULL, NullValue
  <2>2. Equal(v, Arg(c)) <=> v \in {NullValue, Absent}
    BY <1>5 DEF Equal, Missing
  <2> QED BY <1>2, <1>3, <1>4, <1>5, <2>1, <2>2
<1>6. CASE Arg(c) # NullValue
  <2>1. Arg(c) \in ValuesOf(f) /\ y \notin {NULL, NullValue}
    BY <1>1, <1>6, ExtractedValues DEF y
  <2>2. x = y <=> v = Arg(c)
    <3>1. CASE v \in ValuesOf(f)
      BY <1>4, <2>1, <3>1, ExtractedValues DEF y
    <3>2. CASE v \notin ValuesOf(f)
      BY <1>4, <2>1, <3>2
    <3> QED BY <3>1, <3>2
  <2>3. (EqualTo(x, y) = "T" <=> x = y) /\ (IsNot(x, y) = "T" <=> x # y)
    BY <2>1 DEF EqualTo, IsNot, Sql
  <2>4. Equal(v, Arg(c)) <=> v = Arg(c)
    BY <1>6 DEF Equal
  <2> QED BY <1>2, <1>3, <1>6, <2>2, <2>3, <2>4
<1> QED BY <1>5, <1>6

\* A collation puts two values of one field the same way round or the other, and never as one.
LEMMA EitherWay ==
    ASSUME collation \in Collations, NEW f \in Fields, NEW e \in SqlEngines,
           NEW a \in ValuesOf(f), NEW b \in ValuesOf(f)
    PROVE  /\ Order(a.rank, b.rank) \in {-1, 0, 1}
           /\ SqlOrder(e, Bound(e, a), Bound(e, b)) =
                 IF Reordered(e, a, b) THEN 0 - Order(a.rank, b.rank) ELSE Order(a.rank, b.rank)
           /\ Reordered(e, a, b) => Order(a.rank, b.rank) \in {-1, 1}
<1> DEFINE m == a.rank
           n == b.rank
           x == Bound(e, a)
           y == Bound(e, b)
<1>1. /\ a.type = TypeOf[f] /\ b.type = TypeOf[f] /\ m \in Ranks /\ n \in Ranks
      /\ m \in Int /\ n \in Int
  BY FilterAssumption DEF ValuesOf
<1>2. x.type = y.type /\ x.rank = m /\ y.rank = n
  BY ExtractedValues
<1>3. e = "pg" => x = a /\ y = b
  BY DEF Bound
<1>4. /\ collation[m] \in Int /\ collation[n] \in Int
      /\ collation[m] = collation[n] => m = n
  BY <1>1, FilterAssumption DEF Collations
<1>5. SqlOrder(e, x, y) = IF e = "pg" /\ x.type = "text" THEN Order(collation[m], collation[n])
                          ELSE Order(m, n)
  BY <1>2 DEF SqlOrder, Collated
<1>6. Reordered(e, a, b) <=> /\ e = "pg" /\ x.type = "text"
                             /\ Order(collation[m], collation[n]) # Order(m, n)
  BY <1>1, <1>3 DEF Reordered
<1> DEFINE g == collation[m]
           h == collation[n]
<1>7. /\ Order(m, n) \in {-1, 0, 1}
      /\ Order(g, h) # Order(m, n) => Order(m, n) \in {-1, 1} /\ Order(g, h) = 0 - Order(m, n)
  <2> HIDE DEF g, h
  <2>1. g \in Int /\ h \in Int /\ (g = h => m = n) /\ (m = n => g = h)
    BY <1>4 DEF g, h
  <2> HIDE DEF m, n
  <2> QED
    BY <1>1, <2>1 DEF Order
<1> HIDE DEF x, y, m, n
<1> QED
  BY <1>5, <1>6, <1>7 DEF x, y, m, n

\* The ranges compare values of one type, and nothing else, but for pg's null.
LEMMA RangesAgree ==
    ASSUME FilterTypeOK, NEW f \in Fields, NEW e \in SqlEngines, row \in Rows,
           NEW c \in ConditionsOn(f), c.op \in Ranges
    PROVE  (Selects(e, f, c) <=> MemMatches(row[f], c)) <=> ~Differs(e, f, c)
<1> DEFINE v == row[f]
           a == Arg(c)
           x == Extracted(e, f \in promoted, v)
           y == Bound(e, a)
<1>1. a \in ValuesOf(f) /\ v \in ValuesOf(f) \cup {NullValue, Absent} /\ collation \in Collations
  BY Conditions DEF Ranges, Rows, FilterTypeOK
<1>2. Selects(e, f, c) <=> x # NULL /\ InRange(c.op, SqlOrder(e, x, y))
  <2>1. SqlMatches(e, f \in promoted, v, c) =
           IF x = NULL THEN "U" ELSE Sql(InRange(c.op, SqlOrder(e, x, y)))
    BY DEF SqlMatches, Ranges
  <2> HIDE DEF x, y
  <2> QED
    BY <2>1 DEF Sql, Selects
<1>3. MemMatches(v, c) <=> v.type = a.type /\ InRange(c.op, Order(v.rank, a.rank))
  BY DEF MemMatches, Ranges
<1>4. Differs(e, f, c) <=> Reordered(e, v, a) \/ (ComparesNull(e, f, row) /\ c.op \in {"$lt", "$lte"})
  BY DEF Differs
<1>5. CASE v \in ValuesOf(f)
  <2> DEFINE o == Order(v.rank, a.rank)
             p == SqlOrder(e, x, y)
  <2>1. x = Bound(e, v) /\ x # NULL /\ v.type = a.type /\ v # NullValue
    <3>1. v.type = a.type
      BY <1>1, <1>5 DEF ValuesOf
    <3> QED
      BY <1>1, <1>5, <3>1, ExtractedValues
  <2>2. /\ o \in {-1, 0, 1} /\ p = (IF Reordered(e, v, a) THEN 0 - o ELSE o)
        /\ Reordered(e, v, a) => o \in {-1, 1}
    BY <1>1, <1>5, <2>1, EitherWay
  <2>3. ~ComparesNull(e, f, row)
    BY <2>1 DEF ComparesNull
  <2> HIDE DEF o, p
  <2>4. (InRange(c.op, p) <=> InRange(c.op, o)) <=> ~Reordered(e, v, a)
    <3>1. CASE Reordered(e, v, a)
      BY <2>2, <3>1 DEF InRange, Ranges
    <3>2. CASE ~Reordered(e, v, a)
      BY <2>2, <3>2
    <3> QED
      BY <3>1, <3>2
  <2> QED
    BY <1>2, <1>3, <1>4, <2>1, <2>3, <2>4 DEF o, p
<1>6. CASE v \notin ValuesOf(f)
  <2>1. v \in {NullValue, Absent}
    BY <1>1, <1>6
  <2>2. a.type \in Scalar /\ y.type \in Scalar /\ v.type \notin Scalar
    BY <1>1, <2>1, FilterAssumption DEF ValuesOf, NullValue, Absent, Scalar, Bound, Pushed
  <2>3. ~MemMatches(v, c) /\ ~Reordered(e, v, a)
    BY <1>3, <2>2 DEF Reordered, Scalar
  <2>4. CASE ComparesNull(e, f, row)
    <3>1. x = NullValue /\ x # NULL
      BY <2>4 DEF ComparesNull, Extracted, PgTarget, NullValue, Absent, NULL
    <3>2. SqlOrder(e, x, y) = -1
      <4>1. /\ x.type = "null" /\ y.type \in Scalar /\ Class(e, "null") = 0
            /\ Class(e, y.type) \in {1, 2, 3}
        BY <2>2, <3>1 DEF NullValue, Class, Scalar
      <4> QED
        BY <4>1 DEF SqlOrder, Order, Scalar
    <3>3. InRange(c.op, -1) <=> c.op \in {"$lt", "$lte"}
      <4> DEFINE o == -1
      <4>1. o < 0 /\ o <= 0 /\ ~(o > 0) /\ ~(o >= 0)
        OBVIOUS
      <4> HIDE DEF o
      <4>2. InRange(c.op, o) <=> c.op \in {"$lt", "$lte"}
        BY <4>1 DEF InRange, Ranges
      <4> QED
        BY <4>2 DEF o
    <3> HIDE DEF x, y
    <3> QED
      BY <1>2, <1>4, <2>3, <2>4, <3>1, <3>2, <3>3
  <2>5. CASE ~ComparesNull(e, f, row)
    <3>1. x = NULL
      BY <2>1, <2>5 DEF ComparesNull, Extracted, PgTarget, SqliteTarget, Pushed, Missing, NullValue,
                        Absent, SqlEngines
    <3> QED
      BY <1>2, <1>4, <2>3, <2>5, <3>1
  <2> QED
    BY <2>4, <2>5
<1> QED BY <1>5, <1>6

\* $in and $nin, of an empty list, a null alone, or both kinds.
LEMMA MembershipAgrees ==
    ASSUME NEW f \in Fields, NEW e \in SqlEngines, NEW columns,
           NEW v \in ValuesOf(f) \cup {NullValue, Absent}, NEW c \in ConditionsOn(f),
           c.op \in {"$in", "$nin"}
    PROVE  SqlMatches(e, f \in columns, v, c) = "T" <=> MemMatches(v, c)
<1> DEFINE x       == Extracted(e, f \in columns, v)
           ys      == Bounds(e, c)
           hasNull == NullValue \in c.args
           listed  == v \in c.args \ {NullValue}
<1>1. c.args \in SUBSET (ValuesOf(f) \cup {NullValue})
  BY Conditions DEF Ranges
<1>2. SqlMatches(e, f \in columns, v, c) = Membership(x, c.op, ys, hasNull)
  BY DEF SqlMatches, Ranges
<1>3. /\ v \in ValuesOf(f) => v \notin {NULL, NullValue, Absent} /\ x = Bound(e, v)
                              /\ x \notin {NULL, NullValue}
      /\ v \notin ValuesOf(f) => x \in {NULL, NullValue} /\ v \in {NullValue, Absent}
  <2>1. CASE v \in ValuesOf(f)
    BY <2>1, ExtractedValues
  <2>2. CASE v \notin ValuesOf(f)
    BY <2>2 DEF Extracted, PgTarget, SqliteTarget, Pushed, Missing, NullValue, Absent
  <2> QED BY <2>1, <2>2
<1>4. \A a \in c.args \ {NullValue} : a \in ValuesOf(f) /\ Bound(e, a) \notin {NULL, NullValue}
  BY <1>1, ExtractedValues
<1>5. x \in ys <=> listed
  <2>1. CASE v \in ValuesOf(f)
    <3>1. \A a \in c.args \ {NullValue} : Bound(e, a) = Bound(e, v) <=> a = v
      BY <1>4, <2>1, ExtractedValues
    <3>2. x = Bound(e, v)
      BY <1>3, <2>1
    <3> HIDE DEF x
    <3> QED BY <1>3, <2>1, <3>1, <3>2 DEF Bounds
  <2>2. CASE v \notin ValuesOf(f)
    <3> HIDE DEF x
    <3> QED BY <1>3, <1>4, <2>2 DEF Bounds
  <2> QED BY <2>1, <2>2
<1>6. /\ Missing(v) <=> x \in {NULL, NullValue}
      /\ listed => x # NULL /\ ys # {}
  <2>1. Missing(v) <=> x \in {NULL, NullValue}
    <3> HIDE DEF x
    <3> QED BY <1>3 DEF Missing
  <2>2. ASSUME listed PROVE x # NULL /\ ys # {}
    <3>1. v \in ValuesOf(f)
      BY <1>4, <2>2
    <3> HIDE DEF x, ys
    <3> QED BY <1>3, <1>5, <2>2, <3>1
  <2> QED BY <2>1, <2>2
<1> HIDE DEF x, ys
<1>7. /\ IsIn(x, ys) = "T" <=> x # NULL /\ x \in ys
      /\ Not(IsIn(x, ys)) = "T" <=> x # NULL /\ x \notin ys
      /\ IsIn(x, ys) \in Truths /\ Not(IsIn(x, ys)) \in Truths
  BY DEF IsIn, Not, Sql, Truths
<1>8. /\ NullMatch(x) = "T" <=> x \in {NULL, NullValue}
      /\ Not(NullMatch(x)) = "T" <=> x \notin {NULL, NullValue}
      /\ NullMatch(x) \in Truths /\ Not(NullMatch(x)) \in Truths
  BY DEF NullMatch, Or, Not, IsNull, EqualTo, Sql, NULL, NullValue, Truths
<1>9. CASE c.op = "$in"
  <2>1. Membership(x, c.op, ys, hasNull) = "T"
            <=> (ys # {} /\ IsIn(x, ys) = "T") \/ (hasNull /\ NullMatch(x) = "T")
    BY <1>9, OrIsTrue DEF Membership
  <2>2. MemMatches(v, c) <=> \E a \in c.args : Equal(v, a)
    BY <1>9 DEF MemMatches, Ranges
  <2>3. (\E a \in c.args : Equal(v, a)) <=> listed \/ (hasNull /\ Missing(v))
    BY DEF Equal
  <2> HIDE DEF listed, hasNull
  <2> QED BY <1>2, <1>5, <1>6, <1>7, <1>8, <2>1, <2>2, <2>3
<1>10. CASE c.op = "$nin"
  <2>1. /\ NotIn(x, ys, hasNull) \in Truths
        /\ NotIn(x, ys, hasNull) = "T" <=> x \notin ys /\ (hasNull => x # NULL)
    <3>1. CASE hasNull
      BY <1>5, <1>6, <1>7, <3>1 DEF NotIn
    <3>2. CASE ~hasNull
      <4>1. NotIn(x, ys, hasNull) = Or({IsNull(x), Not(IsIn(x, ys))})
        BY <3>2 DEF NotIn
      <4>2. IsNull(x) \in Truths /\ (IsNull(x) = "T" <=> x = NULL)
        BY SqlIsTrue DEF IsNull
      <4>3. Or({IsNull(x), Not(IsIn(x, ys))}) \in Truths
        BY <1>7, <4>2, TruthTables
      <4>4. x = NULL => x \notin ys
        BY <1>5, <1>6
      <4> QED BY <1>7, <3>2, <4>1, <4>2, <4>3, <4>4, OrIsTrue
    <3> QED BY <3>1, <3>2
  <2> DEFINE parts == (IF ys # {} THEN {NotIn(x, ys, hasNull)} ELSE {})
                          \cup (IF hasNull THEN {Not(NullMatch(x))} ELSE {})
  <2>2. Membership(x, c.op, ys, hasNull) = And(parts)
    BY <1>10 DEF Membership
  <2>3. parts \in SUBSET Truths
    BY <1>8, <2>1
  <2>4. And(parts) = "T" <=> \A b \in parts : b = "T"
    BY <2>3, AndIsTrue
  <2>5. (\A b \in parts : b = "T") <=> /\ (ys # {} => NotIn(x, ys, hasNull) = "T")
                                      /\ (hasNull => Not(NullMatch(x)) = "T")
    <3> HIDE DEF hasNull
    <3> QED OBVIOUS
  <2>6. MemMatches(v, c) <=> \A a \in c.args : ~Equal(v, a)
    BY <1>10 DEF MemMatches, Ranges
  <2>7. (\A a \in c.args : ~Equal(v, a)) <=> ~listed /\ ~(hasNull /\ Missing(v))
    BY DEF Equal
  <2> HIDE DEF listed, hasNull, parts
  <2> QED BY <1>2, <1>5, <1>6, <1>8, <2>1, <2>2, <2>4, <2>5, <2>6, <2>7
<1> QED BY <1>9, <1>10

\* $exists and $missing are asked of the document itself.
LEMMA ExistenceAgrees ==
    ASSUME NEW e, NEW f, NEW columns, NEW v, NEW c, c.op \in {"$exists", "$missing"}
    PROVE  SqlMatches(e, f \in columns, v, c) = "T" <=> MemMatches(v, c)
<1>1. CASE c.op = "$exists"
  BY <1>1 DEF SqlMatches, MemMatches, Ranges, Sql, Present, Not
<1>2. CASE c.op = "$missing"
  BY <1>2 DEF SqlMatches, MemMatches, Ranges, Sql, Present, Not
<1> QED BY <1>1, <1>2

-----------------------------------------------------------------------------
\* A condition selects a row on every backend or on none, whatever values there are, unless it is a
\* range and an order of pg's own decides it.
LEMMA ConditionsHold == FilterTypeOK => ConditionsAgree
<1> SUFFICES ASSUME FilterTypeOK, NEW f \in DOMAIN row, NEW c \in ConditionsOn(f), NEW e \in SqlEngines
             PROVE  (Selects(e, f, c) <=> MemMatches(row[f], c)) <=> ~Differs(e, f, c)
  BY DEF ConditionsAgree
<1>1. row \in Rows
  BY DEF FilterTypeOK, NoDocument
<1>2. f \in Fields /\ row[f] \in ValuesOf(f) \cup {NullValue, Absent}
  BY <1>1 DEF Rows
<1>3. \/ c.op \in {"$eq", "$ne"} \/ c.op \in Ranges \/ c.op \in {"$in", "$nin"}
      \/ c.op \in {"$exists", "$missing"}
  BY <1>2, Conditions
<1>4. CASE c.op \in Ranges
  BY <1>1, <1>2, <1>4, RangesAgree
<1>5. CASE c.op \notin Ranges
  <2>1. ~Differs(e, f, c)
    BY <1>5 DEF Differs
  <2>2. SqlMatches(e, f \in promoted, row[f], c) = "T" <=> MemMatches(row[f], c)
    <3>1. CASE c.op \in {"$eq", "$ne"}
      BY <1>2, <3>1, EqualityAgrees
    <3>2. CASE c.op \in {"$in", "$nin"}
      BY <1>2, <3>2, MembershipAgrees
    <3>3. CASE c.op \in {"$exists", "$missing"}
      BY <3>3, ExistenceAgrees
    <3> QED
      BY <1>3, <1>5, <3>1, <3>2, <3>3
  <2> QED
    BY <2>1, <2>2 DEF Selects
<1> QED BY <1>4, <1>5

\* What a sort compares.
LEMMA SortKeys ==
    ASSUME NEW f \in Fields, NEW e \in SqlEngines, NEW columns,
           NEW v \in ValuesOf(f) \cup {NullValue, Absent},
           ~(e = "pg" /\ f \notin columns /\ v = NullValue)
    PROVE  /\ Missing(v) <=> v \notin ValuesOf(f)
           /\ Missing(v) <=> Extracted(e, f \in columns, v) = NULL
           /\ ~Missing(v) => Extracted(e, f \in columns, v) = Bound(e, v) /\ Bound(e, v).rank = v.rank
<1>1. CASE v \in ValuesOf(f)
  <2>1. v \notin {NULL, NullValue, Absent} /\ Bound(e, v) # NULL /\ Bound(e, v).rank = v.rank
    BY <1>1, ExtractedValues
  <2>2. Extracted(e, f \in columns, v) = Bound(e, v)
    BY <1>1, ExtractedValues
  <2> QED BY <1>1, <2>1, <2>2 DEF Missing
<1>2. CASE v \notin ValuesOf(f)
  <2>1. v \in {NullValue, Absent} /\ Missing(v)
    BY <1>2 DEF Missing
  <2>2. Extracted(e, f \in columns, v) = NULL
    BY <2>1 DEF Extracted, PgTarget, SqliteTarget, Pushed, Missing, NullValue, Absent, SqlEngines
  <2> QED BY <1>2, <2>1, <2>2
<1> QED BY <1>1, <1>2

\* And does not mind whether a value is missing as null or as no key.
LEMMA SortsHold == FilterTypeOK => SortsAgree
<1> SUFFICES ASSUME FilterTypeOK, NEW f \in DOMAIN row, NEW other \in Rows,
                    NEW desc \in BOOLEAN, NEW e \in SqlEngines,
                    ~ComparesNull(e, f, row), ~ComparesNull(e, f, other)
             PROVE  (SqlLess(e, f \in promoted, row, other, f, desc) <=> MemLess(row, other, f, desc))
                       <=> ~Reordered(e, row[f], other[f])
  BY DEF SortsAgree
<1> DEFINE a == row[f]
           b == other[f]
           x == Extracted(e, f \in promoted, a)
           y == Extracted(e, f \in promoted, b)
<1>1. row \in Rows /\ collation \in Collations
  BY DEF FilterTypeOK, NoDocument
<1>2. /\ f \in Fields /\ a \in ValuesOf(f) \cup {NullValue, Absent}
      /\ b \in ValuesOf(f) \cup {NullValue, Absent}
  BY <1>1 DEF Rows
<1>3. /\ Missing(a) <=> a \notin ValuesOf(f)
      /\ Missing(a) <=> x = NULL
      /\ ~Missing(a) => x = Bound(e, a) /\ Bound(e, a).rank = a.rank
  BY <1>2, SortKeys DEF ComparesNull
<1>4. /\ Missing(b) <=> b \notin ValuesOf(f)
      /\ Missing(b) <=> y = NULL
      /\ ~Missing(b) => y = Bound(e, b) /\ Bound(e, b).rank = b.rank
  BY <1>2, SortKeys DEF ComparesNull
<1>5. ~Missing(a) /\ ~Missing(b) =>
         /\ Order(a.rank, b.rank) \in {-1, 0, 1}
         /\ SqlOrder(e, x, y) =
               IF Reordered(e, a, b) THEN 0 - Order(a.rank, b.rank) ELSE Order(a.rank, b.rank)
         /\ Reordered(e, a, b) => Order(a.rank, b.rank) \in {-1, 1}
  BY <1>1, <1>2, <1>3, <1>4, EitherWay
<1>6. SqlLess(e, f \in promoted, row, other, f, desc)
         <=> IF (x = NULL) # (y = NULL) THEN (y = NULL) # desc
             ELSE x # NULL /\ SqlOrder(e, x, y) = (IF desc THEN 1 ELSE -1)
  BY DEF SqlLess, SortKey
<1>7. MemLess(row, other, f, desc)
         <=> IF Missing(a) # Missing(b) THEN Missing(b) # desc
             ELSE ~Missing(a) /\ Order(a.rank, b.rank) = (IF desc THEN 1 ELSE -1)
  BY DEF MemLess
<1>8. Missing(a) \in BOOLEAN /\ Missing(b) \in BOOLEAN
  BY DEF Missing
<1>9. Missing(a) \/ Missing(b) => ~Reordered(e, a, b)
  BY DEF Missing, Reordered, NullValue, Absent
<1> DEFINE o == Order(a.rank, b.rank)
           p == SqlOrder(e, x, y)
           way == IF desc THEN 1 ELSE -1
<1>10. ~Missing(a) /\ ~Missing(b) => ((p = way <=> o = way) <=> ~Reordered(e, a, b))
  <2>1. way \in {-1, 1}
    OBVIOUS
  <2>2. ~Missing(a) /\ ~Missing(b) =>
           /\ o \in {-1, 0, 1} /\ p = (IF Reordered(e, a, b) THEN 0 - o ELSE o)
           /\ Reordered(e, a, b) => o \in {-1, 1}
    BY <1>5
  <2> HIDE DEF o, p, way, a, b
  <2> QED
    BY <2>1, <2>2
<1> HIDE DEF x, y, a, b, o, p, way
<1>11. /\ SqlLess(e, f \in promoted, row, other, f, desc)
             <=> IF (x = NULL) # (y = NULL) THEN (y = NULL) # desc ELSE x # NULL /\ p = way
       /\ MemLess(row, other, f, desc)
             <=> IF Missing(a) # Missing(b) THEN Missing(b) # desc ELSE ~Missing(a) /\ o = way
  BY <1>6, <1>7 DEF o, p, way
<1>12. (SqlLess(e, f \in promoted, row, other, f, desc) <=> MemLess(row, other, f, desc))
          <=> ~Reordered(e, a, b)
  BY <1>3, <1>4, <1>8, <1>9, <1>10, <1>11
<1> QED BY <1>12 DEF a, b

\* So a query is answered alike by the memory backend and by both compilers, whatever collation pg's
\* database has, and otherwise exactly where an order of pg's own decides.
THEOREM QueriesDifferByOrder == FilterSpec => []BackendsDifferByOrder
<1>1. FilterTypeOK => BackendsDifferByOrder
  BY ConditionsHold, SortsHold DEF BackendsDifferByOrder
<1> QED BY <1>1, FilterTypeIsInvariant, PTL

\* And so are all filters made with $and and $or, at any size, of conditions that are answered alike,
\* which no run enumerates: "unknown" never shows, since no filter negates one.
THEOREM WholeFiltersAgree == FilterSpec => []FiltersAgree
<1>1. FilterTypeOK => FiltersAgree
  <2> SUFFICES ASSUME FilterTypeOK, NEW where \in SUBSET SUBSET Atoms, NEW e \in SqlEngines,
                      row # NoDocument,
                      \A clause \in where : \A a \in clause : ~Differs(e, a.field, a.cond)
               PROVE  SqlPasses(e, promoted, row, where) <=> MemPasses(row, where)
    BY DEF FiltersAgree
  <2> DEFINE atom(a)   == SqlMatches(e, a.field \in promoted, row[a.field], a.cond)
             clause(s) == Or({atom(a) : a \in s})
  <2>1. row \in Rows /\ DOMAIN row = Fields
    BY DEF FilterTypeOK, Rows
  <2>2. ASSUME NEW s \in where, NEW a \in s
        PROVE  atom(a) = "T" <=> MemMatches(row[a.field], a.cond)
    <3>1. PICK f \in Fields : a \in [field : {f}, cond : ConditionsOn(f)]
      BY <2>2 DEF Atoms
    <3>2. a.field = f /\ a.cond \in ConditionsOn(f)
      BY <3>1
    <3>3. ConditionsAgree
      BY ConditionsHold
    <3>4. ~Differs(e, f, a.cond)
      BY <2>2, <3>2
    <3> QED BY <2>1, <3>2, <3>3, <3>4 DEF ConditionsAgree, Selects
  <2>3. \A s \in where : clause(s) = "T" <=> \E a \in s : MemMatches(row[a.field], a.cond)
    <3> SUFFICES ASSUME NEW s \in where
                 PROVE  clause(s) = "T" <=> \E a \in s : MemMatches(row[a.field], a.cond)
      OBVIOUS
    <3>1. clause(s) = "T" <=> "T" \in {atom(a) : a \in s}
      BY OrIsTrue
    <3>2. "T" \in {atom(a) : a \in s} <=> \E a \in s : atom(a) = "T"
      OBVIOUS
    <3> HIDE DEF atom
    <3> QED BY <2>2, <3>1, <3>2
  <2>4. {clause(s) : s \in where} \in SUBSET Truths
    BY DEF Or, Truths
  <2>5. SqlPasses(e, promoted, row, where) <=> And({clause(s) : s \in where}) = "T"
    BY DEF SqlPasses, SqlClause
  <2> HIDE DEF clause
  <2>6. And({clause(s) : s \in where}) = "T" <=> \A s \in where : clause(s) = "T"
    BY <2>4, AndIsTrue
  <2> QED BY <2>3, <2>5, <2>6 DEF MemPasses
<1> QED BY <1>1, FilterTypeIsInvariant, PTL

-----------------------------------------------------------------------------
(* Patches and paths.                                                       *)

\* A path's prefixes are in a row.
LEMMA PrefixIs ==
    ASSUME NEW p \in Paths, NEW q \in Prefixes(p)
    PROVE  /\ p \in Seq(STRING) /\ q \in Seq(STRING) /\ q \in Paths /\ Len(p) \in Nat /\ Len(q) \in 1..Len(p)
           /\ q = SubSeq(p, 1, Len(q)) /\ \A i \in 1..Len(q) : q[i] = p[i]
PROOF
<1>1. p \in Seq(STRING) /\ Len(p) \in Nat /\ Prefixes(p) \subseteq Paths
  BY PathAssumption, LenProperties
<1>2. PICK n \in 1..Len(p) : q = SubSeq(p, 1, n)
  BY DEF Prefixes
<1>3. \A i \in 1..n : p[i] \in STRING
  BY <1>1, ElementOfSeq
<1>4. /\ SubSeq(p, 1, n) \in Seq(STRING) /\ Len(SubSeq(p, 1, n)) = n
      /\ \A i \in 1..n : SubSeq(p, 1, n)[i] = p[i]
  <2>1. \A i \in 1..n - 1 + 1 : SubSeq(p, 1, n)[i] = p[1 + i - 1]
    BY <1>1, <1>2, <1>3, SubSeqProperties
  <2> QED
    BY <1>1, <1>2, <1>3, <2>1, SubSeqProperties
<1> QED
  BY <1>1, <1>2, <1>4

LEMMA PrefixOfPrefix ==
    ASSUME NEW p \in Paths, NEW m \in 1..Len(p), NEW n \in 1..m
    PROVE  SubSeq(SubSeq(p, 1, m), 1, n) = SubSeq(p, 1, n) /\ SubSeq(p, 1, n) \in Prefixes(SubSeq(p, 1, m))
PROOF
<1>1. p \in Seq(STRING) /\ Len(p) \in Nat
  BY PathAssumption, LenProperties
<1>2. SubSeq(p, 1, m) \in Prefixes(p)
  BY DEF Prefixes
<1> DEFINE q == SubSeq(p, 1, m)
<1>3. /\ q \in Seq(STRING) /\ Len(q) \in 1..Len(p) /\ \A i \in 1..Len(q) : q[i] = p[i]
  BY <1>2, PrefixIs
<1>4. Len(q) = m
  <2>1. \A i \in 1..m : p[i] \in STRING
    BY <1>1, ElementOfSeq
  <2> QED
    BY <1>1, <2>1, SubSeqProperties
<1> HIDE DEF q
<1>5. SubSeq(q, 1, n) \in Prefixes(q)
  BY <1>4 DEF Prefixes
<1>6. SubSeq(q, 1, n) = SubSeq(p, 1, n)
  <2>1. SubSeq(q, 1, n) \in Seq(STRING) /\ Len(SubSeq(q, 1, n)) = n /\ \A i \in 1..n : SubSeq(q, 1, n)[i] = p[i]
    <3>1. \A i \in 1..n : q[i] \in STRING
      BY <1>3, <1>4, ElementOfSeq
    <3>2. /\ SubSeq(q, 1, n) \in Seq(STRING) /\ Len(SubSeq(q, 1, n)) = n
          /\ \A i \in 1..n - 1 + 1 : SubSeq(q, 1, n)[i] = q[1 + i - 1]
      BY <1>1, <3>1, SubSeqProperties
    <3> QED
      BY <1>1, <1>3, <1>4, <3>2
  <2>2. SubSeq(p, 1, n) \in Seq(STRING) /\ Len(SubSeq(p, 1, n)) = n /\ \A i \in 1..n : SubSeq(p, 1, n)[i] = p[i]
    <3>1. \A i \in 1..n : p[i] \in STRING
      BY <1>1, ElementOfSeq
    <3>2. /\ SubSeq(p, 1, n) \in Seq(STRING) /\ Len(SubSeq(p, 1, n)) = n
          /\ \A i \in 1..n - 1 + 1 : SubSeq(p, 1, n)[i] = p[1 + i - 1]
      BY <1>1, <3>1, SubSeqProperties
    <3> QED
      BY <1>1, <3>2
  <2> QED
    BY <2>1, <2>2, SeqEqual
<1> QED
  BY <1>5, <1>6 DEF q

\* The prefixes of a path are ordered, and so is what is below and above in a tree.
LEMMA PathsAreOrdered ==
    /\ \A p \in Paths : p \in Prefixes(p) /\ Prefixes(p) \subseteq Paths
    /\ \A p \in Paths : \A q \in Prefixes(p) : Prefixes(q) \subseteq Prefixes(p)
    /\ \A p \in Paths : \A q, r \in Prefixes(p) : q \in Prefixes(r) \/ r \in Prefixes(q)
    /\ \A p \in Paths : \A q \in Prefixes(p) : p \in Prefixes(q) => p = q
PROOF
<1>1. ASSUME NEW p \in Paths PROVE p \in Prefixes(p) /\ Prefixes(p) \subseteq Paths
  <2>1. p \in Seq(STRING) /\ Len(p) \in Nat /\ Len(p) > 0
    BY PathAssumption, LenProperties
  <2>2. p = SubSeq(p, 1, Len(p)) /\ Len(p) \in 1..Len(p)
    BY <2>1, SubSeqFull
  <2> QED
    BY <2>2, PathAssumption DEF Prefixes
<1>2. ASSUME NEW p \in Paths, NEW q \in Prefixes(p) PROVE Prefixes(q) \subseteq Prefixes(p)
  <2> SUFFICES ASSUME NEW n \in 1..Len(q) PROVE SubSeq(q, 1, n) \in Prefixes(p)
    BY DEF Prefixes
  <2>1. Len(q) \in 1..Len(p) /\ q = SubSeq(p, 1, Len(q)) /\ Len(p) \in Nat
    BY PrefixIs
  <2>2. SubSeq(q, 1, n) = SubSeq(p, 1, n)
    BY <2>1, PrefixOfPrefix
  <2>3. n \in 1..Len(p)
    BY <2>1
  <2> QED
    BY <2>2, <2>3 DEF Prefixes
<1>3. ASSUME NEW p \in Paths, NEW q \in Prefixes(p), NEW r \in Prefixes(p)
      PROVE  q \in Prefixes(r) \/ r \in Prefixes(q)
  <2>1. /\ Len(q) \in 1..Len(p) /\ q = SubSeq(p, 1, Len(q)) /\ Len(p) \in Nat
        /\ Len(r) \in 1..Len(p) /\ r = SubSeq(p, 1, Len(r))
    BY PrefixIs
  <2>2. CASE Len(q) \in 1..Len(r)
    BY <2>1, <2>2, PrefixOfPrefix
  <2>3. CASE Len(r) \in 1..Len(q)
    BY <2>1, <2>3, PrefixOfPrefix
  <2> QED
    BY <2>1, <2>2, <2>3
<1>4. ASSUME NEW p \in Paths, NEW q \in Prefixes(p), p \in Prefixes(q) PROVE p = q
  <2>1. q \in Paths /\ Len(q) \in 1..Len(p) /\ Len(p) \in Nat /\ q = SubSeq(p, 1, Len(q)) /\ p \in Seq(STRING)
    BY PrefixIs
  <2>2. Len(p) \in 1..Len(q)
    BY <1>4, <2>1, PrefixIs
  <2>3. Len(p) = Len(q)
    BY <2>1, <2>2
  <2> QED
    BY <2>1, <2>3, SubSeqFull
<1> QED
  BY <1>1, <1>2, <1>3, <1>4

LEMMA TopIs ==
    ASSUME NEW p \in Paths
    PROVE  /\ <<p[1]>> \in Prefixes(p) /\ p[1] \in Tops
           /\ \A q \in Prefixes(p) : q[1] = p[1] /\ (Len(q) = 1 => q = <<p[1]>>)
PROOF
<1>1. p \in Seq(STRING) /\ Len(p) \in Nat \ {0}
  BY PathAssumption, LenProperties
<1>2. ASSUME NEW q \in Prefixes(p) PROVE q[1] = p[1] /\ (Len(q) = 1 => q = <<p[1]>>)
  <2>1. /\ q \in Seq(STRING) /\ Len(q) \in 1..Len(p)
        /\ \A i \in 1..Len(q) : q[i] = p[i]
    BY PrefixIs
  <2>2. q[1] = p[1]
    BY <1>1, <2>1
  <2> QED
    BY <2>1, <2>2
<1>3. SubSeq(p, 1, 1) \in Prefixes(p)
  BY <1>1 DEF Prefixes
<1>4. SubSeq(p, 1, 1) = <<p[1]>>
  <2>1. p[1] \in STRING
    BY <1>1, ElementOfSeq
  <2>2. Len(SubSeq(p, 1, 1)) = 1
    BY <2>1, SubSeqProperties
  <2> QED
    BY <1>2, <1>3, <2>2
<1> QED
  BY <1>2, <1>3, <1>4 DEF Tops

\* Of some prefixes of a path one is the shortest.
LEMMA OneIsShortest ==
    ASSUME NEW p \in Paths, NEW S \in SUBSET Prefixes(p), S # {}
    PROVE  \E q \in S : Above(q) \cap S = {}
PROOF
<1> DEFINE Less == {ss \in Nat \X Nat : ss[1] < ss[2]}
           Lengths == {Len(q) : q \in S}
<1>1. IsWellFoundedOn(Less, Nat)
  BY NatLessThanWellFounded DEF OpToRel
<1>2. \A q \in S : Len(q) \in Nat
  BY PrefixIs
<1>3. Lengths \subseteq Nat /\ Lengths # {}
  BY <1>2
<1>4. PICK n \in Lengths : \A k \in Nat : <<k, n>> \in Less => k \notin Lengths
  <2> HIDE DEF Lengths
  <2> QED
    BY <1>1, <1>3, WFMin
<1>5. PICK q \in S : n = Len(q)
  BY <1>4
<1>6. ASSUME NEW r \in Above(q) \cap S PROVE FALSE
  <2>1. q \in Paths /\ r \in Prefixes(q) /\ r # q
    BY PrefixIs DEF Above
  <2>2. Len(r) \in 1..Len(q) /\ Len(q) \in Nat /\ r = SubSeq(q, 1, Len(r)) /\ q \in Seq(STRING)
    BY <2>1, PrefixIs
  <2>3. Len(r) # Len(q)
    BY <2>1, <2>2, SubSeqFull
  <2>4. Len(r) \in Lengths /\ Len(r) \in Nat /\ Len(r) < n
    BY <1>5, <2>2, <2>3
  <2>5. n \in Nat
    BY <1>3
  <2> HIDE DEF Lengths
  <2>6. \A k, m \in Nat : k < m => <<k, m>> \in Less
    OBVIOUS
  <2> QED
    BY <1>4, <2>4, <2>5, <2>6
<1> QED
  BY <1>6

LEMMA ParentIs ==
    ASSUME NEW p \in Paths, Len(p) # 1
    PROVE  \E q \in Above(p) : Len(p) = Len(q) + 1
PROOF
<1>1. p \in Seq(STRING) /\ Len(p) \in Nat /\ Len(p) # 0 /\ Len(p) # 1
  BY PathAssumption, LenProperties
<1> DEFINE n == Len(p) - 1
           q == SubSeq(p, 1, n)
<1>2. n \in 1..Len(p) /\ n # Len(p)
  <2>1. \A l \in Nat : l # 0 /\ l # 1 => l - 1 \in 1..l /\ l - 1 # l
    OBVIOUS
  <2> QED
    BY <1>1, <2>1
<1>3. q \in Prefixes(p)
  BY <1>2 DEF Prefixes
<1>4. Len(q) = n
  <2>1. \A i \in 1..n : p[i] \in STRING
    BY <1>1, <1>2, ElementOfSeq
  <2> QED
    BY <1>2, <2>1, SubSeqProperties
<1> HIDE DEF q
<1> QED
  BY <1>1, <1>2, <1>3, <1>4 DEF Above

-----------------------------------------------------------------------------
\* What trees are made of.
AnyThing == Scalars \cup {Null, Obj}
IsTree(t) == /\ DOMAIN t \subseteq Paths /\ t \in [DOMAIN t -> AnyThing]
             /\ \A p \in DOMAIN t : \A q \in Above(p) : q \in DOMAIN t /\ t[q] = Obj

LEMMA TreesAre == \A t : t \in Trees <=> IsTree(t)
PROOF
<1>1. ASSUME NEW t \in Trees PROVE IsTree(t)
  <2>1. PICK D \in SUBSET Paths : t \in {s \in [D -> AnyThing] : \A p \in D : \A q \in Above(p) : q \in D /\ s[q] = Obj}
    BY DEF Trees, AnyThing
  <2>2. DOMAIN t = D
    BY <2>1
  <2> QED
    BY <2>1, <2>2 DEF IsTree
<1>2. ASSUME NEW t, IsTree(t) PROVE t \in Trees
  <2>1. t \in {s \in [DOMAIN t -> AnyThing] : \A p \in DOMAIN t : \A q \in Above(p) : q \in DOMAIN t /\ s[q] = Obj}
    BY <1>2 DEF IsTree
  <2>2. DOMAIN t \in SUBSET Paths
    BY <1>2 DEF IsTree
  <2> QED
    BY <2>1, <2>2 DEF Trees, AnyThing
<1> QED
  BY <1>1, <1>2

\* The same below a path, node by node.
Agree(t, s, q) == (q \in DOMAIN t <=> q \in DOMAIN s) /\ (q \in DOMAIN t => t[q] = s[q])

LEMMA AgreeingIsSame ==
    ASSUME NEW t, NEW s, NEW p, DOMAIN t \subseteq Paths, DOMAIN s \subseteq Paths,
           \A q \in Paths : p \in Prefixes(q) => Agree(t, s, q)
    PROVE  Same(t, s, p)
PROOF
<1>1. {r \in DOMAIN t : p \in Prefixes(r)} = {r \in DOMAIN s : p \in Prefixes(r)}
  BY DEF Agree
<1>2. \A q \in {r \in DOMAIN t : p \in Prefixes(r)} : t[q] = s[q]
  BY DEF Agree
<1> QED
  BY <1>1, <1>2 DEF Same, At

LEMMA SameIsAgreeing ==
    ASSUME NEW t, NEW s, NEW p, Same(t, s, p), NEW q, p \in Prefixes(q)
    PROVE  Agree(t, s, q)
PROOF
<1>1. /\ DOMAIN At(t, p) = {r \in DOMAIN t : p \in Prefixes(r)} /\ DOMAIN At(s, p) = {r \in DOMAIN s : p \in Prefixes(r)}
      /\ At(t, p) = At(s, p)
  BY DEF Same, At
<1>2. q \in DOMAIN t <=> q \in DOMAIN s
  BY <1>1
<1>3. ASSUME q \in DOMAIN t PROVE t[q] = s[q]
  <2>1. At(t, p)[q] = t[q] /\ At(s, p)[q] = s[q]
    BY <1>2, <1>3 DEF At
  <2> QED
    BY <1>1, <2>1
<1> QED
  BY <1>2, <1>3 DEF Agree

-----------------------------------------------------------------------------
\* What the backends do to a path that is apart from what is set.
Apart(p, ps) == \A r \in ps : p \notin Prefixes(r) /\ r \notin Prefixes(p)

LEMMA ApartFromAll ==
    ASSUME NEW p \in Paths, NEW ps \in SUBSET Paths, Apart(p, ps), NEW q \in Paths, p \in Prefixes(q)
    PROVE  Prefixes(q) \cap ps = {} /\ q \notin UNION {Above(r) : r \in ps}
PROOF
<1>1. ASSUME NEW r \in Prefixes(q) \cap ps PROVE FALSE
  BY <1>1, PathsAreOrdered DEF Apart
<1>2. ASSUME NEW r \in ps, q \in Above(r) PROVE FALSE
  BY <1>2, PathsAreOrdered DEF Apart, Above
<1> QED
  BY <1>1, <1>2

LEMMA DeepSetLeaves ==
    ASSUME NEW t, NEW u, DOMAIN t \subseteq Paths, NEW p \in Paths, NEW ps \in SUBSET Paths, Apart(p, ps),
           NEW q \in Paths, p \in Prefixes(q)
    PROVE  Agree(t, DeepSet(t, ps, u), q)
PROOF
<1>1. Prefixes(q) \cap ps = {} /\ q \notin UNION {Above(r) : r \in ps}
  BY ApartFromAll
<1> QED
  BY <1>1 DEF DeepSet, Agree

LEMMA JsonPatchLeaves ==
    ASSUME NEW t, NEW u, DOMAIN t \subseteq Paths, NEW p \in Paths, NEW ps \in SUBSET Paths, Apart(p, ps),
           NEW q \in Paths, p \in Prefixes(q)
    PROVE  Agree(t, JsonPatch(t, ps, u), q)
PROOF
<1> DEFINE given == {x \in DOMAIN u : Prefixes(x) \cap ps # {}}
           above == UNION {Above(x) : x \in ps}
           is(x) == IF x \in given THEN u[x] ELSE Obj
           kept == {x \in DOMAIN t : \A r \in Prefixes(x) \cap (given \cup above) : is(r) = Obj}
           put  == {x \in given \cup above : is(x) # Null}
<1>1. Prefixes(q) \cap ps = {} /\ q \notin above
  BY ApartFromAll
<1>2. \A r \in Prefixes(q) : r \notin given
  BY <1>1, PathsAreOrdered
<1>3. q \notin put /\ (q \in DOMAIN t => q \in kept)
  BY <1>1, <1>2, PathsAreOrdered
<1>4. JsonPatch(t, ps, u) = [x \in kept \cup put |-> IF x \in put THEN is(x) ELSE t[x]]
  BY DEF JsonPatch
<1> HIDE DEF put
<1>5. kept \subseteq DOMAIN t
  OBVIOUS
<1> HIDE DEF kept
<1> QED
  BY <1>3, <1>4, <1>5 DEF Agree

LEMMA SetNullLeaves ==
    ASSUME NEW t, DOMAIN t \subseteq Paths, NEW p \in Paths, NEW ps \in SUBSET Paths, Apart(p, ps),
           NEW q \in Paths, p \in Prefixes(q)
    PROVE  Agree(t, SetNull(t, ps), q)
PROOF
<1> DEFINE able == {x \in ps : \A r \in Above(x) \cap DOMAIN t : t[r] = Obj}
<1>1. able \in SUBSET Paths /\ Apart(p, able)
  BY DEF Apart
<1> HIDE DEF able
<1>2. Prefixes(q) \cap able = {} /\ q \notin UNION {Above(r) : r \in able}
  BY <1>1, ApartFromAll
<1>3. q \notin able
  BY <1>2, PathsAreOrdered
<1> DEFINE above == UNION {Above(x) : x \in able}
           kept == {x \in DOMAIN t : Prefixes(x) \cap able = {}}
<1>4. SetNull(t, ps) = [x \in kept \cup able \cup above |->
                           IF x \in able THEN Null ELSE IF x \in above THEN Obj ELSE t[x]]
  BY DEF SetNull, able
<1>5. q \in kept <=> q \in DOMAIN t
  BY <1>2
<1> HIDE DEF above, kept
<1>6. q \notin above
  BY <1>2 DEF above
<1> QED
  BY <1>3, <1>4, <1>5, <1>6 DEF Agree

LEMMA UnsetLeaves ==
    ASSUME NEW t, NEW p \in Paths, NEW ps \in SUBSET Paths, Apart(p, ps), NEW q \in Paths, p \in Prefixes(q)
    PROVE  Agree(t, Unset(t, ps), q)
PROOF
<1>1. Prefixes(q) \cap ps = {}
  BY ApartFromAll
<1> QED
  BY <1>1 DEF Unset, Agree

-----------------------------------------------------------------------------
\* What is set is whole: below a path that is set there are objects down to each value.
Settable(ps, u) ==
    /\ ps \subseteq DOMAIN u /\ DOMAIN u \subseteq Paths /\ u \in [DOMAIN u -> AnyThing]
    /\ \A x \in DOMAIN u : \A y \in Above(x) : Prefixes(y) \cap ps # {} => y \in DOMAIN u /\ u[y] = Obj

LEMMA AboveIs ==
    /\ \A p \in Paths : Above(p) \subseteq Paths /\ p \notin Above(p)
    /\ \A p \in Paths : \A q \in Above(p) : Above(q) \subseteq Above(p) /\ Prefixes(q) \subseteq Prefixes(p)
    /\ \A p \in Paths : \A q \in Prefixes(p) : q = p \/ q \in Above(p)
    /\ \A p \in Paths : Above(p) \subseteq Prefixes(p)
    /\ \A p \in Paths : \A q, r \in Prefixes(p) : q \in Prefixes(r) \/ r \in Above(q)
PROOF
BY PathsAreOrdered DEF Above

LEMMA DeepSetIsTree ==
    ASSUME NEW t, IsTree(t), NEW ps, NEW u, Settable(ps, u)
    PROVE  IsTree(DeepSet(t, ps, u))
PROOF
<1> DEFINE above == UNION {Above(p) : p \in ps}
           kept  == {q \in DOMAIN t : Prefixes(q) \cap ps = {}}
           put   == {q \in DOMAIN u : Prefixes(q) \cap ps # {}}
           new   == DeepSet(t, ps, u)
<1>1. new = [q \in kept \cup put \cup above |->
                IF q \in put THEN u[q] ELSE IF q \in above THEN Obj ELSE t[q]]
  BY DEF DeepSet
<1>2. /\ ps \subseteq DOMAIN u /\ DOMAIN u \subseteq Paths /\ \A x \in DOMAIN u : u[x] \in AnyThing
      /\ \A x \in DOMAIN u : \A y \in Above(x) : Prefixes(y) \cap ps # {} => y \in DOMAIN u /\ u[y] = Obj
  BY DEF Settable
<1>3. /\ DOMAIN t \subseteq Paths /\ \A x \in DOMAIN t : t[x] \in AnyThing
      /\ \A p \in DOMAIN t : \A q \in Above(p) : q \in DOMAIN t /\ t[q] = Obj
  BY DEF IsTree
<1>4. DOMAIN new = kept \cup put \cup above /\ DOMAIN new \subseteq Paths /\ Obj \in AnyThing
  BY <1>1, <1>2, <1>3, AboveIs DEF AnyThing
<1>5. \A q \in DOMAIN new : new[q] = IF q \in put THEN u[q] ELSE IF q \in above THEN Obj ELSE t[q]
  BY <1>1
<1>6. \A q \in DOMAIN new : new[q] \in AnyThing
  BY <1>2, <1>3, <1>4, <1>5
<1> HIDE DEF new
<1>7. \A y \in above : new[y] = Obj
  <2> SUFFICES ASSUME NEW p \in ps, NEW y \in Above(p) PROVE new[y] = Obj
    OBVIOUS
  <2>1. y \in above /\ y \in DOMAIN new /\ p \in DOMAIN u
    BY <1>2, <1>4
  <2>2. CASE y \in put
    BY <1>2, <1>5, <2>1, <2>2
  <2>3. CASE y \notin put
    BY <1>5, <2>1, <2>3
  <2> QED
    BY <2>2, <2>3
<1>8. ASSUME NEW x \in DOMAIN new, NEW y \in Above(x) PROVE y \in DOMAIN new /\ new[y] = Obj
  <2>1. x \in Paths /\ y \in Paths /\ y \in Prefixes(x)
    BY <1>4, AboveIs
  <2>2. CASE x \in above
    BY <1>2, <1>4, <1>7, <2>2, AboveIs
  <2>3. CASE x \in put
    <3>1. PICK r \in ps : r \in Prefixes(x)
      BY <2>3
    <3>2. CASE r \in Prefixes(y)
      <4>1. y \in put /\ u[y] = Obj
        BY <1>2, <2>3, <3>1, <3>2
      <4> QED
        BY <1>4, <1>5, <4>1
    <3>3. CASE y \in Above(r)
      BY <1>4, <1>7, <3>1, <3>3
    <3> QED
      BY <2>1, <3>1, <3>2, <3>3, AboveIs
  <2>4. CASE x \in kept /\ x \notin put
    <3>1. y \in DOMAIN t /\ t[y] = Obj /\ Prefixes(y) \cap ps = {}
      BY <1>3, <2>1, <2>4, PathsAreOrdered
    <3>2. y \in kept /\ y \notin put
      BY <3>1
    <3> QED
      BY <1>4, <1>5, <1>7, <3>1, <3>2
  <2> QED
    BY <1>4, <2>2, <2>3, <2>4
<1>9. new \in [DOMAIN new -> AnyThing]
  BY <1>1, <1>4, <1>6 DEF new
<1> QED
  BY <1>4, <1>8, <1>9 DEF IsTree, new

LEMMA JsonPatchIsTree ==
    ASSUME NEW t, IsTree(t), NEW ps, NEW u, Settable(ps, u)
    PROVE  IsTree(JsonPatch(t, ps, u))
PROOF
<1> DEFINE given == {x \in DOMAIN u : Prefixes(x) \cap ps # {}}
           above == UNION {Above(x) : x \in ps}
           is(x) == IF x \in given THEN u[x] ELSE Obj
           kept == {x \in DOMAIN t : \A r \in Prefixes(x) \cap (given \cup above) : is(r) = Obj}
           put  == {x \in given \cup above : is(x) # Null}
           new  == JsonPatch(t, ps, u)
<1>1. new = [x \in kept \cup put |-> IF x \in put THEN is(x) ELSE t[x]]
  BY DEF JsonPatch
<1>2. /\ ps \subseteq DOMAIN u /\ DOMAIN u \subseteq Paths /\ \A x \in DOMAIN u : u[x] \in AnyThing
      /\ \A x \in DOMAIN u : \A y \in Above(x) : Prefixes(y) \cap ps # {} => y \in DOMAIN u /\ u[y] = Obj
  BY DEF Settable
<1>3. /\ DOMAIN t \subseteq Paths /\ \A x \in DOMAIN t : t[x] \in AnyThing
      /\ \A p \in DOMAIN t : \A q \in Above(p) : q \in DOMAIN t /\ t[q] = Obj
  BY DEF IsTree
<1>4. Obj \in AnyThing /\ Obj # Null
  BY PathAssumption DEF AnyThing
<1>5. DOMAIN new = kept \cup put
  BY <1>1
<1>6. /\ kept \subseteq DOMAIN t /\ put \subseteq given \cup above /\ given \subseteq DOMAIN u
      /\ above \subseteq Paths
  BY <1>2, AboveIs
<1>7. \A x \in DOMAIN new : new[x] = IF x \in put THEN is(x) ELSE t[x]
  BY <1>1
<1>8. \A x \in given \cup above : is(x) \in AnyThing
  BY <1>2, <1>4
<1>9. \A y \in above : is(y) = Obj /\ y \in put
  <2> SUFFICES ASSUME NEW p \in ps, NEW y \in Above(p) PROVE is(y) = Obj
    BY <1>4
  <2>1. p \in DOMAIN u
    BY <1>2
  <2> QED
    BY <1>2, <2>1
<1>10. ASSUME NEW x \in given, NEW y \in Above(x) PROVE is(y) = Obj /\ y \in put
  <2>1. x \in Paths /\ y \in Prefixes(x)
    BY <1>2, AboveIs
  <2>2. PICK r \in ps : r \in Prefixes(x)
    OBVIOUS
  <2>3. CASE r \in Prefixes(y)
    <3>1. y \in given /\ u[y] = Obj
      BY <1>2, <2>2, <2>3
    <3> QED
      BY <1>4, <3>1
  <2>4. CASE y \in Above(r)
    BY <1>9, <2>2, <2>4
  <2> QED
    BY <2>1, <2>2, <2>3, <2>4, AboveIs
<1>11. \A x \in above : \A y \in Above(x) : y \in above
  BY <1>2, AboveIs
<1>12. \A x \in kept : \A y \in Above(x) : y \in kept /\ (y \in put => is(y) = Obj)
  <2> SUFFICES ASSUME NEW x \in kept, NEW y \in Above(x) PROVE y \in kept /\ (y \in put => is(y) = Obj)
    OBVIOUS
  <2>1. x \in DOMAIN t /\ x \in Paths /\ y \in Prefixes(x) /\ Prefixes(y) \subseteq Prefixes(x)
    BY <1>3, AboveIs
  <2>2. y \in DOMAIN t
    BY <1>3, <2>1
  <2> QED
    BY <1>6, <2>1, <2>2
<1> HIDE DEF new, is, given, above, kept, put
<1>13. DOMAIN new \subseteq Paths
  BY <1>2, <1>3, <1>5, <1>6
<1>14. \A x \in DOMAIN new : new[x] \in AnyThing
  BY <1>3, <1>5, <1>6, <1>7, <1>8
<1>15. ASSUME NEW x \in DOMAIN new, NEW y \in Above(x) PROVE y \in DOMAIN new /\ new[y] = Obj
  <2>1. CASE x \in put
    <3>1. y \in put /\ is(y) = Obj
      BY <1>6, <1>9, <1>10, <1>11, <2>1
    <3> QED
      BY <1>5, <1>7, <3>1
  <2>2. CASE x \in kept
    <3>1. y \in kept /\ t[y] = Obj /\ (y \in put => is(y) = Obj)
      BY <1>3, <1>6, <1>12, <2>2
    <3> QED
      BY <1>5, <1>7, <3>1
  <2> QED
    BY <1>5, <2>1, <2>2
<1>16. new \in [DOMAIN new -> AnyThing]
  BY <1>1, <1>5, <1>14
<1> QED
  BY <1>13, <1>15, <1>16 DEF IsTree, new

LEMMA SetNullIsTree ==
    ASSUME NEW t, IsTree(t), NEW ps \in SUBSET Paths, \A p \in ps : Above(p) \cap ps = {}
    PROVE  IsTree(SetNull(t, ps))
PROOF
<1> DEFINE able  == {p \in ps : \A q \in Above(p) \cap DOMAIN t : t[q] = Obj}
           above == UNION {Above(p) : p \in able}
           kept  == {q \in DOMAIN t : Prefixes(q) \cap able = {}}
           new   == SetNull(t, ps)
<1>1. new = [q \in kept \cup able \cup above |->
                IF q \in able THEN Null ELSE IF q \in above THEN Obj ELSE t[q]]
  BY DEF SetNull
<1>2. /\ DOMAIN t \subseteq Paths /\ \A x \in DOMAIN t : t[x] \in AnyThing
      /\ \A p \in DOMAIN t : \A q \in Above(p) : q \in DOMAIN t /\ t[q] = Obj
  BY DEF IsTree
<1>3. Obj \in AnyThing /\ Null \in AnyThing
  BY DEF AnyThing
<1>4. able \subseteq Paths /\ \A p \in able : Above(p) \cap able = {}
  OBVIOUS
<1>5. DOMAIN new = kept \cup able \cup above /\ kept \subseteq DOMAIN t
  BY <1>1
<1>6. \A q \in DOMAIN new : new[q] = IF q \in able THEN Null ELSE IF q \in above THEN Obj ELSE t[q]
  BY <1>1
<1>7. \A x \in kept : \A y \in Above(x) : y \in kept /\ y \notin able /\ t[y] = Obj
  BY <1>2, PathsAreOrdered, AboveIs
<1> HIDE DEF able, new, kept
<1>8. \A y \in above : y \notin able /\ y \in Paths /\ \A z \in Above(y) : z \in above
  BY <1>4, AboveIs
<1>9. \A p \in able : Above(p) \subseteq above
  OBVIOUS
<1> HIDE DEF above
<1>10. DOMAIN new \subseteq Paths
  BY <1>2, <1>4, <1>5, <1>8
<1>11. \A x \in DOMAIN new : new[x] \in AnyThing
  BY <1>2, <1>3, <1>5, <1>6
<1>12. ASSUME NEW x \in DOMAIN new, NEW y \in Above(x) PROVE y \in DOMAIN new /\ new[y] = Obj
  BY <1>5, <1>6, <1>7, <1>8, <1>9
<1>13. new \in [DOMAIN new -> AnyThing]
  BY <1>1, <1>5, <1>11
<1> QED
  BY <1>10, <1>12, <1>13 DEF IsTree, new

LEMMA UnsetIsTree == ASSUME NEW t, IsTree(t), NEW ps PROVE IsTree(Unset(t, ps))
PROOF
<1> DEFINE new == Unset(t, ps)
<1>1. /\ DOMAIN new = {r \in DOMAIN t : Prefixes(r) \cap ps = {}}
      /\ \A r \in DOMAIN new : new[r] = t[r]
  BY DEF Unset
<1>2. /\ DOMAIN t \subseteq Paths /\ \A x \in DOMAIN t : t[x] \in AnyThing
      /\ \A p \in DOMAIN t : \A q \in Above(p) : q \in DOMAIN t /\ t[q] = Obj
  BY DEF IsTree
<1>3. new = [r \in DOMAIN new |-> t[r]]
  BY DEF Unset
<1> HIDE DEF new
<1>4. \A x \in DOMAIN new : \A y \in Above(x) : y \in DOMAIN new /\ new[y] = Obj
  BY <1>1, <1>2, AboveIs
<1>5. \A x \in DOMAIN new : new[x] \in AnyThing
  BY <1>1, <1>2
<1>6. new \in [DOMAIN new -> AnyThing]
  BY <1>3, <1>5
<1> QED
  BY <1>1, <1>2, <1>4, <1>6 DEF IsTree, new

LEMMA MergeIsTree ==
    ASSUME NEW t, IsTree(t), NEW ps, NEW u, Settable(ps, u)
    PROVE  IsTree(Merge(t, ps, u))
PROOF
<1> DEFINE nulls == {p \in ps : u[p] = Null}
           first == JsonPatch(t, ps \ nulls, u)
<1>1. /\ ps \subseteq DOMAIN u /\ DOMAIN u \subseteq Paths
      /\ \A x \in DOMAIN u : \A y \in Above(x) : Prefixes(y) \cap ps # {} => y \in DOMAIN u /\ u[y] = Obj
  BY DEF Settable
<1>2. nulls \in SUBSET Paths
  BY <1>1
<1>3. ASSUME NEW p \in nulls, NEW y \in Above(p) \cap nulls PROVE FALSE
  <2>1. p \in DOMAIN u /\ y \in Paths /\ y \in ps /\ u[y] = Null
    BY <1>1
  <2>2. y \in Prefixes(y) \cap ps
    BY <2>1, PathsAreOrdered
  <2>3. u[y] = Obj
    BY <1>1, <1>3, <2>1, <2>2
  <2> QED
    BY <2>1, <2>3, PathAssumption
<1>4. Settable(ps \ nulls, u)
  <2>1. ps \ nulls \subseteq ps
    OBVIOUS
  <2> QED
    BY <2>1 DEF Settable
<1> HIDE DEF nulls
<1>5. IsTree(first)
  BY <1>4, JsonPatchIsTree
<1> HIDE DEF first
<1>6. IsTree(SetNull(first, nulls))
  BY <1>2, <1>3, <1>5, SetNullIsTree
<1> QED
  BY <1>6 DEF Merge, nulls, first

LEMMA MergeLeaves ==
    ASSUME NEW t, IsTree(t), NEW ps \in SUBSET Paths, NEW u, Settable(ps, u), NEW p \in Paths, Apart(p, ps),
           NEW q \in Paths, p \in Prefixes(q)
    PROVE  Agree(t, Merge(t, ps, u), q)
PROOF
<1> DEFINE nulls == {r \in ps : u[r] = Null}
           first == JsonPatch(t, ps \ nulls, u)
<1>1. /\ nulls \in SUBSET Paths /\ ps \ nulls \in SUBSET Paths
      /\ Apart(p, nulls) /\ Apart(p, ps \ nulls)
  BY DEF Apart
<1>2. Settable(ps \ nulls, u)
  <2>1. ps \ nulls \subseteq ps
    OBVIOUS
  <2> QED
    BY <2>1 DEF Settable
<1> HIDE DEF nulls
<1>3. DOMAIN t \subseteq Paths
  BY DEF IsTree
<1>4. Agree(t, first, q)
  BY <1>1, <1>3, JsonPatchLeaves
<1>5. DOMAIN first \subseteq Paths
  BY <1>2, JsonPatchIsTree DEF IsTree
<1> HIDE DEF first
<1>6. Agree(first, SetNull(first, nulls), q)
  BY <1>1, <1>5, SetNullLeaves
<1>7. Merge(t, ps, u) = SetNull(first, nulls)
  BY DEF Merge, nulls, first
<1> QED
  BY <1>4, <1>6, <1>7 DEF Agree

\* What a statement makes of a document is a document, and is as it was apart from its paths.
LEMMA AppliedIsTree ==
    ASSUME NEW t, IsTree(t), NEW ps, NEW u, Settable(ps, u), NEW gone
    PROVE  IsTree(Applied(t, ps, u, gone))
PROOF
<1> DEFINE first == IF engine = "sqlite" THEN Merge(t, ps, u) ELSE DeepSet(t, ps, u)
<1>1. IsTree(first)
  BY MergeIsTree, DeepSetIsTree
<1> HIDE DEF first
<1>2. IsTree(Unset(first, gone))
  BY <1>1, UnsetIsTree
<1> QED
  BY <1>2 DEF Applied, first

LEMMA AppliedLeaves ==
    ASSUME NEW t, IsTree(t), NEW ps \in SUBSET Paths, NEW u, Settable(ps, u), NEW gone \in SUBSET Paths,
           NEW p \in Paths, Apart(p, ps), Apart(p, gone)
    PROVE  Same(t, Applied(t, ps, u, gone), p)
PROOF
<1> DEFINE first == IF engine = "sqlite" THEN Merge(t, ps, u) ELSE DeepSet(t, ps, u)
           new   == Applied(t, ps, u, gone)
<1>1. DOMAIN t \subseteq Paths /\ DOMAIN new \subseteq Paths
  BY AppliedIsTree DEF IsTree
<1>2. \A q \in Paths : p \in Prefixes(q) => Agree(t, first, q)
  BY <1>1, MergeLeaves, DeepSetLeaves
<1> HIDE DEF first
<1>3. \A q \in Paths : p \in Prefixes(q) => Agree(first, Unset(first, gone), q)
  BY UnsetLeaves
<1>4. new = Unset(first, gone)
  BY DEF Applied, first
<1> HIDE DEF new
<1>5. \A q \in Paths : p \in Prefixes(q) => Agree(t, new, q)
  BY <1>2, <1>3, <1>4 DEF Agree
<1>6. Same(t, new, p)
  BY <1>1, <1>5, AgreeingIsSame
<1> QED
  BY <1>6 DEF new

-----------------------------------------------------------------------------
\* What diff finds.
LEMMA EditIsSettable ==
    ASSUME NEW b, NEW a, IsTree(a)
    PROVE  Settable(ToSet(b, a), a) /\ ToSet(b, a) \in SUBSET Paths
PROOF
BY DEF ToSet, Settable, IsTree

\* What is the same, and not in an object that is rewritten whole, is apart from the edit.
LEMMA SameIsApart ==
    ASSUME NEW b, NEW a, IsTree(b), IsTree(a), NEW declared, NEW p \in Paths, Same(b, a, p),
           \A q \in Above(p) : GoesInto(b, a, q)
    PROVE  Apart(p, ToSet(b, a)) /\ Apart(p, ToUnset(b, a, declared))
PROOF
<1>1. ToSet(b, a) \subseteq Paths /\ ToUnset(b, a, declared) \subseteq Paths
  BY DEF ToSet, ToUnset, IsTree
<1>2. ASSUME NEW r \in ToSet(b, a), r \in Prefixes(p) PROVE FALSE
  <2>1. r = p \/ r \in Above(p)
    BY <1>2, AboveIs
  <2> QED
    BY <2>1 DEF ToSet
<1>3. ASSUME NEW r \in ToSet(b, a), p \in Prefixes(r) PROVE FALSE
  <2>1. r \in Paths
    BY <1>1
  <2>2. \A q \in Paths : r \in Prefixes(q) => Agree(b, a, q)
    BY <1>3, <2>1, PathsAreOrdered, SameIsAgreeing
  <2>3. Same(b, a, r)
    BY <2>2, AgreeingIsSame DEF IsTree
  <2> QED
    BY <2>3 DEF ToSet
<1>4. ASSUME NEW r \in ToUnset(b, a, declared), r \in Prefixes(p) \/ p \in Prefixes(r) PROVE FALSE
  <2>1. r \in Paths /\ Len(r) = 1 /\ r \in DOMAIN b /\ r \notin DOMAIN a
    BY <1>1 DEF ToUnset
  <2>2. r \in Prefixes(p)
    <3>1. CASE p \in Prefixes(r)
      <4>1. Len(p) \in 1..1 /\ p[1] = r[1] /\ p = SubSeq(r, 1, Len(p))
        BY <2>1, <3>1, PrefixIs
      <4>2. p = r
        BY <2>1, <3>1, <4>1, TopIs, PathsAreOrdered
      <4> QED
        BY <4>2, PathsAreOrdered
    <3> QED
      BY <1>4, <3>1
  <2>3. CASE r = p
    BY <2>1, <2>3, SameIsAgreeing, PathsAreOrdered DEF Agree
  <2>4. CASE r \in Above(p)
    BY <2>1, <2>4 DEF GoesInto, IsObj
  <2> QED
    BY <2>2, <2>3, <2>4, AboveIs
<1> QED
  BY <1>2, <1>3, <1>4 DEF Apart

\* What a writer does not declare is apart from its edit.
LEMMA OrphanIsApart ==
    ASSUME NEW b, NEW a, IsTree(b), IsTree(a), NEW declared, NEW k \in Tops \ declared,
           \A p \in DOMAIN a : p[1] \in declared
    PROVE  <<k>> \in Paths /\ Apart(<<k>>, ToSet(b, a)) /\ Apart(<<k>>, ToUnset(b, a, declared))
PROOF
<1>1. PICK p \in Paths : k = p[1]
  BY DEF Tops
<1>2. <<k>> \in Paths /\ <<k>>[1] = k
  BY <1>1, TopIs, PathsAreOrdered
<1>3. /\ \A r \in ToSet(b, a) : r \in Paths /\ r[1] \in declared
      /\ \A r \in ToUnset(b, a, declared) : r \in Paths /\ r[1] \in declared
  BY DEF ToSet, ToUnset, IsTree
<1>4. \A r \in Paths : <<k>> \in Prefixes(r) \/ r \in Prefixes(<<k>>) => r[1] = k
  BY <1>2, TopIs
<1> QED
  BY <1>2, <1>3, <1>4 DEF Apart

\* Deep-setting the paths that diff finds, in the document it compared with, makes the edit.
LEMMA EditIsStored ==
    ASSUME engine # "sqlite", NEW b, NEW a, IsTree(b), IsTree(a), NEW declared, NEW k \in Tops, k \in declared
    PROVE  Same(Applied(b, ToSet(b, a), a, ToUnset(b, a, declared)), a, <<k>>)
PROOF
<1> DEFINE ps   == ToSet(b, a)
           gone == ToUnset(b, a, declared)
           set  == DeepSet(b, ps, a)
           new  == Applied(b, ps, a, gone)
           above == UNION {Above(p) : p \in ps}
           kept  == {q \in DOMAIN b : Prefixes(q) \cap ps = {}}
           put   == {q \in DOMAIN a : Prefixes(q) \cap ps # {}}
<1>1. /\ ps \subseteq DOMAIN a /\ ps \in SUBSET Paths /\ gone \in SUBSET Paths
      /\ DOMAIN a \subseteq Paths /\ DOMAIN b \subseteq Paths /\ IsTree(new) /\ Settable(ps, a)
  <2>1. Settable(ps, a) /\ ps \in SUBSET Paths
    BY EditIsSettable
  <2>2. IsTree(new)
    BY <2>1, AppliedIsTree
  <2>3. ps \subseteq DOMAIN a /\ gone \subseteq Paths /\ DOMAIN a \subseteq Paths /\ DOMAIN b \subseteq Paths
    BY DEF ToSet, ToUnset, IsTree
  <2> QED
    BY <2>1, <2>2, <2>3
<1>2. /\ DOMAIN new = {q \in DOMAIN set : Prefixes(q) \cap gone = {}}
      /\ \A q \in DOMAIN new : new[q] = set[q]
  BY DEF Applied, Unset
<1>3. set = [q \in kept \cup put \cup above |->
                IF q \in put THEN a[q] ELSE IF q \in above THEN Obj ELSE b[q]]
  BY DEF DeepSet
<1>4. /\ DOMAIN set = kept \cup put \cup above
      /\ \A q \in DOMAIN set : set[q] = IF q \in put THEN a[q] ELSE IF q \in above THEN Obj ELSE b[q]
  BY <1>3
<1> HIDE DEF set, new
<1>5. ASSUME NEW q \in Paths, <<k>> \in Prefixes(q) PROVE Agree(new, a, q)
  <2>1. q[1] = k /\ \A r \in Prefixes(q) : <<k>> \in Prefixes(r) /\ (Len(r) = 1 => r = <<k>>) /\ r[1] = k
    <3>1. q[1] = <<k>>[1]
      BY <1>5, TopIs
    <3>2. q[1] = k
      BY <3>1
    <3> QED
      BY <3>2, TopIs, PathsAreOrdered
  <2>2. ASSUME <<k>> \in DOMAIN a PROVE Prefixes(q) \cap gone = {}
    BY <2>1, <2>2 DEF ToUnset
  <2>3. \A r \in DOMAIN a : r \in Prefixes(q) => <<k>> \in DOMAIN a
    BY <2>1, AboveIs DEF IsTree
  <2>4. CASE \A r \in Prefixes(q) : GoesInto(b, a, r)
    <3>1. q \in DOMAIN a /\ q \in DOMAIN b /\ a[q] = Obj /\ b[q] = Obj /\ <<k>> \in DOMAIN a
      BY <1>5, <2>4, PathsAreOrdered DEF GoesInto, IsObj
    <3>2. Prefixes(q) \cap ps = {}
      BY <2>4 DEF ToSet
    <3>3. q \in kept /\ q \notin put
      BY <3>1, <3>2
    <3>4. q \in DOMAIN set /\ set[q] = Obj
      BY <1>4, <3>1, <3>3
    <3> QED
      BY <1>2, <2>2, <3>1, <3>4 DEF Agree
  <2>5. CASE \E r \in Prefixes(q) : ~GoesInto(b, a, r)
    <3> DEFINE S == {r \in Prefixes(q) : ~GoesInto(b, a, r)}
    <3>1. PICK r \in S : Above(r) \cap S = {}
      <4>1. S \in SUBSET Prefixes(q) /\ S # {}
        BY <2>5
      <4> HIDE DEF S
      <4> QED
        BY <4>1, OneIsShortest
    <3>2. /\ r \in Prefixes(q) /\ ~GoesInto(b, a, r) /\ r \in Paths
          /\ \A s \in Above(r) : GoesInto(b, a, s)
      <4>1. r \in Prefixes(q) /\ r \in Paths /\ ~GoesInto(b, a, r)
        BY PathsAreOrdered
      <4>2. \A s \in Above(r) : s \in Prefixes(q)
        BY <4>1, AboveIs, PathsAreOrdered
      <4> QED
        BY <3>1, <4>1, <4>2
    <3> HIDE DEF S
    <3>3. q \notin above
      <4> SUFFICES ASSUME NEW s \in ps, q \in Above(s) PROVE FALSE
        OBVIOUS
      <4>1. r \in Above(s)
        BY <1>1, <3>2, AboveIs, PathsAreOrdered DEF Above
      <4> QED
        BY <3>2, <4>1 DEF ToSet
    <3>4. CASE r \in DOMAIN a /\ Same(b, a, r)
      <4>1. Apart(r, ps) /\ Apart(r, gone)
        BY <3>2, <3>4, SameIsApart
      <4>2. Same(b, new, r)
        BY <1>1, <3>2, <4>1, AppliedLeaves DEF new
      <4>3. Agree(b, new, q) /\ Agree(b, a, q)
        BY <3>2, <3>4, <4>2, SameIsAgreeing
      <4> QED
        BY <4>3 DEF Agree
    <3>5. CASE r \in DOMAIN a /\ ~Same(b, a, r)
      <4>1. r \in ps
        BY <3>2, <3>5 DEF ToSet
      <4>2. q \notin kept /\ (q \in put <=> q \in DOMAIN a)
        BY <3>2, <4>1
      <4>3. (q \in DOMAIN set <=> q \in DOMAIN a) /\ (q \in DOMAIN set => set[q] = a[q])
        BY <1>4, <3>3, <4>2
      <4>4. Prefixes(q) \cap gone = {}
        BY <2>2, <2>3, <3>2, <3>5
      <4> QED
        BY <1>2, <4>3, <4>4 DEF Agree
    <3>6. CASE r \notin DOMAIN a
      <4>1. q \notin DOMAIN a
        BY <3>2, <3>6, AboveIs DEF IsTree
      <4>2. CASE r \notin DOMAIN b
        <5>1. q \notin DOMAIN b
          BY <3>2, <4>2, AboveIs DEF IsTree
        <5> QED
          BY <1>2, <1>4, <3>3, <4>1, <5>1 DEF Agree
      <4>3. CASE r \in DOMAIN b
        <5>1. Len(r) = 1
          <6> SUFFICES ASSUME Len(r) # 1 PROVE FALSE
            OBVIOUS
          <6>1. PICK s \in Above(r) : Len(r) = Len(s) + 1
            BY <3>2, ParentIs
          <6>2. r \in Under(b, s)
            BY <3>2, <4>3, <6>1, AboveIs DEF Under
          <6> QED
            BY <3>2, <3>6, <6>2 DEF GoesInto
        <5>2. r \in gone
          BY <2>1, <3>2, <3>6, <4>3, <5>1 DEF ToUnset
        <5>3. q \notin DOMAIN new
          BY <1>2, <3>2, <5>2
        <5> QED
          BY <4>1, <5>3 DEF Agree
      <4> QED
        BY <4>2, <4>3
    <3> QED
      BY <3>4, <3>5, <3>6
  <2> QED
    BY <2>4, <2>5
<1>6. DOMAIN new \subseteq Paths
  BY <1>1 DEF IsTree
<1>7. Same(new, a, <<k>>)
  BY <1>1, <1>5, <1>6, AgreeingIsSame
<1> QED
  BY <1>7 DEF new

-----------------------------------------------------------------------------
\* The row is a document, and so is what a patch has read.
PathInv == IsTree(doc) /\ (patch # NoPatch => IsTree(patch.raw) /\ patch.by \in Writers)

LEMMA SetWhereKeeps ==
    ASSUME PathInv, NEW p \in Paths, NEW v \in Scalars \cup {Null}, SetWhere(p, v)
    PROVE  PathInv'
PROOF
<1> DEFINE u == [q \in {p} |-> v]
<1>1. /\ DOMAIN u = {p} /\ u \in [DOMAIN u -> AnyThing] /\ {p} \subseteq Paths
  BY DEF AnyThing
<1>2. \A y \in Above(p) : p \notin Prefixes(y)
  BY PathsAreOrdered DEF Above
<1> HIDE DEF u
<1>3. Settable({p}, u)
  BY <1>1, <1>2 DEF Settable
<1>4. IsTree(Applied(doc, {p}, u, {}))
  BY <1>3, AppliedIsTree DEF PathInv
<1>5. doc' = Applied(doc, {p}, u, {}) /\ patch' = patch
  BY DEF SetWhere, u
<1> QED
  BY <1>4, <1>5 DEF PathInv

LEMMA TopsArePaths == \A k \in Tops : <<k>> \in Paths
PROOF
BY TopIs, PathsAreOrdered DEF Tops

LEMMA PathStep == PathInv /\ [PathNext]_pathVars => PathInv'
PROOF
<1> SUFFICES ASSUME PathInv, [PathNext]_pathVars PROVE PathInv'
  OBVIOUS
<1>1. ASSUME NEW w \in Writers, ReadToPatch(w) PROVE PathInv'
  BY <1>1 DEF PathInv, ReadToPatch
<1>2. ASSUME NEW w \in Writers, NEW k \in Tops, Backfill(w, k) PROVE PathInv'
  <2>1. <<k>> \in Paths /\ Default \in Scalars
    BY TopsArePaths, PathAssumption
  <2> QED
    BY <1>2, <2>1, SetWhereKeeps DEF Backfill
<1>3. ASSUME NEW w \in Writers, NEW k \in Tops, DropField(w, k) PROVE PathInv'
  BY <1>3, UnsetIsTree DEF PathInv, DropField
<1>4. ASSUME NEW after \in Edits(patch.by), PatchTo(after) PROVE PathInv'
  <2>1. IsTree(after)
    BY TreesAre DEF Edits
  <2>2. Settable(ToSet(patch.raw, after), after)
    BY <2>1, EditIsSettable
  <2> QED
    BY <1>4, <2>2, AppliedIsTree DEF PatchTo, PathInv
<1>5. CASE PatchRefused
  BY <1>5 DEF PatchRefused, PathInv
<1>6. ASSUME NEW p \in Paths, NEW v \in Scalars \cup {Null}, SetWhere(p, v) PROVE PathInv'
  BY <1>6, SetWhereKeeps
<1>7. CASE UNCHANGED pathVars
  BY <1>7 DEF pathVars, PathInv
<1> QED
  BY <1>1, <1>2, <1>3, <1>4, <1>5, <1>6, <1>7 DEF PathNext

\* What a patch's step does.
LEMMA PatchStores ==
    ASSUME PathInv, NEW after \in Edits(patch.by), PatchTo(after)
    PROVE  OrphansSurvive /\ LeavesTheRestAlone /\ (engine # "sqlite" => StoresTheEdit)
PROOF
<1> DEFINE raw == patch.raw
           declared == Declared[patch.by]
           ps   == ToSet(raw, after)
           gone == ToUnset(raw, after, declared)
<1>1. /\ patch # NoPatch /\ edit'.by = patch.by /\ edit'.raw = raw /\ edit'.after = after
      /\ doc' = Applied(doc, ps, after, gone)
  BY DEF PatchTo
<1>2. /\ IsTree(doc) /\ IsTree(raw) /\ IsTree(after) /\ \A p \in DOMAIN after : p[1] \in declared
      /\ declared \subseteq Tops
  BY <1>1, TreesAre, PathAssumption DEF PathInv, Edits
<1> HIDE DEF raw, declared
<1>3. Settable(ps, after) /\ ps \in SUBSET Paths /\ gone \in SUBSET Paths
  BY <1>2, EditIsSettable DEF ToUnset, IsTree
<1>4. OrphansSurvive
  <2> SUFFICES ASSUME NEW k \in Tops \ declared PROVE Same(doc, doc', <<k>>)
    BY <1>1 DEF OrphansSurvive, Same, declared
  <2>1. <<k>> \in Paths /\ Apart(<<k>>, ps) /\ Apart(<<k>>, gone)
    BY <1>2, OrphanIsApart
  <2> QED
    BY <1>1, <1>2, <1>3, <2>1, AppliedLeaves
<1>5. LeavesTheRestAlone
  <2> SUFFICES ASSUME NEW p \in Paths, Same(raw, after, p), \A q \in Above(p) : GoesInto(raw, after, q)
               PROVE  Same(doc, doc', p)
    BY <1>1 DEF LeavesTheRestAlone
  <2>1. Apart(p, ps) /\ Apart(p, gone)
    BY <1>2, SameIsApart
  <2> QED
    BY <1>1, <1>2, <1>3, <2>1, AppliedLeaves
<1>6. ASSUME engine # "sqlite" PROVE StoresTheEdit
  <2> SUFFICES ASSUME doc = raw, NEW k \in declared PROVE Same(doc', after, <<k>>)
    BY <1>1 DEF StoresTheEdit, declared
  <2> QED
    BY <1>1, <1>2, <1>6, EditIsStored
<1> QED
  BY <1>4, <1>5, <1>6

LEMMA PathStarts == PathInit => PathInv
PROOF
BY TreesAre DEF PathInit, PathInv

\* A statement always leaves a document, on every backend.
THEOREM RowsAreDocuments == PathSpec => [](doc \in Trees)
PROOF
<1>1. PathSpec => []PathInv
  BY PathStarts, PathStep, PTL DEF PathSpec
<1>2. PathInv => doc \in Trees
  BY TreesAre DEF PathInv
<1> QED
  BY <1>1, <1>2, PTL

\* For documents of any shape and releases with any fields: a patch leaves what it did not edit, and
\* the fields that its release does not declare, as they are stored by then, on every backend; and
\* where paths are deep-set it stores its edit (json.go diff; memdb apply, pg deep set, sqlite setExpr).
THEOREM PatchesKeepTheRest == PathSpec => PatchesStoreTheirEdit
PROOF
<1>1. PathSpec => []PathInv
  BY PathStarts, PathStep, PTL DEF PathSpec
<1>2. ASSUME PathInv, [PathNext]_pathVars
      PROVE  [edit' # NoEdit => OrphansSurvive /\ LeavesTheRestAlone /\ (engine # "sqlite" => StoresTheEdit)]_pathVars
  <2>1. ASSUME NEW after \in Edits(patch.by), PatchTo(after)
        PROVE  OrphansSurvive /\ LeavesTheRestAlone /\ (engine # "sqlite" => StoresTheEdit)
    BY <1>2, <2>1, PatchStores
  <2>2. CASE UNCHANGED pathVars
    BY <2>2
  <2>3. CASE \E after \in Edits(patch.by) : PatchTo(after)
    BY <2>1, <2>3
  <2>4. CASE edit' = NoEdit
    BY <2>4
  <2> QED
    BY <1>2, <2>2, <2>3, <2>4 DEF PathNext, ReadToPatch, Backfill, DropField, SetWhere, PatchRefused
<1> QED
  BY <1>1, <1>2, PTL DEF PathSpec, PatchesStoreTheirEdit

-----------------------------------------------------------------------------
(* The tables in the order of use: first what the operators on the list do. *)

\* A key that is listed has a place.
LEMMA PlaceIsThere ==
    ASSUME NEW s, NEW k \in Listed(s)
    PROVE  Place(k, s) \in 1..Len(s) /\ s[Place(k, s)] = k
BY DEF Listed, Place

\* Removing a key removes it and no other, and keeps the rest in order.
LEMMA WithoutRemoves ==
    ASSUME NEW S, NEW s \in Seq(S), Once(s), NEW k
    PROVE  /\ Without(k, s) \in Seq(S) /\ Once(Without(k, s))
           /\ Listed(Without(k, s)) = Listed(s) \ {k}
           /\ Len(Without(k, s)) <= Len(s)
           /\ k \in Listed(s) => Len(Without(k, s)) = Len(s) - 1
<1>1. CASE k \notin Listed(s)
  BY <1>1 DEF Without
<1>2. CASE k \in Listed(s)
  <2> DEFINE n == Len(s)
             p == Place(k, s)
             t == [i \in 1..n - 1 |-> IF i < p THEN s[i] ELSE s[i + 1]]
  <2>1. n \in Nat /\ p \in 1..n /\ s[p] = k /\ \A i \in 1..n : s[i] \in S
    BY <1>2, PlaceIsThere
  <2>2. Without(k, s) = t
    BY <1>2 DEF Without
  <2>3. \A i, j \in 1..n : s[i] = s[j] => i = j
    BY DEF Once
  <2> HIDE DEF p, n
  <2>4. n - 1 \in Nat /\ \A i \in 1..n - 1 : t[i] \in S
    BY <2>1
  <2>5. t \in Seq(S) /\ Len(t) = n - 1
    BY <2>4
  <2>6. \A i \in 1..n - 1 : t[i] = IF i < p THEN s[i] ELSE s[i + 1]
    OBVIOUS
  <2> HIDE DEF t
  <2>7. Once(t)
    <3> SUFFICES ASSUME NEW i \in 1..n - 1, NEW j \in 1..n - 1, t[i] = t[j] PROVE i = j
      BY <2>5 DEF Once
    <3>1. /\ t[i] = s[IF i < p THEN i ELSE i + 1] /\ (IF i < p THEN i ELSE i + 1) \in 1..n
          /\ t[j] = s[IF j < p THEN j ELSE j + 1] /\ (IF j < p THEN j ELSE j + 1) \in 1..n
      BY <2>1, <2>6
    <3>2. (IF i < p THEN i ELSE i + 1) = (IF j < p THEN j ELSE j + 1)
      BY <2>3, <3>1
    <3> QED
      BY <2>1, <3>2
  <2>8. \A i \in 1..n - 1 : t[i] \in Listed(s) \ {k}
    BY <2>1, <2>3, <2>6 DEF Listed, n
  <2>9. \A i \in 1..n : s[i] # k => \E j \in 1..n - 1 : t[j] = s[i]
    <3> SUFFICES ASSUME NEW i \in 1..n, s[i] # k PROVE \E j \in 1..n - 1 : t[j] = s[i]
      OBVIOUS
    <3>1. CASE i < p
      BY <2>1, <2>6, <3>1
    <3>2. CASE ~(i < p)
      <4>1. i - 1 \in 1..n - 1 /\ ~(i - 1 < p)
        BY <2>1, <3>2
      <4>2. t[i - 1] = s[i - 1 + 1] /\ i - 1 + 1 = i
        BY <2>1, <2>6, <4>1
      <4> QED
        BY <4>1, <4>2
    <3> QED
      BY <3>1, <3>2
  <2>10. Listed(t) = Listed(s) \ {k}
    BY <2>1, <2>5, <2>8, <2>9 DEF Listed, n
  <2> QED
    BY <2>1, <2>2, <2>5, <2>7, <2>10 DEF n
<1> QED
  BY <1>1, <1>2

\* A key that is put in front of a list without it.
LEMMA FrontAdds ==
    ASSUME NEW S, NEW s \in Seq(S), Once(s), NEW k \in S, k \notin Listed(s)
    PROVE  /\ <<k>> \o s \in Seq(S) /\ Once(<<k>> \o s)
           /\ Listed(<<k>> \o s) = Listed(s) \cup {k}
           /\ Len(<<k>> \o s) = Len(s) + 1
           /\ \A i \in 1..Len(s) : (<<k>> \o s)[i + 1] = s[i]
           /\ (<<k>> \o s)[1] = k
<1> DEFINE t == <<k>> \o s
           n == Len(s)
<1>1. /\ n \in Nat /\ t \in Seq(S) /\ Len(t) = n + 1 /\ t[1] = k
      /\ \A i \in 2..n + 1 : t[i] = s[i - 1]
  OBVIOUS
<1> HIDE DEF t
<1>2. \A i, j \in 1..n : s[i] = s[j] => i = j
  BY DEF Once
<1>3. \A i \in 1..n : s[i] # k
  BY DEF Listed
<1>4. \A i \in 1..n : t[i + 1] = s[i]
  <2> SUFFICES ASSUME NEW i \in 1..n PROVE t[i + 1] = s[i]
    OBVIOUS
  <2>1. i + 1 \in 2..n + 1 /\ i + 1 - 1 = i
    BY <1>1
  <2> QED
    BY <1>1, <2>1
<1>5. Listed(s) = {s[i] : i \in 1..n} /\ Listed(t) = {t[i] : i \in 1..n + 1}
  BY <1>1 DEF Listed
<1> HIDE DEF n
<1>6. Once(t)
  <2> SUFFICES ASSUME NEW i \in 1..n + 1, NEW j \in 1..n + 1, t[i] = t[j] PROVE i = j
    BY <1>1 DEF Once
  <2>1. i # 1 => i - 1 \in 1..n /\ t[i] = s[i - 1]
    BY <1>1
  <2>2. j # 1 => j - 1 \in 1..n /\ t[j] = s[j - 1]
    BY <1>1
  <2>3. i # 1 /\ j # 1 => i - 1 = j - 1
    BY <1>2, <2>1, <2>2
  <2> QED
    BY <1>1, <1>3, <2>1, <2>2, <2>3
<1>7. Listed(t) = Listed(s) \cup {k}
  <2>1. \A i \in 1..n + 1 : t[i] \in Listed(s) \cup {k}
    <3> SUFFICES ASSUME NEW i \in 1..n + 1, i # 1 PROVE t[i] \in Listed(s)
      BY <1>1
    <3>1. i - 1 \in 1..n /\ t[i] = s[i - 1]
      BY <1>1
    <3> QED
      BY <1>5, <3>1
  <2>2. \A i \in 1..n : i + 1 \in 1..n + 1 /\ t[i + 1] = s[i]
    BY <1>1, <1>4
  <2>3. 1 \in 1..n + 1 /\ t[1] = k
    BY <1>1
  <2>4. Listed(s) \subseteq Listed(t)
    BY <1>5, <2>2
  <2> QED
    BY <1>5, <2>1, <2>3, <2>4
<1> QED
  BY <1>1, <1>4, <1>6, <1>7 DEF t, n

LEMMA ToFrontMoves ==
    ASSUME NEW S, NEW s \in Seq(S), Once(s), NEW k \in S
    PROVE  /\ ToFront(k, s) \in Seq(S) /\ Once(ToFront(k, s))
           /\ Listed(ToFront(k, s)) = Listed(s) \cup {k}
           /\ k \in Listed(s) => Len(ToFront(k, s)) = Len(s)
<1> DEFINE t == Without(k, s)
<1>1. /\ t \in Seq(S) /\ Once(t) /\ Listed(t) = Listed(s) \ {k} /\ Len(t) <= Len(s)
      /\ k \in Listed(s) => Len(t) = Len(s) - 1
  BY WithoutRemoves
<1> HIDE DEF t
<1>2. /\ <<k>> \o t \in Seq(S) /\ Once(<<k>> \o t) /\ Listed(<<k>> \o t) = Listed(t) \cup {k}
      /\ Len(<<k>> \o t) = Len(t) + 1
  BY <1>1, FrontAdds
<1>3. ToFront(k, s) = <<k>> \o t
  BY DEF ToFront, t
<1>4. Len(s) \in Nat
  OBVIOUS
<1> QED
  BY <1>1, <1>2, <1>3, <1>4

\* A list is as long as it has keys.
LEMMA ListedOnce ==
    ASSUME NEW S, NEW s \in Seq(S), Once(s)
    PROVE  IsFiniteSet(Listed(s)) /\ Cardinality(Listed(s)) = Len(s)
<1>1. s \in Bijection(1..Len(s), Listed(s))
  <2>1. s \in [1..Len(s) -> Listed(s)]
    BY DEF Listed
  <2>2. \A i, j \in 1..Len(s) : s[i] = s[j] => i = j
    BY DEF Once
  <2>3. \A k \in Listed(s) : \E i \in 1..Len(s) : s[i] = k
    BY DEF Listed
  <2>4. s \in Injection(1..Len(s), Listed(s))
    BY <2>1, <2>2, Zenon DEF Injection, IsInjective
  <2>5. s \in Surjection(1..Len(s), Listed(s))
    BY <2>1, <2>3, Zenon DEF Surjection
  <2> QED
    BY <2>4, <2>5 DEF Bijection
<1>2. Len(s) \in Nat
  OBVIOUS
<1>3. IsFiniteSet(1..Len(s)) /\ Cardinality(1..Len(s)) = Len(s)
  BY <1>2, FS_Interval
<1>4. ExistsBijection(1..Len(s), Listed(s))
  BY <1>1 DEF ExistsBijection
<1> QED
  BY <1>3, <1>4, FS_Bijection
\* Which keys are ahead of which: y was used after x.
Ahead(y, x, s) == \E i, j \in 1..Len(s) : i < j /\ s[i] = y /\ s[j] = x

\* Those ahead of a key are those before its place.
LEMMA AheadIsBefore ==
    ASSUME NEW S, NEW s \in Seq(S), Once(s), NEW x \in Listed(s)
    PROVE  {s[i] : i \in 1..Place(x, s) - 1} = {y \in Listed(s) : Ahead(y, x, s)}
<1> DEFINE n == Len(s)
           p == Place(x, s)
<1>1. n \in Nat /\ p \in 1..n /\ s[p] = x
  BY PlaceIsThere
<1>2. \A i, j \in 1..n : s[i] = s[j] => i = j
  BY DEF Once
<1> HIDE DEF n, p
<1>3. ASSUME NEW i \in 1..p - 1 PROVE s[i] \in Listed(s) /\ Ahead(s[i], x, s)
  <2>1. i \in 1..n /\ i < p
    BY <1>1
  <2> QED
    BY <1>1, <2>1 DEF Listed, Ahead, n
<1>4. ASSUME NEW y, Ahead(y, x, s) PROVE \E i \in 1..p - 1 : y = s[i]
  <2>1. PICK i \in 1..n, j \in 1..n : i < j /\ s[i] = y /\ s[j] = x
    BY <1>4 DEF Ahead, n
  <2>2. j = p
    BY <1>1, <1>2, <2>1
  <2>3. i \in 1..p - 1
    BY <1>1, <2>1, <2>2
  <2> QED
    BY <2>1, <2>3
<1> QED
  BY <1>3, <1>4 DEF p

\* Removing a key leaves the order of the others.
LEMMA AheadWithout ==
    ASSUME NEW S, NEW s \in Seq(S), Once(s), NEW k, NEW x, NEW y
    PROVE  Ahead(y, x, Without(k, s)) <=> Ahead(y, x, s) /\ y # k /\ x # k
<1> DEFINE n == Len(s)
<1>0. n \in Nat /\ \A i, j \in 1..n : s[i] = s[j] => i = j
  BY DEF Once
<1>1. CASE k \notin Listed(s)
  <2>1. Without(k, s) = s
    BY <1>1 DEF Without
  <2>2. Ahead(y, x, s) => y \in Listed(s) /\ x \in Listed(s)
    BY DEF Ahead, Listed
  <2> QED
    BY <1>1, <2>1, <2>2
<1>2. CASE k \in Listed(s)
  <2> DEFINE p == Place(k, s)
             t == [i \in 1..n - 1 |-> IF i < p THEN s[i] ELSE s[i + 1]]
  <2>1. p \in 1..n /\ s[p] = k
    BY <1>2, PlaceIsThere
  <2>2. Without(k, s) = t
    BY <1>2 DEF Without
  <2>3. \A i \in 1..n - 1 : t[i] = IF i < p THEN s[i] ELSE s[i + 1]
    OBVIOUS
  <2>4. Len(t) = n - 1
    BY <1>0, <2>1
  <2> HIDE DEF n, p, t
  <2>5. ASSUME Ahead(y, x, t) PROVE Ahead(y, x, s) /\ y # k /\ x # k
    <3>1. PICK i \in 1..n - 1, j \in 1..n - 1 : i < j /\ t[i] = y /\ t[j] = x
      BY <2>4, <2>5 DEF Ahead
    <3> DEFINE a == IF i < p THEN i ELSE i + 1
               b == IF j < p THEN j ELSE j + 1
    <3>2. t[i] = s[a] /\ t[j] = s[b]
      BY <2>3
    <3>3. a \in 1..n /\ b \in 1..n /\ a < b /\ a # p /\ b # p
      BY <1>0, <2>1, <3>1
    <3> HIDE DEF a, b
    <3>4. y # k /\ x # k
      BY <1>0, <2>1, <3>1, <3>2, <3>3
    <3> QED
      BY <3>1, <3>2, <3>3, <3>4 DEF Ahead, n
  <2>6. ASSUME Ahead(y, x, s), y # k, x # k PROVE Ahead(y, x, t)
    <3>1. PICK i \in 1..n, j \in 1..n : i < j /\ s[i] = y /\ s[j] = x
      BY <2>6 DEF Ahead, n
    <3> DEFINE a == IF i < p THEN i ELSE i - 1
               b == IF j < p THEN j ELSE j - 1
    <3>2. i # p /\ j # p
      BY <2>1, <2>6, <3>1
    <3>3. a \in 1..n - 1 /\ b \in 1..n - 1 /\ a < b
      BY <1>0, <2>1, <3>1, <3>2
    <3>4. t[a] = s[i]
      <4>1. CASE i < p
        BY <2>3, <3>3, <4>1
      <4>2. CASE ~(i < p)
        <5>1. a = i - 1 /\ ~(a < p) /\ a + 1 = i
          BY <1>0, <2>1, <3>2, <4>2
        <5> QED
          BY <2>3, <3>3, <5>1
      <4> QED
        BY <4>1, <4>2
    <3>5. t[b] = s[j]
      <4>1. CASE j < p
        BY <2>3, <3>3, <4>1
      <4>2. CASE ~(j < p)
        <5>1. b = j - 1 /\ ~(b < p) /\ b + 1 = j
          BY <1>0, <2>1, <3>2, <4>2
        <5> QED
          BY <2>3, <3>3, <5>1
      <4> QED
        BY <4>1, <4>2
    <3> HIDE DEF a, b
    <3> QED
      BY <2>4, <3>1, <3>3, <3>4, <3>5 DEF Ahead
  <2> QED
    BY <2>2, <2>5, <2>6
<1> QED
  BY <1>1, <1>2

\* A key put in front is ahead of all, and the others are as they were.
LEMMA AheadFront ==
    ASSUME NEW S, NEW s \in Seq(S), Once(s), NEW k \in S, k \notin Listed(s), NEW x, NEW y
    PROVE  Ahead(y, x, <<k>> \o s) <=> Ahead(y, x, s) \/ (y = k /\ x \in Listed(s))
<1> DEFINE n == Len(s)
           t == <<k>> \o s
<1>1. /\ n \in Nat /\ Len(t) = n + 1 /\ t[1] = k /\ \A i \in 1..n : t[i + 1] = s[i]
      /\ Once(t)
  BY FrontAdds
<1>2. Listed(s) = {s[i] : i \in 1..n}
  BY DEF Listed
<1> HIDE DEF n, t
<1>3. ASSUME Ahead(y, x, t) PROVE Ahead(y, x, s) \/ (y = k /\ x \in Listed(s))
  <2>1. PICK i \in 1..n + 1, j \in 1..n + 1 : i < j /\ t[i] = y /\ t[j] = x
    BY <1>1, <1>3 DEF Ahead
  <2>2. j - 1 \in 1..n /\ j - 1 + 1 = j
    BY <1>1, <2>1
  <2>3. x = s[j - 1] /\ x \in Listed(s)
    BY <1>1, <1>2, <2>1, <2>2
  <2>4. CASE i = 1
    BY <1>1, <2>1, <2>3, <2>4
  <2>5. CASE i # 1
    <3>1. i - 1 \in 1..n /\ i - 1 + 1 = i /\ i - 1 < j - 1
      BY <1>1, <2>1, <2>5
    <3>2. y = s[i - 1]
      BY <1>1, <2>1, <3>1
    <3> QED
      BY <2>2, <2>3, <3>1, <3>2 DEF Ahead, n
  <2> QED
    BY <2>4, <2>5
<1>4. ASSUME Ahead(y, x, s) PROVE Ahead(y, x, t)
  <2>1. PICK i \in 1..n, j \in 1..n : i < j /\ s[i] = y /\ s[j] = x
    BY <1>4 DEF Ahead, n
  <2>2. i + 1 \in 1..n + 1 /\ j + 1 \in 1..n + 1 /\ i + 1 < j + 1
    BY <1>1, <2>1
  <2>3. t[i + 1] = y /\ t[j + 1] = x
    BY <1>1, <2>1
  <2> QED
    BY <1>1, <2>2, <2>3 DEF Ahead
<1>5. ASSUME y = k, x \in Listed(s) PROVE Ahead(y, x, t)
  <2>1. PICK j \in 1..n : s[j] = x
    BY <1>2, <1>5
  <2>2. 1 \in 1..n + 1 /\ j + 1 \in 1..n + 1 /\ 1 < j + 1 /\ t[j + 1] = x
    BY <1>1, <2>1
  <2> QED
    BY <1>1, <1>5, <2>2 DEF Ahead
<1> QED
  BY <1>3, <1>4, <1>5 DEF t

\* A use puts a key ahead of all, and moves no other.
LEMMA AheadToFront ==
    ASSUME NEW S, NEW s \in Seq(S), Once(s), NEW k \in S, NEW x, NEW y
    PROVE  Ahead(y, x, ToFront(k, s)) <=>
               \/ y = k /\ x \in Listed(s) \ {k}
               \/ y # k /\ x # k /\ Ahead(y, x, s)
<1> DEFINE t == Without(k, s)
<1>1. t \in Seq(S) /\ Once(t) /\ Listed(t) = Listed(s) \ {k}
  BY WithoutRemoves
<1>2. Ahead(y, x, t) <=> Ahead(y, x, s) /\ y # k /\ x # k
  BY AheadWithout
<1>3. ToFront(k, s) = <<k>> \o t
  BY DEF ToFront
<1> HIDE DEF t
<1>4. Ahead(y, x, <<k>> \o t) <=> Ahead(y, x, t) \/ (y = k /\ x \in Listed(t))
  BY <1>1, AheadFront
<1> QED
  BY <1>1, <1>2, <1>3, <1>4

\* The front of a list is in the order of the whole.
LEMMA FrontOf ==
    ASSUME NEW S, NEW s \in Seq(S), Once(s), NEW n \in Nat, n <= Len(s)
    PROVE  LET t == SubSeq(s, 1, n)
           IN  /\ t \in Seq(S) /\ Once(t) /\ Len(t) = n
               /\ Listed(t) = {s[i] : i \in 1..n}
               /\ \A x, y : Ahead(y, x, t) => Ahead(y, x, s)
<1> DEFINE t == SubSeq(s, 1, n)
<1>1. Len(s) \in Nat /\ \A i, j \in 1..Len(s) : s[i] = s[j] => i = j
  BY DEF Once
<1>2. t \in Seq(S) /\ Len(t) = n /\ \A i \in 1..n : t[i] = s[i] /\ i \in 1..Len(s)
  <2>1. \A i \in 1..n : i \in 1..Len(s) /\ s[i] \in S
    OBVIOUS
  <2>2. t = [i \in 1..n |-> s[i]]
    BY <1>1
  <2> QED
    BY <2>1, <2>2
<1> HIDE DEF t
<1>3. Once(t) /\ Listed(t) = {s[i] : i \in 1..n}
  BY <1>1, <1>2 DEF Once, Listed
<1>4. ASSUME NEW x, NEW y, Ahead(y, x, t) PROVE Ahead(y, x, s)
  <2>1. PICK i \in 1..n, j \in 1..n : i < j /\ t[i] = y /\ t[j] = x
    BY <1>2, <1>4 DEF Ahead
  <2> QED
    BY <1>2, <2>1 DEF Ahead
<1> QED
  BY <1>2, <1>3, <1>4 DEF t

-----------------------------------------------------------------------------
\* The lru, for every capacity and TTL, any keys and values, and a clock of any length.

\* The types, and what relates the list to the history of uses: the list is in its order,
\* and a key that went to make room has Capacity others ahead of it.
UseInv ==
    /\ recent \in Seq(Names) /\ Once(recent)
    /\ Listed(order) \subseteq Listed(recent) /\ wanted \subseteq Listed(recent)
    /\ \A x, y : Ahead(y, x, order) => Ahead(y, x, recent)
    /\ RecentlyUsedStay

LruInv == LruTypeOK /\ UseInv

\* The list after a Set of a new key, and who went for it.
LEMMA MakingRoom ==
    ASSUME LruTypeOK, NEW k \in Names, NEW v \in Values, SetNew(k, v)
    PROVE  /\ order' \in Seq(Names) /\ Once(order') /\ Len(order') <= Capacity
           /\ k \in Listed(order') /\ Listed(order') \subseteq Listed(order) \cup {k}
           /\ DOMAIN index' = Listed(order')
           /\ \A x, y : Ahead(y, x, order') => Ahead(y, x, ToFront(k, order))
           /\ \A x \in Listed(order) \ Listed(order') :
                 /\ Len(order') = Capacity
                 /\ \A y \in Listed(order') : Ahead(y, x, ToFront(k, order))
<1> DEFINE g == <<k>> \o order
           n == IF Len(g) <= Capacity THEN Len(g) ELSE Capacity
           t == SubSeq(g, 1, n)
<1>1. /\ order \in Seq(Names) /\ Once(order) /\ Len(order) <= Capacity
      /\ Listed(order) = DOMAIN index /\ Capacity \in Nat /\ Capacity > 0
      /\ Len(order) \in Nat
  BY LruAssumption DEF LruTypeOK
<1>2. /\ k \notin Listed(order) /\ order' = t /\ DOMAIN index' = Listed(t)
  BY <1>1 DEF SetNew
<1>3. ToFront(k, order) = g
  BY <1>2 DEF ToFront, Without
<1>4. /\ g \in Seq(Names) /\ Once(g) /\ Len(g) = Len(order) + 1 /\ g[1] = k
      /\ Listed(g) = Listed(order) \cup {k}
  BY <1>1, <1>2, FrontAdds
<1> HIDE DEF g
<1>5. n \in Nat /\ n <= Len(g) /\ n <= Capacity /\ 1 \in 1..n
      /\ (n = Len(g) \/ (n = Capacity /\ Len(g) = n + 1))
  BY <1>1, <1>4
<1> HIDE DEF n
<1>6. /\ t \in Seq(Names) /\ Once(t) /\ Len(t) = n
      /\ Listed(t) = {g[i] : i \in 1..n}
      /\ \A x, y : Ahead(y, x, t) => Ahead(y, x, g)
  BY <1>4, <1>5, FrontOf
<1> HIDE DEF t
<1>7. Listed(g) = {g[i] : i \in 1..Len(g)}
  BY DEF Listed
<1>8. k \in Listed(t) /\ Listed(t) \subseteq Listed(order) \cup {k}
  <2>1. Listed(t) \subseteq Listed(g)
    BY <1>4, <1>5, <1>6, <1>7
  <2> QED
    BY <1>4, <1>5, <1>6, <2>1
<1>9. ASSUME NEW x \in Listed(order) \ Listed(t)
      PROVE  n = Capacity /\ \A y \in Listed(t) : Ahead(y, x, g)
  <2>1. PICK j \in 1..Len(g) : g[j] = x
    BY <1>4, <1>7
  <2>2. j \notin 1..n
    BY <1>6, <1>9, <2>1
  <2>3. n = Capacity /\ j = n + 1
    BY <1>1, <1>4, <1>5, <2>1, <2>2
  <2>4. ASSUME NEW y \in Listed(t) PROVE Ahead(y, x, g)
    <3>1. PICK i \in 1..n : g[i] = y
      BY <1>6
    <3>2. i \in 1..Len(g) /\ i < j
      BY <1>1, <1>4, <1>5, <2>3
    <3> QED
      BY <2>1, <3>1, <3>2 DEF Ahead
  <2> QED
    BY <2>3, <2>4
<1> QED
  BY <1>1, <1>2, <1>3, <1>5, <1>6, <1>8, <1>9

\* An entry that is set is one.
LEMMA EntriesAreSet ==
    ASSUME LruTypeOK, NEW v \in Values
    PROVE  [value |-> v, expires |-> now + TTL] \in [value : Values, expires : Nat]
BY LruAssumption DEF LruTypeOK

\* Every operation keeps the types.
LEMMA LruTypes == LruTypeOK /\ [LruNext]_lruVars => LruTypeOK'
<1> SUFFICES ASSUME LruTypeOK, [LruNext]_lruVars PROVE LruTypeOK'
  OBVIOUS
<1>0. /\ now \in 0..LastTick /\ LastTick \in Nat
      /\ index \in [DOMAIN index -> [value : Values, expires : Nat]]
      /\ order \in Seq(Names) /\ Once(order) /\ Len(order) <= Capacity
      /\ Listed(order) = DOMAIN index /\ wanted \subseteq Names
  BY LruAssumption DEF LruTypeOK
<1>a. ASSUME NEW k \in Names
      PROVE  /\ ToFront(k, order) \in Seq(Names) /\ Once(ToFront(k, order))
             /\ Listed(ToFront(k, order)) = DOMAIN index \cup {k}
             /\ k \in DOMAIN index => Len(ToFront(k, order)) <= Capacity
  BY <1>0, ToFrontMoves
<1>b. ASSUME NEW k \in Names
      PROVE  /\ Without(k, order) \in Seq(Names) /\ Once(Without(k, order))
             /\ Listed(Without(k, order)) = DOMAIN index \ {k}
             /\ Len(Without(k, order)) <= Capacity
  <2>1. /\ Without(k, order) \in Seq(Names) /\ Once(Without(k, order))
        /\ Listed(Without(k, order)) = DOMAIN index \ {k}
        /\ Len(Without(k, order)) <= Len(order)
    BY <1>0, WithoutRemoves
  <2>2. Len(order) \in Nat /\ Len(Without(k, order)) \in Nat /\ Capacity \in Nat
    BY <1>0, <2>1, LruAssumption
  <2> QED
    BY <1>0, <2>1, <2>2
<1>c. ASSUME NEW k \in Names
      PROVE  LET h == Shrunk(index, {k})
             IN  DOMAIN h = DOMAIN index \ {k} /\ h \in [DOMAIN h -> [value : Values, expires : Nat]]
  BY <1>0 DEF Shrunk
<1>1. CASE UNCHANGED lruVars
  BY <1>1 DEF lruVars, LruTypeOK
<1>2. CASE LruTick
  <2>1. now' \in 0..LastTick
    BY <1>0, <1>2 DEF LruTick
  <2> QED
    BY <1>0, <1>2, <2>1 DEF LruTick, LruTypeOK
<1>3. ASSUME NEW k \in Names, Get(k) PROVE LruTypeOK'
  <2>1. CASE UNCHANGED <<now, index, order, recent, wanted>>
    BY <2>1 DEF LruTypeOK
  <2>2. CASE /\ index' = Shrunk(index, {k}) /\ order' = Without(k, order)
             /\ wanted' = wanted \ {k} /\ UNCHANGED <<now, recent>>
    BY <1>0, <1>b, <1>c, <2>2 DEF LruTypeOK
  <2>3. CASE /\ k \in DOMAIN index /\ order' = ToFront(k, order)
             /\ UNCHANGED <<now, index, wanted>>
    <3>1. DOMAIN index \cup {k} = DOMAIN index
      BY <2>3
    <3> QED
      BY <1>0, <1>a, <2>3, <3>1 DEF LruTypeOK
  <2> QED
    BY <1>3, <2>1, <2>2, <2>3 DEF Get
<1>4. ASSUME NEW k \in Names, Del(k) PROVE LruTypeOK'
  BY <1>0, <1>b, <1>c, <1>4 DEF Del, LruTypeOK
<1>5. ASSUME NEW k \in Names, NEW v \in Values, SetOld(k, v) PROVE LruTypeOK'
  <2> DEFINE e == [value |-> v, expires |-> now + TTL]
  <2>1. e \in [value : Values, expires : Nat]
    BY EntriesAreSet
  <2>2. /\ k \in DOMAIN index /\ index' = [index EXCEPT ![k] = e]
        /\ order' = ToFront(k, order) /\ wanted' = wanted \cup {k} /\ now' = now
    BY <1>5 DEF SetOld
  <2> HIDE DEF e
  <2>3. DOMAIN index' = DOMAIN index /\ index' \in [DOMAIN index -> [value : Values, expires : Nat]]
    BY <1>0, <2>1, <2>2
  <2>4. DOMAIN index \cup {k} = DOMAIN index
    BY <2>2
  <2> QED
    BY <1>0, <1>a, <2>2, <2>3, <2>4 DEF LruTypeOK
<1>6. ASSUME NEW k \in Names, NEW v \in Values, SetNew(k, v) PROVE LruTypeOK'
  <2> DEFINE e == [value |-> v, expires |-> now + TTL]
  <2>1. e \in [value : Values, expires : Nat]
    BY EntriesAreSet
  <2>2. /\ order' \in Seq(Names) /\ Once(order') /\ Len(order') <= Capacity
        /\ Listed(order') \subseteq DOMAIN index \cup {k} /\ DOMAIN index' = Listed(order')
    BY <1>0, <1>6, MakingRoom
  <2>3. /\ index' = [j \in Listed(order') |-> IF j = k THEN e ELSE index[j]]
        /\ wanted' = wanted \cup {k} /\ now' = now
    BY <1>6 DEF SetNew
  <2> HIDE DEF e
  <2>4. \A j \in Listed(order') : index'[j] \in [value : Values, expires : Nat]
    BY <1>0, <2>1, <2>2, <2>3
  <2>5. index' \in [DOMAIN index' -> [value : Values, expires : Nat]]
    BY <2>3, <2>4
  <2> QED
    BY <1>0, <2>2, <2>3, <2>5 DEF LruTypeOK
<1> QED
  BY <1>1, <1>2, <1>3, <1>4, <1>5, <1>6 DEF LruNext

LEMMA LruStarts == LruInit => LruInv
<1> SUFFICES ASSUME LruInit PROVE LruInv
  OBVIOUS
<1>1. /\ <<>> \in Seq(Names) /\ Once(<<>>) /\ Listed(<<>>) = {} /\ Len(<<>>) = 0
      /\ \A x, y : ~Ahead(y, x, <<>>)
  BY DEF Once, Listed, Ahead
<1>2. LruTypeOK
  BY <1>1, LruAssumption DEF LruInit, LruTypeOK
<1>3. UseInv
  BY <1>1 DEF LruInit, UseInv, RecentlyUsedStay
<1> QED
  BY <1>2, <1>3 DEF LruInv

\* The list and the map have the same keys, each once, and no more than Capacity.
THEOREM LruIsSound == LruSpec => []LruTypeOK
  BY LruStarts, LruTypes, PTL DEF LruSpec, LruInv

\* How many keys are ahead of one, and that putting another in front never lowers it.
Leading(x, s) == {y \in Listed(s) : Ahead(y, x, s)}

LEMMA LeadingGrows ==
    ASSUME NEW s \in Seq(Names), Once(s), NEW k \in Names, NEW x \in Listed(s), x # k
    PROVE  /\ x \in Listed(ToFront(k, s))
           /\ Leading(x, s) \subseteq Leading(x, ToFront(k, s))
           /\ k \in Leading(x, ToFront(k, s))
<1>1. Listed(ToFront(k, s)) = Listed(s) \cup {k}
  BY ToFrontMoves
<1>2. Ahead(k, x, ToFront(k, s))
  BY AheadToFront
<1>3. ASSUME NEW y \in Listed(s), Ahead(y, x, s) PROVE Ahead(y, x, ToFront(k, s))
  BY <1>2, <1>3, AheadToFront
<1> QED
  BY <1>1, <1>2, <1>3 DEF Leading

\* RecentlyUsedStay, by the keys that lead.
LEMMA StayByLeading ==
    ASSUME NEW s \in Seq(Names), Once(s), NEW x \in Listed(s)
    PROVE  /\ {s[i] : i \in 1..Place(x, s) - 1} = Leading(x, s)
           /\ IsFiniteSet(Leading(x, s)) /\ Cardinality(Leading(x, s)) \in Nat
           /\ \A T \in SUBSET Leading(x, s) :
                 IsFiniteSet(T) /\ Cardinality(T) <= Cardinality(Leading(x, s))
<1>1. {s[i] : i \in 1..Place(x, s) - 1} = Leading(x, s)
  BY AheadIsBefore DEF Leading
<1>2. IsFiniteSet(Leading(x, s))
  BY ListedOnce, FS_Subset DEF Leading
<1> QED
  BY <1>1, <1>2, FS_Subset, FS_CardinalityType

\* A use of k that leaves the list and the rest in order keeps the history right, if those
\* that lose their place have Capacity others ahead.
LEMMA UseKeeps ==
    ASSUME LruInv, NEW k \in Names, recent' = ToFront(k, recent), wanted' \subseteq wanted \cup {k},
           k \in Listed(order'), DOMAIN index' = Listed(order'),
           Listed(order') \subseteq Listed(order) \cup {k},
           \A x, y : Ahead(y, x, order') => Ahead(y, x, ToFront(k, order)),
           \A x \in Listed(order) \ Listed(order') :
              Capacity <= Cardinality(Leading(x, recent'))
    PROVE  UseInv'
<1>1. /\ recent \in Seq(Names) /\ Once(recent) /\ order \in Seq(Names) /\ Once(order)
      /\ Listed(order) \subseteq Listed(recent) /\ wanted \subseteq Listed(recent)
      /\ DOMAIN index = Listed(order) /\ Capacity \in Nat
      /\ \A x, y : Ahead(y, x, order) => Ahead(y, x, recent)
  BY LruAssumption DEF LruInv, LruTypeOK, UseInv
<1>2. recent' \in Seq(Names) /\ Once(recent') /\ Listed(recent') = Listed(recent) \cup {k}
  BY <1>1, ToFrontMoves
<1>3. ASSUME NEW x, NEW y, Ahead(y, x, order') PROVE Ahead(y, x, recent')
  <2>1. \/ y = k /\ x \in Listed(order) \ {k}
        \/ y # k /\ x # k /\ Ahead(y, x, order)
    BY <1>1, <1>3, AheadToFront
  <2>2. \/ y = k /\ x \in Listed(recent) \ {k}
        \/ y # k /\ x # k /\ Ahead(y, x, recent)
    BY <1>1, <2>1
  <2> QED
    BY <1>1, <2>2, AheadToFront
<1>4. ASSUME NEW x \in wanted' \ DOMAIN index'
      PROVE  Cardinality({recent'[i] : i \in 1..Place(x, recent') - 1}) >= Capacity
  <2>1. x # k /\ x \in wanted /\ x \in Listed(recent) /\ x \in Listed(recent')
    BY <1>1, <1>2, <1>4
  <2>2. {recent'[i] : i \in 1..Place(x, recent') - 1} = Leading(x, recent')
        /\ Cardinality(Leading(x, recent')) \in Nat
    BY <1>2, <2>1, StayByLeading
  <2>3. CASE x \in Listed(order)
    <3>1. x \in Listed(order) \ Listed(order')
      BY <1>4, <2>3
    <3>2. Capacity <= Cardinality(Leading(x, recent'))
      BY <3>1
    <3> HIDE DEF Leading
    <3>3. Cardinality(Leading(x, recent')) >= Capacity
      BY <1>1, <2>2, <3>2
    <3> QED
      BY <2>2, <3>3
  <2>4. CASE x \notin Listed(order)
    <3>1. Cardinality({recent[i] : i \in 1..Place(x, recent) - 1}) >= Capacity
      BY <1>1, <2>1, <2>4 DEF LruInv, UseInv, RecentlyUsedStay
    <3>2. Cardinality(Leading(x, recent)) >= Capacity /\ Cardinality(Leading(x, recent)) \in Nat
      BY <1>1, <2>1, <3>1, StayByLeading
    <3>3. Leading(x, recent) \subseteq Leading(x, recent')
      BY <1>1, <2>1, LeadingGrows
    <3>4. Cardinality(Leading(x, recent)) <= Cardinality(Leading(x, recent'))
      BY <1>2, <2>1, <3>3, StayByLeading
    <3>5. Cardinality(Leading(x, recent')) >= Capacity
      BY <1>1, <2>2, <3>2, <3>4
    <3> QED
      BY <2>2, <3>5
  <2> QED
    BY <2>3, <2>4
<1>5. Listed(order') \subseteq Listed(recent') /\ wanted' \subseteq Listed(recent')
  BY <1>1, <1>2
<1>6. RecentlyUsedStay'
  BY <1>4 DEF RecentlyUsedStay, Place
<1>7. \A x, y : Ahead(y, x, order') => Ahead(y, x, recent')
  BY <1>3
<1> QED
  BY <1>2, <1>5, <1>6, <1>7 DEF UseInv, Once, Listed, Ahead

\* Dropping a key from the list keeps the history right.
LEMMA DropKeeps ==
    ASSUME LruInv, NEW k \in Names, recent' = recent, wanted' = wanted \ {k},
           order' = Without(k, order), index' = Shrunk(index, {k})
    PROVE  UseInv'
<1>1. /\ order \in Seq(Names) /\ Once(order) /\ Listed(order) = DOMAIN index
      /\ Listed(order) \subseteq Listed(recent) /\ wanted \subseteq Listed(recent)
      /\ \A x, y : Ahead(y, x, order) => Ahead(y, x, recent)
  BY DEF LruInv, LruTypeOK, UseInv
<1>2. Listed(order') = Listed(order) \ {k} /\ DOMAIN index' = DOMAIN index \ {k}
  BY <1>1, WithoutRemoves DEF Shrunk
<1>3. \A x, y : Ahead(y, x, order') => Ahead(y, x, recent')
  BY <1>1, AheadWithout
<1>4. wanted' \ DOMAIN index' \subseteq wanted \ DOMAIN index
  BY <1>2
<1>5. RecentlyUsedStay'
  <2>1. ASSUME NEW x \in wanted' \ DOMAIN index'
        PROVE  Cardinality({recent'[i] : i \in 1..Place(x, recent') - 1}) >= Capacity
    <3>1. Cardinality({recent[i] : i \in 1..Place(x, recent) - 1}) >= Capacity
      BY <1>4, <2>1 DEF LruInv, UseInv, RecentlyUsedStay
    <3>2. Place(x, recent') = Place(x, recent)
      OBVIOUS
    <3> QED
      BY <3>1, <3>2
  <2> QED
    BY <2>1 DEF RecentlyUsedStay, Place
<1>6. recent' \in Seq(Names) /\ Once(recent')
      /\ Listed(order') \subseteq Listed(recent') /\ wanted' \subseteq Listed(recent')
  BY <1>1, <1>2 DEF LruInv, UseInv
<1> QED
  BY <1>3, <1>5, <1>6 DEF UseInv, Once, Listed, Ahead

\* A use of a key that has an entry takes no other's.
LEMMA HitKeeps ==
    ASSUME LruInv, NEW k \in DOMAIN index, k \in Names, recent' = ToFront(k, recent),
           wanted' \subseteq wanted \cup {k}, order' = ToFront(k, order),
           DOMAIN index' = DOMAIN index
    PROVE  UseInv'
<1>1. /\ order \in Seq(Names) /\ Once(order) /\ Listed(order) = DOMAIN index
  BY DEF LruInv, LruTypeOK
<1>2. Listed(order') = Listed(order)
  <2>1. Listed(order') = Listed(order) \cup {k}
    BY <1>1, ToFrontMoves
  <2> QED
    BY <1>1, <2>1
<1> QED
  BY <1>1, <1>2, UseKeeps

\* Nor does a Set of a new key, but of one that Capacity others were used after.
LEMMA NewKeeps ==
    ASSUME LruInv, NEW k \in Names, NEW v \in Values, SetNew(k, v)
    PROVE  UseInv'
<1>1. /\ recent \in Seq(Names) /\ Once(recent) /\ order \in Seq(Names) /\ Once(order)
      /\ Listed(order) \subseteq Listed(recent) /\ DOMAIN index = Listed(order)
      /\ \A x, y : Ahead(y, x, order) => Ahead(y, x, recent)
  BY DEF LruInv, LruTypeOK, UseInv
<1>2. recent' = ToFront(k, recent) /\ wanted' = wanted \cup {k} /\ k \notin Listed(order)
  BY <1>1 DEF SetNew
<1>3. /\ order' \in Seq(Names) /\ Once(order')
      /\ k \in Listed(order') /\ Listed(order') \subseteq Listed(order) \cup {k}
      /\ DOMAIN index' = Listed(order')
      /\ \A x, y : Ahead(y, x, order') => Ahead(y, x, ToFront(k, order))
      /\ \A x \in Listed(order) \ Listed(order') :
            /\ Len(order') = Capacity
            /\ \A y \in Listed(order') : Ahead(y, x, ToFront(k, order))
  BY MakingRoom DEF LruInv
<1>4. recent' \in Seq(Names) /\ Once(recent') /\ Listed(recent') = Listed(recent) \cup {k}
  BY <1>1, <1>2, ToFrontMoves
<1>5. ASSUME NEW x \in Listed(order) \ Listed(order')
      PROVE  Capacity <= Cardinality(Leading(x, recent'))
  <2>1. x # k /\ x \in Listed(recent')
    BY <1>1, <1>2, <1>4
  <2>2. ASSUME NEW y \in Listed(order') PROVE y \in Leading(x, recent')
    <3>1. Ahead(y, x, ToFront(k, order))
      BY <1>3, <1>5
    <3>2. \/ y = k /\ x \in Listed(order) \ {k}
          \/ y # k /\ x # k /\ Ahead(y, x, order)
      BY <1>1, <3>1, AheadToFront
    <3>3. \/ y = k /\ x \in Listed(recent) \ {k}
          \/ y # k /\ x # k /\ Ahead(y, x, recent)
      BY <1>1, <3>2
    <3>4. Ahead(y, x, recent')
      BY <1>1, <1>2, <3>3, AheadToFront
    <3>5. y \in Listed(recent')
      BY <1>1, <1>3, <1>4
    <3> QED
      BY <3>4, <3>5 DEF Leading
  <2>3. Cardinality(Listed(order')) = Capacity
    BY <1>3, <1>5, ListedOnce
  <2> QED
    BY <1>4, <2>1, <2>2, <2>3, StayByLeading
<1>6. wanted' \subseteq wanted \cup {k}
  BY <1>2
<1> QED
  BY <1>2, <1>3, <1>5, <1>6, UseKeeps

\* Every operation keeps the history right.
LEMMA LruUses == LruInv /\ [LruNext]_lruVars => LruInv'
<1> SUFFICES ASSUME LruInv, [LruNext]_lruVars PROVE UseInv'
  BY LruTypes DEF LruInv
<1>1. CASE UNCHANGED <<index, order, recent, wanted>>
  <2>1. index' = index /\ order' = order /\ recent' = recent /\ wanted' = wanted
    BY <1>1
  <2>2. /\ recent \in Seq(Names) /\ Once(recent)
        /\ Listed(order) \subseteq Listed(recent) /\ wanted \subseteq Listed(recent)
        /\ \A x, y : Ahead(y, x, order) => Ahead(y, x, recent)
        /\ RecentlyUsedStay
    BY DEF LruInv, UseInv
  <2>3. RecentlyUsedStay'
    BY <2>1, <2>2 DEF RecentlyUsedStay
  <2>4. /\ recent' \in Seq(Names) /\ Once(recent')
        /\ Listed(order') \subseteq Listed(recent') /\ wanted' \subseteq Listed(recent')
        /\ \A x, y : Ahead(y, x, order') => Ahead(y, x, recent')
    BY <2>1, <2>2
  <2> QED  BY <2>3, <2>4 DEF UseInv
<1>2. CASE LruTick \/ UNCHANGED lruVars
  BY <1>1, <1>2 DEF LruTick, lruVars
<1>3. ASSUME NEW k \in Names, Get(k) PROVE UseInv'
  <2>1. CASE /\ index' = Shrunk(index, {k}) /\ order' = Without(k, order)
             /\ wanted' = wanted \ {k} /\ UNCHANGED <<now, recent>>
    BY <2>1, DropKeeps
  <2>2. CASE /\ k \in DOMAIN index /\ order' = ToFront(k, order)
             /\ recent' = ToFront(k, recent) /\ UNCHANGED <<now, index, wanted>>
    BY <2>2, HitKeeps
  <2> QED
    BY <1>1, <1>3, <2>1, <2>2 DEF Get
<1>4. ASSUME NEW k \in Names, Del(k) PROVE UseInv'
  BY <1>4, DropKeeps DEF Del
<1>5. ASSUME NEW k \in Names, NEW v \in Values, SetOld(k, v) PROVE UseInv'
  <2>1. /\ k \in DOMAIN index /\ order' = ToFront(k, order) /\ recent' = ToFront(k, recent)
        /\ wanted' \subseteq wanted \cup {k} /\ DOMAIN index' = DOMAIN index
    BY <1>5 DEF SetOld
  <2> QED
    BY <2>1, HitKeeps
<1>6. ASSUME NEW k \in Names, NEW v \in Values, SetNew(k, v) PROVE UseInv'
  BY <1>6, NewKeeps
<1> QED
  BY <1>2, <1>3, <1>4, <1>5, <1>6 DEF LruNext

\* "Evicting the least recently used": an entry goes without being deleted or expired only
\* when Capacity other keys were used after it, in every history.
THEOREM LruEvictsTheLeastUsed == LruSpec => []RecentlyUsedStay
<1>1. LruInv => RecentlyUsedStay
  BY DEF LruInv, UseInv
<1> QED
  BY <1>1, LruStarts, LruUses, PTL DEF LruSpec

\* Every operation of the lru is the store's: what Get returns was set last for the key and
\* has not expired, whatever was evicted meanwhile.
LEMMA LruStepsAreTheStores ==
    LruTypeOK /\ [LruNext]_lruVars => [Store!StoreNext]_(Store!storeVars)
<1> SUFFICES ASSUME LruTypeOK, LruNext PROVE Store!StoreNext
  BY DEF lruVars, Store!storeVars
<1>0. /\ now \in Nat /\ Listed(order) = DOMAIN index
      /\ \A k \in DOMAIN index : index[k].expires \in Nat
  BY DEF LruTypeOK
<1>1. CASE LruTick
  <2>1. Store!Passes
    BY <1>0, <1>1 DEF LruTick, Store!Passes, Store!Forgets, Nothing, Store!Nothing
  <2> QED
    BY <2>1 DEF Store!StoreNext
<1>2. ASSUME NEW k \in Names, Get(k) PROVE Store!Fetch(k)
  <2>1. CASE /\ index' = Shrunk(index, {k}) /\ answer' = [key |-> {k}, got |-> {}]
             /\ UNCHANGED now
    BY <2>1 DEF Shrunk, Store!Fetch, Store!Forgets
  <2>2. CASE /\ index' = index /\ answer' = [key |-> {k}, got |-> {}] /\ UNCHANGED now
    BY <2>2 DEF Store!Fetch, Store!Forgets
  <2>3. CASE /\ k \in DOMAIN index /\ now <= index[k].expires /\ index' = index
             /\ answer' = [key |-> {k}, got |-> {index[k].value}] /\ UNCHANGED now
    <3>1. ~(index[k].expires < now)
      BY <1>0, <2>3
    <3> QED
      BY <2>3, <3>1 DEF Store!Fetch, Store!Forgets
  <2> QED
    BY <1>2, <2>1, <2>2, <2>3 DEF Get
<1>3. ASSUME NEW k \in Names, Del(k) PROVE Store!Delete(k)
  BY <1>3 DEF Del, Shrunk, Store!Delete, Store!Forgets, Nothing, Store!Nothing
<1>4. ASSUME NEW k \in Names, NEW v \in Values, SetOld(k, v) PROVE Store!Put(k, v)
  <2> DEFINE e == [value |-> v, expires |-> now + TTL]
  <2>1. k \in DOMAIN index /\ index' = [index EXCEPT ![k] = e] /\ answer' = Nothing /\ now' = now
    BY <1>4 DEF SetOld
  <2> HIDE DEF e
  <2>2. DOMAIN index' = DOMAIN index \cup {k}
        /\ \A j \in DOMAIN index' : index'[j] = IF j = k THEN e ELSE index[j]
    BY <2>1
  <2> QED
    BY <2>1, <2>2 DEF e, Store!Put, Store!Forgets, Nothing, Store!Nothing
<1>5. ASSUME NEW k \in Names, NEW v \in Values, SetNew(k, v) PROVE Store!Put(k, v)
  <2> DEFINE e == [value |-> v, expires |-> now + TTL]
  <2>1. Listed(order') \subseteq DOMAIN index \cup {k}
    BY <1>0, <1>5, MakingRoom
  <2>2. /\ index' = [j \in Listed(order') |-> IF j = k THEN e ELSE index[j]]
        /\ answer' = Nothing /\ now' = now
    BY <1>5 DEF SetNew
  <2> HIDE DEF e
  <2> QED
    BY <2>1, <2>2 DEF e, Store!Put, Store!Forgets, Nothing, Store!Nothing
<1>6. ASSUME NEW k \in Names,
             Get(k) \/ Del(k) \/ \E v \in Values : SetOld(k, v) \/ SetNew(k, v)
      PROVE  Store!StoreNext
  BY <1>2, <1>3, <1>4, <1>5, <1>6 DEF Store!StoreNext
<1> QED
  BY <1>1, <1>6 DEF LruNext

\* The lru implements the store its callers ask for, for every capacity.
THEOREM LruImplementsStore == LruSpec => LruIsAStore
<1>1. LruInit => Store!StoreInit
  BY DEF LruInit, Store!StoreInit, Nothing, Store!Nothing
<1>2. LruSpec => []LruTypeOK
  BY LruIsSound
<1> QED
  BY <1>1, <1>2, LruStepsAreTheStores, PTL DEF LruSpec, LruIsAStore, Store!StoreSpec

-----------------------------------------------------------------------------
\* The rate limit, for every set of requests, keys and rates, and for a clock of any length.
\* The invariant is an account: what a bucket holds, and what it has let go since one of its
\* requests, were either in it then or have come in.

\* The types the account needs: nothing is said of the list.
AccountTypeOK ==
    /\ clock \in Nat
    /\ DOMAIN buckets \subseteq Keys
    /\ \A k \in DOMAIN buckets : buckets[k].n \in Int /\ buckets[k].last \in Nat
    /\ caller \in [Callers -> Caller]
    /\ \A c \in Callers : caller[c].at = "timed" => caller[c].key \in Keys
    /\ admitted \in [Keys -> Nat]
    /\ windows \in [Keys -> SUBSET [now : Nat, before : Nat]]

\* No request holds a time that is yet to come, and no bucket one.
TimesArePast ==
    /\ \A c \in Callers : caller[c].at = "timed" => caller[c].now <= clock
    /\ \A k \in DOMAIN buckets : buckets[k].last <= clock

\* A bucket that is overdrawn, by a request of an earlier time, owes no more than has
\* come in since that time.
DebtIsCovered ==
    \A k \in DOMAIN buckets :
        buckets[k].n + Quota[k].requests * (clock - buckets[k].last) >= 0

\* The account of each bucket, from each of its requests.
Accounts ==
    \A k \in DOMAIN buckets : \A w \in windows[k] :
        Quota[k].window * (admitted[k] - w.before) + buckets[k].n
            <= Full(k) + Quota[k].requests * (buckets[k].last - w.now)

AccountInv == AccountTypeOK /\ TimesArePast /\ DebtIsCovered /\ Accounts

-----------------------------------------------------------------------------
\* A rate is made of positive numbers, and a full bucket has a token at least.
LEMMA QuotaTypes ==
    ASSUME NEW k \in Keys
    PROVE  /\ Quota[k].requests \in Nat /\ Quota[k].requests > 0
           /\ Quota[k].window \in Nat /\ Quota[k].window > 0
           /\ Full(k) \in Nat /\ Full(k) >= Quota[k].window
<1>1. Quota[k] \in [requests : Nat \ {0}, window : Nat \ {0}, burst : Nat \ {0}]
  BY RateAssumption
<1> DEFINE b == Quota[k].burst
           w == Quota[k].window
<1>2. b \in Nat /\ b > 0 /\ w \in Nat /\ w > 0
  BY <1>1
<1> HIDE DEF b, w
<1>3. b * w \in Nat /\ b * w >= w
  <2>1. b * w = (b - 1) * w + w
    BY <1>2
  <2>2. (b - 1) * w \in Nat
    BY <1>2
  <2> QED
    BY <1>2, <2>1, <2>2
<1>4. Full(k) = b * w
  BY DEF Full, b, w
<1> QED
  BY <1>1, <1>2, <1>3, <1>4 DEF w

\* A later clock covers more.
LEMMA MoreComesIn ==
    ASSUME NEW r \in Nat, NEW x \in Int, NEW y \in Int, x <= y
    PROVE  r * x <= r * y
<1>1. r * (y - x) >= 0
  BY SMT
<1>2. r * (y - x) = r * y - r * x
  BY SMT
<1>3. r * x \in Int /\ r * y \in Int
  BY SMT
<1> QED
  BY <1>1, <1>2, <1>3

\* What comes in over two stretches of time is what comes in over both.
LEMMA Stretches ==
    ASSUME NEW r \in Nat, NEW x \in Int, NEW y \in Int, NEW z \in Int
    PROVE  r * (y - x) + r * (z - y) = r * (z - x)
  BY SMT

\* What Decide does to the account of the bucket it decides by: n is what the bucket
\* holds now, d one of the histories, and what is let go is counted.
LEMMA OneMore ==
    ASSUME NEW w \in Nat, NEW a \in Nat, NEW b \in Nat
    PROVE  w * (a + 1 - b) = w * (a - b) + w
  BY SMT

\* Rounding up: so many ticks bring in what is short, and no negative number of them.
LEMMA RoundingUp ==
    ASSUME NEW short \in Nat, NEW r \in Nat, r > 0
    PROVE  /\ (short + r - 1) \div r \in Nat
           /\ r * ((short + r - 1) \div r) >= short
<1> DEFINE a == short + r - 1
           q == a \div r
           m == a % r
<1>1. a \in Nat
  BY SMT
<1>2. q \in Int /\ m \in 0..(r - 1) /\ a = r * q + m
  BY <1>1, SMT DEF q, m
<1>3. q >= 0
  <2>1. SUFFICES ASSUME q <= -1 PROVE FALSE
    BY <1>2
  <2>2. r * q <= r * (-1)
    BY <1>2, <2>1, MoreComesIn
  <2>3. r * q \in Int /\ r * (-1) = -r
    BY <1>2
  <2> HIDE DEF a, q, m
  <2> QED
    BY <1>1, <1>2, <2>2, <2>3
<1>4. r * q \in Int
  BY <1>2
<1>5. r * q >= short
  BY <1>2, <1>4 DEF a
<1> QED
  BY <1>2, <1>3, <1>5

\* Rounding down: the ticks counted do not bring in what is short, and one more do.
LEMMA RoundingDown ==
    ASSUME NEW short \in Nat, NEW r \in Nat, r > 0
    PROVE  /\ short \div r \in Nat
           /\ r * (short \div r) <= short /\ short < r * (short \div r + 1)
<1> DEFINE q == short \div r
           m == short % r
<1>1. q \in Int /\ m \in 0..(r - 1) /\ short = r * q + m
  BY SMT DEF q, m
<1>2. q >= 0
  <2>1. SUFFICES ASSUME q <= -1 PROVE FALSE
    BY <1>1
  <2>2. r * q <= r * (-1)
    BY <1>1, <2>1, MoreComesIn
  <2>3. r * q \in Int /\ r * (-1) = -r
    BY <1>1
  <2> HIDE DEF q, m
  <2> QED
    BY <1>1, <2>2, <2>3
<1>3. r * (q + 1) = r * q + r /\ r * q \in Int
  BY <1>1
<1> HIDE DEF q, m
<1>4. q \in Nat /\ r * q <= short /\ short < r * (q + 1)
  BY <1>1, <1>2, <1>3
<1> QED
  BY <1>4 DEF q

\* What a caller that is refused is told to wait is a number of ticks; one more bring in
\* what is short of a token, one fewer do not.
LEMMA OwedIsTicks ==
    ASSUME NEW k \in Keys, NEW n \in Int, n < Quota[k].window
    PROVE  /\ Owed(k, n) \in Nat
           /\ \A t \in Nat : t > Owed(k, n) => n + t * Quota[k].requests >= Quota[k].window
           /\ \A t \in Nat : t < Owed(k, n) => n + t * Quota[k].requests < Quota[k].window
<1> DEFINE short == Quota[k].window - n
           R == Quota[k].requests
           q == Owed(k, n)
<1>1. short \in Nat /\ Quota[k].window \in Nat /\ R \in Nat /\ R > 0
  BY QuotaTypes
<1>2. q = short \div R
  BY DEF Owed
<1>3. q \in Nat /\ R * q <= short /\ short < R * (q + 1)
  <2> HIDE DEF short, R, q
  <2> QED
    BY <1>1, <1>2, RoundingDown
<1>4. ASSUME NEW t \in Nat, t > q PROVE n + t * R >= Quota[k].window
  <2>1. R * (q + 1) <= R * t /\ R * t = t * R /\ t * R \in Int
    <3> HIDE DEF short, R, q
    <3> QED
      BY <1>1, <1>3, <1>4, MoreComesIn
  <2>2. short < t * R
    <3> HIDE DEF short, R, q
    <3> QED
      BY <1>1, <1>3, <2>1
  <2> HIDE DEF R, q
  <2> QED
    BY <1>1, <2>1, <2>2
<1>5. ASSUME NEW t \in Nat, t < q PROVE n + t * R < Quota[k].window
  <2>1. R * (t + 1) <= R * q /\ R * (t + 1) = t * R + R /\ t * R \in Int
    <3> HIDE DEF short, R, q
    <3> QED
      BY <1>1, <1>3, <1>5, MoreComesIn
  <2>2. t * R < short
    <3> HIDE DEF short, R, q
    <3> QED
      BY <1>1, <1>3, <2>1
  <2> HIDE DEF R, q
  <2> QED
    BY <1>1, <2>1, <2>2
<1> QED
  BY <1>3, <1>4, <1>5

\* The header says no less than the wait it is made of.
LEMMA HeadersRoundUp ==
    ASSUME NEW retry \in Nat
    PROVE  Second * RetryAfter(retry) \in Nat /\ Second * RetryAfter(retry) >= retry
<1>1. Second \in Nat /\ Second > 0
  BY RateAssumption
<1>2. CASE retry = 0
  BY <1>1, <1>2 DEF RetryAfter
<1>3. CASE retry # 0
  <2> DEFINE s == (retry + Second - 1) \div Second
  <2>1. s \in Nat /\ Second * s >= retry
    BY <1>1, RoundingUp
  <2>2. RetryAfter(retry) = s
    BY <1>3 DEF RetryAfter
  <2> HIDE DEF s
  <2> QED
    BY <1>1, <2>1, <2>2
<1> QED
  BY <1>2, <1>3

\* What a bucket holds at a time is a number, no more than its burst.
LEMMA RefilledBounds ==
    ASSUME AccountTypeOK, NEW k \in DOMAIN buckets, NEW time \in Nat
    PROVE  /\ Refilled(k, time) \in Int
           /\ Refilled(k, time) <= Full(k)
           /\ Refilled(k, time)
                <= buckets[k].n + Quota[k].requests * (time - buckets[k].last)
<1> DEFINE r == Quota[k].requests
           t == time - buckets[k].last
<1>1. k \in Keys /\ buckets[k].n \in Int /\ buckets[k].last \in Nat
  BY DEF AccountTypeOK
<1>2. r \in Nat /\ Full(k) \in Nat /\ t \in Int
  BY <1>1, QuotaTypes
<1>3. Refilled(k, time) = Least(Full(k), buckets[k].n + t * r)
  BY DEF Refilled
<1> HIDE DEF r, t
<1>4. t * r = r * t /\ r * t \in Int
  BY <1>2
<1>5. /\ Refilled(k, time) \in Int
      /\ Refilled(k, time) <= Full(k)
      /\ Refilled(k, time) <= buckets[k].n + r * t
  BY <1>1, <1>2, <1>3, <1>4 DEF Least
<1> QED
  BY <1>5 DEF r, t

-----------------------------------------------------------------------------
LEMMA InitAccounts == RateInit => AccountInv
  BY RateAssumption DEF RateInit, AccountInv, AccountTypeOK, TimesArePast, DebtIsCovered,
                        Accounts, NewCaller, Caller

\* The clock: nothing else changes, and what was covered still is.
LEMMA TickAccounts ==
    ASSUME AccountInv, RateTick
    PROVE  AccountInv'
<1>1. PICK t \in clock + 1 .. MaxTime : clock' = t
  BY DEF RateTick
<1>2. clock' \in Nat /\ clock < clock'
  BY <1>1, RateAssumption DEF AccountInv, AccountTypeOK
<1>3. /\ buckets' = buckets /\ caller' = caller
      /\ admitted' = admitted /\ windows' = windows
  BY DEF RateTick
<1>4. AccountTypeOK'
  BY <1>2, <1>3 DEF AccountInv, AccountTypeOK
<1>5. TimesArePast'
  BY <1>2, <1>3 DEF AccountInv, AccountTypeOK, TimesArePast, Caller
<1>6. DebtIsCovered'
  <2>1. SUFFICES ASSUME NEW k \in DOMAIN buckets
                 PROVE  buckets[k].n + Quota[k].requests * (clock' - buckets[k].last) >= 0
    BY <1>3 DEF DebtIsCovered
  <2> DEFINE r == Quota[k].requests
             x == clock - buckets[k].last
             y == clock' - buckets[k].last
  <2>2. /\ r \in Nat /\ x \in Int /\ y \in Int /\ x <= y /\ buckets[k].n \in Int
        /\ buckets[k].n + r * x >= 0
    BY <1>2, QuotaTypes DEF AccountInv, AccountTypeOK, DebtIsCovered
  <2> HIDE DEF r, x, y
  <2>3. r * x <= r * y /\ r * x \in Int /\ r * y \in Int
    BY <2>2, MoreComesIn
  <2>4. buckets[k].n + r * y >= 0
    BY <2>2, <2>3
  <2> QED
    BY <2>4 DEF r, y
<1>7. Accounts'
  BY <1>3 DEF AccountInv, Accounts, Full
<1> QED
  BY <1>4, <1>5, <1>6, <1>7 DEF AccountInv

\* A request reads the clock.
LEMMA ArriveAccounts ==
    ASSUME AccountInv, NEW c \in Callers, NEW k \in Keys, RateArrive(c, k)
    PROVE  AccountInv'
<1>1. /\ clock' = clock /\ buckets' = buckets
      /\ admitted' = admitted /\ windows' = windows
  BY DEF RateArrive
<1>2. /\ caller' \in [Callers -> Caller]
      /\ \A d \in Callers : caller'[d].at = "timed" =>
             caller'[d].key \in Keys /\ caller'[d].now <= clock
  <2>1. caller' = [caller EXCEPT ![c] = [@ EXCEPT !.at = "timed", !.key = k, !.now = clock]]
    BY DEF RateArrive, AccountInv, AccountTypeOK
  <2>2. [caller[c] EXCEPT !.at = "timed", !.key = k, !.now = clock] \in Caller
    BY DEF AccountInv, AccountTypeOK, Caller
  <2>3. \A d \in Callers :
            caller'[d] = IF d = c
                         THEN [caller[c] EXCEPT !.at = "timed", !.key = k, !.now = clock]
                         ELSE caller[d]
    BY <2>1 DEF AccountInv, AccountTypeOK
  <2>4. caller' \in [Callers -> Caller]
    BY <2>1, <2>2 DEF AccountInv, AccountTypeOK
  <2>5. ASSUME NEW d \in Callers, caller'[d].at = "timed"
        PROVE  caller'[d].key \in Keys /\ caller'[d].now <= clock
    <3>1. CASE d = c
      <4>1. caller'[d].key = k /\ caller'[d].now = clock
        BY <2>3, <3>1 DEF AccountInv, AccountTypeOK, Caller
      <4> QED
        BY <4>1 DEF AccountInv, AccountTypeOK
    <3>2. CASE d # c
      BY <2>3, <2>5, <3>2 DEF AccountInv, AccountTypeOK, TimesArePast
    <3> QED
      BY <3>1, <3>2
  <2> QED
    BY <2>4, <2>5
<1>3. AccountTypeOK' /\ TimesArePast'
  BY <1>1, <1>2 DEF AccountInv, AccountTypeOK, TimesArePast
<1>4. DebtIsCovered' /\ Accounts'
  BY <1>1 DEF AccountInv, DebtIsCovered, Accounts, Full
<1> QED
  BY <1>3, <1>4 DEF AccountInv

\* One is excused.
LEMMA ExcuseAccounts ==
    ASSUME AccountInv, NEW c \in Callers, RateExcuse(c)
    PROVE  AccountInv'
<1>1. /\ clock' = clock /\ buckets' = buckets
      /\ admitted' = admitted /\ windows' = windows
  BY DEF RateExcuse
<1>2. /\ caller' \in [Callers -> Caller]
      /\ \A d \in Callers : caller'[d].at = "timed" =>
             caller'[d].key \in Keys /\ caller'[d].now <= clock
  <2> DEFINE q == [caller[c] EXCEPT !.at = "done", !.ok = TRUE]
  <2>1. /\ caller \in [Callers -> Caller] /\ caller[c] \in Caller
        /\ \A d \in Callers : caller[d].at = "timed" =>
               caller[d].key \in Keys /\ caller[d].now <= clock
    BY DEF AccountInv, AccountTypeOK, TimesArePast
  <2>2. q \in Caller /\ q.at = "done"
    BY <2>1 DEF Caller
  <2>3. caller' = [caller EXCEPT ![c] = q]
    BY <2>1 DEF RateExcuse
  <2> HIDE DEF q
  <2> QED
    BY <2>1, <2>2, <2>3
<1>3. AccountTypeOK' /\ TimesArePast'
  BY <1>1, <1>2 DEF AccountInv, AccountTypeOK, TimesArePast
<1>4. DebtIsCovered' /\ Accounts'
  BY <1>1 DEF AccountInv, DebtIsCovered, Accounts, Full
<1> QED
  BY <1>3, <1>4 DEF AccountInv

\* The end of Take, whichever way the bucket came by its n: an account that was in
\* order before the request's token is taken is in order after.
LEMMA DecideAccounts ==
    ASSUME AccountInv, clock' = clock,
           NEW c \in Callers, caller[c].at = "timed",
           NEW k \in Keys, k = caller[c].key,
           NEW n \in Int, n <= Full(k),
           n + Quota[k].requests * (clock - caller[c].now) >= 0,
           NEW had \in Nat,
           NEW evicted,
           NEW opened \in SUBSET [now : Nat, before : Nat],
           \A w \in opened :
               Quota[k].window * (had - w.before) + n
                   <= Full(k) + Quota[k].requests * (caller[c].now - w.now),
           Decide(c, k, n, had, evicted, opened)
    PROVE  AccountInv'
<1> DEFINE others == DOMAIN buckets \ evicted
           time == caller[c].now
           ok  == n >= Quota[k].window
           n2  == IF ok THEN n - Quota[k].window ELSE n
           let == IF ok THEN had + 1 ELSE had
           W   == Quota[k].window
           R   == Quota[k].requests
<1>0. /\ clock \in Nat /\ time \in Nat /\ time <= clock
      /\ W \in Nat /\ W > 0 /\ R \in Nat /\ R > 0
      /\ Full(k) \in Nat
  BY QuotaTypes DEF AccountInv, AccountTypeOK, TimesArePast, Caller
<1>1. /\ buckets' = [j \in others \cup {k} |->
                        IF j = k THEN [n |-> n2, last |-> time] ELSE buckets[j]]
      /\ caller' = [caller EXCEPT ![c].at = "done", ![c].ok = ok, ![c].before = had,
                                  ![c].retry = IF ok THEN 0 ELSE Owed(k, n2)]
      /\ admitted' = [admitted EXCEPT ![k] = let]
      /\ windows' = [windows EXCEPT ![k] = opened \cup {[now |-> time, before |-> had]}]
  BY DEF Decide
<1>2. n2 \in Int /\ let \in Nat /\ ok \in BOOLEAN
  BY <1>0
<1>3. (IF ok THEN 0 ELSE Owed(k, n2)) \in Nat
  BY <1>0, OwedIsTicks
<1> HIDE DEF W, R, others
<1>4. n2 + R * (clock - time) >= 0
  <2>1. R * (clock - time) >= R * 0 /\ R * 0 = 0 /\ R * (clock - time) \in Int
    BY <1>0, MoreComesIn
  <2>2. CASE ok
    BY <1>0, <2>1, <2>2 DEF W
  <2>3. CASE ~ok
    BY <2>3 DEF R
  <2> QED
    BY <2>2, <2>3
<1>5. \A w \in opened \cup {[now |-> time, before |-> had]} :
          W * (let - w.before) + n2 <= Full(k) + R * (time - w.now)
  <2>1. SUFFICES ASSUME NEW w \in opened \cup {[now |-> time, before |-> had]}
                 PROVE  W * (let - w.before) + n2 <= Full(k) + R * (time - w.now)
    OBVIOUS
  <2>2. w.before \in Nat /\ w.now \in Nat
    BY <1>0
  <2>3. W * (had - w.before) + n <= Full(k) + R * (time - w.now)
    <3>1. CASE w \in opened
      BY <3>1 DEF W, R
    <3>2. CASE w = [now |-> time, before |-> had]
      <4>1. w.before = had /\ w.now = time
        BY <3>2
      <4>2. W * (had - w.before) = 0 /\ R * (time - w.now) = 0
        BY <1>0, <4>1
      <4> QED
        BY <1>0, <4>2
    <3> QED
      BY <2>1, <3>1, <3>2
  <2>4. W * (had + 1 - w.before) = W * (had - w.before) + W
    BY <1>0, <2>2, OneMore
  <2>5. W * (had - w.before) \in Int /\ R * (time - w.now) \in Int
    BY <1>0, <2>2
  <2>6. CASE ok
    <3>1. let = had + 1 /\ n2 = n - W
      BY <2>6 DEF W
    <3> HIDE DEF time, ok, let, n2
    <3> QED
      BY <1>0, <2>3, <2>4, <2>5, <3>1
  <2>7. CASE ~ok
    <3>1. let = had /\ n2 = n
      BY <2>7
    <3> QED
      BY <2>3, <3>1
  <2> QED
    BY <2>6, <2>7
<1>6. n2 <= Full(k)
  BY <1>0 DEF W
<1> HIDE DEF time, ok, n2, let
<1>7. AccountTypeOK'
  <2>1. /\ DOMAIN buckets' = others \cup {k}
        /\ \A j \in DOMAIN buckets' : buckets'[j].n \in Int /\ buckets'[j].last \in Nat
    BY <1>0, <1>1, <1>2 DEF AccountInv, AccountTypeOK, others
  <2>2. others \cup {k} \subseteq Keys
    BY DEF others, AccountInv, AccountTypeOK
  <2>3. /\ caller' \in [Callers -> Caller]
        /\ \A d \in Callers : caller'[d].at = "timed" => caller'[d].key \in Keys
    <3> DEFINE owed == IF ok THEN 0 ELSE Owed(k, n2)
               told == [caller[c] EXCEPT !.at = "done", !.ok = ok, !.before = had,
                                         !.retry = owed]
    <3>1. owed \in Nat
      BY <1>3
    <3>2. caller' = [caller EXCEPT ![c] = told]
      BY <1>1 DEF AccountInv, AccountTypeOK
    <3> HIDE DEF owed
    <3>3. told \in Caller /\ told.at = "done"
      BY <1>2, <3>1 DEF AccountInv, AccountTypeOK, Caller
    <3> HIDE DEF told
    <3> QED
      BY <3>2, <3>3 DEF AccountInv, AccountTypeOK
  <2>4. admitted' \in [Keys -> Nat]
    BY <1>1, <1>2 DEF AccountInv, AccountTypeOK
  <2>5. windows' \in [Keys -> SUBSET [now : Nat, before : Nat]]
    BY <1>0, <1>1 DEF AccountInv, AccountTypeOK
  <2> QED
    BY <1>0, <2>1, <2>2, <2>3, <2>4, <2>5 DEF AccountTypeOK
<1>8. TimesArePast'
  <2>1. \A d \in Callers : caller'[d].at = "timed" => caller'[d].now <= clock
    BY <1>1 DEF AccountInv, AccountTypeOK, TimesArePast, Caller
  <2>2. \A j \in DOMAIN buckets' : buckets'[j].last <= clock
    BY <1>0, <1>1 DEF AccountInv, AccountTypeOK, TimesArePast, others
  <2> QED
    BY <2>1, <2>2 DEF TimesArePast
<1>9. DebtIsCovered'
  <2>1. SUFFICES ASSUME NEW j \in DOMAIN buckets'
                 PROVE  buckets'[j].n + Quota[j].requests * (clock - buckets'[j].last) >= 0
    BY DEF DebtIsCovered
  <2>2. CASE j = k
    <3>1. buckets'[k].n = n2 /\ buckets'[k].last = time
      BY <1>1
    <3> QED
      BY <1>4, <2>2, <3>1 DEF R
  <2>3. CASE j # k
    <3>1. j \in DOMAIN buckets /\ buckets'[j] = buckets[j]
      BY <1>1, <2>1, <2>3 DEF others
    <3> QED
      BY <3>1 DEF AccountInv, DebtIsCovered
  <2> QED
    BY <2>2, <2>3
<1>10. Accounts'
  <2>1. SUFFICES ASSUME NEW j \in DOMAIN buckets', NEW w \in windows'[j]
                 PROVE  Quota[j].window * (admitted'[j] - w.before) + buckets'[j].n
                           <= Full(j) + Quota[j].requests * (buckets'[j].last - w.now)
    BY DEF Accounts, Full
  <2>2. CASE j = k
    <3>1. buckets'[k].n = n2 /\ buckets'[k].last = time
      BY <1>1
    <3>2. /\ admitted'[k] = let
          /\ windows'[k] = opened \cup {[now |-> time, before |-> had]}
      BY <1>1 DEF AccountInv, AccountTypeOK
    <3> QED
      BY <1>5, <2>1, <2>2, <3>1, <3>2 DEF W, R
  <2>3. CASE j # k
    <3>1. j \in DOMAIN buckets /\ buckets'[j] = buckets[j]
      BY <1>1, <2>1, <2>3 DEF others
    <3>2. admitted'[j] = admitted[j] /\ windows'[j] = windows[j]
      BY <1>1, <2>3, <3>1 DEF AccountInv, AccountTypeOK
    <3> QED
      BY <2>1, <3>1, <3>2 DEF AccountInv, Accounts
  <2> QED
    BY <2>2, <2>3
<1> QED
  BY <1>7, <1>8, <1>9, <1>10 DEF AccountInv

\* Take of a key that has a bucket: its histories go on.
LEMMA TakeKnownAccounts ==
    ASSUME AccountInv, NEW c \in Callers, TakeKnown(c)
    PROVE  AccountInv'
<1> DEFINE k == caller[c].key
           time == caller[c].now
           last == buckets[k].last
           R == Quota[k].requests
           W == Quota[k].window
           n == Refilled(k, time)
<1>1. /\ caller[c].at = "timed" /\ k \in DOMAIN buckets /\ clock' = clock
      /\ Decide(c, k, n, admitted[k], {}, windows[k])
  BY DEF TakeKnown, Decide
<1>2. /\ k \in Keys /\ time \in Nat /\ time <= clock /\ clock \in Nat
      /\ buckets[k].n \in Int /\ last \in Nat
      /\ admitted[k] \in Nat /\ windows[k] \in SUBSET [now : Nat, before : Nat]
  BY <1>1 DEF AccountInv, AccountTypeOK, TimesArePast, Caller
<1>3. R \in Nat /\ W \in Nat /\ Full(k) \in Nat
  BY <1>2, QuotaTypes
<1>4. n \in Int /\ n <= Full(k) /\ n <= buckets[k].n + R * (time - last)
  BY <1>1, <1>2, RefilledBounds DEF AccountInv
<1>5. n = Full(k) \/ n = buckets[k].n + R * (time - last)
  <2>1. (time - last) * R = R * (time - last)
    BY <1>2, <1>3
  <2> QED
    BY <2>1 DEF Refilled, Least
<1>6. n + R * (clock - time) >= 0
  <2>1. R * (clock - time) >= R * 0 /\ R * 0 = 0 /\ R * (clock - time) \in Int
    BY <1>2, <1>3, MoreComesIn
  <2>2. R * (time - last) + R * (clock - time) = R * (clock - last)
    BY <1>2, <1>3, Stretches
  <2>3. buckets[k].n + R * (clock - last) >= 0
    BY <1>1 DEF AccountInv, DebtIsCovered
  <2>4. R * (time - last) \in Int
    BY <1>2, <1>3
  <2> HIDE DEF n, R, W, last, time, k
  <2>5. CASE n = Full(k)
    BY <1>3, <2>1, <2>5
  <2>6. CASE n = buckets[k].n + R * (time - last)
    BY <1>2, <2>1, <2>2, <2>3, <2>4, <2>6
  <2> QED
    BY <1>5, <2>5, <2>6
<1>7. \A w \in windows[k] : W * (admitted[k] - w.before) + n <= Full(k) + R * (time - w.now)
  <2>1. TAKE w \in windows[k]
  <2> DEFINE gone == W * (admitted[k] - w.before)
  <2>2. w.now \in Nat /\ w.before \in Nat
    BY <1>2
  <2>3. gone + buckets[k].n <= Full(k) + R * (last - w.now)
    BY <1>1 DEF AccountInv, Accounts
  <2>4. R * (last - w.now) + R * (time - last) = R * (time - w.now)
    <3>1. w.now \in Int /\ last \in Int /\ time \in Int /\ R \in Nat
      BY <1>2, <1>3, <2>2
    <3> HIDE DEF R, last, time
    <3> QED
      BY <3>1, Stretches
  <2>5. /\ gone \in Int /\ R * (last - w.now) \in Int /\ R * (time - last) \in Int
        /\ R * (time - w.now) \in Int
    BY <1>2, <1>3, <2>2
  <2> HIDE DEF n, R, W, last, time, k, gone
  <2>6. gone + n <= Full(k) + R * (time - w.now)
    BY <1>2, <1>3, <1>4, <2>3, <2>4, <2>5
  <2> QED
    BY <2>6 DEF gone
<1> HIDE DEF n
<1> QED
  BY <1>1, <1>2, <1>4, <1>6, <1>7, DecideAccounts

\* Take of one that has none: its histories begin.
LEMMA TakeNewAccounts ==
    ASSUME AccountInv, NEW c \in Callers, TakeNew(c)
    PROVE  AccountInv'
<1> DEFINE k == caller[c].key
           time == caller[c].now
           R == Quota[k].requests
<1>1. /\ caller[c].at = "timed" /\ clock' = clock
      /\ Decide(c, k, Full(k), 0, Evicted(time), {})
  BY DEF TakeNew, Decide
<1>2. k \in Keys /\ time \in Nat /\ time <= clock /\ clock \in Nat
  BY <1>1 DEF AccountInv, AccountTypeOK, TimesArePast, Caller
<1>3. R \in Nat /\ Full(k) \in Nat
  BY <1>2, QuotaTypes
<1>5. Full(k) + R * (clock - time) >= 0
  <2>1. R * (clock - time) >= R * 0 /\ R * 0 = 0 /\ R * (clock - time) \in Int
    BY <1>2, <1>3, MoreComesIn
  <2> QED
    BY <1>3, <2>1
<1>6. Full(k) \in Int /\ Full(k) <= Full(k) /\ 0 \in Nat
  BY <1>3
<1>7. {} \in SUBSET [now : Nat, before : Nat]
  OBVIOUS
<1>8. \A w \in {} : Quota[k].window * (0 - w.before) + Full(k)
                         <= Full(k) + R * (time - w.now)
  OBVIOUS
<1> QED
  BY <1>1, <1>2, <1>5, <1>6, <1>7, <1>8, DecideAccounts

\* The account is kept by every step.
LEMMA NextAccounts ==
    ASSUME AccountInv, [RateNext]_rateVars
    PROVE  AccountInv'
<1>1. CASE RateTick
  BY <1>1, TickAccounts
<1>2. ASSUME NEW c \in Callers, NEW k \in Keys, RateArrive(c, k)
      PROVE  AccountInv'
  BY <1>2, ArriveAccounts
<1>3. ASSUME NEW c \in Callers, RateExcuse(c)
      PROVE  AccountInv'
  BY <1>3, ExcuseAccounts
<1>4. ASSUME NEW c \in Callers, TakeKnown(c)
      PROVE  AccountInv'
  BY <1>4, TakeKnownAccounts
<1>5. ASSUME NEW c \in Callers, TakeNew(c)
      PROVE  AccountInv'
  BY <1>5, TakeNewAccounts
<1>6. CASE UNCHANGED rateVars
  BY <1>6 DEF rateVars, AccountInv, AccountTypeOK, TimesArePast, DebtIsCovered, Accounts,
              Full
<1> QED
  BY <1>1, <1>2, <1>3, <1>4, <1>5, <1>6 DEF RateNext

\* What a bucket is owed is never negative, so its account bounds what it let go.
LEMMA AccountsBound == AccountInv => AdmittedWithinRate
<1> SUFFICES ASSUME AccountInv, NEW k \in DOMAIN buckets, NEW w \in windows[k]
             PROVE  Quota[k].window * (admitted[k] - w.before)
                        <= Full(k) + Quota[k].requests * (clock - w.now)
  BY DEF AdmittedWithinRate
<1> DEFINE R == Quota[k].requests
           gone == Quota[k].window * (admitted[k] - w.before)
           last == buckets[k].last
<1>1. /\ k \in Keys /\ clock \in Nat /\ last \in Nat /\ buckets[k].n \in Int
      /\ admitted[k] \in Nat /\ w.now \in Nat /\ w.before \in Nat
  BY DEF AccountInv, AccountTypeOK
<1>2. R \in Nat /\ Quota[k].window \in Nat /\ Full(k) \in Nat
  BY <1>1, QuotaTypes
<1>3. /\ gone + buckets[k].n <= Full(k) + R * (last - w.now)
      /\ buckets[k].n + R * (clock - last) >= 0
  BY DEF AccountInv, Accounts, DebtIsCovered
<1>4. R * (last - w.now) + R * (clock - last) = R * (clock - w.now)
  BY <1>1, <1>2, Stretches
<1>5. /\ gone \in Int /\ R * (last - w.now) \in Int /\ R * (clock - last) \in Int
      /\ R * (clock - w.now) \in Int
  BY <1>1, <1>2
<1> HIDE DEF R, gone, last
<1>6. gone <= Full(k) + R * (clock - w.now)
  BY <1>1, <1>2, <1>3, <1>4, <1>5
<1> QED
  BY <1>6 DEF gone, R

\* The account of every bucket is in order in every state that is reached.
THEOREM AccountIsInvariant == RateSpec => []AccountInv
  BY InitAccounts, NextAccounts, PTL DEF RateSpec

\* Whatever the requests, the rates, the size of the table and the order in which the
\* lock is taken, no key is let more through than its burst and what has come in.
THEOREM RatesAreKept == RateSpec => []AdmittedWithinRate
  BY AccountIsInvariant, AccountsBound, PTL

-----------------------------------------------------------------------------
\* A caller that is refused is told a wait a tick after which its bucket has a token, if it is
\* left alone, and a tick before which it has none.
LEMMA RefusalsAreTold ==
    ASSUME AccountInv, NEW c \in Callers, NEW k \in Keys, k = caller[c].key,
           NEW n \in Int, NEW had, NEW evicted, NEW opened,
           Decide(c, k, n, had, evicted, opened), ~caller'[c].ok
    PROVE  WaitIsClose(c)'
<1> DEFINE W == Quota[k].window
           R == Quota[k].requests
           time == caller[c].now
           owed == Owed(k, n)
           told == Second * RetryAfter(owed)
<1>1. /\ W \in Nat /\ R \in Nat /\ Full(k) \in Nat /\ Full(k) >= W
      /\ caller[c] \in Caller /\ time \in Nat
  BY QuotaTypes DEF AccountInv, AccountTypeOK, Caller
<1>2. n < W
  <2>1. caller'[c].ok = (n >= W)
    BY <1>1 DEF Decide, AccountInv, AccountTypeOK, Caller
  <2>2. ~(n >= W)
    BY <2>1
  <2> QED
    BY <1>1, <2>2
<1>3. /\ buckets'[k].n = n /\ buckets'[k].last = time
      /\ caller'[c].key = k /\ caller'[c].now = time /\ caller'[c].retry = owed
  BY <1>1, <1>2 DEF Decide, AccountInv, AccountTypeOK, Caller
<1>4. /\ owed \in Nat
      /\ \A t \in Nat : t > owed => n + t * R >= W
      /\ \A t \in Nat : t < owed => n + t * R < W
  BY <1>2, OwedIsTicks
<1>5. ASSUME NEW t \in Nat
      PROVE  RefusesAfter(c, t)' <=> Least(Full(k), n + t * R) < W
  <2> DEFINE key == caller'[c].key
             at  == caller'[c].now + t
  <2>1. RefusesAfter(c, t)'
            <=> Least(Full(key), buckets'[key].n + (at - buckets'[key].last) * Quota[key].requests)
                    < Quota[key].window
    BY DEF RefusesAfter, Refuses, Refilled, Full, Least
  <2>2. key = k /\ at = time + t /\ buckets'[k].n = n /\ buckets'[k].last = time
    BY <1>3
  <2> HIDE DEF key, at
  <2>3. at - buckets'[key].last = t
    <3> HIDE DEF time
    <3> QED
      BY <1>1, <2>2
  <2>4. Least(Full(key), buckets'[key].n + (at - buckets'[key].last) * Quota[key].requests)
            = Least(Full(k), n + t * R)
    BY <2>2, <2>3
  <2> QED
    BY <2>1, <2>2, <2>4
<1>6. ASSUME NEW t \in Nat, t > owed PROVE ~RefusesAfter(c, t)'
  <2>1. n + t * R >= W /\ n + t * R \in Int
    <3>1. n + t * R >= W
      BY <1>4, <1>6
    <3> HIDE DEF R, W
    <3> QED
      BY <1>1, <3>1
  <2>2. ~(Least(Full(k), n + t * R) < W)
    <3> HIDE DEF R, W
    <3> QED
      BY <1>1, <2>1 DEF Least
  <2> QED
    BY <1>5, <2>2
<1>7. ASSUME NEW t \in Nat, t < owed PROVE RefusesAfter(c, t)'
  <2>1. n + t * R < W /\ n + t * R \in Int
    <3>1. n + t * R < W
      BY <1>4, <1>7
    <3> HIDE DEF R, W
    <3> QED
      BY <1>1, <3>1
  <2>2. Least(Full(k), n + t * R) < W
    <3> HIDE DEF R, W
    <3> QED
      BY <1>1, <2>1 DEF Least
  <2> QED
    BY <1>5, <2>2
<1>8. told \in Nat /\ told >= owed
  BY <1>4, HeadersRoundUp
<1> HIDE DEF owed, told, R, W
<1>9. ~RefusesAfter(c, owed + 1)' /\ (owed > 0 => RefusesAfter(c, owed - 1)')
  BY <1>4, <1>6, <1>7
<1>10. told # owed => ~RefusesAfter(c, told)'
  BY <1>4, <1>6, <1>8
<1>11. WaitIsClose(c)' <=> /\ ~RefusesAfter(c, owed + 1)'
                           /\ owed > 0 => RefusesAfter(c, owed - 1)'
                           /\ told # owed => ~RefusesAfter(c, told)'
  BY <1>3 DEF WaitIsClose, RefusesAfter, told, RetryAfter
<1> QED
  BY <1>9, <1>10, <1>11

\* The wait a refusal tells is right to a tick, for every rate.
THEOREM WaitingIsEnough == RateSpec => RetryIsEnough
<1>1. AccountInv /\ [RateNext]_rateVars =>
        [\A c \in Callers :
            caller[c].at = "timed" /\ caller'[c].at = "done" /\ ~caller'[c].ok
                => WaitIsClose(c)']_rateVars
  <2> SUFFICES ASSUME AccountInv, RateNext, NEW c \in Callers,
                      caller[c].at = "timed", caller'[c].at = "done", ~caller'[c].ok
               PROVE  WaitIsClose(c)'
    BY DEF rateVars
  <2>1. ~RateTick /\ \A d \in Callers : ~RateExcuse(d) /\ \A k \in Keys : ~RateArrive(d, k)
    BY DEF RateTick, RateExcuse, RateArrive, AccountInv, AccountTypeOK, Caller
  <2>2. PICK d \in Callers : TakeKnown(d) \/ TakeNew(d)
    BY <2>1 DEF RateNext
  <2> DEFINE k == caller[d].key
  <2>3. k \in Keys /\ caller[d].at = "timed"
    BY <2>2 DEF TakeKnown, TakeNew, AccountInv, AccountTypeOK
  <2>4. PICK n, had, evicted, opened :
          n \in Int /\ Decide(d, k, n, had, evicted, opened)
    <3>1. CASE TakeKnown(d)
      <4>1. Refilled(k, caller[d].now) \in Int
        BY <3>1, RefilledBounds DEF TakeKnown, AccountInv, AccountTypeOK, Caller
      <4> QED
        BY <3>1, <4>1 DEF TakeKnown
    <3>2. CASE TakeNew(d)
      BY <2>3, <3>2, QuotaTypes DEF TakeNew
    <3> QED
      BY <2>2, <3>1, <3>2
  <2>5. d = c
    BY <2>4 DEF Decide, AccountInv, AccountTypeOK
  <2> QED
    BY <2>3, <2>4, <2>5, RefusalsAreTold
<1> QED
  BY <1>1, AccountIsInvariant, PTL DEF RateSpec, RetryIsEnough

-----------------------------------------------------------------------------
\* The table: the list has the keys of the map, each once, and no more than Max.
TableInv == AccountInv /\ RateTypeOK

Less == {ss \in Nat \X Nat : ss[1] < ss[2]}

\* A set of places that is not empty has a last one.
LEMMA LastPlace ==
    ASSUME NEW n \in Nat, NEW S \in SUBSET (1..n), S # {}
    PROVE  \E i \in S : \A j \in S : j <= i
<1> DEFINE T == {n - i : i \in S}
<1>1. IsWellFoundedOn(Less, Nat)
  BY NatLessThanWellFounded DEF OpToRel, Less
<1>2. T \subseteq Nat /\ T # {}
  <2>1. \A i \in S : n - i \in Nat
    OBVIOUS
  <2> QED
    BY <2>1
<1> HIDE DEF T
<1>3. PICK m \in T : \A x \in T : ~(<<x, m>> \in Less)
  BY <1>1, <1>2, WFMin
<1>4. PICK i \in S : m = n - i
  BY DEF T
<1>5. ASSUME NEW j \in S PROVE j <= i
  <2>1. n - j \in T /\ n - j \in Nat /\ m \in Nat
    BY <1>2 DEF T
  <2>2. ~(n - j < m)
    BY <1>3, <2>1 DEF Less
  <2> QED
    BY <1>4, <2>2
<1> QED
  BY <1>5

\* What makes room is in the table, and refuses only if all the candidates do.
LEMMA VictimIsListed ==
    ASSUME turns \in Seq(Keys), Len(turns) > 0, NEW t
    PROVE  /\ Victim(t) \in Listed(turns)
           /\ Refuses(Victim(t), t) => \A i \in Candidates : Refuses(turns[i], t)
<1> DEFINE n == Len(turns)
           sparing == {i \in Candidates : ~Refuses(turns[i], t)}
           last == CHOOSE i \in sparing : \A j \in sparing : j <= i
<1>1. n \in Nat /\ n \in 1..n /\ sparing \in SUBSET (1..n)
  BY DEF Candidates
<1>2. Victim(t) = IF sparing = {} THEN turns[n] ELSE turns[last]
  BY DEF Victim
<1>3. CASE sparing = {}
  <2>1. turns[n] \in Listed(turns)
    BY <1>1 DEF Listed
  <2>2. \A i \in Candidates : Refuses(turns[i], t)
    BY <1>3
  <2> QED
    BY <1>2, <1>3, <2>1, <2>2
<1>4. CASE sparing # {}
  <2> HIDE DEF n
  <2>1. \E i \in sparing : \A j \in sparing : j <= i
    <3> HIDE DEF sparing
    <3> QED
      BY <1>1, <1>4, LastPlace
  <2>2. last \in sparing
    <3> HIDE DEF sparing
    <3> QED
      BY <2>1
  <2> HIDE DEF last
  <2>3. turns[last] \in Listed(turns) /\ ~Refuses(turns[last], t)
    BY <1>1, <2>2 DEF Listed, n
  <2> QED
    BY <1>2, <1>4, <2>3
<1> QED
  BY <1>3, <1>4

\* The table holds as many buckets as its list is long.
LEMMA TableSize ==
    ASSUME RateTypeOK
    PROVE  Cardinality(DOMAIN buckets) = Len(turns) /\ Len(turns) \in Nat /\ Max \in Nat /\ Max > 0
BY ListedOnce, RateAssumption DEF RateTypeOK

\* Room is made by one bucket that is in the table, and only when the table is full.
LEMMA EvictedIsOne ==
    ASSUME RateTypeOK, NEW t
    PROVE  /\ Evicted(t) \subseteq DOMAIN buckets
           /\ \/ Evicted(t) = {} /\ Len(turns) < Max
              \/ Evicted(t) = {Victim(t)} /\ Len(turns) = Max
           /\ \A k \in Evicted(t) :
                 Refuses(k, t) => \A i \in Candidates : Refuses(turns[i], t)
<1>1. Cardinality(DOMAIN buckets) = Len(turns) /\ Len(turns) \in Nat /\ Max \in Nat /\ Max > 0
      /\ turns \in Seq(Keys) /\ Len(turns) <= Max /\ Listed(turns) = DOMAIN buckets
  BY TableSize DEF RateTypeOK
<1>2. CASE Len(turns) < Max
  <2>1. Evicted(t) = {}
    BY <1>1, <1>2 DEF Evicted
  <2> QED
    BY <1>2, <2>1
<1>3. CASE Len(turns) = Max
  <2>1. Evicted(t) = {Victim(t)}
    BY <1>1, <1>3 DEF Evicted
  <2>2. Victim(t) \in Listed(turns)
        /\ (Refuses(Victim(t), t) => \A i \in Candidates : Refuses(turns[i], t))
    BY <1>1, <1>3, VictimIsListed
  <2> QED
    BY <1>1, <1>3, <2>1, <2>2
<1> QED
  BY <1>1, <1>2, <1>3

\* A decision keeps the types, given a list that lists the right keys.
LEMMA DecideTypes ==
    ASSUME TableInv, AccountTypeOK', NEW c \in Callers, NEW k \in Keys, k = caller[c].key,
           NEW n \in Int, n <= Full(k), NEW had, NEW gone, NEW opened,
           Decide(c, k, n, had, gone, opened),
           turns' \in Seq(Keys), Once(turns'), Len(turns') <= Max,
           Listed(turns') = (DOMAIN buckets \ gone) \cup {k}
    PROVE  RateTypeOK'
<1> DEFINE W == Quota[k].window
           ok == n >= W
           n2 == IF ok THEN n - W ELSE n
<1>1. W \in Nat /\ caller[c].now \in Nat
  BY QuotaTypes DEF TableInv, RateTypeOK, Caller
<1>2. n2 \in Int /\ n2 <= Full(k)
  <2>1. Full(k) \in Nat
    BY QuotaTypes
  <2> HIDE DEF W
  <2> QED
    BY <1>1, <2>1
<1>3. /\ DOMAIN buckets' = (DOMAIN buckets \ gone) \cup {k}
      /\ buckets'[k] = [n |-> n2, last |-> caller[c].now]
      /\ \A j \in DOMAIN buckets' : j # k => j \in DOMAIN buckets /\ buckets'[j] = buckets[j]
      /\ clock' = clock
  BY DEF Decide
<1> HIDE DEF n2, ok, W
<1>4. buckets'[k] \in Bucket /\ buckets'[k].n <= Full(k)
  BY <1>1, <1>2, <1>3 DEF Bucket
<1>5. \A j \in DOMAIN buckets' : buckets'[j] \in Bucket /\ buckets'[j].n <= Full(j)
  <2>1. TAKE j \in DOMAIN buckets'
  <2>2. CASE j = k
    BY <1>4, <2>2
  <2>3. CASE j # k
    BY <1>3, <2>3 DEF TableInv, RateTypeOK
  <2> QED
    BY <2>2, <2>3
<1>6. clock' \in 0..MaxTime
  BY <1>3 DEF TableInv, RateTypeOK
<1>7. /\ DOMAIN buckets' \subseteq Keys /\ caller' \in [Callers -> Caller]
      /\ admitted' \in [Keys -> Nat]
      /\ windows' \in [Keys -> SUBSET [now : Nat, before : Nat]]
  BY DEF AccountTypeOK
<1>8. \A j \in DOMAIN buckets' : (buckets'[j] \in Bucket /\ buckets'[j].n <= Full(j))
  BY <1>5
<1> QED
  BY <1>3, <1>6, <1>7, <1>8 DEF RateTypeOK, Full

\* Every operation keeps the table.
LEMMA NextTable == TableInv /\ [RateNext]_rateVars => TableInv'
<1> SUFFICES ASSUME TableInv, [RateNext]_rateVars PROVE RateTypeOK'
  BY NextAccounts DEF TableInv
<1>0. AccountInv' /\ AccountTypeOK'
  BY NextAccounts DEF TableInv, AccountInv
<1>1. CASE UNCHANGED <<buckets, turns>> /\ clock' \in 0..MaxTime
  <2>1. /\ caller' \in [Callers -> Caller] /\ admitted' \in [Keys -> Nat]
        /\ windows' \in [Keys -> SUBSET [now : Nat, before : Nat]]
    BY <1>0 DEF AccountTypeOK
  <2> QED
    BY <1>1, <2>1 DEF TableInv, RateTypeOK, Full
<1>2. CASE UNCHANGED rateVars
  BY <1>1, <1>2 DEF rateVars, TableInv, RateTypeOK
<1>3. CASE RateTick
  <2>1. clock \in 0..MaxTime /\ MaxTime \in Nat
    BY RateAssumption DEF TableInv, RateTypeOK
  <2>2. clock' \in 0..MaxTime /\ UNCHANGED <<buckets, turns>>
    BY <1>3, <2>1 DEF RateTick
  <2> QED
    BY <1>1, <2>2
<1>4. ASSUME NEW c \in Callers, RateExcuse(c) \/ \E k \in Keys : RateArrive(c, k)
      PROVE  RateTypeOK'
  <2>1. UNCHANGED <<buckets, turns>> /\ clock' \in 0..MaxTime
    BY <1>4 DEF RateExcuse, RateArrive, TableInv, RateTypeOK
  <2> QED
    BY <1>1, <2>1
<1>5. ASSUME NEW c \in Callers, TakeKnown(c)
      PROVE  RateTypeOK'
  <2> DEFINE k == caller[c].key
             n == Refilled(k, caller[c].now)
  <2>1. k \in DOMAIN buckets /\ k \in Keys /\ caller[c].now \in Nat
    BY <1>5 DEF TakeKnown, TableInv, RateTypeOK, Caller
  <2>2. n \in Int /\ n <= Full(k)
    BY <2>1, RefilledBounds DEF TableInv, AccountInv
  <2>3. turns \in Seq(Keys) /\ Once(turns) /\ Len(turns) <= Max /\ k \in Listed(turns)
        /\ Listed(turns) = DOMAIN buckets
    BY <2>1 DEF TableInv, RateTypeOK
  <2>4. Decide(c, k, n, admitted[k], {}, windows[k]) /\ turns' = ToFront(k, turns)
    BY <1>5 DEF TakeKnown
  <2>5. /\ turns' \in Seq(Keys) /\ Once(turns') /\ Len(turns') <= Max
        /\ Listed(turns') = (DOMAIN buckets \ {}) \cup {k}
    BY <2>1, <2>3, <2>4, ToFrontMoves
  <2> HIDE DEF n
  <2> QED
    BY <1>0, <2>1, <2>2, <2>4, <2>5, DecideTypes
<1>6. ASSUME NEW c \in Callers, TakeNew(c)
      PROVE  RateTypeOK'
  <2> DEFINE k == caller[c].key
             t == caller[c].now
             v == Victim(t)
             left == IF Evicted(t) = {} THEN turns ELSE Without(v, turns)
  <2>1. k \notin DOMAIN buckets /\ k \in Keys
    BY <1>6 DEF TakeNew, TableInv, AccountInv, AccountTypeOK
  <2>2. turns \in Seq(Keys) /\ Once(turns) /\ Len(turns) <= Max
        /\ Listed(turns) = DOMAIN buckets /\ Len(turns) \in Nat /\ Max \in Nat
    BY TableSize DEF TableInv, RateTypeOK
  <2>3. Decide(c, k, Full(k), 0, Evicted(t), {}) /\ turns' = <<k>> \o left
    BY <1>6 DEF TakeNew
  <2>4. /\ left \in Seq(Keys) /\ Once(left) /\ Len(left) < Max
        /\ Listed(left) = DOMAIN buckets \ Evicted(t)
    <3>1. CASE Evicted(t) = {}
      <4>1. Len(turns) < Max
        BY <3>1, EvictedIsOne DEF TableInv
      <4> QED
        BY <2>2, <3>1, <4>1
    <3>2. CASE Evicted(t) # {}
      <4>1. Evicted(t) = {v} /\ Len(turns) = Max /\ v \in DOMAIN buckets
        BY <3>2, EvictedIsOne DEF TableInv
      <4>2. left = Without(v, turns)
        BY <3>2
      <4> HIDE DEF v, left
      <4>3. /\ left \in Seq(Keys) /\ Once(left) /\ Len(left) = Len(turns) - 1
            /\ Listed(left) = Listed(turns) \ {v}
        BY <2>2, <4>1, <4>2, WithoutRemoves
      <4> QED
        BY <2>2, <4>1, <4>3
    <3> QED
      BY <3>1, <3>2
  <2> HIDE DEF left
  <2>5. /\ turns' \in Seq(Keys) /\ Once(turns') /\ Len(turns') = Len(left) + 1
        /\ Listed(turns') = Listed(left) \cup {k}
    BY <2>1, <2>3, <2>4, FrontAdds
  <2>6. Len(left) \in Nat
    BY <2>4
  <2>7. Len(turns') <= Max /\ Listed(turns') = (DOMAIN buckets \ Evicted(t)) \cup {k}
    BY <2>2, <2>4, <2>5, <2>6
  <2>8. Full(k) \in Int /\ Full(k) <= Full(k)
    BY <2>1, QuotaTypes
  <2> QED
    BY <1>0, <2>1, <2>3, <2>5, <2>7, <2>8, DecideTypes
<1> QED
  BY <1>2, <1>3, <1>4, <1>5, <1>6 DEF RateNext

LEMMA InitTable == RateInit => TableInv
<1> SUFFICES ASSUME RateInit PROVE RateTypeOK
  BY InitAccounts DEF TableInv
<1>1. AccountTypeOK
  BY InitAccounts DEF AccountInv
<1>2. turns \in Seq(Keys) /\ Once(turns) /\ Len(turns) <= Max /\ Listed(turns) = {}
  BY RateAssumption DEF RateInit, Once, Listed
<1>3. clock \in 0..MaxTime /\ DOMAIN buckets = {}
  BY RateAssumption DEF RateInit
<1> QED
  BY <1>1, <1>2, <1>3 DEF RateTypeOK, AccountTypeOK

\* The invariant of the table.
THEOREM TableIsInvariant == RateSpec => []TableInv
  BY InitTable, NextTable, PTL DEF RateSpec

\* The table stays what it is: no more than Max buckets, none above its burst, and the
\* list and the map of one mind (Take, evict).
THEOREM TableIsSound == RateSpec => []RateTypeOK
<1>2. TableInv => RateTypeOK
  BY DEF TableInv
<1> QED
  BY <1>2, TableIsInvariant, PTL

\* The request a decision is about is done.
LEMMA DecideTells ==
    ASSUME caller \in [Callers -> Caller], NEW c \in Callers, NEW k, NEW n, NEW had, NEW gone,
           NEW opened, Decide(c, k, n, had, gone, opened)
    PROVE  caller'[c].at = "done"
<1> DEFINE ok == n >= Quota[k].window
           n2 == IF ok THEN n - Quota[k].window ELSE n
           owed == IF ok THEN 0 ELSE Owed(k, n2)
<1>1. caller' = [caller EXCEPT ![c].at = "done", ![c].ok = ok, ![c].before = had,
                               ![c].retry = owed]
  BY DEF Decide
<1> HIDE DEF ok, owed
<1> QED
  BY <1>1 DEF Caller

\* Only another's first request takes a bucket away, when the table is full; and one that is
\* refusing goes only when all the candidates are: for every size of table and every Scan.
THEOREM EvictionIsSparing == RateSpec => EvictionSparesTheRefused
<1>1. ASSUME TableInv, [RateNext]_rateVars
      PROVE  [\A k \in DOMAIN buckets \ DOMAIN buckets' :
                /\ Cardinality(DOMAIN buckets) = Max
                /\ \E c \in Callers :
                      /\ caller[c].at = "timed" /\ caller'[c].at = "done"
                      /\ caller[c].key \in DOMAIN buckets' \ DOMAIN buckets
                      /\ Refuses(k, caller[c].now)
                             => \A i \in Candidates : Refuses(turns[i], caller[c].now)]_rateVars
  <2> SUFFICES ASSUME RateNext, NEW k \in DOMAIN buckets \ DOMAIN buckets'
               PROVE  /\ Cardinality(DOMAIN buckets) = Max
                      /\ \E c \in Callers :
                            /\ caller[c].at = "timed" /\ caller'[c].at = "done"
                            /\ caller[c].key \in DOMAIN buckets' \ DOMAIN buckets
                            /\ Refuses(k, caller[c].now)
                                   => \A i \in Candidates : Refuses(turns[i], caller[c].now)
    BY <1>1
  <2>1. PICK c \in Callers : TakeKnown(c) \/ TakeNew(c)
    BY DEF RateNext, RateTick, RateExcuse, RateArrive
  <2>2. ~TakeKnown(c)
    BY DEF TakeKnown, Decide
  <2> DEFINE t == caller[c].now
  <2>3. /\ caller[c].at = "timed" /\ caller[c].key \notin DOMAIN buckets
        /\ Decide(c, caller[c].key, Full(caller[c].key), 0, Evicted(t), {})
    BY <2>1, <2>2 DEF TakeNew
  <2>4. DOMAIN buckets' = (DOMAIN buckets \ Evicted(t)) \cup {caller[c].key}
    BY <2>3 DEF Decide
  <2>5. caller'[c].at = "done"
    BY <1>1, <2>3, DecideTells DEF TableInv, RateTypeOK
  <2>6. k \in Evicted(t)
    BY <2>4
  <2>7. RateTypeOK
    BY <1>1 DEF TableInv
  <2>8. Evicted(t) # {} => Len(turns) = Max
    BY <2>7, EvictedIsOne
  <2>9. Refuses(k, t) => \A i \in Candidates : Refuses(turns[i], t)
    BY <2>6, <2>7, EvictedIsOne
  <2>10. Cardinality(DOMAIN buckets) = Max
    BY <2>6, <2>7, <2>8, TableSize
  <2> QED
    BY <2>3, <2>4, <2>5, <2>9, <2>10
<1> QED
  BY <1>1, TableIsInvariant, PTL DEF EvictionSparesTheRefused, RateSpec
=============================================================================
