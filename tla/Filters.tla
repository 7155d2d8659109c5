-------------------------------- MODULE Filters --------------------------------
(***************************************************************************)
(* The neutral filter and sort grammar (db.M, db.Sort), answered three     *)
(* times: by db/memdb/filter.go in Go, and by the compilers of db/sqlite   *)
(* and db/pg, whose text the engine evaluates in SQL's three-valued logic  *)
(* over a generated column or over the document.                           *)
(*                                                                         *)
(* A row's fields come and go one at a time; what is asked of it is        *)
(* quantified over in the properties.  Left out: operands that are         *)
(* documents or lists, and fields that hold values of two types.           *)
(***************************************************************************)
EXTENDS Integers, Sequences

CONSTANTS
    Fields,  \* the paths a document may have
    TypeOf,  \* per field, the type of its values: "num", "text" or "bool"
    Ranks,   \* the values of a type, in its order
    Indexed  \* the sets of fields that may be promoted to a column

Scalar == {"num", "text", "bool"}

ASSUME FilterAssumption ==
    /\ TypeOf \in [Fields -> Scalar]
    /\ Ranks \subseteq Int
    /\ Indexed \subseteq SUBSET Fields

NullValue == [type |-> "null", rank |-> 0]   \* the JSON null
Absent    == [type |-> "absent", rank |-> 0] \* no such key
NULL      == [type |-> "NULL", rank |-> 0]   \* SQL's

ValuesOf(f) == {[type |-> TypeOf[f], rank |-> n] : n \in Ranks}

\* How a database may order texts: any way that tells them apart.
Collations == {g \in [Ranks -> Ranks] : \A m, n \in Ranks : g[m] = g[n] => m = n}

VARIABLES
    row,       \* the document: what each field has, or NoDocument
    promoted,  \* the fields the backends have a column for
    collation  \* per text, its place in the collation of pg's database

filterVars == <<row, promoted, collation>>

Rows == {r \in [Fields -> (UNION {ValuesOf(f) : f \in Fields}) \cup {NullValue, Absent}] :
            \A f \in Fields : r[f] \in ValuesOf(f) \cup {NullValue, Absent}}

NoDocument == [f \in {} |-> Absent]

\* Every variable has its type.
FilterTypeOK ==
    row \in Rows \cup {NoDocument} /\ promoted \in Indexed /\ collation \in Collations

FilterInit == row = NoDocument /\ promoted \in Indexed /\ collation \in Collations

\* A document is inserted, with none of the fields.
Insert ==
    /\ row = NoDocument
    /\ row' = [f \in Fields |-> Absent]
    /\ UNCHANGED <<promoted, collation>>

\* Any write of the document: a field is set, set to null, or removed.
PutField(f, v) ==
    /\ row # NoDocument
    /\ row' = [row EXCEPT ![f] = v]
    /\ UNCHANGED <<promoted, collation>>

FilterNext ==
    \/ Insert
    \/ \E f \in Fields : \E v \in ValuesOf(f) \cup {NullValue, Absent} : PutField(f, v)

FilterSpec == FilterInit /\ [][FilterNext]_filterVars

-----------------------------------------------------------------------------
(* The grammar.                                                             *)

Ranges == {"$gt", "$gte", "$lt", "$lte"}

\* A condition on a field, with the operands of its operator; $exists has none.
ConditionsOn(f) ==
    [op : {"$eq", "$ne"}, args : {{v} : v \in ValuesOf(f) \cup {NullValue}}]
    \cup [op : Ranges, args : {{v} : v \in ValuesOf(f)}]
    \cup [op : {"$in", "$nin"}, args : SUBSET (ValuesOf(f) \cup {NullValue})]
    \cup [op : {"$exists", "$missing"}, args : {{}}]

Arg(c) == CHOOSE v \in c.args : TRUE

\* A range, by the order of what it compares: -1, 0 or 1.
InRange(op, order) ==
    CASE op = "$gt"  -> order > 0
      [] op = "$gte" -> order >= 0
      [] op = "$lt"  -> order < 0
      [] op = "$lte" -> order <= 0

Order(m, n) == IF m < n THEN -1 ELSE IF m > n THEN 1 ELSE 0

-----------------------------------------------------------------------------
(* db/memdb/filter.go.                                                      *)

Missing(v) == v \in {NullValue, Absent}

\* A comparison against null matches a stored null and an absent key.
Equal(v, a) == IF a = NullValue THEN Missing(v) ELSE v = a

\* operator.
MemMatches(v, c) ==
    CASE c.op = "$eq"      -> Equal(v, Arg(c))
      [] c.op = "$ne"      -> ~Equal(v, Arg(c))
      [] c.op = "$in"      -> \E a \in c.args : Equal(v, a)
      [] c.op = "$nin"     -> \A a \in c.args : ~Equal(v, a)
      [] c.op = "$exists"  -> v # Absent
      [] c.op = "$missing" -> v = Absent
      [] c.op \in Ranges   -> /\ v.type = Arg(c).type
                              /\ InRange(c.op, Order(v.rank, Arg(c).rank))

-----------------------------------------------------------------------------
(* The compilers of db/sqlite and db/pg, and what the engines make of it.   *)

SqlEngines == {"sqlite", "pg"}

\* push of sqlite: a boolean is 0 or 1 there, in a parameter as in a document.
Pushed(a) == IF a.type = "bool" THEN [type |-> "num", rank |-> a.rank] ELSE a

\* What the target of a condition has in pg: a column, or `doc -> path`, which alone tells
\* a stored null from an absent key.
PgTarget(column, v) == IF v = Absent \/ (column /\ v = NullValue) THEN NULL ELSE v

\* In sqlite: a column, or `doc ->> path`.
SqliteTarget(v) == IF Missing(v) THEN NULL ELSE Pushed(v)

Extracted(e, column, v) == IF e = "pg" THEN PgTarget(column, v) ELSE SqliteTarget(v)

\* What a parameter has: bound as it is, or as jsonb.  None is null: that is compiled apart.
Bound(e, a) == IF e = "pg" THEN a ELSE Pushed(a)

\* How the types of an engine's values sort.
Class(e, type) ==
    CASE type = "null" -> 0
      [] type = "text" -> IF e = "pg" THEN 1 ELSE 2
      [] type = "num"  -> IF e = "pg" THEN 2 ELSE 1
      [] type = "bool" -> 3

\* Where a value stands among those of its type: a text in sqlite by its bytes, as in Go, and in pg,
\* where no query and no column names a collation, by the database's.
Collated(e, x) == IF e = "pg" /\ x.type = "text" THEN collation[x.rank] ELSE x.rank

SqlOrder(e, x, y) ==
    IF x.type # y.type THEN Order(Class(e, x.type), Class(e, y.type))
    ELSE Order(Collated(e, x), Collated(e, y))

\* The three-valued logic: TRUE, FALSE or unknown.
Sql(b) == IF b THEN "T" ELSE "F"

Or(s) == IF "T" \in s THEN "T" ELSE IF "U" \in s THEN "U" ELSE "F"

And(s) == IF "F" \in s THEN "F" ELSE IF "U" \in s THEN "U" ELSE "T"

Not(b) == CASE b = "T" -> "F" [] b = "F" -> "T" [] b = "U" -> "U"

IsNull(x) == Sql(x = NULL)

\* x = y, and x IN ys: unknown of NULL.
EqualTo(x, y) == IF x = NULL THEN "U" ELSE Sql(x = y)
IsIn(x, ys)   == IF x = NULL THEN "U" ELSE Sql(x \in ys)

\* nullMatch; in sqlite, and of a column, its second half is never true.
NullMatch(x) == Or({IsNull(x), EqualTo(x, NullValue)})

\* Mutant of NotIn: an absent field is not let through.
NotInAlone(x, ys, hasNull) == Not(IsIn(x, ys))

\* The half of $nin that is about values.
NotIn(x, ys, hasNull) ==
    IF hasNull THEN Not(IsIn(x, ys)) ELSE Or({IsNull(x), Not(IsIn(x, ys))})

Bounds(e, c) == {Bound(e, a) : a \in c.args \ {NullValue}}

\* Mutant of IsNot: <>.
IsNotByDiffering(x, y) == Not(EqualTo(x, y))

\* IS NOT, and IS DISTINCT FROM.
IsNot(x, y) == Sql(x # y)

\* membership.
Membership(x, op, ys, hasNull) ==
    IF op = "$in"
    THEN Or((IF ys # {} THEN {IsIn(x, ys)} ELSE {}) \cup (IF hasNull THEN {NullMatch(x)} ELSE {}))
    ELSE And((IF ys # {} THEN {NotIn(x, ys, hasNull)} ELSE {})
                \cup (IF hasNull THEN {Not(NullMatch(x))} ELSE {}))

\* $exists is asked of the document, promoted or not: json_type of sqlite, jsonb of pg.
Present(v) == Sql(v # Absent)

\* equality and operator.
SqlMatches(e, column, v, c) ==
    LET x == Extracted(e, column, v)
        y == Bound(e, Arg(c))
    IN CASE c.op = "$eq"            -> IF Arg(c) = NullValue THEN NullMatch(x) ELSE EqualTo(x, y)
         [] c.op = "$ne"            -> IF Arg(c) = NullValue THEN Not(NullMatch(x)) ELSE IsNot(x, y)
         [] c.op \in {"$in", "$nin"} -> Membership(x, c.op, Bounds(e, c), NullValue \in c.args)
         [] c.op = "$exists"        -> Present(v)
         [] c.op = "$missing"       -> Not(Present(v))
         [] c.op \in Ranges         -> IF x = NULL THEN "U"
                                       ELSE Sql(InRange(c.op, SqlOrder(e, x, y)))

-----------------------------------------------------------------------------
(* Filters: the keys of one are conjoined, as are the branches of $and, and  *)
(* those of $or disjoined.  A filter is here the set of its clauses, and a   *)
(* clause the set of its atoms; the empty $or is false.                      *)

Atoms == UNION {[field : {f}, cond : ConditionsOn(f)] : f \in Fields}

\* matches.
MemPasses(r, where) == \A clause \in where : \E a \in clause : MemMatches(r[a.field], a.cond)

\* compile, of the branches of one $or.
SqlClause(e, columns, r, clause) ==
    Or({SqlMatches(e, a.field \in columns, r[a.field], a.cond) : a \in clause})

\* compile, of the whole filter.
SqlPasses(e, columns, r, where) == And({SqlClause(e, columns, r, s) : s \in where}) = "T"

-----------------------------------------------------------------------------
(* Sorts, by one key: rows that it does not tell apart go on to the next.   *)

\* Mutant of MemLess: a missing value goes last, descending too.
MemLessMissingLast(a, b, f, desc) ==
    IF Missing(a[f]) # Missing(b[f]) THEN Missing(b[f])
    ELSE ~Missing(a[f]) /\ Order(a[f].rank, b[f].rank) = (IF desc THEN 1 ELSE -1)

\* less, of one key.
MemLess(a, b, f, desc) ==
    IF Missing(a[f]) # Missing(b[f]) THEN Missing(b[f]) # desc
    ELSE ~Missing(a[f]) /\ Order(a[f].rank, b[f].rank) = (IF desc THEN 1 ELSE -1)

\* orderExpr: a row is sorted by what a condition on the field would see.
SortKey(e, column, r, f) == Extracted(e, column, r[f])

\* orderBy: NULLS LAST ascending, NULLS FIRST descending.
SqlLess(e, column, a, b, f, desc) ==
    LET x == SortKey(e, column, a, f)
        y == SortKey(e, column, b, f)
    IN IF (x = NULL) # (y = NULL) THEN (y = NULL) # desc
       ELSE x # NULL /\ SqlOrder(e, x, y) = (IF desc THEN 1 ELSE -1)

-----------------------------------------------------------------------------
\* A stored null in a field that pg has no column for: jsonb puts it below every value.
ComparesNull(e, f, r) == e = "pg" /\ f \notin promoted /\ r[f] = NullValue

\* Two texts that pg's database puts the other way round.
Reordered(e, v, a) ==
    /\ e = "pg" /\ v.type = "text" /\ a.type = "text"
    /\ Order(collation[v.rank], collation[a.rank]) # Order(v.rank, a.rank)

Differs(e, f, c) ==
    /\ c.op \in Ranges
    /\ \/ Reordered(e, row[f], Arg(c))
       \/ ComparesNull(e, f, row) /\ c.op \in {"$lt", "$lte"}

Selects(e, f, c) == SqlMatches(e, f \in promoted, row[f], c) = "T"

\* "The Go twin of the SQL compilers, and the reason the conformance suite can state a single
\* expected answer for every backend" (memdb/filter.go:8-10): no run checks it, since a range on
\* pg need not be answered so.
SingleAnswer ==
    \A f \in DOMAIN row : \A c \in ConditionsOn(f) : \A e \in SqlEngines :
        Selects(e, f, c) <=> MemMatches(row[f], c)

\* A condition selects the row on every backend or on none, whatever is promoted: all but a range
\* on pg, of two texts that the database's collation puts the other way round, or of a stored null
\* that is below every value. Those it answers otherwise, and only those.
ConditionsAgree ==
    \A f \in DOMAIN row : \A c \in ConditionsOn(f) : \A e \in SqlEngines :
        (Selects(e, f, c) <=> MemMatches(row[f], c)) <=> ~Differs(e, f, c)

\* So does a filter of conditions that are answered alike: that an atom is unknown never shows,
\* since no filter negates one.
FiltersAgree ==
    \A where \in SUBSET SUBSET Atoms : \A e \in SqlEngines :
        row # NoDocument /\ (\A clause \in where : \A a \in clause : ~Differs(e, a.field, a.cond))
        => (SqlPasses(e, promoted, row, where) <=> MemPasses(row, where))

\* Two rows sort the same way on every backend, a missing value last ascending and first descending
\* (less, orderBy), unless they have texts that pg's database puts the other way round. How pg sorts
\* a stored null that has no column "this contract does not answer" (memdb/filter.go:231).
SortsAgree ==
    \A f \in DOMAIN row : \A other \in Rows : \A desc \in BOOLEAN : \A e \in SqlEngines :
        ~ComparesNull(e, f, row) /\ ~ComparesNull(e, f, other)
            => ((SqlLess(e, f \in promoted, row, other, f, desc) <=> MemLess(row, other, f, desc))
                   <=> ~Reordered(e, row[f], other[f]))

\* The backends answer a query otherwise by an order of their own, and by nothing else.
BackendsDifferByOrder == ConditionsAgree /\ SortsAgree
=============================================================================
