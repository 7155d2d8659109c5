--------------------------------- MODULE Schema ---------------------------------
(***************************************************************************)
(* A collection through the deploys of its application (db/report.go,      *)
(* db/promote.go, and the table shape and schema introspection of          *)
(* db/sqlite, db/pg and db/memdb).                                         *)
(*                                                                         *)
(* Processes of different builds share one table.  A build declares the    *)
(* fields of its struct and the paths it promotes to columns; a process    *)
(* that starts adds the columns and indexes its build asks for, statement  *)
(* by statement, and then reads and writes.  Nothing is migrated: the      *)
(* documents of an older build lack the fields of a newer one, and what a  *)
(* newer one no longer asks for stays, until an operator cleans up.  A     *)
(* patch is read and written in two steps; how patches of one document     *)
(* beat each other is in Documents.                                        *)
(*                                                                         *)
(* A column is a function of the document: it holds the value of the path  *)
(* it was created with.  Here every path is a top-level field.             *)
(***************************************************************************)
EXTENDS Naturals, FiniteSets

CONSTANTS
    DocIds, Fields, Values,  \* documents, their fields, and what a caller may store in one
    Zero,                 \* the zero value of each field's Go type: a null, where it is a pointer
    Reported,             \* the fields whose line of a report is followed
    Procs, Builds,        \* processes, and the builds they may be of
    NoBuild, NoDoc,
    Backends,             \* the backends that are run: a subset of {"sqlite", "pg", "memdb"}
    MaxFaults             \* a bound: the statements of DDL that fail for no reason of their own

Absent == "absent"
Null   == "null"
Keep   == "keep"
Cells  == Values \cup {Absent, Null}
Bodies == [Fields -> Cells]
Given(f) == Values \cup {Zero[f]}

\* A build: what its struct declares, the fields it omits when they are zero (omitempty), what
\* Defaulter makes of a field's zero, the column of each path it promotes, and which are unique.
BuildType == [declared : SUBSET Fields, omitted : SUBSET Fields, defaults : [Fields -> Values \cup {Null}],
              column : [Fields -> Fields \cup {"none"}], unique : SUBSET Fields]
Promoted(b) == {f \in Fields : b.column[f] # "none"}

ASSUME FieldAssumption == Zero \in [Fields -> Values \cup {Null}] /\ Reported \subseteq Fields
ASSUME BuildAssumption ==
    /\ Builds \subseteq BuildType
    /\ \A b \in Builds : b.unique \subseteq Promoted(b)

\* One name stands for one path in every build. Nothing enforces it: where it does not hold, a
\* column of an older build answers for a path of a newer one.
ASSUME NameAssumption ==
    \A b, c \in Builds : \A f \in Promoted(b), g \in Promoted(c) : b.column[f] = c.column[g] => f = g

VARIABLES
    backend,
    docs,     \* of each id: the document, with whether it is soft-deleted
    cols,     \* of each column name: the path it computes, or "none"
    idxs,     \* of each column name: which of its indexes exist, {"idx", "key"}
    procs,    \* of each process: its build, where it is, the columns it read, what it has ensured, and
              \* the path or column it is at
    report,   \* what a report says of a field, and what a backfill of it did, as long as nothing else
              \* is written and no process starts or ends
    patch,    \* the patch that has read its document and has still to write it
    filled,   \* the fields that were backfilled, and that nothing has asked to be without since
    dropped,  \* the fields that were dropped, and that nothing has asked to be given since
    faults

schemaVars == <<backend, docs, cols, idxs, procs, report, patch, filled, dropped, faults>>
history    == <<filled, dropped>>
tableVars  == <<cols, idxs>>

-----------------------------------------------------------------------------
\* There are finitely many documents, and the names that stand for none are of none.
ASSUME DocAssumption ==
    /\ IsFiniteSet(DocIds) /\ "none" \notin Fields /\ {Absent, Null, Keep} \cap Values = {}
    /\ NoDoc \notin [body : Bodies, deleted : BOOLEAN]

Live == {i \in DocIds : docs[i] # NoDoc /\ ~docs[i].deleted}
Stored == {i \in DocIds : docs[i] # NoDoc}

NoReport == [by |-> NoBuild, field |-> "none", at |-> "none", count |-> 0, total |-> 0, touched |-> 0]
Down     == [build |-> NoBuild, at |-> "down", found |-> {}, ensured |-> {}, path |-> "none",
             skipped |-> {}]
NoPatch  == [by |-> "none", id |-> "none", update |-> [f \in Fields |-> Keep], changes |-> {}]

SchemaInit ==
    /\ backend \in Backends
    /\ docs = [i \in DocIds |-> NoDoc]
    /\ cols = [n \in Fields |-> "none"] /\ idxs = [n \in Fields |-> {}]
    /\ procs = [p \in Procs |-> Down] /\ report = NoReport
    /\ patch = NoPatch /\ filled = {} /\ dropped = {} /\ faults = 0

Up(p) == procs[p].at = "up"

-----------------------------------------------------------------------------
(* A process starts: sqlite.New and pg.New.                                 *)

\* A statement of DDL is skipped when it cannot be executed (Backend.ddl), and now and then, when
\* the table is locked say, for no reason of its own.
Ddl(can, do, skip) ==
    \/ can /\ do /\ UNCHANGED faults
    \/ ~can /\ skip /\ UNCHANGED faults
    \/ can /\ faults < MaxFaults /\ faults' = faults + 1 /\ skip

\* The table is there; sqlite reads which of the build's columns it has, and has no ADD COLUMN IF
\* NOT EXISTS.
Start(p) ==
    /\ procs[p].at = "down"
    /\ \E b \in Builds :
          procs' = [procs EXCEPT ![p] =
                       [Down EXCEPT !.build = b, !.at = "starting",
                                    !.found = IF backend = "sqlite" THEN {b.column[f] : f \in
                                                  {f \in Promoted(b) : cols[b.column[f]] # "none"}} ELSE {},
                                    !.ensured = IF backend = "memdb" THEN Promoted(b) ELSE {}]]
    /\ report' = NoReport
    /\ UNCHANGED <<backend, docs, tableVars, patch, history, faults>>

\* ALTER TABLE ADD COLUMN, of a path that is still to be ensured. A process goes on without a column
\* that it could not add.
EnsureColumn(p, f) ==
    /\ procs[p].at = "starting" /\ procs[p].path = "none"
    /\ f \in Promoted(procs[p].build) \ procs[p].ensured
    /\ LET n == procs[p].build.column[f]
           Goes(without) == procs' = [procs EXCEPT ![p].path = f, ![p].skipped = @ \cup without]
       IN IF backend = "sqlite" /\ n \in procs[p].found THEN Goes({}) /\ UNCHANGED <<cols, faults>>
          ELSE Ddl(cols[n] = "none", Goes({}) /\ cols' = [cols EXCEPT ![n] = f],
                   Goes(IF cols[n] = "none" THEN {n} ELSE {}) /\ UNCHANGED cols)
    /\ UNCHANGED <<backend, docs, idxs, report, patch, history>>

\* The value of a column in a document.
Cell(n, body) == IF cols[n] = "none" THEN Absent ELSE body[cols[n]]
\* SQL's NULL is equal to nothing.
Same(c, d) == c = d /\ c \notin {Absent, Null}

Duplicates(n) == \E i, j \in Stored : i # j /\ Same(Cell(n, docs[i].body), Cell(n, docs[j].body))

\* CREATE INDEX, or CREATE UNIQUE INDEX, of the path whose column was just ensured.
EnsureIndex(p) ==
    /\ procs[p].at = "starting" /\ procs[p].path # "none"
    /\ LET f == procs[p].path
           n == procs[p].build.column[f]
           kind == IF f \in procs[p].build.unique THEN "key" ELSE "idx"
       IN /\ Ddl(cols[n] # "none" /\ (kind = "key" /\ "key" \notin idxs[n] => ~Duplicates(n)),
                 idxs' = [idxs EXCEPT ![n] = @ \cup {kind}], UNCHANGED idxs)
          /\ procs' = [procs EXCEPT ![p].path = "none", ![p].ensured = @ \cup {f}]
    /\ UNCHANGED <<backend, docs, cols, report, patch, history>>

IsUp(p) ==
    /\ procs[p].at = "starting" /\ procs[p].path = "none"
    /\ procs[p].ensured = Promoted(procs[p].build)
    /\ procs' = [procs EXCEPT ![p].at = "up", ![p].found = {}, ![p].ensured = {}]
    /\ UNCHANGED <<backend, docs, tableVars, report, patch, history, faults>>

\* A process ends, wherever it is.
Stop(p) ==
    /\ procs[p].at # "down"
    /\ procs' = [procs EXCEPT ![p] = Down]
    /\ patch' = IF patch.by = p THEN NoPatch ELSE patch
    /\ report' = NoReport
    /\ UNCHANGED <<backend, docs, tableVars, history, faults>>

-----------------------------------------------------------------------------
(* Documents are written.                                                   *)

\* A unique index refuses d, as what is stored of its ids.
Refused(d) ==
    \E n \in Fields : \E i, j \in DocIds :
        /\ "key" \in idxs[n] /\ i # j /\ d[i] # NoDoc /\ d[j] # NoDoc
        /\ Same(Cell(n, d[i].body), Cell(n, d[j].body))

\* The patch that is under way finds another version of any of these documents, and reads it again.
Beats(ids) == patch' = IF patch.id \in ids THEN NoPatch ELSE patch

\* The documents become d, of which some have asked to be without lost, and to be given fields.
Write(d, lost, given) ==
    /\ ~Refused(d)
    /\ docs' = d /\ filled' = filled \ lost /\ dropped' = dropped \ given
    /\ report' = NoReport
    /\ UNCHANGED <<backend, tableVars, procs, faults>>

\* encoding/json: what the struct declares and does not omit; and what a stored field is in it.
Encoded(b, f, v) == IF f \notin b.declared \/ (f \in b.omitted /\ v = Zero[f]) THEN Absent ELSE v
Decoded(f, c) == IF c \in {Absent, Null} THEN Zero[f] ELSE c

\* Create: Defaulter runs over what the caller gives.
Create(p) ==
    /\ Up(p)
    /\ \E i \in DocIds \ Stored : \E given \in [Fields -> Values \cup {Null}] :
          LET b == procs[p].build
              body == [f \in Fields |-> Encoded(b, f, IF given[f] = Zero[f] THEN b.defaults[f] ELSE given[f])]
          IN /\ \A f \in Fields : given[f] \in IF f \in b.declared THEN Given(f) ELSE {Zero[f]}
             /\ Write([docs EXCEPT ![i] = [body |-> body, deleted |-> FALSE]],
                      {f \in Fields : body[f] = Absent}, {f \in Fields : body[f] # Absent})
    /\ UNCHANGED patch

\* Mutant of Diff: the document is written whole.
DiffWhole(b, before, after) == after

\* diff: of what the struct declares, what is to be set, or unset; the rest stays as it is.
Diff(b, before, after) ==
    [f \in Fields |-> IF f \in b.declared /\ after[f] # before[f] THEN after[f] ELSE Keep]

\* Patch reads a document and changes a field of the struct. A field the document lacks is a zero in
\* the struct, and is written as one.
PatchRead(p) ==
    /\ Up(p) /\ patch = NoPatch
    /\ \E i \in Live : \E f \in procs[p].build.declared : \E v \in Given(f) :
          LET b == procs[p].build
              before == docs[i].body
              after == [g \in Fields |-> Encoded(b, g, IF g = f THEN v ELSE Decoded(g, before[g]))]
          IN patch' = [by |-> p, id |-> i, update |-> Diff(b, before, after),
                       changes |-> {g \in b.declared : after[g] # before[g]}]
    /\ report' = NoReport
    /\ UNCHANGED <<backend, docs, tableVars, procs, history, faults>>

\* Its statement, unless a unique index refuses it.
PatchWrite(p) ==
    /\ patch # NoPatch /\ patch.by = p /\ patch' = NoPatch
    /\ LET new == [docs EXCEPT ![patch.id].body =
                       [f \in Fields |-> IF patch.update[f] = Keep THEN @[f] ELSE patch.update[f]]]
           lost == {f \in patch.changes : patch.update[f] = Absent}
       IN \/ Write(new, lost, patch.changes \ lost)
          \/ Refused(new) /\ UNCHANGED <<backend, docs, tableVars, procs, report, history, faults>>

\* Delete, which moves no version.
Delete(p) ==
    /\ Up(p)
    /\ \E i \in Live : Write([docs EXCEPT ![i].deleted = TRUE], {}, {})
    /\ UNCHANGED patch

\* Restore: a document that comes back may be older than a backfill.
Restore(p) ==
    /\ Up(p)
    /\ \E i \in Stored \ Live :
          /\ Write([docs EXCEPT ![i].deleted = FALSE], {f \in Fields : docs[i].body[f] = Absent}, {})
          /\ Beats({i})

-----------------------------------------------------------------------------
(* An operator compares the struct with what is stored, and cleans up.      *)

\* The key is there, whatever its value: a stored null is present.
Has(i, f) == docs[i].body[f] # Absent

\* Backend.KeyCounts, for a field of the report: the count of the key, and in the SQL backends the
\* total by a statement of its own.
CountKeys(p, f) ==
    /\ Up(p) /\ f \in Reported
    /\ report' = [NoReport EXCEPT
                     !.by = procs[p].build, !.field = f,
                     !.count = Cardinality({i \in Live : Has(i, f)}),
                     !.at = IF backend = "memdb" THEN "made" ELSE "counted",
                     !.total = IF backend = "memdb" THEN Cardinality(Live) ELSE 0]
    /\ UNCHANGED <<backend, docs, tableVars, procs, patch, history, faults>>

CountTotal ==
    /\ report.at = "counted"
    /\ report' = [report EXCEPT !.at = "made", !.total = Cardinality(Live)]
    /\ UNCHANGED <<backend, docs, tableVars, procs, patch, history, faults>>

\* Service.Report: how many documents lack the field, or carry it for nothing.
Missing == IF report.field \in report.by.declared /\ report.total > report.count
           THEN report.total - report.count ELSE 0
Orphans == IF report.field \notin report.by.declared THEN report.count ELSE 0

\* Mutant of Lacks: Eq(field, nil).
LacksOrNull(i, f) == docs[i].body[f] \in {Absent, Null}

\* What Backfill matches: Exists(field, false).
Lacks(i, f) == ~Has(i, f)

\* What a statement did for the field f, if it is the one reported on, by a process of the same build.
Done(p, f, n) ==
    IF report.at = "made" /\ report.field = f /\ report.by = procs[p].build
    THEN [report EXCEPT !.at = "acted", !.touched = n] ELSE NoReport

\* Service.Backfill: one statement over the active documents, of the default that Report shows. A
\* default that the struct omits is none.
Backfill(p, f) ==
    /\ Up(p) /\ f \in procs[p].build.declared
    /\ LET b == procs[p].build
           default == Encoded(b, f, b.defaults[f])
           lacking == {i \in Live : Lacks(i, f)}
           d == [i \in DocIds |-> IF i \in lacking THEN [docs[i] EXCEPT !.body[f] = default] ELSE docs[i]]
       IN /\ default # Absent /\ ~Refused(d)
          /\ docs' = d /\ Beats(lacking)
          /\ report' = Done(p, f, Cardinality(lacking))
    /\ filled' = filled \cup {f} /\ dropped' = dropped \ {f}
    /\ UNCHANGED <<backend, tableVars, procs, faults>>

\* A field leaves every document, whose versions stay.
Without(f) == [i \in DocIds |-> IF docs[i] = NoDoc THEN NoDoc ELSE [docs[i] EXCEPT !.body[f] = Absent]]
Unset(f) ==
    /\ docs' = Without(f) /\ filled' = filled \ {f} /\ dropped' = dropped \cup {f}
    /\ UNCHANGED <<backend, tableVars, patch, faults>>

\* Service.DropField: only of a field the struct does not declare, whatever other builds are up.
DropField(p, f) ==
    /\ Up(p) /\ f \notin procs[p].build.declared
    /\ Unset(f)
    /\ report' = Done(p, f, Cardinality({i \in Stored : Has(i, f)}))
    /\ UNCHANGED procs

\* Mutant of DeclaredColumns: those of Options.Promote alone.
DeclaredButUnique(b) == {b.column[f] : f \in Promoted(b) \ b.unique}

\* The columns a build asks for.
DeclaredColumns(b) == {b.column[f] : f \in Promoted(b)}

\* Service.DropColumn, with purgeData or without: only of a column the build does not promote. The
\* operator waits for the processes that do to end. sqlite drops the indexes first, and refuses a
\* column that is not there.
DropColumn(p, n) ==
    /\ Up(p) /\ procs[p].path = "none" /\ backend # "memdb"
    /\ backend = "sqlite" => cols[n] # "none"
    /\ \A q \in Procs : procs[q].at # "down" => n \notin DeclaredColumns(procs[q].build)
    /\ idxs' = [idxs EXCEPT ![n] = {}]
    /\ \/ /\ cols' = [cols EXCEPT ![n] = "none"]
          /\ \E purge \in {n, "none"} : procs' = [procs EXCEPT ![p].path = purge]
          /\ UNCHANGED faults
       \/ backend = "sqlite" /\ faults < MaxFaults /\ faults' = faults + 1 /\ UNCHANGED <<cols, procs>>
    /\ UNCHANGED <<backend, docs, report, patch, history>>

\* Its last statement, with purgeData: the key of the column's name leaves every document, whatever
\* the struct declares.
PurgeData(p) ==
    /\ Up(p) /\ procs[p].path # "none"
    /\ Unset(procs[p].path)
    /\ procs' = [procs EXCEPT ![p].path = "none"] /\ report' = NoReport

SchemaNext ==
    \E p \in Procs :
        \/ Start(p) \/ EnsureIndex(p) \/ IsUp(p) \/ Stop(p)
        \/ Create(p) \/ PatchRead(p) \/ PatchWrite(p) \/ Delete(p) \/ Restore(p)
        \/ CountTotal \/ PurgeData(p)
        \/ \E f \in Fields : \/ EnsureColumn(p, f) \/ CountKeys(p, f) \/ Backfill(p, f)
                             \/ DropField(p, f) \/ DropColumn(p, f)

SchemaSpec == SchemaInit /\ [][SchemaNext]_schemaVars

-----------------------------------------------------------------------------
SchemaTypeOK ==
    /\ \A i \in DocIds : docs[i] # NoDoc => docs[i] \in [body : Bodies, deleted : BOOLEAN]
    /\ cols \in [Fields -> Fields \cup {"none"}] /\ idxs \in [Fields -> SUBSET {"idx", "key"}]
    /\ \A p \in Procs : /\ procs[p].build \in Builds \cup {NoBuild}
                        /\ procs[p].at \in {"down", "starting", "up"}
    /\ report.at \in {"none", "counted", "made", "acted"}
    /\ report.count <= Cardinality(DocIds) /\ report.total <= Cardinality(DocIds)
    /\ patch.id \in DocIds \cup {"none"} /\ filled \subseteq Fields /\ dropped \subseteq Fields

\* What a process finds by a path: through the column when its build promotes the path, through the
\* document otherwise. Where the column is not there the query fails, or, in a build of sqlite that
\* takes a quoted name of no column for a string, compares that string.
Failed == DocIds \cup {"error"}
Finds(p, f, v) ==
    LET n == procs[p].build.column[f] IN
    IF backend = "memdb" \/ n = "none" THEN {i \in Live : docs[i].body[f] = v}
    ELSE IF cols[n] = "none" THEN Failed ELSE {i \in Live : Cell(n, docs[i].body) = v}

\* A column that the process could not add, and that nobody has added since.
Unserved(p, f) == LET n == procs[p].build.column[f] IN n \in procs[p].skipped /\ cols[n] = "none"

\* Promoting a path changes no answer: whichever builds are started, stopped and rolled back in
\* whichever order, two of them adding the same columns at once, and orphan columns dropped in
\* between, a process that is up finds by its columns what the documents say, but for a column that it
\* failed to add itself and that is still missing (sqlite/compile.go and pg/compile.go target, ensure
\* of both backends).
QueriesReadDocuments ==
    \A p \in Procs : Up(p) => \A f \in Fields, v \in Values :
        Finds(p, f, v) = {i \in Live : docs[i].body[f] = v} \/ Unserved(p, f)

\* "A promoted column that cannot be added [...] degrades to filtering through the document, which is
\* slower and still correct" (sqlite/backend.go:190-193, and of JSONB pg/backend.go:170-173).
SkippedColumnsDegrade ==
    \A p \in Procs : Up(p) => \A f \in Fields, v \in Values :
        Finds(p, f, v) = {i \in Live : docs[i].body[f] = v}

\* "Reporting that as the backfill value means the report and the backfill agree by construction"
\* (report.go:132): with no other call in between, Backfill touches as many documents as the report
\* said lack the field, and a stored null does not lack it; and DropField reaches every one that carries
\* an orphan, the deleted ones too.
BackfillsDoAsReported ==
    report.at = "acted" =>
        IF report.field \in report.by.declared THEN report.touched = Missing
        ELSE report.touched >= Orphans

\* A backfilled field stays filled: until a build that does not declare it creates a document, a patch
\* of a build that omits zeros clears it, a document deleted before comes back without it, or it is
\* dropped, every active document has it, patched by older and newer builds alike (report.go Backfill,
\* service.go PatchWhere, json.go diff).
BackfilledStaysFilled == \A f \in filled : \A i \in Live : Has(i, f)

\* A dropped field stays dropped: DropField moves no version, so a patch that read its document before
\* still writes it, and brings back nothing but what it gives a value other than the one it read
\* (report.go DropField, json.go diff).
DroppedStaysDropped == \A f \in dropped : \A i \in Stored : ~Has(i, f)

\* A backfill does what its report announced, and no older build that writes undoes it, nor a drop.
UpkeepHolds == BackfillsDoAsReported /\ BackfilledStaysFilled /\ DroppedStaysDropped
=============================================================================
