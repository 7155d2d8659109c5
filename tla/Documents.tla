------------------------------ MODULE Documents ------------------------------
(***************************************************************************)
(* The writes of one collection: db/service.go (Create, Patch, Delete,     *)
(* Restore, PatchWhere, DeleteWhere, bulk) over the statements of a        *)
(* backend as db/memdb carries them out: one at a time, each atomic.       *)
(*                                                                         *)
(* Several calls run at once, from any number of processes.  A call is     *)
(* the statements it makes and what it keeps between them; the statements  *)
(* of other calls may come in between.                                     *)
(***************************************************************************)
EXTENDS DocumentRows

CONSTANTS
    PatchAttempts,  \* patchAttempts: how often a patch reads and writes
    BulkWriters     \* whether the backend is a BulkWriter: the cases considered

ASSUME DocumentsAssumption ==
    /\ PatchAttempts \in Nat \ {0}
    /\ BulkWriters \subseteq BOOLEAN

VARIABLES
    bulkWriter,  \* the backend is a BulkWriter: chosen once, by Init
    rows,        \* the backend's table
    fresh,       \* the ids NewID has not handed out
    call         \* per call: the operation it is in

vars == <<bulkWriter, rows, fresh, call>>

-----------------------------------------------------------------------------
(* Types.                                                                   *)

Answers == {"none", "ok", "not_found", "conflict", "error"}

Call == [at      : {"idle", "read", "write", "walk", "done"},
         req     : Request \cup {None},
         attempt : 1..PatchAttempts,      \* a patch's
         read    : Row \cup {NoRow},      \* the document it read
         todo    : SUBSET Ids,            \* the rows a walk has still to write
         stored  : Row \cup {NoRow},      \* the document its write answered with
         answer  : Answers,
         first   : Nat,                   \* history: the first version it read
         saw     : SUBSET Ids,            \* history: the rows its reads matched
         did     : SUBSET Ids]            \* history: the rows it has written

NewCall == [at |-> "idle", req |-> None, attempt |-> 1, read |-> NoRow, todo |-> {},
            stored |-> NoRow, answer |-> "none", first |-> 0, saw |-> {}, did |-> {}]

NewRow(flag) == [tally |-> {}, flag |-> flag, version |-> 1, deletedBy |-> None]

\* Every variable has its type, and an id not handed out has no row.
TypeOK ==
    /\ bulkWriter \in BOOLEAN
    /\ rows \in [Ids -> Row \cup {NoRow}]
    /\ fresh \subseteq {i \in Ids : rows[i] = NoRow}
    /\ call \in [Calls -> Call]

\* The collection has any documents, as they were created, and no calls yet.
Init ==
    /\ bulkWriter \in BulkWriters
    /\ rows \in [Ids -> {NoRow, NewRow(TRUE), NewRow(FALSE)}]
    /\ fresh = {i \in Ids : rows[i] = NoRow}
    /\ call = [c \in Calls |-> NewCall]

-----------------------------------------------------------------------------
(* Statements of the backend.                                               *)

\* Mutant of Updates: the expected version is not compared.
UpdatesAnyVersion(c) == rows[call[c].req.id] # NoRow

\* UpdatePaths has its row: at the version the caller expects, if it expects one.
Updates(c) ==
    LET row == rows[call[c].req.id] IN
    /\ row # NoRow
    /\ call[c].req.op = "patch" => row.version = call[c].read.version

\* Mutants of Written: a patch writes the whole document it validated; a
\* set-wide patch moves no version.
WholeWritten(c, row) ==
    CASE call[c].req.op = "patch" ->
            [call[c].read EXCEPT !.tally = @ \cup {c}, !.version = row.version + 1]
      [] call[c].req.op \in {"delete", "delete_where"} -> [row EXCEPT !.deletedBy = c]
      [] call[c].req.op = "restore" -> [row EXCEPT !.deletedBy = None, !.version = @ + 1]
      [] call[c].req.op = "patch_where" -> [row EXCEPT !.flag = TRUE, !.version = @ + 1]
QuietlyWritten(c, row) ==
    CASE call[c].req.op = "patch" ->
            [row EXCEPT !.tally = call[c].read.tally \cup {c}, !.version = @ + 1]
      [] call[c].req.op \in {"delete", "delete_where"} -> [row EXCEPT !.deletedBy = c]
      [] call[c].req.op = "restore" -> [row EXCEPT !.deletedBy = None, !.version = @ + 1]
      [] call[c].req.op = "patch_where" -> [row EXCEPT !.flag = TRUE]

\* What UpdatePaths makes of a row, by the paths each operation gives it.  A
\* patch writes the fields that differ from the document it read, and no other;
\* a deletion moves no version (NoBump).
Written(c, row) ==
    CASE call[c].req.op = "patch" ->
            [row EXCEPT !.tally = call[c].read.tally \cup {c}, !.version = @ + 1]
      [] call[c].req.op \in {"delete", "delete_where"} -> [row EXCEPT !.deletedBy = c]
      [] call[c].req.op = "restore" -> [row EXCEPT !.deletedBy = None, !.version = @ + 1]
      [] call[c].req.op = "patch_where" -> [row EXCEPT !.flag = TRUE, !.version = @ + 1]

\* The rows a find of this call answers with.
Matching(c) == {i \in Ids : Matches(call[c].req, i, rows[i])}

-----------------------------------------------------------------------------
(* How a call moves on.                                                     *)

Become(c, k) == call' = [call EXCEPT ![c] = k]

Answering(k, a) == [k EXCEPT !.at = "done", !.answer = a]

\* What a call does once its last statement is committed: it answers, unless an
\* error or its deadline takes the place of the statement's answer.
Committed(c, k) == \E a \in {"ok", "error"} : Become(c, Answering(k, a))

\* An operation begins.  Only Patch, Delete and Restore, and a set-wide write
\* without a BulkWriter, read first.
Begin(c, req) ==
    /\ call[c].at = "idle"
    /\ LET reads == \/ req.op \in {"patch", "delete", "restore"}
                    \/ req.op \in Bulk /\ ~ bulkWriter
       IN  Become(c, [NewCall EXCEPT !.at = IF reads THEN "read" ELSE "write", !.req = req])
    /\ UNCHANGED <<bulkWriter, rows, fresh>>

\* The operation stops with an error that nothing was written for: a backend's,
\* the deadline's, or a document the caller's change makes invalid.
Fails(c) ==
    /\ call[c].at \in {"read", "write", "walk"}
    /\ Become(c, Answering(call[c], "error"))
    /\ UNCHANGED <<bulkWriter, rows, fresh>>

-----------------------------------------------------------------------------
(* Operations on one document.                                              *)

\* Mutant of Insert: the id is handed out again.
InsertKeepingId(c, i) ==
    /\ call[c].at = "write"
    /\ call[c].req.op = "create"
    /\ i \in fresh
    /\ rows' = [rows EXCEPT ![i] = NewRow(FALSE)]
    /\ Committed(c, [call[c] EXCEPT !.stored = NewRow(FALSE), !.did = {i}])
    /\ UNCHANGED <<bulkWriter, fresh>>

\* Create: a fresh id, and one insert.
Insert(c, i) ==
    /\ call[c].at = "write"
    /\ call[c].req.op = "create"
    /\ i \in fresh
    /\ fresh' = fresh \ {i}
    /\ rows' = [rows EXCEPT ![i] = NewRow(FALSE)]
    /\ Committed(c, [call[c] EXCEPT !.stored = NewRow(FALSE), !.did = {i}])
    /\ UNCHANGED bulkWriter

\* The first statement, a FindOne: it has no row.
NotFound(c) ==
    /\ call[c].at = "read"
    /\ call[c].req.op \notin Bulk
    /\ ~ Matches(call[c].req, call[c].req.id, rows[call[c].req.id])
    /\ Become(c, Answering(call[c], "not_found"))
    /\ UNCHANGED <<bulkWriter, rows, fresh>>

\* Restore finds a document that is not deleted: it comes back without a write.
NotDeleted(c) ==
    /\ call[c].at = "read"
    /\ call[c].req.op = "restore"
    /\ Active(rows[call[c].req.id])
    /\ Become(c, Answering(call[c], "ok"))
    /\ UNCHANGED <<bulkWriter, rows, fresh>>

\* FindOne finds the document.
ReadOne(c) ==
    LET i == call[c].req.id IN
    /\ call[c].at = "read"
    /\ call[c].req.op \notin Bulk
    /\ Matches(call[c].req, i, rows[i])
    /\ call[c].req.op = "restore" => ~ Active(rows[i])
    /\ Become(c, [call[c] EXCEPT !.at = "write", !.read = rows[i], !.saw = {i},
                                 !.first = IF call[c].first = 0 THEN rows[i].version ELSE @])
    /\ UNCHANGED <<bulkWriter, rows, fresh>>

\* The second, an UpdatePaths, has its row.
Update(c) ==
    LET i == call[c].req.id IN
    /\ call[c].at = "write"
    /\ call[c].req.op \in {"patch", "delete", "restore"}
    /\ Updates(c)
    /\ rows' = [rows EXCEPT ![i] = Written(c, rows[i])]
    /\ Committed(c, [call[c] EXCEPT !.stored = Written(c, rows[i]), !.did = {i}])
    /\ UNCHANGED <<bulkWriter, fresh>>

\* A patch's has not: it reads again...
Retry(c) ==
    /\ call[c].at = "write"
    /\ call[c].req.op = "patch"
    /\ ~ Updates(c)
    /\ call[c].attempt < PatchAttempts
    /\ Become(c, [call[c] EXCEPT !.at = "read", !.attempt = @ + 1])
    /\ UNCHANGED <<bulkWriter, rows, fresh>>

\* Mutant of Conflict: the last attempt is not made.
ConflictEarly(c) ==
    /\ call[c].at = "write"
    /\ call[c].req.op = "patch"
    /\ ~ Updates(c)
    /\ call[c].attempt >= PatchAttempts - 1
    /\ Become(c, Answering(call[c], "conflict"))
    /\ UNCHANGED <<bulkWriter, rows, fresh>>

\* ...as often as it may.
Conflict(c) ==
    /\ call[c].at = "write"
    /\ call[c].req.op = "patch"
    /\ ~ Updates(c)
    /\ call[c].attempt = PatchAttempts
    /\ Become(c, Answering(call[c], "conflict"))
    /\ UNCHANGED <<bulkWriter, rows, fresh>>

\* Delete's, Restore's or a hard Delete's row is gone.
Gone(c) ==
    /\ call[c].at = "write"
    /\ call[c].req.op \in {"delete", "restore", "hard_delete"}
    /\ rows[call[c].req.id] = NoRow
    /\ Become(c, Answering(call[c], "not_found"))
    /\ UNCHANGED <<bulkWriter, rows, fresh>>

\* DeleteOne.
HardDelete(c) ==
    LET i == call[c].req.id IN
    /\ call[c].at = "write"
    /\ call[c].req.op = "hard_delete"
    /\ rows[i] # NoRow
    /\ rows' = [rows EXCEPT ![i] = NoRow]
    /\ Committed(c, [call[c] EXCEPT !.saw = {i}, !.did = {i}])
    /\ UNCHANGED <<bulkWriter, fresh>>

-----------------------------------------------------------------------------
(* Set-wide writes.                                                         *)

\* UpdatePathsWhere: one statement.
UpdateWhere(c) ==
    /\ call[c].at = "write"
    /\ call[c].req.op \in Bulk
    /\ rows' = [i \in Ids |-> IF i \in Matching(c) THEN Written(c, rows[i]) ELSE rows[i]]
    /\ Committed(c, [call[c] EXCEPT !.saw = Matching(c), !.did = Matching(c)])
    /\ UNCHANGED <<bulkWriter, fresh>>

\* Without a BulkWriter: FindMany...
FindMany(c) ==
    /\ call[c].at = "read"
    /\ call[c].req.op \in Bulk
    /\ Become(c, [call[c] EXCEPT !.at = "walk", !.todo = Matching(c), !.saw = Matching(c)])
    /\ UNCHANGED <<bulkWriter, rows, fresh>>

\* ...and an UpdatePaths for each row that is still there, by its id alone.  One
\* whose answer is lost ends the walk.
WalkOn(c, i) ==
    LET k == [call[c] EXCEPT !.todo = @ \ {i}, !.did = @ \cup {i}] IN
    /\ call[c].at = "walk"
    /\ i \in call[c].todo
    /\ rows[i] # NoRow
    /\ rows' = [rows EXCEPT ![i] = Written(c, rows[i])]
    /\ Become(c, k) \/ Become(c, Answering(k, "error"))
    /\ UNCHANGED <<bulkWriter, fresh>>

WalkOver(c, i) ==
    /\ call[c].at = "walk"
    /\ i \in call[c].todo
    /\ rows[i] = NoRow
    /\ Become(c, [call[c] EXCEPT !.todo = @ \ {i}])
    /\ UNCHANGED <<bulkWriter, rows, fresh>>

WalkEnds(c) ==
    /\ call[c].at = "walk"
    /\ call[c].todo = {}
    /\ Become(c, Answering(call[c], "ok"))
    /\ UNCHANGED <<bulkWriter, rows, fresh>>

-----------------------------------------------------------------------------

Step(c) ==
    \/ \E req \in Request : Begin(c, req)
    \/ Fails(c)
    \/ \E i \in Ids : Insert(c, i)
    \/ NotFound(c) \/ NotDeleted(c) \/ ReadOne(c)
    \/ Update(c) \/ Retry(c) \/ Conflict(c) \/ Gone(c) \/ HardDelete(c)
    \/ UpdateWhere(c) \/ FindMany(c)
    \/ \E i \in Ids : WalkOn(c, i) \/ WalkOver(c, i)
    \/ WalkEnds(c)

Next == \E c \in Calls : Step(c)

Spec == Init /\ [][Next]_vars

-----------------------------------------------------------------------------
(* Properties.                                                              *)

Asks(c, op) == call[c].at # "idle" /\ call[c].req.op = op

\* No update is lost: what a patch wrote is in its document for as long as the
\* document has a row, whatever other patches, deletions, restores and set-wide
\* writes do around it.
PatchesAreKept ==
    \A c \in Calls : Asks(c, "patch") =>
        \A i \in call[c].did : rows[i] = NoRow \/ c \in rows[i].tally

\* The document a patch stored is the one it validated: the document it read
\* with its own change, and nothing that was written in between.
PatchStoresWhatItValidated ==
    \A c \in Calls : Asks(c, "patch") /\ call[c].did # {} =>
        /\ call[c].stored.tally = call[c].read.tally \cup {c}
        /\ call[c].stored.flag = call[c].read.flag
        /\ call[c].stored.version = call[c].read.version + 1

\* The documents that calls have held under an id, and the one in its row.
Seen(i) == ({rows[i]} \cup UNION {{call[c].read, call[c].stored} :
              c \in {d \in Calls : call[d].at # "idle" /\ call[d].req.id = i}}) \ {NoRow}

\* A version names one body: any two documents seen under one id and version
\* have the same fields, and differ in their deletion stamp at most.
VersionsNameBodies ==
    \A i \in Ids : \A a, b \in Seen(i) :
        a.version = b.version => a.tally = b.tally /\ a.flag = b.flag

\* ErrConflict is earned: the document has moved on at least once for every
\* attempt, or it is gone.
ConflictsAreEarned ==
    \A c \in Calls : call[c].answer = "conflict" =>
        LET row == rows[call[c].req.id] IN
        row = NoRow \/ row.version >= call[c].first + PatchAttempts

\* Each call is as good as atomic on each document.
Atomic == INSTANCE AtomicDocuments WITH
    docs   <- rows,
    asked  <- [c \in Calls |-> call[c].req],
    saw    <- [c \in Calls |-> call[c].saw],
    did    <- [c \in Calls |-> call[c].did],
    answer <- [c \in Calls |-> call[c].answer]

\* Patch's three attempts, Delete's read before its write and the walk that
\* stands in for a set-wide statement implement one step on each document.
IsAtomic == Atomic!Spec

\* service.go says that Delete reads first "so a second delete answers
\* ErrNotFound": of two deletions of a document that nobody restores, one is
\* told that there was nothing to delete.
SecondDeleteIsNotFound ==
    \A c, d \in Calls :
        /\ c # d /\ Asks(c, "delete") /\ Asks(d, "delete")
        /\ call[c].answer = "ok" /\ call[d].answer = "ok"
        /\ call[c].req.id = call[d].req.id
        => \E e \in Calls : Asks(e, "restore") /\ call[e].did # {}

=============================================================================
