------------------------------ MODULE PathWrites ------------------------------
(***************************************************************************)
(* How a patch gets from an edited document to the row: diff of db/json.go *)
(* names the paths that changed, and a backend applies them in one         *)
(* statement.  Two backends deep-set them (memdb in Go, pg in plpgsql) and *)
(* one merges them (sqlite, json_patch).                                   *)
(*                                                                         *)
(* A document is a tree: a function from the paths it has to what is       *)
(* there, a scalar, null or Obj.  The writers are releases of a program    *)
(* that declare different fields, as during a rolling deploy; one row is   *)
(* enough, since no statement reads two.                                   *)
(***************************************************************************)
EXTENDS Integers, Sequences

CONSTANTS
    Writers,    \* the processes, one of each release
    Declared,   \* the top-level fields each one's struct declares
    Paths,      \* the paths a document may have, below id, version and meta
    Scalars,    \* the scalars there may be at them
    Null,       \* the JSON null
    Obj,        \* an object
    Default,    \* the scalar a declared field defaults to (Defaulter)
    Engines,    \* the backends: {"memdb", "pg", "sqlite"}
    MaxVersion  \* bound: the versions of the row

Prefixes(p) == {SubSeq(p, 1, n) : n \in 1..Len(p)}
Above(p)    == Prefixes(p) \ {p}
Tops        == {p[1] : p \in Paths}

ASSUME PathAssumption ==
    /\ Paths \subseteq Seq(STRING)
    /\ \A p \in Paths : Len(p) > 0 /\ Prefixes(p) \subseteq Paths
    /\ Declared \in [Writers -> SUBSET Tops]
    /\ Null # Obj /\ {Null, Obj} \cap Scalars = {}
    /\ Default \in Scalars
    /\ Engines \subseteq {"memdb", "pg", "sqlite"}
    /\ MaxVersion \in Nat \ {0}

\* The trees: what is above a path is an object.
Trees ==
    UNION {{t \in [D -> Scalars \cup {Null, Obj}] :
               \A p \in D : \A q \in Above(p) : q \in D /\ t[q] = Obj} :
           D \in SUBSET Paths}

VARIABLES
    engine, \* the backend of the row
    doc,    \* the row's document
    version,
    patch,  \* the patch under way: whose, and the document and version it read
    edit    \* history: the patch that the last step committed, and what to

pathVars == <<engine, doc, version, patch, edit>>

NoPatch == [by |-> "nobody"]
NoEdit  == [by |-> "nobody"]

\* Every variable has its type: what is stored is always a document.
PathTypeOK ==
    /\ engine \in Engines
    /\ doc \in Trees
    /\ version \in 1..MaxVersion
    /\ patch = NoPatch \/ patch \in [by : Writers, raw : Trees, version : 1..version]
    /\ edit = NoEdit \/ edit \in [by : Writers, raw : Trees, after : Trees]

PathInit ==
    /\ engine \in Engines
    /\ doc \in Trees
    /\ version = 1
    /\ patch = NoPatch
    /\ edit = NoEdit

-----------------------------------------------------------------------------
(* db/json.go.                                                              *)

\* The subtree at a path, which may have nothing.
At(t, p) == [q \in {r \in DOMAIN t : p \in Prefixes(r)} |-> t[q]]

IsObj(t, p) == p \in DOMAIN t /\ t[p] = Obj

\* jsonEqual, of what the trees have at p.
Same(t, u, p) == At(t, p) = At(u, p)

\* The keys of an object.
Under(t, p) == {q \in DOMAIN t : Len(q) = Len(p) + 1 /\ p \in Prefixes(q)}

\* Mutant of GoesInto: a key that disappeared is not looked for.
GoesIntoAny(before, after, p) == IsObj(before, p) /\ IsObj(after, p)

\* diffObject goes into an object the trees both have, but not into one that a key
\* disappeared from.
GoesInto(before, after, p) ==
    /\ IsObj(before, p) /\ IsObj(after, p)
    /\ Under(before, p) \subseteq DOMAIN after

\* Mutant of ToSet: diff does not recurse.
ToSetTops(before, after) == {p \in DOMAIN after : Len(p) = 1 /\ ~Same(before, after, p)}

\* The paths diff sets, to what the edited document has there.
ToSet(before, after) ==
    {p \in DOMAIN after :
        /\ ~Same(before, after, p)
        /\ ~GoesInto(before, after, p)
        /\ \A q \in Above(p) : GoesInto(before, after, q)}

\* Mutant of ToUnset: every field the struct has not is removed.
ToUnsetAll(before, after, declared) ==
    {p \in DOMAIN before : Len(p) = 1 /\ p \notin DOMAIN after}

\* The paths diff removes: declared fields, never an orphan.
ToUnset(before, after, declared) ==
    {p \in DOMAIN before : Len(p) = 1 /\ p \notin DOMAIN after /\ p[1] \in declared}

-----------------------------------------------------------------------------
(* The backends, given the paths to set to what a tree has there.           *)

\* Mutant of DeepSet: a parent that is not an object is left.
DeepSetLeavingParents(t, ps, u) ==
    LET kept == {q \in DOMAIN t : Prefixes(q) \cap ps = {}}
        put  == {q \in DOMAIN u : Prefixes(q) \cap ps # {}}
    IN [q \in kept \cup put |-> IF q \in put THEN u[q] ELSE t[q]]

\* apply of memdb and howl_jsonb_deep_set of pg: what is at each path is replaced, and
\* the parents it needs are made objects.
DeepSet(t, ps, u) ==
    LET above == UNION {Above(p) : p \in ps}
        kept  == {q \in DOMAIN t : Prefixes(q) \cap ps = {}}
        put   == {q \in DOMAIN u : Prefixes(q) \cap ps # {}}
    IN [q \in kept \cup put \cup above |->
           IF q \in put THEN u[q] ELSE IF q \in above THEN Obj ELSE t[q]]

\* json_patch (RFC 7386), of the object nest builds: objects merge, a null removes.
JsonPatch(t, ps, u) ==
    LET given == {q \in DOMAIN u : Prefixes(q) \cap ps # {}}
        above == UNION {Above(p) : p \in ps}
        is(q) == IF q \in given THEN u[q] ELSE Obj
        kept  == {q \in DOMAIN t : \A r \in Prefixes(q) \cap (given \cup above) : is(r) = Obj}
        put   == {q \in given \cup above : is(q) # Null}
    IN [q \in kept \cup put |-> IF q \in put THEN is(q) ELSE t[q]]

\* json_set to null: nothing, where a parent is not an object.
SetNull(t, ps) ==
    LET able == {p \in ps : \A q \in Above(p) \cap DOMAIN t : t[q] = Obj}
        above == UNION {Above(p) : p \in able}
        kept  == {q \in DOMAIN t : Prefixes(q) \cap able = {}}
    IN [q \in kept \cup able \cup above |->
           IF q \in able THEN Null ELSE IF q \in above THEN Obj ELSE t[q]]

\* setExpr of sqlite: the nulls cannot ride the patch.
Merge(t, ps, u) ==
    LET nulls == {p \in ps : u[p] = Null}
    IN SetNull(JsonPatch(t, ps \ nulls, u), nulls)

Unset(t, ps) == [q \in {r \in DOMAIN t : Prefixes(r) \cap ps = {}} |-> t[q]]

Applied(t, ps, u, gone) ==
    Unset(IF engine = "sqlite" THEN Merge(t, ps, u) ELSE DeepSet(t, ps, u), gone)

-----------------------------------------------------------------------------
Bump ==
    /\ version < MaxVersion
    /\ version' = version + 1

\* A patch's read.  One patch at a time is enough: what comes between its read and its
\* write is any other write, and of another patch only that the version moves.
ReadToPatch(w) ==
    /\ patch = NoPatch
    /\ patch' = [by |-> w, raw |-> doc, version |-> version]
    /\ edit' = NoEdit
    /\ UNCHANGED <<engine, doc, version>>

\* An edit is of the fields the struct declares: the others are not in it.
Edits(w) == {t \in Trees : \A p \in DOMAIN t : p[1] \in Declared[w]}

\* Its write, under the version it read.
PatchTo(after) ==
    LET raw == patch.raw
    IN /\ patch # NoPatch
       /\ patch.version = version
       /\ doc' = Applied(doc, ToSet(raw, after), after, ToUnset(raw, after, Declared[patch.by]))
       /\ Bump
       /\ patch' = NoPatch
       /\ edit' = [by |-> patch.by, raw |-> raw, after |-> after]
       /\ UNCHANGED engine

\* The version moved: it reads again, or gives up.
PatchRefused ==
    /\ patch # NoPatch
    /\ patch.version # version
    /\ patch' = NoPatch
    /\ edit' = NoEdit
    /\ UNCHANGED <<engine, doc, version>>

\* PatchWhere, of one path that is set to a scalar or to null.
SetWhere(p, v) ==
    /\ doc' = Applied(doc, {p}, [q \in {p} |-> v], {})
    /\ Bump
    /\ edit' = NoEdit
    /\ UNCHANGED <<engine, patch>>

\* Backfill: the same, of a declared field the document lacks.
Backfill(w, k) ==
    /\ k \in Declared[w]
    /\ <<k>> \notin DOMAIN doc
    /\ SetWhere(<<k>>, Default)

\* DropField, of a release that does not declare it.  No version moves.
DropField(w, k) ==
    /\ k \in Tops \ Declared[w]
    /\ <<k>> \in DOMAIN doc
    /\ doc' = Unset(doc, {<<k>>})
    /\ edit' = NoEdit
    /\ UNCHANGED <<engine, version, patch>>

PathNext ==
    \/ \E w \in Writers :
          \/ ReadToPatch(w)
          \/ \E k \in Tops : Backfill(w, k) \/ DropField(w, k)
    \/ patch # NoPatch /\ \E after \in Edits(patch.by) : PatchTo(after)
    \/ PatchRefused
    \/ \E p \in Paths : \E v \in Scalars \cup {Null} : SetWhere(p, v)

PathSpec == PathInit /\ [][PathNext]_pathVars

-----------------------------------------------------------------------------
\* "A stored key outside that set is an orphan ... and must survive an ordinary patch
\* untouched" (diff): whoever else wrote since the patch's read, and on every backend.
OrphansSurvive ==
    \A k \in Tops \ Declared[edit'.by] : At(doc, <<k>>) = At(doc', <<k>>)

\* What a patch did not edit is left as it is stored by then, not as the patch read it,
\* down to the fields of a sub-document that lost no key to the edit (diff: "a deep-set
\* of a.b leaves a.c alone").
LeavesTheRestAlone ==
    \A p \in Paths :
        (/\ Same(edit'.raw, edit'.after, p)
         /\ p[1] \in Declared[edit'.by]
         /\ \A q \in Above(p) : GoesInto(edit'.raw, edit'.after, q))
            => Same(doc, doc', p)

\* If the row is still the one the patch read, then it stores the document it edited,
\* orphans apart.
StoresTheEdit ==
    doc = edit'.raw => \A k \in Declared[edit'.by] : Same(doc', edit'.after, <<k>>)

\* A patch stores its edit, where the paths are deep-set, and leaves everything else alone,
\* wherever they are.
PatchesStoreTheirEdit ==
    [][edit' # NoEdit =>
          /\ OrphansSurvive
          /\ LeavesTheRestAlone
          /\ engine # "sqlite" => StoresTheEdit]_pathVars

\* "It stops recursing as soon as a key disappears from an object, and rewrites that
\* object whole, since a deep-set has no way to express a removal below the top level"
\* (json.go:41-44): what the edit removed is gone, on every backend.
RemovedKeysAreGone ==
    [][edit' # NoEdit /\ doc = edit'.raw =>
          \A p \in DOMAIN doc \ DOMAIN edit'.after :
              p[1] \in Declared[edit'.by] => p \notin DOMAIN doc']_pathVars
=============================================================================
