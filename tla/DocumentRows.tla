---------------------------- MODULE DocumentRows ----------------------------
(***************************************************************************)
(* The rows of one collection, as db/doc.go declares and the backends      *)
(* store them, and what its callers may ask for: what the specifications   *)
(* of the collection's writes have in common.                              *)
(***************************************************************************)
EXTENDS Naturals

CONSTANTS
    Ids,     \* the ids a backend hands out, each once (NewID)
    Calls,   \* the calls made on the service, each once
    NoRow,   \* what is stored under an id that has no row
    None     \* no call, no id, nothing asked

\* A document: a field that patches accumulate in, each adding itself; a field
\* that set-wide writes set; and of the envelope the version and the deletion
\* stamp, which here names the call that put it there.
Row == [tally     : SUBSET Calls,
        flag      : BOOLEAN,
        version   : Nat \ {0},
        deletedBy : Calls \cup {None}]

Bulk == {"patch_where", "delete_where"}
Ops  == {"create", "patch", "delete", "hard_delete", "restore"} \cup Bulk

\* What a caller asks for.  An insert and a set-wide write name no document,
\* and `lifted` is the option Deleted of a patch.
Request == {req \in [op : Ops, id : Ids \cup {None}, lifted : BOOLEAN] :
              /\ req.id = None <=> req.op \in Bulk \cup {"create"}
              /\ req.lifted => req.op = "patch"}

ASSUME RowsAssumption ==
    /\ NoRow \notin Row
    /\ None \notin Calls \cup Ids \cup Request

Active(row) == row # NoRow /\ row.deletedBy = None

\* The rows an operation is for.  A set-wide write's filter is that the flag is
\* not set.
Matches(req, i, row) ==
    /\ row # NoRow
    /\ req.op \in Bulk => Active(row) /\ ~ row.flag
    /\ req.op \notin Bulk => i = req.id
    /\ req.op \in {"patch", "delete"} => Active(row) \/ req.lifted

=============================================================================
