--------------------------- MODULE AtomicDocuments ---------------------------
(***************************************************************************)
(* What a collection promises its writers: whatever a call reads before it *)
(* writes and however often it retries, a document takes its effect in one *)
(* step, on the value the document has at that step, and at most once.     *)
(***************************************************************************)
EXTENDS DocumentRows

VARIABLES
    docs,     \* the documents
    fresh,    \* the ids that no document has had yet
    asked,    \* what each call asks for, once it has begun
    saw,      \* the documents a call has seen to match what it asks for
    did,      \* the documents that have taken a call's effect
    answer    \* what the call answered

vars == <<docs, fresh, asked, saw, did, answer>>

Answers == {"none", "ok", "not_found", "conflict", "error"}

Init ==
    /\ docs \in [Ids -> Row \cup {NoRow}]
    /\ fresh \in SUBSET {i \in Ids : docs[i] = NoRow}
    /\ asked = [c \in Calls |-> None]
    /\ saw = [c \in Calls |-> {}]
    /\ did = [c \in Calls |-> {}]
    /\ answer = [c \in Calls |-> "none"]

Running(c) == asked[c] # None /\ answer[c] = "none"

\* The effect of a call on a document.
Taken(c, row) ==
    CASE asked[c].op = "patch"                      -> [row EXCEPT !.tally = @ \cup {c},
                                                                   !.version = @ + 1]
      [] asked[c].op \in {"delete", "delete_where"} -> [row EXCEPT !.deletedBy = c]
      [] asked[c].op = "hard_delete"                -> NoRow
      [] asked[c].op = "restore"                    -> [row EXCEPT !.deletedBy = None,
                                                                   !.version = @ + 1]
      [] asked[c].op = "patch_where"                -> [row EXCEPT !.flag = TRUE,
                                                                   !.version = @ + 1]

Ask(c, req) ==
    /\ asked[c] = None
    /\ UNCHANGED <<docs, fresh, saw, did, answer>>
    /\ asked' = [asked EXCEPT ![c] = req]

\* A call sees documents that match, all at one moment.
Look(c, seen) ==
    /\ UNCHANGED <<docs, fresh, asked, did, answer>>
    /\ saw' = [saw EXCEPT ![c] = @ \cup seen]
    /\ \A i \in seen : Matches(asked[c], i, docs[i])

\* What the call may answer when `done` is what it has done in all.
MayAnswer(c, done, a) ==
    CASE a = "none"      -> TRUE
      [] a = "error"     -> TRUE
      [] a = "conflict"  -> asked[c].op = "patch" /\ done = {}
      [] a = "not_found" -> /\ asked[c].id # None /\ done = {}
                            /\ ~ Matches(asked[c], asked[c].id, docs[asked[c].id])
      [] a = "ok"        -> /\ asked[c].op \in Bulk =>
                                  \A i \in saw'[c] : i \in done \/ docs[i] = NoRow
                            /\ asked[c].op \notin Bulk =>
                                  \/ done = {asked[c].id}
                                  \/ asked[c].op = "restore" /\ Active(docs[asked[c].id])

\* Documents that the call has seen, or sees now, to match take its effect, and
\* the call may answer in the same step.
Take(c, targets, a) ==
    /\ answer' = [answer EXCEPT ![c] = a]
    /\ UNCHANGED <<fresh, asked>>
    /\ saw' \in {saw, [saw EXCEPT ![c] = targets]}
    /\ saw' # saw => \A i \in targets : Matches(asked[c], i, docs[i])
    /\ \A i \in targets : i \in saw'[c] \ did[c] /\ docs[i] # NoRow
    /\ docs' = [i \in Ids |-> IF i \in targets THEN Taken(c, docs[i]) ELSE docs[i]]
    /\ did' = [did EXCEPT ![c] = @ \cup targets]
    /\ MayAnswer(c, did'[c], a)

\* A document is created, under an id that no document has had.
Create(c, i, a) ==
    /\ asked[c].op = "create"
    /\ i \in fresh
    /\ docs' = [docs EXCEPT ![i] = [tally |-> {}, flag |-> FALSE, version |-> 1,
                                    deletedBy |-> None]]
    /\ fresh' = fresh \ {i}
    /\ did' = [did EXCEPT ![c] = {i}]
    /\ a \in {"ok", "error"}
    /\ answer' = [answer EXCEPT ![c] = a]
    /\ UNCHANGED <<asked, saw>>

\* A call asks, once; while it runs it looks at documents, takes its effect on some or
\* creates one.
Next ==
    \E c \in Calls :
        \/ asked'[c] \in Request /\ Ask(c, asked'[c])
        \/ /\ Running(c)
           /\ \/ \E seen \in SUBSET Ids : Look(c, seen)
              \/ \E targets \in SUBSET Ids, a \in Answers : Take(c, targets, a)
              \/ \E i \in Ids, a \in Answers : Create(c, i, a)

Spec == Init /\ [][Next]_vars

=============================================================================
