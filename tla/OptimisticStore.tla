---------------------------- MODULE OptimisticStore ----------------------------
(***************************************************************************)
(* The store that `howl scaffold` writes into a project (scaffold.go, the  *)
(* template of examples/toy_app/client/store): a mutation is applied in    *)
(* the browser at once and queued for the server, which one sender tells   *)
(* in order, again and again until it answers.                             *)
(*                                                                         *)
(* The browser's goroutines share one thread and change over only where    *)
(* they block: on the kick channel, in the call to the server, in Sleep.   *)
(* The server applies an op in one step (its handler's lock).  A call can  *)
(* fail before the server sees it, or its answer be lost.  A page comes    *)
(* with the snapshot the server rendered into it, which Hydrate installs.  *)
(***************************************************************************)
EXTENDS Integers, Sequences

CONSTANTS
    MaxOps, \* bound: the ops committed
    MaxLost \* bound: the answers lost

ASSUME SyncAssumption == MaxOps \in Nat /\ MaxLost \in Nat

VARIABLES
    view,      \* client: what the browser shows
    confirmed, \* what the server last agreed to
    pending,   \* applied locally since, oldest first
    commits,   \* the seq of the last op
    kick,      \* there is a token in the channel
    sender,    \* the sender goroutine: where it is, and the op it sends
    offline,   \* the signal Offline
    server,    \* the server's store
    page,      \* the snapshot in the page that is coming, if one is
    \* history
    landed,    \* the seqs of the ops the server applied, in order
    refused,   \* the seqs of those it refused
    lost,      \* the answers lost
    astray     \* since the last good snapshot an answer was lost, or that was an old one

syncVars == <<view, confirmed, pending, commits, kick, sender, offline, server, page,
              landed, refused, lost, astray>>

Snapshot == [nextId : Nat, items : Seq([id : Nat, text : Nat])]

\* An op: an edit and an add write their own seq as the text.
Op == [seq : Nat \ {0}, kind : {"add", "del", "edit"}, id : Nat]

NoPage == <<>>
NoOp   == [seq |-> 0, kind |-> "none", id |-> 0]

\* Every variable has its type.
SyncTypeOK ==
    /\ view \in Snapshot /\ confirmed \in Snapshot /\ server \in Snapshot
    /\ pending \in Seq(Op)
    /\ commits \in 0..MaxOps
    /\ kick \in BOOLEAN /\ offline \in BOOLEAN
    /\ sender \in [at : {"waiting", "sending", "answered", "sleeping"}, op : Op \cup {NoOp},
                    verdict : {"none", "ok", "refused", "failed"}]
    /\ page = NoPage \/ page[1] \in Snapshot
    /\ landed \in Seq(1..MaxOps) /\ refused \subseteq 1..MaxOps
    /\ lost \in 0..MaxLost /\ astray \in BOOLEAN

EmptyStore == [nextId |-> 0, items |-> <<>>]

SyncInit ==
    /\ view = EmptyStore /\ confirmed = EmptyStore /\ server = EmptyStore
    /\ pending = <<>> /\ commits = 0
    /\ kick = FALSE /\ offline = FALSE
    /\ sender = [at |-> "waiting", op |-> NoOp, verdict |-> "none"]
    /\ page = NoPage
    /\ landed = <<>> /\ refused = {} /\ lost = 0 /\ astray = FALSE

-----------------------------------------------------------------------------
(* The domain half, which both sides run.                                   *)

Ids(sn) == {sn.items[i].id : i \in 1..Len(sn.items)}

\* Apply.
ApplyOp(sn, op) ==
    CASE op.kind = "add" ->
            [nextId |-> sn.nextId + 1,
             items  |-> Append(sn.items, [id |-> sn.nextId + 1, text |-> op.seq])]
      [] op.kind = "del" ->
            [sn EXCEPT !.items = SelectSeq(sn.items, LAMBDA item : item.id # op.id)]
      [] op.kind = "edit" ->
            [sn EXCEPT !.items = [i \in 1..Len(sn.items) |->
                IF sn.items[i].id = op.id THEN [sn.items[i] EXCEPT !.text = op.seq]
                ELSE sn.items[i]]]

\* replay.
Replay(sn, ops) ==
    LET after[n \in 0..Len(ops)] == IF n = 0 THEN sn ELSE ApplyOp(after[n - 1], ops[n])
    IN after[Len(ops)]

-----------------------------------------------------------------------------
(* The page's side.                                                         *)

\* Commit.
Commit(kind, id) ==
    LET op == [seq |-> commits + 1, kind |-> kind, id |-> id]
    IN /\ commits < MaxOps
       /\ IF kind = "add" THEN id = 0 ELSE id \in Ids(view)
       /\ commits' = commits + 1
       /\ pending' = Append(pending, op)
       /\ view' = ApplyOp(view, op)
       /\ kick' = TRUE
       /\ UNCHANGED <<confirmed, sender, offline, server, page, landed, refused, lost, astray>>

\* A navigation: the server renders its snapshot into the page...
Render ==
    /\ page = NoPage
    /\ page' = <<server>>
    /\ UNCHANGED <<view, confirmed, pending, commits, kick, sender, offline, server,
                   landed, refused, lost, astray>>

\* Mutant of Hydrate: the ops that wait are not replayed.
HydrateBare ==
    /\ page # NoPage
    /\ confirmed' = page[1]
    /\ view' = page[1]
    /\ page' = NoPage
    /\ astray' = (page[1] # server \/ sender.verdict = "ok")
    /\ UNCHANGED <<pending, commits, kick, sender, offline, server, landed, refused, lost>>

\* ...and it mounts: Hydrate.  By then the snapshot may be an old one, or have an op in it
\* that is still to be confirmed.
Hydrate ==
    /\ page # NoPage
    /\ confirmed' = page[1]
    /\ view' = Replay(page[1], pending)
    /\ page' = NoPage
    /\ astray' = (page[1] # server \/ sender.verdict = "ok")
    /\ UNCHANGED <<pending, commits, kick, sender, offline, server, landed, refused, lost>>

-----------------------------------------------------------------------------
(* The sender, and the server.                                              *)

Waiting == [at |-> "waiting", op |-> NoOp, verdict |-> "none"]

\* The loop over pending: the next send, or back to the channel.
Loop(ops) ==
    IF ops = <<>> THEN Waiting ELSE [at |-> "sending", op |-> ops[1], verdict |-> "none"]

\* A kick.
Wake ==
    /\ sender.at = "waiting"
    /\ kick
    /\ kick' = FALSE
    /\ sender' = Loop(pending)
    /\ UNCHANGED <<view, confirmed, pending, commits, offline, server, page,
                   landed, refused, lost, astray>>

Verdict(v) == sender' = [sender EXCEPT !.at = "answered", !.verdict = v]

\* The server applies the op, and the answer comes...
ServerApplies ==
    /\ sender.at = "sending"
    /\ server' = ApplyOp(server, sender.op)
    /\ landed' = Append(landed, sender.op.seq)
    /\ Verdict("ok")
    /\ UNCHANGED <<view, confirmed, pending, commits, kick, offline, page, refused, lost, astray>>

\* ...or is lost.
AnswerLost ==
    /\ sender.at = "sending"
    /\ lost < MaxLost
    /\ server' = ApplyOp(server, sender.op)
    /\ landed' = Append(landed, sender.op.seq)
    /\ Verdict("failed")
    /\ lost' = lost + 1
    /\ astray' = TRUE
    /\ UNCHANGED <<view, confirmed, pending, commits, kick, offline, page, refused>>

\* It refuses, for a reason of its own: a 4xx.
ServerRefuses ==
    /\ sender.at = "sending"
    /\ refused' = refused \cup {sender.op.seq}
    /\ Verdict("refused")
    /\ UNCHANGED <<view, confirmed, pending, commits, kick, offline, server, page,
                   landed, lost, astray>>

\* The call fails before it, or it answers a 5xx.
Unreachable ==
    /\ sender.at = "sending"
    /\ Verdict("failed")
    /\ UNCHANGED <<view, confirmed, pending, commits, kick, offline, server, page,
                   landed, refused, lost, astray>>

\* drop: the first op of that seq goes, if there is one.
Dropped(seq) ==
    LET found == {i \in 1..Len(pending) : pending[i].seq = seq}
        first == CHOOSE i \in found : \A j \in found : i <= j
    IN  IF found = {} THEN pending
        ELSE [i \in 1..Len(pending) - 1 |-> pending[IF i < first THEN i ELSE i + 1]]

\* Mutant of Confirm: the op is dropped and not folded in.
ConfirmWithoutFolding ==
    /\ sender.at = "answered" /\ sender.verdict = "ok"
    /\ pending' = Dropped(sender.op.seq)
    /\ offline' = FALSE
    /\ sender' = Loop(pending')
    /\ UNCHANGED <<view, confirmed, commits, kick, server, page, landed, refused, lost, astray>>

\* confirm: the server has it, so it moves from what waits to what was confirmed.
Confirm ==
    /\ sender.at = "answered" /\ sender.verdict = "ok"
    /\ pending' = Dropped(sender.op.seq)
    /\ confirmed' = ApplyOp(confirmed, sender.op)
    /\ offline' = FALSE
    /\ sender' = Loop(pending')
    /\ UNCHANGED <<view, commits, kick, server, page, landed, refused, lost, astray>>

\* Mutant of Reject: the view goes back to what was confirmed.
RejectAll ==
    /\ sender.at = "answered" /\ sender.verdict = "refused"
    /\ pending' = Dropped(sender.op.seq)
    /\ view' = confirmed
    /\ offline' = FALSE
    /\ sender' = Loop(pending')
    /\ UNCHANGED <<confirmed, commits, kick, server, page, landed, refused, lost, astray>>

\* reject: the view is rebuilt from what is still to be sent.
Reject ==
    /\ sender.at = "answered" /\ sender.verdict = "refused"
    /\ pending' = Dropped(sender.op.seq)
    /\ view' = Replay(confirmed, pending')
    /\ offline' = FALSE
    /\ sender' = Loop(pending')
    /\ UNCHANGED <<confirmed, commits, kick, server, page, landed, refused, lost, astray>>

BackOff ==
    /\ sender.at = "answered" /\ sender.verdict = "failed"
    /\ offline' = TRUE
    /\ sender' = [sender EXCEPT !.at = "sleeping", !.verdict = "none"]
    /\ UNCHANGED <<view, confirmed, pending, commits, kick, server, page,
                   landed, refused, lost, astray>>

\* Mutants of Resend: it goes on with the newest; it waits for a kick.
ResendNewest ==
    /\ sender.at = "sleeping"
    /\ sender' = [Loop(pending) EXCEPT !.op = pending[Len(pending)]]
    /\ UNCHANGED <<view, confirmed, pending, commits, kick, offline, server, page,
                   landed, refused, lost, astray>>
ResendWhenKicked ==
    /\ sender.at = "sleeping"
    /\ sender' = Waiting
    /\ UNCHANGED <<view, confirmed, pending, commits, kick, offline, server, page,
                   landed, refused, lost, astray>>

\* Awake, it tries the same op again.
Resend ==
    /\ sender.at = "sleeping"
    /\ sender' = Loop(pending)
    /\ UNCHANGED <<view, confirmed, pending, commits, kick, offline, server, page,
                   landed, refused, lost, astray>>

SenderStep == Wake \/ Confirm \/ Reject \/ BackOff \/ Resend

SyncNext ==
    \/ \E id \in 0..MaxOps + MaxLost : \E kind \in {"add", "del", "edit"} : Commit(kind, id)
    \/ Render \/ Hydrate
    \/ SenderStep
    \/ ServerApplies \/ AnswerLost \/ ServerRefuses \/ Unreachable

SyncSpec == SyncInit /\ [][SyncNext]_syncVars

\* The sender runs; and the server, tried again and again, is reached in the end.
SyncFairSpec ==
    /\ SyncSpec
    /\ WF_syncVars(SenderStep)
    /\ SF_syncVars(ServerApplies \/ ServerRefuses)

-----------------------------------------------------------------------------
\* The browser shows what was confirmed with the ops that wait on top, whatever came in
\* between: commits, refusals, pages ("a later op that the server will still see is kept").
\* Once all is answered that is what the server has, if no answer was lost and the last
\* snapshot was not an old one.
ViewIsReplay ==
    /\ view = Replay(confirmed, pending)
    /\ pending = <<>> /\ ~astray => confirmed = server

\* The server gets the ops in the order of their commits, and none is dropped that it did
\* not answer ("order is the whole point of one sender"; "nothing is dropped").
InOrderAndWhole ==
    /\ \A i, j \in 1..Len(landed) : i <= j => landed[i] <= landed[j]
    /\ \A seq \in 1..commits :
          \/ \E i \in 1..Len(pending) : pending[i].seq = seq
          \/ seq \in refused
          \/ \E i \in 1..Len(landed) : landed[i] = seq

\* Whatever is committed is answered in the end: a sender that waits on the channel has
\* nothing to send, or a kick to wake it.
QueueDrains == pending # <<>> ~> pending = <<>>
=============================================================================
