-------------------------------- MODULE IdClock --------------------------------
(***************************************************************************)
(* db/uuid.go: the time and the counter of an id, from a wall clock that   *)
(* may stand still, jump and step back.  The 62 random bits of an id are   *)
(* left out: what is left must tell two ids of a process apart, and sort   *)
(* them in the order they were asked for.                                  *)
(***************************************************************************)
EXTENDS Integers

CONSTANTS
    Counters, \* how many ids a millisecond has (2^12 in the code)
    Millis,   \* how many milliseconds an id can tell apart (2^48 in the code)
    LastWall, \* bound: the latest the wall clock shows
    MaxIds    \* bound: the ids made

ASSUME IdAssumption ==
    /\ Counters \in Nat \ {0}
    /\ LastWall \in Nat /\ MaxIds \in Nat
    /\ Millis \in Nat /\ LastWall + MaxIds < Millis

VARIABLES
    wall,    \* time.Now().UnixMilli()
    millis,  \* clock.millis
    seq,     \* clock.seq
    made,    \* history: how many ids were made
    newest   \* history: the bits that sort of the last one, NoId before the first

idVars == <<wall, millis, seq, made, newest>>

NoId == -1

\* The bits of an id that sort: the low bits of the time, then the counter.
Packed(ms, n) == (ms % Millis) * Counters + (n % Counters)

\* Every variable has its type, and the counter fits its bits.
IdTypeOK ==
    /\ wall \in 0..LastWall
    /\ millis \in Nat
    /\ seq \in 0..Counters - 1
    /\ made \in 0..MaxIds
    /\ newest \in {NoId} \cup Nat

IdInit ==
    /\ wall = 0
    /\ millis = 0
    /\ seq = 0
    /\ made = 0
    /\ newest = NoId

\* The wall clock moves, forward or back.
WallMoves ==
    /\ \E t \in 0..LastWall : wall' = t
    /\ UNCHANGED <<millis, seq, made, newest>>

\* Mutant of Tick: the counter wraps within its millisecond.
TickWrapping ==
    IF wall > millis THEN millis' = wall /\ seq' = 0
    ELSE millis' = millis /\ seq' = (seq + 1) % Counters

\* tick, under its lock.  A millisecond whose ids are spent borrows the next one.
Tick ==
    \/ wall > millis /\ millis' = wall /\ seq' = 0
    \/ wall <= millis /\ seq >= Counters - 1 /\ millis' = millis + 1 /\ seq' = 0
    \/ wall <= millis /\ seq < Counters - 1 /\ seq' = seq + 1 /\ UNCHANGED millis

NewID ==
    /\ made < MaxIds
    /\ Tick
    /\ made' = made + 1
    /\ newest' = Packed(millis', seq')
    /\ UNCHANGED wall

IdNext == WallMoves \/ NewID

IdSpec == IdInit /\ [][IdNext]_idVars

-----------------------------------------------------------------------------
\* An id sorts after every id made before it, whatever the wall clock does: "the single
\* guarantee this function exists to provide" (tick).
IdsIncrease == [][made' # made => newest' > newest]_idVars
=============================================================================
