------------------------------- MODULE Signals -------------------------------
(***************************************************************************)
(* Fine-grained reactivity (core/signal/signal.go), on the one thread of a *)
(* browser.  An effect runs when it is made and whenever a signal it read  *)
(* last has changed: a Set queues its readers, and the queue is drained,   *)
(* lowest id first, when the outermost write or Batch is over.  A derived  *)
(* value is an effect that writes a signal.                                *)
(*                                                                         *)
(* An effect's body is a program: it reads one signal, then a set that     *)
(* depends on it, and may then write a signal with their sum and stop      *)
(* other effects.  While the queue is drained nothing else runs, and a Set *)
(* in an effect only queues, so a run is one step.                         *)
(***************************************************************************)
EXTENDS Integers, Sequences, FiniteSets

CONSTANTS
    Signals,  \* the signals
    Inputs,   \* those the application writes
    Alike,    \* those with an equality (Of, DeriveEq)
    NoSignal, \* what an effect writes that writes none
    Programs, \* effect id -> what it does: the ids are the order of creation
    MaxWrites \* bound: the writes of the application

Effects == 1..Len(Programs)

Program == [first : Signals, zero : SUBSET Signals, one : SUBSET Signals,
            out : Signals \cup {NoSignal}, stops : SUBSET Nat]

ASSUME SignalAssumption ==
    /\ IsFiniteSet(Signals) /\ NoSignal \notin Signals
    /\ Inputs \subseteq Signals /\ Alike \subseteq Signals
    /\ Programs \in Seq(Program)
    /\ MaxWrites \in Nat

\* A signal that an effect writes is read by later ones only: what is derived from others is
\* made after them.
Forward ==
    \A e, f \in Effects :
        Programs[e].out \in {Programs[f].first} \cup Programs[f].zero \cup Programs[f].one
            => e < f

VARIABLES
    value,    \* signal -> v, 0 or 1
    subs,     \* signal -> subs
    deps,     \* effect -> deps
    queued,   \* pending, the queue
    stopped,  \* the effects stopped
    made,     \* nextID
    batching, \* depth, the application's: a Batch is open
    scope,    \* the page's scope and its cleanups
    \* history
    seen,     \* effect -> what it read last: pairs of a signal and a value
    runs,     \* effect -> its runs in this drain
    writes    \* the writes of the application

signalVars == <<value, subs, deps, queued, stopped, made, batching, scope, seen, runs, writes>>

\* Every variable has its type.
SignalTypeOK ==
    /\ value \in [Signals -> 0..1]
    /\ subs \in [Signals -> SUBSET Effects] /\ deps \in [Effects -> SUBSET Signals]
    /\ made \in 0..Len(Programs) /\ batching \in BOOLEAN
    /\ queued \subseteq 1..made /\ stopped \subseteq 1..made
    /\ scope \in [at : {"none", "open", "mounted", "disposed"}, cleanups : SUBSET (1..made)]
    /\ seen \in [Effects -> SUBSET (Signals \X (0..1))]
    /\ runs \in [Effects -> Nat] /\ writes \in 0..MaxWrites

SignalInit ==
    /\ value = [s \in Signals |-> 0]
    /\ subs = [s \in Signals |-> {}] /\ deps = [e \in Effects |-> {}]
    /\ queued = {} /\ stopped = {} /\ made = 0 /\ batching = FALSE
    /\ scope = [at |-> "none", cleanups |-> {}]
    /\ seen = [e \in Effects |-> {}] /\ runs = [e \in Effects |-> 0] /\ writes = 0

-----------------------------------------------------------------------------
(* An effect runs.                                                          *)

\* What the body reads, in the order that matters: the first, then what that says.
Reads(e) ==
    {Programs[e].first} \cup (IF value[Programs[e].first] = 0 THEN Programs[e].zero
                              ELSE Programs[e].one)

Sum(S) == Cardinality({s \in S : value[s] = 1}) % 2

\* Whom a Set of s to v wakes.
Woken(s, v, readers) == IF s \in Alike /\ value[s] = v THEN {} ELSE readers \ stopped

\* Mutants of Detached: it is detached after the run; the signals read before are kept.
DetachedLast(e) == [s \in Signals |-> subs[s] \ {e}]
DetachedNever(e) == [s \in Signals |-> IF s \in Reads(e) THEN subs[s] \cup {e} ELSE subs[s]]

\* run detaches the effect from what it read before; each Get attaches it again.
Detached(e) == [s \in Signals |-> IF s \in Reads(e) THEN subs[s] \cup {e} ELSE subs[s] \ {e}]

\* run, with fn: the queue it leaves.
RunEffect(e, queue) ==
    LET p       == Programs[e]
        sum     == Sum(Reads(e))
        readers == Detached(e)
        woken   == IF p.out = NoSignal THEN {} ELSE Woken(p.out, sum, readers[p.out])
        ends    == IF value[p.first] = 1 THEN p.stops \cap 1..made ELSE {}
    IN /\ value' = IF p.out = NoSignal THEN value ELSE [value EXCEPT ![p.out] = sum]
       /\ subs' = [s \in Signals |-> readers[s] \ ends]
       /\ deps' = [f \in Effects |-> IF f \in ends THEN {}
                                     ELSE IF f = e THEN Reads(e) ELSE deps[f]]
       /\ stopped' = stopped \cup ends
       /\ queued' = queue \cup woken
       /\ seen' = [seen EXCEPT ![e] = {<<s, value[s]>> : s \in Reads(e)}]

Still == [e \in Effects |-> 0]

\* Mutants of Drain: the highest id first; those stopped run too.
DrainNewest ==
    /\ ~batching
    /\ \E e \in queued :
          /\ \A f \in queued : f <= e
          /\ IF e \in stopped
             THEN queued' = queued \ {e} /\ UNCHANGED <<value, subs, deps, stopped, seen, runs>>
             ELSE RunEffect(e, queued \ {e}) /\ runs' = [runs EXCEPT ![e] = @ + 1]
    /\ UNCHANGED <<made, batching, scope, writes>>
DrainStopped ==
    /\ ~batching
    /\ \E e \in queued :
          /\ \A f \in queued : e <= f
          /\ RunEffect(e, queued \ {e}) /\ runs' = [runs EXCEPT ![e] = @ + 1]
    /\ UNCHANGED <<made, batching, scope, writes>>

\* flush: the lowest id first, unless it was stopped since.
Drain ==
    /\ ~batching
    /\ \E e \in queued :
          /\ \A f \in queued : e <= f
          /\ IF e \in stopped
             THEN queued' = queued \ {e} /\ UNCHANGED <<value, subs, deps, stopped, seen, runs>>
             ELSE RunEffect(e, queued \ {e}) /\ runs' = [runs EXCEPT ![e] = @ + 1]
    /\ UNCHANGED <<made, batching, scope, writes>>

-----------------------------------------------------------------------------
(* The application, between drains.                                         *)

Free == queued = {} \/ batching

\* Set, of a signal.
Set(s, v) ==
    /\ Free /\ writes < MaxWrites
    /\ value' = [value EXCEPT ![s] = v]
    /\ queued' = queued \cup Woken(s, v, subs[s])
    /\ writes' = writes + 1
    /\ runs' = IF batching THEN runs ELSE Still
    /\ UNCHANGED <<subs, deps, stopped, made, batching, scope, seen>>

\* Batch.
Opens ==
    /\ Free /\ ~batching
    /\ batching' = TRUE
    /\ UNCHANGED <<value, subs, deps, queued, stopped, made, scope, seen, runs, writes>>
Closes ==
    /\ batching
    /\ batching' = FALSE
    /\ runs' = Still
    /\ UNCHANGED <<value, subs, deps, queued, stopped, made, scope, seen, writes>>

\* Effect, Derive, Watch: it runs at once, and belongs to the scope that is open.
Make ==
    /\ Free /\ made < Len(Programs)
    /\ made' = made + 1
    /\ RunEffect(made', queued)
    /\ scope' = IF scope.at = "open" THEN [scope EXCEPT !.cleanups = @ \cup {made'}] ELSE scope
    /\ runs' = IF batching THEN runs ELSE Still
    /\ UNCHANGED <<batching, writes>>

\* stop, of some effects: they leave the signals they read, and the queue when it comes to them.
Stopping(S) ==
    /\ stopped' = stopped \cup S
    /\ subs' = [s \in Signals |-> subs[s] \ S]
    /\ deps' = [e \in Effects |-> IF e \in S THEN {} ELSE deps[e]]
    /\ UNCHANGED <<value, queued, made, batching, seen, runs, writes>>

Stop(e) ==
    /\ Free /\ e \in 1..made \ stopped
    /\ Stopping({e})
    /\ UNCHANGED scope

\* Scope around a page's Mount, whose dispose stops whatever was made in it.
Mount ==
    /\ Free /\ scope.at = "none"
    /\ scope' = [scope EXCEPT !.at = "open"]
    /\ UNCHANGED <<value, subs, deps, queued, stopped, made, batching, seen, runs, writes>>
Mounted ==
    /\ Free /\ scope.at = "open"
    /\ scope' = [scope EXCEPT !.at = "mounted"]
    /\ UNCHANGED <<value, subs, deps, queued, stopped, made, batching, seen, runs, writes>>
Unmount ==
    /\ Free /\ scope.at = "mounted"
    /\ scope' = [at |-> "disposed", cleanups |-> {}]
    /\ Stopping(scope.cleanups)

SignalNext ==
    \/ Drain
    \/ \E s \in Inputs : \E v \in 0..1 : Set(s, v)
    \/ Opens \/ Closes
    \/ Make
    \/ \E e \in Effects : Stop(e)
    \/ Mount \/ Mounted \/ Unmount

SignalSpec == SignalInit /\ [][SignalNext]_signalVars

-----------------------------------------------------------------------------
\* The two sides of a subscription agree, and an effect that was stopped has none, whatever
\* was queued when it was.
SubscribedToWhatWasRead ==
    \A s \in Signals : subs[s] = {e \in 1..made \ stopped : s \in deps[e]}

\* An effect is subscribed to what it read last, and is queued or has seen what that is now:
\* nothing on the screen is left behind a change.
EffectsAreCurrent ==
    /\ SubscribedToWhatWasRead
    /\ \A e \in 1..made \ stopped :
          e \in queued \/ \A s \in deps[e] : <<s, value[s]>> \in seen[e]

\* A change runs an effect once, with every input current, though it reads a signal and what
\* is derived from it, if the programs are Forward.
OncePerChange == \A e \in Effects : runs[e] <= 1
=============================================================================
