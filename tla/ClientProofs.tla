----------------------------- MODULE ClientProofs -----------------------------
(***************************************************************************)
(* The browser's side, proved: signals (Signals), for any programs and     *)
(* writes; the optimistic store (OptimisticStore), for any ops; the page   *)
(* that comes and goes (Lifecycle), for any pages and hooks; the router    *)
(* (Navigation), for any pages and any order of what is awaited; and the   *)
(* development server with its tabs (DevServer), for any edits.            *)
(***************************************************************************)
EXTENDS Navigation, Signals, OptimisticStore, Lifecycle, DevServer, FiniteSetTheorems,
        SequenceTheorems, WellFoundedInduction, TLAPS

\* The effects are numbered from one.
LEMMA EffectsAreNumbered ==
    /\ Len(Programs) \in Nat
    /\ Effects = 1..Len(Programs)
    /\ \A e \in Effects : Programs[e] \in Program
BY SignalAssumption DEF Effects

\* What an effect reads are signals, and their sum is a value.
LEMMA ReadsAreSignals ==
    ASSUME NEW e \in Effects
    PROVE  /\ Reads(e) \subseteq Signals
           /\ Sum(Reads(e)) \in 0..1
<1>1. Programs[e] \in Program
  BY EffectsAreNumbered
<1>2. Reads(e) \subseteq Signals
  BY <1>1 DEF Reads, Program
<1> DEFINE R == {s \in Reads(e) : value[s] = 1}
<1>3. IsFiniteSet(R)
  BY <1>2, FS_Subset, SignalAssumption
<1>4. Cardinality(R) \in Nat
  BY <1>3, FS_CardinalityType
<1>5. Cardinality(R) % 2 \in 0..1
  BY <1>4
<1> QED BY <1>2, <1>5 DEF Sum

-----------------------------------------------------------------------------
SInv == SignalTypeOK /\ EffectsAreCurrent

LEMMA InitHolds == SignalInit => SInv
<1> SUFFICES ASSUME SignalInit PROVE SInv
  OBVIOUS
<1>1. made = 0 /\ stopped = {} /\ 1..made = {}
  BY DEF SignalInit
<1>2. SignalTypeOK
  <2>1. /\ value \in [Signals -> 0..1]
        /\ subs \in [Signals -> SUBSET Effects] /\ deps \in [Effects -> SUBSET Signals]
    BY DEF SignalInit
  <2>2. scope \in [at : {"none", "open", "mounted", "disposed"}, cleanups : SUBSET (1..made)]
    BY DEF SignalInit
  <2>3. /\ seen \in [Effects -> SUBSET (Signals \X (0..1))]
        /\ runs \in [Effects -> Nat] /\ writes \in 0..MaxWrites
    BY SignalAssumption DEF SignalInit
  <2>4. made \in 0..Len(Programs)
    BY <1>1, EffectsAreNumbered
  <2>5. queued \subseteq 1..made /\ batching \in BOOLEAN
    BY DEF SignalInit
  <2> QED BY <1>1, <2>1, <2>2, <2>3, <2>4, <2>5 DEF SignalTypeOK
<1>3. EffectsAreCurrent
  BY <1>1 DEF SignalInit, EffectsAreCurrent, SubscribedToWhatWasRead
<1> QED BY <1>2, <1>3 DEF SInv

\* A Set queues whoever has to see it.
LEMMA WokenAreReaders ==
    ASSUME NEW s \in Signals, NEW v, NEW readers
    PROVE  /\ Woken(s, v, readers) \subseteq readers
           /\ value[s] # v => Woken(s, v, readers) = readers \ stopped
BY DEF Woken

\* A run of an effect, in a flush or because it was just made.
LEMMA RunStep ==
    ASSUME SInv, NEW e \in Effects, NEW queue, RunEffect(e, queue),
           made' \in 0..Len(Programs), 1..made' = (1..made) \cup {e}, e \notin stopped,
           queue \subseteq 1..made, queued \ {e} \subseteq queue
    PROVE  /\ value' \in [Signals -> 0..1]
           /\ subs' \in [Signals -> SUBSET Effects] /\ deps' \in [Effects -> SUBSET Signals]
           /\ queued' \subseteq 1..made' /\ stopped' \subseteq 1..made'
           /\ seen' \in [Effects -> SUBSET (Signals \X (0..1))]
           /\ EffectsAreCurrent'
<1> DEFINE p       == Programs[e]
           sum     == Sum(Reads(e))
           readers == Detached(e)
           woken   == IF p.out = NoSignal THEN {} ELSE Woken(p.out, sum, readers[p.out])
           ends    == IF value[p.first] = 1 THEN p.stops \cap 1..made ELSE {}
<1>1. /\ value' = IF p.out = NoSignal THEN value ELSE [value EXCEPT ![p.out] = sum]
      /\ subs' = [s \in Signals |-> readers[s] \ ends]
      /\ deps' = [f \in Effects |-> IF f \in ends THEN {}
                                    ELSE IF f = e THEN Reads(e) ELSE deps[f]]
      /\ stopped' = stopped \cup ends
      /\ queued' = queue \cup woken
      /\ seen' = [seen EXCEPT ![e] = {<<s, value[s]>> : s \in Reads(e)}]
  BY DEF RunEffect
<1>2. /\ p \in Program /\ Reads(e) \subseteq Signals /\ sum \in 0..1
      /\ Len(Programs) \in Nat /\ Effects = 1..Len(Programs)
  BY EffectsAreNumbered, ReadsAreSignals
<1>3. /\ value \in [Signals -> 0..1] /\ subs \in [Signals -> SUBSET Effects]
      /\ deps \in [Effects -> SUBSET Signals] /\ made \in 0..Len(Programs)
      /\ stopped \subseteq 1..made /\ queued \subseteq 1..made
      /\ seen \in [Effects -> SUBSET (Signals \X (0..1))]
  BY DEF SInv, SignalTypeOK
<1>4. /\ ends \subseteq 1..made /\ 1..made' \subseteq Effects /\ 1..made \subseteq 1..made'
  BY <1>2, <1>3
<1>5. \A s \in Signals : \A f : f \in readers[s] <=> IF f = e THEN s \in Reads(e) ELSE f \in subs[s]
  BY DEF Detached
<1>6. \A s \in Signals : \A f : f \in subs[s] <=> f \in 1..made \ stopped /\ s \in deps[f]
  BY DEF SInv, EffectsAreCurrent, SubscribedToWhatWasRead
<1>7. \A s \in Signals : readers[s] \subseteq 1..made'
  BY <1>5, <1>6, <1>4
<1>8. /\ p.out \in Signals \cup {NoSignal} /\ NoSignal \notin Signals
      /\ woken \subseteq 1..made'
  <2>1. p.out \in Signals \cup {NoSignal} /\ NoSignal \notin Signals
    BY <1>2, SignalAssumption DEF Program
  <2>2. CASE p.out = NoSignal
    BY <2>1, <2>2
  <2>3. CASE p.out \in Signals
    <3>1. Woken(p.out, sum, readers[p.out]) \subseteq readers[p.out]
      BY <2>3, WokenAreReaders
    <3> QED BY <1>7, <2>1, <2>3, <3>1
  <2> QED BY <2>1, <2>2, <2>3
<1>9. /\ value' \in [Signals -> 0..1]
      /\ subs' \in [Signals -> SUBSET Effects] /\ deps' \in [Effects -> SUBSET Signals]
      /\ queued' \subseteq 1..made' /\ stopped' \subseteq 1..made'
  <2> HIDE DEF ends, woken, readers, sum, p
  <2>1. value' \in [Signals -> 0..1]
    BY <1>1, <1>2, <1>3, <1>8
  <2>2. subs' \in [Signals -> SUBSET Effects]
    BY <1>1, <1>4, <1>7
  <2>3. deps' \in [Effects -> SUBSET Signals]
    BY <1>1, <1>2, <1>3
  <2>4. queued' \subseteq 1..made' /\ stopped' \subseteq 1..made'
    BY <1>1, <1>3, <1>4, <1>8
  <2> QED BY <2>1, <2>2, <2>3, <2>4
<1>10. seen' \in [Effects -> SUBSET (Signals \X (0..1))]
  <2>1. \A s \in Reads(e) : <<s, value[s]>> \in Signals \X (0..1)
    BY <1>2, <1>3
  <2>2. {<<s, value[s]>> : s \in Reads(e)} \in SUBSET (Signals \X (0..1))
    BY <2>1
  <2> QED BY <1>1, <1>3, <2>2
<1>11. SubscribedToWhatWasRead'
  <2> SUFFICES ASSUME NEW s \in Signals, NEW f
               PROVE  f \in subs'[s] <=> f \in 1..made' \ stopped' /\ s \in deps'[f]
    BY <1>1, <1>4, <1>7 DEF SubscribedToWhatWasRead
  <2> HIDE DEF ends, woken, readers, sum, p
  <2>1. f \in subs'[s] <=> f \in readers[s] /\ f \notin ends
    BY <1>1
  <2>2. CASE f = e
    BY <1>1, <1>2, <1>5, <2>1, <2>2
  <2>3. CASE f # e
    <3>1. f \in readers[s] <=> f \in 1..made \ stopped /\ s \in deps[f]
      BY <1>5, <1>6, <2>3
    <3>2. f \in 1..made' <=> f \in 1..made
      BY <2>3
    <3>3. f \in 1..made /\ f \notin ends => deps'[f] = deps[f]
      BY <1>1, <1>4, <2>3
    <3> QED BY <1>1, <2>1, <3>1, <3>2, <3>3
  <2> QED BY <2>2, <2>3
<1>12. ASSUME NEW f \in 1..made' \ stopped', f \notin queued', NEW s \in deps'[f]
       PROVE  <<s, value'[s]>> \in seen'[f]
  <2>0. /\ f \in Effects /\ f \notin ends /\ f \notin stopped /\ f \notin queue /\ f \notin woken
        /\ s \in Signals
    BY <1>1, <1>4, <1>9, <1>12
  <2>1. s \in deps'[f] /\ f \in readers[s]
    <3>1. f \in subs'[s]
      BY <1>11, <1>12, <2>0 DEF SubscribedToWhatWasRead
    <3> HIDE DEF readers, ends, woken, sum, p
    <3> QED BY <3>1, <1>1, <1>12, <2>0
  <2>2. <<s, value[s]>> \in seen'[f]
    <3> HIDE DEF readers, ends, woken, sum, p
    <3>1. CASE f = e
      <4>1. s \in Reads(e)
        BY <1>1, <2>0, <2>1, <3>1
      <4>2. seen'[e] = {<<t, value[t]>> : t \in Reads(e)}
        BY <1>1, <1>3
      <4> QED BY <3>1, <4>1, <4>2
    <3>2. CASE f # e
      <4>1. deps'[f] = deps[f] /\ seen'[f] = seen[f] /\ f \in 1..made \ stopped /\ f \notin queued
        BY <1>1, <1>3, <1>12, <2>0, <3>2
      <4> QED BY <2>1, <4>1 DEF SInv, EffectsAreCurrent
    <3> QED BY <3>1, <3>2
  <2>3. value'[s] = value[s]
    <3>1. CASE s # p.out
      <4> HIDE DEF readers, ends, woken, sum, p
      <4> QED BY <1>1, <1>3, <2>0, <3>1
    <3>2. CASE s = p.out
      <4>1. value[s] = sum
        <5>1. s # NoSignal
          BY <1>8, <2>0
        <5>2. SUFFICES ASSUME value[s] # sum PROVE FALSE
          OBVIOUS
        <5>3. woken = readers[s] \ stopped
          BY <2>0, <3>2, <5>1, <5>2, WokenAreReaders
        <5> HIDE DEF readers, ends, woken, sum, p
        <5> QED BY <5>3, <2>0, <2>1
      <4> HIDE DEF readers, ends, woken, sum, p
      <4> QED BY <1>1, <1>3, <2>0, <3>2, <4>1
    <3> QED BY <3>1, <3>2
  <2> QED BY <2>2, <2>3
<1> QED BY <1>9, <1>10, <1>11, <1>12 DEF EffectsAreCurrent

-----------------------------------------------------------------------------
\* A write queues the readers of its signal, and changes nothing else.
LEMMA SetStep ==
    ASSUME SInv, NEW s \in Inputs, NEW v \in 0..1, Set(s, v)
    PROVE  SInv'
<1>1. /\ value \in [Signals -> 0..1] /\ subs \in [Signals -> SUBSET Effects]
      /\ made \in 0..Len(Programs) /\ queued \subseteq 1..made /\ stopped \subseteq 1..made
      /\ s \in Signals /\ MaxWrites \in Nat /\ writes \in 0..MaxWrites
      /\ runs \in [Effects -> Nat]
  BY SignalAssumption DEF SInv, SignalTypeOK
<1>2. \A t \in Signals : subs[t] = {f \in 1..made \ stopped : t \in deps[f]}
  BY DEF SInv, EffectsAreCurrent, SubscribedToWhatWasRead
<1>3. /\ value' = [value EXCEPT ![s] = v] /\ queued' = queued \cup Woken(s, v, subs[s])
      /\ UNCHANGED <<subs, deps, stopped, made, batching, scope, seen>>
  BY DEF Set
<1>4. Woken(s, v, subs[s]) \subseteq subs[s] /\ (value[s] # v => Woken(s, v, subs[s]) = subs[s] \ stopped)
  BY <1>1, WokenAreReaders
<1>5. SignalTypeOK'
  <2>1. value' \in [Signals -> 0..1]
    BY <1>1, <1>3
  <2>2. queued' \subseteq 1..made'
    BY <1>1, <1>2, <1>3, <1>4
  <2>3. writes' \in 0..MaxWrites /\ runs' \in [Effects -> Nat]
    <3>1. Still \in [Effects -> Nat]
      BY DEF Still
    <3> QED BY <1>1, <3>1 DEF Set
  <2> QED BY <1>3, <2>1, <2>2, <2>3 DEF SInv, SignalTypeOK
<1>6. ASSUME NEW e \in 1..made \ stopped, e \notin queued', NEW t \in deps[e]
      PROVE  <<t, value'[t]>> \in seen[e]
  <2>1. e \in Effects /\ t \in Signals /\ e \in subs[t]
    <3>1. e \in Effects
      BY <1>1, <1>6, EffectsAreNumbered
    <3>2. deps[e] \subseteq Signals
      BY <3>1 DEF SInv, SignalTypeOK
    <3> QED BY <1>2, <1>6, <3>1, <3>2
  <2>2. value'[t] = value[t]
    BY <1>1, <1>3, <1>4, <1>6, <2>1
  <2>3. <<t, value[t]>> \in seen[e]
    BY <1>3, <1>6 DEF SInv, EffectsAreCurrent
  <2> QED BY <2>2, <2>3
<1>7. EffectsAreCurrent'
  BY <1>2, <1>3, <1>6 DEF EffectsAreCurrent, SubscribedToWhatWasRead
<1> QED BY <1>5, <1>7 DEF SInv

\* What is stopped leaves every signal.
LEMMA StoppingStep ==
    ASSUME SInv, NEW S \in SUBSET (1..made), Stopping(S),
           scope' \in [at : {"none", "open", "mounted", "disposed"}, cleanups : SUBSET (1..made)]
    PROVE  SInv'
<1>1. /\ stopped' = stopped \cup S
      /\ subs' = [s \in Signals |-> subs[s] \ S]
      /\ deps' = [e \in Effects |-> IF e \in S THEN {} ELSE deps[e]]
      /\ UNCHANGED <<value, queued, made, batching, seen, runs, writes>>
  BY DEF Stopping
<1>2. SignalTypeOK'
  BY <1>1 DEF SInv, SignalTypeOK
<1>3. made \in 0..Len(Programs) /\ \A e \in 1..made : e \in Effects
  BY EffectsAreNumbered DEF SInv, SignalTypeOK
<1>4. SubscribedToWhatWasRead'
  <2> SUFFICES ASSUME NEW s \in Signals, NEW f
               PROVE  f \in subs'[s] <=> f \in 1..made' \ stopped' /\ s \in deps'[f]
    BY <1>1, <1>2 DEF SubscribedToWhatWasRead
  <2>1. f \in subs[s] <=> f \in 1..made \ stopped /\ s \in deps[f]
    BY DEF SInv, EffectsAreCurrent, SubscribedToWhatWasRead
  <2> QED BY <1>1, <1>3, <2>1
<1>5. \A e \in 1..made' \ stopped' :
         e \in queued' \/ \A s \in deps'[e] : <<s, value'[s]>> \in seen'[e]
  BY <1>1, <1>3 DEF SInv, EffectsAreCurrent
<1> QED BY <1>2, <1>4, <1>5 DEF SInv, EffectsAreCurrent

\* The flush takes the lowest id: it runs it, or drops it when it was stopped since.
LEMMA DrainStep ==
    ASSUME SInv, Drain
    PROVE  SInv'
<1>1. PICK e \in queued :
         IF e \in stopped
         THEN queued' = queued \ {e} /\ UNCHANGED <<value, subs, deps, stopped, seen, runs>>
         ELSE RunEffect(e, queued \ {e}) /\ runs' = [runs EXCEPT ![e] = @ + 1]
  BY DEF Drain
<1>2. UNCHANGED <<made, batching, scope, writes>>
  BY DEF Drain
<1>3. made \in 0..Len(Programs) /\ queued \subseteq 1..made /\ e \in Effects
  BY EffectsAreNumbered DEF SInv, SignalTypeOK
<1>4. CASE e \in stopped
  <2>1. SignalTypeOK'
    BY <1>1, <1>2, <1>4 DEF SInv, SignalTypeOK
  <2>2. EffectsAreCurrent'
    BY <1>1, <1>2, <1>4 DEF SInv, EffectsAreCurrent, SubscribedToWhatWasRead
  <2> QED BY <2>1, <2>2 DEF SInv
<1>5. CASE e \notin stopped
  <2>1. RunEffect(e, queued \ {e}) /\ runs' = [runs EXCEPT ![e] = @ + 1]
    BY <1>1, <1>5
  <2>2. 1..made' = (1..made) \cup {e} /\ made' \in 0..Len(Programs)
    BY <1>2, <1>3
  <2>3. queued \ {e} \subseteq 1..made /\ queued \ {e} \subseteq queued \ {e}
    BY <1>3
  <2>4. /\ value' \in [Signals -> 0..1]
        /\ subs' \in [Signals -> SUBSET Effects] /\ deps' \in [Effects -> SUBSET Signals]
        /\ queued' \subseteq 1..made' /\ stopped' \subseteq 1..made'
        /\ seen' \in [Effects -> SUBSET (Signals \X (0..1))]
        /\ EffectsAreCurrent'
    BY <1>3, <1>5, <2>1, <2>2, <2>3, RunStep
  <2>5. runs' \in [Effects -> Nat]
    <3>1. runs \in [Effects -> Nat]
      BY DEF SInv, SignalTypeOK
    <3>2. runs[e] + 1 \in Nat
      BY <1>3, <3>1
    <3> QED BY <1>3, <2>1, <3>1, <3>2
  <2> QED BY <1>2, <2>2, <2>4, <2>5 DEF SInv, SignalTypeOK
<1> QED BY <1>4, <1>5

\* An effect runs when it is made.
LEMMA MakeStep ==
    ASSUME SInv, Make
    PROVE  SInv'
<1>1. /\ made \in 0..Len(Programs) /\ Len(Programs) \in Nat /\ made < Len(Programs)
      /\ queued \subseteq 1..made /\ stopped \subseteq 1..made
  BY EffectsAreNumbered DEF SInv, SignalTypeOK, Make
<1>2. made' = made + 1 /\ RunEffect(made', queued) /\ UNCHANGED <<batching, writes>>
  BY DEF Make
<1>3. /\ made' \in Effects /\ made' \in 0..Len(Programs) /\ 1..made' = (1..made) \cup {made'}
      /\ made' \notin stopped /\ queued \ {made'} \subseteq queued
  BY <1>1, <1>2, EffectsAreNumbered
<1>4. /\ value' \in [Signals -> 0..1]
      /\ subs' \in [Signals -> SUBSET Effects] /\ deps' \in [Effects -> SUBSET Signals]
      /\ queued' \subseteq 1..made' /\ stopped' \subseteq 1..made'
      /\ seen' \in [Effects -> SUBSET (Signals \X (0..1))]
      /\ EffectsAreCurrent'
  BY <1>1, <1>2, <1>3, RunStep
<1>5. runs' \in [Effects -> Nat]
  <2>1. Still \in [Effects -> Nat] /\ runs \in [Effects -> Nat]
    BY DEF Still, SInv, SignalTypeOK
  <2> QED BY <2>1 DEF Make
<1>6. scope' \in [at : {"none", "open", "mounted", "disposed"}, cleanups : SUBSET (1..made')]
  BY <1>1, <1>3 DEF Make, SInv, SignalTypeOK
<1> QED BY <1>2, <1>3, <1>4, <1>5, <1>6 DEF SInv, SignalTypeOK

\* Every step keeps the invariant.
LEMMA StepHolds ==
    ASSUME SInv, [SignalNext]_signalVars
    PROVE  SInv'
<1> USE DEF SInv
<1>1. CASE Drain
  BY <1>1, DrainStep
<1>2. ASSUME NEW s \in Inputs, NEW v \in 0..1, Set(s, v) PROVE SInv'
  BY <1>2, SetStep
<1>3. CASE Opens \/ Closes
  <2>1. Still \in [Effects -> Nat] /\ runs \in [Effects -> Nat]
    BY DEF Still, SignalTypeOK
  <2>3. SignalTypeOK'
    BY <1>3, <2>1 DEF Opens, Closes, SignalTypeOK
  <2>2. EffectsAreCurrent'
    BY <1>3 DEF Opens, Closes, EffectsAreCurrent, SubscribedToWhatWasRead
  <2> QED BY <2>2, <2>3
<1>4. CASE Make
  BY <1>4, MakeStep
<1>5. ASSUME NEW e \in Effects, Stop(e) PROVE SInv'
  <2>1. Stopping({e}) /\ {e} \in SUBSET (1..made) /\ scope' = scope
    BY <1>5 DEF Stop
  <2>2. scope' \in [at : {"none", "open", "mounted", "disposed"}, cleanups : SUBSET (1..made)]
    BY <2>1 DEF SignalTypeOK
  <2> QED BY <2>1, <2>2, StoppingStep
<1>6. CASE Mount \/ Mounted
  <2>1. SignalTypeOK'
    BY <1>6 DEF Mount, Mounted, SignalTypeOK
  <2>2. EffectsAreCurrent'
    BY <1>6 DEF Mount, Mounted, EffectsAreCurrent, SubscribedToWhatWasRead
  <2> QED BY <2>1, <2>2
<1>7. CASE Unmount
  <2>1. Stopping(scope.cleanups) /\ scope' = [at |-> "disposed", cleanups |-> {}]
    BY <1>7 DEF Unmount
  <2>2. scope.cleanups \in SUBSET (1..made)
    BY DEF SignalTypeOK
  <2>3. scope' \in [at : {"none", "open", "mounted", "disposed"}, cleanups : SUBSET (1..made)]
    BY <2>1
  <2> QED BY <2>1, <2>2, <2>3, StoppingStep
<1>8. CASE UNCHANGED signalVars
  BY <1>8 DEF signalVars, SignalTypeOK, EffectsAreCurrent, SubscribedToWhatWasRead
<1> QED BY <1>1, <1>2, <1>3, <1>4, <1>5, <1>6, <1>7, <1>8 DEF SignalNext

\* Of any signals and programs, every reachable state is typed.
THEOREM SignalTypeIsInvariant == SignalSpec => []SignalTypeOK
<1>1. SInv => SignalTypeOK
  BY DEF SInv
<1> QED BY <1>1, InitHolds, StepHolds, PTL DEF SignalSpec

\* A subscription is known to both sides, and whoever is stopped has none: in a flush too,
\* where effects subscribe, stop and wake one another.
THEOREM SubscriptionsAgree == SignalSpec => []SubscribedToWhatWasRead
<1>1. SInv => SubscribedToWhatWasRead
  BY DEF SInv, EffectsAreCurrent
<1> QED BY <1>1, InitHolds, StepHolds, PTL DEF SignalSpec

\* No effect is left behind a change, whatever the programs do to one another: glitches may
\* come, but each is followed by the run that mends it.
THEOREM NoEffectIsLeftBehind == SignalSpec => []EffectsAreCurrent
<1>1. SInv => EffectsAreCurrent
  BY DEF SInv
<1> QED BY <1>1, InitHolds, StepHolds, PTL DEF SignalSpec

-----------------------------------------------------------------------------
(* With what is derived made after what it is derived from, a flush goes    *)
(* forward only.                                                            *)

ReadBy(e) == {Programs[e].first} \cup Programs[e].zero \cup Programs[e].one

FInv ==
    /\ SInv
    /\ \A e \in Effects : deps[e] \subseteq ReadBy(e)
    /\ OncePerChange
    /\ ~batching => \A e \in Effects : runs[e] = 1 => \A f \in queued : e < f

LEMMA FInitHolds == SignalInit => FInv
BY InitHolds DEF SignalInit, FInv, OncePerChange

\* What a run wakes comes after it, and what it reads is in its program.
LEMMA WokenAreLater ==
    ASSUME Forward, FInv, NEW e \in Effects, NEW queue, RunEffect(e, queue)
    PROVE  /\ \A f \in queued' \ queue : f \in Effects /\ e < f
           /\ \A f \in Effects : deps'[f] \subseteq ReadBy(f)
<1> DEFINE p       == Programs[e]
           sum     == Sum(Reads(e))
           readers == Detached(e)
           woken   == IF p.out = NoSignal THEN {} ELSE Woken(p.out, sum, readers[p.out])
           ends    == IF value[p.first] = 1 THEN p.stops \cap 1..made ELSE {}
<1>1. /\ deps' = [f \in Effects |-> IF f \in ends THEN {}
                                    ELSE IF f = e THEN Reads(e) ELSE deps[f]]
      /\ queued' = queue \cup woken
  BY DEF RunEffect
<1>2. Reads(e) \subseteq ReadBy(e)
  BY DEF Reads, ReadBy
<1>3. ASSUME NEW f \in woken PROVE f \in Effects /\ e < f
  <2>1. p.out # NoSignal /\ p.out \in Signals
    BY <1>3, EffectsAreNumbered DEF Program
  <2>2. f \in readers[p.out]
    BY <1>3, <2>1, WokenAreReaders
  <2>3. IF f = e THEN p.out \in Reads(e) ELSE f \in subs[p.out]
    BY <2>1, <2>2 DEF Detached
  <2>4. f \in Effects /\ p.out \in ReadBy(f)
    <3>1. CASE f = e
      BY <1>2, <2>3, <3>1
    <3>2. CASE f # e
      <4>1. f \in 1..made /\ p.out \in deps[f]
        BY <2>1, <2>3, <3>2 DEF FInv, SInv, EffectsAreCurrent, SubscribedToWhatWasRead
      <4>2. f \in Effects
        BY <4>1, EffectsAreNumbered DEF FInv, SInv, SignalTypeOK
      <4> QED BY <4>1, <4>2 DEF FInv
    <3> QED BY <3>1, <3>2
  <2> QED BY <2>4 DEF Forward, ReadBy
<1> HIDE DEF woken, ends
<1>4. \A f \in Effects : deps'[f] \subseteq ReadBy(f)
  BY <1>1, <1>2 DEF FInv
<1> QED BY <1>1, <1>3, <1>4

LEMMA FDrainStep ==
    ASSUME Forward, FInv, Drain
    PROVE  FInv'
<1>1. PICK e \in queued :
         /\ \A f \in queued : e <= f
         /\ IF e \in stopped
            THEN queued' = queued \ {e} /\ UNCHANGED <<value, subs, deps, stopped, seen, runs>>
            ELSE RunEffect(e, queued \ {e}) /\ runs' = [runs EXCEPT ![e] = @ + 1]
  BY DEF Drain
<1>2. ~batching /\ SInv'
  BY DrainStep DEF Drain, FInv
<1>3. /\ e \in Effects /\ queued \subseteq Effects /\ runs \in [Effects -> Nat]
      /\ Effects = 1..Len(Programs) /\ Len(Programs) \in Nat
  BY EffectsAreNumbered DEF FInv, SInv, SignalTypeOK
<1>4. CASE e \in stopped
  BY <1>1, <1>2, <1>4 DEF FInv, OncePerChange, Drain
<1>5. CASE e \notin stopped
  <2>1. RunEffect(e, queued \ {e}) /\ runs' = [runs EXCEPT ![e] = @ + 1]
    BY <1>1, <1>5
  <2>2. /\ \A f \in queued' \ (queued \ {e}) : f \in Effects /\ e < f
        /\ \A f \in Effects : deps'[f] \subseteq ReadBy(f)
    BY <1>3, <2>1, WokenAreLater
  <2>3. ASSUME NEW f \in queued' PROVE f \in Effects /\ e < f
    <3>1. CASE f \in queued \ {e}
      <4>1. e <= f /\ f # e /\ f \in Effects
        BY <1>1, <1>3, <3>1
      <4> QED BY <1>3, <4>1
    <3> QED BY <2>2, <2>3, <3>1
  <2>4. \A g \in Effects : runs[g] = 1 => g < e
    BY <1>2 DEF FInv
  <2>5. runs[e] = 0
    BY <1>3, <2>4 DEF FInv, OncePerChange
  <2>6. OncePerChange'
    BY <1>3, <2>1, <2>5 DEF FInv, OncePerChange
  <2>7. ASSUME NEW g \in Effects, runs'[g] = 1, NEW f \in queued' PROVE g < f
    <3>1. CASE g = e
      BY <2>3, <3>1
    <3>2. CASE g # e
      <4>1. runs[g] = 1
        BY <1>3, <2>1, <2>7, <3>2
      <4>2. g < e /\ e < f /\ f \in Effects
        BY <2>3, <2>4, <4>1
      <4> QED BY <1>3, <4>2
    <3> QED BY <3>1, <3>2
  <2> QED BY <1>2, <2>2, <2>6, <2>7 DEF FInv
<1> QED BY <1>4, <1>5

LEMMA FStepHolds ==
    ASSUME Forward, FInv, [SignalNext]_signalVars
    PROVE  FInv'
<1>1. SInv'
  BY StepHolds DEF FInv
<1>2. \A e \in Effects : Still[e] = 0
  BY DEF Still
<1>3. CASE Drain
  BY <1>3, FDrainStep
<1>4. ASSUME NEW s \in Inputs, NEW v \in 0..1, Set(s, v) PROVE FInv'
  BY <1>1, <1>2, <1>4 DEF FInv, Set, OncePerChange
<1>5. CASE Opens \/ Closes
  BY <1>1, <1>2, <1>5 DEF FInv, Opens, Closes, OncePerChange
<1>6. CASE Make
  <2>1. made' \in Effects /\ RunEffect(made', queued)
    BY <1>1, <1>6, EffectsAreNumbered DEF Make, FInv, SInv, SignalTypeOK
  <2>2. \A f \in Effects : deps'[f] \subseteq ReadBy(f)
    BY <2>1, WokenAreLater
  <2>3. CASE batching
    BY <1>1, <1>6, <2>2, <2>3 DEF Make, FInv, OncePerChange
  <2>4. CASE ~batching
    BY <1>1, <1>2, <1>6, <2>2, <2>4 DEF Make, FInv, OncePerChange
  <2> QED BY <2>3, <2>4
<1>7. ASSUME NEW S, Stopping(S) PROVE FInv'
  BY <1>1, <1>7 DEF FInv, Stopping, OncePerChange
<1>8. CASE (\E e \in Effects : Stop(e)) \/ Unmount
  BY <1>7, <1>8 DEF Stop, Unmount
<1>9. CASE Mount \/ Mounted \/ UNCHANGED signalVars
  BY <1>1, <1>9 DEF FInv, Mount, Mounted, signalVars, OncePerChange
<1> QED BY <1>3, <1>4, <1>5, <1>6, <1>8, <1>9 DEF SignalNext

\* With forward programs a change runs each effect at most once, however many of its inputs
\* the change reaches, and by how many ways.
THEOREM EffectsRunOnce == Forward => (SignalSpec => []OncePerChange)
<1> SUFFICES ASSUME Forward PROVE SignalSpec => []OncePerChange
  OBVIOUS
<1>1. FInv => OncePerChange
  BY DEF FInv
<1>2. FInv /\ [SignalNext]_signalVars => FInv'
  BY FStepHolds
<1> QED BY <1>1, <1>2, FInitHolds, PTL DEF SignalSpec

-----------------------------------------------------------------------------
(* The optimistic store.  Replaying is recursive: what it computes is proved *)
(* of a walk that takes the same steps, by a least place where two differ.   *)

\* A walk over the ops, from a snapshot on, as replay makes it.
Walk(after, sn, ops) ==
    /\ after[0] = sn
    /\ \A n \in 1..Len(ops) : after[n] = ApplyOp(after[n - 1], ops[n])

Steps(g, sn, ops, m) == [n \in 0..m |-> IF n = 0 THEN sn ELSE ApplyOp(g[n - 1], ops[n])]

\* A set of naturals that is not empty has a least member.
LEMMA LeastOf ==
    ASSUME NEW S \in SUBSET Nat, S # {}
    PROVE  \E m \in S : \A k \in S : m <= k
<1> DEFINE Less == {ss \in Nat \X Nat : ss[1] < ss[2]}
<1>1. IsWellFoundedOn(Less, Nat)
  BY NatLessThanWellFounded DEF OpToRel
<1>2. PICK m \in S : \A k \in Nat : <<k, m>> \in Less => k \notin S
  BY <1>1, WFMin
<1>3. ASSUME NEW k \in S, k < m PROVE FALSE
  BY <1>2, <1>3
<1> QED
  BY <1>3

\* There is one.
LEMMA WalkExists ==
    ASSUME NEW sn, NEW ops, Len(ops) \in Nat
    PROVE  \E g : g = Steps(g, sn, ops, Len(ops))
<1> DEFINE Bad == {m \in 0..Len(ops) : ~\E g : g = Steps(g, sn, ops, m)}
<1> SUFFICES ASSUME Bad # {} PROVE FALSE
  OBVIOUS
<1>0. Bad \in SUBSET Nat
  OBVIOUS
<1> HIDE DEF Bad
<1>1. PICK m \in Bad : \A k \in Bad : m <= k
  BY <1>0, LeastOf
<1> USE DEF Bad
<1>2. m # 0
  <2> DEFINE g == [n \in 0..0 |-> sn]
  <2>1. g = Steps(g, sn, ops, 0)
    BY DEF Steps
  <2> QED
    BY <1>1, <2>1
<1>3. m - 1 \in 0..Len(ops) /\ m - 1 \notin Bad /\ m \in 1..Len(ops)
  BY <1>1, <1>2
<1>4. PICK g : g = Steps(g, sn, ops, m - 1)
  BY <1>3
<1> DEFINE h == [n \in 0..m |-> IF n = m THEN ApplyOp(g[m - 1], ops[m]) ELSE g[n]]
<1>5. ASSUME NEW n \in 0..m PROVE h[n] = IF n = 0 THEN sn ELSE ApplyOp(h[n - 1], ops[n])
  <2>1. CASE n = m
    <3>1. n # 0 /\ n - 1 \in 0..m /\ n - 1 # m
      BY <1>3, <2>1
    <3> QED
      BY <2>1, <3>1
  <2>2. CASE n # m
    <3>1. n \in 0..m - 1 /\ h[n] = g[n]
      BY <1>3, <2>2
    <3>2. g[n] = IF n = 0 THEN sn ELSE ApplyOp(g[n - 1], ops[n])
      BY <1>4, <3>1 DEF Steps
    <3>3. n # 0 => n - 1 \in 0..m /\ n - 1 # m
      BY <1>3, <3>1
    <3>4. n # 0 => h[n - 1] = g[n - 1]
      BY <3>3
    <3> QED
      BY <3>1, <3>2, <3>4
  <2> QED
    BY <2>1, <2>2
<1>6. h = Steps(h, sn, ops, m)
  <2> HIDE DEF h
  <2>1. h = [n \in 0..m |-> h[n]]
    BY DEF h
  <2> QED
    BY <1>5, <2>1 DEF Steps
<1> QED
  BY <1>1, <1>6

\* replay is the end of a walk...
LEMMA ReplayWalks ==
    ASSUME NEW sn, NEW ops, Len(ops) \in Nat
    PROVE  \E after : Walk(after, sn, ops) /\ Replay(sn, ops) = after[Len(ops)]
<1> DEFINE after == CHOOSE g : g = Steps(g, sn, ops, Len(ops))
<1>1. Replay(sn, ops) = after[Len(ops)]
  BY DEF Replay, Steps
<1>2. after = Steps(after, sn, ops, Len(ops))
  BY WalkExists
<1> HIDE DEF after
<1>3. Walk(after, sn, ops)
  BY <1>2 DEF Steps, Walk
<1> QED
  BY <1>1, <1>3

\* ...and of any other, which takes the same steps.
LEMMA WalksReplay ==
    ASSUME NEW sn, NEW ops, Len(ops) \in Nat, NEW after, Walk(after, sn, ops)
    PROVE  Replay(sn, ops) = after[Len(ops)]
<1>1. PICK walk : Walk(walk, sn, ops) /\ Replay(sn, ops) = walk[Len(ops)]
  BY ReplayWalks
<1> DEFINE Bad == {m \in 0..Len(ops) : walk[m] # after[m]}
<1> SUFFICES ASSUME Bad # {} PROVE FALSE
  BY <1>1
<1>2. Bad \in SUBSET Nat
  OBVIOUS
<1> HIDE DEF Bad
<1>3. PICK m \in Bad : \A k \in Bad : m <= k
  BY <1>2, LeastOf
<1> USE DEF Bad
<1>4. m # 0
  BY <1>1, <1>3 DEF Walk
<1>5. m \in 1..Len(ops) /\ m - 1 \in 0..Len(ops) /\ m - 1 \notin Bad
  BY <1>3, <1>4
<1>6. walk[m] = ApplyOp(walk[m - 1], ops[m]) /\ after[m] = ApplyOp(after[m - 1], ops[m])
  BY <1>1, <1>5 DEF Walk
<1> QED
  BY <1>3, <1>5, <1>6

\* With nothing to replay a snapshot is itself.
LEMMA ReplayNothing == ASSUME NEW sn PROVE Replay(sn, <<>>) = sn
<1>1. PICK after : Walk(after, sn, <<>>) /\ Replay(sn, <<>>) = after[0]
  BY ReplayWalks
<1> QED
  BY <1>1 DEF Walk

\* One op more is applied last.
LEMMA ReplayAppended ==
    ASSUME NEW sn, NEW ops \in Seq(Op), NEW op \in Op
    PROVE  Replay(sn, Append(ops, op)) = ApplyOp(Replay(sn, ops), op)
<1> DEFINE all == Append(ops, op)
<1>1. /\ Len(all) = Len(ops) + 1 /\ Len(ops) \in Nat /\ all[Len(ops) + 1] = op
      /\ \A n \in 1..Len(ops) : all[n] = ops[n]
  OBVIOUS
<1> HIDE DEF all
<1>2. PICK after : Walk(after, sn, all) /\ Replay(sn, all) = after[Len(all)]
  BY <1>1, ReplayWalks
<1>3. Walk(after, sn, ops)
  BY <1>1, <1>2 DEF Walk
<1>4. Replay(sn, ops) = after[Len(ops)]
  BY <1>1, <1>3, WalksReplay
<1>5. after[Len(ops) + 1] = ApplyOp(after[Len(ops)], op)
  <2>1. Len(ops) + 1 \in 1..Len(all) /\ Len(ops) + 1 - 1 = Len(ops)
    BY <1>1
  <2> QED
    BY <1>1, <1>2, <2>1 DEF Walk
<1>6. Replay(sn, all) = ApplyOp(Replay(sn, ops), op)
  BY <1>1, <1>2, <1>4, <1>5
<1> QED
  BY <1>6 DEF all

\* The first op can be folded into the snapshot.
LEMMA ReplayFolded ==
    ASSUME NEW sn, NEW ops \in Seq(Op), ops # <<>>
    PROVE  Replay(ApplyOp(sn, ops[1]), Tail(ops)) = Replay(sn, ops)
<1> DEFINE rest == Tail(ops)
           l    == Len(ops)
<1>1. /\ Len(rest) = l - 1 /\ l \in Nat \ {0} /\ \A n \in 1..l - 1 : rest[n] = ops[n + 1]
  OBVIOUS
<1> HIDE DEF rest, l
<1>2. PICK after : Walk(after, sn, ops) /\ Replay(sn, ops) = after[l]
  BY ReplayWalks DEF l
<1> DEFINE shifted == [n \in 0..l - 1 |-> after[n + 1]]
<1>3. shifted[0] = ApplyOp(sn, ops[1])
  BY <1>1, <1>2 DEF Walk, l
<1>4. ASSUME NEW n \in 1..Len(rest) PROVE shifted[n] = ApplyOp(shifted[n - 1], rest[n])
  <2>1. n \in 1..l - 1 /\ n \in 0..l - 1 /\ n - 1 \in 0..l - 1 /\ n + 1 \in 1..l /\ (n - 1) + 1 = n /\ (n + 1) - 1 = n
    BY <1>1
  <2>2. shifted[n] = after[n + 1] /\ shifted[n - 1] = after[n]
    BY <2>1
  <2>3. after[n + 1] = ApplyOp(after[n], ops[n + 1])
    BY <1>2, <2>1 DEF Walk, l
  <2> HIDE DEF shifted
  <2> QED
    BY <1>1, <2>1, <2>2, <2>3
<1>5. shifted[Len(rest)] = after[l]
  BY <1>1
<1> HIDE DEF shifted
<1>6. Walk(shifted, ApplyOp(sn, ops[1]), rest)
  BY <1>3, <1>4 DEF Walk
<1>7. Len(rest) \in Nat
  BY <1>1
<1>8. Replay(ApplyOp(sn, ops[1]), rest) = shifted[Len(rest)]
  BY <1>6, <1>7, WalksReplay
<1> QED
  BY <1>2, <1>5, <1>8 DEF rest

-----------------------------------------------------------------------------
Senders == [at : {"waiting", "sending", "answered", "sleeping"}, op : Op \cup {NoOp},
            verdict : {"none", "ok", "refused", "failed"}]

\* What waits was committed in this order, and the sender has the first of it.
Queued ==
    /\ pending \in Seq(Op) /\ commits \in Nat
    /\ \A i \in 1..Len(pending) : pending[i].seq \in 1..commits
    /\ \A i, j \in 1..Len(pending) : i < j => pending[i].seq < pending[j].seq
    /\ sender \in Senders
    /\ sender.at # "waiting" => pending # <<>> /\ sender.op = pending[1]
    /\ sender.at # "answered" => sender.verdict = "none"

\* What landed comes before what waits.
Ordered ==
    /\ landed \in Seq(Nat)
    /\ \A i, j \in 1..Len(landed) : i <= j => landed[i] <= landed[j]
    /\ \A i \in 1..Len(landed) : landed[i] <= commits
    /\ \A i \in 1..Len(landed), j \in 1..Len(pending) : landed[i] <= pending[j].seq

StillWaits(num) == \E i \in 1..Len(pending) : pending[i].seq = num
Lands(num) == \E i \in 1..Len(landed) : landed[i] = num

\* An op waits until it was answered.
Whole ==
    /\ sender.verdict = "ok" => Lands(sender.op.seq)
    /\ sender.verdict = "refused" => sender.op.seq \in refused
    /\ \A num \in 1..commits : StillWaits(num) \/ num \in refused \/ Lands(num)

\* The client agrees with the server, but for an answer that is on its way.
Agreed ==
    ~astray => server = IF sender.verdict = "ok" THEN ApplyOp(confirmed, sender.op) ELSE confirmed

SyncInv == Queued /\ Ordered /\ Whole /\ Agreed /\ view = Replay(confirmed, pending)

\* Dropping what the sender has sent leaves the rest.
LEMMA DropsTheFirst ==
    ASSUME Queued, sender.at # "waiting"
    PROVE  Dropped(sender.op.seq) = Tail(pending)
<1> DEFINE num == sender.op.seq
           found == {i \in 1..Len(pending) : pending[i].seq = num}
           first == CHOOSE i \in found : \A j \in found : i <= j
<1>1. /\ pending \in Seq(Op) /\ pending # <<>> /\ Len(pending) \in Nat \ {0}
      /\ pending[1].seq = num
  BY DEF Queued
<1>2. 1 \in found /\ \A j \in found : 1 <= j /\ j \in Nat
  BY <1>1
<1> HIDE DEF found
<1>3. first \in found /\ \A j \in found : first <= j
  BY <1>2
<1>4. first = 1
  BY <1>2, <1>3
<1>5. Dropped(num) = [i \in 1..Len(pending) - 1 |-> pending[IF i < first THEN i ELSE i + 1]]
  BY <1>2 DEF Dropped, found
<1> HIDE DEF first
<1>6. \A i \in 1..Len(pending) - 1 : (IF i < first THEN i ELSE i + 1) = i + 1
  BY <1>1, <1>4
<1>7. Dropped(num) = [i \in 1..Len(pending) - 1 |-> pending[i + 1]]
  BY <1>5, <1>6
<1>8. Tail(pending) = [i \in 1..Len(pending) - 1 |-> pending[i + 1]]
  <2>1. /\ Tail(pending) \in Seq(Op) /\ Len(Tail(pending)) = Len(pending) - 1
        /\ \A i \in 1..Len(pending) - 1 : Tail(pending)[i] = pending[i + 1]
    BY <1>1
  <2>2. Tail(pending) \in [1..Len(Tail(pending)) -> Op]
    BY <2>1, LenProperties
  <2> QED
    BY <2>1, <2>2
<1> QED
  BY <1>7, <1>8

\* The rest of the queue.
LEMMA TheRestWaits ==
    ASSUME NEW ops \in Seq(Op), ops # <<>>
    PROVE  /\ Tail(ops) \in Seq(Op) /\ Len(Tail(ops)) = Len(ops) - 1 /\ Len(ops) \in Nat \ {0}
           /\ \A i \in 1..Len(Tail(ops)) : Tail(ops)[i] = ops[i + 1] /\ i + 1 \in 1..Len(ops)
           /\ \A i \in 2..Len(ops) : i - 1 \in 1..Len(Tail(ops)) /\ Tail(ops)[i - 1] = ops[i]
  OBVIOUS

\* Where the loop goes.
LEMMA LoopTakesTheFirst ==
    ASSUME NEW ops \in Seq(Op), sender' = Loop(ops), pending' = ops
    PROVE  /\ sender' \in Senders
           /\ sender'.at # "waiting" => pending' # <<>> /\ sender'.op = pending'[1]
           /\ sender'.verdict = "none"
<1>1. CASE ops = <<>>
  BY <1>1 DEF Loop, Waiting, Senders
<1>2. CASE ops # <<>>
  <2>1. ops[1] \in Op
    BY <1>2
  <2> QED
    BY <1>2, <2>1 DEF Loop, Senders
<1> QED
  BY <1>1, <1>2

\* A commit is the last of all.
LEMMA CommitKeeps ==
    ASSUME SyncInv, NEW id \in 0..MaxOps + MaxLost, NEW kind \in {"add", "del", "edit"}, Commit(kind, id)
    PROVE  SyncInv'
<1> DEFINE op == [seq |-> commits + 1, kind |-> kind, id |-> id]
           l  == Len(pending)
<1>1. /\ commits' = commits + 1 /\ pending' = Append(pending, op) /\ view' = ApplyOp(view, op)
      /\ UNCHANGED <<confirmed, sender, server, landed, refused, astray>>
  BY DEF Commit
<1>2. pending \in Seq(Op) /\ commits \in Nat /\ l \in Nat
  BY DEF SyncInv, Queued
<1>3. op \in Op /\ op.seq = commits + 1
  <2>1. id \in Nat /\ commits + 1 \in Nat \ {0}
    BY <1>2, SyncAssumption
  <2> QED
    BY <2>1 DEF Op
<1> HIDE DEF op
<1>4. /\ pending' \in Seq(Op) /\ Len(pending') = l + 1 /\ pending'[l + 1] = op
      /\ \A i \in 1..l : pending'[i] = pending[i]
  BY <1>1, <1>2, <1>3
<1>5. Queued'
  <2>1. \A i \in 1..l : pending[i].seq \in 1..commits
    BY DEF SyncInv, Queued
  <2>2. \A i \in 1..Len(pending') : pending'[i].seq \in 1..commits'
    BY <1>1, <1>2, <1>3, <1>4, <2>1
  <2>3. ASSUME NEW i \in 1..Len(pending'), NEW j \in 1..Len(pending'), i < j
        PROVE  pending'[i].seq < pending'[j].seq
    <3>1. i \in 1..l /\ pending'[i].seq \in 1..commits
      BY <1>2, <1>4, <2>1, <2>3
    <3>2. CASE j \in 1..l
      BY <1>4, <2>3, <3>1, <3>2 DEF SyncInv, Queued
    <3>3. CASE j = l + 1
      BY <1>2, <1>3, <1>4, <3>1, <3>3
    <3> QED
      BY <1>2, <1>4, <3>2, <3>3
  <2>4. sender.at # "waiting" => pending' # <<>> /\ sender.op = pending'[1]
    <3>1. sender.at # "waiting" => l # 0 /\ sender.op = pending[1]
      BY <1>2 DEF SyncInv, Queued
    <3> QED
      BY <1>2, <1>4, <3>1
  <2> QED
    BY <1>1, <1>2, <1>4, <2>2, <2>3, <2>4 DEF SyncInv, Queued
<1>6. Ordered'
  <2>1. ASSUME NEW i \in 1..Len(landed), NEW j \in 1..Len(pending') PROVE landed[i] <= pending'[j].seq
    <3>1. landed[i] \in Nat /\ landed[i] <= commits
      BY DEF SyncInv, Ordered
    <3>2. CASE j \in 1..l
      BY <1>4, <3>2 DEF SyncInv, Ordered
    <3>3. CASE j = l + 1
      BY <1>2, <1>3, <1>4, <3>1, <3>3
    <3> QED
      BY <1>2, <1>4, <3>2, <3>3
  <2>2. \A i \in 1..Len(landed) : landed[i] \in Nat /\ landed[i] <= commits
    BY DEF SyncInv, Ordered
  <2>3. \A i \in 1..Len(landed) : landed[i] <= commits'
    BY <1>1, <1>2, <2>2
  <2> QED
    BY <1>1, <2>1, <2>3 DEF SyncInv, Ordered
<1>7. Whole'
  <2>1. ASSUME NEW num \in 1..commits' PROVE StillWaits(num)' \/ num \in refused' \/ Lands(num)'
    <3>1. CASE num \in 1..commits
      BY <1>1, <1>2, <1>4, <3>1 DEF SyncInv, Whole, StillWaits, Lands
    <3>2. CASE num = commits + 1
      BY <1>2, <1>3, <1>4, <3>2 DEF StillWaits
    <3> QED
      BY <1>1, <1>2, <3>1, <3>2
  <2> QED
    BY <1>1, <2>1 DEF SyncInv, Whole, Lands
<1>8. view' = Replay(confirmed', pending')
  BY <1>1, <1>2, <1>3, ReplayAppended DEF SyncInv
<1>9. Agreed'
  BY <1>1 DEF SyncInv, Agreed
<1> QED
  BY <1>5, <1>6, <1>7, <1>8, <1>9 DEF SyncInv

\* The op was answered: it goes, and the sender takes the next.
LEMMA AnsweredKeeps ==
    ASSUME SyncInv, Confirm \/ Reject
    PROVE  SyncInv'
<1> DEFINE ops == pending
           l   == Len(pending)
<1>1. /\ sender.at = "answered" /\ sender.verdict \in {"ok", "refused"}
      /\ pending' = Dropped(sender.op.seq) /\ sender' = Loop(pending')
      /\ UNCHANGED <<commits, server, landed, refused, astray>>
  BY DEF Confirm, Reject
<1>2. pending' = Tail(pending)
  BY <1>1, DropsTheFirst DEF SyncInv
<1>3. pending \in Seq(Op) /\ pending # <<>> /\ sender.op = pending[1] /\ commits \in Nat
  BY <1>1 DEF SyncInv, Queued
<1>4. /\ pending' \in Seq(Op) /\ Len(pending') = l - 1 /\ l \in Nat \ {0}
      /\ \A i \in 1..Len(pending') : pending'[i] = pending[i + 1] /\ i + 1 \in 1..l
      /\ \A i \in 2..l : i - 1 \in 1..Len(pending') /\ pending'[i - 1] = pending[i]
  BY <1>2, <1>3, TheRestWaits
<1>5. Queued'
  <2>1. /\ sender' \in Senders
        /\ sender'.at # "waiting" => pending' # <<>> /\ sender'.op = pending'[1]
        /\ sender'.verdict = "none"
    BY <1>1, <1>4, LoopTakesTheFirst
  <2>2. \A i \in 1..Len(pending') : pending'[i].seq \in 1..commits
    BY <1>4 DEF SyncInv, Queued
  <2>3. ASSUME NEW i \in 1..Len(pending'), NEW j \in 1..Len(pending'), i < j
        PROVE  pending'[i].seq < pending'[j].seq
    <3>1. i + 1 \in 1..l /\ j + 1 \in 1..l /\ i + 1 < j + 1
      BY <1>4, <2>3
    <3> QED
      BY <1>4, <3>1 DEF SyncInv, Queued
  <2> QED
    BY <1>1, <1>3, <1>4, <2>1, <2>2, <2>3 DEF Queued
<1>6. Ordered'
  BY <1>1, <1>4 DEF SyncInv, Ordered
<1>7. Whole'
  <2>1. sender.op.seq \in refused \/ Lands(sender.op.seq)
    BY <1>1 DEF SyncInv, Whole
  <2>2. ASSUME NEW num \in 1..commits' PROVE StillWaits(num)' \/ num \in refused' \/ Lands(num)'
    <3>1. StillWaits(num) \/ num \in refused \/ Lands(num)
      BY <1>1 DEF SyncInv, Whole
    <3>2. ASSUME StillWaits(num), num # sender.op.seq PROVE StillWaits(num)'
      <4>1. PICK i \in 1..l : pending[i].seq = num
        BY <3>2 DEF StillWaits
      <4>2. i \in 2..l
        BY <1>3, <1>4, <3>2, <4>1
      <4> QED
        BY <1>4, <4>1, <4>2 DEF StillWaits
    <3> QED
      BY <1>1, <2>1, <3>1, <3>2 DEF Lands
  <2>3. sender'.verdict = "none"
    BY <1>1, <1>4, LoopTakesTheFirst
  <2> QED
    BY <2>2, <2>3 DEF Whole
<1>8. view' = Replay(confirmed', pending')
  <2>1. CASE Confirm
    <3>1. confirmed' = ApplyOp(confirmed, pending[1]) /\ view' = view
      BY <1>3, <2>1 DEF Confirm
    <3> QED
      BY <1>2, <1>3, <3>1, ReplayFolded DEF SyncInv
  <2>2. CASE Reject
    BY <2>2 DEF Reject
  <2> QED
    BY <2>1, <2>2
<1>9. Agreed'
  <2>1. sender'.verdict = "none"
    BY <1>1, <1>4, LoopTakesTheFirst
  <2>2. CASE Confirm
    BY <1>1, <2>1, <2>2 DEF Confirm, SyncInv, Agreed
  <2>3. CASE Reject
    BY <1>1, <2>1, <2>3 DEF Reject, SyncInv, Agreed
  <2> QED
    BY <2>2, <2>3
<1> QED
  BY <1>5, <1>6, <1>7, <1>8, <1>9 DEF SyncInv

\* The op lands after all that did, and before what waits behind it.
LEMMA LandsInOrder == ASSUME SyncInv, ServerApplies \/ AnswerLost PROVE SyncInv'
<1> DEFINE num == sender.op.seq
           l   == Len(landed)
<1>1. /\ sender.at = "sending" /\ landed' = Append(landed, num) /\ server' = ApplyOp(server, sender.op)
      /\ UNCHANGED <<view, confirmed, pending, commits, refused>>
      /\ \/ sender' = [sender EXCEPT !.at = "answered", !.verdict = "ok"] /\ astray' = astray
         \/ sender' = [sender EXCEPT !.at = "answered", !.verdict = "failed"] /\ astray'
  BY DEF ServerApplies, AnswerLost, Verdict
<1>2. /\ sender' \in Senders /\ sender'.at = "answered" /\ sender'.op = sender.op
      /\ \/ sender'.verdict = "ok" /\ astray' = astray
         \/ sender'.verdict = "failed" /\ astray'
  BY <1>1 DEF SyncInv, Queued, Senders
<1>3. pending # <<>> /\ pending \in Seq(Op) /\ sender.op = pending[1] /\ sender.verdict = "none"
  BY <1>1 DEF SyncInv, Queued
<1>4. 1 \in 1..Len(pending) /\ \A j \in 1..Len(pending) : j # 1 => 1 < j
  BY <1>3
<1>5. num \in 1..commits /\ commits \in Nat /\ \A j \in 1..Len(pending) : num <= pending[j].seq
  BY <1>3, <1>4 DEF SyncInv, Queued
<1>6. landed \in Seq(Nat) /\ num \in Nat /\ l \in Nat
  BY <1>5 DEF SyncInv, Ordered
<1> HIDE DEF num
<1>7. /\ landed' \in Seq(Nat) /\ Len(landed') = l + 1 /\ landed'[l + 1] = num
      /\ \A i \in 1..l : landed'[i] = landed[i] /\ landed[i] \in Nat
  BY <1>1, <1>6
<1>8. Queued'
  BY <1>1, <1>2 DEF SyncInv, Queued
<1>9. Ordered'
  <2>1. \A i \in 1..l : landed[i] <= num /\ landed[i] <= commits
    BY <1>3, <1>4 DEF SyncInv, Ordered, num
  <2>2. ASSUME NEW i \in 1..Len(landed'), NEW j \in 1..Len(landed'), i <= j
        PROVE  landed'[i] <= landed'[j]
    <3>1. CASE j \in 1..l
      <4>1. i \in 1..l
        BY <1>6, <1>7, <2>2, <3>1
      <4> QED
        BY <1>7, <2>2, <3>1, <4>1 DEF SyncInv, Ordered
    <3>2. CASE j = l + 1
      BY <1>6, <1>7, <2>1, <3>2
    <3> QED
      BY <1>6, <1>7, <3>1, <3>2
  <2>3. ASSUME NEW i \in 1..Len(landed') PROVE landed'[i] <= commits
    <3>1. CASE i \in 1..l
      BY <1>7, <2>1, <3>1
    <3>2. CASE i = l + 1
      BY <1>5, <1>7, <3>2
    <3> QED
      BY <1>6, <1>7, <3>1, <3>2
  <2>4. ASSUME NEW i \in 1..Len(landed'), NEW j \in 1..Len(pending) PROVE landed'[i] <= pending[j].seq
    <3>1. CASE i \in 1..l
      BY <1>7, <3>1 DEF SyncInv, Ordered
    <3>2. CASE i = l + 1
      BY <1>5, <1>7, <3>2
    <3> QED
      BY <1>6, <1>7, <3>1, <3>2
  <2> QED
    BY <1>1, <1>7, <2>2, <2>3, <2>4 DEF Ordered
<1>10. Whole'
  <2>1. \A s : Lands(s) => Lands(s)'
    BY <1>6, <1>7 DEF Lands
  <2>2. Lands(sender.op.seq)'
    <3>1. l + 1 \in 1..Len(landed') /\ landed'[l + 1] = sender'.op.seq
      BY <1>2, <1>6, <1>7 DEF num
    <3> QED
      BY <3>1 DEF Lands
  <2> QED
    BY <1>1, <1>2, <2>1, <2>2 DEF SyncInv, Whole, StillWaits
<1>11. Agreed'
  BY <1>1, <1>2, <1>3 DEF SyncInv, Agreed
<1> QED
  BY <1>1, <1>8, <1>9, <1>10, <1>11 DEF SyncInv

\* Every step keeps the invariant.
LEMMA SyncStep == SyncInv /\ [SyncNext]_syncVars => SyncInv'
<1> SUFFICES ASSUME SyncInv, [SyncNext]_syncVars PROVE SyncInv'
  OBVIOUS
<1>1. ASSUME NEW id \in 0..MaxOps + MaxLost, NEW kind \in {"add", "del", "edit"}, Commit(kind, id)
      PROVE  SyncInv'
  BY <1>1, CommitKeeps
<1>2. CASE Confirm \/ Reject
  BY <1>2, AnsweredKeeps
<1>3. CASE Render
  BY <1>3 DEF Render, SyncInv, Queued, Ordered, Whole, StillWaits, Lands, Agreed
<1>4. CASE Hydrate
  BY <1>4 DEF Hydrate, SyncInv, Queued, Ordered, Whole, StillWaits, Lands, Agreed
<1>5. ASSUME sender.at # "answered", sender' = Loop(pending),
             UNCHANGED <<view, confirmed, pending, commits, server, landed, refused, astray>>
      PROVE  SyncInv'
  <2>1. /\ sender' \in Senders
        /\ sender'.at # "waiting" => pending' # <<>> /\ sender'.op = pending'[1]
        /\ sender'.verdict = "none"
    BY <1>5, LoopTakesTheFirst DEF SyncInv, Queued
  <2>2. sender.verdict = "none"
    BY <1>5 DEF SyncInv, Queued
  <2> QED
    BY <1>5, <2>1, <2>2 DEF SyncInv, Queued, Ordered, Whole, StillWaits, Lands, Agreed
<1>6. CASE Wake \/ Resend
  BY <1>5, <1>6 DEF Wake, Resend
<1>7. ASSUME NEW at \in {"answered", "sleeping"}, NEW verdict \in {"none", "failed"},
             sender' = [sender EXCEPT !.at = at, !.verdict = verdict],
             at = "sleeping" => verdict = "none", sender.at # "waiting", sender.verdict # "ok",
             UNCHANGED <<view, confirmed, pending, commits, server, landed, refused, astray>>
      PROVE  SyncInv'
  <2>1. /\ sender'.at = at /\ sender'.verdict = verdict /\ sender'.op = sender.op
        /\ sender' \in Senders
    BY <1>7 DEF SyncInv, Queued, Senders
  <2> QED
    BY <1>7, <2>1 DEF SyncInv, Queued, Ordered, Whole, StillWaits, Lands, Agreed
<1>8. CASE BackOff
  BY <1>7, <1>8 DEF BackOff
<1>9. CASE Unreachable
  <2>1. sender.verdict = "none"
    BY <1>9 DEF Unreachable, SyncInv, Queued
  <2> QED
    BY <1>7, <1>9, <2>1 DEF Unreachable, Verdict
<1>10. CASE ServerRefuses
  <2>1. /\ sender'.at = "answered" /\ sender'.verdict = "refused" /\ sender'.op = sender.op
        /\ sender' \in Senders
    BY <1>10 DEF ServerRefuses, Verdict, SyncInv, Queued, Senders
  <2> QED
    BY <1>10, <2>1 DEF ServerRefuses, SyncInv, Queued, Ordered, Whole, StillWaits, Lands, Agreed
<1>11. CASE ServerApplies \/ AnswerLost
  BY <1>11, LandsInOrder
<1>12. CASE UNCHANGED syncVars
  BY <1>12 DEF syncVars, SyncInv, Queued, Ordered, Whole, StillWaits, Lands, Agreed
<1> QED
  BY <1>1, <1>2, <1>3, <1>4, <1>6, <1>8, <1>9, <1>10, <1>11, <1>12 DEF SyncNext, SenderStep

\* Nothing is committed at first.
LEMMA SyncStart == SyncInit => SyncInv
<1> SUFFICES ASSUME SyncInit PROVE SyncInv
  OBVIOUS
<1>1. view = Replay(confirmed, pending)
  BY ReplayNothing DEF SyncInit
<1>2. Queued
  BY DEF SyncInit, Queued, Senders
<1>3. Ordered
  BY DEF SyncInit, Ordered
<1>4. Whole /\ Agreed
  BY DEF SyncInit, Whole, Agreed
<1> QED
  BY <1>1, <1>2, <1>3, <1>4 DEF SyncInv

\* However often answers are lost, ops refused and pages mounted: the server gets the ops in
\* the order of their commits, and an op is waiting until it was answered.
THEOREM OpsLandInOrder == SyncSpec => []InOrderAndWhole
<1>1. SyncInv => InOrderAndWhole
  BY DEF SyncInv, Ordered, Whole, StillWaits, Lands, InOrderAndWhole
<1> QED
  BY <1>1, SyncStart, SyncStep, PTL DEF SyncSpec

\* The browser shows what was confirmed with the ops that wait on top, for any number of ops
\* and whatever an op does to a snapshot; and what the server has, once nothing waits.
THEOREM TheViewIsReplayed == SyncSpec => []ViewIsReplay
<1>1. SyncInv => ViewIsReplay
  <2> SUFFICES ASSUME SyncInv PROVE ViewIsReplay
    OBVIOUS
  <2>1. pending = <<>> => sender.verdict # "ok"
    BY DEF SyncInv, Queued
  <2> QED
    BY <2>1 DEF SyncInv, Agreed, ViewIsReplay
<1> QED
  BY <1>1, SyncStart, SyncStep, PTL DEF SyncSpec

-----------------------------------------------------------------------------
\* The page that comes and goes.

\* What a hook makes.
AnyCall == [kind : {"listener", "frame", "fetch"}, mount : Nat, held : BOOLEAN, released : Nat,
            joins : Nat, awaited : BOOLEAN]

\* A making of one of the n mounts, where m is the one whose scope is open.
Live(c, m, n) ==
    /\ c.released <= 1 /\ (c.held <=> c.released = 0)
    /\ c.mount \in 1..n
    /\ c.held /\ c.kind # "fetch" => c.mount = m

Makings(cs, m, n) == cs \in Seq(AnyCall) /\ \A i \in 1..Len(cs) : Live(cs[i], m, n)

\* What is released is as it was, but for that.
LEMMA Released ==
    ASSUME NEW c \in AnyCall, c.released <= 1, c.held <=> c.released = 0
    PROVE  /\ Release(c) \in AnyCall /\ Release(c).released = 1 /\ ~Release(c).held
           /\ Release(c).kind = c.kind /\ Release(c).mount = c.mount /\ Release(c).joins = c.joins
<1>1. CASE c.released > 0
  BY <1>1 DEF Release, AnyCall
<1>2. CASE ~(c.released > 0)
  BY <1>2 DEF Release, AnyCall
<1> QED
  BY <1>1, <1>2

\* Nothing that listens or draws is held after its scope is closed.
LEMMA DisposedIsQuiet ==
    ASSUME NEW m \in Nat, NEW n \in Nat, NEW cs, Makings(cs, m, n), NEW any \in Nat
    PROVE  Makings(Disposed(cs, m), any, n) /\ Len(Disposed(cs, m)) = Len(cs) /\ Len(cs) \in Nat
<1> DEFINE ds == Disposed(cs, m)
<1>1. cs \in Seq(AnyCall) /\ Len(cs) \in Nat /\ \A i \in 1..Len(cs) : cs[i] \in AnyCall /\ Live(cs[i], m, n)
  BY DEF Makings
<1>2. \A i \in 1..Len(cs) :
        ds[i] = IF m > 0 /\ cs[i].mount = m /\ cs[i].kind # "fetch" THEN Release(cs[i]) ELSE cs[i]
  BY DEF Disposed
<1>3. ASSUME NEW i \in 1..Len(cs) PROVE ds[i] \in AnyCall /\ Live(ds[i], any, n)
  <2>1. cs[i] \in AnyCall /\ Live(cs[i], m, n)
    BY <1>1
  <2>2. CASE m > 0 /\ cs[i].mount = m /\ cs[i].kind # "fetch"
    <3>1. ds[i] = Release(cs[i])
      BY <1>2, <2>2
    <3>2. cs[i].released <= 1 /\ (cs[i].held <=> cs[i].released = 0)
      BY <2>1 DEF Live
    <3> HIDE DEF ds
    <3> QED
      BY <2>1, <3>1, <3>2, Released DEF Live
  <2>3. CASE ~(m > 0 /\ cs[i].mount = m /\ cs[i].kind # "fetch")
    <3>1. ds[i] = cs[i]
      BY <1>2, <2>3
    <3>2. ~(cs[i].held /\ cs[i].kind # "fetch")
      BY <2>1, <2>3 DEF Live
    <3> HIDE DEF ds
    <3> QED
      BY <2>1, <3>1, <3>2 DEF Live
  <2> QED
    BY <2>2, <2>3
<1>4. ds = [i \in 1..Len(cs) |-> ds[i]]
  BY DEF Disposed
<1> HIDE DEF ds
<1>5. ds \in Seq(AnyCall) /\ Len(ds) = Len(cs)
  BY <1>1, <1>3, <1>4
<1> QED
  BY <1>1, <1>3, <1>5 DEF Makings, ds

\* What a mount makes is its own, and held.
LEMMA MadeIsLive ==
    ASSUME NEW r \in Routes, NEW s \in Nat \ {0}, NEW joins \in Nat
    PROVE  /\ Makings(Made(r, s, joins), s, s)
           /\ \A i \in 1..Len(Made(r, s, joins)) : Made(r, s, joins)[i].joins \in {0, joins}
<1> DEFINE C == {c \in AnyCall : Live(c, s, s) /\ c.joins \in {0, joins}}
           one(k) == IF k \in Makes[r]
                     THEN <<[kind |-> k, mount |-> s, held |-> TRUE, released |-> 0,
                             joins |-> IF k = "fetch" THEN joins ELSE 0, awaited |-> TRUE]>>
                     ELSE <<>>
<1>1. ASSUME NEW k \in {"listener", "frame", "fetch"} PROVE one(k) \in Seq(C)
  <2> DEFINE c == [kind |-> k, mount |-> s, held |-> TRUE, released |-> 0,
                   joins |-> IF k = "fetch" THEN joins ELSE 0, awaited |-> TRUE]
  <2>1. c \in AnyCall /\ Live(c, s, s) /\ c.joins \in {0, joins}
    BY DEF AnyCall, Live
  <2> HIDE DEF c
  <2>2. c \in C
    BY <2>1
  <2> HIDE DEF C
  <2>3. <<c>> \in Seq(C)
    BY <2>2
  <2>4. <<>> \in Seq(C)
    OBVIOUS
  <2> QED
    BY <2>3, <2>4 DEF c
<1>2. Made(r, s, joins) = one("listener") \o one("frame") \o one("fetch")
  BY DEF Made
<1> HIDE DEF one, C
<1>3. one("listener") \in Seq(C) /\ one("frame") \in Seq(C) /\ one("fetch") \in Seq(C)
  BY <1>1
<1>4. Made(r, s, joins) \in Seq(C)
  BY <1>2, <1>3, ConcatProperties
<1> DEFINE ms == Made(r, s, joins)
<1> HIDE DEF ms
<1>5. ms \in Seq(C)
  BY <1>4 DEF ms
<1>6. \A i \in 1..Len(ms) : ms[i] \in C
  BY <1>5
<1>7. ms \in Seq(AnyCall)
  <2>1. C \subseteq AnyCall
    BY DEF C
  <2>2. ms \in [1..Len(ms) -> AnyCall] /\ Len(ms) \in Nat
    BY <1>5, <1>6, <2>1, LenProperties
  <2> QED
    BY <2>2, SeqDef
<1> QED
  BY <1>6, <1>7 DEF Makings, C, ms

\* What is made after what is quiet.
LEMMA MadeAfter ==
    ASSUME NEW ds, NEW ms, NEW n \in Nat, NEW s \in Nat \ {0}, n <= s,
           Makings(ds, s, n), Makings(ms, s, s)
    PROVE  /\ Makings(ds \o ms, s, s) /\ Len(ds \o ms) = Len(ds) + Len(ms)
           /\ Len(ds) \in Nat /\ Len(ms) \in Nat
           /\ \A i \in 1..Len(ms) : (ds \o ms)[Len(ds) + i] = ms[i]
           /\ \A i \in 1..Len(ds) : (ds \o ms)[i] = ds[i]
<1>1. ds \in Seq(AnyCall) /\ ms \in Seq(AnyCall) /\ Len(ds) \in Nat /\ Len(ms) \in Nat
  BY DEF Makings
<1>2. /\ ds \o ms \in Seq(AnyCall) /\ Len(ds \o ms) = Len(ds) + Len(ms)
      /\ \A i \in 1..Len(ds) + Len(ms) :
            (ds \o ms)[i] = IF i <= Len(ds) THEN ds[i] ELSE ms[i - Len(ds)]
  BY <1>1, ConcatProperties
<1>3. ASSUME NEW i \in 1..Len(ds \o ms) PROVE Live((ds \o ms)[i], s, s)
  <2>1. CASE i <= Len(ds)
    <3>1. (ds \o ms)[i] = ds[i] /\ i \in 1..Len(ds)
      BY <1>1, <1>2, <2>1
    <3>2. Live(ds[i], s, n)
      BY <3>1 DEF Makings
    <3> QED
      BY <3>1, <3>2 DEF Live
  <2>2. CASE ~(i <= Len(ds))
    <3>1. (ds \o ms)[i] = ms[i - Len(ds)] /\ i - Len(ds) \in 1..Len(ms)
      BY <1>1, <1>2, <2>2
    <3> QED
      BY <3>1 DEF Makings
  <2> QED
    BY <2>1, <2>2
<1>4. \A i \in 1..Len(ms) : (ds \o ms)[Len(ds) + i] = ms[i]
  BY <1>1, <1>2
<1>5. \A i \in 1..Len(ds) : (ds \o ms)[i] = ds[i]
  BY <1>1, <1>2
<1> QED
  BY <1>1, <1>2, <1>3, <1>4, <1>5 DEF Makings

AnyMount == [of : {r \in Routes : Makes[r] # {}}, into : Routes]

\* After a mount, or none, whatever listens or draws is of the scope that is open, and what is
\* new joins what the mount was given to join.
Remade(cs, joins) ==
    /\ mounts' \in Seq(AnyMount) /\ Len(mounts') \in Nat
    /\ mounted' \in 0..Len(mounts')
    /\ Makings(calls', mounted', Len(mounts'))
    /\ Len(cs) \in Nat /\ Len(calls') \in Nat /\ Len(cs) <= Len(calls')
    /\ \A i \in Len(cs) + 1..Len(calls') : calls'[i].joins \in {0, joins}

LEMMA RunMountKeeps ==
    ASSUME NEW cs, NEW r \in Routes, NEW markup \in Routes, NEW joins \in Nat,
           mounts \in Seq(AnyMount), mounted \in 0..Len(mounts),
           Makings(cs, mounted, Len(mounts)), RunMount(cs, r, markup, joins)
    PROVE  /\ Remade(cs, joins)
           /\ IF go # "there" \/ Makes[r] = {}
              THEN UNCHANGED <<mounted, mounts>>
              ELSE mounted' > 0 /\ mounts'[mounted'] = [of |-> r, into |-> markup]
<1>1. Len(mounts) \in Nat /\ mounted \in Nat /\ Len(cs) \in Nat
  BY DEF Makings
<1>2. CASE go # "there" \/ Makes[r] = {}
  <2>1. calls' = cs /\ mounted' = mounted /\ mounts' = mounts
    BY <1>2 DEF RunMount
  <2> QED
    BY <1>1, <1>2, <2>1 DEF Remade
<1>3. CASE ~(go # "there" \/ Makes[r] = {})
  <2> DEFINE m == [of |-> r, into |-> markup]
             ds == Disposed(cs, mounted)
             ms == Made(r, mounted', joins)
  <2>1. mounts' = Append(mounts, m) /\ mounted' = Len(mounts') /\ calls' = ds \o ms
    BY <1>3 DEF RunMount
  <2>2. m \in AnyMount
    BY <1>3 DEF AnyMount
  <2> HIDE DEF ds, ms
  <2>3. mounts' \in Seq(AnyMount) /\ Len(mounts') = Len(mounts) + 1 /\ mounts'[Len(mounts) + 1] = m
    <3> HIDE DEF m
    <3> QED
      BY <2>1, <2>2
  <2>4. mounted' = Len(mounts) + 1 /\ mounted' \in Nat \ {0} /\ Len(mounts) <= mounted'
    BY <1>1, <2>1, <2>3
  <2>5. Makings(ds, mounted', Len(mounts)) /\ Len(ds) = Len(cs)
    BY <1>1, <2>4, DisposedIsQuiet DEF ds
  <2>6. Makings(ms, mounted', mounted') /\ \A i \in 1..Len(ms) : ms[i].joins \in {0, joins}
    BY <2>4, MadeIsLive DEF ms
  <2>7. /\ Makings(calls', mounted', mounted') /\ Len(calls') = Len(ds) + Len(ms)
        /\ Len(ds) \in Nat /\ Len(ms) \in Nat
        /\ \A i \in 1..Len(ms) : calls'[Len(ds) + i] = ms[i]
    <3>1. /\ Makings(ds \o ms, mounted', mounted') /\ Len(ds \o ms) = Len(ds) + Len(ms)
          /\ Len(ds) \in Nat /\ Len(ms) \in Nat
          /\ \A i \in 1..Len(ms) : (ds \o ms)[Len(ds) + i] = ms[i]
      <4>1. Len(mounts) \in Nat /\ mounted' \in Nat \ {0} /\ Len(mounts) <= mounted'
        BY <1>1, <2>4
      <4>2. Makings(ds, mounted', Len(mounts)) /\ Makings(ms, mounted', mounted')
        BY <2>5, <2>6
      <4> HIDE DEF m
      <4> QED
        BY ONLY <4>1, <4>2, MadeAfter
    <3> QED
      BY <2>1, <3>1
  <2>8. ASSUME NEW i \in Len(cs) + 1..Len(calls') PROVE calls'[i].joins \in {0, joins}
    <3>1. i - Len(ds) \in 1..Len(ms) /\ i = Len(ds) + (i - Len(ds))
      BY <2>5, <2>7
    <3>2. calls'[i] = ms[i - Len(ds)]
      BY <2>7, <3>1
    <3> QED
      BY <2>6, <3>1, <3>2
  <2>9. Remade(cs, joins)
    BY <1>1, <2>1, <2>3, <2>4, <2>5, <2>7, <2>8 DEF Remade
  <2> QED
    BY <1>3, <2>3, <2>4, <2>9
<1> QED
  BY <1>2, <1>3

\* The mounts after a swap: of the page that is shown, if it has a hook; or what it was, where
\* Go does not know the page before.
LEMMA RemountedKeeps ==
    ASSUME NEW r \in Routes, NEW joins \in Nat,
           mounts \in Seq(AnyMount), mounted \in 0..Len(mounts), go # "there" => mounted = 0,
           mounted > 0 => mounts[mounted].of = route \/ mounts[mounted].into # mounts[mounted].of,
           Makings(calls, mounted, Len(mounts)), Remounted(r, joins)
    PROVE  /\ Remade(calls, joins)
           /\ go # "there" => mounted' = 0
           /\ mounted' > 0 => mounts'[mounted'].of = r \/ mounts'[mounted'].into # mounts'[mounted'].of
<1> DEFINE ds == UnmountedCalls
           open == Unmounted
<1>1. Len(mounts) \in Nat /\ mounted \in Nat /\ Len(calls) \in Nat
  BY DEF Makings
<1>2. /\ Makings(ds, open, Len(mounts)) /\ Makings(ds, mounted, Len(mounts))
      /\ Len(ds) = Len(calls) /\ open \in 0..Len(mounts)
      /\ go # "there" => open = 0
      /\ open > 0 => open = mounted /\ mounts[mounted].into # mounts[mounted].of
  <2>1. CASE go = "there" /\ route \in Table
    <3>1. ds = Disposed(calls, mounted) /\ open = 0
      BY <2>1 DEF UnmountedCalls, Unmounted
    <3> QED
      BY <1>1, <3>1, DisposedIsQuiet
  <2>2. CASE ~(go = "there" /\ route \in Table)
    <3>1. ds = calls /\ open = mounted
      BY <2>2 DEF UnmountedCalls, Unmounted
    <3>2. ASSUME open > 0 PROVE mounts[mounted].of # route
      <4>1. route \notin Table /\ mounted \in 1..Len(mounts)
        BY <1>1, <2>2, <3>1, <3>2
      <4>2. mounts[mounted] \in AnyMount
        BY <4>1
      <4>3. mounts[mounted].of \in Routes /\ Makes[mounts[mounted].of] # {}
        BY <4>2 DEF AnyMount
      <4>4. mounts[mounted].of \in Table
        BY <4>3, LifecycleAssumption
      <4> QED
        BY <4>1, <4>4
    <3> QED
      BY <1>1, <3>1, <3>2
  <2> QED
    BY <2>1, <2>2
<1> HIDE DEF ds, open
<1>3. CASE go # "there" \/ Makes[r] = {}
  <2>1. calls' = ds /\ mounted' = open /\ mounts' = mounts
    BY <1>3 DEF Remounted, ds, open
  <2> QED
    BY <1>1, <1>2, <2>1 DEF Remade
<1>4. CASE go = "there" /\ Makes[r] # {}
  <2>1. RunMount(ds, r, r, joins)
    BY <1>4 DEF Remounted, ds
  <2>2. Remade(ds, joins) /\ mounted' > 0 /\ mounts'[mounted'] = [of |-> r, into |-> r]
    BY <1>2, <1>4, <2>1, RunMountKeeps
  <2> QED
    BY <1>2, <1>4, <2>2 DEF Remade
<1> QED
  BY <1>3, <1>4

AnySwap == [by : 1..MaxGoes, to : Routes, until : {"transition", "styles"}]

\* The addresses and the swaps are of pages there are.
Goings ==
    /\ goes \in 0..MaxGoes /\ here \in Routes /\ route \in Routes
    /\ going \in Routes \cup {"nowhere"}
    /\ later \in Seq(AnySwap)

\* The scope that is open is of the page on the screen, or of one mounted into another's markup.
Mounts ==
    /\ mounts \in Seq(AnyMount) /\ Len(mounts) \in Nat /\ mounted \in 0..Len(mounts)
    /\ Makings(calls, mounted, Len(mounts))
    /\ go # "there" => mounted = 0
    /\ mounted > 0 => mounts[mounted].of = route \/ mounts[mounted].into # mounts[mounted].of

\* The islands in the document that are registered were set up, once.
SetUpOnce == setUp = [e \in Shell \cup Islands[route] |-> IF e \in names THEN 1 ELSE 0]

\* What is traced, or waits, is the newest navigation, and it is not over.
Tellings ==
    /\ told \in [1..MaxGoes -> {"no", "pending", "sent", "lost"}]
    /\ \A n \in 1..MaxGoes : n > goes => told[n] = "no"
    /\ trace \in Nat
    /\ trace # 0 => trace = goes /\ told[goes] = "no"
    /\ going # "nowhere" => goes > 0 /\ told[goes] = "no"

PageInv == Goings /\ Mounts /\ SetUpOnce /\ Tellings

\* What a step's new makings join is under way.
Joined ==
    \A i \in Len(calls) + 1..Len(calls') :
        calls'[i].joins # 0 => calls'[i].joins = goes' /\ told[goes'] = "no"

LEMMA NothingNew ==
    ASSUME Mounts, UNCHANGED calls
    PROVE  Joined
BY DEF Joined, Mounts, Makings

\* What joins the trace joins what is under way.
LEMMA WhatIsRemadeJoins ==
    ASSUME NEW joins \in Nat, Remade(calls, joins), joins # 0 => joins = goes' /\ told[goes'] = "no"
    PROVE  Joined
BY DEF Remade, Joined

\* A swap keeps the scopes and the islands as they should be, whatever page it brings.
LEMMA SwapKeeps ==
    ASSUME NEW r \in Routes, NEW joins \in Nat, Mounts, SetUpOnce, route \in Routes,
           Swap(r, joins), UNCHANGED <<go, names>>
    PROVE  Mounts' /\ SetUpOnce' /\ Remade(calls, joins)
<1>1. /\ Remade(calls, joins)
      /\ go # "there" => mounted' = 0
      /\ mounted' > 0 => mounts'[mounted'].of = r \/ mounts'[mounted'].into # mounts'[mounted'].of
  <2>1. /\ mounts \in Seq(AnyMount) /\ mounted \in 0..Len(mounts) /\ (go # "there" => mounted = 0)
        /\ (mounted > 0 => mounts[mounted].of = route \/ mounts[mounted].into # mounts[mounted].of)
        /\ Makings(calls, mounted, Len(mounts)) /\ Remounted(r, joins)
    BY DEF Mounts, Swap
  <2> QED
    BY ONLY <2>1, r \in Routes, joins \in Nat, RemountedKeeps
<1>2. route' = r /\ go' = go
  BY DEF Swap
<1>3. Mounts'
  <2>1. mounted' > 0 => mounts'[mounted'].of = route' \/ mounts'[mounted'].into # mounts'[mounted'].of
    BY <1>1, <1>2
  <2> QED
    BY <1>1, <1>2, <2>1 DEF Mounts, Remade
<1>4. SetUpOnce'
  <2> DEFINE fresh == [e \in Shell \cup Islands[r] |-> IF e \in Shell THEN setUp[e] ELSE 0]
  <2>1. \A e \in Shell \cup Islands[r] :
           fresh[e] = IF e \in Shell THEN (IF e \in names THEN 1 ELSE 0) ELSE 0
    BY DEF SetUpOnce
  <2>2. setUp' = Hydrated(Islands[r], fresh, names)
    BY DEF Swap, Swapped
  <2>3. DOMAIN fresh = Shell \cup Islands[r]
    OBVIOUS
  <2> HIDE DEF fresh
  <2>4. setUp' = [e \in Shell \cup Islands[r] |->
                    IF e \in Islands[r] \cap names /\ fresh[e] = 0 THEN 1 ELSE fresh[e]]
    BY <2>2, <2>3 DEF Hydrated
  <2>5. \A e \in Shell \cup Islands[r] :
           (IF e \in Islands[r] \cap names /\ fresh[e] = 0 THEN 1 ELSE fresh[e])
                = IF e \in names THEN 1 ELSE 0
    BY <2>1
  <2>6. setUp' = [e \in Shell \cup Islands[r] |-> IF e \in names THEN 1 ELSE 0]
    BY <2>4, <2>5
  <2> QED
    BY <1>2, <2>6 DEF SetUpOnce
<1> QED
  BY <1>1, <1>3, <1>4

LEMMA PageBegins == PageInit => PageInv
<1> SUFFICES ASSUME PageInit PROVE PageInv
  OBVIOUS
<1> USE LifecycleAssumption
<1>1. Goings
  BY DEF PageInit, Goings
<1>2. Mounts
  BY DEF PageInit, Mounts, Makings
<1>3. SetUpOnce
  BY DEF PageInit, SetUpOnce
<1>4. Tellings
  BY DEF PageInit, Tellings
<1> QED
  BY <1>1, <1>2, <1>3, <1>4 DEF PageInv

\* Go comes, or does not.
LEMMA GoKeeps ==
    ASSUME PageInv, GoRuns \/ GoFails
    PROVE  PageInv' /\ Joined
<1>1. UNCHANGED <<booting, here, route, goes, going, later, mounted, mounts, calls, trace, told,
                  names, setUp>>
  BY DEF GoRuns, GoFails
<1>2. go' # "there" => go # "there"
  BY DEF GoRuns, GoFails
<1>3. Goings' /\ SetUpOnce' /\ Tellings'
  BY <1>1 DEF PageInv, Goings, SetUpOnce, Tellings
<1>4. Mounts'
  BY <1>1, <1>2 DEF PageInv, Mounts
<1>5. Joined
  BY <1>1, NothingNew DEF PageInv
<1> QED
  BY <1>3, <1>4, <1>5 DEF PageInv

\* The mount of the boot: into the markup that is there by now.
LEMMA BootKeeps ==
    ASSUME PageInv, Boots
    PROVE  PageInv' /\ Joined
<1>1. /\ RunMount(calls, here, route, trace)
      /\ UNCHANGED <<go, here, route, goes, going, later, trace, told, names, setUp>>
  BY DEF Boots
<1>2. /\ here \in Routes /\ route \in Routes /\ trace \in Nat
      /\ mounts \in Seq(AnyMount) /\ mounted \in 0..Len(mounts)
      /\ Makings(calls, mounted, Len(mounts))
  BY DEF PageInv, Goings, Mounts, Tellings
<1>3. /\ Remade(calls, trace)
      /\ IF go # "there" \/ Makes[here] = {}
         THEN UNCHANGED <<mounted, mounts>>
         ELSE mounted' > 0 /\ mounts'[mounted'] = [of |-> here, into |-> route]
  BY ONLY <1>1, <1>2, RunMountKeeps
<1>4. Goings' /\ SetUpOnce' /\ Tellings'
  BY <1>1 DEF PageInv, Goings, SetUpOnce, Tellings
<1>5. Mounts'
  <2>1. go' # "there" => mounted' = 0
    BY <1>1, <1>3 DEF PageInv, Mounts
  <2>2. mounted' > 0 =>
           mounts'[mounted'].of = route' \/ mounts'[mounted'].into # mounts'[mounted'].of
    <3>1. CASE go # "there" \/ Makes[here] = {}
      BY <1>1, <1>3, <3>1 DEF PageInv, Mounts
    <3>2. CASE ~(go # "there" \/ Makes[here] = {})
      BY <1>1, <1>3, <3>2
    <3> QED
      BY <3>1, <3>2
  <2> QED
    BY <1>3, <2>1, <2>2 DEF Mounts, Remade
<1>6. Joined
  <2>1. trace # 0 => trace = goes' /\ told[goes'] = "no"
    BY <1>1 DEF PageInv, Tellings
  <2> QED
    BY ONLY <1>2, <1>3, <2>1, WhatIsRemadeJoins
<1> QED
  BY <1>4, <1>5, <1>6 DEF PageInv

\* An island that is registered late is set up where it is.
LEMMA RegistersKeeps ==
    ASSUME PageInv, NEW e, Registers(e)
    PROVE  PageInv' /\ Joined
<1>1. /\ names' = names \cup {e} /\ setUp' = Hydrated(DOMAIN setUp, setUp, names')
      /\ UNCHANGED <<go, booting, here, route, goes, going, later, mounted, mounts, calls, trace,
                     told>>
  BY DEF Registers
<1>2. Goings' /\ Mounts' /\ Tellings'
  BY <1>1 DEF PageInv, Goings, Mounts, Tellings
<1>3. SetUpOnce'
  <2>1. /\ DOMAIN setUp = Shell \cup Islands[route]
        /\ \A f \in Shell \cup Islands[route] : setUp[f] = IF f \in names THEN 1 ELSE 0
    BY DEF PageInv, SetUpOnce
  <2>2. setUp' = [f \in Shell \cup Islands[route] |->
                    IF f \in DOMAIN setUp \cap names' /\ setUp[f] = 0 THEN 1 ELSE setUp[f]]
    BY <1>1, <2>1 DEF Hydrated
  <2>3. \A f \in Shell \cup Islands[route] :
           (IF f \in DOMAIN setUp \cap names' /\ setUp[f] = 0 THEN 1 ELSE setUp[f])
                = IF f \in names' THEN 1 ELSE 0
    BY <1>1, <2>1
  <2>4. setUp' = [f \in Shell \cup Islands[route] |-> IF f \in names' THEN 1 ELSE 0]
    BY <2>2, <2>3
  <2> QED
    BY <1>1, <2>4 DEF SetUpOnce
<1>4. Joined
  BY <1>1, NothingNew DEF PageInv
<1> QED
  BY <1>2, <1>3, <1>4 DEF PageInv

\* A navigation that has what it shows: it is over with this, and what it swaps now joins it.
LEMMA ShowsKeeps ==
    ASSUME PageInv, NEW n \in 1..MaxGoes, NEW r \in Routes,
           NEW until \in {"now", "transition", "styles"}, Shows(n, r, until),
           goes' = n, n >= goes, told[n] = "no", UNCHANGED <<go, names>>
    PROVE  PageInv' /\ Joined
<1>1. /\ here' = r /\ going' = "nowhere"
      /\ told' = [told EXCEPT ![n] = "pending"] /\ trace' = 0
  BY DEF Shows, Finished
<1>2. /\ goes \in 0..MaxGoes /\ MaxGoes \in Nat /\ n \in Nat /\ route \in Routes
      /\ "nowhere" \notin Routes
  BY LifecycleAssumption DEF PageInv, Goings
<1>3. Tellings'
  <2>1. told' \in [1..MaxGoes -> {"no", "pending", "sent", "lost"}]
    BY <1>1 DEF PageInv, Tellings
  <2>2. \A m \in 1..MaxGoes : m > n => told'[m] = "no"
    BY <1>1, <1>2 DEF PageInv, Tellings
  <2> QED
    BY <1>1, <2>1, <2>2 DEF Tellings
<1>4. CASE until = "now"
  <2>1. Swap(r, n) /\ later' = later
    BY <1>4 DEF Shows
  <2>2. Mounts /\ SetUpOnce /\ n \in Nat /\ route \in Routes
    BY <1>2 DEF PageInv
  <2>3. Mounts' /\ SetUpOnce' /\ Remade(calls, n)
    BY ONLY <2>1, <2>2, r \in Routes, UNCHANGED <<go, names>>, SwapKeeps
  <2>4. Goings'
    BY <1>1, <1>2, <2>1 DEF PageInv, Goings, Swap
  <2>5. Joined
    <3>1. n # 0 => n = goes' /\ told[goes'] = "no"
      OBVIOUS
    <3> QED
      BY ONLY <2>2, <2>3, <3>1, WhatIsRemadeJoins
  <2> QED
    BY <1>3, <2>3, <2>4, <2>5 DEF PageInv
<1>5. CASE until # "now"
  <2> DEFINE s == [by |-> n, to |-> r, until |-> until]
  <2>1. later' = Append(later, s) /\ UNCHANGED <<route, mounted, mounts, calls, setUp>>
    BY <1>5 DEF Shows
  <2>2. s \in AnySwap
    BY <1>5 DEF AnySwap
  <2>3. later' \in Seq(AnySwap)
    <3> HIDE DEF s
    <3> QED
      BY <2>1, <2>2 DEF PageInv, Goings
  <2>4. Goings'
    BY <1>1, <1>2, <2>1, <2>3 DEF Goings
  <2>5. Mounts' /\ SetUpOnce'
    BY <2>1 DEF PageInv, Mounts, SetUpOnce
  <2>6. Joined
    BY <2>1, NothingNew DEF PageInv
  <2> QED
    BY <1>3, <2>4, <2>5, <2>6 DEF PageInv
<1> QED
  BY <1>4, <1>5

LEMMA NavigatesKeeps ==
    ASSUME PageInv, NEW r \in Routes, NEW until \in {"now", "transition", "styles"},
           Navigates(r, until)
    PROVE  PageInv' /\ Joined
<1>1. goes < MaxGoes /\ goes' = goes + 1 /\ Shows(goes', r, until) /\ UNCHANGED <<go, names>>
  BY DEF Navigates
<1>2. goes \in 0..MaxGoes /\ MaxGoes \in Nat
  BY LifecycleAssumption DEF PageInv, Goings
<1>3. goes' \in 1..MaxGoes /\ goes' >= goes /\ told[goes'] = "no"
  BY <1>1, <1>2 DEF PageInv, Tellings
<1> QED
  BY <1>1, <1>3, ShowsKeeps

LEMMA ArrivesKeeps ==
    ASSUME PageInv, NEW until \in {"now", "transition", "styles"}, Arrives(until)
    PROVE  PageInv' /\ Joined
<1>1. going \in Routes /\ Shows(goes, going, until) /\ UNCHANGED <<go, names>> /\ goes' = goes
  BY DEF Arrives
<1>2. goes \in 0..MaxGoes /\ MaxGoes \in Nat /\ going # "nowhere"
  BY <1>1, LifecycleAssumption DEF PageInv, Goings
<1>3. goes \in 1..MaxGoes /\ goes >= goes /\ told[goes] = "no"
  BY <1>2 DEF PageInv, Tellings
<1> QED
  BY <1>1, <1>3, ShowsKeeps

LEMMA AsksKeeps ==
    ASSUME PageInv, NEW r \in Routes, NEW push \in BOOLEAN, Asks(r, push)
    PROVE  PageInv' /\ Joined
<1>1. /\ goes < MaxGoes /\ goes' = goes + 1 /\ trace' = goes' /\ going' = r
      /\ here' = (IF push THEN here ELSE r)
      /\ UNCHANGED <<go, booting, route, later, mounted, mounts, calls, told, names, setUp>>
  BY DEF Asks
<1>2. goes \in 0..MaxGoes /\ MaxGoes \in Nat
  BY LifecycleAssumption DEF PageInv, Goings
<1>3. Goings'
  BY <1>1, <1>2 DEF PageInv, Goings
<1>4. Mounts' /\ SetUpOnce'
  BY <1>1 DEF PageInv, Mounts, SetUpOnce
<1>5. Tellings'
  <2>1. goes' \in 1..MaxGoes /\ goes' > goes /\ goes' \in Nat
    BY <1>1, <1>2
  <2>2. told[goes'] = "no" /\ \A m \in 1..MaxGoes : m > goes' => m > goes
    BY <1>2, <2>1 DEF PageInv, Tellings
  <2> QED
    BY <1>1, <2>1, <2>2 DEF PageInv, Tellings
<1>6. Joined
  BY <1>1, NothingNew DEF PageInv
<1> QED
  BY <1>3, <1>4, <1>5, <1>6 DEF PageInv

\* A swap that was put off joins the trace of the moment, not of the navigation it is of.
LEMMA SwapsLaterKeeps ==
    ASSUME PageInv, SwapsLater
    PROVE  PageInv' /\ Joined
<1>1. PICK i \in 1..Len(later) :
        LET s == later[i]
        IN  /\ later' = [j \in 1..Len(later) - 1 |-> IF j < i THEN later[j] ELSE later[j + 1]]
            /\ IF s.until = "styles" /\ s.by # goes
               THEN UNCHANGED <<route, mounted, mounts, calls, setUp>>
               ELSE Swap(s.to, trace)
            /\ UNCHANGED <<go, booting, here, goes, going, trace, told, names>>
  BY DEF SwapsLater
<1>2. later \in Seq(AnySwap) /\ Len(later) \in Nat
  BY DEF PageInv, Goings
<1>3. later' \in Seq(AnySwap)
  <2>1. Len(later) - 1 \in Nat
    BY <1>2
  <2>2. \A j \in 1..Len(later) - 1 : (IF j < i THEN later[j] ELSE later[j + 1]) \in AnySwap
    BY <1>2
  <2>3. later' = [j \in 1..Len(later) - 1 |-> IF j < i THEN later[j] ELSE later[j + 1]]
    BY <1>1
  <2> QED
    BY <2>1, <2>2, <2>3
<1>4. later[i].to \in Routes
  <2>1. later[i] \in AnySwap
    BY <1>2
  <2> QED
    BY <2>1 DEF AnySwap
<1>5. UNCHANGED <<go, booting, here, goes, going, trace, told, names>>
  BY <1>1
<1>6. Tellings'
  BY <1>5 DEF PageInv, Tellings
<1>7. CASE later[i].until = "styles" /\ later[i].by # goes
  <2>1. UNCHANGED <<route, mounted, mounts, calls, setUp>>
    BY <1>1, <1>7
  <2>2. Goings' /\ Mounts' /\ SetUpOnce'
    BY <1>3, <1>5, <2>1 DEF PageInv, Goings, Mounts, SetUpOnce
  <2>3. Joined
    BY <2>1, NothingNew DEF PageInv
  <2> QED
    BY <1>6, <2>2, <2>3 DEF PageInv
<1>8. CASE ~(later[i].until = "styles" /\ later[i].by # goes)
  <2>1. Swap(later[i].to, trace)
    BY <1>1, <1>8
  <2>2. Mounts /\ SetUpOnce /\ trace \in Nat /\ route \in Routes /\ UNCHANGED <<go, names>>
    BY <1>5 DEF PageInv, Tellings, Goings
  <2>3. Mounts' /\ SetUpOnce' /\ Remade(calls, trace)
    BY ONLY <1>4, <2>1, <2>2, SwapKeeps
  <2>4. Goings'
    BY <1>3, <1>4, <1>5, <2>1 DEF PageInv, Goings, Swap
  <2>5. Joined
    <3>1. trace # 0 => trace = goes' /\ told[goes'] = "no"
      BY <1>5 DEF PageInv, Tellings
    <3> QED
      BY ONLY <2>2, <2>3, <3>1, WhatIsRemadeJoins
  <2> QED
    BY <1>6, <2>3, <2>4, <2>5 DEF PageInv
<1> QED
  BY <1>7, <1>8

\* What becomes of a making: it stays live, and it is the same one's.
LEMMA BecomesKeeps ==
    ASSUME PageInv, NEW i \in 1..Len(calls), NEW c \in AnyCall, Live(c, mounted, Len(mounts)),
           Becomes(i, c)
    PROVE  PageInv' /\ Joined
<1>1. /\ calls' = [calls EXCEPT ![i] = c]
      /\ UNCHANGED <<go, booting, here, route, goes, going, later, mounted, mounts, trace, told,
                     names, setUp>>
  BY DEF Becomes
<1>2. Goings' /\ SetUpOnce' /\ Tellings'
  BY <1>1 DEF PageInv, Goings, SetUpOnce, Tellings
<1>3. /\ calls \in Seq(AnyCall) /\ Len(calls) \in Nat
      /\ \A j \in 1..Len(calls) : Live(calls[j], mounted, Len(mounts))
  BY DEF PageInv, Mounts, Makings
<1>4. calls' \in Seq(AnyCall) /\ Len(calls') = Len(calls)
  BY <1>1, <1>3
<1>5. \A j \in 1..Len(calls) : calls'[j] = IF j = i THEN c ELSE calls[j]
  BY <1>1, <1>3
<1>6. Makings(calls', mounted', Len(mounts'))
  <2>1. ASSUME NEW j \in 1..Len(calls') PROVE Live(calls'[j], mounted', Len(mounts'))
    <3>1. Live(calls'[j], mounted, Len(mounts))
      BY <1>3, <1>4, <1>5
    <3> QED
      BY <1>1, <3>1
  <2> QED
    BY <1>4, <2>1 DEF Makings
<1>7. Mounts'
  BY <1>1, <1>6 DEF PageInv, Mounts
<1>8. Joined
  BY <1>3, <1>4 DEF Joined
<1> QED
  BY <1>2, <1>7, <1>8 DEF PageInv

LEMMA CallsKeep ==
    ASSUME PageInv, NEW i \in 1..Len(calls),
           TakenOff(i) \/ LastFrame(i) \/ GivenUp(i) \/ Settles(i)
    PROVE  PageInv' /\ Joined
<1> DEFINE c == calls[i]
<1>1. c \in AnyCall /\ Live(c, mounted, Len(mounts))
  BY DEF PageInv, Mounts, Makings
<1>2. c.held /\ c.released = 0 /\ c.released <= 1 /\ (c.held <=> c.released = 0)
  BY <1>1 DEF TakenOff, LastFrame, GivenUp, Settles, Live, AnyCall
<1>3. CASE TakenOff(i) \/ Settles(i)
  <2> DEFINE d == Release(c)
  <2>1. Becomes(i, d)
    BY <1>3 DEF TakenOff, Settles
  <2> HIDE DEF c
  <2>2. d \in AnyCall /\ d.released = 1 /\ ~d.held /\ d.kind = c.kind /\ d.mount = c.mount
    BY <1>1, <1>2, Released
  <2> HIDE DEF d
  <2>3. Live(d, mounted, Len(mounts))
    BY <1>1, <2>2 DEF Live
  <2> QED
    BY <2>1, <2>2, <2>3, BecomesKeeps
<1>4. CASE LastFrame(i)
  <2> DEFINE d == [c EXCEPT !.held = FALSE, !.released = @ + 1]
  <2>1. Becomes(i, d)
    BY <1>4 DEF LastFrame
  <2> HIDE DEF c
  <2>2. d \in AnyCall
    <3> DEFINE e == [c EXCEPT !.held = FALSE]
    <3>1. e \in AnyCall /\ e.released \in Nat /\ d = [e EXCEPT !.released = @ + 1]
      BY <1>1 DEF AnyCall
    <3> HIDE DEF d, e
    <3> QED
      BY <3>1 DEF AnyCall
  <2>3. d.released = 1 /\ ~d.held /\ d.kind = c.kind /\ d.mount = c.mount
    BY <1>1, <1>2 DEF AnyCall
  <2> HIDE DEF d
  <2>4. Live(d, mounted, Len(mounts))
    BY <1>1, <2>3 DEF Live
  <2> QED
    BY <2>1, <2>2, <2>4, BecomesKeeps
<1>5. CASE GivenUp(i)
  <2> DEFINE d == [c EXCEPT !.awaited = FALSE]
  <2>1. Becomes(i, d)
    BY <1>5 DEF GivenUp
  <2> HIDE DEF c
  <2>2. d \in AnyCall
    BY <1>1 DEF AnyCall
  <2>3. d.released = c.released /\ d.held = c.held /\ d.kind = c.kind /\ d.mount = c.mount
    BY <1>1 DEF AnyCall
  <2> HIDE DEF d
  <2>4. Live(d, mounted, Len(mounts))
    BY <1>1, <2>3 DEF Live
  <2> QED
    BY <2>1, <2>2, <2>4, BecomesKeeps
<1> QED
  BY <1>3, <1>4, <1>5

\* A report takes what is over, so never what is traced, or waits.
LEMMA ReportsKeeps ==
    ASSUME PageInv, NEW how \in {"sent", "lost"}, Reports(how)
    PROVE  PageInv' /\ Joined
<1>1. /\ told' = [n \in 1..MaxGoes |-> IF told[n] = "pending" THEN how ELSE told[n]]
      /\ UNCHANGED <<go, booting, here, route, goes, going, later, mounted, mounts, calls, trace,
                     names, setUp>>
  BY DEF Reports
<1>2. Goings' /\ Mounts' /\ SetUpOnce'
  BY <1>1 DEF PageInv, Goings, Mounts, SetUpOnce
<1>3. Tellings'
  <2>1. told' \in [1..MaxGoes -> {"no", "pending", "sent", "lost"}]
    BY <1>1 DEF PageInv, Tellings
  <2>2. \A n \in 1..MaxGoes : told[n] = "no" => told'[n] = "no"
    BY <1>1
  <2>3. goes \in 0..MaxGoes /\ MaxGoes \in Nat
    BY LifecycleAssumption DEF PageInv, Goings
  <2>4. \A n \in 1..MaxGoes : n > goes' => told'[n] = "no"
    BY <1>1, <2>2 DEF PageInv, Tellings
  <2>5. (trace' # 0 => trace' = goes' /\ told'[goes'] = "no") /\ trace' \in Nat
    BY <1>1, <2>2, <2>3 DEF PageInv, Tellings
  <2>6. going' # "nowhere" => goes' > 0 /\ told'[goes'] = "no"
    BY <1>1, <2>2, <2>3 DEF PageInv, Tellings
  <2> QED
    BY <2>1, <2>4, <2>5, <2>6 DEF Tellings
<1>4. Joined
  BY <1>1, NothingNew DEF PageInv
<1> QED
  BY <1>2, <1>3, <1>4 DEF PageInv

LEMMA PageIsKept == PageInv /\ [PageNext]_pageVars => PageInv' /\ Joined
<1> SUFFICES ASSUME PageInv, [PageNext]_pageVars PROVE PageInv' /\ Joined
  OBVIOUS
<1>1. CASE GoRuns \/ GoFails
  BY <1>1, GoKeeps
<1>2. CASE Boots
  BY <1>2, BootKeeps
<1>3. CASE SwapsLater
  BY <1>3, SwapsLaterKeeps
<1>4. CASE \E e \in Shell \cup UNION {Islands[r] : r \in Routes} : Registers(e)
  BY <1>4, RegistersKeeps
<1>5. CASE \E until \in {"now", "transition", "styles"} :
              Arrives(until) \/ \E r \in Routes : Navigates(r, until)
  BY <1>5, ArrivesKeeps, NavigatesKeeps
<1>6. CASE \E r \in Routes, push \in BOOLEAN : Asks(r, push)
  BY <1>6, AsksKeeps
<1>7. CASE \E i \in 1..Len(calls) : TakenOff(i) \/ LastFrame(i) \/ GivenUp(i) \/ Settles(i)
  BY <1>7, CallsKeep
<1>8. CASE \E how \in {"sent", "lost"} : Reports(how)
  BY <1>8, ReportsKeeps
<1>9. CASE UNCHANGED pageVars
  <2>1. Goings' /\ Mounts' /\ SetUpOnce' /\ Tellings'
    BY <1>9 DEF pageVars, PageInv, Goings, Mounts, SetUpOnce, Tellings
  <2>2. Joined
    BY <1>9, NothingNew DEF pageVars, PageInv
  <2> QED
    BY <2>1, <2>2 DEF PageInv
<1> QED
  BY <1>1, <1>2, <1>3, <1>4, <1>5, <1>6, <1>7, <1>8, <1>9 DEF PageNext

\* NothingIsLeftBehind: no call into Go is lost or made after its release, nothing but the page that
\* was mounted last listens or draws, and every registered island of the document was set up, once:
\* howlMount and howlUnmount of wasm/main.go, the scope of core/dom, swap and hydrate of app.js.
THEOREM NothingIsLeft == PageSpec => []NothingIsLeftBehind
<1>1. PageInv => NothingIsLeftBehind
  <2> SUFFICES ASSUME PageInv PROVE NothingIsLeftBehind
    OBVIOUS
  <2>1. \A i \in 1..Len(calls) : Live(calls[i], mounted, Len(mounts))
    BY DEF PageInv, Mounts, Makings
  <2>2. CallsAreLive
    BY <2>1 DEF CallsAreLive, Live
  <2>3. \A i \in 1..Len(calls) :
          calls[i].held /\ calls[i].kind # "fetch" => calls[i].mount = mounted
    BY <2>1 DEF Live
  <2>4. mounted > 0 => mounts[mounted].of = route \/ mounts[mounted].into # mounts[mounted].of
    BY DEF PageInv, Mounts
  <2>5. \A e \in DOMAIN setUp : setUp[e] = IF e \in names THEN 1 ELSE 0
    BY DEF PageInv, SetUpOnce
  <2> QED
    BY <2>2, <2>3, <2>4, <2>5 DEF NothingIsLeftBehind, PageIsAlone
<1>2. PageInv /\ [PageNext]_pageVars => PageInv'
  BY PageIsKept
<1> QED
  BY <1>1, <1>2, PageBegins, PTL DEF PageSpec

\* NavigationsAreToldOnce: a fetch of a hook joins the navigation that is under way, never one that
\* is over, and a navigation is reported once: finish and report of app.js.
THEOREM NavigationsAreTold == PageSpec => NavigationsAreToldOnce
<1> DEFINE Once == \A n \in 1..MaxGoes : told[n] # "twice" /\ (n > goes => told[n] = "no")
<1>1. PageInv => Once
  BY DEF PageInv, Tellings
<1>2. PageInv /\ [PageNext]_pageVars => PageInv'
  BY PageIsKept
<1>3. PageInv /\ [PageNext]_pageVars =>
        [\A i \in Len(calls) + 1..Len(calls') :
            calls'[i].joins # 0 => calls'[i].joins = goes' /\ told[goes'] = "no"]_pageVars
  BY PageIsKept DEF Joined
<1> HIDE DEF Once
<1>4. PageSpec => []PageInv
  BY <1>2, PageBegins, PTL DEF PageSpec
<1>5. PageSpec => []Once
  BY <1>1, <1>4, PTL
<1>6. PageSpec => [][\A i \in Len(calls) + 1..Len(calls') :
             calls'[i].joins # 0 => calls'[i].joins = goes' /\ told[goes'] = "no"]_pageVars
  BY <1>3, <1>4, PTL DEF PageSpec
<1> QED
  BY <1>5, <1>6 DEF NavigationsAreToldOnce, Once

-----------------------------------------------------------------------------
(* The client router.                                                       *)

RouterSwap == [url : Urls, page : Urls, version : Nat, floor : Nat, way : Ways, push : BOOLEAN,
               via : BOOLEAN, by : Nat]
Pending == [swap : RouterSwap, at : {"transition", "styles"}]

NavTypes ==
    /\ site \in Nat \ {0} /\ world \in Worlds /\ born \in Nat /\ stale \in BOOLEAN
    /\ location \in Urls /\ outlet \in RouterSwap /\ seq \in Nat /\ swaps \in Seq(Pending)
    /\ cache \in [Urls -> [page : Urls, version : Nat, old : BOOLEAN]]
    /\ inflight \in [Urls -> Nat]
    /\ data \in [Urls -> [at : {"none", "asked", "kept"}, version : Nat]]
    /\ nav \in [at : {"none", "rendering", "cold", "revalidating"}, url : Urls, push : BOOLEAN,
                via : BOOLEAN, floor : Nat, joined : BOOLEAN, hit : Nat]

\* What is shown, or is about to be, is a page at its own address, as fresh as it was asked to be, and
\* of the build of the document.
ShowsIn(s, newest, deploys, build) ==
    /\ s.page = s.url /\ s.by <= newest
    /\ s.way \in {"cold", "hit"} =>
          s.version >= s.floor /\ ~\E d \in deploys : build < d /\ d <= s.version

AllShow == /\ ShowsIn(outlet, seq, world.deploys, born)
           /\ \A i \in 1..Len(swaps) : ShowsIn(swaps[i].swap, seq, world.deploys, born)

\* What is cached is of its page, and of the document's build until the document knows of another.
CacheIsOfPages ==
    \A u \in Urls : cache[u].version > 0 =>
        cache[u].page = u /\ (~stale => ~OtherBuild(cache[u].version))

AtRest == nav.at \notin {"cold", "rendering"}

\* A navigation that waits has its fetch, which was sent since it was called or before; nothing of
\* it is shown; and where it does not push, the address is there already.
NavWaits ==
    /\ nav.at = "cold" =>
          inflight[nav.url] > 0 /\ (~nav.joined => inflight[nav.url] >= nav.floor)
    /\ ~AtRest =>
          /\ nav.push \/ (location = nav.url /\ nav.url \in Entries)
          /\ nav.via \in world.animated
          /\ \A i \in 1..Len(swaps) : swaps[i].swap.by < seq

\* A swap waits for a transition when its navigation asked for one.
AnimatedAsAsked ==
    \A i \in 1..Len(swaps) :
        swaps[i].at = "transition" => swaps[i].swap.via /\ TRUE \in world.animated

FitsIn(s, address) == s.url = address \/ (~s.push /\ s.url \in Guards[address])
OvertakesIn(s, newest, animated) == s.via /\ s.by < newest /\ s.page \notin Styled /\ animated = BOOLEAN

\* Once the newest navigation is shown or about to be, nothing else is shown after it, but for what an
\* older transition shows where some navigations have one and some have none.
NewestWins ==
    AtRest =>
        /\ \A i \in 1..Len(swaps) : swaps[i].swap.by = seq => FitsIn(swaps[i].swap, location)
        /\ world.animated # BOOLEAN =>
              \A i \in 1..Len(swaps) : swaps[i].at = "transition" /\ swaps[i].swap.by # seq =>
                 \E j \in 1..Len(swaps) : j > i /\ swaps[j].at = "transition" /\ swaps[j].swap.by = seq
        /\ (\A i \in 1..Len(swaps) : swaps[i].swap.by # seq) =>
              FitsIn(outlet, location) \/ OvertakesIn(outlet, seq, world.animated)

NavInv == NavTypes /\ AllShow /\ CacheIsOfPages /\ NavWaits /\ AnimatedAsAsked

-----------------------------------------------------------------------------
\* A swap that is shown now or joins those that wait.
LEMMA ShownAdds ==
    ASSUME NavTypes, NEW url \in Urls, NEW pg \in Urls, NEW v \in Nat, NEW floor \in Nat,
           NEW way \in Ways, NEW push \in BOOLEAN, NEW via \in BOOLEAN, seq' \in Nat,
           Shown(url, pg, v, floor, way, push, via)
    PROVE  LET swap == [url |-> url, page |-> pg, version |-> v, floor |-> floor, way |-> way,
                        push |-> push, via |-> via, by |-> seq']
           IN /\ swap \in RouterSwap
              /\ \/ /\ outlet' = outlet /\ swaps' \in Seq(Pending) /\ Len(swaps') = Len(swaps) + 1
                    /\ \A i \in 1..Len(swaps) : swaps'[i] = swaps[i]
                    /\ swaps'[Len(swaps) + 1].swap = swap
                    /\ swaps'[Len(swaps) + 1].at = IF via THEN "transition" ELSE "styles"
                 \/ ~via /\ swaps' = swaps /\ outlet' = swap
<1> DEFINE swap == [url |-> url, page |-> pg, version |-> v, floor |-> floor, way |-> way,
                    push |-> push, via |-> via, by |-> seq']
           next == [swap |-> swap, at |-> IF via THEN "transition" ELSE "styles"]
<1>1. swap \in RouterSwap
  BY DEF RouterSwap
<1>2. next \in Pending /\ next.swap = swap /\ next.at = IF via THEN "transition" ELSE "styles"
  BY <1>1 DEF Pending
<1>3. \/ swaps' = Append(swaps, next) /\ outlet' = outlet
      \/ ~via /\ swaps' = swaps /\ outlet' = swap
  BY DEF Shown
<1> HIDE DEF next, swap
<1>4. swaps \in Seq(Pending)
  BY DEF NavTypes
<1>5. /\ Append(swaps, next) \in Seq(Pending) /\ Len(Append(swaps, next)) = Len(swaps) + 1
      /\ Append(swaps, next)[Len(swaps) + 1] = next
      /\ \A i \in 1..Len(swaps) : Append(swaps, next)[i] = swaps[i]
  BY <1>2, <1>4, AppendProperties
<1> QED
  BY <1>1, <1>2, <1>3, <1>5 DEF swap

LEMMA LengthIsNat == ASSUME NavTypes PROVE Len(swaps) \in Nat
BY LenProperties DEF NavTypes

LEMMA SwapsAreTyped ==
    ASSUME NavTypes, NEW i \in 1..Len(swaps)
    PROVE  swaps[i] \in Pending /\ swaps[i].swap \in RouterSwap /\ swaps[i].at \in {"transition", "styles"}
<1>1. swaps[i] \in Pending
  BY ElementOfSeq DEF NavTypes
<1> QED
  BY <1>1 DEF Pending

\* What is shown stays right while navigations begin.
LEMMA ShowsStays ==
    ASSUME NEW s \in RouterSwap, NEW n \in Nat, NEW m \in Nat, n <= m, NEW deploys, NEW build,
           ShowsIn(s, n, deploys, build)
    PROVE  ShowsIn(s, m, deploys, build)
BY DEF RouterSwap, ShowsIn

\* Where the navigations are alike, one without a transition says that none has one.
LEMMA AlikeIsOne ==
    ASSUME NEW w \in Worlds, w.animated # BOOLEAN, FALSE \in w.animated
    PROVE  TRUE \notin w.animated
BY NavAssumption

\* The newest navigation is shown, or a refresh of what it shows.
LEMMA ShowKeeps ==
    ASSUME NavInv, NEW url \in Urls, NEW v \in Nat, NEW floor \in Nat,
           NEW way \in Ways, NEW push \in BOOLEAN, NEW via \in BOOLEAN,
           Shown(url, url, v, floor, way, push, via),
           UNCHANGED <<world, born>>, seq' \in {seq, seq + 1}, AtRest',
           url = location' \/ (~push /\ url \in Guards[location']),
           way \in {"cold", "hit"} => v >= floor /\ ~OtherBuild(v),
           \/ via \in world.animated /\ \A i \in 1..Len(swaps) : swaps[i].swap.by < seq'
           \/ ~via /\ AtRest /\ location' = location /\ seq' = seq /\ NewestWins
    PROVE  /\ outlet' \in RouterSwap /\ swaps' \in Seq(Pending)
           /\ AllShow' /\ AnimatedAsAsked' /\ NewestWins'
<1> DEFINE swap == [url |-> url, page |-> url, version |-> v, floor |-> floor, way |-> way,
                    push |-> push, via |-> via, by |-> seq']
           n == Len(swaps)
<1>1. NavTypes /\ n \in Nat /\ seq \in Nat /\ seq' \in Nat /\ outlet \in RouterSwap /\ swaps \in Seq(Pending)
      /\ world \in Worlds
  <2>1. NavTypes
    BY DEF NavInv
  <2>2. seq \in Nat /\ outlet \in RouterSwap /\ swaps \in Seq(Pending) /\ world \in Worlds
    BY <2>1 DEF NavTypes
  <2>3. n \in Nat
    BY <2>1, LengthIsNat
  <2> QED
    BY <2>1, <2>2, <2>3
<1>2. /\ swap \in RouterSwap
      /\ \/ /\ outlet' = outlet /\ swaps' \in Seq(Pending) /\ Len(swaps') = n + 1
            /\ \A i \in 1..n : swaps'[i] = swaps[i]
            /\ swaps'[n + 1].swap = swap
            /\ swaps'[n + 1].at = IF via THEN "transition" ELSE "styles"
         \/ ~via /\ swaps' = swaps /\ outlet' = swap
  BY <1>1, ShownAdds
<1>3. swap.url = url /\ swap.page = url /\ swap.by = seq' /\ swap.way = way /\ swap.version = v
      /\ swap.floor = floor /\ swap.via = via /\ FitsIn(swap, location')
  BY DEF FitsIn
<1>4. ShowsIn(swap, seq', world.deploys, born)
  BY <1>1, <1>3 DEF ShowsIn, OtherBuild
<1> HIDE DEF swap
<1>5. /\ ShowsIn(outlet, seq', world.deploys, born)
      /\ \A i \in 1..n : /\ ShowsIn(swaps[i].swap, seq', world.deploys, born)
                         /\ swaps[i].swap \in RouterSwap /\ swaps[i].at \in {"transition", "styles"}
  <2>1. seq <= seq'
    BY <1>1
  <2>2. ShowsIn(outlet, seq', world.deploys, born)
    BY <1>1, <2>1, ShowsStays DEF NavInv, AllShow
  <2>3. ASSUME NEW i \in 1..n
        PROVE  /\ ShowsIn(swaps[i].swap, seq', world.deploys, born)
               /\ swaps[i].swap \in RouterSwap /\ swaps[i].at \in {"transition", "styles"}
    <3>1. ShowsIn(swaps[i].swap, seq, world.deploys, born) /\ swaps[i].swap \in RouterSwap
          /\ swaps[i].at \in {"transition", "styles"}
      BY <1>1, SwapsAreTyped DEF NavInv, AllShow
    <3> QED
      BY <1>1, <2>1, <3>1, ShowsStays
  <2> QED
    BY <2>2, <2>3
<1>6. CASE /\ outlet' = outlet /\ swaps' \in Seq(Pending) /\ Len(swaps') = n + 1
           /\ \A i \in 1..n : swaps'[i] = swaps[i]
           /\ swaps'[n + 1].swap = swap
           /\ swaps'[n + 1].at = IF via THEN "transition" ELSE "styles"
  <2>1. 1..Len(swaps') = (1..n) \cup {n + 1} /\ n + 1 \notin 1..n
    BY <1>1, <1>6
  <2>2. AllShow'
    <3>1. ShowsIn(outlet', seq', world'.deploys, born')
      BY <1>5, <1>6
    <3>2. \A i \in 1..Len(swaps') : ShowsIn(swaps'[i].swap, seq', world'.deploys, born')
      BY <1>4, <1>5, <1>6, <2>1
    <3> QED
      BY <3>1, <3>2 DEF AllShow
  <2>3. AnimatedAsAsked'
    <3>1. via => TRUE \in world.animated
      OBVIOUS
    <3>2. \A i \in 1..n : swaps[i].at = "transition" => swaps[i].swap.via /\ TRUE \in world.animated
      BY DEF NavInv, AnimatedAsAsked
    <3> QED
      BY <1>3, <1>6, <2>1, <3>1, <3>2 DEF AnimatedAsAsked
  <2>4. NewestWins'
    <3>1. ASSUME NEW i \in 1..n, swaps[i].swap.by = seq' PROVE FitsIn(swaps[i].swap, location')
      BY <1>1, <1>5, <3>1 DEF NewestWins, RouterSwap
    <3>2. ASSUME world.animated # BOOLEAN, NEW i \in 1..n, swaps[i].at = "transition", swaps[i].swap.by # seq'
          PROVE  \E j \in 1..Len(swaps') :
                    j > i /\ swaps'[j].at = "transition" /\ swaps'[j].swap.by = seq'
      <4>1. CASE via
        BY <1>1, <1>3, <1>6, <2>1, <3>2, <4>1
      <4>2. CASE ~via
        <5>1. CASE via \in world.animated
          BY <1>1, <3>2, <4>2, <5>1, AlikeIsOne DEF NavInv, AnimatedAsAsked
        <5>2. CASE ~(via \in world.animated)
          <6>1. \E j \in 1..n : j > i /\ swaps[j].at = "transition" /\ swaps[j].swap.by = seq
            BY <3>2, <5>2 DEF NewestWins
          <6> QED
            BY <1>6, <2>1, <5>2, <6>1
        <5> QED
          BY <5>1, <5>2
      <4> QED
        BY <4>1, <4>2
    <3>3. swap.by = seq' /\ FitsIn(swap, location')
      BY <1>3
    <3>4. \A i \in 1..Len(swaps') : swaps'[i].swap.by = seq' => FitsIn(swaps'[i].swap, location')
      BY <1>6, <2>1, <3>1, <3>3
    <3>5. world'.animated # BOOLEAN =>
             \A i \in 1..Len(swaps') : swaps'[i].at = "transition" /\ swaps'[i].swap.by # seq' =>
                \E j \in 1..Len(swaps') : j > i /\ swaps'[j].at = "transition" /\ swaps'[j].swap.by = seq'
      BY <1>6, <2>1, <3>2, <3>3
    <3>6. ~\A i \in 1..Len(swaps') : swaps'[i].swap.by # seq'
      BY <1>6, <2>1, <3>3
    <3> QED
      BY <3>4, <3>5, <3>6 DEF NewestWins
  <2> QED
    BY <1>1, <1>6, <2>2, <2>3, <2>4
<1>7. CASE ~via /\ swaps' = swaps /\ outlet' = swap
  <2>1. AllShow' /\ AnimatedAsAsked'
    BY <1>4, <1>5, <1>7 DEF AllShow, NavInv, AnimatedAsAsked
  <2>2. NewestWins'
    <3>1. ASSUME NEW i \in 1..n, swaps[i].swap.by = seq' PROVE FitsIn(swaps[i].swap, location')
      BY <1>1, <1>5, <3>1 DEF NewestWins, RouterSwap
    <3>2. ASSUME world.animated # BOOLEAN, NEW i \in 1..n, swaps[i].at = "transition", swaps[i].swap.by # seq'
          PROVE  \E j \in 1..n : j > i /\ swaps[j].at = "transition" /\ swaps[j].swap.by = seq'
      <4>1. CASE via \in world.animated
        BY <1>1, <1>7, <3>2, <4>1, AlikeIsOne DEF NavInv, AnimatedAsAsked
      <4>2. CASE ~(via \in world.animated)
        BY <3>2, <4>2 DEF NewestWins
      <4> QED
        BY <4>1, <4>2
    <3>3. FitsIn(outlet', location')
      BY <1>3, <1>7
    <3> QED
      BY <1>7, <3>1, <3>2, <3>3 DEF NewestWins
  <2> QED
    BY <1>1, <1>2, <1>7, <2>1, <2>2
<1> QED
  BY <1>2, <1>6, <1>7

-----------------------------------------------------------------------------
\* What leaves alone what is shown and the navigation.
LEMMA ScreenStays ==
    ASSUME NavInv, NewestWins,
           UNCHANGED <<world, born, location, outlet, seq, swaps>>, AtRest' = AtRest
    PROVE  AllShow' /\ AnimatedAsAsked' /\ NewestWins'
<1>1. AllShow' /\ AnimatedAsAsked'
  BY DEF NavInv, AllShow, AnimatedAsAsked
<1>2. NewestWins'
  BY DEF NewestWins
<1> QED
  BY <1>1, <1>2

\* A document is loaded.
LEMMA DocumentKeeps ==
    ASSUME NavInv, NEW u \in Urls, Document(u), UNCHANGED <<site, world>>, seq' \in {seq, seq + 1}
    PROVE  NavInv' /\ NewestWins'
<1>1. /\ location' = u /\ born' = site /\ stale' = FALSE /\ nav' = NoNav /\ swaps' = <<>>
      /\ outlet' = [url |-> u, page |-> u, version |-> site, floor |-> 0, way |-> "document",
                    push |-> TRUE, via |-> FALSE, by |-> seq']
      /\ cache' = [v \in Urls |-> NotCached] /\ inflight' = [v \in Urls |-> 0]
      /\ data' = [v \in Urls |-> NoData]
  BY DEF Document
<1>2. site \in Nat \ {0} /\ world \in Worlds /\ seq \in Nat /\ seq' \in Nat
  BY DEF NavInv, NavTypes
<1>3. outlet' \in RouterSwap /\ outlet'.url = u /\ outlet'.page = u /\ outlet'.way = "document"
      /\ outlet'.by = seq'
  BY <1>1, <1>2 DEF RouterSwap, Ways
<1>4. swaps' \in Seq(Pending) /\ Len(swaps') = 0
  BY <1>1, EmptySeq
<1>5. /\ nav' \in [at : {"none", "rendering", "cold", "revalidating"}, url : Urls, push : BOOLEAN,
                   via : BOOLEAN, floor : Nat, joined : BOOLEAN, hit : Nat]
      /\ nav'.at = "none"
  BY <1>1, NavAssumption DEF NoNav
<1>6. /\ cache' \in [Urls -> [page : Urls, version : Nat, old : BOOLEAN]]
      /\ \A v \in Urls : cache'[v].version = 0
  BY <1>1, NavAssumption DEF NotCached
<1>7. inflight' \in [Urls -> Nat] /\ data' \in [Urls -> [at : {"none", "asked", "kept"}, version : Nat]]
  BY <1>1 DEF NoData
<1>8. NavTypes'
  BY <1>1, <1>2, <1>3, <1>4, <1>5, <1>6, <1>7 DEF NavTypes
<1>9. AllShow'
  BY <1>2, <1>3, <1>4 DEF AllShow, ShowsIn
<1>10. CacheIsOfPages' /\ NavWaits' /\ AnimatedAsAsked'
  BY <1>4, <1>5, <1>6 DEF CacheIsOfPages, NavWaits, AtRest, AnimatedAsAsked
<1>11. NewestWins'
  BY <1>1, <1>3, <1>4 DEF NewestWins, FitsIn
<1> QED
  BY <1>8, <1>9, <1>10, <1>11 DEF NavInv

LEMMA NavBegins == NavInit => NavInv /\ NewestWins
<1> SUFFICES ASSUME NavInit PROVE NavInv /\ NewestWins
  OBVIOUS
<1>1. outlet \in RouterSwap /\ outlet.url = Home /\ outlet.page = Home /\ outlet.way = "document"
      /\ outlet.by = 0 /\ location = Home
  BY NavAssumption DEF NavInit, RouterSwap, Ways
<1>2. swaps \in Seq(Pending) /\ Len(swaps) = 0
  BY EmptySeq DEF NavInit
<1>3. /\ nav \in [at : {"none", "rendering", "cold", "revalidating"}, url : Urls, push : BOOLEAN,
                  via : BOOLEAN, floor : Nat, joined : BOOLEAN, hit : Nat]
      /\ nav.at = "none"
  BY NavAssumption DEF NavInit, NoNav
<1>4. /\ cache \in [Urls -> [page : Urls, version : Nat, old : BOOLEAN]]
      /\ \A v \in Urls : cache[v].version = 0
  BY NavAssumption DEF NavInit, NotCached
<1>5. inflight \in [Urls -> Nat] /\ data \in [Urls -> [at : {"none", "asked", "kept"}, version : Nat]]
  BY DEF NavInit, NoData
<1>6. NavTypes
  <2>1. site = 1 /\ born = 1 /\ seq = 0 /\ world \in Worlds /\ stale = FALSE
    BY DEF NavInit
  <2>2. Home \in Urls
    BY NavAssumption
  <2>3. site \in Nat \ {0} /\ born \in Nat /\ seq \in Nat
    BY <2>1
  <2>4. stale \in BOOLEAN
    BY <2>1
  <2>5. location \in Urls /\ world \in Worlds
    BY <1>1, <2>1, <2>2
  <2> QED
    BY <1>1, <1>2, <1>3, <1>4, <1>5, <2>3, <2>4, <2>5 DEF NavTypes
<1>7. AllShow
  BY <1>1, <1>2 DEF AllShow, ShowsIn, NavInit
<1>8. CacheIsOfPages /\ NavWaits /\ AnimatedAsAsked /\ NewestWins
  BY <1>1, <1>2, <1>3, <1>4 DEF CacheIsOfPages, NavWaits, AtRest, AnimatedAsAsked, NewestWins, FitsIn
<1> QED
  BY <1>6, <1>7, <1>8 DEF NavInv

-----------------------------------------------------------------------------
(* The pieces.                                                              *)

LEMMA AskingAdds ==
    ASSUME NavTypes, NEW kept, NEW u \in Urls, inflight' = Asking(kept, u)
    PROVE  /\ inflight' \in [Urls -> Nat]
           /\ \A x \in Urls : inflight[x] > 0 => inflight'[x] = inflight[x]
           /\ kept[u].version = 0 => inflight'[u] > 0 /\ (~(inflight[u] > 0) => inflight'[u] = site)
<1>1. inflight \in [Urls -> Nat] /\ site \in Nat \ {0}
  BY DEF NavTypes
<1> QED
  BY <1>1 DEF Asking

LEMMA WantingIsTyped ==
    ASSUME NavTypes, NEW u \in Urls
    PROVE  Wanting(u) \in [Urls -> [at : {"none", "asked", "kept"}, version : Nat]]
BY DEF NavTypes, Wanting

LEMMA UncachedKeeps ==
    ASSUME NavTypes, CacheIsOfPages, NEW u \in Urls, NEW fresh \in BOOLEAN, cache' = Uncached(u, fresh),
           UNCHANGED <<world, born, stale>>
    PROVE  cache' \in [Urls -> [page : Urls, version : Nat, old : BOOLEAN]] /\ CacheIsOfPages'
<1>1. NotCached \in [page : Urls, version : Nat, old : BOOLEAN] /\ NotCached.version = 0
  BY NavAssumption DEF NotCached
<1>2. cache \in [Urls -> [page : Urls, version : Nat, old : BOOLEAN]]
  BY DEF NavTypes
<1>3. cache' = cache \/ cache' = [cache EXCEPT ![u] = NotCached]
  BY DEF Uncached
<1>4. cache' \in [Urls -> [page : Urls, version : Nat, old : BOOLEAN]]
      /\ \A x \in Urls : cache'[x] = cache[x] \/ cache'[x].version = 0
  BY <1>1, <1>2, <1>3
<1> QED
  BY <1>4 DEF CacheIsOfPages, OtherBuild

LEMMA ComesKeeps ==
    ASSUME NavTypes, CacheIsOfPages, NEW u \in Urls, NEW pg \in Urls, NEW v \in Nat, Comes(u, pg, v),
           UNCHANGED <<world, born>>
    PROVE  /\ cache' \in [Urls -> [page : Urls, version : Nat, old : BOOLEAN]] /\ CacheIsOfPages'
           /\ inflight' \in [Urls -> Nat] /\ \A x \in Urls : x # u => inflight'[x] = inflight[x]
           /\ stale' \in BOOLEAN /\ v >= inflight[u]
<1>1. /\ inflight[u] > 0 /\ v \in inflight[u]..site
      /\ inflight' = [inflight EXCEPT ![u] = 0] /\ cache' = Kept(u, pg, v)
      /\ stale' = (stale \/ OtherBuild(v))
  BY DEF Comes
<1>2. /\ cache \in [Urls -> [page : Urls, version : Nat, old : BOOLEAN]] /\ inflight \in [Urls -> Nat]
      /\ site \in Nat /\ stale \in BOOLEAN
  BY DEF NavTypes
<1> DEFINE entry == [page |-> u, version |-> v, old |-> FALSE]
<1>3. entry \in [page : Urls, version : Nat, old : BOOLEAN] /\ entry.page = u /\ entry.version = v
  OBVIOUS
<1>4. cache' = cache \/ cache' = [cache EXCEPT ![u] = entry]
  BY <1>1 DEF Kept
<1> HIDE DEF entry
<1>5. cache' \in [Urls -> [page : Urls, version : Nat, old : BOOLEAN]]
      /\ \A x \in Urls : cache'[x] = cache[x] \/ (x = u /\ cache'[x] = entry)
  BY <1>2, <1>3, <1>4
<1>6. CacheIsOfPages'
  <2> SUFFICES ASSUME NEW x \in Urls, cache'[x].version > 0
               PROVE  cache'[x].page = x
                      /\ (~stale' => ~\E d \in world.deploys : born < d /\ d <= cache'[x].version)
    BY DEF CacheIsOfPages, OtherBuild
  <2>1. CASE cache'[x] = cache[x]
    BY <1>1, <2>1 DEF CacheIsOfPages, OtherBuild
  <2>2. CASE x = u /\ cache'[x] = entry
    BY <1>1, <1>3, <2>2 DEF OtherBuild
  <2> QED
    BY <1>5, <2>1, <2>2
<1>7. inflight' \in [Urls -> Nat] /\ \A x \in Urls : x # u => inflight'[x] = inflight[x]
  BY <1>1, <1>2
<1>8. stale' \in BOOLEAN
  BY <1>1
<1>9. v >= inflight[u]
  BY <1>1, <1>2
<1> QED
  BY <1>5, <1>6, <1>7, <1>8, <1>9

\* What a navigation waits with.
LEMMA WaitsWith ==
    ASSUME NavTypes, NEW at \in {"rendering", "cold"}, NEW u \in Urls, NEW push \in BOOLEAN,
           NEW fresh \in BOOLEAN, NEW via \in BOOLEAN
    PROVE  LET n == Waits(at, u, push, fresh, via) IN
           /\ n \in [at : {"none", "rendering", "cold", "revalidating"}, url : Urls, push : BOOLEAN,
                     via : BOOLEAN, floor : Nat, joined : BOOLEAN, hit : Nat]
           /\ n.at = at /\ n.url = u /\ n.push = push /\ n.via = via /\ n.floor = IF fresh THEN site ELSE 0
<1> DEFINE Type == [at : {"none", "rendering", "cold", "revalidating"}, url : Urls, push : BOOLEAN,
                    via : BOOLEAN, floor : Nat, joined : BOOLEAN, hit : Nat]
           m1 == [NoNav EXCEPT !.at = at, !.url = u]
           m2 == [m1 EXCEPT !.push = push, !.via = via]
           f == IF fresh THEN site ELSE 0
           m3 == [m2 EXCEPT !.floor = f]
<1>1. Waits(at, u, push, fresh, via) = m3
  BY DEF Waits, NoNav
<1>2. m1 \in Type /\ m1.at = at /\ m1.url = u
  BY NavAssumption DEF NoNav
<1>3. f \in Nat
  BY DEF NavTypes
<1> HIDE DEF m1, f
<1>4. m2 \in Type
  BY <1>2
<1>5. m2.at = at /\ m2.url = u /\ m2.push = push /\ m2.via = via
  BY <1>2
<1> HIDE DEF m2
<1>6. m3 \in Type
  BY <1>3, <1>4
<1>7. m3.at = at /\ m3.url = u /\ m3.push = push /\ m3.via = via /\ m3.floor = f
  BY <1>4, <1>5
<1> HIDE DEF m3
<1> QED
  BY <1>1, <1>6, <1>7 DEF f

LEMMA NoNavIsTyped ==
    /\ NoNav \in [at : {"none", "rendering", "cold", "revalidating"}, url : Urls, push : BOOLEAN,
                  via : BOOLEAN, floor : Nat, joined : BOOLEAN, hit : Nat]
    /\ NoNav.at = "none"
BY NavAssumption DEF NoNav

-----------------------------------------------------------------------------
(* What is not a navigation.                                                *)

\* The screen and the navigation stay; what is asked for is not forgotten.
LEMMA QuietKeeps ==
    ASSUME NavInv, NewestWins,
           UNCHANGED <<world, born, location, outlet, seq, swaps>>,
           nav' = nav \/ (AtRest /\ nav' = NoNav),
           site' \in Nat \ {0}, stale' \in BOOLEAN, CacheIsOfPages',
           cache' \in [Urls -> [page : Urls, version : Nat, old : BOOLEAN]],
           inflight' \in [Urls -> Nat], data' \in [Urls -> [at : {"none", "asked", "kept"}, version : Nat]],
           nav.at = "cold" => inflight'[nav.url] = inflight[nav.url] \/ ~(inflight[nav.url] > 0)
    PROVE  NavInv' /\ NewestWins'
<1>1. NavTypes /\ NavWaits
  BY DEF NavInv
<1>2. AtRest' = AtRest
  BY NoNavIsTyped DEF AtRest
<1>3. AllShow' /\ AnimatedAsAsked' /\ NewestWins'
  BY <1>2, ScreenStays
<1>4. NavTypes'
  <2>1. nav' \in [at : {"none", "rendering", "cold", "revalidating"}, url : Urls, push : BOOLEAN,
                  via : BOOLEAN, floor : Nat, joined : BOOLEAN, hit : Nat]
    BY <1>1, NoNavIsTyped DEF NavTypes
  <2> QED
    BY <1>1, <2>1 DEF NavTypes
<1>5. NavWaits'
  <2>1. CASE nav' = nav
    BY <1>1, <2>1 DEF NavWaits, AtRest
  <2>2. CASE AtRest /\ nav' = NoNav
    BY <2>2, NoNavIsTyped DEF NavWaits, AtRest
  <2> QED
    BY <2>1, <2>2
<1> QED
  BY <1>3, <1>4, <1>5 DEF NavInv

LEMMA SiteMovesKeeps ==
    ASSUME NavInv, NewestWins, SiteMoves
    PROVE  NavInv' /\ NewestWins'
<1>1. /\ site' = site + 1
      /\ UNCHANGED <<world, born, stale, location, outlet, cache, inflight, data, seq, nav, swaps>>
  BY DEF SiteMoves
<1>2. NavTypes /\ CacheIsOfPages'
  BY <1>1 DEF NavInv, CacheIsOfPages, OtherBuild
<1>3. /\ site' \in Nat \ {0} /\ stale' \in BOOLEAN
      /\ cache' \in [Urls -> [page : Urls, version : Nat, old : BOOLEAN]]
      /\ inflight' \in [Urls -> Nat] /\ data' \in [Urls -> [at : {"none", "asked", "kept"}, version : Nat]]
  BY <1>1, <1>2 DEF NavTypes
<1> QED
  BY <1>1, <1>2, <1>3, QuietKeeps

LEMMA AgesKeeps ==
    ASSUME NavInv, NewestWins, NEW u \in Urls, Ages(u)
    PROVE  NavInv' /\ NewestWins'
<1> DEFINE entry == [cache[u] EXCEPT !.old = TRUE]
<1>1. /\ cache' = [cache EXCEPT ![u] = entry]
      /\ UNCHANGED <<site, world, born, stale, location, outlet, inflight, data, seq, nav, swaps>>
  BY DEF Ages
<1>2. NavTypes /\ cache \in [Urls -> [page : Urls, version : Nat, old : BOOLEAN]]
  BY DEF NavInv, NavTypes
<1>3. entry \in [page : Urls, version : Nat, old : BOOLEAN] /\ entry.page = cache[u].page
      /\ entry.version = cache[u].version
  <2>1. cache[u] \in [page : Urls, version : Nat, old : BOOLEAN]
    BY <1>2
  <2> DEFINE kept == cache[u]
  <2>2. entry = [kept EXCEPT !.old = TRUE] /\ kept \in [page : Urls, version : Nat, old : BOOLEAN]
    BY <2>1
  <2> HIDE DEF kept, entry
  <2>3. entry \in [page : Urls, version : Nat, old : BOOLEAN] /\ entry.page = kept.page
        /\ entry.version = kept.version
    BY <2>2
  <2> QED
    BY <2>3 DEF kept
<1> HIDE DEF entry
<1>4. cache' \in [Urls -> [page : Urls, version : Nat, old : BOOLEAN]]
      /\ \A x \in Urls : cache'[x].page = cache[x].page /\ cache'[x].version = cache[x].version
  BY <1>1, <1>2, <1>3
<1>5. CacheIsOfPages'
  BY <1>1, <1>4 DEF NavInv, CacheIsOfPages, OtherBuild
<1>6. /\ site' \in Nat \ {0} /\ stale' \in BOOLEAN
      /\ inflight' \in [Urls -> Nat] /\ data' \in [Urls -> [at : {"none", "asked", "kept"}, version : Nat]]
  BY <1>1, <1>2 DEF NavTypes
<1> QED
  BY <1>1, <1>4, <1>5, <1>6, QuietKeeps

LEMMA WasmLandsKeeps ==
    ASSUME NavInv, NewestWins, NEW to, WasmLands(to)
    PROVE  NavInv' /\ NewestWins'
<1>1. UNCHANGED <<site, world, born, stale, location, outlet, cache, inflight, data, seq, nav, swaps>>
  BY DEF WasmLands
<1>2. NavTypes /\ CacheIsOfPages'
  BY <1>1 DEF NavInv, CacheIsOfPages, OtherBuild
<1>3. /\ site' \in Nat \ {0} /\ stale' \in BOOLEAN
      /\ cache' \in [Urls -> [page : Urls, version : Nat, old : BOOLEAN]]
      /\ inflight' \in [Urls -> Nat] /\ data' \in [Urls -> [at : {"none", "asked", "kept"}, version : Nat]]
  BY <1>1, <1>2 DEF NavTypes
<1> QED
  BY <1>1, <1>2, <1>3, QuietKeeps

LEMMA IntentKeeps ==
    ASSUME NavInv, NewestWins, NEW u \in Urls, Intent(u)
    PROVE  NavInv' /\ NewestWins'
<1>1. /\ data' = data \/ data' = Wanting(u)
      /\ inflight' = inflight \/ inflight' = Asking(cache, u)
      /\ UNCHANGED <<site, world, born, stale, location, outlet, cache, seq, nav, swaps>>
  BY DEF Intent
<1>2. NavTypes /\ CacheIsOfPages'
  BY <1>1 DEF NavInv, CacheIsOfPages, OtherBuild
<1>3. /\ site' \in Nat \ {0} /\ stale' \in BOOLEAN /\ inflight \in [Urls -> Nat]
      /\ cache' \in [Urls -> [page : Urls, version : Nat, old : BOOLEAN]] /\ nav.url \in Urls
      /\ data \in [Urls -> [at : {"none", "asked", "kept"}, version : Nat]]
  BY <1>1, <1>2 DEF NavTypes
<1>4. data' \in [Urls -> [at : {"none", "asked", "kept"}, version : Nat]]
  BY <1>1, <1>2, <1>3, WantingIsTyped
<1>5. inflight' \in [Urls -> Nat] /\ \A x \in Urls : inflight[x] > 0 => inflight'[x] = inflight[x]
  BY <1>1, <1>2, <1>3, AskingAdds
<1> QED
  BY <1>1, <1>2, <1>3, <1>4, <1>5, QuietKeeps

LEMMA FetchFailsKeeps ==
    ASSUME NavInv, NewestWins, NEW u \in Urls, FetchFails(u)
    PROVE  NavInv' /\ NewestWins'
<1>1. /\ inflight' = [inflight EXCEPT ![u] = 0] /\ ~(nav.at = "cold" /\ nav.url = u)
      /\ nav' = nav \/ (nav.at = "revalidating" /\ nav' = NoNav)
      /\ UNCHANGED <<site, world, born, stale, location, outlet, cache, data, seq, swaps>>
  BY DEF FetchFails, Awaits
<1>2. NavTypes /\ CacheIsOfPages'
  BY <1>1 DEF NavInv, CacheIsOfPages, OtherBuild
<1>3. /\ site' \in Nat \ {0} /\ stale' \in BOOLEAN /\ inflight \in [Urls -> Nat]
      /\ cache' \in [Urls -> [page : Urls, version : Nat, old : BOOLEAN]] /\ nav.url \in Urls
      /\ data' \in [Urls -> [at : {"none", "asked", "kept"}, version : Nat]]
  BY <1>1, <1>2 DEF NavTypes
<1>4. inflight' \in [Urls -> Nat] /\ \A x \in Urls : x # u => inflight'[x] = inflight[x]
  BY <1>1, <1>3
<1>5. nav' = nav \/ (AtRest /\ nav' = NoNav)
  BY <1>1 DEF AtRest
<1> QED
  BY <1>1, <1>2, <1>3, <1>4, <1>5, QuietKeeps

LEMMA PrefetchedKeeps ==
    ASSUME NavInv, NewestWins, NEW u \in Urls, NEW pg \in Urls, NEW v \in Nat,
           Prefetched(u, pg, v)
    PROVE  NavInv' /\ NewestWins'
<1>1. /\ ~(nav.at = "cold" /\ nav.url = u) /\ Comes(u, pg, v)
      /\ UNCHANGED <<site, world, born, location, outlet, data, seq, nav, swaps>>
  BY DEF Prefetched, Awaits
<1>2. NavTypes /\ CacheIsOfPages
  BY DEF NavInv
<1>3. /\ cache' \in [Urls -> [page : Urls, version : Nat, old : BOOLEAN]] /\ CacheIsOfPages'
      /\ inflight' \in [Urls -> Nat] /\ \A x \in Urls : x # u => inflight'[x] = inflight[x]
      /\ stale' \in BOOLEAN
  BY <1>1, <1>2, ComesKeeps
<1>4. /\ site' \in Nat \ {0} /\ nav.url \in Urls
      /\ data' \in [Urls -> [at : {"none", "asked", "kept"}, version : Nat]]
  BY <1>1, <1>2 DEF NavTypes
<1> QED
  BY <1>1, <1>3, <1>4, QuietKeeps

-----------------------------------------------------------------------------
(* Navigations.                                                             *)

\* The types of what a navigation leaves or brings.
LEMMA NavTypesStay ==
    ASSUME NavTypes, UNCHANGED <<site, world>>, born' \in Nat, stale' \in BOOLEAN, location' \in Urls,
           outlet' \in RouterSwap, seq' \in Nat, swaps' \in Seq(Pending),
           cache' \in [Urls -> [page : Urls, version : Nat, old : BOOLEAN]],
           inflight' \in [Urls -> Nat], data' \in [Urls -> [at : {"none", "asked", "kept"}, version : Nat]],
           nav' \in [at : {"none", "rendering", "cold", "revalidating"}, url : Urls, push : BOOLEAN,
                     via : BOOLEAN, floor : Nat, joined : BOOLEAN, hit : Nat]
    PROVE  NavTypes'
BY DEF NavTypes

\* A navigation that waits has begun, and none before it is shown as its own.
LEMMA BeginsToWait ==
    ASSUME NavInv, seq' = seq + 1, UNCHANGED <<world, born, outlet, swaps>>, ~AtRest'
    PROVE  /\ AllShow' /\ AnimatedAsAsked' /\ NewestWins'
           /\ \A i \in 1..Len(swaps') : swaps'[i].swap.by < seq'
<1>1. NavTypes /\ seq \in Nat /\ outlet \in RouterSwap
  BY DEF NavInv, NavTypes
<1>2. ShowsIn(outlet, seq', world.deploys, born)
  BY <1>1, ShowsStays DEF NavInv, AllShow
<1>3. ASSUME NEW i \in 1..Len(swaps)
      PROVE  ShowsIn(swaps[i].swap, seq', world.deploys, born) /\ swaps[i].swap.by < seq'
  <2>1. ShowsIn(swaps[i].swap, seq, world.deploys, born) /\ swaps[i].swap \in RouterSwap
    BY <1>1, SwapsAreTyped DEF NavInv, AllShow
  <2>2. ShowsIn(swaps[i].swap, seq', world.deploys, born)
    BY <1>1, <2>1, ShowsStays
  <2>3. swaps[i].swap.by \in Nat /\ swaps[i].swap.by <= seq
    BY <2>1 DEF ShowsIn, RouterSwap
  <2> QED
    BY <1>1, <2>2, <2>3
<1> QED
  BY <1>2, <1>3 DEF AllShow, NavInv, AnimatedAsAsked, NewestWins

LEMMA OlderAreBefore ==
    ASSUME NavInv, seq' = seq + 1, NEW i \in 1..Len(swaps)
    PROVE  swaps[i].swap.by < seq'
<1>1. NavTypes /\ seq \in Nat
  BY DEF NavInv, NavTypes
<1>2. ShowsIn(swaps[i].swap, seq, world.deploys, born) /\ swaps[i].swap \in RouterSwap
  BY <1>1, SwapsAreTyped DEF NavInv, AllShow
<1>3. swaps[i].swap.by \in Nat /\ swaps[i].swap.by <= seq
  BY <1>2 DEF ShowsIn, RouterSwap
<1> QED
  BY <1>1, <1>3

LEMMA GoesKeeps ==
    ASSUME NavInv, NewestWins, NEW u \in Urls, NEW push \in BOOLEAN,
           NEW fresh \in BOOLEAN, NEW via \in world.animated, push \/ u \in Entries,
           Goes(u, push, fresh, via)
    PROVE  NavInv' /\ NewestWins'
<1>1. /\ seq' = seq + 1 /\ UNCHANGED <<site, world>>
      /\ \/ Leave(u)
         \/ /\ ~stale /\ UNCHANGED <<born, stale>>
            /\ RenderNow(u, push, fresh, via) \/ RenderLater(u, push, fresh, via)
               \/ Hit(u, push, fresh, via) \/ Cold(u, push, fresh, via)
  BY DEF Goes
<1>2. /\ NavTypes /\ CacheIsOfPages /\ NavWaits /\ seq \in Nat /\ seq' \in Nat /\ via \in BOOLEAN
      /\ born \in Nat /\ stale \in BOOLEAN /\ location \in Urls /\ outlet \in RouterSwap
      /\ swaps \in Seq(Pending) /\ inflight \in [Urls -> Nat] /\ site \in Nat \ {0}
      /\ data \in [Urls -> [at : {"none", "asked", "kept"}, version : Nat]]
      /\ cache \in [Urls -> [page : Urls, version : Nat, old : BOOLEAN]]
  <2>1. NavTypes /\ CacheIsOfPages /\ NavWaits
    BY DEF NavInv
  <2>2. via \in BOOLEAN
    BY <2>1, NavAssumption DEF NavTypes
  <2>3. seq \in Nat /\ seq' = seq + 1
    BY <1>1, <2>1 DEF NavTypes
  <2>4. seq' \in Nat
    BY <2>3
  <2>5. /\ born \in Nat /\ stale \in BOOLEAN /\ location \in Urls /\ outlet \in RouterSwap
        /\ swaps \in Seq(Pending) /\ inflight \in [Urls -> Nat] /\ site \in Nat \ {0}
        /\ data \in [Urls -> [at : {"none", "asked", "kept"}, version : Nat]]
        /\ cache \in [Urls -> [page : Urls, version : Nat, old : BOOLEAN]]
    BY <2>1 DEF NavTypes
  <2> QED
    BY <2>1, <2>2, <2>3, <2>4, <2>5
<1>3. CASE Leave(u)
  BY <1>1, <1>3, DocumentKeeps DEF Leave
<1>4. CASE RenderNow(u, push, fresh, via) /\ UNCHANGED <<born, stale>>
  <2> DEFINE floor == IF fresh THEN site ELSE 0
             v == data[u].version
  <2>1. /\ cache' = Uncached(u, fresh) /\ location' = u /\ Shown(u, u, v, floor, "local", push, via)
        /\ nav' = NoNav /\ UNCHANGED <<inflight, data, born, stale>>
    BY <1>4 DEF RenderNow
  <2>2. v \in Nat /\ floor \in Nat /\ "local" \in Ways /\ ~("local" \in {"cold", "hit"})
    BY <1>2 DEF Ways
  <2> HIDE DEF v, floor
  <2>3. AtRest'
    BY <2>1, NoNavIsTyped DEF AtRest
  <2>4. \A i \in 1..Len(swaps) : swaps[i].swap.by < seq'
    BY <1>1, OlderAreBefore
  <2>5. /\ outlet' \in RouterSwap /\ swaps' \in Seq(Pending)
        /\ AllShow' /\ AnimatedAsAsked' /\ NewestWins'
    <3>1. "local" \in {"cold", "hit"} => v >= floor /\ ~OtherBuild(v)
      BY <2>2
    <3>2. UNCHANGED <<world, born>> /\ seq' \in {seq, seq + 1} /\ via \in BOOLEAN
          /\ Shown(u, u, v, floor, "local", push, via) /\ location' = u
      BY <1>1, <1>2, <2>1
    <3> QED
      BY <2>2, <2>3, <2>4, <3>1, <3>2, ShowKeeps
  <2>6. cache' \in [Urls -> [page : Urls, version : Nat, old : BOOLEAN]] /\ CacheIsOfPages'
    BY <1>1, <1>2, <2>1, UncachedKeeps
  <2>7. NavTypes'
    BY <1>1, <1>2, <2>1, <2>5, <2>6, NoNavIsTyped, NavTypesStay
  <2>8. NavWaits'
    BY <2>1, NoNavIsTyped DEF NavWaits, AtRest
  <2> QED
    BY <2>5, <2>6, <2>7, <2>8 DEF NavInv
<1>5. CASE RenderLater(u, push, fresh, via) /\ UNCHANGED <<born, stale>>
  <2>1. /\ cache' = Uncached(u, fresh) /\ data' = Wanting(u)
        /\ nav' = Waits("rendering", u, push, fresh, via) /\ location' = IF push THEN location ELSE u
        /\ UNCHANGED <<outlet, inflight, swaps, born, stale>>
    BY <1>5 DEF RenderLater
  <2>2. /\ nav' \in [at : {"none", "rendering", "cold", "revalidating"}, url : Urls, push : BOOLEAN,
                     via : BOOLEAN, floor : Nat, joined : BOOLEAN, hit : Nat]
        /\ nav'.at = "rendering" /\ nav'.url = u /\ nav'.push = push /\ nav'.via = via
    BY <1>2, <2>1, WaitsWith
  <2>3. ~AtRest'
    BY <2>2 DEF AtRest
  <2>4. /\ AllShow' /\ AnimatedAsAsked' /\ NewestWins'
        /\ \A i \in 1..Len(swaps') : swaps'[i].swap.by < seq'
    BY <1>1, <2>1, <2>3, BeginsToWait
  <2>5. cache' \in [Urls -> [page : Urls, version : Nat, old : BOOLEAN]] /\ CacheIsOfPages'
    BY <1>1, <1>2, <2>1, UncachedKeeps
  <2>6. data' \in [Urls -> [at : {"none", "asked", "kept"}, version : Nat]] /\ location' \in Urls
    BY <1>2, <2>1, WantingIsTyped
  <2>7. NavTypes'
    BY <1>1, <1>2, <2>1, <2>2, <2>5, <2>6, NavTypesStay
  <2>8. NavWaits'
    BY <1>1, <2>1, <2>2, <2>4 DEF NavWaits
  <2> QED
    BY <2>4, <2>5, <2>7, <2>8 DEF NavInv
<1>6. CASE Hit(u, push, fresh, via) /\ ~stale /\ UNCHANGED <<born, stale>>
  <2> DEFINE hit == Uncached(u, fresh)[u]
             floor == IF fresh THEN site ELSE 0
             m == [NoNav EXCEPT !.at = "revalidating", !.url = u, !.hit = hit.version]
  <2>1. /\ Warmed(u) /\ hit.version > 0 /\ location' = u
        /\ Shown(u, hit.page, hit.version, floor, "hit", push, via) /\ UNCHANGED <<born, stale>>
        /\ \/ /\ cache' = [cache EXCEPT ![u] = NotCached] /\ inflight' = Asking(cache', u) /\ nav' = m
           \/ nav' = NoNav /\ UNCHANGED <<cache, inflight>>
    BY <1>6 DEF Hit
  <2>2. ~fresh /\ hit = cache[u]
    <3>1. CASE fresh
      <4>1. hit = NotCached
        BY <1>2, <3>1 DEF Uncached
      <4> QED
        BY <2>1, <4>1 DEF NotCached
    <3> QED
      BY <3>1 DEF Uncached
  <2>3. hit.version \in Nat /\ hit.page = u /\ ~OtherBuild(hit.version) /\ floor = 0 /\ "hit" \in Ways
    BY <1>2, <1>6, <2>1, <2>2 DEF CacheIsOfPages, Ways
  <2>4. /\ nav' \in [at : {"none", "rendering", "cold", "revalidating"}, url : Urls, push : BOOLEAN,
                     via : BOOLEAN, floor : Nat, joined : BOOLEAN, hit : Nat]
        /\ nav'.at \in {"none", "revalidating"}
    <3>1. CASE nav' = NoNav
      BY <3>1, NoNavIsTyped
    <3>2. CASE nav' = m
      <4> DEFINE w == hit.version
      <4>1. w \in Nat /\ nav' = [NoNav EXCEPT !.at = "revalidating", !.url = u, !.hit = w]
        BY <2>3, <3>2
      <4> HIDE DEF w
      <4> DEFINE m1 == [NoNav EXCEPT !.at = "revalidating", !.url = u]
      <4>2. m1 \in [at : {"none", "rendering", "cold", "revalidating"}, url : Urls, push : BOOLEAN,
                    via : BOOLEAN, floor : Nat, joined : BOOLEAN, hit : Nat]
            /\ m1.at = "revalidating"
        BY NavAssumption DEF NoNav
      <4>3. nav' = [m1 EXCEPT !.hit = w]
        BY <4>1 DEF NoNav
      <4> HIDE DEF m1
      <4> QED
        BY <4>1, <4>2, <4>3
    <3> QED
      BY <2>1, <3>1, <3>2
  <2>5. data' \in [Urls -> [at : {"none", "asked", "kept"}, version : Nat]]
    BY <1>2, <2>1, WantingIsTyped DEF Warmed
  <2>6. cache' \in [Urls -> [page : Urls, version : Nat, old : BOOLEAN]] /\ CacheIsOfPages'
    <3>1. cache' = Uncached(u, TRUE) \/ cache' = Uncached(u, FALSE)
      BY <2>1 DEF Uncached
    <3> QED
      BY <1>1, <1>2, <2>1, <3>1, UncachedKeeps
  <2>7. inflight' \in [Urls -> Nat]
    BY <1>2, <2>1, AskingAdds
  <2>8. AtRest'
    BY <2>4 DEF AtRest
  <2>9. \A i \in 1..Len(swaps) : swaps[i].swap.by < seq'
    BY <1>1, OlderAreBefore
  <2> DEFINE v == hit.version
  <2>10. v \in Nat /\ Shown(u, u, v, 0, "hit", push, via) /\ v >= 0 /\ ~OtherBuild(v)
    BY <2>1, <2>3
  <2> HIDE DEF v, hit, floor, m
  <2>11. /\ outlet' \in RouterSwap /\ swaps' \in Seq(Pending)
         /\ AllShow' /\ AnimatedAsAsked' /\ NewestWins'
    BY <1>1, <1>2, <2>1, <2>3, <2>8, <2>9, <2>10, ShowKeeps
  <2>12. NavTypes'
    BY <1>1, <1>2, <2>1, <2>4, <2>5, <2>6, <2>7, <2>11, NavTypesStay
  <2>13. NavWaits'
    BY <2>4 DEF NavWaits, AtRest
  <2> QED
    BY <2>6, <2>11, <2>12, <2>13 DEF NavInv
<1>7. CASE Cold(u, push, fresh, via) /\ UNCHANGED <<born, stale>>
  <2> DEFINE n == Waits("cold", u, push, fresh, via)
             joined == inflight[u] > 0
  <2>1. /\ Warmed(u) /\ cache' = Uncached(u, fresh) /\ cache'[u].version = 0
        /\ inflight' = Asking(cache', u) /\ nav' = [n EXCEPT !.joined = joined]
        /\ location' = (IF push THEN location ELSE u) /\ UNCHANGED <<outlet, swaps, born, stale>>
    BY <1>7 DEF Cold
  <2>2. /\ n \in [at : {"none", "rendering", "cold", "revalidating"}, url : Urls, push : BOOLEAN,
                  via : BOOLEAN, floor : Nat, joined : BOOLEAN, hit : Nat]
        /\ n.at = "cold" /\ n.url = u /\ n.push = push /\ n.via = via
        /\ n.floor = IF fresh THEN site ELSE 0
    BY <1>2, WaitsWith
  <2> HIDE DEF n
  <2>3. joined \in BOOLEAN
    OBVIOUS
  <2>4. nav' \in [at : {"none", "rendering", "cold", "revalidating"}, url : Urls, push : BOOLEAN,
                  via : BOOLEAN, floor : Nat, joined : BOOLEAN, hit : Nat]
    BY <2>1, <2>2, <2>3
  <2>5. nav'.at = "cold" /\ nav'.url = u /\ nav'.push = push /\ nav'.via = via
        /\ nav'.floor = n.floor
    BY <2>1, <2>2
  <2>6. nav'.joined = joined
    BY <2>1, <2>2
  <2>7. ~AtRest'
    BY <2>5 DEF AtRest
  <2>8. /\ AllShow' /\ AnimatedAsAsked' /\ NewestWins'
        /\ \A i \in 1..Len(swaps') : swaps'[i].swap.by < seq'
    BY <1>1, <2>1, <2>7, BeginsToWait
  <2>9. cache' \in [Urls -> [page : Urls, version : Nat, old : BOOLEAN]] /\ CacheIsOfPages'
    BY <1>1, <1>2, <2>1, UncachedKeeps
  <2>10. data' \in [Urls -> [at : {"none", "asked", "kept"}, version : Nat]] /\ location' \in Urls
    <3>1. data' \in [Urls -> [at : {"none", "asked", "kept"}, version : Nat]]
      BY <1>2, <2>1, WantingIsTyped DEF Warmed
    <3>2. location' \in Urls
      BY <1>2, <2>1
    <3> QED
      BY <3>1, <3>2
  <2>11. inflight' \in [Urls -> Nat] /\ inflight'[u] > 0 /\ (~joined => inflight'[u] = site)
    BY <1>2, <2>1, AskingAdds
  <2>12. NavTypes'
    BY <1>1, <1>2, <2>1, <2>4, <2>9, <2>10, <2>11, NavTypesStay
  <2>13. NavWaits'
    <3>1. inflight'[nav'.url] > 0 /\ (~nav'.joined => inflight'[nav'.url] >= nav'.floor)
      BY <1>2, <2>2, <2>5, <2>6, <2>11
    <3>2. nav'.push \/ (location' = nav'.url /\ nav'.url \in Entries)
      BY <2>1, <2>5
    <3>3. nav'.via \in world'.animated
      BY <1>1, <2>5
    <3> QED
      BY <2>8, <3>1, <3>2, <3>3 DEF NavWaits
  <2> QED
    BY <2>8, <2>9, <2>12, <2>13 DEF NavInv
<1> QED
  BY <1>1, <1>3, <1>4, <1>5, <1>6, <1>7

-----------------------------------------------------------------------------
(* What was awaited comes.                                                  *)

LEMMA LandedKeeps ==
    ASSUME NavInv, NewestWins, NEW u \in Urls, NEW pg \in Urls, NEW v \in Nat,
           Landed(u, pg, v)
    PROVE  NavInv' /\ NewestWins'
<1> DEFINE way == IF nav.joined THEN "joined" ELSE "cold"
           floor == nav.floor
           push == nav.push
           via == nav.via
<1>1. /\ nav.at = "cold" /\ nav.url = u /\ pg \notin Raw /\ Comes(u, pg, v) /\ ~stale'
      /\ location' = (IF nav.push THEN pg ELSE location) /\ nav' = NoNav
      /\ UNCHANGED <<site, world, born, data, seq>>
      /\ Shown(pg, pg, v, floor, way, push, via)
  BY DEF Landed, Awaits
<1>2. NavTypes /\ CacheIsOfPages /\ NavWaits /\ world \in Worlds
  BY DEF NavInv, NavTypes
<1>3. /\ way \in Ways /\ floor \in Nat /\ push \in BOOLEAN /\ via \in BOOLEAN /\ seq \in Nat /\ location \in Urls /\ born \in Nat
      /\ data \in [Urls -> [at : {"none", "asked", "kept"}, version : Nat]]
      /\ inflight \in [Urls -> Nat]
  BY <1>2 DEF NavTypes, Ways
<1>4. /\ ~nav.joined => inflight[u] >= floor
      /\ nav.push \/ (location = u /\ u \in Entries)
      /\ via \in world.animated
      /\ \A i \in 1..Len(swaps) : swaps[i].swap.by < seq
  BY <1>1, <1>2 DEF NavWaits, AtRest
<1>5. /\ cache' \in [Urls -> [page : Urls, version : Nat, old : BOOLEAN]] /\ CacheIsOfPages'
      /\ inflight' \in [Urls -> Nat] /\ stale' \in BOOLEAN /\ v >= inflight[u]
  BY <1>1, <1>2, ComesKeeps
<1>6. way \in {"cold", "hit"} => v >= floor /\ ~OtherBuild(v)
  <2>1. ~OtherBuild(v)
    BY <1>1 DEF Comes
  <2>2. way \in {"cold", "hit"} => v >= floor
    BY <1>3, <1>4, <1>5
  <2> QED
    BY <2>1, <2>2
<1>7. pg = location' \/ (~push /\ pg \in Guards[location'])
  <2>1. pg \in {u} \cup Guards[u]
    BY <1>1 DEF Comes
  <2> QED
    BY <1>1, <1>4, <2>1
<1>8. AtRest'
  BY <1>1, NoNavIsTyped DEF AtRest
<1> HIDE DEF way, floor, push, via
<1>9. /\ outlet' \in RouterSwap /\ swaps' \in Seq(Pending)
      /\ AllShow' /\ AnimatedAsAsked' /\ NewestWins'
  <2>1. seq' \in {seq, seq + 1} /\ UNCHANGED <<world, born>> /\ Shown(pg, pg, v, floor, way, push, via)
        /\ \A i \in 1..Len(swaps) : swaps[i].swap.by < seq'
    BY <1>1, <1>4
  <2> QED
    BY <1>3, <1>4, <1>6, <1>7, <1>8, <2>1, ShowKeeps
<1>10. NavTypes'
  <2>1. location' \in Urls
    BY <1>1, <1>3
  <2> QED
    BY <1>1, <1>2, <1>3, <1>5, <1>9, <2>1, NoNavIsTyped, NavTypesStay
<1>11. NavWaits'
  BY <1>1, NoNavIsTyped DEF NavWaits, AtRest
<1> QED
  BY <1>5, <1>9, <1>10, <1>11 DEF NavInv

LEMMA LandedElsewhereKeeps ==
    ASSUME NavInv, NEW u \in Urls, NEW pg \in Urls, NEW v \in Nat, LandedElsewhere(u, pg, v)
    PROVE  NavInv' /\ NewestWins'
<1>1. Document(pg) /\ UNCHANGED <<site, world>> /\ seq' \in {seq, seq + 1}
  BY DEF LandedElsewhere
<1> QED
  BY <1>1, DocumentKeeps

LEMMA RevalidatedKeeps ==
    ASSUME NavInv, NewestWins, NEW u \in Urls, NEW pg \in Urls, NEW v \in Nat,
           Revalidated(u, pg, v)
    PROVE  NavInv' /\ NewestWins'
<1>1. /\ nav.at = "revalidating" /\ nav.url = u /\ Comes(u, pg, v) /\ nav' = NoNav
      /\ UNCHANGED <<site, world, born, location, data, seq>>
      /\ \/ UNCHANGED <<outlet, swaps>>
         \/ location = u /\ Shown(u, u, v, 0, "revalidated", FALSE, FALSE)
  BY DEF Revalidated, Awaits
<1>2. NavTypes /\ CacheIsOfPages
  BY DEF NavInv
<1>3. /\ cache' \in [Urls -> [page : Urls, version : Nat, old : BOOLEAN]] /\ CacheIsOfPages'
      /\ inflight' \in [Urls -> Nat] /\ stale' \in BOOLEAN
  BY <1>1, <1>2, ComesKeeps
<1>4. /\ site' \in Nat \ {0} /\ seq \in Nat /\ location \in Urls /\ born \in Nat
      /\ data' \in [Urls -> [at : {"none", "asked", "kept"}, version : Nat]]
  BY <1>1, <1>2 DEF NavTypes
<1>5. AtRest /\ AtRest' /\ nav.at # "cold"
  BY <1>1, NoNavIsTyped DEF AtRest
<1>6. CASE UNCHANGED <<outlet, swaps>>
  BY <1>1, <1>3, <1>4, <1>5, <1>6, QuietKeeps
<1>7. CASE location = u /\ Shown(u, u, v, 0, "revalidated", FALSE, FALSE)
  <2>1. "revalidated" \in Ways /\ ~("revalidated" \in {"cold", "hit"})
    BY DEF Ways
  <2>2. /\ outlet' \in RouterSwap /\ swaps' \in Seq(Pending)
        /\ AllShow' /\ AnimatedAsAsked' /\ NewestWins'
    <3>1. "revalidated" \in {"cold", "hit"} => v >= 0 /\ ~OtherBuild(v)
      BY <2>1
    <3>2. /\ UNCHANGED <<world, born>> /\ seq' \in {seq, seq + 1} /\ seq' = seq
          /\ Shown(u, u, v, 0, "revalidated", FALSE, FALSE) /\ location' = u /\ location' = location
      BY <1>1, <1>7
    <3> QED
      BY <1>5, <2>1, <3>1, <3>2, ShowKeeps
  <2>3. NavTypes'
    BY <1>1, <1>2, <1>3, <1>4, <2>2, NoNavIsTyped, NavTypesStay
  <2>4. NavWaits'
    BY <1>1, NoNavIsTyped DEF NavWaits, AtRest
  <2> QED
    BY <1>3, <2>2, <2>3, <2>4 DEF NavInv
<1> QED
  BY <1>1, <1>6, <1>7

LEMMA DataComesKeeps ==
    ASSUME NavInv, NewestWins, NEW u \in Urls, NEW v \in Nat, DataComes(u, v)
    PROVE  NavInv' /\ NewestWins'
<1> DEFINE kept == IF v = 0 THEN NoData ELSE [at |-> "kept", version |-> v]
           floor == nav.floor
           push == nav.push
           via == nav.via
<1>1. /\ data' = [data EXCEPT ![u] = kept] /\ stale' = (stale \/ OtherBuild(v))
      /\ UNCHANGED <<site, world, born, cache, inflight, seq>>
      /\ \/ UNCHANGED <<location, outlet, nav, swaps>>
         \/ /\ nav.at = "rendering" /\ nav.url = u /\ nav' = NoNav
            /\ location' = (IF nav.push THEN u ELSE location)
            /\ Shown(u, u, v, floor, "local", push, via)
  BY DEF DataComes, Awaits
<1>2. NavTypes /\ CacheIsOfPages /\ NavWaits
  BY DEF NavInv
<1>3. /\ floor \in Nat /\ push \in BOOLEAN /\ via \in BOOLEAN /\ seq \in Nat /\ location \in Urls /\ born \in Nat
      /\ site' \in Nat \ {0} /\ inflight' \in [Urls -> Nat]
      /\ data \in [Urls -> [at : {"none", "asked", "kept"}, version : Nat]]
      /\ cache' \in [Urls -> [page : Urls, version : Nat, old : BOOLEAN]]
  BY <1>1, <1>2 DEF NavTypes
<1>4. data' \in [Urls -> [at : {"none", "asked", "kept"}, version : Nat]]
  <2>1. kept \in [at : {"none", "asked", "kept"}, version : Nat]
    BY DEF NoData
  <2> HIDE DEF kept
  <2> QED
    BY <1>1, <1>3, <2>1
<1>5. stale' \in BOOLEAN
  BY <1>1
<1>6. CacheIsOfPages'
  BY <1>1, <1>2 DEF CacheIsOfPages, OtherBuild
<1>7. CASE UNCHANGED <<location, outlet, nav, swaps>>
  BY <1>1, <1>3, <1>4, <1>5, <1>6, <1>7, QuietKeeps
<1>8. CASE /\ nav.at = "rendering" /\ nav.url = u /\ nav' = NoNav
           /\ location' = (IF nav.push THEN u ELSE location)
           /\ Shown(u, u, v, floor, "local", push, via)
  <2>1. /\ nav.push \/ location = u
        /\ via \in world.animated
        /\ \A i \in 1..Len(swaps) : swaps[i].swap.by < seq
    BY <1>2, <1>8 DEF NavWaits, AtRest
  <2>2. "local" \in Ways /\ ~("local" \in {"cold", "hit"})
    BY DEF Ways
  <2>3. AtRest'
    BY <1>8, NoNavIsTyped DEF AtRest
  <2> HIDE DEF floor, push, via, kept
  <2>4. /\ outlet' \in RouterSwap /\ swaps' \in Seq(Pending)
        /\ AllShow' /\ AnimatedAsAsked' /\ NewestWins'
    <3>1. "local" \in {"cold", "hit"} => v >= floor /\ ~OtherBuild(v)
      BY <2>2
    <3>2. /\ UNCHANGED <<world, born>> /\ seq' \in {seq, seq + 1}
          /\ Shown(u, u, v, floor, "local", push, via) /\ location' = u
          /\ \A i \in 1..Len(swaps) : swaps[i].swap.by < seq'
      BY <1>1, <1>8, <2>1
    <3>3. floor \in Nat /\ push \in BOOLEAN /\ via \in BOOLEAN
      BY <1>3
    <3> QED
      BY <2>1, <2>2, <2>3, <3>1, <3>2, <3>3, ShowKeeps
  <2>5. NavTypes'
    <3>1. location' \in Urls
      BY <1>3, <1>8
    <3> QED
      BY <1>1, <1>2, <1>3, <1>4, <1>5, <1>8, <2>4, <3>1, NoNavIsTyped, NavTypesStay
  <2>6. NavWaits'
    BY <1>8, NoNavIsTyped DEF NavWaits, AtRest
  <2> QED
    BY <1>6, <2>4, <2>5, <2>6 DEF NavInv
<1> QED
  BY <1>1, <1>7, <1>8

-----------------------------------------------------------------------------
(* A swap that waited is made.                                              *)

LEMMA FunctionsAreSeqs == ASSUME NEW S, NEW k \in Nat, NEW f \in [1..k -> S] PROVE f \in Seq(S) /\ Len(f) = k
<1>1. f \in Seq(S)
  BY SeqDef
<1>2. Len(f) \in Nat /\ DOMAIN f = 1..Len(f)
  BY <1>1, LenProperties
<1> QED
  BY <1>1, <1>2

LEMMA OthersStay ==
    ASSUME NavTypes, NEW i \in 1..Len(swaps)
    PROVE  /\ Others(i) \in Seq(Pending) /\ Len(Others(i)) = Len(swaps) - 1
           /\ \A j \in 1..Len(swaps) - 1 : Others(i)[j] = swaps[IF j < i THEN j ELSE j + 1]
<1> DEFINE n == Len(swaps)
           o == Others(i)
<1>1. n \in Nat /\ \A j \in 1..n : swaps[j] \in Pending
  BY LengthIsNat, SwapsAreTyped
<1>2. n - 1 \in Nat /\ o = [j \in 1..n - 1 |-> IF j < i THEN swaps[j] ELSE swaps[j + 1]]
  BY <1>1 DEF Others
<1>3. \A j \in 1..n - 1 : o[j] = swaps[IF j < i THEN j ELSE j + 1] /\ o[j] \in Pending
  BY <1>1, <1>2
<1>4. o \in [1..n - 1 -> Pending]
  BY <1>2, <1>3
<1> DEFINE k == n - 1
<1>5. k \in Nat /\ o \in [1..k -> Pending]
  BY <1>2, <1>4
<1> HIDE DEF k, o
<1>6. o \in Seq(Pending) /\ Len(o) = k
  BY <1>5, FunctionsAreSeqs
<1> QED
  BY <1>3, <1>6 DEF k, o

\* One swap leaves those that wait: it is shown, unless a newer navigation has begun.
LEMMA SwapLeaves ==
    ASSUME NavInv, NewestWins, NEW i \in 1..Len(swaps), swaps' = Others(i),
           UNCHANGED <<site, world, born, stale, location, cache, inflight, data, seq, nav>>,
           \/ outlet' = swaps[i].swap
           \/ outlet' = outlet /\ swaps[i].swap.by # seq,
           \/ swaps[i].swap.by = seq \/ outlet' = outlet
           \/ swaps[i].at = "transition" /\ swaps[i].swap.page \notin Styled,
           swaps[i].at = "transition" => \A j \in 1..i - 1 : swaps[j].at # "transition"
    PROVE  NavInv' /\ NewestWins'
<1> DEFINE n == Len(swaps)
           at(j) == IF j < i THEN j ELSE j + 1
<1>1. NavTypes /\ n \in Nat /\ swaps[i].swap \in RouterSwap /\ seq \in Nat
  <2>1. NavTypes
    BY DEF NavInv
  <2> QED
    BY <2>1, LengthIsNat, SwapsAreTyped DEF NavTypes
<1>2. /\ swaps' \in Seq(Pending) /\ Len(swaps') = n - 1
      /\ \A j \in 1..n - 1 : swaps'[j] = swaps[at(j)] /\ at(j) \in 1..n /\ at(j) # i
  <2>1. /\ swaps' \in Seq(Pending) /\ Len(swaps') = n - 1
        /\ \A j \in 1..n - 1 : swaps'[j] = swaps[at(j)]
    BY <1>1, OthersStay
  <2>2. \A j \in 1..n - 1 : at(j) \in 1..n /\ at(j) # i
    BY <1>1
  <2> QED
    BY <2>1, <2>2
<1>3. outlet' \in RouterSwap
  BY <1>1 DEF NavTypes
<1>4. NavTypes'
  <2>1. /\ born' \in Nat /\ stale' \in BOOLEAN /\ location' \in Urls /\ seq' \in Nat
        /\ cache' \in [Urls -> [page : Urls, version : Nat, old : BOOLEAN]]
        /\ inflight' \in [Urls -> Nat] /\ data' \in [Urls -> [at : {"none", "asked", "kept"}, version : Nat]]
        /\ nav' \in [at : {"none", "rendering", "cold", "revalidating"}, url : Urls, push : BOOLEAN,
                     via : BOOLEAN, floor : Nat, joined : BOOLEAN, hit : Nat]
    BY <1>1 DEF NavTypes
  <2> QED
    BY <1>1, <1>2, <1>3, <2>1, NavTypesStay
<1>5. AllShow'
  <2>1. ShowsIn(outlet', seq, world.deploys, born)
    BY DEF NavInv, AllShow
  <2>2. \A j \in 1..n - 1 : ShowsIn(swaps'[j].swap, seq, world.deploys, born)
    BY <1>2 DEF NavInv, AllShow
  <2> QED
    BY <1>2, <2>1, <2>2 DEF AllShow
<1>6. CacheIsOfPages' /\ AnimatedAsAsked'
  <2>1. CacheIsOfPages'
    BY DEF NavInv, CacheIsOfPages, OtherBuild
  <2>2. \A j \in 1..n - 1 : swaps'[j].at = "transition" => swaps'[j].swap.via /\ TRUE \in world.animated
    BY <1>2 DEF NavInv, AnimatedAsAsked
  <2> QED
    BY <1>2, <2>1, <2>2 DEF AnimatedAsAsked
<1>7. NavWaits'
  <2>1. ~AtRest => \A j \in 1..n - 1 : swaps'[j].swap.by < seq
    BY <1>2 DEF NavInv, NavWaits
  <2> QED
    BY <1>2, <2>1 DEF NavInv, NavWaits, AtRest
<1>8. NewestWins'
  <2> DEFINE After(ss, m) ==
                world.animated # BOOLEAN =>
                   \A j \in 1..m : ss[j].at = "transition" /\ ss[j].swap.by # seq =>
                      \E k \in 1..m : k > j /\ ss[k].at = "transition" /\ ss[k].swap.by = seq
  <2> SUFFICES ASSUME AtRest
               PROVE  /\ \A j \in 1..n - 1 : swaps'[j].swap.by = seq => FitsIn(swaps'[j].swap, location)
                      /\ After(swaps', n - 1)
                      /\ (\A j \in 1..n - 1 : swaps'[j].swap.by # seq) =>
                            FitsIn(outlet', location) \/ OvertakesIn(outlet', seq, world.animated)
    BY <1>2 DEF NewestWins, AtRest
  <2>1. /\ \A j \in 1..n : swaps[j].swap.by = seq => FitsIn(swaps[j].swap, location)
        /\ After(swaps, n)
        /\ (\A j \in 1..n : swaps[j].swap.by # seq) =>
              FitsIn(outlet, location) \/ OvertakesIn(outlet, seq, world.animated)
    BY DEF NewestWins
  <2>2. \A j \in 1..n - 1 : swaps'[j].swap.by = seq => FitsIn(swaps'[j].swap, location)
    BY <1>2, <2>1
  <2>3. ASSUME NEW k \in 1..n, k # i
        PROVE  LET m == IF k < i THEN k ELSE k - 1 IN m \in 1..n - 1 /\ at(m) = k
    BY <1>1, <2>3
  <2>4. ASSUME world.animated # BOOLEAN, NEW j \in 1..n - 1, swaps'[j].at = "transition", swaps'[j].swap.by # seq
        PROVE  \E k \in 1..n - 1 : k > j /\ swaps'[k].at = "transition" /\ swaps'[k].swap.by = seq
    <3>1. swaps[at(j)].at = "transition" /\ swaps[at(j)].swap.by # seq /\ at(j) \in 1..n /\ at(j) # i
      BY <1>2, <2>4
    <3>2. PICK k \in 1..n : k > at(j) /\ swaps[k].at = "transition" /\ swaps[k].swap.by = seq
      BY <2>1, <2>4, <3>1
    <3>3. k # i
      <4>1. CASE k = i
        <5>1. at(j) \in 1..i - 1
          BY <1>1, <3>1, <3>2, <4>1
        <5> QED
          BY <3>1, <3>2, <4>1, <5>1
      <4> QED
        BY <4>1
    <3> DEFINE m == IF k < i THEN k ELSE k - 1
    <3>4. m \in 1..n - 1 /\ at(m) = k
      BY <2>3, <3>3
    <3>5. m > j
      BY <1>1, <3>2, <3>3
    <3>6. swaps'[m] = swaps[k]
      BY <1>2, <3>4
    <3> HIDE DEF m, at
    <3> QED
      BY <3>2, <3>4, <3>5, <3>6
  <2>5. ASSUME \A j \in 1..n - 1 : swaps'[j].swap.by # seq
        PROVE  FitsIn(outlet', location) \/ OvertakesIn(outlet', seq, world.animated)
    <3>1. \A k \in 1..n : k # i => swaps[k].swap.by # seq
      <4> SUFFICES ASSUME NEW k \in 1..n, k # i PROVE swaps[k].swap.by # seq
        OBVIOUS
      <4> DEFINE m == IF k < i THEN k ELSE k - 1
      <4>1. m \in 1..n - 1 /\ at(m) = k
        BY <2>3
      <4>2. swaps'[m] = swaps[k]
        BY <1>2, <4>1
      <4> HIDE DEF m
      <4> QED
        BY <2>5, <4>1, <4>2
    <3>2. CASE swaps[i].swap.by = seq
      BY <2>1, <3>2
    <3>3. CASE swaps[i].swap.by # seq
      <4>1. FitsIn(outlet, location) \/ OvertakesIn(outlet, seq, world.animated)
        BY <2>1, <3>1, <3>3
      <4>2. CASE outlet' = outlet
        BY <4>1, <4>2
      <4>3. CASE outlet' # outlet
        <5>1. /\ outlet' = swaps[i].swap /\ swaps[i].at = "transition"
              /\ swaps[i].swap.page \notin Styled
          BY <3>3, <4>3
        <5>2. swaps[i].swap.via
          BY <5>1 DEF NavInv, AnimatedAsAsked
        <5>3. swaps[i].swap.by < seq
          <6>1. swaps[i].swap.by <= seq
            BY DEF NavInv, AllShow, ShowsIn
          <6> QED
            BY <1>1, <3>3, <6>1 DEF RouterSwap
        <5>4. world.animated = BOOLEAN
          <6> SUFFICES ASSUME world.animated # BOOLEAN PROVE FALSE
            OBVIOUS
          <6>1. PICK k \in 1..n : k > i /\ swaps[k].swap.by = seq
            BY <2>1, <3>3, <5>1
          <6> QED
            BY <1>1, <3>1, <6>1
        <5> QED
          BY <5>1, <5>2, <5>3, <5>4 DEF OvertakesIn
      <4> QED
        BY <4>2, <4>3
    <3> QED
      BY <3>2, <3>3
  <2> QED
    BY <2>2, <2>4, <2>5
<1> QED
  BY <1>4, <1>5, <1>6, <1>7, <1>8 DEF NavInv

\* A transition calls back for a page with stylesheets of its own: the swap waits for those.
LEMMA SwapTurns ==
    ASSUME NavInv, NewestWins, NEW i \in 1..Len(swaps),
           swaps' = [swaps EXCEPT ![i].at = "styles"],
           \A j \in 1..i - 1 : swaps[j].at # "transition",
           UNCHANGED <<site, world, born, stale, location, outlet, cache, inflight, data, seq, nav>>
    PROVE  NavInv' /\ NewestWins'
<1> DEFINE n == Len(swaps)
           new == [swaps[i] EXCEPT !.at = "styles"]
<1>1. NavTypes /\ n \in Nat /\ swaps[i] \in Pending /\ swaps \in Seq(Pending)
  <2>1. NavTypes
    BY DEF NavInv
  <2> QED
    BY <2>1, LengthIsNat, SwapsAreTyped DEF NavTypes
<1>2. new \in Pending /\ new.at = "styles" /\ new.swap = swaps[i].swap
  BY <1>1 DEF Pending
<1>3. swaps' = [swaps EXCEPT ![i] = new]
  OBVIOUS
<1> HIDE DEF new
<1>4. /\ swaps' \in Seq(Pending) /\ Len(swaps') = n
      /\ \A j \in 1..n : swaps'[j] = IF j = i THEN new ELSE swaps[j]
  <2>1. swaps \in [1..n -> Pending]
    BY <1>1, LenProperties
  <2>2. /\ swaps' \in [1..n -> Pending]
        /\ \A j \in 1..n : swaps'[j] = IF j = i THEN new ELSE swaps[j]
    BY <1>2, <1>3, <2>1
  <2>3. n \in Nat
    BY <1>1
  <2> HIDE DEF n
  <2>4. swaps' \in Seq(Pending) /\ Len(swaps') = n
    BY <2>2, <2>3, FunctionsAreSeqs
  <2> QED
    BY <2>2, <2>4
<1>5. /\ \A j \in 1..n : swaps'[j].swap = swaps[j].swap
      /\ \A j \in 1..n : j # i => swaps'[j].at = swaps[j].at
      /\ swaps'[i].at = "styles"
  BY <1>2, <1>4
<1>6. NavTypes'
  BY <1>1, <1>4 DEF NavTypes
<1>7. AllShow'
  BY <1>4, <1>5 DEF NavInv, AllShow
<1>8. CacheIsOfPages'
  BY DEF NavInv, CacheIsOfPages, OtherBuild
<1>9. NavWaits'
  BY <1>4, <1>5 DEF NavInv, NavWaits, AtRest
<1>10. AnimatedAsAsked'
  <2>1. \A j \in 1..n : swaps'[j].at = "transition" => swaps'[j].swap.via /\ TRUE \in world.animated
    BY <1>5 DEF NavInv, AnimatedAsAsked
  <2> QED
    BY <1>4, <2>1 DEF AnimatedAsAsked
<1>11. NewestWins'
  <2> DEFINE After(ss) ==
                world.animated # BOOLEAN =>
                   \A j \in 1..n : ss[j].at = "transition" /\ ss[j].swap.by # seq =>
                      \E k \in 1..n : k > j /\ ss[k].at = "transition" /\ ss[k].swap.by = seq
  <2> SUFFICES ASSUME AtRest
               PROVE  /\ \A j \in 1..n : swaps'[j].swap.by = seq => FitsIn(swaps'[j].swap, location)
                      /\ After(swaps')
                      /\ (\A j \in 1..n : swaps'[j].swap.by # seq) =>
                            FitsIn(outlet, location) \/ OvertakesIn(outlet, seq, world.animated)
    BY <1>4 DEF NewestWins, AtRest
  <2>1. /\ \A j \in 1..n : swaps[j].swap.by = seq => FitsIn(swaps[j].swap, location)
        /\ After(swaps)
        /\ (\A j \in 1..n : swaps[j].swap.by # seq) =>
              FitsIn(outlet, location) \/ OvertakesIn(outlet, seq, world.animated)
    BY DEF NewestWins
  <2>2. ASSUME world.animated # BOOLEAN, NEW j \in 1..n, swaps'[j].at = "transition", swaps'[j].swap.by # seq
        PROVE  \E k \in 1..n : k > j /\ swaps'[k].at = "transition" /\ swaps'[k].swap.by = seq
    <3>1. j # i /\ swaps[j].at = "transition" /\ swaps[j].swap.by # seq
      BY <1>5, <2>2
    <3>2. PICK k \in 1..n : k > j /\ swaps[k].at = "transition" /\ swaps[k].swap.by = seq
      BY <2>1, <2>2, <3>1
    <3>3. k # i
      <4>1. CASE k = i
        <5>1. j \in 1..i - 1
          BY <1>1, <3>2, <4>1
        <5> QED
          BY <3>1, <5>1
      <4> QED
        BY <4>1
    <3> QED
      BY <1>5, <3>2, <3>3
  <2> QED
    BY <1>5, <2>1, <2>2
<1> QED
  BY <1>6, <1>7, <1>8, <1>9, <1>10, <1>11 DEF NavInv

LEMMA TransitionCallsKeeps ==
    ASSUME NavInv, NewestWins, TransitionCalls
    PROVE  NavInv' /\ NewestWins'
<1>1. PICK i \in 1..Len(swaps) :
        /\ swaps[i].at = "transition" /\ \A j \in 1..i - 1 : swaps[j].at # "transition"
        /\ IF swaps[i].swap.page \in Styled
           THEN swaps' = [swaps EXCEPT ![i].at = "styles"] /\ UNCHANGED outlet
           ELSE swaps' = Others(i) /\ outlet' = swaps[i].swap
        /\ UNCHANGED <<site, world, born, stale, location, cache, inflight, data, seq, nav>>
  BY DEF TransitionCalls
<1>2. CASE swaps[i].swap.page \in Styled
  BY <1>1, <1>2, SwapTurns
<1>3. CASE swaps[i].swap.page \notin Styled
  BY <1>1, <1>3, SwapLeaves
<1> QED
  BY <1>2, <1>3

LEMMA StylesLoadKeeps ==
    ASSUME NavInv, NewestWins, StylesLoad
    PROVE  NavInv' /\ NewestWins'
<1>1. PICK i \in 1..Len(swaps) :
        /\ swaps[i].at = "styles" /\ swaps' = Others(i)
        /\ outlet' = IF swaps[i].swap.by = seq THEN swaps[i].swap ELSE outlet
        /\ UNCHANGED <<site, world, born, stale, location, cache, inflight, data, seq, nav>>
  BY DEF StylesLoad
<1>2. CASE swaps[i].swap.by = seq
  BY <1>1, <1>2, SwapLeaves
<1>3. CASE swaps[i].swap.by # seq
  BY <1>1, <1>3, SwapLeaves
<1> QED
  BY <1>2, <1>3

-----------------------------------------------------------------------------
LEMMA NavigationsKeep ==
    ASSUME NavInv, NewestWins, [NavNext]_navVars
    PROVE  NavInv' /\ NewestWins'
<1>1. CASE SiteMoves \/ \E to \in {"none", "ready"} : WasmLands(to)
  BY <1>1, SiteMovesKeeps, WasmLandsKeeps
<1>2. ASSUME NEW u \in Urls, Ages(u) \/ Intent(u) \/ FetchFails(u)
      PROVE  NavInv' /\ NewestWins'
  BY <1>2, AgesKeeps, IntentKeeps, FetchFailsKeeps
<1>3. ASSUME NEW via \in world.animated, Refresh(via) \/ \E u \in Urls : Click(u, via) \/ Back(u, via)
      PROVE  NavInv' /\ NewestWins'
  <2>1. location \in Urls
    BY DEF NavInv, NavTypes
  <2>2. CASE Refresh(via)
    <3>1. Goes(location, TRUE, TRUE, via)
      BY <2>2 DEF Refresh
    <3>2. PICK u \in Urls : u = location
      BY <2>1
    <3>3. Goes(u, TRUE, TRUE, via)
      BY <3>1, <3>2
    <3> QED
      BY <3>3, GoesKeeps
  <2>3. ASSUME NEW u \in Urls, Click(u, via)
        PROVE  NavInv' /\ NewestWins'
    <3>1. Goes(u, TRUE, FALSE, via)
      BY <2>3 DEF Click
    <3> QED
      BY <3>1, GoesKeeps
  <2>4. ASSUME NEW u \in Urls, Back(u, via)
        PROVE  NavInv' /\ NewestWins'
    <3>1. Goes(u, FALSE, FALSE, via) /\ u \in Entries
      BY <2>4 DEF Back
    <3> QED
      BY <3>1, GoesKeeps
  <2> QED
    BY <1>3, <2>2, <2>3, <2>4
<1>4. ASSUME NEW u \in Urls, NEW v \in Versions, DataComes(u, v)
      PROVE  NavInv' /\ NewestWins'
  <2>1. v \in Nat
    BY NavAssumption DEF Versions
  <2> QED
    BY <1>4, <2>1, DataComesKeeps
<1>5. ASSUME NEW u \in Urls, NEW pg \in Urls, NEW v \in Versions,
             \/ Prefetched(u, pg, v) \/ Landed(u, pg, v) \/ LandedElsewhere(u, pg, v)
             \/ Revalidated(u, pg, v)
      PROVE  NavInv' /\ NewestWins'
  <2>1. v \in Nat
    BY NavAssumption DEF Versions
  <2> QED
    BY <1>5, <2>1, PrefetchedKeeps, LandedKeeps, LandedElsewhereKeeps, RevalidatedKeeps
<1>6. CASE TransitionCalls \/ StylesLoad
  BY <1>6, TransitionCallsKeeps, StylesLoadKeeps
<1>7. CASE UNCHANGED navVars
  <2>1. NavInv'
    BY <1>7 DEF navVars, NavInv, NavTypes, AllShow, CacheIsOfPages, OtherBuild, NavWaits, AtRest,
                AnimatedAsAsked
  <2>2. NewestWins => NewestWins'
    BY <1>7 DEF navVars, NewestWins, AtRest
  <2> QED
    BY <2>1, <2>2
<1> QED
  BY <1>1, <1>2, <1>3, <1>4, <1>5, <1>6, <1>7 DEF NavNext

\* What a fresh navigation shows, or the cache, is no older than the call, and what a cold navigation
\* or the cache shows is of the document's own build (app.js navigate, prefetch and checkBuild).
THEOREM FreshNavigations == NavSpec => [](FreshIsFresh /\ SwapsAreOfThisBuild)
<1>1. NavInit => NavInv /\ NewestWins
  BY NavBegins
<1>2. NavInv /\ NewestWins /\ [NavNext]_navVars => NavInv' /\ NewestWins'
  BY NavigationsKeep
<1>3. NavInv => FreshIsFresh /\ SwapsAreOfThisBuild
  BY DEF NavInv, AllShow, ShowsIn, FreshIsFresh, SwapsAreOfThisBuild, OtherBuild
<1> QED
  BY <1>1, <1>2, <1>3, PTL DEF NavSpec

\* Whichever navigations overtook one another, with transitions and without, the page on the screen is
\* the address's when nothing is awaited, but for a redirected step back and for the one order that
\* Overtakes names (app.js navigate, applyFragment and the popstate listener).
THEOREM PagesBelong == NavSpec => []PageBelongs
<1>1. NavInit => NavInv /\ NewestWins
  BY NavBegins
<1>2. NavInv /\ NewestWins /\ [NavNext]_navVars => NavInv' /\ NewestWins'
  BY NavigationsKeep
<1>3. NavInv /\ NewestWins => PageBelongs
  <2> SUFFICES ASSUME NavInv, NewestWins PROVE PageBelongs
    OBVIOUS
  <2>1. SwapsAreOfThisBuild /\ outlet.page = outlet.url
    BY DEF NavInv, AllShow, ShowsIn, SwapsAreOfThisBuild, OtherBuild
  <2>2. ASSUME nav.at = "none", swaps = <<>> PROVE Fits(outlet) \/ Overtakes(outlet)
    <3>1. Len(swaps) = 0 /\ AtRest
      BY <2>2 DEF AtRest
    <3> QED
      BY <3>1 DEF NewestWins, FitsIn, Fits, OvertakesIn, Overtakes
  <2> QED
    BY <2>1, <2>2 DEF PageBelongs, PageMatchesAddress
<1> QED
  BY <1>1, <1>2, <1>3, PTL DEF NavSpec

-----------------------------------------------------------------------------
(* The development server.                                                  *)

ATab == [doc : Nat, remembered : Nat, loadedAt : Nat, late : BOOLEAN, overlay : BOOLEAN,
         stream : {"closed", "greeting", "greeted", "open"}, ch : Seq(Events), missed : BOOLEAN]

HasIn(ch, e) == \E i \in 1..Len(ch) : ch[i] = e

\* Whatever recovery is announced, an error is announced after it.
ErrorStands(ch) ==
    \A i \in 1..Len(ch) : ch[i] = "build-ok" => \E j \in 1..Len(ch) : i < j /\ ch[j] = "build-error"

\* A tab is of an application and a revision there were.
TabIsTyped(tab, rev, n) ==
    /\ tab \in ATab /\ Len(tab.ch) <= Room
    /\ tab.doc <= n /\ tab.remembered <= rev /\ tab.loadedAt <= rev
    /\ tab.stream # "closed" => tab.doc # 0
    /\ tab.stream \in {"greeted", "open"} => tab.remembered # 0
    /\ tab.remembered = 0 => ~tab.overlay /\ ~tab.late

\* A tab that listens knows the revision, or will be told; and what it was loaded at, if it was
\* not late, is what it remembers.
KnowsTheRevision(tab, at, rev) ==
    /\ tab.remembered # 0 /\ ~tab.late => tab.remembered = tab.loadedAt
    /\ tab.stream \in {"greeted", "open"} =>
          tab.remembered = rev \/ HasIn(tab.ch, "alive") \/ tab.missed \/ at = "telling"

\* Of one revision there is one application to be seen, until the next is announced.
ShowsTheChild(tab, at, kid, rev) ==
    kid.at = "up" /\ at \notin {"cheering", "bumping"} /\ tab.loadedAt = rev => tab.doc = kid.built

\* An error that is over stays on the screen only where a revision follows, or nothing runs; one
\* that stands is on the screen, or on its way.
ShowsTheError(tab, at, kid, err, rev) ==
    /\ tab.overlay /\ ~err /\ tab.remembered = rev =>
          at \in {"restarting", "waiting", "cheering", "bumping"} \/ kid.at # "up"
    /\ err /\ tab.stream # "closed" /\ ~tab.missed =>
          /\ ErrorStands(tab.ch)
          /\ tab.stream = "open" => tab.overlay \/ HasIn(tab.ch, "build-error")

TabFits(tab, at, kid, err, rev, n) ==
    /\ TabIsTyped(tab, rev, n) /\ KnowsTheRevision(tab, at, rev)
    /\ ShowsTheChild(tab, at, kid, rev) /\ ShowsTheError(tab, at, kid, err, rev)

\* Who builds: what runs is the binary, and a build that is going on has no error.
BuilderFits ==
    /\ tree \in Seq(Kinds) /\ Len(tree) \in Nat /\ prev \in 0..Len(tree) /\ begun \in 0..Len(tree)
    /\ builder \in {"building", "restarting", "waiting", "cheering", "bumping", "telling", "idle"}
    /\ binary \in 0..Len(tree)
    /\ child \in [built : 0..Len(tree), at : {"none", "starting", "up", "gone"}]
    /\ live \in BOOLEAN /\ buildErr \in BOOLEAN /\ recovered \in BOOLEAN
    /\ revision \in Nat \ {0} /\ breaks \in 0..MaxBreaks
    /\ builder \in {"restarting", "waiting", "cheering"} => ~buildErr
    /\ builder = "waiting" => child.at = "starting"
    /\ builder # "restarting" /\ child.at # "none" => child.built = binary

\* What the scans have seen of Go since the first is in the binary, or is being built, or is wrong.
SeenIsBuilt ==
    builder # "building" /\ ~buildErr /\ (\E i \in begun + 1..prev : i \in GoFiles(prev))
        => GoFiles(prev) \subseteq 1..binary

IsFit(t) == TabFits(tabs[t], builder, child, buildErr, revision, Len(tree))

DevInv ==
    /\ BuilderFits /\ SeenIsBuilt
    /\ DOMAIN tabs = Tabs
    /\ \A t \in Tabs : IsFit(t)

-----------------------------------------------------------------------------
\* What broadcast makes of a tab.
Told(tab, e) ==
    IF tab.stream = "closed" THEN tab
    ELSE IF Len(tab.ch) < Room THEN [tab EXCEPT !.ch = Append(@, e)]
    ELSE [tab EXCEPT !.missed = @ \/ ~Carries(tab.ch, e)]

LEMMA AppendedIs ==
    ASSUME NEW ch \in Seq(Events), NEW e \in Events
    PROVE  /\ Append(ch, e) \in Seq(Events) /\ Len(Append(ch, e)) = Len(ch) + 1
           /\ HasIn(Append(ch, e), e)
           /\ \A x : HasIn(ch, x) => HasIn(Append(ch, e), x)
           /\ e = "build-error" => ErrorStands(Append(ch, e))
           /\ e # "build-ok" /\ ErrorStands(ch) => ErrorStands(Append(ch, e))
PROOF
<1> DEFINE new == Append(ch, e)
<1>1. /\ new \in Seq(Events) /\ Len(ch) \in Nat /\ Len(new) = Len(ch) + 1
      /\ new[Len(ch) + 1] = e /\ \A i \in 1..Len(ch) : new[i] = ch[i]
  BY AppendProperties, LenProperties
<1> HIDE DEF new
<1>2. HasIn(new, e) /\ \A x : HasIn(ch, x) => HasIn(new, x)
  BY <1>1 DEF HasIn
<1>3. ASSUME e = "build-error" PROVE ErrorStands(new)
  <2> SUFFICES ASSUME NEW i \in 1..Len(new), new[i] = "build-ok"
               PROVE  i < Len(new) /\ new[Len(new)] = "build-error"
    BY <1>1 DEF ErrorStands
  <2> QED
    BY <1>1, <1>3
<1>4. ASSUME e # "build-ok", ErrorStands(ch) PROVE ErrorStands(new)
  <2> SUFFICES ASSUME NEW i \in 1..Len(new), new[i] = "build-ok"
               PROVE  \E j \in 1..Len(new) : i < j /\ new[j] = "build-error"
    BY DEF ErrorStands
  <2>1. i \in 1..Len(ch) /\ ch[i] = "build-ok"
    BY <1>1, <1>4
  <2>2. PICK j \in 1..Len(ch) : i < j /\ ch[j] = "build-error"
    BY <1>4, <2>1 DEF ErrorStands
  <2> QED
    BY <1>1, <2>2
<1> QED
  BY <1>1, <1>2, <1>3, <1>4 DEF new

LEMMA TailIs ==
    ASSUME NEW ch \in Seq(Events), ch # <<>>
    PROVE  /\ Tail(ch) \in Seq(Events) /\ Len(Tail(ch)) = Len(ch) - 1 /\ Head(ch) \in Events
           /\ \A x : HasIn(ch, x) => Head(ch) = x \/ HasIn(Tail(ch), x)
           /\ ErrorStands(ch) =>
                 /\ ErrorStands(Tail(ch))
                 /\ Head(ch) = "build-ok" => HasIn(Tail(ch), "build-error")
PROOF
<1> DEFINE rest == Tail(ch)
<1>1. /\ rest \in Seq(Events) /\ Len(ch) \in Nat \ {0} /\ Len(rest) = Len(ch) - 1
      /\ Head(ch) = ch[1] /\ ch[1] \in Events /\ \A i \in 1..Len(rest) : rest[i] = ch[i + 1]
  BY HeadTailProperties, LenProperties, EmptySeq
<1> HIDE DEF rest
<1>2. \A i \in 1..Len(ch) : i # 1 => i - 1 \in 1..Len(rest) /\ rest[i - 1] = ch[i]
  BY <1>1
<1>3. \A x : HasIn(ch, x) => Head(ch) = x \/ HasIn(rest, x)
  BY <1>1, <1>2 DEF HasIn
<1>4. ASSUME ErrorStands(ch) PROVE ErrorStands(rest)
  <2> SUFFICES ASSUME NEW i \in 1..Len(rest), rest[i] = "build-ok"
               PROVE  \E j \in 1..Len(rest) : i < j /\ rest[j] = "build-error"
    BY DEF ErrorStands
  <2>1. i + 1 \in 1..Len(ch) /\ ch[i + 1] = "build-ok"
    BY <1>1
  <2>2. PICK j \in 1..Len(ch) : i + 1 < j /\ ch[j] = "build-error"
    BY <1>4, <2>1 DEF ErrorStands
  <2>3. j - 1 \in 1..Len(rest) /\ rest[j - 1] = "build-error" /\ i < j - 1
    BY <1>2, <2>1, <2>2
  <2> QED
    BY <2>3
<1>5. ASSUME ErrorStands(ch), Head(ch) = "build-ok" PROVE HasIn(rest, "build-error")
  <2>1. PICK j \in 1..Len(ch) : 1 < j /\ ch[j] = "build-error"
    BY <1>1, <1>5 DEF ErrorStands
  <2> QED
    BY <1>2, <2>1 DEF HasIn
<1> QED
  BY <1>1, <1>3, <1>4, <1>5 DEF rest

LEMMA ToldIs ==
    ASSUME NEW tab, NEW rev, NEW n, TabIsTyped(tab, rev, n), NEW e \in Events
    PROVE  LET new == Told(tab, e)
           IN /\ TabIsTyped(new, rev, n)
              /\ new.stream = tab.stream /\ new.doc = tab.doc /\ new.remembered = tab.remembered
              /\ new.loadedAt = tab.loadedAt /\ new.late = tab.late /\ new.overlay = tab.overlay
              /\ ~new.missed => ~tab.missed
              /\ \A x : HasIn(tab.ch, x) => HasIn(new.ch, x)
              /\ new.stream # "closed" /\ ~new.missed =>
                    /\ e \in {"alive", "build-error"} => HasIn(new.ch, e)
                    /\ e = "build-error" => ErrorStands(new.ch)
                    /\ e # "build-ok" /\ ErrorStands(tab.ch) => ErrorStands(new.ch)
PROOF
<1>1. tab \in ATab /\ tab.ch \in Seq(Events) /\ Len(tab.ch) \in Nat /\ Room \in Nat
  BY DevAssumption, LenProperties DEF TabIsTyped, ATab
<1>2. CASE tab.stream = "closed"
  BY <1>1, <1>2 DEF Told
<1>3. CASE tab.stream # "closed" /\ Len(tab.ch) < Room
  <2> DEFINE longer == Append(tab.ch, e)
             new == [tab EXCEPT !.ch = longer]
  <2>1. longer \in Seq(Events) /\ Len(longer) <= Room
    BY <1>1, <1>3, AppendedIs
  <2>2. /\ new \in ATab /\ new.ch = longer /\ new.missed = tab.missed
        /\ new.stream = tab.stream /\ new.doc = tab.doc /\ new.remembered = tab.remembered
        /\ new.loadedAt = tab.loadedAt /\ new.late = tab.late /\ new.overlay = tab.overlay
    BY <1>1, <2>1 DEF ATab
  <2>3. Told(tab, e) = new
    BY <1>3 DEF Told
  <2>4. /\ HasIn(longer, e) /\ \A x : HasIn(tab.ch, x) => HasIn(longer, x)
        /\ e = "build-error" => ErrorStands(longer)
        /\ e # "build-ok" /\ ErrorStands(tab.ch) => ErrorStands(longer)
    BY <1>1, AppendedIs
  <2> HIDE DEF new, longer
  <2>5. TabIsTyped(new, rev, n)
    BY <2>1, <2>2 DEF TabIsTyped
  <2> QED
    BY <2>2, <2>3, <2>4, <2>5
<1>4. CASE tab.stream # "closed" /\ ~(Len(tab.ch) < Room)
  <2> DEFINE slips == tab.missed \/ ~Carries(tab.ch, e)
             new == [tab EXCEPT !.missed = slips]
  <2>0. slips \in BOOLEAN /\ tab.missed \in BOOLEAN
    BY <1>1 DEF ATab
  <2>1. /\ new \in ATab /\ new.ch = tab.ch /\ new.missed = slips
        /\ new.stream = tab.stream /\ new.doc = tab.doc /\ new.remembered = tab.remembered
        /\ new.loadedAt = tab.loadedAt /\ new.late = tab.late /\ new.overlay = tab.overlay
    <3> HIDE DEF slips
    <3> QED
      BY <1>1, <2>0 DEF ATab
  <2>2. Told(tab, e) = new
    BY <1>4 DEF Told
  <2> HIDE DEF new
  <2>3. TabIsTyped(new, rev, n)
    BY <2>1 DEF TabIsTyped
  <2>4. ~new.missed => ~tab.missed /\ Carries(tab.ch, e)
    BY <2>1
  <2>5. Carries(tab.ch, e) => (e \in {"alive", "build-error"} => HasIn(tab.ch, e))
    BY DEF Carries, HasIn
  <2>6. Carries(tab.ch, e) /\ e = "build-error" => ErrorStands(tab.ch)
    <3> SUFFICES ASSUME e = "build-error", Carries(tab.ch, e), NEW i \in 1..Len(tab.ch),
                        tab.ch[i] = "build-ok"
                 PROVE  \E j \in 1..Len(tab.ch) : i < j /\ tab.ch[j] = "build-error"
      BY DEF ErrorStands
    <3>1. PICK j \in 1..Len(tab.ch) : /\ tab.ch[j] = "build-error"
                                      /\ \A k \in j + 1..Len(tab.ch) : tab.ch[k] # "build-ok"
      BY DEF Carries
    <3>2. i < j
      BY <1>1, <3>1
    <3> QED
      BY <3>1, <3>2
  <2> HIDE DEF slips
  <2> QED
    BY <2>1, <2>2, <2>3, <2>4, <2>5, <2>6
<1> QED
  BY <1>2, <1>3, <1>4

\* A broadcast reaches every tab.
LEMMA BroadcastTells ==
    ASSUME NEW e \in Events, Broadcast(e)
    PROVE  DOMAIN tabs' = Tabs /\ \A t \in Tabs : tabs'[t] = Told(tabs[t], e)
PROOF
BY DEF Broadcast, Told

\* Typing goes by itself.
LEMMA FitsIsTyped == ASSUME DevInv, NEW t \in Tabs PROVE TabIsTyped(tabs[t], revision, Len(tree))
PROOF
BY DEF DevInv, IsFit, TabFits

\* What is told leaves the rest to be seen: the revision and the error.
LEMMA ToldKnows ==
    ASSUME NEW tab, NEW rev, NEW n, TabIsTyped(tab, rev, n), NEW e \in Events,
           NEW at, NEW next, KnowsTheRevision(tab, at, rev),
           at = "telling" => next = "telling" \/ e = "alive"
    PROVE  KnowsTheRevision(Told(tab, e), next, rev)
PROOF
<1> DEFINE new == Told(tab, e)
<1>1. /\ new.stream = tab.stream /\ new.remembered = tab.remembered
      /\ new.loadedAt = tab.loadedAt /\ new.late = tab.late
      /\ ~new.missed => ~tab.missed
      /\ \A x : HasIn(tab.ch, x) => HasIn(new.ch, x)
      /\ new.stream # "closed" /\ ~new.missed => (e = "alive" => HasIn(new.ch, e))
  BY ToldIs
<1> HIDE DEF new
<1>2. KnowsTheRevision(new, next, rev)
  BY <1>1 DEF KnowsTheRevision
<1> QED
  BY <1>2 DEF new

LEMMA ToldShows ==
    ASSUME NEW tab, NEW rev, NEW n, TabIsTyped(tab, rev, n), NEW e \in Events,
           NEW at, NEW next, NEW kid, NEW err, NEW wrong,
           ShowsTheChild(tab, at, kid, rev), ShowsTheError(tab, at, kid, err, rev),
           next \notin {"cheering", "bumping"} => at \notin {"cheering", "bumping"},
           at \in {"restarting", "waiting", "cheering", "bumping"} =>
               next \in {"restarting", "waiting", "cheering", "bumping"},
           IF e = "build-error" THEN wrong ELSE wrong = err /\ (e = "build-ok" => ~err)
    PROVE  ShowsTheChild(Told(tab, e), next, kid, rev) /\ ShowsTheError(Told(tab, e), next, kid, wrong, rev)
PROOF
<1> DEFINE new == Told(tab, e)
<1>1. /\ new.stream = tab.stream /\ new.doc = tab.doc /\ new.remembered = tab.remembered
      /\ new.loadedAt = tab.loadedAt /\ new.late = tab.late /\ new.overlay = tab.overlay
      /\ ~new.missed => ~tab.missed
      /\ \A x : HasIn(tab.ch, x) => HasIn(new.ch, x)
      /\ new.stream # "closed" /\ ~new.missed =>
            /\ e \in {"alive", "build-error"} => HasIn(new.ch, e)
            /\ e = "build-error" => ErrorStands(new.ch)
            /\ e # "build-ok" /\ ErrorStands(tab.ch) => ErrorStands(new.ch)
  BY ToldIs
<1> HIDE DEF new
<1>2. ShowsTheChild(new, next, kid, rev)
  BY <1>1 DEF ShowsTheChild
<1>3. ShowsTheError(new, next, kid, wrong, rev)
  BY <1>1 DEF ShowsTheError
<1> QED
  BY <1>2, <1>3 DEF new

\* The tree's Go files, as far as they were scanned, stay.
LEMMA GoFilesStay ==
    ASSUME BuilderFits, NEW kind \in Kinds, tree' = Append(tree, kind), UNCHANGED prev
    PROVE  /\ tree' \in Seq(Kinds) /\ Len(tree') = Len(tree) + 1
           /\ \A i \in 1..prev : tree'[i] = tree[i]
           /\ GoFiles(prev)' = GoFiles(prev)
PROOF
<1>1. /\ tree' \in Seq(Kinds) /\ Len(tree') = Len(tree) + 1
      /\ \A i \in 1..Len(tree) : tree'[i] = tree[i]
  BY AppendProperties DEF BuilderFits
<1>2. \A i \in 1..prev : tree'[i] = tree[i]
  BY <1>1 DEF BuilderFits
<1> QED
  BY <1>1, <1>2 DEF GoFiles

LEMMA EditKeeps == ASSUME DevInv, NEW kind \in Kinds, Edit(kind) PROVE DevInv'
PROOF
<1>1. BuilderFits
  BY DEF DevInv
<1>2. /\ tree' \in Seq(Kinds) /\ Len(tree') = Len(tree) + 1 /\ GoFiles(prev)' = GoFiles(prev)
  BY <1>1, GoFilesStay DEF Edit
<1>3. BuilderFits'
  BY <1>1, <1>2 DEF BuilderFits, Edit
<1>4. SeenIsBuilt'
  BY <1>2 DEF DevInv, SeenIsBuilt, Edit
<1>5. \A t \in Tabs : IsFit(t)'
  <2> SUFFICES ASSUME NEW t \in Tabs PROVE IsFit(t)'
    OBVIOUS
  <2>1. IsFit(t) /\ tabs' = tabs /\ UNCHANGED <<builder, child, buildErr, revision>>
    BY DEF DevInv, Edit
  <2>2. TabIsTyped(tabs[t], revision, Len(tree'))
    BY <1>1, <1>2, <2>1 DEF IsFit, TabFits, TabIsTyped, BuilderFits, ATab
  <2> QED
    BY <2>1, <2>2 DEF IsFit, TabFits
<1> QED
  BY <1>3, <1>4, <1>5 DEF DevInv, Edit

\* Styles and other static files are no Go.
LEMMA NoGoIsSeen ==
    ASSUME BuilderFits, SeenIsBuilt, builder = "idle", prev' = Len(tree),
           {tree[i] : i \in prev + 1..Len(tree)} \subseteq {"css", "js"},
           UNCHANGED <<tree, begun, binary, buildErr>>
    PROVE  SeenIsBuilt'
PROOF
<1> DEFINE edits == {tree[i] : i \in prev + 1..Len(tree)}
<1>0. \A i \in prev + 1..Len(tree) : tree[i] \in {"css", "js"}
  <2>1. \A i \in prev + 1..Len(tree) : tree[i] \in edits
    OBVIOUS
  <2> HIDE DEF edits
  <2>2. edits \subseteq {"css", "js"}
    BY DEF edits
  <2> QED
    BY <2>1, <2>2
<1> HIDE DEF edits
<1>1. \A i \in GoFiles(Len(tree)) : i \in GoFiles(prev)
  <2> SUFFICES ASSUME NEW i \in 1..Len(tree), tree[i] \in {"go", "bad"} PROVE i \in 1..prev
    BY DEF GoFiles
  <2>1. i \notin prev + 1..Len(tree)
    BY <1>0
  <2> QED
    BY <2>1 DEF BuilderFits
<1>2. GoFiles(prev)' = GoFiles(Len(tree)) /\ GoFiles(Len(tree)) = GoFiles(prev)
  BY <1>1 DEF BuilderFits, GoFiles
<1> SUFFICES ASSUME ~buildErr, NEW i \in begun + 1..Len(tree), i \in GoFiles(prev)
             PROVE  GoFiles(prev) \subseteq 1..binary
  BY <1>2 DEF SeenIsBuilt
<1>3. i \in begun + 1..prev
  BY DEF GoFiles, BuilderFits
<1> QED
  BY <1>3 DEF SeenIsBuilt

LEMMA NoticeKeeps == ASSUME DevInv, Notice PROVE DevInv'
PROOF
<1> DEFINE edits == {tree[i] : i \in prev + 1..Len(tree)}
<1>1. BuilderFits /\ SeenIsBuilt /\ DOMAIN tabs = Tabs /\ \A t \in Tabs : IsFit(t)
  BY DEF DevInv
<1>2. /\ builder = "idle" /\ prev' = Len(tree)
      /\ UNCHANGED <<tree, begun, binary, child, live, buildErr, recovered, revision, breaks>>
      /\ \/ edits = {"css"} /\ Broadcast("css") /\ UNCHANGED builder
         \/ edits \subseteq {"css", "js"} /\ builder' = "bumping" /\ UNCHANGED tabs
         \/ builder' = "building" /\ UNCHANGED tabs
  BY DEF Notice
<1> HIDE DEF edits
<1>3. BuilderFits'
  BY <1>1, <1>2 DEF BuilderFits
<1>4. CASE edits = {"css"} /\ Broadcast("css") /\ UNCHANGED builder
  <2>1. SeenIsBuilt'
    BY <1>1, <1>2, <1>4, NoGoIsSeen DEF edits
  <2>2. DOMAIN tabs' = Tabs /\ \A t \in Tabs : tabs'[t] = Told(tabs[t], "css")
    BY <1>4, BroadcastTells DEF Events
  <2>3. \A t \in Tabs : IsFit(t)'
    <3> SUFFICES ASSUME NEW t \in Tabs PROVE IsFit(t)'
      OBVIOUS
    <3>1. IsFit(t) /\ "css" \in Events
      BY <1>1 DEF Events
    <3>2. /\ TabIsTyped(tabs[t], revision, Len(tree)) /\ KnowsTheRevision(tabs[t], builder, revision)
          /\ ShowsTheChild(tabs[t], builder, child, revision)
          /\ ShowsTheError(tabs[t], builder, child, buildErr, revision)
      BY <3>1 DEF IsFit, TabFits
    <3>3. TabIsTyped(Told(tabs[t], "css"), revision, Len(tree))
      BY <3>1, <3>2, ToldIs
    <3>4. KnowsTheRevision(Told(tabs[t], "css"), builder, revision)
      BY <3>1, <3>2, ToldKnows
    <3>5. /\ ShowsTheChild(Told(tabs[t], "css"), builder, child, revision)
          /\ ShowsTheError(Told(tabs[t], "css"), builder, child, buildErr, revision)
      BY <3>1, <3>2, ToldShows
    <3> QED
      BY <1>2, <1>4, <2>2, <3>3, <3>4, <3>5 DEF IsFit, TabFits
  <2> QED
    BY <1>3, <2>1, <2>2, <2>3 DEF DevInv
<1>5. CASE edits \subseteq {"css", "js"} /\ builder' = "bumping" /\ UNCHANGED tabs
  <2>1. SeenIsBuilt'
    BY <1>1, <1>2, <1>5, NoGoIsSeen DEF edits
  <2>2. \A t \in Tabs : IsFit(t)'
    BY <1>1, <1>2, <1>5 DEF IsFit, TabFits, KnowsTheRevision, ShowsTheChild, ShowsTheError
  <2> QED
    BY <1>1, <1>3, <1>5, <2>1, <2>2 DEF DevInv
<1>6. CASE builder' = "building" /\ UNCHANGED tabs
  <2>1. SeenIsBuilt'
    BY <1>6 DEF SeenIsBuilt
  <2>2. \A t \in Tabs : IsFit(t)'
    BY <1>1, <1>2, <1>6 DEF IsFit, TabFits, KnowsTheRevision, ShowsTheChild, ShowsTheError
  <2> QED
    BY <1>1, <1>3, <1>6, <2>1, <2>2 DEF DevInv
<1> QED
  BY <1>2, <1>4, <1>5, <1>6

\* After the first build the tree is scanned for the first time; else what was seen is what was.
LEMMA WatchingSees ==
    ASSUME BuilderFits, SeenIsBuilt, builder # "building", Watching,
           UNCHANGED <<tree, binary, buildErr>>
    PROVE  SeenIsBuilt'
PROOF
<1>1. CASE prev = 0
  <2>1. begun' = prev' /\ begun' \in Nat
    BY <1>1 DEF Watching, BuilderFits
  <2>2. \A n \in Nat : n + 1..n = {}
    OBVIOUS
  <2>3. begun' + 1..prev' = {}
    BY <2>1, <2>2
  <2> QED
    BY <2>3 DEF SeenIsBuilt
<1>2. CASE prev # 0
  <2>1. UNCHANGED <<prev, begun>>
    BY <1>2 DEF Watching
  <2>2. GoFiles(prev)' = GoFiles(prev)
    BY <2>1 DEF GoFiles
  <2> QED
    BY <2>1, <2>2 DEF SeenIsBuilt
<1> QED
  BY <1>1, <1>2

LEMMA BuildFailsKeeps == ASSUME DevInv, BuildFails PROVE DevInv'
PROOF
<1>1. BuilderFits /\ \A t \in Tabs : IsFit(t)
  BY DEF DevInv
<1>2. /\ builder = "building" /\ builder' = "idle" /\ buildErr' = TRUE
      /\ Broadcast("build-error") /\ Watching
      /\ UNCHANGED <<tree, binary, child, live, recovered, revision, breaks>>
  BY DEF BuildFails, Watching
<1>3. prev' \in 0..Len(tree) /\ begun' \in 0..Len(tree)
  BY <1>1, <1>2 DEF Watching, BuilderFits
<1>4. BuilderFits'
  BY <1>1, <1>2, <1>3 DEF BuilderFits
<1>5. SeenIsBuilt'
  BY <1>2 DEF SeenIsBuilt
<1>6. DOMAIN tabs' = Tabs /\ \A t \in Tabs : tabs'[t] = Told(tabs[t], "build-error")
  BY <1>2, BroadcastTells DEF Events
<1>7. \A t \in Tabs : IsFit(t)'
  <2> SUFFICES ASSUME NEW t \in Tabs PROVE IsFit(t)'
    OBVIOUS
  <2>1. "build-error" \in Events /\ "build-error" # "alive"
    BY DEF Events
  <2>2. /\ TabIsTyped(tabs[t], revision, Len(tree)) /\ KnowsTheRevision(tabs[t], builder, revision)
        /\ ShowsTheChild(tabs[t], builder, child, revision)
        /\ ShowsTheError(tabs[t], builder, child, buildErr, revision)
    BY <1>1 DEF IsFit, TabFits
  <2>3. TabIsTyped(Told(tabs[t], "build-error"), revision, Len(tree))
    BY <2>1, <2>2, ToldIs
  <2>4. KnowsTheRevision(Told(tabs[t], "build-error"), "idle", revision)
    BY <1>2, <2>1, <2>2, ToldKnows
  <2>5. /\ ShowsTheChild(Told(tabs[t], "build-error"), "idle", child, revision)
        /\ ShowsTheError(Told(tabs[t], "build-error"), "idle", child, TRUE, revision)
    BY <1>2, <2>1, <2>2, ToldShows
  <2> QED
    BY <1>2, <1>6, <2>3, <2>4, <2>5 DEF IsFit, TabFits
<1> QED
  BY <1>4, <1>5, <1>6, <1>7 DEF DevInv

\* The steps that no tab hears of.
LEMMA BuildWorksKeeps == ASSUME DevInv, BuildWorks PROVE DevInv'
PROOF
<1>1. BuilderFits /\ \A t \in Tabs : IsFit(t)
  BY DEF DevInv
<1>2. /\ builder = "building" /\ builder' = "restarting" /\ buildErr' = FALSE
      /\ binary' = Len(tree) /\ recovered' = buildErr
      /\ UNCHANGED <<tree, prev, begun, child, live, revision, tabs, breaks>>
  BY DEF BuildWorks
<1>3. recovered' \in BOOLEAN
  <2>1. buildErr \in BOOLEAN /\ recovered' = buildErr
    BY <1>1, <1>2 DEF BuilderFits
  <2> QED
    BY <2>1
<1>4. binary' \in 0..Len(tree) /\ binary' = Len(tree)
  BY <1>1, <1>2 DEF BuilderFits
<1>5. buildErr' \in BOOLEAN /\ buildErr' = FALSE
  BY <1>2
<1>6. BuilderFits'
  BY <1>1, <1>2, <1>3, <1>4, <1>5 DEF BuilderFits
<1>7. SeenIsBuilt'
  BY <1>1, <1>2 DEF SeenIsBuilt, GoFiles, BuilderFits
<1>8. \A t \in Tabs : IsFit(t)'
  BY <1>1, <1>2 DEF IsFit, TabFits, KnowsTheRevision, ShowsTheChild, ShowsTheError
<1> QED
  BY <1>2, <1>6, <1>7, <1>8 DEF DevInv

LEMMA RestartKeeps == ASSUME DevInv, Restart PROVE DevInv'
PROOF
<1>1. BuilderFits /\ SeenIsBuilt /\ \A t \in Tabs : IsFit(t)
  BY DEF DevInv
<1>2. /\ builder = "restarting" /\ builder' = "waiting"
      /\ child' = [built |-> binary, at |-> "starting"] /\ live' = FALSE
      /\ UNCHANGED <<tree, prev, begun, binary, buildErr, recovered, revision, tabs, breaks>>
  BY DEF Restart
<1>3. child' \in [built : 0..Len(tree), at : {"none", "starting", "up", "gone"}]
  BY <1>1, <1>2 DEF BuilderFits
<1>4. child'.at = "starting" /\ child'.built = binary
  BY <1>2
<1>5. BuilderFits'
  BY <1>1, <1>2, <1>3, <1>4 DEF BuilderFits
<1>6. SeenIsBuilt'
  BY <1>1, <1>2 DEF SeenIsBuilt, GoFiles
<1>7. \A t \in Tabs : IsFit(t)'
  BY <1>1, <1>2, <1>4 DEF IsFit, TabFits, KnowsTheRevision, ShowsTheChild, ShowsTheError
<1> QED
  BY <1>2, <1>5, <1>6, <1>7 DEF DevInv

LEMMA ListensKeeps == ASSUME DevInv, Listens PROVE DevInv'
PROOF
<1>1. BuilderFits /\ SeenIsBuilt /\ \A t \in Tabs : IsFit(t)
  BY DEF DevInv
<1>2. /\ builder = "waiting" /\ builder' \in {"cheering", "bumping"}
      /\ child' = [child EXCEPT !.at = "up"] /\ live' = TRUE
      /\ UNCHANGED <<tree, prev, begun, binary, buildErr, recovered, revision, tabs, breaks>>
  BY DEF Listens
<1>3. BuilderFits'
  BY <1>1, <1>2 DEF BuilderFits
<1>4. SeenIsBuilt'
  BY <1>1, <1>2 DEF SeenIsBuilt, GoFiles
<1>5. \A t \in Tabs : IsFit(t)'
  BY <1>1, <1>2 DEF IsFit, TabFits, KnowsTheRevision, ShowsTheChild, ShowsTheError
<1> QED
  BY <1>2, <1>3, <1>4, <1>5 DEF DevInv

LEMMA NeverListensKeeps == ASSUME DevInv, NeverListens PROVE DevInv'
PROOF
<1>1. BuilderFits /\ SeenIsBuilt /\ \A t \in Tabs : IsFit(t)
  BY DEF DevInv
<1>2. /\ builder = "waiting" /\ builder' = "idle" /\ Watching
      /\ child' = [child EXCEPT !.at = "gone"]
      /\ UNCHANGED <<tree, binary, live, buildErr, recovered, revision, tabs, breaks>>
  BY DEF NeverListens, Watching
<1>3. prev' \in 0..Len(tree) /\ begun' \in 0..Len(tree)
  BY <1>1, <1>2 DEF Watching, BuilderFits
<1>4. BuilderFits'
  BY <1>1, <1>2, <1>3 DEF BuilderFits
<1>5. SeenIsBuilt'
  BY <1>1, <1>2, WatchingSees
<1>6. \A t \in Tabs : IsFit(t)'
  BY <1>1, <1>2 DEF IsFit, TabFits, KnowsTheRevision, ShowsTheChild, ShowsTheError, BuilderFits
<1> QED
  BY <1>2, <1>4, <1>5, <1>6 DEF DevInv

LEMMA ExitsKeeps == ASSUME DevInv, Exits PROVE DevInv'
PROOF
<1>1. BuilderFits /\ SeenIsBuilt /\ \A t \in Tabs : IsFit(t)
  BY DEF DevInv
<1>2. /\ child.at = "up" /\ child' = [child EXCEPT !.at = "gone"]
      /\ UNCHANGED <<tree, prev, begun, builder, binary, live, buildErr, recovered, revision,
                     tabs, breaks>>
  BY DEF Exits
<1>3. BuilderFits'
  BY <1>1, <1>2 DEF BuilderFits
<1>4. SeenIsBuilt'
  BY <1>1, <1>2 DEF SeenIsBuilt, GoFiles
<1>5. \A t \in Tabs : IsFit(t)'
  BY <1>1, <1>2 DEF IsFit, TabFits, KnowsTheRevision, ShowsTheChild, ShowsTheError, BuilderFits
<1> QED
  BY <1>2, <1>3, <1>4, <1>5 DEF DevInv

LEMMA BumpKeeps == ASSUME DevInv, Bump PROVE DevInv'
PROOF
<1>1. BuilderFits /\ SeenIsBuilt /\ \A t \in Tabs : IsFit(t)
  BY DEF DevInv
<1>2. /\ builder = "bumping" /\ builder' = "telling" /\ revision' = revision + 1
      /\ UNCHANGED <<tree, prev, begun, binary, child, live, buildErr, recovered, tabs, breaks>>
  BY DEF Bump
<1>3. BuilderFits'
  BY <1>1, <1>2 DEF BuilderFits
<1>4. SeenIsBuilt'
  BY <1>1, <1>2 DEF SeenIsBuilt, GoFiles
<1>5. \A t \in Tabs : IsFit(t)'
  <2> SUFFICES ASSUME NEW t \in Tabs PROVE IsFit(t)'
    OBVIOUS
  <2>1. /\ revision \in Nat /\ TabIsTyped(tabs[t], revision, Len(tree))
        /\ KnowsTheRevision(tabs[t], builder, revision)
        /\ ShowsTheError(tabs[t], builder, child, buildErr, revision)
    BY <1>1 DEF IsFit, TabFits, BuilderFits
  <2>2. /\ tabs[t] \in ATab /\ tabs[t].remembered # revision + 1 /\ tabs[t].loadedAt # revision + 1
    BY <2>1 DEF TabIsTyped, ATab
  <2>3. TabIsTyped(tabs[t], revision + 1, Len(tree))
    BY <2>1, <2>2 DEF TabIsTyped, ATab
  <2>4. KnowsTheRevision(tabs[t], "telling", revision + 1)
    BY <2>1 DEF KnowsTheRevision
  <2>5. ShowsTheChild(tabs[t], "telling", child, revision + 1)
    BY <2>2 DEF ShowsTheChild
  <2>6. ShowsTheError(tabs[t], "telling", child, buildErr, revision + 1)
    BY <2>1, <2>2 DEF ShowsTheError
  <2> QED
    BY <1>2, <2>3, <2>4, <2>5, <2>6 DEF IsFit, TabFits
<1> QED
  BY <1>2, <1>3, <1>4, <1>5 DEF DevInv

LEMMA CheerKeeps == ASSUME DevInv, Cheer PROVE DevInv'
PROOF
<1>1. BuilderFits /\ SeenIsBuilt /\ \A t \in Tabs : IsFit(t)
  BY DEF DevInv
<1>2. /\ builder = "cheering" /\ builder' = "bumping" /\ Broadcast("build-ok") /\ ~buildErr
      /\ UNCHANGED <<tree, prev, begun, binary, child, live, buildErr, recovered, revision, breaks>>
  BY <1>1 DEF Cheer, BuilderFits
<1>3. BuilderFits'
  BY <1>1, <1>2 DEF BuilderFits
<1>4. SeenIsBuilt'
  BY <1>1, <1>2 DEF SeenIsBuilt, GoFiles
<1>5. DOMAIN tabs' = Tabs /\ \A t \in Tabs : tabs'[t] = Told(tabs[t], "build-ok")
  BY <1>2, BroadcastTells DEF Events
<1>6. \A t \in Tabs : IsFit(t)'
  <2> SUFFICES ASSUME NEW t \in Tabs PROVE IsFit(t)'
    OBVIOUS
  <2>1. "build-ok" \in Events /\ "build-ok" # "build-error"
    BY DEF Events
  <2>2. /\ TabIsTyped(tabs[t], revision, Len(tree)) /\ KnowsTheRevision(tabs[t], builder, revision)
        /\ ShowsTheChild(tabs[t], builder, child, revision)
        /\ ShowsTheError(tabs[t], builder, child, buildErr, revision)
    BY <1>1 DEF IsFit, TabFits
  <2>3. TabIsTyped(Told(tabs[t], "build-ok"), revision, Len(tree))
    BY <2>1, <2>2, ToldIs
  <2>4. KnowsTheRevision(Told(tabs[t], "build-ok"), "bumping", revision)
    BY <1>2, <2>1, <2>2, ToldKnows
  <2>5. /\ ShowsTheChild(Told(tabs[t], "build-ok"), "bumping", child, revision)
        /\ ShowsTheError(Told(tabs[t], "build-ok"), "bumping", child, buildErr, revision)
    BY <1>2, <2>1, <2>2, ToldShows
  <2> QED
    BY <1>2, <1>5, <2>3, <2>4, <2>5 DEF IsFit, TabFits
<1> QED
  BY <1>3, <1>4, <1>5, <1>6 DEF DevInv

LEMMA TellKeeps == ASSUME DevInv, Tell PROVE DevInv'
PROOF
<1>1. BuilderFits /\ SeenIsBuilt /\ \A t \in Tabs : IsFit(t)
  BY DEF DevInv
<1>2. /\ builder = "telling" /\ builder' = "idle" /\ Broadcast("alive") /\ Watching
      /\ UNCHANGED <<tree, binary, child, live, buildErr, recovered, revision, breaks>>
  BY DEF Tell, Watching
<1>3. prev' \in 0..Len(tree) /\ begun' \in 0..Len(tree)
  BY <1>1, <1>2 DEF Watching, BuilderFits
<1>4. BuilderFits'
  BY <1>1, <1>2, <1>3 DEF BuilderFits
<1>5. SeenIsBuilt'
  BY <1>1, <1>2, WatchingSees
<1>6. DOMAIN tabs' = Tabs /\ \A t \in Tabs : tabs'[t] = Told(tabs[t], "alive")
  BY <1>2, BroadcastTells DEF Events
<1>7. \A t \in Tabs : IsFit(t)'
  <2> SUFFICES ASSUME NEW t \in Tabs PROVE IsFit(t)'
    OBVIOUS
  <2>1. "alive" \in Events /\ "alive" # "build-error" /\ "alive" # "build-ok"
    BY DEF Events
  <2>2. /\ TabIsTyped(tabs[t], revision, Len(tree)) /\ KnowsTheRevision(tabs[t], builder, revision)
        /\ ShowsTheChild(tabs[t], builder, child, revision)
        /\ ShowsTheError(tabs[t], builder, child, buildErr, revision)
    BY <1>1 DEF IsFit, TabFits
  <2>3. TabIsTyped(Told(tabs[t], "alive"), revision, Len(tree))
    BY <2>1, <2>2, ToldIs
  <2>4. KnowsTheRevision(Told(tabs[t], "alive"), "idle", revision)
    BY <1>2, <2>1, <2>2, ToldKnows
  <2>5. /\ ShowsTheChild(Told(tabs[t], "alive"), "idle", child, revision)
        /\ ShowsTheError(Told(tabs[t], "alive"), "idle", child, buildErr, revision)
    BY <1>2, <2>1, <2>2, ToldShows
  <2> QED
    BY <1>2, <1>6, <2>3, <2>4, <2>5 DEF IsFit, TabFits
<1> QED
  BY <1>4, <1>5, <1>6, <1>7 DEF DevInv

-----------------------------------------------------------------------------
\* A tab that takes a step leaves the others alone.
LEMMA TabStepKeeps ==
    ASSUME DevInv, NEW t \in Tabs, NEW tab, TabStep(t, tab), breaks' \in 0..MaxBreaks,
           TabFits(tab, builder, child, buildErr, revision, Len(tree))
    PROVE  DevInv'
PROOF
<1>1. /\ BuilderFits /\ SeenIsBuilt /\ DOMAIN tabs = Tabs /\ \A u \in Tabs : IsFit(u)
      /\ UNCHANGED <<tree, prev, begun, builder, binary, child, live, buildErr, recovered, revision>>
      /\ tabs' = [tabs EXCEPT ![t] = tab]
  BY DEF DevInv, TabStep
<1>2. BuilderFits'
  BY <1>1 DEF BuilderFits
<1>3. SeenIsBuilt'
  BY <1>1 DEF SeenIsBuilt, GoFiles
<1>4. DOMAIN tabs' = Tabs /\ \A u \in Tabs : tabs'[u] = IF u = t THEN tab ELSE tabs[u]
  BY <1>1
<1>5. \A u \in Tabs : IsFit(u)'
  BY <1>1, <1>4 DEF IsFit
<1> QED
  BY <1>2, <1>3, <1>4, <1>5 DEF DevInv

LEMMA TabNow ==
    ASSUME DevInv, NEW t \in Tabs
    PROVE  /\ BuilderFits /\ TabFits(tabs[t], builder, child, buildErr, revision, Len(tree))
           /\ revision \in Nat \ {0} /\ Len(tree) \in Nat /\ breaks \in 0..MaxBreaks /\ MaxBreaks \in Nat
PROOF
BY DevAssumption DEF DevInv, IsFit, BuilderFits

LEMMA NothingIsEmpty == <<>> \in Seq(Events) /\ Len(<<>>) = 0 /\ Room \in Nat \ {0}
PROOF
<1>1. <<>> \in Seq(Events) /\ Len(<<>>) = 0
  BY EmptySeq
<1> QED
  BY <1>1, DevAssumption

\* A tab without a document fits whatever runs.
LEMMA BlankFits == ASSUME BuilderFits PROVE TabFits(Blank, builder, child, buildErr, revision, Len(tree))
PROOF
<1>1. /\ Blank.doc = 0 /\ Blank.remembered = 0 /\ Blank.loadedAt = 0 /\ Blank.late = FALSE
      /\ Blank.overlay = FALSE /\ Blank.stream = "closed" /\ Blank.ch = <<>> /\ Blank.missed = FALSE
  BY DEF Blank
<1>2. Blank \in ATab
  BY NothingIsEmpty DEF Blank, ATab
<1> HIDE DEF Blank
<1>3. revision \in Nat \ {0} /\ Len(tree) \in Nat
  BY DEF BuilderFits
<1>4. TabIsTyped(Blank, revision, Len(tree))
  BY <1>1, <1>2, <1>3, NothingIsEmpty DEF TabIsTyped
<1> QED
  BY <1>1, <1>3, <1>4 DEF TabFits, KnowsTheRevision, ShowsTheChild, ShowsTheError

LEMMA LoadKeeps == ASSUME DevInv, NEW t \in Tabs, Load(t) PROVE DevInv'
PROOF
<1> DEFINE tab == [Blank EXCEPT !.doc = child.built, !.loadedAt = revision]
<1>1. TabStep(t, tab) /\ breaks' = breaks
  BY DEF Load
<1>2. /\ tab.doc = child.built /\ tab.loadedAt = revision /\ tab.remembered = 0 /\ tab.late = FALSE
      /\ tab.overlay = FALSE /\ tab.stream = "closed" /\ tab.ch = <<>> /\ tab.missed = FALSE
  BY DEF Blank
<1>3. /\ revision \in Nat \ {0} /\ Len(tree) \in Nat /\ breaks \in 0..MaxBreaks
      /\ child.built \in 0..Len(tree)
  BY TabNow DEF BuilderFits
<1>4. tab \in ATab
  <2>1. Blank \in ATab /\ child.built \in Nat /\ revision \in Nat
    BY <1>3, NothingIsEmpty DEF Blank, ATab
  <2> HIDE DEF Blank
  <2> QED
    BY <2>1 DEF ATab
<1> HIDE DEF tab
<1>5. TabIsTyped(tab, revision, Len(tree))
  BY <1>2, <1>3, <1>4, NothingIsEmpty DEF TabIsTyped
<1>6. TabFits(tab, builder, child, buildErr, revision, Len(tree))
  BY <1>2, <1>3, <1>5 DEF TabFits, KnowsTheRevision, ShowsTheChild, ShowsTheError
<1> QED
  BY <1>1, <1>3, <1>6, TabStepKeeps

LEMMA ConnectKeeps == ASSUME DevInv, NEW t \in Tabs, Connect(t) PROVE DevInv'
PROOF
<1> DEFINE old == tabs[t]
           tab == [old EXCEPT !.stream = "greeting", !.ch = <<>>, !.missed = FALSE]
<1>1. TabStep(t, tab) /\ breaks' = breaks /\ old.doc # 0
  BY DEF Connect
<1>2. TabFits(old, builder, child, buildErr, revision, Len(tree)) /\ breaks \in 0..MaxBreaks
  BY TabNow
<1>3. old \in ATab
  BY <1>2 DEF TabFits, TabIsTyped
<1> HIDE DEF old
<1>4. /\ tab.stream = "greeting" /\ tab.ch = <<>> /\ tab.missed = FALSE
      /\ tab.doc = old.doc /\ tab.loadedAt = old.loadedAt /\ tab.remembered = old.remembered
      /\ tab.late = old.late /\ tab.overlay = old.overlay
  BY <1>3 DEF ATab
<1>5. tab \in ATab
  BY <1>3, NothingIsEmpty DEF ATab
<1> HIDE DEF tab
<1>6. TabIsTyped(tab, revision, Len(tree))
  BY <1>1, <1>2, <1>4, <1>5, NothingIsEmpty DEF TabFits, TabIsTyped
<1>7. KnowsTheRevision(tab, builder, revision) /\ ShowsTheChild(tab, builder, child, revision)
  BY <1>2, <1>4 DEF TabFits, KnowsTheRevision, ShowsTheChild
<1>8. ShowsTheError(tab, builder, child, buildErr, revision)
  <2>1. ErrorStands(tab.ch)
    BY <1>4, NothingIsEmpty DEF ErrorStands
  <2> QED
    BY <1>2, <1>4, <2>1 DEF TabFits, ShowsTheError
<1> QED
  BY <1>1, <1>2, <1>6, <1>7, <1>8, TabStepKeeps DEF TabFits

LEMMA BreakKeeps == ASSUME DevInv, NEW t \in Tabs, Break(t) PROVE DevInv'
PROOF
<1> DEFINE old == tabs[t]
           tab == [old EXCEPT !.stream = "closed", !.ch = <<>>, !.missed = FALSE]
<1>1. TabStep(t, tab) /\ breaks' = breaks + 1 /\ breaks < MaxBreaks
  BY DEF Break
<1>2. /\ TabFits(old, builder, child, buildErr, revision, Len(tree)) /\ breaks \in 0..MaxBreaks
      /\ MaxBreaks \in Nat
  BY TabNow
<1>3. old \in ATab
  BY <1>2 DEF TabFits, TabIsTyped
<1> HIDE DEF old
<1>4. /\ tab.stream = "closed" /\ tab.ch = <<>> /\ tab.missed = FALSE
      /\ tab.doc = old.doc /\ tab.loadedAt = old.loadedAt /\ tab.remembered = old.remembered
      /\ tab.late = old.late /\ tab.overlay = old.overlay
  BY <1>3 DEF ATab
<1>5. tab \in ATab
  BY <1>3, NothingIsEmpty DEF ATab
<1> HIDE DEF tab
<1>6. TabIsTyped(tab, revision, Len(tree))
  BY <1>2, <1>4, <1>5, NothingIsEmpty DEF TabFits, TabIsTyped
<1>7. /\ KnowsTheRevision(tab, builder, revision) /\ ShowsTheChild(tab, builder, child, revision)
      /\ ShowsTheError(tab, builder, child, buildErr, revision)
  BY <1>2, <1>4 DEF TabFits, KnowsTheRevision, ShowsTheChild, ShowsTheError
<1>8. breaks' \in 0..MaxBreaks
  BY <1>1, <1>2
<1> QED
  BY <1>1, <1>6, <1>7, <1>8, TabStepKeeps DEF TabFits

LEMMA GreetErrorKeeps == ASSUME DevInv, NEW t \in Tabs, GreetError(t) PROVE DevInv'
PROOF
<1> DEFINE old == tabs[t]
           tab == [old EXCEPT !.stream = "open", !.overlay = @ \/ buildErr]
<1>1. TabStep(t, tab) /\ breaks' = breaks /\ old.stream = "greeted"
  BY DEF GreetError
<1>2. /\ TabFits(old, builder, child, buildErr, revision, Len(tree)) /\ breaks \in 0..MaxBreaks
      /\ buildErr \in BOOLEAN
  BY TabNow DEF BuilderFits
<1>3. old \in ATab /\ old.overlay \in BOOLEAN
  BY <1>2 DEF TabFits, TabIsTyped, ATab
<1> HIDE DEF old
<1>4. /\ tab.stream = "open" /\ tab.ch = old.ch /\ tab.missed = old.missed
      /\ tab.doc = old.doc /\ tab.loadedAt = old.loadedAt /\ tab.remembered = old.remembered
      /\ tab.late = old.late /\ tab.overlay = (old.overlay \/ buildErr)
  BY <1>3 DEF ATab
<1>5. tab \in ATab
  BY <1>2, <1>3 DEF ATab
<1> HIDE DEF tab
<1>6. TabIsTyped(tab, revision, Len(tree))
  BY <1>1, <1>2, <1>4, <1>5 DEF TabFits, TabIsTyped
<1>7. /\ KnowsTheRevision(tab, builder, revision) /\ ShowsTheChild(tab, builder, child, revision)
      /\ ShowsTheError(tab, builder, child, buildErr, revision)
  BY <1>1, <1>2, <1>4 DEF TabFits, KnowsTheRevision, ShowsTheChild, ShowsTheError
<1> QED
  BY <1>1, <1>2, <1>6, <1>7, TabStepKeeps DEF TabFits

LEMMA GreetKeeps == ASSUME DevInv, NEW t \in Tabs, Greet(t) PROVE DevInv'
PROOF
<1> DEFINE old == tabs[t]
           met == OnAlive(old)
           tab == IF met = Blank THEN Blank ELSE [met EXCEPT !.stream = "greeted"]
<1>1. TabStep(t, tab) /\ breaks' = breaks /\ old.stream = "greeting"
  BY DEF Greet
<1>2. /\ BuilderFits /\ TabFits(old, builder, child, buildErr, revision, Len(tree))
      /\ breaks \in 0..MaxBreaks /\ revision \in Nat \ {0}
  BY TabNow
<1>3. /\ old \in ATab /\ old.remembered \in Nat /\ old.remembered <= revision /\ old.late \in BOOLEAN
      /\ old.loadedAt \in Nat
  BY <1>2 DEF TabFits, TabIsTyped, ATab
<1> HIDE DEF old
<1>4. CASE met = Blank
  BY <1>1, <1>2, <1>4, BlankFits, TabStepKeeps
<1>5. CASE met # Blank
  <2>1. /\ met \in ATab /\ met.remembered = revision /\ met.ch = old.ch /\ met.missed = old.missed
        /\ met.doc = old.doc /\ met.loadedAt = old.loadedAt /\ met.overlay = old.overlay
        /\ met.late = IF old.remembered = 0 THEN revision # old.loadedAt ELSE old.late
    <3>1. CASE old.remembered = 0
      <4>1. met = [old EXCEPT !.remembered = revision, !.late = (revision # old.loadedAt)]
        BY <3>1 DEF OnAlive
      <4> HIDE DEF met
      <4> QED
        BY <1>2, <1>3, <3>1, <4>1 DEF ATab
    <3>2. CASE old.remembered # 0
      <4>1. met = old /\ old.remembered = revision
        BY <1>2, <1>3, <1>5, <3>2 DEF OnAlive
      <4> HIDE DEF met
      <4> QED
        BY <1>3, <3>2, <4>1
    <3> QED
      BY <3>1, <3>2
  <2>2. old.remembered \in {0, revision}
    BY <1>2, <1>3, <1>5 DEF OnAlive
  <2>3. tab = [met EXCEPT !.stream = "greeted"]
    BY <1>5
  <2> HIDE DEF met, tab
  <2>4. /\ tab \in ATab /\ tab.stream = "greeted" /\ tab.remembered = met.remembered
        /\ tab.ch = met.ch /\ tab.missed = met.missed /\ tab.doc = met.doc
        /\ tab.loadedAt = met.loadedAt /\ tab.overlay = met.overlay /\ tab.late = met.late
    BY <2>1, <2>3 DEF ATab
  <2>5. TabIsTyped(tab, revision, Len(tree))
    BY <1>1, <1>2, <2>1, <2>4 DEF TabFits, TabIsTyped
  <2>6. KnowsTheRevision(tab, builder, revision)
    <3>1. ~met.late => revision = old.loadedAt
      <4>1. CASE old.remembered = 0
        BY <2>1, <4>1
      <4>2. CASE old.remembered # 0
        BY <1>2, <1>3, <2>1, <2>2, <4>2 DEF TabFits, KnowsTheRevision
      <4> QED
        BY <4>1, <4>2
    <3> HIDE DEF met
    <3> QED
      BY <2>1, <2>4, <3>1 DEF KnowsTheRevision
  <2>7. ShowsTheChild(tab, builder, child, revision)
    BY <1>2, <2>1, <2>4 DEF TabFits, ShowsTheChild
  <2>8. ShowsTheError(tab, builder, child, buildErr, revision)
    <3>1. tab.overlay = old.overlay /\ tab.missed = old.missed /\ tab.ch = old.ch /\ tab.stream = "greeted"
      BY <2>1, <2>4
    <3>2. old.overlay => old.remembered = revision
      BY <1>2, <2>2 DEF TabFits, TabIsTyped
    <3> QED
      BY <1>1, <1>2, <3>1, <3>2 DEF TabFits, ShowsTheError
  <2> QED
    BY <1>1, <1>2, <2>5, <2>6, <2>7, <2>8, TabStepKeeps DEF TabFits
<1> QED
  BY <1>4, <1>5

LEMMA DeliverKeeps == ASSUME DevInv, NEW t \in Tabs, Deliver(t) PROVE DevInv'
PROOF
<1> DEFINE old == tabs[t]
           left == Tail(old.ch)
           rest == [old EXCEPT !.ch = left]
<1>1. /\ old.stream = "open" /\ old.ch # <<>> /\ breaks' = breaks
      /\ TabStep(t, CASE Head(old.ch) = "alive"       -> OnAlive(rest)
                      [] Head(old.ch) = "build-error" -> [rest EXCEPT !.overlay = buildErr]
                      [] Head(old.ch) = "build-ok"    -> [rest EXCEPT !.overlay = FALSE]
                      [] Head(old.ch) = "css"         -> rest)
  BY DEF Deliver
<1>2. /\ BuilderFits /\ TabFits(old, builder, child, buildErr, revision, Len(tree))
      /\ breaks \in 0..MaxBreaks /\ revision \in Nat \ {0} /\ buildErr \in BOOLEAN
  BY TabNow DEF BuilderFits
<1>3. /\ old \in ATab /\ old.ch \in Seq(Events) /\ Len(old.ch) \in Nat /\ Len(old.ch) <= Room
      /\ Room \in Nat /\ old.remembered \in Nat \ {0} /\ old.remembered <= revision
  BY <1>1, <1>2, DevAssumption DEF TabFits, TabIsTyped, ATab
<1> HIDE DEF old
<1>4. /\ left \in Seq(Events) /\ Len(left) = Len(old.ch) - 1 /\ Head(old.ch) \in Events
      /\ \A x : HasIn(old.ch, x) => Head(old.ch) = x \/ HasIn(left, x)
      /\ ErrorStands(old.ch) =>
            ErrorStands(left) /\ (Head(old.ch) = "build-ok" => HasIn(left, "build-error"))
  BY <1>1, <1>3, TailIs
<1> HIDE DEF left
<1>5. /\ rest \in ATab /\ rest.ch = left /\ rest.stream = "open" /\ rest.missed = old.missed
      /\ rest.doc = old.doc /\ rest.loadedAt = old.loadedAt /\ rest.remembered = old.remembered
      /\ rest.late = old.late /\ rest.overlay = old.overlay
  BY <1>1, <1>3, <1>4 DEF ATab
<1> HIDE DEF rest
<1>6. TabIsTyped(rest, revision, Len(tree))
  BY <1>1, <1>2, <1>3, <1>4, <1>5 DEF TabFits, TabIsTyped
<1>7. ShowsTheChild(rest, builder, child, revision)
  BY <1>2, <1>5 DEF TabFits, ShowsTheChild
<1>8. CASE Head(old.ch) = "alive"
  <2>1. TabStep(t, OnAlive(rest))
    BY <1>1, <1>8
  <2>2. CASE revision > rest.remembered
    <3>1. OnAlive(rest) = Blank
      BY <1>2, <1>3, <1>5, <2>2 DEF OnAlive
    <3> HIDE DEF Blank
    <3> QED
      BY <1>1, <1>2, <2>1, <3>1, BlankFits, TabStepKeeps
  <2>3. CASE ~(revision > rest.remembered)
    <3>1. OnAlive(rest) = rest /\ rest.remembered = revision
      BY <1>2, <1>3, <1>5, <2>3 DEF OnAlive
    <3>2. KnowsTheRevision(rest, builder, revision)
      BY <1>2, <1>5, <3>1 DEF TabFits, KnowsTheRevision
    <3>3. ShowsTheError(rest, builder, child, buildErr, revision)
      BY <1>1, <1>2, <1>4, <1>5, <1>8 DEF TabFits, ShowsTheError
    <3> QED
      BY <1>1, <1>2, <1>6, <1>7, <2>1, <3>1, <3>2, <3>3, TabStepKeeps DEF TabFits
  <2> QED
    BY <2>2, <2>3
<1>9. CASE Head(old.ch) # "alive"
  <2>1. KnowsTheRevision(rest, builder, revision)
    BY <1>1, <1>2, <1>4, <1>5, <1>9 DEF TabFits, KnowsTheRevision
  <2>2. CASE Head(old.ch) = "css"
    <3>1. TabStep(t, rest)
      BY <1>1, <2>2
    <3>2. ShowsTheError(rest, builder, child, buildErr, revision)
      BY <1>1, <1>2, <1>4, <1>5, <2>2 DEF TabFits, ShowsTheError
    <3> QED
      BY <1>1, <1>2, <1>6, <1>7, <2>1, <3>1, <3>2, TabStepKeeps DEF TabFits
  <2>3. ASSUME NEW screen \in BOOLEAN, TabStep(t, [rest EXCEPT !.overlay = screen]),
               screen => buildErr, buildErr /\ ~rest.missed => screen \/ HasIn(left, "build-error")
        PROVE  DevInv'
    <3> DEFINE tab == [rest EXCEPT !.overlay = screen]
    <3>1. /\ tab \in ATab /\ tab.ch = left /\ tab.stream = "open" /\ tab.missed = rest.missed
          /\ tab.doc = rest.doc /\ tab.loadedAt = rest.loadedAt /\ tab.remembered = rest.remembered
          /\ tab.late = rest.late /\ tab.overlay = screen
      BY <1>5 DEF ATab
    <3>2. TabStep(t, tab)
      BY <2>3
    <3> HIDE DEF tab
    <3>3. TabIsTyped(tab, revision, Len(tree))
      BY <1>3, <1>5, <1>6, <3>1 DEF TabIsTyped
    <3>4. KnowsTheRevision(tab, builder, revision) /\ ShowsTheChild(tab, builder, child, revision)
      BY <1>5, <1>7, <2>1, <3>1 DEF KnowsTheRevision, ShowsTheChild
    <3>5. buildErr /\ ~tab.missed => ErrorStands(left)
      BY <1>1, <1>2, <1>4, <1>5, <3>1 DEF TabFits, ShowsTheError
    <3>6. ShowsTheError(tab, builder, child, buildErr, revision)
      BY <2>3, <3>1, <3>5 DEF ShowsTheError
    <3> QED
      BY <1>1, <1>2, <3>2, <3>3, <3>4, <3>6, TabStepKeeps DEF TabFits
  <2>4. CASE Head(old.ch) = "build-error"
    <3>1. TabStep(t, [rest EXCEPT !.overlay = buildErr])
      BY <1>1, <2>4
    <3> QED
      BY <1>2, <2>3, <3>1
  <2>5. CASE Head(old.ch) = "build-ok"
    <3>1. TabStep(t, [rest EXCEPT !.overlay = FALSE])
      BY <1>1, <2>5
    <3>2. buildErr /\ ~rest.missed => HasIn(left, "build-error")
      BY <1>1, <1>2, <1>4, <1>5, <2>5 DEF TabFits, ShowsTheError
    <3> QED
      BY <2>3, <3>1, <3>2
  <2> QED
    BY <1>4, <1>9, <2>2, <2>4, <2>5 DEF Events
<1> QED
  BY <1>8, <1>9

LEMMA DevStep == DevInv /\ [DevNext]_devVars => DevInv'
PROOF
<1> SUFFICES ASSUME DevInv, [DevNext]_devVars PROVE DevInv'
  OBVIOUS
<1>1. ASSUME NEW kind \in Kinds, Edit(kind) PROVE DevInv'
  BY <1>1, EditKeeps
<1>2. CASE Builds
  BY <1>2, NoticeKeeps, BuildFailsKeeps, BuildWorksKeeps, RestartKeeps, ListensKeeps,
     NeverListensKeeps, CheerKeeps, BumpKeeps, TellKeeps DEF Builds
<1>3. CASE Exits
  BY <1>3, ExitsKeeps
<1>4. ASSUME NEW t \in Tabs, Listen(t) \/ Break(t) PROVE DevInv'
  BY <1>4, LoadKeeps, ConnectKeeps, GreetKeeps, GreetErrorKeeps, DeliverKeeps, BreakKeeps DEF Listen
<1>5. CASE UNCHANGED devVars
  BY <1>5 DEF devVars, DevInv, BuilderFits, SeenIsBuilt, GoFiles, IsFit
<1> QED
  BY <1>1, <1>2, <1>3, <1>4, <1>5 DEF DevNext

LEMMA DevStart == DevInit => DevInv
PROOF
<1> SUFFICES ASSUME DevInit PROVE DevInv
  OBVIOUS
<1>1. tree \in Seq(Kinds) /\ Len(tree) = 1
  BY DEF DevInit, Kinds
<1>2. BuilderFits
  <2>1. /\ child = [built |-> 0, at |-> "none"] /\ prev = 0 /\ begun = 0 /\ binary = 0 /\ revision = 1
        /\ breaks = 0 /\ builder = "building" /\ live = FALSE /\ buildErr = FALSE /\ recovered = FALSE
    BY DEF DevInit
  <2>2. /\ child \in [built : 0..Len(tree), at : {"none", "starting", "up", "gone"}]
        /\ child.at = "none"
    BY <1>1, <2>1
  <2>3. live \in BOOLEAN /\ buildErr \in BOOLEAN /\ recovered \in BOOLEAN
    BY <2>1
  <2> QED
    BY <1>1, <2>1, <2>2, <2>3, DevAssumption DEF BuilderFits
<1>3. SeenIsBuilt
  BY DEF DevInit, SeenIsBuilt
<1>4. DOMAIN tabs = Tabs /\ \A t \in Tabs : tabs[t] = Blank
  BY DEF DevInit
<1>5. \A t \in Tabs : IsFit(t)
  BY <1>2, <1>4, BlankFits DEF IsFit
<1> QED
  BY <1>2, <1>3, <1>4, <1>5 DEF DevInv

\* An error that stands, once Go was edited since the first scan, is of the tree as it was seen,
\* or of a later one.
ErrorIsSeen ==
    builder # "building" /\ buildErr /\ (\E i \in begun + 1..prev : i \in GoFiles(prev))
        => \E v \in prev..Len(tree) : ~Compiles(v)

\* Whether the tree compiled is of its Go files alone.
LEMMA GoFilesCompile ==
    ASSUME NEW v, NEW w, GoFiles(v) = GoFiles(w), ~Compiles(v)
    PROVE  ~Compiles(w)
PROOF
BY DEF Compiles

LEMMA ErrorStep == DevInv /\ ErrorIsSeen /\ [DevNext]_devVars => ErrorIsSeen'
PROOF
<1> SUFFICES ASSUME DevInv, ErrorIsSeen, [DevNext]_devVars PROVE ErrorIsSeen'
  OBVIOUS
<1>1. BuilderFits
  BY DEF DevInv
<1>2. /\ tree \in Seq(Kinds) /\ Len(tree) \in Nat /\ prev \in 0..Len(tree) /\ begun \in 0..Len(tree)
      /\ builder \in {"restarting", "waiting", "cheering"} => ~buildErr
  BY <1>1 DEF BuilderFits
<1>3. ASSUME UNCHANGED <<tree, prev, begun, buildErr>>, builder' # "building" => builder # "building"
      PROVE  ErrorIsSeen'
  BY <1>3 DEF ErrorIsSeen, Compiles, GoFiles
<1>4. ASSUME UNCHANGED <<tree, buildErr>>, builder # "building", Watching PROVE ErrorIsSeen'
  <2>1. CASE prev = 0
    <3>1. begun' = prev' /\ begun' \in Nat
      BY <1>2, <1>4, <2>1 DEF Watching
    <3>2. \A n \in Nat : n + 1..n = {}
      OBVIOUS
    <3> QED
      BY <3>1, <3>2 DEF ErrorIsSeen
  <2>2. CASE prev # 0
    BY <1>3, <1>4, <2>2 DEF Watching
  <2> QED
    BY <2>1, <2>2
<1>5. ASSUME NEW kind \in Kinds, Edit(kind) PROVE ErrorIsSeen'
  <2>1. /\ tree' \in Seq(Kinds) /\ Len(tree') = Len(tree) + 1
        /\ \A i \in 1..Len(tree) : tree'[i] = tree[i]
        /\ UNCHANGED <<prev, begun, builder, buildErr>>
    BY <1>2, <1>5, AppendProperties DEF Edit
  <2>2. ASSUME NEW v \in 0..Len(tree) PROVE GoFiles(v)' = GoFiles(v) /\ Compiles(v)' = Compiles(v)
    <3>1. \A i \in 1..v : tree'[i] = tree[i]
      BY <1>2, <2>1
    <3>2. GoFiles(v)' = GoFiles(v)
      BY <3>1 DEF GoFiles
    <3>3. \A i \in GoFiles(v) : tree'[i] = tree[i]
      BY <3>1 DEF GoFiles
    <3>4. Compiles(v)' = (\A i \in GoFiles(v) : (\A j \in GoFiles(v) : j <= i) => tree'[i] = "go")
      BY <3>2 DEF Compiles
    <3> QED
      BY <3>2, <3>3, <3>4 DEF Compiles
  <2> SUFFICES ASSUME builder # "building", buildErr, \E i \in begun + 1..prev : i \in GoFiles(prev)'
               PROVE  \E v \in prev..Len(tree') : ~Compiles(v)'
    BY <2>1 DEF ErrorIsSeen
  <2>3. PICK v \in prev..Len(tree) : ~Compiles(v)
    <3>1. prev \in 0..Len(tree)
      BY <1>2
    <3>2. \E i \in begun + 1..prev : i \in GoFiles(prev)
      BY <2>1, <2>2, <3>1
    <3> QED
      BY <2>1, <3>2 DEF ErrorIsSeen
  <2>4. v \in prev..Len(tree') /\ v \in 0..Len(tree)
    BY <1>2, <2>1, <2>3
  <2> QED
    BY <2>2, <2>3, <2>4
<1>6. CASE Notice
  <2> DEFINE edits == {tree[i] : i \in prev + 1..Len(tree)}
  <2>1. CASE builder' = "building"
    BY <2>1 DEF ErrorIsSeen
  <2>2. CASE builder' # "building"
    <3>1. /\ builder = "idle" /\ prev' = Len(tree) /\ UNCHANGED <<tree, begun, buildErr>>
          /\ edits \subseteq {"css", "js"}
      <4>1. /\ builder = "idle" /\ prev' = Len(tree) /\ UNCHANGED <<tree, begun, buildErr>>
            /\ \/ edits = {"css"}
               \/ edits \subseteq {"css", "js"}
               \/ builder' = "building"
        BY <1>6 DEF Notice
      <4> HIDE DEF edits
      <4> QED
        BY <2>2, <4>1
    <3>2. \A i \in prev + 1..Len(tree) : tree[i] \in edits
      OBVIOUS
    <3> HIDE DEF edits
    <3>3. \A i \in prev + 1..Len(tree) : tree[i] \in {"css", "js"}
      BY <3>1, <3>2
    <3>4. \A v \in prev..Len(tree) : GoFiles(v) = GoFiles(Len(tree))
      BY <1>2, <3>3 DEF GoFiles
    <3> SUFFICES ASSUME buildErr, NEW i \in begun + 1..Len(tree), i \in GoFiles(Len(tree))
                 PROVE  ~Compiles(Len(tree))
      <4>1. Len(tree) \in Len(tree)..Len(tree)
        BY <1>2
      <4>2. GoFiles(prev)' = GoFiles(Len(tree)) /\ Compiles(Len(tree))' = Compiles(Len(tree))
        BY <3>1 DEF GoFiles, Compiles
      <4> QED
        BY <3>1, <4>1, <4>2 DEF ErrorIsSeen
    <3>5. i \in GoFiles(prev) /\ i \in begun + 1..prev
      BY <1>2, <3>4 DEF GoFiles
    <3>6. PICK v \in prev..Len(tree) : ~Compiles(v)
      BY <3>1, <3>5 DEF ErrorIsSeen
    <3> QED
      BY <3>4, <3>6, GoFilesCompile
  <2> QED
    BY <2>1, <2>2
<1>7. CASE BuildFails
  <2>1. ~Compiles(Len(tree)) /\ UNCHANGED tree /\ Watching
    BY <1>7 DEF BuildFails
  <2>2. Len(tree) \in prev'..Len(tree') /\ Compiles(Len(tree))' = Compiles(Len(tree))
    BY <1>2, <2>1 DEF Watching, Compiles, GoFiles
  <2> QED
    BY <2>1, <2>2 DEF ErrorIsSeen
<1>8. CASE BuildWorks
  BY <1>8 DEF BuildWorks, ErrorIsSeen
<1>9. CASE Restart \/ Listens \/ Cheer \/ Bump
  <2>1. UNCHANGED <<tree, prev, begun, buildErr>> /\ builder # "building"
    BY <1>9 DEF Restart, Listens, Cheer, Bump
  <2> QED
    BY <1>3, <2>1
<1>10. CASE NeverListens \/ Tell
  <2>1. UNCHANGED <<tree, buildErr>> /\ builder # "building" /\ Watching
    BY <1>10 DEF NeverListens, Tell
  <2> QED
    BY <1>4, <2>1
<1>11. CASE Builds
  BY <1>6, <1>7, <1>8, <1>9, <1>10, <1>11 DEF Builds
<1>12. ASSUME NEW t \in Tabs, Listen(t) \/ Break(t) PROVE ErrorIsSeen'
  BY <1>3, <1>12 DEF Listen, Load, Connect, Greet, GreetError, Deliver, Break, TabStep
<1>13. CASE Exits
  BY <1>3, <1>13 DEF Exits
<1>14. CASE UNCHANGED devVars
  BY <1>3, <1>14 DEF devVars
<1> QED
  BY <1>5, <1>11, <1>12, <1>13, <1>14 DEF DevNext

LEMMA ErrorBegins == DevInit => ErrorIsSeen
PROOF
BY DEF DevInit, ErrorIsSeen

LEMMA DevPromise == DevInv /\ ErrorIsSeen => EditsArrive
PROOF
<1> SUFFICES ASSUME DevInv, ErrorIsSeen PROVE EditsArrive
  OBVIOUS
<1>1. BuilderFits /\ SeenIsBuilt
  BY DEF DevInv
<1>2. ASSUME Idle, ~buildErr, child.at = "up", \E i \in begun + 1..Len(tree) : i \in GoFiles(Len(tree))
      PROVE  GoFiles(Len(tree)) = GoFiles(child.built)
  <2>1. builder = "idle" /\ prev = Len(tree) /\ child.built = binary /\ binary \in 0..Len(tree)
    BY <1>1, <1>2 DEF Idle, BuilderFits
  <2>2. GoFiles(Len(tree)) \subseteq 1..binary
    BY <1>1, <1>2, <2>1 DEF SeenIsBuilt
  <2> QED
    BY <1>1, <2>1, <2>2 DEF GoFiles, BuilderFits
<1>3. ASSUME NEW t \in Tabs, Idle, Settled(t), child.at = "up"
      PROVE  /\ tabs[t].remembered = revision
             /\ ~tabs[t].late => tabs[t].doc = child.built
             /\ tabs[t].overlay = buildErr
  <2> DEFINE tab == tabs[t]
  <2>1. /\ builder = "idle" /\ tab.stream = "open" /\ tab.ch = <<>> /\ ~tab.missed
    BY <1>3 DEF Idle, Settled
  <2>2. /\ TabFits(tab, builder, child, buildErr, revision, Len(tree)) /\ revision \in Nat \ {0}
        /\ buildErr \in BOOLEAN
    BY TabNow DEF BuilderFits
  <2>3. tab.overlay \in BOOLEAN
    BY <2>2 DEF TabFits, TabIsTyped, ATab
  <2> HIDE DEF tab
  <2>4. \A x : ~HasIn(tab.ch, x)
    BY <2>1, NothingIsEmpty DEF HasIn
  <2>5. tab.remembered = revision
    BY <2>1, <2>2, <2>4 DEF TabFits, KnowsTheRevision
  <2>6. ~tab.late => tab.doc = child.built
    BY <1>3, <2>1, <2>2, <2>5 DEF TabFits, KnowsTheRevision, ShowsTheChild
  <2>7. (tab.overlay => buildErr) /\ (buildErr => tab.overlay)
    BY <1>3, <2>1, <2>2, <2>4, <2>5 DEF TabFits, ShowsTheError
  <2>8. tab.overlay = buildErr
    BY <2>2, <2>3, <2>7
  <2> QED
    BY <2>5, <2>6, <2>8 DEF tab
<1>4. NoEditIsMissed
  <2>1. ASSUME Idle, buildErr, \E i \in begun + 1..Len(tree) : i \in GoFiles(Len(tree))
        PROVE  ~Compiles(Len(tree))
    <3>1. builder = "idle" /\ prev = Len(tree) /\ Len(tree) \in Nat
      BY <1>1, <2>1 DEF Idle, BuilderFits
    <3>2. PICK v \in prev..Len(tree) : ~Compiles(v)
      BY <2>1, <3>1 DEF ErrorIsSeen
    <3> QED
      BY <3>1, <3>2
  <2> QED
    BY <1>2, <2>1 DEF NoEditIsMissed
<1>5. TabsCatchUp
  BY <1>3 DEF TabsCatchUp
<1> QED
  BY <1>4, <1>5 DEF EditsArrive

\* At rest the last edit of Go since the first scan runs in the application, or its error is
\* known, and each tab whose stream has delivered everything shows it, whatever is edited during
\* a build, whichever connections break and whatever a full channel drops that waits in it
\* already (dev.go watch, rebuild, broadcast; alive.js).
THEOREM EveryEditArrives == DevSpec => []EditsArrive
PROOF
<1>1. DevInv /\ ErrorIsSeen /\ [DevNext]_devVars => DevInv' /\ ErrorIsSeen'
  BY DevStep, ErrorStep
<1>2. DevSpec => [](DevInv /\ ErrorIsSeen)
  BY <1>1, DevStart, ErrorBegins, PTL DEF DevSpec
<1> QED
  BY <1>2, DevPromise, PTL
=============================================================================
