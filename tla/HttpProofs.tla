------------------------------ MODULE HttpProofs ------------------------------
(***************************************************************************)
(* What clients are told over HTTP, proved: files (StaticFiles), for any   *)
(* servers, contents and edits; endpoints (Endpoints), for any endpoints,  *)
(* callers and limit; the spans of a request (Tracing), for any guards and *)
(* operations; the page that a URL shows (Routes), for any pages; and what *)
(* the response cache replays (ResponseCache), for any requests and keys.  *)
(***************************************************************************)
EXTENDS StaticFiles, Endpoints, Tracing, Routes, ResponseCache, FiniteSetTheorems, SequenceTheorems,
        WellFoundedInduction, TLAPS

\* An entry that says what was read says so rightly: its time is that of a write of these
\* bytes to the server's file.
Says(e, s) ==
    e # Cold /\ ~e.mixed =>
        e.mod <= file[s].mod /\ (e.mod = file[s].mod => e.bytes = file[s].bytes)

\* The entries under way have bytes once the file is read.
FilesTypeOK ==
    /\ reload \in BOOLEAN /\ edits \in Nat
    /\ file \in [Servers -> [bytes : Contents \cup {NoFile}, mod : Nat]]
    /\ held \in [Servers -> [bytes : Contents \cup {NoFile}, mod : Nat, mixed : BOOLEAN]]
    /\ \A s \in Servers : held[s] # Cold => held[s].bytes \in Contents
    /\ DOMAIN load = Loads
    /\ \A l \in Loads : load[l].at # "idle" =>
          /\ load[l] \in [at : {"stat", "open", "stamp", "pack", "packing", "keep"}, on : Servers,
                          entry : [bytes : Contents \cup {NoFile}, mod : Nat, mixed : BOOLEAN]]
          /\ load[l].at \in {"stamp", "pack", "packing", "keep"} => load[l].entry.bytes \in Contents
          /\ load[l].entry # Cold => load[l].entry.bytes \in Contents

\* What was told and kept is what was served.
ToldRightly ==
    /\ \A t \in told : /\ t[2] \in Contents
                       /\ t = <<[hash |-> HashOf[t[2]], gz |-> t[3]], t[2], t[3]>>
    /\ KeptUnderItsHash

\* The entries of a server that watches its file, in its cache and under way.
StampsHold ==
    reload =>
        /\ \A s \in Servers : file[s].mod <= edits /\ Says(held[s], s)
        /\ \A l \in Loads : load[l].at # "idle" => Says(load[l].entry, load[l].on)

FilesInv == FilesTypeOK /\ ToldRightly /\ StampsHold

\* Serving an entry that has bytes tells the truth.
LEMMA UseTells ==
    ASSUME FilesInv, NEW e, e.bytes \in Contents, Use(e)
    PROVE  ToldRightly'
<1>1. CASE UNCHANGED <<told, keeps>>
  BY <1>1 DEF FilesInv, ToldRightly, KeptUnderItsHash
<1>2. ASSUME NEW link \in Links \cup {Plain}, NEW gzip \in BOOLEAN, Serve(e, link, gzip)
      PROVE  ToldRightly'
  <2> DEFINE zipped == gzip /\ e.bytes \in Shrinks
             t == <<TagOf(e, zipped), e.bytes, zipped>>
  <2>1. told' = told \cup {t} /\ keeps' = keeps \cup {<<u, e.bytes>> : u \in {v \in {link} : ForEver(v, e)}}
    BY <1>2 DEF Serve
  <2>2. t[2] \in Contents /\ t = <<[hash |-> HashOf[t[2]], gz |-> t[3]], t[2], t[3]>>
    BY DEF TagOf
  <2>3. \A k \in keeps' : k[1] = HashOf[k[2]]
    BY <2>1 DEF ForEver, FilesInv, ToldRightly, KeptUnderItsHash
  <2> HIDE DEF t
  <2> QED
    BY <2>1, <2>2, <2>3 DEF FilesInv, ToldRightly, KeptUnderItsHash
<1> QED
  BY <1>1, <1>2 DEF Use

\* A load that goes on, or ends, keeps the others as they are.
LEMMA TurnKeeps ==
    ASSUME FilesInv, NEW l \in Loads, load[l].at # "idle",
           NEW at \in {"open", "stamp", "pack", "packing", "keep"},
           NEW entry \in [bytes : Contents \cup {NoFile}, mod : Nat, mixed : BOOLEAN],
           at # "open" => entry.bytes \in Contents, entry # Cold => entry.bytes \in Contents,
           Says(entry, load[l].on),
           load' = [load EXCEPT ![l].at = at, ![l].entry = entry],
           UNCHANGED <<reload, file, held, edits>>
    PROVE  FilesTypeOK' /\ StampsHold'
<1> DEFINE turned == [load[l] EXCEPT !.at = at, !.entry = entry]
<1>1. load' = [load EXCEPT ![l] = turned]
  BY DEF FilesInv, FilesTypeOK
<1>2. turned \in [at : {"stat", "open", "stamp", "pack", "packing", "keep"}, on : Servers,
                  entry : [bytes : Contents \cup {NoFile}, mod : Nat, mixed : BOOLEAN]]
      /\ turned.at = at /\ turned.entry = entry /\ turned.on = load[l].on
  BY DEF FilesInv, FilesTypeOK
<1> HIDE DEF turned
<1>3. \A m \in Loads : load'[m] = IF m = l THEN turned ELSE load[m]
  BY <1>1 DEF FilesInv, FilesTypeOK
<1>4. FilesTypeOK'
  BY <1>1, <1>2, <1>3 DEF FilesInv, FilesTypeOK
<1>5. StampsHold'
  <2> SUFFICES ASSUME reload PROVE
          /\ \A s \in Servers : file'[s].mod <= edits' /\ Says(held[s], s)'
          /\ \A m \in Loads : load'[m].at # "idle" => Says(load[m].entry, load[m].on)'
    BY DEF StampsHold
  <2>1. \A s \in Servers : file'[s].mod <= edits' /\ Says(held[s], s)'
    BY DEF FilesInv, StampsHold, Says
  <2>2. ASSUME NEW m \in Loads, load'[m].at # "idle" PROVE Says(load[m].entry, load[m].on)'
    <3>1. CASE m = l
      <4>1. load'[m].entry = entry /\ load'[m].on = load[l].on /\ file' = file
        BY <1>2, <1>3, <3>1
      <4> QED
        BY <4>1 DEF Says
    <3>2. CASE m # l
      <4>1. load'[m] = load[m] /\ file' = file
        BY <1>3, <3>2
      <4>2. Says(load[m].entry, load[m].on)
        BY <2>2, <4>1 DEF FilesInv, StampsHold
      <4> QED
        BY <4>1, <4>2 DEF Says
    <3> QED
      BY <3>1, <3>2
  <2> QED
    BY <2>1, <2>2
<1> QED
  BY <1>4, <1>5

\* A load that ends leaves nothing behind.
LEMMA EndKeeps ==
    ASSUME FilesInv, NEW l \in Loads, load' = [load EXCEPT ![l] = Idle],
           UNCHANGED <<reload, file, held, edits>>
    PROVE  FilesTypeOK' /\ StampsHold'
<1>1. \A m \in Loads : load'[m] = IF m = l THEN Idle ELSE load[m]
  BY DEF FilesInv, FilesTypeOK
<1>2. FilesTypeOK'
  BY <1>1 DEF FilesInv, FilesTypeOK, Idle
<1>3. StampsHold'
  BY <1>1 DEF FilesInv, StampsHold, Says, Idle
<1> QED
  BY <1>2, <1>3

\* A write to a watched file gives it a time that no entry has, but those of the loads that are
\* between their read and their stat, and they are mixed.
LEMMA WriteKeeps ==
    ASSUME FilesInv, NEW s \in Servers, NEW c \in Contents \cup {NoFile}, Write(s, c)
    PROVE  FilesInv'
<1>e. edits' = edits + 1 /\ edits \in Nat
  BY DEF Write, FilesInv, FilesTypeOK
<1>f. edits' \in Nat
  BY <1>e
<1> DEFINE moved(l) == load[l].at = "stamp" /\ load[l].on = s
                       /\ load[l].entry.mod = file[s].mod /\ c # NoFile
           new(l) == IF moved(l) THEN [load[l] EXCEPT !.entry.mod = edits', !.entry.mixed = TRUE]
                     ELSE load[l]
<1>1. /\ reload /\ edits' = edits + 1 /\ edits \in Nat
      /\ file' = [file EXCEPT ![s] = [bytes |-> c, mod |-> edits']]
      /\ load' = [l \in Loads |-> new(l)]
      /\ UNCHANGED <<reload, held, zips, told, keeps>>
  BY DEF Write, FilesInv, FilesTypeOK
<1>2. \A l \in Loads : load'[l] = new(l)
  BY <1>1
<1>3. ASSUME NEW l \in Loads, moved(l)
      PROVE  /\ load'[l].at = load[l].at /\ load'[l].on = load[l].on
             /\ load'[l].entry.mixed /\ load'[l].entry.bytes = load[l].entry.bytes
             /\ load'[l] \in [at : {"stat", "open", "stamp", "pack", "packing", "keep"}, on : Servers,
                    entry : [bytes : Contents \cup {NoFile}, mod : Nat, mixed : BOOLEAN]]
  <2>1. load[l] \in [at : {"stat", "open", "stamp", "pack", "packing", "keep"}, on : Servers,
                    entry : [bytes : Contents \cup {NoFile}, mod : Nat, mixed : BOOLEAN]]
    BY <1>3 DEF FilesInv, FilesTypeOK
  <2>2. load'[l] = [load[l] EXCEPT !.entry.mod = edits', !.entry.mixed = TRUE]
    BY <1>2, <1>3
  <2> DEFINE e == [load[l].entry EXCEPT !.mod = edits', !.mixed = TRUE]
  <2>3. load'[l] = [load[l] EXCEPT !.entry = e]
    BY <2>1, <2>2
  <2>4. /\ e \in [bytes : Contents \cup {NoFile}, mod : Nat, mixed : BOOLEAN]
        /\ e.mixed /\ e.bytes = load[l].entry.bytes
    BY <1>f, <2>1
  <2> HIDE DEF e
  <2> QED
    BY <2>1, <2>3, <2>4
<1>4. \A l \in Loads : ~moved(l) => load'[l] = load[l]
  BY <1>2
<1> HIDE DEF new
<1>5. \A t \in Servers : file'[t] = IF t = s THEN [bytes |-> c, mod |-> edits'] ELSE file[t]
  BY <1>1 DEF FilesInv, FilesTypeOK
<1>6. FilesTypeOK'
  <2>1. file' \in [Servers -> [bytes : Contents \cup {NoFile}, mod : Nat]]
    BY <1>1 DEF FilesInv, FilesTypeOK
  <2>2. DOMAIN load' = Loads
    BY <1>1
  <2>3. ASSUME NEW l \in Loads, load'[l].at # "idle"
        PROVE  /\ load'[l] \in [at : {"stat", "open", "stamp", "pack", "packing", "keep"}, on : Servers,
                          entry : [bytes : Contents \cup {NoFile}, mod : Nat, mixed : BOOLEAN]]
               /\ load'[l].at \in {"stamp", "pack", "packing", "keep"} => load'[l].entry.bytes \in Contents
               /\ load'[l].entry # Cold => load'[l].entry.bytes \in Contents
    <3>1. CASE moved(l)
      BY <1>3, <3>1 DEF FilesInv, FilesTypeOK
    <3>2. CASE ~moved(l)
      BY <1>4, <2>3, <3>2 DEF FilesInv, FilesTypeOK
    <3> QED
      BY <3>1, <3>2
  <2> QED
    BY <1>1, <2>1, <2>2, <2>3 DEF FilesInv, FilesTypeOK
<1>7. StampsHold'
  <2>1. \A t \in Servers : file'[t].mod <= edits' /\ file[t].mod <= edits /\ file[t].mod \in Nat
    BY <1>1, <1>5 DEF FilesInv, FilesTypeOK, StampsHold
  <2>2. ASSUME NEW t \in Servers PROVE Says(held[t], t)'
    <3>1. Says(held[t], t) /\ held[t].mod \in Nat
      BY <1>1 DEF FilesInv, FilesTypeOK, StampsHold
    <3> QED
      BY <1>1, <1>5, <2>1, <3>1 DEF Says
  <2>3. ASSUME NEW l \in Loads, load'[l].at # "idle" PROVE Says(load[l].entry, load[l].on)'
    <3>1. CASE moved(l)
      BY <1>3, <3>1 DEF Says
    <3>2. CASE ~moved(l)
      <4>1. load'[l] = load[l] /\ load[l].entry.mod \in Nat /\ load[l].on \in Servers
        BY <1>4, <2>3, <3>2 DEF FilesInv, FilesTypeOK
      <4>2. Says(load[l].entry, load[l].on)
        BY <1>1, <2>3, <4>1 DEF FilesInv, StampsHold
      <4> HIDE DEF moved
      <4> QED
        BY <1>1, <1>5, <2>1, <4>1, <4>2 DEF Says
    <3> QED
      BY <3>1, <3>2
  <2> QED
    BY <2>1, <2>2, <2>3 DEF StampsHold
<1>8. ToldRightly'
  BY <1>1 DEF FilesInv, ToldRightly, KeptUnderItsHash
<1> QED
  BY <1>6, <1>7, <1>8 DEF FilesInv

\* Every step keeps the invariant.
LEMMA FilesStep == FilesInv /\ [StaticNext]_staticVars => FilesInv'
<1> SUFFICES ASSUME FilesInv, [StaticNext]_staticVars PROVE FilesInv'
  OBVIOUS
<1>0. UNCHANGED <<told, keeps>> => ToldRightly'
  BY DEF FilesInv, ToldRightly, KeptUnderItsHash
<1>1. CASE UNCHANGED staticVars
  BY <1>1 DEF staticVars, FilesInv, FilesTypeOK, ToldRightly, KeptUnderItsHash, StampsHold, Says
<1>2. ASSUME NEW s \in Servers, NEW c \in Contents \cup {NoFile}, Write(s, c) PROVE FilesInv'
  BY <1>2, WriteKeeps
<1>3. ASSUME NEW s \in Servers, NEW c \in Contents, Deploy(s, c) PROVE FilesInv'
  <2>1. /\ ~reload /\ reload' = reload /\ edits' = edits + 1
        /\ file' = [file EXCEPT ![s] = [bytes |-> c, mod |-> edits']]
        /\ held' = [held EXCEPT ![s] = Cold]
        /\ load' = [l \in Loads |-> IF load[l].at # "idle" /\ load[l].on = s THEN Idle ELSE load[l]]
        /\ UNCHANGED <<told, keeps>>
    BY <1>3 DEF Deploy
  <2>2. held' \in [Servers -> [bytes : Contents \cup {NoFile}, mod : Nat, mixed : BOOLEAN]]
        /\ \A t \in Servers : held'[t] # Cold => held'[t].bytes \in Contents
    BY <2>1 DEF FilesInv, FilesTypeOK, Cold
  <2>3. file' \in [Servers -> [bytes : Contents \cup {NoFile}, mod : Nat]] /\ edits' \in Nat
    BY <2>1 DEF FilesInv, FilesTypeOK
  <2>4. \A l \in Loads : load'[l] = Idle \/ load'[l] = load[l]
    BY <2>1
  <2>5. FilesTypeOK'
    BY <2>1, <2>2, <2>3, <2>4 DEF FilesInv, FilesTypeOK, Idle
  <2>6. StampsHold'
    BY <2>1 DEF StampsHold
  <2> QED
    BY <1>0, <2>1, <2>5, <2>6 DEF FilesInv
<1>4. ASSUME NEW l \in Loads, NEW s \in Servers, Look(l, s) PROVE FilesInv'
  <2>1. CASE held[s] # Cold /\ ~reload /\ Use(held[s]) /\ UNCHANGED load
    <3>1. held[s].bytes \in Contents
      BY <2>1 DEF FilesInv, FilesTypeOK
    <3>2. ToldRightly'
      BY <2>1, <3>1, UseTells
    <3> QED
      BY <1>4, <2>1, <3>2 DEF Look, FilesInv, FilesTypeOK, StampsHold, Says
  <2>2. CASE /\ load' = [load EXCEPT ![l] = [at |-> "stat", on |-> s, entry |-> held[s]]]
             /\ UNCHANGED <<told, keeps>>
    <3>1. UNCHANGED <<reload, file, held, edits>>
      BY <1>4 DEF Look
    <3>2. \A m \in Loads : load'[m] = IF m = l THEN [at |-> "stat", on |-> s, entry |-> held[s]]
                                      ELSE load[m]
      BY <2>2 DEF FilesInv, FilesTypeOK
    <3>3. FilesTypeOK'
      BY <2>2, <3>1, <3>2 DEF FilesInv, FilesTypeOK
    <3>4. StampsHold'
      BY <3>1, <3>2 DEF FilesInv, StampsHold, Says
    <3> QED
      BY <1>0, <2>2, <3>3, <3>4 DEF FilesInv
  <2> QED
    BY <1>4, <2>1, <2>2 DEF Look
<1>5. ASSUME NEW l \in Loads, Stat(l) PROVE FilesInv'
  <2> DEFINE e == load[l].entry
  <2>1. load[l].at = "stat" /\ UNCHANGED <<reload, file, held, zips, edits>>
    BY <1>5 DEF Stat
  <2>2. CASE e # Cold /\ Use(e) /\ Ends(l)
    <3>1. e.bytes \in Contents
      BY <2>1, <2>2 DEF FilesInv, FilesTypeOK
    <3>2. ToldRightly'
      BY <2>2, <3>1, UseTells
    <3>3. FilesTypeOK' /\ StampsHold'
      BY <2>1, <2>2, EndKeeps DEF Ends
    <3> QED
      BY <3>2, <3>3 DEF FilesInv
  <2>3. CASE Turns(l, "open", Cold) /\ UNCHANGED <<told, keeps>>
    <3>1. Cold \in [bytes : Contents \cup {NoFile}, mod : Nat, mixed : BOOLEAN]
      BY DEF Cold
    <3>2. Says(Cold, load[l].on)
      BY DEF Says
    <3>3. FilesTypeOK' /\ StampsHold'
      BY <2>1, <2>3, <3>1, <3>2, TurnKeeps DEF Turns
    <3> QED
      BY <1>0, <2>3, <3>3 DEF FilesInv
  <2> QED
    BY <1>5, <2>2, <2>3 DEF Stat
<1>6. ASSUME NEW l \in Loads, Open(l) PROVE FilesInv'
  <2> DEFINE f == file[load[l].on]
             e == [Cold EXCEPT !.bytes = f.bytes, !.mod = f.mod]
  <2>1. load[l].at = "open" /\ UNCHANGED <<reload, file, held, zips, told, keeps, edits>>
    BY <1>6 DEF Open
  <2>2. CASE Ends(l)
    <3>1. FilesTypeOK' /\ StampsHold'
      BY <2>1, <2>2, EndKeeps DEF Ends
    <3> QED
      BY <1>0, <2>1, <3>1 DEF FilesInv
  <2>3. CASE f.bytes # NoFile /\ Turns(l, "stamp", e)
    <3>1. f.bytes \in Contents /\ f.mod \in Nat
      BY <2>1, <2>3 DEF FilesInv, FilesTypeOK
    <3>2. /\ e.bytes = f.bytes /\ e.mod = f.mod
          /\ e \in [bytes : Contents \cup {NoFile}, mod : Nat, mixed : BOOLEAN]
      <4>1. Cold \in [bytes : Contents \cup {NoFile}, mod : Nat, mixed : BOOLEAN]
        BY DEF Cold
      <4> QED
        BY <3>1, <4>1
    <3> HIDE DEF e
    <3>3. e.bytes \in Contents
      BY <3>1, <3>2
    <3>4. Says(e, load[l].on)
      BY <3>1, <3>2 DEF Says
    <3>5. FilesTypeOK' /\ StampsHold'
      BY <2>1, <2>3, <3>2, <3>3, <3>4, TurnKeeps DEF Turns
    <3> QED
      BY <1>0, <2>1, <3>5 DEF FilesInv
  <2> QED
    BY <1>6, <2>2, <2>3 DEF Open
<1>7. ASSUME NEW l \in Loads, NEW at \in {"pack", "packing", "keep"},
             load[l].at \in {"stamp", "pack", "packing"}, Turns(l, at, load[l].entry),
             UNCHANGED <<reload, file, held, told, keeps, edits>>
      PROVE  FilesInv'
  <2> DEFINE e == load[l].entry
  <2>1. e \in [bytes : Contents \cup {NoFile}, mod : Nat, mixed : BOOLEAN] /\ e.bytes \in Contents
    BY <1>7 DEF FilesInv, FilesTypeOK
  <2>2. CASE reload
    <3>1. Says(e, load[l].on)
      BY <1>7, <2>2 DEF FilesInv, StampsHold
    <3>2. FilesTypeOK' /\ StampsHold'
      BY <1>7, <2>1, <3>1, TurnKeeps DEF Turns
    <3> QED
      BY <1>0, <1>7, <3>2 DEF FilesInv
  <2>3. CASE ~reload
    <3> DEFINE turned == [load[l] EXCEPT !.at = at, !.entry = e]
    <3>1. load' = [load EXCEPT ![l] = turned]
      BY <1>7 DEF Turns, FilesInv, FilesTypeOK
    <3>2. turned \in [at : {"stat", "open", "stamp", "pack", "packing", "keep"}, on : Servers,
                  entry : [bytes : Contents \cup {NoFile}, mod : Nat, mixed : BOOLEAN]]
          /\ turned.at = at /\ turned.entry = e
      BY <1>7 DEF FilesInv, FilesTypeOK
    <3> HIDE DEF turned
    <3>3. FilesTypeOK'
      BY <1>7, <2>1, <3>1, <3>2 DEF FilesInv, FilesTypeOK
    <3>4. StampsHold'
      BY <1>7, <2>3 DEF StampsHold
    <3> QED
      BY <1>0, <1>7, <3>3, <3>4 DEF FilesInv
  <2> QED
    BY <2>2, <2>3
<1>8. ASSUME NEW l \in Loads, Stamp(l) \/ Pack(l) \/ Zipped(l) PROVE FilesInv'
  BY <1>7, <1>8 DEF Stamp, Pack, Zipped
<1>9. ASSUME NEW l \in Loads, Keep(l) PROVE FilesInv'
  <2> DEFINE e == load[l].entry
             s == load[l].on
  <2>1. /\ load[l].at = "keep" /\ held' = [held EXCEPT ![s] = e] /\ Use(e) /\ Ends(l)
        /\ UNCHANGED <<reload, file, zips, edits>>
    BY <1>9 DEF Keep
  <2>2. /\ e \in [bytes : Contents \cup {NoFile}, mod : Nat, mixed : BOOLEAN] /\ e.bytes \in Contents
        /\ s \in Servers
    BY <2>1 DEF FilesInv, FilesTypeOK
  <2>3. ToldRightly'
    BY <2>1, <2>2, UseTells
  <2>4. \A m \in Loads : load'[m] = IF m = l THEN Idle ELSE load[m]
    BY <2>1 DEF FilesInv, FilesTypeOK, Ends
  <2>5. FilesTypeOK'
    BY <2>1, <2>2, <2>4 DEF FilesInv, FilesTypeOK, Idle, Ends
  <2>6. reload => Says(e, s)
    BY <2>1 DEF FilesInv, StampsHold
  <2> HIDE DEF e, s
  <2>7. \A t \in Servers : held'[t] = IF t = s THEN e ELSE held[t]
    BY <2>1 DEF FilesInv, FilesTypeOK
  <2>8. StampsHold'
    BY <2>1, <2>4, <2>6, <2>7 DEF FilesInv, StampsHold, Says, Idle
  <2> QED
    BY <2>3, <2>5, <2>8 DEF FilesInv
<1> QED
  BY <1>1, <1>2, <1>3, <1>4, <1>5, <1>6, <1>8, <1>9 DEF StaticNext

\* No load is under way at first, and nothing was told.
LEMMA FilesStart == StaticInit => FilesInv
<1> SUFFICES ASSUME StaticInit PROVE FilesInv
  OBVIOUS
<1>1. FilesTypeOK
  BY DEF StaticInit, FilesTypeOK, Cold, Idle
<1>2. ToldRightly
  BY DEF StaticInit, ToldRightly, KeptUnderItsHash
<1>3. StampsHold
  BY DEF StaticInit, StampsHold, Says, Idle
<1> QED
  BY <1>1, <1>2, <1>3 DEF FilesInv

\* The invariant gives the three promises.
LEMMA FilesPromise == FilesInv => FilesAreWhatTheySay
<1> SUFFICES ASSUME FilesInv PROVE FilesAreWhatTheySay
  OBVIOUS
<1>1. KeptUnderItsHash
  BY DEF FilesInv, ToldRightly
<1>2. OneBodyPerTag
  <2> SUFFICES ASSUME NEW a \in told, NEW b \in told, a[1] = b[1] PROVE a = b
    BY DEF OneBodyPerTag
  <2>1. /\ a[2] \in Contents /\ a = <<[hash |-> HashOf[a[2]], gz |-> a[3]], a[2], a[3]>>
        /\ b[2] \in Contents /\ b = <<[hash |-> HashOf[b[2]], gz |-> b[3]], b[2], b[3]>>
    BY DEF FilesInv, ToldRightly
  <2>2. [hash |-> HashOf[a[2]], gz |-> a[3]] = [hash |-> HashOf[b[2]], gz |-> b[3]]
    BY <2>1
  <2>3. HashOf[a[2]] = HashOf[b[2]] /\ a[3] = b[3]
    BY <2>2
  <2>4. a[2] = b[2]
    BY <2>1, <2>3, StaticAssumption
  <2> QED
    BY <2>1, <2>3, <2>4
<1>3. StampNamesBytes
  BY DEF StampNamesBytes, SameStamp, FilesInv, StampsHold, Says
<1> QED
  BY <1>1, <1>2, <1>3 DEF FilesAreWhatTheySay

\* Whatever files change to, and whenever, while any number of requests load them: a tag names
\* one body, a link that is kept for ever names its bytes, and a time in a watched server's cache
\* is that of the bytes beside it.
THEOREM FilesSayWhatTheyAre == StaticSpec => []FilesAreWhatTheySay
  BY FilesStart, FilesStep, FilesPromise, PTL DEF StaticSpec

-----------------------------------------------------------------------------
(* Endpoints.                                                               *)

\* What a request holds, when there may be no endpoints and no addresses.
AnEndpoint == CHOOSE e \in Endpoints : TRUE
AnAddress  == CHOOSE i \in Addresses : TRUE
AnyValue   == [endpoint : Endpoints, user : {Named(s) : s \in Sessions \cup {NoSession}},
               got : {DecodeQuery(Endpoint[e].field, t) : e \in Endpoints, t \in Texts}]
              \cup {NoValue}
AnyAnswer  == [code : Nat, value : AnyValue, message : Messages \cup {"none"}]
AnyAsk ==
    [at       : {"new", "limit", "roles", "permissions", "cache", "run", "store", "done"},
     endpoint : Endpoints \cup {AnEndpoint}, session : Sessions \cup {NoSession},
     address  : Addresses \cup {AnAddress},
     sent     : {"nil", "zero", "refused", "plain", "spaced", "raw"}, text : Texts,
     answer   : AnyAnswer, got : AnyAnswer, held : SUBSET {"role", "permission"},
     admitted : BOOLEAN, ran : BOOLEAN]

\* The value of a session's own query at an endpoint.
Right(e, s, t) == [endpoint |-> e, user |-> Named(s), got |-> DecodeQuery(Endpoint[e].field, t)]

\* Who an entry is of.
Who(s) == IF config.identity THEN Named(s) ELSE s

AskTypeOK ==
    /\ config \in [identity : BOOLEAN, authorize : BOOLEAN, permit : BOOLEAN] /\ Accepted(config)
    /\ ask \in [Calls -> AnyAsk]
    /\ \A r \in Calls : ask[r].at # "new" => ask[r].endpoint \in Endpoints
    /\ \A k \in DOMAIN spent : spent[k] \in Nat /\ spent[k] <= Allowed

\* What an entry holds is right for whoever finds it.
StoreIsRight ==
    \A e \in Endpoints, t \in Texts, s \in Sessions \cup {NoSession} :
        <<e, t, Who(s)>> \in DOMAIN store => store[<<e, t, Who(s)>>] = Right(e, s, t)

\* A request is past a gate only with what it asks for, and has a value only of its own.
Gated(q) ==
    /\ q.at \in {"permissions", "cache", "run", "store"} \/ q.answer.value # NoValue =>
          (Endpoint[q.endpoint].roles => "role" \in q.held)
    /\ q.at \in {"cache", "run", "store"} \/ q.answer.value # NoValue =>
          (Endpoint[q.endpoint].permissions => "permission" \in q.held)
    /\ q.answer.value # NoValue =>
          q.at \in {"store", "done"} /\ q.answer.value = Right(q.endpoint, q.session, q.text)
    /\ q.at = "store" => q.answer.value # NoValue

\* What a client's URL says is what it was called with, and what it gets is the answer.
Across(q) ==
    /\ q.sent \notin {"raw", "refused"} =>
          q.text = EncodeQuery(q.sent) /\ q.sent \in Sendable(Endpoint[q.endpoint].field)
    /\ q.sent = "refused" => q.at = "done" /\ ~q.ran /\ q.got.code = 400 /\ q.got.value = NoValue
    /\ q.got.value # NoValue => q.got = q.answer
    /\ q.at \notin {"store", "done"} => q.got = NoAnswer

\* A request that was refused found its bucket empty.
Counted(q) ==
    /\ q.at \in {"new", "limit"} => ~q.admitted
    /\ q.answer.code = 429 => Spent(LimitKey(q)) >= Allowed

\* The tokens taken are those of the requests let through.
TokensAreCounted ==
    \A e, x, y :
        /\ IsFiniteSet(Admitted(e, <<x, y>>))
        /\ Cardinality(Admitted(e, <<x, y>>)) = Spent(<<e, Omitted, x, y>>)

AskInv ==
    /\ AskTypeOK /\ StoreIsRight /\ TokensAreCounted
    /\ \A r \in Calls : Gated(ask[r]) /\ Across(ask[r]) /\ Counted(ask[r])

-----------------------------------------------------------------------------
\* The new record of a request that keeps what it was counted by.
LEMMA AskMoves ==
    ASSUME AskInv, NEW r \in Calls, NEW n \in AnyAsk, ask' = [ask EXCEPT ![r] = n],
           n.at # "new" => n.endpoint \in Endpoints,
           n.admitted = ask[r].admitted,
           n.admitted => /\ n.endpoint = ask[r].endpoint /\ n.session = ask[r].session
                         /\ n.address = ask[r].address,
           Gated(n), Across(n), Counted(n), StoreIsRight', UNCHANGED <<config, spent>>
    PROVE  AskInv'
<1>1. \A p \in Calls : ask'[p] = IF p = r THEN n ELSE ask[p]
  BY DEF AskInv, AskTypeOK
<1>2. AskTypeOK'
  BY <1>1 DEF AskInv, AskTypeOK, Accepted
<1>3. ASSUME NEW e, NEW c PROVE Admitted(e, c)' = Admitted(e, c)
  BY <1>1 DEF Admitted, CountedAs
<1>4. TokensAreCounted'
  BY <1>3 DEF AskInv, TokensAreCounted, Spent
<1>5. \A q : (Gated(q)' <=> Gated(q)) /\ (Across(q)' <=> Across(q)) /\ (Counted(q)' <=> Counted(q))
  BY DEF Gated, Across, Counted, Spent, LimitKey
<1>6. ASSUME NEW p \in Calls PROVE Gated(ask'[p]) /\ Across(ask'[p]) /\ Counted(ask'[p])
  BY <1>1 DEF AskInv
<1>7. \A p \in Calls : (Gated(ask[p]) /\ Across(ask[p]) /\ Counted(ask[p]))'
  BY <1>6 DEF Gated, Across, Counted, Spent, LimitKey
<1> QED
  BY <1>2, <1>4, <1>7 DEF AskInv

\* What a request has before its run, and what the lemmas start from.
LEMMA AskFacts ==
    ASSUME AskInv, NEW r \in Calls
    PROVE  /\ ask[r] \in AnyAsk /\ Gated(ask[r]) /\ Across(ask[r]) /\ Counted(ask[r])
           /\ ask[r].at # "new" => ask[r].endpoint \in Endpoints
           /\ StoreIsRight /\ Accepted(config)
BY DEF AskInv, AskTypeOK

LEMMA NewAskIsAny ==
    /\ NoAnswer \in AnyAnswer /\ NoAnswer.value = NoValue /\ NoAnswer.code = 0
    /\ NewAsk \in AnyAsk
<1>1. NoAnswer \in AnyAnswer /\ NoAnswer.value = NoValue /\ NoAnswer.code = 0
  BY DEF NoAnswer, AnyAnswer, AnyValue
<1>2. NewAsk \in AnyAsk
  BY <1>1 DEF NewAsk, AnyAsk, AnEndpoint, AnAddress, Texts, Omitted
<1> QED
  BY <1>1, <1>2

\* A refusal, at any place before the run: it has no value.
LEMMA AnswerMoves ==
    ASSUME AskInv, NEW r \in Calls, ask[r].at \in {"limit", "roles", "permissions", "run"},
           NEW code \in Nat, NEW message \in Messages, NEW n,
           \/ n = Answer(ask[r], code, message)
           \/ n = [Answer(ask[r], code, message) EXCEPT !.ran = TRUE],
           Asks(r, n), code = 429 => Spent(LimitKey(ask[r])) >= Allowed,
           UNCHANGED <<config, rights, changes, store, spent>>
    PROVE  AskInv'
<1> DEFINE q == ask[r]
           a == [code |-> code, value |-> NoValue, message |-> message]
           m == [q EXCEPT !.at = "done", !.answer = a]
<1>1. q \in AnyAsk /\ Gated(q) /\ Across(q) /\ Counted(q) /\ q.endpoint \in Endpoints /\ StoreIsRight
  BY AskFacts
<1>2. a \in AnyAnswer /\ a.value = NoValue /\ a.code = code
  BY DEF AnyAnswer, AnyValue
<1>3. ask' = [ask EXCEPT ![r] = n] /\ (n = m \/ n = [m EXCEPT !.ran = TRUE])
  BY DEF Asks, Answer
<1> HIDE DEF a
<1>4. m \in AnyAsk
  BY <1>1, <1>2 DEF AnyAsk
<1>5. /\ m.at = "done" /\ m.answer = a /\ m.got = q.got /\ m.endpoint = q.endpoint
      /\ m.session = q.session /\ m.address = q.address /\ m.text = q.text /\ m.sent = q.sent
      /\ m.admitted = q.admitted /\ m.held = q.held
  BY <1>1 DEF AnyAsk
<1> HIDE DEF m
<1>6. n \in AnyAsk
  <2>1. [m EXCEPT !.ran = TRUE] \in AnyAsk
    BY <1>4 DEF AnyAsk
  <2> QED
    BY <1>3, <1>4, <2>1
<1>7. /\ n.at = "done" /\ n.answer = a /\ n.got = q.got /\ n.endpoint = q.endpoint
      /\ n.session = q.session /\ n.address = q.address /\ n.text = q.text /\ n.sent = q.sent
      /\ n.admitted = q.admitted /\ n.held = q.held
  BY <1>3, <1>4, <1>5 DEF AnyAsk
<1>8. Gated(n)
  BY <1>2, <1>7 DEF Gated
<1>9. Across(n)
  BY <1>1, <1>7, NewAskIsAny DEF Across
<1>10. Counted(n)
  BY <1>2, <1>7 DEF Counted, LimitKey, Spent
<1>11. StoreIsRight'
  BY <1>1 DEF StoreIsRight, Who
<1> QED
  BY <1>1, <1>3, <1>6, <1>7, <1>8, <1>9, <1>10, <1>11, AskMoves

\* A step from one place to the next, with what was held then, and no answer yet.
LEMMA PlaceMoves ==
    ASSUME AskInv, NEW r \in Calls, NEW at \in {"roles", "permissions", "cache", "run"},
           ask[r].at \in {"limit", "roles", "permissions", "cache"},
           NEW holds \in SUBSET {"role", "permission"}, ask[r].held \subseteq holds,
           at = "permissions" => (Endpoint[ask[r].endpoint].roles => "role" \in holds),
           at \in {"cache", "run"} =>
               /\ Endpoint[ask[r].endpoint].roles => "role" \in holds
               /\ Endpoint[ask[r].endpoint].permissions => "permission" \in holds,
           Asks(r, [ask[r] EXCEPT !.at = at, !.held = holds]),
           UNCHANGED <<config, rights, changes, store, spent>>
    PROVE  AskInv'
<1> DEFINE q == ask[r]
           n == [q EXCEPT !.at = at, !.held = holds]
<1>1. q \in AnyAsk /\ Gated(q) /\ Across(q) /\ Counted(q) /\ q.endpoint \in Endpoints /\ StoreIsRight
  BY AskFacts
<1>2. ask' = [ask EXCEPT ![r] = n]
  BY DEF Asks
<1>3. n \in AnyAsk
  BY <1>1 DEF AnyAsk
<1>4. /\ n.at = at /\ n.answer = q.answer /\ n.got = q.got /\ n.endpoint = q.endpoint
      /\ n.session = q.session /\ n.address = q.address /\ n.text = q.text /\ n.sent = q.sent
      /\ n.admitted = q.admitted /\ n.held = holds /\ n.ran = q.ran
  BY <1>1 DEF AnyAsk
<1> HIDE DEF n
<1>5. Gated(n)
  BY <1>1, <1>4 DEF Gated
<1>6. Across(n)
  BY <1>1, <1>4, NewAskIsAny DEF Across
<1>7. Counted(n)
  BY <1>1, <1>4 DEF Counted, LimitKey, Spent
<1>8. StoreIsRight'
  BY <1>1 DEF StoreIsRight, Who
<1> QED
  BY <1>1, <1>2, <1>3, <1>4, <1>5, <1>6, <1>7, <1>8, AskMoves

\* A token that is taken is a request's that is let through now.
LEMMA AdmitKeeps == ASSUME AskInv, NEW r \in Calls, Admit(r) PROVE AskInv'
<1> DEFINE q == ask[r]
           n == [q EXCEPT !.at = "roles", !.admitted = TRUE]
           k == LimitKey(q)
<1>1. q \in AnyAsk /\ Gated(q) /\ Across(q) /\ Counted(q) /\ q.endpoint \in Endpoints /\ StoreIsRight
  BY AskFacts DEF Admit
<1>2. /\ ask' = [ask EXCEPT ![r] = n] /\ q.at = "limit" /\ Spent(k) < Allowed
      /\ spent' = [l \in DOMAIN spent \cup {k} |-> IF l = k THEN Spent(k) + 1 ELSE spent[l]]
      /\ UNCHANGED <<config, rights, changes, store>>
  BY DEF Asks, Admit
<1>3. n \in AnyAsk
  BY <1>1 DEF AnyAsk
<1>4. /\ n.at = "roles" /\ n.answer = q.answer /\ n.got = q.got /\ n.endpoint = q.endpoint
      /\ n.session = q.session /\ n.address = q.address /\ n.text = q.text /\ n.sent = q.sent
      /\ n.admitted = TRUE /\ n.held = q.held /\ n.ran = q.ran
  BY <1>1 DEF AnyAsk
<1>5. k = <<q.endpoint, Omitted, CountedAs(q)[1], CountedAs(q)[2]>>
  BY DEF LimitKey, CountedAs
<1> HIDE DEF n, k
<1>6. \A p \in Calls : ask'[p] = IF p = r THEN n ELSE ask[p]
  BY <1>2 DEF AskInv, AskTypeOK
<1>7. \A l : Spent(l) \in Nat /\ Spent(l) <= Allowed /\ Spent(l)' = IF l = k THEN Spent(k) + 1 ELSE Spent(l)
  <2>1. \A l : Spent(l) \in Nat /\ Spent(l) <= Allowed
    BY EndpointsAssumption DEF AskInv, AskTypeOK, Spent
  <2>2. \A l : Spent(l)' = IF l \in DOMAIN spent' THEN spent'[l] ELSE 0
    BY DEF Spent
  <2>3. \A l : Spent(l)' = IF l = k THEN Spent(k) + 1 ELSE Spent(l)
    BY <1>2, <2>2 DEF Spent
  <2> QED
    BY <2>1, <2>3
<1>8. AskTypeOK'
  <2>2. ASSUME NEW l \in DOMAIN spent' PROVE spent'[l] \in Nat /\ spent'[l] <= Allowed
    <3>1. Spent(k) \in Nat /\ Spent(k) < Allowed /\ Allowed \in Nat
      BY <1>2, <1>7, EndpointsAssumption
    <3>2. spent'[l] = IF l = k THEN Spent(k) + 1 ELSE spent[l]
      BY <1>2, <2>2
    <3>3. l # k => spent[l] \in Nat /\ spent[l] <= Allowed
      BY <1>2, <2>2 DEF AskInv, AskTypeOK
    <3> QED
      BY <3>1, <3>2, <3>3
  <2> QED
    BY <1>1, <1>2, <1>3, <1>4, <1>6, <2>2 DEF AskInv, AskTypeOK, Accepted
<1>9. StoreIsRight'
  BY <1>1, <1>2 DEF StoreIsRight, Who
<1>10. TokensAreCounted'
  <2> SUFFICES ASSUME NEW e, NEW x, NEW y
               PROVE  /\ IsFiniteSet(Admitted(e, <<x, y>>)')
                      /\ Cardinality(Admitted(e, <<x, y>>)') = Spent(<<e, Omitted, x, y>>)'
    BY DEF TokensAreCounted
  <2>1. IsFiniteSet(Admitted(e, <<x, y>>)) /\ Cardinality(Admitted(e, <<x, y>>)) = Spent(<<e, Omitted, x, y>>)
    BY DEF AskInv, TokensAreCounted
  <2>2. \A p \in Calls : CountedAs(ask[p])' = CountedAs(ask'[p])
    BY <1>2 DEF CountedAs
  <2>3. CountedAs(n) = CountedAs(q)
    BY <1>4 DEF CountedAs
  <2>4. CASE e = q.endpoint /\ <<x, y>> = CountedAs(q)
    <3>1. Admitted(e, <<x, y>>)' = Admitted(e, <<x, y>>) \cup {r}
      BY <1>4, <1>6, <2>2, <2>3, <2>4 DEF Admitted
    <3>2. r \notin Admitted(e, <<x, y>>)
      BY <1>1, <1>2 DEF Admitted, Counted
    <3>3. IsFiniteSet(Admitted(e, <<x, y>>)')
          /\ Cardinality(Admitted(e, <<x, y>>)') = Cardinality(Admitted(e, <<x, y>>)) + 1
      BY <2>1, <3>1, <3>2, FS_AddElement
    <3>4. k = <<e, Omitted, x, y>>
      BY <1>5, <2>4
    <3> QED
      BY <1>7, <2>1, <3>3, <3>4
  <2>5. CASE ~(e = q.endpoint /\ <<x, y>> = CountedAs(q))
    <3>1. Admitted(e, <<x, y>>)' = Admitted(e, <<x, y>>)
      BY <1>1, <1>2, <1>4, <1>6, <2>2, <2>3, <2>5 DEF Admitted, Counted
    <3>2. CountedAs(q) = <<CountedAs(q)[1], CountedAs(q)[2]>>
      BY DEF CountedAs
    <3>3. k # <<e, Omitted, x, y>>
      BY <1>5, <2>5, <3>2
    <3> QED
      BY <1>7, <2>1, <3>1, <3>3
  <2> QED
    BY <2>4, <2>5
<1>11. ASSUME NEW p \in Calls PROVE (Gated(ask[p]) /\ Across(ask[p]) /\ Counted(ask[p]))'
  <2>1. Gated(ask'[p]) /\ Across(ask'[p])
    <3>1. CASE p = r
      <4>1. Gated(n)
        BY <1>1, <1>2, <1>4 DEF Gated
      <4>2. Across(n)
        BY <1>1, <1>2, <1>4, NewAskIsAny DEF Across
      <4> QED
        BY <1>6, <3>1, <4>1, <4>2
    <3>2. CASE p # r
      BY <1>6, <3>2, AskFacts
    <3> QED
      BY <3>1, <3>2
  <2>2. Counted(ask[p])'
    <3>1. LimitKey(ask[p])' = LimitKey(ask'[p])
      BY <1>2 DEF LimitKey
    <3>2. CASE p = r
      <4>1. ask'[p] = n
        BY <1>6, <3>2
      <4>2. n.answer.code # 429 \/ Spent(k) >= Allowed
        BY <1>1, <1>4 DEF Counted, k
      <4>3. n.answer.code # 429
        BY <1>2, <1>7, <4>2, EndpointsAssumption
      <4> QED
        BY <1>4, <4>1, <4>3 DEF Counted
    <3>3. CASE p # r
      <4>1. ask'[p] = ask[p] /\ Counted(ask[p])
        BY <1>6, <3>3, AskFacts
      <4>2. Spent(LimitKey(ask[p]))' = Spent(LimitKey(ask[p]))' /\ LimitKey(ask[p])' = LimitKey(ask[p])
        BY <3>1, <4>1
      <4>3. ask'[p].answer.code = 429 => Spent(LimitKey(ask[p])) >= Allowed
        BY <4>1 DEF Counted
      <4> DEFINE l == LimitKey(ask[p])
      <4>4. Spent(l)' = IF l' = k THEN Spent(k) + 1 ELSE IF l' \in DOMAIN spent THEN spent[l'] ELSE 0
        BY <1>2 DEF Spent
      <4>5. Spent(l)' >= Spent(l)
        BY <1>7, <4>2, <4>4 DEF Spent
      <4> HIDE DEF l
      <4>6. ask'[p].answer.code = 429 => Spent(l)' >= Allowed
        <5>1. Spent(l) \in Nat /\ Spent(l)' \in Int
          BY <1>7, <4>2, <4>4 DEF l, Spent
        <5> QED
          BY <4>3, <4>5, <5>1, EndpointsAssumption DEF l
      <4> QED
        BY <4>1, <4>6 DEF Counted, l
    <3> QED
      BY <3>2, <3>3
  <2>3. (Gated(ask[p]) /\ Across(ask[p]))'
    BY <2>1 DEF Gated, Across
  <2> QED
    BY <2>2, <2>3
<1> QED
  BY <1>8, <1>9, <1>10, <1>11 DEF AskInv

\* What a handler is given of a text is a value of the field, or nothing it can read.
LEMMA RightValues ==
    ASSUME NEW e \in Endpoints, NEW s \in Sessions \cup {NoSession}, NEW t \in Texts
    PROVE  Right(e, s, t) \in AnyValue /\ Right(e, s, t) # NoValue
<1>1. Right(e, s, t) \in AnyValue
  BY DEF Right, AnyValue
<1>2. DecodeQuery(Endpoint[e].field, t) # "none"
  BY DEF DecodeQuery, Texts, Omitted, Unreadable
<1>3. Right(e, s, t).got = DecodeQuery(Endpoint[e].field, t) /\ NoValue.got = "none"
  BY DEF Right, NoValue
<1> QED
  BY <1>1, <1>2, <1>3

\* n is the request q further on.
Carries(n, q) ==
    /\ n.got = q.got /\ n.endpoint = q.endpoint /\ n.session = q.session /\ n.address = q.address
    /\ n.text = q.text /\ n.sent = q.sent /\ n.admitted = q.admitted /\ n.held = q.held

\* A request with an answer that has a value, or none.
Answered(q, ran, at, code, value) ==
    [q EXCEPT !.ran = ran, !.at = at,
              !.answer = [code |-> code, message |-> "none", value |-> value]]

\* It keeps what it was asked with.
LEMMA AnsweredIsAny ==
    ASSUME NEW q \in AnyAsk, NEW ran \in BOOLEAN, NEW at \in {"store", "done"},
           NEW code \in Nat, NEW value \in AnyValue
    PROVE  LET n == Answered(q, ran, at, code, value)
           IN  /\ n \in AnyAsk /\ n.at = at /\ n.answer.code = code /\ n.answer.value = value
               /\ Carries(n, q)
<1> DEFINE a == [code |-> code, message |-> "none", value |-> value]
           m == [q EXCEPT !.ran = ran, !.at = at]
           n == [m EXCEPT !.answer = a]
<1>1. a \in AnyAnswer /\ a.value = value /\ a.code = code
  BY DEF AnyAnswer
<1>2. n = Answered(q, ran, at, code, value)
  BY DEF Answered
<1> HIDE DEF a
<1>3. /\ m \in AnyAsk /\ m.at = at /\ m.got = q.got /\ m.endpoint = q.endpoint
      /\ m.session = q.session /\ m.address = q.address /\ m.text = q.text /\ m.sent = q.sent
      /\ m.admitted = q.admitted /\ m.held = q.held
  BY DEF AnyAsk
<1> HIDE DEF m
<1>4. /\ n \in AnyAsk /\ n.answer = a /\ n.at = at /\ n.got = q.got /\ n.endpoint = q.endpoint
      /\ n.session = q.session /\ n.address = q.address /\ n.text = q.text /\ n.sent = q.sent
      /\ n.admitted = q.admitted /\ n.held = q.held
  BY <1>1, <1>3 DEF AnyAsk
<1> HIDE DEF n
<1> QED
  BY <1>1, <1>2, <1>4 DEF Carries

\* An answer with the value of the request's own query.
LEMMA ValueMoves ==
    ASSUME AskInv, NEW r \in Calls, ask[r].at \in {"cache", "run"},
           NEW n \in AnyAsk, ask' = [ask EXCEPT ![r] = n],
           n.at \in {"store", "done"}, n.at = "store" => n.answer.value # NoValue,
           n.answer.value # NoValue =>
               n.answer.value = Right(ask[r].endpoint, ask[r].session, ask[r].text),
           n.answer.code # 429, Carries(n, ask[r]),
           UNCHANGED <<config, rights, changes, store, spent>>
    PROVE  AskInv'
<1> DEFINE q == ask[r]
<1> USE DEF Carries
<1>1. q \in AnyAsk /\ Gated(q) /\ Across(q) /\ Counted(q) /\ q.endpoint \in Endpoints /\ StoreIsRight
  BY AskFacts
<1>2. Gated(n)
  <2>1. /\ Endpoint[n.endpoint].roles => "role" \in n.held
        /\ Endpoint[n.endpoint].permissions => "permission" \in n.held
    BY <1>1 DEF Gated
  <2> QED
    BY <2>1 DEF Gated
<1>3. Across(n)
  BY <1>1, NewAskIsAny DEF Across
<1>4. Counted(n)
  BY DEF Counted
<1>5. StoreIsRight'
  <2>1. store' = store /\ config' = config
    OBVIOUS
  <2> HIDE DEF q
  <2>2. \A s : Who(s)' = Who(s)
    BY <2>1 DEF Who
  <2> QED
    BY <1>1, <2>1, <2>2 DEF StoreIsRight
<1>6. /\ n.endpoint \in Endpoints /\ n.admitted = ask[r].admitted
      /\ n.endpoint = ask[r].endpoint /\ n.session = ask[r].session /\ n.address = ask[r].address
  BY <1>1
<1> HIDE DEF q, Carries
<1> QED
  BY <1>2, <1>3, <1>4, <1>5, <1>6, AskMoves

\* What is kept is right for whoever has its key.
LEMMA KeepKeeps == ASSUME AskInv, NEW r \in Calls, CacheKeeps(r) PROVE AskInv'
<1> DEFINE q == ask[r]
           n == [q EXCEPT !.at = "done"]
<1>1. q \in AnyAsk /\ Gated(q) /\ Across(q) /\ Counted(q) /\ q.endpoint \in Endpoints /\ StoreIsRight
  BY AskFacts DEF CacheKeeps
<1>2. /\ ask' = [ask EXCEPT ![r] = n] /\ q.at = "store" /\ UNCHANGED <<config, rights, changes, spent>>
      /\ store' = [k \in DOMAIN store \cup {CacheKey(q)} |->
                      IF k = CacheKey(q) THEN q.answer.value ELSE store[k]]
  BY DEF Asks, CacheKeeps
<1>3. n \in AnyAsk
  BY <1>1 DEF AnyAsk
<1>4. /\ n.at = "done" /\ n.answer = q.answer /\ n.got = q.got /\ n.endpoint = q.endpoint
      /\ n.session = q.session /\ n.address = q.address /\ n.text = q.text /\ n.sent = q.sent
      /\ n.admitted = q.admitted /\ n.held = q.held /\ n.ran = q.ran
  BY <1>1 DEF AnyAsk
<1> HIDE DEF n
<1>5. Gated(n) /\ Across(n) /\ Counted(n)
  <2>1. Gated(n)
    BY <1>1, <1>2, <1>4 DEF Gated
  <2>2. Across(n)
    BY <1>1, <1>2, <1>4 DEF Across
  <2>3. Counted(n)
    BY <1>1, <1>4 DEF Counted, LimitKey, Spent
  <2> QED
    BY <2>1, <2>2, <2>3
<1>6. q.answer.value = Right(q.endpoint, q.session, q.text)
  BY <1>1, <1>2 DEF Gated
<1>7. CacheKey(q) = <<q.endpoint, q.text, Who(q.session)>>
  BY DEF CacheKey, Who
<1>8. StoreIsRight'
  <2> SUFFICES ASSUME NEW e \in Endpoints, NEW t \in Texts, NEW s \in Sessions \cup {NoSession},
                      <<e, t, Who(s)>> \in DOMAIN store'
               PROVE  store'[<<e, t, Who(s)>>] = Right(e, s, t)
    BY <1>2 DEF StoreIsRight, Who
  <2>1. CASE <<e, t, Who(s)>> = CacheKey(q)
    <3>1. e = q.endpoint /\ t = q.text /\ Who(s) = Who(q.session)
      BY <1>7, <2>1
    <3>2. Named(s) = Named(q.session)
      BY <3>1 DEF Who
    <3>3. Right(e, s, t) = Right(q.endpoint, q.session, q.text)
      BY <3>1, <3>2 DEF Right
    <3> QED
      BY <1>2, <1>6, <2>1, <3>3
  <2>2. CASE <<e, t, Who(s)>> # CacheKey(q)
    BY <1>1, <1>2, <2>2 DEF StoreIsRight
  <2> QED
    BY <2>1, <2>2
<1> QED
  BY <1>1, <1>2, <1>3, <1>4, <1>5, <1>8, AskMoves

\* A request begins.
LEMMA BeginMoves ==
    ASSUME AskInv, NEW r \in Calls, ask[r].at = "new", NEW n \in AnyAsk,
           ask' = [ask EXCEPT ![r] = n], n.endpoint \in Endpoints, n.at \in {"limit", "done"},
           n.admitted = FALSE, n.ran = FALSE, n.answer = NoAnswer, n.got.value = NoValue,
           n.sent \notin {"raw", "refused"} =>
               n.text = EncodeQuery(n.sent) /\ n.sent \in Sendable(Endpoint[n.endpoint].field),
           n.sent = "refused" => n.at = "done" /\ n.got.code = 400,
           n.at = "limit" => n.got = NoAnswer,
           UNCHANGED <<config, rights, changes, store, spent>>
    PROVE  AskInv'
<1>1. ask[r] \in AnyAsk /\ Counted(ask[r]) /\ StoreIsRight
  BY AskFacts
<1>2. Gated(n)
  BY NewAskIsAny DEF Gated
<1>3. Across(n)
  BY DEF Across
<1>4. Counted(n)
  BY NewAskIsAny DEF Counted
<1>5. StoreIsRight'
  BY <1>1 DEF StoreIsRight, Who
<1>6. n.admitted = ask[r].admitted
  BY <1>1 DEF Counted, AnyAsk
<1> QED
  BY <1>2, <1>3, <1>4, <1>5, <1>6, AskMoves

\* What a generated client sends, and what anybody may.
LEMMA BeginKeeps ==
    ASSUME AskInv, NEW r \in Calls, NEW e \in Endpoints, NEW s \in Sessions \cup {NoSession},
           NEW i \in Addresses, ClientCalls(r, e, s, i) \/ RequestComes(r, e, s, i)
    PROVE  AskInv'
<1>0. ask[r].at = "new" /\ UNCHANGED <<config, rights, changes, store, spent>>
  BY DEF ClientCalls, RequestComes
<1>1. CASE ClientCalls(r, e, s, i)
  <2>1. PICK v \in Sendable(Endpoint[e].field) :
          LET q == [NewAsk EXCEPT !.endpoint = e, !.session = s, !.address = i, !.sent = v]
          IN  Asks(r, IF v = "refused"
                         THEN [q EXCEPT !.at = "done", !.got =
                                  [code |-> 400, value |-> NoValue, message |-> "input"]]
                         ELSE [q EXCEPT !.at = "limit", !.text = EncodeQuery(v)])
    BY <1>1 DEF ClientCalls
  <2>2. v \in {"nil", "zero", "refused", "plain", "spaced"}
    BY DEF Sendable
  <2> DEFINE q == [NewAsk EXCEPT !.endpoint = e, !.session = s, !.address = i, !.sent = v]
             refusal == [code |-> 400, value |-> NoValue, message |-> "input"]
  <2>3. q \in AnyAsk
    BY <2>2, NewAskIsAny DEF AnyAsk
  <2>4. /\ q.endpoint = e /\ q.sent = v /\ q.answer = NoAnswer /\ q.got = NoAnswer
        /\ q.admitted = FALSE /\ q.ran = FALSE
    BY DEF NewAsk
  <2> HIDE DEF q
  <2>5. refusal \in AnyAnswer /\ refusal.code = 400 /\ refusal.value = NoValue
    BY DEF AnyAnswer, AnyValue, Messages
  <2>6. CASE v = "refused"
    <3> DEFINE n == [q EXCEPT !.at = "done", !.got = refusal]
    <3>1. ask' = [ask EXCEPT ![r] = n]
      BY <2>1, <2>6 DEF q, Asks
    <3> HIDE DEF refusal
    <3>2. n \in AnyAsk
      BY <2>3, <2>5 DEF AnyAsk
    <3>3. /\ n.at = "done" /\ n.got = refusal /\ n.endpoint = e /\ n.sent = v /\ n.answer = NoAnswer
          /\ n.admitted = FALSE /\ n.ran = FALSE
      BY <2>3, <2>4 DEF AnyAsk
    <3> HIDE DEF n
    <3>4. n.got.value = NoValue /\ n.got.code = 400
      BY <2>5, <3>3
    <3>5. n.sent \notin {"raw", "refused"} =>
              n.text = EncodeQuery(n.sent) /\ n.sent \in Sendable(Endpoint[n.endpoint].field)
      BY <2>6, <3>3
    <3>6. n.at # "limit" /\ n.at \in {"limit", "done"} /\ n.endpoint \in Endpoints
      BY <3>3
    <3> QED
      BY <1>0, <3>1, <3>2, <3>3, <3>4, <3>5, <3>6, BeginMoves
  <2>7. CASE v # "refused"
    <3> DEFINE n == [q EXCEPT !.at = "limit", !.text = EncodeQuery(v)]
    <3>1. ask' = [ask EXCEPT ![r] = n]
      BY <2>1, <2>7 DEF q, Asks
    <3>2. EncodeQuery(v) \in Texts
      BY <2>2, <2>7 DEF EncodeQuery, Texts, Omitted
    <3>3. n \in AnyAsk
      BY <2>3, <3>2 DEF AnyAsk
    <3>4. /\ n.at = "limit" /\ n.got = NoAnswer /\ n.endpoint = e /\ n.sent = v /\ n.answer = NoAnswer
          /\ n.admitted = FALSE /\ n.ran = FALSE /\ n.text = EncodeQuery(v)
      BY <2>3, <2>4 DEF AnyAsk
    <3> HIDE DEF n
    <3> QED
      BY <1>0, <2>7, <3>1, <3>3, <3>4, BeginMoves, NewAskIsAny
  <2> QED
    BY <2>6, <2>7
<1>2. CASE RequestComes(r, e, s, i)
  <2>1. PICK text \in Texts : Asks(r, [NewAsk EXCEPT !.at = "limit", !.endpoint = e, !.session = s,
                                                        !.address = i, !.text = text])
    BY <1>2 DEF RequestComes
  <2> DEFINE n == [NewAsk EXCEPT !.at = "limit", !.endpoint = e, !.session = s, !.address = i, !.text = text]
  <2>2. n \in AnyAsk
    BY NewAskIsAny DEF AnyAsk
  <2>3. /\ n.at = "limit" /\ n.got = NoAnswer /\ n.endpoint = e /\ n.sent = "raw" /\ n.answer = NoAnswer
        /\ n.admitted = FALSE /\ n.ran = FALSE
    BY DEF NewAsk
  <2>4. ask' = [ask EXCEPT ![r] = n]
    BY <2>1 DEF Asks
  <2> HIDE DEF n
  <2> QED
    BY <1>0, <2>2, <2>3, <2>4, BeginMoves, NewAskIsAny
<1> QED
  BY <1>1, <1>2

\* What the client gets is the answer.
LEMMA ClientKeeps == ASSUME AskInv, NEW r \in Calls, ClientGets(r) PROVE AskInv'
<1> DEFINE q == ask[r]
           n == [q EXCEPT !.got = q.answer]
<1>1. q \in AnyAsk /\ Gated(q) /\ Across(q) /\ Counted(q) /\ q.endpoint \in Endpoints /\ StoreIsRight
  BY AskFacts DEF ClientGets
<1>2. /\ ask' = [ask EXCEPT ![r] = n] /\ q.at \in {"store", "done"} /\ q.got = NoAnswer
      /\ UNCHANGED <<config, rights, changes, store, spent>>
  BY DEF Asks, ClientGets
<1>3. n \in AnyAsk
  BY <1>1 DEF AnyAsk
<1>4. /\ n.at = q.at /\ n.answer = q.answer /\ n.got = q.answer /\ n.endpoint = q.endpoint
      /\ n.session = q.session /\ n.address = q.address /\ n.text = q.text /\ n.sent = q.sent
      /\ n.admitted = q.admitted /\ n.held = q.held /\ n.ran = q.ran
  BY <1>1 DEF AnyAsk
<1> HIDE DEF n
<1>5. q.sent # "refused"
  BY <1>1, <1>2, NewAskIsAny DEF Across
<1>6. Gated(n)
  BY <1>1, <1>4 DEF Gated
<1>7. Across(n)
  BY <1>1, <1>2, <1>4, <1>5 DEF Across
<1>8. Counted(n)
  BY <1>1, <1>4 DEF Counted, LimitKey, Spent
<1>9. StoreIsRight'
  BY <1>1, <1>2 DEF StoreIsRight, Who
<1> QED
  BY <1>1, <1>2, <1>3, <1>4, <1>6, <1>7, <1>8, <1>9, AskMoves

\* What the application and the store do leaves the requests alone.
LEMMA OthersKeep ==
    ASSUME AskInv, StoreIsRight', UNCHANGED <<config, spent, ask>>
    PROVE  AskInv'
<1>1. AskTypeOK'
  BY DEF AskInv, AskTypeOK, Accepted
<1>2. TokensAreCounted'
  <2>1. ASSUME NEW e, NEW c PROVE Admitted(e, c)' = Admitted(e, c)
    BY DEF Admitted, CountedAs
  <2> QED
    BY <2>1 DEF AskInv, TokensAreCounted, Spent
<1>3. ASSUME NEW r \in Calls PROVE (Gated(ask[r]) /\ Across(ask[r]) /\ Counted(ask[r]))'
  BY AskFacts DEF Gated, Across, Counted, Spent, LimitKey
<1> QED
  BY <1>1, <1>2, <1>3 DEF AskInv

\* The two gates.
LEMMA GateKeeps == ASSUME AskInv, NEW r \in Calls, Authorize(r) \/ Permit(r) PROVE AskInv'
<1> DEFINE q == ask[r]
           e == Endpoint[q.endpoint]
<1>1. q \in AnyAsk /\ Gated(q) /\ q.endpoint \in Endpoints /\ Accepted(config)
  BY AskFacts DEF Authorize, Permit, Gate
<1>2. ASSUME NEW at, NEW right \in {"role", "permission"}, NEW asked, NEW next, Gate(r, at, right, asked, next),
             at \in {"roles", "permissions"}, next \in {"permissions", "cache", "run"},
             next = "permissions" => right = "role" /\ (e.roles => asked),
             next # "permissions" => at = "permissions" /\ right = "permission" /\ (e.permissions => asked)
      PROVE  AskInv'
  <2> DEFINE holds == Holds(q.session, right)
             known == q.held \cup (IF holds THEN {right} ELSE {})
  <2>1. q.at = at /\ UNCHANGED <<config, rights, changes, store, spent>>
    BY <1>2 DEF Gate
  <2>2. CASE asked /\ ~holds
    <3> DEFINE a == Answer(q, 403, "forbidden")
    <3>1. Asks(r, a)
      BY <1>2, <2>2 DEF Gate
    <3>2. q.at \in {"limit", "roles", "permissions", "run"} /\ "forbidden" \in Messages
      BY <1>2, <2>1 DEF Messages
    <3> HIDE DEF a
    <3> QED
      BY <2>1, <3>1, <3>2, AnswerMoves DEF a
  <2>3. CASE ~(asked /\ ~holds)
    <3>1. Asks(r, [q EXCEPT !.at = next, !.held = known])
      BY <1>2, <2>3 DEF Gate
    <3>2. known \in SUBSET {"role", "permission"} /\ q.held \subseteq known
      BY <1>1, <1>2 DEF AnyAsk
    <3>3. next = "permissions" => (e.roles => "role" \in known)
      BY <1>2, <2>3
    <3>4. next # "permissions" => (e.permissions => "permission" \in known)
      BY <1>2, <2>3
    <3>5. next # "permissions" => (e.roles => "role" \in known)
      BY <1>1, <1>2, <2>1 DEF Gated
    <3> HIDE DEF known
    <3> QED
      BY <1>2, <2>1, <3>1, <3>2, <3>3, <3>4, <3>5, PlaceMoves
  <2> QED
    BY <2>2, <2>3
<1>3. CASE Authorize(r)
  BY <1>1, <1>2, <1>3 DEF Authorize, Accepted
<1>4. CASE Permit(r)
  BY <1>1, <1>2, <1>4 DEF Permit, Accepted
<1> QED
  BY <1>3, <1>4

\* Every step keeps the invariant.
LEMMA AskStep == AskInv /\ [EndpointsNext]_endpointVars => AskInv'
<1> SUFFICES ASSUME AskInv, [EndpointsNext]_endpointVars PROVE AskInv'
  OBVIOUS
<1>0. StoreIsRight
  BY DEF AskInv
<1>1. CASE UNCHANGED endpointVars
  BY <1>0, <1>1, OthersKeep DEF endpointVars, StoreIsRight, Who
<1>2. ASSUME NEW u \in Users, RightsChange(u) PROVE AskInv'
  BY <1>0, <1>2, OthersKeep DEF RightsChange, StoreIsRight, Who
<1>3. ASSUME NEW k \in DOMAIN store, EntryGoes(k) PROVE AskInv'
  BY <1>0, <1>3, OthersKeep DEF EntryGoes, StoreIsRight, Who
<1>4. ASSUME NEW r \in Calls, NEW e \in Endpoints, NEW s \in Sessions \cup {NoSession}, NEW i \in Addresses,
             ClientCalls(r, e, s, i) \/ RequestComes(r, e, s, i)
      PROVE  AskInv'
  BY <1>4, BeginKeeps
<1>5. ASSUME NEW r \in Calls, Unlimited(r) \/ CacheMisses(r) PROVE AskInv'
  <2> DEFINE q == ask[r]
  <2>1. q \in AnyAsk /\ Gated(q)
    BY AskFacts
  <2>2. q.held \in SUBSET {"role", "permission"} /\ \A at : [q EXCEPT !.at = at] = [q EXCEPT !.at = at, !.held = q.held]
    BY <2>1 DEF AnyAsk
  <2>3. CASE Unlimited(r)
    BY <2>2, <2>3, PlaceMoves DEF Unlimited
  <2>4. CASE CacheMisses(r)
    BY <2>1, <2>2, <2>4, PlaceMoves DEF CacheMisses, Gated
  <2> QED
    BY <1>5, <2>3, <2>4
<1>6. ASSUME NEW r \in Calls, Admit(r) PROVE AskInv'
  BY <1>6, AdmitKeeps
<1>7. ASSUME NEW r \in Calls, Refuse(r) \/ InputRefused(r) PROVE AskInv'
  <2>1. CASE Refuse(r)
    <3>1. /\ ask[r].at = "limit" /\ Spent(LimitKey(ask[r])) >= Allowed
          /\ Asks(r, Answer(ask[r], 429, "limited")) /\ UNCHANGED <<config, rights, changes, store, spent>>
      BY <2>1 DEF Refuse
    <3> DEFINE n == Answer(ask[r], 429, "limited")
    <3>2. Asks(r, n) /\ n = Answer(ask[r], 429, "limited") /\ 429 \in Nat /\ "limited" \in Messages
      BY <3>1 DEF Messages
    <3> HIDE DEF n
    <3> QED
      BY <3>1, <3>2, AnswerMoves
  <2>2. CASE InputRefused(r)
    <3>1. /\ ask[r].at = "run" /\ Asks(r, Answer(ask[r], 400, "input"))
          /\ UNCHANGED <<config, rights, changes, store, spent>>
      BY <2>2 DEF InputRefused
    <3> DEFINE n == Answer(ask[r], 400, "input")
    <3>2. Asks(r, n) /\ n = Answer(ask[r], 400, "input") /\ 400 \in Nat /\ "input" \in Messages
      BY <3>1 DEF Messages
    <3> HIDE DEF n
    <3> QED
      BY <3>1, <3>2, AnswerMoves
  <2> QED
    BY <1>7, <2>1, <2>2
<1>8. ASSUME NEW r \in Calls, Authorize(r) \/ Permit(r) PROVE AskInv'
  BY <1>8, GateKeeps
<1>9. ASSUME NEW r \in Calls, CacheHits(r) PROVE AskInv'
  <2> DEFINE q == ask[r]
  <2>1. q \in AnyAsk /\ q.endpoint \in Endpoints
    BY <1>9, AskFacts DEF CacheHits
  <2>2. CacheKey(q) = <<q.endpoint, q.text, Who(q.session)>>
    BY DEF CacheKey, Who
  <2>3. store[CacheKey(q)] = Right(q.endpoint, q.session, q.text)
    <3>1. StoreIsRight /\ CacheKey(q) \in DOMAIN store
      BY <1>9, AskFacts DEF CacheHits
    <3>2. q.text \in Texts /\ q.session \in Sessions \cup {NoSession}
      BY <2>1 DEF AnyAsk
    <3> HIDE DEF q
    <3> QED
      BY <2>1, <2>2, <3>1, <3>2 DEF StoreIsRight
  <2> DEFINE value == Right(q.endpoint, q.session, q.text)
             n == Answered(q, q.ran, "done", 200, value)
  <2>4. ask' = [ask EXCEPT ![r] = n]
    <3> DEFINE a == [code |-> 200, value |-> value, message |-> "none"]
               b == [code |-> 200, message |-> "none", value |-> value]
    <3>a. a = b
      OBVIOUS
    <3>b. q = [q EXCEPT !.ran = q.ran]
      BY <2>1 DEF AnyAsk
    <3>c. n = [q EXCEPT !.ran = q.ran, !.at = "done", !.answer = b]
      BY DEF Answered
    <3> HIDE DEF a, b
    <3>d. [q EXCEPT !.at = "done", !.answer = a] = [[q EXCEPT !.ran = q.ran] EXCEPT !.at = "done", !.answer = b]
      BY <3>a, <3>b
    <3>1. [q EXCEPT !.at = "done", !.answer = [code |-> 200, value |-> value, message |-> "none"]] = n
      BY <3>c, <3>d DEF a
    <3> HIDE DEF n
    <3> QED
      BY <1>9, <2>3, <3>1 DEF CacheHits, Asks
  <2>5. value \in AnyValue /\ q.ran \in BOOLEAN /\ 200 \in Nat
    BY <2>1, RightValues DEF AnyAsk
  <2>6. /\ n \in AnyAsk /\ n.at = "done" /\ n.answer.code = 200 /\ n.answer.value = value
        /\ Carries(n, q)
    <3> DEFINE ran == q.ran
               at == "done"
               code == 200
    <3>1. ran \in BOOLEAN /\ at \in {"store", "done"} /\ code \in Nat /\ q \in AnyAsk /\ value \in AnyValue
      BY <2>1, <2>5
    <3>2. n = Answered(q, ran, at, code, value)
      OBVIOUS
    <3> HIDE DEF n, q, value, ran, at, code
    <3>3. n \in AnyAsk /\ n.at = at /\ n.answer.code = code /\ n.answer.value = value /\ Carries(n, q)
      BY <3>1, <3>2, AnsweredIsAny
    <3> QED
      BY <3>3 DEF at, code
  <2>7. q.at \in {"cache", "run"} /\ UNCHANGED <<config, rights, changes, store, spent>>
    BY <1>9 DEF CacheHits
  <2> HIDE DEF n
  <2>8. /\ n.at \in {"store", "done"} /\ n.answer.code # 429
        /\ n.at = "store" => n.answer.value # NoValue
        /\ n.answer.value # NoValue => n.answer.value = Right(q.endpoint, q.session, q.text)
    BY <2>6
  <2>9. n \in AnyAsk /\ Carries(n, q)
    BY <2>6
  <2> HIDE DEF value
  <2> QED
    BY <2>4, <2>7, <2>8, <2>9, ValueMoves
<1>10. ASSUME NEW r \in Calls, NEW code \in {200, 201, 204}, NEW cookie \in BOOLEAN, HandlerAnswers(r, code, cookie)
       PROVE  AskInv'
  <2> DEFINE q == ask[r]
             at == IF Endpoint[q.endpoint].cached /\ code = 200 /\ ~cookie THEN "store" ELSE "done"
             value == IF code = 204 THEN NoValue ELSE Right(q.endpoint, q.session, q.text)
  <2>1. Decoded(q) = DecodeQuery(Endpoint[q.endpoint].field, q.text)
    BY DEF Decoded
  <2> DEFINE ran == TRUE
             n == Answered(q, ran, at, code, value)
  <2>0. ran \in BOOLEAN
    OBVIOUS
  <2>2. ask' = [ask EXCEPT ![r] = n]
    BY <1>10, <2>1 DEF HandlerAnswers, Asks, Right, Answered
  <2>3. q.at \in {"cache", "run"} /\ UNCHANGED <<config, rights, changes, store, spent>>
    BY <1>10 DEF HandlerAnswers
  <2>4. /\ q \in AnyAsk /\ Right(q.endpoint, q.session, q.text) # NoValue
        /\ Right(q.endpoint, q.session, q.text) \in AnyValue /\ NoValue \in AnyValue
    <3>1. q \in AnyAsk /\ q.endpoint \in Endpoints
      BY <1>10, AskFacts DEF HandlerAnswers
    <3>2. q.session \in Sessions \cup {NoSession} /\ q.text \in Texts
      BY <3>1 DEF AnyAsk
    <3>3. NoValue \in AnyValue
      BY DEF AnyValue
    <3> QED
      BY <3>1, <3>2, <3>3, RightValues
  <2>5. /\ at \in {"store", "done"} /\ value \in AnyValue /\ code \in Nat /\ code # 429
        /\ value # NoValue => value = Right(q.endpoint, q.session, q.text)
        /\ at = "store" => value # NoValue
    BY <2>4
  <2> HIDE DEF at, value, ran
  <2>6. n = Answered(q, ran, at, code, value)
    OBVIOUS
  <2>7. q \in AnyAsk
    BY <2>4
  <2> HIDE DEF n, q
  <2>8. /\ n \in AnyAsk /\ n.at = at /\ n.answer.code = code /\ n.answer.value = value
        /\ Carries(n, q)
    BY <2>0, <2>5, <2>6, <2>7, AnsweredIsAny
  <2>9. /\ n.at \in {"store", "done"} /\ n.answer.code # 429
        /\ n.at = "store" => n.answer.value # NoValue
        /\ n.answer.value # NoValue => n.answer.value = Right(q.endpoint, q.session, q.text)
    BY <2>5, <2>8
  <2>10. /\ ask[r].at \in {"cache", "run"} /\ n \in AnyAsk /\ Carries(n, ask[r])
         /\ n.answer.value # NoValue =>
                n.answer.value = Right(ask[r].endpoint, ask[r].session, ask[r].text)
    BY <2>3, <2>8, <2>9 DEF q
  <2> QED
    BY <2>2, <2>3, <2>9, <2>10, ValueMoves
<1>11. ASSUME NEW r \in Calls, NEW deliberate \in BOOLEAN, HandlerFails(r, deliberate) PROVE AskInv'
  <2>1. /\ ask[r].at = "run" /\ UNCHANGED <<config, rights, changes, store, spent>>
        /\ \/ Asks(r, [Answer(ask[r], 404, "handler") EXCEPT !.ran = TRUE])
           \/ Asks(r, [Answer(ask[r], 500, "internal") EXCEPT !.ran = TRUE])
    BY <1>11 DEF HandlerFails
  <2>2. PICK code \in {404, 500}, message \in {"handler", "internal"} :
            Asks(r, [Answer(ask[r], code, message) EXCEPT !.ran = TRUE])
    BY <2>1
  <2> DEFINE n == [Answer(ask[r], code, message) EXCEPT !.ran = TRUE]
  <2>3. Asks(r, n) /\ n = [Answer(ask[r], code, message) EXCEPT !.ran = TRUE]
    BY <2>2
  <2>4. code \in Nat /\ message \in Messages /\ code # 429
    BY DEF Messages
  <2> HIDE DEF n
  <2> QED
    BY <2>1, <2>3, <2>4, AnswerMoves
<1>12. ASSUME NEW r \in Calls, CacheKeeps(r) PROVE AskInv'
  BY <1>12, KeepKeeps
<1>13. ASSUME NEW r \in Calls, ClientGets(r) PROVE AskInv'
  BY <1>13, ClientKeeps
<1> QED
  BY <1>1, <1>2, <1>3, <1>4, <1>5, <1>6, <1>7, <1>8, <1>9, <1>10, <1>11, <1>12, <1>13 DEF EndpointsNext

\* Nobody has asked yet.
LEMMA AskStart == EndpointsInit => AskInv
<1> SUFFICES ASSUME EndpointsInit PROVE AskInv
  OBVIOUS
<1>1. \A r \in Calls : ask[r] = NewAsk
  BY DEF EndpointsInit
<1>2. /\ NewAsk.at = "new" /\ NewAsk.sent = "raw" /\ NewAsk.admitted = FALSE /\ NewAsk.ran = FALSE
      /\ NewAsk.answer = NoAnswer /\ NewAsk.got = NoAnswer
  BY DEF NewAsk
<1>3. AskTypeOK
  BY <1>1, <1>2, NewAskIsAny DEF EndpointsInit, AskTypeOK
<1>4. StoreIsRight
  BY DEF EndpointsInit, StoreIsRight
<1>5. TokensAreCounted
  <2>1. \A e, c : Admitted(e, c) = {}
    BY <1>1, <1>2 DEF Admitted
  <2>2. \A l : Spent(l) = 0
    BY DEF EndpointsInit, Spent
  <2> QED
    BY <2>1, <2>2, FS_EmptySet DEF TokensAreCounted
<1>6. \A r \in Calls : Gated(ask[r]) /\ Across(ask[r]) /\ Counted(ask[r])
  BY <1>1, <1>2, NewAskIsAny DEF Gated, Across, Counted
<1> QED
  BY <1>3, <1>4, <1>5, <1>6 DEF AskInv

\* The invariant gives the three promises.
LEMMA AskPromise == AskInv => AnswersAreEarned
<1> SUFFICES ASSUME AskInv PROVE AnswersAreEarned
  OBVIOUS
<1>1. ValuesAreEarned
  BY AskFacts DEF ValuesAreEarned, Gated, Right, Decoded
<1>2. LimitsHold
  <2> SUFFICES ASSUME NEW e \in Endpoints, NEW r \in Calls
               PROVE  LET mine == Cardinality(Admitted(e, CountedAs(ask[r])))
                      IN  /\ mine <= Allowed
                          /\ ask[r].endpoint = e /\ ask[r].answer.code = 429 => mine = Allowed
    BY DEF LimitsHold
  <2>1. PICK x, y : CountedAs(ask[r]) = <<x, y>> /\ LimitKey(ask[r]) = <<ask[r].endpoint, Omitted, x, y>>
    BY DEF CountedAs, LimitKey
  <2>2. Cardinality(Admitted(e, <<x, y>>)) = Spent(<<e, Omitted, x, y>>)
    BY DEF AskInv, TokensAreCounted
  <2>3. \A l : Spent(l) \in Nat /\ Spent(l) <= Allowed
    BY EndpointsAssumption DEF AskInv, AskTypeOK, Spent
  <2>4. ask[r].answer.code = 429 => Spent(LimitKey(ask[r])) >= Allowed
    BY AskFacts DEF Counted
  <2> QED
    BY <2>1, <2>2, <2>3, <2>4, EndpointsAssumption
<1>3. CallsComeAcross
  <2> SUFFICES ASSUME NEW r \in Calls
               PROVE  /\ ask[r].got.value # NoValue /\ Carried(ask[r]) => ask[r].got.value.got = ask[r].sent
                      /\ ask[r].got.code # 0 /\ ask[r].sent = "refused" => ~ask[r].ran
    BY DEF CallsComeAcross
  <2> DEFINE q == ask[r]
             type == Endpoint[q.endpoint].field
  <2>1. q \in AnyAsk /\ Gated(q) /\ Across(q)
    BY AskFacts
  <2>2. q.sent = "refused" => ~q.ran
    BY <2>1 DEF Across
  <2>3. ASSUME q.got.value # NoValue, Carried(q) PROVE q.got.value.got = q.sent
    <3>1. q.got.value = Right(q.endpoint, q.session, q.text)
      BY <2>1, <2>3 DEF Across, Gated
    <3>2. q.sent \notin {"raw", "spaced", "refused"} /\ ~(q.sent = "zero" /\ type = "optional")
      BY <2>1, <2>3 DEF Across, Carried
    <3>3. q.text = EncodeQuery(q.sent) /\ q.sent \in Sendable(type)
      BY <2>1, <3>2 DEF Across
    <3>4. DecodeQuery(type, q.text) = q.sent
      <4>1. CASE q.sent = "plain"
        BY <3>3, <4>1 DEF EncodeQuery, DecodeQuery, Omitted
      <4>2. CASE q.sent = "zero"
        BY <3>2, <3>3, <4>2 DEF EncodeQuery, DecodeQuery, Omitted
      <4>3. CASE q.sent = "nil"
        <5>1. type = "optional"
          BY <3>3, <4>3 DEF Sendable
        <5> QED
          BY <3>3, <4>3, <5>1 DEF EncodeQuery, DecodeQuery, Omitted
      <4> QED
        BY <2>1, <3>2, <4>1, <4>2, <4>3 DEF AnyAsk
    <3> QED
      BY <3>1, <3>4 DEF Right
  <2> QED
    BY <2>2, <2>3
<1> QED
  BY <1>1, <1>2, <1>3 DEF AnswersAreEarned

\* For any endpoints, users, sessions, addresses and limit, and whatever the application grants
\* and revokes meanwhile: a value is its caller's own, out of the cache or not; a limit counts
\* callers and not URLs; and what a generated client is called with is what the handler is given.
THEOREM WhatIsServedIsEarned == EndpointsSpec => []AnswersAreEarned
  BY AskStart, AskStep, AskPromise, PTL DEF EndpointsSpec

-----------------------------------------------------------------------------
\* The spans of a request.

ASpan == [kind : Kinds, parent : Int, ended : Nat, failed : BOOLEAN, routed : BOOLEAN, stage : Stages]
ACall == [at : Kinds \ {"navigation"}, span : Nat, passed : BOOLEAN]

\* What is under way and whose span is still open: not a guard whose next was entered.
StillOpen(c) == ~(c.at = "middleware" /\ c.passed)

\* How often a span was ended is how often it was measured, if its kind is timed.
MeasuredOnce(s, m) ==
    /\ s.ended <= 1
    /\ m = IF s.kind \in Timed THEN s.ended ELSE 0

\* The calls under way, the request's outermost, each in a span of its own kind that was opened
\* after the one around it and within it; what is not a document operation is called by what passed
\* the request on.
Nested ==
    /\ stack \in Seq(ACall) /\ Len(stack) \in Nat
    /\ \A k \in 1..Len(stack) :
          /\ stack[k].span \in 1..Len(spans)
          /\ spans[stack[k].span].kind = stack[k].at
          /\ stack[k].at = "http" <=> k = 1
          /\ k = 1 => stack[k].span = 1 /\ stack[k].passed
          /\ k # 1 => spans[stack[k].span].parent = stack[k - 1].span
          /\ stack[k].passed => stack[k].at \in {"http", "middleware"}
    /\ \A j, k \in 1..Len(stack) : j < k =>
          /\ stack[j].span < stack[k].span
          /\ stack[k].at \in {"middleware", "render", "api"} => stack[j].passed

\* A span has its parent before it, of a kind that it may be within.
Parented ==
    \A i \in 1..Len(spans) :
        /\ spans[i].kind = "http" <=> i = 1
        /\ spans[i].kind \notin {"http", "navigation"} =>
              spans[i].parent \in 1..i - 1 /\ spans[spans[i].parent].kind \in Within(spans[i].kind)

\* The spans that are not ended are those of the calls under way, but for guards that have passed.
EndedWhenOver ==
    /\ way \in {"in", "back", "over", "panicked"}
    /\ way \in {"over", "panicked"} <=> stack = <<>>
    /\ spans \in Seq(ASpan) /\ Len(spans) \in Nat /\ Len(spans) > 0
    /\ measured \in Seq(Nat) /\ Len(measured) = Len(spans)
    /\ \A i \in 1..Len(spans) : MeasuredOnce(spans[i], measured[i])
    /\ \A k \in 1..Len(stack) : StillOpen(stack[k]) <=> spans[stack[k].span].ended = 0
    /\ way # "panicked" =>
          \A i \in 1..Len(spans) : spans[i].ended = 0 => \E k \in 1..Len(stack) : stack[k].span = i

Unguarded == \A i \in 1..Len(spans) : spans[i].kind # "middleware"

InFramework == \E k \in 1..Len(stack) : stack[k].at \in {"render", "api"}

\* The route is learnt when the framework is entered, or by what comes back from the mux; the
\* request's span has it where no guard's is around. On the way in, every guard is under way.
NamedInTime ==
    /\ spans[1].routed <=> learnt /\ Unguarded
    /\ way = "in" =>
          /\ cut = "none" /\ (learnt <=> InFramework /\ target \in {"page", "endpoint"})
          /\ \A i \in 1..Len(spans) :
                spans[i].kind = "middleware" => \E k \in 1..Len(stack) : stack[k].span = i
    /\ way \in {"back", "over"} => (learnt <=> Known)

TraceInv == Nested /\ Parented /\ EndedWhenOver /\ NamedInTime

-----------------------------------------------------------------------------
\* What is done to a span leaves its kind and its parent.

\* The spans ss as they are in tt, where none was ended since.
Alike(ss, tt) ==
    /\ tt \in Seq(ASpan) /\ Len(tt) = Len(ss)
    /\ \A i \in 1..Len(ss) :
          tt[i].kind = ss[i].kind /\ tt[i].ended = ss[i].ended /\ tt[i].parent = ss[i].parent

LEMMA OneChanges ==
    ASSUME NEW S, NEW ss \in Seq(S), NEW s \in 1..Len(ss), NEW v \in S
    PROVE  /\ [ss EXCEPT ![s] = v] \in Seq(S) /\ Len([ss EXCEPT ![s] = v]) = Len(ss)
           /\ \A i \in 1..Len(ss) : [ss EXCEPT ![s] = v][i] = IF i = s THEN v ELSE ss[i]
OBVIOUS

LEMMA AlikeChange ==
    ASSUME NEW ss \in Seq(ASpan), NEW s \in 1..Len(ss), NEW v \in ASpan,
           v.kind = ss[s].kind, v.ended = ss[s].ended, v.parent = ss[s].parent
    PROVE  /\ Alike(ss, [ss EXCEPT ![s] = v])
           /\ [ss EXCEPT ![s] = v][1] = IF s = 1 THEN v ELSE ss[1]
<1> DEFINE tt == [ss EXCEPT ![s] = v]
<1>1. tt \in Seq(ASpan) /\ Len(tt) = Len(ss)
      /\ \A i \in 1..Len(ss) : tt[i] = IF i = s THEN v ELSE ss[i]
  BY OneChanges
<1>2. 1 \in 1..Len(ss)
  OBVIOUS
<1> HIDE DEF tt
<1> QED
  BY <1>1, <1>2 DEF Alike, tt

LEMMA AlikeItself ==
    ASSUME NEW ss \in Seq(ASpan)
    PROVE  Alike(ss, ss)
BY DEF Alike

LEMMA AlikeOnward ==
    ASSUME NEW ss, NEW tt, NEW uu, Alike(ss, tt), Alike(tt, uu)
    PROVE  Alike(ss, uu)
BY DEF Alike

LEMMA RouteIsSet ==
    ASSUME NEW ss \in Seq(ASpan), NEW s \in 1..Len(ss)
    PROVE  /\ Alike(ss, SetRoute(ss, s))
           /\ SetRoute(ss, s)[1].routed <=> ss[1].routed \/ (s = 1 /\ ss[1].ended = 0)
<1>1. ss[s] \in ASpan /\ ss[s].ended \in Nat
  <2>1. ss[s] \in ASpan
    OBVIOUS
  <2> QED
    BY <2>1 DEF ASpan
<1>2. CASE ss[s].ended > 0
  BY <1>1, <1>2, AlikeItself DEF SetRoute
<1>3. CASE ~(ss[s].ended > 0)
  <2> DEFINE v == [ss[s] EXCEPT !.routed = TRUE]
  <2>1. v \in ASpan /\ v.kind = ss[s].kind /\ v.ended = ss[s].ended /\ v.parent = ss[s].parent /\ v.routed
    BY <1>1 DEF ASpan
  <2>2. SetRoute(ss, s) = [ss EXCEPT ![s] = v] /\ ss[s].ended = 0
    BY <1>1, <1>3 DEF SetRoute
  <2> HIDE DEF v
  <2>3. /\ Alike(ss, [ss EXCEPT ![s] = v])
        /\ [ss EXCEPT ![s] = v][1] = IF s = 1 THEN v ELSE ss[1]
    BY ONLY <2>1, ss \in Seq(ASpan), s \in 1..Len(ss), AlikeChange
  <2>4. Alike(ss, SetRoute(ss, s)) /\ SetRoute(ss, s)[1] = IF s = 1 THEN v ELSE ss[1]
    BY <2>2, <2>3
  <2> QED
    BY <2>1, <2>2, <2>4
<1> QED
  BY <1>2, <1>3

LEMMA ErrorIsRecorded ==
    ASSUME NEW ss \in Seq(ASpan), NEW s \in 1..Len(ss)
    PROVE  Alike(ss, Erred(ss, s)) /\ Erred(ss, s)[1].routed = ss[1].routed
<1>1. ss[s] \in ASpan
  OBVIOUS
<1>2. CASE ss[s].ended > 0
  BY <1>2, AlikeItself DEF Erred
<1>3. CASE ~(ss[s].ended > 0)
  <2> DEFINE v == [ss[s] EXCEPT !.failed = TRUE]
  <2>1. v \in ASpan /\ v.kind = ss[s].kind /\ v.ended = ss[s].ended /\ v.parent = ss[s].parent
        /\ v.routed = ss[s].routed
    BY <1>1 DEF ASpan
  <2>2. Erred(ss, s) = [ss EXCEPT ![s] = v]
    BY <1>3 DEF Erred
  <2> HIDE DEF v
  <2>3. /\ Alike(ss, [ss EXCEPT ![s] = v])
        /\ [ss EXCEPT ![s] = v][1] = IF s = 1 THEN v ELSE ss[1]
    BY ONLY <2>1, ss \in Seq(ASpan), s \in 1..Len(ss), AlikeChange
  <2>4. Alike(ss, Erred(ss, s)) /\ Erred(ss, s)[1] = IF s = 1 THEN v ELSE ss[1]
    BY <2>2, <2>3
  <2> QED
    BY <2>1, <2>4
<1> QED
  BY <1>2, <1>3

LEMMA StageIsSet ==
    ASSUME NEW ss \in Seq(ASpan), NEW s \in 1..Len(ss), NEW stage \in Stages
    PROVE  Alike(ss, [ss EXCEPT ![s].stage = stage]) /\ [ss EXCEPT ![s].stage = stage][1].routed = ss[1].routed
<1>1. ss[s] \in ASpan
  OBVIOUS
<1> DEFINE v == [ss[s] EXCEPT !.stage = stage]
<1>2. v \in ASpan /\ v.kind = ss[s].kind /\ v.ended = ss[s].ended /\ v.parent = ss[s].parent
      /\ v.routed = ss[s].routed
  BY <1>1 DEF ASpan
<1>3. [ss EXCEPT ![s].stage = stage] = [ss EXCEPT ![s] = v]
  OBVIOUS
<1> HIDE DEF v
<1> QED
  BY <1>2, <1>3, AlikeChange

\* The spans tt are those of ss, where s was ended once more.
EndedOne(ss, tt, s) ==
    /\ tt \in Seq(ASpan) /\ Len(tt) = Len(ss)
    /\ \A i \in 1..Len(ss) :
          /\ tt[i].kind = ss[i].kind /\ tt[i].parent = ss[i].parent
          /\ tt[i].ended = IF i = s THEN ss[i].ended + 1 ELSE ss[i].ended

LEMMA SpanEnds ==
    ASSUME NEW ss \in Seq(ASpan), NEW s \in 1..Len(ss), NEW err \in BOOLEAN
    PROVE  /\ EndedOne(ss, Ended(ss, s, err), s)
           /\ \A i \in 1..Len(ss) : Ended(ss, s, err)[i].routed = ss[i].routed
<1>1. ss[s] \in ASpan
  OBVIOUS
<1> DEFINE u == [ss[s] EXCEPT !.ended = @ + 1]
           v == [u EXCEPT !.failed = @ \/ err]
<1>2. u \in ASpan /\ u.kind = ss[s].kind /\ u.ended = ss[s].ended + 1 /\ u.routed = ss[s].routed
      /\ u.parent = ss[s].parent
  BY <1>1 DEF ASpan
<1>3. Ended(ss, s, err) = [ss EXCEPT ![s] = v]
  BY <1>1 DEF Ended, ASpan
<1> HIDE DEF u
<1>4. v.kind = u.kind /\ v.ended = u.ended /\ v.routed = u.routed /\ v.parent = u.parent
  BY <1>2 DEF ASpan
<1>5. v \in ASpan
  <2>1. (u.failed \/ err) \in BOOLEAN
    OBVIOUS
  <2> QED
    BY <1>2, <2>1 DEF ASpan
<1> HIDE DEF v
<1> DEFINE tt == Ended(ss, s, err)
<1>6. tt \in Seq(ASpan) /\ Len(tt) = Len(ss)
      /\ \A i \in 1..Len(ss) : tt[i] = IF i = s THEN v ELSE ss[i]
  BY <1>3, <1>5, OneChanges
<1> HIDE DEF tt
<1> QED
  BY <1>2, <1>4, <1>6 DEF EndedOne, tt

-----------------------------------------------------------------------------
LEMMA MoreThanOne ==
    ASSUME NEW n \in Nat, n >= 1, n # 1
    PROVE  n > 1 /\ n - 1 \in 1..n /\ n - 1 < n
OBVIOUS

LEMMA BetweenTheEnds ==
    ASSUME NEW n \in Nat, NEW k \in 1..n, k # 1, k # n
    PROVE  n - 1 # 1
OBVIOUS

\* The innermost call, and what is around it.
LEMMA TopAndOuter ==
    ASSUME Nested, stack # <<>>
    PROVE  /\ Len(stack) > 0 /\ Len(stack) \in Nat /\ Top = stack[Len(stack)] /\ Top \in ACall
           /\ Current = Top.span /\ Current \in 1..Len(spans)
           /\ Outer \in Seq(ACall) /\ Len(Outer) = Len(stack) - 1
           /\ \A k \in 1..Len(stack) - 1 : Outer[k] = stack[k]
<1>1. stack \in Seq(ACall) /\ Len(stack) \in Nat
  BY DEF Nested
<1>2. Len(stack) > 0
  BY <1>1
<1>3. Top = stack[Len(stack)] /\ Top \in ACall /\ Current = Top.span
  BY <1>1, <1>2 DEF Top, Current
<1>4. Current \in 1..Len(spans)
  BY <1>1, <1>2, <1>3 DEF Nested
<1>5. /\ Outer \in Seq(ACall) /\ Len(Outer) = Len(stack) - 1
      /\ \A k \in 1..Len(stack) - 1 : Outer[k] = stack[k]
  <2> DEFINE n == Len(stack) - 1
  <2>1. 1 \in Int /\ n \in Int /\ n \in Nat /\ \A i \in 1..n : stack[i] \in ACall
    BY <1>1, <1>2
  <2>2. n - 1 + 1 = n /\ \A i \in 1..n : 1 + i - 1 = i
    BY <2>1
  <2>3. Outer = SubSeq(stack, 1, n)
    BY DEF Outer
  <2> HIDE DEF n
  <2>4. /\ SubSeq(stack, 1, n) \in Seq(ACall)
        /\ Len(SubSeq(stack, 1, n)) = IF 1 <= n THEN n - 1 + 1 ELSE 0
        /\ \A i \in 1..n - 1 + 1 : SubSeq(stack, 1, n)[i] = stack[1 + i - 1]
    BY <2>1, SubSeqProperties
  <2>5. Len(Outer) = n
    BY <2>1, <2>2, <2>3, <2>4
  <2>6. \A i \in 1..n : Outer[i] = stack[i]
    BY <2>2, <2>3, <2>4
  <2> QED
    BY <2>3, <2>4, <2>5, <2>6 DEF n
<1> QED
  BY <1>1, <1>2, <1>3, <1>4, <1>5

\* Only the outermost call is the request's.
LEMMA LaterIsNotFirst ==
    ASSUME Nested, NEW k \in 1..Len(stack), k # 1
    PROVE  stack[k].span # 1
<1>1. Len(stack) \in Nat /\ 1 \in 1..Len(stack) /\ 1 < k
  BY DEF Nested
<1>2. stack[1].span = 1 /\ stack[1].span < stack[k].span /\ stack[k].span \in 1..Len(spans)
  BY <1>1 DEF Nested
<1> QED
  BY <1>2

\* Without guards the mux is behind the request's span.
LEMMA MuxIsOutermost ==
    ASSUME Nested, Unguarded, NEW k \in 1..Len(stack), stack[k].at \in {"http", "middleware"}
    PROVE  k = 1 /\ stack[k].span = 1
<1>1. stack[k].at # "middleware"
  BY DEF Nested, Unguarded
<1> QED
  BY <1>1 DEF Nested

\* What keeps the spans' kinds and parents.
LEMMA ParentsStay ==
    ASSUME Parented, spans \in Seq(ASpan), Len(spans') = Len(spans),
           \A i \in 1..Len(spans) : spans'[i].kind = spans[i].kind /\ spans'[i].parent = spans[i].parent
    PROVE  Parented' /\ (Unguarded' <=> Unguarded)
<1>1. ASSUME NEW i \in 1..Len(spans')
      PROVE  /\ spans'[i].kind = "http" <=> i = 1
             /\ spans'[i].kind \notin {"http", "navigation"} =>
                   spans'[i].parent \in 1..i - 1 /\ spans'[spans'[i].parent].kind \in Within(spans'[i].kind)
  <2>1. /\ i \in 1..Len(spans) /\ spans'[i].kind = spans[i].kind /\ spans'[i].parent = spans[i].parent
        /\ spans[i].kind = "http" <=> i = 1
        /\ spans[i].kind \notin {"http", "navigation"} =>
              spans[i].parent \in 1..i - 1 /\ spans[spans[i].parent].kind \in Within(spans[i].kind)
    BY DEF Parented
  <2>2. \A j \in 1..i - 1 : spans'[j].kind = spans[j].kind
    BY <2>1
  <2> QED
    BY <2>1, <2>2
<1> QED
  BY <1>1 DEF Parented, Unguarded

\* On the way in, what keeps who is under way and what is known.
LEMMA InStays ==
    ASSUME NamedInTime, way = "in", way' = "in", UNCHANGED <<target, cut, learnt>>,
           Unguarded' <=> Unguarded, spans'[1].routed <=> spans[1].routed, InFramework' <=> InFramework,
           \A i \in 1..Len(spans') :
              spans'[i].kind = "middleware" => \E k \in 1..Len(stack') : stack'[k].span = i
    PROVE  NamedInTime'
BY DEF NamedInTime

\* On the way back.
LEMMA BackStays ==
    ASSUME NamedInTime, way = "back", way' \in {"back", "over"}, UNCHANGED <<routed, target, cut, learnt>>,
           Unguarded' <=> Unguarded, spans'[1].routed <=> spans[1].routed
    PROVE  NamedInTime'
BY DEF NamedInTime, Known

\* What becomes of spans that none is opened or ended of.
LEMMA TouchedKeeps ==
    ASSUME Nested, Parented, EndedWhenOver, way \in {"in", "back"}, way' \in {"in", "back"},
           Alike(spans, spans'), UNCHANGED <<stack, measured>>
    PROVE  Nested' /\ Parented' /\ EndedWhenOver' /\ (Unguarded' <=> Unguarded)
<1>1. /\ spans' \in Seq(ASpan) /\ Len(spans') = Len(spans)
      /\ \A i \in 1..Len(spans) : spans'[i].kind = spans[i].kind /\ spans'[i].ended = spans[i].ended
                                   /\ spans'[i].parent = spans[i].parent
  BY DEF Alike
<1>2. stack' = stack /\ measured' = measured /\ stack # <<>>
  BY DEF EndedWhenOver
<1>3. Nested'
  <2>1. \A k \in 1..Len(stack) :
           /\ stack[k].span \in 1..Len(spans) /\ spans'[stack[k].span].kind = spans[stack[k].span].kind
           /\ spans'[stack[k].span].parent = spans[stack[k].span].parent
    BY <1>1 DEF Nested
  <2>2. \A k \in 1..Len(stack) :
          /\ stack[k].span \in 1..Len(spans')
          /\ spans'[stack[k].span].kind = stack[k].at
          /\ stack[k].at = "http" <=> k = 1
          /\ k = 1 => stack[k].span = 1 /\ stack[k].passed
          /\ k # 1 => spans'[stack[k].span].parent = stack[k - 1].span
          /\ stack[k].passed => stack[k].at \in {"http", "middleware"}
    BY <1>1, <2>1 DEF Nested
  <2> QED
    BY <1>2, <2>2 DEF Nested
<1>4. \A i \in 1..Len(spans') : MeasuredOnce(spans'[i], measured'[i])
  BY <1>1, <1>2 DEF EndedWhenOver, MeasuredOnce
<1>5. \A k \in 1..Len(stack') : StillOpen(stack'[k]) <=> spans'[stack'[k].span].ended = 0
  <2> SUFFICES ASSUME NEW k \in 1..Len(stack)
               PROVE  StillOpen(stack[k]) <=> spans'[stack[k].span].ended = 0
    BY <1>2
  <2>1. spans'[stack[k].span].ended = spans[stack[k].span].ended
    BY <1>1 DEF Nested
  <2>2. StillOpen(stack[k]) <=> spans[stack[k].span].ended = 0
    BY DEF EndedWhenOver
  <2> QED
    BY <2>1, <2>2
<1>6. \A i \in 1..Len(spans') :
         spans'[i].ended = 0 => \E k \in 1..Len(stack') : stack'[k].span = i
  BY <1>1, <1>2 DEF EndedWhenOver
<1>7. Parented' /\ (Unguarded' <=> Unguarded)
  BY <1>1, ParentsStay DEF EndedWhenOver
<1> QED
  BY <1>1, <1>2, <1>3, <1>4, <1>5, <1>6, <1>7 DEF EndedWhenOver

\* A span is opened within the current one.
LEMMA StartedKeeps ==
    ASSUME Nested, Parented, EndedWhenOver, way = "in", way' = "in",
           NEW kind \in Kinds \ {"http", "navigation"},
           kind \in {"middleware", "render", "api"} => Top.passed, Top.at \in Within(kind),
           NEW ss, Alike(spans, ss),
           spans' = Append(ss, Span(kind, Current)), measured' = Append(measured, 0),
           stack' = Append(stack, [at |-> kind, span |-> Len(spans'), passed |-> FALSE])
    PROVE  /\ Nested' /\ Parented' /\ EndedWhenOver'
           /\ Len(spans') = Len(spans) + 1 /\ spans'[Len(spans) + 1].kind = kind
           /\ \A i \in 1..Len(spans) : spans'[i] = ss[i] /\ spans'[i].kind = spans[i].kind
           /\ Len(stack') = Len(stack) + 1 /\ \A k \in 1..Len(stack) : stack'[k] = stack[k]
           /\ stack'[Len(stack) + 1].at = kind /\ stack'[Len(stack) + 1].span = Len(spans) + 1
<1> DEFINE new == Span(kind, Current)
           call == [at |-> kind, span |-> Len(spans'), passed |-> FALSE]
<1>1. /\ spans \in Seq(ASpan) /\ Len(spans) \in Nat /\ Len(spans) > 0
      /\ measured \in Seq(Nat) /\ Len(measured) = Len(spans)
      /\ stack \in Seq(ACall) /\ Len(stack) \in Nat /\ stack # <<>>
  BY DEF EndedWhenOver, Nested
<1>2. /\ ss \in Seq(ASpan) /\ Len(ss) = Len(spans)
      /\ \A i \in 1..Len(spans) : ss[i].kind = spans[i].kind /\ ss[i].ended = spans[i].ended
                                   /\ ss[i].parent = spans[i].parent
  BY DEF Alike
<1>3. /\ Len(stack) > 0 /\ Top = stack[Len(stack)] /\ Current \in 1..Len(spans)
      /\ Current = Top.span
  BY <1>1, TopAndOuter
<1>4. new \in ASpan /\ new.kind = kind /\ new.ended = 0 /\ new.parent = Current
  BY <1>1, <1>3 DEF Span, ASpan, Stages
<1> HIDE DEF new
<1>5. /\ spans' \in Seq(ASpan) /\ Len(spans') = Len(spans) + 1
      /\ \A i \in 1..Len(spans) : spans'[i] = ss[i]
      /\ spans'[Len(spans) + 1] = new
  BY <1>1, <1>2, <1>4 DEF new
<1>6. call \in ACall /\ call.at = kind /\ call.span = Len(spans) + 1 /\ ~call.passed
  BY <1>1, <1>5 DEF ACall
<1> HIDE DEF call
<1>7. /\ stack' \in Seq(ACall) /\ Len(stack') = Len(stack) + 1
      /\ \A k \in 1..Len(stack) : stack'[k] = stack[k]
      /\ stack'[Len(stack) + 1] = call
  BY <1>1, <1>6 DEF call
<1>8. /\ measured' \in Seq(Nat) /\ Len(measured') = Len(spans) + 1
      /\ \A i \in 1..Len(spans) : measured'[i] = measured[i]
      /\ measured'[Len(spans) + 1] = 0
  BY <1>1
<1>9. Nested'
  <2>1. ASSUME NEW k \in 1..Len(stack')
        PROVE  /\ stack'[k].span \in 1..Len(spans')
               /\ spans'[stack'[k].span].kind = stack'[k].at
               /\ stack'[k].at = "http" <=> k = 1
               /\ k = 1 => stack'[k].span = 1 /\ stack'[k].passed
               /\ k # 1 => spans'[stack'[k].span].parent = stack'[k - 1].span
               /\ stack'[k].passed => stack'[k].at \in {"http", "middleware"}
    <3>1. CASE k \in 1..Len(stack)
      <4>1. /\ stack[k].span \in 1..Len(spans) /\ spans[stack[k].span].kind = stack[k].at
            /\ stack[k].at = "http" <=> k = 1
            /\ k = 1 => stack[k].span = 1 /\ stack[k].passed
            /\ stack[k].passed => stack[k].at \in {"http", "middleware"}
            /\ k # 1 => spans[stack[k].span].parent = stack[k - 1].span
        BY <3>1 DEF Nested
      <4>2. stack'[k] = stack[k]
        BY <1>7, <3>1
      <4>3. k # 1 => stack'[k - 1] = stack[k - 1]
        <5>1. k # 1 => k - 1 \in 1..Len(stack)
          BY <1>1, <3>1
        <5> QED
          BY <1>7, <5>1
      <4>4. /\ spans'[stack[k].span].kind = spans[stack[k].span].kind
            /\ spans'[stack[k].span].parent = spans[stack[k].span].parent
        BY <1>2, <1>5, <4>1
      <4>5. stack'[k].span \in 1..Len(spans') /\ spans'[stack'[k].span].kind = stack'[k].at
        BY <1>1, <1>5, <4>1, <4>2, <4>4
      <4>6. k # 1 => spans'[stack'[k].span].parent = stack'[k - 1].span
        BY ONLY <4>1, <4>2, <4>3, <4>4
      <4> QED
        BY <4>1, <4>2, <4>5, <4>6
    <3>2. CASE k = Len(stack) + 1
      <4>1. stack'[k] = call /\ stack'[k - 1] = Top /\ k # 1
        BY <1>1, <1>3, <1>7, <3>2
      <4>2. /\ call.span \in 1..Len(spans') /\ spans'[call.span].kind = call.at
            /\ spans'[call.span].parent = Top.span
        BY <1>1, <1>3, <1>4, <1>5, <1>6
      <4>3. call.at # "http" /\ (call.passed => call.at \in {"http", "middleware"})
        BY <1>6
      <4> QED
        BY <4>1, <4>2, <4>3
    <3> QED
      BY <1>1, <1>7, <3>1, <3>2
  <2>2. ASSUME NEW j \in 1..Len(stack'), NEW k \in 1..Len(stack'), j < k
        PROVE  /\ stack'[j].span < stack'[k].span
               /\ stack'[k].at \in {"middleware", "render", "api"} => stack'[j].passed
    <3>1. j \in 1..Len(stack) /\ stack'[j] = stack[j] /\ stack[j].span \in 1..Len(spans)
      BY <1>1, <1>7, <2>2 DEF Nested
    <3>2. CASE k \in 1..Len(stack)
      BY <1>7, <2>2, <3>1, <3>2 DEF Nested
    <3>3. CASE k = Len(stack) + 1
      <4>1. stack'[k] = call
        BY <1>7, <3>3
      <4>2. stack'[j].span < call.span
        BY <1>1, <1>6, <3>1
      <4>3. ASSUME kind \in {"middleware", "render", "api"} PROVE stack[j].passed
        <5>1. Top.passed /\ Top.at \in {"http", "middleware"} /\ Len(stack) \in 1..Len(stack)
          BY <1>1, <1>3, <4>3 DEF Nested
        <5>2. Top.at = "http" => j = Len(stack)
          BY <1>3, <3>1, <5>1 DEF Nested
        <5>3. Top.at = "middleware" /\ j # Len(stack) => stack[j].passed
          <6>1. j # Len(stack) => j < Len(stack)
            BY <1>1, <3>1
          <6> QED
            BY <1>3, <3>1, <5>1, <6>1 DEF Nested
        <5> QED
          BY <1>3, <5>1, <5>2, <5>3
      <4> QED
        BY <1>6, <3>1, <4>1, <4>2, <4>3
    <3> QED
      BY <1>1, <1>7, <3>2, <3>3
  <2>3. Len(stack') \in Nat
    BY <1>1, <1>7
  <2> QED
    BY <1>7, <2>1, <2>2, <2>3 DEF Nested
<1>10. EndedWhenOver'
  <2>1. ASSUME NEW i \in 1..Len(spans') PROVE MeasuredOnce(spans'[i], measured'[i])
    <3>1. CASE i \in 1..Len(spans)
      <4>1. MeasuredOnce(spans[i], measured[i])
        BY <3>1 DEF EndedWhenOver
      <4>2. spans'[i].kind = spans[i].kind /\ spans'[i].ended = spans[i].ended /\ measured'[i] = measured[i]
        BY <1>2, <1>5, <1>8, <3>1
      <4> QED
        BY <4>1, <4>2 DEF MeasuredOnce
    <3>2. CASE i = Len(spans) + 1
      <4>1. spans'[i] = new /\ measured'[i] = 0
        BY <1>5, <1>8, <3>2
      <4>2. spans'[i].ended = 0
        BY <1>4, <4>1
      <4>3. spans'[i].ended <= 1
        BY <4>2
      <4>4. measured'[i] = IF spans'[i].kind \in Timed THEN spans'[i].ended ELSE 0
        BY <4>1, <4>2
      <4> QED
        BY <4>3, <4>4 DEF MeasuredOnce
    <3> QED
      BY <1>1, <1>5, <3>1, <3>2
  <2>2. ASSUME NEW k \in 1..Len(stack')
        PROVE  StillOpen(stack'[k]) <=> spans'[stack'[k].span].ended = 0
    <3>1. CASE k \in 1..Len(stack)
      <4>1. stack'[k] = stack[k] /\ stack[k].span \in 1..Len(spans)
        BY <1>7, <3>1 DEF Nested
      <4> QED
        <5>1. spans'[stack[k].span].ended = spans[stack[k].span].ended
          BY <1>2, <1>5, <4>1
        <5>2. StillOpen(stack[k]) <=> spans[stack[k].span].ended = 0
          BY <3>1 DEF EndedWhenOver
        <5> QED
          BY <4>1, <5>1, <5>2
    <3>2. CASE k = Len(stack) + 1
      <4>1. stack'[k] = call /\ spans'[call.span] = new
        BY <1>5, <1>6, <1>7, <3>2
      <4>2. StillOpen(call)
        BY <1>6 DEF StillOpen
      <4> QED
        BY <1>4, <4>1, <4>2
    <3>3. k \in 1..Len(stack) \/ k = Len(stack) + 1
      BY <1>1, <1>7
    <3> QED
      BY <3>1, <3>2, <3>3
  <2>3. ASSUME NEW i \in 1..Len(spans'), spans'[i].ended = 0
        PROVE  \E k \in 1..Len(stack') : stack'[k].span = i
    <3>1. CASE i \in 1..Len(spans)
      <4>1. spans[i].ended = 0
        BY <1>2, <1>5, <2>3, <3>1
      <4>2. PICK k \in 1..Len(stack) : stack[k].span = i
        BY <3>1, <4>1 DEF EndedWhenOver
      <4>3. k \in 1..Len(stack') /\ stack'[k].span = i
        BY <1>1, <1>7, <4>2
      <4> QED
        BY <4>3
    <3>2. CASE i = Len(spans) + 1
      <4>1. Len(stack) + 1 \in 1..Len(stack') /\ stack'[Len(stack) + 1].span = i
        BY <1>1, <1>6, <1>7, <3>2
      <4> QED
        BY <4>1
    <3> QED
      BY <1>1, <1>5, <3>1, <3>2
  <2>4. stack' # <<>> /\ Len(spans') \in Nat /\ Len(spans') > 0
    <3>1. Len(stack') # 0
      BY <1>1, <1>7
    <3>2. Len(spans') \in Nat /\ Len(spans') > 0
      BY <1>1, <1>5
    <3> QED
      BY <3>1, <3>2
  <2> QED
    BY <1>5, <1>8, <2>1, <2>2, <2>3, <2>4 DEF EndedWhenOver
<1>11. Parented'
  <2>1. ASSUME NEW i \in 1..Len(spans')
        PROVE  /\ spans'[i].kind = "http" <=> i = 1
               /\ spans'[i].kind \notin {"http", "navigation"} =>
                    spans'[i].parent \in 1..i - 1 /\ spans'[spans'[i].parent].kind \in Within(spans'[i].kind)
    <3>1. CASE i \in 1..Len(spans)
      <4>1. /\ spans'[i].kind = spans[i].kind /\ spans'[i].parent = spans[i].parent
            /\ spans[i].kind = "http" <=> i = 1
            /\ spans[i].kind \notin {"http", "navigation"} =>
                 spans[i].parent \in 1..i - 1 /\ spans[spans[i].parent].kind \in Within(spans[i].kind)
        BY <1>2, <1>5, <3>1 DEF Parented
      <4>2. \A j \in 1..i - 1 : spans'[j].kind = spans[j].kind
        BY <1>1, <1>2, <1>5, <3>1
      <4> QED
        BY <4>1, <4>2
    <3>2. CASE i = Len(spans) + 1
      <4>1. spans'[i] = new /\ new.parent \in 1..i - 1 /\ new.parent \in 1..Len(spans)
        BY <1>1, <1>3, <1>4, <1>5, <3>2
      <4>2. spans'[new.parent].kind = spans[Current].kind /\ spans[Current].kind = Top.at
        <5>1. Len(stack) \in 1..Len(stack)
          BY <1>1, <1>3
        <5> QED
          BY <1>2, <1>3, <1>4, <1>5, <5>1 DEF Nested
      <4>3. kind # "http" /\ i # 1
        BY <1>1, <3>2
      <4> QED
        BY <1>4, <4>1, <4>2, <4>3
    <3> QED
      BY <1>1, <1>5, <3>1, <3>2
  <2> QED
    BY <2>1 DEF Parented
<1> QED
  BY <1>2, <1>4, <1>5, <1>6, <1>7, <1>9, <1>10, <1>11

\* A call that is not the request returns, and its span is ended by now.
LEMMA ReturnedKeeps ==
    ASSUME Nested, Parented, EndedWhenOver, way \in {"in", "back"}, way' \in {"in", "back"}, Len(stack) > 1,
           stack' = Outer, spans' \in Seq(ASpan), Len(spans') = Len(spans),
           measured' \in Seq(Nat), Len(measured') = Len(measured),
           \A i \in 1..Len(spans) :
              /\ spans'[i].kind = spans[i].kind /\ spans'[i].parent = spans[i].parent
              /\ i # Top.span => spans'[i].ended = spans[i].ended /\ measured'[i] = measured[i],
           spans'[Top.span].ended > 0, MeasuredOnce(spans'[Top.span], measured'[Top.span])
    PROVE  /\ Nested' /\ Parented' /\ EndedWhenOver' /\ (Unguarded' <=> Unguarded)
           /\ Len(stack') = Len(stack) - 1 /\ \A k \in 1..Len(stack') : stack'[k] = stack[k]
<1>1. /\ spans \in Seq(ASpan) /\ Len(spans) \in Nat /\ Len(spans) > 0
      /\ Len(measured) = Len(spans) /\ Len(stack) \in Nat /\ stack # <<>>
  BY DEF EndedWhenOver, Nested
<1>2. /\ Top = stack[Len(stack)] /\ Top.span \in 1..Len(spans)
      /\ stack' \in Seq(ACall) /\ Len(stack') = Len(stack) - 1
      /\ \A k \in 1..Len(stack) - 1 : stack'[k] = stack[k]
  BY <1>1, TopAndOuter
<1>3. \A k \in 1..Len(stack') : k \in 1..Len(stack) /\ stack'[k] = stack[k] /\ k < Len(stack)
  BY <1>1, <1>2
<1>4. \A k \in 1..Len(stack') : stack[k].span \in 1..Len(spans) /\ stack[k].span # Top.span
  <2> SUFFICES ASSUME NEW k \in 1..Len(stack')
               PROVE stack[k].span \in 1..Len(spans) /\ stack[k].span # Top.span
    OBVIOUS
  <2>1. k \in 1..Len(stack) /\ Len(stack) \in 1..Len(stack) /\ k < Len(stack)
    BY <1>1, <1>3
  <2>2. stack[k].span < stack[Len(stack)].span /\ stack[k].span \in 1..Len(spans)
    BY <2>1 DEF Nested
  <2> QED
    BY <1>1, <1>2, <2>2
<1>5. Nested'
  <2>1. ASSUME NEW k \in 1..Len(stack')
        PROVE  /\ stack'[k].span \in 1..Len(spans')
               /\ spans'[stack'[k].span].kind = stack'[k].at
               /\ stack'[k].at = "http" <=> k = 1
               /\ k = 1 => stack'[k].span = 1 /\ stack'[k].passed
               /\ k # 1 => spans'[stack'[k].span].parent = stack'[k - 1].span
               /\ stack'[k].passed => stack'[k].at \in {"http", "middleware"}
    <3>1. /\ stack[k].span \in 1..Len(spans) /\ spans[stack[k].span].kind = stack[k].at
          /\ stack[k].at = "http" <=> k = 1
          /\ k = 1 => stack[k].span = 1 /\ stack[k].passed
          /\ stack[k].passed => stack[k].at \in {"http", "middleware"}
          /\ k # 1 => spans[stack[k].span].parent = stack[k - 1].span
      BY <1>3 DEF Nested
    <3>2. k = 1 \/ k - 1 \in 1..Len(stack')
      BY <1>1, <1>2
    <3>3. stack'[k] = stack[k] /\ (k # 1 => stack'[k - 1] = stack[k - 1])
      BY <1>3, <3>2
    <3>4. spans'[stack[k].span].parent = spans[stack[k].span].parent
      BY <3>1
    <3>5. stack'[k].span \in 1..Len(spans') /\ spans'[stack'[k].span].kind = stack'[k].at
      BY <1>1, <3>1, <3>3
    <3> QED
      BY <3>1, <3>3, <3>4, <3>5
  <2>2. \A j, k \in 1..Len(stack') : j < k =>
           /\ stack'[j].span < stack'[k].span
           /\ stack'[k].at \in {"middleware", "render", "api"} => stack'[j].passed
    <3>1. \A j, k \in 1..Len(stack') : j < k =>
             /\ stack[j].span < stack[k].span
             /\ stack[k].at \in {"middleware", "render", "api"} => stack[j].passed
      BY <1>3 DEF Nested
    <3> QED
      BY <1>3, <3>1
  <2>3. Len(stack') \in Nat
    BY <1>1, <1>2
  <2> QED
    BY <1>2, <2>1, <2>2, <2>3 DEF Nested
<1>6. EndedWhenOver'
  <2>1. \A i \in 1..Len(spans') : MeasuredOnce(spans'[i], measured'[i])
    BY <1>1 DEF EndedWhenOver, MeasuredOnce
  <2>2. \A k \in 1..Len(stack') : StillOpen(stack'[k]) <=> spans'[stack'[k].span].ended = 0
    <3> SUFFICES ASSUME NEW k \in 1..Len(stack')
                 PROVE  StillOpen(stack'[k]) <=> spans'[stack'[k].span].ended = 0
      OBVIOUS
    <3>1. stack'[k] = stack[k] /\ k \in 1..Len(stack)
      BY <1>3
    <3>2. spans'[stack[k].span].ended = spans[stack[k].span].ended
      BY <1>4
    <3>3. StillOpen(stack[k]) <=> spans[stack[k].span].ended = 0
      BY <3>1 DEF EndedWhenOver
    <3> QED
      BY <3>1, <3>2, <3>3
  <2>3. ASSUME NEW i \in 1..Len(spans'), spans'[i].ended = 0
        PROVE  \E k \in 1..Len(stack') : stack'[k].span = i
    <3>1. i # Top.span /\ i \in 1..Len(spans) /\ spans[i].ended = 0
      BY <2>3
    <3>2. PICK k \in 1..Len(stack) : stack[k].span = i
      BY <3>1 DEF EndedWhenOver
    <3>3. k # Len(stack)
      BY <1>2, <3>1, <3>2
    <3>4. k \in 1..Len(stack')
      BY <1>1, <1>2, <3>3
    <3> QED
      BY <1>3, <3>2, <3>4
  <2>4. stack' # <<>>
    BY <1>1, <1>2
  <2> QED
    BY <1>1, <2>1, <2>2, <2>3, <2>4 DEF EndedWhenOver
<1>7. Parented' /\ (Unguarded' <=> Unguarded)
  BY <1>1, ParentsStay
<1> QED
  BY <1>2, <1>5, <1>6, <1>7

-----------------------------------------------------------------------------
\* The actions.

LEMMA TracingBegins == TracingInit => TraceInv
<1> SUFFICES ASSUME TracingInit PROVE TraceInv
  OBVIOUS
<1> DEFINE p == IF from THEN TheNavigation ELSE NoParent
           s == Span("http", p)
           c == [at |-> "http", span |-> 1, passed |-> TRUE]
<1>1. s \in ASpan /\ s.kind = "http" /\ s.ended = 0 /\ ~s.routed
  <2>1. p \in Int
    BY DEF TheNavigation, NoParent
  <2> HIDE DEF p
  <2> QED
    BY <2>1 DEF Span, ASpan, Kinds, Stages
<1>2. c \in ACall
  BY DEF ACall, Kinds
<1>3. spans = <<s>> /\ measured = <<0>> /\ stack = <<c>> /\ way = "in"
  BY DEF TracingInit
<1> HIDE DEF s
<1>4. Nested
  BY <1>1, <1>2, <1>3 DEF Nested
<1>5. EndedWhenOver
  BY <1>1, <1>2, <1>3 DEF EndedWhenOver, MeasuredOnce, StillOpen, Timed
<1>6. Parented
  BY <1>1, <1>3 DEF Parented
<1>7. NamedInTime
  <2>1. cut = "none" /\ learnt = FALSE
    BY DEF TracingInit
  <2>2. ~InFramework
    BY <1>3 DEF InFramework
  <2> QED
    BY <1>1, <1>3, <2>1, <2>2 DEF NamedInTime
<1> QED
  BY <1>4, <1>5, <1>6, <1>7 DEF TraceInv

LEMMA InGuards ==
    ASSUME TraceInv, way \in {"in", "back"}
    PROVE  stack # <<>> /\ Nested /\ Parented /\ EndedWhenOver /\ NamedInTime
BY DEF TraceInv, EndedWhenOver

\* Among the guards, and at the mux, the framework has not been entered.
LEMMA NotLearntYet ==
    ASSUME TraceInv, way = "in", Top.at \in {"http", "middleware"}
    PROVE  ~InFramework /\ ~learnt
<1>1. Nested /\ NamedInTime /\ stack # <<>>
  BY InGuards
<1>2. Len(stack) \in 1..Len(stack) /\ Top = stack[Len(stack)]
  BY <1>1, TopAndOuter
<1>3. ASSUME NEW k \in 1..Len(stack), stack[k].at \in {"render", "api"} PROVE FALSE
  <2>1. k # Len(stack) /\ k < Len(stack)
    BY <1>2, <1>3
  <2>2. Top.at # "http"
    BY <1>1, <1>2, <2>1 DEF Nested
  <2>3. stack[k].passed
    BY <1>1, <1>2, <2>1, <2>2 DEF Nested
  <2> QED
    BY <1>1, <1>3, <2>3 DEF Nested
<1> QED
  BY <1>1, <1>3 DEF InFramework, NamedInTime

LEMMA GuardEntersKeeps ==
    ASSUME TraceInv, GuardEnters
    PROVE  TraceInv'
<1>1. /\ way = "in" /\ way' = "in" /\ Top.at \in {"http", "middleware"} /\ Top.passed
      /\ Started("middleware") /\ UNCHANGED <<target, cut, learnt>>
  BY DEF GuardEnters
<1>2. /\ Nested /\ Parented /\ EndedWhenOver /\ NamedInTime /\ stack # <<>> /\ spans \in Seq(ASpan)
      /\ Len(spans) \in Nat /\ Len(spans) > 0 /\ Len(stack) \in Nat
  BY <1>1, InGuards DEF EndedWhenOver, Nested
<1>3. Alike(spans, spans)
  BY <1>2, AlikeItself
<1>4. "middleware" \in Kinds \ {"http", "navigation"} /\ Top.at \in Within("middleware")
  BY <1>1 DEF Kinds, Within
<1>5. /\ Nested' /\ Parented' /\ EndedWhenOver'
      /\ Len(spans') = Len(spans) + 1 /\ spans'[Len(spans) + 1].kind = "middleware"
      /\ \A i \in 1..Len(spans) : spans'[i] = spans[i]
      /\ Len(stack') = Len(stack) + 1 /\ \A k \in 1..Len(stack) : stack'[k] = stack[k]
      /\ stack'[Len(stack) + 1].at = "middleware" /\ stack'[Len(stack) + 1].span = Len(spans) + 1
  BY <1>1, <1>2, <1>3, <1>4, StartedKeeps DEF Started
<1>6. ~learnt /\ ~InFramework
  BY <1>1, NotLearntYet
<1>7. ~Unguarded' /\ spans'[1] = spans[1]
  BY <1>2, <1>5 DEF Unguarded
<1>8. ~InFramework'
  <2> SUFFICES ASSUME NEW k \in 1..Len(stack') PROVE stack'[k].at \notin {"render", "api"}
    BY DEF InFramework
  <2>1. k \in 1..Len(stack) \/ k = Len(stack) + 1
    BY <1>2, <1>5
  <2> QED
    BY <1>5, <1>6, <2>1 DEF InFramework
<1>9. ASSUME NEW i \in 1..Len(spans'), spans'[i].kind = "middleware"
      PROVE  \E k \in 1..Len(stack') : stack'[k].span = i
  <2>1. CASE i \in 1..Len(spans)
    <3>1. spans[i].kind = "middleware"
      BY <1>5, <1>9, <2>1
    <3>2. PICK k \in 1..Len(stack) : stack[k].span = i
      BY <1>1, <1>2, <2>1, <3>1 DEF NamedInTime
    <3>3. k \in 1..Len(stack') /\ stack'[k].span = i
      BY <1>2, <1>5, <3>2
    <3> QED
      BY <3>3
  <2>2. CASE i = Len(spans) + 1
    <3>1. Len(stack) + 1 \in 1..Len(stack')
      BY <1>2, <1>5
    <3> QED
      BY <1>5, <2>2, <3>1
  <2> QED
    BY <1>2, <1>5, <2>1, <2>2
<1>10. NamedInTime'
  BY <1>1, <1>2, <1>6, <1>7, <1>8, <1>9 DEF NamedInTime
<1> QED
  BY <1>5, <1>10 DEF TraceInv

\* The guard has passed: its span is ended, and stays below what follows.
LEMMA GuardPassesKeeps ==
    ASSUME TraceInv, GuardPasses
    PROVE  TraceInv'
<1> DEFINE n == Len(stack)
           s == Top.span
           c == [Top EXCEPT !.passed = TRUE]
<1>1. /\ way = "in" /\ way' = "in" /\ Top.at = "middleware" /\ ~Top.passed
      /\ stack' = [stack EXCEPT ![n].passed = TRUE]
      /\ spans' = Ended(spans, s, FALSE) /\ Measured(s)
      /\ UNCHANGED <<target, cut, learnt>>
  BY DEF GuardPasses
<1>2. /\ Nested /\ Parented /\ EndedWhenOver /\ NamedInTime /\ stack # <<>> /\ spans \in Seq(ASpan) /\ Len(spans) \in Nat
      /\ measured \in Seq(Nat) /\ Len(measured) = Len(spans) /\ stack \in Seq(ACall)
  BY <1>1, InGuards DEF EndedWhenOver, Nested
<1>3. n \in 1..n /\ n \in Nat /\ Top = stack[n] /\ Top \in ACall /\ s \in 1..Len(spans)
  BY <1>2, TopAndOuter
<1>4. c \in ACall /\ c.at = "middleware" /\ c.span = s /\ c.passed /\ ~StillOpen(c)
  BY <1>1, <1>3 DEF ACall, StillOpen
<1>5. stack' = [stack EXCEPT ![n] = c]
  BY <1>1, <1>3
<1> HIDE DEF c
<1>6. /\ stack' \in Seq(ACall) /\ Len(stack') = n
      /\ \A k \in 1..n : stack'[k] = IF k = n THEN c ELSE stack[k]
  BY <1>2, <1>3, <1>4, <1>5, OneChanges
<1>7. /\ EndedOne(spans, spans', s)
      /\ \A i \in 1..Len(spans) : spans'[i].routed = spans[i].routed
  BY <1>1, <1>2, <1>3, SpanEnds
<1>8. /\ spans' \in Seq(ASpan) /\ Len(spans') = Len(spans)
      /\ \A i \in 1..Len(spans) :
            /\ spans'[i].kind = spans[i].kind /\ spans'[i].parent = spans[i].parent
            /\ spans'[i].routed = spans[i].routed
            /\ spans'[i].ended = IF i = s THEN spans[i].ended + 1 ELSE spans[i].ended
  BY <1>7 DEF EndedOne
<1>9. spans[s].kind = "middleware" /\ spans[s].ended = 0
  <2>1. StillOpen(stack[n])
    BY <1>1, <1>3 DEF StillOpen
  <2>2. StillOpen(stack[n]) <=> spans[stack[n].span].ended = 0
    BY <1>2, <1>3 DEF EndedWhenOver
  <2>3. spans[stack[n].span].kind = stack[n].at
    BY <1>2, <1>3 DEF Nested
  <2> QED
    BY <1>1, <1>3, <2>1, <2>2, <2>3
<1>10. measured' = measured
  <2>1. spans[s].kind \notin Timed
    BY <1>9 DEF Timed
  <2>2. measured' = [measured EXCEPT ![s] = measured[s]]
    BY <1>1, <2>1 DEF Measured
  <2> QED
    BY <1>2, <1>3, <2>2
<1> HIDE DEF n, s
<1>11. \A k \in 1..n : stack'[k].at = stack[k].at /\ stack'[k].span = stack[k].span
                       /\ (k # n => stack'[k] = stack[k]) /\ (stack[k].passed => stack'[k].passed)
  BY <1>1, <1>3, <1>4, <1>6 DEF s
<1>12. Nested'
  <2>1. ASSUME NEW k \in 1..n
        PROVE  /\ stack'[k].span \in 1..Len(spans')
               /\ spans'[stack'[k].span].kind = stack'[k].at
               /\ stack'[k].at = "http" <=> k = 1
               /\ k = 1 => stack'[k].span = 1 /\ stack'[k].passed
               /\ k # 1 => spans'[stack'[k].span].parent = stack'[k - 1].span
               /\ stack'[k].passed => stack'[k].at \in {"http", "middleware"}
    <3>1. /\ stack[k].span \in 1..Len(spans) /\ spans[stack[k].span].kind = stack[k].at
          /\ stack[k].at = "http" <=> k = 1
          /\ k = 1 => stack[k].span = 1 /\ stack[k].passed
          /\ stack[k].passed => stack[k].at \in {"http", "middleware"}
          /\ k # 1 => spans[stack[k].span].parent = stack[k - 1].span
      BY <1>2 DEF Nested, n
    <3>2. k = 1 \/ k - 1 \in 1..n
      BY <1>3
    <3>3. k = 1 => k # n
      BY <1>1, <1>3, <3>1
    <3>4. k = n => stack'[k].at = "middleware"
      BY <1>4, <1>6
    <3>5. /\ spans'[stack[k].span].kind = spans[stack[k].span].kind
          /\ spans'[stack[k].span].parent = spans[stack[k].span].parent
      BY <1>8, <3>1
    <3> QED
      BY <1>8, <1>11, <3>1, <3>2, <3>3, <3>4, <3>5
  <2>2. ASSUME NEW j \in 1..n, NEW k \in 1..n, j < k
        PROVE  /\ stack'[j].span < stack'[k].span
               /\ stack'[k].at \in {"middleware", "render", "api"} => stack'[j].passed
    <3>1. /\ stack[j].span < stack[k].span
          /\ stack[k].at \in {"middleware", "render", "api"} => stack[j].passed
      BY <1>2, <2>2 DEF Nested, n
    <3> QED
      BY <1>11, <3>1
  <2> QED
    BY <1>3, <1>6, <2>1, <2>2 DEF Nested
<1>13. EndedWhenOver'
  <2>1. ASSUME NEW i \in 1..Len(spans') PROVE MeasuredOnce(spans'[i], measured'[i])
    <3>1. MeasuredOnce(spans[i], measured[i])
      BY <1>2, <1>8 DEF EndedWhenOver
    <3>2. i # s => MeasuredOnce(spans'[i], measured'[i])
      BY <1>8, <1>10, <3>1 DEF MeasuredOnce
    <3>3. i = s => MeasuredOnce(spans'[i], measured'[i])
      BY <1>8, <1>9, <1>10, <3>1 DEF MeasuredOnce, Timed
    <3> QED
      BY <3>2, <3>3
  <2>2. ASSUME NEW k \in 1..n PROVE StillOpen(stack'[k]) <=> spans'[stack'[k].span].ended = 0
    <3>1. CASE k = n
      BY <1>3, <1>4, <1>6, <1>8, <1>9, <3>1
    <3>2. CASE k # n
      <4>1. stack[k].span < stack[n].span /\ stack[k].span \in 1..Len(spans)
        <5>1. k < n
          BY <1>3, <3>2
        <5> QED
          BY <1>2, <1>3, <5>1 DEF Nested, n
      <4>2. stack[k].span # s
        BY <1>2, <1>3, <4>1 DEF s
      <4>3. spans'[stack[k].span].ended = spans[stack[k].span].ended
        BY <1>8, <4>1, <4>2
      <4>4. StillOpen(stack[k]) <=> spans[stack[k].span].ended = 0
        BY <1>2 DEF EndedWhenOver, n
      <4> QED
        BY <1>6, <3>2, <4>3, <4>4
    <3> QED
      BY <3>1, <3>2
  <2>3. ASSUME NEW i \in 1..Len(spans'), spans'[i].ended = 0
        PROVE  \E k \in 1..n : stack'[k].span = i
    <3>1. i \in 1..Len(spans) /\ spans[i].ended = 0
      BY <1>8, <1>9, <2>3
    <3>2. PICK k \in 1..n : stack[k].span = i
      BY <1>1, <1>2, <3>1 DEF EndedWhenOver, n
    <3> QED
      BY <1>11, <3>2
  <2>4. stack' # <<>> /\ Len(spans') > 0 /\ Len(spans') \in Nat /\ Len(measured') = Len(spans')
    BY <1>2, <1>3, <1>6, <1>8, <1>10 DEF EndedWhenOver
  <2> QED
    BY <1>1, <1>2, <1>6, <1>8, <1>10, <2>1, <2>2, <2>3, <2>4 DEF EndedWhenOver
<1>14. Parented' /\ (Unguarded' <=> Unguarded)
  BY <1>2, <1>8, ParentsStay
<1>15. NamedInTime'
  <2>1. InFramework' <=> InFramework
    BY <1>6, <1>11 DEF InFramework, n
  <2>2. spans'[1].routed <=> spans[1].routed
    BY <1>2, <1>8 DEF EndedWhenOver
  <2>3. ASSUME NEW i \in 1..Len(spans'), spans'[i].kind = "middleware"
        PROVE  \E k \in 1..Len(stack') : stack'[k].span = i
    <3>1. PICK k \in 1..n : stack[k].span = i
      BY <1>1, <1>2, <1>8, <2>3 DEF NamedInTime, n
    <3> QED
      BY <1>6, <1>11, <3>1
  <2> QED
    BY <1>1, <1>2, <1>14, <2>1, <2>2, <2>3, InStays
<1> QED
  BY <1>12, <1>13, <1>14, <1>15 DEF TraceInv

LEMMA GuardAnswersKeeps ==
    ASSUME TraceInv, GuardAnswers
    PROVE  TraceInv'
<1>1. /\ way = "in" /\ way' = "back" /\ Top.at = "middleware" /\ cut' = "guard"
      /\ UNCHANGED <<stack, spans, measured, learnt>>
  BY DEF GuardAnswers
<1>2. Nested /\ Parented /\ EndedWhenOver /\ NamedInTime /\ stack # <<>> /\ spans \in Seq(ASpan)
  BY <1>1, InGuards DEF EndedWhenOver
<1>3. Alike(spans, spans')
  BY <1>1, <1>2, AlikeItself
<1>4. Nested' /\ Parented' /\ EndedWhenOver' /\ (Unguarded' <=> Unguarded)
  BY <1>1, <1>2, <1>3, TouchedKeeps
<1>5. ~learnt
  BY <1>1, NotLearntYet
<1>6. NamedInTime'
  BY <1>1, <1>2, <1>4, <1>5 DEF NamedInTime, Known
<1> QED
  BY <1>4, <1>6 DEF TraceInv

\* A call returns and its span is ended once, and measured if its kind is timed.
LEMMA EndingKeeps ==
    ASSUME Nested, Parented, EndedWhenOver, way \in {"in", "back"}, way' \in {"in", "back"}, Len(stack) > 1,
           ~Top.passed, stack' = Outer, Measured(Top.span), EndedOne(spans, spans', Top.span)
    PROVE  /\ Nested' /\ Parented' /\ EndedWhenOver' /\ (Unguarded' <=> Unguarded)
           /\ Len(stack') = Len(stack) - 1 /\ \A k \in 1..Len(stack') : stack'[k] = stack[k]
<1> DEFINE s == Top.span
<1>1. /\ spans \in Seq(ASpan) /\ Len(spans) \in Nat /\ measured \in Seq(Nat)
      /\ Len(measured) = Len(spans) /\ stack # <<>> /\ Len(stack) \in Nat
  BY DEF EndedWhenOver, Nested
<1>2. Top = stack[Len(stack)] /\ s \in 1..Len(spans) /\ Len(stack) \in 1..Len(stack)
  BY <1>1, TopAndOuter
<1>3. spans[s].ended = 0
  <2>1. StillOpen(stack[Len(stack)])
    BY <1>2 DEF StillOpen
  <2> QED
    BY <1>2, <2>1 DEF EndedWhenOver
<1>4. measured[s] = 0 /\ spans[s] \in ASpan
  BY <1>1, <1>2, <1>3 DEF EndedWhenOver, MeasuredOnce
<1> HIDE DEF s
<1>5. /\ spans' \in Seq(ASpan) /\ Len(spans') = Len(spans)
      /\ \A i \in 1..Len(spans) :
            /\ spans'[i].kind = spans[i].kind /\ spans'[i].parent = spans[i].parent
            /\ spans'[i].ended = IF i = s THEN spans[i].ended + 1 ELSE spans[i].ended
  BY DEF EndedOne, s
<1>6. measured' = [measured EXCEPT ![s] = IF spans[s].kind \in Timed THEN 1 ELSE 0]
  BY <1>1, <1>2, <1>4 DEF Measured, s
<1>7. /\ measured' \in Seq(Nat) /\ Len(measured') = Len(measured)
      /\ \A i \in 1..Len(spans) : i # s => measured'[i] = measured[i]
      /\ measured'[s] = IF spans[s].kind \in Timed THEN 1 ELSE 0
  BY <1>1, <1>2, <1>6, OneChanges
<1>8. spans'[s].ended > 0 /\ MeasuredOnce(spans'[s], measured'[s])
  BY <1>2, <1>3, <1>5, <1>7 DEF MeasuredOnce
<1> QED
  BY <1>5, <1>7, <1>8, ReturnedKeeps DEF s

LEMMA GuardReturnsKeeps ==
    ASSUME TraceInv, GuardReturns
    PROVE  TraceInv'
<1>1. /\ way = "back" /\ way' = "back" /\ Top.at = "middleware" /\ stack' = Outer
      /\ IF Top.passed THEN UNCHANGED <<spans, measured>>
         ELSE spans' = Ended(spans, Top.span, FALSE) /\ Measured(Top.span)
      /\ UNCHANGED <<routed, target, cut, learnt>>
  BY DEF GuardReturns
<1>2. /\ Nested /\ Parented /\ EndedWhenOver /\ NamedInTime /\ stack # <<>> /\ spans \in Seq(ASpan) /\ Len(spans) \in Nat
      /\ measured \in Seq(Nat) /\ Len(stack) \in Nat
  BY <1>1, InGuards DEF EndedWhenOver, Nested
<1>3. Len(stack) \in 1..Len(stack) /\ Top = stack[Len(stack)] /\ Top.span \in 1..Len(spans)
  BY <1>2, TopAndOuter
<1>4. Len(stack) > 1
  <2>1. Len(stack) # 1
    BY <1>1, <1>2, <1>3 DEF Nested
  <2>2. Len(stack) \in Nat /\ Len(stack) >= 1
    BY <1>2, <1>3
  <2> QED
    BY <2>1, <2>2
<1>5. 1 \in 1..Len(spans)
  BY <1>2, <1>3
<1>6. CASE Top.passed
  <2>1. spans[Top.span].ended # 0
    <3>1. ~StillOpen(stack[Len(stack)])
      BY <1>1, <1>3, <1>6 DEF StillOpen
    <3> QED
      BY <1>2, <1>3, <3>1 DEF EndedWhenOver
  <2>2. spans[Top.span] \in ASpan /\ MeasuredOnce(spans[Top.span], measured[Top.span])
    BY <1>2, <1>3 DEF EndedWhenOver
  <2>3. spans[Top.span].ended > 0
    BY <2>1, <2>2 DEF ASpan
  <2>4. spans' = spans /\ measured' = measured
    BY <1>1, <1>6
  <2>5. Nested' /\ Parented' /\ EndedWhenOver' /\ (Unguarded' <=> Unguarded)
    BY <1>1, <1>2, <1>4, <2>2, <2>3, <2>4, ReturnedKeeps
  <2>6. NamedInTime'
    BY <1>1, <1>2, <2>4, <2>5, BackStays
  <2> QED
    BY <2>5, <2>6 DEF TraceInv
<1>7. CASE ~Top.passed
  <2>1. /\ EndedOne(spans, spans', Top.span)
        /\ \A i \in 1..Len(spans) : spans'[i].routed = spans[i].routed
    BY <1>1, <1>2, <1>3, <1>7, SpanEnds
  <2>2. Nested' /\ Parented' /\ EndedWhenOver' /\ (Unguarded' <=> Unguarded)
    BY <1>1, <1>2, <1>4, <1>7, <2>1, EndingKeeps
  <2>3. NamedInTime'
    <3>1. spans'[1].routed <=> spans[1].routed
      BY <1>5, <2>1
    <3> QED
      BY <1>1, <1>2, <2>2, <3>1, BackStays
  <2> QED
    BY <2>2, <2>3 DEF TraceInv
<1> QED
  BY <1>6, <1>7

\* What the mux knows when it is reached: without guards it is the request's span that is current,
\* and open; otherwise it is a guard's.
LEMMA AtTheMux ==
    ASSUME TraceInv, AtMux
    PROVE  /\ way = "in" /\ Nested /\ Parented /\ EndedWhenOver /\ NamedInTime /\ stack # <<>>
           /\ Top.at \in {"http", "middleware"} /\ Top.passed /\ ~learnt /\ ~InFramework
           /\ ~spans[1].routed /\ cut = "none"
           /\ spans \in Seq(ASpan) /\ Len(spans) \in Nat /\ Len(spans) > 0
           /\ Current \in 1..Len(spans)
           /\ (Current = 1 /\ spans[1].ended = 0) <=> Unguarded
<1>1. way = "in" /\ Top.at \in {"http", "middleware"} /\ Top.passed
  BY DEF AtMux
<1>2. /\ Nested /\ Parented /\ EndedWhenOver /\ NamedInTime /\ stack # <<>> /\ spans \in Seq(ASpan)
      /\ Len(spans) \in Nat /\ Len(spans) > 0
  BY <1>1, InGuards DEF EndedWhenOver
<1>3. /\ Len(stack) \in 1..Len(stack) /\ Top = stack[Len(stack)] /\ Current \in 1..Len(spans)
      /\ Current = Top.span
  BY <1>2, TopAndOuter
<1>4. ASSUME Unguarded PROVE Current = 1 /\ spans[1].ended = 0
  <2>1. Len(stack) = 1 /\ stack[Len(stack)].span = 1
    BY <1>1, <1>2, <1>3, <1>4, MuxIsOutermost
  <2>2. StillOpen(stack[1])
    BY <1>2, <1>3, <2>1 DEF Nested, StillOpen
  <2>3. spans[stack[1].span].ended = 0
    BY <1>2, <1>3, <2>1, <2>2 DEF EndedWhenOver
  <2> QED
    BY <1>3, <2>1, <2>3
<1>5. ASSUME ~Unguarded PROVE Current # 1
  <2>1. PICK i \in 1..Len(spans) : spans[i].kind = "middleware"
    BY <1>5 DEF Unguarded
  <2>2. PICK k \in 1..Len(stack) : stack[k].span = i
    BY <1>1, <1>2, <2>1 DEF NamedInTime
  <2>3. k # 1
    BY <1>2, <2>1, <2>2 DEF Nested
  <2>4. Len(stack) # 1
    BY <2>2, <2>3
  <2> QED
    BY <1>2, <1>3, <2>4, LaterIsNotFirst
<1>6. ~learnt /\ ~InFramework
  BY <1>1, NotLearntYet
<1>7. ~spans[1].routed /\ cut = "none"
  BY <1>1, <1>2, <1>6 DEF NamedInTime
<1> QED
  BY <1>1, <1>2, <1>3, <1>4, <1>5, <1>6, <1>7

\* The mux names the request, whatever is behind it.
LEMMA MuxNames ==
    ASSUME NEW ss, Alike(spans, ss), spans \in Seq(ASpan), Current \in 1..Len(spans)
    PROVE  /\ Alike(spans, FromMux(ss))
           /\ FromMux(ss)[1].routed <=>
                 ss[1].routed \/ (routed /\ Current = 1 /\ spans[1].ended = 0)
<1>1. ss \in Seq(ASpan) /\ Current \in 1..Len(ss) /\ Len(ss) = Len(spans)
      /\ ss[Current].ended = spans[Current].ended
  BY DEF Alike
<1>2. CASE routed
  <2>1. FromMux(ss) = SetRoute(ss, Current)
    BY <1>2 DEF FromMux
  <2>2. /\ Alike(ss, SetRoute(ss, Current))
        /\ SetRoute(ss, Current)[1].routed <=> ss[1].routed \/ (Current = 1 /\ ss[1].ended = 0)
    BY <1>1, RouteIsSet
  <2>3. Alike(spans, FromMux(ss))
    BY <2>1, <2>2, AlikeOnward
  <2> QED
    BY <1>1, <1>2, <2>1, <2>2, <2>3
<1>3. CASE ~routed
  BY <1>3 DEF FromMux
<1> QED
  BY <1>2, <1>3

\* Behind the mux a page or an endpoint begins, under the route that is set by then.
LEMMA BehindMuxKeeps ==
    ASSUME TraceInv, AtMux, NEW kind \in {"render", "api"}, NEW ss, Alike(spans, ss), way' = "in",
           ss[1].routed <=> learnt' /\ Unguarded, learnt' <=> target \in {"page", "endpoint"},
           spans' = Append(ss, Span(kind, Current)), measured' = Append(measured, 0),
           stack' = Append(stack, [at |-> kind, span |-> Len(spans'), passed |-> FALSE]),
           UNCHANGED <<target, cut>>
    PROVE  TraceInv'
<1>1. /\ way = "in" /\ Nested /\ Parented /\ EndedWhenOver /\ NamedInTime /\ stack # <<>>
      /\ Top.at \in {"http", "middleware"} /\ Top.passed
      /\ Len(spans) \in Nat /\ Len(spans) > 0 /\ cut = "none"
  BY AtTheMux
<1>2. kind \in Kinds \ {"http", "navigation"} /\ Top.at \in Within(kind)
  BY <1>1 DEF Kinds, Within
<1>3. Len(stack) \in Nat
  BY <1>1 DEF Nested
<1>4. /\ Nested' /\ Parented' /\ EndedWhenOver'
      /\ Len(spans') = Len(spans) + 1 /\ spans'[Len(spans) + 1].kind = kind
      /\ \A i \in 1..Len(spans) : spans'[i] = ss[i] /\ spans'[i].kind = spans[i].kind
      /\ Len(stack') = Len(stack) + 1 /\ \A k \in 1..Len(stack) : stack'[k] = stack[k]
      /\ stack'[Len(stack) + 1].at = kind
  BY <1>1, <1>2, StartedKeeps
<1>5. InFramework'
  <2>1. Len(stack) + 1 \in 1..Len(stack')
    BY <1>3, <1>4
  <2> QED
    BY <1>4, <2>1 DEF InFramework
<1>6. \A i \in 1..Len(spans') : spans'[i].kind = "middleware" =>
         i \in 1..Len(spans) /\ spans[i].kind = "middleware"
  <2>1. \A i \in 1..Len(spans') : i \in 1..Len(spans) \/ i = Len(spans) + 1
    BY <1>1, <1>4
  <2> QED
    BY <1>4, <2>1
<1>7. Unguarded' <=> Unguarded
  <2>1. \A i \in 1..Len(spans) : i \in 1..Len(spans') /\ spans'[i].kind = spans[i].kind
    BY <1>1, <1>4
  <2> QED
    BY <1>6, <2>1 DEF Unguarded
<1>8. ASSUME NEW i \in 1..Len(spans'), spans'[i].kind = "middleware"
      PROVE  \E k \in 1..Len(stack') : stack'[k].span = i
  <2>1. i \in 1..Len(spans) /\ spans[i].kind = "middleware"
    BY <1>6, <1>8
  <2>2. PICK k \in 1..Len(stack) : stack[k].span = i
    BY <1>1, <2>1 DEF NamedInTime
  <2>3. k \in 1..Len(stack') /\ stack'[k].span = i
    BY <1>3, <1>4, <2>2
  <2> QED
    BY <2>3
<1>9. spans'[1].routed <=> learnt' /\ Unguarded'
  BY <1>1, <1>4, <1>7
<1>10. NamedInTime'
  BY <1>1, <1>5, <1>8, <1>9 DEF NamedInTime
<1> QED
  BY <1>4, <1>10 DEF TraceInv

LEMMA RenderStartsKeeps ==
    ASSUME TraceInv, RenderStarts
    PROVE  TraceInv'
<1> DEFINE ss == IF target = "page" THEN SetRoute(spans, Current) ELSE spans
<1>1. /\ AtMux /\ target \in {"page", "unknown"} /\ way' = way /\ UNCHANGED <<target, cut>>
      /\ spans' = Append(ss, Span("render", Current)) /\ measured' = Append(measured, 0)
      /\ stack' = Append(stack, [at |-> "render", span |-> Len(spans'), passed |-> FALSE])
      /\ learnt' = (learnt \/ target = "page")
  BY DEF RenderStarts
<1>2. /\ spans \in Seq(ASpan) /\ Current \in 1..Len(spans) /\ way = "in" /\ ~learnt /\ ~spans[1].routed
      /\ (Current = 1 /\ spans[1].ended = 0) <=> Unguarded
  BY <1>1, AtTheMux
<1>3. Alike(spans, ss) /\ (ss[1].routed <=> target = "page" /\ Unguarded)
  <2>1. CASE target = "page"
    BY <1>2, <2>1, RouteIsSet
  <2>2. CASE target # "page"
    BY <1>2, <2>2, AlikeItself
  <2> QED
    BY <2>1, <2>2
<1>4. learnt' <=> target \in {"page", "endpoint"}
  BY <1>1, <1>2
<1> HIDE DEF ss
<1> QED
  BY <1>1, <1>2, <1>3, <1>4, BehindMuxKeeps

LEMMA CallStartsKeeps ==
    ASSUME TraceInv, CallStarts
    PROVE  TraceInv'
<1> DEFINE ss == SetRoute(spans, Current)
<1>1. /\ AtMux /\ way' = way /\ UNCHANGED <<target, cut>> /\ target = "endpoint" /\ learnt' = TRUE
      /\ spans' = Append(ss, Span("api", Current)) /\ measured' = Append(measured, 0)
      /\ stack' = Append(stack, [at |-> "api", span |-> Len(spans'), passed |-> FALSE])
  BY DEF CallStarts
<1>2. /\ spans \in Seq(ASpan) /\ Current \in 1..Len(spans) /\ way = "in" /\ ~spans[1].routed
      /\ (Current = 1 /\ spans[1].ended = 0) <=> Unguarded
  BY <1>1, AtTheMux
<1>3. Alike(spans, ss) /\ (ss[1].routed <=> Unguarded)
  BY <1>2, RouteIsSet
<1> HIDE DEF ss
<1> QED
  BY <1>1, <1>2, <1>3, BehindMuxKeeps

\* What answers at the mux, on the current span.
LEMMA AnsweredKeeps ==
    ASSUME TraceInv, AtMux, NEW ss, Alike(spans, ss), NEW learns \in BOOLEAN, Replied(ss, learns),
           ss[1].routed <=> learns /\ Unguarded, cut' # "guard",
           learns <=> cut' = "none" /\ target \in {"page", "endpoint"}
    PROVE  TraceInv'
<1>1. /\ way = "in" /\ Nested /\ Parented /\ EndedWhenOver /\ Len(spans) \in Nat
      /\ spans \in Seq(ASpan) /\ Current \in 1..Len(spans) /\ ~learnt
      /\ (Current = 1 /\ spans[1].ended = 0) <=> Unguarded
  BY AtTheMux
<1>2. /\ way' = "back" /\ spans' = FromMux(ss) /\ learnt' = (learnt \/ learns \/ routed)
      /\ UNCHANGED <<routed, target, stack, measured>>
  BY DEF Replied
<1>3. /\ Alike(spans, spans')
      /\ spans'[1].routed <=> ss[1].routed \/ (routed /\ Current = 1 /\ spans[1].ended = 0)
  BY <1>1, <1>2, MuxNames
<1>4. Nested' /\ Parented' /\ EndedWhenOver' /\ (Unguarded' <=> Unguarded)
  BY <1>1, <1>2, <1>3, TouchedKeeps
<1>5. learnt' <=> learns \/ routed
  BY <1>1, <1>2
<1>6. spans'[1].routed <=> learnt' /\ Unguarded'
  BY <1>1, <1>3, <1>4, <1>5
<1>7. learnt' <=> Known'
  BY <1>2, <1>5 DEF Known
<1> QED
  BY <1>2, <1>4, <1>6, <1>7 DEF TraceInv, NamedInTime

LEMMA PageHitsKeeps ==
    ASSUME TraceInv, PageHits
    PROVE  TraceInv'
<1>1. AtMux /\ cut' = "hit" /\ Replied(spans, FALSE)
  BY DEF PageHits
<1>2. Alike(spans, spans) /\ ~spans[1].routed
  BY <1>1, AtTheMux, AlikeItself
<1> QED
  BY <1>1, <1>2, AnsweredKeeps

LEMMA PlainAnswersKeeps ==
    ASSUME TraceInv, PlainAnswers
    PROVE  TraceInv'
<1>1. AtMux /\ target = "plain" /\ cut' = cut /\ Replied(spans, FALSE)
  BY DEF PlainAnswers
<1>2. Alike(spans, spans) /\ ~spans[1].routed /\ cut = "none"
  BY <1>1, AtTheMux, AlikeItself
<1> QED
  BY <1>1, <1>2, AnsweredKeeps

LEMMA LimitsKeeps ==
    ASSUME TraceInv, Limits
    PROVE  TraceInv'
<1> DEFINE ss == Erred(spans, Current)
<1>1. AtMux /\ cut' = "limit" /\ Replied(ss, FALSE)
  BY DEF Limits
<1>2. Alike(spans, ss) /\ ~ss[1].routed
  BY <1>1, AtTheMux, ErrorIsRecorded
<1> HIDE DEF ss
<1> QED
  BY <1>1, <1>2, AnsweredKeeps

LEMMA GuardedKeeps ==
    ASSUME TraceInv, NEW stage \in Stages, Guarded(stage)
    PROVE  TraceInv'
<1> DEFINE withRoute == SetRoute(spans, Current)
           erred == Erred(withRoute, Current)
           staged == [erred EXCEPT ![Current].stage = stage]
           ss == IF stage = "none" \/ withRoute[Current].ended > 0 THEN withRoute ELSE staged
<1>1. AtMux /\ target = "endpoint" /\ cut' = cut /\ Replied(ss, TRUE)
  BY DEF Guarded
<1>2. /\ spans \in Seq(ASpan) /\ Current \in 1..Len(spans) /\ ~spans[1].routed /\ cut = "none"
      /\ (Current = 1 /\ spans[1].ended = 0) <=> Unguarded
  BY <1>1, AtTheMux
<1>3. Alike(spans, withRoute) /\ (withRoute[1].routed <=> Unguarded)
  BY <1>2, RouteIsSet
<1>4. withRoute \in Seq(ASpan) /\ Current \in 1..Len(withRoute)
  BY <1>2, <1>3 DEF Alike
<1> HIDE DEF withRoute
<1>5. Alike(withRoute, erred) /\ erred[1].routed = withRoute[1].routed
  BY <1>4, ErrorIsRecorded
<1>6. erred \in Seq(ASpan) /\ Current \in 1..Len(erred)
  BY <1>4, <1>5 DEF Alike
<1> HIDE DEF erred
<1>7. Alike(erred, staged) /\ staged[1].routed = erred[1].routed
  BY <1>6, StageIsSet
<1> HIDE DEF staged
<1>8. Alike(withRoute, staged)
  BY <1>5, <1>7, AlikeOnward
<1>9. Alike(withRoute, ss) /\ (ss[1].routed <=> Unguarded)
  BY <1>3, <1>4, <1>5, <1>7, <1>8, AlikeItself
<1>10. Alike(spans, ss)
  BY <1>3, <1>9, AlikeOnward
<1> HIDE DEF ss
<1> QED
  BY <1>1, <1>2, <1>9, <1>10, AnsweredKeeps

\* An endpoint or a page is over; a page not found gets its route from the mux.
LEMMA CallEndsKeeps ==
    ASSUME TraceInv, NEW stage \in Stages, CallEnds(stage)
    PROVE  TraceInv'
<1> DEFINE s == Top.span
           around == Outer[Len(Outer)].span
           staged == [spans EXCEPT ![s].stage = stage]
           ended == Ended(staged, s, stage # "none")
           ss == Erred(ended, s)
<1>1. /\ way = "in" /\ way' = "back" /\ Top.at \in {"render", "api"} /\ stack' = Outer
      /\ Measured(s) /\ spans' = (IF routed THEN SetRoute(ss, around) ELSE ss)
      /\ learnt' = (learnt \/ routed) /\ UNCHANGED <<routed, target, cut>>
  BY DEF CallEnds
<1>2. /\ Nested /\ Parented /\ EndedWhenOver /\ NamedInTime /\ stack # <<>> /\ spans \in Seq(ASpan)
      /\ Len(spans) \in Nat /\ Len(spans) > 0 /\ Len(stack) \in Nat
  BY <1>1, InGuards DEF EndedWhenOver, Nested
<1>3. /\ Len(stack) \in 1..Len(stack) /\ Top = stack[Len(stack)] /\ s \in 1..Len(spans)
      /\ Len(Outer) = Len(stack) - 1 /\ \A k \in 1..Len(stack) - 1 : Outer[k] = stack[k]
      /\ Top \in ACall
  BY <1>2, TopAndOuter
<1>4. Len(stack) # 1 /\ ~Top.passed
  BY <1>1, <1>2, <1>3 DEF Nested, ACall
<1>5. Len(stack) > 1 /\ Len(stack) - 1 \in 1..Len(stack) /\ Len(stack) - 1 < Len(stack)
  <2>1. Len(stack) \in Nat /\ Len(stack) >= 1
    BY <1>2, <1>3
  <2>2. Len(stack) # 1
    BY <1>4
  <2> QED
    BY ONLY <2>1, <2>2, MoreThanOne
<1>6. Outer[Len(Outer)] = stack[Len(stack) - 1]
  BY <1>2, <1>3, <1>5
<1>7. around \in 1..Len(spans) /\ around # s
  <2>1. stack[Len(stack) - 1].span \in 1..Len(spans)
        /\ stack[Len(stack) - 1].span < stack[Len(stack)].span
    BY <1>2, <1>3, <1>5 DEF Nested
  <2> QED
    BY <1>2, <1>3, <1>6, <2>1
<1>8. stack[Len(stack) - 1].passed /\ stack[Len(stack) - 1].at \in {"http", "middleware"}
  BY <1>1, <1>2, <1>3, <1>5 DEF Nested
<1>9. Alike(spans, staged) /\ staged[1].routed = spans[1].routed
  BY <1>2, <1>3, StageIsSet
<1>10. staged \in Seq(ASpan) /\ Len(staged) = Len(spans) /\ s \in 1..Len(staged)
  BY <1>3, <1>9 DEF Alike
<1> HIDE DEF staged
<1>11. EndedOne(staged, ended, s) /\ ended[1].routed = staged[1].routed
  <2>1. (stage # "none") \in BOOLEAN /\ 1 \in 1..Len(staged)
    BY <1>2, <1>10
  <2> QED
    BY <1>10, <2>1, SpanEnds
<1>12. ended \in Seq(ASpan) /\ s \in 1..Len(ended) /\ Len(ended) = Len(spans)
  BY <1>10, <1>11 DEF EndedOne
<1> HIDE DEF ended
<1>13. Alike(ended, ss) /\ ss[1].routed = ended[1].routed
  BY <1>12, ErrorIsRecorded
<1>14. ss \in Seq(ASpan) /\ Len(ss) = Len(spans) /\ around \in 1..Len(ss)
  BY <1>7, <1>12, <1>13 DEF Alike
<1> HIDE DEF ss, s, around
<1>15. /\ Alike(ss, spans')
       /\ spans'[1].routed <=> ss[1].routed \/ (routed /\ around = 1 /\ ss[1].ended = 0)
  <2>1. CASE routed
    BY <1>1, <1>14, <2>1, RouteIsSet
  <2>2. CASE ~routed
    BY <1>1, <1>14, <2>2, AlikeItself
  <2> QED
    BY <2>1, <2>2
<1>16. /\ Len(spans') = Len(spans) /\ spans' \in Seq(ASpan)
       /\ \A i \in 1..Len(spans) :
             /\ staged[i].kind = spans[i].kind /\ staged[i].ended = spans[i].ended
             /\ staged[i].parent = spans[i].parent
             /\ ended[i].kind = staged[i].kind /\ ended[i].parent = staged[i].parent
             /\ ended[i].ended = IF i = s THEN staged[i].ended + 1 ELSE staged[i].ended
             /\ ss[i].kind = ended[i].kind /\ ss[i].ended = ended[i].ended
             /\ ss[i].parent = ended[i].parent
             /\ spans'[i].kind = ss[i].kind /\ spans'[i].ended = ss[i].ended
             /\ spans'[i].parent = ss[i].parent
  BY <1>9, <1>10, <1>11, <1>12, <1>13, <1>14, <1>15 DEF Alike, EndedOne
<1>17. EndedOne(spans, spans', s)
  BY <1>16 DEF EndedOne
<1>18. Nested' /\ Parented' /\ EndedWhenOver' /\ (Unguarded' <=> Unguarded)
  BY <1>1, <1>2, <1>4, <1>5, <1>17, EndingKeeps DEF s
<1>19. (around = 1 /\ ss[1].ended = 0) <=> Unguarded
  <2>1. 1 \in 1..Len(spans)
    BY <1>2
  <2>2. ASSUME Unguarded PROVE around = 1 /\ ss[1].ended = 0
    <3>1. Len(stack) - 1 = 1 /\ around = 1
      BY <1>2, <1>5, <1>6, <1>8, <2>2, MuxIsOutermost DEF around
    <3>2. spans[1].ended = 0
      <4>1. stack[1].span = 1 /\ StillOpen(stack[1]) /\ 1 \in 1..Len(stack)
        BY <1>2, <1>5, <3>1 DEF Nested, StillOpen
      <4> QED
        BY <1>2, <4>1 DEF EndedWhenOver
    <3> QED
      BY <1>7, <1>16, <2>1, <3>1, <3>2
  <2>3. ASSUME ~Unguarded PROVE around # 1
    <3>1. PICK i \in 1..Len(spans) : spans[i].kind = "middleware"
      BY <2>3 DEF Unguarded
    <3>2. PICK k \in 1..Len(stack) : stack[k].span = i
      BY <1>1, <1>2, <3>1 DEF NamedInTime
    <3>3. stack[k].at = "middleware"
      BY <1>2, <3>1, <3>2 DEF Nested
    <3>4. k # 1 /\ k # Len(stack)
      BY <1>1, <1>2, <1>3, <3>3 DEF Nested
    <3>5. Len(stack) - 1 # 1
      <4>1. k \in 1..Len(stack) /\ Len(stack) \in Nat
        BY <1>2, <3>2
      <4> QED
        BY ONLY <3>4, <4>1, BetweenTheEnds
    <3> QED
      BY <1>2, <1>5, <1>6, <3>5, LaterIsNotFirst DEF around
  <2> QED
    BY <2>2, <2>3
<1>20. spans'[1].routed <=> learnt' /\ Unguarded'
  <2>1. spans[1].routed <=> learnt /\ Unguarded
    BY <1>2 DEF NamedInTime
  <2> QED
    BY <1>1, <1>9, <1>11, <1>13, <1>15, <1>18, <1>19, <2>1
<1>21. learnt' <=> Known'
  <2>1. InFramework
    BY <1>1, <1>3 DEF InFramework
  <2>2. cut = "none" /\ (learnt <=> target \in {"page", "endpoint"})
    BY <1>1, <1>2, <2>1 DEF NamedInTime
  <2> QED
    BY <1>1, <2>2 DEF Known
<1> QED
  BY <1>1, <1>18, <1>20, <1>21 DEF TraceInv, NamedInTime

\* On the way in, a document operation or its call into the backend begins, or is over: neither is
\* of the framework, nor a guard.
LEMMA ReadsKeep ==
    ASSUME TraceInv, OpStarts \/ StorageStarts
    PROVE  TraceInv'
<1>1. PICK kind \in {"db", "db.storage"} : Started(kind) /\ Top.at \in Within(kind)
  <2>1. CASE OpStarts
    <3>1. way = "in" /\ Started("db") /\ Top.at # "db.storage"
      BY <2>1 DEF OpStarts
    <3>2. stack # <<>> /\ Nested
      BY <3>1, InGuards
    <3>3. Top.at \in Kinds \ {"navigation"}
      BY <3>2, TopAndOuter DEF ACall
    <3> QED
      BY <3>1, <3>3 DEF Kinds, Within
  <2>2. CASE StorageStarts
    BY <2>2 DEF StorageStarts, Within
  <2> QED
    BY <2>1, <2>2
<1>2. way = "in" /\ way' = "in" /\ UNCHANGED <<target, cut, learnt>>
  BY DEF OpStarts, StorageStarts
<1>3. /\ Nested /\ Parented /\ EndedWhenOver /\ NamedInTime /\ stack # <<>> /\ spans \in Seq(ASpan)
      /\ Len(spans) \in Nat /\ Len(stack) \in Nat /\ Len(spans) > 0
  BY <1>2, InGuards DEF EndedWhenOver, Nested
<1>4. Alike(spans, spans) /\ kind \in Kinds \ {"http", "navigation"}
  BY <1>3, AlikeItself DEF Kinds
<1>5. /\ Nested' /\ Parented' /\ EndedWhenOver'
      /\ Len(spans') = Len(spans) + 1 /\ spans'[Len(spans) + 1].kind = kind
      /\ \A i \in 1..Len(spans) : spans'[i] = spans[i]
      /\ Len(stack') = Len(stack) + 1 /\ \A k \in 1..Len(stack) : stack'[k] = stack[k]
      /\ stack'[Len(stack) + 1].at = kind
  BY <1>1, <1>2, <1>3, <1>4, StartedKeeps DEF Started
<1>6. \A i \in 1..Len(spans) : i \in 1..Len(spans') /\ spans'[i].kind = spans[i].kind
  BY <1>3, <1>5
<1>7. \A i \in 1..Len(spans') : spans'[i].kind = "middleware" =>
         i \in 1..Len(spans) /\ spans[i].kind = "middleware"
  <2>1. \A i \in 1..Len(spans') : i \in 1..Len(spans) \/ i = Len(spans) + 1
    BY <1>3, <1>5
  <2> QED
    BY <1>5, <2>1
<1>8. \A k \in 1..Len(stack) : k \in 1..Len(stack') /\ stack'[k] = stack[k]
  BY <1>3, <1>5
<1>9. Unguarded' <=> Unguarded
  BY <1>6, <1>7 DEF Unguarded
<1>10. InFramework' <=> InFramework
  <2>1. \A k \in 1..Len(stack') : k \in 1..Len(stack) \/ k = Len(stack) + 1
    BY <1>3, <1>5
  <2> QED
    BY <1>5, <1>8, <2>1 DEF InFramework
<1>11. ASSUME NEW i \in 1..Len(spans'), spans'[i].kind = "middleware"
       PROVE  \E k \in 1..Len(stack') : stack'[k].span = i
  <2>1. i \in 1..Len(spans) /\ spans[i].kind = "middleware"
    BY <1>7, <1>11
  <2>2. PICK k \in 1..Len(stack) : stack[k].span = i
    BY <1>2, <1>3, <2>1 DEF NamedInTime
  <2> QED
    BY <1>8, <2>2
<1>12. spans'[1].routed <=> spans[1].routed
  BY <1>3, <1>5
<1>13. NamedInTime'
  BY <1>2, <1>3, <1>9, <1>10, <1>11, <1>12, InStays
<1> QED
  BY <1>5, <1>13 DEF TraceInv

LEMMA DbEndsKeeps ==
    ASSUME TraceInv, NEW err \in BOOLEAN, DbEnds(err)
    PROVE  TraceInv'
<1>1. /\ way = "in" /\ way' = "in" /\ Top.at \in {"db", "db.storage"} /\ stack' = Outer
      /\ spans' = Ended(spans, Top.span, err) /\ Measured(Top.span)
      /\ UNCHANGED <<target, cut, learnt>>
  BY DEF DbEnds
<1>2. /\ Nested /\ Parented /\ EndedWhenOver /\ NamedInTime /\ stack # <<>> /\ spans \in Seq(ASpan)
      /\ Len(spans) \in Nat /\ Len(stack) \in Nat /\ Len(spans) > 0
  BY <1>1, InGuards DEF EndedWhenOver, Nested
<1>3. /\ Len(stack) \in 1..Len(stack) /\ Top = stack[Len(stack)] /\ Top.span \in 1..Len(spans)
      /\ Len(Outer) = Len(stack) - 1 /\ Top \in ACall
  BY <1>2, TopAndOuter
<1>4. Len(stack) # 1 /\ ~Top.passed
  BY <1>1, <1>2, <1>3 DEF Nested, ACall
<1>5. Len(stack) > 1
  <2>1. Len(stack) \in Nat /\ Len(stack) >= 1
    BY <1>2, <1>3
  <2>2. Len(stack) # 1
    BY <1>4
  <2> QED
    BY ONLY <2>1, <2>2, MoreThanOne
<1>6. /\ EndedOne(spans, spans', Top.span)
      /\ \A i \in 1..Len(spans) : spans'[i].routed = spans[i].routed
  BY <1>1, <1>2, <1>3, SpanEnds
<1>7. /\ Nested' /\ Parented' /\ EndedWhenOver' /\ (Unguarded' <=> Unguarded)
      /\ Len(stack') = Len(stack) - 1 /\ \A k \in 1..Len(stack') : stack'[k] = stack[k]
  BY <1>1, <1>2, <1>4, <1>5, <1>6, EndingKeeps
<1>8. /\ \A k \in 1..Len(stack') : k \in 1..Len(stack) /\ stack'[k] = stack[k]
      /\ \A k \in 1..Len(stack) : k = Len(stack) \/ k \in 1..Len(stack')
  BY <1>2, <1>5, <1>7
<1>9. InFramework' <=> InFramework
  BY <1>1, <1>3, <1>8 DEF InFramework
<1>10. ASSUME NEW i \in 1..Len(spans'), spans'[i].kind = "middleware"
       PROVE  \E k \in 1..Len(stack') : stack'[k].span = i
  <2>1. i \in 1..Len(spans) /\ spans[i].kind = "middleware"
    BY <1>6, <1>10 DEF EndedOne
  <2>2. PICK k \in 1..Len(stack) : stack[k].span = i
    BY <1>1, <1>2, <2>1 DEF NamedInTime
  <2>3. k # Len(stack)
    BY <1>1, <1>2, <1>3, <2>1, <2>2 DEF Nested
  <2> QED
    BY <1>8, <2>2, <2>3
<1>11. spans'[1].routed <=> spans[1].routed
  BY <1>2, <1>6
<1>12. NamedInTime'
  BY <1>1, <1>2, <1>7, <1>9, <1>10, <1>11, InStays
<1> QED
  BY <1>7, <1>12 DEF TraceInv

\* A panic ends the operations under way, and the request: the others' spans are open for good.
LEMMA PanicsKeeps ==
    ASSUME TraceInv, Panics
    PROVE  TraceInv'
<1> DEFINE under == {j \in 1..Len(stack) : stack[j].at \in {"db", "http"}}
           ends == {stack[i].span : i \in under}
           ended(i) == Ended(spans, i, FALSE)[i]
<1>1. /\ way = "in" /\ way' = "panicked" /\ ~Top.passed /\ stack' = <<>>
      /\ spans' = [i \in 1..Len(spans) |-> IF i \in ends THEN ended(i) ELSE spans[i]]
      /\ measured' = [i \in 1..Len(spans) |->
                         IF i \in ends /\ spans[i].kind = "db" THEN measured[i] + 1 ELSE measured[i]]
      /\ learnt' = learnt
  BY DEF Panics
<1>2. /\ Nested /\ Parented /\ EndedWhenOver /\ NamedInTime /\ stack # <<>> /\ spans \in Seq(ASpan) /\ Len(spans) \in Nat
      /\ measured \in Seq(Nat) /\ Len(spans) > 0 /\ Len(measured) = Len(spans)
  BY <1>1, InGuards DEF EndedWhenOver
<1>3. \A i \in ends : i \in 1..Len(spans) /\ spans[i].kind \in {"db", "http"} /\ spans[i].ended = 0
  <2> SUFFICES ASSUME NEW k \in under
               PROVE  /\ stack[k].span \in 1..Len(spans) /\ spans[stack[k].span].kind \in {"db", "http"}
                      /\ spans[stack[k].span].ended = 0
    OBVIOUS
  <2>1. k \in 1..Len(stack) /\ stack[k].at \in {"db", "http"} /\ StillOpen(stack[k])
    BY DEF StillOpen
  <2> QED
    BY <1>2, <2>1 DEF Nested, EndedWhenOver
<1> HIDE DEF ends
<1>4. \A i \in 1..Len(spans) : ended(i) \in ASpan /\ ended(i).kind = spans[i].kind
                               /\ ended(i).ended = spans[i].ended + 1
                               /\ ended(i).parent = spans[i].parent
                               /\ ended(i).routed = spans[i].routed
  <2> SUFFICES ASSUME NEW i \in 1..Len(spans)
               PROVE  ended(i) \in ASpan /\ ended(i).kind = spans[i].kind
                      /\ ended(i).ended = spans[i].ended + 1
                      /\ ended(i).parent = spans[i].parent
                      /\ ended(i).routed = spans[i].routed
    OBVIOUS
  <2>1. /\ EndedOne(spans, Ended(spans, i, FALSE), i)
        /\ Ended(spans, i, FALSE)[i].routed = spans[i].routed
    BY <1>2, SpanEnds
  <2> QED
    <3> DEFINE tt == Ended(spans, i, FALSE)
    <3> HIDE DEF tt
    <3>1. EndedOne(spans, tt, i) /\ tt[i].routed = spans[i].routed
      BY <2>1 DEF tt
    <3>2. /\ tt[i] \in ASpan /\ tt[i].kind = spans[i].kind /\ tt[i].ended = spans[i].ended + 1
          /\ tt[i].parent = spans[i].parent
      BY <1>2, <3>1 DEF EndedOne
    <3> QED
      BY <3>1, <3>2 DEF tt
<1> HIDE DEF ended
<1>5. spans' \in Seq(ASpan) /\ Len(spans') = Len(spans)
  <2>1. \A i \in 1..Len(spans) : (IF i \in ends THEN ended(i) ELSE spans[i]) \in ASpan
    BY <1>2, <1>4
  <2> QED
    BY <1>1, <1>2, <2>1
<1>6. measured' \in Seq(Nat) /\ Len(measured') = Len(spans)
  <2>1. \A i \in 1..Len(spans) :
           (IF i \in ends /\ spans[i].kind = "db" THEN measured[i] + 1 ELSE measured[i]) \in Nat
    BY <1>2
  <2> QED
    BY <1>1, <1>2, <2>1
<1>7. ASSUME NEW i \in 1..Len(spans) PROVE MeasuredOnce(spans'[i], measured'[i])
  <2>1. MeasuredOnce(spans[i], measured[i])
    BY <1>2 DEF EndedWhenOver
  <2>2. CASE i \in ends
    <3>1. spans'[i] = ended(i)
          /\ measured'[i] = IF spans[i].kind = "db" THEN measured[i] + 1 ELSE measured[i]
      BY <1>1, <2>2
    <3>2. measured[i] = 0
      BY <1>3, <2>1, <2>2 DEF MeasuredOnce
    <3> QED
      BY <1>3, <1>4, <2>2, <3>1, <3>2 DEF MeasuredOnce, Timed
  <2>3. CASE i \notin ends
    BY <1>1, <2>1, <2>3
  <2> QED
    BY <2>2, <2>3
<1>8. Nested'
  BY <1>1 DEF Nested
<1>9. EndedWhenOver'
  BY <1>1, <1>2, <1>5, <1>6, <1>7 DEF EndedWhenOver
<1>10. \A i \in 1..Len(spans) :
          /\ spans'[i].kind = spans[i].kind /\ spans'[i].parent = spans[i].parent
          /\ spans'[i].routed = spans[i].routed
  BY <1>1, <1>4
<1>11. Parented' /\ (Unguarded' <=> Unguarded)
  BY <1>2, <1>5, <1>10, ParentsStay
<1>12. NamedInTime'
  <2>1. spans'[1].routed = spans[1].routed
    BY <1>2, <1>10
  <2> QED
    BY <1>1, <1>2, <1>11, <2>1 DEF NamedInTime
<1> QED
  BY <1>8, <1>9, <1>11, <1>12 DEF TraceInv

LEMMA RequestEndsKeeps ==
    ASSUME TraceInv, RequestEnds
    PROVE  TraceInv'
<1> DEFINE s == Top.span
<1>1. /\ way = "back" /\ Top.at = "http" /\ way' = "over" /\ spans' = Ended(spans, s, FALSE)
      /\ stack' = <<>> /\ UNCHANGED <<routed, target, measured, cut, learnt>>
  BY DEF RequestEnds
<1>2. /\ Nested /\ Parented /\ EndedWhenOver /\ NamedInTime /\ stack # <<>> /\ spans \in Seq(ASpan)
      /\ Len(spans) \in Nat /\ Len(spans) > 0 /\ Len(stack) \in Nat
  BY <1>1, InGuards DEF EndedWhenOver, Nested
<1>3. Len(stack) \in 1..Len(stack) /\ Top = stack[Len(stack)] /\ s \in 1..Len(spans)
  BY <1>2, TopAndOuter
<1>4. Len(stack) = 1 /\ s = 1 /\ Top.passed
  BY <1>1, <1>2, <1>3 DEF Nested
<1>5. spans[1].kind = "http" /\ spans[1].ended = 0
  <2>1. StillOpen(stack[1]) /\ stack[1].at = "http" /\ stack[1].span = 1 /\ 1 \in 1..Len(stack)
    BY <1>1, <1>3, <1>4 DEF StillOpen
  <2> QED
    BY <1>2, <2>1 DEF Nested, EndedWhenOver
<1>6. EndedOne(spans, spans', 1) /\ \A i \in 1..Len(spans) : spans'[i].routed = spans[i].routed
  BY <1>1, <1>2, <1>3, <1>4, SpanEnds
<1>7. /\ spans' \in Seq(ASpan) /\ Len(spans') = Len(spans)
      /\ \A i \in 1..Len(spans) :
            /\ spans'[i].kind = spans[i].kind /\ spans'[i].parent = spans[i].parent
            /\ spans'[i].ended = IF i = 1 THEN spans[i].ended + 1 ELSE spans[i].ended
  BY <1>6 DEF EndedOne
<1>8. \A i \in 1..Len(spans) : MeasuredOnce(spans'[i], measured'[i])
  <2> SUFFICES ASSUME NEW i \in 1..Len(spans) PROVE MeasuredOnce(spans'[i], measured'[i])
    OBVIOUS
  <2>1. MeasuredOnce(spans[i], measured[i]) /\ measured' = measured
    BY <1>1, <1>2 DEF EndedWhenOver
  <2> QED
    BY <1>5, <1>7, <2>1 DEF MeasuredOnce, Timed
<1>9. \A i \in 1..Len(spans) : spans'[i].ended # 0
  <2> SUFFICES ASSUME NEW i \in 1..Len(spans) PROVE spans'[i].ended # 0
    OBVIOUS
  <2>1. CASE i = 1
    BY <1>5, <1>7, <2>1
  <2>2. CASE i # 1
    <3>1. \A k \in 1..Len(stack) : stack[k].span # i
      BY <1>3, <1>4, <2>2
    <3>2. spans[i].ended # 0
      BY <1>1, <1>2, <3>1 DEF EndedWhenOver
    <3> QED
      BY <1>7, <2>2, <3>2
  <2> QED
    BY <2>1, <2>2
<1>10. Nested'
  BY <1>1 DEF Nested
<1>11. EndedWhenOver'
  <2>1. way' \in {"in", "back", "over", "panicked"} /\ (way' \in {"over", "panicked"} <=> stack' = <<>>)
    BY <1>1
  <2>2. /\ spans' \in Seq(ASpan) /\ Len(spans') \in Nat /\ Len(spans') > 0
        /\ measured' \in Seq(Nat) /\ Len(measured') = Len(spans')
    BY <1>1, <1>2, <1>7 DEF EndedWhenOver
  <2>3. \A k \in 1..Len(stack') : StillOpen(stack'[k]) <=> spans'[stack'[k].span].ended = 0
    BY <1>1
  <2>4. \A i \in 1..Len(spans') : MeasuredOnce(spans'[i], measured'[i]) /\ spans'[i].ended # 0
    BY <1>7, <1>8, <1>9
  <2> QED
    BY <2>1, <2>2, <2>3, <2>4 DEF EndedWhenOver
<1>12. Parented' /\ (Unguarded' <=> Unguarded)
  BY <1>2, <1>7, ParentsStay
<1>13. NamedInTime'
  <2>1. spans'[1].routed <=> spans[1].routed
    BY <1>2, <1>6
  <2> QED
    BY <1>1, <1>2, <1>12, <2>1, BackStays
<1> QED
  BY <1>10, <1>11, <1>12, <1>13 DEF TraceInv

LEMMA SameTrace ==
    ASSUME TraceInv, UNCHANGED <<routed, target, stack, way, spans, measured, cut, learnt>>
    PROVE  TraceInv'
<1>1. Nested' /\ Parented' /\ EndedWhenOver'
  BY DEF TraceInv, Nested, Parented, EndedWhenOver
<1>2. NamedInTime'
  BY DEF TraceInv, NamedInTime, Unguarded, InFramework, Known
<1> QED
  BY <1>1, <1>2 DEF TraceInv

\* The browser's report of a navigation is a span of its own, over when it is opened.
LEMMA AuditKeeps ==
    ASSUME TraceInv, NEW to, AuditRow(to)
    PROVE  TraceInv'
<1>1. UNCHANGED <<routed, target, stack, way, cut, learnt>>
  BY DEF AuditRow
<1>2. CASE to = "refused"
  <2>1. UNCHANGED <<spans, measured>>
    BY <1>2 DEF AuditRow
  <2> QED
    BY <1>1, <2>1, SameTrace
<1>3. CASE to # "refused"
  <2> DEFINE n == [Span("navigation", NoParent) EXCEPT !.ended = 1]
  <2>1. spans' = Append(spans, n) /\ measured' = Append(measured, 0)
    BY <1>3 DEF AuditRow
  <2>2. n \in ASpan /\ n.kind = "navigation" /\ n.ended = 1
    <3> DEFINE m == Span("navigation", NoParent)
    <3>1. m \in ASpan /\ m.kind = "navigation" /\ n = [m EXCEPT !.ended = 1]
      BY DEF Span, ASpan, Kinds, Stages, NoParent
    <3> HIDE DEF m, n
    <3> QED
      BY <3>1 DEF ASpan
  <2> HIDE DEF n
  <2>3. /\ Nested /\ Parented /\ EndedWhenOver /\ NamedInTime /\ spans \in Seq(ASpan) /\ Len(spans) \in Nat /\ Len(spans) > 0
        /\ measured \in Seq(Nat) /\ Len(measured) = Len(spans)
    BY DEF TraceInv, EndedWhenOver
  <2>4. /\ spans' \in Seq(ASpan) /\ Len(spans') = Len(spans) + 1 /\ Len(spans') \in Nat
        /\ \A i \in 1..Len(spans) : spans'[i] = spans[i]
        /\ spans'[Len(spans) + 1] = n
    BY <2>1, <2>2, <2>3
  <2>5. /\ measured' \in Seq(Nat) /\ Len(measured') = Len(spans) + 1
        /\ \A i \in 1..Len(spans) : measured'[i] = measured[i]
        /\ measured'[Len(spans) + 1] = 0
    BY <2>1, <2>3
  <2>6. \A k \in 1..Len(stack) :
           /\ stack[k].span \in 1..Len(spans) /\ stack[k].span \in 1..Len(spans')
           /\ spans'[stack[k].span] = spans[stack[k].span]
    BY <2>3, <2>4 DEF Nested
  <2>7. Nested'
    <3>1. \A k \in 1..Len(stack) :
          /\ stack[k].span \in 1..Len(spans')
          /\ spans'[stack[k].span].kind = stack[k].at
          /\ stack[k].at = "http" <=> k = 1
          /\ k = 1 => stack[k].span = 1 /\ stack[k].passed
          /\ stack[k].passed => stack[k].at \in {"http", "middleware"}
          /\ k # 1 => spans'[stack[k].span].parent = stack[k - 1].span
      BY <2>3, <2>6 DEF Nested
    <3> QED
      BY <1>1, <2>3, <3>1 DEF Nested
  <2>8. ASSUME NEW i \in 1..Len(spans') PROVE MeasuredOnce(spans'[i], measured'[i])
    <3>1. CASE i \in 1..Len(spans)
      BY <2>3, <2>4, <2>5, <3>1 DEF EndedWhenOver
    <3>2. CASE i = Len(spans) + 1
      BY <2>2, <2>4, <2>5, <3>2 DEF MeasuredOnce, Timed
    <3> QED
      BY <2>3, <2>4, <3>1, <3>2
  <2>9. \A k \in 1..Len(stack') : StillOpen(stack'[k]) <=> spans'[stack'[k].span].ended = 0
    <3>1. \A k \in 1..Len(stack) : StillOpen(stack[k]) <=> spans'[stack[k].span].ended = 0
      BY <2>3, <2>6 DEF EndedWhenOver
    <3> QED
      BY <1>1, <3>1
  <2>10. ASSUME way # "panicked", NEW i \in 1..Len(spans'), spans'[i].ended = 0
         PROVE  \E k \in 1..Len(stack) : stack[k].span = i
    <3>1. i # Len(spans) + 1
      BY <2>2, <2>4, <2>10
    <3>2. i \in 1..Len(spans)
      BY <2>3, <2>4, <3>1
    <3> QED
      BY <2>3, <2>4, <2>10, <3>2 DEF EndedWhenOver
  <2>11. EndedWhenOver'
    <3>1. \A i \in 1..Len(spans') :
             spans'[i].ended = 0 => way' = "panicked" \/ \E k \in 1..Len(stack') : stack'[k].span = i
      BY <1>1, <2>10
    <3>2. way' \in {"in", "back", "over", "panicked"} /\ (way' \in {"over", "panicked"} <=> stack' = <<>>)
      BY <1>1, <2>3 DEF EndedWhenOver
    <3>3. Len(spans') > 0 /\ Len(measured') = Len(spans')
      BY <2>3, <2>4, <2>5
    <3> QED
      BY <2>4, <2>5, <2>8, <2>9, <3>1, <3>2, <3>3 DEF EndedWhenOver
  <2>12. \A i \in 1..Len(spans') : i \in 1..Len(spans) \/ i = Len(spans) + 1
    BY <2>3, <2>4
  <2>13. Parented'
    <3> SUFFICES ASSUME NEW i \in 1..Len(spans')
                 PROVE  /\ spans'[i].kind = "http" <=> i = 1
                        /\ spans'[i].kind \notin {"http", "navigation"} =>
                              /\ spans'[i].parent \in 1..i - 1
                              /\ spans'[spans'[i].parent].kind \in Within(spans'[i].kind)
      BY DEF Parented
    <3>1. CASE i \in 1..Len(spans)
      <4>1. /\ spans[i].kind = "http" <=> i = 1
            /\ spans[i].kind \notin {"http", "navigation"} =>
                  /\ spans[i].parent \in 1..i - 1
                  /\ spans[spans[i].parent].kind \in Within(spans[i].kind)
        BY <2>3, <3>1 DEF Parented
      <4>2. \A j \in 1..i - 1 : spans'[j] = spans[j]
        BY <2>3, <2>4, <3>1
      <4> QED
        BY <2>4, <3>1, <4>1, <4>2
    <3>2. CASE i = Len(spans) + 1
      BY <2>2, <2>3, <2>4, <3>2
    <3> QED
      BY <2>12, <3>1, <3>2
  <2>14. \A i \in 1..Len(spans') : spans'[i].kind = "middleware" =>
            i \in 1..Len(spans) /\ spans[i].kind = "middleware"
    BY <2>2, <2>4, <2>12
  <2>15. Unguarded' <=> Unguarded
    <3>1. \A i \in 1..Len(spans) : i \in 1..Len(spans') /\ spans'[i].kind = spans[i].kind
      BY <2>3, <2>4
    <3> QED
      BY <2>14, <3>1 DEF Unguarded
  <2>16. spans'[1] = spans[1]
    BY <2>3, <2>4
  <2>17. NamedInTime'
    <3>1. (InFramework' <=> InFramework) /\ (Known' <=> Known)
      BY <1>1 DEF InFramework, Known
    <3>2. way = "in" => \A i \in 1..Len(spans') :
             spans'[i].kind = "middleware" => \E k \in 1..Len(stack') : stack'[k].span = i
      BY <1>1, <2>3, <2>14 DEF NamedInTime
    <3> QED
      BY <1>1, <2>3, <2>15, <2>16, <3>1, <3>2 DEF NamedInTime
  <2> QED
    BY <2>7, <2>11, <2>13, <2>17 DEF TraceInv
<1> QED
  BY <1>2, <1>3

LEMMA TracingIsKept == TraceInv /\ [TracingNext]_traceVars => TraceInv'
<1> SUFFICES ASSUME TraceInv, [TracingNext]_traceVars PROVE TraceInv'
  OBVIOUS
<1>1. CASE GuardEnters \/ GuardPasses \/ GuardAnswers \/ GuardReturns
  BY <1>1, GuardEntersKeeps, GuardPassesKeeps, GuardAnswersKeeps, GuardReturnsKeeps
<1>2. CASE RenderStarts \/ PageHits \/ PlainAnswers \/ Limits \/ CallStarts
  BY <1>2, RenderStartsKeeps, PageHitsKeeps, PlainAnswersKeeps, LimitsKeeps, CallStartsKeeps
<1>3. CASE \E stage \in {"none", "authorize", "permit"} : Guarded(stage)
  <2>1. {"none", "authorize", "permit"} \subseteq Stages
    BY DEF Stages
  <2> QED
    BY <1>3, <2>1, GuardedKeeps
<1>4. CASE \E stage \in Stages : CallEnds(stage)
  BY <1>4, CallEndsKeeps
<1>5. CASE OpStarts \/ StorageStarts \/ (\E err \in BOOLEAN : DbEnds(err))
  BY <1>5, ReadsKeep, DbEndsKeeps
<1>6. CASE Panics \/ RequestEnds
  BY <1>6, PanicsKeeps, RequestEndsKeeps
<1>7. CASE \E to \in {"refused", "recorded"} : AuditRow(to)
  BY <1>7, AuditKeeps
<1>8. CASE UNCHANGED traceVars
  BY <1>8, SameTrace DEF traceVars
<1> QED
  BY <1>1, <1>2, <1>3, <1>4, <1>5, <1>6, <1>7, <1>8 DEF TracingNext

\* TracesAreWhole: no span is ended or measured twice, whichever of next and the guard is first to
\* end it, and when a request is over without a panic each is ended and each that is timed measured;
\* a span is opened within its parent and does not outlast it, unless that is a guard's which has
\* passed; and when a request is over, its metric has a route exactly if the framework learnt it in
\* time, and its span exactly if no guard is named besides (otel/tracer.go, core/observe, mw.go Named,
\* app.go render, api.go).
THEOREM TracesAlwaysWhole == TracingSpec => []TracesAreWhole
<1>1. TraceInv => TracesAreWhole
  <2> SUFFICES ASSUME TraceInv PROVE TracesAreWhole
    OBVIOUS
  <2>1. SpansEndOnce
    <3> SUFFICES ASSUME NEW i \in 1..Len(spans)
                 PROVE  /\ spans[i].ended <= 1 /\ measured[i] <= spans[i].ended
                        /\ way = "over" => spans[i].ended = 1
                        /\ spans[i].kind \in Timed => measured[i] = spans[i].ended
      BY DEF SpansEndOnce
    <3>1. MeasuredOnce(spans[i], measured[i]) /\ spans[i] \in ASpan
      BY DEF TraceInv, EndedWhenOver
    <3>2. spans[i].ended \in Nat
      BY <3>1 DEF ASpan
    <3>3. ASSUME way = "over" PROVE spans[i].ended # 0
      <4>1. Len(stack) = 0
        BY <3>3 DEF TraceInv, EndedWhenOver
      <4> QED
        BY <3>3, <4>1 DEF TraceInv, EndedWhenOver
    <3> QED
      BY <3>1, <3>2, <3>3 DEF MeasuredOnce
  <2>2. RequestsAreNamed
    BY DEF TraceInv, NamedInTime, Unguarded, RequestsAreNamed
  <2>3. SpansNest
    <3> SUFFICES ASSUME NEW i \in 2..Len(spans), spans[i].kind # "navigation"
                 PROVE  /\ spans[i].parent \in 1..i - 1
                        /\ spans[spans[i].parent].kind \in Within(spans[i].kind)
                        /\ spans[i].ended = 0 /\ way # "panicked" =>
                              \/ spans[spans[i].parent].ended = 0
                              \/ spans[spans[i].parent].kind = "middleware"
      BY DEF SpansNest
    <3>1. Nested /\ Parented /\ EndedWhenOver /\ Len(spans) \in Nat /\ Len(stack) \in Nat
      BY DEF TraceInv, EndedWhenOver, Nested
    <3>2. i \in 1..Len(spans) /\ i # 1
      BY <3>1
    <3>3. /\ spans[i].parent \in 1..i - 1
          /\ spans[spans[i].parent].kind \in Within(spans[i].kind)
      BY <3>1, <3>2 DEF Parented
    <3>4. ASSUME spans[i].ended = 0, way # "panicked",
                 spans[spans[i].parent].kind # "middleware"
          PROVE  spans[spans[i].parent].ended = 0
      <4>1. PICK k \in 1..Len(stack) : stack[k].span = i
        BY <3>1, <3>2, <3>4 DEF EndedWhenOver
      <4>2. k # 1
        BY <3>1, <3>2, <4>1 DEF Nested
      <4>3. k - 1 \in 1..Len(stack)
        BY <3>1, <4>1, <4>2
      <4>4. spans[i].parent = stack[k - 1].span
        BY <3>1, <4>1, <4>2 DEF Nested
      <4>5. StillOpen(stack[k - 1])
        <5>1. spans[stack[k - 1].span].kind = stack[k - 1].at
          BY <3>1, <4>3 DEF Nested
        <5> QED
          BY <3>4, <4>4, <5>1 DEF StillOpen
      <4> QED
        BY <3>1, <4>3, <4>4, <4>5 DEF EndedWhenOver
    <3> QED
      BY <3>3, <3>4
  <2> QED
    BY <2>1, <2>2, <2>3 DEF TracesAreWhole
<1> QED
  BY <1>1, TracingBegins, TracingIsKept, PTL DEF TracingSpec

-----------------------------------------------------------------------------
(* Which page a URL shows.                                                  *)

LEMMA SegmentsAre ==
    /\ \A s \in Segment : s = IF s.dyn THEN Dynamic(s.name) ELSE Static(s.name)
    /\ \A s, t \in Segment : s.name = t.name /\ s.dyn = t.dyn => s = t
    /\ \A s \in Segment : s.dyn \in BOOLEAN /\ Rank[s.name] \in Nat
PROOF
<1>1. \A s \in Segment : s = [name |-> s.name, dyn |-> s.dyn] /\ s.dyn \in BOOLEAN /\ s.name \in DOMAIN Rank
  BY DEF Segment
<1>2. \A s \in Segment : s = IF s.dyn THEN Dynamic(s.name) ELSE Static(s.name)
  BY <1>1 DEF Dynamic, Static
<1>3. \A s, t \in Segment : s.name = t.name /\ s.dyn = t.dyn => s = t
  BY <1>1
<1> QED
  BY <1>1, <1>2, <1>3, RoutesAssumption

LEMMA PatternsAre ==
    ASSUME NEW f \in Pages
    PROVE  /\ Pattern(f) \in Seq(Segment) /\ Len(Pattern(f)) \in Nat
           /\ DOMAIN Pattern(f) = 1..Len(Pattern(f))
           /\ \A i \in DOMAIN Pattern(f) : Pattern(f)[i] \in Segment
PROOF
<1>1. Pattern(f) \in Seq(Segment)
  <2>1. f.dir \in Seq(Segment) /\ f.stem \in Segment /\ <<>> \in Seq(Segment) /\ <<f.stem>> \in Seq(Segment)
    BY RoutesAssumption
  <2> QED
    BY <2>1, ConcatProperties DEF Pattern
<1> QED
  BY <1>1, LenProperties, ElementOfSeq

\* Two pages that are no more specific than one another are one.
LEMMA OneIsNarrower ==
    ASSUME NEW fs, Registers(fs), fs \subseteq Pages, NEW f \in fs, NEW g \in fs,
           Covers(Pattern(f), Pattern(g)), Covers(Pattern(g), Pattern(f))
    PROVE  f = g
PROOF
<1>1. Overlap(Pattern(f), Pattern(g))
  BY DEF Overlap, Covers
<1> QED
  BY <1>1 DEF Registers

\* Of patterns that all overlap one is the most specific: one with the fewest parameters.
LEMMA NarrowestExists ==
    ASSUME NEW all, Registers(all), all \subseteq Pages, NEW fs \in SUBSET all, fs # {},
           \A f, g \in fs : Overlap(Pattern(f), Pattern(g))
    PROVE  \E f \in fs : \A g \in fs : Covers(Pattern(g), Pattern(f))
PROOF
<1> DEFINE Params(f) == {i \in DOMAIN Pattern(f) : Pattern(f)[i].dyn}
           N(f) == Cardinality(Params(f))
<1>1. \A f \in fs : IsFiniteSet(Params(f)) /\ N(f) \in Nat
  <2>1. ASSUME NEW f \in fs PROVE IsFiniteSet(Params(f)) /\ N(f) \in Nat
    <3>1. IsFiniteSet(1..Len(Pattern(f))) /\ Params(f) \subseteq 1..Len(Pattern(f))
      <4>1. f \in Pages /\ 1 \in Int /\ Len(Pattern(f)) \in Int /\ DOMAIN Pattern(f) = 1..Len(Pattern(f))
        BY PatternsAre
      <4> QED
        BY <4>1, FS_Interval
    <3> QED
      BY <3>1, FS_Subset, FS_CardinalityType
  <2> QED
    BY <2>1
<1>2. PICK f \in fs : \A g \in fs : ~(N(g) < N(f))
  <2> DEFINE T == {N(f) : f \in fs}
  <2>1. T \subseteq Nat /\ T # {}
    BY <1>1
  <2> HIDE DEF T
  <2>2. PICK n \in T : \A m \in T : <<m, n>> \notin OpToRel(<, Nat)
    BY <2>1, NatLessThanWellFounded, WFMin
  <2>3. \A m \in T : ~(m < n)
    BY <2>1, <2>2 DEF OpToRel
  <2> QED
    BY <2>3 DEF T
<1>3. ASSUME NEW g \in fs, ~Covers(Pattern(g), Pattern(f)) PROVE FALSE
  <2>1. f # g /\ Overlap(Pattern(f), Pattern(g)) /\ f \in all /\ g \in all /\ f \in Pages /\ g \in Pages
    BY <1>3 DEF Covers, Overlap
  <2>2. Covers(Pattern(f), Pattern(g))
    BY <1>3, <2>1 DEF Registers
  <2>3. DOMAIN Pattern(f) = DOMAIN Pattern(g) /\ Len(Pattern(f)) = Len(Pattern(g))
    BY <2>1, <2>2, PatternsAre DEF Covers
  <2>4. Params(g) \subseteq Params(f)
    BY <2>2, <2>3 DEF Covers
  <2>5. PICK i \in DOMAIN Pattern(g) : ~Pattern(g)[i].dyn /\ Pattern(g)[i] # Pattern(f)[i]
    BY <1>3, <2>3 DEF Covers
  <2>6. i \in Params(f) /\ i \notin Params(g)
    BY <2>2, <2>3, <2>5 DEF Covers
  <2>7. N(g) <= N(f) /\ N(g) # N(f)
    BY <1>1, <2>4, <2>6, FS_Subset
  <2>8. N(g) \in Nat /\ N(f) \in Nat /\ ~(N(g) < N(f))
    BY <1>1, <1>2
  <2> HIDE DEF N
  <2> QED
    BY <2>7, <2>8
<1> QED
  BY <1>3

\* Where the names of the parameters agree, the more specific of two patterns comes first.
LEMMA NarrowerIsBefore ==
    ASSUME tree \subseteq Pages, Registers(tree), NamesAgree, NEW f \in tree, NEW g \in tree, f # g,
           Covers(Pattern(g), Pattern(f))
    PROVE  Before(Pattern(f), Pattern(g)) /\ ~Before(Pattern(g), Pattern(f))
PROOF
<1> DEFINE p == Pattern(f)
           q == Pattern(g)
<1>1. /\ DOMAIN p = DOMAIN q /\ DOMAIN p = 1..Len(p) /\ Len(p) \in Nat /\ Len(p) = Len(q)
      /\ \A i \in DOMAIN p : p[i] \in Segment /\ q[i] \in Segment
  BY PatternsAre DEF Covers
<1>2. Overlap(p, q) /\ \A i \in DOMAIN p : q[i].dyn \/ q[i] = p[i]
  BY <1>1 DEF Covers, Overlap
<1>3. \A i \in DOMAIN p : p[i].dyn /\ q[i].dyn => p[i] = q[i]
  BY <1>2 DEF NamesAgree
<1>4. \E i \in DOMAIN p : p[i] # q[i]
  <2>1. SUFFICES ASSUME \A i \in DOMAIN p : p[i] = q[i] PROVE FALSE
    OBVIOUS
  <2>2. Covers(p, q)
    BY <1>1, <2>1 DEF Covers
  <2> QED
    BY <2>2, OneIsNarrower
<1>5. ASSUME NEW i \in DOMAIN p
      PROVE  (p[i] # q[i] => SegmentLess(p[i], q[i])) /\ ~SegmentLess(q[i], p[i])
  <2>1. CASE p[i] # q[i]
    <3>1. q[i].dyn /\ ~p[i].dyn
      BY <1>2, <1>3, <2>1
    <3> QED
      BY <2>1, <3>1 DEF SegmentLess
  <2>2. CASE p[i] = q[i]
    <3>1. Rank[p[i].name] \in Nat
      BY <1>1, SegmentsAre
    <3> QED
      BY <2>2, <3>1 DEF SegmentLess
  <2> QED
    BY <2>1, <2>2
<1>6. PICK i \in DOMAIN p : p[i] # q[i] /\ \A j \in 1..(i - 1) : p[j] = q[j]
  <2> DEFINE T == {i \in DOMAIN p : p[i] # q[i]}
  <2>1. T \subseteq Nat /\ T # {}
    BY <1>1, <1>4
  <2>2. PICK n \in T : \A m \in T : <<m, n>> \notin OpToRel(<, Nat)
    <3> HIDE DEF T
    <3> QED
      BY <2>1, NatLessThanWellFounded, WFMin
  <2>3. \A m \in T : ~(m < n)
    <3> HIDE DEF T
    <3> QED
      BY <2>1, <2>2 DEF OpToRel
  <2>4. \A j \in 1..(n - 1) : j \in DOMAIN p /\ j < n
    BY <1>1
  <2> QED
    BY <2>3, <2>4
<1>7. Before(p, q)
  <2> HIDE DEF p, q
  <2> QED
    BY <1>1, <1>5, <1>6 DEF Before
<1>8. ~Before(q, p)
  <2> HIDE DEF p, q
  <2> QED
    BY <1>1, <1>5 DEF Before
<1> QED
  BY <1>7, <1>8

\* So the first of such a family is its most specific.
LEMMA FirstIsNarrowest ==
    ASSUME tree \subseteq Pages, Registers(tree), NamesAgree, NEW fs \in SUBSET tree, NEW f \in fs,
           \A g \in fs : Covers(Pattern(g), Pattern(f))
    PROVE  First(fs) = f
PROOF
<1>1. \A g \in fs \ {f} : Before(Pattern(f), Pattern(g)) /\ ~Before(Pattern(g), Pattern(f))
  BY NarrowerIsBefore
<1> QED
  BY <1>1 DEF First

\* A name is matched by one static segment.
LEMMA MatchingOverlaps ==
    ASSUME NEW f \in Pages, NEW g \in Pages, NEW text, Len(Pattern(f)) = Len(Pattern(g)),
           \A i \in DOMAIN Pattern(f) : Pattern(f)[i].dyn \/ Pattern(f)[i].name = text[i],
           \A i \in DOMAIN Pattern(g) : Pattern(g)[i].dyn \/ Pattern(g)[i].name = text[i]
    PROVE  Overlap(Pattern(f), Pattern(g)) /\ (IsStatic(Pattern(f)) => Covers(Pattern(g), Pattern(f)))
PROOF
<1>1. DOMAIN Pattern(f) = DOMAIN Pattern(g)
  BY PatternsAre
<1>2. \A i \in DOMAIN Pattern(f) : Pattern(f)[i] \in Segment /\ Pattern(g)[i] \in Segment
  BY <1>1, PatternsAre
<1>3. \A i \in DOMAIN Pattern(f) : Pattern(f)[i].dyn \/ Pattern(g)[i].dyn \/ Pattern(f)[i] = Pattern(g)[i]
  BY <1>1, <1>2, SegmentsAre
<1> QED
  BY <1>1, <1>3 DEF Overlap, Covers, IsStatic

\* What the server shows is the most specific page that matches.
LEMMA ServedIsNarrowest ==
    ASSUME tree \subseteq Pages, Registers(tree), NEW u \in Urls, NEW m \in tree, ServerMatches(m, u)
    PROVE  /\ Served(u) \in tree /\ ServerMatches(Served(u), u)
           /\ \A g \in tree : ServerMatches(g, u) => Covers(Pattern(g), Pattern(Served(u)))
PROOF
<1> DEFINE fs == {f \in tree : ServerMatches(f, u)}
<1>1. \A f, g \in fs : Overlap(Pattern(f), Pattern(g))
  BY MatchingOverlaps DEF ServerMatches
<1>2. \E f \in fs : \A g \in fs : Covers(Pattern(g), Pattern(f))
  <2> HIDE DEF fs
  <2>1. fs \in SUBSET tree /\ fs # {}
    BY DEF fs
  <2> QED
    BY <1>1, <2>1, NarrowestExists
<1>3. Served(u) = CHOOSE f \in fs : \A g \in fs : Covers(Pattern(g), Pattern(f))
  BY DEF Served
<1>4. Served(u) \in fs /\ \A g \in fs : Covers(Pattern(g), Pattern(Served(u)))
  <2> HIDE DEF fs
  <2> QED
    BY <1>2, <1>3
<1> QED
  BY <1>4

LEMMA ServedIsTheOne ==
    ASSUME tree \subseteq Pages, Registers(tree), NEW u \in Urls, NEW f \in tree, ServerMatches(f, u),
           IsStatic(Pattern(f))
    PROVE  Served(u) = f
PROOF
<1>1. Served(u) \in tree /\ ServerMatches(Served(u), u) /\ Covers(Pattern(f), Pattern(Served(u)))
  BY ServedIsNarrowest
<1>2. Covers(Pattern(Served(u)), Pattern(f))
  BY <1>1, MatchingOverlaps DEF ServerMatches
<1> QED
  BY <1>1, <1>2, OneIsNarrower

\* Of a URL without an escape and a query, the browser has the path that the server has.
AsWritten(path) == \A i \in DOMAIN path : path[i] = Text(path[i].text)

LEMMA PlainUrls ==
    ASSUME NEW u \in Urls
    PROVE  /\ (\A i \in DOMAIN u.path : ~u.path[i].escaped) => AsWritten(u.path)
           /\ ~u.query => BrowserPath(u) = u.path
PROOF
<1>1. \A i \in DOMAIN u.path : u.path[i] \in [text : STRING, escaped : BOOLEAN, tail : {FALSE}]
  <2> DEFINE T == [text : STRING, escaped : BOOLEAN, tail : {FALSE}]
  <2>1. u.path \in Seq(T)
    BY RoutesAssumption
  <2> HIDE DEF T
  <2>2. \A i \in DOMAIN u.path : u.path[i] \in T
    BY <2>1
  <2> QED
    BY <2>2 DEF T
<1> QED
  BY <1>1 DEF AsWritten, Text, BrowserPath

LEMMA MatchesAre ==
    ASSUME NEW f \in Pages, NEW u \in Urls
    PROVE  /\ Matches(Pattern(f), u.path) => ServerMatches(f, u)
           /\ AsWritten(u.path) /\ ServerMatches(f, u) => Matches(Pattern(f), u.path)
PROOF
<1>1. DOMAIN Pattern(f) = 1..Len(Pattern(f)) /\ DOMAIN u.path = 1..Len(u.path)
  BY PatternsAre, RoutesAssumption, LenProperties
<1>2. \A i \in DOMAIN u.path : ServerPath(u)[i] = u.path[i].text
  BY DEF ServerPath
<1>3. \A t : Text(t).text = t
  BY DEF Text
<1>4. ASSUME Matches(Pattern(f), u.path) PROVE ServerMatches(f, u)
  BY <1>1, <1>2, <1>3, <1>4 DEF Matches, ServerMatches
<1>5. ASSUME AsWritten(u.path), ServerMatches(f, u) PROVE Matches(Pattern(f), u.path)
  BY <1>1, <1>2, <1>5 DEF Matches, ServerMatches, AsWritten
<1> QED
  BY <1>4, <1>5

\* Lookup finds what the server shows; a parameterless page also where other names disagree.
LEMMA LookupFindsStatic ==
    ASSUME tree \subseteq Pages, Registers(tree), NEW u \in Urls, NEW f \in tree,
           IsStatic(Pattern(f)), Matches(Pattern(f), u.path)
    PROVE  Lookup(u.path) = f
PROOF
<1> DEFINE fs == {g \in tree : Matches(Pattern(g), u.path)}
           st == {g \in fs : IsStatic(Pattern(g))}
<1>1. f \in st
  BY DEF st
<1>2. ASSUME NEW g \in st PROVE g = f
  <2>1. ServerMatches(g, u) /\ ServerMatches(f, u) /\ g \in tree /\ IsStatic(Pattern(g))
    BY MatchesAre
  <2> QED
    BY <2>1, ServedIsTheOne
<1>3. st = {f} /\ fs # {}
  BY <1>1, <1>2
<1>4. First({f}) = f
  BY DEF First
<1>5. Lookup(u.path) = CASE fs = {} -> NoPage [] st # {} -> First(st) [] OTHER -> First(fs)
  BY DEF Lookup
<1> QED
  <2> HIDE DEF fs, st
  <2> QED
    BY <1>3, <1>4, <1>5

LEMMA LookupFindsServed ==
    ASSUME tree \subseteq Pages, Registers(tree), NamesAgree, NEW u \in Urls, AsWritten(u.path)
    PROVE  Lookup(u.path) = Served(u)
PROOF
<1> DEFINE fs == {g \in tree : Matches(Pattern(g), u.path)}
           st == {g \in fs : IsStatic(Pattern(g))}
<1>1. \A g \in tree : Matches(Pattern(g), u.path) <=> ServerMatches(g, u)
  BY MatchesAre
<1>2. Lookup(u.path) = CASE fs = {} -> NoPage [] st # {} -> First(st) [] OTHER -> First(fs)
  BY DEF Lookup
<1>3. CASE fs = {}
  <2>1. Served(u) = NoPage
    BY <1>1, <1>3 DEF Served
  <2> QED
    BY <1>2, <1>3, <2>1
<1>4. CASE st # {}
  <2>1. PICK f \in st : TRUE
    BY <1>4
  <2>2. Lookup(u.path) = f
    BY <2>1, LookupFindsStatic
  <2>3. ServerMatches(f, u)
    BY <1>1, <2>1
  <2> QED
    BY <2>1, <2>2, <2>3, ServedIsTheOne
<1>5. CASE fs # {} /\ st = {}
  <2>1. PICK m \in fs : TRUE
    BY <1>5
  <2>2. Served(u) \in fs /\ \A g \in fs : Covers(Pattern(g), Pattern(Served(u)))
    BY <1>1, <2>1, ServedIsNarrowest
  <2>3. First(fs) = Served(u)
    <3>1. fs \in SUBSET tree
      OBVIOUS
    <3> HIDE DEF fs
    <3> QED
      BY <2>2, <3>1, FirstIsNarrowest
  <2> HIDE DEF fs, st
  <2> QED
    BY <1>2, <1>5, <2>3
<1> QED
  BY <1>3, <1>4, <1>5

\* A path that no pattern of names alone could match but a plain one.
LEMMA OnlyPlainIsStatic ==
    ASSUME NEW f \in Pages, NEW u \in Urls, IsStatic(Pattern(f)), Matches(Pattern(f), BrowserPath(u))
    PROVE  ~u.query
PROOF
<1> SUFFICES ASSUME u.query PROVE FALSE
  BY RoutesAssumption
<1> DEFINE tail == [text |-> "", escaped |-> FALSE, tail |-> TRUE]
           path == BrowserPath(u)
           T == [text : STRING, escaped : BOOLEAN, tail : {FALSE}]
<1>1. u.path \in Seq(T) /\ Len(u.path) \in Nat
  BY RoutesAssumption, LenProperties
<1>2. \A i \in DOMAIN path : path[i].tail = FALSE
  <2>1. DOMAIN path = DOMAIN Pattern(f) /\ \A i \in DOMAIN Pattern(f) : path[i] = Text(Pattern(f)[i].name)
    <3>1. Len(path) = Len(Pattern(f)) /\ \A i \in DOMAIN Pattern(f) : path[i] = Text(Pattern(f)[i].name)
      BY DEF Matches, IsStatic
    <3>2. \E S : path \in Seq(S)
      <4>1. CASE u.path = <<>> \/ u.slashed
        <5>1. path = u.path \o <<tail>>
          BY <4>1 DEF BrowserPath
        <5>2. u.path \in Seq(T \cup {tail}) /\ <<tail>> \in Seq(T \cup {tail})
          <6> HIDE DEF T, tail
          <6>1. \A i \in 1..Len(u.path) : u.path[i] \in T \cup {tail}
            BY <1>1, ElementOfSeq
          <6> QED
            BY <1>1, <6>1
        <5> HIDE DEF T, tail, path
        <5> QED
          BY <5>1, <5>2, ConcatProperties
      <4>2. CASE ~(u.path = <<>> \/ u.slashed)
        <5>1. path = [u.path EXCEPT ![Len(u.path)].tail = TRUE]
          BY <4>2 DEF BrowserPath
        <5> DEFINE S == {path[i] : i \in 1..Len(u.path)}
        <5>2. path \in [1..Len(u.path) -> S]
          <6> HIDE DEF T, path
          <6>1. DOMAIN u.path = 1..Len(u.path)
            BY <1>1, LenProperties
          <6>2. DOMAIN path = DOMAIN u.path /\ path = [i \in DOMAIN path |-> path[i]]
            BY <5>1
          <6> QED
            BY <6>1, <6>2
        <5> HIDE DEF S, path
        <5> QED
          BY <1>1, <5>2, SeqDef
      <4> QED
        BY <4>1, <4>2
    <3> HIDE DEF path
    <3> QED
      BY <3>1, <3>2, PatternsAre, LenProperties
  <2> QED
    BY <2>1 DEF Text
<1>3. CASE u.path = <<>> \/ u.slashed
  <2>1. path = u.path \o <<tail>>
    BY <1>3 DEF BrowserPath
  <2>2. Len(u.path) + 1 \in DOMAIN path /\ path[Len(u.path) + 1] = tail
    <3> HIDE DEF tail, T, path
    <3> QED
      BY <1>1, <2>1
  <2>3. tail.tail = TRUE
    OBVIOUS
  <2> HIDE DEF tail, path
  <2> QED
    BY <1>2, <2>2, <2>3
<1>4. CASE ~(u.path = <<>> \/ u.slashed)
  <2>1. path = [u.path EXCEPT ![Len(u.path)].tail = TRUE]
    BY <1>4 DEF BrowserPath
  <2>2. Len(u.path) \in DOMAIN u.path
    <3> HIDE DEF T
    <3> QED
      BY <1>1, <1>4, EmptySeq, LenProperties
  <2>3. u.path[Len(u.path)] \in T
    <3> HIDE DEF T
    <3> QED
      BY <1>1, <2>2
  <2>4. path[Len(u.path)] = [u.path[Len(u.path)] EXCEPT !.tail = TRUE] /\ Len(u.path) \in DOMAIN path
    BY <2>1, <2>2
  <2>5. path[Len(u.path)].tail = TRUE
    BY <2>3, <2>4
  <2> QED
    BY <1>2, <2>4, <2>5
<1> QED
  BY <1>3, <1>4

LEMMA BrowsersAgree ==
    ASSUME tree \subseteq Pages, Registers(tree), url \in Urls
    PROVE  BrowserAgrees
PROOF
<1> SUFFICES ASSUME NamesAgree, Unescaped, ~url.query
             PROVE  /\ Lookup(BrowserPath(url)) = Served(url)
                    /\ Served(url) # NoPage =>
                          /\ LookupParams(BrowserPath(url)) = ServedParams(url)
                          /\ Served(url).data # NoData => DataURLFor(BrowserPath(url)) = Served(url).data
                          /\ Served(url).client => Way(url) = "local" \/ IsRawRoute(PathName(url))
  BY DEF BrowserAgrees
<1>1. BrowserPath(url) = url.path /\ AsWritten(url.path)
  BY PlainUrls DEF Unescaped
<1>2. Lookup(url.path) = Served(url)
  BY <1>1, LookupFindsServed
<1>3. ASSUME Served(url) # NoPage
      PROVE  /\ Served(url) \in tree /\ ServerMatches(Served(url), url)
             /\ \A g \in tree : ServerMatches(g, url) => Covers(Pattern(g), Pattern(Served(url)))
  <2>1. \E m \in tree : ServerMatches(m, url)
    BY <1>3 DEF Served
  <2> QED
    BY <2>1, ServedIsNarrowest
<1>4. ASSUME Served(url) # NoPage PROVE LookupParams(url.path) = ServedParams(url)
  <2> DEFINE p == Pattern(Served(url))
             names == {p[i].name : i \in {j \in DOMAIN p : p[j].dyn}}
             at(n) == CHOOSE i \in DOMAIN p : p[i] = Dynamic(n)
  <2>1. DOMAIN p = DOMAIN url.path /\ \A i \in DOMAIN p : p[i] \in Segment
    BY <1>3, <1>4, PatternsAre, RoutesAssumption, LenProperties DEF ServerMatches
  <2>2. ASSUME NEW n \in names PROVE url.path[at(n)] = Text(ServerPath(url)[at(n)])
    <3>1. \E i \in DOMAIN p : p[i] = Dynamic(n)
      BY <2>1, SegmentsAre
    <3>2. at(n) \in DOMAIN url.path
      BY <2>1, <3>1
    <3> HIDE DEF at
    <3> QED
      BY <1>1, <3>2 DEF AsWritten, ServerPath
  <2>3. LookupParams(url.path) = [n \in names |-> url.path[at(n)]]
    BY <1>2 DEF LookupParams
  <2>4. ServedParams(url) = [n \in names |-> Text(ServerPath(url)[at(n)])]
    BY DEF ServedParams
  <2> HIDE DEF names, at
  <2> QED
    BY <2>2, <2>3, <2>4
<1>5. ASSUME Served(url) # NoPage, Served(url).data # NoData
      PROVE  DataURLFor(url.path) = Served(url).data
  <2> DEFINE fs == {f \in tree : f.data # NoData /\ Matches(Pattern(f), url.path)}
  <2>1. Served(url) \in fs
    BY <1>1, <1>3, <1>5, MatchesAre
  <2>2. \A g \in fs : Covers(Pattern(g), Pattern(Served(url)))
    BY <1>3, <1>5, MatchesAre
  <2>3. DataURLFor(url.path) = IF fs = {} THEN NoData ELSE First(fs).data
    BY DEF DataURLFor
  <2>4. fs \in SUBSET tree
    OBVIOUS
  <2> HIDE DEF fs
  <2>5. First(fs) = Served(url)
    BY <2>1, <2>2, <2>4, FirstIsNarrowest
  <2> QED
    BY <2>1, <2>3, <2>5
<1>6. ASSUME Served(url) # NoPage, Served(url).client
      PROVE  Way(url) = "local" \/ IsRawRoute(PathName(url))
  <2>1. WasmCandidate(url.path)
    BY <1>1, <1>3, <1>6, MatchesAre DEF WasmCandidate
  <2> QED
    BY <1>1, <1>2, <1>6, <2>1 DEF Way
<1> QED
  BY <1>1, <1>2, <1>4, <1>5, <1>6

LEMMA StaticAgree ==
    ASSUME tree \subseteq Pages, Registers(tree), url \in Urls
    PROVE  StaticPagesAgree
PROOF
<1> SUFFICES ASSUME \A f \in tree : f.client => IsStatic(Pattern(f)), Way(url) = "local"
             PROVE  Lookup(BrowserPath(url)) = Served(url)
  BY DEF StaticPagesAgree
<1>1. PICK g \in tree : g.client /\ Matches(Pattern(g), BrowserPath(url))
  BY DEF Way, WasmCandidate
<1>2. BrowserPath(url) = url.path
  BY <1>1, OnlyPlainIsStatic, PlainUrls
<1>3. Lookup(url.path) = g /\ Served(url) = g
  BY <1>1, <1>2, LookupFindsStatic, ServedIsTheOne, MatchesAre
<1> QED
  BY <1>2, <1>3

LEMMA RawAgree ==
    ASSUME tree \subseteq Pages, Registers(tree), url \in Urls
    PROVE  RawPagesStayWhole
PROOF
<1> SUFFICES ASSUME Unescaped, Served(url) # NoPage, Served(url).raw PROVE Way(url) = "document"
  BY DEF RawPagesStayWhole
<1>1. \E m \in tree : ServerMatches(m, url)
  BY DEF Served
<1>2. Served(url) \in tree /\ ServerMatches(Served(url), url)
  BY <1>1, ServedIsNarrowest
<1>3. IsRawRoute(PathName(url))
  BY <1>2, PlainUrls, MatchesAre DEF Unescaped, PathName, IsRawRoute
<1> QED
  BY <1>3 DEF Way

RoutesInv == tree \subseteq Pages /\ Registers(tree) /\ url \in Urls

\* For any tree of pages that net/http accepts, of any size and names, and any URL: the wasm build
\* renders the page that the server would, with its parameters and data, under the conditions that
\* RoutesAgree states, and a page that is a whole document stays one (fsroutes.go emit, app.go Mux,
\* router.go Lookup, app.js patternMatches and dataURLFor).
THEOREM ReadersOfRoutesAgree == RoutesInv => RoutesAgree
PROOF
BY BrowsersAgree, StaticAgree, RawAgree DEF RoutesInv, RoutesAgree

LEMMA RoutesKeep == (RoutesInit => RoutesInv) /\ (RoutesInv /\ [RoutesNext]_routeVars => RoutesInv')
PROOF
<1>1. ASSUME RoutesInit PROVE RoutesInv
  <2>1. Registers(tree) /\ \E f, g, h \in Pages : tree \in {{f}, {f, g}, {f, g, h}}
    BY <1>1 DEF RoutesInit
  <2>2. url \in Urls
    BY <1>1, RoutesAssumption DEF RoutesInit
  <2> QED
    BY <2>1, <2>2 DEF RoutesInv
<1>2. ASSUME RoutesInv, [RoutesNext]_routeVars PROVE RoutesInv'
  <2>1. tree' = tree /\ url' \in Urls
    BY <1>2 DEF RoutesInv, RoutesNext, Visit, routeVars
  <2> QED
    BY <1>2, <2>1 DEF RoutesInv, Registers, Overlap, Covers
<1> QED
  BY <1>1, <1>2

\* So it is whatever URLs are visited.
THEOREM VisitsAgree == RoutesSpec => []RoutesAgree
PROOF
<1>1. RoutesSpec => []RoutesInv
  BY RoutesKeep, PTL DEF RoutesSpec
<1> QED
  BY <1>1, ReadersOfRoutesAgree, PTL

-----------------------------------------------------------------------------
(* The response cache: the invariant follows a response from the recorder   *)
(* of the run that made it, by the entry it is stored in, to the client.    *)

\* A response that anyone with its key may have.
Whole(q) ==
    /\ q.ended = "returned"
    /\ q.seen = 200 /\ q.meant = 200
    /\ ~q.gave
    /\ q.body = q.written

\* A recorder knows what its own client gets: nothing yet, or the status the handler answers
\* with, unless an informational one came first; and all of the body, unless it gave up.
Faithful(q) ==
    /\ ~q.wrote => q.seen = NoCode /\ q.meant = NoCode
    /\ q.wrote /\ q.status = 200 => q.seen = 200 /\ q.meant = 200
    /\ ~q.skip => q.body = q.written

\* What is so of one request at each place of its way.
OnItsWay(q) ==
    /\ q.body <= MaxBody
    /\ q.at \in {"new", "lookup", "run"} => Faithful(q)
    /\ q.at \in {"lookup", "run", "store"} => q.key \in Entries
    /\ q.at = "store" => Whole(q)
    /\ q.at # "done" => q.hit = NoRun

\* A run whose response was stored under k at some time.
Replayable(k, run) ==
    /\ run \in Requests
    /\ request[run].at = "done"
    /\ request[run].key = k
    /\ Whole(request[run])

\* Every entry is of such a run, and is served for the TTL from when it was stored.
EntriesAreWhole ==
    \A k \in Entries : stored[k] # NoEntry =>
        /\ Replayable(k, stored[k].by)
        /\ stored[k].expires = request[stored[k].by].kept + ServedFor

\* And so is every response that was replayed.
HitsAreWhole ==
    \A r \in Requests : request[r].hit # NoRun =>
        /\ Replayable(request[r].key, request[r].hit)
        /\ request[r].hitAt <= request[request[r].hit].kept + ServedFor

ResponseInv ==
    /\ ResponseTypeOK
    /\ \A r \in Requests : OnItsWay(request[r])
    /\ EntriesAreWhole
    /\ HitsAreWhole

-----------------------------------------------------------------------------
LEMMA NewRequests == NewRequest \in Request /\ OnItsWay(NewRequest)
<1>1. NewRequest \in Request
  BY ResponseAssumption DEF NewRequest, Request, Codes, NoCode
<1>2. OnItsWay(NewRequest)
  BY ResponseAssumption DEF NewRequest, NoCode, OnItsWay, Faithful
<1> QED
  BY <1>1, <1>2

LEMMA InitResponses == ResponseInit => ResponseInv
<1> SUFFICES ASSUME ResponseInit
             PROVE  ResponseInv
  OBVIOUS
<1>1. NewRequest \in Request /\ OnItsWay(NewRequest)
  BY NewRequests
<1>2. \A r \in Requests : request[r] = NewRequest
  BY DEF ResponseInit
<1>3. ResponseTypeOK
  <2>1. NoEntry \in [by : Requests \cup {NoRun}, expires : Nat]
    BY DEF NoEntry
  <2>2. NewRequest.body <= MaxBody
    BY <1>1 DEF OnItsWay
  <2> QED
    BY <1>1, <1>2, <2>1, <2>2, ResponseAssumption DEF ResponseInit, ResponseTypeOK
<1>4. EntriesAreWhole
  BY DEF ResponseInit, EntriesAreWhole
<1>5. HitsAreWhole
  BY <1>2 DEF HitsAreWhole, NewRequest
<1> QED
  BY <1>1, <1>2, <1>3, <1>4, <1>5 DEF ResponseInv

-----------------------------------------------------------------------------
(* What the recorder and net/http make of a run.                            *)

\* What net/http does with a status changes what the client got, and nothing else.
LEMMA SentKeeps ==
    ASSUME NEW q \in Request, NEW code \in Codes
    PROVE  LET p == Sent(q, code)
           IN  /\ p \in Request
               /\ p.at = q.at /\ p.key = q.key /\ p.hit = q.hit
               /\ p.body = q.body /\ p.written = q.written /\ p.skip = q.skip
               /\ p.ended = q.ended /\ p.gave = q.gave /\ p.meant = q.meant
               /\ p.wrote = q.wrote /\ p.status = q.status
               /\ q.seen # NoCode => p.seen = q.seen
               /\ q.seen = NoCode => p.seen = IF code >= 200 THEN code ELSE NoCode
  BY DEF Sent, Request, Codes, NoCode

\* A status the handler writes, or has written for it, changes what was answered and nothing
\* of what was copied.
LEMMA HeadedKeeps ==
    ASSUME NEW q \in Request, NEW code \in Codes, q.at \in {"run", "own"}
    PROVE  LET p == Headed(q, code)
           IN  /\ p \in Request
               /\ p.at = q.at /\ p.key = q.key /\ p.hit = q.hit
               /\ p.body = q.body /\ p.written = q.written /\ p.skip = q.skip
               /\ q.at = "run" => p.wrote /\ (Faithful(q) => Faithful(p))
<1> DEFINE p == IF q.meant = NoCode /\ code >= 200 THEN [q EXCEPT !.meant = code] ELSE q
           o == [p EXCEPT !.wrote = TRUE, !.status = code, !.gave = p.cookie]
<1>1. /\ p \in Request
      /\ p.at = q.at /\ p.key = q.key /\ p.hit = q.hit
      /\ p.body = q.body /\ p.written = q.written /\ p.skip = q.skip
      /\ p.wrote = q.wrote /\ p.status = q.status /\ p.seen = q.seen
      /\ q.meant # NoCode => p.meant = q.meant
      /\ q.meant = NoCode => p.meant = IF code >= 200 THEN code ELSE NoCode
  BY DEF Request, Codes, NoCode
<1>2. Headed(q, code) = IF q.at = "run" THEN Recorded(p, code) ELSE Sent(p, code)
  BY DEF Headed
<1> HIDE DEF p
<1>3. CASE q.at = "own"
  BY <1>1, <1>2, <1>3, SentKeeps
<1>4. CASE q.at = "run" /\ q.wrote
  <2>1. Headed(q, code) = p
    BY <1>1, <1>2, <1>4 DEF Recorded
  <2>2. Faithful(q) => Faithful(p)
    BY <1>1, <1>4 DEF Faithful, NoCode
  <2> QED
    BY <1>1, <1>4, <2>1, <2>2
<1>5. CASE q.at = "run" /\ ~q.wrote
  <2>1. Headed(q, code) = Sent(o, code)
    BY <1>1, <1>2, <1>5 DEF Recorded
  <2>2. /\ o \in Request
        /\ o.at = q.at /\ o.key = q.key /\ o.hit = q.hit
        /\ o.body = q.body /\ o.written = q.written /\ o.skip = q.skip
        /\ o.wrote /\ o.status = code /\ o.seen = q.seen /\ o.meant = p.meant
    <3> DEFINE n == [p EXCEPT !.wrote = TRUE, !.status = code]
    <3>1. n \in Request
      BY <1>1 DEF Request
    <3>2. /\ n.at = p.at /\ n.key = p.key /\ n.hit = p.hit
          /\ n.body = p.body /\ n.written = p.written /\ n.skip = p.skip
          /\ n.wrote /\ n.status = code /\ n.seen = p.seen /\ n.meant = p.meant
      BY <1>1 DEF Request
    <3>3. o = [n EXCEPT !.gave = p.cookie] /\ p.cookie \in BOOLEAN
      BY <1>1 DEF Request
    <3> HIDE DEF n, o
    <3>4. o \in Request
      BY <3>1, <3>3 DEF Request
    <3>5. /\ o.at = n.at /\ o.key = n.key /\ o.hit = n.hit
          /\ o.body = n.body /\ o.written = n.written /\ o.skip = n.skip
          /\ o.wrote = n.wrote /\ o.status = n.status /\ o.seen = n.seen /\ o.meant = n.meant
      BY <3>1, <3>3 DEF Request
    <3> QED
      BY <1>1, <3>2, <3>4, <3>5
  <2> HIDE DEF o
  <2>3. Faithful(q) => Faithful(Sent(o, code))
    BY <1>1, <1>5, <2>2, SentKeeps DEF Faithful, Codes, NoCode
  <2> QED
    BY <1>5, <2>1, <2>2, <2>3, SentKeeps
<1> QED
  BY <1>3, <1>4, <1>5

\* A request that has not got its answer moves on: no entry and no hit is of it.
LEMMA Becoming ==
    ASSUME ResponseInv, NEW r \in Requests, NEW q \in Request,
           Becomes(r, q), UNCHANGED <<time, stored>>,
           request[r].at # "done", OnItsWay(q), q.hit = NoRun
    PROVE  ResponseInv'
<1>1. request' = [request EXCEPT ![r] = q] /\ request \in [Requests -> Request]
  BY DEF Becomes, ResponseInv, ResponseTypeOK
<1>2. /\ \A s \in Requests : s # r => request'[s] = request[s]
      /\ request'[r] = q
  BY <1>1
<1>3. ResponseTypeOK'
  BY <1>1, <1>2 DEF ResponseInv, ResponseTypeOK, OnItsWay
<1>4. \A s \in Requests : OnItsWay(request'[s])
  BY <1>2 DEF ResponseInv
<1>5. \A k, run : Replayable(k, run) => Replayable(k, run)' /\ request'[run] = request[run]
  BY <1>2 DEF Replayable
<1>6. EntriesAreWhole'
  BY <1>5 DEF ResponseInv, EntriesAreWhole
<1>7. HitsAreWhole'
  BY <1>2, <1>5 DEF ResponseInv, HitsAreWhole
<1> QED
  BY <1>3, <1>4, <1>6, <1>7 DEF ResponseInv, OnItsWay, Whole, Faithful

-----------------------------------------------------------------------------
(* Each step keeps the invariant.                                           *)

LEMMA TimePassesKeeps ==
    ASSUME ResponseInv, TimePasses
    PROVE  ResponseInv'
<1>1. ResponseTypeOK'
  BY ResponseAssumption DEF ResponseInv, ResponseTypeOK, TimePasses
<1> QED
  BY <1>1 DEF ResponseInv, TimePasses, OnItsWay, Faithful, Whole, EntriesAreWhole,
              HitsAreWhole, Replayable

LEMMA StoreLosesKeeps ==
    ASSUME ResponseInv, NEW k \in Entries, StoreLoses(k)
    PROVE  ResponseInv'
<1>1. ResponseTypeOK'
  BY DEF ResponseInv, ResponseTypeOK, StoreLoses, NoEntry
<1>2. \A e \in Entries : stored'[e] = stored[e] \/ stored'[e] = NoEntry
  BY DEF ResponseInv, ResponseTypeOK, StoreLoses
<1>3. EntriesAreWhole'
  BY <1>2 DEF ResponseInv, EntriesAreWhole, StoreLoses, Replayable, Whole
<1> QED
  BY <1>1, <1>3 DEF ResponseInv, StoreLoses, OnItsWay, Faithful, Whole, HitsAreWhole, Replayable

LEMMA ComesKeeps ==
    ASSUME ResponseInv, NEW r \in Requests, NEW k \in Entries \cup {Declined}, Comes(r, k)
    PROVE  ResponseInv'
<1> DEFINE q == [NewRequest EXCEPT !.key = k, !.at = IF k = Declined THEN "own" ELSE "lookup"]
<1>1. q \in Request /\ OnItsWay(q) /\ q.hit = NoRun
  <2>1. NewRequest \in Request /\ OnItsWay(NewRequest) /\ NewRequest.at = "new"
    BY NewRequests DEF NewRequest
  <2>2. /\ q \in Request /\ q.key = k /\ q.at = IF k = Declined THEN "own" ELSE "lookup"
        /\ q.hit = NewRequest.hit /\ q.body = NewRequest.body
        /\ q.written = NewRequest.written /\ q.skip = NewRequest.skip
        /\ q.wrote = NewRequest.wrote /\ q.status = NewRequest.status
        /\ q.seen = NewRequest.seen /\ q.meant = NewRequest.meant
    <3>1. PICK n : n = NewRequest
      OBVIOUS
    <3>2. PICK a : a = (IF k = Declined THEN "own" ELSE "lookup")
      OBVIOUS
    <3>3. q = [n EXCEPT !.key = k, !.at = a] /\ a \in {"own", "lookup"}
      BY <3>1, <3>2
    <3> HIDE DEF q
    <3>4. q \in Request
      BY <2>1, <3>1, <3>3, ZenonT(40) DEF Request
    <3>5. q.key = k /\ q.at = a
      BY <2>1, <3>1, <3>3 DEF Request
    <3>6. /\ q.hit = n.hit /\ q.body = n.body /\ q.written = n.written /\ q.skip = n.skip
          /\ q.wrote = n.wrote /\ q.status = n.status /\ q.seen = n.seen /\ q.meant = n.meant
      BY <3>3
    <3> QED  BY <3>1, <3>2, <3>4, <3>5, <3>6
  <2> HIDE DEF q
  <2>3. /\ Faithful(NewRequest) /\ NewRequest.body <= MaxBody /\ NewRequest.hit = NoRun
    BY <2>1 DEF OnItsWay
  <2>4. Faithful(q)
    BY <2>2, <2>3 DEF Faithful
  <2>5. q.at \in {"own", "lookup"} /\ (q.at = "lookup" => q.key \in Entries)
    <3>1. k = Declined \/ k \in Entries
      OBVIOUS
    <3> QED  BY <2>2, <3>1
  <2> QED
    BY <2>2, <2>3, <2>4, <2>5 DEF OnItsWay
<1>2. request[r].at # "done"
  BY DEF Comes
<1> QED
  BY <1>1, <1>2, Becoming DEF Comes

LEMMA MissKeeps ==
    ASSUME ResponseInv, NEW r \in Requests, Miss(r)
    PROVE  ResponseInv'
<1> DEFINE q == [request[r] EXCEPT !.at = "run"]
<1>1. request[r] \in Request /\ OnItsWay(request[r]) /\ request[r].at = "lookup"
  BY DEF ResponseInv, ResponseTypeOK, Miss
<1>2. q \in Request /\ OnItsWay(q) /\ q.hit = NoRun
  BY <1>1 DEF Request, OnItsWay, Faithful
<1> QED
  BY <1>1, <1>2, Becoming DEF Miss

LEMMA HitKeeps ==
    ASSUME ResponseInv, NEW r \in Requests, Hit(r)
    PROVE  ResponseInv'
<1> DEFINE k == request[r].key
           e == stored[k]
           q == [request[r] EXCEPT !.at = "done", !.seen = 200, !.hitAt = time, !.hit = e.by]
<1>1. request[r] \in Request /\ OnItsWay(request[r]) /\ request[r].at = "lookup"
  BY DEF ResponseInv, ResponseTypeOK, Hit
<1>2. k \in Entries
  BY <1>1 DEF OnItsWay
<1>3. e # NoEntry /\ time <= e.expires
  BY DEF Hit, Serves
<1>4. Replayable(k, e.by) /\ e.expires = request[e.by].kept + ServedFor
  BY <1>2, <1>3 DEF ResponseInv, EntriesAreWhole
<1>5. e.by # r
  BY <1>1, <1>4 DEF Replayable
<1>6. time \in Int /\ request \in [Requests -> Request]
  BY ResponseAssumption DEF ResponseInv, ResponseTypeOK
<1>7. /\ q \in Request /\ q.key = k /\ q.hit = e.by /\ q.hitAt = time
      /\ q.at = "done" /\ q.body = request[r].body
  <2>1. e.by \in Requests \cup {NoRun} /\ time \in Int /\ 200 \in Codes
    BY <1>4, <1>6 DEF Replayable, Codes
  <2> HIDE DEF e
  <2>2. q \in Request
    <3> DEFINE p == [request[r] EXCEPT !.at = "done", !.seen = 200]
    <3>1. p \in Request
      <4> DEFINE o == request[r]
      <4>1. o \in Request
        BY <1>6
      <4> HIDE DEF o
      <4>2. [o EXCEPT !.at = "done", !.seen = 200] \in Request
        <5> DEFINE m == [o EXCEPT !.at = "done"]
        <5>1. m \in Request
          BY <4>1 DEF Request
        <5>2. [o EXCEPT !.at = "done", !.seen = 200] = [m EXCEPT !.seen = 200]
          OBVIOUS
        <5> HIDE DEF m
        <5>3. [m EXCEPT !.seen = 200] \in Request
          BY <2>1, <5>1 DEF Request
        <5> QED
          BY <5>2, <5>3
      <4> QED
        BY <4>2 DEF o
    <3>2. q = [p EXCEPT !.hitAt = time, !.hit = e.by]
      BY <1>1 DEF Request
    <3> HIDE DEF p, q
    <3> QED
      BY <2>1, <3>1, <3>2 DEF Request
  <2>3. q.hit = e.by /\ q.hitAt = time /\ q.at = "done"
    BY <1>1 DEF Request
  <2>4. q.key = k /\ q.body = request[r].body
    BY <1>1 DEF Request
  <2> QED
    BY <2>2, <2>3, <2>4
<1>8. /\ request' = [request EXCEPT ![r] = q] /\ UNCHANGED <<time, stored>>
      /\ \A s \in Requests : s # r => request'[s] = request[s]
      /\ request'[r] = q
  BY <1>6 DEF Hit, Becomes
<1> HIDE DEF q
<1>9. ResponseTypeOK'
  BY <1>6, <1>7, <1>8 DEF ResponseInv, ResponseTypeOK
<1>10. \A s \in Requests : OnItsWay(request'[s])
  BY <1>1, <1>7, <1>8 DEF ResponseInv, OnItsWay
<1>11. \A j, run : Replayable(j, run) => Replayable(j, run)' /\ request'[run] = request[run]
  BY <1>1, <1>8 DEF Replayable
<1>12. EntriesAreWhole'
  BY <1>8, <1>11 DEF ResponseInv, EntriesAreWhole
<1>13. HitsAreWhole'
  BY <1>3, <1>4, <1>7, <1>8, <1>11 DEF ResponseInv, HitsAreWhole
<1> QED
  BY <1>9, <1>10, <1>12, <1>13 DEF ResponseInv, OnItsWay, Whole, Faithful

LEMMA SetsCookieKeeps ==
    ASSUME ResponseInv, NEW r \in Requests, SetsCookie(r)
    PROVE  ResponseInv'
<1> DEFINE q == [request[r] EXCEPT !.cookie = TRUE]
<1>1. request[r] \in Request /\ OnItsWay(request[r]) /\ request[r].at \in {"run", "own"}
  BY DEF ResponseInv, ResponseTypeOK, SetsCookie, Running
<1>2. q \in Request /\ OnItsWay(q) /\ q.hit = NoRun
  <2>1. /\ q \in Request
        /\ q.at = request[r].at /\ q.key = request[r].key /\ q.hit = request[r].hit
        /\ q.body = request[r].body /\ q.written = request[r].written
        /\ q.skip = request[r].skip /\ q.wrote = request[r].wrote
        /\ q.status = request[r].status /\ q.seen = request[r].seen
        /\ q.meant = request[r].meant
    BY <1>1 DEF Request
  <2> HIDE DEF q
  <2> QED
    BY <1>1, <2>1 DEF OnItsWay, Faithful
<1> QED
  BY <1>1, <1>2, Becoming DEF SetsCookie

LEMMA WritesHeaderKeeps ==
    ASSUME ResponseInv, NEW r \in Requests, NEW code \in Codes, WritesHeader(r, code)
    PROVE  ResponseInv'
<1> DEFINE q == Headed(request[r], code)
<1>1. request[r] \in Request /\ OnItsWay(request[r]) /\ request[r].at \in {"run", "own"}
  BY DEF ResponseInv, ResponseTypeOK, WritesHeader, Running
<1>2. q \in Request /\ OnItsWay(q) /\ q.hit = NoRun
  BY <1>1, HeadedKeeps DEF OnItsWay
<1> QED
  BY <1>1, <1>2, Becoming DEF WritesHeader

\* A chunk is copied whole, or the copy is given up.
LEMMA WritesKeeps ==
    ASSUME ResponseInv, NEW r \in Requests, Writes(r)
    PROVE  ResponseInv'
<1> DEFINE h == Headed(request[r], 200)
           q == [h EXCEPT !.written = @ + 1]
           c == IF q.at = "run" THEN Copied(q) ELSE q
           p == Sent(c, 200)
<1>1. /\ request[r] \in Request /\ OnItsWay(request[r]) /\ request[r].at \in {"run", "own"}
      /\ request[r].written < MaxChunks
  BY DEF ResponseInv, ResponseTypeOK, Writes, Running
<1>2. 200 \in Codes /\ MaxChunks \in Nat /\ MaxBody \in Nat
  BY ResponseAssumption DEF Codes
<1>3. /\ h \in Request /\ h.at = request[r].at /\ h.key = request[r].key /\ h.hit = NoRun
      /\ h.body = request[r].body /\ h.written = request[r].written
      /\ h.at = "run" => h.wrote /\ Faithful(h)
  BY <1>1, <1>2, HeadedKeeps DEF OnItsWay
<1> HIDE DEF h
<1>4. /\ q \in Request /\ q.at = h.at /\ q.key = h.key /\ q.hit = h.hit /\ q.wrote = h.wrote
      /\ q.seen = h.seen /\ q.meant = h.meant /\ q.status = h.status /\ q.skip = h.skip
      /\ q.body = h.body /\ q.written = h.written + 1 /\ h.written \in Nat
  BY <1>1, <1>2, <1>3 DEF Request
<1> HIDE DEF q
<1>5. /\ c \in Request /\ c.at = q.at /\ c.key = q.key /\ c.hit = q.hit /\ c.wrote = q.wrote
      /\ c.seen = q.seen /\ c.meant = q.meant /\ c.status = q.status
      /\ c.body <= MaxBody
      /\ q.at = "run" /\ ~c.skip => c.body = c.written
  <2>1. q.body <= MaxBody /\ q.body \in 0..MaxChunks
    BY <1>1, <1>3, <1>4 DEF OnItsWay, Request
  <2>2. q.at = "run" /\ ~q.skip => q.body + 1 = q.written
    BY <1>3, <1>4 DEF Faithful
  <2>3. CASE q.at # "run" \/ q.skip
    BY <1>4, <2>1, <2>3 DEF Copied
  <2>4. CASE q.at = "run" /\ ~q.skip /\ q.body + 1 > MaxBody
    <3>1. c = [q EXCEPT !.skip = TRUE, !.body = 0] /\ 0 \in 0..MaxChunks
      BY <1>2, <2>4 DEF Copied
    <3> HIDE DEF c
    <3>2. /\ c \in Request /\ c.at = q.at /\ c.key = q.key /\ c.hit = q.hit
          /\ c.wrote = q.wrote /\ c.seen = q.seen /\ c.meant = q.meant
          /\ c.status = q.status /\ c.body = 0 /\ c.skip
      BY <1>4, <3>1 DEF Request
    <3> QED
      BY <1>2, <3>2
  <2>5. CASE q.at = "run" /\ ~q.skip /\ ~(q.body + 1 > MaxBody)
    <3>1. q.body + 1 \in 0..MaxChunks
      BY <1>2, <1>4, <2>1, <2>2, <2>5 DEF Request
    <3>2. c = [q EXCEPT !.body = q.body + 1]
      BY <2>5 DEF Copied
    <3> HIDE DEF c
    <3>3. /\ c \in Request /\ c.at = q.at /\ c.key = q.key /\ c.hit = q.hit
          /\ c.wrote = q.wrote /\ c.seen = q.seen /\ c.meant = q.meant
          /\ c.status = q.status /\ c.body = q.body + 1 /\ c.written = q.written
      BY <1>4, <3>1, <3>2 DEF Request
    <3>4. q.body + 1 <= MaxBody
      BY <1>2, <2>1, <2>5
    <3> QED
      BY <2>2, <2>5, <3>3, <3>4
  <2> QED
    BY <2>3, <2>4, <2>5
<1> HIDE DEF c
<1>6. c.at = "run" => Faithful(c)
  BY <1>3, <1>4, <1>5 DEF Faithful
<1>7. /\ p \in Request /\ p.at = c.at /\ p.key = c.key /\ p.hit = c.hit /\ p.body = c.body
      /\ c.at = "run" => Faithful(p)
  BY <1>2, <1>3, <1>4, <1>5, <1>6, SentKeeps DEF Faithful, NoCode
<1> HIDE DEF p
<1>8. OnItsWay(p) /\ p.hit = NoRun
  BY <1>1, <1>3, <1>4, <1>5, <1>7 DEF OnItsWay
<1>9. Becomes(r, p) /\ UNCHANGED <<time, stored>>
  BY DEF Writes, p, c, q, h
<1> QED
  BY <1>1, <1>7, <1>8, <1>9, Becoming

LEMMA FlushesKeeps ==
    ASSUME ResponseInv, NEW r \in Requests, Flushes(r)
    PROVE  ResponseInv'
<1> DEFINE h == Headed(request[r], 200)
           c == IF h.at = "run" THEN [h EXCEPT !.skip = TRUE] ELSE h
           p == Sent(c, 200)
<1>1. request[r] \in Request /\ OnItsWay(request[r]) /\ request[r].at \in {"run", "own"}
  BY DEF ResponseInv, ResponseTypeOK, Flushes, Running
<1>2. 200 \in Codes
  BY DEF Codes
<1>3. /\ h \in Request /\ h.at = request[r].at /\ h.key = request[r].key /\ h.hit = NoRun
      /\ h.body = request[r].body
      /\ h.at = "run" => h.wrote /\ Faithful(h)
  BY <1>1, <1>2, HeadedKeeps DEF OnItsWay
<1> HIDE DEF h
<1>4. /\ c \in Request /\ c.at = h.at /\ c.key = h.key /\ c.hit = h.hit /\ c.body = h.body
      /\ c.at = "run" => c.wrote /\ Faithful(c)
  <2>1. CASE h.at = "run"
    <3>1. c = [h EXCEPT !.skip = TRUE]
      BY <2>1
    <3> HIDE DEF c
    <3>2. /\ c \in Request /\ c.at = h.at /\ c.key = h.key /\ c.hit = h.hit /\ c.body = h.body
          /\ c.wrote = h.wrote /\ c.seen = h.seen /\ c.meant = h.meant /\ c.status = h.status
          /\ c.skip
      BY <1>3, <3>1 DEF Request
    <3> QED
      BY <1>3, <2>1, <3>2 DEF Faithful
  <2>2. CASE h.at # "run"
    BY <1>3, <2>2
  <2> QED
    BY <2>1, <2>2
<1> HIDE DEF c
<1>5. /\ p \in Request /\ p.at = c.at /\ p.key = c.key /\ p.hit = c.hit /\ p.body = c.body
      /\ c.at = "run" => Faithful(p)
  BY <1>2, <1>4, SentKeeps DEF Faithful, NoCode
<1> HIDE DEF p
<1>6. OnItsWay(p) /\ p.hit = NoRun
  BY <1>1, <1>3, <1>4, <1>5 DEF OnItsWay
<1>7. Becomes(r, p) /\ UNCHANGED <<time, stored>>
  BY DEF Flushes, p, c, h
<1> QED
  BY <1>1, <1>5, <1>6, <1>7, Becoming

\* What the recorder keeps of a run that returns is whole.
LEMMA ReturnsKeeps ==
    ASSUME ResponseInv, NEW r \in Requests, Returns(r)
    PROVE  ResponseInv'
<1> DEFINE o == request[r]
           q == [o EXCEPT !.ended = "returned", !.meant = IF @ = NoCode THEN 200 ELSE @]
           to == IF q.at = "run" /\ Kept(q) THEN "store" ELSE "done"
           p == [Sent(q, 200) EXCEPT !.at = to]
<1>1. o \in Request /\ OnItsWay(o) /\ o.at \in {"run", "own"}
  BY DEF ResponseInv, ResponseTypeOK, Returns, Running
<1>2. 200 \in Codes
  BY DEF Codes
<1>3. /\ q \in Request /\ q.at = o.at /\ q.key = o.key /\ q.hit = o.hit /\ q.body = o.body
      /\ q.written = o.written /\ q.skip = o.skip /\ q.wrote = o.wrote /\ q.seen = o.seen
      /\ q.status = o.status /\ q.gave = o.gave
      /\ q.ended = "returned" /\ q.meant = IF o.meant = NoCode THEN 200 ELSE o.meant
  <2> DEFINE m == IF o.meant = NoCode THEN 200 ELSE o.meant
  <2>1. m \in Codes \cup {NoCode}
    BY <1>1, <1>2 DEF Request
  <2>2. q = [o EXCEPT !.ended = "returned", !.meant = m]
    BY <1>1 DEF Request
  <2> HIDE DEF m, q
  <2>3. /\ q \in Request /\ q.at = o.at /\ q.key = o.key /\ q.hit = o.hit /\ q.body = o.body
        /\ q.written = o.written /\ q.skip = o.skip /\ q.wrote = o.wrote /\ q.seen = o.seen
        /\ q.status = o.status /\ q.gave = o.gave /\ q.ended = "returned" /\ q.meant = m
    BY <1>1, <2>1, <2>2 DEF Request
  <2> QED
    BY <2>3 DEF m
<1>4. q.at = "run" /\ Kept(q) => Whole(q)
  BY <1>1, <1>3 DEF Kept, Whole, OnItsWay, Faithful, NoCode
<1> HIDE DEF q
<1>5. /\ p \in Request /\ p.at = to /\ p.key = q.key /\ p.hit = q.hit /\ p.body = q.body
      /\ Whole(q) => Whole(p)
  <2>1. Sent(q, 200) \in Request
    BY <1>2, <1>3, SentKeeps
  <2>2. /\ p \in Request /\ p.at = to
        /\ p.key = Sent(q, 200).key /\ p.hit = Sent(q, 200).hit /\ p.body = Sent(q, 200).body
        /\ Whole(p) = Whole(Sent(q, 200))
    BY <2>1 DEF Request, Whole
  <2>3. Whole(q) => Whole(Sent(q, 200))
    BY <1>2, <1>3, SentKeeps DEF Whole, NoCode
  <2> QED
    BY <1>2, <1>3, <2>2, <2>3, SentKeeps
<1> HIDE DEF p
<1>6. OnItsWay(p) /\ p.hit = NoRun
  BY <1>1, <1>3, <1>4, <1>5 DEF OnItsWay
<1>7. Becomes(r, p) /\ UNCHANGED <<time, stored>>
  BY DEF Returns, p, q
<1> QED
  BY <1>1, <1>5, <1>6, <1>7, Becoming

LEMMA RunPanicsKeeps ==
    ASSUME ResponseInv, NEW r \in Requests, RunPanics(r)
    PROVE  ResponseInv'
<1> DEFINE q == [request[r] EXCEPT !.ended = "panicked", !.at = "done"]
<1>1. request[r] \in Request /\ OnItsWay(request[r]) /\ request[r].at \in {"run", "own"}
  BY DEF ResponseInv, ResponseTypeOK, RunPanics, Running
<1>2. q \in Request /\ OnItsWay(q) /\ q.hit = NoRun
  BY <1>1 DEF Request, OnItsWay
<1> QED
  BY <1>1, <1>2, Becoming DEF RunPanics

LEMMA StoresKeeps ==
    ASSUME ResponseInv, NEW r \in Requests, Stores(r)
    PROVE  ResponseInv'
<1> DEFINE k == request[r].key
           e == [by |-> r, expires |-> time + ServedFor]
           q == [request[r] EXCEPT !.at = "done", !.kept = time]
<1>1. request[r] \in Request /\ OnItsWay(request[r]) /\ request[r].at = "store"
  BY DEF ResponseInv, ResponseTypeOK, Stores
<1>2. k \in Entries /\ Whole(request[r]) /\ request[r].hit = NoRun
  BY <1>1 DEF OnItsWay
<1>3. /\ time \in Nat /\ ServedFor \in Nat /\ request \in [Requests -> Request]
      /\ stored \in [Entries -> [by : Requests \cup {NoRun}, expires : Nat]]
  BY ResponseAssumption DEF ResponseInv, ResponseTypeOK
<1>4. /\ q \in Request /\ q.at = "done" /\ q.key = k /\ q.kept = time /\ q.hit = NoRun
      /\ q.body = request[r].body /\ Whole(q)
  <2>1. time \in Int
    BY <1>3
  <2>2. q \in Request
    BY <1>1, <2>1 DEF Request
  <2>3. /\ q.at = "done" /\ q.key = k /\ q.kept = time /\ q.hit = request[r].hit
        /\ q.body = request[r].body /\ q.written = request[r].written
        /\ q.ended = request[r].ended /\ q.seen = request[r].seen
        /\ q.meant = request[r].meant /\ q.gave = request[r].gave
    BY <1>1 DEF Request
  <2> QED
    BY <1>2, <2>2, <2>3 DEF Whole
<1>5. /\ request' = [request EXCEPT ![r] = q] /\ stored' = [stored EXCEPT ![k] = e]
      /\ time' = time
      /\ request'[r] = q /\ \A s \in Requests : s # r => request'[s] = request[s]
      /\ stored'[k] = e /\ \A j \in Entries : j # k => stored'[j] = stored[j]
  BY <1>2, <1>3 DEF Stores, Becomes
<1> HIDE DEF q
<1>6. ResponseTypeOK'
  <2>1. e \in [by : Requests \cup {NoRun}, expires : Nat]
    BY <1>3
  <2> HIDE DEF e
  <2>2. \A s \in Requests : request[s].body <= MaxBody
    BY DEF ResponseInv, ResponseTypeOK
  <2>3. \A s \in Requests : request'[s].body <= MaxBody
    BY <1>4, <1>5, <2>2
  <2>4. time \in 0..Horizon
    BY DEF ResponseInv, ResponseTypeOK
  <2>5. /\ stored' \in [Entries -> [by : Requests \cup {NoRun}, expires : Nat]]
        /\ request' \in [Requests -> Request]
    BY <1>3, <1>4, <1>5, <2>1
  <2> QED
    BY <1>5, <2>3, <2>4, <2>5 DEF ResponseTypeOK
<1>7. \A s \in Requests : OnItsWay(request'[s])
  BY <1>1, <1>4, <1>5 DEF ResponseInv, OnItsWay
<1>8. \A j, run : Replayable(j, run) => Replayable(j, run)' /\ request'[run] = request[run]
  BY <1>1, <1>5 DEF Replayable
<1>9. \A j : j = k => Replayable(j, r)'
  BY <1>4, <1>5 DEF Replayable, Whole
<1>10. EntriesAreWhole'
  <2> SUFFICES ASSUME NEW j \in Entries, NEW f, f = stored'[j], f # NoEntry
               PROVE  Replayable(j, f.by)' /\ f.expires = request'[f.by].kept + ServedFor
    BY DEF EntriesAreWhole, Replayable
  <2>1. CASE j = k
    <3>1. f.by = r /\ f.expires = time + ServedFor
      BY <1>5, <2>1
    <3> QED
      BY <1>4, <1>5, <1>9, <2>1, <3>1
  <2>2. CASE j # k
    <3>1. f = stored[j]
      BY <1>5, <2>2
    <3>2. Replayable(j, f.by) /\ f.expires = request[f.by].kept + ServedFor
      BY <3>1 DEF ResponseInv, EntriesAreWhole
    <3> QED
      BY <1>8, <3>2
  <2> QED
    BY <2>1, <2>2
<1>11. HitsAreWhole'
  BY <1>4, <1>5, <1>8 DEF ResponseInv, HitsAreWhole
<1> QED
  BY <1>6, <1>7, <1>10, <1>11 DEF ResponseInv, OnItsWay, Whole, Faithful

LEMMA NextResponses == ResponseInv /\ [ResponseNext]_responseVars => ResponseInv'
<1> SUFFICES ASSUME ResponseInv, [ResponseNext]_responseVars
             PROVE  ResponseInv'
  OBVIOUS
<1>1. CASE TimePasses
  BY <1>1, TimePassesKeeps
<1>2. CASE \E k \in Entries : StoreLoses(k)
  BY <1>2, StoreLosesKeeps
<1>3. CASE \E r \in Requests : \E k \in Entries \cup {Declined} : Comes(r, k)
  BY <1>3, ComesKeeps
<1>4. CASE \E r \in Requests : Hit(r) \/ Miss(r)
  BY <1>4, HitKeeps, MissKeeps
<1>5. CASE \E r \in Requests : SetsCookie(r) \/ (\E c \in Codes : WritesHeader(r, c))
  BY <1>5, SetsCookieKeeps, WritesHeaderKeeps
<1>6. CASE \E r \in Requests : Writes(r) \/ Flushes(r) \/ Returns(r) \/ RunPanics(r)
  BY <1>6, WritesKeeps, FlushesKeeps, ReturnsKeeps, RunPanicsKeeps
<1>7. CASE \E r \in Requests : Stores(r)
  BY <1>7, StoresKeeps
<1>8. CASE UNCHANGED responseVars
  BY <1>8 DEF responseVars, ResponseInv, ResponseTypeOK, OnItsWay, Whole, Faithful,
              EntriesAreWhole, HitsAreWhole, Replayable
<1> QED
  BY <1>1, <1>2, <1>3, <1>4, <1>5, <1>6, <1>7, <1>8 DEF ResponseNext

-----------------------------------------------------------------------------
\* Every recorder, entry and hit is in order in every state that is reached.
THEOREM ResponsesAreFollowed == ResponseSpec => []ResponseInv
  BY InitResponses, NextResponses, PTL DEF ResponseSpec

\* Every variable keeps its type, and no recorder holds more than MaxBody.
THEOREM ResponseTypeIsInvariant == ResponseSpec => []ResponseTypeOK
<1>1. ResponseInv => ResponseTypeOK
  BY DEF ResponseInv
<1> QED
  BY <1>1, ResponsesAreFollowed, PTL

\* Whatever the requests, the keys and the order of their steps, the entries that the store
\* loses and the informational, flushed or oversized answers in between: a replayed response is
\* the whole 200 of a run of its key that set no cookie, and none is replayed past the TTL.
THEOREM RepliesAreShareable == ResponseSpec => []HitsAreShareable
<1>1. ResponseInv => HitsAreShareable
  BY DEF ResponseInv, HitsAreWhole, Replayable, Whole, HitsAreShareable
<1> QED
  BY <1>1, ResponsesAreFollowed, PTL
=============================================================================
