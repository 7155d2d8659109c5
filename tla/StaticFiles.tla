------------------------------ MODULE StaticFiles ------------------------------
(***************************************************************************)
(* core/app/static.go: the files an application serves, kept in memory     *)
(* with their hash and their gzip.  Documents name them by URLs that hold  *)
(* the hash of their bytes, and a response to such a URL may be kept for   *)
(* ever.                                                                   *)
(*                                                                         *)
(* Several servers run side by side, as in a rolling deploy.  Each has its *)
(* own copy of one file: compiled in, and changed only by a restart with   *)
(* another release, or watched (Reload), and written to at any moment.     *)
(* Goroutines load it for requests, for documents that name it and for     *)
(* Warm, through one Static per server.                                    *)
(***************************************************************************)
EXTENDS Integers

CONSTANTS
    Servers,      \* the processes, old and new
    Loads,        \* the goroutines that load the file, one load at a time
    Contents,     \* what the file may hold
    NoFile,       \* there is no such file
    HashOf,       \* the hash of each content, as far as a URL shows it
    SizeOf,       \* how long each is
    Shrinks,      \* the contents that gzip makes smaller
    Plain,        \* the URL without a hash
    MaxEdits    \* bound: writes to the file, and restarts

ASSUME StaticAssumption ==
    /\ NoFile \notin Contents
    /\ \A c, d \in Contents : HashOf[c] = HashOf[d] => c = d
    /\ Plain \notin {HashOf[c] : c \in Contents}
    /\ Shrinks \subseteq Contents
    /\ MaxEdits \in Nat

Links == {HashOf[c] : c \in Contents}   \* the hashed URLs
Tags  == [hash : Links, gz : BOOLEAN]   \* an ETag: a -gz one is of the gzip

VARIABLES
    reload,    \* Static.Reload: the file is watched
    file,      \* per server: the file on its disk, and when it was last written
    held,      \* per server: the entry in its cache
    zips,      \* per server and content: compressions
    load,      \* per goroutine: the load it is in
    told,      \* history: the ETags of all responses, with the bytes they came with
    keeps,     \* history: what browsers keep for ever, under which URL
    edits      \* how often a file has changed

staticVars == <<reload, file, held, zips, load, told, keeps, edits>>

\* An entry.  mixed is history: the file was written between the read and the stat.
Cold  == [bytes |-> NoFile, mod |-> 0, mixed |-> FALSE]
Entry == [bytes : Contents, mod : 0..MaxEdits, mixed : BOOLEAN] \cup {Cold}

Idle == [at |-> "idle"]
Load == [at    : {"stat", "open", "stamp", "pack", "packing", "keep"},
         on    : Servers,
         entry : Entry]              \* what is cached, then what is being made

\* Every variable has its type, and the gzip of some bytes is made once in a process that does
\* not watch its files: a second load waits for the first.
StaticTypeOK ==
    /\ reload \in BOOLEAN
    /\ file \in [Servers -> [bytes : Contents \cup {NoFile}, mod : 0..MaxEdits]]
    /\ held \in [Servers -> Entry]
    /\ zips \in [Servers -> [Contents -> {"none", "running", "done"}]]
    /\ load \in [Loads -> Load \cup {Idle}]
    /\ told \subseteq (Tags \X Contents \X BOOLEAN)
    /\ keeps \subseteq (Links \X Contents)
    /\ edits \in 0..MaxEdits
    /\ ~reload => \A l, m \in Loads :
          /\ load[l].at = "packing" =>
                zips[load[l].on][load[l].entry.bytes] = "running"
          /\ load[l].at = "packing" /\ load[m].at = "packing" /\ l # m =>
                load[l].on # load[m].on \/ load[l].entry.bytes # load[m].entry.bytes

StaticInit ==
    /\ reload \in BOOLEAN
    /\ \E c \in Contents : file = [s \in Servers |-> [bytes |-> c, mod |-> 0]]
    /\ held = [s \in Servers |-> Cold]
    /\ zips = [s \in Servers |-> [c \in Contents |-> "none"]]
    /\ load = [l \in Loads |-> Idle]
    /\ told = {} /\ keeps = {}
    /\ edits = 0

-----------------------------------------------------------------------------
(* What happens to the files.                                               *)

\* A watched file is written in place, removed, or put there again.  A load that has it open,
\* has read it and has not yet asked for its time is going to give the old bytes the new time,
\* unless what is written is another file than the open one.
Write(s, c) ==
    /\ reload /\ edits < MaxEdits
    /\ edits' = edits + 1
    /\ file' = [file EXCEPT ![s] = [bytes |-> c, mod |-> edits']]
    /\ load' = [l \in Loads |->
          IF /\ load[l].at = "stamp" /\ load[l].on = s
             /\ load[l].entry.mod = file[s].mod /\ c # NoFile
          THEN [load[l] EXCEPT !.entry.mod = edits', !.entry.mixed = TRUE] ELSE load[l]]
    /\ UNCHANGED <<reload, held, zips, told, keeps>>

\* The process is replaced by one of another release.  Its caches and its loads go with it;
\* what browsers have stays.  (A development server that restarts is one more that starts.)
Deploy(s, c) ==
    /\ ~reload /\ edits < MaxEdits
    /\ edits' = edits + 1
    /\ file' = [file EXCEPT ![s] = [bytes |-> c, mod |-> edits']]
    /\ held' = [held EXCEPT ![s] = Cold]
    /\ zips' = [zips EXCEPT ![s] = [d \in Contents |-> "none"]]
    /\ load' = [l \in Loads |-> IF load[l].at # "idle" /\ load[l].on = s THEN Idle ELSE load[l]]
    /\ UNCHANGED <<reload, told, keeps>>

-----------------------------------------------------------------------------
(* What a load is for: a request, a document that names the file, or Warm.  *)
(* What was asked for matters only once there is an entry.                  *)

\* Mutant of ForEver: whatever was asked for by a hash.
ForEverByHash(url, e) == url # Plain

\* Told to keep it for a year: only when the hash asked for is the hash of these bytes.
ForEver(url, e) == url = HashOf[e.bytes]

\* Mutant of TagOf: the same validator whatever the encoding.
TagOfBytes(e, zipped) == [hash |-> HashOf[e.bytes], gz |-> FALSE]

TagOf(e, zipped) == [hash |-> HashOf[e.bytes], gz |-> zipped]

\* Handler: a request for the plain URL or a hashed one, whichever document that is from.
Serve(e, url, gzip) ==
    LET zipped == gzip /\ e.bytes \in Shrinks IN
    /\ told' = told \cup {<<TagOf(e, zipped), e.bytes, zipped>>}
    /\ keeps' = keeps \cup {<<u, e.bytes>> : u \in {v \in {url} : ForEver(v, e)}}

\* A load answers; a document, and Warm, change nothing.
Use(e) ==
    \/ \E url \in Links \cup {Plain}, gzip \in BOOLEAN : Serve(e, url, gzip)
    \/ UNCHANGED <<told, keeps>>

-----------------------------------------------------------------------------
(* load.                                                                    *)

Turns(l, at, entry) == load' = [load EXCEPT ![l].at = at, ![l].entry = entry]
Ends(l)             == load' = [load EXCEPT ![l] = Idle]

\* The cache, under the read lock.
Look(l, s) ==
    /\ load[l] = Idle
    /\ \/ /\ held[s] # Cold /\ ~reload
          /\ Use(held[s])
          /\ UNCHANGED load
       \/ /\ held[s] = Cold \/ reload
          /\ load' = [load EXCEPT ![l] = [at |-> "stat", on |-> s, entry |-> held[s]]]
          /\ UNCHANGED <<told, keeps>>
    /\ UNCHANGED <<reload, file, held, zips, edits>>

\* Mutant of SameStamp: a file of the same length is the same file.
SameLength(e, f) == SizeOf[e.bytes] = SizeOf[f.bytes]

\* The time and the size.
SameStamp(e, f) == e.mod = f.mod /\ SizeOf[e.bytes] = SizeOf[f.bytes]

\* The file is what the cached entry was made of, or it has to be read.
Stat(l) ==
    LET f   == file[load[l].on]
        e   == load[l].entry
        hit == e # Cold /\ f.bytes # NoFile /\ SameStamp(e, f)
    IN
    /\ load[l].at = "stat"
    /\ \/ hit /\ Use(e) /\ Ends(l)
       \/ ~hit /\ Turns(l, "open", Cold) /\ UNCHANGED <<told, keeps>>
    /\ UNCHANGED <<reload, file, held, zips, edits>>

\* Open, and all the bytes; or no such file: a 404, the bare name, or the next handler.
Open(l) ==
    LET f == file[load[l].on] IN
    /\ load[l].at = "open"
    /\ IF f.bytes = NoFile THEN Ends(l)
       ELSE Turns(l, "stamp", [Cold EXCEPT !.bytes = f.bytes, !.mod = f.mod])
    /\ UNCHANGED <<reload, file, held, zips, told, keeps, edits>>

\* The time of the open file, asked for after its bytes were read (Write has moved it).
Stamp(l) ==
    /\ load[l].at = "stamp"
    /\ Turns(l, "pack", load[l].entry)
    /\ UNCHANGED <<reload, file, held, zips, told, keeps, edits>>

\* compress under Reload; compressOnce otherwise, where the first to come compresses and the
\* others wait for it.
Pack(l) ==
    LET s == load[l].on
        c == load[l].entry.bytes
    IN
    /\ load[l].at = "pack"
    /\ \/ /\ reload \/ zips[s][c] = "done"
          /\ Turns(l, "keep", load[l].entry)
          /\ UNCHANGED zips
       \/ /\ ~reload /\ zips[s][c] = "none"
          /\ zips' = [zips EXCEPT ![s][c] = "running"]
          /\ Turns(l, "packing", load[l].entry)
    /\ UNCHANGED <<reload, file, held, told, keeps, edits>>

Zipped(l) ==
    /\ load[l].at = "packing"
    /\ zips' = [zips EXCEPT ![load[l].on][load[l].entry.bytes] = "done"]
    /\ Turns(l, "keep", load[l].entry)
    /\ UNCHANGED <<reload, file, held, told, keeps, edits>>

\* Into the cache, under the lock.
Keep(l) ==
    /\ load[l].at = "keep"
    /\ held' = [held EXCEPT ![load[l].on] = load[l].entry]
    /\ Use(load[l].entry)
    /\ Ends(l)
    /\ UNCHANGED <<reload, file, zips, edits>>

StaticNext ==
    \/ \E s \in Servers, c \in Contents \cup {NoFile} : Write(s, c)
    \/ \E s \in Servers, c \in Contents : Deploy(s, c)
    \/ \E l \in Loads :
          \/ \E s \in Servers : Look(l, s)
          \/ Stat(l) \/ Open(l) \/ Stamp(l) \/ Pack(l) \/ Zipped(l) \/ Keep(l)

StaticSpec == StaticInit /\ [][StaticNext]_staticVars

-----------------------------------------------------------------------------
(* Properties.                                                              *)

\* What a browser keeps for ever under a hashed URL is the bytes of that hash, whichever server
\* of a rolling deploy answered it and whatever became of the file (static.go:136: a stale URL
\* "must not be told to keep them for a year").
KeptUnderItsHash == \A k \in keeps : k[1] = HashOf[k[2]]

\* An ETag never names two bodies: not two contents, and not a content and its gzip, or a
\* cache could revalidate one and serve the other (static.go:147).
OneBodyPerTag == \A a, b \in told : a[1] = b[1] => a = b

\* A watched file whose time and size are those of the entry is the one that was read, unless
\* it was written between the read and the stat of its load: the entry may be older than the
\* file, but then the next load sees it, even when two loads overwrite each other's entry.
StampNamesBytes ==
    reload => \A s \in Servers :
        LET e == held[s] IN
        e # Cold /\ ~e.mixed /\ file[s].bytes # NoFile /\ SameStamp(e, file[s]) =>
            e.bytes = file[s].bytes

\* The three promises of a static file.
FilesAreWhatTheySay == KeptUnderItsHash /\ OneBodyPerTag /\ StampNamesBytes
=============================================================================
