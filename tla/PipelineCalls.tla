----------------------------- MODULE PipelineCalls -----------------------------
(***************************************************************************)
(* The invariant of Pipeline, and that the calls on the writers keep it:   *)
(* mw.Writer (mw.go), the compressor (compress.go) and net/http. What the  *)
(* answerer and the layers do, and the theorems, are in PipelineProofs.    *)
(*                                                                         *)
(* The writers are places, net/http's is 0. The invariant follows the      *)
(* pieces of the body down from place to place: each has got those up to   *)
(* a number and was sent those up to another, and what is between is in a  *)
(* call under way; the status goes the same way, and stops only where a    *)
(* compressor has not decided or a call is under way.                      *)
(***************************************************************************)
EXTENDS Pipeline, FiniteSetTheorems, WellFoundedInduction, TLAPS

-----------------------------------------------------------------------------
(* Types.                                                                   *)

Piece  == [of : Nat, gz : Nat]
Call   == [do : {"header"}, code : Nat] \cup [do : {"bytes"}, pieces : Seq(Piece)]
          \cup [do : {"flush", "close"}]
AWriter     == [kind : {"writer"}, wrote : BOOLEAN, status : Nat, bytes : Nat]
ACompressor == [kind : {"compressor"}, decided : BOOLEAN, on : BOOLEAN, status : Nat,
                buf : Seq(Piece), held : Seq(Piece)]

PipeTypes ==
    /\ chain \in Chains /\ request \in Requests
    /\ phase \in {"entering", "handling", "leaving", "done"}
    /\ layer \in Nat /\ tops \in Seq(Nat)
    /\ writers \in Seq(AWriter \cup ACompressor)
    /\ calls \in Seq([at : Nat, call : Call])
    /\ DOMAIN headers = {"type", "length", "encoding", "vary", "id"}
    /\ headers.length \in Nat /\ headers.encoding \in {"none", "gzip"} /\ headers.vary \in BOOLEAN
    /\ DOMAIN wire = {"status", "headers", "body", "seen", "end"}
    /\ wire.status \in Nat /\ wire.body \in Seq(Piece) /\ wire.seen \in 0..Len(wire.body)
    /\ said \in [status : Nat, body : Seq(Piece), pushed : BOOLEAN, flushed : Nat]
    /\ panic \in {"none", "bug", "abort"}
    /\ DOMAIN log = {"status", "bytes", "id"} /\ log.status \in Nat

Compresses(k) == writers[k].kind = "compressor"

\* Where the layers stand, and what writers they put up.
Places ==
    /\ chain \in Seq(Layers)
    /\ phase = "entering" => layer \in 1..(Len(chain) + 1) /\ Len(tops) = layer - 1
    /\ phase = "handling" => layer = Len(chain) /\ Len(tops) = layer
    /\ layer <= Len(tops) + 1 /\ Len(tops) <= Len(chain)
    /\ phase = "leaving" => layer <= Len(tops)
    /\ phase = "done" => layer = 0
    /\ panic # "none" => phase \in {"leaving", "done"} /\ Len(tops) = Len(chain)
    /\ \A i \in DOMAIN tops :
          /\ tops[i] \in 0..Len(writers)
          /\ chain[i] \in {"log", "recover", "only", "except"} => tops[i] >= 1 /\ ~Compresses(tops[i])
          /\ chain[i] = "compress" /\ request.gzip => tops[i] >= 1 /\ Compresses(tops[i])
    /\ \A i, j \in DOMAIN tops : i < j =>
          /\ tops[i] <= tops[j]
          /\ chain[j] = "compress" /\ request.gzip => tops[i] < tops[j]
    /\ \A k \in 1..Len(writers) : Compresses(k) =>
          request.gzip /\ \E i \in DOMAIN tops : chain[i] = "compress" /\ tops[i] = k

-----------------------------------------------------------------------------
(* What is known at a place.                                                *)

\* The place has told the one below the status.
Told(k) == IF k = 0 THEN wire.status # 0
           ELSE IF Compresses(k) THEN writers[k].decided ELSE writers[k].wrote
Waits(k) == k > 0 /\ Compresses(k) /\ ~writers[k].decided
Works(k) == Compresses(k) /\ writers[k].on

Want  == IF said.status = 0 THEN 200 ELSE said.status

\* How often what comes to a place is compressed.
Gz(k) == IF headers.encoding = "gzip" /\ \A j \in 1..k : ~Works(j) THEN 1 ELSE 0

Stored(k) == IF ~Compresses(k) THEN <<>> ELSE IF writers[k].decided THEN writers[k].held ELSE writers[k].buf

Does(i, do) == calls[i].call.do = do
Rank(do) == CASE do = "header" -> 1 [] do = "bytes" -> 2 [] do = "flush" -> 3 [] do = "close" -> 4

HeaderComes(k) == calls # <<>> /\ Does(1, "header") /\ calls[1].at >= k
Closing(k)     == calls # <<>> /\ Does(1, "close") /\ calls[1].at = k

\* What is above the place T, the last that is live, has nothing more to say.
Live(T) ==
    /\ T \in 0..Len(writers)
    /\ phase = "handling" => T = Len(writers)
    /\ \A i \in DOMAIN tops : i <= layer => tops[i] <= T
    /\ \A k \in 1..T : Compresses(k) =>
          \/ Closing(k)
          \/ \E i \in DOMAIN tops : i <= layer /\ chain[i] = "compress" /\ tops[i] = k
    /\ \A k \in (T + 1)..Len(writers) : Compresses(k) =>
          \E i \in DOMAIN tops : i > layer /\ chain[i] = "compress" /\ tops[i] = k
    /\ T < Len(writers) => said.status # 0 \/ Compresses(T + 1)

\* The place above the last has told its status when there is one.
Tells(T, k) == IF k = T + 1 THEN said.status # 0 \/ T < Len(writers) ELSE Told(k)

\* What is under way at the place k.
Allowed(T, i, k) ==
    /\ Does(i, "header") => i = 1 /\ calls[i].call.code = Want /\ ~Told(k)
    /\ Does(i, "close") => /\ Len(calls) = 1 /\ phase = "leaving"
                           /\ k >= 1 /\ Compresses(k)
                           /\ \A j \in DOMAIN tops : j <= layer => tops[j] < k
                           /\ \A m \in (k + 1)..T : ~Compresses(m)
    /\ Does(i, "bytes") \/ Does(i, "flush") =>
          said.status # 0 /\ (Told(k) \/ Waits(k) \/ Want = 200 \/ HeaderComes(k))
    /\ ~Does(i, "close") => \A m \in (k + 1)..(T + 1) : Tells(T, m)

InOrder(T) ==
    /\ \A i \in DOMAIN calls : calls[i].at <= T
    /\ \A i \in DOMAIN calls : \A k \in 0..T : calls[i].at = k => Allowed(T, i, k)
    /\ \A i, j \in DOMAIN calls : i < j =>
          /\ calls[i].at <= calls[j].at
          /\ calls[i].at = calls[j].at => Rank(calls[i].call.do) < Rank(calls[j].call.do)

\* The status goes down from the top, and stops nowhere but at a compressor.
Stops(m)    == Waits(m) \/ \E i \in DOMAIN calls : calls[i].at = m
GoesDown(T) ==
    \A j, k \in 0..(T + 1) : j < k =>
        /\ Tells(T, j) => Tells(T, k)
        /\ Tells(T, k) => Told(j) \/ \E m \in j..(k - 1) : Stops(m)

StatusIs(T) ==
    /\ \A k \in 1..T : ~Compresses(k) => writers[k].status = IF writers[k].wrote THEN Want ELSE 200
    /\ \A k \in 1..T : Waits(k) =>
          \/ writers[k].status = Want
          \/ /\ writers[k].status = 200
             /\ HeaderComes(k) \/ \E m \in (k + 1)..T : Waits(m)
    /\ wire.status # 0 => wire.status = Want /\ wire.headers = headers

\* The pieces are numbered as they were said: a place has got those up to got[k], and was sent those
\* up to sent[k].
Numbered(pieces, from, gz) == \A x \in DOMAIN pieces : pieces[x].of = from + x /\ pieces[x].gz = gz
Pieces(T, got, sent) ==
    /\ got \in [0..T -> Nat] /\ sent \in [0..T -> Nat]
    /\ sent[T] = Len(said.body)
    /\ \A k \in 0..T : got[k] = sent[k] \/ \E i \in DOMAIN calls : calls[i].at = k /\ Does(i, "bytes")
    /\ \A i \in DOMAIN calls : \A k \in 0..T : calls[i].at = k /\ Does(i, "bytes") =>
          /\ got[k] + Len(calls[i].call.pieces) = sent[k]
          /\ Numbered(calls[i].call.pieces, got[k], Gz(k))
    /\ \A k \in 1..T : /\ sent[k - 1] + Len(Stored(k)) = got[k]
                       /\ Numbered(Stored(k), sent[k - 1], IF Works(k) THEN 1 ELSE Gz(k))
                       /\ ~Told(k) => sent[k - 1] = 0
                       /\ ~Compresses(k) => writers[k].bytes = IF Gz(k) = 1 THEN got[k] ELSE 2 * got[k]
    /\ Len(wire.body) = got[0]
    /\ Numbered(wire.body, 0, Gz(0))

Compressing(T) ==
    /\ \A k \in 1..T : Compresses(k) =>
          /\ writers[k].decided => writers[k].buf = <<>>
          /\ ~writers[k].on => writers[k].held = <<>>
          /\ writers[k].on => /\ writers[k].decided /\ said.status # 0
                              /\ headers.encoding = "gzip" /\ headers.vary /\ headers.length = 0
          /\ Stored(k) # <<>> => said.status # 0
    /\ \A j, k \in 1..T : Works(j) /\ Works(k) => j = k

SaidIs(T) ==
    /\ said.status = 0 => said.body = <<>> /\ ~said.pushed
    /\ \A x \in DOMAIN said.body :
          /\ said.body[x].gz \in {0, 1}
          /\ \A k \in 0..T : said.body[x].gz = Gz(k) \/ headers.vary
          /\ (\A k \in (T + 1)..Len(writers) : ~Compresses(k)) => said.body[x].gz = Gz(T)
    /\ phase = "leaving" /\ panic # "none" /\ said.status = 0 => headers.encoding = "none"

-----------------------------------------------------------------------------
(* What the handler still does.                                             *)

Media == {"html", "json", "plain", "image", "events"}
Act == [do : {"app", "flush"}] \cup [do : {"set"}, field : {"type"}, to : Media]
       \cup [do : {"set"}, field : {"length"}, to : Nat]
       \cup [do : {"set"}, field : {"encoding"}, to : {"gzip"}]
       \cup [do : {"header"}, code : Nat \ {0}] \cup [do : {"write"}, n : Nat, gz : {0, 1}]

Weight(n, gz) == IF gz = 1 THEN n ELSE 2 * n

Sets(s, i, field) == s[i].do = "set" /\ s[i].field = field

\* A script on its own: it sets headers before it says anything, keeps the length it promises, and
\* says of a body that it is compressed.
Tidy(s) ==
    /\ s \in Seq(Act)
    /\ \A i \in DOMAIN s : s[i].do \in {"set", "header"} => \A j \in 1..(i - 1) : s[j].do \in {"app", "set"}
    /\ \A i \in DOMAIN s : Sets(s, i, "length") /\ s[i].to # 0 =>
          /\ Len(s) = i + 2 /\ s[i + 1].do = "header" /\ s[i + 2].do = "write"
          /\ s[i].to = Weight(s[i + 2].n, s[i + 2].gz)
    /\ \A i \in DOMAIN s : Sets(s, i, "encoding") => \A j \in DOMAIN s : s[j].do # "app"

Follows(s, length, zipped) ==
    /\ \A i \in DOMAIN s : s[i].do = "write" =>
          (s[i].gz = 1 <=> zipped \/ \E j \in 1..(i - 1) : Sets(s, j, "encoding"))
    /\ length # 0 =>
          \/ s = <<>>
          \/ Len(s) = 1 /\ s[1].do = "write" /\ length = Weight(s[1].n, s[1].gz)
          \/ Len(s) = 2 /\ s[1].do = "header" /\ s[2].do = "write" /\ length = Weight(s[2].n, s[2].gz)

Scripted ==
    phase = "handling" =>
        /\ Tidy(script)
        /\ Follows(script, headers.length, Gz(Len(writers)) = 1)
        /\ headers.length # 0 /\ script # <<>> => said.body = <<>>
        /\ said.status # 0 => \A i \in DOMAIN script : script[i].do \notin {"set", "header"}
        /\ headers.encoding = "gzip" /\ said.status = 0 => \A i \in DOMAIN script : script[i].do # "app"

\* The length that was promised is that of what was said.
Promised ==
    headers.length # 0 /\ panic = "none" /\ (phase = "handling" => script = <<>>) =>
        headers.length = Weight(Len(said.body), IF headers.encoding = "gzip" THEN 1 ELSE 0)

\* A flush is on its way down, below whatever was said before it, or was seen.
Flushes(T, sent) ==
    phase = "handling" /\ said.pushed =>
        \/ \E i \in DOMAIN calls : Does(i, "flush") /\ sent[calls[i].at] >= said.flushed
        \/ wire.status # 0 /\ wire.seen >= said.flushed

Flow(T, got, sent) ==
    /\ Live(T) /\ InOrder(T) /\ GoesDown(T) /\ StatusIs(T) /\ Pieces(T, got, sent) /\ Compressing(T)
    /\ SaidIs(T) /\ Flushes(T, sent)

-----------------------------------------------------------------------------
(* Before anything is said.                                                 *)

Fresh ==
    /\ calls = <<>> /\ said = Nothing /\ panic = "none" /\ script \in Scripts
    /\ \A k \in DOMAIN writers : writers[k] \in {NewWriter, NewCompressor}
    /\ wire = NewWire(NoHeaders)
    /\ headers.length = 0 /\ headers.encoding = "none"
    /\ log.status = 0 /\ span.state # "open" /\ span.status = 0
    /\ Len(writers) = IF tops = <<>> THEN 0 ELSE tops[Len(tops)]

-----------------------------------------------------------------------------
(* What is reported, what Recover answered, and who was let through.        *)

Reports ==
    /\ headers.id = ctxID /\ log.id \in {"", ctxID}
    /\ log.status # 0 => /\ phase \in {"leaving", "done"} /\ panic = "none" /\ log.status = Want
                         /\ LogIsInside => log.bytes = Size(said.body)
                         /\ \A i \in DOMAIN chain :
                               /\ chain[i] = "log" /\ i > layer
                               /\ request.gzip => \A j \in 1..(i - 1) : chain[j] # "compress"
                               => calls = <<>> /\ log.bytes = Size(wire.body)
    /\ span.state = "open" => /\ phase = "leaving" /\ panic = "none" /\ layer \in DOMAIN chain
                              /\ chain[layer] \in {"only", "except"}
    /\ span.status # 0 => phase \in {"leaving", "done"} /\ panic = "none" /\ span.status = Want

Recovered ==
    panic = "bug" => \A i \in DOMAIN chain :
        /\ chain[i] = "recover" /\ i > layer
        /\ request.gzip => \A j \in (i + 1)..Len(chain) : chain[j] # "compress"
        => said.status # 0

LetThrough(i) ==
    /\ chain[i] \in {"only", "except"} /\ Applies(chain[i]) => request.signedIn
    /\ chain[i] = "csrf" => request.safe \/ request.token
Guarded ==
    /\ phase = "entering" => \A i \in 1..(layer - 1) : LetThrough(i)
    /\ phase = "handling" => \A i \in DOMAIN chain : LetThrough(i)

PipeInv ==
    /\ PipeTypes /\ Places /\ Scripted /\ Promised /\ Reports /\ Recovered /\ Guarded
    /\ phase = "entering" => Fresh
    /\ phase \in {"handling", "leaving"} => \E T \in Nat : \E got, sent \in [0..T -> Nat] : Flow(T, got, sent)
    /\ phase = "done" => calls = <<>> /\ RepliesAreWhole /\ ReportedIsSent

-----------------------------------------------------------------------------
(* A writer's call on the one below.                                        *)

\* What the calls under way are.
LEMMA CallTypes ==
    ASSUME PipeTypes
    PROVE  /\ Len(calls) \in Nat /\ DOMAIN calls = 1..Len(calls)
           /\ \A i \in DOMAIN calls : i \in Nat /\ i >= 1 /\ calls[i].at \in Nat /\ calls[i].call \in Call
           /\ calls # <<>> => 1 \in DOMAIN calls
<1> DEFINE S == [at : Nat, call : Call]
<1>1. calls \in Seq(S)
  BY DEF PipeTypes
<1>2. \A x \in S : x.at \in Nat /\ x.call \in Call
  OBVIOUS
<1> HIDE DEF S
<1>3. Len(calls) \in Nat /\ DOMAIN calls = 1..Len(calls) /\ \A i \in 1..Len(calls) : calls[i] \in S
  BY <1>1
<1>4. calls # <<>> => Len(calls) # 0
  BY <1>1
<1> QED  BY <1>2, <1>3, <1>4

\* What the writers are.
LEMMA WriterTypes ==
    ASSUME PipeTypes
    PROVE  /\ Len(writers) \in Nat /\ DOMAIN writers = 1..Len(writers)
           /\ \A k \in 1..Len(writers) : /\ Compresses(k) => writers[k] \in ACompressor
                                         /\ ~Compresses(k) => writers[k] \in AWriter
<1> DEFINE S == AWriter \cup ACompressor
<1>1. writers \in Seq(S)
  BY DEF PipeTypes
<1>2. \A x \in S : (x.kind = "compressor" => x \in ACompressor) /\ (x.kind # "compressor" => x \in AWriter)
  BY DEF AWriter, ACompressor
<1> HIDE DEF S
<1>3. Len(writers) \in Nat /\ DOMAIN writers = 1..Len(writers) /\ \A i \in 1..Len(writers) : writers[i] \in S
  BY <1>1
<1> QED  BY <1>2, <1>3 DEF Compresses

\* Where the layers' writers are.
LEMMA TopsTypes ==
    ASSUME PipeTypes
    PROVE  DOMAIN tops \subseteq Nat /\ \A i \in DOMAIN tops : tops[i] \in Nat
<1>1. PICK s : s = tops
  OBVIOUS
<1>2. s \in Seq(Nat)
  BY <1>1 DEF PipeTypes
<1>3. DOMAIN s \subseteq Nat /\ \A i \in DOMAIN s : s[i] \in Nat
  BY ONLY <1>2
<1> QED  BY <1>1, <1>3

\* The call that is next.
LEMMA NextIsFirst ==
    ASSUME PipeTypes, calls # <<>>
    PROVE  Next1 = calls[1]
<1>1. PICK S, s : S = [at : Nat, call : Call] /\ s = calls
  OBVIOUS
<1>2. s \in Seq(S) /\ s # <<>>
  BY <1>1 DEF PipeTypes
<1>3. Head(s) = s[1]
  BY ONLY <1>2
<1> QED  BY <1>1, <1>3 DEF Next1

\* Two sequences, one after the other.
LEMMA Joined ==
    ASSUME NEW A, NEW B, NEW a \in Seq(A), NEW b \in Seq(B)
    PROVE  /\ Len(a \o b) = Len(a) + Len(b) /\ DOMAIN (a \o b) = 1..(Len(a) + Len(b))
           /\ \A i \in 1..Len(a) : (a \o b)[i] = a[i]
           /\ \A i \in (Len(a) + 1)..(Len(a) + Len(b)) : (a \o b)[i] = b[i - Len(a)]
OBVIOUS

\* The calls c take the place of the first of cs.
LEMMA NewCalls ==
    ASSUME NEW S, NEW cs \in Seq(S), cs # <<>>, NEW C, NEW c \in Seq(C), NEW k
    PROVE  LET new == On(k, c) \o Tail(cs) IN
           /\ Len(new) = Len(c) + Len(cs) - 1 /\ DOMAIN new = 1..(Len(c) + Len(cs) - 1)
           /\ \A i \in 1..Len(c) : new[i] = [at |-> k, call |-> c[i]]
           /\ \A i \in (Len(c) + 1)..(Len(c) + Len(cs) - 1) : new[i] = cs[i - Len(c) + 1]
           /\ \A i \in 2..Len(cs) : new[i + Len(c) - 1] = cs[i]
<1> DEFINE a == On(k, c)
           b == Tail(cs)
           A == [at : {k}, call : C]
<1>1. a \in Seq(A) /\ Len(a) = Len(c)
  BY DEF On
<1>2. b \in Seq(S) /\ Len(b) = Len(cs) - 1 /\ \A i \in 1..(Len(cs) - 1) : b[i] = cs[i + 1]
  OBVIOUS
<1>3. \A i \in 1..Len(c) : a[i] = [at |-> k, call |-> c[i]]
  BY DEF On
<1> HIDE DEF a, b, A
<1>4. /\ Len(a \o b) = Len(a) + Len(b) /\ DOMAIN (a \o b) = 1..(Len(a) + Len(b))
      /\ \A i \in 1..Len(a) : (a \o b)[i] = a[i]
      /\ \A i \in (Len(a) + 1)..(Len(a) + Len(b)) : (a \o b)[i] = b[i - Len(a)]
  <2>1. a \in Seq(A) /\ b \in Seq(S)
    BY <1>1, <1>2
  <2> QED  BY ONLY <2>1
<1> DEFINE new == a \o b
<1>5. Len(c) \in Nat /\ Len(cs) \in Nat \ {0}
  OBVIOUS
<1>6. /\ Len(new) = Len(c) + Len(cs) - 1 /\ DOMAIN new = 1..(Len(c) + Len(cs) - 1)
      /\ \A i \in 1..Len(c) : new[i] = a[i]
      /\ \A i \in (Len(c) + 1)..(Len(c) + Len(cs) - 1) : new[i] = b[i - Len(c)]
  <2>1. Len(a) = Len(c) /\ Len(b) = Len(cs) - 1 /\ Len(a) + Len(b) = Len(c) + Len(cs) - 1
    BY <1>1, <1>2, <1>5
  <2> QED  BY <1>4, <2>1
<1> HIDE DEF new
<1>7. \A i \in (Len(c) + 1)..(Len(c) + Len(cs) - 1) : new[i] = cs[i - Len(c) + 1]
  <2> SUFFICES ASSUME NEW i \in (Len(c) + 1)..(Len(c) + Len(cs) - 1)
              PROVE  new[i] = cs[i - Len(c) + 1]
    OBVIOUS
  <2>1. i - Len(c) \in 1..(Len(cs) - 1)
    BY <1>5
  <2> QED  BY <1>2, <1>6, <2>1
<1>8. \A i \in 2..Len(cs) : new[i + Len(c) - 1] = cs[i]
  <2> SUFFICES ASSUME NEW i \in 2..Len(cs)
              PROVE  new[i + Len(c) - 1] = cs[i]
    OBVIOUS
  <2>1. i + Len(c) - 1 \in (Len(c) + 1)..(Len(c) + Len(cs) - 1) /\ (i + Len(c) - 1) - Len(c) + 1 = i
    BY <1>5
  <2> QED  BY <1>7, <2>1
<1>9. \A i \in 1..Len(c) : new[i] = [at |-> k, call |-> c[i]]
  BY <1>3, <1>6
<1> QED  BY <1>6, <1>7, <1>8, <1>9 DEF new, a, b

\* What a call that the writer at place k makes of itself and of what it passes on has to respect.
HeadersStep(k) ==
    /\ headers'.id = headers.id /\ (headers.vary => headers'.vary)
    /\ headers' = headers \/ ~Told(k)
    /\ \/ /\ headers'.encoding = headers.encoding /\ headers'.length = headers.length
          /\ Works(k)' <=> Works(k)
       \/ /\ headers.encoding = "none" /\ headers'.encoding = "gzip"
          /\ headers'.length = 0 /\ headers'.vary
          /\ said.status # 0 /\ ~Told(k) /\ Works(k)'

Emission(k, c) ==
    /\ c \in Seq(Call)
    /\ \A i \in DOMAIN c :
          /\ c[i].do \in {"header", "bytes", "flush"}
          /\ c[i].do = "header" => i = 1 /\ c[i].code = Want /\ ~Told(k)
          /\ c[i].do \in {"bytes", "flush"} => said.status # 0 /\ (Told(k) \/ c[1].do = "header")
    /\ \A i, j \in DOMAIN c : i < j => Rank(c[i].do) < Rank(c[j].do)
    /\ c # <<>> => Told(k)'
    /\ c = <<>> => Waits(k)' \/ Told(k)
    /\ Told(k) => Told(k)'

Shape(k) ==
    /\ Compresses(k) => /\ writers[k].decided => writers[k].buf = <<>>
                        /\ ~writers[k].on => writers[k].held = <<>>
                        /\ writers[k].on => writers[k].decided
                        /\ Stored(k) # <<>> => said.status # 0
    /\ ~Compresses(k) => writers[k].status = IF writers[k].wrote THEN Want ELSE 200
    /\ Waits(k) => writers[k].status = Want

Moves(T, got, sent, k, c, got2, sent2) ==
    /\ got2 = [got EXCEPT ![k] = IF Does(1, "bytes") THEN sent[k] ELSE got[k]]
    /\ sent2 \in [0..T -> Nat] /\ \A j \in 0..T : j # k - 1 => sent2[j] = sent[j]
    /\ (\A i \in DOMAIN c : c[i].do # "bytes") => sent2[k - 1] = sent[k - 1]
    /\ \A i \in DOMAIN c : c[i].do = "bytes" => /\ sent[k - 1] + Len(c[i].pieces) = sent2[k - 1]
                                                /\ Numbered(c[i].pieces, sent[k - 1], Gz(k - 1)')
    /\ sent2[k - 1] + Len(Stored(k)') = got2[k]
    /\ Numbered(Stored(k)', sent2[k - 1], IF Works(k)' THEN 1 ELSE Gz(k))
    /\ ~Told(k)' => sent2[k - 1] = 0
    /\ ~Compresses(k) => writers'[k].bytes = IF Gz(k) = 1 THEN got2[k] ELSE 2 * got2[k]
    /\ Does(1, "flush") => sent2[k - 1] = sent[k] /\ \E i \in DOMAIN c : c[i].do = "flush"

Passes(T, k, c) ==
    /\ T \in Nat /\ k \in 1..T /\ calls # <<>> /\ calls[1].at = k /\ ~Does(1, "close")
    /\ \E w : w.kind = writers[k].kind /\ writers' = [writers EXCEPT ![k] = w]
    /\ calls' = On(k - 1, c) \o Tail(calls)
    /\ UNCHANGED <<chain, request, phase, layer, tops, said, wire, panic>>
    /\ HeadersStep(k) /\ Emission(k, c) /\ Shape(k)'

\* The calls under way after a writer has passed on its own.
LEMMA CallsAfter ==
    ASSUME PipeTypes, NEW T, NEW k, NEW c, Passes(T, k, c)
    PROVE  /\ Len(calls') = Len(c) + Len(calls) - 1 /\ DOMAIN calls' = 1..(Len(c) + Len(calls) - 1)
           /\ DOMAIN calls = 1..Len(calls) /\ DOMAIN c = 1..Len(c) /\ Len(c) \in Nat /\ Len(calls) \in Nat \ {0}
           /\ \A i \in 1..Len(c) : calls'[i].at = k - 1 /\ calls'[i].call = c[i]
           /\ \A i \in (Len(c) + 1)..Len(calls') : calls'[i] = calls[i - Len(c) + 1]
           /\ \A i \in 2..Len(calls) : calls'[i + Len(c) - 1] = calls[i]
<1>1. calls \in Seq([at : Nat, call : Call]) /\ calls # <<>> /\ c \in Seq(Call)
  BY DEF PipeTypes, Passes, Emission
<1>2. calls' = On(k - 1, c) \o Tail(calls)
  BY DEF Passes
<1>3. /\ Len(calls') = Len(c) + Len(calls) - 1 /\ DOMAIN calls' = 1..(Len(c) + Len(calls) - 1)
      /\ \A i \in 1..Len(c) : calls'[i] = [at |-> k - 1, call |-> c[i]]
      /\ \A i \in (Len(c) + 1)..(Len(c) + Len(calls) - 1) : calls'[i] = calls[i - Len(c) + 1]
      /\ \A i \in 2..Len(calls) : calls'[i + Len(c) - 1] = calls[i]
  <2> DEFINE S == [at : Nat, call : Call]
  <2>1. calls \in Seq(S) /\ calls # <<>>
    BY <1>1
  <2> HIDE DEF S
  <2>2. LET new == On(k - 1, c) \o Tail(calls) IN
        /\ Len(new) = Len(c) + Len(calls) - 1 /\ DOMAIN new = 1..(Len(c) + Len(calls) - 1)
        /\ \A i \in 1..Len(c) : new[i] = [at |-> k - 1, call |-> c[i]]
        /\ \A i \in (Len(c) + 1)..(Len(c) + Len(calls) - 1) : new[i] = calls[i - Len(c) + 1]
        /\ \A i \in 2..Len(calls) : new[i + Len(c) - 1] = calls[i]
    BY <1>1, <2>1, NewCalls
  <2> QED  BY <1>2, <2>2
<1>4. Len(calls) # 0 /\ DOMAIN calls = 1..Len(calls) /\ DOMAIN c = 1..Len(c) /\ Len(c) \in Nat /\ Len(calls) \in Nat
  BY <1>1
<1>5. \A i \in 1..Len(c) : calls'[i].at = k - 1 /\ calls'[i].call = c[i]
  <2> SUFFICES ASSUME NEW i \in 1..Len(c)
              PROVE  calls'[i].at = k - 1 /\ calls'[i].call = c[i]
    OBVIOUS
  <2>1. calls'[i] = [at |-> k - 1, call |-> c[i]]
    BY <1>3
  <2> QED  BY ONLY <2>1
<1>6. \A i \in (Len(c) + 1)..Len(calls') : calls'[i] = calls[i - Len(c) + 1]
  BY <1>3
<1>7. Len(calls) \in Nat \ {0}
  BY <1>4
<1> QED  BY <1>3, <1>4, <1>5, <1>6, <1>7

\* A writer that passes a call on changes no other writer.
LEMMA PlacesAfter ==
    ASSUME PipeTypes, NEW T, NEW k, NEW c, Passes(T, k, c), T \in 0..Len(writers)
    PROVE  /\ Len(writers') = Len(writers)
           /\ \A j \in 1..Len(writers) : j # k => writers'[j] = writers[j]
           /\ \A j \in 1..Len(writers) : Compresses(j)' = Compresses(j)
           /\ \A j \in 0..Len(writers) : j # k => Told(j)' = Told(j) /\ Waits(j)' = Waits(j)
           /\ \A j \in 1..Len(writers) : j # k => Works(j)' = Works(j) /\ Stored(j)' = Stored(j)
<1>1. /\ Len(writers') = Len(writers)
      /\ \A j \in 1..Len(writers) : j # k => writers'[j] = writers[j]
      /\ writers'[k].kind = writers[k].kind
  BY DEF PipeTypes, Passes
<1>2. wire' = wire /\ k \in Nat
  BY DEF Passes
<1> HIDE DEF PipeTypes, Passes
<1>3. \A j \in 1..Len(writers) : Compresses(j)' = Compresses(j)
  BY <1>1 DEF Compresses
<1>4. \A j \in 0..Len(writers) : j # k => Told(j)' = Told(j)
  BY <1>1, <1>2 DEF Told, Compresses
<1>5. \A j \in 0..Len(writers) : j # k => Waits(j)' = Waits(j)
  BY <1>1, <1>2 DEF Waits, Compresses
<1>6. \A j \in 1..Len(writers) : j # k => Works(j)' = Works(j)
  BY <1>1, <1>2 DEF Works, Compresses
<1>7. \A j \in 1..Len(writers) : j # k => Stored(j)' = Stored(j)
  BY <1>1, <1>2 DEF Stored, Compresses
<1> QED  BY <1>1, <1>3, <1>4, <1>5, <1>6, <1>7

\* Where a call is under way, everything above has told its status.
LEMMA Above ==
    ASSUME PipeTypes, NEW T, NEW k, NEW c, Passes(T, k, c), Live(T), InOrder(T), GoesDown(T)
    PROVE  /\ T \in Nat /\ k \in 1..T /\ T \in 0..Len(writers)
           /\ \A i \in DOMAIN calls : calls[i].at \in k..T
           /\ \A m \in (k + 1)..(T + 1) : Tells(T, m) /\ (m <= T => Told(m) /\ ~Waits(m))
           /\ Tells(T, T + 1)' = Tells(T, T + 1)
           /\ \A m \in 0..(T + 1) : m # k => Tells(T, m)' = Tells(T, m)
           /\ ~Told(k) => \A m \in 0..(k - 1) : ~Told(m)
           /\ Told(k) => Told(k - 1) \/ Waits(k - 1)
           /\ Told(k)' \/ Waits(k)'
           /\ Told(k) => Told(k)'
<1>1. T \in Nat /\ k \in 1..T /\ calls # <<>> /\ calls[1].at = k /\ ~Does(1, "close") /\ T \in 0..Len(writers)
  BY DEF Passes, Live
<1>2. 1 \in DOMAIN calls /\ \A i \in DOMAIN calls : i \in Nat /\ i >= 1 /\ calls[i].at \in Nat
  BY <1>1, CallTypes
<1>3. \A i \in DOMAIN calls : calls[i].at \in k..T
  BY <1>1, <1>2 DEF InOrder
<1>4. \A m \in (k + 1)..(T + 1) : Tells(T, m)
  BY <1>1, <1>2 DEF InOrder, Allowed
<1>5. \A m \in (k + 1)..(T + 1) : m <= T => Told(m) /\ ~Waits(m)
  <2> SUFFICES ASSUME NEW m \in (k + 1)..(T + 1), m <= T
              PROVE  Told(m) /\ ~Waits(m)
    OBVIOUS
  <2>1. Told(m) /\ m > 0
    BY <1>1, <1>4 DEF Tells
  <2> QED  BY <2>1 DEF Told, Waits
<1>6. Len(writers') = Len(writers) /\ \A j \in 0..Len(writers) : j # k => Told(j)' = Told(j)
  BY <1>1, PlacesAfter, WriterTypes
<1>7. said' = said
  BY DEF Passes
<1>8. \A m \in 0..(T + 1) : m # k => Tells(T, m)' = Tells(T, m)
  BY <1>1, <1>6, <1>7 DEF Tells
<1>9. ~Told(k) => \A m \in 0..(k - 1) : ~Told(m)
  <2> SUFFICES ASSUME ~Told(k), NEW m \in 0..(k - 1)
              PROVE  ~Told(m)
    OBVIOUS
  <2>1. m \in 0..(T + 1) /\ k \in 0..(T + 1) /\ m < k /\ k # T + 1 /\ m # T + 1
    BY <1>1
  <2>2. Tells(T, m) => Tells(T, k)
    BY <2>1 DEF GoesDown
  <2> QED  BY <2>1, <2>2 DEF Tells
<1>10. Told(k) => Told(k - 1) \/ Waits(k - 1)
  <2> SUFFICES ASSUME Told(k)
              PROVE  Told(k - 1) \/ Waits(k - 1)
    OBVIOUS
  <2>1. k - 1 \in 0..(T + 1) /\ k \in 0..(T + 1) /\ k - 1 < k /\ k # T + 1 /\ k \in Nat
    BY <1>1
  <2>2. Told(k - 1) \/ \E m \in (k - 1)..(k - 1) : Stops(m)
    BY <2>1 DEF GoesDown, Tells
  <2>3. Stops(k - 1) => Waits(k - 1)
    BY <1>1, <1>3 DEF Stops
  <2> QED  BY <2>1, <2>2, <2>3
<1>11. (Told(k) => Told(k)') /\ (Told(k)' \/ Waits(k)')
  BY DEF Passes, Emission
<1>12. Tells(T, T + 1)' = Tells(T, T + 1)
  BY <1>1, <1>8
<1> QED  BY <1>1, <1>3, <1>4, <1>5, <1>8, <1>9, <1>10, <1>11, <1>12

\* A call that is passed on leaves the last live place where it was.
LEMMA PassLive ==
    ASSUME PipeTypes, NEW T, NEW k, NEW c, Passes(T, k, c), Live(T), InOrder(T), GoesDown(T)
    PROVE  Live(T)'
<1>1. T \in 0..Len(writers) /\ k \in 1..T /\ T \in Nat /\ Len(writers) \in Nat
  BY Above, WriterTypes
<1>2. Len(writers') = Len(writers) /\ \A j \in 1..Len(writers) : Compresses(j)' = Compresses(j)
  BY <1>1, PlacesAfter
<1>3. /\ phase' = phase /\ tops' = tops /\ layer' = layer /\ said' = said /\ chain' = chain
      /\ ~Does(1, "close")
  BY DEF Passes
<1>4. \A j : ~Closing(j)
  BY <1>3 DEF Closing
<1>5. T \in 0..Len(writers') /\ (phase' = "handling" => T = Len(writers'))
  BY <1>2, <1>3 DEF Live
<1>6. \A i \in DOMAIN tops' : i <= layer' => tops'[i] <= T
  BY <1>3 DEF Live
<1>7. \A j \in 1..T : Compresses(j)' => \E i \in DOMAIN tops' : i <= layer' /\ chain'[i] = "compress" /\ tops'[i] = j
  BY <1>1, <1>2, <1>3, <1>4 DEF Live
<1>8. \A j \in (T + 1)..Len(writers') : Compresses(j)' =>
          \E i \in DOMAIN tops' : i > layer' /\ chain'[i] = "compress" /\ tops'[i] = j
  BY <1>1, <1>2, <1>3 DEF Live
<1>9. T < Len(writers') => said'.status # 0 \/ Compresses(T + 1)'
  BY <1>1, <1>2, <1>3 DEF Live
<1> QED  BY <1>5, <1>6, <1>7, <1>8, <1>9 DEF Live

\* The calls stay in order when one is passed on.
LEMMA PassInOrder ==
    ASSUME PipeTypes, NEW T, NEW k, NEW c, Passes(T, k, c), Live(T), InOrder(T), GoesDown(T)
    PROVE  InOrder(T)'
<1>1. /\ Len(calls') = Len(c) + Len(calls) - 1 /\ DOMAIN calls' = 1..(Len(c) + Len(calls) - 1)
      /\ DOMAIN calls = 1..Len(calls) /\ DOMAIN c = 1..Len(c) /\ Len(c) \in Nat /\ Len(calls) \in Nat \ {0}
      /\ \A i \in 1..Len(c) : calls'[i].at = k - 1 /\ calls'[i].call = c[i]
      /\ \A i \in (Len(c) + 1)..Len(calls') : calls'[i] = calls[i - Len(c) + 1]
  BY CallsAfter
<1>2. /\ T \in Nat /\ k \in 1..T /\ T \in 0..Len(writers)
      /\ \A i \in DOMAIN calls : calls[i].at \in k..T
      /\ \A m \in (k + 1)..(T + 1) : Tells(T, m)
      /\ \A m \in 0..(T + 1) : m # k => Tells(T, m)' = Tells(T, m)
      /\ ~Told(k) => \A m \in 0..(k - 1) : ~Told(m)
      /\ Told(k) => Told(k - 1) \/ Waits(k - 1)
      /\ Told(k)' \/ Waits(k)'
  BY Above
<1>3. \A j \in 0..T : j # k => Told(j)' = Told(j) /\ Waits(j)' = Waits(j)
  BY <1>2, PlacesAfter, WriterTypes
<1>4. said' = said /\ Emission(k, c) /\ calls[1].at = k /\ calls # <<>>
  BY DEF Passes
<1>5. Want' = Want
  BY <1>4 DEF Want
<1>6. ASSUME NEW i \in 1..Len(c), NEW a \in 0..T, calls'[i].at = a
      PROVE  Allowed(T, i, a)'
  <2>1. a = k - 1 /\ calls'[i].call = c[i] /\ a # k
    BY <1>1, <1>2, <1>6
  <2>2. /\ c[i].do \in {"header", "bytes", "flush"}
        /\ c[i].do = "header" => i = 1 /\ c[i].code = Want /\ ~Told(k)
        /\ c[i].do \in {"bytes", "flush"} => said.status # 0 /\ (Told(k) \/ c[1].do = "header")
        /\ Told(k)'
    BY <1>1, <1>4 DEF Emission
  <2>3. Told(a)' = Told(a) /\ Waits(a)' = Waits(a)
    BY <1>3, <2>1
  <2>4. Does(i, "header")' => i = 1 /\ (calls[i].call.code = Want)' /\ ~Told(a)'
    BY <1>2, <1>5, <2>1, <2>2, <2>3 DEF Does
  <2>5. c[1].do = "header" => HeaderComes(a)'
    <3>1. 1 \in 1..Len(c) /\ 1 \in DOMAIN calls'
      BY <1>1
    <3>2. calls'[1].at = k - 1 /\ calls'[1].call = c[1] /\ calls' # <<>>
      BY <1>1, <3>1
    <3> QED  BY <1>2, <2>1, <3>2 DEF HeaderComes, Does
  <2>6. Does(i, "bytes")' \/ Does(i, "flush")' =>
            (said.status # 0)' /\ (Told(a)' \/ Waits(a)' \/ HeaderComes(a)')
    BY <1>2, <1>4, <2>1, <2>2, <2>3, <2>5 DEF Does
  <2>7. ~Does(i, "close")'
    BY <2>1, <2>2 DEF Does
  <2>8. \A m \in (a + 1)..(T + 1) : Tells(T, m)'
    <3>1. Tells(T, k)'
      BY <1>2, <2>2 DEF Tells
    <3> QED  BY <1>2, <2>1, <3>1
  <2> QED  BY <2>4, <2>6, <2>7, <2>8 DEF Allowed
<1>7. ASSUME NEW i \in (Len(c) + 1)..Len(calls'), NEW a \in 0..T, calls'[i].at = a
      PROVE  Allowed(T, i, a)'
  <2> DEFINE o == i - Len(c) + 1
  <2>1. o \in DOMAIN calls /\ o # 1 /\ Len(calls) # 1 /\ calls'[i] = calls[o] /\ calls[o].at = a
    <3>1. calls'[i] = calls[o]
      BY <1>1
    <3>2. o \in 2..Len(calls)
      <4>1. PICK lc, ln, lp : lc = Len(c) /\ ln = Len(calls) /\ lp = Len(calls')
        OBVIOUS
      <4>2. lp = lc + ln - 1 /\ lc \in Nat /\ ln \in Nat \ {0} /\ i \in (lc + 1)..lp
        BY <1>1, <4>1
      <4>3. i - lc + 1 \in 2..ln
        BY ONLY <4>2
      <4> QED  BY <4>1, <4>3
    <3> HIDE DEF o
    <3>3. Len(calls) # 1 /\ o # 1 /\ o \in DOMAIN calls
      <4>1. PICK n : n = Len(calls)
        OBVIOUS
      <4>2. o \in 2..n /\ n \in Nat
        BY <1>1, <3>2, <4>1
      <4>3. n # 1 /\ o # 1 /\ o \in 1..n
        BY ONLY <4>2
      <4> QED  BY <1>1, <4>1, <4>3
    <3> QED  BY <1>7, <3>1, <3>3
  <2> HIDE DEF o
  <2>2. a \in k..T /\ a \in Nat /\ a + 1 > k
    BY <1>2, <2>1
  <2>3. Allowed(T, o, a)
    BY <2>1 DEF InOrder
  <2>4. ~Does(o, "header") /\ ~Does(o, "close")
    BY <2>1, <2>3 DEF Allowed
  <2>5. \A m \in (a + 1)..(T + 1) : Tells(T, m)'
    <3>1. \A m \in (a + 1)..(T + 1) : Tells(T, m)
      BY <2>3, <2>4 DEF Allowed
    <3>2. \A m \in (a + 1)..(T + 1) : m \in 0..(T + 1) /\ m # k
      BY <1>2, <2>2
    <3> QED  BY <1>2, <3>1, <3>2
  <2>6. Does(o, "bytes") \/ Does(o, "flush") =>
            said.status # 0 /\ (Told(a) \/ Waits(a) \/ Want = 200 \/ HeaderComes(a))
    BY <2>3 DEF Allowed
  <2>7. HeaderComes(a) => a = k
    BY <1>2, <1>4, <2>2 DEF HeaderComes
  <2>8. a = k \/ (Told(a)' = Told(a) /\ Waits(a)' = Waits(a))
    BY <1>3
  <2>9. Does(o, "bytes") \/ Does(o, "flush") =>
            (said.status # 0)' /\ (Told(a)' \/ Waits(a)' \/ Want' = 200)
    <3>1. CASE a = k
      BY <1>2, <1>4, <2>6, <3>1
    <3>2. CASE a # k
      BY <1>4, <1>5, <2>6, <2>7, <2>8, <3>2
    <3> QED  BY <3>1, <3>2
  <2>10. Does(i, "bytes")' = Does(o, "bytes") /\ Does(i, "flush")' = Does(o, "flush")
         /\ Does(i, "header")' = Does(o, "header") /\ Does(i, "close")' = Does(o, "close")
    BY <2>1 DEF Does
  <2> QED  BY <2>4, <2>5, <2>9, <2>10 DEF Allowed
<1>8. \A i \in DOMAIN calls' : i \in 1..Len(c) \/ i \in (Len(c) + 1)..Len(calls')
  BY <1>1
<1>9. ASSUME NEW i \in DOMAIN calls', NEW j \in DOMAIN calls', i < j
      PROVE  /\ calls'[i].at <= calls'[j].at
             /\ calls'[i].at = calls'[j].at => Rank(calls'[i].call.do) < Rank(calls'[j].call.do)
  <2>1. CASE j \in 1..Len(c)
    <3>1. i \in 1..Len(c) /\ i \in DOMAIN c /\ j \in DOMAIN c
      BY <1>1, <1>9, <2>1
    <3>2. Rank(c[i].do) < Rank(c[j].do)
      BY <1>4, <1>9, <3>1 DEF Emission
    <3>3. calls'[i].at = k - 1 /\ calls'[j].at = k - 1 /\ calls'[i].call = c[i] /\ calls'[j].call = c[j]
      BY <1>1, <3>1
    <3> QED  BY <1>2, <3>2, <3>3
  <2>2. CASE i \in 1..Len(c) /\ j \in (Len(c) + 1)..Len(calls')
    <3>1. calls'[i].at = k - 1 /\ calls'[j] = calls[j - Len(c) + 1] /\ j - Len(c) + 1 \in DOMAIN calls
      <4>1. calls'[i].at = k - 1 /\ calls'[j] = calls[j - Len(c) + 1]
        BY <1>1, <2>2
      <4>2. PICK n, m : n = Len(c) /\ m = Len(calls)
        OBVIOUS
      <4>3. /\ n \in Nat /\ m \in Nat /\ j \in (n + 1)..(n + m - 1) /\ DOMAIN calls = 1..m
        BY <1>1, <2>2, <4>2
      <4>4. j - n + 1 \in 1..m
        BY ONLY <4>3
      <4> QED  BY <4>1, <4>2, <4>3, <4>4
    <3>2. calls[j - Len(c) + 1].at \in k..T
      BY <1>2, <3>1
    <3> QED  BY <1>2, <3>1, <3>2
  <2>3. CASE i \in (Len(c) + 1)..Len(calls') /\ j \in (Len(c) + 1)..Len(calls')
    <3> DEFINE x == i - Len(c) + 1
               y == j - Len(c) + 1
    <3>1. x \in DOMAIN calls /\ y \in DOMAIN calls /\ x < y
      BY <1>1, <1>9, <2>3
    <3>2. calls'[i] = calls[x] /\ calls'[j] = calls[y]
      BY <1>1, <2>3
    <3> HIDE DEF x, y
    <3> QED  BY <3>1, <3>2 DEF InOrder
  <2> QED  BY <1>1, <1>8, <1>9, <2>1, <2>2, <2>3
<1>10. \A i \in DOMAIN calls' : calls'[i].at <= T
  <2> SUFFICES ASSUME NEW i \in DOMAIN calls'
              PROVE  calls'[i].at <= T
    OBVIOUS
  <2>1. CASE i \in 1..Len(c)
    BY <1>1, <1>2, <2>1
  <2>2. CASE i \in (Len(c) + 1)..Len(calls')
    <3>1. calls'[i] = calls[i - Len(c) + 1] /\ i - Len(c) + 1 \in DOMAIN calls
      BY <1>1, <2>2
    <3> QED  BY <1>2, <3>1
  <2> QED  BY <1>8, <2>1, <2>2
<1>11. \A i \in DOMAIN calls' : \A a \in 0..T : calls'[i].at = a => Allowed(T, i, a)'
  BY <1>6, <1>7, <1>8
<1> QED  BY <1>9, <1>10, <1>11 DEF InOrder

\* What stops the status at a place after the call, that did so before.
LEMMA PassGoesDown ==
    ASSUME PipeTypes, NEW T, NEW k, NEW c, Passes(T, k, c), Live(T), InOrder(T), GoesDown(T)
    PROVE  GoesDown(T)'
<1>1. /\ Len(calls') = Len(c) + Len(calls) - 1 /\ DOMAIN calls' = 1..(Len(c) + Len(calls) - 1)
      /\ DOMAIN calls = 1..Len(calls) /\ DOMAIN c = 1..Len(c) /\ Len(c) \in Nat /\ Len(calls) \in Nat \ {0}
      /\ \A i \in 1..Len(c) : calls'[i].at = k - 1 /\ calls'[i].call = c[i]
      /\ \A i \in 2..Len(calls) : calls'[i + Len(c) - 1] = calls[i]
  BY CallsAfter
<1>2. /\ T \in Nat /\ k \in 1..T /\ T \in 0..Len(writers)
      /\ \A i \in DOMAIN calls : calls[i].at \in k..T
      /\ \A m \in (k + 1)..(T + 1) : Tells(T, m)
      /\ \A m \in 0..(T + 1) : m # k => Tells(T, m)' = Tells(T, m)
      /\ ~Told(k) => \A m \in 0..(k - 1) : ~Told(m)
      /\ Told(k)' \/ Waits(k)'
      /\ Told(k) => Told(k)'
  BY Above
<1>3. \A j \in 0..T : j # k => Told(j)' = Told(j) /\ Waits(j)' = Waits(j)
  BY <1>2, PlacesAfter, WriterTypes
<1>4. Emission(k, c) /\ calls[1].at = k
  BY DEF Passes
<1>5. c # <<>> => Stops(k - 1)'
  <2> SUFFICES ASSUME c # <<>>
              PROVE  Stops(k - 1)'
    OBVIOUS
  <2>1. Len(c) # 0
    BY <1>4 DEF Emission
  <2>2. 1 \in DOMAIN calls' /\ calls'[1].at = k - 1
    BY <1>1, <2>1
  <2> QED  BY <2>2 DEF Stops
<1>6. c = <<>> => Waits(k)' \/ Told(k)
  BY <1>4 DEF Emission
<1>7. ASSUME NEW m \in 0..T, m # k, Stops(m)
      PROVE  Stops(m)'
  <2>1. CASE Waits(m)
    BY <1>3, <1>7, <2>1 DEF Stops
  <2>2. CASE \E i \in DOMAIN calls : calls[i].at = m
    <3>1. PICK i \in DOMAIN calls : calls[i].at = m
      BY <2>2
    <3>2. i \in 2..Len(calls) /\ i + Len(c) - 1 \in DOMAIN calls'
      BY <1>1, <1>4, <1>7, <3>1
    <3> QED  BY <1>1, <3>1, <3>2 DEF Stops
  <2> QED  BY <1>7, <2>1, <2>2 DEF Stops
<1>8. \A m \in 0..(k - 1) : Stops(m) => Waits(m)
  BY <1>2 DEF Stops
<1>9. ASSUME NEW j \in 0..(T + 1), NEW l \in 0..(T + 1), j < l
      PROVE  Tells(T, j)' => Tells(T, l)'
  <2>1. CASE j = k
    BY <1>2, <1>9, <2>1
  <2>2. CASE j # k /\ l # k
    BY <1>2, <1>9, <2>2 DEF GoesDown
  <2>3. CASE j # k /\ l = k
    <3>1. Tells(T, j) => Tells(T, k)
      BY <1>9, <2>3 DEF GoesDown
    <3>2. k # T + 1 /\ k \in 0..T
      BY <1>2
    <3> QED  BY <1>2, <2>3, <3>1, <3>2 DEF Tells
  <2> QED  BY <2>1, <2>2, <2>3
<1>10. ASSUME NEW j \in 0..(T + 1), NEW l \in 0..(T + 1), j < l, Tells(T, l)'
       PROVE  Told(j)' \/ \E m \in j..(l - 1) : Stops(m)'
  <2>1. CASE l = k
    <3>1. j \in 0..(k - 1) /\ k - 1 \in j..(l - 1) /\ j # k /\ j \in 0..T /\ j \in Nat
      BY <1>2, <1>10, <2>1
    <3>2. c = <<>> => Told(k)
      <4>1. k # T + 1 /\ Told(k)'
        BY <1>2, <1>10, <2>1 DEF Tells
      <4>2. ~Waits(k)'
        BY <4>1 DEF Told, Waits
      <4> QED  BY <1>6, <4>2
    <3>3. Told(k) => Told(j) \/ \E m \in j..(k - 1) : Stops(m)
      <4>1. k # T + 1 /\ k \in 0..(T + 1)
        BY <1>2
      <4> QED  BY <1>10, <2>1, <4>1 DEF GoesDown, Tells
    <3>4. \A m \in j..(k - 1) : m \in 0..T /\ m # k
      BY <1>2, <3>1
    <3> QED  BY <1>3, <1>5, <1>7, <2>1, <3>1, <3>2, <3>3, <3>4
  <2>2. CASE l # k
    <3>1. Tells(T, l)
      BY <1>2, <1>10, <2>2
    <3>2. Told(j) \/ \E m \in j..(l - 1) : Stops(m)
      BY <1>10, <3>1 DEF GoesDown
    <3>3. \A m \in j..(l - 1) : m \in 0..T
      BY <1>2, <1>10
    <3>4. CASE Told(j)
      <4>1. j \in 0..T
        BY <1>2, <1>10
      <4> QED  BY <1>2, <1>3, <3>4, <4>1
    <3>5. CASE \E m \in j..(l - 1) : m # k /\ Stops(m)
      BY <1>7, <3>3, <3>5
    <3>6. CASE j <= k /\ k < l /\ \A m \in j..(l - 1) : Stops(m) => m = k
      <4>1. CASE j = k
        <5>1. k \in j..(l - 1)
          BY <1>2, <1>10, <3>6, <4>1
        <5>2. Waits(k)' => Stops(k)'
          BY DEF Stops
        <5> QED  BY <1>2, <4>1, <5>1, <5>2
      <4>2. CASE j # k
        <5>1. k \in j..(l - 1) /\ k - 1 \in j..(l - 1) /\ j \in 0..(T + 1) /\ k \in 0..(T + 1) /\ j < k
          BY <1>2, <1>10, <3>6, <4>2
        <5>2. CASE c # <<>>
          BY <1>5, <5>1, <5>2
        <5>3. CASE Waits(k)'
          BY <5>1, <5>3 DEF Stops
        <5>4. CASE Told(k)
          <6>1. k # T + 1
            BY <1>2
          <6>2. Told(j) \/ \E m \in j..(k - 1) : Stops(m)
            BY <5>1, <5>4, <6>1 DEF GoesDown, Tells
          <6>3. \A m \in j..(k - 1) : m \in j..(l - 1) /\ m # k
            BY <1>2, <1>10, <3>6
          <6>4. Told(j)
            BY <3>6, <6>2, <6>3
          <6> QED  BY <3>4, <6>4
        <5> QED  BY <1>6, <5>2, <5>3, <5>4
      <4> QED  BY <4>1, <4>2
    <3>7. (\E m \in j..(l - 1) : Stops(m)) => (\E m \in j..(l - 1) : m # k /\ Stops(m)) \/
              (j <= k /\ k < l /\ \A m \in j..(l - 1) : Stops(m) => m = k)
      <4> SUFFICES ASSUME NEW m \in j..(l - 1), Stops(m),
                          ~\E n \in j..(l - 1) : n # k /\ Stops(n)
                  PROVE  j <= k /\ k < l /\ \A n \in j..(l - 1) : Stops(n) => n = k
        OBVIOUS
      <4>1. m = k
        OBVIOUS
      <4> QED  BY <1>10, <4>1
    <3> QED  BY <3>2, <3>4, <3>5, <3>6, <3>7
  <2> QED  BY <2>1, <2>2
<1> QED  BY <1>9, <1>10 DEF GoesDown

\* Every writer still remembers the status that is wanted.
LEMMA PassStatusIs ==
    ASSUME PipeTypes, NEW T, NEW k, NEW c, Passes(T, k, c), Live(T), InOrder(T), GoesDown(T), StatusIs(T)
    PROVE  StatusIs(T)'
<1>1. /\ Len(calls') = Len(c) + Len(calls) - 1 /\ DOMAIN calls' = 1..(Len(c) + Len(calls) - 1)
      /\ DOMAIN c = 1..Len(c) /\ Len(c) \in Nat /\ Len(calls) \in Nat \ {0}
      /\ \A i \in 1..Len(c) : calls'[i].at = k - 1 /\ calls'[i].call = c[i]
  BY CallsAfter
<1>2. /\ T \in Nat /\ k \in 1..T /\ T \in 0..Len(writers)
      /\ ~Told(k) => \A m \in 0..(k - 1) : ~Told(m)
      /\ Told(k)' \/ Waits(k)'
  BY Above
<1>3. /\ \A j \in 0..T : j # k => Told(j)' = Told(j) /\ Waits(j)' = Waits(j)
      /\ \A j \in 1..T : j # k => writers'[j] = writers[j]
      /\ \A j \in 1..T : Compresses(j)' = Compresses(j)
  BY <1>2, PlacesAfter, WriterTypes
<1>4. Emission(k, c) /\ calls[1].at = k /\ said' = said /\ wire' = wire /\ HeadersStep(k) /\ Shape(k)'
  BY DEF Passes
<1>5. Want' = Want
  BY <1>4 DEF Want
<1>6. \A j \in 1..T : ~Compresses(j)' =>
          writers'[j].status = IF writers'[j].wrote THEN Want' ELSE 200
  BY <1>2, <1>3, <1>4, <1>5 DEF StatusIs, Shape
<1>7. wire'.status # 0 => wire'.status = Want' /\ wire'.headers = headers'
  <2>1. wire.status # 0 => Told(0)
    BY DEF Told
  <2>2. 0 \in 0..(k - 1)
    BY <1>2
  <2>3. wire.status # 0 => headers' = headers
    BY <1>2, <1>4, <2>1, <2>2 DEF HeadersStep
  <2> QED  BY <1>4, <1>5, <2>3 DEF StatusIs
<1>8. ASSUME NEW j \in 1..T, Waits(j)'
      PROVE  \/ writers'[j].status = Want'
             \/ /\ writers'[j].status = 200
                /\ HeaderComes(j)' \/ \E m \in (j + 1)..T : Waits(m)'
  <2>1. CASE j = k
    BY <1>4, <1>8, <2>1 DEF Shape
  <2>2. CASE j # k
    <3>1. Waits(j) /\ writers'[j] = writers[j]
      BY <1>3, <1>8, <2>2
    <3>2. \/ writers[j].status = Want
          \/ writers[j].status = 200 /\ (HeaderComes(j) \/ \E m \in (j + 1)..T : Waits(m))
      BY <3>1 DEF StatusIs
    <3>3. \A m \in (j + 1)..T : Waits(m) => Waits(m)' \/ m = k
      BY <1>3
    <3>4. HeaderComes(j) => k \in (j + 1)..T /\ ~Told(k)
      <4> SUFFICES ASSUME HeaderComes(j)
                  PROVE  k \in (j + 1)..T /\ ~Told(k)
        OBVIOUS
      <4>1. k \in (j + 1)..T
        BY <1>2, <1>4, <2>2 DEF HeaderComes
      <4>2. 1 \in DOMAIN calls /\ Does(1, "header") /\ k \in 0..T
        BY <1>2, CallTypes DEF HeaderComes
      <4>3. Allowed(T, 1, k)
        BY <1>4, <4>2 DEF InOrder
      <4> QED  BY <4>1, <4>2, <4>3 DEF Allowed
    <3>5. ASSUME k \in (j + 1)..T, ~Told(k), ~Waits(k)'
          PROVE  HeaderComes(j)'
      <4>1. c # <<>>
        BY <1>4, <3>5 DEF Emission
      <4>2. 1 \in DOMAIN c /\ Len(c) # 0
        BY <1>1, <4>1, <1>4 DEF Emission
      <4>3. c[1].do = "header"
        BY <1>4, <3>5, <4>2 DEF Emission
      <4>4. calls'[1].at = k - 1 /\ calls'[1].call = c[1] /\ calls' # <<>>
        BY <1>1, <4>2
      <4>5. k - 1 >= j
        BY <1>2, <3>5
      <4> QED  BY <4>3, <4>4, <4>5 DEF HeaderComes, Does
    <3>6. Waits(k) => ~Told(k)
      BY DEF Waits, Told
    <3> QED  BY <1>5, <3>1, <3>2, <3>3, <3>4, <3>5, <3>6
  <2> QED  BY <2>1, <2>2
<1> QED  BY <1>6, <1>7, <1>8 DEF StatusIs

\* What is compressed above the writer is not compressed again below it.
LEMMA GzAfter ==
    ASSUME PipeTypes, NEW T, NEW k, NEW c, Passes(T, k, c), Live(T), InOrder(T), GoesDown(T)
    PROVE  /\ \A j \in k..T : Gz(j)' = Gz(j)
           /\ \A j \in 0..T : Gz(j)' = Gz(j) \/ (~Told(k) /\ headers'.vary)
<1>1. T \in Nat /\ k \in 1..T /\ T \in 0..Len(writers)
  BY Above
<1>2. \A j \in 1..T : j # k => Works(j)' = Works(j)
  BY <1>1, PlacesAfter, WriterTypes
<1>3. HeadersStep(k)
  BY DEF Passes
<1>4. CASE headers'.encoding = headers.encoding /\ (Works(k)' <=> Works(k))
  <2>1. \A j \in 1..T : Works(j)' <=> Works(j)
    BY <1>2, <1>4
  <2>2. \A j \in 0..T : Gz(j)' = Gz(j)
    <3> SUFFICES ASSUME NEW j \in 0..T
                PROVE  Gz(j)' = Gz(j)
      OBVIOUS
    <3>1. \A m \in 1..j : m \in 1..T
      BY <1>1
    <3>2. (\A m \in 1..j : ~Works(m)') <=> (\A m \in 1..j : ~Works(m))
      BY <2>1, <3>1
    <3> QED  BY <1>4, <3>2 DEF Gz
  <2> QED  BY <1>1, <2>2
<1>5. CASE headers.encoding = "none" /\ ~Told(k) /\ Works(k)' /\ headers'.vary
  <2>1. \A j \in k..T : Gz(j)' = 0 /\ Gz(j) = 0
    <3> SUFFICES ASSUME NEW j \in k..T
                PROVE  Gz(j)' = 0 /\ Gz(j) = 0
      OBVIOUS
    <3>1. k \in 1..j
      BY <1>1
    <3>2. ~\A m \in 1..j : ~Works(m)'
      BY <1>5, <3>1
    <3> QED  BY <1>5, <3>2 DEF Gz
  <2> QED  BY <1>5, <2>1
<1> QED  BY <1>3, <1>4, <1>5 DEF HeadersStep

\* Nothing has got below a place that has not told its status.
LEMMA NothingBelow ==
    ASSUME PipeTypes, NEW T, NEW k, NEW c, Passes(T, k, c), Live(T), InOrder(T), GoesDown(T),
           NEW got, NEW sent, Pieces(T, got, sent)
    PROVE  /\ \A j \in 0..(k - 1) : got[j] = sent[j]
           /\ ~Told(k) => \A j \in 0..(k - 1) : sent[j] = 0 /\ got[j] = 0
<1>1. /\ T \in Nat /\ k \in 1..T /\ T \in 0..Len(writers)
      /\ \A i \in DOMAIN calls : calls[i].at \in k..T
      /\ ~Told(k) => \A m \in 0..(k - 1) : ~Told(m)
  BY Above
<1>2. \A j \in 0..(k - 1) : got[j] = sent[j]
  <2> SUFFICES ASSUME NEW j \in 0..(k - 1)
              PROVE  got[j] = sent[j]
    OBVIOUS
  <2>1. j \in 0..T /\ ~\E i \in DOMAIN calls : calls[i].at = j
    BY <1>1
  <2> QED  BY <2>1 DEF Pieces
<1>3. ~Told(k) => \A j \in 0..(k - 1) : sent[j] = 0
  <2> SUFFICES ASSUME ~Told(k), NEW j \in 0..(k - 1)
              PROVE  sent[j] = 0
    OBVIOUS
  <2>1. j + 1 \in 1..T /\ (j + 1 = k \/ j + 1 \in 0..(k - 1)) /\ (j + 1) - 1 = j
    BY <1>1
  <2>2. ~Told(j + 1)
    BY <1>1, <2>1
  <2>3. sent[(j + 1) - 1] = 0
    BY <2>1, <2>2 DEF Pieces
  <2> QED  BY <2>1, <2>3
<1> QED  BY <1>2, <1>3

\* No piece is lost or doubled when a call is passed on.
LEMMA PassPieces ==
    ASSUME PipeTypes, NEW T, NEW k, NEW c, Passes(T, k, c), Live(T), InOrder(T), GoesDown(T),
           NEW got, NEW sent, Pieces(T, got, sent), NEW got2, NEW sent2, Moves(T, got, sent, k, c, got2, sent2)
    PROVE  Pieces(T, got2, sent2)'
<1>1. /\ Len(calls') = Len(c) + Len(calls) - 1 /\ DOMAIN calls' = 1..(Len(c) + Len(calls) - 1)
      /\ DOMAIN calls = 1..Len(calls) /\ DOMAIN c = 1..Len(c) /\ Len(c) \in Nat /\ Len(calls) \in Nat \ {0}
      /\ \A i \in 1..Len(c) : calls'[i].at = k - 1 /\ calls'[i].call = c[i]
      /\ \A i \in (Len(c) + 1)..Len(calls') : calls'[i] = calls[i - Len(c) + 1]
      /\ \A i \in 2..Len(calls) : calls'[i + Len(c) - 1] = calls[i]
  BY CallsAfter
<1>2. /\ T \in Nat /\ k \in 1..T /\ T \in 0..Len(writers) /\ k - 1 \in 0..T /\ k \in 0..T /\ k - 1 # k
      /\ \A i \in DOMAIN calls : calls[i].at \in k..T
  BY Above
<1>3. /\ \A j \in 1..T : j # k => Works(j)' = Works(j) /\ Stored(j)' = Stored(j) /\ writers'[j] = writers[j]
      /\ \A j \in 1..T : Compresses(j)' = Compresses(j)
      /\ \A j \in 0..T : j # k => Told(j)' = Told(j)
  BY <1>2, PlacesAfter, WriterTypes
<1>4. said' = said /\ wire' = wire /\ calls[1].at = k /\ calls # <<>>
  BY DEF Passes
<1>5. /\ \A j \in k..T : Gz(j)' = Gz(j)
      /\ \A j \in 0..T : Gz(j)' = Gz(j) \/ ~Told(k)
  BY GzAfter
<1>6. /\ \A j \in 0..(k - 1) : got[j] = sent[j]
      /\ ~Told(k) => \A j \in 0..(k - 1) : sent[j] = 0 /\ got[j] = 0
  BY NothingBelow
<1>7. got \in [0..T -> Nat] /\ sent \in [0..T -> Nat] /\ sent2 \in [0..T -> Nat]
  BY DEF Pieces, Moves
<1>8. /\ got2 \in [0..T -> Nat] /\ \A j \in 0..T : j # k => got2[j] = got[j]
      /\ got2[k] = IF Does(1, "bytes") THEN sent[k] ELSE got[k]
      /\ \A j \in 0..T : j # k - 1 => sent2[j] = sent[j]
  BY <1>2, <1>7 DEF Moves
<1>9. sent2[T] = Len(said'.body)
  <2>1. T # k - 1 /\ T \in 0..T
    BY <1>2
  <2> QED  BY <1>4, <1>8, <2>1 DEF Pieces
<1>10. ASSUME NEW i \in 2..Len(calls)
       PROVE  /\ i \in DOMAIN calls /\ i + Len(c) - 1 \in DOMAIN calls'
              /\ calls'[i + Len(c) - 1] = calls[i]
  BY <1>1
<1>11. ASSUME NEW a \in 0..T
       PROVE  got2[a] = sent2[a] \/ \E i \in DOMAIN calls' : calls'[i].at = a /\ Does(i, "bytes")'
  <2>1. CASE a = k - 1
    <3>1. CASE \A i \in DOMAIN c : c[i].do # "bytes"
      BY <1>2, <1>6, <1>8, <2>1, <3>1 DEF Moves
    <3>2. CASE \E i \in DOMAIN c : c[i].do = "bytes"
      <4>1. PICK i \in DOMAIN c : c[i].do = "bytes"
        BY <3>2
      <4>2. i \in DOMAIN calls' /\ calls'[i].at = k - 1 /\ calls'[i].call = c[i]
        BY <1>1
      <4> QED  BY <2>1, <4>1, <4>2 DEF Does
    <3> QED  BY <3>1, <3>2
  <2>2. CASE a # k - 1
    <3>1. CASE a = k /\ Does(1, "bytes")
      BY <1>2, <1>8, <3>1
    <3>2. CASE ~(a = k /\ Does(1, "bytes"))
      <4>1. got2[a] = got[a] /\ sent2[a] = sent[a]
        BY <1>8, <2>2, <3>2
      <4>2. got[a] = sent[a] \/ \E i \in DOMAIN calls : calls[i].at = a /\ Does(i, "bytes")
        BY DEF Pieces
      <4>3. ASSUME NEW i \in DOMAIN calls, calls[i].at = a, Does(i, "bytes")
            PROVE  \E x \in DOMAIN calls' : calls'[x].at = a /\ Does(x, "bytes")'
        <5>1. i \in 2..Len(calls)
          BY <1>1, <1>4, <3>2, <4>3
        <5> DEFINE x == i + Len(c) - 1
        <5>2. x \in DOMAIN calls' /\ calls'[x] = calls[i]
          BY <1>10, <5>1
        <5> HIDE DEF x
        <5> QED  BY <4>3, <5>2 DEF Does
      <4> QED  BY <4>1, <4>2, <4>3
    <3> QED  BY <3>1, <3>2
  <2> QED  BY <2>1, <2>2
<1>12. ASSUME NEW i \in DOMAIN calls', NEW a \in 0..T, calls'[i].at = a, Does(i, "bytes")'
       PROVE  /\ got2[a] + Len(calls'[i].call.pieces) = sent2[a]
              /\ Numbered(calls'[i].call.pieces, got2[a], Gz(a)')
  <2>1. CASE i \in 1..Len(c)
    <3>1. a = k - 1 /\ calls'[i].call = c[i] /\ i \in DOMAIN c /\ c[i].do = "bytes"
      BY <1>1, <1>2, <1>12, <2>1 DEF Does
    <3>2. got2[k - 1] = sent[k - 1]
      BY <1>2, <1>6, <1>8
    <3>3. sent[k - 1] + Len(c[i].pieces) = sent2[k - 1] /\ Numbered(c[i].pieces, sent[k - 1], Gz(k - 1)')
      BY <3>1 DEF Moves
    <3> QED  BY <3>1, <3>2, <3>3
  <2>2. CASE i \in (Len(c) + 1)..Len(calls')
    <3> DEFINE o == i - Len(c) + 1
    <3>1. o \in DOMAIN calls /\ o > 1 /\ o \in Nat /\ calls'[i] = calls[o]
      BY <1>1, <2>2
    <3> HIDE DEF o
    <3>2. calls[o].at = a /\ Does(o, "bytes") /\ a \in k..T
      BY <1>2, <1>12, <3>1 DEF Does
    <3>3. got[a] + Len(calls[o].call.pieces) = sent[a] /\ Numbered(calls[o].call.pieces, got[a], Gz(a))
      BY <3>1, <3>2 DEF Pieces
    <3>4. ~(a = k /\ Does(1, "bytes"))
      <4> SUFFICES ASSUME a = k, Does(1, "bytes")
                  PROVE  FALSE
        OBVIOUS
      <4>1. 1 \in DOMAIN calls
        BY <1>1
      <4>2. Rank(calls[1].call.do) < Rank(calls[o].call.do)
        BY <1>4, <3>1, <3>2, <4>1 DEF InOrder
      <4> QED  BY <3>2, <4>2 DEF Does, Rank
    <3>5. got2[a] = got[a] /\ sent2[a] = sent[a]
      <4>1. a # k - 1
        BY <1>2, <3>2
      <4> QED  BY <1>8, <3>4, <4>1
    <3>6. Gz(a)' = Gz(a)
      BY <1>5, <3>2
    <3> QED  BY <3>1, <3>3, <3>5, <3>6
  <2> QED  BY <1>1, <2>1, <2>2
<1>13. ASSUME NEW a \in 1..T
       PROVE  /\ sent2[a - 1] + Len(Stored(a)') = got2[a]
              /\ Numbered(Stored(a)', sent2[a - 1], IF Works(a)' THEN 1 ELSE Gz(a)')
              /\ ~Told(a)' => sent2[a - 1] = 0
              /\ ~Compresses(a)' => writers'[a].bytes = IF Gz(a)' = 1 THEN got2[a] ELSE 2 * got2[a]
  <2>1. CASE a = k
    <3>1. Gz(k)' = Gz(k) /\ Compresses(k)' = Compresses(k)
      BY <1>2, <1>3, <1>5
    <3> QED  BY <2>1, <3>1 DEF Moves
  <2>2. CASE a # k
    <3>1. /\ sent2[a - 1] = sent[a - 1] /\ got2[a] = got[a] /\ a - 1 \in 0..T /\ a \in 0..T
          /\ sent[a - 1] \in Nat /\ got[a] \in Nat
      <4>1. a - 1 \in 0..T /\ a \in 0..T /\ a - 1 # k - 1
        BY <1>2, <2>2
      <4> QED  BY <1>7, <1>8, <2>2, <4>1
    <3>2. /\ sent[a - 1] + Len(Stored(a)) = got[a]
          /\ Numbered(Stored(a), sent[a - 1], IF Works(a) THEN 1 ELSE Gz(a))
          /\ ~Told(a) => sent[a - 1] = 0
          /\ ~Compresses(a) => writers[a].bytes = IF Gz(a) = 1 THEN got[a] ELSE 2 * got[a]
      BY DEF Pieces
    <3>3. /\ Stored(a)' = Stored(a) /\ Works(a)' = Works(a) /\ Told(a)' = Told(a)
          /\ Compresses(a)' = Compresses(a) /\ writers'[a] = writers[a]
      BY <1>3, <2>2, <3>1
    <3>4. CASE Gz(a)' = Gz(a)
      BY <3>1, <3>2, <3>3, <3>4
    <3>5. CASE ~Told(k) /\ Gz(a)' # Gz(a)
      <4>1. a \in 0..(k - 1)
        BY <1>2, <1>5, <2>2, <3>5
      <4>2. got[a] = 0
        BY <1>6, <3>5, <4>1
      <4>3. Len(Stored(a)) = 0 /\ Stored(a) \in Seq(Piece)
        <5>1. a \in 1..Len(writers)
          BY <1>2
        <5>2. Stored(a) \in Seq(Piece)
          BY <5>1, WriterTypes DEF Stored, ACompressor
        <5> QED  BY <3>1, <3>2, <4>2, <5>2
      <4>4. DOMAIN Stored(a) = {}
        BY <4>3
      <4>5. \A g : Numbered(Stored(a)', sent2[a - 1], g)
        BY <3>3, <4>4 DEF Numbered
      <4> QED  BY <3>1, <3>2, <3>3, <4>2, <4>5
    <3> QED  BY <1>5, <3>1, <3>4, <3>5
  <2> QED  BY <2>1, <2>2
<1>14. Len(wire'.body) = got2[0] /\ Numbered(wire'.body, 0, Gz(0)')
  <2>1. got2[0] = got[0] /\ 0 \in 0..T /\ 0 \in 0..(k - 1)
    BY <1>2, <1>8
  <2>2. Len(wire.body) = got[0] /\ Numbered(wire.body, 0, Gz(0))
    BY DEF Pieces
  <2>3. CASE Gz(0)' = Gz(0)
    BY <1>4, <2>1, <2>2, <2>3
  <2>4. CASE ~Told(k)
    <3>1. got[0] = 0 /\ wire.body \in Seq(Piece)
      BY <1>6, <2>1, <2>4 DEF PipeTypes
    <3>2. DOMAIN wire.body = {}
      BY <2>2, <3>1
    <3> QED  BY <1>4, <2>1, <2>2, <3>2 DEF Numbered
  <2> QED  BY <1>5, <2>1, <2>3, <2>4
<1> QED  BY <1>7, <1>8, <1>9, <1>11, <1>12, <1>13, <1>14 DEF Pieces

\* At most one compressor is at work after a call is passed on.
LEMMA PassCompressing ==
    ASSUME PipeTypes, NEW T, NEW k, NEW c, Passes(T, k, c), Live(T), InOrder(T), GoesDown(T), Compressing(T)
    PROVE  Compressing(T)'
<1>1. T \in Nat /\ k \in 1..T /\ T \in 0..Len(writers)
  BY Above
<1>2. /\ \A j \in 1..T : j # k => Works(j)' = Works(j) /\ Stored(j)' = Stored(j) /\ writers'[j] = writers[j]
      /\ \A j \in 1..T : Compresses(j)' = Compresses(j)
  BY <1>1, PlacesAfter, WriterTypes
<1>3. said' = said /\ HeadersStep(k) /\ Shape(k)'
  BY DEF Passes
<1>4. headers.encoding = "gzip" =>
          headers'.encoding = "gzip" /\ headers'.length \in {0, headers.length} /\ (headers.vary => headers'.vary)
  BY <1>3 DEF HeadersStep
<1>5. Works(k)' => Works(k) \/ (headers.encoding = "none" /\ headers'.encoding = "gzip"
                                /\ headers'.length = 0 /\ headers'.vary /\ said.status # 0)
  BY <1>3 DEF HeadersStep
<1>6. ASSUME NEW j \in 1..T, Compresses(j)'
      PROVE  /\ writers'[j].decided => writers'[j].buf = <<>>
             /\ ~writers'[j].on => writers'[j].held = <<>>
             /\ writers'[j].on => /\ writers'[j].decided /\ said'.status # 0
                                  /\ headers'.encoding = "gzip" /\ headers'.vary /\ headers'.length = 0
             /\ Stored(j)' # <<>> => said'.status # 0
  <2>1. CASE j # k
    BY <1>2, <1>3, <1>4, <1>6, <2>1 DEF Compressing
  <2>2. CASE j = k
    <3>1. /\ writers'[k].decided => writers'[k].buf = <<>>
          /\ ~writers'[k].on => writers'[k].held = <<>>
          /\ writers'[k].on => writers'[k].decided
          /\ Stored(k)' # <<>> => said'.status # 0
      BY <1>3, <1>6, <2>2 DEF Shape
    <3>2. writers'[k].on => Works(k)'
      BY <1>6, <2>2 DEF Works
    <3>3. Works(k) => said.status # 0 /\ headers.encoding = "gzip" /\ headers.vary /\ headers.length = 0
      BY <1>1 DEF Works, Compressing
    <3> QED  BY <1>3, <1>4, <1>5, <2>2, <3>1, <3>2, <3>3
  <2> QED  BY <2>1, <2>2
<1>7. ASSUME NEW j \in 1..T, NEW l \in 1..T, Works(j)', Works(l)'
      PROVE  j = l
  <2>1. \A m \in 1..T : Works(m) => headers.encoding = "gzip"
    BY DEF Compressing, Works
  <2>2. \A m \in 1..T : Works(m)' => Works(m) \/ (m = k /\ headers.encoding = "none")
    BY <1>2, <1>5
  <2>3. \A m, n \in 1..T : Works(m) /\ Works(n) => m = n
    BY DEF Compressing
  <2> QED  BY <1>7, <2>1, <2>2, <2>3
<1> QED  BY <1>6, <1>7 DEF Compressing

\* What was said is as compressed as before, or the headers vary.
LEMMA PassSaidIs ==
    ASSUME PipeTypes, NEW T, NEW k, NEW c, Passes(T, k, c), Live(T), InOrder(T), GoesDown(T), SaidIs(T)
    PROVE  SaidIs(T)'
<1>1. T \in Nat /\ k \in 1..T /\ T \in 0..Len(writers) /\ Len(writers) \in Nat
  BY Above, WriterTypes
<1>2. Len(writers') = Len(writers) /\ \A j \in 1..Len(writers) : Compresses(j)' = Compresses(j)
  BY <1>1, PlacesAfter
<1>3. said' = said /\ HeadersStep(k) /\ phase' = phase /\ panic' = panic
  BY DEF Passes
<1>4. /\ \A j \in k..T : Gz(j)' = Gz(j)
      /\ \A j \in 0..T : Gz(j)' = Gz(j) \/ headers'.vary
  BY GzAfter
<1>5. headers.vary => headers'.vary
  BY <1>3 DEF HeadersStep
<1>6. phase' = "leaving" /\ panic' # "none" /\ said'.status = 0 => headers'.encoding = "none"
  BY <1>3 DEF HeadersStep, SaidIs
<1>7. ASSUME NEW x \in DOMAIN said'.body
      PROVE  /\ said'.body[x].gz \in {0, 1}
             /\ \A j \in 0..T : said'.body[x].gz = Gz(j)' \/ headers'.vary
             /\ (\A j \in (T + 1)..Len(writers') : ~Compresses(j)') => said'.body[x].gz = Gz(T)'
  <2>1. /\ said.body[x].gz \in {0, 1}
        /\ \A j \in 0..T : said.body[x].gz = Gz(j) \/ headers.vary
        /\ (\A j \in (T + 1)..Len(writers) : ~Compresses(j)) => said.body[x].gz = Gz(T)
    BY <1>3, <1>7 DEF SaidIs
  <2>2. (\A j \in (T + 1)..Len(writers') : ~Compresses(j)') => \A j \in (T + 1)..Len(writers) : ~Compresses(j)
    BY <1>1, <1>2
  <2>3. Gz(T)' = Gz(T)
    BY <1>1, <1>4
  <2>4. \A j \in 0..T : said.body[x].gz = Gz(j)' \/ headers'.vary
    BY <1>4, <1>5, <2>1
  <2> QED  BY <1>3, <2>1, <2>2, <2>3, <2>4
<1>8. said'.status = 0 => said'.body = <<>> /\ ~said'.pushed
  BY <1>3 DEF SaidIs
<1> QED  BY <1>6, <1>7, <1>8 DEF SaidIs

\* A flush that is passed on stays below what was said before it.
LEMMA PassFlushes ==
    ASSUME PipeTypes, NEW T, NEW k, NEW c, Passes(T, k, c), Live(T), InOrder(T), GoesDown(T),
           NEW got, NEW sent, Pieces(T, got, sent), Flushes(T, sent),
           NEW got2, NEW sent2, Moves(T, got, sent, k, c, got2, sent2)
    PROVE  Flushes(T, sent2)'
<1>1. /\ Len(calls') = Len(c) + Len(calls) - 1 /\ DOMAIN calls' = 1..(Len(c) + Len(calls) - 1)
      /\ DOMAIN calls = 1..Len(calls) /\ DOMAIN c = 1..Len(c) /\ Len(c) \in Nat /\ Len(calls) \in Nat \ {0}
      /\ \A i \in 1..Len(c) : calls'[i].at = k - 1 /\ calls'[i].call = c[i]
      /\ \A i \in 2..Len(calls) : calls'[i + Len(c) - 1] = calls[i]
  BY CallsAfter
<1>2. T \in Nat /\ k \in 1..T /\ \A i \in DOMAIN calls : calls[i].at \in k..T
  BY Above
<1>3. said' = said /\ wire' = wire /\ phase' = phase /\ calls[1].at = k
  BY DEF Passes
<1>4. \A j \in 0..T : j # k - 1 => sent2[j] = sent[j]
  BY DEF Moves
<1> SUFFICES ASSUME phase = "handling", said.pushed, ~(wire.status # 0 /\ wire.seen >= said.flushed)
             PROVE  \E i \in DOMAIN calls' : Does(i, "flush")' /\ sent2[calls'[i].at] >= said.flushed
  BY <1>3 DEF Flushes
<1>5. PICK i \in DOMAIN calls : Does(i, "flush") /\ sent[calls[i].at] >= said.flushed
  BY DEF Flushes
<1>6. CASE i = 1
  <2>1. sent2[k - 1] = sent[k] /\ \E x \in DOMAIN c : c[x].do = "flush"
    BY <1>5, <1>6 DEF Moves
  <2>2. PICK x \in DOMAIN c : c[x].do = "flush"
    BY <2>1
  <2>3. x \in DOMAIN calls' /\ calls'[x].at = k - 1 /\ calls'[x].call = c[x]
    BY <1>1
  <2> QED  BY <1>3, <1>5, <1>6, <2>1, <2>2, <2>3 DEF Does
<1>7. CASE i # 1
  <2>1. i \in 2..Len(calls)
    BY <1>1, <1>7
  <2> DEFINE x == i + Len(c) - 1
  <2>2. x \in DOMAIN calls' /\ calls'[x] = calls[i]
    BY <1>1, <2>1
  <2> HIDE DEF x
  <2>3. calls[i].at \in k..T /\ calls[i].at # k - 1 /\ calls[i].at \in 0..T
    BY <1>2
  <2>4. sent2[calls'[x].at] >= said.flushed
    BY <1>4, <1>5, <2>2, <2>3
  <2> QED  BY <1>5, <2>2, <2>4 DEF Does
<1> QED  BY <1>6, <1>7

\* A call that a writer passes on keeps the flow.
LEMMA PassFlow ==
    ASSUME PipeTypes, NEW T, NEW k, NEW c, Passes(T, k, c), NEW got, NEW sent, Flow(T, got, sent),
           NEW got2, NEW sent2, Moves(T, got, sent, k, c, got2, sent2)
    PROVE  Flow(T, got2, sent2)'
<1>1. /\ Live(T) /\ InOrder(T) /\ GoesDown(T) /\ StatusIs(T) /\ Pieces(T, got, sent) /\ Compressing(T)
      /\ SaidIs(T) /\ Flushes(T, sent)
  BY DEF Flow
<1>2. Live(T)' /\ InOrder(T)' /\ GoesDown(T)'
  BY <1>1, PassLive, PassInOrder, PassGoesDown
<1>3. StatusIs(T)' /\ Compressing(T)' /\ SaidIs(T)'
  BY <1>1, PassStatusIs, PassCompressing, PassSaidIs
<1>4. Pieces(T, got2, sent2)' /\ Flushes(T, sent2)'
  BY <1>1, PassPieces, PassFlushes
<1> QED  BY <1>2, <1>3, <1>4 DEF Flow

-----------------------------------------------------------------------------
(* mw.Writer.                                                               *)

\* The size of a body whose pieces are all compressed, or all not.
LEMMA SizeIs ==
    ASSUME NEW p \in Seq(Piece), NEW g \in {0, 1}, \A x \in DOMAIN p : p[x].gz = g
    PROVE  Size(p) = (IF g = 1 THEN Len(p) ELSE 2 * Len(p)) /\ Len(p) \in Nat
<1>1. Len(p) \in Nat /\ DOMAIN p = 1..Len(p)
  OBVIOUS
<1>2. CASE g = 1
  <2>1. {i \in DOMAIN p : p[i].gz > 0} = 1..Len(p)
    BY <1>1, <1>2
  <2>2. Cardinality(1..Len(p)) = Len(p)
    <3> DEFINE n == Len(p)
    <3> HIDE DEF n
    <3>1. n \in Nat
      BY <1>1 DEF n
    <3>2. Cardinality(1..n) = IF 1 > n THEN 0 ELSE n - 1 + 1
      BY <3>1, FS_Interval
    <3>3. Cardinality(1..n) = n
      BY <3>1, <3>2
    <3> QED  BY <3>3 DEF n
  <2>3. Size(p) = 2 * Len(p) - Len(p)
    BY <2>1, <2>2 DEF Size
  <2> QED  BY <1>1, <1>2, <2>3
<1>3. CASE g = 0
  <2>1. {i \in DOMAIN p : p[i].gz > 0} = {}
    BY <1>3
  <2>2. Cardinality({}) = 0
    BY FS_EmptySet
  <2>3. Size(p) = 2 * Len(p) - 0
    BY <2>1, <2>2 DEF Size
  <2> QED  BY <1>1, <1>3, <2>3
<1> QED  BY <1>2, <1>3

\* What comes to a place is compressed once or not at all.
LEMMA GzTypes ==
    ASSUME NEW k
    PROVE  Gz(k) \in {0, 1}
BY DEF Gz

\* A place that does not compress leaves its pieces as they came.
LEMMA GzBelow ==
    ASSUME NEW k \in Nat \ {0}, ~Works(k)
    PROVE  Gz(k - 1) = Gz(k)
<1>1. 1..k = 1..(k - 1) \cup {k}
  OBVIOUS
<1>2. (\A j \in 1..k : ~Works(j)) <=> (\A j \in 1..(k - 1) : ~Works(j))
  BY <1>1
<1> QED  BY <1>2 DEF Gz

\* The call that is made next.
LEMMA HeadIs ==
    ASSUME PipeTypes, NEW T \in Nat, NEW got, NEW sent, Flow(T, got, sent),
           NEW k, calls # <<>>, calls[1].at = k
    PROVE  /\ k \in 0..T /\ T \in 0..Len(writers) /\ Len(writers) \in Nat /\ Next1 = calls[1]
           /\ calls[1].call \in Call /\ 1 \in DOMAIN calls
           /\ Does(1, "header") => calls[1].call.code = Want /\ ~Told(k)
           /\ Does(1, "bytes") \/ Does(1, "flush") => said.status # 0 /\ (Told(k) \/ Waits(k) \/ Want = 200)
           /\ ~Does(1, "header") /\ ~Does(1, "close") => (Waits(k) => writers[k].status = Want)
           /\ Does(1, "bytes") => /\ calls[1].call.pieces \in Seq(Piece)
                                  /\ got[k] + Len(calls[1].call.pieces) = sent[k]
                                  /\ Numbered(calls[1].call.pieces, got[k], Gz(k))
           /\ Does(1, "flush") => got[k] = sent[k]
<1>1. Live(T) /\ InOrder(T) /\ GoesDown(T) /\ StatusIs(T) /\ Pieces(T, got, sent)
  BY DEF Flow
<1>2. /\ 1 \in DOMAIN calls /\ calls[1].call \in Call /\ calls[1].at \in Nat
      /\ \A i \in DOMAIN calls : i \in Nat /\ i >= 1 /\ calls[i].call \in Call
  BY CallTypes
<1>3. T \in 0..Len(writers) /\ Len(writers) \in Nat
  BY <1>1, WriterTypes DEF Live
<1>4. k \in 0..T /\ Allowed(T, 1, k)
  BY <1>1, <1>2 DEF InOrder
<1>5. Next1 = calls[1]
  BY DEF PipeTypes, Next1
<1>6. Does(1, "header") => calls[1].call.code = Want /\ ~Told(k)
  BY <1>4 DEF Allowed
<1>7. Does(1, "bytes") \/ Does(1, "flush") => said.status # 0 /\ (Told(k) \/ Waits(k) \/ Want = 200)
  BY <1>4 DEF Allowed, HeaderComes, Does
<1>8. ASSUME ~Does(1, "header"), ~Does(1, "close"), Waits(k)
      PROVE  writers[k].status = Want
  <2>1. k \in 1..T
    BY <1>4, <1>8 DEF Waits
  <2>2. \A m \in (k + 1)..T : ~Waits(m)
    <3> SUFFICES ASSUME NEW m \in (k + 1)..T
                PROVE  ~Waits(m)
      OBVIOUS
    <3>1. m \in (k + 1)..(T + 1) /\ m # T + 1 /\ m # 0
      BY <1>3, <2>1
    <3>2. Tells(T, m)
      BY <1>4, <1>8, <3>1 DEF Allowed
    <3> QED  BY <3>1, <3>2 DEF Tells, Told, Waits
  <2> QED  BY <1>1, <1>8, <2>1, <2>2 DEF StatusIs, HeaderComes
<1>9. Does(1, "bytes") => /\ got[k] + Len(calls[1].call.pieces) = sent[k]
                          /\ Numbered(calls[1].call.pieces, got[k], Gz(k))
  BY <1>1, <1>2, <1>4 DEF Pieces
<1>10. Does(1, "bytes") => calls[1].call.pieces \in Seq(Piece)
  BY <1>2 DEF Does, Call
<1>11. Does(1, "flush") => got[k] = sent[k]
  <2> SUFFICES ASSUME Does(1, "flush"), NEW i \in DOMAIN calls, calls[i].at = k, Does(i, "bytes")
              PROVE  FALSE
    BY <1>1, <1>4 DEF Pieces
  <2>1. i # 1 /\ 1 < i
    BY <1>2 DEF Does
  <2>2. Rank(calls[1].call.do) < Rank(calls[i].call.do)
    BY <1>1, <1>2, <2>1 DEF InOrder
  <2> QED  BY <2>2 DEF Does, Rank
<1> QED  BY <1>2, <1>3, <1>4, <1>5, <1>6, <1>7, <1>8, <1>9, <1>10, <1>11

\* What a writer that remembers makes of its call.
Remembers(k, w, c) ==
    /\ w \in AWriter /\ w.wrote /\ w.status = Want
    /\ w.bytes = IF Does(1, "bytes") THEN writers[k].bytes + Size(calls[1].call.pieces) ELSE writers[k].bytes
    /\ \/ Told(k) /\ ~Does(1, "header") /\ c = <<calls[1].call>>
       \/ ~Told(k) /\ Does(1, "header") /\ c = <<calls[1].call>>
       \/ ~Told(k) /\ ~Does(1, "header") /\ Want = 200 /\ c = Status(200) \o <<calls[1].call>>

\* The calls a writer makes for one: itself, or a status first.
LEMMA RememberedCalls ==
    ASSUME NEW S, NEW x \in S, NEW y \in S
    PROVE  /\ <<x>> \in Seq(S) /\ Len(<<x>>) = 1 /\ <<x>>[1] = x /\ DOMAIN <<x>> = {1}
           /\ <<x>> \o <<y>> \in Seq(S) /\ Len(<<x>> \o <<y>>) = 2 /\ DOMAIN (<<x>> \o <<y>>) = {1, 2}
           /\ (<<x>> \o <<y>>)[1] = x /\ (<<x>> \o <<y>>)[2] = y
<1> DEFINE a == <<x>>
           b == <<y>>
<1>1. a \in Seq(S) /\ Len(a) = 1 /\ a[1] = x /\ DOMAIN a = {1} /\ b \in Seq(S) /\ Len(b) = 1 /\ b[1] = y
  OBVIOUS
<1> HIDE DEF a, b
<1>6. a \in Seq(S) /\ b \in Seq(S)
  BY <1>1
<1>7. /\ Len(a \o b) = Len(a) + Len(b) /\ DOMAIN (a \o b) = 1..(Len(a) + Len(b))
      /\ \A i \in 1..Len(a) : (a \o b)[i] = a[i]
      /\ \A i \in (Len(a) + 1)..(Len(a) + Len(b)) : (a \o b)[i] = b[i - Len(a)]
  BY ONLY <1>6, Joined
<1>8. a \o b \in Seq(S)
  BY ONLY <1>6
<1> DEFINE new == a \o b
<1> HIDE DEF new
<1>9. /\ Len(new) = 2 /\ DOMAIN new = 1..2
      /\ \A i \in 1..1 : new[i] = a[i]
      /\ \A i \in 2..2 : new[i] = b[i - 1]
  BY <1>1, <1>7 DEF new
<1>2. new \in Seq(S) /\ Len(new) = 2 /\ DOMAIN new = 1..2
  BY <1>8, <1>9 DEF new
<1>3. new[1] = x
  BY <1>1, <1>9
<1>4. new[2] = y
  <2>1. new[2] = b[2 - 1]
    BY <1>9
  <2> QED  BY <1>1, <2>1
<1>5. 1..2 = {1, 2}
  OBVIOUS
<1> QED  BY <1>1, <1>2, <1>3, <1>4, <1>5 DEF a, b, new

\* A writer that remembers passes on what came (mw.go Writer).
LEMMA Remembered ==
    ASSUME PipeTypes, NEW T \in Nat, NEW got, NEW sent, Flow(T, got, sent),
           NEW k \in 1..T, calls # <<>>, calls[1].at = k, ~Compresses(k), ~Does(1, "close"),
           NEW w, NEW c, Remembers(k, w, c),
           writers' = [writers EXCEPT ![k] = w], calls' = On(k - 1, c) \o Tail(calls),
           UNCHANGED <<chain, request, phase, layer, tops, said, wire, panic, headers>>
    PROVE  \E got2, sent2 \in [0..T -> Nat] : Flow(T, got2, sent2)'
<1>1. /\ T \in 0..Len(writers) /\ Len(writers) \in Nat /\ calls[1].call \in Call
      /\ Does(1, "header") => calls[1].call.code = Want /\ ~Told(k)
      /\ Does(1, "bytes") \/ Does(1, "flush") => said.status # 0
      /\ Does(1, "bytes") => /\ calls[1].call.pieces \in Seq(Piece)
                             /\ got[k] + Len(calls[1].call.pieces) = sent[k]
                             /\ Numbered(calls[1].call.pieces, got[k], Gz(k))
      /\ Does(1, "flush") => got[k] = sent[k]
  BY HeadIs
<1>2. Live(T) /\ InOrder(T) /\ GoesDown(T) /\ Pieces(T, got, sent)
  BY DEF Flow
<1>3. /\ w \in AWriter /\ w.wrote /\ w.status = Want
      /\ w.bytes = IF Does(1, "bytes") THEN writers[k].bytes + Size(calls[1].call.pieces) ELSE writers[k].bytes
      /\ \/ Told(k) /\ ~Does(1, "header") /\ c = <<calls[1].call>>
         \/ ~Told(k) /\ Does(1, "header") /\ c = <<calls[1].call>>
         \/ ~Told(k) /\ ~Does(1, "header") /\ Want = 200 /\ c = Status(200) \o <<calls[1].call>>
  BY DEF Remembers
<1>4. /\ writers[k] \in AWriter /\ writers[k].kind = "writer" /\ w.kind = "writer"
      /\ writers'[k] = w
  <2>1. k \in DOMAIN writers /\ k \in 1..Len(writers) /\ writers[k] \in AWriter
    BY <1>1, WriterTypes
  <2>2. writers'[k] = w
    BY <2>1
  <2> QED  BY <1>3, <2>1, <2>2 DEF AWriter
<1>5. /\ ~Compresses(k)' /\ Told(k)' /\ ~Waits(k) /\ ~Waits(k)' /\ ~Works(k) /\ ~Works(k)'
      /\ Stored(k) = <<>> /\ Stored(k)' = <<>>
  <2>1. ~Compresses(k)'
    BY <1>4 DEF Compresses
  <2>2. Told(k)'
    BY <1>3, <1>4, <2>1 DEF Told
  <2> QED  BY <2>1, <2>2 DEF Waits, Works, Stored
<1>6. calls[1].call.do \in {"header", "bytes", "flush"}
  BY <1>1 DEF Call, Does
<1>7. /\ c \in Seq(Call) /\ DOMAIN c = 1..Len(c) /\ Len(c) \in {1, 2}
      /\ c[Len(c)] = calls[1].call
      /\ Len(c) = 1 => (Told(k) /\ ~Does(1, "header")) \/ (~Told(k) /\ Does(1, "header"))
      /\ Len(c) = 2 => ~Told(k) /\ ~Does(1, "header") /\ c[1].do = "header" /\ c[1].code = 200 /\ Want = 200
  <2> DEFINE x == [do |-> "header", code |-> 200]
             y == calls[1].call
  <2>1. x \in Call /\ y \in Call /\ x.do = "header" /\ x.code = 200
    BY <1>1 DEF Call
  <2>2. Status(200) = <<x>>
    BY DEF Status
  <2> HIDE DEF x, y
  <2>3. /\ <<y>> \in Seq(Call) /\ Len(<<y>>) = 1 /\ <<y>>[1] = y /\ DOMAIN <<y>> = {1}
        /\ <<x>> \o <<y>> \in Seq(Call) /\ Len(<<x>> \o <<y>>) = 2 /\ DOMAIN (<<x>> \o <<y>>) = {1, 2}
        /\ (<<x>> \o <<y>>)[1] = x /\ (<<x>> \o <<y>>)[2] = y
    BY ONLY <2>1, RememberedCalls
  <2>4. 1..1 = {1} /\ 1..2 = {1, 2}
    OBVIOUS
  <2>5. CASE c = <<y>> /\ ((Told(k) /\ ~Does(1, "header")) \/ (~Told(k) /\ Does(1, "header")))
    <3>1. c \in Seq(Call) /\ Len(c) = 1 /\ c[1] = y /\ DOMAIN c = 1..1
      BY ONLY <2>3, <2>4, <2>5
    <3> QED  BY <2>5, <3>1 DEF y
  <2>6. CASE c = <<x>> \o <<y>> /\ ~Told(k) /\ ~Does(1, "header") /\ Want = 200
    <3>1. c \in Seq(Call) /\ Len(c) = 2 /\ c[1] = x /\ c[2] = y /\ DOMAIN c = 1..2
      BY ONLY <2>3, <2>4, <2>6
    <3> QED  BY <2>1, <2>6, <3>1 DEF y
  <2>7. \/ c = <<y>> /\ ((Told(k) /\ ~Does(1, "header")) \/ (~Told(k) /\ Does(1, "header")))
        \/ c = <<x>> \o <<y>> /\ ~Told(k) /\ ~Does(1, "header") /\ Want = 200
    <3>1. \/ c = <<calls[1].call>> /\ ((Told(k) /\ ~Does(1, "header")) \/ (~Told(k) /\ Does(1, "header")))
          \/ c = Status(200) \o <<calls[1].call>> /\ ~Told(k) /\ ~Does(1, "header") /\ Want = 200
      BY ONLY <1>3
    <3>2. Status(200) \o <<calls[1].call>> = <<x>> \o <<y>>
      BY ONLY <2>2 DEF y
    <3> QED  BY ONLY <3>1, <3>2 DEF y
  <2> QED  BY <2>5, <2>6, <2>7
<1>8. \A i \in DOMAIN c : \/ i = Len(c) /\ c[i] = calls[1].call
                          \/ i = 1 /\ Len(c) = 2 /\ c[i].do = "header" /\ c[i].code = 200
  <2> SUFFICES ASSUME NEW i \in DOMAIN c
              PROVE  \/ i = Len(c) /\ c[i] = calls[1].call
                     \/ i = 1 /\ Len(c) = 2 /\ c[i].do = "header" /\ c[i].code = 200
    OBVIOUS
  <2>1. i = Len(c) \/ (i = 1 /\ Len(c) = 2)
    <3>1. i \in 1..Len(c) /\ Len(c) \in {1, 2}
      BY ONLY <1>7
    <3>2. \A n \in {1, 2} : \A j \in 1..n : j = n \/ (j = 1 /\ n = 2)
      OBVIOUS
    <3> QED  BY ONLY <3>1, <3>2
  <2> QED  BY <1>7, <2>1
<1>9. Emission(k, c)
  <2>1. \A i \in DOMAIN c :
          /\ c[i].do \in {"header", "bytes", "flush"}
          /\ c[i].do = "header" => i = 1 /\ c[i].code = Want /\ ~Told(k)
          /\ c[i].do \in {"bytes", "flush"} => said.status # 0 /\ (Told(k) \/ c[1].do = "header")
    BY <1>1, <1>6, <1>7, <1>8 DEF Does
  <2>2. \A i, j \in DOMAIN c : i < j => Rank(c[i].do) < Rank(c[j].do)
    <3> SUFFICES ASSUME NEW i \in DOMAIN c, NEW j \in DOMAIN c, i < j
                PROVE  Rank(c[i].do) < Rank(c[j].do)
      OBVIOUS
    <3>1. Len(c) = 2 /\ i = 1 /\ j = 2
      BY <1>7
    <3>2. c[1].do = "header" /\ c[2].do \in {"bytes", "flush"}
      BY <1>6, <1>7, <3>1 DEF Does
    <3> QED  BY <3>1, <3>2 DEF Rank
  <2>3. c # <<>>
    BY <1>7
  <2> QED  BY <1>5, <1>7, <2>1, <2>2, <2>3 DEF Emission
<1>10. HeadersStep(k)
  BY <1>5 DEF HeadersStep
<1>11. Shape(k)'
  <2>1. Want' = Want
    BY DEF Want
  <2> QED  BY <1>3, <1>4, <1>5, <2>1 DEF Shape
<1>12. Passes(T, k, c)
  BY <1>4, <1>9, <1>10, <1>11 DEF Passes
<1>23. PICK got2, sent2 : /\ got2 = [got EXCEPT ![k] = IF Does(1, "bytes") THEN sent[k] ELSE got[k]]
                          /\ sent2 = [sent EXCEPT ![k - 1] = IF Does(1, "bytes") THEN sent[k] ELSE got[k]]
  OBVIOUS
<1>13. /\ got \in [0..T -> Nat] /\ sent \in [0..T -> Nat]
       /\ k \in 0..T /\ k - 1 \in 0..T /\ k \in Nat \ {0}
  BY <1>2 DEF Pieces
<1>14. /\ got2 \in [0..T -> Nat] /\ sent2 \in [0..T -> Nat]
       /\ got2[k] = IF Does(1, "bytes") THEN sent[k] ELSE got[k]
       /\ sent2[k - 1] = got2[k]
       /\ \A j \in 0..T : j # k - 1 => sent2[j] = sent[j]
  BY <1>13, <1>23
<1>15. /\ sent[k - 1] = got[k] /\ got[k] \in Nat
       /\ writers[k].bytes = IF Gz(k) = 1 THEN got[k] ELSE 2 * got[k]
  <2>1. /\ sent[k - 1] + Len(Stored(k)) = got[k]
        /\ ~Compresses(k) => writers[k].bytes = IF Gz(k) = 1 THEN got[k] ELSE 2 * got[k]
    BY <1>2 DEF Pieces
  <2>2. sent[k - 1] \in Nat /\ got[k] \in Nat
    BY <1>13
  <2> QED  BY <1>5, <2>1, <2>2
<1>16. Gz(k - 1) = Gz(k) /\ Gz(k - 1)' = Gz(k)
  <2>1. Gz(k)' = Gz(k)
    BY <1>2, <1>12, <1>13, GzAfter
  <2>2. Gz(k - 1)' = Gz(k)'
    <3>1. 1..k = 1..(k - 1) \cup {k}
      BY <1>13
    <3>2. (\A j \in 1..k : ~Works(j)') <=> (\A j \in 1..(k - 1) : ~Works(j)')
      BY <1>5, <3>1
    <3> QED  BY <3>2 DEF Gz
  <2> QED  BY <1>5, <1>13, <2>1, <2>2, GzBelow
<1>17. (\A i \in DOMAIN c : c[i].do # "bytes") => sent2[k - 1] = sent[k - 1]
  <2>1. ASSUME \A i \in DOMAIN c : c[i].do # "bytes"
        PROVE  ~Does(1, "bytes")
    <3>1. Len(c) \in DOMAIN c /\ c[Len(c)] = calls[1].call
      BY <1>7
    <3> QED  BY <2>1, <3>1 DEF Does
  <2> QED  BY <1>14, <1>15, <2>1
<1>18. \A i \in DOMAIN c : c[i].do = "bytes" => /\ sent[k - 1] + Len(c[i].pieces) = sent2[k - 1]
                                                /\ Numbered(c[i].pieces, sent[k - 1], Gz(k - 1)')
  <2> SUFFICES ASSUME NEW i \in DOMAIN c, c[i].do = "bytes"
              PROVE  /\ sent[k - 1] + Len(c[i].pieces) = sent2[k - 1]
                     /\ Numbered(c[i].pieces, sent[k - 1], Gz(k - 1)')
    OBVIOUS
  <2>1. c[i] = calls[1].call /\ Does(1, "bytes")
    BY <1>8 DEF Does
  <2> QED  BY <1>1, <1>14, <1>15, <1>16, <2>1
<1>19. ~Compresses(k) => writers'[k].bytes = IF Gz(k) = 1 THEN got2[k] ELSE 2 * got2[k]
  <2>1. CASE Does(1, "bytes")
    <3> DEFINE p == calls[1].call.pieces
    <3>1. p \in Seq(Piece) /\ got[k] + Len(p) = sent[k] /\ \A x \in DOMAIN p : p[x].gz = Gz(k)
      BY <1>1, <2>1 DEF Numbered
    <3>2. Size(p) = (IF Gz(k) = 1 THEN Len(p) ELSE 2 * Len(p)) /\ Len(p) \in Nat
      BY <3>1, SizeIs, GzTypes
    <3>3. writers'[k].bytes = writers[k].bytes + Size(p) /\ got2[k] = sent[k]
      BY <1>3, <1>4, <1>14, <2>1
    <3> QED  BY <1>15, <3>1, <3>2, <3>3
  <2>2. CASE ~Does(1, "bytes")
    BY <1>3, <1>4, <1>14, <1>15, <2>2
  <2> QED  BY <2>1, <2>2
<1>20. Does(1, "flush") => sent2[k - 1] = sent[k] /\ \E i \in DOMAIN c : c[i].do = "flush"
  <2> SUFFICES ASSUME Does(1, "flush")
              PROVE  sent2[k - 1] = sent[k] /\ \E i \in DOMAIN c : c[i].do = "flush"
    OBVIOUS
  <2>1. ~Does(1, "bytes")
    BY DEF Does
  <2>2. Len(c) \in DOMAIN c /\ c[Len(c)].do = "flush"
    BY <1>7 DEF Does
  <2> QED  BY <1>1, <1>14, <2>1, <2>2
<1>21. Moves(T, got, sent, k, c, got2, sent2)
  <2>1. sent2[k - 1] + Len(Stored(k)') = got2[k] /\ Numbered(Stored(k)', sent2[k - 1], IF Works(k)' THEN 1 ELSE Gz(k))
    <3>1. got2[k] \in Nat
      BY <1>13, <1>14
    <3> QED  BY <1>5, <1>14, <3>1 DEF Numbered
  <2> QED  BY <1>5, <1>14, <1>17, <1>18, <1>19, <1>20, <2>1, <1>23 DEF Moves
<1>22. Flow(T, got2, sent2)'
  BY <1>12, <1>21, PassFlow
<1> QED  BY <1>14, <1>22

\* A call that is passed on keeps the types.
LEMMA ForwardTypes ==
    ASSUME PipeTypes, calls # <<>>, NEW k \in 1..Len(writers), NEW w \in AWriter \cup ACompressor,
           NEW c \in Seq(Call), writers' = [writers EXCEPT ![k] = w], calls' = On(k - 1, c) \o Tail(calls),
           DOMAIN headers' = {"type", "length", "encoding", "vary", "id"}, headers'.length \in Nat,
           headers'.encoding \in {"none", "gzip"}, headers'.vary \in BOOLEAN,
           UNCHANGED <<chain, request, phase, layer, tops, said, wire, panic, log>>
    PROVE  PipeTypes'
<1> DEFINE A == AWriter \cup ACompressor
           S == [at : Nat, call : Call]
<1>1. writers' \in Seq(A)
  <2>1. writers \in Seq(A) /\ w \in A
    BY DEF PipeTypes
  <2> HIDE DEF A
  <2> QED  BY <2>1
<1>2. calls' \in Seq(S)
  <2>1. calls \in Seq(S) /\ k - 1 \in Nat
    BY DEF PipeTypes
  <2> DEFINE new == On(k - 1, c)
             old == Tail(calls)
  <2>2. new \in Seq(S)
    BY <2>1 DEF On
  <2>3. old \in Seq(S)
    BY <2>1
  <2> HIDE DEF S, new, old
  <2>4. new \o old \in Seq(S)
    BY ONLY <2>2, <2>3
  <2> QED  BY <2>4 DEF new, old
<1> QED  BY <1>1, <1>2 DEF PipeTypes

\* What else is so during the calls.
Around == Places /\ Scripted /\ Promised /\ Reports /\ Recovered /\ Guarded

\* A call on a writer keeps what is known around it.
LEMMA CallKeeps ==
    ASSUME PipeTypes, Around, calls # <<>>, Len(writers') = Len(writers),
           \A k \in 1..Len(writers) : Compresses(k)' = Compresses(k),
           phase = "handling" => Gz(Len(writers))' = Gz(Len(writers)),
           headers'.id = headers.id,
           \/ headers'.encoding = headers.encoding /\ headers'.length = headers.length
           \/ headers'.encoding = "gzip" /\ headers'.length = 0 /\ said.status # 0,
           UNCHANGED <<chain, request, phase, layer, tops, script, said, panic, ctxID, log, span>>
    PROVE  Around'
<1>1. Places'
  <2>0. Places
    BY DEF Around
  <2>1. \A i \in DOMAIN tops : tops[i] \in 0..Len(writers)
    BY <2>0 DEF Places
  <2>2. Len(writers) \in Nat
    BY WriterTypes
  <2>3. /\ chain \in Seq(Layers)
        /\ phase = "entering" => layer \in 1..(Len(chain) + 1) /\ Len(tops) = layer - 1
        /\ phase = "handling" => layer = Len(chain) /\ Len(tops) = layer
        /\ layer <= Len(tops) + 1 /\ Len(tops) <= Len(chain)
        /\ phase = "leaving" => layer <= Len(tops)
        /\ phase = "done" => layer = 0
        /\ panic # "none" => phase \in {"leaving", "done"} /\ Len(tops) = Len(chain)
        /\ \A i, j \in DOMAIN tops : i < j =>
              /\ tops[i] <= tops[j]
              /\ chain[j] = "compress" /\ request.gzip => tops[i] < tops[j]
    BY <2>0 DEF Places
  <2>4. \A i \in DOMAIN tops :
          /\ tops[i] \in 0..Len(writers)
          /\ chain[i] \in {"log", "recover", "only", "except"} => tops[i] >= 1 /\ ~Compresses(tops[i])'
          /\ chain[i] = "compress" /\ request.gzip => tops[i] >= 1 /\ Compresses(tops[i])'
    <3> SUFFICES ASSUME NEW i \in DOMAIN tops
                PROVE  /\ tops[i] \in 0..Len(writers)
                       /\ chain[i] \in {"log", "recover", "only", "except"} => tops[i] >= 1 /\ ~Compresses(tops[i])'
                       /\ chain[i] = "compress" /\ request.gzip => tops[i] >= 1 /\ Compresses(tops[i])'
      OBVIOUS
    <3>1. PICK k : k = tops[i]
      OBVIOUS
    <3>2. /\ k \in 0..Len(writers)
          /\ chain[i] \in {"log", "recover", "only", "except"} => k >= 1 /\ ~Compresses(k)
          /\ chain[i] = "compress" /\ request.gzip => k >= 1 /\ Compresses(k)
      BY <2>0, <3>1 DEF Places
    <3>3. k >= 1 => Compresses(k)' = Compresses(k)
      BY <2>2, <3>2
    <3>4. /\ k \in 0..Len(writers)
          /\ chain[i] \in {"log", "recover", "only", "except"} => k >= 1 /\ ~Compresses(k)'
          /\ chain[i] = "compress" /\ request.gzip => k >= 1 /\ Compresses(k)'
      BY <3>2, <3>3
    <3>5. tops' = tops
      OBVIOUS
    <3> QED  BY <3>1, <3>4, <3>5 DEF Compresses
  <2>5. \A k \in 1..Len(writers) : Compresses(k)' =>
          request.gzip /\ \E i \in DOMAIN tops : chain[i] = "compress" /\ tops[i] = k
    BY <2>0 DEF Places
  <2> QED  BY <2>3, <2>4, <2>5 DEF Places
<1>2. Scripted'
  <2>0. Scripted
    BY DEF Around
  <2> SUFFICES ASSUME phase = "handling"
              PROVE  /\ Tidy(script)
                     /\ Follows(script, headers'.length, Gz(Len(writers))' = 1)
                     /\ headers'.length # 0 /\ script # <<>> => said.body = <<>>
                     /\ said.status # 0 => \A i \in DOMAIN script : script[i].do \notin {"set", "header"}
                     /\ headers'.encoding = "gzip" /\ said.status = 0 => \A i \in DOMAIN script : script[i].do # "app"
    BY DEF Scripted, Tidy, Follows, Sets, Gz, Works, Compresses
  <2>1. /\ Tidy(script) /\ Follows(script, headers.length, Gz(Len(writers)) = 1)
        /\ headers.length # 0 /\ script # <<>> => said.body = <<>>
        /\ said.status # 0 => \A i \in DOMAIN script : script[i].do \notin {"set", "header"}
        /\ headers.encoding = "gzip" /\ said.status = 0 => \A i \in DOMAIN script : script[i].do # "app"
    BY <2>0 DEF Scripted
  <2>2. Follows(script, headers'.length, Gz(Len(writers))' = 1)
    BY <2>1 DEF Follows
  <2> QED  BY <2>1, <2>2
<1>3. Promised'
  BY DEF Around, Promised
<1>4. Reports'
  <2>0. Reports
    BY DEF Around
  <2>1. Want' = Want /\ LogIsInside' = LogIsInside /\ Size(said.body)' = Size(said.body)
    BY DEF Want, LogIsInside, Size
  <2>2. log.status # 0 => \A i \in DOMAIN chain :
              ~(/\ chain[i] = "log" /\ i > layer
                /\ request.gzip => \A j \in 1..(i - 1) : chain[j] # "compress")
    BY <2>0 DEF Reports
  <2>3. headers'.id = ctxID' /\ log.id \in {"", ctxID}
    BY <2>0 DEF Reports
  <2>4. log.status # 0 => /\ phase \in {"leaving", "done"} /\ panic = "none" /\ log.status = Want
                          /\ LogIsInside => log.bytes = Size(said.body)
    BY <2>0 DEF Reports
  <2>5. /\ span.state = "open" => /\ phase = "leaving" /\ panic = "none" /\ layer \in DOMAIN chain
                                  /\ chain[layer] \in {"only", "except"}
        /\ span.status # 0 => phase \in {"leaving", "done"} /\ panic = "none" /\ span.status = Want
    BY <2>0 DEF Reports
  <2> QED  BY <2>1, <2>2, <2>3, <2>4, <2>5 DEF Reports
<1>5. Recovered' /\ Guarded'
  BY DEF Around, Recovered, Guarded, LetThrough, Applies
<1> QED  BY <1>1, <1>2, <1>3, <1>4, <1>5 DEF Around

\* A writer that has sent its status.
LEMMA SentStatus ==
    ASSUME NEW o \in AWriter, NEW new \in Nat
    PROVE  LET w == [o EXCEPT !.wrote = TRUE, !.status = new]
           IN w \in AWriter /\ w.wrote /\ w.status = new /\ w.bytes = o.bytes
<1> DEFINE w == [o EXCEPT !.wrote = TRUE, !.status = new]
<1>1. w \in AWriter
  BY DEF AWriter
<1>2. w.wrote /\ w.status = new /\ w.bytes = o.bytes
  BY DEF AWriter
<1> QED  BY <1>1, <1>2

\* A writer that has counted bytes.
LEMMA CountedBytes ==
    ASSUME NEW o \in AWriter, NEW n \in Nat
    PROVE  LET w == [o EXCEPT !.bytes = @ + n]
           IN w \in AWriter /\ w.wrote = o.wrote /\ w.status = o.status /\ w.bytes = o.bytes + n
<1> DEFINE w == [o EXCEPT !.bytes = @ + n]
<1>1. w \in AWriter
  BY DEF AWriter
<1>2. w.wrote = o.wrote /\ w.status = o.status /\ w.bytes = o.bytes + n
  BY DEF AWriter
<1> QED  BY <1>1, <1>2

\* What the actions of mw.Writer come to.
LEMMA WriterActs ==
    ASSUME PipeTypes, Around, NEW T \in Nat, NEW got, NEW sent, Flow(T, got, sent),
           WriterHeader \/ WriterWrite \/ WriterFlush
    PROVE  PipeTypes' /\ Around' /\ \E got2, sent2 \in [0..T -> Nat] : Flow(T, got2, sent2)'
<1>1. calls # <<>> /\ Next1 = calls[1]
  BY DEF WriterHeader, WriterWrite, WriterFlush, Is, PipeTypes, Next1
<1>2. PICK k : k = calls[1].at
  OBVIOUS
<1>3. /\ k \in 0..T /\ T \in 0..Len(writers) /\ Len(writers) \in Nat
      /\ calls[1].call \in Call /\ 1 \in DOMAIN calls
      /\ Does(1, "header") => calls[1].call.code = Want /\ ~Told(k)
      /\ Does(1, "bytes") \/ Does(1, "flush") => said.status # 0 /\ (Told(k) \/ Waits(k) \/ Want = 200)
      /\ Does(1, "bytes") => /\ calls[1].call.pieces \in Seq(Piece)
                             /\ got[k] + Len(calls[1].call.pieces) = sent[k]
                             /\ Numbered(calls[1].call.pieces, got[k], Gz(k))
  BY <1>1, <1>2, HeadIs
<1>4. /\ k > 0 /\ writers[k].kind = "writer"
      /\ Does(1, "header") \/ Does(1, "bytes") \/ Does(1, "flush")
      /\ WriterHeader => Does(1, "header")
      /\ WriterWrite => Does(1, "bytes")
      /\ WriterFlush => Does(1, "flush")
  BY <1>1, <1>2 DEF WriterHeader, WriterWrite, WriterFlush, Is, Does
<1>5. /\ k \in 1..T /\ k \in 1..Len(writers) /\ ~Compresses(k) /\ writers[k] \in AWriter /\ ~Waits(k)
      /\ (Told(k) <=> writers[k].wrote) /\ writers[k].wrote \in BOOLEAN
      /\ Does(1, "header") \/ Does(1, "bytes") \/ Does(1, "flush")
  <2>1. k \in 1..T /\ k \in 1..Len(writers)
    BY <1>3, <1>4
  <2>2. ~Compresses(k) /\ ~Waits(k) /\ (Told(k) <=> writers[k].wrote)
    BY <1>4, <2>1 DEF Compresses, Waits, Told
  <2>3. writers[k] \in AWriter
    BY <2>1, <2>2, WriterTypes
  <2> QED  BY <1>4, <2>1, <2>2, <2>3 DEF AWriter
<1>6. /\ ~Does(1, "close") /\ (Does(1, "header") => ~Does(1, "bytes")) /\ (Does(1, "flush") => ~Does(1, "bytes") /\ ~Does(1, "header"))
      /\ (Does(1, "bytes") => ~Does(1, "header"))
  BY <1>4 DEF Does
<1>7. writers[k].wrote => writers[k].status = Want
  <2>1. \A j \in 1..T : ~Compresses(j) => writers[j].status = IF writers[j].wrote THEN Want ELSE 200
    BY DEF Flow, StatusIs
  <2> QED  BY <1>5, <2>1
<1>8. Want \in Nat
  BY DEF Want, PipeTypes
<1>9. Does(1, "bytes") => Size(calls[1].call.pieces) \in Nat
  <2> SUFFICES ASSUME Does(1, "bytes")
              PROVE  Size(calls[1].call.pieces) \in Nat
    OBVIOUS
  <2> DEFINE p == calls[1].call.pieces
  <2>1. p \in Seq(Piece) /\ \A x \in DOMAIN p : p[x].gz = Gz(k)
    BY <1>3 DEF Numbered
  <2>2. Size(p) = (IF Gz(k) = 1 THEN Len(p) ELSE 2 * Len(p)) /\ Len(p) \in Nat
    BY <2>1, SizeIs, GzTypes
  <2> QED  BY <2>2
<1>10. \E w, c : /\ Remembers(k, w, c)
                 /\ writers' = [writers EXCEPT ![k] = w] /\ calls' = On(k - 1, c) \o Tail(calls)
  <2> DEFINE o == writers[k]
             x == calls[1].call
  <2>1. o \in AWriter /\ o.bytes \in Nat
    BY <1>5 DEF AWriter
  <2> DEFINE Good(w, c) ==
               /\ w \in AWriter /\ w.wrote /\ w.status = Want
               /\ w.bytes = IF Does(1, "bytes") THEN o.bytes + Size(x.pieces) ELSE o.bytes
               /\ \/ Told(k) /\ ~Does(1, "header") /\ c = <<x>>
                  \/ ~Told(k) /\ Does(1, "header") /\ c = <<x>>
                  \/ ~Told(k) /\ ~Does(1, "header") /\ Want = 200 /\ c = Status(200) \o <<x>>
  <2> SUFFICES \E w, c : Good(w, c) /\ Forward(w, c)
    BY <1>1, <1>2 DEF Remembers, Forward
  <2>2. CASE WriterHeader
    <3> DEFINE w == [o EXCEPT !.wrote = TRUE, !.status = x.code]
    <3>1. ~o.wrote /\ x.code = Want /\ Does(1, "header") /\ ~Does(1, "bytes") /\ ~Told(k)
      BY <1>3, <1>4, <1>5, <1>6, <2>2
    <3>2. Forward(w, <<x>>)
      BY <1>1, <1>2, <2>2, <3>1 DEF WriterHeader
    <3>3. w \in AWriter /\ w.wrote /\ w.status = Want /\ w.bytes = o.bytes
      BY <1>8, <2>1, <3>1, SentStatus
    <3> HIDE DEF w
    <3>4. Good(w, <<x>>)
      BY <3>1, <3>3
    <3> QED  BY <3>2, <3>4
  <2>3. CASE WriterWrite
    <3>0. Does(1, "bytes") /\ ~Does(1, "header") /\ (~o.wrote => Want = 200) /\ (Told(k) <=> o.wrote)
      BY <1>3, <1>4, <1>5, <1>6, <2>3
    <3> DEFINE d == [o EXCEPT !.bytes = @ + Size(x.pieces)]
    <3>1. d \in AWriter /\ d.wrote = o.wrote /\ d.status = o.status /\ d.bytes = o.bytes + Size(x.pieces)
      BY <1>9, <2>1, <3>0, CountedBytes
    <3>2. IF o.wrote THEN Forward(d, <<x>>)
          ELSE Forward([d EXCEPT !.wrote = TRUE, !.status = 200], Status(200) \o <<x>>)
      BY <1>1, <1>2, <2>3 DEF WriterWrite
    <3> HIDE DEF d
    <3>3. CASE o.wrote
      <4>1. Good(d, <<x>>)
        BY <1>7, <3>0, <3>1, <3>3
      <4> QED  BY <3>2, <3>3, <4>1
    <3>4. CASE ~o.wrote
      <4> DEFINE w == [d EXCEPT !.wrote = TRUE, !.status = 200]
                 c == Status(200) \o <<x>>
      <4>1. w \in AWriter /\ w.wrote /\ w.status = 200 /\ w.bytes = d.bytes
        <5>1. d \in AWriter /\ 200 \in Nat
          BY <3>1
        <5>2. LET u == [d EXCEPT !.wrote = TRUE, !.status = 200]
              IN u \in AWriter /\ u.wrote /\ u.status = 200 /\ u.bytes = d.bytes
          BY ONLY <5>1, SentStatus
        <5> QED  BY ONLY <5>2, Zenon
      <4>2. Forward(w, c)
        BY <3>2, <3>4
      <4> HIDE DEF w
      <4>3. Good(w, c)
        <5>1. ~Told(k) /\ ~Does(1, "header") /\ Want = 200 /\ c = Status(200) \o <<x>> /\ Does(1, "bytes")
          BY <3>0, <3>4
        <5>2. w \in AWriter /\ w.wrote /\ w.status = Want /\ w.bytes = o.bytes + Size(x.pieces)
          BY <3>1, <4>1, <5>1
        <5>3. w.bytes = IF Does(1, "bytes") THEN o.bytes + Size(x.pieces) ELSE o.bytes
          BY ONLY <5>1, <5>2
        <5> QED  BY ONLY <5>1, <5>2, <5>3, Zenon
      <4> HIDE DEF Good, o, x, c
      <4> QED  BY ONLY <4>2, <4>3, Zenon
    <3> QED  BY <3>3, <3>4
  <2>4. CASE WriterFlush
    <3>0. /\ Does(1, "flush") /\ ~Does(1, "header") /\ ~Does(1, "bytes")
          /\ (~o.wrote => Want = 200) /\ (Told(k) <=> o.wrote)
      BY <1>3, <1>4, <1>5, <1>6, <2>4
    <3>1. x = [do |-> "flush"] /\ Flush = <<x>>
      BY <1>3, <3>0 DEF Call, Does, Flush
    <3>2. IF o.wrote THEN Forward(o, <<x>>)
          ELSE Forward([o EXCEPT !.wrote = TRUE, !.status = 200], Status(200) \o <<x>>)
      BY <1>1, <1>2, <2>4, <3>1 DEF WriterFlush
    <3>3. CASE o.wrote
      <4>1. Good(o, <<x>>)
        BY <1>7, <2>1, <3>0, <3>3
      <4>2. Forward(o, <<x>>)
        BY <3>2, <3>3
      <4> HIDE DEF o, Good, x
      <4> QED  BY <4>1, <4>2
    <3>4. CASE ~o.wrote
      <4> DEFINE w == [o EXCEPT !.wrote = TRUE, !.status = 200]
                 c == Status(200) \o <<x>>
      <4>1. w \in AWriter /\ w.wrote /\ w.status = 200 /\ w.bytes = o.bytes
        <5>1. PICK a, v : a = o /\ v = w
          OBVIOUS
        <5>2. a \in AWriter /\ 200 \in Nat /\ v = [a EXCEPT !.wrote = TRUE, !.status = 200]
          BY <2>1, <5>1
        <5>3. LET u == [a EXCEPT !.wrote = TRUE, !.status = 200]
              IN u \in AWriter /\ u.wrote /\ u.status = 200 /\ u.bytes = a.bytes
          BY ONLY <5>2, SentStatus
        <5>4. v \in AWriter /\ v.wrote /\ v.status = 200 /\ v.bytes = a.bytes
          BY ONLY <5>2, <5>3, Zenon
        <5> QED  BY ONLY <5>1, <5>4, Zenon
      <4>2. Forward(w, c)
        BY <3>2, <3>4
      <4> HIDE DEF w
      <4>3. Good(w, c)
        <5>1. ~Told(k) /\ ~Does(1, "header") /\ ~Does(1, "bytes") /\ Want = 200 /\ c = Status(200) \o <<x>>
          BY <3>0, <3>4
        <5>2. w \in AWriter /\ w.wrote /\ w.status = Want /\ w.bytes = o.bytes
          BY <4>1, <5>1
        <5>3. w.bytes = IF Does(1, "bytes") THEN o.bytes + Size(x.pieces) ELSE o.bytes
          BY ONLY <5>1, <5>2
        <5> QED  BY ONLY <5>1, <5>2, <5>3, Zenon
      <4> HIDE DEF Good, o, x, c
      <4> QED  BY ONLY <4>2, <4>3, Zenon
    <3> QED  BY <3>3, <3>4
  <2> QED  BY <2>2, <2>3, <2>4
<1>11. PICK w, c : /\ Remembers(k, w, c)
                   /\ writers' = [writers EXCEPT ![k] = w] /\ calls' = On(k - 1, c) \o Tail(calls)
  BY <1>10
<1>12. UNCHANGED <<chain, request, phase, layer, tops, script, said, panic, ctxID, log, span, wire, headers>>
  BY DEF WriterHeader, WriterWrite, WriterFlush, PipeRest, routeVars, sayVars, noteVars
<1>13. \E got2, sent2 \in [0..T -> Nat] : Flow(T, got2, sent2)'
  BY <1>1, <1>2, <1>5, <1>6, <1>11, <1>12, Remembered
<1>14. w \in AWriter /\ c \in Seq(Call)
  <2>1. w \in AWriter
    BY <1>11 DEF Remembers
  <2> DEFINE x == calls[1].call
             y == [do |-> "header", code |-> 200]
  <2>2. x \in Call /\ y \in Call /\ Status(200) = <<y>>
    BY <1>3 DEF Call, Status
  <2> HIDE DEF x, y
  <2>3. <<x>> \in Seq(Call) /\ <<y>> \o <<x>> \in Seq(Call)
    BY ONLY <2>2, RememberedCalls
  <2>4. c = <<x>> \/ c = Status(200) \o <<x>>
    BY <1>11 DEF Remembers, x
  <2>5. c \in Seq(Call)
    BY ONLY <2>2, <2>3, <2>4
  <2> QED  BY <2>1, <2>5
<1>15. PipeTypes'
  <2>1. w \in AWriter \cup ACompressor /\ k \in 1..Len(writers)
    BY <1>5, <1>14
  <2>2. /\ DOMAIN headers' = {"type", "length", "encoding", "vary", "id"} /\ headers'.length \in Nat
        /\ headers'.encoding \in {"none", "gzip"} /\ headers'.vary \in BOOLEAN
    BY <1>12 DEF PipeTypes
  <2> QED  BY <1>1, <1>11, <1>12, <1>14, <2>1, <2>2, ForwardTypes
<1>16. /\ Len(writers') = Len(writers) /\ DOMAIN writers = 1..Len(writers)
       /\ \A j \in 1..Len(writers) : j # k => writers'[j] = writers[j]
       /\ writers'[k] = w
  BY <1>5, <1>11, WriterTypes DEF PipeTypes
<1>17. \A j \in 1..Len(writers) : Compresses(j)' = Compresses(j)
  <2>1. w.kind = "writer"
    BY <1>14 DEF AWriter
  <2> QED  BY <1>4, <1>16, <2>1 DEF Compresses
<1>18. \A j \in 1..Len(writers) : Works(j)' = Works(j)
  <2>1. \A j \in 1..Len(writers) : j # k => Works(j)' = Works(j)
    BY <1>16, <1>17 DEF Works, Compresses
  <2>2. Works(k)' = Works(k)
    BY <1>5, <1>17 DEF Works
  <2> QED  BY <2>1, <2>2
<1>19. Gz(Len(writers))' = Gz(Len(writers))
  BY <1>12, <1>16, <1>18 DEF Gz
<1>20. Around'
  BY <1>1, <1>12, <1>16, <1>17, <1>19, CallKeeps
<1> QED  BY <1>13, <1>15, <1>20

-----------------------------------------------------------------------------
(* The compressor.                                                          *)

\* A status, a body and a flush, or some of them.
Three(h, code, b, p, f) == ((IF h = 1 THEN Status(code) ELSE <<>>) \o (IF b = 1 THEN Bytes(p) ELSE <<>>))
                           \o (IF f = 1 THEN Flush ELSE <<>>)

\* Three sequences of at most one.
LEMMA Thrice ==
    ASSUME NEW S, NEW x \in Seq(S), NEW y \in Seq(S), NEW z \in Seq(S),
           Len(x) \in {0, 1}, Len(y) \in {0, 1}, Len(z) \in {0, 1}
    PROVE  LET c == (x \o y) \o z IN
           /\ c \in Seq(S) /\ Len(c) = Len(x) + Len(y) + Len(z)
           /\ Len(x) = 1 => c[1] = x[1]
           /\ Len(y) = 1 => c[Len(x) + 1] = y[1]
           /\ Len(z) = 1 => c[Len(x) + Len(y) + 1] = z[1]
<1> DEFINE a == x \o y
           c == a \o z
<1>1. a \in Seq(S)
  OBVIOUS
<1>2. /\ Len(a) = Len(x) + Len(y)
      /\ \A i \in 1..Len(x) : a[i] = x[i]
      /\ \A i \in (Len(x) + 1)..(Len(x) + Len(y)) : a[i] = y[i - Len(x)]
  BY ONLY x \in Seq(S), y \in Seq(S), Joined
<1> HIDE DEF a
<1>3. c \in Seq(S)
  BY ONLY <1>1, z \in Seq(S)
<1>4. /\ Len(c) = Len(a) + Len(z)
      /\ \A i \in 1..Len(a) : c[i] = a[i]
      /\ \A i \in (Len(a) + 1)..(Len(a) + Len(z)) : c[i] = z[i - Len(a)]
  BY ONLY <1>1, z \in Seq(S), Joined
<1> HIDE DEF c
<1>5. PICK l, m, n : l = Len(x) /\ m = Len(y) /\ n = Len(z) /\ l \in {0, 1} /\ m \in {0, 1} /\ n \in {0, 1}
  OBVIOUS
<1>6. Len(a) = l + m /\ Len(c) = l + m + n
  BY ONLY <1>2, <1>4, <1>5
<1>7. l = 1 => c[1] = x[1]
  <2> HAVE l = 1
  <2>1. 1 \in 1..Len(x) /\ 1 \in 1..Len(a)
    BY ONLY <1>5, <1>6, l = 1
  <2> QED  BY ONLY <1>2, <1>4, <2>1
<1>8. m = 1 => c[l + 1] = y[1]
  <2> HAVE m = 1
  <2>1. /\ l + 1 \in (Len(x) + 1)..(Len(x) + Len(y)) /\ l + 1 \in 1..Len(a)
        /\ (l + 1) - Len(x) = 1
    BY ONLY <1>5, <1>6, m = 1
  <2>2. c[l + 1] = a[l + 1] /\ a[l + 1] = y[(l + 1) - Len(x)]
    BY ONLY <1>2, <1>4, <2>1
  <2> QED  BY ONLY <2>1, <2>2
<1>9. n = 1 => c[l + m + 1] = z[1]
  <2> HAVE n = 1
  <2>1. (l + m + 1) \in (Len(a) + 1)..(Len(a) + Len(z)) /\ (l + m + 1) - Len(a) = 1
    BY ONLY <1>5, <1>6, n = 1
  <2>2. c[l + m + 1] = z[(l + m + 1) - Len(a)]
    BY ONLY <1>4, <2>1
  <2> QED  BY ONLY <2>1, <2>2
<1> QED  BY ONLY <1>3, <1>5, <1>6, <1>7, <1>8, <1>9 DEF c, a

AreThree(c, h, code, b, p, f) ==
    /\ c \in Seq(Call)
    /\ \A i \in DOMAIN c : \/ h = 1 /\ i = 1 /\ c[i].do = "header" /\ c[i].code = code
                           \/ b = 1 /\ c[i].do = "bytes" /\ c[i].pieces = p
                           \/ f = 1 /\ c[i].do = "flush"
    /\ \A i, j \in DOMAIN c : i < j => Rank(c[i].do) < Rank(c[j].do)
    /\ h = 1 => c # <<>> /\ c[1].do = "header"
    /\ b = 1 => c # <<>> /\ \E i \in DOMAIN c : c[i].do = "bytes"
    /\ f = 1 => c # <<>> /\ \E i \in DOMAIN c : c[i].do = "flush"
    /\ h = 0 /\ b = 0 /\ f = 0 => c = <<>>

\* What a compressor passes on: at most a status, a write and a flush.
LEMMA ThreeIs ==
    ASSUME NEW h \in {0, 1}, NEW code \in Nat, NEW b \in {0, 1}, NEW p \in Seq(Piece), NEW f \in {0, 1}
    PROVE  AreThree(Three(h, code, b, p, f), h, code, b, p, f)
<1>0. PICK c : c = Three(h, code, b, p, f)
  OBVIOUS
<1> DEFINE hc == [do |-> "header", code |-> code]
           bc == [do |-> "bytes", pieces |-> p]
           fc == [do |-> "flush"]
           x == IF h = 1 THEN <<hc>> ELSE <<>>
           y == IF b = 1 THEN <<bc>> ELSE <<>>
           z == IF f = 1 THEN <<fc>> ELSE <<>>
<1>1. /\ hc \in Call /\ bc \in Call /\ fc \in Call
      /\ hc.do = "header" /\ hc.code = code /\ bc.do = "bytes" /\ bc.pieces = p /\ fc.do = "flush"
  BY DEF Call
<1>2. c = (x \o y) \o z
  BY <1>0 DEF Three, Status, Bytes, Flush
<1> HIDE DEF hc, bc, fc
<1>3. /\ x \in Seq(Call) /\ y \in Seq(Call) /\ z \in Seq(Call)
      /\ Len(x) = (IF h = 1 THEN 1 ELSE 0) /\ Len(y) = (IF b = 1 THEN 1 ELSE 0) /\ Len(z) = (IF f = 1 THEN 1 ELSE 0)
      /\ h = 1 => x[1] = hc
      /\ b = 1 => y[1] = bc
      /\ f = 1 => z[1] = fc
  BY <1>1
<1> HIDE DEF x, y, z
<1>4. PICK l, m, n : l = Len(x) /\ m = Len(y) /\ n = Len(z)
  OBVIOUS
<1>5. /\ l \in {0, 1} /\ m \in {0, 1} /\ n \in {0, 1}
      /\ l = h /\ m = b /\ n = f
  BY <1>3, <1>4
<1>6. /\ c \in Seq(Call) /\ Len(c) = l + m + n
      /\ h = 1 => c[1] = hc
      /\ b = 1 => c[l + 1] = bc
      /\ f = 1 => c[l + m + 1] = fc
  <2>1. /\ x \in Seq(Call) /\ y \in Seq(Call) /\ z \in Seq(Call)
        /\ Len(x) \in {0, 1} /\ Len(y) \in {0, 1} /\ Len(z) \in {0, 1}
    BY ONLY <1>3, <1>4, <1>5
  <2>2. /\ c \in Seq(Call) /\ Len(c) = Len(x) + Len(y) + Len(z)
        /\ Len(x) = 1 => c[1] = x[1]
        /\ Len(y) = 1 => c[Len(x) + 1] = y[1]
        /\ Len(z) = 1 => c[Len(x) + Len(y) + 1] = z[1]
    <3>1. LET cc == (x \o y) \o z IN
          /\ cc \in Seq(Call) /\ Len(cc) = Len(x) + Len(y) + Len(z)
          /\ Len(x) = 1 => cc[1] = x[1]
          /\ Len(y) = 1 => cc[Len(x) + 1] = y[1]
          /\ Len(z) = 1 => cc[Len(x) + Len(y) + 1] = z[1]
      BY ONLY <2>1, Thrice
    <3> QED  BY ONLY <1>2, <3>1
  <2>3. /\ c \in Seq(Call) /\ Len(c) = l + m + n
        /\ l = 1 => c[1] = x[1]
        /\ m = 1 => c[l + 1] = y[1]
        /\ n = 1 => c[l + m + 1] = z[1]
    BY ONLY <1>4, <2>2
  <2> QED  BY ONLY <1>3, <1>5, <2>3
<1>7. DOMAIN c = 1..(l + m + n)
  BY <1>5, <1>6
<1>8. \A i \in DOMAIN c : (i = 1 /\ l = 1) \/ (i = l + 1 /\ m = 1) \/ (i = l + m + 1 /\ n = 1)
  BY ONLY <1>5, <1>7
<1>9. \A i \in DOMAIN c : \/ i = 1 /\ l = 1 /\ h = 1 /\ c[i] = hc /\ Rank(c[i].do) = 1
                          \/ i = l + 1 /\ b = 1 /\ c[i] = bc /\ Rank(c[i].do) = 2
                          \/ i = l + m + 1 /\ f = 1 /\ c[i] = fc /\ Rank(c[i].do) = 3
  <2>1. Rank(hc.do) = 1 /\ Rank(bc.do) = 2 /\ Rank(fc.do) = 3
    BY <1>1 DEF Rank
  <2> QED  BY ONLY <1>5, <1>6, <1>8, <2>1
<1>10. \A i, j \in DOMAIN c : i < j => Rank(c[i].do) < Rank(c[j].do)
  BY ONLY <1>5, <1>7, <1>9
<1>11. \A i \in DOMAIN c : \/ h = 1 /\ i = 1 /\ c[i].do = "header" /\ c[i].code = code
                           \/ b = 1 /\ c[i].do = "bytes" /\ c[i].pieces = p
                           \/ f = 1 /\ c[i].do = "flush"
  BY ONLY <1>1, <1>9
<1>12. (h = 1 => 1 \in DOMAIN c) /\ (b = 1 => l + 1 \in DOMAIN c) /\ (f = 1 => l + m + 1 \in DOMAIN c)
  BY ONLY <1>5, <1>7
<1>13. (h = 1 => c[1].do = "header") /\ (b = 1 => c[l + 1].do = "bytes") /\ (f = 1 => c[l + m + 1].do = "flush")
  BY ONLY <1>1, <1>6
<1>14. c # <<>> <=> l + m + n # 0
  BY ONLY <1>5, <1>6
<1>15. c # <<>> <=> h = 1 \/ b = 1 \/ f = 1
  BY ONLY <1>5, <1>14
<1>16. AreThree(c, h, code, b, p, f)
  BY ONLY <1>6, <1>10, <1>11, <1>12, <1>13, <1>15 DEF AreThree
<1> QED  BY ONLY <1>0, <1>16

\* Pieces that follow others are numbered on.
LEMMA JoinedNumbers ==
    ASSUME NEW a \in Seq(Piece), NEW b \in Seq(Piece), NEW from \in Nat, NEW gz,
           Numbered(a, from, gz), Numbered(b, from + Len(a), gz)
    PROVE  a \o b \in Seq(Piece) /\ Len(a \o b) = Len(a) + Len(b) /\ Numbered(a \o b, from, gz)
<1>1. a \o b \in Seq(Piece)
  OBVIOUS
<1>2. /\ Len(a \o b) = Len(a) + Len(b) /\ DOMAIN (a \o b) = 1..(Len(a) + Len(b))
      /\ \A i \in 1..Len(a) : (a \o b)[i] = a[i]
      /\ \A i \in (Len(a) + 1)..(Len(a) + Len(b)) : (a \o b)[i] = b[i - Len(a)]
  BY ONLY a \in Seq(Piece), b \in Seq(Piece), Joined
<1> DEFINE c == a \o b
<1> HIDE DEF c
<1>3. /\ DOMAIN c = 1..(Len(a) + Len(b))
      /\ \A i \in 1..Len(a) : c[i] = a[i]
      /\ \A i \in (Len(a) + 1)..(Len(a) + Len(b)) : c[i] = b[i - Len(a)]
  BY ONLY <1>2 DEF c
<1>4. Len(a) \in Nat /\ Len(b) \in Nat /\ DOMAIN a = 1..Len(a) /\ DOMAIN b = 1..Len(b)
  OBVIOUS
<1>5. Numbered(c, from, gz)
  <2> SUFFICES ASSUME NEW x \in DOMAIN c
              PROVE  c[x].of = from + x /\ c[x].gz = gz
    BY DEF Numbered
  <2>1. CASE x \in 1..Len(a)
    BY <1>3, <1>4, <2>1 DEF Numbered
  <2>2. CASE x \notin 1..Len(a)
    <3>1. x \in (Len(a) + 1)..(Len(a) + Len(b)) /\ x - Len(a) \in DOMAIN b
      BY <1>3, <1>4, <2>2
    <3>2. c[x] = b[x - Len(a)] /\ b[x - Len(a)].of = (from + Len(a)) + (x - Len(a)) /\ b[x - Len(a)].gz = gz
      BY <1>3, <3>1 DEF Numbered
    <3> QED  BY <1>4, <3>1, <3>2
  <2> QED  BY <2>1, <2>2
<1> QED  BY <1>1, <1>2, <1>5 DEF c

\* Compressing pieces leaves their numbers.
LEMMA ZippedNumbers ==
    ASSUME NEW a \in Seq(Piece), NEW from \in Nat, Numbered(a, from, 0)
    PROVE  Zipped(a) \in Seq(Piece) /\ Len(Zipped(a)) = Len(a) /\ Numbered(Zipped(a), from, 1)
<1>1. Len(a) \in Nat /\ DOMAIN a = 1..Len(a)
  OBVIOUS
<1>2. \A i \in 1..Len(a) : a[i] \in Piece /\ a[i].of = from + i /\ a[i].gz = 0
  BY DEF Numbered
<1>3. \A i \in 1..Len(a) : LET q == [a[i] EXCEPT !.gz = @ + 1] IN q \in Piece /\ q.of = from + i /\ q.gz = 1
  BY <1>2 DEF Piece
<1> DEFINE Q(i) == [a[i] EXCEPT !.gz = @ + 1]
<1>4. Zipped(a) = [i \in 1..Len(a) |-> Q(i)]
  BY DEF Zipped
<1>5. \A i \in 1..Len(a) : Q(i) \in Piece /\ Q(i).of = from + i /\ Q(i).gz = 1
  BY <1>3
<1> HIDE DEF Q
<1>6. Zipped(a) \in Seq(Piece) /\ Len(Zipped(a)) = Len(a) /\ DOMAIN Zipped(a) = 1..Len(a)
  BY <1>1, <1>4, <1>5
<1>7. \A i \in 1..Len(a) : Zipped(a)[i] = Q(i)
  BY <1>4
<1> QED  BY <1>5, <1>6, <1>7 DEF Numbered

\* What a compressor keeps back.
Kept(w) == IF w.decided THEN w.held ELSE w.buf

\* What a call makes of a compressor: it becomes w, and lets a status, the pieces p or a flush go on.
Deal(k, w, h, b, p, f) ==
    /\ w \in ACompressor /\ h \in {0, 1} /\ b \in {0, 1} /\ f \in {0, 1} /\ p \in Seq(Piece)
    /\ w.decided => w.buf = <<>>
    /\ ~w.on => w.held = <<>>
    /\ w.on => w.decided
    /\ ~w.decided => w.status = Want
    /\ writers[k].decided => w.decided
    /\ h = 1 <=> w.decided /\ ~writers[k].decided
    /\ b = 1 \/ f = 1 => said.status # 0 /\ w.decided
    /\ Kept(w) # <<>> => said.status # 0

DealHeaders(k, w) ==
    /\ headers'.id = headers.id /\ (headers.vary => headers'.vary)
    /\ headers' = headers \/ ~writers[k].decided
    /\ \/ /\ headers'.encoding = headers.encoding /\ headers'.length = headers.length
          /\ w.on <=> writers[k].on
       \/ /\ headers.encoding = "none" /\ headers'.encoding = "gzip"
          /\ headers'.length = 0 /\ headers'.vary
          /\ said.status # 0 /\ ~writers[k].decided /\ w.on

\* What it got by then, and what it has sent.
DealPieces(w, b, p, s, s2, g2, gz) ==
    /\ s2 \in Nat
    /\ b = 1 => s + Len(p) = s2 /\ Numbered(p, s, IF w.on THEN 1 ELSE gz)
    /\ b = 0 => s2 = s
    /\ s2 + Len(Kept(w)) = g2
    /\ Numbered(Kept(w), s2, IF w.on THEN 1 ELSE gz)
    /\ ~w.decided => s2 = 0

\* An action that deals with a call so.
Dealt(got, sent, k, w, h, b, p, f, s2, g2) ==
    /\ Deal(k, w, h, b, p, f) /\ DealHeaders(k, w)
    /\ writers' = [writers EXCEPT ![k] = w] /\ calls' = On(k - 1, Three(h, Want, b, p, f)) \o Tail(calls)
    /\ DOMAIN headers' = {"type", "length", "encoding", "vary", "id"}
    /\ headers'.length \in Nat /\ headers'.encoding \in {"none", "gzip"} /\ headers'.vary \in BOOLEAN
    /\ g2 = IF Does(1, "bytes") THEN sent[k] ELSE got[k]
    /\ DealPieces(w, b, p, sent[k - 1], s2, g2, Gz(k))
    /\ Does(1, "flush") => s2 = sent[k] /\ f = 1

\* A compressor that deals with a call passes it on or keeps it (compress.go).
LEMMA Deals ==
    ASSUME PipeTypes, NEW T \in Nat, NEW got, NEW sent, Flow(T, got, sent),
           NEW k \in 1..T, calls # <<>>, calls[1].at = k, Compresses(k), ~Does(1, "close"),
           NEW w, NEW h, NEW b, NEW p, NEW f, NEW s2, NEW g2, Dealt(got, sent, k, w, h, b, p, f, s2, g2),
           UNCHANGED <<chain, request, phase, layer, tops, said, wire, panic>>
    PROVE  /\ \E got2, sent2 \in [0..T -> Nat] : Flow(T, got2, sent2)'
           /\ Three(h, Want, b, p, f) \in Seq(Call) /\ Len(writers') = Len(writers)
           /\ \A j \in 1..Len(writers) : Compresses(j)' = Compresses(j)
           /\ phase = "handling" => Gz(Len(writers))' = Gz(Len(writers))
<1>0. /\ Deal(k, w, h, b, p, f) /\ DealHeaders(k, w)
      /\ writers' = [writers EXCEPT ![k] = w] /\ calls' = On(k - 1, Three(h, Want, b, p, f)) \o Tail(calls)
      /\ g2 = IF Does(1, "bytes") THEN sent[k] ELSE got[k]
      /\ DealPieces(w, b, p, sent[k - 1], s2, g2, Gz(k))
      /\ Does(1, "flush") => s2 = sent[k] /\ f = 1
  BY DEF Dealt
<1>a. PICK c : c = Three(h, Want, b, p, f)
  OBVIOUS
<1>1. /\ Live(T) /\ InOrder(T) /\ GoesDown(T) /\ Pieces(T, got, sent) /\ Compressing(T)
      /\ T \in 0..Len(writers) /\ Len(writers) \in Nat
  BY <1>0, WriterTypes DEF Flow, Live
<1>2. /\ k \in 1..Len(writers) /\ writers[k] \in ACompressor /\ k \in Nat \ {0} /\ k - 1 \in 0..T /\ k \in 0..T
      /\ writers[k].kind = "compressor" /\ writers[k].decided \in BOOLEAN /\ writers[k].on \in BOOLEAN
  <2>1. k \in 1..Len(writers) /\ k \in Nat \ {0} /\ k - 1 \in 0..T /\ k \in 0..T
    BY <1>0, <1>1
  <2>2. writers[k] \in ACompressor
    BY <1>0, <2>1, WriterTypes
  <2> QED  BY <1>0, <2>1, <2>2 DEF ACompressor
<1>3. /\ w \in ACompressor /\ w.kind = "compressor" /\ h \in {0, 1} /\ b \in {0, 1} /\ f \in {0, 1}
      /\ p \in Seq(Piece) /\ w.decided \in BOOLEAN /\ w.on \in BOOLEAN
  BY <1>0 DEF Deal, ACompressor
<1>4. writers'[k] = w
  BY <1>0, <1>2, WriterTypes
<1>5. /\ Compresses(k)' /\ (Told(k)' <=> w.decided) /\ (Told(k) <=> writers[k].decided)
      /\ (Waits(k) <=> ~writers[k].decided) /\ (Waits(k)' <=> ~w.decided)
      /\ (Works(k) <=> writers[k].on) /\ (Works(k)' <=> w.on)
      /\ Stored(k)' = Kept(w)
  <2>1. Compresses(k)'
    BY <1>0, <1>3, <1>4 DEF Compresses
  <2> QED  BY <1>0, <1>2, <1>4, <2>1 DEF Told, Waits, Works, Stored, Kept
<1>6. Want \in Nat /\ Want' = Want
  BY <1>0 DEF Want, PipeTypes
<1>7. /\ c \in Seq(Call)
      /\ \A i \in DOMAIN c : \/ h = 1 /\ i = 1 /\ c[i].do = "header" /\ c[i].code = Want
                             \/ b = 1 /\ c[i].do = "bytes" /\ c[i].pieces = p
                             \/ f = 1 /\ c[i].do = "flush"
      /\ \A i, j \in DOMAIN c : i < j => Rank(c[i].do) < Rank(c[j].do)
      /\ h = 1 => c # <<>> /\ c[1].do = "header"
      /\ b = 1 => c # <<>> /\ \E i \in DOMAIN c : c[i].do = "bytes"
      /\ f = 1 => c # <<>> /\ \E i \in DOMAIN c : c[i].do = "flush"
      /\ h = 0 /\ b = 0 /\ f = 0 => c = <<>>
  <2>1. PICK code : code = Want
    OBVIOUS
  <2>2. /\ h \in {0, 1} /\ code \in Nat /\ b \in {0, 1} /\ p \in Seq(Piece) /\ f \in {0, 1}
        /\ c = Three(h, code, b, p, f)
    BY <1>0, <1>a, <1>3, <1>6, <2>1
  <2>3. AreThree(c, h, code, b, p, f)
    BY ONLY <2>2, ThreeIs
  <2> QED  BY ONLY <2>1, <2>3 DEF AreThree
<1>8. Emission(k, c)
  <2>1. /\ h = 1 <=> w.decided /\ ~writers[k].decided
        /\ b = 1 \/ f = 1 => said.status # 0 /\ w.decided
        /\ writers[k].decided => w.decided
    BY <1>0 DEF Deal
  <2>2. \A i \in DOMAIN c :
          /\ c[i].do \in {"header", "bytes", "flush"}
          /\ c[i].do = "header" => i = 1 /\ c[i].code = Want /\ ~Told(k)
          /\ c[i].do \in {"bytes", "flush"} => said.status # 0 /\ (Told(k) \/ c[1].do = "header")
    BY <1>0, <1>5, <1>7, <2>1
  <2>3. (c # <<>> => Told(k)') /\ (c = <<>> => Waits(k)' \/ Told(k)) /\ (Told(k) => Told(k)')
    <3>1. c # <<>> => h = 1 \/ b = 1 \/ f = 1
      BY <1>0, <1>7
    <3>2. c = <<>> => h = 0
      BY <1>0, <1>3, <1>7
    <3> QED  BY <1>0, <1>3, <1>5, <2>1, <3>1, <3>2
  <2> QED  BY <1>0, <1>7, <2>2, <2>3 DEF Emission
<1>9. HeadersStep(k)
  BY <1>0, <1>5 DEF DealHeaders, HeadersStep
<1>10. Shape(k)'
  <2>1. said' = said
    OBVIOUS
  <2> QED  BY <1>0, <1>4, <1>5, <1>6, <2>1 DEF Shape, Deal
<1>11. Passes(T, k, c)
  <2>1. \E v : v.kind = writers[k].kind /\ writers' = [writers EXCEPT ![k] = v]
    BY <1>0, <1>2, <1>3
  <2> QED  BY <1>0, <1>a, <1>8, <1>9, <1>10, <2>1 DEF Passes
<1>12. /\ Len(writers') = Len(writers)
       /\ \A j \in 1..Len(writers) : Compresses(j)' = Compresses(j)
       /\ \A j \in 1..Len(writers) : j # k => Works(j)' = Works(j)
  BY <1>0, <1>1, <1>11, PlacesAfter
<1>13. \A j \in k..T : Gz(j)' = Gz(j)
  BY <1>0, <1>1, <1>11, GzAfter
<1>14. Gz(k - 1)' = IF w.on THEN 1 ELSE Gz(k)
  <2>1. CASE w.on
    <3>1. headers'.encoding = "gzip"
      <4>1. CASE writers[k].on
        BY <1>0, <1>1, <4>1 DEF Compressing, DealHeaders
      <4>2. CASE ~writers[k].on
        BY <1>0, <1>2, <1>3, <2>1, <4>2 DEF DealHeaders
      <4> QED  BY <1>0, <4>1, <4>2
    <3>2. \A j \in 1..(k - 1) : ~Works(j)
      <4> SUFFICES ASSUME NEW j \in 1..(k - 1), Works(j)
                  PROVE  FALSE
        OBVIOUS
      <4>1. j \in 1..T /\ j # k
        BY <1>0, <1>2
      <4>2. headers.encoding = "gzip"
        BY <1>0, <1>1, <4>1 DEF Compressing, Works
      <4>3. writers[k].on
        BY <1>0, <1>2, <1>3, <2>1, <4>2 DEF DealHeaders
      <4> QED  BY <1>0, <1>1, <1>5, <4>1, <4>3 DEF Compressing
    <3>3. \A j \in 1..(k - 1) : ~Works(j)'
      <4>1. \A j \in 1..(k - 1) : j \in 1..T /\ j \in 1..Len(writers) /\ j # k
        BY <1>1, <1>2
      <4> QED  BY <1>12, <3>2, <4>1
    <3> QED  BY <1>0, <2>1, <3>1, <3>3 DEF Gz
  <2>2. CASE ~w.on
    <3>1. 1..k = 1..(k - 1) \cup {k}
      BY <1>0, <1>2
    <3>2. (\A j \in 1..k : ~Works(j)') <=> (\A j \in 1..(k - 1) : ~Works(j)')
      BY <1>0, <1>5, <2>2, <3>1
    <3>3. Gz(k - 1)' = Gz(k)'
      BY <1>0, <3>2 DEF Gz
    <3> QED  BY <1>0, <1>2, <1>13, <2>2, <3>3
  <2> QED  BY <1>0, <2>1, <2>2
<1>15. got \in [0..T -> Nat] /\ sent \in [0..T -> Nat]
  BY <1>0, <1>1 DEF Pieces
<1>16. PICK got2, sent2 : got2 = [got EXCEPT ![k] = g2] /\ sent2 = [sent EXCEPT ![k - 1] = s2]
  OBVIOUS
<1>17. g2 \in Nat /\ s2 \in Nat
  BY <1>0, <1>2, <1>15 DEF DealPieces
<1>18. /\ got2 \in [0..T -> Nat] /\ sent2 \in [0..T -> Nat]
       /\ got2[k] = g2 /\ sent2[k - 1] = s2
       /\ \A j \in 0..T : j # k - 1 => sent2[j] = sent[j]
  BY <1>0, <1>2, <1>15, <1>16, <1>17
<1>19. Moves(T, got, sent, k, c, got2, sent2)
  <2>1. got2 = [got EXCEPT ![k] = IF Does(1, "bytes") THEN sent[k] ELSE got[k]]
    BY <1>0, <1>16
  <2>2. (\A i \in DOMAIN c : c[i].do # "bytes") => sent2[k - 1] = sent[k - 1]
    BY <1>0, <1>3, <1>7, <1>18 DEF DealPieces
  <2>3. \A i \in DOMAIN c : c[i].do = "bytes" => /\ sent[k - 1] + Len(c[i].pieces) = sent2[k - 1]
                                                 /\ Numbered(c[i].pieces, sent[k - 1], Gz(k - 1)')
    <3> SUFFICES ASSUME NEW i \in DOMAIN c, c[i].do = "bytes"
                PROVE  /\ sent[k - 1] + Len(c[i].pieces) = sent2[k - 1]
                       /\ Numbered(c[i].pieces, sent[k - 1], Gz(k - 1)')
      OBVIOUS
    <3>1. b = 1 /\ c[i].pieces = p
      BY <1>0, <1>7
    <3> QED  BY <1>0, <1>14, <1>18, <3>1 DEF DealPieces
  <2>4. /\ sent2[k - 1] + Len(Stored(k)') = got2[k]
        /\ Numbered(Stored(k)', sent2[k - 1], IF Works(k)' THEN 1 ELSE Gz(k))
        /\ ~Told(k)' => sent2[k - 1] = 0
    <3>1. (IF Works(k)' THEN 1 ELSE Gz(k)) = (IF w.on THEN 1 ELSE Gz(k))
      BY <1>0, <1>5
    <3> QED  BY <1>0, <1>5, <1>18, <3>1 DEF DealPieces
  <2>5. Does(1, "flush") => sent2[k - 1] = sent[k] /\ \E i \in DOMAIN c : c[i].do = "flush"
    BY <1>0, <1>7, <1>18
  <2> QED  BY <1>0, <1>18, <2>1, <2>2, <2>3, <2>4, <2>5 DEF Moves
<1>20. Flow(T, got2, sent2)'
  BY <1>0, <1>11, <1>19, PassFlow
<1>21. phase = "handling" => Gz(Len(writers))' = Gz(Len(writers))
  <2>1. phase = "handling" => T = Len(writers) /\ Len(writers) \in k..T
    BY <1>0, <1>1 DEF Live
  <2>3. Len(writers)' = Len(writers)
    BY <1>0, <1>12
  <2> QED  BY <1>0, <1>13, <2>1, <2>3
<1> QED  BY <1>a, <1>7, <1>12, <1>18, <1>20, <1>21

\* Nothing, joined, is nothing more.
LEMMA NothingJoined ==
    ASSUME NEW S, NEW s \in Seq(S)
    PROVE  <<>> \o s = s /\ s \o <<>> = s
OBVIOUS

\* The calls a compressor passes on are calls.
LEMMA Singles ==
    ASSUME NEW code \in Nat, NEW p \in Seq(Piece)
    PROVE  /\ Status(code) \in Seq(Call) /\ Bytes(p) \in Seq(Call) /\ Flush \in Seq(Call) /\ <<>> \in Seq(Call)
           /\ Status(code) \o Bytes(p) \in Seq(Call)
<1> DEFINE x == [do |-> "header", code |-> code]
           y == [do |-> "bytes", pieces |-> p]
           z == [do |-> "flush"]
<1>1. x \in Call /\ y \in Call /\ z \in Call
  BY DEF Call
<1>2. Status(code) = <<x>> /\ Bytes(p) = <<y>> /\ Flush = <<z>>
  BY DEF Status, Bytes, Flush
<1> HIDE DEF x, y, z
<1>3. <<x>> \in Seq(Call) /\ <<y>> \in Seq(Call) /\ <<z>> \in Seq(Call) /\ <<x>> \o <<y>> \in Seq(Call)
  BY ONLY <1>1, RememberedCalls
<1> QED  BY <1>2, <1>3

\* The calls of a compressor, as a status, a body and a flush.
LEMMA ThreeForms ==
    ASSUME NEW code \in Nat, NEW p \in Seq(Piece)
    PROVE  /\ Three(0, code, 0, p, 0) = <<>>
           /\ Three(0, code, 1, p, 0) = Bytes(p)
           /\ Three(1, code, 0, p, 0) = Status(code) \o <<>>
           /\ Three(1, code, 1, p, 0) = Status(code) \o Bytes(p)
           /\ Three(0, code, 0, p, 1) = (<<>> \o <<>>) \o Flush
           /\ Three(0, code, 1, p, 1) = (<<>> \o Bytes(p)) \o Flush
           /\ Three(1, code, 1, p, 1) = ((Status(code) \o <<>>) \o Bytes(p)) \o Flush
           /\ Three(1, code, 1, p, 1) = ((Status(code) \o Bytes(p)) \o <<>>) \o Flush
           /\ Three(1, code, 0, p, 1) = ((Status(code) \o <<>>) \o <<>>) \o Flush
<1> DEFINE a == Status(code)
           b == Bytes(p)
           f == Flush
           e == <<>>
<1>1. /\ a \in Seq(Call) /\ b \in Seq(Call) /\ f \in Seq(Call) /\ e \in Seq(Call) /\ a \o b \in Seq(Call)
  BY Singles
<1>2. /\ Three(0, code, 0, p, 0) = (e \o e) \o e
      /\ Three(0, code, 1, p, 0) = (e \o b) \o e
      /\ Three(1, code, 0, p, 0) = (a \o e) \o e
      /\ Three(1, code, 1, p, 0) = (a \o b) \o e
      /\ Three(0, code, 0, p, 1) = (e \o e) \o f
      /\ Three(0, code, 1, p, 1) = (e \o b) \o f
      /\ Three(1, code, 1, p, 1) = (a \o b) \o f
      /\ Three(1, code, 0, p, 1) = (a \o e) \o f
  <2> HIDE DEF e
  <2>1. e = <<>>
    BY DEF e
  <2> QED  BY <2>1 DEF Three
<1>3. /\ e \o e = e /\ e \o b = b /\ b \o e = b /\ a \o e = a /\ (a \o b) \o e = a \o b
  <2> HIDE DEF a, b, f
  <2> QED  BY ONLY <1>1, NothingJoined DEF e
<1> HIDE DEF a, b, f, e
<1>4. /\ Three(0, code, 0, p, 0) = e
      /\ Three(0, code, 1, p, 0) = b
      /\ Three(1, code, 0, p, 0) = a \o e
      /\ Three(1, code, 1, p, 0) = a \o b
      /\ Three(0, code, 0, p, 1) = (e \o e) \o f
      /\ Three(0, code, 1, p, 1) = (e \o b) \o f
      /\ Three(1, code, 1, p, 1) = ((a \o e) \o b) \o f
      /\ Three(1, code, 1, p, 1) = ((a \o b) \o e) \o f
      /\ Three(1, code, 0, p, 1) = ((a \o e) \o e) \o f
  BY ONLY <1>2, <1>3
<1> QED  BY <1>4 DEF a, b, f, e

\* The headers after a compressor has decided.
LEMMA DecidedHeadersAre ==
    ASSUME PipeTypes, NEW o, NEW big
    PROVE  LET d == DecidedHeaders(o, big) IN
           /\ DOMAIN d = {"type", "length", "encoding", "vary", "id"} /\ d.id = headers.id
           /\ d.vary \in BOOLEAN /\ (headers.vary => d.vary)
           /\ d.length \in Nat /\ d.encoding \in {"none", "gzip"}
           /\ Encodes(o, big) => /\ headers.encoding = "none"
                                 /\ d.encoding = "gzip" /\ d.length = 0 /\ d.vary
           /\ ~Encodes(o, big) => d.encoding = headers.encoding /\ d.length = headers.length
<1> DEFINE d == DecidedHeaders(o, big)
<1>1. /\ DOMAIN headers = {"type", "length", "encoding", "vary", "id"} /\ headers.length \in Nat
      /\ headers.encoding \in {"none", "gzip"} /\ headers.vary \in BOOLEAN
  BY DEF PipeTypes
<1>2. DOMAIN d = DOMAIN headers
  BY <1>1 DEF DecidedHeaders
<1>3. /\ d.id = headers.id
      /\ d.length = IF Encodes(o, big) THEN 0 ELSE headers.length
      /\ d.encoding = IF Encodes(o, big) THEN "gzip" ELSE headers.encoding
  BY <1>1 DEF DecidedHeaders
<1>4. d.vary = (headers.vary \/ Wants(headers.type))
  BY <1>1 DEF DecidedHeaders
<1>5. Encodes(o, big) => headers.encoding = "none" /\ Wants(headers.type)
  BY DEF Encodes
<1> HIDE DEF d
<1>6. d.vary \in BOOLEAN /\ (headers.vary => d.vary) /\ (Encodes(o, big) => d.vary)
  BY <1>1, <1>4, <1>5
<1>7. /\ d.length \in Nat /\ d.encoding \in {"none", "gzip"}
      /\ Encodes(o, big) => headers.encoding = "none" /\ d.encoding = "gzip" /\ d.length = 0
      /\ ~Encodes(o, big) => d.encoding = headers.encoding /\ d.length = headers.length
  BY <1>1, <1>3, <1>5
<1>8. d.id = headers.id /\ DOMAIN d = {"type", "length", "encoding", "vary", "id"}
  BY <1>1, <1>2, <1>3
<1> QED  BY <1>6, <1>7, <1>8 DEF d

\* The compressor after it has decided.
LEMMA DecidedIs ==
    ASSUME NEW o \in ACompressor, NEW big, NEW from \in Nat, Encodes(o, big) => Numbered(o.buf, from, 0)
    PROVE  LET w == Decided(o, big) IN
           /\ w \in ACompressor /\ w.decided /\ w.buf = <<>> /\ w.status = o.status
           /\ (w.on <=> Encodes(o, big))
           /\ Encodes(o, big) => w.held = Zipped(o.buf)
           /\ ~Encodes(o, big) => w.held = <<>>
<1>1. o.buf \in Seq(Piece) /\ o.status \in Nat
  BY DEF ACompressor
<1>2. PICK z : z = IF Encodes(o, big) THEN Zipped(o.buf) ELSE <<>>
  OBVIOUS
<1>3. z \in Seq(Piece)
  BY <1>1, <1>2, ZippedNumbers
<1>4. PICK on \in BOOLEAN : on <=> Encodes(o, big)
  OBVIOUS
<1>5. Decided(o, big) = [o EXCEPT !.decided = TRUE, !.on = on, !.buf = <<>>, !.held = z]
  <2>1. Encodes(o, big) = on
    BY <1>4 DEF Encodes
  <2> QED  BY <1>2, <2>1 DEF Decided
<1> DEFINE w == [o EXCEPT !.decided = TRUE, !.on = on, !.buf = <<>>, !.held = z]
<1>6. w \in ACompressor
  <2> DEFINE v == [o EXCEPT !.decided = TRUE, !.on = on]
             u == [v EXCEPT !.buf = <<>>, !.held = z]
  <2>1. v \in ACompressor
    BY DEF ACompressor
  <2> HIDE DEF v
  <2>2. u \in ACompressor
    <3>1. PICK e : e = <<>>
      OBVIOUS
    <3>2. e \in Seq(Piece)
      BY <3>1
    <3> DEFINE x == [v EXCEPT !.buf = e]
    <3>3. x \in ACompressor
      BY <2>1, <3>2 DEF ACompressor
    <3> HIDE DEF x
    <3>4. [x EXCEPT !.held = z] \in ACompressor
      BY ONLY <1>3, <3>3 DEF ACompressor
    <3> QED  BY <3>1, <3>4 DEF x
  <2>3. w = u
    BY DEF v
  <2> QED  BY <2>2, <2>3
<1>7. w.decided /\ w.buf = <<>> /\ w.status = o.status
  BY DEF ACompressor
<1>8. w.held = z
  BY DEF ACompressor
<1>9. w.on = on
  BY DEF ACompressor
<1> HIDE DEF w
<1>10. Decided(o, big) = w
  BY <1>5 DEF w
<1> QED  BY <1>2, <1>4, <1>6, <1>7, <1>8, <1>9, <1>10

\* What is known of a compressor.
LEMMA CompressorIs ==
    ASSUME PipeTypes, NEW T \in Nat, NEW got, NEW sent, Flow(T, got, sent), NEW k \in 1..T, Compresses(k),
           NEW o, o = writers[k]
    PROVE  /\ o \in ACompressor /\ o.decided \in BOOLEAN /\ o.on \in BOOLEAN /\ o.status \in Nat
           /\ o.buf \in Seq(Piece) /\ o.held \in Seq(Piece) /\ Kept(o) \in Seq(Piece)
           /\ (Told(k) <=> o.decided) /\ (Waits(k) <=> ~o.decided)
           /\ sent[k - 1] \in Nat /\ got[k] \in Nat /\ sent[k] \in Nat
           /\ sent[k - 1] + Len(Kept(o)) = got[k]
           /\ Numbered(Kept(o), sent[k - 1], IF o.on THEN 1 ELSE Gz(k))
           /\ ~o.decided => sent[k - 1] = 0 /\ ~o.on
           /\ o.decided => o.buf = <<>>
           /\ ~o.on => o.held = <<>>
           /\ o.on => o.decided /\ said.status # 0 /\ Gz(k) = 0
           /\ Kept(o) # <<>> => said.status # 0
           /\ headers.encoding = "none" => Gz(k) = 0
           /\ Gz(k) \in {0, 1}
<1>1. Live(T) /\ Pieces(T, got, sent) /\ Compressing(T) /\ k \in 1..Len(writers)
  <2>1. Live(T) /\ Pieces(T, got, sent) /\ Compressing(T)
    BY DEF Flow
  <2>2. T \in 0..Len(writers) /\ Len(writers) \in Nat
    BY <2>1, WriterTypes DEF Live
  <2> QED  BY <2>1, <2>2
<1>2. o \in ACompressor
  BY <1>1, WriterTypes
<1>3. /\ o.decided \in BOOLEAN /\ o.on \in BOOLEAN /\ o.status \in Nat
      /\ o.buf \in Seq(Piece) /\ o.held \in Seq(Piece)
  BY <1>2 DEF ACompressor
<1>4. Kept(o) \in Seq(Piece) /\ Stored(k) = Kept(o)
  BY <1>3 DEF Kept, Stored
<1>5. (Told(k) <=> o.decided) /\ (Waits(k) <=> ~o.decided) /\ (Works(k) <=> o.on)
  BY <1>3 DEF Told, Waits, Works
<1>6. /\ got \in [0..T -> Nat] /\ sent \in [0..T -> Nat]
      /\ sent[k - 1] + Len(Stored(k)) = got[k]
      /\ Numbered(Stored(k), sent[k - 1], IF Works(k) THEN 1 ELSE Gz(k))
      /\ ~Told(k) => sent[k - 1] = 0
  BY <1>1 DEF Pieces
<1>7. /\ o.decided => o.buf = <<>>
      /\ ~o.on => o.held = <<>>
      /\ o.on => o.decided /\ said.status # 0
      /\ Stored(k) # <<>> => said.status # 0
  BY <1>1 DEF Compressing
<1>8. Numbered(Kept(o), sent[k - 1], IF o.on THEN 1 ELSE Gz(k))
  BY <1>4, <1>5, <1>6
<1>9. (o.on => Gz(k) = 0) /\ (headers.encoding = "none" => Gz(k) = 0) /\ Gz(k) \in {0, 1}
  BY <1>5 DEF Gz
<1>10. sent[k - 1] \in Nat /\ got[k] \in Nat /\ sent[k] \in Nat
  BY <1>6
<1> QED  BY <1>2, <1>3, <1>4, <1>5, <1>6, <1>7, <1>8, <1>9, <1>10

\* compressor.WriteHeader deals with a status.
LEMMA HeaderDeals ==
    ASSUME PipeTypes, NEW T \in Nat, NEW got, NEW sent, Flow(T, got, sent), NEW k \in 1..T, Compresses(k),
           calls # <<>>, calls[1].at = k, CompressorHeader
    PROVE  \E w, h, b, p, f, s2, g2 : Dealt(got, sent, k, w, h, b, p, f, s2, g2)
<1>1. PICK o : o = writers[k]
  OBVIOUS
<1>2. /\ o \in ACompressor /\ o.decided \in BOOLEAN /\ o.on \in BOOLEAN
      /\ Told(k) <=> o.decided
      /\ sent[k - 1] \in Nat /\ sent[k - 1] + Len(Kept(o)) = got[k]
      /\ Numbered(Kept(o), sent[k - 1], IF o.on THEN 1 ELSE Gz(k))
      /\ ~o.decided => sent[k - 1] = 0 /\ ~o.on
      /\ o.decided => o.buf = <<>>
      /\ ~o.on => o.held = <<>>
      /\ Kept(o) # <<>> => said.status # 0
  BY <1>1, CompressorIs
<1>3. Does(1, "header") /\ Next1 = calls[1]
  BY DEF CompressorHeader, Is, Does, PipeTypes, Next1
<1>4. calls[1].call.code = Want /\ ~o.decided
  BY <1>2, <1>3, HeadIs
<1>5. Want \in Nat
  BY DEF Want, PipeTypes
<1>6. PICK w : w = [o EXCEPT !.status = Want]
  OBVIOUS
<1>7. w \in ACompressor
  BY <1>2, <1>5, <1>6 DEF ACompressor
<1>8. w.status = Want /\ w.decided = o.decided /\ w.on = o.on /\ w.buf = o.buf /\ w.held = o.held
  BY <1>2, <1>6 DEF ACompressor
<1>9. Forward(w, <<>>) /\ headers' = headers
  BY <1>1, <1>3, <1>4, <1>6 DEF CompressorHeader
<1>10. PICK e : e = <<>> /\ e \in Seq(Piece)
  <2>1. <<>> \in Seq(Piece)
    OBVIOUS
  <2> QED  BY <2>1
<1>11. Three(0, Want, 0, e, 0) = <<>>
  BY <1>5, <1>10, ThreeForms
<1>12. Kept(w) = Kept(o)
  BY <1>4, <1>8 DEF Kept
<1>13. Deal(k, w, 0, 0, e, 0)
  BY <1>1, <1>2, <1>4, <1>7, <1>8, <1>10, <1>12 DEF Deal
<1>14. DealHeaders(k, w)
  BY <1>1, <1>8, <1>9 DEF DealHeaders
<1>15. DealPieces(w, 0, e, sent[k - 1], sent[k - 1], got[k], Gz(k))
  BY <1>2, <1>4, <1>8, <1>12 DEF DealPieces
<1>16. /\ writers' = [writers EXCEPT ![k] = w] /\ calls' = On(k - 1, Three(0, Want, 0, e, 0)) \o Tail(calls)
       /\ DOMAIN headers' = {"type", "length", "encoding", "vary", "id"}
       /\ headers'.length \in Nat /\ headers'.encoding \in {"none", "gzip"} /\ headers'.vary \in BOOLEAN
  BY <1>3, <1>9, <1>11 DEF Forward, PipeTypes
<1>17. ~Does(1, "bytes") /\ ~Does(1, "flush")
  BY <1>3 DEF Does
<1>18. Dealt(got, sent, k, w, 0, 0, e, 0, sent[k - 1], got[k])
  BY <1>13, <1>14, <1>15, <1>16, <1>17 DEF Dealt
<1> QED  BY <1>18

\* What decide lets go on, and what it keeps.
DecisionOf(k, o, big, gz) ==
    LET w == Decided(o, big)
        b == IF ~Encodes(o, big) /\ o.buf # <<>> THEN 1 ELSE 0
        s2 == IF Encodes(o, big) THEN 0 ELSE Len(o.buf)
    IN /\ w \in ACompressor /\ w.decided /\ w.buf = <<>>
       /\ Deal(k, w, 1, b, o.buf, 0)
       /\ DealHeaders(k, w)
       /\ DOMAIN headers' = {"type", "length", "encoding", "vary", "id"}
       /\ headers'.length \in Nat /\ headers'.encoding \in {"none", "gzip"} /\ headers'.vary \in BOOLEAN
       /\ DecideCalls(o, big) = Three(1, Want, b, o.buf, 0)
       /\ DealPieces(w, b, o.buf, 0, s2, Len(o.buf), gz)
       /\ (w.on <=> Encodes(o, big))
       /\ w.on => w.held \in Seq(Piece) /\ Len(w.held) = Len(o.buf) /\ Numbered(w.held, 0, 1)
       /\ ~w.on => w.held = <<>>

\* decide: what was buffered is kept back compressed, or goes on plain.
LEMMA DecisionDeals ==
    ASSUME PipeTypes, NEW k, NEW o, o \in ACompressor, writers[k].decided = FALSE, writers[k].on = FALSE,
           o.held = <<>>, o.status = Want, said.status # 0, NEW gz \in {0, 1}, headers.encoding = "none" => gz = 0,
           Numbered(o.buf, 0, gz), NEW big,
           headers' = DecidedHeaders(o, big)
    PROVE  DecisionOf(k, o, big, gz)
<1>1. PICK w : w = Decided(o, big)
  OBVIOUS
<1>2. PICK enc \in BOOLEAN : enc = Encodes(o, big)
  BY DEF Encodes
<1>3. enc => headers.encoding = "none" /\ gz = 0
  BY <1>2 DEF Encodes
<1>4. o.buf \in Seq(Piece) /\ Len(o.buf) \in Nat /\ Want \in Nat
  BY DEF ACompressor, Want, PipeTypes
<1>5. /\ w \in ACompressor /\ w.decided /\ w.buf = <<>> /\ w.status = o.status
      /\ (w.on <=> enc)
      /\ enc => w.held = Zipped(o.buf)
      /\ ~enc => w.held = <<>>
  <2>1. Encodes(o, big) => Numbered(o.buf, 0, 0)
    BY <1>2, <1>3
  <2> QED  BY <1>1, <1>2, <2>1, DecidedIs
<1>6. w.on \in BOOLEAN /\ w.decided \in BOOLEAN
  BY <1>5 DEF ACompressor
<1>7. enc => w.held \in Seq(Piece) /\ Len(w.held) = Len(o.buf) /\ Numbered(w.held, 0, 1)
  <2> SUFFICES ASSUME enc
              PROVE  w.held \in Seq(Piece) /\ Len(w.held) = Len(o.buf) /\ Numbered(w.held, 0, 1)
    OBVIOUS
  <2>1. Numbered(o.buf, 0, 0) /\ 0 \in Nat
    BY <1>3
  <2> QED  BY <1>4, <1>5, <2>1, ZippedNumbers
<1>8. PICK b, s2 : /\ b = IF ~enc /\ o.buf # <<>> THEN 1 ELSE 0
                   /\ s2 = IF enc THEN 0 ELSE Len(o.buf)
  OBVIOUS
<1>9. Kept(w) = w.held
  BY <1>5 DEF Kept
<1>10. Deal(k, w, 1, b, o.buf, 0)
  <2>1. b \in {0, 1} /\ (b = 1 => ~enc /\ o.buf # <<>>)
    BY <1>8
  <2>2. writers[k].decided => w.decided
    OBVIOUS
  <2>3. w.decided /\ ~writers[k].decided
    BY <1>5
  <2> QED  BY <1>4, <1>5, <1>6, <2>1, <2>3 DEF Deal
<1>11. /\ DOMAIN headers' = {"type", "length", "encoding", "vary", "id"} /\ headers'.id = headers.id
       /\ headers'.vary \in BOOLEAN /\ (headers.vary => headers'.vary)
       /\ headers'.length \in Nat /\ headers'.encoding \in {"none", "gzip"}
       /\ enc => /\ headers.encoding = "none"
                 /\ headers'.encoding = "gzip" /\ headers'.length = 0 /\ headers'.vary
       /\ ~enc => headers'.encoding = headers.encoding /\ headers'.length = headers.length
  BY <1>2, DecidedHeadersAre
<1>12. DealHeaders(k, w)
  <2>1. CASE enc
    BY <1>5, <1>6, <1>11, <2>1 DEF DealHeaders
  <2>2. CASE ~enc
    BY <1>5, <1>6, <1>11, <2>2 DEF DealHeaders
  <2> QED  BY <2>1, <2>2
<1>13. DecideCalls(o, big) = Three(1, Want, b, o.buf, 0)
  <2>1. DecideCalls(o, big) = Status(Want) \o (IF ~enc /\ o.buf # <<>> THEN Bytes(o.buf) ELSE <<>>)
    BY <1>2 DEF DecideCalls
  <2>2. /\ Three(1, Want, 0, o.buf, 0) = Status(Want) \o <<>>
        /\ Three(1, Want, 1, o.buf, 0) = Status(Want) \o Bytes(o.buf)
    BY <1>4, ThreeForms
  <2>3. CASE b = 1
    <3>1. ~enc /\ o.buf # <<>>
      BY <1>8, <2>3
    <3>2. DecideCalls(o, big) = Status(Want) \o Bytes(o.buf)
      BY <2>1, <3>1
    <3> QED  BY ONLY <2>2, <2>3, <3>2
  <2>4. CASE b = 0
    <3>1. ~(~enc /\ o.buf # <<>>)
      BY <1>8, <2>4
    <3>2. DecideCalls(o, big) = Status(Want) \o <<>>
      BY <2>1, <3>1
    <3> QED  BY ONLY <2>2, <2>4, <3>2
  <2> QED  BY <1>8, <2>3, <2>4
<1>14. DealPieces(w, b, o.buf, 0, s2, Len(o.buf), gz)
  <2>1. CASE enc
    <3>1. b = 0 /\ s2 = 0
      BY <1>8, <2>1
    <3>2. s2 + Len(Kept(w)) = Len(o.buf) /\ Numbered(Kept(w), s2, 1)
      BY <1>4, <1>7, <1>9, <2>1, <3>1
    <3> QED  BY <1>5, <2>1, <3>1, <3>2 DEF DealPieces
  <2>2. CASE ~enc
    <3>1. s2 = Len(o.buf) /\ s2 \in Nat /\ Kept(w) = <<>> /\ (b = 0 => s2 = 0)
      BY <1>4, <1>5, <1>8, <1>9, <2>2
    <3>2. Numbered(<<>>, s2, gz) /\ s2 + Len(Kept(w)) = Len(o.buf)
      BY <3>1 DEF Numbered
    <3>3. 0 + Len(o.buf) = s2
      BY <1>4, <3>1
    <3> QED  BY <1>5, <2>2, <3>1, <3>2, <3>3 DEF DealPieces
  <2> QED  BY <2>1, <2>2
<1> DEFINE b1 == IF ~Encodes(o, big) /\ o.buf # <<>> THEN 1 ELSE 0
           s1 == IF Encodes(o, big) THEN 0 ELSE Len(o.buf)
<1>15. b1 = b /\ s1 = s2
  BY <1>2, <1>8
<1> HIDE DEF b1, s1
<1>16. /\ w \in ACompressor /\ w.decided /\ w.buf = <<>>
       /\ Deal(k, w, 1, b1, o.buf, 0)
       /\ DealHeaders(k, w)
       /\ DecideCalls(o, big) = Three(1, Want, b1, o.buf, 0)
       /\ DealPieces(w, b1, o.buf, 0, s1, Len(o.buf), gz)
       /\ (w.on <=> Encodes(o, big))
       /\ w.on => w.held \in Seq(Piece) /\ Len(w.held) = Len(o.buf) /\ Numbered(w.held, 0, 1)
       /\ ~w.on => w.held = <<>>
  BY <1>2, <1>5, <1>7, <1>10, <1>12, <1>13, <1>14, <1>15
<1> QED  BY <1>1, <1>11, <1>16 DEF b1, s1, DecisionOf

\* A compressor that has nothing held back.
LEMMA EmptiedIs ==
    ASSUME NEW o \in ACompressor
    PROVE  LET w == Emptied(o) IN
           /\ w \in ACompressor /\ w.held = <<>>
           /\ w.decided = o.decided /\ w.on = o.on /\ w.buf = o.buf /\ w.status = o.status
<1>1. PICK e : e = <<>>
  OBVIOUS
<1>2. e \in Seq(Piece)
  BY <1>1
<1> DEFINE w == [o EXCEPT !.held = e]
<1>3. w \in ACompressor
  BY <1>2 DEF ACompressor
<1>4. w.held = e /\ w.decided = o.decided /\ w.on = o.on /\ w.buf = o.buf /\ w.status = o.status
  BY DEF ACompressor
<1> HIDE DEF w
<1>5. Emptied(o) = w
  BY <1>1 DEF Emptied, w
<1> QED  BY <1>1, <1>3, <1>4, <1>5

\* A compressor that has buffered more.
LEMMA BufferedIs ==
    ASSUME NEW o \in ACompressor, NEW q \in Seq(Piece)
    PROVE  LET w == [o EXCEPT !.buf = @ \o q] IN
           /\ w \in ACompressor /\ w.buf = o.buf \o q
           /\ w.decided = o.decided /\ w.on = o.on /\ w.held = o.held /\ w.status = o.status
<1>1. PICK e : e = o.buf \o q
  OBVIOUS
<1>2. e \in Seq(Piece)
  BY <1>1 DEF ACompressor
<1> DEFINE w == [o EXCEPT !.buf = e]
<1>3. w \in ACompressor
  BY <1>2 DEF ACompressor
<1>4. w.buf = e /\ w.decided = o.decided /\ w.on = o.on /\ w.held = o.held /\ w.status = o.status
  BY DEF ACompressor
<1> HIDE DEF w
<1>5. [o EXCEPT !.buf = @ \o q] = w
  BY <1>1 DEF w
<1> QED  BY <1>1, <1>3, <1>4, <1>5

\* A compressor that holds more back.
LEMMA HeldIs ==
    ASSUME NEW o \in ACompressor, NEW q \in Seq(Piece)
    PROVE  LET w == [o EXCEPT !.held = @ \o q] IN
           /\ w \in ACompressor /\ w.held = o.held \o q
           /\ w.decided = o.decided /\ w.on = o.on /\ w.buf = o.buf /\ w.status = o.status
<1>1. PICK e : e = o.held \o q
  OBVIOUS
<1>2. e \in Seq(Piece)
  BY <1>1 DEF ACompressor
<1> DEFINE w == [o EXCEPT !.held = e]
<1>3. w \in ACompressor
  BY <1>2 DEF ACompressor
<1>4. w.held = e /\ w.decided = o.decided /\ w.on = o.on /\ w.buf = o.buf /\ w.status = o.status
  BY DEF ACompressor
<1> HIDE DEF w
<1>5. [o EXCEPT !.held = @ \o q] = w
  BY <1>1 DEF w
<1> QED  BY <1>1, <1>3, <1>4, <1>5

\* compressor.Write deals with a write.
LEMMA WriteDeals ==
    ASSUME PipeTypes, NEW T \in Nat, NEW got, NEW sent, Flow(T, got, sent), NEW k \in 1..T, Compresses(k),
           calls # <<>>, calls[1].at = k, CompressorWrite
    PROVE  \E w, h, b, p, f, s2, g2 : Dealt(got, sent, k, w, h, b, p, f, s2, g2)
<1>1. PICK o : o = writers[k]
  OBVIOUS
<1>2. /\ o \in ACompressor /\ o.decided \in BOOLEAN /\ o.on \in BOOLEAN
      /\ o.buf \in Seq(Piece) /\ o.held \in Seq(Piece)
      /\ (Told(k) <=> o.decided) /\ (Waits(k) <=> ~o.decided)
      /\ sent[k - 1] \in Nat /\ got[k] \in Nat /\ sent[k] \in Nat
      /\ sent[k - 1] + Len(Kept(o)) = got[k]
      /\ Numbered(Kept(o), sent[k - 1], IF o.on THEN 1 ELSE Gz(k))
      /\ ~o.decided => sent[k - 1] = 0 /\ ~o.on
      /\ o.decided => o.buf = <<>>
      /\ ~o.on => o.held = <<>>
      /\ o.on => o.decided /\ Gz(k) = 0
      /\ headers.encoding = "none" => Gz(k) = 0
      /\ Gz(k) \in {0, 1}
  BY <1>1, CompressorIs
<1>3. Does(1, "bytes") /\ Next1 = calls[1] /\ ~Does(1, "flush")
  <2>1. Next1 = calls[1]
    BY NextIsFirst
  <2>2. Next1.call.do = "bytes"
    BY DEF CompressorWrite, Is
  <2> QED  BY <2>1, <2>2 DEF Does
<1>4. PICK q, gz : q = calls[1].call.pieces /\ gz = Gz(k)
  OBVIOUS
<1>5. /\ q \in Seq(Piece) /\ got[k] + Len(q) = sent[k] /\ Numbered(q, got[k], gz)
      /\ said.status # 0 /\ (~o.decided => o.status = Want)
      /\ calls[1].call = [do |-> "bytes", pieces |-> q] /\ k \in 0..T
  <2>1. calls[1].call \in Call
    BY HeadIs
  <2>2. ~Does(1, "header") /\ ~Does(1, "close")
    BY <1>3 DEF Does
  <2>3. calls[1].call = [do |-> "bytes", pieces |-> q]
    BY <1>3, <1>4, <2>1 DEF Call, Does
  <2> QED  BY <1>1, <1>2, <1>3, <1>4, <2>2, <2>3, HeadIs
<1>6. PICK full : full = [o EXCEPT !.buf = @ \o q]
  OBVIOUS
<1>7. /\ full \in ACompressor /\ full.buf = o.buf \o q
      /\ full.decided = o.decided /\ full.on = o.on /\ full.held = o.held /\ full.status = o.status
  BY <1>2, <1>5, <1>6, BufferedIs
<1>8. Want \in Nat
  BY DEF Want, PipeTypes
<1>9. \/ ~o.decided /\ Forward(full, <<>>) /\ UNCHANGED headers
      \/ /\ ~o.decided
         /\ Forward(Decided(full, TRUE), DecideCalls(full, TRUE))
         /\ headers' = DecidedHeaders(full, TRUE)
      \/ o.decided /\ o.on /\ Forward([o EXCEPT !.held = @ \o Zipped(q)], <<>>) /\ UNCHANGED headers
      \/ o.decided /\ ~o.on /\ Forward(o, <<calls[1].call>>) /\ UNCHANGED headers
  BY <1>1, <1>3, <1>4, <1>6 DEF CompressorWrite
<1>10. ~o.decided => /\ full.buf \in Seq(Piece) /\ Len(full.buf) = sent[k] /\ Numbered(full.buf, 0, gz)
  <2> SUFFICES ASSUME ~o.decided
              PROVE  full.buf \in Seq(Piece) /\ Len(full.buf) = sent[k] /\ Numbered(full.buf, 0, gz)
    OBVIOUS
  <2>1. Kept(o) = o.buf /\ sent[k - 1] = 0 /\ ~o.on /\ Len(o.buf) \in Nat
    BY <1>2 DEF Kept
  <2>2. Numbered(o.buf, 0, gz) /\ Len(o.buf) = got[k]
    BY <1>2, <1>4, <2>1
  <2>3. Numbered(q, 0 + Len(o.buf), gz) /\ 0 \in Nat
    BY <1>2, <1>5, <2>2
  <2>4. /\ o.buf \o q \in Seq(Piece) /\ Len(o.buf \o q) = Len(o.buf) + Len(q) /\ Numbered(o.buf \o q, 0, gz)
    BY <1>2, <1>5, <2>2, <2>3, JoinedNumbers
  <2> QED  BY <1>5, <1>7, <2>2, <2>4
<1>11. PICK e : e = <<>> /\ e \in Seq(Piece)
  <2>1. <<>> \in Seq(Piece)
    OBVIOUS
  <2> QED  BY <2>1
<1>12. /\ DOMAIN headers = {"type", "length", "encoding", "vary", "id"}
       /\ headers.length \in Nat /\ headers.encoding \in {"none", "gzip"} /\ headers.vary \in BOOLEAN
  BY DEF PipeTypes
<1>13. Three(0, Want, 0, e, 0) = <<>> /\ Three(0, Want, 1, q, 0) = <<calls[1].call>>
  BY <1>5, <1>8, <1>11, ThreeForms DEF Bytes
<1>14. CASE ~o.decided /\ Forward(full, <<>>) /\ UNCHANGED headers
  <2>1. Kept(full) = full.buf
    BY <1>7, <1>14 DEF Kept
  <2>2. Deal(k, full, 0, 0, e, 0)
    BY <1>1, <1>2, <1>5, <1>7, <1>11, <1>14 DEF Deal
  <2>3. DealHeaders(k, full)
    BY <1>1, <1>7, <1>14 DEF DealHeaders
  <2>4. DealPieces(full, 0, e, sent[k - 1], 0, sent[k], gz)
    <3>1. ~full.on /\ ~full.decided /\ sent[k - 1] = 0
      BY <1>2, <1>7, <1>14
    <3>2. 0 + Len(Kept(full)) = sent[k]
      BY <1>2, <1>10, <1>14, <2>1
    <3> QED  BY <1>10, <1>14, <2>1, <3>1, <3>2 DEF DealPieces
  <2>5. /\ writers' = [writers EXCEPT ![k] = full]
        /\ calls' = On(k - 1, Three(0, Want, 0, e, 0)) \o Tail(calls)
    BY <1>3, <1>13, <1>14 DEF Forward
  <2>6. Dealt(got, sent, k, full, 0, 0, e, 0, 0, sent[k])
    BY <1>3, <1>4, <1>12, <1>14, <2>2, <2>3, <2>4, <2>5 DEF Dealt
  <2> QED  BY <2>6
<1>15. CASE /\ ~o.decided
            /\ Forward(Decided(full, TRUE), DecideCalls(full, TRUE))
            /\ headers' = DecidedHeaders(full, TRUE)
  <2>1. PICK w, b, s2 : /\ w = Decided(full, TRUE)
                        /\ b = IF ~Encodes(full, TRUE) /\ full.buf # <<>> THEN 1 ELSE 0
                        /\ s2 = IF Encodes(full, TRUE) THEN 0 ELSE Len(full.buf)
    OBVIOUS
  <2>2. /\ writers[k].decided = FALSE /\ writers[k].on = FALSE /\ full.held = <<>> /\ full.status = Want
        /\ Numbered(full.buf, 0, gz) /\ gz \in {0, 1} /\ (headers.encoding = "none" => gz = 0)
        /\ sent[k - 1] = 0
    BY <1>1, <1>2, <1>4, <1>5, <1>7, <1>10, <1>15
  <2>3. /\ Deal(k, w, 1, b, full.buf, 0)
        /\ DealHeaders(k, w)
        /\ DOMAIN headers' = {"type", "length", "encoding", "vary", "id"}
        /\ headers'.length \in Nat /\ headers'.encoding \in {"none", "gzip"} /\ headers'.vary \in BOOLEAN
        /\ DecideCalls(full, TRUE) = Three(1, Want, b, full.buf, 0)
        /\ DealPieces(w, b, full.buf, 0, s2, Len(full.buf), gz)
    <3> DEFINE b1 == IF ~Encodes(full, TRUE) /\ full.buf # <<>> THEN 1 ELSE 0
               s1 == IF Encodes(full, TRUE) THEN 0 ELSE Len(full.buf)
    <3>1. /\ Deal(k, Decided(full, TRUE), 1, b1, full.buf, 0)
          /\ DealHeaders(k, Decided(full, TRUE))
          /\ DOMAIN headers' = {"type", "length", "encoding", "vary", "id"}
          /\ headers'.length \in Nat /\ headers'.encoding \in {"none", "gzip"} /\ headers'.vary \in BOOLEAN
          /\ DecideCalls(full, TRUE) = Three(1, Want, b1, full.buf, 0)
          /\ DealPieces(Decided(full, TRUE), b1, full.buf, 0, s1, Len(full.buf), gz)
      <4>1. DecisionOf(k, full, TRUE, gz)
        BY <1>5, <1>7, <1>15, <2>2, DecisionDeals
      <4> QED  BY ONLY <4>1 DEF DecisionOf
    <3>2. w = Decided(full, TRUE) /\ b = b1 /\ s2 = s1
      BY <2>1
    <3> HIDE DEF b1, s1
    <3> QED  BY ONLY <3>1, <3>2
  <2>4. /\ writers' = [writers EXCEPT ![k] = w]
        /\ calls' = On(k - 1, Three(1, Want, b, full.buf, 0)) \o Tail(calls)
    BY <1>3, <1>15, <2>1, <2>3 DEF Forward
  <2>5. DealPieces(w, b, full.buf, sent[k - 1], s2, sent[k], gz)
    BY <1>10, <1>15, <2>2, <2>3
  <2>6. Dealt(got, sent, k, w, 1, b, full.buf, 0, s2, sent[k])
    BY <1>3, <1>4, <2>3, <2>4, <2>5 DEF Dealt
  <2> QED  BY <2>6
<1>16. CASE o.decided /\ o.on /\ Forward([o EXCEPT !.held = @ \o Zipped(q)], <<>>) /\ UNCHANGED headers
  <2>1. PICK z : z = Zipped(q)
    OBVIOUS
  <2>2. gz = 0 /\ z \in Seq(Piece) /\ Len(z) = Len(q) /\ Numbered(z, got[k], 1)
    BY <1>2, <1>4, <1>5, <1>16, <2>1, ZippedNumbers
  <2>3. PICK w : w = [o EXCEPT !.held = @ \o z]
    OBVIOUS
  <2>4. /\ w \in ACompressor /\ w.held = o.held \o z
        /\ w.decided = o.decided /\ w.on = o.on /\ w.buf = o.buf /\ w.status = o.status
    BY <1>2, <2>2, <2>3, HeldIs
  <2>5. Kept(o) = o.held /\ Kept(w) = w.held /\ Len(o.held) \in Nat
    BY <1>2, <1>16, <2>4 DEF Kept
  <2>6. /\ w.held \in Seq(Piece) /\ Len(w.held) = Len(o.held) + Len(z) /\ Numbered(w.held, sent[k - 1], 1)
    <3>1. Numbered(o.held, sent[k - 1], 1)
      BY <1>2, <1>16, <2>5
    <3>2. Numbered(z, sent[k - 1] + Len(o.held), 1)
      BY <1>2, <2>2, <2>5
    <3>3. o.held \in Seq(Piece) /\ z \in Seq(Piece) /\ sent[k - 1] \in Nat
      BY <1>2, <2>2
    <3>4. /\ o.held \o z \in Seq(Piece) /\ Len(o.held \o z) = Len(o.held) + Len(z)
          /\ Numbered(o.held \o z, sent[k - 1], 1)
      BY ONLY <3>1, <3>2, <3>3, JoinedNumbers
    <3> QED  BY ONLY <2>4, <3>4
  <2>7. Deal(k, w, 0, 0, e, 0)
    BY <1>1, <1>2, <1>5, <1>11, <1>16, <2>4 DEF Deal
  <2>8. DealHeaders(k, w)
    BY <1>1, <1>16, <2>4 DEF DealHeaders
  <2>9. DealPieces(w, 0, e, sent[k - 1], sent[k - 1], sent[k], gz)
    <3>1. sent[k - 1] + Len(Kept(w)) = sent[k]
      <4>1. Len(q) \in Nat /\ Len(z) = Len(q) /\ Len(w.held) = Len(o.held) + Len(z)
        BY <1>5, <2>2, <2>6
      <4>2. got[k] + Len(q) = sent[k] /\ sent[k - 1] + Len(o.held) = got[k] /\ Kept(w) = w.held
        BY <1>2, <1>5, <2>5
      <4>3. sent[k - 1] \in Nat /\ Len(o.held) \in Nat
        <5>1. PICK hh : hh = o.held
          OBVIOUS
        <5>2. hh \in Seq(Piece)
          BY <1>2, <5>1
        <5>3. Len(hh) \in Nat
          BY ONLY <5>2
        <5>4. sent[k - 1] \in Nat
          BY <1>2
        <5> QED  BY ONLY <5>1, <5>3, <5>4
      <4>4. PICK lq, lz, lw, lo, g, s1, s2 :
              /\ lq = Len(q) /\ lz = Len(z) /\ lw = Len(w.held) /\ lo = Len(o.held)
              /\ g = got[k] /\ s1 = sent[k - 1] /\ s2 = sent[k]
        OBVIOUS
      <4>5. /\ lq \in Nat /\ lz = lq /\ lw = lo + lz /\ g + lq = s2 /\ s1 + lo = g
            /\ s1 \in Nat /\ lo \in Nat
        BY ONLY <4>1, <4>2, <4>3, <4>4
      <4>6. s1 + lw = s2
        BY ONLY <4>5
      <4> QED  BY ONLY <4>2, <4>4, <4>6
    <3> QED  BY <1>2, <1>16, <2>4, <2>5, <2>6, <3>1 DEF DealPieces
  <2>10. /\ writers' = [writers EXCEPT ![k] = w]
         /\ calls' = On(k - 1, Three(0, Want, 0, e, 0)) \o Tail(calls)
    BY <1>3, <1>13, <1>16, <2>1, <2>3 DEF Forward
  <2>11. Dealt(got, sent, k, w, 0, 0, e, 0, sent[k - 1], sent[k])
    BY <1>3, <1>4, <1>12, <1>16, <2>7, <2>8, <2>9, <2>10 DEF Dealt
  <2> QED  BY <2>11
<1>17. CASE o.decided /\ ~o.on /\ Forward(o, <<calls[1].call>>) /\ UNCHANGED headers
  <2>1. Kept(o) = <<>> /\ got[k] = sent[k - 1]
    <3>1. Kept(o) = <<>>
      BY <1>2, <1>17 DEF Kept
    <3> QED  BY <1>2, <3>1
  <2>2. Deal(k, o, 0, 1, q, 0)
    BY <1>1, <1>2, <1>5, <1>17, <2>1 DEF Deal
  <2>3. DealHeaders(k, o)
    BY <1>1, <1>17 DEF DealHeaders
  <2>4. DealPieces(o, 1, q, sent[k - 1], sent[k], sent[k], gz)
    <3>1. Numbered(Kept(o), sent[k], gz) /\ sent[k] + Len(Kept(o)) = sent[k]
      BY <1>2, <2>1 DEF Numbered
    <3> QED  BY <1>2, <1>5, <1>17, <2>1, <3>1 DEF DealPieces
  <2>5. /\ writers' = [writers EXCEPT ![k] = o]
        /\ calls' = On(k - 1, Three(0, Want, 1, q, 0)) \o Tail(calls)
    BY <1>3, <1>13, <1>17 DEF Forward
  <2>6. Dealt(got, sent, k, o, 0, 1, q, 0, sent[k], sent[k])
    BY <1>3, <1>4, <1>12, <1>17, <2>2, <2>3, <2>4, <2>5 DEF Dealt
  <2> QED  BY <2>6
<1> QED  BY <1>9, <1>14, <1>15, <1>16, <1>17

\* compressor.Flush deals with a flush.
LEMMA FlushDeals ==
    ASSUME PipeTypes, NEW T \in Nat, NEW got, NEW sent, Flow(T, got, sent), NEW k \in 1..T, Compresses(k),
           calls # <<>>, calls[1].at = k, CompressorFlush
    PROVE  \E w, h, b, p, f, s2, g2 : Dealt(got, sent, k, w, h, b, p, f, s2, g2)
<1>1. PICK o, gz : o = writers[k] /\ gz = Gz(k)
  OBVIOUS
<1>2. /\ o \in ACompressor /\ o.decided \in BOOLEAN /\ o.on \in BOOLEAN
      /\ o.buf \in Seq(Piece) /\ o.held \in Seq(Piece)
      /\ (Told(k) <=> o.decided) /\ (Waits(k) <=> ~o.decided)
      /\ sent[k - 1] \in Nat /\ got[k] \in Nat /\ sent[k] \in Nat
      /\ sent[k - 1] + Len(Kept(o)) = got[k]
      /\ Numbered(Kept(o), sent[k - 1], IF o.on THEN 1 ELSE gz)
      /\ ~o.decided => sent[k - 1] = 0 /\ ~o.on
      /\ o.decided => o.buf = <<>>
      /\ ~o.on => o.held = <<>>
      /\ o.on => o.decided /\ gz = 0
      /\ headers.encoding = "none" => gz = 0
      /\ gz \in {0, 1}
  BY <1>1, CompressorIs
<1>3. Does(1, "flush") /\ Next1 = calls[1] /\ ~Does(1, "bytes") /\ ~Does(1, "header") /\ ~Does(1, "close")
  <2>1. Next1 = calls[1]
    BY DEF PipeTypes, Next1
  <2>2. Does(1, "flush")
    BY <2>1 DEF CompressorFlush, Is, Does
  <2> QED  BY <2>1, <2>2 DEF Does
<1>4. said.status # 0 /\ (~o.decided => o.status = Want) /\ got[k] = sent[k]
  BY <1>1, <1>2, <1>3, HeadIs
<1>5. Want \in Nat
  BY DEF Want, PipeTypes
<1>6. /\ Forward(Emptied(Settled(o, TRUE)), (SettledCalls(o, TRUE) \o EmptiedCalls(Settled(o, TRUE))) \o Flush)
      /\ headers' = IF o.decided THEN headers ELSE DecidedHeaders(o, TRUE)
  BY <1>1, <1>3 DEF CompressorFlush
<1>7. CASE o.decided
  <2>1. Settled(o, TRUE) = o /\ SettledCalls(o, TRUE) = <<>> /\ headers' = headers
    BY <1>6, <1>7 DEF Settled, SettledCalls
  <2>2. PICK w, p, b : w = Emptied(o) /\ p = o.held /\ b = IF o.on THEN 1 ELSE 0
    OBVIOUS
  <2>3. /\ w \in ACompressor /\ w.held = <<>>
        /\ w.decided = o.decided /\ w.on = o.on /\ w.buf = o.buf /\ w.status = o.status
    BY <1>2, <2>2, EmptiedIs
  <2>4. (SettledCalls(o, TRUE) \o EmptiedCalls(o)) \o Flush = Three(0, Want, b, p, 1)
    <3>1. /\ Three(0, Want, 0, p, 1) = (<<>> \o <<>>) \o Flush
          /\ Three(0, Want, 1, p, 1) = (<<>> \o Bytes(p)) \o Flush
      BY <1>2, <1>5, <2>2, ThreeForms
    <3>2. CASE o.on
      <4>1. EmptiedCalls(o) = Bytes(p) /\ b = 1
        BY <2>2, <3>2 DEF EmptiedCalls
      <4> QED  BY ONLY <2>1, <3>1, <4>1
    <3>3. CASE ~o.on
      <4>1. EmptiedCalls(o) = <<>> /\ b = 0
        BY <2>2, <3>3 DEF EmptiedCalls
      <4> QED  BY ONLY <2>1, <3>1, <4>1
    <3> QED  BY <3>2, <3>3
  <2>5. Kept(w) = <<>> /\ Kept(o) = p /\ Len(p) \in Nat
    BY <1>2, <1>7, <2>2, <2>3 DEF Kept
  <2>6. Deal(k, w, 0, b, p, 1)
    BY <1>1, <1>2, <1>4, <1>7, <2>2, <2>3, <2>5 DEF Deal
  <2>7. DealHeaders(k, w)
    BY <1>1, <2>1, <2>3 DEF DealHeaders
  <2>8. DealPieces(w, b, p, sent[k - 1], got[k], got[k], gz)
    <3>1. Numbered(Kept(w), got[k], IF w.on THEN 1 ELSE gz) /\ got[k] + Len(Kept(w)) = got[k]
      BY <1>2, <2>5 DEF Numbered
    <3>2. b = 1 => sent[k - 1] + Len(p) = got[k] /\ Numbered(p, sent[k - 1], IF w.on THEN 1 ELSE gz)
      BY <1>2, <2>3, <2>5
    <3>3. b = 0 => got[k] = sent[k - 1]
      BY <1>2, <2>2, <2>5
    <3> QED  BY <1>2, <1>7, <2>3, <3>1, <3>2, <3>3 DEF DealPieces
  <2>9. /\ writers' = [writers EXCEPT ![k] = w]
        /\ calls' = On(k - 1, Three(0, Want, b, p, 1)) \o Tail(calls)
    BY <1>3, <1>6, <2>1, <2>2, <2>4 DEF Forward
  <2>10. /\ DOMAIN headers' = {"type", "length", "encoding", "vary", "id"}
         /\ headers'.length \in Nat /\ headers'.encoding \in {"none", "gzip"} /\ headers'.vary \in BOOLEAN
    BY <2>1 DEF PipeTypes
  <2>11. Dealt(got, sent, k, w, 0, b, p, 1, got[k], got[k])
    BY <1>1, <1>3, <1>4, <2>6, <2>7, <2>8, <2>9, <2>10 DEF Dealt
  <2> QED  BY <2>11
<1>8. CASE ~o.decided
  <2>1. PICK d, b, s2 : /\ d = Decided(o, TRUE)
                        /\ b = IF ~Encodes(o, TRUE) /\ o.buf # <<>> THEN 1 ELSE 0
                        /\ s2 = IF Encodes(o, TRUE) THEN 0 ELSE Len(o.buf)
    OBVIOUS
  <2>2. Settled(o, TRUE) = d /\ SettledCalls(o, TRUE) = DecideCalls(o, TRUE) /\ headers' = DecidedHeaders(o, TRUE)
    BY <1>6, <1>8, <2>1 DEF Settled, SettledCalls
  <2>3. Kept(o) = o.buf /\ sent[k - 1] = 0 /\ ~o.on /\ Len(o.buf) \in Nat /\ Len(o.buf) = got[k]
    BY <1>2, <1>8 DEF Kept
  <2>4. /\ writers[k].decided = FALSE /\ writers[k].on = FALSE /\ o.held = <<>> /\ o.status = Want
        /\ Numbered(o.buf, 0, gz)
    BY <1>1, <1>2, <1>4, <1>8, <2>3
  <2>5. DecisionOf(k, o, TRUE, gz)
    BY <1>2, <1>4, <2>2, <2>4, DecisionDeals
  <2>6. /\ d \in ACompressor /\ d.decided /\ d.buf = <<>>
        /\ Deal(k, d, 1, b, o.buf, 0)
        /\ DealHeaders(k, d)
        /\ DOMAIN headers' = {"type", "length", "encoding", "vary", "id"}
        /\ headers'.length \in Nat /\ headers'.encoding \in {"none", "gzip"} /\ headers'.vary \in BOOLEAN
        /\ DecideCalls(o, TRUE) = Three(1, Want, b, o.buf, 0)
        /\ (d.on <=> Encodes(o, TRUE))
        /\ d.on => d.held \in Seq(Piece) /\ Len(d.held) = Len(o.buf) /\ Numbered(d.held, 0, 1)
        /\ ~d.on => d.held = <<>>
    BY ONLY <2>1, <2>5 DEF DecisionOf
  <2>7. PICK w : w = Emptied(d)
    OBVIOUS
  <2>8. /\ w \in ACompressor /\ w.held = <<>>
        /\ w.decided = d.decided /\ w.on = d.on /\ w.buf = d.buf /\ w.status = d.status
    BY <2>6, <2>7, EmptiedIs
  <2>9. d.on \in BOOLEAN /\ Kept(w) = <<>>
    BY <2>6, <2>8 DEF ACompressor, Kept
  <2>10. PICK p, b2 : /\ p = IF d.on THEN d.held ELSE o.buf
                      /\ b2 = IF d.on THEN 1 ELSE b
    OBVIOUS
  <2>11. p \in Seq(Piece) /\ b2 \in {0, 1} /\ Len(p) = got[k] /\ Numbered(p, 0, IF d.on THEN 1 ELSE gz)
    <3>1. b \in {0, 1}
      BY <2>1
    <3>2. CASE d.on
      BY <2>3, <2>6, <2>10, <3>2
    <3>3. CASE ~d.on
      BY <1>2, <2>3, <2>4, <2>10, <3>1, <3>3
    <3> QED  BY <3>2, <3>3
  <2>12. (DecideCalls(o, TRUE) \o EmptiedCalls(d)) \o Flush = Three(1, Want, b2, p, 1)
    <3>1. /\ Three(1, Want, 1, p, 1) = ((Status(Want) \o <<>>) \o Bytes(p)) \o Flush
          /\ Three(1, Want, 1, p, 1) = ((Status(Want) \o Bytes(p)) \o <<>>) \o Flush
          /\ Three(1, Want, 0, p, 1) = ((Status(Want) \o <<>>) \o <<>>) \o Flush
      BY <1>5, <2>11, ThreeForms
    <3>2. /\ Three(1, Want, 0, o.buf, 0) = Status(Want) \o <<>>
          /\ Three(1, Want, 1, o.buf, 0) = Status(Want) \o Bytes(o.buf)
      BY <1>2, <1>5, ThreeForms
    <3>3. CASE d.on
      <4>1. EmptiedCalls(d) = Bytes(p) /\ b2 = 1 /\ b = 0
        BY <2>1, <2>6, <2>10, <3>3 DEF EmptiedCalls
      <4>2. DecideCalls(o, TRUE) = Status(Want) \o <<>>
        BY ONLY <2>6, <3>2, <4>1
      <4> QED  BY ONLY <3>1, <4>1, <4>2
    <3>4. CASE ~d.on /\ b = 1
      <4>1. EmptiedCalls(d) = <<>> /\ b2 = 1 /\ p = o.buf
        BY <2>10, <3>4 DEF EmptiedCalls
      <4>2. DecideCalls(o, TRUE) = Status(Want) \o Bytes(p)
        BY ONLY <2>6, <3>2, <3>4, <4>1
      <4> QED  BY ONLY <3>1, <4>1, <4>2
    <3>5. CASE ~d.on /\ b = 0
      <4>1. EmptiedCalls(d) = <<>> /\ b2 = 0
        BY <2>10, <3>5 DEF EmptiedCalls
      <4>2. DecideCalls(o, TRUE) = Status(Want) \o <<>>
        BY ONLY <2>6, <3>2, <3>5
      <4> QED  BY ONLY <3>1, <4>1, <4>2
    <3> QED  BY <2>1, <3>3, <3>4, <3>5
  <2>13. Deal(k, w, 1, b2, p, 1)
    <3>1. w.decided /\ ~writers[k].decided /\ w.buf = <<>> /\ w.held = <<>> /\ Kept(w) = <<>>
      BY <1>1, <1>8, <2>6, <2>8, <2>9
    <3> QED  BY <1>4, <2>8, <2>11, <3>1 DEF Deal
  <2>14. DealHeaders(k, w)
    BY <2>6, <2>8 DEF DealHeaders
  <2>15. DealPieces(w, b2, p, sent[k - 1], got[k], got[k], gz)
    <3>1. Numbered(Kept(w), got[k], IF w.on THEN 1 ELSE gz) /\ got[k] + Len(Kept(w)) = got[k]
      BY <1>2, <2>9 DEF Numbered
    <3>2. b2 = 1 => sent[k - 1] + Len(p) = got[k] /\ Numbered(p, sent[k - 1], IF w.on THEN 1 ELSE gz)
      BY <1>2, <2>3, <2>8, <2>11
    <3>3. b2 = 0 => got[k] = sent[k - 1]
      <4> SUFFICES ASSUME b2 = 0
                  PROVE  got[k] = sent[k - 1]
        OBVIOUS
      <4>1. ~d.on /\ b = 0
        BY <2>10
      <4>2. o.buf = <<>>
        <5>1. ~Encodes(o, TRUE)
          BY ONLY <2>6, <4>1
        <5>2. CASE o.buf # <<>>
          BY ONLY <2>1, <4>1, <5>1, <5>2
        <5> QED  BY <5>2
      <4> QED  BY <2>3, <4>2
    <3> QED  BY <1>2, <2>6, <2>8, <3>1, <3>2, <3>3 DEF DealPieces
  <2>16. /\ writers' = [writers EXCEPT ![k] = w]
         /\ calls' = On(k - 1, Three(1, Want, b2, p, 1)) \o Tail(calls)
    BY <1>3, <1>6, <2>2, <2>7, <2>12 DEF Forward
  <2>17. Dealt(got, sent, k, w, 1, b2, p, 1, got[k], got[k])
    BY <1>1, <1>3, <1>4, <2>6, <2>13, <2>14, <2>15, <2>16 DEF Dealt
  <2> QED  BY <2>17
<1> QED  BY <1>2, <1>7, <1>8

\* What the actions of a compressor come to, before it is closed.
LEMMA CompressorActs ==
    ASSUME PipeTypes, Around, NEW T \in Nat, NEW got, NEW sent, Flow(T, got, sent),
           CompressorHeader \/ CompressorWrite \/ CompressorFlush
    PROVE  PipeTypes' /\ Around' /\ \E got2, sent2 \in [0..T -> Nat] : Flow(T, got2, sent2)'
<1>1. calls # <<>> /\ Next1 = calls[1]
  <2>1. calls # <<>>
    BY DEF CompressorHeader, CompressorWrite, CompressorFlush, Is
  <2> QED  BY <2>1 DEF PipeTypes, Next1
<1>2. PICK k : k = calls[1].at
  OBVIOUS
<1>3. /\ k \in 1..T /\ k \in 1..Len(writers) /\ Compresses(k) /\ ~Does(1, "close")
  <2>1. k > 0 /\ writers[k].kind = "compressor" /\ ~Does(1, "close")
    BY <1>1, <1>2 DEF CompressorHeader, CompressorWrite, CompressorFlush, Is, Does
  <2>2. k \in 0..T /\ T \in 0..Len(writers) /\ Len(writers) \in Nat
    BY <1>1, <1>2, HeadIs
  <2> QED  BY <2>1, <2>2 DEF Compresses
<1>4. PICK w, h, b, p, f, s2, g2 : Dealt(got, sent, k, w, h, b, p, f, s2, g2)
  <2>1. CASE CompressorHeader
    BY <1>1, <1>2, <1>3, <2>1, HeaderDeals
  <2>2. CASE CompressorWrite
    BY <1>1, <1>2, <1>3, <2>2, WriteDeals
  <2>3. CASE CompressorFlush
    BY <1>1, <1>2, <1>3, <2>3, FlushDeals
  <2> QED  BY <2>1, <2>2, <2>3
<1>5. /\ Deal(k, w, h, b, p, f) /\ DealHeaders(k, w)
      /\ writers' = [writers EXCEPT ![k] = w] /\ calls' = On(k - 1, Three(h, Want, b, p, f)) \o Tail(calls)
      /\ DOMAIN headers' = {"type", "length", "encoding", "vary", "id"}
      /\ headers'.length \in Nat /\ headers'.encoding \in {"none", "gzip"} /\ headers'.vary \in BOOLEAN
      /\ g2 = IF Does(1, "bytes") THEN sent[k] ELSE got[k]
      /\ DealPieces(w, b, p, sent[k - 1], s2, g2, Gz(k))
      /\ Does(1, "flush") => s2 = sent[k] /\ f = 1
  BY <1>4 DEF Dealt
<1>6. UNCHANGED <<chain, request, phase, layer, tops, script, said, panic, ctxID, log, span, wire>>
  BY DEF CompressorHeader, CompressorWrite, CompressorFlush, PipeRest, routeVars, sayVars, noteVars
<1>8. /\ \E got2, sent2 \in [0..T -> Nat] : Flow(T, got2, sent2)'
      /\ Three(h, Want, b, p, f) \in Seq(Call) /\ Len(writers') = Len(writers)
      /\ \A j \in 1..Len(writers) : Compresses(j)' = Compresses(j)
      /\ phase = "handling" => Gz(Len(writers))' = Gz(Len(writers))
  <2>1. UNCHANGED <<chain, request, phase, layer, tops, said, wire, panic>>
    BY <1>6
  <2> QED  BY <1>1, <1>2, <1>3, <1>4, <2>1, Deals
<1>7. PICK c : c = Three(h, Want, b, p, f) /\ c \in Seq(Call)
  BY <1>8
<1>9. PipeTypes'
  <2>1. w \in AWriter \cup ACompressor
    BY <1>5 DEF Deal
  <2>2. calls' = On(k - 1, c) \o Tail(calls)
    BY <1>5, <1>7
  <2> QED  BY <1>1, <1>3, <1>5, <1>6, <1>8, <2>1, <2>2, ForwardTypes
<1>10. Around'
  <2>1. /\ headers'.id = headers.id
        /\ \/ headers'.encoding = headers.encoding /\ headers'.length = headers.length
           \/ headers'.encoding = "gzip" /\ headers'.length = 0 /\ said.status # 0
    BY <1>5 DEF DealHeaders
  <2> QED  BY <1>1, <1>6, <1>8, <2>1, CallKeeps
<1> QED  BY <1>8, <1>9, <1>10

-----------------------------------------------------------------------------
(* The close of a compressor.                                               *)

\* A function that does not change from one number to the next does not change.
LEMMA NoChange ==
    ASSUME NEW f, NEW m \in Nat, NEW n \in Nat, \A j \in m..(n - 1) : f[j] = f[j + 1]
    PROVE  \A j \in m..n : f[j] = f[n]
<1> SUFFICES ASSUME NEW j \in m..n, f[j] # f[n]
            PROVE  FALSE
  OBVIOUS
<1> DEFINE S == {d \in Nat : d <= n - m /\ f[n - d] # f[n]}
           R == OpToRel(<, Nat)
<1>1. n - j \in S
  <2>1. n - j \in Nat /\ n - j <= n - m /\ n - (n - j) = j
    OBVIOUS
  <2> QED  BY <2>1
<1>2. S \subseteq Nat /\ S # {}
  BY <1>1
<1> HIDE DEF S, R
<1>3. PICK x \in S : \A y \in S : ~(<<y, x>> \in R)
  BY <1>2, NatLessThanWellFounded, WFMin DEF R
<1>4. \A y \in S : ~(y < x)
  BY <1>2, <1>3 DEF OpToRel, R
<1>5. x \in Nat /\ x <= n - m /\ f[n - x] # f[n]
  BY DEF S
<1>6. x # 0
  BY <1>5
<1>7. x - 1 \in Nat /\ x - 1 <= n - m /\ n - x \in m..(n - 1) /\ (n - x) + 1 = n - (x - 1) /\ x - 1 < x
  BY <1>5, <1>6
<1>8. f[n - x] = f[(n - x) + 1]
  BY <1>7
<1>9. f[n - (x - 1)] # f[n]
  BY <1>5, <1>7, <1>8
<1>10. x - 1 \in S
  BY <1>7, <1>9 DEF S
<1> QED  BY <1>4, <1>7, <1>10


\* What a close makes of a compressor: it becomes w, which keeps nothing, and lets a status or the pieces
\* p go on.
Shut(got, sent, k, w, h, b, p) ==
    /\ w \in ACompressor /\ h \in {0, 1} /\ b \in {0, 1} /\ p \in Seq(Piece)
    /\ h = 1 <=> ~Told(k)
    /\ h = 0 /\ b = 0 => ~Works(k)
    /\ b = 1 => /\ said.status # 0
                /\ sent[k - 1] + Len(p) = got[k]
                /\ Numbered(p, sent[k - 1], IF Works(k) THEN 1 ELSE Gz(k))
    /\ b = 0 => got[k] = sent[k - 1]
    /\ headers'.id = headers.id /\ (headers.vary => headers'.vary)
    /\ headers'.encoding = headers.encoding /\ headers'.length = headers.length
    /\ headers' = headers \/ ~Told(k)
    /\ DOMAIN headers' = {"type", "length", "encoding", "vary", "id"} /\ headers'.vary \in BOOLEAN
    /\ writers' = [writers EXCEPT ![k] = w] /\ calls' = On(k - 1, Three(h, Want, b, p, 0)) \o Tail(calls)

\* The close of the compressor at place k, the last that is live.
Closes(T, k) ==
    /\ T \in 0..Len(writers) /\ Len(writers) \in Nat /\ k \in 1..T /\ k \in Nat /\ k - 1 \in Nat
    /\ Compresses(k) /\ Len(calls) = 1 /\ DOMAIN calls = {1} /\ calls[1].at = k /\ Does(1, "close")
    /\ phase = "leaving"
    /\ \A j \in DOMAIN tops : j <= layer => tops[j] < k
    /\ \A m \in (k + 1)..T : ~Compresses(m)
    /\ UNCHANGED <<chain, request, phase, layer, tops, said, wire, panic>>
    /\ Len(writers') = Len(writers)
    /\ \A j \in 1..Len(writers) : Compresses(j)' = Compresses(j)
    /\ \A j \in 0..Len(writers) : j # k => Told(j)' = Told(j) /\ Waits(j)' = Waits(j)
    /\ \A j \in 1..Len(writers) : j # k => /\ Works(j)' = Works(j) /\ Stored(j)' = Stored(j)
                                           /\ writers'[j] = writers[j]

\* What it calls below.
Leaves(k, h, b, p) ==
    /\ h \in {0, 1} /\ b \in {0, 1}
    /\ DOMAIN calls' = 1..(h + b) /\ Len(calls') = h + b
    /\ \A i \in 1..(h + b) : calls'[i].at = k - 1
    /\ h = 1 => Does(1, "header")' /\ calls'[1].call.code = Want
    /\ b = 1 => Does(h + 1, "bytes")' /\ calls'[h + 1].call.pieces = p

\* A close comes to the last compressor that is live, and alone.
LEMMA CloseIs ==
    ASSUME PipeTypes, NEW T \in Nat, NEW got, NEW sent, Flow(T, got, sent),
           NEW k, calls # <<>>, calls[1].at = k, Does(1, "close"),
           NEW w, NEW h, NEW b, NEW p, Shut(got, sent, k, w, h, b, p),
           UNCHANGED <<chain, request, phase, layer, tops, said, wire, panic>>
    PROVE  Closes(T, k) /\ Leaves(k, h, b, p)
<1>1. /\ T \in 0..Len(writers) /\ Len(writers) \in Nat /\ k \in 0..T /\ 1 \in DOMAIN calls
  BY HeadIs
<1>2. Allowed(T, 1, k)
  <2>1. InOrder(T)
    BY DEF Flow
  <2> QED  BY <1>1, <2>1 DEF InOrder
<1>3. /\ Len(calls) = 1 /\ phase = "leaving" /\ k >= 1 /\ Compresses(k)
      /\ \A j \in DOMAIN tops : j <= layer => tops[j] < k
      /\ \A m \in (k + 1)..T : ~Compresses(m)
  BY <1>2 DEF Allowed
<1>4. DOMAIN calls = {1} /\ k \in 1..T /\ k \in 1..Len(writers) /\ k \in Nat /\ k - 1 \in Nat
  <2>1. DOMAIN calls = 1..1
    BY <1>3, CallTypes
  <2> QED  BY <1>1, <1>3, <2>1
<1>5. w.kind = "compressor" /\ writers' = [writers EXCEPT ![k] = w]
  BY DEF Shut, ACompressor
<1>6. /\ Len(writers') = Len(writers) /\ writers'[k] = w
      /\ \A j \in 1..Len(writers) : j # k => writers'[j] = writers[j]
  BY <1>4, <1>5 DEF PipeTypes
<1>7. \A j \in 1..Len(writers) : Compresses(j)' = Compresses(j)
  BY <1>3, <1>5, <1>6 DEF Compresses
<1>8. \A j \in 0..Len(writers) : j # k => Told(j)' = Told(j)
  BY <1>1, <1>6, <1>7 DEF Told, Compresses
<1>9. \A j \in 0..Len(writers) : j # k => Waits(j)' = Waits(j)
  BY <1>1, <1>6, <1>7 DEF Waits, Compresses
<1>10. \A j \in 1..Len(writers) : j # k => Works(j)' = Works(j)
  BY <1>6, <1>7 DEF Works, Compresses
<1>11. \A j \in 1..Len(writers) : j # k => Stored(j)' = Stored(j)
  BY <1>6, <1>7 DEF Stored, Compresses
<1>12. Closes(T, k)
  BY <1>1, <1>3, <1>4, <1>6, <1>7, <1>8, <1>9, <1>10, <1>11 DEF Closes
<1>13. Leaves(k, h, b, p)
  <2>1. PICK code, at, c : code = Want /\ at = k - 1 /\ c = Three(h, code, b, p, 0)
    OBVIOUS
  <2>2. h \in {0, 1} /\ b \in {0, 1} /\ p \in Seq(Piece) /\ code \in Nat
    BY <2>1 DEF Shut, Want, PipeTypes
  <2>3. Tail(calls) = <<>>
    <3>1. calls \in Seq([at : Nat, call : Call])
      BY DEF PipeTypes
    <3> DEFINE S == [at : Nat, call : Call]
    <3> HIDE DEF S
    <3>2. calls \in Seq(S) /\ Len(calls) = 1
      BY <1>3, <3>1 DEF S
    <3>3. PICK t : t = Tail(calls)
      OBVIOUS
    <3>6. calls # <<>>
      BY <3>2
    <3>4. t \in Seq(S) /\ Len(t) = 0
      BY ONLY <3>2, <3>3, <3>6
    <3>5. t = <<>>
      BY ONLY <3>4
    <3> QED  BY <3>3, <3>5
  <2>4. /\ c \in Seq(Call) /\ Len(c) = h + b /\ (h = 1 => c[1] = [do |-> "header", code |-> code])
        /\ (b = 1 => c[h + 1] = [do |-> "bytes", pieces |-> p])
    <3>1. /\ Three(0, code, 0, p, 0) = <<>> /\ Three(0, code, 1, p, 0) = Bytes(p)
          /\ Three(1, code, 0, p, 0) = Status(code) \o <<>>
          /\ Three(1, code, 1, p, 0) = Status(code) \o Bytes(p)
      BY ONLY <2>2, ThreeForms
    <3> DEFINE hc == [do |-> "header", code |-> code]
               bc == [do |-> "bytes", pieces |-> p]
    <3>2. hc \in Call /\ bc \in Call /\ Status(code) = <<hc>> /\ Bytes(p) = <<bc>>
      BY <2>2 DEF Call, Status, Bytes
    <3>3. /\ <<hc>> \in Seq(Call) /\ <<bc>> \in Seq(Call) /\ <<hc>> \o <<bc>> \in Seq(Call)
          /\ Len(<<hc>>) = 1 /\ Len(<<bc>>) = 1 /\ Len(<<hc>> \o <<bc>>) = 2
          /\ (<<hc>> \o <<bc>>)[1] = hc /\ (<<hc>> \o <<bc>>)[2] = bc /\ <<hc>>[1] = hc /\ <<bc>>[1] = bc
      <4> HIDE DEF hc, bc
      <4> QED  BY ONLY <3>2, RememberedCalls
    <3>4. <<hc>> \o <<>> = <<hc>>
      BY ONLY <3>3, NothingJoined
    <3>5. <<>> \in Seq(Call) /\ Len(<<>>) = 0
      OBVIOUS
    <3> HIDE DEF hc, bc
    <3>6. CASE h = 0 /\ b = 0
      <4>1. c = <<>>
        BY ONLY <2>1, <3>1, <3>6
      <4>2. h + b = 0
        BY ONLY <3>6
      <4> QED  BY ONLY <3>5, <3>6, <4>1, <4>2
    <3>7. CASE h = 0 /\ b = 1
      BY ONLY <2>1, <3>1, <3>2, <3>3, <3>7 DEF bc
    <3>8. CASE h = 1 /\ b = 0
      BY ONLY <2>1, <3>1, <3>2, <3>3, <3>4, <3>8 DEF hc
    <3>9. CASE h = 1 /\ b = 1
      <4>1. c = <<hc>> \o <<bc>>
        BY ONLY <2>1, <3>1, <3>2, <3>9
      <4>2. h + b = 2 /\ h + 1 = 2
        BY ONLY <3>9
      <4>3. c \in Seq(Call) /\ Len(c) = 2 /\ c[1] = hc /\ c[2] = bc
        BY ONLY <3>3, <4>1
      <4> QED  BY ONLY <4>2, <4>3 DEF hc, bc
    <3> QED  BY ONLY <2>2, <3>6, <3>7, <3>8, <3>9
  <2>5. PICK n : n = On(at, c)
    OBVIOUS
  <2>6. /\ n \in Seq([at : Nat, call : Call]) /\ Len(n) = h + b /\ DOMAIN n = 1..(h + b)
        /\ \A i \in 1..(h + b) : n[i] = [at |-> at, call |-> c[i]]
    <3>1. at \in Nat
      BY <1>4, <2>1
    <3>2. n = [i \in 1..Len(c) |-> [at |-> at, call |-> c[i]]]
      BY ONLY <2>5 DEF On
    <3>3. Len(c) \in Nat /\ \A i \in 1..Len(c) : c[i] \in Call
      BY ONLY <2>4
    <3>4. \A i \in 1..Len(c) : [at |-> at, call |-> c[i]] \in [at : Nat, call : Call]
      BY ONLY <3>1, <3>3
    <3> DEFINE S == [at : Nat, call : Call]
    <3> HIDE DEF S
    <3>5. n \in [1..Len(c) -> S]
      BY ONLY <3>2, <3>4 DEF S
    <3>6. n \in Seq(S) /\ Len(n) = Len(c) /\ DOMAIN n = 1..Len(c)
      BY ONLY <3>3, <3>5
    <3>7. \A i \in 1..Len(c) : n[i] = [at |-> at, call |-> c[i]]
      BY ONLY <3>2
    <3> QED  BY ONLY <2>4, <3>6, <3>7 DEF S
  <2>7. n \o <<>> = n
    BY ONLY <2>6, NothingJoined
  <2>8. calls' = n
    <3>1. calls' = On(k - 1, Three(h, Want, b, p, 0)) \o Tail(calls)
      BY DEF Shut
    <3> QED  BY ONLY <2>1, <2>3, <2>5, <2>7, <3>1
  <2>9. \A i \in 1..(h + b) : n[i].at = at /\ n[i].call = c[i]
    BY ONLY <2>6
  <2>10. (h = 1 => 1 \in 1..(h + b)) /\ (b = 1 => h + 1 \in 1..(h + b))
    BY ONLY <2>2
  <2>11. h = 1 => n[1].call.do = "header" /\ n[1].call.code = code
    BY ONLY <2>4, <2>9, <2>10
  <2>12. b = 1 => n[h + 1].call.do = "bytes" /\ n[h + 1].call.pieces = p
    BY ONLY <2>4, <2>9, <2>10
  <2>13. /\ DOMAIN n = 1..(h + b) /\ Len(n) = h + b
         /\ \A i \in 1..(h + b) : n[i].at = k - 1
         /\ h = 1 => n[1].call.do = "header" /\ n[1].call.code = Want
         /\ b = 1 => n[h + 1].call.do = "bytes" /\ n[h + 1].call.pieces = p
    BY ONLY <2>1, <2>6, <2>9, <2>11, <2>12
  <2> QED  BY ONLY <2>2, <2>8, <2>13 DEF Leaves, Does
<1> QED  BY <1>12, <1>13

\* Below a compressor that is closed pieces stay as compressed as it made them.
LEMMA CloseGz ==
    ASSUME NEW T, NEW got, NEW sent, NEW k, NEW w, NEW h, NEW b, NEW p, Compressing(T),
           Closes(T, k), Shut(got, sent, k, w, h, b, p)
    PROVE  /\ \A j \in 0..(k - 1) : Gz(j)' = Gz(j)
           /\ Gz(k - 1)' = IF Works(k) THEN 1 ELSE Gz(k)
<1>1. /\ T \in 0..Len(writers) /\ Len(writers) \in Nat /\ k \in 1..T /\ k \in Nat /\ k - 1 \in Nat
      /\ \A j \in 1..Len(writers) : j # k => Works(j)' = Works(j)
      /\ headers'.encoding = headers.encoding /\ Compresses(k)
  BY DEF Closes, Shut
<1>2. ASSUME NEW j \in 0..(k - 1)
      PROVE  Gz(j)' = Gz(j)
  <2>1. \A m \in 1..j : m \in 1..Len(writers) /\ m # k
    BY <1>1, <1>2
  <2>2. (\A m \in 1..j : ~Works(m)') <=> (\A m \in 1..j : ~Works(m))
    BY <1>1, <2>1
  <2> QED  BY <1>1, <2>2 DEF Gz
<1>3. k - 1 \in 0..(k - 1)
  BY <1>1
<1>4. CASE Works(k)
  <2>1. headers.encoding = "gzip"
    BY <1>1, <1>4 DEF Compressing, Works
  <2>2. \A j \in 1..(k - 1) : j \in 1..T /\ j # k
    BY <1>1
  <2>3. \A j \in 1..(k - 1) : ~Works(j)
    BY <1>1, <1>4, <2>2 DEF Compressing
  <2>4. Gz(k - 1) = 1
    BY <2>1, <2>3 DEF Gz
  <2> QED  BY <1>2, <1>3, <1>4, <2>4
<1>5. CASE ~Works(k)
  <2>1. Gz(k - 1) = Gz(k)
    <3>1. k \in Nat \ {0}
      BY <1>1
    <3> QED  BY ONLY <1>5, <3>1, GzBelow
  <2> QED  BY <1>2, <1>3, <1>5, <2>1
<1> QED  BY <1>2, <1>4, <1>5

\* The place below the closed compressor is the last that is live.
LEMMA CloseLive ==
    ASSUME NEW T, NEW got, NEW sent, NEW k, NEW w, NEW h, NEW b, NEW p, PipeTypes, Live(T), Places,
           Closes(T, k), Shut(got, sent, k, w, h, b, p)
    PROVE  Live(k - 1)'
<1>1. /\ T \in 0..Len(writers) /\ Len(writers) \in Nat /\ k \in 1..T /\ k \in Nat /\ k - 1 \in Nat
      /\ Compresses(k) /\ calls[1].at = k
      /\ phase = "leaving" /\ phase' = phase /\ tops' = tops /\ layer' = layer /\ chain' = chain
      /\ \A j \in DOMAIN tops : j <= layer => tops[j] < k
      /\ \A m \in (k + 1)..T : ~Compresses(m)
      /\ Len(writers') = Len(writers) /\ \A j \in 1..Len(writers) : Compresses(j)' = Compresses(j)
  BY DEF Closes
<1>2. \A i \in DOMAIN tops : i <= layer => tops[i] <= k - 1
  <2>1. \A i \in DOMAIN tops : tops[i] \in 0..Len(writers)
    BY DEF Places
  <2>2. \A n \in 0..Len(writers) : n < k => n <= k - 1
    BY <1>1
  <2> QED  BY <1>1, <2>1, <2>2
<1>3. \A m \in 1..(k - 1) : Compresses(m) =>
          \E i \in DOMAIN tops : i <= layer /\ chain[i] = "compress" /\ tops[i] = m
  <2>1. \A m \in 1..(k - 1) : m \in 1..T /\ m # k
    BY <1>1
  <2>2. \A m \in 1..T : Compresses(m) =>
          \/ Closing(m)
          \/ \E i \in DOMAIN tops : i <= layer /\ chain[i] = "compress" /\ tops[i] = m
    BY DEF Live
  <2>3. \A m \in 1..(k - 1) : ~Closing(m)
    BY <1>1, <2>1 DEF Closing
  <2> QED  BY <2>1, <2>2, <2>3
<1>4. \A m \in k..Len(writers) : Compresses(m) =>
          \E i \in DOMAIN tops : i > layer /\ chain[i] = "compress" /\ tops[i] = m
  <2>1. \A m \in (T + 1)..Len(writers) : Compresses(m) =>
          \E i \in DOMAIN tops : i > layer /\ chain[i] = "compress" /\ tops[i] = m
    BY DEF Live
  <2>2. \E i \in DOMAIN tops : i > layer /\ chain[i] = "compress" /\ tops[i] = k
    <3>1. PICK i \in DOMAIN tops : chain[i] = "compress" /\ tops[i] = k
      BY <1>1 DEF Places
    <3>2. ~(tops[i] < k)
      BY <1>1, <3>1
    <3>3. ~(i <= layer)
      BY <1>1, <3>2
    <3>4. i \in Nat /\ layer \in Nat
      <4>1. tops \in Seq(Nat) /\ layer \in Nat
        BY DEF PipeTypes
      <4> QED  BY <3>1, <4>1
    <3>5. i > layer
      BY <3>3, <3>4
    <3> QED  BY <3>1, <3>5
  <2>3. \A m \in k..Len(writers) : m = k \/ m \in (k + 1)..T \/ m \in (T + 1)..Len(writers)
    BY <1>1
  <2> QED  BY <1>1, <2>1, <2>2, <2>3
<1>5. k - 1 \in 0..Len(writers) /\ (k - 1) + 1 = k /\ \A m \in 1..Len(writers) : m \in 1..(k - 1) \/ m \in k..Len(writers)
  BY <1>1
<1>6. \A m \in k..Len(writers) : m \in 1..Len(writers)
  BY <1>1
<1>7. \A m \in 1..(k - 1) : m \in 1..Len(writers)
  BY <1>1
<1>8. Compresses(k)' /\ k \in 1..Len(writers)
  BY <1>1
<1> QED  BY <1>1, <1>2, <1>3, <1>4, <1>5, <1>6, <1>7, <1>8 DEF Live

\* What had been told around the compressor.
LEMMA CloseTold ==
    ASSUME NEW T, NEW k, GoesDown(T), Closes(T, k)
    PROVE  /\ ~Told(k) => \A j \in 0..(k - 1) : ~Told(j)
           /\ \A j \in 0..(k - 1) : Told(j)' = Told(j) /\ Waits(j)' = Waits(j)
           /\ \A j, m \in 0..(k - 1) : j < m => /\ Told(j) => Told(m)
                                                /\ Told(m) => Told(j) \/ \E n \in j..(m - 1) : Waits(n)
           /\ Told(k) => \A j \in 0..(k - 1) : Told(j) \/ \E n \in j..(k - 1) : Waits(n)
           /\ \A m \in 0..k : Tells(k - 1, m)' = IF m = k THEN TRUE ELSE Told(m)
<1>1. /\ T \in 0..Len(writers) /\ Len(writers) \in Nat /\ k \in 1..T /\ k \in Nat /\ k - 1 \in Nat
      /\ DOMAIN calls = {1} /\ calls[1].at = k /\ Len(writers') = Len(writers)
      /\ \A j \in 0..Len(writers) : j # k => Told(j)' = Told(j) /\ Waits(j)' = Waits(j)
  BY DEF Closes
<1>2. \A j \in 0..(k - 1) : j \in 0..Len(writers) /\ j # k /\ j \in 0..(T + 1) /\ j # T + 1 /\ j < k /\ j \in Nat
  BY <1>1
<1>3. k \in 0..(T + 1) /\ k # T + 1
  BY <1>1
<1>4. \A j \in 0..(k - 1) : Tells(T, j) = Told(j)
  BY <1>2 DEF Tells
<1>5. Tells(T, k) = Told(k)
  BY <1>3 DEF Tells
<1>6. \A j \in 0..(k - 1) : Stops(j) <=> Waits(j)
  BY <1>1, <1>2 DEF Stops
<1>7. \A j, m \in 0..(T + 1) : j < m => /\ Tells(T, j) => Tells(T, m)
                                        /\ Tells(T, m) => Told(j) \/ \E n \in j..(m - 1) : Stops(n)
  BY DEF GoesDown
<1>8. ~Told(k) => \A j \in 0..(k - 1) : ~Told(j)
  BY <1>2, <1>3, <1>4, <1>5, <1>7
<1>9. \A j \in 0..(k - 1) : Told(j)' = Told(j) /\ Waits(j)' = Waits(j)
  BY <1>1, <1>2
<1>10. ASSUME NEW j \in 0..(k - 1), NEW m \in 0..(k - 1), j < m
       PROVE  /\ Told(j) => Told(m)
              /\ Told(m) => Told(j) \/ \E n \in j..(m - 1) : Waits(n)
  <2>1. /\ Told(j) => Told(m)
        /\ Told(m) => Told(j) \/ \E n \in j..(m - 1) : Stops(n)
    BY <1>2, <1>4, <1>7, <1>10
  <2>2. \A n \in j..(m - 1) : n \in 0..(k - 1)
    BY <1>1
  <2> QED  BY <1>6, <2>1, <2>2
<1>11. ASSUME Told(k), NEW j \in 0..(k - 1)
       PROVE  Told(j) \/ \E n \in j..(k - 1) : Waits(n)
  <2>1. Told(j) \/ \E n \in j..(k - 1) : Stops(n)
    BY <1>2, <1>3, <1>5, <1>7, <1>11
  <2>2. \A n \in j..(k - 1) : n \in 0..(k - 1)
    BY <1>1
  <2> QED  BY <1>6, <2>1, <2>2
<1>12. ASSUME NEW m \in 0..k
       PROVE  Tells(k - 1, m)' = IF m = k THEN TRUE ELSE Told(m)
  <2>1. CASE m = k
    <3>1. (k - 1) + 1 = k /\ k - 1 < Len(writers)'
      BY <1>1
    <3> QED  BY <2>1, <3>1 DEF Tells
  <2>2. CASE m # k
    <3>1. m \in 0..(k - 1) /\ m # (k - 1) + 1
      BY <1>1, <2>2
    <3>2. Tells(k - 1, m)' = Told(m)'
      BY <3>1 DEF Tells
    <3> QED  BY <1>9, <2>2, <3>1, <3>2
  <2> QED  BY <2>1, <2>2
<1> QED  BY <1>8, <1>9, <1>10, <1>11, <1>12

\* The calls of a close are in order.
LEMMA CloseInOrder ==
    ASSUME NEW T, NEW got, NEW sent, NEW k, NEW w, NEW h, NEW b, NEW p, PipeTypes, GoesDown(T),
           Closes(T, k), Shut(got, sent, k, w, h, b, p), Leaves(k, h, b, p)
    PROVE  InOrder(k - 1)'
<1>1. /\ k \in Nat /\ k - 1 \in Nat /\ said' = said
      /\ h \in {0, 1} /\ b \in {0, 1}
      /\ DOMAIN calls' = 1..(h + b)
      /\ \A i \in 1..(h + b) : calls'[i].at = k - 1
      /\ h = 1 => Does(1, "header")' /\ calls'[1].call.code = Want
      /\ b = 1 => Does(h + 1, "bytes")' /\ calls'[h + 1].call.pieces = p
      /\ h = 1 <=> ~Told(k)
      /\ b = 1 => said.status # 0
  BY DEF Closes, Shut, Leaves
<1>2. /\ ~Told(k) => ~Told(k - 1)
      /\ Told(k) => Told(k - 1) \/ Waits(k - 1)
      /\ Told(k - 1)' = Told(k - 1) /\ Waits(k - 1)' = Waits(k - 1)
      /\ Tells(k - 1, k)'
  <2>1. /\ ~Told(k) => \A j \in 0..(k - 1) : ~Told(j)
        /\ \A j \in 0..(k - 1) : Told(j)' = Told(j) /\ Waits(j)' = Waits(j)
        /\ Told(k) => \A j \in 0..(k - 1) : Told(j) \/ \E n \in j..(k - 1) : Waits(n)
        /\ \A m \in 0..k : Tells(k - 1, m)' = IF m = k THEN TRUE ELSE Told(m)
    BY CloseTold
  <2>2. k - 1 \in 0..(k - 1) /\ k \in 0..k /\ \A n \in (k - 1)..(k - 1) : n = k - 1
    BY <1>1
  <2> QED  BY <2>1, <2>2
<1>3. ASSUME NEW i \in 1..(h + b)
      PROVE  \/ i = 1 /\ h = 1 /\ Does(i, "header")' /\ calls'[i].call.code = Want
             \/ i = h + 1 /\ b = 1 /\ Does(i, "bytes")'
  <2>1. (i = 1 /\ h = 1) \/ (i = h + 1 /\ b = 1)
    BY <1>1
  <2> QED  BY <1>1, <2>1
<1>4. Want' = Want
  BY <1>1 DEF Want
<1>5. h = 1 => HeaderComes(k - 1)'
  <2>1. h = 1 => 1 \in DOMAIN calls'
    BY <1>1
  <2>2. h = 1 => calls' # <<>>
    BY <2>1
  <2>3. h = 1 => calls'[1].at >= k - 1
    BY <1>1, <2>1
  <2> QED  BY <1>1, <2>2, <2>3 DEF HeaderComes
<1>6. ASSUME NEW i \in DOMAIN calls'
      PROVE  Allowed(k - 1, i, k - 1)'
  <2>0. \/ i = 1 /\ h = 1 /\ Does(i, "header")' /\ calls'[i].call.code = Want
        \/ i = h + 1 /\ b = 1 /\ Does(i, "bytes")'
    BY <1>1, <1>3, <1>6
  <2>1. Does(i, "header")' => i = 1 /\ calls'[i].call.code = Want' /\ ~Told(k - 1)'
    BY <1>1, <1>2, <1>4, <2>0 DEF Does
  <2>2. ~Does(i, "close")' /\ ~Does(i, "flush")'
    BY <2>0 DEF Does
  <2>3. Does(i, "bytes")' => /\ said'.status # 0
                             /\ Told(k - 1)' \/ Waits(k - 1)' \/ Want' = 200 \/ HeaderComes(k - 1)'
    BY <1>1, <1>2, <1>5, <2>0 DEF Does
  <2>4. \A m \in ((k - 1) + 1)..((k - 1) + 1) : Tells(k - 1, m)'
    <3>1. \A m \in ((k - 1) + 1)..((k - 1) + 1) : m = k
      BY <1>1
    <3> QED  BY <1>2, <3>1
  <2> QED  BY <2>1, <2>2, <2>3, <2>4 DEF Allowed
<1>7. \A i \in DOMAIN calls' : calls'[i].at = k - 1
  BY <1>1
<1>8. ASSUME NEW i \in DOMAIN calls', NEW j \in DOMAIN calls', i < j
      PROVE  Rank(calls'[i].call.do) < Rank(calls'[j].call.do)
  <2>1. i = 1 /\ j = 2 /\ h = 1 /\ b = 1
    BY <1>1, <1>8
  <2>2. calls'[i].call.do = "header" /\ calls'[j].call.do = "bytes"
    BY <1>1, <2>1 DEF Does
  <2> QED  BY <2>2 DEF Rank
<1> QED
  <2>1. \A i \in DOMAIN calls' : calls'[i].at <= k - 1
    BY <1>1, <1>7
  <2>2. \A i \in DOMAIN calls' : \A m \in 0..(k - 1) : calls'[i].at = m => Allowed(k - 1, i, m)'
    <3>1. ASSUME NEW i \in DOMAIN calls', NEW m \in 0..(k - 1), calls'[i].at = m
          PROVE  Allowed(k - 1, i, m)'
      <4>1. m = k - 1
        BY <1>7, <3>1
      <4> QED  BY <1>6, <4>1
    <3> QED  BY <3>1
  <2>3. \A i, j \in DOMAIN calls' : i < j =>
          /\ calls'[i].at <= calls'[j].at
          /\ calls'[i].at = calls'[j].at => Rank(calls'[i].call.do) < Rank(calls'[j].call.do)
    BY <1>1, <1>7, <1>8
  <2> QED  BY <2>1, <2>2, <2>3 DEF InOrder

\* A close tells the status that waited.
LEMMA CloseGoesDown ==
    ASSUME NEW T, NEW got, NEW sent, NEW k, NEW w, NEW h, NEW b, NEW p, PipeTypes, GoesDown(T),
           Closes(T, k), Shut(got, sent, k, w, h, b, p), Leaves(k, h, b, p)
    PROVE  GoesDown(k - 1)'
<1>1. /\ k \in Nat /\ k - 1 \in Nat /\ k \in 1..T
      /\ h \in {0, 1} /\ b \in {0, 1} /\ DOMAIN calls' = 1..(h + b)
      /\ \A i \in 1..(h + b) : calls'[i].at = k - 1
      /\ h = 1 <=> ~Told(k)
  BY DEF Closes, Shut, Leaves
<1>2. /\ ~Told(k) => \A j \in 0..(k - 1) : ~Told(j)
      /\ \A j \in 0..(k - 1) : Told(j)' = Told(j) /\ Waits(j)' = Waits(j)
      /\ \A j, m \in 0..(k - 1) : j < m => /\ Told(j) => Told(m)
                                           /\ Told(m) => Told(j) \/ \E n \in j..(m - 1) : Waits(n)
      /\ Told(k) => \A j \in 0..(k - 1) : Told(j) \/ \E n \in j..(k - 1) : Waits(n)
      /\ \A m \in 0..k : Tells(k - 1, m)' = IF m = k THEN TRUE ELSE Told(m)
  BY CloseTold
<1>3. (k - 1) + 1 = k
  BY <1>1
<1>4. \A n \in 0..(k - 1) : Waits(n) => Stops(n)'
  BY <1>2 DEF Stops
<1>5. h = 1 => Stops(k - 1)'
  <2>1. h = 1 => 1 \in DOMAIN calls' /\ calls'[1].at = k - 1
    BY <1>1
  <2> QED  BY <2>1 DEF Stops
<1>6. ASSUME NEW j \in 0..k, NEW m \in 0..k, j < m
      PROVE  /\ Tells(k - 1, j)' => Tells(k - 1, m)'
             /\ Tells(k - 1, m)' => Told(j)' \/ \E n \in j..(m - 1) : Stops(n)'
  <2>1. j \in 0..(k - 1) /\ j # k
    BY <1>1, <1>6
  <2>2. CASE m = k
    <3>1. Tells(k - 1, m)'
      BY <1>2, <2>2
    <3>2. CASE Told(k)
      <4>1. Told(j) \/ \E n \in j..(k - 1) : Waits(n)
        BY <1>2, <2>1, <3>2
      <4>2. \A n \in j..(k - 1) : n \in 0..(k - 1)
        BY <1>1, <2>1
      <4>3. Told(j)' \/ \E n \in j..(k - 1) : Stops(n)'
        BY <1>2, <1>4, <2>1, <4>1, <4>2
      <4> QED  BY <2>2, <3>1, <4>3
    <3>3. CASE ~Told(k)
      <4>1. k - 1 \in j..(m - 1)
        BY <1>1, <2>1, <2>2
      <4> QED  BY <1>1, <1>5, <3>1, <3>3, <4>1
    <3> QED  BY <3>2, <3>3
  <2>3. CASE m # k
    <3>1. m \in 0..(k - 1)
      BY <1>1, <2>3
    <3>2. /\ Told(j) => Told(m)
          /\ Told(m) => Told(j) \/ \E n \in j..(m - 1) : Waits(n)
      BY <1>2, <1>6, <2>1, <3>1
    <3>3. \A n \in j..(m - 1) : n \in 0..(k - 1)
      BY <1>1, <2>1, <3>1
    <3>4. (Tells(k - 1, j)' <=> Told(j)) /\ (Tells(k - 1, m)' <=> Told(m)) /\ (Told(j)' <=> Told(j))
      BY <1>2, <2>1, <2>3
    <3> QED  BY <1>4, <3>2, <3>3, <3>4
  <2> QED  BY <2>2, <2>3
<1> QED  BY <1>3, <1>6 DEF GoesDown

\* The status that a close tells is the one that is wanted.
LEMMA CloseStatusIs ==
    ASSUME NEW T, NEW got, NEW sent, NEW k, NEW w, NEW h, NEW b, NEW p, PipeTypes, GoesDown(T), StatusIs(T),
           Closes(T, k), Shut(got, sent, k, w, h, b, p), Leaves(k, h, b, p)
    PROVE  StatusIs(k - 1)'
<1>1. /\ k \in Nat /\ k - 1 \in Nat /\ k \in 1..T /\ T \in 0..Len(writers) /\ Len(writers) \in Nat
      /\ said' = said /\ wire' = wire
      /\ h \in {0, 1} /\ b \in {0, 1} /\ DOMAIN calls' = 1..(h + b)
      /\ \A i \in 1..(h + b) : calls'[i].at = k - 1
      /\ h = 1 => Does(1, "header")'
      /\ h = 1 <=> ~Told(k)
      /\ headers' = headers \/ ~Told(k)
      /\ \A j \in 1..Len(writers) : Compresses(j)' = Compresses(j)
      /\ \A j \in 0..Len(writers) : j # k => Told(j)' = Told(j) /\ Waits(j)' = Waits(j)
      /\ \A j \in 1..Len(writers) : j # k => writers'[j] = writers[j]
      /\ \A m \in (k + 1)..T : ~Compresses(m)
      /\ Does(1, "close")
  BY DEF Closes, Shut, Leaves
<1>2. Want' = Want
  BY <1>1 DEF Want
<1>3. \A m \in 1..(k - 1) : m \in 1..T /\ m \in 1..Len(writers) /\ m \in 0..Len(writers) /\ m # k
  BY <1>1
<1>4. \A m \in 1..(k - 1) : ~Compresses(m)' => writers'[m].status = IF writers'[m].wrote THEN Want' ELSE 200
  BY <1>1, <1>2, <1>3 DEF StatusIs
<1>5. ASSUME NEW m \in 1..(k - 1), Waits(m)'
      PROVE  \/ writers'[m].status = Want'
             \/ /\ writers'[m].status = 200
                /\ HeaderComes(m)' \/ \E n \in (m + 1)..(k - 1) : Waits(n)'
  <2>1. Waits(m) /\ writers'[m] = writers[m]
    BY <1>1, <1>3, <1>5
  <2>2. \/ writers[m].status = Want
        \/ /\ writers[m].status = 200
           /\ HeaderComes(m) \/ \E n \in (m + 1)..T : Waits(n)
    BY <1>3, <2>1 DEF StatusIs
  <2>3. ~HeaderComes(m)
    BY <1>1 DEF HeaderComes, Does
  <2>4. ASSUME NEW n \in (m + 1)..T, Waits(n)
        PROVE  HeaderComes(m)' \/ \E l \in (m + 1)..(k - 1) : Waits(l)'
    <3>1. n <= k
      BY <1>1, <2>4 DEF Waits
    <3>2. CASE n = k
      <4>1. ~Told(k)
        BY <2>4, <3>2 DEF Waits, Told
      <4>2. h = 1 /\ 1 \in DOMAIN calls'
        BY <1>1, <4>1
      <4>3. calls' # <<>> /\ calls'[1].at >= m
        BY <1>1, <4>2
      <4> QED  BY <1>1, <4>2, <4>3 DEF HeaderComes
    <3>3. CASE n # k
      <4>1. n \in (m + 1)..(k - 1) /\ n \in 0..Len(writers)
        BY <1>1, <3>1, <3>3
      <4> QED  BY <1>1, <2>4, <3>3, <4>1
    <3> QED  BY <3>2, <3>3
  <2> QED  BY <1>2, <2>1, <2>2, <2>3, <2>4
<1>6. wire'.status # 0 => wire'.status = Want' /\ wire'.headers = headers'
  <2> SUFFICES ASSUME wire.status # 0
              PROVE  wire.status = Want /\ wire.headers = headers'
    BY <1>1, <1>2
  <2>1. wire.status = Want /\ wire.headers = headers
    BY DEF StatusIs
  <2>2. Told(0)
    BY DEF Told
  <2>3. Told(k)
    <3>1. ~Told(k) => \A j \in 0..(k - 1) : ~Told(j)
      BY CloseTold
    <3> QED  BY <1>1, <2>2, <3>1
  <2> QED  BY <1>1, <2>1, <2>3
<1> QED  BY <1>4, <1>5, <1>6 DEF StatusIs

\* At most one compressor is at work after a close.
LEMMA CloseCompressing ==
    ASSUME NEW T, NEW got, NEW sent, NEW k, NEW w, NEW h, NEW b, NEW p, Compressing(T),
           Closes(T, k), Shut(got, sent, k, w, h, b, p)
    PROVE  Compressing(k - 1)'
<1>1. /\ k \in Nat /\ k - 1 \in Nat /\ k \in 1..T /\ T \in 0..Len(writers) /\ Len(writers) \in Nat
      /\ said' = said /\ (headers.vary => headers'.vary)
      /\ headers'.encoding = headers.encoding /\ headers'.length = headers.length
      /\ \A j \in 1..Len(writers) : Compresses(j)' = Compresses(j)
      /\ \A j \in 1..Len(writers) : j # k => /\ Works(j)' = Works(j) /\ Stored(j)' = Stored(j)
                                             /\ writers'[j] = writers[j]
  BY DEF Closes, Shut
<1>2. \A m \in 1..(k - 1) : m \in 1..T /\ m \in 1..Len(writers) /\ m # k
  BY <1>1
<1>3. ASSUME NEW m \in 1..(k - 1), Compresses(m)'
      PROVE  /\ writers'[m].decided => writers'[m].buf = <<>>
             /\ ~writers'[m].on => writers'[m].held = <<>>
             /\ writers'[m].on => /\ writers'[m].decided /\ said'.status # 0
                                  /\ headers'.encoding = "gzip" /\ headers'.vary /\ headers'.length = 0
             /\ Stored(m)' # <<>> => said'.status # 0
  BY <1>1, <1>2, <1>3 DEF Compressing
<1>4. \A j, l \in 1..(k - 1) : Works(j)' /\ Works(l)' => j = l
  BY <1>1, <1>2 DEF Compressing
<1> QED  BY <1>3, <1>4 DEF Compressing

\* What was said is as compressed after the close as before.
LEMMA CloseSaidIs ==
    ASSUME NEW T, NEW got, NEW sent, NEW k, NEW w, NEW h, NEW b, NEW p, Compressing(T), SaidIs(T),
           Closes(T, k), Shut(got, sent, k, w, h, b, p)
    PROVE  SaidIs(k - 1)'
<1>1. /\ k \in Nat /\ k - 1 \in Nat /\ k \in 1..T /\ T \in 0..Len(writers) /\ Len(writers) \in Nat
      /\ said' = said /\ (headers.vary => headers'.vary) /\ headers'.encoding = headers.encoding
      /\ phase' = phase /\ panic' = panic /\ Len(writers') = Len(writers)
      /\ Compresses(k) /\ \A j \in 1..Len(writers) : Compresses(j)' = Compresses(j)
  BY DEF Closes, Shut
<1>2. \A j \in 0..(k - 1) : Gz(j)' = Gz(j) /\ j \in 0..T
  BY <1>1, CloseGz
<1>3. ~(\A m \in ((k - 1) + 1)..Len(writers') : ~Compresses(m)')
  <2>1. k \in ((k - 1) + 1)..Len(writers') /\ k \in 1..Len(writers)
    BY <1>1
  <2> QED  BY <1>1, <2>1
<1>4. ASSUME NEW x \in DOMAIN said'.body
      PROVE  /\ said'.body[x].gz \in {0, 1}
             /\ \A j \in 0..(k - 1) : said'.body[x].gz = Gz(j)' \/ headers'.vary
             /\ (\A m \in ((k - 1) + 1)..Len(writers') : ~Compresses(m)') => said'.body[x].gz = Gz(k - 1)'
  <2>1. /\ said.body[x].gz \in {0, 1}
        /\ \A j \in 0..T : said.body[x].gz = Gz(j) \/ headers.vary
    BY <1>1, <1>4 DEF SaidIs
  <2> QED  BY <1>1, <1>2, <1>3, <2>1
<1>5. said'.status = 0 => said'.body = <<>> /\ ~said'.pushed
  BY <1>1 DEF SaidIs
<1>6. phase' = "leaving" /\ panic' # "none" /\ said'.status = 0 => headers'.encoding = "none"
  BY <1>1 DEF SaidIs
<1> QED  BY <1>4, <1>5, <1>6 DEF SaidIs

\* Above the compressor nothing is kept, so all that was said has come to it.
LEMMA CloseAll ==
    ASSUME NEW T, NEW got, NEW sent, NEW k, Pieces(T, got, sent), Closes(T, k)
    PROVE  /\ \A j \in 0..T : got[j] = sent[j]
           /\ got[k] = Len(said.body)
<1>1. /\ k \in Nat /\ k \in 1..T /\ T \in Nat
      /\ DOMAIN calls = {1} /\ Does(1, "close") /\ \A m \in (k + 1)..T : ~Compresses(m)
  BY DEF Closes
<1>2. \A j \in 0..T : got[j] = sent[j]
  <2>1. \A i \in DOMAIN calls : ~Does(i, "bytes")
    BY <1>1 DEF Does
  <2> QED  BY <2>1 DEF Pieces
<1>3. \A m \in 1..T : sent[m - 1] + Len(Stored(m)) = got[m]
  BY DEF Pieces
<1>4. sent \in [0..T -> Nat] /\ got \in [0..T -> Nat] /\ sent[T] = Len(said.body)
  BY DEF Pieces
<1>5. \A m \in (k + 1)..T : sent[m - 1] = sent[m]
  <2> TAKE m \in (k + 1)..T
  <2>1. m \in 1..T /\ m \in 0..T /\ m - 1 \in 0..T
    BY <1>1
  <2>2. Len(Stored(m)) = 0
    BY <1>1 DEF Stored
  <2>3. sent[m - 1] + Len(Stored(m)) = got[m] /\ got[m] = sent[m] /\ sent[m - 1] \in Nat
    BY <1>2, <1>3, <1>4, <2>1
  <2> QED  BY <2>2, <2>3
<1>6. \A j \in k..(T - 1) : sent[j] = sent[j + 1]
  <2> TAKE j \in k..(T - 1)
  <2>1. j + 1 \in (k + 1)..T /\ (j + 1) - 1 = j
    BY <1>1
  <2>2. sent[(j + 1) - 1] = sent[j + 1]
    BY <1>5, <2>1
  <2> QED  BY <2>1, <2>2
<1>7. \A j \in k..T : sent[j] = sent[T]
  BY ONLY <1>1, <1>6, NoChange
<1>8. k \in k..T /\ k \in 0..T
  BY <1>1
<1>9. sent[k] = sent[T] /\ got[k] = sent[k]
  BY <1>2, <1>7, <1>8
<1> QED  BY <1>2, <1>4, <1>9

\* A close leaves no piece behind.
LEMMA ClosePieces ==
    ASSUME NEW T, NEW got, NEW sent, NEW k, NEW w, NEW h, NEW b, NEW p, PipeTypes, GoesDown(T),
           Compressing(T), Pieces(T, got, sent),
           Closes(T, k), Shut(got, sent, k, w, h, b, p), Leaves(k, h, b, p),
           NEW got2, NEW sent2,
           got2 = [j \in 0..(k - 1) |-> got[j]],
           sent2 = [j \in 0..(k - 1) |-> IF j = k - 1 THEN got[k] ELSE sent[j]]
    PROVE  Pieces(k - 1, got2, sent2)'
<1>1. /\ k \in Nat /\ k - 1 \in Nat /\ k \in 1..T /\ T \in 0..Len(writers) /\ Len(writers) \in Nat
      /\ said' = said /\ wire' = wire
      /\ h \in {0, 1} /\ b \in {0, 1} /\ DOMAIN calls' = 1..(h + b)
      /\ \A i \in 1..(h + b) : calls'[i].at = k - 1
      /\ h = 1 => Does(1, "header")'
      /\ b = 1 => Does(h + 1, "bytes")' /\ calls'[h + 1].call.pieces = p
      /\ \A j \in 1..Len(writers) : Compresses(j)' = Compresses(j)
      /\ \A j \in 0..Len(writers) : j # k => Told(j)' = Told(j) /\ Waits(j)' = Waits(j)
      /\ \A j \in 1..Len(writers) : j # k => /\ Works(j)' = Works(j) /\ Stored(j)' = Stored(j)
                                             /\ writers'[j] = writers[j]
  BY DEF Closes, Shut, Leaves
<1>2. got \in [0..T -> Nat] /\ sent \in [0..T -> Nat]
  BY DEF Pieces
<1>3. \A j \in 0..(k - 1) : j \in 0..T /\ got[j] = sent[j] /\ got[j] \in Nat /\ sent[j] \in Nat /\ got[k] \in Nat
  <2>1. \A j \in 0..(k - 1) : j \in 0..T
    BY <1>1
  <2>2. \A j \in 0..T : got[j] = sent[j]
    BY CloseAll
  <2> QED  BY <1>1, <1>2, <2>1, <2>2
<1>4. \A j \in 0..(k - 1) : got2[j] = got[j] /\ sent2[j] = IF j = k - 1 THEN got[k] ELSE sent[j]
  OBVIOUS
<1>5. got2 \in [0..(k - 1) -> Nat] /\ sent2 \in [0..(k - 1) -> Nat]
  BY <1>3
<1>6. k - 1 \in 0..(k - 1)
  BY <1>1
<1>7. sent2[k - 1] = Len(said'.body)
  <2>1. got[k] = Len(said.body)
    BY CloseAll
  <2> QED  BY <1>1, <1>4, <1>6, <2>1
<1>8. /\ b = 1 => sent[k - 1] + Len(p) = got[k] /\ Numbered(p, sent[k - 1], Gz(k - 1)')
      /\ b = 0 => got[k] = sent[k - 1]
  <2>1. Gz(k - 1)' = IF Works(k) THEN 1 ELSE Gz(k)
    BY CloseGz
  <2> QED  BY <2>1 DEF Shut
<1>9. ASSUME NEW i \in DOMAIN calls', Does(i, "bytes")'
      PROVE  b = 1 /\ i = h + 1
  <2>1. (i = 1 /\ h = 1) \/ (i = h + 1 /\ b = 1)
    BY <1>1
  <2> QED  BY <1>1, <1>9, <2>1 DEF Does
<1>10. \A j \in 0..(k - 1) : got2[j] = sent2[j] \/ \E i \in DOMAIN calls' : calls'[i].at = j /\ Does(i, "bytes")'
  <2> TAKE j \in 0..(k - 1)
  <2>1. CASE j # k - 1
    BY <1>3, <1>4, <2>1
  <2>2. CASE j = k - 1 /\ b = 0
    BY <1>3, <1>4, <1>8, <2>2
  <2>3. CASE j = k - 1 /\ b = 1
    <3>1. h + 1 \in DOMAIN calls'
      BY <1>1, <2>3
    <3> QED  BY <1>1, <2>3, <3>1
  <2> QED  BY <1>1, <2>1, <2>2, <2>3
<1>11. \A i \in DOMAIN calls' : \A j \in 0..(k - 1) : calls'[i].at = j /\ Does(i, "bytes")' =>
          /\ got2[j] + Len(calls'[i].call.pieces) = sent2[j]
          /\ Numbered(calls'[i].call.pieces, got2[j], Gz(j)')
  <2>1. ASSUME NEW i \in DOMAIN calls', NEW j \in 0..(k - 1), calls'[i].at = j, Does(i, "bytes")'
        PROVE  /\ got2[j] + Len(calls'[i].call.pieces) = sent2[j]
               /\ Numbered(calls'[i].call.pieces, got2[j], Gz(j)')
    <3>1. b = 1 /\ i = h + 1 /\ calls'[i].call.pieces = p
      BY <1>1, <1>9, <2>1
    <3>2. j = k - 1
      BY <1>1, <2>1
    <3>3. got2[j] = sent[k - 1] /\ sent2[j] = got[k]
      BY <1>3, <1>4, <1>6, <3>2
    <3>4. sent[k - 1] + Len(p) = got[k] /\ Numbered(p, sent[k - 1], Gz(k - 1)')
      BY <1>8, <3>1
    <3> QED  BY <3>1, <3>2, <3>3, <3>4
  <2> QED  BY <2>1
<1>12. ASSUME NEW m \in 1..(k - 1)
       PROVE  /\ sent2[m - 1] + Len(Stored(m)') = got2[m]
              /\ Numbered(Stored(m)', sent2[m - 1], IF Works(m)' THEN 1 ELSE Gz(m)')
              /\ ~Told(m)' => sent2[m - 1] = 0
              /\ ~Compresses(m)' => writers'[m].bytes = IF Gz(m)' = 1 THEN got2[m] ELSE 2 * got2[m]
  <2>1. /\ m \in 1..T /\ m \in 1..Len(writers) /\ m \in 0..Len(writers) /\ m # k /\ m \in 0..(k - 1)
        /\ m - 1 \in 0..(k - 1) /\ m - 1 # k - 1
    BY <1>1
  <2>2. Gz(m)' = Gz(m)
    BY <2>1, CloseGz
  <2>3. got2[m] = got[m] /\ sent2[m - 1] = sent[m - 1]
    BY <1>4, <2>1
  <2>4. /\ sent[m - 1] + Len(Stored(m)) = got[m]
        /\ Numbered(Stored(m), sent[m - 1], IF Works(m) THEN 1 ELSE Gz(m))
        /\ ~Told(m) => sent[m - 1] = 0
        /\ ~Compresses(m) => writers[m].bytes = IF Gz(m) = 1 THEN got[m] ELSE 2 * got[m]
    BY <2>1 DEF Pieces
  <2>5. Stored(m)' = Stored(m) /\ Works(m)' = Works(m) /\ Told(m)' = Told(m) /\ writers'[m] = writers[m]
        /\ Compresses(m)' = Compresses(m)
    BY <1>1, <2>1
  <2>6. (IF Works(m)' THEN 1 ELSE Gz(m)') = (IF Works(m) THEN 1 ELSE Gz(m))
    BY <2>2, <2>5
  <2> QED  BY <2>2, <2>3, <2>4, <2>5, <2>6
<1>13. Len(wire'.body) = got2[0] /\ Numbered(wire'.body, 0, Gz(0)')
  <2>1. Len(wire.body) = got[0] /\ Numbered(wire.body, 0, Gz(0))
    BY DEF Pieces
  <2>2. 0 \in 0..(k - 1)
    BY <1>1
  <2>3. Gz(0)' = Gz(0)
    BY <2>2, CloseGz
  <2> QED  BY <1>1, <1>4, <2>1, <2>2, <2>3
<1> QED  BY <1>5, <1>7, <1>10, <1>11, <1>12, <1>13 DEF Pieces

\* After a close everything is known of the places below it.
LEMMA CloseFlow ==
    ASSUME NEW T \in Nat, NEW got, NEW sent, NEW k, NEW w, NEW h, NEW b, NEW p, PipeTypes, Places,
           Flow(T, got, sent), calls # <<>>, calls[1].at = k, Does(1, "close"),
           Shut(got, sent, k, w, h, b, p),
           UNCHANGED <<chain, request, phase, layer, tops, said, wire, panic>>
    PROVE  k - 1 \in Nat /\ \E got2, sent2 \in [0..(k - 1) -> Nat] : Flow(k - 1, got2, sent2)'
<1>1. /\ Live(T) /\ InOrder(T) /\ GoesDown(T) /\ StatusIs(T) /\ Pieces(T, got, sent) /\ Compressing(T)
      /\ SaidIs(T) /\ Flushes(T, sent)
  BY DEF Flow
<1>2. Closes(T, k) /\ Leaves(k, h, b, p)
  BY CloseIs
<1>3. PICK got2, sent2 : /\ got2 = [j \in 0..(k - 1) |-> got[j]]
                         /\ sent2 = [j \in 0..(k - 1) |-> IF j = k - 1 THEN got[k] ELSE sent[j]]
  OBVIOUS
<1>4. Pieces(k - 1, got2, sent2)'
  BY <1>1, <1>2, <1>3, ClosePieces
<1>5. Live(k - 1)' /\ InOrder(k - 1)' /\ GoesDown(k - 1)'
  BY <1>1, <1>2, CloseLive, CloseInOrder, CloseGoesDown
<1>6. StatusIs(k - 1)' /\ Compressing(k - 1)' /\ SaidIs(k - 1)'
  BY <1>1, <1>2, CloseStatusIs, CloseCompressing, CloseSaidIs
<1>7. Flushes(k - 1, sent2)'
  <2>1. phase' = "leaving"
    BY <1>2 DEF Closes
  <2> QED  BY <2>1 DEF Flushes
<1>8. got2 \in [0..(k - 1) -> Nat] /\ sent2 \in [0..(k - 1) -> Nat]
  BY <1>4 DEF Pieces
<1>9. k - 1 \in Nat
  BY <1>2 DEF Closes
<1> QED  BY <1>4, <1>5, <1>6, <1>7, <1>8, <1>9 DEF Flow

\* A compressor that is no longer at work.
LEMMA SwitchedOff ==
    ASSUME NEW o \in ACompressor
    PROVE  [o EXCEPT !.on = FALSE] \in ACompressor
BY DEF ACompressor

\* compressor.close shuts the compressor.
LEMMA CloseShuts ==
    ASSUME PipeTypes, NEW T \in Nat, NEW got, NEW sent, Flow(T, got, sent), NEW k \in 1..T, Compresses(k),
           calls # <<>>, calls[1].at = k, CompressorClose
    PROVE  Does(1, "close") /\ \E w, h, b, p : Shut(got, sent, k, w, h, b, p)
<1>1. PICK o, gz : o = writers[k] /\ gz = Gz(k)
  OBVIOUS
<1>2. /\ o \in ACompressor /\ o.decided \in BOOLEAN /\ o.on \in BOOLEAN
      /\ o.buf \in Seq(Piece) /\ o.held \in Seq(Piece)
      /\ (Told(k) <=> o.decided) /\ (Waits(k) <=> ~o.decided)
      /\ sent[k - 1] \in Nat /\ got[k] \in Nat
      /\ sent[k - 1] + Len(Kept(o)) = got[k]
      /\ Numbered(Kept(o), sent[k - 1], IF o.on THEN 1 ELSE gz)
      /\ ~o.decided => sent[k - 1] = 0 /\ ~o.on
      /\ o.decided => o.buf = <<>>
      /\ ~o.on => o.held = <<>>
      /\ o.on => o.decided /\ said.status # 0
      /\ Kept(o) # <<>> => said.status # 0
  BY <1>1, CompressorIs
<1>3. Does(1, "close") /\ Next1 = calls[1] /\ ~Does(1, "header")
  <2>1. Next1 = calls[1]
    BY DEF PipeTypes, Next1
  <2>2. Does(1, "close")
    BY <2>1 DEF CompressorClose, Is, Does
  <2> QED  BY <2>1, <2>2 DEF Does
<1>4. Works(k) <=> o.on
  BY <1>1 DEF Works
<1>5. Want \in Nat
  BY DEF Want, PipeTypes
<1>6. /\ Forward([Emptied(Settled(o, FALSE)) EXCEPT !.on = FALSE],
                 SettledCalls(o, FALSE) \o EmptiedCalls(Settled(o, FALSE)))
      /\ headers' = IF o.decided THEN headers ELSE DecidedHeaders(o, FALSE)
  BY <1>1, <1>3 DEF CompressorClose
<1>7. CASE o.decided
  <2>1. Settled(o, FALSE) = o /\ SettledCalls(o, FALSE) = <<>> /\ headers' = headers
    BY <1>6, <1>7 DEF Settled, SettledCalls
  <2>2. PICK e, w, p, b : /\ e = Emptied(o) /\ w = [e EXCEPT !.on = FALSE]
                          /\ p = o.held /\ b = IF o.on THEN 1 ELSE 0
    OBVIOUS
  <2>3. w \in ACompressor
    <3>1. e \in ACompressor
      BY <1>2, <2>2, EmptiedIs
    <3> QED  BY <2>2, <3>1, SwitchedOff
  <2>4. SettledCalls(o, FALSE) \o EmptiedCalls(o) = Three(0, Want, b, p, 0)
    <3>1. Three(0, Want, 0, p, 0) = <<>> /\ Three(0, Want, 1, p, 0) = Bytes(p)
      BY <1>2, <1>5, <2>2, ThreeForms
    <3>2. CASE o.on
      <4>1. EmptiedCalls(o) = Bytes(p) /\ b = 1
        BY <2>2, <3>2 DEF EmptiedCalls
      <4>2. Bytes(p) \in Seq(Call)
        BY <1>2, <1>5, <2>2, Singles
      <4>3. <<>> \o Bytes(p) = Bytes(p)
        BY ONLY <4>2, NothingJoined
      <4> QED  BY ONLY <2>1, <3>1, <4>1, <4>3
    <3>3. CASE ~o.on
      <4>1. EmptiedCalls(o) = <<>> /\ b = 0
        BY <2>2, <3>3 DEF EmptiedCalls
      <4>2. <<>> \in Seq(Call)
        OBVIOUS
      <4>3. <<>> \o <<>> = <<>>
        BY ONLY <4>2, NothingJoined
      <4> QED  BY ONLY <2>1, <3>1, <4>1, <4>3
    <3> QED  BY <3>2, <3>3
  <2>5. Kept(o) = p /\ b \in {0, 1} /\ p \in Seq(Piece)
    BY <1>2, <1>7, <2>2 DEF Kept
  <2>6. b = 1 => /\ said.status # 0
                 /\ sent[k - 1] + Len(p) = got[k]
                 /\ Numbered(p, sent[k - 1], IF Works(k) THEN 1 ELSE Gz(k))
    <3>1. (IF Works(k) THEN 1 ELSE Gz(k)) = (IF o.on THEN 1 ELSE gz)
      BY <1>1, <1>4
    <3> QED  BY <1>2, <2>2, <2>5, <3>1
  <2>7. b = 0 => got[k] = sent[k - 1]
    <3>1. b = 0 => Len(p) = 0
      BY <1>2, <2>2
    <3> QED  BY <1>2, <2>5, <3>1
  <2>8. /\ writers' = [writers EXCEPT ![k] = w] /\ calls' = On(k - 1, Three(0, Want, b, p, 0)) \o Tail(calls)
    BY <1>3, <1>6, <2>1, <2>2, <2>4 DEF Forward
  <2>9. DOMAIN headers' = {"type", "length", "encoding", "vary", "id"} /\ headers'.vary \in BOOLEAN
    BY <2>1 DEF PipeTypes
  <2>10. (0 = 1 <=> ~Told(k)) /\ (0 = 0 /\ b = 0 => ~Works(k)) /\ 0 \in {0, 1}
    BY <1>2, <1>4, <1>7, <2>2
  <2>11. Shut(got, sent, k, w, 0, b, p)
    BY <2>1, <2>3, <2>5, <2>6, <2>7, <2>8, <2>9, <2>10 DEF Shut
  <2> QED  BY <1>3, <2>11
<1>8. CASE ~o.decided
  <2>1. ~Encodes(o, FALSE)
    BY DEF Encodes
  <2>2. PICK d, e, w, b : /\ d = Decided(o, FALSE) /\ e = Emptied(d) /\ w = [e EXCEPT !.on = FALSE]
                          /\ b = IF o.buf # <<>> THEN 1 ELSE 0
    OBVIOUS
  <2>3. Settled(o, FALSE) = d /\ SettledCalls(o, FALSE) = DecideCalls(o, FALSE) /\ headers' = DecidedHeaders(o, FALSE)
    BY <1>6, <1>8, <2>2 DEF Settled, SettledCalls
  <2>4. d \in ACompressor /\ ~d.on
    <3>1. 0 \in Nat
      OBVIOUS
    <3>2. /\ Decided(o, FALSE) \in ACompressor
          /\ (Decided(o, FALSE).on <=> Encodes(o, FALSE))
      BY <1>2, <2>1, <3>1, DecidedIs
    <3> QED  BY ONLY <2>1, <2>2, <3>2
  <2>5. w \in ACompressor
    <3>1. e \in ACompressor
      BY <2>2, <2>4, EmptiedIs
    <3> QED  BY <2>2, <3>1, SwitchedOff
  <2>6. o.status = Want
    <3>1. Allowed(T, 1, k)
      <4>1. InOrder(T) /\ k \in 0..T /\ 1 \in DOMAIN calls
        BY HeadIs DEF Flow
      <4> QED  BY <4>1 DEF InOrder
    <3>2. \A m \in (k + 1)..T : ~Compresses(m)
      BY <1>3, <3>1 DEF Allowed
    <3>3. ~HeaderComes(k) /\ ~ \E m \in (k + 1)..T : Waits(m)
      BY <1>3, <3>2 DEF HeaderComes, Waits
    <3> QED  BY <1>1, <1>2, <1>8, <3>3 DEF Flow, StatusIs
  <2>7. SettledCalls(o, FALSE) \o EmptiedCalls(d) = Three(1, Want, b, o.buf, 0)
    <3>1. /\ Three(1, Want, 0, o.buf, 0) = Status(Want) \o <<>>
          /\ Three(1, Want, 1, o.buf, 0) = Status(Want) \o Bytes(o.buf)
      BY <1>2, <1>5, ThreeForms
    <3>2. EmptiedCalls(d) = <<>>
      BY <2>4 DEF EmptiedCalls
    <3>3. DecideCalls(o, FALSE) = Status(Want) \o (IF o.buf # <<>> THEN Bytes(o.buf) ELSE <<>>)
      BY ONLY <2>1, <2>6 DEF DecideCalls
    <3>4. DecideCalls(o, FALSE) = Three(1, Want, b, o.buf, 0)
      <4>1. CASE o.buf # <<>>
        BY ONLY <2>2, <3>1, <3>3, <4>1
      <4>2. CASE o.buf = <<>>
        BY ONLY <2>2, <3>1, <3>3, <4>2
      <4> QED  BY <4>1, <4>2
    <3>5. PICK c : c = DecideCalls(o, FALSE)
      OBVIOUS
    <3>6. c \in Seq(Call)
      <4>1. 1 \in {0, 1} /\ 0 \in {0, 1} /\ b \in {0, 1} /\ o.buf \in Seq(Piece)
        BY <1>2, <2>2
      <4>2. AreThree(c, 1, Want, b, o.buf, 0)
        BY ONLY <1>5, <3>4, <3>5, <4>1, ThreeIs
      <4> QED  BY ONLY <4>2 DEF AreThree
    <3>7. c \o <<>> = c
      BY ONLY <3>6, NothingJoined
    <3> QED  BY ONLY <2>3, <3>2, <3>4, <3>5, <3>7
  <2>8. Kept(o) = o.buf /\ b \in {0, 1}
    BY <1>8, <2>2 DEF Kept
  <2>9. b = 1 => /\ said.status # 0
                 /\ sent[k - 1] + Len(o.buf) = got[k]
                 /\ Numbered(o.buf, sent[k - 1], IF Works(k) THEN 1 ELSE Gz(k))
    <3>1. (IF Works(k) THEN 1 ELSE Gz(k)) = (IF o.on THEN 1 ELSE gz)
      BY <1>1, <1>4
    <3>2. b = 1 => Kept(o) # <<>>
      BY <2>2, <2>8
    <3> QED  BY <1>2, <2>8, <3>1, <3>2
  <2>10. b = 0 => got[k] = sent[k - 1]
    <3>1. b = 0 => Len(o.buf) = 0
      BY <2>2
    <3> QED  BY <1>2, <2>8, <3>1
  <2>11. /\ writers' = [writers EXCEPT ![k] = w]
         /\ calls' = On(k - 1, Three(1, Want, b, o.buf, 0)) \o Tail(calls)
    BY <1>3, <1>6, <2>2, <2>3, <2>7 DEF Forward
  <2>12. /\ DOMAIN headers' = {"type", "length", "encoding", "vary", "id"} /\ headers'.vary \in BOOLEAN
         /\ headers'.id = headers.id /\ (headers.vary => headers'.vary)
         /\ headers'.encoding = headers.encoding /\ headers'.length = headers.length
    <3>1. LET hs == DecidedHeaders(o, FALSE) IN
           /\ DOMAIN hs = {"type", "length", "encoding", "vary", "id"} /\ hs.id = headers.id
           /\ hs.vary \in BOOLEAN /\ (headers.vary => hs.vary)
           /\ hs.length \in Nat /\ hs.encoding \in {"none", "gzip"}
           /\ Encodes(o, FALSE) => /\ headers.encoding = "none"
                                   /\ hs.encoding = "gzip" /\ hs.length = 0 /\ hs.vary
           /\ ~Encodes(o, FALSE) => hs.encoding = headers.encoding /\ hs.length = headers.length
      <4>1. PipeTypes
        OBVIOUS
      <4>2. \A r, big : LET hs == DecidedHeaders(r, big) IN
           /\ DOMAIN hs = {"type", "length", "encoding", "vary", "id"} /\ hs.id = headers.id
           /\ hs.vary \in BOOLEAN /\ (headers.vary => hs.vary)
           /\ hs.length \in Nat /\ hs.encoding \in {"none", "gzip"}
           /\ Encodes(r, big) => /\ headers.encoding = "none"
                                 /\ hs.encoding = "gzip" /\ hs.length = 0 /\ hs.vary
           /\ ~Encodes(r, big) => hs.encoding = headers.encoding /\ hs.length = headers.length
        BY ONLY <4>1, DecidedHeadersAre
      <4> QED  BY ONLY <4>2, Zenon
    <3> QED  BY ONLY <2>1, <2>3, <3>1
  <2>13. (1 = 1 <=> ~Told(k)) /\ (1 = 0 /\ b = 0 => ~Works(k)) /\ 1 \in {0, 1}
    BY <1>2, <1>8
  <2>14. Shut(got, sent, k, w, 1, b, o.buf)
    BY <1>2, <1>8, <2>5, <2>8, <2>9, <2>10, <2>11, <2>12, <2>13 DEF Shut
  <2> QED  BY <1>3, <2>14
<1> QED  BY <1>2, <1>7, <1>8

\* What the close of a compressor comes to.
LEMMA CloseActs ==
    ASSUME PipeTypes, Around, NEW T \in Nat, NEW got, NEW sent, Flow(T, got, sent), CompressorClose
    PROVE  /\ PipeTypes' /\ Around'
           /\ \E T2 \in Nat : \E got2, sent2 \in [0..T2 -> Nat] : Flow(T2, got2, sent2)'
<1>1. calls # <<>> /\ Next1 = calls[1]
  BY DEF CompressorClose, Is, PipeTypes, Next1
<1>2. PICK k : k = calls[1].at
  OBVIOUS
<1>3. k \in 1..T /\ k \in 1..Len(writers) /\ Compresses(k)
  <2>1. k > 0 /\ writers[k].kind = "compressor"
    BY <1>1, <1>2 DEF CompressorClose, Is
  <2>2. k \in 0..T /\ T \in 0..Len(writers) /\ Len(writers) \in Nat
    BY <1>1, <1>2, HeadIs
  <2> QED  BY <2>1, <2>2 DEF Compresses
<1>4. Does(1, "close") /\ \E w, h, b, p : Shut(got, sent, k, w, h, b, p)
  BY <1>1, <1>2, <1>3, CloseShuts
<1>5. PICK w, h, b, p : Shut(got, sent, k, w, h, b, p)
  BY <1>4
<1>6. UNCHANGED <<chain, request, phase, layer, tops, script, said, panic, ctxID, log, span, wire>>
  BY DEF CompressorClose, PipeRest, routeVars, sayVars, noteVars
<1>7. k - 1 \in Nat /\ \E got2, sent2 \in [0..(k - 1) -> Nat] : Flow(k - 1, got2, sent2)'
  <2>1. Places
    BY DEF Around
  <2> QED  BY <1>1, <1>2, <1>4, <1>5, <1>6, <2>1, CloseFlow
<1>8. /\ Len(writers') = Len(writers)
      /\ \A j \in 1..Len(writers) : Compresses(j)' = Compresses(j)
      /\ phase = "leaving"
  BY <1>1, <1>2, <1>4, <1>5, <1>6, CloseIs DEF Closes
<1>9. PICK c : c = Three(h, Want, b, p, 0) /\ c \in Seq(Call)
  <2>1. PICK code : code = Want
    OBVIOUS
  <2>2. h \in {0, 1} /\ code \in Nat /\ b \in {0, 1} /\ p \in Seq(Piece) /\ 0 \in {0, 1}
    BY <1>5, <2>1 DEF Shut, Want, PipeTypes
  <2>3. AreThree(Three(h, code, b, p, 0), h, code, b, p, 0)
    BY ONLY <2>2, ThreeIs
  <2> QED  BY ONLY <2>1, <2>3 DEF AreThree
<1>10. PipeTypes'
  <2>1. /\ w \in AWriter \cup ACompressor /\ writers' = [writers EXCEPT ![k] = w]
        /\ calls' = On(k - 1, c) \o Tail(calls)
    BY <1>5, <1>9 DEF Shut
  <2>2. /\ DOMAIN headers' = {"type", "length", "encoding", "vary", "id"} /\ headers'.length \in Nat
        /\ headers'.encoding \in {"none", "gzip"} /\ headers'.vary \in BOOLEAN
    BY <1>5 DEF Shut, PipeTypes
  <2> QED  BY <1>1, <1>3, <1>6, <1>9, <2>1, <2>2, ForwardTypes
<1>11. Around'
  <2>1. headers'.id = headers.id /\ headers'.encoding = headers.encoding /\ headers'.length = headers.length
    BY <1>5 DEF Shut
  <2>2. phase # "handling"
    BY <1>8
  <2> QED  BY <1>1, <1>6, <1>8, <2>1, <2>2, CallKeeps
<1> QED  BY <1>7, <1>10, <1>11

-----------------------------------------------------------------------------
(* net/http.                                                                *)

\* What net/http makes of the call it gets.
Hears(T, sent) ==
    /\ T \in Nat /\ T \in 0..Len(writers) /\ Len(writers) \in Nat
    /\ calls # <<>> /\ calls[1].at = 0 /\ 1 \in DOMAIN calls
    /\ Does(1, "header") \/ Does(1, "bytes") \/ Does(1, "flush")
    /\ calls' = Tail(calls)
    /\ UNCHANGED <<chain, request, phase, layer, tops, writers, headers, said, panic>>
    /\ DOMAIN wire' = {"status", "headers", "body", "seen", "end"}
    /\ wire'.status = Want /\ wire'.headers = headers /\ Want \in Nat /\ Want # 0
    /\ wire'.body = IF Does(1, "bytes") THEN wire.body \o calls[1].call.pieces ELSE wire.body
    /\ wire'.seen = IF Does(1, "flush") THEN Len(wire.body) ELSE wire.seen

\* The calls that are left.
Rests ==
    /\ Len(calls) \in Nat /\ DOMAIN calls = 1..Len(calls) /\ DOMAIN calls' = 1..(Len(calls) - 1)
    /\ Len(calls) >= 1
    /\ \A i \in 1..(Len(calls) - 1) : calls'[i] = calls[i + 1]

\* A sequence without its first.
LEMMA TailIs ==
    ASSUME NEW S, NEW s \in Seq(S), s # <<>>
    PROVE  /\ Tail(s) \in Seq(S) /\ Len(s) \in Nat /\ Len(s) >= 1 /\ DOMAIN s = 1..Len(s)
           /\ DOMAIN Tail(s) = 1..(Len(s) - 1) /\ \A i \in 1..(Len(s) - 1) : Tail(s)[i] = s[i + 1]
OBVIOUS

\* The calls that are left when net/http has had the first.
LEMMA CallsRest ==
    ASSUME PipeTypes, calls # <<>>, calls' = Tail(calls)
    PROVE  Rests /\ calls' \in Seq([at : Nat, call : Call])
<1> DEFINE S == [at : Nat, call : Call]
<1>1. calls \in Seq(S)
  BY DEF PipeTypes
<1> HIDE DEF S
<1>2. PICK c : c = calls
  OBVIOUS
<1>3. /\ Tail(c) \in Seq(S) /\ Len(c) \in Nat /\ Len(c) >= 1 /\ DOMAIN c = 1..Len(c)
      /\ DOMAIN Tail(c) = 1..(Len(c) - 1) /\ \A i \in 1..(Len(c) - 1) : Tail(c)[i] = c[i + 1]
  <2>1. c \in Seq(S) /\ c # <<>>
    BY <1>1, <1>2
  <2> QED  BY ONLY <2>1, TailIs
<1> QED  BY <1>2, <1>3 DEF Rests, S

\* net/http after a status: the first counts.
LEMMA HeaderIs ==
    ASSUME PipeTypes, NEW code
    PROVE  LET w == HeaderGone(code) IN
           /\ DOMAIN w = {"status", "headers", "body", "seen", "end"}
           /\ w.status = IF wire.status = 0 THEN code ELSE wire.status
           /\ w.headers = IF wire.status = 0 THEN headers ELSE wire.headers
           /\ w.body = wire.body /\ w.seen = wire.seen /\ w.end = wire.end
BY DEF PipeTypes, HeaderGone

\* What net/http does with a call.
LEMMA NetHttpHears ==
    ASSUME PipeTypes, NEW T \in Nat, NEW got, NEW sent, Flow(T, got, sent), NetHttp
    PROVE  Hears(T, sent)
<1>1. calls # <<>> /\ Next1 = calls[1] /\ calls[1].at = 0
  <2>1. calls # <<>> /\ Next1.at = 0
    BY DEF NetHttp
  <2> QED  BY <2>1, NextIsFirst
<1>2. /\ T \in 0..Len(writers) /\ Len(writers) \in Nat /\ 1 \in DOMAIN calls /\ calls[1].call \in Call
      /\ Does(1, "header") => calls[1].call.code = Want /\ ~Told(0)
      /\ Does(1, "bytes") \/ Does(1, "flush") => said.status # 0 /\ (Told(0) \/ Waits(0) \/ Want = 200)
  BY <1>1, HeadIs
<1>3. ~Waits(0) /\ (Told(0) <=> wire.status # 0)
  BY DEF Waits, Told
<1>4. ~Does(1, "close")
  <2>1. InOrder(T) /\ 0 \in 0..T
    BY DEF Flow
  <2>2. Allowed(T, 1, 0)
    BY <1>1, <1>2, <2>1 DEF InOrder
  <2> QED  BY <2>2 DEF Allowed
<1>5. Does(1, "header") \/ Does(1, "bytes") \/ Does(1, "flush")
  BY <1>2, <1>4 DEF Call, Does
<1>6. Want \in Nat /\ Want # 0
  BY DEF Want, PipeTypes
<1>7. wire.status # 0 => wire.status = Want /\ wire.headers = headers
  BY DEF Flow, StatusIs
<1>8. PICK c, code, w : c = calls[1].call /\ code = (IF c.do = "header" THEN c.code ELSE 200) /\ w = HeaderGone(code)
  OBVIOUS
<1>9. wire.status = 0 => code = Want
  BY <1>2, <1>3, <1>5, <1>8 DEF Does
<1>10. /\ DOMAIN w = {"status", "headers", "body", "seen", "end"}
       /\ w.status = Want /\ w.headers = headers /\ w.body = wire.body /\ w.seen = wire.seen
  <2>1. /\ DOMAIN w = {"status", "headers", "body", "seen", "end"}
        /\ w.status = IF wire.status = 0 THEN code ELSE wire.status
        /\ w.headers = IF wire.status = 0 THEN headers ELSE wire.headers
        /\ w.body = wire.body /\ w.seen = wire.seen
    BY <1>8, HeaderIs
  <2> QED  BY <1>7, <1>9, <2>1
<1>11. /\ wire' = CASE c.do = "header" -> w
                    [] c.do = "bytes"  -> [w EXCEPT !.body = @ \o c.pieces]
                    [] c.do = "flush"  -> [w EXCEPT !.seen = Len(w.body)]
       /\ calls' = Tail(calls) /\ UNCHANGED <<PipeRest, writers, headers>>
  BY <1>1, <1>8 DEF NetHttp
<1>12. /\ DOMAIN wire' = {"status", "headers", "body", "seen", "end"}
       /\ wire'.status = Want /\ wire'.headers = headers
       /\ wire'.body = IF c.do = "bytes" THEN wire.body \o c.pieces ELSE wire.body
       /\ wire'.seen = IF c.do = "flush" THEN Len(wire.body) ELSE wire.seen
  <2>1. CASE c.do = "header"
    <3>1. wire' = w
      BY ONLY <1>11, <2>1
    <3> QED  BY ONLY <1>10, <2>1, <3>1
  <2>2. CASE c.do = "bytes"
    <3>1. wire' = [w EXCEPT !.body = @ \o c.pieces]
      BY ONLY <1>11, <2>2
    <3> QED  BY ONLY <1>10, <2>2, <3>1
  <2>3. CASE c.do = "flush"
    <3>1. wire' = [w EXCEPT !.seen = Len(w.body)]
      BY ONLY <1>11, <2>3
    <3> QED  BY ONLY <1>10, <2>3, <3>1
  <2>4. c.do = "header" \/ c.do = "bytes" \/ c.do = "flush"
    BY <1>5, <1>8 DEF Does
  <2> QED  BY ONLY <2>1, <2>2, <2>3, <2>4, Zenon
<1>13. /\ calls' = Tail(calls)
       /\ UNCHANGED <<chain, request, phase, layer, tops, writers, headers, said, panic>>
  BY <1>11 DEF PipeRest, routeVars, sayVars
<1>14. /\ wire'.body = IF Does(1, "bytes") THEN wire.body \o calls[1].call.pieces ELSE wire.body
       /\ wire'.seen = IF Does(1, "flush") THEN Len(wire.body) ELSE wire.seen
  BY <1>8, <1>12 DEF Does
<1> QED  BY <1>1, <1>2, <1>5, <1>6, <1>12, <1>13, <1>14 DEF Hears

\* Nothing changes but what net/http has been told.
LEMMA HearsTold ==
    ASSUME NEW T, NEW sent, Hears(T, sent)
    PROVE  /\ \A k : (Compresses(k)' <=> Compresses(k)) /\ (Works(k)' <=> Works(k)) /\ (Waits(k)' <=> Waits(k))
                     /\ Stored(k)' = Stored(k) /\ Gz(k)' = Gz(k)
           /\ \A k : k # 0 => (Told(k)' <=> Told(k)) /\ (Tells(T, k)' <=> Tells(T, k))
           /\ Told(0)' /\ Want' = Want /\ ~HeaderComes(1) /\ T + 1 # 0
<1>1. /\ writers' = writers /\ headers' = headers /\ said' = said /\ wire'.status = Want /\ Want # 0 /\ T \in Nat
      /\ calls[1].at = 0
  BY DEF Hears
<1>2. \A k : (Compresses(k)' <=> Compresses(k)) /\ (Works(k)' <=> Works(k)) /\ (Waits(k)' <=> Waits(k))
  BY <1>1 DEF Compresses, Works, Waits
<1>3. \A k : Stored(k)' = Stored(k)
  BY <1>1, <1>2 DEF Stored
<1>4. \A k : Gz(k)' = Gz(k)
  BY <1>1, <1>2 DEF Gz
<1>5. \A k : k # 0 => (Told(k)' <=> Told(k))
  BY <1>1, <1>2 DEF Told
<1>6. \A k : k # 0 => (Tells(T, k)' <=> Tells(T, k))
  BY <1>1, <1>5 DEF Tells
<1>7. Told(0)' /\ Want' = Want /\ ~HeaderComes(1)
  BY <1>1 DEF Told, Want, HeaderComes
<1>8. T + 1 # 0
  BY <1>1
<1> QED  BY <1>2, <1>3, <1>4, <1>5, <1>6, <1>7, <1>8

\* net/http ends no writer.
LEMMA HearsLive ==
    ASSUME NEW T, NEW sent, Hears(T, sent), Rests, Live(T)
    PROVE  Live(T)'
<1>1. /\ phase' = phase /\ tops' = tops /\ layer' = layer /\ chain' = chain /\ writers' = writers /\ said' = said
      /\ ~Does(1, "close")
  BY DEF Hears, Does
<1>2. \A k : ~Closing(k)
  BY <1>1 DEF Closing
<1>3. \A k : Compresses(k)' <=> Compresses(k)
  BY HearsTold
<1>4. \A k \in 1..T : Compresses(k)' =>
          \/ Closing(k)'
          \/ \E i \in DOMAIN tops' : i <= layer' /\ chain'[i] = "compress" /\ tops'[i] = k
  BY <1>1, <1>2, <1>3 DEF Live
<1> QED  BY <1>1, <1>3, <1>4 DEF Live

\* A call that waited for another may still be made.
LEMMA HearsAllowed ==
    ASSUME NEW T, NEW sent, Hears(T, sent), Rests, InOrder(T), NEW i \in DOMAIN calls', NEW k \in 0..T, calls'[i].at = k
    PROVE  Allowed(T, i, k)'
<1>1. /\ T \in Nat /\ calls[1].at = 0 /\ 1 \in DOMAIN calls
      /\ Does(1, "header") \/ Does(1, "bytes") \/ Does(1, "flush")
      /\ said' = said
  BY DEF Hears
<1>2. i \in 1..(Len(calls) - 1) /\ Len(calls) \in Nat
  BY DEF Rests
<1>3. i + 1 \in DOMAIN calls /\ i + 1 > 1 /\ i + 1 # 1 /\ Len(calls) # 1 /\ calls'[i] = calls[i + 1]
  BY <1>2 DEF Rests
<1>4. Allowed(T, i + 1, k)
  BY <1>3 DEF InOrder
<1>5. ~Does(i + 1, "header") /\ ~Does(i + 1, "close")
  BY <1>3, <1>4 DEF Allowed
<1>6. ~Does(i, "header")' /\ ~Does(i, "close")' /\ (Does(i, "bytes")' \/ Does(i, "flush")' => Does(i + 1, "bytes") \/ Does(i + 1, "flush"))
  BY <1>3, <1>5 DEF Does
<1>7. /\ Does(i + 1, "bytes") \/ Does(i + 1, "flush") =>
            said.status # 0 /\ (Told(k) \/ Waits(k) \/ Want = 200 \/ HeaderComes(k))
      /\ \A m \in (k + 1)..(T + 1) : Tells(T, m)
  BY <1>4, <1>5 DEF Allowed
<1>8. Told(0)' /\ Want' = Want /\ (Waits(k)' <=> Waits(k)) /\ (k # 0 => (Told(k)' <=> Told(k)))
  BY HearsTold
<1>9. k # 0 => ~HeaderComes(k)
  BY <1>1 DEF HeaderComes
<1>10. Does(i, "bytes")' \/ Does(i, "flush")' =>
            said'.status # 0 /\ (Told(k)' \/ Waits(k)' \/ Want' = 200 \/ HeaderComes(k)')
  BY <1>1, <1>6, <1>7, <1>8, <1>9
<1>11. \A m \in (k + 1)..(T + 1) : Tells(T, m)'
  <2>1. \A m \in (k + 1)..(T + 1) : m # 0
    BY <1>1
  <2>2. \A m : m # 0 => (Tells(T, m)' <=> Tells(T, m))
    BY HearsTold
  <2> QED  BY <1>7, <2>1, <2>2
<1> QED  BY <1>6, <1>10, <1>11 DEF Allowed

\* The calls that are left are in order.
LEMMA HearsInOrder ==
    ASSUME NEW T, NEW sent, Hears(T, sent), Rests, InOrder(T)
    PROVE  InOrder(T)'
<1>1. /\ DOMAIN calls' = 1..(Len(calls) - 1) /\ DOMAIN calls = 1..Len(calls) /\ Len(calls) \in Nat
      /\ \A i \in 1..(Len(calls) - 1) : calls'[i] = calls[i + 1]
  BY DEF Rests
<1>2. \A i \in DOMAIN calls' : \A k \in 0..T : calls'[i].at = k => Allowed(T, i, k)'
  BY HearsAllowed
<1>3. \A i \in DOMAIN calls' : i + 1 \in DOMAIN calls
  BY <1>1
<1>4. \A i \in DOMAIN calls' : calls'[i].at <= T
  BY <1>1, <1>3 DEF InOrder
<1>5. \A i, j \in DOMAIN calls' : i < j =>
          /\ calls'[i].at <= calls'[j].at
          /\ calls'[i].at = calls'[j].at => Rank(calls'[i].call.do) < Rank(calls'[j].call.do)
  <2> SUFFICES ASSUME NEW i \in DOMAIN calls', NEW j \in DOMAIN calls', i < j
              PROVE  /\ calls'[i].at <= calls'[j].at
                     /\ calls'[i].at = calls'[j].at => Rank(calls'[i].call.do) < Rank(calls'[j].call.do)
    OBVIOUS
  <2>1. i + 1 < j + 1 /\ i + 1 \in DOMAIN calls /\ j + 1 \in DOMAIN calls
    BY <1>1
  <2>2. calls'[i] = calls[i + 1] /\ calls'[j] = calls[j + 1]
    BY <1>1
  <2>3. /\ calls[i + 1].at <= calls[j + 1].at
        /\ calls[i + 1].at = calls[j + 1].at => Rank(calls[i + 1].call.do) < Rank(calls[j + 1].call.do)
    BY <2>1 DEF InOrder
  <2> QED  BY <2>2, <2>3
<1> QED  BY <1>2, <1>4, <1>5 DEF InOrder

\* The status has come down to net/http, or a compressor has it.
LEMMA HearsGoesDown ==
    ASSUME NEW T, NEW sent, Hears(T, sent), Rests, InOrder(T), GoesDown(T)
    PROVE  GoesDown(T)'
<1>1. /\ T \in Nat /\ calls[1].at = 0 /\ 1 \in DOMAIN calls
      /\ Does(1, "header") \/ Does(1, "bytes") \/ Does(1, "flush")
  BY DEF Hears
<1>2. /\ \A k : k # 0 => (Told(k)' <=> Told(k)) /\ (Tells(T, k)' <=> Tells(T, k))
      /\ \A k : Waits(k)' <=> Waits(k)
      /\ Told(0)' /\ T + 1 # 0
  BY HearsTold
<1>3. \A m \in 1..(T + 1) : Tells(T, m)
  <2>1. 0 \in 0..T /\ ~Does(1, "close") /\ \A m \in 1..(T + 1) : m \in (0 + 1)..(T + 1)
    BY <1>1 DEF Does
  <2>2. Allowed(T, 1, 0)
    BY <1>1, <2>1 DEF InOrder
  <2> QED  BY <2>1, <2>2 DEF Allowed
<1>4. \A m : m # 0 /\ Stops(m) => Stops(m)'
  <2> SUFFICES ASSUME NEW m, m # 0, Stops(m)
              PROVE  Stops(m)'
    OBVIOUS
  <2>1. CASE Waits(m)
    BY <1>2, <2>1 DEF Stops
  <2>2. CASE \E i \in DOMAIN calls : calls[i].at = m
    <3>1. PICK i \in DOMAIN calls : calls[i].at = m
      BY <2>2
    <3>2. i # 1
      BY <1>1, <3>1
    <3>3. i - 1 \in DOMAIN calls' /\ calls'[i - 1] = calls[i]
      BY <3>2 DEF Rests
    <3> QED  BY <3>1, <3>3 DEF Stops
  <2> QED  BY <2>1, <2>2 DEF Stops
<1>5. ASSUME NEW j \in 0..(T + 1), NEW k \in 0..(T + 1), j < k
      PROVE  /\ Tells(T, j)' => Tells(T, k)'
             /\ Tells(T, k)' => Told(j)' \/ \E m \in j..(k - 1) : Stops(m)'
  <2>1. k \in 1..(T + 1) /\ k # 0
    BY <1>1, <1>5
  <2>2. Tells(T, k)'
    BY <1>2, <1>3, <2>1
  <2>3. Told(j)' \/ \E m \in j..(k - 1) : Stops(m)'
    <3>1. CASE j = 0
      BY <1>2, <3>1
    <3>2. CASE j # 0
      <4>1. Told(j) \/ \E m \in j..(k - 1) : Stops(m)
        BY <1>3, <1>5, <2>1 DEF GoesDown
      <4>2. \A m \in j..(k - 1) : m # 0
        BY <1>1, <3>2
      <4> QED  BY <1>2, <1>4, <3>2, <4>1, <4>2
    <3> QED  BY <3>1, <3>2
  <2> QED  BY <2>2, <2>3
<1> QED  BY <1>5 DEF GoesDown

\* What net/http was told first is the status that is wanted.
LEMMA HearsStatusIs ==
    ASSUME NEW T, NEW sent, Hears(T, sent), StatusIs(T)
    PROVE  StatusIs(T)'
<1>1. /\ writers' = writers /\ headers' = headers /\ calls[1].at = 0 /\ T \in Nat
      /\ wire'.status = Want /\ wire'.headers = headers
  BY DEF Hears
<1>2. /\ \A k : (Compresses(k)' <=> Compresses(k)) /\ (Waits(k)' <=> Waits(k))
      /\ Want' = Want
  BY HearsTold
<1>3. \A k \in 1..T : ~HeaderComes(k)
  BY <1>1 DEF HeaderComes
<1>4. \A k \in 1..T : ~Compresses(k)' => writers'[k].status = IF writers'[k].wrote THEN Want' ELSE 200
  BY <1>1, <1>2 DEF StatusIs
<1>5. \A k \in 1..T : Waits(k)' =>
          \/ writers'[k].status = Want'
          \/ writers'[k].status = 200 /\ \E m \in (k + 1)..T : Waits(m)'
  BY <1>1, <1>2, <1>3 DEF StatusIs
<1> QED  BY <1>1, <1>2, <1>4, <1>5 DEF StatusIs

\* net/http leaves the compressors and what was said.
LEMMA HearsRest ==
    ASSUME NEW T, NEW sent, Hears(T, sent), Compressing(T), SaidIs(T)
    PROVE  Compressing(T)' /\ SaidIs(T)'
<1>1. writers' = writers /\ headers' = headers /\ said' = said /\ phase' = phase /\ panic' = panic
  BY DEF Hears
<1>2. \A k : (Compresses(k)' <=> Compresses(k)) /\ (Works(k)' <=> Works(k)) /\ Stored(k)' = Stored(k) /\ Gz(k)' = Gz(k)
  BY HearsTold
<1>3. Compressing(T)'
  BY <1>1, <1>2 DEF Compressing
<1>4. SaidIs(T)'
  BY <1>1, <1>2 DEF SaidIs
<1> QED  BY <1>3, <1>4

\* net/http gets the pieces that were sent it.
LEMMA HearsPieces ==
    ASSUME PipeTypes, NEW T, NEW got, NEW sent, Hears(T, sent), Rests, Flow(T, got, sent),
           NEW got2, got2 = [got EXCEPT ![0] = IF Does(1, "bytes") THEN sent[0] ELSE got[0]]
    PROVE  Pieces(T, got2, sent)' /\ got2 \in [0..T -> Nat] /\ sent \in [0..T -> Nat]
<1>1. /\ T \in Nat /\ calls # <<>> /\ calls[1].at = 0 /\ 1 \in DOMAIN calls /\ said' = said /\ writers' = writers
      /\ wire'.body = IF Does(1, "bytes") THEN wire.body \o calls[1].call.pieces ELSE wire.body
  BY DEF Hears
<1>2. /\ \A k : (Compresses(k)' <=> Compresses(k)) /\ (Works(k)' <=> Works(k)) /\ Stored(k)' = Stored(k) /\ Gz(k)' = Gz(k)
      /\ \A k : k # 0 => (Told(k)' <=> Told(k))
  BY HearsTold
<1>3. Pieces(T, got, sent) /\ InOrder(T)
  BY DEF Flow
<1>4. got \in [0..T -> Nat] /\ sent \in [0..T -> Nat] /\ sent[T] = Len(said.body)
  BY <1>3 DEF Pieces
<1>5. 0 \in 0..T /\ got2 \in [0..T -> Nat] /\ got2[0] = (IF Does(1, "bytes") THEN sent[0] ELSE got[0])
  BY <1>1, <1>4
<1>6. \A k \in 0..T : k # 0 => got2[k] = got[k]
  BY <1>1, <1>4
<1>7. ASSUME NEW i \in DOMAIN calls'
      PROVE  /\ i + 1 \in DOMAIN calls /\ i + 1 # 1 /\ calls'[i] = calls[i + 1] /\ 1 < i + 1
             /\ (Does(i, "bytes")' <=> Does(i + 1, "bytes"))
  <2>1. i + 1 \in DOMAIN calls /\ i + 1 # 1 /\ calls'[i] = calls[i + 1] /\ 1 < i + 1
    BY <1>7 DEF Rests
  <2> QED  BY <2>1 DEF Does
<1>8. ASSUME NEW k \in 0..T, NEW i \in DOMAIN calls, i # 1, calls[i].at = k, Does(i, "bytes")
      PROVE  \E j \in DOMAIN calls' : calls'[j].at = k /\ Does(j, "bytes")'
  <2>1. i - 1 \in DOMAIN calls' /\ (i - 1) + 1 = i
    BY <1>8 DEF Rests
  <2>2. calls'[i - 1] = calls[i] /\ (Does(i - 1, "bytes")' <=> Does(i, "bytes"))
    <3>1. PICK n : n = i - 1
      OBVIOUS
    <3>2. n \in DOMAIN calls' /\ n + 1 = i
      BY <2>1, <3>1
    <3>3. calls'[n] = calls[n + 1] /\ (Does(n, "bytes")' <=> Does(n + 1, "bytes"))
      BY <1>7, <3>2
    <3> QED  BY <3>1, <3>2, <3>3 DEF Does
  <2> QED  BY <1>8, <2>1, <2>2
<1>9. \A k \in 0..T : got2[k] = sent[k] \/ \E i \in DOMAIN calls' : calls'[i].at = k /\ Does(i, "bytes")'
  <2> TAKE k \in 0..T
  <2>1. got[k] = sent[k] \/ \E i \in DOMAIN calls : calls[i].at = k /\ Does(i, "bytes")
    BY <1>3 DEF Pieces
  <2>2. CASE k = 0 /\ Does(1, "bytes")
    BY <1>5, <2>2
  <2>3. CASE ~(k = 0 /\ Does(1, "bytes"))
    <3>1. got2[k] = got[k]
      BY <1>5, <1>6, <2>3
    <3>2. CASE got[k] = sent[k]
      BY <3>1, <3>2
    <3>3. CASE \E i \in DOMAIN calls : calls[i].at = k /\ Does(i, "bytes")
      <4>1. PICK i \in DOMAIN calls : calls[i].at = k /\ Does(i, "bytes")
        BY <3>3
      <4>2. i # 1
        BY <1>1, <2>3, <4>1
      <4> QED  BY <1>8, <4>1, <4>2
    <3> QED  BY <2>1, <3>2, <3>3
  <2> QED  BY <2>2, <2>3
<1>10. ASSUME NEW i \in DOMAIN calls', NEW k \in 0..T, calls'[i].at = k, Does(i, "bytes")'
       PROVE  /\ got2[k] + Len(calls'[i].call.pieces) = sent[k]
              /\ Numbered(calls'[i].call.pieces, got2[k], Gz(k)')
  <2>1. i + 1 \in DOMAIN calls /\ 1 < i + 1 /\ calls'[i] = calls[i + 1] /\ Does(i + 1, "bytes")
    BY <1>7, <1>10
  <2>2. /\ got[k] + Len(calls[i + 1].call.pieces) = sent[k]
        /\ Numbered(calls[i + 1].call.pieces, got[k], Gz(k))
    BY <1>3, <1>10, <2>1 DEF Pieces
  <2>3. got2[k] = got[k]
    <3>1. CASE k = 0
      <4>1. calls[1].at = calls[i + 1].at
        BY <1>1, <1>10, <2>1, <3>1
      <4>2. Rank(calls[1].call.do) < Rank(calls[i + 1].call.do)
        BY <1>1, <1>3, <2>1, <4>1 DEF InOrder
      <4>3. ~Does(1, "bytes")
        BY <2>1, <4>2 DEF Does, Rank
      <4> QED  BY <1>5, <3>1, <4>3
    <3>2. CASE k # 0
      BY <1>6, <3>2
    <3> QED  BY <3>1, <3>2
  <2> QED  BY <1>2, <2>1, <2>2, <2>3
<1>11. ASSUME NEW k \in 1..T
       PROVE  /\ sent[k - 1] + Len(Stored(k)') = got2[k]
              /\ Numbered(Stored(k)', sent[k - 1], IF Works(k)' THEN 1 ELSE Gz(k)')
              /\ ~Told(k)' => sent[k - 1] = 0
              /\ ~Compresses(k)' => writers'[k].bytes = IF Gz(k)' = 1 THEN got2[k] ELSE 2 * got2[k]
  <2>1. k # 0 /\ k \in 0..T /\ got2[k] = got[k]
    BY <1>1, <1>6
  <2>2. /\ sent[k - 1] + Len(Stored(k)) = got[k]
        /\ Numbered(Stored(k), sent[k - 1], IF Works(k) THEN 1 ELSE Gz(k))
        /\ ~Told(k) => sent[k - 1] = 0
        /\ ~Compresses(k) => writers[k].bytes = IF Gz(k) = 1 THEN got[k] ELSE 2 * got[k]
    BY <1>3 DEF Pieces
  <2>3. (IF Works(k)' THEN 1 ELSE Gz(k)') = (IF Works(k) THEN 1 ELSE Gz(k))
    BY <1>2
  <2> QED  BY <1>1, <1>2, <2>1, <2>2, <2>3
<1>12. Len(wire'.body) = got2[0] /\ Numbered(wire'.body, 0, Gz(0)')
  <2>1. Len(wire.body) = got[0] /\ Numbered(wire.body, 0, Gz(0)) /\ Gz(0)' = Gz(0)
    BY <1>2, <1>3 DEF Pieces
  <2>2. CASE Does(1, "bytes")
    <3>1. PICK p, q, gz : p = calls[1].call.pieces /\ q = wire.body /\ gz = Gz(0)
      OBVIOUS
    <3>2. p \in Seq(Piece) /\ got[0] + Len(p) = sent[0] /\ Numbered(p, got[0], gz)
      BY <1>1, <2>2, <3>1, HeadIs
    <3>3. q \in Seq(Piece) /\ 0 \in Nat /\ Numbered(q, 0, gz) /\ 0 + Len(q) = got[0]
      BY <1>4, <1>5, <2>1, <3>1 DEF PipeTypes
    <3>4. Len(q \o p) = Len(q) + Len(p) /\ Numbered(q \o p, 0, gz)
      <4>1. Numbered(p, 0 + Len(q), gz)
        BY <3>2, <3>3
      <4> QED  BY ONLY <3>2, <3>3, <4>1, JoinedNumbers
    <3>5. wire'.body = q \o p /\ got2[0] = sent[0]
      BY <1>1, <1>5, <2>2, <3>1
    <3>6. Len(q) = got[0]
      BY <2>1, <3>1
    <3> QED  BY <2>1, <3>1, <3>2, <3>4, <3>5, <3>6
  <2>3. CASE ~Does(1, "bytes")
    BY <1>1, <1>5, <2>1, <2>3
  <2> QED  BY <2>2, <2>3
<1> QED  BY <1>1, <1>4, <1>5, <1>9, <1>10, <1>11, <1>12 DEF Pieces

\* A flush that has come to net/http shows the client what was said before it.
LEMMA HearsFlushes ==
    ASSUME PipeTypes, NEW T, NEW got, NEW sent, Hears(T, sent), Rests, Flow(T, got, sent)
    PROVE  Flushes(T, sent)'
<1>1. /\ T \in Nat /\ calls # <<>> /\ calls[1].at = 0 /\ 1 \in DOMAIN calls /\ said' = said /\ phase' = phase
      /\ wire'.status = Want /\ Want # 0
      /\ wire'.seen = IF Does(1, "flush") THEN Len(wire.body) ELSE wire.seen
  BY DEF Hears
<1>2. Flushes(T, sent) /\ Pieces(T, got, sent)
  BY DEF Flow
<1> SUFFICES ASSUME phase = "handling", said.pushed, ~(wire'.seen >= said.flushed)
            PROVE  \E i \in DOMAIN calls' : Does(i, "flush")' /\ sent[calls'[i].at] >= said.flushed
  BY <1>1 DEF Flushes
<1>3. wire.seen \in Nat /\ Len(wire.body) \in Nat /\ wire.seen <= Len(wire.body) /\ said.flushed \in Nat
  BY DEF PipeTypes
<1>4. ~(wire.seen >= said.flushed)
  BY <1>1, <1>3
<1>5. PICK i \in DOMAIN calls : Does(i, "flush") /\ sent[calls[i].at] >= said.flushed
  BY <1>2, <1>4 DEF Flushes
<1>6. i # 1
  <2> SUFFICES ASSUME i = 1
              PROVE  FALSE
    OBVIOUS
  <2>1. Does(1, "flush") /\ sent[0] >= said.flushed
    BY <1>1, <1>5
  <2>2. got[0] = sent[0]
    BY <1>1, <2>1, HeadIs
  <2>3. Len(wire.body) = got[0]
    BY <1>2 DEF Pieces
  <2> QED  BY <1>1, <2>1, <2>2, <2>3
<1>7. PICK n : n = i - 1
  OBVIOUS
<1>8. n \in DOMAIN calls' /\ n + 1 = i
  BY <1>6, <1>7 DEF Rests
<1>9. calls'[n] = calls[i]
  BY <1>8 DEF Rests
<1> QED  BY <1>5, <1>8, <1>9 DEF Does

\* What the actions of net/http come to.
LEMMA NetHttpActs ==
    ASSUME PipeTypes, Around, NEW T \in Nat, NEW got, NEW sent, Flow(T, got, sent), NetHttp
    PROVE  PipeTypes' /\ Around' /\ \E got2, sent2 \in [0..T -> Nat] : Flow(T, got2, sent2)'
<1>1. Hears(T, sent)
  BY NetHttpHears
<1>2. Rests /\ calls' \in Seq([at : Nat, call : Call])
  BY <1>1, CallsRest DEF Hears
<1>3. /\ Live(T) /\ InOrder(T) /\ GoesDown(T) /\ StatusIs(T) /\ Compressing(T) /\ SaidIs(T)
  BY DEF Flow
<1>4. Live(T)' /\ InOrder(T)' /\ GoesDown(T)' /\ StatusIs(T)'
  BY <1>1, <1>2, <1>3, HearsLive, HearsInOrder, HearsGoesDown, HearsStatusIs
<1>5. Compressing(T)' /\ SaidIs(T)' /\ Flushes(T, sent)'
  BY <1>1, <1>2, <1>3, HearsRest, HearsFlushes
<1>6. PICK got2 : got2 = [got EXCEPT ![0] = IF Does(1, "bytes") THEN sent[0] ELSE got[0]]
  OBVIOUS
<1>7. Pieces(T, got2, sent)' /\ got2 \in [0..T -> Nat] /\ sent \in [0..T -> Nat]
  BY <1>1, <1>2, <1>6, HearsPieces
<1>8. Flow(T, got2, sent)'
  BY <1>4, <1>5, <1>7 DEF Flow
<1>9. /\ UNCHANGED <<chain, request, phase, layer, tops, script, said, panic, ctxID, log, span, writers, headers>>
      /\ calls # <<>>
  BY <1>1 DEF NetHttp, PipeRest, routeVars, sayVars, noteVars, Hears
<1>10. PipeTypes'
  <2>1. /\ DOMAIN wire' = {"status", "headers", "body", "seen", "end"} /\ wire'.status \in Nat
        /\ wire'.body = IF Does(1, "bytes") THEN wire.body \o calls[1].call.pieces ELSE wire.body
        /\ wire'.seen = IF Does(1, "flush") THEN Len(wire.body) ELSE wire.seen
    BY <1>1 DEF Hears
  <2>2. wire'.body \in Seq(Piece) /\ wire'.seen \in 0..Len(wire'.body)
    <3>1. wire.body \in Seq(Piece) /\ Len(wire.body) \in Nat /\ wire.seen \in 0..Len(wire.body)
      BY DEF PipeTypes
    <3>2. CASE Does(1, "bytes")
      <4>1. PICK p, q : p = calls[1].call.pieces /\ q = wire.body
        OBVIOUS
      <4>2. p \in Seq(Piece)
        <5>1. calls[1].at = 0 /\ calls # <<>>
          BY <1>1 DEF Hears
        <5> QED  BY <3>2, <4>1, <5>1, HeadIs
      <4>3. q \in Seq(Piece)
        BY <3>1, <4>1
      <4>4. PICK j, n, s : j = q \o p /\ n = Len(q) /\ s = wire.seen
        OBVIOUS
      <4>5. j \in Seq(Piece) /\ Len(j) >= n /\ Len(j) \in Nat
        BY ONLY <4>2, <4>3, <4>4
      <4>6. ~Does(1, "flush")
        BY <3>2 DEF Does
      <4>7. wire'.body = j /\ wire'.seen = s
        BY ONLY <2>1, <3>2, <4>1, <4>4, <4>6, Zenon
      <4>8. s \in 0..n
        BY ONLY <3>1, <4>1, <4>4
      <4>10. n \in Nat
        BY ONLY <3>1, <4>1, <4>4
      <4>9. s \in 0..Len(j)
        BY ONLY <4>5, <4>8, <4>10
      <4> QED  BY ONLY <4>5, <4>7, <4>9
    <3>3. CASE ~Does(1, "bytes")
      BY <2>1, <3>1, <3>3
    <3> QED  BY <3>2, <3>3
  <2> QED  BY <1>2, <1>9, <2>1, <2>2 DEF PipeTypes
<1>11. Around'
  <2>1. /\ Len(writers') = Len(writers) /\ headers' = headers
        /\ \A k : (Compresses(k)' <=> Compresses(k)) /\ Gz(k)' = Gz(k)
    BY <1>1, <1>9, HearsTold
  <2>2. \A k \in 1..Len(writers) : Compresses(k)' = Compresses(k)
    BY <1>9 DEF Compresses
  <2>3. Gz(Len(writers))' = Gz(Len(writers))
    BY <1>9, <2>1 DEF Gz, Works, Compresses
  <2> QED  BY <1>9, <2>1, <2>2, <2>3, CallKeeps
<1> QED  BY <1>7, <1>8, <1>10, <1>11
=============================================================================
