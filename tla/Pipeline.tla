-------------------------------- MODULE Pipeline --------------------------------
(***************************************************************************)
(* One request on its way through a chain of middleware to a handler, and  *)
(* the response on its way back (core/mw, core/app/app.go, core/api,       *)
(* core/sse).                                                              *)
(*                                                                         *)
(* Every layer may put a ResponseWriter of its own over the one it was     *)
(* given: a mw.Writer, which remembers what was sent, or a compressor,     *)
(* which delays the status until it has decided.  A call on the writer on  *)
(* top is a sequence of calls on the one below it, down to net/http, which *)
(* is modelled from how it is used.  A panic leaves the layers one by one  *)
(* and runs what they deferred.                                            *)
(*                                                                         *)
(* A body is a sequence of pieces: "of" is a piece's place in what the     *)
(* handler wrote and "gz" how many times it was compressed.  A piece has   *)
(* two bytes, and one when it is compressed.                               *)
(***************************************************************************)
EXTENDS Naturals, Sequences, FiniteSets, SequencesExt

CONSTANTS
    Chains,      \* the chains of middleware, outermost first
    Requests,    \* what may be asked: a set of records, see RequestType
    Prefix,      \* the prefix the guards are written with: a path, as [text, parts]
    Letters,     \* the characters of each segment that a path may have
    MinSize      \* Compress.MinSize

ASSUME MinSizeAssumption == MinSize \in Nat \ {0}

\* "only" and "except" are mw.Named(mw.Only(Prefix, g)) and mw.Named(mw.Except(Prefix, g)) for a
\* guard g that lets through whoever is signed in and sends the others to sign in.
Layers == {"id", "log", "recover", "csrf", "compress", "only", "except"}

\* What is asked. A path is its characters and, for reference, its segments.
Segments    == DOMAIN Letters
RequestType == [path : [text : Seq(STRING), parts : Seq(Segments)], signedIn : BOOLEAN, gzip : BOOLEAN,
                id : {"none", "good", "bad"}, safe : BOOLEAN, token : BOOLEAN]

\* A path is a slash and the letters of a segment for each, and may end with one more slash: the
\* i-th segment ends at cut[i]. What is asked for may have empty segments, the guards' prefix has none.
SpelledAt(p, cut) ==
    /\ cut[0] = 0
    /\ \A i \in 1..Len(p.parts) :
          /\ cut[i] = cut[i - 1] + 1 + Len(Letters[p.parts[i]])
          /\ p.text[cut[i - 1] + 1] = "/"
          /\ \A j \in 1..Len(Letters[p.parts[i]]) : p.text[cut[i - 1] + 1 + j] = Letters[p.parts[i]][j]
    /\ \/ Len(p.text) = cut[Len(p.parts)]
       \/ Len(p.text) = cut[Len(p.parts)] + 1 /\ p.text[cut[Len(p.parts)] + 1] = "/"

Spelled(p) ==
    /\ p.text \in Seq(STRING) /\ p.parts \in Seq(Segments)
    /\ \E cut \in [0..Len(p.parts) -> 0..Len(p.text)] : SpelledAt(p, cut)

ASSUME SpellingAssumption ==
    /\ Letters \in [Segments -> Seq(STRING)]
    /\ \A s \in Segments : \A j \in DOMAIN Letters[s] : Letters[s][j] # "/"
    /\ \A s, t \in Segments : Letters[s] = Letters[t] => s = t
    /\ Spelled(Prefix) /\ \A r \in Requests : Spelled(r.path)
    /\ \A i \in DOMAIN Prefix.parts : Letters[Prefix.parts[i]] # <<>>

\* There is one span, so a chain has at most one guard.
ASSUME ChainAssumption ==
    \A c \in Chains : /\ c \in Seq(Layers)
                      /\ \A i, j \in DOMAIN c : {c[i], c[j]} \subseteq {"only", "except"} => i = j

VARIABLES
    chain, request,
    phase,     \* "entering" the layers, "handling", "leaving" them, "done"
    layer,     \* the layer that is entered or left next
    tops,      \* of each layer entered, the writer it handed on: a place in writers
    writers,   \* the writers put over net/http's, the lowest first
    calls,     \* the calls on writers that are under way, the next one first
    script,    \* what the handler still does
    headers,   \* the header map, which every writer shares
    wire,      \* what net/http has been told, and what the client has seen of it
    said,      \* what whoever answers asked for: status, body, whether it flushed, and what by then
    panic,     \* "none", a "bug", or http.ErrAbortHandler: "abort"
    ctxID,     \* the request id on the context, "" when there is none
    log,       \* the line Logger wrote: [status, bytes, id], or status 0
    span       \* of Named: [state, status]

pipeVars == <<chain, request, phase, layer, tops, writers, calls, script, headers, wire, said, panic,
              ctxID, log, span>>
routeVars == <<chain, request>>
sayVars   == <<script, said, panic>>
noteVars  == <<ctxID, log, span>>

Size(pieces) == 2 * Len(pieces) - Cardinality({i \in DOMAIN pieces : pieces[i].gz > 0})

-----------------------------------------------------------------------------
(* What handlers do: calls on the writer on top, and at "app" the code of   *)
(* the application runs, which may panic.                                   *)

App       == <<[do |-> "app"]>>
Put(f, v) == <<[do |-> "set", field |-> f, to |-> v]>>
Status(c) == <<[do |-> "header", code |-> c]>>
Body(n)   == <<[do |-> "write", n |-> n, gz |-> 0]>>
Flush     == <<[do |-> "flush"]>>

\* http.Error.
HttpError(code) == Put("length", 0) \o Put("type", "plain") \o Status(code) \o Body(1)

\* App.render: the page is drawn into a buffer before the response is touched.
Render(status, n) ==
    LET html == App \o Put("type", "html")
    IN {html \o Status(status) \o Body(1) \o Body(n),                            \* a fragment
        html \o Status(status) \o Body(n),                                       \* a raw route
        html \o App \o Put("length", 2 * n) \o Status(status) \o Body(n)}            \* a document

\* App.fail, after the component or after the shell.
RenderFails == {App \o HttpError(500), App \o Put("type", "html") \o App \o HttpError(500)}

\* A Responder of core/api: Raw, Redirect, Stream and SSE.
Respond ==
    {Put("type", "image") \o Status(200) \o Body(2), Put("type", "html") \o Status(302) \o Body(1)}
    \cup {Put("type", t) \o Status(200) \o App \o Body(1) \o Flush \o App \o Body(1) \o Flush \o App :
             t \in {"plain", "image"}}

\* sse.Open and Stream.SendEvent.
Events == {Put("type", "events") \o Flush \o App \o Body(1) \o Flush \o App \o Body(1) \o Flush \o App}

\* trimSlash, and App.Mux without a NotFound page.
MuxAnswers == {Status(301), HttpError(404)}

\* A file of Static that is stored compressed; and handlers of the application.
Others ==
    {Put("type", "html") \o Put("encoding", "gzip") \o Put("length", 2) \o Status(200)
        \o <<[do |-> "write", n |-> 2, gz |-> 1]>>,
     App \o Status(204), App, App \o Body(1) \o App \o Body(2) \o App,
     App \o Put("type", "json") \o Status(201) \o Body(1) \o Body(1)}

Scripts == Render(200, 1) \cup Render(404, 2) \cup RenderFails \cup Respond \cup Events \cup MuxAnswers
           \cup Others

-----------------------------------------------------------------------------
\* A writer of each kind, as it is made.
NewWriter     == [kind |-> "writer", wrote |-> FALSE, status |-> 200, bytes |-> 0]
NewCompressor == [kind |-> "compressor", decided |-> FALSE, on |-> FALSE, status |-> 200,
                  buf |-> <<>>, held |-> <<>>]

NoHeaders  == [type |-> "none", length |-> 0, encoding |-> "none", vary |-> FALSE, id |-> ""]
NewWire(h) == [status |-> 0, headers |-> h, body |-> <<>>, seen |-> 0, end |-> "open"]
NoLine     == [status |-> 0, bytes |-> 0, id |-> ""]
NoSpan     == [state |-> "none", status |-> 0]
Nothing == [status |-> 0, body |-> <<>>, pushed |-> FALSE, flushed |-> 0]

PipeInit ==
    /\ chain \in Chains /\ request \in Requests /\ script \in Scripts
    /\ phase = "entering" /\ layer = 1 /\ tops = <<>> /\ writers = <<>> /\ calls = <<>>
    /\ headers = NoHeaders /\ wire = NewWire(NoHeaders) /\ said = Nothing /\ panic = "none"
    /\ ctxID = "" /\ log = NoLine /\ span = NoSpan

\* Calls c on the writer at place k, before what is under way.
On(k, c) == [i \in 1..Len(c) |-> [at |-> k, call |-> c[i]]]

TopWriter == Len(writers)

-----------------------------------------------------------------------------
(* The writers.                                                             *)

Next1 == Head(calls)
Is(kind, do) ==
    /\ calls # <<>> /\ Next1.at > 0 /\ Next1.call.do = do
    /\ writers[Next1.at].kind = kind

\* The writer called becomes w and makes the calls c on the one below it.
Forward(w, c) ==
    /\ writers' = [writers EXCEPT ![Next1.at] = w]
    /\ calls' = On(Next1.at - 1, c) \o Tail(calls)

Bytes(p) == <<[do |-> "bytes", pieces |-> p]>>

PipeRest == <<routeVars, phase, layer, tops, sayVars, noteVars>>

\* Writer.WriteHeader: the first status counts.
WriterHeader ==
    /\ Is("writer", "header")
    /\ LET w == writers[Next1.at] IN
          IF w.wrote THEN Forward(w, <<>>)
          ELSE Forward([w EXCEPT !.wrote = TRUE, !.status = Next1.call.code], <<Next1.call>>)
    /\ UNCHANGED <<PipeRest, headers, wire>>

\* Writer.Write: a body without a status is a 200.
WriterWrite ==
    /\ Is("writer", "bytes")
    /\ LET w == writers[Next1.at]
           counted == [w EXCEPT !.bytes = @ + Size(Next1.call.pieces)]
       IN IF w.wrote THEN Forward(counted, <<Next1.call>>)
          ELSE Forward([counted EXCEPT !.wrote = TRUE, !.status = 200], Status(200) \o <<Next1.call>>)
    /\ UNCHANGED <<PipeRest, headers, wire>>

\* Writer.Flush.
WriterFlush ==
    /\ Is("writer", "flush")
    /\ LET w == writers[Next1.at] IN
          IF w.wrote THEN Forward(w, Flush)
          ELSE Forward([w EXCEPT !.wrote = TRUE, !.status = 200], Status(200) \o Flush)
    /\ UNCHANGED <<PipeRest, headers, wire>>

\* compressor.WriteHeader: the status waits.
CompressorHeader ==
    /\ Is("compressor", "header")
    /\ Forward([writers[Next1.at] EXCEPT !.status = Next1.call.code], <<>>)
    /\ UNCHANGED <<PipeRest, headers, wire>>

Wants(type) == type \in {"html", "json", "events", "plain"}

Zipped(pieces) == [i \in 1..Len(pieces) |-> [pieces[i] EXCEPT !.gz = @ + 1]]

\* What decide makes of the headers and of the compressor, and the calls it makes.
Encodes(c, big) ==
    big /\ Wants(headers.type) /\ headers.encoding = "none" /\ c.status \notin {204, 304}
\* Mutant: the length the handler set stays.
DecidedHeadersWithLength(c, big) ==
    [headers EXCEPT !.vary = @ \/ Wants(headers.type),
                    !.encoding = IF Encodes(c, big) THEN "gzip" ELSE @]
DecidedHeaders(c, big) ==
    [headers EXCEPT !.vary = @ \/ Wants(headers.type),
                    !.length = IF Encodes(c, big) THEN 0 ELSE @,
                    !.encoding = IF Encodes(c, big) THEN "gzip" ELSE @]
Decided(c, big) ==
    [c EXCEPT !.decided = TRUE, !.on = Encodes(c, big), !.buf = <<>>,
              !.held = IF Encodes(c, big) THEN Zipped(c.buf) ELSE <<>>]
DecideCalls(c, big) ==
    Status(c.status) \o (IF ~Encodes(c, big) /\ c.buf # <<>> THEN Bytes(c.buf) ELSE <<>>)

\* compressor.Write: nothing is decided below MinSize.
CompressorWrite ==
    /\ Is("compressor", "bytes")
    /\ LET c == writers[Next1.at]
           p == Next1.call.pieces
           full == [c EXCEPT !.buf = @ \o p]
       IN \/ ~c.decided /\ Size(full.buf) < MinSize /\ Forward(full, <<>>) /\ UNCHANGED headers
          \/ /\ ~c.decided /\ Size(full.buf) >= MinSize
             /\ Forward(Decided(full, TRUE), DecideCalls(full, TRUE))
             /\ headers' = DecidedHeaders(full, TRUE)
          \/ c.decided /\ c.on /\ Forward([c EXCEPT !.held = @ \o Zipped(p)], <<>>) /\ UNCHANGED headers
          \/ c.decided /\ ~c.on /\ Forward(c, <<Next1.call>>) /\ UNCHANGED headers
    /\ UNCHANGED <<PipeRest, wire>>

\* The compressor once it has decided, big or not, and the calls it has made by then.
Settled(c, big)      == IF c.decided THEN c ELSE Decided(c, big)
SettledCalls(c, big) == IF c.decided THEN <<>> ELSE DecideCalls(c, big)

\* gzip.Writer: what it holds goes out at a Flush or at the Close.
Emptied(c)      == [c EXCEPT !.held = <<>>]
EmptiedCalls(c) == IF c.on THEN Bytes(c.held) ELSE <<>>

\* Mutant: only what is below is flushed.
CompressorFlushBelow ==
    /\ Is("compressor", "flush")
    /\ LET c == writers[Next1.at] IN
          /\ Forward(Settled(c, TRUE), SettledCalls(c, TRUE) \o Flush)
          /\ headers' = IF c.decided THEN headers ELSE DecidedHeaders(c, TRUE)
    /\ UNCHANGED <<PipeRest, wire>>

\* compressor.Flush: a stream has no size to wait for.
CompressorFlush ==
    /\ Is("compressor", "flush")
    /\ LET c == writers[Next1.at]
           s == Settled(c, TRUE)
       IN /\ Forward(Emptied(s), SettledCalls(c, TRUE) \o EmptiedCalls(s) \o Flush)
          /\ headers' = IF c.decided THEN headers ELSE DecidedHeaders(c, TRUE)
    /\ UNCHANGED <<PipeRest, wire>>

\* compressor.close: what stayed small goes out plain.
CompressorClose ==
    /\ Is("compressor", "close")
    /\ LET c == writers[Next1.at]
           s == Settled(c, FALSE)
       IN /\ Forward([Emptied(s) EXCEPT !.on = FALSE], SettledCalls(c, FALSE) \o EmptiedCalls(s))
          /\ headers' = IF c.decided THEN headers ELSE DecidedHeaders(c, FALSE)
    /\ UNCHANGED <<PipeRest, wire>>

\* net/http: the first status goes out with the headers of that moment.
HeaderGone(code) == IF wire.status = 0 THEN [wire EXCEPT !.status = code, !.headers = headers] ELSE wire

NetHttp ==
    /\ calls # <<>> /\ Next1.at = 0
    /\ LET c == Next1.call
           w == HeaderGone(IF c.do = "header" THEN c.code ELSE 200)
       IN wire' = CASE c.do = "header" -> w
                    [] c.do = "bytes"  -> [w EXCEPT !.body = @ \o c.pieces]
                    [] c.do = "flush"  -> [w EXCEPT !.seen = Len(w.body)]
    /\ calls' = Tail(calls)
    /\ UNCHANGED <<PipeRest, writers, headers>>

-----------------------------------------------------------------------------
(* Who answers: a handler, a guard, or Recover.                             *)

\* The pieces of a write c, which come after what was asked for.
NewPieces(s, c) == [i \in 1..c.n |-> [of |-> Len(s.body) + i, gz |-> c.gz]]

\* What the answerer has asked for after the call c.
Asked(s, c) ==
    CASE c.do = "header" /\ s.status = 0 -> [s EXCEPT !.status = c.code]
      [] c.do = "write" -> [s EXCEPT !.status = IF @ = 0 THEN 200 ELSE @,
                               !.body = @ \o NewPieces(s, c)]
      [] c.do = "flush" -> [s EXCEPT !.status = IF @ = 0 THEN 200 ELSE @, !.pushed = TRUE,
                               !.flushed = Len(s.body)]
      [] OTHER -> s

\* The call as the writer gets it.
Made(s, c) == IF c.do = "write" THEN [do |-> "bytes", pieces |-> NewPieces(s, c)] ELSE c

\* A call on the writer at place k; setting a header is no call.
Make(k, c) ==
    IF c.do = "set" THEN headers' = [headers EXCEPT ![c.field] = c.to] /\ UNCHANGED calls
    ELSE calls' = On(k, <<Made(said, c)>>) /\ UNCHANGED headers

\* The handler's next call, on the writer it was handed.
HandlerCalls ==
    /\ phase = "handling" /\ calls = <<>> /\ script # <<>> /\ Head(script).do # "app"
    /\ Make(TopWriter, Head(script))
    /\ said' = Asked(said, Head(script)) /\ script' = Tail(script)
    /\ UNCHANGED <<routeVars, phase, layer, tops, writers, wire, panic, noteVars>>

\* Code of the application runs, and panics or does not.
HandlerRuns ==
    /\ phase = "handling" /\ calls = <<>> /\ script # <<>> /\ Head(script).do = "app"
    /\ \/ script' = Tail(script) /\ UNCHANGED <<panic, phase>>
       \/ panic' \in {"bug", "abort"} /\ phase' = "leaving" /\ script' = <<>>
    /\ UNCHANGED <<routeVars, layer, tops, writers, calls, headers, wire, said, noteVars>>

HandlerReturns ==
    /\ phase = "handling" /\ calls = <<>> /\ script = <<>>
    /\ phase' = "leaving"
    /\ UNCHANGED <<routeVars, layer, tops, writers, calls, headers, wire, sayVars, noteVars>>

-----------------------------------------------------------------------------
(* Into the layers.                                                         *)

Entering(kinds) == phase = "entering" /\ calls = <<>> /\ layer <= Len(chain) /\ chain[layer] \in kinds

\* The layer hands the writers ws on to the next one.
HandOn(ws) ==
    /\ writers' = ws /\ tops' = Append(tops, Len(ws))
    /\ layer' = layer + 1
    /\ UNCHANGED phase

\* Wrap: a writer that is one already is reused.
Wrap == IF writers # <<>> /\ Last(writers).kind = "writer" THEN writers ELSE Append(writers, NewWriter)

\* Mutant: every RequestID of the chain gives an id.
EnterRequestIDAgain ==
    /\ Entering({"id"})
    /\ HandOn(writers)
    /\ LET new == IF request.id = "good" THEN "theirs" ELSE "made" \o ToString(layer) IN
          ctxID' = new /\ headers' = [headers EXCEPT !.id = new]
    /\ UNCHANGED <<routeVars, calls, wire, sayVars, log, span>>

\* RequestID: an inbound id is kept when it is safe, and the first RequestID's id by the others.
EnterRequestID ==
    /\ Entering({"id"})
    /\ HandOn(writers)
    /\ IF ctxID # "" THEN UNCHANGED <<ctxID, headers>>
       ELSE LET new == IF request.id = "good" THEN "theirs" ELSE "made" \o ToString(layer) IN
            ctxID' = new /\ headers' = [headers EXCEPT !.id = new]
    /\ UNCHANGED <<routeVars, calls, wire, sayVars, log, span>>

\* LogWith: the line will have the id the context has here.
EnterLogger ==
    /\ Entering({"log"})
    /\ HandOn(Wrap)
    /\ log' = [log EXCEPT !.id = ctxID]
    /\ UNCHANGED <<routeVars, calls, headers, wire, sayVars, ctxID, span>>

EnterRecover ==
    /\ Entering({"recover"})
    /\ HandOn(Wrap)
    /\ UNCHANGED <<routeVars, calls, headers, wire, sayVars, noteVars>>

\* Compress.Handler: whoever does not accept gzip is handed on as it is.
EnterCompress ==
    /\ Entering({"compress"})
    /\ HandOn(IF request.gzip THEN Append(writers, NewCompressor) ELSE writers)
    /\ UNCHANGED <<routeVars, calls, headers, wire, sayVars, noteVars>>

\* A layer answers itself, on the writer at place k: with a status, or as HttpError does.
LayerAnswers(k, code) ==
    /\ calls' = On(k, Status(code))
    /\ said' = Asked(said, Status(code)[1])
    /\ UNCHANGED headers
LayerFails(k, code) ==
    /\ calls' = On(k, <<Status(code)[1], Made(said, Body(1)[1])>>)
    /\ said' = Asked(Asked(said, Status(code)[1]), Body(1)[1])
    /\ headers' = [headers EXCEPT !.length = 0, !.type = "plain"]

\* CSRF.Handler: a request that may change something has to carry the cookie's token.
EnterCSRF ==
    /\ Entering({"csrf"})
    /\ \/ /\ request.safe \/ request.token
          /\ HandOn(writers)
          /\ UNCHANGED <<calls, headers, sayVars>>
       \/ /\ ~request.safe /\ ~request.token
          /\ LayerFails(TopWriter, 403)
          /\ phase' = "leaving" /\ layer' = layer - 1
          /\ UNCHANGED <<tops, writers, script, panic>>
    /\ UNCHANGED <<routeVars, wire, noteVars>>

\* Mutant: strings.HasPrefix.
UnderByCharacters(path, prefix) == IsPrefix(prefix, path)

\* Under: prefix is path or above it, by whole segments.
Under(path, prefix) ==
    LET bare == IF prefix # <<>> /\ Last(prefix) = "/" THEN Front(prefix) ELSE prefix IN
    bare = <<>> \/ path = bare \/ IsPrefix(Append(bare, "/"), path)

\* Whether the guard of a layer applies: Only and Except.
Applies(kind) == IF kind = "only" THEN Under(request.path.text, Prefix.text)
                 ELSE ~Under(request.path.text, Prefix.text)

\* Named: the span ends when the next layer is entered, and otherwise with the answer.
EnterGuard ==
    /\ Entering({"only", "except"})
    /\ \/ /\ Applies(chain[layer]) => request.signedIn
          /\ HandOn(Wrap)
          /\ span' = [state |-> "ended", status |-> 0]
          /\ UNCHANGED <<calls, headers, sayVars>>
       \/ /\ Applies(chain[layer]) /\ ~request.signedIn
          /\ writers' = Wrap /\ tops' = Append(tops, Len(Wrap))
          /\ LayerAnswers(Len(Wrap), 302)
          /\ phase' = "leaving"
          /\ span' = [state |-> "open", status |-> 0]
          /\ UNCHANGED <<layer, script, panic>>
    /\ UNCHANGED <<routeVars, wire, ctxID, log>>

EnterHandler ==
    /\ phase = "entering" /\ calls = <<>> /\ layer > Len(chain)
    /\ phase' = "handling" /\ layer' = Len(chain)
    /\ UNCHANGED <<routeVars, tops, writers, calls, headers, wire, sayVars, noteVars>>

-----------------------------------------------------------------------------
(* Out of the layers: after a return everything runs, after a panic only    *)
(* what was deferred.                                                       *)

Leaving(kinds) == phase = "leaving" /\ calls = <<>> /\ layer > 0 /\ chain[layer] \in kinds

\* The writer the layer handed on.
Own == writers[tops[layer]]

LeavePlain ==
    /\ Leaving({"id", "csrf"})
    /\ layer' = layer - 1
    /\ UNCHANGED <<routeVars, phase, tops, writers, calls, headers, wire, sayVars, noteVars>>

\* Logger writes its line, with what the writer remembers.
LeaveLogger ==
    /\ Leaving({"log"})
    /\ log' = IF panic = "none" THEN [log EXCEPT !.status = Own.status, !.bytes = Own.bytes] ELSE log
    /\ layer' = layer - 1
    /\ UNCHANGED <<routeVars, phase, tops, writers, calls, headers, wire, sayVars, ctxID, span>>

\* Recover: a panic becomes a 500 as long as no status has been sent.
LeaveRecover ==
    /\ Leaving({"recover"})
    /\ IF panic = "bug" /\ ~Own.wrote
       THEN LayerFails(tops[layer], 500) /\ panic' = "none"
       ELSE UNCHANGED <<calls, said, headers, panic>>
    /\ layer' = layer - 1
    /\ UNCHANGED <<routeVars, phase, tops, writers, script, wire, noteVars>>

\* The compressor is closed by a defer.
LeaveCompress ==
    /\ Leaving({"compress"})
    /\ calls' = IF request.gzip THEN On(tops[layer], <<[do |-> "close"]>>) ELSE <<>>
    /\ layer' = layer - 1
    /\ UNCHANGED <<routeVars, phase, tops, writers, headers, wire, sayVars, noteVars>>

\* Named ends the span of a guard that answered.
LeaveGuard ==
    /\ Leaving({"only", "except"})
    /\ span' = IF panic = "none" /\ span.state = "open" THEN [state |-> "ended", status |-> Own.status]
               ELSE span
    /\ layer' = layer - 1
    /\ UNCHANGED <<routeVars, phase, tops, writers, calls, headers, wire, sayVars, ctxID, log>>

\* net/http ends the response, or tears the connection down: after a panic, or when a length was
\* promised and not kept.
Serve ==
    /\ phase = "leaving" /\ calls = <<>> /\ layer = 0
    /\ LET w == HeaderGone(200)
           short == w.headers.length # 0 /\ w.headers.length # Size(w.body)
       IN wire' = IF panic # "none" \/ short THEN [wire EXCEPT !.end = "torn"]
                  ELSE [w EXCEPT !.end = "whole", !.seen = Len(w.body)]
    /\ phase' = "done"
    /\ UNCHANGED <<routeVars, layer, tops, writers, calls, headers, sayVars, noteVars>>

PipeNext ==
    \/ EnterRequestID \/ EnterLogger \/ EnterRecover \/ EnterCompress \/ EnterCSRF \/ EnterGuard
    \/ EnterHandler
    \/ HandlerCalls \/ HandlerRuns \/ HandlerReturns
    \/ WriterHeader \/ WriterWrite \/ WriterFlush
    \/ CompressorHeader \/ CompressorWrite \/ CompressorFlush \/ CompressorClose \/ NetHttp
    \/ LeavePlain \/ LeaveLogger \/ LeaveRecover \/ LeaveCompress \/ LeaveGuard \/ Serve

PipeSpec == PipeInit /\ [][PipeNext]_pipeVars

-----------------------------------------------------------------------------
PipeTypeOK ==
    /\ chain \in Chains /\ request \in RequestType
    /\ phase \in {"entering", "handling", "leaving", "done"}
    /\ layer \in 0..(Len(chain) + 1) /\ Len(tops) <= Len(chain)
    /\ \A i \in DOMAIN tops : tops[i] \in 0..Len(writers)
    /\ \A i \in DOMAIN writers : writers[i].kind \in {"writer", "compressor"}
    /\ \A i \in DOMAIN calls : calls[i].at \in 0..Len(writers)
    /\ wire.seen \in 0..Len(wire.body) /\ wire.end \in {"open", "whole", "torn"}
    /\ panic \in {"none", "bug", "abort"}
    /\ log.status \in Nat /\ log.bytes \in Nat
    /\ span.state \in {"none", "open", "ended"}

\* No compressor is at work between Recover and the handler.
RecoverIsInside ==
    \E i \in DOMAIN chain : /\ chain[i] = "recover"
                            /\ request.gzip => \A j \in (i + 1)..Len(chain) : chain[j] # "compress"

\* Whatever the layers, the client gets the status and the body that were asked for, once and in
\* order, with headers that describe them: they are compressed once if they say so, have the length
\* they promise, and vary where the compressor chose. Only a panic tears the connection down, and one
\* that Recover gets before anything was sent does not (mw.go Writer, compress.go, logger.go Recover).
RepliesAreWhole ==
    phase = "done" =>
        IF panic # "none"
        THEN panic = "bug" /\ RecoverIsInside => said.status # 0
        ELSE /\ wire.end = "whole"
             /\ wire.status = IF said.status = 0 THEN 200 ELSE said.status
             /\ [i \in DOMAIN wire.body |-> wire.body[i].of] = [i \in DOMAIN said.body |-> i]
             /\ \A i \in DOMAIN wire.body :
                   /\ wire.body[i].gz = IF wire.headers.encoding = "gzip" THEN 1 ELSE 0
                   /\ wire.body[i].gz # said.body[i].gz => wire.headers.vary
             /\ wire.headers.length \in {0, Size(wire.body)}

\* A logger is outside every compressor; no compressor is inside a logger.
LogIsOutside ==
    \E i \in DOMAIN chain : /\ chain[i] = "log"
                            /\ request.gzip => \A j \in 1..(i - 1) : chain[j] # "compress"
LogIsInside ==
    request.gzip => \A i, j \in DOMAIN chain : chain[i] = "log" /\ chain[j] = "compress" => j < i

\* What is reported of a response is what was sent: the status, the size and the request id of the
\* log line, however the writers are stacked, and the status of the span of a guard that answered,
\* which ends once (logger.go LogWith and RequestID, mw.go Named). The size is that on the wire
\* where the logger is outside, and what the handler wrote where it is inside.
ReportedIsSent ==
    phase = "done" =>
        /\ log.status # 0 => /\ log.status = wire.status
                             /\ LogIsOutside => log.bytes = Size(wire.body)
                             /\ LogIsInside => log.bytes = Size(said.body)
                             /\ log.id \in {"", wire.headers.id}
        /\ span.state # "open"
        /\ span.status # 0 => span.status = wire.status

\* What a handler flushed has reached the client, whatever is put over the connection, before the
\* handler goes on: an event of a stream is not kept back by a buffer or by gzip (compress.go Flush,
\* mw.go Flush, sse/stream.go SendEvent, api/respond.go flushing).
FlushedIsSeen ==
    phase = "handling" /\ calls = <<>> /\ said.pushed => wire.status # 0 /\ wire.seen >= said.flushed

\* A handler runs only behind every guard of the chain that has its path, by whole segments, and
\* behind CSRF (mw.go Under, Only and Except, csrf.go Handler).
GuardsStandBefore ==
    phase = "handling" => \A i \in DOMAIN chain :
        /\ chain[i] = "only" /\ IsPrefix(Prefix.parts, request.path.parts) => request.signedIn
        /\ chain[i] = "except" /\ ~IsPrefix(Prefix.parts, request.path.parts) => request.signedIn
        /\ chain[i] = "csrf" => request.safe \/ request.token

\* Whatever the chain, a handler runs behind each of its guards, and nothing about its answer is
\* lost on the way to the wire: neither its bytes and their length, nor the id it was reported
\* under, nor an event that was flushed.
AnswersArrive == GuardsStandBefore /\ RepliesAreWhole /\ ReportedIsSent /\ FlushedIsSeen

\* "Recover turns a panic into a 500 instead of a dropped connection" (logger.go:240): of a handler
\* that has not answered.
PanicsAreAnswered ==
    phase = "done" /\ panic = "bug" /\ (\E i \in DOMAIN chain : chain[i] = "recover") => said.status # 0
=============================================================================
