-------------------------------- MODULE Tracing --------------------------------
(***************************************************************************)
(* The spans of a request (core/observe, otel): otelhttp's around it, one  *)
(* of every named guard, of the page or the endpoint, of a document        *)
(* operation, and of its call into the backend.  The current span is what  *)
(* the context carries, so that whatever is opened or set goes to the      *)
(* innermost one whose context reaches there; a span that was ended        *)
(* records nothing more, but a route that is set is a label of the         *)
(* request's metric all the same.  The other metrics come from the spans'  *)
(* ends.                                                                   *)
(*                                                                         *)
(* A request that a navigation made names it as its parent, by an id that  *)
(* the browser reports later, in a row of a batch (otel.Navigations).      *)
(***************************************************************************)
EXTENDS Integers, Sequences

CONSTANTS
    MaxGuards,  \* bound: the guards in Use
    MaxOps      \* bound: the document operations of a request and their calls into the backend

ASSUME TracingAssumption == MaxGuards \in Nat /\ MaxOps \in Nat

VARIABLES
    routed,    \* the mux is in otel.Routes
    from,      \* the request came from a navigation
    row,       \* that navigation's row: to come, refused, or recorded
    guards,    \* the guards that are still to be entered
    target,    \* what the mux finds
    stack,     \* the calls under way, outermost first
    way,       \* the calls go "in" or come "back"; or the request is "over", or "panicked"
    spans,     \* the spans, in the order they were opened
    measured,  \* per span: how often its duration was recorded
    ops,       \* the document operations and the backend's calls so far
    cut,       \* what answered before the framework learnt the route: "none" of a guard, an
               \* endpoint's limit, and a hit of a page's cache
    learnt     \* the request's metric has its route

traceVars == <<routed, from, row, guards, target, stack, way, spans, measured, ops, cut, learnt>>

\* What a span has for a parent when that is no span before it.
NoParent      == 0
TheNavigation == -1

Kinds   == {"http", "middleware", "render", "api", "db", "db.storage", "navigation"}
Timed   == {"render", "api", "db", "db.storage"}
Targets == {"page", "endpoint", "plain", "unknown"}
Stages  == {"none", "authorize", "permit", "decode", "validate", "handler"}

TracingTypeOK ==
    /\ routed \in BOOLEAN /\ from \in BOOLEAN /\ row \in {"to come", "refused", "recorded"}
    /\ guards \in 0..MaxGuards /\ target \in Targets
    /\ \A i \in 1..Len(stack) :
          stack[i] \in [at : Kinds \ {"navigation"}, span : 1..Len(spans), passed : BOOLEAN]
    /\ way \in {"in", "back", "over", "panicked"}
    /\ \A i \in 1..Len(spans) :
          spans[i] \in [kind : Kinds, parent : TheNavigation..Len(spans),
                        ended : Nat, failed : BOOLEAN, routed : BOOLEAN, stage : Stages]
    /\ measured \in [1..Len(spans) -> Nat]
    /\ ops \in 0..MaxOps /\ cut \in {"none", "guard", "limit", "hit"} /\ learnt \in BOOLEAN

-----------------------------------------------------------------------------
(* core/observe and its tracer.                                             *)

Span(kind, parent) ==
    [kind |-> kind, parent |-> parent, ended |-> 0, failed |-> FALSE, routed |-> FALSE,
     stage |-> "none"]

Top == stack[Len(stack)]
Outer == SubSeq(stack, 1, Len(stack) - 1)

\* Current: the span on the context here.
Current == Top.span

\* Start, of a span that a call is made under.
Started(kind) ==
    /\ spans' = Append(spans, Span(kind, Current))
    /\ measured' = Append(measured, 0)
    /\ stack' = Append(stack, [at |-> kind, span |-> Len(spans'), passed |-> FALSE])

\* Set on the current span, unless that has ended.
SetRoute(ss, s) == IF ss[s].ended > 0 THEN ss ELSE [ss EXCEPT ![s].routed = TRUE]

\* RecordError, as api.Config.OnError has it: on the span of the context that fail is given.
Erred(ss, s) == IF ss[s].ended > 0 THEN ss ELSE [ss EXCEPT ![s].failed = TRUE]

\* End: the duration goes to the histogram of the kind.
Ended(ss, s, err) == [ss EXCEPT ![s].ended = @ + 1, ![s].failed = @ \/ err]
Measured(s) == measured' = [measured EXCEPT ![s] = IF spans[s].kind \in Timed THEN @ + 1 ELSE @]

-----------------------------------------------------------------------------
(* Use: otel.HTTP, then guards in Named.                                    *)

TracingInit ==
    /\ routed \in BOOLEAN /\ from \in BOOLEAN /\ row = "to come"
    /\ guards \in 0..MaxGuards /\ target \in Targets
    /\ spans = <<Span("http", IF from THEN TheNavigation ELSE NoParent)>> /\ measured = <<0>>
    /\ stack = <<[at |-> "http", span |-> 1, passed |-> TRUE]>>
    /\ way = "in" /\ ops = 0 /\ cut = "none" /\ learnt = FALSE

\* Named opens its span; what the guard does is in it.
GuardEnters ==
    /\ way = "in" /\ guards > 0 /\ Top.at \in {"http", "middleware"} /\ Top.passed
    /\ guards' = guards - 1
    /\ Started("middleware")
    /\ UNCHANGED <<routed, from, row, target, way, ops, cut, learnt>>

\* Its next is entered: the span ends there, and yet is on the context of what follows.
GuardPasses ==
    /\ way = "in" /\ Top.at = "middleware" /\ ~Top.passed
    /\ stack' = [stack EXCEPT ![Len(stack)].passed = TRUE]
    /\ spans' = Ended(spans, Top.span, FALSE)
    /\ Measured(Top.span)
    /\ UNCHANGED <<routed, from, row, guards, target, way, ops, cut, learnt>>

\* It answers instead.
GuardAnswers ==
    /\ way = "in" /\ Top.at = "middleware" /\ ~Top.passed
    /\ way' = "back" /\ cut' = "guard"
    /\ UNCHANGED <<routed, from, row, guards, target, stack, spans, measured, ops, learnt>>

\* Mutant of GuardReturns: the end of its span, whether it was or not.
GuardReturnsEnding ==
    /\ way = "back" /\ Top.at = "middleware"
    /\ stack' = Outer
    /\ spans' = Ended(spans, Top.span, FALSE) /\ Measured(Top.span)
    /\ UNCHANGED <<routed, from, row, guards, target, way, ops, cut, learnt>>

\* Named returns: it ends the span that next did not.
GuardReturns ==
    /\ way = "back" /\ Top.at = "middleware"
    /\ stack' = Outer
    /\ IF Top.passed THEN UNCHANGED <<spans, measured>>
       ELSE spans' = Ended(spans, Top.span, FALSE) /\ Measured(Top.span)
    /\ UNCHANGED <<routed, from, row, guards, target, way, ops, cut, learnt>>

-----------------------------------------------------------------------------
(* The mux, behind otel.Routes or not.                                      *)

AtMux == way = "in" /\ guards = 0 /\ Top.at \in {"http", "middleware"} /\ Top.passed

\* What comes back from the mux gets its pattern's name, if none was set before.
FromMux(ss) == IF routed THEN SetRoute(ss, Current) ELSE ss

\* The mux is behind an answer that is there; the framework learnt the route, or did not.
Replied(ss, learns) ==
    /\ way' = "back"
    /\ spans' = FromMux(ss) /\ learnt' = (learnt \/ learns \/ routed)
    /\ UNCHANGED <<routed, from, row, guards, target, stack, measured, ops>>

\* App.render: the route, and the span that a page's reads nest in; none is of a page not found.
RenderStarts ==
    /\ AtMux /\ target \in {"page", "unknown"}
    /\ spans' = Append(IF target = "page" THEN SetRoute(spans, Current) ELSE spans,
                       Span("render", Current))
    /\ learnt' = (learnt \/ target = "page")
    /\ measured' = Append(measured, 0)
    /\ stack' = Append(stack, [at |-> "render", span |-> Len(spans'), passed |-> FALSE])
    /\ UNCHANGED <<routed, from, row, guards, target, way, ops, cut>>

\* A page that is cached is around that: a hit does not enter App.render.
PageHits == AtMux /\ target = "page" /\ cut' = "hit" /\ Replied(spans, FALSE)

\* A handler that the framework does not route: one on the mux by hand, a file, a redirect.
PlainAnswers == AtMux /\ target = "plain" /\ UNCHANGED cut /\ Replied(spans, FALSE)

\* Mutant of Guarded: the route is set by the handler, behind what may refuse the call.
GuardedUnnamed(stage) ==
    /\ AtMux /\ target = "endpoint" /\ UNCHANGED cut
    /\ Replied(IF stage = "none" THEN spans ELSE Erred(spans, Current), FALSE)

\* An endpoint learns its route before anything can refuse it; then a refusal, with its stage and
\* failure on the current span, or a hit of the cache.
Guarded(stage) ==
    /\ AtMux /\ target = "endpoint" /\ UNCHANGED cut
    /\ LET named == SetRoute(spans, Current)
       IN  Replied(IF stage = "none" \/ named[Current].ended > 0 THEN named
                    ELSE [Erred(named, Current) EXCEPT ![Current].stage = stage], TRUE)

\* A limit is outside of that: it refuses before the route is known.
Limits == AtMux /\ target = "endpoint" /\ cut' = "limit" /\ Replied(Erred(spans, Current), FALSE)

\* The endpoint's handler.
CallStarts ==
    /\ AtMux /\ target = "endpoint"
    /\ spans' = Append(SetRoute(spans, Current), Span("api", Current)) /\ learnt' = TRUE
    /\ measured' = Append(measured, 0)
    /\ stack' = Append(stack, [at |-> "api", span |-> Len(spans'), passed |-> FALSE])
    /\ UNCHANGED <<routed, from, row, guards, target, way, ops, cut>>

\* render and stop end the span; an endpoint's failure is then filed on the span of the context
\* that it was called with, which is the one that just ended.
CallEnds(stage) ==
    /\ way = "in" /\ Top.at \in {"render", "api"}
    /\ stage \in (IF Top.at = "render" THEN {"none", "handler"} ELSE Stages \ {"authorize", "permit"})
    /\ stack' = Outer
    /\ way' = "back"
    /\ LET s  == Top.span
           ss == Erred(Ended([spans EXCEPT ![s].stage = stage], s, stage # "none"), s)
       IN  /\ Measured(s)
           /\ spans' = IF routed THEN SetRoute(ss, Outer[Len(Outer)].span) ELSE ss
    /\ learnt' = (learnt \/ routed)
    /\ UNCHANGED <<routed, from, row, guards, target, ops, cut>>

-----------------------------------------------------------------------------
(* db.Service: an operation and its calls into the backend.                 *)

\* An operation of a page, an endpoint, a guard or another handler, or within another (One's Find).
OpStarts ==
    /\ way = "in" /\ Top.at # "db.storage" /\ ops < MaxOps
    /\ ops' = ops + 1
    /\ Started("db")
    /\ UNCHANGED <<routed, from, row, guards, target, way, cut, learnt>>

StorageStarts ==
    /\ way = "in" /\ Top.at = "db" /\ ops < MaxOps
    /\ ops' = ops + 1
    /\ Started("db.storage")
    /\ UNCHANGED <<routed, from, row, guards, target, way, cut, learnt>>

DbEnds(err) ==
    /\ way = "in" /\ Top.at \in {"db", "db.storage"}
    /\ stack' = Outer
    /\ spans' = Ended(spans, Top.span, err) /\ Measured(Top.span)
    /\ UNCHANGED <<routed, from, row, guards, target, way, ops, cut, learnt>>

\* A panic in a handler, a component or the backend: of what is under way only an operation's end
\* is deferred, and otelhttp's.
Panics ==
    /\ way = "in" /\ Len(stack) > 1 /\ ~Top.passed
    /\ way' = "panicked"
    /\ LET ends == {stack[i].span : i \in {j \in 1..Len(stack) : stack[j].at \in {"db", "http"}}}
       IN  /\ spans' = [i \in 1..Len(spans) |->
                           IF i \in ends THEN Ended(spans, i, FALSE)[i] ELSE spans[i]]
           /\ measured' = [i \in 1..Len(spans) |->
                              IF i \in ends /\ spans[i].kind = "db" THEN measured[i] + 1
                              ELSE measured[i]]
    /\ stack' = <<>>
    /\ UNCHANGED <<routed, from, row, guards, target, ops, cut, learnt>>

RequestEnds ==
    /\ way = "back" /\ Top.at = "http"
    /\ way' = "over"
    /\ spans' = Ended(spans, Top.span, FALSE)
    /\ stack' = <<>>
    /\ UNCHANGED <<routed, from, row, guards, target, measured, ops, cut, learnt>>

\* The batch with the navigation's row: one that is not whole is refused; the span has the id of the
\* browser's, and no parent.
AuditRow(to) ==
    /\ from /\ row = "to come"
    /\ row' = to
    /\ IF to = "refused" THEN UNCHANGED <<spans, measured>>
       ELSE /\ spans' = Append(spans, [Span("navigation", NoParent) EXCEPT !.ended = 1])
            /\ measured' = Append(measured, 0)
    /\ UNCHANGED <<routed, from, guards, target, stack, way, ops, cut, learnt>>

TracingNext ==
    \/ GuardEnters \/ GuardPasses \/ GuardAnswers \/ GuardReturns
    \/ RenderStarts \/ PageHits \/ PlainAnswers \/ Limits \/ CallStarts
    \/ \E stage \in {"none", "authorize", "permit"} : Guarded(stage)
    \/ \E stage \in Stages : CallEnds(stage)
    \/ OpStarts \/ StorageStarts \/ (\E err \in BOOLEAN : DbEnds(err))
    \/ Panics \/ RequestEnds
    \/ \E to \in {"refused", "recorded"} : AuditRow(to)

TracingSpec == TracingInit /\ [][TracingNext]_traceVars

-----------------------------------------------------------------------------
\* No span is ended twice or measured twice; when a request is over without a panic each of its
\* spans was ended, and each that is timed was measured, so that the trace and the metrics agree
\* on what happened.
SpansEndOnce ==
    \A i \in 1..Len(spans) :
        /\ spans[i].ended <= 1 /\ measured[i] <= spans[i].ended
        /\ way = "over" => spans[i].ended = 1
        /\ spans[i].kind \in Timed => measured[i] = spans[i].ended

\* A span was opened within its parent, and does not outlast it, but for a guard's that has passed:
\* a storage call within its operation, an operation within a page, an endpoint, a guard or another
\* operation, and these within the request. The browser's has no parent here.
Within(kind) == CASE kind = "db.storage" -> {"db"}
                  [] kind = "db" -> {"http", "middleware", "render", "api", "db"}
                  [] kind \in {"middleware", "render", "api"} -> {"http", "middleware"}
                  [] OTHER -> {}
SpansNest ==
    \A i \in 2..Len(spans) : spans[i].kind # "navigation" =>
        /\ spans[i].parent \in 1..i - 1 /\ spans[spans[i].parent].kind \in Within(spans[i].kind)
        /\ spans[i].ended = 0 /\ way # "panicked" =>
              spans[spans[i].parent].ended = 0 \/ spans[spans[i].parent].kind = "middleware"

\* What is known of a request's route when it is over: behind otel.Routes that of all that reached
\* the mux; otherwise that of a page that was rendered, and of an endpoint that was called, refused
\* or answered from the cache. A page's hit is not, nor what a limit refuses.
Known == cut # "guard" /\ (routed \/ (cut = "none" /\ target \in {"page", "endpoint"}))

\* The request's metric has a route exactly if that is known; and so has its span, if no guard is
\* named: the first that is hides the request's span from the route for good.
RequestsAreNamed ==
    way = "over" =>
        /\ learnt <=> Known
        /\ spans[1].routed <=> Known /\ \A i \in 1..Len(spans) : spans[i].kind # "middleware"

TracesAreWhole == SpansEndOnce /\ SpansNest /\ RequestsAreNamed
=============================================================================
