------------------------------ MODULE Endpoints ------------------------------
(***************************************************************************)
(* core/api: what a declared endpoint makes of a request.  Define wraps    *)
(* the handler, from the inside out, in decoding and validation, in the    *)
(* response cache (mw.Cache), in the application's Authorize and Permit,   *)
(* and in the rate limit (mw.RateLimit); Register shares one store and one *)
(* limiter among the endpoints.  Call is the generated client's half.      *)
(*                                                                         *)
(* Each request is a goroutine of the server's.  The application decides   *)
(* who may do what, and changes its mind between any two steps.  What the  *)
(* store and the limiter are made of is LRU's and RateLimit's: here an     *)
(* entry may be lost at any time, and a bucket does not refill.            *)
(***************************************************************************)
EXTENDS Integers, FiniteSets

CONSTANTS
    Calls,       \* the requests, each made once
    Endpoint,    \* per endpoint: what its Spec declares
    Sessions,    \* what a request carries: a Cookie or an Authorization
    UserOf,      \* per session: whose it is
    NoSession,   \* a request that carries neither
    Addresses,   \* the addresses requests come from
    Allowed,     \* Limit.Burst, in a window that does not end
    MaxChanges   \* bound: how often the application changes what a user may do

Endpoints == DOMAIN Endpoint
Users     == {UserOf[s] : s \in Sessions}
Anonymous == ""

ASSUME EndpointsAssumption ==
    /\ NoSession \notin Sessions
    /\ Anonymous \notin Users
    /\ Endpoint \in [Endpoints -> [roles : BOOLEAN, permissions : BOOLEAN, cached : BOOLEAN,
                                   limited : BOOLEAN, field : {"number", "text", "optional"},
                                   method : {"GET", "POST"}]]
    /\ Allowed \in Nat \ {0} /\ MaxChanges \in Nat

VARIABLES
    config,   \* api.Config: which of its functions the application gave
    rights,   \* per user: what the application lets it do
    changes,  \* how often that changed
    store,    \* Config.Cache: per key, the value an entry holds
    spent,    \* Config.Limiter: per key, the tokens taken
    ask       \* per request: where it is, what it asks, and what it got

endpointVars == <<config, rights, changes, store, spent, ask>>

-----------------------------------------------------------------------------
(* The query on its way: a field of the struct, its text in the URL, and   *)
(* the field the handler is given.                                         *)

\* A value of the field: not set at all, zero, one that Validate refuses, another; for a text
\* also one with a space around it.
Sendable(type) ==
    {"zero", "refused", "plain"} \cup (CASE type = "optional" -> {"nil"}
                                         [] type = "text"     -> {"spaced"}
                                         [] OTHER             -> {})
Omitted == "missing"
Texts == {Omitted, "zero", "refused", "plain", "spaced", "broken"}

\* EncodeQuery: what is zero is left out, under a pointer too.
EncodeQuery(v) == IF v \in {"nil", "zero"} THEN Omitted ELSE v

\* decodeQuery, of one field: blanks are trimmed, and what is missing stays zero.  Any text is
\* one, a number may not be.
Unreadable == "unreadable"
DecodeQuery(type, text) ==
    CASE text = Omitted  -> IF type = "optional" THEN "nil" ELSE "zero"
      [] text = "spaced" -> "plain"
      [] text = "broken" -> IF type = "text" THEN "plain" ELSE Unreadable
      [] OTHER           -> text

-----------------------------------------------------------------------------
(* Types.                                                                   *)

NoValue == [endpoint |-> "none", user |-> Anonymous, got |-> "none"]
Value   == [endpoint : Endpoints, user : Users \cup {Anonymous}, got : {"nil", "zero", "plain"}]

\* What the server answers with, and what Call makes of it.
Messages == {"limited", "forbidden", "input", "handler", "internal"}
NoAnswer == [code |-> 0, value |-> NoValue, message |-> "none"]
Answers  == [code : {0, 200, 201, 204, 400, 403, 404, 429, 500}, value : Value \cup {NoValue},
             message : Messages \cup {"none"}]

Ask == [at       : {"new", "limit", "roles", "permissions", "cache", "run", "store", "done"},
        endpoint : Endpoints, session : Sessions \cup {NoSession}, address : Addresses,
        sent     : {"nil", "zero", "refused", "plain", "spaced", "raw"},  \* what Call was given
        text     : Texts,                                   \* what the URL says
        answer   : Answers,
        got      : Answers,                                 \* what Call returned
        held     : SUBSET {"role", "permission"},           \* history: what it had when asked for it
        admitted : BOOLEAN, ran : BOOLEAN]                  \* history: a token was taken, its handler ran

NewAsk == [at |-> "new", endpoint |-> CHOOSE e \in Endpoints : TRUE, session |-> NoSession,
           address |-> CHOOSE i \in Addresses : TRUE, sent |-> "raw", text |-> Omitted,
           answer |-> NoAnswer, got |-> NoAnswer, held |-> {}, admitted |-> FALSE, ran |-> FALSE]

\* Who a session names.
Named(s) == IF s = NoSession THEN Anonymous ELSE UserOf[s]

\* Mutant of CacheKey: no caller.
CacheKeyOfAll(q) == <<q.endpoint, q.text, Anonymous>>

\* Config.cacheKey: the path, the query and the caller, who is its session without an Identity.
CacheKey(q) == <<q.endpoint, q.text, IF config.identity THEN Named(q.session) ELSE q.session>>

\* Mutant of LimitKey: the URL in the place of the pattern, and so a bucket per query.
LimitKeyByUrl(q) == <<q.endpoint, q.text, "ip", q.address>>

\* Config.limitKey: the endpoint, and the caller if Identity names it, or its address.
LimitKey(q) ==
    IF config.identity /\ Named(q.session) # Anonymous
    THEN <<q.endpoint, Omitted, "id", Named(q.session)>>
    ELSE <<q.endpoint, Omitted, "ip", q.address>>

CacheKeys == Endpoints \X Texts \X (Users \cup Sessions \cup {NoSession, Anonymous})
LimitKeys == Endpoints \X Texts \X {"id", "ip"} \X (Users \cup Addresses)

\* Every variable has its type: the store holds values, and nobody has more tokens than there are.
EndpointsTypeOK ==
    /\ config \in [identity : BOOLEAN, authorize : BOOLEAN, permit : BOOLEAN]
    /\ rights \in [Users -> SUBSET {"role", "permission"}]
    /\ changes \in 0..MaxChanges
    /\ DOMAIN store \subseteq CacheKeys /\ \A k \in DOMAIN store : store[k] \in Value
    /\ DOMAIN spent \subseteq LimitKeys /\ \A k \in DOMAIN spent : spent[k] \in 1..Allowed
    /\ ask \in [Calls -> Ask]

-----------------------------------------------------------------------------
\* Register, which panics at startup over a table that would serve everybody, or answer one
\* form with another's result.
Accepted(c) ==
    \A e \in Endpoints :
        /\ Endpoint[e].roles => c.authorize
        /\ Endpoint[e].permissions => c.permit
        /\ Endpoint[e].cached => Endpoint[e].method = "GET"

EndpointsInit ==
    /\ config \in {c \in [identity : BOOLEAN, authorize : BOOLEAN, permit : BOOLEAN] : Accepted(c)}
    /\ rights = [u \in Users |-> {"role", "permission"}]
    /\ changes = 0
    /\ store = [k \in {} |-> NoValue]
    /\ spent = [k \in {} |-> 0]
    /\ ask = [r \in Calls |-> NewAsk]

Asks(r, q) == ask' = [ask EXCEPT ![r] = q]
Answer(q, code, message) ==
    [q EXCEPT !.at = "done", !.answer = [code |-> code, value |-> NoValue, message |-> message]]

\* The application changes what a user may do.
RightsChange(u) ==
    /\ changes < MaxChanges
    /\ changes' = changes + 1
    /\ \E h \in SUBSET {"role", "permission"} :
          h # rights[u] /\ rights' = [rights EXCEPT ![u] = h]
    /\ UNCHANGED <<config, store, spent, ask>>

\* An entry expires, or is evicted.
EntryGoes(k) ==
    /\ k \in DOMAIN store
    /\ store' = [l \in DOMAIN store \ {k} |-> store[l]]
    /\ UNCHANGED <<config, rights, changes, spent, ask>>

\* A generated client is called with a value: it refuses what the server would, or sends it.
ClientCalls(r, e, s, i) ==
    /\ ask[r].at = "new"
    /\ \E v \in Sendable(Endpoint[e].field) :
          LET q == [NewAsk EXCEPT !.endpoint = e, !.session = s, !.address = i, !.sent = v]
          IN  Asks(r, IF v = "refused"
                         THEN [q EXCEPT !.at = "done", !.got =
                                  [code |-> 400, value |-> NoValue, message |-> "input"]]
                         ELSE [q EXCEPT !.at = "limit", !.text = EncodeQuery(v)])
    /\ UNCHANGED <<config, rights, changes, store, spent>>

\* Anything else sends any text.
RequestComes(r, e, s, i) ==
    /\ ask[r].at = "new"
    /\ \E text \in Texts :
          Asks(r, [NewAsk EXCEPT !.at = "limit", !.endpoint = e, !.session = s, !.address = i,
                                    !.text = text])
    /\ UNCHANGED <<config, rights, changes, store, spent>>

-----------------------------------------------------------------------------
Spent(k) == IF k \in DOMAIN spent THEN spent[k] ELSE 0

Unlimited(r) ==
    /\ ask[r].at = "limit" /\ ~Endpoint[ask[r].endpoint].limited
    /\ Asks(r, [ask[r] EXCEPT !.at = "roles"])
    /\ UNCHANGED <<config, rights, changes, store, spent>>

\* RateLimit.Handler around everything: a token is taken of a caller nobody has looked at yet.
Admit(r) ==
    LET k == LimitKey(ask[r])
    IN  /\ ask[r].at = "limit" /\ Endpoint[ask[r].endpoint].limited
        /\ Spent(k) < Allowed
        /\ spent' = [l \in DOMAIN spent \cup {k} |-> IF l = k THEN Spent(k) + 1 ELSE spent[l]]
        /\ Asks(r, [ask[r] EXCEPT !.at = "roles", !.admitted = TRUE])
        /\ UNCHANGED <<config, rights, changes, store>>

Refuse(r) ==
    /\ ask[r].at = "limit" /\ Endpoint[ask[r].endpoint].limited
    /\ Spent(LimitKey(ask[r])) >= Allowed
    /\ Asks(r, Answer(ask[r], 429, "limited"))
    /\ UNCHANGED <<config, rights, changes, store, spent>>

\* Whether the application lets a session through.
Holds(s, right) == s # NoSession /\ right \in rights[UserOf[s]]

\* authorize and permit: asked only of an endpoint that declares something, and of an
\* application that can answer.
Gate(r, at, right, asked, next) ==
    /\ ask[r].at = at
    /\ LET holds == Holds(ask[r].session, right)
       IN  Asks(r, IF asked /\ ~holds
                      THEN Answer(ask[r], 403, "forbidden")
                      ELSE [ask[r] EXCEPT !.at = next,
                                          !.held = @ \cup (IF holds THEN {right} ELSE {})])
    /\ UNCHANGED <<config, rights, changes, store, spent>>

Authorize(r) ==
    Gate(r, "roles", "role", Endpoint[ask[r].endpoint].roles /\ config.authorize, "permissions")

\* Mutant of Permit: an endpoint that declares roles as well is let through by them.
PermitUnlessAuthorized(r) ==
    LET e == Endpoint[ask[r].endpoint]
    IN  Gate(r, "permissions", "permission", e.permissions /\ ~e.roles,
             IF e.cached THEN "cache" ELSE "run")

Permit(r) ==
    LET e == Endpoint[ask[r].endpoint]
    IN  Gate(r, "permissions", "permission", e.permissions /\ config.permit,
             IF e.cached THEN "cache" ELSE "run")

\* mw.Cache with this key: the gates are behind it.
CacheHits(r) ==
    /\ ask[r].at = "cache" /\ CacheKey(ask[r]) \in DOMAIN store
    /\ Asks(r, [ask[r] EXCEPT !.at = "done",
           !.answer = [code |-> 200, value |-> store[CacheKey(ask[r])], message |-> "none"]])
    /\ UNCHANGED <<config, rights, changes, store, spent>>

CacheMisses(r) ==
    /\ ask[r].at = "cache" /\ CacheKey(ask[r]) \notin DOMAIN store
    /\ Asks(r, [ask[r] EXCEPT !.at = "run"])
    /\ UNCHANGED <<config, rights, changes, store, spent>>

-----------------------------------------------------------------------------
(* The run: decodeQuery, decodeBody, validate, the handler, and write.      *)

Decoded(q) == DecodeQuery(Endpoint[q.endpoint].field, q.text)

\* A query that cannot be read, and one that Validate refuses: both are the caller's.
InputRefused(r) ==
    /\ ask[r].at = "run" /\ Decoded(ask[r]) \in {Unreadable, "refused"}
    /\ Asks(r, Answer(ask[r], 400, "input"))
    /\ UNCHANGED <<config, rights, changes, store, spent>>

HandlerAnswers(r, code, cookie) ==
    LET q == ask[r]
    IN  /\ q.at = "run" /\ Decoded(q) \notin {Unreadable, "refused"}
        /\ Asks(r, [q EXCEPT
               !.ran = TRUE,
               !.at = IF Endpoint[q.endpoint].cached /\ code = 200 /\ ~cookie THEN "store" ELSE "done",
               !.answer = [code |-> code, message |-> "none",
                           value |-> IF code = 204 THEN NoValue
                                     ELSE [endpoint |-> q.endpoint, user |-> Named(q.session),
                                           got |-> Decoded(q)]]])
        /\ UNCHANGED <<config, rights, changes, store, spent>>

\* fail: an *api.Error is told as it is, anything else is not.
HandlerFails(r, deliberate) ==
    /\ ask[r].at = "run" /\ Decoded(ask[r]) \notin {Unreadable, "refused"}
    /\ Asks(r, [(IF deliberate THEN Answer(ask[r], 404, "handler")
                                  ELSE Answer(ask[r], 500, "internal")) EXCEPT !.ran = TRUE])
    /\ UNCHANGED <<config, rights, changes, store, spent>>

\* What was sent is kept.
CacheKeeps(r) ==
    /\ ask[r].at = "store"
    /\ store' = [k \in DOMAIN store \cup {CacheKey(ask[r])} |->
                    IF k = CacheKey(ask[r]) THEN ask[r].answer.value ELSE store[k]]
    /\ Asks(r, [ask[r] EXCEPT !.at = "done"])
    /\ UNCHANGED <<config, rights, changes, spent>>

\* Call, back in the client: from 400 on an error with the server's code and message, a 204
\* no value.
ClientGets(r) ==
    /\ ask[r].at \in {"store", "done"} /\ ask[r].sent # "raw"
    /\ ask[r].got = NoAnswer
    /\ Asks(r, [ask[r] EXCEPT !.got = ask[r].answer])
    /\ UNCHANGED <<config, rights, changes, store, spent>>

EndpointsNext ==
    \/ \E u \in Users : RightsChange(u)
    \/ \E k \in DOMAIN store : EntryGoes(k)
    \/ \E r \in Calls :
          \/ \E e \in Endpoints, s \in Sessions \cup {NoSession}, i \in Addresses :
                ClientCalls(r, e, s, i) \/ RequestComes(r, e, s, i)
          \/ Unlimited(r) \/ Admit(r) \/ Refuse(r)
          \/ Authorize(r) \/ Permit(r)
          \/ CacheHits(r) \/ CacheMisses(r)
          \/ InputRefused(r)
          \/ \E code \in {200, 201, 204}, cookie \in BOOLEAN : HandlerAnswers(r, code, cookie)
          \/ \E deliberate \in BOOLEAN : HandlerFails(r, deliberate)
          \/ CacheKeeps(r) \/ ClientGets(r)

EndpointsSpec == EndpointsInit /\ [][EndpointsNext]_endpointVars

-----------------------------------------------------------------------------
(* Properties.                                                              *)

\* Who gets a value, out of the cache or not, held what the endpoint declares when this very
\* request was asked for it, whatever entry somebody else's filled before or after; and the
\* value was computed for its own user, of its own query, at its own endpoint.
ValuesAreEarned ==
    \A r \in Calls :
        LET q == ask[r]
        IN  q.answer.value # NoValue =>
                /\ Endpoint[q.endpoint].roles => "role" \in q.held
                /\ Endpoint[q.endpoint].permissions => "permission" \in q.held
                /\ q.answer.value = [endpoint |-> q.endpoint, user |-> Named(q.session),
                                     got |-> Decoded(q)]

\* Who the limit takes a request to be from.
CountedAs(q) ==
    IF config.identity /\ Named(q.session) # Anonymous THEN <<"id", Named(q.session)>>
    ELSE <<"ip", q.address>>

\* A caller gets past an endpoint's limit as often as it allows, whatever it puts in its URL and
\* whichever session of its own it uses; and is refused only once it did, whatever others asked.
Admitted(e, c) == {r \in Calls : ask[r].admitted /\ ask[r].endpoint = e /\ CountedAs(ask[r]) = c}

LimitsHold ==
    \A e \in Endpoints :
        Endpoint[e].limited =>
            \A r \in Calls :
                LET mine == Cardinality(Admitted(e, CountedAs(ask[r])))
                IN  /\ mine <= Allowed
                    /\ ask[r].endpoint = e /\ ask[r].answer.code = 429 => mine = Allowed

\* The handler is given what the client was called with, unless that is one of the two values the
\* URL does not carry: a zero behind a pointer, and blanks around a text.
Carried(q) == q.sent \notin {"raw", "spaced"} /\ ~(q.sent = "zero" /\ Endpoint[q.endpoint].field = "optional")
CallsComeAcross ==
    \A r \in Calls :
        /\ ask[r].got.value # NoValue /\ Carried(ask[r]) => ask[r].got.value.got = ask[r].sent
        /\ ask[r].got.code # 0 /\ ask[r].sent = "refused" => ~ask[r].ran

AnswersAreEarned == ValuesAreEarned /\ LimitsHold /\ CallsComeAcross
=============================================================================
