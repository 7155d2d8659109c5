------------------------------- MODULE Redaction -------------------------------
(***************************************************************************)
(* What a span may say of a query, an update or a body: Render and         *)
(* Sensitive (core/observe/redact.go), as db.Service and api.Define call   *)
(* them.  A value is a tree; of a string only this matters: whether it     *)
(* names a row, looks like an address, or is any other text.  The output   *)
(* is a sequence of tokens, each of length one.                            *)
(***************************************************************************)
EXTENDS Integers, Sequences, SequencesExt, FiniteSets

CONSTANTS
    SensitiveWords,  \* words, as sequences of small letters and digits
    Identifiers,     \* strings that name a row
    Addresses,       \* strings that look like an address
    Documents,       \* the values that are recorded
    Spelt,           \* lists of words that name a field, to be spelt in every way
    MaxRendered, MaxElements, MaxDepth  \* bounds of the code, made small

VARIABLES
    mode,     \* "safe", "full" or "off"
    enabled,  \* a tracer is installed
    arg,      \* the value to be recorded
    text      \* the attribute, once there is one

redactVars == <<mode, enabled, arg, text>>

Modes == {"safe", "full", "off"}

-----------------------------------------------------------------------------
(* The names of fields: a character is a small letter or a large one, a     *)
(* digit, or anything else.                                                 *)

Small(x) == [class |-> IF x = "2" THEN "digit" ELSE "small", is |-> x]
Large(x) == [class |-> IF x = "2" THEN "digit" ELSE "large", is |-> x]
Other    == [class |-> "other", is |-> "_"]

\* Mutant of StartsAt: a run of large letters is one word with what follows it.
StartsAtFirst(field, i) == field[i].class = "large" /\ i > 1 /\ field[i - 1].class # "large"

\* A word starts at i.
StartsAt(field, i) ==
    /\ field[i].class = "large" /\ i > 1
    /\ \/ field[i - 1].class # "large"
       \/ i < Len(field) /\ field[i + 1].class \notin {"large", "digit"}

\* words: cut at what is neither letter nor digit, and before the characters above.
Words(field) ==
    LET step(acc, i) ==
            IF field[i].class = "other" THEN [done |-> Append(acc.done, acc.word), word |-> <<>>]
            ELSE IF StartsAt(field, i)
            THEN [done |-> Append(acc.done, acc.word), word |-> <<field[i].is>>]
            ELSE [acc EXCEPT !.word = Append(@, field[i].is)]
        end == FoldLeft(step, [done |-> <<>>, word |-> <<>>], [i \in 1..Len(field) |-> i])
    IN  SelectSeq(Append(end.done, end.word), LAMBDA w : w # <<>>)

Sensitive(field) == \E i \in 1..Len(Words(field)) : Words(field)[i] \in SensitiveWords

-----------------------------------------------------------------------------
(* The values, all records of one shape.                                    *)

Scalar    == [kind |-> "scalar", says |-> "", items |-> <<>>, names |-> <<>>]
Str(s)    == [Scalar EXCEPT !.kind = "string", !.says = s]
List(vs)  == [Scalar EXCEPT !.kind = "list", !.items = vs]
\* A map, its names in their order.
Map(names, vs) == [Scalar EXCEPT !.kind = "map", !.names = names, !.items = vs]

\* A key of the data's own, which looks like an address; fields are the others.
AddressKey == <<Other>>

Token(t, s) == [token |-> t, says |-> s]

\* Mutant of Hides: what is said of the level above is forgotten.
HidesOwn(hidden, key) == Sensitive(key)

\* hidden, of what is under a key.
Hides(hidden, key) == hidden \/ Sensitive(key)

\* writeStr.
WriteStr(s, m, hidden) ==
    IF hidden \/ s \in Addresses \/ (m # "full" /\ s \notin Identifiers)
    THEN <<Token("redacted", "")>> ELSE <<Token("says", s)>>

\* write, writeMap and writeSlice, of v to the end of b.
RECURSIVE WriteValue(_, _, _, _, _)
WriteValue(b, v, m, hidden, depth) ==
    LET field(out, i) ==
            IF out.broke THEN out
            ELSE IF Len(out.b) > MaxRendered
            THEN [b |-> Append(out.b, Token("cut", "")), broke |-> TRUE]
            ELSE LET key == IF v.names[i] = AddressKey THEN Token("redacted", "")
                            ELSE Token("key", "")
                 IN  [out EXCEPT !.b = WriteValue(Append(@, key), v.items[i], m,
                                             Hides(hidden, v.names[i]), depth + 1)]
        item(out, i) ==
            IF i <= MaxElements THEN WriteValue(out, v.items[i], m, hidden, depth + 1)
            ELSE IF i = MaxElements + 1 THEN Append(out, Token("more", "")) ELSE out
        each == [i \in 1..Len(v.items) |-> i]
    IN  IF depth > MaxDepth THEN Append(b, Token("cut", ""))
        ELSE IF Len(b) > MaxRendered THEN b
        ELSE CASE v.kind = "scalar" -> Append(b, Token("scalar", ""))
               [] v.kind = "string" -> b \o WriteStr(v.says, m, hidden)
               [] v.kind = "list"   -> Append(FoldLeft(item, Append(b, Token("[", "")), each), Token("]", ""))
               [] v.kind = "map"    ->
                      Append(FoldLeft(field, [b |-> Append(b, Token("{", "")), broke |-> FALSE], each).b,
                             Token("}", ""))

Rendered(v, m) ==
    IF m = "off" THEN <<>>
    ELSE LET out == WriteValue(<<>>, v, m, FALSE, 0)
         IN  IF Len(out) > MaxRendered
             THEN Append(SubSeq(out, 1, MaxRendered), Token("cut", "")) ELSE out

-----------------------------------------------------------------------------
RedactInit ==
    /\ mode \in Modes /\ enabled \in BOOLEAN /\ arg \in Documents /\ text = <<>>

\* query, changed and record: nothing is built for a span that nobody keeps.
Records ==
    /\ mode # "off" /\ enabled /\ text = <<>>
    /\ text' = Rendered(arg, mode)
    /\ UNCHANGED <<mode, enabled, arg>>

RedactNext == Records

RedactSpec == RedactInit /\ [][RedactNext]_redactVars

-----------------------------------------------------------------------------
\* The strings of v, each under the names above it.
RECURSIVE Said(_, _)
Said(v, under) ==
    IF v.kind = "string" THEN {[says |-> v.says, under |-> under]}
    ELSE UNION {Said(v.items[i], IF v.kind = "map" THEN under \cup {v.names[i]} ELSE under) :
                i \in 1..Len(v.items)}

Capital(w) == [i \in 1..Len(w) |-> IF i = 1 THEN Large(w[i]) ELSE Small(w[i])]
Lower(w)   == [i \in 1..Len(w) |-> Small(w[i])]
Upper(w)   == [i \in 1..Len(w) |-> Large(w[i])]
Joined(ws, between) == FoldLeft(LAMBDA s, w : IF s = <<>> THEN w ELSE s \o between \o w, <<>>, ws)
Each(Spell(_), ws)  == [i \in 1..Len(ws) |-> Spell(ws[i])]

Shouted(ws) == Joined(Each(Upper, ws), <<Other>>)

\* The words of a name as user_email, USER_EMAIL, UserEmail, userEmail, and USEREmail: the last if the
\* case changes in its second word, which nothing separates from the first otherwise.
Spellings(ws) ==
    {Joined(Each(Lower, ws), <<Other>>), Shouted(ws), Joined(Each(Capital, ws), <<>>),
     Joined(<<Lower(ws[1])>> \o Each(Capital, Tail(ws)), <<>>)}
    \cup {Joined(<<Upper(ws[1])>> \o Each(Capital, Tail(ws)), <<>>) :
            w \in {w \in {ws} : Len(w) > 1 => Len(w[2]) > 1 /\ Small(w[2][2]).class = "small"}}

\* A name that has a sensitive word, in any spelling.
NamesSecret(name) ==
    \E ws \in Spelt : name \in Spellings(ws) /\ \E j \in 1..Len(ws) : ws[j] \in SensitiveWords

\* The same, but for what words makes of USER_EMAIL_HASH: a word in capitals that a separator follows
\* is cut before its last letter, and is only known if it is no longer than that.
NamesKnownSecret(name) ==
    \E ws \in Spelt : /\ name \in Spellings(ws)
                      /\ \E j \in 1..Len(ws) : /\ ws[j] \in SensitiveWords
                                               /\ name = Shouted(ws) => j = Len(ws) \/ Len(ws[j]) = 1

\* The strings of v that may be recorded, when IsSecret says which names are sensitive.
Meant(v, m, IsSecret(_)) ==
    {s.says : s \in {x \in Said(v, {}) :
        /\ x.says \notin Addresses /\ (m = "safe" => x.says \in Identifiers)
        /\ \A name \in x.under : ~IsSecret(name)}}

Tokens(t) == {i \in 1..Len(text) : text[i].token = t}
Recorded  == {text[i].says : i \in Tokens("says")}

\* What a span holds was meant for it: whatever the nesting and the limits, a string is in the
\* attribute only if no name above it is sensitive, in small letters, in capitals or in any mixture
\* but one, and it is no address, and, unless values are wanted, it names a row; and it is there if
\* nothing was cut. The one is a name all in capitals with a sensitive word before its last.  The
\* attribute is bounded.
RecordsAreMeant ==
    /\ Recorded \subseteq Meant(arg, mode, NamesKnownSecret)
    /\ text # <<>> /\ Tokens("cut") = {} /\ Tokens("more") = {} =>
           Recorded = Meant(arg, mode, NamesKnownSecret)
    /\ Len(text) <= MaxRendered + 1

\* "A sensitive field name redacts its whole subtree ... A word break is punctuation or a case change"
\* (www/docs/12-observability.md:113, redact.go:83-90): in whatever spelling.
SecretsAreRedacted == Recorded \subseteq Meant(arg, mode, NamesSecret)
=============================================================================
