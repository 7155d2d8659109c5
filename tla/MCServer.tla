-------------------------------- MODULE MCServer --------------------------------
(***************************************************************************)
(* What several requests, or several processes, do to each other on the    *)
(* server: writes of documents, the middleware around a handler, the       *)
(* deploys a collection lives through, the spans of a request, and what a  *)
(* span may say.  They share no state: a behaviour is one of a single      *)
(* part, chosen at the start, and in it the others stay as they are.       *)
(***************************************************************************)
EXTENDS Documents, Pipeline, Schema, Tracing, Redaction, TLC

CONSTANTS
    Parts,           \* the parts that are run
    i1, i2,          \* documents
    c1, c2, c3,      \* calls
    p1, p2           \* processes

VARIABLE part

-----------------------------------------------------------------------------
\* An older build, which makes a column unique; a newer one with a field more, which does not; and
\* one that omits the field when it is nil, and has no default for it.
MCZero == [f \in Fields |-> IF f = "f" THEN Null ELSE "d"]
MCBuild(declared, omitted, default, path, unique) ==
    [declared |-> declared, omitted |-> omitted, defaults |-> [f \in Fields |-> IF f = "f" THEN default ELSE "d"],
     column |-> [g \in Fields |-> IF g = path THEN path ELSE "none"], unique |-> unique]
MCBuilds ==
    {MCBuild({"g"}, {}, "d", "g", {"g"}), MCBuild(Fields, {}, "d", "f", {}),
     MCBuild({"f"}, {"f"}, Null, "none", {})}

MCPath(t, s) == [text |-> t, parts |-> s]
MCLetters    == [s \in {"a", "b", "ab"} |-> IF s = "ab" THEN <<"a", "b">> ELSE <<s>>]
MCPrefix     == MCPath(<<"/", "a">>, <<"a">>)
MCRequests   ==
    [path : {MCPath(<<"/", "a">>, <<"a">>), MCPath(<<"/", "a", "/", "b">>, <<"a", "b">>),
             MCPath(<<"/", "a", "b">>, <<"ab">>)},
     signedIn : BOOLEAN, gzip : BOOLEAN, id : {"good", "bad"}, safe : {FALSE}, token : BOOLEAN]

\* The chain of the package's comment, with the logger and the id that app.Config adds before it;
\* and chains with Recover inside, a guard of each kind, CSRF, and the compressor alone.
MCChains ==
    {<<"id", "log", "id", "recover", "compress">>, <<"log", "compress", "recover", "only">>,
     <<"compress", "log", "csrf">>, <<"recover", "except", "compress">>, <<"compress">>}

\* The sensitive ab; what only holds it, cab; and names before and after it, one with a digit.
MCSecrets == {<<"a", "b">>}
MCSpelt == LET words == {<<"a", "b">>, <<"c", "a", "b">>}
               other == {<<"c">>, <<"c", "d", "2">>}
           IN  {<<w>> : w \in words} \cup {<<v, w>> : v \in other, w \in words}
               \cup {<<w, v>> : v \in other, w \in words}

\* Strings, lists and maps in maps, with up to two different strings, three levels deep.
MCNames == UNION {Spellings(ws) : ws \in MCSpelt}
MCOver(vs, names) ==
    {List(<<v>>) : v \in vs} \cup {Map(<<n>>, <<v>>) : n \in names, v \in vs}
MCLeaves == {Scalar, Str("id"), Str("address"), Str("word")}
MCDeeper == MCOver(MCLeaves, MCNames)
MCFew    == {Lower(<<"a", "b">>), Lower(<<"c", "a", "b">>), AddressKey}
MCPairs  == {Map(<<n, x>>, <<v, Str("id2")>>) : n \in MCNames \cup {AddressKey}, x \in MCFew, v \in MCLeaves}
            \cup {Map(<<x, n>>, <<v, Str("id2")>>) : n \in MCNames, x \in MCFew, v \in MCLeaves}
            \cup {List(<<v, Str("id2"), Scalar>>) : v \in MCLeaves}
MCDocuments == MCLeaves \cup MCDeeper \cup MCPairs \cup MCOver(MCDeeper, Spellings(<<<<"a", "b">>>>))
               \cup MCOver(MCOver({Str("id")}, MCNames), {Lower(<<"d">>)})

\* What is only compared, and no property tells from another.
MCSymmetry == Permutations({c1, c2, c3}) \cup Permutations({i1, i2})

\* The deploys of a collection in two parts, as both at once are too many states: the columns of the
\* builds that promote a path, without patches; and the documents of all builds, without columns.
Columns ==
    /\ patch' = NoPatch
    /\ \A p \in Procs : procs'[p].at # "down" => Promoted(procs'[p].build) # {}
    /\ report' # NoReport => faults = 0 /\ \A p \in Procs : procs[p].at = "up"

-----------------------------------------------------------------------------
\* The world of a part that is not run is one of its own.
ServerInit ==
    /\ part \in Parts
    /\ Init
    /\ part # "documents" => /\ bulkWriter = CHOOSE b \in BulkWriters : TRUE
                             /\ rows = [i \in Ids |-> NoRow]
    /\ IF part = "pipeline" THEN PipeInit
       ELSE /\ chain = (CHOOSE c \in Chains : TRUE) /\ request = CHOOSE r \in Requests : TRUE
            /\ phase = "entering" /\ layer = 1 /\ tops = <<>> /\ writers = <<>> /\ calls = <<>>
            /\ script = <<>> /\ headers = NoHeaders /\ wire = NewWire(NoHeaders) /\ said = Nothing
            /\ panic = "none" /\ ctxID = "" /\ log = NoLine /\ span = NoSpan
    /\ SchemaInit
    /\ backend = IF part = "columns" THEN "sqlite" ELSE "memdb"
    /\ TracingInit
    /\ part # "tracing" => ~routed /\ ~from /\ guards = 0 /\ target = "page"
    /\ IF part = "records" THEN RedactInit
       ELSE mode = "off" /\ enabled = FALSE /\ arg = Scalar /\ text = <<>>

ServerNext ==
    /\ UNCHANGED part
    /\ \/ part = "documents" /\ Next /\ UNCHANGED <<pipeVars, schemaVars, traceVars, redactVars>>
       \/ part = "pipeline" /\ PipeNext /\ UNCHANGED <<vars, schemaVars, traceVars, redactVars>>
       \/ /\ part \in {"columns", "upkeep"} /\ SchemaNext /\ (part = "columns" => Columns)
          /\ UNCHANGED <<vars, pipeVars, traceVars, redactVars>>
       \/ part = "tracing" /\ TracingNext /\ UNCHANGED <<vars, pipeVars, schemaVars, redactVars>>
       \/ part = "records" /\ RedactNext /\ UNCHANGED <<vars, pipeVars, schemaVars, traceVars>>

ServerSpec == ServerInit /\ [][ServerNext]_<<part, vars, pipeVars, schemaVars, traceVars, redactVars>>

-----------------------------------------------------------------------------
\* The properties of the parts, by their names.
ServerTypeOK == TypeOK /\ PipeTypeOK /\ SchemaTypeOK /\ TracingTypeOK
=============================================================================
