----------------------------- MODULE OpenApiCalls -----------------------------
(***************************************************************************)
(* One `openapi operations prepare` or `call`: the operation is selected,  *)
(* the inputs are checked against their schemas and placed into a request  *)
(* (prepare.ts), which is shown without its credentials or sent once       *)
(* (call.ts).                                                              *)
(*                                                                         *)
(* A text is a name for itself; encode() is injective and its result has   *)
(* no delimiter in it, so that an encoded text stays one text and only the *)
(* dots, which it leaves alone, can change the path.                       *)
(***************************************************************************)
EXTENDS Naturals, Sequences, FiniteSets, SequencesExt

CONSTANTS
  Cases,        \* families of calls: a document and the inputs of the user
  Components,   \* the schemas of the document that references name
  MaxDepth      \* nesting of schema evaluations (32 in the code)

VARIABLES
  case,       \* a call of one of the Cases
  call,       \* how far the command is, and what it will report
  sent,       \* the request on its way, or the ones the server has got
  performed   \* the operations the server performed

vars == <<case, call, sent, performed>>

-----------------------------------------------------------------------------
(* JSON values and schemas.  A value has a type, and is a text, items or    *)
(* fields; a schema is a record of the keywords it has.  "constraint"       *)
(* stands for keywords that are not evaluated and do not change others.     *)

Anything == [anything |-> TRUE]    \* true, or no schema
Nothing == [nothing |-> TRUE]      \* false

Has(schema, keyword) == keyword \in DOMAIN schema

HasAny(schema, keywords) == keywords \cap DOMAIN schema # {}

Combining == {"allOf", "anyOf", "oneOf"}

Ignored == {"constraint", "prefixItems", "patternProperties"}

Get(schema, keyword, default) == IF Has(schema, keyword) THEN schema[keyword] ELSE default

Properties(schema) == Get(schema, "properties", [name \in {} |-> Anything])

Scalar(type, text) == [type |-> type, text |-> text]
Array(items) == [type |-> "array", items |-> items]
Object(fields) == [type |-> "object", fields |-> fields]

Types(value) == IF value.type = "integer" THEN {"integer", "number"} ELSE {value.type}

\* The schema of a field: its own, or that of all additional ones.
Field(schema, name) ==
  IF name \in DOMAIN Properties(schema)
  THEN schema.properties[name] ELSE Get(schema, "additionalProperties", Anything)

\* Fields a request need not have, though they are required.
ReadOnly(schema, name) == name \in DOMAIN Properties(schema) /\ Has(schema.properties[name], "readOnly")

\* localSchema(): references within the document are replaced, those back to themselves stay.
RECURSIVE Local(_, _)
Local(schema, seen) ==
  IF Has(schema, "ref")
  THEN IF schema.ref \in seen \/ schema.ref \notin DOMAIN Components THEN schema
       ELSE Local(Components[schema.ref], seen \cup {schema.ref})
  ELSE [keyword \in DOMAIN schema |->
          IF keyword \in Combining
          THEN [i \in DOMAIN schema[keyword] |-> Local(schema[keyword][i], seen)]
          ELSE IF keyword = "properties"
          THEN [name \in DOMAIN schema[keyword] |-> Local(schema[keyword][name], seen)]
          ELSE IF keyword \in {"items", "additionalProperties"} THEN Local(schema[keyword], seen)
          ELSE schema[keyword]]

\* The first thing that goes wrong is what is thrown.
First(outcomes) ==
  LET wrong == SelectSeq(outcomes, LAMBDA o : o # "ok")
  IN IF wrong = <<>> THEN "ok" ELSE wrong[1]

Unless(condition, outcome) == IF condition THEN "ok" ELSE outcome

FieldsOf(value) == SetToSeq(DOMAIN value.fields)

\* What the outcomes of the alternatives come to.
Combined(keyword, outcomes) ==
  LET matches == Len(SelectSeq(outcomes, LAMBDA o : o = "ok"))
  IN IF keyword = "allOf" THEN First(outcomes)
     ELSE IF "unsupported" \in Range(outcomes) THEN "unsupported"
     ELSE Unless(IF keyword = "anyOf" THEN matches > 0 ELSE matches = 1, "invalid")

\* checkSchema()
RECURSIVE Check(_, _, _, _)

\* Mistake: that an alternative is evaluated is forgotten in its items and fields.
CheckPartsAlone(value, schema, depth, composed) ==
  CASE value.type = "array" ->
         First([i \in DOMAIN value.items |-> Check(value.items[i], Get(schema, "items", Anything), depth + 1, FALSE)])
    [] value.type = "object" ->
         First([i \in DOMAIN FieldsOf(value) |->
                  LET name == FieldsOf(value)[i]
                  IN Check(value.fields[name], Field(schema, name), depth + 1, FALSE)])
    [] OTHER -> "ok"

CheckParts(value, schema, depth, composed) ==
  CASE value.type = "array" ->
         First([i \in DOMAIN value.items |-> Check(value.items[i], Get(schema, "items", Anything), depth + 1, composed)])
    [] value.type = "object" ->
         First([i \in DOMAIN FieldsOf(value) |->
                  LET name == FieldsOf(value)[i]
                  IN Check(value.fields[name], Field(schema, name), depth + 1, composed)])
    [] OTHER -> "ok"

Missing(value, schema) ==
  {name \in Get(schema, "required", {}) : name \notin DOMAIN value.fields /\ ~ReadOnly(schema, name)}

CheckAlternatives(value, schema, depth) ==
  First([i \in 1..3 |->
           LET keyword == <<"allOf", "anyOf", "oneOf">>[i]
               schemas == Get(schema, keyword, <<>>)
           IN IF ~Has(schema, keyword) THEN "ok"
              ELSE IF schemas = <<>> THEN "unsupported"
              ELSE Combined(keyword, [j \in DOMAIN schemas |-> Check(value, schemas[j], depth + 1, TRUE)])])

Check(value, schema, depth, within) ==
  LET composed == within \/ HasAny(schema, Combining)
      alternatives == CheckAlternatives(value, schema, depth)
  IN IF depth > MaxDepth THEN "unsupported"
     ELSE IF Has(schema, "anything") THEN "ok"
     ELSE IF Has(schema, "nothing") THEN "invalid"
     ELSE IF HasAny(schema, {"ref", "not"}) \/ (composed /\ HasAny(schema, Ignored)) THEN "unsupported"
     ELSE IF alternatives # "ok" THEN alternatives
     ELSE IF value.type = "null" /\ Has(schema, "nullable") THEN "ok"
     ELSE IF Has(schema, "type") /\ schema.type \cap Types(value) = {} THEN "invalid"
     ELSE IF Has(schema, "enum") /\ value \notin schema.enum THEN "invalid"
     ELSE IF value.type = "object" /\ Missing(value, schema) # {} THEN "required"
     ELSE CheckParts(value, schema, depth, composed)

-----------------------------------------------------------------------------
(* The request.  An operation has its path in segments (texts or names of   *)
(* parameters), its parameters, its body, its servers, the places of its    *)
(* API keys and what it says of payment; the inputs are values for the      *)
(* three locations, literal headers, a body and a server.                   *)

Lower(name) == IF name = "Key" THEN "key" ELSE name   \* names of headers, without their case

Controlled == {"host", "cookie"}                      \* and what else the transport sets

Skipped == {"accept", "content-type", "authorization"}

Locations == <<"path", "query", "header">>

InputName(parameter) == IF parameter.in = "header" THEN Lower(parameter.name) ELSE parameter.name

Elements(value) == IF value.type = "array" THEN value.items ELSE <<value>>

IsScalar(value) == value.type \in {"string", "integer", "number", "boolean"}

Texts(value) == [i \in DOMAIN Elements(value) |-> Elements(value)[i].text]

\* header(): the user's to set, and not there yet.
HeaderOutcome(name, there) ==
  IF name \in Controlled THEN "unsupported" ELSE Unless(name \notin there, "invalid")

\* requestHeaders(): the literal headers, pairs of a name and a text.
LiteralNames(input) == {Lower(input.headers[i][1]) : i \in DOMAIN input.headers}

Repeated(input) == Cardinality(LiteralNames(input)) < Len(input.headers)

LiteralOutcome(input) ==
  First([i \in DOMAIN input.headers |-> HeaderOutcome(Lower(input.headers[i][1]), {})])

IsSkipped(parameter) == parameter.in = "header" /\ Lower(parameter.name) \in Skipped

IsLiteral(parameter, input) == parameter.in = "header" /\ Lower(parameter.name) \in LiteralNames(input)

Supplied(parameter, input) == InputName(parameter) \in DOMAIN input.parameters[parameter.in]

\* The value of a parameter that is there.
ValueOf(parameter, input) ==
  IF IsLiteral(parameter, input)
  THEN LET pair == CHOOSE pair \in Range(input.headers) : Lower(pair[1]) = Lower(parameter.name)
       IN Scalar("string", pair[2])
  ELSE input.parameters[parameter.in][InputName(parameter)]

\* parameters(): one parameter of the operation.
ParameterOutcome(parameter, input, op) ==
  IF parameter.in \notin Range(Locations) THEN Unless(~parameter.required, "unsupported")
  ELSE IF IsSkipped(parameter) THEN "ok"
  ELSE IF IsLiteral(parameter, input) /\ Supplied(parameter, input) THEN "invalid"
  ELSE IF ~IsLiteral(parameter, input) /\ ~Supplied(parameter, input)
       THEN Unless(~parameter.required /\ parameter.in # "path", "required")
  ELSE LET value == ValueOf(parameter, input)
       IN First(<<Unless(~parameter.special, "unsupported"),
                  Check(value, Local(parameter.schema, {}), 0, FALSE),
                  Unless(\A i \in DOMAIN Elements(value) : IsScalar(Elements(value)[i]), "unsupported"),
                  Unless(Elements(value) # <<>>, "unsupported"),
                  Unless(parameter.in = "path" => \E at \in Range(op.path) : Get(at, "name", "") = parameter.name, "invalid"),
                  Unless(InputName(parameter) \notin Controlled, "unsupported")>>)

\* What the parameters have not taken of a location.
Left(location, input, op) ==
  DOMAIN input.parameters[location]
    \ {InputName(p) : p \in {p \in Range(op.parameters) : p.in = location /\ ~IsSkipped(p)}}

\* It is a credential of the query, or a header.
LeftOutcome(location, name, input, op) ==
  LET value == input.parameters[location][name]
  IN CASE location = "query" /\ [in |-> "query", name |-> name] \in op.keys -> Unless(IsScalar(value), "unsupported")
       [] location = "header" ->
            First(<<Unless(IsScalar(value), "unsupported"), HeaderOutcome(name, LiteralNames(input))>>)
       [] OTHER -> "invalid"

\* The segments of the path: a placeholder becomes the texts of its parameter.
Path(input, op) ==
  [i \in DOMAIN op.path |->
     IF Has(op.path[i], "text") THEN <<op.path[i].text>>
     ELSE IF op.path[i].name \in DOMAIN input.parameters.path THEN Texts(input.parameters.path[op.path[i].name])
     ELSE <<"{}">>]

PathOutcome(path) == Unless(\A i \in DOMAIN path : path[i] \notin {<<"{}">>, <<".">>, <<"..">>}, "invalid")

\* An array repeats the name of its parameter unless "explode" says otherwise.
QueryOf(parameter, input) ==
  LET value == input.parameters.query[parameter.name]
  IN IF value.type = "array" /\ parameter.explode
     THEN [i \in DOMAIN value.items |-> <<parameter.name, <<value.items[i].text>>>>]
     ELSE << <<parameter.name, Texts(value)>> >>

Query(input, op) ==
  LET declared == SelectSeq(op.parameters, LAMBDA p : p.in = "query" /\ p.name \in DOMAIN input.parameters.query)
      left == SetToSeq(Left("query", input, op))
  IN FlattenSeq([i \in DOMAIN declared |-> QueryOf(declared[i], input)])
       \o [i \in DOMAIN left |-> <<left[i], Texts(input.parameters.query[left[i]])>>]

\* A literal header is what it is; the body adds its media type.
Headers(input) ==
  LET given == DOMAIN input.parameters.header
      literal(name) == CHOOSE pair \in Range(input.headers) : Lower(pair[1]) = name
  IN [name \in LiteralNames(input) \cup given \cup (IF input.data = "none" THEN {} ELSE {"content-type"}) |->
        IF name \in LiteralNames(input) THEN <<literal(name)[2]>>
        ELSE IF name \in given THEN Texts(input.parameters.header[name])
        ELSE <<"json">>]

\* body(): JSON, of the one media type there is or the one a header selects.
BodyOutcome(input, op) ==
  CASE input.data = "none" -> Unless(~op.body.required, "required")
    [] input.data # "none" /\ op.method = "GET" -> "unsupported"
    [] OTHER -> First(<<Unless(op.body.media # {}, "invalid"),
                        Unless("json" \in op.body.media /\ Headers(input)["content-type"] = <<"json">>, "unsupported"),
                        Unless(input.data = "json", "invalid"),
                        Check(input.value, Local(op.body.schema, {}), 0, FALSE)>>)

\* serverUrl(): the only server, or the one the user chose.
ServerOutcome(input, op) ==
  LET server == op.servers[IF input.server = 0 THEN 1 ELSE input.server]
  IN IF input.server = 0 /\ Len(op.servers) > 1 THEN "server required"
     ELSE IF input.server > Len(op.servers) \/ server = "private" THEN "server invalid"
     ELSE Unless(server = "variable" => input.variable, "required")

\* selectOpenApiOperation(): an identifier, or a method and a path, which are unique.
SelectionOutcome(document, id) ==
  LET matches == {i \in DOMAIN document : document[i].id = id}
  IN IF matches = {} THEN "not found" ELSE Unless(Cardinality(matches) = 1, "ambiguous")

Operation(document, id) == document[CHOOSE i \in DOMAIN document : document[i].id = id]

\* prepareOpenApiRequest(), up to the request.
PrepareOutcome(document, input) ==
  LET op == Operation(document, input.id)
      left(location) == SetToSeq(Left(location, input, op))
  IN IF Repeated(input) THEN "invalid"
     ELSE IF SelectionOutcome(document, input.id) # "ok" THEN SelectionOutcome(document, input.id)
     ELSE First(<<ServerOutcome(input, op), LiteralOutcome(input)>>
                \o [i \in DOMAIN op.parameters |-> ParameterOutcome(op.parameters[i], input, op)]
                \o FlattenSeq([l \in 1..3 |-> [i \in DOMAIN left(Locations[l]) |->
                                                 LeftOutcome(Locations[l], left(Locations[l])[i], input, op)]])
                \o <<PathOutcome(Path(input, op)), BodyOutcome(input, op)>>)

Request(document, input) ==
  LET op == Operation(document, input.id)
  IN [path |-> Path(input, op), query |-> Query(input, op), headers |-> Headers(input), body |-> input.data]

Redacted == <<"REDACTED">>

\* previewOpenApiRequest()
Preview(request, op) ==
  LET secret(location, name) ==
        \E key \in op.keys :
          key.in = location /\ (IF location = "header" THEN Lower(key.name) = name ELSE key.name = name)
  IN [request EXCEPT
        !.headers = [name \in DOMAIN @ |->
                       IF name \in {"authorization", "proxy-authorization"} \/ secret("header", name)
                       THEN Redacted ELSE @[name]],
        !.query = [i \in DOMAIN @ |-> IF secret("query", @[i][1]) THEN <<@[i][1], Redacted>> ELSE @[i]]]

-----------------------------------------------------------------------------
(* The command.                                                             *)

None == [path |-> <<>>]   \* no request

InitWith(given) ==
  /\ case = given
  /\ call = [at |-> "read", outcome |-> "none", shown |-> None]
  /\ sent = None
  /\ performed = 0

Init == \E family \in Cases : \E given \in family : InitWith(given)

End(outcome) == call' = [call EXCEPT !.at = "ended", !.outcome = outcome]

\* The request is prepared; an operation that asks for payment is left to the payment commands.
Begin ==
  /\ call.at = "read"
  /\ LET outcome == PrepareOutcome(case.document, case.input)
         op == Operation(case.document, case.input.id)
         shown == Preview(Request(case.document, case.input), op)
     IN IF outcome # "ok" THEN End(outcome)
        ELSE call' = [at |-> IF case.command = "call" /\ ~op.payment THEN "ready" ELSE "ended",
                      outcome |-> IF case.command = "prepare" THEN "request-prepared"
                                  ELSE IF op.payment THEN "payment-required, not sent" ELSE "none",
                      shown |-> shown]
  /\ UNCHANGED <<case, sent, performed>>

\* callOpenApiOperation(): bad limits and a signal that came already end it here.
Send ==
  /\ call.at = "ready"
  /\ \/ \E outcome \in {"limits invalid", "cancelled"} : End(outcome) /\ UNCHANGED sent
     \/ /\ sent' = Request(case.document, case.input)
        /\ call' = [call EXCEPT !.at = "sending"]
  /\ UNCHANGED <<case, performed>>

\* The server performs the operation and says so, asks for something first, or fails, which
\* need not mean that it did nothing.
Serve ==
  /\ call.at = "sending"
  /\ \E outcome \in {"response", "http-error", "payment-required", "authentication-required"}, did \in 0..1 :
       /\ outcome = "response" => did = 1
       /\ outcome \in {"payment-required", "authentication-required"} => did = 0
       /\ performed' = performed + did
       /\ call' = [call EXCEPT !.at = "reading", !.outcome = outcome]
  /\ UNCHANGED <<case, sent>>

\* The answer is lost, or all of it: nobody knows what the server did.
Lose ==
  /\ call.at = "sending" \/ call.at = "reading"
  /\ End("outcome unknown")
  /\ \/ call.at = "sending" /\ performed' = performed + 1
     \/ UNCHANGED performed
  /\ UNCHANGED <<case, sent>>

\* responseBytes() and buildBodyAttachment().
Receive ==
  /\ call.at = "reading"
  /\ End("response too large") \/ End("output write failed") \/ End(call.outcome)
  /\ UNCHANGED <<case, sent, performed>>

Next == Begin \/ Send \/ Serve \/ Lose \/ Receive

Spec == Init /\ [][Next]_vars

TypeOK ==
  /\ case.command \in {"prepare", "call"}
  /\ call.at \in {"read", "ready", "sending", "reading", "ended"}
  /\ performed \in 0..1

-----------------------------------------------------------------------------
(* Properties.                                                              *)

\* What a schema may say of a value: more than one truth where it depends on keywords that
\* are not evaluated.  A reference that only comes back to itself may say anything.
And(S, T) == {s /\ t : s \in S, t \in T}

Every(S, P(_)) ==
  (IF \A s \in S : TRUE \in P(s) THEN {TRUE} ELSE {}) \cup (IF \E s \in S : FALSE \in P(s) THEN {FALSE} ELSE {})

RECURSIVE Says(_, _, _)
Says(value, schema, fuel) ==
  LET alternatives(keyword) == DOMAIN Get(schema, keyword, <<>>)
      says(keyword, i) == Says(value, schema[keyword][i], fuel)
      exactlyOne ==
        {Cardinality({i \in alternatives("oneOf") : f[i]}) = 1 :
           f \in {f \in [alternatives("oneOf") -> BOOLEAN] : \A i \in alternatives("oneOf") : f[i] \in says("oneOf", i)}}
      own ==
        /\ Has(schema, "type") => schema.type \cap Types(value) # {}
        /\ Has(schema, "enum") => value \in schema.enum
        /\ value.type = "object" => Missing(value, schema) = {}
      parts ==
        CASE value.type = "array" ->
               Every({i \in DOMAIN value.items : i > 1 \/ ~Has(schema, "prefixItems")},
                     LAMBDA i : Says(value.items[i], Get(schema, "items", Anything), fuel))
          [] value.type = "object" ->
               Every({name \in DOMAIN value.fields :
                        name \in DOMAIN Properties(schema) \/ ~Has(schema, "patternProperties")},
                     LAMBDA name : Says(value.fields[name], Field(schema, name), fuel))
          [] OTHER -> {TRUE}
  IN IF Has(schema, "nothing") THEN {FALSE}
     ELSE IF Has(schema, "not") THEN BOOLEAN
     ELSE IF Has(schema, "ref")
          THEN IF fuel = 0 \/ schema.ref \notin DOMAIN Components THEN BOOLEAN
               ELSE Says(value, Components[schema.ref], fuel - 1)
     ELSE And(IF value.type = "null" /\ Has(schema, "nullable") THEN {TRUE}
              ELSE And(And({own}, parts), IF HasAny(schema, Ignored) THEN BOOLEAN ELSE {TRUE}),
              And(IF Has(schema, "allOf") THEN Every(alternatives("allOf"), LAMBDA i : says("allOf", i)) ELSE {TRUE},
                  And(IF Has(schema, "anyOf")
                      THEN {~b : b \in Every(alternatives("anyOf"), LAMBDA i : {~c : c \in says("anyOf", i)})}
                      ELSE {TRUE},
                      IF Has(schema, "oneOf") THEN exactlyOne ELSE {TRUE})))

\* A value that is refused has no reading of its schema that admits it, however keywords
\* that are not evaluated turn out; and one that is accepted has (README: composed schemas
\* "fail explicitly rather than treating unchecked alternatives as matches").  The first
\* items beside "prefixItems" and the fields that "patternProperties" may describe are the
\* exception: they are held to "items" and "additionalProperties" all the same.
ChecksSound ==
  LET schema == Operation(case.document, case.input.id).body.schema
      outcome == Check(case.input.value, Local(schema, {}), 0, FALSE)
      said == Says(case.input.value, schema, MaxDepth)
  IN call.at = "read" /\ case.input.data = "json" /\ SelectionOutcome(case.document, case.input.id) = "ok" =>
       /\ outcome = "ok" => TRUE \in said
       /\ outcome \in {"invalid", "required"} /\ ~HasAny(schema, {"prefixItems", "patternProperties"})
            => TRUE \notin said

\* Every input is in the request, once and where it was given, and nothing else is.
InputsPlaced(request, op, input) ==
  /\ \A name \in DOMAIN input.parameters.path :
       \E i \in DOMAIN op.path : Get(op.path[i], "name", "") = name /\ request.path[i] = Texts(input.parameters.path[name])
  /\ \A i \in DOMAIN op.path : request.path[i] \notin {<<"{}">>, <<".">>, <<"..">>}
  /\ {request.query[i][1] : i \in DOMAIN request.query} = DOMAIN input.parameters.query
  /\ \A name \in DOMAIN input.parameters.query :
       LET named == SelectSeq(request.query, LAMBDA q : q[1] = name)
       IN FlattenSeq([i \in DOMAIN named |-> named[i][2]]) = Texts(input.parameters.query[name])
  /\ \A i \in DOMAIN input.headers : request.headers[Lower(input.headers[i][1])] = <<input.headers[i][2]>>
  /\ \A name \in DOMAIN input.parameters.header : request.headers[name] = Texts(input.parameters.header[name])
  /\ \A p \in Range(op.parameters) : p.required /\ ~IsSkipped(p) => Supplied(p, input) \/ IsLiteral(p, input)

AllTexts(request) ==
  UNION {Range(request.headers[name]) : name \in DOMAIN request.headers}
    \cup UNION {Range(request.query[i][2]) : i \in DOMAIN request.query}

BeforeSending == {"not found", "ambiguous", "server required", "server invalid", "invalid", "required", "unsupported",
                  "limits invalid", "cancelled", "request-prepared", "payment-required, not sent"}

\* A call is sent once, with every input in its place; what it says of a request that was
\* not sent is so; and no credential is in what it shows, which is otherwise what is sent.
CallTrue ==
  /\ performed <= 1
  /\ call.outcome \in BeforeSending => sent = None
  /\ call.at = "ended" /\ call.outcome \notin BeforeSending => sent # None
  /\ call.outcome = "response" => performed = 1
  /\ sent # None => InputsPlaced(sent, Operation(case.document, case.input.id), case.input)
  /\ call.shown # None =>
       /\ "secret" \notin AllTexts(call.shown)
       /\ sent # None => \A name \in DOMAIN sent.headers :
            "secret" \notin Range(sent.headers[name]) => call.shown.headers[name] = sent.headers[name]
=============================================================================
