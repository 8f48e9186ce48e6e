----------------------------- MODULE OpenApiCases -----------------------------
(***************************************************************************)
(* The calls that TLC checks OpenApiCalls with: every schema against every *)
(* value; inputs for each place of a request, with the credentials and the *)
(* headers the code treats differently; and bodies, servers and documents. *)
(***************************************************************************)
EXTENDS Naturals, Sequences, TLC

Anything == [anything |-> TRUE]
Nothing == [nothing |-> TRUE]
Scalar(type, text) == [type |-> type, text |-> text]
Array(items) == [type |-> "array", items |-> items]
Object(fields) == [type |-> "object", fields |-> fields]

-----------------------------------------------------------------------------
(* Schemas of a body and values for it.                                     *)

Text(t) == Scalar("string", t)
One == Scalar("integer", "1")
Empty == [name \in {} |-> Nothing]

Of(type) == [type |-> {type}]
Constrained == [type |-> {"string"}, constraint |-> TRUE]

MCComponents ==
  [text |-> Of("string"), self |-> [ref |-> "self"], node |-> [type |-> {"object"}, properties |-> [p |-> [ref |-> "node"]]]]

Simple ==
  {Anything, Nothing, Of("string"), Of("integer"), [enum |-> {Text("a")}], Constrained,
   [type |-> {"string"}, nullable |-> TRUE], [ref |-> "text"], [ref |-> "self"], [not |-> TRUE]}

Combinations(S) == UNION {{keyword :> <<s, t>> : s \in S, t \in S} : keyword \in {"allOf", "anyOf", "oneOf"}}

Containers ==
  {[type |-> {"array"}, items |-> s] : s \in Simple}
  \cup {[properties |-> [p |-> s], additionalProperties |-> more, required |-> names] :
          s \in Simple \cup {[type |-> {"string"}, readOnly |-> TRUE]}, more \in {Anything, Nothing}, names \in {{}, {"p"}}}
  \cup {[properties |-> [p |-> Anything], additionalProperties |-> Nothing, patternProperties |-> TRUE]}

\* Containers whose parts are evaluated as those of an alternative.
Alternatives ==
  {[type |-> {"array"}, items |-> Constrained], [type |-> {"array"}, items |-> Of("integer")],
   [properties |-> [p |-> Constrained]], [properties |-> [p |-> Of("string")], required |-> {"p"}],
   [properties |-> [p |-> [anyOf |-> <<Of("integer"), [constraint |-> TRUE]>>]]],
   [items |-> Of("integer"), prefixItems |-> TRUE], [oneOf |-> <<>>], [ref |-> "node"]}

Schemas == Simple \cup Combinations(Simple) \cup Containers \cup Alternatives \cup Combinations(Alternatives)

Values ==
  {Scalar("null", "null"), Text("a"), Text("b"), One, Scalar("number", "1.5"), Scalar("boolean", "true"),
   Array(<<>>), Array(<<Text("a")>>), Array(<<Text("a"), One>>), Object(Empty), Object([p |-> Text("a")]),
   Object([p |-> One, q |-> Text("a")]), Object([p |-> Object([p |-> Object(Empty)])])}

-----------------------------------------------------------------------------
(* Calls of an operation with two API keys, most of them of one server.     *)

Op ==
  [id |-> "op", method |-> "POST", path |-> <<[text |-> "items"]>>, parameters |-> <<>>,
   body |-> [required |-> FALSE, media |-> {}, schema |-> Anything], servers |-> <<"public">>,
   keys |-> {[in |-> "query", name |-> "k"], [in |-> "header", name |-> "Key"]}, payment |-> FALSE]

Input ==
  [id |-> "op", parameters |-> [path |-> Empty, query |-> Empty, header |-> Empty], headers |-> <<>>,
   data |-> "none", value |-> Scalar("null", "null"), server |-> 0, variable |-> FALSE]

Case(command, document, input) == [command |-> command, document |-> document, input |-> input]

SchemaCases ==
  {Case("prepare", <<[Op EXCEPT !.body = [required |-> TRUE, media |-> {"json"}, schema |-> s]]>>,
        [Input EXCEPT !.data = "json", !.value = v]) : s \in Schemas, v \in Values}

Parameter(name, in, required) ==
  [name |-> name, in |-> in, required |-> required, special |-> FALSE, explode |-> TRUE, schema |-> Anything]

\* An operation with a parameter in each place.
Placed(explode, required, cookie, payment) ==
  [Op EXCEPT !.path = Append(@, [name |-> "p"]), !.payment = payment,
     !.parameters = <<Parameter("p", "path", TRUE), [Parameter("q", "query", FALSE) EXCEPT !.explode = explode],
                      [Parameter("Key", "header", required) EXCEPT !.schema = Of("string")],
                      Parameter("c", "cookie", cookie)>>]

Maybe(name, values) == {Empty} \cup {name :> v : v \in values}

Pair == Array(<<Text("a"), Text("b")>>)

PlaceCases ==
  {Case("call", <<Placed(operation.explode, operation.required, operation.cookie, operation.payment)>>,
        [Input EXCEPT !.parameters = [path |-> path, query |-> query @@ key @@ more, header |-> header], !.headers = literal]) :
     operation \in {o \in [explode : BOOLEAN, required : BOOLEAN, cookie : BOOLEAN, payment : BOOLEAN] : ~(o.cookie /\ o.payment)},
     path \in Maybe("p", {Text("a"), Text(".."), Pair}),
     query \in Maybe("q", {Text("a"), Pair, Array(<<>>), Object(Empty)}),
     key \in Maybe("k", {Text("secret")}), more \in Maybe("z", {Text("a")}), header \in Maybe("key", {Text("secret")}),
     literal \in {<<>>, << <<"Key", "secret">> >>, << <<"authorization", "secret">>, <<"x", "a">> >>, << <<"host", "a">> >>,
                  << <<"x", "a">>, <<"x", "a">> >>}}

BodyCases ==
  {Case("prepare", <<[Op EXCEPT !.method = method, !.servers = servers,
                        !.body = [required |-> required, media |-> media, schema |-> Of("string")]]>> \o others,
        [Input EXCEPT !.id = id, !.headers = literal, !.data = data, !.value = value, !.server = server]) :
     method \in {"GET", "POST"}, required \in BOOLEAN, media \in {{}, {"json"}, {"xml"}}, id \in {"op", "other"},
     literal \in {<<>>, << <<"content-type", "json">> >>, << <<"content-type", "xml">> >>},
     data \in {"none", "json", "malformed"}, value \in {Text("a"), One},
     servers \in {<<"public">>, <<"public", "private">>, <<"variable">>}, server \in 0..2, others \in {<<>>, <<Op>>}}

\* What the parts of an instance that make no call have as theirs.
AnyCase == Case("prepare", <<Op>>, Input)

MCCases == {SchemaCases, PlaceCases, BodyCases}
=============================================================================
