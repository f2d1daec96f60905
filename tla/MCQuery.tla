------------------------------- MODULE MCQuery -------------------------------
(***************************************************************************)
(* The state of a foo, after the test protos: keys that are flattened into *)
(* it, a status with a default filter, a shape that is a oneof, metadata,  *)
(* and data with profiles and characteristics.                             *)
(***************************************************************************)
EXTENDS Query

Rules(filter, defaults, sort, search) ==
  [filter |-> filter, defaults |-> defaults, sort |-> sort, defaultSort |-> FALSE,
   search |-> search]
ByDefault(rules) == [rules EXCEPT !.defaultSort = TRUE]
Filterable == Rules("on", <<>>, "absent", "absent")
Latest     == ByDefault(Rules("on", <<>>, "on", "absent"))
OnlyFirst  == ByDefault(Rules("on", <<>>, "off", "absent"))
Sorted     == Rules("absent", <<>>, "on", "absent")
Searched   == Rules("absent", <<>>, "absent", "on")

Field(name, json, kind, rules) ==
  [name |-> name, json |-> json, kind |-> kind, message |-> NoMessage, list |-> FALSE,
   map |-> FALSE, flatten |-> FALSE, oneof |-> NoOneof, rules |-> rules, values |-> {}]
Object(name, message) ==
  [Field(name, name, "message", NoRules) EXCEPT !.message = message]
Time(name, json, rules) == [Field(name, json, "timestamp", rules) EXCEPT !.message = "Timestamp"]
In(oneof, field) == [field EXCEPT !.oneof = oneof]
Each(field)      == [field EXCEPT !.list = TRUE]

Statuses == {"STATUS_ACTIVE", "STATUS_DELETED"}
Status   == [Field("status", "status", "enum", Rules("on", <<"STATUS_ACTIVE">>, "absent", "absent"))
               EXCEPT !.values = Statuses]

MCFieldsOf == [
  Foo |-> <<Object("metadata", "Metadata"), [Object("keys", "Keys") EXCEPT !.flatten = TRUE],
            Status, Object("data", "Data"), In("also", Object("shape", "Shape")),
            In("more", Field("tag", "tag", "text", Searched))>>,
  Metadata |-> <<Time("created_at", "createdAt", Latest), Time("updated_at", "updatedAt", OnlyFirst)>>,
  Timestamp |-> <<Field("seconds", "seconds", "int64", NoRules)>>,
  Keys |-> <<Field("foo_id", "fooId", "key", Filterable), Field("part1", "part1", "key", NoRules),
             Field("title", "title", "text", Searched)>>,
  Data |-> <<Field("long_name", "longName", "text", Searched), Object("characteristics", "Characteristics"),
             Each(Object("profiles", "Profile")), [Field("notes", "notes", "text", NoRules) EXCEPT !.map = TRUE]>>,
  Characteristics |-> <<Field("weight", "weight", "int64", Latest), Field("height", "height", "int32", Sorted),
                        Field("depth", "depth", "int64", Filterable),
                        Object("origin", "Origin")>>,
  Origin |-> <<Field("town", "town", "text", NoRules), Object("site", "Site")>>,
  Site |-> <<Field("code", "code", "key", Rules("on", <<"k1", "k2">>, "absent", "absent")),
             Field("lot", "lot", "key", Filterable)>>,
  Profile |-> <<Field("place", "place", "id", Filterable)>>,
  Shape |-> <<In("type", Object("circle", "Circle")), In("type", Object("square", "Square"))>>,
  Circle |-> <<Field("label", "label", "text", Searched)>>,
  Square |-> <<Field("legend", "legend", "text", Searched)>>,
  \* Roots that are refused: a default that is no key, rules of a kind that
  \* has no filters, a sort below a list.  The last is not seen in a Rack.
  Broken |-> <<Object("keys", "Keys"), Field("owner", "owner", "key", Rules("on", <<"zz">>, "absent", "absent"))>>,
  Odd |-> <<Object("keys", "Keys"), Field("owner", "owner", "bytes", Filterable)>>,
  Rack |-> <<Object("keys", "Keys"), Each(Object("rows", "Shelf"))>>,
  Shelf |-> <<Object("traits", "Traits")>>,
  Rows |-> <<Object("keys", "Keys"), Each(Object("lines", "Line"))>>,
  Line |-> <<Field("number", "number", "int32", OnlyFirst)>>,
  Traits |-> <<Field("weight", "weight", "int64", Sorted)>>,
  \* Siblings four messages down.
  Deep |-> <<Object("keys", "Keys"), Object("one", "One")>>,
  One |-> <<Object("two", "Two")>>,
  Two |-> <<Object("three", "Site3")>>,
  Site3 |-> <<Field("code", "code", "key", Rules("on", <<"k1">>, "absent", "absent")),
              Field("lot", "lot", "key", Rules("on", <<"k2">>, "absent", "absent"))>>]

MCMessages == DOMAIN MCFieldsOf

(* How many messages there are below a message. *)
MCNesting ==
  LET Below[m \in MCMessages] ==
        UNION {{f.message} \cup Below[f.message] :
               f \in {g \in Range(MCFieldsOf[m]) : g.message # NoMessage}}
  IN  [m \in MCMessages |-> Cardinality(Below[m])]

MCOneofRules == [m \in MCMessages |-> IF m = "Shape" THEN "on" ELSE "none"]

Codes  == {"k1", "k2", "k3"}
Times  == {"t1", "t2", "t3"}
Texts  == Codes \cup Times \cup Statuses \cup {"10", "9", "active", "deleted", "gone", "", "circle", "square", "Square", "zz"}
MCParses == [kind \in FilterKinds \cup {"text"} |->
               CASE kind = "key" -> Codes [] kind = "id" -> Texts
                 [] kind = "timestamp" -> Times [] OTHER -> {"10", "9"}]
MCEnumName == [t \in Texts |-> CASE t \in {"active", "STATUS_ACTIVE"} -> "STATUS_ACTIVE"
                                 [] t \in {"deleted", "STATUS_DELETED"} -> "STATUS_DELETED"
                                 [] OTHER -> "STATUS_GONE"]
MCFold  == [t \in Texts |-> IF t = "Square" THEN "square" ELSE t]
MCSnake == [n \in {f.json : f \in FieldRefs} |-> (CHOOSE f \in FieldRefs : f.json = n).name]
MCRank  == [t \in Texts |-> CASE t \in {"k1", "t1", "10"} -> 1 [] t \in {"k2", "t2", "9"} -> 2 [] OTHER -> 3]

-----------------------------------------------------------------------------
Text(t)   == Scalar("string", t)
Number(n) == Scalar("number", n)

MCState(id, part, status, at, weight, shape, places, code) ==
  [keys |-> [foo_id |-> id, part_1 |-> part],
   data |-> [metadata |-> [createdAt |-> Text(at), updatedAt |-> Text("t3")],
             keys |-> [fooId |-> Text(id), part1 |-> Text(part), title |-> Text("a")],
             status |-> Text(status),
             data |-> [longName |-> Text(weight),
                       characteristics |->
                         [weight |-> Text(weight), height |-> Number("9"),
                          origin |-> [town |-> Text("b"), site |-> [code |-> Text(code)]]],
                       profiles |-> [i \in DOMAIN places |-> [place |-> Text(places[i])]]],
             shape |-> shape, tag |-> Text(at)]]

Circle == [circle |-> [label |-> Text("a")]]
Square == [square |-> [legend |-> Text("a")]]

MCStates == {
  MCState("k1", "k1", "STATUS_ACTIVE",  "t1", "10", Circle, <<"k1", "k2">>, "k1"),
  MCState("k1", "k2", "STATUS_ACTIVE",  "t2", "9",  Square, <<"k2">>,       "k3"),
  MCState("k2", "k1", "STATUS_DELETED", "t2", "10", Square, <<>>,           "k2"),
  MCState("k2", "k2", "STATUS_DELETED", "t3", "9",  Circle, <<"k1">>,       "k1")}

(* k2/k2 has no events. *)
MCEvents == {[id |-> n, keys |-> keys] : n \in 1 .. 2,
               keys \in {s.keys : s \in MCStates} \ {[foo_id |-> "k2", part_1 |-> "k2"]}}

Key(name, column) == [name |-> name, column |-> column, primary |-> TRUE, required |-> FALSE]
MCProperties == <<Key("foo_id", "foo_id"), Key("part1", "part_1")>>

None == [x \in {} |-> x]
Value(field, value)   == [is |-> "field", field |-> field, type |-> "value", value |-> value]
Span(field, min, max) == [is |-> "field", field |-> field, type |-> "range", min |-> min, max |-> max]
Every(filters) == [is |-> "and", filters |-> filters]
EitherOf(filters)   == [is |-> "or", filters |-> filters]
Sort(field, desc)    == [field |-> field, desc |-> desc]
Search(field, value) == [field |-> field, value |-> value]

Listing(sorts, filters, searches, where) ==
  [is |-> "list", sorts |-> sorts, filters |-> filters, searches |-> searches, where |-> where]
Filtered(filter) == Listing(<<>>, <<filter>>, <<>>, None)
Searching(field, value) == Listing(<<>>, <<>>, <<Search(field, value)>>, None)
Getting(keys) == [is |-> "get", keys |-> keys]

Weight  == <<"data", "characteristics", "weight">>
Height  == <<"data", "characteristics", "height">>
Places  == <<"data", "profiles", "place">>
Created == <<"metadata", "createdAt">>
Status1 == Value(<<"status">>, "active")
Gone    == Value(<<"status">>, "gone")

ListRequests == {
  Listing(<<>>, <<>>, <<>>, None),
  Listing(<<>>, <<>>, <<>>, [foo_id |-> "k1"]),
  Listing(<<Sort(Weight, TRUE)>>, <<Span(<<"fooId">>, "", "k1")>>, <<>>, None),
  Listing(<<Sort(Height, FALSE), Sort(Weight, TRUE)>>, <<>>, <<>>, None),
  Listing(<<Sort(<<"data", "characteristics", "depth">>, FALSE)>>, <<>>, <<>>, None),
  Listing(<<Sort(<<"status">>, FALSE)>>, <<>>, <<>>, None),
  Listing(<<Sort(<<"metadata", "updatedAt">>, FALSE)>>, <<>>, <<>>, None),
  Listing(<<>>, <<Status1, Gone>>, <<Search(<<"data", "longName">>, "10")>>, None),
  Listing(<<>>, <<Gone>>, <<>>, None),
  Listing(<<>>, <<Status1, Value(<<"nowhere">>, "k1")>>, <<>>, None),
  Filtered(EitherOf(<<Value(<<"fooId">>, "k2"), Value(Places, "k1")>>)),
  Filtered(Every(<<Span(Created, "t2", ""), EitherOf(<<Status1, Value(<<"keys", "fooId">>, "k2")>>)>>)),
  Filtered(Value(<<"shape", "type">>, "circle")), Filtered(Value(<<"shape", "type">>, "Square")),
  Filtered(Span(<<"shape", "type">>, "circle", "")), Filtered(Value(Weight, "9")),
  Filtered(Value(<<"data", "notes">>, "k1")),
  Filtered(Span(Created, "", "")), Filtered(EitherOf(<<>>)),
  Filtered(Every(<<Every(<<>>), Status1>>)),
  Filtered(EitherOf(<<Span(Created, "", ""), Status1>>)),
  Searching(<<"data", "longName">>, "9"), Searching(<<"shape", "square", "legend">>, "a"),
  Searching(<<"title">>, "a"), Searching(<<"tag">>, "t2"), Searching(Weight, "9")}

(* The filters of the requests, and the filters inside them. *)
Inside(filters) == UNION {Range(f.filters) : f \in {g \in filters : g.is # "field"}}
MCFilterTrees ==
  LET outer == UNION {Range(req.filters) : req \in ListRequests}
  IN  outer \cup Inside(outer) \cup Inside(Inside(outer))

(* How many filters deep a filter is. *)
MCFilterDepth ==
  [f \in MCFilterTrees |-> IF Inside({f}) = {} THEN 0
                          ELSE IF Inside(Inside({f})) = {} THEN 1 ELSE 2]

GetRequests == {Getting([foo_id |-> id, part1 |-> part]) : id \in Codes, part \in {"k1", "k2"}}

(* A service that is built, or refused, and not asked anything; and one *)
(* that is asked. *)
Unasked(root, identifier) ==
  [root |-> root, identifier |-> identifier, ties |-> <<>>, properties |-> MCProperties,
   fields |-> {"foo_id", "part1"}, states |-> {}, events |-> {},
   authRows |-> {}, claim |-> NoAuth, requests |-> {}]

Plan(root, identifier, requests) ==
  [Unasked(root, identifier) EXCEPT !.states = MCStates, !.events = MCEvents,
                                    !.requests = requests]

Columns == {"a", "b", NoIdentifier}
Identified(title, long, tag, label, legend) ==
  [f \in Searchables |-> CASE f.name = "title" -> title [] f.name = "long_name" -> long
     [] f.name = "tag" -> tag [] f.name = "label" -> label [] OTHER -> legend]
Distinct == Identified("e", "d", "c", "b", "a")

Plain == [Plan("Foo", Distinct, ListRequests) EXCEPT !.ties = << <<"keys", "foo_id">> >>]

(* Requests of every kind, together; reading by key under a claim; every   *)
(* combination of two columns and none for three search fields, next to    *)
(* one that has the first of the two; and services that are refused.       *)
Tenants(rows) == [Plan("Foo", Distinct, GetRequests \cup {Listing(<<>>, <<Status1>>, <<>>, None)})
                    EXCEPT !.authRows = rows, !.claim = "mine"]
On(id, claim, n) == [on |-> id, claim |-> claim, n |-> n]

MCPlans ==
  {Plain,
   Tenants({On("k1", "mine", 1), On("k2", "theirs", 1)}),
   Tenants({On("k1", "mine", 1), On("k2", "mine", 1), On("k2", "mine", 2)}),
   [Plan("Foo", Distinct, GetRequests \cup {Listing(<<>>, <<Status1>>, <<>>, None)}) EXCEPT
      !.authRows = {On("k1", "mine", 1)}, !.claim = NoClaim,
      !.ties = << <<"keys", "foo_id">>, <<"shape", "also">> >>],
   [Plan("Foo", Distinct, {Listing(<<>>, <<Status1>>, <<>>, None)}) EXCEPT !.ties = << <<"shape", "type", "circle", "label">> >>],
   [Plan("Foo", Distinct, {Listing(<<>>, <<>>, <<>>, None)}) EXCEPT
      !.ties = << <<"data", "profiles", "place">> >>],
   [Unasked("Rack", Distinct) EXCEPT
      !.requests = {Listing(<<Sort(<<"rows", "traits", "weight">>, FALSE)>>, <<>>, <<>>, None)}],
   [Plain EXCEPT !.fields = {"foo_id", "colour"}]}
  \cup {[Unasked(root, Distinct) EXCEPT !.requests = {Listing(<<>>, <<>>, <<>>, None)}] :
          root \in {"Broken", "Odd", "Rows"}}
  \cup {Unasked("Foo", Identified("d", "a", tag, label, legend)) :
          tag \in Columns, label \in Columns, legend \in Columns}

ASSUME SortsAssumption == ShortSorts

Interchangeable == Permutations(Callers)

DeepPlans == {Unasked("Deep", Distinct)}
=============================================================================
