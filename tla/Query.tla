-------------------------------- MODULE Query --------------------------------
(***************************************************************************)
(* The query service of a state machine: its getter and lister are built   *)
(* once (BuildStateQuerySet, buildListReflection), and then callers send   *)
(* them requests concurrently (Getter.Get, Lister.BuildQuery and the       *)
(* statement it builds).  Callers share what was built, the arrays behind  *)
(* its slices included.                                                    *)
(*                                                                         *)
(* Which rows a request selects is the question here; in which order they  *)
(* come, page by page, is that of Listing and Lister.                      *)
(***************************************************************************)
EXTENDS PathWalk, Filters, Getter

CONSTANTS
  Callers,
  Plans    \* what a service is built for, and the callers' requests

(* root is the message listed, identifier the column of each search field, *)
(* ties the annotated tie breakers, properties those of the key message,   *)
(* fields those of the Get request; states, events and authRows are the    *)
(* tables, claim what the callers' AuthProvider asks of an auth row. *)
ASSUME PlansAssumption ==
  \A p \in Plans :
    /\ {"root", "identifier", "ties", "properties", "fields", "states", "events",
        "authRows", "claim", "requests"} \subseteq DOMAIN p
    /\ p.root \in Messages \ Wrappers
    /\ DOMAIN p.identifier = Searchables
    /\ p.ties \in Seq(Range(p.ties)) /\ p.properties \in Seq(Range(p.properties))
    /\ \A req \in p.requests :
         /\ req.is \in {"list", "get"}
         /\ req.is = "list" => /\ req.filters \in Seq(FilterTrees)
                               /\ req.sorts \in Seq(Range(req.sorts))
                               /\ \A sort \in Range(req.sorts) :
                                    sort.field \in Seq(Range(sort.field))
                               /\ req.searches \in Seq(Range(req.searches))
                               /\ \A search \in Range(req.searches) :
                                    search.field \in Seq(Range(search.field))

(***************************************************************************)
(* The tables are those of a migration (pgmigrate/psm.go): the columns of  *)
(* keys differ, a row has a value or "" in each, and no two states have    *)
(* the same primary key.  An event has the keys of its state (store).  A   *)
(* Get request gives a value for each of its keys.                         *)
(***************************************************************************)
ASSUME TablesAssumption ==
  \A p \in Plans :
    /\ \A one, two \in KeyColumns(p.properties) : one.column = two.column => one = two
    /\ \A row \in p.states : DOMAIN row.keys = KeyNames(p.properties)
    /\ \A row, other \in p.states :
         (\A column \in PrimaryColumns(p.properties) : row.keys[column] = other.keys[column])
           => row = other
    /\ IsFiniteSet(p.states)
    /\ \A e \in p.events : \E row \in p.states : e.keys = row.keys
    /\ NullRow \notin p.authRows
    /\ \A req \in p.requests : req.is = "get" =>
         \A name \in DOMAIN req.keys : req.keys[name] # ""

VARIABLES
  plan,     \* one of Plans
  lister,   \* how far the service is built
  callers   \* [Callers -> where it is, its request, sorts, order and answer]

vars == <<memory, stack, kept, plan, lister, callers>>

Nothing == [is |-> "nothing"]
Idle    == [at |-> "idle", request |-> Nothing, sorts |-> NilSlice, order |-> <<>>,
            answer |-> Nothing]

Init ==
  /\ WalkInit
  /\ plan \in Plans
  /\ lister = "new"
  /\ callers = [c \in Callers |-> Idle]

-----------------------------------------------------------------------------
(***************************************************************************)
(* buildTieBreakerFields: those of the request's annotation, or the        *)
(* primary key columns.                                                    *)
(***************************************************************************)
TieBreakers ==
  IF plan.ties # <<>>
  THEN [i \in DOMAIN plan.ties |->
          [column |-> FALSE, nodes |-> NewProtoPath(plan.root, plan.ties[i]).nodes]]
  ELSE FlattenSeq([i \in DOMAIN plan.properties |->
         LET p == plan.properties[i]
         IN  IF p.primary
             THEN << [column |-> TRUE,
                      nodes |-> NewProtoPath(plan.root, <<"keys", p.name>>).nodes] >>
             ELSE <<>>])

TiesFound == \A i \in DOMAIN TieBreakers : TieBreakers[i].nodes # <<>>

(* The annotations are checked and the walk for the default sorts begins. *)
Construct ==
  /\ lister = "new"
  /\ IF ~MapsRequest(plan.properties, plan.fields)
     THEN lister' = "bad request" /\ UNCHANGED stack
     ELSE IF ~ListAnnotations(plan.root, plan.identifier)
     THEN lister' = "bad annotations" /\ UNCHANGED stack
     ELSE lister' = "sorts" /\ StartWalk(plan.root)
  /\ UNCHANGED <<memory, kept, plan, callers>>

DefaultSorts == {f \in FieldRefs : IsDefaultSort(f)}

FindSort ==
  lister = "sorts" /\ Visit("sorts", DefaultSorts) /\ UNCHANGED <<plan, lister, callers>>

SortsFound ==
  /\ lister = "sorts" /\ WalkEnds
  /\ IF TiesFound /\ kept["sorts"].len + Len(TieBreakers) > 0
     THEN lister' = "filters" /\ StartWalk(plan.root)
     ELSE lister' = "bad sorts" /\ stack' = <<>>
  /\ UNCHANGED <<memory, kept, plan, callers>>

HasDefault(f) == DefaultFilters(f) # <<>>
Filtering == {f \in FieldRefs : HasDefault(f)}

FindFilter ==
  /\ lister = "filters" /\ MoreFields /\ DefaultsParse(NextField)
  /\ Visit("filters", Filtering)
  /\ UNCHANGED <<plan, lister, callers>>

RefuseDefault ==
  /\ lister = "filters" /\ MoreFields /\ ~DefaultsParse(NextField)
  /\ lister' = "bad filters" /\ stack' = <<>>
  /\ UNCHANGED <<memory, kept, plan, callers>>

Leave ==
  lister \in {"sorts", "filters"} /\ LeaveMessage /\ UNCHANGED <<plan, lister, callers>>

FiltersFound ==
  /\ lister = "filters" /\ WalkEnds
  /\ lister' = "ready" /\ stack' = <<>>
  /\ UNCHANGED <<memory, kept, plan, callers>>

-----------------------------------------------------------------------------
(***************************************************************************)
(* A request to list.  BuildQuery appends the tie breakers to the default  *)
(* sorts before anything else, into their array if it has room.            *)
(***************************************************************************)
Answer(c, answer) ==
  callers' = [callers EXCEPT ![c].at = "done", ![c].answer = answer]

Goes(c, at) == callers' = [callers EXCEPT ![c].at = at]

RequestedSorts(req) ==
  [i \in DOMAIN req.sorts |->
     [column |-> FALSE, nodes |-> NewJSONPath(plan.root, req.sorts[i].field).nodes]]

(* Mutant: the sorts that are asked for are appended to the default sorts. *)
BeginAppending(c, req) ==
  LET sorts == AppendTo(memory, kept["sorts"],
                 IF req.sorts = <<>> THEN TieBreakers ELSE RequestedSorts(req))
  IN  /\ memory' = sorts.heap
      /\ callers' = [callers EXCEPT ![c] = [Idle EXCEPT !.at = "validate", !.request = req,
                                                        !.sorts = sorts.slice]]

Begin(c, req) ==
  LET sorts == AppendTo(memory, kept["sorts"], TieBreakers)
  IN  /\ memory' = sorts.heap
      /\ callers' = [callers EXCEPT ![c] = [Idle EXCEPT !.at = "validate", !.request = req,
                                                        !.sorts = sorts.slice]]

AskToList(c) ==
  /\ lister = "ready" /\ callers[c].at = "idle"
  /\ \E req \in {r \in plan.requests : r.is = "list"} : Begin(c, req)
  /\ UNCHANGED <<stack, kept, plan, lister>>

Validate(c) ==
  /\ callers[c].at = "validate"
  /\ LET check == CheckRequest(plan.root, callers[c].request)
     IN  IF check = "ok" THEN Goes(c, "build") ELSE Answer(c, [is |-> "invalid", how |-> check])
  /\ UNCHANGED <<memory, stack, kept, plan, lister>>

(***************************************************************************)
(* ORDER BY: each sort's column, or a chain of arrows.                     *)
(***************************************************************************)
Ordering(cell) ==
  IF "nodes" \in DOMAIN cell THEN cell ELSE [column |-> FALSE, nodes |-> KeptNodes(cell)]

OrderOf(c) ==
  IF callers[c].request.sorts # <<>> THEN RequestedSorts(callers[c].request)
  ELSE LET cells == Cells(memory, callers[c].sorts)
       IN  [i \in DOMAIN cells |-> Ordering(cells[i])]

(***************************************************************************)
(* The rest of BuildQuery.  The sorts, filters and searches asked for are  *)
(* made into conditions; then come the default filters, whose paths no one *)
(* writes any more; then the selectors of the sorts, which may panic.      *)
(***************************************************************************)
Build(c) ==
  /\ callers[c].at = "build"
  /\ LET order == OrderOf(c)
     IN  IF ~RequestBuilds(plan.root, plan.identifier, callers[c].request)
         THEN Answer(c, [is |-> "unbuilt"])
         ELSE IF \E i \in DOMAIN order : ~order[i].column /\ ArrowPanics(order[i].nodes)
         THEN Answer(c, [is |-> "panic"])
         ELSE callers' = [callers EXCEPT ![c].at = "run", ![c].order = order]
  /\ UNCHANGED <<memory, stack, kept, plan, lister>>

(***************************************************************************)
(* WHERE: the filters and searches asked for, or else the default filters. *)
(***************************************************************************)
Selected(req, row) ==
  /\ \A i \in DOMAIN req.filters : Satisfies(plan.root, row.data, req.filters[i])
  /\ \A i \in DOMAIN req.searches :
       SearchFinds(plan.root, plan.identifier, row.data, req.searches[i])
  /\ req.filters = <<>> /\ req.searches = <<>> =>
       \A i \in DOMAIN Kept("filters") :
         DefaultHolds(row.data, KeptNodes(Kept("filters")[i]), Kept("filters")[i].leaf)

(* The result: a row, and the auth row it was joined to. *)
Results(req) ==
  UNION {{<<row, auth>> : auth \in Seen(plan.authRows, plan.claim, row)} :
         row \in {r \in Addressed(plan.states, req.where) : Selected(req, r)}}

Run(c) ==
  /\ callers[c].at = "run"
  /\ Answer(c, [is |-> "rows", results |-> Results(callers[c].request)])
  /\ UNCHANGED <<memory, stack, kept, plan, lister>>

(***************************************************************************)
(* A filter without SQL is among the conditions of the statement all the   *)
(* same.  The library leaves it out; a build of it that leaves the word    *)
(* WHERE or AND makes a statement that the database refuses.               *)
(***************************************************************************)
Fail(c) ==
  /\ callers[c].at = "run"
  /\ \E i \in DOMAIN callers[c].request.filters :
       SaysNothing(callers[c].request.filters[i])
  /\ Answer(c, [is |-> "failed"])
  /\ UNCHANGED <<memory, stack, kept, plan, lister>>

(* A Get request is one statement, built of nothing that callers share. *)
AskToGet(c) ==
  /\ lister = "ready" /\ callers[c].at = "idle"
  /\ \E req \in {r \in plan.requests : r.is = "get"} :
       callers' = [callers EXCEPT ![c] =
         [Idle EXCEPT !.at = "done", !.request = req,
            !.answer = Get(plan.properties, plan.states, plan.events, plan.authRows,
                           plan.claim, req.keys)]]
  /\ UNCHANGED <<memory, stack, kept, plan, lister>>

Next ==
  \/ Construct \/ FindSort \/ SortsFound \/ FindFilter \/ RefuseDefault
  \/ Leave \/ FiltersFound
  \/ \E c \in Callers :
       AskToList(c) \/ Validate(c) \/ Build(c) \/ Run(c) \/ Fail(c) \/ AskToGet(c)

Spec == Init /\ [][Next]_vars

-----------------------------------------------------------------------------
(***************************************************************************)
(* Every slice lies within its array, and a caller is where its request    *)
(* can be.                                                                 *)
(***************************************************************************)
SliceOK(slice) == slice.array \in 0 .. Len(memory) /\ slice.len <= Capacity(memory, slice)

QueryTypeOK ==
  /\ plan \in Plans
  /\ lister \in {"new", "sorts", "filters", "ready", "bad request", "bad annotations",
                 "bad sorts", "bad filters"}
  /\ \A i \in DOMAIN stack : SliceOK(stack[i].path)
  /\ \A list \in DOMAIN kept :
       SliceOK(kept[list]) /\ \A i \in DOMAIN Kept(list) : SliceOK(Kept(list)[i].path)
  /\ \A c \in Callers :
       /\ callers[c].at \in {"idle", "validate", "build", "run", "done"}
       /\ callers[c].at \in {"validate", "build", "run"} => callers[c].request.is = "list"
       /\ SliceOK(callers[c].sorts)

-----------------------------------------------------------------------------
(***************************************************************************)
(* The paths that the walk's callbacks keep go on naming the field they    *)
(* were kept for, whatever is appended beside them afterwards.  Paths of   *)
(* four, and of six to eight, nodes are excepted: they share their array   *)
(* (see shared_paths).                                                     *)
(***************************************************************************)
KeptPathsTrue ==
  \A list \in DOMAIN kept : \A i \in DOMAIN Kept(list) :
    LET cell == Kept(list)[i]
    IN  Len(cell.chain) \in {1, 2, 3, 5} =>
          [n \in DOMAIN KeptNodes(cell) |-> KeptNodes(cell)[n].field] = cell.chain

(***************************************************************************)
(* "IDPath uniquely identifies the path within a specific root type        *)
(* context" (path.go:137): of the kept paths too.                          *)
(***************************************************************************)
IDPathsUnique ==
  \A list \in DOMAIN kept : \A i, j \in DOMAIN Kept(list) :
    IDPath(Kept(list)[i]) = IDPath(Kept(list)[j]) => i = j

(***************************************************************************)
(* Once built, a lister has found every annotated field wherever its       *)
(* message is used, each once and in the order of the descriptors: that    *)
(* order is the order of the result.                                       *)
(***************************************************************************)
Found(list) == [i \in DOMAIN Kept(list) |-> Kept(list)[i].chain]

WalkFindsAll ==
  lister = "ready" =>
    /\ Found("sorts") = Those(ChainsFrom[plan.root], DefaultSorts)
    /\ Found("filters") = Those(ChainsFrom[plan.root], Filtering)

(***************************************************************************)
(* Two search fields have one column only where at most one of them can be *)
(* set: they are on two branches of a oneof.  A root whose fields all have *)
(* columns of their own is not refused (search.go:33).                     *)
(***************************************************************************)
Exclusive(one, two) ==
  \E i \in DOMAIN one \cap DOMAIN two :
    /\ \A j \in 1 .. i - 1 : one[j] = two[j]
    /\ one[i] # two[i] /\ one[i].oneof # NoOneof /\ one[i].oneof = two[i].oneof

SearchesUnambiguous ==
  LET chains    == Range(SearchChains[plan.root])
      Column(c) == plan.identifier[Last(c)]
      good      == /\ \A c \in chains : Column(c) # NoIdentifier
                   /\ \A c, d \in chains :
                        Column(c) = Column(d) => c = d \/ Exclusive(c, d)
  IN  /\ lister \notin {"new", "bad request", "bad annotations"} => good
      /\ lister = "bad annotations" /\ good => ~SortsAnnotated[plan.root]

(***************************************************************************)
(* The rows of a request without sorts come by the default sorts, the      *)
(* latest first, and then by the tie breakers, whatever the requests that  *)
(* ran before or meanwhile wrote into the array of the default sorts.      *)
(***************************************************************************)
SortsEndInTieBreaker ==
  LET defaults == Those(ChainsFrom[plan.root], DefaultSorts)
      Nodes(chain) == [i \in DOMAIN chain |-> FieldNode(chain[i].name, chain[i])]
  IN  \A c \in Callers :
        /\ callers[c].at = "run" \/ callers[c].answer.is = "rows"
        /\ callers[c].request.sorts = <<>>
        => callers[c].order =
            [i \in DOMAIN defaults |-> [column |-> FALSE, nodes |-> Nodes(defaults[i])]]
            \o TieBreakers

(* The default sorts have paths of a length that KeptPathsTrue is about. *)
ShortSorts ==
  \A p \in Plans : \A i \in DOMAIN ChainsFrom[p.root] :
    LET chain == ChainsFrom[p.root][i]
    IN  Last(chain) \in DefaultSorts => Len(chain) \in {1, 2, 3, 5}

-----------------------------------------------------------------------------
(***************************************************************************)
(* What a request means: its names are those of the JSON that clients see, *)
(* where the fields of a flattened message are fields of its parent, which *)
(* may be named too; "type" after them is the oneof of a message.  Its     *)
(* values are compared with every value that a row has for the field.      *)
(***************************************************************************)
JSONNames(chain) == [n \in DOMAIN chain |-> chain[n].json]

Said(chain, silent) ==
  FlattenSeq([n \in DOMAIN chain |-> IF n \in silent THEN <<>> ELSE << chain[n].json >>])

NamesFor(chain) ==
  {Said(chain, silent) : silent \in SUBSET {n \in 1 .. Len(chain) - 1 : chain[n].flatten}}

HasType(m) == m \in Messages /\ "type" \in OneofsOf(m)
EndOf(chain) == IF chain = <<>> THEN plan.root ELSE Last(chain).message

(* Everything that has the names: fields, and oneofs of their messages. *)
Named(names) ==
  {one \in [chain : Range(ChainsFrom[plan.root]) \cup {<<>>}, oneof : BOOLEAN] :
     IF one.oneof
     THEN /\ HasType(EndOf(one.chain))
          /\ \E said \in NamesFor(one.chain) : names = Append(said, "type")
     ELSE one.chain # <<>> /\ names \in NamesFor(one.chain)}

Clear(names) == \A one, two \in Named(names) : one = two
Meant(names) == CHOOSE one \in Named(names) : TRUE

ValuesStep(values, f) ==
  UNION {IF f.list THEN Range(v[f.json]) ELSE {v[f.json]} :
         v \in {w \in values : f.json \in DOMAIN w}}

ValuesOf(value, chain) == FoldLeft(ValuesStep, {value}, chain)

NoMaps(chain) == \A n \in DOMAIN chain : ~chain[n].map

(* The data of a row is the JSON of a message of the root: a value of a    *)
(* field is written as its kind is (protojson). *)
ASSUME RowsAssumption ==
  \A p \in Plans : \A row \in p.states : \A chain \in Range(ChainsFrom[p.root]) :
    Last(chain).kind # "message" /\ NoMaps(chain) =>
      \A v \in ValuesOf(row.data, chain) : v = Scalar(StoredAs(Last(chain).kind), v.text)

(* The rows where a value of the field passes the test. *)
RowsWith(chain, Passes(_)) ==
  {row \in plan.states : \E v \in ValuesOf(row.data, chain) : Passes(v)}

RowsOf(filter, meant) ==
  LET asked == IF Last(meant.chain).kind = "enum" THEN EnumName[filter.value] ELSE filter.value
  IN  IF meant.oneof THEN RowsWith(meant.chain, LAMBDA v : filter.value \in DOMAIN v)
      ELSE IF filter.type = "value" THEN RowsWith(meant.chain, LAMBDA v : v.text = asked)
      ELSE IF Unbounded(filter) THEN plan.states
      ELSE RowsWith(meant.chain, LAMBDA v :
             /\ filter.min # "" => Rank[filter.min] <= Rank[v.text]
             /\ filter.max # "" => Rank[v.text] <= Rank[filter.max])

FilterMeans(filter) == RowsOf(filter, Meant(filter.field))

Means(filter) ==
  LET Rows[f \in FilterTrees] ==
        LET within == {Rows[g] : g \in Range(f.filters)}
        IN  IF f.is = "field" THEN FilterMeans(f)
            ELSE IF f.is = "and" THEN {row \in plan.states : \A rows \in within : row \in rows}
            ELSE UNION within
  IN  Rows[filter]

SearchMeans(search) ==
  RowsWith(Meant(search.field).chain, LAMBDA v : v.text = search.value)

DefaultMeans(chain) == RowsWith(chain, LAMBDA v : v.text \in Range(DefaultFilters(Last(chain))))

RequestMeans(req) ==
  {row \in Addressed(plan.states, req.where) :
     /\ \A f \in Range(req.filters) : row \in Means(f)
     /\ \A search \in Range(req.searches) : row \in SearchMeans(search)
     /\ req.filters = <<>> /\ req.searches = <<>> =>
          \A chain \in Range(ChainsFrom[plan.root]) :
            HasDefault(Last(chain)) => row \in DefaultMeans(chain)}

(***************************************************************************)
(* The requests that the code is able to compare: a number or a bool is    *)
(* not a JSON string, a number of 64 bits is one but is not in its order,  *)
(* and a search field is looked up by its JSON names in snake case, in a   *)
(* column that should be its own.  A oneof's value is the JSON name of a   *)
(* branch.  An "or" is of filters, each of which says something: one that  *)
(* says nothing is no alternative to the code, and an "or" of none is no   *)
(* condition.                                                              *)
(***************************************************************************)
ComparableTo(f, meant) ==
  LET kind == Last(meant.chain).kind
  IN  IF meant.oneof
      THEN f.value \in {g.json : g \in FieldSet(EndOf(meant.chain))}
      ELSE /\ kind \notin {"message", "float", "int32", "bool"}
           /\ kind = "int64" => f.type = "value"

ComparableField(f) == Clear(f.field) /\ ComparableTo(f, Meant(f.field))

Comparable(filter) ==
  LET Compares[f \in FilterTrees] ==
        IF f.is = "field" THEN ComparableField(f)
        ELSE /\ \A i \in DOMAIN f.filters : Compares[f.filters[i]]
             /\ f.is = "or" => /\ f.filters # <<>>
                               /\ \A i \in DOMAIN f.filters : ~SaysNothing(f.filters[i])
  IN  Compares[filter]

InSnake(chain) ==
  \A n \in DOMAIN chain : ~chain[n].flatten /\ Snake[chain[n].json] = chain[n].name

SearchedAlone(search) ==
  LET chain == Meant(search.field).chain
  IN  /\ Clear(search.field) /\ InSnake(chain)
      /\ \A other \in Range(SearchChains[plan.root]) :
           plan.identifier[Last(other)] = plan.identifier[Last(chain)] => other = chain

DefaultsComparable ==
  \A chain \in Range(ChainsFrom[plan.root]) : HasDefault(Last(chain)) =>
    /\ Last(chain).kind # "message" /\ StoredAs(Last(chain).kind) = DefaultAs(Last(chain).kind)
    /\ NoMaps(chain) /\ Len(chain) \in {1, 2, 3, 5}

Claimed(row) ==
  \/ plan.claim \in {NoAuth, NoClaim}
  \/ \E a \in plan.authRows : a.on = row.keys[AuthColumn] /\ a.claim = plan.claim

AuthUnique == \A a, b \in plan.authRows : a.on = b.on => a = b

(* The requests that this is about, and what they are to be answered with. *)
Understood(req) ==
  /\ \A i \in DOMAIN req.filters : Comparable(req.filters[i])
  /\ \A i \in DOMAIN req.searches : SearchedAlone(req.searches[i])
  /\ req.filters = <<>> /\ req.searches = <<>> => DefaultsComparable

AsMeant(req, results) ==
  LET rows == {r[1] : r \in results}
  IN  /\ rows = {row \in RequestMeans(req) : Claimed(row)}
      /\ AuthUnique => Cardinality(rows) = Cardinality(results)

(***************************************************************************)
(* A list answers with the rows that its request means and its claim lets  *)
(* it see, and no others, each once if no two auth rows are joined to it.  *)
(***************************************************************************)
RowsMeant ==
  \A c \in Callers :
    callers[c].answer.is = "rows" /\ Understood(callers[c].request) =>
      AsMeant(callers[c].request, callers[c].answer.results)

(***************************************************************************)
(* A request that passed validation is built and its statement ordered:    *)
(* BuildQuery gives it neither an error nor a panic, if its sorts have one *)
(* direction, it has one filter at most, and its searches are of fields    *)
(* whose proto name is their JSON name in snake case, down from the root,  *)
(* and none of them flattened; and if no field that it is sorted by is     *)
(* below a list, and no tie breaker is or is a oneof.  A field directly in *)
(* the root or in a message of it is not, the annotations are checked      *)
(* (sort.go:205); of what is deeper they forget, at every second message,  *)
(* that a list is above it, and timestamps and tie breakers go unchecked.  *)
(***************************************************************************)
BelowList(chain) == \E n \in 1 .. Len(chain) - 1 : chain[n].list

SortChecked(chain) == Len(chain) <= 2 /\ Last(chain).message = NoMessage

(* What a request without sorts is sorted by, and what one asks for. *)
DefaultsSelect ==
  /\ \A chain \in Range(Those(ChainsFrom[plan.root], DefaultSorts)) :
       SortChecked(chain) \/ ~BelowList(chain)
  /\ \A tie \in Range(TieBreakers) : tie.column \/ ~ArrowPanics(tie.nodes)

AskedSelects(sort) ==
  \A chain \in Range(ChainsFrom[plan.root]) :
    sort.field \in NamesFor(chain) => SortChecked(chain) \/ ~BelowList(chain)

SearchedInSnake(search) ==
  \E chain \in Range(ChainsFrom[plan.root]) :
    InSnake(chain) /\ JSONNames(chain) = search.field

ValidIsBuilt ==
  \A c \in Callers :
    LET req == callers[c].request
    IN  callers[c].answer.is \in {"unbuilt", "panic"} =>
          \/ ~OneDirection(req.sorts)
          \/ Len(req.filters) > 1
          \/ \E i \in DOMAIN req.filters : req.filters[i].is # "field"
          \/ \E i \in DOMAIN req.searches : ~SearchedInSnake(req.searches[i])
          \/ IF req.sorts = <<>> THEN ~DefaultsSelect
             ELSE \E i \in DOMAIN req.sorts : ~AskedSelects(req.sorts[i])

(***************************************************************************)
(* A get answers with the state that has the keys asked for and with all   *)
(* its events and no other's, once if no two auth rows are joined to it;   *)
(* it says "not found" of no state that the claim lets it see.             *)
(***************************************************************************)
GetShowsEntity ==
  \A c \in Callers : callers[c].request.is = "get" =>
    LET keys   == PrimaryKey(plan.properties, callers[c].request.keys)
        answer == callers[c].answer
        asked  == {row \in plan.states : Claimed(row)
                     /\ \A column \in DOMAIN keys : row.keys[column] = keys[column]}
    IN  /\ answer.is = "found" =>
             /\ asked = {answer.state}
             /\ answer.events = {e \in plan.events :
                                   \A column \in DOMAIN e.keys :
                                     e.keys[column] = answer.state.keys[column]}
             /\ AuthUnique => answer.copies = 1
        /\ answer.is = "not found" => asked = {}
=============================================================================
