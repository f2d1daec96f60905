------------------------------- MODULE Filters -------------------------------
(***************************************************************************)
(* What a list request may ask for and which rows that selects: filters    *)
(* (pquery/filter.go), searches (pquery/search.go), sorts (pquery/sort.go).*)
(*                                                                         *)
(* A field may have rules: whether it is filterable, sortable and          *)
(* searchable, each "on", "off" or "absent", its default filters, and      *)
(* whether it is sorted by when a request does not say.                    *)
(***************************************************************************)
EXTENDS Paths

CONSTANTS
  NoRules,
  OneofRules,  \* [Messages -> {"none", "absent", "off", "on"}], of oneof "type"
  Parses,      \* [kinds -> texts that parse: of keys, which are uuids, not all]
  EnumName,    \* text -> the name it is given, with the prefix, in capitals
  Fold,        \* text -> the text regardless of case
  Snake,       \* JSON name -> what camelToSnake makes of it
  Rank,        \* text -> its place in the order of texts
  FilterTrees, \* the filters that requests are made of
  FilterDepth, \* [FilterTrees -> Nat], greater than that of any filter inside
  NoIdentifier

NumberKinds == {"float", "int32", "int64"}
SortKinds   == NumberKinds \cup {"timestamp"}
FilterKinds == NumberKinds \cup {"bool", "enum", "key", "id", "date", "timestamp"}
RuleKinds   == FilterKinds \cup {"text", "message"}

ASSUME FiltersAssumption ==
  \A f \in FieldRefs : f.rules # NoRules =>
    /\ f.rules.filter \in {"absent", "off", "on"}
    /\ f.rules.sort \in {"absent", "off", "on"}
    /\ f.rules.defaultSort \in BOOLEAN
    /\ f.rules.defaultSort => f.rules.sort # "absent"
    /\ f.rules.search \in {"absent", "off", "on"}

(* A filter is on a field, or it combines filters. *)
ASSUME FilterTreesAssumption ==
  \A f \in FilterTrees :
    /\ f.is \in {"field", "and", "or"}
    /\ FilterDepth[f] \in Nat
    /\ f.is = "field" => f.field \in Seq(Range(f.field))
    /\ f.is # "field" =>
         /\ f.filters \in Seq(FilterTrees)
         /\ \A i \in DOMAIN f.filters : FilterDepth[f.filters[i]] < FilterDepth[f]

(* The JSON type protojson writes a value with, and json a default filter. *)
StoredAs(kind) == IF kind \in {"float", "int32"} THEN "number"
                  ELSE IF kind = "bool" THEN "bool" ELSE "string"
DefaultAs(kind) == IF kind \in NumberKinds THEN "number"
                   ELSE IF kind = "bool" THEN "bool"
                   ELSE IF kind = "timestamp" THEN "object" ELSE "string"

-----------------------------------------------------------------------------
(***************************************************************************)
(* Annotations.                                                            *)
(***************************************************************************)
Ruled(f) == f.rules # NoRules

IsDefaultSort(f) ==
  Ruled(f) /\ f.kind \in SortKinds /\ f.rules.defaultSort

(* filtersForField: the default filters of a filterable field. *)
DefaultFilters(f) ==
  IF Ruled(f) /\ f.kind \in FilterKinds \cup {"message"} /\ f.rules.filter = "on"
  THEN f.rules.defaults ELSE <<>>

(* Rules are of a kind it knows; the defaults must parse, except those of  *)
(* enums and oneofs. *)
DefaultsParse(f) ==
  /\ Ruled(f) => f.kind \in RuleKinds
  /\ \A i \in DOMAIN DefaultFilters(f) :
       f.kind \in {"enum", "message"} \/ DefaultFilters(f)[i] \in Parses[f.kind]

(* Mutant: a sort by default that may not be asked for is overlooked. *)
SortAnnotatedOn(f) == Ruled(f) /\ f.kind \in SortKinds /\ f.rules.sort = "on"

SortAnnotated(f) == Ruled(f) /\ f.kind \in SortKinds /\ f.rules.sort # "absent"

(***************************************************************************)
(* validateSortsAnnotations: no sort on a list, nor on a field of a list   *)
(* of messages.  It goes down two messages at a time, and forgets then     *)
(* that the outer one is a list.                                           *)
(***************************************************************************)
SortsAnnotated[m \in Messages] ==
  \A f \in FieldSet(m) :
    IF f.message = NoMessage THEN f.list => ~SortAnnotated(f)
    ELSE \A g \in FieldSet(f.message) :
           IF g.message # NoMessage THEN SortsAnnotated[g.message]
           ELSE f.list => ~SortAnnotated(g)

(***************************************************************************)
(* validateSearchesAnnotations: the identifiers of a message, which differ *)
(* except between the branches of one oneof.                               *)
(***************************************************************************)
IsSearchable(f) == Ruled(f) /\ f.kind = "text" /\ f.rules.search = "on"
Searchables == {f \in FieldRefs : IsSearchable(f)}

(* Mutant: the branches of one oneof are not compared with other oneofs. *)
ComparedWithin(f, g) == f.oneof = NoOneof \/ g.oneof = NoOneof

(* Two fields that may both be set. *)
Compared(f, g) == f.oneof = NoOneof \/ f.oneof # g.oneof

SearchIdentifiers(id) ==
  LET Inner[m \in Messages] ==
        LET Of(f) == IF IsSearchable(f)
                     THEN [valid |-> id[f] # NoIdentifier, ids |-> {id[f]}]
                     ELSE IF f.message # NoMessage THEN Inner[f.message]
                     ELSE [valid |-> TRUE, ids |-> {}]
        IN  [valid |-> \A f \in FieldSet(m) :
                         /\ Of(f).valid
                         /\ \A g \in FieldSet(m) \ {f} :
                              Compared(f, g) => Of(f).ids \cap Of(g).ids = {},
             ids |-> UNION {Of(f).ids : f \in FieldSet(m)}]
  IN  Inner

ListAnnotations(m, id) == SortsAnnotated[m] /\ SearchIdentifiers(id)[m].valid

(* buildIndexes: the searchable fields under a message, as walked. *)
SearchChains == [m \in Messages |-> Those(ChainsFrom[m], Searchables)]

(* buildTsvColumnMap: the columns by the names down to the field. *)
Names(chain) == [i \in DOMAIN chain |-> chain[i].name]

TsvColumns(m, id, names) ==
  {id[Last(chain)] :
     chain \in {c \in Range(SearchChains[m]) : Names(c) = names}}

-----------------------------------------------------------------------------
(***************************************************************************)
(* The validation of a request: "ok", "refused", or "panic" where the code *)
(* reads a flag of rules that the field does not have.                     *)
(***************************************************************************)
Both(one, two) == IF one = "ok" THEN two ELSE one
Granted(rule)  == IF rule = "on" THEN "ok"
                  ELSE IF rule = "absent" THEN "panic" ELSE "refused"

(* A path of JSON names that leads to a field. *)
LeadsToField(path) == path.nodes # <<>> /\ Leaf(path).oneof = NoOneof

CheckSort(path) ==
  LET f == Leaf(path).field
  IN  IF LeadsToField(path) /\ Ruled(f) /\ f.kind \in SortKinds
      THEN Granted(f.rules.sort) ELSE "refused"

CheckSearch(path) ==
  LET f == Leaf(path).field
  IN  IF LeadsToField(path) /\ Ruled(f) /\ f.kind = "text"
      THEN Granted(f.rules.search) ELSE "refused"

(* validateFilterFieldValue: an empty text is any value. *)
ValidValue(f, text) ==
  \/ text = ""
  \/ IF f.kind = "enum" THEN EnumName[text] \in f.values ELSE text \in Parses[f.kind]

ValidFieldFilter(f, filter) ==
  /\ Ruled(f) /\ f.kind \in FilterKinds /\ f.rules.filter = "on"
  /\ IF filter.type = "value" THEN ValidValue(f, filter.value)
     ELSE ValidValue(f, filter.min) /\ ValidValue(f, filter.max)

(* The oneof's own rules, or those of the field of a wrapper. *)
RulesOfOneof(m, path) ==
  LET parent == IF Len(path.nodes) = 1 THEN m
                ELSE path.nodes[Len(path.nodes) - 1].field.message
      holder == LeafOneofWrapper(path)
  IN  IF OneofRules[parent] # "none" THEN OneofRules[parent]
      ELSE IF holder = NoField THEN "off"
      ELSE IF ~Ruled(holder) \/ holder.rules.filter = "absent" THEN "off"
      ELSE holder.rules.filter

Branches(m, path) ==
  LET parent == IF Len(path.nodes) = 1 THEN m
                ELSE path.nodes[Len(path.nodes) - 1].field.message
  IN  {f \in FieldSet(parent) : f.oneof = Leaf(path).oneof}

ValidOneofFilter(m, path, filter) ==
  /\ filter.type = "value"
  /\ \E f \in Branches(m, path) : Fold[f.name] = Fold[filter.value]

CheckFieldFilter(m, path, filter) ==
  LET When(valid) == IF valid THEN "ok" ELSE "refused"
  IN  IF path.nodes = <<>> THEN "refused"
      ELSE IF LeadsToField(path) THEN When(ValidFieldFilter(Leaf(path).field, filter))
      ELSE Both(Granted(RulesOfOneof(m, path)), When(ValidOneofFilter(m, path, filter)))

(* Only the first filter is looked at, and the first one inside that one. *)
CheckFilters(m, filters) ==
  LET Check[f \in FilterTrees] ==
        IF f.is = "field" THEN CheckFieldFilter(m, NewJSONPath(m, f.field), f)
        ELSE IF f.filters = <<>> THEN "ok" ELSE Check[f.filters[1]]
  IN  IF filters = <<>> THEN "ok" ELSE Check[filters[1]]

(* Several checks, one after the other. *)
CheckEach(checks) == FoldLeft(LAMBDA before, check : Both(before, check), "ok", checks)

(* validateQueryRequest *)
CheckRequest(m, req) ==
  LET Path(asked) == NewJSONPath(m, asked.field)
  IN  Both(CheckEach([i \in DOMAIN req.sorts |-> CheckSort(Path(req.sorts[i]))]),
           Both(CheckFilters(m, req.filters),
                CheckEach([i \in DOMAIN req.searches |-> CheckSearch(Path(req.searches[i]))])))

-----------------------------------------------------------------------------
(***************************************************************************)
(* The conditions a request is made into.                                  *)
(***************************************************************************)
Buildable(m, filters) ==
  LET Builds[f \in FilterTrees] ==
        IF f.is # "field" THEN \A i \in DOMAIN f.filters : Builds[f.filters[i]]
        ELSE LET path == NewJSONPath(m, f.field)
             IN  path.nodes # <<>> /\ (LeadsToField(path) \/ f.type = "value")
  IN  \A i \in DOMAIN filters : Builds[filters[i]]

OneDirection(sorts) == \A i, j \in DOMAIN sorts : sorts[i].desc = sorts[j].desc

(* The key a search is looked up with, from the JSON names asked for. *)
SearchKey(search) == [i \in DOMAIN search.field |-> Snake[search.field[i]]]

RequestBuilds(m, id, req) ==
  /\ OneDirection(req.sorts)
  /\ Buildable(m, req.filters)
  /\ \A i \in DOMAIN req.searches :
       TsvColumns(m, id, SearchKey(req.searches[i])) # {}

(***************************************************************************)
(* The rows that the database finds for them.  @> and the bounds compare   *)
(* with JSON strings; a oneof's value is the key that must exist.          *)
(***************************************************************************)
IsString(v) == DOMAIN v = {"is", "text"} /\ v.is = "string"

Meets(path, row, filter) ==
  LET f     == Leaf(path).field
      asked == IF LeadsToField(path) /\ f.kind = "enum"
               THEN EnumName[filter.value] ELSE filter.value
      AtLeast(text) == filter.min = "" \/ Rank[filter.min] <= Rank[text]
      AtMost(text)  == filter.max = "" \/ Rank[text] <= Rank[filter.max]
  IN  \E v \in JSONSelect(row, JSONPathQuery(path.nodes)) :
        IF ~LeadsToField(path) THEN filter.value \in DOMAIN v
        ELSE IF filter.type = "value" THEN v = Scalar("string", asked)
        ELSE IsString(v) /\ AtLeast(v.text) /\ AtMost(v.text)

(***************************************************************************)
(* A filter that is made into no SQL: a range without bounds, and whatever *)
(* combines nothing else.  It is left out of what it is part of, be that   *)
(* an "and" or an "or", and by itself it is no condition.                  *)
(***************************************************************************)
Unbounded(f) == f.type = "range" /\ f.min = "" /\ f.max = ""

SaysNothing(filter) ==
  LET Silent[f \in FilterTrees] ==
        IF f.is = "field" THEN Unbounded(f)
        ELSE \A i \in DOMAIN f.filters : Silent[f.filters[i]]
  IN  Silent[filter]

Satisfies(m, row, filter) ==
  LET Holds[f \in FilterTrees] ==
        \/ SaysNothing(f)
        \/ IF f.is = "field" THEN Meets(NewJSONPath(m, f.field), row, f)
           ELSE IF f.is = "and" THEN \A i \in DOMAIN f.filters : Holds[f.filters[i]]
           ELSE \E i \in DOMAIN f.filters :
                  ~SaysNothing(f.filters[i]) /\ Holds[f.filters[i]]
  IN  Holds[filter]

(* The text of a search column: generated from the first path that has it. *)
ColumnTexts(m, id, row, column) ==
  LET First(chains) == chains[Min({i \in DOMAIN chains : id[Last(chains[i])] = column})]
  IN  {v.text : v \in JSONSelect(row, ElementsOf(First(SearchChains[m])))}

SearchFinds(m, id, row, search) ==
  \E column \in TsvColumns(m, id, SearchKey(search)) :
    search.value \in ColumnTexts(m, id, row, column)

(* The default filters: every field has one of its values. *)
DefaultHolds(row, nodes, f) ==
  \E i \in DOMAIN DefaultFilters(f) :
    Scalar(DefaultAs(f.kind), DefaultFilters(f)[i]) \in JSONSelect(row, JSONPathQuery(nodes))
=============================================================================
