-------------------------------- MODULE Paths --------------------------------
(***************************************************************************)
(* Paths from a message type to one of its fields, at any depth, and what  *)
(* they select from the JSON of a message (internal/pgstore/path.go).      *)
(*                                                                         *)
(* A message type is a sequence of fields.  A path is a sequence of nodes; *)
(* a node is a field, or a oneof, which is not in the JSON.                *)
(***************************************************************************)
EXTENDS Integers, FiniteSets, SequencesExt

CONSTANTS
  Messages,   \* the message types
  FieldsOf,   \* [Messages -> Seq(Field)], in the order of the descriptor
  Nesting,    \* [Messages -> Nat], less in the messages of a message's fields
  Wrappers,   \* the messages that are j5 oneof wrappers
  NoMessage, NoOneof, NoField

FieldSet(m) == Range(FieldsOf[m])
FieldRefs   == UNION {FieldSet(m) : m \in Messages}

(* Names are unique, only a field that is a message has a message, and no  *)
(* message has fields of its own type at any depth. *)
ASSUME PathsAssumption ==
  /\ Wrappers \subseteq Messages /\ NoMessage \notin Messages
  /\ NoField \notin FieldRefs
  /\ \A f \in FieldRefs :
       /\ {"name", "json", "kind", "message", "list", "map", "flatten", "oneof"}
            \subseteq DOMAIN f
       /\ f.message \in Messages \cup {NoMessage}
       /\ f.flatten => f.message # NoMessage
       /\ f.kind = "text" => f.message = NoMessage
  /\ \A m \in Messages : /\ FieldsOf[m] \in Seq(FieldSet(m)) /\ Nesting[m] \in Nat
                         /\ \A f \in FieldSet(m) : f.message # NoMessage =>
                              Nesting[f.message] < Nesting[m]
  /\ \A m \in Messages : \A i, j \in DOMAIN FieldsOf[m] :
       LET f == FieldsOf[m][i]  g == FieldsOf[m][j]
       IN  f.name = g.name \/ f.json = g.json => i = j

OneofsOf(m) == {f.oneof : f \in FieldSet(m)} \ {NoOneof}

FieldNode(name, f) == [name |-> name, field |-> f, oneof |-> NoOneof]
OneofNode(o)       == [name |-> o, field |-> NoField, oneof |-> o]

(***************************************************************************)
(* A path under construction: the message its next element is looked up    *)
(* in, its nodes, and the oneof it has just named.                         *)
(***************************************************************************)
Start(m) == [at |-> m, nodes |-> <<>>, oneof |-> NoOneof, error |-> "none"]
Failed(error) == [Start(NoMessage) EXCEPT !.error = error]

Follow(path, nodes) ==
  [path EXCEPT !.nodes = @ \o nodes, !.oneof = NoOneof,
               !.at = Last(nodes).field.message]
FollowOneof(path, o, m) ==
  [path EXCEPT !.nodes = Append(@, OneofNode(o)), !.oneof = o, !.at = m]

Leaf(path) == Last(path.nodes)

(***************************************************************************)
(* The chains of fields down from a message, in the order of the           *)
(* descriptors, every field before the fields of its message.              *)
(***************************************************************************)
ChainsFrom ==
  LET Chains[m \in Messages] ==
        FlattenSeq([i \in DOMAIN FieldsOf[m] |->
          LET f == FieldsOf[m][i]
              below == IF f.message = NoMessage THEN <<>> ELSE Chains[f.message]
          IN  << <<f>> >> \o [j \in DOMAIN below |-> <<f>> \o below[j]]])
  IN  [m \in Messages |-> Chains[m]]

(* The chains to the wanted fields. *)
Those(chains, wanted) ==
  FlattenSeq([i \in DOMAIN chains |->
                IF Last(chains[i]) \in wanted THEN << chains[i] >> ELSE <<>>])

(***************************************************************************)
(* findField: a field of the message, or one of a flattened field of it.   *)
(***************************************************************************)
ByJSONName(m, json) == {f \in FieldSet(m) : f.json = json}

(* Where the fields are that are flattened and whose message has the name. *)
Flattened(m, json) ==
  {i \in DOMAIN FieldsOf[m] :
     FieldsOf[m][i].flatten /\ ByJSONName(FieldsOf[m][i].message, json) # {}}

The(fields) == CHOOSE f \in fields : TRUE

(* Mutant: the node of the flattened field itself is left out. *)
FindFieldFlat(m, json) ==
  IF ByJSONName(m, json) # {} THEN << FieldNode(json, The(ByJSONName(m, json))) >>
  ELSE IF Flattened(m, json) = {} THEN <<>>
  ELSE LET f == FieldsOf[m][Min(Flattened(m, json))]
       IN  << FieldNode(json, The(ByJSONName(f.message, json))) >>

FindField(m, json) ==
  IF ByJSONName(m, json) # {} THEN << FieldNode(json, The(ByJSONName(m, json))) >>
  ELSE IF Flattened(m, json) = {} THEN <<>>
  ELSE LET f == FieldsOf[m][Min(Flattened(m, json))]
       IN  << FieldNode(f.name, f), FieldNode(json, The(ByJSONName(f.message, json))) >>

(***************************************************************************)
(* A path of JSON names.  Its last element may be the oneof "type".        *)
(***************************************************************************)
JSONElement(path, json, nodes) ==
  IF nodes # <<>> /\ \A i \in DOMAIN nodes : ~nodes[i].field.map
  THEN Follow(path, nodes)
  ELSE IF nodes = <<>> /\ json = "type" /\ path.at # NoMessage /\ json \in OneofsOf(path.at)
  THEN FollowOneof(path, json, NoMessage)
  ELSE Failed("refused")

JSONStep(path, json) ==
  JSONElement(path, json, IF path.at = NoMessage THEN <<>> ELSE FindField(path.at, json))

NewJSONPath(m, spec) == FoldLeft(JSONStep, Start(m), spec)

(***************************************************************************)
(* A path of proto names.  A oneof may be named before a field of it; the  *)
(* index of the oneof is read from the field even if it is in none.        *)
(***************************************************************************)
ProtoStep(path, name) ==
  LET fields == IF path.at = NoMessage THEN <<>>
                ELSE SelectSeq(FieldsOf[path.at], LAMBDA f : f.name = name)
      f == fields[1]
  IN  IF path.error = "panic" THEN path
      ELSE IF fields # <<>>
      THEN IF path.oneof # NoOneof /\ f.oneof = NoOneof THEN Failed("panic")
           ELSE IF path.oneof # NoOneof /\ f.oneof # path.oneof THEN Failed("refused")
           ELSE IF f.map THEN Failed("refused")
           ELSE Follow(path, <<FieldNode(name, f)>>)
      ELSE IF path.oneof = NoOneof /\ path.at # NoMessage /\ name \in OneofsOf(path.at)
      THEN FollowOneof(path, name, path.at)
      ELSE Failed("refused")

NewProtoPath(m, spec) == FoldLeft(ProtoStep, Start(m), spec)

(* The field that refers to the wrapper whose oneof is the leaf.  The root *)
(* is not a wrapper. *)
LeafOneofWrapper(path) ==
  LET holder == path.nodes[Len(path.nodes) - 1].field
  IN  IF Len(path.nodes) > 1 /\ holder.message \in Wrappers THEN holder ELSE NoField

(***************************************************************************)
(* The path as a jsonpath, with [*] after a list, and as a chain of        *)
(* arrows, which cannot go through a list nor end in a oneof.              *)
(***************************************************************************)
Element(f) == [key |-> f.json, each |-> f.list]

ElementsOf(chain) == [i \in DOMAIN chain |-> Element(chain[i])]

JSONPathQuery(nodes) ==
  FlattenSeq([i \in DOMAIN nodes |->
                IF nodes[i].oneof # NoOneof THEN <<>> ELSE << Element(nodes[i].field) >>])

ArrowPanics(nodes) ==
  \/ Last(nodes).oneof # NoOneof
  \/ \E i \in 1 .. Len(nodes) - 1 : nodes[i].oneof = NoOneof /\ nodes[i].field.list

(***************************************************************************)
(* What a jsonpath selects: an object is a function from keys, an array a  *)
(* sequence, a scalar a record of its JSON type and its text.              *)
(***************************************************************************)
Scalar(is, text) == [is |-> is, text |-> text]

SelectStep(values, elem) ==
  UNION {LET inner == v[elem.key]
         IN  IF elem.each THEN Range(inner) ELSE {inner} :
         v \in {w \in values : elem.key \in DOMAIN w}}

JSONSelect(json, query) == FoldLeft(SelectStep, {json}, query)
=============================================================================
