------------------------------- MODULE Listing -------------------------------
(***************************************************************************)
(* The queries a Lister builds: which fields it sorts by, the order the    *)
(* database returns rows in, and the condition that begins a page where    *)
(* its token says (pquery/lister.go, pquery/sort.go).                      *)
(*                                                                         *)
(* A JSON field is selected as text (->>), so ORDER BY compares texts.     *)
(* The condition of a page compares texts, or numbers when the code has    *)
(* put a cast into the selector.  TextOf ranks the values by their texts,  *)
(* which is not their numeric order when texts differ in length.           *)
(***************************************************************************)
EXTENDS Integers, Sequences, FiniteSets, SequencesExt

CONSTANTS
  Ids,          \* the primary keys, a set of numbers in the order of their texts
  Fields,       \* the JSON fields rows may be sorted by
  Kind,         \* [Fields -> {"number", "timestamp"}]
  Values,       \* the values of the fields
  TextOf,       \* [Values -> Nat], the rank of a value's text
  Unset,        \* the field is not in the row's JSON
  DefaultSort,  \* the fields annotated as default sort
  TieBreaker,   \* the unique columns or fields that end the default order
  Sortable,     \* the fields requests may sort by
  MaxPageSize,  \* maxItems of the response, 20 if there is none
  Null,         \* the SQL null
  Absent,       \* no row with this primary key
  NoToken       \* a request for the first page

ASSUME ListingAssumption ==
  /\ Ids \subseteq Nat /\ Values \subseteq Int /\ 0 \in Values
  /\ Kind \in [Fields -> {"number", "timestamp"}]
  /\ TextOf \in [Values -> Nat]
  /\ Unset \notin Values /\ Null \notin Int
  /\ DefaultSort \in Seq(Fields) /\ TieBreaker \in Seq(Fields \cup {"id"})
  /\ DefaultSort \o TieBreaker # <<>>
  /\ Sortable \subseteq Fields /\ "id" \notin Fields
  /\ MaxPageSize \in Nat

Row      == [id : Ids, data : [Fields -> Values \cup {Unset}]]
SortSpec == [field : Fields \cup {"id"}, desc : BOOLEAN]

(***************************************************************************)
(* The sort of a query.  Default sorts are descending and end in the tie   *)
(* breaker; requested sorts replace both.                                  *)
(***************************************************************************)
Sorted(fields, desc) ==
  [i \in DOMAIN fields |-> [field |-> fields[i], desc |-> desc]]

DefaultSorts == Sorted(DefaultSort, TRUE) \o Sorted(TieBreaker, FALSE)

SortFields(sorts) == IF sorts = <<>> THEN DefaultSorts ELSE sorts

(* All in one direction, all annotated as sortable. *)
ValidSorts(sorts) ==
  /\ \A i \in DOMAIN sorts : sorts[i].field \in Sortable
  /\ \A i, j \in DOMAIN sorts : sorts[i].desc = sorts[j].desc

FieldOf(field, row) == IF field = "id" THEN row.id ELSE row.data[field]

(***************************************************************************)
(* ORDER BY: the text of the field, absent ones after all the others.      *)
(***************************************************************************)
OrderKey(field, row) ==
  IF field = "id" THEN row.id
  ELSE IF row.data[field] = Unset THEN 1 + Cardinality(Values)
  ELSE TextOf[row.data[field]]

(* Mutant: every field is ordered ascending. *)
BeforeAscending(fields, r, s) ==
  \E i \in DOMAIN fields :
    /\ \A j \in 1 .. i - 1 :
         OrderKey(fields[j].field, r) = OrderKey(fields[j].field, s)
    /\ OrderKey(fields[i].field, r) < OrderKey(fields[i].field, s)

Before(fields, r, s) ==
  \E i \in DOMAIN fields :
    LET Key(row) == OrderKey(fields[i].field, row)
    IN  /\ \A j \in 1 .. i - 1 :
             OrderKey(fields[j].field, r) = OrderKey(fields[j].field, s)
        /\ IF fields[i].desc THEN Key(s) < Key(r) ELSE Key(r) < Key(s)

(* The orders the database may return the rows in. *)
Orders(rows, fields) ==
  {s \in SetToSeqs(rows) :
     \A i, j \in DOMAIN s : i < j => ~Before(fields, s[j], s[i])}

(***************************************************************************)
(* The two sides of the page condition.  Casting selectors compare         *)
(* numbers, negated when the sort is descending; the token's row is        *)
(* decoded from protobuf, where a field that was unset is zero.            *)
(***************************************************************************)
PageKey(spec, row) ==
  LET Number(v) == IF spec.desc THEN -v ELSE v
      v == FieldOf(spec.field, row)
  IN  IF spec.field = "id" THEN v
      ELSE IF v = Unset THEN Null
      ELSE IF spec.desc \/ Kind[spec.field] = "timestamp" THEN Number(v)
      ELSE TextOf[v]

Decoded(token) ==
  [token EXCEPT !.data = [f \in Fields |-> IF @[f] = Unset THEN 0 ELSE @[f]]]

(* Mutant: the condition is applied to each field by itself. *)
EachAtLeast(lhs, rhs) ==
  \A i \in DOMAIN rhs : lhs[i] # Null /\ lhs[i] >= rhs[i]

(* (lhs...) >= (rhs...), which is not true when a null decides it. *)
AtLeast(lhs, rhs) ==
  \A i \in DOMAIN rhs :
    (\A j \in 1 .. i - 1 : lhs[j] = rhs[j]) => lhs[i] # Null /\ lhs[i] >= rhs[i]

PageKeys(fields, row) == [i \in DOMAIN fields |-> PageKey(fields[i], row)]

FromToken(rows, fields, token) ==
  IF token = NoToken THEN rows
  ELSE {r \in rows : AtLeast(PageKeys(fields, r), PageKeys(fields, Decoded(token)))}

(***************************************************************************)
(* What the query may return: one row more than the page.                  *)
(***************************************************************************)
Limit(s, size) == SubSeq(s, 1, IF Len(s) <= size + 1 THEN Len(s) ELSE size + 1)

Results(rows, fields, token, size) ==
  {Limit(s, size) : s \in Orders(FromToken(rows, fields, token), fields)}
=============================================================================
