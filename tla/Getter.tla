------------------------------- MODULE Getter -------------------------------
(***************************************************************************)
(* Get: one state by the keys of the request, with its events (pquery/     *)
(* getter.go), as configured for a state machine (psm/state_query.go).     *)
(*                                                                         *)
(* A state row is [keys, data], an event row [id, keys].  Requests may     *)
(* only see what is joined to a row of their own (AuthProvider, AuthJoin). *)
(***************************************************************************)
EXTENDS Tables

CONSTANTS
  AuthColumn,   \* the key column AuthJoin is on
  NoAuth,       \* there is no AuthProvider
  NoClaim,      \* the AuthProvider filters nothing
  NullRow       \* the row a left join adds when nothing matches

(***************************************************************************)
(* LEFT JOIN of the auth table: every row of it that matches, or a null    *)
(* one; then the claim is a condition on the joined row.                   *)
(***************************************************************************)
AuthJoined(authRows, row) ==
  LET matching == {a \in authRows : a.on = row.keys[AuthColumn]}
  IN  IF matching = {} THEN {NullRow} ELSE matching

Seen(authRows, claim, row) ==
  IF claim = NoAuth THEN {NullRow}
  ELSE {a \in AuthJoined(authRows, row) :
          claim = NoClaim \/ (a # NullRow /\ a.claim = claim)}

(***************************************************************************)
(* BuildStateQuerySet: every field of the Get request is a key, by its     *)
(* name, and asks for that key's column; the events join on the primary    *)
(* keys.                                                                   *)
(***************************************************************************)
Asked(properties, fields) == {k \in KeyColumns(properties) : k.name \in fields}

MapsRequest(properties, fields) ==
  fields \subseteq {k.name : k \in KeyColumns(properties)}

PrimaryKey(properties, request) ==
  [column \in {k.column : k \in Asked(properties, DOMAIN request)} |->
     request[(CHOOSE k \in KeyColumns(properties) : k.column = column).name]]

(* Mutant: only one of the primary keys is joined on. *)
EventJoinOne(properties) == {CHOOSE column \in PrimaryColumns(properties) : TRUE}

EventJoin(properties) == PrimaryColumns(properties)

(* WHERE: the rows with the keys of the request. *)
Addressed(states, keys) ==
  {row \in states : \A column \in DOMAIN keys :
     column \in Stored(row.keys) /\ row.keys[column] = keys[column]}

(***************************************************************************)
(* The one statement.  Rows are grouped by the keys asked for: unless they *)
(* contain the primary key the database refuses to select the state beside *)
(* the group.  An event comes once for every auth row of its state; no     *)
(* event at all is a null in the array, which cannot be scanned.           *)
(***************************************************************************)
Error == [is |-> "error"]

Get(properties, states, events, authRows, claim, request) ==
  LET keys == PrimaryKey(properties, request)
      rows == {row \in Addressed(states, keys) : Seen(authRows, claim, row) # {}}
      row  == CHOOSE r \in rows : TRUE
      joined == {e \in events : \A column \in EventJoin(properties) :
                                  e.keys[column] = row.keys[column]}
  IN  IF ~(PrimaryColumns(properties) \subseteq DOMAIN keys) THEN Error
      ELSE IF rows = {} THEN [is |-> "not found"]
      ELSE IF joined = {} THEN Error
      ELSE [is |-> "found", state |-> row, events |-> joined,
            copies |-> Cardinality(Seen(authRows, claim, row))]
=============================================================================
