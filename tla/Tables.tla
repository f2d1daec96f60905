------------------------------- MODULE Tables -------------------------------
(***************************************************************************)
(* The two tables of a state machine: the key columns its table map has    *)
(* (psm/table_map.go), the tables that migrations make of it (pgmigrate/   *)
(* psm.go), and the rows that store and the getter address them with.      *)
(*                                                                         *)
(* A table map is given by the properties of the key message, a sequence   *)
(* of [name, column, primary, required]: column is the name in snake case. *)
(***************************************************************************)
EXTENDS Integers, FiniteSets, SequencesExt

(* keyFieldColumn *)
KeyColumn(property) ==
  [property EXCEPT !.required = property.primary \/ property.required]

KeyColumns(properties) == {KeyColumn(p) : p \in Range(properties)}

PrimaryColumns(properties) == {k.column : k \in {k \in KeyColumns(properties) : k.primary}}

NotNullColumns(properties) == {k.column : k \in {k \in KeyColumns(properties) : k.required}}

KeyNames(properties) == {k.column : k \in KeyColumns(properties)}

EventColumns == {"id", "timestamp", "sequence", "data", "state"}

(***************************************************************************)
(* BuildPSMTables.  A primary key column is not null by itself.            *)
(***************************************************************************)
StateTable(properties) ==
  [columns    |-> KeyNames(properties) \cup {"state"},
   notNull    |-> NotNullColumns(properties) \cup {"state"},
   primaryKey |-> PrimaryColumns(properties)]

(* Mutant: the event table has the primary keys only. *)
EventTablePrimaryOnly(properties) ==
  [columns    |-> PrimaryColumns(properties) \cup EventColumns,
   notNull    |-> NotNullColumns(properties) \cup EventColumns,
   primaryKey |-> {"id"},
   foreignKey |-> PrimaryColumns(properties)]

EventTable(properties) ==
  [columns    |-> KeyNames(properties) \cup EventColumns,
   notNull    |-> NotNullColumns(properties) \cup EventColumns,
   primaryKey |-> {"id"},
   foreignKey |-> PrimaryColumns(properties)]

(***************************************************************************)
(* keyValues in store: the values an entity has by column.  Empty texts    *)
(* are left out; a required key must have a value, and every value a key.  *)
(***************************************************************************)
Stored(values) == {c \in DOMAIN values : values[c] # ""}

Storable(properties, values) ==
  /\ NotNullColumns(properties) \subseteq Stored(values)
  /\ DOMAIN values \subseteq KeyNames(properties)

(* The columns of the upsert, its conflict target, and of the insert. *)
UpsertColumns(properties, values) == Stored(values) \cup {"state"}
ConflictTarget(properties) == PrimaryColumns(properties)
InsertColumns(properties, values) == Stored(values) \cup EventColumns

(* The database accepts a row that sets these columns. *)
Accepts(table, columns) ==
  columns \subseteq table.columns /\ table.notNull \subseteq columns
=============================================================================
