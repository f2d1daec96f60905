------------------------------ MODULE Migration ------------------------------
(***************************************************************************)
(* The schema of a state machine, and the jobs that change it (pgmigrate/  *)
(* psm.go, printer.go): CreateStateMachines makes the tables, AddIndexes   *)
(* the search columns and their indexes, and the file that                 *)
(* BuildStateMachineMigrations prints makes both, or takes both down.      *)
(* Each job is one transaction; several may run at once, wait for each     *)
(* other's locks and for connections, and lose theirs.                     *)
(*                                                                         *)
(* The objects of the schema are tables, the search columns of a table,    *)
(* and the indexes on them.                                                *)
(***************************************************************************)
EXTENDS Tables

CONSTANTS
  Runners,
  Pool,           \* the open connections that sql.DB allows
  PropertyLists,  \* the key messages a state machine may have
  IndexLists,     \* the search fields it may have: sequences of [table, column]
  MaxFaults       \* bound: connections lost

(* Every job may be a CreateStateMachines, which keeps a connection.  A    *)
(* property of a key message is the record that Tables reads. *)
ASSUME MigrationAssumption ==
  /\ Pool \in Nat /\ IsFiniteSet(Runners) /\ Pool > Cardinality(Runners)
  /\ MaxFaults \in Nat
  /\ PropertyLists \subseteq
       Seq([name : STRING, column : STRING, primary : BOOLEAN, required : BOOLEAN])
  /\ IndexLists \subseteq Seq([table : {"state", "event"}, column : STRING])

VARIABLES
  properties,  \* the key message of the state machine
  indexes,     \* its search fields, as buildIndexes walks to them
  catalog,     \* the objects that are committed
  runners,     \* [Runners -> job, statements to do, and its transaction]
  leaked,      \* connections that are never given back
  faults

vars == <<properties, indexes, catalog, runners, leaked, faults>>

TableObject(t)     == <<"table", t>>
ColumnObject(t, c) == <<"column", t, c>>
IndexObject(t, c)  == <<"index", t, c>>

Tables == {TableObject("state"), TableObject("event")}
Columns == {ColumnObject(indexes[i].table, indexes[i].column) : i \in DOMAIN indexes}
Indexes == {IndexObject(indexes[i].table, indexes[i].column) : i \in DOMAIN indexes}
FullSchema == Tables \cup Columns \cup Indexes

-----------------------------------------------------------------------------
(***************************************************************************)
(* The statements of each job.                                             *)
(***************************************************************************)
Make(object)  == [op |-> "make", on |-> object]
Drop(object)  == [op |-> "drop", on |-> object]
Count(object) == [op |-> "count", on |-> object]
BeginTx       == [op |-> "begin", on |-> <<>>]

(* CreateStateMachines begins a second transaction inside its own. *)
(* Mutant: one for each table. *)
CreateProgramEach ==
  <<BeginTx, Make(TableObject("state")), BeginTx, Make(TableObject("event"))>>

CreateProgram == <<BeginTx, Make(TableObject("state")), Make(TableObject("event"))>>

(* writeIndexes: for each field, the column is counted, added, indexed. *)
IndexProgram ==
  FlattenSeq([i \in DOMAIN indexes |->
    LET column == ColumnObject(indexes[i].table, indexes[i].column)
    IN  <<Count(column), Make(column), Make(IndexObject(indexes[i].table, indexes[i].column))>>])

(* BuildStateMachineMigrations: the items of the printed file, each table  *)
(* and, after it, its columns, which come with their indexes. *)
OfTable(t) ==
  FlattenSeq([i \in DOMAIN indexes |->
    IF indexes[i].table = t THEN <<ColumnObject(t, indexes[i].column)>> ELSE <<>>])

Items ==
  <<TableObject("state")>> \o OfTable("state") \o <<TableObject("event")>> \o OfTable("event")

IndexOn(column) == IndexObject(column[2], column[3])

ToSQL(item) ==
  IF item[1] = "table" THEN <<Make(item)>> ELSE <<Make(item), Make(IndexOn(item))>>

DownSQL(item) ==
  IF item[1] = "table" THEN <<Drop(item)>> ELSE <<Drop(IndexOn(item)), Drop(item)>>

UpProgram == FlattenSeq([i \in DOMAIN Items |-> ToSQL(Items[i])])

(* Mutant: down goes in the order of up. *)
DownProgramForward == FlattenSeq([i \in DOMAIN Items |-> DownSQL(Items[i])])

DownProgram ==
  LET items == Reverse(Items) IN FlattenSeq([i \in DOMAIN items |-> DownSQL(items[i])])

Program(job) == CASE job = "create" -> CreateProgram [] job = "index" -> IndexProgram
                  [] job = "up" -> UpProgram [] job = "down" -> DownProgram

-----------------------------------------------------------------------------
(***************************************************************************)
(* What the database does for a statement.  Everything is done under the   *)
(* lock of the table; making or dropping the event table also locks the    *)
(* state table, which its foreign key refers to.                           *)
(***************************************************************************)
Locked(statement) ==
  CASE statement.op \in {"count", "begin"} -> {}
    [] statement.on = TableObject("event") -> {"state", "event"}
    [] OTHER -> {statement.on[2]}

Needs(object) ==
  CASE object[1] = "table"  -> IF object[2] = "event" THEN {TableObject("state")} ELSE {}
    [] object[1] = "column" -> {TableObject(object[2])}
    [] object[1] = "index"  -> {ColumnObject(object[2], object[3])}

(* What goes with an object that is dropped. *)
PartOf(o, object) ==
  \/ o = object
  \/ object[1] = "table" /\ o[1] # "table" /\ o[2] = object[2]
  \/ object[1] = "column" /\ o[1] = "index" /\ Tail(o) = Tail(object)

PartsOf(object, view) == {o \in view : PartOf(o, object)}

Accepted(statement, view) ==
  CASE statement.op = "make" -> statement.on \notin view /\ Needs(statement.on) \subseteq view
    [] statement.op = "drop" ->
         /\ statement.on \in view
         /\ statement.on = TableObject("state") => TableObject("event") \notin view
    [] OTHER -> TRUE

-----------------------------------------------------------------------------
Init ==
  /\ properties \in PropertyLists /\ indexes \in IndexLists
  /\ catalog = {} /\ leaked = 0 /\ faults = 0
  /\ \E jobs \in [Runners -> {"create", "index", "up", "down"}] :
       runners = [r \in Runners |-> [job |-> jobs[r], todo |-> Program(jobs[r]), status |-> "new",
                                     locks |-> {}, added |-> {}, dropped |-> {}]]

Running(r)   == runners[r].status = "running"
AtEnd(r)     == runners[r].todo = <<>>
Statement(r) == Head(runners[r].todo)
View(r)      == (catalog \ runners[r].dropped) \cup runners[r].added

Ends(r, status) ==
  runners' = [runners EXCEPT ![r] = [@ EXCEPT !.status = status, !.locks = {},
                                              !.added = {}, !.dropped = {}]]

(* Mutant: a connection more than there are. *)
ConnectionOrOneMore == leaked + Cardinality({r \in Runners : Running(r)}) <= Pool

FreeConnection == leaked + Cardinality({r \in Runners : Running(r)}) < Pool

(* db.Transact *)
Begin(r) ==
  /\ runners[r].status = "new" /\ FreeConnection
  /\ runners' = [runners EXCEPT ![r].status = "running"]
  /\ UNCHANGED <<properties, indexes, catalog, leaked, faults>>

BeginAgain(r) ==
  /\ Running(r) /\ ~AtEnd(r) /\ Statement(r).op = "begin" /\ FreeConnection
  /\ leaked' = leaked + 1
  /\ runners' = [runners EXCEPT ![r].todo = Tail(@)]
  /\ UNCHANGED <<properties, indexes, catalog, faults>>

(* A column that is there already ends the job, and it commits. *)
CountColumn(r) ==
  /\ Running(r) /\ ~AtEnd(r) /\ Statement(r).op = "count"
  /\ runners' = [runners EXCEPT ![r].todo =
       IF Statement(r).on \in View(r) THEN <<>> ELSE Tail(@)]
  /\ UNCHANGED <<properties, indexes, catalog, leaked, faults>>

Held(r, table) == table \in runners[r].locks

Lock(r, table) ==
  /\ Running(r) /\ ~AtEnd(r)
  /\ table \in Locked(Statement(r)) /\ \A s \in Runners : ~Held(s, table)
  /\ runners' = [runners EXCEPT ![r].locks = @ \cup {table}]
  /\ UNCHANGED <<properties, indexes, catalog, leaked, faults>>

(* Mutant: the statement is not run in the transaction. *)
AppliedAtOnce(r) ==
  LET made    == IF Statement(r).op = "make" THEN {Statement(r).on} ELSE {}
      dropped == IF Statement(r).op = "drop" THEN PartsOf(Statement(r).on, View(r)) ELSE {}
  IN  /\ catalog' = (catalog \ dropped) \cup made
      /\ runners' = [runners EXCEPT ![r].todo = Tail(@)]

Applied(r) ==
  LET made    == IF Statement(r).op = "make" THEN {Statement(r).on} ELSE {}
      dropped == IF Statement(r).op = "drop" THEN PartsOf(Statement(r).on, View(r)) ELSE {}
  IN  /\ runners' = [runners EXCEPT ![r].todo = Tail(@),
                                    ![r].added = (@ \ dropped) \cup made,
                                    ![r].dropped = (@ \ made) \cup dropped]
      /\ UNCHANGED catalog

Execute(r) ==
  /\ Running(r) /\ ~AtEnd(r) /\ Statement(r).op \in {"make", "drop"}
  /\ \A table \in Locked(Statement(r)) : Held(r, table)
  /\ IF Accepted(Statement(r), View(r)) THEN Applied(r) ELSE Ends(r, "failed") /\ UNCHANGED catalog
  /\ UNCHANGED <<properties, indexes, leaked, faults>>

Commit(r) ==
  /\ Running(r) /\ AtEnd(r)
  /\ catalog' = View(r) /\ Ends(r, "done")
  /\ UNCHANGED <<properties, indexes, leaked, faults>>

(* The database ends one of two transactions that wait for each other; with *)
(* two tables, there is no longer circle. *)
Waits(r, s) ==
  /\ r # s /\ Running(r) /\ ~AtEnd(r)
  /\ \E table \in Locked(Statement(r)) : Held(s, table)

Deadlock(r) ==
  /\ \E s \in Runners : Waits(r, s) /\ Waits(s, r)
  /\ Ends(r, "failed")
  /\ UNCHANGED <<properties, indexes, catalog, leaked, faults>>

(* The connection is lost, and the transaction with it. *)
Lost(r) ==
  /\ Running(r) /\ faults < MaxFaults
  /\ faults' = faults + 1
  /\ Ends(r, "failed")
  /\ UNCHANGED <<properties, indexes, catalog, leaked>>

Step(r) ==
  \/ Begin(r) \/ BeginAgain(r) \/ CountColumn(r)
  \/ \E table \in {"state", "event"} : Lock(r, table)
  \/ Execute(r) \/ Commit(r) \/ Deadlock(r)

Next == \E r \in Runners : Step(r) \/ Lost(r)

(* Go runs every job and the database resolves its deadlocks. *)
Spec     == Init /\ [][Next]_vars
FairSpec == Spec /\ \A r \in Runners : WF_vars(Step(r))

-----------------------------------------------------------------------------
(***************************************************************************)
(* Connections are within the limit, and a table is locked by one job,     *)
(* while its transaction is open.                                          *)
(***************************************************************************)
MigrationTypeOK ==
  /\ properties \in PropertyLists /\ indexes \in IndexLists
  /\ catalog \subseteq FullSchema
  /\ leaked + Cardinality({r \in Runners : Running(r)}) \in 0 .. Pool
  /\ faults \in 0 .. MaxFaults
  /\ \A r \in Runners :
       /\ runners[r].status \in {"new", "running", "done", "failed"}
       /\ IsSuffix(runners[r].todo, Program(runners[r].job))
       /\ runners[r].added \cup runners[r].dropped \subseteq FullSchema
       /\ ~Running(r) => runners[r].locks = {}
       /\ \A s \in Runners \ {r} : runners[r].locks \cap runners[s].locks = {}

(* No two search fields have one column: validateSearchesAnnotations lets  *)
(* the branches of a oneof share one, but neither job works then. *)
OwnColumns ==
  \A i, j \in DOMAIN indexes : indexes[i] = indexes[j] => i = j

(***************************************************************************)
(* The committed schema is nothing, the tables, or everything, whichever   *)
(* jobs ran, failed or lost their connection: a column never comes without *)
(* its index, nor one search field without the others.                     *)
(***************************************************************************)
SchemaWhole ==
  /\ OwnColumns => catalog \in {{}, Tables, FullSchema}
  /\ Tables \subseteq catalog \/ catalog = {}
  /\ \A i \in DOMAIN indexes :
       ColumnObject(indexes[i].table, indexes[i].column) \in catalog
         <=> IndexObject(indexes[i].table, indexes[i].column) \in catalog

(***************************************************************************)
(* When AddIndexes has done its work, because it has run over all fields   *)
(* or because it found a column that was there before it (psm.go:193), all *)
(* of them are there.                                                      *)
(***************************************************************************)
IndexesComplete ==
  [][\A r \in Runners :
       OwnColumns /\ runners[r].job = "index" /\ Running(r) /\ ~AtEnd(r) /\ AtEnd(r)'
         => View(r)' = FullSchema]_vars

(***************************************************************************)
(* Taking down a whole schema meets nothing in its way, and leaves         *)
(* nothing.                                                                *)
(***************************************************************************)
DownUndoesUp ==
  [][\A r \in Runners : runners[r].job = "down" /\ Running(r) =>
       /\ OwnColumns /\ Execute(r) /\ catalog = FullSchema => Running(r)'
       /\ Commit(r) => catalog' = {}]_vars

(***************************************************************************)
(* Every job ends, if there is a connection more than there are jobs.      *)
(***************************************************************************)
MigrationEnds == <>(\A r \in Runners : runners[r].status \in {"done", "failed"})

(***************************************************************************)
(* The tables take the rows that the state machine stores in them: every   *)
(* set of key values that store accepts has a value for all the columns    *)
(* that are not null, the conflict target of the upsert is the primary key *)
(* of the state table, and the event refers to it by columns it has.       *)
(***************************************************************************)
TablesTakeRows ==
  LET names == KeyNames(properties)
      state == StateTable(properties)
      event == EventTable(properties)
  IN  /\ \A given \in SUBSET names : \A values \in [given -> {"", "v"}] :
           Storable(properties, values) =>
             /\ Accepts(state, UpsertColumns(properties, values))
             /\ Accepts(event, InsertColumns(properties, values))
      /\ ConflictTarget(properties) = state.primaryKey
      /\ event.foreignKey = state.primaryKey /\ event.foreignKey \subseteq event.notNull
=============================================================================
