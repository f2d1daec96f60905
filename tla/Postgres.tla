------------------------------ MODULE Postgres ------------------------------
(***************************************************************************)
(* The database as psm uses it: for each state machine a state table,      *)
(* keyed by the primary key, and an event table, keyed by event ID; the    *)
(* outbox; a table that a state data hook derives from the states.  It is  *)
(* not in this repository: it is modelled from the statements psm issues,  *)
(* the keys pgmigrate declares and the isolation level of TxOptions.       *)
(*                                                                         *)
(* Writes stay with their transaction until it commits; a row written by   *)
(* an open transaction is locked.  ReadCommitted statements see what is    *)
(* committed when they run; Serializable ones see the database as it was   *)
(* when the transaction began and may not overwrite a row that changed     *)
(* since then.                                                             *)
(***************************************************************************)
EXTENDS PSMTypes

CONSTANTS
  Clients,     \* the processes that open transactions
  Isolation    \* "ReadCommitted" or "Serializable"

ASSUME IsolationAssumption == Isolation \in {"ReadCommitted", "Serializable"}

VARIABLES
  rows,        \* the state tables
  events,      \* the event tables
  outbox,      \* the outbox table, in the order the messages were written
  derived,     \* the table the state data hook keeps
  txRows, txEvents, txOutbox, txDerived,   \* the uncommitted writes
  snapRows, snapEvents                     \* what Serializable reads see

tables  == <<rows, events, outbox, derived>>
txs     == <<txRows, txEvents, txOutbox, txDerived, snapRows, snapEvents>>
dbVars  == <<rows, events, outbox, derived, txRows, txEvents, txOutbox,
             txDerived, snapRows, snapEvents>>

NoRows == [k \in Entities |-> NoState]
Table  == [Entities -> State \cup {NoState}]

DBTypeOK ==
  /\ rows \in Table /\ derived \in Table
  /\ events \in SUBSET EventRow
  /\ outbox \in Seq(OutboxMessage)
  /\ txRows \in [Clients -> Table] /\ txDerived \in [Clients -> Table]
  /\ txEvents \in [Clients -> SUBSET EventRow]
  /\ txOutbox \in [Clients -> Seq(OutboxMessage)]
  /\ snapRows \in [Clients -> Table]
  /\ snapEvents \in [Clients -> SUBSET EventRow]

DBInit ==
  /\ rows = NoRows /\ events = {} /\ outbox = <<>> /\ derived = NoRows
  /\ txRows = [c \in Clients |-> NoRows]
  /\ txEvents = [c \in Clients |-> {}]
  /\ txOutbox = [c \in Clients |-> <<>>]
  /\ txDerived = [c \in Clients |-> NoRows]
  /\ snapRows = [c \in Clients |-> NoRows]
  /\ snapEvents = [c \in Clients |-> {}]

Refs(evs) == {RefOf(e) : e \in evs}

(***************************************************************************)
(* What a SELECT of transaction c sees.                                    *)
(***************************************************************************)
VisibleRow(c, k) ==
  IF txRows[c][k] # NoState THEN txRows[c][k]
  ELSE IF Isolation = "Serializable" THEN snapRows[c][k] ELSE rows[k]

VisibleEvents(c) ==
  txEvents[c] \cup (IF Isolation = "Serializable" THEN snapEvents[c] ELSE events)

(***************************************************************************)
(* A write waits for the open transactions that wrote the same row (or,    *)
(* for an insert, the same primary key).                                   *)
(***************************************************************************)
RowWaitsFor(c, k)     == {d \in Clients \ {c} : txRows[d][k] # NoState}
EventWaitsFor(c, ref) == {d \in Clients \ {c} : ref \in Refs(txEvents[d])}

Conflicts(c, k) ==
  Isolation = "Serializable" /\ txRows[c][k] = NoState /\ rows[k] # snapRows[c][k]

RefTaken(c, ref) == ref \in Refs(events \cup txEvents[c])

(***************************************************************************)
(* Statements and the end of a transaction.                                *)
(***************************************************************************)
BeginTx(c) ==
  /\ IF Isolation = "Serializable"
     THEN /\ snapRows' = [snapRows EXCEPT ![c] = rows]
          /\ snapEvents' = [snapEvents EXCEPT ![c] = events]
     ELSE UNCHANGED <<snapRows, snapEvents>>
  /\ UNCHANGED <<tables, txRows, txEvents, txOutbox, txDerived>>

UpsertRow(c, k, state) ==
  /\ txRows' = [txRows EXCEPT ![c][k] = state]
  /\ UNCHANGED <<tables, txEvents, txOutbox, txDerived, snapRows, snapEvents>>

InsertEvent(c, row) ==
  /\ txEvents' = [txEvents EXCEPT ![c] = @ \cup {row}]
  /\ UNCHANGED <<tables, txRows, txOutbox, txDerived, snapRows, snapEvents>>

(* The statements the hooks of one transition issue: derived rows, outbox. *)
HookWrites(c, k, state, msgs) ==
  /\ txDerived' = [txDerived EXCEPT ![c][k] = state]
  /\ txOutbox' = [txOutbox EXCEPT ![c] = @ \o msgs]
  /\ UNCHANGED <<tables, txRows, txEvents, snapRows, snapEvents>>

ClearTx(c) ==
  /\ txRows' = [txRows EXCEPT ![c] = NoRows]
  /\ txEvents' = [txEvents EXCEPT ![c] = {}]
  /\ txOutbox' = [txOutbox EXCEPT ![c] = <<>>]
  /\ txDerived' = [txDerived EXCEPT ![c] = NoRows]
  /\ snapRows' = [snapRows EXCEPT ![c] = NoRows]
  /\ snapEvents' = [snapEvents EXCEPT ![c] = {}]

Overlay(old, new) ==
  [k \in Entities |-> IF new[k] = NoState THEN old[k] ELSE new[k]]

CommitTx(c) ==
  /\ rows' = Overlay(rows, txRows[c])
  /\ events' = events \cup txEvents[c]
  /\ outbox' = outbox \o txOutbox[c]
  /\ derived' = Overlay(derived, txDerived[c])
  /\ ClearTx(c)

RollbackTx(c) == ClearTx(c) /\ UNCHANGED tables
=============================================================================
