------------------------------ MODULE PSMTypes ------------------------------
(***************************************************************************)
(* The values the state machine library moves between its callers, its     *)
(* memory and its two tables: entity keys, states, inner events, event     *)
(* specs and stored event rows.  Payloads are abstracted: a state's data   *)
(* is the list of the mutations that produced it, so two states with the   *)
(* same data went through the same mutations for the same events.          *)
(***************************************************************************)
EXTENDS Integers, Sequences, FiniteSets

CONSTANTS
  Machines,     \* the state machines that share the database
  Entities,     \* the primary keys, of all the machines together
  MachineOf,    \* [Entities -> Machines]
  Tenants,      \* the values of the one required key that is not primary
  NoTenant,     \* that key left unset by a caller
  Statuses,     \* the status enum; 0 is the zero value, UNSPECIFIED
  EventTypes,   \* the keys of the inner events (PSMEventKey)
  Bodies,       \* the payloads of the inner events
  Mutations,    \* the names of the mutation callbacks
  Messages,     \* the side effects a hook may send
  CallerIds,    \* event IDs the callers choose
  NoId,         \* an EventSpec with EventID ""
  NoCause,      \* an EventSpec with a nil Cause
  NoState       \* no row in the state table

ASSUME ValuesAssumption ==
  /\ MachineOf \in [Entities -> Machines]
  /\ Statuses \subseteq Nat /\ 0 \in Statuses
  /\ NoTenant \notin Tenants
  /\ CallerIds \cap Nat = {}
  /\ NoId \notin CallerIds /\ NoId \notin Nat

(***************************************************************************)
(* Generated IDs (uuid.NewString) are numbers no one has drawn before.     *)
(***************************************************************************)
EventIds == CallerIds \cup Nat

Keys      == [entity : Entities, tenant : Tenants \cup {NoTenant}]
InnerEvent == [type : EventTypes, body : Bodies]

(***************************************************************************)
(* psm_j5pb.Cause: a command, a message, an external event, an initial     *)
(* event, or ("psm") another event, named by its state machine and its ID. *)
(***************************************************************************)
EventRef == [machine : Machines, id : EventIds]

Cause == [type  : {"command", "message", "external", "init", "psm"},
          event : EventRef \cup {NoId}]

CauseOf(t)    == [type |-> t, event |-> NoId]
PSMCause(ref) == [type |-> "psm", event |-> ref]

ASSUME NoCauseAssumption == NoCause \notin Cause

(***************************************************************************)
(* EventSpec: what a caller hands to Transition.  Exactly one of cause,    *)
(* action and message is meant to be set.                                  *)
(***************************************************************************)
EventSpec ==
  [keys : Keys, id : EventIds \cup {NoId}, inner : InnerEvent,
   cause : Cause \cup {NoCause}, action : BOOLEAN, message : BOOLEAN]

State ==
  [keys : Keys, status : Statuses, lastSeq : Nat,
   data : Seq(Mutations \X EventIds)]

EmptyState(keys) ==
  [keys |-> keys, status |-> 0, lastSeq |-> 0, data |-> <<>>]

ASSUME NoStateAssumption == NoState \notin State

(***************************************************************************)
(* A row of the event table: its primary key, the key columns, the         *)
(* sequence column, the inner event and cause of the JSON root, and the    *)
(* snapshot of the state after the event.                                  *)
(***************************************************************************)
EventRow ==
  [id : EventIds, keys : Keys, seq : Nat, inner : InnerEvent,
   cause : Cause, snapshot : State]

RefOf(row) == [machine |-> MachineOf[row.keys.entity], id |-> row.id]

(* An outbox row: a side effect, and the event whose hooks sent it. *)
OutboxMessage == [msg : Messages, cause : EventRef]
=============================================================================
