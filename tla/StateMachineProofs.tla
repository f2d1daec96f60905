------------------------- MODULE StateMachineProofs -------------------------
(***************************************************************************)
(* Proofs about the state machine, for all clients, machines, transitions, *)
(* calls and bounds, and for both isolation levels:                        *)
(*   Spec => []TypeOK, Spec => []RowsAreSnapshots,                         *)
(*   Spec => []RepliesAreSnapshots.                                        *)
(***************************************************************************)
EXTENDS StateMachine, TransitionSetProofs

(***************************************************************************)
(* Types, with what TypeOK leaves open: an item or a pending event works   *)
(* on a state its transaction has in memory.                               *)
(***************************************************************************)
ItemUpTo(n) == {it \in Item : it.op \in {"run", "emit"} => it.act \in 1 .. n}

RunTypeInv ==
  /\ agenda \in [Clients -> Seq(Item)]
  /\ pending \in [Clients -> Pending \cup {NoPending}]
  /\ mem \in [Clients -> Seq(State)]
  /\ ret \in [Clients -> Seq(Reply)]
  /\ \A c \in Clients : agenda[c] \in Seq(ItemUpTo(Len(mem[c])))
  /\ \A c \in Clients : pending[c] # NoPending => pending[c].act \in 1 .. Len(mem[c])

CallTypeOK ==
  /\ pc \in [Clients -> {"idle", "called", "open", "done", "failed", "lost"}]
  /\ error \in [Clients -> Errors]
  /\ asked \in [Clients -> Seq(EventSpec)] /\ job \in [Clients -> Seq(EventSpec)]
  /\ attempts \in [Clients -> Nat]

CountTypeOK ==
  /\ minted \in Nat
  /\ replies \in SUBSET Reply
  /\ calls \in [Clients -> Nat] /\ faults \in Nat

TypeInv == DBTypeOK /\ CallTypeOK /\ RunTypeInv /\ CountTypeOK

(* An event waits for its insert in an open transaction, its item on top. *)
PendingInv ==
  \A c \in Clients : pending[c] # NoPending => pc[c] = "open" /\ agenda[c] # <<>>

(***************************************************************************)
(* An event runs on the state of the entity its spec names; rows, events   *)
(* and states are filed under the entity in their keys.                    *)
(***************************************************************************)
ItemOn(m) ==
  {it \in ItemUpTo(Len(m)) :
     it.op = "run" => it.spec.keys.entity = m[it.act].keys.entity}

FiledByKeys(table) == \A k \in Entities : table[k] # NoState => table[k].keys.entity = k

KeysInv ==
  /\ \A c \in Clients : agenda[c] \in Seq(ItemOn(mem[c]))
  /\ \A c \in Clients : pending[c] # NoPending =>
       pending[c].keys.entity = pending[c].row.keys.entity
  /\ FiledByKeys(rows)
  /\ \A c \in Clients : FiledByKeys(txRows[c]) /\ FiledByKeys(snapRows[c])

(* The events transaction c has written, and the one it is about to. *)
Stored(c) ==
  txEvents[c] \cup IF pending[c] = NoPending THEN {} ELSE {pending[c].row}

(***************************************************************************)
(* Within a transaction too, the row and the events of an entity go        *)
(* together.                                                               *)
(***************************************************************************)
TxRowsAreSnapshots ==
  \A c \in Clients :
    /\ \A k \in Entities : txRows[c][k] # NoState =>
         \E e \in Stored(c) : e.keys.entity = k /\ e.snapshot = txRows[c][k]
    /\ \A e \in Stored(c) : txRows[c][e.keys.entity] # NoState

(***************************************************************************)
(* What a transaction has yet to return answers an event that is committed *)
(* or that it will commit.                                                 *)
(***************************************************************************)
Answers(e, r) ==
  /\ e.id = r.id /\ MachineOf[e.keys.entity] = MachineOf[r.keys.entity]
  /\ e.inner = r.inner /\ e.snapshot = r.state

ReturnsAreSnapshots ==
  \A c \in Clients : \A i \in DOMAIN ret[c] :
    \E e \in events \cup txEvents[c] : Answers(e, ret[c][i])

SnapshotsCommitted == \A c \in Clients : snapEvents[c] \subseteq events

RowInv   == RowsAreSnapshots /\ TxRowsAreSnapshots
ReplyInv == RepliesAreSnapshots /\ ReturnsAreSnapshots /\ SnapshotsCommitted
-----------------------------------------------------------------------------
(***************************************************************************)
(* What the head of an agenda works on.                                    *)
(***************************************************************************)
LEMMA HeadType ==
  ASSUME TypeInv, NEW c \in Clients, agenda[c] # <<>>
  PROVE  /\ Head(agenda[c]) \in ItemUpTo(Len(mem[c]))
         /\ Tail(agenda[c]) \in Seq(ItemUpTo(Len(mem[c])))
BY HeadTailProperties DEF TypeInv, RunTypeInv

LEMMA ItemTypes ==
  ASSUME NEW n \in Nat, NEW it \in ItemUpTo(n)
  PROVE  /\ it.op = "runTx" => it.spec \in EventSpec /\ it.call \in Nat
         /\ it.op = "load" => it.spec \in PreparedSpec /\ it.call \in Nat
         /\ it.op = "run" =>
              it.spec \in PreparedSpec /\ it.call \in Nat /\ it.act \in 1 .. n
         /\ it.op = "emit" =>
              it.ref \in EventRef /\ it.tr \in Transition /\ it.act \in 1 .. n
BY DEF ItemUpTo, Item

LEMMA RunTypes ==
  ASSUME TypeInv, NEW c \in Clients, Next0(c, "run")
  PROVE  /\ Head(agenda[c]).spec \in PreparedSpec
         /\ Head(agenda[c]).call \in Nat
         /\ Head(agenda[c]).act \in 1 .. Len(mem[c])
         /\ StateOf(c) \in State
         /\ TransitionOf(c) \in Transition \cup {NoTransition}
         /\ TransitionOf(c) # NoTransition => NewStateOf(c) \in State
<1>1. mem[c] \in Seq(State) /\ Len(mem[c]) \in Nat
  <2>1. mem \in [Clients -> Seq(State)]
    BY DEF TypeInv, RunTypeInv
  <2> QED BY <2>1, LenProperties
<1>2. /\ Head(agenda[c]).spec \in PreparedSpec
      /\ Head(agenda[c]).call \in Nat
      /\ Head(agenda[c]).act \in 1 .. Len(mem[c])
  BY <1>1, HeadType, ItemTypes DEF Next0
<1>3. StateOf(c) \in State
  BY <1>1, <1>2, ElementOfSeq DEF StateOf
<1>4. /\ MachineOf[StateOf(c).keys.entity] \in Machines
      /\ StateOf(c).status \in Statuses
      /\ Head(agenda[c]).spec.inner.type \in EventTypes
      /\ Head(agenda[c]).spec.id \in EventIds
  BY <1>2, <1>3, ValuesAssumption
  DEF State, Keys, PreparedSpec, EventSpec, InnerEvent
<1>5. TransitionOf(c) \in Transition \cup {NoTransition}
  BY <1>4, TransitionsAssumption DEF TransitionOf
<1>6. TransitionOf(c) # NoTransition => NewStateOf(c) \in State
  BY <1>3, <1>4, <1>5, AfterType DEF NewStateOf
<1> QED BY <1>2, <1>3, <1>5, <1>6

-----------------------------------------------------------------------------
(***************************************************************************)
(* The statements of the database keep its types.                          *)
(***************************************************************************)
LEMMA BeginTypes ==
  ASSUME DBTypeOK, NEW c \in Clients, BeginTx(c)
  PROVE  DBTypeOK'
BY DEF DBTypeOK, BeginTx, tables

LEMMA UpsertTypes ==
  ASSUME DBTypeOK, NEW c \in Clients, NEW k \in Entities, NEW state \in State,
         UpsertRow(c, k, state)
  PROVE  DBTypeOK'
<1>1. txRows' \in [Clients -> Table]
  BY DEF DBTypeOK, UpsertRow, Table
<1> QED BY <1>1 DEF DBTypeOK, UpsertRow, tables

LEMMA InsertTypes ==
  ASSUME DBTypeOK, NEW c \in Clients, NEW row \in EventRow, InsertEvent(c, row)
  PROVE  DBTypeOK'
BY DEF DBTypeOK, InsertEvent, tables

LEMMA HookTypes ==
  ASSUME DBTypeOK, NEW c \in Clients, NEW k \in Entities,
         NEW state \in State \cup {NoState}, NEW msgs \in Seq(OutboxMessage),
         HookWrites(c, k, state, msgs)
  PROVE  DBTypeOK'
<1>1. txDerived' \in [Clients -> Table]
  BY DEF DBTypeOK, HookWrites, Table
<1>2. txOutbox' \in [Clients -> Seq(OutboxMessage)]
  <2>1. txOutbox[c] \o msgs \in Seq(OutboxMessage)
    BY ConcatProperties DEF DBTypeOK
  <2> QED BY <2>1 DEF DBTypeOK, HookWrites
<1> QED BY <1>1, <1>2 DEF DBTypeOK, HookWrites, tables

LEMMA ClearTypes ==
  ASSUME DBTypeOK, NEW c \in Clients, ClearTx(c),
         rows' \in Table, derived' \in Table, events' \in SUBSET EventRow,
         outbox' \in Seq(OutboxMessage)
  PROVE  DBTypeOK'
<1>1. NoRows \in Table
  BY DEF NoRows, Table
<1> QED BY <1>1 DEF DBTypeOK, ClearTx

LEMMA RollbackTypes ==
  ASSUME DBTypeOK, NEW c \in Clients, RollbackTx(c)
  PROVE  DBTypeOK'
BY ClearTypes DEF DBTypeOK, RollbackTx, tables

LEMMA CommitTypes ==
  ASSUME DBTypeOK, NEW c \in Clients, CommitTx(c)
  PROVE  DBTypeOK'
<1>1. rows' \in Table /\ derived' \in Table
  BY DEF DBTypeOK, CommitTx, Overlay, Table
<1>2. events' \in SUBSET EventRow
  BY DEF DBTypeOK, CommitTx
<1>3. outbox' \in Seq(OutboxMessage)
  BY ConcatProperties DEF DBTypeOK, CommitTx
<1> QED BY <1>1, <1>2, <1>3, ClearTypes DEF CommitTx

LEMMA SameDBTypes ==
  ASSUME DBTypeOK, UNCHANGED dbVars
  PROVE  DBTypeOK'
BY DEF DBTypeOK, dbVars

(***************************************************************************)
(* What an attempt holds in memory.                                        *)
(***************************************************************************)
LEMMA DropTypes ==
  ASSUME RunTypeInv, NEW c \in Clients, DropRun(c)
  PROVE  RunTypeInv'
<1>1. /\ agenda' = [agenda EXCEPT ![c] = <<>>] /\ mem' = [mem EXCEPT ![c] = <<>>]
      /\ pending' = [pending EXCEPT ![c] = NoPending] /\ ret' = [ret EXCEPT ![c] = <<>>]
  BY DEF DropRun
<1>2. \A d \in Clients : agenda'[d] \in Seq(ItemUpTo(Len(mem'[d])))
  BY <1>1, EmptySeq DEF RunTypeInv
<1>3. \A d \in Clients : pending'[d] # NoPending => pending'[d].act \in 1 .. Len(mem'[d])
  BY <1>1 DEF RunTypeInv
<1> QED BY <1>1, <1>2, <1>3, EmptySeq DEF RunTypeInv

LEMMA SameRunTypes ==
  ASSUME RunTypeInv, UNCHANGED runVars
  PROVE  RunTypeInv'
BY DEF RunTypeInv, runVars

(* Items stay valid while the memory of states grows. *)
LEMMA ItemsGrow ==
  ASSUME NEW m \in Nat, NEW n \in Nat, m <= n
  PROVE  ItemUpTo(m) \subseteq ItemUpTo(n) /\ ItemUpTo(n) \subseteq Item
BY DEF ItemUpTo

LEMMA PushTypes ==
  ASSUME RunTypeInv, NEW c \in Clients, agenda[c] # <<>>,
         NEW n \in Nat, Len(mem[c]) <= n,
         NEW items \in Seq(ItemUpTo(n)), Push(c, items)
  PROVE  /\ agenda' \in [Clients -> Seq(Item)]
         /\ agenda'[c] \in Seq(ItemUpTo(n))
         /\ \A d \in Clients \ {c} : agenda'[d] = agenda[d]
<1>1. Len(mem[c]) \in Nat
  BY DEF RunTypeInv
<1>2. Tail(agenda[c]) \in Seq(ItemUpTo(Len(mem[c])))
  BY HeadTailProperties DEF RunTypeInv
<1>3. Tail(agenda[c]) \in Seq(ItemUpTo(n))
  BY <1>1, <1>2, ItemsGrow, SeqMonotonic
<1>4. items \o Tail(agenda[c]) \in Seq(ItemUpTo(n))
  BY <1>3, ConcatProperties
<1>5. items \o Tail(agenda[c]) \in Seq(Item)
  BY <1>4, ItemsGrow, SeqMonotonic
<1>6. agenda' = [agenda EXCEPT ![c] = items \o Tail(agenda[c])]
  BY DEF Push, RunTypeInv
<1> HIDE DEF Push
<1> QED BY <1>4, <1>5, <1>6 DEF RunTypeInv

LEMMA PushOnlyTypes ==
  ASSUME RunTypeInv, NEW c \in Clients, agenda[c] # <<>>,
         NEW items \in Seq(ItemUpTo(Len(mem[c]))), Push(c, items), UNCHANGED mem,
         \/ UNCHANGED pending
         \/ pending' = [pending EXCEPT ![c] = NoPending],
         ret' \in [Clients -> Seq(Reply)]
  PROVE  RunTypeInv'
<1>1. Len(mem[c]) \in Nat /\ Len(mem[c]) <= Len(mem[c])
  BY DEF RunTypeInv
<1>2. /\ agenda' \in [Clients -> Seq(Item)]
      /\ agenda'[c] \in Seq(ItemUpTo(Len(mem[c])))
      /\ \A d \in Clients \ {c} : agenda'[d] = agenda[d]
  BY <1>1, PushTypes
<1> QED BY <1>2 DEF RunTypeInv

LEMMA PushAndLoadTypes ==
  ASSUME RunTypeInv, NEW c \in Clients, agenda[c] # <<>>, NEW state \in State,
         mem' = [mem EXCEPT ![c] = Append(@, state)],
         NEW items \in Seq(ItemUpTo(Len(mem[c]) + 1)), Push(c, items),
         UNCHANGED <<pending, ret>>
  PROVE  RunTypeInv'
<1>1. /\ mem[c] \in Seq(State) /\ Len(mem[c]) \in Nat
      /\ Len(mem[c]) + 1 \in Nat /\ Len(mem[c]) <= Len(mem[c]) + 1
  BY DEF RunTypeInv
<1>2. /\ agenda' \in [Clients -> Seq(Item)]
      /\ agenda'[c] \in Seq(ItemUpTo(Len(mem[c]) + 1))
      /\ \A d \in Clients \ {c} : agenda'[d] = agenda[d]
  BY <1>1, PushTypes
<1>3. Append(mem[c], state) \in Seq(State) /\ Len(Append(mem[c], state)) = Len(mem[c]) + 1
  BY <1>1, AppendProperties
<1>4. mem' = [mem EXCEPT ![c] = Append(mem[c], state)]
  BY DEF RunTypeInv
<1>5. /\ mem' \in [Clients -> Seq(State)] /\ Len(mem'[c]) = Len(mem[c]) + 1
      /\ \A d \in Clients \ {c} : mem'[d] = mem[d]
  BY <1>3, <1>4 DEF RunTypeInv
<1>6. \A d \in Clients : agenda'[d] \in Seq(ItemUpTo(Len(mem'[d])))
  BY <1>2, <1>5 DEF RunTypeInv
<1>7. \A d \in Clients : pending'[d] # NoPending => pending'[d].act \in 1 .. Len(mem'[d])
  BY <1>1, <1>5 DEF RunTypeInv
<1> QED BY <1>2, <1>5, <1>6, <1>7 DEF RunTypeInv

LEMMA WriteBackTypes ==
  ASSUME CallTypeOK, NEW c \in Clients, NEW i \in Nat, NEW spec \in EventSpec,
         WriteBack(c, i, spec)
  PROVE  job' \in [Clients -> Seq(EventSpec)]
<1>1. CASE i \in DOMAIN job[c]
  <2>1. job[c] \in Seq(EventSpec) /\ i \in 1 .. Len(job[c])
    BY <1>1 DEF CallTypeOK
  <2>2. [job[c] EXCEPT ![i] = spec] \in Seq(EventSpec)
    BY <2>1, ExceptSeq
  <2>3. job' = [job EXCEPT ![c] = [job[c] EXCEPT ![i] = spec]]
    BY <1>1 DEF WriteBack, CallTypeOK
  <2> QED BY <2>2, <2>3 DEF CallTypeOK
<1>2. CASE i \notin DOMAIN job[c]
  BY <1>2 DEF WriteBack, CallTypeOK
<1> QED BY <1>1, <1>2

LEMMA AbortTypes ==
  ASSUME TypeInv, NEW c \in Clients, NEW why \in Errors, Abort(c, why),
         job' \in [Clients -> Seq(EventSpec)], minted' \in Nat, faults' \in Nat
  PROVE  TypeInv'
<1>1. DBTypeOK'
  BY RollbackTypes DEF Abort, TypeInv
<1>2. RunTypeInv'
  BY DropTypes DEF Abort, TypeInv
<1>3. CallTypeOK' /\ CountTypeOK'
  BY DEF Abort, TypeInv, CallTypeOK, CountTypeOK
<1> QED BY <1>1, <1>2, <1>3 DEF TypeInv

LEMMA RetryTypes ==
  ASSUME TypeInv, NEW c \in Clients, Retry(c)
  PROVE  TypeInv'
<1>1. DBTypeOK'
  BY RollbackTypes DEF Retry, TypeInv
<1>2. RunTypeInv'
  BY DropTypes DEF Retry, TypeInv
<1>3. CallTypeOK' /\ CountTypeOK'
  BY DEF Retry, TypeInv, CallTypeOK, CountTypeOK, Errors
<1> QED BY <1>1, <1>2, <1>3 DEF TypeInv

-----------------------------------------------------------------------------
(***************************************************************************)
(* Every action keeps the types.                                           *)
(***************************************************************************)
LEMMA AskTypes ==
  ASSUME TypeInv, NEW c \in Clients, NEW specs \in Seq(EventSpec), Ask(c, specs),
         asked' \in [Clients -> Seq(EventSpec)]
  PROVE  TypeInv'
<1>1. DBTypeOK' /\ RunTypeInv'
  BY SameDBTypes, SameRunTypes DEF Ask, TypeInv
<1>2. CallTypeOK'
  BY DEF Ask, TypeInv, CallTypeOK, Errors
<1>3. CountTypeOK'
  BY DEF Ask, TypeInv, CountTypeOK
<1> QED BY <1>1, <1>2, <1>3 DEF TypeInv

LEMMA CallTypes ==
  ASSUME TypeInv, NEW c \in Clients, Call(c) \/ Resend(c)
  PROVE  TypeInv'
<1>1. CASE Call(c)
  <2>1. PICK specs \in Jobs : Ask(c, specs) /\ asked' = [asked EXCEPT ![c] = specs]
    BY <1>1 DEF Call
  <2>2. specs \in Seq(EventSpec)
    BY JobsAssumption
  <2>3. asked' \in [Clients -> Seq(EventSpec)]
    BY <2>1, <2>2 DEF TypeInv, CallTypeOK
  <2> QED BY <2>1, <2>2, <2>3, AskTypes
<1>2. CASE Resend(c)
  BY <1>2, AskTypes DEF Resend, TypeInv, CallTypeOK
<1> QED BY <1>1, <1>2

LEMMA OpenTypes ==
  ASSUME TypeInv, NEW c \in Clients, Open(c)
  PROVE  TypeInv'
<1> DEFINE items == [i \in 1 .. Len(job[c]) |-> RunTx(job[c][i], i)]
<1>1. DBTypeOK'
  BY BeginTypes DEF Open, TypeInv
<1>2. CallTypeOK' /\ CountTypeOK'
  BY DEF Open, TypeInv, CallTypeOK, CountTypeOK
<1>3. job[c] \in Seq(EventSpec) /\ Len(job[c]) \in Nat
  BY DEF TypeInv, CallTypeOK
<1>4. \A i \in 1 .. Len(job[c]) : RunTx(job[c][i], i) \in ItemUpTo(Len(mem[c]))
  BY <1>3 DEF RunTx, ItemUpTo, Item
<1>5. items \in Seq(ItemUpTo(Len(mem[c])))
  BY <1>3, <1>4, IsASeq
<1>6. items \in Seq(Item)
  BY <1>5, SeqMonotonic DEF ItemUpTo
<1>7. agenda' = [agenda EXCEPT ![c] = items] /\ UNCHANGED <<pending, mem, ret>>
  BY DEF Open
<1> HIDE DEF items
<1>8. RunTypeInv'
  BY <1>5, <1>6, <1>7 DEF TypeInv, RunTypeInv
<1> QED BY <1>1, <1>2, <1>8 DEF TypeInv

LEMMA WithCauseType ==
  ASSUME NEW spec \in EventSpec
  PROVE  /\ WithCause(spec) \in EventSpec
         /\ ValidSpec(spec) => WithCause(spec).cause # NoCause
         /\ WithCause(spec).id = spec.id
         /\ WithCause(spec).inner = spec.inner
         /\ WithCause(spec).keys = spec.keys
<1>1. \A t \in {"command", "message"} : CauseOf(t) \in Cause /\ CauseOf(t) # NoCause
  BY CauseTypes, NoCauseAssumption
<1> QED BY <1>1 DEF WithCause, ValidSpec, EventSpec

LEMMA PreparedType ==
  ASSUME NEW spec \in EventSpec, ValidSpec(spec), minted \in Nat
  PROVE  /\ WithID(WithCause(spec)) \in PreparedSpec
         /\ WithID(WithCause(spec)) \in EventSpec
         /\ WithID(WithCause(spec)).inner = spec.inner
         /\ WithID(WithCause(spec)).keys = spec.keys
<1> DEFINE with == WithCause(spec)
<1>1. with \in EventSpec /\ with.cause # NoCause /\ with.inner = spec.inner /\ with.keys = spec.keys
  BY WithCauseType
<1>2. minted + 1 \in EventIds /\ minted + 1 # NoId
  BY ValuesAssumption DEF EventIds
<1> HIDE DEF with
<1>3. WithID(with) \in EventSpec /\ WithID(with).cause # NoCause /\ WithID(with).id # NoId
  BY <1>1, <1>2 DEF WithID, EventSpec
<1>4. WithID(with).inner = with.inner /\ WithID(with).keys = with.keys
  BY <1>1 DEF WithID, EventSpec
<1> QED BY <1>1, <1>3, <1>4 DEF PreparedSpec, with

LEMMA InvalidSpecTypes ==
  ASSUME TypeInv, NEW c \in Clients, InvalidSpec(c)
  PROVE  TypeInv'
<1>1. Head(agenda[c]).spec \in EventSpec /\ Head(agenda[c]).call \in Nat
  <2>1. Len(mem[c]) \in Nat
    BY DEF TypeInv, RunTypeInv
  <2> QED BY <2>1, HeadType, ItemTypes DEF InvalidSpec, Next0
<1>2. job' \in [Clients -> Seq(EventSpec)]
  BY <1>1, WithCauseType, WriteBackTypes DEF InvalidSpec, TypeInv
<1>3. minted' \in Nat /\ faults' \in Nat /\ Abort(c, "invalid spec")
  BY DEF InvalidSpec, TypeInv, CountTypeOK
<1> QED BY <1>2, <1>3, AbortTypes DEF Errors

LEMMA VisibleTypes ==
  ASSUME TypeInv, NEW c \in Clients
  PROVE  /\ VisibleEvents(c) \subseteq EventRow
         /\ \A k \in Entities : VisibleRow(c, k) \in State \cup {NoState}
BY DEF TypeInv, DBTypeOK, VisibleEvents, VisibleRow, Table

LEMMA ReturnTypes ==
  ASSUME RunTypeInv, NEW c \in Clients, NEW i \in Nat, NEW reply \in Reply,
         Return(c, i, reply)
  PROVE  ret' \in [Clients -> Seq(Reply)]
<1>1. Append(ret[c], reply) \in Seq(Reply)
  BY AppendProperties DEF RunTypeInv
<1>2. ret' = IF i = 0 THEN ret ELSE [ret EXCEPT ![c] = Append(ret[c], reply)]
  BY DEF Return, RunTypeInv
<1> QED BY <1>1, <1>2 DEF RunTypeInv

LEMMA UniqueCheckTypes ==
  ASSUME TypeInv, NEW c \in Clients, UniqueCheck(c)
  PROVE  TypeInv'
<1> DEFINE it    == Head(agenda[c])
           spec  == WithID(WithCause(it.spec))
           ref   == [machine |-> MachineOf[spec.keys.entity], id |-> spec.id]
           found == {e \in VisibleEvents(c) : RefOf(e) = ref}
           item  == [op |-> "load", spec |-> spec, call |-> it.call]
           Fresh == Push(c, <<item>>) /\ UNCHANGED <<dbVars, pc, error, asked, attempts,
                                                    pending, mem, ret, replies, calls>>
           reply(e) == [id |-> e.id, inner |-> spec.inner, keys |-> spec.keys,
                        state |-> Answer(c, e)]
           Repeat(e) == /\ e.inner = spec.inner /\ Push(c, <<>>)
                        /\ Return(c, it.call, reply(e))
                        /\ UNCHANGED <<dbVars, pc, error, asked, attempts, pending,
                                      mem, replies, calls>>
<1>1. agenda[c] # <<>> /\ it.op = "runTx" /\ ValidSpec(it.spec)
  BY DEF UniqueCheck, Next0
<1>2. mem[c] \in Seq(State) /\ Len(mem[c]) \in Nat
  BY DEF TypeInv, RunTypeInv
<1>3. it.spec \in EventSpec /\ it.call \in Nat
  BY <1>1, <1>2, HeadType, ItemTypes
<1>4. spec \in PreparedSpec /\ spec \in EventSpec
  BY <1>1, <1>3, PreparedType DEF TypeInv, CountTypeOK
<1>5. WriteBack(c, it.call, spec) /\ DrawIDs(IF it.spec.id = NoId THEN 1 ELSE 0)
      /\ UNCHANGED faults
  BY DEF UniqueCheck
<1>6. Fresh \/ (\E e \in found : Repeat(e)) \/ Abort(c, "duplicate ID")
  BY DEF UniqueCheck
<1> HIDE DEF spec
<1>7. job' \in [Clients -> Seq(EventSpec)] /\ minted' \in Nat /\ faults' \in Nat
  BY <1>3, <1>4, <1>5, WriteBackTypes DEF TypeInv, CountTypeOK, DrawIDs
<1>8. CASE Fresh
  <2>1. item \in ItemUpTo(Len(mem[c]))
    BY <1>3, <1>4 DEF ItemUpTo, Item
  <2>2. <<item>> \in Seq(ItemUpTo(Len(mem[c])))
    BY <2>1
  <2> HIDE DEF item
  <2>3. Push(c, <<item>>) /\ UNCHANGED <<mem, pending, ret>>
    BY <1>8
  <2>4. RunTypeInv'
    BY <1>1, <2>2, <2>3, PushOnlyTypes DEF TypeInv, RunTypeInv
  <2>5. CallTypeOK' /\ CountTypeOK' /\ DBTypeOK'
    BY <1>7, <1>8, SameDBTypes DEF TypeInv, CallTypeOK, CountTypeOK
  <2> QED BY <2>4, <2>5 DEF TypeInv
<1>9. CASE \E e \in found : Repeat(e)
  <2>1. PICK e \in found : Repeat(e)
    BY <1>9
  <2>2. e \in EventRow
    BY VisibleTypes
  <2>3. reply(e) \in Reply
    BY <1>4, <2>2 DEF Reply, EventRow, EventSpec, Answer
  <2> HIDE DEF reply
  <2>4. ret' \in [Clients -> Seq(Reply)]
    BY <1>3, <2>1, <2>3, ReturnTypes DEF TypeInv
  <2>5. Push(c, <<>>) /\ UNCHANGED <<mem, pending>>
    BY <2>1
  <2>6. RunTypeInv'
    BY <1>1, <2>4, <2>5, EmptySeq, PushOnlyTypes DEF TypeInv
  <2>7. CallTypeOK' /\ CountTypeOK' /\ DBTypeOK'
    BY <1>7, <2>1, SameDBTypes DEF TypeInv, CallTypeOK, CountTypeOK
  <2> QED BY <2>6, <2>7 DEF TypeInv
<1>10. CASE Abort(c, "duplicate ID")
  BY <1>7, <1>10, AbortTypes DEF Errors
<1> QED BY <1>6, <1>8, <1>9, <1>10

LEMMA InitialRunType ==
  ASSUME NEW keys \in Keys, NEW act \in Nat \ {0}, minted \in Nat
  PROVE  /\ InitialRun(keys, act) \in Seq(ItemUpTo(act))
         /\ Len(InitialRun(keys, act)) \in Nat
<1> DEFINE inner == InitialEvent[MachineOf[keys.entity]]
           spec  == Spec0(keys, minted + 1, inner, CauseOf("init"))
<1>1. CASE inner = NoInner
  BY <1>1, EmptySeq DEF InitialRun
<1>2. CASE inner # NoInner
  <2>1. inner \in InnerEvent
    BY <1>2, JobsAssumption, ValuesAssumption DEF Keys
  <2>2. CauseOf("init") \in Cause /\ CauseOf("init") # NoCause
    BY CauseTypes, NoCauseAssumption
  <2>3. minted + 1 \in EventIds /\ minted + 1 # NoId
    BY ValuesAssumption DEF EventIds
  <2>4. spec \in PreparedSpec
    BY <2>1, <2>2, <2>3 DEF Spec0, PreparedSpec, EventSpec
  <2> HIDE DEF spec
  <2>5. Run(spec, 0, act) \in ItemUpTo(act)
    BY <2>4 DEF Run, ItemUpTo, Item
  <2>6. InitialRun(keys, act) = <<Run(spec, 0, act)>>
    BY <1>2 DEF InitialRun, spec
  <2> QED BY <2>5, <2>6
<1> QED BY <1>1, <1>2

LEMMA RunItemType ==
  ASSUME NEW spec \in PreparedSpec, NEW call \in Nat, NEW act \in Nat \ {0}
  PROVE  Run(spec, call, act) \in ItemUpTo(act)
BY DEF Run, ItemUpTo, Item

LEMMA LoadTypes ==
  ASSUME TypeInv, NEW c \in Clients, Load(c)
  PROVE  TypeInv'
<1> DEFINE it    == Head(agenda[c])
           keys  == it.spec.keys
           state == VisibleRow(c, keys.entity)
           act   == Len(mem[c]) + 1
           init  == InitialRun(keys, act)
           run   == Run(it.spec, it.call, act)
           spec  == [it.spec EXCEPT !.keys = state.keys]
           New   == /\ state = NoState
                    /\ mem' = [mem EXCEPT ![c] = Append(@, EmptyState(keys))]
                    /\ Push(c, Append(init, run)) /\ DrawIDs(Len(init))
                    /\ UNCHANGED <<dbVars, callVars, pending, ret, replies, calls>>
           Old   == /\ state # NoState /\ WriteBack(c, it.call, spec)
                    /\ Push(c, <<run>>)
                    /\ mem' = [mem EXCEPT ![c] = Append(@, state)]
                    /\ UNCHANGED <<dbVars, pc, error, asked, attempts, pending, ret,
                                  minted, replies, calls>>
           Fail(why) == Abort(c, why) /\ UNCHANGED <<job, minted>>
<1>1. /\ agenda[c] # <<>> /\ it.op = "load" /\ UNCHANGED faults
      /\ New \/ Old \/ Fail("missing key") \/ Fail("key mismatch")
  BY DEF Load, Next0
<1>2. Len(mem[c]) \in Nat /\ act \in Nat \ {0}
  BY DEF TypeInv, RunTypeInv
<1>3. it.spec \in PreparedSpec /\ it.call \in Nat
  BY <1>1, <1>2, HeadType, ItemTypes
<1>4. keys \in Keys /\ keys.entity \in Entities /\ it.spec \in EventSpec
  BY <1>3 DEF PreparedSpec, EventSpec, Keys
<1>5. run \in ItemUpTo(act)
  BY <1>2, <1>3, RunItemType
<1>6. state \in State \cup {NoState}
  BY <1>4, VisibleTypes
<1> HIDE DEF keys, run, state
<1>7. CASE New
  <2>1. init \in Seq(ItemUpTo(act)) /\ Len(init) \in Nat
    BY <1>2, <1>4, InitialRunType DEF TypeInv, CountTypeOK
  <2>2. Append(init, run) \in Seq(ItemUpTo(act))
    BY <1>5, <2>1, AppendProperties
  <2> HIDE DEF init
  <2>3. RunTypeInv'
    BY <1>1, <1>4, <1>7, <2>2, EmptyStateType, PushAndLoadTypes DEF TypeInv
  <2>4. DBTypeOK' /\ CallTypeOK'
    BY <1>7, SameDBTypes DEF TypeInv, CallTypeOK, callVars
  <2>5. CountTypeOK'
    BY <1>1, <1>7, <2>1 DEF TypeInv, CountTypeOK, DrawIDs
  <2> QED BY <2>3, <2>4, <2>5 DEF TypeInv
<1>8. CASE Old
  <2>1. state \in State
    BY <1>6, <1>8
  <2>2. spec \in EventSpec
    BY <1>4, <2>1 DEF EventSpec, State
  <2>3. <<run>> \in Seq(ItemUpTo(act))
    BY <1>5
  <2>4. RunTypeInv'
    BY <1>1, <1>8, <2>1, <2>3, PushAndLoadTypes DEF TypeInv
  <2> HIDE DEF spec
  <2>5. job' \in [Clients -> Seq(EventSpec)]
    BY <1>3, <1>8, <2>2, WriteBackTypes DEF TypeInv
  <2>6. DBTypeOK' /\ CallTypeOK' /\ CountTypeOK'
    BY <1>1, <1>8, <2>5, SameDBTypes DEF TypeInv, CallTypeOK, CountTypeOK
  <2> QED BY <2>4, <2>6 DEF TypeInv
<1>9. ASSUME NEW why \in Errors, Fail(why)
      PROVE  TypeInv'
  BY <1>1, <1>9, AbortTypes DEF TypeInv, CallTypeOK, CountTypeOK
<1> QED BY <1>1, <1>7, <1>8, <1>9 DEF Errors

LEMMA RunFailsTypes ==
  ASSUME TypeInv, NEW c \in Clients, RunFails(c)
  PROVE  TypeInv'
<1>1. PICK why \in Errors : Abort(c, why)
  BY DEF RunFails, Errors
<1>2. UNCHANGED <<job, minted, faults>>
  BY DEF RunFails
<1> QED BY <1>1, <1>2, AbortTypes DEF TypeInv, CallTypeOK, CountTypeOK

LEMMA UpsertActionTypes ==
  ASSUME TypeInv, NEW c \in Clients, Upsert(c)
  PROVE  TypeInv' /\ pending'[c] \in Pending
<1> DEFINE it   == Head(agenda[c])
           tr   == TransitionOf(c)
           new  == NewStateOf(c)
           row  == [id |-> it.spec.id, keys |-> new.keys,
                    seq |-> NextSequence(StateOf(c)), inner |-> it.spec.inner,
                    cause |-> it.spec.cause, snapshot |-> new]
           p    == [row |-> row, keys |-> it.spec.keys, tr |-> tr, call |-> it.call,
                    act |-> it.act]
<1>1. /\ Next0(c, "run") /\ tr # NoTransition
      /\ UpsertRow(c, new.keys.entity, new)
      /\ mem' = [mem EXCEPT ![c][it.act] = new]
      /\ pending' = [pending EXCEPT ![c] = p]
      /\ UNCHANGED <<callVars, agenda, ret, minted, replies, calls, faults>>
  BY DEF Upsert, Runnable, Remember
<1>2. /\ it.spec \in PreparedSpec /\ it.call \in Nat
      /\ it.act \in 1 .. Len(mem[c]) /\ it.act \in Nat \ {0}
      /\ StateOf(c) \in State /\ tr \in Transition /\ new \in State
  <2>1. Len(mem[c]) \in Nat
    BY DEF TypeInv, RunTypeInv
  <2> QED BY <1>1, <2>1, RunTypes
<1>3. NextSequence(StateOf(c)) \in Nat
  BY <1>2, SequencedType
<1>4. /\ it.spec.id \in EventIds /\ it.spec.inner \in InnerEvent
      /\ it.spec.cause \in Cause /\ it.spec.keys \in Keys
      /\ new.keys \in Keys /\ new.keys.entity \in Entities
  BY <1>2 DEF PreparedSpec, EventSpec, State, Keys
<1> HIDE DEF new, tr, it
<1>5. row \in EventRow
  BY <1>2, <1>3, <1>4 DEF EventRow
<1>6. p \in Pending
  BY <1>2, <1>4, <1>5 DEF Pending
<1>7. DBTypeOK'
  BY <1>1, <1>2, <1>4, UpsertTypes DEF TypeInv
<1>8. [mem[c] EXCEPT ![it.act] = new] \in Seq(State)
      /\ Len([mem[c] EXCEPT ![it.act] = new]) = Len(mem[c])
  BY <1>2, ExceptSeq DEF TypeInv, RunTypeInv
<1>9. mem' = [mem EXCEPT ![c] = [mem[c] EXCEPT ![it.act] = new]]
  BY <1>1 DEF TypeInv, RunTypeInv
<1>10. mem' \in [Clients -> Seq(State)] /\ \A d \in Clients : Len(mem'[d]) = Len(mem[d])
  BY <1>8, <1>9 DEF TypeInv, RunTypeInv
<1>11. pending' \in [Clients -> Pending \cup {NoPending}] /\ pending'[c] = p
  BY <1>1, <1>6 DEF TypeInv, RunTypeInv
<1>12. \A d \in Clients : pending'[d] # NoPending => pending'[d].act \in 1 .. Len(mem'[d])
  BY <1>1, <1>2, <1>10, <1>11 DEF TypeInv, RunTypeInv
<1>13. RunTypeInv'
  BY <1>1, <1>10, <1>11, <1>12 DEF TypeInv, RunTypeInv
<1>14. CallTypeOK' /\ CountTypeOK'
  BY <1>1 DEF TypeInv, CallTypeOK, CountTypeOK, callVars
<1> QED BY <1>6, <1>7, <1>11, <1>13, <1>14 DEF TypeInv

LEMMA LinkRunsType ==
  ASSUME NEW p \in Pending, NEW n \in Nat
  PROVE  LinkRuns(p) \in Seq(ItemUpTo(n))
<1>1. p.tr.links \in Seq(Link) /\ Len(p.tr.links) \in Nat
  BY DEF Pending, Transition
<1>2. RefOf(p.row) \in EventRef
  BY RefType DEF Pending
<1>3. PSMCause(RefOf(p.row)) \in Cause
  BY <1>2, CauseTypes
<1>4. ASSUME NEW i \in 1 .. Len(p.tr.links)
      PROVE  RunTx(Spec0(p.tr.links[i].keys, NoId, p.tr.links[i].inner,
                         PSMCause(RefOf(p.row))), 0) \in ItemUpTo(n)
  <2>1. p.tr.links[i] \in Link
    BY <1>1
  <2> QED BY <1>3, <2>1 DEF Link, RunTx, Spec0, EventSpec, ItemUpTo, Item
<1> QED BY <1>1, <1>4, IsASeq DEF LinkRuns

LEMMA InsertActionTypes ==
  ASSUME TypeInv, NEW c \in Clients, agenda[c] # <<>>, Insert(c)
  PROVE  TypeInv'
<1> DEFINE p     == pending[c]
           emit  == [op |-> "emit", ref |-> RefOf(p.row), tr |-> p.tr, act |-> p.act]
           reply == [id |-> p.row.id, inner |-> p.row.inner, keys |-> p.keys,
                     state |-> p.row.snapshot]
           Done  == /\ InsertEvent(c, p.row)
                    /\ pending' = [pending EXCEPT ![c] = NoPending]
                    /\ Push(c, Append(LinkRuns(p), emit))
                    /\ Return(c, p.call, reply)
                    /\ UNCHANGED <<pc, error, asked, attempts, mem, replies, calls>>
<1>1. /\ p # NoPending /\ UNCHANGED <<minted, faults, job>>
      /\ Done \/ Abort(c, "unique violation")
  BY DEF Insert
<1>2. p \in Pending /\ p.act \in 1 .. Len(mem[c]) /\ Len(mem[c]) \in Nat
  <2>1. p \in Pending /\ p.act \in 1 .. Len(mem[c])
    BY <1>1 DEF TypeInv, RunTypeInv
  <2>2. Len(mem[c]) \in Nat
    BY DEF TypeInv, RunTypeInv
  <2> QED BY <2>1, <2>2
<1>3. p.row \in EventRow /\ p.keys \in Keys /\ p.tr \in Transition /\ p.call \in Nat
      /\ p.act \in Nat \ {0}
  BY <1>2 DEF Pending
<1>4. CASE Done
  <2>1. emit \in ItemUpTo(Len(mem[c]))
    BY <1>2, <1>3, RefType DEF ItemUpTo, Item
  <2>2. LinkRuns(p) \in Seq(ItemUpTo(Len(mem[c])))
    BY <1>2, LinkRunsType
  <2> HIDE DEF p, emit
  <2>3. Append(LinkRuns(p), emit) \in Seq(ItemUpTo(Len(mem[c])))
    BY <2>1, <2>2, AppendProperties
  <2>4. reply \in Reply
    BY <1>3 DEF Reply, EventRow
  <2> HIDE DEF reply
  <2>5. ret' \in [Clients -> Seq(Reply)]
    BY <1>3, <1>4, <2>4, ReturnTypes DEF TypeInv
  <2>6. RunTypeInv'
    BY <1>4, <2>3, <2>5, PushOnlyTypes DEF TypeInv
  <2>7. DBTypeOK'
    BY <1>3, <1>4, InsertTypes DEF TypeInv
  <2>8. CallTypeOK' /\ CountTypeOK'
    BY <1>1, <1>4 DEF TypeInv, CallTypeOK, CountTypeOK
  <2> QED BY <2>6, <2>7, <2>8 DEF TypeInv
<1>5. CASE Abort(c, "unique violation")
  BY <1>1, <1>5, AbortTypes DEF Errors, TypeInv, CallTypeOK, CountTypeOK
<1> QED BY <1>1, <1>4, <1>5

LEMMA ChainedType ==
  ASSUME TypeInv, NEW c \in Clients, NEW it \in ItemUpTo(Len(mem[c])), it.op = "emit"
  PROVE  /\ Chained(c, it) \in Seq(ItemUpTo(Len(mem[c])))
         /\ Len(Chained(c, it)) \in Nat
<1>1. mem[c] \in Seq(State) /\ Len(mem[c]) \in Nat
  BY DEF TypeInv, RunTypeInv
<1>2. it.ref \in EventRef /\ it.tr \in Transition /\ it.act \in 1 .. Len(mem[c])
  BY <1>1, ItemTypes
<1>3. mem[c][it.act].keys \in Keys
  <2>1. mem[c][it.act] \in State
    BY <1>1, <1>2
  <2> QED BY <2>1 DEF State
<1>4. it.tr.chain \in Seq(InnerEvent) /\ Len(it.tr.chain) \in Nat
  BY <1>2 DEF Transition
<1>5. PSMCause(it.ref) \in Cause /\ PSMCause(it.ref) # NoCause
  BY <1>2, CauseTypes, NoCauseAssumption
<1>6. ASSUME NEW i \in 1 .. Len(it.tr.chain)
      PROVE  Run(Spec0(mem[c][it.act].keys, minted + i, it.tr.chain[i],
                       PSMCause(it.ref)), 0, it.act) \in ItemUpTo(Len(mem[c]))
  <2>1. it.tr.chain[i] \in InnerEvent
    BY <1>4
  <2>2. minted + i \in EventIds /\ minted + i # NoId
    BY ValuesAssumption DEF EventIds, TypeInv, CountTypeOK
  <2> DEFINE spec == Spec0(mem[c][it.act].keys, minted + i, it.tr.chain[i],
                           PSMCause(it.ref))
  <2>3. spec \in PreparedSpec
    BY <1>3, <1>5, <2>1, <2>2 DEF Spec0, PreparedSpec, EventSpec
  <2> HIDE DEF spec
  <2>4. Run(spec, 0, it.act) \in ItemUpTo(it.act)
    BY <1>2, <2>3, RunItemType
  <2>5. Run(spec, 0, it.act) \in ItemUpTo(Len(mem[c]))
    BY <1>1, <1>2, <2>4, ItemsGrow
  <2> QED BY <2>5 DEF spec
<1>7. Chained(c, it) \in Seq(ItemUpTo(Len(mem[c])))
  BY <1>4, <1>6, IsASeq DEF Chained
<1> QED BY <1>7

LEMMA EmitTypes ==
  ASSUME TypeInv, NEW c \in Clients, Emit(c)
  PROVE  TypeInv'
<1> DEFINE it    == Head(agenda[c])
           state == mem[c][it.act]
<1>1. /\ agenda[c] # <<>> /\ it.op = "emit"
      /\ HookWrites(c, state.keys.entity, DerivedBy(c, it), SideEffects(it))
      /\ Push(c, Chained(c, it)) /\ DrawIDs(Len(Chained(c, it)))
      /\ UNCHANGED <<callVars, pending, mem, ret, replies, calls, faults>>
  BY DEF Emit, Next0
<1>2. mem[c] \in Seq(State) /\ Len(mem[c]) \in Nat
  BY DEF TypeInv, RunTypeInv
<1>3. it \in ItemUpTo(Len(mem[c]))
  BY <1>1, HeadType
<1>4. it.ref \in EventRef /\ it.tr \in Transition /\ it.act \in 1 .. Len(mem[c])
  BY <1>1, <1>2, <1>3, ItemTypes
<1> HIDE DEF it
<1>5. state \in State /\ state.keys.entity \in Entities
  <2>1. state \in State
    BY <1>2, <1>4
  <2> QED BY <2>1 DEF State, Keys
<1>6. Chained(c, it) \in Seq(ItemUpTo(Len(mem[c]))) /\ Len(Chained(c, it)) \in Nat
  BY <1>1, <1>3, ChainedType
<1>7. DerivedBy(c, it) \in State \cup {NoState}
  BY <1>5 DEF DerivedBy, TypeInv, DBTypeOK, Table
<1>8. SideEffects(it) \in Seq(OutboxMessage)
  <2>1. it.tr.sends \in Seq(Messages) /\ Len(it.tr.sends) \in Nat
    BY <1>4 DEF Transition
  <2>2. \A i \in 1 .. Len(it.tr.sends) :
          [msg |-> it.tr.sends[i], cause |-> it.ref] \in OutboxMessage
    BY <1>4, <2>1 DEF OutboxMessage
  <2> QED BY <2>1, <2>2, IsASeq DEF SideEffects
<1>9. DBTypeOK'
  BY <1>1, <1>5, <1>7, <1>8, HookTypes DEF TypeInv
<1>10. RunTypeInv'
  <2>1. ret' \in [Clients -> Seq(Reply)]
    BY <1>1 DEF TypeInv, RunTypeInv
  <2> QED BY <1>1, <1>6, <2>1, PushOnlyTypes DEF TypeInv
<1>11. CallTypeOK' /\ CountTypeOK'
  BY <1>1, <1>6 DEF TypeInv, CallTypeOK, CountTypeOK, callVars, DrawIDs
<1> QED BY <1>9, <1>10, <1>11 DEF TypeInv

LEMMA EndTypes ==
  ASSUME TypeInv, NEW c \in Clients,
         Commit(c) \/ CommitUnacked(c) \/ CallbackFails(c) \/ Crash(c)
  PROVE  TypeInv'
<1>1. CASE Commit(c)
  <2>1. DBTypeOK' /\ RunTypeInv'
    BY <1>1, CommitTypes, DropTypes DEF Commit, TypeInv
  <2>2. CallTypeOK'
    BY <1>1 DEF Commit, TypeInv, CallTypeOK
  <2>3. ToSet(ret[c]) \subseteq Reply
    BY DEF TypeInv, RunTypeInv, ToSet
  <2>4. CountTypeOK'
    BY <1>1, <2>3 DEF Commit, TypeInv, CountTypeOK
  <2> QED BY <2>1, <2>2, <2>4 DEF TypeInv
<1>2. CASE CommitUnacked(c)
  <2>1. DBTypeOK' /\ RunTypeInv'
    BY <1>2, CommitTypes, DropTypes DEF CommitUnacked, TypeInv
  <2>2. CallTypeOK' /\ CountTypeOK'
    BY <1>2 DEF CommitUnacked, SpendFault, TypeInv, CallTypeOK, CountTypeOK
  <2> QED BY <2>1, <2>2 DEF TypeInv
<1>3. CASE CallbackFails(c)
  <2>1. job' \in [Clients -> Seq(EventSpec)] /\ minted' \in Nat /\ faults' \in Nat
    BY <1>3 DEF CallbackFails, SpendFault, TypeInv, CallTypeOK, CountTypeOK
  <2> QED BY <1>3, <2>1, AbortTypes DEF CallbackFails, Errors
<1>4. CASE Crash(c)
  <2>1. DBTypeOK' /\ RunTypeInv'
    BY <1>4, RollbackTypes, DropTypes DEF Crash, TypeInv
  <2>2. CallTypeOK' /\ CountTypeOK'
    BY <1>4 DEF Crash, SpendFault, TypeInv, CallTypeOK, CountTypeOK
  <2> QED BY <2>1, <2>2 DEF TypeInv
<1> QED BY <1>1, <1>2, <1>3, <1>4

LEMMA NextTypes ==
  ASSUME TypeInv, PendingInv, [Next]_vars
  PROVE  TypeInv'
<1>1. CASE UNCHANGED vars
  BY <1>1, SameDBTypes, SameRunTypes
  DEF vars, callVars, TypeInv, CallTypeOK, CountTypeOK
<1>2. ASSUME NEW c \in Clients, Call(c) \/ Resend(c) \/ Step(c) \/ Fault(c)
      PROVE  TypeInv'
  <2>1. CASE Call(c) \/ Resend(c)
    BY <2>1, CallTypes
  <2>2. CASE Open(c)
    BY <2>2, OpenTypes
  <2>3. CASE InvalidSpec(c)
    BY <2>3, InvalidSpecTypes
  <2>4. CASE UniqueCheck(c)
    BY <2>4, UniqueCheckTypes
  <2>5. CASE Load(c)
    BY <2>5, LoadTypes
  <2>6. CASE RunFails(c)
    BY <2>6, RunFailsTypes
  <2>7. CASE Upsert(c)
    BY <2>7, UpsertActionTypes
  <2>8. CASE SerializationFailure(c) \/ DeadlockVictim(c)
    BY <2>8, RetryTypes DEF SerializationFailure, DeadlockVictim
  <2>9. CASE Insert(c)
    BY <2>9, InsertActionTypes DEF Insert, PendingInv
  <2>10. CASE Emit(c)
    BY <2>10, EmitTypes
  <2>11. CASE Commit(c) \/ Fault(c)
    BY <2>11, EndTypes DEF Fault
  <2> QED BY <1>2, <2>1, <2>2, <2>3, <2>4, <2>5, <2>6, <2>7, <2>8, <2>9, <2>10, <2>11
          DEF Step
<1> QED BY <1>1, <1>2 DEF Next, Rest

(***************************************************************************)
(* PendingInv is kept by dropping the run, by a step that leaves its       *)
(* client with nothing pending, and by Upsert.                             *)
(***************************************************************************)
LEMMA NextPending ==
  ASSUME TypeInv, PendingInv, [Next]_vars
  PROVE  PendingInv'
<1> USE DEF PendingInv, TypeInv, RunTypeInv, CallTypeOK
<1>1. CASE UNCHANGED vars
  BY <1>1 DEF vars, callVars, runVars
<1>2. ASSUME NEW c \in Clients, Call(c) \/ Resend(c) \/ Step(c) \/ Fault(c)
      PROVE  PendingInv'
  <2>1. CASE Call(c) \/ Resend(c)
    <3>1. pc[c] # "open" /\ pc' = [pc EXCEPT ![c] = "called"] /\ UNCHANGED runVars
      BY <2>1 DEF Call, Resend, Ask, Busy
    <3> QED BY <3>1 DEF runVars
  <2>2. CASE Open(c)
    BY <2>2 DEF Open
  <2>3. ASSUME DropRun(c), NEW new, pc' = [pc EXCEPT ![c] = new]
        PROVE  PendingInv'
    BY <2>3 DEF DropRun
  <2>4. ASSUME NEW why, Abort(c, why)
        PROVE  PendingInv'
    BY <2>3, <2>4 DEF Abort
  <2>5. ASSUME Retry(c)
        PROVE  PendingInv'
    BY <2>3, <2>5 DEF Retry
  <2>6. ASSUME pending[c] = NoPending, UNCHANGED <<pc, pending>>,
               NEW items, Push(c, items)
        PROVE  PendingInv'
    BY <2>6 DEF Push
  <2>7. CASE InvalidSpec(c) \/ RunFails(c)
    BY <2>4, <2>7 DEF InvalidSpec, RunFails
  <2>8. CASE UniqueCheck(c)
    BY <2>4, <2>6, <2>8 DEF UniqueCheck, Next0
  <2>9. CASE Load(c)
    BY <2>4, <2>6, <2>9 DEF Load, Next0, callVars
  <2>10. CASE Upsert(c)
    BY <2>10 DEF Upsert, Next0, callVars
  <2>11. CASE SerializationFailure(c) \/ DeadlockVictim(c)
    BY <2>5, <2>11 DEF SerializationFailure, DeadlockVictim
  <2>12. CASE Insert(c)
    BY <2>4, <2>12 DEF Insert, Push
  <2>13. CASE Emit(c)
    BY <2>6, <2>13 DEF Emit, Next0, callVars
  <2>14. CASE Commit(c) \/ Fault(c)
    BY <2>3, <2>4, <2>14 DEF Commit, Fault, CallbackFails, Crash, CommitUnacked
  <2> QED BY <1>2, <2>1, <2>2, <2>7, <2>8, <2>9, <2>10, <2>11, <2>12, <2>13, <2>14
          DEF Step
<1> QED BY <1>1, <1>2 DEF Next, Rest

LEMMA InitTypes ==
  ASSUME Init
  PROVE  TypeInv /\ PendingInv
<1>1. DBTypeOK
  BY EmptySeq DEF Init, DBInit, DBTypeOK, NoRows, Table
<1>2. RunTypeInv
  BY EmptySeq DEF Init, RunTypeInv
<1>3. CallTypeOK /\ CountTypeOK /\ PendingInv
  BY EmptySeq DEF Init, CallTypeOK, CountTypeOK, Errors, PendingInv
<1> QED BY <1>1, <1>2, <1>3 DEF TypeInv

(***************************************************************************)
(* Types, and the bookkeeping of a run: an event waiting for its insert    *)
(* belongs to an open transaction that holds the state it changed.         *)
(***************************************************************************)
THEOREM TypeInvariant == Spec => [](TypeInv /\ PendingInv)
<1>1. Init => TypeInv /\ PendingInv
  BY InitTypes
<1>2. TypeInv /\ PendingInv /\ [Next]_vars => (TypeInv /\ PendingInv)'
  BY NextTypes, NextPending
<1> QED BY <1>1, <1>2, PTL DEF Spec

(***************************************************************************)
(* Every variable keeps to its type.                                       *)
(***************************************************************************)
THEOREM TypeCorrect == Spec => []TypeOK
<1>1. TypeInv => TypeOK
  BY DEF TypeInv, TypeOK, CallTypeOK, CountTypeOK, RunTypeInv
<1> QED BY <1>1, TypeInvariant, PTL

-----------------------------------------------------------------------------
(***************************************************************************)
(* Rows and events.                                                        *)
(***************************************************************************)
LEMMA RollbackKeepsRowInv ==
  ASSUME TypeInv, RowInv, NEW c \in Clients, RollbackTx(c), DropRun(c)
  PROVE  RowInv'
<1>1. RowsAreSnapshots'
  BY DEF RowInv, RowsAreSnapshots, EventsOf, RollbackTx, tables
<1>2. /\ txRows' = [txRows EXCEPT ![c] = NoRows]
      /\ txEvents' = [txEvents EXCEPT ![c] = {}]
      /\ pending' = [pending EXCEPT ![c] = NoPending]
      /\ DOMAIN txRows = Clients /\ DOMAIN txEvents = Clients /\ DOMAIN pending = Clients
  BY DEF RollbackTx, ClearTx, DropRun, TypeInv, RunTypeInv, DBTypeOK
<1>3. Stored(c)' = {} /\ \A k \in Entities : txRows'[c][k] = NoState
  BY <1>2 DEF Stored, NoRows
<1>4. \A d \in Clients \ {c} : Stored(d)' = Stored(d) /\ txRows'[d] = txRows[d]
  BY <1>2 DEF Stored
<1>5. TxRowsAreSnapshots'
  BY <1>3, <1>4 DEF RowInv, TxRowsAreSnapshots
<1> QED BY <1>1, <1>5 DEF RowInv

LEMMA CommitKeepsRowInv ==
  ASSUME TypeInv, RowInv, NEW c \in Clients, CommitTx(c), DropRun(c),
         pending[c] = NoPending
  PROVE  RowInv'
<1>1. /\ txRows' = [txRows EXCEPT ![c] = NoRows]
      /\ txEvents' = [txEvents EXCEPT ![c] = {}]
      /\ pending' = [pending EXCEPT ![c] = NoPending]
      /\ rows' = Overlay(rows, txRows[c])
      /\ events' = events \cup txEvents[c]
      /\ DOMAIN txRows = Clients /\ DOMAIN txEvents = Clients /\ DOMAIN pending = Clients
  BY DEF CommitTx, ClearTx, DropRun, TypeInv, RunTypeInv, DBTypeOK
<1>2. Stored(c) = txEvents[c]
  BY DEF Stored
<1>3. ASSUME NEW k \in Entities
      PROVE  IF rows'[k] = NoState THEN EventsOf(k)' = {}
             ELSE \E e \in EventsOf(k)' : e.snapshot = rows'[k]
  <2>1. CASE txRows[c][k] = NoState
    <3>1. rows'[k] = rows[k] /\ EventsOf(k)' = EventsOf(k)
      BY <1>1, <1>2, <2>1 DEF Overlay, EventsOf, RowInv, TxRowsAreSnapshots
    <3> QED BY <3>1 DEF RowInv, RowsAreSnapshots
  <2>2. CASE txRows[c][k] # NoState
    <3>1. rows'[k] = txRows[c][k]
      BY <1>1, <2>2 DEF Overlay
    <3>2. PICK e \in txEvents[c] : e.keys.entity = k /\ e.snapshot = txRows[c][k]
      BY <1>2, <2>2 DEF RowInv, TxRowsAreSnapshots
    <3> QED BY <1>1, <2>2, <3>1, <3>2 DEF EventsOf
  <2> QED BY <2>1, <2>2
<1>4. RowsAreSnapshots'
  BY <1>3 DEF RowsAreSnapshots
<1>5. Stored(c)' = {} /\ \A k \in Entities : txRows'[c][k] = NoState
  BY <1>1 DEF Stored, NoRows
<1>6. \A d \in Clients \ {c} : Stored(d)' = Stored(d) /\ txRows'[d] = txRows[d]
  BY <1>1 DEF Stored
<1>7. TxRowsAreSnapshots'
  BY <1>5, <1>6 DEF RowInv, TxRowsAreSnapshots
<1> QED BY <1>4, <1>7 DEF RowInv

LEMMA SameRowsKeepRowInv ==
  ASSUME RowInv, UNCHANGED <<rows, events, txRows, txEvents, pending>>
  PROVE  RowInv'
<1>1. \A c \in Clients : Stored(c)' = Stored(c)
  BY DEF Stored
<1> QED BY <1>1 DEF RowInv, RowsAreSnapshots, TxRowsAreSnapshots, EventsOf

LEMMA UpsertKeepsRowInv ==
  ASSUME TypeInv, TypeInv', RowInv, NEW c \in Clients, Upsert(c)
  PROVE  RowInv'
<1> DEFINE new == NewStateOf(c)
           k   == new.keys.entity
<1>1. /\ txRows' = [txRows EXCEPT ![c][k] = new]
      /\ UNCHANGED <<rows, events, txEvents>>
      /\ pending[c] = NoPending
      /\ pending' = [pending EXCEPT ![c] = pending'[c]]
      /\ pending'[c].row.keys = new.keys /\ pending'[c].row.snapshot = new
      /\ DOMAIN txRows = Clients /\ DOMAIN pending = Clients
  BY DEF Upsert, UpsertRow, Next0, tables, TypeInv, RunTypeInv, DBTypeOK
<1>2. pending'[c] # NoPending
  BY UpsertActionTypes, NoPendingAssumption
<1>3. Stored(c)' = Stored(c) \cup {pending'[c].row}
  BY <1>1, <1>2 DEF Stored
<1>4. new \in State /\ new # NoState /\ k \in Entities
  <2>1. new \in State
    BY RunTypes DEF Upsert, Runnable
  <2> QED BY <2>1, NoStateAssumption DEF State, Keys
<1>5. \A d \in Clients \ {c} : Stored(d)' = Stored(d) /\ txRows'[d] = txRows[d]
  BY <1>1 DEF Stored
<1>6. txRows[c] \in Table
  BY DEF TypeInv, DBTypeOK
<1> HIDE DEF new, k
<1>7. txRows'[c] = [txRows[c] EXCEPT ![k] = new]
  BY <1>1
<1>8. /\ txRows'[c][k] = new
      /\ \A j \in Entities \ {k} : txRows'[c][j] = txRows[c][j]
  BY <1>4, <1>6, <1>7 DEF Table
<1>9. pending'[c].row.keys.entity = k /\ pending'[c].row.snapshot = new
  BY <1>1 DEF k
<1>10. ASSUME NEW j \in Entities, txRows'[c][j] # NoState
       PROVE  \E e \in Stored(c)' : e.keys.entity = j /\ e.snapshot = txRows'[c][j]
  BY <1>3, <1>8, <1>9, <1>10 DEF RowInv, TxRowsAreSnapshots
<1>11. ASSUME NEW e \in Stored(c)'
       PROVE  txRows'[c][e.keys.entity] # NoState
  <2>1. CASE e = pending'[c].row
    BY <1>4, <1>8, <1>9, <2>1
  <2>2. CASE e \in Stored(c)
    <3>1. e \in EventRow
      BY <1>1, <2>2 DEF Stored, TypeInv, DBTypeOK
    <3>2. e.keys.entity \in Entities
      BY <3>1 DEF EventRow, Keys
    <3>3. txRows[c][e.keys.entity] # NoState
      BY <2>2 DEF RowInv, TxRowsAreSnapshots
    <3> QED BY <1>4, <1>8, <3>2, <3>3
  <2> QED BY <1>3, <1>11, <2>1, <2>2
<1>12. TxRowsAreSnapshots'
  BY <1>5, <1>10, <1>11 DEF RowInv, TxRowsAreSnapshots
<1>13. RowsAreSnapshots'
  BY <1>1 DEF RowInv, RowsAreSnapshots, EventsOf
<1> QED BY <1>12, <1>13 DEF RowInv

LEMMA InsertKeepsRowInv ==
  ASSUME TypeInv, RowInv, NEW c \in Clients, pending[c] # NoPending,
         InsertEvent(c, pending[c].row),
         pending' = [pending EXCEPT ![c] = NoPending]
  PROVE  RowInv'
<1>1. /\ txEvents' = [txEvents EXCEPT ![c] = @ \cup {pending[c].row}]
      /\ UNCHANGED <<rows, events, txRows>>
      /\ DOMAIN txEvents = Clients /\ DOMAIN pending = Clients
  BY DEF InsertEvent, tables, TypeInv, RunTypeInv, DBTypeOK
<1>2. \A d \in Clients : Stored(d)' = Stored(d)
  BY <1>1 DEF Stored
<1> QED BY <1>1, <1>2 DEF RowInv, RowsAreSnapshots, TxRowsAreSnapshots, EventsOf

LEMMA NextRowInv ==
  ASSUME TypeInv, PendingInv, RowInv, [Next]_vars
  PROVE  RowInv'
<1>1. CASE UNCHANGED vars
  BY <1>1, SameRowsKeepRowInv DEF vars, dbVars, runVars
<1>2. ASSUME NEW c \in Clients, Call(c) \/ Resend(c) \/ Step(c) \/ Fault(c)
      PROVE  RowInv'
  <2>1. ASSUME NEW why, Abort(c, why)
        PROVE  RowInv'
    BY <2>1, RollbackKeepsRowInv DEF Abort
  <2>2. CASE Call(c) \/ Resend(c)
    BY <2>2, SameRowsKeepRowInv DEF Call, Resend, Ask, dbVars, runVars
  <2>3. CASE Open(c)
    BY <2>3, SameRowsKeepRowInv DEF Open, BeginTx, tables
  <2>4. CASE InvalidSpec(c) \/ RunFails(c) \/ CallbackFails(c)
    BY <2>1, <2>4 DEF InvalidSpec, RunFails, CallbackFails
  <2>5. CASE UniqueCheck(c)
    BY <2>1, <2>5, SameRowsKeepRowInv DEF UniqueCheck, dbVars
  <2>6. CASE Load(c)
    BY <2>1, <2>6, SameRowsKeepRowInv DEF Load, dbVars
  <2>7. CASE Upsert(c)
    BY <2>7, UpsertKeepsRowInv, NextTypes
  <2>8. CASE SerializationFailure(c) \/ DeadlockVictim(c)
    BY <2>8, RollbackKeepsRowInv DEF SerializationFailure, DeadlockVictim, Retry
  <2>9. CASE Insert(c)
    BY <2>1, <2>9, InsertKeepsRowInv DEF Insert
  <2>10. CASE Emit(c)
    BY <2>10, SameRowsKeepRowInv DEF Emit, HookWrites, tables
  <2>11. CASE Commit(c) \/ CommitUnacked(c)
    BY <2>11, CommitKeepsRowInv DEF Commit, CommitUnacked, Finished
  <2>12. CASE Crash(c)
    BY <2>12, RollbackKeepsRowInv DEF Crash
  <2> QED BY <1>2, <2>2, <2>3, <2>4, <2>5, <2>6, <2>7, <2>8, <2>9, <2>10, <2>11, <2>12
          DEF Step, Fault
<1> QED BY <1>1, <1>2 DEF Next, Rest

(***************************************************************************)
(* The row of an entity is the snapshot of one of its events, whatever     *)
(* fails between the two writes of store or after them.                    *)
(***************************************************************************)
THEOREM RowsCorrect == Spec => []RowsAreSnapshots
<1>1. Init => RowInv
  BY DEF Init, DBInit, RowInv, RowsAreSnapshots, TxRowsAreSnapshots, EventsOf,
         Stored, NoRows
<1>2. TypeInv /\ PendingInv /\ RowInv /\ [Next]_vars => RowInv'
  BY NextRowInv
<1>3. RowInv => RowsAreSnapshots
  BY DEF RowInv
<1> QED BY <1>1, <1>2, <1>3, TypeInvariant, PTL DEF Spec

-----------------------------------------------------------------------------
(***************************************************************************)
(* Keys.                                                                   *)
(***************************************************************************)
LEMMA SingletonSeq ==
  ASSUME NEW S, NEW x \in S
  PROVE  <<x>> \in Seq(S)
OBVIOUS

LEMMA ItemOnAppend ==
  ASSUME NEW m \in Seq(State), NEW s \in State
  PROVE  ItemOn(m) \subseteq ItemOn(Append(m, s))
<1>1. /\ Len(m) \in Nat /\ Len(Append(m, s)) = Len(m) + 1
      /\ \A a \in 1 .. Len(m) : Append(m, s)[a] = m[a]
  BY AppendProperties
<1> QED BY <1>1 DEF ItemOn, ItemUpTo

LEMMA ItemOnExcept ==
  ASSUME NEW m \in Seq(State), NEW a \in 1 .. Len(m), NEW s \in State,
         s.keys = m[a].keys
  PROVE  ItemOn(m) \subseteq ItemOn([m EXCEPT ![a] = s])
<1> DEFINE n == [m EXCEPT ![a] = s]
<1>1. /\ Len(m) \in Nat /\ Len(n) = Len(m)
      /\ \A b \in 1 .. Len(m) : n[b].keys = m[b].keys
  BY ExceptSeq
<1> HIDE DEF n
<1>2. ItemOn(m) \subseteq ItemOn(n)
  BY <1>1 DEF ItemOn, ItemUpTo
<1> QED BY <1>2 DEF n

LEMMA PushOn ==
  ASSUME TypeInv, KeysInv, NEW c \in Clients, agenda[c] # <<>>, NEW S,
         ItemOn(mem[c]) \subseteq S, NEW items \in Seq(S), Push(c, items)
  PROVE  /\ agenda'[c] \in Seq(S)
         /\ \A d \in Clients \ {c} : agenda'[d] = agenda[d]
<1>1. Tail(agenda[c]) \in Seq(ItemOn(mem[c]))
  BY HeadTailProperties DEF KeysInv
<1>2. Tail(agenda[c]) \in Seq(S)
  BY <1>1, SeqMonotonic
<1>3. items \o Tail(agenda[c]) \in Seq(S)
  BY <1>2, ConcatProperties
<1>4. agenda' = [agenda EXCEPT ![c] = items \o Tail(agenda[c])] /\ DOMAIN agenda = Clients
  BY DEF Push, TypeInv, RunTypeInv
<1> HIDE DEF Push
<1> QED BY <1>3, <1>4

LEMMA RollbackKeepsKeys ==
  ASSUME TypeInv, KeysInv, NEW c \in Clients, RollbackTx(c), DropRun(c)
  PROVE  KeysInv'
<1>1. /\ txRows' = [txRows EXCEPT ![c] = NoRows]
      /\ snapRows' = [snapRows EXCEPT ![c] = NoRows]
      /\ agenda' = [agenda EXCEPT ![c] = <<>>] /\ mem' = [mem EXCEPT ![c] = <<>>]
      /\ pending' = [pending EXCEPT ![c] = NoPending]
      /\ rows' = rows
      /\ DOMAIN txRows = Clients /\ DOMAIN snapRows = Clients /\ DOMAIN agenda = Clients
      /\ DOMAIN mem = Clients /\ DOMAIN pending = Clients
  BY DEF RollbackTx, ClearTx, DropRun, tables, TypeInv, RunTypeInv, DBTypeOK
<1>2. FiledByKeys(NoRows)
  BY DEF FiledByKeys, NoRows
<1>3. \A d \in Clients : agenda'[d] \in Seq(ItemOn(mem'[d]))
  BY <1>1, EmptySeq DEF KeysInv
<1> QED BY <1>1, <1>2, <1>3 DEF KeysInv

LEMMA CommitKeepsKeys ==
  ASSUME TypeInv, KeysInv, NEW c \in Clients, CommitTx(c), DropRun(c)
  PROVE  KeysInv'
<1>1. /\ txRows' = [txRows EXCEPT ![c] = NoRows]
      /\ snapRows' = [snapRows EXCEPT ![c] = NoRows]
      /\ agenda' = [agenda EXCEPT ![c] = <<>>] /\ mem' = [mem EXCEPT ![c] = <<>>]
      /\ pending' = [pending EXCEPT ![c] = NoPending]
      /\ rows' = Overlay(rows, txRows[c])
      /\ DOMAIN txRows = Clients /\ DOMAIN snapRows = Clients /\ DOMAIN agenda = Clients
      /\ DOMAIN mem = Clients /\ DOMAIN pending = Clients
  BY DEF CommitTx, ClearTx, DropRun, TypeInv, RunTypeInv, DBTypeOK
<1>2. FiledByKeys(NoRows) /\ FiledByKeys(rows')
  BY <1>1 DEF FiledByKeys, NoRows, Overlay, KeysInv
<1>3. \A d \in Clients : agenda'[d] \in Seq(ItemOn(mem'[d]))
  BY <1>1, EmptySeq DEF KeysInv
<1> QED BY <1>1, <1>2, <1>3 DEF KeysInv

LEMMA SameKeys ==
  ASSUME KeysInv, UNCHANGED <<rows, txRows, snapRows, agenda, pending, mem>>
  PROVE  KeysInv'
BY DEF KeysInv, FiledByKeys

LEMMA OpenKeepsKeys ==
  ASSUME TypeInv, KeysInv, NEW c \in Clients, Open(c)
  PROVE  KeysInv'
<1> DEFINE items == [i \in 1 .. Len(job[c]) |-> RunTx(job[c][i], i)]
<1>1. \A d \in Clients : snapRows'[d] \in {snapRows[d], rows}
  BY DEF Open, BeginTx, TypeInv, DBTypeOK
<1>2. UNCHANGED <<rows, txRows, pending, mem>>
      /\ agenda' = [agenda EXCEPT ![c] = items] /\ DOMAIN agenda = Clients
  BY DEF Open, BeginTx, tables, TypeInv, RunTypeInv
<1>3. job[c] \in Seq(EventSpec) /\ Len(job[c]) \in Nat
  BY DEF TypeInv, CallTypeOK
<1>4. \A i \in 1 .. Len(job[c]) : RunTx(job[c][i], i) \in ItemOn(mem[c])
  BY <1>3 DEF RunTx, ItemOn, ItemUpTo, Item
<1>5. items \in Seq(ItemOn(mem[c]))
  BY <1>3, <1>4, IsASeq
<1> HIDE DEF items
<1> QED BY <1>1, <1>2, <1>5 DEF KeysInv

LEMMA PushKeepsKeys ==
  ASSUME TypeInv, KeysInv, NEW c \in Clients, agenda[c] # <<>>,
         NEW items \in Seq(ItemOn(mem[c])), Push(c, items),
         UNCHANGED <<rows, txRows, snapRows, mem>>,
         \/ UNCHANGED pending
         \/ pending' = [pending EXCEPT ![c] = NoPending]
  PROVE  KeysInv'
<1>1. \A d \in Clients : agenda'[d] \in Seq(ItemOn(mem'[d]))
  BY PushOn DEF KeysInv
<1>2. \A d \in Clients : pending'[d] # NoPending => pending'[d] = pending[d]
  BY DEF TypeInv, RunTypeInv
<1> QED BY <1>1, <1>2 DEF KeysInv

LEMMA UniqueCheckKeepsKeys ==
  ASSUME TypeInv, KeysInv, NEW c \in Clients, UniqueCheck(c)
  PROVE  KeysInv'
<1> DEFINE spec == WithID(WithCause(Head(agenda[c]).spec))
           item == [op |-> "load", spec |-> spec, call |-> Head(agenda[c]).call]
<1>1. agenda[c] # <<>>
  BY DEF UniqueCheck, Next0
<1>2. \/ Push(c, <<item>>) /\ UNCHANGED <<dbVars, pending, mem>>
      \/ Push(c, <<>>) /\ UNCHANGED <<dbVars, pending, mem>>
      \/ Abort(c, "duplicate ID")
  BY DEF UniqueCheck
<1>3. item \in ItemOn(mem[c])
  <2>1. Head(agenda[c]).spec \in EventSpec /\ Head(agenda[c]).call \in Nat
        /\ ValidSpec(Head(agenda[c]).spec)
    <3>1. Len(mem[c]) \in Nat
      BY DEF TypeInv, RunTypeInv
    <3> QED BY <3>1, HeadType, ItemTypes DEF UniqueCheck, Next0
  <2>2. spec \in PreparedSpec
    BY <2>1, PreparedType DEF TypeInv, CountTypeOK
  <2> HIDE DEF spec
  <2> QED BY <2>1, <2>2 DEF ItemOn, ItemUpTo, Item
<1> HIDE DEF item
<1>4. <<item>> \in Seq(ItemOn(mem[c])) /\ <<>> \in Seq(ItemOn(mem[c]))
  BY <1>3
<1>5. CASE Push(c, <<item>>) /\ UNCHANGED <<dbVars, pending, mem>>
  BY <1>1, <1>4, <1>5, PushKeepsKeys DEF dbVars
<1>6. CASE Push(c, <<>>) /\ UNCHANGED <<dbVars, pending, mem>>
  BY <1>1, <1>4, <1>6, PushKeepsKeys DEF dbVars
<1>7. CASE Abort(c, "duplicate ID")
  BY <1>7, RollbackKeepsKeys DEF Abort
<1> QED BY <1>2, <1>5, <1>6, <1>7

(* Loading a state of the entity the spec names. *)
LEMMA LoadedKeepsKeys ==
  ASSUME TypeInv, KeysInv, NEW c \in Clients, agenda[c] # <<>>,
         NEW state \in State, NEW items \in Seq(ItemOn(Append(mem[c], state))),
         Push(c, items), mem' = [mem EXCEPT ![c] = Append(@, state)],
         UNCHANGED <<dbVars, pending>>
  PROVE  KeysInv'
<1>1. mem[c] \in Seq(State) /\ DOMAIN mem = Clients
  BY DEF TypeInv, RunTypeInv
<1>2. ItemOn(mem[c]) \subseteq ItemOn(Append(mem[c], state))
  BY <1>1, ItemOnAppend
<1>3. /\ agenda'[c] \in Seq(ItemOn(Append(mem[c], state)))
      /\ \A d \in Clients \ {c} : agenda'[d] = agenda[d]
  BY <1>2, PushOn
<1>4. mem'[c] = Append(mem[c], state) /\ \A d \in Clients \ {c} : mem'[d] = mem[d]
  BY <1>1
<1> QED BY <1>3, <1>4 DEF KeysInv, FiledByKeys, dbVars

LEMMA RunOnLoaded ==
  ASSUME NEW m \in Seq(State), NEW s \in State, NEW spec \in PreparedSpec,
         NEW call \in Nat, s.keys.entity = spec.keys.entity
  PROVE  Run(spec, call, Len(m) + 1) \in ItemOn(Append(m, s))
<1>1. /\ Len(m) \in Nat /\ Len(Append(m, s)) = Len(m) + 1
      /\ Append(m, s)[Len(m) + 1] = s
  BY AppendProperties
<1>2. Run(spec, call, Len(m) + 1) \in ItemUpTo(Len(m) + 1)
  BY <1>1, RunItemType
<1> QED BY <1>1, <1>2 DEF ItemOn, Run

LEMMA LoadKeepsKeys ==
  ASSUME TypeInv, KeysInv, NEW c \in Clients, Load(c)
  PROVE  KeysInv'
<1> DEFINE it    == Head(agenda[c])
           keys  == it.spec.keys
           state == VisibleRow(c, keys.entity)
           act   == Len(mem[c]) + 1
           init  == InitialRun(keys, act)
           run   == Run(it.spec, it.call, act)
           empty == EmptyState(keys)
<1>1. agenda[c] # <<>> /\ it.op = "load"
  BY DEF Load, Next0
<1>2. \/ /\ Push(c, Append(init, run)) /\ UNCHANGED <<dbVars, pending>>
         /\ mem' = [mem EXCEPT ![c] = Append(@, empty)]
      \/ /\ state # NoState
         /\ Push(c, <<run>>) /\ UNCHANGED <<dbVars, pending>>
         /\ mem' = [mem EXCEPT ![c] = Append(@, state)]
      \/ \E why \in Errors : Abort(c, why)
  BY DEF Load, Errors, callVars
<1>3. mem[c] \in Seq(State) /\ Len(mem[c]) \in Nat
  BY DEF TypeInv, RunTypeInv
<1>4. it.spec \in PreparedSpec /\ it.call \in Nat
  BY <1>1, <1>3, HeadType, ItemTypes
<1>5. keys \in Keys /\ keys.entity \in Entities
  BY <1>4 DEF PreparedSpec, EventSpec, Keys
<1> HIDE DEF it
<1>6. CASE /\ Push(c, Append(init, run)) /\ UNCHANGED <<dbVars, pending>>
           /\ mem' = [mem EXCEPT ![c] = Append(@, empty)]
  <2>1. empty \in State /\ empty.keys = keys
    BY <1>5, EmptyStateType DEF EmptyState
  <2>2. run \in ItemOn(Append(mem[c], empty))
    BY <1>3, <1>4, <2>1, RunOnLoaded
  <2>3. init \in Seq(ItemOn(Append(mem[c], empty)))
    <3> DEFINE inner == InitialEvent[MachineOf[keys.entity]]
               spec  == Spec0(keys, minted + 1, inner, CauseOf("init"))
    <3>1. CASE inner = NoInner
      BY <3>1, EmptySeq DEF InitialRun
    <3>2. CASE inner # NoInner
      <4>1. inner \in InnerEvent
        BY <1>5, <3>2, JobsAssumption, ValuesAssumption
      <4>2. CauseOf("init") \in Cause /\ CauseOf("init") # NoCause
        BY CauseTypes, NoCauseAssumption
      <4>3. minted + 1 \in EventIds /\ minted + 1 # NoId
        BY ValuesAssumption DEF EventIds, TypeInv, CountTypeOK
      <4>4. spec \in PreparedSpec /\ spec.keys = keys
        BY <1>5, <4>1, <4>2, <4>3 DEF Spec0, PreparedSpec, EventSpec
      <4> HIDE DEF spec
      <4>5. Run(spec, 0, act) \in ItemOn(Append(mem[c], empty))
        BY <1>3, <2>1, <4>4, RunOnLoaded
      <4>6. init = <<Run(spec, 0, act)>>
        BY <3>2 DEF InitialRun, spec
      <4> QED BY <4>5, <4>6, SingletonSeq
    <3> QED BY <3>1, <3>2
  <2> HIDE DEF init, run, empty
  <2>4. Append(init, run) \in Seq(ItemOn(Append(mem[c], empty)))
    BY <2>2, <2>3, AppendProperties
  <2> QED BY <1>1, <1>6, <2>1, <2>4, LoadedKeepsKeys
<1>7. CASE /\ state # NoState
           /\ Push(c, <<run>>) /\ UNCHANGED <<dbVars, pending>>
           /\ mem' = [mem EXCEPT ![c] = Append(@, state)]
  <2>1. state \in State /\ state.keys.entity = keys.entity
    <3>1. state \in State
      BY <1>5, <1>7, VisibleTypes
    <3>2. state.keys.entity = keys.entity
      BY <1>5, <1>7 DEF VisibleRow, KeysInv, FiledByKeys
    <3> QED BY <3>1, <3>2
  <2> HIDE DEF state
  <2>2. run \in ItemOn(Append(mem[c], state))
    BY <1>3, <1>4, <2>1, RunOnLoaded
  <2> HIDE DEF run
  <2>3. <<run>> \in Seq(ItemOn(Append(mem[c], state)))
    BY <2>2
  <2> QED BY <1>1, <1>7, <2>1, <2>3, LoadedKeepsKeys
<1>8. CASE \E why \in Errors : Abort(c, why)
  BY <1>8, RollbackKeepsKeys DEF Abort
<1> QED BY <1>2, <1>6, <1>7, <1>8


(* The row written, the state remembered and the event stored have the     *)
(* keys of the state the item works on.                                    *)
LEMMA UpsertKeepsKeys ==
  ASSUME TypeInv, KeysInv, NEW c \in Clients, Upsert(c)
  PROVE  KeysInv'
<1> DEFINE it  == Head(agenda[c])
           new == NewStateOf(c)
           k   == new.keys.entity
           m   == [mem[c] EXCEPT ![it.act] = new]
<1>1. /\ agenda[c] # <<>> /\ it.op = "run"
      /\ txRows' = [txRows EXCEPT ![c][k] = new]
      /\ mem' = [mem EXCEPT ![c] = m]
      /\ pending' = [pending EXCEPT ![c] = pending'[c]]
      /\ pending'[c].row.keys = new.keys /\ pending'[c].keys = it.spec.keys
      /\ UNCHANGED <<rows, snapRows, agenda>>
  BY DEF Upsert, UpsertRow, Next0, Remember, tables, TypeInv, RunTypeInv
<1>2. /\ it.spec \in PreparedSpec /\ it.act \in 1 .. Len(mem[c])
      /\ StateOf(c) \in State /\ TransitionOf(c) \in Transition /\ new \in State
  <2>1. Len(mem[c]) \in Nat
    BY DEF TypeInv, RunTypeInv
  <2> QED BY <2>1, RunTypes DEF Upsert, Runnable
<1>3. new.keys = mem[c][it.act].keys
  <2>1. Head(agenda[c]).spec.id \in EventIds
    BY <1>2 DEF PreparedSpec, EventSpec
  <2>2. new.keys = StateOf(c).keys
    BY <1>2, <2>1, AfterKeys DEF NewStateOf
  <2> QED BY <2>2 DEF StateOf
<1>4. it.spec.keys.entity = new.keys.entity
  <2>1. it \in ItemOn(mem[c])
    BY <1>1, HeadTailProperties DEF KeysInv
  <2> QED BY <1>1, <1>3, <2>1 DEF ItemOn
<1>5. mem[c] \in Seq(State) /\ DOMAIN mem = Clients /\ DOMAIN txRows = Clients
      /\ txRows[c] \in Table
  BY DEF TypeInv, RunTypeInv, DBTypeOK
<1> HIDE DEF new, it
<1>6. ItemOn(mem[c]) \subseteq ItemOn(m)
  BY <1>2, <1>3, <1>5, ItemOnExcept
<1>7. agenda[c] \in Seq(ItemOn(m))
  BY <1>6, SeqMonotonic DEF KeysInv
<1> HIDE DEF m
<1>8. \A d \in Clients : agenda'[d] \in Seq(ItemOn(mem'[d]))
  BY <1>1, <1>5, <1>7 DEF KeysInv
<1>9. \A d \in Clients : pending'[d] # NoPending =>
        pending'[d].keys.entity = pending'[d].row.keys.entity
  <2>1. pending'[c].keys.entity = pending'[c].row.keys.entity
    BY <1>1, <1>4
  <2>2. \A d \in Clients \ {c} : pending'[d] = pending[d]
    BY <1>1 DEF TypeInv, RunTypeInv
  <2> QED BY <2>1, <2>2 DEF KeysInv
<1>10. \A d \in Clients : FiledByKeys(txRows'[d])
  <2>1. ASSUME NEW j \in Entities, txRows'[c][j] # NoState
        PROVE  txRows'[c][j].keys.entity = j
    BY <1>1, <1>5, <2>1 DEF KeysInv, FiledByKeys, Table
  <2>2. \A d \in Clients \ {c} : txRows'[d] = txRows[d]
    BY <1>1, <1>5
  <2> QED BY <2>1, <2>2 DEF KeysInv, FiledByKeys
<1> QED BY <1>1, <1>8, <1>9, <1>10 DEF KeysInv, FiledByKeys

LEMMA InsertKeepsKeys ==
  ASSUME TypeInv, KeysInv, NEW c \in Clients, agenda[c] # <<>>, Insert(c)
  PROVE  KeysInv'
<1> DEFINE p    == pending[c]
           emit == [op |-> "emit", ref |-> RefOf(p.row), tr |-> p.tr, act |-> p.act]
           Done == /\ Push(c, Append(LinkRuns(p), emit))
                   /\ pending' = [pending EXCEPT ![c] = NoPending]
                   /\ UNCHANGED <<rows, txRows, snapRows, mem>>
<1>1. p # NoPending /\ (Done \/ Abort(c, "unique violation"))
  BY DEF Insert, InsertEvent, tables
<1>2. CASE Done
  <2>1. p \in Pending /\ p.act \in 1 .. Len(mem[c]) /\ Len(mem[c]) \in Nat
    <3>1. p \in Pending /\ p.act \in 1 .. Len(mem[c])
      BY <1>1 DEF TypeInv, RunTypeInv
    <3>2. Len(mem[c]) \in Nat
      BY DEF TypeInv, RunTypeInv
    <3> QED BY <3>1, <3>2
  <2>2. p.row \in EventRow /\ p.tr \in Transition /\ p.act \in Nat \ {0}
    BY <2>1 DEF Pending
  <2>3. emit \in ItemOn(mem[c])
    BY <2>1, <2>2, RefType DEF ItemOn, ItemUpTo, Item
  <2>4. LinkRuns(p) \in Seq(ItemOn(mem[c]))
    <3>1. LinkRuns(p) \in Seq(ItemUpTo(Len(mem[c])))
      BY <2>1, LinkRunsType
    <3>2. Len(LinkRuns(p)) \in Nat
          /\ LinkRuns(p) = [i \in 1 .. Len(LinkRuns(p)) |-> LinkRuns(p)[i]]
          /\ \A i \in 1 .. Len(LinkRuns(p)) : LinkRuns(p)[i] \in ItemUpTo(Len(mem[c]))
      BY <3>1
    <3>3. p.tr.links \in Seq(Link) /\ Len(p.tr.links) \in Nat
      BY <2>2 DEF Transition
    <3>4. Len(LinkRuns(p)) = Len(p.tr.links)
      BY <3>3 DEF LinkRuns
    <3>5. \A i \in 1 .. Len(LinkRuns(p)) : LinkRuns(p)[i].op = "runTx"
      BY <3>4 DEF LinkRuns, RunTx
    <3>6. \A i \in 1 .. Len(LinkRuns(p)) : LinkRuns(p)[i] \in ItemOn(mem[c])
      BY <3>2, <3>5 DEF ItemOn
    <3> HIDE DEF p
    <3> QED BY <3>2, <3>6, IsASeq
  <2> HIDE DEF p, emit
  <2>5. Append(LinkRuns(p), emit) \in Seq(ItemOn(mem[c]))
    BY <2>3, <2>4, AppendProperties
  <2> QED BY <1>2, <2>5, PushKeepsKeys
<1>3. CASE Abort(c, "unique violation")
  BY <1>3, RollbackKeepsKeys DEF Abort
<1> QED BY <1>1, <1>2, <1>3

LEMMA EmitKeepsKeys ==
  ASSUME TypeInv, KeysInv, NEW c \in Clients, Emit(c)
  PROVE  KeysInv'
<1> DEFINE it == Head(agenda[c])
<1>1. /\ agenda[c] # <<>> /\ it.op = "emit"
      /\ Push(c, Chained(c, it))
      /\ UNCHANGED <<rows, txRows, snapRows, pending, mem>>
  BY DEF Emit, Next0, HookWrites, tables
<1>2. it \in ItemUpTo(Len(mem[c]))
  BY <1>1, HeadType
<1>3. Len(mem[c]) \in Nat
  BY DEF TypeInv, RunTypeInv
<1>4. it.tr \in Transition
  BY <1>1, <1>2, <1>3, ItemTypes
<1> HIDE DEF it
<1>5. Chained(c, it) \in Seq(ItemUpTo(Len(mem[c])))
  BY <1>1, <1>2, ChainedType
<1> DEFINE n == Len(Chained(c, it))
<1>6. n \in Nat /\ Chained(c, it) = [i \in 1 .. n |-> Chained(c, it)[i]]
      /\ \A i \in 1 .. n : Chained(c, it)[i] \in ItemUpTo(Len(mem[c]))
  BY <1>5
<1>7. n = Len(it.tr.chain)
  <2>1. it.tr.chain \in Seq(InnerEvent) /\ Len(it.tr.chain) \in Nat
    BY <1>4 DEF Transition
  <2> QED BY <2>1 DEF Chained
<1>8. \A i \in 1 .. n : /\ Chained(c, it)[i].act = it.act
                        /\ Chained(c, it)[i].spec.keys = mem[c][it.act].keys
  BY <1>7 DEF Chained, Run, Spec0
<1>9. \A i \in 1 .. n : Chained(c, it)[i] \in ItemOn(mem[c])
  BY <1>6, <1>8 DEF ItemOn
<1>10. Chained(c, it) \in Seq(ItemOn(mem[c]))
  BY <1>6, <1>9, IsASeq
<1> QED BY <1>1, <1>10, PushKeepsKeys

LEMMA NextKeys ==
  ASSUME TypeInv, PendingInv, KeysInv, [Next]_vars
  PROVE  KeysInv'
<1>1. CASE UNCHANGED vars
  BY <1>1, SameKeys DEF vars, dbVars, runVars
<1>2. ASSUME NEW c \in Clients, Call(c) \/ Resend(c) \/ Step(c) \/ Fault(c)
      PROVE  KeysInv'
  <2>1. ASSUME NEW why, Abort(c, why)
        PROVE  KeysInv'
    BY <2>1, RollbackKeepsKeys DEF Abort
  <2>2. CASE Call(c) \/ Resend(c)
    BY <2>2, SameKeys DEF Call, Resend, Ask, dbVars, runVars
  <2>3. CASE Open(c)
    BY <2>3, OpenKeepsKeys
  <2>4. CASE InvalidSpec(c) \/ RunFails(c) \/ CallbackFails(c)
    BY <2>1, <2>4 DEF InvalidSpec, RunFails, CallbackFails
  <2>5. CASE UniqueCheck(c)
    BY <2>5, UniqueCheckKeepsKeys
  <2>6. CASE Load(c)
    BY <2>6, LoadKeepsKeys
  <2>7. CASE Upsert(c)
    BY <2>7, UpsertKeepsKeys
  <2>8. CASE SerializationFailure(c) \/ DeadlockVictim(c)
    BY <2>8, RollbackKeepsKeys DEF SerializationFailure, DeadlockVictim, Retry
  <2>9. CASE Insert(c)
    BY <2>9, InsertKeepsKeys DEF Insert, PendingInv
  <2>10. CASE Emit(c)
    BY <2>10, EmitKeepsKeys
  <2>11. CASE Commit(c) \/ CommitUnacked(c)
    BY <2>11, CommitKeepsKeys DEF Commit, CommitUnacked
  <2>12. CASE Crash(c)
    BY <2>12, RollbackKeepsKeys DEF Crash
  <2> QED BY <1>2, <2>2, <2>3, <2>4, <2>5, <2>6, <2>7, <2>8, <2>9, <2>10, <2>11, <2>12
          DEF Step, Fault
<1> QED BY <1>1, <1>2 DEF Next, Rest

LEMMA InitKeys ==
  ASSUME Init
  PROVE  KeysInv
BY EmptySeq DEF Init, DBInit, KeysInv, FiledByKeys, NoRows

-----------------------------------------------------------------------------
(***************************************************************************)
(* Replies.                                                                *)
(***************************************************************************)
LEMMA EventsGrowKeepReplies ==
  ASSUME ReplyInv, events \subseteq events'
  PROVE  /\ \A r \in replies : \E e \in events' : Answers(e, r)
         /\ \A d \in Clients : \A i \in DOMAIN ret[d] :
              \E e \in events' \cup txEvents[d] : Answers(e, ret[d][i])
         /\ \A d \in Clients : snapEvents[d] \subseteq events'
BY DEF ReplyInv, RepliesAreSnapshots, ReturnsAreSnapshots, SnapshotsCommitted, Answers

LEMMA RollbackKeepsReplyInv ==
  ASSUME TypeInv, ReplyInv, NEW c \in Clients, RollbackTx(c), DropRun(c),
         UNCHANGED replies
  PROVE  ReplyInv'
<1>1. /\ UNCHANGED <<events, replies>>
      /\ txEvents' = [txEvents EXCEPT ![c] = {}]
      /\ snapEvents' = [snapEvents EXCEPT ![c] = {}]
      /\ ret' = [ret EXCEPT ![c] = <<>>]
      /\ DOMAIN txEvents = Clients /\ DOMAIN ret = Clients /\ DOMAIN snapEvents = Clients
  BY DEF RollbackTx, ClearTx, tables, DropRun, TypeInv, RunTypeInv, DBTypeOK
<1>2. ReturnsAreSnapshots'
  BY <1>1 DEF ReplyInv, ReturnsAreSnapshots, Answers
<1>3. SnapshotsCommitted' /\ RepliesAreSnapshots'
  BY <1>1 DEF ReplyInv, SnapshotsCommitted, RepliesAreSnapshots
<1> QED BY <1>2, <1>3 DEF ReplyInv

LEMMA CommitKeepsReplyInv ==
  ASSUME TypeInv, ReplyInv, NEW c \in Clients, CommitTx(c), DropRun(c),
         replies' \subseteq replies \cup ToSet(ret[c])
  PROVE  ReplyInv'
<1>1. /\ events' = events \cup txEvents[c]
      /\ txEvents' = [txEvents EXCEPT ![c] = {}]
      /\ snapEvents' = [snapEvents EXCEPT ![c] = {}]
      /\ ret' = [ret EXCEPT ![c] = <<>>]
      /\ DOMAIN txEvents = Clients /\ DOMAIN ret = Clients /\ DOMAIN snapEvents = Clients
  BY DEF CommitTx, ClearTx, DropRun, TypeInv, RunTypeInv, DBTypeOK
<1>2. ReturnsAreSnapshots' /\ SnapshotsCommitted'
  BY <1>1, EventsGrowKeepReplies DEF ReturnsAreSnapshots, SnapshotsCommitted, Answers
<1>3. ASSUME NEW r \in replies'
      PROVE  \E e \in events' : Answers(e, r)
  <2>1. CASE r \in replies
    BY <1>1, <2>1, EventsGrowKeepReplies
  <2>2. CASE r \in ToSet(ret[c])
    BY <1>1, <2>2 DEF ToSet, ReplyInv, ReturnsAreSnapshots
  <2> QED BY <2>1, <2>2
<1>4. RepliesAreSnapshots'
  BY <1>3 DEF RepliesAreSnapshots, Answers
<1> QED BY <1>2, <1>4 DEF ReplyInv

LEMMA SameEventsKeepReplyInv ==
  ASSUME ReplyInv, UNCHANGED <<events, txEvents, snapEvents, ret, replies>>
  PROVE  ReplyInv'
BY DEF ReplyInv, RepliesAreSnapshots, ReturnsAreSnapshots, SnapshotsCommitted, Answers

(* A new return, for an event that is committed or written by c. *)
LEMMA ReturnKeepsReplyInv ==
  ASSUME TypeInv, ReplyInv, NEW c \in Clients, NEW i \in Nat, NEW reply \in Reply,
         Return(c, i, reply), UNCHANGED <<events, snapEvents, replies>>,
         \A d \in Clients \ {c} : txEvents'[d] = txEvents[d],
         txEvents[c] \subseteq txEvents'[c],
         \E e \in events \cup txEvents'[c] : Answers(e, reply)
  PROVE  ReplyInv'
<1>1. ret[c] \in Seq(Reply) /\ DOMAIN ret = Clients
  BY DEF TypeInv, RunTypeInv
<1>2. ASSUME NEW d \in Clients, NEW j \in DOMAIN ret'[d]
      PROVE  \E e \in events' \cup txEvents'[d] : Answers(e, ret'[d][j])
  <2>1. CASE ret'[d] = ret[d]
    BY <2>1 DEF ReplyInv, ReturnsAreSnapshots
  <2>2. CASE d = c /\ ret'[d] = Append(ret[c], reply)
    <3>1. (j \in DOMAIN ret[c] /\ ret'[c][j] = ret[c][j]) \/ ret'[c][j] = reply
      BY <1>1, <2>2, AppendProperties
    <3> QED BY <2>2, <3>1 DEF ReplyInv, ReturnsAreSnapshots
  <2> QED BY <1>1, <2>1, <2>2 DEF Return
<1>3. ReturnsAreSnapshots'
  BY <1>2 DEF ReturnsAreSnapshots, Answers
<1>4. SnapshotsCommitted' /\ RepliesAreSnapshots'
  BY DEF ReplyInv, SnapshotsCommitted, RepliesAreSnapshots
<1> QED BY <1>3, <1>4 DEF ReplyInv

LEMMA OpenKeepsReplyInv ==
  ASSUME TypeInv, ReplyInv, NEW c \in Clients, Open(c)
  PROVE  ReplyInv'
<1>1. UNCHANGED <<events, txEvents, ret, replies>>
  BY DEF Open, BeginTx, tables
<1>2. \A d \in Clients : snapEvents'[d] \in {snapEvents[d], events}
  BY DEF Open, BeginTx, TypeInv, DBTypeOK
<1>3. SnapshotsCommitted'
  BY <1>1, <1>2 DEF ReplyInv, SnapshotsCommitted
<1> QED BY <1>1, <1>3 DEF ReplyInv, RepliesAreSnapshots, ReturnsAreSnapshots, Answers

LEMMA UniqueCheckKeepsReplyInv ==
  ASSUME TypeInv, ReplyInv, NEW c \in Clients, UniqueCheck(c)
  PROVE  ReplyInv'
<1> DEFINE it    == Head(agenda[c])
           spec  == WithID(WithCause(it.spec))
           ref   == [machine |-> MachineOf[spec.keys.entity], id |-> spec.id]
           found == {e \in VisibleEvents(c) : RefOf(e) = ref}
           reply(e) == [id |-> e.id, inner |-> spec.inner, keys |-> spec.keys,
                        state |-> Answer(c, e)]
<1>1. \/ UNCHANGED <<dbVars, ret, replies>>
      \/ \E e \in found : /\ e.inner = spec.inner
                           /\ Return(c, it.call, reply(e))
                           /\ UNCHANGED <<dbVars, replies>>
      \/ Abort(c, "duplicate ID")
  BY DEF UniqueCheck
<1>2. CASE UNCHANGED <<dbVars, ret, replies>>
  BY <1>2, SameEventsKeepReplyInv DEF dbVars
<1>3. CASE \E e \in found : /\ e.inner = spec.inner
                            /\ Return(c, it.call, reply(e))
                            /\ UNCHANGED <<dbVars, replies>>
  <2>1. PICK e \in found : /\ e.inner = spec.inner
                           /\ Return(c, it.call, reply(e))
                           /\ UNCHANGED <<dbVars, replies>>
    BY <1>3
  <2>2. it.spec \in EventSpec /\ it.call \in Nat /\ ValidSpec(it.spec)
    <3>1. Len(mem[c]) \in Nat
      BY DEF TypeInv, RunTypeInv
    <3> QED BY <3>1, HeadType, ItemTypes DEF UniqueCheck, Next0
  <2>3. spec \in EventSpec
    BY <2>2, PreparedType DEF TypeInv, CountTypeOK
  <2>4. e \in EventRow
    BY VisibleTypes
  <2>5. e \in events \cup txEvents[c] /\ RefOf(e) = ref
    BY DEF VisibleEvents, ReplyInv, SnapshotsCommitted
  <2> HIDE DEF spec
  <2>6. reply(e) \in Reply
    BY <2>3, <2>4 DEF Reply, EventRow, EventSpec, Answer
  <2>7. Answers(e, reply(e))
    BY <2>1, <2>5 DEF Answers, Answer, RefOf
  <2> HIDE DEF reply
  <2> QED BY <2>1, <2>2, <2>5, <2>6, <2>7, ReturnKeepsReplyInv DEF dbVars
<1>4. CASE Abort(c, "duplicate ID")
  BY <1>4, RollbackKeepsReplyInv DEF Abort
<1> QED BY <1>1, <1>2, <1>3, <1>4

LEMMA InsertKeepsReplyInv ==
  ASSUME TypeInv, KeysInv, ReplyInv, NEW c \in Clients, Insert(c)
  PROVE  ReplyInv'
<1> DEFINE p     == pending[c]
           reply == [id |-> p.row.id, inner |-> p.row.inner, keys |-> p.keys,
                     state |-> p.row.snapshot]
           Done  == /\ InsertEvent(c, p.row) /\ Return(c, p.call, reply)
                    /\ UNCHANGED replies
<1>1. p # NoPending /\ (Done \/ Abort(c, "unique violation"))
  BY DEF Insert
<1>2. CASE Done
  <2>1. p \in Pending
    BY <1>1 DEF TypeInv, RunTypeInv
  <2>2. p.row \in EventRow /\ p.keys \in Keys /\ p.call \in Nat
    BY <2>1 DEF Pending
  <2>3. reply \in Reply
    BY <2>2 DEF Reply, EventRow
  <2>4. txEvents' = [txEvents EXCEPT ![c] = @ \cup {p.row}]
        /\ UNCHANGED <<events, snapEvents>> /\ DOMAIN txEvents = Clients
    BY <1>2 DEF InsertEvent, tables, TypeInv, DBTypeOK
  <2>5. MachineOf[p.row.keys.entity] = MachineOf[p.keys.entity]
    BY <1>1 DEF KeysInv
  <2>6. Answers(p.row, reply)
    BY <2>5 DEF Answers
  <2> HIDE DEF p, reply
  <2> QED BY <1>2, <2>2, <2>3, <2>4, <2>6, ReturnKeepsReplyInv
<1>3. CASE Abort(c, "unique violation")
  BY <1>3, RollbackKeepsReplyInv DEF Abort
<1> QED BY <1>1, <1>2, <1>3

LEMMA NextReplyInv ==
  ASSUME TypeInv, PendingInv, KeysInv, ReplyInv, [Next]_vars
  PROVE  ReplyInv'
<1>1. CASE UNCHANGED vars
  BY <1>1, SameEventsKeepReplyInv DEF vars, dbVars, runVars
<1>2. ASSUME NEW c \in Clients, Call(c) \/ Resend(c) \/ Step(c) \/ Fault(c)
      PROVE  ReplyInv'
  <2>1. ASSUME NEW why, Abort(c, why)
        PROVE  ReplyInv'
    BY <2>1, RollbackKeepsReplyInv DEF Abort
  <2>2. CASE Call(c) \/ Resend(c)
    BY <2>2, SameEventsKeepReplyInv DEF Call, Resend, Ask, dbVars, runVars
  <2>3. CASE Open(c)
    BY <2>3, OpenKeepsReplyInv
  <2>4. CASE InvalidSpec(c) \/ RunFails(c) \/ CallbackFails(c)
    BY <2>1, <2>4 DEF InvalidSpec, RunFails, CallbackFails
  <2>5. CASE UniqueCheck(c)
    BY <2>5, UniqueCheckKeepsReplyInv
  <2>6. CASE Load(c)
    BY <2>1, <2>6, SameEventsKeepReplyInv DEF Load, dbVars
  <2>7. CASE Upsert(c)
    BY <2>7, SameEventsKeepReplyInv DEF Upsert, UpsertRow, tables
  <2>8. CASE SerializationFailure(c) \/ DeadlockVictim(c)
    BY <2>8, RollbackKeepsReplyInv DEF SerializationFailure, DeadlockVictim, Retry
  <2>9. CASE Insert(c)
    BY <2>9, InsertKeepsReplyInv
  <2>10. CASE Emit(c)
    BY <2>10, SameEventsKeepReplyInv DEF Emit, HookWrites, tables
  <2>11. CASE Commit(c) \/ CommitUnacked(c)
    BY <2>11, CommitKeepsReplyInv DEF Commit, CommitUnacked
  <2>12. CASE Crash(c)
    BY <2>12, RollbackKeepsReplyInv DEF Crash
  <2> QED BY <1>2, <2>2, <2>3, <2>4, <2>5, <2>6, <2>7, <2>8, <2>9, <2>10, <2>11, <2>12
          DEF Step, Fault
<1> QED BY <1>1, <1>2 DEF Next, Rest

(***************************************************************************)
(* A reply, first answer or repeat, is the snapshot stored with the event  *)
(* it asked for, in any interleaving, through rollbacks, retries, crashes  *)
(* and lost replies.                                                       *)
(***************************************************************************)
THEOREM RepliesCorrect == Spec => []RepliesAreSnapshots
<1>1. Init => KeysInv /\ ReplyInv
  BY InitKeys DEF Init, DBInit, ReplyInv, RepliesAreSnapshots, ReturnsAreSnapshots,
                  SnapshotsCommitted
<1>2. TypeInv /\ PendingInv /\ KeysInv /\ ReplyInv /\ [Next]_vars => (KeysInv /\ ReplyInv)'
  BY NextKeys, NextReplyInv
<1>3. ReplyInv => RepliesAreSnapshots
  BY DEF ReplyInv
<1> QED BY <1>1, <1>2, <1>3, TypeInvariant, PTL DEF Spec
=============================================================================
