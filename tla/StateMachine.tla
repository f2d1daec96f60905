---------------------------- MODULE StateMachine ----------------------------
(***************************************************************************)
(* psm.StateMachine: callers run events against entities, each call in a   *)
(* database transaction that the transaction wrapper runs again after a    *)
(* serialization failure or a deadlock (psm/statemachine.go, psm/run.go).  *)
(*                                                                         *)
(* A client is a caller's goroutine.  It executes an agenda, the work the  *)
(* current attempt has left, in the order the nested Go calls run it:      *)
(*   runTx   validateAndPrepare and firstEventUniqueCheck,                 *)
(*   load    getCurrentState and runInitialEvent,                          *)
(*   run     prepareEvent, the mutations, and the two writes of store,     *)
(*   emit    what the hooks put on the baton: outbox, then chained events. *)
(* One step is one statement of the database, the grain at which           *)
(* transactions interleave.                                                *)
(***************************************************************************)
EXTENDS TransitionSet, Postgres

CONSTANTS
  Jobs,          \* the calls callers make: the specs run in one transaction
  InitialEvent,  \* [Machines -> InnerEvent \cup {NoInner}], initialStateFunc
  NoInner,       \* no initialStateFunc
  NoPending,     \* no event waits for its insert
  MaxCalls,      \* bound: calls and resends of one client
  MaxAttempts,   \* bound: attempts the transaction wrapper makes at one call
  MaxFaults      \* bound: crashes, failing statements and lost replies

ASSUME JobsAssumption ==
  /\ Jobs \subseteq Seq(EventSpec)
  /\ InitialEvent \in [Machines -> InnerEvent \cup {NoInner}]
  /\ NoInner \notin InnerEvent
  /\ MaxCalls \in Nat /\ MaxAttempts \in Nat /\ MaxFaults \in Nat

VARIABLES
  pc,         \* [Clients -> where the caller is]
  error,      \* [Clients -> why the last call failed]
  asked,      \* [Clients -> the specs as the caller first wrote them]
  job,        \* [Clients -> those specs as runTx has changed them since]
  attempts,   \* [Clients -> attempts of this call so far]
  agenda,     \* [Clients -> Seq(Item)]
  pending,    \* [Clients -> the event store has yet to insert]
  mem,        \* [Clients -> the in-memory state of each runTx so far]
  ret,        \* [Clients -> what the specs of the call have returned so far]
  minted,     \* the number of UUIDs drawn
  replies,    \* every reply a caller has received
  calls, faults

callVars == <<pc, error, asked, job, attempts>>
runVars  == <<agenda, pending, mem, ret>>
vars     == <<dbVars, callVars, runVars, minted, replies, calls, faults>>

Errors ==
  {"none", "invalid spec", "duplicate ID", "missing key", "key mismatch",
   "no transition", "zero status", "unique violation", "callback",
   "retries exhausted"}

(***************************************************************************)
(* Agenda items.  call is the index of the caller's spec the item belongs  *)
(* to, 0 for linked, chained and initial events; act is the runTx whose    *)
(* in-memory state the item works on.                                      *)
(***************************************************************************)
PreparedSpec == {s \in EventSpec : s.id # NoId /\ s.cause # NoCause}

Item ==
  [op : {"runTx"}, spec : EventSpec, call : Nat]
    \cup [op : {"load"}, spec : PreparedSpec, call : Nat]
    \cup [op : {"run"}, spec : PreparedSpec, call : Nat, act : Nat \ {0}]
    \cup [op : {"emit"}, ref : EventRef, tr : Transition, act : Nat \ {0}]

Pending ==
  [row : EventRow, keys : Keys, tr : Transition, call : Nat, act : Nat \ {0}]

ASSUME NoPendingAssumption == NoPending \notin Pending

(* What a spec of a call returns: the keys it named, and the state it gets. *)
Reply == [id : EventIds, inner : InnerEvent, keys : Keys, state : State]

Spec0(keys, id, inner, cause) ==
  [keys |-> keys, id |-> id, inner |-> inner, cause |-> cause,
   action |-> FALSE, message |-> FALSE]

RunTx(spec, call)    == [op |-> "runTx", spec |-> spec, call |-> call]
Run(spec, call, act) == [op |-> "run", spec |-> spec, call |-> call, act |-> act]

Busy(c) == pc[c] \in {"called", "open"}

Next0(c, op) ==
  /\ pc[c] = "open" /\ pending[c] = NoPending
  /\ agenda[c] # <<>> /\ Head(agenda[c]).op = op

Push(c, items) == agenda' = [agenda EXCEPT ![c] = items \o Tail(@)]

(***************************************************************************)
(* Every variable keeps to its type.                                       *)
(***************************************************************************)
TypeOK ==
  /\ DBTypeOK
  /\ pc \in [Clients -> {"idle", "called", "open", "done", "failed", "lost"}]
  /\ error \in [Clients -> Errors]
  /\ asked \in [Clients -> Seq(EventSpec)] /\ job \in [Clients -> Seq(EventSpec)]
  /\ attempts \in [Clients -> Nat]
  /\ agenda \in [Clients -> Seq(Item)]
  /\ pending \in [Clients -> Pending \cup {NoPending}]
  /\ mem \in [Clients -> Seq(State)]
  /\ ret \in [Clients -> Seq(Reply)]
  /\ minted \in Nat
  /\ replies \in SUBSET Reply
  /\ calls \in [Clients -> Nat] /\ faults \in Nat

Init ==
  /\ DBInit
  /\ pc = [c \in Clients |-> "idle"] /\ error = [c \in Clients |-> "none"]
  /\ asked = [c \in Clients |-> <<>>] /\ job = [c \in Clients |-> <<>>]
  /\ attempts = [c \in Clients |-> 0]
  /\ agenda = [c \in Clients |-> <<>>] /\ pending = [c \in Clients |-> NoPending]
  /\ mem = [c \in Clients |-> <<>>] /\ ret = [c \in Clients |-> <<>>]
  /\ minted = 0 /\ replies = {}
  /\ calls = [c \in Clients |-> 0] /\ faults = 0

-----------------------------------------------------------------------------
(***************************************************************************)
(* The caller: a new call, or the same one again, either with the specs it *)
(* still holds or with specs it builds afresh.                             *)
(***************************************************************************)
Ask(c, specs) ==
  /\ ~Busy(c) /\ calls[c] < MaxCalls
  /\ pc' = [pc EXCEPT ![c] = "called"]
  /\ error' = [error EXCEPT ![c] = "none"]
  /\ job' = [job EXCEPT ![c] = specs]
  /\ attempts' = [attempts EXCEPT ![c] = 0]
  /\ calls' = [calls EXCEPT ![c] = @ + 1]
  /\ UNCHANGED <<dbVars, runVars, minted, replies, faults>>

Call(c) ==
  \E specs \in Jobs : Ask(c, specs) /\ asked' = [asked EXCEPT ![c] = specs]

Resend(c) ==
  /\ pc[c] # "idle"
  /\ Ask(c, job[c]) \/ Ask(c, asked[c])
  /\ UNCHANGED asked

(***************************************************************************)
(* Transact: an attempt begins, running the specs of the call one by one.  *)
(***************************************************************************)
Open(c) ==
  /\ pc[c] = "called"
  /\ BeginTx(c)
  /\ pc' = [pc EXCEPT ![c] = "open"]
  /\ attempts' = [attempts EXCEPT ![c] = @ + 1]
  /\ agenda' = [agenda EXCEPT ![c] = [i \in 1 .. Len(job[c]) |-> RunTx(job[c][i], i)]]
  /\ UNCHANGED <<error, asked, job, pending, mem, ret, minted, replies, calls, faults>>

(* Mutant: what an attempt returned outlives the attempt. *)
DropRunKeepsReturns(c) ==
  /\ agenda' = [agenda EXCEPT ![c] = <<>>]
  /\ pending' = [pending EXCEPT ![c] = NoPending]
  /\ mem' = [mem EXCEPT ![c] = <<>>]
  /\ UNCHANGED ret

DropRun(c) ==
  /\ agenda' = [agenda EXCEPT ![c] = <<>>]
  /\ pending' = [pending EXCEPT ![c] = NoPending]
  /\ mem' = [mem EXCEPT ![c] = <<>>]
  /\ ret' = [ret EXCEPT ![c] = <<>>]

(* Mutant: the deferred rollback is forgotten, the transaction stays open. *)
AbortLeavesTxOpen(c, why) ==
  /\ UNCHANGED dbVars /\ DropRun(c)
  /\ pc' = [pc EXCEPT ![c] = "failed"]
  /\ error' = [error EXCEPT ![c] = why]
  /\ UNCHANGED <<asked, attempts, replies, calls>>

(* Mutant: an error in the callback does not stop the commit. *)
AbortCommits(c, why) ==
  /\ CommitTx(c) /\ DropRun(c)
  /\ pc' = [pc EXCEPT ![c] = "failed"]
  /\ error' = [error EXCEPT ![c] = why]
  /\ UNCHANGED <<asked, attempts, replies, calls>>

(***************************************************************************)
(* The callback returns an error: rollback, and the call fails.            *)
(***************************************************************************)
Abort(c, why) ==
  /\ RollbackTx(c) /\ DropRun(c)
  /\ pc' = [pc EXCEPT ![c] = "failed"]
  /\ error' = [error EXCEPT ![c] = why]
  /\ UNCHANGED <<asked, attempts, replies, calls>>

(***************************************************************************)
(* TxOptions.Retryable: after a serialization failure or a deadlock the    *)
(* wrapper rolls back and runs the callback again, with the same specs.    *)
(***************************************************************************)
Retry(c) ==
  /\ RollbackTx(c) /\ DropRun(c)
  /\ IF attempts[c] < MaxAttempts
     THEN pc' = [pc EXCEPT ![c] = "called"] /\ UNCHANGED error
     ELSE /\ pc' = [pc EXCEPT ![c] = "failed"]
          /\ error' = [error EXCEPT ![c] = "retries exhausted"]
  /\ UNCHANGED <<asked, job, attempts, minted, replies, calls, faults>>

-----------------------------------------------------------------------------
(***************************************************************************)
(* validateAndPrepare: the cause it derives from Action or Message it      *)
(* writes into the caller's spec.                                          *)
(***************************************************************************)
ValidSpec(spec) ==
  /\ ~(spec.cause # NoCause /\ (spec.action \/ spec.message))
  /\ ~(spec.action /\ spec.message)
  /\ spec.cause # NoCause \/ spec.action \/ spec.message

WithCause(spec) ==
  IF spec.cause # NoCause THEN spec
  ELSE IF spec.action THEN [spec EXCEPT !.cause = CauseOf("command")]
  ELSE IF spec.message THEN [spec EXCEPT !.cause = CauseOf("message")]
  ELSE spec

(* Mutant: an empty EventID is not replaced. *)
NoNewID(spec) == spec

WithID(spec) == IF spec.id = NoId THEN [spec EXCEPT !.id = minted + 1] ELSE spec

DrawIDs(n) == minted' = minted + n

(* The caller's spec is changed in place; a link's spec is the library's. *)
WriteBack(c, i, spec) ==
  job' = IF i \in DOMAIN job[c] THEN [job EXCEPT ![c][i] = spec] ELSE job

(* Mutant: a repeat is answered with the state as it is now. *)
CurrentAnswer(c, e) == VisibleRow(c, e.keys.entity)

(* A repeat is answered with the state stored beside the event. *)
Answer(c, e) == e.snapshot

(* Only the caller's own specs return a state; what links return is dropped. *)
Return(c, i, reply) ==
  ret' = IF i = 0 THEN ret ELSE [ret EXCEPT ![c] = Append(@, reply)]

(***************************************************************************)
(* The head of runTx, up to the result of firstEventUniqueCheck.           *)
(***************************************************************************)
InvalidSpec(c) ==
  LET it == Head(agenda[c]) IN
  /\ Next0(c, "runTx") /\ ~ValidSpec(it.spec)
  /\ WriteBack(c, it.call, WithCause(it.spec))
  /\ Abort(c, "invalid spec")
  /\ UNCHANGED <<minted, faults>>

UniqueCheck(c) ==
  LET it    == Head(agenda[c])
      spec  == WithID(WithCause(it.spec))
      ref   == [machine |-> MachineOf[spec.keys.entity], id |-> spec.id]
      found == {e \in VisibleEvents(c) : RefOf(e) = ref}
  IN
  /\ Next0(c, "runTx") /\ ValidSpec(it.spec)
  /\ WriteBack(c, it.call, spec)
  /\ DrawIDs(IF it.spec.id = NoId THEN 1 ELSE 0)
  /\ UNCHANGED faults
  /\ \/ /\ found = {}
        /\ Push(c, <<[op |-> "load", spec |-> spec, call |-> it.call]>>)
        /\ UNCHANGED <<dbVars, pc, error, asked, attempts, pending, mem, ret, replies, calls>>
     \/ \E e \in found :
          /\ e.inner = spec.inner
          /\ Push(c, <<>>)
          /\ Return(c, it.call, [id |-> e.id, inner |-> spec.inner,
                                 keys |-> spec.keys, state |-> Answer(c, e)])
          /\ UNCHANGED <<dbVars, pc, error, asked, attempts, pending, mem, replies, calls>>
     \/ /\ \E e \in found : e.inner # spec.inner
        /\ Abort(c, "duplicate ID")

(***************************************************************************)
(* getCurrentState, runInitialEvent and assertPresentKeysMatch.            *)
(***************************************************************************)
InitialRun(keys, act) ==
  LET inner == InitialEvent[MachineOf[keys.entity]]
  IN  IF inner = NoInner THEN <<>>
      ELSE <<Run(Spec0(keys, minted + 1, inner, CauseOf("init")), 0, act)>>

(* Mutant: assertPresentKeysMatch is not called. *)
AnyKeysMatch(given, stored) == TRUE

KeysMatch(given, stored) == given.tenant \in {NoTenant, stored.tenant}

Load(c) ==
  LET it    == Head(agenda[c])
      keys  == it.spec.keys
      state == VisibleRow(c, keys.entity)
      act   == Len(mem[c]) + 1
      init  == InitialRun(keys, act)
  IN
  /\ Next0(c, "load")
  /\ UNCHANGED faults
  /\ \/ /\ state = NoState /\ keys.tenant # NoTenant
        /\ mem' = [mem EXCEPT ![c] = Append(@, EmptyState(keys))]
        /\ Push(c, Append(init, Run(it.spec, it.call, act)))
        /\ DrawIDs(Len(init))
        /\ UNCHANGED <<dbVars, callVars, pending, ret, replies, calls>>
     \/ /\ state = NoState /\ keys.tenant = NoTenant
        /\ Abort(c, "missing key")
        /\ UNCHANGED <<job, minted>>
     \/ /\ state # NoState /\ KeysMatch(keys, state.keys)
        /\ WriteBack(c, it.call, [it.spec EXCEPT !.keys = state.keys])
        /\ Push(c, <<Run(it.spec, it.call, act)>>)
        /\ mem' = [mem EXCEPT ![c] = Append(@, state)]
        /\ UNCHANGED <<dbVars, pc, error, asked, attempts, pending, ret, minted, replies, calls>>
     \/ /\ state # NoState /\ ~KeysMatch(keys, state.keys)
        /\ Abort(c, "key mismatch")
        /\ UNCHANGED <<job, minted>>

(***************************************************************************)
(* prepareEvent and runEvent up to the upsert of store.  The upsert waits  *)
(* for the row's lock; under Serializable it fails if the row has changed. *)
(***************************************************************************)
StateOf(c)      == mem[c][Head(agenda[c]).act]
TransitionOf(c) ==
  TransitionFor[MachineOf[StateOf(c).keys.entity], StateOf(c).status,
                Head(agenda[c]).spec.inner.type]
NewStateOf(c)   == After(StateOf(c), TransitionOf(c), Head(agenda[c]).spec.id)
Runnable(c)     == TransitionOf(c) # NoTransition /\ NewStateOf(c).status # 0

RunFails(c) ==
  /\ Next0(c, "run")
  /\ \/ TransitionOf(c) = NoTransition /\ Abort(c, "no transition")
     \/ /\ TransitionOf(c) # NoTransition /\ NewStateOf(c).status = 0
        /\ Abort(c, "zero status")
  /\ UNCHANGED <<job, minted, faults>>

(* Mutant: the mutations work on a clone of the state. *)
RememberNothing(c, act, state) == UNCHANGED mem

(* runEvent modifies the state in place; chained events go on from it. *)
Remember(c, act, state) == mem' = [mem EXCEPT ![c][act] = state]

Upsert(c) ==
  LET it  == Head(agenda[c])
      new == NewStateOf(c)
      k   == new.keys.entity
  IN
  /\ Next0(c, "run") /\ Runnable(c)
  /\ RowWaitsFor(c, k) = {} /\ ~Conflicts(c, k)
  /\ UpsertRow(c, k, new)
  /\ Remember(c, it.act, new)
  /\ pending' = [pending EXCEPT ![c] =
       [row  |-> [id |-> it.spec.id, keys |-> new.keys,
                  seq |-> NextSequence(StateOf(c)), inner |-> it.spec.inner,
                  cause |-> it.spec.cause, snapshot |-> new],
        keys |-> it.spec.keys, tr |-> TransitionOf(c), call |-> it.call,
        act  |-> it.act]]
  /\ UNCHANGED <<callVars, agenda, ret, minted, replies, calls, faults>>

SerializationFailure(c) ==
  /\ Next0(c, "run") /\ Runnable(c)
  /\ LET k == StateOf(c).keys.entity
     IN  RowWaitsFor(c, k) = {} /\ Conflicts(c, k)
  /\ Retry(c)

(* Mutant: the link goes to the entity whose event has the hook. *)
LinkRunsBack(p) ==
  [i \in 1 .. Len(p.tr.links) |->
     RunTx(Spec0(p.row.keys, NoId, p.tr.links[i].inner, PSMCause(RefOf(p.row))), 0)]

(* RunLinkHook: one runTx for each event the link callbacks add. *)
LinkRuns(p) ==
  [i \in 1 .. Len(p.tr.links) |->
     RunTx(Spec0(p.tr.links[i].keys, NoId, p.tr.links[i].inner,
                 PSMCause(RefOf(p.row))), 0)]

(***************************************************************************)
(* The event insert of store.  What runEvent returns to the caller is the  *)
(* state at this point, cloned before any hook or chained event runs.      *)
(***************************************************************************)
Insert(c) ==
  LET p    == pending[c]
      emit == [op |-> "emit", ref |-> RefOf(p.row), tr |-> p.tr, act |-> p.act]
  IN
  /\ p # NoPending /\ EventWaitsFor(c, RefOf(p.row)) = {}
  /\ UNCHANGED <<minted, faults, job>>
  /\ \/ /\ ~RefTaken(c, RefOf(p.row))
        /\ InsertEvent(c, p.row)
        /\ pending' = [pending EXCEPT ![c] = NoPending]
        /\ Push(c, Append(LinkRuns(p), emit))
        /\ Return(c, p.call, [id |-> p.row.id, inner |-> p.row.inner,
                              keys |-> p.keys, state |-> p.row.snapshot])
        /\ UNCHANGED <<pc, error, asked, attempts, mem, replies, calls>>
     \/ RefTaken(c, RefOf(p.row)) /\ Abort(c, "unique violation")

(* Mutant: state hooks run once, after the first transition. *)
DerivedOnce(c, it) ==
  LET state == mem[c][it.act]
      old   == txDerived[c][state.keys.entity]
  IN  IF it.tr.derives /\ old = NoState THEN state ELSE old

(* State hooks derive their table from the state in memory. *)
DerivedBy(c, it) ==
  LET state == mem[c][it.act]
  IN  IF it.tr.derives THEN state ELSE txDerived[c][state.keys.entity]

(* The baton's messages, in the order the hooks put them there. *)
SideEffects(it) ==
  [i \in 1 .. Len(it.tr.sends) |-> [msg |-> it.tr.sends[i], cause |-> it.ref]]

(* Mutant: the first chained event ends the loop. *)
FirstChained(c, it) ==
  [i \in 1 .. (IF it.tr.chain = <<>> THEN 0 ELSE 1) |->
     Run(Spec0(mem[c][it.act].keys, minted + i, it.tr.chain[i], PSMCause(it.ref)),
         0, it.act)]

(* deriveEvent, for each of the baton's chained events. *)
Chained(c, it) ==
  [i \in 1 .. Len(it.tr.chain) |->
     Run(Spec0(mem[c][it.act].keys, minted + i, it.tr.chain[i], PSMCause(it.ref)),
         0, it.act)]

(***************************************************************************)
(* After the hooks: derived rows, outbox, and the chained events, which    *)
(* run next, ahead of what the outer events have left.  They get new       *)
(* UUIDs, so eventsMustBeUnique has nothing to find.                       *)
(***************************************************************************)
Emit(c) ==
  LET it == Head(agenda[c]) IN
  /\ Next0(c, "emit")
  /\ HookWrites(c, mem[c][it.act].keys.entity, DerivedBy(c, it), SideEffects(it))
  /\ Push(c, Chained(c, it))
  /\ DrawIDs(Len(Chained(c, it)))
  /\ UNCHANGED <<callVars, pending, mem, ret, replies, calls, faults>>

-----------------------------------------------------------------------------
Finished(c) == pc[c] = "open" /\ agenda[c] = <<>> /\ pending[c] = NoPending

Commit(c) ==
  /\ Finished(c)
  /\ CommitTx(c) /\ DropRun(c)
  /\ pc' = [pc EXCEPT ![c] = "done"]
  /\ replies' = replies \cup ToSet(ret[c])
  /\ UNCHANGED <<error, asked, job, attempts, minted, calls, faults>>

(***************************************************************************)
(* The database breaks a cycle of waiting transactions by failing one.     *)
(***************************************************************************)
WaitsFor(c) ==
  IF pc[c] # "open" THEN {}
  ELSE IF pending[c] # NoPending THEN EventWaitsFor(c, RefOf(pending[c].row))
  ELSE IF Next0(c, "run") /\ Runnable(c) THEN RowWaitsFor(c, StateOf(c).keys.entity)
  ELSE {}

Deadlocked(c) ==
  \E ring \in SUBSET Clients :
    /\ c \in ring
    /\ \A d \in ring : WaitsFor(d) \cap ring # {}
    /\ ring = UNION {WaitsFor(d) \cap ring : d \in ring}

DeadlockVictim(c) == Deadlocked(c) /\ Retry(c)

(***************************************************************************)
(* Faults, each spending the budget: a hook, a mutation or a statement     *)
(* fails; the process dies; the commit succeeds but its reply is lost.     *)
(***************************************************************************)
SpendFault == faults < MaxFaults /\ faults' = faults + 1

CallbackFails(c) ==
  /\ pc[c] = "open" /\ SpendFault
  /\ Abort(c, "callback")
  /\ UNCHANGED <<job, minted>>

Crash(c) ==
  /\ Busy(c) /\ SpendFault
  /\ RollbackTx(c) /\ DropRun(c)
  /\ pc' = [pc EXCEPT ![c] = "lost"]
  /\ job' = [job EXCEPT ![c] = asked[c]]
  /\ UNCHANGED <<error, asked, attempts, minted, replies, calls>>

CommitUnacked(c) ==
  /\ Finished(c) /\ SpendFault
  /\ CommitTx(c) /\ DropRun(c)
  /\ pc' = [pc EXCEPT ![c] = "lost"]
  /\ UNCHANGED <<error, asked, job, attempts, minted, replies, calls>>

-----------------------------------------------------------------------------
Step(c) ==
  \/ Open(c) \/ InvalidSpec(c) \/ UniqueCheck(c) \/ Load(c) \/ RunFails(c)
  \/ Upsert(c) \/ SerializationFailure(c) \/ Insert(c) \/ Emit(c) \/ Commit(c)
  \/ DeadlockVictim(c)

Fault(c) == CallbackFails(c) \/ Crash(c) \/ CommitUnacked(c)

(* Every caller has stopped calling. *)
Rest == (\A c \in Clients : ~Busy(c)) /\ UNCHANGED vars

Next ==
  \/ \E c \in Clients : Call(c) \/ Resend(c) \/ Step(c) \/ Fault(c)
  \/ Rest

Spec == Init /\ [][Next]_vars

(***************************************************************************)
(* A goroutine inside Transact runs on, and the database finds deadlocks.  *)
(***************************************************************************)
FairSpec == Spec /\ \A c \in Clients : WF_vars(Step(c))
-----------------------------------------------------------------------------
EventsOf(k) == {e \in events : e.keys.entity = k}

(***************************************************************************)
(* Every reply a caller ever got, first answer or repeat, is the snapshot  *)
(* stored with the event it asked for: a resent event is answered as it    *)
(* was the first time, and no reply outlives a rolled back transaction     *)
(* (firstEventUniqueCheck, captureInitialState).                           *)
(***************************************************************************)
RepliesAreSnapshots ==
  \A r \in replies : \E e \in events :
    /\ e.id = r.id /\ MachineOf[e.keys.entity] = MachineOf[r.keys.entity]
    /\ e.inner = r.inner /\ e.snapshot = r.state

(***************************************************************************)
(* The state row of an entity is the snapshot of one of its events, and an *)
(* entity has a row exactly when it has events: the two writes of store    *)
(* never come apart, whatever fails between them.                          *)
(***************************************************************************)
RowsAreSnapshots ==
  \A k \in Entities :
    IF rows[k] = NoState THEN EventsOf(k) = {}
    ELSE \E e \in EventsOf(k) : e.snapshot = rows[k]

(***************************************************************************)
(* A reply is about the entity the caller named, under the non-primary key *)
(* it gave, if it gave one (assertPresentKeysMatch).                       *)
(***************************************************************************)
RepliesMatchRequests ==
  \A r \in replies :
    /\ r.state.keys.entity = r.keys.entity
    /\ r.keys.tenant \in {NoTenant, r.state.keys.tenant}

(***************************************************************************)
(* What a caller sends: event IDs of its own or none, and a cause that is  *)
(* not the event of a state machine.                                       *)
(***************************************************************************)
FromOutside(spec) == spec.cause # NoCause => spec.cause.type # "psm"

CallersOutside ==
  \A specs \in Jobs : \A i \in DOMAIN specs :
    FromOutside(specs[i]) /\ specs[i].id \notin Nat

(***************************************************************************)
(* How callers use the event IDs they choose: with all keys of the entity, *)
(* and an ID that is sent twice is for the same entity.                    *)
(***************************************************************************)
OwnIds ==
  \A specs, others \in Jobs : \A i \in DOMAIN specs, j \in DOMAIN others :
    specs[i].id # NoId =>
      /\ specs[i].keys.tenant # NoTenant
      /\ (/\ specs[i].id = others[j].id
          /\ MachineOf[specs[i].keys.entity] = MachineOf[others[j].keys.entity])
           => specs[i].keys = others[j].keys

(***************************************************************************)
(* A committed event has had all the effects of its hooks, each once: its  *)
(* messages are in the outbox, its links and chained events in the event   *)
(* tables; and no message or caused event is there without its cause.      *)
(***************************************************************************)
CausedBy(ref) == {e \in events : e.cause = PSMCause(ref)}

(* The messages of one event are written together, in their order. *)
Sent(box, ref, msgs) ==
  \E n \in 0 .. Len(box) - Len(msgs) : \A i \in DOMAIN box :
    IF i \in n + 1 .. n + Len(msgs)
    THEN box[i] = [msg |-> msgs[i - n], cause |-> ref]
    ELSE box[i].cause # ref

HasEffects(e, tr) ==
  /\ Sent(outbox, RefOf(e), tr.sends)
  /\ Cardinality(CausedBy(RefOf(e))) = Len(tr.links) + Len(tr.chain)
  /\ \A i \in DOMAIN tr.links : \E x \in CausedBy(RefOf(e)) :
       x.keys.entity = tr.links[i].keys.entity /\ x.inner = tr.links[i].inner
  /\ \A i \in DOMAIN tr.chain : \E x \in CausedBy(RefOf(e)) :
       x.keys = e.keys /\ x.inner = tr.chain[i]

EffectsMatchLog ==
  /\ \A e \in events : \E s \in Statuses :
       LET tr == TransitionFor[MachineOf[e.keys.entity], s, e.inner.type]
       IN  tr # NoTransition /\ HasEffects(e, tr)
  /\ \A i \in DOMAIN outbox : outbox[i].cause \in Refs(events)
  /\ \A e \in events : e.cause.type = "psm" => e.cause.event \in Refs(events)

(***************************************************************************)
(* While a run has work left on its state in memory, no later runTx of the *)
(* transaction has loaded that entity: no link comes back to an entity     *)
(* whose links and chained events are still being run (runTx).             *)
(***************************************************************************)
RunsAreLatest ==
  \A c \in Clients : \A i \in DOMAIN agenda[c] :
    agenda[c][i].op \in {"run", "emit"} =>
      \A later \in agenda[c][i].act + 1 .. Len(mem[c]) :
        mem[c][later].keys.entity # mem[c][agenda[c][i].act].keys.entity

(***************************************************************************)
(* What a configuration needs for that: reached gives, for an event type   *)
(* run on an entity, every entity that its links and chained events can    *)
(* reach, and the entity is not one of them.                               *)
(***************************************************************************)
Loads(reached, k, type) ==
  LET init == InitialEvent[MachineOf[k]]
  IN  {k} \cup reached[<<k, type>>]
        \cup (IF init = NoInner THEN {} ELSE reached[<<k, init.type>>])

LinksGoForward(reached) ==
  \A k \in Entities, type \in EventTypes :
    /\ k \notin reached[<<k, type>>]
    /\ \A status \in Statuses :
         LET tr == TransitionFor[MachineOf[k], status, type] IN
         tr # NoTransition =>
           /\ \A i \in DOMAIN tr.links :
                Loads(reached, tr.links[i].keys.entity, tr.links[i].inner.type)
                  \subseteq reached[<<k, type>>]
           /\ \A i \in DOMAIN tr.chain :
                reached[<<k, tr.chain[i].type>>] \subseteq reached[<<k, type>>]

(***************************************************************************)
(* The events of an entity are numbered 0, 1, 2, ... without a gap or a    *)
(* repeat (nextStateEvent).                                                *)
(***************************************************************************)
SequencesContiguous ==
  \A k \in Entities :
    {e.seq : e \in EventsOf(k)} = 0 .. Cardinality(EventsOf(k)) - 1

(***************************************************************************)
(* The log is the entity's history: each event's snapshot is what its      *)
(* transition makes of the snapshot before it, starting from the empty     *)
(* state, and the state row is the last one.  No update is lost.           *)
(***************************************************************************)
StatesBefore(e) ==
  IF e.seq = 0 THEN {EmptyState(e.keys)}
  ELSE {f.snapshot : f \in {f \in EventsOf(e.keys.entity) : f.seq = e.seq - 1}}

LogReplays ==
  /\ \A e \in events : \E s \in StatesBefore(e) :
       LET tr == TransitionFor[MachineOf[e.keys.entity], s.status, e.inner.type]
       IN  tr # NoTransition /\ e.snapshot = After(s, tr, e.id)
  /\ \A k \in Entities : \A e \in EventsOf(k) :
       (\A f \in EventsOf(k) : f.seq <= e.seq) => rows[k] = e.snapshot

(***************************************************************************)
(* The table a state data hook keeps agrees with the state table after     *)
(* every commit, chained and linked transitions included.                  *)
(***************************************************************************)
Deriving(k) ==
  \E i \in DOMAIN GlobalStateHooks[MachineOf[k]] :
    GlobalStateHooks[MachineOf[k]][i].derives

DerivedFollowsState ==
  \A k \in Entities : Deriving(k) => derived[k] = rows[k]

(***************************************************************************)
(* Every call returns, whoever it has to wait for.                         *)
(***************************************************************************)
EveryCallReturns == \A c \in Clients : Busy(c) ~> ~Busy(c)
-----------------------------------------------------------------------------
(***************************************************************************)
(* What the documentation, a comment or a test says and the code does not  *)
(* do.  An event sent twice is answered twice: the only specs refused as   *)
(* invalid are the ones that were invalid as the caller wrote them.        *)
(***************************************************************************)
ResendAccepted ==
  \A c \in Clients :
    error[c] = "invalid spec" => \E i \in DOMAIN asked[c] : ~ValidSpec(asked[c][i])
=============================================================================
