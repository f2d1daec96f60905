----------------------- MODULE StateMachineRunProofs -----------------------
(***************************************************************************)
(* What a run does with its agenda, for both isolation levels.             *)
(*                                                                         *)
(* WHAT RUNS WORK ON.  Spec => []RunsAreLatest, for every configuration    *)
(* whose links and chained events lead forward.  An item of the agenda can *)
(* touch the entities its links and chained events reach.  The items an    *)
(* action puts in the place of the head touch no more than it, so that     *)
(* what stands below them in the agenda keeps apart from them.             *)
(*                                                                         *)
(* WHAT SPECS SAY.  An ID the library draws is new (SpecsInv).  From       *)
(* there, Spec => []RepliesMatchRequests, where callers send event IDs of  *)
(* their own, each for one entity and with all its keys: an event ID,      *)
(* wherever it stands, stands for one set of keys (SlotNames, EventNames). *)
(***************************************************************************)
EXTENDS StateMachineProofs

Live(it) == it.op \in {"run", "emit"}

EntityOn(m, it) == m[it.act].keys.entity

(***************************************************************************)
(* An event that waits for its insert is the one of the run at the head of *)
(* the agenda, and its snapshot is the state in memory.                    *)
(***************************************************************************)
IsOf(p, it, s) ==
  /\ it.op = "run" /\ it.act = p.act
  /\ p.row.snapshot = s /\ p.row.keys = s.keys
  /\ p.tr # NoTransition
  /\ \E status \in Statuses :
       p.tr = TransitionFor[MachineOf[s.keys.entity], status, it.spec.inner.type]

PendingOnTop ==
  \A c \in Clients : pending[c] # NoPending =>
    IsOf(pending[c], Head(agenda[c]), mem[c][pending[c].act])

(***************************************************************************)
(* The entities that an item of the agenda can still load, and that a run  *)
(* of the item's own entity must not meet.                                 *)
(***************************************************************************)
Touches(reached, m, it) ==
  IF it.op \in {"runTx", "load"}
  THEN Loads(reached, it.spec.keys.entity, it.spec.inner.type)
  ELSE IF it.op = "run" THEN reached[<<EntityOn(m, it), it.spec.inner.type>>]
  ELSE UNION {reached[<<EntityOn(m, it), it.tr.chain[i].type>>] : i \in DOMAIN it.tr.chain}

Apart(reached, m, f) ==
  \A j \in DOMAIN f : Live(f[j]) =>
    \A i \in 1 .. j - 1 : EntityOn(m, f[j]) \notin Touches(reached, m, f[i])

LatestOn(m, it) ==
  Live(it) => \A later \in it.act + 1 .. Len(m) : m[later].keys.entity # EntityOn(m, it)

LinksOf(reached, m, f) == Apart(reached, m, f) /\ \A i \in DOMAIN f : LatestOn(m, f[i])

LinksInv(reached) == \A c \in Clients : LinksOf(reached, mem[c], agenda[c])

(* The states in memory stay, under their keys; there may be more of them. *)
Keeps(m, n) == Len(m) <= Len(n) /\ \A act \in 1 .. Len(m) : n[act].keys = m[act].keys
-----------------------------------------------------------------------------
(***************************************************************************)
(* What a step does to the database and to the run of its client.          *)
(***************************************************************************)
RollsBack(c) == RollbackTx(c) /\ DropRun(c)

Commits(c) ==
  CommitTx(c) /\ DropRun(c) /\ agenda[c] = <<>> /\ pending[c] = NoPending

Checks(c) ==
  LET it == Head(agenda[c]) IN
  /\ Next0(c, "runTx") /\ UNCHANGED <<dbVars, pending, mem>>
  /\ \/ Push(c, <<>>) /\ \E e \in VisibleEvents(c) : e.id = WithID(it.spec).id
     \/ \E spec \in PreparedSpec, call \in Nat :
          /\ spec.keys = it.spec.keys /\ spec.inner = it.spec.inner
          /\ \/ spec.cause = it.spec.cause
             \/ it.spec.cause = NoCause /\ spec.cause.type # "psm"
          /\ Push(c, <<[op |-> "load", spec |-> spec, call |-> call]>>)

LoadsNothing(c) ==
  LET it   == Head(agenda[c])
      act  == Len(mem[c]) + 1
      init == InitialRun(it.spec.keys, act)
  IN  /\ Next0(c, "load") /\ UNCHANGED <<dbVars, pending>>
      /\ VisibleRow(c, it.spec.keys.entity) = NoState /\ it.spec.keys.tenant # NoTenant
      /\ mem' = [mem EXCEPT ![c] = Append(@, EmptyState(it.spec.keys))]
      /\ Push(c, Append(init, Run(it.spec, it.call, act)))

LoadsRow(c) ==
  LET it    == Head(agenda[c])
      state == VisibleRow(c, it.spec.keys.entity)
  IN  /\ Next0(c, "load") /\ UNCHANGED <<dbVars, pending>>
      /\ state # NoState
      /\ mem' = [mem EXCEPT ![c] = Append(@, state)]
      /\ Push(c, <<Run(it.spec, it.call, Len(mem[c]) + 1)>>)

EmitOf(p) == [op |-> "emit", ref |-> RefOf(p.row), tr |-> p.tr, act |-> p.act]

Inserts(c) ==
  LET p == pending[c] IN
  /\ p # NoPending /\ UNCHANGED mem
  /\ ~RefTaken(c, RefOf(p.row)) /\ EventWaitsFor(c, RefOf(p.row)) = {}
  /\ InsertEvent(c, p.row)
  /\ pending' = [pending EXCEPT ![c] = NoPending]
  /\ Push(c, Append(LinkRuns(p), EmitOf(p)))

Moves(c) ==
  \/ Open(c) \/ RollsBack(c) \/ Commits(c) \/ Checks(c) \/ LoadsNothing(c)
  \/ LoadsRow(c) \/ Upsert(c) \/ Inserts(c) \/ Emit(c)

LEMMA NextMoves ==
  ASSUME TypeInv, [Next]_vars
  PROVE  \/ UNCHANGED <<dbVars, agenda, pending, mem>>
         \/ \E c \in Clients : Moves(c)
<1>1. CASE UNCHANGED vars \/ Rest
  BY <1>1 DEF vars, runVars, Rest
<1>2. ASSUME NEW c \in Clients, Call(c) \/ Resend(c) \/ Step(c) \/ Fault(c)
      PROVE  UNCHANGED <<dbVars, agenda, pending, mem>> \/ Moves(c)
  <2>1. ASSUME NEW why, Abort(c, why)
        PROVE  RollsBack(c)
    BY <2>1 DEF Abort, RollsBack
  <2>2. CASE Call(c) \/ Resend(c)
    BY <2>2 DEF Call, Resend, Ask, runVars
  <2>3. CASE Open(c)
    BY <2>3 DEF Moves
  <2>4. CASE InvalidSpec(c) \/ RunFails(c) \/ CallbackFails(c)
    BY <2>1, <2>4 DEF InvalidSpec, RunFails, CallbackFails, Moves
  <2>5. CASE UniqueCheck(c)
    <3> DEFINE it    == Head(agenda[c])
               spec  == WithID(WithCause(it.spec))
    <3>1. Next0(c, "runTx") /\ agenda[c] # <<>> /\ it.op = "runTx" /\ ValidSpec(it.spec)
      BY <2>5 DEF UniqueCheck, Next0
    <3>2. it.spec \in EventSpec /\ it.call \in Nat
      <4>1. Len(mem[c]) \in Nat
        BY DEF TypeInv, RunTypeInv
      <4> QED BY <3>1, <4>1, HeadType, ItemTypes
    <3>3. spec \in PreparedSpec
      BY <3>1, <3>2, PreparedType DEF TypeInv, CountTypeOK
    <3>4. /\ spec.keys = it.spec.keys /\ spec.inner = it.spec.inner
          /\ spec.id = WithID(it.spec).id
          /\ \/ spec.cause = it.spec.cause
             \/ it.spec.cause = NoCause /\ spec.cause.type # "psm"
      BY <3>2 DEF WithID, WithCause, CauseOf, EventSpec
    <3>5. \/ /\ Push(c, <<[op |-> "load", spec |-> spec, call |-> it.call]>>)
             /\ UNCHANGED <<dbVars, pending, mem>>
          \/ /\ Push(c, <<>>) /\ UNCHANGED <<dbVars, pending, mem>>
             /\ \E e \in VisibleEvents(c) : e.id = spec.id
          \/ Abort(c, "duplicate ID")
      BY <2>5 DEF UniqueCheck, RefOf
    <3> HIDE DEF spec
    <3>6. Checks(c) \/ RollsBack(c)
      BY <2>1, <3>1, <3>2, <3>3, <3>4, <3>5 DEF Checks
    <3> QED BY <3>6 DEF Moves
  <2>6. CASE Load(c)
    <3>1. LoadsNothing(c) \/ LoadsRow(c) \/ \E why \in Errors : Abort(c, why)
      BY <2>6 DEF Load, LoadsNothing, LoadsRow, callVars, Errors
    <3> QED BY <2>1, <3>1 DEF Moves
  <2>7. CASE Upsert(c) \/ Emit(c)
    BY <2>7 DEF Moves
  <2>8. CASE SerializationFailure(c) \/ DeadlockVictim(c) \/ Crash(c)
    BY <2>8 DEF SerializationFailure, DeadlockVictim, Retry, Crash, RollsBack, Moves
  <2>9. CASE Insert(c)
    <3>1. Inserts(c) \/ \E why \in Errors : Abort(c, why)
      BY <2>9 DEF Insert, Inserts, EmitOf, Errors
    <3> QED BY <2>1, <3>1 DEF Moves
  <2>10. CASE Commit(c) \/ CommitUnacked(c)
    BY <2>10 DEF Commit, CommitUnacked, Finished, Commits, Moves
  <2> QED BY <1>2, <2>2, <2>3, <2>4, <2>5, <2>6, <2>7, <2>8, <2>9, <2>10
          DEF Step, Fault
<1> QED BY <1>1, <1>2 DEF Next

(***************************************************************************)
(* What the moves leave of the agendas and the states in memory.           *)
(***************************************************************************)
LEMMA DroppedRun ==
  ASSUME TypeInv, NEW c \in Clients, DropRun(c)
  PROVE  /\ agenda'[c] = <<>> /\ pending'[c] = NoPending /\ mem'[c] = <<>>
         /\ \A d \in Clients \ {c} :
              agenda'[d] = agenda[d] /\ pending'[d] = pending[d] /\ mem'[d] = mem[d]
BY DEF DropRun, TypeInv, RunTypeInv

LEMMA Pushed ==
  ASSUME TypeInv, NEW c \in Clients, NEW items, Push(c, items)
  PROVE  /\ agenda'[c] = items \o Tail(agenda[c])
         /\ \A d \in Clients \ {c} : agenda'[d] = agenda[d]
BY DEF Push, TypeInv, RunTypeInv

LEMMA Loaded ==
  ASSUME TypeInv, NEW c \in Clients, NEW state \in State,
         mem' = [mem EXCEPT ![c] = Append(@, state)]
  PROVE  /\ mem'[c] = Append(mem[c], state) /\ Keeps(mem[c], mem'[c])
         /\ Len(mem'[c]) = Len(mem[c]) + 1 /\ mem'[c][Len(mem[c]) + 1] = state
         /\ \A act \in 1 .. Len(mem[c]) : mem'[c][act] = mem[c][act]
         /\ \A d \in Clients \ {c} : mem'[d] = mem[d]
<1>1. mem[c] \in Seq(State) /\ Len(mem[c]) \in Nat /\ mem \in [Clients -> Seq(State)]
  BY DEF TypeInv, RunTypeInv
<1>2. /\ Len(Append(mem[c], state)) = Len(mem[c]) + 1
      /\ Append(mem[c], state)[Len(mem[c]) + 1] = state
      /\ \A act \in 1 .. Len(mem[c]) : Append(mem[c], state)[act] = mem[c][act]
  BY <1>1, AppendProperties
<1>3. mem'[c] = Append(mem[c], state) /\ \A d \in Clients \ {c} : mem'[d] = mem[d]
  BY <1>1
<1> QED BY <1>1, <1>2, <1>3 DEF Keeps

(***************************************************************************)
(* The run at the head of the agenda, the state it makes, and the entity.  *)
(***************************************************************************)
LEMMA Upserted ==
  ASSUME TypeInv, NEW c \in Clients, Upsert(c)
  PROVE  LET act == Head(agenda[c]).act
             old == mem[c][act]
             new == NewStateOf(c)
             p   == pending'[c]
         IN  /\ agenda[c] # <<>> /\ Head(agenda[c]).op = "run"
             /\ act \in 1 .. Len(mem[c]) /\ old = StateOf(c)
             /\ old \in State /\ new \in State /\ new.keys = old.keys /\ new.status # 0
             /\ old.keys.entity \in Entities
             /\ mem'[c][act] = new /\ Keeps(mem[c], mem'[c])
             /\ Len(mem'[c]) = Len(mem[c])
             /\ \A i \in 1 .. Len(mem[c]) : i # act => mem'[c][i] = mem[c][i]
             /\ \A d \in Clients \ {c} : mem'[d] = mem[d] /\ pending'[d] = pending[d]
             /\ agenda' = agenda
             /\ pending[c] = NoPending /\ p \in Pending /\ p # NoPending
             /\ p.act = act /\ p.tr = TransitionOf(c)
             /\ p.row.snapshot = new /\ p.row.keys = new.keys
             /\ p.row.seq = NextSequence(old) /\ p.row.id = Head(agenda[c]).spec.id
             /\ p.row.inner = Head(agenda[c]).spec.inner
             /\ TransitionOf(c) \in Transition /\ TransitionOf(c) # NoTransition
<1> DEFINE it  == Head(agenda[c])
           act == it.act
           new == NewStateOf(c)
           m   == [mem[c] EXCEPT ![act] = new]
<1>1. /\ agenda[c] # <<>> /\ it.op = "run" /\ pending[c] = NoPending
      /\ mem' = [mem EXCEPT ![c] = m]
      /\ pending' = [pending EXCEPT ![c] = pending'[c]]
      /\ pending'[c].act = act /\ pending'[c].tr = TransitionOf(c)
      /\ pending'[c].row.snapshot = new /\ pending'[c].row.keys = new.keys
      /\ pending'[c].row.seq = NextSequence(StateOf(c))
      /\ pending'[c].row.id = it.spec.id /\ pending'[c].row.inner = it.spec.inner
      /\ agenda' = agenda /\ TransitionOf(c) # NoTransition /\ new.status # 0
      /\ DOMAIN pending = Clients /\ mem \in [Clients -> Seq(State)]
  BY DEF Upsert, Next0, Remember, Runnable, TypeInv, RunTypeInv
<1>2. /\ it.spec.id \in EventIds /\ act \in 1 .. Len(mem[c])
      /\ StateOf(c) \in State /\ TransitionOf(c) \in Transition /\ new \in State
  <2>1. /\ it.spec \in PreparedSpec /\ act \in 1 .. Len(mem[c])
        /\ StateOf(c) \in State /\ TransitionOf(c) \in Transition /\ new \in State
    BY RunTypes DEF Upsert, Runnable
  <2> QED BY <2>1 DEF PreparedSpec, EventSpec
<1>3. new.keys = StateOf(c).keys
  BY <1>2, AfterKeys DEF NewStateOf
<1>4. StateOf(c) = mem[c][act] /\ mem[c][act].keys.entity \in Entities
  BY <1>2, StateParts DEF StateOf
<1>5. pending'[c] \in Pending /\ pending'[c] # NoPending
  BY UpsertActionTypes, NoPendingAssumption
<1> HIDE DEF new
<1>6. /\ Len(m) = Len(mem[c]) /\ m[act] = new
      /\ \A i \in 1 .. Len(mem[c]) : i # act => m[i] = mem[c][i]
  BY <1>1, <1>2, ExceptSeq
<1>7. mem'[c] = m /\ \A d \in Clients \ {c} : mem'[d] = mem[d]
  BY <1>1
<1> HIDE DEF m
<1>8. Keeps(mem[c], mem'[c])
  <2>1. \A i \in 1 .. Len(mem[c]) : mem'[c][i].keys = mem[c][i].keys
    BY <1>3, <1>4, <1>6, <1>7
  <2>2. Len(mem[c]) \in Nat
    BY <1>1
  <2> QED BY <1>6, <1>7, <2>1, <2>2 DEF Keeps
<1>9. \A d \in Clients \ {c} : pending'[d] = pending[d]
  BY <1>1
<1> HIDE DEF act, it
<1>10. act = Head(agenda[c]).act /\ it = Head(agenda[c]) /\ new = NewStateOf(c)
  BY DEF act, it, new
<1> QED BY <1>1, <1>2, <1>3, <1>4, <1>5, <1>6, <1>7, <1>8, <1>9, <1>10

LEMMA NextPendingOnTop ==
  ASSUME TypeInv, PendingInv, KeysInv, PendingOnTop, [Next]_vars
  PROVE  PendingOnTop'
<1>1. CASE UNCHANGED <<dbVars, agenda, pending, mem>>
  BY <1>1 DEF PendingOnTop
<1>2. ASSUME NEW c \in Clients, Moves(c)
      PROVE  PendingOnTop'
  <2>1. ASSUME pending'[c] = NoPending,
               \A d \in Clients \ {c} : /\ agenda'[d] = agenda[d]
                                        /\ pending'[d] = pending[d] /\ mem'[d] = mem[d]
        PROVE  PendingOnTop'
    BY <2>1 DEF PendingOnTop
  <2>2. CASE Open(c)
    <3>1. UNCHANGED <<pending, mem>> /\ pc[c] = "called"
          /\ \A d \in Clients \ {c} : agenda'[d] = agenda[d]
      BY <2>2 DEF Open, TypeInv, RunTypeInv
    <3>2. pending[c] = NoPending
      BY <3>1 DEF PendingInv
    <3> QED BY <2>1, <3>1, <3>2
  <2>3. CASE RollsBack(c) \/ Commits(c)
    BY <2>1, <2>3, DroppedRun DEF RollsBack, Commits
  <2>4. CASE Checks(c)
    <3>1. PICK items : Push(c, items)
      BY <2>4 DEF Checks
    <3>2. pending[c] = NoPending /\ UNCHANGED <<pending, mem>>
      BY <2>4 DEF Checks, Next0
    <3> QED BY <2>1, <3>1, <3>2, Pushed
  <2>5. CASE LoadsNothing(c) \/ LoadsRow(c)
    <3>1. PICK items, m : Push(c, items) /\ mem' = [mem EXCEPT ![c] = m]
      BY <2>5 DEF LoadsNothing, LoadsRow
    <3>2. pending[c] = NoPending /\ UNCHANGED pending
      BY <2>5 DEF LoadsNothing, LoadsRow, Next0
    <3>3. \A d \in Clients \ {c} : mem'[d] = mem[d]
      BY <3>1 DEF TypeInv, RunTypeInv
    <3> QED BY <2>1, <3>1, <3>2, <3>3, Pushed
  <2>6. CASE Upsert(c)
    <3> DEFINE it == Head(agenda[c])
               p  == pending'[c]
               s  == mem'[c][p.act]
    <3>1. /\ it.op = "run" /\ it.act = p.act /\ p.row.snapshot = s /\ p.row.keys = s.keys
          /\ p.tr # NoTransition /\ p.tr = TransitionOf(c)
          /\ s.keys = StateOf(c).keys /\ StateOf(c) \in State
          /\ agenda' = agenda
          /\ \A d \in Clients \ {c} : mem'[d] = mem[d] /\ pending'[d] = pending[d]
      BY <2>6, Upserted
    <3>2. /\ StateOf(c).status \in Statuses
          /\ p.tr = TransitionFor[MachineOf[s.keys.entity], StateOf(c).status,
                                  it.spec.inner.type]
      BY <3>1, StateParts DEF TransitionOf
    <3> HIDE DEF p, s, it
    <3>3. \E status \in Statuses :
            p.tr = TransitionFor[MachineOf[s.keys.entity], status, it.spec.inner.type]
      BY <3>2
    <3>4. IsOf(p, it, s)
      BY <3>1, <3>3 DEF IsOf
    <3>5. \A d \in Clients \ {c} : agenda'[d] = agenda[d]
      BY <3>1
    <3>6. Head(agenda'[c]) = it /\ pending'[c] = p /\ mem'[c][p.act] = s
      BY <3>1 DEF p, s, it
    <3>7. \A d \in Clients \ {c} : pending'[d] # NoPending =>
            IsOf(pending'[d], Head(agenda'[d]), mem'[d][pending'[d].act])
      BY <3>1, <3>5 DEF PendingOnTop
    <3> QED BY <3>4, <3>6, <3>7 DEF PendingOnTop
  <2>7. CASE Inserts(c)
    <3>1. PICK items : Push(c, items)
      BY <2>7 DEF Inserts
    <3>2. pending' = [pending EXCEPT ![c] = NoPending] /\ UNCHANGED mem
      BY <2>7 DEF Inserts
    <3>3. pending'[c] = NoPending /\ \A d \in Clients \ {c} : pending'[d] = pending[d]
      BY <3>2 DEF TypeInv, RunTypeInv
    <3> QED BY <2>1, <3>1, <3>2, <3>3, Pushed
  <2>8. CASE Emit(c)
    <3>1. PICK items : Push(c, items)
      BY <2>8 DEF Emit
    <3>2. pending[c] = NoPending /\ UNCHANGED <<pending, mem>>
      BY <2>8 DEF Emit, Next0
    <3> QED BY <2>1, <3>1, <3>2, Pushed
  <2> QED BY <1>2, <2>2, <2>3, <2>4, <2>5, <2>6, <2>7, <2>8 DEF Moves
<1> QED BY <1>1, <1>2, NextMoves

(***************************************************************************)
(* Types, keys and the pending event together.                             *)
(***************************************************************************)
Grounds == TypeInv /\ PendingInv /\ KeysInv /\ PendingOnTop

LEMMA NextGrounds ==
  ASSUME Grounds, [Next]_vars
  PROVE  Grounds'
BY NextTypes, NextPending, NextKeys, NextPendingOnTop DEF Grounds

LEMMA GroundsInvariant == Spec => []Grounds
<1>1. Init => Grounds
  <2>1. Init => PendingOnTop
    BY DEF Init, PendingOnTop
  <2> QED BY <2>1, InitTypes, InitKeys DEF Grounds
<1>2. Grounds /\ [Next]_vars => Grounds'
  BY NextGrounds
<1> QED BY <1>1, <1>2, PTL DEF Spec

-----------------------------------------------------------------------------
(***************************************************************************)
(* The head of an agenda is replaced by items that touch no more than it.  *)
(***************************************************************************)
LEMMA ReplaceHead ==
  ASSUME NEW S, NEW f \in Seq(S), f # <<>>, NEW items \in Seq(S), NEW g,
         g = items \o Tail(f)
  PROVE  /\ Len(items) \in Nat /\ Len(f) \in Nat \ {0}
         /\ Len(g) = Len(items) + Len(f) - 1 /\ Head(f) = f[1]
         /\ DOMAIN g = 1 .. Len(g)
         /\ \A i \in 1 .. Len(items) : g[i] = items[i]
         /\ \A i \in Len(items) + 1 .. Len(g) :
              /\ i - Len(items) + 1 \in 2 .. Len(f)
              /\ g[i] = f[i - Len(items) + 1]
<1>1. /\ Len(items) \in Nat /\ Len(f) \in Nat \ {0} /\ Head(f) = f[1]
      /\ Tail(f) \in Seq(S) /\ Len(Tail(f)) = Len(f) - 1
      /\ \A i \in 1 .. Len(Tail(f)) : Tail(f)[i] = f[i + 1]
  BY HeadTailProperties, EmptySeq, LenProperties
<1>2. /\ Len(g) = Len(items) + Len(Tail(f)) /\ g \in Seq(S)
      /\ \A i \in 1 .. Len(items) : g[i] = items[i]
      /\ \A i \in Len(items) + 1 .. Len(g) : g[i] = Tail(f)[i - Len(items)]
  BY <1>1, ConcatProperties
<1>3. DOMAIN g = 1 .. Len(g)
  BY <1>2
<1>4. ASSUME NEW i \in Len(items) + 1 .. Len(g)
      PROVE  i - Len(items) + 1 \in 2 .. Len(f) /\ g[i] = f[i - Len(items) + 1]
  <2>1. i \in Nat /\ i - Len(items) \in 1 .. Len(f) - 1
    BY <1>1, <1>2
  <2> QED BY <1>1, <1>2, <2>1
<1> QED BY <1>1, <1>2, <1>3, <1>4

LEMMA KeptTouches ==
  ASSUME NEW reached, NEW m \in Seq(State), NEW n \in Seq(State), Keeps(m, n),
         NEW it \in ItemUpTo(Len(m))
  PROVE  /\ Touches(reached, n, it) = Touches(reached, m, it)
         /\ Live(it) => EntityOn(n, it) = EntityOn(m, it) /\ it.act \in 1 .. Len(m)
<1>1. Len(m) \in Nat
  BY LenProperties
<1>2. it.op \in {"runTx", "load", "run", "emit"}
  BY DEF ItemUpTo, Item
<1>3. Live(it) => EntityOn(n, it) = EntityOn(m, it) /\ it.act \in 1 .. Len(m)
  BY <1>1, ItemTypes DEF Live, EntityOn, Keeps
<1>4. CASE Live(it)
  BY <1>3, <1>4 DEF Touches, Live
<1>5. CASE ~Live(it)
  BY <1>2, <1>5 DEF Touches, Live
<1> QED BY <1>3, <1>4, <1>5

LEMMA ReplaceApart ==
  ASSUME NEW reached, NEW m \in Seq(State), NEW n \in Seq(State), Keeps(m, n),
         NEW f \in Seq(ItemUpTo(Len(m))), f # <<>>,
         NEW items \in Seq(ItemUpTo(Len(n))),
         Apart(reached, m, f), Apart(reached, n, items),
         \A i \in 1 .. Len(items) :
           Touches(reached, n, items[i]) \subseteq Touches(reached, m, Head(f))
  PROVE  Apart(reached, n, items \o Tail(f))
<1> DEFINE g == items \o Tail(f)
           l == Len(items)
<1>1. /\ f \in Seq(Item) /\ items \in Seq(Item)
      /\ f \in Seq(ItemUpTo(Len(m))) /\ Len(f) \in Nat
  BY SeqMonotonic, LenProperties DEF ItemUpTo
<1>2. /\ l \in Nat /\ Len(f) \in Nat \ {0} /\ Len(g) = l + Len(f) - 1
      /\ Head(f) = f[1] /\ DOMAIN g = 1 .. Len(g)
      /\ \A i \in 1 .. l : g[i] = items[i]
      /\ \A i \in l + 1 .. Len(g) : i - l + 1 \in 2 .. Len(f) /\ g[i] = f[i - l + 1]
  <2> HIDE DEF g
  <2> QED BY <1>1, ReplaceHead DEF g
<1>3. \A i \in 1 .. Len(f) : f[i] \in ItemUpTo(Len(m))
  BY <1>1
<1> HIDE DEF g
<1>4. ASSUME NEW j \in 1 .. Len(g), Live(g[j]), NEW i \in 1 .. j - 1
      PROVE  EntityOn(n, g[j]) \notin Touches(reached, n, g[i])
  <2>1. CASE j <= l
    <3>1. j \in 1 .. l /\ i \in 1 .. l /\ g[j] = items[j] /\ g[i] = items[i]
          /\ DOMAIN items = 1 .. l
      BY <1>2, <2>1
    <3> QED BY <1>4, <3>1 DEF Apart
  <2>2. CASE j > l
    <3> DEFINE jf == j - l + 1
    <3>1. j \in l + 1 .. Len(g)
      BY <1>2, <2>2
    <3>2. /\ jf \in 2 .. Len(f) /\ g[j] = f[jf] /\ jf = j - l + 1
          /\ jf \in DOMAIN f /\ f[jf] \in ItemUpTo(Len(m))
      BY <1>1, <1>2, <1>3, <3>1
    <3> HIDE DEF jf
    <3>3. EntityOn(n, g[j]) = EntityOn(m, f[jf]) /\ Live(f[jf])
      BY <1>4, <3>2, KeptTouches
    <3>4. \A h \in 1 .. jf - 1 : EntityOn(m, f[jf]) \notin Touches(reached, m, f[h])
      BY <3>2, <3>3 DEF Apart
    <3>5. CASE i <= l
      <4>1. Touches(reached, n, g[i]) \subseteq Touches(reached, m, f[1])
        BY <1>2, <3>5
      <4> QED BY <1>2, <3>2, <3>3, <3>4, <4>1
    <3>6. CASE i > l
      <4> DEFINE h == i - l + 1
      <4>1. i \in l + 1 .. Len(g) /\ h \in 1 .. jf - 1
        <5>1. i \in Nat /\ j \in Nat /\ i < j /\ j <= Len(g) /\ jf = j - l + 1
          BY <1>2, <2>2, <3>2
        <5> QED BY <1>2, <3>6, <5>1
      <4>2. h \in 2 .. Len(f) /\ g[i] = f[h]
        BY <1>2, <4>1
      <4>3. Touches(reached, n, g[i]) = Touches(reached, m, f[h])
        BY <1>2, <1>3, <4>2, KeptTouches
      <4> QED BY <3>3, <3>4, <4>1, <4>3
    <3> QED BY <1>2, <3>5, <3>6
  <2> QED BY <1>2, <2>1, <2>2
<1>5. Apart(reached, n, g)
  BY <1>2, <1>4 DEF Apart
<1> QED BY <1>5 DEF g

(***************************************************************************)
(* What every item of the old tail and every new item has, the new agenda  *)
(* has; and its entities stay clear of what the head touched.              *)
(***************************************************************************)
LEMMA ReplaceItems ==
  ASSUME NEW reached, NEW m \in Seq(State), NEW f \in Seq(ItemUpTo(Len(m))), f # <<>>,
         NEW items \in Seq(Item), Apart(reached, m, f)
  PROVE  \A i \in DOMAIN (items \o Tail(f)) :
           LET x == (items \o Tail(f))[i] IN
           \/ \E j \in 1 .. Len(items) : x = items[j]
           \/ /\ x \in ItemUpTo(Len(m)) /\ \E j \in DOMAIN f : x = f[j]
              /\ Live(x) => EntityOn(m, x) \notin Touches(reached, m, Head(f))
<1> DEFINE g == items \o Tail(f)
           l == Len(items)
<1>1. f \in Seq(Item) /\ Len(f) \in Nat /\ DOMAIN f = 1 .. Len(f)
  BY SeqMonotonic, LenProperties DEF ItemUpTo
<1>2. /\ l \in Nat /\ Len(f) \in Nat \ {0} /\ Len(g) = l + Len(f) - 1
      /\ Head(f) = f[1] /\ DOMAIN g = 1 .. Len(g)
      /\ \A i \in 1 .. l : g[i] = items[i]
      /\ \A i \in l + 1 .. Len(g) : i - l + 1 \in 2 .. Len(f) /\ g[i] = f[i - l + 1]
  <2> HIDE DEF g
  <2> QED BY <1>1, ReplaceHead DEF g
<1> HIDE DEF g
<1>3. ASSUME NEW i \in 1 .. Len(g), i > l
      PROVE  /\ g[i] \in ItemUpTo(Len(m)) /\ \E j \in DOMAIN f : g[i] = f[j]
             /\ Live(g[i]) => EntityOn(m, g[i]) \notin Touches(reached, m, Head(f))
  <2> DEFINE j == i - l + 1
  <2>1. i \in l + 1 .. Len(g)
    BY <1>2, <1>3
  <2>2. j \in 2 .. Len(f) /\ g[i] = f[j]
    BY <1>2, <2>1
  <2>3. j \in DOMAIN f /\ 1 \in 1 .. j - 1 /\ f[j] \in ItemUpTo(Len(m))
    BY <1>1, <1>2, <2>2
  <2> QED BY <1>2, <2>2, <2>3 DEF Apart
<1>4. \A i \in DOMAIN g :
        \/ \E j \in 1 .. Len(items) : g[i] = items[j]
        \/ /\ g[i] \in ItemUpTo(Len(m)) /\ \E j \in DOMAIN f : g[i] = f[j]
           /\ Live(g[i]) => EntityOn(m, g[i]) \notin Touches(reached, m, Head(f))
  BY <1>2, <1>3
<1> QED BY <1>4 DEF g

LEMMA MemTypes ==
  ASSUME TypeInv, NEW c \in Clients
  PROVE  /\ mem[c] \in Seq(State) /\ Len(mem[c]) \in Nat
         /\ agenda[c] \in Seq(ItemUpTo(Len(mem[c]))) /\ agenda[c] \in Seq(Item)
         /\ agenda[c] # <<>> => Head(agenda[c]) \in ItemUpTo(Len(mem[c]))
         /\ \A i \in DOMAIN agenda[c] : agenda[c][i] \in ItemUpTo(Len(mem[c]))
<1>1. mem[c] \in Seq(State) /\ agenda[c] \in Seq(ItemUpTo(Len(mem[c])))
  BY DEF TypeInv, RunTypeInv
<1>2. agenda[c] \in Seq(Item)
  BY <1>1, SeqMonotonic DEF ItemUpTo
<1> QED BY <1>1, <1>2, HeadTailProperties

LEMMA ReplaceKeepsLinks ==
  ASSUME NEW reached, LinksInv(reached), TypeInv, TypeInv', NEW c \in Clients,
         agenda[c] # <<>>, NEW items \in Seq(ItemUpTo(Len(mem'[c]))), Push(c, items),
         Keeps(mem[c], mem'[c]), \A d \in Clients \ {c} : mem'[d] = mem[d],
         Apart(reached, mem'[c], items),
         \A i \in 1 .. Len(items) :
           /\ Touches(reached, mem'[c], items[i])
                \subseteq Touches(reached, mem[c], Head(agenda[c]))
           /\ LatestOn(mem'[c], items[i]),
         \A new \in Len(mem[c]) + 1 .. Len(mem'[c]) :
           mem'[c][new].keys.entity \in Touches(reached, mem[c], Head(agenda[c]))
  PROVE  LinksInv(reached)'
<1> DEFINE m == mem[c]
           n == mem'[c]
           f == agenda[c]
<1>1. /\ m \in Seq(State) /\ Len(m) \in Nat /\ n \in Seq(State) /\ Len(n) \in Nat
      /\ f \in Seq(ItemUpTo(Len(m))) /\ items \in Seq(Item)
  <2>1. m \in Seq(State) /\ Len(m) \in Nat /\ f \in Seq(ItemUpTo(Len(m)))
    BY MemTypes
  <2>2. n \in Seq(State)
    BY DEF TypeInv, RunTypeInv
  <2>3. items \in Seq(Item)
    BY SeqMonotonic DEF ItemUpTo
  <2> QED BY <2>1, <2>2, <2>3, LenProperties
<1>2. agenda'[c] = items \o Tail(f) /\ \A d \in Clients \ {c} : agenda'[d] = agenda[d]
  BY Pushed
<1>3. Apart(reached, m, f) /\ \A i \in DOMAIN f : LatestOn(m, f[i])
  BY DEF LinksInv, LinksOf
<1> HIDE DEF m, n, f
<1>4. Apart(reached, n, items \o Tail(f))
  BY <1>1, <1>3, ReplaceApart DEF m, n, f
<1>5. ASSUME NEW i \in DOMAIN (items \o Tail(f))
      PROVE  LatestOn(n, (items \o Tail(f))[i])
  <2> DEFINE x == (items \o Tail(f))[i]
  <2>1. \/ \E j \in 1 .. Len(items) : x = items[j]
        \/ /\ x \in ItemUpTo(Len(m)) /\ \E j \in DOMAIN f : x = f[j]
           /\ Live(x) => EntityOn(m, x) \notin Touches(reached, m, Head(f))
    <3>1. f # <<>>
      BY DEF f
    <3> QED BY <1>1, <1>3, <3>1, ReplaceItems
  <2> HIDE DEF x
  <2>2. CASE \E j \in 1 .. Len(items) : x = items[j]
    BY <2>2 DEF n, x
  <2>3. CASE /\ x \in ItemUpTo(Len(m)) /\ \E j \in DOMAIN f : x = f[j]
             /\ Live(x) => EntityOn(m, x) \notin Touches(reached, m, Head(f))
    <3>1. SUFFICES ASSUME Live(x), NEW later \in x.act + 1 .. Len(n)
                   PROVE  n[later].keys.entity # EntityOn(n, x)
      BY DEF LatestOn, x
    <3>2. /\ x.act \in 1 .. Len(m) /\ EntityOn(n, x) = EntityOn(m, x)
          /\ \A act \in 1 .. Len(m) : n[act].keys = m[act].keys
      BY <1>1, <2>3, <3>1, KeptTouches DEF m, n, Keeps
    <3>3. LatestOn(m, x)
      BY <1>3, <2>3
    <3>4. later \in x.act + 1 .. Len(m) \/ later \in Len(m) + 1 .. Len(n)
      BY <1>1, <3>2
    <3>5. CASE later \in x.act + 1 .. Len(m)
      BY <1>1, <3>1, <3>2, <3>3, <3>5 DEF LatestOn
    <3>6. CASE later \in Len(m) + 1 .. Len(n)
      <4>1. n[later].keys.entity \in Touches(reached, m, Head(f))
        BY <3>6 DEF m, n, f
      <4> QED BY <2>3, <3>1, <3>2, <4>1
    <3> QED BY <3>4, <3>5, <3>6
  <2> QED BY <2>1, <2>2, <2>3
<1>6. LinksOf(reached, mem'[c], agenda'[c])
  BY <1>2, <1>4, <1>5 DEF n, LinksOf
<1> QED BY <1>2, <1>6 DEF LinksInv

LEMMA LinksForward ==
  ASSUME NEW reached, LinksGoForward(reached), NEW k \in Entities, NEW type \in EventTypes
  PROVE  /\ k \notin reached[<<k, type>>]
         /\ \A status \in Statuses :
              LET tr == TransitionFor[MachineOf[k], status, type] IN
              tr # NoTransition =>
                /\ \A i \in DOMAIN tr.links :
                     Loads(reached, tr.links[i].keys.entity, tr.links[i].inner.type)
                       \subseteq reached[<<k, type>>]
                /\ \A i \in DOMAIN tr.chain :
                     reached[<<k, tr.chain[i].type>>] \subseteq reached[<<k, type>>]
BY Zenon DEF LinksGoForward

LEMMA NeverBack ==
  ASSUME NEW reached, LinksGoForward(reached)
  PROVE  \A k \in Entities, type \in EventTypes : k \notin reached[<<k, type>>]
BY LinksForward, Zenon

(* Runs on one state are apart: none of them reaches its own entity. *)
LEMMA RunsApart ==
  ASSUME NEW reached, LinksGoForward(reached), NEW m, NEW act, NEW k \in Entities,
         m[act].keys.entity = k, NEW items \in Seq(Item),
         \A i \in 1 .. Len(items) : /\ items[i].op = "run" /\ items[i].act = act
                                    /\ items[i].spec.inner.type \in EventTypes
  PROVE  /\ \A i \in 1 .. Len(items) :
              Touches(reached, m, items[i]) = reached[<<k, items[i].spec.inner.type>>]
         /\ Apart(reached, m, items)
<1>1. \A i \in 1 .. Len(items) :
        Touches(reached, m, items[i]) = reached[<<k, items[i].spec.inner.type>>]
  BY DEF Touches, EntityOn
<1>2. \A i \in 1 .. Len(items) :
        k \notin reached[<<k, items[i].spec.inner.type>>]
  BY NeverBack
<1>3. \A i \in 1 .. Len(items) : EntityOn(m, items[i]) = k
  BY DEF EntityOn
<1>4. DOMAIN items = 1 .. Len(items) /\ Len(items) \in Nat
  BY LenProperties
<1>5. \A j \in 1 .. Len(items) : \A i \in 1 .. j - 1 : i \in 1 .. Len(items)
  BY <1>4
<1>6. \A i, j \in 1 .. Len(items) : EntityOn(m, items[j]) \notin Touches(reached, m, items[i])
  BY <1>1, <1>2, <1>3, Zenon
<1>7. \A j \in DOMAIN items : \A i \in 1 .. j - 1 :
        EntityOn(m, items[j]) \notin Touches(reached, m, items[i])
  BY <1>4, <1>5, <1>6, Zenon
<1> QED BY <1>1, <1>7 DEF Apart

LEMMA OpenKeepsLinks ==
  ASSUME NEW reached, LinksInv(reached), TypeInv, NEW c \in Clients, Open(c)
  PROVE  LinksInv(reached)'
<1> DEFINE items == [i \in 1 .. Len(job[c]) |-> RunTx(job[c][i], i)]
<1>1. /\ UNCHANGED mem /\ agenda'[c] = items
      /\ \A d \in Clients \ {c} : agenda'[d] = agenda[d]
  BY DEF Open, TypeInv, RunTypeInv
<1>2. \A i \in DOMAIN items : ~Live(items[i])
  BY DEF RunTx, Live
<1> HIDE DEF items
<1>3. LinksOf(reached, mem'[c], items)
  BY <1>2 DEF LinksOf, Apart, LatestOn
<1> QED BY <1>1, <1>3 DEF LinksInv

LEMMA DropKeepsLinks ==
  ASSUME NEW reached, LinksInv(reached), TypeInv, NEW c \in Clients, DropRun(c)
  PROVE  LinksInv(reached)'
<1>1. /\ agenda'[c] = <<>>
      /\ \A d \in Clients \ {c} : agenda'[d] = agenda[d] /\ mem'[d] = mem[d]
  BY DroppedRun
<1>2. LinksOf(reached, mem'[c], <<>>)
  BY DEF LinksOf, Apart
<1> QED BY <1>1, <1>2 DEF LinksInv

LEMMA ChecksKeepsLinks ==
  ASSUME NEW reached, LinksInv(reached), TypeInv, TypeInv', NEW c \in Clients, Checks(c)
  PROVE  LinksInv(reached)'
<1> DEFINE it == Head(agenda[c])
<1>1. /\ agenda[c] # <<>> /\ it.op = "runTx" /\ UNCHANGED mem
      /\ Keeps(mem[c], mem'[c]) /\ Len(mem[c]) \in Nat
  BY MemTypes DEF Checks, Next0, Keeps
<1>2. CASE Push(c, <<>>)
  <2> DEFINE none == <<>>
  <2>1. none \in Seq(ItemUpTo(Len(mem'[c]))) /\ \A i \in 1 .. Len(none) : FALSE
    BY EmptySeq
  <2>2. Apart(reached, mem'[c], none)
    BY DEF Apart
  <2>3. Push(c, none)
    BY <1>2
  <2>4. \A new \in Len(mem[c]) + 1 .. Len(mem'[c]) : FALSE
    BY <1>1
  <2> HIDE DEF it, none
  <2> QED BY <1>1, <2>1, <2>2, <2>4, <2>3, ReplaceKeepsLinks
<1>3. ASSUME NEW spec \in PreparedSpec, NEW call \in Nat,
             spec.keys = it.spec.keys, spec.inner = it.spec.inner,
             Push(c, <<[op |-> "load", spec |-> spec, call |-> call]>>)
      PROVE  LinksInv(reached)'
  <2> DEFINE item  == [op |-> "load", spec |-> spec, call |-> call]
             items == <<item>>
  <2>1. item \in ItemUpTo(Len(mem'[c])) /\ ~Live(item)
    BY DEF ItemUpTo, Item, Live
  <2>2. Touches(reached, mem'[c], item) = Touches(reached, mem[c], it)
    BY <1>1, <1>3 DEF Touches
  <2> HIDE DEF item
  <2>3. items \in Seq(ItemUpTo(Len(mem'[c]))) /\ Len(items) = 1 /\ items[1] = item
        /\ DOMAIN items = 1 .. 1
    BY <2>1
  <2> HIDE DEF items, it
  <2>4. Apart(reached, mem'[c], items)
    BY <2>1, <2>3 DEF Apart
  <2>5. \A i \in 1 .. Len(items) :
          /\ Touches(reached, mem'[c], items[i]) \subseteq Touches(reached, mem[c], it)
          /\ LatestOn(mem'[c], items[i])
    BY <2>1, <2>2, <2>3 DEF LatestOn
  <2>6. Push(c, items)
    BY <1>3 DEF items, item
  <2>7. \A new \in Len(mem[c]) + 1 .. Len(mem'[c]) : FALSE
    BY <1>1
  <2> QED BY <1>1, <2>3, <2>4, <2>5, <2>6, <2>7, ReplaceKeepsLinks DEF it
<1> QED BY <1>2, <1>3 DEF Checks

(* What a load puts on the agenda: runs on the state it loaded. *)
LEMMA LoadKeepsLinks ==
  ASSUME NEW reached, LinksGoForward(reached), LinksInv(reached), TypeInv, TypeInv',
         NEW c \in Clients, Next0(c, "load"), NEW state \in State,
         mem' = [mem EXCEPT ![c] = Append(@, state)],
         state.keys.entity = Head(agenda[c]).spec.keys.entity,
         NEW items \in Seq(ItemUpTo(Len(mem[c]) + 1)), Push(c, items),
         \A i \in 1 .. Len(items) :
           /\ items[i].op = "run" /\ items[i].act = Len(mem[c]) + 1
           /\ items[i].spec.inner.type \in EventTypes
           /\ reached[<<state.keys.entity, items[i].spec.inner.type>>]
                \subseteq Touches(reached, mem[c], Head(agenda[c]))
  PROVE  LinksInv(reached)'
<1> DEFINE act == Len(mem[c]) + 1
<1>1. /\ agenda[c] # <<>> /\ Head(agenda[c]).op = "load" /\ Len(mem[c]) \in Nat
      /\ items \in Seq(Item)
  BY MemTypes, SeqMonotonic DEF Next0, ItemUpTo
<1>2. /\ Keeps(mem[c], mem'[c]) /\ Len(mem'[c]) = act /\ mem'[c][act] = state
      /\ \A d \in Clients \ {c} : mem'[d] = mem[d]
  BY Loaded
<1>3. state.keys.entity \in Entities
  BY StateParts
<1> HIDE DEF act
<1>4. /\ \A i \in 1 .. Len(items) :
            Touches(reached, mem'[c], items[i])
              = reached[<<state.keys.entity, items[i].spec.inner.type>>]
      /\ Apart(reached, mem'[c], items)
  <2>1. \A i \in 1 .. Len(items) : /\ items[i].op = "run" /\ items[i].act = act
                                    /\ items[i].spec.inner.type \in EventTypes
    BY DEF act
  <2> DEFINE n == mem'[c]
             k == state.keys.entity
  <2>2. n[act].keys.entity = k /\ k \in Entities
    BY <1>2, <1>3
  <2> HIDE DEF n, k
  <2>3. /\ \A i \in 1 .. Len(items) :
              Touches(reached, n, items[i]) = reached[<<k, items[i].spec.inner.type>>]
        /\ Apart(reached, n, items)
    BY <1>1, <2>1, <2>2, RunsApart
  <2> QED BY <2>3 DEF n, k
<1>5. \A i \in 1 .. Len(items) : LatestOn(mem'[c], items[i])
  <2>1. \A later \in act + 1 .. Len(mem'[c]) : FALSE
    BY <1>1, <1>2 DEF act
  <2> QED BY <2>1 DEF LatestOn, act
<1>6. state.keys.entity \in Touches(reached, mem[c], Head(agenda[c]))
  BY <1>1 DEF Touches, Loads
<1>7. \A new \in Len(mem[c]) + 1 .. Len(mem'[c]) :
        mem'[c][new].keys.entity \in Touches(reached, mem[c], Head(agenda[c]))
  BY <1>1, <1>2, <1>6 DEF act
<1>8. items \in Seq(ItemUpTo(Len(mem'[c])))
  BY <1>2 DEF act
<1>9. \A i \in 1 .. Len(items) :
        Touches(reached, mem'[c], items[i])
          \subseteq Touches(reached, mem[c], Head(agenda[c]))
  BY <1>4
<1> QED BY <1>1, <1>2, <1>4, <1>5, <1>7, <1>8, <1>9, ReplaceKeepsLinks

LEMMA OneItem ==
  ASSUME NEW x
  PROVE  Len(<<x>>) = 1 /\ <<x>>[1] = x /\ DOMAIN <<x>> = {1}
OBVIOUS

LEMMA LoadParts ==
  ASSUME TypeInv, NEW c \in Clients, Next0(c, "load")
  PROVE  LET it == Head(agenda[c]) IN
         /\ agenda[c] # <<>> /\ it.op = "load" /\ it.spec \in PreparedSpec /\ it.call \in Nat
         /\ it.spec.keys \in Keys /\ it.spec.keys.entity \in Entities
         /\ it.spec.inner.type \in EventTypes
         /\ MachineOf[it.spec.keys.entity] \in Machines
<1>1. agenda[c] # <<>> /\ Head(agenda[c]).op = "load"
  BY DEF Next0
<1>2. Head(agenda[c]).spec \in PreparedSpec /\ Head(agenda[c]).call \in Nat
  BY <1>1, MemTypes, ItemTypes
<1> QED BY <1>1, <1>2, ValuesAssumption DEF PreparedSpec, EventSpec, Keys, InnerEvent

LEMMA LoadsRowKeepsLinks ==
  ASSUME NEW reached, LinksGoForward(reached), LinksInv(reached), TypeInv, TypeInv',
         KeysInv, NEW c \in Clients, LoadsRow(c)
  PROVE  LinksInv(reached)'
<1> DEFINE it    == Head(agenda[c])
           k     == it.spec.keys.entity
           state == VisibleRow(c, k)
           act   == Len(mem[c]) + 1
           run   == Run(it.spec, it.call, act)
           items == <<run>>
<1>1. /\ Next0(c, "load") /\ state # NoState /\ Push(c, items)
      /\ mem' = [mem EXCEPT ![c] = Append(@, state)]
  BY DEF LoadsRow
<1>2. /\ it.op = "load" /\ it.spec \in PreparedSpec /\ it.call \in Nat
      /\ k \in Entities /\ it.spec.inner.type \in EventTypes
  BY <1>1, LoadParts
<1>3. state \in State /\ state.keys.entity = k
  <2>1. state \in State
    BY <1>1, <1>2, VisibleTypes
  <2>2. state.keys.entity = k
    BY <1>1, <1>2 DEF VisibleRow, KeysInv, FiledByKeys
  <2> QED BY <2>1, <2>2
<1>4. act \in Nat \ {0}
  BY MemTypes
<1>5. run \in ItemUpTo(act) /\ run.op = "run" /\ run.act = act /\ run.spec = it.spec
  BY <1>2, <1>4, RunItemType DEF Run
<1>6. reached[<<k, it.spec.inner.type>>] \subseteq Touches(reached, mem[c], it)
  BY <1>2 DEF Touches, Loads
<1> HIDE DEF it, k, state, act, run
<1>7. items \in Seq(ItemUpTo(act)) /\ Len(items) = 1 /\ items[1] = run
  BY <1>5
<1> HIDE DEF items
<1>8. \A i \in 1 .. Len(items) :
        /\ items[i].op = "run" /\ items[i].act = act
        /\ items[i].spec.inner.type \in EventTypes
        /\ reached[<<state.keys.entity, items[i].spec.inner.type>>]
             \subseteq Touches(reached, mem[c], it)
  BY <1>2, <1>3, <1>5, <1>6, <1>7
<1>9. state.keys.entity = Head(agenda[c]).spec.keys.entity
  BY <1>3 DEF k, it
<1> QED BY <1>1, <1>3, <1>7, <1>8, <1>9, LoadKeepsLinks DEF act, it

LEMMA LoadsNothingKeepsLinks ==
  ASSUME NEW reached, LinksGoForward(reached), LinksInv(reached), TypeInv, TypeInv',
         NEW c \in Clients, LoadsNothing(c)
  PROVE  LinksInv(reached)'
<1> DEFINE it    == Head(agenda[c])
           keys  == it.spec.keys
           k     == keys.entity
           inner == InitialEvent[MachineOf[k]]
           state == EmptyState(keys)
           act   == Len(mem[c]) + 1
           init  == InitialRun(keys, act)
           run   == Run(it.spec, it.call, act)
           items == Append(init, run)
           Good(x) == /\ x.op = "run" /\ x.act = act /\ x.spec.inner.type \in EventTypes
                      /\ reached[<<k, x.spec.inner.type>>]
                           \subseteq Touches(reached, mem[c], it)
<1>1. /\ Next0(c, "load") /\ Push(c, items)
      /\ mem' = [mem EXCEPT ![c] = Append(@, state)]
  BY DEF LoadsNothing
<1>2. /\ it.op = "load" /\ it.spec \in PreparedSpec /\ it.call \in Nat
      /\ keys \in Keys /\ k \in Entities /\ it.spec.inner.type \in EventTypes
      /\ MachineOf[k] \in Machines
  BY <1>1, LoadParts
<1>3. state \in State /\ state.keys.entity = k
  BY <1>2, EmptyStateType DEF EmptyState
<1>4. act \in Nat \ {0} /\ minted \in Nat
  BY MemTypes DEF TypeInv, CountTypeOK
<1>5. run \in ItemUpTo(act) /\ run.op = "run" /\ run.act = act /\ run.spec = it.spec
  BY <1>2, <1>4, RunItemType DEF Run
<1>6. reached[<<k, it.spec.inner.type>>] \subseteq Touches(reached, mem[c], it)
  BY <1>2 DEF Touches, Loads
<1>7. Good(run)
  BY <1>2, <1>5, <1>6
<1>8. init \in Seq(ItemUpTo(act)) /\ Len(init) \in Nat
  BY <1>2, <1>4, InitialRunType
<1>9. \A i \in 1 .. Len(init) : Good(init[i])
  <2>1. CASE inner = NoInner
    <3>1. init = <<>>
      BY <2>1 DEF InitialRun
    <3> HIDE DEF init
    <3>2. Len(init) = 0
      BY <3>1, EmptySeq
    <3> QED BY <3>2
  <2>2. CASE inner # NoInner
    <3> DEFINE first == Run(Spec0(keys, minted + 1, inner, CauseOf("init")), 0, act)
    <3>1. inner.type \in EventTypes
      <4>1. inner \in InnerEvent
        BY <1>2, <2>2, JobsAssumption
      <4> QED BY <4>1 DEF InnerEvent
    <3>2. reached[<<k, inner.type>>] \subseteq Touches(reached, mem[c], it)
      BY <1>2, <2>2 DEF Touches, Loads
    <3>3. first.op = "run" /\ first.act = act /\ first.spec.inner = inner
      BY DEF Run, Spec0
    <3>4. Good(first)
      BY <3>1, <3>2, <3>3
    <3>5. init = <<first>>
      BY <2>2 DEF InitialRun
    <3> HIDE DEF first, init
    <3>6. Len(init) = 1 /\ init[1] = first
      BY <3>5, OneItem
    <3> QED BY <3>4, <3>6
  <2> QED BY <2>1, <2>2
<1> HIDE DEF it, keys, k, inner, state, act, run, init
<1>10. /\ items \in Seq(ItemUpTo(act)) /\ Len(items) = Len(init) + 1
       /\ items[Len(init) + 1] = run /\ \A i \in 1 .. Len(init) : items[i] = init[i]
  BY <1>5, <1>8, AppendProperties
<1> HIDE DEF items
<1>11. \A i \in 1 .. Len(items) : Good(items[i])
  <2>1. \A i \in 1 .. Len(items) : i \in 1 .. Len(init) \/ i = Len(init) + 1
    BY <1>8, <1>10
  <2> HIDE DEF Good
  <2> QED BY <1>7, <1>9, <1>10, <2>1
<1>12. state.keys.entity = Head(agenda[c]).spec.keys.entity
  BY <1>3 DEF k, keys, it
<1>13. \A i \in 1 .. Len(items) :
         /\ items[i].op = "run" /\ items[i].act = act
         /\ items[i].spec.inner.type \in EventTypes
         /\ reached[<<state.keys.entity, items[i].spec.inner.type>>]
              \subseteq Touches(reached, mem[c], it)
  BY <1>3, <1>11
<1> QED BY <1>1, <1>3, <1>10, <1>12, <1>13, LoadKeepsLinks DEF act, it

LEMMA UpsertKeepsLinks ==
  ASSUME NEW reached, LinksInv(reached), TypeInv, TypeInv', NEW c \in Clients, Upsert(c)
  PROVE  LinksInv(reached)'
<1> DEFINE m == mem[c]
           n == mem'[c]
           f == agenda[c]
<1>1. /\ Keeps(m, n) /\ Len(n) = Len(m) /\ agenda' = agenda
      /\ \A d \in Clients \ {c} : mem'[d] = mem[d]
  BY Upserted
<1>2. /\ m \in Seq(State) /\ Len(m) \in Nat /\ n \in Seq(State)
      /\ \A i \in DOMAIN f : f[i] \in ItemUpTo(Len(m))
      /\ DOMAIN f = 1 .. Len(f) /\ Len(f) \in Nat
  BY MemTypes DEF TypeInv, RunTypeInv
<1>3. LinksOf(reached, m, f)
  BY DEF LinksInv
<1> HIDE DEF m, n, f
<1>4. \A i \in DOMAIN f : /\ Touches(reached, n, f[i]) = Touches(reached, m, f[i])
                          /\ Live(f[i]) => EntityOn(n, f[i]) = EntityOn(m, f[i])
                                           /\ f[i].act \in 1 .. Len(m)
  BY <1>1, <1>2, KeptTouches
<1>5. Apart(reached, n, f)
  <2>1. \A j \in DOMAIN f : \A i \in 1 .. j - 1 : i \in DOMAIN f
    BY <1>2
  <2> QED BY <1>3, <1>4, <2>1 DEF LinksOf, Apart
<1>6. ASSUME NEW i \in DOMAIN f
      PROVE  LatestOn(n, f[i])
  <2>1. SUFFICES ASSUME Live(f[i]), NEW later \in f[i].act + 1 .. Len(n)
                 PROVE  n[later].keys.entity # EntityOn(n, f[i])
    BY DEF LatestOn
  <2>2. later \in f[i].act + 1 .. Len(m) /\ later \in 1 .. Len(m)
    BY <1>1, <1>2, <1>4, <2>1
  <2>3. m[later].keys.entity # EntityOn(m, f[i])
    BY <1>3, <2>1, <2>2 DEF LinksOf, LatestOn
  <2>4. n[later].keys = m[later].keys
    BY <1>1, <2>2 DEF Keeps
  <2> QED BY <1>4, <2>1, <2>3, <2>4
<1>7. LinksOf(reached, mem'[c], agenda'[c])
  BY <1>1, <1>5, <1>6 DEF LinksOf, n, f
<1> QED BY <1>1, <1>7 DEF LinksInv

(***************************************************************************)
(* The links of an event lead forward from its entity, and so do the       *)
(* events its hooks chain; the entity itself waits below the links.        *)
(***************************************************************************)
LEMMA InsertKeepsLinks ==
  ASSUME NEW reached, LinksGoForward(reached), LinksInv(reached), Grounds, TypeInv',
         NEW c \in Clients, Inserts(c)
  PROVE  LinksInv(reached)'
<1> DEFINE p     == pending[c]
           it    == Head(agenda[c])
           m     == mem[c]
           n     == mem'[c]
           k     == m[p.act].keys.entity
           type  == it.spec.inner.type
           links == LinkRuns(p)
           emit  == EmitOf(p)
           items == Append(links, emit)
<1>1. /\ p # NoPending /\ UNCHANGED mem /\ Push(c, items)
  BY DEF Inserts
<1>2. /\ TypeInv /\ p \in Pending /\ p.act \in 1 .. Len(m) /\ Len(m) \in Nat
      /\ m \in Seq(State) /\ agenda[c] # <<>> /\ it \in ItemUpTo(Len(m))
      /\ IsOf(p, it, m[p.act])
  <2>1. TypeInv /\ agenda[c] # <<>> /\ IsOf(p, it, m[p.act])
    BY <1>1 DEF Grounds, PendingInv, PendingOnTop
  <2>2. p \in Pending /\ p.act \in 1 .. Len(m)
    BY <1>1, <2>1 DEF TypeInv, RunTypeInv
  <2> QED BY <2>1, <2>2, MemTypes
<1>3. n = m /\ Keeps(m, n) /\ \A d \in Clients \ {c} : mem'[d] = mem[d]
  BY <1>1, <1>2 DEF Keeps
<1>4. /\ it.op = "run" /\ it.act = p.act /\ type \in EventTypes /\ k \in Entities
      /\ p.tr \in Transition /\ p.tr # NoTransition
  <2>1. it.op = "run" /\ it.act = p.act /\ p.tr # NoTransition
    BY <1>2 DEF IsOf
  <2>2. it.spec \in PreparedSpec
    BY <1>2, <2>1, ItemTypes
  <2>3. k \in Entities
    <3>1. m[p.act] \in State
      BY <1>2
    <3> QED BY <3>1, StateParts
  <2> QED BY <1>2, <2>1, <2>2, <2>3 DEF PreparedSpec, EventSpec, InnerEvent, Pending
<1>5. PICK status \in Statuses : p.tr = TransitionFor[MachineOf[k], status, type]
  BY <1>2 DEF IsOf
<1>6. /\ \A i \in DOMAIN p.tr.links :
           Loads(reached, p.tr.links[i].keys.entity, p.tr.links[i].inner.type)
             \subseteq reached[<<k, type>>]
      /\ \A i \in DOMAIN p.tr.chain :
           reached[<<k, p.tr.chain[i].type>>] \subseteq reached[<<k, type>>]
  <2> HIDE DEF k, type, p
  <2> QED BY <1>4, <1>5, LinksForward
<1>7. k \notin reached[<<k, type>>]
  BY <1>4, NeverBack
<1>8. Touches(reached, m, it) = reached[<<k, type>>]
  BY <1>4 DEF Touches, EntityOn
<1>9. links \in Seq(ItemUpTo(Len(m))) /\ Len(links) \in Nat
  BY <1>2, LinkRunsType
<1>10. \A i \in 1 .. Len(links) :
         /\ ~Live(links[i]) /\ Touches(reached, m, links[i]) \subseteq reached[<<k, type>>]
  <2>1. p.tr.links \in Seq(Link) /\ Len(p.tr.links) \in Nat
    BY <1>4 DEF Transition
  <2>2. Len(links) = Len(p.tr.links) /\ DOMAIN p.tr.links = 1 .. Len(p.tr.links)
    BY <2>1 DEF LinkRuns
  <2>3. ASSUME NEW i \in 1 .. Len(p.tr.links)
        PROVE  /\ links[i].op = "runTx"
               /\ links[i].spec.keys = p.tr.links[i].keys
               /\ links[i].spec.inner = p.tr.links[i].inner
    BY <2>3 DEF LinkRuns, RunTx, Spec0
  <2> HIDE DEF links, p, k, type, m
  <2> QED BY <1>6, <2>2, <2>3 DEF Touches, Live
<1>11. /\ emit \in ItemUpTo(Len(m)) /\ emit.op = "emit" /\ emit.act = p.act
       /\ emit.tr = p.tr
  <2>1. p.row \in EventRow /\ p.act \in Nat \ {0}
    BY <1>2 DEF Pending
  <2> QED BY <1>2, <1>4, <2>1, RefType DEF ItemUpTo, Item, EmitOf
<1> HIDE DEF emit
<1>12. EntityOn(m, emit) = k /\ Touches(reached, m, emit) \subseteq reached[<<k, type>>]
  <2>1. EntityOn(m, emit) = k
    BY <1>11 DEF EntityOn
  <2> HIDE DEF p, k, type, m
  <2> QED BY <1>6, <1>11, <2>1 DEF Touches
<1> HIDE DEF links, p, k, type
<1>13. /\ items \in Seq(ItemUpTo(Len(m))) /\ Len(items) = Len(links) + 1
       /\ items[Len(links) + 1] = emit /\ \A i \in 1 .. Len(links) : items[i] = links[i]
       /\ DOMAIN items = 1 .. Len(links) + 1
  <2>1. /\ items \in Seq(ItemUpTo(Len(m))) /\ Len(items) = Len(links) + 1
        /\ items[Len(links) + 1] = emit /\ \A i \in 1 .. Len(links) : items[i] = links[i]
    BY <1>9, <1>11, AppendProperties
  <2> HIDE DEF items
  <2> QED BY <2>1
<1> HIDE DEF items
<1>14. Apart(reached, m, items)
  <2>1. SUFFICES ASSUME NEW j \in DOMAIN items, Live(items[j]), NEW i \in 1 .. j - 1
                 PROVE  EntityOn(m, items[j]) \notin Touches(reached, m, items[i])
    BY DEF Apart
  <2>2. j = Len(links) + 1 /\ i \in 1 .. Len(links)
    BY <1>9, <1>10, <1>13, <2>1
  <2> QED BY <1>7, <1>10, <1>12, <1>13, <2>2
<1>15. LatestOn(m, emit)
  <2>1. LatestOn(m, it)
    <3>1. it = agenda[c][1] /\ 1 \in DOMAIN agenda[c]
      BY <1>2, MemTypes, HeadTailProperties
    <3>2. LinksOf(reached, m, agenda[c])
      BY DEF Grounds, LinksInv
    <3> QED BY <3>1, <3>2 DEF LinksOf
  <2>2. Live(it) /\ it.act = emit.act /\ EntityOn(m, it) = EntityOn(m, emit)
    BY <1>4, <1>11 DEF Live, EntityOn
  <2> HIDE DEF it, m
  <2> QED BY <2>1, <2>2 DEF LatestOn
<1>16. \A i \in 1 .. Len(items) :
         /\ Touches(reached, m, items[i]) \subseteq Touches(reached, m, it)
         /\ LatestOn(m, items[i])
  <2>1. \A i \in 1 .. Len(links) : LatestOn(m, links[i])
    BY <1>10 DEF LatestOn
  <2>2. \A i \in 1 .. Len(items) : i \in 1 .. Len(links) \/ i = Len(links) + 1
    BY <1>9, <1>13
  <2>3. \A i \in 1 .. Len(links) : Touches(reached, m, links[i]) \subseteq Touches(reached, m, it)
    BY <1>8, <1>10
  <2>4. Touches(reached, m, emit) \subseteq Touches(reached, m, it)
    BY <1>8, <1>12
  <2> QED BY <1>13, <1>15, <2>1, <2>2, <2>3, <2>4
<1>17. \A new \in Len(m) + 1 .. Len(n) : FALSE
  BY <1>2, <1>3
<1> HIDE DEF it
<1> QED BY <1>1, <1>2, <1>3, <1>13, <1>14, <1>16, <1>17, ReplaceKeepsLinks DEF m, n, it

LEMMA EmitKeepsLinks ==
  ASSUME NEW reached, LinksGoForward(reached), LinksInv(reached), TypeInv, TypeInv',
         NEW c \in Clients, Emit(c)
  PROVE  LinksInv(reached)'
<1> DEFINE it    == Head(agenda[c])
           m     == mem[c]
           n     == mem'[c]
           k     == m[it.act].keys.entity
           items == Chained(c, it)
<1>1. /\ agenda[c] # <<>> /\ it.op = "emit" /\ UNCHANGED mem /\ Push(c, items)
  BY DEF Emit, Next0
<1>2. /\ m \in Seq(State) /\ Len(m) \in Nat /\ it \in ItemUpTo(Len(m))
  BY <1>1, MemTypes
<1>3. n = m /\ Keeps(m, n) /\ \A d \in Clients \ {c} : mem'[d] = mem[d]
  BY <1>1, <1>2 DEF Keeps
<1>4. it.tr \in Transition /\ it.act \in 1 .. Len(m) /\ k \in Entities
  <2>1. it.tr \in Transition /\ it.act \in 1 .. Len(m)
    BY <1>1, <1>2, ItemTypes
  <2>2. m[it.act] \in State
    BY <1>2, <2>1
  <2> QED BY <2>1, <2>2, StateParts
<1>5. items \in Seq(ItemUpTo(Len(m))) /\ items \in Seq(Item) /\ Len(items) \in Nat
  <2>1. items \in Seq(ItemUpTo(Len(m))) /\ Len(items) \in Nat
    BY <1>1, <1>2, ChainedType
  <2> HIDE DEF items
  <2> QED BY <2>1, SeqMonotonic DEF ItemUpTo
<1>6. /\ it.tr.chain \in Seq(InnerEvent) /\ Len(items) = Len(it.tr.chain)
      /\ DOMAIN it.tr.chain = 1 .. Len(it.tr.chain)
      /\ \A i \in 1 .. Len(it.tr.chain) : it.tr.chain[i].type \in EventTypes
  <2>1. it.tr.chain \in Seq(InnerEvent) /\ Len(it.tr.chain) \in Nat
    BY <1>4 DEF Transition
  <2>2. \A i \in 1 .. Len(it.tr.chain) : it.tr.chain[i] \in InnerEvent
    BY <2>1
  <2> QED BY <2>1, <2>2 DEF Chained, InnerEvent
<1>7. \A i \in 1 .. Len(items) :
        /\ items[i].op = "run" /\ items[i].act = it.act
        /\ items[i].spec.inner = it.tr.chain[i]
  BY <1>6 DEF Chained, Run, Spec0
<1> HIDE DEF items, it, m, n
<1>8. /\ \A i \in 1 .. Len(items) :
           Touches(reached, m, items[i]) = reached[<<k, items[i].spec.inner.type>>]
      /\ Apart(reached, m, items)
  <2>1. \A i \in 1 .. Len(items) :
          /\ items[i].op = "run" /\ items[i].act = it.act
          /\ items[i].spec.inner.type \in EventTypes
    BY <1>6, <1>7
  <2> DEFINE act == it.act
  <2>2. m[act].keys.entity = k /\ k \in Entities
    BY <1>4
  <2> HIDE DEF k, act
  <2>3. \A i \in 1 .. Len(items) : /\ items[i].op = "run" /\ items[i].act = act
                                    /\ items[i].spec.inner.type \in EventTypes
    BY <2>1 DEF act
  <2> QED BY <1>5, <2>2, <2>3, RunsApart
<1>9. \A i \in 1 .. Len(items) :
        Touches(reached, m, items[i]) \subseteq Touches(reached, m, it)
  <2>1. Touches(reached, m, it) =
          UNION {reached[<<k, it.tr.chain[i].type>>] : i \in DOMAIN it.tr.chain}
    BY <1>1 DEF Touches, EntityOn
  <2> HIDE DEF k
  <2>2. ASSUME NEW i \in 1 .. Len(items)
        PROVE  Touches(reached, m, items[i]) \subseteq Touches(reached, m, it)
    <3>1. i \in DOMAIN it.tr.chain
      BY <1>6
    <3>2. Touches(reached, m, items[i]) = reached[<<k, it.tr.chain[i].type>>]
      BY <1>7, <1>8
    <3> QED BY <2>1, <3>1, <3>2
  <2> QED BY <2>2
<1>10. LatestOn(m, it)
  <2>1. it = agenda[c][1] /\ 1 \in DOMAIN agenda[c]
    BY <1>1, MemTypes, HeadTailProperties DEF it
  <2>2. LinksOf(reached, m, agenda[c])
    BY DEF LinksInv, m
  <2> QED BY <2>1, <2>2 DEF LinksOf
<1>11. \A i \in 1 .. Len(items) : LatestOn(m, items[i])
  <2>1. Live(it)
    BY <1>1 DEF Live
  <2> QED BY <1>7, <1>10, <2>1 DEF LatestOn, EntityOn
<1>12. \A new \in Len(m) + 1 .. Len(n) : FALSE
  BY <1>2, <1>3
<1> QED BY <1>1, <1>3, <1>5, <1>8, <1>9, <1>11, <1>12, ReplaceKeepsLinks DEF m, n, it

LEMMA NextLinks ==
  ASSUME NEW reached, LinksGoForward(reached), LinksInv(reached), Grounds, Grounds',
         [Next]_vars
  PROVE  LinksInv(reached)'
<1>1. CASE UNCHANGED <<dbVars, agenda, pending, mem>>
  BY <1>1 DEF LinksInv
<1>2. ASSUME NEW c \in Clients, Moves(c)
      PROVE  LinksInv(reached)'
  <2>1. CASE Open(c)
    BY <2>1, OpenKeepsLinks DEF Grounds
  <2>2. CASE RollsBack(c) \/ Commits(c)
    BY <2>2, DropKeepsLinks DEF Grounds, RollsBack, Commits
  <2>3. CASE Checks(c)
    BY <2>3, ChecksKeepsLinks DEF Grounds
  <2>4. CASE LoadsNothing(c)
    BY <2>4, LoadsNothingKeepsLinks DEF Grounds
  <2>5. CASE LoadsRow(c)
    BY <2>5, LoadsRowKeepsLinks DEF Grounds
  <2>6. CASE Upsert(c)
    BY <2>6, UpsertKeepsLinks DEF Grounds
  <2>7. CASE Inserts(c)
    BY <2>7, InsertKeepsLinks DEF Grounds
  <2>8. CASE Emit(c)
    BY <2>8, EmitKeepsLinks DEF Grounds
  <2> QED BY <1>2, <2>1, <2>2, <2>3, <2>4, <2>5, <2>6, <2>7, <2>8 DEF Moves
<1>3. TypeInv
  BY DEF Grounds
<1> QED BY <1>1, <1>2, <1>3, NextMoves

(***************************************************************************)
(* No link comes back to an entity whose events are still being run, in    *)
(* any configuration whose links lead forward: what a run keeps in memory  *)
(* is the last state its transaction has loaded of the entity (runTx).     *)
(***************************************************************************)
THEOREM RunsStayLatest ==
  ASSUME NEW CONSTANT reached, LinksGoForward(reached)
  PROVE  Spec => []RunsAreLatest
<1>1. Init => LinksInv(reached)
  <2>1. LinksOf(reached, <<>>, <<>>)
    BY DEF LinksOf, Apart
  <2> QED BY <2>1 DEF Init, LinksInv
<1>2. LinksInv(reached) /\ Grounds /\ Grounds' /\ [Next]_vars => LinksInv(reached)'
  BY NextLinks
<1>3. LinksInv(reached) => RunsAreLatest
  <2>1. \A c \in Clients : \A i \in DOMAIN agenda[c] :
          LinksInv(reached) => LatestOn(mem[c], agenda[c][i])
    BY DEF LinksInv, LinksOf
  <2> QED BY <2>1 DEF RunsAreLatest, LatestOn, Live, EntityOn
<1> QED BY <1>1, <1>2, <1>3, GroundsInvariant, PTL DEF Spec

-----------------------------------------------------------------------------
LEMMA DBTypes ==
  ASSUME TypeInv, NEW c \in Clients
  PROVE  /\ rows \in Table /\ txRows[c] \in Table /\ snapRows[c] \in Table
         /\ derived \in Table /\ txDerived[c] \in Table
         /\ events \in SUBSET EventRow /\ Stored(c) \in SUBSET EventRow
         /\ \A e \in events \cup Stored(c) : e.keys.entity \in Entities
         /\ DOMAIN txRows = Clients /\ DOMAIN txEvents = Clients
         /\ DOMAIN pending = Clients /\ DOMAIN txDerived = Clients
         /\ DOMAIN snapRows = Clients
<1>1. pending[c] # NoPending => pending[c].row \in EventRow
  BY DEF TypeInv, RunTypeInv, Pending
<1>2. events \in SUBSET EventRow /\ Stored(c) \in SUBSET EventRow
  BY <1>1 DEF Stored, TypeInv, DBTypeOK
<1>3. \A e \in EventRow : e.keys.entity \in Entities
  BY DEF EventRow, Keys
<1> QED BY <1>2, <1>3 DEF TypeInv, DBTypeOK, RunTypeInv

(***************************************************************************)
(* Where the runs and emits on an agenda come from.                        *)
(***************************************************************************)
LEMMA NewAgenda ==
  ASSUME TypeInv, NEW c \in Clients, agenda[c] # <<>>, NEW items \in Seq(Item),
         Push(c, items)
  PROVE  /\ Head(agenda[c]) = agenda[c][1] /\ 1 \in DOMAIN agenda[c]
         /\ \A i \in DOMAIN agenda'[c] :
              \/ \E j \in DOMAIN agenda[c] : agenda'[c][i] = agenda[c][j]
              \/ \E j \in 1 .. Len(items) : agenda'[c][i] = items[j]
<1> DEFINE f == agenda[c]
           g == agenda'[c]
           l == Len(items)
<1>1. f \in Seq(Item) /\ g = items \o Tail(f)
  BY MemTypes, Pushed
<1> HIDE DEF f, g
<1>2. /\ l \in Nat /\ Len(f) \in Nat \ {0} /\ Head(f) = f[1]
      /\ Len(g) = l + Len(f) - 1 /\ DOMAIN g = 1 .. Len(g)
      /\ \A i \in 1 .. l : g[i] = items[i]
      /\ \A i \in l + 1 .. Len(g) : i - l + 1 \in 2 .. Len(f) /\ g[i] = f[i - l + 1]
  BY <1>1, ReplaceHead DEF f
<1>3. DOMAIN f = 1 .. Len(f)
  BY <1>1
<1>4. ASSUME NEW i \in DOMAIN g
      PROVE  (\E j \in DOMAIN f : g[i] = f[j]) \/ (\E j \in 1 .. l : g[i] = items[j])
  <2>1. i \in 1 .. l \/ i \in l + 1 .. Len(g)
    BY <1>2
  <2>2. CASE i \in 1 .. l
    BY <1>2, <2>2
  <2>3. CASE i \in l + 1 .. Len(g)
    <3>1. i - l + 1 \in DOMAIN f /\ g[i] = f[i - l + 1]
      BY <1>2, <1>3, <2>3
    <3> QED BY <3>1
  <2> QED BY <2>1, <2>2, <2>3
<1>5. 1 \in DOMAIN f
  BY <1>2, <1>3
<1> QED BY <1>2, <1>4, <1>5 DEF f, g

(* A state as it was loaded: the row, or the empty state where none was seen. *)
FreshState(s, row) == s = row \/ (row = NoState /\ s = EmptyState(s.keys))

(* What a load puts in memory: the row it sees, or the empty state. *)
LEMMA LoadedState ==
  ASSUME TypeInv, KeysInv, NEW c \in Clients, LoadsNothing(c) \/ LoadsRow(c)
  PROVE  LET s == mem'[c][Len(mem[c]) + 1] IN
         /\ s \in State /\ s.keys.entity \in Entities
         /\ FreshState(s, VisibleRow(c, s.keys.entity))
         /\ \A act \in 1 .. Len(mem[c]) : mem'[c][act] = mem[c][act]
         /\ \A d \in Clients \ {c} : mem'[d] = mem[d]
<1> DEFINE keys == Head(agenda[c]).spec.keys
<1>1. keys \in Keys /\ keys.entity \in Entities
  BY LoadParts DEF LoadsNothing, LoadsRow
<1>2. CASE LoadsNothing(c)
  <2> DEFINE state == EmptyState(keys)
  <2>1. state \in State /\ state.keys = keys
    BY <1>1, EmptyStateType DEF EmptyState
  <2>2. VisibleRow(c, keys.entity) = NoState /\ mem' = [mem EXCEPT ![c] = Append(@, state)]
    BY <1>2 DEF LoadsNothing
  <2>3. FreshState(state, VisibleRow(c, state.keys.entity))
    BY <2>1, <2>2 DEF FreshState
  <2> HIDE DEF state, keys
  <2>4. state.keys.entity \in Entities
    BY <1>1, <2>1
  <2> QED BY <2>1, <2>2, <2>3, <2>4, Loaded
<1>3. CASE LoadsRow(c)
  <2> DEFINE state == VisibleRow(c, keys.entity)
  <2>1. state # NoState /\ mem' = [mem EXCEPT ![c] = Append(@, state)]
    BY <1>3 DEF LoadsRow
  <2>2. state \in State
    BY <1>1, <2>1, VisibleTypes
  <2>3. state.keys.entity = keys.entity
    BY <1>1, <2>1 DEF VisibleRow, KeysInv, FiledByKeys
  <2>4. FreshState(state, VisibleRow(c, state.keys.entity))
    BY <2>3 DEF FreshState
  <2> HIDE DEF state, keys
  <2>5. state.keys.entity \in Entities
    BY <1>1, <2>3
  <2> QED BY <2>1, <2>2, <2>4, <2>5, Loaded
<1> QED BY <1>2, <1>3

(***************************************************************************)
(* A run or an emit that a move puts on the agenda: a run on the state it  *)
(* has loaded, the emit of the event it has inserted, or a chained run.    *)
(***************************************************************************)
NewItem(c, x) ==
  \/ /\ LoadsNothing(c) \/ LoadsRow(c)
     /\ x.op = "run" /\ x.act = Len(mem[c]) + 1
  \/ Inserts(c) /\ x = EmitOf(pending[c])
  \/ /\ Emit(c) /\ Head(agenda[c]).op = "emit"
     /\ x.op = "run" /\ x.act = Head(agenda[c]).act

LEMMA NewItems ==
  ASSUME Grounds, NEW c \in Clients, Moves(c),
         ~Open(c), ~RollsBack(c), ~Commits(c), ~Upsert(c)
  PROVE  /\ agenda[c] # <<>>
         /\ \E items \in Seq(Item) :
              /\ Push(c, items)
              /\ \A j \in 1 .. Len(items) : Live(items[j]) => NewItem(c, items[j])
              /\ Inserts(c) => \E j \in 1 .. Len(items) : items[j] = EmitOf(pending[c])
<1> DEFINE Good(items) ==
             /\ Push(c, items)
             /\ \A j \in 1 .. Len(items) : Live(items[j]) => NewItem(c, items[j])
             /\ Inserts(c) => \E j \in 1 .. Len(items) : items[j] = EmitOf(pending[c])
           Goal == agenda[c] # <<>> /\ \E items \in Seq(Item) : Good(items)
<1>1. TypeInv /\ Len(mem[c]) \in Nat
  BY MemTypes DEF Grounds
<1>2. CASE Checks(c)
  <2>1. agenda[c] # <<>> /\ ~Inserts(c)
    BY <1>2 DEF Checks, Next0, Inserts
  <2>2. CASE Push(c, <<>>)
    <3> DEFINE none == <<>>
    <3>1. none \in Seq(Item) /\ \A j \in 1 .. Len(none) : FALSE
      BY EmptySeq
    <3>2. Push(c, none)
      BY <2>2
    <3> HIDE DEF none
    <3> QED BY <2>1, <3>1, <3>2
  <2>3. ASSUME NEW spec \in PreparedSpec, NEW call \in Nat,
               Push(c, <<[op |-> "load", spec |-> spec, call |-> call]>>)
        PROVE  Goal
    <3> DEFINE item == [op |-> "load", spec |-> spec, call |-> call]
               items == <<item>>
    <3>1. item \in Item /\ ~Live(item)
      BY DEF Item, Live
    <3>2. Push(c, items)
      BY <2>3
    <3> HIDE DEF item
    <3>3. items \in Seq(Item) /\ \A j \in 1 .. Len(items) : items[j] = item
      BY <3>1, OneItem
    <3> HIDE DEF items
    <3> QED BY <2>1, <3>1, <3>2, <3>3
  <2> QED BY <1>2, <2>2, <2>3 DEF Checks
<1>3. CASE LoadsNothing(c)
  <2> DEFINE it    == Head(agenda[c])
             act   == Len(mem[c]) + 1
             init  == InitialRun(it.spec.keys, act)
             run   == Run(it.spec, it.call, act)
             items == Append(init, run)
  <2>1. agenda[c] # <<>> /\ Push(c, items) /\ ~Inserts(c)
    BY <1>3 DEF LoadsNothing, Next0, Inserts
  <2>2. /\ it.spec \in PreparedSpec /\ it.call \in Nat /\ it.spec.keys \in Keys
        /\ act \in Nat \ {0} /\ minted \in Nat
    BY <1>1, <1>3, LoadParts DEF LoadsNothing, TypeInv, CountTypeOK
  <2>3. init \in Seq(ItemUpTo(act)) /\ Len(init) \in Nat
    BY <2>2, InitialRunType
  <2>4. run \in ItemUpTo(act) /\ run.op = "run" /\ run.act = act
    BY <2>2, RunItemType DEF Run
  <2>5. \A j \in 1 .. Len(init) : init[j].op = "run" /\ init[j].act = act
    <3> DEFINE inner == InitialEvent[MachineOf[it.spec.keys.entity]]
               first == Run(Spec0(it.spec.keys, minted + 1, inner, CauseOf("init")), 0, act)
    <3>1. init = <<>> \/ init = <<first>>
      BY DEF InitialRun
    <3>2. first.op = "run" /\ first.act = act
      BY DEF Run
    <3> HIDE DEF first, init
    <3>3. CASE init = <<>>
      BY <3>3, EmptySeq
    <3>4. CASE init = <<first>>
      BY <3>2, <3>4, OneItem
    <3> QED BY <3>1, <3>3, <3>4
  <2> HIDE DEF it, act, init, run
  <2>6. /\ items \in Seq(ItemUpTo(act)) /\ Len(items) = Len(init) + 1
        /\ items[Len(init) + 1] = run /\ \A j \in 1 .. Len(init) : items[j] = init[j]
    BY <2>3, <2>4, AppendProperties
  <2> HIDE DEF items
  <2>7. items \in Seq(Item)
    BY <2>6, SeqMonotonic DEF ItemUpTo
  <2>8. \A j \in 1 .. Len(items) : items[j].op = "run" /\ items[j].act = act
    <3>1. \A j \in 1 .. Len(items) : j \in 1 .. Len(init) \/ j = Len(init) + 1
      BY <2>3, <2>6
    <3> QED BY <2>4, <2>5, <2>6, <3>1
  <2>9. \A j \in 1 .. Len(items) : NewItem(c, items[j])
    BY <1>3, <2>8 DEF NewItem, act
  <2> QED BY <2>1, <2>7, <2>9
<1>4. CASE LoadsRow(c)
  <2> DEFINE it    == Head(agenda[c])
             act   == Len(mem[c]) + 1
             run   == Run(it.spec, it.call, act)
             items == <<run>>
  <2>1. agenda[c] # <<>> /\ Push(c, items) /\ ~Inserts(c)
    BY <1>4 DEF LoadsRow, Next0, Inserts
  <2>2. it.spec \in PreparedSpec /\ it.call \in Nat /\ act \in Nat \ {0}
    BY <1>1, <1>4, LoadParts DEF LoadsRow
  <2>3. run \in ItemUpTo(act) /\ run.op = "run" /\ run.act = act
    BY <2>2, RunItemType DEF Run
  <2>4. run \in Item
    BY <2>3 DEF ItemUpTo
  <2> HIDE DEF run, act
  <2>5. items \in Seq(Item) /\ \A j \in 1 .. Len(items) : items[j] = run
    BY <2>4, OneItem
  <2> HIDE DEF items
  <2>6. \A j \in 1 .. Len(items) : NewItem(c, items[j])
    BY <1>4, <2>3, <2>5 DEF NewItem, act
  <2> QED BY <2>1, <2>5, <2>6
<1>5. CASE Inserts(c)
  <2> DEFINE p     == pending[c]
             links == LinkRuns(p)
             emit  == EmitOf(p)
             items == Append(links, emit)
  <2>1. p # NoPending /\ Push(c, items) /\ agenda[c] # <<>>
    BY <1>5 DEF Inserts, Grounds, PendingInv
  <2>2. p \in Pending /\ p.act \in 1 .. Len(mem[c])
    BY <1>1, <2>1 DEF TypeInv, RunTypeInv
  <2>3. links \in Seq(ItemUpTo(Len(mem[c]))) /\ Len(links) \in Nat
    BY <1>1, <2>2, LinkRunsType
  <2>4. emit \in ItemUpTo(Len(mem[c]))
    <3>1. p.row \in EventRow /\ p.act \in Nat \ {0} /\ p.tr \in Transition
      BY <2>2 DEF Pending
    <3> QED BY <2>2, <3>1, RefType DEF ItemUpTo, Item, EmitOf
  <2>5. \A j \in 1 .. Len(links) : ~Live(links[j])
    <3>1. Len(p.tr.links) \in Nat
      BY <2>2 DEF Pending, Transition
    <3>2. \A j \in 1 .. Len(p.tr.links) : links[j].op = "runTx"
      BY DEF LinkRuns, RunTx
    <3>3. Len(links) = Len(p.tr.links)
      BY <3>1 DEF LinkRuns
    <3> QED BY <3>2, <3>3 DEF Live
  <2> HIDE DEF links, emit, p
  <2>6. /\ items \in Seq(ItemUpTo(Len(mem[c]))) /\ Len(items) = Len(links) + 1
        /\ items[Len(links) + 1] = emit /\ \A j \in 1 .. Len(links) : items[j] = links[j]
    BY <2>3, <2>4, AppendProperties
  <2> HIDE DEF items
  <2>7. items \in Seq(Item)
    BY <2>6, SeqMonotonic DEF ItemUpTo
  <2>8. \A j \in 1 .. Len(items) : items[j] = emit \/ ~Live(items[j])
    <3>1. \A j \in 1 .. Len(items) : j \in 1 .. Len(links) \/ j = Len(links) + 1
      BY <2>3, <2>6
    <3> QED BY <2>5, <2>6, <3>1
  <2>9. \A j \in 1 .. Len(items) : Live(items[j]) => NewItem(c, items[j])
    BY <1>5, <2>8 DEF NewItem, emit, p
  <2>10. \E j \in 1 .. Len(items) : items[j] = EmitOf(pending[c])
    <3>1. Len(links) + 1 \in 1 .. Len(items)
      BY <2>3, <2>6
    <3> QED BY <2>6, <3>1 DEF emit, p
  <2> QED BY <2>1, <2>7, <2>9, <2>10
<1>6. CASE Emit(c)
  <2> DEFINE it    == Head(agenda[c])
             items == Chained(c, it)
  <2>1. agenda[c] # <<>> /\ it.op = "emit" /\ Push(c, items) /\ ~Inserts(c)
    BY <1>6 DEF Emit, Next0, Inserts
  <2>2. items \in Seq(ItemUpTo(Len(mem[c]))) /\ Len(items) \in Nat
    BY <1>1, <2>1, MemTypes, ChainedType
  <2>3. \A j \in 1 .. Len(items) : items[j].op = "run" /\ items[j].act = it.act
    <3>1. it.tr \in Transition
      BY <1>1, <2>1, MemTypes, ItemTypes
    <3>2. Len(it.tr.chain) \in Nat
      BY <3>1 DEF Transition
    <3>3. Len(items) = Len(it.tr.chain)
      BY <3>2 DEF Chained
    <3> QED BY <3>3 DEF Chained, Run
  <2> HIDE DEF items, it
  <2>4. items \in Seq(Item)
    BY <2>2, SeqMonotonic DEF ItemUpTo
  <2>5. \A j \in 1 .. Len(items) : NewItem(c, items[j])
    BY <1>6, <2>1, <2>3 DEF NewItem, it
  <2> QED BY <2>1, <2>4, <2>5
<1> QED BY <1>2, <1>3, <1>4, <1>5, <1>6 DEF Moves

LEMMA LiveItems ==
  ASSUME Grounds, NEW c \in Clients, Moves(c),
         NEW i \in DOMAIN agenda'[c], Live(agenda'[c][i])
  PROVE  \/ \E j \in DOMAIN agenda[c] : agenda'[c][i] = agenda[c][j]
         \/ NewItem(c, agenda'[c][i])
<1>1. TypeInv
  BY DEF Grounds
<1>2. CASE Open(c)
  <2>1. agenda'[c] = [n \in 1 .. Len(job[c]) |-> RunTx(job[c][n], n)]
    BY <1>1, <1>2 DEF Open, TypeInv, RunTypeInv
  <2> QED BY <2>1 DEF RunTx, Live
<1>3. CASE RollsBack(c) \/ Commits(c)
  <2>1. agenda'[c] = <<>>
    BY <1>1, <1>3, DroppedRun DEF RollsBack, Commits
  <2> QED BY <2>1
<1>4. CASE Upsert(c)
  BY <1>4 DEF Upsert
<1>5. CASE ~(Open(c) \/ RollsBack(c) \/ Commits(c) \/ Upsert(c))
  <2>1. agenda[c] # <<>>
    BY <1>5, NewItems
  <2>2. PICK items \in Seq(Item) :
          /\ Push(c, items)
          /\ \A j \in 1 .. Len(items) : Live(items[j]) => NewItem(c, items[j])
    BY <1>5, NewItems
  <2> QED BY <1>1, <2>1, <2>2, NewAgenda
<1> QED BY <1>2, <1>3, <1>4, <1>5

(* Only the head leaves the agenda while an attempt goes on. *)
LEMMA ItemsStay ==
  ASSUME Grounds, NEW c \in Clients, Moves(c),
         ~Open(c), ~RollsBack(c), ~Commits(c), ~Upsert(c)
  PROVE  /\ \A j \in DOMAIN agenda[c] : j # 1 =>
              \E i \in DOMAIN agenda'[c] : agenda'[c][i] = agenda[c][j]
         /\ Inserts(c) =>
              \E i \in DOMAIN agenda'[c] : agenda'[c][i] = EmitOf(pending[c])
<1> DEFINE f == agenda[c]
           g == agenda'[c]
<1>1. TypeInv /\ f # <<>>
  BY NewItems DEF Grounds
<1>2. PICK items \in Seq(Item) :
        /\ Push(c, items)
        /\ Inserts(c) => \E j \in 1 .. Len(items) : items[j] = EmitOf(pending[c])
  BY NewItems
<1> DEFINE l == Len(items)
<1>3. f \in Seq(Item) /\ g = items \o Tail(f)
  BY <1>1, <1>2, MemTypes, Pushed
<1> HIDE DEF f, g
<1>4. /\ l \in Nat /\ Len(f) \in Nat \ {0} /\ DOMAIN f = 1 .. Len(f)
      /\ Len(g) = l + Len(f) - 1 /\ DOMAIN g = 1 .. Len(g)
      /\ \A i \in 1 .. l : g[i] = items[i]
      /\ \A i \in l + 1 .. Len(g) : g[i] = f[i - l + 1]
  BY <1>1, <1>3, ReplaceHead
<1>5. ASSUME NEW j \in DOMAIN f, j # 1
      PROVE  \E i \in DOMAIN g : g[i] = f[j]
  <2> DEFINE i == j + l - 1
  <2>1. i \in l + 1 .. Len(g) /\ i \in DOMAIN g /\ i - l + 1 = j
    BY <1>4, <1>5
  <2> QED BY <1>4, <2>1
<1>6. \A j \in 1 .. l : j \in DOMAIN g /\ g[j] = items[j]
  BY <1>4
<1> QED BY <1>2, <1>5, <1>6 DEF f, g

(***************************************************************************)
(* A move of c leaves the other clients alone; while c has runs left, all  *)
(* moves but Upsert leave its rows and its states in memory.               *)
(***************************************************************************)
LEMMA OthersKeep ==
  ASSUME TypeInv, NEW c \in Clients, Moves(c), NEW d \in Clients \ {c}
  PROVE  /\ agenda'[d] = agenda[d] /\ mem'[d] = mem[d] /\ pending'[d] = pending[d]
         /\ txRows'[d] = txRows[d] /\ snapRows'[d] = snapRows[d]
         /\ txDerived'[d] = txDerived[d]
<1>1. CASE Open(c)
  BY <1>1, DBTypes DEF Open, BeginTx, TypeInv, RunTypeInv
<1>2. CASE RollsBack(c) \/ Commits(c)
  <2>1. ClearTx(c) /\ DropRun(c)
    BY <1>2 DEF RollsBack, Commits, RollbackTx, CommitTx
  <2> QED BY <2>1, DroppedRun, DBTypes DEF ClearTx
<1>3. CASE Checks(c)
  <2>1. PICK items : Push(c, items)
    BY <1>3 DEF Checks
  <2> QED BY <1>3, <2>1, Pushed DEF Checks, dbVars
<1>4. CASE LoadsNothing(c) \/ LoadsRow(c)
  <2>1. PICK items, m : Push(c, items) /\ mem' = [mem EXCEPT ![c] = m]
    BY <1>4 DEF LoadsNothing, LoadsRow
  <2>2. mem'[d] = mem[d]
    BY <2>1 DEF TypeInv, RunTypeInv
  <2> QED BY <1>4, <2>1, <2>2, Pushed DEF LoadsNothing, LoadsRow, dbVars
<1>5. CASE Upsert(c)
  <2>1. mem'[d] = mem[d] /\ pending'[d] = pending[d] /\ agenda'[d] = agenda[d]
    BY <1>5, Upserted
  <2>2. txRows'[d] = txRows[d] /\ UNCHANGED <<snapRows, txDerived>>
    BY <1>5, DBTypes DEF Upsert, UpsertRow
  <2> QED BY <2>1, <2>2
<1>6. CASE Inserts(c)
  <2>1. PICK items : Push(c, items)
    BY <1>6 DEF Inserts
  <2>2. UNCHANGED <<mem, txRows, snapRows, txDerived>> /\ pending'[d] = pending[d]
    BY <1>6, DBTypes DEF Inserts, InsertEvent
  <2> QED BY <2>1, <2>2, Pushed
<1>7. CASE Emit(c)
  <2>1. PICK items : Push(c, items)
    BY <1>7 DEF Emit
  <2>2. UNCHANGED <<mem, pending, txRows, snapRows>> /\ txDerived'[d] = txDerived[d]
    BY <1>7, DBTypes DEF Emit, HookWrites
  <2> QED BY <2>1, <2>2, Pushed
<1> QED BY <1>1, <1>2, <1>3, <1>4, <1>5, <1>6, <1>7 DEF Moves

LEMMA LiveKeepsRows ==
  ASSUME TypeInv, KeysInv, NEW c \in Clients, Moves(c), ~Upsert(c),
         NEW i \in DOMAIN agenda'[c], Live(agenda'[c][i])
  PROVE  /\ txRows'[c] = txRows[c] /\ snapRows'[c] = snapRows[c]
         /\ \A act \in 1 .. Len(mem[c]) : mem'[c][act] = mem[c][act]
<1>1. ~Open(c)
  <2>1. SUFFICES ASSUME Open(c)
                 PROVE  FALSE
    OBVIOUS
  <2>2. agenda'[c] = [n \in 1 .. Len(job[c]) |-> RunTx(job[c][n], n)]
    BY <2>1 DEF Open, TypeInv, RunTypeInv
  <2> QED BY <2>2 DEF RunTx, Live
<1>2. ~(RollsBack(c) \/ Commits(c))
  <2>1. RollsBack(c) \/ Commits(c) => agenda'[c] = <<>>
    BY DroppedRun DEF RollsBack, Commits
  <2> QED BY <2>1
<1>3. CASE Checks(c)
  BY <1>3 DEF Checks, dbVars
<1>4. CASE LoadsNothing(c) \/ LoadsRow(c)
  BY <1>4, LoadedState DEF LoadsNothing, LoadsRow, dbVars
<1>5. CASE Inserts(c)
  BY <1>5 DEF Inserts, InsertEvent
<1>6. CASE Emit(c)
  BY <1>6 DEF Emit, HookWrites
<1> QED BY <1>1, <1>2, <1>3, <1>4, <1>5, <1>6 DEF Moves

LEMMA LiveTypes ==
  ASSUME TypeInv, NEW c \in Clients, NEW i \in DOMAIN agenda[c], Live(agenda[c][i])
  PROVE  /\ agenda[c][i].act \in 1 .. Len(mem[c])
         /\ mem[c][agenda[c][i].act] \in State
         /\ EntityOn(mem[c], agenda[c][i]) \in Entities
<1>1. agenda[c][i].act \in 1 .. Len(mem[c])
  BY MemTypes, ItemTypes DEF Live
<1>2. mem[c][agenda[c][i].act] \in State
  BY <1>1, MemTypes
<1> QED BY <1>1, <1>2, StateParts DEF EntityOn

(***************************************************************************)
(* Upsert changes the entity of one state in memory.  No other run of the  *)
(* transaction works on that entity, on another state.                     *)
(***************************************************************************)
LEMMA OneRunOfEntity ==
  ASSUME TypeInv, RunsAreLatest, NEW c \in Clients,
         NEW i \in DOMAIN agenda[c], Live(agenda[c][i]),
         NEW j \in DOMAIN agenda[c], Live(agenda[c][j]),
         agenda[c][i].act # agenda[c][j].act
  PROVE  EntityOn(mem[c], agenda[c][i]) # EntityOn(mem[c], agenda[c][j])
<1>1. /\ agenda[c][i].act \in 1 .. Len(mem[c]) /\ agenda[c][j].act \in 1 .. Len(mem[c])
      /\ Len(mem[c]) \in Nat
  BY LiveTypes, MemTypes
<1>2. ASSUME NEW a \in DOMAIN agenda[c], NEW b \in DOMAIN agenda[c], Live(agenda[c][a]),
             agenda[c][b].act \in agenda[c][a].act + 1 .. Len(mem[c])
      PROVE  EntityOn(mem[c], agenda[c][b]) # EntityOn(mem[c], agenda[c][a])
  BY <1>2 DEF RunsAreLatest, Live, EntityOn
<1>3. \/ agenda[c][j].act \in agenda[c][i].act + 1 .. Len(mem[c])
      \/ agenda[c][i].act \in agenda[c][j].act + 1 .. Len(mem[c])
  BY <1>1
<1> QED BY <1>2, <1>3

-----------------------------------------------------------------------------
(* Nothing is left to do outside of an attempt. *)
ClosedInv == \A c \in Clients : pc[c] # "open" => agenda[c] = <<>>

LEMMA NextClosed ==
  ASSUME TypeInv, PendingInv, ClosedInv, [Next]_vars
  PROVE  ClosedInv'
<1>1. CASE UNCHANGED vars \/ Rest
  BY <1>1 DEF vars, callVars, runVars, Rest, ClosedInv
<1>2. ASSUME NEW c \in Clients, Call(c) \/ Resend(c) \/ Step(c) \/ Fault(c)
      PROVE  ClosedInv'
  <2>1. ASSUME DropRun(c), NEW at, pc' = [pc EXCEPT ![c] = at]
        PROVE  ClosedInv'
    BY <2>1, DroppedRun DEF ClosedInv, TypeInv, CallTypeOK
  <2>2. ASSUME NEW why, Abort(c, why)
        PROVE  ClosedInv'
    BY <2>1, <2>2 DEF Abort
  <2>3. ASSUME Retry(c)
        PROVE  ClosedInv'
    <3>1. DropRun(c)
      BY <2>3 DEF Retry
    <3>2. pc' = [pc EXCEPT ![c] = "called"] \/ pc' = [pc EXCEPT ![c] = "failed"]
      BY <2>3 DEF Retry
    <3> QED BY <2>1, <3>1, <3>2
  <2>4. ASSUME UNCHANGED pc, pc[c] = "open", NEW items, Push(c, items)
        PROVE  ClosedInv'
    BY <2>4, Pushed DEF ClosedInv
  <2>5. CASE Call(c) \/ Resend(c)
    <3>1. /\ pc' = [pc EXCEPT ![c] = "called"] /\ UNCHANGED agenda /\ pc[c] # "open"
      BY <2>5 DEF Call, Resend, Ask, runVars, Busy
    <3> QED BY <3>1 DEF ClosedInv, TypeInv, CallTypeOK
  <2>6. CASE Open(c)
    <3>1. pc'[c] = "open" /\ \A d \in Clients \ {c} : pc'[d] = pc[d] /\ agenda'[d] = agenda[d]
      BY <2>6 DEF Open, TypeInv, CallTypeOK, RunTypeInv
    <3> QED BY <3>1 DEF ClosedInv
  <2>7. CASE InvalidSpec(c) \/ RunFails(c) \/ CallbackFails(c)
    BY <2>2, <2>7 DEF InvalidSpec, RunFails, CallbackFails
  <2>8. CASE UniqueCheck(c)
    <3>1. pc[c] = "open"
      BY <2>8 DEF UniqueCheck, Next0
    <3>2. Abort(c, "duplicate ID") \/ (UNCHANGED pc /\ \E items : Push(c, items))
      BY <2>8 DEF UniqueCheck
    <3> QED BY <2>2, <2>4, <3>1, <3>2
  <2>9. CASE Load(c)
    <3>1. pc[c] = "open"
      BY <2>9 DEF Load, Next0
    <3>2. (\E why \in Errors : Abort(c, why)) \/ (UNCHANGED pc /\ \E items : Push(c, items))
      BY <2>9 DEF Load, callVars, Errors
    <3> QED BY <2>2, <2>4, <3>1, <3>2
  <2>10. CASE Upsert(c)
    BY <2>10 DEF Upsert, callVars, ClosedInv
  <2>11. CASE SerializationFailure(c) \/ DeadlockVictim(c)
    BY <2>3, <2>11 DEF SerializationFailure, DeadlockVictim
  <2>12. CASE Insert(c)
    <3>1. pc[c] = "open"
      BY <2>12 DEF Insert, PendingInv
    <3>2. Abort(c, "unique violation") \/ (UNCHANGED pc /\ \E items : Push(c, items))
      BY <2>12 DEF Insert
    <3> QED BY <2>2, <2>4, <3>1, <3>2
  <2>13. CASE Emit(c)
    <3>1. pc[c] = "open" /\ UNCHANGED pc /\ Push(c, Chained(c, Head(agenda[c])))
      BY <2>13 DEF Emit, Next0, callVars
    <3> QED BY <2>4, <3>1
  <2>14. CASE Commit(c) \/ Crash(c) \/ CommitUnacked(c)
    BY <2>1, <2>14 DEF Commit, Crash, CommitUnacked
  <2> QED BY <1>2, <2>5, <2>6, <2>7, <2>8, <2>9, <2>10, <2>11, <2>12, <2>13, <2>14
          DEF Step, Fault
<1> QED BY <1>1, <1>2 DEF Next

-----------------------------------------------------------------------------
(***************************************************************************)
(* Event IDs below the counter have been drawn: what is drawn next, no     *)
(* event has.  An item that runs a link or a chained event writes into no  *)
(* spec of a caller, and a link has no ID before its check.                *)
(***************************************************************************)
Drawn(id, n) == id \in Nat => id <= n

CallerSpec(spec, n) == FromOutside(spec) /\ Drawn(spec.id, n)

OwnItem(it, n) ==
  it.op # "emit" =>
    /\ Drawn(it.spec.id, n)
    /\ \/ FromOutside(it.spec)
       \/ it.call = 0 /\ (it.op = "runTx" => it.spec.id = NoId)

CallersInv ==
  \A c \in Clients :
    /\ \A i \in DOMAIN job[c] : CallerSpec(job[c][i], minted)
    /\ \A i \in DOMAIN asked[c] : CallerSpec(asked[c][i], minted)

ItemsInv == \A c \in Clients : \A i \in DOMAIN agenda[c] : OwnItem(agenda[c][i], minted)

IdsInv ==
  /\ \A e \in events : Drawn(e.id, minted)
  /\ \A c \in Clients : \A e \in Stored(c) : Drawn(e.id, minted)

SpecsInv == CallersInv /\ ItemsInv /\ IdsInv
-----------------------------------------------------------------------------
LEMMA MintedGrows ==
  ASSUME TypeInv, [Next]_vars
  PROVE  minted \in Nat /\ minted' \in Nat /\ minted <= minted'
<1>1. minted \in Nat
  BY DEF TypeInv, CountTypeOK
<1>2. CASE UNCHANGED vars \/ Rest
  BY <1>1, <1>2 DEF vars, Rest
<1>3. ASSUME NEW c \in Clients, Call(c) \/ Resend(c) \/ Step(c) \/ Fault(c)
      PROVE  minted' \in Nat /\ minted <= minted'
  <2>1. CASE Call(c) \/ Resend(c)
    BY <1>1, <2>1 DEF Call, Resend, Ask
  <2>2. ASSUME NEW n \in Nat, DrawIDs(n)
        PROVE  minted' \in Nat /\ minted <= minted'
    BY <1>1, <2>2 DEF DrawIDs
  <2>3. CASE UniqueCheck(c)
    <3>1. DrawIDs(0) \/ DrawIDs(1)
      BY <2>3 DEF UniqueCheck
    <3> QED BY <2>2, <3>1
  <2>4. CASE Load(c)
    <3> DEFINE keys == Head(agenda[c]).spec.keys
               act  == Len(mem[c]) + 1
    <3>1. keys \in Keys /\ act \in Nat \ {0}
      <4>1. Next0(c, "load") /\ Len(mem[c]) \in Nat
        BY <2>4, MemTypes DEF Load
      <4> QED BY <4>1, LoadParts
    <3>2. DrawIDs(Len(InitialRun(keys, act))) \/ UNCHANGED minted
      BY <2>4 DEF Load
    <3> HIDE DEF keys, act
    <3> QED BY <1>1, <2>2, <3>1, <3>2, InitialRunType
  <2>5. CASE Emit(c)
    <3> DEFINE n == Len(Chained(c, Head(agenda[c])))
    <3>1. n \in Nat
      BY <2>5, MemTypes, ChainedType DEF Emit, Next0
    <3>2. DrawIDs(n)
      BY <2>5 DEF Emit
    <3> HIDE DEF n
    <3> QED BY <1>1, <3>1, <3>2 DEF DrawIDs
  <2>6. CASE \/ Open(c) \/ InvalidSpec(c) \/ RunFails(c) \/ Upsert(c) \/ Insert(c)
             \/ SerializationFailure(c) \/ DeadlockVictim(c) \/ Commit(c) \/ Fault(c)
    <3>1. UNCHANGED minted
      BY <2>6 DEF Open, InvalidSpec, RunFails, Upsert, Insert, SerializationFailure,
                  DeadlockVictim, Retry, Commit, Fault, CallbackFails, Crash, CommitUnacked
    <3> QED BY <1>1, <3>1
  <2> QED BY <1>3, <2>1, <2>3, <2>4, <2>5, <2>6 DEF Step
<1> QED BY <1>1, <1>2, <1>3 DEF Next

LEMMA DrawnGrows ==
  ASSUME NEW m \in Nat, NEW n \in Nat, m <= n
  PROVE  /\ \A id : Drawn(id, m) => Drawn(id, n)
         /\ \A s : CallerSpec(s, m) => CallerSpec(s, n)
         /\ \A it : OwnItem(it, m) => OwnItem(it, n)
<1>1. \A id : Drawn(id, m) => Drawn(id, n)
  BY DEF Drawn
<1> QED BY <1>1 DEF CallerSpec, OwnItem

(* A step of c that leaves the specs as they are, or writes one back. *)
LEMMA WriteKeepsCallers ==
  ASSUME TypeInv, CallersInv, minted' \in Nat, minted <= minted', UNCHANGED asked,
         NEW c \in Clients, NEW i \in Nat, NEW spec, WriteBack(c, i, spec),
         i # 0 => CallerSpec(spec, minted')
  PROVE  CallersInv'
<1>1. minted \in Nat /\ job \in [Clients -> Seq(EventSpec)]
  BY DEF TypeInv, CountTypeOK, CallTypeOK
<1>2. \A s : CallerSpec(s, minted) => CallerSpec(s, minted')
  BY <1>1, DrawnGrows
<1>3. ASSUME NEW d \in Clients, NEW j \in DOMAIN job'[d]
      PROVE  CallerSpec(job'[d][j], minted')
  <2>1. CASE i \notin DOMAIN job[c] \/ d # c
    BY <1>1, <1>2, <1>3, <2>1 DEF WriteBack, CallersInv
  <2>2. CASE i \in DOMAIN job[c] /\ d = c
    <3>1. job'[c] = [job[c] EXCEPT ![i] = spec] /\ i # 0
      BY <1>1, <2>2 DEF WriteBack
    <3>2. CASE j = i
      BY <1>3, <2>2, <3>1, <3>2
    <3>3. CASE j # i
      BY <1>2, <1>3, <2>2, <3>1, <3>3 DEF CallersInv
    <3> QED BY <3>2, <3>3
  <2> QED BY <2>1, <2>2
<1> QED BY <1>2, <1>3 DEF CallersInv

LEMMA NextCallers ==
  ASSUME TypeInv, CallersOutside, CallersInv, ItemsInv, [Next]_vars
  PROVE  CallersInv'
<1>1. minted \in Nat /\ minted' \in Nat /\ minted <= minted'
  BY MintedGrows
<1>2. \A s : CallerSpec(s, minted) => CallerSpec(s, minted')
  BY <1>1, DrawnGrows
<1>3. ASSUME UNCHANGED <<job, asked>>
      PROVE  CallersInv'
  BY <1>2, <1>3 DEF CallersInv
<1>4. job \in [Clients -> Seq(EventSpec)] /\ asked \in [Clients -> Seq(EventSpec)]
  BY DEF TypeInv, CallTypeOK
<1>5. ASSUME NEW c \in Clients, Call(c) \/ Resend(c) \/ Step(c) \/ Fault(c)
      PROVE  CallersInv'
  <2> DEFINE it == Head(agenda[c])
  <2>1. CASE Call(c)
    <3>1. PICK specs \in Jobs : /\ job' = [job EXCEPT ![c] = specs]
                                /\ asked' = [asked EXCEPT ![c] = specs]
      BY <2>1 DEF Call, Ask
    <3>2. \A i \in DOMAIN specs : CallerSpec(specs[i], minted')
      BY DEF CallersOutside, CallerSpec, Drawn
    <3> QED BY <1>2, <1>4, <3>1, <3>2 DEF CallersInv
  <2>2. CASE Resend(c)
    <3>1. UNCHANGED asked /\ \/ job' = [job EXCEPT ![c] = job[c]]
                             \/ job' = [job EXCEPT ![c] = asked[c]]
      BY <2>2 DEF Resend, Ask
    <3> QED BY <1>2, <1>4, <3>1 DEF CallersInv
  <2>3. ASSUME Next0(c, "runTx") \/ Next0(c, "load")
        PROVE  /\ it.spec \in EventSpec /\ it.call \in Nat
               /\ it.call # 0 => CallerSpec(it.spec, minted)
    <3>1. it \in ItemUpTo(Len(mem[c])) /\ Len(mem[c]) \in Nat /\ it = agenda[c][1]
          /\ 1 \in DOMAIN agenda[c]
      BY <2>3, MemTypes, HeadTailProperties DEF Next0
    <3>2. it.op # "emit" /\ it.spec \in EventSpec /\ it.call \in Nat
      BY <2>3, <3>1, ItemTypes DEF Next0, PreparedSpec
    <3>3. OwnItem(it, minted)
      BY <3>1 DEF ItemsInv
    <3> QED BY <3>2, <3>3 DEF OwnItem, CallerSpec
  <2>4. CASE InvalidSpec(c)
    <3>1. Next0(c, "runTx") /\ WriteBack(c, it.call, WithCause(it.spec)) /\ UNCHANGED asked
      BY <2>4 DEF InvalidSpec, Abort
    <3>2. it.call # 0 => CallerSpec(WithCause(it.spec), minted')
      <4>1. it.spec \in EventSpec /\ (it.call # 0 => CallerSpec(it.spec, minted'))
        BY <1>2, <2>3, <3>1
      <4>2. WithCause(it.spec).id = it.spec.id
            /\ (FromOutside(it.spec) => FromOutside(WithCause(it.spec)))
        BY <4>1 DEF WithCause, FromOutside, CauseOf, EventSpec
      <4> QED BY <4>1, <4>2 DEF CallerSpec
    <3> QED BY <1>1, <2>3, <3>1, <3>2, WriteKeepsCallers
  <2>5. CASE UniqueCheck(c)
    <3> DEFINE spec == WithID(WithCause(it.spec))
    <3>1. /\ Next0(c, "runTx") /\ WriteBack(c, it.call, spec) /\ UNCHANGED asked
          /\ minted' = minted + (IF it.spec.id = NoId THEN 1 ELSE 0)
      BY <2>5 DEF UniqueCheck, Abort, DrawIDs
    <3>2. it.call # 0 => CallerSpec(spec, minted')
      <4>1. it.spec \in EventSpec /\ (it.call # 0 => CallerSpec(it.spec, minted'))
        BY <1>2, <2>3, <3>1
      <4>2. FromOutside(it.spec) => FromOutside(spec)
        BY <4>1 DEF WithCause, WithID, FromOutside, CauseOf, EventSpec
      <4>3. spec.id = IF it.spec.id = NoId THEN minted + 1 ELSE it.spec.id
        BY <4>1 DEF WithCause, WithID, EventSpec
      <4>4. Drawn(it.spec.id, minted') => Drawn(spec.id, minted')
        BY <1>1, <3>1, <4>3 DEF Drawn
      <4> HIDE DEF spec
      <4> QED BY <4>1, <4>2, <4>4 DEF CallerSpec
    <3> HIDE DEF spec
    <3> QED BY <1>1, <2>3, <3>1, <3>2, WriteKeepsCallers
  <2>6. CASE Load(c)
    <3>1. Next0(c, "load")
      BY <2>6 DEF Load
    <3>2. \/ UNCHANGED <<job, asked>>
          \/ /\ VisibleRow(c, it.spec.keys.entity) # NoState /\ UNCHANGED asked
             /\ WriteBack(c, it.call,
                  [it.spec EXCEPT !.keys = VisibleRow(c, it.spec.keys.entity).keys])
      BY <2>6 DEF Load, callVars, Abort
    <3>3. ASSUME NEW k
          PROVE  it.call # 0 => CallerSpec([it.spec EXCEPT !.keys = k], minted')
      <4>1. it.spec \in EventSpec /\ (it.call # 0 => CallerSpec(it.spec, minted'))
        BY <1>2, <2>3, <3>1
      <4> QED BY <4>1 DEF CallerSpec, FromOutside, EventSpec
    <3> QED BY <1>1, <1>3, <2>3, <3>1, <3>2, <3>3, WriteKeepsCallers
  <2>7. CASE Crash(c)
    <3>1. UNCHANGED asked /\ job' = [job EXCEPT ![c] = asked[c]]
      BY <2>7 DEF Crash
    <3> QED BY <1>2, <1>4, <3>1 DEF CallersInv
  <2> QED BY <1>3, <1>5, <2>1, <2>2, <2>4, <2>5, <2>6, <2>7
          DEF Step, Fault, Open, RunFails, Upsert, SerializationFailure, Abort, callVars,
              Insert, Emit, Commit, DeadlockVictim, Retry, CallbackFails, CommitUnacked
<1> QED BY <1>3, <1>5 DEF Next, Rest, vars, callVars

LEMMA PushOwn ==
  ASSUME TypeInv, ItemsInv, minted' \in Nat, minted <= minted',
         NEW c \in Clients, agenda[c] # <<>>, NEW items \in Seq(Item), Push(c, items),
         \A j \in 1 .. Len(items) : OwnItem(items[j], minted')
  PROVE  ItemsInv'
<1>1. minted \in Nat
  BY DEF TypeInv, CountTypeOK
<1>2. \A it : OwnItem(it, minted) => OwnItem(it, minted')
  BY <1>1, DrawnGrows
<1>3. \A i \in DOMAIN agenda'[c] : OwnItem(agenda'[c][i], minted')
  BY <1>2, NewAgenda DEF ItemsInv
<1>4. \A d \in Clients \ {c} : agenda'[d] = agenda[d]
  BY Pushed
<1> QED BY <1>2, <1>3, <1>4 DEF ItemsInv

LEMMA LoadKeepsItems ==
  ASSUME TypeInv, ItemsInv, minted' \in Nat, minted <= minted', NEW c \in Clients, Load(c)
  PROVE  ItemsInv' \/ \E why \in Errors : Abort(c, why)
<1> DEFINE it    == Head(agenda[c])
           act   == Len(mem[c]) + 1
           init  == InitialRun(it.spec.keys, act)
           run   == Run(it.spec, it.call, act)
<1>1. /\ agenda[c] # <<>> /\ it.op = "load" /\ it.spec \in PreparedSpec /\ it.call \in Nat
      /\ it.spec.keys \in Keys /\ act \in Nat \ {0} /\ minted \in Nat
  <2>1. Next0(c, "load") /\ Len(mem[c]) \in Nat /\ minted \in Nat
    BY MemTypes DEF Load, TypeInv, CountTypeOK
  <2> QED BY <2>1, LoadParts
<1>2. \/ Push(c, Append(init, run)) /\ DrawIDs(Len(init))
      \/ Push(c, <<run>>)
      \/ \E why \in Errors : Abort(c, why)
  BY DEF Load, Errors
<1>3. run \in Item /\ OwnItem(run, minted')
  <2>1. it = agenda[c][1] /\ 1 \in DOMAIN agenda[c]
    BY <1>1, MemTypes, HeadTailProperties
  <2>2. OwnItem(it, minted')
    BY <1>1, <2>1, DrawnGrows DEF ItemsInv
  <2>3. run \in Item
    BY <1>1, RunItemType DEF ItemUpTo
  <2> HIDE DEF act
  <2> QED BY <1>1, <2>2, <2>3 DEF OwnItem, Run
<1>4. CASE Push(c, <<run>>)
  <2>1. <<run>> \in Seq(Item) /\ \A j \in 1 .. Len(<<run>>) : <<run>>[j] = run
    BY <1>3, OneItem
  <2> DEFINE items == <<run>>
  <2> HIDE DEF run, it, items
  <2>2. /\ items \in Seq(Item) /\ Push(c, items)
        /\ \A j \in 1 .. Len(items) : OwnItem(items[j], minted')
    BY <1>3, <1>4, <2>1 DEF items
  <2> QED BY <1>1, <2>2, PushOwn
<1>5. CASE Push(c, Append(init, run)) /\ DrawIDs(Len(init))
  <2>1. init \in Seq(Item) /\ Len(init) \in Nat
    <3>1. init \in Seq(ItemUpTo(act)) /\ Len(init) \in Nat
      BY <1>1, InitialRunType
    <3> QED BY <3>1, SeqMonotonic DEF ItemUpTo
  <2>2. \A j \in 1 .. Len(init) : OwnItem(init[j], minted')
    <3> DEFINE inner == InitialEvent[MachineOf[it.spec.keys.entity]]
               first == Run(Spec0(it.spec.keys, minted + 1, inner, CauseOf("init")), 0, act)
    <3>1. init = <<>> \/ init = <<first>>
      BY DEF InitialRun
    <3>2. OwnItem(first, minted + 1)
      <4>1. first.spec.id = minted + 1 /\ first.spec.cause.type = "init"
        BY DEF Run, Spec0, CauseOf
      <4> HIDE DEF first
      <4> QED BY <1>1, <4>1 DEF OwnItem, Drawn, FromOutside
    <3> HIDE DEF first
    <3>3. CASE init = <<>>
      BY <3>3, EmptySeq
    <3>4. CASE init = <<first>>
      <4>1. Len(init) = 1 /\ minted' = minted + 1
        BY <1>5, <3>4, OneItem DEF DrawIDs
      <4> QED BY <3>2, <3>4, <4>1, OneItem
    <3> HIDE DEF init
    <3> QED BY <3>1, <3>3, <3>4
  <2> DEFINE items == Append(init, run)
  <2> HIDE DEF run, init
  <2>3. /\ items \in Seq(Item) /\ Len(items) = Len(init) + 1
        /\ items[Len(init) + 1] = run /\ \A j \in 1 .. Len(init) : items[j] = init[j]
    BY <1>3, <2>1, AppendProperties
  <2>4. Push(c, items)
    BY <1>5
  <2> HIDE DEF items
  <2>5. \A j \in 1 .. Len(items) : OwnItem(items[j], minted')
    <3>1. \A j \in 1 .. Len(items) : j \in 1 .. Len(init) \/ j = Len(init) + 1
      BY <2>1, <2>3
    <3> QED BY <1>3, <2>2, <2>3, <3>1
  <2> QED BY <1>1, <2>3, <2>4, <2>5, PushOwn
<1> HIDE DEF init, run
<1> QED BY <1>2, <1>4, <1>5

LEMMA InsertKeepsItems ==
  ASSUME TypeInv, PendingInv, ItemsInv, minted' \in Nat, minted <= minted',
         NEW c \in Clients, Inserts(c)
  PROVE  ItemsInv'
<1> DEFINE p     == pending[c]
           links == LinkRuns(p)
           emit  == EmitOf(p)
           items == Append(links, emit)
<1>1. p # NoPending /\ Push(c, items) /\ agenda[c] # <<>> /\ p \in Pending
      /\ p.act \in 1 .. Len(mem[c]) /\ Len(mem[c]) \in Nat
  BY MemTypes DEF Inserts, PendingInv, TypeInv, RunTypeInv
<1>2. links \in Seq(Item) /\ Len(links) \in Nat /\ emit \in Item
  <2>1. links \in Seq(ItemUpTo(Len(mem[c]))) /\ Len(links) \in Nat
    BY <1>1, LinkRunsType
  <2>2. p.row \in EventRow /\ p.act \in Nat \ {0} /\ p.tr \in Transition
    BY <1>1 DEF Pending
  <2> QED BY <2>1, <2>2, RefType, SeqMonotonic DEF ItemUpTo, Item, EmitOf
<1>3. \A j \in 1 .. Len(links) : OwnItem(links[j], minted')
  <2>1. Len(p.tr.links) \in Nat
    BY <1>1 DEF Pending, Transition
  <2>2. Len(links) = Len(p.tr.links)
    BY <2>1 DEF LinkRuns
  <2>3. \A j \in 1 .. Len(links) : links[j].call = 0 /\ links[j].spec.id = NoId
    BY <2>2 DEF LinkRuns, RunTx, Spec0
  <2> HIDE DEF links
  <2> QED BY <2>3, ValuesAssumption DEF OwnItem, Drawn
<1>4. OwnItem(emit, minted')
  BY DEF OwnItem, EmitOf
<1> HIDE DEF links, emit
<1>5. /\ items \in Seq(Item) /\ Len(items) = Len(links) + 1
      /\ items[Len(links) + 1] = emit /\ \A j \in 1 .. Len(links) : items[j] = links[j]
  BY <1>2, AppendProperties
<1> HIDE DEF items
<1>6. \A j \in 1 .. Len(items) : OwnItem(items[j], minted')
  <2>1. \A j \in 1 .. Len(items) : j \in 1 .. Len(links) \/ j = Len(links) + 1
    BY <1>2, <1>5
  <2> QED BY <1>3, <1>4, <1>5, <2>1
<1> QED BY <1>1, <1>5, <1>6, PushOwn

LEMMA EmitKeepsItems ==
  ASSUME TypeInv, ItemsInv, minted' \in Nat, minted <= minted', NEW c \in Clients, Emit(c)
  PROVE  ItemsInv'
<1> DEFINE it    == Head(agenda[c])
           items == Chained(c, it)
<1>1. agenda[c] # <<>> /\ it.op = "emit" /\ Push(c, items) /\ DrawIDs(Len(items))
  BY DEF Emit, Next0
<1>2. /\ items \in Seq(Item) /\ Len(items) \in Nat /\ it.tr \in Transition /\ minted \in Nat
  <2>1. items \in Seq(ItemUpTo(Len(mem[c]))) /\ Len(items) \in Nat /\ it.tr \in Transition
    BY <1>1, MemTypes, ItemTypes, ChainedType
  <2> HIDE DEF items
  <2> QED BY <2>1, SeqMonotonic DEF ItemUpTo, TypeInv, CountTypeOK
<1>3. \A j \in 1 .. Len(items) :
        items[j].op = "run" /\ items[j].call = 0 /\ items[j].spec.id = minted + j
  <2>1. Len(it.tr.chain) \in Nat
    BY <1>2 DEF Transition
  <2>2. Len(items) = Len(it.tr.chain)
    BY <2>1 DEF Chained
  <2> QED BY <2>2 DEF Chained, Run, Spec0
<1> HIDE DEF items
<1>4. \A j \in 1 .. Len(items) : OwnItem(items[j], minted')
  BY <1>1, <1>2, <1>3 DEF OwnItem, Drawn, DrawIDs
<1> QED BY <1>1, <1>2, <1>4, PushOwn

LEMMA UniqueCheckKeepsItems ==
  ASSUME TypeInv, ItemsInv, minted' \in Nat, minted <= minted',
         NEW c \in Clients, UniqueCheck(c)
  PROVE  ItemsInv' \/ Abort(c, "duplicate ID")
<1> DEFINE it   == Head(agenda[c])
           spec == WithID(WithCause(it.spec))
           item == [op |-> "load", spec |-> spec, call |-> it.call]
<1>1. /\ agenda[c] # <<>> /\ it.op = "runTx" /\ ValidSpec(it.spec)
      /\ minted' = minted + (IF it.spec.id = NoId THEN 1 ELSE 0)
      /\ Push(c, <<>>) \/ Push(c, <<item>>) \/ Abort(c, "duplicate ID")
  BY DEF UniqueCheck, Next0, DrawIDs
<1>2. it.spec \in EventSpec /\ it.call \in Nat /\ minted \in Nat
  BY <1>1, MemTypes, ItemTypes DEF TypeInv, CountTypeOK
<1>3. OwnItem(it, minted)
  <2>1. agenda[c] # <<>> /\ agenda[c] \in Seq(Item)
    BY <1>1, MemTypes
  <2>2. it = agenda[c][1] /\ 1 \in DOMAIN agenda[c]
    BY <2>1, HeadTailProperties
  <2> QED BY <2>2 DEF ItemsInv
<1>4. item \in Item
  BY <1>1, <1>2, PreparedType DEF Item
<1>5. /\ FromOutside(it.spec) => FromOutside(spec)
      /\ spec.id = IF it.spec.id = NoId THEN minted + 1 ELSE it.spec.id
  BY <1>2 DEF WithCause, WithID, FromOutside, CauseOf, EventSpec
<1> HIDE DEF spec
<1>6. OwnItem(item, minted')
  <2>1. Drawn(it.spec.id, minted) /\ (FromOutside(it.spec) \/ it.call = 0)
    BY <1>1, <1>3 DEF OwnItem
  <2>2. Drawn(spec.id, minted')
    <3>1. CASE it.spec.id = NoId
      <4>1. minted' = minted + 1 /\ spec.id = minted + 1
        BY <1>1, <1>5, <3>1
      <4> QED BY <1>2, <4>1 DEF Drawn
    <3>2. CASE it.spec.id # NoId
      <4>1. spec.id = it.spec.id
        BY <1>5, <3>2
      <4>2. minted' = minted + 0
        BY <1>1, <3>2
      <4>3. minted' = minted
        BY <1>2, <4>2
      <4> QED BY <2>1, <4>1, <4>3
    <3> QED BY <3>1, <3>2
  <2>3. item.op = "load" /\ item.spec = spec /\ item.call = it.call
    OBVIOUS
  <2> HIDE DEF item
  <2> QED BY <1>5, <2>1, <2>2, <2>3 DEF OwnItem
<1> HIDE DEF item
<1>7. CASE Push(c, <<item>>)
  <2> DEFINE items == <<item>>
  <2>1. items \in Seq(Item) /\ Push(c, items) /\ \A j \in 1 .. Len(items) : items[j] = item
    BY <1>4, <1>7, OneItem
  <2> HIDE DEF items
  <2> QED BY <1>1, <1>6, <2>1, PushOwn
<1>8. CASE Push(c, <<>>)
  <2> DEFINE items == <<>>
  <2>1. items \in Seq(Item) /\ Push(c, items) /\ \A j \in 1 .. Len(items) : FALSE
    BY <1>8, EmptySeq
  <2> HIDE DEF items
  <2> QED BY <1>1, <2>1, PushOwn
<1> QED BY <1>1, <1>7, <1>8

LEMMA NextItemsOwn ==
  ASSUME TypeInv, PendingInv, CallersInv, ItemsInv, [Next]_vars
  PROVE  ItemsInv'
<1>1. minted \in Nat /\ minted' \in Nat /\ minted <= minted'
  BY MintedGrows
<1>2. \A it : OwnItem(it, minted) => OwnItem(it, minted')
  BY <1>1, DrawnGrows
<1>3. ASSUME UNCHANGED agenda
      PROVE  ItemsInv'
  BY <1>2, <1>3 DEF ItemsInv
<1>4. ASSUME NEW c \in Clients, Call(c) \/ Resend(c) \/ Step(c) \/ Fault(c)
      PROVE  ItemsInv'
  <2>1. ASSUME DropRun(c)
        PROVE  ItemsInv'
    BY <1>2, <2>1, DroppedRun DEF ItemsInv
  <2>2. ASSUME NEW why, Abort(c, why)
        PROVE  ItemsInv'
    BY <2>1, <2>2 DEF Abort
  <2>3. CASE Call(c) \/ Resend(c) \/ Upsert(c)
    BY <1>3, <2>3 DEF Call, Resend, Ask, runVars, Upsert
  <2>4. CASE Open(c)
    <3>1. /\ agenda'[c] = [i \in 1 .. Len(job[c]) |-> RunTx(job[c][i], i)]
          /\ \A d \in Clients \ {c} : agenda'[d] = agenda[d]
          /\ job[c] \in Seq(EventSpec)
      BY <2>4 DEF Open, TypeInv, RunTypeInv, CallTypeOK
    <3>2. \A i \in DOMAIN agenda'[c] : OwnItem(agenda'[c][i], minted)
      BY <3>1 DEF CallersInv, CallerSpec, OwnItem, RunTx
    <3> QED BY <1>2, <3>1, <3>2 DEF ItemsInv
  <2>5. CASE InvalidSpec(c) \/ RunFails(c) \/ CallbackFails(c)
    BY <2>2, <2>5 DEF InvalidSpec, RunFails, CallbackFails
  <2>6. CASE UniqueCheck(c)
    BY <1>1, <2>2, <2>6, UniqueCheckKeepsItems
  <2>7. CASE Load(c)
    BY <1>1, <2>2, <2>7, LoadKeepsItems
  <2>8. CASE SerializationFailure(c) \/ DeadlockVictim(c) \/ Crash(c) \/ Commit(c)
             \/ CommitUnacked(c)
    BY <2>1, <2>8 DEF SerializationFailure, DeadlockVictim, Retry, Crash, Commit, CommitUnacked
  <2>9. CASE Insert(c)
    <3>1. Inserts(c) \/ \E why \in Errors : Abort(c, why)
      BY <2>9 DEF Insert, Inserts, EmitOf, Errors
    <3> QED BY <1>1, <2>2, <3>1, InsertKeepsItems
  <2>10. CASE Emit(c)
    BY <1>1, <2>10, EmitKeepsItems
  <2> QED BY <1>4, <2>3, <2>4, <2>5, <2>6, <2>7, <2>8, <2>9, <2>10 DEF Step, Fault
<1> QED BY <1>3, <1>4 DEF Next, Rest, vars, runVars

LEMMA NextIds ==
  ASSUME Grounds, ItemsInv, IdsInv, [Next]_vars
  PROVE  IdsInv'
<1>1. minted \in Nat /\ minted' \in Nat /\ minted <= minted'
  BY MintedGrows DEF Grounds
<1>2. \A id : Drawn(id, minted) => Drawn(id, minted')
  BY <1>1, DrawnGrows
<1>3. ASSUME NEW c \in Clients, events' \subseteq events \cup txEvents[c],
             \A e \in Stored(c)' : e \in Stored(c) \/ Drawn(e.id, minted'),
             \A d \in Clients \ {c} : txEvents'[d] = txEvents[d] /\ pending'[d] = pending[d]
      PROVE  IdsInv'
  <2>1. \A d \in Clients \ {c} : Stored(d)' = Stored(d)
    BY <1>3 DEF Stored
  <2>2. txEvents[c] \subseteq Stored(c)
    BY DEF Stored
  <2> QED BY <1>2, <1>3, <2>1, <2>2 DEF IdsInv
<1>4. CASE UNCHANGED <<dbVars, agenda, pending, mem>>
  BY <1>2, <1>4 DEF IdsInv, Stored, dbVars
<1>5. ASSUME NEW c \in Clients, Moves(c)
      PROVE  IdsInv'
  <2>1. TypeInv
    BY DEF Grounds
  <2>2. CASE Open(c) \/ Checks(c) \/ LoadsNothing(c) \/ LoadsRow(c) \/ Emit(c)
    <3>1. UNCHANGED <<events, txEvents, pending>>
      BY <2>2 DEF Open, BeginTx, Checks, LoadsNothing, LoadsRow, Emit, HookWrites, tables, dbVars
    <3> QED BY <1>2, <3>1 DEF IdsInv, Stored
  <2>3. CASE RollsBack(c) \/ Commits(c)
    <3>1. /\ txEvents' = [txEvents EXCEPT ![c] = {}]
          /\ events' \in {events, events \cup txEvents[c]}
      BY <2>3 DEF RollsBack, Commits, RollbackTx, CommitTx, ClearTx, tables
    <3>2. /\ pending'[c] = NoPending /\ txEvents'[c] = {}
          /\ \A d \in Clients \ {c} : txEvents'[d] = txEvents[d] /\ pending'[d] = pending[d]
      BY <2>1, <2>3, <3>1, DroppedRun, DBTypes DEF RollsBack, Commits
    <3> QED BY <1>3, <3>1, <3>2 DEF Stored
  <2>4. CASE Upsert(c)
    <3>1. /\ UNCHANGED <<events, txEvents>> /\ pending'[c].row.id = Head(agenda[c]).spec.id
          /\ agenda[c] # <<>> /\ Head(agenda[c]).op = "run"
          /\ \A d \in Clients \ {c} : pending'[d] = pending[d]
      BY <2>1, <2>4, Upserted DEF Upsert, UpsertRow, tables
    <3>2. Head(agenda[c]) = agenda[c][1] /\ 1 \in DOMAIN agenda[c]
      BY <2>1, <3>1, MemTypes, HeadTailProperties
    <3>3. Drawn(pending'[c].row.id, minted')
      BY <1>2, <3>1, <3>2 DEF ItemsInv, OwnItem
    <3> QED BY <1>3, <3>1, <3>3 DEF Stored
  <2>5. CASE Inserts(c)
    <3>1. /\ txEvents' = [txEvents EXCEPT ![c] = @ \cup {pending[c].row}]
          /\ pending' = [pending EXCEPT ![c] = NoPending] /\ UNCHANGED events
          /\ pending[c] # NoPending
      BY <2>5 DEF Inserts, InsertEvent, tables
    <3>2. /\ txEvents'[c] = txEvents[c] \cup {pending[c].row} /\ pending'[c] = NoPending
          /\ \A d \in Clients \ {c} : txEvents'[d] = txEvents[d] /\ pending'[d] = pending[d]
      BY <2>1, <3>1 DEF TypeInv, DBTypeOK, RunTypeInv
    <3> QED BY <1>3, <3>1, <3>2 DEF Stored
  <2> QED BY <1>5, <2>2, <2>3, <2>4, <2>5 DEF Moves
<1> QED BY <1>4, <1>5, NextMoves DEF Grounds

LEMMA InitSpecs == Init => SpecsInv
BY DEF Init, DBInit, SpecsInv, CallersInv, ItemsInv, IdsInv, Stored

LEMMA SpecsInvariant ==
  ASSUME CallersOutside
  PROVE  Spec => []SpecsInv
<1>1. SpecsInv /\ Grounds /\ [Next]_vars => SpecsInv'
  BY NextCallers, NextItemsOwn, NextIds DEF SpecsInv, Grounds
<1> QED BY <1>1, InitSpecs, GroundsInvariant, PTL DEF Spec

-----------------------------------------------------------------------------
(* The event that waits for its insert has the spec at the head. *)
PendingHead ==
  \A c \in Clients : pending[c] # NoPending =>
    LET row == pending[c].row  spec == Head(agenda[c]).spec
    IN  /\ row.id = spec.id /\ row.inner = spec.inner /\ row.cause = spec.cause
        /\ pending[c].keys = spec.keys

LEMMA OthersKeepWrites ==
  ASSUME TypeInv, NEW c \in Clients, Moves(c), NEW d \in Clients \ {c}
  PROVE  txEvents'[d] = txEvents[d] /\ txOutbox'[d] = txOutbox[d]
<1>1. DOMAIN txEvents = Clients /\ DOMAIN txOutbox = Clients
  BY DEF TypeInv, DBTypeOK
<1>2. CASE Open(c) \/ Checks(c) \/ LoadsNothing(c) \/ LoadsRow(c) \/ Upsert(c)
  BY <1>2 DEF Open, BeginTx, Checks, LoadsNothing, LoadsRow, Upsert, UpsertRow, dbVars
<1>3. CASE RollsBack(c) \/ Commits(c)
  BY <1>1, <1>3 DEF RollsBack, Commits, RollbackTx, CommitTx, ClearTx
<1>4. CASE Inserts(c) \/ Emit(c)
  BY <1>1, <1>4 DEF Inserts, InsertEvent, Emit, HookWrites
<1> QED BY <1>2, <1>3, <1>4 DEF Moves

LEMMA NothingPends ==
  ASSUME TypeInv, PendingInv, NEW c \in Clients, Moves(c), ~Upsert(c)
  PROVE  pending'[c] = NoPending
<1>1. CASE Open(c)
  BY <1>1 DEF Open, PendingInv
<1>2. CASE RollsBack(c) \/ Commits(c)
  BY <1>2, DroppedRun DEF RollsBack, Commits
<1>3. CASE Checks(c) \/ LoadsNothing(c) \/ LoadsRow(c) \/ Emit(c)
  BY <1>3 DEF Checks, LoadsNothing, LoadsRow, Emit, Next0
<1>4. CASE Inserts(c)
  BY <1>4, DBTypes DEF Inserts
<1> QED BY <1>1, <1>2, <1>3, <1>4 DEF Moves

LEMMA NextPendingHead ==
  ASSUME TypeInv, PendingInv, PendingHead, [Next]_vars
  PROVE  PendingHead'
<1>1. CASE UNCHANGED <<dbVars, agenda, pending, mem>>
  BY <1>1 DEF PendingHead
<1>2. ASSUME NEW c \in Clients, Moves(c)
      PROVE  PendingHead'
  <2>1. \A d \in Clients \ {c} : agenda'[d] = agenda[d] /\ pending'[d] = pending[d]
    BY <1>2, OthersKeep
  <2>2. CASE ~Upsert(c)
    <3>1. pending'[c] = NoPending
      BY <1>2, <2>2, NothingPends
    <3> QED BY <2>1, <3>1 DEF PendingHead
  <2>3. CASE Upsert(c)
    <3>1. /\ agenda' = agenda /\ pending'[c].row.id = Head(agenda[c]).spec.id
          /\ pending'[c].row.inner = Head(agenda[c]).spec.inner
          /\ pending'[c].row.cause = Head(agenda[c]).spec.cause
          /\ pending'[c].keys = Head(agenda[c]).spec.keys
      BY <2>3, DBTypes DEF Upsert
    <3> QED BY <2>1, <3>1 DEF PendingHead
  <2> QED BY <2>2, <2>3
<1> QED BY <1>1, <1>2, NextMoves

-----------------------------------------------------------------------------
(***************************************************************************)
(* Keys.  What a caller gives fits the keys of an entity when it names the *)
(* entity and, if it gives a tenant, the entity's own (KeysMatch in Load). *)
(* The keys of a stored state and of a state in memory are full: a state   *)
(* without a row is made only for a spec that gives all keys.              *)
(***************************************************************************)
Full(keys) == keys.tenant # NoTenant

Fits(given, keys) == given.entity = keys.entity /\ given.tenant \in {NoTenant, keys.tenant}

FullTable(table) == \A k \in Entities : table[k] # NoState => Full(table[k].keys)

FullStates ==
  /\ FullTable(rows)
  /\ \A c \in Clients : /\ FullTable(txRows[c]) /\ FullTable(snapRows[c])
                        /\ \A act \in 1 .. Len(mem[c]) : Full(mem[c][act].keys)

LEMMA NextFull ==
  ASSUME Grounds, FullStates, [Next]_vars
  PROVE  FullStates'
<1> USE DEF Grounds
<1>1. CASE UNCHANGED <<dbVars, agenda, pending, mem>>
  BY <1>1 DEF dbVars, FullStates, FullTable
<1>2. ASSUME NEW c \in Clients, Moves(c)
      PROVE  FullStates'
  <2>1. \A d \in Clients \ {c} : /\ FullTable(txRows'[d]) /\ FullTable(snapRows'[d])
                                 /\ \A act \in 1 .. Len(mem'[d]) : Full(mem'[d][act].keys)
    <3> SUFFICES ASSUME NEW d \in Clients \ {c}
                 PROVE  /\ FullTable(txRows'[d]) /\ FullTable(snapRows'[d])
                        /\ \A act \in 1 .. Len(mem'[d]) : Full(mem'[d][act].keys)
      OBVIOUS
    <3>1. mem'[d] = mem[d] /\ txRows'[d] = txRows[d] /\ snapRows'[d] = snapRows[d]
      BY <1>2, OthersKeep
    <3> QED BY <3>1 DEF FullStates
  <2>2. ASSUME FullTable(rows'), FullTable(txRows'[c]), FullTable(snapRows'[c]),
               \A act \in 1 .. Len(mem'[c]) : Full(mem'[c][act].keys)
        PROVE  FullStates'
    BY <2>1, <2>2 DEF FullStates, FullTable
  <2>3. /\ FullTable(rows) /\ FullTable(txRows[c]) /\ FullTable(snapRows[c])
        /\ \A act \in 1 .. Len(mem[c]) : Full(mem[c][act].keys)
        /\ \A k \in Entities : VisibleRow(c, k) # NoState => Full(VisibleRow(c, k).keys)
    BY DEF FullStates, FullTable, VisibleRow
  <2>4. CASE Open(c)
    <3>1. UNCHANGED <<rows, txRows, mem>> /\ snapRows'[c] \in {rows, snapRows[c]}
      BY <2>4, DBTypes DEF Open, BeginTx, tables
    <3> QED BY <2>2, <2>3, <3>1
  <2>5. CASE RollsBack(c) \/ Commits(c)
    <3>1. txRows'[c] = NoRows /\ snapRows'[c] = NoRows /\ rows' \in {rows, Overlay(rows, txRows[c])}
      BY <2>5, DBTypes DEF RollsBack, Commits, RollbackTx, CommitTx, ClearTx, tables
    <3>2. FullTable(NoRows) /\ FullTable(Overlay(rows, txRows[c]))
      BY <2>3 DEF FullTable, NoRows, Overlay
    <3>3. mem'[c] = <<>>
      BY <2>5, DroppedRun DEF RollsBack, Commits
    <3>4. \A act \in 1 .. Len(mem'[c]) : Full(mem'[c][act].keys)
      BY <3>3
    <3> QED BY <2>2, <2>3, <3>1, <3>2, <3>4
  <2>6. CASE Checks(c) \/ Inserts(c) \/ Emit(c)
    <3>1. UNCHANGED <<rows, txRows, snapRows, mem>>
      BY <2>6 DEF Checks, Inserts, InsertEvent, Emit, HookWrites, tables, dbVars
    <3> QED BY <3>1 DEF FullStates, FullTable
  <2>7. CASE LoadsNothing(c) \/ LoadsRow(c)
    <3> DEFINE s == mem'[c][Len(mem[c]) + 1]
               k == Head(agenda[c]).spec.keys.entity
    <3>1. UNCHANGED <<rows, txRows, snapRows>> /\ Next0(c, "load")
      BY <2>7 DEF LoadsNothing, LoadsRow, dbVars
    <3>2. Head(agenda[c]).spec.keys \in Keys /\ k \in Entities
      BY <3>1, LoadParts
    <3>3. PICK state \in State : /\ mem' = [mem EXCEPT ![c] = Append(@, state)]
                                 /\ Full(state.keys)
      <4>1. CASE LoadsNothing(c)
        BY <3>2, <4>1, EmptyStateType DEF LoadsNothing, EmptyState, Full
      <4>2. CASE LoadsRow(c)
        <5>1. VisibleRow(c, k) \in State
          BY <3>2, <4>2, VisibleTypes DEF LoadsRow
        <5> QED BY <2>3, <3>2, <4>2, <5>1 DEF LoadsRow
      <4> QED BY <2>7, <4>1, <4>2
    <3>4. /\ Len(mem'[c]) = Len(mem[c]) + 1 /\ s = state /\ Len(mem[c]) \in Nat
          /\ \A act \in 1 .. Len(mem[c]) : mem'[c][act] = mem[c][act]
      BY <3>3, Loaded, MemTypes
    <3>5. \A act \in 1 .. Len(mem'[c]) : act \in 1 .. Len(mem[c]) \/ act = Len(mem[c]) + 1
      BY <3>4
    <3>6. \A act \in 1 .. Len(mem'[c]) : Full(mem'[c][act].keys)
      BY <2>3, <3>3, <3>4, <3>5
    <3> QED BY <2>2, <2>3, <3>1, <3>6
  <2>8. CASE Upsert(c)
    <3> DEFINE new == NewStateOf(c)
               act == Head(agenda[c]).act
    <3>1. /\ new.keys = mem[c][act].keys /\ act \in 1 .. Len(mem[c])
          /\ Len(mem'[c]) = Len(mem[c]) /\ Keeps(mem[c], mem'[c])
      BY <2>8, Upserted
    <3>2. txRows' = [txRows EXCEPT ![c][new.keys.entity] = new] /\ UNCHANGED <<rows, snapRows>>
      BY <2>8 DEF Upsert, UpsertRow, tables
    <3>3. Full(new.keys) /\ \A i \in 1 .. Len(mem'[c]) : Full(mem'[c][i].keys)
      BY <2>3, <3>1 DEF Keeps
    <3>4. txRows'[c] = [txRows[c] EXCEPT ![new.keys.entity] = new]
      BY <3>2, DBTypes
    <3>5. FullTable(txRows'[c])
      BY <2>3, <3>3, <3>4, DBTypes DEF FullTable, Table
    <3> QED BY <2>2, <2>3, <3>2, <3>3, <3>5
  <2> QED BY <1>2, <2>4, <2>5, <2>6, <2>7, <2>8 DEF Moves
<1> QED BY <1>1, <1>2, NextMoves

-----------------------------------------------------------------------------
(***************************************************************************)
(* Which keys an event ID stands for.  An ID is drawn by the library, and  *)
(* then a number, or it is a caller's, and then it is in one of the Jobs.  *)
(* An event under a caller's ID has the keys that caller gave with it.  A  *)
(* number reaches a second run only through a slot of job: the check and   *)
(* the load write the ID and the full keys back into the caller's spec,    *)
(* which Resend hands in again.  A slot that holds a number holds the keys *)
(* of the event under it, and no other slot has that number.               *)
(***************************************************************************)
Written == events \cup UNION {txEvents[d] : d \in Clients}

(* A caller may send this ID, with these keys. *)
Asks(id, keys) ==
  \E specs \in Jobs : \E i \in DOMAIN specs : specs[i].id = id /\ specs[i].keys = keys

Known(id, keys) == id \in Nat \/ id = NoId \/ Asks(id, keys)

EventNamed(e) == e.snapshot.keys = e.keys /\ Full(e.keys) /\ Known(e.id, e.keys)

(* The slot an item writes back into, 0 if it has none. *)
CallOf(it) == IF it.op = "emit" THEN 0 ELSE it.call

OneEach(f) == \A i, j \in DOMAIN f : CallOf(f[i]) = CallOf(f[j]) /\ CallOf(f[i]) # 0 => i = j

(* The keys an item works on: a run has loaded them. *)
KeysOf(it, m) == IF it.op = "run" THEN m[it.act].keys ELSE it.spec.keys

(* The slot of an item has the item's ID and keys. *)
Named(it, slots, m) ==
  it.op # "emit" =>
    /\ Known(it.spec.id, it.spec.keys) /\ Fits(it.spec.keys, KeysOf(it, m))
    /\ IF it.call = 0 THEN it.spec.id \in Nat \cup {NoId}
       ELSE /\ it.call \in DOMAIN slots
            /\ slots[it.call].id = it.spec.id /\ slots[it.call].keys = KeysOf(it, m)

RunNamed(f, slots, m) == OneEach(f) /\ \A i \in DOMAIN f : Named(f[i], slots, m)

AgendasNamed == \A c \in Clients : RunNamed(agenda[c], job[c], mem[c])

SlotsNamed ==
  \A c \in Clients :
    /\ \A i \in DOMAIN job[c] : Known(job[c][i].id, job[c][i].keys)
    /\ \A i \in DOMAIN asked[c] :
         asked[c][i].id \notin Nat /\ Known(asked[c][i].id, asked[c][i].keys)

(* A number is the ID in one slot at most. *)
SlotsApart ==
  \A c, d \in Clients : \A i \in DOMAIN job[c], j \in DOMAIN job[d] :
    job[c][i].id \in Nat /\ job[c][i].id = job[d][j].id => c = d /\ i = j

(* An event under the ID in a slot has the keys in that slot. *)
SlotWrites(e) ==
  \A c \in Clients : \A i \in DOMAIN job[c] :
    e.id \in Nat /\ e.id = job[c][i].id => e.keys = job[c][i].keys

EventNames == \A e \in Written : EventNamed(e) /\ SlotWrites(e)

(* An initial or chained event, with its new ID. *)
Library(it) == it.op # "emit" /\ it.call = 0 /\ it.spec.id \in Nat

LibraryApart ==
  \A c \in Clients : \A i \in DOMAIN agenda[c] : Library(agenda[c][i]) =>
    \A d \in Clients : \A j \in DOMAIN job[d] : job[d][j].id # agenda[c][i].spec.id

NamesGrounds == Grounds /\ ClosedInv /\ SpecsInv /\ FullStates /\ ReplyInv
-----------------------------------------------------------------------------
(* What a step may do to slots: draw one number, fill in keys, drop numbers. *)
SlotsKeep ==
  /\ \A c \in Clients : \A i \in DOMAIN job'[c] :
       \/ job'[c][i].id \notin Nat \/ job'[c][i].id = minted + 1
       \/ /\ i \in DOMAIN job[c] /\ job'[c][i].id = job[c][i].id
          /\ job'[c][i].keys = job[c][i].keys \/ ~Full(job[c][i].keys)
  /\ \A c, d \in Clients : \A i \in DOMAIN job'[c], j \in DOMAIN job'[d] :
       job'[c][i].id = minted + 1 /\ job'[d][j].id = minted + 1 => c = d /\ i = j

(* What it may do to the items of the library: drop them, or draw new ones. *)
ItemsKeep ==
  \A c \in Clients : \A i \in DOMAIN agenda'[c] : Library(agenda'[c][i]) =>
    \/ \E j \in DOMAIN agenda[c] :
         Library(agenda[c][j]) /\ agenda[c][j].spec.id = agenda'[c][i].spec.id
    \/ agenda'[c][i].spec.id > minted /\ UNCHANGED job

LEMMA KeepApart ==
  ASSUME minted \in Nat, SpecsInv, SlotsApart, SlotsKeep
  PROVE  SlotsApart'
<1> SUFFICES ASSUME NEW c \in Clients, NEW d \in Clients,
                    NEW i \in DOMAIN job'[c], NEW j \in DOMAIN job'[d],
                    job'[c][i].id \in Nat, job'[c][i].id = job'[d][j].id
             PROVE  c = d /\ i = j
  BY DEF SlotsApart
<1>1. CASE job'[c][i].id = minted + 1
  BY <1>1 DEF SlotsKeep
<1>2. CASE job'[c][i].id # minted + 1
  <2>1. /\ i \in DOMAIN job[c] /\ job'[c][i].id = job[c][i].id
        /\ j \in DOMAIN job[d] /\ job'[d][j].id = job[d][j].id
    BY <1>2 DEF SlotsKeep
  <2>2. job[c][i].id \in Nat /\ job[c][i].id = job[d][j].id
    BY <2>1
  <2> QED BY <2>1, <2>2 DEF SlotsApart
<1> QED BY <1>1, <1>2

LEMMA KeepEventNames ==
  ASSUME minted \in Nat, SlotsKeep,
         \A e \in Written' : Drawn(e.id, minted) /\ EventNamed(e) /\ SlotWrites(e)
  PROVE  EventNames'
<1> SUFFICES ASSUME NEW c \in Clients, NEW i \in DOMAIN job'[c], NEW e \in Written',
                    e.id \in Nat, e.id = job'[c][i].id
             PROVE  e.keys = job'[c][i].keys
  BY DEF EventNames, SlotWrites
<1>1. e.id # minted + 1 /\ Full(e.keys) /\ SlotWrites(e)
  BY DEF Drawn, EventNamed
<1>2. /\ i \in DOMAIN job[c] /\ job'[c][i].id = job[c][i].id
      /\ job'[c][i].keys = job[c][i].keys \/ ~Full(job[c][i].keys)
  BY <1>1 DEF SlotsKeep
<1>3. e.keys = job[c][i].keys
  BY <1>1, <1>2 DEF SlotWrites
<1> QED BY <1>1, <1>2, <1>3

LEMMA KeepLibrary ==
  ASSUME minted \in Nat, SpecsInv, LibraryApart, SlotsKeep, ItemsKeep
  PROVE  LibraryApart'
<1> SUFFICES ASSUME NEW c \in Clients, NEW i \in DOMAIN agenda'[c], Library(agenda'[c][i]),
                    NEW d \in Clients, NEW j \in DOMAIN job'[d],
                    job'[d][j].id = agenda'[c][i].spec.id
             PROVE  FALSE
  BY DEF LibraryApart, Library
<1> DEFINE id == agenda'[c][i].spec.id
<1>1. id \in Nat
  BY DEF Library
<1>2. CASE id > minted /\ UNCHANGED job
  <2>1. CallerSpec(job[d][j], minted)
    BY <1>2 DEF SpecsInv, CallersInv
  <2> QED BY <1>1, <1>2, <2>1 DEF CallerSpec, Drawn
<1>3. ASSUME NEW k \in DOMAIN agenda[c], Library(agenda[c][k]), agenda[c][k].spec.id = id
      PROVE  FALSE
  <2>1. OwnItem(agenda[c][k], minted)
    BY DEF SpecsInv, ItemsInv
  <2>2. id <= minted
    BY <1>1, <1>3, <2>1 DEF OwnItem, Drawn, Library
  <2>3. id # minted + 1
    BY <1>1, <2>2
  <2>4. j \in DOMAIN job[d] /\ job[d][j].id = id
    BY <1>1, <2>3 DEF SlotsKeep
  <2> QED BY <1>3, <2>4 DEF LibraryApart
<1> QED BY <1>2, <1>3 DEF ItemsKeep

LEMMA NoneMinted ==
  ASSUME minted \in Nat, SpecsInv
  PROVE  \A c \in Clients : \A i \in DOMAIN job[c] : job[c][i].id # minted + 1
BY DEF SpecsInv, CallersInv, CallerSpec, Drawn

LEMMA SameSlotsKeep ==
  ASSUME minted \in Nat, SpecsInv, UNCHANGED job
  PROVE  SlotsKeep
BY NoneMinted DEF SlotsKeep

(* A step that writes a spec back into its slot. *)
LEMMA WrittenSlots ==
  ASSUME TypeInv, SpecsInv, SlotsNamed, NEW c \in Clients, NEW i \in Nat, NEW spec,
         WriteBack(c, i, spec), UNCHANGED asked,
         i \in DOMAIN job[c] => Known(spec.id, spec.keys),
         i \in DOMAIN job[c] =>
           \/ spec.id = minted + 1
           \/ /\ spec.id = job[c][i].id
              /\ spec.keys = job[c][i].keys \/ ~Full(job[c][i].keys)
  PROVE  /\ SlotsKeep /\ SlotsNamed'
         /\ DOMAIN job'[c] = DOMAIN job[c]
         /\ \A j \in DOMAIN job[c] : j # i => job'[c][j] = job[c][j]
         /\ i \in DOMAIN job[c] => job'[c][i] = spec
         /\ \A d \in Clients \ {c} : job'[d] = job[d]
<1>1. job \in [Clients -> Seq(EventSpec)] /\ minted \in Nat
  BY DEF TypeInv, CallTypeOK, CountTypeOK
<1>2. /\ DOMAIN job'[c] = DOMAIN job[c]
      /\ \A j \in DOMAIN job[c] : j # i => job'[c][j] = job[c][j]
      /\ i \in DOMAIN job[c] => job'[c][i] = spec
      /\ \A d \in Clients \ {c} : job'[d] = job[d]
  <2>1. CASE i \in DOMAIN job[c]
    <3>1. job' = [job EXCEPT ![c][i] = spec]
      BY <2>1 DEF WriteBack
    <3>2. job'[c] = [job[c] EXCEPT ![i] = spec] /\ \A d \in Clients \ {c} : job'[d] = job[d]
      BY <1>1, <3>1
    <3> QED BY <1>1, <2>1, <3>2
  <2>2. CASE i \notin DOMAIN job[c]
    BY <2>2 DEF WriteBack
  <2> QED BY <2>1, <2>2
<1>3. \A d \in Clients : \A j \in DOMAIN job[d] : job[d][j].id # minted + 1
  BY NoneMinted DEF TypeInv, CountTypeOK
<1>4. SlotsKeep
  <2>1. \A d \in Clients : \A j \in DOMAIN job'[d] :
          \/ d = c /\ j = i /\ i \in DOMAIN job[c] /\ job'[d][j] = spec
          \/ j \in DOMAIN job[d] /\ job'[d][j] = job[d][j]
    BY <1>2
  <2> QED BY <1>3, <2>1 DEF SlotsKeep
<1>5. SlotsNamed'
  BY <1>2 DEF SlotsNamed
<1> QED BY <1>2, <1>4, <1>5

(* A step that puts the caller's own specs, with no number, into the slots. *)
LEMMA UnmintedSlots ==
  ASSUME TypeInv, SpecsInv, SlotsNamed, NEW c \in Clients, NEW specs,
         job' = [job EXCEPT ![c] = specs],
         \A i \in DOMAIN specs : specs[i].id \notin Nat /\ Known(specs[i].id, specs[i].keys),
         UNCHANGED asked \/ asked' = [asked EXCEPT ![c] = specs]
  PROVE  /\ SlotsKeep /\ SlotsNamed'
         /\ \A d \in Clients \ {c} : job'[d] = job[d]
<1>1. /\ job \in [Clients -> Seq(EventSpec)] /\ asked \in [Clients -> Seq(EventSpec)]
      /\ minted \in Nat
  BY DEF TypeInv, CallTypeOK, CountTypeOK
<1>2. job'[c] = specs /\ \A d \in Clients \ {c} : job'[d] = job[d]
  BY <1>1
<1>3. \A d \in Clients : \A j \in DOMAIN job[d] : job[d][j].id # minted + 1
  BY NoneMinted DEF TypeInv, CountTypeOK
<1>4. minted + 1 \in Nat
  BY <1>1
<1>5. SlotsKeep
  <2>1. \A d \in Clients : \A j \in DOMAIN job'[d] :
          \/ job'[d][j].id \notin Nat
          \/ j \in DOMAIN job[d] /\ job'[d][j] = job[d][j]
    BY <1>2
  <2> QED BY <1>3, <1>4, <2>1 DEF SlotsKeep
<1>6. SlotsNamed'
  BY <1>1, <1>2 DEF SlotsNamed
<1> QED BY <1>2, <1>5, <1>6

(* Items in the place of the head keep the agenda named. *)
LEMMA ReplaceNamed ==
  ASSUME NEW S, NEW f \in Seq(S), f # <<>>, NEW items \in Seq(S), NEW slots, NEW m,
         RunNamed(f, slots, m), NEW more, NEW n, Len(m) \in Nat, Keeps(m, n),
         \A i \in DOMAIN f : f[i].op = "run" => f[i].act \in 1 .. Len(m),
         RunNamed(items, more, n),
         \A i \in DOMAIN items : CallOf(items[i]) \in {0, CallOf(Head(f))},
         \A j \in DOMAIN slots : j # CallOf(Head(f)) =>
           j \in DOMAIN more /\ more[j].id = slots[j].id /\ more[j].keys = slots[j].keys
  PROVE  RunNamed(items \o Tail(f), more, n)
<1> DEFINE g == items \o Tail(f)
<1>1. /\ Len(items) \in Nat /\ Len(f) \in Nat \ {0}
      /\ Len(g) = Len(items) + Len(f) - 1 /\ Head(f) = f[1]
      /\ DOMAIN g = 1 .. Len(g)
      /\ \A i \in 1 .. Len(items) : g[i] = items[i]
      /\ \A i \in Len(items) + 1 .. Len(g) :
           /\ i - Len(items) + 1 \in 2 .. Len(f)
           /\ g[i] = f[i - Len(items) + 1]
  BY ReplaceHead
<1>2. DOMAIN f = 1 .. Len(f) /\ DOMAIN items = 1 .. Len(items)
  BY LenProperties
<1> HIDE DEF g
<1>3. \A i \in DOMAIN g :
        \/ i \in DOMAIN items /\ g[i] = items[i]
        \/ i - Len(items) + 1 \in 2 .. Len(f) /\ g[i] = f[i - Len(items) + 1] /\ i \in Nat
  BY <1>1, <1>2
<1>4. \A j \in 2 .. Len(f) : CallOf(f[j]) = CallOf(Head(f)) => CallOf(f[j]) = 0
  <2>1. OneEach(f) /\ 1 \in DOMAIN f /\ \A j \in 2 .. Len(f) : j \in DOMAIN f /\ j # 1
    BY <1>1, <1>2 DEF RunNamed
  <2> QED BY <1>1, <2>1 DEF OneEach
<1>5. OneEach(g)
  <2> SUFFICES ASSUME NEW i \in DOMAIN g, NEW j \in DOMAIN g,
                      CallOf(g[i]) = CallOf(g[j]), CallOf(g[i]) # 0
               PROVE  i = j
    BY DEF OneEach
  <2>1. CASE i \in DOMAIN items /\ j \in DOMAIN items
    BY <1>1, <1>2, <2>1 DEF RunNamed, OneEach
  <2>2. ASSUME NEW k \in DOMAIN items, NEW l \in 2 .. Len(f), CallOf(items[k]) = CallOf(f[l]),
               CallOf(f[l]) # 0
        PROVE  FALSE
    BY <1>4, <2>2
  <2>3. CASE i \notin DOMAIN items /\ j \notin DOMAIN items
    <3>1. /\ i - Len(items) + 1 \in DOMAIN f /\ g[i] = f[i - Len(items) + 1] /\ i \in Nat
          /\ j - Len(items) + 1 \in DOMAIN f /\ g[j] = f[j - Len(items) + 1] /\ j \in Nat
      BY <1>1, <1>2, <1>3, <2>3
    <3>2. i - Len(items) + 1 = j - Len(items) + 1
      BY <3>1 DEF RunNamed, OneEach
    <3>3. PICK l \in Nat : l = Len(items)
      BY <1>1
    <3> QED BY <3>1, <3>2, <3>3
  <2>4. CASE i \in DOMAIN items /\ j \notin DOMAIN items
    <3>1. g[i] = items[i] /\ \E l \in 2 .. Len(f) : g[j] = f[l]
      BY <1>1, <1>2, <1>3, <2>4
    <3> QED BY <2>2, <2>4, <3>1
  <2>5. CASE i \notin DOMAIN items /\ j \in DOMAIN items
    <3>1. g[j] = items[j] /\ \E l \in 2 .. Len(f) : g[i] = f[l]
      BY <1>1, <1>2, <1>3, <2>5
    <3> QED BY <2>2, <2>5, <3>1
  <2> QED BY <2>1, <2>3, <2>4, <2>5
<1>6. \A i \in DOMAIN g : Named(g[i], more, n)
  <2>1. ASSUME NEW j \in 2 .. Len(f)
        PROVE  Named(f[j], more, n)
    <3>1. Named(f[j], slots, m) /\ j \in DOMAIN f
      BY <1>2, <2>1 DEF RunNamed
    <3>2. f[j].op # "emit" => KeysOf(f[j], n) = KeysOf(f[j], m)
      BY <3>1 DEF KeysOf, Keeps
    <3>3. f[j].op # "emit" /\ f[j].call # 0 => f[j].call # CallOf(Head(f))
      BY <1>4 DEF CallOf
    <3> QED BY <3>1, <3>2, <3>3 DEF Named
  <2> QED BY <1>3, <2>1 DEF RunNamed
<1> QED BY <1>5, <1>6 DEF RunNamed, g

(***************************************************************************)
(* A number stands in one slot, on one item of the agenda, or nowhere: a   *)
(* step that changes slots or items keeps SlotNames.  First what its       *)
(* actions have in common, then one lemma for each action.                 *)
(***************************************************************************)
NewLibrary(c, it) ==
  Library(it) =>
    \/ \E j \in DOMAIN agenda[c] : Library(agenda[c][j]) /\ agenda[c][j].spec.id = it.spec.id
    \/ it.spec.id > minted /\ UNCHANGED job

(* The step of a client that keeps all names as they should be. *)
KeepsNames(c) ==
  /\ SlotsKeep /\ SlotsNamed'
  /\ RunNamed(agenda'[c], job'[c], mem'[c])
  /\ \A i \in DOMAIN agenda'[c] : NewLibrary(c, agenda'[c][i])
  /\ \A d \in Clients \ {c} : job'[d] = job[d] /\ agenda'[d] = agenda[d] /\ mem'[d] = mem[d]

SlotNames == AgendasNamed /\ SlotsNamed /\ SlotsApart /\ LibraryApart

LEMMA KeptNames ==
  ASSUME TypeInv, SpecsInv, SlotNames, NEW c \in Clients, KeepsNames(c)
  PROVE  SlotNames' /\ SlotsKeep
<1>1. minted \in Nat
  BY DEF TypeInv, CountTypeOK
<1>2. ItemsKeep
  <2>1. \A d \in Clients \ {c} : \A i \in DOMAIN agenda'[d] : NewLibrary(d, agenda'[d][i])
    BY DEF KeepsNames, NewLibrary
  <2> QED BY <2>1 DEF KeepsNames, NewLibrary, ItemsKeep
<1>3. AgendasNamed'
  <2>1. \A d \in Clients : RunNamed(agenda'[d], job'[d], mem'[d])
    BY DEF KeepsNames, SlotNames, AgendasNamed
  <2> QED BY <2>1 DEF AgendasNamed
<1> QED BY <1>1, <1>2, <1>3, KeepApart, KeepLibrary DEF SlotNames, KeepsNames

LEMMA HeadFirst ==
  ASSUME TypeInv, NEW c \in Clients, agenda[c] # <<>>
  PROVE  Head(agenda[c]) = agenda[c][1] /\ 1 \in DOMAIN agenda[c]
BY MemTypes, HeadTailProperties

LEMMA HeadNamed ==
  ASSUME TypeInv, SlotNames, NEW c \in Clients, agenda[c] # <<>>
  PROVE  Named(Head(agenda[c]), job[c], mem[c])
BY HeadFirst DEF SlotNames, AgendasNamed, RunNamed

LEMMA EndKeepsNames ==
  ASSUME NEW c \in Clients, SlotsKeep, SlotsNamed', agenda'[c] = <<>>,
         \A d \in Clients \ {c} : job'[d] = job[d] /\ agenda'[d] = agenda[d] /\ mem'[d] = mem[d]
  PROVE  KeepsNames(c)
<1>1. /\ RunNamed(agenda'[c], job'[c], mem'[c])
      /\ \A i \in DOMAIN agenda'[c] : NewLibrary(c, agenda'[c][i])
  BY DEF RunNamed, OneEach
<1> QED BY <1>1 DEF KeepsNames

LEMMA PushNamed ==
  ASSUME TypeInv, SlotNames, NEW c \in Clients, agenda[c] # <<>>,
         NEW items \in Seq(Item), Push(c, items),
         Keeps(mem[c], mem'[c]), RunNamed(items, job'[c], mem'[c]),
         \A i \in DOMAIN items : /\ CallOf(items[i]) \in {0, CallOf(Head(agenda[c]))}
                                 /\ NewLibrary(c, items[i]),
         \A j \in DOMAIN job[c] : j # CallOf(Head(agenda[c])) =>
           j \in DOMAIN job'[c] /\ job'[c][j] = job[c][j],
         \A d \in Clients \ {c} : job'[d] = job[d] /\ mem'[d] = mem[d],
         SlotsKeep, SlotsNamed'
  PROVE  KeepsNames(c)
<1>1. /\ agenda'[c] = items \o Tail(agenda[c])
      /\ \A d \in Clients \ {c} : agenda'[d] = agenda[d]
  BY Pushed
<1>2. /\ agenda[c] \in Seq(Item) /\ Len(mem[c]) \in Nat
      /\ \A i \in DOMAIN agenda[c] : agenda[c][i].op = "run" =>
           agenda[c][i].act \in 1 .. Len(mem[c])
  BY MemTypes, ItemTypes
<1>3. RunNamed(agenda'[c], job'[c], mem'[c])
  <2> DEFINE f     == agenda[c]
             slots == job[c]
             m     == mem[c]
             more  == job'[c]
             n     == mem'[c]
  <2>1. RunNamed(f, slots, m) /\ RunNamed(items, more, n) /\ Keeps(m, n) /\ f # <<>>
        /\ f \in Seq(Item) /\ Len(m) \in Nat
    BY <1>2 DEF SlotNames, AgendasNamed
  <2>2. \A i \in DOMAIN f : f[i].op = "run" => f[i].act \in 1 .. Len(m)
    BY <1>2
  <2>3. \A i \in DOMAIN items : CallOf(items[i]) \in {0, CallOf(Head(f))}
    OBVIOUS
  <2>4. \A j \in DOMAIN slots : j # CallOf(Head(f)) =>
          j \in DOMAIN more /\ more[j].id = slots[j].id /\ more[j].keys = slots[j].keys
    OBVIOUS
  <2> HIDE DEF f, slots, m, more, n
  <2>5. RunNamed(items \o Tail(f), more, n)
    BY <2>1, <2>2, <2>3, <2>4, ReplaceNamed
  <2> QED BY <1>1, <2>5 DEF f, more, n
<1>4. \A i \in DOMAIN agenda'[c] : NewLibrary(c, agenda'[c][i])
  <2>1. \A i \in DOMAIN agenda'[c] :
          \/ \E j \in DOMAIN agenda[c] : agenda'[c][i] = agenda[c][j]
          \/ \E j \in DOMAIN items : agenda'[c][i] = items[j]
    BY NewAgenda, LenProperties
  <2> QED BY <2>1 DEF NewLibrary
<1> QED BY <1>1, <1>3, <1>4 DEF KeepsNames

LEMMA OpenKeepsNames ==
  ASSUME TypeInv, SpecsInv, SlotNames, NEW c \in Clients, Open(c)
  PROVE  KeepsNames(c)
<1>1. /\ agenda'[c] = [i \in 1 .. Len(job[c]) |-> RunTx(job[c][i], i)]
      /\ \A d \in Clients \ {c} : agenda'[d] = agenda[d]
      /\ job[c] \in Seq(EventSpec) /\ UNCHANGED <<job, asked, mem>>
      /\ Len(job[c]) \in Nat /\ DOMAIN job[c] = 1 .. Len(job[c])
  BY DEF Open, TypeInv, RunTypeInv, CallTypeOK
<1>2. \A i \in DOMAIN agenda'[c] :
        /\ i \in DOMAIN job[c] /\ i # 0 /\ agenda'[c][i].op = "runTx"
        /\ agenda'[c][i].call = i /\ agenda'[c][i].spec = job[c][i]
  BY <1>1 DEF RunTx
<1>3. SlotsKeep /\ SlotsNamed'
  BY <1>1, SameSlotsKeep DEF TypeInv, CountTypeOK, SlotNames, SlotsNamed
<1>4. ASSUME NEW i \in DOMAIN agenda'[c]
      PROVE  Named(agenda'[c][i], job'[c], mem'[c]) /\ ~Library(agenda'[c][i])
  <2>1. job[c][i] \in EventSpec
    BY <1>1, <1>2
  <2>2. job[c][i].keys.tenant \in {NoTenant, job[c][i].keys.tenant}
    OBVIOUS
  <2>3. Known(job[c][i].id, job[c][i].keys)
    BY <1>2 DEF SlotNames, SlotsNamed
  <2> DEFINE it == agenda'[c][i]
  <2>4. /\ it.op = "runTx" /\ it.call = i /\ i # 0 /\ it.spec = job[c][i]
        /\ job'[c] = job[c] /\ i \in DOMAIN job[c]
    BY <1>1, <1>2
  <2> HIDE DEF it
  <2>5. KeysOf(it, mem'[c]) = job[c][i].keys
    BY <2>4 DEF KeysOf
  <2>6. Named(it, job'[c], mem'[c]) /\ ~Library(it)
    BY <2>2, <2>3, <2>4, <2>5 DEF Named, Fits, Library
  <2> QED BY <2>6 DEF it
<1>5. OneEach(agenda'[c])
  BY <1>2 DEF OneEach, CallOf
<1> QED BY <1>1, <1>3, <1>4, <1>5 DEF KeepsNames, RunNamed, NewLibrary

LEMMA SameSlots ==
  ASSUME TypeInv, SpecsInv, SlotNames, UNCHANGED <<job, asked>>
  PROVE  SlotsKeep /\ SlotsNamed'
BY SameSlotsKeep DEF TypeInv, CountTypeOK, SlotNames, SlotsNamed

LEMMA AskKeepsNames ==
  ASSUME TypeInv, ClosedInv, SpecsInv, SlotNames, CallersOutside,
         NEW c \in Clients, Call(c) \/ Resend(c)
  PROVE  KeepsNames(c)
<1>1. UNCHANGED <<agenda, mem>> /\ agenda[c] = <<>>
  BY DEF Call, Resend, Ask, runVars, Busy, ClosedInv
<1>2. SlotsKeep /\ SlotsNamed' /\ \A d \in Clients \ {c} : job'[d] = job[d]
  <2>1. CASE Call(c)
    <3>1. PICK specs \in Jobs : /\ job' = [job EXCEPT ![c] = specs]
                                /\ asked' = [asked EXCEPT ![c] = specs]
      BY <2>1 DEF Call, Ask
    <3>2. \A i \in DOMAIN specs : specs[i].id \notin Nat /\ Known(specs[i].id, specs[i].keys)
      BY DEF CallersOutside, Known, Asks
    <3> QED BY <3>1, <3>2, UnmintedSlots DEF SlotNames
  <2>2. CASE Resend(c)
    <3>1. UNCHANGED asked /\ \/ job' = [job EXCEPT ![c] = job[c]]
                             \/ job' = [job EXCEPT ![c] = asked[c]]
      BY <2>2 DEF Resend, Ask
    <3>2. CASE job' = [job EXCEPT ![c] = job[c]]
      <4>1. UNCHANGED <<job, asked>>
        BY <3>1, <3>2 DEF TypeInv, CallTypeOK
      <4> QED BY <4>1, SameSlots
    <3>3. CASE job' = [job EXCEPT ![c] = asked[c]]
      BY <3>1, <3>3, UnmintedSlots DEF SlotNames, SlotsNamed
    <3> QED BY <3>1, <3>2, <3>3
  <2> QED BY <2>1, <2>2
<1> QED BY <1>1, <1>2, EndKeepsNames

LEMMA DropKeepsNames ==
  ASSUME TypeInv, SpecsInv, SlotNames, NEW c \in Clients, DropRun(c),
         UNCHANGED asked, UNCHANGED job \/ job' = [job EXCEPT ![c] = asked[c]]
  PROVE  KeepsNames(c)
<1>1. SlotsKeep /\ SlotsNamed' /\ \A d \in Clients \ {c} : job'[d] = job[d]
  <2>1. CASE UNCHANGED job
    BY <2>1, SameSlots
  <2>2. CASE job' = [job EXCEPT ![c] = asked[c]]
    BY <2>2, UnmintedSlots DEF SlotNames, SlotsNamed
  <2> QED BY <2>1, <2>2
<1> QED BY <1>1, DroppedRun, EndKeepsNames

LEMMA HeadSlot ==
  ASSUME TypeInv, SlotNames, NEW c \in Clients, Next0(c, "runTx") \/ Next0(c, "load")
  PROVE  LET it == Head(agenda[c]) IN
         /\ agenda[c] # <<>> /\ it.op # "emit" /\ it.op # "run"
         /\ it.spec \in EventSpec /\ it.call \in Nat /\ CallOf(it) = it.call
         /\ Known(it.spec.id, it.spec.keys)
         /\ it.call = 0 => it.spec.id \in Nat \cup {NoId} /\ it.call \notin DOMAIN job[c]
         /\ it.call # 0 => /\ it.call \in DOMAIN job[c]
                           /\ job[c][it.call].id = it.spec.id
                           /\ job[c][it.call].keys = it.spec.keys
<1> DEFINE it == Head(agenda[c])
<1>1. agenda[c] # <<>> /\ it.op \in {"runTx", "load"}
  BY DEF Next0
<1>2. it.spec \in EventSpec /\ it.call \in Nat
  BY <1>1, MemTypes, ItemTypes DEF PreparedSpec
<1>3. Named(it, job[c], mem[c])
  BY <1>1, HeadNamed
<1>4. 0 \notin DOMAIN job[c]
  BY DEF TypeInv, CallTypeOK
<1> QED BY <1>1, <1>2, <1>3, <1>4 DEF Named, KeysOf, CallOf

LEMMA HeadWritten ==
  ASSUME TypeInv, SpecsInv, SlotNames, NEW c \in Clients,
         Next0(c, "runTx") \/ Next0(c, "load"), UNCHANGED asked, NEW spec,
         WriteBack(c, Head(agenda[c]).call, spec), Known(spec.id, spec.keys),
         \/ spec.id = minted + 1
         \/ /\ spec.id = Head(agenda[c]).spec.id
            /\ spec.keys = Head(agenda[c]).spec.keys \/ ~Full(Head(agenda[c]).spec.keys)
  PROVE  LET it == Head(agenda[c]) IN
         /\ SlotsKeep /\ SlotsNamed'
         /\ \A j \in DOMAIN job[c] : j # it.call => j \in DOMAIN job'[c] /\ job'[c][j] = job[c][j]
         /\ it.call # 0 => it.call \in DOMAIN job'[c] /\ job'[c][it.call] = spec
         /\ it.call = 0 => UNCHANGED job
         /\ \A d \in Clients \ {c} : job'[d] = job[d]
<1> DEFINE i == Head(agenda[c]).call
           s == Head(agenda[c]).spec
<1>1. /\ i \in Nat /\ (i = 0 => i \notin DOMAIN job[c])
      /\ i # 0 => i \in DOMAIN job[c] /\ job[c][i].id = s.id /\ job[c][i].keys = s.keys
  BY HeadSlot
<1>2. i \in DOMAIN job[c] =>
        \/ spec.id = minted + 1
        \/ spec.id = job[c][i].id /\ (spec.keys = job[c][i].keys \/ ~Full(job[c][i].keys))
  BY <1>1
<1>3. i = 0 => UNCHANGED job
  BY <1>1 DEF WriteBack
<1>4. WriteBack(c, i, spec) /\ SlotsNamed
  BY DEF SlotNames
<1> HIDE DEF i, s
<1>5. /\ SlotsKeep /\ SlotsNamed'
      /\ DOMAIN job'[c] = DOMAIN job[c]
      /\ \A j \in DOMAIN job[c] : j # i => job'[c][j] = job[c][j]
      /\ i \in DOMAIN job[c] => job'[c][i] = spec
      /\ \A d \in Clients \ {c} : job'[d] = job[d]
  BY <1>1, <1>2, <1>4, WrittenSlots
<1>6. /\ \A j \in DOMAIN job[c] : j # i => j \in DOMAIN job'[c] /\ job'[c][j] = job[c][j]
      /\ i # 0 => i \in DOMAIN job'[c] /\ job'[c][i] = spec
  BY <1>1, <1>5
<1> QED BY <1>3, <1>5, <1>6 DEF i

LEMMA InvalidKeepsNames ==
  ASSUME TypeInv, SpecsInv, SlotNames, NEW c \in Clients, InvalidSpec(c)
  PROVE  KeepsNames(c)
<1> DEFINE it   == Head(agenda[c])
           spec == WithCause(it.spec)
<1>1. /\ Next0(c, "runTx") /\ UNCHANGED asked /\ DropRun(c)
      /\ WriteBack(c, it.call, spec)
  BY DEF InvalidSpec, Abort
<1>2. it.spec \in EventSpec /\ Known(it.spec.id, it.spec.keys)
  BY <1>1, HeadSlot
<1>3. spec.id = it.spec.id /\ spec.keys = it.spec.keys
  BY <1>2, WithCauseType
<1> HIDE DEF spec
<1>4. SlotsKeep /\ SlotsNamed' /\ \A d \in Clients \ {c} : job'[d] = job[d]
  BY <1>1, <1>2, <1>3, HeadWritten
<1> QED BY <1>1, <1>4, DroppedRun, EndKeepsNames

LEMMA CheckKeepsNames ==
  ASSUME TypeInv, SpecsInv, SlotNames, NEW c \in Clients, UniqueCheck(c)
  PROVE  KeepsNames(c)
<1> DEFINE it   == Head(agenda[c])
           spec == WithID(WithCause(it.spec))
           item == [op |-> "load", spec |-> spec, call |-> it.call]
<1>1. /\ Next0(c, "runTx") /\ UNCHANGED asked /\ WriteBack(c, it.call, spec)
      /\ \/ Push(c, <<item>>) /\ UNCHANGED mem
         \/ Push(c, <<>>) /\ UNCHANGED mem
         \/ DropRun(c)
      /\ ValidSpec(it.spec)
  BY DEF UniqueCheck, Abort
<1>2. /\ agenda[c] # <<>> /\ it.op # "emit" /\ it.op # "run"
      /\ it.spec \in EventSpec /\ it.call \in Nat /\ CallOf(it) = it.call
      /\ Known(it.spec.id, it.spec.keys) /\ minted \in Nat
      /\ it.call = 0 => it.spec.id \in Nat \cup {NoId}
  BY <1>1, HeadSlot DEF TypeInv, CountTypeOK
<1>3. /\ spec.keys = it.spec.keys /\ spec \in PreparedSpec
      /\ spec.id = IF it.spec.id = NoId THEN minted + 1 ELSE it.spec.id
  <2>1. spec.id = IF it.spec.id = NoId THEN minted + 1 ELSE it.spec.id
    BY <1>2 DEF WithCause, WithID, EventSpec
  <2> QED BY <1>1, <1>2, <2>1, PreparedType
<1>4. Known(spec.id, spec.keys)
  BY <1>2, <1>3 DEF Known
<1> HIDE DEF spec
<1>5. /\ SlotsKeep /\ SlotsNamed'
      /\ \A j \in DOMAIN job[c] : j # it.call => j \in DOMAIN job'[c] /\ job'[c][j] = job[c][j]
      /\ it.call # 0 => it.call \in DOMAIN job'[c] /\ job'[c][it.call] = spec
      /\ it.call = 0 => UNCHANGED job
      /\ \A d \in Clients \ {c} : job'[d] = job[d]
  BY <1>1, <1>3, <1>4, HeadWritten
<1>6. CASE DropRun(c)
  BY <1>5, <1>6, DroppedRun, EndKeepsNames
<1>7. Keeps(mem[c], mem[c])
  BY MemTypes DEF Keeps
<1>8. CASE Push(c, <<>>) /\ UNCHANGED mem
  <2> DEFINE items == <<>>
  <2>1. items \in Seq(Item) /\ Push(c, items) /\ DOMAIN items = {} /\ Keeps(mem[c], mem'[c])
    BY <1>7, <1>8
  <2>2. \A d \in Clients \ {c} : job'[d] = job[d] /\ mem'[d] = mem[d]
    BY <1>5, <1>8
  <2> HIDE DEF items
  <2>3. RunNamed(items, job'[c], mem'[c])
    BY <2>1 DEF RunNamed, OneEach
  <2> QED BY <1>2, <1>5, <2>1, <2>2, <2>3, PushNamed
<1>9. CASE Push(c, <<item>>) /\ UNCHANGED mem
  <2> DEFINE items == <<item>>
  <2>1. item.op = "load" /\ item.spec = spec /\ item.call = it.call /\ item \in Item
    BY <1>2, <1>3 DEF Item
  <2> HIDE DEF item
  <2>2. /\ items \in Seq(Item) /\ Push(c, items) /\ DOMAIN items = {1} /\ items[1] = item
        /\ Keeps(mem[c], mem'[c])
    BY <1>7, <1>9, <2>1, OneItem
  <2> HIDE DEF items
  <2>3. Named(item, job'[c], mem'[c])
    <3>1. Fits(spec.keys, KeysOf(item, mem'[c])) /\ KeysOf(item, mem'[c]) = spec.keys
      BY <2>1 DEF Fits, KeysOf
    <3>2. it.call = 0 => spec.id \in Nat \cup {NoId}
      BY <1>2, <1>3
    <3> QED BY <1>4, <1>5, <2>1, <3>1, <3>2 DEF Named
  <2>4. RunNamed(items, job'[c], mem'[c])
    BY <2>2, <2>3 DEF RunNamed, OneEach
  <2>5. CallOf(item) = CallOf(it)
    BY <1>2, <2>1 DEF CallOf
  <2>6. NewLibrary(c, item)
    <3>1. Head(agenda[c]) = agenda[c][1] /\ 1 \in DOMAIN agenda[c]
      BY <1>2, MemTypes, HeadTailProperties
    <3>2. CASE it.spec.id = NoId
      <4>1. spec.id > minted
        BY <1>2, <1>3, <3>2
      <4> QED BY <1>5, <2>1, <4>1 DEF NewLibrary, Library
    <3>3. CASE it.spec.id # NoId
      <4>1. spec.id = it.spec.id
        BY <1>3, <3>3
      <4> QED BY <1>2, <2>1, <3>1, <4>1 DEF NewLibrary, Library
    <3> QED BY <3>2, <3>3
  <2>7. \A d \in Clients \ {c} : job'[d] = job[d] /\ mem'[d] = mem[d]
    BY <1>5, <1>9
  <2>8. \A i \in DOMAIN items : /\ CallOf(items[i]) \in {0, CallOf(it)}
                                /\ NewLibrary(c, items[i])
    BY <2>2, <2>5, <2>6
  <2> QED BY <1>2, <1>5, <2>2, <2>4, <2>7, <2>8, PushNamed
<1> HIDE DEF item, it
<1> QED BY <1>1, <1>6, <1>8, <1>9

(* A caller's ID stands for one set of keys, and for all of them. *)
LEMMA AskedKeys ==
  ASSUME OwnIds, NEW id, id # NoId, NEW keys, Asks(id, keys)
  PROVE  /\ Full(keys)
         /\ \A other : Asks(id, other) /\ MachineOf[keys.entity] = MachineOf[other.entity]
              => other = keys
<1>1. PICK specs \in Jobs : \E i \in DOMAIN specs : specs[i].id = id /\ specs[i].keys = keys
  BY DEF Asks
<1>2. PICK i \in DOMAIN specs : specs[i].id = id /\ specs[i].keys = keys
  BY <1>1
<1>3. Full(keys)
  BY <1>2 DEF OwnIds, Full
<1>4. ASSUME NEW other, Asks(id, other), MachineOf[keys.entity] = MachineOf[other.entity]
      PROVE  other = keys
  <2>1. PICK more \in Jobs : \E j \in DOMAIN more : more[j].id = id /\ more[j].keys = other
    BY <1>4 DEF Asks
  <2>2. PICK j \in DOMAIN more : more[j].id = id /\ more[j].keys = other
    BY <2>1
  <2> QED BY <1>2, <1>4, <2>2 DEF OwnIds
<1> QED BY <1>3, <1>4

LEMMA FitsFull ==
  ASSUME NEW given \in Keys, NEW keys \in Keys, Fits(given, keys), Full(given)
  PROVE  given = keys
BY DEF Fits, Full, Keys

LEMMA KnownFits ==
  ASSUME OwnIds, NEW id, id # NoId, NEW given \in Keys, NEW keys \in Keys,
         Fits(given, keys), Known(id, given)
  PROVE  Known(id, keys)
BY AskedKeys, FitsFull DEF Known

LEMMA VisibleFits ==
  ASSUME Grounds, FullStates, NEW c \in Clients, NEW keys \in Keys,
         VisibleRow(c, keys.entity) # NoState,
         KeysMatch(keys, VisibleRow(c, keys.entity).keys)
  PROVE  LET state == VisibleRow(c, keys.entity) IN
         /\ state \in State /\ state.keys \in Keys /\ Fits(keys, state.keys)
         /\ state.keys = keys \/ ~Full(keys)
<1> DEFINE k     == keys.entity
           state == VisibleRow(c, k)
<1>1. k \in Entities /\ TypeInv /\ KeysInv
  BY DEF Keys, Grounds
<1>2. state \in State /\ state.keys \in Keys
  BY <1>1, VisibleTypes, StateParts
<1>3. state.keys.entity = k
  BY <1>1 DEF KeysInv, FiledByKeys, VisibleRow
<1>4. Fits(keys, state.keys)
  BY <1>3 DEF Fits, KeysMatch
<1> HIDE DEF state
<1>5. state.keys = keys \/ ~Full(keys)
  BY <1>2, <1>4, FitsFull
<1> QED BY <1>2, <1>4, <1>5 DEF state

LEMMA RowKeepsNames ==
  ASSUME Grounds, SpecsInv, FullStates, SlotNames, OwnIds,
         NEW c \in Clients, Next0(c, "load"),
         LET it    == Head(agenda[c])
             state == VisibleRow(c, it.spec.keys.entity)
         IN  /\ state # NoState /\ KeysMatch(it.spec.keys, state.keys)
             /\ WriteBack(c, it.call, [it.spec EXCEPT !.keys = state.keys])
             /\ Push(c, <<Run(it.spec, it.call, Len(mem[c]) + 1)>>)
             /\ mem' = [mem EXCEPT ![c] = Append(@, state)]
             /\ UNCHANGED asked
  PROVE  KeepsNames(c)
<1> DEFINE it    == Head(agenda[c])
           state == VisibleRow(c, it.spec.keys.entity)
           spec  == [it.spec EXCEPT !.keys = state.keys]
           act   == Len(mem[c]) + 1
           item  == Run(it.spec, it.call, act)
           items == <<item>>
<1>1. TypeInv
  BY DEF Grounds
<1>2. /\ agenda[c] # <<>> /\ it.op # "emit" /\ it.op # "run"
      /\ it.spec \in PreparedSpec /\ it.spec.id # NoId
      /\ it.spec \in EventSpec /\ it.call \in Nat /\ CallOf(it) = it.call
      /\ it.spec.keys \in Keys /\ Known(it.spec.id, it.spec.keys)
      /\ it.call = 0 => it.spec.id \in Nat \cup {NoId}
  BY <1>1, HeadSlot, LoadParts DEF PreparedSpec
<1>3. /\ state \in State /\ state.keys \in Keys /\ Fits(it.spec.keys, state.keys)
      /\ state.keys = it.spec.keys \/ ~Full(it.spec.keys)
  BY <1>2, VisibleFits
<1>4. Known(it.spec.id, state.keys)
  BY <1>2, <1>3, KnownFits
<1>5. spec.id = it.spec.id /\ spec.keys = state.keys
  BY <1>2 DEF EventSpec
<1>6. /\ WriteBack(c, it.call, spec) /\ Push(c, items) /\ UNCHANGED asked
      /\ mem' = [mem EXCEPT ![c] = Append(@, state)]
  OBVIOUS
<1> HIDE DEF spec, state
<1>7. /\ SlotsKeep /\ SlotsNamed'
      /\ \A j \in DOMAIN job[c] : j # it.call => j \in DOMAIN job'[c] /\ job'[c][j] = job[c][j]
      /\ it.call # 0 => it.call \in DOMAIN job'[c] /\ job'[c][it.call] = spec
      /\ \A d \in Clients \ {c} : job'[d] = job[d]
  <2>1. /\ Known(spec.id, spec.keys) /\ spec.id = Head(agenda[c]).spec.id
        /\ spec.keys = Head(agenda[c]).spec.keys \/ ~Full(Head(agenda[c]).spec.keys)
    BY <1>3, <1>4, <1>5
  <2> QED BY <1>1, <1>6, <2>1, HeadWritten
<1>8. /\ Keeps(mem[c], mem'[c]) /\ mem'[c][act] = state
      /\ \A d \in Clients \ {c} : mem'[d] = mem[d]
  BY <1>1, <1>3, <1>6, Loaded
<1>9. /\ item.op = "run" /\ item.spec = it.spec /\ item.call = it.call /\ item.act = act
      /\ item \in Item
  <2>1. act \in Nat \ {0}
    BY <1>1, MemTypes
  <2> QED BY <1>2, <2>1 DEF Item, Run
<1> HIDE DEF act, item
<1>10. items \in Seq(Item) /\ DOMAIN items = {1} /\ items[1] = item
  BY <1>9, OneItem
<1> HIDE DEF items
<1>11. Named(item, job'[c], mem'[c])
  <2>1. KeysOf(item, mem'[c]) = state.keys
    BY <1>8, <1>9 DEF KeysOf
  <2> QED BY <1>2, <1>3, <1>5, <1>7, <1>9, <2>1 DEF Named
<1>12. RunNamed(items, job'[c], mem'[c])
  BY <1>10, <1>11 DEF RunNamed, OneEach
<1>13. CallOf(item) = CallOf(it) /\ NewLibrary(c, item)
  <2>1. it = agenda[c][1] /\ 1 \in DOMAIN agenda[c]
    BY <1>1, <1>2, HeadFirst
  <2> QED BY <1>2, <1>9, <2>1 DEF CallOf, NewLibrary, Library
<1>14. \A i \in DOMAIN items : CallOf(items[i]) \in {0, CallOf(it)} /\ NewLibrary(c, items[i])
  BY <1>10, <1>13
<1>15. \A d \in Clients \ {c} : job'[d] = job[d] /\ mem'[d] = mem[d]
  BY <1>7, <1>8
<1> QED BY <1>1, <1>2, <1>6, <1>7, <1>8, <1>10, <1>12, <1>14, <1>15, PushNamed

LEMMA NothingKeepsNames ==
  ASSUME TypeInv, SpecsInv, SlotNames,
         NEW c \in Clients, LoadsNothing(c), UNCHANGED <<job, asked>>
  PROVE  KeepsNames(c)
<1> DEFINE it    == Head(agenda[c])
           keys  == it.spec.keys
           act   == Len(mem[c]) + 1
           init  == InitialRun(keys, act)
           run   == Run(it.spec, it.call, act)
           items == Append(init, run)
<1>1. Next0(c, "load")
  BY DEF LoadsNothing
<1>2. /\ agenda[c] # <<>> /\ it.op # "emit" /\ it.op # "run"
      /\ it.spec \in PreparedSpec /\ it.call \in Nat /\ CallOf(it) = it.call
      /\ keys \in Keys /\ Known(it.spec.id, keys)
      /\ it.call = 0 => it.spec.id \in Nat \cup {NoId}
      /\ it.call # 0 => /\ it.call \in DOMAIN job[c]
                        /\ job[c][it.call].id = it.spec.id
                        /\ job[c][it.call].keys = keys
      /\ minted \in Nat /\ act \in Nat \ {0}
  BY <1>1, HeadSlot, LoadParts, MemTypes DEF TypeInv, CountTypeOK
<1>3. mem' = [mem EXCEPT ![c] = Append(@, EmptyState(keys))] /\ Push(c, items)
  BY DEF LoadsNothing
<1>4. EmptyState(keys) \in State /\ EmptyState(keys).keys = keys
  BY <1>2, EmptyStateType DEF EmptyState
<1>5. /\ Keeps(mem[c], mem'[c]) /\ mem'[c][act].keys = keys
      /\ \A d \in Clients \ {c} : mem'[d] = mem[d]
  BY <1>3, <1>4, Loaded
<1>6. Fits(keys, keys)
  BY DEF Fits
<1>7. /\ run.op = "run" /\ run.spec = it.spec /\ run.call = it.call /\ run.act = act
      /\ run \in Item
  BY <1>2 DEF Item, Run
<1>8. init \in Seq(Item) /\ Len(init) \in Nat
  <2>1. init \in Seq(ItemUpTo(act)) /\ Len(init) \in Nat
    BY <1>2, InitialRunType
  <2> QED BY <2>1, SeqMonotonic DEF ItemUpTo
<1>9. \A j \in 1 .. Len(init) :
        /\ init[j].op = "run" /\ init[j].call = 0 /\ init[j].act = act
        /\ init[j].spec.keys = keys /\ init[j].spec.id = minted + 1
  <2> DEFINE inner == InitialEvent[MachineOf[keys.entity]]
             first == Run(Spec0(keys, minted + 1, inner, CauseOf("init")), 0, act)
  <2>1. init = <<>> \/ init = <<first>>
    BY DEF InitialRun
  <2>2. /\ first.op = "run" /\ first.call = 0 /\ first.act = act
        /\ first.spec.keys = keys /\ first.spec.id = minted + 1
    BY DEF Run, Spec0
  <2> HIDE DEF first
  <2> QED BY <2>1, <2>2
<1> HIDE DEF init, run, keys
<1>10. /\ items \in Seq(Item) /\ Len(items) = Len(init) + 1 /\ DOMAIN items = 1 .. Len(items)
       /\ items[Len(init) + 1] = run /\ \A j \in 1 .. Len(init) : items[j] = init[j]
  BY <1>7, <1>8, AppendProperties
<1> HIDE DEF items, act
<1>11. \A j \in DOMAIN items : \/ j \in 1 .. Len(init) /\ items[j] = init[j]
                               \/ j = Len(init) + 1 /\ items[j] = run
  BY <1>8, <1>10
<1>12. Named(run, job'[c], mem'[c])
  <2>1. KeysOf(run, mem'[c]) = keys /\ job' = job
    BY <1>5, <1>7 DEF KeysOf
  <2> QED BY <1>2, <1>6, <1>7, <2>1 DEF Named, keys
<1>13. ASSUME NEW j \in 1 .. Len(init)
       PROVE  Named(init[j], job'[c], mem'[c])
  <2>1. KeysOf(init[j], mem'[c]) = keys /\ init[j].spec.id \in Nat
    BY <1>2, <1>5, <1>9 DEF KeysOf
  <2> QED BY <1>6, <1>9, <2>1 DEF Named, Known
<1>14. OneEach(items)
  <2>1. \A j \in DOMAIN items : CallOf(items[j]) # 0 => j = Len(init) + 1
    BY <1>9, <1>11 DEF CallOf
  <2> QED BY <2>1 DEF OneEach
<1>15. RunNamed(items, job'[c], mem'[c])
  BY <1>11, <1>12, <1>13, <1>14 DEF RunNamed
<1>16. CallOf(run) = CallOf(it) /\ NewLibrary(c, run)
  <2>1. it = agenda[c][1] /\ 1 \in DOMAIN agenda[c]
    BY <1>2, HeadFirst
  <2> QED BY <1>2, <1>7, <2>1 DEF CallOf, NewLibrary, Library
<1>17. ASSUME NEW j \in 1 .. Len(init)
       PROVE  CallOf(init[j]) = 0 /\ NewLibrary(c, init[j])
  <2>1. init[j].spec.id > minted
    BY <1>2, <1>9
  <2> QED BY <1>9, <2>1 DEF CallOf, NewLibrary
<1>18. \A i \in DOMAIN items : CallOf(items[i]) \in {0, CallOf(it)} /\ NewLibrary(c, items[i])
  BY <1>11, <1>16, <1>17
<1>19. SlotsKeep /\ SlotsNamed'
  BY SameSlots
<1>20. /\ \A d \in Clients \ {c} : job'[d] = job[d] /\ mem'[d] = mem[d]
       /\ \A j \in DOMAIN job[c] : j \in DOMAIN job'[c] /\ job'[c][j] = job[c][j]
  BY <1>5
<1> QED BY <1>2, <1>3, <1>5, <1>10, <1>15, <1>18, <1>19, <1>20, PushNamed

LEMMA InsertKeepsNames ==
  ASSUME TypeInv, PendingInv, SpecsInv, SlotNames,
         NEW c \in Clients, Inserts(c), UNCHANGED <<job, asked>>
  PROVE  KeepsNames(c)
<1> DEFINE p     == pending[c]
           links == LinkRuns(p)
           emit  == EmitOf(p)
           items == Append(links, emit)
<1>1. p # NoPending /\ Push(c, items) /\ agenda[c] # <<>> /\ p \in Pending /\ UNCHANGED mem
      /\ p.act \in 1 .. Len(mem[c]) /\ Len(mem[c]) \in Nat
  BY MemTypes DEF Inserts, PendingInv, TypeInv, RunTypeInv
<1>2. links \in Seq(Item) /\ Len(links) \in Nat /\ emit \in Item /\ emit.op = "emit"
  <2>1. links \in Seq(ItemUpTo(Len(mem[c]))) /\ Len(links) \in Nat
    BY <1>1, LinkRunsType
  <2>2. p.row \in EventRow /\ p.act \in Nat \ {0} /\ p.tr \in Transition
    BY <1>1 DEF Pending
  <2> QED BY <2>1, <2>2, RefType, SeqMonotonic DEF ItemUpTo, Item, EmitOf
<1>3. \A j \in 1 .. Len(links) :
        links[j].call = 0 /\ links[j].spec.id = NoId /\ links[j].op = "runTx"
  <2>1. Len(p.tr.links) \in Nat
    BY <1>1 DEF Pending, Transition
  <2>2. Len(links) = Len(p.tr.links)
    BY <2>1 DEF LinkRuns
  <2> QED BY <2>2 DEF LinkRuns, RunTx, Spec0
<1> HIDE DEF links, emit, p
<1>4. /\ items \in Seq(Item) /\ DOMAIN items = 1 .. Len(links) + 1
      /\ items[Len(links) + 1] = emit /\ \A j \in 1 .. Len(links) : items[j] = links[j]
  BY <1>2, AppendProperties
<1> HIDE DEF items
<1>5. \A j \in DOMAIN items : \/ items[j].op = "emit"
                              \/ items[j].op = "runTx" /\ items[j].call = 0 /\ items[j].spec.id = NoId
  <2>1. \A j \in DOMAIN items : j \in 1 .. Len(links) \/ j = Len(links) + 1
    BY <1>2, <1>4
  <2> QED BY <1>2, <1>3, <1>4, <2>1
<1>6. \A j \in DOMAIN items :
        /\ CallOf(items[j]) = 0 /\ NewLibrary(c, items[j])
        /\ Named(items[j], job'[c], mem'[c])
  BY <1>5, ValuesAssumption DEF CallOf, NewLibrary, Library, Named, Known, Fits, KeysOf
<1>7. RunNamed(items, job'[c], mem'[c])
  BY <1>6 DEF RunNamed, OneEach
<1>8. Keeps(mem[c], mem'[c]) /\ SlotsKeep /\ SlotsNamed'
  BY <1>1, SameSlots DEF Keeps
<1>9. /\ \A i \in DOMAIN items : /\ CallOf(items[i]) \in {0, CallOf(Head(agenda[c]))}
                                 /\ NewLibrary(c, items[i])
      /\ \A j \in DOMAIN job[c] : j \in DOMAIN job'[c] /\ job'[c][j] = job[c][j]
      /\ \A d \in Clients \ {c} : job'[d] = job[d] /\ mem'[d] = mem[d]
  BY <1>1, <1>6
<1> QED BY <1>1, <1>4, <1>7, <1>8, <1>9, PushNamed

LEMMA EmitKeepsNames ==
  ASSUME TypeInv, SpecsInv, SlotNames, NEW c \in Clients, Emit(c)
  PROVE  KeepsNames(c)
<1> DEFINE it    == Head(agenda[c])
           items == Chained(c, it)
<1>1. agenda[c] # <<>> /\ it.op = "emit" /\ Push(c, items) /\ UNCHANGED <<job, asked, mem>>
  BY DEF Emit, Next0, callVars
<1>2. /\ items \in Seq(Item) /\ Len(items) \in Nat /\ it.tr \in Transition /\ minted \in Nat
      /\ DOMAIN items = 1 .. Len(items)
  <2>1. items \in Seq(ItemUpTo(Len(mem[c]))) /\ Len(items) \in Nat /\ it.tr \in Transition
    BY <1>1, MemTypes, ItemTypes, ChainedType
  <2> HIDE DEF items
  <2> QED BY <2>1, SeqMonotonic DEF ItemUpTo, TypeInv, CountTypeOK
<1>3. \A j \in DOMAIN items :
        /\ items[j].op = "run" /\ items[j].call = 0 /\ items[j].spec.id = minted + j
        /\ items[j].act = it.act /\ items[j].spec.keys = mem[c][it.act].keys
  BY DEF Chained, Run, Spec0
<1> HIDE DEF items
<1>4. ASSUME NEW j \in DOMAIN items
      PROVE  /\ CallOf(items[j]) = 0 /\ NewLibrary(c, items[j])
             /\ Named(items[j], job'[c], mem'[c])
  <2>1. items[j].spec.id \in Nat /\ items[j].spec.id > minted
    BY <1>2, <1>3
  <2>2. KeysOf(items[j], mem'[c]) = items[j].spec.keys
    BY <1>1, <1>3 DEF KeysOf
  <2> QED BY <1>1, <1>3, <2>1, <2>2 DEF CallOf, NewLibrary, Named, Known, Fits
<1>5. RunNamed(items, job'[c], mem'[c])
  BY <1>4 DEF RunNamed, OneEach
<1>6. Keeps(mem[c], mem'[c]) /\ SlotsKeep /\ SlotsNamed'
  BY <1>1, MemTypes, SameSlots DEF Keeps
<1>7. /\ \A i \in DOMAIN items : /\ CallOf(items[i]) \in {0, CallOf(Head(agenda[c]))}
                                 /\ NewLibrary(c, items[i])
      /\ \A j \in DOMAIN job[c] : j \in DOMAIN job'[c] /\ job'[c][j] = job[c][j]
      /\ \A d \in Clients \ {c} : job'[d] = job[d] /\ mem'[d] = mem[d]
  BY <1>1, <1>4
<1> QED BY <1>1, <1>2, <1>5, <1>6, <1>7, PushNamed

LEMMA UpsertKeepsNames ==
  ASSUME TypeInv, SpecsInv, SlotNames, NEW c \in Clients, Upsert(c)
  PROVE  KeepsNames(c)
<1>1. /\ UNCHANGED <<job, asked, agenda>> /\ Keeps(mem[c], mem'[c])
      /\ \A d \in Clients \ {c} : mem'[d] = mem[d]
  BY Upserted DEF Upsert, callVars
<1>2. \A i \in DOMAIN agenda[c] : agenda[c][i].op = "run" => agenda[c][i].act \in 1 .. Len(mem[c])
  BY MemTypes, ItemTypes
<1>3. RunNamed(agenda[c], job[c], mem'[c])
  <2>1. \A i \in DOMAIN agenda[c] :
          agenda[c][i].op # "emit" => KeysOf(agenda[c][i], mem'[c]) = KeysOf(agenda[c][i], mem[c])
    BY <1>1, <1>2 DEF KeysOf, Keeps
  <2> QED BY <2>1 DEF SlotNames, AgendasNamed, RunNamed, Named
<1>4. SlotsKeep /\ SlotsNamed'
  BY <1>1, SameSlots
<1>5. \A i \in DOMAIN agenda[c] : NewLibrary(c, agenda[c][i])
  BY DEF NewLibrary
<1> QED BY <1>1, <1>3, <1>4, <1>5 DEF KeepsNames

LEMMA NextSlotNames ==
  ASSUME CallersOutside, OwnIds, NamesGrounds, SlotNames, [Next]_vars
  PROVE  SlotNames' /\ SlotsKeep
<1> USE DEF NamesGrounds, Grounds
<1>1. CASE UNCHANGED vars \/ Rest
  <2>1. UNCHANGED <<job, asked, agenda, mem>>
    BY <1>1 DEF Rest, vars, callVars, runVars
  <2>2. SlotsKeep /\ SlotsNamed'
    BY <2>1, SameSlots
  <2> QED BY <2>1, <2>2 DEF SlotNames, AgendasNamed, SlotsApart, LibraryApart
<1>2. ASSUME NEW c \in Clients, Call(c) \/ Resend(c) \/ Step(c) \/ Fault(c)
      PROVE  KeepsNames(c)
  <2>1. ASSUME NEW why, Abort(c, why), UNCHANGED job
        PROVE  KeepsNames(c)
    BY <2>1, DropKeepsNames DEF Abort
  <2>2. CASE Call(c) \/ Resend(c)
    BY <2>2, AskKeepsNames
  <2>3. CASE Open(c)
    BY <2>3, OpenKeepsNames
  <2>4. CASE InvalidSpec(c)
    BY <2>4, InvalidKeepsNames
  <2>5. CASE UniqueCheck(c)
    BY <2>5, CheckKeepsNames
  <2>6. CASE Load(c)
    <3> DEFINE it    == Head(agenda[c])
               state == VisibleRow(c, it.spec.keys.entity)
    <3>1. Next0(c, "load")
      BY <2>6 DEF Load
    <3>2. \/ LoadsNothing(c) /\ UNCHANGED <<job, asked>>
          \/ \E why \in Errors : Abort(c, why) /\ UNCHANGED job
          \/ /\ state # NoState /\ KeysMatch(it.spec.keys, state.keys)
             /\ WriteBack(c, it.call, [it.spec EXCEPT !.keys = state.keys])
             /\ Push(c, <<Run(it.spec, it.call, Len(mem[c]) + 1)>>)
             /\ mem' = [mem EXCEPT ![c] = Append(@, state)]
             /\ UNCHANGED asked
      BY <2>6 DEF Load, LoadsNothing, callVars, Errors
    <3> QED BY <2>1, <3>1, <3>2, NothingKeepsNames, RowKeepsNames
  <2>7. CASE RunFails(c) \/ CallbackFails(c)
    BY <2>1, <2>7 DEF RunFails, CallbackFails
  <2>8. CASE Upsert(c)
    BY <2>8, UpsertKeepsNames
  <2>9. CASE SerializationFailure(c) \/ DeadlockVictim(c) \/ Crash(c) \/ Commit(c)
             \/ CommitUnacked(c)
    <3>1. /\ DropRun(c) /\ UNCHANGED asked
          /\ UNCHANGED job \/ job' = [job EXCEPT ![c] = asked[c]]
      BY <2>9 DEF SerializationFailure, DeadlockVictim, Retry, Crash, Commit, CommitUnacked
    <3> QED BY <3>1, DropKeepsNames
  <2>10. CASE Insert(c)
    <3>1. /\ Inserts(c) \/ \E why \in Errors : Abort(c, why)
          /\ UNCHANGED <<job, asked>>
      BY <2>10 DEF Insert, Inserts, EmitOf, Errors, Abort
    <3> QED BY <2>1, <3>1, InsertKeepsNames
  <2>11. CASE Emit(c)
    BY <2>11, EmitKeepsNames
  <2> QED BY <1>2, <2>2, <2>3, <2>4, <2>5, <2>6, <2>7, <2>8, <2>9, <2>10, <2>11
          DEF Step, Fault
<1>3. ASSUME NEW c \in Clients, KeepsNames(c)
      PROVE  SlotNames' /\ SlotsKeep
  BY <1>3, KeptNames
<1> QED BY <1>1, <1>2, <1>3 DEF Next

-----------------------------------------------------------------------------
(***************************************************************************)
(* The event that waits for its insert has the keys its ID stands for, and *)
(* it is the only one a step adds to what is written.                      *)
(***************************************************************************)
LEMMA PendingIsNamed ==
  ASSUME OwnIds, NamesGrounds, SlotNames, PendingHead, NEW c \in Clients, pending[c] # NoPending
  PROVE  LET row == pending[c].row IN
         /\ EventNamed(row) /\ SlotWrites(row) /\ Drawn(row.id, minted)
         /\ Fits(pending[c].keys, row.snapshot.keys)
<1> DEFINE p    == pending[c]
           it   == Head(agenda[c])
           keys == mem[c][it.act].keys
<1>1. TypeInv /\ agenda[c] # <<>>
  BY DEF NamesGrounds, Grounds, PendingInv
<1>2. /\ it.op = "run" /\ p.row.snapshot.keys = keys /\ p.row.keys = keys
      /\ p.row.id = it.spec.id /\ p.keys = it.spec.keys
  BY DEF NamesGrounds, Grounds, PendingOnTop, IsOf, PendingHead
<1>3. /\ it.spec \in PreparedSpec /\ it.spec.id # NoId /\ it.spec.keys \in Keys
      /\ it.act \in 1 .. Len(mem[c]) /\ keys \in Keys /\ p.row.keys \in Keys
  <2>1. it.spec \in PreparedSpec /\ it.act \in 1 .. Len(mem[c]) /\ mem[c] \in Seq(State)
    BY <1>1, <1>2, MemTypes, ItemTypes
  <2>2. mem[c][it.act] \in State
    BY <2>1
  <2> QED BY <1>2, <2>1, <2>2, StateParts DEF PreparedSpec, EventSpec
<1>4. Named(it, job[c], mem[c])
  BY <1>1, HeadNamed
<1>5. /\ Known(it.spec.id, it.spec.keys) /\ Fits(it.spec.keys, keys)
      /\ it.call = 0 => Library(it) \/ it.spec.id \notin Nat
      /\ it.call # 0 => /\ it.call \in DOMAIN job[c]
                        /\ job[c][it.call].id = it.spec.id /\ job[c][it.call].keys = keys
  BY <1>2, <1>4 DEF Named, KeysOf, Library
<1>6. Full(keys)
  BY <1>3 DEF NamesGrounds, FullStates
<1>7. EventNamed(p.row)
  BY <1>2, <1>3, <1>5, <1>6, KnownFits DEF EventNamed
<1>8. ASSUME NEW d \in Clients, NEW j \in DOMAIN job[d],
             p.row.id \in Nat, p.row.id = job[d][j].id
      PROVE  p.row.keys = job[d][j].keys
  <2>1. it.call # 0
    <3>1. it = agenda[c][1] /\ 1 \in DOMAIN agenda[c]
      BY <1>1, HeadFirst
    <3> QED BY <1>2, <1>5, <1>8, <3>1 DEF SlotNames, LibraryApart
  <2>2. d = c /\ j = it.call
    BY <1>2, <1>5, <1>8, <2>1 DEF SlotNames, SlotsApart
  <2> QED BY <1>2, <1>5, <2>1, <2>2
<1>9. SlotWrites(p.row)
  BY <1>8 DEF SlotWrites
<1>10. Drawn(p.row.id, minted)
  BY DEF NamesGrounds, SpecsInv, IdsInv, Stored
<1> QED BY <1>2, <1>5, <1>7, <1>9, <1>10

LEMMA NextWritten ==
  ASSUME TypeInv, [Next]_vars
  PROVE  \A e \in Written' :
           e \in Written \/ \E c \in Clients : pending[c] # NoPending /\ e = pending[c].row
<1>1. CASE UNCHANGED <<dbVars, agenda, pending, mem>>
  BY <1>1 DEF Written, dbVars
<1>2. ASSUME NEW c \in Clients, Moves(c)
      PROVE  \A e \in Written' : e \in Written \/ (pending[c] # NoPending /\ e = pending[c].row)
  <2>1. \A d \in Clients \ {c} : txEvents'[d] = txEvents[d]
    BY <1>2, OthersKeepWrites
  <2> DEFINE New(e) == e \in Written \/ (pending[c] # NoPending /\ e = pending[c].row)
  <2> SUFFICES \A e \in Written' : New(e)
    OBVIOUS
  <2>2. ASSUME \A e \in events' : New(e), \A e \in txEvents'[c] : New(e)
        PROVE  \A e \in Written' : New(e)
    <3> SUFFICES ASSUME NEW e \in Written' PROVE New(e)
      OBVIOUS
    <3>1. e \in events' \/ \E d \in Clients : e \in txEvents'[d]
      BY DEF Written
    <3>2. ASSUME NEW d \in Clients, e \in txEvents'[d]
          PROVE  New(e)
      <4>1. CASE d = c
        BY <2>2, <3>2, <4>1
      <4>2. CASE d # c
        BY <2>1, <3>2, <4>2 DEF Written
      <4> QED BY <4>1, <4>2
    <3> QED BY <2>2, <3>1, <3>2
  <2>3. /\ \A e \in events \cup txEvents[c] : New(e)
        /\ pending[c] # NoPending => New(pending[c].row)
    BY <1>2 DEF Written
  <2> HIDE DEF New
  <2>4. CASE Open(c) \/ Checks(c) \/ LoadsNothing(c) \/ LoadsRow(c) \/ Emit(c) \/ Upsert(c)
    <3>1. UNCHANGED <<events, txEvents>>
      BY <2>4 DEF Open, BeginTx, Checks, LoadsNothing, LoadsRow, Emit, HookWrites, Upsert,
                  UpsertRow, tables, dbVars
    <3> QED BY <2>2, <2>3, <3>1
  <2>5. CASE RollsBack(c) \/ Commits(c)
    <3>1. txEvents'[c] = {} /\ events' \subseteq events \cup txEvents[c]
      BY <2>5, DBTypes DEF RollsBack, Commits, RollbackTx, CommitTx, ClearTx, tables
    <3> QED BY <2>2, <2>3, <3>1
  <2>6. CASE Inserts(c)
    <3>1. /\ txEvents'[c] = txEvents[c] \cup {pending[c].row} /\ UNCHANGED events
          /\ pending[c] # NoPending
      BY <2>6, DBTypes DEF Inserts, InsertEvent, tables
    <3> QED BY <2>2, <2>3, <3>1
  <2> QED BY <1>2, <2>4, <2>5, <2>6 DEF Moves
<1> QED BY <1>1, <1>2, NextMoves

LEMMA NextEventNames ==
  ASSUME OwnIds, NamesGrounds, SlotNames, PendingHead, EventNames, SlotsKeep, [Next]_vars
  PROVE  EventNames'
<1>1. TypeInv /\ minted \in Nat
  BY DEF NamesGrounds, Grounds, TypeInv, CountTypeOK
<1>2. \A e \in Written : Drawn(e.id, minted)
  BY DEF Written, NamesGrounds, SpecsInv, IdsInv, Stored
<1>3. \A e \in Written' : Drawn(e.id, minted) /\ EventNamed(e) /\ SlotWrites(e)
  <2> SUFFICES ASSUME NEW e \in Written'
               PROVE  Drawn(e.id, minted) /\ EventNamed(e) /\ SlotWrites(e)
    OBVIOUS
  <2>1. CASE e \in Written
    BY <1>2, <2>1 DEF EventNames
  <2>2. ASSUME NEW c \in Clients, pending[c] # NoPending, e = pending[c].row
        PROVE  Drawn(e.id, minted) /\ EventNamed(e) /\ SlotWrites(e)
    BY <2>2, PendingIsNamed
  <2> QED BY <1>1, <2>1, <2>2, NextWritten
<1> QED BY <1>1, <1>3, KeepEventNames

-----------------------------------------------------------------------------
(***************************************************************************)
(* Replies, given and still to be given, have the keys of their request.   *)
(***************************************************************************)
Fitting(r) == Fits(r.keys, r.state.keys)

RepliesFit ==
  /\ \A r \in replies : Fitting(r)
  /\ \A c \in Clients : \A i \in DOMAIN ret[c] : Fitting(ret[c][i])

LEMMA ReturnsGrow ==
  ASSUME TypeInv, RepliesFit, NEW c \in Clients, NEW i, NEW r, Return(c, i, r),
         i # 0 => Fitting(r), UNCHANGED replies
  PROVE  RepliesFit'
<1>1. ret \in [Clients -> Seq(Reply)]
  BY DEF TypeInv, RunTypeInv
<1>2. CASE i = 0
  BY <1>2 DEF Return, RepliesFit, Fitting
<1>3. CASE i # 0
  <2>1. ret'[c] = Append(ret[c], r) /\ \A d \in Clients \ {c} : ret'[d] = ret[d]
    BY <1>1, <1>3 DEF Return
  <2>2. \A j \in DOMAIN ret'[c] : ret'[c][j] = r \/ (j \in DOMAIN ret[c] /\ ret'[c][j] = ret[c][j])
    BY <1>1, <2>1, AppendProperties
  <2>3. \A d \in Clients : \A j \in DOMAIN ret'[d] : Fitting(ret'[d][j])
    BY <1>3, <2>1, <2>2 DEF RepliesFit
  <2> QED BY <2>3 DEF RepliesFit, Fitting
<1> QED BY <1>2, <1>3

LEMMA DroppedReturns ==
  ASSUME TypeInv, RepliesFit, NEW c \in Clients, DropRun(c),
         replies' \subseteq replies \cup ToSet(ret[c])
  PROVE  RepliesFit'
<1>1. ret'[c] = <<>> /\ \A d \in Clients \ {c} : ret'[d] = ret[d]
  BY DEF DropRun, TypeInv, RunTypeInv
<1>2. \A d \in Clients : \A j \in DOMAIN ret'[d] : Fitting(ret'[d][j])
  BY <1>1 DEF RepliesFit
<1>3. \A r \in replies' : Fitting(r)
  BY DEF RepliesFit, ToSet
<1> QED BY <1>2, <1>3 DEF RepliesFit, Fitting

(* The event the check finds has the keys of the spec it is checked for. *)
LEMMA RepeatFits ==
  ASSUME OwnIds, NamesGrounds, SlotNames, EventNames, NEW c \in Clients, Next0(c, "runTx"),
         Head(agenda[c]).call # 0, NEW e \in VisibleEvents(c),
         LET spec == WithID(WithCause(Head(agenda[c]).spec))
         IN  RefOf(e) = [machine |-> MachineOf[spec.keys.entity], id |-> spec.id]
  PROVE  Fits(WithID(WithCause(Head(agenda[c]).spec)).keys, e.snapshot.keys)
<1> DEFINE it   == Head(agenda[c])
           spec == WithID(WithCause(it.spec))
<1>1. TypeInv /\ minted \in Nat
  BY DEF NamesGrounds, Grounds, TypeInv, CountTypeOK
<1>2. /\ it.spec \in EventSpec /\ it.call \in DOMAIN job[c]
      /\ Known(it.spec.id, it.spec.keys)
      /\ job[c][it.call].id = it.spec.id /\ job[c][it.call].keys = it.spec.keys
  BY <1>1, HeadSlot
<1>3. e \in Written
  BY DEF VisibleEvents, NamesGrounds, ReplyInv, SnapshotsCommitted, Written
<1>4. /\ e.snapshot.keys = e.keys /\ Known(e.id, e.keys) /\ SlotWrites(e) /\ Drawn(e.id, minted)
  BY <1>3 DEF EventNames, EventNamed, Written, NamesGrounds, SpecsInv, IdsInv, Stored
<1>5. /\ spec.keys = it.spec.keys
      /\ spec.id = IF it.spec.id = NoId THEN minted + 1 ELSE it.spec.id
      /\ e.id = spec.id /\ MachineOf[e.keys.entity] = MachineOf[spec.keys.entity]
  BY <1>2 DEF WithID, WithCause, EventSpec, RefOf
<1>6. CASE it.spec.id = NoId
  BY <1>1, <1>4, <1>5, <1>6 DEF Drawn
<1>7. CASE it.spec.id \in Nat
  <2>1. it.spec.id # NoId
    BY <1>7, ValuesAssumption
  <2> QED BY <1>2, <1>4, <1>5, <1>7, <2>1 DEF SlotWrites, Fits
<1>8. CASE it.spec.id # NoId /\ it.spec.id \notin Nat
  <2>1. Asks(it.spec.id, it.spec.keys) /\ Asks(it.spec.id, e.keys)
    BY <1>2, <1>4, <1>5, <1>8 DEF Known
  <2>2. it.spec.keys = e.keys
    BY <1>5, <1>8, <2>1, AskedKeys
  <2> QED BY <1>4, <1>5, <2>2 DEF Fits
<1> QED BY <1>6, <1>7, <1>8

LEMMA NextRepliesFit ==
  ASSUME OwnIds, NamesGrounds, SlotNames, EventNames, PendingHead, RepliesFit, [Next]_vars
  PROVE  RepliesFit'
<1> USE DEF NamesGrounds, Grounds
<1>1. CASE UNCHANGED <<ret, replies>>
  BY <1>1 DEF RepliesFit, Fitting
<1>2. ASSUME NEW c \in Clients, Call(c) \/ Resend(c) \/ Step(c) \/ Fault(c)
      PROVE  RepliesFit'
  <2>1. CASE Call(c) \/ Resend(c) \/ Open(c) \/ Upsert(c) \/ Emit(c)
    BY <1>1, <2>1 DEF Call, Resend, Ask, Open, Upsert, Emit, runVars
  <2>2. ASSUME DropRun(c), replies' \subseteq replies \cup ToSet(ret[c])
        PROVE  RepliesFit'
    BY <2>2, DroppedReturns
  <2>3. ASSUME NEW why, Abort(c, why)
        PROVE  RepliesFit'
    BY <2>2, <2>3 DEF Abort
  <2>4. CASE InvalidSpec(c) \/ RunFails(c) \/ CallbackFails(c)
    BY <2>3, <2>4 DEF InvalidSpec, RunFails, CallbackFails
  <2>5. CASE Load(c)
    BY <1>1, <2>3, <2>5 DEF Load
  <2>6. CASE SerializationFailure(c) \/ DeadlockVictim(c)
    BY <2>2, <2>6 DEF SerializationFailure, DeadlockVictim, Retry
  <2>7. CASE Commit(c) \/ CommitUnacked(c) \/ Crash(c)
    BY <2>2, <2>7 DEF Commit, CommitUnacked, Crash
  <2>8. CASE UniqueCheck(c)
    <3> DEFINE it    == Head(agenda[c])
               spec  == WithID(WithCause(it.spec))
               ref   == [machine |-> MachineOf[spec.keys.entity], id |-> spec.id]
               reply(e) == [id |-> e.id, inner |-> spec.inner, keys |-> spec.keys,
                            state |-> Answer(c, e)]
    <3>1. CASE UNCHANGED <<ret, replies>> \/ Abort(c, "duplicate ID")
      BY <1>1, <2>3, <3>1
    <3>2. ASSUME NEW e \in VisibleEvents(c), RefOf(e) = ref, Return(c, it.call, reply(e)),
                 UNCHANGED replies
          PROVE  RepliesFit'
      <4>1. it.call # 0 => Fits(spec.keys, e.snapshot.keys)
        BY <2>8, <3>2, RepeatFits DEF UniqueCheck
      <4>2. it.call # 0 => Fitting(reply(e))
        BY <4>1 DEF Fitting, Answer
      <4> HIDE DEF reply
      <4> QED BY <3>2, <4>2, ReturnsGrow
    <3> QED BY <2>8, <3>1, <3>2 DEF UniqueCheck
  <2>9. CASE Insert(c)
    <3> DEFINE p     == pending[c]
               reply == [id |-> p.row.id, inner |-> p.row.inner, keys |-> p.keys,
                         state |-> p.row.snapshot]
    <3>1. /\ p # NoPending
          /\ Abort(c, "unique violation") \/ (Return(c, p.call, reply) /\ UNCHANGED replies)
      BY <2>9 DEF Insert
    <3>2. Fitting(reply)
      BY <3>1, PendingIsNamed DEF Fitting
    <3> HIDE DEF reply, p
    <3>3. CASE Return(c, p.call, reply) /\ UNCHANGED replies
      BY <3>2, <3>3, ReturnsGrow
    <3> QED BY <2>3, <3>1, <3>3
  <2> QED BY <1>2, <2>1, <2>4, <2>5, <2>6, <2>7, <2>8, <2>9 DEF Step, Fault
<1> QED BY <1>1, <1>2 DEF Next, Rest, vars, runVars

NamesInv ==
  ClosedInv /\ FullStates /\ PendingHead /\ SlotNames /\ EventNames /\ RepliesFit

LEMMA InitNames == Init => NamesInv
<1> SUFFICES ASSUME Init PROVE NamesInv
  OBVIOUS
<1>1. ClosedInv /\ PendingHead /\ RepliesFit
  BY DEF Init, ClosedInv, PendingHead, RepliesFit
<1>2. FullStates
  <2>1. \A c \in Clients : mem[c] = <<>> /\ Len(mem[c]) = 0
    BY DEF Init
  <2> QED BY <2>1 DEF Init, DBInit, NoRows, FullStates, FullTable
<1>3. Written = {}
  BY DEF Init, DBInit, Written
<1>4. SlotNames
  BY DEF Init, SlotNames, AgendasNamed, RunNamed, OneEach, SlotsNamed, SlotsApart, LibraryApart
<1> QED BY <1>1, <1>2, <1>3, <1>4 DEF NamesInv, EventNames

(***************************************************************************)
(* A reply, first answer or repeat, is about the entity the caller named,  *)
(* under the tenant it gave, if it gave one (assertPresentKeysMatch).  The *)
(* answer to a repeat is not compared with the keys given again            *)
(* (firstEventUniqueCheck): that it is right rests on callers that send no *)
(* ID twice for two entities (OwnIds), and on where the library's own IDs  *)
(* can get to.                                                             *)
(***************************************************************************)
THEOREM RepliesMatch ==
  ASSUME CallersOutside, OwnIds
  PROVE  Spec => []RepliesMatchRequests
<1>1. NamesInv /\ Grounds /\ SpecsInv /\ ReplyInv /\ [Next]_vars => NamesInv'
  <2> SUFFICES ASSUME NamesInv, Grounds, SpecsInv, ReplyInv, [Next]_vars
               PROVE  NamesInv'
    OBVIOUS
  <2>1. NamesGrounds /\ SlotNames
    BY DEF NamesInv, NamesGrounds
  <2>2. SlotNames' /\ SlotsKeep
    BY <2>1, NextSlotNames
  <2>3. ClosedInv' /\ FullStates' /\ PendingHead'
    BY NextClosed, NextFull, NextPendingHead DEF NamesInv, Grounds
  <2>4. EventNames' /\ RepliesFit'
    BY <2>1, <2>2, NextEventNames, NextRepliesFit DEF NamesInv
  <2> QED BY <2>2, <2>3, <2>4 DEF NamesInv
<1>2. Init => ReplyInv
  BY DEF Init, DBInit, ReplyInv, RepliesAreSnapshots, ReturnsAreSnapshots, SnapshotsCommitted
<1>3. Grounds /\ ReplyInv /\ [Next]_vars => ReplyInv'
  BY NextReplyInv DEF Grounds
<1>4. NamesInv => RepliesMatchRequests
  BY DEF NamesInv, RepliesFit, Fitting, Fits, RepliesMatchRequests
<1>5. Spec => []SpecsInv
  BY SpecsInvariant
<1> QED BY <1>1, <1>2, <1>3, <1>4, <1>5, InitNames, GroundsInvariant, PTL DEF Spec
=============================================================================
