----------------------- MODULE StateMachineLogProofs -----------------------
(***************************************************************************)
(* Proofs about what a state machine logs, and about what the logged       *)
(* events have had for effects.                                            *)
(*                                                                         *)
(* HISTORIES.  With Serializable transactions, and as long as links go     *)
(* forward (so that RunsAreLatest):                                        *)
(*   []SequencesContiguous, []LogReplays, ImplementsLog.                   *)
(*                                                                         *)
(* The rows of an entity and its events are a history, in the tables and   *)
(* in the view of every transaction that has written the row.  Upsert adds *)
(* one event to a history; a commit puts the history of a transaction in   *)
(* the place of the committed one, which the row's lock has kept as it was *)
(* when the transaction began.  As a sequence, a history is the log of the *)
(* event log's specification, and the step that commits extends it.        *)
(*                                                                         *)
(* THE TABLE OF A STATE HOOK, for both isolation levels.                   *)
(* Spec => []DerivedFollowsState, for every configuration whose links and  *)
(* chained events lead forward.  Between the upsert of a state and the     *)
(* hooks of its transition the derived row lags behind.  It is then owed:  *)
(* by the event that waits for its insert, or by an emit that is still on  *)
(* the agenda.  The state in memory, which the hook derives from, is the   *)
(* row the transaction wrote.                                              *)
(*                                                                         *)
(* THE OTHER EFFECTS, for both levels too.                                 *)
(* Spec => []EffectsMatchLog, where callers send event IDs of their own    *)
(* and no cause of a state machine.  Each event an open                    *)
(* transaction has written is followed on that transaction's agenda: the   *)
(* links and chained events it has caused so far, those that wait there,   *)
(* and the emit that has still to bring its chained events and messages    *)
(* add up to what its transition has (Counted, Effects).  An event ID the  *)
(* library draws is new, so that the check of a link never finds an event  *)
(* and drops the link (SpecsInv).  An agenda that is empty has nothing     *)
(* coming, and the commit adds one transaction's events and messages to    *)
(* what was logged, with no reference in common (RefsApart).               *)
(***************************************************************************)
EXTENDS StateMachineRunProofs, StateMachineLog, FiniteSetTheorems, FunctionTheorems

(* The transition for the event leads from one state to its snapshot. *)
Leads(before, e) ==
  LET tr == TransitionFor[MachineOf[e.keys.entity], before.status, e.inner.type]
  IN  tr # NoTransition /\ e.snapshot = After(before, tr, e.id)

(***************************************************************************)
(* The events are numbered from 0 to the last sequence of the state, each  *)
(* number once, each event follows from the one before it, and the last    *)
(* one has left the state.                                                 *)
(***************************************************************************)
HistoryOf(evs, s) ==
  IF s = NoState THEN evs = {}
  ELSE /\ s.status # 0
       /\ \A e \in evs : e.seq <= s.lastSeq
       /\ \A n \in 0 .. s.lastSeq : \E e \in evs : e.seq = n
       /\ \A e, f \in evs : e.seq = f.seq => e = f
       /\ \A e \in evs : e.seq = s.lastSeq => e.snapshot = s
       /\ \A e \in evs : \/ e.seq = 0 /\ Leads(EmptyState(e.keys), e)
                         \/ \E f \in evs : e.seq = f.seq + 1 /\ Leads(f.snapshot, e)

LEMMA HistoryGrows ==
  ASSUME NEW evs \in SUBSET EventRow, NEW s \in State \cup {NoState}, HistoryOf(evs, s),
         NEW row \in EventRow, NEW before \in State,
         IF s = NoState THEN before = EmptyState(row.keys) ELSE before = s,
         Leads(before, row), row.seq = NextSequence(before), row.snapshot.status # 0
  PROVE  HistoryOf(evs \cup {row}, row.snapshot)
<1> DEFINE new == row.snapshot
           all == evs \cup {row}
<1>1. row.seq \in Nat /\ new \in State /\ new # NoState /\ row.id \in EventIds
      /\ MachineOf[row.keys.entity] \in Machines /\ row.inner.type \in EventTypes
      /\ before.status \in Statuses /\ row.keys \in Keys
      /\ \A e \in evs : e.seq \in Nat
  BY StateParts, ValuesAssumption, NoStateAssumption
  DEF EventRow, InnerEvent, Keys
<1>2. PICK tr \in Transition : new = After(before, tr, row.id)
  <2> DEFINE tr == TransitionFor[MachineOf[row.keys.entity], before.status, row.inner.type]
  <2>1. tr # NoTransition /\ new = After(before, tr, row.id)
    BY DEF Leads
  <2>2. tr \in Transition \cup {NoTransition}
    BY <1>1, TransitionType
  <2> HIDE DEF tr, new
  <2> QED BY <2>1, <2>2
<1>3. /\ before.status # 0 => new.lastSeq = before.lastSeq + 1 /\ row.seq = before.lastSeq + 1
      /\ before.status = 0 => new.lastSeq = before.lastSeq /\ row.seq = 0
  BY <1>1, <1>2, AfterSequence
<1> HIDE DEF new
<1>4. CASE s = NoState
  <2>1. evs = {} /\ before = EmptyState(row.keys) /\ before.status = 0 /\ before.lastSeq = 0
    BY <1>4 DEF HistoryOf, EmptyState
  <2>2. all = {row} /\ row.seq = 0 /\ new.lastSeq = 0
    BY <1>3, <2>1
  <2>3. Leads(EmptyState(row.keys), row)
    BY <2>1
  <2> HIDE DEF all
  <2>4. HistoryOf(all, new)
    BY <1>1, <2>2, <2>3 DEF HistoryOf, new
  <2> QED BY <2>4 DEF all, new
<1>5. CASE s # NoState
  <2>1. /\ before = s /\ s.status # 0 /\ s \in State /\ s.lastSeq \in Nat
        /\ row.seq = s.lastSeq + 1 /\ new.lastSeq = s.lastSeq + 1
    BY <1>3, <1>5, StateParts DEF HistoryOf
  <2>2. /\ \A e \in evs : e.seq <= s.lastSeq
        /\ \A n \in 0 .. s.lastSeq : \E e \in evs : e.seq = n
        /\ \A e, f \in evs : e.seq = f.seq => e = f
        /\ \A e \in evs : e.seq = s.lastSeq => e.snapshot = s
        /\ \A e \in evs : \/ e.seq = 0 /\ Leads(EmptyState(e.keys), e)
                          \/ \E f \in evs : e.seq = f.seq + 1 /\ Leads(f.snapshot, e)
    BY <1>5 DEF HistoryOf
  <2>3. \A e \in all : e.seq <= new.lastSeq
    BY <1>1, <2>1, <2>2
  <2>4. ASSUME NEW n \in 0 .. new.lastSeq
        PROVE  \E e \in all : e.seq = n
    <3>1. CASE n = new.lastSeq
      BY <2>1, <3>1
    <3>2. CASE n # new.lastSeq
      <4>1. n \in 0 .. s.lastSeq
        BY <2>1, <3>2
      <4> QED BY <2>2, <4>1
    <3> QED BY <3>1, <3>2
  <2>5. \A e, f \in all : e.seq = f.seq => e = f
    BY <1>1, <2>1, <2>2
  <2>6. \A e \in all : e.seq = new.lastSeq => e.snapshot = new
    BY <1>1, <2>1, <2>2 DEF new
  <2>7. \A e \in all : \/ e.seq = 0 /\ Leads(EmptyState(e.keys), e)
                       \/ \E f \in all : e.seq = f.seq + 1 /\ Leads(f.snapshot, e)
    <3>1. PICK f \in evs : f.seq = s.lastSeq /\ f.snapshot = s
      BY <2>1, <2>2
    <3>2. row.seq = f.seq + 1 /\ Leads(f.snapshot, row) /\ f \in all
      BY <2>1, <3>1
    <3> QED BY <2>2, <3>2
  <2> HIDE DEF all
  <2>8. HistoryOf(all, new)
    BY <1>1, <2>3, <2>4, <2>5, <2>6, <2>7 DEF HistoryOf, new
  <2> QED BY <2>8 DEF all, new
<1> QED BY <1>4, <1>5

LEMMA HistoryCounts ==
  ASSUME NEW evs \in SUBSET EventRow, NEW s \in State \cup {NoState}, HistoryOf(evs, s)
  PROVE  {e.seq : e \in evs} = 0 .. Cardinality(evs) - 1
<1>1. CASE s = NoState
  <2>1. evs = {} /\ Cardinality(evs) = 0
    BY <1>1, FS_EmptySet DEF HistoryOf
  <2> QED BY <2>1
<1>2. CASE s # NoState
  <2> DEFINE n   == s.lastSeq
             seq == [e \in evs |-> e.seq]
  <2>1. n \in Nat /\ \A e \in evs : e.seq \in Nat
    BY <1>2, StateParts DEF EventRow
  <2>2. /\ \A e \in evs : e.seq <= n
        /\ \A m \in 0 .. n : \E e \in evs : e.seq = m
        /\ \A e, f \in evs : e.seq = f.seq => e = f
    BY <1>2 DEF HistoryOf
  <2>3. {e.seq : e \in evs} = 0 .. n
    BY <2>1, <2>2
  <2> HIDE DEF n
  <2>4. seq \in Bijection(evs, 0 .. n)
    BY <2>1, <2>2 DEF Bijection, Injection, Surjection, IsInjective
  <2>5. ExistsBijection(evs, 0 .. n)
    BY <2>4 DEF ExistsBijection
  <2>6. IsFiniteSet(0 .. n) /\ Cardinality(0 .. n) = n + 1
    BY <2>1, FS_Interval
  <2>7. Cardinality(evs) = n + 1
    BY <2>4, <2>5, <2>6, Fun_ExistsBijSymmetric, FS_Bijection
  <2> QED BY <2>1, <2>3, <2>7
<1> QED BY <1>1, <1>2

-----------------------------------------------------------------------------
(* The events of an entity that transaction c will have left if it commits. *)
EventsIn(c, k) == {e \in events \cup Stored(c) : e.keys.entity = k}

RowLock ==
  \A c, d \in Clients : \A k \in Entities :
    txRows[c][k] # NoState /\ txRows[d][k] # NoState => c = d

CommittedHistories == \A k \in Entities : HistoryOf(EventsOf(k), rows[k])

OpenHistories ==
  \A c \in Clients : \A k \in Entities :
    txRows[c][k] # NoState => HistoryOf(EventsIn(c, k), txRows[c][k])

Histories == RowLock /\ CommittedHistories /\ OpenHistories

(***************************************************************************)
(* The state a run works on is the row its transaction sees, or the empty  *)
(* state when it sees none.                                                *)
(***************************************************************************)
Sees(written, seen, k) == IF written[k] # NoState THEN written[k] ELSE seen[k]

FreshRun(m, f, written, seen) ==
  \A i \in DOMAIN f : Live(f[i]) =>
    FreshState(m[f[i].act], Sees(written, seen, EntityOn(m, f[i])))

Fresh == \A c \in Clients : FreshRun(mem[c], agenda[c], txRows[c], snapRows[c])

HistoryGrounds == Grounds /\ RowInv /\ RunsAreLatest

LEMMA SameHistories ==
  ASSUME Histories, UNCHANGED <<rows, events, txRows>>,
         \A d \in Clients : Stored(d)' = Stored(d)
  PROVE  Histories'
<1>1. /\ \A k \in Entities : EventsOf(k)' = EventsOf(k)
      /\ \A d \in Clients : \A k \in Entities : EventsIn(d, k)' = EventsIn(d, k)
  BY DEF EventsOf, EventsIn
<1>2. RowLock'
  BY DEF Histories, RowLock
<1>3. CommittedHistories'
  BY <1>1 DEF Histories, CommittedHistories
<1>4. OpenHistories'
  BY <1>1 DEF Histories, OpenHistories
<1> QED BY <1>2, <1>3, <1>4 DEF Histories

LEMMA RollbackKeepsHistories ==
  ASSUME TypeInv, Histories, NEW c \in Clients, RollsBack(c)
  PROVE  Histories'
<1>1. /\ txRows' = [txRows EXCEPT ![c] = NoRows]
      /\ txEvents' = [txEvents EXCEPT ![c] = {}]
      /\ UNCHANGED <<rows, events>>
  BY DEF RollsBack, RollbackTx, ClearTx, tables
<1>2. \A k \in Entities : txRows'[c][k] = NoState
  BY <1>1, DBTypes DEF NoRows
<1>3. \A d \in Clients \ {c} : txRows'[d] = txRows[d] /\ Stored(d)' = Stored(d)
  BY <1>1, DBTypes, DroppedRun DEF RollsBack, Stored
<1>4. RowLock'
  BY <1>2, <1>3 DEF Histories, RowLock
<1>5. /\ \A k \in Entities : EventsOf(k)' = EventsOf(k)
      /\ \A d \in Clients \ {c} : \A k \in Entities : EventsIn(d, k)' = EventsIn(d, k)
  BY <1>1, <1>3 DEF EventsOf, EventsIn
<1>7. CommittedHistories'
  BY <1>1, <1>5 DEF Histories, CommittedHistories
<1>6. OpenHistories'
  BY <1>2, <1>3, <1>5 DEF Histories, OpenHistories
<1> QED BY <1>4, <1>6, <1>7 DEF Histories

LEMMA CommitKeepsHistories ==
  ASSUME TypeInv, RowInv, Histories, NEW c \in Clients, Commits(c)
  PROVE  Histories'
<1>1. /\ txRows' = [txRows EXCEPT ![c] = NoRows]
      /\ txEvents' = [txEvents EXCEPT ![c] = {}]
      /\ rows' = Overlay(rows, txRows[c]) /\ events' = events \cup txEvents[c]
      /\ Stored(c) = txEvents[c]
  BY DEF Commits, CommitTx, ClearTx, Stored
<1>2. \A k \in Entities : txRows'[c][k] = NoState
  BY <1>1, DBTypes DEF NoRows
<1>3. \A d \in Clients \ {c} : txRows'[d] = txRows[d] /\ Stored(d)' = Stored(d)
  BY <1>1, DBTypes, DroppedRun DEF Commits, Stored
<1>4. \A e \in Stored(c) : txRows[c][e.keys.entity] # NoState
  BY DEF RowInv, TxRowsAreSnapshots
<1>5. ASSUME NEW k \in Entities
      PROVE  HistoryOf(EventsOf(k), rows[k])'
  <2>1. CASE txRows[c][k] # NoState
    <3>1. rows'[k] = txRows[c][k] /\ EventsOf(k)' = EventsIn(c, k)
      BY <1>1, <2>1 DEF Overlay, EventsOf, EventsIn
    <3> QED BY <2>1, <3>1 DEF Histories, OpenHistories
  <2>2. CASE txRows[c][k] = NoState
    <3>1. rows'[k] = rows[k] /\ EventsOf(k)' = EventsOf(k)
      BY <1>1, <1>4, <2>2 DEF Overlay, EventsOf
    <3> QED BY <3>1 DEF Histories, CommittedHistories
  <2> QED BY <2>1, <2>2
<1>6. ASSUME NEW d \in Clients, NEW k \in Entities, txRows'[d][k] # NoState
      PROVE  HistoryOf(EventsIn(d, k), txRows[d][k])'
  <2>1. d # c /\ txRows'[d][k] = txRows[d][k] /\ txRows[c][k] = NoState
    BY <1>2, <1>3, <1>6 DEF Histories, RowLock
  <2>2. EventsIn(d, k)' = EventsIn(d, k)
    BY <1>1, <1>3, <1>4, <2>1 DEF EventsIn
  <2> QED BY <1>6, <2>1, <2>2 DEF Histories, OpenHistories
<1>7. RowLock'
  BY <1>2, <1>3 DEF Histories, RowLock
<1> QED BY <1>5, <1>6, <1>7 DEF Histories, CommittedHistories, OpenHistories

(***************************************************************************)
(* A transaction that has not written the row has no events of the entity. *)
(***************************************************************************)
LEMMA CurrentHistory ==
  ASSUME TypeInv, RowInv, Histories, NEW c \in Clients, NEW k \in Entities
  PROVE  HistoryOf(EventsIn(c, k), Sees(txRows[c], rows, k))
<1>1. CASE txRows[c][k] # NoState
  BY <1>1 DEF Histories, OpenHistories, Sees
<1>2. CASE txRows[c][k] = NoState
  <2>1. EventsIn(c, k) = EventsOf(k)
    BY <1>2 DEF EventsIn, EventsOf, RowInv, TxRowsAreSnapshots
  <2> QED BY <1>2, <2>1 DEF Histories, CommittedHistories, Sees
<1> QED BY <1>1, <1>2

LEMMA UpsertKeepsHistories ==
  ASSUME HistoryGrounds, Grounds', Histories, Fresh, Isolation = "Serializable",
         NEW c \in Clients, Upsert(c)
  PROVE  Histories'
<1>1. TypeInv /\ RowInv
  BY DEF HistoryGrounds, Grounds
<1>0. PICK k \in Entities : k = mem[c][Head(agenda[c]).act].keys.entity
  BY <1>1, Upserted
<1> DEFINE act == Head(agenda[c]).act
           old == mem[c][act]
           new == NewStateOf(c)
           p   == pending'[c]
           row == p.row
           now == Sees(txRows[c], rows, k)
<1>2. /\ agenda[c] # <<>> /\ Head(agenda[c]).op = "run"
      /\ old = StateOf(c) /\ old \in State /\ new \in State /\ new.keys = old.keys
      /\ new.status # 0 /\ k = old.keys.entity
      /\ \A d \in Clients \ {c} : pending'[d] = pending[d]
      /\ pending[c] = NoPending /\ p \in Pending /\ p # NoPending
      /\ row.snapshot = new /\ row.keys = new.keys /\ row.seq = NextSequence(old)
      /\ row.id = Head(agenda[c]).spec.id /\ row.inner = Head(agenda[c]).spec.inner
      /\ TransitionOf(c) # NoTransition
  BY <1>0, <1>1, Upserted
<1>3. row \in EventRow /\ row.keys.entity = k
  BY <1>2 DEF Pending
<1>4. Leads(old, row)
  BY <1>2 DEF Leads, TransitionOf, NewStateOf
<1>5. /\ RowWaitsFor(c, k) = {} /\ ~Conflicts(c, k)
      /\ txRows' = [txRows EXCEPT ![c][k] = new]
      /\ UNCHANGED <<rows, events, txEvents>>
  BY <1>2 DEF Upsert, UpsertRow, tables
<1>6. Stored(c)' = Stored(c) \cup {row}
  BY <1>2, <1>5 DEF Stored
<1>7. \A d \in Clients \ {c} : Stored(d)' = Stored(d)
  BY <1>2, <1>5 DEF Stored
<1> HIDE DEF p, row, new
<1>8. /\ txRows'[c][k] = new /\ \A j \in Entities \ {k} : txRows'[c][j] = txRows[c][j]
      /\ \A d \in Clients \ {c} : txRows'[d] = txRows[d]
  BY <1>1, <1>2, <1>5, DBTypes DEF Table
<1>9. new # NoState
  BY <1>2, NoStateAssumption
<1>10. \A d \in Clients \ {c} : txRows[d][k] = NoState
  BY <1>5 DEF RowWaitsFor
<1>11. RowLock'
  BY <1>8, <1>10 DEF Histories, RowLock
<1>12. CommittedHistories'
  BY <1>5 DEF Histories, CommittedHistories, EventsOf
<1>13. IF now = NoState THEN old = EmptyState(row.keys) ELSE old = now
  <2>1. now = Sees(txRows[c], snapRows[c], k)
    BY <1>5 DEF Conflicts, Sees
  <2>2. FreshState(old, Sees(txRows[c], snapRows[c], k))
    <3>1. Head(agenda[c]) = agenda[c][1] /\ 1 \in DOMAIN agenda[c]
      BY <1>1, <1>2, MemTypes, HeadTailProperties
    <3>2. FreshRun(mem[c], agenda[c], txRows[c], snapRows[c])
      BY DEF Fresh
    <3> QED BY <1>2, <3>1, <3>2 DEF FreshRun, Live, EntityOn
  <2>3. old # NoState /\ old.keys = row.keys
    BY <1>2, NoStateAssumption DEF row
  <2> HIDE DEF now, old
  <2> QED BY <2>1, <2>2, <2>3 DEF FreshState
<1>14. HistoryOf(EventsIn(c, k), now)
  BY <1>1, <1>2, CurrentHistory
<1>15. EventsIn(c, k) \in SUBSET EventRow /\ now \in State \cup {NoState}
  BY <1>1, <1>2, DBTypes DEF EventsIn, Sees, Table
<1>16. HistoryOf(EventsIn(c, k) \cup {row}, row.snapshot)
  <2> HIDE DEF now, old
  <2>1. row.seq = NextSequence(old) /\ row.snapshot.status # 0 /\ old \in State
    BY <1>2 DEF row
  <2> QED BY <1>3, <1>4, <1>13, <1>14, <1>15, <2>1, HistoryGrows
<1> HIDE DEF old, act
<1>17. EventsIn(c, k)' = EventsIn(c, k) \cup {row} /\ row.snapshot = txRows'[c][k]
  BY <1>2, <1>3, <1>5, <1>6, <1>8 DEF EventsIn, row
<1>18. \A j \in Entities \ {k} : EventsIn(c, j)' = EventsIn(c, j)
  BY <1>3, <1>5, <1>6 DEF EventsIn
<1>19. \A d \in Clients \ {c} : \A j \in Entities : EventsIn(d, j)' = EventsIn(d, j)
  BY <1>5, <1>7 DEF EventsIn
<1>20. ASSUME NEW d \in Clients, NEW j \in Entities, txRows'[d][j] # NoState
       PROVE  HistoryOf(EventsIn(d, j), txRows[d][j])'
  <2>1. CASE d = c /\ j = k
    BY <1>16, <1>17, <2>1
  <2>2. CASE d = c /\ j # k
    BY <1>8, <1>18, <1>20, <2>2 DEF Histories, OpenHistories
  <2>3. CASE d # c
    BY <1>8, <1>19, <1>20, <2>3 DEF Histories, OpenHistories
  <2> QED BY <2>1, <2>2, <2>3
<1>21. OpenHistories'
  BY <1>20 DEF OpenHistories
<1> QED BY <1>11, <1>12, <1>21 DEF Histories

LEMMA NextHistories ==
  ASSUME HistoryGrounds, Grounds', Histories, Fresh, Isolation = "Serializable",
         [Next]_vars
  PROVE  Histories'
<1>1. CASE UNCHANGED <<dbVars, agenda, pending, mem>>
  BY <1>1, SameHistories DEF dbVars, Stored
<1>2. ASSUME NEW c \in Clients, Moves(c)
      PROVE  Histories'
  <2>1. TypeInv /\ RowInv
    BY DEF HistoryGrounds, Grounds
  <2>2. CASE Open(c)
    BY <2>2, SameHistories DEF Open, BeginTx, tables, Stored
  <2>3. CASE RollsBack(c)
    BY <2>1, <2>3, RollbackKeepsHistories
  <2>4. CASE Commits(c)
    BY <2>1, <2>4, CommitKeepsHistories
  <2>5. CASE Checks(c) \/ LoadsNothing(c) \/ LoadsRow(c)
    BY <2>5, SameHistories DEF Checks, LoadsNothing, LoadsRow, dbVars, Stored
  <2>6. CASE Upsert(c)
    BY <2>6, UpsertKeepsHistories
  <2>7. CASE Inserts(c)
    <3>1. UNCHANGED <<rows, events, txRows>>
      BY <2>7 DEF Inserts, InsertEvent, tables
    <3>2. /\ txEvents' = [txEvents EXCEPT ![c] = @ \cup {pending[c].row}]
          /\ pending' = [pending EXCEPT ![c] = NoPending] /\ pending[c] # NoPending
      BY <2>7 DEF Inserts, InsertEvent
    <3>3. \A d \in Clients : Stored(d)' = Stored(d)
      BY <2>1, <3>2, DBTypes DEF Stored
    <3> QED BY <3>1, <3>3, SameHistories
  <2>8. CASE Emit(c)
    BY <2>8, SameHistories DEF Emit, HookWrites, tables, Stored
  <2> QED BY <1>2, <2>2, <2>3, <2>4, <2>5, <2>6, <2>7, <2>8 DEF Moves
<1> QED BY <1>1, <1>2, NextMoves DEF HistoryGrounds, Grounds

LEMMA SeesVisible ==
  ASSUME Isolation = "Serializable", NEW c, NEW k
  PROVE  VisibleRow(c, k) = Sees(txRows[c], snapRows[c], k)
BY DEF VisibleRow, Sees

LEMMA UpsertKeepsFresh ==
  ASSUME TypeInv, RunsAreLatest, Fresh, NEW c \in Clients, Upsert(c)
  PROVE  Fresh'
<1>0. PICK k \in Entities : k = mem[c][Head(agenda[c]).act].keys.entity
  BY Upserted
<1> DEFINE it  == Head(agenda[c])
           new == NewStateOf(c)
<1>1. /\ agenda[c] # <<>> /\ it.op = "run" /\ new \in State
      /\ agenda' = agenda /\ mem'[c][it.act] = new /\ new.keys.entity = k
      /\ \A i \in 1 .. Len(mem[c]) : i # it.act => mem'[c][i] = mem[c][i]
      /\ \A d \in Clients \ {c} : mem'[d] = mem[d]
  BY <1>0, Upserted
<1>2. txRows' = [txRows EXCEPT ![c][k] = new] /\ UNCHANGED snapRows
  BY <1>1 DEF Upsert, UpsertRow
<1> HIDE DEF new
<1>3. /\ txRows'[c][k] = new /\ \A j \in Entities \ {k} : txRows'[c][j] = txRows[c][j]
      /\ \A d \in Clients \ {c} : txRows'[d] = txRows[d]
  BY <1>2, DBTypes DEF Table
<1>4. it = agenda[c][1] /\ 1 \in DOMAIN agenda[c] /\ Live(it) /\ EntityOn(mem[c], it) = k
  BY <1>0, <1>1, MemTypes, HeadTailProperties DEF Live, EntityOn
<1>5. ASSUME NEW i \in DOMAIN agenda[c], Live(agenda[c][i])
      PROVE  FreshState(mem'[c][agenda[c][i].act],
                        Sees(txRows'[c], snapRows'[c], EntityOn(mem'[c], agenda[c][i])))
  <2>1. CASE agenda[c][i].act = it.act
    <3>1. mem'[c][agenda[c][i].act] = new /\ EntityOn(mem'[c], agenda[c][i]) = k
      BY <1>1, <2>1 DEF EntityOn
    <3> QED BY <1>1, <1>3, <3>1, NoStateAssumption DEF FreshState, Sees
  <2>2. CASE agenda[c][i].act # it.act
    <3>1. /\ mem'[c][agenda[c][i].act] = mem[c][agenda[c][i].act]
          /\ EntityOn(mem'[c], agenda[c][i]) = EntityOn(mem[c], agenda[c][i])
          /\ EntityOn(mem[c], agenda[c][i]) \in Entities
      BY <1>1, <1>5, <2>2, LiveTypes DEF EntityOn
    <3>2. EntityOn(mem[c], agenda[c][i]) # k
      BY <1>4, <1>5, <2>2, OneRunOfEntity
    <3>3. FreshState(mem[c][agenda[c][i].act],
                     Sees(txRows[c], snapRows[c], EntityOn(mem[c], agenda[c][i])))
      BY <1>5 DEF Fresh, FreshRun
    <3> QED BY <1>2, <1>3, <3>1, <3>2, <3>3 DEF Sees
  <2> QED BY <2>1, <2>2
<1>6. FreshRun(mem'[c], agenda'[c], txRows'[c], snapRows'[c])
  BY <1>1, <1>5 DEF FreshRun
<1>7. \A d \in Clients \ {c} : FreshRun(mem'[d], agenda'[d], txRows'[d], snapRows'[d])
  BY <1>1, <1>2, <1>3 DEF Fresh
<1> QED BY <1>6, <1>7 DEF Fresh

LEMMA NextFresh ==
  ASSUME HistoryGrounds, Fresh, Isolation = "Serializable", [Next]_vars
  PROVE  Fresh'
<1>1. CASE UNCHANGED <<dbVars, agenda, pending, mem>>
  BY <1>1 DEF Fresh, dbVars
<1>2. ASSUME NEW c \in Clients, Moves(c)
      PROVE  Fresh'
  <2>1. TypeInv /\ KeysInv /\ RunsAreLatest /\ Grounds
    BY DEF HistoryGrounds, Grounds
  <2>2. CASE Upsert(c)
    BY <2>1, <2>2, UpsertKeepsFresh
  <2>3. CASE ~Upsert(c)
    <3>1. \A d \in Clients \ {c} : /\ agenda'[d] = agenda[d] /\ mem'[d] = mem[d]
                                   /\ txRows'[d] = txRows[d] /\ snapRows'[d] = snapRows[d]
      BY <1>2, <2>1, <2>3, OthersKeep
    <3>2. ASSUME NEW i \in DOMAIN agenda'[c], Live(agenda'[c][i])
          PROVE  FreshState(mem'[c][agenda'[c][i].act],
                            Sees(txRows'[c], snapRows'[c], EntityOn(mem'[c], agenda'[c][i])))
      <4> DEFINE x == agenda'[c][i]
      <4>1. txRows'[c] = txRows[c] /\ snapRows'[c] = snapRows[c]
        BY <1>2, <2>1, <2>3, <3>2, LiveKeepsRows
      <4>2. ASSUME NEW j \in DOMAIN agenda[c], Live(agenda[c][j]),
                   x.act = agenda[c][j].act
            PROVE  FreshState(mem'[c][x.act],
                              Sees(txRows'[c], snapRows'[c], EntityOn(mem'[c], x)))
        <5>1. FreshState(mem[c][x.act], Sees(txRows[c], snapRows[c], EntityOn(mem[c], x)))
          BY <4>2 DEF Fresh, FreshRun, EntityOn
        <5>2. mem'[c][x.act] = mem[c][x.act]
          <6>1. x.act \in 1 .. Len(mem[c])
            BY <2>1, <4>2, LiveTypes
          <6> QED BY <1>2, <2>1, <2>3, <3>2, <6>1, LiveKeepsRows
        <5> QED BY <4>1, <5>1, <5>2 DEF EntityOn
      <4>3. CASE \E j \in DOMAIN agenda[c] : x = agenda[c][j]
        BY <3>2, <4>2, <4>3
      <4>4. CASE /\ LoadsNothing(c) \/ LoadsRow(c)
                 /\ x.op = "run" /\ x.act = Len(mem[c]) + 1
        <5> DEFINE s == mem'[c][x.act]
        <5>1. FreshState(s, VisibleRow(c, s.keys.entity))
          BY <2>1, <4>4, LoadedState
        <5>2. EntityOn(mem'[c], x) = s.keys.entity
          BY DEF EntityOn
        <5> HIDE DEF s
        <5> QED BY <4>1, <5>1, <5>2, SeesVisible DEF s
      <4>5. CASE Inserts(c) /\ x = EmitOf(pending[c])
        <5>1. /\ Head(agenda[c]).op = "run" /\ Head(agenda[c]).act = pending[c].act
              /\ agenda[c] # <<>>
          BY <2>1, <4>5 DEF Inserts, Grounds, PendingInv, PendingOnTop, IsOf
        <5>2. Head(agenda[c]) = agenda[c][1] /\ 1 \in DOMAIN agenda[c]
          BY <2>1, <5>1, MemTypes, HeadTailProperties
        <5>3. x.act = pending[c].act
          BY <4>5 DEF EmitOf
        <5> QED BY <4>2, <5>1, <5>2, <5>3 DEF Live
      <4>6. CASE /\ Emit(c) /\ Head(agenda[c]).op = "emit"
                 /\ x.op = "run" /\ x.act = Head(agenda[c]).act
        <5>1. agenda[c] # <<>>
          BY <4>6 DEF Emit, Next0
        <5>2. Head(agenda[c]) = agenda[c][1] /\ 1 \in DOMAIN agenda[c]
          BY <2>1, <5>1, MemTypes, HeadTailProperties
        <5> QED BY <4>2, <4>6, <5>2 DEF Live
      <4> QED BY <1>2, <2>1, <3>2, <4>3, <4>4, <4>5, <4>6, LiveItems DEF NewItem
    <3>3. FreshRun(mem'[c], agenda'[c], txRows'[c], snapRows'[c])
      BY <3>2 DEF FreshRun
    <3> QED BY <3>1, <3>3 DEF Fresh
  <2> QED BY <2>2, <2>3
<1> QED BY <1>1, <1>2, NextMoves DEF HistoryGrounds, Grounds

(***************************************************************************)
(* The argument as a whole: under Serializable, as long as runs keep the   *)
(* last state loaded.                                                      *)
(***************************************************************************)
HistoryInv == Histories /\ Fresh

LEMMA InitHistories == Init => HistoryInv
<1>1. \A k \in Entities, c \in Clients :
        Init => /\ rows[k] = NoState /\ txRows[c][k] = NoState /\ EventsOf(k) = {}
                /\ agenda[c] = <<>>
  BY DEF Init, DBInit, NoRows, EventsOf
<1>2. \A k \in Entities : Init => rows[k] = NoState /\ EventsOf(k) = {}
  BY DEF Init, DBInit, NoRows, EventsOf
<1>3. Init => Histories
  BY <1>1, <1>2 DEF Histories, RowLock, CommittedHistories, OpenHistories, HistoryOf
<1>4. Init => Fresh
  BY <1>1 DEF Init, Fresh, FreshRun
<1> QED BY <1>3, <1>4 DEF HistoryInv

LEMMA NextHistoryInv ==
  ASSUME Isolation = "Serializable", HistoryInv, HistoryGrounds, Grounds', [Next]_vars
  PROVE  HistoryInv'
BY NextHistories, NextFresh DEF HistoryInv

LEMMA HistoriesContiguous ==
  ASSUME TypeInv, Histories
  PROVE  SequencesContiguous
<1>1. ASSUME NEW k \in Entities
      PROVE  {e.seq : e \in EventsOf(k)} = 0 .. Cardinality(EventsOf(k)) - 1
  <2>1. HistoryOf(EventsOf(k), rows[k])
    BY DEF Histories, CommittedHistories
  <2>2. EventsOf(k) \in SUBSET EventRow /\ rows[k] \in State \cup {NoState}
    BY DEF EventsOf, TypeInv, DBTypeOK, Table
  <2> QED BY <2>1, <2>2, HistoryCounts
<1> QED BY <1>1 DEF SequencesContiguous

LEMMA HistoriesReplay ==
  ASSUME TypeInv, Histories
  PROVE  LogReplays
<1>1. ASSUME NEW k \in Entities
      PROVE  /\ HistoryOf(EventsOf(k), rows[k])
             /\ rows[k] = NoState => EventsOf(k) = {}
             /\ rows[k] # NoState => rows[k] \in State /\ rows[k].lastSeq \in Nat
             /\ \A e \in EventsOf(k) : e.seq \in Nat
  <2>1. HistoryOf(EventsOf(k), rows[k])
    BY DEF Histories, CommittedHistories
  <2>2. rows[k] \in State \cup {NoState}
    BY DEF TypeInv, DBTypeOK, Table
  <2>3. \A e \in EventsOf(k) : e.seq \in Nat
    BY DEF TypeInv, DBTypeOK, EventsOf, EventRow
  <2> QED BY <2>1, <2>2, <2>3, StateParts DEF HistoryOf
<1>2. ASSUME NEW e \in events
      PROVE  \E s \in StatesBefore(e) : Leads(s, e)
  <2> DEFINE k == e.keys.entity
  <2>1. k \in Entities /\ e \in EventsOf(k)
    BY DEF TypeInv, DBTypeOK, EventRow, Keys, EventsOf
  <2>2. rows[k] # NoState
    BY <1>1, <2>1
  <2>3. \/ e.seq = 0 /\ Leads(EmptyState(e.keys), e)
        \/ \E f \in EventsOf(k) : e.seq = f.seq + 1 /\ Leads(f.snapshot, e)
    BY <1>1, <2>1, <2>2 DEF HistoryOf
  <2>4. CASE e.seq = 0 /\ Leads(EmptyState(e.keys), e)
    BY <2>4 DEF StatesBefore
  <2>5. ASSUME NEW f \in EventsOf(k), e.seq = f.seq + 1, Leads(f.snapshot, e)
        PROVE  \E s \in StatesBefore(e) : Leads(s, e)
    <3>1. f.seq \in Nat
      BY <1>1, <2>1
    <3>2. e.seq # 0 /\ f.seq = e.seq - 1
      BY <2>5, <3>1
    <3>3. f.snapshot \in StatesBefore(e)
      BY <3>2 DEF StatesBefore
    <3> QED BY <2>5, <3>3
  <2> QED BY <2>3, <2>4, <2>5
<1>3. ASSUME NEW k \in Entities, NEW e \in EventsOf(k),
             \A f \in EventsOf(k) : f.seq <= e.seq
      PROVE  rows[k] = e.snapshot
  <2>1. rows[k] # NoState
    BY <1>1, <1>3
  <2>2. e.seq <= rows[k].lastSeq /\ rows[k].lastSeq \in Nat /\ e.seq \in Nat
    BY <1>1, <1>3, <2>1 DEF HistoryOf
  <2>3. PICK f \in EventsOf(k) : f.seq = rows[k].lastSeq
    BY <1>1, <2>1, <2>2 DEF HistoryOf
  <2>4. e.seq = rows[k].lastSeq
    BY <1>3, <2>2, <2>3
  <2> QED BY <1>1, <1>3, <2>1, <2>4 DEF HistoryOf
<1> QED BY <1>2, <1>3 DEF LogReplays, Leads

LEMMA RowInvariant == Spec => []RowInv
<1>1. Init => RowInv
  BY DEF Init, DBInit, NoRows, RowInv, RowsAreSnapshots, TxRowsAreSnapshots, EventsOf, Stored
<1>2. TypeInv /\ PendingInv /\ RowInv /\ [Next]_vars => RowInv'
  BY NextRowInv
<1> QED BY <1>1, <1>2, TypeInvariant, PTL DEF Spec

LEMMA HistoryInvariant ==
  ASSUME Isolation = "Serializable",
         NEW CONSTANT reached, LinksGoForward(reached)
  PROVE  Spec => []HistoryInv
<1>1. HistoryInv /\ Grounds /\ Grounds' /\ RowInv /\ RunsAreLatest /\ [Next]_vars
        => HistoryInv'
  BY NextHistoryInv DEF HistoryGrounds
<1>2. Spec => []RunsAreLatest
  BY RunsStayLatest
<1> QED BY <1>1, <1>2, InitHistories, GroundsInvariant, RowInvariant, PTL DEF Spec

(***************************************************************************)
(* Under Serializable the events of an entity are numbered without a gap   *)
(* or a repeat, whoever runs them and whatever fails (nextStateEvent).     *)
(***************************************************************************)
THEOREM SequencesAreContiguous ==
  ASSUME Isolation = "Serializable",
         NEW CONSTANT reached, LinksGoForward(reached)
  PROVE  Spec => []SequencesContiguous
<1>1. HistoryInv /\ Grounds => SequencesContiguous
  BY HistoriesContiguous DEF HistoryInv, Grounds
<1>2. Spec => []HistoryInv
  BY HistoryInvariant
<1> QED BY <1>1, <1>2, GroundsInvariant, PTL

(***************************************************************************)
(* Under Serializable no update is lost: each event's snapshot is what its *)
(* transition makes of the one before it, and the row is the last one.     *)
(***************************************************************************)
THEOREM LogsReplay ==
  ASSUME Isolation = "Serializable",
         NEW CONSTANT reached, LinksGoForward(reached)
  PROVE  Spec => []LogReplays
<1>1. HistoryInv /\ Grounds => LogReplays
  BY HistoriesReplay DEF HistoryInv, Grounds
<1>2. Spec => []HistoryInv
  BY HistoryInvariant
<1> QED BY <1>1, <1>2, GroundsInvariant, PTL

-----------------------------------------------------------------------------
(***************************************************************************)
(* A history as a sequence: the entry of an event stands at its sequence   *)
(* number, counted from one.                                               *)
(***************************************************************************)
EntryOf(e) == Entry(e.id, e.inner, e.snapshot)

LEMMA InOrderParts ==
  ASSUME NEW evs \in SUBSET EventRow, NEW s \in State \cup {NoState}, HistoryOf(evs, s)
  PROVE  /\ InOrder(evs) \in Seq({EntryOf(e) : e \in EventRow})
         /\ \A e \in evs : /\ e.seq \in Nat /\ e.seq + 1 \in 1 .. Len(InOrder(evs))
                           /\ InOrder(evs)[e.seq + 1] = EntryOf(e)
         /\ \A i \in 1 .. Len(InOrder(evs)) : \E e \in evs : e.seq + 1 = i
         /\ Len(InOrder(evs)) \in Nat
<1> DEFINE seqs      == {e.seq : e \in evs}
           Rank(n)   == Cardinality({m \in seqs : m <= n})
           chosen(i) == CHOOSE e \in evs : Rank(e.seq) = i
<1>1. InOrder(evs) = [i \in 1 .. Cardinality(seqs) |-> EntryOf(chosen(i))]
  BY DEF InOrder, EntryOf
<1>2. PICK n \in Nat \cup {-1} : /\ seqs = 0 .. n /\ Cardinality(seqs) = n + 1
                                 /\ \A e, f \in evs : e.seq = f.seq => e = f
  <2>1. CASE s = NoState
    <3>1. evs = {}
      BY <2>1 DEF HistoryOf
    <3>2. seqs = {} /\ 0 .. -1 = {}
      BY <3>1
    <3>3. Cardinality(seqs) = 0
      BY <3>2, FS_EmptySet
    <3> HIDE DEF seqs
    <3> QED BY <3>1, <3>2, <3>3
  <2>2. CASE s # NoState
    <3>1. s.lastSeq \in Nat /\ \A e \in evs : e.seq \in Nat
      BY <2>2, StateParts DEF EventRow
    <3>2. /\ \A e \in evs : e.seq <= s.lastSeq
          /\ \A m \in 0 .. s.lastSeq : \E e \in evs : e.seq = m
          /\ \A e, f \in evs : e.seq = f.seq => e = f
      BY <2>2 DEF HistoryOf
    <3>3. seqs = 0 .. s.lastSeq
      BY <3>1, <3>2
    <3>4. Cardinality(0 .. s.lastSeq) = s.lastSeq + 1
      BY <3>1, FS_Interval
    <3> HIDE DEF seqs
    <3> QED BY <3>1, <3>2, <3>3, <3>4
  <2> QED BY <2>1, <2>2
<1>3. \A e \in evs : e.seq \in 0 .. n
  BY <1>2
<1>4. \A m \in 0 .. n : \E e \in evs : e.seq = m
  BY <1>2
<1> HIDE DEF seqs
<1>5. ASSUME NEW m \in 0 .. n
      PROVE  Rank(m) = m + 1
  <2>1. {j \in seqs : j <= m} = 0 .. m
    BY <1>2
  <2>2. Cardinality(0 .. m) = m + 1
    BY FS_Interval
  <2> QED BY <2>1, <2>2
<1> HIDE DEF Rank
<1>6. ASSUME NEW e \in evs
      PROVE  chosen(e.seq + 1) = e
  <2>1. Rank(e.seq) = e.seq + 1
    BY <1>3, <1>5
  <2>2. ASSUME NEW f \in evs, Rank(f.seq) = e.seq + 1
        PROVE  f = e
    <3>1. f.seq + 1 = e.seq + 1 /\ f.seq \in 0 .. n /\ e.seq \in 0 .. n
      BY <1>3, <1>5, <2>2
    <3>2. f.seq = e.seq
      BY <3>1
    <3> QED BY <1>2, <3>2
  <2>3. chosen(e.seq + 1) \in evs /\ Rank(chosen(e.seq + 1).seq) = e.seq + 1
    BY <2>1
  <2> QED BY <2>2, <2>3
<1> HIDE DEF chosen
<1>7. \A i \in 1 .. n + 1 : \E e \in evs : e.seq + 1 = i
  <2>1. \A i \in 1 .. n + 1 : i - 1 \in 0 .. n /\ i - 1 + 1 = i
    BY <1>2
  <2> QED BY <1>4, <2>1
<1>8. \A i \in 1 .. n + 1 : EntryOf(chosen(i)) \in {EntryOf(e) : e \in EventRow}
  BY <1>6, <1>7
<1>9. n + 1 \in Nat
  BY <1>2
<1>10. InOrder(evs) = [i \in 1 .. n + 1 |-> EntryOf(chosen(i))]
  BY <1>1, <1>2
<1> HIDE DEF EntryOf
<1>11. InOrder(evs) \in Seq({EntryOf(e) : e \in EventRow}) /\ Len(InOrder(evs)) = n + 1
  BY <1>8, <1>9, <1>10
<1>12. \A e \in evs : e.seq \in Nat /\ e.seq + 1 \in 1 .. n + 1
  BY <1>2, <1>3
<1>13. \A e \in evs : InOrder(evs)[e.seq + 1] = EntryOf(e)
  BY <1>6, <1>10, <1>12
<1> QED BY <1>7, <1>9, <1>11, <1>12, <1>13

LEMMA LeadsKeepsKeys ==
  ASSUME NEW e \in EventRow, NEW before \in State, Leads(before, e)
  PROVE  /\ e.snapshot.keys = before.keys
         /\ LET tr == TransitionFor[MachineOf[e.keys.entity], before.status, e.inner.type]
            IN  tr # NoTransition /\ e.snapshot = After(before, tr, e.id)
<1> DEFINE tr == TransitionFor[MachineOf[e.keys.entity], before.status, e.inner.type]
<1>1. tr # NoTransition /\ e.snapshot = After(before, tr, e.id)
  BY DEF Leads
<1>2. MachineOf[e.keys.entity] \in Machines /\ e.inner.type \in EventTypes
      /\ e.id \in EventIds /\ before.status \in Statuses
  BY StateParts, ValuesAssumption DEF EventRow, InnerEvent, Keys
<1>3. tr \in Transition
  BY <1>1, <1>2, TransitionType
<1> HIDE DEF tr
<1>4. e.snapshot.keys = before.keys
  BY <1>1, <1>2, <1>3, AfterKeys
<1> QED BY <1>1, <1>4 DEF tr

(***************************************************************************)
(* An entry of a history is new to it and follows from the one before it.  *)
(***************************************************************************)
LEMMA EntriesFollow ==
  ASSUME NEW k \in Entities, NEW evs \in SUBSET EventRow, NEW s \in State \cup {NoState},
         HistoryOf(evs, s), \A e \in evs : e.keys.entity = k,
         \A e, f \in evs : e.id = f.id => e = f,
         NEW i \in 1 .. Len(InOrder(evs))
  PROVE  FollowsHistory(k, SubSeq(InOrder(evs), 1, i - 1), InOrder(evs)[i])
<1> DEFINE l      == InOrder(evs)
           before == SubSeq(l, 1, i - 1)
<1>1. /\ l \in Seq({EntryOf(e) : e \in EventRow}) /\ Len(l) \in Nat
      /\ \A e \in evs : /\ e.seq \in Nat /\ e.seq + 1 \in 1 .. Len(l)
                        /\ l[e.seq + 1] = EntryOf(e)
      /\ \A j \in 1 .. Len(l) : \E e \in evs : e.seq + 1 = j
  BY InOrderParts
<1> HIDE DEF l
<1>2. i \in 1 .. Len(l) /\ i \in Nat /\ i - 1 \in Nat
  BY <1>1 DEF l
<1>3. PICK e \in evs : e.seq + 1 = i
  BY <1>1, <1>2
<1>4. l[i] = EntryOf(e) /\ e.keys.entity = k /\ e \in EventRow
  BY <1>1, <1>3
<1>5. /\ Len(before) = i - 1 /\ DOMAIN before = 1 .. i - 1
      /\ \A j \in 1 .. i - 1 : before[j] = l[j] /\ j \in 1 .. Len(l)
  <2>1. \A j \in 1 .. i - 1 : j \in 1 .. Len(l) /\ l[j] \in {EntryOf(x) : x \in EventRow}
    BY <1>1, <1>2
  <2>2. /\ before \in Seq({EntryOf(x) : x \in EventRow})
        /\ Len(before) = IF 1 <= i - 1 THEN i - 1 - 1 + 1 ELSE 0
        /\ \A j \in 1 .. i - 1 - 1 + 1 : before[j] = l[1 + j - 1]
    BY <1>2, <2>1, SubSeqProperties
  <2> HIDE DEF before
  <2>3. Len(before) = i - 1 /\ DOMAIN before = 1 .. i - 1
    BY <1>2, <2>2
  <2>4. \A j \in 1 .. i - 1 : before[j] = l[j]
    BY <1>2, <2>2
  <2> QED BY <2>1, <2>3, <2>4
<1> HIDE DEF before
<1>6. ASSUME NEW j \in DOMAIN before
      PROVE  before[j].id # l[i].id
  <2>1. j \in 1 .. i - 1 /\ j \in 1 .. Len(l) /\ before[j] = l[j]
    BY <1>5
  <2>2. PICK f \in evs : f.seq + 1 = j
    BY <1>1, <2>1
  <2>3. before[j] = EntryOf(f)
    BY <1>1, <2>1, <2>2
  <2>5. before[j].id = f.id /\ l[i].id = e.id
    <3>1. EntryOf(f).id = f.id /\ EntryOf(e).id = e.id
      BY DEF EntryOf, Entry
    <3> QED BY <1>4, <2>3, <3>1
  <2>4. f.seq # e.seq
    BY <1>1, <1>2, <1>3, <2>1, <2>2
  <2> QED BY <2>2, <1>3, <2>4, <2>5
<1>7. s # NoState /\ \A f \in evs : f.snapshot \in State /\ f.keys \in Keys
  BY DEF HistoryOf, EventRow
<1> DEFINE last == IF before = <<>> THEN EmptyState(l[i].state.keys) ELSE Last(before).state
<1>8. Leads(last, e) /\ last \in State
  <2>1. CASE e.seq = 0 /\ Leads(EmptyState(e.keys), e)
    <3>1. EmptyState(e.keys) \in State /\ EmptyState(e.keys).keys = e.keys
      BY <1>7, EmptyStateType DEF EmptyState
    <3>2. e.snapshot.keys = e.keys
      BY <1>4, <2>1, <3>1, LeadsKeepsKeys
    <3>3. l[i].state = e.snapshot
      BY <1>4 DEF EntryOf, Entry
    <3>4. before = <<>>
      <4>1. i - 1 = 0
        BY <1>3, <2>1
      <4> QED BY <1>1, <1>2, <4>1, SubSeqEmpty DEF before
    <3> QED BY <2>1, <3>1, <3>2, <3>3, <3>4
  <2>2. ASSUME NEW f \in evs, e.seq = f.seq + 1, Leads(f.snapshot, e)
        PROVE  Leads(last, e) /\ last \in State
    <3>1. i - 1 = f.seq + 1 /\ i - 1 \in 1 .. i - 1
      BY <1>1, <1>2, <1>3, <2>2
    <3>2. before # <<>> /\ Last(before) = EntryOf(f)
      <4>1. before[i - 1] = l[i - 1] /\ Len(before) = i - 1
        BY <1>5, <3>1
      <4>2. l[i - 1] = EntryOf(f)
        BY <1>1, <3>1
      <4>3. Len(before) # 0
        BY <1>2, <3>1, <4>1
      <4> QED BY <4>1, <4>2, <4>3, EmptySeq DEF Last
    <3>3. last = f.snapshot
      BY <3>2 DEF EntryOf, Entry
    <3> QED BY <1>7, <2>2, <3>3
  <2> QED BY <1>7, <2>1, <2>2 DEF HistoryOf
<1>9. LET tr == TransitionFor[MachineOf[k], last.status, l[i].inner.type]
      IN  tr # NoTransition /\ l[i].state = After(last, tr, l[i].id)
  <2>1. l[i].inner = e.inner /\ l[i].state = e.snapshot /\ l[i].id = e.id
    BY <1>4 DEF EntryOf, Entry
  <2> HIDE DEF last
  <2> QED BY <1>4, <1>8, <2>1, LeadsKeepsKeys
<1>10. FollowsHistory(k, before, l[i])
  BY <1>6, <1>9 DEF FollowsHistory
<1> QED BY <1>10 DEF before, l

LEMMA HistoriesExtend ==
  ASSUME NEW old \in SUBSET EventRow, NEW evs \in SUBSET EventRow, old \subseteq evs,
         NEW r \in State \cup {NoState}, HistoryOf(old, r),
         NEW s \in State \cup {NoState}, HistoryOf(evs, s)
  PROVE  IsPrefix(InOrder(old), InOrder(evs))
<1> DEFINE a == InOrder(old)
           b == InOrder(evs)
           S == {EntryOf(e) : e \in EventRow}
<1>1. /\ a \in Seq(S) /\ Len(a) \in Nat
      /\ \A e \in old : e.seq + 1 \in 1 .. Len(a) /\ a[e.seq + 1] = EntryOf(e)
      /\ \A i \in 1 .. Len(a) : \E e \in old : e.seq + 1 = i
  BY InOrderParts
<1>2. /\ b \in Seq(S) /\ Len(b) \in Nat
      /\ \A e \in evs : e.seq + 1 \in 1 .. Len(b) /\ b[e.seq + 1] = EntryOf(e)
  BY InOrderParts
<1> HIDE DEF a, b, S
<1>3. \A i \in 1 .. Len(a) : i \in 1 .. Len(b) /\ a[i] = b[i]
  BY <1>1, <1>2
<1>4. Len(a) <= Len(b)
  <2>1. CASE Len(a) = 0
    BY <1>2, <2>1
  <2>2. CASE Len(a) # 0
    <3>1. Len(a) \in 1 .. Len(a)
      BY <1>1, <2>2
    <3>2. Len(a) \in 1 .. Len(b)
      BY <1>3, <3>1
    <3> QED BY <1>2, <3>2
  <2> QED BY <2>1, <2>2
<1>5. SubSeq(a, 1, Len(a)) = SubSeq(b, 1, Len(a))
  <2> DEFINE n == Len(a)
             x == SubSeq(a, 1, n)
             y == SubSeq(b, 1, n)
  <2>1. n \in Nat /\ \A i \in 1 .. n : a[i] \in S /\ b[i] \in S
    BY <1>1, <1>2, <1>3
  <2> HIDE DEF n
  <2>2. /\ x \in Seq(S) /\ Len(x) = IF 1 <= n THEN n - 1 + 1 ELSE 0
        /\ \A i \in 1 .. n - 1 + 1 : x[i] = a[1 + i - 1]
    BY <2>1, SubSeqProperties
  <2>3. /\ y \in Seq(S) /\ Len(y) = IF 1 <= n THEN n - 1 + 1 ELSE 0
        /\ \A i \in 1 .. n - 1 + 1 : y[i] = b[1 + i - 1]
    BY <2>1, SubSeqProperties
  <2> HIDE DEF x, y
  <2>4. Len(x) = n /\ Len(y) = n
    BY <2>1, <2>2, <2>3
  <2>5. \A i \in 1 .. n : x[i] = a[i] /\ y[i] = b[i]
    BY <2>1, <2>2, <2>3
  <2>6. \A i \in 1 .. n : x[i] = y[i]
    BY <1>3, <2>5 DEF n
  <2>7. x = y
    BY <2>2, <2>3, <2>4, <2>6, SeqEqual
  <2> QED BY <2>7 DEF x, y, n
<1> QED BY <1>4, <1>5 DEF IsPrefix, a, b

-----------------------------------------------------------------------------
(***************************************************************************)
(* No two events have the same reference, committed or not: an insert      *)
(* waits for the transactions that have written its ID.                    *)
(***************************************************************************)
RefsUnique == \A e, f \in Written : RefOf(e) = RefOf(f) => e = f

LEMMA NextRefsUnique ==
  ASSUME TypeInv, RefsUnique, [Next]_vars
  PROVE  RefsUnique' /\ events \subseteq events'
<1> USE DEF RefsUnique
<1>1. CASE UNCHANGED dbVars
  BY <1>1 DEF dbVars, Written
<1>2. ASSUME NEW c \in Clients, Moves(c), ~UNCHANGED dbVars
      PROVE  RefsUnique' /\ events \subseteq events'
  <2>1. DOMAIN txEvents = Clients
    BY DEF TypeInv, DBTypeOK
  <2>2. ASSUME UNCHANGED <<events, txEvents>>
        PROVE  RefsUnique' /\ events \subseteq events'
    BY <2>2 DEF Written
  <2>3. CASE Open(c) \/ Upsert(c) \/ Emit(c)
    BY <2>2, <2>3 DEF Open, BeginTx, Upsert, UpsertRow, Emit, HookWrites, tables
  <2>4. CASE RollsBack(c) \/ Commits(c)
    <3>1. /\ txEvents' = [txEvents EXCEPT ![c] = {}]
          /\ events' \in {events, events \cup txEvents[c]}
      BY <2>4 DEF RollsBack, Commits, RollbackTx, CommitTx, ClearTx, tables
    <3>2. Written' \subseteq Written
      BY <2>1, <3>1 DEF Written
    <3> QED BY <3>1, <3>2
  <2>5. CASE Inserts(c)
    <3> DEFINE row == pending[c].row
    <3>1. /\ ~RefTaken(c, RefOf(row)) /\ EventWaitsFor(c, RefOf(row)) = {}
          /\ txEvents' = [txEvents EXCEPT ![c] = @ \cup {row}] /\ UNCHANGED events
      BY <2>5 DEF Inserts, InsertEvent, tables
    <3> HIDE DEF row
    <3>2. Written' = Written \cup {row}
      BY <2>1, <3>1 DEF Written
    <3>3. \A e \in Written : RefOf(e) # RefOf(row)
      BY <3>1 DEF Written, RefTaken, EventWaitsFor, Refs
    <3> QED BY <3>1, <3>2, <3>3
  <2>6. CASE Checks(c) \/ LoadsNothing(c) \/ LoadsRow(c)
    BY <1>2, <2>6 DEF Checks, LoadsNothing, LoadsRow
  <2> QED BY <1>2, <2>3, <2>4, <2>5, <2>6 DEF Moves
<1> QED BY <1>1, <1>2, NextMoves

LEMMA RepliesGrow ==
  ASSUME [Next]_vars
  PROVE  replies \subseteq replies'
<1>1. ASSUME NEW c \in Clients, Call(c) \/ Resend(c) \/ Step(c) \/ Fault(c)
      PROVE  replies \subseteq replies'
  <2>1. CASE Call(c) \/ Resend(c) \/ Fault(c)
    BY <2>1 DEF Call, Resend, Ask, Fault, CallbackFails, Crash, CommitUnacked, Abort
  <2>2. CASE Step(c)
    BY <2>2 DEF Step, Open, InvalidSpec, UniqueCheck, Load, RunFails, Upsert,
                SerializationFailure, Insert, Emit, Commit, DeadlockVictim, Abort, Retry
  <2> QED BY <1>1, <2>1, <2>2
<1> QED BY <1>1 DEF Next, Rest, vars

(***************************************************************************)
(* What the log has in every state: each entity's events are a history,    *)
(* no ID twice in it, and each reply is the entry of an event.             *)
(***************************************************************************)
EntityLogs ==
  \A k \in Entities :
    /\ EventsOf(k) \in SUBSET EventRow /\ rows[k] \in State \cup {NoState}
    /\ HistoryOf(EventsOf(k), rows[k])
    /\ \A e \in EventsOf(k) : e.keys.entity = k
    /\ \A e, f \in EventsOf(k) : e.id = f.id => e = f

AnswersLogged ==
  \A r \in replies :
    \E k \in Entities : Entry(r.id, r.inner, r.state) \in ToSet(History(k))

LEMMA StatesAreLogged ==
  ASSUME TypeInv, Histories, RefsUnique, RepliesAreSnapshots
  PROVE  EntityLogs /\ AnswersLogged
<1>1. EntityLogs
  <2>1. \A k \in Entities : EventsOf(k) \in SUBSET EventRow /\ rows[k] \in State \cup {NoState}
    BY DEF TypeInv, DBTypeOK, Table, EventsOf
  <2>2. \A k \in Entities : HistoryOf(EventsOf(k), rows[k])
    BY DEF Histories, CommittedHistories
  <2>3. \A k \in Entities : \A e, f \in EventsOf(k) : e.id = f.id => e = f
    BY DEF RefsUnique, Written, EventsOf, RefOf
  <2> QED BY <2>1, <2>2, <2>3 DEF EntityLogs, EventsOf
<1>2. ASSUME NEW r \in replies
      PROVE  \E k \in Entities : Entry(r.id, r.inner, r.state) \in ToSet(History(k))
  <2>1. PICK e \in events : e.id = r.id /\ e.inner = r.inner /\ e.snapshot = r.state
    BY DEF RepliesAreSnapshots
  <2>2. PICK k \in Entities : e \in EventsOf(k)
    BY DEF TypeInv, DBTypeOK, EventRow, Keys, EventsOf
  <2>3. /\ EventsOf(k) \in SUBSET EventRow /\ rows[k] \in State \cup {NoState}
        /\ HistoryOf(EventsOf(k), rows[k])
    BY <1>1 DEF EntityLogs
  <2>4. /\ e.seq + 1 \in 1 .. Len(History(k)) /\ History(k)[e.seq + 1] = EntryOf(e)
        /\ History(k) \in Seq({EntryOf(x) : x \in EventRow})
    BY <2>2, <2>3, InOrderParts DEF History
  <2>5. DOMAIN History(k) = 1 .. Len(History(k))
    BY <2>4
  <2>6. EntryOf(e) \in ToSet(History(k))
    BY <2>4, <2>5 DEF ToSet
  <2> QED BY <2>1, <2>6 DEF EntryOf
<1> QED BY <1>1, <1>2 DEF AnswersLogged

(***************************************************************************)
(* A step of the state machine is a step of the event log.                 *)
(***************************************************************************)
LEMMA StepExtends ==
  ASSUME EntityLogs, EntityLogs', events \subseteq events', NEW k \in Entities
  PROVE  Log!Extends(k)
<1> DEFINE old == EventsOf(k)
           evs == EventsOf(k)'
<1>1. /\ old \in SUBSET EventRow /\ rows[k] \in State \cup {NoState}
      /\ HistoryOf(old, rows[k])
  BY DEF EntityLogs
<1>2. /\ evs \in SUBSET EventRow /\ rows'[k] \in State \cup {NoState}
      /\ HistoryOf(evs, rows'[k]) /\ \A e \in evs : e.keys.entity = k
      /\ \A e, f \in evs : e.id = f.id => e = f
  BY DEF EntityLogs
<1>3. old \subseteq evs
  BY DEF EventsOf
<1>4. History(k) = InOrder(old) /\ History(k)' = InOrder(evs)
  BY DEF History
<1> HIDE DEF old, evs
<1>5. IsPrefix(InOrder(old), InOrder(evs))
  BY <1>1, <1>2, <1>3, HistoriesExtend
<1>6. Len(InOrder(old)) \in Nat
  BY <1>1, InOrderParts
<1>7. \A i \in Len(InOrder(old)) + 1 .. Len(InOrder(evs)) :
        FollowsHistory(k, SubSeq(InOrder(evs), 1, i - 1), InOrder(evs)[i])
  BY <1>2, <1>6, EntriesFollow
<1> QED BY <1>4, <1>5, <1>7 DEF Log!Extends, Log!IsPrefix, IsPrefix

LEMMA StepOfTheLog ==
  ASSUME EntityLogs, EntityLogs', AnswersLogged', Grounds, RefsUnique, [Next]_vars
  PROVE  Log!Next
<1>1. events \subseteq events' /\ replies \subseteq replies'
  BY NextRefsUnique, RepliesGrow DEF Grounds
<1>2. \A k \in Entities : Log!Extends(k)
  BY <1>1, StepExtends
<1>3. Log!Answering
  BY <1>1 DEF AnswersLogged, Log!Answering, Log!Entries, Log!ToSet, ToSet
<1> QED BY <1>2, <1>3 DEF Log!Next

LEMMA StartOfTheLog ==
  ASSUME Init
  PROVE  Log!Init /\ RefsUnique
<1>1. events = {} /\ replies = {} /\ \A d \in Clients : txEvents[d] = {}
  BY DEF Init, DBInit
<1>2. \A k \in Entities : EventsOf(k) = {}
  BY <1>1 DEF EventsOf
<1>3. InOrder({}) = <<>>
  <2> DEFINE none == InOrder({})
  <2>1. HistoryOf({}, NoState) /\ {} \in SUBSET EventRow
    BY DEF HistoryOf
  <2>2. /\ none \in Seq({EntryOf(e) : e \in EventRow}) /\ Len(none) \in Nat
        /\ \A i \in 1 .. Len(none) : \E e \in {} : e.seq + 1 = i
    <3>1. NoState \in State \cup {NoState}
      OBVIOUS
    <3> QED BY <2>1, <3>1, InOrderParts
  <2> HIDE DEF none
  <2>3. Len(none) = 0
    BY <2>2
  <2>4. none = <<>>
    BY <2>2, <2>3, EmptySeq
  <2> QED BY <2>4 DEF none
<1>4. \A k \in Entities : History(k) = <<>>
  BY <1>2, <1>3 DEF History
<1>5. RefsUnique
  BY <1>1 DEF RefsUnique, Written
<1> QED BY <1>1, <1>4, <1>5 DEF Log!Init

(***************************************************************************)
(* Under Serializable the state machine implements the event log: whatever *)
(* commits, retries, crashes and repeats do, an entity's history is only   *)
(* appended to, by entries that follow from it, and callers are answered   *)
(* from it (runTx, store, firstEventUniqueCheck).                          *)
(***************************************************************************)
THEOREM ImplementsEventLog ==
  ASSUME Isolation = "Serializable",
         NEW CONSTANT reached, LinksGoForward(reached)
  PROVE  Spec => ImplementsLog
<1>1. Init => Log!Init /\ RefsUnique
  BY StartOfTheLog
<1>2. Grounds /\ RefsUnique /\ [Next]_vars => RefsUnique'
  BY NextRefsUnique DEF Grounds
<1>3. Grounds /\ HistoryInv /\ RefsUnique /\ RepliesAreSnapshots
        => EntityLogs /\ AnswersLogged
  BY StatesAreLogged DEF Grounds, HistoryInv
<1>4. EntityLogs /\ EntityLogs' /\ AnswersLogged' /\ Grounds /\ RefsUnique /\ [Next]_vars
        => Log!Next
  BY StepOfTheLog
<1>5. Spec => []HistoryInv
  BY HistoryInvariant
<1> QED BY <1>1, <1>2, <1>3, <1>4, <1>5, GroundsInvariant, RepliesCorrect, PTL
        DEF ImplementsLog, Log!Spec, Spec

-----------------------------------------------------------------------------
(***************************************************************************)
(* The tables of state hooks.                                              *)
(***************************************************************************)
Owed(p, m, f, k) ==
  \/ p # NoPending /\ p.row.keys.entity = k
  \/ \E i \in DOMAIN f : f[i].op = "emit" /\ EntityOn(m, f[i]) = k

EmitWritten(m, it, written) ==
  /\ written[EntityOn(m, it)] = m[it.act]
  /\ it.tr.derives <=> Deriving(EntityOn(m, it))

DerivedRow(p, m, f, written, made, k) ==
  Deriving(k) =>
    IF written[k] = NoState THEN made[k] = NoState
    ELSE made[k] = written[k] \/ Owed(p, m, f, k)

DerivedRun(p, m, f, written, made) ==
  /\ \A i \in DOMAIN f : f[i].op = "emit" => EmitWritten(m, f[i], written)
  /\ p # NoPending => written[p.row.keys.entity] = m[p.act]
  /\ \A k \in Entities : DerivedRow(p, m, f, written, made, k)

DerivedInv ==
  /\ DerivedFollowsState
  /\ \A c \in Clients :
       DerivedRun(pending[c], mem[c], agenda[c], txRows[c], txDerived[c])
-----------------------------------------------------------------------------
(* A transaction with nothing left to do has derived all it has written. *)
LEMMA NothingOwed ==
  ASSUME NEW m, NEW written, NEW made, DerivedRun(NoPending, m, <<>>, written, made)
  PROVE  \A k \in Entities : Deriving(k) => made[k] = written[k]
<1>1. \A k : ~Owed(NoPending, m, <<>>, k)
  BY DEF Owed
<1> QED BY <1>1 DEF DerivedRun, DerivedRow

LEMMA DropKeepsDerivedRun ==
  ASSUME TypeInv, NEW c \in Clients, RollsBack(c) \/ Commits(c)
  PROVE  DerivedRun(pending'[c], mem'[c], agenda'[c], txRows'[c], txDerived'[c])
<1>1. agenda'[c] = <<>> /\ pending'[c] = NoPending
  BY DroppedRun DEF RollsBack, Commits
<1>2. txRows'[c] = NoRows /\ txDerived'[c] = NoRows
  BY DBTypes DEF RollsBack, Commits, RollbackTx, CommitTx, ClearTx
<1>3. \A k \in Entities : NoRows[k] = NoState
  BY DEF NoRows
<1> QED BY <1>1, <1>2, <1>3 DEF DerivedRun, DerivedRow

LEMMA OpenKeepsDerivedRun ==
  ASSUME TypeInv, PendingInv, ClosedInv, DerivedInv, NEW c \in Clients, Open(c)
  PROVE  DerivedRun(pending'[c], mem'[c], agenda'[c], txRows'[c], txDerived'[c])
<1>1. /\ agenda'[c] = [i \in 1 .. Len(job[c]) |-> RunTx(job[c][i], i)]
      /\ UNCHANGED <<txRows, txDerived, mem, pending>> /\ pc[c] = "called"
  BY DEF Open, BeginTx, TypeInv, RunTypeInv
<1>2. pending[c] = NoPending /\ agenda[c] = <<>>
  BY <1>1 DEF PendingInv, ClosedInv
<1>3. \A k \in Entities : Deriving(k) => txDerived[c][k] = txRows[c][k]
  BY <1>2, NothingOwed DEF DerivedInv
<1>4. \A i \in DOMAIN agenda'[c] : agenda'[c][i].op # "emit"
  BY <1>1 DEF RunTx
<1>5. \A k \in Entities :
        DerivedRow(pending'[c], mem'[c], agenda'[c], txRows'[c], txDerived'[c], k)
  BY <1>1, <1>3 DEF DerivedRow
<1> QED BY <1>1, <1>2, <1>4, <1>5 DEF DerivedRun

LEMMA UpsertKeepsDerivedRun ==
  ASSUME TypeInv, RunsAreLatest, DerivedInv, NEW c \in Clients, Upsert(c)
  PROVE  DerivedRun(pending'[c], mem'[c], agenda'[c], txRows'[c], txDerived'[c])
<1>1. PICK k \in Entities : k = mem[c][Head(agenda[c]).act].keys.entity
  BY Upserted
<1> DEFINE it  == Head(agenda[c])
           new == NewStateOf(c)
           p   == pending'[c]
<1>2. /\ agenda[c] # <<>> /\ it.op = "run" /\ agenda' = agenda
      /\ mem'[c][it.act] = new /\ new.keys.entity = k
      /\ \A i \in 1 .. Len(mem[c]) : i # it.act => mem'[c][i] = mem[c][i]
      /\ pending[c] = NoPending /\ p # NoPending /\ p.act = it.act
      /\ p.row.keys.entity = k
  BY <1>1, Upserted
<1>3. txRows' = [txRows EXCEPT ![c][k] = new] /\ UNCHANGED txDerived
  BY <1>2 DEF Upsert, UpsertRow
<1> HIDE DEF new, p
<1>4. txRows'[c][k] = new /\ \A j \in Entities \ {k} : txRows'[c][j] = txRows[c][j]
  BY <1>3, DBTypes DEF Table
<1>5. it = agenda[c][1] /\ 1 \in DOMAIN agenda[c] /\ Live(it) /\ EntityOn(mem[c], it) = k
  BY <1>1, <1>2, MemTypes, HeadTailProperties DEF Live, EntityOn
<1>6. DerivedRun(NoPending, mem[c], agenda[c], txRows[c], txDerived[c])
  BY <1>2 DEF DerivedInv
<1>7. ASSUME NEW i \in DOMAIN agenda[c], agenda[c][i].op = "emit"
      PROVE  /\ EmitWritten(mem'[c], agenda[c][i], txRows'[c])
             /\ EntityOn(mem'[c], agenda[c][i]) = EntityOn(mem[c], agenda[c][i])
  <2>1. EmitWritten(mem[c], agenda[c][i], txRows[c]) /\ Live(agenda[c][i])
    BY <1>6, <1>7 DEF DerivedRun, Live
  <2>2. CASE agenda[c][i].act = it.act
    <3>1. /\ mem'[c][agenda[c][i].act] = new /\ EntityOn(mem'[c], agenda[c][i]) = k
          /\ EntityOn(mem[c], agenda[c][i]) = k
      BY <1>2, <1>5, <2>2 DEF EntityOn
    <3> QED BY <1>4, <2>1, <3>1 DEF EmitWritten
  <2>3. CASE agenda[c][i].act # it.act
    <3>1. /\ mem'[c][agenda[c][i].act] = mem[c][agenda[c][i].act]
          /\ EntityOn(mem'[c], agenda[c][i]) = EntityOn(mem[c], agenda[c][i])
          /\ EntityOn(mem[c], agenda[c][i]) \in Entities
      BY <1>2, <2>1, <2>3, LiveTypes DEF EntityOn
    <3>2. EntityOn(mem[c], agenda[c][i]) # k
      BY <1>5, <2>1, <2>3, OneRunOfEntity
    <3> QED BY <1>4, <2>1, <3>1, <3>2 DEF EmitWritten
  <2> QED BY <2>2, <2>3
<1>8. txRows'[c][p.row.keys.entity] = mem'[c][p.act]
  BY <1>2, <1>4
<1>9. ASSUME NEW j \in Entities
      PROVE  DerivedRow(p, mem'[c], agenda[c], txRows'[c], txDerived[c], j)
  <2>1. CASE j = k
    <3>1. Owed(p, mem'[c], agenda[c], j)
      BY <1>2, <2>1 DEF Owed
    <3>2. txRows'[c][j] # NoState
      <4>1. new \in State
        BY Upserted DEF new
      <4> QED BY <1>4, <2>1, <4>1, NoStateAssumption
    <3> QED BY <3>1, <3>2 DEF DerivedRow
  <2>2. CASE j # k
    <3>1. DerivedRow(NoPending, mem[c], agenda[c], txRows[c], txDerived[c], j)
      BY <1>6 DEF DerivedRun
    <3>2. Owed(NoPending, mem[c], agenda[c], j) => Owed(p, mem'[c], agenda[c], j)
      BY <1>7 DEF Owed
    <3> QED BY <1>4, <2>2, <3>1, <3>2 DEF DerivedRow
  <2> QED BY <2>1, <2>2
<1> QED BY <1>2, <1>3, <1>7, <1>8, <1>9 DEF DerivedRun, p

(***************************************************************************)
(* The other moves: an insert leaves the derived row to its emit, an emit  *)
(* writes it.                                                              *)
(***************************************************************************)
LEMMA MoveKeepsEmits ==
  ASSUME Grounds, DerivedInv, NEW c \in Clients, Moves(c), ~Upsert(c),
         NEW i \in DOMAIN agenda'[c], agenda'[c][i].op = "emit"
  PROVE  EmitWritten(mem'[c], agenda'[c][i], txRows'[c])
<1> DEFINE x == agenda'[c][i]
<1>1. TypeInv /\ KeysInv /\ Live(x)
  BY DEF Grounds, Live
<1>2. /\ txRows'[c] = txRows[c]
      /\ \A act \in 1 .. Len(mem[c]) : mem'[c][act] = mem[c][act]
  BY <1>1, LiveKeepsRows
<1>3. DerivedRun(pending[c], mem[c], agenda[c], txRows[c], txDerived[c])
  BY DEF DerivedInv
<1>4. CASE \E j \in DOMAIN agenda[c] : x = agenda[c][j]
  <2>1. PICK j \in DOMAIN agenda[c] : x = agenda[c][j]
    BY <1>4
  <2>2. EmitWritten(mem[c], x, txRows[c])
    BY <1>3, <2>1 DEF DerivedRun
  <2>3. mem'[c][x.act] = mem[c][x.act]
    BY <1>1, <1>2, <2>1, LiveTypes
  <2> QED BY <1>2, <2>2, <2>3 DEF EmitWritten, EntityOn
<1>5. CASE Inserts(c) /\ x = EmitOf(pending[c])
  <2> DEFINE p == pending[c]
             s == mem[c][p.act]
  <2>1. p # NoPending /\ x.act = p.act /\ x.tr = p.tr
    BY <1>5 DEF Inserts, EmitOf
  <2>2. p \in Pending /\ p.act \in 1 .. Len(mem[c]) /\ s \in State
    BY <1>1, <2>1 DEF TypeInv, RunTypeInv
  <2>3. IsOf(p, Head(agenda[c]), s) /\ txRows[c][p.row.keys.entity] = s
    BY <1>3, <2>1 DEF Grounds, PendingOnTop, DerivedRun
  <2>4. Head(agenda[c]).spec.inner.type \in EventTypes
    <3>1. agenda[c] # <<>> /\ Head(agenda[c]).op = "run"
      BY <2>1, <2>3 DEF Grounds, PendingInv, IsOf
    <3>2. Head(agenda[c]).spec \in PreparedSpec
      BY <1>1, <3>1, MemTypes, ItemTypes
    <3> QED BY <3>2 DEF PreparedSpec, EventSpec, InnerEvent
  <2>5. p.tr.derives <=> Deriving(s.keys.entity)
    <3>1. s.keys.entity \in Entities /\ MachineOf[s.keys.entity] \in Machines
      BY <2>2, StateParts
    <3>2. PICK status \in Statuses :
            p.tr = TransitionFor[MachineOf[s.keys.entity], status,
                                 Head(agenda[c]).spec.inner.type]
      BY <2>3 DEF IsOf
    <3>3. p.tr # NoTransition
      BY <2>3 DEF IsOf
    <3> HIDE DEF p, s
    <3> QED BY <2>4, <3>1, <3>2, <3>3, TransitionDerives DEF Deriving
  <2>6. mem'[c][x.act] = s /\ EntityOn(mem'[c], x) = s.keys.entity
    BY <1>2, <2>1, <2>2 DEF EntityOn
  <2>7. p.row.keys.entity = s.keys.entity
    BY <2>3 DEF IsOf
  <2> HIDE DEF p, s, x
  <2> QED BY <1>2, <2>1, <2>3, <2>5, <2>6, <2>7 DEF EmitWritten, x
<1> QED BY <1>1, <1>4, <1>5, LiveItems DEF NewItem

LEMMA MoveKeepsDerivedRun ==
  ASSUME Grounds, DerivedInv, NEW c \in Clients, Moves(c),
         ~Open(c), ~RollsBack(c), ~Commits(c), ~Upsert(c)
  PROVE  DerivedRun(pending'[c], mem'[c], agenda'[c], txRows'[c], txDerived'[c])
<1>1. TypeInv /\ KeysInv
  BY DEF Grounds
<1>2. DerivedRun(pending[c], mem[c], agenda[c], txRows[c], txDerived[c])
  BY DEF DerivedInv
<1>3. /\ pending'[c] = NoPending /\ txRows'[c] = txRows[c]
      /\ ~Inserts(c) => pending[c] = NoPending
      /\ ~Emit(c) => txDerived'[c] = txDerived[c] /\ Head(agenda[c]).op # "emit"
      /\ \A act \in 1 .. Len(mem[c]) : mem'[c][act] = mem[c][act]
  <2>1. CASE Checks(c)
    BY <2>1 DEF Checks, Next0, dbVars
  <2>2. CASE LoadsNothing(c) \/ LoadsRow(c)
    BY <1>1, <2>2, LoadedState DEF LoadsNothing, LoadsRow, Next0, dbVars
  <2>3. CASE Inserts(c)
    BY <1>1, <2>3, DBTypes DEF Inserts, InsertEvent, Grounds, PendingOnTop, IsOf
  <2>4. CASE Emit(c)
    BY <2>4 DEF Emit, Next0, HookWrites
  <2> QED BY <2>1, <2>2, <2>3, <2>4 DEF Moves
<1>4. /\ agenda[c] # <<>> /\ Head(agenda[c]) = agenda[c][1] /\ 1 \in DOMAIN agenda[c]
  BY <1>1, NewItems, MemTypes, HeadTailProperties
<1>5. ASSUME NEW k \in Entities, Owed(pending[c], mem[c], agenda[c], k),
             Emit(c) => EntityOn(mem[c], Head(agenda[c])) # k
      PROVE  Owed(pending'[c], mem'[c], agenda'[c], k)
  <2>1. CASE pending[c] # NoPending /\ pending[c].row.keys.entity = k
    <3>1. Inserts(c) /\ IsOf(pending[c], Head(agenda[c]), mem[c][pending[c].act])
      BY <1>3, <2>1 DEF Grounds, PendingOnTop
    <3>2. PICK i \in DOMAIN agenda'[c] : agenda'[c][i] = EmitOf(pending[c])
      BY <3>1, ItemsStay
    <3>3. pending[c].act \in 1 .. Len(mem[c])
      BY <1>1, <2>1 DEF TypeInv, RunTypeInv
    <3>4. agenda'[c][i].op = "emit" /\ agenda'[c][i].act = pending[c].act
      BY <3>2 DEF EmitOf
    <3>5. mem[c][pending[c].act].keys.entity = k
      BY <2>1, <3>1 DEF IsOf
    <3>6. EntityOn(mem'[c], agenda'[c][i]) = k
      BY <1>3, <3>3, <3>4, <3>5 DEF EntityOn
    <3> QED BY <3>4, <3>6 DEF Owed
  <2>2. CASE \E j \in DOMAIN agenda[c] :
               agenda[c][j].op = "emit" /\ EntityOn(mem[c], agenda[c][j]) = k
    <3>1. PICK j \in DOMAIN agenda[c] :
            agenda[c][j].op = "emit" /\ EntityOn(mem[c], agenda[c][j]) = k
      BY <2>2
    <3>2. j # 1
      BY <1>3, <1>4, <1>5, <3>1
    <3>3. PICK i \in DOMAIN agenda'[c] : agenda'[c][i] = agenda[c][j]
      BY <3>2, ItemsStay
    <3>4. agenda[c][j].act \in 1 .. Len(mem[c])
      BY <1>1, <3>1, LiveTypes DEF Live
    <3>5. agenda'[c][i].op = "emit" /\ EntityOn(mem'[c], agenda'[c][i]) = k
      BY <1>3, <3>1, <3>3, <3>4 DEF EntityOn
    <3> QED BY <3>5 DEF Owed
  <2> QED BY <1>5, <2>1, <2>2 DEF Owed
<1>6. ASSUME NEW k \in Entities, Deriving(k)
      PROVE  IF txRows[c][k] = NoState THEN txDerived'[c][k] = NoState
             ELSE \/ txDerived'[c][k] = txRows[c][k]
                  \/ Owed(pending'[c], mem'[c], agenda'[c], k)
  <2>1. IF txRows[c][k] = NoState THEN txDerived[c][k] = NoState
        ELSE txDerived[c][k] = txRows[c][k] \/ Owed(pending[c], mem[c], agenda[c], k)
    BY <1>2, <1>6 DEF DerivedRun, DerivedRow
  <2>2. CASE ~Emit(c)
    BY <1>3, <1>5, <2>1, <2>2
  <2>3. CASE Emit(c)
    <3> DEFINE it == Head(agenda[c])
               s  == mem[c][it.act]
    <3>1. /\ it.op = "emit"
          /\ txDerived' = [txDerived EXCEPT ![c][s.keys.entity] = DerivedBy(c, it)]
      BY <2>3 DEF Emit, Next0, HookWrites
    <3>2. EmitWritten(mem[c], it, txRows[c])
      BY <1>2, <1>4, <3>1 DEF DerivedRun
    <3>3. s \in State /\ s.keys.entity \in Entities /\ EntityOn(mem[c], it) = s.keys.entity
      BY <1>1, <1>4, <3>1, LiveTypes DEF Live, EntityOn
    <3>4. CASE k = s.keys.entity
      <4>1. txRows[c][k] = s /\ it.tr.derives
        BY <1>6, <3>2, <3>3, <3>4 DEF EmitWritten
      <4>2. DerivedBy(c, it) = s
        BY <4>1 DEF DerivedBy
      <4>3. txDerived'[c][k] = DerivedBy(c, it)
        <5> HIDE DEF s, it
        <5> QED BY <1>1, <3>1, <3>3, <3>4, DBTypes DEF Table
      <4> HIDE DEF s, it
      <4> QED BY <3>3, <4>1, <4>2, <4>3, NoStateAssumption
    <3>5. CASE k # s.keys.entity
      <4>1. txDerived'[c][k] = txDerived[c][k]
        <5> HIDE DEF s, it
        <5> QED BY <1>1, <3>1, <3>5, DBTypes DEF Table
      <4> QED BY <1>5, <2>1, <3>3, <3>5, <4>1
    <3> QED BY <3>4, <3>5
  <2> QED BY <2>2, <2>3
<1>7. \A i \in DOMAIN agenda'[c] : agenda'[c][i].op = "emit" =>
        EmitWritten(mem'[c], agenda'[c][i], txRows'[c])
  BY MoveKeepsEmits
<1>8. \A k \in Entities :
        DerivedRow(pending'[c], mem'[c], agenda'[c], txRows'[c], txDerived'[c], k)
  BY <1>3, <1>6 DEF DerivedRow
<1> QED BY <1>3, <1>7, <1>8 DEF DerivedRun

(* The commit writes a state row and its derived row together. *)
LEMMA MovesKeepDerivedTable ==
  ASSUME TypeInv, DerivedInv, NEW c \in Clients, Moves(c)
  PROVE  DerivedFollowsState'
<1>1. CASE Commits(c)
  <2>1. agenda[c] = <<>> /\ pending[c] = NoPending
        /\ rows' = Overlay(rows, txRows[c]) /\ derived' = Overlay(derived, txDerived[c])
    BY <1>1 DEF Commits, CommitTx
  <2>2. \A k \in Entities : Deriving(k) => txDerived[c][k] = txRows[c][k]
    BY <2>1, NothingOwed DEF DerivedInv
  <2>3. \A k \in Entities : Deriving(k) => derived[k] = rows[k]
    BY DEF DerivedInv, DerivedFollowsState
  <2>4. \A k \in Entities : Deriving(k) => derived'[k] = rows'[k]
    BY <2>1, <2>2, <2>3 DEF Overlay
  <2> QED BY <2>4 DEF DerivedFollowsState, Deriving
<1>2. CASE ~Commits(c)
  <2>1. UNCHANGED <<rows, derived>>
    BY <1>2 DEF Moves, Open, BeginTx, RollsBack, RollbackTx, Checks, LoadsNothing,
                LoadsRow, Upsert, UpsertRow, Inserts, InsertEvent, Emit, HookWrites,
                tables, dbVars
  <2> QED BY <2>1 DEF DerivedInv, DerivedFollowsState, Deriving
<1> QED BY <1>1, <1>2

LEMMA NextDerived ==
  ASSUME Grounds, ClosedInv, RunsAreLatest, DerivedInv, [Next]_vars
  PROVE  DerivedInv'
<1>1. CASE UNCHANGED <<dbVars, agenda, pending, mem>>
  BY <1>1 DEF DerivedInv, DerivedFollowsState, Deriving, dbVars
<1>2. ASSUME NEW c \in Clients, Moves(c)
      PROVE  DerivedInv'
  <2>1. TypeInv /\ PendingInv
    BY DEF Grounds
  <2>2. DerivedFollowsState'
    BY <1>2, <2>1, MovesKeepDerivedTable
  <2>3. DerivedRun(pending'[c], mem'[c], agenda'[c], txRows'[c], txDerived'[c])
    BY <1>2, <2>1, DropKeepsDerivedRun, OpenKeepsDerivedRun, UpsertKeepsDerivedRun,
       MoveKeepsDerivedRun
  <2>4. \A d \in Clients \ {c} :
          DerivedRun(pending'[d], mem'[d], agenda'[d], txRows'[d], txDerived'[d])
    BY <1>2, <2>1, OthersKeep DEF DerivedInv
  <2> QED BY <2>2, <2>3, <2>4 DEF DerivedInv
<1> QED BY <1>1, <1>2, NextMoves DEF Grounds

LEMMA InitDerived == Init => DerivedInv /\ ClosedInv
<1>1. Init => /\ DerivedFollowsState /\ ClosedInv
              /\ \A c \in Clients : /\ pending[c] = NoPending /\ agenda[c] = <<>>
                                    /\ txRows[c] = NoRows /\ txDerived[c] = NoRows
  BY DEF Init, DBInit, DerivedFollowsState, ClosedInv
<1>2. \A m : DerivedRun(NoPending, m, <<>>, NoRows, NoRows)
  BY DEF DerivedRun, DerivedRow, NoRows
<1> QED BY <1>1, <1>2 DEF DerivedInv

(***************************************************************************)
(* After every commit the table a state data hook keeps agrees with the    *)
(* state table, with either isolation level: each transition runs the      *)
(* hook, on the state it has written (GeneralStateDataHook).               *)
(***************************************************************************)
THEOREM DerivedTableFollows ==
  ASSUME NEW CONSTANT reached, LinksGoForward(reached)
  PROVE  Spec => []DerivedFollowsState
<1>1. ClosedInv /\ Grounds /\ [Next]_vars => ClosedInv'
  BY NextClosed DEF Grounds
<1>2. DerivedInv /\ ClosedInv /\ Grounds /\ RunsAreLatest /\ [Next]_vars => DerivedInv'
  BY NextDerived
<1>3. DerivedInv => DerivedFollowsState
  BY DEF DerivedInv
<1>4. Spec => []RunsAreLatest
  BY RunsStayLatest
<1> QED BY <1>1, <1>2, <1>3, <1>4, InitDerived, GroundsInvariant, PTL DEF Spec

-----------------------------------------------------------------------------
(***************************************************************************)
(* The effects an event of an open transaction still has coming.  A place  *)
(* on the agenda is counted from its end, so that it stays the same while  *)
(* items are put before it.                                                *)
(***************************************************************************)
Linked(it, ref) == it.op # "emit" /\ it.spec.cause = PSMCause(ref)

Waiting(f, ref) == {d \in 0 .. Len(f) - 1 : Linked(f[Len(f) - d], ref)}

Emits(f, ref) == \E i \in DOMAIN f : f[i].op = "emit" /\ f[i].ref = ref

Caused(evs, ref) == {x \in evs : x.cause = PSMCause(ref)}

Counted(tr, ref, f, evs) ==
  /\ IsFiniteSet(Caused(evs, ref))
  /\ Cardinality(Caused(evs, ref)) + Cardinality(Waiting(f, ref))
       + (IF Emits(f, ref) THEN Len(tr.chain) ELSE 0) = Len(tr.links) + Len(tr.chain)

LinkDue(link, f, evs, ref) ==
  \/ \E x \in Caused(evs, ref) : x.keys.entity = link.keys.entity /\ x.inner = link.inner
  \/ \E j \in DOMAIN f : /\ Linked(f[j], ref) /\ f[j].spec.inner = link.inner
                         /\ f[j].spec.keys.entity = link.keys.entity

ChainDue(inner, keys, m, f, evs, ref) ==
  \/ \E x \in Caused(evs, ref) : x.keys = keys /\ x.inner = inner
  \/ \E j \in DOMAIN f : /\ Linked(f[j], ref) /\ f[j].op = "run"
                         /\ f[j].spec.inner = inner /\ m[f[j].act].keys = keys

EmitFor(e, tr, m, it) == it.tr = tr /\ m[it.act].keys = e.keys

Effects(e, tr, m, f, evs, box) ==
  LET ref == RefOf(e) IN
  /\ Counted(tr, ref, f, evs)
  /\ \A i \in DOMAIN tr.links : LinkDue(tr.links[i], f, evs, ref)
  /\ \/ Emits(f, ref)
     \/ \A i \in DOMAIN tr.chain : ChainDue(tr.chain[i], e.keys, m, f, evs, ref)
  /\ IF Emits(f, ref) THEN \A i \in DOMAIN box : box[i].cause # ref
     ELSE Sent(box, ref, tr.sends)
  /\ \A j \in DOMAIN f : f[j].op = "emit" /\ f[j].ref = ref => EmitFor(e, tr, m, f[j])

TransitionOn(e, tr) ==
  /\ tr # NoTransition
  /\ \E s \in Statuses : tr = TransitionFor[MachineOf[e.keys.entity], s, e.inner.type]

(* What is written or waits has its cause among the transaction's events. *)
CausesIn(f, evs, box) ==
  /\ \A i \in DOMAIN f :
       IF f[i].op = "emit" THEN f[i].ref \in Refs(evs)
       ELSE FromOutside(f[i].spec) \/ f[i].spec.cause.event \in Refs(evs)
  /\ \A x \in evs : x.cause.type = "psm" => x.cause.event \in Refs(evs)
  /\ \A i \in DOMAIN box : box[i].cause \in Refs(evs)

EmitsDiffer(f) ==
  \A i, j \in DOMAIN f :
    f[i].op = "emit" /\ f[j].op = "emit" /\ f[i].ref = f[j].ref => i = j

TxEffects(m, f, evs, box) ==
  /\ CausesIn(f, evs, box) /\ EmitsDiffer(f)
  /\ \A e \in evs : \E tr \in Transition :
       TransitionOn(e, tr) /\ Effects(e, tr, m, f, evs, box)
-----------------------------------------------------------------------------
Places(f, items, g) ==
  /\ Len(items) \in Nat /\ Len(f) \in Nat \ {0}
  /\ Len(g) = Len(items) + Len(f) - 1 /\ DOMAIN g = 1 .. Len(g)
  /\ DOMAIN f = 1 .. Len(f) /\ 1 \in DOMAIN f /\ Head(f) = f[1]
  /\ \A i \in DOMAIN g :
       \/ i \in 1 .. Len(items) /\ g[i] = items[i]
       \/ /\ i > Len(items) /\ i - Len(items) + 1 \in DOMAIN f
          /\ i - Len(items) + 1 # 1 /\ g[i] = f[i - Len(items) + 1]
  /\ \A j \in 1 .. Len(items) : j \in DOMAIN g /\ g[j] = items[j]
  /\ \A k \in DOMAIN f : k # 1 =>
       k + Len(items) - 1 \in DOMAIN g /\ g[k + Len(items) - 1] = f[k]

LEMMA Replaced ==
  ASSUME NEW f \in Seq(Item), f # <<>>, NEW items \in Seq(Item), NEW g,
         g = items \o Tail(f)
  PROVE  Places(f, items, g)
<1>1. /\ Len(items) \in Nat /\ Len(f) \in Nat \ {0} /\ Head(f) = f[1]
      /\ Len(g) = Len(items) + Len(f) - 1 /\ DOMAIN g = 1 .. Len(g)
      /\ \A i \in 1 .. Len(items) : g[i] = items[i]
      /\ \A i \in Len(items) + 1 .. Len(g) :
           i - Len(items) + 1 \in 2 .. Len(f) /\ g[i] = f[i - Len(items) + 1]
  BY ReplaceHead
<1>2. DOMAIN f = 1 .. Len(f) /\ 1 \in DOMAIN f
  BY <1>1
<1>3. \A i \in DOMAIN g :
        \/ i \in 1 .. Len(items) /\ g[i] = items[i]
        \/ /\ i > Len(items) /\ i - Len(items) + 1 \in DOMAIN f
           /\ i - Len(items) + 1 # 1 /\ g[i] = f[i - Len(items) + 1]
  <2> SUFFICES ASSUME NEW i \in DOMAIN g
               PROVE  \/ i \in 1 .. Len(items) /\ g[i] = items[i]
                      \/ /\ i > Len(items) /\ i - Len(items) + 1 \in DOMAIN f
                         /\ i - Len(items) + 1 # 1 /\ g[i] = f[i - Len(items) + 1]
    OBVIOUS
  <2>1. i \in 1 .. Len(items) \/ i \in Len(items) + 1 .. Len(g)
    BY <1>1
  <2>2. CASE i \in Len(items) + 1 .. Len(g)
    BY <1>1, <1>2, <2>2
  <2> QED BY <1>1, <2>1, <2>2
<1>4. \A k \in DOMAIN f : k # 1 =>
        k + Len(items) - 1 \in DOMAIN g /\ g[k + Len(items) - 1] = f[k]
  <2> SUFFICES ASSUME NEW k \in DOMAIN f, k # 1
               PROVE  k + Len(items) - 1 \in DOMAIN g /\ g[k + Len(items) - 1] = f[k]
    OBVIOUS
  <2> DEFINE i == k + Len(items) - 1
  <2>1. /\ i \in Len(items) + 1 .. Len(g) /\ i - Len(items) + 1 = k /\ i \in DOMAIN g
    BY <1>1, <1>2
  <2> HIDE DEF i
  <2>2. g[i] = f[i - Len(items) + 1]
    BY <1>1, <2>1
  <2> QED BY <2>1, <2>2 DEF i
<1>5. \A j \in 1 .. Len(items) : j \in DOMAIN g /\ g[j] = items[j]
  BY <1>1
<1> QED BY <1>1, <1>2, <1>3, <1>4, <1>5 DEF Places

(***************************************************************************)
(* The places of what waits, when items replace the head and those from lo *)
(* to hi are linked to ref.                                                *)
(***************************************************************************)
LinkedAt(items, ref, lo, hi) ==
  /\ lo \in Nat \ {0} /\ hi \in Nat /\ hi <= Len(items) /\ lo <= hi + 1
  /\ \A j \in 1 .. Len(items) : Linked(items[j], ref) <=> j \in lo .. hi

Moved(f, g, ref, lo, hi) ==
  Waiting(g, ref) = (Waiting(f, ref) \ {Len(f) - 1}) \cup (Len(g) - hi .. Len(g) - lo)

LEMMA WaitingReplaced ==
  ASSUME NEW f \in Seq(Item), f # <<>>, NEW items \in Seq(Item), NEW g,
         g = items \o Tail(f), NEW ref, NEW lo, NEW hi, LinkedAt(items, ref, lo, hi)
  PROVE  Moved(f, g, ref, lo, hi)
<1>1. PICK l \in Nat, a \in Nat \ {0}, b \in Nat :
        l = Len(items) /\ a = Len(f) /\ b = Len(g) /\ b = l + a - 1
  <2>1. Len(items) \in Nat /\ Len(f) \in Nat \ {0} /\ Len(g) = Len(items) + Len(f) - 1
    BY Replaced DEF Places
  <2>2. Len(g) \in Nat
    BY <2>1
  <2> QED BY <2>1, <2>2
<1>2. /\ \A j \in 1 .. l : g[j] = items[j]
      /\ \A k \in 1 .. a : k # 1 => g[k + l - 1] = f[k]
      /\ \A j \in 1 .. l : Linked(items[j], ref) <=> j \in lo .. hi
      /\ hi <= l /\ lo \in Nat \ {0} /\ hi \in Nat
  <2>1. /\ \A j \in 1 .. Len(items) : g[j] = items[j]
        /\ \A k \in DOMAIN f : k # 1 => g[k + Len(items) - 1] = f[k]
        /\ DOMAIN f = 1 .. Len(f)
    BY Replaced DEF Places
  <2> QED BY <1>1, <2>1 DEF LinkedAt
<1>3. ASSUME NEW d \in 0 .. b - 1
      PROVE  Linked(g[b - d], ref)
               <=> \/ d \in 0 .. a - 1 /\ d # a - 1 /\ Linked(f[a - d], ref)
                   \/ d \in b - hi .. b - lo
  <2>1. CASE d >= a - 1
    <3>1. PICK i \in 1 .. l : i = b - d
      <4>1. b - d \in 1 .. l
        BY <1>1, <2>1
      <4> QED BY <4>1
    <3>2. i \in lo .. hi <=> d \in b - hi .. b - lo
      BY <1>1, <1>2, <3>1
    <3>3. g[b - d] = items[i] /\ (Linked(items[i], ref) <=> i \in lo .. hi)
      BY <1>2, <3>1
    <3>4. ~(d \in 0 .. a - 1 /\ d # a - 1)
      BY <1>1, <2>1
    <3> QED BY <3>2, <3>3, <3>4
  <2>2. CASE d < a - 1
    <3>1. PICK k \in 1 .. a : k = a - d /\ k # 1 /\ k + l - 1 = b - d
      <4>1. a - d \in 1 .. a /\ a - d # 1 /\ (a - d) + l - 1 = b - d
        BY <1>1, <2>2
      <4> QED BY <4>1
    <3>2. g[b - d] = f[a - d]
      BY <1>2, <3>1
    <3>3. d \notin b - hi .. b - lo /\ d \in 0 .. a - 1 /\ d # a - 1
      BY <1>1, <1>2, <2>2
    <3> QED BY <3>2, <3>3
  <2>3. d >= a - 1 \/ d < a - 1
    BY <1>1
  <2> QED BY <2>1, <2>2, <2>3
<1>4. \A d \in b - hi .. b - lo : d \in 0 .. b - 1
  BY <1>1, <1>2
<1>5. \A d \in 0 .. a - 1 : d # a - 1 => d \in 0 .. b - 1
  BY <1>1
<1>6. /\ Waiting(g, ref) = {d \in 0 .. b - 1 : Linked(g[b - d], ref)}
      /\ Waiting(f, ref) = {d \in 0 .. a - 1 : Linked(f[a - d], ref)}
  BY <1>1 DEF Waiting
<1>7. Waiting(g, ref) = (Waiting(f, ref) \ {a - 1}) \cup (b - hi .. b - lo)
  BY <1>3, <1>4, <1>5, <1>6
<1> QED BY <1>1, <1>7 DEF Moved

LEMMA WaitingFinite ==
  ASSUME NEW f \in Seq(Item), NEW ref
  PROVE  IsFiniteSet(Waiting(f, ref)) /\ Cardinality(Waiting(f, ref)) \in Nat
<1>1. Len(f) \in Nat /\ IsFiniteSet(0 .. Len(f) - 1)
  BY FS_Interval
<1>2. Waiting(f, ref) \in SUBSET (0 .. Len(f) - 1)
  BY DEF Waiting
<1> QED BY <1>1, <1>2, FS_Subset, FS_CardinalityType

Recounted(f, g, ref, lo, hi) ==
  Cardinality(Waiting(g, ref)) =
    Cardinality(Waiting(f, ref)) + (hi - lo + 1)
      - (IF Linked(Head(f), ref) THEN 1 ELSE 0)

LEMMA WaitingCount ==
  ASSUME NEW f \in Seq(Item), f # <<>>, NEW items \in Seq(Item), NEW g,
         g = items \o Tail(f), NEW ref, NEW lo, NEW hi, LinkedAt(items, ref, lo, hi)
  PROVE  Recounted(f, g, ref, lo, hi)
<1>1. PICK a \in Nat \ {0}, b \in Nat :
        /\ a = Len(f) /\ b = Len(g) /\ b = Len(items) + a - 1 /\ Head(f) = f[1]
        /\ Len(items) \in Nat
  <2>1. Len(items) \in Nat /\ Len(f) \in Nat \ {0} /\ Len(g) = Len(items) + Len(f) - 1
        /\ Head(f) = f[1]
    BY Replaced DEF Places
  <2>2. Len(g) \in Nat
    BY <2>1
  <2> QED BY <2>1, <2>2
<1>2. lo \in Nat \ {0} /\ hi \in Nat /\ hi <= Len(items) /\ lo <= hi + 1
  BY DEF LinkedAt
<1>3. PICK W, new : /\ W = Waiting(f, ref) /\ new = b - hi .. b - lo
  OBVIOUS
<1>4. PICK rest : rest = W \ {a - 1}
  OBVIOUS
<1>5. Waiting(g, ref) = rest \cup new
  <2>1. Moved(f, g, ref, lo, hi)
    BY WaitingReplaced
  <2> QED BY <1>1, <1>3, <1>4, <2>1 DEF Moved
<1>6. IsFiniteSet(W) /\ Cardinality(W) \in Nat
  BY <1>3, WaitingFinite
<1>7. a - 1 \in W <=> Linked(Head(f), ref)
  <2>1. a - 1 \in 0 .. a - 1 /\ a - (a - 1) = 1
    BY <1>1
  <2> QED BY <1>1, <1>3, <2>1 DEF Waiting
<1>8. /\ IsFiniteSet(rest) /\ Cardinality(rest) \in Nat
      /\ Cardinality(rest) = Cardinality(W) - (IF Linked(Head(f), ref) THEN 1 ELSE 0)
  <2>1. CASE a - 1 \in W
    <3>1. IsFiniteSet(rest) /\ Cardinality(rest) = Cardinality(W) - 1
      BY <1>4, <1>6, <2>1, FS_RemoveElement
    <3>2. Cardinality(rest) \in Nat
      BY <3>1, FS_CardinalityType
    <3> QED BY <1>7, <2>1, <3>1, <3>2
  <2>2. CASE a - 1 \notin W
    <3>1. rest = W
      BY <1>4, <2>2
    <3> QED BY <1>6, <1>7, <2>2, <3>1
  <2> QED BY <2>1, <2>2
<1>9. IsFiniteSet(new) /\ Cardinality(new) = hi - lo + 1
  <2>1. PICK x \in Int, y \in Int : x = b - hi /\ y = b - lo
    <3>1. b - hi \in Int /\ b - lo \in Int
      BY <1>2, <1>1
    <3> QED BY <3>1
  <2>2. IsFiniteSet(new) /\ Cardinality(new) = IF x > y THEN 0 ELSE y - x + 1
    BY <1>3, <2>1, FS_Interval
  <2>3. CASE x > y
    BY <1>2, <1>1, <2>1, <2>2, <2>3
  <2>4. CASE ~(x > y)
    BY <1>2, <1>1, <2>1, <2>2, <2>4
  <2> QED BY <2>3, <2>4
<1>10. rest \cap new = {}
  <2>1. \A d \in rest : d \in 0 .. a - 1 /\ d # a - 1
    BY <1>1, <1>3, <1>4 DEF Waiting
  <2>2. \A d \in new : d >= a - 1
    BY <1>2, <1>1, <1>3
  <2>3. ASSUME NEW d \in rest
        PROVE  d < a - 1 /\ d \in Int
    <3>1. d \in 0 .. a - 1 /\ d # a - 1
      BY <2>1
    <3> QED BY <3>1
  <2>4. \A d \in rest : d \notin new
    BY <1>1, <2>2, <2>3
  <2> QED BY <2>4
<1>11. Cardinality(rest \cup new) = Cardinality(rest) + Cardinality(new)
  <2>1. Cardinality(rest \cup new)
          = Cardinality(rest) + Cardinality(new) - Cardinality(rest \cap new)
    BY <1>8, <1>9, FS_Union
  <2>2. Cardinality(rest \cap new) = 0
    BY <1>10, FS_EmptySet
  <2>3. Cardinality(new) \in Nat
    BY <1>9, FS_CardinalityType
  <2> QED BY <1>8, <2>1, <2>2, <2>3
<1>12. PICK w \in Nat, r \in Nat :
         /\ w = Cardinality(Waiting(f, ref)) /\ r = Cardinality(rest)
         /\ Cardinality(Waiting(g, ref)) = r + (hi - lo + 1)
  BY <1>2, <1>3, <1>5, <1>6, <1>8, <1>9, <1>11
<1>13. CASE Linked(Head(f), ref)
  <2>1. r = w - 1
    BY <1>3, <1>8, <1>12, <1>13
  <2> QED BY <1>2, <1>12, <1>13, <2>1 DEF Recounted
<1>14. CASE ~Linked(Head(f), ref)
  <2>1. r = w
    BY <1>3, <1>6, <1>8, <1>12, <1>14
  <2> QED BY <1>2, <1>12, <1>14, <2>1 DEF Recounted
<1> QED BY <1>13, <1>14

(***************************************************************************)
(* Messages.                                                               *)
(***************************************************************************)
LEMMA Joined ==
  ASSUME NEW S, NEW f \in Seq(S), NEW g \in Seq(S)
  PROVE  /\ Len(f \o g) = Len(f) + Len(g) /\ DOMAIN (f \o g) = 1 .. Len(f \o g)
         /\ \A i \in 1 .. Len(f) : (f \o g)[i] = f[i]
         /\ \A i \in Len(f) + 1 .. Len(f) + Len(g) : (f \o g)[i] = g[i - Len(f)]
BY ConcatProperties

LEMMA SentMore ==
  ASSUME NEW box \in Seq(OutboxMessage), NEW more \in Seq(OutboxMessage), NEW ref,
         NEW msgs \in Seq(Messages), Sent(box, ref, msgs),
         \A i \in DOMAIN more : more[i].cause # ref
  PROVE  Sent(box \o more, ref, msgs) /\ Sent(more \o box, ref, msgs)
<1> DEFINE later  == box \o more
           before == more \o box
<1>1. /\ Len(box) \in Nat /\ Len(more) \in Nat /\ Len(msgs) \in Nat
      /\ DOMAIN box = 1 .. Len(box) /\ DOMAIN more = 1 .. Len(more)
  OBVIOUS
<1>2. /\ Len(later) = Len(box) + Len(more) /\ DOMAIN later = 1 .. Len(later)
      /\ \A i \in 1 .. Len(box) : later[i] = box[i]
      /\ \A i \in Len(box) + 1 .. Len(box) + Len(more) : later[i] = more[i - Len(box)]
  BY <1>1, ConcatProperties
<1>3. /\ Len(before) = Len(box) + Len(more) /\ DOMAIN before = 1 .. Len(before)
      /\ \A i \in 1 .. Len(more) : before[i] = more[i]
      /\ \A i \in Len(more) + 1 .. Len(more) + Len(box) : before[i] = box[i - Len(more)]
  BY <1>1, ConcatProperties
<1>4. PICK n \in 0 .. Len(box) - Len(msgs) : \A i \in DOMAIN box :
        IF i \in n + 1 .. n + Len(msgs)
        THEN box[i] = [msg |-> msgs[i - n], cause |-> ref] ELSE box[i].cause # ref
  BY DEF Sent
<1>5. n \in Nat /\ n + Len(msgs) <= Len(box)
  BY <1>1, <1>4
<1> HIDE DEF later, before
<1>6. ASSUME NEW i \in DOMAIN later
      PROVE  IF i \in n + 1 .. n + Len(msgs)
             THEN later[i] = [msg |-> msgs[i - n], cause |-> ref] ELSE later[i].cause # ref
  <2>1. CASE i \in 1 .. Len(box)
    BY <1>1, <1>2, <1>4, <2>1
  <2>2. CASE i \notin 1 .. Len(box)
    <3>1. i \in Len(box) + 1 .. Len(box) + Len(more) /\ i - Len(box) \in DOMAIN more
          /\ i \notin n + 1 .. n + Len(msgs)
      BY <1>1, <1>2, <1>5, <1>6, <2>2
    <3> QED BY <1>2, <3>1
  <2> QED BY <2>1, <2>2
<1>7. ASSUME NEW i \in DOMAIN before
      PROVE  IF i \in (n + Len(more)) + 1 .. (n + Len(more)) + Len(msgs)
             THEN before[i] = [msg |-> msgs[i - (n + Len(more))], cause |-> ref]
             ELSE before[i].cause # ref
  <2>1. CASE i \in 1 .. Len(more)
    <3>1. i \notin (n + Len(more)) + 1 .. (n + Len(more)) + Len(msgs)
      BY <1>1, <1>5, <2>1
    <3> QED BY <1>1, <1>3, <2>1, <3>1
  <2>2. CASE i \notin 1 .. Len(more)
    <3> DEFINE j == i - Len(more)
    <3>1. i \in Len(more) + 1 .. Len(more) + Len(box) /\ j \in DOMAIN box
          /\ i - (n + Len(more)) = j - n
          /\ (i \in (n + Len(more)) + 1 .. (n + Len(more)) + Len(msgs)
                <=> j \in n + 1 .. n + Len(msgs))
      BY <1>1, <1>3, <1>5, <1>7, <2>2
    <3>2. before[i] = box[j]
      BY <1>3, <3>1
    <3> HIDE DEF j
    <3> QED BY <1>4, <3>1, <3>2
  <2> QED BY <2>1, <2>2
<1>8. Sent(later, ref, msgs)
  <2>1. n \in 0 .. Len(later) - Len(msgs)
    BY <1>1, <1>2, <1>5
  <2> QED BY <1>6, <2>1 DEF Sent
<1>9. Sent(before, ref, msgs)
  <2>1. n + Len(more) \in 0 .. Len(before) - Len(msgs)
    BY <1>1, <1>3, <1>5
  <2> QED BY <1>7, <2>1 DEF Sent
<1> QED BY <1>8, <1>9 DEF later, before

LEMMA SentNow ==
  ASSUME NEW box \in Seq(OutboxMessage), NEW more \in Seq(OutboxMessage), NEW ref,
         NEW msgs \in Seq(Messages), \A i \in DOMAIN box : box[i].cause # ref,
         Len(more) = Len(msgs),
         \A i \in DOMAIN more : more[i] = [msg |-> msgs[i], cause |-> ref]
  PROVE  Sent(box \o more, ref, msgs)
<1> DEFINE all == box \o more
<1>1. /\ Len(box) \in Nat /\ Len(more) \in Nat /\ Len(msgs) \in Nat
      /\ DOMAIN box = 1 .. Len(box) /\ DOMAIN more = 1 .. Len(more)
  OBVIOUS
<1>2. /\ Len(all) = Len(box) + Len(more) /\ DOMAIN all = 1 .. Len(all)
      /\ \A i \in 1 .. Len(box) : all[i] = box[i]
      /\ \A i \in Len(box) + 1 .. Len(box) + Len(more) : all[i] = more[i - Len(box)]
  BY Joined
<1> HIDE DEF all
<1>3. PICK n \in Nat : n = Len(box)
  BY <1>1
<1>4. ASSUME NEW i \in DOMAIN all
      PROVE  IF i \in n + 1 .. n + Len(msgs)
             THEN all[i] = [msg |-> msgs[i - n], cause |-> ref] ELSE all[i].cause # ref
  <2>1. CASE i \in 1 .. n
    <3>1. i \notin n + 1 .. n + Len(msgs)
      BY <1>1, <1>3, <2>1
    <3> QED BY <1>1, <1>2, <1>3, <2>1, <3>1
  <2>2. CASE i \notin 1 .. n
    <3>1. i \in n + 1 .. n + Len(more) /\ i - n \in DOMAIN more
      BY <1>1, <1>2, <1>3, <1>4, <2>2
    <3> QED BY <1>2, <1>3, <3>1
  <2> QED BY <2>1, <2>2
<1>5. n \in 0 .. Len(all) - Len(msgs)
  BY <1>1, <1>2, <1>3
<1> QED BY <1>4, <1>5 DEF Sent, all

-----------------------------------------------------------------------------
(***************************************************************************)
(* The effects of an event when items take the place of the head of an     *)
(* agenda that does not run the event's own hooks: what the head was due   *)
(* for is passed on to an item or written as an event.                     *)
(***************************************************************************)
Balanced(ref, f, g, evs, evs2) ==
  /\ Caused(evs, ref) \subseteq Caused(evs2, ref) /\ IsFiniteSet(Caused(evs2, ref))
  /\ Cardinality(Caused(evs2, ref)) + Cardinality(Waiting(g, ref))
       = Cardinality(Caused(evs, ref)) + Cardinality(Waiting(f, ref))

Passed(h, ref, m, items, evs) ==
  Linked(h, ref) =>
    \/ \E x \in Caused(evs, ref) :
         /\ x.keys.entity = h.spec.keys.entity /\ x.inner = h.spec.inner
         /\ h.op = "run" => x.keys = m[h.act].keys
    \/ /\ h.op # "run"
       /\ \E j \in 1 .. Len(items) :
            /\ Linked(items[j], ref) /\ items[j].spec.inner = h.spec.inner
            /\ items[j].spec.keys.entity = h.spec.keys.entity

SameMessages(ref, msgs, box, box2) ==
  /\ (\A i \in DOMAIN box : box[i].cause # ref) => \A i \in DOMAIN box2 : box2[i].cause # ref
  /\ Sent(box, ref, msgs) => Sent(box2, ref, msgs)

(* items take the place of the head of f. *)
Swaps(m, n, f, items, g) ==
  /\ Keeps(m, n) /\ f \in Seq(Item) /\ f # <<>> /\ items \in Seq(Item)
  /\ \A i \in DOMAIN f : f[i] \in ItemUpTo(Len(m))
  /\ g = items \o Tail(f)

(* Neither the head nor an item runs the hooks of ref. *)
Elsewhere(f, items, ref) ==
  /\ Head(f).op = "emit" => Head(f).ref # ref
  /\ \A j \in 1 .. Len(items) : items[j].op = "emit" => items[j].ref # ref

LEMMA SwapPlaces ==
  ASSUME NEW m, NEW n, NEW f, NEW items, NEW g, Swaps(m, n, f, items, g)
  PROVE  /\ Head(f) = f[1] /\ 1 \in DOMAIN f
         /\ \A i \in DOMAIN g : \/ \E j \in 1 .. Len(items) : g[i] = items[j]
                                \/ \E k \in DOMAIN f : k # 1 /\ g[i] = f[k]
         /\ \A j \in 1 .. Len(items) : \E i \in DOMAIN g : g[i] = items[j]
         /\ \A k \in DOMAIN f : k # 1 => \E i \in DOMAIN g : g[i] = f[k]
         /\ \A k \in DOMAIN f : f[k].op \in {"run", "emit"} =>
              n[f[k].act].keys = m[f[k].act].keys
<1>1. /\ f \in Seq(Item) /\ f # <<>> /\ items \in Seq(Item) /\ g = items \o Tail(f)
  BY DEF Swaps
<1>2. /\ Head(f) = f[1] /\ 1 \in DOMAIN f
      /\ \A i \in DOMAIN g :
           \/ i \in 1 .. Len(items) /\ g[i] = items[i]
           \/ /\ i > Len(items) /\ i - Len(items) + 1 \in DOMAIN f
              /\ i - Len(items) + 1 # 1 /\ g[i] = f[i - Len(items) + 1]
      /\ \A j \in 1 .. Len(items) : j \in DOMAIN g /\ g[j] = items[j]
      /\ \A k \in DOMAIN f : k # 1 =>
           k + Len(items) - 1 \in DOMAIN g /\ g[k + Len(items) - 1] = f[k]
  <2>1. Places(f, items, g)
    BY <1>1, Replaced
  <2> QED BY <2>1 DEF Places
<1>3. \A i \in DOMAIN g : \/ \E j \in 1 .. Len(items) : g[i] = items[j]
                          \/ \E k \in DOMAIN f : k # 1 /\ g[i] = f[k]
  BY <1>2
<1>4. \A k \in DOMAIN f : k # 1 => \E i \in DOMAIN g : g[i] = f[k]
  BY <1>2
<1>5. \A k \in DOMAIN f : f[k].op \in {"run", "emit"} =>
        n[f[k].act].keys = m[f[k].act].keys
  BY DEF ItemUpTo, Keeps, Swaps
<1> QED BY <1>2, <1>3, <1>4, <1>5

LEMMA EffectsKept ==
  ASSUME NEW m, NEW n, NEW f, NEW items, NEW g, Swaps(m, n, f, items, g),
         NEW e, NEW tr \in Transition, NEW evs, NEW evs2, NEW box, NEW box2,
         Effects(e, tr, m, f, evs, box), Elsewhere(f, items, RefOf(e)),
         Balanced(RefOf(e), f, g, evs, evs2), Passed(Head(f), RefOf(e), m, items, evs2),
         SameMessages(RefOf(e), tr.sends, box, box2)
  PROVE  Effects(e, tr, n, g, evs2, box2)
<1> DEFINE ref == RefOf(e)
<1>1. /\ Counted(tr, ref, f, evs)
      /\ \A i \in DOMAIN tr.links : LinkDue(tr.links[i], f, evs, ref)
      /\ \/ Emits(f, ref)
         \/ \A i \in DOMAIN tr.chain : ChainDue(tr.chain[i], e.keys, m, f, evs, ref)
      /\ IF Emits(f, ref) THEN \A i \in DOMAIN box : box[i].cause # ref
         ELSE Sent(box, ref, tr.sends)
      /\ \A j \in DOMAIN f : f[j].op = "emit" /\ f[j].ref = ref => EmitFor(e, tr, m, f[j])
  BY DEF Effects
<1>2. /\ Head(f) = f[1] /\ 1 \in DOMAIN f
      /\ \A i \in DOMAIN g : \/ \E j \in 1 .. Len(items) : g[i] = items[j]
                             \/ \E k \in DOMAIN f : k # 1 /\ g[i] = f[k]
      /\ \A j \in 1 .. Len(items) : \E i \in DOMAIN g : g[i] = items[j]
      /\ \A k \in DOMAIN f : k # 1 => \E i \in DOMAIN g : g[i] = f[k]
  BY SwapPlaces
<1>3. \A k \in DOMAIN f : f[k].op \in {"run", "emit"} =>
        n[f[k].act].keys = m[f[k].act].keys
  BY SwapPlaces
<1> HIDE DEF ref
<1>4. Emits(g, ref) <=> Emits(f, ref)
  BY <1>2 DEF Emits, Elsewhere, ref
<1>5. Counted(tr, ref, g, evs2)
  <2>1. Balanced(ref, f, g, evs, evs2)
    BY DEF ref
  <2>2. PICK x : x = IF Emits(f, ref) THEN Len(tr.chain) ELSE 0
    OBVIOUS
  <2>3. /\ Cardinality(Caused(evs, ref)) + Cardinality(Waiting(f, ref)) + x
             = Len(tr.links) + Len(tr.chain)
        /\ x = IF Emits(g, ref) THEN Len(tr.chain) ELSE 0
    BY <1>1, <1>4, <2>2 DEF Counted
  <2>4. Cardinality(Caused(evs2, ref)) + Cardinality(Waiting(g, ref)) + x
          = Len(tr.links) + Len(tr.chain)
    BY <2>1, <2>3 DEF Balanced
  <2> QED BY <2>1, <2>3, <2>4 DEF Counted, Balanced
<1>6. Caused(evs, ref) \subseteq Caused(evs2, ref)
  BY DEF Balanced, ref
<1>7. ASSUME NEW i \in DOMAIN tr.links
      PROVE  LinkDue(tr.links[i], g, evs2, ref)
  <2>1. PICK link : link = tr.links[i]
    OBVIOUS
  <2> SUFFICES LinkDue(link, g, evs2, ref)
    BY <2>1
  <2>2. LinkDue(link, f, evs, ref)
    BY <1>1, <2>1
  <2>3. CASE \E x \in Caused(evs, ref) :
               x.keys.entity = link.keys.entity /\ x.inner = link.inner
    BY <1>6, <2>3 DEF LinkDue
  <2>4. CASE \E j \in DOMAIN f : /\ Linked(f[j], ref) /\ f[j].spec.inner = link.inner
                                 /\ f[j].spec.keys.entity = link.keys.entity
    <3>1. PICK j \in DOMAIN f : /\ Linked(f[j], ref) /\ f[j].spec.inner = link.inner
                                /\ f[j].spec.keys.entity = link.keys.entity
      BY <2>4
    <3>2. CASE j # 1
      BY <1>2, <3>1, <3>2 DEF LinkDue
    <3>3. CASE j = 1
      <4>1. Passed(f[1], ref, m, items, evs2) /\ Linked(f[1], ref)
        BY <1>2, <3>1, <3>3 DEF ref
      <4>2. CASE \E x \in Caused(evs2, ref) :
                   x.keys.entity = f[1].spec.keys.entity /\ x.inner = f[1].spec.inner
        BY <3>1, <3>3, <4>2 DEF LinkDue
      <4>3. CASE \E k \in 1 .. Len(items) :
                   /\ Linked(items[k], ref) /\ items[k].spec.inner = f[1].spec.inner
                   /\ items[k].spec.keys.entity = f[1].spec.keys.entity
        BY <1>2, <3>1, <3>3, <4>3 DEF LinkDue
      <4> QED BY <4>1, <4>2, <4>3 DEF Passed
    <3> QED BY <3>2, <3>3
  <2> QED BY <2>2, <2>3, <2>4 DEF LinkDue
<1>8. ASSUME NEW i \in DOMAIN tr.chain, ~Emits(g, ref)
      PROVE  ChainDue(tr.chain[i], e.keys, n, g, evs2, ref)
  <2>1. PICK inner : inner = tr.chain[i]
    OBVIOUS
  <2> SUFFICES ChainDue(inner, e.keys, n, g, evs2, ref)
    BY <2>1
  <2>2. ChainDue(inner, e.keys, m, f, evs, ref)
    BY <1>1, <1>4, <1>8, <2>1
  <2>3. CASE \E x \in Caused(evs, ref) : x.keys = e.keys /\ x.inner = inner
    BY <1>6, <2>3 DEF ChainDue
  <2>4. CASE \E j \in DOMAIN f : /\ Linked(f[j], ref) /\ f[j].op = "run"
                                 /\ f[j].spec.inner = inner /\ m[f[j].act].keys = e.keys
    <3>1. PICK j \in DOMAIN f : /\ Linked(f[j], ref) /\ f[j].op = "run"
                                /\ f[j].spec.inner = inner /\ m[f[j].act].keys = e.keys
      BY <2>4
    <3>2. CASE j # 1
      <4>1. n[f[j].act].keys = e.keys
        BY <1>3, <3>1
      <4> QED BY <1>2, <3>1, <3>2, <4>1 DEF ChainDue
    <3>3. CASE j = 1
      <4>1. Passed(f[1], ref, m, items, evs2) /\ Linked(f[1], ref)
        BY <1>2, <3>1, <3>3 DEF ref
      <4>2. \E x \in Caused(evs2, ref) : x.keys = m[f[1].act].keys /\ x.inner = f[1].spec.inner
        BY <3>1, <3>3, <4>1 DEF Passed
      <4> QED BY <3>1, <3>3, <4>2 DEF ChainDue
    <3> QED BY <3>2, <3>3
  <2> QED BY <2>2, <2>3, <2>4 DEF ChainDue
<1>9. IF Emits(g, ref) THEN \A i \in DOMAIN box2 : box2[i].cause # ref
      ELSE Sent(box2, ref, tr.sends)
  BY <1>1, <1>4 DEF SameMessages, ref
<1>10. ASSUME NEW j \in DOMAIN g, g[j].op = "emit", g[j].ref = ref
       PROVE  EmitFor(e, tr, n, g[j])
  <2>1. PICK k \in DOMAIN f : g[j] = f[k]
    BY <1>2, <1>10 DEF Elsewhere, ref
  <2> QED BY <1>1, <1>3, <1>10, <2>1 DEF EmitFor
<1> QED BY <1>4, <1>5, <1>7, <1>8, <1>9, <1>10 DEF Effects, ref

-----------------------------------------------------------------------------
(***************************************************************************)
(* runTx: its check and its load put a last item in the place of the head, *)
(* which carries the head's cause on, or the head has no such cause.       *)
(***************************************************************************)
Replaces(h, items) ==
  /\ \A j \in 1 .. Len(items) : items[j].op # "emit"
  /\ \A j \in 1 .. Len(items) : j # Len(items) => FromOutside(items[j].spec)
  /\ IF items = <<>> THEN FromOutside(h.spec)
     ELSE LET last == items[Len(items)] IN
          \/ FromOutside(h.spec) /\ FromOutside(last.spec)
          \/ /\ last.spec.cause = h.spec.cause /\ last.spec.inner = h.spec.inner
             /\ last.spec.keys.entity = h.spec.keys.entity

LEMMA OutsideNotLinked ==
  ASSUME NEW it, NEW ref \in EventRef, FromOutside(it.spec)
  PROVE  ~Linked(it, ref)
<1>1. PSMCause(ref) # NoCause /\ PSMCause(ref).type = "psm"
  BY CauseTypes, NoCauseAssumption DEF PSMCause
<1> QED BY <1>1 DEF Linked, FromOutside

LEMMA EmitsStayApart ==
  ASSUME NEW m, NEW n, NEW f, NEW items, NEW g, Swaps(m, n, f, items, g), EmitsDiffer(f),
         EmitsDiffer(items),
         \A i \in DOMAIN items : items[i].op = "emit" =>
           \A k \in DOMAIN f : f[k].op = "emit" => f[k].ref # items[i].ref
  PROVE  EmitsDiffer(g)
<1>1. Places(f, items, g)
  BY Replaced DEF Swaps
<1>2. DOMAIN items = 1 .. Len(items) /\ Len(items) \in Nat
  BY DEF Swaps
<1>3. SUFFICES ASSUME NEW i \in DOMAIN g, NEW j \in DOMAIN g,
                      g[i].op = "emit", g[j].op = "emit", g[i].ref = g[j].ref
               PROVE  i = j
  BY DEF EmitsDiffer
<1>4. i \in Int /\ j \in Int /\ Len(items) \in Int
  BY <1>1 DEF Places
<1>5. \/ i \in DOMAIN items /\ g[i] = items[i]
      \/ i - Len(items) + 1 \in DOMAIN f /\ g[i] = f[i - Len(items) + 1]
  BY <1>1, <1>2 DEF Places
<1>6. \/ j \in DOMAIN items /\ g[j] = items[j]
      \/ j - Len(items) + 1 \in DOMAIN f /\ g[j] = f[j - Len(items) + 1]
  BY <1>1, <1>2 DEF Places
<1>7. CASE i \in DOMAIN items /\ g[i] = items[i]
  BY <1>3, <1>6, <1>7 DEF EmitsDiffer
<1>8. CASE i - Len(items) + 1 \in DOMAIN f /\ g[i] = f[i - Len(items) + 1]
  <2>1. CASE j \in DOMAIN items /\ g[j] = items[j]
    BY <1>3, <1>8, <2>1
  <2>2. CASE j - Len(items) + 1 \in DOMAIN f /\ g[j] = f[j - Len(items) + 1]
    <3>1. i - Len(items) + 1 = j - Len(items) + 1
      BY <1>3, <1>8, <2>2 DEF EmitsDiffer
    <3> QED BY <1>4, <3>1
  <2> QED BY <1>6, <2>1, <2>2
<1> QED BY <1>5, <1>7, <1>8

(* The head's one link goes on in the one item that is linked, or is none. *)
LEMMA HandedOn ==
  ASSUME NEW m, NEW n, NEW f, NEW items, NEW g, Swaps(m, n, f, items, g),
         NEW ref, NEW lo, NEW hi, LinkedAt(items, ref, lo, hi),
         hi - lo + 1 = IF Linked(Head(f), ref) THEN 1 ELSE 0,
         NEW evs, IsFiniteSet(Caused(evs, ref))
  PROVE  Balanced(ref, f, g, evs, evs)
<1>1. /\ f \in Seq(Item) /\ f # <<>> /\ items \in Seq(Item) /\ g = items \o Tail(f)
  BY DEF Swaps
<1>2. PICK w \in Nat : w = Cardinality(Waiting(f, ref))
  BY <1>1, WaitingFinite
<1>3. Cardinality(Waiting(g, ref)) =
        Cardinality(Waiting(f, ref)) + (hi - lo + 1)
          - (IF Linked(Head(f), ref) THEN 1 ELSE 0)
  <2>1. Recounted(f, g, ref, lo, hi)
    BY <1>1, WaitingCount
  <2> QED BY <2>1 DEF Recounted
<1>4. PICK y \in {0, 1} : y = IF Linked(Head(f), ref) THEN 1 ELSE 0
  OBVIOUS
<1>5. Cardinality(Waiting(g, ref)) = w + y - y
  BY <1>2, <1>3, <1>4
<1>6. Cardinality(Waiting(g, ref)) = w
  BY <1>5
<1> QED BY <1>2, <1>6 DEF Balanced

LEMMA PassedOn ==
  ASSUME NEW m, NEW n, NEW f, NEW items, NEW g, Swaps(m, n, f, items, g),
         Head(f).op \in {"runTx", "load"}, Replaces(Head(f), items),
         NEW evs \in SUBSET EventRow, NEW box, TxEffects(m, f, evs, box)
  PROVE  TxEffects(n, g, evs, box)
<1> DEFINE h == Head(f)
<1>1. /\ h = f[1] /\ 1 \in DOMAIN f /\ h.op # "emit" /\ h.op # "run"
      /\ \A i \in DOMAIN g : \/ \E j \in 1 .. Len(items) : g[i] = items[j]
                             \/ \E k \in DOMAIN f : k # 1 /\ g[i] = f[k]
  BY SwapPlaces
<1>2. /\ DOMAIN items = 1 .. Len(items) /\ Len(items) \in Nat
      /\ items # <<>> => Len(items) # 0
  BY EmptySeq DEF Swaps
<1>3. /\ \A j \in 1 .. Len(items) : items[j].op # "emit"
      /\ \A j \in 1 .. Len(items) :
           FromOutside(items[j].spec) \/ (j = Len(items) /\ items[j].spec.cause = h.spec.cause
                                          /\ ~FromOutside(h.spec))
  <2>1. \A j \in 1 .. Len(items) : items # <<>>
    BY <1>2, EmptySeq
  <2> QED BY <2>1 DEF Replaces, FromOutside
<1>4. CausesIn(f, evs, box) /\ EmitsDiffer(f)
  BY DEF TxEffects
<1>5. CausesIn(g, evs, box)
  <2>1. FromOutside(h.spec) \/ h.spec.cause.event \in Refs(evs)
    BY <1>1, <1>4 DEF CausesIn
  <2>2. \A i \in DOMAIN g :
          IF g[i].op = "emit" THEN g[i].ref \in Refs(evs)
          ELSE FromOutside(g[i].spec) \/ g[i].spec.cause.event \in Refs(evs)
    <3> SUFFICES ASSUME NEW i \in DOMAIN g
                 PROVE  IF g[i].op = "emit" THEN g[i].ref \in Refs(evs)
                        ELSE FromOutside(g[i].spec) \/ g[i].spec.cause.event \in Refs(evs)
      OBVIOUS
    <3>1. CASE \E j \in 1 .. Len(items) : g[i] = items[j]
      BY <1>3, <2>1, <3>1
    <3>2. CASE \E k \in DOMAIN f : k # 1 /\ g[i] = f[k]
      BY <1>4, <3>2 DEF CausesIn
    <3> QED BY <1>1, <3>1, <3>2
  <2> QED BY <1>4, <2>2 DEF CausesIn
<1>6. EmitsDiffer(g)
  <2>1. \A i \in DOMAIN items : items[i].op # "emit"
    BY <1>2, <1>3
  <2> QED BY <1>4, <2>1, EmitsStayApart DEF EmitsDiffer
<1>7. ASSUME NEW e \in evs
      PROVE  \E tr \in Transition : TransitionOn(e, tr) /\ Effects(e, tr, n, g, evs, box)
  <2>1. PICK tr \in Transition : TransitionOn(e, tr) /\ Effects(e, tr, m, f, evs, box)
    BY DEF TxEffects
  <2>2. PICK ref \in EventRef : ref = RefOf(e)
    BY RefType
  <2>3. IsFiniteSet(Caused(evs, ref))
    BY <2>1, <2>2 DEF Effects, Counted
  <2>4. Balanced(ref, f, g, evs, evs) /\ Passed(h, ref, m, items, evs)
    <3>1. CASE Linked(h, ref)
      <4>1. ~FromOutside(h.spec) /\ items # <<>>
        BY <2>2, <3>1, OutsideNotLinked DEF Replaces
      <4>2. PICK l \in Nat \ {0} : l = Len(items)
        BY <1>2, <4>1
      <4>3. /\ items[l].spec.cause = h.spec.cause /\ items[l].spec.inner = h.spec.inner
            /\ items[l].spec.keys.entity = h.spec.keys.entity
        BY <4>1, <4>2 DEF Replaces
      <4>4. Linked(items[l], ref) /\ l \in 1 .. Len(items)
        BY <1>3, <3>1, <4>2, <4>3 DEF Linked
      <4>5. \A j \in 1 .. Len(items) : Linked(items[j], ref) <=> j \in l .. l
        <5>1. \A j \in 1 .. Len(items) : j # l => ~Linked(items[j], ref)
          BY <1>3, <2>2, <4>2, OutsideNotLinked
        <5>2. \A j \in 1 .. Len(items) : j \in l .. l <=> j = l
          BY <4>2
        <5> QED BY <4>4, <5>1, <5>2
      <4>6. LinkedAt(items, ref, l, l) /\ l - l + 1 = 1
        BY <4>2, <4>5 DEF LinkedAt
      <4>7. Balanced(ref, f, g, evs, evs)
        BY <2>3, <3>1, <4>6, HandedOn
      <4> QED BY <1>1, <4>3, <4>4, <4>7 DEF Passed
    <3>2. CASE ~Linked(h, ref)
      <4>1. \A j \in 1 .. Len(items) : ~Linked(items[j], ref)
        <5>1. ASSUME NEW j \in 1 .. Len(items), Linked(items[j], ref)
              PROVE  FALSE
          <6>1. ~FromOutside(items[j].spec)
            BY <2>2, <5>1, OutsideNotLinked
          <6>2. items[j].spec.cause = h.spec.cause
            BY <1>3, <6>1
          <6> QED BY <1>1, <3>2, <5>1, <6>2 DEF Linked
        <5> QED BY <5>1
      <4>2. LinkedAt(items, ref, 1, 0) /\ 0 - 1 + 1 = 0
        BY <1>2, <4>1 DEF LinkedAt
      <4>3. Balanced(ref, f, g, evs, evs)
        BY <2>3, <3>2, <4>2, HandedOn
      <4> QED BY <3>2, <4>3 DEF Passed
    <3> QED BY <3>1, <3>2
  <2>5. Elsewhere(f, items, ref) /\ SameMessages(ref, tr.sends, box, box)
    BY <1>1, <1>3 DEF Elsewhere, SameMessages
  <2> HIDE DEF h
  <2>6. Effects(e, tr, n, g, evs, box)
    BY <2>1, <2>2, <2>4, <2>5, EffectsKept DEF h
  <2> QED BY <2>1, <2>6
<1> QED BY <1>5, <1>6, <1>7 DEF TxEffects

LEMMA StatesKeepEffects ==
  ASSUME NEW m, NEW n, Keeps(m, n), NEW f, \A i \in DOMAIN f : f[i] \in ItemUpTo(Len(m)),
         NEW evs, NEW box, TxEffects(m, f, evs, box)
  PROVE  TxEffects(n, f, evs, box)
<1>1. \A k \in DOMAIN f : f[k].op \in {"run", "emit"} => n[f[k].act].keys = m[f[k].act].keys
  BY DEF ItemUpTo, Keeps
<1>2. ASSUME NEW e \in evs
      PROVE  \E tr \in Transition : TransitionOn(e, tr) /\ Effects(e, tr, n, f, evs, box)
  <2>1. PICK tr \in Transition : TransitionOn(e, tr) /\ Effects(e, tr, m, f, evs, box)
    BY DEF TxEffects
  <2>2. \A i \in DOMAIN tr.chain :
          ChainDue(tr.chain[i], e.keys, m, f, evs, RefOf(e))
            => ChainDue(tr.chain[i], e.keys, n, f, evs, RefOf(e))
    BY <1>1 DEF ChainDue
  <2>3. \A j \in DOMAIN f : f[j].op = "emit" /\ EmitFor(e, tr, m, f[j])
                              => EmitFor(e, tr, n, f[j])
    BY <1>1 DEF EmitFor
  <2>4. Effects(e, tr, n, f, evs, box)
    BY <2>1, <2>2, <2>3 DEF Effects
  <2> QED BY <2>1, <2>4
<1> QED BY <1>2 DEF TxEffects

(***************************************************************************)
(* store: the event is written, its links and its hooks come up.           *)
(***************************************************************************)
Comes(x, tr, m, h, items) ==
  /\ h.op = "run" /\ x.cause = h.spec.cause /\ x.inner = h.spec.inner
  /\ x.keys = m[h.act].keys /\ h.spec.keys.entity = m[h.act].keys.entity
  /\ Len(items) = Len(tr.links) + 1 /\ Len(tr.links) \in Nat
  /\ \A i \in 1 .. Len(tr.links) :
       /\ items[i].op = "runTx" /\ items[i].spec.cause = PSMCause(RefOf(x))
       /\ items[i].spec.inner = tr.links[i].inner /\ items[i].spec.keys = tr.links[i].keys
  /\ LET last == items[Len(tr.links) + 1] IN
       last.op = "emit" /\ last.ref = RefOf(x) /\ last.tr = tr /\ last.act = h.act

LEMMA NewRefs ==
  ASSUME NEW evs, NEW x
  PROVE  Refs(evs \cup {x}) = Refs(evs) \cup {RefOf(x)}
BY DEF Refs

(* What the new event has coming: all of it, and none of it is written. *)
LEMMA FreshEffects ==
  ASSUME NEW m, NEW f, NEW items, NEW g, Swaps(m, m, f, items, g),
         NEW evs \in SUBSET EventRow, NEW box, TxEffects(m, f, evs, box),
         NEW x \in EventRow, RefOf(x) \notin Refs(evs), NEW tr \in Transition,
         Comes(x, tr, m, Head(f), items)
  PROVE  Effects(x, tr, m, g, evs \cup {x}, box)
<1> DEFINE h == Head(f)
<1>1. PICK r \in EventRef : r = RefOf(x)
  BY RefType
<1>2. /\ h = f[1] /\ 1 \in DOMAIN f
      /\ \A i \in DOMAIN g : \/ \E j \in 1 .. Len(items) : g[i] = items[j]
                             \/ \E k \in DOMAIN f : k # 1 /\ g[i] = f[k]
      /\ \A j \in 1 .. Len(items) : \E i \in DOMAIN g : g[i] = items[j]
  BY SwapPlaces
<1>3. PICK l \in Nat : l = Len(tr.links)
  BY DEF Comes
<1>4. /\ Len(items) = l + 1 /\ l + 1 \in 1 .. Len(items) /\ l \in 0 .. Len(items)
      /\ \A j \in 1 .. Len(items) : j \in 1 .. l \/ j = l + 1
  BY <1>3 DEF Comes
<1>5. /\ \A i \in 1 .. l :
           /\ items[i].op = "runTx" /\ items[i].spec.cause = PSMCause(r)
           /\ items[i].spec.inner = tr.links[i].inner /\ items[i].spec.keys = tr.links[i].keys
      /\ items[l + 1].op = "emit" /\ items[l + 1].ref = r /\ items[l + 1].tr = tr
      /\ items[l + 1].act = h.act
      /\ m[h.act].keys = x.keys /\ x.cause = h.spec.cause /\ h.op = "run"
  BY <1>1, <1>3 DEF Comes
<1>6. CausesIn(f, evs, box) /\ r \notin Refs(evs)
  BY <1>1 DEF TxEffects
<1>7. \A k \in DOMAIN f : ~Linked(f[k], r) /\ (f[k].op = "emit" => f[k].ref # r)
  <2>1. ASSUME NEW k \in DOMAIN f, Linked(f[k], r)
        PROVE  FALSE
    <3>1. f[k].op # "emit" /\ f[k].spec.cause.event = r
      BY <2>1 DEF Linked, PSMCause
    <3>2. FromOutside(f[k].spec)
      BY <1>6, <3>1 DEF CausesIn
    <3> QED BY <2>1, <3>2, OutsideNotLinked
  <2>2. \A k \in DOMAIN f : f[k].op = "emit" => f[k].ref # r
    BY <1>6 DEF CausesIn
  <2> QED BY <2>1, <2>2
<1>8. Caused(evs \cup {x}, r) = {}
  <2>1. \A y \in evs : y.cause # PSMCause(r)
    BY <1>6 DEF CausesIn, PSMCause
  <2>2. x.cause # PSMCause(r)
    BY <1>2, <1>5, <1>7 DEF Linked
  <2> QED BY <2>1, <2>2 DEF Caused
<1>9. Cardinality(Waiting(g, r)) = l
  <2>1. LinkedAt(items, r, 1, l)
    <3>1. \A j \in 1 .. l : Linked(items[j], r)
      BY <1>5 DEF Linked
    <3>2. ~Linked(items[l + 1], r)
      BY <1>5 DEF Linked
    <3>3. \A j \in 1 .. Len(items) : Linked(items[j], r) <=> j \in 1 .. l
      BY <1>4, <3>1, <3>2
    <3> QED BY <1>4, <3>3 DEF LinkedAt
  <2>2. Recounted(f, g, r, 1, l)
    BY <2>1, WaitingCount DEF Swaps
  <2>3. Cardinality(Waiting(f, r)) = 0
    <3>1. f \in Seq(Item) /\ DOMAIN f = 1 .. Len(f) /\ Len(f) \in Nat
      BY DEF Swaps
    <3>2. \A d \in 0 .. Len(f) - 1 : Len(f) - d \in DOMAIN f
      BY <3>1
    <3>3. Waiting(f, r) = {}
      BY <1>7, <3>2 DEF Waiting
    <3> QED BY <3>3, FS_EmptySet
  <2>4. ~Linked(Head(f), r)
    BY <1>2, <1>7
  <2>5. Cardinality(Waiting(g, r)) = 0 + (l - 1 + 1) - 0
    BY <2>2, <2>3, <2>4 DEF Recounted
  <2> QED BY <2>5
<1>10. Emits(g, r)
  BY <1>2, <1>4, <1>5 DEF Emits
<1>11. Counted(tr, r, g, evs \cup {x})
  <2>1. IsFiniteSet({}) /\ Cardinality({}) = 0
    BY FS_EmptySet
  <2>2. PICK k \in Nat : k = Len(tr.chain)
    BY DEF Transition
  <2>3. 0 + l + k = l + k
    OBVIOUS
  <2> QED BY <1>3, <1>8, <1>9, <1>10, <2>1, <2>2, <2>3 DEF Counted
<1>12. \A i \in DOMAIN tr.links : LinkDue(tr.links[i], g, evs \cup {x}, r)
  <2>1. tr.links \in Seq(Link) /\ DOMAIN tr.links = 1 .. l
    BY <1>3 DEF Transition
  <2>2. ASSUME NEW i \in 1 .. l
        PROVE  LinkDue(tr.links[i], g, evs \cup {x}, r)
    <3>1. PICK j \in DOMAIN g : g[j] = items[i]
      <4>1. i \in 1 .. Len(items)
        BY <1>4
      <4> QED BY <1>2, <4>1
    <3>2. /\ Linked(g[j], r) /\ g[j].spec.inner = tr.links[i].inner
          /\ g[j].spec.keys.entity = tr.links[i].keys.entity
      BY <1>5, <3>1 DEF Linked
    <3> QED BY <3>2 DEF LinkDue
  <2> QED BY <2>1, <2>2
<1>13. \A i \in DOMAIN box : box[i].cause # r
  BY <1>6 DEF CausesIn
<1>14. ASSUME NEW j \in DOMAIN g, g[j].op = "emit", g[j].ref = r
       PROVE  EmitFor(x, tr, m, g[j])
  <2>1. PICK k \in 1 .. Len(items) : g[j] = items[k]
    BY <1>2, <1>7, <1>14
  <2>2. k = l + 1
    BY <1>4, <1>5, <1>14, <2>1
  <2> HIDE DEF h
  <2> QED BY <1>5, <2>1, <2>2 DEF EmitFor
<1> QED BY <1>1, <1>10, <1>11, <1>12, <1>13, <1>14 DEF Effects

LEMMA WrittenEffects ==
  ASSUME NEW m, NEW f, NEW items, NEW g, Swaps(m, m, f, items, g),
         NEW evs \in SUBSET EventRow, NEW box, TxEffects(m, f, evs, box),
         NEW x \in EventRow, RefOf(x) \notin Refs(evs), NEW tr \in Transition,
         TransitionOn(x, tr), Comes(x, tr, m, Head(f), items)
  PROVE  TxEffects(m, g, evs \cup {x}, box)
<1> DEFINE h == Head(f)
<1>1. PICK r \in EventRef : r = RefOf(x)
  BY RefType
<1>2. /\ h = f[1] /\ 1 \in DOMAIN f
      /\ \A i \in DOMAIN g : \/ \E j \in 1 .. Len(items) : g[i] = items[j]
                             \/ \E k \in DOMAIN f : k # 1 /\ g[i] = f[k]
  BY SwapPlaces
<1>3. PICK l \in Nat : l = Len(tr.links)
  BY DEF Comes
<1>4. /\ Len(items) = l + 1
      /\ \A j \in 1 .. Len(items) : j \in 1 .. l \/ j = l + 1
  BY <1>3 DEF Comes
<1>5. /\ \A i \in 1 .. l : items[i].op = "runTx" /\ items[i].spec.cause = PSMCause(r)
      /\ items[l + 1].op = "emit" /\ items[l + 1].ref = r
      /\ m[h.act].keys = x.keys /\ x.cause = h.spec.cause /\ x.inner = h.spec.inner
      /\ h.spec.keys.entity = m[h.act].keys.entity /\ h.op = "run"
  BY <1>1, <1>3 DEF Comes
<1> HIDE DEF h
<1>6. CausesIn(f, evs, box) /\ EmitsDiffer(f) /\ r \notin Refs(evs)
  BY <1>1 DEF TxEffects
<1>7. Refs(evs \cup {x}) = Refs(evs) \cup {r}
  BY <1>1, NewRefs
<1>8. CausesIn(g, evs \cup {x}, box)
  <2>1. FromOutside(h.spec) \/ h.spec.cause.event \in Refs(evs)
    BY <1>2, <1>5, <1>6 DEF CausesIn
  <2>2. x.cause.type = "psm" => x.cause.event \in Refs(evs)
    <3>1. x.cause # NoCause
      BY NoCauseAssumption DEF EventRow
    <3> QED BY <1>5, <2>1, <3>1 DEF FromOutside
  <2>3. ASSUME NEW i \in DOMAIN g
        PROVE  IF g[i].op = "emit" THEN g[i].ref \in Refs(evs) \cup {r}
               ELSE FromOutside(g[i].spec) \/ g[i].spec.cause.event \in Refs(evs) \cup {r}
    <3>1. CASE \E j \in 1 .. Len(items) : g[i] = items[j]
      BY <1>4, <1>5, <3>1 DEF PSMCause
    <3>2. CASE \E k \in DOMAIN f : k # 1 /\ g[i] = f[k]
      BY <1>6, <3>2 DEF CausesIn
    <3> QED BY <1>2, <3>1, <3>2
  <2> QED BY <1>6, <1>7, <2>2, <2>3 DEF CausesIn
<1>9. EmitsDiffer(g)
  <2>1. DOMAIN items = 1 .. Len(items)
    BY DEF Swaps
  <2>2. \A i \in DOMAIN items : items[i].op = "emit" => i = l + 1
    BY <1>4, <1>5, <2>1
  <2>3. EmitsDiffer(items)
    BY <2>2 DEF EmitsDiffer
  <2>4. \A k \in DOMAIN f : f[k].op = "emit" => f[k].ref # r
    BY <1>6 DEF CausesIn
  <2>5. \A i \in DOMAIN items : items[i].op = "emit" =>
          \A k \in DOMAIN f : f[k].op = "emit" => f[k].ref # items[i].ref
    BY <1>5, <2>2, <2>4
  <2> QED BY <1>6, <2>3, <2>5, EmitsStayApart
<1>10. ASSUME NEW e \in evs
      PROVE  \E t \in Transition : TransitionOn(e, t) /\ Effects(e, t, m, g, evs \cup {x}, box)
  <2>1. PICK t \in Transition : TransitionOn(e, t) /\ Effects(e, t, m, f, evs, box)
    BY DEF TxEffects
  <2>2. PICK ref \in EventRef : ref = RefOf(e)
    BY RefType
  <2>3. ref # r /\ x \notin evs
    BY <1>1, <1>6, <2>2 DEF Refs
  <2>4. IsFiniteSet(Caused(evs, ref)) /\ Cardinality(Caused(evs, ref)) \in Nat
    BY <2>1, <2>2, FS_CardinalityType DEF Effects, Counted
  <2>5. \A j \in 1 .. Len(items) : ~Linked(items[j], ref)
    BY <1>4, <1>5, <2>3 DEF Linked, PSMCause
  <2>6. LinkedAt(items, ref, 1, 0) /\ 0 - 1 + 1 = 0
    BY <1>4, <2>5 DEF LinkedAt
  <2>7. Balanced(ref, f, g, evs, evs \cup {x})
    <3>1. CASE Linked(h, ref)
      <4>1. x \notin Caused(evs, ref) /\ Caused(evs \cup {x}, ref) = Caused(evs, ref) \cup {x}
        BY <1>5, <2>3, <3>1 DEF Caused, Linked
      <4>2. /\ IsFiniteSet(Caused(evs \cup {x}, ref))
            /\ Cardinality(Caused(evs \cup {x}, ref)) = Cardinality(Caused(evs, ref)) + 1
        <5>1. PICK C : C = Caused(evs, ref)
          OBVIOUS
        <5>2. IsFiniteSet(C \cup {x}) /\ Cardinality(C \cup {x}) = Cardinality(C) + 1
          BY <2>4, <4>1, <5>1, FS_AddElement
        <5> QED BY <4>1, <5>1, <5>2
      <4>3. Recounted(f, g, ref, 1, 0)
        BY <2>6, WaitingCount DEF Swaps
      <4>4. PICK w \in Nat : w = Cardinality(Waiting(f, ref))
        BY WaitingFinite DEF Swaps
      <4>5. Cardinality(Waiting(g, ref)) = w + 0 - 1
        BY <2>6, <3>1, <4>3, <4>4 DEF Recounted, h
      <4>6. Cardinality(Caused(evs, ref)) + 1 + (w + 0 - 1) = Cardinality(Caused(evs, ref)) + w
        BY <2>4
      <4> QED BY <4>1, <4>2, <4>4, <4>5, <4>6 DEF Balanced
    <3>2. CASE ~Linked(h, ref)
      <4>1. Caused(evs \cup {x}, ref) = Caused(evs, ref)
        BY <1>5, <3>2 DEF Caused, Linked
      <4>2. Balanced(ref, f, g, evs, evs)
        BY <2>4, <2>6, <3>2, HandedOn DEF h
      <4> QED BY <4>1, <4>2 DEF Balanced
    <3> QED BY <3>1, <3>2
  <2>8. Passed(h, ref, m, items, evs \cup {x})
    <3>1. ASSUME Linked(h, ref)
          PROVE  x \in Caused(evs \cup {x}, ref)
      BY <1>5, <3>1 DEF Caused, Linked
    <3> QED BY <1>5, <3>1 DEF Passed
  <2>9. Elsewhere(f, items, ref)
    <3>1. Head(f).op # "emit"
      BY <1>5 DEF h
    <3> QED BY <1>4, <1>5, <2>3, <3>1 DEF Elsewhere
  <2>10. SameMessages(ref, t.sends, box, box)
    BY DEF SameMessages
  <2>11. Effects(e, t, m, g, evs \cup {x}, box)
    BY <2>1, <2>2, <2>7, <2>8, <2>9, <2>10, EffectsKept DEF h
  <2> QED BY <2>1, <2>11
<1>11. Effects(x, tr, m, g, evs \cup {x}, box)
  BY FreshEffects
<1> QED BY <1>8, <1>9, <1>10, <1>11 DEF TxEffects

(***************************************************************************)
(* After the hooks: the chained events come up, the messages are written.  *)
(***************************************************************************)
Hooked(h, items, more) ==
  /\ h.op = "emit" /\ h.tr \in Transition /\ h.ref \in EventRef
  /\ Len(items) = Len(h.tr.chain)
  /\ \A i \in 1 .. Len(items) :
       /\ items[i].op = "run" /\ items[i].spec.cause = PSMCause(h.ref)
       /\ items[i].spec.inner = h.tr.chain[i] /\ items[i].act = h.act
  /\ more \in Seq(OutboxMessage) /\ Len(more) = Len(h.tr.sends)
  /\ \A i \in DOMAIN more : more[i] = [msg |-> h.tr.sends[i], cause |-> h.ref]

(* The event whose hooks have run. *)
LEMMA DoneEffects ==
  ASSUME NEW m, NEW f, NEW items, NEW g, Swaps(m, m, f, items, g),
         NEW evs \in SUBSET EventRow, NEW box \in Seq(OutboxMessage), NEW more,
         EmitsDiffer(f), Hooked(Head(f), items, more),
         NEW e, NEW tr \in Transition, Effects(e, tr, m, f, evs, box),
         RefOf(e) = Head(f).ref
  PROVE  Effects(e, tr, m, g, evs, box \o more)
<1> DEFINE h == Head(f)
<1>1. PICK r \in EventRef : r = RefOf(e) /\ r = h.ref
  BY DEF Hooked
<1>2. /\ h = f[1] /\ 1 \in DOMAIN f
      /\ \A i \in DOMAIN g : \/ \E j \in 1 .. Len(items) : g[i] = items[j]
                             \/ \E k \in DOMAIN f : k # 1 /\ g[i] = f[k]
      /\ \A j \in 1 .. Len(items) : \E i \in DOMAIN g : g[i] = items[j]
      /\ \A k \in DOMAIN f : k # 1 => \E i \in DOMAIN g : g[i] = f[k]
  BY SwapPlaces
<1>3. h.op = "emit" /\ ~Linked(h, r) /\ Emits(f, r)
  BY <1>1, <1>2 DEF Hooked, Linked, Emits
<1>4. /\ Counted(tr, r, f, evs)
      /\ \A i \in DOMAIN tr.links : LinkDue(tr.links[i], f, evs, r)
      /\ \A i \in DOMAIN box : box[i].cause # r
      /\ h.tr = tr /\ m[h.act].keys = e.keys
  BY <1>1, <1>2, <1>3 DEF Effects, EmitFor
<1>5. PICK l \in Nat : l = Len(tr.chain) /\ DOMAIN tr.chain = 1 .. l
  BY DEF Transition
<1>6. /\ Len(items) = l
      /\ \A i \in 1 .. l :
           /\ items[i].op = "run" /\ items[i].spec.cause = PSMCause(r)
           /\ items[i].spec.inner = tr.chain[i] /\ items[i].act = h.act
  BY <1>1, <1>4, <1>5 DEF Hooked
<1> HIDE DEF h
<1>7. ~Emits(g, r)
  <2>1. \A k \in DOMAIN f : k # 1 => ~(f[k].op = "emit" /\ f[k].ref = r)
    BY <1>1, <1>2, <1>3 DEF EmitsDiffer
  <2> QED BY <1>2, <1>6, <2>1 DEF Emits
<1>8. Counted(tr, r, g, evs)
  <2>1. LinkedAt(items, r, 1, l)
    <3>1. \A j \in 1 .. l : Linked(items[j], r)
      BY <1>6 DEF Linked
    <3> QED BY <1>6, <3>1 DEF LinkedAt
  <2>2. Recounted(f, g, r, 1, l)
    BY <2>1, WaitingCount DEF Swaps
  <2>3. PICK w \in Nat : w = Cardinality(Waiting(f, r))
    BY WaitingFinite DEF Swaps
  <2>4. Cardinality(Waiting(g, r)) = w + (l - 1 + 1) - 0
    BY <1>3, <2>2, <2>3 DEF Recounted, h
  <2>5. PICK x \in Nat : x = Cardinality(Caused(evs, r)) /\ IsFiniteSet(Caused(evs, r))
    BY <1>4, FS_CardinalityType DEF Counted
  <2>6. x + w + l = Len(tr.links) + l
    BY <1>3, <1>4, <1>5, <2>3, <2>5 DEF Counted
  <2>7. x + (w + (l - 1 + 1) - 0) + 0 = Len(tr.links) + l
    BY <2>6
  <2> QED BY <1>5, <1>7, <2>4, <2>5, <2>7 DEF Counted
<1>9. \A i \in DOMAIN tr.links : LinkDue(tr.links[i], g, evs, r)
  <2>1. ASSUME NEW j \in DOMAIN f, Linked(f[j], r)
        PROVE  \E i \in DOMAIN g : g[i] = f[j]
    BY <1>2, <1>3, <2>1
  <2>2. ASSUME NEW link, LinkDue(link, f, evs, r)
        PROVE  LinkDue(link, g, evs, r)
    BY <2>1, <2>2 DEF LinkDue
  <2> QED BY <1>4, <2>2
<1>10. \A i \in DOMAIN tr.chain : ChainDue(tr.chain[i], e.keys, m, g, evs, r)
  <2>1. ASSUME NEW i \in 1 .. l
        PROVE  ChainDue(tr.chain[i], e.keys, m, g, evs, r)
    <3>1. PICK j \in DOMAIN g : g[j] = items[i]
      BY <1>2, <1>6
    <3>2. /\ Linked(g[j], r) /\ g[j].op = "run" /\ g[j].spec.inner = tr.chain[i]
          /\ m[g[j].act].keys = e.keys
      BY <1>4, <1>6, <3>1 DEF Linked
    <3> QED BY <3>2 DEF ChainDue
  <2> QED BY <1>5, <2>1
<1>11. Sent(box \o more, r, tr.sends)
  <2>1. tr.sends \in Seq(Messages)
    BY DEF Transition
  <2>2. /\ more \in Seq(OutboxMessage) /\ Len(more) = Len(tr.sends)
        /\ \A i \in DOMAIN more : more[i] = [msg |-> tr.sends[i], cause |-> r]
    BY <1>1, <1>4 DEF Hooked, h
  <2> QED BY <1>4, <2>1, <2>2, SentNow
<1>12. \A j \in DOMAIN g : ~(g[j].op = "emit" /\ g[j].ref = r)
  BY <1>7 DEF Emits
<1> QED BY <1>1, <1>7, <1>8, <1>9, <1>10, <1>11, <1>12 DEF Effects

LEMMA HookedEffects ==
  ASSUME NEW m, NEW f, NEW items, NEW g, Swaps(m, m, f, items, g),
         NEW evs \in SUBSET EventRow, NEW box \in Seq(OutboxMessage), NEW more,
         TxEffects(m, f, evs, box), Hooked(Head(f), items, more)
  PROVE  TxEffects(m, g, evs, box \o more)
<1> DEFINE h == Head(f)
<1>1. PICK r \in EventRef : r = h.ref
  BY DEF Hooked
<1>2. /\ h = f[1] /\ 1 \in DOMAIN f
      /\ \A i \in DOMAIN g : \/ \E j \in 1 .. Len(items) : g[i] = items[j]
                             \/ \E k \in DOMAIN f : k # 1 /\ g[i] = f[k]
  BY SwapPlaces
<1>3. /\ h.op = "emit"
      /\ \A i \in 1 .. Len(items) : items[i].op = "run" /\ items[i].spec.cause = PSMCause(r)
      /\ more \in Seq(OutboxMessage) /\ \A i \in DOMAIN more : more[i].cause = r
  BY <1>1 DEF Hooked
<1> HIDE DEF h
<1>4. CausesIn(f, evs, box) /\ EmitsDiffer(f) /\ r \in Refs(evs)
  BY <1>1, <1>2, <1>3 DEF TxEffects, CausesIn
<1>5. CausesIn(g, evs, box \o more)
  <2>1. ASSUME NEW i \in DOMAIN g
        PROVE  IF g[i].op = "emit" THEN g[i].ref \in Refs(evs)
               ELSE FromOutside(g[i].spec) \/ g[i].spec.cause.event \in Refs(evs)
    <3>1. CASE \E j \in 1 .. Len(items) : g[i] = items[j]
      BY <1>3, <1>4, <3>1 DEF PSMCause
    <3>2. CASE \E k \in DOMAIN f : k # 1 /\ g[i] = f[k]
      BY <1>4, <3>2 DEF CausesIn
    <3> QED BY <1>2, <3>1, <3>2
  <2>2. ASSUME NEW i \in DOMAIN (box \o more)
        PROVE  (box \o more)[i].cause \in Refs(evs)
    <3> DEFINE all == box \o more
    <3>1. /\ DOMAIN all = 1 .. Len(box) + Len(more)
          /\ \A j \in 1 .. Len(box) : all[j] = box[j]
          /\ \A j \in Len(box) + 1 .. Len(box) + Len(more) : all[j] = more[j - Len(box)]
      BY <1>3, Joined
    <3>2. DOMAIN box = 1 .. Len(box) /\ DOMAIN more = 1 .. Len(more)
          /\ Len(box) \in Nat /\ Len(more) \in Nat
      BY <1>3
    <3> HIDE DEF all
    <3>3. CASE i \in 1 .. Len(box)
      BY <1>4, <3>1, <3>2, <3>3 DEF CausesIn, all
    <3>4. CASE i \notin 1 .. Len(box)
      <4>1. i \in Len(box) + 1 .. Len(box) + Len(more) /\ i - Len(box) \in DOMAIN more
        BY <2>2, <3>1, <3>2, <3>4 DEF all
      <4> QED BY <1>3, <1>4, <3>1, <4>1 DEF all
    <3> QED BY <3>3, <3>4
  <2> QED BY <1>4, <2>1, <2>2 DEF CausesIn
<1>6. EmitsDiffer(g)
  <2>1. DOMAIN items = 1 .. Len(items)
    BY DEF Swaps
  <2>2. \A i \in DOMAIN items : items[i].op # "emit"
    BY <1>3, <2>1
  <2> QED BY <1>4, <2>2, EmitsStayApart DEF EmitsDiffer
<1>7. ASSUME NEW e \in evs
      PROVE  \E tr \in Transition : TransitionOn(e, tr) /\ Effects(e, tr, m, g, evs, box \o more)
  <2>1. PICK tr \in Transition : TransitionOn(e, tr) /\ Effects(e, tr, m, f, evs, box)
    BY DEF TxEffects
  <2>2. PICK ref \in EventRef : ref = RefOf(e)
    BY RefType
  <2>3. CASE ref = r
    <3>1. Effects(e, tr, m, g, evs, box \o more)
      BY <1>1, <1>4, <2>1, <2>2, <2>3, DoneEffects DEF h
    <3> QED BY <2>1, <3>1
  <2>4. CASE ref # r
    <3>1. \A j \in 1 .. Len(items) : ~Linked(items[j], ref)
      BY <1>3, <2>4 DEF Linked, PSMCause
    <3>2. LinkedAt(items, ref, 1, 0) /\ 0 - 1 + 1 = 0
      BY <3>1 DEF LinkedAt, Swaps
    <3>3. ~Linked(h, ref)
      BY <1>3 DEF Linked
    <3>4. Balanced(ref, f, g, evs, evs)
      <4>1. IsFiniteSet(Caused(evs, ref))
        BY <2>1, <2>2 DEF Effects, Counted
      <4> QED BY <3>2, <3>3, <4>1, HandedOn DEF h
    <3>5. Passed(h, ref, m, items, evs)
      BY <3>3 DEF Passed
    <3>6. Elsewhere(f, items, ref)
      BY <1>1, <1>3, <2>4 DEF Elsewhere, h
    <3>7. SameMessages(ref, tr.sends, box, box \o more)
      <4>1. tr.sends \in Seq(Messages)
        BY DEF Transition
      <4>2. \A i \in DOMAIN more : more[i].cause # ref
        BY <1>3, <2>4
      <4>3. Sent(box, ref, tr.sends) => Sent(box \o more, ref, tr.sends)
        BY <1>3, <4>1, <4>2, SentMore
      <4>4. (\A i \in DOMAIN box : box[i].cause # ref)
              => \A i \in DOMAIN (box \o more) : (box \o more)[i].cause # ref
        <5>1. /\ DOMAIN (box \o more) = 1 .. Len(box) + Len(more)
              /\ \A j \in 1 .. Len(box) : (box \o more)[j] = box[j]
              /\ \A j \in Len(box) + 1 .. Len(box) + Len(more) :
                   (box \o more)[j] = more[j - Len(box)]
          BY <1>3, Joined
        <5>2. DOMAIN box = 1 .. Len(box) /\ DOMAIN more = 1 .. Len(more)
              /\ Len(box) \in Nat /\ Len(more) \in Nat
          BY <1>3
        <5> DEFINE all == box \o more
        <5> HIDE DEF all
        <5>3. ASSUME \A i \in DOMAIN box : box[i].cause # ref, NEW i \in DOMAIN all
              PROVE  all[i].cause # ref
          <6>1. CASE i \in 1 .. Len(box)
            BY <5>1, <5>2, <5>3, <6>1 DEF all
          <6>2. CASE i \notin 1 .. Len(box)
            <7>1. i \in Len(box) + 1 .. Len(box) + Len(more) /\ i - Len(box) \in DOMAIN more
              BY <5>1, <5>2, <5>3, <6>2 DEF all
            <7> QED BY <4>2, <5>1, <7>1 DEF all
          <6> QED BY <6>1, <6>2
        <5> QED BY <5>3 DEF all
      <4> QED BY <4>3, <4>4 DEF SameMessages
    <3>8. Effects(e, tr, m, g, evs, box \o more)
      BY <2>1, <2>2, <3>4, <3>5, <3>6, <3>7, EffectsKept DEF h
    <3> QED BY <2>1, <3>8
  <2> QED BY <2>3, <2>4
<1> QED BY <1>5, <1>6, <1>7 DEF TxEffects

-----------------------------------------------------------------------------
RefsApart ==
  \A c \in Clients :
    /\ Refs(txEvents[c]) \cap Refs(events) = {}
    /\ \A d \in Clients \ {c} : Refs(txEvents[c]) \cap Refs(txEvents[d]) = {}

EffectsInv ==
  /\ EffectsMatchLog
  /\ \A c \in Clients : TxEffects(mem[c], agenda[c], txEvents[c], txOutbox[c])
-----------------------------------------------------------------------------
LEMMA NextRefsApart ==
  ASSUME TypeInv, RefsApart, [Next]_vars
  PROVE  RefsApart'
<1>1. CASE UNCHANGED <<dbVars, agenda, pending, mem>>
  BY <1>1 DEF RefsApart, dbVars, Refs
<1>2. ASSUME NEW c \in Clients, Moves(c)
      PROVE  RefsApart'
  <2>1. \A d \in Clients \ {c} : txEvents'[d] = txEvents[d]
    BY <1>2, OthersKeepWrites
  <2>2. CASE UNCHANGED <<events, txEvents>>
    BY <2>2 DEF RefsApart, Refs
  <2>3. CASE RollsBack(c) \/ Commits(c)
    <3>1. txEvents'[c] = {} /\ events' \subseteq events \cup txEvents[c]
      BY <2>3, DBTypes DEF RollsBack, Commits, RollbackTx, CommitTx, ClearTx, tables
    <3>2. Refs({}) = {} /\ Refs(events') \subseteq Refs(events) \cup Refs(txEvents[c])
      BY <3>1 DEF Refs
    <3>3. /\ Refs(txEvents'[c]) = {}
          /\ \A d \in Clients \ {c} : Refs(txEvents'[d]) = Refs(txEvents[d])
      BY <2>1, <3>1, <3>2
    <3>4. /\ \A d \in Clients : Refs(txEvents'[d]) \cap Refs(events') = {}
          /\ \A d \in Clients : \A b \in Clients \ {d} :
               Refs(txEvents'[d]) \cap Refs(txEvents'[b]) = {}
      BY <3>2, <3>3 DEF RefsApart
    <3> QED BY <3>4 DEF RefsApart, Refs
  <2>4. CASE Inserts(c)
    <3> DEFINE r == RefOf(pending[c].row)
    <3>1. txEvents'[c] = txEvents[c] \cup {pending[c].row} /\ events' = events
      BY <2>4, DBTypes DEF Inserts, InsertEvent, tables
    <3>2. Refs(txEvents'[c]) = Refs(txEvents[c]) \cup {r}
      BY <3>1, NewRefs
    <3>3. r \notin Refs(events) /\ \A d \in Clients \ {c} : r \notin Refs(txEvents[d])
      BY <2>4 DEF Inserts, RefTaken, EventWaitsFor, Refs
    <3>4. \A d \in Clients \ {c} : Refs(txEvents'[d]) = Refs(txEvents[d])
      BY <2>1
    <3> HIDE DEF r
    <3>5. /\ \A d \in Clients : Refs(txEvents'[d]) \cap Refs(events) = {}
          /\ \A d \in Clients : \A b \in Clients \ {d} :
               Refs(txEvents'[d]) \cap Refs(txEvents'[b]) = {}
      BY <3>2, <3>3, <3>4 DEF RefsApart
    <3> QED BY <3>1, <3>5 DEF RefsApart, Refs
  <2> QED BY <1>2, <2>2, <2>3, <2>4
          DEF Moves, Open, BeginTx, Checks, LoadsNothing, LoadsRow, Upsert, UpsertRow,
              Emit, HookWrites, tables, dbVars
<1> QED BY <1>1, <1>2, NextMoves
-----------------------------------------------------------------------------
(***************************************************************************)
(* A transaction with nothing left to do, and its commit.                  *)
(***************************************************************************)
Done(e, tr, evs, box) ==
  /\ Sent(box, RefOf(e), tr.sends)
  /\ Cardinality(Caused(evs, RefOf(e))) = Len(tr.links) + Len(tr.chain)
  /\ \A i \in DOMAIN tr.links : \E x \in Caused(evs, RefOf(e)) :
       x.keys.entity = tr.links[i].keys.entity /\ x.inner = tr.links[i].inner
  /\ \A i \in DOMAIN tr.chain : \E x \in Caused(evs, RefOf(e)) :
       x.keys = e.keys /\ x.inner = tr.chain[i]

Logged(evs, box) ==
  /\ \A e \in evs : \E tr \in Transition : TransitionOn(e, tr) /\ Done(e, tr, evs, box)
  /\ \A i \in DOMAIN box : box[i].cause \in Refs(evs)
  /\ \A e \in evs : e.cause.type = "psm" => e.cause.event \in Refs(evs)

LEMMA EndOfRun ==
  ASSUME NEW m, NEW evs, NEW box, TxEffects(m, <<>>, evs, box)
  PROVE  Logged(evs, box)
<1>1. ASSUME NEW e \in evs
      PROVE  \E tr \in Transition : TransitionOn(e, tr) /\ Done(e, tr, evs, box)
  <2>1. PICK tr \in Transition : TransitionOn(e, tr) /\ Effects(e, tr, m, <<>>, evs, box)
    BY DEF TxEffects
  <2>2. PICK f : f = <<>>
    OBVIOUS
  <2>3. DOMAIN f = {} /\ Len(f) = 0
    BY <2>2
  <2>4. PICK ref : ref = RefOf(e)
    OBVIOUS
  <2>5. ~Emits(f, ref) /\ Waiting(f, ref) = {}
    BY <2>3 DEF Emits, Waiting
  <2>6. Effects(e, tr, m, f, evs, box)
    BY <2>1, <2>2
  <2>7. /\ Counted(tr, ref, f, evs) /\ Sent(box, ref, tr.sends)
        /\ \A i \in DOMAIN tr.links : LinkDue(tr.links[i], f, evs, ref)
        /\ \A i \in DOMAIN tr.chain : ChainDue(tr.chain[i], e.keys, m, f, evs, ref)
    BY <2>4, <2>5, <2>6 DEF Effects
  <2>8. Cardinality(Caused(evs, ref)) = Len(tr.links) + Len(tr.chain)
    <3>1. PICK n \in Nat : n = Cardinality(Caused(evs, ref))
      BY <2>7, FS_CardinalityType DEF Counted
    <3>2. n + 0 + 0 = Len(tr.links) + Len(tr.chain)
      BY <2>5, <2>7, <3>1, FS_EmptySet DEF Counted
    <3>3. n + 0 + 0 = n
      OBVIOUS
    <3> QED BY <3>1, <3>2, <3>3
  <2>9. Done(e, tr, evs, box)
    BY <2>3, <2>4, <2>7, <2>8 DEF Done, LinkDue, ChainDue
  <2> QED BY <2>1, <2>9
<1> QED BY <1>1 DEF Logged, TxEffects, CausesIn

LEMMA LoggedTogether ==
  ASSUME NEW evs \in SUBSET EventRow, NEW box \in Seq(OutboxMessage), Logged(evs, box),
         NEW more \in SUBSET EventRow, NEW msgs \in Seq(OutboxMessage), Logged(more, msgs),
         Refs(evs) \cap Refs(more) = {}
  PROVE  Logged(evs \cup more, box \o msgs)
<1>1. Refs(evs \cup more) = Refs(evs) \cup Refs(more)
  BY DEF Refs
<1>2. ASSUME NEW e \in evs
      PROVE  \E tr \in Transition :
               TransitionOn(e, tr) /\ Done(e, tr, evs \cup more, box \o msgs)
  <2>1. PICK tr \in Transition : TransitionOn(e, tr) /\ Done(e, tr, evs, box)
    BY DEF Logged
  <2>2. RefOf(e) \in Refs(evs) /\ RefOf(e) \notin Refs(more)
    BY DEF Refs
  <2>3. Caused(evs \cup more, RefOf(e)) = Caused(evs, RefOf(e))
    BY <2>2 DEF Caused, Logged, PSMCause
  <2>4. tr.sends \in Seq(Messages) /\ \A i \in DOMAIN msgs : msgs[i].cause # RefOf(e)
    BY <2>2 DEF Transition, Logged
  <2>5. Sent(box \o msgs, RefOf(e), tr.sends)
    BY <2>1, <2>4, SentMore DEF Done
  <2> QED BY <2>1, <2>3, <2>5 DEF Done
<1>3. ASSUME NEW e \in more
      PROVE  \E tr \in Transition :
               TransitionOn(e, tr) /\ Done(e, tr, evs \cup more, box \o msgs)
  <2>1. PICK tr \in Transition : TransitionOn(e, tr) /\ Done(e, tr, more, msgs)
    BY DEF Logged
  <2>2. RefOf(e) \in Refs(more) /\ RefOf(e) \notin Refs(evs)
    BY DEF Refs
  <2>3. Caused(evs \cup more, RefOf(e)) = Caused(more, RefOf(e))
    BY <2>2 DEF Caused, Logged, PSMCause
  <2>4. tr.sends \in Seq(Messages) /\ \A i \in DOMAIN box : box[i].cause # RefOf(e)
    BY <2>2 DEF Transition, Logged
  <2>5. Sent(box \o msgs, RefOf(e), tr.sends)
    BY <2>1, <2>4, SentMore DEF Done
  <2> QED BY <2>1, <2>3, <2>5 DEF Done
<1>4. ASSUME NEW i \in DOMAIN (box \o msgs)
      PROVE  (box \o msgs)[i].cause \in Refs(evs) \cup Refs(more)
  <2> DEFINE all == box \o msgs
  <2>1. /\ DOMAIN all = 1 .. Len(box) + Len(msgs)
        /\ \A j \in 1 .. Len(box) : all[j] = box[j]
        /\ \A j \in Len(box) + 1 .. Len(box) + Len(msgs) : all[j] = msgs[j - Len(box)]
    BY Joined
  <2>2. DOMAIN box = 1 .. Len(box) /\ DOMAIN msgs = 1 .. Len(msgs)
        /\ Len(box) \in Nat /\ Len(msgs) \in Nat
    OBVIOUS
  <2> HIDE DEF all
  <2>3. CASE i \in 1 .. Len(box)
    BY <2>1, <2>2, <2>3 DEF Logged, all
  <2>4. CASE i \notin 1 .. Len(box)
    <3>1. i \in Len(box) + 1 .. Len(box) + Len(msgs) /\ i - Len(box) \in DOMAIN msgs
      BY <1>4, <2>1, <2>2, <2>4 DEF all
    <3>2. msgs[i - Len(box)].cause \in Refs(more)
      BY <3>1 DEF Logged
    <3> QED BY <2>1, <3>1, <3>2 DEF all
  <2> QED BY <2>3, <2>4
<1>5. \A e \in evs \cup more :
        e.cause.type = "psm" => e.cause.event \in Refs(evs) \cup Refs(more)
  BY DEF Logged
<1> QED BY <1>1, <1>2, <1>3, <1>4, <1>5 DEF Logged

LEMMA LogIsLogged ==
  ASSUME events \in SUBSET EventRow, EffectsMatchLog
  PROVE  Logged(events, outbox)
<1>1. ASSUME NEW e \in events
      PROVE  \E tr \in Transition : TransitionOn(e, tr) /\ Done(e, tr, events, outbox)
  <2>1. PICK s \in Statuses :
          /\ TransitionFor[MachineOf[e.keys.entity], s, e.inner.type] # NoTransition
          /\ HasEffects(e, TransitionFor[MachineOf[e.keys.entity], s, e.inner.type])
    BY DEF EffectsMatchLog
  <2>2. PICK tr : tr = TransitionFor[MachineOf[e.keys.entity], s, e.inner.type]
    OBVIOUS
  <2>3. tr \in Transition
    <3>1. MachineOf[e.keys.entity] \in Machines /\ e.inner.type \in EventTypes
      BY ValuesAssumption DEF EventRow, Keys, InnerEvent
    <3> QED BY <2>1, <2>2, <3>1, TransitionType
  <2>4. TransitionOn(e, tr)
    BY <2>1, <2>2 DEF TransitionOn
  <2>5. Done(e, tr, events, outbox)
    BY <2>1, <2>2 DEF HasEffects, CausedBy, Done, Caused
  <2> QED BY <2>3, <2>4, <2>5
<1> QED BY <1>1 DEF Logged, EffectsMatchLog

LEMMA LoggedIsMatch ==
  ASSUME Logged(events', outbox')
  PROVE  EffectsMatchLog'
<1>1. ASSUME NEW e \in events'
      PROVE  \E s \in Statuses :
               LET tr == TransitionFor[MachineOf[e.keys.entity], s, e.inner.type]
               IN  tr # NoTransition /\ HasEffects(e, tr)'
  <2>1. PICK tr \in Transition : TransitionOn(e, tr) /\ Done(e, tr, events', outbox')
    BY DEF Logged
  <2>2. HasEffects(e, tr)'
    BY <2>1 DEF HasEffects, CausedBy, Done, Caused
  <2> QED BY <2>1, <2>2 DEF TransitionOn
<1> QED BY <1>1 DEF Logged, EffectsMatchLog, Refs

(* Before its attempt begins a client's agenda is empty; then it is the call's. *)
LEMMA OpenKeepsEffects ==
  ASSUME TypeInv, ClosedInv, CallersInv, EffectsInv, NEW c \in Clients, Open(c)
  PROVE  TxEffects(mem'[c], agenda'[c], txEvents'[c], txOutbox'[c])
<1>1. /\ pc[c] = "called" /\ UNCHANGED <<mem, txEvents, txOutbox>>
      /\ agenda' = [agenda EXCEPT ![c] = [i \in 1 .. Len(job[c]) |-> RunTx(job[c][i], i)]]
  BY DEF Open, BeginTx
<1>2. PICK m, evs, box : m = mem[c] /\ evs = txEvents[c] /\ box = txOutbox[c]
  OBVIOUS
<1>3. TxEffects(m, <<>>, evs, box)
  BY <1>1, <1>2 DEF ClosedInv, EffectsInv
<1>4. PICK g : g = agenda'[c]
  OBVIOUS
<1>5. /\ DOMAIN g = 1 .. Len(job[c]) /\ Len(job[c]) \in Nat /\ Len(g) = Len(job[c])
      /\ \A i \in DOMAIN g : g[i].op = "runTx" /\ FromOutside(g[i].spec)
  <2>1. job[c] \in Seq(EventSpec) /\ g = [i \in 1 .. Len(job[c]) |-> RunTx(job[c][i], i)]
    BY <1>1, <1>4 DEF TypeInv, CallTypeOK, RunTypeInv
  <2>2. \A i \in 1 .. Len(job[c]) : FromOutside(job[c][i])
    BY <2>1 DEF CallersInv, CallerSpec
  <2> QED BY <2>1, <2>2 DEF RunTx
<1>6. ASSUME NEW e \in evs
      PROVE  \E tr \in Transition : TransitionOn(e, tr) /\ Effects(e, tr, m, g, evs, box)
  <2>1. PICK f : f = <<>>
    OBVIOUS
  <2>2. PICK tr \in Transition : TransitionOn(e, tr) /\ Effects(e, tr, m, f, evs, box)
    BY <1>3, <2>1 DEF TxEffects
  <2>3. PICK ref \in EventRef : ref = RefOf(e)
    BY <1>2, RefType DEF TypeInv, DBTypeOK
  <2>4. DOMAIN f = {} /\ Len(f) = 0
    BY <2>1
  <2>5. /\ ~Emits(f, ref) /\ ~Emits(g, ref)
        /\ Waiting(f, ref) = {} /\ Waiting(g, ref) = {}
    <3>1. \A i \in DOMAIN g : ~Linked(g[i], ref) /\ g[i].op # "emit"
      BY <1>5, OutsideNotLinked
    <3>2. \A d \in 0 .. Len(g) - 1 : Len(g) - d \in DOMAIN g
      BY <1>5
    <3> QED BY <2>4, <3>1, <3>2 DEF Emits, Waiting
  <2>6. Effects(e, tr, m, g, evs, box)
    <3>1. Counted(tr, ref, g, evs)
      BY <2>2, <2>3, <2>5 DEF Effects, Counted
    <3>2. \A i \in DOMAIN tr.links : LinkDue(tr.links[i], g, evs, ref)
      BY <2>2, <2>3, <2>4 DEF Effects, LinkDue
    <3>3. \A i \in DOMAIN tr.chain : ChainDue(tr.chain[i], e.keys, m, g, evs, ref)
      BY <2>2, <2>3, <2>4, <2>5 DEF Effects, ChainDue
    <3>4. Sent(box, ref, tr.sends)
      BY <2>2, <2>3, <2>5 DEF Effects
    <3> QED BY <1>5, <2>3, <2>5, <3>1, <3>2, <3>3, <3>4 DEF Effects
  <2> QED BY <2>2, <2>6
<1>7. CausesIn(g, evs, box) /\ EmitsDiffer(g)
  BY <1>3, <1>5 DEF TxEffects, CausesIn, EmitsDiffer
<1>8. TxEffects(m, g, evs, box)
  BY <1>6, <1>7 DEF TxEffects
<1> QED BY <1>1, <1>2, <1>4, <1>8

(* What the three actions on the head of runTx put in its place. *)
LEMMA SwapOf ==
  ASSUME TypeInv, NEW c \in Clients, agenda[c] # <<>>, NEW items \in Seq(Item),
         Push(c, items), Keeps(mem[c], mem'[c])
  PROVE  Swaps(mem[c], mem'[c], agenda[c], items, agenda'[c])
BY MemTypes, Pushed DEF Swaps

LEMMA HeadReplaced ==
  ASSUME TypeInv, EffectsInv, NEW c \in Clients, agenda[c] # <<>>,
         Head(agenda[c]).op \in {"runTx", "load"}, UNCHANGED <<txEvents, txOutbox>>,
         NEW items \in Seq(Item), Push(c, items), Keeps(mem[c], mem'[c]),
         Replaces(Head(agenda[c]), items)
  PROVE  TxEffects(mem'[c], agenda'[c], txEvents'[c], txOutbox'[c])
<1>1. Swaps(mem[c], mem'[c], agenda[c], items, agenda'[c])
  BY SwapOf
<1>2. TxEffects(mem[c], agenda[c], txEvents[c], txOutbox[c])
  BY DEF EffectsInv
<1>3. txEvents[c] \in SUBSET EventRow
  BY DEF TypeInv, DBTypeOK
<1>4. TxEffects(mem'[c], agenda'[c], txEvents[c], txOutbox[c])
  BY <1>1, <1>2, <1>3, PassedOn
<1> QED BY <1>4

LEMMA ReplacesByOne ==
  ASSUME NEW h, NEW x, x.op # "emit",
         \/ FromOutside(h.spec) /\ FromOutside(x.spec)
         \/ /\ x.spec.cause = h.spec.cause /\ x.spec.inner = h.spec.inner
            /\ x.spec.keys.entity = h.spec.keys.entity
  PROVE  Replaces(h, <<x>>)
<1>1. PICK items : items = <<x>>
  OBVIOUS
<1>2. Len(items) = 1 /\ items[1] = x /\ items # <<>>
  BY <1>1, OneItem
<1>3. \A j \in 1 .. Len(items) : j = 1
  BY <1>2
<1>4. Replaces(h, items)
  BY <1>2, <1>3 DEF Replaces
<1> QED BY <1>1, <1>4

LEMMA ChecksKeepEffects ==
  ASSUME TypeInv, ItemsInv, IdsInv, SnapshotsCommitted, EffectsInv,
         NEW c \in Clients, Checks(c)
  PROVE  TxEffects(mem'[c], agenda'[c], txEvents'[c], txOutbox'[c])
<1> DEFINE h == Head(agenda[c])
<1>1. /\ agenda[c] # <<>> /\ h.op = "runTx" /\ UNCHANGED <<txEvents, txOutbox, mem>>
      /\ h = agenda[c][1] /\ 1 \in DOMAIN agenda[c] /\ minted \in Nat
      /\ mem[c] \in Seq(State) /\ Len(mem[c]) \in Nat
      /\ h.spec \in EventSpec
  <2>1. Next0(c, "runTx") /\ UNCHANGED dbVars /\ UNCHANGED mem
    BY DEF Checks
  <2>2. agenda[c] # <<>> /\ h.op = "runTx" /\ UNCHANGED <<txEvents, txOutbox>>
    BY <2>1 DEF Next0, dbVars
  <2>3. h = agenda[c][1] /\ 1 \in DOMAIN agenda[c]
    BY <2>2, MemTypes, HeadTailProperties
  <2> QED BY <2>1, <2>2, <2>3, MemTypes, ItemTypes DEF TypeInv, CountTypeOK
<1>2. Keeps(mem[c], mem'[c])
  BY <1>1 DEF Keeps
<1>3. CASE Push(c, <<>>) /\ \E e \in VisibleEvents(c) : e.id = WithID(h.spec).id
  <2>1. PICK e \in VisibleEvents(c) : e.id = WithID(h.spec).id
    BY <1>3
  <2>2. Drawn(e.id, minted)
    <3>1. e \in txEvents[c] \cup events
      BY DEF VisibleEvents, SnapshotsCommitted
    <3>2. txEvents[c] \subseteq Stored(c)
      BY DEF Stored
    <3> QED BY <3>1, <3>2 DEF IdsInv
  <2>3. OwnItem(h, minted)
    BY <1>1 DEF ItemsInv
  <2>4. h.spec.id # NoId
    <3>1. ASSUME h.spec.id = NoId
          PROVE  FALSE
      <4>1. WithID(h.spec).id = minted + 1
        BY <1>1, <3>1 DEF WithID, EventSpec
      <4> QED BY <1>1, <2>1, <2>2, <4>1 DEF Drawn
    <3> QED BY <3>1
  <2>5. FromOutside(h.spec)
    BY <1>1, <2>3, <2>4 DEF OwnItem
  <2>6. <<>> \in Seq(Item) /\ Replaces(h, <<>>)
    <3>1. PICK items : items = <<>> /\ Len(items) = 0
      OBVIOUS
    <3>2. \A j \in 1 .. Len(items) : FALSE
      BY <3>1
    <3>3. Replaces(h, items)
      BY <2>5, <3>1, <3>2 DEF Replaces
    <3> QED BY <3>1, <3>3, EmptySeq
  <2> QED BY <1>1, <1>2, <1>3, <2>6, HeadReplaced
<1>4. CASE \E spec \in PreparedSpec, call \in Nat :
             /\ spec.keys = h.spec.keys /\ spec.inner = h.spec.inner
             /\ \/ spec.cause = h.spec.cause
                \/ h.spec.cause = NoCause /\ spec.cause.type # "psm"
             /\ Push(c, <<[op |-> "load", spec |-> spec, call |-> call]>>)
  <2>1. PICK spec \in PreparedSpec, call \in Nat :
             /\ spec.keys = h.spec.keys /\ spec.inner = h.spec.inner
             /\ \/ spec.cause = h.spec.cause
                \/ h.spec.cause = NoCause /\ spec.cause.type # "psm"
             /\ Push(c, <<[op |-> "load", spec |-> spec, call |-> call]>>)
    BY <1>4
  <2>2. PICK x : x = [op |-> "load", spec |-> spec, call |-> call]
    OBVIOUS
  <2>3. x \in Item /\ x.op # "emit" /\ x.spec = spec
    BY <2>2 DEF Item
  <2>4. Replaces(h, <<x>>)
    <3>1. CASE spec.cause = h.spec.cause
      BY <2>1, <2>3, <3>1, ReplacesByOne
    <3>2. CASE h.spec.cause = NoCause /\ spec.cause.type # "psm"
      <4>1. FromOutside(h.spec) /\ FromOutside(x.spec)
        BY <2>3, <3>2 DEF FromOutside
      <4> QED BY <2>3, <4>1, ReplacesByOne
    <3> QED BY <2>1, <3>1, <3>2
  <2>5. <<x>> \in Seq(Item) /\ Push(c, <<x>>)
    BY <2>1, <2>2, <2>3
  <2> QED BY <1>1, <1>2, <2>4, <2>5, HeadReplaced
<1> QED BY <1>3, <1>4 DEF Checks

LEMMA LoadsNothingKeepsEffects ==
  ASSUME TypeInv, EffectsInv, NEW c \in Clients, LoadsNothing(c)
  PROVE  TxEffects(mem'[c], agenda'[c], txEvents'[c], txOutbox'[c])
<1> DEFINE it    == Head(agenda[c])
           act   == Len(mem[c]) + 1
           init  == InitialRun(it.spec.keys, act)
           run   == Run(it.spec, it.call, act)
           items == Append(init, run)
<1>1. Next0(c, "load") /\ UNCHANGED dbVars /\ Push(c, items)
      /\ mem' = [mem EXCEPT ![c] = Append(@, EmptyState(it.spec.keys))]
  BY DEF LoadsNothing
<1>2. /\ agenda[c] # <<>> /\ it.op = "load" /\ it.spec \in PreparedSpec /\ it.call \in Nat
      /\ it.spec.keys \in Keys
  BY <1>1, LoadParts
<1>3. act \in Nat \ {0} /\ minted \in Nat
  BY MemTypes DEF TypeInv, CountTypeOK
<1>4. Keeps(mem[c], mem'[c])
  BY <1>1, <1>2, EmptyStateType, Loaded
<1>5. init \in Seq(Item) /\ Len(init) \in Nat
  <2>1. init \in Seq(ItemUpTo(act)) /\ Len(init) \in Nat
    BY <1>2, <1>3, InitialRunType
  <2> QED BY <2>1, SeqMonotonic DEF ItemUpTo
<1>6. \A j \in 1 .. Len(init) : init[j].op = "run" /\ FromOutside(init[j].spec)
  <2> DEFINE inner == InitialEvent[MachineOf[it.spec.keys.entity]]
             first == Run(Spec0(it.spec.keys, minted + 1, inner, CauseOf("init")), 0, act)
  <2>1. init = <<>> \/ init = <<first>>
    BY DEF InitialRun
  <2>2. first.op = "run" /\ FromOutside(first.spec)
    BY DEF Run, Spec0, CauseOf, FromOutside
  <2> HIDE DEF first, init
  <2>3. CASE init = <<>>
    BY <2>3, EmptySeq
  <2>4. CASE init = <<first>>
    BY <2>2, <2>4, OneItem
  <2> QED BY <2>1, <2>3, <2>4
<1>7. run \in Item /\ run.op = "run" /\ run.spec = it.spec
  <2>1. run \in ItemUpTo(act)
    BY <1>2, <1>3, RunItemType
  <2> QED BY <2>1 DEF ItemUpTo, Run
<1> HIDE DEF init, run, act
<1>8. /\ items \in Seq(Item) /\ Len(items) = Len(init) + 1
      /\ items[Len(init) + 1] = run /\ \A j \in 1 .. Len(init) : items[j] = init[j]
  BY <1>5, <1>7, AppendProperties
<1> HIDE DEF items, it
<1>9. Replaces(it, items)
  <2>1. \A j \in 1 .. Len(items) : j \in 1 .. Len(init) \/ j = Len(items)
    BY <1>5, <1>8
  <2>2. items[Len(items)] = run /\ items # <<>>
    BY <1>5, <1>8
  <2>3. \A j \in 1 .. Len(items) : items[j].op # "emit"
    BY <1>6, <1>7, <1>8, <2>1, <2>2
  <2>4. \A j \in 1 .. Len(items) : j # Len(items) => FromOutside(items[j].spec)
    BY <1>6, <1>8, <2>1
  <2> QED BY <1>7, <2>2, <2>3, <2>4 DEF Replaces
<1>10. UNCHANGED <<txEvents, txOutbox>>
  BY <1>1 DEF dbVars
<1> QED BY <1>1, <1>2, <1>4, <1>8, <1>9, <1>10, HeadReplaced DEF it

LEMMA LoadsRowKeepsEffects ==
  ASSUME TypeInv, EffectsInv, NEW c \in Clients, LoadsRow(c)
  PROVE  TxEffects(mem'[c], agenda'[c], txEvents'[c], txOutbox'[c])
<1> DEFINE it    == Head(agenda[c])
           k     == it.spec.keys.entity
           state == VisibleRow(c, k)
           act   == Len(mem[c]) + 1
           run   == Run(it.spec, it.call, act)
           items == <<run>>
<1>1. Next0(c, "load") /\ UNCHANGED dbVars /\ Push(c, items) /\ state # NoState
      /\ mem' = [mem EXCEPT ![c] = Append(@, state)]
  BY DEF LoadsRow
<1>2. /\ agenda[c] # <<>> /\ it.op = "load" /\ it.spec \in PreparedSpec /\ it.call \in Nat
      /\ k \in Entities
  BY <1>1, LoadParts
<1>3. act \in Nat \ {0}
  BY MemTypes
<1>4. Keeps(mem[c], mem'[c])
  <2>1. state \in State
    BY <1>1, <1>2, VisibleTypes
  <2> HIDE DEF state
  <2> QED BY <1>1, <2>1, Loaded
<1>5. run \in Item /\ run.op = "run" /\ run.spec = it.spec
  <2>1. run \in ItemUpTo(act)
    BY <1>2, <1>3, RunItemType
  <2> QED BY <2>1 DEF ItemUpTo, Run
<1>6. UNCHANGED <<txEvents, txOutbox>>
  BY <1>1 DEF dbVars
<1> HIDE DEF run, it, state, k, act
<1>7. items \in Seq(Item) /\ Replaces(it, items)
  BY <1>5, ReplacesByOne
<1> HIDE DEF items
<1> QED BY <1>1, <1>2, <1>4, <1>6, <1>7, HeadReplaced DEF it

LEMMA UpsertKeepsEffects ==
  ASSUME TypeInv, EffectsInv, NEW c \in Clients, Upsert(c)
  PROVE  TxEffects(mem'[c], agenda'[c], txEvents'[c], txOutbox'[c])
<1>1. agenda' = agenda /\ Keeps(mem[c], mem'[c])
  BY Upserted
<1>2. UNCHANGED <<txEvents, txOutbox>>
  BY DEF Upsert, UpsertRow
<1>3. \A i \in DOMAIN agenda[c] : agenda[c][i] \in ItemUpTo(Len(mem[c]))
  BY MemTypes
<1>4. TxEffects(mem[c], agenda[c], txEvents[c], txOutbox[c])
  BY DEF EffectsInv
<1>5. TxEffects(mem'[c], agenda[c], txEvents[c], txOutbox[c])
  BY <1>1, <1>3, <1>4, StatesKeepEffects
<1> QED BY <1>1, <1>2, <1>5

(* store writes the event that waits, the event of the run at the head. *)
LEMMA InsertsKeepEffects ==
  ASSUME Grounds, PendingHead, EffectsInv, NEW c \in Clients, Inserts(c)
  PROVE  TxEffects(mem'[c], agenda'[c], txEvents'[c], txOutbox'[c])
<1> DEFINE p     == pending[c]
           links == LinkRuns(p)
           emit  == EmitOf(p)
           items == Append(links, emit)
<1>1. PICK h, s, x : h = Head(agenda[c]) /\ s = mem[c][p.act] /\ x = p.row
  OBVIOUS
<1>2. /\ TypeInv /\ p # NoPending /\ UNCHANGED <<mem, txOutbox>>
      /\ ~RefTaken(c, RefOf(x)) /\ Push(c, items) /\ InsertEvent(c, x)
  BY <1>1 DEF Grounds, Inserts, InsertEvent
<1>3. /\ agenda[c] # <<>> /\ IsOf(p, h, s)
      /\ x.id = h.spec.id /\ x.inner = h.spec.inner /\ x.cause = h.spec.cause
  BY <1>1, <1>2 DEF Grounds, PendingInv, PendingOnTop, PendingHead
<1>4. p \in Pending /\ p.act \in 1 .. Len(mem[c]) /\ Len(mem[c]) \in Nat
  BY <1>2, MemTypes DEF TypeInv, RunTypeInv
<1>5. x \in EventRow /\ p.act \in Nat \ {0} /\ p.tr \in Transition
  BY <1>1, <1>4 DEF Pending
<1>6. h.op = "run" /\ h.act = p.act /\ x.keys = s.keys /\ h.spec.keys.entity = s.keys.entity
  <2>1. h.op = "run" /\ h.act = p.act /\ x.keys = s.keys
    BY <1>1, <1>3 DEF IsOf
  <2>2. h \in ItemOn(mem[c])
    <3>1. agenda[c] \in Seq(ItemOn(mem[c]))
      BY DEF Grounds, KeysInv
    <3> QED BY <1>1, <1>3, <3>1, HeadTailProperties
  <2> QED BY <1>1, <2>1, <2>2 DEF ItemOn
<1>7. TransitionOn(x, p.tr)
  BY <1>1, <1>3, <1>6 DEF IsOf, TransitionOn
<1>8. links \in Seq(Item) /\ Len(links) \in Nat /\ emit \in Item
  <2>1. links \in Seq(ItemUpTo(Len(mem[c]))) /\ Len(links) \in Nat
    BY <1>4, LinkRunsType
  <2> QED BY <1>1, <1>5, <2>1, RefType, SeqMonotonic DEF ItemUpTo, Item, EmitOf
<1>9. /\ Len(links) = Len(p.tr.links)
      /\ \A i \in 1 .. Len(links) :
           /\ links[i].op = "runTx" /\ links[i].spec.cause = PSMCause(RefOf(x))
           /\ links[i].spec.inner = p.tr.links[i].inner
           /\ links[i].spec.keys = p.tr.links[i].keys
  <2>1. Len(p.tr.links) \in Nat
    BY <1>5 DEF Transition
  <2>2. Len(links) = Len(p.tr.links)
    BY <2>1 DEF LinkRuns
  <2> QED BY <1>1, <2>2 DEF LinkRuns, RunTx, Spec0
<1>10. emit.op = "emit" /\ emit.ref = RefOf(x) /\ emit.tr = p.tr /\ emit.act = p.act
  BY <1>1 DEF EmitOf
<1> HIDE DEF links, emit
<1>11. /\ items \in Seq(Item) /\ Len(items) = Len(links) + 1
       /\ items[Len(links) + 1] = emit /\ \A j \in 1 .. Len(links) : items[j] = links[j]
  BY <1>8, AppendProperties
<1> HIDE DEF items
<1>12. Comes(x, p.tr, mem[c], h, items)
  <2>1. Len(p.tr.links) \in Nat /\ Len(items) = Len(p.tr.links) + 1
    BY <1>8, <1>9, <1>11
  <2>2. \A i \in 1 .. Len(p.tr.links) :
          /\ items[i].op = "runTx" /\ items[i].spec.cause = PSMCause(RefOf(x))
          /\ items[i].spec.inner = p.tr.links[i].inner
          /\ items[i].spec.keys = p.tr.links[i].keys
    BY <1>9, <1>11
  <2>3. items[Len(p.tr.links) + 1] = emit
    BY <1>9, <1>11
  <2>4. mem[c][h.act] = s
    BY <1>1, <1>6
  <2> QED BY <1>3, <1>6, <1>10, <2>1, <2>2, <2>3, <2>4 DEF Comes
<1>13. txEvents'[c] = txEvents[c] \cup {x} /\ RefOf(x) \notin Refs(txEvents[c])
  BY <1>2, DBTypes DEF InsertEvent, RefTaken, Refs
<1>14. txEvents[c] \in SUBSET EventRow
  BY <1>2 DEF TypeInv, DBTypeOK
<1>15. Swaps(mem[c], mem[c], agenda[c], items, agenda'[c])
  <2>1. Keeps(mem[c], mem'[c])
    BY <1>2, <1>4 DEF Keeps
  <2> QED BY <1>2, <1>3, <1>11, <2>1, SwapOf
<1>16. TxEffects(mem[c], agenda[c], txEvents[c], txOutbox[c])
  BY DEF EffectsInv
<1> HIDE DEF p
<1>17. TxEffects(mem[c], agenda'[c], txEvents[c] \cup {x}, txOutbox[c])
  BY <1>1, <1>5, <1>7, <1>12, <1>13, <1>14, <1>15, <1>16, WrittenEffects
<1> QED BY <1>2, <1>13, <1>17

LEMMA EmitKeepsEffects ==
  ASSUME TypeInv, EffectsInv, NEW c \in Clients, Emit(c)
  PROVE  TxEffects(mem'[c], agenda'[c], txEvents'[c], txOutbox'[c])
<1> DEFINE it    == Head(agenda[c])
           items == Chained(c, it)
           more  == SideEffects(it)
<1>1. /\ agenda[c] # <<>> /\ it.op = "emit" /\ Push(c, items)
      /\ UNCHANGED <<mem, txEvents>>
      /\ txOutbox' = [txOutbox EXCEPT ![c] = @ \o more]
  BY DEF Emit, Next0, HookWrites
<1>2. it.ref \in EventRef /\ it.tr \in Transition /\ it.act \in 1 .. Len(mem[c])
      /\ Len(mem[c]) \in Nat
  BY <1>1, MemTypes, ItemTypes
<1>3. items \in Seq(Item) /\ Len(items) = Len(it.tr.chain)
      /\ \A i \in 1 .. Len(items) :
           /\ items[i].op = "run" /\ items[i].spec.cause = PSMCause(it.ref)
           /\ items[i].spec.inner = it.tr.chain[i] /\ items[i].act = it.act
  <2>1. Len(it.tr.chain) \in Nat
    BY <1>2 DEF Transition
  <2>2. Len(items) = Len(it.tr.chain)
    BY <2>1 DEF Chained
  <2>3. items \in Seq(ItemUpTo(Len(mem[c])))
    BY <1>1, MemTypes, ChainedType
  <2>4. \A i \in 1 .. Len(items) :
           /\ items[i].op = "run" /\ items[i].spec.cause = PSMCause(it.ref)
           /\ items[i].spec.inner = it.tr.chain[i] /\ items[i].act = it.act
    BY <2>2 DEF Chained, Run, Spec0
  <2> HIDE DEF items
  <2> QED BY <2>2, <2>3, <2>4, SeqMonotonic DEF ItemUpTo
<1>4. /\ more \in Seq(OutboxMessage) /\ Len(more) = Len(it.tr.sends)
      /\ \A i \in DOMAIN more : more[i] = [msg |-> it.tr.sends[i], cause |-> it.ref]
  <2>1. it.tr.sends \in Seq(Messages) /\ Len(it.tr.sends) \in Nat
    BY <1>2 DEF Transition
  <2>2. \A i \in 1 .. Len(it.tr.sends) :
          [msg |-> it.tr.sends[i], cause |-> it.ref] \in OutboxMessage
    BY <1>2, <2>1 DEF OutboxMessage
  <2> QED BY <2>1, <2>2, IsASeq DEF SideEffects
<1>5. txOutbox'[c] = txOutbox[c] \o more /\ txOutbox[c] \in Seq(OutboxMessage)
      /\ txEvents[c] \in SUBSET EventRow
  BY <1>1 DEF TypeInv, DBTypeOK
<1> HIDE DEF items, more
<1>6. Swaps(mem[c], mem[c], agenda[c], items, agenda'[c])
  <2>1. Keeps(mem[c], mem'[c])
    BY <1>1, <1>2 DEF Keeps
  <2> QED BY <1>1, <1>3, <2>1, SwapOf
<1>7. Hooked(it, items, more)
  BY <1>1, <1>2, <1>3, <1>4 DEF Hooked
<1>8. TxEffects(mem[c], agenda[c], txEvents[c], txOutbox[c])
  BY DEF EffectsInv
<1>9. TxEffects(mem[c], agenda'[c], txEvents[c], txOutbox[c] \o more)
  BY <1>5, <1>6, <1>7, <1>8, HookedEffects
<1> QED BY <1>1, <1>5, <1>9

(* A transaction that has ended has nothing coming. *)
LEMMA NothingComes == \A m : TxEffects(m, <<>>, {}, <<>>)
BY DEF TxEffects, CausesIn, EmitsDiffer

LEMMA MovesKeepTxEffects ==
  ASSUME Grounds, ClosedInv, SpecsInv, SnapshotsCommitted, PendingHead, EffectsInv,
         NEW c \in Clients, Moves(c)
  PROVE  TxEffects(mem'[c], agenda'[c], txEvents'[c], txOutbox'[c])
<1>1. TypeInv /\ CallersInv /\ ItemsInv /\ IdsInv
  BY DEF Grounds, SpecsInv
<1>2. CASE RollsBack(c) \/ Commits(c)
  <2>1. agenda'[c] = <<>>
    BY <1>1, <1>2, DroppedRun DEF RollsBack, Commits
  <2>2. txEvents'[c] = {} /\ txOutbox'[c] = <<>>
    BY <1>1, <1>2 DEF RollsBack, Commits, RollbackTx, CommitTx, ClearTx, TypeInv, DBTypeOK
  <2> QED BY <2>1, <2>2, NothingComes
<1> QED BY <1>1, <1>2, OpenKeepsEffects, ChecksKeepEffects, LoadsNothingKeepsEffects,
           LoadsRowKeepsEffects, UpsertKeepsEffects, InsertsKeepEffects, EmitKeepsEffects
        DEF Moves

(* The commit adds what the transaction has logged to what is logged. *)
LEMMA MovesKeepLog ==
  ASSUME TypeInv, RefsApart, EffectsInv, NEW c \in Clients, Moves(c)
  PROVE  EffectsMatchLog'
<1>1. CASE Commits(c)
  <2>1. agenda[c] = <<>> /\ events' = events \cup txEvents[c]
        /\ outbox' = outbox \o txOutbox[c]
    BY <1>1 DEF Commits, CommitTx
  <2>2. /\ events \in SUBSET EventRow /\ outbox \in Seq(OutboxMessage)
        /\ txEvents[c] \in SUBSET EventRow /\ txOutbox[c] \in Seq(OutboxMessage)
    BY DEF TypeInv, DBTypeOK
  <2>3. Logged(events, outbox)
    BY <2>2, LogIsLogged DEF EffectsInv
  <2>4. Logged(txEvents[c], txOutbox[c])
    BY <2>1, EndOfRun DEF EffectsInv
  <2>5. Refs(events) \cap Refs(txEvents[c]) = {}
    BY DEF RefsApart
  <2>6. Logged(events \cup txEvents[c], outbox \o txOutbox[c])
    BY <2>2, <2>3, <2>4, <2>5, LoggedTogether
  <2>7. Logged(events', outbox')
    BY <2>1, <2>6
  <2> QED BY <2>7, LoggedIsMatch
<1>2. CASE ~Commits(c)
  <2>1. UNCHANGED <<events, outbox>>
    BY <1>2 DEF Moves, Open, BeginTx, RollsBack, RollbackTx, Checks, LoadsNothing,
                LoadsRow, Upsert, UpsertRow, Inserts, InsertEvent, Emit, HookWrites,
                tables, dbVars
  <2>2. EffectsMatchLog
    BY DEF EffectsInv
  <2>3. events \in SUBSET EventRow
    BY DEF TypeInv, DBTypeOK
  <2>4. Logged(events', outbox')
    BY <2>1, <2>2, <2>3, LogIsLogged
  <2> QED BY <2>4, LoggedIsMatch
<1> QED BY <1>1, <1>2

LEMMA NextEffects ==
  ASSUME Grounds, ClosedInv, SpecsInv, SnapshotsCommitted, PendingHead, RefsApart,
         EffectsInv, [Next]_vars
  PROVE  EffectsInv'
<1>1. TypeInv
  BY DEF Grounds
<1>2. CASE UNCHANGED <<dbVars, agenda, pending, mem>>
  <2>1. UNCHANGED <<events, outbox, txEvents, txOutbox, agenda, mem>>
    BY <1>2 DEF dbVars, tables
  <2>2. Logged(events', outbox')
    BY <1>1, <2>1, LogIsLogged DEF EffectsInv, TypeInv, DBTypeOK
  <2>3. EffectsMatchLog'
    BY <2>2, LoggedIsMatch
  <2> QED BY <2>1, <2>3 DEF EffectsInv
<1>3. ASSUME NEW c \in Clients, Moves(c)
      PROVE  EffectsInv'
  <2>1. EffectsMatchLog'
    BY <1>1, <1>3, MovesKeepLog
  <2>2. TxEffects(mem'[c], agenda'[c], txEvents'[c], txOutbox'[c])
    BY <1>3, MovesKeepTxEffects
  <2>3. \A d \in Clients \ {c} :
          TxEffects(mem'[d], agenda'[d], txEvents'[d], txOutbox'[d])
    BY <1>1, <1>3, OthersKeep, OthersKeepWrites DEF EffectsInv
  <2> QED BY <2>1, <2>2, <2>3 DEF EffectsInv
<1> QED BY <1>1, <1>2, <1>3, NextMoves

LEMMA InitEffects ==
  ASSUME Init
  PROVE  ClosedInv /\ PendingHead /\ RefsApart /\ EffectsInv
<1>1. /\ events = {} /\ outbox = <<>>
      /\ \A c \in Clients : /\ pending[c] = NoPending /\ agenda[c] = <<>>
                            /\ txEvents[c] = {} /\ txOutbox[c] = <<>>
  BY DEF Init, DBInit
<1>2. ClosedInv /\ PendingHead /\ RefsApart
  BY <1>1 DEF ClosedInv, PendingHead, RefsApart, Refs
<1>3. EffectsMatchLog
  BY <1>1 DEF EffectsMatchLog
<1>4. EffectsInv
  BY <1>1, <1>3, NothingComes DEF EffectsInv
<1> QED BY <1>2, <1>4

(***************************************************************************)
(* Every committed event has had the effects of its hooks, each once: its  *)
(* messages in the outbox, its links and its chained events in the event   *)
(* tables, and nothing is there without its cause; with either isolation   *)
(* level, through conflicts, retries, crashes and resends (Transact, the   *)
(* hooks of runEvent).  Callers send event IDs of their own or none, and   *)
(* no event of a state machine as a cause.                                 *)
(***************************************************************************)
THEOREM EffectsOnce ==
  ASSUME CallersOutside
  PROVE  Spec => []EffectsMatchLog
<1> DEFINE Inv == ClosedInv /\ KeysInv /\ ReplyInv /\ PendingHead /\ RefsApart /\ EffectsInv
<1>1. Init => Inv
  BY InitEffects, InitKeys
     DEF Init, DBInit, ReplyInv, RepliesAreSnapshots, ReturnsAreSnapshots, SnapshotsCommitted
<1>2. Grounds /\ SpecsInv /\ Inv /\ [Next]_vars => Inv'
  BY NextClosed, NextKeys, NextReplyInv, NextPendingHead, NextRefsApart, NextEffects
     DEF Grounds, ReplyInv
<1>3. Inv => EffectsMatchLog
  BY DEF EffectsInv
<1>4. Spec => []SpecsInv
  BY SpecsInvariant
<1> QED BY <1>1, <1>2, <1>3, <1>4, GroundsInvariant, PTL DEF Spec
=============================================================================
