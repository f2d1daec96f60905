--------------------------- MODULE FollowerProofs ---------------------------
(***************************************************************************)
(* Proofs about the event follower, for all machines, transitions, hooks,  *)
(* inputs of the leader, batch sizes and bounds, machines with an initial  *)
(* event among them:                                                       *)
(*   Spec => []FollowerTypeOK, Spec => []DerivedOnFollow,                  *)
(*   Spec => []MirrorsLeader, Spec => []SendsOnlyForInitial.               *)
(***************************************************************************)
EXTENDS Follower, TransitionSetProofs

RowTable == [Entities -> State \cup {NoState}]
-----------------------------------------------------------------------------
(***************************************************************************)
(* What the operators of the follower return.                              *)
(***************************************************************************)
LEMMA CurrentType ==
  ASSUME NEW table \in RowTable, NEW keys \in Keys
  PROVE  Current(table, keys) \in State
BY EmptyStateType DEF Current, RowTable, Keys

LEMMA EventFromType ==
  ASSUME NEW state \in State, NEW inner \in InnerEvent, NEW id \in EventIds,
         NEW cause \in Cause, TransitionOf(state, inner) # NoTransition
  PROVE  /\ TransitionOf(state, inner) \in Transition
         /\ EventFrom(state, inner, id, cause) \in EventRow
         /\ EventFrom(state, inner, id, cause).keys = state.keys
         /\ EventFrom(state, inner, id, cause).inner = inner
         /\ EventFrom(state, inner, id, cause).snapshot \in State
<1>1. inner.type \in EventTypes
  BY DEF InnerEvent
<1>2. TransitionOf(state, inner) \in Transition
  BY <1>1, StateParts, TransitionType DEF TransitionOf
<1>3. /\ NextSequence(state) \in Nat
      /\ After(state, TransitionOf(state, inner), id) \in State
  BY <1>2, SequencedType, AfterType
<1> QED BY <1>2, <1>3, StateParts DEF EventFrom, EventRow

LEMMA InitialRowType ==
  ASSUME NEW state \in State, NeedsInitial(state), NEW id \in EventIds
  PROVE  /\ InitialRow(state, id) \in EventRow
         /\ InitialRow(state, id).keys = state.keys
         /\ InitialRow(state, id).snapshot \in State
         /\ TransitionOf(state, InitialRow(state, id).inner) \in Transition
<1> DEFINE m     == MachineOf[state.keys.entity]
           inner == InitialEvent[m]
<1>1. state.status = 0 /\ inner # NoInner /\ m \in Machines
  BY StateParts DEF NeedsInitial
<1>2. inner \in InnerEvent
  BY <1>1, FollowerAssumption
<1>3. TransitionFor[m, 0, inner.type] # NoTransition
  BY <1>1, InitialAssumption
<1>4. TransitionOf(state, inner) # NoTransition
  BY <1>1, <1>3 DEF TransitionOf
<1>5. CauseOf("init") \in Cause
  BY CauseTypes
<1> QED BY <1>2, <1>4, <1>5, EventFromType DEF InitialRow

(* What storing an event does to each of the tables. *)
LEMMA StoredParts ==
  ASSUME NEW tables \in Tables, NEW event \in EventRow
  PROVE  LET new == Stored(tables, event)
         IN  /\ new \in Tables
             /\ new.rows = [tables.rows EXCEPT ![event.keys.entity] = event.snapshot]
             /\ new.events = tables.events \cup {event}
             /\ new.derived = tables.derived /\ new.outbox = tables.outbox
<1> DEFINE rows == [tables.rows EXCEPT ![event.keys.entity] = event.snapshot]
           evs  == tables.events \cup {event}
<1>1. event.keys.entity \in Entities /\ event.snapshot \in State
  BY DEF EventRow, Keys
<1>2. rows \in RowTable /\ evs \subseteq EventRow
  BY <1>1 DEF RowTable, Tables
<1>3. Stored(tables, event)
        = [rows |-> rows, events |-> evs, derived |-> tables.derived,
           outbox |-> tables.outbox]
  <2>1. Stored(tables, event) = [tables EXCEPT !.rows = rows, !.events = evs]
    BY DEF Stored, Tables
  <2> HIDE DEF rows, evs
  <2> QED BY <2>1 DEF Tables
<1> HIDE DEF rows, evs
<1>4. Stored(tables, event) \in Tables
  BY <1>2, <1>3 DEF Tables, RowTable
<1> QED BY <1>3, <1>4 DEF rows, evs

(* What a hook does to them. *)
Sent(call) ==
  [i \in 1 .. Len(call.sends) |-> [msg |-> call.sends[i], cause |-> RefOf(call.event)]]

LEMMA HookedParts ==
  ASSUME NEW tables \in Tables, NEW call \in HookCall
  PROVE  LET new == AfterHook(tables, call)
         IN  /\ new \in Tables
             /\ new.rows = tables.rows /\ new.events = tables.events
             /\ new.derived = [tables.derived EXCEPT ![call.event.keys.entity] =
                                 IF call.derives THEN call.event.snapshot ELSE @]
             /\ Sent(call) \in Seq(OutboxMessage)
             /\ Len(Sent(call)) = Len(call.sends)
             /\ new.outbox = tables.outbox \o Sent(call)
<1> DEFINE dvd == [tables.derived EXCEPT ![call.event.keys.entity] =
                     IF call.derives THEN call.event.snapshot ELSE @]
           box == tables.outbox \o Sent(call)
<1>1. /\ call.event \in EventRow /\ call.sends \in Seq(Messages)
      /\ call.event.keys.entity \in Entities /\ call.event.snapshot \in State
  BY DEF HookCall, EventRow, Keys
<1>2. dvd \in RowTable
  BY <1>1 DEF RowTable, Tables
<1>3. Sent(call) \in Seq(OutboxMessage) /\ Len(Sent(call)) = Len(call.sends)
  <2>1. Len(call.sends) \in Nat
    BY <1>1
  <2>2. \A i \in 1 .. Len(call.sends) :
          [msg |-> call.sends[i], cause |-> RefOf(call.event)] \in OutboxMessage
    BY <1>1, RefType DEF OutboxMessage
  <2>3. Sent(call) \in Seq(OutboxMessage)
    BY <2>1, <2>2, IsASeq DEF Sent
  <2>4. DOMAIN Sent(call) = 1 .. Len(call.sends)
    BY DEF Sent
  <2> QED BY <2>1, <2>3, <2>4
<1>4. box \in Seq(OutboxMessage)
  BY <1>3, ConcatProperties DEF Tables
<1>5. AfterHook(tables, call)
        = [rows |-> tables.rows, events |-> tables.events, derived |-> dvd, outbox |-> box]
  <2>1. AfterHook(tables, call) = [tables EXCEPT !.derived = dvd, !.outbox = box]
    BY DEF AfterHook, Tables, Sent
  <2> HIDE DEF dvd, box
  <2> QED BY <2>1 DEF Tables
<1> HIDE DEF dvd, box
<1>6. AfterHook(tables, call) \in Tables
  BY <1>2, <1>4, <1>5 DEF Tables, RowTable
<1> QED BY <1>3, <1>5, <1>6 DEF dvd, box

(***************************************************************************)
(* The hook calls of an event are for that event; one that follow runs     *)
(* sends nothing, one that derives runs on follow; and where the machine   *)
(* derives a table, one of them does.                                      *)
(***************************************************************************)
Fit(call, event, baton) ==
  /\ call.event = event /\ call.baton = baton
  /\ call.onFollow => call.sends = <<>>
  /\ call.derives => call.onFollow

LEMMA CallsParts ==
  ASSUME NEW state \in State, NEW event \in EventRow, NEW baton \in BOOLEAN
  PROVE  LET new == CallsFor(state, event, baton)
         IN  /\ new \in Seq(HookCall)
             /\ \A i \in 1 .. Len(new) : Fit(new[i], event, baton)
             /\ Deriving(state.keys.entity) => \E i \in 1 .. Len(new) : new[i].derives
<1> DEFINE m      == MachineOf[state.keys.entity]
           events == EventHooksFor[m, state.status, event.inner.type]
           states == GlobalStateHooks[m]
           ofEvent(i) == [sends |-> events[i].sends, derives |-> FALSE,
                          onFollow |-> events[i].onFollow, event |-> event, baton |-> baton]
           ofState(i) == [sends |-> states[i].sends, derives |-> states[i].derives,
                          onFollow |-> states[i].onFollow, event |-> event, baton |-> baton]
           first  == [i \in 1 .. Len(events) |-> ofEvent(i)]
           second == [i \in 1 .. Len(states) |-> ofState(i)]
           Fitting == {c \in HookCall : Fit(c, event, baton)}
<1>1. m \in Machines /\ state.status \in Statuses /\ event.inner.type \in EventTypes
  BY StateParts DEF EventRow, InnerEvent
<1>2. events \in Seq(EventHook) /\ states \in Seq(StateHook)
  BY <1>1, HooksAssumption
<1>3. CallsFor(state, event, baton) = first \o second
  BY DEF CallsFor
<1> HIDE DEF events, states, m
<1>4. first \in Seq(Fitting)
  <2>1. Len(events) \in Nat
    BY <1>2
  <2>2. \A i \in 1 .. Len(events) : events[i] \in EventHook
    BY <1>2, ElementOfSeq
  <2>3. \A i \in 1 .. Len(events) : ofEvent(i) \in Fitting
    BY <2>2 DEF EventHook, HookCall, Fit
  <2> HIDE DEF ofEvent, Fitting
  <2> QED BY <2>1, <2>3, IsASeq
<1>5. second \in Seq(Fitting) /\ Len(second) = Len(states) /\ Len(states) \in Nat
  <2>1. Len(states) \in Nat
    BY <1>2
  <2>2. \A i \in 1 .. Len(states) : states[i] \in StateHook
    BY <1>2, ElementOfSeq
  <2>3. \A i \in 1 .. Len(states) : ofState(i) \in Fitting
    BY <2>2 DEF StateHook, HookCall, Fit
  <2>4. second \in Seq(Fitting)
    <3> HIDE DEF ofState, Fitting
    <3> QED BY <2>1, <2>3, IsASeq
  <2>5. DOMAIN second = 1 .. Len(states)
    OBVIOUS
  <2> HIDE DEF second, Fitting
  <2> QED BY <2>1, <2>4, <2>5
<1> DEFINE new == first \o second
<1>6. /\ new \in Seq(Fitting) /\ Len(new) = Len(first) + Len(second)
      /\ \A i \in 1 .. Len(first) + Len(second) :
           new[i] = IF i <= Len(first) THEN first[i] ELSE second[i - Len(first)]
      /\ Len(first) \in Nat
  <2> HIDE DEF first, second, Fitting
  <2>1. Len(first) \in Nat
    BY <1>4
  <2>2. first \o second \in Seq(Fitting)
    BY <1>4, <1>5, ConcatProperties
  <2>3. Len(first \o second) = Len(first) + Len(second)
    BY <1>4, <1>5, ConcatProperties
  <2>4. \A i \in 1 .. Len(first) + Len(second) :
          (first \o second)[i] = IF i <= Len(first) THEN first[i] ELSE second[i - Len(first)]
    BY <1>4, <1>5, ConcatProperties
  <2> QED BY <2>1, <2>2, <2>3, <2>4
<1>7. \A i \in 1 .. Len(new) : new[i] \in Fitting
  <2> HIDE DEF new, Fitting
  <2> QED BY <1>6, ElementOfSeq
<1>8. new \in Seq(HookCall)
  <2>1. \A i \in 1 .. Len(new) : new[i] \in HookCall
    <3> HIDE DEF new
    <3> QED BY <1>7
  <2> HIDE DEF new
  <2>2. Len(new) \in Nat /\ new = [i \in 1 .. Len(new) |-> new[i]]
    BY <1>6
  <2>3. [i \in 1 .. Len(new) |-> new[i]] \in Seq(HookCall)
    BY <2>1, <2>2, IsASeq
  <2> QED BY <2>2, <2>3
<1>9. ASSUME Deriving(state.keys.entity)
      PROVE  \E i \in 1 .. Len(new) : new[i].derives
  <2>1. PICK i \in 1 .. Len(states) : states[i].derives
    BY <1>2, <1>9 DEF Deriving, states, m
  <2>2. second[i].derives
    BY <2>1
  <2> HIDE DEF new, first, second
  <2>3. /\ Len(first) + i \in 1 .. Len(new)
        /\ new[Len(first) + i] = second[i]
    <3>1. ~(Len(first) + i <= Len(first)) /\ Len(first) + i - Len(first) = i
      BY <1>6, <2>1
    <3> QED BY <1>5, <1>6, <2>1, <3>1
  <2> QED BY <2>2, <2>3
<1> HIDE DEF first, second
<1> QED BY <1>3, <1>7, <1>8, <1>9

-----------------------------------------------------------------------------
(***************************************************************************)
(* Types.  The event at hand, and what it is followed from.                *)
(***************************************************************************)
LEMMA FollowedTypes ==
  ASSUME FollowerTypeOK, AtEvent
  PROVE  /\ Event \in EventRow /\ followed + 1 \in 1 .. Len(feed)
         /\ work \in Tables /\ Found \in State
         /\ NeedsInitial(Found) =>
              /\ InitialRow(Found, minted + 1) \in EventRow
              /\ InitialRow(Found, minted + 1).keys = Found.keys
         /\ CanRun(Found, Event.inner) =>
              /\ TransitionOf(Found, Event.inner) \in Transition
              /\ Renumbered(Found, Event) \in EventRow
              /\ Renumbered(Found, Event).keys = Found.keys
<1>1. /\ feed \in Seq(EventRow) /\ Len(feed) \in Nat
      /\ followed \in Nat /\ last \in Nat /\ last <= Len(feed)
      /\ work \in Tables /\ minted \in Nat /\ followed < last
  BY DEF FollowerTypeOK, AtEvent
<1>2. Event \in EventRow /\ followed + 1 \in 1 .. Len(feed)
  BY <1>1 DEF Event
<1>3. Event.keys \in Keys /\ Event.inner \in InnerEvent /\ Event.id \in EventIds
      /\ Event.cause \in Cause
  BY <1>2 DEF EventRow
<1>4. Found \in State
  BY <1>1, <1>3, CurrentType DEF Found, Tables, RowTable
<1>5. minted + 1 \in EventIds
  BY <1>1 DEF EventIds
<1>6. NeedsInitial(Found) =>
        /\ InitialRow(Found, minted + 1) \in EventRow
        /\ InitialRow(Found, minted + 1).keys = Found.keys
  BY <1>4, <1>5, InitialRowType
<1>7. CanRun(Found, Event.inner) =>
        /\ TransitionOf(Found, Event.inner) \in Transition
        /\ Renumbered(Found, Event) \in EventRow
        /\ Renumbered(Found, Event).keys = Found.keys
  BY <1>3, <1>4, EventFromType DEF CanRun, Renumbered
<1> QED BY <1>1, <1>2, <1>4, <1>6, <1>7

(***************************************************************************)
(* What the leader runs for an input: the new event, and, ahead of it, the *)
(* initial event of a new entity.                                          *)
(***************************************************************************)
Initial(input) ==
  LET before == Current(leader, input.keys)
  IN  IF NeedsInitial(before) THEN <<InitialRow(before, minted + 1)>> ELSE <<>>

LeadState(input) ==
  IF Initial(input) = <<>> THEN Current(leader, input.keys)
  ELSE Initial(input)[1].snapshot

LeadEvent(input) ==
  EventFrom(LeadState(input), input.inner, minted + 1 + Len(Initial(input)),
            CauseOf("external"))

LEMMA LeadParts ==
  ASSUME FollowerTypeOK, Lead
  PROVE  \E input \in LeaderInputs :
           /\ input.keys \in Keys /\ input.inner \in InnerEvent
           /\ Initial(input) \in Seq(EventRow) /\ Len(Initial(input)) \in {0, 1}
           /\ Current(leader, input.keys) \in State /\ LeadState(input) \in State
           /\ CanRun(LeadState(input), input.inner)
           /\ LeadEvent(input) \in EventRow /\ LeadEvent(input).inner = input.inner
           /\ LeadEvent(input).keys = LeadState(input).keys
           /\ LeadEvent(input).snapshot \in State
           /\ leader' = [leader EXCEPT ![input.keys.entity] = LeadEvent(input).snapshot]
           /\ feed' = Append(feed \o Initial(input), LeadEvent(input))
           /\ minted' = minted + 1 + Len(Initial(input))
           /\ requests' = requests + 1
           /\ UNCHANGED <<store, work, calls, followed, last, acked, crashes, unacked>>
<1>1. PICK input \in LeaderInputs :
        /\ CanRun(LeadState(input), input.inner)
        /\ leader' = [leader EXCEPT ![input.keys.entity] = LeadEvent(input).snapshot]
        /\ feed' = Append(feed \o Initial(input), LeadEvent(input))
        /\ minted' = minted + 1 + Len(Initial(input))
        /\ requests' = requests + 1
        /\ UNCHANGED <<store, work, calls, followed, last, acked, crashes, unacked>>
  BY DEF Lead, Initial, LeadState, LeadEvent
<1> DEFINE before == Current(leader, input.keys)
<1>2. input.keys \in Keys /\ input.inner \in InnerEvent
  BY FollowerAssumption DEF Link
<1>3. before \in State /\ minted \in Nat
  BY <1>2, CurrentType DEF FollowerTypeOK, RowTable
<1>4. minted + 1 \in EventIds /\ minted + 1 + 1 \in EventIds
      /\ minted + 1 + 0 \in EventIds
  BY <1>3 DEF EventIds
<1>5. /\ Initial(input) \in Seq(EventRow) /\ Len(Initial(input)) \in {0, 1}
      /\ LeadState(input) \in State
  <2>1. CASE NeedsInitial(before)
    <3>1. InitialRow(before, minted + 1) \in EventRow
          /\ InitialRow(before, minted + 1).snapshot \in State
      BY <1>3, <1>4, <2>1, InitialRowType
    <3>2. Initial(input) = <<InitialRow(before, minted + 1)>>
      BY <2>1 DEF Initial
    <3>3. Initial(input) \in Seq(EventRow) /\ Len(Initial(input)) = 1
          /\ Initial(input) # <<>> /\ Initial(input)[1] = InitialRow(before, minted + 1)
      BY <3>1, <3>2
    <3> QED BY <3>1, <3>3 DEF LeadState
  <2>2. CASE ~NeedsInitial(before)
    BY <1>3, <2>2, EmptySeq DEF Initial, LeadState
  <2> QED BY <2>1, <2>2
<1>6. /\ LeadEvent(input) \in EventRow /\ LeadEvent(input).inner = input.inner
      /\ LeadEvent(input).keys = LeadState(input).keys
      /\ LeadEvent(input).snapshot \in State
  <2>1. minted + 1 + Len(Initial(input)) \in EventIds
    BY <1>4, <1>5
  <2>2. CauseOf("external") \in Cause
    BY CauseTypes
  <2> QED BY <1>1, <1>2, <1>5, <2>1, <2>2, EventFromType DEF CanRun, LeadEvent
<1> QED BY <1>1, <1>2, <1>3, <1>5, <1>6

LEMMA NextFollowerTypes ==
  ASSUME FollowerTypeOK, [Next]_vars
  PROVE  FollowerTypeOK'
<1>1. CASE UNCHANGED vars
  BY <1>1 DEF vars, FollowerTypeOK
<1>2. CASE Lead
  <2>1. PICK input \in LeaderInputs :
          /\ input.keys \in Keys
          /\ Initial(input) \in Seq(EventRow) /\ Len(Initial(input)) \in {0, 1}
          /\ LeadEvent(input) \in EventRow
          /\ LeadEvent(input).snapshot \in State
          /\ leader' = [leader EXCEPT ![input.keys.entity] = LeadEvent(input).snapshot]
          /\ feed' = Append(feed \o Initial(input), LeadEvent(input))
          /\ minted' = minted + 1 + Len(Initial(input))
          /\ requests' = requests + 1
          /\ UNCHANGED <<store, work, calls, followed, last, acked, crashes, unacked>>
    BY <1>2, LeadParts
  <2>2. feed \o Initial(input) \in Seq(EventRow)
        /\ Len(feed \o Initial(input)) = Len(feed) + Len(Initial(input))
    BY <2>1, ConcatProperties DEF FollowerTypeOK
  <2>3. feed' \in Seq(EventRow) /\ Len(feed') = Len(feed) + Len(Initial(input)) + 1
    BY <2>1, <2>2, AppendProperties
  <2>4. {followed, last, acked}' \subseteq 0 .. Len(feed')
    <3>1. Len(feed) \in Nat /\ Len(feed') \in Nat /\ Len(feed) <= Len(feed')
      BY <2>1, <2>3 DEF FollowerTypeOK
    <3>2. 0 .. Len(feed) \subseteq 0 .. Len(feed')
      BY <3>1
    <3>3. {followed, last, acked} \subseteq 0 .. Len(feed)
      BY DEF FollowerTypeOK
    <3> HIDE DEF FollowerTypeOK
    <3> QED BY <2>1, <3>2, <3>3
  <2>5. {minted, requests, crashes, unacked}' \subseteq Nat
    <3>1. minted \in Nat /\ requests \in Nat /\ crashes \in Nat /\ unacked \in Nat
      BY DEF FollowerTypeOK
    <3>2. minted' \in Nat /\ requests' \in Nat
      BY <2>1, <3>1
    <3> QED BY <2>1, <3>1, <3>2
  <2>6. leader' \in [Entities -> State \cup {NoState}]
    BY <2>1 DEF FollowerTypeOK
  <2> QED BY <2>1, <2>3, <2>4, <2>5, <2>6 DEF FollowerTypeOK
<1>3. CASE Deliver
  <2>1. last' \in 0 .. Len(feed) /\ followed' \in 0 .. Len(feed)
    BY <1>3, FollowerAssumption DEF Deliver, FollowerTypeOK
  <2>2. calls' \in Seq(HookCall)
    BY <1>3, EmptySeq DEF Deliver
  <2> QED BY <1>3, <2>1, <2>2 DEF Deliver, FollowerTypeOK
<1>4. CASE MakeInitial
  <2>1. /\ work \in Tables /\ Found \in State
        /\ InitialRow(Found, minted + 1) \in EventRow
    BY <1>4, FollowedTypes DEF MakeInitial
  <2>2. work' \in Tables
    BY <1>4, <2>1, StoredParts DEF MakeInitial
  <2>3. calls' \in Seq(HookCall)
    BY <1>4, <2>1, CallsParts DEF MakeInitial
  <2>4. minted' \in Nat
    BY <1>4 DEF MakeInitial, FollowerTypeOK
  <2> QED BY <1>4, <2>2, <2>3, <2>4 DEF MakeInitial, FollowerTypeOK
<1>5. CASE Follow
  <2>1. /\ work \in Tables /\ Found \in State
        /\ Renumbered(Found, Event) \in EventRow
        /\ followed + 1 \in 0 .. Len(feed)
    BY <1>5, FollowedTypes DEF Follow
  <2>2. work' \in Tables
    BY <1>5, <2>1, StoredParts DEF Follow
  <2>3. calls' \in Seq(HookCall)
    BY <1>5, <2>1, CallsParts DEF Follow
  <2> QED BY <1>5, <2>1, <2>2, <2>3 DEF Follow, FollowerTypeOK
<1>6. CASE RunHook \/ SkipHook
  <2>1. /\ calls \in Seq(HookCall) /\ calls # <<>> /\ calls' = Tail(calls)
        /\ work \in Tables
    BY <1>6 DEF RunHook, SkipHook, FollowerTypeOK
  <2>2. calls' \in Seq(HookCall) /\ calls[1] \in HookCall
    BY <2>1
  <2>3. work' \in Tables
    BY <1>6, <2>1, <2>2, HookedParts DEF RunHook, SkipHook
  <2> QED BY <1>6, <2>2, <2>3 DEF RunHook, SkipHook, FollowerTypeOK
<1>7. CASE Reject \/ Acknowledge \/ CommitUnacked
  BY <1>7 DEF Reject, Acknowledge, CommitUnacked, CommitWork, FollowerTypeOK
<1>8. CASE Crash
  BY <1>8, EmptySeq DEF Crash, FollowerTypeOK
<1> QED
  BY <1>1, <1>2, <1>3, <1>4, <1>5, <1>6, <1>7, <1>8 DEF Next, Replica, Rest

(***************************************************************************)
(* Every variable keeps to its type.                                       *)
(***************************************************************************)
THEOREM FollowerTypeCorrect == Spec => []FollowerTypeOK
<1>1. Init => FollowerTypeOK
  BY EmptySeq DEF Init, FollowerTypeOK, Empty, NoRows, Tables
<1>2. FollowerTypeOK /\ [Next]_vars => FollowerTypeOK'
  BY NextFollowerTypes
<1> QED BY <1>1, <1>2, PTL DEF Spec

(***************************************************************************)
(* While hooks are still to come, a row and its derived row may differ if  *)
(* one of them derives it; the row is the snapshot of their event.         *)
(***************************************************************************)
DerivesRows(tables) == \A k \in Entities : Deriving(k) => tables.derived[k] = tables.rows[k]

DerivesFor(call, k) == call.derives /\ call.event.keys.entity = k

WorkDerives ==
  /\ \A k \in Entities :
       Deriving(k) => \/ work.derived[k] = work.rows[k]
                      \/ \E i \in 1 .. Len(calls) : DerivesFor(calls[i], k)
  /\ \A i \in 1 .. Len(calls) :
       /\ Fit(calls[i], calls[i].event, calls[i].baton)
       /\ work.rows[calls[i].event.keys.entity] = calls[i].event.snapshot

DerivedInv == DerivesRows(store) /\ (work # NoWork => WorkDerives)

(* Storing an event, with the calls of its hooks. *)
LEMMA StoringDerives ==
  ASSUME FollowerTypeOK, DerivedInv, work # NoWork, calls = <<>>,
         NEW state \in State, NEW event \in EventRow, event.keys = state.keys,
         NEW baton \in BOOLEAN, work' = Stored(work, event),
         calls' = CallsFor(state, event, baton)
  PROVE  WorkDerives'
<1> DEFINE e == event.keys.entity
<1>1. work \in Tables /\ e \in Entities
  BY DEF FollowerTypeOK, EventRow, Keys
<1>2. work'.rows = [work.rows EXCEPT ![e] = event.snapshot] /\ work'.derived = work.derived
  BY <1>1, StoredParts
<1>3. /\ \A i \in 1 .. Len(calls') : Fit(calls'[i], event, baton)
      /\ Deriving(e) => \E i \in 1 .. Len(calls') : calls'[i].derives
  BY CallsParts
<1>4. \A k \in Entities : Deriving(k) => work.derived[k] = work.rows[k]
  BY DEF DerivedInv, WorkDerives
<1>5. ASSUME NEW k \in Entities, Deriving(k)
      PROVE  \/ work'.derived[k] = work'.rows[k]
             \/ \E i \in 1 .. Len(calls') : DerivesFor(calls'[i], k)
  <2>1. CASE k = e
    <3>1. PICK i \in 1 .. Len(calls') : calls'[i].derives
      BY <1>3, <1>5, <2>1
    <3>2. calls'[i].event = event
      BY <1>3 DEF Fit
    <3> QED BY <2>1, <3>1, <3>2 DEF DerivesFor
  <2>2. CASE k # e
    BY <1>1, <1>2, <1>4, <1>5, <2>2 DEF Tables
  <2> QED BY <2>1, <2>2
<1>6. ASSUME NEW i \in 1 .. Len(calls')
      PROVE  /\ Fit(calls'[i], calls'[i].event, calls'[i].baton)
             /\ work'.rows[calls'[i].event.keys.entity] = calls'[i].event.snapshot
  <2>1. Fit(calls'[i], event, baton)
    BY <1>3
  <2>2. calls'[i].event = event
    BY <2>1 DEF Fit
  <2> QED BY <1>1, <1>2, <2>1, <2>2 DEF Fit, Tables
<1> QED BY <1>5, <1>6 DEF WorkDerives, Deriving

(* Coming to a hook, be it run or passed over. *)
LEMMA HookingDerives ==
  ASSUME FollowerTypeOK, DerivedInv, RunHook \/ SkipHook
  PROVE  WorkDerives'
<1> DEFINE call == calls[1]
           e    == call.event.keys.entity
<1>1. /\ work \in Tables /\ calls \in Seq(HookCall) /\ calls # <<>>
      /\ calls' = Tail(calls) /\ WorkDerives
  BY DEF RunHook, SkipHook, FollowerTypeOK, DerivedInv
<1>2. /\ call \in HookCall /\ 1 \in 1 .. Len(calls)
      /\ Len(calls) \in Nat /\ Len(calls') = Len(calls) - 1
      /\ \A i \in 1 .. Len(calls') : calls'[i] = calls[i + 1] /\ i + 1 \in 1 .. Len(calls)
  <2>1. /\ Len(calls) \in Nat \ {0} /\ Len(calls') = Len(calls) - 1
        /\ \A i \in 1 .. Len(calls') : calls'[i] = calls[i + 1]
    BY <1>1, HeadTailProperties, EmptySeq
  <2> QED BY <1>1, <2>1, ElementOfSeq
<1>3. e \in Entities /\ call.event \in EventRow
  BY <1>2 DEF HookCall, EventRow, Keys
<1>4. work'.rows = work.rows
  BY <1>1, <1>2, HookedParts DEF RunHook, SkipHook
<1>5. /\ \A k \in Entities : k # e => work'.derived[k] = work.derived[k]
      /\ ~call.derives => work'.derived = work.derived
      /\ call.derives => work'.derived[e] = call.event.snapshot
  <2>1. Fit(call, call.event, call.baton)
    BY <1>1, <1>2 DEF WorkDerives
  <2>2. CASE RunHook
    <3>1. work'.derived = [work.derived EXCEPT ![e] =
                             IF call.derives THEN call.event.snapshot ELSE @]
      BY <1>1, <1>2, <2>2, HookedParts DEF RunHook
    <3> HIDE DEF call
    <3> QED BY <1>1, <1>3, <3>1 DEF Tables
  <2>3. CASE SkipHook
    <3>1. ~call.onFollow /\ work' = work
      BY <2>3 DEF SkipHook, Runs
    <3> QED BY <2>1, <3>1 DEF Fit
  <2> QED BY <2>2, <2>3
<1>6. ASSUME NEW k \in Entities, Deriving(k)
      PROVE  \/ work'.derived[k] = work'.rows[k]
             \/ \E i \in 1 .. Len(calls') : DerivesFor(calls'[i], k)
  <2>1. CASE call.derives /\ k = e
    BY <1>1, <1>2, <1>4, <1>5, <2>1 DEF WorkDerives
  <2>2. CASE ~(call.derives /\ k = e)
    <3>1. work'.derived[k] = work.derived[k]
      BY <1>5, <1>6, <2>2
    <3>2. CASE work.derived[k] = work.rows[k]
      BY <1>4, <3>1, <3>2
    <3>3. CASE \E i \in 1 .. Len(calls) : DerivesFor(calls[i], k)
      <4>1. PICK i \in 1 .. Len(calls) : DerivesFor(calls[i], k)
        BY <3>3
      <4>2. i # 1
        BY <2>2, <4>1 DEF DerivesFor
      <4>3. i - 1 \in 1 .. Len(calls') /\ i - 1 + 1 = i
        BY <1>2, <4>1, <4>2
      <4>4. calls'[i - 1] = calls[i]
        BY <1>2, <4>3
      <4> QED BY <4>1, <4>3, <4>4
    <3> QED BY <1>1, <1>6, <3>2, <3>3 DEF WorkDerives
  <2> QED BY <2>1, <2>2
<1>7. ASSUME NEW i \in 1 .. Len(calls')
      PROVE  /\ Fit(calls'[i], calls'[i].event, calls'[i].baton)
             /\ work'.rows[calls'[i].event.keys.entity] = calls'[i].event.snapshot
  BY <1>1, <1>2, <1>4 DEF WorkDerives
<1> QED BY <1>6, <1>7 DEF WorkDerives, Deriving

LEMMA NextDerived ==
  ASSUME FollowerTypeOK, DerivedInv, [Next]_vars
  PROVE  DerivedInv'
<1> USE DEF DerivedInv
<1>1. CASE UNCHANGED <<store, work, calls>>
  BY <1>1 DEF DerivesRows, WorkDerives, Deriving
<1>2. CASE Deliver
  <2>1. /\ store' = store /\ work' = store /\ calls' = <<>> /\ Len(calls') = 0
    BY <1>2 DEF Deliver
  <2> QED BY <2>1 DEF DerivesRows, WorkDerives, Deriving
<1>3. CASE MakeInitial
  <2>1. WorkDerives'
    BY <1>3, FollowedTypes, StoringDerives DEF MakeInitial, AtEvent
  <2> QED BY <1>3, <2>1 DEF MakeInitial, DerivesRows, Deriving
<1>4. CASE Follow
  <2>1. WorkDerives'
    BY <1>4, FollowedTypes, StoringDerives DEF Follow, AtEvent
  <2> QED BY <1>4, <2>1 DEF Follow, DerivesRows, Deriving
<1>5. CASE RunHook \/ SkipHook
  <2>1. WorkDerives' /\ store' = store
    BY <1>5, HookingDerives DEF RunHook, SkipHook
  <2> QED BY <2>1 DEF DerivesRows, Deriving
<1>6. CASE Reject \/ Crash
  BY <1>6 DEF Reject, Crash, DerivesRows, Deriving
<1>7. CASE Acknowledge \/ CommitUnacked
  <2>1. work # NoWork /\ Len(calls) = 0 /\ store' = work /\ work' = NoWork
    BY <1>7 DEF Acknowledge, CommitUnacked, CommitWork
  <2> QED BY <2>1 DEF DerivesRows, WorkDerives, Deriving
<1> QED
  BY <1>1, <1>2, <1>3, <1>4, <1>5, <1>6, <1>7 DEF Next, Replica, Rest, Lead, vars

(***************************************************************************)
(* The tables that data hooks derive agree with the replica's rows after   *)
(* every commit: runFollowerHooks passes over none of the hooks that write *)
(* them, whatever batches come, are refused or lost.                       *)
(***************************************************************************)
THEOREM DerivedFollows == Spec => []DerivedOnFollow
<1>1. Init => DerivedInv
  BY DEF Init, Empty, NoRows, DerivedInv, DerivesRows
<1>2. FollowerTypeOK /\ DerivedInv /\ [Next]_vars => DerivedInv'
  BY NextDerived
<1>3. DerivedInv => DerivedOnFollow
  BY DEF DerivedInv, DerivesRows, DerivedOnFollow
<1> QED BY <1>1, <1>2, <1>3, FollowerTypeCorrect, PTL DEF Spec

-----------------------------------------------------------------------------
(***************************************************************************)
(* The rows as the first n events of a feed leave them, event by event.    *)
(***************************************************************************)
Mine(f, n, k) == {i \in 1 .. n : f[i].keys.entity = k}

LastIn(f, mine) ==
  IF mine = {} THEN NoState
  ELSE f[CHOOSE i \in mine : \A j \in mine : j <= i].snapshot

RowAt(f, n, k) == LastIn(f, Mine(f, n, k))

RowsAt(f, n) == [k \in Entities |-> RowAt(f, n, k)]

LEMMA RowsOfFeed ==
  /\ \A n, k : LastOf(n, k) = RowAt(feed, n, k)
  /\ \A n, k : LastOf(n, k)' = RowAt(feed', n, k)
BY Zenon DEF LastOf, RowAt, LastIn, Mine

LEMMA RowsAtNone ==
  ASSUME NEW f
  PROVE  RowsAt(f, 0) = NoRows
<1>1. \A k \in Entities : Mine(f, 0, k) = {}
  BY DEF Mine
<1> QED BY <1>1 DEF RowsAt, RowAt, LastIn, NoRows

LEMMA RowAtNext ==
  ASSUME NEW f \in Seq(EventRow), NEW n \in Nat, n < Len(f), NEW k \in Entities
  PROVE  RowAt(f, n + 1, k) = IF f[n + 1].keys.entity = k THEN f[n + 1].snapshot
                              ELSE RowAt(f, n, k)
<1>1. CASE f[n + 1].keys.entity = k
  <2> DEFINE mine == Mine(f, n + 1, k)
             i    == CHOOSE i \in mine : \A j \in mine : j <= i
  <2>1. n + 1 \in mine /\ \A j \in mine : j <= n + 1
    BY <1>1 DEF Mine
  <2>2. i \in mine /\ \A j \in mine : j <= i
    BY <2>1
  <2>3. i = n + 1
    BY <2>1, <2>2 DEF Mine
  <2>4. RowAt(f, n + 1, k) = f[i].snapshot
    BY <2>1 DEF RowAt, LastIn
  <2> QED BY <1>1, <2>3, <2>4
<1>2. CASE f[n + 1].keys.entity # k
  <2>1. Mine(f, n + 1, k) = Mine(f, n, k)
    BY <1>2 DEF Mine
  <2> QED BY <1>2, <2>1 DEF RowAt
<1> QED BY <1>1, <1>2

LEMMA RowsAtNext ==
  ASSUME NEW f \in Seq(EventRow), NEW n \in Nat, n < Len(f)
  PROVE  RowsAt(f, n + 1) =
           [RowsAt(f, n) EXCEPT ![f[n + 1].keys.entity] = f[n + 1].snapshot]
<1> DEFINE e == f[n + 1]
<1>1. \A k \in Entities :
        RowAt(f, n + 1, k) = IF e.keys.entity = k THEN e.snapshot ELSE RowAt(f, n, k)
  BY RowAtNext
<1> HIDE DEF e
<1>2. RowsAt(f, n + 1) = [RowsAt(f, n) EXCEPT ![e.keys.entity] = e.snapshot]
  BY <1>1 DEF RowsAt
<1> QED BY <1>2 DEF e

(* The rows after n events do not depend on what comes later. *)
LEMMA RowsAtKept ==
  ASSUME NEW f, NEW g, NEW n \in Nat, \A i \in 1 .. n : g[i] = f[i]
  PROVE  RowsAt(g, n) = RowsAt(f, n)
<1>1. ASSUME NEW k \in Entities
      PROVE  RowAt(g, n, k) = RowAt(f, n, k)
  <2>1. Mine(g, n, k) = Mine(f, n, k)
    BY DEF Mine
  <2>2. CASE Mine(f, n, k) = {}
    BY <2>1, <2>2 DEF RowAt, LastIn
  <2>3. CASE Mine(f, n, k) # {}
    <3> DEFINE mine == Mine(f, n, k)
               top  == CHOOSE i \in mine : \A j \in mine : j <= i
    <3>1. \E i \in mine : \A j \in mine : j <= i
      <4>1. mine \in SUBSET (0 .. n) /\ mine # {}
        BY <2>3 DEF Mine
      <4> QED BY <4>1, LargestOf
    <3>2. top \in 1 .. n
      BY <3>1 DEF Mine
    <3> QED BY <2>1, <2>3, <3>2 DEF RowAt, LastIn
  <2> QED BY <2>2, <2>3
<1> QED BY <1>1 DEF RowsAt

-----------------------------------------------------------------------------
(***************************************************************************)
(* The leader's feed is the history of its tables: each event is what its  *)
(* transition makes of the row as the events before it leave it.           *)
(***************************************************************************)
(* Event i, followed from the row before it, comes out as it is. *)
Reproduced(f, i) ==
  LET state == Current(RowsAt(f, i - 1), f[i].keys)
  IN  /\ CanRun(state, f[i].inner)
      /\ f[i] = EventFrom(state, f[i].inner, f[i].id, f[i].cause)

FiledByKeys(table) == \A k \in Entities : table[k] # NoState => table[k].keys.entity = k

History(f, table) ==
  /\ table = RowsAt(f, Len(f)) /\ FiledByKeys(table)
  /\ \A i \in 1 .. Len(f) : Reproduced(f, i)

LEMMA EventKeys ==
  ASSUME NEW state, NEW inner, NEW id, NEW cause
  PROVE  /\ EventFrom(state, inner, id, cause).keys = state.keys
         /\ EventFrom(state, inner, id, cause).inner = inner
         /\ EventFrom(state, inner, id, cause).id = id
         /\ EventFrom(state, inner, id, cause).cause = cause
         /\ EventFrom(state, inner, id, cause).snapshot
              = After(state, TransitionOf(state, inner), id)
BY DEF EventFrom

(* A snapshot has the keys of its event. *)
LEMMA SnapshotKeys ==
  ASSUME NEW state \in State, NEW inner, NEW id \in EventIds, NEW cause,
         TransitionOf(state, inner) \in Transition
  PROVE  EventFrom(state, inner, id, cause).snapshot.keys = state.keys
<1> DEFINE tr == TransitionOf(state, inner)
<1>1. EventFrom(state, inner, id, cause).snapshot = After(state, tr, id)
  BY EventKeys
<1>2. tr \in Transition
  OBVIOUS
<1> HIDE DEF tr
<1>3. After(state, tr, id).keys = state.keys
  BY <1>2, AfterKeys
<1> QED BY <1>1, <1>3

LEMMA StoringFiles ==
  ASSUME NEW table \in RowTable, FiledByKeys(table), NEW event \in EventRow,
         event.snapshot.keys = event.keys
  PROVE  FiledByKeys([table EXCEPT ![event.keys.entity] = event.snapshot])
BY DEF FiledByKeys, RowTable

LEMMA HistoryGrows ==
  ASSUME NEW f \in Seq(EventRow), NEW table \in RowTable, History(f, table),
         NEW state \in State, state = Current(table, state.keys),
         NEW event \in EventRow,
         event = EventFrom(state, event.inner, event.id, event.cause),
         CanRun(state, event.inner), event.snapshot.keys = event.keys
  PROVE  /\ Append(f, event) \in Seq(EventRow)
         /\ Len(Append(f, event)) = Len(f) + 1
         /\ \A i \in 1 .. Len(f) : Append(f, event)[i] = f[i]
         /\ Append(f, event)[Len(f) + 1] = event
         /\ History(Append(f, event),
                    [table EXCEPT ![event.keys.entity] = event.snapshot])
<1> DEFINE g   == Append(f, event)
           n   == Len(f)
           new == [table EXCEPT ![event.keys.entity] = event.snapshot]
<1>1. n \in Nat
  OBVIOUS
<1>2. /\ g \in Seq(EventRow) /\ Len(g) = n + 1
      /\ \A i \in 1 .. n : g[i] = f[i]
      /\ g[n + 1] = event
  BY AppendProperties
<1>3. event.keys = state.keys
  BY EventKeys
<1>4. table = RowsAt(f, n) /\ \A i \in 1 .. n : Reproduced(f, i)
  BY DEF History
<1>5. FiledByKeys(new)
  BY StoringFiles DEF History
<1> HIDE DEF g, n, new
<1>6. \A m \in 0 .. n : RowsAt(g, m) = RowsAt(f, m)
  BY <1>1, <1>2, RowsAtKept
<1>7. new = RowsAt(g, n + 1)
  <2>1. n < Len(g)
    BY <1>1, <1>2
  <2>2. RowsAt(g, n + 1) = [RowsAt(g, n) EXCEPT ![g[n + 1].keys.entity] = g[n + 1].snapshot]
    BY <1>1, <1>2, <2>1, RowsAtNext
  <2>3. RowsAt(g, n) = table
    BY <1>1, <1>4, <1>6
  <2> QED BY <1>2, <2>2, <2>3 DEF new
<1>8. ASSUME NEW i \in 1 .. n + 1
      PROVE  Reproduced(g, i)
  <2>1. CASE i = n + 1
    <3>1. i - 1 = n /\ g[i] = event
      BY <1>1, <1>2, <2>1
    <3>2. RowsAt(g, i - 1) = table
      BY <1>1, <1>4, <1>6, <3>1
    <3>3. Current(RowsAt(g, i - 1), g[i].keys) = state
      BY <1>3, <3>1, <3>2
    <3> QED BY <3>1, <3>3 DEF Reproduced
  <2>2. CASE i \in 1 .. n
    <3>1. i - 1 \in 0 .. n /\ g[i] = f[i]
      BY <1>1, <1>2, <2>2
    <3>2. RowsAt(g, i - 1) = RowsAt(f, i - 1)
      BY <1>6, <3>1
    <3>3. Reproduced(f, i)
      BY <1>4, <2>2
    <3> QED BY <3>1, <3>2, <3>3 DEF Reproduced
  <2> QED BY <1>1, <2>1, <2>2
<1>9. History(g, new)
  BY <1>2, <1>5, <1>7, <1>8 DEF History
<1> QED BY <1>2, <1>9 DEF g, n, new

(* The merge never sets noop; an initial event can be run. *)
LEMMA NotNoop ==
  ASSUME NEW m \in Machines, NEW status \in Statuses, NEW type \in EventTypes,
         TransitionFor[m, status, type] # NoTransition
  PROVE  TransitionFor[m, status, type].noop = FALSE
<1>1. TransitionFor[m, status, type] = BuildTransition(m, status, type)
  BY DEF TransitionFor
<1>2. BuildTransition(m, status, type).noop = FALSE
  BY <1>1 DEF BuildTransition
<1> QED BY <1>1, <1>2

LEMMA InitialRuns ==
  ASSUME NEW state \in State, NeedsInitial(state), NEW id \in EventIds
  PROVE  LET row == InitialRow(state, id)
         IN  /\ CanRun(state, row.inner)
             /\ row = EventFrom(state, row.inner, row.id, row.cause)
             /\ row.id = id /\ row.cause.type = "init"
             /\ row.snapshot.keys = row.keys
<1> DEFINE m     == MachineOf[state.keys.entity]
           inner == InitialEvent[m]
           row   == InitialRow(state, id)
           tr    == TransitionFor[m, 0, inner.type]
<1>1. state.status = 0 /\ inner # NoInner /\ m \in Machines /\ 0 \in Statuses
  BY StateParts DEF NeedsInitial
<1>2. inner \in InnerEvent /\ inner.type \in EventTypes
  BY <1>1, FollowerAssumption DEF InnerEvent
<1>3. row.inner = inner /\ row.id = id /\ row.cause = CauseOf("init")
      /\ row.keys = state.keys
      /\ row = EventFrom(state, row.inner, row.id, row.cause)
  BY EventKeys DEF InitialRow
<1>4. tr # NoTransition /\ tr.to # 0
  BY <1>1, InitialAssumption
<1>5. tr.noop = FALSE /\ tr \in Transition
  BY <1>1, <1>2, <1>4, NotNoop, TransitionType
<1>6. TransitionOf(state, row.inner) = tr
  BY <1>1, <1>3 DEF TransitionOf
<1> HIDE DEF tr, row
<1>7. CanRun(state, row.inner)
  <2>1. Mutated(state, tr, 0).status = tr.to
    BY <1>4, <1>5 DEF Mutated, State
  <2> QED BY <1>4, <1>6, <2>1 DEF CanRun
<1>8. row.snapshot.keys = row.keys
  BY <1>3, <1>5, <1>6, SnapshotKeys
<1>9. row.cause.type = "init"
  BY <1>3 DEF CauseOf
<1> QED BY <1>3, <1>7, <1>8, <1>9 DEF row
(* The leader's new events follow from its tables, the initial one first. *)
LEMMA LeadKeepsFeed ==
  ASSUME FollowerTypeOK, History(feed, leader), Lead
  PROVE  /\ History(feed', leader')
         /\ Len(feed) \in Nat /\ Len(feed') \in Nat /\ Len(feed) <= Len(feed')
         /\ \A i \in 1 .. Len(feed) : feed'[i] = feed[i]
         /\ UNCHANGED <<store, work, calls, followed, last, acked>>
<1>1. PICK input \in LeaderInputs :
        /\ input.keys \in Keys /\ input.inner \in InnerEvent
        /\ Current(leader, input.keys) \in State /\ LeadState(input) \in State
        /\ CanRun(LeadState(input), input.inner)
        /\ LeadEvent(input) \in EventRow
        /\ leader' = [leader EXCEPT ![input.keys.entity] = LeadEvent(input).snapshot]
        /\ feed' = Append(feed \o Initial(input), LeadEvent(input))
        /\ UNCHANGED <<store, work, calls, followed, last, acked>>
  BY LeadParts
<1> DEFINE before == Current(leader, input.keys)
           state  == LeadState(input)
           event  == LeadEvent(input)
           e      == input.keys.entity
           n      == Len(feed)
<1>2. feed \in Seq(EventRow) /\ n \in Nat /\ leader \in RowTable /\ minted + 1 \in EventIds
  BY DEF FollowerTypeOK, RowTable, EventIds
<1>3. /\ e \in Entities /\ before.keys.entity = e
      /\ before = Current(leader, before.keys)
  BY <1>1 DEF Current, EmptyState, History, FiledByKeys, Keys
<1>4. /\ event = EventFrom(state, event.inner, event.id, event.cause)
      /\ event.inner = input.inner /\ event.keys = state.keys
  BY EventKeys DEF LeadEvent
<1>5. event.snapshot.keys = event.keys
  <2>1. TransitionOf(state, event.inner) # NoTransition
    BY <1>1, <1>4 DEF CanRun
  <2>2. TransitionOf(state, event.inner) \in Transition
    BY <1>1, <1>4, <2>1, StateParts, TransitionType DEF TransitionOf, InnerEvent
  <2>3. event.id \in EventIds
    BY <1>1 DEF EventRow
  <2> HIDE DEF event, state
  <2>4. state \in State
    BY <1>1 DEF state
  <2> QED BY <1>4, <2>2, <2>3, <2>4, SnapshotKeys
<1>6. CanRun(state, event.inner)
  BY <1>1, <1>4
<1>7. CASE ~NeedsInitial(before)
  <2>1. Initial(input) = <<>> /\ state = before
    BY <1>7 DEF Initial, LeadState
  <2>2. feed' = Append(feed, event)
    BY <1>1, <1>2, <2>1, ConcatEmptySeq
  <2>3. state \in State /\ state = Current(leader, state.keys) /\ event \in EventRow
    BY <1>1, <1>3, <2>1
  <2>4. leader' = [leader EXCEPT ![event.keys.entity] = event.snapshot]
    BY <1>1, <1>3, <1>4, <2>1
  <2>5. UNCHANGED <<store, work, calls, followed, last, acked>>
    BY <1>1
  <2> HIDE DEF event, state, before, n, e
  <2>6. /\ Len(feed') = n + 1 /\ \A i \in 1 .. n : feed'[i] = feed[i]
        /\ History(feed', leader')
    BY <1>2, <1>4, <1>5, <1>6, <2>2, <2>3, <2>4, HistoryGrows DEF n
  <2>7. Len(feed') \in Nat /\ n <= Len(feed')
    BY <1>2, <2>6
  <2> QED BY <1>2, <2>5, <2>6, <2>7 DEF n
<1>8. CASE NeedsInitial(before)
  <2> DEFINE row   == InitialRow(before, minted + 1)
             table == [leader EXCEPT ![e] = row.snapshot]
             f     == Append(feed, row)
  <2>1. /\ row \in EventRow /\ row.keys = before.keys /\ row.snapshot \in State
        /\ CanRun(before, row.inner)
        /\ row = EventFrom(before, row.inner, row.id, row.cause)
        /\ row.snapshot.keys = row.keys
    BY <1>1, <1>2, <1>8, InitialRowType, InitialRuns
  <2>2. Initial(input) = <<row>> /\ state = row.snapshot
    <3>1. Initial(input) = <<row>>
      BY <1>8 DEF Initial
    <3>2. Initial(input) # <<>> /\ Initial(input)[1] = row
      BY <3>1
    <3> QED BY <3>1, <3>2 DEF LeadState
  <2>3. feed \o <<row>> = f
    BY <1>2, <2>1, AppendIsConcat
  <2>4. feed' = Append(f, event)
    BY <1>1, <2>2, <2>3
  <2>5. before \in State /\ event \in EventRow
    BY <1>1
  <2>6. UNCHANGED <<store, work, calls, followed, last, acked>>
    BY <1>1
  <2>7. leader' = [leader EXCEPT ![e] = event.snapshot]
    BY <1>1
  <2>8. state \in State
    BY <1>1
  <2> HIDE DEF row, f, event, state, before, n, e
  <2>9. row.keys.entity = e
    BY <1>3, <2>1
  <2>10. /\ f \in Seq(EventRow) /\ Len(f) = n + 1
         /\ \A i \in 1 .. n : f[i] = feed[i]
         /\ History(f, table)
    BY <1>2, <1>3, <2>1, <2>5, <2>9, HistoryGrows DEF f, n
  <2>11. table \in RowTable /\ table[e] = state
    BY <1>2, <1>3, <2>1, <2>2 DEF RowTable
  <2>12. state.keys.entity = e /\ event.keys.entity = e
    BY <1>3, <1>4, <2>1, <2>2
  <2>13. state = Current(table, state.keys)
    BY <2>8, <2>11, <2>12, NoStateAssumption DEF Current
  <2>14. leader' = [table EXCEPT ![event.keys.entity] = event.snapshot]
    BY <1>2, <1>3, <2>7, <2>12 DEF RowTable
  <2> HIDE DEF table
  <2>15. /\ Len(Append(f, event)) = Len(f) + 1
         /\ \A i \in 1 .. Len(f) : Append(f, event)[i] = f[i]
         /\ History(Append(f, event), [table EXCEPT ![event.keys.entity] = event.snapshot])
    <3>1. f \in Seq(EventRow) /\ History(f, table) /\ table \in RowTable
      BY <2>10, <2>11
    <3>2. event = EventFrom(state, event.inner, event.id, event.cause)
      BY <1>4
    <3> QED BY <1>5, <1>6, <2>5, <2>8, <2>13, <3>1, <3>2, HistoryGrows
  <2>16. /\ Len(feed') = n + 2 /\ \A i \in 1 .. n : feed'[i] = feed[i]
         /\ History(feed', leader')
    BY <1>2, <2>4, <2>10, <2>14, <2>15
  <2>17. Len(feed') \in Nat /\ n <= Len(feed')
    BY <1>2, <2>16
  <2> QED BY <1>2, <2>6, <2>16, <2>17 DEF n
<1> QED BY <1>7, <1>8

LEMMA NextFeed ==
  ASSUME FollowerTypeOK, History(feed, leader), [Next]_vars
  PROVE  History(feed', leader')
<1>1. CASE UNCHANGED <<leader, feed>>
  BY <1>1
<1>2. CASE Lead
  BY <1>2, LeadKeepsFeed
<1> QED
  BY <1>1, <1>2 DEF Next, Replica, Deliver, MakeInitial, Follow, RunHook, SkipHook, Reject,
                    Acknowledge, CommitUnacked, Crash, Rest, vars

-----------------------------------------------------------------------------
(***************************************************************************)
(* Of the entities whose machine has no initial event, the tables are      *)
(* those the leader had after n events.                                    *)
(***************************************************************************)
CopiesOf(events) == {e \in events : Copied(e.keys.entity)}

CopiedUpTo(f, n) == {f[i] : i \in {j \in 1 .. n : Copied(f[j].keys.entity)}}

Mirrors(f, tables, n) ==
  /\ CopiesOf(tables.events) = CopiedUpTo(f, n)
  /\ \A k \in Entities : Copied(k) => tables.rows[k] = RowAt(f, n, k)

MirrorInv ==
  /\ acked <= followed /\ followed <= last
  /\ FiledByKeys(store.rows)
  /\ \E n \in acked .. Len(feed) : Mirrors(feed, store, n)
  /\ work # NoWork =>
       /\ FiledByKeys(work.rows)
       /\ \E n \in followed .. Len(feed) : Mirrors(feed, work, n)

(* Storing an event of an entity that is not copied changes nothing here. *)
LEMMA StoringOther ==
  ASSUME NEW tables \in Tables, NEW event \in EventRow, ~Copied(event.keys.entity),
         NEW f, NEW n, Mirrors(f, tables, n)
  PROVE  Mirrors(f, Stored(tables, event), n)
<1>1. /\ Stored(tables, event).rows = [tables.rows EXCEPT ![event.keys.entity] = event.snapshot]
      /\ Stored(tables, event).events = tables.events \cup {event}
  BY StoredParts
<1>2. CopiesOf(Stored(tables, event).events) = CopiesOf(tables.events)
  BY <1>1 DEF CopiesOf
<1>3. \A k \in Entities : Copied(k) => Stored(tables, event).rows[k] = tables.rows[k]
  BY <1>1 DEF Tables
<1> QED BY <1>2, <1>3 DEF Mirrors

LEMMA LeadKeepsMirrors ==
  ASSUME FollowerTypeOK, History(feed, leader), MirrorInv, Lead
  PROVE  MirrorInv'
<1>1. /\ Len(feed) \in Nat /\ Len(feed') \in Nat /\ Len(feed) <= Len(feed')
      /\ \A i \in 1 .. Len(feed) : feed'[i] = feed[i]
      /\ UNCHANGED <<store, work, followed, last, acked>>
      /\ acked \in Nat /\ followed \in Nat
  BY LeadKeepsFeed DEF FollowerTypeOK
<1>2. ASSUME NEW tables, NEW from \in Nat, \E n \in from .. Len(feed) : Mirrors(feed, tables, n)
      PROVE  \E n \in from .. Len(feed') : Mirrors(feed', tables, n)
  <2>1. PICK n \in from .. Len(feed) : Mirrors(feed, tables, n)
    BY <1>2
  <2>2. n \in Nat /\ \A i \in 1 .. n : feed'[i] = feed[i]
    BY <1>1, <2>1
  <2>3. RowsAt(feed', n) = RowsAt(feed, n)
    BY <2>2, RowsAtKept
  <2>4. \A k \in Entities : RowAt(feed', n, k) = RowAt(feed, n, k)
    BY <2>3 DEF RowsAt
  <2>5. CopiedUpTo(feed', n) = CopiedUpTo(feed, n)
    BY <2>2 DEF CopiedUpTo
  <2>6. Mirrors(feed', tables, n) /\ n \in from .. Len(feed')
    BY <1>1, <2>1, <2>4, <2>5 DEF Mirrors
  <2> QED BY <2>6
<1> QED BY <1>1, <1>2 DEF MirrorInv

(***************************************************************************)
(* A copied event that is followed is the next one of the feed, or the     *)
(* transaction has its ID already; and it comes out as it was published.   *)
(***************************************************************************)
LEMMA FollowKeepsMirrors ==
  ASSUME FollowerTypeOK, History(feed, leader), MirrorInv, Follow
  PROVE  MirrorInv'
<1> DEFINE event == Renumbered(Found, Event)
           e     == Event.keys.entity
<1>1. /\ work # NoWork /\ followed < last /\ ~Known(Event)
      /\ CanRun(Found, Event.inner)
      /\ work' = Stored(work, event) /\ followed' = followed + 1
      /\ UNCHANGED <<leader, feed, store, last, acked>>
  BY DEF Follow, AtEvent
<1>2. /\ Event \in EventRow /\ followed + 1 \in 1 .. Len(feed)
      /\ Found \in State /\ work \in Tables
      /\ TransitionOf(Found, Event.inner) \in Transition
      /\ event \in EventRow /\ event.keys = Found.keys
  BY FollowedTypes DEF Follow
<1>3. /\ feed \in Seq(EventRow) /\ Len(feed) \in Nat /\ followed \in Nat
      /\ acked \in Nat /\ last \in Nat
  BY DEF FollowerTypeOK
<1>4. FiledByKeys(work.rows) /\ e \in Entities /\ work.rows \in RowTable
  BY <1>1, <1>2 DEF MirrorInv, EventRow, Keys, Tables, RowTable
<1>5. Found.keys.entity = e
  BY <1>4 DEF Found, Current, EmptyState, FiledByKeys
<1>6. event.snapshot.keys = event.keys
  BY <1>2, SnapshotKeys DEF Renumbered, EventRow
<1>7. PICK n \in followed .. Len(feed) : Mirrors(feed, work, n)
  BY <1>1 DEF MirrorInv
<1>8. /\ work'.rows = [work.rows EXCEPT ![event.keys.entity] = event.snapshot]
      /\ work'.events = work.events \cup {event}
  <2> HIDE DEF event
  <2> QED BY <1>1, <1>2, StoredParts
<1>9. FiledByKeys(work'.rows)
  <2> HIDE DEF event
  <2> QED BY <1>2, <1>4, <1>6, <1>8, StoringFiles
<1>10. /\ Event = feed[followed + 1]
       /\ \A k \in Entities : RowAt(feed, followed + 1, k)
            = IF e = k THEN Event.snapshot ELSE RowAt(feed, followed, k)
  BY <1>2, <1>3, RowAtNext DEF Event
<1>11. CASE Copied(e)
  <2>1. n = followed
    <3> SUFFICES ASSUME n # followed PROVE FALSE
      OBVIOUS
    <3>1. followed + 1 \in 1 .. n
      BY <1>3, <1>7
    <3>2. Event \in CopiedUpTo(feed, n)
      BY <1>10, <1>11, <3>1 DEF CopiedUpTo
    <3>3. Event \in work.events
      BY <1>7, <3>2 DEF Mirrors, CopiesOf
    <3> QED BY <1>1, <3>3 DEF Known
  <2>2. event = Event
    <3>1. PICK i : i = followed + 1
      OBVIOUS
    <3>2. i - 1 = followed /\ Event = feed[i] /\ Reproduced(feed, i)
      BY <1>2, <1>3, <1>10, <3>1 DEF History
    <3>3. Found = Current(RowsAt(feed, followed), Event.keys)
      BY <1>4, <1>7, <1>11, <2>1 DEF Found, Current, Mirrors, RowsAt
    <3>4. Found = Current(RowsAt(feed, i - 1), feed[i].keys)
      BY <3>2, <3>3
    <3>5. feed[i] = EventFrom(Found, feed[i].inner, feed[i].id, feed[i].cause)
      BY <3>2, <3>4 DEF Reproduced
    <3> QED BY <3>2, <3>5 DEF Renumbered
  <2>3. CopiesOf(work'.events) = CopiedUpTo(feed, followed + 1)
    <3>1. CopiesOf(work'.events) = CopiesOf(work.events) \cup {Event}
      BY <1>8, <1>11, <2>2 DEF CopiesOf
    <3>2. CopiedUpTo(feed, followed + 1) = CopiedUpTo(feed, followed) \cup {Event}
      BY <1>3, <1>10, <1>11 DEF CopiedUpTo
    <3> QED BY <1>7, <2>1, <3>1, <3>2 DEF Mirrors
  <2>4. ASSUME NEW k \in Entities, Copied(k)
        PROVE  work'.rows[k] = RowAt(feed, followed + 1, k)
    <3>1. work.rows[k] = RowAt(feed, followed, k)
      BY <1>7, <2>1, <2>4 DEF Mirrors
    <3> HIDE DEF event
    <3> QED BY <1>4, <1>8, <1>10, <2>2, <3>1 DEF RowTable
  <2>5. Mirrors(feed, work', followed + 1)
    BY <2>3, <2>4 DEF Mirrors
  <2> QED BY <1>1, <1>2, <1>3, <1>9, <2>5 DEF MirrorInv, Copied
<1>12. CASE ~Copied(e)
  <2>1. Mirrors(feed, work', n)
    <3> HIDE DEF event
    <3> QED BY <1>1, <1>2, <1>5, <1>7, <1>12, StoringOther
  <2>2. PICK m \in followed + 1 .. Len(feed) : Mirrors(feed, work', m)
    <3>1. CASE n >= followed + 1
      BY <1>3, <1>7, <2>1, <3>1
    <3>2. CASE n = followed
      <4>1. CopiedUpTo(feed, followed + 1) = CopiedUpTo(feed, followed)
        BY <1>3, <1>10, <1>12 DEF CopiedUpTo
      <4>2. \A k \in Entities :
              Copied(k) => RowAt(feed, followed + 1, k) = RowAt(feed, followed, k)
        BY <1>10, <1>12
      <4>3. Mirrors(feed, work', followed + 1)
        BY <2>1, <3>2, <4>1, <4>2 DEF Mirrors
      <4> QED BY <1>2, <1>3, <4>3
    <3> QED BY <1>3, <1>7, <3>1, <3>2
  <2> QED BY <1>1, <1>3, <1>9, <2>2 DEF MirrorInv, Copied
<1> QED BY <1>11, <1>12

LEMMA NextMirrors ==
  ASSUME FollowerTypeOK, History(feed, leader), MirrorInv, [Next]_vars
  PROVE  MirrorInv'
<1> USE DEF MirrorInv
<1>1. CASE UNCHANGED vars
  BY <1>1 DEF vars
<1>2. CASE Lead
  BY <1>2, LeadKeepsMirrors
<1>3. CASE Deliver
  BY <1>3, FollowerAssumption DEF Deliver, FollowerTypeOK
<1>4. CASE MakeInitial
  <2> DEFINE event == InitialRow(Found, minted + 1)
  <2>1. /\ AtEvent /\ work # NoWork /\ NeedsInitial(Found) /\ work' = Stored(work, event)
        /\ UNCHANGED <<feed, store, followed, last, acked>>
    BY <1>4 DEF MakeInitial, AtEvent
  <2>2. /\ work \in Tables /\ Found \in State
        /\ event \in EventRow /\ event.keys = Found.keys
    BY <2>1, FollowedTypes
  <2>3. minted + 1 \in EventIds
    BY DEF FollowerTypeOK, EventIds
  <2>4. event.snapshot.keys = event.keys
    BY <2>1, <2>2, <2>3, InitialRuns
  <2>5. ~Copied(event.keys.entity)
    BY <2>1, <2>2 DEF NeedsInitial, Copied
  <2>6. work.rows \in RowTable
    BY <2>2 DEF Tables, RowTable
  <2> HIDE DEF event
  <2>7. FiledByKeys(work'.rows)
    BY <2>1, <2>2, <2>4, <2>6, StoredParts, StoringFiles
  <2>8. \A n : Mirrors(feed, work, n) => Mirrors(feed, work', n)
    BY <2>1, <2>2, <2>5, StoringOther
  <2> QED BY <2>1, <2>7, <2>8 DEF Mirrors
<1>5. CASE Follow
  BY <1>5, FollowKeepsMirrors
<1>6. CASE RunHook \/ SkipHook
  <2>1. /\ work # NoWork /\ calls # <<>> /\ calls \in Seq(HookCall) /\ work \in Tables
        /\ UNCHANGED <<feed, store, followed, last, acked>>
    BY <1>6 DEF RunHook, SkipHook, FollowerTypeOK
  <2>2. calls[1] \in HookCall
    BY <2>1
  <2>3. work'.rows = work.rows /\ work'.events = work.events
    <3>1. CASE RunHook
      <4>1. work' = AfterHook(work, calls[1])
        BY <3>1 DEF RunHook
      <4> QED BY <2>1, <2>2, <4>1, HookedParts
    <3>2. CASE SkipHook
      BY <3>2 DEF SkipHook
    <3> QED BY <1>6, <3>1, <3>2
  <2> QED BY <2>1, <2>3 DEF Mirrors
<1>7. CASE Reject \/ Crash
  BY <1>7 DEF Reject, Crash
<1>8. CASE Acknowledge
  <2>1. PICK n \in followed .. Len(feed) : Mirrors(feed, work, n)
    BY <1>8 DEF Acknowledge, CommitWork
  <2> QED BY <1>8, <2>1 DEF Acknowledge, CommitWork, FollowerTypeOK
<1>9. CASE CommitUnacked
  <2>1. PICK n \in followed .. Len(feed) : Mirrors(feed, work, n)
    BY <1>9 DEF CommitUnacked, CommitWork
  <2>2. n \in acked .. Len(feed)
    BY <2>1 DEF FollowerTypeOK
  <2> QED BY <1>9, <2>1, <2>2 DEF CommitUnacked, CommitWork
<1> QED
  BY <1>1, <1>2, <1>3, <1>4, <1>5, <1>6, <1>7, <1>8, <1>9 DEF Next, Replica, Rest

(***************************************************************************)
(* The replica's tables are the leader's as they were after some prefix of *)
(* the feed, whatever batches the feed comes in and whatever is lost,      *)
(* refused or delivered again, for every entity whose machine has no       *)
(* initial event: of the others the replica makes events of its own.       *)
(***************************************************************************)
THEOREM FollowsLeader == Spec => []MirrorsLeader
<1>1. Init => History(feed, leader) /\ MirrorInv
  <2> SUFFICES ASSUME Init PROVE History(feed, leader) /\ MirrorInv
    OBVIOUS
  <2>1. Len(feed) = 0 /\ leader = NoRows /\ RowsAt(feed, 0) = NoRows
    BY RowsAtNone DEF Init
  <2>2. CopiedUpTo(feed, 0) = {}
    BY DEF CopiedUpTo
  <2>3. store.events = {} /\ store.rows = NoRows
    BY DEF Init, Empty
  <2>4. \A k \in Entities : RowAt(feed, 0, k) = NoState
    BY <2>1 DEF RowsAt, NoRows
  <2>5. Mirrors(feed, store, 0)
    BY <2>2, <2>3, <2>4 DEF Mirrors, CopiesOf, NoRows
  <2>6. FiledByKeys(NoRows)
    BY DEF FiledByKeys, NoRows
  <2> QED BY <2>1, <2>3, <2>5, <2>6 DEF MirrorInv, History, Init
<1>2. FollowerTypeOK /\ History(feed, leader) /\ MirrorInv /\ [Next]_vars
        => (History(feed, leader) /\ MirrorInv)'
  BY NextFeed, NextMirrors
<1>3. MirrorInv => MirrorsLeader
  BY RowsOfFeed DEF MirrorInv, Mirrors, CopiesOf, CopiedUpTo, MirrorsLeader
<1> QED BY <1>1, <1>2, <1>3, FollowerTypeCorrect, PTL DEF Spec
-----------------------------------------------------------------------------
(***************************************************************************)
(* Every ID of the feed and of the replica's events is drawn, so that an   *)
(* initial event gets one that is in neither; and a hook that is handed a  *)
(* baton is one of such an event.                                          *)
(***************************************************************************)
Drawn(event) == event.id \in Nat /\ event.id <= minted

SentByOwn(tables) ==
  \A i \in 1 .. Len(tables.outbox) :
    \E e \in tables.events : Own(e) /\ RefOf(e) = tables.outbox[i].cause

CallOwn(call) ==
  /\ call.onFollow => call.sends = <<>>
  /\ call.baton => call.event \in work.events /\ Own(call.event)

SentInv ==
  /\ \A i \in 1 .. Len(feed) : Drawn(feed[i])
  /\ \A e \in store.events : Drawn(e)
  /\ SentByOwn(store)
  /\ work # NoWork =>
       /\ \A e \in work.events : Drawn(e)
       /\ SentByOwn(work)
       /\ \A i \in 1 .. Len(calls) : CallOwn(calls[i])

(* An event that is not in the feed is not added to it later. *)
LEMMA LeadDraws ==
  ASSUME FollowerTypeOK, SentInv, Lead
  PROVE  /\ \A i \in 1 .. Len(feed') : Drawn(feed[i])'
         /\ \A e : Drawn(e) => Drawn(e)'
         /\ \A e : Drawn(e) /\ Own(e) => Own(e)'
         /\ UNCHANGED <<store, work, calls>>
<1>1. PICK input \in LeaderInputs :
        /\ Initial(input) \in Seq(EventRow) /\ Len(Initial(input)) \in {0, 1}
        /\ LeadEvent(input) \in EventRow
        /\ feed' = Append(feed \o Initial(input), LeadEvent(input))
        /\ minted' = minted + 1 + Len(Initial(input))
        /\ UNCHANGED <<store, work, calls>>
  BY LeadParts
<1> DEFINE n   == Len(feed)
           ini == Initial(input)
           new == LeadEvent(input)
           f   == feed \o ini
<1>2. feed \in Seq(EventRow) /\ n \in Nat /\ minted \in Nat
  BY DEF FollowerTypeOK
<1>3. new.id = minted + 1 + Len(ini)
  BY EventKeys DEF LeadEvent
<1>4. Len(ini) = 1 => ini[1].id = minted + 1
  <2>1. Len(ini) = 1 => ini = <<InitialRow(Current(leader, input.keys), minted + 1)>>
    BY DEF Initial
  <2>2. \A state : InitialRow(state, minted + 1).id = minted + 1
    BY EventKeys DEF InitialRow
  <2> QED BY <2>1, <2>2
<1>5. ini \in Seq(EventRow) /\ Len(ini) \in {0, 1} /\ new \in EventRow
  BY <1>1
<1>6. feed' = Append(f, new)
  BY <1>1
<1>7. minted' = minted + 1 + Len(ini)
  BY <1>1
<1> HIDE DEF ini, new, f
<1>8. f \in Seq(EventRow) /\ Len(f) = n + Len(ini)
  BY <1>2, <1>5, ConcatProperties DEF f
<1>9. \A i \in 1 .. n + Len(ini) : f[i] = IF i <= n THEN feed[i] ELSE ini[i - n]
  BY <1>2, <1>5, ConcatProperties DEF f
<1>10. Len(feed') = Len(f) + 1
  BY <1>5, <1>6, <1>8, AppendProperties
<1>11. \A i \in 1 .. Len(f) : feed'[i] = f[i]
  BY <1>5, <1>6, <1>8, AppendProperties
<1>12. feed'[Len(f) + 1] = new
  BY <1>5, <1>6, <1>8, AppendProperties
<1> HIDE DEF n
<1>13. ASSUME NEW i \in 1 .. Len(feed')
       PROVE  \/ i \in 1 .. n /\ feed'[i] = feed[i]
              \/ feed'[i].id \in Nat /\ minted < feed'[i].id /\ feed'[i].id <= minted'
  <2>1. CASE i \in 1 .. n
    BY <1>2, <1>5, <1>8, <1>9, <1>11, <2>1
  <2>2. CASE i \in n + 1 .. n + Len(ini)
    <3>1. Len(ini) = 1 /\ i = n + 1
      <4>1. CASE Len(ini) = 0
        BY <1>2, <2>2, <4>1
      <4>2. CASE Len(ini) = 1
        BY <1>2, <2>2, <4>2
      <4> QED BY <1>5, <4>1, <4>2
    <3>2. feed'[i] = ini[1]
      BY <1>2, <1>8, <1>9, <1>11, <3>1
    <3> QED BY <1>2, <1>4, <1>7, <3>1, <3>2
  <2>3. CASE i = n + Len(ini) + 1
    BY <1>2, <1>3, <1>5, <1>7, <1>8, <1>12, <2>3
  <2> QED BY <1>2, <1>5, <1>8, <1>10, <2>1, <2>2, <2>3
<1>14. \A e : Drawn(e) => Drawn(e)'
  BY <1>2, <1>5, <1>7 DEF Drawn
<1>15. \A i \in 1 .. Len(feed') : Drawn(feed[i])'
  <2> SUFFICES ASSUME NEW i \in 1 .. Len(feed')
               PROVE  feed'[i].id \in Nat /\ feed'[i].id <= minted'
    BY DEF Drawn
  <2>1. CASE i \in 1 .. n /\ feed'[i] = feed[i]
    BY <1>2, <1>5, <1>7, <2>1 DEF SentInv, Drawn, n
  <2> QED BY <1>13, <2>1
<1>16. ASSUME NEW e, Drawn(e), Own(e)
       PROVE  Own(e)'
  <2>1. \A i \in 1 .. Len(feed') : feed'[i].id # e.id
    BY <1>2, <1>13, <1>16 DEF Drawn, Own, n
  <2> QED BY <1>16, <2>1 DEF Own
<1> QED BY <1>1, <1>14, <1>15, <1>16

LEMMA NextSent ==
  ASSUME FollowerTypeOK, SentInv, [Next]_vars
  PROVE  SentInv'
<1> USE DEF SentInv
<1>1. CASE UNCHANGED <<feed, store, work, calls, minted>>
  BY <1>1 DEF Drawn, SentByOwn, Own, CallOwn
<1>2. CASE Lead
  <2>1. /\ \A i \in 1 .. Len(feed') : Drawn(feed[i])'
        /\ \A e : Drawn(e) => Drawn(e)'
        /\ \A e : Drawn(e) /\ Own(e) => Own(e)'
        /\ store' = store /\ work' = work /\ calls' = calls
    BY <1>2, LeadDraws
  <2>2. SentByOwn(store)'
    BY <2>1 DEF SentByOwn
  <2>3. work # NoWork =>
          /\ SentByOwn(work)'
          /\ \A i \in 1 .. Len(calls) : CallOwn(calls[i])'
    BY <2>1 DEF SentByOwn, CallOwn
  <2> QED BY <2>1, <2>2, <2>3
<1>3. CASE Deliver
  <2>1. /\ work' = store /\ Len(calls') = 0
        /\ UNCHANGED <<feed, store, minted>>
    BY <1>3 DEF Deliver
  <2> QED BY <2>1 DEF Drawn, SentByOwn, Own
<1>4. CASE MakeInitial
  <2> DEFINE event == InitialRow(Found, minted + 1)
  <2>1. /\ AtEvent /\ work # NoWork /\ NeedsInitial(Found) /\ work' = Stored(work, event)
        /\ calls' = CallsFor(Found, event, TRUE) /\ minted' = minted + 1
        /\ UNCHANGED <<feed, store>>
    BY <1>4 DEF MakeInitial, AtEvent
  <2>2. /\ work \in Tables /\ Found \in State /\ event \in EventRow
        /\ minted \in Nat
    BY <2>1, FollowedTypes DEF FollowerTypeOK
  <2>3. event.id = minted + 1 /\ event.cause.type = "init"
    <3>1. minted + 1 \in EventIds
      BY <2>2 DEF EventIds
    <3> QED BY <2>1, <2>2, <3>1, InitialRuns
  <2> HIDE DEF event
  <2>4. PICK row : row = event
    OBVIOUS
  <2>5. /\ row \in EventRow /\ row.id = minted + 1 /\ row.cause.type = "init"
        /\ work' = Stored(work, row) /\ calls' = CallsFor(Found, row, TRUE)
    BY <2>1, <2>2, <2>3, <2>4
  <2>6. work'.events = work.events \cup {row} /\ work'.outbox = work.outbox
    BY <2>2, <2>5, StoredParts
  <2>7. \A i \in 1 .. Len(calls') : Fit(calls'[i], row, TRUE)
    BY <2>2, <2>5, CallsParts
  <2>8. \A e : (Drawn(e) => Drawn(e)') /\ (Own(e) => Own(e)')
    BY <2>1, <2>2 DEF Drawn, Own
  <2>9. Own(row)' /\ Drawn(row)'
    BY <2>1, <2>2, <2>5 DEF Own, Drawn
  <2>10. SentByOwn(store)' /\ SentByOwn(work)'
    BY <2>1, <2>6, <2>8 DEF SentByOwn
  <2>11. \A i \in 1 .. Len(calls') : CallOwn(calls[i])'
    BY <2>6, <2>7, <2>9 DEF CallOwn, Fit
  <2>12. \A i \in 1 .. Len(feed') : Drawn(feed[i])'
    BY <2>1, <2>8
  <2> QED BY <2>1, <2>6, <2>8, <2>9, <2>10, <2>11, <2>12
<1>5. CASE Follow
  <2> DEFINE event == Renumbered(Found, Event)
  <2>1. /\ AtEvent /\ work # NoWork /\ CanRun(Found, Event.inner)
        /\ work' = Stored(work, event) /\ calls' = CallsFor(Found, event, FALSE)
        /\ UNCHANGED <<feed, store, minted>>
    BY <1>5 DEF Follow, AtEvent
  <2>2. /\ work \in Tables /\ Found \in State /\ event \in EventRow
        /\ followed + 1 \in 1 .. Len(feed)
    BY <2>1, FollowedTypes
  <2>3. event.id = Event.id /\ Event = feed[followed + 1]
    BY EventKeys DEF Renumbered, Event
  <2> HIDE DEF event
  <2>4. work'.events = work.events \cup {event} /\ work'.outbox = work.outbox
    BY <2>1, <2>2, StoredParts
  <2>5. \A i \in 1 .. Len(calls') : Fit(calls'[i], event, FALSE)
    BY <2>1, <2>2, CallsParts
  <2>6. Drawn(event)
    BY <2>2, <2>3 DEF Drawn
  <2>7. \A e : (Drawn(e) => Drawn(e)') /\ (Own(e) => Own(e)')
    BY <2>1 DEF Drawn, Own
  <2>8. SentByOwn(store)' /\ SentByOwn(work)'
    BY <2>1, <2>4, <2>7 DEF SentByOwn
  <2>9. \A i \in 1 .. Len(calls') : CallOwn(calls[i])'
    BY <2>5 DEF CallOwn, Fit
  <2>10. \A i \in 1 .. Len(feed') : Drawn(feed[i])'
    BY <2>1, <2>7
  <2> QED BY <2>1, <2>4, <2>6, <2>7, <2>8, <2>9, <2>10
<1>6. CASE RunHook \/ SkipHook
  <2>1. /\ work # NoWork /\ calls # <<>> /\ calls \in Seq(HookCall) /\ work \in Tables
        /\ calls' = Tail(calls) /\ UNCHANGED <<feed, store, minted>>
    BY <1>6 DEF RunHook, SkipHook, FollowerTypeOK
  <2>2. /\ calls[1] \in HookCall /\ 1 \in 1 .. Len(calls)
        /\ \A i \in 1 .. Len(calls') : calls'[i] = calls[i + 1] /\ i + 1 \in 1 .. Len(calls)
    <3>1. /\ Len(calls) \in Nat \ {0} /\ Len(calls') = Len(calls) - 1
          /\ \A i \in 1 .. Len(calls') : calls'[i] = calls[i + 1]
      BY <2>1, HeadTailProperties, EmptySeq
    <3> QED BY <2>1, <3>1, ElementOfSeq
  <2>3. \A e : (Drawn(e) => Drawn(e)') /\ (Own(e) => Own(e)')
    BY <2>1 DEF Drawn, Own
  <2>4. work'.events = work.events /\ SentByOwn(work)'
    <3>1. CASE RunHook
      <4> DEFINE call == calls[1]
      <4>1. work' = AfterHook(work, call) /\ Runs(call)
        BY <3>1 DEF RunHook
      <4>2. CallOwn(call) /\ call \in HookCall
        BY <2>1, <2>2
      <4> HIDE DEF call
      <4>3. /\ work'.events = work.events
            /\ Sent(call) \in Seq(OutboxMessage) /\ Len(Sent(call)) = Len(call.sends)
            /\ work'.outbox = work.outbox \o Sent(call)
        BY <2>1, <4>1, <4>2, HookedParts
      <4> DEFINE n == Len(work.outbox)
      <4>4. work.outbox \in Seq(OutboxMessage) /\ n \in Nat /\ Len(call.sends) \in Nat
        BY <2>1, <4>2 DEF Tables, HookCall
      <4> DEFINE box == Sent(call)
                 old == work.outbox
      <4>5. /\ box \in Seq(OutboxMessage) /\ Len(box) = Len(call.sends)
            /\ old \in Seq(OutboxMessage) /\ work'.outbox = old \o box
        BY <4>3, <4>4
      <4>6. /\ Len(work'.outbox) = n + Len(call.sends)
            /\ \A i \in 1 .. n + Len(call.sends) :
                 work'.outbox[i] = IF i <= n THEN work.outbox[i] ELSE Sent(call)[i - n]
        <5> HIDE DEF box, old
        <5>1. Len(old \o box) = Len(old) + Len(box)
          BY <4>5, ConcatProperties
        <5>2. \A i \in 1 .. Len(old) + Len(box) :
                (old \o box)[i] = IF i <= Len(old) THEN old[i] ELSE box[i - Len(old)]
          BY <4>5, ConcatProperties
        <5> QED BY <4>5, <5>1, <5>2 DEF old, box
      <4> HIDE DEF n, box, old
      <4>7. ASSUME NEW i \in 1 .. n + Len(call.sends)
            PROVE  \E e \in work'.events : Own(e)' /\ RefOf(e) = work'.outbox[i].cause
        <5>1. CASE i <= n
          <6>1. i \in 1 .. n /\ work'.outbox[i] = work.outbox[i]
            BY <4>4, <4>6, <5>1
          <6>2. PICK e \in work.events : Own(e) /\ RefOf(e) = work.outbox[i].cause
            BY <2>1, <6>1 DEF SentByOwn, n
          <6> QED BY <2>3, <4>3, <6>1, <6>2
        <5>2. CASE ~(i <= n)
          <6>1. i - n \in 1 .. Len(call.sends) /\ work'.outbox[i] = Sent(call)[i - n]
            BY <4>4, <4>6, <5>2
          <6>2. work'.outbox[i].cause = RefOf(call.event)
            BY <6>1 DEF Sent
          <6>3. call.sends # <<>>
            BY <4>4, <6>1, EmptySeq
          <6>4. call.baton
            BY <4>1, <4>2, <6>3 DEF Runs, CallOwn
          <6>5. call.event \in work.events /\ Own(call.event)
            BY <4>2, <6>4 DEF CallOwn
          <6> QED BY <2>3, <4>3, <6>2, <6>5
        <5> QED BY <5>1, <5>2
      <4>8. SentByOwn(work)'
        BY <4>6, <4>7 DEF SentByOwn
      <4> QED BY <4>3, <4>8
    <3>2. CASE SkipHook
      <4>1. work' = work
        BY <3>2 DEF SkipHook
      <4> QED BY <2>1, <2>3, <4>1 DEF SentByOwn
    <3> QED BY <1>6, <3>1, <3>2
  <2>5. SentByOwn(store)'
    BY <2>1, <2>3 DEF SentByOwn
  <2>6. \A i \in 1 .. Len(calls') : CallOwn(calls[i])'
    <3> SUFFICES ASSUME NEW i \in 1 .. Len(calls') PROVE CallOwn(calls[i])'
      OBVIOUS
    <3>1. CallOwn(calls[i + 1]) /\ calls'[i] = calls[i + 1]
      BY <2>1, <2>2
    <3> QED BY <2>3, <2>4, <3>1 DEF CallOwn
  <2>7. \A i \in 1 .. Len(feed') : Drawn(feed[i])'
    BY <2>1, <2>3
  <2> QED BY <2>1, <2>3, <2>4, <2>5, <2>6, <2>7
<1>7. CASE Reject \/ Crash
  BY <1>7 DEF Reject, Crash, Drawn, SentByOwn, Own
<1>8. CASE Acknowledge \/ CommitUnacked
  <2>1. /\ work # NoWork /\ store' = work /\ work' = NoWork /\ feed' = feed
        /\ minted' = minted
    BY <1>8 DEF Acknowledge, CommitUnacked, CommitWork
  <2> QED BY <2>1 DEF Drawn, SentByOwn, Own
<1> QED
  BY <1>1, <1>2, <1>3, <1>4, <1>5, <1>6, <1>7, <1>8 DEF Next, Replica, Rest, vars

(***************************************************************************)
(* Following sends nothing but for one case, however often a batch comes:  *)
(* every message in the replica's outbox is from a hook of an initial      *)
(* event the replica made itself, whose ID is nowhere in the feed.         *)
(***************************************************************************)
THEOREM FollowingSendsOnlyForInitial == Spec => []SendsOnlyForInitial
<1>1. Init => SentInv
  BY DEF Init, Empty, SentInv, SentByOwn
<1>2. FollowerTypeOK /\ SentInv /\ [Next]_vars => SentInv'
  BY NextSent
<1>3. SentInv => SendsOnlyForInitial
  BY DEF SentInv, SentByOwn, SendsOnlyForInitial
<1> QED BY <1>1, <1>2, <1>3, FollowerTypeCorrect, PTL DEF Spec
=============================================================================
