------------------------------ MODULE Follower ------------------------------
(***************************************************************************)
(* A replica of state machines: it follows the events a leader has         *)
(* published, in batches, each in a transaction of its own                 *)
(* (DBStateMachine.FollowEvents, StateMachine.followEvents).               *)
(*                                                                         *)
(* The leader is the environment: it runs transitions as TransitionSet     *)
(* says and publishes the rows of its event tables in order.  The replica  *)
(* has its own database; nobody else writes there.                         *)
(***************************************************************************)
EXTENDS TransitionSet

CONSTANTS
  InitialEvent,   \* [Machines -> InnerEvent \cup {NoInner}], initialStateFunc
  NoInner,        \* no initialStateFunc
  LeaderInputs,   \* what the leader may be asked: keys and inner events
  NoWork,         \* no transaction is open
  MaxFeed,        \* bound: requests to the leader
  MaxBatch,       \* bound: events in one call of FollowEvents
  MaxCrashes,     \* bound: transactions of the replica that are lost
  MaxUnacked      \* bound: commits of the replica that are not acknowledged

ASSUME FollowerAssumption ==
  /\ LeaderInputs \subseteq Link
  /\ InitialEvent \in [Machines -> InnerEvent \cup {NoInner}]
  /\ NoInner \notin InnerEvent
  /\ {MaxFeed, MaxBatch, MaxCrashes, MaxUnacked} \subseteq Nat

(***************************************************************************)
(* Initial events are modelled as far as they do not link or chain.        *)
(***************************************************************************)
ASSUME InitialAssumption ==
  \A m \in Machines :
    InitialEvent[m] # NoInner =>
      LET tr == TransitionFor[m, 0, InitialEvent[m].type]
      IN  /\ tr # NoTransition /\ tr.to # 0
          /\ tr.links = <<>> /\ tr.chain = <<>>

(***************************************************************************)
(* The event hooks of every transition, as a function; and what every      *)
(* registration of hooks the generated constructors make gives.            *)
(***************************************************************************)
EventHooksFor ==
  [at \in Machines \X Statuses \X EventTypes |-> EventHooksOf(at[1], at[2], at[3])]

ASSUME HooksAssumption ==
  /\ EventHooksFor \in [Machines \X Statuses \X EventTypes -> Seq(EventHook)]
  /\ GlobalStateHooks \in [Machines -> Seq(StateHook)]

VARIABLES
  leader,     \* [Entities -> State \cup {NoState}], the leader's state tables
  feed,       \* the events it has published, in order
  store,      \* the replica's tables
  work,       \* the tables as the open transaction sees them, or NoWork
  calls,      \* the hooks of the event last stored that are still to come
  followed,   \* the position in the feed of the last event followed
  last,       \* the position of the last event of the batch
  acked,      \* the position the transport knows to be followed
  minted,     \* the number of UUIDs drawn
  requests, crashes, unacked

vars == <<leader, feed, store, work, calls, followed, last, acked, minted,
          requests, crashes, unacked>>

(***************************************************************************)
(* State and event tables, what the data hooks derive, and the outbox.     *)
(***************************************************************************)
Tables ==
  [rows : [Entities -> State \cup {NoState}], events : SUBSET EventRow,
   derived : [Entities -> State \cup {NoState}], outbox : Seq(OutboxMessage)]

(***************************************************************************)
(* A hook that runHooks or runFollowerHooks comes to, the event it is for, *)
(* and whether it is given a baton: runEvent makes one, followEvent none.  *)
(***************************************************************************)
HookCall ==
  [sends : Seq(Messages), derives : BOOLEAN, onFollow : BOOLEAN,
   event : EventRow, baton : BOOLEAN]

(***************************************************************************)
(* Every variable keeps to its type.                                       *)
(***************************************************************************)
FollowerTypeOK ==
  /\ leader \in [Entities -> State \cup {NoState}]
  /\ feed \in Seq(EventRow)
  /\ store \in Tables /\ work \in Tables \cup {NoWork}
  /\ calls \in Seq(HookCall)
  /\ {followed, last, acked} \subseteq 0 .. Len(feed)
  /\ {minted, requests, crashes, unacked} \subseteq Nat

NoRows == [k \in Entities |-> NoState]
Empty  == [rows |-> NoRows, events |-> {}, derived |-> NoRows, outbox |-> <<>>]

Init ==
  /\ leader = NoRows /\ feed = <<>>
  /\ store = Empty /\ work = NoWork /\ calls = <<>>
  /\ followed = 0 /\ last = 0 /\ acked = 0
  /\ minted = 0 /\ requests = 0 /\ crashes = 0 /\ unacked = 0

-----------------------------------------------------------------------------
(***************************************************************************)
(* An event of an entity in the given state, on either side.               *)
(***************************************************************************)
Current(rows, keys) ==
  IF rows[keys.entity] = NoState THEN EmptyState(keys) ELSE rows[keys.entity]

TransitionOf(state, inner) ==
  TransitionFor[MachineOf[state.keys.entity], state.status, inner.type]

CanRun(state, inner) ==
  /\ TransitionOf(state, inner) # NoTransition
  /\ Mutated(state, TransitionOf(state, inner), 0).status # 0

(* prepareEvent and runMutations: a row for the event table. *)
EventFrom(state, inner, id, cause) ==
  [id |-> id, keys |-> state.keys, seq |-> NextSequence(state), inner |-> inner,
   cause |-> cause, snapshot |-> After(state, TransitionOf(state, inner), id)]

NeedsInitial(state) ==
  state.status = 0 /\ InitialEvent[MachineOf[state.keys.entity]] # NoInner

InitialRow(state, id) ==
  EventFrom(state, InitialEvent[MachineOf[state.keys.entity]], id, CauseOf("init"))

(***************************************************************************)
(* The leader runs an event, after an initial one if the entity is new.    *)
(* Linked and chained events are, for a replica, events like any other.    *)
(***************************************************************************)
Lead ==
  \E input \in LeaderInputs :
    LET before  == Current(leader, input.keys)
        initial == IF NeedsInitial(before)
                   THEN <<InitialRow(before, minted + 1)>> ELSE <<>>
        state   == IF initial = <<>> THEN before ELSE initial[1].snapshot
        id      == minted + 1 + Len(initial)
        event   == EventFrom(state, input.inner, id, CauseOf("external"))
    IN  /\ requests < MaxFeed /\ requests' = requests + 1
        /\ CanRun(state, input.inner)
        /\ leader' = [leader EXCEPT ![input.keys.entity] = event.snapshot]
        /\ feed' = Append(feed \o initial, event)
        /\ minted' = id
        /\ UNCHANGED <<store, work, calls, followed, last, acked, crashes, unacked>>

(***************************************************************************)
(* The transport calls FollowEvents of a machine with the next events of   *)
(* that machine it does not know to be followed; a transaction begins.     *)
(***************************************************************************)
MachineAt(i) == MachineOf[feed[i].keys.entity]

Deliver ==
  /\ work = NoWork
  /\ last' \in acked + 1 .. acked + MaxBatch
  /\ last' <= Len(feed)
  /\ \A i \in acked + 1 .. last' : MachineAt(i) = MachineAt(acked + 1)
  /\ followed' = acked
  /\ work' = store /\ calls' = <<>>
  /\ UNCHANGED <<leader, feed, store, acked, minted, requests, crashes, unacked>>

-----------------------------------------------------------------------------
(* Mutant: the event, not its snapshot, goes into the state row. *)
StoredSwapped(tables, event) ==
  [tables EXCEPT !.rows[event.keys.entity] = event, !.events = @ \cup {event}]

(* storeAfterMutation and store: the state row and the event row. *)
Stored(tables, event) ==
  [tables EXCEPT !.rows[event.keys.entity] = event.snapshot,
                 !.events                  = @ \cup {event}]

(***************************************************************************)
(* The hooks of the transition an event takes from a state, event hooks    *)
(* first.                                                                  *)
(***************************************************************************)
CallsFor(state, event, baton) ==
  LET m      == MachineOf[state.keys.entity]
      events == EventHooksFor[m, state.status, event.inner.type]
      states == GlobalStateHooks[m]
      Call(sends, derives, onFollow) ==
        [sends |-> sends, derives |-> derives, onFollow |-> onFollow,
         event |-> event, baton |-> baton]
  IN  [i \in 1 .. Len(events) |-> Call(events[i].sends, FALSE, events[i].onFollow)]
        \o [i \in 1 .. Len(states) |->
              Call(states[i].sends, states[i].derives, states[i].onFollow)]

(* Mutant: followEvent runs every hook, as runEvent does. *)
RunsEvery(call) == TRUE

(* Mutant: followEvent passes over the hooks with RunOnFollow. *)
RunsOthers(call) == call.baton \/ ~call.onFollow

(***************************************************************************)
(* runHooks runs every hook; runFollowerHooks the ones with RunOnFollow.   *)
(***************************************************************************)
Runs(call) == call.baton \/ call.onFollow

(***************************************************************************)
(* A hook derives its table from the state the event left, and sends.      *)
(***************************************************************************)
AfterHook(tables, call) ==
  [tables EXCEPT
     !.derived[call.event.keys.entity] =
        IF call.derives THEN call.event.snapshot ELSE @,
     !.outbox = @ \o [i \in 1 .. Len(call.sends) |->
                        [msg |-> call.sends[i], cause |-> RefOf(call.event)]]]

(* Mutant: the state does not remember the sequence. *)
NotNumbered(state, event) ==
  [EventFrom(state, event.inner, event.id, event.cause) EXCEPT
     !.snapshot = Mutated(state, TransitionOf(state, event.inner), event.id)]

(* nextStateEvent: the replica numbers and applies the event itself. *)
Renumbered(state, event) == EventFrom(state, event.inner, event.id, event.cause)

(* Mutant: an event is known by what it says. *)
KnownByContent(event) ==
  \E e \in work.events : e.keys = event.keys /\ e.inner = event.inner

(***************************************************************************)
(* followEventDeduplicate finds the event.  Its statement selects one      *)
(* column and scans two, so finding it is an error, never a repeat.        *)
(***************************************************************************)
Known(event) == \E e \in work.events : RefOf(e) = RefOf(event)

(* The event at hand, once the hooks of the one before have run. *)
AtEvent == work # NoWork /\ calls = <<>> /\ followed < last
Event   == feed[followed + 1]
Found   == Current(work.rows, Event.keys)

(***************************************************************************)
(* runInitialEvent: an event of the replica's own, run like any other.     *)
(***************************************************************************)
MakeInitial ==
  LET event == InitialRow(Found, minted + 1)
  IN  /\ AtEvent /\ ~Known(Event) /\ NeedsInitial(Found)
      /\ work' = Stored(work, event)
      /\ calls' = CallsFor(Found, event, TRUE)
      /\ minted' = minted + 1
      /\ UNCHANGED <<leader, feed, store, followed, last, acked, requests,
                     crashes, unacked>>

(* nextStateEvent and followEvent, as far as the row and the event. *)
Follow ==
  LET event == Renumbered(Found, Event)
  IN  /\ AtEvent /\ ~Known(Event) /\ ~NeedsInitial(Found)
      /\ CanRun(Found, Event.inner)
      /\ work' = Stored(work, event)
      /\ calls' = CallsFor(Found, event, FALSE)
      /\ followed' = followed + 1
      /\ UNCHANGED <<leader, feed, store, last, acked, minted, requests,
                     crashes, unacked>>

RunHook ==
  /\ work # NoWork /\ calls # <<>> /\ Runs(calls[1])
  /\ work' = AfterHook(work, calls[1]) /\ calls' = Tail(calls)
  /\ UNCHANGED <<leader, feed, store, followed, last, acked, minted,
                 requests, crashes, unacked>>

SkipHook ==
  /\ work # NoWork /\ calls # <<>> /\ ~Runs(calls[1])
  /\ calls' = Tail(calls)
  /\ UNCHANGED <<leader, feed, store, work, followed, last, acked, minted,
                 requests, crashes, unacked>>

(* The callback's error rolls the transaction back. *)
Reject ==
  /\ AtEvent
  /\ ~Known(Event) => ~NeedsInitial(Found) /\ ~CanRun(Found, Event.inner)
  /\ work' = NoWork
  /\ UNCHANGED <<leader, feed, store, calls, followed, last, acked, minted,
                 requests, crashes, unacked>>

CommitWork ==
  /\ work # NoWork /\ calls = <<>> /\ followed = last
  /\ store' = work /\ work' = NoWork /\ calls' = calls

Acknowledge ==
  /\ CommitWork
  /\ acked' = last
  /\ UNCHANGED <<leader, feed, followed, last, minted, requests, crashes, unacked>>

(* The commit succeeds and the transport does not hear of it. *)
CommitUnacked ==
  /\ CommitWork
  /\ unacked < MaxUnacked /\ unacked' = unacked + 1
  /\ UNCHANGED <<leader, feed, followed, last, acked, minted, requests, crashes>>

(* The replica dies, or a statement or a hook fails. *)
Crash ==
  /\ work # NoWork
  /\ work' = NoWork /\ calls' = <<>>
  /\ crashes < MaxCrashes /\ crashes' = crashes + 1
  /\ UNCHANGED <<leader, feed, store, followed, last, acked, minted, requests, unacked>>

(* Everything published is followed; the leader may have nothing more. *)
Rest == work = NoWork /\ acked = Len(feed) /\ UNCHANGED vars

Replica ==
  \/ Deliver \/ MakeInitial \/ Follow \/ RunHook \/ SkipHook
  \/ Reject \/ Acknowledge
Next    == Lead \/ Replica \/ CommitUnacked \/ Crash \/ Rest
Spec    == Init /\ [][Next]_vars

(* The transport goes on delivering and the replica's goroutine runs. *)
FairSpec == Spec /\ WF_vars(Replica)
-----------------------------------------------------------------------------
(***************************************************************************)
(* Whatever batches the feed comes in, and whatever is lost or delivered   *)
(* again, the replica's tables are the leader's as they were after some    *)
(* prefix of the feed: the same events with the same sequences and         *)
(* snapshots, though followEvents computes both anew, and the row of each  *)
(* entity that of its last event.  This is about the machines without an   *)
(* initial event: of the others the replica makes events of its own.       *)
(***************************************************************************)
Copied(k) == InitialEvent[MachineOf[k]] = NoInner

LastOf(n, k) ==
  LET mine == {i \in 1 .. n : feed[i].keys.entity = k}
  IN  IF mine = {} THEN NoState
      ELSE feed[CHOOSE i \in mine : \A j \in mine : j <= i].snapshot

MirrorsLeader ==
  \E n \in acked .. Len(feed) :
    /\ {e \in store.events : Copied(e.keys.entity)}
         = {feed[i] : i \in {j \in 1 .. n : Copied(feed[j].keys.entity)}}
    /\ \A k \in Entities : Copied(k) => store.rows[k] = LastOf(n, k)

(***************************************************************************)
(* The tables that data hooks derive agree with the replica's rows after   *)
(* every commit, as they do on the leader: what is passed over on follow   *)
(* is none of them (docs/hooks.md: data hooks run on run or follow).       *)
(***************************************************************************)
Deriving(k) ==
  \E i \in DOMAIN GlobalStateHooks[MachineOf[k]] :
    GlobalStateHooks[MachineOf[k]][i].derives

DerivedOnFollow ==
  \A k \in Entities : Deriving(k) => store.derived[k] = store.rows[k]

(***************************************************************************)
(* Following sends nothing (the comment of FollowEvent), but for one case: *)
(* every message in the replica's outbox is from the hooks of an initial   *)
(* event the replica made itself, an event that is nowhere in the feed.    *)
(***************************************************************************)
Own(e) == e.cause.type = "init" /\ \A i \in 1 .. Len(feed) : feed[i].id # e.id

SendsOnlyForInitial ==
  \A i \in 1 .. Len(store.outbox) :
    \E e \in store.events : Own(e) /\ RefOf(e) = store.outbox[i].cause

(***************************************************************************)
(* A replica whose commits the transport hears of catches up with          *)
(* everything the leader publishes, through crashes: no batch is refused   *)
(* for ever (FollowEvents returns nil in the end).                         *)
(***************************************************************************)
CatchesUp ==
  \A n \in 1 .. 2 * MaxFeed : Len(feed) >= n ~> acked >= n \/ unacked > 0

(***************************************************************************)
(* What the comment of followEventDeduplicate implies and the code does    *)
(* not do: events that come again are passed over.                         *)
(***************************************************************************)
RedeliveryPasses == \A n \in 1 .. MaxFeed : Len(feed) >= n ~> acked >= n
=============================================================================
