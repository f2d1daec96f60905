---------------------------- MODULE TransitionSet ----------------------------
(***************************************************************************)
(* The configuration of a state machine and how it selects what to run     *)
(* for an event: psm/transition_builder.go and psm/transition.go.          *)
(*                                                                         *)
(* A hook is its effect: the links it makes, the messages it puts on the   *)
(* baton, the events it chains, whether it derives a table; and whether it *)
(* runs on follow.  The code runs hooks as opaque callbacks; their order,  *)
(* who runs them and what is done with the baton are the library's.        *)
(***************************************************************************)
EXTENDS PSMTypes, SequencesExt

CONSTANTS
  Transitions,       \* [Machines -> Seq(TransitionSpec)], by registration
  GlobalEventHooks,  \* [Machines -> Seq(EventHook)]
  GlobalStateHooks,  \* [Machines -> Seq(StateHook)]
  NoTransition       \* the error of buildTransition

Link == [keys : Keys, inner : InnerEvent]

(***************************************************************************)
(* Hooks as the generated constructors make them: the ones that link or    *)
(* are handed a baton have RunOnFollow false, the state data hooks true.   *)
(***************************************************************************)
EventHook ==
  {h \in [links : Seq(Link), sends : Seq(Messages), chain : Seq(InnerEvent),
          onFollow : BOOLEAN] :
     h.onFollow => h.links = <<>> /\ h.sends = <<>> /\ h.chain = <<>>}

StateHook ==
  {h \in [sends : Seq(Messages), derives : BOOLEAN, onFollow : BOOLEAN] :
     /\ h.onFollow => h.sends = <<>>
     /\ h.derives => h.onFollow}

(***************************************************************************)
(* From(from...).OnEvent(type).SetStatus(to).Mutate(..).Hook(..).Noop()    *)
(***************************************************************************)
TransitionSpec ==
  [from : SUBSET Statuses, to : Statuses, noop : BOOLEAN, type : EventTypes,
   mutations : Seq(Mutations), hooks : Seq(EventHook)]

(***************************************************************************)
(* A merged transition with the effects of its hooks in the order they     *)
(* run: event hooks, then state hooks.                                     *)
(***************************************************************************)
Transition ==
  [to : Statuses, noop : BOOLEAN, mutations : Seq(Mutations),
   links : Seq(Link), sends : Seq(Messages), chain : Seq(InnerEvent),
   derives : BOOLEAN]

FoundSpecs(m, status, type) ==
  SelectSeq(Transitions[m],
            LAMBDA s : s.type = type /\ (s.from = {} \/ status \in s.from))

(***************************************************************************)
(* The one target status, or 0 when no spec sets any.                      *)
(***************************************************************************)
TargetStatuses(specs) == {specs[i].to : i \in DOMAIN specs} \ {0}

AllOf(records, Field(_)) ==
  FlattenSeq([i \in DOMAIN records |-> Field(records[i])])

(* The event hooks of the merged transition, in the order they run. *)
EventHooksOf(m, status, type) ==
  AllOf(FoundSpecs(m, status, type), LAMBDA s : s.hooks) \o GlobalEventHooks[m]

BuildTransition(m, status, type) ==
  LET specs   == FoundSpecs(m, status, type)
      targets == TargetStatuses(specs)
      hooks   == EventHooksOf(m, status, type)
  IN  IF specs = <<>> \/ Cardinality(targets) > 1
      THEN NoTransition
      ELSE [to        |-> IF targets = {} THEN 0 ELSE CHOOSE s \in targets : TRUE,
            noop      |-> FALSE,  \* the merge never reads a spec's noop flag
            mutations |-> AllOf(specs, LAMBDA s : s.mutations),
            links     |-> AllOf(hooks, LAMBDA h : h.links),
            sends     |-> AllOf(hooks, LAMBDA h : h.sends)
                            \o AllOf(GlobalStateHooks[m], LAMBDA h : h.sends),
            chain     |-> AllOf(hooks, LAMBDA h : h.chain),
            derives   |-> \E i \in DOMAIN GlobalStateHooks[m] :
                            GlobalStateHooks[m][i].derives]

(* The same as a function: registration is over before any event runs. *)
TransitionFor ==
  [at \in Machines \X Statuses \X EventTypes |-> BuildTransition(at[1], at[2], at[3])]

(***************************************************************************)
(* What every registration through the builder gives: each lookup is an    *)
(* error or a well-typed transition.                                       *)
(***************************************************************************)
ASSUME TransitionsAssumption ==
  /\ TransitionFor \in
       [Machines \X Statuses \X EventTypes -> Transition \cup {NoTransition}]
  /\ NoTransition \notin Transition

(***************************************************************************)
(* nextStateEvent: the sequence an event gets, and the state's metadata.   *)
(***************************************************************************)
(* Mutant: the last sequence is given out again. *)
SameSequence(state) == IF state.status = 0 THEN 0 ELSE state.lastSeq

NextSequence(state) == IF state.status = 0 THEN 0 ELSE state.lastSeq + 1

(* Mutant: the state does not remember the sequence it gave out. *)
NotSequenced(state) == state

Sequenced(state) ==
  IF state.status = 0 THEN state
  ELSE [state EXCEPT !.lastSeq = NextSequence(state)]

(***************************************************************************)
(* runMutations, on a state nextStateEvent has already numbered.           *)
(***************************************************************************)
Mutated(state, tr, id) ==
  IF tr.noop THEN state
  ELSE [state EXCEPT
          !.status = IF tr.to = 0 THEN @ ELSE tr.to,
          !.data   = @ \o [i \in 1 .. Len(tr.mutations) |-> <<tr.mutations[i], id>>]]

After(state, tr, id) == Mutated(Sequenced(state), tr, id)
=============================================================================
