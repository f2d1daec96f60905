------------------------ MODULE TransitionSetProofs ------------------------
(***************************************************************************)
(* What the operators of PSMTypes and TransitionSet return, for the proofs *)
(* about the components that run transitions.                              *)
(***************************************************************************)
EXTENDS TransitionSet, SequenceTheorems, WellFoundedInduction, TLAPS

LEMMA EmptyStateType ==
  ASSUME NEW keys \in Keys
  PROVE  EmptyState(keys) \in State
BY ValuesAssumption DEF EmptyState, State

LEMMA CauseTypes ==
  /\ \A t \in {"command", "message", "external", "init", "psm"} : CauseOf(t) \in Cause
  /\ \A ref \in EventRef : PSMCause(ref) \in Cause
BY DEF CauseOf, PSMCause, Cause

LEMMA RefType ==
  ASSUME NEW row \in EventRow
  PROVE  RefOf(row) \in EventRef
BY ValuesAssumption DEF RefOf, EventRow, EventRef, Keys

LEMMA SequencedType ==
  ASSUME NEW s \in State
  PROVE  NextSequence(s) \in Nat /\ Sequenced(s) \in State
BY DEF NextSequence, Sequenced, State

LEMMA MutatedType ==
  ASSUME NEW s \in State, NEW tr \in Transition, NEW id \in EventIds
  PROVE  Mutated(s, tr, id) \in State
<1> DEFINE muts == [i \in 1 .. Len(tr.mutations) |-> <<tr.mutations[i], id>>]
           data == s.data \o muts
<1>1. tr.mutations \in Seq(Mutations)
  BY DEF Transition
<1>2. muts \in Seq(Mutations \X EventIds)
  <2>1. Len(tr.mutations) \in Nat
    BY <1>1
  <2>2. \A i \in 1 .. Len(tr.mutations) : <<tr.mutations[i], id>> \in Mutations \X EventIds
    BY <1>1
  <2> QED BY <2>1, <2>2
<1>3. data \in Seq(Mutations \X EventIds)
  <2>1. s.data \in Seq(Mutations \X EventIds)
    BY DEF State
  <2> QED BY <1>2, <2>1, ConcatProperties
<1>4. tr.to \in Statuses
  BY DEF Transition
<1> HIDE DEF data
<1>5. [s EXCEPT !.status = IF tr.to = 0 THEN @ ELSE tr.to, !.data = data] \in State
  BY <1>3, <1>4 DEF State
<1> QED BY <1>5 DEF Mutated, data

LEMMA AfterType ==
  ASSUME NEW s \in State, NEW tr \in Transition, NEW id \in EventIds
  PROVE  After(s, tr, id) \in State
BY SequencedType, MutatedType DEF After

LEMMA AfterKeys ==
  ASSUME NEW s \in State, NEW tr \in Transition, NEW id \in EventIds
  PROVE  After(s, tr, id).keys = s.keys
<1>1. Sequenced(s) \in State /\ Sequenced(s).keys = s.keys
  BY SequencedType DEF Sequenced, State
<1>2. \A r \in State : Mutated(r, tr, id).keys = r.keys
  BY DEF Mutated, State
<1> QED BY <1>1, <1>2 DEF After

(***************************************************************************)
(* The keys of a state name an entity, and what After needs of a state.    *)
(***************************************************************************)
LEMMA StateParts ==
  ASSUME NEW s \in State
  PROVE  /\ s.keys \in Keys /\ s.keys.entity \in Entities
         /\ s.status \in Statuses /\ s.lastSeq \in Nat
         /\ MachineOf[s.keys.entity] \in Machines
BY ValuesAssumption DEF State, Keys

LEMMA TransitionType ==
  ASSUME NEW m \in Machines, NEW s \in Statuses, NEW t \in EventTypes
  PROVE  TransitionFor[m, s, t] \in Transition \cup {NoTransition}
BY TransitionsAssumption

(***************************************************************************)
(* The state after an event has the sequence the event got, once it has a  *)
(* status; a status stays set.                                             *)
(***************************************************************************)
LEMMA AfterSequence ==
  ASSUME NEW s \in State, NEW tr \in Transition, NEW id \in EventIds
  PROVE  /\ s.status # 0 => After(s, tr, id).status # 0
         /\ s.status # 0 => After(s, tr, id).lastSeq = s.lastSeq + 1
                            /\ NextSequence(s) = s.lastSeq + 1
         /\ s.status = 0 => After(s, tr, id).lastSeq = s.lastSeq
                            /\ NextSequence(s) = 0
<1>1. Sequenced(s) \in State
  BY SequencedType
<1>2. \A r \in State : /\ Mutated(r, tr, id).lastSeq = r.lastSeq
                       /\ r.status # 0 => Mutated(r, tr, id).status # 0
  BY DEF Mutated, State
<1>3. Sequenced(s).status = s.status
      /\ Sequenced(s).lastSeq = IF s.status = 0 THEN s.lastSeq ELSE s.lastSeq + 1
  BY DEF Sequenced, NextSequence, State
<1> QED BY <1>1, <1>2, <1>3 DEF After, NextSequence

(***************************************************************************)
(* Global state hooks run with every transition of their machine.          *)
(***************************************************************************)
LEMMA TransitionDerives ==
  ASSUME NEW m \in Machines, NEW s \in Statuses, NEW t \in EventTypes,
         TransitionFor[m, s, t] # NoTransition
  PROVE  TransitionFor[m, s, t].derives
           <=> \E i \in DOMAIN GlobalStateHooks[m] : GlobalStateHooks[m][i].derives
<1>1. TransitionFor[m, s, t] = BuildTransition(m, s, t)
  BY DEF TransitionFor
<1>2. BuildTransition(m, s, t) # NoTransition =>
        BuildTransition(m, s, t).derives =
          \E i \in DOMAIN GlobalStateHooks[m] : GlobalStateHooks[m][i].derives
  BY DEF BuildTransition, AllOf
<1> QED BY <1>1, <1>2

(***************************************************************************)
(* A set of numbers has a smallest element, and one with a bound has a     *)
(* largest.                                                                *)
(***************************************************************************)
LEMMA SmallestOf ==
  ASSUME NEW S \in SUBSET Nat, S # {}
  PROVE  \E i \in S : \A j \in S : i <= j
<1> DEFINE less == {ss \in Nat \X Nat : ss[1] < ss[2]}
<1>1. IsWellFoundedOn(less, Nat)
  <2>1. OpToRel(<, Nat) = less
    BY DEF OpToRel
  <2> QED BY <2>1, NatLessThanWellFounded
<1>2. PICK i \in S : \A j \in S : ~(<<j, i>> \in less)
  <2> HIDE DEF less
  <2> QED BY <1>1, WFMin
<1>3. \A j \in S : ~(j < i)
  BY <1>2
<1> QED BY <1>3

LEMMA LargestOf ==
  ASSUME NEW n \in Nat, NEW S \in SUBSET (0 .. n), S # {}
  PROVE  \E i \in S : \A j \in S : j <= i
<1> DEFINE T == {m \in 0 .. n : n - m \in S}
<1>1. T \in SUBSET Nat /\ T # {}
  <2>1. PICK i \in S : TRUE
    OBVIOUS
  <2>2. n - i \in T /\ \A m \in T : m \in Nat
    BY <2>1
  <2> HIDE DEF T
  <2> QED BY <2>2
<1>2. PICK t \in T : \A u \in T : t <= u
  <2> HIDE DEF T
  <2> QED BY <1>1, SmallestOf
<1>3. \A j \in S : n - j \in T /\ t <= n - j
  BY <1>2
<1>4. n - t \in S /\ \A j \in S : j <= n - t
  BY <1>3
<1> QED BY <1>4
=============================================================================
