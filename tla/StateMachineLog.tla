-------------------------- MODULE StateMachineLog --------------------------
(***************************************************************************)
(* The state machine implements the event log: an entity's history is its  *)
(* events by sequence, and a transition decides what may follow it.        *)
(***************************************************************************)
EXTENDS StateMachine

Entry(id, inner, state) == [id |-> id, inner |-> inner, state |-> state]

InOrder(evs) ==
  LET seqs    == {e.seq : e \in evs}
      Rank(n) == Cardinality({m \in seqs : m <= n})
  IN  [i \in 1 .. Cardinality(seqs) |->
         LET e == CHOOSE e \in evs : Rank(e.seq) = i
         IN  Entry(e.id, e.inner, e.snapshot)]

History(k) == InOrder(EventsOf(k))

(***************************************************************************)
(* An entry is new to the history and is what its transition makes of the  *)
(* last state in it.                                                       *)
(***************************************************************************)
FollowsHistory(k, history, entry) ==
  LET before == IF history = <<>> THEN EmptyState(entry.state.keys)
                ELSE Last(history).state
      tr     == TransitionFor[MachineOf[k], before.status, entry.inner.type]
  IN  /\ \A i \in DOMAIN history : history[i].id # entry.id
      /\ tr # NoTransition /\ entry.state = After(before, tr, entry.id)

Log == INSTANCE EventLog WITH
  Follows <- FollowsHistory,
  log     <- [k \in Entities |-> History(k)],
  answers <- {Entry(r.id, r.inner, r.state) : r \in replies}

(***************************************************************************)
(* Every behaviour is one of the event log: commits append to histories,   *)
(* never rewrite them, and callers are answered from them.                 *)
(***************************************************************************)
ImplementsLog == Log!Spec
=============================================================================
