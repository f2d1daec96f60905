------------------------------ MODULE EventLog ------------------------------
(***************************************************************************)
(* What the state machine promises its callers: each entity has a history  *)
(* to which transactions append, several entries of several entities at a  *)
(* time; an entry follows from the history before it; nothing written is   *)
(* ever changed; an answer is an entry of the history, now and for good.   *)
(***************************************************************************)
EXTENDS Sequences, SequencesExt

CONSTANTS
  Entities,
  Follows(_, _, _)   \* Follows(k, history, entry)

VARIABLES
  log,       \* [Entities -> the sequence of entries]
  answers    \* the entries given to callers

Init == log = [k \in Entities |-> <<>>] /\ answers = {}

Extends(k) ==
  /\ IsPrefix(log[k], log'[k])
  /\ \A i \in Len(log[k]) + 1 .. Len(log'[k]) :
       Follows(k, SubSeq(log'[k], 1, i - 1), log'[k][i])

Entries == UNION {ToSet(log[k]) : k \in Entities}

Answering ==
  /\ answers \subseteq answers'
  /\ answers' \subseteq Entries'

Next == (\A k \in Entities : Extends(k)) /\ Answering

Spec == Init /\ [][Next]_<<log, answers>>
=============================================================================
