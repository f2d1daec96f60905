----------------------------- MODULE MCFollower -----------------------------
(***************************************************************************)
(* A replica of the machines of FooBar.                                    *)
(***************************************************************************)
EXTENDS Follower, FooBar

Input(k, type) == [keys |-> Key(k, t1), inner |-> Inner(type)]

(* A new foo may be marked or created, and closed then; a bar pinged. *)
FeedInputs ==
  {Input(a, type) : type \in {"create", "mark", "close"}} \cup {Input(b, "ping")}

(* A new bar is touched first; a new foo has no initial event. *)
BarInitial ==
  [m \in MCMachines |-> IF m = "bar" THEN Inner("touch") ELSE NoInner]

(* Hooks that follow is to pass over, and one that it is to run. *)
UpsertAndDerive == [m \in MCMachines |-> <<UpsertHook, DeriveHook>>]
=============================================================================
