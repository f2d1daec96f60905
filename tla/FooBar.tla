------------------------------- MODULE FooBar -------------------------------
(***************************************************************************)
(* Two linked state machines, in the manner of the Foo and Bar machines of *)
(* the integration tests: foo entity a, bar entity b.                      *)
(***************************************************************************)
EXTENDS TransitionSet

CONSTANTS a, b, t1

MCMachines  == {"foo", "bar"}
MCMachineOf == [k \in {a, b} |-> IF k = a THEN "foo" ELSE "bar"]

Inner(type) == [type |-> type, body |-> "x"]
Key(k, t)   == [entity |-> k, tenant |-> t]

NoHook      == [links |-> <<>>, sends |-> <<>>, chain |-> <<>>, onFollow |-> FALSE]
Publish     == [NoHook EXCEPT !.sends = <<"published">>]
LinkTo(k, type) ==
  [NoHook EXCEPT !.links = <<[keys |-> Key(k, t1), inner |-> Inner(type)]>>]
Chains(types) ==
  [NoHook EXCEPT !.chain = [i \in DOMAIN types |-> Inner(types[i])]]
DeriveHook  == [sends |-> <<>>, derives |-> TRUE, onFollow |-> TRUE]
UpsertHook  == [sends |-> <<"published">>, derives |-> FALSE, onFollow |-> FALSE]

On(from, type, to, muts, hooks) ==
  [from |-> from, to |-> to, noop |-> FALSE, type |-> type,
   mutations |-> muts, hooks |-> hooks]

(* From(0) create, From(1) split, note, close; update and mark From(). *)
FooTransitions ==
  << On({0}, "create", 1, <<"set">>, <<>>),
     On({}, "update", 1, <<"set">>, <<LinkTo(b, "touch")>>),
     On({}, "update", 0, <<"log">>, <<>>),
     On({}, "mark", 1, <<"set">>, <<>>),
     On({1}, "split", 0, <<>>, <<Chains(<<"note", "close">>)>>),
     On({1}, "note", 0, <<"log">>, <<Chains(<<"mark">>)>>),
     On({1}, "close", 2, <<>>, <<>>),
     On({1}, "echo", 0, <<"log">>, <<>>),
     On({1, 2}, "clash", 1, <<>>, <<>>),
     On({2}, "clash", 2, <<>>, <<>>) >>

BarTransitions ==
  << On({}, "touch", 1, <<"set">>, <<Publish>>),
     On({}, "ping", 1, <<"set">>, <<LinkTo(a, "mark")>>) >>

MCTransitions ==
  [m \in MCMachines |-> IF m = "foo" THEN FooTransitions ELSE BarTransitions]
MCGlobalEventHooks == [m \in MCMachines |-> <<Publish>>]
MCGlobalStateHooks ==
  [m \in MCMachines |-> IF m = "foo" THEN <<DeriveHook>> ELSE <<>>]

MCEventTypes ==
  {"create", "update", "mark", "split", "note", "close", "echo", "clash",
   "touch", "ping", "void"}
=============================================================================
