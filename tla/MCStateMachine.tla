--------------------------- MODULE MCStateMachine ---------------------------
(***************************************************************************)
(* Calls to the machines of FooBar.                                        *)
(***************************************************************************)
EXTENDS StateMachineLog, FooBar

CONSTANTS c1, c2, t2, i1, i2

NoInitial   == [m \in MCMachines |-> NoInner]
FooInitial  == [NoInitial EXCEPT !["foo"] = Inner("create")]

(* Updating a foo reaches the bar, pinging the bar the foo, and no further. *)
FooBarReached ==
  [at \in {a, b} \X MCEventTypes |->
     IF at = <<a, "update">> THEN {b} ELSE IF at = <<b, "ping">> THEN {a} ELSE {}]

ASSUME LinksAssumption == LinksGoForward(FooBarReached)

-----------------------------------------------------------------------------
(* Calls.  Req has an explicit Cause; Cmd has an authenticated Action. *)
Req(id, k, t, type, body) ==
  [keys |-> Key(k, t), id |-> id, inner |-> [type |-> type, body |-> body],
   cause |-> CauseOf("external"), action |-> FALSE, message |-> FALSE]
Cmd(id, k, t, type) ==
  [Req(id, k, t, type, "x") EXCEPT !.cause = NoCause, !.action = TRUE]

(* Links in opposite directions, a caller's ID, a generated ID. *)
CrossJobs ==
  { <<Req(i1, a, t1, "update", "x")>>, <<Req(NoId, b, t1, "ping", "x")>> }

(* One entity, chains, two specs in one transaction. *)
ChainJobs ==
  { <<Req(i1, a, t1, "split", "x")>>,
    <<Req(NoId, a, NoTenant, "echo", "x"), Cmd(i2, a, t1, "close")>> }

(* One entity, one event, no ID. *)
MarkJobs == { <<Req(NoId, a, t1, "mark", "x")>> }

(* A command the caller may send again. *)
CommandJobs == { <<Cmd(i1, a, t1, "mark")>> }

(* Everything that can be refused. *)
ErrorJobs ==
  { <<Req(i1, a, t1, "create", "x")>>, <<Req(i1, a, t1, "create", "y")>>,
    <<Req(NoId, a, t2, "mark", "x")>>, <<Req(NoId, a, NoTenant, "mark", "x")>>,
    <<Req(NoId, a, t1, "echo", "x")>>, <<Req(NoId, a, t1, "void", "x")>>,
    <<Req(i2, a, t1, "close", "x"), Req(i2, a, t1, "close", "x")>>,
    <<Req(NoId, a, t1, "clash", "x")>>,
    <<[Cmd(NoId, a, t1, "mark") EXCEPT !.message = TRUE]>>,
    <<[Cmd(i1, a, t1, "mark") EXCEPT !.action = FALSE, !.message = TRUE]>> }

(* Callers in each other's way, and refusals. *)
AnyJobs == CrossJobs \cup ErrorJobs

ASSUME CallersAssumption == CallersOutside /\ OwnIds

Symmetry == Permutations(Clients)
=============================================================================
