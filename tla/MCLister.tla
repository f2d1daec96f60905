------------------------------ MODULE MCLister ------------------------------
(***************************************************************************)
(* Listings of foos by weight, as requested, or by the timestamp at, the   *)
(* default.                                                                *)
(***************************************************************************)
EXTENDS Lister

MCFields == {"weight", "at"}
MCKind   == [f \in MCFields |-> IF f = "weight" THEN "number" ELSE "timestamp"]

(* Texts of one length are in the order of their values. *)
TextByValue == [v \in Values |-> Cardinality({w \in Values : w <= v})]

ById == <<"id">>
ByAt == <<"at">>

Foo(k, w, t) == [id |-> k, data |-> [f \in MCFields |-> IF f = "weight" THEN w ELSE t]]

(* Rows of different ids never have the same weight, but often one time. *)
Distinct ==
  {row \in {Foo(k, w, t) : k \in Ids, w \in Values, t \in {0, 1}} :
     row.data["weight"] % 3 = row.id % 3}

By(desc)  == <<[field |-> "weight", desc |-> desc]>>
BothWays  == By(FALSE) \o By(TRUE)
Sizes(sorts, sizes) == {[sorts |-> sorts, size |-> n] : n \in sizes}

AscRequests  == Sizes(By(FALSE), 1 .. 2)
DescRequests == Sizes(By(TRUE), 1 .. 2)
AllRequests  == Sizes(<<>>, 1 .. 3) \cup AscRequests \cup DescRequests
                  \cup Sizes(BothWays, {1}) \cup Sizes(By(TRUE), {4})

ASSUME ConfigurationOrders == TextsInOrder /\ OrderDecides
=============================================================================
