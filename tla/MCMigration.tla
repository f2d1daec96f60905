----------------------------- MODULE MCMigration -----------------------------
(***************************************************************************)
(* A key message with primary, optional and required keys; no search       *)
(* fields, one on each table, and two that share a column, alone and with  *)
(* a third.                                                                *)
(***************************************************************************)
EXTENDS Migration

Key(name, primary, required) ==
  [name |-> name, column |-> name, primary |-> primary, required |-> required]

MCPropertyLists ==
  {<<Key("foo_id", TRUE, FALSE), Key("part_1", TRUE, FALSE), Key("tenant_id", FALSE, FALSE), Key("meta_id", FALSE, TRUE)>>}

On(table, column) == [table |-> table, column |-> column]

MCIndexLists ==
  {<<>>, <<On("state", "tsv_name"), On("event", "tsv_note")>>,
   <<On("state", "tsv_name"), On("state", "tsv_name")>>,
   <<On("state", "tsv_name"), On("state", "tsv_name"), On("state", "tsv_field")>>}
=============================================================================
