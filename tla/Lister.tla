------------------------------- MODULE Lister -------------------------------
(***************************************************************************)
(* A client lists a table page by page (pquery.Lister.List) while other    *)
(* transactions insert and update rows.  Every page is a request of its    *)
(* own, and sees the table as it is when its query runs; the only thing    *)
(* that goes from one page to the next is the token.                       *)
(***************************************************************************)
EXTENDS Listing

CONSTANTS
  Requests,    \* what the client may ask for: sorts and page size
  Writes,      \* the rows other transactions write
  MaxWrites,   \* bound: writes while the client lists
  MaxFaults    \* bound: attempts of the query that fail and are retried

ASSUME ListerAssumption ==
  /\ Requests \subseteq [sorts : Seq(SortSpec), size : Nat]
  /\ Writes \subseteq Row /\ Absent \notin Row /\ NoToken \notin Row
  /\ MaxWrites \in Nat /\ MaxFaults \in Nat

VARIABLES
  table,     \* [Ids -> Row \cup {Absent}]
  pc,        \* where the client is
  request,   \* the request it repeats with each token
  token,     \* the token it has
  jsonRows,  \* the rows List has scanned for this page
  listed,    \* the rows of the pages so far
  touched,   \* the rows written since the listing began
  writes, faults

vars == <<table, pc, request, token, jsonRows, listed, touched, writes, faults>>

(***************************************************************************)
(* Every variable keeps to its type.                                       *)
(***************************************************************************)
ListerTypeOK ==
  /\ table \in [Ids -> Row \cup {Absent}]
  /\ pc \in {"idle", "ask", "reply", "done", "refused"}
  /\ request \in Requests
  /\ token \in Row \cup {NoToken}
  /\ jsonRows \in Seq(Row) /\ listed \in Seq(Row)
  /\ touched \subseteq Ids
  /\ writes \in Nat /\ faults \in Nat

Init ==
  /\ table = [k \in Ids |-> Absent]
  /\ pc = "idle" /\ request \in Requests /\ token = NoToken
  /\ jsonRows = <<>> /\ listed = <<>> /\ touched = {}
  /\ writes = 0 /\ faults = 0

StoredRows == {table[k] : k \in Ids} \ {Absent}

Found == Results(StoredRows, SortFields(request.sorts), token, request.size)

-----------------------------------------------------------------------------
(***************************************************************************)
(* Another transaction commits a row.  State and event rows are upserted   *)
(* and inserted, never deleted.  Before the listing writes are free.       *)
(***************************************************************************)
Write ==
  \E row \in Writes :
    /\ table[row.id] # row
    /\ table' = [table EXCEPT ![row.id] = row]
    /\ IF pc = "idle" THEN UNCHANGED <<touched, writes>>
       ELSE /\ writes < MaxWrites /\ writes' = writes + 1
            /\ touched' = touched \cup {row.id}
    /\ UNCHANGED <<pc, request, token, jsonRows, listed, faults>>

(***************************************************************************)
(* The first request: getPageSize and validateQueryRequest.                *)
(***************************************************************************)
ValidRequest(req) == req.size <= MaxPageSize /\ ValidSorts(req.sorts)

Begin ==
  /\ pc = "idle"
  /\ pc' = IF ValidRequest(request) THEN "ask" ELSE "refused"
  /\ UNCHANGED <<table, request, token, jsonRows, listed, touched, writes, faults>>

Query ==
  /\ pc = "ask"
  /\ \E result \in Found : jsonRows' = jsonRows \o result
  /\ pc' = "reply"
  /\ UNCHANGED <<table, request, token, listed, touched, writes, faults>>

(***************************************************************************)
(* The attempt fails while its rows are scanned; the wrapper retries it.   *)
(***************************************************************************)
QueryFails ==
  /\ pc = "ask" /\ faults < MaxFaults
  /\ faults' = faults + 1
  /\ \E result \in Found :
       \E n \in 0 .. Len(result) : jsonRows' = jsonRows \o SubSeq(result, 1, n)
  /\ UNCHANGED <<table, pc, request, token, listed, touched, writes>>

(* Mutant: an empty page repeats the token it was asked with. *)
RepeatToken(rows, size) ==
  IF rows = <<>> THEN token
  ELSE IF Len(rows) <= size THEN NoToken ELSE rows[size + 1]

(* Mutant: the token is that row without its data. *)
KeyToken(rows, size) ==
  IF Len(rows) <= size THEN NoToken ELSE [id |-> rows[size + 1].id]

(* The token is the first row that did not fit. *)
NextToken(rows, size) == IF Len(rows) <= size THEN NoToken ELSE rows[size + 1]

Page(rows, size) == SubSeq(rows, 1, IF Len(rows) <= size THEN Len(rows) ELSE size)

Reply ==
  /\ pc = "reply"
  /\ listed' = listed \o Page(jsonRows, request.size)
  /\ token' = NextToken(jsonRows, request.size)
  /\ pc' = IF token' = NoToken THEN "done" ELSE "ask"
  /\ jsonRows' = <<>>
  /\ UNCHANGED <<table, request, touched, writes, faults>>

Done == pc \in {"done", "refused"} /\ UNCHANGED vars

Reader == Begin \/ Query \/ QueryFails \/ Reply
Next   == Write \/ Reader \/ Done
Spec   == Init /\ [][Next]_vars

(* The client asks for every page, and a query that may run runs. *)
FairSpec == Spec /\ WF_vars(Begin) /\ WF_vars(Query) /\ WF_vars(Reply)
-----------------------------------------------------------------------------
(* The rows no one has written since the listing began. *)
Settled == {r \in StoredRows : r.id \notin touched}

Listings(r) == {i \in DOMAIN listed : listed[i] = r}

(***************************************************************************)
(* Whatever is written meanwhile to other rows, a row nobody writes is     *)
(* listed at most once, and it has been listed when the last page comes    *)
(* without a token.  A retried attempt is excepted: List keeps the rows of *)
(* the attempt before it.                                                  *)
(***************************************************************************)
Unretried == faults = 0

SettledListedOnce ==
  Unretried => \A r \in Settled :
    /\ Cardinality(Listings(r)) <= 1
    /\ pc = "done" => Listings(r) # {}

(***************************************************************************)
(* Across all pages, the rows come in the order of the values of the first *)
(* sort field.                                                             *)
(***************************************************************************)
ListedByValue ==
  LET first == SortFields(request.sorts)[1]
      Value(i) == FieldOf(first.field, listed[i])
  IN  Unretried => \A i, j \in DOMAIN listed :
        {listed[i], listed[j]} \subseteq Settled /\ i < j =>
          IF first.desc THEN Value(i) >= Value(j) ELSE Value(i) <= Value(j)

(***************************************************************************)
(* What the two properties take from the configuration: texts in the order *)
(* of the values, sort fields that are set in every row, and no two rows   *)
(* of different ids in the same place of the order.                        *)
(***************************************************************************)
TextsInOrder == \A v, w \in Values : v < w <=> TextOf[v] < TextOf[w]

SortsDecide(fields) ==
  /\ \A i \in DOMAIN fields, r \in Writes : FieldOf(fields[i].field, r) # Unset
  /\ \A r, s \in Writes : r.id # s.id => Before(fields, r, s) \/ Before(fields, s, r)

OrderDecides ==
  \A req \in Requests : ValidRequest(req) => SortsDecide(SortFields(req.sorts))

(***************************************************************************)
(* The pages come to an end.                                               *)
(***************************************************************************)
ListingEnds == pc = "ask" ~> pc = "done"
=============================================================================
