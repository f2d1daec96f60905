---------------------------- MODULE ListerProofs ----------------------------
(***************************************************************************)
(* Proofs about listing page by page: a row that nobody writes meanwhile   *)
(* is listed once, and in the order of the first sort field, whatever is   *)
(* written to the other rows.                                              *)
(*                                                                         *)
(* The token stands between the rows listed and those to come: a settled   *)
(* row is listed when it comes before the token's row, and only then.      *)
(***************************************************************************)
EXTENDS Lister, FiniteSetTheorems, TLAPS

SortedBy == SortFields(request.sorts)

TableInv ==
  /\ \A k \in Ids : table[k] # Absent => table[k] \in Writes /\ table[k].id = k
  /\ IsFiniteSet(StoredRows)

ReaderInv ==
  /\ jsonRows \in Seq(Writes) /\ listed \in Seq(Writes) /\ token \in Writes \cup {NoToken}
  /\ pc \in {"ask", "reply", "done"} => ValidRequest(request)
  /\ pc \in {"idle", "refused"} => token = NoToken /\ listed = <<>>
  /\ pc = "idle" => jsonRows = <<>> /\ touched = {}

ListedRows == {listed[i] : i \in DOMAIN listed}

Starts(r) == token # NoToken => ~Before(SortedBy, r, token)

ListedInv ==
  /\ pc \in {"ask", "reply"} => \A r \in Settled : r \in ListedRows <=> ~Starts(r)
  /\ pc = "done" => Settled \subseteq ListedRows
  /\ \A i, j \in DOMAIN listed :
       i < j /\ {listed[i], listed[j]} \subseteq Settled => Before(SortedBy, listed[i], listed[j])

PageInv ==
  LET n == Len(jsonRows)
      page == {jsonRows[i] : i \in 1 .. n}
  IN  /\ n <= request.size + 1
      /\ \A i, j \in 1 .. n : i < j => Before(SortedBy, jsonRows[i], jsonRows[j])
      /\ \A r \in page : Starts(r)
      /\ \A r \in page : r.id \notin touched => r \in StoredRows
      /\ \A r \in Settled : Starts(r) =>
           r \in page \/ (n = request.size + 1 /\ Before(SortedBy, jsonRows[n], r))

UnretriedInv ==
  Unretried =>
    /\ ListedInv
    /\ pc = "ask" => jsonRows = <<>>
    /\ pc = "reply" => PageInv

-----------------------------------------------------------------------------
(***************************************************************************)
(* The order of the rows, and the condition that begins a page.            *)
(***************************************************************************)

(* What the code makes sure of, and what the hypotheses add. *)
Usable(fields) ==
  /\ fields \in Seq(SortSpec) /\ fields # <<>>
  /\ \A i \in DOMAIN fields : fields[i].field = "id" => ~fields[i].desc
  /\ SortsDecide(fields)

LEMMA SortedSpecs ==
  ASSUME NEW fields \in Seq(Fields \cup {"id"}), NEW desc \in BOOLEAN
  PROVE  /\ Sorted(fields, desc) \in Seq(SortSpec)
         /\ Len(Sorted(fields, desc)) = Len(fields)
         /\ \A i \in 1 .. Len(fields) :
              Sorted(fields, desc)[i].field = fields[i] /\ Sorted(fields, desc)[i].desc = desc
<1> DEFINE n == Len(fields)
           spec(i) == [field |-> fields[i], desc |-> desc]
<1>1. n \in Nat /\ DOMAIN fields = 1 .. n /\ \A i \in 1 .. n : fields[i] \in Fields \cup {"id"}
  OBVIOUS
<1>2. Sorted(fields, desc) = [i \in 1 .. n |-> spec(i)]
  BY <1>1 DEF Sorted
<1>3. \A i \in 1 .. n : spec(i) \in SortSpec /\ spec(i).field = fields[i] /\ spec(i).desc = desc
  BY <1>1 DEF SortSpec
<1> HIDE DEF n, spec
<1> QED BY <1>1, <1>2, <1>3

LEMMA Joined ==
  ASSUME NEW S, NEW p \in Seq(S), NEW q \in Seq(S)
  PROVE  /\ p \o q \in Seq(S) /\ Len(p \o q) = Len(p) + Len(q)
         /\ Len(p) \in Nat /\ Len(q) \in Nat
         /\ \A i \in 1 .. Len(p) + Len(q) :
              (p \o q)[i] = IF i <= Len(p) THEN p[i] ELSE q[i - Len(p)]
OBVIOUS

LEMMA DefaultLengths ==
  ASSUME ListingAssumption
  PROVE  Len(DefaultSort) + Len(TieBreaker) > 0
<1>1. DefaultSort \in Seq(Fields \cup {"id"}) /\ TieBreaker \in Seq(Fields \cup {"id"})
  BY DEF ListingAssumption
<1>2. Len(DefaultSort \o TieBreaker) = Len(DefaultSort) + Len(TieBreaker)
  BY <1>1
<1>3. DefaultSort \o TieBreaker \in Seq(Fields \cup {"id"})
  BY <1>1
<1> QED BY <1>1, <1>2, <1>3 DEF ListingAssumption

LEMMA ValidIsUsable ==
  ASSUME ListingAssumption, ListerAssumption, OrderDecides,
         NEW req \in Requests, ValidRequest(req)
  PROVE  Usable(SortFields(req.sorts))
<1>1. SortsDecide(SortFields(req.sorts))
  BY DEF OrderDecides
<1>2. req.sorts \in Seq(SortSpec)
  BY DEF ListerAssumption
<1>3. CASE req.sorts # <<>>
  <2>1. SortFields(req.sorts) = req.sorts
    BY <1>3 DEF SortFields
  <2>2. \A i \in DOMAIN req.sorts : req.sorts[i].field # "id"
    BY DEF ValidRequest, ValidSorts, ListingAssumption
  <2> QED BY <1>1, <1>2, <1>3, <2>1, <2>2 DEF Usable
<1>4. CASE req.sorts = <<>>
  <2> DEFINE ds == Sorted(DefaultSort, TRUE)
             ts == Sorted(TieBreaker, FALSE)
  <2>1. ds \in Seq(SortSpec) /\ Len(ds) = Len(DefaultSort)
        /\ \A i \in 1 .. Len(ds) : ds[i].field \in Fields
    <3>1. DefaultSort \in Seq(Fields \cup {"id"})
          /\ \A i \in 1 .. Len(DefaultSort) : DefaultSort[i] \in Fields
      BY DEF ListingAssumption
    <3> QED BY <3>1, SortedSpecs
  <2>2. ts \in Seq(SortSpec) /\ Len(ts) = Len(TieBreaker)
        /\ \A i \in 1 .. Len(ts) : ~ts[i].desc
    <3>1. TieBreaker \in Seq(Fields \cup {"id"})
      BY DEF ListingAssumption
    <3> QED BY <3>1, SortedSpecs
  <2>3. "id" \notin Fields
    BY DEF ListingAssumption
  <2>4. SortFields(req.sorts) = ds \o ts
    BY <1>4 DEF SortFields, DefaultSorts
  <2>5. Len(ds) + Len(ts) > 0
    BY <2>1, <2>2, DefaultLengths
  <2> HIDE DEF ds, ts
  <2>6. /\ ds \o ts \in Seq(SortSpec) /\ Len(ds \o ts) = Len(ds) + Len(ts)
        /\ Len(ds) \in Nat /\ Len(ts) \in Nat
        /\ \A i \in 1 .. Len(ds) + Len(ts) :
             (ds \o ts)[i] = IF i <= Len(ds) THEN ds[i] ELSE ts[i - Len(ds)]
    BY <2>1, <2>2, Joined
  <2>7. \A i \in 1 .. Len(ds) + Len(ts) : (ds \o ts)[i].field = "id" => ~(ds \o ts)[i].desc
    BY <2>1, <2>2, <2>3, <2>6
  <2>8. ds \o ts # <<>>
    BY <2>1, <2>2, <2>5, <2>6
  <2> QED BY <1>1, <2>4, <2>6, <2>7, <2>8 DEF Usable
<1> QED BY <1>3, <1>4

(* A field that is set has a number in both orders, and they agree. *)
LEMMA KeysAgree ==
  ASSUME ListingAssumption, ListerAssumption, TextsInOrder,
         NEW spec \in SortSpec, spec.field = "id" => ~spec.desc,
         NEW r \in Writes, FieldOf(spec.field, r) # Unset,
         NEW s \in Writes, FieldOf(spec.field, s) # Unset
  PROVE  /\ OrderKey(spec.field, r) \in Int /\ OrderKey(spec.field, s) \in Int
         /\ PageKey(spec, r) \in Int /\ PageKey(spec, s) \in Int
         /\ PageKey(spec, r) = PageKey(spec, s) <=> OrderKey(spec.field, r) = OrderKey(spec.field, s)
         /\ PageKey(spec, r) < PageKey(spec, s) <=>
              IF spec.desc THEN OrderKey(spec.field, s) < OrderKey(spec.field, r)
              ELSE OrderKey(spec.field, r) < OrderKey(spec.field, s)
<1>1. r \in Row /\ s \in Row
  BY DEF ListerAssumption
<1>2. CASE spec.field = "id"
  <2>1. r.id \in Int /\ s.id \in Int
    <3>1. r.id \in Ids /\ s.id \in Ids
      BY <1>1 DEF Row
    <3>2. \A k \in Ids : k \in Int
      BY DEF ListingAssumption
    <3> QED BY <3>1, <3>2, Zenon
  <2>2. OrderKey(spec.field, r) = r.id /\ OrderKey(spec.field, s) = s.id
    BY <1>2 DEF OrderKey
  <2>3. PageKey(spec, r) = r.id /\ PageKey(spec, s) = s.id
    BY <1>2 DEF PageKey, FieldOf
  <2> QED BY <1>2, <2>1, <2>2, <2>3
<1>3. CASE spec.field # "id"
  <2>1. spec.field \in Fields /\ spec.desc \in BOOLEAN
    BY <1>3 DEF SortSpec
  <2> DEFINE v == r.data[spec.field]
             w == s.data[spec.field]
  <2>2. v \in Values /\ w \in Values
    BY <1>1, <1>3, <2>1 DEF Row, FieldOf
  <2>3. /\ OrderKey(spec.field, r) = TextOf[v] /\ OrderKey(spec.field, s) = TextOf[w]
        /\ TextOf[v] \in Nat /\ TextOf[w] \in Nat
    BY <1>3, <2>2 DEF OrderKey, ListingAssumption
  <2>4. v \in Int /\ w \in Int /\ (v < w <=> TextOf[v] < TextOf[w])
        /\ (w < v <=> TextOf[w] < TextOf[v])
    BY <2>2 DEF ListingAssumption, TextsInOrder
  <2>5. \/ PageKey(spec, r) = -v /\ PageKey(spec, s) = -w /\ spec.desc
        \/ PageKey(spec, r) = v /\ PageKey(spec, s) = w /\ ~spec.desc
        \/ PageKey(spec, r) = TextOf[v] /\ PageKey(spec, s) = TextOf[w] /\ ~spec.desc
    BY <1>3, <2>1, <2>2 DEF PageKey, FieldOf, ListingAssumption
  <2> HIDE DEF v, w
  <2> QED BY <2>1, <2>3, <2>4, <2>5
<1> QED BY <1>2, <1>3

(* Rows are as far apart in their values as in ORDER BY. *)
LEMMA ValuesByKey ==
  ASSUME ListingAssumption, ListerAssumption, TextsInOrder,
         NEW spec \in SortSpec,
         NEW r \in Writes, FieldOf(spec.field, r) # Unset,
         NEW s \in Writes, FieldOf(spec.field, s) # Unset,
         OrderKey(spec.field, r) <= OrderKey(spec.field, s)
  PROVE  FieldOf(spec.field, r) <= FieldOf(spec.field, s)
<1>1. r \in Row /\ s \in Row
  BY DEF ListerAssumption
<1>2. CASE spec.field = "id"
  BY <1>2 DEF OrderKey, FieldOf
<1>3. CASE spec.field # "id"
  <2> DEFINE v == r.data[spec.field]
             w == s.data[spec.field]
  <2>1. spec.field \in Fields
    BY <1>3 DEF SortSpec
  <2>2. v \in Values /\ w \in Values
    BY <1>1, <1>3, <2>1 DEF Row, FieldOf
  <2>3. TextOf[v] <= TextOf[w] /\ TextOf[v] \in Nat /\ TextOf[w] \in Nat
    BY <1>3, <2>2 DEF OrderKey, ListingAssumption
  <2>4. v \in Int /\ w \in Int /\ (w < v <=> TextOf[w] < TextOf[v])
    BY <2>2 DEF ListingAssumption, TextsInOrder
  <2>5. v <= w
    BY <2>3, <2>4
  <2> QED BY <1>3, <2>5 DEF FieldOf
<1> QED BY <1>2, <1>3

(* What is set survives in the token. *)
LEMMA DecodedKey ==
  ASSUME ListerAssumption, NEW spec \in SortSpec,
         NEW t \in Writes, FieldOf(spec.field, t) # Unset
  PROVE  PageKey(spec, Decoded(t)) = PageKey(spec, t)
<1>1. t \in Row
  BY DEF ListerAssumption
<1>2. Decoded(t).id = t.id
      /\ Decoded(t).data = [f \in Fields |-> IF t.data[f] = Unset THEN 0 ELSE t.data[f]]
  BY <1>1 DEF Decoded, Row
<1>3. FieldOf(spec.field, Decoded(t)) = FieldOf(spec.field, t)
  BY <1>1, <1>2 DEF FieldOf, SortSpec, Row
<1> QED BY <1>3 DEF PageKey

(* The page begins with the rows that do not come before the token's. *)
LEMMA PageBegins ==
  ASSUME ListingAssumption, ListerAssumption, TextsInOrder,
         NEW fields, Usable(fields), NEW r \in Writes, NEW t \in Writes
  PROVE  AtLeast(PageKeys(fields, r), PageKeys(fields, Decoded(t))) <=> ~Before(fields, r, t)
<1> DEFINE n == Len(fields)
           P(i, row) == PageKey(fields[i], row)
           K(i, row) == OrderKey(fields[i].field, row)
<1>1. n \in Nat /\ DOMAIN fields = 1 .. n /\ \A i \in 1 .. n : fields[i] \in SortSpec
  BY DEF Usable
<1>2. \A i \in 1 .. n :
        /\ P(i, r) \in Int /\ P(i, t) \in Int
        /\ P(i, r) = P(i, t) <=> K(i, r) = K(i, t)
        /\ P(i, r) < P(i, t) <=>
             IF fields[i].desc THEN K(i, t) < K(i, r) ELSE K(i, r) < K(i, t)
        /\ P(i, Decoded(t)) = P(i, t)
  <2> TAKE i \in 1 .. n
  <2>1. fields[i] \in SortSpec /\ (fields[i].field = "id" => ~fields[i].desc)
    BY <1>1 DEF Usable
  <2>2. FieldOf(fields[i].field, r) # Unset /\ FieldOf(fields[i].field, t) # Unset
    BY <1>1 DEF Usable, SortsDecide
  <2>3. P(i, Decoded(t)) = P(i, t)
    BY <2>1, <2>2, DecodedKey
  <2> QED BY <2>1, <2>2, <2>3, KeysAgree
<1>3. PageKeys(fields, r) = [i \in 1 .. n |-> P(i, r)]
      /\ PageKeys(fields, Decoded(t)) = [i \in 1 .. n |-> P(i, t)]
  BY <1>1, <1>2 DEF PageKeys
<1>4. AtLeast(PageKeys(fields, r), PageKeys(fields, Decoded(t))) <=>
        \A i \in 1 .. n :
          (\A j \in 1 .. i - 1 : P(j, r) = P(j, t)) => P(i, r) # Null /\ P(i, r) >= P(i, t)
  <2> DEFINE lhs == PageKeys(fields, r)
             rhs == PageKeys(fields, Decoded(t))
  <2>1. DOMAIN rhs = 1 .. n /\ \A i \in 1 .. n : lhs[i] = P(i, r) /\ rhs[i] = P(i, t)
    BY <1>3
  <2>2. \A i \in 1 .. n : 1 .. i - 1 \subseteq 1 .. n
    BY <1>1
  <2> HIDE DEF lhs, rhs, P
  <2>3. AtLeast(lhs, rhs) <=>
          \A i \in 1 .. n :
            (\A j \in 1 .. i - 1 : P(j, r) = P(j, t)) => P(i, r) # Null /\ P(i, r) >= P(i, t)
    BY <2>1, <2>2 DEF AtLeast
  <2> QED BY <2>3 DEF lhs, rhs
<1>5. Before(fields, r, t) <=>
        \E i \in 1 .. n :
          /\ \A j \in 1 .. i - 1 : K(j, r) = K(j, t)
          /\ IF fields[i].desc THEN K(i, t) < K(i, r) ELSE K(i, r) < K(i, t)
  BY <1>1 DEF Before
<1>6. \A i \in 1 .. n : P(i, r) # Null
  BY <1>2 DEF ListingAssumption
<1>7. \A i \in 1 .. n : P(i, r) >= P(i, t) <=> ~(P(i, r) < P(i, t))
  BY <1>2
<1>8. \A i \in 1 .. n :
        (\A j \in 1 .. i - 1 : P(j, r) = P(j, t)) <=> (\A j \in 1 .. i - 1 : K(j, r) = K(j, t))
  BY <1>1, <1>2
<1> HIDE DEF P, K
<1> QED BY <1>2, <1>4, <1>5, <1>6, <1>7, <1>8

LEMMA KeyIsNumber ==
  ASSUME ListingAssumption, ListerAssumption, TextsInOrder,
         NEW fields, Usable(fields), NEW i \in DOMAIN fields, NEW r \in Writes
  PROVE  OrderKey(fields[i].field, r) \in Int
<1>1. fields[i] \in SortSpec /\ (fields[i].field = "id" => ~fields[i].desc)
  BY DEF Usable
<1>2. FieldOf(fields[i].field, r) # Unset
  BY DEF Usable, SortsDecide
<1> QED BY <1>1, <1>2, KeysAgree

(* ORDER BY is a strict order of the rows, and decides between two ids. *)
LEMMA BeforeIsOrder ==
  ASSUME ListingAssumption, ListerAssumption, TextsInOrder,
         NEW fields, Usable(fields), NEW r \in Writes, NEW s \in Writes, NEW t \in Writes
  PROVE  /\ ~Before(fields, r, r)
         /\ Before(fields, r, s) /\ Before(fields, s, t) => Before(fields, r, t)
         /\ r.id # s.id => Before(fields, r, s) \/ Before(fields, s, r)
<1> DEFINE n == Len(fields)
           Key(i, row) == OrderKey(fields[i].field, row)
           K(i, row) == IF fields[i].desc THEN 0 - Key(i, row) ELSE Key(i, row)
           Lex(a, b) == \E i \in 1 .. n : (\A j \in 1 .. i - 1 : K(j, a) = K(j, b)) /\ K(i, a) < K(i, b)
<1>1. n \in Nat /\ DOMAIN fields = 1 .. n
  BY DEF Usable
<1>2. \A i \in 1 .. n, row \in Writes : Key(i, row) \in Int
  BY <1>1, KeyIsNumber
<1> HIDE DEF Key
<1>3. \A i \in 1 .. n, row \in Writes : K(i, row) \in Int
  BY <1>2
<1>4. \A a, b \in Writes : Before(fields, a, b) <=> Lex(a, b)
  <2> TAKE a, b \in Writes
  <2>1. \A i \in 1 .. n :
          /\ Key(i, a) = Key(i, b) <=> K(i, a) = K(i, b)
          /\ (IF fields[i].desc THEN Key(i, b) < Key(i, a) ELSE Key(i, a) < Key(i, b))
               <=> K(i, a) < K(i, b)
    BY <1>2
  <2>2. \A i \in 1 .. n : \A j \in 1 .. i - 1 : j \in 1 .. n
    BY <1>1
  <2> HIDE DEF K
  <2> QED BY <1>1, <2>1, <2>2 DEF Before, Key
<1> HIDE DEF K
<1>5. ~Lex(r, r)
  BY <1>3
<1>6. ASSUME Lex(r, s), Lex(s, t)
      PROVE  Lex(r, t)
  <2>1. PICK i \in 1 .. n : (\A j \in 1 .. i - 1 : K(j, r) = K(j, s)) /\ K(i, r) < K(i, s)
    BY <1>6
  <2>2. PICK k \in 1 .. n : (\A j \in 1 .. k - 1 : K(j, s) = K(j, t)) /\ K(k, s) < K(k, t)
    BY <1>6
  <2> DEFINE m == IF i <= k THEN i ELSE k
  <2>3. m \in 1 .. n /\ \A j \in 1 .. m - 1 : K(j, r) = K(j, t)
    BY <1>1, <2>1, <2>2
  <2>4. K(m, r) < K(m, t)
    <3>1. /\ K(i, r) \in Int /\ K(i, s) \in Int /\ K(i, t) \in Int
          /\ K(k, r) \in Int /\ K(k, s) \in Int /\ K(k, t) \in Int
      BY <1>3
    <3>2. CASE i < k
      BY <1>1, <2>1, <2>2, <3>1, <3>2
    <3>3. CASE i = k
      BY <2>1, <2>2, <3>1, <3>3
    <3>4. CASE k < i
      BY <1>1, <2>1, <2>2, <3>1, <3>4
    <3> QED BY <1>1, <3>2, <3>3, <3>4
  <2> HIDE DEF m
  <2> QED BY <2>3, <2>4
<1>7. r.id # s.id => Before(fields, r, s) \/ Before(fields, s, r)
  BY DEF Usable, SortsDecide
<1> HIDE DEF Lex
<1> QED BY <1>4, <1>5, <1>6, <1>7

(* Of two rows on either side of a third one, the nearer one comes first. *)
LEMMA BeforeAround ==
  ASSUME ListingAssumption, ListerAssumption, TextsInOrder,
         NEW fields, Usable(fields), NEW r \in Writes, NEW s \in Writes, NEW t \in Writes,
         Before(fields, r, t), ~Before(fields, s, t), r.id = s.id => r = s
  PROVE  Before(fields, r, s)
<1>1. r.id # s.id
  OBVIOUS
<1>2. Before(fields, r, s) \/ Before(fields, s, r)
  BY <1>1, BeforeIsOrder
<1>3. Before(fields, s, r) /\ Before(fields, r, t) => Before(fields, s, t)
  BY BeforeIsOrder
<1> QED BY <1>2, <1>3

-----------------------------------------------------------------------------
(***************************************************************************)
(* What a query returns: the first rows from the token on, in order.       *)
(***************************************************************************)
LEMMA OrdersAllRows ==
  ASSUME NEW rows, IsFiniteSet(rows), NEW f \in SetToSeqs(rows)
  PROVE  /\ f \in Seq(rows) /\ Len(f) = Cardinality(rows)
         /\ \A r \in rows : \E i \in 1 .. Len(f) : f[i] = r
         /\ \A i, j \in 1 .. Len(f) : i # j => f[i] # f[j]
<1> DEFINE n == Cardinality(rows)
<1>1. n \in Nat
  BY FS_CardinalityType
<1>2. f \in [1 .. n -> rows] /\ \A i, j \in 1 .. n : i # j => f[i] # f[j]
  BY DEF SetToSeqs
<1>3. f \in Seq(rows) /\ Len(f) = n
  BY <1>1, <1>2
<1>4. IsFiniteSet(1 .. n) /\ Cardinality(1 .. n) = n
  BY <1>1, FS_Interval
<1>5. f \in Injection(1 .. n, rows)
  BY <1>2 DEF Injection, IsInjective
<1>6. f \in Surjection(1 .. n, rows)
  BY <1>4, <1>5, FS_Injection
<1>7. \A r \in rows : \E i \in 1 .. n : f[i] = r
  BY <1>6 DEF Surjection
<1> QED BY <1>2, <1>3, <1>7

PageOf(page, rows, fields, from, size) ==
  LET Begins(r) == from # NoToken => ~Before(fields, r, from)
      n == Len(page)
  IN  /\ page \in Seq(rows) /\ n <= size + 1
      /\ \A i, j \in 1 .. n : i < j => Before(fields, page[i], page[j])
      /\ \A i \in 1 .. n : Begins(page[i])
      /\ \A r \in rows : Begins(r) =>
           \/ \E i \in 1 .. n : page[i] = r
           \/ n = size + 1 /\ Before(fields, page[size + 1], r)

LEMMA QueryReturns ==
  ASSUME ListingAssumption, ListerAssumption, TextsInOrder,
         NEW fields, Usable(fields), NEW rows \in SUBSET Writes, IsFiniteSet(rows),
         \A r, s \in rows : r.id = s.id => r = s,
         NEW from \in Writes \cup {NoToken}, NEW size \in Nat,
         NEW page \in Results(rows, fields, from, size)
  PROVE  PageOf(page, rows, fields, from, size)
<1> DEFINE found == FromToken(rows, fields, from)
           Begins(r) == from # NoToken => ~Before(fields, r, from)
<1>1. found \in SUBSET rows /\ \A r \in rows : r \in found <=> Begins(r)
  BY PageBegins DEF FromToken
<1>2. IsFiniteSet(found)
  BY <1>1, FS_Subset
<1>3. PICK f \in SetToSeqs(found) :
        /\ \A i, j \in DOMAIN f : i < j => ~Before(fields, f[j], f[i])
        /\ page = Limit(f, size)
  BY DEF Results, Orders
<1> HIDE DEF found
<1> DEFINE n == Len(f)
           m == IF n <= size + 1 THEN n ELSE size + 1
<1>4. /\ f \in Seq(found) /\ n \in Nat /\ DOMAIN f = 1 .. n
      /\ \A i \in 1 .. n : f[i] \in found
      /\ \A r \in found : \E i \in 1 .. n : f[i] = r
      /\ \A i, j \in 1 .. n : i # j => f[i] # f[j]
  BY <1>2, OrdersAllRows
<1>5. \A i, j \in 1 .. n : i < j => Before(fields, f[i], f[j])
  <2> SUFFICES ASSUME NEW i \in 1 .. n, NEW j \in 1 .. n, i < j
               PROVE  Before(fields, f[i], f[j])
    OBVIOUS
  <2>1. f[i] \in rows /\ f[j] \in rows /\ f[i] # f[j]
    BY <1>1, <1>4
  <2>2. f[i] \in Writes /\ f[j] \in Writes /\ f[i].id # f[j].id
    BY <2>1
  <2>3. ~Before(fields, f[j], f[i])
    BY <1>3, <1>4
  <2> QED BY <2>2, <2>3, BeforeIsOrder
<1>6. m \in Nat /\ m <= n /\ m <= size + 1
  BY <1>4
<1>7. page \in Seq(rows) /\ Len(page) = m /\ \A i \in 1 .. m : page[i] = f[i]
  <2>1. f \in Seq(rows)
    BY <1>1, <1>4
  <2>2. page = SubSeq(f, 1, m)
    BY <1>3 DEF Limit
  <2> HIDE DEF m
  <2> QED BY <1>6, <2>1, <2>2
<1>8. \A i \in 1 .. m : Begins(page[i])
  BY <1>1, <1>4, <1>6, <1>7
<1>9. \A i, j \in 1 .. m : i < j => Before(fields, page[i], page[j])
  BY <1>5, <1>6, <1>7
<1>10. ASSUME NEW r \in rows, Begins(r)
       PROVE  \/ \E i \in 1 .. m : page[i] = r
              \/ m = size + 1 /\ Before(fields, page[size + 1], r)
  <2>1. PICK i \in 1 .. n : f[i] = r
    BY <1>1, <1>4, <1>10
  <2>2. CASE i <= m
    BY <1>6, <1>7, <2>1, <2>2
  <2>3. CASE i > m
    <3>1. m = size + 1 /\ m \in 1 .. n
      BY <1>4, <2>3
    <3>2. page[m] = f[m]
      BY <1>7, <3>1
    <3> HIDE DEF m
    <3>3. Before(fields, f[m], f[i])
      BY <1>5, <2>3, <3>1
    <3> QED BY <2>1, <3>1, <3>2, <3>3
  <2> QED BY <1>6, <2>2, <2>3
<1> HIDE DEF m
<1> QED BY <1>6, <1>7, <1>8, <1>9, <1>10 DEF PageOf

-----------------------------------------------------------------------------
(***************************************************************************)
(* The types of the variables, which need no order.                        *)
(***************************************************************************)
BaseInv == ListerTypeOK /\ TableInv /\ ReaderInv

LEMMA StoredFacts ==
  ASSUME TableInv
  PROVE  /\ StoredRows \in SUBSET Writes /\ IsFiniteSet(StoredRows)
         /\ \A r \in StoredRows : r.id \in Ids /\ table[r.id] = r
         /\ \A r, s \in StoredRows : r.id = s.id => r = s
<1>1. \A r \in StoredRows : r \in Writes /\ r.id \in Ids /\ table[r.id] = r
  BY DEF TableInv, StoredRows
<1> QED BY <1>1 DEF TableInv

LEMMA ResultsAreRows ==
  ASSUME NEW rows, IsFiniteSet(rows), NEW fields, NEW from, NEW size \in Nat,
         NEW page \in Results(rows, fields, from, size)
  PROVE  page \in Seq(rows)
<1> DEFINE found == FromToken(rows, fields, from)
<1>1. found \in SUBSET rows
  BY DEF FromToken
<1>2. IsFiniteSet(found)
  BY <1>1, FS_Subset
<1>3. PICK f \in SetToSeqs(found) : page = Limit(f, size)
  BY DEF Results, Orders
<1> HIDE DEF found
<1>4. f \in Seq(rows) /\ Len(f) \in Nat
  BY <1>1, <1>2, OrdersAllRows
<1> QED BY <1>3, <1>4 DEF Limit

LEMMA WriteToTable ==
  ASSUME ListerAssumption, BaseInv,
         NEW row \in Writes, table' = [table EXCEPT ![row.id] = row]
  PROVE  /\ TableInv' /\ table' \in [Ids -> Row \cup {Absent}]
         /\ \A r : r.id # row.id => (r \in StoredRows' <=> r \in StoredRows)
<1>1. row \in Row /\ row.id \in Ids /\ row # Absent
  BY DEF ListerAssumption, Row
<1>2. table \in [Ids -> Row \cup {Absent}]
  BY DEF BaseInv, ListerTypeOK
<1>3. \A k \in Ids : table'[k] = IF k = row.id THEN row ELSE table[k]
  BY <1>1, <1>2
<1>4. table' \in [Ids -> Row \cup {Absent}]
  BY <1>1, <1>2
<1>5. \A k \in Ids : table'[k] # Absent => table'[k] \in Writes /\ table'[k].id = k
  BY <1>3 DEF BaseInv, TableInv
<1>6. StoredRows' \in SUBSET (StoredRows \cup {row})
  BY <1>3 DEF StoredRows
<1>7. IsFiniteSet(StoredRows')
  <2>1. IsFiniteSet(StoredRows \cup {row})
    BY FS_AddElement DEF BaseInv, TableInv
  <2> QED BY <1>6, <2>1, FS_Subset
<1>8. ASSUME NEW r, r.id # row.id
      PROVE  r \in StoredRows' <=> r \in StoredRows
  <2>1. r \in StoredRows' <=> r # Absent /\ \E k \in Ids : table'[k] = r
    BY DEF StoredRows
  <2>2. r \in StoredRows <=> r # Absent /\ \E k \in Ids : table[k] = r
    BY DEF StoredRows
  <2>3. \A k \in Ids : r # Absent /\ table[k] = r => k # row.id
    BY <1>8 DEF BaseInv, TableInv
  <2>4. \A k \in Ids : table'[k] = r => k # row.id
    BY <1>3, <1>8
  <2> QED BY <1>3, <2>1, <2>2, <2>3, <2>4
<1> QED BY <1>4, <1>5, <1>7, <1>8 DEF TableInv

LEMMA QueryRows ==
  ASSUME ListerAssumption, BaseInv, NEW result \in Found
  PROVE  result \in Seq(Writes) /\ Len(result) \in Nat
<1>1. request.size \in Nat
  BY DEF BaseInv, ListerTypeOK, ListerAssumption
<1>2. result \in Seq(StoredRows)
  BY <1>1, StoredFacts, ResultsAreRows DEF Found, BaseInv
<1>3. StoredRows \in SUBSET Writes
  BY StoredFacts DEF BaseInv
<1> QED BY <1>2, <1>3

LEMMA RowsInSeq ==
  ASSUME ListerAssumption, NEW s \in Seq(Writes)
  PROVE  s \in Seq(Row)
BY DEF ListerAssumption

LEMMA InitBase ==
  ASSUME ListerAssumption, Init
  PROVE  BaseInv
<1>1. TableInv
  <2>1. StoredRows = {}
    BY DEF Init, StoredRows
  <2> QED BY <2>1, FS_EmptySet DEF TableInv, Init
<1>2. ListerTypeOK
  BY DEF Init, ListerTypeOK
<1>3. ReaderInv
  BY DEF Init, ReaderInv
<1> QED BY <1>1, <1>2, <1>3 DEF BaseInv

LEMMA NextBase ==
  ASSUME ListerAssumption, BaseInv, [Next]_vars
  PROVE  BaseInv'
<1> USE DEF BaseInv
<1>1. CASE UNCHANGED vars
  BY <1>1 DEF vars, ListerTypeOK, TableInv, ReaderInv, StoredRows, ValidRequest
<1>2. CASE Done
  BY <1>2 DEF Done, vars, ListerTypeOK, TableInv, ReaderInv, StoredRows, ValidRequest
<1>3. CASE Write
  <2>1. PICK row \in Writes :
          /\ table' = [table EXCEPT ![row.id] = row]
          /\ \/ pc = "idle" /\ UNCHANGED <<touched, writes>>
             \/ pc # "idle" /\ writes' = writes + 1 /\ touched' = touched \cup {row.id}
          /\ UNCHANGED <<pc, request, token, jsonRows, listed, faults>>
    BY <1>3 DEF Write
  <2>2. TableInv' /\ table' \in [Ids -> Row \cup {Absent}]
    BY <2>1, WriteToTable
  <2>3. row.id \in Ids
    BY DEF ListerAssumption, Row
  <2>4. ListerTypeOK'
    BY <2>1, <2>2, <2>3 DEF ListerTypeOK
  <2>5. ReaderInv'
    BY <2>1 DEF ReaderInv, ValidRequest
  <2> QED BY <2>2, <2>4, <2>5
<1>4. ASSUME UNCHANGED table
      PROVE  TableInv'
  BY <1>4 DEF TableInv, StoredRows
<1>5. CASE Begin
  BY <1>4, <1>5 DEF Begin, ListerTypeOK, ReaderInv, ValidRequest
<1>6. CASE Query
  <2>1. PICK result \in Found : jsonRows' = jsonRows \o result
    BY <1>6 DEF Query
  <2>2. jsonRows' \in Seq(Writes)
    BY <2>1, QueryRows DEF ReaderInv
  <2>3. jsonRows' \in Seq(Row)
    BY <2>2, RowsInSeq
  <2> QED BY <1>4, <1>6, <2>2, <2>3 DEF Query, ListerTypeOK, ReaderInv, ValidRequest
<1>7. CASE QueryFails
  <2>1. PICK result \in Found :
          \E n \in 0 .. Len(result) : jsonRows' = jsonRows \o SubSeq(result, 1, n)
    BY <1>7 DEF QueryFails
  <2>2. PICK n \in 0 .. Len(result) : jsonRows' = jsonRows \o SubSeq(result, 1, n)
    BY <2>1
  <2>3. result \in Seq(Writes) /\ Len(result) \in Nat
    BY QueryRows
  <2>4. SubSeq(result, 1, n) \in Seq(Writes)
    BY <2>3
  <2>5. jsonRows' \in Seq(Writes)
    BY <2>2, <2>4 DEF ReaderInv
  <2>6. jsonRows' \in Seq(Row)
    BY <2>5, RowsInSeq
  <2> QED BY <1>4, <1>7, <2>5, <2>6 DEF QueryFails, ListerTypeOK, ReaderInv, ValidRequest
<1>8. CASE Reply
  <2> DEFINE n == Len(jsonRows)
  <2>1. jsonRows \in Seq(Writes) /\ listed \in Seq(Writes) /\ n \in Nat /\ request.size \in Nat
    BY DEF ReaderInv, ListerTypeOK, ListerAssumption
  <2>2. Page(jsonRows, request.size) \in Seq(Writes)
    BY <2>1 DEF Page
  <2>3. NextToken(jsonRows, request.size) \in Writes \cup {NoToken}
    BY <2>1 DEF NextToken
  <2>4. listed' \in Seq(Writes) /\ token' \in Writes \cup {NoToken} /\ jsonRows' = <<>>
    BY <1>8, <2>1, <2>2, <2>3 DEF Reply
  <2>5. listed' \in Seq(Row) /\ token' \in Row \cup {NoToken}
    BY <2>4, RowsInSeq DEF ListerAssumption
  <2>6. pc = "reply" /\ pc' \in {"ask", "done"}
        /\ UNCHANGED <<table, request, touched, writes, faults>>
    BY <1>8 DEF Reply
  <2> HIDE DEF n
  <2>7. ListerTypeOK'
    BY <2>4, <2>5, <2>6 DEF ListerTypeOK
  <2>8. ReaderInv'
    BY <2>4, <2>6 DEF ReaderInv, ValidRequest
  <2> QED BY <1>4, <2>6, <2>7, <2>8
<1> QED BY <1>1, <1>2, <1>3, <1>5, <1>6, <1>7, <1>8 DEF Next, Reader

(***************************************************************************)
(* Every variable of a listing keeps to its type.                          *)
(***************************************************************************)
THEOREM ListerTypes == Spec => []ListerTypeOK
<1>1. Init => BaseInv
  BY InitBase, ListerAssumption
<1>2. BaseInv /\ [Next]_vars => BaseInv'
  BY NextBase, ListerAssumption
<1>3. BaseInv => ListerTypeOK
  BY DEF BaseInv
<1> QED BY <1>1, <1>2, <1>3, PTL DEF Spec

-----------------------------------------------------------------------------
(***************************************************************************)
(* What has been listed when no attempt was retried.                       *)
(***************************************************************************)
LEMMA AfterTheFirst ==
  ASSUME NEW n \in Nat, NEW m \in Nat, NEW j \in 1 .. n + m, j > n
  PROVE  \E i \in 1 .. m : j = n + i
<1>1. j - n \in 1 .. m /\ j = n + (j - n)
  OBVIOUS
<1> QED BY <1>1

LEMMA ReadingIsUsable ==
  ASSUME ListingAssumption, ListerAssumption, OrderDecides, BaseInv,
         pc \in {"ask", "reply", "done"}
  PROVE  Usable(SortedBy)
<1>1. request \in Requests /\ ValidRequest(request)
  BY DEF BaseInv, ListerTypeOK, ReaderInv
<1> QED BY <1>1, ValidIsUsable DEF SortedBy

LEMMA SettledFacts ==
  ASSUME BaseInv
  PROVE  /\ Settled \in SUBSET Writes
         /\ \A r \in Settled : r \in StoredRows /\ r.id \notin touched
         /\ \A r \in Settled, s \in StoredRows : r.id = s.id => r = s
BY StoredFacts DEF BaseInv, Settled

(* Writing takes rows out of Settled, and changes nothing else of it. *)
LEMMA WriteUnretried ==
  ASSUME ListerAssumption, BaseInv, UnretriedInv, Write
  PROVE  UnretriedInv'
<1>1. PICK row \in Writes :
        /\ table' = [table EXCEPT ![row.id] = row]
        /\ \/ pc = "idle" /\ UNCHANGED <<touched, writes>>
           \/ pc # "idle" /\ writes' = writes + 1 /\ touched' = touched \cup {row.id}
        /\ UNCHANGED <<pc, request, token, jsonRows, listed, faults>>
  BY DEF Write
<1>2. \A r : r.id # row.id => (r \in StoredRows' <=> r \in StoredRows)
  BY <1>1, WriteToTable
<1>3. SUFFICES ASSUME Unretried
               PROVE  /\ ListedInv'
                      /\ pc' = "ask" => jsonRows' = <<>>
                      /\ pc' = "reply" => PageInv'
  BY <1>1 DEF UnretriedInv, Unretried
<1>4. ListedInv /\ (pc = "ask" => jsonRows = <<>>) /\ (pc = "reply" => PageInv)
  BY <1>3 DEF UnretriedInv
<1>5. CASE pc = "idle"
  <2>1. pc' = "idle" /\ listed' = <<>>
    BY <1>1, <1>5 DEF BaseInv, ReaderInv
  <2> QED BY <2>1 DEF ListedInv
<1>6. CASE pc # "idle"
  <2>1. touched' = touched \cup {row.id}
    BY <1>1, <1>6
  <2>2. Settled' \in SUBSET Settled
    BY <1>2, <2>1 DEF Settled
  <2>3. \A r : Starts(r)' <=> Starts(r)
    BY <1>1 DEF Starts, SortedBy
  <2>4. ListedRows' = ListedRows
    BY <1>1 DEF ListedRows
  <2>5. ListedInv'
    BY <1>1, <1>4, <2>2, <2>3, <2>4 DEF ListedInv, SortedBy
  <2>6. ASSUME pc' = "reply"
        PROVE  PageInv'
    <3>1. PageInv
      BY <1>1, <1>4, <2>6
    <3>2. \A i \in 1 .. Len(jsonRows) :
            jsonRows[i].id \notin touched' => jsonRows[i] \in StoredRows'
      BY <1>2, <2>1, <3>1 DEF PageInv
    <3> QED BY <1>1, <2>2, <2>3, <3>1, <3>2 DEF PageInv, SortedBy
  <2> QED BY <1>1, <1>4, <2>5, <2>6
<1> QED BY <1>5, <1>6

(* The query returns the settled rows from the token on, up to its limit. *)
LEMMA QueryUnretried ==
  ASSUME ListingAssumption, ListerAssumption, TextsInOrder, OrderDecides,
         BaseInv, UnretriedInv, Query
  PROVE  UnretriedInv'
<1>1. pc = "ask" /\ pc' = "reply"
      /\ UNCHANGED <<table, request, token, listed, touched, writes, faults>>
  BY DEF Query
<1>2. SUFFICES ASSUME Unretried
               PROVE  ListedInv' /\ PageInv'
  BY <1>1 DEF UnretriedInv, Unretried
<1>3. ListedInv /\ jsonRows = <<>>
  BY <1>1, <1>2 DEF UnretriedInv
<1>4. PICK result \in Found : jsonRows' = jsonRows \o result
  BY DEF Query
<1>5. jsonRows' = result
  BY <1>3, <1>4, QueryRows
<1>6. Usable(SortedBy)
  BY <1>1, ReadingIsUsable
<1>7. request.size \in Nat /\ token \in Writes \cup {NoToken}
  BY DEF BaseInv, ListerTypeOK, ReaderInv, ListerAssumption
<1>8. /\ result \in Seq(StoredRows) /\ Len(result) <= request.size + 1
      /\ \A i, j \in 1 .. Len(result) : i < j => Before(SortedBy, result[i], result[j])
      /\ \A i \in 1 .. Len(result) : Starts(result[i])
      /\ \A r \in StoredRows : Starts(r) =>
           \/ \E i \in 1 .. Len(result) : result[i] = r
           \/ Len(result) = request.size + 1 /\ Before(SortedBy, result[request.size + 1], r)
  <2>1. /\ StoredRows \in SUBSET Writes /\ IsFiniteSet(StoredRows)
        /\ \A r, s \in StoredRows : r.id = s.id => r = s
    BY StoredFacts DEF BaseInv
  <2>2. result \in Results(StoredRows, SortedBy, token, request.size)
    BY DEF Found, SortedBy
  <2>3. PageOf(result, StoredRows, SortedBy, token, request.size)
    BY <1>6, <1>7, <2>1, <2>2, QueryReturns
  <2> QED BY <2>3 DEF Starts, PageOf
<1>9. /\ Settled' = Settled /\ Settled \in SUBSET StoredRows /\ StoredRows' = StoredRows
      /\ SortedBy' = SortedBy /\ ListedRows' = ListedRows
      /\ \A r : Starts(r)' <=> Starts(r)
  BY <1>1 DEF Settled, StoredRows, SortedBy, ListedRows, Starts
<1>10. ListedInv'
  BY <1>1, <1>3, <1>9 DEF ListedInv
<1>11. \A i \in 1 .. Len(result) : result[i] \in StoredRows
  BY <1>8
<1>12. PageInv'
  BY <1>1, <1>5, <1>8, <1>9, <1>11 DEF PageInv
<1> QED BY <1>10, <1>12

(* A page adds the settled rows between its token and the next one. *)
LEMMA ReplyUnretried ==
  ASSUME ListingAssumption, ListerAssumption, TextsInOrder, OrderDecides,
         BaseInv, UnretriedInv, Reply
  PROVE  UnretriedInv'
<1> DEFINE n == Len(jsonRows)
           size == request.size
           m == IF n <= size THEN n ELSE size
           B(r, s) == Before(SortedBy, r, s)
<1>1. /\ pc = "reply" /\ jsonRows' = <<>>
      /\ listed' = listed \o Page(jsonRows, size) /\ token' = NextToken(jsonRows, size)
      /\ pc' = IF token' = NoToken THEN "done" ELSE "ask"
      /\ UNCHANGED <<table, request, touched, writes, faults>>
  BY DEF Reply
<1>2. SUFFICES ASSUME Unretried
               PROVE  ListedInv'
  BY <1>1 DEF UnretriedInv, Unretried
<1>3. ListedInv /\ PageInv
  BY <1>1, <1>2 DEF UnretriedInv
<1>4. Usable(SortedBy)
  BY <1>1, ReadingIsUsable
<1>5. /\ jsonRows \in Seq(Writes) /\ listed \in Seq(Writes) /\ n \in Nat /\ size \in Nat
      /\ token \in Writes \cup {NoToken} /\ NoToken \notin Writes
      /\ \A i \in 1 .. n : jsonRows[i] \in Writes
  BY DEF BaseInv, ReaderInv, ListerTypeOK, ListerAssumption
<1>6. /\ n <= size + 1
      /\ \A i, j \in 1 .. n : i < j => B(jsonRows[i], jsonRows[j])
      /\ \A i \in 1 .. n : Starts(jsonRows[i])
      /\ \A i \in 1 .. n : jsonRows[i].id \notin touched => jsonRows[i] \in StoredRows
      /\ \A r \in Settled : Starts(r) =>
           (\E i \in 1 .. n : jsonRows[i] = r) \/ (n = size + 1 /\ B(jsonRows[n], r))
  BY <1>3 DEF PageInv
<1>7. m \in Nat /\ m <= n /\ m <= size
  BY <1>5
<1>8. /\ listed' \in Seq(Writes) /\ Len(listed') = Len(listed) + m /\ Len(listed) \in Nat
      /\ \A i \in 1 .. Len(listed) : listed'[i] = listed[i]
      /\ \A i \in 1 .. m : listed'[Len(listed) + i] = jsonRows[i]
  <2> DEFINE page == SubSeq(jsonRows, 1, m)
  <2>1. Page(jsonRows, size) = page
    BY DEF Page
  <2> HIDE DEF m
  <2>2. page \in Seq(Writes) /\ Len(page) = m /\ \A i \in 1 .. m : page[i] = jsonRows[i]
    BY <1>5, <1>7
  <2>3. listed' = listed \o page
    BY <1>1, <2>1
  <2> HIDE DEF page
  <2> QED BY <1>5, <1>7, <2>2, <2>3
<1>9. Len(listed) \in Nat
  BY <1>8
<1>10. \A j \in 1 .. Len(listed) + m : j > Len(listed) => \E i \in 1 .. m : j = Len(listed) + i
  BY <1>7, <1>9, AfterTheFirst
<1>11. ListedRows' = ListedRows \cup {jsonRows[i] : i \in 1 .. m}
  <2> HIDE DEF m
  <2>1. DOMAIN listed = 1 .. Len(listed) /\ DOMAIN listed' = 1 .. Len(listed) + m
    BY <1>5, <1>8
  <2>2. ListedRows \subseteq ListedRows'
    <3>1. 1 .. Len(listed) \subseteq 1 .. Len(listed) + m
      BY <1>7, <1>8
    <3> QED BY <1>8, <2>1, <3>1 DEF ListedRows
  <2>3. \A i \in 1 .. m : jsonRows[i] \in ListedRows'
    <3>1. \A i \in 1 .. m : Len(listed) + i \in 1 .. Len(listed) + m
      BY <1>7, <1>8
    <3> QED BY <1>8, <2>1, <3>1 DEF ListedRows
  <2>4. ASSUME NEW j \in 1 .. Len(listed) + m
        PROVE  listed'[j] \in ListedRows \cup {jsonRows[i] : i \in 1 .. m}
    <3>1. CASE j \in 1 .. Len(listed)
      BY <1>8, <2>1, <3>1 DEF ListedRows
    <3>2. CASE j \notin 1 .. Len(listed)
      <4>1. j > Len(listed)
        BY <1>7, <1>8, <3>2
      <4>2. PICK i \in 1 .. m : j = Len(listed) + i
        BY <1>10, <4>1
      <4> QED BY <1>8, <4>2
    <3> QED BY <3>1, <3>2
  <2> QED BY <2>1, <2>2, <2>3, <2>4 DEF ListedRows
<1>12. Settled' = Settled /\ SortedBy' = SortedBy
  BY <1>1 DEF Settled, StoredRows, SortedBy
<1>13. /\ Settled \in SUBSET Writes /\ \A r \in Settled : r.id \notin touched
       /\ \A r \in Settled, s \in StoredRows : r.id = s.id => r = s
  BY SettledFacts
<1>14. \A r \in Settled : r \in ListedRows <=> (token # NoToken /\ B(r, token))
  BY <1>1, <1>3 DEF ListedInv, Starts
<1>15. ASSUME NEW r \in Settled, r \in ListedRows, NEW i \in 1 .. n
       PROVE  B(r, jsonRows[i])
  <2>1. token \in Writes /\ B(r, token) /\ ~B(jsonRows[i], token)
    BY <1>5, <1>6, <1>14, <1>15 DEF Starts
  <2>2. r.id = jsonRows[i].id => r = jsonRows[i]
    BY <1>6, <1>13
  <2>3. r \in Writes /\ jsonRows[i] \in Writes
    BY <1>5, <1>13
  <2> QED BY <1>4, <2>1, <2>2, <2>3, BeforeAround
<1>16. ASSUME NEW i \in DOMAIN listed', NEW j \in DOMAIN listed', i < j,
              {listed'[i], listed'[j]} \subseteq Settled
       PROVE  B(listed'[i], listed'[j])
  <2> HIDE DEF m
  <2>1. DOMAIN listed = 1 .. Len(listed) /\ DOMAIN listed' = 1 .. Len(listed) + m
    BY <1>5, <1>8
  <2>2. i \in 1 .. Len(listed) + m /\ j \in 1 .. Len(listed) + m
    BY <1>16, <2>1
  <2>3. CASE j <= Len(listed)
    <3>1. i \in DOMAIN listed /\ j \in DOMAIN listed
      BY <1>7, <1>8, <1>16, <2>1, <2>3
    <3>2. listed'[i] = listed[i] /\ listed'[j] = listed[j]
      BY <1>8, <2>1, <3>1
    <3> QED BY <1>3, <1>16, <3>1, <3>2 DEF ListedInv
  <2>4. CASE i <= Len(listed) /\ j > Len(listed)
    <3>1. i \in DOMAIN listed
      BY <1>7, <1>8, <2>1, <2>4
    <3>2. PICK k \in 1 .. m : j = Len(listed) + k
      BY <1>10, <2>2, <2>4
    <3>3. listed'[i] = listed[i] /\ listed'[j] = jsonRows[k] /\ k \in 1 .. n
      BY <1>5, <1>7, <1>8, <2>1, <3>1, <3>2
    <3>4. listed[i] \in Settled /\ listed[i] \in ListedRows
      BY <1>16, <3>1, <3>3 DEF ListedRows
    <3> QED BY <1>15, <3>3, <3>4
  <2>5. CASE i > Len(listed)
    <3>1. PICK k \in 1 .. m : i = Len(listed) + k
      BY <1>10, <2>2, <2>5
    <3>2. PICK l \in 1 .. m : j = Len(listed) + l
      <4>1. j > Len(listed)
        BY <1>8, <1>16, <2>2, <2>5
      <4> QED BY <1>10, <2>2, <4>1
    <3>3. k \in 1 .. n /\ l \in 1 .. n /\ k < l
      BY <1>5, <1>7, <1>8, <1>16, <3>1, <3>2
    <3> QED BY <1>6, <1>8, <3>1, <3>2, <3>3
  <2> QED BY <1>8, <1>16, <2>1, <2>3, <2>4, <2>5
<1>17. CASE n <= size
  <2>1. pc' = "done" /\ m = n
    BY <1>1, <1>17 DEF NextToken
  <2>2. Settled \subseteq ListedRows'
    <3> SUFFICES ASSUME NEW r \in Settled, r \notin ListedRows
                 PROVE  \E i \in 1 .. n : jsonRows[i] = r
      BY <1>11, <2>1
    <3>1. Starts(r)
      BY <1>14 DEF Starts
    <3> QED BY <1>5, <1>6, <1>17, <3>1
  <2> HIDE DEF m
  <2> QED BY <1>12, <1>16, <2>1, <2>2 DEF ListedInv
<1>18. CASE n > size
  <2>1. n = size + 1 /\ m = size /\ token' = jsonRows[n]
    BY <1>1, <1>5, <1>6, <1>18 DEF NextToken
  <2>2. jsonRows[n] \in Writes /\ n \in 1 .. n /\ pc' = "ask"
    BY <1>1, <1>5, <2>1
  <2> HIDE DEF m
  <2>3. ASSUME NEW r \in Settled
        PROVE  r \in ListedRows' <=> B(r, jsonRows[n])
    <3>1. CASE r \in ListedRows
      BY <1>11, <1>15, <2>2, <3>1
    <3>2. CASE r \notin ListedRows
      <4>1. Starts(r)
        BY <1>14, <3>2 DEF Starts
      <4>2. r \in Writes
        BY <1>13
      <4>3. ~(B(jsonRows[n], r) /\ B(r, jsonRows[n])) /\ ~B(jsonRows[n], jsonRows[n])
        BY <1>4, <2>2, <4>2, BeforeIsOrder
      <4>4. ASSUME NEW i \in 1 .. n, jsonRows[i] = r
            PROVE  i \in 1 .. m <=> B(r, jsonRows[n])
        <5>1. CASE i = n
          BY <1>5, <2>1, <4>3, <4>4, <5>1
        <5>2. CASE i < n
          BY <1>5, <1>6, <2>1, <2>2, <4>4, <5>2
        <5> QED BY <1>5, <5>1, <5>2
      <4>5. CASE \E i \in 1 .. n : jsonRows[i] = r
        <5>1. PICK i \in 1 .. n : jsonRows[i] = r
          BY <4>5
        <5>2. r \in ListedRows' => B(r, jsonRows[n])
          <6>1. ASSUME NEW k \in 1 .. m, jsonRows[k] = r
                PROVE  B(r, jsonRows[n])
            <7>1. k \in 1 .. n
              BY <1>5, <1>7, <6>1
            <7> QED BY <4>4, <6>1, <7>1
          <6> QED BY <1>11, <3>2, <6>1
        <5>3. B(r, jsonRows[n]) => r \in ListedRows'
          BY <1>11, <4>4, <5>1
        <5> QED BY <5>2, <5>3
      <4>6. CASE ~\E i \in 1 .. n : jsonRows[i] = r
        <5>1. ~B(r, jsonRows[n])
          BY <1>6, <4>1, <4>3, <4>6
        <5>2. r \notin ListedRows'
          BY <1>5, <1>7, <1>11, <3>2, <4>6
        <5> QED BY <5>1, <5>2
      <4> QED BY <4>5, <4>6
    <3> QED BY <3>1, <3>2
  <2>4. token' # NoToken
    BY <1>5, <2>1, <2>2
  <2>5. \A r \in Settled' : r \in ListedRows' <=> ~Starts(r)'
    BY <1>12, <2>1, <2>3, <2>4 DEF Starts
  <2> QED BY <1>12, <1>16, <2>2, <2>5 DEF ListedInv
<1> QED BY <1>5, <1>17, <1>18

LEMMA NextUnretried ==
  ASSUME ListingAssumption, ListerAssumption, TextsInOrder, OrderDecides,
         BaseInv, UnretriedInv, [Next]_vars
  PROVE  UnretriedInv'
<1>1. CASE UNCHANGED vars \/ Done
  <2>1. UNCHANGED <<table, pc, request, token, jsonRows, listed, touched, faults>>
    BY <1>1 DEF Done, vars
  <2>2. /\ StoredRows' = StoredRows /\ Settled' = Settled /\ SortedBy' = SortedBy
        /\ ListedRows' = ListedRows
    BY <2>1 DEF StoredRows, Settled, SortedBy, ListedRows
  <2>3. \A r : Starts(r)' <=> Starts(r)
    BY <2>1, <2>2 DEF Starts
  <2>4. ListedInv => ListedInv'
    BY <2>1, <2>2, <2>3 DEF ListedInv
  <2>5. PageInv => PageInv'
    BY <2>1, <2>2, <2>3 DEF PageInv
  <2> QED BY <2>1, <2>4, <2>5 DEF UnretriedInv, Unretried
<1>2. CASE Begin
  <2>1. /\ pc = "idle" /\ pc' \in {"ask", "refused"}
        /\ UNCHANGED <<table, request, token, jsonRows, listed, touched, writes, faults>>
    BY <1>2 DEF Begin
  <2>2. token' = NoToken /\ jsonRows' = <<>> /\ listed' = <<>>
    BY <2>1 DEF BaseInv, ReaderInv
  <2>3. ListedRows' = {} /\ DOMAIN listed' = {}
    BY <2>2 DEF ListedRows
  <2> QED BY <2>1, <2>2, <2>3 DEF UnretriedInv, ListedInv, Starts
<1>3. CASE QueryFails
  BY <1>3 DEF QueryFails, UnretriedInv, Unretried, BaseInv, ListerTypeOK
<1> QED BY <1>1, <1>2, <1>3, WriteUnretried, QueryUnretried, ReplyUnretried DEF Next, Reader

LEMMA InitUnretried ==
  ASSUME Init
  PROVE  UnretriedInv
BY DEF Init, UnretriedInv, ListedInv

(* The invariant is what the two properties need. *)
LEMMA ListedInOrder ==
  ASSUME ListingAssumption, ListerAssumption, TextsInOrder, OrderDecides,
         BaseInv, UnretriedInv
  PROVE  SettledListedOnce /\ ListedByValue
<1> SUFFICES ASSUME Unretried
             PROVE  SettledListedOnce /\ ListedByValue
  BY DEF SettledListedOnce, ListedByValue
<1>1. ListedInv /\ listed \in Seq(Writes)
  BY DEF UnretriedInv, BaseInv, ReaderInv
<1>2. CASE pc \in {"idle", "refused"}
  <2>1. listed = <<>> /\ DOMAIN listed = {}
    BY <1>2 DEF BaseInv, ReaderInv
  <2>2. \A r : Listings(r) = {}
    BY <2>1 DEF Listings
  <2>3. \A r : Cardinality(Listings(r)) = 0
    BY <2>2, FS_EmptySet
  <2>4. SettledListedOnce
    BY <1>2, <2>3 DEF SettledListedOnce
  <2> QED BY <2>1, <2>4 DEF ListedByValue
<1>3. CASE pc \in {"ask", "reply", "done"}
  <2>1. Usable(SortedBy)
    BY <1>3, ReadingIsUsable
  <2>2. \A i \in DOMAIN listed : listed[i] \in Writes
    BY <1>1
  <2>3. ASSUME NEW r \in Settled
        PROVE  Cardinality(Listings(r)) <= 1
    <3>1. r \in Writes /\ ~Before(SortedBy, r, r)
      BY <2>1, SettledFacts, BeforeIsOrder
    <3>2. \A i, j \in Listings(r) : i = j
      <4>1. \A i, j \in Listings(r) : ~(i < j)
        BY <1>1, <3>1 DEF Listings, ListedInv
      <4>2. Listings(r) \subseteq Nat
        BY <1>1 DEF Listings
      <4> QED BY <4>1, <4>2
    <3>3. CASE Listings(r) = {}
      <4>1. Cardinality(Listings(r)) = 0
        BY <3>3, FS_EmptySet
      <4> QED BY <4>1
    <3>4. CASE Listings(r) # {}
      <4>1. PICK i \in Listings(r) : TRUE
        BY <3>4
      <4>2. Listings(r) = {i}
        BY <3>2, <4>1
      <4>3. Cardinality(Listings(r)) = 1
        BY <4>2, FS_Singleton
      <4> QED BY <4>3
    <3> QED BY <3>3, <3>4
  <2>4. ASSUME pc = "done", NEW r \in Settled
        PROVE  Listings(r) # {}
    <3>1. r \in ListedRows
      BY <1>1, <2>4 DEF ListedInv
    <3> QED BY <3>1 DEF ListedRows, Listings
  <2>5. SettledListedOnce
    BY <2>3, <2>4 DEF SettledListedOnce
  <2> DEFINE first == SortedBy[1]
             Value(r) == FieldOf(first.field, r)
             Key(r) == OrderKey(first.field, r)
  <2>6. first \in SortSpec /\ 1 \in DOMAIN SortedBy /\ (first.field = "id" => ~first.desc)
    BY <2>1 DEF Usable
  <2>7. ASSUME NEW r \in Writes, NEW s \in Writes, Before(SortedBy, r, s)
        PROVE  IF first.desc THEN Value(r) >= Value(s) ELSE Value(r) <= Value(s)
    <3>1. IF first.desc THEN Key(s) <= Key(r) ELSE Key(r) <= Key(s)
      <4>1. Key(r) \in Int /\ Key(s) \in Int
        BY <2>1, <2>6, KeyIsNumber
      <4>2. PICK i \in DOMAIN SortedBy :
              /\ \A j \in 1 .. i - 1 :
                   OrderKey(SortedBy[j].field, r) = OrderKey(SortedBy[j].field, s)
              /\ IF SortedBy[i].desc
                 THEN OrderKey(SortedBy[i].field, s) < OrderKey(SortedBy[i].field, r)
                 ELSE OrderKey(SortedBy[i].field, r) < OrderKey(SortedBy[i].field, s)
        BY <2>7 DEF Before
      <4>3. CASE i = 1
        BY <4>1, <4>2, <4>3
      <4>4. CASE i # 1
        <5>1. 1 \in 1 .. i - 1
          BY <2>1, <4>4 DEF Usable
        <5>2. Key(r) = Key(s)
          BY <4>2, <5>1
        <5> QED BY <4>1, <5>2
      <4> QED BY <4>3, <4>4
    <3> QED BY <2>1, <2>6, <3>1, ValuesByKey DEF Usable, SortsDecide
  <2> HIDE DEF first, Value
  <2>8. \A i, j \in DOMAIN listed :
          {listed[i], listed[j]} \subseteq Settled /\ i < j =>
            IF first.desc THEN Value(listed[i]) >= Value(listed[j])
            ELSE Value(listed[i]) <= Value(listed[j])
    BY <1>1, <2>2, <2>7 DEF ListedInv
  <2>9. ListedByValue
    BY <2>8 DEF ListedByValue, SortedBy, first, Value
  <2> QED BY <2>5, <2>9
<1> QED BY <1>2, <1>3 DEF BaseInv, ListerTypeOK

ListerInv == BaseInv /\ UnretriedInv

LEMMA ListerInvariant ==
  ASSUME TextsInOrder, OrderDecides
  PROVE  Spec => []ListerInv
<1>1. Init => ListerInv
  BY InitBase, InitUnretried, ListerAssumption DEF ListerInv
<1>2. ListerInv /\ [Next]_vars => ListerInv'
  BY NextBase, NextUnretried, ListerAssumption, ListingAssumption DEF ListerInv
<1> QED BY <1>1, <1>2, PTL DEF Spec

(***************************************************************************)
(* Where the order decides between rows, a row nobody writes during a      *)
(* listing is listed at most once, and has been listed at the end.         *)
(***************************************************************************)
THEOREM SettledRowsListed ==
  ASSUME TextsInOrder, OrderDecides
  PROVE  Spec => []SettledListedOnce
<1>1. ListerInv => SettledListedOnce
  BY ListedInOrder, ListingAssumption, ListerAssumption DEF ListerInv
<1> QED BY <1>1, ListerInvariant, PTL

(***************************************************************************)
(* And such rows come, across all pages, in the order of their values.     *)
(***************************************************************************)
THEOREM PagesInOrder ==
  ASSUME TextsInOrder, OrderDecides
  PROVE  Spec => []ListedByValue
<1>1. ListerInv => ListedByValue
  BY ListedInOrder, ListingAssumption, ListerAssumption DEF ListerInv
<1> QED BY <1>1, ListerInvariant, PTL
=============================================================================
