--------------------------- MODULE MigrationProofs ---------------------------
(***************************************************************************)
(* For every key message and every list of indexes: the tables that        *)
(* migrations make take the rows that store writes; and however the        *)
(* migrations of any number of runners are interleaved, refused, cut off   *)
(* and undone, what the catalog shows is never half a schema, the indexes  *)
(* that a run leaves are complete, and down takes away what up makes.      *)
(*                                                                         *)
(* The parts, in order: the tables and rows; the programs of the three     *)
(* jobs as sequences of statements, which needs what FlattenSeq returns;   *)
(* the inductive invariant SchemaInv; one lemma for each action; the       *)
(* connections; the theorems.                                              *)
(***************************************************************************)
EXTENDS Migration, TLAPS, NaturalsInduction, SequenceTheorems, FiniteSetTheorems

Property == [name : STRING, column : STRING, primary : BOOLEAN, required : BOOLEAN]

(* keyFieldColumn makes a primary key required, and changes nothing else. *)
LEMMA KeyColumnFields ==
  ASSUME NEW p \in Property
  PROVE  /\ KeyColumn(p).column = p.column
         /\ KeyColumn(p).primary = p.primary
         /\ KeyColumn(p).required = (p.primary \/ p.required)
  BY DEF KeyColumn, Property

(* Every primary column is a column that is not null. *)
LEMMA PrimaryNotNull ==
  ASSUME NEW list \in Seq(Property)
  PROVE  /\ PrimaryColumns(list) \subseteq NotNullColumns(list)
         /\ NotNullColumns(list) \subseteq KeyNames(list)
<1>1. \A p \in Range(list) : p \in Property
  BY DEF Range
<1>2. \A k \in KeyColumns(list) : k.primary => k.required
  BY <1>1, KeyColumnFields DEF KeyColumns, Property
<1> QED
  BY <1>2 DEF PrimaryColumns, NotNullColumns, KeyNames

(***************************************************************************)
(* The tables take the rows of every state machine, whatever its keys.     *)
(***************************************************************************)
LEMMA TablesFit ==
  ASSUME properties \in Seq(Property)
  PROVE  TablesTakeRows
<1> DEFINE names == KeyNames(properties)
           state == StateTable(properties)
           event == EventTable(properties)
<1>1. ASSUME NEW given \in SUBSET names, NEW values \in [given -> {"", "v"}],
             Storable(properties, values)
      PROVE  /\ Accepts(state, UpsertColumns(properties, values))
             /\ Accepts(event, InsertColumns(properties, values))
  BY <1>1 DEF Storable, Stored, Accepts, StateTable, EventTable, UpsertColumns, InsertColumns
<1>2. ConflictTarget(properties) = state.primaryKey
  BY DEF ConflictTarget, StateTable
<1>3. event.foreignKey = state.primaryKey
  BY DEF EventTable, StateTable
<1>4. event.foreignKey \subseteq event.notNull
  BY PrimaryNotNull DEF EventTable
<1> QED
  BY <1>1, <1>2, <1>3, <1>4 DEF TablesTakeRows

(* No step changes the key message. *)
LEMMA PropertiesKept ==
  ASSUME properties \in PropertyLists, [Next]_vars
  PROVE  properties' \in PropertyLists
  BY DEF Next, vars, Step, Begin, BeginAgain, CountColumn, Lock, Execute, Commit,
         Deadlock, Lost

(***************************************************************************)
(* TablesTakeRows in every state, for every list of key messages.          *)
(***************************************************************************)
THEOREM TablesCorrect == Spec => []TablesTakeRows
<1>1. Init => properties \in PropertyLists
  BY DEF Init
<1>2. properties \in PropertyLists /\ [Next]_vars => (properties \in PropertyLists)'
  BY PropertiesKept
<1>3. properties \in PropertyLists => TablesTakeRows
  BY TablesFit, MigrationAssumption DEF MigrationAssumption, Property
<1> QED
  BY <1>1, <1>2, <1>3, PTL DEF Spec

(***************************************************************************)
(* What FlattenSeq returns.                                                *)
(***************************************************************************)
LEMMA LeastNatural ==
  ASSUME NEW S \in SUBSET Nat, S # {}
  PROVE  \E i \in S : \A j \in S : i <= j
<1> DEFINE less == {ss \in Nat \X Nat : ss[1] < ss[2]}
<1>1. IsWellFoundedOn(less, Nat)
  <2>1. OpToRel(<, Nat) = less
    BY DEF OpToRel
  <2> QED BY <2>1, NatLessThanWellFounded
<1>2. PICK i \in S : \A j \in S : ~(<<j, i>> \in less)
  <2> HIDE DEF less
  <2> QED BY <1>1, WFMin
<1>3. \A j \in S : ~(j < i)
  BY <1>2
<1> QED BY <1>3

FlattenTo(seqs, f, n) ==
  f = [i \in 1 .. n |-> IF i = 1 THEN seqs[i] ELSE f[i - 1] \o seqs[i]]

LEMMA FlattenExists ==
  ASSUME NEW n \in Nat, NEW seqs
  PROVE  \E f : FlattenTo(seqs, f, n)
<1> DEFINE S == {m \in Nat : ~ \E f : FlattenTo(seqs, f, m)}
<1>1. SUFFICES ASSUME S # {} PROVE FALSE
  OBVIOUS
<1>2. PICK m \in S : \A j \in S : m <= j
  BY <1>1, LeastNatural
<1>3. m # 0
  <2>1. FlattenTo(seqs, [i \in 1 .. 0 |-> 0], 0)
    BY DEF FlattenTo
  <2> QED BY <2>1
<1>4. PICK f : FlattenTo(seqs, f, m - 1)
  BY <1>2, <1>3
<1> DEFINE g == [i \in 1 .. m |-> IF i = 1 THEN seqs[i] ELSE f[i - 1] \o seqs[i]]
<1>5. m \in Nat /\ \A i \in 1 .. m - 1 : f[i] = IF i = 1 THEN seqs[i] ELSE f[i - 1] \o seqs[i]
  BY <1>2, <1>4 DEF FlattenTo
<1>6. \A i \in 1 .. m : g[i] = IF i = 1 THEN seqs[i] ELSE g[i - 1] \o seqs[i]
  <2> SUFFICES ASSUME NEW i \in 1 .. m
               PROVE  g[i] = IF i = 1 THEN seqs[i] ELSE g[i - 1] \o seqs[i]
    OBVIOUS
  <2>1. CASE i = 1
    BY <2>1
  <2>2. CASE i # 1
    <3>1. i - 1 \in 1 .. m /\ i - 1 \in 1 .. m - 1
      BY <1>5, <2>2
    <3>2. g[i - 1] = f[i - 1]
      BY <1>5, <3>1
    <3> QED BY <2>2, <3>2
  <2> QED BY <2>1, <2>2
<1>7. FlattenTo(seqs, g, m)
  BY <1>6 DEF FlattenTo
<1> QED BY <1>7

LEMMA FlattenIs ==
  ASSUME NEW S, NEW seqs \in Seq(S), seqs # <<>>
  PROVE  \E f : FlattenTo(seqs, f, Len(seqs)) /\ FlattenSeq(seqs) = f[Len(seqs)]
<1> DEFINE f == CHOOSE f : FlattenTo(seqs, f, Len(seqs))
<1>1. FlattenTo(seqs, f, Len(seqs))
  BY FlattenExists
<1>2. FlattenSeq(seqs) = f[Len(seqs)]
  BY DEF FlattenSeq, FlattenTo
<1> QED BY <1>1, <1>2

(* flat is the first n elements of seqs one after the other: block and     *)
(* place tell where each element comes from. *)
Laid(seqs, n, flat, block, place) ==
  /\ \A j \in 1 .. Len(flat) :
       /\ block[j] \in 1 .. n /\ place[j] \in 1 .. Len(seqs[block[j]])
       /\ flat[j] = seqs[block[j]][place[j]]
  /\ \A j, k \in 1 .. Len(flat) :
       j < k => block[j] < block[k] \/ (block[j] = block[k] /\ place[j] < place[k])
  /\ \A i \in 1 .. n : \A p \in 1 .. Len(seqs[i]) :
       \E j \in 1 .. Len(flat) : block[j] = i /\ place[j] = p

LaidOut(S, seqs, n, flat) ==
  /\ flat \in Seq(S)
  /\ \E block \in [1 .. Len(flat) -> Nat], place \in [1 .. Len(flat) -> Nat] :
       Laid(seqs, n, flat, block, place)

LEMMA LaidElements ==
  ASSUME NEW S, NEW seqs, NEW n, NEW flat, LaidOut(S, seqs, n, flat),
         NEW i \in 1 .. n, NEW p \in 1 .. Len(seqs[i])
  PROVE  \E k \in 1 .. Len(flat) : flat[k] = seqs[i][p]
<1>1. PICK block \in [1 .. Len(flat) -> Nat], place \in [1 .. Len(flat) -> Nat] :
        Laid(seqs, n, flat, block, place)
  BY DEF LaidOut
<1>2. \A j \in 1 .. Len(flat) : flat[j] = seqs[block[j]][place[j]]
  BY <1>1 DEF Laid
<1>3. \A a \in 1 .. n : \A q \in 1 .. Len(seqs[a]) :
        \E j \in 1 .. Len(flat) : block[j] = a /\ place[j] = q
  BY <1>1 DEF Laid
<1>4. PICK j \in 1 .. Len(flat) : block[j] = i /\ place[j] = p
  <2>1. \E j \in 1 .. Len(flat) : block[j] = i /\ place[j] = p
    BY <1>3, Zenon
  <2> QED BY <2>1
<1> QED BY <1>2, <1>4

LEMMA LaidFirst ==
  ASSUME NEW S, NEW seqs \in Seq(Seq(S)), Len(seqs) >= 1
  PROVE  LaidOut(S, seqs, 1, seqs[1])
<1>1. seqs[1] \in Seq(S)
  OBVIOUS
<1>2. PICK n \in Nat : n = Len(seqs[1])
  BY <1>1
<1> DEFINE block == [j \in 1 .. n |-> 1]
           place == [j \in 1 .. n |-> j]
<1>3. Laid(seqs, 1, seqs[1], block, place)
  BY <1>1, <1>2 DEF Laid
<1>4. block \in [1 .. n -> Nat] /\ place \in [1 .. n -> Nat]
  OBVIOUS
<1> QED BY <1>1, <1>2, <1>3, <1>4 DEF LaidOut

LEMMA LaidNext ==
  ASSUME NEW S, NEW seqs \in Seq(Seq(S)), NEW m \in Nat, m >= 1, m < Len(seqs), NEW flat,
         LaidOut(S, seqs, m, flat)
  PROVE  LaidOut(S, seqs, m + 1, flat \o seqs[m + 1])
<1>1. PICK block \in [1 .. Len(flat) -> Nat], place \in [1 .. Len(flat) -> Nat] :
        Laid(seqs, m, flat, block, place)
  BY DEF LaidOut
<1>2. flat \in Seq(S) /\ seqs[m + 1] \in Seq(S)
  BY DEF LaidOut
<1>3. PICK n \in Nat, e \in Nat : n = Len(flat) /\ e = Len(seqs[m + 1])
  BY <1>2
<1>4. PICK all : all = flat \o seqs[m + 1]
  OBVIOUS
<1>5. /\ all \in Seq(S) /\ Len(all) = n + e
      /\ \A j \in 1 .. n + e : all[j] = IF j <= n THEN flat[j] ELSE seqs[m + 1][j - n]
  BY <1>2, <1>3, <1>4
<1> DEFINE blocks == [j \in 1 .. n + e |-> IF j <= n THEN block[j] ELSE m + 1]
           places == [j \in 1 .. n + e |-> IF j <= n THEN place[j] ELSE j - n]
<1>6. /\ \A j \in 1 .. n : blocks[j] = block[j] /\ places[j] = place[j] /\ all[j] = flat[j]
      /\ \A j \in n + 1 .. n + e : /\ blocks[j] = m + 1 /\ places[j] = j - n
                                   /\ all[j] = seqs[m + 1][j - n]
  <2>1. ASSUME NEW j \in 1 .. n
        PROVE  blocks[j] = block[j] /\ places[j] = place[j] /\ all[j] = flat[j]
    <3>1. j \in 1 .. n + e /\ j <= n
      BY <1>3
    <3> QED BY <3>1, <1>5
  <2>2. ASSUME NEW j \in n + 1 .. n + e
        PROVE  blocks[j] = m + 1 /\ places[j] = j - n /\ all[j] = seqs[m + 1][j - n]
    <3>1. j \in 1 .. n + e /\ ~(j <= n)
      BY <1>3
    <3> QED BY <3>1, <1>5
  <2> QED BY <2>1, <2>2
<1>7. blocks \in [1 .. n + e -> Nat] /\ places \in [1 .. n + e -> Nat]
  BY <1>1, <1>3
<1>8. /\ \A j \in 1 .. n : /\ block[j] \in 1 .. m /\ place[j] \in 1 .. Len(seqs[block[j]])
                           /\ flat[j] = seqs[block[j]][place[j]]
      /\ \A j, k \in 1 .. n :
           j < k => block[j] < block[k] \/ (block[j] = block[k] /\ place[j] < place[k])
      /\ \A i \in 1 .. m : \A p \in 1 .. Len(seqs[i]) :
           \E j \in 1 .. n : block[j] = i /\ place[j] = p
  BY <1>1, <1>3 DEF Laid
<1> HIDE DEF blocks, places
<1>9. \A j \in 1 .. n + e :
        /\ blocks[j] \in 1 .. m + 1 /\ places[j] \in 1 .. Len(seqs[blocks[j]])
        /\ all[j] = seqs[blocks[j]][places[j]]
  <2>1. ASSUME NEW j \in 1 .. n
        PROVE  /\ blocks[j] \in 1 .. m + 1 /\ places[j] \in 1 .. Len(seqs[blocks[j]])
               /\ all[j] = seqs[blocks[j]][places[j]]
    <3>1. blocks[j] = block[j] /\ places[j] = place[j] /\ all[j] = flat[j]
      BY <1>6
    <3>2. /\ block[j] \in 1 .. m /\ place[j] \in 1 .. Len(seqs[block[j]])
          /\ flat[j] = seqs[block[j]][place[j]]
      BY <1>8
    <3>3. block[j] \in 1 .. m + 1
      BY <3>2
    <3> QED BY <3>1, <3>2, <3>3
  <2>2. ASSUME NEW j \in n + 1 .. n + e
        PROVE  /\ blocks[j] \in 1 .. m + 1 /\ places[j] \in 1 .. Len(seqs[blocks[j]])
               /\ all[j] = seqs[blocks[j]][places[j]]
    <3>1. blocks[j] = m + 1 /\ places[j] = j - n /\ all[j] = seqs[m + 1][j - n]
      BY <1>6
    <3>2. m + 1 \in 1 .. m + 1 /\ j - n \in 1 .. e
      BY <1>3
    <3> QED BY <3>1, <3>2, <1>3
  <2>3. \A j \in 1 .. n + e : j \in 1 .. n \/ j \in n + 1 .. n + e
    OBVIOUS
  <2> QED BY <2>1, <2>2, <2>3
<1>10. \A j, k \in 1 .. n + e :
         j < k => blocks[j] < blocks[k] \/ (blocks[j] = blocks[k] /\ places[j] < places[k])
  <2> SUFFICES ASSUME NEW j \in 1 .. n + e, NEW k \in 1 .. n + e, j < k
               PROVE  blocks[j] < blocks[k] \/ (blocks[j] = blocks[k] /\ places[j] < places[k])
    OBVIOUS
  <2>1. CASE k <= n
    <3>1. j \in 1 .. n /\ k \in 1 .. n
      BY <2>1
    <3> QED BY <3>1, <1>6, <1>8
  <2>2. CASE j <= n /\ k > n
    <3>1. j \in 1 .. n /\ k \in n + 1 .. n + e
      BY <2>2
    <3> QED BY <3>1, <1>6, <1>8
  <2>3. CASE j > n
    <3>1. j \in n + 1 .. n + e /\ k \in n + 1 .. n + e
      BY <2>3
    <3> QED BY <3>1, <1>6
  <2> QED BY <2>1, <2>2, <2>3
<1>11. \A i \in 1 .. m + 1 : \A p \in 1 .. Len(seqs[i]) :
         \E j \in 1 .. n + e : blocks[j] = i /\ places[j] = p
  <2> SUFFICES ASSUME NEW i \in 1 .. m + 1, NEW p \in 1 .. Len(seqs[i])
               PROVE  \E j \in 1 .. n + e : blocks[j] = i /\ places[j] = p
    OBVIOUS
  <2>1. CASE i <= m
    <3>1. i \in 1 .. m
      BY <2>1
    <3>2. \E j \in 1 .. n : block[j] = i /\ place[j] = p
      <4>1. \A a \in 1 .. m : \A q \in 1 .. Len(seqs[a]) :
              \E j \in 1 .. n : block[j] = a /\ place[j] = q
        BY <1>8
      <4>2. \A q \in 1 .. Len(seqs[i]) : \E j \in 1 .. n : block[j] = i /\ place[j] = q
        BY <3>1, <4>1, Zenon
      <4> QED BY <4>2
    <3>3. PICK j \in 1 .. n : block[j] = i /\ place[j] = p
      BY <3>2
    <3>4. j \in 1 .. n + e /\ blocks[j] = block[j] /\ places[j] = place[j]
      BY <1>3, <1>6
    <3> QED BY <3>3, <3>4
  <2>2. CASE i = m + 1
    <3>1. p \in 1 .. e /\ n + p \in n + 1 .. n + e
      BY <2>2, <1>3
    <3>2. blocks[n + p] = m + 1 /\ places[n + p] = p
      BY <3>1, <1>6
    <3> QED BY <3>1, <3>2, <2>2
  <2> QED BY <2>1, <2>2
<1>12. Laid(seqs, m + 1, all, blocks, places)
  BY <1>5, <1>9, <1>10, <1>11 DEF Laid
<1>13. LaidOut(S, seqs, m + 1, all)
  BY <1>5, <1>7, <1>12 DEF LaidOut
<1> QED BY <1>13, <1>4

(* FlattenSeq lays out the elements of its elements, in order. *)
LEMMA FlattenLays ==
  ASSUME NEW S, NEW seqs \in Seq(Seq(S))
  PROVE  LaidOut(S, seqs, Len(seqs), FlattenSeq(seqs))
<1>1. CASE seqs = <<>>
  <2>1. FlattenSeq(seqs) = <<>>
    BY <1>1 DEF FlattenSeq
  <2> DEFINE none == [j \in 1 .. 0 |-> 0]
  <2>2. Laid(seqs, 0, <<>>, none, none)
    BY DEF Laid
  <2>3. none \in [1 .. 0 -> Nat] /\ <<>> \in Seq(S) /\ Len(<<>>) = 0
    OBVIOUS
  <2>4. LaidOut(S, seqs, 0, <<>>)
    BY <2>2, <2>3 DEF LaidOut
  <2> QED BY <2>1, <2>4, <1>1
<1>2. CASE seqs # <<>>
  <2>1. PICK f : FlattenTo(seqs, f, Len(seqs)) /\ FlattenSeq(seqs) = f[Len(seqs)]
    BY <1>2, FlattenIs
  <2>2. PICK len \in Nat : len = Len(seqs) /\ len >= 1
    BY <1>2
  <2>3. \A i \in 1 .. len : f[i] = IF i = 1 THEN seqs[i] ELSE f[i - 1] \o seqs[i]
    BY <2>1, <2>2 DEF FlattenTo
  <2> DEFINE bad == {m \in 1 .. len : ~LaidOut(S, seqs, m, f[m])}
  <2>4. bad = {}
    <3>1. SUFFICES ASSUME bad # {} PROVE FALSE
      OBVIOUS
    <3>2. PICK m \in bad : \A j \in bad : m <= j
      <4>1. bad \in SUBSET Nat
        OBVIOUS
      <4> QED BY <3>1, <4>1, LeastNatural
    <3>3. m # 1
      BY LaidFirst, <2>2, <2>3
    <3>4. m - 1 \in 1 .. len /\ m - 1 \in Nat /\ m - 1 >= 1 /\ m - 1 < len /\ m - 1 + 1 = m
      BY <3>3
    <3>5. LaidOut(S, seqs, m - 1, f[m - 1])
      BY <3>2, <3>4
    <3>6. LaidOut(S, seqs, m, f[m - 1] \o seqs[m])
      BY <3>4, <3>5, LaidNext, <2>2
    <3>7. f[m] = f[m - 1] \o seqs[m]
      BY <2>3, <3>3
    <3> QED BY <3>6, <3>7
  <2>5. LaidOut(S, seqs, len, f[len])
    BY <2>4, <2>2
  <2> QED BY <2>1, <2>2, <2>5
<1> QED BY <1>1, <1>2

(* Elements of three elements each: where each of them goes. *)
Threes(seqs, n, flat) ==
  /\ Len(flat) = 3 * n
  /\ \A i \in 1 .. n : \A k \in 1 .. 3 : flat[3 * i + k - 3] = seqs[i][k]

LEMMA ThreesNext ==
  ASSUME NEW S, NEW seqs \in Seq(Seq(S)), NEW m \in Nat,
         NEW flat \in Seq(S), NEW last \in Seq(S), last = seqs[m + 1], Len(last) = 3,
         Threes(seqs, m, flat)
  PROVE  flat \o last \in Seq(S) /\ Threes(seqs, m + 1, flat \o last)
<1> DEFINE n == 3 * m
<1>1. /\ n \in Nat /\ Len(flat) = n
      /\ \A i \in 1 .. m : \A k \in 1 .. 3 : flat[3 * i + k - 3] = seqs[i][k]
  BY DEF Threes
<1>2. PICK both : both = flat \o last
  OBVIOUS
<1> HIDE DEF n
<1>3. both \in Seq(S) /\ Len(both) = n + 3
  <2>1. both \in Seq(S)
    BY <1>2
  <2>2. Len(flat \o last) = Len(flat) + Len(last)
    BY ConcatProperties
  <2> QED BY <2>1, <2>2, <1>1, <1>2
<1>4. ASSUME NEW j \in 1 .. n PROVE both[j] = flat[j]
  BY <1>1, <1>2
<1>5. ASSUME NEW k \in 1 .. 3 PROVE both[n + k] = last[k]
  BY <1>1, <1>2
<1>6. ASSUME NEW i \in 1 .. m + 1, NEW k \in 1 .. 3
      PROVE  both[3 * i + k - 3] = seqs[i][k]
  <2>1. CASE i = m + 1
    <3>1. 3 * i + k - 3 = n + k
      BY <2>1 DEF n
    <3> QED BY <3>1, <1>5, <2>1
  <2>2. CASE i # m + 1
    <3>1. i \in 1 .. m /\ 3 * i + k - 3 \in 1 .. n
      BY <2>2 DEF n
    <3> QED BY <3>1, <1>1, <1>4
  <2> QED BY <2>1, <2>2
<1>7. 3 * (m + 1) = n + 3
  BY DEF n
<1>8. Threes(seqs, m + 1, both)
  BY <1>3, <1>6, <1>7 DEF Threes
<1> QED BY <1>2, <1>3, <1>8

LEMMA FlattenThrees ==
  ASSUME NEW S, NEW seqs \in Seq(Seq(S)), \A i \in 1 .. Len(seqs) : Len(seqs[i]) = 3
  PROVE  Threes(seqs, Len(seqs), FlattenSeq(seqs))
<1>1. CASE seqs = <<>>
  BY <1>1 DEF Threes, FlattenSeq
<1>2. CASE seqs # <<>>
  <2>1. PICK f : FlattenTo(seqs, f, Len(seqs)) /\ FlattenSeq(seqs) = f[Len(seqs)]
    BY <1>2, FlattenIs
  <2>2. PICK len \in Nat : len = Len(seqs) /\ len >= 1
    BY <1>2
  <2>3. \A i \in 1 .. len : f[i] = IF i = 1 THEN seqs[i] ELSE f[i - 1] \o seqs[i]
    BY <2>1, <2>2 DEF FlattenTo
  <2> DEFINE good(m) == f[m] \in Seq(S) /\ Threes(seqs, m, f[m])
             bad == {m \in 1 .. len : ~good(m)}
  <2>4. bad = {}
    <3>1. SUFFICES ASSUME bad # {} PROVE FALSE
      OBVIOUS
    <3>2. PICK m \in bad : \A j \in bad : m <= j
      <4>1. bad \in SUBSET Nat
        OBVIOUS
      <4> QED BY <3>1, <4>1, LeastNatural
    <3>3. seqs[m] \in Seq(S) /\ Len(seqs[m]) = 3 /\ m \in 1 .. len
      BY <3>2, <2>2
    <3>4. m # 1
      <4>1. SUFFICES ASSUME m = 1 PROVE good(m)
        BY <3>2
      <4>2. f[m] = seqs[m]
        BY <2>3, <3>3, <4>1
      <4>3. \A i \in 1 .. m : i = m
        BY <4>1
      <4>4. \A k \in 1 .. 3 : 3 * m + k - 3 = k
        BY <4>1
      <4> QED BY <3>3, <4>1, <4>2, <4>3, <4>4 DEF Threes
    <3>5. m - 1 \in 1 .. len /\ m - 1 \in Nat
      BY <3>4
    <3>6. good(m - 1)
      BY <3>2, <3>5
    <3>7. f[m] = f[m - 1] \o seqs[m]
      BY <2>3, <3>4
    <3>8. f[m - 1] \in Seq(S) /\ Threes(seqs, m - 1, f[m - 1])
      BY <3>6
    <3>9. m - 1 + 1 = m
      BY <3>5
    <3>10. f[m - 1] \o seqs[m] \in Seq(S) /\ Threes(seqs, m, f[m - 1] \o seqs[m])
      BY <3>5, <3>8, <3>9, <3>3, ThreesNext
    <3>11. good(m)
      BY <3>7, <3>10
    <3> QED BY <3>11
  <2>5. Threes(seqs, len, f[len])
    BY <2>4, <2>2
  <2> QED BY <2>1, <2>2, <2>5
<1> QED BY <1>1, <1>2

(***************************************************************************)
(* The objects of a schema, and what the programs of the jobs contain.     *)
(***************************************************************************)
TableNames == {"state", "event"}
IndexTyped == indexes \in Seq([table : TableNames, column : STRING])

Field(i) == ColumnObject(indexes[i].table, indexes[i].column)
FieldIndex(i) == IndexObject(indexes[i].table, indexes[i].column)

LEMMA ObjectShapes ==
  ASSUME NEW t, NEW c
  PROVE  /\ TableObject(t)[1] = "table" /\ TableObject(t)[2] = t
         /\ ColumnObject(t, c)[1] = "column" /\ ColumnObject(t, c)[2] = t
         /\ ColumnObject(t, c)[3] = c
         /\ IndexObject(t, c)[1] = "index" /\ IndexObject(t, c)[2] = t
         /\ IndexObject(t, c)[3] = c
         /\ IndexOn(ColumnObject(t, c)) = IndexObject(t, c)
  BY DEF TableObject, ColumnObject, IndexObject, IndexOn

LEMMA TailShapes ==
  ASSUME NEW t, NEW c, NEW u, NEW d
  PROVE  (Tail(ColumnObject(t, c)) = Tail(IndexObject(u, d))) <=> (t = u /\ c = d)
<1>1. Tail(ColumnObject(t, c)) = <<t, c>>
  BY DEF ColumnObject
<1>2. Tail(IndexObject(u, d)) = <<u, d>>
  BY DEF IndexObject
<1>3. <<t, c>> = <<u, d>> <=> t = u /\ c = d
  OBVIOUS
<1> QED BY <1>1, <1>2, <1>3

LEMMA ObjectsApart ==
  ASSUME NEW t, NEW c, NEW u, NEW d
  PROVE  /\ TableObject(t) # ColumnObject(u, d) /\ TableObject(t) # IndexObject(u, d)
         /\ ColumnObject(t, c) # IndexObject(u, d)
         /\ TableObject(t) = TableObject(u) <=> t = u
         /\ ColumnObject(t, c) = ColumnObject(u, d) <=> t = u /\ c = d
         /\ IndexObject(t, c) = IndexObject(u, d) <=> t = u /\ c = d
  BY DEF TableObject, ColumnObject, IndexObject

LEMMA IndexRecords ==
  ASSUME IndexTyped, NEW i \in DOMAIN indexes
  PROVE  /\ indexes[i].table \in TableNames
         /\ indexes[i] = [table |-> indexes[i].table, column |-> indexes[i].column]
<1>1. i \in 1 .. Len(indexes)
  BY DEF IndexTyped
<1>2. indexes[i] \in [table : TableNames, column : STRING]
  BY <1>1, ElementOfSeq DEF IndexTyped
<1> QED BY <1>2

LEMMA SchemaObjects ==
  ASSUME IndexTyped
  PROVE  /\ \A t \in TableNames : TableObject(t) \in Tables /\ TableObject(t) \in FullSchema
         /\ Tables = {TableObject("state"), TableObject("event")}
         /\ FullSchema = Tables \cup {Field(i) : i \in DOMAIN indexes}
                                \cup {FieldIndex(i) : i \in DOMAIN indexes}
         /\ \A i \in DOMAIN indexes : indexes[i].table \in TableNames
         /\ \A o \in FullSchema : o[2] \in TableNames
<1>1. \A i \in DOMAIN indexes : indexes[i].table \in TableNames
  BY IndexRecords
<1>2. FullSchema = Tables \cup {Field(i) : i \in DOMAIN indexes}
                          \cup {FieldIndex(i) : i \in DOMAIN indexes}
  BY DEF FullSchema, Columns, Indexes, Field, FieldIndex
<1>3. Tables = {TableObject("state"), TableObject("event")}
  BY DEF Tables
<1>4. \A t \in TableNames : TableObject(t) \in Tables /\ TableObject(t) \in FullSchema
  BY <1>2, <1>3 DEF TableNames
<1>5. ASSUME NEW o \in FullSchema PROVE o[2] \in TableNames
  <2>1. CASE o \in Tables
    BY <2>1, <1>3, ObjectShapes DEF TableNames
  <2>2. CASE \E i \in DOMAIN indexes : o = Field(i) \/ o = FieldIndex(i)
    BY <2>2, <1>1, ObjectShapes DEF Field, FieldIndex
  <2> QED BY <2>1, <2>2, <1>2
<1> QED BY <1>1, <1>2, <1>3, <1>4, <1>5

LEMMA ObjectKinds ==
  ASSUME IndexTyped, NEW o \in FullSchema
  PROVE  \/ o[1] = "table" /\ o = TableObject(o[2])
         \/ o[1] = "column" /\ \E i \in DOMAIN indexes : o = Field(i) /\ o[2] = indexes[i].table
         \/ o[1] = "index" /\ \E i \in DOMAIN indexes : o = FieldIndex(i) /\ o[2] = indexes[i].table
<1>1. CASE o \in Tables
  <2>1. PICK t : o = TableObject(t)
    BY <1>1, SchemaObjects
  <2> QED BY <2>1, ObjectShapes
<1>2. CASE \E i \in DOMAIN indexes : o = Field(i)
  <2>1. PICK i \in DOMAIN indexes : o = Field(i)
    BY <1>2
  <2>2. o[1] = "column" /\ o[2] = indexes[i].table
    BY <2>1, ObjectShapes DEF Field
  <2> QED BY <2>1, <2>2
<1>3. CASE \E i \in DOMAIN indexes : o = FieldIndex(i)
  <2>1. PICK i \in DOMAIN indexes : o = FieldIndex(i)
    BY <1>3
  <2>2. o[1] = "index" /\ o[2] = indexes[i].table
    BY <2>1, ObjectShapes DEF FieldIndex
  <2> QED BY <2>1, <2>2
<1> QED BY <1>1, <1>2, <1>3, SchemaObjects

Statements == [op : {"make", "drop", "count", "begin"}, on : FullSchema \cup {<<>>}]

(* An object is a part of the table it is on. *)
LEMMA PartOfTable ==
  ASSUME IndexTyped, NEW o \in FullSchema
  PROVE  PartOf(o, TableObject(o[2]))
  BY ObjectKinds, ObjectShapes DEF PartOf

(* What is part of an object is on the same table. *)
LEMMA PartOnTable ==
  ASSUME IndexTyped, NEW o \in FullSchema, NEW object \in FullSchema, PartOf(o, object)
  PROVE  o[2] = object[2]
<1>1. CASE object[1] = "column" /\ o[1] = "index" /\ Tail(o) = Tail(object)
  <2>1. PICK i \in DOMAIN indexes : object = Field(i) /\ object[2] = indexes[i].table
    BY <1>1, ObjectKinds
  <2>2. PICK j \in DOMAIN indexes : o = FieldIndex(j) /\ o[2] = indexes[j].table
    BY <1>1, ObjectKinds
  <2>3. indexes[i].table = indexes[j].table
    <3>1. Tail(Field(i)) = Tail(FieldIndex(j))
      <4>1. o = FieldIndex(j) /\ object = Field(i)
        BY <2>1, <2>2
      <4>2. Tail(o) = Tail(object)
        BY <1>1
      <4> QED BY <4>1, <4>2, Zenon
    <3>2. PICK t, c, u, d : /\ t = indexes[i].table /\ c = indexes[i].column
                            /\ u = indexes[j].table /\ d = indexes[j].column
      OBVIOUS
    <3>3. Tail(ColumnObject(t, c)) = Tail(IndexObject(u, d))
      BY <3>1, <3>2 DEF Field, FieldIndex
    <3>4. (Tail(ColumnObject(t, c)) = Tail(IndexObject(u, d))) <=> (t = u /\ c = d)
      BY TailShapes
    <3>5. t = u
      BY <3>3, <3>4, Zenon
    <3> QED BY <3>2, <3>5
  <2> QED BY <2>1, <2>2, <2>3
<1> QED BY <1>1 DEF PartOf

LEMMA StatementShapes ==
  ASSUME NEW o
  PROVE  /\ Make(o).op = "make" /\ Make(o).on = o /\ Drop(o).op = "drop" /\ Drop(o).on = o
         /\ Count(o).op = "count" /\ Count(o).on = o /\ BeginTx.op = "begin"
         /\ o \in FullSchema => {Make(o), Drop(o), Count(o)} \subseteq Statements
         /\ BeginTx \in Statements
  BY DEF Make, Drop, Count, BeginTx, Statements

(***************************************************************************)
(* OfTable: the columns of a table, all of them and in order.              *)
(***************************************************************************)
Listed(t) ==
  /\ OfTable(t) \in Seq(Columns)
  /\ \A j \in DOMAIN OfTable(t) : \E i \in DOMAIN indexes : indexes[i].table = t /\ OfTable(t)[j] = Field(i)
  /\ \A i \in DOMAIN indexes :
       indexes[i].table = t => \E j \in DOMAIN OfTable(t) : OfTable(t)[j] = Field(i)
  /\ OwnColumns => \A j, k \in DOMAIN OfTable(t) : j < k => OfTable(t)[j] # OfTable(t)[k]

LEMMA FieldsDiffer ==
  ASSUME IndexTyped, OwnColumns, NEW i \in DOMAIN indexes, NEW j \in DOMAIN indexes,
         Field(i) = Field(j) \/ FieldIndex(i) = FieldIndex(j)
  PROVE  i = j
<1>1. indexes[i].table = indexes[j].table /\ indexes[i].column = indexes[j].column
  BY ObjectsApart DEF Field, FieldIndex
<1>2. indexes[i] = indexes[j]
  BY <1>1, IndexRecords
<1> QED BY <1>2 DEF OwnColumns

LEMMA TablesListed ==
  ASSUME IndexTyped, NEW t
  PROVE  Listed(t)
<1> DEFINE seqs == [i \in DOMAIN indexes |->
                      IF indexes[i].table = t THEN <<ColumnObject(t, indexes[i].column)>> ELSE <<>>]
<1>1. PICK n \in Nat : n = Len(indexes) /\ DOMAIN indexes = 1 .. n
  BY DEF IndexTyped
<1>2. \A i \in 1 .. n : /\ indexes[i].table = t => seqs[i] = <<Field(i)>>
                        /\ indexes[i].table # t => seqs[i] = <<>>
                        /\ Field(i) \in Columns
  BY <1>1 DEF Field, Columns
<1>3. ASSUME NEW i \in 1 .. n PROVE seqs[i] \in Seq(Columns)
  <2>1. CASE indexes[i].table = t
    <3>1. seqs[i] = <<Field(i)>> /\ Field(i) \in Columns
      BY <1>2, <2>1
    <3>2. PICK x \in Columns : seqs[i] = <<x>>
      BY <3>1
    <3> HIDE DEF seqs
    <3>3. <<x>> \in Seq(Columns)
      OBVIOUS
    <3> QED BY <3>2, <3>3
  <2>2. CASE indexes[i].table # t
    <3>1. seqs[i] = <<>>
      BY <1>2, <2>2
    <3> HIDE DEF seqs
    <3> QED BY <3>1, EmptySeq
  <2> QED BY <2>1, <2>2
<1>4. seqs \in Seq(Seq(Columns)) /\ Len(seqs) = n
  <2>1. seqs \in [1 .. n -> Seq(Columns)]
    BY <1>1, <1>3
  <2> QED BY <2>1
<1>5. OfTable(t) = FlattenSeq(seqs)
  BY DEF OfTable
<1> HIDE DEF seqs
<1>6. LaidOut(Columns, seqs, n, OfTable(t))
  BY <1>4, <1>5, FlattenLays
<1>7. PICK flat : flat = OfTable(t)
  OBVIOUS
<1>8. flat \in Seq(Columns)
  BY <1>6, <1>7 DEF LaidOut
<1>9. PICK block \in [1 .. Len(flat) -> Nat], place \in [1 .. Len(flat) -> Nat] :
        Laid(seqs, n, flat, block, place)
  BY <1>6, <1>7 DEF LaidOut
<1>10. PICK m \in Nat : m = Len(flat) /\ DOMAIN flat = 1 .. m
  BY <1>8
<1>11. ASSUME NEW j \in 1 .. m
       PROVE  /\ block[j] \in 1 .. n /\ indexes[block[j]].table = t
              /\ place[j] = 1 /\ flat[j] = Field(block[j])
  <2>1. /\ block[j] \in 1 .. n /\ place[j] \in 1 .. Len(seqs[block[j]])
        /\ flat[j] = seqs[block[j]][place[j]]
    BY <1>9, <1>10 DEF Laid
  <2>2. indexes[block[j]].table = t
    BY <2>1, <1>2
  <2>3. seqs[block[j]] = <<Field(block[j])>>
    BY <2>1, <2>2, <1>2
  <2>4. place[j] = 1
    BY <2>1, <2>3
  <2> QED BY <2>1, <2>2, <2>3, <2>4
<1>12. ASSUME NEW i \in 1 .. n, indexes[i].table = t
       PROVE  \E j \in 1 .. m : flat[j] = Field(i)
  <2>1. seqs[i] = <<Field(i)>>
    BY <1>2, <1>12
  <2>2. 1 \in 1 .. Len(seqs[i])
    BY <2>1
  <2>3. PICK j \in 1 .. m : block[j] = i /\ place[j] = 1
    BY <2>2, <1>9, <1>10 DEF Laid
  <2> QED BY <2>3, <1>11
<1>13. ASSUME OwnColumns, NEW j \in 1 .. m, NEW k \in 1 .. m, j < k
       PROVE  flat[j] # flat[k]
  <2>1. block[j] < block[k] \/ (block[j] = block[k] /\ place[j] < place[k])
    BY <1>9, <1>10, <1>13 DEF Laid
  <2>2. block[j] # block[k]
    BY <2>1, <1>11
  <2> QED BY <2>2, <1>11, <1>13, <1>1, FieldsDiffer
<1>14. /\ flat \in Seq(Columns)
       /\ \A j \in DOMAIN flat : \E i \in DOMAIN indexes : indexes[i].table = t /\ flat[j] = Field(i)
       /\ \A i \in DOMAIN indexes :
            indexes[i].table = t => \E j \in DOMAIN flat : flat[j] = Field(i)
       /\ OwnColumns => \A j, k \in DOMAIN flat : j < k => flat[j] # flat[k]
  BY <1>1, <1>8, <1>10, <1>11, <1>12, <1>13
<1> QED BY <1>7, <1>14 DEF Listed

(* Items: the tables and columns, each table before its columns, and the   *)
(* event table after everything of the state table. *)
ItemsListed ==
  /\ Items \in Seq(Tables \cup Columns)
  /\ \A o \in Tables \cup Columns : \E j \in DOMAIN Items : Items[j] = o
  /\ \A j, k \in DOMAIN Items : j < k =>
       /\ Items[k] # TableObject("state")
       /\ Items[k] = TableObject("event") => Items[j][2] = "state"
       /\ OwnColumns => Items[j] # Items[k]

LEMMA ItemsInOrder ==
  ASSUME IndexTyped
  PROVE  ItemsListed
<1> DEFINE S == Tables \cup Columns
<1>1. PICK s : s = OfTable("state")
  OBVIOUS
<1>2. PICK e : e = OfTable("event")
  OBVIOUS
<1>3. s \in Seq(S) /\ e \in Seq(S)
  <2>1. s \in Seq(Columns) /\ e \in Seq(Columns)
    BY TablesListed, <1>1, <1>2 DEF Listed
  <2> QED BY <2>1, SeqMonotonic
<1>4. PICK n \in Nat, m \in Nat : n = Len(s) /\ m = Len(e)
  BY <1>3
<1>5. DOMAIN s = 1 .. n /\ DOMAIN e = 1 .. m
  BY <1>3, <1>4
<1>6. /\ \A j \in 1 .. n : \E i \in DOMAIN indexes : indexes[i].table = "state" /\ s[j] = Field(i)
      /\ \A j \in 1 .. m : \E i \in DOMAIN indexes : indexes[i].table = "event" /\ e[j] = Field(i)
      /\ \A i \in DOMAIN indexes : indexes[i].table = "state" => \E j \in 1 .. n : s[j] = Field(i)
      /\ \A i \in DOMAIN indexes : indexes[i].table = "event" => \E j \in 1 .. m : e[j] = Field(i)
      /\ OwnColumns => \A j, k \in 1 .. n : j < k => s[j] # s[k]
      /\ OwnColumns => \A j, k \in 1 .. m : j < k => e[j] # e[k]
  BY TablesListed, <1>1, <1>2, <1>5 DEF Listed
<1>7. PICK st, et : st = TableObject("state") /\ et = TableObject("event")
  OBVIOUS
<1>8. /\ st \in S /\ et \in S /\ st # et /\ st[2] = "state" /\ et[2] = "event" /\ Tables = {st, et}
  BY <1>7, ObjectsApart, ObjectShapes DEF Tables
<1>9. \A i \in DOMAIN indexes : Field(i) # st /\ Field(i) # et /\ Field(i)[2] = indexes[i].table
  BY <1>7, ObjectsApart, ObjectShapes DEF Field
<1>10. PICK items : items = Items
  OBVIOUS
<1>11. items = <<st>> \o s \o <<et>> \o e
  BY <1>10, <1>7, <1>1, <1>2 DEF Items
<1>12. /\ items \in Seq(S) /\ DOMAIN items = 1 .. n + m + 2
       /\ items[1] = st /\ items[n + 2] = et
       /\ \A j \in 1 .. n : items[j + 1] = s[j]
       /\ \A j \in 1 .. m : items[j + n + 2] = e[j]
  <2> HIDE DEF S
  <2>1. <<st>> \in Seq(S) /\ <<et>> \in Seq(S)
    BY <1>8
  <2>2. PICK a : a = <<st>> \o s
    OBVIOUS
  <2>3. /\ a \in Seq(S) /\ Len(a) = n + 1 /\ a[1] = st /\ \A j \in 1 .. n : a[j + 1] = s[j]
    BY <1>3, <1>4, <2>1, <2>2
  <2>4. PICK b : b = a \o <<et>>
    OBVIOUS
  <2>5. /\ b \in Seq(S) /\ Len(b) = n + 2 /\ b[1] = st /\ b[n + 2] = et
        /\ \A j \in 1 .. n : b[j + 1] = s[j]
    BY <2>1, <2>3, <2>4
  <2>6. items = b \o e
    BY <1>11, <2>2, <2>4
  <2>7. items \in Seq(S) /\ Len(items) = n + m + 2
    <3>1. items \in Seq(S) /\ Len(items) = Len(b) + Len(e)
      BY <1>3, <2>5, <2>6, ConcatProperties
    <3> QED BY <3>1, <1>4, <2>5
  <2>8. items[1] = st /\ items[n + 2] = et
    BY <1>3, <2>5, <2>6
  <2>9. ASSUME NEW j \in 1 .. n PROVE items[j + 1] = s[j]
    BY <1>3, <2>5, <2>6
  <2>10. ASSUME NEW j \in 1 .. m PROVE items[j + n + 2] = e[j]
    <3>1. PICK k : k = j + n + 2
      OBVIOUS
    <3>2. k \in 1 .. Len(b) + Len(e) /\ ~(k <= Len(b)) /\ k - Len(b) = j
      BY <3>1, <1>4, <2>5
    <3>3. \A i \in 1 .. Len(b) + Len(e) : (b \o e)[i] = IF i <= Len(b) THEN b[i] ELSE e[i - Len(b)]
      BY <1>3, <2>5, ConcatProperties
    <3>4. (b \o e)[k] = e[j]
      BY <3>2, <3>3
    <3> QED BY <3>1, <3>4, <2>6
  <2> QED BY <2>7, <2>8, <2>9, <2>10
<1>13. \A j \in 1 .. n + m + 2 : \/ j = 1 \/ j = n + 2
                                 \/ j - 1 \in 1 .. n /\ j > 1 /\ j < n + 2
                                 \/ j - n - 2 \in 1 .. m /\ j > n + 2
  OBVIOUS
<1>14. \A o \in S : \E j \in 1 .. n + m + 2 : items[j] = o
  <2> SUFFICES ASSUME NEW o \in S PROVE \E j \in 1 .. n + m + 2 : items[j] = o
    OBVIOUS
  <2>1. CASE o = st \/ o = et
    <3>1. 1 \in 1 .. n + m + 2 /\ n + 2 \in 1 .. n + m + 2
      OBVIOUS
    <3> QED BY <2>1, <3>1, <1>12
  <2>2. CASE o \in Columns
    <3>1. PICK i \in DOMAIN indexes : o = Field(i)
      BY <2>2 DEF Columns, Field
    <3>2. CASE indexes[i].table = "state"
      <4>1. PICK j \in 1 .. n : s[j] = Field(i)
        BY <1>6, <3>2
      <4>2. j + 1 \in 1 .. n + m + 2 /\ items[j + 1] = s[j]
        BY <1>12
      <4> QED BY <3>1, <4>1, <4>2
    <3>3. CASE indexes[i].table = "event"
      <4>1. PICK j \in 1 .. m : e[j] = Field(i)
        BY <1>6, <3>3
      <4>2. j + n + 2 \in 1 .. n + m + 2 /\ items[j + n + 2] = e[j]
        BY <1>12
      <4> QED BY <3>1, <4>1, <4>2
    <3> QED BY <3>2, <3>3, IndexRecords DEF TableNames
  <2> QED BY <2>1, <2>2, <1>8
<1>15. \A j \in 1 .. n + m + 2 :
         /\ j < n + 2 => items[j][2] = "state"
         /\ j > n + 2 => items[j][2] = "event" /\ items[j] # et
         /\ j # n + 2 => items[j] # et
         /\ j > 1 => items[j] # st
  <2> SUFFICES ASSUME NEW j \in 1 .. n + m + 2
               PROVE  /\ j < n + 2 => items[j][2] = "state"
                      /\ j > n + 2 => items[j][2] = "event" /\ items[j] # et
                      /\ j # n + 2 => items[j] # et
                      /\ j > 1 => items[j] # st
    OBVIOUS
  <2>1. CASE j = 1
    BY <2>1, <1>8, <1>12
  <2>2. CASE j = n + 2
    BY <2>2, <1>8, <1>12
  <2>3. CASE j - 1 \in 1 .. n /\ j > 1 /\ j < n + 2
    <3>1. PICK i \in DOMAIN indexes : indexes[i].table = "state" /\ s[j - 1] = Field(i)
      BY <1>6, <2>3
    <3>2. items[j] = s[j - 1]
      <4>1. items[j - 1 + 1] = s[j - 1]
        BY <1>12, <2>3
      <4>2. j - 1 + 1 = j
        OBVIOUS
      <4> QED BY <4>1, <4>2
    <3>3. items[j] # et /\ items[j] # st /\ items[j][2] = "state"
      BY <3>1, <3>2, <1>9
    <3> QED BY <3>3, <2>3
  <2>4. CASE j - n - 2 \in 1 .. m /\ j > n + 2
    <3>1. PICK i \in DOMAIN indexes : indexes[i].table = "event" /\ e[j - n - 2] = Field(i)
      BY <1>6, <2>4
    <3>2. items[j] = e[j - n - 2]
      <4>1. items[j - n - 2 + n + 2] = e[j - n - 2]
        BY <1>12, <2>4
      <4>2. j - n - 2 + n + 2 = j
        OBVIOUS
      <4> QED BY <4>1, <4>2
    <3>3. items[j] # et /\ items[j] # st /\ items[j][2] = "event"
      BY <3>1, <3>2, <1>9
    <3> QED BY <3>3, <2>4
  <2> QED BY <2>1, <2>2, <2>3, <2>4, <1>13
<1>16. ASSUME OwnColumns, NEW j \in 1 .. n + m + 2, NEW k \in 1 .. n + m + 2, j < k
       PROVE  items[j] # items[k]
  <2>1. CASE j = 1 \/ k = n + 2 \/ j = n + 2
    BY <2>1, <1>12, <1>15, <1>16
  <2>2. CASE j < n + 2 /\ k > n + 2
    BY <2>2, <1>15
  <2>3. CASE j > 1 /\ k < n + 2
    <3>1. j - 1 \in 1 .. n /\ k - 1 \in 1 .. n /\ j - 1 < k - 1 /\ j - 1 + 1 = j /\ k - 1 + 1 = k
      BY <2>3, <1>16
    <3>2. s[j - 1] # s[k - 1]
      BY <3>1, <1>6, <1>16
    <3>3. items[j - 1 + 1] = s[j - 1] /\ items[k - 1 + 1] = s[k - 1]
      BY <3>1, <1>12
    <3> QED BY <3>1, <3>2, <3>3
  <2>4. CASE j > n + 2
    <3>1. PICK a, b : a = j - n - 2 /\ b = k - n - 2
      OBVIOUS
    <3>2. a \in 1 .. m /\ b \in 1 .. m /\ a < b /\ a + n + 2 = j /\ b + n + 2 = k
      BY <2>4, <1>16, <3>1
    <3>3. e[a] # e[b]
      BY <3>2, <1>6, <1>16
    <3>4. items[a + n + 2] = e[a] /\ items[b + n + 2] = e[b]
      BY <3>2, <1>12
    <3> QED BY <3>2, <3>3, <3>4
  <2> QED BY <2>1, <2>2, <2>3, <2>4, <1>16
<1>17. /\ items \in Seq(S)
       /\ \A o \in S : \E j \in DOMAIN items : items[j] = o
       /\ \A j, k \in DOMAIN items : j < k =>
            /\ items[k] # st
            /\ items[k] = et => items[j][2] = "state"
            /\ OwnColumns => items[j] # items[k]
  <2>1. ASSUME NEW j \in 1 .. n + m + 2, NEW k \in 1 .. n + m + 2, j < k
        PROVE  /\ items[k] # st
               /\ items[k] = et => items[j][2] = "state"
               /\ OwnColumns => items[j] # items[k]
    <3>1. k > 1 /\ (k = n + 2 => j < n + 2)
      BY <2>1
    <3> QED BY <2>1, <3>1, <1>15, <1>16
  <2> QED BY <2>1, <1>12, <1>14
<1> QED BY <1>7, <1>10, <1>17 DEF ItemsListed

(* The objects that an item is about. *)
ItemObject(o, item) == o = item \/ (item[1] = "column" /\ o = IndexOn(item))

LEMMA ItemKinds ==
  ASSUME IndexTyped, NEW item \in Tables \cup Columns
  PROVE  \/ /\ item \in Tables /\ ToSQL(item) = <<Make(item)>> /\ DownSQL(item) = <<Drop(item)>>
            /\ item[1] = "table"
         \/ \E i \in DOMAIN indexes :
              /\ item = Field(i) /\ IndexOn(item) = FieldIndex(i) /\ item[1] = "column"
              /\ ToSQL(item) = <<Make(Field(i)), Make(FieldIndex(i))>>
              /\ DownSQL(item) = <<Drop(FieldIndex(i)), Drop(Field(i))>>
<1>1. CASE item \in Tables
  <2>1. PICK t : item = TableObject(t)
    BY <1>1 DEF Tables
  <2>2. item[1] = "table"
    BY <2>1, ObjectShapes
  <2> QED BY <1>1, <2>2 DEF ToSQL, DownSQL
<1>2. CASE item \in Columns
  <2>1. PICK i \in DOMAIN indexes : item = Field(i)
    BY <1>2 DEF Columns, Field
  <2>2. item[1] = "column" /\ IndexOn(item) = FieldIndex(i)
    BY <2>1, ObjectShapes DEF Field, FieldIndex
  <2> QED BY <2>1, <2>2 DEF ToSQL, DownSQL
<1> QED BY <1>1, <1>2

LEMMA ItemObjects ==
  ASSUME IndexTyped, NEW o \in FullSchema
  PROVE  \E item \in Tables \cup Columns : ItemObject(o, item)
<1>1. CASE o \in Tables \cup Columns
  BY <1>1 DEF ItemObject
<1>2. CASE o \in Indexes
  <2>1. PICK i \in DOMAIN indexes : o = FieldIndex(i)
    BY <1>2 DEF Indexes, FieldIndex
  <2>2. Field(i) \in Columns
    BY DEF Columns, Field
  <2>3. IndexOn(Field(i)) = o /\ Field(i)[1] = "column"
    BY <2>1, ObjectShapes DEF Field, FieldIndex
  <2> QED BY <2>2, <2>3 DEF ItemObject
<1> QED BY <1>1, <1>2 DEF FullSchema

Makes == {Make(o) : o \in FullSchema}
Drops == {Drop(o) : o \in FullSchema}

(* The statements of an item make or drop its objects. *)
LEMMA ItemStatements ==
  ASSUME IndexTyped, NEW item \in Tables \cup Columns
  PROVE  /\ ToSQL(item) \in Seq(Makes) /\ DownSQL(item) \in Seq(Drops)
         /\ \A p \in 1 .. Len(DownSQL(item)) : ItemObject(DownSQL(item)[p].on, item)
         /\ \A o \in FullSchema : ItemObject(o, item) =>
              /\ \E p \in 1 .. Len(ToSQL(item)) : ToSQL(item)[p] = Make(o)
              /\ \E p \in 1 .. Len(DownSQL(item)) : DownSQL(item)[p] = Drop(o)
<1>1. CASE item \in Tables /\ ToSQL(item) = <<Make(item)>> /\ DownSQL(item) = <<Drop(item)>>
           /\ item[1] = "table"
  <2>1. item \in FullSchema
    BY <1>1 DEF FullSchema
  <2>2. PICK x \in Makes, y \in Drops : x = Make(item) /\ y = Drop(item)
    BY <2>1 DEF Makes, Drops
  <2>3. <<x>> \in Seq(Makes) /\ <<y>> \in Seq(Drops)
    OBVIOUS
  <2>4. \A o : ItemObject(o, item) => o = item
    BY <1>1 DEF ItemObject
  <2>5. \A p \in 1 .. Len(<<y>>) : <<y>>[p] = y
    OBVIOUS
  <2>6. y.on = item /\ ItemObject(item, item)
    BY <2>2, StatementShapes DEF ItemObject
  <2>7. 1 \in 1 .. Len(<<x>>) /\ 1 \in 1 .. Len(<<y>>) /\ <<x>>[1] = x /\ <<y>>[1] = y
    OBVIOUS
  <2>8. ToSQL(item) = <<x>> /\ DownSQL(item) = <<y>>
    BY <1>1, <2>2
  <2> QED BY <2>2, <2>3, <2>4, <2>5, <2>6, <2>7, <2>8
<1>2. ASSUME NEW i \in DOMAIN indexes, item = Field(i), IndexOn(item) = FieldIndex(i),
             item[1] = "column", ToSQL(item) = <<Make(Field(i)), Make(FieldIndex(i))>>,
             DownSQL(item) = <<Drop(FieldIndex(i)), Drop(Field(i))>>
      PROVE  /\ ToSQL(item) \in Seq(Makes) /\ DownSQL(item) \in Seq(Drops)
             /\ \A p \in 1 .. Len(DownSQL(item)) : ItemObject(DownSQL(item)[p].on, item)
             /\ \A o \in FullSchema : ItemObject(o, item) =>
                  /\ \E p \in 1 .. Len(ToSQL(item)) : ToSQL(item)[p] = Make(o)
                  /\ \E p \in 1 .. Len(DownSQL(item)) : DownSQL(item)[p] = Drop(o)
  <2>1. Field(i) \in FullSchema /\ FieldIndex(i) \in FullSchema
    BY SchemaObjects
  <2>2. PICK x \in Makes, z \in Makes : x = Make(Field(i)) /\ z = Make(FieldIndex(i))
    BY <2>1 DEF Makes
  <2>3. PICK y \in Drops, w \in Drops : y = Drop(FieldIndex(i)) /\ w = Drop(Field(i))
    BY <2>1 DEF Drops
  <2>4. <<x, z>> \in Seq(Makes) /\ <<y, w>> \in Seq(Drops)
    OBVIOUS
  <2>5. \A o : ItemObject(o, item) <=> o \in {Field(i), FieldIndex(i)}
    BY <1>2 DEF ItemObject
  <2>6. \A p \in 1 .. Len(<<y, w>>) : <<y, w>>[p] \in {y, w}
    OBVIOUS
  <2>7. y.on = FieldIndex(i) /\ w.on = Field(i)
    BY <2>3, StatementShapes
  <2>8. /\ 1 \in 1 .. Len(<<x, z>>) /\ 2 \in 1 .. Len(<<x, z>>)
        /\ 1 \in 1 .. Len(<<y, w>>) /\ 2 \in 1 .. Len(<<y, w>>)
        /\ <<x, z>>[1] = x /\ <<x, z>>[2] = z /\ <<y, w>>[1] = y /\ <<y, w>>[2] = w
    OBVIOUS
  <2>9. ToSQL(item) = <<x, z>> /\ DownSQL(item) = <<y, w>>
    BY <1>2, <2>2, <2>3
  <2>10. \A p \in 1 .. Len(DownSQL(item)) : ItemObject(DownSQL(item)[p].on, item)
    <3> SUFFICES ASSUME NEW p \in 1 .. Len(<<y, w>>) PROVE ItemObject(<<y, w>>[p].on, item)
      BY <2>9
    <3> QED BY <2>5, <2>6, <2>7
  <2>11. ASSUME NEW o \in FullSchema, ItemObject(o, item)
         PROVE  /\ \E p \in 1 .. Len(ToSQL(item)) : ToSQL(item)[p] = Make(o)
                /\ \E p \in 1 .. Len(DownSQL(item)) : DownSQL(item)[p] = Drop(o)
    BY <2>2, <2>3, <2>5, <2>8, <2>9, <2>11
  <2> QED BY <2>4, <2>9, <2>10, <2>11
<1> QED BY <1>1, <1>2, ItemKinds

(***************************************************************************)
(* UpProgram makes every object.                                           *)
(***************************************************************************)
UpMakes ==
  /\ UpProgram \in Seq(Makes)
  /\ \A o \in FullSchema : \E k \in DOMAIN UpProgram : UpProgram[k] = Make(o)

LEMMA UpMakesAll ==
  ASSUME IndexTyped
  PROVE  UpMakes
<1>1. ItemsListed
  BY ItemsInOrder
<1>2. PICK n \in Nat : n = Len(Items) /\ DOMAIN Items = 1 .. n
  BY <1>1 DEF ItemsListed
<1> DEFINE seqs == [i \in DOMAIN Items |-> ToSQL(Items[i])]
<1>3. \A i \in 1 .. n : Items[i] \in Tables \cup Columns /\ seqs[i] = ToSQL(Items[i])
  <2>1. Items \in Seq(Tables \cup Columns)
    BY <1>1 DEF ItemsListed
  <2> QED BY <2>1, <1>2, ElementOfSeq
<1>4. seqs \in Seq(Seq(Makes)) /\ Len(seqs) = n
  <2>1. seqs \in [1 .. n -> Seq(Makes)]
    BY <1>2, <1>3, ItemStatements
  <2> QED BY <2>1
<1>5. UpProgram = FlattenSeq(seqs)
  BY DEF UpProgram
<1> HIDE DEF seqs
<1>6. LaidOut(Makes, seqs, n, UpProgram)
  BY <1>4, <1>5, FlattenLays
<1>7. UpProgram \in Seq(Makes)
  BY <1>6 DEF LaidOut
<1>8. ASSUME NEW o \in FullSchema PROVE \E k \in DOMAIN UpProgram : UpProgram[k] = Make(o)
  <2>1. PICK item \in Tables \cup Columns : ItemObject(o, item)
    BY ItemObjects
  <2>2. PICK i \in 1 .. n : Items[i] = item
    BY <1>1, <1>2 DEF ItemsListed
  <2>3. PICK p \in 1 .. Len(ToSQL(item)) : ToSQL(item)[p] = Make(o)
    BY <2>1, ItemStatements
  <2>4. seqs[i] = ToSQL(item)
    BY <2>2, <1>3
  <2>5. p \in 1 .. Len(seqs[i])
    BY <2>4
  <2>6. PICK k \in 1 .. Len(UpProgram) : UpProgram[k] = seqs[i][p]
    BY <1>6, <2>5, LaidElements
  <2>7. UpProgram[k] = Make(o)
    BY <2>3, <2>4, <2>6
  <2> QED BY <2>7, <1>7
<1> QED BY <1>7, <1>8 DEF UpMakes

(* The objects of a later item are no part of those of an earlier one. *)
LEMMA ItemsApart ==
  ASSUME IndexTyped, NEW item \in Tables \cup Columns, NEW later \in Tables \cup Columns,
         item # later, later # TableObject("state"),
         later = TableObject("event") => item[2] = "state",
         NEW o \in FullSchema, ItemObject(o, item),
         NEW object \in FullSchema, ItemObject(object, later)
  PROVE  ~PartOf(o, object)
<1>1. SUFFICES ASSUME PartOf(o, object) PROVE FALSE
  OBVIOUS
<1>2. o[2] = item[2]
  BY ItemKinds, ObjectShapes DEF ItemObject, Field, FieldIndex
<1>3. CASE later \in Tables
  <2>1. later = TableObject("event")
    BY <1>3 DEF Tables
  <2>2. object = later /\ object[2] = "event"
    BY <2>1, ObjectShapes DEF ItemObject
  <2>3. o[2] = "event"
    BY <1>1, <2>2, PartOnTable
  <2> QED BY <2>1, <2>3, <1>2
<1>4. CASE later \in Columns
  <2>1. PICK i \in DOMAIN indexes : later = Field(i) /\ IndexOn(later) = FieldIndex(i)
    BY <1>4, ObjectShapes DEF Columns, Field, FieldIndex
  <2>2. object \in {Field(i), FieldIndex(i)}
    BY <2>1 DEF ItemObject
  <2>3. item \notin Columns => o = item /\ item \in Tables
    <3>1. ASSUME item \in Tables PROVE item[1] = "table"
      <4>1. PICK t : item = TableObject(t)
        BY <3>1 DEF Tables
      <4> QED BY <4>1, ObjectShapes
    <3> QED BY <3>1 DEF ItemObject
  <2>4. CASE item \in Tables
    <3>1. o = item /\ item[1] = "table"
      <4>1. PICK t : item = TableObject(t)
        BY <2>4 DEF Tables
      <4> QED BY <4>1, ObjectShapes DEF ItemObject
    <3>2. o # object /\ object[1] # "table"
      BY <2>2, <3>1, ObjectShapes DEF Field, FieldIndex
    <3> QED BY <1>1, <3>1, <3>2 DEF PartOf
  <2>5. CASE item \in Columns
    <3>1. PICK j \in DOMAIN indexes : item = Field(j) /\ IndexOn(item) = FieldIndex(j)
      BY <2>5, ObjectShapes DEF Columns, Field, FieldIndex
    <3>2. o \in {Field(j), FieldIndex(j)}
      BY <3>1 DEF ItemObject
    <3>3. Field(i) # Field(j)
      BY <2>1, <3>1
    <3>4. ~(indexes[i].table = indexes[j].table /\ indexes[i].column = indexes[j].column)
      BY <3>3 DEF Field
    <3>5. o # object
      BY <3>2, <2>2, <3>4, ObjectsApart DEF Field, FieldIndex
    <3>6. object[1] # "table"
      BY <2>2, ObjectShapes DEF Field, FieldIndex
    <3>7. object[1] = "column" /\ o[1] = "index" /\ Tail(o) = Tail(object)
      BY <1>1, <3>5, <3>6 DEF PartOf
    <3>8. object = Field(i) /\ o = FieldIndex(j)
      BY <2>2, <3>2, <3>7, ObjectShapes DEF Field, FieldIndex
    <3>9. Tail(Field(i)) = Tail(FieldIndex(j))
      BY <3>7, <3>8, Zenon
    <3>10. Tail(Field(i)) = Tail(FieldIndex(j))
             <=> (indexes[i].table = indexes[j].table /\ indexes[i].column = indexes[j].column)
      <4> DEFINE t == indexes[i].table
                 c == indexes[i].column
                 u == indexes[j].table
                 d == indexes[j].column
      <4>1. (Tail(ColumnObject(t, c)) = Tail(IndexObject(u, d))) <=> (t = u /\ c = d)
        BY TailShapes
      <4> QED BY <4>1 DEF Field, FieldIndex
    <3> QED BY <3>4, <3>9, <3>10
  <2> QED BY <2>4, <2>5
<1> QED BY <1>3, <1>4

LEMMA FieldNoPart ==
  ASSUME NEW i, NEW o, o = Field(i)
  PROVE  ~PartOf(o, FieldIndex(i))
<1>1. Field(i) # FieldIndex(i)
  BY ObjectsApart DEF Field, FieldIndex
<1>2. FieldIndex(i)[1] = "index"
  BY ObjectShapes DEF FieldIndex
<1> QED BY <1>1, <1>2 DEF PartOf

(***************************************************************************)
(* DownProgram drops both tables, the event table first; and nothing that  *)
(* went with something else.                                               *)
(***************************************************************************)
DownDrops ==
  /\ DownProgram \in Seq(Drops)
  /\ \A t \in TableNames : \E k \in DOMAIN DownProgram : DownProgram[k] = Drop(TableObject(t))
  /\ \A k, l \in DOMAIN DownProgram :
       DownProgram[k].on = TableObject("event") /\ DownProgram[l].on = TableObject("state") => k < l
  /\ OwnColumns => \A k, l \in DOMAIN DownProgram :
       k < l => ~PartOf(DownProgram[l].on, DownProgram[k].on)

LEMMA DownDropsAll ==
  ASSUME IndexTyped
  PROVE  DownDrops
<1>1. ItemsListed
  BY ItemsInOrder
<1>2. PICK n \in Nat : n = Len(Items) /\ DOMAIN Items = 1 .. n
  BY <1>1 DEF ItemsListed
<1>3. PICK items : items = Reverse(Items)
  OBVIOUS
<1>4. DOMAIN items = 1 .. n /\ \A i \in 1 .. n : n - i + 1 \in 1 .. n /\ items[i] = Items[n - i + 1]
  BY <1>2, <1>3 DEF Reverse
<1>5. \A i \in 1 .. n : items[i] \in Tables \cup Columns
  <2>1. Items \in Seq(Tables \cup Columns)
    BY <1>1 DEF ItemsListed
  <2>2. \A i \in 1 .. n : Items[i] \in Tables \cup Columns
    BY <2>1, <1>2, ElementOfSeq
  <2> QED BY <2>2, <1>4
<1>6. ASSUME NEW i \in 1 .. n, NEW j \in 1 .. n, i < j
      PROVE  /\ items[i] # TableObject("state")
             /\ items[i] = TableObject("event") => items[j][2] = "state"
             /\ OwnColumns => items[j] # items[i]
  <2>1. PICK a, b : a = n - j + 1 /\ b = n - i + 1
    OBVIOUS
  <2>2. a \in DOMAIN Items /\ b \in DOMAIN Items /\ a < b
    BY <2>1, <1>2, <1>6
  <2>3. items[i] = Items[b] /\ items[j] = Items[a]
    BY <2>1, <1>4
  <2> QED BY <2>2, <2>3, <1>1 DEF ItemsListed
<1> DEFINE seqs == [i \in DOMAIN items |-> DownSQL(items[i])]
<1>7. \A i \in 1 .. n : seqs[i] = DownSQL(items[i]) /\ seqs[i] \in Seq(Drops)
  BY <1>4, <1>5, ItemStatements
<1>8. seqs \in Seq(Seq(Drops)) /\ Len(seqs) = n
  <2>1. seqs \in [1 .. n -> Seq(Drops)]
    BY <1>4, <1>7
  <2> QED BY <2>1
<1>9. DownProgram = FlattenSeq(seqs)
  BY <1>3 DEF DownProgram
<1> HIDE DEF seqs
<1>10. PICK flat : flat = DownProgram
  OBVIOUS
<1>11. LaidOut(Drops, seqs, n, flat)
  BY <1>8, <1>9, <1>10, FlattenLays
<1>12. flat \in Seq(Drops)
  BY <1>11 DEF LaidOut
<1>13. PICK m \in Nat : m = Len(flat) /\ DOMAIN flat = 1 .. m
  BY <1>12
<1>14. PICK block \in [1 .. Len(flat) -> Nat], place \in [1 .. Len(flat) -> Nat] :
         Laid(seqs, n, flat, block, place)
  BY <1>11 DEF LaidOut
<1>15. \A k \in 1 .. m : /\ block[k] \in 1 .. n /\ place[k] \in 1 .. Len(seqs[block[k]])
                         /\ flat[k] = seqs[block[k]][place[k]]
  BY <1>13, <1>14 DEF Laid
<1>16. \A k, l \in 1 .. m :
         k < l => block[k] < block[l] \/ (block[k] = block[l] /\ place[k] < place[l])
  BY <1>13, <1>14 DEF Laid
<1>17. ASSUME NEW k \in 1 .. m
       PROVE  /\ flat[k].on \in FullSchema /\ flat[k] = Drop(flat[k].on)
              /\ items[block[k]] \in Tables \cup Columns
              /\ ItemObject(flat[k].on, items[block[k]])
  <2>1. flat[k] \in Drops
    BY <1>12, <1>13, ElementOfSeq
  <2>2. PICK o \in FullSchema : flat[k] = Drop(o)
    BY <2>1 DEF Drops
  <2>3. flat[k].on = o
    BY <2>2, StatementShapes
  <2>4. PICK item \in Tables \cup Columns : item = items[block[k]]
    BY <1>5, <1>15
  <2>5. PICK p \in 1 .. Len(DownSQL(item)) : flat[k] = DownSQL(item)[p]
    BY <1>15, <1>7, <2>4
  <2>6. ItemObject(flat[k].on, item)
    BY <2>5, ItemStatements
  <2> QED BY <2>2, <2>3, <2>4, <2>6
<1>18. ASSUME NEW item \in Tables \cup Columns PROVE \E i \in 1 .. n : items[i] = item
  <2>1. PICK j \in 1 .. n : Items[j] = item
    BY <1>1, <1>2 DEF ItemsListed
  <2>2. PICK i : i = n - j + 1
    OBVIOUS
  <2>3. i \in 1 .. n /\ n - i + 1 = j
    BY <2>2
  <2> QED BY <2>1, <2>3, <1>4
<1>19. ASSUME NEW t \in TableNames PROVE \E k \in 1 .. m : flat[k] = Drop(TableObject(t))
  <2>1. PICK item \in Tables \cup Columns : item = TableObject(t)
    BY SchemaObjects
  <2>2. item \in FullSchema /\ ItemObject(item, item)
    BY <2>1, SchemaObjects DEF ItemObject
  <2>3. PICK i \in 1 .. n : items[i] = item
    BY <1>18
  <2>4. PICK p \in 1 .. Len(DownSQL(item)) : DownSQL(item)[p] = Drop(item)
    BY <2>2, ItemStatements
  <2>5. seqs[i] = DownSQL(item)
    BY <2>3, <1>7
  <2>6. p \in 1 .. Len(seqs[i])
    BY <2>5
  <2>7. PICK k \in 1 .. Len(flat) : flat[k] = seqs[i][p]
    BY <1>11, <2>6, LaidElements
  <2> QED BY <2>7, <2>5, <2>4, <2>1, <1>13
<1>20. ASSUME NEW k \in 1 .. m, flat[k].on \in Tables
       PROVE  items[block[k]] = flat[k].on
  <2>1. PICK t : flat[k].on = TableObject(t)
    BY <1>20 DEF Tables
  <2>2. items[block[k]] \in Tables \cup Columns /\ ItemObject(flat[k].on, items[block[k]])
    BY <1>17
  <2>3. PICK item \in Tables \cup Columns : item = items[block[k]]
    BY <2>2
  <2>4. item[1] = "column" => IndexOn(item) # TableObject(t)
    <3>1. IndexOn(item) = IndexObject(item[2], item[3])
      BY DEF IndexOn
    <3> QED BY <3>1, ObjectsApart
  <2> QED BY <2>1, <2>2, <2>3, <2>4 DEF ItemObject
<1>21. ASSUME NEW k \in 1 .. m, NEW l \in 1 .. m, flat[k].on = TableObject("event"),
              flat[l].on = TableObject("state")
       PROVE  k < l
  <2>1. TableObject("state") \in Tables /\ TableObject("event") \in Tables
        /\ TableObject("state") # TableObject("event")
    BY ObjectsApart DEF Tables
  <2>2. items[block[k]] = TableObject("event") /\ items[block[l]] = TableObject("state")
    BY <1>20, <1>21, <2>1
  <2>3. block[k] \in 1 .. n /\ block[l] \in 1 .. n
    BY <1>15
  <2>4. ~(block[l] < block[k]) /\ block[l] # block[k]
    BY <2>1, <2>2, <2>3, <1>6
  <2>5. ~(l < k) /\ l # k
    BY <2>3, <2>4, <1>16
  <2> QED BY <2>5
<1>22. ASSUME OwnColumns, NEW k \in 1 .. m, NEW l \in 1 .. m, k < l
       PROVE  ~PartOf(flat[l].on, flat[k].on)
  <2>1. PICK item \in Tables \cup Columns, later \in Tables \cup Columns :
          item = items[block[l]] /\ later = items[block[k]]
    BY <1>17
  <2>2. /\ flat[l].on \in FullSchema /\ ItemObject(flat[l].on, item)
        /\ flat[k].on \in FullSchema /\ ItemObject(flat[k].on, later)
    BY <2>1, <1>17
  <2>3. block[k] \in 1 .. n /\ block[l] \in 1 .. n
    BY <1>15
  <2>4. CASE block[k] < block[l]
    <3>1. /\ later # TableObject("state") /\ item # later
          /\ later = TableObject("event") => item[2] = "state"
      BY <2>1, <2>3, <2>4, <1>6, <1>22
    <3> QED BY <2>2, <3>1, ItemsApart
  <2>5. CASE block[k] = block[l] /\ place[k] < place[l]
    <3>1. item = later
      BY <2>1, <2>5
    <3>2. /\ flat[k] = DownSQL(item)[place[k]] /\ flat[l] = DownSQL(item)[place[l]]
          /\ place[k] \in 1 .. Len(DownSQL(item)) /\ place[l] \in 1 .. Len(DownSQL(item))
      BY <1>7, <1>15, <2>1, <2>3, <2>5
    <3>3. DownSQL(item) # <<Drop(item)>>
      <4>1. SUFFICES ASSUME DownSQL(item) = <<Drop(item)>> PROVE FALSE
        OBVIOUS
      <4>2. place[k] = 1 /\ place[l] = 1
        BY <4>1, <3>2
      <4> QED BY <4>2, <2>5
    <3>4. PICK i \in DOMAIN indexes : DownSQL(item) = <<Drop(FieldIndex(i)), Drop(Field(i))>>
      BY <3>3, ItemKinds
    <3>5. place[k] = 1 /\ place[l] = 2
      BY <3>4, <3>2, <2>5
    <3>6. flat[k].on = FieldIndex(i) /\ flat[l].on = Field(i)
      BY <3>2, <3>4, <3>5, StatementShapes
    <3> QED BY <3>6, FieldNoPart
  <2> QED BY <2>4, <2>5, <1>16, <1>22
<1>23. /\ flat \in Seq(Drops)
       /\ \A t \in TableNames : \E k \in DOMAIN flat : flat[k] = Drop(TableObject(t))
       /\ \A k, l \in DOMAIN flat :
            flat[k].on = TableObject("event") /\ flat[l].on = TableObject("state") => k < l
       /\ OwnColumns => \A k, l \in DOMAIN flat : k < l => ~PartOf(flat[l].on, flat[k].on)
  BY <1>12, <1>13, <1>19, <1>21, <1>22
<1> QED BY <1>10, <1>23 DEF DownDrops

(***************************************************************************)
(* IndexProgram has three statements for each field.                       *)
(***************************************************************************)
IndexInThrees ==
  /\ IndexProgram \in Seq(Statements)
  /\ Len(IndexProgram) = 3 * Len(indexes)
  /\ \A i \in 1 .. Len(indexes) :
       /\ IndexProgram[3 * i - 2] = Count(Field(i))
       /\ IndexProgram[3 * i - 1] = Make(Field(i))
       /\ IndexProgram[3 * i] = Make(FieldIndex(i))

LEMMA IndexesInThrees ==
  ASSUME IndexTyped
  PROVE  IndexInThrees
<1>1. PICK n \in Nat : n = Len(indexes) /\ DOMAIN indexes = 1 .. n
  BY DEF IndexTyped
<1> DEFINE seqs == [i \in DOMAIN indexes |->
                      LET column == ColumnObject(indexes[i].table, indexes[i].column)
                      IN  <<Count(column), Make(column),
                            Make(IndexObject(indexes[i].table, indexes[i].column))>>]
<1>2. \A i \in 1 .. n : seqs[i] = <<Count(Field(i)), Make(Field(i)), Make(FieldIndex(i))>>
  BY <1>1 DEF Field, FieldIndex
<1>3. ASSUME NEW i \in 1 .. n PROVE seqs[i] \in Seq(Statements) /\ Len(seqs[i]) = 3
  <2>1. Field(i) \in FullSchema /\ FieldIndex(i) \in FullSchema
    BY <1>1, SchemaObjects
  <2>2. PICK x \in Statements, y \in Statements, z \in Statements :
          x = Count(Field(i)) /\ y = Make(Field(i)) /\ z = Make(FieldIndex(i))
    BY <2>1, StatementShapes
  <2>3. <<x, y, z>> \in Seq(Statements) /\ Len(<<x, y, z>>) = 3
    OBVIOUS
  <2> QED BY <2>2, <2>3, <1>2
<1>4. seqs \in Seq(Seq(Statements)) /\ Len(seqs) = n
  <2>1. seqs \in [1 .. n -> Seq(Statements)]
    BY <1>1, <1>3
  <2> QED BY <2>1
<1>5. IndexProgram = FlattenSeq(seqs)
  BY DEF IndexProgram
<1> HIDE DEF seqs
<1>6. Threes(seqs, n, IndexProgram)
  BY <1>3, <1>4, <1>5, FlattenThrees
<1>7. IndexProgram \in Seq(Statements)
  <2>1. LaidOut(Statements, seqs, n, IndexProgram)
    BY <1>4, <1>5, FlattenLays
  <2> QED BY <2>1 DEF LaidOut
<1>8. ASSUME NEW i \in 1 .. n
      PROVE  /\ IndexProgram[3 * i - 2] = Count(Field(i))
             /\ IndexProgram[3 * i - 1] = Make(Field(i))
             /\ IndexProgram[3 * i] = Make(FieldIndex(i))
  <2>1. /\ IndexProgram[3 * i + 1 - 3] = seqs[i][1]
        /\ IndexProgram[3 * i + 2 - 3] = seqs[i][2]
        /\ IndexProgram[3 * i + 3 - 3] = seqs[i][3]
    BY <1>6 DEF Threes
  <2>2. 3 * i + 1 - 3 = 3 * i - 2 /\ 3 * i + 2 - 3 = 3 * i - 1 /\ 3 * i + 3 - 3 = 3 * i
    OBVIOUS
  <2> QED BY <2>1, <2>2, <1>2
<1> QED BY <1>1, <1>6, <1>7, <1>8 DEF IndexInThrees, Threes

(***************************************************************************)
(* What is left of a program from its statement p on.                      *)
(***************************************************************************)
Rest(program, p) == SubSeq(program, p, Len(program))

LEMMA RestOf ==
  ASSUME NEW S, NEW program \in Seq(S), NEW p \in 1 .. Len(program)
  PROVE  /\ Rest(program, p) # <<>> /\ Rest(program, p) \in Seq(S)
         /\ Head(Rest(program, p)) = program[p]
         /\ Tail(Rest(program, p)) = Rest(program, p + 1)
<1>1. PICK n \in Nat : n = Len(program)
  OBVIOUS
<1>2. Rest(program, p) \in Seq(S) /\ Len(Rest(program, p)) = n - p + 1
  BY <1>1, SubSeqProperties DEF Rest
<1>3. Head(Rest(program, p)) = program[p] /\ Tail(Rest(program, p)) = Rest(program, p + 1)
  BY <1>1, HeadTailOfSubSeq DEF Rest
<1>4. Rest(program, p) # <<>>
  BY <1>1, <1>2
<1> QED BY <1>2, <1>3, <1>4

LEMMA RestAll ==
  ASSUME NEW S, NEW program \in Seq(S)
  PROVE  Rest(program, 1) = program /\ Rest(program, Len(program) + 1) = <<>>
  BY DEF Rest

LEMMA RestIsSuffix ==
  ASSUME NEW S, NEW program \in Seq(S), NEW p \in 1 .. Len(program) + 1
  PROVE  IsSuffix(Rest(program, p), program)
<1>1. PICK n \in Nat : n = Len(program) /\ DOMAIN program = 1 .. n
  OBVIOUS
<1>2. PICK rest : rest = Rest(program, p)
  OBVIOUS
<1>3. /\ rest \in Seq(S) /\ Len(rest) = n - p + 1
      /\ \A i \in 1 .. n - p + 1 : rest[i] = program[p + i - 1]
  BY <1>1, <1>2 DEF Rest
<1>4. PICK a, b : a = Reverse(rest) /\ b = Reverse(program)
  OBVIOUS
<1>5. PICK m \in Nat : m = n - p + 1 /\ m <= n
  BY <1>1
<1>6. a = [i \in 1 .. m |-> rest[m - i + 1]] /\ b = [i \in 1 .. n |-> program[n - i + 1]]
  BY <1>1, <1>3, <1>4, <1>5 DEF Reverse
<1>7. \A i \in 1 .. m : m - i + 1 \in 1 .. m /\ i \in 1 .. n /\ p + (m - i + 1) - 1 = n - i + 1
  BY <1>5, <1>1
<1>8. \A i \in 1 .. m : a[i] = b[i]
  BY <1>3, <1>5, <1>6, <1>7
<1>9. a \in Seq(S) /\ b \in Seq(S) /\ Len(a) = m /\ Len(b) = n
  <2>1. \A i \in 1 .. m : rest[m - i + 1] \in S
    BY <1>3, <1>5, <1>7, ElementOfSeq
  <2>2. \A i \in 1 .. n : program[n - i + 1] \in S
    BY <1>1, ElementOfSeq
  <2>3. a \in [1 .. m -> S] /\ b \in [1 .. n -> S]
    BY <1>6, <2>1, <2>2
  <2> QED BY <2>3
<1>10. SubSeq(a, 1, m) = SubSeq(b, 1, m)
  BY <1>5, <1>8, <1>9
<1>11. IsPrefix(a, b)
  BY <1>5, <1>9, <1>10 DEF IsPrefix
<1> QED BY <1>2, <1>4, <1>11 DEF IsSuffix

(***************************************************************************)
(* What the statements of a job are.                                       *)
(***************************************************************************)
JobNames == {"create", "index", "up", "down"}

JobStatement(job, statement) ==
  CASE job = "create" -> statement = BeginTx \/ \E o \in Tables : statement = Make(o)
    [] job = "up" -> statement \in Makes
    [] job = "down" -> statement \in Drops
    [] job = "index" -> \E o \in FullSchema : statement \in {Count(o), Make(o)}

LEMMA CreateMakesTables ==
  /\ CreateProgram \in Seq(Statements) /\ Len(CreateProgram) = 3
  /\ CreateProgram[1] = BeginTx /\ CreateProgram[2] = Make(TableObject("state"))
  /\ CreateProgram[3] = Make(TableObject("event"))
<1>1. TableObject("state") \in FullSchema /\ TableObject("event") \in FullSchema
  BY DEF FullSchema, Tables
<1>2. PICK x \in Statements, y \in Statements, z \in Statements :
        x = BeginTx /\ y = Make(TableObject("state")) /\ z = Make(TableObject("event"))
  BY <1>1, StatementShapes
<1>3. CreateProgram = <<x, y, z>>
  BY <1>2 DEF CreateProgram
<1>4. <<x, y, z>> \in Seq(Statements) /\ Len(<<x, y, z>>) = 3
  OBVIOUS
<1> QED BY <1>2, <1>3, <1>4

LEMMA ProgramStatements ==
  ASSUME IndexTyped, NEW job \in JobNames
  PROVE  /\ Program(job) \in Seq(Statements)
         /\ \A k \in 1 .. Len(Program(job)) : JobStatement(job, Program(job)[k])
<1>1. CASE job = "create"
  <2>1. Program(job) = CreateProgram
    BY <1>1 DEF Program
  <2>2. \A k \in 1 .. 3 : CreateProgram[k] = BeginTx \/ \E o \in Tables : CreateProgram[k] = Make(o)
    BY CreateMakesTables DEF Tables
  <2> QED BY <1>1, <2>1, <2>2, CreateMakesTables DEF JobStatement
<1>2. CASE job = "up"
  <2>1. Program(job) = UpProgram /\ UpProgram \in Seq(Makes)
    BY <1>2, UpMakesAll DEF Program, UpMakes
  <2>2. Makes \subseteq Statements
    BY StatementShapes DEF Makes
  <2>3. UpProgram \in Seq(Statements)
    BY <2>1, <2>2, SeqMonotonic
  <2>4. \A k \in 1 .. Len(UpProgram) : UpProgram[k] \in Makes
    BY <2>1, ElementOfSeq
  <2> QED BY <1>2, <2>1, <2>3, <2>4 DEF JobStatement
<1>3. CASE job = "down"
  <2>1. Program(job) = DownProgram /\ DownProgram \in Seq(Drops)
    BY <1>3, DownDropsAll DEF Program, DownDrops
  <2>2. Drops \subseteq Statements
    BY StatementShapes DEF Drops
  <2>3. DownProgram \in Seq(Statements)
    BY <2>1, <2>2, SeqMonotonic
  <2>4. \A k \in 1 .. Len(DownProgram) : DownProgram[k] \in Drops
    BY <2>1, ElementOfSeq
  <2> QED BY <1>3, <2>1, <2>3, <2>4 DEF JobStatement
<1>4. CASE job = "index"
  <2>1. Program(job) = IndexProgram /\ IndexInThrees
    BY <1>4, IndexesInThrees DEF Program
  <2>2. PICK n \in Nat : n = Len(indexes) /\ DOMAIN indexes = 1 .. n
    BY DEF IndexTyped
  <2>3. \A i \in 1 .. n : Field(i) \in FullSchema /\ FieldIndex(i) \in FullSchema
    BY <2>2, SchemaObjects
  <2>4. ASSUME NEW k \in 1 .. 3 * n
        PROVE  \E o \in FullSchema : IndexProgram[k] \in {Count(o), Make(o)}
    <3>1. \E i \in 1 .. n : k \in {3 * i - 2, 3 * i - 1, 3 * i}
      <4>1. (k + 2) \div 3 \in 1 .. n
        OBVIOUS
      <4>2. k \in {3 * ((k + 2) \div 3) - 2, 3 * ((k + 2) \div 3) - 1, 3 * ((k + 2) \div 3)}
        OBVIOUS
      <4> QED BY <4>1, <4>2
    <3>2. PICK i \in 1 .. n : k \in {3 * i - 2, 3 * i - 1, 3 * i}
      BY <3>1
    <3>3. IndexProgram[k] \in {Count(Field(i)), Make(Field(i)), Make(FieldIndex(i))}
      BY <2>1, <2>2, <3>2 DEF IndexInThrees
    <3> QED BY <2>3, <3>3
  <2>5. IndexProgram \in Seq(Statements) /\ Len(IndexProgram) = 3 * n
    BY <2>1, <2>2 DEF IndexInThrees
  <2> QED BY <1>4, <2>1, <2>4, <2>5 DEF JobStatement
<1> QED BY <1>1, <1>2, <1>3, <1>4 DEF JobNames

(* No step changes the fields, and with them nothing of the schema. *)
LEMMA SchemaKept ==
  ASSUME indexes' = indexes
  PROVE  /\ FullSchema' = FullSchema /\ IndexTyped' = IndexTyped /\ OwnColumns' = OwnColumns
         /\ Statements' = Statements
         /\ \A i : Field(i)' = Field(i) /\ FieldIndex(i)' = FieldIndex(i)
         /\ \A job : Program(job)' = Program(job)
<1>1. FullSchema' = FullSchema
  BY DEF FullSchema, Columns, Indexes
<1>2. \A t : OfTable(t)' = OfTable(t)
  BY DEF OfTable
<1>3. Items' = Items
  BY <1>2 DEF Items
<1>4. UpProgram' = UpProgram /\ DownProgram' = DownProgram
  BY <1>3 DEF UpProgram, DownProgram
<1>5. IndexProgram' = IndexProgram
  BY DEF IndexProgram
<1>6. \A job : Program(job)' = Program(job)
  BY <1>4, <1>5 DEF Program
<1>7. OwnColumns' = OwnColumns /\ IndexTyped' = IndexTyped
  BY DEF OwnColumns, IndexTyped
<1>8. Statements' = Statements
  BY <1>1 DEF Statements
<1>9. \A i : Field(i)' = Field(i) /\ FieldIndex(i)' = FieldIndex(i)
  BY DEF Field, FieldIndex
<1> QED BY <1>1, <1>6, <1>7, <1>8, <1>9

(***************************************************************************)
(* The inductive invariant.                                                *)
(***************************************************************************)
RunnerRecords ==
  [job : JobNames, todo : Seq(Statements), status : {"new", "running", "done", "failed"},
   locks : SUBSET TableNames, added : SUBSET FullSchema, dropped : SUBSET FullSchema]

Typed ==
  /\ properties \in PropertyLists /\ indexes \in IndexLists
  /\ catalog \subseteq FullSchema
  /\ runners \in [Runners -> RunnerRecords]

Open(r) == runners[r].status \in {"new", "running"}

ProgramOf(r) == Program(runners[r].job)

(* What is left to do is the program from some statement on. *)
AtStatement(r, p) == p \in 1 .. Len(ProgramOf(r)) + 1 /\ runners[r].todo = Rest(ProgramOf(r), p)

(* A job that makes tables has added what the statements before p make. *)
Made(r, p) ==
  /\ runners[r].dropped = {}
  /\ runners[r].job = "create" => runners[r].added \subseteq Tables
  /\ \A k \in 1 .. p - 1 :
       ProgramOf(r)[k].op = "make" => ProgramOf(r)[k].on \in runners[r].added

(* A job that takes them down sees none of what the statements before p    *)
(* drop, and holds the locks that keep it away; it dropped nothing else. *)
TakenDown(r, p) ==
  /\ runners[r].added = {}
  /\ \A k \in 1 .. p - 1 : \A o \in FullSchema :
       PartOf(o, ProgramOf(r)[k].on) => o \notin View(r) /\ o[2] \in runners[r].locks
  /\ \A o \in runners[r].dropped : \E k \in 1 .. p - 1 : PartOf(o, ProgramOf(r)[k].on)

(* A job that adds the search fields has added the first of them, with     *)
(* their indexes, to tables that are there.  It ends early with the first  *)
(* that it finds. *)
FirstFields(n) == {Field(i) : i \in 1 .. n} \cup {FieldIndex(i) : i \in 1 .. n}

Adding(r, i, k) ==
  /\ runners[r].todo = Rest(IndexProgram, 3 * i + k - 2)
  /\ runners[r].added = FirstFields(i - 1) \cup (IF k = 2 THEN {Field(i)} ELSE {})

AllAdded(r) ==
  /\ runners[r].todo = <<>>
  /\ \E i \in 0 .. Len(indexes) :
       runners[r].added = FirstFields(i) /\ (OwnColumns => i \in {0, Len(indexes)})

Indexing(r) ==
  /\ runners[r].dropped = {}
  /\ \A o \in runners[r].added : TableObject(o[2]) \in catalog
  /\ (\E i \in 1 .. Len(indexes), k \in 0 .. 2 : Adding(r, i, k)) \/ AllAdded(r)

Work(r) ==
  Open(r) =>
    /\ runners[r].job = "index" => Indexing(r)
    /\ runners[r].job \in {"create", "up"} => \E p \in Nat : AtStatement(r, p) /\ Made(r, p)
    /\ runners[r].job = "down" => \E p \in Nat : AtStatement(r, p) /\ TakenDown(r, p)

AtSome(r) == \E p \in Nat : AtStatement(r, p)

(* Only an open transaction has locks and changes, *)
Idle(r) ==
  ~Running(r) => runners[r].locks = {} /\ runners[r].added = {} /\ runners[r].dropped = {}

(* which are on tables that it has locked, and are changes. *)
Covered(r) ==
  /\ \A o \in runners[r].added \cup runners[r].dropped : o[2] \in runners[r].locks
  /\ runners[r].added \cap catalog = {}
  /\ runners[r].dropped \subseteq catalog

Sound(r) == AtSome(r) /\ Work(r) /\ Idle(r) /\ Covered(r)

LocksApart == \A r, s \in Runners : r # s => runners[r].locks \cap runners[s].locks = {}

Connected ==
  /\ leaked \in Nat /\ faults \in 0 .. MaxFaults
  /\ leaked + Cardinality({r \in Runners : Running(r)}) <= Pool

SchemaInv == Typed /\ LocksApart /\ (\A r \in Runners : Sound(r)) /\ SchemaWhole

LEMMA IndexesTyped == Typed => IndexTyped
  BY MigrationAssumption DEF Typed, IndexTyped, MigrationAssumption, TableNames

LEMMA RunnerTyped ==
  ASSUME Typed, NEW r \in Runners
  PROVE  /\ runners[r] \in RunnerRecords
         /\ runners[r].job \in JobNames /\ runners[r].todo \in Seq(Statements)
         /\ runners[r].status \in {"new", "running", "done", "failed"}
         /\ runners[r].locks \subseteq TableNames
         /\ runners[r].added \subseteq FullSchema /\ runners[r].dropped \subseteq FullSchema
<1>1. runners[r] \in RunnerRecords
  BY DEF Typed
<1> QED BY <1>1 DEF RunnerRecords

(***************************************************************************)
(* A step that leaves a runner's work alone, and the tables it has locked. *)
(***************************************************************************)
Untouched(s) ==
  /\ indexes' = indexes
  /\ runners'[s].job = runners[s].job /\ runners'[s].todo = runners[s].todo
  /\ runners'[s].added = runners[s].added /\ runners'[s].dropped = runners[s].dropped
  /\ runners[s].locks \subseteq runners'[s].locks
  /\ Open(s)' => Open(s)
  /\ ~Running(s)' => ~Running(s) /\ runners'[s].locks = runners[s].locks
  /\ \A o \in FullSchema : o[2] \in runners[s].locks => (o \in catalog' <=> o \in catalog)

LEMMA UntouchedSound ==
  ASSUME Typed, NEW s \in Runners, Sound(s), Untouched(s)
  PROVE  Sound(s)'
<1>1. IndexTyped
  BY IndexesTyped
<1>2. indexes' = indexes
  BY DEF Untouched
<1>3. /\ FullSchema' = FullSchema /\ OwnColumns' = OwnColumns /\ ProgramOf(s)' = ProgramOf(s)
      /\ \A i : Field(i)' = Field(i) /\ FieldIndex(i)' = FieldIndex(i)
      /\ IndexProgram' = IndexProgram
  <2>1. Program(runners[s].job)' = Program(runners[s].job)
    <3>1. \A job : Program(job)' = Program(job)
      BY <1>2, SchemaKept
    <3>2. runners'[s].job = runners[s].job
      BY DEF Untouched
    <3>3. Program(runners[s].job)' = Program(runners[s].job)'
      OBVIOUS
    <3> QED BY <3>1, <3>2, <1>2 DEF Program, IndexProgram, UpProgram, DownProgram, Items, OfTable
  <2>2. IndexProgram' = IndexProgram
    BY <1>2 DEF IndexProgram
  <2> QED BY <2>1, <2>2, <1>2, SchemaKept DEF ProgramOf
<1>4. \A o \in FullSchema : o[2] \in runners[s].locks => (o \in catalog' <=> o \in catalog)
  BY DEF Untouched
<1>5. /\ runners'[s].job = runners[s].job /\ runners'[s].todo = runners[s].todo
      /\ runners'[s].added = runners[s].added /\ runners'[s].dropped = runners[s].dropped
      /\ runners[s].locks \subseteq runners'[s].locks
      /\ Open(s)' => Open(s)
      /\ ~Running(s)' => ~Running(s) /\ runners'[s].locks = runners[s].locks
  BY DEF Untouched
<1>6. runners[s].added \subseteq FullSchema /\ runners[s].dropped \subseteq FullSchema
  BY RunnerTyped
<1>7. \A p : AtStatement(s, p) => AtStatement(s, p)'
  BY <1>3, <1>5 DEF AtStatement
<1>8. AtSome(s)'
  BY <1>7 DEF Sound, AtSome
<1>9. Idle(s)'
  BY <1>5 DEF Sound, Idle
<1>10. Covered(s)'
  <2>1. \A o \in runners[s].added \cup runners[s].dropped : o[2] \in runners[s].locks
    BY DEF Sound, Covered
  <2>2. runners[s].added \cap catalog' = {}
    BY <2>1, <1>4, <1>6 DEF Sound, Covered
  <2>3. runners[s].dropped \subseteq catalog'
    BY <2>1, <1>4, <1>6 DEF Sound, Covered
  <2> QED BY <2>1, <2>2, <2>3, <1>5 DEF Covered
<1>11. ASSUME NEW p, Made(s, p) PROVE Made(s, p)'
  BY <1>11, <1>3, <1>5 DEF Made, Tables
<1>12. ASSUME NEW p, TakenDown(s, p) PROVE TakenDown(s, p)'
  <2>1. ASSUME NEW k \in 1 .. p - 1, NEW o \in FullSchema, PartOf(o, ProgramOf(s)[k].on)
        PROVE  o \notin View(s)' /\ o[2] \in runners'[s].locks
    <3>1. o \notin View(s) /\ o[2] \in runners[s].locks
      BY <2>1, <1>12 DEF TakenDown
    <3> QED BY <3>1, <1>4, <1>5 DEF View
  <2>2. runners'[s].added = {}
    BY <1>5, <1>12 DEF TakenDown
  <2>3. \A o \in runners'[s].dropped : \E k \in 1 .. p - 1 : PartOf(o, ProgramOf(s)[k].on)
    BY <1>5, <1>12 DEF TakenDown
  <2> QED BY <2>1, <2>2, <2>3, <1>3 DEF TakenDown, PartOf
<1>13. ASSUME Indexing(s) PROVE Indexing(s)'
  <2>1. ASSUME NEW o \in runners[s].added PROVE TableObject(o[2]) \in catalog'
    <3>1. o[2] \in runners[s].locks /\ o[2] \in TableNames
      BY <1>1, <1>6, SchemaObjects DEF Sound, Covered
    <3>2. TableObject(o[2]) \in FullSchema /\ TableObject(o[2])[2] = o[2]
      BY <1>1, <3>1, SchemaObjects, ObjectShapes
    <3>3. TableObject(o[2]) \in catalog
      BY <1>13 DEF Indexing
    <3> QED BY <3>1, <3>2, <3>3, <1>4
  <2>2. \A n : FirstFields(n)' = FirstFields(n)
    BY <1>3 DEF FirstFields
  <2>3. \A i, k : Adding(s, i, k) => Adding(s, i, k)'
    BY <1>3, <1>5, <2>2 DEF Adding
  <2>4. AllAdded(s) => AllAdded(s)'
    BY <1>2, <1>3, <1>5, <2>2 DEF AllAdded
  <2>5. (\E i \in 1 .. Len(indexes), k \in 0 .. 2 : Adding(s, i, k))
          => (\E i \in 1 .. Len(indexes), k \in 0 .. 2 : Adding(s, i, k))'
    BY <1>2, <2>3
  <2> QED BY <1>13, <2>1, <2>4, <2>5, <1>5 DEF Indexing
<1>14. Work(s)'
  BY <1>5, <1>7, <1>11, <1>12, <1>13 DEF Sound, Work
<1> QED BY <1>8, <1>9, <1>10, <1>14 DEF Sound

LEMMA TypedKept ==
  ASSUME Typed, indexes' = indexes, properties' = properties, catalog' \subseteq FullSchema,
         runners' \in [Runners -> RunnerRecords]
  PROVE  Typed'
<1>1. FullSchema' = FullSchema /\ Statements' = Statements
  BY SchemaKept
<1>2. RunnerRecords' = RunnerRecords
  BY <1>1 DEF RunnerRecords
<1> QED BY <1>1, <1>2 DEF Typed

LEMMA WholeKept ==
  ASSUME SchemaWhole, indexes' = indexes, catalog' = catalog
  PROVE  SchemaWhole'
<1>1. FullSchema' = FullSchema /\ OwnColumns' = OwnColumns
  BY SchemaKept
<1> QED BY <1>1 DEF SchemaWhole, Tables

LEMMA InitSound == Init => SchemaInv
<1> SUFFICES ASSUME Init PROVE SchemaInv
  OBVIOUS
<1>1. PICK jobs \in [Runners -> JobNames] :
        runners = [r \in Runners |-> [job |-> jobs[r], todo |-> Program(jobs[r]), status |-> "new",
                                      locks |-> {}, added |-> {}, dropped |-> {}]]
  BY DEF Init, JobNames
<1>2. IndexTyped
  BY MigrationAssumption DEF Init, IndexTyped, MigrationAssumption, TableNames
<1>3. ASSUME NEW r \in Runners
      PROVE  /\ runners[r] = [job |-> jobs[r], todo |-> Program(jobs[r]), status |-> "new",
                              locks |-> {}, added |-> {}, dropped |-> {}]
             /\ Program(jobs[r]) \in Seq(Statements)
  BY <1>1, <1>2, ProgramStatements
<1>4. ASSUME NEW r \in Runners
      PROVE  /\ runners[r].job = jobs[r] /\ runners[r].todo = Program(jobs[r])
             /\ runners[r].status = "new" /\ runners[r].locks = {}
             /\ runners[r].added = {} /\ runners[r].dropped = {}
  <2>1. PICK program : program = Program(jobs[r])
    OBVIOUS
  <2>2. runners[r] = [job |-> jobs[r], todo |-> program, status |-> "new",
                      locks |-> {}, added |-> {}, dropped |-> {}]
    BY <1>3, <2>1
  <2> QED BY <2>1, <2>2
<1>5. Typed
  <2>1. \A r \in Runners : runners[r] \in RunnerRecords
    BY <1>1, <1>3 DEF RunnerRecords
  <2>2. runners \in [Runners -> RunnerRecords]
    BY <1>1, <2>1
  <2> QED BY <2>2 DEF Init, Typed
<1>6. LocksApart
  BY <1>4 DEF LocksApart
<1>7. ASSUME NEW r \in Runners PROVE Sound(r)
  <2>1. /\ runners[r].job = jobs[r] /\ runners[r].todo = Program(jobs[r])
        /\ runners[r].status = "new" /\ runners[r].locks = {}
        /\ runners[r].added = {} /\ runners[r].dropped = {}
    BY <1>4
  <2>2. AtStatement(r, 1)
    <3>1. Program(jobs[r]) = Rest(Program(jobs[r]), 1)
      BY <1>3, RestAll
    <3>2. 1 \in 1 .. Len(Program(jobs[r])) + 1
      BY <1>3
    <3> QED BY <2>1, <3>1, <3>2 DEF AtStatement, ProgramOf
  <2>3. Made(r, 1) /\ TakenDown(r, 1)
    BY <2>1 DEF Made, TakenDown
  <2>4. runners[r].job = "index" => Indexing(r)
    <3> SUFFICES ASSUME jobs[r] = "index" PROVE Indexing(r)
      BY <2>1
    <3>1. IndexInThrees /\ runners[r].todo = IndexProgram
      BY <1>2, <2>1, IndexesInThrees DEF Program
    <3>2. PICK n \in Nat : n = Len(indexes)
      BY <1>2 DEF IndexTyped
    <3>3. FirstFields(0) = {}
      BY DEF FirstFields
    <3>4. CASE n = 0
      <4>1. IndexProgram = <<>>
        BY <3>1, <3>2, <3>4 DEF IndexInThrees
      <4>2. AllAdded(r)
        BY <4>1, <3>1, <3>2, <3>3, <3>4, <2>1 DEF AllAdded
      <4> QED BY <4>2, <2>1 DEF Indexing
    <3>5. CASE n # 0
      <4>1. IndexProgram = Rest(IndexProgram, 1)
        BY <3>1, RestAll DEF IndexInThrees
      <4>2. Adding(r, 1, 0)
        BY <4>1, <3>1, <3>3, <2>1 DEF Adding
      <4>3. 1 \in 1 .. Len(indexes) /\ 0 \in 0 .. 2
        BY <3>2, <3>5
      <4> QED BY <4>2, <4>3, <2>1 DEF Indexing
    <3> QED BY <3>4, <3>5
  <2>5. AtSome(r) /\ Work(r)
    BY <2>2, <2>3, <2>4 DEF AtSome, Work
  <2>6. Idle(r) /\ Covered(r)
    BY <2>1 DEF Idle, Covered
  <2> QED BY <2>5, <2>6 DEF Sound
<1>8. SchemaWhole
  BY DEF Init, SchemaWhole
<1> QED BY <1>5, <1>6, <1>7, <1>8 DEF SchemaInv

(* A step of one runner that leaves the tables of the others alone. *)
OthersKept(r) ==
  \A s \in Runners \ {r} :
    /\ runners'[s] = runners[s]
    /\ \A o \in FullSchema : o[2] \in runners[s].locks => (o \in catalog' <=> o \in catalog)

LEMMA OthersSound ==
  ASSUME SchemaInv, NEW r \in Runners, indexes' = indexes, OthersKept(r)
  PROVE  \A s \in Runners \ {r} : Sound(s)'
<1> SUFFICES ASSUME NEW s \in Runners \ {r} PROVE Sound(s)'
  OBVIOUS
<1>1. Untouched(s)
  BY DEF OthersKept, Untouched, Open, Running
<1> QED BY <1>1, UntouchedSound DEF SchemaInv

LEMMA LocksStayApart ==
  ASSUME SchemaInv, NEW r \in Runners, OthersKept(r),
         \A t \in runners'[r].locks : t \in runners[r].locks
                                      \/ \A s \in Runners : t \notin runners[s].locks
  PROVE  LocksApart'
<1> SUFFICES ASSUME NEW a \in Runners, NEW b \in Runners, a # b,
                    NEW t \in runners'[a].locks, t \in runners'[b].locks
             PROVE  FALSE
  BY DEF LocksApart
<1>1. LocksApart
  BY DEF SchemaInv
<1>2. CASE a = r
  <2>1. runners'[b].locks = runners[b].locks
    BY <1>2 DEF OthersKept
  <2> QED BY <2>1, <1>1, <1>2 DEF LocksApart
<1>3. CASE b = r
  <2>1. runners'[a].locks = runners[a].locks
    BY <1>3 DEF OthersKept
  <2> QED BY <2>1, <1>1, <1>3 DEF LocksApart
<1>4. CASE a # r /\ b # r
  BY <1>1, <1>4 DEF LocksApart, OthersKept
<1> QED BY <1>2, <1>3, <1>4

LEMMA OthersKeptSame ==
  ASSUME Typed, NEW r \in Runners, NEW new, runners' = [runners EXCEPT ![r] = new],
         catalog' = catalog
  PROVE  OthersKept(r) /\ runners'[r] = new
  BY DEF Typed, OthersKept

LEMMA EndsFields ==
  ASSUME Typed, NEW r \in Runners, NEW status \in {"done", "failed"}, Ends(r, status)
  PROVE  /\ runners' \in [Runners -> RunnerRecords]
         /\ \A s \in Runners \ {r} : runners'[s] = runners[s]
         /\ runners'[r].job = runners[r].job /\ runners'[r].todo = runners[r].todo
         /\ runners'[r].status = status /\ runners'[r].locks = {}
         /\ runners'[r].added = {} /\ runners'[r].dropped = {}
<1> DEFINE new == [runners[r] EXCEPT !.status = status, !.locks = {}, !.added = {}, !.dropped = {}]
<1>1. runners' = [runners EXCEPT ![r] = new]
  BY DEF Ends
<1>2. runners[r] \in RunnerRecords
  BY RunnerTyped
<1>3. /\ new \in RunnerRecords /\ new.job = runners[r].job /\ new.todo = runners[r].todo
      /\ new.status = status /\ new.locks = {} /\ new.added = {} /\ new.dropped = {}
  BY <1>2 DEF RunnerRecords
<1> HIDE DEF new
<1> QED BY <1>1, <1>3 DEF Typed

(* A runner whose transaction has ended. *)
LEMMA EndedSound ==
  ASSUME SchemaInv, indexes' = indexes, NEW r \in Runners, NEW status \in {"done", "failed"},
         Ends(r, status)
  PROVE  Sound(r)'
<1>1. Typed /\ Sound(r)
  BY DEF SchemaInv
<1>2. /\ runners'[r].job = runners[r].job /\ runners'[r].todo = runners[r].todo
      /\ runners'[r].status = status /\ runners'[r].locks = {}
      /\ runners'[r].added = {} /\ runners'[r].dropped = {}
  BY <1>1, EndsFields
<1>3. \A job : Program(job)' = Program(job)
  BY SchemaKept
<1>4. ProgramOf(r)' = ProgramOf(r)
  BY <1>2 DEF ProgramOf, Program, IndexProgram, UpProgram, DownProgram, Items, OfTable
<1>5. \A p : AtStatement(r, p) => AtStatement(r, p)'
  BY <1>2, <1>4 DEF AtStatement
<1>6. AtSome(r)'
  BY <1>1, <1>5 DEF Sound, AtSome
<1>7. Work(r)' /\ Idle(r)' /\ Covered(r)'
  BY <1>2 DEF Work, Open, Idle, Covered
<1> QED BY <1>6, <1>7 DEF Sound

LEMMA FailureKeeps ==
  ASSUME SchemaInv, NEW r \in Runners, Ends(r, "failed"),
         UNCHANGED <<properties, indexes, catalog>>
  PROVE  SchemaInv'
<1>1. Typed
  BY DEF SchemaInv
<1>2. /\ runners' \in [Runners -> RunnerRecords] /\ runners'[r].locks = {}
      /\ \A s \in Runners \ {r} : runners'[s] = runners[s]
  BY <1>1, EndsFields
<1>3. OthersKept(r)
  BY <1>2 DEF OthersKept
<1>4. Typed'
  BY <1>1, <1>2, TypedKept DEF Typed
<1>5. LocksApart'
  BY <1>2, <1>3, LocksStayApart
<1>6. SchemaWhole'
  BY WholeKept DEF SchemaInv
<1> QED BY <1>3, <1>4, <1>5, <1>6, OthersSound, EndedSound DEF SchemaInv

LEMMA BeginKeeps ==
  ASSUME SchemaInv, NEW r \in Runners, Begin(r)
  PROVE  SchemaInv'
<1>1. Typed /\ UNCHANGED <<properties, indexes, catalog>>
  BY DEF SchemaInv, Begin
<1> DEFINE new == [runners[r] EXCEPT !.status = "running"]
<1>2. runners' = [runners EXCEPT ![r] = new] /\ runners[r].status = "new"
  BY DEF Begin
<1>3. OthersKept(r) /\ runners'[r] = new
  BY <1>1, <1>2, OthersKeptSame
<1>4. runners[r] \in RunnerRecords
  BY <1>1, RunnerTyped
<1>5. /\ new \in RunnerRecords /\ new.job = runners[r].job /\ new.todo = runners[r].todo
      /\ new.status = "running" /\ new.locks = runners[r].locks
      /\ new.added = runners[r].added /\ new.dropped = runners[r].dropped
  BY <1>4 DEF RunnerRecords
<1>6. runners' \in [Runners -> RunnerRecords]
  BY <1>1, <1>2, <1>5 DEF Typed
<1>7. Untouched(r)
  BY <1>1, <1>2, <1>3, <1>5 DEF Untouched, Open, Running
<1>8. Sound(r)'
  BY <1>1, <1>7, UntouchedSound DEF SchemaInv
<1>9. LocksApart'
  BY <1>3, <1>5, LocksStayApart
<1>10. Typed' /\ SchemaWhole'
  BY <1>1, <1>6, TypedKept, WholeKept DEF Typed, SchemaInv
<1> QED BY <1>1, <1>3, <1>8, <1>9, <1>10, OthersSound DEF SchemaInv

LEMMA LockKeeps ==
  ASSUME SchemaInv, NEW r \in Runners, NEW t \in TableNames, Lock(r, t)
  PROVE  SchemaInv'
<1>1. Typed /\ UNCHANGED <<properties, indexes, catalog>>
  BY DEF SchemaInv, Lock
<1> DEFINE new == [runners[r] EXCEPT !.locks = runners[r].locks \cup {t}]
<1>2. runners' = [runners EXCEPT ![r] = new] /\ runners[r].status = "running"
      /\ \A s \in Runners : t \notin runners[s].locks
  BY DEF Lock, Running, Held
<1>3. OthersKept(r) /\ runners'[r] = new
  BY <1>1, <1>2, OthersKeptSame
<1>4. runners[r] \in RunnerRecords
  BY <1>1, RunnerTyped
<1>5. /\ new \in RunnerRecords /\ new.job = runners[r].job /\ new.todo = runners[r].todo
      /\ new.status = "running" /\ new.locks = runners[r].locks \cup {t}
      /\ new.added = runners[r].added /\ new.dropped = runners[r].dropped
  BY <1>2, <1>4 DEF RunnerRecords
<1>6. runners' \in [Runners -> RunnerRecords]
  BY <1>1, <1>2, <1>5 DEF Typed
<1>7. Untouched(r)
  BY <1>1, <1>2, <1>3, <1>5 DEF Untouched, Open, Running
<1>8. Sound(r)'
  BY <1>1, <1>7, UntouchedSound DEF SchemaInv
<1>9. LocksApart'
  BY <1>2, <1>3, <1>5, LocksStayApart
<1>10. Typed' /\ SchemaWhole'
  BY <1>1, <1>6, TypedKept, WholeKept DEF Typed, SchemaInv
<1> QED BY <1>1, <1>3, <1>8, <1>9, <1>10, OthersSound DEF SchemaInv

LEMMA NextStatement ==
  ASSUME SchemaInv, NEW r \in Runners, ~AtEnd(r), NEW p, AtStatement(r, p)
  PROVE  /\ p \in 1 .. Len(ProgramOf(r)) /\ Statement(r) = ProgramOf(r)[p]
         /\ Tail(runners[r].todo) = Rest(ProgramOf(r), p + 1)
         /\ Tail(runners[r].todo) \in Seq(Statements)
         /\ JobStatement(runners[r].job, Statement(r))
<1>1. Typed /\ IndexTyped
  BY IndexesTyped DEF SchemaInv
<1>2. runners[r].job \in JobNames /\ runners[r].todo \in Seq(Statements)
  BY <1>1, RunnerTyped
<1>3. /\ ProgramOf(r) \in Seq(Statements)
      /\ \A k \in 1 .. Len(ProgramOf(r)) : JobStatement(runners[r].job, ProgramOf(r)[k])
  BY <1>1, <1>2, ProgramStatements DEF ProgramOf
<1>4. PICK program : program = ProgramOf(r)
  OBVIOUS
<1>5. program \in Seq(Statements) /\ runners[r].todo = Rest(program, p) /\ p \in 1 .. Len(program) + 1
  BY <1>3, <1>4 DEF AtStatement
<1>6. p # Len(program) + 1
  BY <1>5, RestAll DEF AtEnd
<1>7. p \in 1 .. Len(program)
  BY <1>5, <1>6
<1>8. Statement(r) = program[p] /\ Tail(runners[r].todo) = Rest(program, p + 1)
  BY <1>5, <1>7, RestOf DEF Statement
<1>9. Tail(runners[r].todo) \in Seq(Statements)
  BY <1>2, HeadTailProperties DEF AtEnd
<1> QED BY <1>3, <1>4, <1>7, <1>8, <1>9

LEMMA NextPlace ==
  ASSUME SchemaInv, NEW r \in Runners, ~AtEnd(r), NEW p, AtStatement(r, p), indexes' = indexes,
         runners'[r].job = runners[r].job, runners'[r].todo = Tail(runners[r].todo)
  PROVE  AtStatement(r, p + 1)' /\ ProgramOf(r)' = ProgramOf(r) /\ p \in Nat
<1>1. ProgramOf(r)' = ProgramOf(r)
  BY DEF ProgramOf, Program, IndexProgram, UpProgram, DownProgram, Items, OfTable
<1>2. p \in 1 .. Len(ProgramOf(r)) /\ Tail(runners[r].todo) = Rest(ProgramOf(r), p + 1)
  BY NextStatement
<1>3. Len(ProgramOf(r)) \in Nat
  BY ProgramStatements, RunnerTyped, IndexesTyped DEF SchemaInv, ProgramOf
<1>4. p + 1 \in 1 .. Len(ProgramOf(r)) + 1
  BY <1>2, <1>3
<1> QED BY <1>1, <1>2, <1>4 DEF AtStatement

(* A statement is done: what it changes of its runner keeps the rest. *)
LEMMA AdvanceKeeps ==
  ASSUME SchemaInv, NEW r \in Runners, UNCHANGED <<properties, indexes, catalog>>,
         NEW new \in RunnerRecords, runners' = [runners EXCEPT ![r] = new],
         new.locks = runners[r].locks, Sound(r)'
  PROVE  SchemaInv'
<1>1. Typed
  BY DEF SchemaInv
<1>2. OthersKept(r) /\ runners'[r] = new
  BY <1>1, OthersKeptSame
<1>3. runners' \in [Runners -> RunnerRecords]
  BY <1>1 DEF Typed
<1>4. LocksApart'
  BY <1>2, LocksStayApart
<1>5. Typed' /\ SchemaWhole'
  BY <1>1, <1>3, TypedKept, WholeKept DEF Typed, SchemaInv
<1> QED BY <1>2, <1>4, <1>5, OthersSound DEF SchemaInv

LEMMA BeginAgainKeeps ==
  ASSUME SchemaInv, NEW r \in Runners, BeginAgain(r)
  PROVE  SchemaInv'
<1>1. /\ Typed /\ Sound(r) /\ UNCHANGED <<properties, indexes, catalog>>
      /\ Running(r) /\ ~AtEnd(r) /\ Statement(r).op = "begin"
  BY DEF SchemaInv, BeginAgain
<1> DEFINE new == [runners[r] EXCEPT !.todo = Tail(runners[r].todo)]
<1>2. runners' = [runners EXCEPT ![r] = new]
  BY DEF BeginAgain
<1>3. OthersKept(r) /\ runners'[r] = new
  BY <1>1, <1>2, OthersKeptSame
<1>4. PICK p \in Nat : AtStatement(r, p)
  BY <1>1 DEF Sound, AtSome
<1>5. JobStatement(runners[r].job, Statement(r)) /\ Tail(runners[r].todo) \in Seq(Statements)
  BY <1>1, <1>4, NextStatement
<1>6. runners[r].job = "create"
  <2>1. runners[r].job \in JobNames
    BY <1>1, RunnerTyped
  <2>2. /\ \A o : Make(o).op # "begin" /\ Drop(o).op # "begin" /\ Count(o).op # "begin"
    BY StatementShapes
  <2> QED BY <1>1, <1>5, <2>1, <2>2 DEF JobStatement, JobNames, Makes, Drops
<1>7. /\ new \in RunnerRecords /\ new.job = runners[r].job /\ new.todo = Tail(runners[r].todo)
      /\ new.status = runners[r].status /\ new.locks = runners[r].locks
      /\ new.added = runners[r].added /\ new.dropped = runners[r].dropped
  <2>1. runners[r] \in RunnerRecords
    BY <1>1, RunnerTyped
  <2> QED BY <1>5, <2>1 DEF RunnerRecords
<1> HIDE DEF new
<1>8. PICK q \in Nat : AtStatement(r, q) /\ Made(r, q)
  BY <1>1, <1>6 DEF Sound, Work, Open, Running
<1>9. AtStatement(r, q + 1)' /\ ProgramOf(r)' = ProgramOf(r)
  BY <1>1, <1>3, <1>7, <1>8, NextPlace
<1>10. Made(r, q + 1)'
  <2>1. ASSUME NEW k \in 1 .. q, ProgramOf(r)[k].op = "make"
        PROVE  ProgramOf(r)[k].on \in runners[r].added
    <3>1. Statement(r) = ProgramOf(r)[q]
      BY <1>1, <1>8, NextStatement
    <3>2. k # q
      BY <1>1, <2>1, <3>1
    <3> QED BY <2>1, <3>2, <1>8 DEF Made
  <2>2. runners[r].dropped = {} /\ (runners[r].job = "create" => runners[r].added \subseteq Tables)
    BY <1>8 DEF Made
  <2>3. q + 1 - 1 = q
    OBVIOUS
  <2> QED BY <2>1, <2>2, <2>3, <1>3, <1>7, <1>9 DEF Made, Tables
<1>11. AtSome(r)' /\ Work(r)'
  <2>1. q + 1 \in Nat
    OBVIOUS
  <2> QED BY <2>1, <1>3, <1>6, <1>7, <1>9, <1>10 DEF AtSome, Work
<1>12. Idle(r)' /\ Covered(r)'
  BY <1>1, <1>3, <1>7 DEF Sound, Idle, Covered, Running
<1> QED BY <1>1, <1>2, <1>7, <1>11, <1>12, AdvanceKeeps DEF Sound

(***************************************************************************)
(* The statements of a job that adds the search fields.                    *)
(***************************************************************************)
LEMMA AddingStatement ==
  ASSUME SchemaInv, NEW r \in Runners, runners[r].job = "index", Indexing(r), ~AtEnd(r)
  PROVE  \E i \in 1 .. Len(indexes), k \in 0 .. 2 :
           /\ Adding(r, i, k)
           /\ Statement(r) = IF k = 0 THEN Count(Field(i))
                             ELSE IF k = 1 THEN Make(Field(i)) ELSE Make(FieldIndex(i))
           /\ Tail(runners[r].todo) = Rest(IndexProgram, 3 * i + k - 1)
           /\ Tail(runners[r].todo) \in Seq(Statements)
<1>1. Typed /\ IndexTyped
  BY IndexesTyped DEF SchemaInv
<1>2. PICK n \in Nat : n = Len(indexes)
  BY <1>1 DEF IndexTyped
<1>3. PICK i \in 1 .. n, k \in 0 .. 2 : Adding(r, i, k)
  BY <1>2 DEF Indexing, AllAdded, AtEnd
<1>4. /\ IndexProgram \in Seq(Statements) /\ Len(IndexProgram) = 3 * n
      /\ IndexProgram[3 * i - 2] = Count(Field(i)) /\ IndexProgram[3 * i - 1] = Make(Field(i))
      /\ IndexProgram[3 * i] = Make(FieldIndex(i))
  BY <1>1, <1>2, IndexesInThrees DEF IndexInThrees
<1>5. PICK p : p = 3 * i + k - 2
  OBVIOUS
<1>6. p \in 1 .. Len(IndexProgram) /\ p + 1 = 3 * i + k - 1
  BY <1>4, <1>5
<1>7. runners[r].todo = Rest(IndexProgram, p)
  BY <1>3, <1>5 DEF Adding
<1>8. Statement(r) = IndexProgram[p] /\ Tail(runners[r].todo) = Rest(IndexProgram, p + 1)
  BY <1>4, <1>6, <1>7, RestOf DEF Statement
<1>9. Statement(r) = IF k = 0 THEN Count(Field(i))
                     ELSE IF k = 1 THEN Make(Field(i)) ELSE Make(FieldIndex(i))
  <2>1. CASE k = 0
    BY <2>1, <1>4, <1>5, <1>8
  <2>2. CASE k = 1
    BY <2>2, <1>4, <1>5, <1>8
  <2>3. CASE k = 2
    BY <2>3, <1>4, <1>5, <1>8
  <2> QED BY <2>1, <2>2, <2>3
<1>10. Tail(runners[r].todo) \in Seq(Statements)
  <2>1. runners[r].todo \in Seq(Statements)
    BY <1>1, RunnerTyped
  <2> QED BY <2>1, HeadTailProperties DEF AtEnd
<1> QED BY <1>2, <1>3, <1>6, <1>8, <1>9, <1>10

(* The first fields do not have the next, if each has its own column. *)
LEMMA NextFieldNew ==
  ASSUME IndexTyped, OwnColumns, NEW i \in 1 .. Len(indexes)
  PROVE  Field(i) \notin FirstFields(i - 1)
<1>1. SUFFICES ASSUME Field(i) \in FirstFields(i - 1) PROVE FALSE
  OBVIOUS
<1>2. PICK j \in 1 .. i - 1 : Field(i) = Field(j) \/ Field(i) = FieldIndex(j)
  BY <1>1 DEF FirstFields
<1>3. Field(i) # FieldIndex(j)
  BY ObjectsApart DEF Field, FieldIndex
<1>4. i \in DOMAIN indexes /\ j \in DOMAIN indexes
  BY DEF IndexTyped
<1> QED BY <1>2, <1>3, <1>4, FieldsDiffer

(* A field that is found is the first, and everything is there. *)
LEMMA FoundIsFirst ==
  ASSUME SchemaInv, OwnColumns, NEW r \in Runners, Indexing(r), NEW i \in 1 .. Len(indexes),
         Adding(r, i, 0), Field(i) \in View(r)
  PROVE  i = 1 /\ catalog = FullSchema
<1>1. Typed /\ IndexTyped
  BY IndexesTyped DEF SchemaInv
<1>2. runners[r].added = FirstFields(i - 1)
  BY DEF Adding
<1>3. Field(i) \in catalog
  BY <1>1, <1>2, NextFieldNew DEF View
<1>4. Field(i) \notin Tables
  BY ObjectsApart DEF Tables, Field
<1>5. catalog = FullSchema
  BY <1>3, <1>4 DEF SchemaInv, SchemaWhole
<1>6. i = 1
  <2>1. SUFFICES ASSUME i # 1 PROVE FALSE
    OBVIOUS
  <2>2. 1 \in 1 .. i - 1 /\ 1 \in DOMAIN indexes
    BY <1>1, <2>1 DEF IndexTyped
  <2>3. Field(1) \in runners[r].added
    BY <1>2, <2>2 DEF FirstFields
  <2>4. Field(1) \in catalog
    BY <1>1, <1>5, <2>2, SchemaObjects
  <2> QED BY <2>3, <2>4 DEF SchemaInv, Sound, Covered
<1> QED BY <1>5, <1>6

LEMMA CountKeeps ==
  ASSUME SchemaInv, NEW r \in Runners, CountColumn(r)
  PROVE  SchemaInv'
<1>1. /\ Typed /\ Sound(r) /\ UNCHANGED <<properties, indexes, catalog>>
      /\ Running(r) /\ ~AtEnd(r) /\ Statement(r).op = "count" /\ IndexTyped
  BY IndexesTyped DEF SchemaInv, CountColumn
<1> DEFINE rest == IF Statement(r).on \in View(r) THEN <<>> ELSE Tail(runners[r].todo)
           new  == [runners[r] EXCEPT !.todo = rest]
<1>2. runners' = [runners EXCEPT ![r] = new]
  BY DEF CountColumn
<1>3. OthersKept(r) /\ runners'[r] = new
  BY <1>1, <1>2, OthersKeptSame
<1>4. PICK p \in Nat : AtStatement(r, p)
  BY <1>1 DEF Sound, AtSome
<1>5. JobStatement(runners[r].job, Statement(r)) /\ Tail(runners[r].todo) \in Seq(Statements)
  BY <1>1, <1>4, NextStatement
<1>6. runners[r].job = "index"
  <2>1. runners[r].job \in JobNames
    BY <1>1, RunnerTyped
  <2>2. BeginTx.op # "count" /\ \A o : Make(o).op # "count" /\ Drop(o).op # "count"
    BY StatementShapes
  <2>3. runners[r].job # "create"
    BY <1>1, <1>5, <2>2 DEF JobStatement
  <2>4. runners[r].job # "up"
    BY <1>1, <1>5, <2>2 DEF JobStatement, Makes
  <2>5. runners[r].job # "down"
    BY <1>1, <1>5, <2>2 DEF JobStatement, Drops
  <2> QED BY <2>1, <2>3, <2>4, <2>5 DEF JobNames
<1>7. /\ new \in RunnerRecords /\ new.job = runners[r].job /\ new.todo = rest
      /\ new.status = runners[r].status /\ new.locks = runners[r].locks
      /\ new.added = runners[r].added /\ new.dropped = runners[r].dropped
  <2>1. runners[r] \in RunnerRecords
    BY <1>1, RunnerTyped
  <2>2. rest \in Seq(Statements)
    BY <1>5
  <2> QED BY <2>1, <2>2 DEF RunnerRecords
<1>8. Indexing(r)
  BY <1>1, <1>6 DEF Sound, Work, Open, Running
<1>9. PICK i \in 1 .. Len(indexes), k \in 0 .. 2 :
        /\ Adding(r, i, k)
        /\ Statement(r) = IF k = 0 THEN Count(Field(i))
                          ELSE IF k = 1 THEN Make(Field(i)) ELSE Make(FieldIndex(i))
        /\ Tail(runners[r].todo) = Rest(IndexProgram, 3 * i + k - 1)
  BY <1>1, <1>6, <1>8, AddingStatement
<1>10. k = 0 /\ Statement(r).on = Field(i)
  BY <1>1, <1>9, StatementShapes
<1>11. /\ runners'[r].job = runners[r].job /\ runners'[r].todo = rest
       /\ runners'[r].added = runners[r].added /\ runners'[r].dropped = runners[r].dropped
       /\ runners'[r].locks = runners[r].locks /\ runners'[r].status = runners[r].status
  BY <1>3, <1>7
<1>12. (\A m : FirstFields(m)' = FirstFields(m)) /\ IndexProgram' = IndexProgram
       /\ OwnColumns' = OwnColumns /\ \A j : Field(j)' = Field(j)
  BY <1>1, SchemaKept DEF FirstFields, Field, FieldIndex, IndexProgram
<1>13. Indexing(r)'
  <2>1. CASE Field(i) \in View(r)
    <3>1. runners'[r].todo = <<>>
      BY <2>1, <1>10, <1>11
    <3>2. PICK m : m = i - 1
      OBVIOUS
    <3>3. m \in 0 .. Len(indexes)
      BY <3>2, <1>1 DEF IndexTyped
    <3>4. runners'[r].added = FirstFields(m)
      BY <3>2, <1>9, <1>10, <1>11 DEF Adding
    <3>5. OwnColumns => m = 0
      BY <2>1, <3>2, <1>8, <1>9, <1>10, FoundIsFirst
    <3>6. AllAdded(r)'
      BY <3>1, <3>3, <3>4, <3>5, <1>1, <1>12 DEF AllAdded
    <3> QED BY <3>6, <1>1, <1>8, <1>11 DEF Indexing
  <2>2. CASE Field(i) \notin View(r)
    <3>1. runners'[r].todo = Rest(IndexProgram, 3 * i + 1 - 2)
      BY <2>2, <1>9, <1>10, <1>11
    <3>2. runners'[r].added = FirstFields(i - 1)
      BY <1>9, <1>10, <1>11 DEF Adding
    <3>3. Adding(r, i, 1)'
      BY <3>1, <3>2, <1>12 DEF Adding
    <3>4. i \in 1 .. Len(indexes)' /\ 1 \in 0 .. 2
      BY <1>1
    <3> QED BY <3>3, <3>4, <1>1, <1>8, <1>11 DEF Indexing
  <2> QED BY <2>1, <2>2
<1>14. AtSome(r)'
  <2>1. CASE rest = <<>>
    <3>1. ProgramOf(r)' = ProgramOf(r)
      BY <1>1, <1>11 DEF ProgramOf, Program, IndexProgram, UpProgram, DownProgram, Items, OfTable
    <3>2. ProgramOf(r) \in Seq(Statements)
      BY <1>1, ProgramStatements, RunnerTyped DEF ProgramOf
    <3>3. PICK m : m = Len(ProgramOf(r)) + 1
      OBVIOUS
    <3>4. m \in Nat /\ m \in 1 .. Len(ProgramOf(r)) + 1 /\ Rest(ProgramOf(r), m) = <<>>
      BY <3>2, <3>3, RestAll
    <3>5. AtStatement(r, m)'
      BY <2>1, <3>1, <3>4, <1>11 DEF AtStatement
    <3> QED BY <3>4, <3>5 DEF AtSome
  <2>2. CASE rest = Tail(runners[r].todo)
    <3>1. AtStatement(r, p + 1)'
      BY <2>2, <1>1, <1>4, <1>11, NextPlace
    <3>2. p + 1 \in Nat
      OBVIOUS
    <3> QED BY <3>1, <3>2 DEF AtSome
  <2> QED BY <2>1, <2>2
<1>15. Work(r)'
  BY <1>6, <1>11, <1>13 DEF Work
<1>16. Idle(r)' /\ Covered(r)'
  BY <1>1, <1>11 DEF Sound, Idle, Covered, Running
<1> HIDE DEF new
<1> QED BY <1>1, <1>2, <1>7, <1>14, <1>15, <1>16, AdvanceKeeps DEF Sound

(***************************************************************************)
(* A statement that is accepted.                                           *)
(***************************************************************************)
Executing(r) ==
  /\ Running(r) /\ ~AtEnd(r) /\ Statement(r).op \in {"make", "drop"}
  /\ \A table \in Locked(Statement(r)) : Held(r, table)
  /\ Accepted(Statement(r), View(r)) /\ Applied(r)
  /\ UNCHANGED <<properties, indexes, leaked, faults>>

LEMMA ExecutingSplit ==
  ASSUME NEW r, Execute(r)
  PROVE  \/ Executing(r)
         \/ ~Accepted(Statement(r), View(r)) /\ Ends(r, "failed")
            /\ UNCHANGED <<properties, indexes, catalog>>
<1>1. CASE Accepted(Statement(r), View(r))
  BY <1>1 DEF Execute, Executing
<1>2. CASE ~Accepted(Statement(r), View(r))
  BY <1>2 DEF Execute
<1> QED BY <1>1, <1>2

(* The object of a statement, and the lock on its table. *)
LEMMA StatementObject ==
  ASSUME SchemaInv, NEW r \in Runners, Running(r), ~AtEnd(r),
         Statement(r).op \in {"make", "drop"}
  PROVE  /\ Statement(r).on \in FullSchema /\ Statement(r).on[2] \in Locked(Statement(r))
         /\ Statement(r) = IF Statement(r).op = "make" THEN Make(Statement(r).on)
                           ELSE Drop(Statement(r).on)
         /\ Statement(r).op = "make" => runners[r].job \in {"create", "up", "index"}
         /\ Statement(r).op = "drop" => runners[r].job = "down"
         /\ runners[r].job = "create" => Statement(r).on \in Tables
<1>1. Typed /\ IndexTyped /\ Sound(r)
  BY IndexesTyped DEF SchemaInv
<1>2. PICK p \in Nat : AtStatement(r, p)
  BY <1>1 DEF Sound, AtSome
<1>3. JobStatement(runners[r].job, Statement(r))
  BY <1>2, NextStatement
<1>4. runners[r].job \in JobNames
  BY <1>1, RunnerTyped
<1>5. Tables \subseteq FullSchema
  BY DEF FullSchema
<1>6. \A o : /\ Make(o).op = "make" /\ Make(o).on = o /\ Drop(o).op = "drop" /\ Drop(o).on = o
             /\ Count(o).op = "count" /\ BeginTx.op = "begin"
  BY StatementShapes
<1>7. CASE runners[r].job = "create"
  <2>1. PICK o \in Tables : Statement(r) = Make(o)
    BY <1>3, <1>6, <1>7 DEF JobStatement
  <2>2. Statement(r).op = "make" /\ Statement(r).on = o
    BY <2>1, <1>6
  <2>3. o \in FullSchema
    BY <1>5
  <2>4. o[2] \in Locked(Statement(r))
    <3>1. o[2] \in TableNames
      BY <1>1, <2>3, SchemaObjects
    <3> QED BY <2>2, <3>1 DEF Locked, TableNames
  <2> QED BY <1>7, <2>1, <2>2, <2>3, <2>4
<1>8. CASE runners[r].job \in {"up", "index"}
  <2>1. PICK o \in FullSchema : Statement(r) = Make(o)
    BY <1>3, <1>6, <1>8 DEF JobStatement, Makes
  <2>2. Statement(r).op = "make" /\ Statement(r).on = o
    BY <2>1, <1>6
  <2>3. o[2] \in Locked(Statement(r))
    <3>1. o[2] \in TableNames
      BY <1>1, SchemaObjects
    <3> QED BY <2>2, <3>1 DEF Locked, TableNames
  <2> QED BY <1>8, <2>1, <2>2, <2>3
<1>9. CASE runners[r].job = "down"
  <2>1. PICK o \in FullSchema : Statement(r) = Drop(o)
    BY <1>3, <1>9 DEF JobStatement, Drops
  <2>2. Statement(r).op = "drop" /\ Statement(r).on = o
    BY <2>1, <1>6
  <2>3. o[2] \in Locked(Statement(r))
    <3>1. o[2] \in TableNames
      BY <1>1, SchemaObjects
    <3> QED BY <2>2, <3>1 DEF Locked, TableNames
  <2> QED BY <1>9, <2>1, <2>2, <2>3
<1> QED BY <1>4, <1>7, <1>8, <1>9 DEF JobNames

(* What a statement makes of its runner. *)
Executed(r, added, dropped) ==
  [runners[r] EXCEPT !.todo = Tail(runners[r].todo), !.added = added, !.dropped = dropped]

LEMMA ExecutedFields ==
  ASSUME SchemaInv, NEW r \in Runners, Running(r), ~AtEnd(r),
         NEW added \in SUBSET FullSchema, NEW dropped \in SUBSET FullSchema,
         UNCHANGED <<properties, indexes, catalog>>,
         runners' = [runners EXCEPT ![r] = Executed(r, added, dropped)]
  PROVE  /\ Executed(r, added, dropped) \in RunnerRecords
         /\ Executed(r, added, dropped).locks = runners[r].locks
         /\ runners'[r].job = runners[r].job /\ runners'[r].todo = Tail(runners[r].todo)
         /\ runners'[r].added = added /\ runners'[r].dropped = dropped
         /\ runners'[r].locks = runners[r].locks /\ runners'[r].status = runners[r].status
         /\ AtSome(r)'
<1>1. Typed
  BY DEF SchemaInv
<1>2. PICK p \in Nat : AtStatement(r, p)
  BY DEF SchemaInv, Sound, AtSome
<1>3. Tail(runners[r].todo) \in Seq(Statements)
  BY <1>2, NextStatement
<1>4. runners[r] \in RunnerRecords
  BY <1>1, RunnerTyped
<1>5. PICK new : new = Executed(r, added, dropped)
  OBVIOUS
<1>6. /\ new \in RunnerRecords /\ new.job = runners[r].job /\ new.todo = Tail(runners[r].todo)
      /\ new.status = runners[r].status /\ new.locks = runners[r].locks
      /\ new.added = added /\ new.dropped = dropped
  BY <1>3, <1>4, <1>5 DEF RunnerRecords, Executed
<1>7. runners'[r] = new
  BY <1>1, <1>5 DEF Typed
<1>8. AtStatement(r, p + 1)' /\ p + 1 \in Nat
  BY <1>2, <1>6, <1>7, NextPlace
<1>9. AtSome(r)'
  BY <1>8 DEF AtSome
<1> QED BY <1>5, <1>6, <1>7, <1>9

(* A statement that makes an object: it was not there. *)
LEMMA MakeKeeps ==
  ASSUME SchemaInv, NEW r \in Runners, Executing(r), Statement(r).op = "make"
  PROVE  SchemaInv'
<1>1. /\ Typed /\ IndexTyped /\ Sound(r) /\ UNCHANGED <<properties, indexes, catalog>>
      /\ Running(r) /\ ~AtEnd(r)
  BY IndexesTyped DEF SchemaInv, Executing, Applied
<1>2. PICK o \in FullSchema : o = Statement(r).on
  BY <1>1, StatementObject
<1>3. /\ o[2] \in Locked(Statement(r)) /\ Statement(r) = Make(o)
      /\ runners[r].job \in {"create", "up", "index"}
      /\ runners[r].job = "create" => o \in Tables
  BY <1>1, <1>2, StatementObject
<1>4. runners[r].dropped = {}
  BY <1>1, <1>3 DEF Sound, Work, Open, Running, Made, Indexing
<1>5. View(r) = catalog \cup runners[r].added
  BY <1>4 DEF View
<1>6. o \notin catalog /\ o \notin runners[r].added /\ Needs(o) \subseteq catalog \cup runners[r].added
  BY <1>2, <1>5 DEF Executing, Accepted
<1>7. o[2] \in runners[r].locks
  BY <1>3 DEF Executing, Held
<1> DEFINE added == runners[r].added \cup {o}
<1>8. runners' = [runners EXCEPT ![r] = Executed(r, added, {})]
  BY <1>1, <1>2, <1>4 DEF Executing, Applied, Executed, Typed
<1>9. added \in SUBSET FullSchema
  BY <1>1, RunnerTyped
<1> HIDE DEF added
<1>10. /\ Executed(r, added, {}) \in RunnerRecords
       /\ Executed(r, added, {}).locks = runners[r].locks
       /\ runners'[r].job = runners[r].job /\ runners'[r].todo = Tail(runners[r].todo)
       /\ runners'[r].added = added /\ runners'[r].dropped = {}
       /\ runners'[r].locks = runners[r].locks /\ runners'[r].status = runners[r].status
       /\ AtSome(r)'
  <2>1. {} \in SUBSET FullSchema
    OBVIOUS
  <2> QED BY <2>1, <1>1, <1>8, <1>9, ExecutedFields
<1>11. Covered(r)'
  BY <1>1, <1>6, <1>7, <1>10 DEF Sound, Covered, added
<1>12. Idle(r)'
  BY <1>1, <1>10 DEF Idle, Running
<1>13. ASSUME runners[r].job \in {"create", "up"}
       PROVE  \E p \in Nat : AtStatement(r, p)' /\ Made(r, p)'
  <2>1. PICK p \in Nat : AtStatement(r, p) /\ Made(r, p)
    BY <1>1, <1>13 DEF Sound, Work, Open, Running
  <2>2. AtStatement(r, p + 1)' /\ ProgramOf(r)' = ProgramOf(r) /\ p + 1 \in Nat
    BY <1>1, <1>10, <2>1, NextPlace
  <2>3. ASSUME NEW k \in 1 .. p, ProgramOf(r)[k].op = "make"
        PROVE  ProgramOf(r)[k].on \in added
    <3>1. CASE k = p
      <4>1. ProgramOf(r)[k].on = o
        BY <1>1, <1>2, <2>1, <3>1, NextStatement
      <4> QED BY <4>1 DEF added
    <3>2. CASE k # p
      <4>1. k \in 1 .. p - 1
        BY <3>2
      <4> QED BY <4>1, <2>1, <2>3 DEF Made, added
    <3> QED BY <3>1, <3>2
  <2>4. runners[r].job = "create" => added \subseteq Tables
    BY <1>3, <2>1 DEF Made, added
  <2>5. p + 1 - 1 = p
    OBVIOUS
  <2>6. Made(r, p + 1)'
    BY <1>10, <2>2, <2>3, <2>4, <2>5 DEF Made, Tables
  <2> QED BY <2>2, <2>6
<1>14. ASSUME runners[r].job = "index"
       PROVE  Indexing(r)'
  <2>1. Indexing(r)
    BY <1>1, <1>14 DEF Sound, Work, Open, Running
  <2>2. PICK i \in 1 .. Len(indexes), k \in 0 .. 2 :
          /\ Adding(r, i, k)
          /\ Statement(r) = IF k = 0 THEN Count(Field(i))
                            ELSE IF k = 1 THEN Make(Field(i)) ELSE Make(FieldIndex(i))
          /\ Tail(runners[r].todo) = Rest(IndexProgram, 3 * i + k - 1)
    BY <1>1, <1>14, <2>1, AddingStatement
  <2>3. k # 0
    <3>1. Count(Field(i)).op = "count"
      BY StatementShapes
    <3> QED BY <2>2, <3>1
  <2>4. PICK n \in Nat : n = Len(indexes)
    BY <1>1 DEF IndexTyped
  <2>5. (\A m : FirstFields(m)' = FirstFields(m)) /\ IndexProgram' = IndexProgram
         /\ OwnColumns' = OwnColumns /\ (\A j : Field(j)' = Field(j)) /\ Len(indexes)' = n
    BY <1>1, <2>4, SchemaKept DEF FirstFields, Field, FieldIndex, IndexProgram
  <2>6. /\ Field(i)[2] = indexes[i].table /\ FieldIndex(i)[2] = indexes[i].table
        /\ Field(i)[1] = "column" /\ Field(i) # FieldIndex(i)
    BY ObjectShapes, ObjectsApart DEF Field, FieldIndex
  <2>7. CASE k = 1
    <3>1. o = Field(i)
      BY <1>2, <2>2, <2>7, StatementShapes
    <3>2. TableObject(o[2]) \in catalog
      <4>1. TableObject(o[2]) \in catalog \cup runners[r].added
        BY <1>6, <2>6, <3>1 DEF Needs
      <4>2. runners[r].added = FirstFields(i - 1)
        BY <2>2, <2>7 DEF Adding
      <4>3. TableObject(o[2]) \notin FirstFields(i - 1)
        BY ObjectsApart DEF FirstFields, Field, FieldIndex
      <4> QED BY <4>1, <4>2, <4>3
    <3>3. added = FirstFields(i - 1) \cup {Field(i)}
      BY <2>2, <2>7, <3>1 DEF Adding, added
    <3>4. runners'[r].todo = Rest(IndexProgram, 3 * i + 2 - 2)
      <4>1. 3 * i + k - 1 = 3 * i + 2 - 2
        BY <2>7
      <4> QED BY <4>1, <1>10, <2>2
    <3>5. Adding(r, i, 2)'
      BY <1>10, <2>5, <3>3, <3>4 DEF Adding
    <3>6. i \in 1 .. Len(indexes)' /\ 2 \in 0 .. 2
      BY <1>1
    <3>7. \A x \in added : TableObject(x[2]) \in catalog
      BY <2>1, <3>2 DEF Indexing, added
    <3> QED BY <1>1, <1>10, <3>5, <3>6, <3>7 DEF Indexing
  <2>8. CASE k = 2
    <3>1. o = FieldIndex(i)
      BY <1>2, <2>2, <2>8, StatementShapes
    <3>2. runners[r].added = FirstFields(i - 1) \cup {Field(i)}
      BY <2>2, <2>8 DEF Adding
    <3>3. TableObject(o[2]) \in catalog
      <4>1. TableObject(Field(i)[2]) \in catalog
        BY <2>1, <3>2 DEF Indexing
      <4> QED BY <4>1, <2>6, <3>1
    <3>4. \A x \in added : TableObject(x[2]) \in catalog
      BY <2>1, <3>3 DEF Indexing, added
    <3>5. added = FirstFields(i)
      <4>1. \A j \in 1 .. i : j = i \/ j \in 1 .. i - 1
        OBVIOUS
      <4>2. \A j \in 1 .. i - 1 : j \in 1 .. i
        OBVIOUS
      <4>3. i \in 1 .. i
        OBVIOUS
      <4> QED BY <3>1, <3>2, <4>1, <4>2, <4>3 DEF FirstFields, added
    <3>6. runners'[r].todo = Rest(IndexProgram, 3 * i + 1)
      <4>1. 3 * i + k - 1 = 3 * i + 1
        BY <2>8
      <4> QED BY <4>1, <1>10, <2>2
    <3>7. CASE i = n
      <4>1. IndexProgram \in Seq(Statements) /\ Len(IndexProgram) = 3 * n
        BY <1>1, <2>4, IndexesInThrees DEF IndexInThrees
      <4>2. runners'[r].todo = <<>>
        BY <3>6, <3>7, <4>1, RestAll
      <4>3. i \in 0 .. n /\ i \in {0, n}
        BY <3>7
      <4>4. AllAdded(r)'
        BY <4>2, <4>3, <3>5, <1>10, <2>5 DEF AllAdded
      <4> QED BY <4>4, <1>1, <1>10, <3>4 DEF Indexing
    <3>8. CASE i # n
      <4>1. PICK j : j = i + 1
        OBVIOUS
      <4>2. j \in 1 .. n /\ 3 * j + 0 - 2 = 3 * i + 1 /\ j - 1 = i /\ 0 \in 0 .. 2
        BY <2>4, <3>8, <4>1
      <4>3. runners'[r].todo = Rest(IndexProgram, 3 * j + 0 - 2)
        BY <3>6, <4>2
      <4>4. runners'[r].added = FirstFields(j - 1)
        BY <3>5, <4>2, <1>10
      <4>5. Adding(r, j, 0)'
        BY <4>3, <4>4, <2>5 DEF Adding
      <4> QED BY <4>2, <4>5, <1>1, <1>10, <2>5, <3>4 DEF Indexing
    <3> QED BY <3>7, <3>8
  <2> QED BY <2>3, <2>7, <2>8
<1>15. Work(r)'
  BY <1>3, <1>10, <1>13, <1>14 DEF Work
<1> QED BY <1>1, <1>8, <1>10, <1>11, <1>12, <1>15, AdvanceKeeps DEF Sound

(* A statement that drops an object: its parts go with it. *)
LEMMA DropKeeps ==
  ASSUME SchemaInv, NEW r \in Runners, Executing(r), Statement(r).op = "drop"
  PROVE  SchemaInv'
<1>1. /\ Typed /\ IndexTyped /\ Sound(r) /\ UNCHANGED <<properties, indexes, catalog>>
      /\ Running(r) /\ ~AtEnd(r)
  BY IndexesTyped DEF SchemaInv, Executing, Applied
<1>2. PICK o \in FullSchema : o = Statement(r).on
  BY <1>1, StatementObject
<1>3. o[2] \in Locked(Statement(r)) /\ runners[r].job = "down"
  BY <1>1, <1>2, StatementObject
<1>4. PICK p \in Nat : AtStatement(r, p) /\ TakenDown(r, p)
  BY <1>1, <1>3 DEF Sound, Work, Open, Running
<1>5. runners[r].added = {} /\ View(r) = catalog \ runners[r].dropped
  BY <1>4 DEF TakenDown, View
<1>6. o[2] \in runners[r].locks
  BY <1>3 DEF Executing, Held
<1> DEFINE parts == PartsOf(o, View(r))
           dropped == runners[r].dropped \cup parts
<1>7. runners' = [runners EXCEPT ![r] = Executed(r, {}, dropped)]
  <2>1. Statement(r).op # "make"
    OBVIOUS
  <2> QED BY <1>1, <1>2, <1>5, <2>1 DEF Executing, Applied, Executed, Typed
<1>8. parts \subseteq catalog /\ \A x \in parts : PartOf(x, o)
  BY <1>5 DEF PartsOf
<1>9. dropped \in SUBSET FullSchema
  BY <1>1, <1>8, RunnerTyped DEF Typed
<1>10. \A x \in FullSchema : PartOf(x, o) => x \notin catalog \ dropped
  BY <1>5 DEF PartsOf
<1> HIDE DEF dropped, parts
<1>11. /\ Executed(r, {}, dropped) \in RunnerRecords
       /\ Executed(r, {}, dropped).locks = runners[r].locks
       /\ runners'[r].job = runners[r].job /\ runners'[r].todo = Tail(runners[r].todo)
       /\ runners'[r].added = {} /\ runners'[r].dropped = dropped
       /\ runners'[r].locks = runners[r].locks /\ runners'[r].status = runners[r].status
       /\ AtSome(r)'
  BY <1>1, <1>7, <1>9, ExecutedFields
<1>12. \A x \in FullSchema : PartOf(x, o) => x[2] \in runners[r].locks
  BY <1>1, <1>6, PartOnTable
<1>13. \A x \in parts : x \in FullSchema /\ x[2] \in runners[r].locks
  BY <1>1, <1>8, <1>12 DEF Typed
<1>14. Covered(r)'
  BY <1>1, <1>8, <1>11, <1>13 DEF Sound, Covered, dropped
<1>15. Idle(r)'
  BY <1>1, <1>11 DEF Idle, Running
<1>16. AtStatement(r, p + 1)' /\ ProgramOf(r)' = ProgramOf(r) /\ p + 1 \in Nat
  BY <1>1, <1>4, <1>11, NextPlace
<1>17. ProgramOf(r)[p].on = o /\ p \in Nat \ {0}
  BY <1>1, <1>2, <1>4, NextStatement
<1>18. View(r)' = catalog \ dropped
  BY <1>1, <1>11 DEF View
<1>19. ASSUME NEW k \in 1 .. p, NEW x \in FullSchema, PartOf(x, ProgramOf(r)[k].on)
       PROVE  x \notin catalog \ dropped /\ x[2] \in runners[r].locks
  <2>1. CASE k = p
    BY <2>1, <1>10, <1>12, <1>17, <1>19
  <2>2. CASE k # p
    <3>1. k \in 1 .. p - 1
      BY <2>2
    <3>2. x \notin View(r) /\ x[2] \in runners[r].locks
      BY <3>1, <1>4, <1>19 DEF TakenDown
    <3> QED BY <3>2, <1>5 DEF dropped
  <2> QED BY <2>1, <2>2
<1>20. ASSUME NEW x \in dropped PROVE \E k \in 1 .. p : PartOf(x, ProgramOf(r)[k].on)
  <2>1. CASE x \in parts
    <3>1. p \in 1 .. p
      BY <1>17
    <3> QED BY <2>1, <3>1, <1>8, <1>17
  <2>2. CASE x \in runners[r].dropped
    <3>1. PICK k \in 1 .. p - 1 : PartOf(x, ProgramOf(r)[k].on)
      BY <2>2, <1>4 DEF TakenDown
    <3>2. k \in 1 .. p
      OBVIOUS
    <3> QED BY <3>1, <3>2
  <2> QED BY <2>1, <2>2 DEF dropped
<1>21. TakenDown(r, p + 1)'
  <2>1. p + 1 - 1 = p
    OBVIOUS
  <2>2. FullSchema' = FullSchema
    BY <1>1, SchemaKept
  <2>3. \A k \in 1 .. p : \A x \in FullSchema :
          PartOf(x, ProgramOf(r)[k].on) => x \notin catalog \ dropped /\ x[2] \in runners[r].locks
    BY <1>19
  <2>4. \A x \in dropped : \E k \in 1 .. p : PartOf(x, ProgramOf(r)[k].on)
    BY <1>20
  <2>5. \A k \in 1 .. p + 1 - 1 : \A x \in FullSchema' :
          PartOf(x, ProgramOf(r)'[k].on) => x \notin View(r)' /\ x[2] \in runners'[r].locks
    BY <2>1, <2>2, <2>3, <1>11, <1>16, <1>18
  <2>6. \A x \in runners'[r].dropped : \E k \in 1 .. p + 1 - 1 : PartOf(x, ProgramOf(r)'[k].on)
    BY <2>1, <2>4, <1>11, <1>16
  <2> QED BY <2>5, <2>6, <1>11 DEF TakenDown, PartOf
<1>22. Work(r)'
  BY <1>3, <1>11, <1>16, <1>21 DEF Work
<1> QED BY <1>1, <1>7, <1>11, <1>14, <1>15, <1>22, AdvanceKeeps DEF Sound

(***************************************************************************)
(* What a transaction sees at its end is a whole schema.                   *)
(***************************************************************************)
Whole(view) ==
  /\ OwnColumns => view \in {{}, Tables, FullSchema}
  /\ Tables \subseteq view \/ view = {}
  /\ \A i \in DOMAIN indexes : Field(i) \in view <=> FieldIndex(i) \in view

LEMMA WholeIs == SchemaWhole <=> Whole(catalog)
  BY DEF SchemaWhole, Whole, Field, FieldIndex

LEMMA FieldsNoTables ==
  ASSUME NEW i
  PROVE  Field(i) \notin Tables /\ FieldIndex(i) \notin Tables
  BY ObjectsApart DEF Tables, Field, FieldIndex

LEMMA FirstFieldsPaired ==
  ASSUME NEW i, NEW n
  PROVE  Field(i) \in FirstFields(n) <=> FieldIndex(i) \in FirstFields(n)
<1>1. \A j : Field(i) # FieldIndex(j) /\ (Field(i) = Field(j) <=> FieldIndex(i) = FieldIndex(j))
  BY ObjectsApart DEF Field, FieldIndex
<1>2. \A j : Field(j) # FieldIndex(i)
  BY ObjectsApart DEF Field, FieldIndex
<1> QED BY <1>1, <1>2 DEF FirstFields

(* At the end of a program. *)
LEMMA AtLast ==
  ASSUME SchemaInv, NEW r \in Runners, AtEnd(r), NEW p, AtStatement(r, p)
  PROVE  p = Len(ProgramOf(r)) + 1 /\ DOMAIN ProgramOf(r) = 1 .. p - 1
<1>1. ProgramOf(r) \in Seq(Statements)
  BY ProgramStatements, RunnerTyped, IndexesTyped DEF SchemaInv, ProgramOf
<1>2. p = Len(ProgramOf(r)) + 1
  <2>1. SUFFICES ASSUME p # Len(ProgramOf(r)) + 1 PROVE FALSE
    OBVIOUS
  <2>2. p \in 1 .. Len(ProgramOf(r))
    BY <1>1, <2>1 DEF AtStatement
  <2> QED BY <1>1, <2>2, RestOf DEF AtStatement, AtEnd
<1> QED BY <1>1, <1>2

LEMMA IndexedAtEnd ==
  ASSUME SchemaInv, NEW r \in Runners, AtEnd(r), Indexing(r)
  PROVE  AllAdded(r)
<1>1. SUFFICES ASSUME NEW i \in 1 .. Len(indexes), NEW k \in 0 .. 2, Adding(r, i, k) PROVE FALSE
  BY DEF Indexing
<1>2. IndexTyped
  BY IndexesTyped DEF SchemaInv
<1>3. IndexProgram \in Seq(Statements) /\ Len(IndexProgram) = 3 * Len(indexes) /\ Len(indexes) \in Nat
  BY <1>2, IndexesInThrees DEF IndexInThrees, IndexTyped
<1>4. 3 * i + k - 2 \in 1 .. Len(IndexProgram)
  BY <1>3
<1> QED BY <1>1, <1>3, <1>4, RestOf DEF Adding, AtEnd

(* A job that ran over all fields has everything. *)
LEMMA AllAddedFull ==
  ASSUME SchemaInv, OwnColumns, NEW r \in Runners, Indexing(r),
         runners[r].added = FirstFields(Len(indexes)), indexes # <<>>
  PROVE  View(r) = FullSchema
<1>1. Typed /\ IndexTyped
  BY IndexesTyped DEF SchemaInv
<1>2. PICK n \in Nat : n = Len(indexes) /\ DOMAIN indexes = 1 .. n
  BY <1>1 DEF IndexTyped
<1>3. 1 \in 1 .. n
  BY <1>1, <1>2 DEF IndexTyped
<1>4. Field(1) \in runners[r].added
  BY <1>2, <1>3 DEF FirstFields
<1>5. catalog # {} /\ Field(1) \notin catalog
  BY <1>4 DEF Indexing, SchemaInv, Sound, Covered
<1>6. Field(1) \in FullSchema
  BY <1>1, <1>2, <1>3, SchemaObjects
<1>7. catalog = Tables
  BY <1>5, <1>6 DEF SchemaInv, SchemaWhole
<1>8. FullSchema = Tables \cup FirstFields(n)
  BY <1>1, <1>2, SchemaObjects DEF FirstFields
<1> QED BY <1>2, <1>7, <1>8 DEF View, Indexing

(* A job that took everything down sees nothing. *)
LEMMA DownSeesNothing ==
  ASSUME SchemaInv, NEW r \in Runners, Running(r), AtEnd(r), runners[r].job = "down"
  PROVE  View(r) = {}
<1>1. Typed /\ IndexTyped /\ Sound(r)
  BY IndexesTyped DEF SchemaInv
<1>2. PICK p \in Nat : AtStatement(r, p) /\ TakenDown(r, p)
  BY <1>1 DEF Sound, Work, Open, Running
<1>3. DOMAIN ProgramOf(r) = 1 .. p - 1
  BY <1>2, AtLast
<1>4. ProgramOf(r) = DownProgram
  BY DEF ProgramOf, Program
<1>5. ASSUME NEW o \in FullSchema PROVE o \notin View(r)
  <2>1. o[2] \in TableNames
    BY <1>1, SchemaObjects
  <2>2. PICK k \in 1 .. p - 1 : DownProgram[k] = Drop(TableObject(o[2]))
    BY <1>1, <1>3, <1>4, <2>1, DownDropsAll DEF DownDrops
  <2>3. PartOf(o, DownProgram[k].on)
    BY <1>1, <2>2, PartOfTable, StatementShapes
  <2> QED BY <1>2, <1>4, <2>3 DEF TakenDown
<1>6. View(r) \subseteq FullSchema
  BY <1>1, RunnerTyped DEF View, Typed
<1> QED BY <1>5, <1>6

LEMMA CommitsWhole ==
  ASSUME SchemaInv, NEW r \in Runners, Running(r), AtEnd(r)
  PROVE  Whole(View(r)) /\ View(r) \subseteq FullSchema
<1>1. Typed /\ IndexTyped /\ Sound(r) /\ Whole(catalog)
  BY IndexesTyped, WholeIs DEF SchemaInv
<1>2. View(r) \subseteq FullSchema
  BY <1>1, RunnerTyped DEF View, Typed
<1>3. runners[r].job \in JobNames
  BY <1>1, RunnerTyped
<1>4. \A i \in DOMAIN indexes : Field(i) \in FullSchema /\ FieldIndex(i) \in FullSchema
  BY <1>1, SchemaObjects
<1>5. Tables # {} /\ Tables \subseteq FullSchema
  BY DEF Tables, FullSchema
<1>6. CASE runners[r].job = "create"
  <2>1. PICK p \in Nat : AtStatement(r, p) /\ Made(r, p)
    BY <1>1, <1>6 DEF Sound, Work, Open, Running
  <2>2. ProgramOf(r) = CreateProgram /\ 1 .. p - 1 = DOMAIN CreateProgram
    BY <1>6, <2>1, AtLast DEF ProgramOf, Program
  <2>3. 2 \in 1 .. p - 1 /\ 3 \in 1 .. p - 1
    BY <2>2, CreateMakesTables
  <2>4. Tables \subseteq runners[r].added
    <3>1. /\ CreateProgram[2].op = "make" /\ CreateProgram[2].on = TableObject("state")
          /\ CreateProgram[3].op = "make" /\ CreateProgram[3].on = TableObject("event")
      BY CreateMakesTables, StatementShapes
    <3> QED BY <2>1, <2>2, <2>3, <3>1 DEF Made, Tables
  <2>5. runners[r].added = Tables /\ runners[r].dropped = {}
    BY <1>6, <2>1, <2>4 DEF Made
  <2>6. catalog = {}
    BY <1>1, <1>5, <2>5 DEF Sound, Covered, Whole
  <2>7. View(r) = Tables
    BY <2>5, <2>6 DEF View
  <2> QED BY <1>2, <2>7, FieldsNoTables DEF Whole
<1>7. CASE runners[r].job = "up"
  <2>1. PICK p \in Nat : AtStatement(r, p) /\ Made(r, p)
    BY <1>1, <1>7 DEF Sound, Work, Open, Running
  <2>2. ProgramOf(r) = UpProgram /\ 1 .. p - 1 = DOMAIN UpProgram
    BY <1>7, <2>1, AtLast DEF ProgramOf, Program
  <2>3. FullSchema \subseteq runners[r].added
    <3> SUFFICES ASSUME NEW o \in FullSchema PROVE o \in runners[r].added
      OBVIOUS
    <3>1. PICK k \in 1 .. p - 1 : UpProgram[k] = Make(o)
      BY <1>1, <2>2, UpMakesAll DEF UpMakes
    <3>2. UpProgram[k].op = "make" /\ UpProgram[k].on = o
      BY <3>1, StatementShapes
    <3> QED BY <2>1, <2>2, <3>2 DEF Made
  <2>4. View(r) = FullSchema
    BY <1>2, <2>3 DEF View
  <2> QED BY <1>2, <1>4, <1>5, <2>4 DEF Whole
<1>8. CASE runners[r].job = "down"
  <2>1. View(r) = {}
    BY <1>8, DownSeesNothing
  <2> QED BY <1>2, <2>1 DEF Whole
<1>9. CASE runners[r].job = "index"
  <2>1. Indexing(r)
    BY <1>1, <1>9 DEF Sound, Work, Open, Running
  <2>2. PICK i \in 0 .. Len(indexes) :
          runners[r].added = FirstFields(i) /\ (OwnColumns => i \in {0, Len(indexes)})
    BY <2>1, IndexedAtEnd DEF AllAdded
  <2>3. View(r) = catalog \cup FirstFields(i)
    BY <2>1, <2>2 DEF View, Indexing
  <2>4. \A j \in DOMAIN indexes : Field(j) \in View(r) <=> FieldIndex(j) \in View(r)
    BY <1>1, <2>3, FirstFieldsPaired DEF Whole
  <2>5. Tables \subseteq View(r) \/ View(r) = {}
    <3>1. CASE catalog # {}
      BY <1>1, <2>3, <3>1 DEF Whole
    <3>2. CASE catalog = {}
      <4>1. runners[r].added = {}
        BY <2>1, <3>2 DEF Indexing
      <4> QED BY <2>2, <2>3, <3>2, <4>1
    <3> QED BY <3>1, <3>2
  <2>6. OwnColumns => View(r) \in {{}, Tables, FullSchema}
    <3> SUFFICES ASSUME OwnColumns PROVE View(r) \in {{}, Tables, FullSchema}
      OBVIOUS
    <3>1. CASE i = 0
      <4>1. FirstFields(i) = {}
        BY <3>1 DEF FirstFields
      <4> QED BY <1>1, <2>3, <4>1 DEF Whole
    <3>2. CASE i # 0
      <4>1. i = Len(indexes) /\ indexes # <<>>
        BY <1>1, <2>2, <3>2 DEF IndexTyped
      <4> QED BY <2>1, <2>2, <4>1, AllAddedFull
    <3> QED BY <3>1, <3>2
  <2> QED BY <1>2, <2>4, <2>5, <2>6 DEF Whole
<1> QED BY <1>3, <1>6, <1>7, <1>8, <1>9 DEF JobNames

LEMMA CommitKeeps ==
  ASSUME SchemaInv, NEW r \in Runners, Commit(r)
  PROVE  SchemaInv'
<1>1. /\ Typed /\ IndexTyped /\ Sound(r) /\ UNCHANGED <<properties, indexes>>
      /\ Running(r) /\ AtEnd(r) /\ catalog' = View(r) /\ Ends(r, "done")
  BY IndexesTyped DEF SchemaInv, Commit
<1>2. Whole(View(r)) /\ View(r) \subseteq FullSchema
  BY <1>1, CommitsWhole
<1>3. /\ runners' \in [Runners -> RunnerRecords] /\ runners'[r].locks = {}
      /\ \A s \in Runners \ {r} : runners'[s] = runners[s]
  BY <1>1, EndsFields
<1>4. OthersKept(r)
  <2> SUFFICES ASSUME NEW s \in Runners \ {r}, NEW o \in FullSchema, o[2] \in runners[s].locks
               PROVE  o \in View(r) <=> o \in catalog
    BY <1>1, <1>3 DEF OthersKept
  <2>1. o[2] \notin runners[r].locks
    BY DEF SchemaInv, LocksApart
  <2>2. o \notin runners[r].added /\ o \notin runners[r].dropped
    BY <1>1, <2>1 DEF Sound, Covered
  <2> QED BY <2>2 DEF View
<1>5. Typed'
  BY <1>1, <1>2, <1>3, TypedKept
<1>6. LocksApart'
  BY <1>3, <1>4, LocksStayApart
<1>7. SchemaWhole'
  <2>1. FullSchema' = FullSchema /\ OwnColumns' = OwnColumns
    BY <1>1, SchemaKept
  <2> QED BY <2>1, <1>1, <1>2 DEF SchemaWhole, Whole, Tables, Field, FieldIndex
<1>8. Sound(r)'
  BY <1>1, EndedSound
<1>9. \A s \in Runners \ {r} : Sound(s)'
  BY <1>1, <1>4, OthersSound
<1> QED BY <1>5, <1>6, <1>7, <1>8, <1>9 DEF SchemaInv

LEMMA SchemaInvKept ==
  ASSUME SchemaInv, [Next]_vars
  PROVE  SchemaInv'
<1>1. CASE UNCHANGED vars
  <2>1. FullSchema' = FullSchema /\ OwnColumns' = OwnColumns
    BY <1>1, SchemaKept DEF vars
  <2>2. Typed'
    BY <1>1, TypedKept DEF vars, SchemaInv, Typed
  <2>3. ASSUME NEW s \in Runners PROVE Sound(s)'
    <3>1. Untouched(s)
      BY <1>1 DEF vars, Untouched, Open, Running
    <3> QED BY <3>1, UntouchedSound DEF SchemaInv
  <2>4. LocksApart' /\ SchemaWhole'
    BY <1>1, WholeKept DEF vars, SchemaInv, LocksApart
  <2> QED BY <2>2, <2>3, <2>4 DEF SchemaInv
<1>2. ASSUME NEW r \in Runners, Step(r) \/ Lost(r) PROVE SchemaInv'
  <2>1. CASE Begin(r)
    BY <2>1, BeginKeeps
  <2>2. CASE BeginAgain(r)
    BY <2>2, BeginAgainKeeps
  <2>3. CASE CountColumn(r)
    BY <2>3, CountKeeps
  <2>4. CASE \E table \in TableNames : Lock(r, table)
    BY <2>4, LockKeeps
  <2>5. CASE Execute(r)
    <3>1. CASE Executing(r)
      <4>1. Statement(r).op \in {"make", "drop"}
        BY <3>1 DEF Executing
      <4> QED BY <3>1, <4>1, MakeKeeps, DropKeeps
    <3>2. CASE Ends(r, "failed") /\ UNCHANGED <<properties, indexes, catalog>>
      BY <3>2, FailureKeeps
    <3> QED BY <2>5, <3>1, <3>2, ExecutingSplit
  <2>6. CASE Commit(r)
    BY <2>6, CommitKeeps
  <2>7. CASE Deadlock(r) \/ Lost(r)
    BY <2>7, FailureKeeps DEF Deadlock, Lost
  <2> QED BY <1>2, <2>1, <2>2, <2>3, <2>4, <2>5, <2>6, <2>7 DEF Step, TableNames
<1> QED BY <1>1, <1>2 DEF Next

(***************************************************************************)
(* Connections.                                                            *)
(***************************************************************************)
RunningOnes == {r \in Runners : Running(r)}

LEMMA RunningFinite ==
  /\ IsFiniteSet(RunningOnes) /\ Cardinality(RunningOnes) \in Nat
  /\ Cardinality(RunningOnes) < Pool /\ Pool \in Nat
<1>1. IsFiniteSet(Runners) /\ Pool \in Nat /\ Pool > Cardinality(Runners)
  BY MigrationAssumption DEF MigrationAssumption
<1>2. RunningOnes \in SUBSET Runners
  BY DEF RunningOnes
<1>3. IsFiniteSet(RunningOnes) /\ Cardinality(RunningOnes) <= Cardinality(Runners)
  BY <1>1, <1>2, FS_Subset
<1>4. Cardinality(RunningOnes) \in Nat /\ Cardinality(Runners) \in Nat
  BY <1>1, <1>3, FS_CardinalityType
<1> QED BY <1>1, <1>3, <1>4

LEMMA InitConnected == Init => Connected
<1> SUFFICES ASSUME Init PROVE Connected
  OBVIOUS
<1>1. RunningOnes = {}
  BY DEF Init, RunningOnes, Running
<1>2. leaked = 0 /\ faults = 0 /\ MaxFaults \in Nat
  BY MigrationAssumption DEF Init, MigrationAssumption
<1>3. Cardinality(RunningOnes) = 0
  BY <1>1, FS_EmptySet
<1> QED BY <1>2, <1>3, RunningFinite DEF Connected, RunningOnes

LEMMA ConnectedSame ==
  ASSUME Connected, leaked' = leaked, faults' \in 0 .. MaxFaults,
         RunningOnes' \subseteq RunningOnes
  PROVE  Connected'
<1>1. RunningOnes' \in SUBSET RunningOnes
  OBVIOUS
<1>2. IsFiniteSet(RunningOnes') /\ Cardinality(RunningOnes') <= Cardinality(RunningOnes)
  BY <1>1, RunningFinite, FS_Subset
<1>3. Cardinality(RunningOnes') \in Nat
  BY <1>2, FS_CardinalityType
<1>4. leaked \in Nat /\ leaked + Cardinality(RunningOnes) <= Pool
  BY DEF Connected, RunningOnes
<1>5. leaked + Cardinality(RunningOnes') <= Pool
  BY <1>2, <1>3, <1>4, RunningFinite
<1> QED BY <1>4, <1>5 DEF Connected, RunningOnes

LEMMA ConnectedKept ==
  ASSUME SchemaInv, Connected, [Next]_vars
  PROVE  Connected'
<1>1. Typed /\ leaked \in Nat /\ faults \in 0 .. MaxFaults
      /\ leaked + Cardinality(RunningOnes) <= Pool
  BY DEF SchemaInv, Connected, RunningOnes
<1>2. CASE UNCHANGED vars
  <2>1. RunningOnes' = RunningOnes
    BY <1>2 DEF vars, RunningOnes, Running
  <2> QED BY <1>1, <1>2, <2>1, ConnectedSame DEF vars
<1>3. ASSUME NEW r \in Runners, Step(r) \/ Lost(r) PROVE Connected'
  <2>1. CASE Begin(r)
    <3>1. RunningOnes' = RunningOnes \cup {r} /\ r \notin RunningOnes
      BY <1>1, <2>1 DEF Begin, RunningOnes, Running, Typed
    <3>2. Cardinality(RunningOnes') = Cardinality(RunningOnes) + 1
      BY <3>1, RunningFinite, FS_AddElement
    <3>3. leaked + Cardinality(RunningOnes) < Pool /\ leaked' = leaked /\ faults' = faults
      BY <2>1 DEF Begin, FreeConnection, RunningOnes
    <3>4. leaked' + Cardinality(RunningOnes') <= Pool
      BY <1>1, <3>2, <3>3, RunningFinite
    <3> QED BY <1>1, <3>3, <3>4 DEF Connected, RunningOnes
  <2>2. CASE BeginAgain(r)
    <3>1. RunningOnes' = RunningOnes
      BY <1>1, <2>2 DEF BeginAgain, RunningOnes, Running, Typed
    <3>2. leaked + Cardinality(RunningOnes) < Pool /\ leaked' = leaked + 1 /\ faults' = faults
      BY <2>2 DEF BeginAgain, FreeConnection, RunningOnes
    <3>3. leaked' \in Nat /\ leaked' + Cardinality(RunningOnes) <= Pool
      BY <1>1, <3>2, RunningFinite
    <3> QED BY <1>1, <3>1, <3>2, <3>3 DEF Connected, RunningOnes
  <2>3. CASE CountColumn(r)
    <3>1. RunningOnes' = RunningOnes /\ leaked' = leaked /\ faults' = faults
      BY <1>1, <2>3 DEF CountColumn, RunningOnes, Running, Typed
    <3> QED BY <1>1, <3>1, ConnectedSame
  <2>4. ASSUME NEW table \in TableNames, Lock(r, table) PROVE Connected'
    <3>1. RunningOnes' = RunningOnes /\ leaked' = leaked /\ faults' = faults
      BY <1>1, <2>4 DEF Lock, RunningOnes, Running, Typed
    <3> QED BY <1>1, <3>1, ConnectedSame
  <2>5. ASSUME NEW status \in {"done", "failed"}, Ends(r, status) PROVE RunningOnes' \subseteq RunningOnes
    <3>1. \A s \in Runners \ {r} : runners'[s] = runners[s]
      BY <1>1, <2>5, EndsFields
    <3>2. runners'[r].status = status
      BY <1>1, <2>5, EndsFields
    <3> QED BY <2>5, <3>1, <3>2 DEF RunningOnes, Running
  <2>6. CASE Execute(r)
    <3>1. CASE Executing(r)
      <4>1. RunningOnes' = RunningOnes /\ leaked' = leaked /\ faults' = faults
        BY <1>1, <3>1 DEF Executing, Applied, RunningOnes, Running, Typed
      <4> QED BY <1>1, <4>1, ConnectedSame
    <3>2. CASE Ends(r, "failed")
      <4>1. RunningOnes' \subseteq RunningOnes /\ leaked' = leaked /\ faults' = faults
        BY <2>5, <2>6, <3>2 DEF Execute
      <4> QED BY <1>1, <4>1, ConnectedSame
    <3> QED BY <2>6, <3>1, <3>2, ExecutingSplit
  <2>7. CASE Commit(r) \/ Deadlock(r)
    <3>1. RunningOnes' \subseteq RunningOnes /\ leaked' = leaked /\ faults' = faults
      BY <2>5, <2>7 DEF Commit, Deadlock
    <3> QED BY <1>1, <3>1, ConnectedSame
  <2>8. CASE Lost(r)
    <3>1. RunningOnes' \subseteq RunningOnes /\ leaked' = leaked
      BY <2>5, <2>8 DEF Lost
    <3>2. faults' \in 0 .. MaxFaults
      BY <1>1, <2>8, MigrationAssumption DEF Lost, MigrationAssumption
    <3> QED BY <3>1, <3>2, ConnectedSame
  <2> QED BY <1>3, <2>1, <2>2, <2>3, <2>4, <2>6, <2>7, <2>8 DEF Step, TableNames
<1> QED BY <1>2, <1>3 DEF Next

(***************************************************************************)
(* The properties.                                                         *)
(***************************************************************************)
LEMMA SchemaInvImpliesType ==
  ASSUME SchemaInv, Connected
  PROVE  MigrationTypeOK
<1>1. Typed /\ IndexTyped
  BY IndexesTyped DEF SchemaInv
<1>2. leaked + Cardinality({r \in Runners : Running(r)}) \in 0 .. Pool
  BY RunningFinite DEF Connected, RunningOnes
<1>3. ASSUME NEW r \in Runners
      PROVE  /\ runners[r].status \in {"new", "running", "done", "failed"}
             /\ IsSuffix(runners[r].todo, Program(runners[r].job))
             /\ runners[r].added \cup runners[r].dropped \subseteq FullSchema
             /\ ~Running(r) => runners[r].locks = {}
             /\ \A s \in Runners \ {r} : runners[r].locks \cap runners[s].locks = {}
  <2>1. PICK p \in Nat : AtStatement(r, p)
    BY DEF SchemaInv, Sound, AtSome
  <2>2. ProgramOf(r) \in Seq(Statements)
    BY <1>1, ProgramStatements, RunnerTyped DEF ProgramOf
  <2>3. IsSuffix(runners[r].todo, Program(runners[r].job))
    BY <2>1, <2>2, RestIsSuffix DEF AtStatement, ProgramOf
  <2>4. \A s \in Runners \ {r} : runners[r].locks \cap runners[s].locks = {}
    BY DEF SchemaInv, LocksApart
  <2>5. ~Running(r) => runners[r].locks = {}
    BY DEF SchemaInv, Sound, Idle
  <2> QED BY <1>1, <2>3, <2>4, <2>5, RunnerTyped
<1> QED BY <1>1, <1>2, <1>3 DEF MigrationTypeOK, Typed, Connected

LEMMA SchemaInvariant == Spec => [](SchemaInv /\ Connected)
<1>1. Init => SchemaInv /\ Connected
  BY InitSound, InitConnected
<1>2. SchemaInv /\ Connected /\ [Next]_vars => (SchemaInv /\ Connected)'
  BY SchemaInvKept, ConnectedKept
<1> QED BY <1>1, <1>2, PTL DEF Spec

(***************************************************************************)
(* Connections stay within the limit, what is left of a job is the end of  *)
(* its program, and a table is locked by one job at a time: pgmigrate's    *)
(* transactions, for any number of them.                                   *)
(***************************************************************************)
THEOREM MigrationTypeCorrect == Spec => []MigrationTypeOK
  BY SchemaInvariant, SchemaInvImpliesType, PTL

(***************************************************************************)
(* The committed schema is nothing, the tables or everything, however many *)
(* CreateStateMachines, AddIndexes and printed files run, in any order,    *)
(* and whichever of them fail.                                             *)
(***************************************************************************)
THEOREM SchemaStaysWhole == Spec => []SchemaWhole
<1>1. SchemaInv /\ Connected => SchemaWhole
  BY DEF SchemaInv
<1> QED BY <1>1, SchemaInvariant, PTL

IndexStep ==
  \A r \in Runners :
    OwnColumns /\ runners[r].job = "index" /\ Running(r) /\ ~AtEnd(r) /\ AtEnd(r)'
      => View(r)' = FullSchema

LEMMA IndexesDone ==
  ASSUME SchemaInv, [Next]_vars
  PROVE  IndexStep
<1> SUFFICES ASSUME NEW r \in Runners, OwnColumns, runners[r].job = "index", Running(r),
                    ~AtEnd(r), AtEnd(r)'
             PROVE  View(r)' = FullSchema
  BY DEF IndexStep
<1>1. /\ Typed /\ IndexTyped /\ Sound(r) /\ Indexing(r) /\ runners'[r].todo = <<>>
      /\ runners[r].todo # <<>> /\ runners \in [Runners -> RunnerRecords]
  BY IndexesTyped DEF SchemaInv, Sound, Work, Open, Running, AtEnd, Typed
<1>2. PICK n \in Nat : n = Len(indexes) /\ DOMAIN indexes = 1 .. n
  BY <1>1 DEF IndexTyped
<1>3. PICK i \in 1 .. n, k \in 0 .. 2 :
        /\ Adding(r, i, k)
        /\ Statement(r) = IF k = 0 THEN Count(Field(i))
                          ELSE IF k = 1 THEN Make(Field(i)) ELSE Make(FieldIndex(i))
        /\ Tail(runners[r].todo) = Rest(IndexProgram, 3 * i + k - 1)
  BY <1>1, <1>2, AddingStatement
<1>4. IndexProgram \in Seq(Statements) /\ Len(IndexProgram) = 3 * n
  BY <1>1, <1>2, IndexesInThrees DEF IndexInThrees
<1>5. Tail(runners[r].todo) = <<>> => k = 2 /\ i = n
  <2>1. SUFFICES ASSUME ~(k = 2 /\ i = n) PROVE Tail(runners[r].todo) # <<>>
    OBVIOUS
  <2>2. 3 * i + k - 1 \in 1 .. Len(IndexProgram)
    BY <1>4, <2>1
  <2> QED BY <1>3, <1>4, <2>2, RestOf
<1>6. \E s \in Runners : Step(s) \/ Lost(s)
  BY <1>1 DEF Next, vars
<1>7. PICK s \in Runners : Step(s) \/ Lost(s)
  BY <1>6
<1>8. CASE CountColumn(r)
  <2>1. /\ catalog' = catalog /\ Statement(r).op = "count"
        /\ runners' = [runners EXCEPT ![r].todo =
                         IF Statement(r).on \in View(r) THEN <<>> ELSE Tail(@)]
    BY <1>8 DEF CountColumn
  <2>2. k = 0 /\ Statement(r).on = Field(i)
    BY <1>3, <2>1, StatementShapes
  <2>3. Field(i) \in View(r)
    BY <1>1, <1>5, <2>1, <2>2
  <2>4. i = 1 /\ catalog = FullSchema
    BY <1>1, <1>2, <1>3, <2>2, <2>3, FoundIsFirst
  <2>5. runners[r].added = {} /\ runners[r].dropped = {}
    <3>1. FirstFields(i - 1) = {}
      BY <2>4 DEF FirstFields
    <3> QED BY <1>1, <1>3, <2>2, <3>1 DEF Adding, Indexing
  <2>6. runners'[r].added = runners[r].added /\ runners'[r].dropped = runners[r].dropped
    BY <1>1, <2>1
  <2> QED BY <2>1, <2>4, <2>5, <2>6 DEF View
<1>9. CASE Executing(r)
  <2>1. /\ catalog' = catalog /\ Statement(r).op = "make" /\ runners'[r].todo = Tail(runners[r].todo)
    <3>1. Statement(r).op \in {"make", "drop"} /\ Running(r) /\ ~AtEnd(r)
      BY <1>9 DEF Executing
    <3>2. Statement(r).op = "make"
      BY <3>1, StatementObject
    <3> QED BY <1>1, <1>9, <3>2 DEF Executing, Applied
  <2>2. k = 2 /\ i = n
    BY <1>1, <1>5, <2>1
  <2>3. Statement(r).on = FieldIndex(i)
    BY <1>3, <2>2, StatementShapes
  <2>4. runners[r].dropped = {} /\ runners[r].added = FirstFields(i - 1) \cup {Field(i)}
    BY <1>1, <1>3, <2>2 DEF Adding, Indexing
  <2>5. runners'[r].added = runners[r].added \cup {FieldIndex(i)} /\ runners'[r].dropped = {}
    BY <1>1, <1>9, <2>1, <2>3, <2>4 DEF Executing, Applied
  <2>6. Field(i) \in runners[r].added
    BY <2>4
  <2>7. catalog # {} /\ Field(i) \notin catalog
    BY <1>1, <2>6 DEF Indexing, Sound, Covered
  <2>8. Field(i) \in FullSchema
    BY <1>1, <1>2, SchemaObjects
  <2>9. catalog = Tables
    BY <2>7, <2>8 DEF SchemaInv, SchemaWhole
  <2>10. FullSchema = Tables \cup FirstFields(n)
    BY <1>1, <1>2, SchemaObjects DEF FirstFields
  <2>11. FirstFields(i - 1) \cup {Field(i)} \cup {FieldIndex(i)} = FirstFields(n)
    <3>1. \A j \in 1 .. i : j = i \/ j \in 1 .. i - 1
      OBVIOUS
    <3>2. \A j \in 1 .. i - 1 : j \in 1 .. i
      OBVIOUS
    <3>3. i \in 1 .. i
      OBVIOUS
    <3> QED BY <2>2, <3>1, <3>2, <3>3 DEF FirstFields
  <2> QED BY <2>1, <2>4, <2>5, <2>9, <2>10, <2>11 DEF View
<1>10. CASE ~CountColumn(r) /\ ~Executing(r)
  <2>1. runners'[r].todo = runners[r].todo
    <3>1. CASE BeginAgain(s)
      <4>1. s # r
        <5>1. SUFFICES ASSUME s = r PROVE FALSE
          OBVIOUS
        <5>2. Statement(r).op = "begin"
          BY <3>1, <5>1 DEF BeginAgain
        <5> QED BY <1>3, <5>2, StatementShapes
      <4> QED BY <1>1, <3>1, <4>1 DEF BeginAgain
    <3>2. CASE Begin(s)
      BY <1>1, <3>2 DEF Begin
    <3>3. ASSUME NEW table \in TableNames, Lock(s, table)
          PROVE  runners'[r].todo = runners[r].todo
      BY <1>1, <3>3 DEF Lock
    <3>4. CASE CountColumn(s)
      <4>1. s # r
        BY <1>10, <3>4
      <4> QED BY <1>1, <3>4, <4>1 DEF CountColumn
    <3>5. ASSUME NEW status \in {"done", "failed"}, Ends(s, status)
          PROVE  runners'[r].todo = runners[r].todo
      BY <1>1, <3>5, EndsFields
    <3>6. CASE Execute(s)
      <4>1. CASE Executing(s)
        <5>1. s # r
          BY <1>10, <4>1
        <5> QED BY <1>1, <4>1, <5>1 DEF Executing, Applied
      <4> QED BY <3>5, <3>6, <4>1, ExecutingSplit
    <3>7. CASE Commit(s) \/ Deadlock(s) \/ Lost(s)
      BY <3>5, <3>7 DEF Commit, Deadlock, Lost
    <3> QED BY <1>7, <3>1, <3>2, <3>3, <3>4, <3>6, <3>7 DEF Step, TableNames
  <2> QED BY <1>1, <2>1
<1> QED BY <1>8, <1>9, <1>10

(***************************************************************************)
(* When AddIndexes ends its work, early or not, every field is there.      *)
(***************************************************************************)
THEOREM IndexesAllAdded == Spec => IndexesComplete
<1>1. SchemaInv /\ Connected /\ [Next]_vars => [IndexStep]_vars
  BY IndexesDone
<1>2. Spec => [][IndexStep]_vars
  BY <1>1, SchemaInvariant, PTL DEF Spec
<1> QED BY <1>2 DEF IndexesComplete, IndexStep

DownStep ==
  \A r \in Runners : runners[r].job = "down" /\ Running(r) =>
    /\ OwnColumns /\ Execute(r) /\ catalog = FullSchema => Running(r)'
    /\ Commit(r) => catalog' = {}

LEMMA DownDone ==
  ASSUME SchemaInv, [Next]_vars
  PROVE  DownStep
<1> SUFFICES ASSUME NEW r \in Runners, runners[r].job = "down", Running(r)
             PROVE  /\ OwnColumns /\ Execute(r) /\ catalog = FullSchema => Running(r)'
                    /\ Commit(r) => catalog' = {}
  BY DEF DownStep
<1>1. Typed /\ IndexTyped /\ Sound(r)
  BY IndexesTyped DEF SchemaInv
<1>2. Commit(r) => catalog' = {}
  BY DownSeesNothing DEF Commit
<1>3. ASSUME OwnColumns, Execute(r), catalog = FullSchema PROVE Running(r)'
  <2>1. ~AtEnd(r) /\ Statement(r).op \in {"make", "drop"}
    BY <1>3 DEF Execute
  <2>2. PICK p \in Nat : AtStatement(r, p) /\ TakenDown(r, p)
    BY <1>1 DEF Sound, Work, Open, Running
  <2>3. ProgramOf(r) = DownProgram /\ DownDrops
    BY <1>1, DownDropsAll DEF ProgramOf, Program
  <2>4. p \in DOMAIN DownProgram /\ Statement(r) = DownProgram[p] /\ DOMAIN DownProgram = 1 .. Len(DownProgram)
    BY <2>1, <2>2, <2>3, NextStatement DEF DownDrops
  <2>5. PICK o \in FullSchema : o = Statement(r).on
    BY <2>1, StatementObject
  <2>6. Statement(r).op = "drop"
    BY <2>1, StatementObject
  <2>7. o \notin runners[r].dropped
    <3>1. SUFFICES ASSUME o \in runners[r].dropped PROVE FALSE
      OBVIOUS
    <3>2. PICK k \in 1 .. p - 1 : PartOf(o, DownProgram[k].on)
      BY <2>2, <2>3, <3>1 DEF TakenDown
    <3>3. k \in DOMAIN DownProgram /\ k < p
      BY <2>4
    <3> QED BY <1>3, <2>3, <2>4, <2>5, <3>2, <3>3 DEF DownDrops
  <2>8. o \in View(r)
    BY <1>3, <2>7 DEF View
  <2>9. o = TableObject("state") => TableObject("event") \notin View(r)
    <3> SUFFICES ASSUME o = TableObject("state") PROVE TableObject("event") \notin View(r)
      OBVIOUS
    <3>1. PICK k \in DOMAIN DownProgram : DownProgram[k] = Drop(TableObject("event"))
      BY <2>3 DEF DownDrops, TableNames
    <3>2. DownProgram[k].on = TableObject("event") /\ PartOf(TableObject("event"), DownProgram[k].on)
      BY <3>1, StatementShapes DEF PartOf
    <3>3. k < p
      BY <2>3, <2>4, <2>5, <3>2 DEF DownDrops
    <3>4. k \in 1 .. p - 1 /\ TableObject("event") \in FullSchema
      BY <1>1, <2>4, <3>3, SchemaObjects DEF TableNames
    <3> QED BY <2>2, <2>3, <3>2, <3>4 DEF TakenDown
  <2>10. Accepted(Statement(r), View(r))
    BY <2>5, <2>6, <2>8, <2>9 DEF Accepted
  <2>11. Executing(r)
    BY <1>3, <2>10, ExecutingSplit
  <2> QED BY <1>1, <2>11 DEF Executing, Applied, Running, Typed
<1> QED BY <1>2, <1>3

(***************************************************************************)
(* Taking down a whole schema of fields with columns of their own meets    *)
(* nothing in its way, and leaves nothing.                                 *)
(***************************************************************************)
THEOREM DownIsUndone == Spec => DownUndoesUp
<1>1. SchemaInv /\ Connected /\ [Next]_vars => [DownStep]_vars
  BY DownDone
<1>2. Spec => [][DownStep]_vars
  BY <1>1, SchemaInvariant, PTL DEF Spec
<1> QED BY <1>2 DEF DownUndoesUp, DownStep
=============================================================================
